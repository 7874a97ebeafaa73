--------------------------- MODULE AccessAdmission ---------------------------
(***************************************************************************)
(* The admission of a call to a project: the gateway asks the authorizer,  *)
(* which judges the call by the access policies, counts it in Redis (rate) *)
(* and in the database (quota) and issues a ticket. The project's gateway  *)
(* redeems it. The counters in Redis are void when the volume is lost: an  *)
(* epoch, kept in the database too, tells whether these are still the      *)
(* counters that were started.                                             *)
(***************************************************************************)
EXTENDS Naturals, FiniteSets

CONSTANTS Calls,
          Redeemers,  \* presentations of a call's ticket: the gateway's, and a replay of it
          Burst,      \* rate_limit.burst; nothing is refilled within the horizon
          Limit,      \* request_quota.limit, the first policy's; the next one has half of it
          MaxRevision, MaxEpoch, MaxLosses, MaxStops \* bounds on what else happens

ASSUME AccessAssumption ==
  /\ Burst \in Nat /\ Limit \in Nat
  /\ MaxRevision \in Nat \ {0} /\ MaxEpoch \in Nat \ {0}
  /\ MaxLosses \in Nat /\ MaxStops \in Nat

VARIABLES
  revision,  \* of project_access_policies and slot_access_policies together
  keyLive,   \* the call's key is accepted
  admitted,  \* access_quota_usage of this period
  epochRow,  \* access_rate_epoch: [epoch, initialized]
  redis,     \* [epoch, spent, tickets]; epoch 0: no such key
  engine,    \* AdmissionEngine: [at, epoch]
  call,      \* [at, judged]: how far a call is, the revision it was judged by
  redeem,    \* [at, since, bears]: a presentation, the revision when it came, the ticket's
  spent,     \* how often each epoch let a call pass
  losses, stops

engineVars == <<epochRow, engine, losses, stops>>
countVars  == <<admitted, redis, spent>>
accessVars == <<revision, keyLive, countVars, engineVars, call, redeem>>

Empty == [epoch |-> 0, spent |-> 0, tickets |-> {}]

AccessInit ==
  /\ revision = 1 /\ keyLive = TRUE /\ admitted = 0
  /\ epochRow = [epoch |-> 1, initialized |-> FALSE]
  /\ redis = Empty
  /\ engine = [at |-> "down", epoch |-> 0]
  /\ call = [c \in Calls |-> [at |-> "new", judged |-> 0]]
  /\ redeem = [d \in Calls \X Redeemers |-> [at |-> "new", since |-> 0, bears |-> 0]]
  /\ spent = [e \in 1 .. MaxEpoch |-> 0]
  /\ losses = 0 /\ stops = 0

AccessTypeOK ==
  /\ revision \in 1 .. MaxRevision /\ keyLive \in BOOLEAN /\ admitted \in Nat
  /\ epochRow \in [epoch : 1 .. MaxEpoch, initialized : BOOLEAN]
  /\ redis \in [epoch : 0 .. MaxEpoch, spent : Nat, tickets : SUBSET (Calls \X (1 .. MaxRevision))]
  /\ engine \in [at : {"down", "starting", "up"}, epoch : 0 .. MaxEpoch]
  /\ call \in [Calls -> [at : {"new", "known", "judged", "rated", "counted", "issued", "refused"},
                         judged : 0 .. MaxRevision]]
  /\ redeem \in [Calls \X Redeemers -> [at : {"new", "known", "current", "taken", "forwarded", "refused"},
                                        since : 0 .. MaxRevision, bears : 0 .. MaxRevision]]
  /\ spent \in [1 .. MaxEpoch -> Nat]

-----------------------------------------------------------------------------
(* The authorizer's life, and the loss of Redis. *)

\* Faulty variant: an epoch that Redis does not know is entered again.
BelongsAlways == TRUE

\* startup: counters that were started once are only used if they are still there.
Belongs ==
  IF epochRow.initialized THEN redis.epoch = epochRow.epoch
  ELSE redis = Empty \/ redis.epoch = epochRow.epoch

Startup ==
  /\ engine.at = "down" /\ Belongs
  /\ engine' = [at |-> "starting", epoch |-> epochRow.epoch]
  /\ redis' = [redis EXCEPT !.epoch = IF @ = 0 THEN epochRow.epoch ELSE @]
  /\ UNCHANGED <<revision, keyLive, admitted, spent, epochRow, losses, stops, call, redeem>>

\* initialize_access_rate_epoch, in the transaction of the startup: unless it was stopped.
Started ==
  /\ engine.at = "starting" /\ engine' = [engine EXCEPT !.at = "up"]
  /\ epochRow' = [epochRow EXCEPT !.initialized = @ \/ epochRow.epoch = engine.epoch]
  /\ UNCHANGED <<revision, keyLive, countVars, losses, stops, call, redeem>>

\* The process ends, and the calls it was working on.
Stop ==
  /\ stops < MaxStops /\ stops' = stops + 1 /\ engine.at # "down"
  /\ engine' = [engine EXCEPT !.at = "down"]
  /\ call' = [c \in Calls |-> IF call[c].at \in {"new", "issued"} THEN call[c]
                              ELSE [call[c] EXCEPT !.at = "refused"]]
  /\ redeem' = [d \in Calls \X Redeemers |-> IF redeem[d].at \in {"new", "forwarded"} THEN redeem[d]
                                           ELSE [redeem[d] EXCEPT !.at = "refused"]]
  /\ UNCHANGED <<revision, keyLive, countVars, epochRow, losses>>

\* The volume of Redis is lost, or emptied by the operator.
RedisIsLost ==
  /\ losses < MaxLosses /\ losses' = losses + 1 /\ redis # Empty
  /\ redis' = Empty
  /\ UNCHANGED <<revision, keyLive, admitted, spent, epochRow, engine, stops, call, redeem>>

\* reset_access_rate_epoch: the startup holds the same advisory lock.
ResetEpoch ==
  /\ engine.at # "starting" /\ epochRow.initialized /\ epochRow.epoch < MaxEpoch
  /\ epochRow' = [epoch |-> epochRow.epoch + 1, initialized |-> FALSE]
  /\ UNCHANGED <<revision, keyLive, countVars, engine, losses, stops, call, redeem>>

PolicyChanges ==
  /\ revision < MaxRevision /\ revision' = revision + 1
  /\ UNCHANGED <<keyLive, countVars, engineVars, call, redeem>>

KeyEnds ==
  /\ keyLive /\ keyLive' = FALSE
  /\ UNCHANGED <<revision, countVars, engineVars, call, redeem>>

-----------------------------------------------------------------------------
(* Admission. *)

At(c, at) == call' = [call EXCEPT ![c].at = at]

\* admit: project_identity and key_identity.
Admit(c) ==
  /\ engine.at = "up" /\ call[c].at = "new"
  /\ At(c, IF keyLive THEN "known" ELSE "refused")
  /\ UNCHANGED <<revision, keyLive, countVars, engineVars, redeem>>

\* Faulty variant: the ticket shows the policy there is when it is issued.
TicketRevisionLate(c) == revision

\* The revisions of the policies the call was judged by.
TicketRevision(c) == call[c].judged

\* issue: the policies are read, and the country looked up by them.
Judge(c) ==
  /\ call[c].at = "known"
  /\ call' = [call EXCEPT ![c] = [at |-> "judged", judged |-> revision]]
  /\ UNCHANGED <<revision, keyLive, countVars, engineVars, redeem>>

\* RATE_SCRIPT: one step of Redis, under the epoch the authorizer started with.
Rate(c) ==
  /\ call[c].at = "judged"
  /\ IF redis.epoch = engine.epoch /\ redis.spent < Burst
     THEN /\ redis' = [redis EXCEPT !.spent = @ + 1]
          /\ spent' = [spent EXCEPT ![engine.epoch] = @ + 1]
          /\ At(c, "rated")
     ELSE At(c, "refused") /\ UNCHANGED <<redis, spent>>
  /\ UNCHANGED <<revision, keyLive, admitted, engineVars, redeem>>

QuotaOf(r) == IF r = 1 THEN Limit ELSE Limit \div 2

\* consume_access_quota reads the policy there is by now.
Quota(c) ==
  /\ call[c].at = "rated"
  /\ IF admitted < QuotaOf(revision)
     THEN admitted' = admitted + 1 /\ At(c, "counted")
     ELSE At(c, "refused") /\ UNCHANGED admitted
  /\ UNCHANGED <<revision, keyLive, redis, spent, engineVars, redeem>>

IssueTicket(c) ==
  /\ call[c].at = "counted" /\ At(c, "issued")
  /\ redis' = [redis EXCEPT !.tickets = @ \cup {<<c, TicketRevision(c)>>}]
  /\ UNCHANGED <<revision, keyLive, admitted, spent, engineVars, redeem>>

\* A ticket lives ten seconds.
TicketLapses(c) ==
  /\ \E t \in redis.tickets : t[1] = c /\ redis' = [redis EXCEPT !.tickets = @ \ {t}]
  /\ UNCHANGED <<revision, keyLive, admitted, spent, engineVars, call, redeem>>

-----------------------------------------------------------------------------
(* Redemption. *)

PresentTicket(d) ==
  /\ engine.at = "up" /\ call[d[1]].at = "issued" /\ redeem[d].at = "new"
  /\ redeem' = [redeem EXCEPT ![d] = [@ EXCEPT !.at = IF keyLive THEN "known" ELSE "refused",
                                               !.since = revision]]
  /\ UNCHANGED <<revision, keyLive, countVars, engineVars, call>>

CheckEpoch(d) ==
  /\ redeem[d].at = "known"
  /\ redeem' = [redeem EXCEPT ![d].at = IF redis.epoch = engine.epoch THEN "current" ELSE "refused"]
  /\ UNCHANGED <<revision, keyLive, countVars, engineVars, call>>

\* Faulty variant: GET leaves the ticket where it is.
TakenNothing(ticket) == redis.tickets

\* GETDEL
Taken(ticket) == redis.tickets \ {ticket}

TakeTicket(d) ==
  /\ redeem[d].at = "current"
  /\ IF \E t \in redis.tickets : t[1] = d[1]
     THEN \E t \in redis.tickets :
            /\ t[1] = d[1]
            /\ redis' = [redis EXCEPT !.tickets = Taken(t)]
            /\ redeem' = [redeem EXCEPT ![d] = [@ EXCEPT !.at = "taken", !.bears = t[2]]]
     ELSE redeem' = [redeem EXCEPT ![d].at = "refused"] /\ UNCHANGED redis
  /\ UNCHANGED <<revision, keyLive, admitted, spent, engineVars, call>>

\* The policies are read once more: the ticket is void when they changed.
Forward(d) ==
  /\ redeem[d].at = "taken"
  /\ redeem' = [redeem EXCEPT ![d].at = IF redeem[d].bears = revision THEN "forwarded" ELSE "refused"]
  /\ UNCHANGED <<revision, keyLive, countVars, engineVars, call>>

-----------------------------------------------------------------------------
AccessNext ==
  \/ Startup \/ Started \/ Stop \/ RedisIsLost \/ ResetEpoch \/ PolicyChanges \/ KeyEnds
  \/ \E c \in Calls : Admit(c) \/ Judge(c) \/ Rate(c) \/ Quota(c) \/ IssueTicket(c) \/ TicketLapses(c)
  \/ \E d \in Calls \X Redeemers : PresentTicket(d) \/ CheckEpoch(d) \/ TakeTicket(d) \/ Forward(d)

AccessSpec == AccessInit /\ [][AccessNext]_accessVars

-----------------------------------------------------------------------------
(* Correctness. *)

\* Whenever Redis is lost, the authorizer restarted or the epoch replaced, an epoch
\* lets no more calls pass than its burst: lost counters are not started anew.
CountersSurvive == \A e \in 1 .. MaxEpoch : spent[e] <= Burst

\* A call goes through once, however often its ticket is presented; it was counted in
\* the quota, and judged by the policies in force when it was presented, or by later ones.
ForwardedOnceAsJudged ==
  /\ \A d, e \in Calls \X Redeemers :
       redeem[d].at = "forwarded" /\ redeem[e].at = "forwarded" /\ d[1] = e[1] => d = e
  /\ \A d \in Calls \X Redeemers : redeem[d].at = "forwarded" => call[d[1]].judged >= redeem[d].since
  /\ Cardinality({d \in Calls \X Redeemers : redeem[d].at = "forwarded"}) <= admitted
=============================================================================

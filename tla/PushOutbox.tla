------------------------------ MODULE PushOutbox ------------------------------
(***************************************************************************)
(* The push worker: each process polls every tenant database in sessions   *)
(* of bounded length, at most Slots at a time, claims one notification,    *)
(* sends it to the user's devices in parallel, outside any transaction,    *)
(* and records each result under the claim. A claim has a lease.           *)
(* Time is abstracted: a lease lapses, a retry falls due.                  *)
(***************************************************************************)
EXTENDS Naturals, FiniteSets

CONSTANTS Processes, Tenants, Notifications, Tokens,
          Home,            \* [Notifications \cup Tokens -> Tenants]
          Slots,           \* PUSH_MAX_TENANT_CONNECTIONS
          HttpConcurrency, \* PUSH_HTTP_CONCURRENCY
          MaxAttempts,     \* PUSH_MAX_ATTEMPTS
          MaxFaults,       \* bound on stalls, lost connections, restarts and removed databases
          MaxGenerations,  \* [Tokens -> Nat]: bound on registrations
          Deployments      \* the parts of all this that take part in a behaviour

ASSUME OutboxAssumption ==
  /\ Home \in [Notifications \cup Tokens -> Tenants]
  /\ Slots \in Nat \ {0} /\ HttpConcurrency \in Nat \ {0} /\ MaxAttempts \in Nat \ {0}
  /\ MaxFaults \in Nat /\ MaxGenerations \in [Tokens -> Nat \ {0}]
  /\ Deployments \subseteq [processes : SUBSET Processes, tenants : SUBSET Tenants,
                            devices : SUBSET Tokens]

VARIABLES
  database,  \* [Tenants -> "none" or "present" or "removed"]
  outbox,    \* notifications: [status, claim (claim_id, by number), lapsed, due, initialized]
  delivery,  \* notification_deliveries: [status, claim, attempts, generation, due]
  token,     \* push_tokens: the generation a token is registered with, 0 when it is not
  issued,    \* the generations given to a token so far
  poller,    \* poll_tenant: [pc, row (the notification), claim, batch (a delivery's answer)]
  sends,     \* requests answered for each delivery
  faults     \* faults so far

outboxVars == <<database, outbox, delivery, token, issued, poller, sends, faults>>

Pollers    == Processes \X Tenants
\* classify_response: REFUSED stands for every answer that is not to be tried again.
Categories == {"SUCCESS", "REFUSED", "TEMPORARY"}
Final      == {"sem_token", "enviado", "enviado_parcial", "erro"}
Settled    == {"enviado", "erro"}
InSession  == {"connected", "top", "prepare", "renew", "sending", "finalize"}

NoRow == [status |-> "none", claim |-> 0, attempts |-> 0, generation |-> 0, due |-> FALSE]
Idle(pc) == [pc |-> pc, row |-> "none", claim |-> 0, batch |-> [k \in {} |-> "sent"]]

Recipients(n) == {k \in Tokens : Home[k] = Home[n]}
RowsOf(n) == {k \in Recipients(n) : delivery[n][k].status # "none"}
Open(n) == {k \in RowsOf(n) : delivery[n][k].status \notin Settled}

OutboxInit ==
  /\ \E d \in Deployments :
       /\ database = [t \in Tenants |-> IF t \in d.tenants THEN "present" ELSE "none"]
       /\ poller = [q \in Pollers |-> Idle(IF q[1] \in d.processes THEN "none" ELSE "off")]
       /\ token = [k \in Tokens |-> IF k \in d.devices THEN 1 ELSE 0]
  /\ issued = token
  /\ outbox = [n \in Notifications |-> [status |-> "none", claim |-> 0, lapsed |-> FALSE,
                                        due |-> FALSE, initialized |-> FALSE]]
  /\ delivery = [n \in Notifications |-> [k \in Tokens |-> NoRow]]
  /\ sends = [n \in Notifications |-> [k \in Tokens |-> 0]]
  /\ faults = 0

OutboxTypeOK ==
  /\ database \in [Tenants -> {"none", "present", "removed"}]
  /\ outbox \in [Notifications -> [status : {"none", "pendente", "processando"} \cup Final,
                                   claim : Nat, lapsed : BOOLEAN, due : BOOLEAN,
                                   initialized : BOOLEAN]]
  /\ delivery \in [Notifications -> [Tokens ->
       [status : {"none", "pendente", "processando"} \cup Settled, claim : Nat,
        attempts : 0 .. MaxAttempts, generation : Nat, due : BOOLEAN]]]
  /\ \A k \in Tokens : issued[k] \in 0 .. MaxGenerations[k] /\ token[k] \in {0, issued[k]}
  /\ DOMAIN poller = Pollers
  /\ \A q \in Pollers : /\ poller[q].pc \in {"off", "none", "waiting", "ended"} \cup InSession
                        /\ poller[q].row \in Notifications \cup {"none"}
                        /\ \A k \in DOMAIN poller[q].batch :
                             k \in Tokens /\ poller[q].batch[k] \in Categories \cup {"sent"}
  /\ faults \in 0 .. MaxFaults

Present(t) == database[t] = "present"
Trouble == faults < MaxFaults /\ faults' = faults + 1
Move(q, pc) == poller' = [poller EXCEPT ![q].pc = pc]

-----------------------------------------------------------------------------
(* The tenant's application and its devices. *)

\* The application notifies a user: the trigger wakes the poller, which may as well wake by itself.
Insert(n) ==
  /\ Present(Home[n]) /\ outbox[n].status = "none"
  /\ outbox' = [outbox EXCEPT ![n].status = "pendente", ![n].due = TRUE]
  /\ UNCHANGED <<database, delivery, token, issued, poller, sends, faults>>

\* A device registers its token, or again: the trigger gives it another generation.
Register(k) ==
  /\ Present(Home[k]) /\ issued[k] \in 1 .. MaxGenerations[k] - 1
  /\ issued' = [issued EXCEPT ![k] = @ + 1]
  /\ token' = [token EXCEPT ![k] = issued[k] + 1]
  /\ UNCHANGED <<database, outbox, delivery, poller, sends, faults>>

-----------------------------------------------------------------------------
(* Sessions. *)

\* worker_manager: every tenant that exists has a task that has not ended; the
\* task of another is cancelled, whatever it does.
Reconcile(p) ==
  /\ \A t \in Tenants : poller[<<p, t>>].pc # "off"
  /\ poller' = [q \in Pollers |->
       IF q[1] # p THEN poller[q]
       ELSE IF ~Present(q[2]) THEN Idle("none")
       ELSE IF poller[q].pc \in {"none", "ended"} THEN Idle("waiting") ELSE poller[q]]
  /\ poller' # poller
  /\ UNCHANGED <<database, outbox, delivery, token, issued, sends, faults>>

SlotFree(p) == Cardinality({t \in Tenants : poller[<<p, t>>].pc \in InSession}) < Slots

\* A session begins: it listens for new notifications before it looks for any.
Connect(q) ==
  /\ poller[q].pc = "waiting" /\ SlotFree(q[1])
  /\ Move(q, IF Present(q[2]) THEN "connected" ELSE "ended")
  /\ UNCHANGED <<database, outbox, delivery, token, issued, sends, faults>>

\* Faulty variant: a session lasts as long as its connection.
SessionLasts(q) == FALSE

\* Its deadline has passed, at the top of the loop: the slot is for the next.
SessionEnds(q) ==
  /\ poller[q].pc = "top" /\ Move(q, "waiting")
  /\ UNCHANGED <<database, outbox, delivery, token, issued, sends, faults>>

\* The connection fails, or the process ends and starts again, or the database
\* is dropped under its sessions: what was claimed waits for its lease to lapse.
Disconnect(q) ==
  /\ poller[q].pc \in InSession /\ Trouble
  /\ poller' = [poller EXCEPT ![q] = Idle("waiting")]
  /\ UNCHANGED <<database, outbox, delivery, token, issued, sends>>

ProcessRestarts(p) ==
  /\ \E t \in Tenants : poller[<<p, t>>].pc \in InSession
  /\ Trouble
  /\ poller' = [q \in Pollers |-> IF q[1] = p THEN Idle("none") ELSE poller[q]]
  /\ UNCHANGED <<database, outbox, delivery, token, issued, sends>>

DatabaseRemoved(t) ==
  /\ Present(t) /\ Trouble
  /\ database' = [database EXCEPT ![t] = "removed"]
  /\ poller' = [q \in Pollers |->
       IF q[2] = t /\ poller[q].pc \in InSession THEN Idle("waiting") ELSE poller[q]]
  /\ UNCHANGED <<outbox, delivery, token, issued, sends>>

\* A restore puts the database back.
DatabaseBack(t) ==
  /\ database[t] = "removed"
  /\ database' = [database EXCEPT ![t] = "present"]
  /\ UNCHANGED <<outbox, delivery, token, issued, poller, sends, faults>>

-----------------------------------------------------------------------------
(* One notification. *)

\* A pending notification that is due, or one whose claim has lapsed.
Claimable(n, t) ==
  /\ Home[n] = t
  /\ \/ outbox[n].status = "pendente" /\ outbox[n].due
     \/ outbox[n].status = "processando" /\ outbox[n].lapsed

ClaimNotification(q, n) ==
  /\ poller[q].pc \in {"connected", "top"} /\ Claimable(n, q[2])
  /\ outbox' = [outbox EXCEPT ![n].status = "processando", ![n].lapsed = FALSE,
                              ![n].claim = @ + 1]
  /\ poller' = [poller EXCEPT ![q] = [pc |-> "prepare", row |-> n, claim |-> outbox[n].claim + 1,
                                      batch |-> [k \in {} |-> "sent"]]]
  /\ UNCHANGED <<database, delivery, token, issued, sends, faults>>

\* No notification: the session waits, until one is due or its deadline.
ClaimNothing(q) ==
  /\ poller[q].pc = "connected" /\ \A n \in Notifications : ~Claimable(n, q[2])
  /\ Move(q, "top")
  /\ UNCHANGED <<database, outbox, delivery, token, issued, sends, faults>>

\* Faulty variant: whatever the claim, as long as the notification is in progress.
OwnedByAnyone(q) == poller[q].row # "none" /\ outbox[poller[q].row].status = "processando"

\* require_claim, renew_claim: the poller still holds the notification it claimed.
Owned(q) ==
  LET n == poller[q].row
  IN n # "none" /\ outbox[n].status = "processando" /\ outbox[n].claim = poller[q].claim
                /\ ~outbox[n].lapsed

\* ClaimLost: the poller leaves the notification to whoever claims it, and cancels its requests.
ClaimLost(q) ==
  /\ poller[q].pc \in {"prepare", "renew", "sending", "finalize"} /\ ~Owned(q)
  /\ poller' = [poller EXCEPT ![q] = Idle("top")]
  /\ UNCHANGED <<database, outbox, delivery, token, issued, sends, faults>>

\* The recipients are the devices registered when the first claim gets here.
CreateDeliveryRows(q) ==
  LET n == poller[q].row
  IN /\ poller[q].pc = "prepare" /\ Owned(q)
     /\ delivery' = [delivery EXCEPT ![n] = [k \in Tokens |->
          IF ~outbox[n].initialized /\ k \in Recipients(n) /\ token[k] # 0 /\ @[k] = NoRow
          THEN [status |-> "pendente", claim |-> 0, attempts |-> 0, generation |-> token[k],
                due |-> TRUE]
          ELSE @[k]]]
     /\ outbox' = [outbox EXCEPT ![n].initialized = TRUE]
     /\ Move(q, "renew")
     /\ UNCHANGED <<database, token, issued, sends, faults>>

\* The deliveries this claim may send, all of them left by an earlier claim included.
Candidates(n) ==
  {k \in Open(n) : /\ delivery[n][k].attempts < MaxAttempts
                   /\ delivery[n][k].status = "processando" \/ delivery[n][k].due}
Exhausted(n) == {k \in Open(n) : delivery[n][k].attempts >= MaxAttempts}

ClaimDeliveries(q) ==
  LET n == poller[q].row
  IN /\ poller[q].pc = "renew" /\ Owned(q)
     /\ \E batch \in SUBSET Candidates(n) :
          /\ \/ Cardinality(batch) = HttpConcurrency
             \/ batch = Candidates(n) /\ Cardinality(batch) < HttpConcurrency
          /\ delivery' = [delivery EXCEPT ![n] = [k \in Tokens |->
               IF k \in Exhausted(n) THEN [@[k] EXCEPT !.status = "erro", !.claim = 0]
               ELSE IF k \in batch
                    THEN [@[k] EXCEPT !.status = "processando", !.claim = poller[q].claim,
                                      !.attempts = delivery[n][k].attempts + 1]
                    ELSE @[k]]]
          /\ poller' = [poller EXCEPT ![q].pc = IF batch = {} THEN "finalize" ELSE "sending",
                                      ![q].batch = [k \in batch |-> "sent"]]
     /\ UNCHANGED <<database, outbox, token, issued, sends, faults>>

\* The gateway answers a request, or cannot be reached; nothing is locked meanwhile.
Answer(q, k, category) ==
  /\ poller[q].pc = "sending" /\ k \in DOMAIN poller[q].batch /\ poller[q].batch[k] = "sent"
  /\ poller' = [poller EXCEPT ![q].batch[k] = category]
  /\ sends' = [sends EXCEPT ![poller[q].row][k] = @ + 1]
  /\ UNCHANGED <<database, outbox, delivery, token, issued, faults>>

Without(k, batch) == [l \in DOMAIN batch \ {k} |-> batch[l]]

\* Faulty variant: the token is removed whichever its generation.
UnregisterAny(n, k) == token' = [token EXCEPT ![k] = 0]

\* The token is removed only as it was when the recipients were read.
Unregister(n, k) == token' = [token EXCEPT ![k] = IF @ = delivery[n][k].generation THEN 0 ELSE @]

RecordDelivery(q, k) ==
  LET n == poller[q].row
      category == poller[q].batch[k]
      again == category = "TEMPORARY" /\ delivery[n][k].attempts < MaxAttempts
  IN /\ poller[q].pc = "sending" /\ k \in DOMAIN poller[q].batch /\ category # "sent"
     /\ Owned(q)
     /\ delivery' = [delivery EXCEPT ![n][k] =
          [@ EXCEPT !.claim = 0, !.due = FALSE,
                    !.status = IF category = "SUCCESS" THEN "enviado"
                               ELSE IF again THEN "pendente" ELSE "erro"]]
     /\ \/ category = "REFUSED" /\ Unregister(n, k)    \* the answer was UNREGISTERED
        \/ UNCHANGED token
     /\ LET rest == Without(k, poller[q].batch)
        IN poller' = [poller EXCEPT ![q].batch = rest,
                                    ![q].pc = IF rest = << >> THEN "renew" ELSE "sending"]
     /\ UNCHANGED <<database, outbox, issued, sends, faults>>

\* Faulty variant: the notification is done when nothing is left to send now.
StatusOfSent(n) ==
  LET sent == {k \in RowsOf(n) : delivery[n][k].status = "enviado"}
  IN CASE RowsOf(n) = {} -> "sem_token"
       [] RowsOf(n) # {} /\ sent = {} -> "erro"
       [] RowsOf(n) # {} /\ sent = RowsOf(n) -> "enviado"
       [] OTHER -> "enviado_parcial"

StatusOf(n) == IF Open(n) # {} THEN "pendente" ELSE StatusOfSent(n)

FinalizeNotification(q) ==
  LET n == poller[q].row
  IN /\ poller[q].pc = "finalize" /\ Owned(q)
     /\ outbox' = [outbox EXCEPT ![n].status = StatusOf(n),
                                 ![n].due = \E k \in Open(n) : delivery[n][k].due]
     /\ poller' = [poller EXCEPT ![q] = Idle("top")]
     /\ UNCHANGED <<database, delivery, token, issued, sends, faults>>

-----------------------------------------------------------------------------
(* Time. *)

\* available_at is reached by a delivery that is to be tried again.
RetryIsDue(n, k) ==
  /\ Present(Home[n]) /\ delivery[n][k].status = "pendente" /\ ~delivery[n][k].due
  /\ delivery' = [delivery EXCEPT ![n][k].due = TRUE]
  /\ outbox' = [outbox EXCEPT ![n].due = @ \/ outbox[n].status = "pendente"]
  /\ UNCHANGED <<database, token, issued, poller, sends, faults>>

\* The lease of a claim lapses: nobody renews it any more, or its holder stalls.
LeaseLapses(n) ==
  /\ outbox[n].status = "processando" /\ ~outbox[n].lapsed
  /\ outbox' = [outbox EXCEPT ![n].lapsed = TRUE]
  /\ IF \E q \in Pollers : poller[q].row = n /\ Owned(q) THEN Trouble ELSE UNCHANGED faults
  /\ UNCHANGED <<database, delivery, token, issued, poller, sends>>

Session(q) ==
  \/ Connect(q) \/ SessionEnds(q) \/ ClaimNothing(q) \/ ClaimLost(q)
  \/ CreateDeliveryRows(q) \/ ClaimDeliveries(q) \/ FinalizeNotification(q)
  \/ \E n \in Notifications : ClaimNotification(q, n)
  \/ \E k \in Tokens : RecordDelivery(q, k) \/ \E c \in Categories : Answer(q, k, c)

OutboxNext ==
  \/ \E q \in Pollers : Session(q) \/ Disconnect(q)
  \/ \E p \in Processes : Reconcile(p) \/ ProcessRestarts(p)
  \/ \E t \in Tenants : DatabaseRemoved(t) \/ DatabaseBack(t)
  \/ \E n \in Notifications : Insert(n) \/ LeaseLapses(n) \/ \E k \in Tokens : RetryIsDue(n, k)
  \/ \E k \in Tokens : Register(k)

\* A task runs on, requests end (timeouts), slots are given in the order they are
\* asked for, sessions end, leases and delays run out, tenants are looked up every minute.
OutboxFairness ==
  /\ \A q \in Pollers :
       /\ SF_outboxVars(Connect(q)) /\ WF_outboxVars(SessionEnds(q))
       /\ WF_outboxVars(Session(q) /\ ~SessionEnds(q))
  /\ \A p \in Processes : WF_outboxVars(Reconcile(p))
  /\ \A n \in Notifications :
       WF_outboxVars(LeaseLapses(n) /\ UNCHANGED faults)
       /\ \A k \in Tokens : WF_outboxVars(RetryIsDue(n, k))

OutboxSpec == OutboxInit /\ [][OutboxNext]_outboxVars /\ OutboxFairness

-----------------------------------------------------------------------------
(* Correctness. *)

\* However claims lapse and sessions overlap: a result that was recorded is never
\* overwritten, a notification that ended is never taken up again, and no device
\* is sent a notification more often than MaxAttempts.
ResultsStand ==
  [][\A n \in Notifications :
       /\ outbox[n].status \in Final => outbox'[n].status = outbox[n].status
       /\ \A k \in Tokens : /\ delivery[n][k].status \in Settled =>
                                 delivery'[n][k].status = delivery[n][k].status
                            /\ sends'[n][k] <= MaxAttempts]_outboxVars

\* A notification that ended has no delivery left, and its status tells how they
\* ended; a registration made after its recipients were read outlives its answers.
EndedTells ==
  /\ \A n \in Notifications : outbox[n].status \in Final =>
       /\ Open(n) = {}
       /\ outbox[n].status = "enviado" =>
            \A k \in RowsOf(n) : sends[n][k] > 0 /\ delivery[n][k].status = "enviado"
  /\ \A k \in Tokens : token[k] = 0 /\ issued[k] > 1 =>
       \E n \in Notifications : delivery[n][k].generation = issued[k]

\* A notification comes to an end, as long as its database is there: across lost
\* connections, restarts, stalls and databases that are swapped, on few slots.
NotificationsEnd ==
  \A n \in Notifications :
    outbox[n].status = "pendente" /\ Present(Home[n])
      ~> outbox[n].status \in Final \/ ~Present(Home[n])
=============================================================================

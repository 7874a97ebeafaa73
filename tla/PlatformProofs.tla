--------------------------- MODULE PlatformProofs ---------------------------
(***************************************************************************)
(* The parts beside one another behave each as its own specification says, *)
(* so what was proved of a part holds in the composition, and with it the  *)
(* type invariant of the whole.                                            *)
(***************************************************************************)
EXTENDS Platform, AccessProofs, StorageProofs

\* A step of the platform is a step of one part, and leaves the others' variables alone.
LEMMA PartsKeepToThemselves ==
  ASSUME [Next]_allVars
  PROVE  /\ [OutboxNext]_outboxVars /\ [TeamNext]_teamVars /\ [JobsApiNext]_jobsApiVars
         /\ [EdgeNext]_edgeVars /\ [AccessNext]_accessVars /\ [SecretsNext]_secretsVars
         /\ [CapacityNext]_capacityVars /\ [PoolsNext]_poolVars /\ [StartNext]_startVars
<1>1. CASE UNCHANGED allVars
  BY <1>1 DEF allVars
<1>2. CASE Push
  BY <1>2 DEF Push
<1>3. CASE Team
  BY <1>3 DEF Team
<1>4. CASE Api
  BY <1>4 DEF Api
<1>5. CASE Edge
  BY <1>5 DEF Edge
<1>6. CASE Admission
  BY <1>6 DEF Admission
<1>7. CASE Secrets
  BY <1>7 DEF Secrets
<1>8. CASE Capacity
  BY <1>8 DEF Capacity
<1>9. CASE Pools
  BY <1>9 DEF Pools
<1>10. CASE Deployment
  BY <1>10 DEF Deployment
<1> QED BY <1>1, <1>2, <1>3, <1>4, <1>5, <1>6, <1>7, <1>8, <1>9, <1>10 DEF Next

\* The platform implements every part: what the part may not do alone, it may not do here.
THEOREM ImplementsItsParts ==
  Spec => /\ OutboxBehaviour /\ TeamSpec /\ JobsApiSpec /\ EdgeSpec /\ AccessSpec
          /\ SecretsSpec /\ CapacitySpec /\ PoolsSpec /\ StartSpec
<1>1. Init => /\ OutboxInit /\ TeamInit /\ JobsApiInit /\ EdgeInit /\ AccessInit
              /\ SecretsInit /\ CapacityInit /\ PoolsInit /\ StartInit
  BY DEF Init
<1>2. [Next]_allVars =>
         /\ [OutboxNext]_outboxVars /\ [TeamNext]_teamVars /\ [JobsApiNext]_jobsApiVars
         /\ [EdgeNext]_edgeVars /\ [AccessNext]_accessVars /\ [SecretsNext]_secretsVars
         /\ [CapacityNext]_capacityVars /\ [PoolsNext]_poolVars /\ [StartNext]_startVars
  BY PartsKeepToThemselves
<1> QED BY <1>1, <1>2, PTL
        DEF Spec, OutboxBehaviour, TeamSpec, JobsApiSpec, EdgeSpec, AccessSpec, SecretsSpec,
            CapacitySpec, PoolsSpec, StartSpec

\* Every variable of every part has a value its code can give it, for all constants.
THEOREM PlatformTyping == Spec => []PlatformTypeOK
<1>1. /\ OutboxTypeOK /\ TeamTypeOK /\ JobsApiTypeOK /\ EdgeTypeOK /\ AccessTypeOK
      /\ SecretsTypeOK /\ CapacityTypeOK /\ PoolsTypeOK /\ StartTypeOK
      => PlatformTypeOK
  BY DEF PlatformTypeOK
<1> QED BY <1>1, ImplementsItsParts, OutboxTyping, TeamTyping, JobsApiTyping, EdgeTyping,
           AccessTyping, SecretsTyping, CapacityTyping, PoolsTyping, StartTyping, PTL

\* Every guarantee the parts give alone, the platform gives: who may do what and what is
\* recorded of it, what is served, what is kept, and what is sent.
THEOREM PlatformKeepsItsParts ==
  Spec => /\ [](OwnerIsAdmin /\ RevokedIsRefused /\ NoLostChange /\ ServedIsPublished)
          /\ [](CountersSurvive /\ ForwardedOnceAsJudged /\ CapacityFits /\ PoolsAreKept)
          /\ [](ServesWhatItWasBuiltFor /\ (NothingRotates => SecretsReadable))
          /\ ResultsStand /\ RotationKeepsCapacity
BY ImplementsItsParts, OwnerStaysAdmin, RevokedStaysRefused, NoChangeIsLost, ServedStaysPublished,
   CountersAlwaysSurvive, ForwardedOnce, CapacityAlwaysFits, PoolsStayKept, ServesItsImage,
   SecretsStayReadable, ResultsStay, RotationKeeps, PTL

=============================================================================

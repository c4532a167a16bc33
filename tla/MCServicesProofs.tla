-------------------------- MODULE MCServicesProofs --------------------------
(***************************************************************************)
(* The properties of MCServices, from what is proved of each service for   *)
(* every value of its constants: the part that is exercised takes the      *)
(* steps of its service, and the others stay as they are.  The proofs      *)
(* about the broker's store, for every set of updates, are here as well.   *)
(***************************************************************************)
EXTENDS MCServices, TLAPS

-----------------------------------------------------------------------------
(* The broker's store, for every set of updates.  The fsync of the directory is assumed not to *)
(* fail where an acknowledged update is to survive: store.go drops its error.                  *)

\* The broker starts with an empty file and nobody told anything.
LEMMA StoreStarts == Store!Init => Store!Consistent
BY ZenonT(90) DEF Store!Init, Store!Consistent, Store!TypeOK, Store!PossibleIsEarlier, Store!HolderRuns,
       Store!MemoryIsCurrent, Store!NothingElseIsStored, Store!Steps, Store!Verdicts

\* Every step of the process, and its end, keeps memory, file and answers together.
LEMMA StoreStaysConsistent ==
  ASSUME Store!RepairsAssumption, Store!Consistent, [Store!Next]_(Store!vars)
  PROVE  Store!Consistent'
<1> USE DEF Store!Consistent, Store!TypeOK, Store!PossibleIsEarlier, Store!HolderRuns,
            Store!MemoryIsCurrent, Store!NothingElseIsStored, Store!Steps, Store!Verdicts,
            Store!Copied, Store!Step, Store!Tell
<1>1. CASE Store!Open
  BY <1>1 DEF Store!Open
<1>2. CASE Store!OpenFails
  BY <1>2 DEF Store!OpenFails
<1>3. CASE Store!OpenEnds
  BY <1>3, ZenonT(90) DEF Store!OpenEnds
<1>4. ASSUME NEW u \in Updates, Store!Call(u) PROVE Store!Consistent'
  BY <1>4, ZenonT(90) DEF Store!Call, Store!Admitted
<1>5. ASSUME NEW u \in Updates, Store!Copy(u) PROVE Store!Consistent'
  BY <1>5 DEF Store!Copy, Store!RepairsAssumption
<1>6. CASE Store!Write
  BY <1>6 DEF Store!Write
<1>7. CASE Store!SyncFile
  BY <1>7, ZenonT(90) DEF Store!SyncFile
<1>8. CASE Store!Rename
  BY <1>8 DEF Store!Rename
<1>9. CASE Store!SyncDirectory
  BY <1>9, SMTT(60) DEF Store!SyncDirectory
<1>10. CASE Store!Publish
  BY <1>10, SMTT(60) DEF Store!Publish
<1>11. CASE Store!Fail
  BY <1>11 DEF Store!Fail
<1>12. CASE Store!Crash
  BY <1>12 DEF Store!Crash, Store!Unanswered
<1>13. CASE Store!PowerLoss
  BY <1>13, ZenonT(90) DEF Store!PowerLoss, Store!Unanswered
<1>14. CASE UNCHANGED Store!vars
  BY <1>14 DEF Store!vars
<1>15. QED
  BY ZenonT(90), <1>1, <1>2, <1>3, <1>4, <1>5, <1>6, <1>7, <1>8, <1>9, <1>10, <1>11, <1>12, <1>13,
     <1>14 DEF Store!Next

\* Consistency is an invariant of the store.
LEMMA StoreConsistent == Store!RepairsAssumption => (Store!Spec => []Store!Consistent)
<1> SUFFICES ASSUME Store!RepairsAssumption PROVE Store!Spec => []Store!Consistent
  OBVIOUS
<1>1. Store!Consistent /\ [Store!Next]_(Store!vars) => Store!Consistent'
  BY StoreStaysConsistent
<1>2. QED
  BY StoreStarts, <1>1, PTL DEF Store!Spec

\* The variables keep their types (Store and update, store.go).
THEOREM StoreTypeCorrect == Store!RepairsAssumption => (Store!Spec => []Store!TypeOK)
<1> SUFFICES ASSUME Store!RepairsAssumption PROVE Store!Spec => []Store!TypeOK
  OBVIOUS
<1>1. Store!Consistent => Store!TypeOK
  BY ZenonT(90) DEF Store!Consistent
<1>2. QED
  BY StoreConsistent, <1>1, PTL

\* No request reads an update the path does not hold: update renames before it
\* publishes, so that the end of the process undoes nothing anybody acted on.
THEOREM PublishedStored == Store!RepairsAssumption => (Store!Spec => []Store!PublishedIsStored)
<1> SUFFICES ASSUME Store!RepairsAssumption PROVE Store!Spec => []Store!PublishedIsStored
  OBVIOUS
<1>1. Store!Consistent => Store!PublishedIsStored
  BY DEF Store!Consistent, Store!MemoryIsCurrent, Store!PublishedIsStored, Store!Copied
<1>2. QED
  BY StoreConsistent, <1>1, PTL

\* The broker starts down.
LEMMA RepairStarts == Store!Init => Store!RepairedBeforeServing
BY DEF Store!Init, Store!RepairedBeforeServing

\* Serving begins with a file that was repaired, in this run of the process or
\* before; memory only grows until the process ends.
LEMMA RepairStays ==
  ASSUME Store!RepairsAssumption, Store!Consistent, Store!RepairedBeforeServing,
  [Store!Next]_(Store!vars)
  PROVE  Store!RepairedBeforeServing'
<1> USE DEF Store!RepairedBeforeServing
<1>1. CASE Store!Open
  BY <1>1 DEF Store!Open, Store!Unrepaired
<1>2. CASE Store!OpenEnds
  BY <1>2 DEF Store!OpenEnds
<1>3. CASE Store!Publish
  BY <1>3 DEF Store!Publish, Store!Copied
<1>4. CASE Store!OpenFails \/ Store!Crash \/ Store!PowerLoss
  BY <1>4 DEF Store!OpenFails, Store!Crash, Store!PowerLoss
<1>5. ASSUME NEW u \in Updates, Store!Call(u) \/ Store!Copy(u) PROVE Store!RepairedBeforeServing'
  BY <1>5 DEF Store!Call, Store!Copy
<1>6. CASE Store!Write \/ Store!SyncFile \/ Store!Rename \/ Store!SyncDirectory \/ Store!Fail \/ UNCHANGED Store!vars
  BY <1>6 DEF Store!Write, Store!SyncFile, Store!Rename, Store!SyncDirectory, Store!Fail, Store!vars
<1>7. QED
  BY <1>1, <1>2, <1>3, <1>4, <1>5, <1>6 DEF Store!Next

\* No request is served from a file with unjudged uninstalls, whatever crashes and
\* losses of power came before or during the repair (NewStore).
THEOREM RepairedFirst == Store!RepairsAssumption => (Store!Spec => []Store!RepairedBeforeServing)
<1> SUFFICES ASSUME Store!RepairsAssumption PROVE Store!Spec => []Store!RepairedBeforeServing
  OBVIOUS
<1>1. Store!Consistent /\ Store!RepairedBeforeServing /\ [Store!Next]_(Store!vars) => Store!RepairedBeforeServing'
  BY RepairStays
<1>2. QED
  BY RepairStarts, StoreConsistent, <1>1, PTL DEF Store!Spec

-----------------------------------------------------------------------------
(* What holds while the directory's fsync does not fail *)

\* An update is published only once no loss of power can take it away.
LEMMA StoreStaysDurable ==
  ASSUME Store!RepairsAssumption, SyncMayFail = FALSE, Store!Durable, [Store!Next]_(Store!vars)
  PROVE  Store!Durable'
<1>1. Store!Consistent'
  BY StoreStaysConsistent DEF Store!Durable
<1>2. Store!SyncedIsDurable'
  <2> USE DEF Store!SyncedIsDurable, Store!Step
  <2>1. CASE Store!SyncDirectory
    BY <2>1 DEF Store!SyncDirectory
  <2>2. CASE \E u \in Updates : Store!Copy(u)
    BY <2>2 DEF Store!Copy
  <2>3. CASE Store!Write \/ Store!SyncFile \/ Store!Rename \/ Store!Publish \/ Store!Fail \/ Store!Crash \/ Store!PowerLoss
    BY <2>3 DEF Store!Write, Store!SyncFile, Store!Rename, Store!Publish, Store!Fail,
                Store!Crash, Store!PowerLoss
  <2>4. CASE Store!Open \/ Store!OpenFails \/ Store!OpenEnds \/ (\E u \in Updates : Store!Call(u)) \/ UNCHANGED Store!vars
    BY <2>4 DEF Store!Durable, Store!Open, Store!OpenFails, Store!OpenEnds, Store!Call, Store!vars
  <2>5. QED
    BY <2>1, <2>2, <2>3, <2>4 DEF Store!Next
<1>3. Store!AcknowledgedSurvive'
  <2> USE DEF Store!AcknowledgedSurvive, Store!Durable, Store!Consistent, Store!TypeOK,
              Store!PossibleIsEarlier, Store!Tell, Store!Step
  <2>1. CASE Store!Rename
    BY <2>1 DEF Store!Rename, Store!Copied, Store!MemoryIsCurrent, Store!HolderRuns
  <2>2. CASE Store!SyncDirectory
    BY <2>2 DEF Store!SyncDirectory
  <2>3. CASE Store!Publish
    BY <2>3 DEF Store!Publish, Store!SyncedIsDurable, Store!MemoryIsCurrent, Store!HolderRuns,
                Store!Copied
  <2>4. CASE Store!Fail
    BY <2>4 DEF Store!Fail
  <2>5. CASE Store!Crash \/ Store!PowerLoss
    BY <2>5 DEF Store!Crash, Store!PowerLoss, Store!Unanswered
  <2>6. ASSUME NEW u \in Updates, Store!Call(u) \/ Store!Copy(u) PROVE Store!AcknowledgedSurvive'
    BY <2>6, ZenonT(90) DEF Store!Call, Store!Copy
  <2>7. CASE Store!Open \/ Store!OpenFails \/ Store!OpenEnds \/ Store!Write \/ Store!SyncFile \/ UNCHANGED Store!vars
    BY <2>7 DEF Store!Open, Store!OpenFails, Store!OpenEnds, Store!Write, Store!SyncFile, Store!vars
  <2>8. QED
    BY <2>1, <2>2, <2>3, <2>4, <2>5, <2>6, <2>7 DEF Store!Next
<1>4. QED
  BY <1>1, <1>2, <1>3, ZenonT(90) DEF Store!Durable

\* An empty file loses nothing.
LEMMA StoreStartsDurable == Store!Init => Store!Durable
BY StoreStarts DEF Store!Init, Store!Durable, Store!SyncedIsDurable, Store!AcknowledgedSurvive

\* What durability says of every state.
LEMMA DurableMeans == Store!Durable => Store!TypeOK /\ Store!PublishedIsStored /\ Store!AcknowledgedSurvive
BY DEF Store!Durable, Store!Consistent, Store!MemoryIsCurrent, Store!PublishedIsStored, Store!Copied

\* Durability is an invariant of the store.
LEMMA StoreDurable == Store!RepairsAssumption /\ SyncMayFail = FALSE => (Store!Spec => []Store!Durable)
<1> SUFFICES ASSUME Store!RepairsAssumption, SyncMayFail = FALSE PROVE Store!Spec => []Store!Durable
  OBVIOUS
<1>1. Store!Durable /\ [Store!Next]_(Store!vars) => Store!Durable'
  BY StoreStaysDurable
<1>2. QED
  BY StoreStartsDurable, <1>1, PTL DEF Store!Spec

\* An update whose caller was told of its success stays in the file whatever
\* happens to the process or the machine: update syncs the file before the
\* rename and the directory after it, and publishes last.
THEOREM AcknowledgedSurvival ==
  Store!RepairsAssumption /\ SyncMayFail = FALSE => (Store!Spec => []Store!AcknowledgedSurvive)
<1> SUFFICES ASSUME Store!RepairsAssumption, SyncMayFail = FALSE
             PROVE  Store!Spec => []Store!AcknowledgedSurvive
  OBVIOUS
<1>1. Store!Durable => Store!AcknowledgedSurvive
  BY DEF Store!Durable
<1>2. QED
  BY StoreDurable, <1>1, PTL

-----------------------------------------------------------------------------
(* The store implements an atomic one *)

Abstract == INSTANCE AtomicStore WITH applied <- path

\* A rename commits, a publication acknowledges, a failure rejects, the end of
\* the process leaves in doubt; every other step changes nothing a caller sees.
LEMMA StoreStepImplements ==
  ASSUME Store!RepairsAssumption, SyncMayFail = FALSE, Store!Durable, [Store!Next]_(Store!vars)
  PROVE  [Abstract!StoreNext]_(Abstract!storeVars)
<1> USE DEF Store!Durable, Store!Consistent, Store!Step, Abstract!storeVars
<1>1. ASSUME NEW u \in Updates, Store!Call(u) PROVE Abstract!StoreNext
  <2>1. Abstract!Call(u)
    BY <1>1 DEF Store!Call, Store!Tell, Abstract!Call, Abstract!Told
  <2>2. QED
    BY <2>1 DEF Abstract!StoreNext
<1>2. CASE Store!Rename
  <2>1. holder \in Updates /\ outcome[holder] = "running" /\ path = memory
    BY <1>2 DEF Store!Rename, Store!HolderRuns, Store!MemoryIsCurrent, Store!TypeOK
  <2>2. Abstract!Commit(holder)
    BY <1>2, <2>1 DEF Store!Rename, Store!Copied, Abstract!Commit
  <2>3. QED
    BY <2>1, <2>2 DEF Abstract!StoreNext
<1>3. CASE Store!Publish
  <2>1. holder \in Updates /\ outcome[holder] = "running" /\ holder \in path
    BY <1>3 DEF Store!Publish, Store!HolderRuns, Store!MemoryIsCurrent, Store!Copied, Store!TypeOK
  <2>2. Abstract!Acknowledge(holder)
    BY <1>3, <2>1 DEF Store!Publish, Store!Tell, Abstract!Acknowledge, Abstract!Told
  <2>3. QED
    BY <2>1, <2>2 DEF Abstract!StoreNext
<1>4. CASE Store!Fail
  <2>1. holder \in Updates /\ outcome[holder] = "running" /\ holder \notin path
    BY <1>4 DEF Store!Fail, Store!HolderRuns, Store!NothingElseIsStored, Store!TypeOK
  <2>2. Abstract!Reject(holder)
    BY <1>4, <2>1, ZenonT(90) DEF Store!Fail, Store!Tell, Abstract!Reject, Abstract!Told
  <2>3. QED
    BY <2>1, <2>2, ZenonT(90) DEF Abstract!StoreNext
<1>5. CASE Store!Crash \/ Store!PowerLoss
  <2> DEFINE unanswered == {u \in Updates : outcome[u] = "running"}
  <2>1. path' \subseteq path /\ path' \in SUBSET Updates
    BY <1>5 DEF Store!Crash, Store!PowerLoss, Store!PossibleIsEarlier, Store!TypeOK
  <2>2. \A u \in path : outcome[u] = "acked" => u \in path'
    BY <1>5 DEF Store!Crash, Store!PowerLoss, Store!AcknowledgedSurvive, Store!TypeOK
  <2>3. outcome' = [u \in Updates |-> IF u \in unanswered THEN "indoubt" ELSE outcome[u]]
    BY <1>5 DEF Store!Crash, Store!PowerLoss, Store!Unanswered
  <2>4. Abstract!Crash(unanswered, path')
    BY <2>1, <2>2, <2>3, ZenonT(90) DEF Abstract!Crash
  <2>5. unanswered \in SUBSET Updates
    OBVIOUS
  <2>6. QED
    BY <2>1, <2>4, <2>5, ZenonT(90) DEF Abstract!StoreNext
<1>6. CASE Store!Open \/ Store!OpenFails \/ Store!OpenEnds \/ (\E u \in Updates : Store!Copy(u))
  BY <1>6, ZenonT(90) DEF Store!Open, Store!OpenFails, Store!OpenEnds, Store!Copy
<1>7. CASE Store!Write \/ Store!SyncFile \/ Store!SyncDirectory \/ UNCHANGED Store!vars
  BY <1>7 DEF Store!Write, Store!SyncFile, Store!SyncDirectory, Store!vars
<1>8. QED
  BY <1>1, <1>2, <1>3, <1>4, <1>5, <1>6, <1>7 DEF Store!Next

\* While the directory's fsync succeeds, the broker's store promises what the
\* vault promises: an update takes effect whole or not at all, and what its
\* caller was told is true.
THEOREM StoreUpdatesAtomic ==
  Store!RepairsAssumption /\ SyncMayFail = FALSE => (Store!Spec => Abstract!StoreSpec)
<1> SUFFICES ASSUME Store!RepairsAssumption, SyncMayFail = FALSE
             PROVE  Store!Spec => Abstract!StoreSpec
  OBVIOUS
<1>1. Store!Init => Abstract!StoreInit
  BY DEF Store!Init, Abstract!StoreInit
<1>2. Store!Durable /\ [Store!Next]_(Store!vars) => [Abstract!StoreNext]_(Abstract!storeVars)
  BY StoreStepImplements
<1>3. QED
  BY <1>1, <1>2, StoreDurable, PTL DEF Store!Spec, Abstract!StoreSpec

-----------------------------------------------------------------------------
(* The services, one of them exercised *)

\* The invariant of the service that is exercised.
IInv ==
    /\ part = "invokes" => Invokes!IInv
    /\ part = "grants" => Grants!IInv
    /\ part = "tokens" => Tokens!IInv
    /\ part = "forms" => Forms!IInv
    /\ part = "store" => Store!Consistent /\ Store!RepairedBeforeServing

\* And of the store, while the fsync of its directory does not fail.
DurableInv == part = "store" => Store!Durable

\* What a step is to the service that is exercised.
LEMMA StepCases ==
    ASSUME [Next]_vars
    PROVE  /\ part' = part
           /\ part = "invokes" => [Invokes!Next]_(Invokes!vars)
           /\ part = "grants" => [Grants!Next]_(Grants!vars)
           /\ part = "tokens" => [Tokens!Next]_(Tokens!vars)
           /\ part = "forms" => [Forms!Next]_(Forms!vars)
           /\ part = "store" => [Store!Next]_(Store!vars)
<1>1. CASE CentralStep
  BY <1>1 DEF CentralStep, broker, store
<1>2. CASE BrokerStep
  BY <1>2 DEF BrokerStep, central, store
<1>3. CASE StoreStep
  BY <1>3 DEF StoreStep, central, broker
<1>4. CASE UNCHANGED vars
  BY <1>4 DEF vars, central, broker, store, Invokes!vars, Invokes!vault, Invokes!history,
              Grants!vars, Grants!vault, Grants!history, Tokens!vars, Tokens!provider,
              Forms!vars, Forms!provider, Store!vars
<1>5. QED
  BY <1>1, <1>2, <1>3, <1>4 DEF Next

\* Each service starts in its invariant.
LEMMA InitHolds == Init => IInv
<1> SUFFICES ASSUME Init PROVE IInv
  OBVIOUS
<1>1. part = "invokes" => Invokes!IInv
  BY ServicesAssumption, Invokes!InitHolds DEF Init
<1>2. part = "grants" => Grants!IInv
  BY ServicesAssumption, Grants!InitHolds DEF Init
<1>3. part = "tokens" => Tokens!IInv
  BY ServicesAssumption, Tokens!InitHolds DEF Init
<1>4. part = "forms" => Forms!IInv
  BY ServicesAssumption, Forms!InitHolds DEF Init
<1>5. part = "store" => Store!Consistent /\ Store!RepairedBeforeServing
  BY StoreStarts, RepairStarts DEF Init
<1>6. QED
  BY <1>1, <1>2, <1>3, <1>4, <1>5, ZenonT(90) DEF IInv

\* And keeps it.
LEMMA StepHolds == IInv /\ [Next]_vars => IInv'
<1> SUFFICES ASSUME IInv, [Next]_vars PROVE IInv'
  OBVIOUS
<1>1. part = "invokes" => Invokes!IInv'
  BY ServicesAssumption, StepCases, Invokes!StepHolds, ZenonT(90) DEF IInv
<1>2. part = "grants" => Grants!IInv'
  BY ServicesAssumption, StepCases, Grants!StepHolds, ZenonT(90) DEF IInv
<1>3. part = "tokens" => Tokens!IInv'
  BY ServicesAssumption, StepCases, Tokens!StepHolds, ZenonT(90) DEF IInv
<1>4. part = "forms" => Forms!IInv'
  BY ServicesAssumption, StepCases, Forms!StepHolds, ZenonT(90) DEF IInv
<1>5. part = "store" => Store!Consistent' /\ Store!RepairedBeforeServing'
  BY ServicesAssumption, StepCases, StoreStaysConsistent, RepairStays, ZenonT(90) DEF IInv
<1>6. QED
  BY <1>1, <1>2, <1>3, <1>4, <1>5, StepCases DEF IInv

LEMMA Invariance == Spec => []IInv
  BY InitHolds, StepHolds, PTL DEF Spec

\* The store stays durable while its part is exercised.
LEMMA DurableInvariance == SyncMayFail = FALSE => (Spec => []DurableInv)
<1> SUFFICES ASSUME SyncMayFail = FALSE PROVE Spec => []DurableInv
  OBVIOUS
<1>1. Init => DurableInv
  BY StoreStartsDurable DEF Init, DurableInv
<1>2. DurableInv /\ [Next]_vars => DurableInv'
  BY ServicesAssumption, StepCases, StoreStaysDurable, ZenonT(90) DEF DurableInv
<1>3. QED
  BY <1>1, <1>2, PTL DEF Spec

-----------------------------------------------------------------------------
\* Central execution: one outcome per invocation, tokens bound whole at the broker,
\* grants revoked whole, codes exchanged once (central/service.go).
THEOREM CentralIsSafe == Spec => []CentralSafe
<1>1. IInv => CentralSafe
  BY ServicesAssumption, Invokes!InvariantMeans, Grants!InvariantMeans, ZenonT(90) DEF IInv, CentralSafe
<1>2. QED
  BY <1>1, Invariance, PTL

\* The broker: codes exchanged once, grants revoked whole; what it serves is in the
\* file, what it acknowledged survives, and the file is repaired first (auth).
THEOREM BrokerIsSafe == SyncMayFail = FALSE => (Spec => []BrokerSafe)
<1> SUFFICES ASSUME SyncMayFail = FALSE PROVE Spec => []BrokerSafe
  OBVIOUS
<1>1. IInv /\ DurableInv => BrokerSafe
  <2>1. IInv /\ part = "tokens" =>
          Tokens!TypeOK /\ Tokens!CodeExchangedOnce /\ Tokens!GrantRevokedWhole
    BY ServicesAssumption, Tokens!InvariantMeans DEF IInv
  <2>2. IInv /\ DurableInv /\ part = "store" =>
          /\ Store!TypeOK /\ Store!PublishedIsStored
          /\ Store!AcknowledgedSurvive /\ Store!RepairedBeforeServing
    BY DurableMeans DEF IInv, DurableInv
  <2>3. QED
    BY <2>1, <2>2, ZenonT(90) DEF BrokerSafe
<1>2. QED
  BY <1>1, Invariance, DurableInvariance, PTL

\* Grants bind every later step of central execution, and at the broker revocations,
\* owners and disclosed forms are final (invoke, revoke, authorize).
THEOREM GrantsBind == Spec => GrantsAreFinal
<1> DEFINE A == /\ part = "invokes" => Invokes!CallsUnderGrant /\ Invokes!PublishesUnderGrant
                /\ part = "tokens" => Tokens!StaysRevoked /\ Tokens!StaysOwned
                /\ part = "forms" => Forms!AcceptsLastForm /\ Forms!ApprovesByPost
<1>1. IInv /\ [Next]_vars => [A]_vars
  <2> SUFFICES ASSUME IInv, [Next]_vars, ~UNCHANGED vars PROVE A
    OBVIOUS
  <2>1. part = "invokes" => Invokes!CallsUnderGrant /\ Invokes!PublishesUnderGrant
    BY ServicesAssumption, StepCases, Invokes!CallsHold, Invokes!PublishesHold, ZenonT(90) DEF IInv
  <2>2. part = "tokens" => Tokens!StaysRevoked /\ Tokens!StaysOwned
    BY ServicesAssumption, StepCases, Tokens!TokensStay, ZenonT(90) DEF IInv
  <2>3. part = "forms" => Forms!AcceptsLastForm /\ Forms!ApprovesByPost
    BY ServicesAssumption, StepCases, Forms!ConsentsAccepted, ZenonT(90) DEF IInv
  <2>4. QED
    BY <2>1, <2>2, <2>3, ZenonT(90)
<1>2. QED
  BY <1>1, Invariance, PTL DEF Spec, GrantsAreFinal

-----------------------------------------------------------------------------
(* The abstract specifications *)

\* Central execution is a log of invocations: host retries and restarts do not
\* execute an operation again (invoke, OpenVault).
THEOREM ExecutionIsLogged == Spec => ImplementsInvocationLog
<1> DEFINE s == [k \in Invokes!Keys |-> IF part = "invokes" THEN invs[k].status ELSE "none"]
           e == [k \in Invokes!Keys |-> IF part = "invokes" THEN executed[k] ELSE 0]
<1>1. Init => Log!LogInit
  BY DEF Init, Invokes!Init, Invokes!NoInvocation, Log!LogInit
<1>2. IInv /\ IInv' /\ [Next]_vars => [Log!LogNext]_(Log!logVars)
  <2> SUFFICES ASSUME IInv, IInv', [Next]_vars PROVE [Log!LogNext]_(Log!logVars)
    OBVIOUS
  <2>1. CASE part # "invokes"
    BY <2>1, StepCases, ZenonT(90) DEF Log!logVars
  <2>2. CASE part = "invokes"
    <3>1. Invokes!LogStep(Invokes!StatusOf(invs), Invokes!StatusOf(invs'))
      BY <2>2, ServicesAssumption, StepCases, Invokes!StepLogs DEF IInv
    <3>2. Invokes!TypeOK /\ Invokes!TypeOK' /\ part' = "invokes"
      BY <2>2, ServicesAssumption, StepCases, ZenonT(90) DEF IInv, Invokes!IInv
    <3>3. /\ Invokes!StatusOf(invs) = s /\ Invokes!StatusOf(invs') = s'
          /\ executed = e /\ executed' = e'
      BY <2>2, <3>2 DEF Invokes!StatusOf, Invokes!TypeOK
    <3> HIDE DEF s, e
    <3>4. \/ s' = s /\ e' = e
          \/ \E k \in Invokes!Keys :
                s[k] = "none" /\ s' = [s EXCEPT ![k] = "running"] /\ e' = e
          \/ \E k \in Invokes!Keys :
                s[k] = "running" /\ s' = s /\ e[k] = 0 /\ e' = [e EXCEPT ![k] = 1]
          \/ \E k \in Invokes!Keys, o \in {"succeeded", "failed", "outcome_unknown"} :
                s[k] = "running" /\ s' = [s EXCEPT ![k] = o] /\ (o = "succeeded" => e[k] = 1) /\ e' = e
          \/ /\ s' = [k \in Invokes!Keys |-> IF s[k] = "running" THEN "outcome_unknown" ELSE s[k]]
             /\ e' = e
      BY <3>1, <3>3 DEF Invokes!LogStep, Invokes!Finals
    <3>5. QED
      BY <3>4, ZenonT(90) DEF s, e, Log!LogNext, Log!logVars, Log!Accept, Log!Execute, Log!Settle, Log!Interrupt
  <2>3. QED
    BY <2>1, <2>2
<1>3. QED
  BY <1>1, <1>2, Invariance, PTL DEF Spec, ImplementsInvocationLog, Log!LogSpec

\* The broker's store is an atomic one: an update is applied whole or not at all,
\* and its caller is told the truth (update, NewStore).
THEOREM StoreIsAtomic == SyncMayFail = FALSE => (Spec => ImplementsAtomicStore)
<1> SUFFICES ASSUME SyncMayFail = FALSE PROVE Spec => ImplementsAtomicStore
  OBVIOUS
<1>1. Init => Stored!StoreInit
  BY DEF Init, Store!Init, Stored!StoreInit
<1>2. DurableInv /\ [Next]_vars => [Stored!StoreNext]_(Stored!storeVars)
  <2> SUFFICES ASSUME DurableInv, [Next]_vars PROVE [Stored!StoreNext]_(Stored!storeVars)
    OBVIOUS
  <2>1. CASE part # "store"
    BY <2>1, StepCases, ZenonT(90) DEF Stored!storeVars
  <2>2. CASE part = "store"
    <3>1. [Abstract!StoreNext]_(Abstract!storeVars)
      BY <2>2, ServicesAssumption, StepCases, StoreStepImplements, ZenonT(90) DEF DurableInv
    <3>2. part' = "store"
      BY <2>2, StepCases
    <3>3. QED
      BY <2>2, <3>1, <3>2
         DEF Abstract!StoreNext, Abstract!storeVars, Abstract!Call,
             Abstract!Commit, Abstract!Acknowledge, Abstract!Reject,
             Abstract!Doubt, Abstract!Crash, Abstract!Told,
             Stored!StoreNext, Stored!storeVars, Stored!Call, Stored!Commit, Stored!Acknowledge,
             Stored!Reject, Stored!Doubt, Stored!Crash, Stored!Told
  <2>3. QED
    BY <2>1, <2>2
<1>3. QED
  BY <1>1, <1>2, DurableInvariance, PTL DEF Spec, ImplementsAtomicStore, Stored!StoreSpec
=============================================================================

---------------------------- MODULE VaultProofs ----------------------------
(***************************************************************************)
(* Proofs about Vault, for every set of processes, keys and updates.       *)
(***************************************************************************)
EXTENDS Vault, TLAPS

\* What a power loss may put back is a state the file has grown from.
OlderStatesAreEarlier == \A s \in older : s.applied \subseteq file.applied

\* No unflushed bytes are, or are about to be, at the path.
BytesAreFlushed ==
    /\ \A s \in {file} \union older : s.flushed
    /\ \A h \in Handles : vaults[h].at \in {"rename", "syncdir"} => vaults[h].next.flushed

\* The update a vault has under way is told to no one yet.
UpdateUnderWay ==
    \A h \in Handles : vaults[h].update # NoUpdate =>
        vaults[h].at \in Persisting /\ outcome[vaults[h].update] = "running"

\* What the vault in h has in memory, against what the path holds.
WorkIsCurrent ==
    \A h \in Handles :
        LET v == vaults[h] IN
        /\ v.at = "open" => v.sealed = file
        /\ v.at \in {"write", "rename"} =>
              /\ v.next.applied = file.applied \union ({v.update} \ {NoUpdate})
              /\ v.update \notin file.applied
              /\ v.update # NoUpdate => v.sealed = file
        /\ v.at = "syncdir" =>
              /\ v.next = file
              /\ v.update # NoUpdate => v.update \in file.applied

\* What was not told stored, nor left in doubt, is not stored.
NothingElseIsStored ==
    \A u \in Updates : outcome[u] \in {"new", "rejected"} => u \notin file.applied

Stored ==
    /\ AcknowledgedUpdatesSurvive
    /\ OlderStatesAreEarlier
    /\ BytesAreFlushed
    /\ UpdateUnderWay
    /\ WorkIsCurrent
    /\ NothingElseIsStored

IInv == TypeOK /\ OneOwner /\ Stored

-----------------------------------------------------------------------------
(* Types *)

\* The values every vault is built from are typed.
LEMMA ValuesTyped ==
    /\ Absent \in Sealed
    /\ \A s \in Sealed : AfterPowerLoss(s) \in Sealed
    /\ \A s \in Sealed, k \in Keys \union {NoKey} : Recovered(s, k) \in Sealed
    /\ \A invs \in [Invocations -> Statuses] : Changed(invs) \subseteq [Invocations -> Statuses]
    /\ \A at \in Stages : [Closed EXCEPT !.at = at] \in VaultRecords
<1>1. Absent \in Sealed
  BY DEF Absent, Sealed, Statuses
<1>2. ASSUME NEW s \in Sealed PROVE AfterPowerLoss(s) \in Sealed
  BY <1>1 DEF AfterPowerLoss, Damaged, Absent, Sealed
<1>3. ASSUME NEW s \in Sealed, NEW k \in Keys \union {NoKey} PROVE Recovered(s, k) \in Sealed
  BY DEF Recovered, Sealed, Statuses
<1>4. ASSUME NEW invs \in [Invocations -> Statuses]
      PROVE  Changed(invs) \subseteq [Invocations -> Statuses]
  BY DEF Changed, Statuses
<1>5. ASSUME NEW at \in Stages PROVE [Closed EXCEPT !.at = at] \in VaultRecords
  BY <1>1 DEF Closed, VaultRecords
<1>6. QED
  BY <1>1, <1>2, <1>3, <1>4, <1>5

\* The initial state is typed.
LEMMA InitTyped == Init => TypeOK
<1>1. Closed \in VaultRecords
  BY ValuesTyped DEF Closed, VaultRecords, Stages
<1>2. QED
  BY <1>1, ValuesTyped DEF Init, TypeOK

\* A vault that becomes another typed one leaves the vaults typed.
LEMMA VaultsTyped ==
    ASSUME TypeOK, NEW h \in Handles
    PROVE  /\ vaults[h] \in VaultRecords
           /\ \A v \in VaultRecords : Becomes(h, v) => vaults' \in [Handles -> VaultRecords]
           /\ \A to \in Stages : Wiped(h, to) => vaults' \in [Handles -> VaultRecords]
           /\ \A from, to \in Stages : Step(h, from, to) => vaults' \in [Handles -> VaultRecords]
<1>1. vaults[h] \in VaultRecords
  BY DEF TypeOK
<1>2. ASSUME NEW v \in VaultRecords, Becomes(h, v) PROVE vaults' \in [Handles -> VaultRecords]
  BY <1>2 DEF Becomes, TypeOK
<1>3. ASSUME NEW to \in Stages, Wiped(h, to) PROVE vaults' \in [Handles -> VaultRecords]
  BY <1>2, <1>3, ValuesTyped DEF Wiped
<1>4. ASSUME NEW from \in Stages, NEW to \in Stages, Step(h, from, to)
      PROVE  vaults' \in [Handles -> VaultRecords]
  <2>1. [vaults[h] EXCEPT !.at = to] \in VaultRecords
    BY <1>1 DEF VaultRecords
  <2>2. QED
    BY <1>2, <1>4, <2>1 DEF Step
<1>5. QED
  BY <1>1, <1>2, <1>3, <1>4

\* Every step keeps the types.
LEMMA StepTyped == TypeOK /\ [Next]_vars => TypeOK'
<1> SUFFICES ASSUME TypeOK, [Next]_vars PROVE TypeOK'
  OBVIOUS
<1> USE DEF Tell
<1>1. ASSUME NEW h \in Handles, Open(h) PROVE TypeOK'
  <2>1. ASSUME NEW k \in Keys, NEW ks \in SUBSET Keys, Register(h, k, ks) PROVE TypeOK'
    <3>1. [Closed EXCEPT !.at = "lock", !.keyID = k, !.keys = ks] \in VaultRecords
      <4>1. Absent \in Sealed
        BY ValuesTyped
      <4>2. QED
        BY <4>1 DEF Closed, VaultRecords, Stages
    <3>2. QED
      BY <2>1, <3>1, VaultsTyped DEF Register, TypeOK
  <2>2. CASE Lock(h)
    BY <2>2, VaultsTyped DEF Lock, TypeOK, Stages
  <2>3. CASE LockRefused(h)
    BY <2>3, VaultsTyped, ZenonT(90) DEF LockRefused, TypeOK, Stages
  <2>4. CASE ReadCurrent(h)
    <3>1. [vaults[h] EXCEPT !.at = "open", !.sealed = file] \in VaultRecords
      BY VaultsTyped, ZenonT(90) DEF TypeOK, Stages, VaultRecords
    <3>2. QED
      BY <2>4, <3>1, VaultsTyped DEF ReadCurrent, TypeOK
  <2>5. CASE ReadStale(h)
    <3>1. Recovered(file, vaults[h].keyID) \in Sealed
      BY VaultsTyped, ValuesTyped DEF TypeOK, VaultRecords
    <3>2. [vaults[h] EXCEPT !.at = "write", !.next = Recovered(file, vaults[h].keyID)]
             \in VaultRecords
      BY <3>1, VaultsTyped, ZenonT(90) DEF Stages, VaultRecords
    <3>3. QED
      BY <2>5, <3>2, VaultsTyped DEF ReadStale, TypeOK
  <2>6. CASE ReadFailed(h)
    BY <2>6, VaultsTyped DEF ReadFailed, TypeOK, Stages
  <2>7. QED
    BY <1>1, <2>1, <2>2, <2>3, <2>4, <2>5, <2>6 DEF Open
<1>2. ASSUME NEW h \in Handles, Persist(h) PROVE TypeOK'
  <2>1. CASE WriteTemp(h)
    <3>1. [vaults[h] EXCEPT !.at = "rename", !.next = [@ EXCEPT !.flushed = TRUE]] \in VaultRecords
      BY VaultsTyped, ZenonT(90) DEF Stages, VaultRecords, Sealed
    <3>2. QED
      BY <2>1, <3>1, VaultsTyped, ZenonT(90) DEF WriteTemp, TypeOK
  <2>2. CASE Rename(h)
    BY <2>2, VaultsTyped DEF Rename, TypeOK, Stages, VaultRecords
  <2>3. CASE SyncDirectory(h)
    <3>1. [vaults[h] EXCEPT !.at = "open", !.sealed = vaults[h].next, !.next = Absent,
                            !.update = NoUpdate] \in VaultRecords
      <4>1. vaults[h] \in VaultRecords /\ Absent \in Sealed
        BY VaultsTyped, ValuesTyped
      <4>2. QED
        BY <4>1 DEF Stages, VaultRecords
    <3>2. outcome' \in [Updates -> {"new", "running", "acked", "rejected", "indoubt"}]
      BY <2>3 DEF SyncDirectory, Published, TypeOK
    <3>3. QED
      BY <2>3, <3>1, <3>2, VaultsTyped DEF SyncDirectory, Published, TypeOK
  <2>4. CASE PersistFailed(h)
    <3>1. CASE vaults[h].update = NoUpdate
      BY <2>4, <3>1, VaultsTyped DEF PersistFailed, TypeOK, Stages
    <3>2. CASE vaults[h].update # NoUpdate
      <4>1. vaults[h] \in VaultRecords /\ Absent \in Sealed
        BY VaultsTyped, ValuesTyped
      <4>2. [vaults[h] EXCEPT !.at = "open", !.next = Absent, !.update = NoUpdate] \in VaultRecords
        BY <4>1 DEF Stages, VaultRecords
      <4>3. QED
        BY <2>4, <3>2, <4>2, VaultsTyped DEF PersistFailed, Resumed, TypeOK
    <3>3. QED
      BY <3>1, <3>2
  <2>5. CASE SyncFailed(h)
    BY <2>5, VaultsTyped DEF SyncFailed, TypeOK, Stages
  <2>6. QED
    BY <1>2, <2>1, <2>2, <2>3, <2>4, <2>5 DEF Persist
<1>3. ASSUME NEW h \in Handles, NEW u \in Updates, UpdateRejected(h, u) PROVE TypeOK'
  BY <1>3 DEF UpdateRejected, TypeOK
<1>4. ASSUME NEW h \in Handles, NEW u \in Updates,
             NEW invs \in Changed(vaults[h].sealed.invs), Update(h, u, invs)
      PROVE  TypeOK'
  <2>1. invs \in [Invocations -> Statuses]
    BY ValuesTyped DEF TypeOK, VaultRecords, Sealed
  <2>2. vaults' \in [Handles -> VaultRecords]
    <3> DEFINE n == [vaults[h].sealed EXCEPT !.key = vaults[h].keyID, !.applied = @ \union {u},
                                             !.invs = invs, !.flushed = FALSE]
    <3>1. n \in Sealed
      BY <2>1, VaultsTyped, ZenonT(90) DEF VaultRecords, Sealed
    <3>2. [vaults[h] EXCEPT !.at = "write", !.update = u, !.next = n] \in VaultRecords
      BY <3>1, VaultsTyped, ZenonT(90) DEF Stages, VaultRecords
    <3>3. QED
      BY <1>4, <3>2, VaultsTyped DEF Update
  <2>3. QED
    BY <1>4, <2>2 DEF Update, TypeOK
<1>5. ASSUME NEW h \in Handles, Close(h) \/ Unlock(h) \/ Unregister(h) PROVE TypeOK'
  <2>1. CASE Close(h)
    BY <2>1, VaultsTyped DEF Close, TypeOK, Stages
  <2>2. CASE Unlock(h)
    BY <2>2, VaultsTyped DEF Unlock, TypeOK, Stages
  <2>3. CASE Unregister(h)
    <3>1. Closed \in VaultRecords
      BY ValuesTyped DEF Closed, VaultRecords, Stages
    <3>2. QED
      BY <2>3, <3>1, VaultsTyped DEF Unregister, TypeOK
  <2>4. QED
    BY <1>5, <2>1, <2>2, <2>3
<1>6. ASSUME NEW P \in SUBSET Processes, Killed(P)
      PROVE  /\ registry' \in [Processes -> BOOLEAN]
             /\ flock' \in Handles \union {Nobody}
             /\ vaults' \in [Handles -> VaultRecords]
             /\ outcome' \in [Updates -> {"new", "running", "acked", "rejected", "indoubt"}]
  <2>1. Closed \in VaultRecords
    BY ValuesTyped DEF Closed, VaultRecords, Stages
  <2>2. QED
    BY <1>6, <2>1 DEF Killed, TypeOK
<1>7. ASSUME NEW p \in Processes, ProcessCrash(p) PROVE TypeOK'
  BY <1>6, <1>7 DEF ProcessCrash, TypeOK
<1>8. CASE PowerLoss
  BY <1>6, <1>8, ValuesTyped DEF PowerLoss, TypeOK
<1>9. CASE UNCHANGED vars
  BY <1>9 DEF vars, TypeOK
<1>10. QED
  BY <1>1, <1>2, <1>3, <1>4, <1>5, <1>7, <1>8, <1>9 DEF Next

\* Type correctness: every part of the state keeps its type.
THEOREM TypeCorrect == Spec => []TypeOK
  BY InitTyped, StepTyped, PTL DEF Spec

-----------------------------------------------------------------------------
(* The owner *)

\* A step of one vault that leaves the lock alone keeps its owner, unless it
\* makes a vault own the file that did not.
LEMMA OwnerFramed ==
    ASSUME TypeOK, OneOwner, NEW h \in Handles, NEW v, Becomes(h, v), UNCHANGED flock,
           v.at \in Owning => vaults[h].at \in Owning
    PROVE  OneOwner'
  BY DEF OneOwner, Becomes, TypeOK

\* Opening, failing, closing and dying leave at most one owner.
LEMMA OwnerKept == TypeOK /\ OneOwner /\ [Next]_vars => OneOwner'
<1> SUFFICES ASSUME TypeOK, OneOwner, [Next]_vars PROVE OneOwner'
  OBVIOUS
<1>1. ASSUME NEW h \in Handles, Open(h) PROVE OneOwner'
  <2>1. ASSUME NEW k \in Keys, NEW ks \in SUBSET Keys, Register(h, k, ks) PROVE OneOwner'
    <3>1. [Closed EXCEPT !.at = "lock", !.keyID = k, !.keys = ks].at \notin Owning
      BY DEF Closed, Owning
    <3>2. QED
      BY <2>1, <3>1, OwnerFramed DEF Register
  <2>2. CASE Lock(h)
    <3>1. \A g \in Handles : vaults[g].at \notin Owning
      BY <2>2, Distinct DEF Lock, OneOwner, Handles
    <3>2. QED
      BY <2>2, <3>1 DEF Lock, Step, Becomes, OneOwner, TypeOK
  <2>3. CASE LockRefused(h)
    <3>1. [Closed EXCEPT !.at = "unlock"].at \notin Owning
      BY DEF Closed, Owning
    <3>2. QED
      BY <2>3, <3>1, OwnerFramed DEF LockRefused, Wiped
  <2>4. CASE ReadCurrent(h) \/ ReadStale(h) \/ ReadFailed(h)
    BY <2>4, OwnerFramed DEF ReadCurrent, ReadStale, ReadFailed, Wiped, Owning
  <2>5. QED
    BY <1>1, <2>1, <2>2, <2>3, <2>4 DEF Open
<1>2. ASSUME NEW h \in Handles, Persist(h) PROVE OneOwner'
  <2>1. vaults[h].at \in Owning
    BY <1>2 DEF Persist, WriteTemp, Rename, Step, SyncDirectory, PersistFailed, SyncFailed, Owning
  <2>2. UNCHANGED flock /\ \E v : Becomes(h, v)
    BY <1>2 DEF Persist, WriteTemp, Rename, Step, SyncDirectory, Published, PersistFailed,
                SyncFailed, Wiped, Resumed
  <2>3. QED
    BY <2>1, <2>2, OwnerFramed
<1>3. ASSUME NEW h \in Handles, NEW u \in Updates, UpdateRejected(h, u) PROVE OneOwner'
  BY <1>3 DEF UpdateRejected, OneOwner
<1>4. ASSUME NEW h \in Handles, NEW u \in Updates,
             NEW invs \in Changed(vaults[h].sealed.invs), Update(h, u, invs)
      PROVE  OneOwner'
  BY <1>4, OwnerFramed DEF Update, Owning
<1>5. ASSUME NEW h \in Handles, Close(h) PROVE OneOwner'
  BY <1>5, OwnerFramed DEF Close, Wiped, Owning
<1>6. ASSUME NEW h \in Handles, Unlock(h) PROVE OneOwner'
  <2>1. vaults[h].at \notin Owning /\ vaults'[h].at \notin Owning
    BY <1>6 DEF Unlock, Step, Becomes, TypeOK, VaultRecords, Owning
  <2>2. \A g \in Handles : g # h => vaults'[g] = vaults[g]
    BY <1>6 DEF Unlock, Step, Becomes, TypeOK
  <2>3. QED
    BY <1>6, <2>1, <2>2 DEF Unlock, OneOwner
<1>7. ASSUME NEW h \in Handles, Unregister(h) PROVE OneOwner'
  <2>1. Closed.at \notin Owning
    BY DEF Closed, Owning
  <2>2. QED
    BY <1>7, <2>1, OwnerFramed DEF Unregister
<1>8. ASSUME NEW P \in SUBSET Processes, Killed(P) PROVE OneOwner'
  <2>1. Closed.at \notin Owning
    BY DEF Closed, Owning
  <2>2. QED
    BY <1>8, <2>1 DEF Killed, OneOwner
<1>9. CASE UNCHANGED vars
  BY <1>9 DEF vars, OneOwner
<1>10. QED
  BY <1>1, <1>2, <1>3, <1>4, <1>5, <1>6, <1>7, <1>8, <1>9 DEF Next, ProcessCrash, PowerLoss

\* One vault at a time reads, writes and serves the file.
THEOREM OwnerUnique == Spec => []OneOwner
<1>1. Init => OneOwner
  BY DEF Init, OneOwner, Owning, Closed
<1>2. QED
  BY <1>1, OwnerKept, TypeCorrect, PTL DEF Spec

-----------------------------------------------------------------------------
(* What is stored *)

\* While a vault owns the file no other does.
LEMMA OthersIdle ==
    ASSUME OneOwner, NEW h \in Handles, vaults[h].at \in Owning,
           NEW g \in Handles, g # h
    PROVE  vaults[g].at \notin Owning
  BY DEF OneOwner

\* A step that touches neither the file nor a verdict, and puts one vault in a
\* stage without memory or work, keeps what is stored.
LEMMA QuietStep ==
    ASSUME IInv, NEW h \in Handles, NEW v, Becomes(h, v), UNCHANGED <<file, older, outcome>>,
           v.at \notin {"write", "rename", "syncdir", "open"}, v.update = NoUpdate
    PROVE  Stored'
<1>1. vaults'[h] = v /\ \A g \in Handles : g # h => vaults'[g] = vaults[g]
  BY DEF Becomes, IInv, TypeOK
<1>2. /\ AcknowledgedUpdatesSurvive' /\ OlderStatesAreEarlier' /\ NothingElseIsStored'
  BY DEF IInv, Stored, AcknowledgedUpdatesSurvive, OlderStatesAreEarlier, NothingElseIsStored
<1>3. BytesAreFlushed'
  BY <1>1 DEF IInv, Stored, BytesAreFlushed
<1>4. UpdateUnderWay'
  BY <1>1 DEF IInv, Stored, UpdateUnderWay
<1>5. WorkIsCurrent'
  BY <1>1 DEF IInv, Stored, WorkIsCurrent
<1>6. QED
  BY <1>2, <1>3, <1>4, <1>5 DEF Stored

\* A step of the owner: what is left to show is about its own vault, and the
\* verdicts and files that changed.
LEMMA OwnerStep ==
    ASSUME IInv, NEW h \in Handles, vaults[h].at \in Owning, NEW v, Becomes(h, v),
           \A u \in Updates : u # vaults[h].update /\ u # v.update => outcome'[u] = outcome[u],
           v.at \in {"rename", "syncdir"} => v.next.flushed,
           v.update # NoUpdate => v.at \in Persisting /\ outcome'[v.update] = "running",
           v.at = "open" => v.sealed = file',
           v.at \in {"write", "rename"} =>
              /\ v.next.applied = file'.applied \union ({v.update} \ {NoUpdate})
              /\ v.update \notin file'.applied
              /\ v.update # NoUpdate => v.sealed = file',
           v.at = "syncdir" =>
              /\ v.next = file'
              /\ v.update # NoUpdate => v.update \in file'.applied
    PROVE  /\ UpdateUnderWay' /\ WorkIsCurrent'
           /\ (\A s \in {file'} \union older' : s.flushed) => BytesAreFlushed'
<1>1. vaults'[h] = v /\ \A g \in Handles : g # h => vaults'[g] = vaults[g]
  BY DEF Becomes, IInv, TypeOK
<1>2. ASSUME NEW g \in Handles, g # h
      PROVE  vaults[g].at \notin Owning /\ vaults[g].update = NoUpdate
  BY <1>2, OthersIdle DEF IInv, Stored, UpdateUnderWay, Owning, Persisting
<1>3. UpdateUnderWay'
  BY <1>1, <1>2 DEF UpdateUnderWay
<1>4. WorkIsCurrent'
  BY <1>1, <1>2 DEF WorkIsCurrent, Owning
<1>5. ASSUME \A s \in {file'} \union older' : s.flushed PROVE BytesAreFlushed'
  BY <1>1, <1>2, <1>5 DEF BytesAreFlushed, Owning
<1>6. QED
  BY <1>3, <1>4, <1>5

\* Opening keeps what is stored.
LEMMA OpenKeeps == ASSUME IInv, NEW h \in Handles, Open(h) PROVE Stored'
<1>1. ASSUME NEW k \in Keys, NEW ks \in SUBSET Keys, Register(h, k, ks) PROVE Stored'
  <2> DEFINE v == [Closed EXCEPT !.at = "lock", !.keyID = k, !.keys = ks]
  <2>1. v.at = "lock" /\ v.update = NoUpdate
    BY DEF Closed
  <2>2. Becomes(h, v) /\ UNCHANGED <<file, older, outcome>>
    BY <1>1 DEF Register
  <2>3. QED
    BY <2>1, <2>2, QuietStep
<1>2. CASE Lock(h)
  <2> DEFINE v == [vaults[h] EXCEPT !.at = "read"]
  <2>1. vaults[h] \in VaultRecords /\ vaults[h].update = NoUpdate
    BY <1>2 DEF Lock, Step, IInv, TypeOK, Stored, UpdateUnderWay, Persisting
  <2>2. v.at = "read" /\ v.update = NoUpdate
    BY <2>1 DEF VaultRecords
  <2>3. Becomes(h, v) /\ UNCHANGED <<file, older, outcome>>
    BY <1>2 DEF Lock, Step
  <2>4. QED
    BY <2>2, <2>3, QuietStep
<1>3. CASE LockRefused(h) \/ ReadFailed(h)
  <2> DEFINE v == [Closed EXCEPT !.at = "unlock"]
  <2>1. v.at = "unlock" /\ v.update = NoUpdate
    BY DEF Closed
  <2>2. Becomes(h, v) /\ UNCHANGED <<file, older, outcome>>
    BY <1>3 DEF LockRefused, ReadFailed, Wiped
  <2>3. QED
    BY <2>1, <2>2, QuietStep
<1>4. CASE ReadCurrent(h) \/ ReadStale(h)
  <2>1. /\ vaults[h] \in VaultRecords /\ vaults[h].at = "read" /\ vaults[h].update = NoUpdate
        /\ vaults[h].at \in Owning
    BY <1>4 DEF ReadCurrent, ReadStale, IInv, TypeOK, Stored, UpdateUnderWay, Persisting, Owning
  <2>2. file \in Sealed /\ NoUpdate \notin file.applied
    BY Distinct DEF IInv, TypeOK, Sealed
  <2>3. UNCHANGED <<file, older, outcome>>
    BY <1>4 DEF ReadCurrent, ReadStale
  <2>4. UpdateUnderWay' /\ WorkIsCurrent' /\ BytesAreFlushed'
    <3>1. \A s \in {file'} \union older' : s.flushed
      BY <2>3 DEF IInv, Stored, BytesAreFlushed
    <3>2. CASE ReadCurrent(h)
      <4> DEFINE v == [vaults[h] EXCEPT !.at = "open", !.sealed = file]
      <4>1. v.at = "open" /\ v.sealed = file /\ v.update = NoUpdate
        BY <2>1 DEF VaultRecords
      <4>2. Becomes(h, v)
        BY <3>2 DEF ReadCurrent
      <4> HIDE DEF v
      <4>3. QED
        BY <2>1, <2>3, <3>1, <4>1, <4>2, OwnerStep
    <3>3. CASE ReadStale(h)
      <4> DEFINE r == Recovered(file, vaults[h].keyID)
                 v == [vaults[h] EXCEPT !.at = "write", !.next = r]
      <4>1. r.applied = file.applied
        BY <2>2 DEF Recovered, Sealed
      <4>2. v.at = "write" /\ v.next = r /\ v.update = NoUpdate
        BY <2>1 DEF VaultRecords
      <4>3. Becomes(h, v)
        BY <3>3 DEF ReadStale
      <4> HIDE DEF v, r
      <4>4. v.next.applied = file'.applied \union ({v.update} \ {NoUpdate})
        BY <2>3, <4>1, <4>2
      <4>5. QED
        BY <2>1, <2>2, <2>3, <3>1, <4>2, <4>3, <4>4, OwnerStep
    <3>4. QED
      BY <1>4, <3>2, <3>3
  <2>5. AcknowledgedUpdatesSurvive' /\ OlderStatesAreEarlier' /\ NothingElseIsStored'
    BY <2>3 DEF IInv, Stored, AcknowledgedUpdatesSurvive, OlderStatesAreEarlier,
                NothingElseIsStored
  <2>6. QED
    BY <2>4, <2>5 DEF Stored
<1>5. QED
  BY <1>1, <1>2, <1>3, <1>4 DEF Open

\* Persisting keeps what is stored: the renamed state holds all that the file
\* did, and the verdict follows the rename.
LEMMA PersistKeeps == ASSUME IInv, NEW h \in Handles, Persist(h) PROVE Stored'
<1> DEFINE w == vaults[h]
           u == w.update
<1>1. /\ w \in VaultRecords /\ w.at \in Persisting /\ w.at \in Owning
      /\ u # NoUpdate => u \in Updates /\ outcome[u] = "running"
  BY DEF Persist, WriteTemp, Rename, Step, SyncDirectory, PersistFailed, SyncFailed, Persisting,
         Owning, IInv, TypeOK, VaultRecords, Stored, UpdateUnderWay
<1>2. file \in Sealed /\ NoUpdate \notin file.applied
  BY Distinct DEF IInv, TypeOK, Sealed
<1>3. \A s \in {file} \union older : s.flushed
  BY DEF IInv, Stored, BytesAreFlushed
<1>4. /\ w.at \in {"write", "rename"} =>
            /\ w.next.applied = file.applied \union ({u} \ {NoUpdate})
            /\ u \notin file.applied
            /\ u # NoUpdate => w.sealed = file
      /\ w.at = "syncdir" => w.next = file /\ (u # NoUpdate => u \in file.applied)
      /\ w.at \in {"rename", "syncdir"} => w.next.flushed
  BY DEF IInv, Stored, WorkIsCurrent, BytesAreFlushed
<1>5. CASE WriteTemp(h)
  <2> DEFINE n == [w.next EXCEPT !.flushed = TRUE]
             v == [w EXCEPT !.at = "rename", !.next = n]
  <2>1. n.applied = w.next.applied /\ n.flushed
    BY <1>1 DEF VaultRecords, Sealed
  <2>2. v.at = "rename" /\ v.next = n /\ v.update = u /\ v.sealed = w.sealed
    BY <1>1 DEF VaultRecords
  <2>3. Becomes(h, v) /\ UNCHANGED <<file, older, outcome>> /\ w.at = "write"
    BY <1>5, <1>1 DEF WriteTemp, VaultRecords
  <2> HIDE DEF v, n
  <2>4. UpdateUnderWay' /\ WorkIsCurrent' /\ BytesAreFlushed'
    BY <1>1, <1>3, <1>4, <2>1, <2>2, <2>3, OwnerStep DEF Persisting
  <2>5. AcknowledgedUpdatesSurvive' /\ OlderStatesAreEarlier' /\ NothingElseIsStored'
    BY <2>3 DEF IInv, Stored, AcknowledgedUpdatesSurvive, OlderStatesAreEarlier,
                NothingElseIsStored
  <2>6. QED
    BY <2>4, <2>5 DEF Stored
<1>6. CASE Rename(h)
  <2> DEFINE v == [w EXCEPT !.at = "syncdir"]
  <2>1. v.at = "syncdir" /\ v.next = w.next /\ v.update = u
    BY <1>1 DEF VaultRecords
  <2>2. /\ Becomes(h, v) /\ file' = w.next /\ older' = older \union {file}
        /\ UNCHANGED outcome /\ w.at = "rename"
    BY <1>6 DEF Rename, Step
  <2> HIDE DEF v
  <2>3. file.applied \subseteq file'.applied /\ (u # NoUpdate => u \in file'.applied)
        /\ \A x \in file'.applied : x \in file.applied \/ x = u
    BY <1>4, <2>2
  <2>4. \A s \in {file'} \union older' : s.flushed
    BY <1>3, <1>4, <2>2
  <2>5. UpdateUnderWay' /\ WorkIsCurrent' /\ BytesAreFlushed'
    BY <1>1, <2>1, <2>2, <2>3, <2>4, <1>4, OwnerStep DEF Persisting
  <2>6. AcknowledgedUpdatesSurvive' /\ OlderStatesAreEarlier'
    BY <2>2, <2>3 DEF IInv, Stored, AcknowledgedUpdatesSurvive, OlderStatesAreEarlier
  <2>7. NothingElseIsStored'
    BY <1>1, <1>4, <2>2, <2>3, Distinct DEF IInv, Stored, NothingElseIsStored
  <2>8. QED
    BY <2>5, <2>6, <2>7 DEF Stored
<1>7. CASE SyncDirectory(h)
  <2> DEFINE v == [w EXCEPT !.at = "open", !.sealed = w.next, !.next = Absent,
                            !.update = NoUpdate]
  <2>1. v.at = "open" /\ v.sealed = w.next /\ v.update = NoUpdate
    BY <1>1 DEF VaultRecords
  <2>2. Becomes(h, v) /\ file' = file /\ older' = {} /\ w.at = "syncdir"
    BY <1>7 DEF SyncDirectory, Published
  <2>3. /\ u = NoUpdate => outcome' = outcome
        /\ u # NoUpdate => outcome' = [outcome EXCEPT ![u] = "acked"]
    BY <1>7 DEF SyncDirectory, Published, Tell
  <2> HIDE DEF v
  <2>4. \A x \in Updates : x # u => outcome'[x] = outcome[x]
    BY <2>3 DEF IInv, TypeOK
  <2>5. UpdateUnderWay' /\ WorkIsCurrent' /\ BytesAreFlushed'
    BY <1>1, <1>3, <1>4, <2>1, <2>2, <2>4, OwnerStep
  <2>6. AcknowledgedUpdatesSurvive'
    BY <1>4, <2>2, <2>4, Distinct DEF IInv, Stored, AcknowledgedUpdatesSurvive
  <2>7. OlderStatesAreEarlier'
    BY <2>2 DEF OlderStatesAreEarlier
  <2>8. NothingElseIsStored'
    BY <1>1, <2>2, <2>3, <2>4 DEF IInv, TypeOK, Stored, NothingElseIsStored
  <2>9. QED
    BY <2>5, <2>6, <2>7, <2>8 DEF Stored
<1>8. CASE (PersistFailed(h) \/ SyncFailed(h)) /\ u = NoUpdate
  <2> DEFINE v == [Closed EXCEPT !.at = "unlock"]
  <2>1. v.at = "unlock" /\ v.update = NoUpdate
    BY DEF Closed
  <2>2. Becomes(h, v) /\ UNCHANGED <<file, older, outcome>>
    BY <1>8 DEF PersistFailed, SyncFailed, Wiped
  <2>3. QED
    BY <2>1, <2>2, QuietStep
<1>9. CASE PersistFailed(h) /\ u # NoUpdate
  <2> DEFINE v == [w EXCEPT !.at = "open", !.next = Absent, !.update = NoUpdate]
  <2>1. v.at = "open" /\ v.sealed = w.sealed /\ v.update = NoUpdate
    BY <1>1 DEF VaultRecords
  <2>2. /\ Becomes(h, v) /\ UNCHANGED <<file, older>> /\ w.at \in {"write", "rename"}
        /\ outcome' = [outcome EXCEPT ![u] = "rejected"]
    BY <1>9 DEF PersistFailed, Resumed, Tell
  <2> HIDE DEF v
  <2>3. \A x \in Updates : x # u => outcome'[x] = outcome[x]
    BY <2>2 DEF IInv, TypeOK
  <2>4. UpdateUnderWay' /\ WorkIsCurrent' /\ BytesAreFlushed'
    BY <1>1, <1>3, <1>4, <1>9, <2>1, <2>2, <2>3, OwnerStep
  <2>5. outcome'[u] = "rejected" /\ u \notin file'.applied
    BY <1>1, <1>4, <1>9, <2>2 DEF IInv, TypeOK
  <2>6. AcknowledgedUpdatesSurvive' /\ OlderStatesAreEarlier' /\ NothingElseIsStored'
    BY <2>2, <2>3, <2>5 DEF IInv, Stored, AcknowledgedUpdatesSurvive, OlderStatesAreEarlier,
                            NothingElseIsStored
  <2>7. QED
    BY <2>4, <2>6 DEF Stored
<1>10. CASE SyncFailed(h) /\ u # NoUpdate
  <2> DEFINE v == [Closed EXCEPT !.at = "poisoned"]
  <2>1. v.at = "poisoned" /\ v.update = NoUpdate
    BY DEF Closed
  <2>2. /\ Becomes(h, v) /\ UNCHANGED <<file, older>>
        /\ outcome' = [outcome EXCEPT ![u] = "indoubt"]
    BY <1>10 DEF SyncFailed, Wiped, Tell
  <2> HIDE DEF v
  <2>3. \A x \in Updates : x # u => outcome'[x] = outcome[x]
    BY <2>2 DEF IInv, TypeOK
  <2>4. UpdateUnderWay' /\ WorkIsCurrent' /\ BytesAreFlushed'
    BY <1>1, <1>3, <2>1, <2>2, <2>3, OwnerStep
  <2>5. outcome'[u] = "indoubt"
    BY <1>1, <1>10, <2>2 DEF IInv, TypeOK
  <2>6. AcknowledgedUpdatesSurvive' /\ OlderStatesAreEarlier' /\ NothingElseIsStored'
    BY <2>2, <2>3, <2>5 DEF IInv, Stored, AcknowledgedUpdatesSurvive, OlderStatesAreEarlier,
                            NothingElseIsStored
  <2>7. QED
    BY <2>4, <2>6 DEF Stored
<1>11. QED
  BY <1>5, <1>6, <1>7, <1>8, <1>9, <1>10 DEF Persist

\* Beginning an update, or refusing one, stores nothing.
LEMMA UpdateKeeps ==
    ASSUME IInv, NEW h \in Handles, NEW u \in Updates,
           UpdateRejected(h, u) \/ \E invs \in Changed(vaults[h].sealed.invs) : Update(h, u, invs)
    PROVE  Stored'
<1>1. CASE UpdateRejected(h, u)
  <2>1. /\ UNCHANGED <<file, older, vaults>> /\ outcome[u] = "new" /\ outcome'[u] = "rejected"
        /\ \A x \in Updates : x # u => outcome'[x] = outcome[x]
    BY <1>1 DEF UpdateRejected, Tell, IInv, TypeOK
  <2>2. UpdateUnderWay'
    BY <2>1 DEF IInv, TypeOK, VaultRecords, Stored, UpdateUnderWay
  <2>3. WorkIsCurrent' /\ BytesAreFlushed'
    BY <2>1 DEF IInv, Stored, WorkIsCurrent, BytesAreFlushed
  <2>4. AcknowledgedUpdatesSurvive' /\ OlderStatesAreEarlier' /\ NothingElseIsStored'
    BY <2>1 DEF IInv, Stored, AcknowledgedUpdatesSurvive, OlderStatesAreEarlier,
                NothingElseIsStored
  <2>5. QED
    BY <2>2, <2>3, <2>4 DEF Stored
<1>2. ASSUME NEW invs \in Changed(vaults[h].sealed.invs), Update(h, u, invs) PROVE Stored'
  <2> DEFINE w == vaults[h]
             n == [w.sealed EXCEPT !.key = w.keyID, !.applied = @ \union {u}, !.invs = invs,
                                   !.flushed = FALSE]
             v == [w EXCEPT !.at = "write", !.update = u, !.next = n]
  <2>1. /\ w \in VaultRecords /\ w.at = "open" /\ w.at \in Owning /\ w.sealed = file
        /\ w.update = NoUpdate
    BY <1>2 DEF Update, IInv, TypeOK, Stored, WorkIsCurrent, UpdateUnderWay, Owning, Persisting
  <2>2. n.applied = file.applied \union {u}
    BY <2>1, ZenonT(90) DEF VaultRecords, Sealed
  <2>3. v.at = "write" /\ v.update = u /\ v.next = n /\ v.sealed = file
    BY <2>1, ZenonT(90) DEF VaultRecords
  <2>4. /\ Becomes(h, v) /\ UNCHANGED <<file, older>> /\ outcome[u] = "new"
        /\ outcome' = [outcome EXCEPT ![u] = "running"]
    BY <1>2 DEF Update, Tell
  <2> HIDE DEF v, n
  <2>5. outcome'[u] = "running" /\ \A x \in Updates : x # u => outcome'[x] = outcome[x]
    BY <2>4 DEF IInv, TypeOK
  <2>6. u # NoUpdate /\ u \notin file.applied
    BY <2>4, Distinct DEF IInv, Stored, NothingElseIsStored
  <2>7. UpdateUnderWay' /\ WorkIsCurrent' /\ BytesAreFlushed'
    <3>1. \A s \in {file'} \union older' : s.flushed
      BY <2>4 DEF IInv, Stored, BytesAreFlushed
    <3>2. v.next.applied = file'.applied \union ({v.update} \ {NoUpdate})
      BY <2>2, <2>3, <2>4, <2>6
    <3>3. QED
      BY <2>1, <2>3, <2>4, <2>5, <2>6, <3>1, <3>2, OwnerStep DEF Persisting
  <2>8. AcknowledgedUpdatesSurvive' /\ OlderStatesAreEarlier' /\ NothingElseIsStored'
    BY <2>4, <2>5 DEF IInv, Stored, AcknowledgedUpdatesSurvive, OlderStatesAreEarlier,
                      NothingElseIsStored
  <2>9. QED
    BY <2>7, <2>8, ZenonT(90) DEF Stored
<1>3. QED
  BY <1>1, <1>2

\* Closing keeps what is stored.
LEMMA CloseKeeps ==
    ASSUME IInv, NEW h \in Handles, Close(h) \/ Unlock(h) \/ Unregister(h) PROVE Stored'
<1>1. CASE Close(h)
  <2> DEFINE v == [Closed EXCEPT !.at = "unlock"]
  <2>1. v.at = "unlock" /\ v.update = NoUpdate
    BY DEF Closed
  <2>2. Becomes(h, v) /\ UNCHANGED <<file, older, outcome>>
    BY <1>1 DEF Close, Wiped
  <2>3. QED
    BY <2>1, <2>2, QuietStep
<1>2. CASE Unlock(h)
  <2> DEFINE v == [vaults[h] EXCEPT !.at = "unregister"]
  <2>1. vaults[h] \in VaultRecords /\ vaults[h].update = NoUpdate
    BY <1>2 DEF Unlock, Step, IInv, TypeOK, Stored, UpdateUnderWay, Persisting
  <2>2. v.at = "unregister" /\ v.update = NoUpdate
    BY <2>1 DEF VaultRecords
  <2>3. Becomes(h, v) /\ UNCHANGED <<file, older, outcome>>
    BY <1>2 DEF Unlock, Step
  <2>4. QED
    BY <2>2, <2>3, QuietStep
<1>3. CASE Unregister(h)
  <2>1. Closed.at = "closed" /\ Closed.update = NoUpdate
    BY DEF Closed
  <2>2. Becomes(h, Closed) /\ UNCHANGED <<file, older, outcome>>
    BY <1>3 DEF Unregister
  <2>3. QED
    BY <2>1, <2>2, QuietStep
<1>4. QED
  BY <1>1, <1>2, <1>3

\* What ending the processes in P does to vaults and verdicts.
LEMMA KilledFacts ==
    ASSUME IInv, NEW P \in SUBSET Processes, Killed(P)
    PROVE  /\ \A h \in Handles : vaults'[h] = IF h \in P \X Slots THEN Closed ELSE vaults[h]
           /\ \A u \in Updates :
                outcome'[u] # outcome[u] => outcome[u] = "running" /\ outcome'[u] = "indoubt"
           /\ UpdateUnderWay'
<1>1. \A h \in Handles : vaults'[h] = IF h \in P \X Slots THEN Closed ELSE vaults[h]
  BY DEF Killed
<1>2. \A u \in Updates :
        outcome'[u] # outcome[u] => outcome[u] = "running" /\ outcome'[u] = "indoubt"
  BY DEF Killed
<1>3. UpdateUnderWay'
  <2> SUFFICES ASSUME NEW h \in Handles, vaults'[h].update # NoUpdate
               PROVE  vaults'[h].at \in Persisting /\ outcome'[vaults'[h].update] = "running"
    BY DEF UpdateUnderWay
  <2> DEFINE u == vaults[h].update
  <2>1. Closed.update = NoUpdate
    BY DEF Closed
  <2>2. h \notin P \X Slots /\ vaults'[h] = vaults[h] /\ u # NoUpdate
    BY <1>1, <2>1
  <2>3. vaults[h].at \in Persisting /\ outcome[u] = "running" /\ u \in Updates
    BY <2>2 DEF IInv, TypeOK, VaultRecords, Stored, UpdateUnderWay
  <2>4. ASSUME NEW g \in P \X Slots, vaults[g].update = u PROVE FALSE
    <3>1. g \in Handles /\ g # h
      BY <2>2 DEF Handles
    <3>2. vaults[g].at \in Persisting
      BY <2>2, <2>4, <3>1 DEF IInv, Stored, UpdateUnderWay
    <3>3. QED
      BY <2>3, <3>1, <3>2, OthersIdle DEF IInv, Persisting, Owning
  <2>5. outcome'[u] = outcome[u]
    BY <2>3, <2>4 DEF Killed
  <2>6. QED
    BY <2>2, <2>3, <2>5
<1>4. QED
  BY <1>1, <1>2, <1>3

\* A crash keeps what is stored, and a power loss puts back at most a state
\* that holds every acknowledged update.
LEMMA CrashKeeps ==
    ASSUME IInv, PowerLoss \/ \E p \in Processes : ProcessCrash(p) PROVE Stored'
<1>0. Closed.at = "closed"
  BY DEF Closed
<1>1. ASSUME NEW p \in Processes, ProcessCrash(p) PROVE Stored'
  <2>1. Killed({p}) /\ UNCHANGED <<file, older>> /\ {p} \in SUBSET Processes
    BY <1>1 DEF ProcessCrash
  <2>2. UpdateUnderWay'
    BY <2>1, KilledFacts
  <2>3. \A h \in Handles : vaults'[h] = Closed \/ vaults'[h] = vaults[h]
    BY <2>1, KilledFacts
  <2>4. WorkIsCurrent' /\ BytesAreFlushed'
    BY <1>0, <2>1, <2>3 DEF IInv, Stored, WorkIsCurrent, BytesAreFlushed
  <2>5. \A u \in Updates : outcome'[u] # outcome[u] => outcome'[u] = "indoubt"
    BY <2>1, KilledFacts
  <2>6. AcknowledgedUpdatesSurvive' /\ OlderStatesAreEarlier' /\ NothingElseIsStored'
    BY <2>1, <2>5 DEF IInv, Stored, AcknowledgedUpdatesSurvive, OlderStatesAreEarlier,
                      NothingElseIsStored
  <2>7. QED
    BY <2>2, <2>4, <2>6 DEF Stored
<1>2. CASE PowerLoss
  <2>1. PICK s \in {file} \union older : file' = AfterPowerLoss(s)
    BY <1>2 DEF PowerLoss
  <2>2. file' = s /\ s.flushed /\ older' = {} /\ s.applied \subseteq file.applied
    BY <1>2, <2>1 DEF PowerLoss, AfterPowerLoss, IInv, Stored, BytesAreFlushed,
                      OlderStatesAreEarlier
  <2>3. Killed(Processes) /\ Processes \in SUBSET Processes
    BY <1>2 DEF PowerLoss
  <2>4. UpdateUnderWay'
    BY <2>3, KilledFacts
  <2>5. \A h \in Handles : vaults'[h] = Closed
    BY <2>3, KilledFacts DEF Handles
  <2>6. WorkIsCurrent' /\ BytesAreFlushed' /\ OlderStatesAreEarlier'
    BY <1>0, <2>2, <2>5 DEF WorkIsCurrent, BytesAreFlushed, OlderStatesAreEarlier
  <2>7. \A u \in Updates : outcome'[u] # outcome[u] => outcome'[u] = "indoubt"
    BY <2>3, KilledFacts
  <2>8. AcknowledgedUpdatesSurvive'
    BY <2>1, <2>2, <2>7 DEF IInv, Stored, AcknowledgedUpdatesSurvive
  <2>9. NothingElseIsStored'
    BY <2>2, <2>7 DEF IInv, Stored, NothingElseIsStored
  <2>10. QED
    BY <2>4, <2>6, <2>8, <2>9 DEF Stored
<1>3. QED
  BY <1>1, <1>2

\* The inductive invariant holds initially and is kept by every step.
LEMMA Inductive == (Init => IInv) /\ (IInv /\ [Next]_vars => IInv')
<1>1. ASSUME Init PROVE IInv
  <2>1. TypeOK
    BY <1>1, InitTyped
  <2>2. /\ \A h \in Handles : vaults[h] = Closed
        /\ file = Absent /\ older = {} /\ \A u \in Updates : outcome[u] = "new"
    BY <1>1 DEF Init
  <2>3. Closed.at = "closed" /\ Closed.update = NoUpdate /\ Absent.applied = {} /\ Absent.flushed
    BY DEF Closed, Absent
  <2>4. QED
    BY <2>1, <2>2, <2>3 DEF IInv, OneOwner, Owning, Stored, AcknowledgedUpdatesSurvive,
       OlderStatesAreEarlier, BytesAreFlushed, UpdateUnderWay, WorkIsCurrent, NothingElseIsStored
<1>2. ASSUME IInv, [Next]_vars PROVE IInv'
  <2>1. TypeOK' /\ OneOwner'
    BY <1>2, StepTyped, OwnerKept DEF IInv
  <2>2. Stored'
    <3>1. CASE UNCHANGED vars
      BY <1>2, <3>1 DEF vars, IInv, Stored, AcknowledgedUpdatesSurvive, OlderStatesAreEarlier,
         BytesAreFlushed, UpdateUnderWay, WorkIsCurrent, NothingElseIsStored
    <3>2. CASE Next
      BY <1>2, <3>2, OpenKeeps, PersistKeeps, UpdateKeeps, CloseKeeps, CrashKeeps DEF Next
    <3>3. QED
      BY <1>2, <3>1, <3>2
  <2>3. QED
    BY <2>1, <2>2 DEF IInv
<1>3. QED
  BY <1>1, <1>2

LEMMA Invariance == Spec => []IInv
  BY Inductive, PTL DEF Spec

\* No acknowledged update is missing from any state that a crash or a power
\* loss may leave at the path.
THEOREM AcknowledgedSurvive == Spec => []AcknowledgedUpdatesSurvive
<1>1. IInv => AcknowledgedUpdatesSurvive
  BY DEF IInv, Stored
<1>2. QED
  BY <1>1, Invariance, PTL

\* What an open vault serves is what the path holds.
THEOREM ServedIsStored == Spec => []ServedStateIsStored
<1>1. IInv => ServedStateIsStored
  BY DEF IInv, Stored, WorkIsCurrent, ServedStateIsStored
<1>2. QED
  BY <1>1, Invariance, PTL

\* The path never holds a file whose bytes a power loss has damaged.
THEOREM NeverDamaged == Spec => []FileStaysWhole
<1>1. IInv => FileStaysWhole
  <2>1. ~Damaged.flushed
    BY DEF Damaged, Absent
  <2>2. QED
    BY <2>1 DEF IInv, Stored, BytesAreFlushed, FileStaysWhole
<1>2. QED
  BY <1>1, Invariance, PTL

-----------------------------------------------------------------------------
(* The vault is an atomic store *)

\* A step that changes neither the stored updates nor a verdict is a stutter.
LEMMA PersistRefines ==
    ASSUME IInv, NEW h \in Handles, Persist(h)
    PROVE  Store!StoreNext \/ UNCHANGED Store!storeVars
<1> DEFINE w == vaults[h]
           u == w.update
<1>1. /\ w \in VaultRecords
      /\ u # NoUpdate => u \in Updates /\ outcome[u] = "running"
      /\ w.at \in {"write", "rename"} =>
            /\ w.next.applied = file.applied \union ({u} \ {NoUpdate})
            /\ u \notin file.applied
      /\ w.at = "syncdir" /\ u # NoUpdate => u \in file.applied
  BY DEF IInv, TypeOK, VaultRecords, Stored, UpdateUnderWay, WorkIsCurrent
<1>2. CASE WriteTemp(h) \/ (u = NoUpdate /\ (SyncDirectory(h) \/ PersistFailed(h) \/ SyncFailed(h)))
  BY <1>2 DEF WriteTemp, SyncDirectory, Published, PersistFailed, SyncFailed, Store!storeVars
<1>3. CASE Rename(h)
  <2>1. file'.applied = file.applied \union ({u} \ {NoUpdate}) /\ UNCHANGED outcome
    BY <1>1, <1>3 DEF Rename, Step
  <2>2. CASE u = NoUpdate
    BY <2>1, <2>2 DEF Store!storeVars
  <2>3. CASE u # NoUpdate
    <3>1. u \in Updates /\ Store!Commit(u)
      BY <1>1, <2>1, <2>3 DEF Store!Commit
    <3>2. QED
      BY <3>1 DEF Store!StoreNext
  <2>4. QED
    BY <2>2, <2>3
<1>4. CASE SyncDirectory(h) /\ u # NoUpdate
  <2>1. u \in Updates /\ Store!Acknowledge(u)
    BY <1>1, <1>4 DEF SyncDirectory, Published, Tell, Store!Acknowledge, Store!Told
  <2>2. QED
    BY <2>1 DEF Store!StoreNext
<1>5. CASE PersistFailed(h) /\ u # NoUpdate
  <2>1. u \in Updates /\ Store!Reject(u)
    BY <1>1, <1>5 DEF PersistFailed, Tell, Store!Reject, Store!Told
  <2>2. QED
    BY <2>1 DEF Store!StoreNext
<1>6. CASE SyncFailed(h) /\ u # NoUpdate
  <2>1. u \in Updates /\ Store!Doubt(u)
    BY <1>1, <1>6 DEF SyncFailed, Tell, Store!Doubt, Store!Told
  <2>2. QED
    BY <2>1 DEF Store!StoreNext
<1>7. QED
  BY <1>2, <1>3, <1>4, <1>5, <1>6 DEF Persist

\* Crashes and power losses are crashes of the store: they answer no caller and
\* take away nothing acknowledged.
LEMMA CrashRefines ==
    ASSUME IInv, PowerLoss \/ \E p \in Processes : ProcessCrash(p) PROVE Store!StoreNext
<1> DEFINE U == {u \in Updates : outcome'[u] # outcome[u]}
           kept == file'.applied
<1>1. PICK P \in SUBSET Processes : Killed(P)
  BY DEF PowerLoss, ProcessCrash
<1>2. \A u \in U : outcome[u] = "running" /\ outcome'[u] = "indoubt"
  BY <1>1, KilledFacts
<1>3. outcome' = [u \in Updates |-> IF u \in U THEN "indoubt" ELSE outcome[u]]
  <2>1. outcome' = [u \in Updates |-> outcome'[u]]
    BY <1>1 DEF Killed
  <2>2. QED
    BY <1>2, <2>1
<1>4. file.applied \in SUBSET Updates
  BY DEF IInv, TypeOK, Sealed
<1>5. kept \subseteq file.applied /\ \A u \in file.applied : outcome[u] = "acked" => u \in kept
  <2>1. ASSUME NEW p \in Processes, ProcessCrash(p) PROVE kept = file.applied
    BY <2>1 DEF ProcessCrash
  <2>2. CASE PowerLoss
    <3>1. PICK s \in {file} \union older : file' = AfterPowerLoss(s)
      BY <2>2 DEF PowerLoss
    <3>2. file' = s /\ s.applied \subseteq file.applied
      BY <3>1 DEF AfterPowerLoss, IInv, Stored, BytesAreFlushed, OlderStatesAreEarlier
    <3>3. \A u \in Updates : outcome[u] = "acked" => u \in s.applied
      BY <3>1 DEF IInv, Stored, AcknowledgedUpdatesSurvive
    <3>4. QED
      BY <1>4, <3>2, <3>3
  <2>3. QED
    BY <2>1, <2>2
<1>6. Store!Crash(U, kept)
  <2> HIDE DEF U
  <2>1. QED
    BY <1>2, <1>3, <1>5 DEF Store!Crash
<1>7. U \in SUBSET Updates /\ kept \in SUBSET Updates
  BY <1>4, <1>5
<1>8. QED
  BY <1>6, <1>7 DEF Store!StoreNext

\* The vault implements the store its users assume: every step is one of
\* AtomicStore's, or changes nothing that they see.
THEOREM VaultIsAtomic == Spec => ImplementsAtomicStore
<1>1. Init => Store!StoreInit
  BY DEF Init, Absent, Store!StoreInit
<1>2. IInv /\ [Next]_vars => [Store!StoreNext]_(Store!storeVars)
  <2> SUFFICES ASSUME IInv, [Next]_vars PROVE Store!StoreNext \/ UNCHANGED Store!storeVars
    BY ZenonT(90)
  <2>1. ASSUME NEW h \in Handles, Open(h) \/ Close(h) \/ Unlock(h) \/ Unregister(h)
        PROVE  UNCHANGED Store!storeVars
    BY <2>1 DEF Open, Register, Lock, LockRefused, ReadCurrent, ReadStale, ReadFailed, Close,
                Unlock, Unregister, Store!storeVars
  <2>2. ASSUME NEW h \in Handles, NEW u \in Updates, UpdateRejected(h, u) PROVE Store!StoreNext
    <3>1. Store!Reject(u)
      BY <2>2 DEF UpdateRejected, Tell, IInv, Stored, NothingElseIsStored, Store!Reject, Store!Told
    <3>2. QED
      BY <3>1 DEF Store!StoreNext
  <2>3. ASSUME NEW h \in Handles, NEW u \in Updates,
               NEW invs \in Changed(vaults[h].sealed.invs), Update(h, u, invs)
        PROVE  Store!StoreNext
    <3>1. Store!Call(u)
      BY <2>3 DEF Update, Tell, Store!Call, Store!Told
    <3>2. QED
      BY <3>1 DEF Store!StoreNext
  <2>4. CASE UNCHANGED vars
    BY <2>4 DEF vars, Store!storeVars
  <2>5. QED
    BY <2>1, <2>2, <2>3, <2>4, PersistRefines, CrashRefines DEF Next
<1>3. QED
  BY <1>1, <1>2, Invariance, PTL DEF Spec, ImplementsAtomicStore, Store!StoreSpec

-----------------------------------------------------------------------------
(* Recovery *)

\* A sealed state no invocation of which runs, under the key k.
Settled(s, k) == s.key = k /\ \A i \in Invocations : s.invs[i] # "running"

\* What OpenVault is persisting on its own account is settled.
RecoveryUnderWay ==
    \A h \in Handles :
        vaults[h].at \in Persisting /\ vaults[h].update = NoUpdate =>
            Settled(vaults[h].next, vaults[h].keyID)

\* A state that needs no rewriting is settled, and Recovered makes one that is.
LEMMA RecoveredSettled ==
    ASSUME NEW s \in Sealed, NEW k \in Keys \union {NoKey}
    PROVE  /\ ~NeedsRewrite(s, k) => Settled(s, k)
           /\ Settled(Recovered(s, k), k)
  BY DEF NeedsRewrite, Settled, Recovered, Sealed

\* A step of one vault keeps the recoveries of the others.
LEMMA RecoveryFramed ==
    ASSUME TypeOK, RecoveryUnderWay, NEW h \in Handles, NEW v, Becomes(h, v),
           v.at \in Persisting /\ v.update = NoUpdate => Settled(v.next, v.keyID)
    PROVE  RecoveryUnderWay'
<1>1. vaults'[h] = v /\ \A g \in Handles : g # h => vaults'[g] = vaults[g]
  BY DEF Becomes, TypeOK
<1>2. QED
  BY <1>1 DEF RecoveryUnderWay

\* No step of opening, updating or closing unsettles what is being recovered.
LEMMA RecoveryKept == IInv /\ RecoveryUnderWay /\ [Next]_vars => RecoveryUnderWay'
<1> SUFFICES ASSUME IInv, RecoveryUnderWay, [Next]_vars PROVE RecoveryUnderWay'
  OBVIOUS
<1> USE DEF Persisting
<1>t. TypeOK /\ \A h \in Handles : vaults[h] \in VaultRecords
  BY DEF IInv, TypeOK
<1>c. \A at \in Stages \ Persisting : [Closed EXCEPT !.at = at].at \notin Persisting
  BY DEF Closed, Stages
<1>1. ASSUME NEW h \in Handles, NEW to \in Stages \ Persisting, Wiped(h, to)
      PROVE  RecoveryUnderWay'
  BY <1>t, <1>c, <1>1, RecoveryFramed DEF Wiped
<1>2. ASSUME NEW h \in Handles, NEW k \in Keys, NEW ks \in SUBSET Keys, Register(h, k, ks)
      PROVE  RecoveryUnderWay'
  <2>1. [Closed EXCEPT !.at = "lock", !.keyID = k, !.keys = ks].at \notin Persisting
    BY DEF Closed
  <2>2. QED
    BY <1>t, <1>2, <2>1, RecoveryFramed DEF Register
<1>3. ASSUME NEW h \in Handles, Lock(h) \/ Unlock(h) PROVE RecoveryUnderWay'
  <2>1. PICK to \in {"read", "unregister"} : Becomes(h, [vaults[h] EXCEPT !.at = to])
    BY <1>3 DEF Lock, Unlock, Step
  <2>2. [vaults[h] EXCEPT !.at = to].at \notin Persisting
    BY <1>t DEF VaultRecords
  <2>3. QED
    BY <1>t, <2>1, <2>2, RecoveryFramed
<1>4. ASSUME NEW h \in Handles, ReadCurrent(h) PROVE RecoveryUnderWay'
  <2>1. [vaults[h] EXCEPT !.at = "open", !.sealed = file].at \notin Persisting
    BY <1>t DEF VaultRecords
  <2>2. QED
    BY <1>t, <1>4, <2>1, RecoveryFramed DEF ReadCurrent
<1>5. ASSUME NEW h \in Handles, ReadStale(h) PROVE RecoveryUnderWay'
  <2> DEFINE r == Recovered(file, vaults[h].keyID)
             v == [vaults[h] EXCEPT !.at = "write", !.next = r]
  <2>1. Settled(r, vaults[h].keyID)
    BY <1>t, RecoveredSettled DEF TypeOK, VaultRecords
  <2>2. v.next = r /\ v.keyID = vaults[h].keyID
    BY <1>t DEF VaultRecords
  <2>3. Becomes(h, v)
    BY <1>5 DEF ReadStale
  <2> HIDE DEF r, v
  <2>4. QED
    BY <1>t, <2>1, <2>2, <2>3, RecoveryFramed
<1>6. ASSUME NEW h \in Handles, WriteTemp(h) \/ Rename(h) PROVE RecoveryUnderWay'
  <2>1. PICK v : /\ Becomes(h, v)
                 /\ v.keyID = vaults[h].keyID /\ v.update = vaults[h].update
                 /\ v.next.key = vaults[h].next.key /\ v.next.invs = vaults[h].next.invs
    <3>1. CASE WriteTemp(h)
      <4> DEFINE v == [vaults[h] EXCEPT !.at = "rename", !.next = [@ EXCEPT !.flushed = TRUE]]
      <4>1. vaults[h].next \in Sealed
        BY <1>t DEF VaultRecords
      <4>2. /\ v.keyID = vaults[h].keyID /\ v.update = vaults[h].update
            /\ v.next.key = vaults[h].next.key /\ v.next.invs = vaults[h].next.invs
        BY <1>t, <4>1 DEF VaultRecords, Sealed
      <4>3. QED
        BY <3>1, <4>2 DEF WriteTemp
    <3>2. CASE Rename(h)
      <4> DEFINE v == [vaults[h] EXCEPT !.at = "syncdir"]
      <4>1. /\ v.keyID = vaults[h].keyID /\ v.update = vaults[h].update
            /\ v.next = vaults[h].next
        BY <1>t DEF VaultRecords
      <4>2. QED
        BY <3>2, <4>1 DEF Rename, Step
    <3>3. QED
      BY <1>6, <3>1, <3>2
  <2>2. vaults[h].at \in Persisting
    BY <1>6 DEF WriteTemp, Rename, Step
  <2>3. v.at \in Persisting /\ v.update = NoUpdate => Settled(v.next, v.keyID)
    BY <2>1, <2>2 DEF RecoveryUnderWay, Settled
  <2>4. QED
    BY <1>t, <2>1, <2>3, RecoveryFramed
<1>7. ASSUME NEW h \in Handles, SyncDirectory(h) PROVE RecoveryUnderWay'
  <2>1. [vaults[h] EXCEPT !.at = "open", !.sealed = vaults[h].next,
                          !.next = Absent, !.update = NoUpdate].at \notin Persisting
    BY <1>t DEF VaultRecords
  <2>2. QED
    BY <1>t, <1>7, <2>1, RecoveryFramed DEF SyncDirectory, Published
<1>8. ASSUME NEW h \in Handles, PersistFailed(h) \/ SyncFailed(h) PROVE RecoveryUnderWay'
  <2>1. [vaults[h] EXCEPT !.at = "open", !.next = Absent, !.update = NoUpdate].at \notin Persisting
    BY <1>t DEF VaultRecords
  <2>2. CASE Resumed(h)
    BY <1>t, <2>1, <2>2, RecoveryFramed DEF Resumed
  <2>3. QED
    BY <1>1, <1>8, <2>2 DEF PersistFailed, SyncFailed, Stages
<1>9. ASSUME NEW h \in Handles, NEW u \in Updates,
             NEW invs \in Changed(vaults[h].sealed.invs), Update(h, u, invs)
      PROVE  RecoveryUnderWay'
  <2> DEFINE n == [vaults[h].sealed EXCEPT !.key = vaults[h].keyID, !.applied = @ \union {u},
                                           !.invs = invs, !.flushed = FALSE]
             v == [vaults[h] EXCEPT !.at = "write", !.update = u, !.next = n]
  <2>1. v.update # NoUpdate
    BY <1>t, Distinct DEF VaultRecords
  <2>2. Becomes(h, v)
    BY <1>9 DEF Update
  <2> HIDE DEF v
  <2>3. QED
    BY <1>t, <2>1, <2>2, RecoveryFramed
<1>10. ASSUME NEW h \in Handles, Unregister(h) PROVE RecoveryUnderWay'
  <2>1. Closed.at \notin Persisting
    BY DEF Closed
  <2>2. QED
    BY <1>t, <1>10, <2>1, RecoveryFramed DEF Unregister
<1>11. ASSUME NEW P \in SUBSET Processes, Killed(P) PROVE RecoveryUnderWay'
  <2>1. Closed.at \notin Persisting
    BY DEF Closed
  <2>2. QED
    BY <1>11, <2>1 DEF Killed, RecoveryUnderWay
<1>12. ASSUME NEW h \in Handles, NEW u \in Updates, UpdateRejected(h, u) PROVE RecoveryUnderWay'
  BY <1>12 DEF UpdateRejected, RecoveryUnderWay
<1>13. CASE UNCHANGED vars
  BY <1>13 DEF vars, RecoveryUnderWay
<1>14. ASSUME NEW h \in Handles, Open(h) \/ Persist(h) \/ Close(h) PROVE RecoveryUnderWay'
  BY <1>1, <1>2, <1>3, <1>4, <1>5, <1>6, <1>7, <1>8, <1>14
     DEF Open, Persist, Close, LockRefused, ReadFailed, Stages
<1>15. QED
  BY <1>3, <1>9, <1>10, <1>11, <1>12, <1>13, <1>14 DEF Next, ProcessCrash, PowerLoss

\* A vault is opened only over a settled file: by ReadCurrent, which found it
\* so, or by the SyncDirectory that ends a recovery.
LEMMA OpensSettled ==
    ASSUME IInv, RecoveryUnderWay, [Next]_vars, NEW h \in Handles,
           vaults[h].at # "open", vaults[h].update = NoUpdate, vaults'[h].at = "open"
    PROVE  Settled(file', vaults[h].keyID)
<1>t. /\ TypeOK /\ file \in Sealed /\ \A g \in Handles : vaults[g] \in VaultRecords
      /\ \A g \in Handles : \A v : Becomes(g, v) => vaults'[h] = IF g = h THEN v ELSE vaults[h]
      /\ \A at \in Stages : [Closed EXCEPT !.at = at].at = at
  BY DEF IInv, TypeOK, Becomes, Closed
<1>1. CASE ReadCurrent(h)
  BY <1>t, <1>1, RecoveredSettled DEF ReadCurrent, VaultRecords
<1>2. CASE SyncDirectory(h)
  BY <1>2 DEF SyncDirectory, IInv, Stored, WorkIsCurrent, RecoveryUnderWay, Persisting
<1>3. ASSUME NEW g \in Handles, Open(g), ~(g = h /\ ReadCurrent(g)) PROVE FALSE
  <2>1. ASSUME NEW k \in Keys, NEW ks \in SUBSET Keys, Register(g, k, ks) PROVE FALSE
    <3>1. [Closed EXCEPT !.at = "lock", !.keyID = k, !.keys = ks].at # "open"
      BY DEF Closed
    <3>2. QED
      BY <1>t, <2>1, <3>1 DEF Register
  <2>2. CASE Lock(g)
    BY <1>t, <2>2 DEF Lock, Step, VaultRecords
  <2>3. CASE LockRefused(g) \/ ReadFailed(g)
    BY <1>t, <2>3, ZenonT(90) DEF LockRefused, ReadFailed, Wiped, Stages
  <2>4. CASE ReadCurrent(g)
    BY <1>t, <1>3, <2>4 DEF ReadCurrent
  <2>5. CASE ReadStale(g)
    <3>1. [vaults[g] EXCEPT !.at = "write", !.next = Recovered(file, vaults[g].keyID)].at # "open"
      BY <1>t DEF VaultRecords
    <3>2. QED
      BY <1>t, <2>5, <3>1 DEF ReadStale
  <2>6. QED
    BY <1>3, <2>1, <2>2, <2>3, <2>4, <2>5 DEF Open
<1>4. ASSUME NEW g \in Handles, Persist(g), ~(g = h /\ SyncDirectory(g)) PROVE FALSE
  <2>1. CASE WriteTemp(g) \/ Rename(g)
    <3>1. /\ [vaults[g] EXCEPT !.at = "rename", !.next = [@ EXCEPT !.flushed = TRUE]].at # "open"
          /\ [vaults[g] EXCEPT !.at = "syncdir"].at # "open"
      BY <1>t DEF VaultRecords
    <3>2. QED
      BY <1>t, <2>1, <3>1, ZenonT(90) DEF WriteTemp, Rename, Step
  <2>2. CASE SyncDirectory(g)
    BY <1>t, <1>4, <2>2 DEF SyncDirectory, Published
  <2>3. CASE PersistFailed(g) \/ SyncFailed(g)
    BY <1>t, <2>3, ZenonT(90) DEF PersistFailed, SyncFailed, Wiped, Resumed, Stages
  <2>4. QED
    BY <1>4, <2>1, <2>2, <2>3 DEF Persist
<1>5. ASSUME NEW g \in Handles, NEW u \in Updates,
             NEW invs \in Changed(vaults[g].sealed.invs), Update(g, u, invs)
      PROVE  FALSE
  BY <1>t, <1>5 DEF Update
<1>6. ASSUME NEW g \in Handles, Close(g) \/ Unlock(g) \/ Unregister(g) PROVE FALSE
  BY <1>t, <1>6 DEF Close, Unlock, Unregister, Wiped, Step, Closed, Stages, VaultRecords
<1>7. ASSUME NEW P \in SUBSET Processes, Killed(P) PROVE FALSE
  BY <1>7 DEF Killed, Closed
<1>8. ASSUME NEW g \in Handles, NEW u \in Updates, UpdateRejected(g, u) PROVE FALSE
  BY <1>8 DEF UpdateRejected
<1>9. ~UNCHANGED vars
  BY DEF vars
<1>10. QED
  BY <1>1, <1>2, <1>3, <1>4, <1>5, <1>6, <1>7, <1>8, <1>9 DEF Next, ProcessCrash, PowerLoss

\* OpenVault returns no vault over a file that names an older key or a running
\* invocation: the recovery it persists is the one it read for, although every
\* step of it can be cut short and the file is only known again at the end.
THEOREM OpensRecovered == Spec => RecoveredBeforeServing
<1>1. Init => RecoveryUnderWay
  BY DEF Init, RecoveryUnderWay, Closed, Persisting
<1>2. IInv /\ RecoveryUnderWay /\ [Next]_vars =>
        [\A h \in Handles :
          vaults[h].at # "open" /\ vaults[h].update = NoUpdate /\ vaults'[h].at = "open" =>
              file'.key = vaults[h].keyID /\ \A i \in Invocations : file'.invs[i] # "running"]_vars
  BY OpensSettled DEF Settled
<1>3. Spec => []RecoveryUnderWay
  BY <1>1, Invariance, RecoveryKept, PTL DEF Spec
<1>4. QED
  BY <1>2, <1>3, Invariance, PTL DEF Spec, RecoveredBeforeServing
=============================================================================

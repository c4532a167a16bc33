------------------------------- MODULE Vault -------------------------------
(***************************************************************************)
(* The encrypted vault (packages/connectors/central/vault.go): one file,   *)
(* replaced whole by Update, opened by at most one Vault at a time through *)
(* a process registry and an OS lock.  A vault is modelled step by step    *)
(* where a process can die or a machine lose power: the registry, the      *)
(* lock, the read, the temporary file, the rename and the directory's      *)
(* fsync.  Mutex-protected methods of one vault are serial, so a vault     *)
(* does one thing at a time.  A definition marked "Faulty" is a version of *)
(* the one after it with a plausible mistake.                              *)
(*                                                                         *)
(* The file system is the one the package asks for: a rename is atomic and *)
(* visible at once, and kept by a power loss only after an fsync of the    *)
(* directory; a file's bytes are kept only after an fsync of the file.     *)
(***************************************************************************)
EXTENDS Naturals

CONSTANTS
    Processes,          \* the processes given the same vault path
    Slots,              \* how many Vaults one process may try to open
    Keys,               \* encryption keys, each with its identifier
    Updates,            \* calls of Update, each of them made once
    Invocations,        \* invocation records
    Nobody, NoKey, NoUpdate

ASSUME Distinct ==
    /\ Nobody \notin Processes \X Slots
    /\ NoKey \notin Keys
    /\ NoUpdate \notin Updates

VARIABLES
    registry,           \* registry[p]: vaultPaths has the path, in process p
    flock,              \* the vault that holds the lock file's lock
    file,               \* what the path holds now
    older,              \* what else a power loss may leave there
    vaults,             \* the Vault of every process and slot
    outcome             \* what the caller of each update has been told

vars == <<registry, flock, file, older, vaults, outcome>>

Handles == Processes \X Slots
Statuses == {"none", "running", "succeeded", "outcome_unknown"}

\* A sealed state: its key, the updates and invocation records it reflects and
\* whether its bytes have reached the disk.
Sealed == [key : Keys \union {NoKey}, applied : SUBSET Updates,
           invs : [Invocations -> Statuses], flushed : BOOLEAN]

\* No file: the state OpenVault starts from.
Absent == [key |-> NoKey, applied |-> {}, invs |-> [i \in Invocations |-> "none"],
           flushed |-> TRUE]

\* What a power loss leaves of a file: nothing whole, if its bytes were not flushed.
Damaged == [Absent EXCEPT !.flushed = FALSE]
AfterPowerLoss(s) == IF s.flushed THEN s ELSE Damaged

\* "closed" is no Vault; the others name what OpenVault, Update or Close does
\* next, and "open" and "poisoned" a vault at rest.
Stages == {"closed", "lock", "read", "write", "rename", "syncdir", "open", "poisoned",
           "unlock", "unregister"}
Persisting == {"write", "rename", "syncdir"}

\* sealed is the state View and Update work on, next the one being persisted,
\* update the call of Update under way, or NoUpdate while OpenVault runs.
VaultRecords == [at : Stages, keyID : Keys \union {NoKey}, keys : SUBSET Keys,
                 sealed : Sealed, next : Sealed, update : Updates \union {NoUpdate}]

Closed == [at |-> "closed", keyID |-> NoKey, keys |-> {}, sealed |-> Absent,
           next |-> Absent, update |-> NoUpdate]

Init ==
    /\ registry = [p \in Processes |-> FALSE]
    /\ flock = Nobody
    /\ file = Absent
    /\ older = {}
    /\ vaults = [h \in Handles |-> Closed]
    /\ outcome = [u \in Updates |-> "new"]

-----------------------------------------------------------------------------
(* Helpers *)

Becomes(h, v) == vaults' = [vaults EXCEPT ![h] = v]

Step(h, from, to) ==
    /\ vaults[h].at = from
    /\ Becomes(h, [vaults[h] EXCEPT !.at = to])

\* A vault goes on as it was before the update under way.
Resumed(h) == Becomes(h, [vaults[h] EXCEPT !.at = "open", !.next = Absent, !.update = NoUpdate])

\* Vault.wipe, and a vault OpenVault gives up: nothing of it is used again.
Wiped(h, to) == Becomes(h, [Closed EXCEPT !.at = to])

Tell(u, answer) == outcome' = [outcome EXCEPT ![u] = answer]

\* Faulty: a status of its own for what was interrupted.
RecoveredInterrupted(s, k) ==
    [s EXCEPT !.key = k, !.flushed = FALSE,
              !.invs = [i \in Invocations |->
                  IF @[i] = "running" THEN "interrupted" ELSE @[i]]]

\* OpenVault's recovery: no invocation of an earlier owner is still running,
\* and the state is sealed with the current key.
Recovered(s, k) ==
    [s EXCEPT !.key = k, !.flushed = FALSE,
              !.invs = [i \in Invocations |->
                  IF @[i] = "running" THEN "outcome_unknown" ELSE @[i]]]

\* Faulty: recovers invocations only when it rotates the key.
NeedsRewriteByKey(s, k) == s.key # k

NeedsRewrite(s, k) == s.key # k \/ \E i \in Invocations : s.invs[i] = "running"

\* What a caller's change may do to an invocation record.
Changed(invs) ==
    {invs} \union
    {[invs EXCEPT ![i] = "running"] : i \in {j \in Invocations : invs[j] = "none"}} \union
    {[invs EXCEPT ![i] = "succeeded"] : i \in {j \in Invocations : invs[j] = "running"}}

-----------------------------------------------------------------------------
(* OpenVault *)

Register(h, k, ks) ==
    /\ vaults[h].at = "closed"
    /\ k \in ks
    /\ ~registry[h[1]]
    /\ registry' = [registry EXCEPT ![h[1]] = TRUE]
    /\ Becomes(h, [Closed EXCEPT !.at = "lock", !.keyID = k, !.keys = ks])
    /\ UNCHANGED <<flock, file, older, outcome>>

Lock(h) ==
    /\ flock = Nobody
    /\ flock' = h
    /\ Step(h, "lock", "read")
    /\ UNCHANGED <<registry, file, older, outcome>>

LockRefused(h) ==
    /\ vaults[h].at = "lock"
    /\ Wiped(h, "unlock")
    /\ UNCHANGED <<registry, flock, file, older, outcome>>

Readable(h) == file = Absent \/ file.key \in vaults[h].keys

\* The file needs no rewriting: the vault is returned.
ReadCurrent(h) ==
    /\ vaults[h].at = "read"
    /\ Readable(h)
    /\ ~NeedsRewrite(file, vaults[h].keyID)
    /\ Becomes(h, [vaults[h] EXCEPT !.at = "open", !.sealed = file])
    /\ UNCHANGED <<registry, flock, file, older, outcome>>

\* No file, another key or an interrupted invocation: persist before returning.
ReadStale(h) ==
    /\ vaults[h].at = "read"
    /\ Readable(h)
    /\ NeedsRewrite(file, vaults[h].keyID)
    /\ Becomes(h, [vaults[h] EXCEPT !.at = "write",
                                    !.next = Recovered(file, vaults[h].keyID)])
    /\ UNCHANGED <<registry, flock, file, older, outcome>>

\* A missing key, damaged bytes or an I/O error.
ReadFailed(h) ==
    /\ vaults[h].at = "read"
    /\ Wiped(h, "unlock")
    /\ UNCHANGED <<registry, flock, file, older, outcome>>

-----------------------------------------------------------------------------
(* Update *)

Update(h, u, invs) ==
    /\ vaults[h].at = "open"
    /\ outcome[u] = "new"
    /\ invs \in Changed(vaults[h].sealed.invs)
    /\ LET v == vaults[h] IN
       Becomes(h, [v EXCEPT !.at = "write", !.update = u,
           !.next = [v.sealed EXCEPT !.key = v.keyID, !.applied = @ \union {u},
                                     !.invs = invs, !.flushed = FALSE]])
    /\ Tell(u, "running")
    /\ UNCHANGED <<registry, flock, file, older>>

\* The callback fails or panics, or the state grows too large to seal.
UpdateRejected(h, u) ==
    /\ vaults[h].at = "open"
    /\ outcome[u] = "new"
    /\ Tell(u, "rejected")
    /\ UNCHANGED <<registry, flock, file, older, vaults>>

-----------------------------------------------------------------------------
(* persist *)

\* Faulty: renames a file whose bytes were not flushed.
WriteTempUnsynced(h) ==
    /\ Step(h, "write", "rename")
    /\ UNCHANGED <<registry, flock, file, older, outcome>>

\* The temporary file is private until the rename: its creation, write, fsync
\* and close are one step.
WriteTemp(h) ==
    /\ vaults[h].at = "write"
    /\ Becomes(h, [vaults[h] EXCEPT !.at = "rename", !.next = [@ EXCEPT !.flushed = TRUE]])
    /\ UNCHANGED <<registry, flock, file, older, outcome>>

Rename(h) ==
    /\ Step(h, "rename", "syncdir")
    /\ file' = vaults[h].next
    /\ older' = older \union {file}
    /\ UNCHANGED <<registry, flock, outcome>>

\* The vault takes the new state over, and an update is acknowledged.
Published(h) ==
    /\ Becomes(h, [vaults[h] EXCEPT !.at = "open", !.sealed = vaults[h].next,
                                    !.next = Absent, !.update = NoUpdate])
    /\ IF vaults[h].update = NoUpdate THEN UNCHANGED outcome
                                      ELSE Tell(vaults[h].update, "acked")

\* Faulty: an error of the directory's fsync is ignored.
SyncDirectoryIgnored(h) ==
    /\ vaults[h].at = "syncdir"
    /\ Published(h)
    /\ UNCHANGED <<registry, flock, file, older>>

SyncDirectory(h) ==
    /\ vaults[h].at = "syncdir"
    /\ older' = {}
    /\ Published(h)
    /\ UNCHANGED <<registry, flock, file>>

\* Faulty: takes an error after the rename for one before it.
PersistFailedAnywhere(h) ==
    /\ vaults[h].at \in Persisting
    /\ IF vaults[h].update = NoUpdate
       THEN Wiped(h, "unlock") /\ UNCHANGED outcome
       ELSE Resumed(h) /\ Tell(vaults[h].update, "rejected")
    /\ UNCHANGED <<registry, flock, file, older>>

\* An error before the rename leaves the vault as it was; OpenVault gives up.
PersistFailed(h) ==
    /\ vaults[h].at \in {"write", "rename"}
    /\ IF vaults[h].update = NoUpdate
       THEN Wiped(h, "unlock") /\ UNCHANGED outcome
       ELSE Resumed(h) /\ Tell(vaults[h].update, "rejected")
    /\ UNCHANGED <<registry, flock, file, older>>

\* Faulty: the vault goes on with the state it had.
SyncFailedUnpoisoned(h) ==
    /\ vaults[h].at = "syncdir"
    /\ IF vaults[h].update = NoUpdate
       THEN Wiped(h, "unlock") /\ UNCHANGED outcome
       ELSE Resumed(h) /\ Tell(vaults[h].update, "indoubt")
    /\ UNCHANGED <<registry, flock, file, older>>

\* An error after it poisons the vault: what is stored is no longer known.
SyncFailed(h) ==
    /\ vaults[h].at = "syncdir"
    /\ IF vaults[h].update = NoUpdate
       THEN Wiped(h, "unlock") /\ UNCHANGED outcome
       ELSE Wiped(h, "poisoned") /\ Tell(vaults[h].update, "indoubt")
    /\ UNCHANGED <<registry, flock, file, older>>

-----------------------------------------------------------------------------
(* Close, also what a failed OpenVault does *)

Close(h) ==
    /\ vaults[h].at \in {"open", "poisoned"}
    /\ Wiped(h, "unlock")
    /\ UNCHANGED <<registry, flock, file, older, outcome>>

\* Faulty: unlocks the lock file whoever holds it.
UnlockAnyone(h) ==
    /\ Step(h, "unlock", "unregister")
    /\ flock' = Nobody
    /\ UNCHANGED <<registry, file, older, outcome>>

Unlock(h) ==
    /\ Step(h, "unlock", "unregister")
    /\ flock' = IF flock = h THEN Nobody ELSE flock
    /\ UNCHANGED <<registry, file, older, outcome>>

Unregister(h) ==
    /\ vaults[h].at = "unregister"
    /\ registry' = [registry EXCEPT ![h[1]] = FALSE]
    /\ Becomes(h, Closed)
    /\ UNCHANGED <<flock, file, older, outcome>>

-----------------------------------------------------------------------------
(* Crashes *)

\* The processes in P end: the system drops their locks, and the callers of
\* their updates never hear an answer.
Killed(P) ==
    LET dead == P \X Slots IN
    /\ registry' = [p \in Processes |-> registry[p] /\ p \notin P]
    /\ flock' = IF flock \in dead THEN Nobody ELSE flock
    /\ vaults' = [h \in Handles |-> IF h \in dead THEN Closed ELSE vaults[h]]
    /\ outcome' = [u \in Updates |->
          IF outcome[u] = "running" /\ \E h \in dead : vaults[h].update = u
          THEN "indoubt" ELSE outcome[u]]

ProcessCrash(p) == Killed({p}) /\ UNCHANGED <<file, older>>

\* Renames that were not flushed are kept or lost in order.
PowerLoss ==
    /\ Killed(Processes)
    /\ \E s \in {file} \union older : file' = AfterPowerLoss(s)
    /\ older' = {}

-----------------------------------------------------------------------------

Open(h) ==
    \/ \E k \in Keys, ks \in SUBSET Keys : Register(h, k, ks)
    \/ Lock(h) \/ LockRefused(h)
    \/ ReadCurrent(h) \/ ReadStale(h) \/ ReadFailed(h)

Persist(h) ==
    WriteTemp(h) \/ Rename(h) \/ SyncDirectory(h) \/ PersistFailed(h) \/ SyncFailed(h)

Next ==
    \/ \E h \in Handles :
          \/ Open(h) \/ Persist(h)
          \/ \E u \in Updates : UpdateRejected(h, u)
          \/ \E u \in Updates, invs \in Changed(vaults[h].sealed.invs) : Update(h, u, invs)
          \/ Close(h) \/ Unlock(h) \/ Unregister(h)
    \/ \E p \in Processes : ProcessCrash(p)
    \/ PowerLoss

Spec == Init /\ [][Next]_vars

-----------------------------------------------------------------------------
(* Safety *)

TypeOK ==
    /\ registry \in [Processes -> BOOLEAN]
    /\ flock \in Handles \union {Nobody}
    /\ file \in Sealed
    /\ older \subseteq Sealed
    /\ vaults \in [Handles -> VaultRecords]
    /\ outcome \in [Updates -> {"new", "running", "acked", "rejected", "indoubt"}]

\* The stages in which a vault reads, writes or serves the file.
Owning == {"read", "write", "rename", "syncdir", "open", "poisoned"}

\* One vault at a time works on the file, in whatever order processes open,
\* fail to open, close and die (vaultPaths, lockVault, Close).
OneOwner == \A h \in Handles : vaults[h].at \in Owning => flock = h

\* Update's nil error is final: whatever fails, crashes or loses power later,
\* the path holds a state with that update in it.
AcknowledgedUpdatesSurvive ==
    \A u \in Updates : outcome[u] = "acked" => \A s \in {file} \union older : u \in s.applied

\* A vault that can be viewed or updated has in memory what the path holds, so
\* no failed write leaves it ahead of the file or behind it (Update, wipe).
ServedStateIsStored ==
    \A h \in Handles : vaults[h].at = "open" => vaults[h].sealed = file

\* No power loss leaves bytes at the path that no key opens (persist).
FileStaysWhole == file # Damaged

\* OpenVault returns no vault whose file still says an invocation runs, or is
\* sealed with an older key, however often opening was cut short before.
RecoveredBeforeServing ==
    [][\A h \in Handles :
          vaults[h].at # "open" /\ vaults[h].update = NoUpdate /\ vaults'[h].at = "open" =>
              file'.key = vaults[h].keyID /\ \A i \in Invocations : file'.invs[i] # "running"]_vars

\* The vault is an atomic store: what its callers are told of each update is
\* what the file shows, through failures, crashes and losses of power.
Store == INSTANCE AtomicStore WITH applied <- file.applied
ImplementsAtomicStore == Store!StoreSpec

-----------------------------------------------------------------------------
(* What the documentation says *)

\* vault.go:183, "Rotation and interrupted invocations are persisted before the
\* returned vault can serve any caller": no file a power loss may leave at the
\* path is sealed with another key or says that an invocation runs.
RecoveryIsPersisted ==
    [][\A h \in Handles :
          vaults[h].at # "open" /\ vaults[h].update = NoUpdate /\ vaults'[h].at = "open" =>
              \A s \in ({file'} \union older') \ {Absent} :
                  s.key = vaults[h].keyID /\ \A i \in Invocations : s.invs[i] # "running"]_vars
=============================================================================

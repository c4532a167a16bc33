---------------------------- MODULE BrokerStore ----------------------------
(***************************************************************************)
(* The OAuth broker's store (src/packages/connectors/auth/store.go, Store):*)
(* the whole state is kept in memory and in one file.  An update works on  *)
(* a copy under the store's lock, writes it to a temporary file, renames   *)
(* that over the path and only then publishes the copy to other requests.  *)
(* The process may stop between any two steps, and the machine may lose    *)
(* power: then the path holds any of the contents renamed since the last   *)
(* fsync of the directory.                                                 *)
(***************************************************************************)
EXTENDS Naturals, FiniteSets

CONSTANTS Updates,       \* calls of update
          Repairs,       \* those NewStore makes before it returns
          SyncMayFail,   \* the fsync of the directory may fail
          None

RepairsAssumption == Repairs \subseteq Updates /\ None \notin Updates
SyncAssumption == SyncMayFail \in BOOLEAN

VARIABLES
  phase,    \* the broker: "down", "opening" (in NewStore) or "serving"
  memory,   \* updates s.state reflects
  path,     \* updates the file at the path reflects
  possible, \* contents the path may have after a power loss
  holder,   \* the update that holds s.mu
  step,     \* how far the holder is
  told      \* what the caller of each update has been told

vars == <<phase, memory, path, possible, holder, step, told>>

Steps == {"none", "copied", "written", "synced", "renamed", "durable"}
Verdicts == {"new", "running", "acked", "rejected", "indoubt"}

Init ==
  /\ phase = "down"
  /\ memory = {} /\ path = {} /\ possible = {{}}
  /\ holder = None /\ step = "none"
  /\ told = [u \in Updates |-> "new"]

Tell(u, verdict) == told' = [told EXCEPT ![u] = verdict]

-----------------------------------------------------------------------------
(* NewStore *)

\* The file is read; uninstalls no version has judged yet are reconciled by an
\* update of its own before anybody is served.
Unrepaired == Repairs # {} /\ path \cap Repairs = {}

Open ==
  /\ phase = "down"
  /\ memory' = path
  /\ phase' = IF Unrepaired THEN "opening" ELSE "serving"
  /\ UNCHANGED <<path, possible, holder, step, told>>

OpenFails ==
  /\ phase = "opening" /\ holder = None
  /\ \E u \in Repairs : told[u] = "rejected"
  /\ phase' = "down"
  /\ UNCHANGED <<memory, path, possible, holder, step, told>>

OpenEnds ==
  /\ phase = "opening" /\ memory \cap Repairs # {}
  /\ phase' = "serving"
  /\ UNCHANGED <<memory, path, possible, holder, step, told>>

-----------------------------------------------------------------------------
(* update *)

\* A request calls update while the broker serves, NewStore while it opens.
Admitted(u) == phase = IF u \in Repairs THEN "opening" ELSE "serving"

Call(u) ==
  /\ Admitted(u) /\ told[u] = "new"
  /\ u \in Repairs => holder = None /\ memory \cap Repairs = {}
  /\ Tell(u, "running")
  /\ UNCHANGED <<phase, memory, path, possible, holder, step>>

\* The lock, the copy and fn; an error of fn ends the update.
Copy(u) ==
  /\ told[u] = "running" /\ holder = None /\ phase # "down"
  /\ holder' = u /\ step' = "copied"
  /\ UNCHANGED <<phase, memory, path, possible, told>>

\* What update would publish and store: the copy after fn.
Copied == memory \cup {holder}

Step(from, to) == holder # None /\ step = from /\ step' = to

Write ==
  /\ Step("copied", "written")
  /\ UNCHANGED <<phase, memory, path, possible, holder, told>>

SyncFile ==
  /\ Step("written", "synced")
  /\ UNCHANGED <<phase, memory, path, possible, holder, told>>

Rename ==
  /\ Step("synced", "renamed")
  /\ path' = Copied
  /\ possible' = possible \cup {Copied}
  /\ UNCHANGED <<phase, memory, holder, told>>

\* The directory is opened and synced; errors of either are dropped.
SyncDirectory ==
  /\ Step("renamed", "durable")
  /\ \/ possible' = {path}
     \/ SyncMayFail /\ UNCHANGED possible
  /\ UNCHANGED <<phase, memory, path, holder, told>>

Publish ==
  /\ holder # None /\ step = "durable"
  /\ memory' = Copied
  /\ Tell(holder, "acked")
  /\ holder' = None /\ step' = "none"
  /\ UNCHANGED <<phase, path, possible>>

\* Faulty: a failure after the rename rejects the update, too.
FailLate ==
  /\ holder # None /\ step \in {"copied", "written", "synced", "renamed"}
  /\ Tell(holder, "rejected")
  /\ holder' = None /\ step' = "none"
  /\ UNCHANGED <<phase, memory, path, possible>>

\* fn refuses, or the directory, the temporary file, its write, its fsync, its
\* close or the rename fails: nothing is published and the file is as before.
Fail ==
  /\ holder # None /\ step \in {"copied", "written", "synced"}
  /\ Tell(holder, "rejected")
  /\ holder' = None /\ step' = "none"
  /\ UNCHANGED <<phase, memory, path, possible>>

-----------------------------------------------------------------------------
(* Failures *)

Unanswered == told' = [u \in Updates |-> IF told[u] = "running" THEN "indoubt" ELSE told[u]]

\* The process ends: callers hear nothing; the file is what it is.
Crash ==
  /\ phase # "down"
  /\ phase' = "down"
  /\ memory' = {}
  /\ holder' = None /\ step' = "none"
  /\ Unanswered
  /\ UNCHANGED <<path, possible>>

PowerLoss ==
  /\ phase' = "down"
  /\ memory' = {}
  /\ holder' = None /\ step' = "none"
  /\ Unanswered
  /\ path' \in possible
  /\ possible' = {path'}

-----------------------------------------------------------------------------
Next ==
  \/ Open \/ OpenFails \/ OpenEnds
  \/ \E u \in Updates : Call(u) \/ Copy(u)
  \/ Write \/ SyncFile \/ Rename \/ SyncDirectory \/ Publish \/ Fail
  \/ Crash \/ PowerLoss

Spec == Init /\ [][Next]_vars

-----------------------------------------------------------------------------
TypeOK ==
  /\ phase \in {"down", "opening", "serving"}
  /\ memory \subseteq Updates /\ path \subseteq Updates
  /\ possible \subseteq SUBSET Updates
  /\ holder \in Updates \cup {None}
  /\ step \in Steps
  /\ told \in [Updates -> Verdicts]

\* Whatever a request can read is in the file the process has put at the path: a
\* restart of the process undoes nothing a request acted on (update, "persists
\* metadata before publishing").  A loss of power after a crash may: NewStore
\* does not sync the directory before it serves what it read.
PublishedIsStored == phase # "down" => memory \subseteq path

\* An update whose caller was told of its success is in the file whatever
\* happens to the process or the machine afterwards.
AcknowledgedSurvive ==
  \A u \in Updates : told[u] = "acked" => \A content \in possible : u \in content

\* No request is served from a file with unjudged uninstalls (NewStore).
RepairedBeforeServing ==
  phase = "serving" /\ Repairs # {} => memory \cap Repairs # {}

-----------------------------------------------------------------------------
(* The inductive invariant of the proofs *)

\* What a loss of power may put back is something the file has grown from.
PossibleIsEarlier == path \in possible /\ \A content \in possible : content \subseteq path

\* One update holds the lock, of a process that runs, and its caller waits.
HolderRuns ==
  /\ holder = None <=> step = "none"
  /\ holder # None => phase # "down" /\ told[holder] = "running"

\* Memory is the file, but for the update that was renamed and not published.
MemoryIsCurrent ==
  phase # "down" => path = IF step \in {"renamed", "durable"} THEN Copied ELSE memory

\* What was rejected or not yet renamed is not in the file.
NothingElseIsStored ==
  \A u \in Updates :
    /\ told[u] \in {"new", "rejected"} => u \notin path
    /\ told[u] = "running" /\ u \in path => u = holder /\ step \in {"renamed", "durable"}

Consistent ==
  TypeOK /\ PossibleIsEarlier /\ HolderRuns /\ MemoryIsCurrent /\ NothingElseIsStored

\* The file survives a loss of power from the fsync of the directory on.
SyncedIsDurable == step = "durable" => possible = {path}

Durable == Consistent /\ SyncedIsDurable /\ AcknowledgedSurvive

-----------------------------------------------------------------------------
\* The store promises what the vault promises: every update takes effect whole
\* or not at all, and its caller is told the truth about it.
Abstract == INSTANCE AtomicStore WITH applied <- path, outcome <- told
ImplementsAtomicStore == Abstract!StoreSpec
=============================================================================

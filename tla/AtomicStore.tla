---------------------------- MODULE AtomicStore ----------------------------
(***************************************************************************)
(* What an encrypted vault promises whoever updates it, free of files,     *)
(* locks and handles.  Each update takes effect whole or not at all; one   *)
(* that was acknowledged is never lost and one that was rejected never     *)
(* took effect; only an update whose caller got no verdict may vanish      *)
(* later, in a crash.                                                      *)
(***************************************************************************)
EXTENDS Naturals

CONSTANT
    Updates             \* the calls of Vault.Update

VARIABLES
    applied,            \* the updates the stored state reflects
    outcome             \* what the caller of each update has been told

storeVars == <<applied, outcome>>

Outcomes == {"new", "running", "acked", "rejected", "indoubt"}

StoreTypeOK ==
    /\ applied \subseteq Updates
    /\ outcome \in [Updates -> Outcomes]

StoreInit ==
    /\ applied = {}
    /\ outcome = [u \in Updates |-> "new"]

Told(u, from, to) ==
    /\ outcome[u] = from
    /\ outcome' = [outcome EXCEPT ![u] = to]

Call(u) == Told(u, "new", "running") /\ UNCHANGED applied

Commit(u) ==
    /\ outcome[u] = "running"
    /\ applied' = applied \union {u}
    /\ UNCHANGED outcome

Acknowledge(u) == u \in applied /\ Told(u, "running", "acked") /\ UNCHANGED applied

Reject(u) ==
    /\ u \notin applied
    /\ Told(u, "new", "rejected") \/ Told(u, "running", "rejected")
    /\ UNCHANGED applied

\* The caller hears an error, or nothing: the update may or may not stay.
Doubt(u) == u \in applied /\ Told(u, "running", "indoubt") /\ UNCHANGED applied

\* A crash leaves every caller in U without an answer and may take away what
\* no caller was told is stored.
Crash(U, kept) ==
    /\ \A u \in U : outcome[u] = "running"
    /\ kept \subseteq applied
    /\ \A u \in applied : outcome[u] = "acked" => u \in kept
    /\ applied' = kept
    /\ outcome' = [u \in Updates |-> IF u \in U THEN "indoubt" ELSE outcome[u]]

StoreNext ==
    \/ \E u \in Updates :
          Call(u) \/ Commit(u) \/ Acknowledge(u) \/ Reject(u) \/ Doubt(u)
    \/ \E U, kept \in SUBSET Updates : Crash(U, kept)

StoreSpec == StoreInit /\ [][StoreNext]_storeVars

\* What the caller was told is true of the stored state: no acknowledged update
\* is missing and no rejected one is present.
AnswersAreTrue ==
    \A u \in Updates :
        /\ outcome[u] = "acked" => u \in applied
        /\ outcome[u] \in {"new", "rejected"} => u \notin applied
=============================================================================

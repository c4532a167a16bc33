----------------------------- MODULE HostBridge ------------------------------
(* The desktop's bridge to the helper process that runs the host's tools      *)
(* (desktop-tools host-bridge.ts).  Calls of start, stop, hardStop and invoke *)
(* interleave at every await; helpers answer late, send garbage, exit, or     *)
(* ignore the signals sent to them; requests end by an answer, a time limit,  *)
(* a cancellation or the retirement of the helper.                            *)
EXTENDS Integers, FiniteSets

CONSTANTS
  Starts,   \* calls of start
  Stops,    \* calls of stop and hardStop
  Invokes,  \* calls of invoke, readResource or providerControl
  None      \* no helper

CallsAssumption ==
  /\ Starts \cap Stops = {} /\ Starts \cap Invokes = {} /\ Stops \cap Invokes = {}
  /\ None \notin Starts

Calls == Starts \cup Stops \cup Invokes

\* A start spawns one helper; it is named by the start that spawned it.
Helpers == Starts

VARIABLES
  lifecycle,  \* counts the calls that decide what should run
  child,      \* the helper the bridge talks to
  proc,       \* each helper's process
  retiring,   \* each helper's retirement: its promise in stopping and retiring
  pending,    \* calls whose request has no outcome yet
  sentTo,     \* the helper a call's last request was written to
  inbox,      \* requests each helper has received and not answered
  pc,         \* where a call is
  revision,   \* the lifecycle a call began
  waits       \* the retirements a call awaits

vars == <<lifecycle, child, proc, retiring, pending, sentTo, inbox, pc, revision, waits>>
bridge == <<lifecycle, child, proc, retiring, pending, sentTo, inbox, revision>>

Init ==
  /\ lifecycle = 0 /\ child = None
  /\ proc = [h \in Helpers |-> "none"]
  /\ retiring = [h \in Helpers |-> "no"]
  /\ pending = {} /\ sentTo = [c \in Calls |-> None]
  /\ inbox = [h \in Helpers |-> {}]
  /\ pc = [c \in Calls |-> "idle"]
  /\ revision = [c \in Calls |-> 0] /\ waits = [c \in Calls |-> {}]

-----------------------------------------------------------------------------
\* Where a call goes on when its request is refused or has no answer.
Refused(c) ==
  CASE c \in Starts -> "withdraw"
    [] c \in Stops -> "asked"
    [] OTHER -> "failed"

\* terminate begins once for a helper; it is over for a process that exited.
Retirement(h) ==
  retiring' = IF h = None \/ retiring[h] # "no" THEN retiring
              ELSE [retiring EXCEPT ![h] = IF proc[h] = "alive" THEN "term" ELSE "done"]

\* retire, where at is pc after the step's own part: the current helper is given
\* up and every request that is pending fails.
Drop(h, at) ==
  IF h # None /\ child = h
  THEN /\ child' = None /\ pending' = {}
       /\ pc' = [c \in Calls |-> IF c \in pending THEN Refused(c) ELSE at[c]]
  ELSE UNCHANGED <<child, pending>> /\ pc' = at

Retire(h, at) == Retirement(h) /\ Drop(h, at)

\* request: refused unless the helper is the current one and its process runs.
Send(c, h, step) ==
  IF h # None /\ child = h /\ proc[h] = "alive"
  THEN /\ pending' = pending \cup {c}
       /\ sentTo' = [sentTo EXCEPT ![c] = h]
       /\ inbox' = [inbox EXCEPT ![h] = @ \cup {<<c, step>>}]
       /\ pc' = [pc EXCEPT ![c] = step]
  ELSE /\ pc' = [pc EXCEPT ![c] = Refused(c)]
       /\ UNCHANGED <<pending, sentTo, inbox>>

Goes(c, next) == pc' = [pc EXCEPT ![c] = next]

-----------------------------------------------------------------------------
(* start, and hardStop, which begins like it                                  *)

Decides(c) ==
  /\ pc[c] = "idle"
  /\ lifecycle' = lifecycle + 1
  /\ revision' = [revision EXCEPT ![c] = lifecycle + 1]
  /\ waits' = [waits EXCEPT ![c] = {child} \ {None}]

Start(c) ==
  /\ Decides(c)
  /\ Retire(child, [pc EXCEPT ![c] = "retire"])
  /\ UNCHANGED <<proc, sentTo, inbox>>

\* Awaits go on when every retirement awaited is over, and throw when one failed.
Over(c) == \A h \in waits[c] : retiring[h] = "done"
Throws(c) == \E h \in waits[c] : retiring[h] = "failed"
Retiring == {h \in Helpers : retiring[h] \in {"term", "kill", "failed"}}

\* await Promise.all(this.retiring) comes after the call's own retirement.
AwaitRetirements(c) ==
  /\ pc[c] = "retire" /\ Over(c)
  /\ waits' = [waits EXCEPT ![c] = Retiring]
  /\ Goes(c, "settle")
  /\ UNCHANGED bridge

\* The helper did not end in time: the caller of start or stop hears of it.
RetirementFailed(c) ==
  /\ pc[c] \in {"retire", "settle", "give up"} /\ Throws(c)
  /\ Goes(c, "failed")
  /\ UNCHANGED <<bridge, waits>>

Current(c) == revision[c] = lifecycle

\* The account and the launch are looked up; they may fail or have changed.
Prepare(c) ==
  /\ c \in Starts /\ pc[c] = "settle" /\ Over(c)
  /\ \/ Current(c) /\ Goes(c, "prepare")
     \/ Goes(c, "failed")
  /\ UNCHANGED <<bridge, waits>>

\* Faulty: the lifecycle is not looked at after the last await
SpawnStale(c) ==
  /\ pc[c] = "prepare"
  /\ proc' = [proc EXCEPT ![c] = "alive"]
  /\ child' = c
  /\ pending' = pending \cup {c}
  /\ sentTo' = [sentTo EXCEPT ![c] = c]
  /\ inbox' = [inbox EXCEPT ![c] = @ \cup {<<c, "initialize">>}]
  /\ Goes(c, "initialize")
  /\ UNCHANGED <<lifecycle, revision, waits, retiring>>

\* The last await is over: spawn, publish the helper and send initialize, all
\* in one turn of the event loop.
Spawn(c) ==
  /\ pc[c] = "prepare" /\ Current(c)
  /\ proc' = [proc EXCEPT ![c] = "alive"]
  /\ child' = c
  /\ pending' = pending \cup {c}
  /\ sentTo' = [sentTo EXCEPT ![c] = c]
  /\ inbox' = [inbox EXCEPT ![c] = @ \cup {<<c, "initialize">>}]
  /\ Goes(c, "initialize")
  /\ UNCHANGED <<lifecycle, revision, waits, retiring>>

Overtaken(c) ==
  /\ pc[c] = "prepare" /\ ~Current(c)
  /\ Goes(c, "failed")
  /\ UNCHANGED <<bridge, waits>>

Consent(c) ==
  /\ pc[c] = "initialized"
  /\ Send(c, c, "consent")
  /\ UNCHANGED <<lifecycle, child, revision, waits, retiring, proc>>

\* The catch of start: the helper it spawned is retired before it throws.
Withdraw(c) ==
  /\ pc[c] = "withdraw"
  /\ waits' = [waits EXCEPT ![c] = {c}]
  /\ Retire(c, [pc EXCEPT ![c] = "give up"])
  /\ UNCHANGED <<lifecycle, sentTo, revision, proc, inbox>>

GiveUp(c) ==
  /\ pc[c] = "give up" /\ Over(c)
  /\ Goes(c, "failed")
  /\ UNCHANGED <<bridge, waits>>

-----------------------------------------------------------------------------
(* stop and hardStop                                                          *)

HardStop(c) ==
  /\ Decides(c)
  /\ Retire(child, [pc EXCEPT ![c] = "retire"])
  /\ UNCHANGED <<proc, sentTo, inbox>>

\* stop asks the helper to shut down and remembers which one it asked.
Stop(c) ==
  /\ Decides(c)
  /\ IF child = None THEN Goes(c, "retire") /\ UNCHANGED <<pending, sentTo, inbox>>
     ELSE Send(c, child, "shutdown")
  /\ UNCHANGED <<child, proc, retiring>>

\* Answered or not, the helper that was asked is retired, never its successor.
StopRetires(c) ==
  /\ pc[c] = "asked"
  /\ \E h \in waits[c] : Retire(h, [pc EXCEPT ![c] = "retire"])
  /\ UNCHANGED <<lifecycle, sentTo, revision, waits, proc, inbox>>

Stopped(c) ==
  /\ c \in Stops /\ pc[c] = "settle" /\ Over(c)
  /\ Goes(c, "done")
  /\ UNCHANGED <<bridge, waits>>

-----------------------------------------------------------------------------
(* invoke, and the end of requests                                            *)

Invoke(c) ==
  /\ pc[c] = "idle"
  /\ Send(c, child, "call")
  /\ UNCHANGED <<lifecycle, child, revision, waits, retiring, proc>>

Answered(c) ==
  CASE pc[c] = "initialize" -> "initialized"
    [] pc[c] = "shutdown" -> "asked"
    [] OTHER -> "done"

\* receive: a frame of the current helper for a request that is still pending;
\* every other frame, such as the answer to a request given up, changes nothing.
Answer(h, r) ==
  /\ proc[h] = "alive" /\ r \in inbox[h]
  /\ inbox' = [inbox EXCEPT ![h] = @ \ {r}]
  /\ IF child = h /\ r[1] \in pending /\ pc[r[1]] = r[2]
     THEN /\ pending' = pending \ {r[1]}
          /\ Goes(r[1], Answered(r[1])) \/ Goes(r[1], Refused(r[1]))
     ELSE UNCHANGED <<pending, pc>>
  /\ UNCHANGED <<lifecycle, child, sentTo, revision, waits, retiring, proc>>

\* The time limit or the caller's signal ends a request.
RequestEnds(c) ==
  /\ c \in pending
  /\ pending' = pending \ {c}
  /\ Goes(c, Refused(c))
  /\ UNCHANGED <<lifecycle, child, sentTo, revision, waits, retiring, proc, inbox>>

-----------------------------------------------------------------------------
(* Helpers                                                                    *)

\* A malformed or oversized frame, or a write that failed.
TransportLost(h) ==
  /\ proc[h] # "none" /\ retiring[h] = "no"
  /\ Retire(h, pc)
  /\ UNCHANGED <<lifecycle, sentTo, revision, waits, proc, inbox>>

Exit(h) ==
  /\ proc[h] = "alive"
  /\ proc' = [proc EXCEPT ![h] = "exited"]
  /\ retiring' = [retiring EXCEPT ![h] = IF @ = "no" THEN "done" ELSE @]
  /\ inbox' = [inbox EXCEPT ![h] = {}]
  /\ Drop(h, pc)
  /\ UNCHANGED <<lifecycle, sentTo, revision, waits>>

\* The close event: the process has exited and its pipes are closed.
Close(h) ==
  /\ proc[h] = "exited"
  /\ proc' = [proc EXCEPT ![h] = "closed"]
  /\ retiring' = [retiring EXCEPT ![h] = IF @ \in {"term", "kill"} THEN "done" ELSE @]
  /\ UNCHANGED <<lifecycle, child, pending, sentTo, inbox, pc, revision, waits>>

\* terminate: SIGTERM, then SIGKILL, then the retirement fails for good and stays
\* a barrier to the next start.
TerminateTimeout(h) ==
  /\ retiring[h] \in {"term", "kill"}
  /\ retiring' = [retiring EXCEPT ![h] = IF @ = "term" THEN "kill" ELSE "failed"]
  /\ UNCHANGED <<lifecycle, child, proc, pending, sentTo, inbox, pc, revision, waits>>

-----------------------------------------------------------------------------
Ended == {"done", "failed"}

Continue(c) ==
  \/ AwaitRetirements(c) \/ RetirementFailed(c) \/ Prepare(c) \/ Spawn(c) \/ Overtaken(c)
  \/ Consent(c) \/ Withdraw(c) \/ GiveUp(c) \/ StopRetires(c) \/ Stopped(c)

Terminated == (\A c \in Calls : pc[c] \in Ended) /\ UNCHANGED vars

Next ==
  \/ \E c \in Starts : Start(c)
  \/ \E c \in Stops : Stop(c) \/ HardStop(c)
  \/ \E c \in Invokes : Invoke(c)
  \/ \E c \in Calls : Continue(c) \/ RequestEnds(c)
  \/ \E h \in Helpers : TransportLost(h) \/ Exit(h) \/ Close(h) \/ TerminateTimeout(h)
  \/ \E h \in Helpers : \E r \in inbox[h] : Answer(h, r)
  \/ Terminated

Spec == Init /\ [][Next]_vars

\* The event loop continues what can continue, and timers fire.
FairSpec ==
  /\ Spec
  /\ \A c \in Calls : WF_vars(Continue(c)) /\ WF_vars(RequestEnds(c))
  /\ \A h \in Helpers : WF_vars(TerminateTimeout(h))

-----------------------------------------------------------------------------
TypeOK ==
  /\ lifecycle \in Nat /\ child \in Helpers \cup {None}
  /\ proc \in [Helpers -> {"none", "alive", "exited", "closed"}]
  /\ retiring \in [Helpers -> {"no", "term", "kill", "done", "failed"}]
  /\ pending \subseteq Calls /\ sentTo \in [Calls -> Helpers \cup {None}]
  /\ inbox \in [Helpers -> SUBSET (Calls \X {"initialize", "consent", "shutdown", "call"})]
  /\ pc \in [Calls -> {"idle", "retire", "settle", "prepare", "initialize", "initialized",
                       "consent", "withdraw", "give up", "shutdown", "asked", "call"} \cup Ended]
  /\ revision \in [Calls -> Nat] /\ waits \in [Calls -> SUBSET Helpers]

\* Two helpers are never alive at once, however starts overtake each other and
\* however long a helper takes to die: a retirement that failed lets nobody spawn.
OneHelper == Cardinality({h \in Helpers : proc[h] = "alive"}) <= 1

\* A live helper is the current one or is being ended: no start, stop or event
\* that was overtaken leaves one behind.
NoHelperLeftBehind ==
  \A h \in Helpers : proc[h] = "alive" /\ child # h => retiring[h] \in {"term", "kill", "failed"}

\* A request that waits for an answer waits for the current helper, so the
\* answer of an earlier one can never be taken for it.
PendingAtCurrentHelper == \A c \in pending : child # None /\ sentTo[c] = child

\* When a stop has returned and nothing was decided since, nothing runs, and no
\* start that began before it may still spawn.
StopHolds ==
  \A c \in Stops : pc[c] = "done" /\ Current(c) =>
    child = None /\ \A h \in Helpers : proc[h] # "alive"

-----------------------------------------------------------------------------
(* The inductive invariant of the proofs *)

Deciders == Starts \cup Stops
Alive(h) == proc[h] = "alive"
NothingRuns == \A h \in Helpers : ~Alive(h)

\* A call is at a step of its kind, and waits for an answer while its request is pending.
AtOwnStep ==
  /\ \A c \in Starts : pc[c] \in {"idle", "retire", "settle", "prepare", "initialize", "initialized",
                                  "consent", "withdraw", "give up"} \cup Ended
  /\ \A c \in Stops : pc[c] \in {"idle", "shutdown", "asked", "retire", "settle"} \cup Ended
  /\ \A c \in Invokes : pc[c] \in {"idle", "call"} \cup Ended
  /\ \A c \in pending : pc[c] \in {"initialize", "consent", "shutdown", "call"}

\* The lifecycle numbers the calls that decided; the last of them is the current one.
Numbered ==
  /\ \A c \in Deciders : pc[c] # "idle" => revision[c] <= lifecycle
  /\ \A c, d \in Deciders :
       pc[c] # "idle" /\ pc[d] # "idle" /\ revision[c] = revision[d] => c = d

\* What a start has spawned, and what is known of a helper by its retirement.
HelperKnown(h) ==
  /\ pc[h] \in {"idle", "retire", "settle", "prepare"} => proc[h] = "none"
  /\ pc[h] \in {"initialize", "initialized", "consent", "withdraw", "give up", "done"} =>
       proc[h] # "none"
  /\ proc[h] = "none" => retiring[h] = "no"
  /\ retiring[h] = "done" => ~Alive(h)

HelpersKnown ==
  /\ \A h \in Helpers : HelperKnown(h)
  /\ child # None => Alive(child)
  /\ \A c \in Calls : \A h \in waits[c] : proc[h] # "none"

OnlyOneAlive == \A g, h \in Helpers : Alive(g) /\ Alive(h) => g = h

\* The current decider has given up the helper it found, or will; it awaits whatever lives
\* still, and nothing lives when it goes on.
Knows(c) ==
  /\ pc[c] \in {"retire", "settle", "prepare"} \/ (c \in Stops /\ pc[c] = "done") => child = None
  /\ pc[c] \in {"shutdown", "asked"} => \A h \in waits[c] : child \in {None, h}
  /\ pc[c] = "settle" => \A h \in Helpers : Alive(h) => h \in waits[c]
  /\ pc[c] = "prepare" \/ (c \in Stops /\ pc[c] = "done") => NothingRuns

DeciderKnows == \A c \in Deciders : Current(c) => Knows(c)

IInv ==
  /\ TypeOK /\ AtOwnStep /\ Numbered /\ HelpersKnown /\ OnlyOneAlive
  /\ NoHelperLeftBehind /\ PendingAtCurrentHelper /\ DeciderKnows

\* Every call of the bridge ends, also with a helper that neither answers nor dies.
CallsReturn == \A c \in Calls : pc[c] # "idle" ~> pc[c] \in Ended
=============================================================================

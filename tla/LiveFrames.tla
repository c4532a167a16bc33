----------------------------- MODULE LiveFrames -----------------------------
(***************************************************************************)
(* The viewers of the browser sidecar's live session                       *)
(* (src/sidecars/agent-in-chrome/host/browser-session.js, main): frames of *)
(* the screencast go to each viewer under flow control, a frame that has   *)
(* to wait is replaced by the next, a viewer silent for 5 s is resumed.    *)
(* The session ends once, by a viewer's "done", a timeout, a signal or the *)
(* end of the browser.                                                     *)
(***************************************************************************)
EXTENDS Naturals, Sequences, FiniteSets

CONSTANTS Viewers,    \* live connections there may ever be
          InFlight,   \* --frames-in-flight
          MaxFrames   \* bound: frames the page paints

InFlightAssumption == InFlight \in Nat \ {0} /\ MaxFrames \in Nat

VARIABLES
  viewer,   \* each connection: "new", "open" or "gone"
  state,    \* the sidecar's record of it: inFlight, latest, silent for 5 s
  wire,     \* frames sent to it and not yet shown
  acks,     \* acknowledgements on their way back
  withheld, \* frames shown and never acknowledged
  resumed,  \* it was resumed after a silence
  painted,  \* frames of the page so far
  credit,   \* Chrome sends no further frame before this one is acknowledged
  finished, \* finished
  statuses  \* statuses finish has announced

vars == <<viewer, state, wire, acks, withheld, resumed, painted, credit, finished, statuses>>

NoFrame == 0
Fresh == [inFlight |-> 0, latest |-> NoFrame, silent |-> FALSE]
Open == {v \in Viewers : viewer[v] = "open"}

Init ==
  /\ viewer = [v \in Viewers |-> "new"]
  /\ state = [v \in Viewers |-> Fresh]
  /\ wire = [v \in Viewers |-> << >>]
  /\ acks = [v \in Viewers |-> 0]
  /\ withheld = [v \in Viewers |-> 0]
  /\ resumed = [v \in Viewers |-> FALSE]
  /\ painted = 0 /\ credit = TRUE
  /\ finished = FALSE /\ statuses = {}

\* A frame waits and the limit leaves room for it.
Deliverable(st) == st.latest # NoFrame /\ st.inFlight < InFlight

\* deliver, as the new state of the viewer and what is sent to it.
Delivered(st) ==
  IF Deliverable(st)
  THEN [inFlight |-> st.inFlight + 1, latest |-> NoFrame, silent |-> FALSE]
  ELSE st
Sent(st) == IF Deliverable(st) THEN <<st.latest>> ELSE << >>

Join(v) ==
  /\ viewer[v] = "new" /\ ~finished
  /\ viewer' = [viewer EXCEPT ![v] = "open"]
  /\ UNCHANGED <<state, wire, acks, withheld, resumed, painted, credit, finished, statuses>>

Leave(v) ==
  /\ v \in Open
  /\ viewer' = [viewer EXCEPT ![v] = "gone"]
  /\ UNCHANGED <<state, wire, acks, withheld, resumed, painted, credit, finished, statuses>>

\* The state a frame finds: the frame replaces the one that waits, and a
\* viewer silent for 5 s is resumed.
Resumes(st) == st.inFlight > 0 /\ st.silent
Framed(st, n) ==
  [st EXCEPT !.latest = n, !.inFlight = IF Resumes(st) THEN 0 ELSE st.inFlight]

\* Page.screencastFrame: to all viewers, then the acknowledgement to Chrome.
Frame ==
  /\ painted < MaxFrames /\ credit
  /\ painted' = painted + 1
  /\ state' = [v \in Viewers |-> IF v \in Open THEN Delivered(Framed(state[v], painted + 1)) ELSE state[v]]
  /\ wire' = [v \in Viewers |-> IF v \in Open THEN wire[v] \o Sent(Framed(state[v], painted + 1)) ELSE wire[v]]
  /\ resumed' = [v \in Viewers |-> resumed[v] \/ (v \in Open /\ Resumes(state[v]))]
  /\ credit' = FALSE
  /\ UNCHANGED <<viewer, acks, withheld, finished, statuses>>

FrameAcked ==
  /\ ~credit
  /\ credit' = TRUE
  /\ UNCHANGED <<viewer, state, wire, acks, withheld, resumed, painted, finished, statuses>>

Silence(v) ==
  /\ v \in Open /\ state[v].inFlight > 0 /\ ~state[v].silent
  /\ state' = [state EXCEPT ![v].silent = TRUE]
  /\ UNCHANGED <<viewer, wire, acks, withheld, resumed, painted, credit, finished, statuses>>

\* The viewer shows a frame and acknowledges it, or fails to.
Show(v) ==
  /\ v \in Open /\ wire[v] # << >>
  /\ wire' = [wire EXCEPT ![v] = Tail(@)]
  /\ acks' = [acks EXCEPT ![v] = @ + 1]
  /\ UNCHANGED <<viewer, state, withheld, resumed, painted, credit, finished, statuses>>

ShowSilently(v) ==
  /\ v \in Open /\ wire[v] # << >>
  /\ wire' = [wire EXCEPT ![v] = Tail(@)]
  /\ withheld' = [withheld EXCEPT ![v] = @ + 1]
  /\ UNCHANGED <<viewer, state, acks, resumed, painted, credit, finished, statuses>>

\* frame_ack
Minus1(n) == IF n = 0 THEN 0 ELSE n - 1
FrameAck(v) ==
  /\ v \in Open /\ acks[v] > 0
  /\ acks' = [acks EXCEPT ![v] = @ - 1]
  /\ LET st == [state[v] EXCEPT !.inFlight = Minus1(@)]
     IN /\ state' = [state EXCEPT ![v] = Delivered(st)]
        /\ wire' = [wire EXCEPT ![v] = @ \o Sent(st)]
  /\ UNCHANGED <<viewer, withheld, resumed, painted, credit, finished, statuses>>

\* finish: only the first call announces its status and closes the viewers.
Finish(status) ==
  /\ IF finished
     THEN UNCHANGED <<viewer, finished, statuses>>
     ELSE /\ finished' = TRUE
          /\ statuses' = statuses \cup {status}
          /\ viewer' = [v \in Viewers |-> IF v \in Open THEN "gone" ELSE viewer[v]]
  /\ UNCHANGED <<state, wire, acks, withheld, resumed, painted, credit>>

Done == Open # {} /\ Finish("done")
StopsEarly == Finish("timeout") \/ Finish("stopped") \/ Finish("browser_closed")

Next ==
  \/ \E v \in Viewers : \/ Join(v) \/ Leave(v) \/ Silence(v)
                        \/ Show(v) \/ ShowSilently(v) \/ FrameAck(v)
  \/ Frame \/ FrameAcked
  \/ Done \/ StopsEarly

Spec == Init /\ [][Next]_vars

\* The sidecar and the viewers' connections work; no viewer is bound to
\* acknowledge, and the page need not paint.
FairSpec ==
  /\ Spec
  /\ \A v \in Viewers : WF_vars(Show(v)) /\ WF_vars(FrameAck(v))

-----------------------------------------------------------------------------
TypeOK ==
  /\ viewer \in [Viewers -> {"new", "open", "gone"}]
  /\ state \in [Viewers -> [inFlight : 0..InFlight, latest : 0..MaxFrames, silent : BOOLEAN]]
  /\ painted \in 0..MaxFrames
  /\ acks \in [Viewers -> Nat]

\* A viewer that is never silent for 5 s has at most InFlight frames under way
\* or unacknowledged: frames do not queue on a slow link (deliver).
FramesBounded ==
  \A v \in Viewers : ~resumed[v] => Len(wire[v]) + acks[v] + withheld[v] <= InFlight

\* Frames reach a viewer in the order they were painted: an older one is
\* replaced while it waits, never sent after a newer (screencastFrame).
FramesInOrder ==
  \A v \in Viewers :
    /\ \A i, j \in DOMAIN wire[v] : i < j => wire[v][i] < wire[v][j]
    /\ state[v].latest # NoFrame =>
         \A i \in DOMAIN wire[v] : wire[v][i] < state[v].latest

\* A frame waits only for acknowledgements that are outstanding or overdue: the
\* count never stays at its limit with nothing unacknowledged (frame_ack).
WaitsForAcks ==
  \A v \in Open : state[v].latest # NoFrame =>
    /\ state[v].inFlight = InFlight
    /\ Len(wire[v]) + acks[v] + withheld[v] > 0

\* A waiting frame reaches its viewer, or gives way to a newer one, unless the
\* viewer leaves or has shown a frame it never acknowledged.
WaitingFrameMoves ==
  \A v \in Viewers :
    (v \in Open /\ state[v].latest # NoFrame)
      ~> (v \notin Open \/ state[v].latest = NoFrame \/ withheld[v] > 0)

\* The session ends with one status, whichever of its ends come together.
EndsOnce == Cardinality(statuses) <= 1 /\ (finished => Open = {})

-----------------------------------------------------------------------------
(* What always holds, and why *)

Unacknowledged(v) == Len(wire[v]) + acks[v] + withheld[v]

\* What is counted is out there; a viewer that was never resumed counts it all.
Counted(v) ==
  /\ state[v].inFlight <= Unacknowledged(v)
  /\ ~resumed[v] => state[v].inFlight = Unacknowledged(v)

\* A frame only waits while the limit leaves it no room.
WaitsAtLimit(v) == state[v].latest # NoFrame => state[v].inFlight = InFlight

\* The frames under way rise, and the one that waits is the newest.
Rising(v) ==
  /\ \A i, j \in 1..Len(wire[v]) : i < j => wire[v][i] < wire[v][j]
  /\ \A i \in 1..Len(wire[v]) : wire[v][i] <= painted
  /\ state[v].latest # NoFrame => \A i \in 1..Len(wire[v]) : wire[v][i] < state[v].latest
  /\ state[v].latest <= painted

\* The end is announced once and closes every viewer.
Ended ==
  IF finished THEN Open = {} /\ \E s \in {"done", "timeout", "stopped", "browser_closed"} : statuses = {s}
  ELSE statuses = {}

IInv ==
  /\ TypeOK /\ Ended
  /\ wire \in [Viewers -> Seq(1..MaxFrames)] /\ withheld \in [Viewers -> Nat]
  /\ resumed \in [Viewers -> BOOLEAN] /\ credit \in BOOLEAN /\ finished \in BOOLEAN
  /\ \A v \in Viewers : Counted(v) /\ WaitsAtLimit(v) /\ Rising(v)
=============================================================================

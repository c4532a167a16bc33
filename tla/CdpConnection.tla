--------------------------- MODULE CdpConnection ---------------------------
(***************************************************************************)
(* The Chrome DevTools connection of the browser sidecar                   *)
(* (src/sidecars/agent-in-chrome/host/cdp.js, class CDPConnection): one    *)
(* socket shared by every command and every wait for an event.  A command  *)
(* is settled by its answer, its timer, its caller's abort, the detachment *)
(* of its session or the end of the connection, in any order; whatever     *)
(* comes second is discarded.                                              *)
(***************************************************************************)
EXTENDS Naturals, FiniteSets

CONSTANTS Commands,      \* calls of send
          Waits,         \* calls of once
          Sessions,      \* flattened sessions of page targets
          SessionOf      \* the session of every command and wait

SessionAssumption == SessionOf \in [Commands \cup Waits -> Sessions]

VARIABLES
  ws,        \* the socket: "none", "opening", "open" or "gone"
  closed,    \* this.closed
  connected, \* the promise of connect
  command,   \* the promise of every send
  wait,      \* the promise of every once
  listeners, \* waits with an entry in this.listeners
  handlers,  \* waits with an entry in this._closeHandlers
  browser,   \* commands at the browser: "none", "sent", "ran" or "answered"
  answers    \* the answers the browser has given: command and session

vars == <<ws, closed, connected, command, wait, listeners, handlers, browser, answers>>

Failures == {"refused", "error", "foreign", "timeout", "aborted", "detached", "closed"}
Outcomes == {"none", "pending", "result"} \cup Failures
WaitOutcomes == {"none", "waiting", "event", "null", "aborted"}

Pending == {c \in Commands : command[c] = "pending"}
Waiting == {w \in Waits : wait[w] = "waiting"}

Init ==
  /\ ws = "none"
  /\ closed = FALSE
  /\ connected = "none"
  /\ command = [c \in Commands |-> "none"]
  /\ wait = [w \in Waits |-> "none"]
  /\ listeners = {}
  /\ handlers = {}
  /\ browser = [c \in Commands |-> "none"]
  /\ answers = {}

Settle(cs, outcome) ==
  command' = [c \in Commands |-> IF c \in cs THEN outcome ELSE command[c]]

\* Each wait's finish unsubscribes its listener and its close handler.
Finish(ws_, outcome) ==
  /\ wait' = [w \in Waits |-> IF w \in ws_ THEN outcome ELSE wait[w]]
  /\ listeners' = listeners \ ws_
  /\ handlers' = handlers \ ws_

-----------------------------------------------------------------------------
(* The connection *)

Connect ==
  /\ ws = "none" /\ ~closed
  /\ ws' = "opening" /\ connected' = "waiting"
  /\ UNCHANGED <<closed, command, wait, listeners, handlers, browser, answers>>

Opened ==
  /\ ws = "opening" /\ ~closed
  /\ ws' = "open" /\ connected' = "resolved"
  /\ UNCHANGED <<closed, command, wait, listeners, handlers, browser, answers>>

\* _onClose: every pending command is rejected; every wait ends by its close
\* handler; then handlers and listeners are dropped.  Only the first call acts.
OnClose ==
  IF closed
  THEN UNCHANGED <<closed, command, wait, listeners, handlers>>
  ELSE /\ closed' = TRUE
       /\ Settle(Pending, "closed")
       /\ wait' = [w \in Waits |-> IF w \in handlers THEN "null" ELSE wait[w]]
       /\ listeners' = {}
       /\ handlers' = {}

\* The handshake fails, is cut short or is ended by close.
OpenFails ==
  /\ ws = "opening"
  /\ ws' = "gone" /\ connected' = "rejected"
  /\ OnClose
  /\ UNCHANGED <<browser, answers>>

\* The socket closes: Chrome exits, the pipe breaks, or a close completes.
SocketCloses ==
  /\ ws = "open"
  /\ ws' = "gone"
  /\ OnClose
  /\ UNCHANGED <<connected, browser, answers>>

Close ==
  /\ ~closed
  /\ OnClose
  /\ UNCHANGED <<ws, connected, browser, answers>>

-----------------------------------------------------------------------------
(* Commands *)

\* send: refused at once on a connection that is not open or on a signal
\* already aborted; ws.send itself may throw after the command is pending.
Send(c) ==
  /\ command[c] = "none"
  /\ \/ /\ closed \/ ws # "open"
        /\ Settle({c}, "refused")
        /\ UNCHANGED browser
     \/ /\ Settle({c}, "aborted")
        /\ UNCHANGED browser
     \/ /\ ~closed /\ ws = "open"
        /\ \/ /\ Settle({c}, "pending")
              /\ browser' = [browser EXCEPT ![c] = "sent"]
           \/ /\ Settle({c}, "refused")
              /\ UNCHANGED browser
  /\ UNCHANGED <<ws, closed, connected, wait, listeners, handlers, answers>>

\* The browser runs a command it received, whatever has become of its caller.
Run(c) ==
  /\ browser[c] = "sent"
  /\ browser' = [browser EXCEPT ![c] = "ran"]
  /\ UNCHANGED <<ws, closed, connected, command, wait, listeners, handlers, answers>>

\* _onMessage of an answer.  The entry goes first; then the session the answer
\* names is compared with the session of the command.
Answer(c, s) ==
  /\ browser[c] = "ran" /\ ws = "open"
  /\ browser' = [browser EXCEPT ![c] = "answered"]
  /\ answers' = answers \cup {<<c, s>>}
  /\ IF c \in Pending /\ ~closed
     THEN IF s # SessionOf[c] THEN Settle({c}, "foreign")
          ELSE Settle({c}, "result") \/ Settle({c}, "error")
     ELSE UNCHANGED command
  /\ UNCHANGED <<ws, closed, connected, wait, listeners, handlers>>

Timeout(c) ==
  /\ c \in Pending
  /\ Settle({c}, "timeout")
  /\ UNCHANGED <<ws, closed, connected, wait, listeners, handlers, browser, answers>>

Cancel(c) ==
  /\ c \in Pending
  /\ Settle({c}, "aborted")
  /\ UNCHANGED <<ws, closed, connected, wait, listeners, handlers, browser, answers>>

\* Target.detachedFromTarget: _rejectSession.  The event is also emitted to
\* the listeners, which wait for other methods here.
Detached(s) ==
  /\ ws = "open" /\ ~closed
  /\ Settle({c \in Pending : SessionOf[c] = s}, "detached")
  /\ UNCHANGED <<ws, closed, connected, wait, listeners, handlers, browser, answers>>

-----------------------------------------------------------------------------
(* Waits for an event *)

Once(w) ==
  /\ wait[w] = "none"
  /\ \/ /\ closed
        /\ wait' = [wait EXCEPT ![w] = "null"]
        /\ UNCHANGED <<listeners, handlers>>
     \/ /\ ~closed
        /\ wait' = [wait EXCEPT ![w] = "aborted"]
        /\ UNCHANGED <<listeners, handlers>>
     \/ /\ ~closed
        /\ wait' = [wait EXCEPT ![w] = "waiting"]
        /\ listeners' = listeners \cup {w}
        /\ handlers' = handlers \cup {w}
  /\ UNCHANGED <<ws, closed, connected, command, browser, answers>>

\* An event reaches the listeners of its session; ws_ are those whose
\* predicate it satisfies.
Event(s, ws_) ==
  /\ ws = "open" /\ ~closed
  /\ ws_ # {} /\ ws_ \subseteq {w \in listeners : SessionOf[w] = s}
  /\ Finish(ws_, "event")
  /\ UNCHANGED <<ws, closed, connected, command, browser, answers>>

WaitTimeout(w) ==
  /\ w \in Waiting
  /\ Finish({w}, "null")
  /\ UNCHANGED <<ws, closed, connected, command, browser, answers>>

WaitCancel(w) ==
  /\ w \in Waiting
  /\ Finish({w}, "aborted")
  /\ UNCHANGED <<ws, closed, connected, command, browser, answers>>

-----------------------------------------------------------------------------
Next ==
  \/ Connect \/ Opened \/ OpenFails \/ SocketCloses \/ Close
  \/ \E c \in Commands : Send(c) \/ Run(c) \/ Timeout(c) \/ Cancel(c)
  \/ \E c \in Commands, s \in Sessions : Answer(c, s)
  \/ \E s \in Sessions : Detached(s)
  \/ \E w \in Waits : Once(w) \/ WaitTimeout(w) \/ WaitCancel(w)
  \/ \E s \in Sessions, ws_ \in SUBSET Waits : Event(s, ws_)

Spec == Init /\ [][Next]_vars

\* The handshake has its own timeout, and so has each command and each wait.
FairSpec ==
  /\ Spec
  /\ WF_vars(OpenFails)
  /\ \A c \in Commands : WF_vars(Timeout(c))
  /\ \A w \in Waits : WF_vars(WaitTimeout(w))

-----------------------------------------------------------------------------
TypeOK ==
  /\ ws \in {"none", "opening", "open", "gone"}
  /\ closed \in BOOLEAN
  /\ connected \in {"none", "waiting", "resolved", "rejected"}
  /\ command \in [Commands -> Outcomes]
  /\ wait \in [Waits -> WaitOutcomes]
  /\ listeners \subseteq Waits
  /\ handlers \subseteq Waits
  /\ browser \in [Commands -> {"none", "sent", "ran", "answered"}]
  /\ answers \subseteq Commands \X Sessions

\* A caller is given only what the browser answered to this very command under
\* the session it addressed: after timeouts, aborts and detachments no late
\* answer reaches another caller (_onMessage).
ResultsAreOwn ==
  \A c \in Commands : command[c] = "result" => <<c, SessionOf[c]>> \in answers

\* A command refused without an unknown outcome never runs in the browser: its
\* caller may repeat it (send).
RefusedNeverRuns ==
  \A c \in Commands : command[c] = "refused" => browser[c] = "none"

\* Whatever closes the connection, and at whatever moment, nobody is left
\* waiting on it: no command is pending, no wait is open (_onClose, once).
ClosedSettlesAll ==
  closed => Pending = {} /\ Waiting = {}

\* Exactly the open waits hold a listener and a close handler: a long session
\* leaves none behind, and an open wait will hear of its event and of the
\* close of the connection (once, finish).
ListenersAreOpenWaits ==
  listeners = Waiting /\ handlers = Waiting

\* Every command, every wait and the opening end for their callers.
CallsEnd ==
  /\ \A c \in Commands : c \in Pending ~> c \notin Pending
  /\ \A w \in Waits : w \in Waiting ~> w \notin Waiting
  /\ connected = "waiting" ~> connected # "waiting"

-----------------------------------------------------------------------------
(* What always holds, and why *)

\* A command that was not sent is not at the browser.
UnsentUnknown == \A c \in Commands : command[c] = "none" => browser[c] = "none"

IInv ==
  /\ TypeOK /\ UnsentUnknown /\ ResultsAreOwn /\ RefusedNeverRuns
  /\ ClosedSettlesAll /\ ListenersAreOpenWaits
=============================================================================

---------------------------- MODULE RunnerCalls ----------------------------
(***************************************************************************)
(* A host's calls to the connector runner: the Python client               *)
(* (src/packages/connectors-python/.../runner.py, ConnectorRunner), which  *)
(* owns one runner process and speaks to it over its pipes, and the runner *)
(* (src/packages/connectors/cmd/connector-runner/main.go), which answers   *)
(* one request after another and keeps the consents of own apps in memory  *)
(* (src/packages/connectors/auth/local_oauth.go, LocalOAuth).              *)
(*                                                                         *)
(* A call that times out or is cancelled cannot tell how far the runner    *)
(* got: the client kills the process, so that no later call reads what the *)
(* runner still writes; with it go the consents in its memory.             *)
(***************************************************************************)
EXTENDS Naturals, Sequences, FiniteSets

CONSTANTS Calls,        \* calls of the host
          MethodOf,     \* "invoke", "start", "poll", "redeem" or "close"
          ArgOf,        \* the start whose transaction a poll or redeem names
          Capacity,     \* transactions LocalOAuth keeps (100)
          MaxProcesses, \* bound: processes started
          None

Starts == {c \in Calls : MethodOf[c] = "start"}

ArgAssumption == \A c \in Calls : MethodOf[c] \in {"poll", "redeem"} => ArgOf[c] \in Starts

Processes == 1..MaxProcesses

VARIABLES
  call,      \* where each call is, or its outcome
  queue,     \* calls that wait for the client's lock, in order
  lock,      \* the call that holds it
  process,   \* the client's process, 0 for none
  spawned,   \* processes started so far
  live,      \* processes that run
  stdin,     \* lines on their way into each process
  stdout,    \* lines on their way out
  busy,      \* the request a process works on, and whether it is at a provider
  tx,        \* LocalOAuth's transactions in each process
  expired,   \* starts whose transaction is past its ten minutes
  presented, \* how often the code of a transaction was presented
  asked      \* starts whose transaction the broker was asked about

vars == <<call, queue, lock, process, spawned, live, stdin, stdout, busy, tx,
          expired, presented, asked>>
clientVars == <<call, queue, lock, process, spawned>>
runnerVars == <<live, stdin, stdout, busy, tx, expired, presented, asked>>

Resting == [request |-> None, exchanging |-> FALSE]
Replied == {"result", "error"}
Outcomes == Replied \cup {"mismatch", "unavailable", "cancelled", "closed"}

Init ==
  /\ call = [c \in Calls |-> "none"]
  /\ queue = << >> /\ lock = None
  /\ process = 0 /\ spawned = 0 /\ live = {}
  /\ stdin = [n \in Processes |-> << >>]
  /\ stdout = [n \in Processes |-> << >>]
  /\ busy = [n \in Processes |-> Resting]
  /\ tx = [n \in Processes |-> [s \in Starts |-> "none"]]
  /\ expired = {} /\ asked = {}
  /\ presented = [s \in Starts |-> 0]

-----------------------------------------------------------------------------
(* The client *)

\* A poll or a redeem names a transaction the host was told of.
Call(c) ==
  /\ call[c] = "none"
  /\ MethodOf[c] \in {"poll", "redeem"} => call[ArgOf[c]] = "result"
  /\ call' = [call EXCEPT ![c] = "queued"]
  /\ queue' = Append(queue, c)
  /\ UNCHANGED <<lock, process, spawned>> /\ UNCHANGED runnerVars

\* _close: kill and reap.
Closed == process' = 0 /\ live' = live \ {process}
Kept == UNCHANGED <<process, live>>

End(c, outcome) ==
  /\ call' = [call EXCEPT ![c] = outcome]
  /\ lock' = None
  /\ UNCHANGED <<queue, spawned>>

\* The lock comes to the first in the queue.  A process known to have ended is
\* replaced; the end of a process may not have been noticed yet.
Acquire ==
  /\ lock = None /\ queue # << >>
  /\ LET c == Head(queue) IN
     /\ queue' = Tail(queue)
     /\ lock' = c
     /\ \/ /\ MethodOf[c] = "close"
           /\ call' = [call EXCEPT ![c] = "closing"]
           /\ UNCHANGED stdin
        \/ /\ MethodOf[c] # "close" /\ process \notin live
           /\ call' = [call EXCEPT ![c] = "spawning"]
           /\ UNCHANGED stdin
        \/ /\ MethodOf[c] # "close" /\ process # 0
           /\ call' = [call EXCEPT ![c] = "sent"]
           /\ stdin' = [stdin EXCEPT ![process] = Append(@, c)]
  /\ UNCHANGED <<process, spawned, live, stdout, busy, tx, expired, presented, asked>>

CloseRunner(c) ==
  /\ call[c] = "closing"
  /\ Closed /\ End(c, "closed")
  /\ UNCHANGED <<stdin, stdout, busy, tx, expired, presented, asked>>

Spawn(c) ==
  /\ call[c] = "spawning" /\ spawned < MaxProcesses
  /\ spawned' = spawned + 1
  /\ process' = spawned'
  /\ live' = live \cup {spawned'}
  /\ stdin' = [stdin EXCEPT ![spawned'] = <<c>>]
  /\ call' = [call EXCEPT ![c] = "sent"]
  /\ UNCHANGED <<queue, lock, stdout, busy, tx, expired, presented, asked>>

\* Faulty: a reply without an id is taken for the call's own.
ReadAny(c) ==
  /\ call[c] = "sent" /\ stdout[process] # << >>
  /\ stdout' = [stdout EXCEPT ![process] = Tail(@)]
  /\ Kept /\ End(c, Head(stdout[process]).kind)
  /\ UNCHANGED <<stdin, busy, tx, expired, presented, asked>>

\* The read of a reply.  A reply under another id ends the process; an error of
\* the runner does not.
Read(c) ==
  /\ call[c] = "sent" /\ stdout[process] # << >>
  /\ stdout' = [stdout EXCEPT ![process] = Tail(@)]
  /\ LET reply == Head(stdout[process])
     IN IF reply.id = c THEN Kept /\ End(c, reply.kind)
                        ELSE Closed /\ End(c, "mismatch")
  /\ UNCHANGED <<stdin, busy, tx, expired, presented, asked>>

\* The start of the process fails, or its pipes are at their end.
Unavailable(c) ==
  /\ \/ call[c] = "spawning"
     \/ call[c] = "sent" /\ process \notin live /\ stdout[process] = << >>
  /\ Closed /\ End(c, "unavailable")
  /\ UNCHANGED <<stdin, stdout, busy, tx, expired, presented, asked>>

\* Faulty: a timeout leaves the process to the next call.
TimeoutKeepsProcess(c) ==
  /\ call[c] \in {"spawning", "sent"}
  /\ Kept /\ End(c, "unavailable")
  /\ UNCHANGED <<stdin, stdout, busy, tx, expired, presented, asked>>

\* Faulty: the timer covers the start of the process only.
TimeoutOfSpawn(c) ==
  /\ call[c] = "spawning"
  /\ Closed /\ End(c, "unavailable")
  /\ UNCHANGED <<stdin, stdout, busy, tx, expired, presented, asked>>

\* The timeout runs from the acquisition of the lock.
Timeout(c) ==
  /\ call[c] \in {"spawning", "sent"}
  /\ Closed /\ End(c, "unavailable")
  /\ UNCHANGED <<stdin, stdout, busy, tx, expired, presented, asked>>

Cancel(c) ==
  /\ call[c] \in {"spawning", "sent"}
  /\ Closed /\ End(c, "cancelled")
  /\ UNCHANGED <<stdin, stdout, busy, tx, expired, presented, asked>>

CancelQueued(c) ==
  /\ call[c] = "queued"
  /\ call' = [call EXCEPT ![c] = "cancelled"]
  /\ queue' = SelectSeq(queue, LAMBDA d : d # c)
  /\ UNCHANGED <<lock, process, spawned>> /\ UNCHANGED runnerVars

-----------------------------------------------------------------------------
(* The runner *)

Held(n) == {s \in Starts : tx[n][s] # "none"}

\* LocalOAuth.Owns: transactions are found while they are kept, whatever their
\* status.
Owns(n, s) == s \in Held(n)

\* The loop takes the next line of its input.
Take(n) ==
  /\ n \in live /\ busy[n] = Resting /\ stdin[n] # << >>
  /\ stdin' = [stdin EXCEPT ![n] = Tail(@)]
  /\ busy' = [busy EXCEPT ![n].request = Head(stdin[n])]
  /\ UNCHANGED <<live, stdout, tx, expired, presented, asked>> /\ UNCHANGED clientVars

Reply(n, id, kind) ==
  /\ stdout' = [stdout EXCEPT ![n] = Append(@, [id |-> id, kind |-> kind])]
  /\ busy' = [busy EXCEPT ![n] = Resting]

Working(n, methods) ==
  /\ n \in live /\ ~busy[n].exchanging
  /\ busy[n].request # None /\ MethodOf[busy[n].request] \in methods

\* invoke, or any request the runner cannot read: then no id is in the reply.
Invoke(n) ==
  /\ Working(n, {"invoke"})
  /\ \/ \E kind \in Replied : Reply(n, busy[n].request, kind)
     \/ Reply(n, None, "error")
  /\ UNCHANGED <<live, stdin, tx, expired, presented, asked>> /\ UNCHANGED clientVars

\* auth.start of an own app: expired transactions go first, then the limit.
Start(n) ==
  /\ Working(n, {"start"})
  /\ LET kept == [s \in Starts |-> IF s \in expired THEN "none" ELSE tx[n][s]]
         c == busy[n].request
     IN IF Cardinality({s \in Starts : kept[s] # "none"}) >= Capacity
        THEN /\ tx' = [tx EXCEPT ![n] = kept]
             /\ Reply(n, c, "error")
        ELSE /\ tx' = [tx EXCEPT ![n] = [kept EXCEPT ![c] = "pending"]]
             /\ Reply(n, c, "result")
  /\ UNCHANGED <<live, stdin, expired, presented, asked>> /\ UNCHANGED clientVars

\* auth.poll and auth.redeem of a transaction this process does not own go to
\* the broker, which knows of none of them.
AskBroker(n) ==
  /\ Working(n, {"poll", "redeem"})
  /\ LET s == ArgOf[busy[n].request] IN ~Owns(n, s) /\ asked' = asked \cup {s}
  /\ Reply(n, busy[n].request, "error")
  /\ UNCHANGED <<live, stdin, tx, expired, presented>> /\ UNCHANGED clientVars

Poll(n) ==
  /\ Working(n, {"poll"})
  /\ LET s == ArgOf[busy[n].request]
     IN /\ Owns(n, s)
        /\ Reply(n, busy[n].request, IF s \in expired THEN "error" ELSE "result")
  /\ UNCHANGED <<live, stdin, tx, expired, presented, asked>> /\ UNCHANGED clientVars

\* Redeem consumes the transaction, then presents its code.
Redeem(n) ==
  /\ Working(n, {"redeem"})
  /\ LET s == ArgOf[busy[n].request]
     IN /\ Owns(n, s)
        /\ IF tx[n][s] = "ready" /\ s \notin expired
           THEN /\ tx' = [tx EXCEPT ![n][s] = "consumed"]
                /\ presented' = [presented EXCEPT ![s] = @ + 1]
                /\ busy' = [busy EXCEPT ![n].exchanging = TRUE]
                /\ UNCHANGED stdout
           ELSE /\ Reply(n, busy[n].request, "error")
                /\ UNCHANGED <<tx, presented>>
  /\ UNCHANGED <<live, stdin, expired, asked>> /\ UNCHANGED clientVars

Exchanged(n) ==
  /\ n \in live /\ busy[n].exchanging
  /\ \E kind \in Replied : Reply(n, busy[n].request, kind)
  /\ UNCHANGED <<live, stdin, tx, expired, presented, asked>> /\ UNCHANGED clientVars

\* The user's browser returns to the loopback listener of a live process, with
\* a code or a refusal; a callback that fits no pending transaction is refused.
Callback(n, s) ==
  /\ n \in live /\ tx[n][s] = "pending" /\ s \notin expired
  /\ \E status \in {"ready", "cancelled"} : tx' = [tx EXCEPT ![n][s] = status]
  /\ UNCHANGED <<live, stdin, stdout, busy, expired, presented, asked>> /\ UNCHANGED clientVars

Expire(s) ==
  /\ s \notin expired /\ \E n \in Processes : tx[n][s] # "none"
  /\ expired' = expired \cup {s}
  /\ UNCHANGED <<live, stdin, stdout, busy, tx, presented, asked>> /\ UNCHANGED clientVars

\* The runner dies on its own.
Die(n) ==
  /\ n \in live
  /\ live' = live \ {n}
  /\ UNCHANGED <<stdin, stdout, busy, tx, expired, presented, asked>> /\ UNCHANGED clientVars

-----------------------------------------------------------------------------
Next ==
  \/ Acquire
  \/ \E c \in Calls : \/ Call(c) \/ CloseRunner(c) \/ Spawn(c) \/ Read(c)
                      \/ Unavailable(c) \/ Timeout(c) \/ Cancel(c) \/ CancelQueued(c)
  \/ \E n \in Processes : \/ Take(n) \/ Invoke(n) \/ Start(n) \/ AskBroker(n) \/ Poll(n)
                          \/ Redeem(n) \/ Exchanged(n) \/ Die(n)
  \/ \E n \in Processes, s \in Starts : Callback(n, s)
  \/ \E s \in Starts : Expire(s)

Spec == Init /\ [][Next]_vars

\* Only the client is fair: its lock, its timer and the kill.  The runner and
\* the providers behind it may hang.
FairSpec ==
  /\ Spec
  /\ WF_vars(Acquire)
  /\ \A c \in Calls : WF_vars(CloseRunner(c)) /\ WF_vars(Timeout(c))

-----------------------------------------------------------------------------
TypeOK ==
  /\ call \in [Calls -> {"none", "queued", "spawning", "sent", "closing"} \cup Outcomes]
  /\ lock \in Calls \cup {None}
  /\ process \in 0..spawned /\ spawned \in 0..MaxProcesses
  /\ live \subseteq 1..spawned
  /\ tx \in [Processes -> [Starts -> {"none", "pending", "ready", "cancelled", "consumed"}]]
  /\ \A n \in Processes : busy[n].request \in Calls \cup {None}

\* At most one runner lives, and it is the client's: a timeout, a cancellation
\* or a mismatch leaves no process behind that still works on a request (_close).
OneProcess == live \subseteq {process}

\* Between calls nothing is left in the pipes of the client's process and the
\* process works on nothing: no call can read what another was answered.
CleanBetweenCalls ==
  lock = None /\ process \in live =>
    stdin[process] = << >> /\ stdout[process] = << >> /\ busy[process] = Resting

\* While a call holds the lock, whatever its process reads, works on or writes is
\* of this call, or carries no id: at most one line altogether.
OneRequestAtATime ==
  lock # None /\ process # 0 =>
    /\ Len(stdin[process]) + Len(stdout[process]) <= 1
    /\ \A i \in DOMAIN stdin[process] : stdin[process][i] = lock
    /\ \A i \in DOMAIN stdout[process] : stdout[process][i].id \in {lock, None}
    /\ busy[process].request \in {lock, None}

\* The code of an own app's consent is presented once, however often the redeem
\* is called and wherever the runner is killed (Redeem).
CodePresentedOnce == \A s \in Starts : presented[s] <= 1

\* The broker is asked about an own app's transaction only when no process
\* knows it any more: the runner was replaced, or it had expired (Owns).
OwnConsentsStayHere ==
  \A s \in asked : \A n \in live : tx[n][s] = "none"

\* The limit holds at every start (Start).
TransactionsBounded == \A n \in Processes : Cardinality(Held(n)) <= Capacity

\* Every call returns, whatever the runner does.
CallsEnd ==
  \A c \in Calls : call[c] = "queued" ~> call[c] \in Outcomes

\* A call takes nothing for its reply that the runner wrote for another request
\* or for a line it could not read (call, request_id).
OwnReply ==
  \A c \in Calls : call[c] = "sent" /\ call'[c] \in Replied => Head(stdout[process]).id = c

RepliesAreOwn == [][OwnReply]_vars
=============================================================================

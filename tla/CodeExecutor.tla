---------------------------- MODULE CodeExecutor ----------------------------
(* ProcessCodeExecutor (openagent_execution executor.py) over its backends     *)
(* (backends.py): runs prepare the container under a lock, spawn a client of  *)
(* their own, are awaited, timed out or cancelled, and killed through a file   *)
(* that names their process group inside the container; close kills what is   *)
(* registered and removes the container.  With the local backend the client  *)
(* is the command itself and there is no container.                           *)
EXTENDS Integers, FiniteSets

CONSTANTS
  Runs,     \* calls of run
  Boxes,    \* containers the daemon may be asked for
  Backend,  \* "local" or "docker"
  Nobody    \* no run, no container

BackendAssumption == Backend \in {"local", "docker"} /\ Nobody \notin Runs \cup Boxes
                       /\ "close" \notin Runs \cup {Nobody}

VARIABLES
  exec,   \* the executor: closed, holder of the prepare lock, container it owns, step of close
  box,    \* each container: absent, starting, up or gone
  run,    \* each run: step, container, client process, process group in the container
          \* and whether its pid file exists
  felt    \* ghost: runs killed through their pid file, and containers nobody can remove

vars == <<exec, box, run, felt>>

Init ==
  /\ exec = [closed |-> FALSE, lock |-> Nobody, cid |-> Nobody, step |-> "open",
             kills |-> [r \in Runs |-> "none"]]
  /\ box = [k \in Boxes |-> "absent"]
  /\ run = [r \in Runs |-> [pc |-> "idle", cid |-> Nobody, client |-> "none",
                            code |-> "none", file |-> FALSE]]
  /\ felt = [killed |-> {}, orphans |-> {}]

Ended == {"returned", "failed", "cancelled"}
Active == {r \in Runs : run[r].pc \in {"spawning", "running", "term", "termclient",
                                       "kill", "killclient"}}
Docker == Backend = "docker"
Go(r, pc) == [run EXCEPT ![r].pc = pc]

-----------------------------------------------------------------------------
(* prepare and spawn                                                          *)

Run(r) ==
  /\ run[r].pc = "idle"
  /\ run' = Go(r, "locking")
  /\ UNCHANGED <<exec, box, felt>>

\* Faulty: prepare takes no lock
UnlockedPrepare(r) ==
  /\ run[r].pc = "locking"
  /\ \/ exec.closed /\ run' = Go(r, "failed") /\ UNCHANGED <<exec, box>>
     \/ /\ ~exec.closed /\ (~Docker \/ exec.cid # Nobody)
        /\ run' = [run EXCEPT ![r].pc = "spawning", ![r].cid = exec.cid]
        /\ UNCHANGED <<exec, box>>
     \/ /\ ~exec.closed /\ Docker /\ exec.cid = Nobody
        /\ \E k \in Boxes :
             /\ box[k] = "absent"
             /\ box' = [box EXCEPT ![k] = "starting"]
             /\ run' = [run EXCEPT ![r].pc = "preparing", ![r].cid = k]
        /\ exec' = [exec EXCEPT !.lock = r]
  /\ UNCHANGED felt

\* The lock is free.  A closed executor refuses; a container already there is
\* used, and no await lies between this and the start of the client.
Prepare(r) ==
  /\ run[r].pc = "locking" /\ exec.lock = Nobody
  /\ \/ exec.closed /\ run' = Go(r, "failed") /\ UNCHANGED <<exec, box>>
     \/ /\ ~exec.closed /\ (~Docker \/ exec.cid # Nobody)
        /\ run' = [run EXCEPT ![r].pc = "spawning", ![r].cid = exec.cid]
        /\ UNCHANGED <<exec, box>>
     \/ /\ ~exec.closed /\ Docker /\ exec.cid = Nobody
        /\ \E k \in Boxes :
             /\ box[k] = "absent"
             /\ box' = [box EXCEPT ![k] = "starting"]
             /\ run' = [run EXCEPT ![r].pc = "preparing", ![r].cid = k]
        /\ exec' = [exec EXCEPT !.lock = r]
  /\ UNCHANGED felt

\* docker run answers: the daemon made the container, or refused.
Prepared(r) ==
  LET k == run[r].cid IN
  /\ run[r].pc = "preparing"
  /\ \/ /\ box[k] = "up"
        /\ exec' = [exec EXCEPT !.lock = Nobody, !.cid = k]
        /\ run' = Go(r, "spawning")
        /\ UNCHANGED box
     \/ /\ box[k] = "starting"
        /\ exec' = [exec EXCEPT !.lock = Nobody]
        /\ box' = [box EXCEPT ![k] = "gone"]
        /\ run' = Go(r, "failed")
  /\ UNCHANGED felt

BoxUp(k) ==
  /\ box[k] = "starting"
  /\ box' = [box EXCEPT ![k] = "up"]
  /\ UNCHANGED <<exec, run, felt>>

\* The client was created (docker exec asks the daemon for the command), or could not be.
Spawned(r) ==
  /\ run[r].pc = "spawning"
  /\ \/ run' = [run EXCEPT ![r].pc = "running", ![r].client = "up",
                           ![r].code = IF Docker THEN "asked" ELSE "none"]
     \/ run' = Go(r, "failed")
  /\ UNCHANGED <<exec, box, felt>>

-----------------------------------------------------------------------------
(* The command in its container                                              *)

\* setsid, then the pid file, then the end that removes it.
CodeStarts(r) ==
  /\ run[r].code = "asked"
  /\ run' = [run EXCEPT ![r].code = IF box[run[r].cid] = "up" THEN "up" ELSE "gone"]
  /\ UNCHANGED <<exec, box, felt>>

FileWritten(r) ==
  /\ run[r].code = "up" /\ ~run[r].file
  /\ run' = [run EXCEPT ![r].file = TRUE]
  /\ UNCHANGED <<exec, box, felt>>

CodeEnds(r) ==
  /\ run[r].code = "up"
  /\ run' = [run EXCEPT ![r].code = "gone", ![r].file = FALSE]
  /\ UNCHANGED <<exec, box, felt>>

\* A docker client ends with its command; a local command when it likes.
ClientEnds(r) ==
  /\ run[r].client = "up"
  /\ Docker => run[r].code = "gone"
  /\ run' = [run EXCEPT ![r].client = "gone"]
  /\ UNCHANGED <<exec, box, felt>>

-----------------------------------------------------------------------------
(* run_with_timeout and kill                                                  *)

Return(r) ==
  /\ run[r].pc = "running" /\ run[r].client = "gone"
  /\ run' = Go(r, "returned")
  /\ UNCHANGED <<exec, box, felt>>

Timeout(r) ==
  /\ run[r].pc = "running" /\ run[r].client = "up"
  /\ run' = Go(r, "term")
  /\ UNCHANGED <<exec, box, felt>>

\* The host cancels the call.  The lock is released; a container being made is
\* forgotten; asyncio kills a client being made, whose request may have left.
Cancel(r) ==
  /\ \/ /\ run[r].pc = "locking"
        /\ run' = Go(r, "cancelled") /\ UNCHANGED <<exec, felt>>
     \/ /\ run[r].pc = "preparing"
        /\ run' = Go(r, "cancelled")
        /\ exec' = [exec EXCEPT !.lock = Nobody]
        /\ felt' = [felt EXCEPT !.orphans = @ \cup {run[r].cid}]
     \/ /\ run[r].pc = "spawning"
        /\ \E c \in IF Docker THEN {"none", "asked"} ELSE {"none"} :
             run' = [run EXCEPT ![r].pc = "cancelled", ![r].code = c]
        /\ UNCHANGED <<exec, felt>>
     \/ /\ run[r].pc \in {"running", "term", "termclient"}
        /\ run' = Go(r, "kill") /\ UNCHANGED <<exec, felt>>
  /\ UNCHANGED box

\* _exec reaches the code: the container is the executor's and the file is there.
Reached(r) == run[r].file /\ exec.cid = run[r].cid /\ box[exec.cid] = "up"

\* What the kill command does to the code: TERM may be ignored, KILL may not.
Signal(r, signal) ==
  IF Reached(r)
    THEN {[run[r] EXCEPT !.code = "gone", !.file = FALSE]}
           \cup (IF signal = "KILL" THEN {} ELSE {run[r]})
    ELSE {run[r]}

\* The docker kill first goes through the container, and raises without an
\* answer within five seconds or without a container: then the client is killed
\* and nothing else is sent.
KillCode(r) ==
  /\ run[r].pc \in {"term", "kill"}
  /\ \/ /\ Docker => exec.cid # Nobody
        /\ \E s \in Signal(r, IF run[r].pc = "term" THEN "TERM" ELSE "KILL") :
             run' = [run EXCEPT ![r] =
                       [s EXCEPT !.pc = IF @ = "term" THEN "termclient" ELSE "killclient"]]
        /\ felt' = IF Reached(r) THEN [felt EXCEPT !.killed = @ \cup {r}] ELSE felt
     \/ /\ Docker
        /\ run' = Go(r, "killclient")
        /\ felt' = [felt EXCEPT !.killed = @ \ {r}]
  /\ UNCHANGED <<exec, box>>

\* The client's group gets the signal, and KILL at the end of the grace; a docker
\* run that was sent TERM then gets KILL in the container too.
KillClient(r) ==
  /\ run[r].pc \in {"termclient", "killclient"}
  /\ run' = [run EXCEPT ![r].client = "gone",
               ![r].pc = IF Docker /\ @ = "termclient" THEN "kill" ELSE "returned"]
  /\ UNCHANGED <<exec, box, felt>>

-----------------------------------------------------------------------------
(* close                                                                      *)

\* It holds the lock from here to its end.
Close ==
  /\ exec.step = "open" /\ exec.lock = Nobody
  /\ exec' = [exec EXCEPT !.closed = TRUE, !.step = "killing", !.lock = "close",
                !.kills = [r \in Runs |-> IF r \in Active THEN "code" ELSE "none"]]
  /\ UNCHANGED <<box, run, felt>>

\* kill(KILL) of a registered process: through the container, then its client;
\* a process that is not there yet is left alone.
CloseKills(r) ==
  \/ /\ exec.kills[r] = "code"
     /\ exec' = [exec EXCEPT !.kills[r] = "client"]
     /\ \/ \E s \in Signal(r, "KILL") : run' = [run EXCEPT ![r] = s]
        \/ Docker /\ UNCHANGED run
     /\ UNCHANGED <<box, felt>>
  \/ /\ exec.kills[r] = "client"
     /\ exec' = [exec EXCEPT !.kills[r] = "done"]
     /\ run' = IF run[r].client = "up" THEN [run EXCEPT ![r].client = "gone"] ELSE run
     /\ UNCHANGED <<box, felt>>

\* cleanup: docker rm -f, whose failure is only logged.
Cleanup ==
  /\ exec.step = "killing" /\ \A r \in Runs : exec.kills[r] \in {"none", "done"}
  /\ exec' = [exec EXCEPT !.step = "closed", !.cid = Nobody, !.lock = Nobody]
  /\ \/ exec.cid = Nobody /\ UNCHANGED <<box, run, felt>>
     \/ /\ exec.cid # Nobody
        /\ box' = [box EXCEPT ![exec.cid] = "gone"]
        /\ run' = [r \in Runs |->
                     IF run[r].cid = exec.cid /\ run[r].code = "up"
                       THEN [run[r] EXCEPT !.code = "gone", !.file = FALSE] ELSE run[r]]
        /\ UNCHANGED felt
     \/ /\ exec.cid # Nobody
        /\ felt' = [felt EXCEPT !.orphans = @ \cup {exec.cid}]
        /\ UNCHANGED <<box, run>>

-----------------------------------------------------------------------------
Next ==
  \/ Close \/ Cleanup
  \/ \E k \in Boxes : BoxUp(k)
  \/ \E r \in Runs :
       \/ Run(r) \/ Prepare(r) \/ Prepared(r) \/ Spawned(r)
       \/ CodeStarts(r) \/ FileWritten(r) \/ CodeEnds(r) \/ ClientEnds(r)
       \/ Return(r) \/ Timeout(r) \/ Cancel(r) \/ KillCode(r) \/ KillClient(r)
       \/ CloseKills(r)

Spec == Init /\ [][Next]_vars

\* The daemon answers, a command that does not end is timed out, close finishes.
FairSpec ==
  /\ Spec
  /\ WF_vars(Cleanup)
  /\ \A r \in Runs :
       /\ SF_vars(Prepare(r))
       /\ WF_vars(Prepared(r)) /\ WF_vars(Spawned(r)) /\ WF_vars(CodeStarts(r))
       /\ WF_vars(Return(r) \/ Timeout(r))
       /\ WF_vars(KillCode(r)) /\ WF_vars(KillClient(r)) /\ WF_vars(CloseKills(r))

-----------------------------------------------------------------------------
(* Properties                                                                 *)

TypeOK ==
  /\ exec \in [closed : BOOLEAN, lock : Runs \cup {Nobody, "close"}, cid : Boxes \cup {Nobody},
               step : {"open", "killing", "closed"},
               kills : [Runs -> {"none", "code", "client", "done"}]]
  /\ box \in [Boxes -> {"absent", "starting", "up", "gone"}]
  /\ run \in [Runs -> [pc : {"idle", "locking", "preparing", "spawning", "running", "term",
                             "termclient", "kill", "killclient"} \cup Ended,
                       cid : Boxes \cup {Nobody}, client : {"none", "up", "gone"},
                       code : {"none", "asked", "up", "gone"}, file : BOOLEAN]]
  /\ felt \in [killed : SUBSET Runs, orphans : SUBSET Boxes]

\* Every container that exists is the one the executor will remove, or is being
\* made under the lock; the rest were given up by a cancelled prepare or a failed
\* removal, which the label of the containers is for.
ContainersAreOwned ==
  \A k \in Boxes : box[k] \in {"starting", "up"} =>
     \/ k = exec.cid \/ k \in felt.orphans
     \/ \E r \in Runs : exec.lock = r /\ run[r].cid = k

\* Once close has returned, no code of the executor runs in a container it
\* could remove: nothing was registered, prepared or started behind it.
NothingRunsAfterClose ==
  exec.step = "closed" => \A r \in Runs : run[r].code = "up" => run[r].cid \in felt.orphans

\* A run whose kill found the pid file ends with its code gone, also when the code
\* ignores TERM, unless the daemon failed to answer in time.
ReachedCodeIsOver ==
  \A r \in Runs : (r \in felt.killed /\ run[r].pc = "returned") => run[r].code # "up"

-----------------------------------------------------------------------------
(* The inductive invariant of the proofs *)

\* close holds the lock from its first step to its last, and no run prepares behind it.
ExecKnown ==
  /\ exec.closed <=> exec.step # "open"
  /\ exec.lock = "close" <=> exec.step = "killing"
  /\ exec.step = "closed" => exec.cid = Nobody
  /\ exec.cid # Nobody => Docker /\ box[exec.cid] = "up"
  /\ \A r \in Runs : exec.lock = r <=> run[r].pc = "preparing"

\* Code is asked for, and starts, only in the executor's container or in one that it gave up.
RunKnown(r) ==
  /\ run[r].pc = "preparing" =>
       Docker /\ run[r].cid \in Boxes /\ exec.cid = Nobody /\ ~exec.closed
  /\ run[r].code # "none" =>
       Docker /\ run[r].pc \notin {"idle", "locking", "preparing", "spawning"}
  /\ (run[r].pc = "spawning" /\ Docker) \/ run[r].code \in {"asked", "up"} =>
       /\ run[r].cid \in Boxes
       /\ run[r].cid = exec.cid \/ run[r].cid \in felt.orphans \/ box[run[r].cid] = "gone"
  /\ run[r].code = "up" => run[r].cid \in {exec.cid} \cup felt.orphans
  /\ run[r].file => run[r].code = "up"

\* A kill that found the pid file finds it again, until close gives the container up.
KillKnown(r) ==
  r \in felt.killed =>
    /\ run[r].pc \in {"termclient", "kill", "killclient", "returned"}
    /\ run[r].code # "asked"
    /\ run[r].pc \in {"killclient", "returned"} => run[r].code # "up"
    /\ run[r].code = "up" => run[r].file /\ (run[r].cid = exec.cid \/ exec.step = "closed")

IInv ==
  /\ TypeOK /\ ContainersAreOwned /\ ExecKnown
  /\ \A r \in Runs : RunKnown(r) /\ KillKnown(r)

-----------------------------------------------------------------------------
\* A call of run ends, whatever the daemon, the command and close do.
RunsReturn == \A r \in Runs : (run[r].pc # "idle") ~> (run[r].pc \in Ended)

\* prepare is documented as "idempotent - one container per process".
OneContainer ==
  Cardinality({k \in Boxes : box[k] \in {"starting", "up"}}) <= 1

\* The wrapper exists because "killing only docker-exec would otherwise leave code
\* running": a call that was cancelled or timed out leaves no code in the container.
EndedRunsLeaveNothing ==
  \A r \in Runs : run[r].pc \in Ended => run[r].code # "up"

\* close is documented to close the active commands.
CloseEndsCommands ==
  exec.step = "closed" => \A r \in Runs : run[r].client # "up"
=============================================================================

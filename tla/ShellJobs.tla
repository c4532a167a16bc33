------------------------------ MODULE ShellJobs ------------------------------
(* The shells of the shell server (openagent_shell server.py, shell_core.py):  *)
(* a background job is spawned, registered, read, killed, finalised and       *)
(* announced while its principal may be released or the server closed; a      *)
(* foreground command is fed, awaited with a time limit, and killed.  Output   *)
(* is counted in bytes; each job has one stream with a bounded buffer, a drain *)
(* task that fills it and a cursor of what was read.                          *)
EXTENDS Integers, FiniteSets

CONSTANTS
  Jobs,        \* calls of shell_exec
  Principals,  \* local accounts
  Kills,       \* calls of shell_kill
  Buffer,      \* MAX_STREAM_BYTES
  MaxBytes,    \* bound: bytes a job writes
  Nobody       \* the subject of no call

BoundsAssumption ==
  /\ Buffer \in Nat \ {0} /\ MaxBytes \in Nat
  /\ Nobody \notin Jobs \cup Principals

VARIABLES
  job,      \* each job: owner, process, drain task, whether it is registered, and
            \* where the call of a foreground command is
  output,   \* each job's stream: bytes written by the process, appended, dropped, read up to
  seen,     \* ghost: positions shell_output returned, returned again, or lost in an error
  kill,     \* each shell_kill: its job, the signal sent, whether it has returned
  stop,     \* release_principal or close: the jobs it found, the ones left, the current one
  told      \* ghost: the totals announced by shell_completed

vars == <<job, output, seen, kill, stop, told>>

Init ==
  /\ job = [j \in Jobs |-> [owner |-> Nobody, proc |-> "none", pipe |-> "closed",
                            drain |-> "done", final |-> FALSE, known |-> FALSE,
                            call |-> "none"]]
  /\ output = [j \in Jobs |-> [written |-> 0, total |-> 0, dropped |-> 0, cursor |-> 0]]
  /\ seen = [j \in Jobs |-> [given |-> {}, again |-> {}, refused |-> {}]]
  /\ kill = [k \in Kills |-> [job |-> Nobody, sent |-> "none", done |-> FALSE]]
  /\ stop = [whom |-> Nobody, found |-> {}, left |-> {}, at |-> Nobody, done |-> FALSE]
  /\ told = [j \in Jobs |-> {}]

Running(j) == job[j].proc \in {"running", "terminating", "killed"}
AtLeast(a, b) == IF a > b THEN a ELSE b
Set(j, f, v) == [job EXCEPT ![j][f] = v]

-----------------------------------------------------------------------------
(* shell_exec with run_in_background                                          *)

\* The arguments are in order; the process is being created.
Exec(j, p) ==
  /\ job[j].owner = Nobody
  /\ job' = [job EXCEPT ![j] = [@ EXCEPT !.owner = p, !.proc = "spawning"]]
  /\ UNCHANGED <<output, seen, kill, stop, told>>

SpawnFails(j) ==
  /\ job[j].proc = "spawning"
  /\ job' = [job EXCEPT ![j] = [@ EXCEPT !.proc = "failed",
                                         !.call = IF job[j].call = "none" THEN "none" ELSE "returned"]]
  /\ UNCHANGED <<output, seen, kill, stop, told>>

\* No await that waits lies between the end of start and the registration.
Started(j) ==
  /\ job[j].proc = "spawning" /\ job[j].call = "none"
  /\ job' = [job EXCEPT ![j] = [@ EXCEPT !.proc = "running", !.pipe = "open",
                                         !.drain = "reading", !.known = TRUE]]
  /\ UNCHANGED <<output, seen, kill, stop, told>>

-----------------------------------------------------------------------------
(* The process and its output                                                 *)

\* Whoever holds the pipe writes: the process, or a child that outlives it.
Write(j) ==
  /\ job[j].pipe = "open" /\ output[j].written < MaxBytes
  /\ output' = [output EXCEPT ![j].written = @ + 1]
  /\ UNCHANGED <<job, seen, kill, stop, told>>

Exit(j) ==
  /\ Running(j)
  /\ job' = Set(j, "proc", "exited")
  /\ UNCHANGED <<output, seen, kill, stop, told>>

ClosePipe(j) ==
  /\ job[j].proc = "exited" /\ job[j].pipe = "open"
  /\ job' = Set(j, "pipe", "closed")
  /\ UNCHANGED <<output, seen, kill, stop, told>>

\* _append: the oldest bytes beyond the buffer are dropped.
Drain(j) ==
  /\ job[j].drain = "reading" /\ output[j].total < output[j].written
  /\ \E total \in (output[j].total + 1)..output[j].written :
       output' = [output EXCEPT ![j].total = total, ![j].dropped = AtLeast(@, total - Buffer)]
  /\ UNCHANGED <<job, seen, kill, stop, told>>

DrainEnds(j) ==
  /\ job[j].drain = "reading" /\ job[j].pipe = "closed" /\ output[j].total = output[j].written
  /\ job' = Set(j, "drain", "done")
  /\ UNCHANGED <<output, seen, kill, stop, told>>

\* Faulty: the drain goes on after the job was finalised
FinaliseDraining(j) ==
  /\ job[j].proc = "exited" /\ job[j].known /\ ~job[j].final
  /\ job' = [job EXCEPT ![j].final = TRUE]
  /\ told' = [told EXCEPT ![j] = @ \cup {output[j].total}]
  /\ UNCHANGED <<output, seen, kill, stop>>

\* _pump: after the exit, the drain is awaited for a time and then cancelled;
\* the end of finalise and the announcement are one turn of the event loop.
Finalise(j) ==
  /\ job[j].proc = "exited" /\ job[j].known /\ ~job[j].final
  /\ job' = [job EXCEPT ![j] = [@ EXCEPT !.drain = "done", !.final = TRUE]]
  /\ told' = [told EXCEPT ![j] = @ \cup {output[j].total}]
  /\ UNCHANGED <<output, seen, kill, stop>>

-----------------------------------------------------------------------------
(* shell_output                                                               *)

May(p, j) == job[j].known /\ job[j].owner = p

\* _slice: what the buffer still holds of the bytes from since on.
Slice(j, since) == (AtLeast(since, output[j].dropped) + 1)..output[j].total

\* The cursors advance before the filter is compiled; with one that is refused
\* the answer is an error.
OutputSinceLast(p, j, filter) ==
  /\ May(p, j)
  /\ output' = [output EXCEPT ![j].cursor = output[j].total]
  /\ seen' = IF filter = "invalid"
             THEN [seen EXCEPT ![j].refused = @ \cup Slice(j, output[j].cursor)]
             ELSE [seen EXCEPT ![j].given = @ \cup Slice(j, output[j].cursor),
                               ![j].again = @ \cup (seen[j].given \cap Slice(j, output[j].cursor))]
  /\ UNCHANGED <<job, kill, stop, told>>

-----------------------------------------------------------------------------
(* shell_kill                                                                 *)

Signalled(j, signal) ==
  IF Running(j) THEN Set(j, "proc", IF signal = "KILL" \/ job[j].proc = "killed"
                                    THEN "killed" ELSE "terminating")
  ELSE job

Kill(k, p, j, signal) ==
  /\ kill[k].job = Nobody /\ May(p, j)
  /\ job' = Signalled(j, signal)
  /\ kill' = [kill EXCEPT ![k] = [job |-> j, sent |-> IF Running(j) THEN signal ELSE "KILL",
                                  done |-> FALSE]]
  /\ UNCHANGED <<output, seen, stop, told>>

\* The grace after TERM or INT is over.
GraceEnds(k) ==
  /\ kill[k].sent = "TERM" /\ Running(kill[k].job)
  /\ job' = Signalled(kill[k].job, "KILL")
  /\ kill' = [kill EXCEPT ![k].sent = "KILL"]
  /\ UNCHANGED <<output, seen, stop, told>>

\* The reader is awaited before the answer.
ReaderIsOver(j) == job[j].final

KillReturns(k) ==
  /\ kill[k].job # Nobody /\ ~kill[k].done /\ ReaderIsOver(kill[k].job)
  /\ kill' = [kill EXCEPT ![k].done = TRUE]
  /\ UNCHANGED <<job, output, seen, stop, told>>

-----------------------------------------------------------------------------
(* shell_exec in the foreground: run_with_timeout                             *)

\* feed: the input is larger than the pipe and waits for the process to read it.
ExecForeground(j, p, feed) ==
  /\ job[j].owner = Nobody
  /\ job' = [job EXCEPT ![j] = [@ EXCEPT !.owner = p, !.proc = "spawning",
                                         !.call = IF feed THEN "feed" ELSE "wait"]]
  /\ UNCHANGED <<output, seen, kill, stop, told>>

Foreground(j) == job[j].call # "none" /\ job[j].proc # "spawning"

StartedForeground(j) ==
  /\ job[j].proc = "spawning" /\ job[j].call # "none"
  /\ job' = [job EXCEPT ![j] = [@ EXCEPT !.proc = "running", !.pipe = "open",
                                         !.drain = "reading"]]
  /\ UNCHANGED <<output, seen, kill, stop, told>>

\* The process reads its input, or ends and breaks the pipe.
Fed(j) ==
  /\ Foreground(j) /\ job[j].call = "feed"
  /\ job' = Set(j, "call", IF job[j].proc = "exited" THEN "finalise" ELSE "wait")
  /\ UNCHANGED <<output, seen, kill, stop, told>>

\* The time limit covers the wait for the process, then comes the grace.
TimesOut(j) ==
  /\ Foreground(j) /\ job[j].call = "wait" /\ Running(j)
  /\ job' = [Signalled(j, "TERM") EXCEPT ![j].call = "grace"]
  /\ UNCHANGED <<output, seen, kill, stop, told>>

ForegroundGraceEnds(j) ==
  /\ Foreground(j) /\ job[j].call = "grace" /\ Running(j)
  /\ job' = [Signalled(j, "KILL") EXCEPT ![j].call = "finalise"]
  /\ UNCHANGED <<output, seen, kill, stop, told>>

Ends(j) ==
  /\ Foreground(j) /\ job[j].call \in {"wait", "grace"} /\ job[j].proc = "exited"
  /\ job' = Set(j, "call", "finalise")
  /\ UNCHANGED <<output, seen, kill, stop, told>>

\* A cancelled call kills its process; cancelled again in finalise, it returns.
CancelCall(j) ==
  /\ Foreground(j) /\ job[j].call \in {"feed", "wait", "grace", "finalise"}
  /\ job' = IF job[j].call = "finalise" THEN Set(j, "call", "returned")
            ELSE [Signalled(j, "KILL") EXCEPT ![j].call = "finalise"]
  /\ UNCHANGED <<output, seen, kill, stop, told>>

\* finalise waits for the exit and the drain for a time each, then gives up.
ForegroundReturns(j) ==
  /\ Foreground(j) /\ job[j].call = "finalise"
  /\ job' = [job EXCEPT ![j] = [@ EXCEPT !.drain = "done", !.final = TRUE,
                                         !.call = "returned"]]
  /\ UNCHANGED <<output, seen, kill, stop, told>>

-----------------------------------------------------------------------------
(* release_principal and close                                                *)

Close == "close"
InScope(whom) == {j \in Jobs : job[j].known /\ (whom = Close \/ job[j].owner = whom)}

\* The snapshot is taken under the guard.
Stop(whom) ==
  /\ stop.whom = Nobody
  /\ stop' = [whom |-> whom, found |-> InScope(whom), left |-> InScope(whom),
              at |-> Nobody, done |-> FALSE]
  /\ UNCHANGED <<job, output, seen, kill, told>>

\* _stop_jobs, one job after the other: killed if it runs, its reader awaited.
StopJob(j) ==
  /\ stop.at = Nobody /\ j \in stop.left
  /\ job' = Signalled(j, "KILL")
  /\ stop' = [stop EXCEPT !.at = j]
  /\ UNCHANGED <<output, seen, kill, told>>

StopAwaits ==
  /\ stop.at # Nobody /\ ReaderIsOver(stop.at)
  /\ stop' = [stop EXCEPT !.at = Nobody, !.left = @ \ {stop.at}]
  /\ UNCHANGED <<job, output, seen, kill, told>>

\* A release forgets its jobs, close keeps them.
StopReturns ==
  /\ stop.whom # Nobody /\ stop.left = {} /\ ~stop.done
  /\ stop' = [stop EXCEPT !.done = TRUE]
  /\ job' = [j \in Jobs |-> IF stop.whom # Close /\ j \in stop.found
                            THEN [job[j] EXCEPT !.known = FALSE] ELSE job[j]]
  /\ UNCHANGED <<output, seen, kill, told>>

-----------------------------------------------------------------------------
Idle ==
  /\ \A j \in Jobs : \/ job[j].proc = "failed" \/ job[j].call = "returned"
                     \/ job[j].proc = "exited" /\ job[j].final
  /\ stop.done /\ \A k \in Kills : kill[k].job # Nobody => kill[k].done
  /\ UNCHANGED vars

Callers == \E p \in Principals, j \in Jobs :
  \/ Exec(j, p)
  \/ \E feed \in BOOLEAN : ExecForeground(j, p, feed)
  \/ \E f \in {"valid", "invalid"} : OutputSinceLast(p, j, f)
  \/ \E k \in Kills, s \in {"TERM", "KILL"} : Kill(k, p, j, s)

Next ==
  \/ Callers
  \/ \E j \in Jobs : SpawnFails(j) \/ Started(j) \/ Write(j) \/ Exit(j) \/ ClosePipe(j)
                     \/ Drain(j) \/ DrainEnds(j) \/ Finalise(j) \/ StopJob(j)
                     \/ StartedForeground(j) \/ Fed(j) \/ TimesOut(j) \/ ForegroundGraceEnds(j)
                     \/ Ends(j) \/ CancelCall(j) \/ ForegroundReturns(j)
  \/ \E k \in Kills : GraceEnds(k) \/ KillReturns(k)
  \/ \E w \in Principals \cup {Close} : Stop(w)
  \/ StopAwaits \/ StopReturns
  \/ Idle

Spec == Init /\ [][Next]_vars

\* A killed process exits; spawns, drains, timers and awaits go on.
FairSpec ==
  /\ Spec
  /\ \A j \in Jobs : /\ WF_vars(SpawnFails(j) \/ Started(j) \/ StartedForeground(j))
                     /\ WF_vars(Finalise(j))
                     /\ WF_vars(TimesOut(j) \/ ForegroundGraceEnds(j) \/ Ends(j))
                     /\ WF_vars(ForegroundReturns(j))
                     /\ WF_vars(StopJob(j))
                     /\ WF_vars(job[j].proc = "killed" /\ Exit(j))
  /\ \A k \in Kills : WF_vars(GraceEnds(k)) /\ WF_vars(KillReturns(k))
  /\ WF_vars(StopAwaits) /\ WF_vars(StopReturns)

-----------------------------------------------------------------------------
JobType == [owner : Principals \cup {Nobody},
            proc : {"none", "spawning", "failed", "running", "terminating", "killed", "exited"},
            pipe : {"open", "closed"}, drain : {"reading", "done"},
            final : BOOLEAN, known : BOOLEAN,
            call : {"none", "feed", "wait", "grace", "finalise", "returned"}]
StreamType == [written : 0..MaxBytes, total : 0..MaxBytes, dropped : 0..MaxBytes, cursor : 0..MaxBytes]
SeenType == [given : SUBSET (1..MaxBytes), again : SUBSET (1..MaxBytes), refused : SUBSET (1..MaxBytes)]

TypeOK ==
  /\ job \in [Jobs -> JobType]
  /\ output \in [Jobs -> StreamType]
  /\ \A j \in Jobs : /\ output[j].total <= output[j].written
                     /\ output[j].dropped <= output[j].total
                     /\ output[j].cursor <= output[j].total
                     /\ output[j].total - output[j].dropped <= Buffer
  /\ seen \in [Jobs -> SeenType]
  /\ kill \in [Kills -> [job : Jobs \cup {Nobody}, sent : {"none", "TERM", "KILL"}, done : BOOLEAN]]
  /\ stop \in [whom : Principals \cup {Nobody, Close}, found : SUBSET Jobs, left : SUBSET Jobs,
              at : Jobs \cup {Nobody}, done : BOOLEAN]
  /\ stop.left \subseteq stop.found /\ stop.at \in stop.left \cup {Nobody}
  /\ told \in [Jobs -> SUBSET (0..MaxBytes)]

\* A reader that follows a job sees its output once and whole: below the cursor
\* every byte was returned, dropped by the full buffer, or part of a refused
\* answer, and none was returned twice.
ReadWhole ==
  \A j \in Jobs :
    /\ seen[j].again = {}
    /\ \A b \in 1..output[j].cursor :
         b \in seen[j].given \cup seen[j].refused \/ b <= output[j].dropped

\* What shell_completed announces is final: it is said once, and no byte is
\* appended and no other total can be read after it.
AnnouncedOnceAndFinal == \A j \in Jobs : told[j] \subseteq {output[j].total}

\* An answer of shell_kill is given for a process that has ended, with its status.
KillIsFinal == \A k \in Kills : kill[k].done => ~Running(kill[k].job) /\ job[kill[k].job].final

\* When a release or a close has returned, none of the jobs it found runs or will
\* be announced any more, whatever kills went on beside it.
StoppedJobsAreOver ==
  stop.done => \A j \in stop.found : ~Running(j) /\ told[j] # {}

\* A foreground command that returned, timed out or was cancelled has ended or
\* has been killed: no process is left that nobody can name.
ForegroundLeavesNothing ==
  \A j \in Jobs : job[j].call = "returned" => job[j].proc \in {"failed", "killed", "exited"}

-----------------------------------------------------------------------------
(* The inductive invariant of the proofs *)

\* The process was started and not by a foreground command.
Background(r) == r.call = "none" /\ r.proc \in {"running", "terminating", "killed", "exited"}

\* What stays so of a job r that becomes x: that it runs in the background, and is final.
GoesOn(r, x) == (Background(r) => Background(x)) /\ (r.final => x.final)

\* What is known of a job r that wrote the stream o and announced the totals t.
JobKnown(r, o, t) ==
  /\ r.owner = Nobody => r.proc = "none"
  /\ r.proc = "none" => r.call = "none"
  /\ r.final \/ r.known => r.proc \in {"running", "terminating", "killed", "exited"}
  /\ r.known => r.call = "none"
  /\ r.final => r.drain = "done"
  /\ r.call = "none" /\ r.final => r.proc = "exited" /\ t # {}
  /\ r.call \in {"feed", "wait", "grace"} =>
        r.proc \in {"spawning", "running", "terminating", "killed", "exited"}
  /\ r.call = "finalise" => r.proc \in {"killed", "exited"}
  /\ r.call = "returned" => r.proc \in {"failed", "killed", "exited"}
  /\ t \subseteq {o.total} /\ (t # {} => r.final)

\* And of what its reader s saw of the stream.
ReadKnown(o, s) ==
  /\ s.again = {} /\ s.given \subseteq 1..o.cursor
  /\ \A b \in 1..o.cursor : b \in s.given \cup s.refused \/ b <= o.dropped

KillKnown(k) ==
  /\ IF kill[k].job = Nobody THEN kill[k].sent = "none" ELSE Background(job[kill[k].job])
  /\ kill[k].done => kill[k].job # Nobody /\ job[kill[k].job].final

StopKnown ==
  /\ \A j \in stop.found : Background(job[j]) /\ (j \notin stop.left => job[j].final)
  /\ stop.done => stop.left = {}

IInv ==
  /\ TypeOK
  /\ \A j \in Jobs : JobKnown(job[j], output[j], told[j]) /\ ReadKnown(output[j], seen[j])
  /\ \A k \in Kills : KillKnown(k)
  /\ StopKnown

-----------------------------------------------------------------------------
\* Kills, releases and the close of the server return, and so does a foreground
\* command whose input fits the pipe.
CallsReturn ==
  /\ \A k \in Kills : kill[k].job # Nobody ~> kill[k].done
  /\ stop.whom # Nobody ~> stop.done
  /\ \A j \in Jobs : job[j].call = "wait" ~> job[j].call = "returned"

\* The time limit of a foreground command ends it, whatever the command does with
\* its input: the tool says of timeout "Timeout in milliseconds."
TimeoutEndsCommand == \A j \in Jobs : job[j].call = "feed" ~> job[j].call = "returned"

\* Reading since the last call shows everything that was not dropped: the tool
\* says "Read new output from a background shell since the last call."
NewOutputIsReturned ==
  \A j \in Jobs : \A b \in 1..output[j].cursor : b \in seen[j].given \/ b <= output[j].dropped
=============================================================================

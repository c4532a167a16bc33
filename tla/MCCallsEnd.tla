----------------------------- MODULE MCCallsEnd -----------------------------
(***************************************************************************)
(* Whoever calls a component gets an end to its call, and a host its       *)
(* credential, under the fairness that the component's scheduling gives.   *)
(* Each component is modelled with every behaviour of what it talks to, so *)
(* a behaviour exercises one of them: `part`, chosen at the start, says    *)
(* which.  Since the others are not there, all components keep their state *)
(* in the variables v1 to v21.                                             *)
(***************************************************************************)
EXTENDS Integers, Sequences, FiniteSets

CONSTANT nobody

VARIABLES part, v1, v2, v3, v4, v5, v6, v7, v8, v9, v10, v11, v12, v13, v14, v15, v16, v17,
          v18, v19, v20, v21

Central == INSTANCE CentralExecution WITH
    Requests <- 1..2, Connections <- {"c"}, OAuth <- {"c"}, Owners <- {"alice"},
    OwnerOf <- [c \in {"c"} |-> "alice"], IDs <- {"i"}, Ops <- {"list"}, Writes <- {},
    Needs <- [o \in {"list"} |-> {"read"}], Scopes <- {"read"}, MaxTokens <- 2,
    MaxRestarts <- 0, Free <- nobody,
    gate <- v1, conns <- v2, invs <- v3, txs <- v4, bindings <- v5, offered <- v6,
    reqs <- v7, minted <- v8, restarts <- v9, exchanged <- v10, executed <- v11,
    told <- v12

Rotation == INSTANCE RotationGroups WITH
    Members <- 1..2, Operations <- 3..4, Nobody <- nobody, Redacts <- TRUE, MaxFaults <- 1,
    group <- v1, ops <- v2, mail <- v3, recoveries <- v4, hosts <- v5, shop <- v6,
    faults <- v7

Host == INSTANCE HostBridge WITH Starts <- 1..2, Stops <- {}, Invokes <- {}, None <- nobody,
    lifecycle <- v1, child <- v2, proc <- v3, retiring <- v4, pending <- v5, sentTo <- v6,
    inbox <- v7, pc <- v8, revision <- v9, waits <- v10

Shell == INSTANCE ShellJobs WITH
    Jobs <- {1}, Principals <- {"p"}, Kills <- {3}, Buffer <- 1, MaxBytes <- 0,
    Nobody <- nobody,
    job <- v1, output <- v2, seen <- v3, kill <- v4, stop <- v5, told <- v6

Code == INSTANCE CodeExecutor WITH
    Runs <- {1}, Boxes <- {1}, Backend <- "docker", Nobody <- nobody,
    exec <- v1, box <- v2, run <- v3, felt <- v4

Pool == INSTANCE BrowserPool WITH
    TypeList <- <<"chromium", "firefox">>, Gets <- 1..3, MaxBrowsers <- 1,
    MaxLaunches <- 3, MaxCloses <- 1,
    browsers <- v1, launches <- v2, closing <- v3, index <- v4, get <- v5, browser <- v6

Searches == INSTANCE WebSearches WITH
    Searches <- 1..2, MaxRequests <- 2, Places <- 1, Interval <- 1, MaxClock <- 1,
    CheckQuality <- TRUE, ForceMulti <- TRUE,
    clock <- v1, limiter <- v2, search <- v3, found <- v4

Extraction == INSTANCE PageExtraction WITH Pages <- 1..2, Places <- 1, MaxRedirects <- 1,
    page <- v1, sent <- v2, reached <- v3, answered <- v4

Cdp == INSTANCE CdpConnection WITH
    Commands <- 1..2, Waits <- {3}, Sessions <- {"s"}, SessionOf <- [x \in 1..3 |-> "s"],
    ws <- v1, closed <- v2, connected <- v3, command <- v4, wait <- v5, listeners <- v6,
    handlers <- v7, browser <- v8, answers <- v9

Frames == INSTANCE LiveFrames WITH Viewers <- {1}, InFlight <- 1, MaxFrames <- 4,
    viewer <- v1, state <- v2, wire <- v3, acks <- v4, withheld <- v5, resumed <- v6,
    painted <- v7, credit <- v8, finished <- v9, statuses <- v10

Runner == INSTANCE RunnerCalls WITH
    Calls <- 1..3, MethodOf <- <<"invoke", "invoke", "close">>, ArgOf <- << >>,
    Capacity <- 1, MaxProcesses <- 2, None <- nobody,
    call <- v1, queue <- v2, lock <- v3, process <- v4, spawned <- v5, live <- v6,
    stdin <- v7, stdout <- v8, busy <- v9, tx <- v10, expired <- v11, presented <- v12,
    asked <- v13

Op(safe, attempts) ==
    [read |-> FALSE, safe |-> safe, attempts |-> attempts, retryableWrite |-> TRUE,
     header |-> TRUE, budgeted |-> FALSE, scoped |-> FALSE]
Provider == INSTANCE ProviderCalls WITH
    Calls <- 1..2, Operation <- <<Op({FALSE}, 3), Op(BOOLEAN, 2)>>,
    Key <- <<"key", nobody>>, AllowWrite <- 1..2, Limit <- 1, None <- nobody,
    state <- v1, request <- v2, late <- v3, sent <- v4, effects <- v5, keys <- v6,
    used <- v7, scope <- v8, refused <- v9

Relay == INSTANCE ProxyRelay WITH MaxBytes <- 1, MaxReply <- 2,
    kind <- v1, proxy <- v2, stage <- v3, client <- v4, upstream <- v5, timed <- v6,
    pieces <- v7, early <- v8, up <- v9, down <- v10

Responses == {r \in [length : 1..3, literal : 0..4, parses : BOOLEAN] :
                 /\ r.literal < r.length \/ r.literal = 4
                 /\ ~r.parses => r.literal = 0}
Imap == INSTANCE ImapStream WITH
    Streams <- UNION {[1..n -> Responses] : n \in 0..2}, MaxBytes <- 4, MaxLiteral <- 2,
    MaxChunk <- 4,
    stream <- v1, arrived <- v2, captured <- v3, pending <- v4, remaining <- v5,
    got <- v6, validated <- v7, calling <- v8, err <- v9

Tabs == INSTANCE BrowserTabs WITH
    Calls <- 1..2, Targets <- {"page"}, None <- nobody, MaxTabs <- 2, MaxBrowsers <- 1,
    MaxConnections <- 1, MaxSessions <- 1, MaxInstalls <- 0,
    browser <- v1, loaded <- v2, dying <- v3, living <- v4, born <- v5, conns <- v6,
    subscribed <- v7, cdp <- v8, ownPid <- v9, ensuring <- v10, nextTabId <- v11,
    tabOf <- v12, sessions <- v13, attaching <- v14, session <- v15, calls <- v16,
    installed <- v17, named <- v18, astray <- v19, stuck <- v20, unloaded <- v21

Drive == INSTANCE DriveUpload WITH
    Totals <- 1..3, Chunk <- 2, MaxAttempts <- 2, Recoveries <- 1, Restarts <- 1,
    Trusted <- FALSE,
    upload <- v1, at <- v2, offset <- v3, noProgress <- v4, sent <- v5, held <- v6,
    written <- v7, late <- v8, result <- v9

\* The variables a component with so many of them leaves alone.
beyond13 == <<v14, v15, v16, v17, v18, v19, v20, v21>>
beyond12 == <<v13, beyond13>>
beyond10 == <<v11, v12, beyond12>>
beyond9 == <<v10, beyond10>>
beyond7 == <<v8, v9, beyond9>>
beyond6 == <<v7, beyond7>>
beyond4 == <<v5, v6, beyond6>>
vars == <<part, v1, v2, v3, v4, beyond4>>

\* The same in the initial state.
Off == "off"
Absent(k) ==
    /\ IF k < 5 THEN v5 = Off ELSE TRUE
    /\ IF k < 6 THEN v6 = Off ELSE TRUE
    /\ IF k < 7 THEN v7 = Off ELSE TRUE
    /\ IF k < 8 THEN v8 = Off ELSE TRUE
    /\ IF k < 9 THEN v9 = Off ELSE TRUE
    /\ IF k < 10 THEN v10 = Off ELSE TRUE
    /\ IF k < 11 THEN v11 = Off ELSE TRUE
    /\ IF k < 12 THEN v12 = Off ELSE TRUE
    /\ IF k < 13 THEN v13 = Off ELSE TRUE
    /\ IF k < 14 THEN v14 = Off ELSE TRUE
    /\ IF k < 15 THEN v15 = Off ELSE TRUE
    /\ IF k < 16 THEN v16 = Off ELSE TRUE
    /\ IF k < 17 THEN v17 = Off ELSE TRUE
    /\ IF k < 18 THEN v18 = Off ELSE TRUE
    /\ IF k < 19 THEN v19 = Off ELSE TRUE
    /\ IF k < 20 THEN v20 = Off ELSE TRUE
    /\ IF k < 21 THEN v21 = Off ELSE TRUE

Parts == {"central", "rotation", "host", "shell", "code", "pool", "searches", "pages", "cdp",
          "frames", "runner", "provider", "relay", "imap", "tabs", "drive"}

Init ==
    /\ part \in Parts
    /\ CASE part = "central" -> Central!Init /\ Absent(12)
         [] part = "rotation" -> Rotation!Init /\ Absent(7)
         [] part = "host" -> Host!Init /\ Absent(10)
         [] part = "shell" -> Shell!Init /\ Absent(6)
         [] part = "code" -> Code!Init /\ Absent(4)
         [] part = "pool" -> Pool!Init /\ Absent(6)
         [] part = "searches" -> Searches!Init /\ Absent(4)
         [] part = "pages" -> Extraction!Init /\ Absent(4)
         [] part = "cdp" -> Cdp!Init /\ Absent(9)
         [] part = "frames" -> Frames!Init /\ Absent(10)
         [] part = "runner" -> Runner!Init /\ Absent(13)
         [] part = "provider" -> Provider!Init /\ Absent(9)
         [] part = "relay" -> Relay!Init /\ Absent(10)
         [] part = "imap" -> Imap!Init /\ Absent(9)
         [] part = "tabs" -> Tabs!Init
         [] part = "drive" -> Drive!Init /\ Absent(9)

CentralStep == part = "central" /\ Central!Next /\ UNCHANGED <<part, beyond12>>
RotationStep == part = "rotation" /\ Rotation!Next /\ UNCHANGED <<part, beyond7>>
HostStep == part = "host" /\ Host!Next /\ UNCHANGED <<part, beyond10>>
ShellStep == part = "shell" /\ Shell!Next /\ UNCHANGED <<part, beyond6>>
CodeStep == part = "code" /\ Code!Next /\ UNCHANGED <<part, beyond4>>
PoolStep == part = "pool" /\ Pool!Next /\ UNCHANGED <<part, beyond6>>
SearchesStep == part = "searches" /\ Searches!Next /\ UNCHANGED <<part, beyond4>>
ExtractionStep == part = "pages" /\ Extraction!Next /\ UNCHANGED <<part, beyond4>>
CdpStep == part = "cdp" /\ Cdp!Next /\ UNCHANGED <<part, beyond9>>
FramesStep == part = "frames" /\ Frames!Next /\ UNCHANGED <<part, beyond10>>
RunnerStep == part = "runner" /\ Runner!Next /\ UNCHANGED <<part, beyond13>>
ProviderStep == part = "provider" /\ Provider!Next /\ UNCHANGED <<part, beyond9>>
RelayStep == part = "relay" /\ Relay!Next /\ UNCHANGED <<part, beyond10>>
ImapStep == part = "imap" /\ Imap!Next /\ UNCHANGED <<part, beyond9>>
TabsStep == part = "tabs" /\ Tabs!Next /\ UNCHANGED <<part>>
DriveStep == part = "drive" /\ Drive!Next /\ UNCHANGED <<part, beyond9>>

Next ==
    \/ CentralStep \/ RotationStep \/ HostStep \/ ShellStep
    \/ CodeStep \/ PoolStep \/ SearchesStep \/ ExtractionStep
    \/ CdpStep \/ FramesStep \/ RunnerStep \/ ProviderStep
    \/ RelayStep \/ ImapStep \/ TabsStep \/ DriveStep

\* The names the components give to the variables looked at below.
reqs == v7
pc == v8
job == v1
kill == v4
stop == v5
run == v3
get == v5
search == v3
answered == v4
connected == v3
viewer == v1
state == v2
withheld == v5
call == v1
attempt == v1
client == v4
upstream == v5
stream == v1
err == v9
got == v6
calls == v16
result == v9

-----------------------------------------------------------------------------
(* Fairness: that of the component exercised, conjunct by conjunct.  Only one *)
(* is, so conjuncts of different components share a name and a number.       *)

RotationTurn(what, i) ==
    \/ i \in 1..2 /\ \/ what = "proceed" /\ Rotation!ProviderCall(i + 2)
                     \/ what = "end" /\ Rotation!Finish(i + 2)
                     \/ what = "timeout" /\ Rotation!Fail(i + 2)
                     \/ what = "save" /\ Rotation!Save(i)
                     \/ what = "commit" /\ Rotation!Commit(i)
                     \/ what = "receive" /\ Rotation!Receive(i)
                     \/ what = "recover" /\ Rotation!Recover(i)
                     \/ what = "send" /\ Rotation!Send(i, 3 - i)
    \/ i \in 3..4 /\ what = "send" /\ Rotation!Send(i - 2, i - 2)
    \/ i = 3 /\ what = "end" /\ Rotation!Expire

ShellTurn(what, i) ==
    \/ i = 1 /\ \/ /\ what = "proceed"
                   /\ Shell!SpawnFails(i) \/ Shell!Started(i) \/ Shell!StartedForeground(i)
                \/ what = "commit" /\ Shell!Finalise(i)
                \/ /\ what = "timeout"
                   /\ Shell!TimesOut(i) \/ Shell!ForegroundGraceEnds(i) \/ Shell!Ends(i)
                \/ what = "end" /\ Shell!ForegroundReturns(i)
                \/ what = "send" /\ Shell!StopJob(i)
                \/ what = "receive" /\ job[i].proc = "killed" /\ Shell!Exit(i)
    \/ i = 3 /\ what = "timeout" /\ Shell!GraceEnds(i)
    \/ i = 3 /\ what = "end" /\ Shell!KillReturns(i)
    \/ i = 4 /\ what = "proceed" /\ Shell!StopAwaits
    \/ i = 4 /\ what = "end" /\ Shell!StopReturns

CodeTurn(what, i) ==
    \/ i = 3 /\ what = "end" /\ Code!Cleanup
    \/ i = 1 /\ \/ what = "proceed" /\ Code!Prepared(i)
                \/ what = "save" /\ Code!Spawned(i)
                \/ what = "commit" /\ Code!CodeStarts(i)
                \/ what = "end" /\ (Code!Return(i) \/ Code!Timeout(i))
                \/ what = "send" /\ Code!KillCode(i)
                \/ what = "receive" /\ Code!KillClient(i)
                \/ what = "timeout" /\ Code!CloseKills(i)

PoolTurn(what, i) ==
    \/ what = "end" /\ i = 1 /\ Pool!CloseEnds
    \/ what = "proceed" /\ i \in 1..3 /\ get[i].pc = "closing" /\ Pool!Acquire(i)
    \/ what = "commit" /\ i \in 1..2 /\ LET t == <<"chromium", "firefox">>[i]
          IN Pool!OldClosed(t) \/ Pool!Launched(t) \/ Pool!LaunchFails(t) \/ Pool!Evicted(t)

ProviderTurn(what, i) ==
    i \in 1..2 /\ \/ what = "timeout" /\ Provider!Cancel(i)
                  \/ /\ what = "proceed"
                     /\ Provider!Reserve(i) \/ Provider!Attempt(i) \/ Provider!CheckScope(i)

Turn(what, i) ==
    /\ UNCHANGED part
    /\ CASE part = "rotation" -> RotationTurn(what, i)
         [] part = "shell" -> ShellTurn(what, i)
         [] part = "code" -> CodeTurn(what, i)
         [] part = "pool" -> PoolTurn(what, i)
         [] part = "provider" -> ProviderTurn(what, i)
         [] part = "host" ->
              \/ what = "proceed" /\ i \in 1..2 /\ Host!Continue(i)
              \/ what = "end" /\ i \in 1..2 /\ Host!RequestEnds(i)
              \/ what = "timeout" /\ i \in 1..2 /\ Host!TerminateTimeout(i)
         [] part = "central" -> what = "proceed" /\ i \in 1..2 /\ Central!Serve(i)
         [] part = "searches" -> what = "proceed" /\ i \in 1..2 /\ Searches!Engine(i)
         [] part = "pages" -> \/ what = "proceed" /\ i \in 1..2 /\ Extraction!Extract(i)
                              \/ what = "end" /\ i = 1 /\ Extraction!Answer
         [] part = "cdp" -> \/ what = "end" /\ i = 1 /\ Cdp!OpenFails
                            \/ what = "timeout" /\ i \in 1..2 /\ Cdp!Timeout(i)
                            \/ what = "timeout" /\ i = 3 /\ Cdp!WaitTimeout(i)
         [] part = "frames" -> \/ what = "proceed" /\ i = 1 /\ Frames!Show(1)
                               \/ what = "receive" /\ i = 1 /\ Frames!FrameAck(1)
         [] part = "runner" -> \/ what = "proceed" /\ i = 1 /\ Runner!Acquire
                               \/ what = "end" /\ i \in 1..3 /\ Runner!CloseRunner(i)
                               \/ what = "timeout" /\ i \in 1..3 /\ Runner!Timeout(i)
         [] part = "relay" -> \/ what = "proceed" /\ i = 1 /\ Relay!Ask
                              \/ what = "timeout" /\ i = 1 /\ Relay!Timeout
         [] part = "imap" -> what = "proceed" /\ i = 1 /\ Imap!Next
         [] part = "tabs" -> what = "proceed" /\ i \in 1..2 /\ Tabs!Step(i)
         [] part = "drive" -> what = "proceed" /\ i = 1 /\ Drive!Adapter

\* What waits for a lock or a place is served in the end when it is free again
\* and again: the gate's channel, the prepare lock and the limiters are queues.
Place(i) ==
    /\ UNCHANGED part
    /\ \/ part = "central" /\ Central!Enter(i)
       \/ part = "code" /\ i = 1 /\ Code!Prepare(i)
       \/ part = "searches" /\ Searches!Begin(i)
       \/ part = "pages" /\ Extraction!OpenContext(i)

\* What may change: the variables of the component exercised.
active ==
    CASE part \in {"code", "searches", "pages"} -> <<v1, v2, v3, v4>>
      [] part \in {"shell", "pool"} -> <<v1, v2, v3, v4, v5, v6>>
      [] part = "rotation" -> <<v1, v2, v3, v4, v5, v6, v7>>
      [] part \in {"cdp", "provider", "imap", "drive"} ->
             <<v1, v2, v3, v4, v5, v6, v7, v8, v9>>
      [] part \in {"host", "frames", "relay"} ->
             <<v1, v2, v3, v4, v5, v6, v7, v8, v9, v10>>
      [] part = "central" -> <<v1, v2, v3, v4, v5, v6, v7, v8, v9, v10, v11, v12>>
      [] part = "runner" -> <<v1, v2, v3, v4, v5, v6, v7, v8, v9, v10, v11, v12, v13>>
      [] part = "tabs" -> vars

Kinds == {"proceed", "end", "timeout", "save", "commit", "receive", "recover", "send"}

Spec ==
    /\ Init /\ [][Next]_vars
    /\ \A what \in Kinds : \A i \in 1..4 : WF_active(Turn(what, i))
    /\ \A i \in 1..2 : SF_active(Place(i))

-----------------------------------------------------------------------------
\* The i-th caller of the component exercised has called and has no end yet.
Unfinished(i) ==
    \/ part = "central" /\ i \in 1..2 /\ reqs[i].at # "idle"
    \/ part = "host" /\ i \in 1..2 /\ pc[i] \notin {"idle"} \cup Host!Ended
    \/ part = "shell" /\ i = 1 /\ job[i].call = "wait"
    \/ part = "shell" /\ i = 3 /\ kill[3].job # nobody /\ ~kill[3].done
    \/ part = "shell" /\ i = 4 /\ stop.whom # nobody /\ ~stop.done
    \/ part = "code" /\ i = 1 /\ run[i].pc \notin {"idle"} \cup Code!Ended
    \/ part = "pool" /\ i \in 1..3 /\ get[i].pc \in {"closing", "launch"}
    \/ part = "searches" /\ i \in 1..2 /\ search[i].pc \in {"queued"} \cup Searches!Inside
    \/ part = "pages" /\ i = 1 /\ ~answered
    \/ part = "cdp" /\ i \in 1..2 /\ i \in Cdp!Pending
    \/ part = "cdp" /\ i = 3 /\ i \in Cdp!Waiting
    \/ part = "cdp" /\ i = 4 /\ connected = "waiting"
    \/ part = "frames" /\ i = 1 /\ viewer[1] = "open" /\ state[1].latest # 0 /\ withheld[1] = 0
    \/ part = "runner" /\ i \in 1..3 /\ call[i] \notin {"none"} \cup Runner!Outcomes
    \/ part = "provider" /\ i \in 1..2 /\ attempt[i].at \in Provider!Running
    \/ part = "relay" /\ i = 1 /\ client = "asking" /\ ~Relay!HungUp
    \/ part = "relay" /\ i = 2 /\ client = "refused" /\ upstream = "open"
    \/ part = "imap" /\ i = 1 /\ Imap!Fits(stream)
         /\ (err = "none" \/ Len(got) # Imap!Total(stream))
    \/ part = "tabs" /\ i \in 1..2 /\ calls[i].at # "idle"
    \/ part = "drive" /\ i = 1 /\ result = "none"

\* Every call ends: a request at central execution, a start or a stop of the host
\* bridge, a shell job in the foreground, a kill and a stop, a run of the executor,
\* an acquisition of a browser, a search, an extraction, a CDP command, wait and
\* open, a viewer's first frame, a call of the runner, a provider call, a proxied
\* request, an IMAP response, a call of the tabs and an upload all come to an end
\* - whatever times out, crashes or never answers - and a host that opens the
\* group's credential in the end opens the last one.
CallsEnd ==
    /\ \A i \in 1..4 : Unfinished(i) ~> ~Unfinished(i)
    /\ \A m \in 1..2 : <>[](part = "rotation" => Rotation!UpToDate(m))
=============================================================================

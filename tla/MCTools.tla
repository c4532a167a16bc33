------------------------------ MODULE MCTools -------------------------------
(***************************************************************************)
(* The components that serve tools on the user's machine: the desktop's    *)
(* host bridge, the shell, the code executor, the web search, and the      *)
(* sidecar's connections to Chrome, to its viewers and to proxies.  They   *)
(* share no state, so a behaviour exercises one of them: `part`, chosen at *)
(* the start, says which, and the others stay as they began.               *)
(***************************************************************************)
EXTENDS Integers, Sequences, FiniteSets, TLC

CONSTANTS
    a1, a2, b1, b2,     \* interchangeable calls, jobs, runs, accounts
    nobody,
    Starts, Stops, Invokes,                             \* the host bridge's calls
    Jobs, Principals, Kills, Buffer, MaxBytes,          \* the shell's
    Followed, FollowedBuffer, FollowedBytes,            \* and of a shell that is followed
    Runs, Boxes, Backend,                               \* the code executor's
    BrowserTypes, Gets, MaxBrowsers, MaxLaunches, MaxCloses,    \* the pool's
    Searches, MaxRequests, SearchPlaces, Interval, MaxClock, CheckQuality,
    Pages, PagePlaces, MaxRedirects                     \* the extraction's

VARIABLES
    part,
    lifecycle, child, proc, retiring, pending, sentTo, inbox, pc, revision, waits,
    job, output, seen, kill, stop, told,
    exec, box, run, felt,
    browsers, launches, closing, index, get, browser,
    clock, limiter, search, found,
    page, sent, reached, answered,
    ws, closed, connected, command, wait, listeners, handlers, chrome, answers,
    alive, opened, attached, casting, toChrome, outbox, handler, session, target,
    viewer, state, wire, acks, withheld, resumed, painted, credit, finished, statuses,
    kind, proxy, stage, client, upstream, timed, pieces, early, up, down

\* Two starts that may overtake each other, a stop between, and a call.
Host == INSTANCE HostBridge WITH None <- nobody

\* Two jobs of one account or of two, a kill, and a release or a close; or one job
\* that writes more than its buffer holds.
Shell(js, size, bytes) == INSTANCE ShellJobs WITH
    Jobs <- js, Buffer <- size, MaxBytes <- bytes, Nobody <- nobody

\* Two runs, and containers enough for each to ask for one and another again.
Code == INSTANCE CodeExecutor WITH Nobody <- nobody

\* The types of browser, in some order.
TypeList == CHOOSE l \in [1 .. Cardinality(BrowserTypes) -> BrowserTypes] :
              \A i, j \in DOMAIN l : l[i] = l[j] => i = j

\* Four acquisitions of the two types of browser, with room for both.
Pool == INSTANCE BrowserPool

\* Two searches that share the limiter and one place, in either mode.
Search(m) == INSTANCE WebSearches WITH Places <- SearchPlaces, ForceMulti <- m

\* Two pages for one place in the browser, with one redirect allowed.
Extraction == INSTANCE PageExtraction WITH Places <- PagePlaces

\* A connection to Chrome with the calls, sessions and bounds in b; two commands and two
\* waits over two sessions.
Connection(b) == INSTANCE CdpConnection WITH Commands <- b.commands, Waits <- b.waits,
                   Sessions <- b.sessions, SessionOf <- b.session, browser <- chrome
Requests == [commands |-> {"c1", "c2"}, waits |-> {"w1", "w2"}, sessions |-> {"s1", "s2"},
             session |-> [x \in {"c1", "c2", "w1", "w2"} |-> IF x \in {"c1", "w1"} THEN "s1" ELSE "s2"]]

\* A live view with the pages and handlers in b; a first page and two popups, and events
\* that have up to three handlers of their own.
View(b) == INSTANCE LiveView WITH MaxPages <- b.pages, Handlers <- b.handlers, None <- nobody,
             Blink <- FALSE, inbox <- toChrome
Popups == [pages |-> 3, handlers |-> {"h1", "h2", "h3", "h4"}]

\* Its viewers; one who may join late, fall silent or leave, since no record of a viewer
\* bears on another.
Frames(b) == INSTANCE LiveFrames WITH Viewers <- b.viewers, InFlight <- b.inFlight,
               MaxFrames <- b.frames
Watching == [viewers |-> {"viewer"}, inFlight |-> 2, frames |-> 6]

\* A proxied connection; one of either kind over each of the upstreams.
Relay(b) == INSTANCE ProxyRelay WITH MaxBytes <- b.bytes, MaxReply <- b.reply
Tunnel == [bytes |-> 2, reply |-> 2]

ASSUME ToolsAssumption ==
    /\ Host!CallsAssumption /\ Shell(Jobs, Buffer, MaxBytes)!BoundsAssumption
    /\ Shell(Followed, FollowedBuffer, FollowedBytes)!BoundsAssumption
    /\ Code!BackendAssumption /\ Pool!PoolAssumption
    /\ Search(FALSE)!SearchAssumption /\ Search(TRUE)!SearchAssumption /\ Extraction!ExtractionAssumption
    /\ Connection(Requests)!SessionAssumption /\ View(Popups)!ViewAssumption
    /\ Frames(Watching)!InFlightAssumption /\ Relay(Tunnel)!BoundsAssumption

host == <<lifecycle, child, proc, retiring, pending, sentTo, inbox, pc, revision, waits>>
shell == <<job, output, seen, kill, stop, told>>
code == <<exec, box, run, felt>>
pool == <<browsers, launches, closing, index, get, browser>>
searches == <<clock, limiter, search, found>>
pages == <<page, sent, reached, answered>>
cdp == <<ws, closed, connected, command, wait, listeners, handlers, chrome, answers>>
view == <<alive, opened, attached, casting, toChrome, outbox, handler, session, target>>
frames == <<viewer, state, wire, acks, withheld, resumed, painted, credit, finished, statuses>>
relay == <<kind, proxy, stage, client, upstream, timed, pieces, early, up, down>>
vars == <<part, host, shell, code, pool, searches, pages, cdp, view, frames, relay>>

Parts == {"host", "jobs", "reader", "code", "pool", "search", "forced", "pages",
          "connection", "view", "frames", "relay"}

Init ==
    /\ part \in Parts
    /\ Host!Init /\ Code!Init /\ Pool!Init /\ Extraction!Init
    /\ IF part = "reader" THEN Shell(Followed, FollowedBuffer, FollowedBytes)!Init
       ELSE Shell(Jobs, Buffer, MaxBytes)!Init
    /\ IF part = "forced" THEN Search(TRUE)!Init ELSE Search(FALSE)!Init
    /\ Connection(Requests)!Init /\ View(Popups)!Init /\ Frames(Watching)!Init
    /\ Relay(Tunnel)!Init /\ (part # "relay" => kind = "connect" /\ proxy = "http")

HostStep ==
    /\ part = "host" /\ Host!Next
    /\ UNCHANGED <<part, shell, code, pool, searches, pages, cdp, view, frames, relay>>

ShellStep ==
    /\ \/ part = "jobs" /\ Shell(Jobs, Buffer, MaxBytes)!Next
       \/ part = "reader" /\ Shell(Followed, FollowedBuffer, FollowedBytes)!Next
    /\ UNCHANGED <<part, host, code, pool, searches, pages, cdp, view, frames, relay>>

CodeStep ==
    /\ part = "code" /\ Code!Next
    /\ UNCHANGED <<part, host, shell, pool, searches, pages, cdp, view, frames, relay>>

PoolStep ==
    /\ part = "pool" /\ Pool!Next
    /\ UNCHANGED <<part, host, shell, code, searches, pages, cdp, view, frames, relay>>

SearchStep ==
    /\ \/ part = "search" /\ Search(FALSE)!Next
       \/ part = "forced" /\ Search(TRUE)!Next
    /\ UNCHANGED <<part, host, shell, code, pool, pages, cdp, view, frames, relay>>

PagesStep ==
    /\ part = "pages" /\ Extraction!Next
    /\ UNCHANGED <<part, host, shell, code, pool, searches, cdp, view, frames, relay>>

ConnectionStep ==
    /\ part = "connection" /\ Connection(Requests)!Next
    /\ UNCHANGED <<part, host, shell, code, pool, searches, pages, view, frames, relay>>

ViewStep ==
    /\ part = "view" /\ View(Popups)!Next
    /\ UNCHANGED <<part, host, shell, code, pool, searches, pages, cdp, frames, relay>>

FramesStep ==
    /\ part = "frames" /\ Frames(Watching)!Next
    /\ UNCHANGED <<part, host, shell, code, pool, searches, pages, cdp, view, relay>>

RelayStep ==
    /\ part = "relay" /\ Relay(Tunnel)!Next
    /\ UNCHANGED <<part, host, shell, code, pool, searches, pages, cdp, view, frames>>

Next ==
    \/ HostStep \/ ShellStep \/ CodeStep \/ PoolStep \/ SearchStep \/ PagesStep
    \/ ConnectionStep \/ ViewStep \/ FramesStep \/ RelayStep

Spec == Init /\ [][Next]_vars

Symmetry == Permutations({a1, a2}) \cup Permutations({b1, b2})

-----------------------------------------------------------------------------
\* The desktop's host bridge, however starts and stops overtake each other: two
\* helpers never live at once, none is left behind, a request waits only for the
\* current helper, and when a stop has returned no earlier start may still spawn.
HostSafe == part = "host" =>
    /\ Host!TypeOK /\ Host!OneHelper /\ Host!NoHelperLeftBehind
    /\ Host!PendingAtCurrentHelper /\ Host!StopHolds

\* The shell: what shell_completed announces is final and said once, shell_kill
\* answers for a process that has ended, a release or a close leaves nothing of the
\* jobs it found, a foreground command leaves no process behind, and who follows a
\* job sees its output once and whole, but for what the full buffer dropped.
ShellSafe ==
    /\ part = "jobs" => /\ Shell(Jobs, Buffer, MaxBytes)!AnnouncedOnceAndFinal
                        /\ Shell(Jobs, Buffer, MaxBytes)!KillIsFinal
                        /\ Shell(Jobs, Buffer, MaxBytes)!StoppedJobsAreOver
                        /\ Shell(Jobs, Buffer, MaxBytes)!ForegroundLeavesNothing
    /\ part = "reader" => /\ Shell(Followed, FollowedBuffer, FollowedBytes)!TypeOK
                          /\ Shell(Followed, FollowedBuffer, FollowedBytes)!ReadWhole

\* The code executor: every container that exists is one it will remove, is being
\* made or was given up under its label; no code runs after close has returned; and
\* a run whose kill found its pid file ends with its code gone.
CodeSafe == part = "code" =>
    /\ Code!TypeOK /\ Code!ContainersAreOwned /\ Code!NothingRunsAfterClose
    /\ Code!ReachedCodeIsOver

\* The web search: every browser that runs is one closeAll will find, one per type;
\* a later engine never displaces a better answer and no attempt leaves a browser;
\* an extraction itself requests only destinations it checked, redirects included,
\* a bounded number of times, of its pages' own requests the navigations and the first
\* URLs are checked, though no redirect of a sub-resource; and it releases its contexts.
SearchesSafe ==
    /\ part = "pool" => Pool!TypeOK /\ Pool!EveryBrowserIsOwned /\ Pool!OneBrowserPerType
    /\ part = "search" => Search(FALSE)!TypeOK /\ Search(FALSE)!BestIsAnswered /\ Search(FALSE)!BrowsersEndWithAttempts
    /\ part = "forced" => Search(TRUE)!BestIsAnswered
    /\ part = "pages" => /\ Extraction!TypeOK /\ Extraction!OnlyCheckedRequests
                         /\ Extraction!RequestsAreBounded /\ Extraction!ContextsAreReleased

\* What was ended stays: when closeAll returns no browser comes up from before it,
\* a launch under way included; and after a refusal no redirect and no fallback
\* requests anything more.
SearchesFinal == Pool!CloseLeavesNothing /\ Extraction!RefusalIsFinal

\* The sidecar's connections: a CDP command gets its own result and a refused one
\* never runs, a close settles everyone, and exactly the open waits listen; a
\* proxied connection keeps its bytes in order and leaves an upstream only in the
\* cases of a reset; the live view shows the newest page that lives, from that
\* page's own session, and its frames are bounded, in order, held back only by
\* acknowledgements that are due, and end with one status.
ConnectionsSafe ==
    /\ part = "connection" =>
         /\ Connection(Requests)!TypeOK /\ Connection(Requests)!ResultsAreOwn
         /\ Connection(Requests)!RefusedNeverRuns /\ Connection(Requests)!ClosedSettlesAll
         /\ Connection(Requests)!ListenersAreOpenWaits
    /\ part = "relay" => /\ Relay(Tunnel)!TypeOK /\ Relay(Tunnel)!BytesInOrder
                         /\ Relay(Tunnel)!OrphansOnlyOfResets
    /\ part = "view" => /\ View(Popups)!TypeOK /\ View(Popups)!SessionIsOfTarget
                        /\ View(Popups)!ShowsLivingPage /\ View(Popups)!ShowsNewestPage
    /\ part = "frames" => /\ Frames(Watching)!TypeOK /\ Frames(Watching)!FramesBounded
                          /\ Frames(Watching)!FramesInOrder /\ Frames(Watching)!WaitsForAcks
                          /\ Frames(Watching)!EndsOnce
=============================================================================

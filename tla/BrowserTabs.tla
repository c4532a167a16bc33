---------------------------- MODULE BrowserTabs -----------------------------
(***************************************************************************)
(* BrowserController of the browser sidecar (host/mcp-server.js): one      *)
(* connection to one dedicated browser, numbers for its pages, a session   *)
(* per page and the tools that use them, shared by all agents.  Tools are  *)
(* cut at their awaits.  An event of the browser and its handlers are one  *)
(* step.  The pause for a human is in HumanControl, the protocol           *)
(* connection itself in CdpConnection.                                     *)
(* External: the browser, its pages, and the launch (host/browser.js).     *)
(***************************************************************************)
EXTENDS Naturals, FiniteSets

CONSTANTS Calls, Targets,
          None,
          MaxTabs,          \* bound on tab numbers
          MaxBrowsers,      \* browsers alive or remembered at once
          MaxConnections,   \* connections open or remembered at once
          MaxSessions,      \* sessions alive or remembered at once
          MaxInstalls       \* bound on installed extensions

BrowserTabsAssumption ==
    /\ {MaxTabs, MaxBrowsers, MaxConnections, MaxSessions, MaxInstalls} \subseteq Nat
    /\ None \notin Calls \union Targets /\ IsFiniteSet(Targets)

VARIABLES
    browser,     \* the process on the profile, 0 when there is none
    loaded,      \* how many installed extensions it was launched with
    dying,       \* it was asked to close
    living,      \* its pages
    born,        \* target ids used so far
    conns,       \* the browser each connection is open to, or 0
    subscribed,  \* connections whose events the controller handles
    cdp,         \* this.cdp, 0 for null
    ownPid,      \* this.browserPid when ownsBrowser, else 0
    ensuring,    \* the call that runs this._ensuring
    nextTabId,
    tabOf,       \* intByTarget, and its inverse targetById; 0 when absent
    sessions,    \* this.sessions, 0 when absent
    attaching,   \* this.attaching
    session,     \* what each session id stands for
    calls,
    installed,   \* extensions installed so far
    named,       \* history: the page each tab number was given to
    astray,      \* history: tab numbers for which another page was pressed
    stuck,       \* history: calls that left a button pressed
    unloaded     \* history: installs answered on a browser launched before them

vars == <<browser, loaded, dying, living, born, conns, subscribed, cdp, ownPid, ensuring,
          nextTabId, tabOf, sessions, attaching, session, calls, installed,
          named, astray, stuck, unloaded>>

chrome == <<browser, loaded, dying, living, born>>
link == <<conns, subscribed, cdp, ownPid, ensuring>>
tabs == <<nextTabId, tabOf, named>>
held == <<sessions, attaching, session>>
history == <<astray, stuck, unloaded>>

Tabs == 1..MaxTabs
Connections == 1..MaxConnections
Sessions == 1..MaxSessions
Idle == [kind |-> "none", at |-> "idle", tab |-> 0, target |-> None, conn |-> 0,
         sess |-> 0, pid |-> 0, ext |-> 0, aborted |-> FALSE]
NoSession == [target |-> None, conn |-> 0, live |-> FALSE]

Init ==
    /\ browser = 0 /\ loaded = 0 /\ dying = FALSE /\ living = {} /\ born = {}
    /\ conns = [m \in Connections |-> 0] /\ subscribed = {}
    /\ cdp = 0 /\ ownPid = 0 /\ ensuring = None
    /\ nextTabId = 1 /\ tabOf = [t \in Targets |-> 0]
    /\ sessions = [t \in Targets |-> 0] /\ attaching = [t \in Targets |-> None]
    /\ session = [s \in Sessions |-> NoSession]
    /\ calls = [c \in Calls |-> Idle] /\ installed = 0
    /\ named = [n \in Tabs |-> None]
    /\ astray = {} /\ stuck = {} /\ unloaded = {}

Goes(c, at) == calls' = [calls EXCEPT ![c].at = at]
Ends(c) == calls' = [calls EXCEPT ![c] = Idle]
At(c, at) == calls[c].at = at

FreeConnections == {m \in Connections : conns[m] = 0 /\ cdp # m
    /\ (\A c \in Calls : calls[c].conn # m) /\ (\A s \in Sessions : session[s].conn # m)}
FreeSessions == {s \in Sessions : ~session[s].live
    /\ (\A t \in Targets : sessions[t] # s) /\ (\A c \in Calls : calls[c].sess # s)}
FreeBrowsers == {b \in 1..MaxBrowsers : browser # b /\ ownPid # b
    /\ (\A m \in Connections : conns[m] # b) /\ (\A c \in Calls : calls[c].pid # b)}

-----------------------------------------------------------------------------
(* Connections and sessions end *)

\* the sessions of the connections in ms, and those of the pages in ts, are dead
Dead(ms, ts) == [s \in Sessions |->
    IF session[s].conn \in ms \/ session[s].target \in ts
    THEN [session[s] EXCEPT !.live = FALSE, !.conn = IF @ \in ms THEN 0 ELSE @]
    ELSE session[s]]

\* onClose of the connections in ms: only the current one clears the controller
Close(ms) ==
    /\ conns' = [m \in Connections |-> IF m \in ms THEN 0 ELSE conns[m]]
    /\ subscribed' = subscribed \ ms
    /\ session' = Dead(ms, {})
    /\ cdp' = IF cdp \in ms THEN 0 ELSE cdp
    /\ sessions' = IF cdp \in ms THEN [t \in Targets |-> 0] ELSE sessions

ConnectionLost(m) ==
    /\ conns[m] # 0
    /\ Close({m})
    /\ UNCHANGED <<chrome, ownPid, ensuring, tabs, attaching, calls, installed, history>>

\* the process is gone, by itself or by killGroup
Exit ==
    /\ browser' = 0 /\ dying' = FALSE /\ living' = {}
    /\ Close({m \in Connections : conns[m] = browser})

BrowserExits ==
    /\ browser # 0
    /\ Exit
    /\ UNCHANGED <<loaded, born, ownPid, ensuring, tabs, attaching, calls, installed, history>>

-----------------------------------------------------------------------------
(* Pages and their events *)

\* _intForTarget for the pages in ts, in any order
Number(ts, old) ==
    LET new == {t \in ts : tabOf[t] = 0}
        count == Cardinality(new)
    IN /\ nextTabId + count <= MaxTabs + 1
       /\ \E f \in [new -> nextTabId..(nextTabId + count - 1)] :
             /\ \A x, y \in new : x # y => f[x] # f[y]
             /\ tabOf' = [t \in Targets |-> IF t \in new THEN f[t]
                                            ELSE IF t \in old THEN 0 ELSE tabOf[t]]
             /\ named' = [n \in Tabs |-> IF named[n] = None /\ \E t \in new : f[t] = n
                                         THEN CHOOSE t \in new : f[t] = n ELSE named[n]]
       /\ nextTabId' = nextTabId + count

\* somebody handles the events of the browser
Heard == \E m \in subscribed : conns[m] = browser

\* Target.targetCreated
PageOpens(t) ==
    /\ browser # 0 /\ t \notin born
    /\ living' = living \union {t} /\ born' = born \union {t}
    /\ IF Heard THEN Number({t}, {}) ELSE UNCHANGED tabs
    /\ UNCHANGED <<browser, loaded, dying, link, held, calls, installed, history>>

\* Target.targetDestroyed and the detachment of the page's sessions
PageCloses(t) ==
    /\ t \in living
    /\ living' = living \ {t} /\ session' = Dead({}, {t})
    /\ tabOf' = [tabOf EXCEPT ![t] = IF Heard THEN 0 ELSE @]
    /\ sessions' = [sessions EXCEPT ![t] = IF Heard THEN 0 ELSE @]
    /\ UNCHANGED <<browser, loaded, dying, born, link, nextTabId, named, attaching,
                   calls, installed, history>>

\* Target.detachedFromTarget alone: the page crashed or let the session go
SessionDetaches(s) ==
    /\ session[s].live
    /\ session' = [session EXCEPT ![s].live = FALSE]
    /\ sessions' = [t \in Targets |->
          IF sessions[t] = s /\ session[s].conn \in subscribed THEN 0 ELSE sessions[t]]
    /\ UNCHANGED <<chrome, link, tabs, attaching, calls, installed, history>>

\* syncTargets: the pages there are get numbers, the others lose theirs
Sync ==
    /\ cdp # 0 /\ conns[cdp] = browser
    /\ Number(living, Targets \ living)
    /\ sessions' = [t \in Targets |->
          IF tabOf[t] # 0 /\ t \notin living THEN 0 ELSE sessions[t]]

-----------------------------------------------------------------------------
(* ensure *)

\* callTool, then ensure: there is a connection, it is being made, or c makes it
Call(c, kind, n) ==
    /\ calls[c] = Idle
    /\ kind = "click" => named[n] # None
    /\ kind = "install" => installed < MaxInstalls
    /\ calls' = [calls EXCEPT ![c] = [Idle EXCEPT
          !.kind = kind, !.tab = IF kind = "click" THEN n ELSE 0,
          !.at = IF cdp # 0 THEN "handler"
                 ELSE IF ensuring # None THEN "joining" ELSE "launching"]]
    /\ ensuring' = IF cdp = 0 /\ ensuring = None THEN c ELSE ensuring
    /\ UNCHANGED <<chrome, conns, subscribed, cdp, ownPid, tabs, held, installed, history>>

\* ensureBrowser reuses the profile's endpoint or launches; cdp.connect()
Launched(c) ==
    /\ At(c, "launching")
    /\ \E m \in FreeConnections :
          /\ \/ /\ browser # 0 /\ ownPid' = 0
                /\ UNCHANGED <<browser, loaded, dying, living, born>>
             \/ /\ browser = 0
                /\ \E b \in FreeBrowsers, t \in Targets \ born :
                      /\ browser' = b /\ ownPid' = b /\ living' = {t}
                      /\ born' = born \union {t}
                /\ loaded' = installed /\ dying' = FALSE
          /\ conns' = [conns EXCEPT ![m] = browser'] /\ cdp' = m
          /\ calls' = [calls EXCEPT ![c].at = "discovering", ![c].conn = m]
    /\ UNCHANGED <<subscribed, ensuring, tabs, held, installed, history>>

\* Target.setDiscoverTargets is answered: only now are the handlers registered
Discovered(c) ==
    /\ At(c, "discovering") /\ conns[calls[c].conn] # 0
    /\ subscribed' = subscribed \union {calls[c].conn}
    /\ Goes(c, "syncing")
    /\ UNCHANGED <<chrome, conns, cdp, ownPid, ensuring, tabs, held, installed, history>>

\* the end of ensure for the caller that ran it and those that joined it
Ensured(c, at) == calls' = [d \in Calls |->
    IF d = c \/ At(d, "joining")
    THEN IF at = "idle" THEN Idle ELSE [calls[d] EXCEPT !.at = at, !.conn = 0]
    ELSE calls[d]]

Ready(c) ==
    /\ At(c, "syncing") /\ Sync
    /\ ensuring' = None /\ Ensured(c, "handler")
    /\ UNCHANGED <<chrome, conns, subscribed, cdp, ownPid, attaching, session, installed, history>>

\* no browser, no answer in time, or the connection closed: the error reaches
\* every caller; this.cdp keeps what it has
EnsureFails(c) ==
    /\ calls[c].at \in {"launching", "discovering", "syncing"}
    /\ ensuring' = None /\ Ensured(c, "idle")
    /\ UNCHANGED <<chrome, conns, subscribed, cdp, ownPid, tabs, held, installed, history>>

-----------------------------------------------------------------------------
(* Tools that use tabs *)

\* tabs_context_mcp
ListTabs(c) ==
    /\ At(c, "handler") /\ calls[c].kind = "list"
    /\ Sync /\ Ends(c)
    /\ UNCHANGED <<chrome, link, attaching, session, installed, history>>

\* an error or an abort at an await that holds nothing
CallFails(c) ==
    /\ calls[c].at \in {"handler", "resync", "ready"}
    /\ calls[c].kind # "installed"
    /\ Ends(c)
    /\ UNCHANGED <<chrome, link, tabs, held, installed, history>>

Named(n) == {t \in Targets : tabOf[t] = n}

\* ensureAttached: a number nobody knows is looked up again first
UnknownTab(c) ==
    /\ At(c, "handler") /\ calls[c].kind = "click" /\ Named(calls[c].tab) = {}
    /\ Goes(c, "resync")
    /\ UNCHANGED <<chrome, link, tabs, held, installed, history>>

Resync(c) ==
    /\ At(c, "resync") /\ Sync
    /\ IF \E t \in Targets : tabOf'[t] = calls[c].tab THEN Goes(c, "handler") ELSE Ends(c)
    /\ UNCHANGED <<chrome, link, attaching, session, installed, history>>

\* ensureAttached: joins the attachment under way, uses the session there is,
\* or attaches
EnsureAttached(c) ==
    /\ At(c, "handler") /\ calls[c].kind = "click"
    /\ \E t \in Named(calls[c].tab) :
          \/ /\ attaching[t] # None
             /\ calls' = [calls EXCEPT ![c].at = "waiting", ![c].target = t]
             /\ UNCHANGED attaching
          \/ /\ attaching[t] = None /\ sessions[t] # 0
             /\ calls' = [calls EXCEPT ![c].at = "ready", ![c].target = t,
                                       ![c].sess = sessions[t]]
             /\ UNCHANGED attaching
          \/ /\ attaching[t] = None /\ sessions[t] = 0
             /\ attaching' = [attaching EXCEPT ![t] = c]
             /\ calls' = [calls EXCEPT ![c].at = "attaching", ![c].target = t,
                                       ![c].conn = cdp]
    /\ UNCHANGED <<chrome, link, tabs, sessions, session, installed, history>>

\* Target.attachToTarget is answered, by the connection it was sent on
Attached(c) ==
    LET m == calls[c].conn
        t == calls[c].target
    IN /\ At(c, "attaching") /\ m # 0 /\ conns[m] = browser /\ t \in living
       /\ cdp = m /\ tabOf[t] # 0
       /\ \E s \in FreeSessions :
             /\ session' = [session EXCEPT ![s] = [target |-> t, conn |-> m, live |-> TRUE]]
             /\ sessions' = [sessions EXCEPT ![t] = s]
             /\ calls' = [calls EXCEPT ![c].at = "setup", ![c].sess = s]
       /\ UNCHANGED <<chrome, link, tabs, attaching, installed, history>>

\* those who awaited the attachment of t get its session, or its error
AttachEnds(c, s) ==
    LET t == calls[c].target IN
    /\ attaching' = [attaching EXCEPT ![t] = None]
    /\ calls' = [d \in Calls |->
          IF d = c \/ (At(d, "waiting") /\ calls[d].target = t)
          THEN IF s = 0 THEN Idle
               ELSE [calls[d] EXCEPT !.at = "ready", !.conn = 0, !.target = t, !.sess = s]
          ELSE calls[d]]

\* the domains are enabled and the page script is in: attachTarget's last test
SetUp(c) ==
    /\ At(c, "setup")
    /\ cdp = calls[c].conn /\ sessions[calls[c].target] = calls[c].sess
    /\ AttachEnds(c, calls[c].sess)
    /\ UNCHANGED <<chrome, link, tabs, sessions, session, installed, history>>

\* no answer, a refusal, or the target or connection changed meanwhile; what
\* the browser attached is left to it
AttachFails(c) ==
    /\ calls[c].at \in {"attaching", "setup"}
    /\ sessions' = [t \in Targets |->
          IF calls[c].sess # 0 /\ sessions[t] = calls[c].sess THEN 0 ELSE sessions[t]]
    /\ AttachEnds(c, 0)
    /\ UNCHANGED <<chrome, link, tabs, session, installed, history>>

\* what send() demands of the session a tool holds
Current(c) ==
    /\ cdp # 0 /\ session[calls[c].sess].conn = cdp
    /\ sessions[calls[c].target] = calls[c].sess

\* mouseClick: the press goes out; whatever becomes of it, finally comes next
Press(c) ==
    /\ At(c, "ready") /\ ~calls[c].aborted /\ Current(c)
    /\ astray' = IF named[calls[c].tab] = session[calls[c].sess].target THEN astray
                 ELSE astray \union {calls[c].tab}
    /\ Goes(c, "pressed")
    /\ UNCHANGED <<chrome, link, tabs, held, installed, stuck, unloaded>>

\* the host cancels the call
Abort(c) ==
    /\ calls[c].at \in {"ready", "pressed"} /\ ~calls[c].aborted
    /\ calls' = [calls EXCEPT ![c].aborted = TRUE]
    /\ UNCHANGED <<chrome, link, tabs, held, installed, history>>

Leaves(c, released) ==
    stuck' = IF ~released /\ session[calls[c].sess].live /\ session[calls[c].sess].conn = cdp
             THEN stuck \union {c} ELSE stuck

\* Faulty: the release is sent with the call's signal, and not at all once it is aborted.
ReleaseUnlessAborted(c) ==
    /\ At(c, "pressed")
    /\ Leaves(c, Current(c) /\ ~calls[c].aborted)
    /\ Ends(c)
    /\ UNCHANGED <<chrome, link, tabs, held, installed, astray, unloaded>>

\* finally: the release is sent without the call's signal
Release(c) ==
    /\ At(c, "pressed")
    /\ Leaves(c, Current(c))
    /\ Ends(c)
    /\ UNCHANGED <<chrome, link, tabs, held, installed, astray, unloaded>>

-----------------------------------------------------------------------------
(* install_extension, remove_extension *)

\* relaunch begins: closeDedicatedBrowser gets what the controller holds now
Relaunch(c) ==
    /\ At(c, "handler") /\ calls[c].kind = "install" /\ installed < MaxInstalls
    /\ installed' = installed + 1
    /\ dying' = (dying \/ cdp # 0)
    /\ calls' = [calls EXCEPT ![c].at = "closing", ![c].conn = cdp,
                              ![c].pid = ownPid, ![c].ext = installed + 1]
    /\ UNCHANGED <<browser, loaded, living, born, link, tabs, held, history>>

\* half a second later at most the connection is closed
CloseConnection(c) ==
    /\ At(c, "closing")
    /\ Close({calls[c].conn} \ {0})
    /\ calls' = [calls EXCEPT ![c].at = "killing", ![c].conn = 0]
    /\ UNCHANGED <<chrome, ownPid, ensuring, tabs, attaching, installed, history>>

\* a browser of our own is killed when its grace is over
Kill(c) ==
    /\ At(c, "killing")
    /\ calls' = [calls EXCEPT ![c].at = "polling", ![c].pid = 0]
    /\ IF calls[c].pid # 0 /\ calls[c].pid = browser THEN Exit
       ELSE UNCHANGED <<browser, dying, living, conns, subscribed, cdp, sessions, session>>
    /\ UNCHANGED <<loaded, born, ownPid, ensuring, tabs, attaching, installed, history>>

\* the endpoint is gone, or has been waited for: relaunch resets and ensures
Reset(c) ==
    /\ At(c, "polling")
    /\ cdp' = 0 /\ ownPid' = 0
    /\ sessions' = [t \in Targets |-> 0] /\ tabOf' = [t \in Targets |-> 0]
    /\ ensuring' = IF ensuring = None THEN c ELSE ensuring
    /\ calls' = [calls EXCEPT ![c].kind = "installed",
                              ![c].at = IF ensuring = None THEN "launching" ELSE "joining"]
    /\ UNCHANGED <<chrome, conns, subscribed, nextTabId, named, attaching, session,
                   installed, history>>

\* "Installed ... and restarted the browser to load it"
Installed(c) ==
    /\ At(c, "handler") /\ calls[c].kind = "installed"
    /\ unloaded' = IF browser # 0 /\ loaded < calls[c].ext
                   THEN unloaded \union {calls[c].ext} ELSE unloaded
    /\ Ends(c)
    /\ UNCHANGED <<chrome, link, tabs, held, installed, astray, stuck>>

-----------------------------------------------------------------------------
Step(c) ==
    \/ Launched(c) \/ Discovered(c) \/ Ready(c) \/ EnsureFails(c)
    \/ ListTabs(c) \/ CallFails(c) \/ UnknownTab(c) \/ Resync(c) \/ EnsureAttached(c)
    \/ Attached(c) \/ SetUp(c) \/ AttachFails(c) \/ Press(c) \/ Release(c)
    \/ Relaunch(c) \/ CloseConnection(c) \/ Kill(c) \/ Reset(c) \/ Installed(c)

Next ==
    \/ \E c \in Calls : Step(c) \/ Abort(c)
    \/ \E c \in Calls, n \in Tabs : Call(c, "click", n)
    \/ \E c \in Calls, kind \in {"list", "install"} : Call(c, kind, 1)
    \/ \E t \in Targets : PageOpens(t) \/ PageCloses(t)
    \/ \E s \in Sessions : SessionDetaches(s)
    \/ \E m \in Connections : ConnectionLost(m)
    \/ BrowserExits

Spec == Init /\ [][Next]_vars

\* every step of a call ends: commands have deadlines, and so has the launch
FairSpec == Spec /\ \A c \in Calls : WF_vars(Step(c))

-----------------------------------------------------------------------------
(* Properties *)

\* Every variable keeps its type; numbers are unique among the pages.
TypeOK ==
    /\ browser \in 0..MaxBrowsers /\ loaded \in 0..MaxInstalls /\ dying \in BOOLEAN
    /\ living \subseteq born /\ born \subseteq Targets
    /\ conns \in [Connections -> 0..MaxBrowsers] /\ subscribed \subseteq Connections
    /\ cdp \in 0..MaxConnections /\ ownPid \in 0..MaxBrowsers
    /\ ensuring \in Calls \union {None}
    /\ nextTabId \in 1..MaxTabs + 1 /\ tabOf \in [Targets -> 0..MaxTabs]
    /\ \A t, u \in Targets : tabOf[t] = tabOf[u] /\ tabOf[t] # 0 => t = u
    /\ sessions \in [Targets -> 0..MaxSessions]
    /\ attaching \in [Targets -> Calls \union {None}]
    /\ session \in [Sessions -> [target : Targets \union {None}, conn : 0..MaxConnections,
                                 live : BOOLEAN]]
    /\ named \in [Tabs -> Targets \union {None}] /\ astray \subseteq Tabs /\ stuck \subseteq Calls
    /\ installed \in 0..MaxInstalls /\ unloaded \subseteq 1..MaxInstalls

\* A press a host sends for a tab number goes to the page that number was first
\* given to, also after relaunches, reconnections and closed tabs in between.
PressesReachTheirTab == astray = {}

\* Calls that use one page over one connection share its session: none of them
\* holds a live session that send() would refuse.
LiveSessionsAreShared ==
    \A c \in Calls : calls[c].at \in {"ready", "pressed"} =>
        LET s == calls[c].sess IN
        session[s].live /\ session[s].conn = cdp => sessions[calls[c].target] = s

\* A click leaves no button pressed on a page it could still reach, whatever
\* cancels it between press and release.
PressesAreReleased == stuck = {}

\* Every tool call ends: nobody waits for an ensure or an attachment for ever.
CallsEnd == \A c \in Calls : calls[c].at # "idle" ~> calls[c].at = "idle"

\* mcp-server.js: a tab that closes or crashes detaches its session - drop it so
\* the next tool call re-attaches cleanly instead of using a dead sessionId.
DeadSessionsAreDropped == ensuring = None =>
    \A t \in Targets : sessions[t] # 0 => session[sessions[t]].live

\* mcp-server.js: installed, and restarted the browser to load it.
InstalledIsLoaded == unloaded = {}
-----------------------------------------------------------------------------
(* What always holds, and why *)

CallType == [kind : {"none", "click", "list", "install", "installed"},
             at : {"idle", "joining", "launching", "discovering", "syncing", "handler",
                   "resync", "attaching", "setup", "waiting", "ready", "pressed",
                   "closing", "killing", "polling"},
             tab : 0..MaxTabs, target : Targets \union {None}, conn : 0..MaxConnections,
             sess : 0..MaxSessions, pid : 0..MaxBrowsers, ext : 0..MaxInstalls,
             aborted : BOOLEAN]

\* A number is given once, to the page that has it for as long as it has one.
NumbersAreOwn ==
    /\ \A t \in Targets : tabOf[t] # 0 => named[tabOf[t]] = t
    /\ \A n \in Tabs : named[n] # None => n < nextTabId

\* Pages are of a browser that runs, and connections to it; a session that lives
\* is of such a connection and page, and is only kept for its own page.
SessionsKnown ==
    /\ browser = 0 => living = {}
    /\ \A m \in Connections : conns[m] \in {0, browser}
    /\ \A s \in Sessions : session[s].live =>
          /\ session[s].conn # 0 /\ conns[session[s].conn] # 0
          /\ session[s].target \in living
    /\ \A t \in Targets : sessions[t] # 0 => session[sessions[t]].target = t

\* What a call that has come to x holds: its number's page, and a session of it.
CallKnown(c, x) ==
    /\ x.kind = "click" => x.tab # 0
    /\ x.kind = "installed" \/ x.at \in {"closing", "killing", "polling"} => x.ext # 0
    /\ x.at = "discovering" => x.conn # 0
    /\ x.at \in {"attaching", "setup", "waiting", "ready", "pressed"} =>
          x.tab # 0 /\ x.target # None /\ named[x.tab] = x.target
    /\ x.at \in {"attaching", "setup"} => attaching[x.target] = c
    /\ x.at = "attaching" => sessions[x.target] = 0
    /\ IF x.at \in {"setup", "ready", "pressed"}
       THEN x.sess # 0 /\ session[x.sess].target = x.target
       ELSE x.sess = 0

\* Until an attachment is over nobody else has its session.
SetUpAlone == \A c, d \in Calls :
    c # d /\ calls[c].at = "setup" => calls[d].sess # calls[c].sess

IInv ==
    /\ TypeOK /\ calls \in [Calls -> CallType]
    /\ NumbersAreOwn /\ SessionsKnown /\ SetUpAlone
    /\ \A c \in Calls : CallKnown(c, calls[c])
    /\ LiveSessionsAreShared /\ PressesReachTheirTab /\ PressesAreReleased
=============================================================================

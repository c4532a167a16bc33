----------------------------- MODULE MCSidecar ------------------------------
(***************************************************************************)
(* What the agent and the user do to one page at the same time: human      *)
(* control, which pauses the agent's calls and approves its requests, and  *)
(* the table of tabs, which shares pages, sessions and one browser among   *)
(* the agent's calls.  Each is checked against every behaviour of its      *)
(* surroundings, the other included, so a behaviour exercises one of them: *)
(* `part`, chosen at the start, says which, and the other stays as it      *)
(* began.                                                                  *)
(***************************************************************************)
EXTENDS Naturals, Sequences, FiniteSets, TLC

CONSTANTS
    Calls,                  \* interchangeable calls of tools
    Others,                 \* interchangeable pages, requests or nonces
    ClosesInOrder,          \* what playwright does with what it was asked to close
    nobody

VARIABLES
    part,
    now, humanControl, requests, usedApprovals, connection, connecting, open,
    watched, origin, calls, approvals, told, decided, survivors, intrusions, late, strayed,
    browser, loaded, dying, living, born, conns, subscribed, cdp, ownPid, ensuring,
    nextTabId, tabOf, sessions, attaching, session, tabCalls, installed,
    named, astray, stuck, unloaded

\* Human control with the parameters in p.
Human(p) == INSTANCE HumanControl WITH Requests <- p.requests, Nonces <- p.nonces,
              Origins <- p.origins, None <- nobody, TakeoverLife <- p.takeover,
              PermissionLife <- 1, ApprovalLife <- 1, MaxNow <- p.now,
              MaxConnections <- p.connections

\* Calls around takeovers, before anything expires.
Takeovers == [requests |-> Others, nonces |-> {"nonce"}, origins |-> {"o1"},
              takeover |-> 2, now |-> 0, connections |-> 2]

\* One request, decided by approvals of several nonces, while the clock goes on.
Decisions == [requests |-> {"request"}, nonces |-> Others, origins |-> {"o1", "o2"},
              takeover |-> 1, now |-> 1, connections |-> 1]

\* The table of tabs with the bounds in p.
Tab(p) == INSTANCE BrowserTabs WITH Targets <- Others, None <- nobody, MaxTabs <- p.tabs,
            MaxBrowsers <- p.browsers, MaxConnections <- p.connections,
            MaxSessions <- p.sessions, MaxInstalls <- p.installs, calls <- tabCalls

\* Two connections and two sessions, for two calls and two pages.
Sharing == [tabs |-> 2, browsers |-> 1, connections |-> 2, sessions |-> 2, installs |-> 0]

\* The same while an install relaunches the browser.
Relaunching == [tabs |-> 2, browsers |-> 2, connections |-> 1, sessions |-> 1, installs |-> 1]

ASSUME SidecarAssumption ==
    /\ Human(Takeovers)!HumanControlAssumption /\ Human(Decisions)!HumanControlAssumption
    /\ Tab(Sharing)!BrowserTabsAssumption /\ Tab(Relaunching)!BrowserTabsAssumption

humanVars == <<now, humanControl, requests, usedApprovals, connection, connecting, open,
               watched, origin, calls, approvals, told, decided, survivors, intrusions,
               late, strayed>>
tabVars == <<browser, loaded, dying, living, born, conns, subscribed, cdp, ownPid, ensuring,
             nextTabId, tabOf, sessions, attaching, session, tabCalls, installed,
             named, astray, stuck, unloaded>>
vars == <<part, humanVars, tabVars>>

Init ==
    /\ part \in {"takeover", "decision", "tabs", "relaunch"}
    /\ IF part = "decision" THEN Human(Decisions)!Init ELSE Human(Takeovers)!Init
    /\ part \notin {"takeover", "decision"} => origin = "o1"
    /\ IF part = "relaunch" THEN Tab(Relaunching)!Init ELSE Tab(Sharing)!Init

HumanStep ==
    /\ \/ part = "takeover" /\ Human(Takeovers)!Next
       \/ part = "decision" /\ Human(Decisions)!Next
    /\ UNCHANGED <<part, tabVars>>

TabsStep ==
    /\ \/ part = "tabs" /\ Tab(Sharing)!Next
       \/ part = "relaunch" /\ Tab(Relaunching)!Next
    /\ UNCHANGED <<part, humanVars>>

Next == HumanStep \/ TabsStep

Spec == Init /\ [][Next]_vars

Symmetry == Permutations(Calls) \cup Permutations(Others)

-----------------------------------------------------------------------------
\* The human keeps control of the page: once he was told that the browser is his, a
\* call admitted before sends no press or other command any more, but at most the
\* two releases it owes; a takeover lasts until its own request is resumed; and a
\* request is decided once, whatever the host signs and sends again (send, the cut
\* transport, human_control).  The first three hold up to a takeover that is asked
\* for over a connection already given up.
HumanSafe ==
    /\ part = "takeover" => /\ Human(Takeovers)!AdmittedCallsPause
                            /\ Human(Takeovers)!OnlyOwedReleases
                            /\ Human(Takeovers)!OrderlyTakeoversEnd
    /\ part = "decision" => Human(Decisions)!TypeOK /\ Human(Decisions)!RequestsDecidedOnce

\* The agent's calls keep apart: calls on one page over one connection share its
\* session, a click leaves no button pressed on a page it could still reach,
\* whatever cancels it, and a press sent for a tab number goes to the page that
\* number was first given to, over relaunches and reconnections.
TabsSafe ==
    /\ part = "tabs" => Tab(Sharing)!LiveSessionsAreShared /\ Tab(Sharing)!PressesAreReleased
    /\ part = "relaunch" => Tab(Relaunching)!TypeOK /\ Tab(Relaunching)!PressesReachTheirTab
=============================================================================

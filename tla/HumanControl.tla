---------------------------- MODULE HumanControl ----------------------------
(***************************************************************************)
(* One browser slot that agents drive and a human may take over            *)
(* (host/browser-advanced.js, host/mcp-server.js of the browser sidecar).  *)
(* Calls interleave at every await; a takeover only sets humanControl and  *)
(* cuts the playwright transport, so what else stops is up to the guards   *)
(* each call meets afterwards.  One tab; Navigate is its main frame's.     *)
(* External: the browser, its human, the host that signs approvals.        *)
(***************************************************************************)
EXTENDS Naturals

CONSTANTS Calls,             \* calls of tools in progress
          Requests,          \* ids of pending decisions
          Nonces,            \* nonces of signed approvals
          Origins,           \* origins the page navigates between
          None,
          TakeoverLife,      \* 24 h in pending()
          PermissionLife,    \* TTL
          ApprovalLife,      \* 60 s in approval()
          MaxNow,            \* bound on the clock
          MaxConnections,    \* bound on reconnections of playwright
          ClosesInOrder      \* playwright cuts what it was asked to close before it
                             \* makes another connection; the code does not wait for it

HumanControlAssumption ==
    /\ {TakeoverLife, PermissionLife, ApprovalLife} \subseteq Nat \ {0}
    /\ MaxNow \in Nat /\ MaxConnections \in Nat /\ ClosesInOrder \in BOOLEAN
    /\ None \notin Requests \union Origins

VARIABLES
    now,
    humanControl,   \* the request the slot is under, or None
    requests,       \* pending decisions
    usedApprovals,  \* nonces seen, with their expiry
    connection,     \* playwright's current connection, 0 when there is none
    connecting,     \* this.connecting is set
    open,           \* connections whose transport still works
    watched,        \* connections on which the page has its listeners
    origin,         \* origin of the page
    calls,
    approvals,      \* approvals the host has signed
    told,           \* history: takeovers whose human was told to go on
    decided,        \* history: how often each request was decided
    survivors,      \* history: permission requests that outlived a navigation
    intrusions,     \* history: what was done to a browser under human control
    late,           \* history: releases each call sent to such a browser
    strayed         \* history: a takeover was asked for over a page whose
                    \* connection was given up already

vars == <<now, humanControl, requests, usedApprovals, connection, connecting, open,
          watched, origin, calls, approvals, told, decided, survivors, intrusions,
          late, strayed>>

slot == <<humanControl, requests, usedApprovals>>
transport == <<connection, connecting, open, watched>>
history == <<told, decided, survivors, intrusions, late, strayed>>

NoRequest == [action |-> "none", expires |-> 0, origin |-> None]
Gone == [NoRequest EXCEPT !.action = "gone"]   \* ids are never given out again
Idle == [kind |-> "none", at |-> "idle", conn |-> 0, request |-> None]
Request == [action : {"none", "resume", "permission", "gone"}, expires : Nat,
            origin : Origins \union {None}]
Approval == [nonce : Nonces, action : {"resume", "grant"}, request : Requests,
             origin : Origins \union {None}, expires : Nat]

Init ==
    /\ now = 0 /\ humanControl = None
    /\ requests = [r \in Requests |-> NoRequest]
    /\ usedApprovals = [n \in Nonces |-> None]
    /\ connection = 0 /\ connecting = FALSE /\ open = {} /\ watched = {}
    /\ origin \in Origins
    /\ calls = [c \in Calls |-> Idle]
    /\ approvals = {}
    /\ told = {} /\ decided = [r \in Requests |-> 0]
    /\ survivors = {} /\ intrusions = {}
    /\ late = [c \in Calls |-> 0] /\ strayed = FALSE

Pending(r) == requests[r].action \in {"resume", "permission"}
\* a human was told that the browser is his, and has not resumed
InHumanHands == \E r \in told : decided[r] = 0
Intrudes(what) ==
    intrusions' = IF InHumanHands THEN intrusions \union {what} ELSE intrusions

\* The releases a call may still owe when the human is told: of what it pressed,
\* and of the next press, which is refused.  `late` stops one above.
Owed == 2

Goes(c, at) == calls' = [calls EXCEPT ![c].at = at]
Ends(c) == calls' = [calls EXCEPT ![c] = Idle]
Waiting == {c \in Calls : calls[c].at = "connecting"}

\* assertAutomated, and the same test in callTool, ensure and send
Automated == humanControl = None

-----------------------------------------------------------------------------
(* The tools that drive the page over the controller's own connection *)

\* callTool: the one test every such tool meets before it starts
CallTool(c, kind) ==
    /\ calls[c] = Idle /\ Automated
    /\ calls' = [calls EXCEPT ![c] = [Idle EXCEPT !.kind = kind, !.at = "handler"]]
    /\ UNCHANGED <<now, slot, transport, origin, approvals, history>>

\* Faulty: send does not look at humanControl again.
SendUnguarded(c) ==
    /\ calls[c].kind = "computer" /\ calls[c].at \in {"handler", "pressed"}
    /\ Intrudes("command") /\ UNCHANGED calls
    /\ UNCHANGED <<now, slot, transport, origin, approvals, told, decided, survivors,
                   late, strayed>>

\* send: every command of a handler is tested again; an error between a press and
\* its release leaves through the finally clause
Send(c) ==
    /\ calls[c].kind = "computer" /\ calls[c].at \in {"handler", "pressed"}
    /\ IF Automated THEN Intrudes("command") /\ UNCHANGED calls
       ELSE /\ UNCHANGED intrusions
            /\ IF calls[c].at = "pressed" THEN Goes(c, "failing") ELSE Ends(c)
    /\ UNCHANGED <<now, slot, transport, origin, approvals, told, decided, survivors,
                   late, strayed>>

\* mouseClick, key, left_click_drag: the press is inside the try clause, so its
\* release is sent even if the press was refused
Press(c) ==
    /\ calls[c].kind = "computer" /\ calls[c].at = "handler"
    /\ IF Automated THEN Intrudes("command") /\ Goes(c, "pressed")
       ELSE UNCHANGED intrusions /\ Goes(c, "failing")
    /\ UNCHANGED <<now, slot, transport, origin, approvals, told, decided, survivors,
                   late, strayed>>

\* mouseReleased and keyUp, which send lets through under human control; more may
\* follow unless an error is on its way out
Release(c) ==
    /\ calls[c].at \in {"pressed", "failing"}
    /\ late' = IF InHumanHands /\ late[c] <= Owed THEN [late EXCEPT ![c] = @ + 1] ELSE late
    /\ \/ calls[c].at = "pressed" /\ Goes(c, "handler")
       \/ Ends(c)
    /\ UNCHANGED <<now, slot, transport, origin, approvals, told, decided, survivors,
                   intrusions, strayed>>

\* resize_window: the window is asked for through send ...
AskWindow(c) ==
    /\ calls[c].kind = "resize" /\ calls[c].at = "handler"
    /\ IF Automated THEN Goes(c, "window") ELSE Ends(c)
    /\ UNCHANGED <<now, slot, transport, origin, approvals, history>>

\* ... and its bounds are set on the connection itself
SetWindowBounds(c) ==
    /\ calls[c].at = "window"
    /\ Intrudes("resize") /\ Ends(c)
    /\ UNCHANGED <<now, slot, transport, origin, approvals, told, decided, survivors,
                   late, strayed>>

\* install_extension, remove_extension: the download ends and relaunch closes
\* the browser; only the ensure() after it looks at humanControl.  The tab is
\* gone, and nobody can decide what was asked for it any more
Relaunch(c) ==
    /\ calls[c].kind = "install" /\ calls[c].at = "handler"
    /\ Intrudes("relaunch")
    /\ connection' = 0 /\ connecting' = FALSE /\ open' = {} /\ watched' = {}
    /\ calls' = [d \in Calls |-> IF d = c \/ d \in Waiting THEN Idle ELSE calls[d]]
    /\ requests' = [r \in Requests |->
          IF requests[r].action = "permission" THEN Gone ELSE requests[r]]
    /\ UNCHANGED <<now, humanControl, usedApprovals, origin, approvals,
                   told, decided, survivors, late, strayed>>

-----------------------------------------------------------------------------
(* The advanced tools, over playwright's connection *)

\* the start of action, page and ensure: joins the connection or waits for it
Begin(c, kind) ==
    /\ calls[c] = Idle /\ Automated
    /\ calls' = [calls EXCEPT ![c] = [Idle EXCEPT
          !.kind = kind, !.conn = connection,
          !.at = IF connection # 0 THEN "page" ELSE "connecting"]]
    /\ connecting' = (connection = 0)
    /\ UNCHANGED <<now, slot, connection, open, watched, origin, approvals, history>>

Connected ==
    /\ connecting
    /\ \E n \in 1..MaxConnections \ open :
          /\ \A c \in Calls : calls[c].conn # n
          /\ connection' = n /\ open' = {n} \union (IF ClosesInOrder THEN {} ELSE open)
          /\ watched' = watched \ {n}
          /\ calls' = [c \in Calls |->
                IF c \in Waiting THEN [calls[c] EXCEPT !.at = "page", !.conn = n]
                ELSE calls[c]]
    /\ connecting' = FALSE
    /\ UNCHANGED <<now, slot, origin, approvals, history>>

ConnectFails ==
    /\ connecting /\ connecting' = FALSE
    /\ calls' = [c \in Calls |-> IF c \in Waiting THEN Idle ELSE calls[c]]
    /\ UNCHANGED <<now, slot, connection, open, watched, origin, approvals, history>>

\* page: finds the tab's page, on the connection it began to search or on the
\* current one, and listens to it; its last test is that the page is not closed,
\* which it is once its transport is cut
FindPage(c) ==
    /\ calls[c].at = "page"
    /\ \E n \in {calls[c].conn, connection} \intersect open :
          /\ calls' = [calls EXCEPT ![c].at = "ready", ![c].conn = n]
          /\ watched' = watched \union {n}
    /\ UNCHANGED <<now, slot, connection, connecting, open, origin, approvals, history>>

\* action: validFrame just before the operation, which playwright then carries
\* out in steps of its own for as long as the transport works
StartOperation(c) ==
    /\ calls[c].kind = "action" /\ calls[c].at = "ready" /\ calls[c].conn \in open
    /\ Goes(c, "acting")
    /\ UNCHANGED <<now, slot, transport, origin, approvals, history>>

Operate(c) ==
    /\ calls[c].at = "acting" /\ calls[c].conn \in open
    /\ Intrudes("action")
    /\ UNCHANGED <<now, slot, transport, origin, calls, approvals, told, decided, survivors,
                   late, strayed>>

OperationEnds(c) ==
    /\ calls[c].at = "acting"
    /\ Ends(c)
    /\ UNCHANGED <<now, slot, transport, origin, approvals, history>>

\* disconnect: forgets the browser and its pages, then awaits browser.close() if
\* there was a browser; the pages keep their listeners until the transport is
\* closed.  A takeover remembers its request meanwhile
Disconnect(c, r) ==
    /\ connection' = 0
    /\ calls' = [calls EXCEPT ![c].at = "closing", ![c].conn = connection, ![c].request = r]
    /\ UNCHANGED <<open, connecting, watched>>

\* abortable: the deadline or a cancellation disconnects everybody
Abort(c) ==
    /\ calls[c].at = "acting"
    /\ Disconnect(c, None)
    /\ UNCHANGED <<now, slot, origin, approvals, history>>

\* an error at any await ends the call, after the release of what it pressed
CallFails(c) ==
    /\ \/ calls[c].at \in {"handler", "failing", "window", "page", "ready"} /\ Ends(c)
       \/ calls[c].at = "pressed" /\ Goes(c, "failing")
    /\ UNCHANGED <<now, slot, transport, origin, approvals, history>>

-----------------------------------------------------------------------------
(* Decisions of a human *)

\* prune
Live == [r \in Requests |->
    IF Pending(r) /\ requests[r].expires < now THEN Gone ELSE requests[r]]

\* pending
Ask(r, action, o, life) ==
    /\ requests[r] = NoRequest
    /\ requests' = [Live EXCEPT ![r] =
          [action |-> action, expires |-> now + life, origin |-> o]]

\* control: request_takeover, which looks at nothing again after page(): the
\* connection of its page may have been given up, and the slot taken, meanwhile
RequestTakeover(c, r) ==
    /\ calls[c].kind = "takeover" /\ calls[c].at = "ready" /\ calls[c].conn \in open
    /\ Ask(r, "resume", None, TakeoverLife)
    /\ humanControl' = r
    /\ strayed' = (strayed \/ calls[c].conn # connection)
    /\ Disconnect(c, r)
    /\ UNCHANGED <<now, usedApprovals, origin, approvals, told, decided, survivors,
                   intrusions, late>>

\* close: all requests and approvals are forgotten
Forget ==
    /\ requests' = [r \in Requests |-> IF Pending(r) THEN Gone ELSE requests[r]]
    /\ usedApprovals' = [n \in Nonces |-> None]

\* browser.close() returns; only then is the human told, or the slot emptied
Closed(c) ==
    /\ calls[c].at = "closing"
    /\ open' = open \ {calls[c].conn}
    /\ told' = IF calls[c].kind = "takeover" THEN told \union {calls[c].request} ELSE told
    /\ IF calls[c].kind = "detach" THEN Forget ELSE UNCHANGED <<requests, usedApprovals>>
    /\ Ends(c)
    /\ UNCHANGED <<now, humanControl, connection, connecting, watched, origin,
                   approvals, decided, survivors, intrusions, late, strayed>>

\* control: detach tests, then close() awaits the cancelled downloads ...
Detach(c) ==
    /\ calls[c] = Idle /\ Automated
    /\ calls' = [calls EXCEPT ![c] = [Idle EXCEPT !.kind = "detach", !.at = "draining"]]
    /\ UNCHANGED <<now, slot, transport, origin, approvals, history>>

\* ... and disconnects, which waits only if there is a connection
DetachDisconnects(c) ==
    /\ calls[c].at = "draining"
    /\ \/ /\ connection # 0 /\ Disconnect(c, None) /\ UNCHANGED slot
       \/ /\ connection = 0 /\ Ends(c) /\ Forget
          /\ UNCHANGED <<humanControl, transport>>
    /\ UNCHANGED <<now, origin, approvals, history>>

\* permissions: request
AskPermission(c, r) ==
    /\ calls[c].kind = "permission" /\ calls[c].at = "ready" /\ calls[c].conn \in open
    /\ Ask(r, "permission", origin, PermissionLife)
    /\ Ends(c)
    /\ UNCHANGED <<now, humanControl, usedApprovals, transport, origin, approvals, history>>

\* what approval() demands of a signed approval
Approved(a) ==
    LET r == Live[a.request] IN
    /\ r.action = IF a.action = "resume" THEN "resume" ELSE "permission"
    /\ a.origin = r.origin
    /\ a.expires >= now /\ a.expires <= now + ApprovalLife
    /\ usedApprovals[a.nonce] = None

\* what approval() leaves behind: the nonce is used and the request is gone
Consume(a) ==
    /\ usedApprovals' = [n \in Nonces |->
          IF n = a.nonce THEN a.expires
          ELSE IF usedApprovals[n] # None /\ usedApprovals[n] < now THEN None
          ELSE usedApprovals[n]]
    /\ requests' = [Live EXCEPT ![a.request] = Gone]

\* control: resume
Resume(a) ==
    /\ a.action = "resume" /\ Approved(a) /\ Consume(a)
    /\ IF humanControl = a.request
       THEN /\ humanControl' = None
            /\ decided' = [decided EXCEPT ![a.request] = @ + 1]
            /\ late' = [c \in Calls |-> 0]
       ELSE UNCHANGED <<humanControl, decided, late>>
    /\ UNCHANGED <<now, transport, origin, calls, approvals, told, survivors, intrusions,
                   strayed>>

\* permissions: grant and revoke, for the page's own origin
Grant(c, a) ==
    /\ calls[c].kind = "permission" /\ calls[c].at = "ready" /\ calls[c].conn \in open
    /\ a.action = "grant" /\ a.origin = origin /\ Approved(a) /\ Consume(a)
    /\ decided' = [decided EXCEPT ![a.request] = @ + 1]
    /\ Ends(c)
    /\ UNCHANGED <<now, humanControl, transport, origin, approvals, told, survivors,
                   intrusions, late, strayed>>

-----------------------------------------------------------------------------
(* External *)

\* the host asks its user and signs, for a request that is pending
Sign(n, r) ==
    /\ Pending(r)
    /\ \A a \in approvals : a.nonce # n
    /\ approvals' = approvals \union {[nonce |-> n, request |-> r,
          action |-> IF requests[r].action = "resume" THEN "resume" ELSE "grant",
          origin |-> requests[r].origin, expires |-> now + ApprovalLife]}
    /\ UNCHANGED <<now, slot, transport, origin, calls, history>>

\* the main frame navigates; page.on('framenavigated') if the page is watched
Navigate(o) ==
    /\ origin' = o
    /\ LET asked == {r \in Requests : requests[r].action = "permission"}
           heard == watched \intersect open # {}
       IN /\ requests' = [r \in Requests |->
                IF heard /\ r \in asked THEN Gone ELSE requests[r]]
          /\ survivors' = IF heard THEN survivors ELSE survivors \union asked
    /\ UNCHANGED <<now, humanControl, usedApprovals, transport, calls, approvals,
                   told, decided, intrusions, late, strayed>>

Tick ==
    /\ now < MaxNow /\ now' = now + 1
    /\ UNCHANGED <<slot, transport, origin, calls, approvals, history>>

AdvancedKinds == {"action", "takeover", "permission"}
LegacyKinds == {"computer", "resize", "install"}

Next ==
    \/ \E c \in Calls :
          \/ \E k \in LegacyKinds : CallTool(c, k)
          \/ Send(c) \/ Press(c) \/ Release(c) \/ AskWindow(c) \/ SetWindowBounds(c) \/ Relaunch(c)
          \/ \E k \in AdvancedKinds : Begin(c, k)
          \/ FindPage(c) \/ StartOperation(c) \/ Operate(c) \/ OperationEnds(c)
          \/ Abort(c) \/ CallFails(c) \/ Closed(c)
          \/ Detach(c) \/ DetachDisconnects(c)
          \/ \E r \in Requests : RequestTakeover(c, r) \/ AskPermission(c, r)
          \/ \E a \in approvals : Grant(c, a)
    \/ Connected \/ ConnectFails
    \/ \E a \in approvals : Resume(a)
    \/ \E n \in Nonces, r \in Requests : Sign(n, r)
    \/ \E o \in Origins : Navigate(o)
    \/ Tick

Spec == Init /\ [][Next]_vars

-----------------------------------------------------------------------------
(* Properties *)

CallType == [kind : {"none", "detach"} \union AdvancedKinds \union LegacyKinds,
             at : {"idle", "handler", "pressed", "failing", "window", "connecting", "page", "ready",
                   "acting", "draining", "closing"},
             conn : 0..MaxConnections, request : Requests \union {None}]

\* Every variable keeps its type; a call that is idle holds nothing.
TypeOK ==
    /\ now \in 0..MaxNow /\ humanControl \in Requests \union {None}
    /\ requests \in [Requests -> Request]
    /\ usedApprovals \in [Nonces -> Nat \union {None}]
    /\ connection \in 0..MaxConnections /\ connecting \in BOOLEAN
    /\ open \subseteq 1..MaxConnections /\ watched \subseteq 1..MaxConnections
    /\ origin \in Origins /\ approvals \subseteq Approval
    /\ calls \in [Calls -> CallType]
    /\ told \subseteq Requests /\ survivors \subseteq Requests
    /\ decided \in [Requests -> Nat]
    /\ intrusions \subseteq {"command", "resize", "relaunch", "action"}
    /\ late \in [Calls -> 0..Owed + 1] /\ strayed \in BOOLEAN

\* Once a human was told that the browser is his, a call that was admitted
\* before sends no press, no other command through send() and no operation
\* through playwright: the test in send, and the transport that the takeover cuts,
\* stop it.  It holds but for takeovers asked for over a connection given up.
AdmittedCallsPause == ~strayed => intrusions \intersect {"command", "action"} = {}

\* All that reaches such a browser through send() are the releases a call owes:
\* of what it had pressed when the human was told, and of one refused press.
OnlyOwedReleases == ~strayed => \A c \in Calls : late[c] <= Owed

\* A takeover lasts until its own request is resumed: no other takeover, no
\* detach and no approval for something else ends it or takes its place.
TakeoversEndByTheirResume == \A r \in told : decided[r] = 0 => humanControl = r

\* ... unless a takeover was asked for over a connection already given up.
OrderlyTakeoversEnd == ~strayed => TakeoversEndByTheirResume

\* A request is decided at most once, whatever the host signs and sends again.
RequestsDecidedOnce == \A r \in Requests : decided[r] <= 1

\* docs/browser-advanced.md: request_takeover pauses legacy and advanced
\* automation for that browser.
AutomationPaused == intrusions = {}

\* docs/browser-advanced.md: a takeover does not auto-resume; its pending
\* decision remains inspectable through inventory.
TakeoverStaysPending == humanControl # None => Pending(humanControl)

\* docs/browser-advanced.md: permission requests expire on navigation.
PermissionsExpireOnNavigation == \A r \in survivors : ~Pending(r)

-----------------------------------------------------------------------------
(* What always holds, and why, until a takeover is asked for over a          *)
(* connection given up.  ClosesInOrder is needed for the transport.          *)

\* What is known of a call by where it is.
CallKnown(c) ==
    /\ calls[c].at \in {"page", "ready", "acting"} => calls[c].conn # 0
    /\ calls[c].at = "connecting" => connecting
    /\ calls[c].at = "acting" => calls[c].kind = "action"
    /\ calls[c].at = "draining" => calls[c].kind = "detach"
    /\ calls[c].at = "closing" /\ calls[c].kind = "takeover" => calls[c].request \in Requests

\* While there is a connection no other is made, and no other still works.
OneTransport ==
    /\ connecting => connection = 0
    /\ connection # 0 => open \subseteq {connection}

\* Under human control there is no connection, and none is being made.
Paused == ~strayed /\ humanControl # None => connection = 0 /\ ~connecting

\* A takeover whose human is not told yet: unless it was resumed already, the
\* browser is its own, over no transport but the one it closes.
HandsOver(c) ==
    ~strayed /\ calls[c].at = "closing" /\ calls[c].kind = "takeover"
             /\ decided[calls[c].request] = 0 =>
    humanControl = calls[c].request /\ open \subseteq {calls[c].conn}

\* A human who was told and has not resumed has the browser, and nobody else has.
HandedOver(r) == ~strayed /\ decided[r] = 0 => humanControl = r /\ open = {}

\* What a call at a step has sent at most under human control.
Due(at) ==
    IF humanControl = None \/ at = "pressed" THEN 0
    ELSE IF at \in {"handler", "failing"} THEN 1
    ELSE Owed
LateKnown(c) == ~strayed => late[c] <= Due(calls[c].at)

\* A request that was decided is gone.
DecidedIsGone(r) == decided[r] # 0 => decided[r] = 1 /\ requests[r].action = "gone"

IInv ==
    /\ TypeOK /\ OneTransport /\ Paused /\ AdmittedCallsPause
    /\ \A c \in Calls : CallKnown(c) /\ HandsOver(c) /\ LateKnown(c)
    /\ (\A r \in told : HandedOver(r)) /\ (\A r \in Requests : DecidedIsGone(r))
=============================================================================

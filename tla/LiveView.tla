------------------------------ MODULE LiveView ------------------------------
(***************************************************************************)
(* The live view of the browser sidecar                                    *)
(* (src/sidecars/agent-in-chrome/host/browser-session.js, main): it shows  *)
(* one page of the browser by a screencast and follows the popups that     *)
(* sign-in flows open.  Every event of the browser starts a handler of its *)
(* own; the handlers share the variables session, targetId and frame and   *)
(* interleave at each await.  Pages are numbered as they are created, and  *)
(* a session is named by the handler that attached it.                     *)
(***************************************************************************)
EXTENDS Naturals, Sequences

CONSTANTS MaxPages,   \* bound: pages the browser ever has
          Handlers,   \* handlers of events that call follow
          None,       \* no session
          Blink       \* pages may close before they are attached

ViewAssumption == MaxPages \in Nat \ {0} /\ Blink \in BOOLEAN /\ None \notin Handlers

VARIABLES
  alive,      \* pages the browser has
  opened,     \* how many it has had
  attached,   \* sessions of the browser: the page of each handler's session
  casting,    \* sessions whose screencast runs
  inbox,      \* commands on their way to the browser
  outbox,     \* answers and events on their way to the sidecar
  handler,    \* each handler: where it awaits, the page it follows
  session,    \* the session the view shows
  target      \* targetId

vars == <<alive, opened, attached, casting, inbox, outbox, handler, session, target>>

First == 1     \* the page of the start
NoPage == 0
Idle == [at |-> "idle", page |-> NoPage]
Ops == {"list", "stop", "attach", "enable", "start"}
Message == [kind : {"created", "destroyed", "answer", "error", "pages"},
            by : Handlers \cup {None}, page : 0..MaxPages]
Command == [op : Ops, by : Handlers, page : 0..MaxPages, on : Handlers \cup {None}]

Init ==
  /\ alive = {First} /\ opened = 1
  /\ attached = [h \in Handlers |-> NoPage]
  /\ casting = {}
  /\ inbox = << >> /\ outbox = << >>
  /\ handler = [h \in Handlers |-> Idle]
  /\ session = None /\ target = NoPage

Await(h, point, page, on) ==
  /\ handler' = [handler EXCEPT ![h] = [at |-> point, page |-> page]]
  /\ inbox' = Append(inbox, [op |-> point, by |-> h, page |-> page, on |-> on])

\* follow: stop the running screencast, attach, enable, start.
Follow(h, page) == Await(h, IF session # None THEN "stop" ELSE "attach", page, session)

Free(h) == handler[h] = Idle

\* main follows the first page before it listens to anything else; the event
\* handlers are registered before it, so a popup may come in between.
Start(h) ==
  /\ Free(h) /\ \A k \in Handlers : Free(k)
  /\ Follow(h, First)
  /\ UNCHANGED <<alive, opened, attached, casting, outbox, session, target>>

Started == \E h \in Handlers : ~Free(h)

-----------------------------------------------------------------------------
(* The browser *)

\* A page opens a popup.
OpenPopup ==
  /\ Started /\ alive # {} /\ opened < MaxPages
  /\ opened' = opened + 1
  /\ alive' = alive \cup {opened + 1}
  /\ outbox' = Append(outbox, [kind |-> "created", by |-> None, page |-> opened + 1])
  /\ UNCHANGED <<attached, casting, inbox, handler, session, target>>

Said == {outbox[i] : i \in 1..Len(outbox)}
Asked == {inbox[i] : i \in 1..Len(inbox)}
Event(kind, p) == [kind |-> kind, by |-> None, page |-> p] \in Said

\* A handler is on its way to p, or will be by an event or list under way.
Approached(p) ==
  \/ \E h \in Handlers : /\ handler[h].at \notin {"idle", "done"}
                         /\ (handler[h].at = "list" \/ handler[h].page = p)
  \/ Event("created", p)

\* A page closes; its sessions end with it.  Without Blink no page closes
\* while a handler is on its way to it.
ClosePage(p) ==
  /\ p \in alive /\ Started
  /\ Blink \/ ~Approached(p)
  /\ alive' = alive \ {p}
  /\ casting' = {s \in casting : attached[s] # p}
  /\ outbox' = Append(outbox, [kind |-> "destroyed", by |-> None, page |-> p])
  /\ UNCHANGED <<opened, attached, inbox, handler, session, target>>

Newest(ps) == IF ps = {} THEN NoPage ELSE CHOOSE p \in ps : \A q \in ps : q <= p

Living(s) == s # None /\ attached[s] \in alive

\* The browser runs the next command and answers it; only the list of the pages
\* has something to say, of which the last, the newest page, is taken.
Serve ==
  /\ inbox # << >>
  /\ inbox' = Tail(inbox)
  /\ LET c == Head(inbox)
         ok == CASE c.op = "attach" -> c.page \in alive
                 [] c.op = "list"   -> TRUE
                 [] OTHER           -> Living(c.on)
     IN /\ outbox' = Append(outbox,
             [kind |-> IF c.op = "list" THEN "pages" ELSE IF ok THEN "answer" ELSE "error",
              by |-> c.by, page |-> IF c.op = "list" THEN Newest(alive) ELSE NoPage])
        /\ attached' = IF ok /\ c.op = "attach" THEN [attached EXCEPT ![c.by] = c.page] ELSE attached
        /\ casting' = IF ~ok THEN casting
                      ELSE CASE c.op = "start" -> casting \cup {c.on}
                             [] c.op = "stop"  -> casting \ {c.on}
                             [] OTHER          -> casting
  /\ UNCHANGED <<alive, opened, handler, session, target>>

-----------------------------------------------------------------------------
(* The sidecar reads its socket *)

Next1 == Head(outbox)

\* Target.targetCreated of a page with an opener.
Created ==
  /\ outbox # << >> /\ Next1.kind = "created"
  /\ outbox' = Tail(outbox)
  /\ IF Next1.page # target
     THEN \E h \in Handlers : Free(h) /\ Follow(h, Next1.page)
     ELSE UNCHANGED <<handler, inbox>>
  /\ UNCHANGED <<alive, opened, attached, casting, session, target>>

\* Faulty: the end of the page shown is not followed up.
DestroyedIgnored ==
  /\ outbox # << >> /\ Next1.kind = "destroyed"
  /\ outbox' = Tail(outbox)
  /\ UNCHANGED <<alive, opened, attached, casting, handler, inbox, session, target>>

\* Target.targetDestroyed: only the target's end is of interest.
Destroyed ==
  /\ outbox # << >> /\ Next1.kind = "destroyed"
  /\ outbox' = Tail(outbox)
  /\ IF Next1.page = target
     THEN \E h \in Handlers : Free(h) /\ Await(h, "list", NoPage, None)
     ELSE UNCHANGED <<handler, inbox>>
  /\ UNCHANGED <<alive, opened, attached, casting, session, target>>

Finished(h) == handler' = [handler EXCEPT ![h].at = "done"] /\ UNCHANGED inbox

\* An answer resumes the handler that awaits it.  start is sent to the session
\* the shared variable holds by then.
Resume(h) ==
  /\ outbox # << >> /\ Next1.by = h
  /\ outbox' = Tail(outbox)
  /\ CASE Next1.kind = "pages" ->
            /\ IF Next1.page # NoPage THEN Follow(h, Next1.page) ELSE Finished(h)
            /\ UNCHANGED <<session, target>>
       [] handler[h].at = "stop" ->
            /\ Await(h, "attach", handler[h].page, None)
            /\ UNCHANGED <<session, target>>
       [] handler[h].at = "attach" /\ Next1.kind = "answer" ->
            /\ session' = h /\ target' = handler[h].page
            /\ Await(h, "enable", handler[h].page, h)
       [] handler[h].at = "enable" /\ Next1.kind = "answer" ->
            /\ Await(h, "start", handler[h].page, session)
            /\ UNCHANGED <<session, target>>
       [] OTHER ->
            /\ Finished(h)
            /\ UNCHANGED <<session, target>>
  /\ UNCHANGED <<alive, opened, attached, casting>>

-----------------------------------------------------------------------------
Next ==
  \/ \E h \in Handlers : Start(h) \/ Resume(h)
  \/ \E p \in 1..MaxPages : ClosePage(p)
  \/ OpenPopup \/ Serve \/ Created \/ Destroyed

Spec == Init /\ [][Next]_vars

-----------------------------------------------------------------------------
TypeOK ==
  /\ opened \in 1..MaxPages /\ alive \subseteq 1..opened
  /\ attached \in [Handlers -> 0..MaxPages]
  /\ casting \subseteq Handlers
  /\ handler \in [Handlers -> [at : Ops \cup {"idle", "done"}, page : 0..MaxPages]]
  /\ session \in Handlers \cup {None}
  /\ target \in 0..MaxPages
  /\ outbox \in Seq(Message) /\ inbox \in Seq(Command)

\* Nothing is under way: no command, message or handler.
Settled ==
  /\ Started /\ inbox = << >> /\ outbox = << >>
  /\ \A h \in Handlers : handler[h].at \in {"idle", "done"}

\* The session the view takes frames from is one of the page it calls its
\* target, however many handlers attach pages at once (follow).
SessionIsOfTarget == session # None => attached[session] = target

\* Whenever the handlers are through, the view shows a page that still exists
\* and whose screencast runs: popups and closed pages leave it neither frozen
\* nor dark (main, "the view follows the newest page").
ShowsLivingPage == Settled /\ alive # {} => session \in casting

\* Once the handlers are through, the page shown is the newest of the pages
\* the browser still has (targetCreated, targetDestroyed).
ShowsNewestPage == Settled /\ alive # {} => target = Newest(alive)

-----------------------------------------------------------------------------
(* What always holds, and why.  All of it is lost where pages Blink. *)

Heading(h) == handler[h].at \in {"stop", "attach"}
Reply(m) == m.kind \in {"answer", "error", "pages"}

Precedes(s, x, y) == \E i, j \in 1..Len(s) : i < j /\ s[i] = x /\ s[j] = y

\* Of two handlers whose commands or answers follow each other, neither will show
\* its page over a newer one.
InTurn(h, k) ==
  /\ h # k
  /\ Heading(h) /\ handler[h].at = handler[k].at => handler[h].page <= handler[k].page

\* The order of what the sidecar is going to read.
Follows(m, n) ==
  /\ Reply(m) /\ Reply(n) => InTurn(m.by, n.by)
  /\ n.kind = "created" /\ m.kind \in {"created", "pages"} => m.page < n.page
  /\ m.kind = "created" /\ n.kind = "pages" => m.page <= n.page
  /\ m.kind = "destroyed" /\ n.kind = "destroyed" => m.page # n.page

Ordered ==
  /\ \A m, n \in Said : Precedes(outbox, m, n) => Follows(m, n)
  /\ \A c, d \in Asked : Precedes(inbox, c, d) => InTurn(c.by, d.by)
  /\ \A m \in Said, c \in Asked : Reply(m) => InTurn(m.by, c.by)
  /\ \A h, k \in Handlers : handler[h].at = "stop" /\ handler[k].at = "attach" =>
        handler[k].page <= handler[h].page

\* A command is the one its handler awaits, and so is a reply.
CommandKnown(c) ==
  /\ handler[c.by].at = c.op
  /\ c.op = "attach" => c.page = handler[c.by].page
  /\ c.op = "enable" => c.on = c.by
ReplyKnown(m) ==
  /\ m.by \in Handlers /\ handler[m.by].at \in Ops
  /\ m.kind = "pages" <=> handler[m.by].at = "list"
  /\ handler[m.by].at \in {"attach", "enable"} => m.kind = "answer"
  /\ handler[m.by].at = "attach" => attached[m.by] = handler[m.by].page

\* What is said of pages is still true when it is read.
EventKnown(m) ==
  /\ m.kind \in {"created", "destroyed"} => m.by = None
  /\ m.kind = "created" =>
        /\ m.page \in alive /\ target < m.page
        /\ \A h \in Handlers : Heading(h) => handler[h].page < m.page
  /\ m.kind = "destroyed" => m.page \in 1..opened /\ m.page \notin alive
  /\ m.kind = "pages" /\ m.page = NoPage => alive = {}
  /\ m.kind = "pages" /\ m.page # NoPage =>
        /\ m.page \in alive /\ (target \in alive => target <= m.page)
        /\ \A p \in alive : p > m.page => Event("created", p)
        /\ \A h \in Handlers : Heading(h) => handler[h].page <= m.page

\* The page shown ended, and the sidecar has read of it.
Ended == target \notin alive /\ ~Event("destroyed", target)

\* A handler that awaits is going to be answered.
Answered(h) ==
  \/ \E c \in Asked : c.by = h
  \/ \E m \in Said : Reply(m) /\ m.by = h

\* A handler follows a page that lives, and not back to an older one than is shown.
HandlerKnown(h) ==
  /\ handler[h].at \in Ops \ {"list"} => handler[h].page \in alive
  /\ handler[h].at = "enable" => attached[h] = handler[h].page
  /\ handler[h].at = "list" => target \in alive \/ Ended
  /\ Heading(h) => target <= handler[h].page \/ Ended
  /\ session = None => handler[h].at \in {"idle", "attach"}

SessionKnown ==
  /\ session = None <=> target = NoPage
  /\ session # None => /\ attached[session] = target /\ target \in 1..opened
                       /\ handler[session].at \in {"enable", "start", "done"}

\* At the beginning there is one page and nothing else.
Begins == ~Started => alive = {First} /\ inbox = << >> /\ outbox = << >> /\ session = None

\* The newest page is shown, or somebody will follow it.
Coming(n) ==
  \/ target = n \/ ~Started
  \/ \E h \in Handlers : handler[h].at = "list" \/ (Heading(h) /\ handler[h].page = n)
  \/ Event("created", n)
  \/ Event("destroyed", target) /\ n < target

NewestComes == \A n \in alive : (\A p \in alive : p <= n) => Coming(n)

\* The page shown is cast, or will be, or somebody is on his way to another.
CastComes == target \in alive =>
  \/ session \in casting \/ handler[session].at = "enable"
  \/ \E h \in Handlers : Heading(h)
  \/ \E c \in Asked : c.op = "start" /\ c.on = session

\* Of what is under way between the browser and the sidecar.
Exchange ==
  /\ TypeOK /\ Ordered
  /\ \A c \in Asked : CommandKnown(c)
  /\ \A m \in Said : Reply(m) => ReplyKnown(m)
  /\ \A h \in Handlers : handler[h].at \in Ops => Answered(h)

\* Of what it comes to.
Outcome ==
  /\ \A m \in Said : EventKnown(m)
  /\ \A h \in Handlers : HandlerKnown(h)
  /\ SessionKnown /\ Begins /\ NewestComes /\ CastComes

IInv == Exchange /\ Outcome
=============================================================================

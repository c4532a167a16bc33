----------------------------- MODULE MailCalls ------------------------------
(***************************************************************************)
(* The mail adapter (src/packages/connectors/providers/imap.go and         *)
(* imap_send.go): one connection for each call, to read the configured     *)
(* mailbox or to send one message.  A caller walks through the mailbox     *)
(* from its newest message down, page by page, while messages arrive and   *)
(* are removed; a walk goes on with `before_uid` and `uid_validity`.  An   *)
(* honest server reports its mailbox, another one reports anything.        *)
(***************************************************************************)
EXTENDS Naturals, Sequences, SequencesExt

CONSTANTS
  Operations,  \* of "list", "get", "mailboxes", "send": those the caller uses
  Limit,       \* messages on a page
  Window,      \* 1000: the UIDs one search covers
  Recipients,  \* of the message that is sent
  MaxUid,      \* a bound on the messages that arrive
  MaxValidity  \* a bound on how often the mailbox is made anew

BoundsAssumption ==
  /\ Operations \subseteq {"list", "get", "mailboxes", "send"}
  /\ {Limit, Window, Recipients} \subseteq Nat \ {0}
  /\ MaxUid \in Nat /\ MaxValidity \in Nat \ {0}

VARIABLES
  honest,    \* the server reports its mailbox
  mailbox,   \* the UIDs in it
  uidNext,   \* the UID of the next message that arrives
  validity,  \* UIDVALIDITY: changes when the mailbox is made anew
  op,        \* the call: its operation and arguments, 0 for an absent one
  step,      \* "idle", or what the connection waits for
  secure,    \* TLS with the configured host is up
  secret,    \* the password was sent
  status,    \* what EXAMINE reported
  todo,      \* UIDs of the page still to fetch
  page,      \* the UIDs fetched, and where the next page begins
  outcome,   \* what the last call returned
  walk,      \* of the caller: where its next page begins, under which UIDVALIDITY
  listed,    \* the UIDs its pages listed
  steady,    \* messages that were there when it began and were not removed since
  accepted,  \* recipients the server accepted
  reached,   \* "nothing", "part" or "whole": of the message, at the server
  finished,  \* how often the end of the message was sent
  delivered  \* what the server delivered, in order

server == <<honest, mailbox, uidNext, validity>>
reading == <<status, todo, page>>
caller == <<walk, listed, steady>>
sending == <<accepted, reached, finished, delivered>>
vars == <<server, op, step, secure, secret, reading, outcome, caller, sending>>

\* Before EXAMINE and before the first message of a page.
Nothing == [messages |-> 0, uidNext |-> 0, validity |-> 0]
Empty == [items |-> << >>, next |-> 0]

Init ==
  /\ honest \in BOOLEAN /\ mailbox = {} /\ uidNext = 1 /\ validity = 1
  /\ op = [name |-> "none"] /\ step = "idle" /\ secure = FALSE /\ secret = FALSE
  /\ status = Nothing /\ todo = << >> /\ page = Empty
  /\ outcome = [kind |-> "none"]
  /\ walk = [before |-> 0, validity |-> 0, done |-> FALSE] /\ listed = << >> /\ steady = {}
  /\ accepted = 0 /\ reached = "nothing" /\ finished = 0 /\ delivered = << >>

-----------------------------------------------------------------------------
(* The mailbox *)

Arrive ==
  /\ uidNext <= MaxUid
  /\ mailbox' = mailbox \cup {uidNext} /\ uidNext' = uidNext + 1
  /\ UNCHANGED <<honest, validity, op, step, secure, secret, reading, outcome, caller, sending>>

Expunge(uid) ==
  /\ mailbox' = mailbox \ {uid} /\ steady' = steady \ {uid}
  /\ UNCHANGED <<honest, uidNext, validity, op, step, secure, secret, reading, outcome, walk, listed,
                 sending>>

Recreate ==
  /\ validity < MaxValidity
  /\ validity' = validity + 1 /\ mailbox' = {} /\ uidNext' = 1 /\ steady' = {}
  /\ UNCHANGED <<honest, op, step, secure, secret, reading, outcome, walk, listed, sending>>

-----------------------------------------------------------------------------
(* The connection *)

Ends(result) == step' = "idle" /\ outcome' = result

\* validate: a page after the first names the UIDVALIDITY it goes on under, a message is
\* named by its UID and UIDVALIDITY.  A caller sends its message again unless the last
\* attempt was accepted, or may have been.
Begin(call) ==
  /\ step = "idle" /\ call.name \in Operations
  /\ CASE call.name = "list" -> /\ ~ walk.done
                                /\ call = [name |-> "list", before |-> walk.before,
                                           validity |-> walk.validity]
       [] call.name = "get" -> call.uid # 0 /\ call.validity # 0
       [] call.name = "mailboxes" -> call.validity = 0
       [] OTHER -> outcome.kind \notin {"accepted", "delivery_unknown"}
  /\ op' = call /\ step' = "dial" /\ outcome' = [kind |-> "none"]
  /\ secure' = FALSE /\ secret' = FALSE
  /\ accepted' = 0 /\ reached' = "nothing"
  /\ status' = Nothing /\ todo' = << >> /\ page' = Empty
  /\ UNCHANGED <<server, caller, finished, delivered>>

\* What a step that fails is reported as; the deadline of the call fails the step it is
\* in.  A message that may have reached the server is not reported as rejected.
Failure ==
  [dial |-> "connection_failed", tls |-> "tls_failed", login |-> "denied",
   authenticated |-> "authentication_failed", select |-> "mailbox_failed",
   search |-> "search_failed", fetch |-> "fetch_failed", mail |-> "sender_rejected",
   rcpt |-> "recipient_rejected", data |-> "data_rejected",
   write |-> "delivery_unknown", close |-> "delivery_unknown", reply |-> "delivery_unknown"]

Fail ==
  /\ step \in DOMAIN Failure
  /\ Ends([kind |-> Failure[step]])
  /\ reached' \in (IF step \in {"write", "close"} /\ reached # "whole" THEN {reached, "part"} ELSE {reached})
  /\ UNCHANGED <<server, op, secure, secret, reading, caller, accepted, finished, delivered>>

\* dialPublicIMAP: every address the host resolves to is public, or none is dialled.
Dial(public) ==
  /\ step = "dial"
  /\ IF public THEN step' = "tls" /\ UNCHANGED outcome ELSE Ends([kind |-> "connection_failed"])
  /\ UNCHANGED <<server, op, secure, secret, reading, caller, sending>>

\* openSecureIMAPStream, sendSMTP: at once or by STARTTLS, which the server must offer
\* and, to read, accept without sending more ahead of TLS (`clean`); TLS is up when the
\* host proved its name.
Secure(implicit, offered, clean, verified) ==
  /\ step = "tls"
  /\ IF (implicit \/ (offered /\ (clean \/ op.name = "send"))) /\ verified
     THEN secure' = TRUE /\ step' = "login" /\ UNCHANGED outcome
     ELSE Ends([kind |-> "tls_failed"]) /\ UNCHANGED secure
  /\ UNCHANGED <<server, op, secret, reading, caller, sending>>

\* The password is sent, and accepted.
Login ==
  /\ step = "login"
  /\ secret' = TRUE /\ step' = "authenticated"
  /\ UNCHANGED <<server, op, secure, reading, outcome, caller, sending>>

Authenticated ==
  /\ step = "authenticated"
  /\ step' = (IF op.name = "send" THEN "mail" ELSE "select")
  /\ UNCHANGED <<server, op, secure, secret, reading, outcome, caller, sending>>

-----------------------------------------------------------------------------
(* Reading *)

\* What EXAMINE may report.
Reports ==
  IF honest THEN {[messages |-> IF mailbox = {} THEN 0 ELSE 1, uidNext |-> uidNext, validity |-> validity]}
  ELSE [messages : 0..1, uidNext : 0..(MaxUid + 1), validity : 0..MaxValidity]

Lowest(a, b) == IF a < b THEN a ELSE b

\* listIMAPMessages: the UIDs the search covers, from `last` down.
LastOf(s) == IF op.before # 0 THEN Lowest(op.before - 1, s.uidNext - 1) ELSE s.uidNext - 1
FirstOf(last) == IF last >= Window THEN last - (Window - 1) ELSE 1

\* A page is the caller's to go on from; the first one begins the walk.
Lists(items, next, s) ==
  /\ Ends([kind |-> "page", items |-> items, next |-> next])
  /\ listed' = listed \o items
  /\ walk' = [before |-> next, validity |-> s.validity, done |-> next = 0]

\* EXAMINE, and the checks of Invoke and of the operation on what it reports.
Select(s) ==
  /\ step = "select" /\ s \in Reports
  /\ status' = s
  /\ IF s.validity = 0 THEN Ends([kind |-> "mailbox_failed"]) /\ UNCHANGED caller
     ELSE IF op.validity # 0 /\ op.validity # s.validity
     THEN Ends([kind |-> "conflict"]) /\ UNCHANGED caller
     ELSE
       /\ steady' = IF op.name = "list" /\ op.before = 0 THEN mailbox ELSE steady
       /\ CASE op.name = "mailboxes" -> Ends([kind |-> "status", validity |-> s.validity])
                                        /\ UNCHANGED <<walk, listed>>
            [] op.name = "get" -> step' = "fetch" /\ UNCHANGED <<outcome, walk, listed>>
            [] op.name = "list" ->
                 IF s.messages = 0 THEN Lists(<< >>, 0, s)
                 ELSE IF s.uidNext = 0 THEN Ends([kind |-> "uidnext_missing"]) /\ UNCHANGED <<walk, listed>>
                 ELSE IF LastOf(s) = 0 THEN Lists(<< >>, 0, s)
                 ELSE step' = "search" /\ UNCHANGED <<outcome, walk, listed>>
  /\ UNCHANGED <<server, op, secure, secret, todo, page, sending>>

\* A mailbox that is made anew ends the connections to the old one.
SameMailbox == honest => status.validity = validity

\* What UID SEARCH may answer.
Found(first, last) ==
  IF honest THEN {SetToSeq({u \in mailbox : first <= u /\ u <= last})}
  ELSE UNION {[1..n -> 0..(MaxUid + 1)] : n \in 0..2}

\* The UIDs found, from the highest down: of the window and different, or the search
\* failed.  A page has at most Limit of them; the next one goes on below the last of this
\* page, or below the window.
Search(answer) ==
  /\ step = "search" /\ SameMailbox
  /\ LET last == LastOf(status)
         first == FirstOf(last)
         uids == SortSeq(answer, LAMBDA a, b : a > b)
         shown == SubSeq(uids, 1, Lowest(Len(uids), Limit))
     IN /\ answer \in Found(first, last)
        /\ IF \E i \in DOMAIN uids : \/ uids[i] < first \/ uids[i] > last
                                     \/ i > 1 /\ uids[i] = uids[i - 1]
           THEN Ends([kind |-> "search_failed"]) /\ UNCHANGED <<todo, page>>
           ELSE /\ todo' = shown
                /\ page' = [items |-> << >>,
                            next |-> IF Len(uids) > Limit THEN Last(shown)
                                     ELSE IF first > 1 THEN first ELSE 0]
                /\ step' = "fetch" /\ UNCHANGED outcome
  /\ UNCHANGED <<server, op, secure, secret, status, caller, sending>>

\* fetchIMAPMessage of the next message of a page: one that was removed since is left out.
Fetch(there) ==
  /\ step = "fetch" /\ op.name = "list" /\ todo # << >> /\ SameMailbox
  /\ honest => there = (Head(todo) \in mailbox)
  /\ page' = IF there THEN [page EXCEPT !.items = Append(@, Head(todo))] ELSE page
  /\ todo' = Tail(todo)
  /\ UNCHANGED <<server, op, step, secure, secret, status, outcome, caller, sending>>

Return ==
  /\ step = "fetch" /\ op.name = "list" /\ todo = << >>
  /\ Lists(page.items, page.next, status)
  /\ UNCHANGED <<server, op, secure, secret, reading, steady, sending>>

\* getIMAPMessage: a message that is larger than it may be is not read.
Get(there, large) ==
  /\ step = "fetch" /\ op.name = "get" /\ SameMailbox
  /\ honest => there = (op.uid \in mailbox)
  /\ Ends(IF ~ there THEN [kind |-> "not_found"]
          ELSE IF large THEN [kind |-> "message_too_large"]
          ELSE [kind |-> "message", uid |-> op.uid, validity |-> status.validity])
  /\ UNCHANGED <<server, op, secure, secret, reading, caller, sending>>

-----------------------------------------------------------------------------
(* Sending: sendSMTP *)

\* The sender, each recipient and the start of the message are accepted.
Sender ==
  /\ step = "mail" /\ step' = "rcpt"
  /\ UNCHANGED <<server, op, secure, secret, reading, outcome, caller, sending>>

Recipient ==
  /\ step = "rcpt"
  /\ accepted' = accepted + 1
  /\ step' = IF accepted + 1 = Recipients THEN "data" ELSE "rcpt"
  /\ UNCHANGED <<server, op, secure, secret, reading, outcome, caller, reached, finished, delivered>>

Start ==
  /\ step = "data" /\ step' = "write"
  /\ UNCHANGED <<server, op, secure, secret, reading, outcome, caller, sending>>

\* The message is written; some of it may still be in a buffer.
Write ==
  /\ step = "write" /\ step' = "close"
  /\ reached' \in {"nothing", "part", "whole"}
  /\ UNCHANGED <<server, op, secure, secret, reading, outcome, caller, accepted, finished, delivered>>

\* Close of the writer: the rest of the message and its end.
Finish ==
  /\ step = "close" /\ step' = "reply"
  /\ reached' = "whole" /\ finished' = finished + 1
  /\ UNCHANGED <<server, op, secure, secret, reading, outcome, caller, accepted, delivered>>

\* The server has the end of the message and delivers it, at once or later.
Deliver ==
  /\ Len(delivered) < finished
  /\ delivered' = Append(delivered, [text |-> reached, recipients |-> accepted])
  /\ UNCHANGED <<server, op, step, secure, secret, reading, outcome, caller, accepted, reached, finished>>

Reply ==
  /\ step = "reply" /\ Len(delivered) = finished
  /\ Ends([kind |-> "accepted"])
  /\ UNCHANGED <<server, op, secure, secret, reading, caller, sending>>

-----------------------------------------------------------------------------
Calls ==
  {[name |-> "list", before |-> walk.before, validity |-> walk.validity],
   [name |-> "mailboxes", validity |-> 0], [name |-> "send", validity |-> 0]}
  \cup {[name |-> "get", uid |-> u, validity |-> walk.validity] : u \in ToSet(listed)}

Changes == honest /\ (Arrive \/ Recreate \/ \E uid \in mailbox : Expunge(uid))

Connects ==
  \/ \E call \in Calls : Begin(call)
  \/ \E public \in BOOLEAN : Dial(public)
  \/ \E implicit, offered, clean, verified \in BOOLEAN : Secure(implicit, offered, clean, verified)
  \/ Login \/ Authenticated \/ Fail

Reads ==
  \/ \E s \in Reports : Select(s)
  \/ step = "search" /\ \E answer \in Found(FirstOf(LastOf(status)), LastOf(status)) : Search(answer)
  \/ \E there \in BOOLEAN : Fetch(there) \/ \E large \in BOOLEAN : Get(there, large)
  \/ Return

Sends == Sender \/ Recipient \/ Start \/ Write \/ Finish \/ Deliver \/ Reply

Next == Changes \/ Connects \/ Reads \/ Sends

Spec == Init /\ [][Next]_vars

-----------------------------------------------------------------------------
TypeOK ==
  /\ mailbox \subseteq 1..MaxUid /\ uidNext \in 1..(MaxUid + 1) /\ validity \in 1..MaxValidity
  /\ step \in DOMAIN Failure \cup {"idle"} /\ {secure, secret, honest} \subseteq BOOLEAN
  /\ \A i \in DOMAIN listed : listed[i] \in 1..MaxUid
  /\ steady \subseteq mailbox /\ accepted \in 0..Recipients
  /\ reached \in {"nothing", "part", "whole"} /\ finished \in Nat

\* A walk that reached its end listed every message that was in the mailbox from its
\* beginning to its end; while it is on, every such message above the place it goes on
\* from.  Messages that arrive, are removed, or are removed between the search and their
\* fetch, and pages that are empty, move no other message out of its sight.
WalksMissNothing ==
  honest /\ walk.validity = validity =>
    /\ walk.done => steady \subseteq ToSet(listed)
    /\ ~ walk.done => {u \in steady : u >= walk.before} \subseteq ToSet(listed)

\* Whatever a server reports, a walk lists no message twice and goes down with every
\* page, so that it ends.
WalksDescend ==
  /\ \A i, j \in DOMAIN listed : i < j => listed[i] > listed[j]
  /\ walk.before # 0 => \A i \in DOMAIN listed : listed[i] >= walk.before
  /\ (step \in {"search", "fetch"} /\ op.name = "list" /\ op.before # 0) => LastOf(status) < op.before
  /\ (step = "fetch" /\ op.name = "list" /\ op.before # 0) => page.next < op.before

\* The message a caller gets is the one it listed: the one of that UID in the mailbox
\* the walk went through, not in one that took its place.
GotIsTheListed ==
  outcome.kind = "message" => outcome.uid \in ToSet(listed) /\ outcome.validity = walk.validity

\* A password goes only to a host that proved its name.
SecretsOverTls == secret => secure

\* What is delivered is the whole message, to every recipient, and it is delivered
\* once however often it is sent: a call that reports anything but `delivery_unknown`
\* or accepted was not delivered and will not be, a call that reports it accepted was.
DeliveredOnceAndReported ==
  /\ \A i \in DOMAIN delivered : delivered[i] = [text |-> "whole", recipients |-> Recipients]
  /\ finished <= 1
  /\ op.name = "send" =>
       /\ outcome.kind = "accepted" => Len(delivered) = 1
       /\ outcome.kind \notin {"none", "accepted", "delivery_unknown"} => finished = 0
=============================================================================

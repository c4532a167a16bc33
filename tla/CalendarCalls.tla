---------------------------- MODULE CalendarCalls ----------------------------
(***************************************************************************)
(* Calls of the Google Calendar adapter                                    *)
(* (src/packages/connectors/providers/google_calendar.go).  The adapter    *)
(* keeps nothing between calls: an event is written under the ETag the     *)
(* host read, and a host follows the events of a calendar with the page    *)
(* and sync tokens of the pages it was given.  Hosts with connections of   *)
(* their own work on one calendar; a host makes one call at a time.        *)
(* Google and what a host keeps are external.                              *)
(***************************************************************************)
EXTENDS Naturals, FiniteSets, TLC

CONSTANTS
  Hosts,
  Events,     \* identifiers Google can give to events
  Granted,    \* the scopes of each host's connection
  Tasks,      \* the operations each host has a use for
  Whens,      \* dates and times: [day : BOOLEAN, at : Nat]
  Limit,      \* events of a page: max_results
  MaxChanges, \* changes made to the calendar: a bound
  None

BoundsAssumption == Limit \in Nat \ {0} /\ MaxChanges \in Nat

VARIABLES
  calendar, \* of each event: the change that made it as it is (0: there is none),
            \* whether it is live, when it starts and ends
  changes,  \* changes made to the calendar so far; an ETag is the number of one
  call,     \* the call of each host
  known,    \* the ETag of each event a host knows of (0: it knows of none)
  page,     \* the page token a host goes on with
  synced    \* the sync token of a host

vars == <<calendar, changes, call, known, page, synced>>

\* The dates of a body; what else it has (texts, a recurrence, a status) is data.
Bodies == [start : Whens \cup {None}, end : Whens \cup {None}]
NoBody == [start |-> None, end |-> None]

Writes == {"create", "update", "delete"}
Operations == {"get", "list"} \cup Writes

TasksAssumption == Tasks \in [Hosts -> SUBSET Operations]
WhensAssumption == Whens \subseteq [day : BOOLEAN, at : Nat]

\* If-Match: * stands for any version there is.
Star == MaxChanges + 1

Idle == [op |-> "get", event |-> None, etag |-> None, body |-> NoBody, read |-> 0,
         phase |-> "idle", status |-> "none", shown |-> << >>, page |-> None, sync |-> None,
         replaced |-> None, kind |-> "none"]

Init ==
  /\ calendar = [e \in Events |-> [changed |-> 0, live |-> FALSE, start |-> None, end |-> None]]
  /\ changes = 0
  /\ call = [h \in Hosts |-> Idle]
  /\ known = [h \in Hosts |-> [e \in Events |-> 0]]
  /\ page = [h \in Hosts |-> None]
  /\ synced = [h \in Hosts |-> None]

-----------------------------------------------------------------------------
(* plan *)

\* OperationScopesGranted: no scope that only reads grants a write.
OperationScopesGranted(scopes, op) ==
  scopes \cap ({"calendar", "calendar.events"}
                 \cup IF op \in Writes THEN {}
                      ELSE {"calendar.events.readonly", "calendar.readonly"}) # {}

\* calendarETag: a quoted tag, neither weak nor a star.
calendarETag(etag) == etag \in 1..MaxChanges

\* calendarWhen and calendarValidEvent: a start comes with an end, of one kind and after it.
calendarValidEvent(body, create) ==
  /\ (body.start = None) = (body.end = None)
  /\ create => body.start # None
  /\ body.start # None => body.start.day = body.end.day /\ body.start.at < body.end.at

\* The required arguments of the operations, and what refuses a call before it is sent.
Names(op, e) == (e # None) = (op \in {"get", "update", "delete"})

Planned(c) ==
  /\ IF c.op \in {"update", "delete"} THEN calendarETag(c.etag) ELSE c.etag = None
  /\ c.op \in {"create", "update"} => calendarValidEvent(c.body, c.op = "create")

\* A listing goes on where the host is: along its pages, from its sync token, or it begins.
Cursor(h) == IF page[h] # None THEN page[h]
             ELSE [since |-> IF synced[h] = None THEN 0 ELSE synced[h], base |-> None, left |-> {}]

\* A host gives the version it read, or something that is none.  A call that is refused
\* leaves nothing behind.
Invoke(h) ==
  /\ call[h].phase \in {"idle", "returned"}
  /\ \E op \in Tasks[h], e \in Events \cup {None} :
       /\ OperationScopesGranted(Granted[h], op) /\ Names(op, e)
       /\ \E etag \in {None, Star} \cup IF e = None THEN {} ELSE {known[h][e]},
             body \in IF op \in {"create", "update"} THEN Bodies ELSE {NoBody} :
            LET c == [Idle EXCEPT !.op = op, !.event = e, !.etag = etag, !.body = body,
                                  !.phase = "sent",
                                  !.read = IF e = None THEN 0 ELSE known[h][e],
                                  !.page = IF op = "list" THEN Cursor(h) ELSE None]
            IN Planned(c) /\ call' = [call EXCEPT ![h] = c]
  /\ UNCHANGED <<calendar, changes, known, page, synced>>

-----------------------------------------------------------------------------
(* Google *)

\* An event as a reader is shown it: by its ETag, or as a tombstone.
Shown(s) == [e \in s |-> IF calendar[e].live THEN calendar[e].changed ELSE 0]

Answer(h, status, shown, next, sync) ==
  call' = [call EXCEPT ![h].phase = "answered", ![h].status = status, ![h].shown = shown,
                       ![h].page = next, ![h].sync = sync]

\* A request is refused, fails before it did anything, or does not arrive.
Refuses(h) ==
  /\ call[h].phase = "sent"
  /\ \E status \in {"denied", "limited", "failed", "lost"} \cup
                   (IF call[h].op = "list" /\ call[h].page.since > 0 THEN {"gone"} ELSE {}) :
       Answer(h, status, << >>, None, None)
  /\ UNCHANGED <<calendar, changes, known, page, synced>>

Gets(h) ==
  LET e == call[h].event
  IN /\ call[h].phase = "sent" /\ call[h].op = "get"
     /\ IF calendar[e].changed = 0 THEN Answer(h, "absent", << >>, None, None)
                                   ELSE Answer(h, "ok", Shown({e}), None, None)
     /\ UNCHANGED <<calendar, changes, known, page, synced>>

\* The query of a listing asks for tombstones.
showDeleted == TRUE

\* A page shows what changed since the token of the walk, as it is now; the last page has
\* the sync token of the moment the walk began.  A page may have both tokens by mistake.
Lists(h) ==
  LET c == call[h].page
      due == IF c.base # None THEN c.left
             ELSE {e \in Events : /\ calendar[e].changed > c.since
                                  /\ calendar[e].live \/ showDeleted}
      base == IF c.base # None THEN c.base ELSE changes
  IN /\ call[h].phase = "sent" /\ call[h].op = "list"
     /\ \E s \in SUBSET due, both \in BOOLEAN :
          /\ Cardinality(s) <= Limit /\ (s = {} => due = {})
          /\ LET rest == due \ s
             IN Answer(h, "ok", Shown(s),
                       IF rest = {} THEN None ELSE [c EXCEPT !.base = base, !.left = rest],
                       IF rest = {} \/ both THEN base ELSE None)
     /\ UNCHANGED <<calendar, changes, known, page, synced>>

\* What a request writes, if it writes: an event of a new identifier; or one with the version of
\* If-Match, when there is an If-Match, as it becomes.
Written(c, e) ==
  LET old == calendar[e]
      at(new, was) == IF new = None THEN was ELSE new
  IN [changed |-> changes + 1, live |-> c.op # "delete",
      start |-> at(c.body.start, old.start), end |-> at(c.body.end, old.end)]

Applies(h, e) ==
  /\ changes < MaxChanges /\ changes' = changes + 1
  /\ calendar' = [calendar EXCEPT ![e] = Written(call[h], e)]
  /\ \E status \in {"ok", "failed", "lost"} :
       call' = [call EXCEPT ![h].phase = "answered", ![h].status = status,
                            ![h].replaced = calendar[e].changed,
                            ![h].shown = e :> IF call[h].op = "delete" THEN 0 ELSE changes + 1]
  /\ UNCHANGED <<known, page, synced>>

Creates(h) ==
  /\ call[h].phase = "sent" /\ call[h].op = "create"
  /\ \E e \in Events : calendar[e].changed = 0 /\ Applies(h, e)

Changes(h) ==
  LET c == call[h]
      e == c.event
  IN /\ c.phase = "sent" /\ c.op \in {"update", "delete"}
     /\ IF calendar[e].live /\ c.etag \in {None, Star, calendar[e].changed}
        THEN Applies(h, e)
        ELSE /\ Answer(h, IF calendar[e].live THEN "conflict" ELSE "gone", << >>, None, None)
             /\ UNCHANGED <<calendar, changes, known, page, synced>>

-----------------------------------------------------------------------------
(* Invoke, of its answer *)

\* calendarValidResponse: a page has one token at most.
calendarValidResponse(c) == c.op = "list" => c.page = None \/ c.sync = None

Kind(c) ==
  CASE c.status = "lost" -> "network_error"
    [] c.status = "gone" -> IF c.op = "list" THEN "sync_reset_required" ELSE "resource_gone"
    [] c.status = "conflict" -> "version_conflict"
    [] c.status = "limited" -> "rate_limited"
    [] c.status = "denied" -> "provider_permission"
    [] c.status \in {"absent", "failed"} -> "provider_error"
    [] OTHER -> IF calendarValidResponse(c) THEN "result" ELSE "invalid_response"

\* What is left of a call that has returned.
Returned(h, kind) ==
  call' = [call EXCEPT ![h] = [Idle EXCEPT !.op = call[h].op, !.read = call[h].read,
                               !.replaced = call[h].replaced, !.phase = "returned", !.kind = kind]]

\* A success whose body was cut, is too large or is not what it should be.
Broken(h) ==
  /\ call[h].phase = "answered" /\ call[h].status = "ok"
  /\ Returned(h, "invalid_response")
  /\ UNCHANGED <<calendar, changes, known, page, synced>>

\* The host is told, and keeps what a result shows with the tokens of its page; that it
\* must start over is its own decision, and it takes it.
Return(h) ==
  LET c == call[h]
      kind == Kind(c)
      lists == kind = "result" /\ c.op = "list"
      restarts == kind = "sync_reset_required"
  IN /\ c.phase = "answered"
     /\ Returned(h, kind)
     /\ known' = [known EXCEPT ![h] = CASE kind = "result" -> c.shown @@ @
                                         [] restarts -> [e \in Events |-> 0]
                                         [] OTHER -> @]
     /\ page' = [page EXCEPT ![h] = IF lists /\ c.sync = None THEN c.page
                                    ELSE IF lists \/ restarts THEN None ELSE @]
     /\ synced' = [synced EXCEPT ![h] = IF lists /\ c.sync # None THEN c.sync
                                        ELSE IF restarts THEN None ELSE @]
     /\ UNCHANGED <<calendar, changes>>

-----------------------------------------------------------------------------
Next ==
  \E h \in Hosts : \/ Invoke(h) \/ Broken(h) \/ Return(h)
                   \/ Refuses(h) \/ Gets(h) \/ Lists(h) \/ Creates(h) \/ Changes(h)

Spec == Init /\ [][Next]_vars

-----------------------------------------------------------------------------
Tokens == [since : 0..MaxChanges, base : 0..MaxChanges \cup {None}, left : SUBSET Events]

TypeOK ==
  /\ calendar \in [Events -> [changed : 0..MaxChanges, live : BOOLEAN,
                              start : Whens \cup {None}, end : Whens \cup {None}]]
  /\ changes \in 0..MaxChanges
  /\ \A h \in Hosts : /\ call[h].op \in Operations
                      /\ call[h].phase \in {"idle", "sent", "answered", "returned"}
  /\ known \in [Hosts -> [Events -> 0..MaxChanges]]
  /\ page \in [Hosts -> Tokens \cup {None}]
  /\ synced \in [Hosts -> 0..MaxChanges \cup {None}]

\* No update is lost: what an update or a delete replaces is the version its host had read,
\* whatever other hosts wrote between the read and the write.
NoLostUpdate ==
  \A h \in Hosts :
    call[h].op \in {"update", "delete"} /\ call[h].replaced # None => call[h].replaced = call[h].read

\* A host is told that its write was done only when it was, and an error that says the write
\* was turned away means that it was not done: only what fails or is lost leaves it open.
WritesAreToldTruly ==
  \A h \in Hosts : call[h].phase = "returned" /\ call[h].op \in Writes =>
    /\ call[h].kind = "result" => call[h].replaced # None
    /\ call[h].kind \in {"version_conflict", "resource_gone", "rate_limited",
                         "provider_permission"} => call[h].replaced = None

\* However creates and partial updates of several hosts follow each other, an event ends
\* after it starts, and both are dates or both are times.
EventsAreWellFormed ==
  \A e \in Events : calendar[e].changed > 0 =>
    /\ calendar[e].start # None /\ calendar[e].end # None
    /\ calendar[e].start.day = calendar[e].end.day
    /\ calendar[e].start.at < calendar[e].end.at

\* A host that follows the pages to a sync token has missed nothing up to it: every event
\* that did not change since is known as it is, and a deleted one is known to be gone,
\* whatever was written while it went from page to page.
SyncMissesNothing ==
  \A h \in Hosts, e \in Events :
    synced[h] # None /\ calendar[e].changed <= synced[h] =>
      known[h][e] = IF calendar[e].live THEN calendar[e].changed ELSE 0
=============================================================================

---------------------------- MODULE SlackChannel ----------------------------
(***************************************************************************)
(* The managed Slack channel relay,                                        *)
(* packages/connectors/channels/slack.  One process serves host requests,  *)
(* browser consent pages, OAuth callbacks and Slack's signed events.       *)
(*                                                                         *)
(* Every store Update is one durable replacement of the vault, so it is    *)
(* one step here; a handler is cut at each Update, at each View whose      *)
(* result it uses later, and at each provider call.  grantMu is held by a  *)
(* request over all the steps between its Lock and Unlock.  Events,        *)
(* disconnects, acks and sessions do not take it.                          *)
(*                                                                         *)
(* A record that a Go map does not hold is the zero record, with status    *)
(* "none".  Timestamps count the whole seconds Slack's events carry.       *)
(*                                                                         *)
(* A definition marked "Faulty" is a version of the one after it with a    *)
(* plausible mistake: each property is checked to tell the two apart.      *)
(***************************************************************************)
EXTENDS Naturals, FiniteSets

CONSTANTS
    Teams,         \* Slack workspaces
    Channels,      \* channels of a workspace
    Bindings,      \* binding ids Start may mint, each with its one transaction
    Requests,      \* handler goroutines that outlive one store step
    Events,        \* event ids Slack may mint
    OpIds,         \* operation ids a host may use for its writes
    None           \* no such id

CONSTANTS          \* bounds and durations, in clock ticks
    MaxClock,      \* the clock stops here
    MaxVersion,    \* a binding is not disconnected beyond this version
    MaxSessions,   \* session tokens issued to one binding
    MaxPages,      \* pages of conversations.members (10 in the code)
    MaxDeliveries, \* records the delivery table may hold (1000 in the code)
    MaxOperations, \* records the operation table may hold (20000 in the code)
    TxLife,        \* consent transaction (15 minutes in the code)
    CallLife,      \* longest provider call (25 seconds in the code)
    GrantLife,     \* access token, less the 90 seconds of margin
    SessionLife,   \* session token (8 hours in the code)
    RetryWindow,   \* how long Slack goes on delivering one event
    Retention      \* records that are not pending are kept this long (7 days)

\* Consent and redelivery are over long before a record may be purged.
ASSUME DurationAssumption ==
    /\ {MaxClock, MaxVersion, MaxSessions, MaxPages, MaxDeliveries, MaxOperations,
        TxLife, CallLife, GrantLife, SessionLife, RetryWindow, Retention} \subseteq Nat
    /\ TxLife + CallLife <= Retention
    /\ RetryWindow <= Retention

ASSUME NoneAssumption ==
    None \notin Teams \union Channels \union Bindings \union Requests \union Events \union OpIds

ASSUME FiniteAssumption == IsFiniteSet(Events)

VARIABLES
    bindings,      \* state.Bindings
    grants,        \* state.Grants, one bot grant per team
    txs,           \* state.Transactions, by the binding each belongs to
    deliveries,    \* state.Deliveries
    operations,    \* state.Operations, by binding and operation id
    grantMu,       \* the request holding Server.grantMu, or None
    reqs,          \* the handlers in progress
    clock,
    sent,          \* external: the events Slack has minted
    minted,        \* external: when Slack issued the bot token it honours now
    accepted,      \* history: events answered with 200
    exchanges,     \* history: codes redeemed per binding
    presented,     \* history: grant versions whose refresh token was presented
    posts          \* history: chat.postMessage calls per operation

store   == <<bindings, grants, txs, deliveries, operations>>
slack   == <<sent, minted>>
history == <<accepted, exchanges, presented, posts>>
vars    == <<store, grantMu, reqs, clock, slack, history>>

-----------------------------------------------------------------------------
(* The shape of the state *)

NoTime == MaxClock + 1     \* the instant of something that has not happened

BindingStatus == {"none", "pending_consent", "authorized", "active", "failed",
                  "revoked", "disconnected"}
GrantStatus   == {"none", "active", "refreshing", "reconnect_required", "revoked"}

NoBinding  == [status |-> "none", team |-> None, channel |-> None, version |-> 0,
               session |-> 0, until |-> 0, authorizedAt |-> 0]
NoGrant    == [status |-> "none", version |-> 0, expiresAt |-> 0, authorizedAt |-> 0]
NoTx       == [status |-> "none", startedAt |-> 0]
NoDelivery == [status |-> "none", team |-> None, binding |-> None, version |-> 0,
               occurredAt |-> 0, createdAt |-> 0]
NoOp       == [status |-> "none", delivery |-> None]
NoEvent    == [type |-> "none", team |-> None, channel |-> None, bot |-> FALSE, at |-> 0]
Idle       == [kind |-> "none", at |-> "idle", binding |-> None, version |-> 0,
               session |-> 0, delivery |-> None, op |-> None, held |-> 0,
               page |-> 0, stamp |-> 0]

BindingRecords ==
    [status: BindingStatus, team: Teams \union {None}, channel: Channels \union {None},
     version: Nat, session: Nat, until: Nat, authorizedAt: Nat]
GrantRecords == [status: GrantStatus, version: Nat, expiresAt: Nat, authorizedAt: Nat]
TxRecords    == [status: {"none", "pending", "consenting", "consumed"}, startedAt: Nat]
DeliveryRecords ==
    [status: {"none", "pending", "acknowledged", "denied", "lifecycle"},
     team: Teams \union {None}, binding: Bindings \union {None}, version: Nat,
     occurredAt: Nat, createdAt: Nat]
OpRecords    == [status: {"none", "running", "completed", "outcome_unknown"},
                 delivery: Events \union {None}]
EventRecords ==
    [type: {"none", "app_mention", "app_uninstalled", "tokens_revoked"},
     team: Teams \union {None}, channel: Channels \union {None}, bot: BOOLEAN, at: Nat]

\* Where a handler stands: what it does next.
HeldSteps == {"exchange", "store", "reject",            \* the callback, holding grantMu
              "admitRefresh", "refresh", "refreshed",   \* withGrant, rotating the grant
              "members", "membersCall", "membersDone",  \* membership
              "call", "leave"}
FreeSteps == {"confirm", "consume", "cancel", "fence",  \* consent page and callback
              "admitOp", "acquire", "unknown", "finish"}
RequestRecords ==
    [kind: {"none", "install", "callback", "activate", "inbox", "read", "write", "replay"},
     at: HeldSteps \union FreeSteps \union {"idle"},
     binding: Bindings \union {None}, version: Nat, session: Nat,
     delivery: Events \union {None}, op: OpIds \union {None},
     held: Nat, page: Nat, stamp: Nat]

BindingsTyped ==
    /\ bindings \in [Bindings -> BindingRecords]
    /\ \A b \in Bindings :
          \/ bindings[b] = NoBinding
          \/ /\ bindings[b].status # "none"
             /\ bindings[b].team \in Teams /\ bindings[b].channel \in Channels

GrantsTyped ==
    /\ grants \in [Teams -> GrantRecords]
    /\ \A t \in Teams : grants[t].status # "none" => grants[t].version > 0

\* A request in progress names a binding, and only writes an operation.
ReqsTyped ==
    /\ reqs \in [Requests -> RequestRecords]
    /\ \A r \in Requests : reqs[r] # Idle =>
          /\ reqs[r].binding \in Bindings
          /\ reqs[r].kind = "write" => reqs[r].op \in OpIds /\ reqs[r].delivery \in Events

SlackTyped ==
    /\ sent \in [Events -> EventRecords]
    /\ minted \in [Teams -> Nat]
    /\ \A e \in Events : sent[e].type # "none" => sent[e].team \in Teams

HistoryTyped ==
    /\ accepted \subseteq Events
    /\ exchanges \in [Bindings -> Nat]
    /\ presented \in [Teams -> SUBSET Nat]
    /\ posts \in [Bindings -> [OpIds -> Nat]]

TypeOK ==
    /\ BindingsTyped /\ GrantsTyped
    /\ txs \in [Bindings -> TxRecords]
    /\ deliveries \in [Events -> DeliveryRecords]
    /\ operations \in [Bindings -> [OpIds -> OpRecords]]
    /\ grantMu \in Requests \union {None}
    /\ ReqsTyped
    /\ clock \in Nat
    /\ SlackTyped /\ HistoryTyped

Init ==
    /\ bindings = [b \in Bindings |-> NoBinding]
    /\ grants = [t \in Teams |-> NoGrant]
    /\ txs = [b \in Bindings |-> NoTx]
    /\ deliveries = [e \in Events |-> NoDelivery]
    /\ operations = [b \in Bindings |-> [o \in OpIds |-> NoOp]]
    /\ grantMu = None
    /\ reqs = [r \in Requests |-> Idle]
    /\ clock = 0
    /\ sent = [e \in Events |-> NoEvent]
    /\ minted = [t \in Teams |-> NoTime]
    /\ accepted = {}
    /\ exchanges = [b \in Bindings |-> 0]
    /\ presented = [t \in Teams |-> {}]
    /\ posts = [b \in Bindings |-> [o \in OpIds |-> 0]]

-----------------------------------------------------------------------------
(* Steps shared by the handlers *)

\* start refuses a channel on which some binding is neither of these.
Live(b) == bindings[b].status \notin {"none", "disconnected", "revoked"}

Begin(r, q) == reqs[r] = Idle /\ reqs' = [reqs EXCEPT ![r] = q]
Goto(r, at) == reqs' = [reqs EXCEPT ![r].at = at]
Done(r)     == reqs' = [reqs EXCEPT ![r] = Idle]

\* Faulty: a path out of the critical section misses its Unlock.
UnlockForgotten == UNCHANGED grantMu
Unlock          == grantMu' = None

\* withGrant returns an error.  api then records an unknown outcome for a write.
GiveUp(r) ==
    /\ Unlock
    /\ reqs' = [reqs EXCEPT ![r] =
                  IF @.kind = "write"
                  THEN [@ EXCEPT !.at = "unknown", !.held = 0, !.page = 0, !.stamp = 0]
                  ELSE Idle]

\* Server.current: the session of request q is the live one of an active binding.
Current(q) ==
    LET b == bindings[q.binding] IN
    /\ b.status = "active" /\ b.version = q.version
    /\ b.session = q.session /\ clock < b.until
    /\ grants[b.team].status = "active"

\* The delivery request q acts on still awaits, or has got, its accepted ack.
DeliveryOpen(q) == deliveries[q.delivery].status \in {"pending", "acknowledged"}

\* Server.admit: rechecked after every wait.  The grant is not looked at.
Admitted(q) ==
    LET b == bindings[q.binding]
        d == deliveries[q.delivery]
    IN  /\ b.version = q.version
        /\ IF q.kind = "activate"
           THEN b.status = "authorized"
           ELSE b.status = "active" /\ b.session = q.session /\ clock < b.until
        /\ q.delivery # None =>
              DeliveryOpen(q) /\ d.binding = q.binding /\ d.version = q.version

-----------------------------------------------------------------------------
(* Consent: start, installPage, callback *)

Start(b, t, c) ==
    /\ bindings[b].status = "none"
    /\ \A x \in Bindings :
          Live(x) => bindings[x].team # t \/ bindings[x].channel # c
    /\ bindings' = [bindings EXCEPT ![b] =
          [NoBinding EXCEPT !.status = "pending_consent", !.team = t, !.channel = c,
                            !.version = 1]]
    /\ txs' = [txs EXCEPT ![b] = [status |-> "pending", startedAt |-> clock]]
    /\ UNCHANGED <<grants, deliveries, operations, grantMu, reqs, clock, slack, history>>

Unexpired(b) == clock < txs[b].startedAt + TxLife

\* The POST of the consent page looks first and updates later.
InstallPage(r, b) ==
    /\ txs[b].status = "pending" /\ Unexpired(b)
    /\ bindings[b].status = "pending_consent"
    /\ Begin(r, [Idle EXCEPT !.kind = "install", !.at = "confirm", !.binding = b])
    /\ UNCHANGED <<store, grantMu, clock, slack, history>>

Confirm(r) ==
    LET b == reqs[r].binding IN
    /\ reqs[r].at = "confirm"
    /\ txs' = IF txs[b].status = "pending" /\ Unexpired(b)
              THEN [txs EXCEPT ![b].status = "consenting"] ELSE txs
    /\ Done(r)
    /\ UNCHANGED <<bindings, grants, deliveries, operations, grantMu, clock, slack, history>>

Callback(r, b) ==
    /\ txs[b].status = "consenting" /\ Unexpired(b)
    /\ bindings[b].status = "pending_consent"
    /\ Begin(r, [Idle EXCEPT !.kind = "callback", !.at = "consume", !.binding = b,
                             !.version = bindings[b].version])
    /\ UNCHANGED <<store, grantMu, clock, slack, history>>

\* Faulty: the state is spent by the earlier look, not by the Update.
ConsumeUnchecked(r) ==
    LET b == reqs[r].binding IN
    /\ reqs[r].at = "consume"
    /\ txs' = [txs EXCEPT ![b].status = "consumed"]
    /\ Goto(r, "fence")
    /\ UNCHANGED <<bindings, grants, deliveries, operations, grantMu, clock, slack, history>>

\* The state parameter is spent before anything else; the query then holds a
\* code, or an error of the user's.
Consume(r) ==
    LET b == reqs[r].binding IN
    /\ reqs[r].at = "consume"
    /\ IF txs[b].status = "consenting" /\ bindings[b].status = "pending_consent"
       THEN /\ txs' = [txs EXCEPT ![b].status = "consumed"]
            /\ \/ Goto(r, "fence")
               \/ Goto(r, "cancel")
       ELSE UNCHANGED txs /\ Done(r)
    /\ UNCHANGED <<bindings, grants, deliveries, operations, grantMu, clock, slack, history>>

\* A recorded uninstall or revocation since the consent of b began.
LifecycleSince(b) ==
    \E e \in Events :
        /\ deliveries[e].status = "lifecycle"
        /\ deliveries[e].team = bindings[b].team
        /\ deliveries[e].occurredAt >= txs[b].startedAt

FenceExchange(r) ==
    LET b == reqs[r].binding IN
    /\ reqs[r].at = "fence" /\ grantMu = None
    /\ IF /\ bindings[b].status = "pending_consent"
          /\ bindings[b].version = reqs[r].version
          /\ txs[b].status = "consumed" /\ Unexpired(b)
          /\ ~LifecycleSince(b)
       THEN Goto(r, "exchange") /\ grantMu' = r
       ELSE Done(r) /\ UNCHANGED grantMu
    /\ UNCHANGED <<store, clock, slack, history>>

\* Slack redeems the code, or refuses; an answer that is lost or not accepted is
\* rejected though Slack honours its token.  The expiry counts from before the call.
Exchange(r) ==
    LET b == reqs[r].binding IN
    /\ reqs[r].at = "exchange"
    /\ exchanges' = [exchanges EXCEPT ![b] = @ + 1]
    /\ \/ /\ reqs' = [reqs EXCEPT ![r].at = "store", ![r].stamp = clock]
          /\ minted' = [minted EXCEPT ![bindings[b].team] = clock]
       \/ /\ Goto(r, "reject")
          /\ \/ UNCHANGED minted
             \/ minted' = [minted EXCEPT ![bindings[b].team] = clock]
    /\ UNCHANGED <<store, grantMu, clock, sent, accepted, presented, posts>>

\* Faulty: fails the binding whatever became of it meanwhile.
FailBindingAnyway(r) ==
    /\ \/ reqs[r].at = "cancel" /\ UNCHANGED grantMu
       \/ reqs[r].at = "reject" /\ Unlock
    /\ bindings' = [bindings EXCEPT ![reqs[r].binding].status = "failed"]
    /\ Done(r)
    /\ UNCHANGED <<grants, txs, deliveries, operations, clock, slack, history>>

\* failBinding, after the user cancelled or Slack refused the code.
FailBinding(r) ==
    LET b == reqs[r].binding IN
    /\ \/ reqs[r].at = "cancel" /\ UNCHANGED grantMu
       \/ reqs[r].at = "reject" /\ Unlock
    /\ bindings' = IF bindings[b].status = "pending_consent"
                   THEN [bindings EXCEPT ![b].status = "failed"] ELSE bindings
    /\ Done(r)
    /\ UNCHANGED <<grants, txs, deliveries, operations, clock, slack, history>>

StoreGrant(r) ==
    LET b == reqs[r].binding
        t == bindings[b].team
    IN  /\ reqs[r].at = "store"
        /\ IF bindings[b].status = "pending_consent" /\ ~LifecycleSince(b)
           THEN /\ grants' = [grants EXCEPT ![t] =
                       [status |-> "active", version |-> @.version + 1,
                        expiresAt |-> reqs[r].stamp + GrantLife, authorizedAt |-> clock]]
                /\ bindings' = [bindings EXCEPT ![b].status = "authorized",
                                               ![b].authorizedAt = clock]
           ELSE UNCHANGED <<grants, bindings>>
        /\ Done(r) /\ Unlock
        /\ UNCHANGED <<txs, deliveries, operations, clock, slack, history>>

-----------------------------------------------------------------------------
(* Requests of a host that use the grant *)

Activate(r, b) ==
    /\ bindings[b].status = "authorized"
    /\ Begin(r, [Idle EXCEPT !.kind = "activate", !.at = "acquire", !.binding = b,
                             !.version = bindings[b].version])
    /\ UNCHANGED <<store, grantMu, clock, slack, history>>

\* A request of kind k under the session token of b that is now in force.
InSession(k, b) == [Idle EXCEPT !.kind = k, !.at = "acquire", !.binding = b,
                        !.version = bindings[b].version, !.session = bindings[b].session]

\* Server.session: the bearer token of b is in force.
SessionValid(b) == bindings[b].session > 0 /\ Current(InSession("read", b))

DeliveredTo(b, e) ==
    deliveries[e].binding = b /\ deliveries[e].version = bindings[b].version

\* An inbox without pending deliveries is answered empty, without the grant.
Inbox(r, b) ==
    /\ SessionValid(b)
    /\ \E e \in Events : DeliveredTo(b, e) /\ deliveries[e].status = "pending"
    /\ Begin(r, InSession("inbox", b))
    /\ UNCHANGED <<store, grantMu, clock, slack, history>>

\* api: a read, a write under a new operation id, or the replay of a completed
\* write.  An id in any other status, or used for another body, is refused.
Api(r, b, e) ==
    LET q == [InSession("read", b) EXCEPT !.delivery = e] IN
    /\ SessionValid(b)
    /\ DeliveredTo(b, e) /\ DeliveryOpen(q)
    /\ \/ Begin(r, q)
       \/ \E o \in OpIds :
            \/ /\ operations[b][o].status = "none"
               /\ Begin(r, [q EXCEPT !.kind = "write", !.at = "admitOp", !.op = o])
            \/ /\ operations[b][o] = [status |-> "completed", delivery |-> e]
               /\ Begin(r, [q EXCEPT !.kind = "replay", !.op = o])
    /\ UNCHANGED <<store, grantMu, clock, slack, history>>

OperationCount ==
    Cardinality({x \in Bindings \X OpIds : operations[x[1]][x[2]].status # "none"})

\* The write's operation becomes durable before any provider call.
AdmitOperation(r) ==
    LET q == reqs[r] IN
    /\ q.at = "admitOp"
    /\ IF /\ Current(q)
          /\ OperationCount < MaxOperations
          /\ operations[q.binding][q.op].status = "none"
       THEN /\ operations' = [operations EXCEPT ![q.binding][q.op] =
                                 [status |-> "running", delivery |-> q.delivery]]
            /\ Goto(r, "acquire")
       ELSE UNCHANGED operations /\ Done(r)
    /\ UNCHANGED <<bindings, grants, txs, deliveries, grantMu, clock, slack, history>>

\* withGrant up to its first provider call.  Lock, guard, View and the Update
\* that marks the rotation are one step: only events change a grant whose mutex
\* is held, and an event between any two of them makes the next one refuse.
Acquire(r) ==
    LET q == reqs[r]
        t == bindings[q.binding].team
    IN  /\ q.at = "acquire" /\ grantMu = None
        /\ \/ /\ ~(Admitted(q) /\ grants[t].status = "active")
              /\ GiveUp(r) /\ UNCHANGED grants
           \/ /\ Admitted(q) /\ grants[t].status = "active"
              /\ grantMu' = r
              /\ IF clock < grants[t].expiresAt
                 THEN /\ reqs' = [reqs EXCEPT ![r].at = "members",
                                              ![r].held = grants[t].version]
                      /\ UNCHANGED grants
                 ELSE /\ reqs' = [reqs EXCEPT ![r].at = "admitRefresh",
                                              ![r].held = grants[t].version]
                      /\ grants' = [grants EXCEPT ![t].status = "refreshing"]
        /\ UNCHANGED <<bindings, txs, deliveries, operations, clock, slack, history>>

\* Faulty: the lock is taken to keep the grant as it was.
RotationAssumed(r) == grants[bindings[reqs[r].binding].team].status # "none"

\* The rotation that request r has marked is still on the grant.
Rotating(r) ==
    LET g == grants[bindings[reqs[r].binding].team] IN
    g.status = "refreshing" /\ g.version = reqs[r].held

\* What r leaves of a rotation that is over.
RotationEnds(r, status) ==
    grants' = IF Rotating(r)
              THEN [grants EXCEPT ![bindings[reqs[r].binding].team].status = status]
              ELSE grants

\* The guard again, after the Update; a refusal puts the grant back.
AdmitRefresh(r) ==
    /\ reqs[r].at = "admitRefresh"
    /\ IF Admitted(reqs[r])
       THEN Goto(r, "refresh") /\ UNCHANGED <<grants, grantMu>>
       ELSE RotationEnds(r, "active") /\ GiveUp(r)
    /\ UNCHANGED <<bindings, txs, deliveries, operations, clock, slack, history>>

\* The call presents the refresh token; Slack voids it whatever the answer.
Refresh(r) ==
    /\ reqs[r].at = "refresh"
    /\ presented' = [presented EXCEPT ![bindings[reqs[r].binding].team] = @ \union {reqs[r].held}]
    /\ reqs' = [reqs EXCEPT ![r].at = "refreshed", ![r].stamp = clock]
    /\ UNCHANGED <<store, grantMu, clock, slack, accepted, exchanges, posts>>

\* The answer: an error, or a successor that keeps the consent's time.
Refreshed(r) ==
    LET t == bindings[reqs[r].binding].team IN
    /\ reqs[r].at = "refreshed"
    /\ \/ RotationEnds(r, "reconnect_required") /\ GiveUp(r)
       \/ ~Rotating(r) /\ GiveUp(r) /\ UNCHANGED grants
       \/ /\ Rotating(r)
          /\ grants' = [grants EXCEPT ![t].status = "active", ![t].version = @ + 1,
                                     ![t].expiresAt = reqs[r].stamp + GrantLife]
          /\ reqs' = [reqs EXCEPT ![r].at = "members", ![r].held = @ + 1, ![r].stamp = 0]
          /\ UNCHANGED grantMu
    /\ UNCHANGED <<bindings, txs, deliveries, operations, clock, slack, history>>

\* membership admits each page before it is read, and the last one after.
AdmitMembers(r) ==
    /\ reqs[r].at = "members"
    /\ IF Admitted(reqs[r])
       THEN Goto(r, "membersCall") /\ UNCHANGED grantMu
       ELSE GiveUp(r)
    /\ UNCHANGED <<store, clock, slack, history>>

\* conversations.members: an unusable page, a page with a cursor, or the last
\* page with both the bot and the consenting user among the members.
Members(r) ==
    /\ reqs[r].at = "membersCall"
    /\ \/ GiveUp(r)
       \/ /\ reqs[r].page + 1 < MaxPages
          /\ reqs' = [reqs EXCEPT ![r].at = "members", ![r].page = @ + 1]
          /\ UNCHANGED grantMu
       \/ reqs' = [reqs EXCEPT ![r].at = "membersDone", ![r].page = 0] /\ UNCHANGED grantMu
    /\ UNCHANGED <<store, clock, slack, history>>

\* The admission after the last page; api's own admission follows at once.
AdmitCall(r) ==
    /\ reqs[r].at = "membersDone"
    /\ IF Admitted(reqs[r])
       THEN /\ Goto(r, IF reqs[r].kind \in {"inbox", "replay"} THEN "leave" ELSE "call")
            /\ UNCHANGED grantMu
       ELSE GiveUp(r)
    /\ UNCHANGED <<store, clock, slack, history>>

\* The provider call the request is for, made or not made when it errs.
Call(r) ==
    LET q == reqs[r] IN
    /\ q.at = "call"
    /\ posts' = IF q.kind = "write" THEN [posts EXCEPT ![q.binding][q.op] = @ + 1] ELSE posts
    /\ \/ Goto(r, "leave") /\ UNCHANGED grantMu
       \/ GiveUp(r)
    /\ UNCHANGED <<store, clock, slack, accepted, exchanges, presented>>

\* withGrant returns a result only under the grant it called with.
Leave(r) ==
    LET g == grants[bindings[reqs[r].binding].team] IN
    /\ reqs[r].at = "leave"
    /\ IF g.status = "active" /\ g.version = reqs[r].held
       THEN /\ reqs' = [reqs EXCEPT ![r].at = "finish", ![r].held = 0]
            /\ Unlock
       ELSE GiveUp(r)
    /\ UNCHANGED <<store, clock, slack, history>>

OutcomeUnknown(r) ==
    LET q == reqs[r] IN
    /\ q.at = "unknown"
    /\ operations' = IF operations[q.binding][q.op].status = "running"
                     THEN [operations EXCEPT ![q.binding][q.op].status = "outcome_unknown"]
                     ELSE operations
    /\ Done(r)
    /\ UNCHANGED <<bindings, grants, txs, deliveries, grantMu, clock, slack, history>>

ActivateBinding(r) ==
    LET b == bindings[reqs[r].binding] IN
    /\ reqs[r].at = "finish" /\ reqs[r].kind = "activate"
    /\ bindings' = IF /\ b.version = reqs[r].version /\ b.status = "authorized"
                      /\ grants[b.team].status = "active"
                   THEN [bindings EXCEPT ![reqs[r].binding].status = "active"]
                   ELSE bindings
    /\ Done(r)
    /\ UNCHANGED <<grants, txs, deliveries, operations, grantMu, clock, slack, history>>

CompleteOperation(r) ==
    LET q == reqs[r] IN
    /\ q.at = "finish" /\ q.kind = "write"
    /\ operations' =
          IF Current(q) /\ DeliveryOpen(q) /\ operations[q.binding][q.op].status = "running"
          THEN [operations EXCEPT ![q.binding][q.op].status = "completed"]
          ELSE operations          \* still running: only a restart resolves it
    /\ Done(r)
    /\ UNCHANGED <<bindings, grants, txs, deliveries, grantMu, clock, slack, history>>

\* inbox, a read and a replay answer, or refuse, and leave the store alone.
Answer(r) ==
    /\ reqs[r].at = "finish" /\ reqs[r].kind \in {"inbox", "read", "replay"}
    /\ Done(r)
    /\ UNCHANGED <<store, grantMu, clock, slack, history>>

-----------------------------------------------------------------------------
(* Requests of a host that are one Update *)

IssueSession(b) ==
    /\ bindings[b].status = "active"
    /\ grants[bindings[b].team].status = "active"
    /\ bindings[b].session < MaxSessions
    /\ bindings' = [bindings EXCEPT ![b].session = @ + 1, ![b].until = clock + SessionLife]
    /\ UNCHANGED <<grants, txs, deliveries, operations, grantMu, reqs, clock, slack, history>>

\* Faulty: the record is wiped with its destination.
DisconnectWipes(b) ==
    /\ bindings[b].status # "none"
    /\ bindings[b].version < MaxVersion
    /\ bindings' = [bindings EXCEPT ![b] =
          [NoBinding EXCEPT !.status = "disconnected", !.version = bindings[b].version + 1]]
    /\ UNCHANGED <<grants, txs, deliveries, operations, grantMu, reqs, clock, slack, history>>

\* Whatever the status was, and at any moment of another handler.
Disconnect(b) ==
    /\ bindings[b].status # "none"
    /\ bindings[b].version < MaxVersion
    /\ bindings' = [bindings EXCEPT ![b].status = "disconnected", ![b].version = @ + 1,
                                   ![b].session = 0]
    /\ UNCHANGED <<grants, txs, deliveries, operations, grantMu, reqs, clock, slack, history>>

\* Faulty: the last ack wins.
AckAgain(b, e, outcome) ==
    /\ SessionValid(b)
    /\ DeliveredTo(b, e)
    /\ deliveries' = [deliveries EXCEPT ![e].status = outcome]
    /\ UNCHANGED <<bindings, grants, txs, operations, grantMu, reqs, clock, slack, history>>

Ack(b, e, outcome) ==
    /\ SessionValid(b)
    /\ DeliveredTo(b, e)
    /\ deliveries[e].status \in {"pending", outcome}
    /\ deliveries' = [deliveries EXCEPT ![e].status = outcome]
    /\ UNCHANGED <<bindings, grants, txs, operations, grantMu, reqs, clock, slack, history>>

-----------------------------------------------------------------------------
(* Slack: events minted there, delivered once or more, late or out of order *)

MintMention(e, t, c) ==
    /\ sent[e] = NoEvent
    /\ minted[t] # NoTime
    /\ sent' = [sent EXCEPT ![e] = [type |-> "app_mention", team |-> t, channel |-> c,
                                   bot |-> FALSE, at |-> clock]]
    /\ UNCHANGED <<store, grantMu, reqs, clock, minted, history>>

\* An uninstall or a revocation of the bot token ends what Slack honours; a
\* revocation of some user's token (bot = FALSE) does not.
MintLifecycle(e, t, type, bot) ==
    /\ sent[e] = NoEvent
    /\ minted[t] # NoTime
    /\ type = "app_uninstalled" => bot
    /\ sent' = [sent EXCEPT ![e] = [type |-> type, team |-> t, channel |-> None,
                                   bot |-> bot, at |-> clock]]
    /\ minted' = IF bot THEN [minted EXCEPT ![t] = NoTime] ELSE minted
    /\ UNCHANGED <<store, grantMu, reqs, clock, history>>

Arrives(e) == sent[e] # NoEvent /\ clock <= sent[e].at + RetryWindow

\* Faulty: whatever is not pending is purged at once.
PurgedAtOnce ==
    [x \in Events |-> IF deliveries[x].status # "pending" THEN NoDelivery ELSE deliveries[x]]

\* What the purge of an accepted new event leaves.
Purged ==
    [x \in Events |->
        IF deliveries[x].status # "pending" /\ clock > deliveries[x].createdAt + Retention
        THEN NoDelivery ELSE deliveries[x]]

Stored(table) == {x \in Events : table[x].status # "none"}

New(e) == deliveries[e].status = "none" /\ Cardinality(Stored(Purged)) < MaxDeliveries

\* A repeated delivery is answered again and changes nothing.
ReceiveAgain(e) ==
    /\ Arrives(e) /\ deliveries[e].status # "none"
    /\ accepted' = accepted \union {e}
    /\ UNCHANGED <<store, grantMu, reqs, clock, slack, exchanges, presented, posts>>

Affects(e) ==
    \/ sent[e].type = "app_uninstalled"
    \/ sent[e].bot /\ grants[sent[e].team].status # "none"   \* its bot user is known

\* Faulty: only destinations in service are revoked.
RevocableActive(b, t) == bindings[b].team = t /\ bindings[b].status = "active"

Revocable(b, t) == bindings[b].team = t /\ bindings[b].status # "disconnected"

\* Revokes the grant and every binding of the team, unless the event is older
\* than the consent; recorded in either case, when it affects the bot.
ReceiveLifecycle(e) ==
    LET t == sent[e].team
        hits == Affects(e) /\ grants[t].status # "none" /\ sent[e].at >= grants[t].authorizedAt
    IN  /\ Arrives(e) /\ New(e)
        /\ sent[e].type \in {"app_uninstalled", "tokens_revoked"}
        /\ grants' = IF hits
                     THEN [grants EXCEPT ![t].status = "revoked", ![t].version = @ + 1]
                     ELSE grants
        /\ bindings' =
             [b \in Bindings |->
                IF hits /\ Revocable(b, t)
                THEN [bindings[b] EXCEPT !.status = "revoked", !.authorizedAt = sent[e].at,
                                         !.version = @ + 1, !.session = 0]
                ELSE bindings[b]]
        /\ deliveries' =
             IF Affects(e)
             THEN [Purged EXCEPT ![e] = [NoDelivery EXCEPT !.status = "lifecycle", !.team = t,
                                         !.occurredAt = sent[e].at, !.createdAt = clock]]
             ELSE Purged
        /\ accepted' = accepted \union {e}
        /\ UNCHANGED <<txs, operations, grantMu, reqs, clock, slack, exchanges, presented, posts>>

\* Faulty: when the mention was written does not matter.
DestinationsNow(e) ==
    {b \in Bindings :
        /\ bindings[b].team = sent[e].team /\ bindings[b].channel = sent[e].channel
        /\ bindings[b].status = "active" /\ grants[sent[e].team].status = "active"}

\* The active bindings a mention is for.
Destinations(e) ==
    {b \in Bindings :
        /\ bindings[b].team = sent[e].team /\ bindings[b].channel = sent[e].channel
        /\ bindings[b].status = "active" /\ grants[sent[e].team].status = "active"
        /\ sent[e].at >= bindings[b].authorizedAt}

ReceiveMention(e) ==
    /\ Arrives(e) /\ New(e)
    /\ sent[e].type = "app_mention"
    /\ \/ Destinations(e) = {} /\ deliveries' = Purged
       \/ \E b \in Bindings :
            /\ Destinations(e) = {b}
            /\ deliveries' = [Purged EXCEPT ![e] =
                 [status |-> "pending", team |-> sent[e].team, binding |-> b,
                  version |-> bindings[b].version, occurredAt |-> sent[e].at,
                  createdAt |-> clock]]
    /\ accepted' = accepted \union {e}
    /\ UNCHANGED <<bindings, grants, txs, operations, grantMu, reqs, clock, slack,
                   exchanges, presented, posts>>

-----------------------------------------------------------------------------
(* Time, failing storage, restarts *)

\* No provider call of a callback outlasts its request's deadline.
Tick ==
    /\ clock < MaxClock
    /\ \A r \in Requests : reqs[r].at \in {"exchange", "store", "reject"} =>
          clock < txs[reqs[r].binding].startedAt + TxLife + CallLife
    /\ clock' = clock + 1
    /\ UNCHANGED <<store, grantMu, reqs, slack, history>>

\* The Update a handler is about to make fails and changes nothing; that includes
\* the one that takes back a rotation.
StoreFails(r) ==
    /\ \/ /\ reqs[r].at \in {"confirm", "consume", "cancel", "admitOp", "unknown", "finish"}
          /\ Done(r) /\ UNCHANGED grantMu
       \/ reqs[r].at \in {"store", "reject"} /\ Done(r) /\ Unlock
       \/ reqs[r].at = "admitRefresh" /\ ~Admitted(reqs[r]) /\ GiveUp(r)
       \/ reqs[r].at = "refreshed" /\ GiveUp(r)
       \/ reqs[r].at = "acquire" /\ grantMu = None /\ GiveUp(r)
    /\ UNCHANGED <<store, clock, slack, history>>

\* Faulty: an operation without an outcome is forgotten, to be tried again.
ForgottenOp(op) == IF op.status = "running" THEN NoOp ELSE op

RecoveredOp(op) ==
    IF op.status = "running" THEN [op EXCEPT !.status = "outcome_unknown"] ELSE op

\* Faulty: an interrupted rotation is taken up again with the old tokens.
RetriedGrant(g) == IF g.status = "refreshing" THEN [g EXCEPT !.status = "active"] ELSE g

RecoveredGrant(g) ==
    IF g.status = "refreshing" THEN [g EXCEPT !.status = "reconnect_required"] ELSE g

\* The process stops at any moment; OpenStore recovers before serving again.
Restart ==
    /\ operations' = [b \in Bindings |-> [o \in OpIds |-> RecoveredOp(operations[b][o])]]
    /\ grants' = [t \in Teams |-> RecoveredGrant(grants[t])]
    /\ grantMu' = None
    /\ reqs' = [r \in Requests |-> Idle]
    /\ UNCHANGED <<bindings, txs, deliveries, clock, slack, history>>

-----------------------------------------------------------------------------

CallbackStep(r) ==
    \/ Consume(r) \/ FailBinding(r) \/ FenceExchange(r) \/ Exchange(r) \/ StoreGrant(r)

GrantStep(r) ==
    \/ AdmitRefresh(r) \/ Refresh(r) \/ Refreshed(r) \/ AdmitMembers(r) \/ Members(r)
    \/ AdmitCall(r) \/ Call(r) \/ Leave(r)

\* What a handler does on its own once its request is in.
Proceed(r) ==
    \/ Confirm(r) \/ CallbackStep(r) \/ AdmitOperation(r) \/ Acquire(r) \/ GrantStep(r)
    \/ OutcomeUnknown(r) \/ ActivateBinding(r) \/ CompleteOperation(r) \/ Answer(r)

Request(r, b) ==
    \/ InstallPage(r, b) \/ Callback(r, b) \/ Activate(r, b) \/ Inbox(r, b)
    \/ \E e \in Events : Api(r, b, e)

Host(b) ==
    \/ \E t \in Teams, c \in Channels : Start(b, t, c)
    \/ IssueSession(b) \/ Disconnect(b)
    \/ \E e \in Events, outcome \in {"acknowledged", "denied"} : Ack(b, e, outcome)

Slack(e) ==
    \/ \E t \in Teams, c \in Channels : MintMention(e, t, c)
    \/ \E t \in Teams, bot \in BOOLEAN, type \in {"app_uninstalled", "tokens_revoked"} :
          MintLifecycle(e, t, type, bot)
    \/ ReceiveAgain(e) \/ ReceiveLifecycle(e) \/ ReceiveMention(e)

Next ==
    \/ \E r \in Requests : Proceed(r) \/ StoreFails(r) \/ \E b \in Bindings : Request(r, b)
    \/ \E b \in Bindings : Host(b)
    \/ \E e \in Events : Slack(e)
    \/ Tick
    \/ Restart

Spec == Init /\ [][Next]_vars

\* Handlers run to their end (every wait has a deadline) and sync.Mutex starves
\* no one; hosts, users, Slack, the clock and the disk promise nothing.
FairSpec == Spec /\ \A r \in Requests :
    WF_vars(Proceed(r)) /\ SF_vars(Acquire(r)) /\ SF_vars(FenceExchange(r))

-----------------------------------------------------------------------------
(* Safety *)

\* grantMu serialises every use of the bot grant: a handler between its Lock
\* and Unlock is the owner, and no path keeps the lock beyond its handler
\* (callback and withGrant, over every early return, failed store and restart).
OneGrantOwner == \A r \in Requests : (reqs[r].at \in HeldSteps) <=> (grantMu = r)

\* A workspace channel is routed to at most one binding, whatever consents,
\* activations, disconnects and lifecycle events race: start's check is made
\* once, so no handler may bring a disconnected or revoked binding back.
OneLiveBindingPerChannel ==
    \A b, x \in Bindings :
        Live(b) /\ Live(x) /\ b # x =>
            bindings[b].team # bindings[x].team \/ bindings[b].channel # bindings[x].channel

\* No destination outlives its workspace grant: a binding that is authorized or
\* active belongs to a team whose grant exists and has not been revoked, so the
\* revocation in events misses no binding, however late its consent finished.
LiveBindingHasGrant ==
    \A b \in Bindings : bindings[b].status \in {"authorized", "active"} =>
        grants[bindings[b].team].status \notin {"none", "revoked"}

\* A recorded uninstall or revocation fences what was authorized no later: no
\* refresh in flight, delayed callback or restart leaves a usable or pending
\* grant whose consent is as old as a lifecycle record of its team.
RecordedRevocationFences ==
    \A t \in Teams, e \in Events :
        /\ deliveries[e].status = "lifecycle" /\ deliveries[e].team = t
        /\ grants[t].status \in {"active", "refreshing", "reconnect_required"}
        => deliveries[e].occurredAt < grants[t].authorizedAt

\* An OAuth code is redeemed at most once per consent, though the browser may
\* repeat the callback, in parallel or after a restart.
ConsentExchangedOnce == \A b \in Bindings : exchanges[b] <= 1

\* A refresh token is presented to Slack once: rotation voids it, so neither a
\* second request nor a restart in the middle may present it again.
RefreshTokenUsedOnce ==
    [][\A r \in Requests : Refresh(r) =>
          reqs[r].held \notin presented[bindings[reqs[r].binding].team]]_vars

\* A message is posted at most once under an operation id, over retries, lost
\* answers and restarts; and an operation the relay calls completed was posted.
PostedAtMostOnce ==
    \A b \in Bindings, o \in OpIds :
        /\ posts[b][o] <= 1
        /\ operations[b][o].status = "completed" => posts[b][o] = 1

\* What was reported final stays: a completed or unknown operation keeps its
\* outcome, an acknowledged or denied delivery is never decided again, and a
\* disconnected or revoked binding comes back in no live status.
OutcomesAreFinal ==
    [][/\ \A b \in Bindings, o \in OpIds :
            operations[b][o].status \in {"completed", "outcome_unknown"} =>
                operations'[b][o] = operations[b][o]
       /\ \A e \in Events :
            deliveries[e].status \in {"acknowledged", "denied"} =>
                deliveries'[e] \in {deliveries[e], NoDelivery}
       /\ \A b \in Bindings : ~Live(b) /\ bindings[b].status # "none" => ~Live(b)']_vars

\* A mention waits only for the destination that had consented by the time it
\* was written in Slack, on that destination's own channel; no later version of
\* the binding can read it.
MentionsReachTheirConsent ==
    \A e \in Events : deliveries[e].status = "pending" =>
        LET b == bindings[deliveries[e].binding] IN
        /\ deliveries[e].version <= b.version
        /\ b.version = deliveries[e].version =>
              /\ b.status = "active"
              /\ b.team = sent[e].team /\ b.channel = sent[e].channel
              /\ sent[e].at >= b.authorizedAt

\* An accepted uninstall fences the callbacks whose consent had begun, whether
\* it is handled before, during or after the code exchange: its record outlives
\* every such consent, though other records are purged and the table is full.
UninstallFencesDelayedCallback ==
    [][\A b \in Bindings :
          bindings[b].status = "pending_consent" /\ bindings'[b].status = "authorized" =>
             ~ \E e \in accepted :
                 /\ sent[e].team = bindings[b].team
                 /\ sent[e].type = "app_uninstalled"
                 /\ sent[e].at >= txs[b].startedAt]_vars

-----------------------------------------------------------------------------
(* Liveness *)

\* Every handler ends, and so releases grantMu: no path waits for a lock, a
\* page or an answer for ever.
HandlersEnd == \A r \in Requests : reqs[r] # Idle ~> reqs[r] = Idle

-----------------------------------------------------------------------------
(* What the documentation says *)

\* server.go:387, "An uninstall/revocation after consent began fences a delayed
\* callback."
RevocationFencesDelayedCallback ==
    [][\A b \in Bindings :
          bindings[b].status = "pending_consent" /\ bindings'[b].status = "authorized" =>
             ~ \E e \in accepted :
                 /\ sent[e].team = bindings[b].team /\ sent[e].bot
                 /\ sent[e].type \in {"app_uninstalled", "tokens_revoked"}
                 /\ sent[e].at >= txs[b].startedAt]_vars

\* channels/slack/README.md:100, "Workspace app uninstall or matching bot-token
\* revocation fences its destinations.": of a workspace whose only lifecycle
\* events are uninstalls, all accepted, an authorized or active binding has a
\* grant Slack honours.
UninstallFencesDestinations ==
    \A b \in Bindings :
        LET t == bindings[b].team IN
        /\ bindings[b].status \in {"authorized", "active"}
        /\ \A e \in Events : sent[e].team = t =>
              e \in accepted /\ sent[e].type # "tokens_revoked"
        => minted[t] # NoTime
=============================================================================

---------------------------- MODULE PrivacyEvents ----------------------------
(***************************************************************************)
(* Shopify's uninstall and shop/redact webhooks in the broker              *)
(* (packages/connectors/auth: webhook, events and ack of server.go,        *)
(* shopify_receipts.go, shopify_uninstall_safety.go, legacy_webhooks.go):  *)
(* they arrive late, repeated and out of order with each other and with    *)
(* new authorizations of the shop, are kept until every recipient has      *)
(* acknowledged them, and may revoke the shop's group.  One shop stands    *)
(* for all.  customers/* webhooks are left out: they revoke nothing and    *)
(* are paired with nothing.  A definition marked "Faulty" is a version of  *)
(* the one after it with a plausible mistake.                              *)
(*                                                                         *)
(* Times are logical: acquisitions, uninstalls and redacts each take a     *)
(* moment of their own, in the order in which they happen.                 *)
(***************************************************************************)
EXTENDS Naturals, FiniteSets, Sequences, SequencesExt

CONSTANTS
    Recipients,         \* installations that may consent to the shop
    Uninstalls,         \* app/uninstalled events of the shop
    Redacts,            \* shop/redact events of the shop
    Historic,           \* uninstalls stored by a broker before the upgrade
    NoEvent,            \* no uninstall named
    Legacy,             \* whether legacy webhook routes are configured
    Delay,              \* shopRedactMinimumDelay, in moments
    Skew,               \* how far Shopify's clock is ahead of the broker's
    MaxTime             \* bound on the moments

PrivacyAssumption ==
    /\ Uninstalls \intersect Redacts = {} /\ NoEvent \notin Uninstalls \union Redacts
    /\ Historic \subseteq Uninstalls
    /\ Legacy \in BOOLEAN /\ Delay \in Nat /\ Skew \in Nat /\ MaxTime \in Nat

VARIABLES
    now,                \* the broker's clock
    shop,               \* the truth: the shop's installations of the app
    group,              \* State.Groups[id], as far as events look at it
    auth,               \* the authorization under way, if any
    events,             \* State.Events, in the store
    heard,              \* heard[m]: receipts handed to m
    worker              \* the goroutine that posts to the legacy routes

vars == <<now, shop, group, auth, events, heard, worker>>

Events == Uninstalls \union Redacts
Times == 0 .. MaxTime + Skew
Never == 0

\* gen counts the installations of the app; uninstall u ended installation
\* ended[u], at happened[u].
Shop == [installed : BOOLEAN, gen : Times, happened : [Events -> Times],
         ended : [Uninstalls -> Times]]

\* gen: the installation the group's credential comes from (history).
Group == [exists : BOOLEAN, authorizedAt : Times, lastAcquired : Times, uncertain : BOOLEAN,
          revoked : BOOLEAN, recipients : SUBSET Recipients, gen : Times]

\* pending: a PendingReason is set.
Absent == [stored |-> FALSE]
Event == [stored : {TRUE}, occurred : Times, pending : BOOLEAN, emitted : BOOLEAN,
          pair : Uninstalls \union {NoEvent}, cutoff : Times,
          acks : [Recipients -> {"none", "owed", "acked"}],
          legacy : {"none", "owed", "acked"}, payload : BOOLEAN]

HistoricEvent == [stored |-> TRUE, occurred |-> 1, pending |-> TRUE, emitted |-> FALSE,
                  pair |-> NoEvent, cutoff |-> 1, acks |-> [m \in Recipients |-> "owed"],
                  legacy |-> "none", payload |-> TRUE]

Resting == [at |-> "idle"]

\* NewStore has quarantined the historic uninstalls by now.
Init ==
    /\ now = 1
    /\ shop = [installed |-> FALSE, gen |-> 0,
               happened |-> [e \in Events |-> IF e \in Historic THEN 1 ELSE Never],
               ended |-> [u \in Uninstalls |-> 0]]
    /\ group = [exists |-> FALSE, authorizedAt |-> Never, lastAcquired |-> Never,
                uncertain |-> FALSE, revoked |-> FALSE, recipients |-> {}, gen |-> 0]
    /\ auth = "idle"
    /\ events = [e \in Events |-> IF e \in Historic THEN HistoricEvent ELSE Absent]
    /\ heard = [m \in Recipients |-> {}]
    /\ worker = Resting

-----------------------------------------------------------------------------
(* What may be released *)

Stored(es) == {e \in Events : es[e].stored}

EligibleUninstall(es, u) == u \in Uninstalls /\ es[u].stored /\ ~es[u].pending

Before(u, r, es) == es[u].occurred + Delay <= es[r].occurred

ValidNativeReceipt(es, e) ==
    /\ ~es[e].pending
    /\ e \in Redacts => /\ EligibleUninstall(es, es[e].pair)
                        /\ es[e].cutoff = es[es[e].pair].occurred
                        /\ Before(es[e].pair, e, es)

\* cutoffDeliveryReady.
Ready(es, e) == IF e \in Uninstalls THEN EligibleUninstall(es, e) ELSE ValidNativeReceipt(es, e)

\* The uninstalls that emitted redacts name.
Used(es) == {es[r].pair : r \in {x \in Redacts \intersect Stored(es) : es[x].emitted}}

\* Uninstalls r might answer, and those that make the answer uncertain.
Candidates(es, r, used) ==
    {u \in Uninstalls \intersect Stored(es) : u \notin used /\ Before(u, r, es)}

\* The only uninstall r can belong to, if there is just one and it is certain.
Paired(es, r, used) ==
    LET candidates == Candidates(es, r, used)
    IN  IF Cardinality(candidates) = 1 /\ \A u \in candidates : ~es[u].pending
          THEN CHOOSE u \in candidates : TRUE ELSE NoEvent

\* Faulty: pairs emitted redacts anew, too.
ReconciledAll(es) ==
    LET redacts == {r \in Redacts \intersect Stored(es) : TRUE}
        order == SetToSortSeq(redacts, LAMBDA a, b : es[a].occurred < es[b].occurred)
        Pair(st, r) ==
            LET u == Paired(st.es, r, st.used)
            IN  [es |-> [st.es EXCEPT ![r].pair = u, ![r].pending = (u = NoEvent),
                                      ![r].cutoff = IF u = NoEvent THEN Never ELSE st.es[u].occurred],
                 used |-> st.used \union {u}]
    IN  FoldLeft(Pair, [es |-> es, used |-> {NoEvent}], order).es

\* reconcileShopRedacts: oldest redact first, each takes the uninstall that can
\* only be its own; emitted redacts keep theirs.
Reconciled(es) ==
    LET emitted == {r \in Redacts \intersect Stored(es) : es[r].emitted}
        sealed == [e \in Events |-> IF e \in emitted /\ ~EligibleUninstall(es, es[e].pair)
                                      THEN [es[e] EXCEPT !.pending = TRUE] ELSE es[e]]
        order == SetToSortSeq((Redacts \intersect Stored(es)) \ emitted,
                              LAMBDA a, b : es[a].occurred < es[b].occurred)
        Pair(st, r) ==
            LET u == Paired(st.es, r, st.used)
            IN  [es |-> [st.es EXCEPT ![r].pair = u, ![r].pending = (u = NoEvent),
                                      ![r].cutoff = IF u = NoEvent THEN Never ELSE st.es[u].occurred],
                 used |-> st.used \union {u}]
    IN  FoldLeft(Pair, [es |-> sealed, used |-> Used(es) \union {NoEvent}], order).es

-----------------------------------------------------------------------------
(* The shop *)

Moment == now < MaxTime /\ now' = now + 1

Tick ==
    /\ Moment
    /\ UNCHANGED <<shop, group, auth, events, heard, worker>>

ShopUninstalls(u) ==
    /\ Moment
    /\ shop.installed /\ shop.happened[u] = Never
    /\ shop' = [shop EXCEPT !.installed = FALSE, !.happened[u] = now', !.ended[u] = shop.gen]
    /\ UNCHANGED <<group, auth, events, heard, worker>>

\* Shopify asks for the redaction of an uninstall, once, after the delay.
ShopRedacts(r) ==
    /\ Moment
    /\ shop.happened[r] = Never
    /\ \E u \in Uninstalls \ Historic :
          shop.happened[u] # Never /\ shop.happened[u] + Delay <= now'
    /\ Cardinality({x \in Redacts : shop.happened[x] # Never})
         < Cardinality({u \in Uninstalls \ Historic : shop.happened[u] # Never})
    /\ shop' = [shop EXCEPT !.happened[r] = now']
    /\ UNCHANGED <<group, auth, events, heard, worker>>

-----------------------------------------------------------------------------
(* Authorizations, as RotationGroups has them in detail *)

BeginAuthorization ==
    /\ auth = "idle"
    /\ auth' = "begun"
    /\ group' = [group EXCEPT !.exists = TRUE, !.uncertain = TRUE]
    /\ UNCHANGED <<now, shop, events, heard, worker>>

Installed == [shop EXCEPT !.installed = TRUE, !.gen = IF shop.installed THEN @ ELSE @ + 1]

Acquire ==
    /\ Moment
    /\ auth = "begun"
    /\ auth' = "acquired"
    /\ shop' = Installed
    /\ UNCHANGED <<group, events, heard, worker>>

\* finishRotation; a consent to other scopes is a grant of its own.
FinishAuthorization(m) ==
    /\ Moment
    /\ auth = "acquired"
    /\ auth' = "idle"
    /\ \E sameScopes \in BOOLEAN :
          LET same == group.authorizedAt # Never /\ ~group.revoked /\ sameScopes
          IN  group' = [group EXCEPT !.lastAcquired = now', !.uncertain = FALSE, !.revoked = FALSE,
                                     !.authorizedAt = IF same THEN @ ELSE now',
                                     !.recipients = @ \union {m}, !.gen = shop.gen]
    /\ UNCHANGED <<shop, events, heard, worker>>

\* An error answer, or a restart of the broker.
FailAuthorization ==
    /\ auth # "idle"
    /\ auth' = "idle"
    /\ UNCHANGED <<now, shop, group, events, heard, worker>>

\* A revocation also ends an authorization under way, whose acquisition may
\* have taken effect all the same.
RevokeGroup ==
    /\ group' = [group EXCEPT !.revoked = TRUE]
    /\ auth' = "idle"
    /\ shop' \in (IF auth = "begun" THEN {shop, Installed} ELSE {shop})

KeepGroup == UNCHANGED <<group, auth, shop>>

-----------------------------------------------------------------------------
(* Webhooks *)

\* assessUninstallAtReceipt: an uninstall is in doubt for good when the group's
\* history is unknown or an acquisition may be newer.
UnsafeAtReceipt(occurred) ==
    \/ group.lastAcquired = Never
    \/ group.uncertain
    \/ occurred < group.lastAcquired

Received(e, occurred) ==
    [stored |-> TRUE, occurred |-> occurred, emitted |-> FALSE, pair |-> NoEvent,
     pending |-> e \in Redacts \/ UnsafeAtReceipt(occurred),
     cutoff |-> IF e \in Uninstalls THEN occurred ELSE Never,
     acks |-> [m \in Recipients |-> IF m \in group.recipients THEN "owed" ELSE "none"],
     legacy |-> IF Legacy THEN "owed" ELSE "none", payload |-> TRUE]

\* webhook: Shopify repeats a delivery until it is accepted.  Until the group
\* knows its shop's identity the delivery is refused.
Webhook(e) ==
    LET occurred == shop.happened[e] + Skew
        es == Reconciled([events EXCEPT ![e] = Received(e, occurred)])
    IN  /\ shop.happened[e] # Never /\ ~events[e].stored
        /\ (~group.exists /\ Legacy) \/ group.lastAcquired # Never
        /\ events' = es
        /\ IF e \in Uninstalls /\ Ready(es, e) /\ occurred >= group.authorizedAt
             THEN RevokeGroup ELSE KeepGroup
        /\ UNCHANGED <<now, heard, worker>>

-----------------------------------------------------------------------------
(* Hosts *)

Owed(es, m) == {e \in Stored(es) : es[e].acks[m] = "owed"}

Receipt(es, e) == [event |-> e, pair |-> es[e].pair, cutoff |-> es[e].cutoff]

\* events of a version 1 host: uninstalls only, and none while a redact is owed.
EventsV1(m) ==
    LET es == Reconciled(events)
        shown == {e \in Owed(es, m) : Ready(es, e)}
    IN  /\ Owed(events, m) # {}
        /\ events' = es
        /\ heard' = [heard EXCEPT ![m] = @ \union
               (IF Owed(es, m) \intersect Redacts # {} THEN {} ELSE {Receipt(es, e) : e \in shown})]
        /\ <<events', heard'>> # <<events, heard>>
        /\ UNCHANGED <<now, shop, group, auth, worker>>

\* events of a version 2 host: what is shown is sealed; a redact revokes a group
\* that has not been authorized anew.
EventsV2(m) ==
    LET es == Reconciled(events)
        shown == {e \in Owed(es, m) : Ready(es, e) /\ ValidNativeReceipt(es, e)}
        revoking == \E e \in shown \intersect Redacts :
                        group.exists /\ es[e].cutoff >= group.authorizedAt
    IN  /\ Owed(events, m) # {} /\ shown # {}
        /\ events' = [e \in Events |-> IF e \in shown THEN [es[e] EXCEPT !.emitted = TRUE] ELSE es[e]]
        /\ heard' = [heard EXCEPT ![m] = @ \union {Receipt(es, e) : e \in shown}]
        /\ IF revoking THEN RevokeGroup ELSE KeepGroup
        /\ <<events', heard', group', auth'>> # <<events, heard, group, auth>>
        /\ UNCHANGED <<now, worker>>

\* The payload goes once everyone has acknowledged.
Settled(ev) ==
    [ev EXCEPT !.payload = @ /\ (ev.legacy = "owed" \/ \E m \in Recipients : ev.acks[m] = "owed")]

\* ack of an event the host has stored, repeated or not.
Ack(m, e) ==
    /\ \E receipt \in heard[m] : receipt.event = e
    /\ Ready(events, e)
    /\ e \in Redacts => events[e].emitted /\ ValidNativeReceipt(events, e)
    /\ events[e].acks[m] = "owed"
    /\ events' = [events EXCEPT ![e] = Settled([events[e] EXCEPT !.acks[m] = "acked"])]
    /\ UNCHANGED <<now, shop, group, auth, heard, worker>>

-----------------------------------------------------------------------------
(* The legacy routes *)

\* DeliverLegacyShopifyWebhooks takes an event it owes, under a lease.
TakeLegacy(e) ==
    LET es == Reconciled(events)
    IN  /\ worker = Resting
        /\ events[e].stored /\ events[e].legacy = "owed" /\ Ready(es, e)
        /\ events' = es
        /\ worker' = [at |-> "posting", event |-> e]
        /\ UNCHANGED <<now, shop, group, auth, heard>>

\* The answer of the product is recorded; a refusal is tried again later.
FinishLegacy ==
    /\ worker.at = "posting"
    /\ worker' = Resting
    /\ \/ UNCHANGED events
       \/ events' = [events EXCEPT ![worker.event] =
              Settled([events[worker.event] EXCEPT !.legacy = "acked"])]
    /\ UNCHANGED <<now, shop, group, auth, heard>>

\* The broker stops between the post and the record; the lease runs out.
CrashLegacy ==
    /\ worker # Resting
    /\ worker' = Resting
    /\ UNCHANGED <<now, shop, group, auth, events, heard>>

Accepted == FinishLegacy /\ events[worker.event].legacy = "owed"
                         /\ events'[worker.event].legacy = "acked"

Next ==
    \/ Tick \/ BeginAuthorization \/ Acquire \/ FailAuthorization
    \/ FinishLegacy \/ CrashLegacy
    \/ \E u \in Uninstalls : ShopUninstalls(u)
    \/ \E r \in Redacts : ShopRedacts(r)
    \/ \E e \in Events : Webhook(e) \/ TakeLegacy(e)
    \/ \E m \in Recipients :
          \/ FinishAuthorization(m) \/ EventsV1(m) \/ EventsV2(m)
          \/ \E e \in Events : Ack(m, e)

Spec == Init /\ [][Next]_vars

\* The worker's ticker, hosts that poll and acknowledge, and a product that
\* does not refuse for ever.
Fairness ==
    /\ \A e \in Events : SF_vars(TakeLegacy(e))
    /\ SF_vars(Accepted) /\ WF_vars(FinishLegacy)
    /\ \A m \in Recipients :
          /\ SF_vars(EventsV2(m))
          /\ \A e \in Events : WF_vars(Ack(m, e))

FairSpec == Spec /\ Fairness

-----------------------------------------------------------------------------
(* Properties *)

TypeOK ==
    /\ now \in 1 .. MaxTime
    /\ shop \in Shop /\ group \in Group
    /\ auth \in {"idle", "begun", "acquired"}
    /\ \A e \in Events : events[e] \in Event \union {Absent}
    /\ \A r \in Redacts \intersect Stored(events) : ~events[r].pending => events[r].pair # NoEvent
    /\ worker.at \in {"idle", "posting"}

\* "Once first emitted, the pair is immutable across retries/restarts"
\* (shopify_receipts.go), though uninstalls keep arriving late.
PairStays ==
    \A r \in Redacts : events[r].stored /\ events[r].emitted =>
        events'[r].pair = events[r].pair /\ events'[r].cutoff = events[r].cutoff

EmittedPairIsSealed == [][PairStays]_vars

\* No two redacts that may be released answer the same uninstall.
UninstallAnsweredOnce ==
    \A a, b \in Redacts \intersect Stored(events) :
        a # b /\ ~events[a].pending /\ ~events[b].pending => events[a].pair # events[b].pair

\* "Missing or ambiguous counterparts remain durable and unacknowledgeable"
\* (shopify_receipts.go): a redact is only handed out when each uninstall it
\* may answer, other than those already answered, is the one it names.
ReleasesCertainPair ==
    \A r \in Redacts : events'[r].stored /\ events'[r].emitted
                       /\ ~(events[r].stored /\ events[r].emitted) =>
        \A u \in Uninstalls \intersect Stored(events') :
            Before(u, r, events') /\ u # events'[r].pair =>
                \E x \in Redacts \ {r} : events'[x].stored /\ events'[x].pair = u

ReleasedPairWasCertain == [][ReleasesCertainPair]_vars

\* "A delayed uninstall from an older grant cannot revoke a later
\* reauthorization" (packages/connectors/README.md): a group is only revoked
\* when the installation its credential comes from has ended.
RevokesEndedGrant ==
    group'.revoked /\ ~group.revoked => \E u \in Uninstalls : shop.ended[u] >= group.gen

RevokedGrantIsGone == [][RevokesEndedGrant]_vars

\* "use its cutoff for local revocation ... so a later new consent is
\* preserved" (packages/connectors/README.md): whoever acts on the cutoff of a
\* receipt leaves the grants of later installations alone.
CutoffSparesLaterConsent ==
    \A m \in Recipients : \A receipt \in heard[m] :
        LET u == IF receipt.event \in Uninstalls THEN receipt.event ELSE receipt.pair
        IN  group.gen > shop.ended[u] /\ shop.ended[u] # 0
                => receipt.cutoff < group.authorizedAt

ReadByAll(ev) == ev.legacy # "owed" /\ \A m \in Recipients : ev.acks[m] # "owed"

\* "A native recipient's acknowledgment cannot remove a payload still owed to
\* the legacy processor" (packages/connectors/README.md), nor the other way.
PayloadOutlivesItsReaders ==
    \A e \in Stored(events) : ~events[e].payload => ReadByAll(events[e])

\* An uninstall found safe at receipt reaches every recipient and the legacy
\* processor, and its payload is dropped then.
SafeUninstallsAreSettled ==
    \A u \in Uninstalls :
        events[u].stored /\ ~events[u].pending ~> events[u].stored /\ ReadByAll(events[u])
=============================================================================

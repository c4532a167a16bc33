--------------------------- MODULE RotationGroups ---------------------------
(***************************************************************************)
(* A Shopify credential group (packages/connectors/auth/server.go): the    *)
(* installations that share one shop's rotating pair of tokens.  The       *)
(* broker keeps the version and a digest of the current pair, never the    *)
(* pair; an authorization or a refresh reserves the group before the       *)
(* provider is called and publishes the next version afterwards; the host  *)
(* that got the new pair saves it, commits, and mails it to its peers, who *)
(* validate, save and commit in turn; a peer that missed the mail asks for *)
(* recovery.  One group stands for all: they share no state.  A definition *)
(* marked "Faulty" is a version of the one after it with a plausible       *)
(* mistake.                                                                *)
(***************************************************************************)
EXTENDS Naturals, FiniteSets

CONSTANTS
    Members,            \* installations
    Operations,         \* identifiers of redeem and refresh requests
    Nobody,             \* no pending operation
    Redacts,            \* whether shop/redact may be emitted to a host
    MaxFaults           \* bound on crashes, restarts and lost mail

RotationAssumption ==
    /\ IsFiniteSet(Operations)
    /\ Members \intersect Operations = {}
    /\ Nobody \notin Members \union Operations
    /\ Redacts \in BOOLEAN /\ MaxFaults \in Nat

VARIABLES
    group,              \* State.Groups[id], in the store
    ops,                \* requests in the broker's memory
    mail,               \* mail[m][s]: the envelope from s waiting for m
    recoveries,         \* recoveries[m]: who asks m for the pair
    hosts,              \* the hosts' memory and durable credential
    shop,               \* the provider: the pairs it issued
    faults

vars == <<group, ops, mail, recoveries, hosts, shop, faults>>

Last == Cardinality(Operations)
Pairs == 1 .. Last
Out == Last + 1         \* Members[m] of an installation that is no member

\* What a host holds: the pair, its version and its grant's AuthorizedAt.
None == [version |-> 0, pair |-> 0, grant |-> 0]
Token == [version : 0 .. Last, pair : 0 .. Last, grant : 0 .. Last]

Group == [version : 0 .. Last, members : [Members -> 0 .. Out], pair : 0 .. Last,
          grant : 0 .. Last, pending : Members \union Operations \union {Nobody},
          lapsed : BOOLEAN, authorizing : BOOLEAN, uncertain : BOOLEAN,
          reconnect : BOOLEAN, revoked : BOOLEAN]

\* onRevoked: whether the group was revoked when the operation began (history).
Unused == [at |-> "unused"]
Done == [at |-> "done"]
OperationRecords ==
    {Unused, Done} \union
    [at : {"provider", "failed"}, by : Members, presents : 0 .. Last, onRevoked : BOOLEAN] \union
    [at : {"answered"}, by : Members, presents : 0 .. Last, onRevoked : BOOLEAN, pair : Pairs]

Init ==
    /\ group = [version |-> 0, members |-> [m \in Members |-> Out], pair |-> 0, grant |-> 0,
                pending |-> Nobody, lapsed |-> FALSE, authorizing |-> FALSE,
                uncertain |-> FALSE, reconnect |-> FALSE, revoked |-> FALSE]
    /\ ops = [o \in Operations |-> Unused]
    /\ mail = [m \in Members |-> [s \in Members |-> None]]
    /\ recoveries = [m \in Members |-> {}]
    /\ hosts = [m \in Members |-> [received |-> None, saved |-> None, asked |-> {}]]
    /\ shop = [latest |-> 0, voided |-> 0, presented |-> [p \in Pairs |-> 0], consented |-> {}]
    /\ faults = 0

IsMember(m) == group.members[m] # Out
Current(m) == IsMember(m) /\ group.members[m] = group.version
Free == group.pending = Nobody \/ group.lapsed
GroupToken == [version |-> group.version, pair |-> group.pair, grant |-> group.grant]

Release(g) == [g EXCEPT !.pending = Nobody, !.lapsed = FALSE]
Set(o, op) == ops' = [ops EXCEPT ![o] = op]
Host(m, h) == hosts' = [hosts EXCEPT ![m] = h]
memory == <<ops, mail, recoveries>>

-----------------------------------------------------------------------------
(* Rotations *)

\* PendingUntil passes.  A minute is longer than the timeouts of the provider's
\* calls, 30 s and 10 s (oauth/provider.go), so they have ended by then.
Lapse ==
    /\ group.pending # Nobody /\ ~group.lapsed
    /\ \A o \in Operations : ops[o].at = "provider" => group.pending # o
    /\ group' = [group EXCEPT !.lapsed = TRUE]
    /\ UNCHANGED <<memory, hosts, shop, faults>>

\* expireRotation, called by whoever asks for a rotation or for recovery: what
\* the lapsed operation got is unknown; a member that holds a checkpoint stays
\* its owner.
Expire ==
    /\ group.lapsed
    /\ LET g == [group EXCEPT !.reconnect = TRUE]
       IN  group' = IF group.pending \in Operations THEN Release(g) ELSE g
    /\ UNCHANGED <<memory, hosts, shop, faults>>

\* redeem of a Shopify transaction, up to the provider's call.
BeginAuthorization(o, m) ==
    /\ ops[o] = Unused
    /\ Free
    /\ group' = [group EXCEPT !.pending = o, !.lapsed = FALSE, !.authorizing = TRUE,
                              !.uncertain = TRUE, !.reconnect = @ \/ group.pending # Nobody]
    /\ Set(o, [at |-> "provider", by |-> m, presents |-> 0, onRevoked |-> group.revoked])
    /\ UNCHANGED <<mail, recoveries, hosts, shop, faults>>

\* Faulty: does not look whether the pair is known to be current.
BeginRefreshUnsure(o, m) ==
    /\ ops[o] = Unused
    /\ group.pending = Nobody /\ ~group.revoked
    /\ IsMember(m) /\ hosts[m].saved = GroupToken /\ group.version # 0
    /\ group' = [group EXCEPT !.pending = o, !.authorizing = FALSE]
    /\ Set(o, [at |-> "provider", by |-> m, presents |-> group.pair, onRevoked |-> FALSE])
    /\ UNCHANGED <<mail, recoveries, hosts, shop, faults>>

\* refresh, up to the provider's call: RefreshHash and beginRotation's checks.
BeginRefresh(o, m) ==
    /\ ops[o] = Unused
    /\ group.pending = Nobody /\ ~group.revoked /\ ~group.reconnect
    /\ IsMember(m) /\ hosts[m].saved = GroupToken /\ group.version # 0
    /\ group' = [group EXCEPT !.pending = o, !.authorizing = FALSE]
    /\ Set(o, [at |-> "provider", by |-> m, presents |-> group.pair, onRevoked |-> FALSE])
    /\ UNCHANGED <<mail, recoveries, hosts, shop, faults>>

\* The provider refuses, or issues the next pair, whose answer may be lost.  It
\* takes a refresh token only as long as that is its latest.
Issues(o) ==
    /\ ops[o].presents # 0 => ops[o].presents = shop.latest /\ shop.latest > shop.voided
    /\ shop.latest < Last

Presented(o) == [p \in Pairs |-> shop.presented[p] + (IF p = ops[o].presents THEN 1 ELSE 0)]

ProviderCall(o) ==
    /\ ops[o].at = "provider"
    /\ \/ /\ Set(o, [ops[o] EXCEPT !.at = "failed"])
          /\ shop' = [shop EXCEPT !.presented = Presented(o)]
       \/ /\ Issues(o)
          /\ shop' = [shop EXCEPT !.latest = @ + 1, !.presented = Presented(o)]
          /\ \/ Set(o, [ops[o] EXCEPT !.at = "failed"])
             \/ Set(o, [at |-> "answered", by |-> ops[o].by, presents |-> ops[o].presents,
                        onRevoked |-> ops[o].onRevoked, pair |-> shop.latest + 1])
    /\ UNCHANGED <<group, mail, recoveries, hosts, faults>>

\* The next version of the group, as o publishes it; sameScopes: whether the
\* consent asked for the scopes the group has.
Published(o, sameScopes) ==
    LET m == ops[o].by
        version == group.version + 1
        sameActiveGrant == group.grant # 0 /\ ~group.revoked /\ sameScopes
    IN  [group EXCEPT !.version = version, !.pair = ops[o].pair,
                      !.grant = IF group.authorizing /\ ~sameActiveGrant THEN version ELSE @,
                      !.uncertain = @ /\ ~group.authorizing, !.authorizing = FALSE,
                      !.pending = m, !.lapsed = FALSE, !.reconnect = FALSE, !.revoked = FALSE,
                      !.members[m] = 0]

\* The answer reaches the host with the recipients of the mail, or is lost.
Answer(m) ==
    \/ Host(m, [hosts[m] EXCEPT !.received = GroupToken',
                                !.asked = {r \in Members \ {m} : IsMember(r)}])
    \/ UNCHANGED hosts

Consented(o) == IF ops[o].presents = 0 THEN shop.consented \union {ops[o].by} ELSE shop.consented

\* finishRotation: by the owner of the pending operation, in time.  The update
\* may also be refused for the shop's identity, or fail.
Finish(o) ==
    /\ ops[o].at = "answered"
    /\ Set(o, Done)
    /\ \/ /\ group.pending = o /\ ~group.lapsed
          /\ \E sameScopes \in BOOLEAN : group' = Published(o, sameScopes)
          /\ Answer(ops[o].by)
          /\ shop' = [shop EXCEPT !.consented = Consented(o)]
       \/ UNCHANGED <<group, hosts, shop>>
    /\ UNCHANGED <<mail, recoveries, faults>>

\* failedRotation.
Fail(o) ==
    /\ ops[o].at = "failed"
    /\ Set(o, Done)
    /\ group' = IF group.pending = o THEN Release([group EXCEPT !.reconnect = TRUE]) ELSE group
    /\ UNCHANGED <<mail, recoveries, hosts, shop, faults>>

-----------------------------------------------------------------------------
(* Hosts and their mail *)

\* A host stores the pair it was given before it tells anyone.
Save(m) ==
    /\ hosts[m].received # None
    /\ Host(m, [hosts[m] EXCEPT !.received = None,
                   !.saved = IF hosts[m].received.version > @.version THEN hosts[m].received ELSE @])
    /\ UNCHANGED <<group, memory, shop, faults>>

Committed(m) == [group EXCEPT !.members[m] = group.version]

\* commit, which a host may repeat after a restart of either side.
Commit(m) ==
    /\ IsMember(m) /\ ~group.revoked
    /\ hosts[m].saved.version = group.version
    /\ group.pending \in {Nobody, m}
    /\ group' = IF group.pending = m THEN Release([Committed(m) EXCEPT !.reconnect = FALSE])
                                     ELSE Committed(m)
    /\ group' # group
    /\ UNCHANGED <<memory, hosts, shop, faults>>

Disconnect(m) ==
    /\ IsMember(m)
    /\ group' = [group EXCEPT !.members[m] = Out]
    /\ shop' = [shop EXCEPT !.consented = @ \ {m}]
    /\ UNCHANGED <<memory, hosts, faults>>

\* sendMail: from a member at the current version, in place of its earlier mail.
Send(s, r) ==
    /\ r \in hosts[s].asked
    /\ hosts[s].received = None
    /\ mail' = IF ~group.revoked /\ Current(s) /\ hosts[s].saved.version = group.version /\ IsMember(r)
                 THEN [mail EXCEPT ![r][s] = hosts[s].saved] ELSE mail
    /\ Host(s, [hosts[s] EXCEPT !.asked = @ \ {r}])
    /\ UNCHANGED <<group, ops, recoveries, shop, faults>>

\* GroupInfo.Validates, on what the broker says with the mail.
Validates(t) == t = GroupToken

\* receiveMail empties the queues; the answer may be lost on its way.
Receive(m) ==
    LET valid == {s \in Members : mail[m][s] # None /\ ~group.revoked /\ IsMember(m)
                                  /\ Validates(mail[m][s])}
        asking == {r \in Members : [by |-> r, version |-> group.version] \in recoveries[m]
                                   /\ IsMember(r) /\ Current(m) /\ ~group.revoked}
    IN  /\ recoveries[m] # {} \/ \E s \in Members : mail[m][s] # None
        /\ mail' = [mail EXCEPT ![m] = [s \in Members |-> None]]
        /\ recoveries' = [recoveries EXCEPT ![m] = {}]
        /\ \/ /\ Host(m, [hosts[m] EXCEPT
                            !.received = IF valid = {} THEN @ ELSE mail[m][CHOOSE s \in valid : TRUE],
                            !.asked = @ \union asking])
              /\ UNCHANGED faults
           \/ /\ faults < MaxFaults /\ faults' = faults + 1
              /\ UNCHANGED hosts
        /\ UNCHANGED <<group, ops, shop>>

\* Whom recover asks, and what it answers.
Peers(m) == {r \in Members \ {m} : Current(r)}
MustReconnect(m) == group.reconnect \/ Peers(m) = {}

\* recover, by a member whose pair is not the current one; expiry comes first.
Recover(m) ==
    /\ ~group.lapsed \/ group.reconnect
    /\ ~group.revoked /\ IsMember(m) /\ hosts[m].saved # GroupToken
    /\ recoveries' = [r \in Members |-> IF r \in Peers(m)
           THEN recoveries[r] \union {[by |-> m, version |-> group.version]} ELSE recoveries[r]]
    /\ recoveries' # recoveries
    /\ UNCHANGED <<group, ops, mail, hosts, shop, faults>>

-----------------------------------------------------------------------------
(* Uninstalls and faults *)

Revoked == Release([group EXCEPT !.revoked = TRUE, !.reconnect = TRUE])

\* A verified uninstall no older than the last acquisition, when none is under
\* way; the provider has voided the pairs.
Uninstall ==
    /\ group.version # 0 /\ ~group.uncertain /\ ~group.revoked
    /\ group' = Revoked
    /\ shop' = [shop EXCEPT !.voided = shop.latest]
    /\ UNCHANGED <<memory, hosts, faults>>

\* events hands out a shop/redact paired with the uninstall that revoked the
\* group, and revokes it again.
EmitRedact ==
    /\ Redacts /\ group.revoked
    /\ group' = Revoked
    /\ group' # group
    /\ UNCHANGED <<memory, hosts, shop, faults>>

Fault == faults < MaxFaults /\ faults' = faults + 1

\* An envelope reaches its ten minutes.
ExpireMail(m, s) ==
    /\ Fault
    /\ mail[m][s] # None
    /\ mail' = [mail EXCEPT ![m][s] = None]
    /\ UNCHANGED <<group, ops, recoveries, hosts, shop>>

HostCrash(m) ==
    /\ Fault
    /\ Host(m, [hosts[m] EXCEPT !.received = None, !.asked = {}])
    /\ UNCHANGED <<group, memory, shop>>

\* The broker restarts; a provider call under way may still take effect.
Restart ==
    /\ Fault
    /\ ops' = [o \in Operations |-> IF ops[o] = Unused THEN Unused ELSE Done]
    /\ mail' = [m \in Members |-> [s \in Members |-> None]]
    /\ recoveries' = [m \in Members |-> {}]
    /\ \/ UNCHANGED shop
       \/ \E o \in Operations :
             /\ ops[o].at = "provider" /\ Issues(o)
             /\ shop' = [shop EXCEPT !.latest = @ + 1, !.presented = Presented(o)]
    /\ UNCHANGED <<group, hosts>>

Next ==
    \/ Lapse \/ Expire \/ Uninstall \/ EmitRedact \/ Restart
    \/ \E o \in Operations :
          \/ ProviderCall(o) \/ Finish(o) \/ Fail(o)
          \/ \E m \in Members : BeginAuthorization(o, m) \/ BeginRefresh(o, m)
    \/ \E m \in Members :
          \/ Save(m) \/ Commit(m) \/ Disconnect(m) \/ Receive(m) \/ Recover(m) \/ HostCrash(m)
          \/ \E r \in Members : Send(m, r) \/ ExpireMail(m, r)

Spec == Init /\ [][Next]_vars

\* Handlers run to their end; hosts save, commit, poll and answer their peers.
\* Nothing makes anyone begin a rotation.
Fairness ==
    /\ \A o \in Operations : WF_vars(ProviderCall(o)) /\ WF_vars(Finish(o)) /\ WF_vars(Fail(o))
    /\ WF_vars(Expire)
    /\ \A m \in Members :
          /\ WF_vars(Save(m)) /\ WF_vars(Commit(m)) /\ WF_vars(Receive(m)) /\ WF_vars(Recover(m))
          /\ \A r \in Members : WF_vars(Send(m, r))

FairSpec == Spec /\ Fairness

-----------------------------------------------------------------------------
(* Properties *)

TypeOK ==
    /\ group \in Group
    /\ ops \in [Operations -> OperationRecords]
    /\ mail \in [Members -> [Members -> Token]]
    /\ recoveries \in [Members -> SUBSET [by : Members, version : 0 .. Last]]
    /\ hosts \in [Members -> [received : Token, saved : Token, asked : SUBSET Members]]
    /\ shop \in [latest : 0 .. Last, voided : 0 .. Last, presented : [Pairs -> Nat],
                consented : SUBSET Members]
    /\ faults \in 0 .. MaxFaults

\* "must never make an older peer look current" (expireRotation): a group that
\* waits for no provider call and asks nobody to reconnect has the last pair
\* the provider issued, whatever crashed, lapsed or was lost on the way.
CurrentPairIsLatest ==
    group.pending \notin Operations /\ ~group.reconnect /\ ~group.revoked /\ group.version # 0
        => group.pair = shop.latest

\* The broker spends a refresh token once: after an attempt of unknown outcome
\* no member can present the same pair again.
RefreshPresentedOnce == \A p \in Pairs : shop.presented[p] <= 1

\* Whom the broker names current, and so asks for the pair, has it stored.
CurrentMembersHoldThePair ==
    \A m \in Members : Current(m) /\ group.version # 0 /\ ~group.revoked
        => hosts[m].saved = GroupToken

\* An uninstall wins over the refresh it overtakes: only a consent given after
\* it brings the group back.
ComesBackByConsent ==
    group.revoked /\ ~group'.revoked =>
        \E o \in Operations : ops[o].at = "answered" /\ ops'[o] = Done
                              /\ ops[o].presents = 0 /\ ops[o].onRevoked

RevokedUntilConsent == [][ComesBackByConsent]_vars

\* "No recipient joins without its own verified Shopify consent"
\* (packages/connectors/README.md), nor again after it disconnected.
MembersConsented == \A m \in Members : IsMember(m) => m \in shop.consented

\* "One lock ... per OAuth app and shop.  Acquisition and refresh reserve that
\* lock before contacting Shopify" (packages/connectors/README.md).
OneAcquisition == Cardinality({o \in Operations : ops[o].at = "provider"}) <= 1

\* "A missed envelope is recovered from a current peer": a member ends up with
\* the current pair or is told to reconnect, whatever mail is lost.
UpToDate(m) ==
    ~IsMember(m) \/ group.revoked \/ MustReconnect(m) \/ hosts[m].saved = GroupToken

CatchesUp == \A m \in Members : <>[]UpToDate(m)
=============================================================================

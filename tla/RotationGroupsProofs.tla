------------------------ MODULE RotationGroupsProofs ------------------------
(***************************************************************************)
(* Proofs about RotationGroups, for every set of members and operations    *)
(* and any number of faults.  What everything rests on is that a refresh   *)
(* loses the reservation of the group only to an uninstall, which voids    *)
(* the pair it presents: the provider answers nothing to it any more.      *)
(***************************************************************************)
EXTENDS RotationGroups, FiniteSetTheorems, TLAPS

\* The members' version numbers and the group's.
VersionsAgree ==
    /\ group.version <= shop.latest /\ shop.voided <= shop.latest
    /\ group.version = 0 => GroupToken = None
    /\ \A m \in Members : group.members[m] = Out \/ group.members[m] <= group.version

\* A token a host has or is sent is the group's, or older.
OfGroup(t) == /\ t.version <= group.version
              /\ t.version = group.version => t = GroupToken

TokensKnown ==
    /\ \A m \in Members : OfGroup(hosts[m].received) /\ OfGroup(hosts[m].saved)
    /\ \A m, s \in Members : OfGroup(mail[m][s])

\* A member the broker names current has stored the pair.
HoldersCurrent == \A m \in Members : Current(m) /\ group.version # 0 => hosts[m].saved = GroupToken

\* What the operation that holds the reservation has found and will publish.
Reserved(o) ==
    /\ ops[o] = Unused => group.pending # o
    /\ ops[o].at = "provider" /\ group.pending = o => ~group.lapsed
    /\ ops[o].at \in {"provider", "answered"} /\ group.pending = o =>
          /\ group.authorizing <=> ops[o].presents = 0
          /\ group.authorizing => group.uncertain /\ ops[o].onRevoked = group.revoked
          /\ ~group.authorizing => ~group.revoked
    /\ ops[o].at = "answered" /\ group.pending = o =>
          /\ ops[o].pair \in (shop.voided + 1) .. shop.latest
          /\ group.version < ops[o].pair
          /\ shop.presented[ops[o].pair] = 0

ReservedKept ==
    /\ group.pending = Nobody => ~group.lapsed
    /\ \A o \in Operations : Reserved(o)

\* A refresh at the provider that has lost the reservation presents a void pair.
Presents(o) == ops[o].at = "provider" /\ ops[o].presents # 0

PresentedFresh ==
    /\ \A p \in Pairs : /\ shop.presented[p] <= 1
                        /\ p > shop.latest => shop.presented[p] = 0
    /\ \A o \in Operations : Presents(o) =>
          /\ ops[o].presents <= shop.latest /\ shop.presented[ops[o].presents] = 0
          /\ group.pending # o => ops[o].presents <= shop.voided
    /\ \A o, q \in Operations : Presents(o) /\ Presents(q) /\ ops[o].presents = ops[q].presents => o = q

\* The pair of a group that is not being rotated, nor told to reconnect, is
\* unspent; a published pair that is not committed yet is, too.
Settled ==
    /\ group.pending \in Members \/ (group.pending = Nobody /\ ~group.reconnect)
    /\ ~group.revoked /\ group.version # 0

SettledUnspent ==
    Settled => /\ group.pair \in (shop.voided + 1) .. shop.latest
               /\ shop.presented[group.pair] = 0

IInv ==
    TypeOK /\ VersionsAgree /\ TokensKnown /\ HoldersCurrent /\ ReservedKept /\ PresentedFresh
    /\ SettledUnspent

\* Unless a redact takes the reservation of an authorization under way, one
\* operation at most can still be given a pair.
LatestKept ==
    /\ \A o \in Operations :
          /\ ops[o].at = "provider" /\ group.pending # o => ops[o].presents # 0
          /\ ops[o].at = "answered" /\ group.pending = o => ops[o].pair = shop.latest
    /\ Settled => group.pair = shop.latest

-----------------------------------------------------------------------------
(* Types *)

\* How many pairs the shop may issue.
LEMMA LastIsNat == ASSUME RotationAssumption PROVE Last \in Nat
  BY FS_CardinalityType DEF RotationAssumption, Last

\* What an operation carries at each of its steps.
LEMMA OperationTyped ==
    ASSUME NEW q \in OperationRecords
    PROVE  /\ q.at \in {"unused", "done", "provider", "failed", "answered"}
           /\ q.at = "unused" <=> q = Unused
           /\ q.at \in {"provider", "failed", "answered"} =>
                 q.by \in Members /\ q.presents \in 0 .. Last /\ q.onRevoked \in BOOLEAN
           /\ q.at = "answered" => q.pair \in Pairs
           /\ q.at = "provider" => [q EXCEPT !.at = "failed"] \in OperationRecords
  BY DEF OperationRecords, Unused, Done

\* The values the state's parts take, for the fields of the records.
LEMMA Typed ==
    ASSUME TypeOK, RotationAssumption
    PROVE  /\ group \in Group
           /\ group.version \in 0 .. Last /\ group.pair \in 0 .. Last /\ group.grant \in 0 .. Last
           /\ group.members \in [Members -> 0 .. Out]
           /\ group.pending \in Members \union Operations \union {Nobody}
           /\ group.lapsed \in BOOLEAN /\ group.authorizing \in BOOLEAN /\ group.uncertain \in BOOLEAN
           /\ group.reconnect \in BOOLEAN /\ group.revoked \in BOOLEAN
           /\ shop.latest \in 0 .. Last /\ shop.voided \in 0 .. Last
           /\ shop.presented \in [Pairs -> Nat] /\ shop.consented \subseteq Members
           /\ \A o \in Operations : ops[o] \in OperationRecords
           /\ Last \in Nat
<1>1. group \in Group /\ ops \in [Operations -> OperationRecords]
      /\ shop \in [latest : 0 .. Last, voided : 0 .. Last, presented : [Pairs -> Nat],
                   consented : SUBSET Members]
  BY DEF TypeOK
<1>2. QED
  BY <1>1, LastIsNat DEF Group

-----------------------------------------------------------------------------
(* What the steps do to the group *)

PairKept == /\ group'.version = group.version /\ group'.pair = group.pair
            /\ group'.grant = group.grant

FlagsKept == /\ group'.authorizing = group.authorizing /\ group'.uncertain = group.uncertain
             /\ group'.revoked = group.revoked

LEMMA LapseGroup ==
    ASSUME TypeOK, RotationAssumption, Lapse
    PROVE  /\ group' \in Group /\ PairKept /\ FlagsKept /\ group'.members = group.members
           /\ group'.pending = group.pending /\ group'.lapsed /\ group'.reconnect = group.reconnect
  BY Typed DEF Lapse, Group, PairKept, FlagsKept

LEMMA ExpireGroup ==
    ASSUME TypeOK, RotationAssumption, Expire
    PROVE  /\ group' \in Group /\ PairKept /\ FlagsKept /\ group'.members = group.members
           /\ group'.reconnect
           /\ IF group.pending \in Operations THEN group'.pending = Nobody /\ ~group'.lapsed
              ELSE group'.pending = group.pending /\ group'.lapsed = group.lapsed
<1>1. CASE group.pending \in Operations
  BY <1>1, Typed, ZenonT(90) DEF Expire, Release, Group, PairKept, FlagsKept
<1>2. CASE group.pending \notin Operations
  BY <1>2, Typed DEF Expire, Group, PairKept, FlagsKept
<1>3. QED
  BY <1>1, <1>2

LEMMA AuthorizationGroup ==
    ASSUME TypeOK, RotationAssumption, NEW o \in Operations, NEW m \in Members,
           BeginAuthorization(o, m)
    PROVE  /\ group' \in Group /\ PairKept /\ group'.members = group.members
           /\ group'.pending = o /\ ~group'.lapsed /\ group'.authorizing /\ group'.uncertain
           /\ group'.revoked = group.revoked
           /\ group'.reconnect = (group.reconnect \/ group.pending # Nobody)
  BY Typed, ZenonT(90) DEF BeginAuthorization, Group, PairKept

LEMMA RefreshGroup ==
    ASSUME TypeOK, RotationAssumption, NEW o \in Operations, NEW m \in Members, BeginRefresh(o, m)
    PROVE  /\ group' \in Group /\ PairKept /\ group'.members = group.members
           /\ group'.pending = o /\ ~group'.authorizing /\ group'.lapsed = group.lapsed
           /\ group'.uncertain = group.uncertain /\ group'.revoked = group.revoked
           /\ group'.reconnect = group.reconnect
  BY Typed, ZenonT(90) DEF BeginRefresh, Group, PairKept

LEMMA PublishedGroup ==
    ASSUME TypeOK, RotationAssumption, NEW o \in Operations, ops[o].at = "answered",
           NEW sameScopes \in BOOLEAN, group.version < Last, group' = Published(o, sameScopes)
    PROVE  /\ group' \in Group
           /\ group'.version = group.version + 1 /\ group'.pair = ops[o].pair
           /\ group'.members = [group.members EXCEPT ![ops[o].by] = 0]
           /\ group'.pending = ops[o].by /\ ~group'.lapsed /\ ~group'.authorizing
           /\ ~group'.reconnect /\ ~group'.revoked
<1> DEFINE m == ops[o].by
           version == group.version + 1
           fresh == group.authorizing /\ ~(group.grant # 0 /\ ~group.revoked /\ sameScopes)
           grant == IF fresh THEN version ELSE group.grant
           uncertain == group.uncertain /\ ~group.authorizing
           members == [group.members EXCEPT ![m] = 0]
<1>1. m \in Members /\ ops[o].pair \in 0 .. Last /\ version \in 0 .. Last
  <2>1. ops[o] \in OperationRecords /\ group.version \in 0 .. Last /\ Last \in Nat
    BY Typed
  <2>2. m \in Members /\ ops[o].pair \in 1 .. Last
    BY <2>1, OperationTyped DEF Pairs
  <2>3. QED
    BY <2>1, <2>2
<1>2. grant \in 0 .. Last /\ uncertain \in BOOLEAN /\ members \in [Members -> 0 .. Out]
  BY <1>1, Typed DEF Out
<1>3. group' = [version |-> version, members |-> members, pair |-> ops[o].pair, grant |-> grant,
                pending |-> m, lapsed |-> FALSE, authorizing |-> FALSE, uncertain |-> uncertain,
                reconnect |-> FALSE, revoked |-> FALSE]
  BY Typed, ZenonT(90) DEF Published, Group
<1> HIDE DEF version, grant, uncertain, members, m
<1>4. group' \in Group
  BY <1>1, <1>2, <1>3 DEF Group
<1>5. QED
  BY <1>3, <1>4 DEF version, members, m

LEMMA FailGroup ==
    ASSUME TypeOK, RotationAssumption, NEW o \in Operations, Fail(o), group.pending = o
    PROVE  /\ group' \in Group /\ PairKept /\ FlagsKept /\ group'.members = group.members
           /\ group'.pending = Nobody /\ ~group'.lapsed /\ group'.reconnect
  BY Typed, ZenonT(90) DEF Fail, Release, Group, PairKept, FlagsKept

LEMMA CommitGroup ==
    ASSUME TypeOK, RotationAssumption, NEW m \in Members, Commit(m)
    PROVE  /\ group' \in Group /\ PairKept /\ FlagsKept
           /\ group'.members = [group.members EXCEPT ![m] = group.version]
           /\ group'.pending = Nobody
           /\ IF group.pending = m THEN ~group'.lapsed
              ELSE group'.reconnect = group.reconnect /\ group'.lapsed = group.lapsed
<1> DEFINE members == [group.members EXCEPT ![m] = group.version]
<1>1. members \in [Members -> 0 .. Out]
  BY Typed DEF Out
<1>2. CASE group.pending = m
  <2>1. group' = [version |-> group.version, members |-> members, pair |-> group.pair,
                  grant |-> group.grant, pending |-> Nobody, lapsed |-> FALSE,
                  authorizing |-> group.authorizing, uncertain |-> group.uncertain,
                  reconnect |-> FALSE, revoked |-> group.revoked]
    BY <1>2, Typed, ZenonT(90) DEF Commit, Committed, Release, Group
  <2> HIDE DEF members
  <2>2. group' \in Group
    BY <1>1, <2>1, Typed DEF Group
  <2>3. QED
    BY <1>2, <2>1, <2>2 DEF members, PairKept, FlagsKept
<1>3. CASE group.pending # m
  <2>1. group.pending = Nobody
        /\ group' = [version |-> group.version, members |-> members, pair |-> group.pair,
                  grant |-> group.grant, pending |-> group.pending, lapsed |-> group.lapsed,
                  authorizing |-> group.authorizing, uncertain |-> group.uncertain,
                  reconnect |-> group.reconnect, revoked |-> group.revoked]
    BY <1>3, Typed, ZenonT(90) DEF Commit, Committed, Group
  <2> HIDE DEF members
  <2>2. group' \in Group
    BY <1>1, <2>1, Typed DEF Group
  <2>3. QED
    BY <1>3, <2>1, <2>2 DEF members, PairKept, FlagsKept
<1>4. QED
  BY <1>2, <1>3

LEMMA DisconnectGroup ==
    ASSUME TypeOK, RotationAssumption, NEW m \in Members, Disconnect(m)
    PROVE  /\ group' \in Group /\ PairKept /\ FlagsKept
           /\ group'.members = [group.members EXCEPT ![m] = Out]
           /\ group'.pending = group.pending /\ group'.lapsed = group.lapsed
           /\ group'.reconnect = group.reconnect
<1> DEFINE members == [group.members EXCEPT ![m] = Out]
<1>1. members \in [Members -> 0 .. Out]
  BY Typed DEF Out
<1>2. group' = [version |-> group.version, members |-> members, pair |-> group.pair,
                grant |-> group.grant, pending |-> group.pending, lapsed |-> group.lapsed,
                authorizing |-> group.authorizing, uncertain |-> group.uncertain,
                reconnect |-> group.reconnect, revoked |-> group.revoked]
  BY Typed DEF Disconnect, Group
<1> HIDE DEF members
<1>3. group' \in Group
  BY <1>1, <1>2, Typed DEF Group
<1>4. QED
  BY <1>2, <1>3 DEF members, PairKept, FlagsKept

LEMMA RevokedGroup ==
    ASSUME TypeOK, RotationAssumption, Uninstall \/ EmitRedact
    PROVE  /\ group' \in Group /\ PairKept /\ group'.members = group.members
           /\ group'.pending = Nobody /\ ~group'.lapsed /\ group'.reconnect /\ group'.revoked
           /\ group'.authorizing = group.authorizing /\ group'.uncertain = group.uncertain
<1>1. group' = Revoked
  BY DEF Uninstall, EmitRedact
<1>2. QED
  BY <1>1, Typed DEF Revoked, Release, Group, PairKept

-----------------------------------------------------------------------------
(* What the steps do to the operations and the shop *)

LEMMA StepCases ==
    ASSUME [Next]_vars
    PROVE  \/ UNCHANGED vars
           \/ Lapse \/ Expire \/ Uninstall \/ EmitRedact \/ Restart
           \/ \E o \in Operations : ProviderCall(o) \/ Finish(o) \/ Fail(o)
           \/ \E o \in Operations, m \in Members : BeginAuthorization(o, m) \/ BeginRefresh(o, m)
           \/ \E m \in Members : \/ Save(m) \/ Commit(m) \/ Disconnect(m) \/ Receive(m)
                                 \/ Recover(m) \/ HostCrash(m)
           \/ \E m, r \in Members : Send(m, r) \/ ExpireMail(m, r)
  BY DEF Next

\* Setting an operation leaves the others.
LEMMA OperationSet ==
    ASSUME TypeOK, NEW o \in Operations, NEW q \in OperationRecords, Set(o, q)
    PROVE  /\ ops' \in [Operations -> OperationRecords]
           /\ ops'[o] = q
           /\ \A p \in Operations : p # o => ops'[p] = ops[p]
  BY DEF TypeOK, Set

\* The provider issues the next pair for what it is presented.
IssuedFor(o) ==
    /\ Issues(o)
    /\ shop'.latest = shop.latest + 1 /\ shop.latest + 1 \in Pairs

ShopCalled(o) ==
    /\ shop'.voided = shop.voided /\ shop'.consented = shop.consented
    /\ shop'.presented = Presented(o)
    /\ shop' \in [latest : 0 .. Last, voided : 0 .. Last, presented : [Pairs -> Nat],
                  consented : SUBSET Members]

LEMMA PresentedTyped ==
    ASSUME TypeOK, RotationAssumption, NEW o \in Operations
    PROVE  Presented(o) \in [Pairs -> Nat]
<1>1. \A p \in Pairs : shop.presented[p] + (IF p = ops[o].presents THEN 1 ELSE 0) \in Nat
  BY Typed
<1>2. QED
  BY <1>1 DEF Presented

\* An issue gives the shop its next pair.
LEMMA IssueTyped ==
    ASSUME TypeOK, RotationAssumption, NEW o \in Operations, Issues(o),
           shop' = [shop EXCEPT !.latest = @ + 1, !.presented = Presented(o)]
    PROVE  ShopCalled(o) /\ IssuedFor(o)
<1> DEFINE presented == Presented(o)
           latest == shop.latest + 1
<1>1. /\ shop \in [latest : 0 .. Last, voided : 0 .. Last, presented : [Pairs -> Nat],
                   consented : SUBSET Members]
      /\ shop.latest \in 0 .. Last /\ Last \in Nat /\ presented \in [Pairs -> Nat]
  BY Typed, PresentedTyped DEF TypeOK
<1>2. latest \in 1 .. Last /\ latest \in 0 .. Last
  BY <1>1 DEF Issues
<1>3. shop' = [shop EXCEPT !.latest = latest, !.presented = presented]
  OBVIOUS
<1> HIDE DEF presented, latest
<1>4. shop' = [latest |-> latest, voided |-> shop.voided, presented |-> presented,
               consented |-> shop.consented]
  BY <1>1, <1>3
<1>5. shop' \in [latest : 0 .. Last, voided : 0 .. Last, presented : [Pairs -> Nat],
                consented : SUBSET Members]
  BY <1>1, <1>2, <1>4
<1>6. shop'.latest = latest /\ shop'.voided = shop.voided /\ shop'.presented = presented
      /\ shop'.consented = shop.consented
  BY <1>1, <1>3
<1>7. ShopCalled(o)
  BY <1>5, <1>6 DEF ShopCalled, presented
<1>8. shop'.latest = shop.latest + 1 /\ shop.latest + 1 \in Pairs
  BY <1>2, <1>6 DEF Pairs, latest
<1>9. QED
  BY <1>7, <1>8 DEF IssuedFor

\* A call of the provider leaves a failure or an answer with the pair just issued.
LEMMA CallEnds ==
    ASSUME TypeOK, RotationAssumption, NEW o \in Operations, ProviderCall(o)
    PROVE  /\ ops' \in [Operations -> OperationRecords]
           /\ \A p \in Operations : p # o => ops'[p] = ops[p]
           /\ ShopCalled(o)
           /\ shop'.latest = shop.latest \/ IssuedFor(o)
           /\ \/ ops'[o].at = "failed"
              \/ /\ IssuedFor(o)
                 /\ ops'[o].at = "answered" /\ ops'[o].pair = shop'.latest
                 /\ ops'[o].presents = ops[o].presents /\ ops'[o].onRevoked = ops[o].onRevoked
<1> DEFINE failed == [ops[o] EXCEPT !.at = "failed"]
           answered == [at |-> "answered", by |-> ops[o].by, presents |-> ops[o].presents,
                        onRevoked |-> ops[o].onRevoked, pair |-> shop.latest + 1]
<1>t. /\ ops[o] \in OperationRecords /\ ops[o].at = "provider"
      /\ shop \in [latest : 0 .. Last, voided : 0 .. Last, presented : [Pairs -> Nat],
                   consented : SUBSET Members]
      /\ shop.latest \in 0 .. Last /\ Last \in Nat
  BY Typed DEF ProviderCall, TypeOK
<1>1. failed \in OperationRecords /\ failed.at = "failed"
  BY <1>t, OperationTyped DEF OperationRecords, Unused, Done
<1>2. CASE Set(o, failed) /\ shop' = [shop EXCEPT !.presented = Presented(o)]
  <2>1. ShopCalled(o) /\ shop'.latest = shop.latest
    BY <1>t, <1>2, PresentedTyped DEF ShopCalled
  <2> HIDE DEF failed
  <2>2. QED
    BY <1>1, <1>2, <2>1, OperationSet
<1>3. CASE /\ Issues(o)
           /\ shop' = [shop EXCEPT !.latest = @ + 1, !.presented = Presented(o)]
           /\ Set(o, failed) \/ Set(o, answered)
  <2>1. shop.latest + 1 \in 1 .. Last
    BY <1>t, <1>3 DEF Issues
  <2>2. ShopCalled(o) /\ IssuedFor(o)
    BY <1>3, IssueTyped
  <2>3. answered \in OperationRecords
    <3>1. ops[o].by \in Members /\ ops[o].presents \in 0 .. Last /\ ops[o].onRevoked \in BOOLEAN
      BY <1>t, OperationTyped
    <3>2. QED
      BY <2>1, <3>1 DEF OperationRecords, Pairs
  <2>4. CASE Set(o, failed)
    <3> HIDE DEF failed
    <3>1. QED
      BY <1>1, <2>2, <2>4, OperationSet
  <2>5. CASE Set(o, answered)
    <3>1. /\ answered.at = "answered" /\ answered.pair = shop'.latest
          /\ answered.presents = ops[o].presents /\ answered.onRevoked = ops[o].onRevoked
      BY <2>2 DEF IssuedFor
    <3> HIDE DEF answered
    <3>2. QED
      BY <2>2, <2>3, <2>5, <3>1, OperationSet
  <2>6. QED
    BY <1>3, <2>4, <2>5
<1>4. QED
  BY <1>2, <1>3 DEF ProviderCall

\* The end of the process ends the operations; a call may still have its effect.
LEMMA RestartEnds ==
    ASSUME TypeOK, RotationAssumption, Restart
    PROVE  /\ ops' \in [Operations -> OperationRecords]
           /\ \A o \in Operations : ops'[o].at \notin {"provider", "answered", "failed"}
           /\ \A o \in Operations : ops'[o] = Unused => ops[o] = Unused
           /\ group' = group
           /\ \/ shop' = shop
              \/ \E o \in Operations : ops[o].at = "provider" /\ ShopCalled(o) /\ IssuedFor(o)
<1>1. /\ ops' \in [Operations -> OperationRecords]
      /\ \A o \in Operations : ops'[o].at \notin {"provider", "answered", "failed"}
      /\ \A o \in Operations : ops'[o] = Unused => ops[o] = Unused
  BY DEF Restart, OperationRecords, Unused, Done
<1>2. ASSUME NEW o \in Operations, Issues(o),
             shop' = [shop EXCEPT !.latest = @ + 1, !.presented = Presented(o)]
      PROVE  ShopCalled(o) /\ IssuedFor(o)
  BY <1>2, IssueTyped
<1>3. QED
  BY <1>1, <1>2 DEF Restart

\* An operation begins with the reservation, which it writes down.
LEMMA BeginSets ==
    ASSUME TypeOK, RotationAssumption, NEW o \in Operations, NEW m \in Members,
           BeginAuthorization(o, m) \/ BeginRefresh(o, m)
    PROVE  /\ ops' \in [Operations -> OperationRecords] /\ ops[o] = Unused
           /\ \A p \in Operations : p # o => ops'[p] = ops[p]
           /\ ops'[o].at = "provider"
           /\ ops'[o].presents = IF BeginAuthorization(o, m) THEN 0 ELSE group.pair
           /\ BeginAuthorization(o, m) => ops'[o].onRevoked = group.revoked
<1>1. ASSUME NEW presents \in 0 .. Last, NEW revoked \in BOOLEAN,
             Set(o, [at |-> "provider", by |-> m, presents |-> presents, onRevoked |-> revoked])
      PROVE  /\ ops' \in [Operations -> OperationRecords]
             /\ \A p \in Operations : p # o => ops'[p] = ops[p]
             /\ ops'[o].at = "provider" /\ ops'[o].presents = presents
             /\ ops'[o].onRevoked = revoked
  <2> DEFINE q == [at |-> "provider", by |-> m, presents |-> presents, onRevoked |-> revoked]
  <2>1. q \in OperationRecords
    BY DEF OperationRecords
  <2>2. q.at = "provider" /\ q.presents = presents /\ q.onRevoked = revoked
    OBVIOUS
  <2>3. Set(o, q)
    BY <1>1
  <2> HIDE DEF q
  <2>4. QED
    BY <2>1, <2>2, <2>3, OperationSet
<1>2. 0 \in 0 .. Last /\ group.pair \in 0 .. Last /\ group.revoked \in BOOLEAN
  BY Typed
<1>3. CASE BeginAuthorization(o, m)
  BY <1>1, <1>2, <1>3 DEF BeginAuthorization
<1>4. CASE BeginRefresh(o, m) /\ ~BeginAuthorization(o, m)
  BY <1>1, <1>2, <1>4 DEF BeginRefresh
<1>5. QED
  BY <1>3, <1>4

\* An operation ends.
LEMMA OperationEnds ==
    ASSUME TypeOK, NEW o \in Operations, Finish(o) \/ Fail(o)
    PROVE  /\ ops' \in [Operations -> OperationRecords]
           /\ ops'[o] = Done
           /\ \A p \in Operations : p # o => ops'[p] = ops[p]
<1>1. Done \in OperationRecords
  BY DEF OperationRecords
<1>2. QED
  BY <1>1, OperationSet DEF Finish, Fail

-----------------------------------------------------------------------------
(* Publication *)

\* An answered operation that still has the reservation publishes a newer pair.
LEMMA FinishPublishes ==
    ASSUME TypeOK, RotationAssumption, ReservedKept, NEW o \in Operations, Finish(o),
           ~(UNCHANGED <<group, hosts, shop>>)
    PROVE  /\ ops[o].at = "answered" /\ group.pending = o /\ ops[o].by \in Members
           /\ group' \in Group /\ group.version < Last
           /\ group'.version = group.version + 1 /\ group'.pair = ops[o].pair
           /\ group'.members = [group.members EXCEPT ![ops[o].by] = 0]
           /\ group'.pending = ops[o].by /\ ~group'.lapsed /\ ~group'.authorizing
           /\ ~group'.reconnect /\ ~group'.revoked
           /\ Answer(ops[o].by)
           /\ shop'.latest = shop.latest /\ shop'.voided = shop.voided
           /\ shop'.presented = shop.presented /\ shop'.consented \subseteq Members
           /\ shop' \in [latest : 0 .. Last, voided : 0 .. Last, presented : [Pairs -> Nat],
                         consented : SUBSET Members]
<1>1. /\ ops[o].at = "answered" /\ group.pending = o /\ Answer(ops[o].by)
      /\ shop' = [shop EXCEPT !.consented = Consented(o)]
      /\ \E sameScopes \in BOOLEAN : group' = Published(o, sameScopes)
  BY DEF Finish
<1>2. ops[o] \in OperationRecords /\ ops[o].by \in Members /\ ops[o].pair \in 1 .. Last
  BY <1>1, Typed, OperationTyped DEF Pairs
<1>3. group.version < ops[o].pair /\ group.version < Last
  <2>1. group.version < ops[o].pair /\ group.version \in 0 .. Last /\ Last \in Nat
    BY <1>1, Typed DEF ReservedKept, Reserved
  <2>2. QED
    BY <1>2, <2>1
<1>4. PICK sameScopes \in BOOLEAN : group' = Published(o, sameScopes)
  BY <1>1
<1>5. Consented(o) \subseteq Members
  BY <1>2, Typed DEF Consented
<1>6. /\ shop'.latest = shop.latest /\ shop'.voided = shop.voided
      /\ shop'.presented = shop.presented /\ shop'.consented \subseteq Members
      /\ shop' \in [latest : 0 .. Last, voided : 0 .. Last, presented : [Pairs -> Nat],
                    consented : SUBSET Members]
  BY <1>1, <1>5 DEF TypeOK
<1>7. QED
  BY <1>1, <1>2, <1>3, <1>4, <1>6, PublishedGroup, ZenonT(90)

-----------------------------------------------------------------------------
(* The group, and what the rest of the proof needs of each step *)

\* Where the group keeps its pair, it publishes none; and how a reservation moves.
LEMMA GroupSteps ==
    ASSUME RotationAssumption, TypeOK, ReservedKept, [Next]_vars
    PROVE  /\ group' \in Group
           /\ PairKept \/ \E o \in Operations : Finish(o) /\ ~UNCHANGED <<group, hosts, shop>>
<1> DEFINE Goal == group' \in Group /\ PairKept
<1>t. group \in Group
  BY Typed
<1>1. ASSUME UNCHANGED group PROVE Goal
  BY <1>1, <1>t DEF PairKept
<1>2. ASSUME Lapse \/ Expire \/ Uninstall \/ EmitRedact PROVE Goal
  BY <1>2, LapseGroup, ExpireGroup, RevokedGroup
<1>3. ASSUME NEW o \in Operations, Fail(o) PROVE Goal
  BY <1>1, <1>3, FailGroup DEF Fail
<1>4. ASSUME NEW o \in Operations, NEW m \in Members, BeginAuthorization(o, m) \/ BeginRefresh(o, m)
      PROVE  Goal
  BY <1>4, AuthorizationGroup, RefreshGroup
<1>5. ASSUME NEW m \in Members, Commit(m) \/ Disconnect(m) PROVE Goal
  BY <1>5, CommitGroup, DisconnectGroup
<1>6. ASSUME NEW o \in Operations, Finish(o)
      PROVE  Goal \/ (group' \in Group /\ ~UNCHANGED <<group, hosts, shop>>)
  BY <1>1, <1>6, FinishPublishes
<1>7. \/ UNCHANGED group
      \/ Lapse \/ Expire \/ Uninstall \/ EmitRedact
      \/ \E o \in Operations : Finish(o) \/ Fail(o)
      \/ \E o \in Operations, m \in Members : BeginAuthorization(o, m) \/ BeginRefresh(o, m)
      \/ \E m \in Members : Commit(m) \/ Disconnect(m)
  BY StepCases DEF ProviderCall, Restart, Save, Receive, Recover, HostCrash, Send, ExpireMail, vars
<1> HIDE DEF Goal
<1>8. Goal \/ \E o \in Operations : Finish(o) /\ group' \in Group /\ ~UNCHANGED <<group, hosts, shop>>
  BY <1>1, <1>2, <1>3, <1>4, <1>5, <1>6, <1>7
<1>9. QED
  BY <1>8 DEF Goal

\* The shop's records keep their type, and its counts only grow.
LEMMA ShopSteps ==
    ASSUME RotationAssumption, TypeOK, ReservedKept, [Next]_vars
    PROVE  /\ shop' \in [latest : 0 .. Last, voided : 0 .. Last, presented : [Pairs -> Nat],
                         consented : SUBSET Members]
           /\ \/ shop'.latest = shop.latest /\ shop'.voided = shop.voided
                 /\ shop'.presented = shop.presented
              \/ Uninstall /\ shop'.latest = shop.latest /\ shop'.voided = shop.latest
                 /\ shop'.presented = shop.presented
              \/ \E o \in Operations : /\ ops[o].at = "provider" /\ ShopCalled(o)
                                       /\ shop'.latest = shop.latest \/ IssuedFor(o)
                                       /\ ProviderCall(o) \/ (Restart /\ IssuedFor(o))
<1> DEFINE Shops == [latest : 0 .. Last, voided : 0 .. Last, presented : [Pairs -> Nat],
                     consented : SUBSET Members]
           Goal == /\ shop' \in Shops
                   /\ \/ shop'.latest = shop.latest /\ shop'.voided = shop.voided
                         /\ shop'.presented = shop.presented
                      \/ Uninstall /\ shop'.latest = shop.latest /\ shop'.voided = shop.latest
                         /\ shop'.presented = shop.presented
                      \/ \E o \in Operations :
                            /\ ops[o].at = "provider" /\ ShopCalled(o)
                            /\ shop'.latest = shop.latest \/ IssuedFor(o)
                            /\ ProviderCall(o) \/ (Restart /\ IssuedFor(o))
<1>t. shop \in Shops
  BY DEF TypeOK
<1>1. ASSUME UNCHANGED shop PROVE Goal
  BY <1>1, <1>t, ZenonT(90)
<1>2. ASSUME NEW o \in Operations, ProviderCall(o) PROVE Goal
  BY <1>2, CallEnds DEF ShopCalled, ProviderCall
<1>3. ASSUME Restart PROVE Goal
  BY <1>1, <1>3, RestartEnds DEF ShopCalled
<1>4. ASSUME NEW o \in Operations, Finish(o) PROVE Goal
  BY <1>1, <1>4, FinishPublishes
<1>5. ASSUME NEW m \in Members, Disconnect(m) PROVE Goal
  <2>1. shop' = [shop EXCEPT !.consented = @ \ {m}]
    BY <1>5 DEF Disconnect
  <2>2. QED
    BY <1>t, <2>1
<1>6. ASSUME Uninstall PROVE Goal
  BY <1>6, <1>t DEF Uninstall
<1>7. \/ UNCHANGED shop \/ Uninstall \/ Restart
      \/ \E o \in Operations : ProviderCall(o) \/ Finish(o)
      \/ \E m \in Members : Disconnect(m)
  BY StepCases, ZenonT(90) DEF Lapse, Expire, EmitRedact, Fail, BeginAuthorization, BeginRefresh, Save, Commit,
                   Receive, Recover, HostCrash, Send, ExpireMail, vars
<1> HIDE DEF Goal
<1>8. Goal
  BY <1>1, <1>2, <1>3, <1>4, <1>5, <1>6, <1>7
<1>9. QED
  BY <1>8 DEF Goal

\* Who is a member, and at which version, changes by a commit, a disconnection or a
\* publication.
LEMMA MemberSteps ==
    ASSUME RotationAssumption, TypeOK, [Next]_vars
    PROVE  \/ group'.members = group.members
           \/ \E m \in Members : Commit(m) \/ Disconnect(m)
           \/ \E o \in Operations : Finish(o) /\ ~UNCHANGED <<group, hosts, shop>>
<1>1. ASSUME Lapse \/ Expire \/ Uninstall \/ EmitRedact PROVE group'.members = group.members
  BY <1>1, LapseGroup, ExpireGroup, RevokedGroup
<1>2. ASSUME NEW o \in Operations, Fail(o) PROVE group'.members = group.members
  BY <1>2, FailGroup DEF Fail
<1>3. ASSUME NEW o \in Operations, NEW m \in Members,
             BeginAuthorization(o, m) \/ BeginRefresh(o, m)
      PROVE  group'.members = group.members
  BY <1>3, AuthorizationGroup, RefreshGroup
<1>4. QED
  BY <1>1, <1>2, <1>3, StepCases, ZenonT(90)
     DEF ProviderCall, Restart, Save, Receive, Recover, HostCrash, Send, ExpireMail, vars

\* Versions grow with what the shop issues.
LEMMA VersionsStep ==
    ASSUME RotationAssumption, TypeOK, ReservedKept, VersionsAgree, [Next]_vars
    PROVE  VersionsAgree'
<1>t. /\ group.version \in 0 .. Last /\ Last \in Nat
      /\ shop.latest \in 0 .. Last /\ shop.voided \in 0 .. Last
      /\ group.members \in [Members -> 0 .. Out]
  BY Typed
<1>1. shop'.latest \in 0 .. Last /\ shop.latest <= shop'.latest /\ shop'.voided <= shop'.latest
  BY <1>t, ShopSteps DEF VersionsAgree, ShopCalled, IssuedFor
<1>2. ASSUME NEW o \in Operations, Finish(o), ~UNCHANGED <<group, hosts, shop>> PROVE VersionsAgree'
  <2>1. /\ ops[o].at = "answered" /\ group.pending = o /\ ops[o].by \in Members
        /\ group'.version = group.version + 1
        /\ group'.members = [group.members EXCEPT ![ops[o].by] = 0]
        /\ shop'.latest = shop.latest
    BY <1>2, FinishPublishes
  <2>2. group.version < ops[o].pair /\ ops[o].pair \in (shop.voided + 1) .. shop.latest
    BY <2>1 DEF ReservedKept, Reserved
  <2>3. group'.version <= shop'.latest /\ group'.version # 0
    BY <1>t, <2>1, <2>2
  <2>4. \A m \in Members : group'.members[m] = Out \/ group'.members[m] <= group'.version
    BY <1>t, <2>1 DEF VersionsAgree
  <2>5. QED
    BY <1>1, <2>3, <2>4 DEF VersionsAgree
<1>3. CASE PairKept
  <2>1. \A m \in Members : group'.members[m] = Out \/ group'.members[m] <= group'.version
    <3>1. CASE group'.members = group.members
      BY <1>3, <3>1 DEF VersionsAgree, PairKept
    <3>2. ASSUME NEW m \in Members, Commit(m) \/ Disconnect(m)
          PROVE  \A n \in Members : group'.members[n] = Out \/ group'.members[n] <= group'.version
      <4>1. \E v \in {group.version, Out} : group'.members = [group.members EXCEPT ![m] = v]
        BY <3>2, CommitGroup, DisconnectGroup
      <4>2. QED
        BY <1>3, <1>t, <4>1 DEF VersionsAgree, PairKept
    <3>3. ASSUME NEW o \in Operations, Finish(o), ~UNCHANGED <<group, hosts, shop>> PROVE FALSE
      <4>1. group'.version = group.version + 1
        BY <3>3, FinishPublishes
      <4>2. QED
        BY <1>3, <1>t, <4>1 DEF PairKept
    <3>4. \/ group'.members = group.members
          \/ \E m \in Members : Commit(m) \/ Disconnect(m)
          \/ \E o \in Operations : Finish(o) /\ ~UNCHANGED <<group, hosts, shop>>
      BY MemberSteps
    <3>5. QED
      BY <3>1, <3>2, <3>3, <3>4
  <2>2. QED
    BY <1>1, <1>3, <1>t, <2>1 DEF VersionsAgree, PairKept, GroupToken
<1>4. QED
  BY <1>2, <1>3, GroupSteps

-----------------------------------------------------------------------------
(* The hosts and their mail *)

Hosts == [received : Token, saved : Token, asked : SUBSET Members]

\* Setting a host leaves the others.
LEMMA HostSet ==
    ASSUME TypeOK, NEW m \in Members, NEW h \in Hosts, Host(m, h)
    PROVE  /\ hosts' \in [Members -> Hosts]
           /\ hosts'[m] = h
           /\ \A n \in Members : n # m => hosts'[n] = hosts[n]
  BY DEF TypeOK, Host, Hosts

\* A host that is given a token, and the members it is to send it to.
Given(h, t, a) == [h EXCEPT !.received = t, !.asked = a]

LEMMA HostGiven ==
    ASSUME NEW h \in Hosts, NEW t \in Token, NEW a \in SUBSET Members
    PROVE  /\ Given(h, t, a) \in Hosts
           /\ Given(h, t, a).received = t
           /\ Given(h, t, a).saved = h.saved
  BY DEF Hosts, Given

\* A host that stores what it received holds the newer of the two, and has received nothing.
Stored(h) == [h EXCEPT !.received = None,
                       !.saved = IF h.received.version > @.version THEN h.received ELSE @]

LEMMA HostStored ==
    ASSUME NEW h \in Hosts, None \in Token
    PROVE  /\ Stored(h) \in Hosts /\ Stored(h).received = None
           /\ \/ Stored(h).saved = h.saved
              \/ Stored(h).saved = h.received /\ h.received.version > h.saved.version
<1> DEFINE newer == h.received.version > h.saved.version
           s == IF newer THEN h.received ELSE h.saved
<1>t. h.received \in Token /\ h.saved \in Token
  BY DEF Hosts
<1>1. s \in Token /\ (s = h.saved \/ (s = h.received /\ newer))
  <2> HIDE DEF newer
  <2>1. QED
    BY <1>t
<1>2. Stored(h) = [h EXCEPT !.received = None, !.saved = s]
  BY DEF Stored
<1> HIDE DEF s
<1>3. [h EXCEPT !.received = None, !.saved = s] \in Hosts
      /\ [h EXCEPT !.received = None, !.saved = s].received = None
      /\ [h EXCEPT !.received = None, !.saved = s].saved = s
  BY <1>1 DEF Hosts
<1>4. QED
  BY <1>1, <1>2, <1>3

\* A token a host has received is no token, one it had, one in its mail, or the pair
\* just published; one it has saved is the one it had or a newer one it received.
Received(m) ==
    \/ hosts'[m].received \in {None, hosts[m].received}
    \/ \E s \in Members : hosts'[m].received = mail[m][s]
    \/ hosts'[m].received = GroupToken' /\ group' \in Group

Saved(m) ==
    \/ hosts'[m].saved = hosts[m].saved
    \/ hosts'[m].saved = hosts[m].received /\ hosts[m].received.version > hosts[m].saved.version

LEMMA NoneIsToken == ASSUME RotationAssumption PROVE None \in Token
  BY LastIsNat DEF None, Token

LEMMA HostSteps ==
    ASSUME RotationAssumption, TypeOK, ReservedKept, [Next]_vars
    PROVE  /\ hosts' \in [Members -> Hosts]
           /\ \A m \in Members : Received(m) /\ Saved(m)
<1> DEFINE Moved(m) == Received(m) /\ Saved(m)
           Goal == hosts' \in [Members -> Hosts] /\ \A m \in Members : Moved(m)
<1>t. /\ hosts \in [Members -> Hosts] /\ mail \in [Members -> [Members -> Token]]
      /\ None \in Token
  BY NoneIsToken DEF TypeOK, Hosts
<1>1. ASSUME UNCHANGED hosts PROVE Goal
  BY <1>1, <1>t DEF Received, Saved
<1>2. ASSUME NEW m \in Members, NEW h \in Hosts, Host(m, h),
             \/ h.received \in {None, hosts[m].received}
             \/ \E s \in Members : h.received = mail[m][s]
             \/ h.received = GroupToken' /\ group' \in Group,
             \/ h.saved = hosts[m].saved
             \/ h.saved = hosts[m].received /\ hosts[m].received.version > hosts[m].saved.version
      PROVE  Goal
  <2>1. hosts' \in [Members -> Hosts] /\ hosts'[m] = h
        /\ \A n \in Members : n # m => hosts'[n] = hosts[n]
    BY <1>2, HostSet
  <2>2. Moved(m)
    BY <1>2, <2>1 DEF Received, Saved
  <2>3. ASSUME NEW n \in Members, n # m PROVE Moved(n)
    BY <2>1, <2>3 DEF Received, Saved
  <2>4. QED
    BY <2>1, <2>2, <2>3
<1>3. ASSUME NEW o \in Operations, Finish(o) PROVE Goal
  <2>1. CASE UNCHANGED <<group, hosts, shop>>
    BY <1>1, <2>1
  <2>2. CASE ~UNCHANGED <<group, hosts, shop>>
    <3> DEFINE m == ops[o].by
               token == GroupToken'
               asked == {r \in Members \ {m} : IsMember(r)}
               old == hosts[m]
               h == Given(old, token, asked)
    <3>1. m \in Members /\ group' \in Group /\ Answer(m)
      BY <1>3, <2>2, FinishPublishes
    <3>2. token \in Token /\ asked \in SUBSET Members
      BY <3>1 DEF GroupToken, Token, Group
    <3>3. Host(m, h) \/ UNCHANGED hosts
      BY <3>1 DEF Answer, Given
    <3>4. token = GroupToken'
      OBVIOUS
    <3>5. old \in Hosts
      BY <1>t, <3>1
    <3> HIDE DEF m, token, asked, Goal, old
    <3>6. h \in Hosts /\ h.received = token /\ h.saved = old.saved
      BY <3>2, <3>5, HostGiven
    <3> HIDE DEF h
    <3> USE DEF old
    <3>7. QED
      BY <1>1, <1>2, <3>1, <3>3, <3>4, <3>6
  <2>3. QED
    BY <2>1, <2>2
<1>4. ASSUME NEW m \in Members, Save(m) PROVE Goal
  <2> DEFINE h == Stored(hosts[m])
  <2>1. h \in Hosts /\ h.received = None
        /\ \/ h.saved = hosts[m].saved
           \/ h.saved = hosts[m].received /\ hosts[m].received.version > hosts[m].saved.version
    BY <1>t, <1>4, HostStored
  <2>2. Host(m, h)
    BY <1>4 DEF Save, Stored
  <2> HIDE DEF h, Goal
  <2>3. QED
    BY <1>2, <2>1, <2>2
<1>5. ASSUME NEW m \in Members, Receive(m) PROVE Goal
  <2> DEFINE valid == {s \in Members : mail[m][s] # None /\ ~group.revoked /\ IsMember(m)
                                       /\ Validates(mail[m][s])}
             asking == {r \in Members : [by |-> r, version |-> group.version] \in recoveries[m]
                                        /\ IsMember(r) /\ Current(m) /\ ~group.revoked}
             received == IF valid = {} THEN hosts[m].received ELSE mail[m][CHOOSE s \in valid : TRUE]
             asked == hosts[m].asked \union asking
             old == hosts[m]
             h == Given(old, received, asked)
  <2>1. Host(m, h) \/ UNCHANGED hosts
    BY <1>5 DEF Receive, Given
  <2>2. received = hosts[m].received \/ \E s \in Members : received = mail[m][s]
    OBVIOUS
  <2>3. asked \in SUBSET Members /\ old \in Hosts
    BY <1>t DEF Hosts
  <2>4. received \in Token
    BY <1>t, <2>2 DEF Hosts
  <2> HIDE DEF received, asked, old
  <2>5. h \in Hosts /\ h.received = received /\ h.saved = old.saved
    BY <2>3, <2>4, HostGiven
  <2> HIDE DEF h, Goal
  <2> USE DEF old
  <2>6. QED
    BY <1>1, <1>2, <2>1, <2>2, <2>5
<1>6. ASSUME NEW s \in Members, NEW r \in Members, Send(s, r) PROVE Goal
  <2> DEFINE h == [hosts[s] EXCEPT !.asked = @ \ {r}]
  <2>1. h \in Hosts /\ h.received = hosts[s].received /\ h.saved = hosts[s].saved
    BY <1>t DEF Hosts
  <2>2. Host(s, h)
    BY <1>6 DEF Send
  <2> HIDE DEF h, Goal
  <2>3. QED
    BY <1>2, <2>1, <2>2
<1>7. ASSUME NEW m \in Members, HostCrash(m) PROVE Goal
  <2> DEFINE h == Given(hosts[m], None, {})
  <2>1. h \in Hosts /\ h.received = None /\ h.saved = hosts[m].saved
    BY <1>t, HostGiven
  <2>2. Host(m, h)
    BY <1>7 DEF HostCrash, Given
  <2> HIDE DEF h, Goal
  <2>3. QED
    BY <1>2, <2>1, <2>2
<1>8. \/ UNCHANGED hosts
      \/ \E o \in Operations : Finish(o)
      \/ \E m \in Members : Save(m) \/ Receive(m) \/ HostCrash(m)
      \/ \E m, r \in Members : Send(m, r)
  BY StepCases DEF Lapse, Expire, Uninstall, EmitRedact, Restart, ProviderCall, Fail,
                   BeginAuthorization, BeginRefresh, Commit, Disconnect, Recover, ExpireMail, vars
<1> HIDE DEF Goal
<1>9. Goal
  BY <1>1, <1>3, <1>4, <1>5, <1>6, <1>7, <1>8
<1>10. QED
  BY <1>9 DEF Goal

\* What waits for a host is what waited, or what its sender has stored.
LEMMA MailSteps ==
    ASSUME RotationAssumption, TypeOK, [Next]_vars
    PROVE  /\ mail' \in [Members -> [Members -> Token]]
           /\ \A m, s \in Members : mail'[m][s] \in {None, mail[m][s], hosts[s].saved}
<1> DEFINE Goal == /\ mail' \in [Members -> [Members -> Token]]
                   /\ \A m, s \in Members : mail'[m][s] \in {None, mail[m][s], hosts[s].saved}
<1>t. /\ \A m \in Members : hosts[m].saved \in Token
      /\ mail \in [Members -> [Members -> Token]] /\ None \in Token
  BY NoneIsToken DEF TypeOK
<1>1. ASSUME UNCHANGED mail PROVE Goal
  BY <1>1, <1>t
<1>2. ASSUME NEW s \in Members, NEW r \in Members, Send(s, r) PROVE Goal
  <2>1. UNCHANGED mail \/ mail' = [mail EXCEPT ![r][s] = hosts[s].saved]
    BY <1>2 DEF Send
  <2>2. QED
    BY <1>1, <1>t, <2>1
<1>3. ASSUME NEW m \in Members, Receive(m) PROVE Goal
  BY <1>3, <1>t DEF Receive
<1>4. ASSUME NEW m \in Members, NEW s \in Members, ExpireMail(m, s) PROVE Goal
  BY <1>4, <1>t DEF ExpireMail
<1>5. ASSUME Restart PROVE Goal
  BY <1>5, <1>t DEF Restart
<1>6. \/ UNCHANGED mail \/ Restart
      \/ \E m \in Members : Receive(m)
      \/ \E m, r \in Members : Send(m, r) \/ ExpireMail(m, r)
  BY StepCases DEF Lapse, Expire, Uninstall, EmitRedact, ProviderCall, Finish, Fail,
                   BeginAuthorization, BeginRefresh, Save, Commit, Disconnect, Recover, HostCrash,
                   memory, vars
<1> HIDE DEF Goal
<1>7. Goal
  BY <1>1, <1>2, <1>3, <1>4, <1>5, <1>6
<1>8. QED
  BY <1>7 DEF Goal

\* The operations, the requests for recovery and the bound on the faults.
LEMMA OpsStep ==
    ASSUME RotationAssumption, TypeOK, [Next]_vars
    PROVE  ops' \in [Operations -> OperationRecords]
<1> DEFINE Goal == ops' \in [Operations -> OperationRecords]
<1>1. ASSUME UNCHANGED ops PROVE Goal
  BY <1>1 DEF TypeOK
<1>2. ASSUME NEW o \in Operations, ProviderCall(o) \/ Finish(o) \/ Fail(o) PROVE Goal
  BY <1>2, CallEnds, OperationEnds
<1>3. ASSUME NEW o \in Operations, NEW m \in Members, BeginAuthorization(o, m) \/ BeginRefresh(o, m)
      PROVE  Goal
  BY <1>3, BeginSets
<1>4. ASSUME Restart PROVE Goal
  BY <1>4, RestartEnds
<1>5. \/ UNCHANGED ops \/ Restart
      \/ \E o \in Operations : ProviderCall(o) \/ Finish(o) \/ Fail(o)
      \/ \E o \in Operations, m \in Members : BeginAuthorization(o, m) \/ BeginRefresh(o, m)
  BY StepCases DEF Lapse, Expire, Uninstall, EmitRedact, Save, Commit, Disconnect, Receive, Recover,
                   HostCrash, Send, ExpireMail, memory, vars
<1> HIDE DEF Goal
<1>6. Goal
  BY <1>1, <1>2, <1>3, <1>4, <1>5
<1>7. QED
  BY <1>6 DEF Goal

LEMMA RecoveriesStep ==
    ASSUME RotationAssumption, TypeOK, [Next]_vars
    PROVE  recoveries' \in [Members -> SUBSET [by : Members, version : 0 .. Last]]
<1>t. /\ recoveries \in [Members -> SUBSET [by : Members, version : 0 .. Last]]
      /\ group.version \in 0 .. Last
  BY Typed DEF TypeOK
<1>1. ASSUME NEW m \in Members, Recover(m)
      PROVE  recoveries' \in [Members -> SUBSET [by : Members, version : 0 .. Last]]
  <2>1. [by |-> m, version |-> group.version] \in [by : Members, version : 0 .. Last]
    BY <1>t
  <2>2. QED
    BY <1>1, <1>t, <2>1 DEF Recover
<1>2. ASSUME NEW m \in Members, Receive(m)
      PROVE  recoveries' \in [Members -> SUBSET [by : Members, version : 0 .. Last]]
  BY <1>2, <1>t DEF Receive
<1>3. ASSUME Restart PROVE recoveries' \in [Members -> SUBSET [by : Members, version : 0 .. Last]]
  BY <1>3 DEF Restart
<1>4. UNCHANGED recoveries \/ Restart \/ \E m \in Members : Recover(m) \/ Receive(m)
  BY StepCases DEF Lapse, Expire, Uninstall, EmitRedact, ProviderCall, Finish, Fail,
                   BeginAuthorization, BeginRefresh, Save, Commit, Disconnect, HostCrash,
                   Send, ExpireMail, memory, vars
<1>5. QED
  BY <1>1, <1>2, <1>3, <1>4, <1>t

LEMMA FaultsStep == ASSUME RotationAssumption, TypeOK, [Next]_vars PROVE faults' \in 0 .. MaxFaults
<1>t. faults \in 0 .. MaxFaults /\ MaxFaults \in Nat
  BY DEF TypeOK, RotationAssumption
<1>1. UNCHANGED faults \/ Fault
  <2>1. ASSUME NEW m \in Members, Receive(m) PROVE UNCHANGED faults \/ Fault
    BY <2>1 DEF Receive, Fault
  <2>2. QED
    BY <2>1, StepCases
       DEF Lapse, Expire, Uninstall, EmitRedact, ProviderCall, Finish, Fail, Restart,
           BeginAuthorization, BeginRefresh, Save, Commit, Disconnect, Recover, HostCrash,
           Send, ExpireMail, vars
<1>2. QED
  BY <1>t, <1>1 DEF Fault

LEMMA TypeStep == ASSUME RotationAssumption, TypeOK, ReservedKept, [Next]_vars PROVE TypeOK'
<1>1. group' \in Group
  BY GroupSteps
<1>2. shop' \in [latest : 0 .. Last, voided : 0 .. Last, presented : [Pairs -> Nat],
                 consented : SUBSET Members]
  BY ShopSteps
<1>3. hosts' \in [Members -> Hosts]
  BY HostSteps
<1>4. QED
  BY <1>1, <1>2, <1>3, OpsStep, MailSteps, RecoveriesStep, FaultsStep DEF TypeOK, Hosts

-----------------------------------------------------------------------------
(* The invariant is kept *)

\* The facts about the next state that the steps need of its type.
LEMMA TypedNext ==
    ASSUME RotationAssumption, TypeOK, ReservedKept, [Next]_vars
    PROVE  /\ group'.version \in 0 .. Last /\ group'.pair \in 0 .. Last
           /\ group'.members \in [Members -> 0 .. Out]
           /\ group'.pending \in Members \union Operations \union {Nobody}
           /\ shop'.latest \in 0 .. Last /\ shop'.voided \in 0 .. Last
           /\ shop'.presented \in [Pairs -> Nat]
           /\ \A o \in Operations : ops'[o] \in OperationRecords
<1>1. group' \in Group
  BY GroupSteps
<1>2. QED
  BY <1>1, ShopSteps, OpsStep DEF Group

\* No token is newer than the group, and none of its version differs from it.
LEMMA TokensStep ==
    ASSUME RotationAssumption, TypeOK, ReservedKept, VersionsAgree, TokensKnown, [Next]_vars
    PROVE  TokensKnown'
<1>t. /\ group.version \in 0 .. Last /\ Last \in Nat /\ group'.version \in 0 .. Last
      /\ \A m \in Members : hosts[m].received \in Token /\ hosts[m].saved \in Token
      /\ \A m, s \in Members : mail[m][s] \in Token
      /\ None \in Token
  <2>1. \A m \in Members : hosts[m].received \in Token /\ hosts[m].saved \in Token
    BY DEF TypeOK
  <2>2. \A m, s \in Members : mail[m][s] \in Token
    BY DEF TypeOK
  <2>3. QED
    BY <2>1, <2>2, Typed, TypedNext, NoneIsToken
<1>1. ASSUME NEW t \in Token, OfGroup(t) PROVE OfGroup(t)'
  <2>t. t.version \in 0 .. Last
    BY DEF Token
  <2>1. CASE PairKept
    BY <1>1, <2>1 DEF PairKept, OfGroup, GroupToken
  <2>2. CASE \E o \in Operations : Finish(o) /\ ~UNCHANGED <<group, hosts, shop>>
    <3>1. group'.version = group.version + 1
      BY <2>2, FinishPublishes
    <3>2. QED
      BY <1>1, <1>t, <2>t, <3>1 DEF OfGroup
  <2>3. QED
    BY <2>1, <2>2, GroupSteps
<1>2. OfGroup(None)
  BY <1>t DEF OfGroup, VersionsAgree, None
<1>3. OfGroup(GroupToken)'
  <2>1. GroupToken'.version = group'.version
    BY DEF GroupToken
  <2>2. QED
    BY <1>t, <2>1 DEF OfGroup
<1>4. ASSUME NEW m \in Members PROVE OfGroup(hosts[m].received)' /\ OfGroup(hosts[m].saved)'
  <2> DEFINE received == hosts'[m].received
             saved == hosts'[m].saved
  <2>1. Received(m) /\ Saved(m)
    BY HostSteps
  <2>2. \/ received \in Token /\ OfGroup(received)
        \/ received = GroupToken'
    BY <1>t, <1>2, <2>1 DEF Received, TokensKnown
  <2>3. saved \in Token /\ OfGroup(saved)
    BY <1>t, <2>1 DEF Saved, TokensKnown
  <2>4. OfGroup(hosts[m].received)' <=> /\ received.version <= group'.version
                                        /\ received.version = group'.version => received = GroupToken'
    BY DEF OfGroup
  <2>5. OfGroup(hosts[m].saved)' <=> /\ saved.version <= group'.version
                                     /\ saved.version = group'.version => saved = GroupToken'
    BY DEF OfGroup
  <2> HIDE DEF received, saved
  <2>6. ASSUME NEW t \in Token, OfGroup(t)
        PROVE  t.version <= group'.version /\ (t.version = group'.version => t = GroupToken')
    BY <1>1, <2>6 DEF OfGroup
  <2>7. GroupToken'.version <= group'.version
    BY <1>3 DEF OfGroup
  <2>8. QED
    BY <2>2, <2>3, <2>4, <2>5, <2>6, <2>7
<1>5. ASSUME NEW m \in Members, NEW s \in Members PROVE OfGroup(mail[m][s])'
  <2> DEFINE t == mail'[m][s]
  <2>1. t \in Token /\ OfGroup(t)
    BY <1>t, <1>2, MailSteps DEF TokensKnown
  <2>2. OfGroup(mail[m][s])' <=> /\ t.version <= group'.version
                                 /\ t.version = group'.version => t = GroupToken'
    BY DEF OfGroup
  <2> HIDE DEF t
  <2>3. t.version <= group'.version /\ (t.version = group'.version => t = GroupToken')
    BY <1>1, <2>1 DEF OfGroup
  <2>4. QED
    BY <2>2, <2>3
<1>6. QED
  BY <1>4, <1>5 DEF TokensKnown

\* Whoever is current keeps the pair, and only a commit of it makes one current.
LEMMA HoldersStep ==
    ASSUME RotationAssumption, TypeOK, ReservedKept, VersionsAgree, TokensKnown, HoldersCurrent,
           [Next]_vars
    PROVE  HoldersCurrent'
<1>t. /\ group.version \in 0 .. Last /\ Last \in Nat
      /\ group.members \in [Members -> 0 .. Out] /\ group'.members \in [Members -> 0 .. Out]
  BY Typed, TypedNext
<1> SUFFICES ASSUME NEW m \in Members, group'.members[m] # Out, group'.members[m] = group'.version,
                    group'.version # 0
             PROVE  hosts'[m].saved = GroupToken'
  BY DEF HoldersCurrent, Current, IsMember
<1>1. ASSUME NEW o \in Operations, Finish(o), ~UNCHANGED <<group, hosts, shop>> PROVE FALSE
  <2>1. /\ group'.version = group.version + 1 /\ ops[o].by \in Members
        /\ group'.members = [group.members EXCEPT ![ops[o].by] = 0]
    BY <1>1, FinishPublishes
  <2>2. group.members[m] = Out \/ group.members[m] <= group.version
    BY DEF VersionsAgree
  <2>3. group'.members[m] = 0 \/ group'.members[m] = group.members[m]
    BY <1>t, <2>1
  <2>4. group.members[m] \in 0 .. Out
    BY <1>t
  <2>5. QED
    BY <1>t, <2>1, <2>2, <2>3, <2>4
<1>2. PairKept /\ GroupToken' = GroupToken
  BY <1>1, GroupSteps DEF PairKept, GroupToken
<1>3. hosts[m].saved = GroupToken
  <2>1. CASE group'.members = group.members
    BY <1>2, <2>1 DEF HoldersCurrent, Current, IsMember, PairKept
  <2>2. ASSUME NEW n \in Members, Disconnect(n) PROVE hosts[m].saved = GroupToken
    <3>1. group'.members = [group.members EXCEPT ![n] = Out]
      BY <2>2, DisconnectGroup
    <3>2. group'.members[m] = group.members[m]
      BY <1>t, <3>1
    <3>3. QED
      BY <1>2, <3>2 DEF HoldersCurrent, Current, IsMember, PairKept
  <2>3. ASSUME NEW n \in Members, Commit(n) PROVE hosts[m].saved = GroupToken
    <3>1. group'.members = [group.members EXCEPT ![n] = group.version]
          /\ hosts[n].saved.version = group.version
      BY <2>3, CommitGroup DEF Commit
    <3>2. CASE m = n
      BY <3>1, <3>2 DEF TokensKnown, OfGroup
    <3>3. CASE m # n
      <4>1. group'.members[m] = group.members[m]
        BY <1>t, <3>1, <3>3
      <4>2. QED
        BY <1>2, <4>1 DEF HoldersCurrent, Current, IsMember, PairKept
    <3>4. QED
      BY <3>2, <3>3
  <2>4. QED
    BY <1>1, <2>1, <2>2, <2>3, MemberSteps
<1>4. hosts'[m].saved = hosts[m].saved
  <2>1. Saved(m)
    BY HostSteps
  <2>2. hosts[m].received \in Token /\ hosts[m].saved.version = group.version
    BY <1>3 DEF TypeOK, GroupToken
  <2>3. hosts[m].received.version \in 0 .. Last /\ hosts[m].received.version <= group.version
    BY <2>2 DEF TokensKnown, OfGroup, Token
  <2>4. QED
    BY <1>t, <2>1, <2>2, <2>3 DEF Saved
<1>5. QED
  BY <1>2, <1>3, <1>4

\* What a call of the provider changes: it is the first to present its pair.
LEMMA CallFacts ==
    ASSUME RotationAssumption, TypeOK, PresentedFresh, NEW o \in Operations,
           ops[o].at = "provider", ShopCalled(o), shop'.latest = shop.latest \/ IssuedFor(o)
    PROVE  /\ shop.latest <= shop'.latest /\ shop'.voided = shop.voided
           /\ ops[o].presents \in 0 .. shop.latest
           /\ \A p \in Pairs :
                 IF p = ops[o].presents
                   THEN shop.presented[p] = 0 /\ shop'.presented[p] = 1
                   ELSE shop'.presented[p] = shop.presented[p]
<1>1. /\ ops[o].presents \in 0 .. Last /\ Last \in Nat /\ shop.latest \in 0 .. Last
      /\ shop.presented \in [Pairs -> Nat]
  BY Typed, OperationTyped
<1>2. ops[o].presents # 0 => ops[o].presents <= shop.latest /\ shop.presented[ops[o].presents] = 0
  BY DEF PresentedFresh, Presents
<1>3. shop'.voided = shop.voided /\ shop.latest <= shop'.latest
  BY <1>1 DEF ShopCalled, IssuedFor
<1>4. ASSUME NEW p \in Pairs
      PROVE  shop'.presented[p] = shop.presented[p] + (IF p = ops[o].presents THEN 1 ELSE 0)
  BY DEF ShopCalled, Presented
<1>5. ASSUME NEW p \in Pairs
      PROVE  IF p = ops[o].presents
               THEN shop.presented[p] = 0 /\ shop'.presented[p] = 1
               ELSE shop'.presented[p] = shop.presented[p]
  <2>1. p # 0 /\ shop.presented[p] \in Nat
    BY <1>1 DEF Pairs
  <2>2. QED
    BY <1>2, <1>4, <2>1
<1>6. QED
  BY <1>1, <1>2, <1>3, <1>5

\* The names of members, of operations and of nobody differ.
LEMMA Names ==
    ASSUME RotationAssumption
    PROVE  /\ \A o \in Operations : o \notin Members /\ o # Nobody
           /\ \A m \in Members : m \notin Operations /\ m # Nobody
  BY DEF RotationAssumption

\* The operation with the reservation is the one that reserved, and its answer is new.
LEMMA ReservedStep ==
    ASSUME RotationAssumption, TypeOK, VersionsAgree, ReservedKept, PresentedFresh, SettledUnspent,
           [Next]_vars
    PROVE  ReservedKept'
<1>t. /\ group.version \in 0 .. Last /\ Last \in Nat
      /\ shop.latest \in 0 .. Last /\ shop.voided \in 0 .. Last
      /\ group.version <= shop.latest /\ shop.voided <= shop.latest
      /\ \A o \in Operations : ops[o] \in OperationRecords
  BY Typed DEF VersionsAgree
<1>1. ASSUME group'.pending = group.pending, group'.lapsed = group.lapsed, FlagsKept,
             group'.version = group.version, ops' = ops, shop'.latest = shop.latest,
             shop'.voided = shop.voided, shop'.presented = shop.presented
      PROVE  ReservedKept'
  BY <1>1 DEF ReservedKept, Reserved, FlagsKept
<1>2. ASSUME group'.pending \notin Operations, group'.pending = Nobody => ~group'.lapsed
      PROVE  ReservedKept'
  BY <1>2 DEF ReservedKept, Reserved
<1>3. ASSUME Lapse PROVE ReservedKept'
  <2>1. /\ \A o \in Operations : ops[o].at = "provider" => group.pending # o
        /\ group'.pending = group.pending /\ group.pending # Nobody /\ FlagsKept /\ PairKept
        /\ ops' = ops /\ shop' = shop
    BY <1>3, LapseGroup DEF Lapse, memory
  <2>2. QED
    BY <2>1 DEF ReservedKept, Reserved, FlagsKept, PairKept
<1>4. ASSUME Expire PROVE ReservedKept'
  <2>1. group'.pending \notin Operations /\ (group'.pending = Nobody => ~group'.lapsed)
    BY <1>4, ExpireGroup, Names DEF ReservedKept
  <2>2. QED
    BY <1>2, <2>1
<1>5. ASSUME Uninstall \/ EmitRedact PROVE ReservedKept'
  BY <1>2, <1>5, RevokedGroup, Names
<1>6. ASSUME NEW m \in Members, Commit(m) PROVE ReservedKept'
  <2>1. group'.pending = Nobody /\ ~group'.lapsed
    BY <1>6, CommitGroup DEF Commit, ReservedKept
  <2>2. QED
    BY <1>2, <2>1, Names
<1>7. ASSUME NEW m \in Members, Disconnect(m) PROVE ReservedKept'
  <2>1. shop' = [shop EXCEPT !.consented = @ \ {m}] /\ ops' = ops
    BY <1>7 DEF Disconnect, memory
  <2>2. shop'.latest = shop.latest /\ shop'.voided = shop.voided /\ shop'.presented = shop.presented
    BY <2>1 DEF TypeOK
  <2>3. QED
    BY <1>1, <1>7, <2>1, <2>2, DisconnectGroup DEF PairKept
<1>8. ASSUME NEW o \in Operations, Finish(o) \/ Fail(o) PROVE ReservedKept'
  <2>1. CASE group' = group /\ shop' = shop
    <3>1. ops'[o] = Done /\ \A q \in Operations : q # o => ops'[q] = ops[q]
      BY <1>8, OperationEnds
    <3>2. ASSUME NEW q \in Operations PROVE Reserved(q)'
      BY <2>1, <3>1 DEF ReservedKept, Reserved, Done, Unused
    <3>3. QED
      BY <2>1, <3>2 DEF ReservedKept
  <2>2. CASE Finish(o) /\ ~UNCHANGED <<group, hosts, shop>>
    BY <1>2, <2>2, FinishPublishes, Names
  <2>3. CASE Fail(o) /\ group.pending = o
    BY <1>2, <2>3, FailGroup, Names
  <2>4. QED
    BY <1>8, <2>1, <2>2, <2>3 DEF Fail
<1>9. ASSUME NEW o \in Operations, NEW m \in Members, BeginAuthorization(o, m) \/ BeginRefresh(o, m)
      PROVE  ReservedKept'
  <2>1. /\ ops'[o].at = "provider" /\ shop' = shop
        /\ ops'[o].presents = IF BeginAuthorization(o, m) THEN 0 ELSE group.pair
        /\ BeginAuthorization(o, m) => ops'[o].onRevoked = group.revoked
    BY <1>9, BeginSets DEF BeginAuthorization, BeginRefresh
  <2>2. group'.pending = o
    BY <1>9, AuthorizationGroup, RefreshGroup
  <2>3. Reserved(o)'
    <3>1. CASE BeginAuthorization(o, m)
      <4>1. /\ ~group'.lapsed /\ group'.authorizing /\ group'.uncertain
            /\ group'.revoked = group.revoked /\ ops'[o].presents = 0
            /\ ops'[o].onRevoked = group.revoked
        BY <2>1, <3>1, AuthorizationGroup
      <4>2. QED
        BY <2>1, <2>2, <4>1 DEF Reserved, Unused
    <3>2. CASE BeginRefresh(o, m) /\ ~BeginAuthorization(o, m)
      <4>1. /\ ~group'.authorizing /\ group'.lapsed = group.lapsed /\ group'.revoked = group.revoked
            /\ group.pending = Nobody /\ ~group.revoked /\ ~group.reconnect /\ group.version # 0
            /\ ops'[o].presents = group.pair
        BY <2>1, <3>2, RefreshGroup DEF BeginRefresh
      <4>2. group.pair \in (shop.voided + 1) .. shop.latest
        BY <4>1 DEF SettledUnspent, Settled
      <4>3. group.pair # 0 /\ ~group.lapsed
        BY <1>t, <4>1, <4>2 DEF ReservedKept
      <4>4. QED
        BY <2>1, <2>2, <4>1, <4>3 DEF Reserved, Unused
    <3>3. QED
      BY <1>9, <3>1, <3>2
  <2>4. ASSUME NEW q \in Operations PROVE Reserved(q)'
    <3>1. CASE q = o
      BY <2>3, <3>1
    <3>2. CASE q # o
      BY <2>2, <3>2 DEF Reserved
    <3>3. QED
      BY <3>1, <3>2
  <2>5. QED
    BY <2>2, <2>4, Names DEF ReservedKept
<1>10. ASSUME NEW o \in Operations, ProviderCall(o) PROVE ReservedKept'
  <2>1. /\ group' = group /\ ops[o].at = "provider"
        /\ \A q \in Operations : q # o => ops'[q] = ops[q]
        /\ ShopCalled(o) /\ (shop'.latest = shop.latest \/ IssuedFor(o))
    BY <1>10, CallEnds DEF ProviderCall
  <2>2. /\ shop.latest <= shop'.latest /\ shop'.voided = shop.voided
        /\ ops[o].presents \in 0 .. shop.latest
        /\ \A p \in Pairs : p # ops[o].presents => shop'.presented[p] = shop.presented[p]
    BY <2>1, CallFacts
  <2>3. ASSUME NEW q \in Operations, q # o PROVE Reserved(q)'
    <3>1. ASSUME ops[q].at = "answered", group.pending = q
          PROVE  /\ ops[q].pair \in (shop'.voided + 1) .. shop'.latest
                 /\ group.version < ops[q].pair /\ shop'.presented[ops[q].pair] = 0
      <4>1. /\ ops[q].pair \in (shop.voided + 1) .. shop.latest /\ ops[q].pair \in Pairs
            /\ group.version < ops[q].pair /\ shop.presented[ops[q].pair] = 0
        BY <1>t, <3>1, OperationTyped DEF ReservedKept, Reserved
      <4>2. ops[o].presents # 0 => ops[o].presents <= shop.voided
        BY <2>1, <2>3, <3>1 DEF PresentedFresh, Presents
      <4>3. ops[q].pair # ops[o].presents
        BY <1>t, <2>2, <4>1, <4>2
      <4>4. shop'.latest \in 0 .. Last
        BY TypedNext
      <4>5. QED
        BY <1>t, <2>2, <4>1, <4>3, <4>4
    <3>2. ops'[q] = ops[q]
      BY <2>1, <2>3
    <3>3. QED
      BY <2>1, <3>1, <3>2 DEF ReservedKept, Reserved
  <2>4. Reserved(o)'
    <3>1. CASE ops'[o].at = "failed"
      BY <3>1 DEF Reserved, Unused
    <3>2. CASE /\ IssuedFor(o)
               /\ ops'[o].at = "answered" /\ ops'[o].pair = shop'.latest
               /\ ops'[o].presents = ops[o].presents /\ ops'[o].onRevoked = ops[o].onRevoked
      <4>1. shop'.latest = shop.latest + 1 /\ shop.latest + 1 \in Pairs
        BY <3>2 DEF IssuedFor
      <4>2. shop'.presented[shop.latest + 1] = shop.presented[shop.latest + 1]
        BY <1>t, <2>2, <4>1
      <4>3. shop.presented[shop.latest + 1] = 0
        BY <1>t, <4>1 DEF PresentedFresh
      <4>4. /\ ops'[o].pair \in (shop'.voided + 1) .. shop'.latest
            /\ group'.version < ops'[o].pair /\ shop'.presented[ops'[o].pair] = 0
        BY <1>t, <2>1, <2>2, <3>2, <4>1, <4>2, <4>3
      <4>5. QED
        BY <2>1, <3>2, <4>4 DEF ReservedKept, Reserved, Unused
    <3>3. QED
      BY <1>10, <3>1, <3>2, CallEnds
  <2>5. ASSUME NEW q \in Operations PROVE Reserved(q)'
    BY <2>3, <2>4
  <2>6. QED
    BY <2>1, <2>5, ZenonT(90) DEF ReservedKept
<1>11. ASSUME Restart PROVE ReservedKept'
  <2>1. /\ group' = group
        /\ \A o \in Operations : ops'[o].at \notin {"provider", "answered", "failed"}
        /\ \A o \in Operations : ops'[o] = Unused => ops[o] = Unused
    BY <1>11, RestartEnds
  <2>2. QED
    BY <2>1 DEF ReservedKept, Reserved
<1>12. ASSUME UNCHANGED <<group, ops, shop>> PROVE ReservedKept'
  BY <1>1, <1>12 DEF FlagsKept
<1>13. \/ UNCHANGED <<group, ops, shop>>
       \/ Lapse \/ Expire \/ Uninstall \/ EmitRedact \/ Restart
       \/ \E o \in Operations : ProviderCall(o) \/ Finish(o) \/ Fail(o)
       \/ \E o \in Operations, m \in Members : BeginAuthorization(o, m) \/ BeginRefresh(o, m)
       \/ \E m \in Members : Commit(m) \/ Disconnect(m)
  BY StepCases, ZenonT(90) DEF Save, Receive, Recover, HostCrash, Send, ExpireMail, memory, vars
<1>14. QED
  BY <1>3, <1>4, <1>5, <1>6, <1>7, <1>8, <1>9, <1>10, <1>11, <1>12, <1>13

\* Every pair is presented once at most, by whoever found it current; a refresh that
\* lost the reservation presents one the uninstall has voided.
LEMMA PresentedStep ==
    ASSUME RotationAssumption, TypeOK, VersionsAgree, ReservedKept, PresentedFresh, SettledUnspent,
           [Next]_vars
    PROVE  PresentedFresh'
<1>t. /\ Last \in Nat /\ shop.latest \in 0 .. Last /\ shop.voided \in 0 .. Last
      /\ shop.voided <= shop.latest /\ shop'.latest \in 0 .. Last
      /\ \A o \in Operations : ops[o] \in OperationRecords
      /\ \A o \in Operations : Presents(o) => ops[o].presents \in 0 .. Last
      /\ shop.presented \in [Pairs -> Nat]
  BY Typed, TypedNext, OperationTyped DEF VersionsAgree, Presents
<1>1. ASSUME \A o \in Operations : Presents(o)' => Presents(o) /\ ops'[o].presents = ops[o].presents,
             \A o \in Operations : Presents(o) /\ group'.pending # o =>
                                      group.pending # o \/ ops[o].presents <= shop'.voided,
             shop'.latest = shop.latest, shop'.presented = shop.presented,
             shop.voided <= shop'.voided, shop'.voided \in 0 .. Last
      PROVE  PresentedFresh'
  <2>1. \A p \in Pairs : shop'.presented[p] <= 1 /\ (p > shop'.latest => shop'.presented[p] = 0)
    BY <1>1 DEF PresentedFresh
  <2>2. ASSUME NEW o \in Operations, Presents(o)'
        PROVE  /\ ops'[o].presents <= shop'.latest /\ shop'.presented[ops'[o].presents] = 0
               /\ group'.pending # o => ops'[o].presents <= shop'.voided
    BY <1>1, <1>t, <2>2 DEF PresentedFresh
  <2>3. ASSUME NEW o \in Operations, NEW q \in Operations, Presents(o)', Presents(q)',
               ops'[o].presents = ops'[q].presents
        PROVE  o = q
    BY <1>1, <2>3 DEF PresentedFresh
  <2>4. QED
    BY <2>1, <2>2, <2>3 DEF PresentedFresh
<1>2. ASSUME ops' = ops, shop'.latest = shop.latest, shop'.presented = shop.presented,
             shop.voided <= shop'.voided, shop'.voided \in 0 .. Last,
             \A o \in Operations : Presents(o) /\ group.pending = o =>
                 group'.pending = o \/ ops[o].presents <= shop'.voided
      PROVE  PresentedFresh'
  <2>1. \A o \in Operations : Presents(o)' => Presents(o) /\ ops'[o].presents = ops[o].presents
    BY <1>2 DEF Presents
  <2>2. QED
    BY <1>1, <1>2, <2>1
<1>3. ASSUME Lapse PROVE PresentedFresh'
  BY <1>2, <1>3, <1>t, LapseGroup DEF Lapse, memory
<1>4. ASSUME Expire PROVE PresentedFresh'
  <2>1. group.lapsed /\ ops' = ops /\ shop' = shop
    BY <1>4 DEF Expire, memory
  <2>2. \A o \in Operations : Presents(o) => group.pending # o
    BY <2>1 DEF Presents, ReservedKept, Reserved
  <2>3. QED
    BY <1>2, <1>t, <2>1, <2>2
<1>5. ASSUME Uninstall PROVE PresentedFresh'
  <2>1. /\ ops' = ops /\ shop'.latest = shop.latest /\ shop'.presented = shop.presented
        /\ shop'.voided = shop.latest
    BY <1>5 DEF Uninstall, memory, TypeOK
  <2>2. \A o \in Operations : Presents(o) => ops[o].presents <= shop'.voided
    BY <2>1 DEF PresentedFresh
  <2>3. QED
    BY <1>2, <1>t, <2>1, <2>2
<1>6. ASSUME EmitRedact PROVE PresentedFresh'
  <2>1. group.revoked /\ ops' = ops /\ shop' = shop
    BY <1>6 DEF EmitRedact, memory
  <2>2. \A o \in Operations : Presents(o) => group.pending # o
    BY <2>1 DEF Presents, ReservedKept, Reserved
  <2>3. QED
    BY <1>2, <1>t, <2>1, <2>2
<1>7. ASSUME NEW m \in Members, Commit(m) PROVE PresentedFresh'
  <2>1. group.pending \notin Operations /\ ops' = ops /\ shop' = shop
    BY <1>7, Names DEF Commit, memory
  <2>2. QED
    BY <1>2, <1>t, <2>1
<1>8. ASSUME NEW m \in Members, Disconnect(m) PROVE PresentedFresh'
  <2>1. shop' = [shop EXCEPT !.consented = @ \ {m}] /\ ops' = ops /\ group'.pending = group.pending
    BY <1>8, DisconnectGroup DEF Disconnect, memory
  <2>2. shop'.latest = shop.latest /\ shop'.voided = shop.voided /\ shop'.presented = shop.presented
    BY <2>1 DEF TypeOK
  <2>3. QED
    BY <1>2, <1>t, <2>1, <2>2
<1>9. ASSUME NEW o \in Operations, Finish(o) \/ Fail(o) PROVE PresentedFresh'
  <2>1. /\ ops'[o] = Done /\ ops[o].at # "provider"
        /\ \A q \in Operations : q # o => ops'[q] = ops[q]
    BY <1>9, OperationEnds DEF Finish, Fail
  <2>2. \A q \in Operations : Presents(q)' => q # o /\ Presents(q) /\ ops'[q].presents = ops[q].presents
    BY <2>1 DEF Presents, Done
  <2>3. /\ shop'.latest = shop.latest /\ shop'.voided = shop.voided
        /\ shop'.presented = shop.presented
    BY <1>9, FinishPublishes DEF Fail
  <2>4. group'.pending = group.pending \/ group.pending = o
    BY <1>9, FinishPublishes DEF Fail
  <2>5. ~Presents(o)
    BY <2>1 DEF Presents
  <2>6. QED
    BY <1>1, <1>t, <2>2, <2>3, <2>4, <2>5
<1>10. ASSUME NEW o \in Operations, NEW m \in Members, BeginAuthorization(o, m) PROVE PresentedFresh'
  <2>1. /\ ops'[o].presents = 0 /\ \A q \in Operations : q # o => ops'[q] = ops[q]
        /\ shop' = shop
    BY <1>10, BeginSets DEF BeginAuthorization
  <2>2. \A q \in Operations : Presents(q)' => Presents(q) /\ ops'[q].presents = ops[q].presents
    BY <2>1 DEF Presents
  <2>3. \A q \in Operations : Presents(q) => group.pending # q
    BY <1>10, Names DEF BeginAuthorization, Free, Presents, ReservedKept, Reserved
  <2>4. QED
    BY <1>1, <1>t, <2>1, <2>2, <2>3
<1>11. ASSUME NEW o \in Operations, NEW m \in Members, BeginRefresh(o, m), ~BeginAuthorization(o, m)
       PROVE  PresentedFresh'
  <2>1. /\ ops'[o].presents = group.pair /\ \A q \in Operations : q # o => ops'[q] = ops[q]
        /\ shop' = shop /\ group.pending = Nobody /\ ops[o] = Unused
        /\ ~group.revoked /\ ~group.reconnect /\ group.version # 0 /\ group'.pending = o
    BY <1>11, BeginSets, RefreshGroup DEF BeginRefresh
  <2>2. group.pair \in (shop.voided + 1) .. shop.latest /\ shop.presented[group.pair] = 0
    BY <2>1 DEF SettledUnspent, Settled
  <2>3. \A q \in Operations : Presents(q) => ops[q].presents <= shop.voided
    BY <2>1, Names DEF PresentedFresh
  <2>4. \A q \in Operations : Presents(q)' /\ q # o => Presents(q) /\ ops'[q].presents = ops[q].presents
    BY <2>1 DEF Presents
  <2>5. \A p \in Pairs : shop'.presented[p] <= 1 /\ (p > shop'.latest => shop'.presented[p] = 0)
    BY <2>1 DEF PresentedFresh
  <2>6. ASSUME NEW q \in Operations, Presents(q)'
        PROVE  /\ ops'[q].presents <= shop'.latest /\ shop'.presented[ops'[q].presents] = 0
               /\ group'.pending # q => ops'[q].presents <= shop'.voided
    <3>1. CASE q = o
      BY <1>t, <2>1, <2>2, <3>1
    <3>2. CASE q # o
      BY <2>1, <2>3, <2>4, <2>6, <3>2 DEF PresentedFresh
    <3>3. QED
      BY <3>1, <3>2
  <2>7. ASSUME NEW q \in Operations, NEW r \in Operations, Presents(q)', Presents(r)',
               ops'[q].presents = ops'[r].presents
        PROVE  q = r
    <3>1. CASE q # o /\ r # o
      BY <2>4, <2>7, <3>1 DEF PresentedFresh
    <3>2. ASSUME NEW x \in Operations, Presents(x)', x # o PROVE ops'[x].presents # group.pair
      <4>1. ops'[x].presents <= shop.voided /\ ops'[x].presents \in 0 .. Last
        BY <1>t, <2>3, <2>4, <3>2
      <4>2. QED
        BY <1>t, <2>2, <4>1
    <3>3. QED
      BY <2>1, <2>7, <3>1, <3>2
  <2>8. QED
    BY <2>5, <2>6, <2>7 DEF PresentedFresh
<1>12. ASSUME NEW o \in Operations, ops[o].at = "provider", ShopCalled(o),
              shop'.latest = shop.latest \/ IssuedFor(o), group' = group,
              \A q \in Operations : Presents(q)' => /\ q # o /\ Presents(q)
                                                    /\ ops'[q].presents = ops[q].presents
       PROVE  PresentedFresh'
  <2>1. /\ shop.latest <= shop'.latest /\ shop'.voided = shop.voided
        /\ ops[o].presents \in 0 .. shop.latest
        /\ \A p \in Pairs :
              IF p = ops[o].presents
                THEN shop.presented[p] = 0 /\ shop'.presented[p] = 1
                ELSE shop'.presented[p] = shop.presented[p]
    BY <1>12, CallFacts
  <2>2. ASSUME NEW p \in Pairs
        PROVE  shop'.presented[p] <= 1 /\ (p > shop'.latest => shop'.presented[p] = 0)
    <3>1. p \in 1 .. Last /\ shop.presented[p] <= 1 /\ (p > shop.latest => shop.presented[p] = 0)
      BY DEF PresentedFresh, Pairs
    <3>2. QED
      BY <1>t, <2>1, <3>1
  <2>3. ASSUME NEW q \in Operations, Presents(q)'
        PROVE  /\ ops'[q].presents <= shop'.latest /\ shop'.presented[ops'[q].presents] = 0
               /\ group'.pending # q => ops'[q].presents <= shop'.voided
    <3>1. /\ q # o /\ Presents(q) /\ ops'[q].presents = ops[q].presents
          /\ ops[q].presents \in 0 .. Last /\ ops[q].presents # 0
      BY <1>12, <1>t, <2>3 DEF Presents
    <3>2. ops[q].presents # ops[o].presents
      BY <1>12, <3>1 DEF PresentedFresh, Presents
    <3>3. /\ ops[q].presents <= shop.latest /\ shop.presented[ops[q].presents] = 0
          /\ group.pending # q => ops[q].presents <= shop.voided
      BY <3>1 DEF PresentedFresh
    <3>4. ops[q].presents \in Pairs
      BY <1>t, <3>1 DEF Pairs
    <3>5. QED
      BY <1>12, <1>t, <2>1, <3>1, <3>2, <3>3, <3>4
  <2>4. ASSUME NEW q \in Operations, NEW r \in Operations, Presents(q)', Presents(r)',
               ops'[q].presents = ops'[r].presents
        PROVE  q = r
    BY <1>12, <2>4 DEF PresentedFresh
  <2>5. QED
    BY <2>2, <2>3, <2>4 DEF PresentedFresh
<1>13. ASSUME NEW o \in Operations, ProviderCall(o) PROVE PresentedFresh'
  <2>1. /\ group' = group /\ ops[o].at = "provider" /\ ops'[o].at \in {"failed", "answered"}
        /\ \A q \in Operations : q # o => ops'[q] = ops[q]
        /\ ShopCalled(o) /\ (shop'.latest = shop.latest \/ IssuedFor(o))
    BY <1>13, CallEnds DEF ProviderCall
  <2>2. \A q \in Operations : Presents(q)' => /\ q # o /\ Presents(q)
                                              /\ ops'[q].presents = ops[q].presents
    BY <2>1 DEF Presents
  <2>3. QED
    BY <1>12, <2>1, <2>2
<1>14. ASSUME Restart PROVE PresentedFresh'
  <2>1. \A q \in Operations : ~Presents(q)'
    BY <1>14, RestartEnds DEF Presents
  <2>2. CASE shop' = shop
    BY <1>1, <1>14, <1>t, <2>1, <2>2, RestartEnds DEF PresentedFresh
  <2>3. ASSUME NEW o \in Operations, ops[o].at = "provider", ShopCalled(o), IssuedFor(o)
        PROVE  PresentedFresh'
    BY <1>12, <1>14, <2>1, <2>3, RestartEnds
  <2>4. QED
    BY <1>14, <2>2, <2>3, RestartEnds
<1>15. ASSUME UNCHANGED <<group, ops, shop>> PROVE PresentedFresh'
  BY <1>2, <1>15, <1>t
<1>16. \/ UNCHANGED <<group, ops, shop>>
       \/ Lapse \/ Expire \/ Uninstall \/ EmitRedact \/ Restart
       \/ \E o \in Operations : ProviderCall(o) \/ Finish(o) \/ Fail(o)
       \/ \E o \in Operations, m \in Members : BeginAuthorization(o, m) \/ BeginRefresh(o, m)
       \/ \E m \in Members : Commit(m) \/ Disconnect(m)
  BY StepCases DEF Save, Receive, Recover, HostCrash, Send, ExpireMail, memory, vars
<1>17. QED
  BY <1>3, <1>4, <1>5, <1>6, <1>7, <1>8, <1>9, <1>10, <1>11, <1>13, <1>14, <1>15, <1>16

\* A group is settled because it was, or because an operation has just published.
LEMMA SettledFrom ==
    ASSUME RotationAssumption, TypeOK, ReservedKept, [Next]_vars, Settled'
    PROVE  \/ Settled /\ PairKept /\ ~Uninstall
           \/ \E o \in Operations : Finish(o) /\ ~UNCHANGED <<group, hosts, shop>>
<1> DEFINE Goal == \/ Settled /\ PairKept /\ ~Uninstall
                   \/ \E o \in Operations : Finish(o) /\ ~UNCHANGED <<group, hosts, shop>>
<1>t. /\ group'.pending \in Members \/ (group'.pending = Nobody /\ ~group'.reconnect)
      /\ ~group'.revoked /\ group'.version # 0
  BY DEF Settled
<1>1. ASSUME Uninstall \/ EmitRedact PROVE FALSE
  BY <1>t, <1>1, RevokedGroup
<1>2. ASSUME group'.pending = group.pending, group'.reconnect = group.reconnect,
             group'.revoked = group.revoked, PairKept
      PROVE  Goal
  BY <1>t, <1>1, <1>2 DEF Settled, PairKept
<1>3. ASSUME UNCHANGED group PROVE Goal
  BY <1>2, <1>3 DEF PairKept
<1>4. ASSUME Lapse PROVE Goal
  BY <1>2, <1>4, LapseGroup DEF FlagsKept
<1>5. ASSUME Expire PROVE Goal
  <2>1. /\ group'.pending \in Members /\ group'.pending = group.pending /\ PairKept /\ FlagsKept
    BY <1>t, <1>5, ExpireGroup, Names
  <2>2. QED
    BY <1>t, <1>1, <2>1 DEF Settled, PairKept, FlagsKept
<1>6. ASSUME NEW o \in Operations, NEW m \in Members, BeginAuthorization(o, m) \/ BeginRefresh(o, m)
      PROVE  Goal
  BY <1>t, <1>6, AuthorizationGroup, RefreshGroup, Names
<1>7. ASSUME NEW o \in Operations, Finish(o) PROVE Goal
  BY <1>3, <1>7
<1>8. ASSUME NEW o \in Operations, Fail(o) PROVE Goal
  <2>1. CASE group.pending = o
    <3>1. group'.pending = Nobody /\ group'.reconnect
      BY <1>8, <2>1, FailGroup
    <3>2. Nobody \notin Members
      BY Names
    <3>3. QED
      BY <1>t, <3>1, <3>2
  <2>2. CASE group.pending # o
    BY <1>3, <1>8, <2>2 DEF Fail
  <2>3. QED
    BY <2>1, <2>2
<1>9. ASSUME NEW m \in Members, Commit(m) PROVE Goal
  <2>1. /\ PairKept /\ FlagsKept /\ group'.pending = Nobody
        /\ group.pending = m \/ (group.pending = Nobody /\ group'.reconnect = group.reconnect)
    BY <1>9, CommitGroup DEF Commit
  <2>2. ~group'.reconnect /\ Nobody \notin Members
    BY <1>t, <2>1, Names
  <2>3. QED
    BY <1>t, <1>1, <2>1, <2>2 DEF Settled, PairKept, FlagsKept
<1>10. ASSUME NEW m \in Members, Disconnect(m) PROVE Goal
  BY <1>2, <1>10, DisconnectGroup DEF FlagsKept
<1>11. \/ UNCHANGED group
       \/ Lapse \/ Expire \/ Uninstall \/ EmitRedact
       \/ \E o \in Operations : Finish(o) \/ Fail(o)
       \/ \E o \in Operations, m \in Members : BeginAuthorization(o, m) \/ BeginRefresh(o, m)
       \/ \E m \in Members : Commit(m) \/ Disconnect(m)
  BY StepCases DEF ProviderCall, Restart, Save, Receive, Recover, HostCrash, Send, ExpireMail, vars
<1> HIDE DEF Goal
<1>12. Goal
  BY <1>1, <1>3, <1>4, <1>5, <1>6, <1>7, <1>8, <1>9, <1>10, <1>11
<1>13. QED
  BY <1>12 DEF Goal

\* A settled group's pair stays unspent: whoever still calls the provider presents
\* an older one.
LEMMA SettledStep ==
    ASSUME RotationAssumption, TypeOK, VersionsAgree, ReservedKept, PresentedFresh, SettledUnspent,
           [Next]_vars
    PROVE  SettledUnspent'
<1>t. /\ Last \in Nat /\ shop.latest \in 0 .. Last /\ shop.voided \in 0 .. Last
      /\ shop'.latest \in 0 .. Last /\ \A o \in Operations : ops[o] \in OperationRecords
  BY Typed, TypedNext
<1> SUFFICES ASSUME Settled'
             PROVE  /\ group'.pair \in (shop'.voided + 1) .. shop'.latest
                    /\ shop'.presented[group'.pair] = 0
  BY DEF SettledUnspent
<1>1. ASSUME NEW o \in Operations, Finish(o), ~UNCHANGED <<group, hosts, shop>>
      PROVE  /\ group'.pair \in (shop'.voided + 1) .. shop'.latest
             /\ shop'.presented[group'.pair] = 0
  <2>1. /\ ops[o].at = "answered" /\ group.pending = o /\ group'.pair = ops[o].pair
        /\ shop'.latest = shop.latest /\ shop'.voided = shop.voided
        /\ shop'.presented = shop.presented
    BY <1>1, FinishPublishes
  <2>2. QED
    BY <2>1 DEF ReservedKept, Reserved
<1>2. ASSUME Settled, PairKept, ~Uninstall
      PROVE  /\ group'.pair \in (shop'.voided + 1) .. shop'.latest
             /\ shop'.presented[group'.pair] = 0
  <2>1. /\ group'.pair = group.pair /\ group.pair \in (shop.voided + 1) .. shop.latest
        /\ shop.presented[group.pair] = 0 /\ group.pair \in Pairs
    <3>1. group.pair \in (shop.voided + 1) .. shop.latest /\ shop.presented[group.pair] = 0
      BY <1>2 DEF SettledUnspent
    <3>2. QED
      BY <1>2, <1>t, <3>1 DEF PairKept, Pairs
  <2>2. ASSUME NEW o \in Operations, ops[o].at = "provider", ShopCalled(o),
               shop'.latest = shop.latest \/ IssuedFor(o)
        PROVE  /\ group'.pair \in (shop'.voided + 1) .. shop'.latest
               /\ shop'.presented[group'.pair] = 0
    <3>1. group.pending # o
      BY <1>2, Names DEF Settled
    <3>2. ops[o].presents # 0 => ops[o].presents <= shop.voided
      BY <2>2, <3>1 DEF PresentedFresh, Presents
    <3>3. /\ shop.latest <= shop'.latest /\ shop'.voided = shop.voided
          /\ ops[o].presents \in 0 .. shop.latest
          /\ \A p \in Pairs : p # ops[o].presents => shop'.presented[p] = shop.presented[p]
      BY <2>2, CallFacts
    <3>4. group.pair # ops[o].presents
      BY <1>t, <2>1, <3>2, <3>3
    <3>5. QED
      BY <1>t, <2>1, <3>3, <3>4
  <2>3. QED
    BY <1>2, <2>1, <2>2, ShopSteps
<1>3. QED
  BY <1>1, <1>2, SettledFrom

\* Without redacts, only the operation with the reservation is still given a pair.
LEMMA LatestStep ==
    ASSUME RotationAssumption, Redacts = FALSE, IInv, LatestKept, [Next]_vars
    PROVE  LatestKept'
<1>i. TypeOK /\ VersionsAgree /\ ReservedKept /\ PresentedFresh /\ SettledUnspent
  BY DEF IInv
<1>t. Last \in Nat /\ shop.latest \in 0 .. Last /\ shop.voided \in 0 .. Last
  BY <1>i, Typed
<1>1. ASSUME NEW o \in Operations, ops[o].at = "provider", IssuedFor(o) PROVE group.pending = o
  <2>1. SUFFICES ASSUME group.pending # o PROVE FALSE
    OBVIOUS
  <2>2. Presents(o)
    BY <1>1, <2>1 DEF LatestKept, Presents
  <2>3. ops[o].presents <= shop.voided /\ ops[o].presents # 0
    BY <1>i, <2>1, <2>2 DEF PresentedFresh, Presents
  <2>4. ops[o].presents = shop.latest /\ shop.latest > shop.voided
    BY <1>1, <2>3 DEF IssuedFor, Issues
  <2>5. QED
    BY <1>t, <2>3, <2>4
<1>2. \/ shop'.latest = shop.latest
      \/ \E o \in Operations : /\ ops[o].at = "provider" /\ IssuedFor(o) /\ group.pending = o
                               /\ ProviderCall(o) \/ Restart
  BY <1>1, <1>i, ShopSteps
<1>3. ASSUME Settled' PROVE group'.pair = shop'.latest
  <2>1. ASSUME NEW o \in Operations, Finish(o), ~UNCHANGED <<group, hosts, shop>>
        PROVE  group'.pair = shop'.latest
    BY <1>i, <2>1, FinishPublishes, ZenonT(90) DEF LatestKept
  <2>2. ASSUME Settled, PairKept PROVE group'.pair = shop'.latest
    <3>1. \A o \in Operations : group.pending # o
      BY <2>2, Names DEF Settled
    <3>2. shop'.latest = shop.latest
      BY <1>2, <3>1
    <3>3. QED
      BY <2>2, <3>2 DEF LatestKept, PairKept
  <2>3. QED
    BY <1>3, <1>i, <2>1, <2>2, SettledFrom
<1>4. ASSUME NEW o \in Operations, ops'[o].at = "answered", group'.pending = o
      PROVE  ops'[o].pair = shop'.latest
  <2>1. ASSUME ProviderCall(o) PROVE ops'[o].pair = shop'.latest
    BY <1>4, <1>i, <2>1, CallEnds
  <2>2. ASSUME ops'[o] = ops[o], group.pending = o, ~ProviderCall(o)
        PROVE  ops'[o].pair = shop'.latest
    <3>1. ops[o].at = "answered" /\ ops[o].pair = shop.latest
      BY <1>4, <2>2 DEF LatestKept
    <3>2. shop'.latest = shop.latest
      BY <1>2, <2>2, <3>1, ZenonT(90)
    <3>3. QED
      BY <2>2, <3>1, <3>2
  <2>3. ProviderCall(o) \/ ops'[o] = ops[o]
    <3>1. ASSUME NEW q \in Operations, Finish(q) \/ Fail(q) PROVE ops'[o] = ops[o]
      BY <1>4, <1>i, <3>1, OperationEnds DEF Done
    <3>2. ASSUME NEW q \in Operations, NEW m \in Members,
                 BeginAuthorization(q, m) \/ BeginRefresh(q, m)
          PROVE  ops'[o] = ops[o]
      BY <1>4, <1>i, <3>2, BeginSets
    <3>3. ASSUME NEW q \in Operations, ProviderCall(q), q # o PROVE ops'[o] = ops[o]
      BY <1>i, <3>3, CallEnds
    <3>4. ~Restart
      BY <1>4, <1>i, RestartEnds
    <3>5. QED
      BY <3>1, <3>2, <3>3, <3>4, StepCases
         DEF Lapse, Expire, Uninstall, EmitRedact, Save, Commit, Disconnect, Receive, Recover,
             HostCrash, Send, ExpireMail, memory, vars
  <2>4. ops'[o] = ops[o] => group.pending = o
    <3>1. ASSUME NEW q \in Operations, NEW m \in Members,
                 BeginAuthorization(q, m) \/ BeginRefresh(q, m)
          PROVE  ops'[o] # ops[o]
      <4>1. group'.pending = q /\ ops'[q].at = "provider"
        BY <1>i, <3>1, AuthorizationGroup, RefreshGroup, BeginSets, ZenonT(90)
      <4>2. QED
        BY <1>4, <4>1
    <3>2. group'.pending = group.pending \/ group'.pending \notin Operations
          \/ \E q \in Operations, m \in Members : BeginAuthorization(q, m) \/ BeginRefresh(q, m)
      <4>1. ASSUME NEW q \in Operations, Finish(q) \/ Fail(q)
            PROVE  group'.pending = group.pending \/ group'.pending \notin Operations
        BY <1>i, <4>1, FinishPublishes, FailGroup, Names DEF Fail
      <4>2. ASSUME NEW m \in Members, Commit(m) \/ Disconnect(m)
            PROVE  group'.pending = group.pending \/ group'.pending \notin Operations
        BY <1>i, <4>2, CommitGroup, DisconnectGroup, Names
      <4>3. ASSUME Lapse \/ Expire \/ Uninstall \/ EmitRedact
            PROVE  group'.pending = group.pending \/ group'.pending \notin Operations
        BY <1>i, <4>3, LapseGroup, ExpireGroup, RevokedGroup, Names
      <4>4. QED
        BY <4>1, <4>2, <4>3, StepCases
           DEF ProviderCall, Restart, Save, Receive, Recover, HostCrash, Send, ExpireMail, vars
    <3>3. QED
      BY <1>4, <3>1, <3>2
  <2>5. QED
    BY <2>1, <2>2, <2>3, <2>4
<1>5. ASSUME NEW o \in Operations, ops'[o].at = "provider", group'.pending # o
      PROVE  ops'[o].presents # 0
  <2>1. ASSUME NEW q \in Operations, NEW m \in Members,
               BeginAuthorization(q, m) \/ BeginRefresh(q, m)
        PROVE  q # o
    BY <1>5, <1>i, <2>1, AuthorizationGroup, RefreshGroup, ZenonT(90)
  <2>2. ops'[o] = ops[o]
    <3>1. ASSUME NEW q \in Operations, Finish(q) \/ Fail(q) PROVE ops'[o] = ops[o]
      BY <1>5, <1>i, <3>1, OperationEnds DEF Done
    <3>2. ASSUME NEW q \in Operations, NEW m \in Members,
                 BeginAuthorization(q, m) \/ BeginRefresh(q, m)
          PROVE  ops'[o] = ops[o]
      BY <1>i, <2>1, <3>2, BeginSets
    <3>3. ASSUME NEW q \in Operations, ProviderCall(q) PROVE ops'[o] = ops[o]
      BY <1>5, <1>i, <3>3, CallEnds
    <3>4. ~Restart
      BY <1>5, <1>i, RestartEnds
    <3>5. QED
      BY <3>1, <3>2, <3>3, <3>4, StepCases, ZenonT(90)
         DEF Lapse, Expire, Uninstall, EmitRedact, Save, Commit, Disconnect, Receive, Recover,
             HostCrash, Send, ExpireMail, memory, vars
  <2>3. CASE group.pending # o
    BY <1>5, <2>2, <2>3, ZenonT(90) DEF LatestKept
  <2>4. CASE group.pending = o
    <3>1. ~group.lapsed /\ (ops[o].presents = 0 => group.uncertain)
      BY <1>5, <1>i, <2>2, <2>4 DEF ReservedKept, Reserved
    <3>2. ~Lapse /\ ~Expire /\ ~EmitRedact
      BY <1>5, <2>2, <2>4, <3>1 DEF Lapse, Expire, EmitRedact
    <3>3. Uninstall => ops'[o].presents # 0
      BY <2>2, <3>1 DEF Uninstall
    <3>4. ASSUME NEW q \in Operations, NEW m \in Members PROVE ~BeginAuthorization(q, m) /\ ~BeginRefresh(q, m)
      BY <2>4, <3>1, Names DEF BeginAuthorization, BeginRefresh, Free
    <3>5. ASSUME NEW q \in Operations, Finish(q) \/ Fail(q) PROVE FALSE
      <4>1. group.pending = q
        BY <1>5, <1>i, <2>4, <3>5, FinishPublishes DEF Fail
      <4>2. ops[o].at = "provider"
        BY <1>5, <2>2
      <4>3. QED
        BY <2>4, <3>5, <4>1, <4>2 DEF Finish, Fail
    <3>6. ASSUME NEW m \in Members, Commit(m) \/ Disconnect(m) PROVE FALSE
      BY <1>5, <1>i, <2>4, <3>6, DisconnectGroup, Names DEF Commit
    <3>7. ~(UNCHANGED group)
      BY <1>5, <2>4
    <3>8. QED
      BY <3>2, <3>3, <3>4, <3>5, <3>6, <3>7, StepCases
         DEF ProviderCall, Restart, Save, Receive, Recover, HostCrash, Send, ExpireMail, vars
  <2>5. QED
    BY <2>3, <2>4
<1>6. QED
  BY <1>3, <1>4, <1>5 DEF LatestKept

-----------------------------------------------------------------------------
(* Theorems *)

LEMMA InitInv == ASSUME RotationAssumption, Init PROVE IInv /\ LatestKept
<1>t. Last \in Nat /\ 0 \in 0 .. Last /\ Out \in 0 .. Out /\ None \in Token
  BY LastIsNat, NoneIsToken DEF Out
<1>1. TypeOK
  <2>1. group \in Group
    BY <1>t DEF Init, Group
  <2>2. ops \in [Operations -> OperationRecords]
    BY DEF Init, OperationRecords
  <2>3. /\ mail \in [Members -> [Members -> Token]]
        /\ recoveries \in [Members -> SUBSET [by : Members, version : 0 .. Last]]
        /\ hosts \in [Members -> [received : Token, saved : Token, asked : SUBSET Members]]
    BY <1>t DEF Init
  <2>4. shop \in [latest : 0 .. Last, voided : 0 .. Last, presented : [Pairs -> Nat],
                  consented : SUBSET Members]
    BY <1>t DEF Init
  <2>5. faults \in 0 .. MaxFaults
    BY DEF Init, RotationAssumption
  <2>6. QED
    BY <2>1, <2>2, <2>3, <2>4, <2>5 DEF TypeOK
<1>2. VersionsAgree /\ TokensKnown /\ HoldersCurrent
  BY DEF Init, VersionsAgree, TokensKnown, HoldersCurrent, OfGroup, GroupToken, None, Current
<1>3. ReservedKept /\ SettledUnspent
  BY Names DEF Init, ReservedKept, Reserved, SettledUnspent, Settled, Unused
<1>4. PresentedFresh /\ LatestKept
  BY DEF Init, PresentedFresh, Presents, LatestKept, Settled, Unused
<1>5. QED
  BY <1>1, <1>2, <1>3, <1>4 DEF IInv

LEMMA NextInv == ASSUME RotationAssumption, IInv, [Next]_vars PROVE IInv'
  BY TypeStep, VersionsStep, TokensStep, HoldersStep, ReservedStep, PresentedStep, SettledStep DEF IInv

LEMMA Invariant == RotationAssumption => (Spec => []IInv)
<1> SUFFICES ASSUME RotationAssumption PROVE Spec => []IInv
  OBVIOUS
<1>1. Init => IInv
  BY InitInv
<1>2. IInv /\ [Next]_vars => IInv'
  BY NextInv
<1>3. QED
  BY <1>1, <1>2, PTL DEF Spec

\* Every part of the broker's group, of the hosts and of the shop keeps its type,
\* whatever the handlers, the mail and the faults do.
THEOREM TypeCorrect == RotationAssumption => (Spec => []TypeOK)
<1>1. IInv => TypeOK
  BY DEF IInv
<1>2. QED
  BY <1>1, Invariant, PTL

\* The broker spends a refresh token once (beginRotation, finishRotation,
\* failedRotation): whatever crashes, lapses or is lost, no pair of the shop is
\* presented to the provider twice.
THEOREM PairsPresentedOnce == RotationAssumption => (Spec => []RefreshPresentedOnce)
<1>1. IInv => RefreshPresentedOnce
  BY DEF IInv, PresentedFresh, RefreshPresentedOnce
<1>2. QED
  BY <1>1, Invariant, PTL

\* Whom the broker names current, and asks for the pair when a peer recovers, has
\* stored it (commit, recover).
THEOREM CurrentHoldThePair == RotationAssumption => (Spec => []CurrentMembersHoldThePair)
<1>1. IInv => CurrentMembersHoldThePair
  BY DEF IInv, HoldersCurrent, CurrentMembersHoldThePair
<1>2. QED
  BY <1>1, Invariant, PTL

\* An uninstall wins over the rotation it overtakes (finishRotation): a revoked group
\* comes back only by the publication of an authorization that began after it.
THEOREM RevokedComesBackByConsent == RotationAssumption => (Spec => RevokedUntilConsent)
<1> SUFFICES ASSUME RotationAssumption PROVE Spec => RevokedUntilConsent
  OBVIOUS
<1>1. ASSUME IInv, [Next]_vars PROVE ComesBackByConsent
  <2>i. TypeOK /\ ReservedKept
    BY <1>1 DEF IInv
  <2> SUFFICES ASSUME group.revoked, ~group'.revoked
               PROVE  \E o \in Operations : ops[o].at = "answered" /\ ops'[o] = Done
                                            /\ ops[o].presents = 0 /\ ops[o].onRevoked
    BY DEF ComesBackByConsent
  <2>1. ASSUME Lapse \/ Expire \/ Uninstall \/ EmitRedact PROVE FALSE
    BY <2>i, <2>1, LapseGroup, ExpireGroup, RevokedGroup DEF FlagsKept
  <2>2. ASSUME NEW o \in Operations, Fail(o) PROVE FALSE
    BY <2>i, <2>2, FailGroup DEF Fail, FlagsKept
  <2>3. ASSUME NEW o \in Operations, NEW m \in Members,
               BeginAuthorization(o, m) \/ BeginRefresh(o, m)
        PROVE  FALSE
    BY <2>i, <2>3, AuthorizationGroup, RefreshGroup
  <2>4. ASSUME NEW m \in Members, Commit(m) \/ Disconnect(m) PROVE FALSE
    BY <2>i, <2>4, CommitGroup, DisconnectGroup DEF FlagsKept
  <2>5. \E o \in Operations : Finish(o) /\ ~UNCHANGED <<group, hosts, shop>>
    BY <1>1, <2>1, <2>2, <2>3, <2>4, StepCases
       DEF ProviderCall, Restart, Save, Receive, Recover, HostCrash, Send, ExpireMail, vars
  <2>6. PICK o \in Operations : Finish(o) /\ ~UNCHANGED <<group, hosts, shop>>
    BY <2>5
  <2>7. ops[o].at = "answered" /\ group.pending = o /\ ops'[o] = Done
    BY <2>i, <2>6, FinishPublishes, OperationEnds
  <2>8. ops[o].presents = 0 /\ ops[o].onRevoked
    BY <2>i, <2>7 DEF ReservedKept, Reserved
  <2>9. QED
    BY <2>7, <2>8
<1>2. QED
  BY <1>1, Invariant, PTL DEF Spec, RevokedUntilConsent

\* "Must never make an older peer look current" (expireRotation): unless a redact
\* releases the reservation of an authorization under way, a group that asks nobody
\* to reconnect and waits for no call has the last pair the shop issued.
THEOREM CurrentIsLatest ==
    RotationAssumption /\ Redacts = FALSE => (Spec => []CurrentPairIsLatest)
<1> SUFFICES ASSUME RotationAssumption, Redacts = FALSE PROVE Spec => []CurrentPairIsLatest
  OBVIOUS
<1>1. Init => IInv /\ LatestKept
  BY InitInv
<1>2. IInv /\ LatestKept /\ [Next]_vars => (IInv /\ LatestKept)'
  BY NextInv, LatestStep
<1>3. IInv /\ LatestKept => CurrentPairIsLatest
  <2> SUFFICES ASSUME IInv, LatestKept, group.pending \notin Operations, ~group.reconnect,
                      ~group.revoked, group.version # 0
               PROVE  group.pair = shop.latest
    BY DEF CurrentPairIsLatest
  <2>1. group.pending \in Members \/ group.pending = Nobody
    BY Typed DEF IInv
  <2>2. QED
    BY <2>1 DEF LatestKept, Settled
<1>4. QED
  BY <1>1, <1>2, <1>3, PTL DEF Spec
=============================================================================

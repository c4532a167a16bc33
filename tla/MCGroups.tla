------------------------------ MODULE MCGroups ------------------------------
(***************************************************************************)
(* What the OAuth broker keeps for several hosts of one shop: the rotation *)
(* group of a credential, and the privacy events of the shop's app.  They  *)
(* meet only in the group record, which each models as far as it looks at  *)
(* it, so a behaviour exercises one of them: `part`, chosen at the start,  *)
(* says which, and the other is not there.                                 *)
(***************************************************************************)
EXTENDS Integers, Sequences, FiniteSets, TLC

CONSTANTS
    a1, a2,                 \* interchangeable
    b1, b2, b3,             \* operations
    nobody

VARIABLES
    part,
    group, ops, mail, recoveries, hosts, shop, faults,
    now, installs, grant, auth, events, heard, worker

\* Two members, three rotations, an uninstall and two faults.
Rotation == INSTANCE RotationGroups WITH
    Members <- {a1, a2}, Operations <- {b1, b2, b3}, Nobody <- nobody, Redacts <- FALSE,
    MaxFaults <- 2

\* Two uninstalls and their redacts around two authorizations, for one host.
Pairs == INSTANCE PrivacyEvents WITH
    Recipients <- {"host"}, Uninstalls <- {a1, a2}, Redacts <- {"x1", "x2"}, Historic <- {},
    NoEvent <- nobody, Legacy <- FALSE, Delay <- 2, Skew <- 0, MaxTime <- 9,
    shop <- installs, group <- grant

\* Two hosts, the legacy processor and an uninstall known before the upgrade.
History == INSTANCE PrivacyEvents WITH
    Recipients <- {a1, a2}, Uninstalls <- {"late", "known"}, Redacts <- {"redact"},
    Historic <- {"known"}, NoEvent <- nobody, Legacy <- TRUE, Delay <- 2, Skew <- 0,
    MaxTime <- 9, shop <- installs, group <- grant

ASSUME GroupsAssumption ==
    Rotation!RotationAssumption /\ Pairs!PrivacyAssumption /\ History!PrivacyAssumption

rotation == <<group, ops, mail, recoveries, hosts, shop, faults>>
privacy == <<now, installs, grant, auth, events, heard, worker>>
vars == <<part, rotation, privacy>>

\* The value of the variables of a component that is not exercised.
Off == "off"

Init ==
    /\ part \in {"rotation", "pairs", "history"}
    /\ IF part = "rotation" THEN Rotation!Init
       ELSE /\ group = Off /\ ops = Off /\ mail = Off /\ recoveries = Off
            /\ hosts = Off /\ shop = Off /\ faults = Off
    /\ CASE part = "pairs" -> Pairs!Init
         [] part = "history" -> History!Init
         [] OTHER -> /\ now = Off /\ installs = Off /\ grant = Off /\ auth = Off
                     /\ events = Off /\ heard = Off /\ worker = Off

\* Operations are alike, so the first that begins may be called the first.
InOrder == \A o \in {<<b1, b2>>, <<b2, b3>>} : ops[o[2]].at # "unused" => ops[o[1]].at # "unused"

RotationStep == part = "rotation" /\ Rotation!Next /\ InOrder' /\ UNCHANGED <<part, privacy>>

PrivacyStep ==
    /\ \/ part = "pairs" /\ Pairs!Next
       \/ part = "history" /\ History!Next
    /\ UNCHANGED <<part, rotation>>

Next == RotationStep \/ PrivacyStep

Spec == Init /\ [][Next]_vars

Symmetry == Permutations({a1, a2})

-----------------------------------------------------------------------------
\* What the broker keeps for several hosts of one shop: the pair of tokens a group
\* calls current is the last one the shop issued, the broker spends a refresh token
\* once, and a member it names current holds the pair, over two faults (crashes,
\* lost envelopes); no two redacts answer one uninstall, the cutoff of an uninstall
\* spares later consents, and an acknowledgement never removes a payload that is
\* owed to the other reader.
GroupsSafe ==
    /\ part = "rotation" => /\ Rotation!TypeOK /\ Rotation!CurrentPairIsLatest
                            /\ Rotation!RefreshPresentedOnce
                            /\ Rotation!CurrentMembersHoldThePair
    /\ part = "pairs" => /\ Pairs!TypeOK /\ Pairs!UninstallAnsweredOnce
                         /\ Pairs!CutoffSparesLaterConsent
    /\ part = "history" => History!PayloadOutlivesItsReaders /\ History!CutoffSparesLaterConsent

\* What was decided stays: an uninstall wins over the refresh it overtakes, and only
\* a consent given after it brings the group back; an uninstall and its redact stay
\* paired although uninstalls keep arriving late; a redact is handed out only when
\* it is certain whose it is; and a delayed uninstall revokes no later grant.
GroupsFinal ==
    [][/\ part = "rotation" => Rotation!ComesBackByConsent
       /\ part = "pairs" => Pairs!PairStays /\ Pairs!RevokesEndedGrant
       /\ part = "history" => History!PairStays /\ History!ReleasesCertainPair]_vars
=============================================================================

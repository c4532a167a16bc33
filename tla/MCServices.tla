----------------------------- MODULE MCServices -----------------------------
(***************************************************************************)
(* The services of the connectors: central execution, the OAuth broker's   *)
(* consents and tokens, and its store.  Each is modelled with what it asks *)
(* of the others, so a behaviour exercises one of them: `part`, chosen at  *)
(* the start, says which, and the others are not there.  What is           *)
(* instantiated is each component, with what is proved of it where that is *)
(* in a module of its own.                                                 *)
(***************************************************************************)
EXTENDS Integers, Sequences, FiniteSets, TLC

CONSTANTS
    a1, a2,         \* interchangeable requests
    Updates,        \* calls of the store's update
    Repairs,        \* those NewStore makes
    SyncMayFail,    \* the fsync of the store's directory may fail
    nobody

VARIABLES
    part,
    gate, conns, invs, txs, bindings, offered, reqs, minted, restarts, exchanged,
    executed, told,
    consents, brokerBindings, tabs, brokerReqs, forms, brokerMinted, presented, held,
    phase, memory, path, possible, holder, step, outcome

Owned(connections) == [c \in connections |-> "alice"]
NeedsOf(operations) == [o \in operations |-> IF o = "send" THEN {"send"} ELSE {"read"}]

\* One connection, two requests: invocations, refreshes and disconnects race.
Invokes == INSTANCE CentralExecutionProofs WITH
    Requests <- {a1, a2}, Connections <- {"c1"}, OAuth <- {"c1"}, Owners <- {"alice"},
    OwnerOf <- Owned({"c1"}), IDs <- {"i1"}, Ops <- {"list", "send"}, Writes <- {"send"},
    Needs <- NeedsOf({"list", "send"}), Scopes <- {"read", "send"}, MaxTokens <- 3,
    MaxRestarts <- 1, Free <- nobody

\* Two connections of one account consent, refresh, are revoked and restarted.
Grants == INSTANCE CentralExecutionProofs WITH
    Requests <- {"r"}, Connections <- {"c1", "c2"}, OAuth <- {"c1", "c2"}, Owners <- {"alice"},
    OwnerOf <- Owned({"c1", "c2"}), IDs <- {}, Ops <- {"list"}, Writes <- {},
    Needs <- NeedsOf({"list"}), Scopes <- {"read"}, MaxTokens <- 5,
    MaxRestarts <- 1, Free <- nobody

InstallerOf(ids) == [t \in ids |-> IF t = "t1" THEN "host1" ELSE "host2"]
InstallationOf == [o \in {"atHost1", "atHost2"} |-> IF o = "atHost1" THEN "host1" ELSE "host2"]
AccountOf == [o \in {"atHost1", "atHost2"} |-> "account"]

\* Two installations consent, refresh and revoke concurrently for one account.
Tokens == INSTANCE BrokerProofs WITH
    Transactions <- {"t1", "t2"}, Installer <- InstallerOf({"t1", "t2"}),
    Installations <- {"host1", "host2"}, Tabs <- {"tab"}, Requests <- {a1, a2},
    Owners <- {"atHost1", "atHost2"}, AccountOf <- AccountOf,
    InstallationOf <- InstallationOf, Scopes <- {"read"}, MaxTokens <- 6, MaxForms <- 2,
    txs <- consents, bindings <- brokerBindings, reqs <- brokerReqs,
    minted <- brokerMinted, exchanged <- presented

\* One transaction, four forms in three tabs: what a consent takes.
Forms == INSTANCE BrokerProofs WITH
    Transactions <- {"t1"}, Installer <- InstallerOf({"t1"}),
    Installations <- {"host1", "host2"}, Tabs <- {"tab1", "tab2", "tab3"}, Requests <- {"r"},
    Owners <- {"atHost1", "atHost2"}, AccountOf <- AccountOf,
    InstallationOf <- InstallationOf, Scopes <- {"read"}, MaxTokens <- 2, MaxForms <- 4,
    txs <- consents, bindings <- brokerBindings, reqs <- brokerReqs,
    minted <- brokerMinted, exchanged <- presented

\* Updates of requests and of NewStore.
Store == INSTANCE BrokerStore WITH None <- nobody, told <- outcome

ASSUME ServicesAssumption ==
    /\ Invokes!CentralAssumption /\ Grants!CentralAssumption
    /\ Tokens!BrokerAssumption /\ Forms!BrokerAssumption
    /\ Store!RepairsAssumption /\ Store!SyncAssumption

central == <<gate, conns, invs, txs, bindings, offered, reqs, minted, restarts, exchanged,
             executed, told>>
broker == <<consents, brokerBindings, tabs, brokerReqs, forms, brokerMinted, presented, held>>
store == <<phase, memory, path, possible, holder, step, outcome>>
vars == <<part, central, broker, store>>

\* The value of the variables of a component that is not exercised.
Off == "off"

Parts == {"invokes", "grants", "tokens", "forms", "store"}

Init ==
    /\ part \in Parts
    /\ CASE part = "invokes" -> Invokes!Init
         [] part = "grants" -> Grants!Init
         [] OTHER -> /\ gate = Off /\ conns = Off /\ invs = Off /\ txs = Off
                     /\ bindings = Off /\ offered = Off /\ reqs = Off /\ minted = Off
                     /\ restarts = Off /\ exchanged = Off /\ executed = Off /\ told = Off
    /\ CASE part = "tokens" -> Tokens!Init
         [] part = "forms" -> Forms!Init
         [] OTHER -> /\ consents = Off /\ brokerBindings = Off /\ tabs = Off
                     /\ brokerReqs = Off /\ forms = Off /\ brokerMinted = Off
                     /\ presented = Off /\ held = Off
    /\ IF part = "store" THEN Store!Init
       ELSE /\ phase = Off /\ memory = Off /\ path = Off /\ possible = Off
            /\ holder = Off /\ step = Off /\ outcome = Off

CentralStep ==
    /\ \/ part = "invokes" /\ Invokes!Next
       \/ part = "grants" /\ Grants!Next
    /\ UNCHANGED <<part, broker, store>>

BrokerStep ==
    /\ \/ part = "tokens" /\ Tokens!Next
       \/ part = "forms" /\ Forms!Next
    /\ UNCHANGED <<part, central, store>>

StoreStep ==
    /\ part = "store" /\ Store!Next
    /\ UNCHANGED <<part, central, broker>>

Next == CentralStep \/ BrokerStep \/ StoreStep

Spec == Init /\ [][Next]_vars

Symmetry == Permutations({a1, a2})

-----------------------------------------------------------------------------
\* Central execution, whatever two requests, a restart and the broker do in between:
\* the answers about one invocation never disagree on how it ended, retries after a
\* restart included (invoke, status); what a connected handle holds is bound whole
\* at the broker (callback and refresh, each an Update of two stores); a revoked
\* grant has no token left; and a code goes to the provider once.
CentralSafe ==
    /\ part = "invokes" => Invokes!TypeOK /\ Invokes!AnswersAgree
    /\ part = "grants" => /\ Grants!StoredTokensAreBound /\ Grants!GrantRevokedWhole
                          /\ Grants!CodeExchangedOnce

\* The OAuth broker: a code is exchanged once, however requests race and retry; a
\* revocation wins over a refresh or a consent at the provider (the tombstones); and
\* over crashes and losses of power what is served is in the file, what was
\* acknowledged stays, and nothing is served from a file NewStore has not repaired.
BrokerSafe ==
    /\ part = "tokens" => /\ Tokens!TypeOK /\ Tokens!CodeExchangedOnce
                          /\ Tokens!GrantRevokedWhole
    /\ part = "store" => /\ Store!TypeOK /\ Store!PublishedIsStored
                         /\ Store!AcknowledgedSurvive /\ Store!RepairedBeforeServing

\* Grants bind every later step: central execution calls the provider only under a
\* connected handle and a covering token, although both were checked steps before,
\* and publishes nothing done under a grant revoked since (invoke); at the broker a
\* tombstone stays and a token stays with the installation it was given to first;
\* and a consent is approved by a POST of the form that was disclosed last.
GrantsAreFinal ==
    [][/\ part = "invokes" => Invokes!CallsUnderGrant /\ Invokes!PublishesUnderGrant
       /\ part = "tokens" => Tokens!StaysRevoked /\ Tokens!StaysOwned
       /\ part = "forms" => Forms!AcceptsLastForm /\ Forms!ApprovesByPost]_vars

\* Central execution implements the log of invocations, seen through its records and
\* the provider's effects: "host retries and crash recovery do not re-execute"
\* (packages/connectors/README.md), and a record that is final stays.
Log == INSTANCE InvocationLog WITH
    Invocations <- Invokes!Keys,
    status <- [k \in Invokes!Keys |-> IF part = "invokes" THEN invs[k].status ELSE "none"],
    executed <- [k \in Invokes!Keys |-> IF part = "invokes" THEN executed[k] ELSE 0]
ImplementsInvocationLog == Log!LogSpec

\* The broker's store implements an atomic one: an update is applied whole or not,
\* and what its caller was told agrees with it.
Stored == INSTANCE AtomicStore WITH
    applied <- IF part = "store" THEN path ELSE {},
    outcome <- IF part = "store" THEN outcome ELSE [u \in Updates |-> "new"]
ImplementsAtomicStore == Stored!StoreSpec
=============================================================================

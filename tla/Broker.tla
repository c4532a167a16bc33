------------------------------- MODULE Broker -------------------------------
(***************************************************************************)
(* The broker's consents and tokens as hosts use them over HTTP            *)
(* (packages/connectors/auth/server.go): a transaction is started by an    *)
(* installation, disclosed and approved in a browser, called back by the   *)
(* provider and redeemed once; the tokens are bound, refreshed and         *)
(* revoked.  Handlers run concurrently and are split wherever they release *)
(* the transactions' mutex or the store's, and at each call of the         *)
(* provider.  Shopify's shared grants, which redeem and refresh hand over  *)
(* to, are in RotationGroups.  A definition marked "Faulty" is a version   *)
(* of the one after it with a plausible mistake.                           *)
(***************************************************************************)
EXTENDS TokenBindings

CONSTANTS
    Transactions,       \* transaction identifiers start may draw
    Installer,          \* Installer[t]: the installation that starts t
    Installations,
    Tabs,               \* browser tabs that may show the consent page
    Requests,           \* signed requests under way at a time
    AccountOf,          \* AccountOf[o]: the external account of an owner
    InstallationOf,     \* InstallationOf[o]: the installation of an owner
    MaxForms            \* bound on the disclosure forms rendered

BrokerAssumption ==
    /\ Installer \in [Transactions -> Installations]
    /\ InstallationOf \in [Owners -> Installations]
    /\ DOMAIN AccountOf = Owners
    /\ MaxTokens \in Nat /\ MaxForms \in Nat

VARIABLES
    txs,                \* Server.transactions, in memory
    bindings,           \* State.TokenBindings, in the store
    tabs,               \* the browser's tabs
    reqs,               \* redeem, refresh and revoke requests being handled
    forms,              \* disclosure forms rendered so far, each with its csrf
    minted,             \* tokens the provider has issued
    exchanged,          \* exchanged[t]: how often t's code was presented
    held                \* the pairs of tokens answered to hosts

vars == <<txs, bindings, tabs, reqs, forms, minted, exchanged, held>>

NoForm == 0
Forms == 1 .. MaxForms

\* linked: the provider's link has been shown for it, so a callback may come.
Fresh == [status |-> "none", approved |-> FALSE, csrf |-> NoForm, busy |-> FALSE,
          expired |-> FALSE, linked |-> FALSE]
Transaction == [status : {"none", "pending", "ready", "consumed", "cancelled"},
                approved : BOOLEAN, csrf : Forms \union {NoForm}, busy : BOOLEAN,
                expired : BOOLEAN, linked : BOOLEAN]

\* A tab shows a form, or its POST is between two critical sections.
Closed == [at |-> "closed", tx |-> "none", form |-> NoForm]
Idle == [at |-> "idle"]

RequestRecords ==
    {Idle} \union
    [at : {"exchange", "return"}, tx : Transactions] \union
    [at : {"bind"}, tx : Transactions, token : TokenPairs] \union
    [at : {"refreshing"}, pair : TokenPairs, expected : Binding] \union
    [at : {"rebind"}, pair : TokenPairs, expected : Binding, token : TokenPairs]

Init ==
    /\ txs = [t \in Transactions |-> Fresh]
    /\ bindings = NoBindings
    /\ tabs = [b \in Tabs |-> Closed]
    /\ reqs = [r \in Requests |-> Idle]
    /\ forms = 0
    /\ minted = 0
    /\ exchanged = [t \in Transactions |-> 0]
    /\ held = {}

Open(t) == txs[t].status = "pending" /\ ~txs[t].expired

Update(t, tx) == txs' = [txs EXCEPT ![t] = tx]
Move(r, q) == reqs' = [reqs EXCEPT ![r] = q]
Show(b, tab) == tabs' = [tabs EXCEPT ![b] = tab]

provider == <<minted, exchanged>>

-----------------------------------------------------------------------------
(* Consent *)

Start(t) ==
    /\ txs[t] = Fresh
    /\ Update(t, [Fresh EXCEPT !.status = "pending"])
    /\ UNCHANGED <<bindings, tabs, reqs, forms, provider, held>>

\* GET /authorize: an approved transaction shows the link again; otherwise a
\* form with a csrf of its own takes the place of any earlier one.
Render(b, t) ==
    /\ Open(t) /\ tabs[b] = Closed
    /\ IF txs[t].approved
         THEN UNCHANGED <<txs, tabs, forms>>
         ELSE /\ forms < MaxForms
              /\ forms' = forms + 1
              /\ Update(t, [txs[t] EXCEPT !.csrf = forms + 1])
              /\ Show(b, [at |-> "form", tx |-> t, form |-> forms + 1])
    /\ UNCHANGED <<bindings, reqs, provider, held>>

\* POST /authorize spends the transaction's csrf, matching or not.
Post(b) ==
    LET t == tabs[b].tx
    IN  /\ tabs[b].at = "form"
        /\ Open(t)
        /\ Update(t, [txs[t] EXCEPT !.csrf = NoForm])
        /\ Show(b, IF txs[t].csrf = tabs[b].form THEN [tabs[b] EXCEPT !.at = "accepted"] ELSE Closed)
        /\ UNCHANGED <<bindings, reqs, forms, provider, held>>

\* The end of the POST: the transaction must still be pending.
Approve(b) ==
    LET t == tabs[b].tx
    IN  /\ tabs[b].at = "accepted"
        /\ Show(b, Closed)
        /\ IF Open(t) THEN Update(t, [txs[t] EXCEPT !.approved = TRUE, !.linked = TRUE])
                      ELSE UNCHANGED txs
        /\ UNCHANGED <<bindings, reqs, forms, provider, held>>

CloseTab(b) ==
    /\ tabs[b].at = "form"
    /\ Show(b, Closed)
    /\ UNCHANGED <<txs, bindings, reqs, forms, provider, held>>

\* The provider sends the browser back with a code or an error.
Callback(t) ==
    /\ Open(t) /\ txs[t].approved /\ txs[t].linked
    /\ \E status \in {"ready", "cancelled"} : Update(t, [txs[t] EXCEPT !.status = status])
    /\ UNCHANGED <<bindings, tabs, reqs, forms, provider, held>>

\* Ten minutes are over.  (A busy transaction is only removed later, which no
\* handler can tell from its being expired.)
Expire(t) ==
    /\ txs[t].status # "none" /\ ~txs[t].expired
    /\ Update(t, [txs[t] EXCEPT !.expired = TRUE])
    /\ UNCHANGED <<bindings, tabs, reqs, forms, provider, held>>

-----------------------------------------------------------------------------
(* redeem *)

\* Faulty: marks the transaction only when its tokens are there.
RedeemUnmarked(r, t) ==
    /\ reqs[r] = Idle
    /\ txs[t].status = "ready" /\ ~txs[t].expired
    /\ Move(r, [at |-> "exchange", tx |-> t])
    /\ UNCHANGED <<txs, bindings, tabs, forms, provider, held>>

\* The code is taken out of the transaction before the provider is called.
Redeem(r, t) ==
    /\ reqs[r] = Idle
    /\ txs[t].status = "ready" /\ ~txs[t].busy /\ ~txs[t].expired
    /\ Update(t, [txs[t] EXCEPT !.status = "consumed", !.busy = TRUE])
    /\ Move(r, [at |-> "exchange", tx |-> t])
    /\ UNCHANGED <<bindings, tabs, forms, provider, held>>

\* The provider may answer with an error, with new tokens, or with the access
\* token it gave this account before, to whichever installation.
Exchange(r) ==
    LET t == reqs[r].tx
    IN  /\ reqs[r].at = "exchange"
        /\ exchanged' = [exchanged EXCEPT ![t] = @ + 1]
        /\ \/ /\ Move(r, [at |-> "return", tx |-> t])
              /\ UNCHANGED minted
           \/ \E o \in {p \in Owners : InstallationOf[p] = Installer[t]}, renewable \in BOOLEAN :
                 LET known == {v \in 1 .. minted : IsBound(bindings, v)
                                                   /\ AccountOf[bindings[v].owner] = AccountOf[o]}
                 IN  /\ minted + 2 <= MaxTokens
                     /\ minted' = minted + 2
                     /\ \E access \in known \union {minted + 1} :
                           Move(r, [at |-> "bind", tx |-> t, token |->
                               [access |-> access, owner |-> o, scopes |-> Scopes,
                                refresh |-> IF renewable THEN minted + 2 ELSE NoToken]])
        /\ UNCHANGED <<txs, bindings, tabs, forms, held>>

\* bindToken, in one update of the store; an error of it is an error answer.
Bind(r) ==
    LET t == reqs[r].token
    IN  /\ reqs[r].at = "bind"
        /\ \/ /\ MayBind(bindings, Consented(t), t, TRUE)
              /\ bindings' = Bound(bindings, Consented(t), t)
              /\ held' = held \union {t}
           \/ UNCHANGED <<bindings, held>>
        /\ Move(r, [at |-> "return", tx |-> reqs[r].tx])
        /\ UNCHANGED <<txs, tabs, forms, provider>>

\* The handler's defer.
Return(r) ==
    /\ reqs[r].at = "return"
    /\ Update(reqs[r].tx, [txs[reqs[r].tx] EXCEPT !.busy = FALSE])
    /\ Move(r, Idle)
    /\ UNCHANGED <<bindings, tabs, forms, provider, held>>

-----------------------------------------------------------------------------
(* refresh and revoke *)

\* A host presents a pair it was given; the binding is read once.
PresentRefresh(r, t) ==
    /\ reqs[r] = Idle
    /\ t \in held
    /\ Refreshable(bindings, t)
    /\ Move(r, [at |-> "refreshing", pair |-> t, expected |-> bindings[t.refresh]])
    /\ UNCHANGED <<txs, bindings, tabs, forms, provider, held>>

ProviderRefresh(r) ==
    LET t == reqs[r].pair
    IN  /\ reqs[r].at = "refreshing"
        /\ \/ /\ Move(r, Idle)
              /\ UNCHANGED minted
           \/ /\ minted + 2 <= MaxTokens
              /\ minted' = minted + 2
              /\ \E granted \in SUBSET t.scopes, rotated \in BOOLEAN :
                    Move(r, [at |-> "rebind", pair |-> t, expected |-> reqs[r].expected, token |->
                        [t EXCEPT !.access = minted + 1, !.scopes = granted,
                                  !.refresh = IF rotated THEN minted + 2 ELSE @]])
        /\ UNCHANGED <<txs, bindings, tabs, forms, exchanged, held>>

\* bindRefreshedToken, or its refusal.
Rebind(r) ==
    LET t == reqs[r].token
        previous == reqs[r].pair.refresh
    IN  /\ reqs[r].at = "rebind"
        /\ \/ /\ MayRebind(bindings, previous, reqs[r].expected, t)
              /\ bindings' = Rebound(bindings, previous, t)
              /\ held' = held \union {t}
           \/ UNCHANGED <<bindings, held>>
        /\ Move(r, Idle)
        /\ UNCHANGED <<txs, tabs, forms, provider>>

\* The whole grant is fenced before the provider hears of the revocation; the
\* owner may ask again, tombstone or not.
Revoke(t, v) ==
    /\ t \in held /\ v \in Values(t)
    /\ IsBound(bindings, v) /\ bindings[v].owner = t.owner
    /\ bindings' = Fenced(bindings, v)
    /\ UNCHANGED <<txs, tabs, reqs, forms, provider, held>>

-----------------------------------------------------------------------------
(* The specification *)

\* The process stops: only the store survives.
Restart ==
    /\ txs' = [t \in Transactions |-> IF txs[t] = Fresh THEN Fresh ELSE [txs[t] EXCEPT !.expired = TRUE, !.busy = FALSE]]
    /\ reqs' = [r \in Requests |-> Idle]
    /\ tabs' = [b \in Tabs |-> Closed]
    /\ UNCHANGED <<bindings, forms, provider, held>>

Next ==
    \/ \E t \in Transactions :
          \/ Start(t)
          \/ Callback(t)
          \/ Expire(t)
          \/ \E b \in Tabs : Render(b, t)
          \/ \E r \in Requests : Redeem(r, t)
    \/ \E b \in Tabs : Post(b) \/ Approve(b) \/ CloseTab(b)
    \/ \E r \in Requests :
          \/ Exchange(r) \/ Bind(r) \/ Return(r)
          \/ ProviderRefresh(r) \/ Rebind(r)
          \/ \E t \in held : PresentRefresh(r, t)
    \/ \E t \in held, v \in Tokens : Revoke(t, v)
    \/ Restart

Spec == Init /\ [][Next]_vars

-----------------------------------------------------------------------------
(* Properties *)

TypeOK ==
    /\ txs \in [Transactions -> Transaction]
    /\ bindings \in Bindings
    /\ held \subseteq TokenPairs
    /\ minted \in 0 .. MaxTokens /\ forms \in 0 .. MaxForms
    /\ tabs \in [Tabs -> {Closed} \union
                        [at : {"form", "accepted"}, tx : Transactions, form : Forms]]
    /\ reqs \in [Requests -> RequestRecords]
    /\ exchanged \in [Transactions -> Nat]

\* "Single-use exchange" (packages/connectors/README.md): requests that redeem
\* at once, and retries after a failed exchange, present a code once at most.
CodeExchangedOnce == \A t \in Transactions : exchanged[t] <= 1

\* A consent comes from the form that was disclosed last: reopening the page in
\* another tab voids the form of the first, and a spent form is not rearmed.
AcceptsLastForm ==
    \A b \in Tabs : tabs'[b].at = "accepted" /\ tabs[b].at # "accepted" =>
        LET t == tabs[b].tx
        IN  txs[t].csrf = tabs[b].form /\ txs'[t].csrf = NoForm

ApprovedByLastForm == [][AcceptsLastForm]_vars

\* "GET never approves consent": a transaction is approved by a tab whose form
\* was accepted, whatever tabs are open.
ApprovesByPost ==
    \A t \in Transactions : txs'[t].approved /\ ~txs[t].approved =>
        \E b \in Tabs : tabs[b].at = "accepted" /\ tabs[b].tx = t

ApprovedByPost == [][ApprovesByPost]_vars

\* "An exchange already in flight cannot republish credentials after
\* revocation": a tombstone stays, and nothing joins its grant.
StaysRevoked ==
    \A v \in Tokens : IsBound(bindings, v) /\ bindings[v].revoked => bindings'[v].revoked

RevocationIsFinal == [][StaysRevoked]_vars

GrantRevokedWhole == RevokedWhole(bindings)

\* A token the provider gives to two installations of one account stays with
\* the first: consents of the other neither take it over nor share its grant.
StaysOwned ==
    \A v \in Tokens : IsBound(bindings, v) => /\ bindings'[v].owner = bindings[v].owner
                                              /\ bindings'[v].grant = bindings[v].grant

OwnerKeepsToken == [][StaysOwned]_vars
=============================================================================

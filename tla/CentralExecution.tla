-------------------------- MODULE CentralExecution --------------------------
(***************************************************************************)
(* The central service (packages/connectors/central/server.go) together    *)
(* with the broker calls it makes in process (packages/connectors/auth/    *)
(* central.go): connections and invocations kept in the vault, consents    *)
(* and the requests being served kept in memory, token bindings kept by    *)
(* the broker.  A request is split where its locks are released: the gate, *)
(* each call of the provider, each Update of the broker's store and of the *)
(* vault.  A vault Update is atomic here, as Vault.tla shows it is.  A     *)
(* definition marked "Faulty" is a version of the one after it with a      *)
(* plausible mistake.                                                      *)
(***************************************************************************)
EXTENDS TokenBindings

CONSTANTS
    Requests,           \* HTTP requests that may be under way at a time
    Connections,        \* connection handles create may draw
    OAuth,              \* those of a catalog entry with auth "oauth"
    OwnerOf,            \* OwnerOf[c]: installation and account of c's consent
    IDs,                \* invocation identifiers a host may choose
    Ops, Writes,        \* the entry's operations, and those that are not reads
    Needs,              \* Needs[o]: scopes operation o requires
    MaxRestarts,        \* bound on the restarts of the service
    Free                \* nobody holds the gate

CentralAssumption ==
    /\ OAuth \subseteq Connections /\ Writes \subseteq Ops
    /\ OwnerOf \in [Connections -> Owners] /\ Needs \in [Ops -> SUBSET Scopes]
    /\ Free \notin Requests
    /\ MaxTokens \in Nat /\ MaxRestarts \in Nat

VARIABLES
    gate,               \* the request in s.gate, or Free
    conns,              \* VaultState.Connections
    invs,               \* VaultState.Invocations
    txs,                \* the broker's transaction of each connection's consent
    bindings,           \* the broker's token bindings
    offered,            \* offered[c]: current() finds c's catalog entry unchanged
    reqs,               \* the requests
    minted,             \* tokens the provider has issued
    restarts,
    exchanged,          \* exchanged[c]: how often c's code reached the provider
    executed,           \* executed[k]: how often the provider carried k out
    told                \* told[k]: outcomes hosts have been told of k

vars == <<gate, conns, invs, txs, bindings, offered, reqs, minted, restarts,
          exchanged, executed, told>>

vault == <<conns, invs>>
history == <<exchanged, executed, told>>

Keys == Connections \X IDs
Finals == {"succeeded", "failed", "outcome_unknown"}
NoPair == [access |-> NoToken]

\* A connection's record; rev is its GrantRevision.
Blank == [status |-> "none", rev |-> 0, ops |-> {}, scopes |-> {}, token |-> NoPair]

ConnRecord == [status : {"none", "pending", "connected", "disconnected"}, rev : 0 .. 2,
               ops : SUBSET Ops, scopes : SUBSET Scopes, token : TokenPairs \union {NoPair}]

\* An invocation's record: its status and the request body its hash stands for.
NoBody == [op |-> "none"]
NoInvocation == [status |-> "none", body |-> NoBody]

Invocation == [status : {"none", "running"} \union Finals,
               body : {NoBody} \union [op : Ops, rev : 1 .. 2]]

\* What an answer that quotes a record says about its end.
Outcome(i) == {i.status} \intersect Finals

\* What a request asks.  An invoke names the revision it was approved under.
Asks == [kind : {"complete", "refresh", "disconnect"}, conn : Connections] \union
        [kind : {"invoke"}, conn : Connections, id : IDs, op : Ops, rev : 1 .. 2]

\* A request: where it is, what it asks, the record and the tokens it holds.
Idle == [at |-> "idle"]
Inside == {"entered", "exchange", "bind", "store", "refreshing", "rebind", "restore",
           "prepared", "calling", "finishing"}

RequestRecords ==
    {Idle} \union
    [at : {"waiting", "entered", "exchange"}, ask : Asks] \union
    [at : {"bind", "store"}, ask : Asks, token : TokenPairs] \union
    [at : {"refreshing"}, ask : Asks, held : ConnRecord, expected : Binding] \union
    [at : {"rebind", "restore"}, ask : Asks, held : ConnRecord, expected : Binding,
     token : TokenPairs] \union
    [at : {"prepared", "calling"}, ask : Asks, held : ConnRecord] \union
    [at : {"finishing"}, ask : Asks, held : ConnRecord, outcome : Finals]

Key(r) == <<reqs[r].ask.conn, reqs[r].ask.id>>
Body(ask) == [op |-> ask.op, rev |-> ask.rev]

At(r, kind, stage) == reqs[r].at = stage /\ reqs[r].ask.kind = kind

Move(r, q) == reqs' = [reqs EXCEPT ![r] = q]

\* The handler returns: defer s.leave().
Leave(r) == Move(r, Idle) /\ gate' = Free

Init ==
    /\ gate = Free
    /\ conns = [c \in Connections |-> Blank]
    /\ invs = [k \in Keys |-> NoInvocation]
    /\ txs = [c \in Connections |-> "none"]
    /\ bindings = NoBindings
    /\ offered = [c \in Connections |-> TRUE]
    /\ reqs = [r \in Requests |-> Idle]
    /\ minted = 0
    /\ restarts = 0
    /\ exchanged = [c \in Connections |-> 0]
    /\ executed = [k \in Keys |-> 0]
    /\ told = [k \in Keys |-> {}]

-----------------------------------------------------------------------------
(* The gate *)

\* The scopes of a new connection: those its operations require, or the
\* provider's own when they require none.
Wanted(ops) ==
    LET needed == UNION {Needs[o] : o \in ops}
    IN  IF needed = {} THEN Scopes ELSE needed

\* create takes the gate, calls no provider and gives it back.
Create(c, ops) ==
    /\ gate = Free
    /\ conns[c].status = "none" /\ offered[c]
    /\ ops # {}
    /\ conns' = [conns EXCEPT ![c] =
          [status |-> IF c \in OAuth THEN "pending" ELSE "connected", rev |-> 1, ops |-> ops,
           scopes |-> UNION {Needs[o] : o \in ops}, token |-> NoPair]]
    /\ txs' = [txs EXCEPT ![c] = IF c \in OAuth THEN "pending" ELSE "none"]
    /\ UNCHANGED <<gate, invs, bindings, offered, reqs, minted, restarts, history>>

\* The user follows the authorization URL and the provider calls back with a code.
Consent(c) ==
    /\ txs[c] = "pending"
    /\ txs' = [txs EXCEPT ![c] = "ready"]
    /\ UNCHANGED <<gate, vault, bindings, offered, reqs, minted, restarts, history>>

Arrive(r, ask) ==
    /\ reqs[r] = Idle
    /\ Move(r, [at |-> "waiting", ask |-> ask])
    /\ UNCHANGED <<gate, vault, txs, bindings, offered, minted, restarts, history>>

\* enter: the gate is taken before the record is read.
Enter(r) ==
    /\ reqs[r].at = "waiting"
    /\ gate = Free
    /\ gate' = r
    /\ Move(r, [reqs[r] EXCEPT !.at = "entered"])
    /\ UNCHANGED <<vault, txs, bindings, offered, minted, restarts, history>>

\* enter: the caller is gone before its turn.
GiveUp(r) ==
    /\ reqs[r].at = "waiting"
    /\ Move(r, Idle)
    /\ UNCHANGED <<gate, vault, txs, bindings, offered, minted, restarts, history>>

\* An early return: a check that fails, an error of the provider or of a store,
\* a deadline, a limit reached.
Refuse(r) ==
    /\ reqs[r].at \in Inside \ {"calling"}
    /\ Leave(r)
    /\ UNCHANGED <<vault, txs, bindings, offered, minted, restarts, history>>

-----------------------------------------------------------------------------
(* complete *)

\* CompleteCentral: the code is consumed before it is exchanged.
Redeem(r) ==
    LET c == reqs[r].ask.conn
    IN  /\ At(r, "complete", "entered")
        /\ conns[c].status = "pending" /\ offered[c]
        /\ txs[c] = "ready"
        /\ txs' = [txs EXCEPT ![c] = "consumed"]
        /\ Move(r, [reqs[r] EXCEPT !.at = "exchange"])
        /\ UNCHANGED <<gate, vault, bindings, offered, minted, restarts, history>>

\* The provider takes the code; it answers with tokens, or the answer is an
\* error.  A consent repeated for one account may bring its access token again,
\* and a refresh token may be missing.
Exchange(r) ==
    LET c == reqs[r].ask.conn
    IN  /\ At(r, "complete", "exchange")
        /\ exchanged' = [exchanged EXCEPT ![c] = @ + 1]
        /\ \/ /\ Leave(r)
              /\ UNCHANGED minted
           \/ \E granted \in SUBSET Wanted(conns[c].ops), renewable \in BOOLEAN, again \in BOOLEAN :
                 LET old == {v \in 1 .. minted : IsBound(bindings, v) /\ bindings[v].owner = OwnerOf[c]}
                 IN  /\ again => old # {}
                     /\ minted + 2 <= MaxTokens
                     /\ \E access \in IF again THEN old ELSE {minted + 1} :
                           Move(r, [at |-> "bind", ask |-> reqs[r].ask, token |->
                               [access |-> access, owner |-> OwnerOf[c], scopes |-> granted,
                                refresh |-> IF renewable THEN minted + 2 ELSE NoToken]])
                     /\ minted' = minted + 2
                     /\ UNCHANGED gate
        /\ UNCHANGED <<vault, txs, bindings, offered, restarts, executed, told>>

Bind(r) ==
    LET t == reqs[r].token
    IN  /\ At(r, "complete", "bind")
        /\ MayBind(bindings, Consented(t), t, TRUE)
        /\ bindings' = Bound(bindings, Consented(t), t)
        /\ Move(r, [reqs[r] EXCEPT !.at = "store"])
        /\ UNCHANGED <<gate, vault, txs, offered, minted, restarts, history>>

\* Partial consent narrows the operations; none left is a refusal.
Store(r) ==
    LET c == reqs[r].ask.conn
        t == reqs[r].token
        granted == {o \in conns[c].ops : Needs[o] \subseteq t.scopes}
    IN  /\ At(r, "complete", "store")
        /\ Live(bindings, t)
        /\ conns[c].status = "pending" /\ offered[c]
        /\ granted # {}
        /\ conns' = [conns EXCEPT ![c].status = "connected", ![c].ops = granted,
                                  ![c].scopes = t.scopes, ![c].token = t]
        /\ Leave(r)
        /\ UNCHANGED <<invs, txs, bindings, offered, minted, restarts, history>>

-----------------------------------------------------------------------------
(* refresh, asked for or on the way of an invoke *)

\* The handler's copy of the record is the one it works on.
Held(r) == reqs[r].held

MayRefresh(r, c) ==
    /\ conns[c].status = "connected" /\ offered[c]
    /\ c \in OAuth
    /\ conns[c].token.refresh # NoToken
    /\ Refreshable(bindings, conns[c].token)

PresentRefresh(r) ==
    LET c == reqs[r].ask.conn
    IN  /\ At(r, "refresh", "entered")
        /\ MayRefresh(r, c)
        /\ Move(r, [at |-> "refreshing", ask |-> reqs[r].ask, held |-> conns[c],
                    expected |-> bindings[conns[c].token.refresh]])
        /\ UNCHANGED <<gate, vault, txs, bindings, offered, minted, restarts, history>>

\* The provider issues a new access token, and a new refresh token or the old
\* one again; it may narrow the scopes.
ProviderRefresh(r) ==
    LET t == Held(r).token
    IN  /\ reqs[r].at = "refreshing"
        /\ minted + 2 <= MaxTokens
        /\ \E granted \in SUBSET t.scopes, rotated \in BOOLEAN :
              Move(r, [at |-> "rebind", ask |-> reqs[r].ask, held |-> Held(r),
                       expected |-> reqs[r].expected, token |->
                  [t EXCEPT !.access = minted + 1, !.scopes = granted,
                            !.refresh = IF rotated THEN minted + 2 ELSE @]])
        /\ minted' = minted + 2
        /\ UNCHANGED <<gate, vault, txs, bindings, offered, restarts, history>>

Rebind(r) ==
    LET t == reqs[r].token
        previous == Held(r).token.refresh
    IN  /\ reqs[r].at = "rebind"
        /\ MayRebind(bindings, previous, reqs[r].expected, t)
        /\ bindings' = Rebound(bindings, previous, t)
        /\ Move(r, [reqs[r] EXCEPT !.at = "restore"])
        /\ UNCHANGED <<gate, vault, txs, offered, minted, restarts, history>>

\* The vault keeps the refreshed token; an invoke goes on with it.
Restore(r) ==
    LET c == reqs[r].ask.conn
        t == reqs[r].token
    IN  /\ reqs[r].at = "restore"
        /\ Live(bindings, t)
        /\ conns[c].status = "connected" /\ offered[c]
        /\ conns[c].rev = Held(r).rev
        /\ conns' = [conns EXCEPT ![c].token = t, ![c].scopes = t.scopes]
        /\ IF reqs[r].ask.kind = "refresh"
             THEN Leave(r)
             ELSE /\ Move(r, [at |-> "prepared", ask |-> reqs[r].ask, held |-> conns'[c]])
                  /\ UNCHANGED gate
        /\ UNCHANGED <<invs, txs, bindings, offered, minted, restarts, history>>

-----------------------------------------------------------------------------
(* invoke *)

MayInvoke(ask) ==
    /\ conns[ask.conn].status = "connected" /\ offered[ask.conn]
    /\ ask.rev = conns[ask.conn].rev
    /\ ask.op \in conns[ask.conn].ops

\* A known identifier is answered from its record, if it is for the same body.
Replay(r) ==
    LET ask == reqs[r].ask
    IN  /\ At(r, "invoke", "entered")
        /\ MayInvoke(ask)
        /\ invs[Key(r)].status # "none"
        /\ invs[Key(r)].body = Body(ask)
        /\ told' = [told EXCEPT ![Key(r)] = @ \union Outcome(invs[Key(r)])]
        /\ Leave(r)
        /\ UNCHANGED <<vault, txs, bindings, offered, minted, restarts, exchanged, executed>>

\* A new identifier, whose token may have to be refreshed first.
StartInvoke(r) ==
    LET ask == reqs[r].ask
        c == ask.conn
    IN  /\ At(r, "invoke", "entered")
        /\ MayInvoke(ask)
        /\ invs[Key(r)].status = "none"
        /\ \/ Move(r, [at |-> "prepared", ask |-> ask, held |-> conns[c]])
           \/ /\ MayRefresh(r, c)
              /\ Move(r, [at |-> "refreshing", ask |-> ask, held |-> conns[c],
                          expected |-> bindings[conns[c].token.refresh]])
        /\ UNCHANGED <<gate, vault, txs, bindings, offered, minted, restarts, history>>

TokenLive(r) == reqs[r].ask.conn \in OAuth => Live(bindings, Held(r).token)

\* Executor.Tools still offers the operation under the scopes held, the token
\* is live, and the vault records the invocation before the provider hears of it.
Admit(r) ==
    LET ask == reqs[r].ask
    IN  /\ At(r, "invoke", "prepared")
        /\ Needs[ask.op] \subseteq Held(r).scopes
        /\ TokenLive(r)
        /\ offered[ask.conn]
        /\ invs[Key(r)].status = "none"
        /\ invs' = [invs EXCEPT ![Key(r)] = [status |-> "running", body |-> Body(ask)]]
        /\ Move(r, [reqs[r] EXCEPT !.at = "calling"])
        /\ UNCHANGED <<gate, conns, txs, bindings, offered, minted, restarts, history>>

\* Executor.Invoke: an error may hide an operation that was carried out.
Call(r) ==
    LET ask == reqs[r].ask
    IN  /\ At(r, "invoke", "calling")
        /\ \E answered \in BOOLEAN, carriedOut \in BOOLEAN :
              /\ answered => carriedOut
              /\ executed' = IF carriedOut THEN [executed EXCEPT ![Key(r)] = @ + 1] ELSE executed
              /\ Move(r, [at |-> "finishing", ask |-> ask, held |-> Held(r), outcome |->
                     CASE answered -> "succeeded"
                       [] ~answered /\ ask.op \in Writes -> "outcome_unknown"
                       [] OTHER -> "failed"])
        /\ UNCHANGED <<gate, vault, txs, bindings, offered, minted, restarts, exchanged, told>>

\* Faulty: the token was looked at when the invocation was admitted.
FinishUnchecked(r) ==
    /\ At(r, "invoke", "finishing")
    /\ offered[reqs[r].ask.conn]
    /\ invs' = [invs EXCEPT ![Key(r)].status = reqs[r].outcome]
    /\ told' = [told EXCEPT ![Key(r)] = @ \union {reqs[r].outcome}]
    /\ Leave(r)
    /\ UNCHANGED <<conns, txs, bindings, offered, minted, restarts, exchanged, executed>>

\* Faulty: the caller is told what the record could not keep.
FinishUnrecorded(r) ==
    /\ At(r, "invoke", "finishing")
    /\ IF TokenLive(r) /\ offered[reqs[r].ask.conn]
         THEN invs' = [invs EXCEPT ![Key(r)].status = reqs[r].outcome]
         ELSE UNCHANGED invs
    /\ told' = [told EXCEPT ![Key(r)] = @ \union {reqs[r].outcome}]
    /\ Leave(r)
    /\ UNCHANGED <<conns, txs, bindings, offered, minted, restarts, exchanged, executed>>

\* The outcome is recorded under the same fence, then told, unless the entry
\* was withdrawn between the two.
Finish(r) ==
    /\ At(r, "invoke", "finishing")
    /\ TokenLive(r)
    /\ offered[reqs[r].ask.conn]
    /\ invs' = [invs EXCEPT ![Key(r)].status = reqs[r].outcome]
    /\ \/ told' = [told EXCEPT ![Key(r)] = @ \union {reqs[r].outcome}]
       \/ UNCHANGED told
    /\ Leave(r)
    /\ UNCHANGED <<conns, txs, bindings, offered, minted, restarts, exchanged, executed>>

\* The invocations route takes no gate.
ReadInvocation(k) ==
    /\ invs[k].status # "none"
    /\ offered[k[1]]
    /\ told' = [told EXCEPT ![k] = @ \union Outcome(invs[k])]
    /\ UNCHANGED <<gate, vault, txs, bindings, offered, reqs, minted, restarts, exchanged, executed>>

-----------------------------------------------------------------------------
(* disconnect, revocation, withdrawal, restart *)

Disconnected(c) ==
    [conns[c] EXCEPT !.status = "disconnected", !.rev = IF @ = 1 THEN 2 ELSE @, !.token = NoPair]

\* The handle is disabled, under a new revision, and its token wiped.  It asks
\* nothing of the catalog: a withdrawn connection can still be disconnected.
\* (A repeated disconnect raises the revision again, which nothing can tell.)
Disconnect(r) ==
    /\ At(r, "disconnect", "entered")
    /\ conns[reqs[r].ask.conn].status # "none"
    /\ conns' = [conns EXCEPT ![reqs[r].ask.conn] = Disconnected(reqs[r].ask.conn)]
    /\ Leave(r)
    /\ UNCHANGED <<invs, txs, bindings, offered, minted, restarts, history>>

\* The broker's revoke route, for a token of any grant it has bound.
RevokeGrant(v) ==
    /\ IsBound(bindings, v) /\ ~bindings[v].revoked
    /\ bindings' = Fenced(bindings, v)
    /\ UNCHANGED <<gate, vault, txs, offered, reqs, minted, restarts, history>>

\* The entry's contract changes, or the trial it was admitted under runs out.
Withdraw(c) ==
    /\ offered[c] /\ conns[c].status # "none"
    /\ offered' = [offered EXCEPT ![c] = FALSE]
    /\ UNCHANGED <<gate, vault, txs, bindings, reqs, minted, restarts, history>>

\* Faulty: forgets what it did not see the end of.
RecoveredByForgetting(is) ==
    [k \in Keys |-> IF is[k].status = "running" THEN NoInvocation ELSE is[k]]

\* OpenVault settles what the last process left running.
Recovered(is) ==
    [k \in Keys |-> IF is[k].status = "running" THEN [is[k] EXCEPT !.status = "outcome_unknown"]
                                                 ELSE is[k]]

\* The process stops: requests, gate and transactions are gone with it.
Restart ==
    /\ restarts < MaxRestarts
    /\ restarts' = restarts + 1
    /\ gate' = Free
    /\ reqs' = [r \in Requests |-> Idle]
    /\ txs' = [c \in Connections |-> "none"]
    /\ invs' = Recovered(invs)
    /\ UNCHANGED <<conns, bindings, offered, minted, history>>

-----------------------------------------------------------------------------
(* The specification *)

\* The steps of a handler that has the gate.
Serve(r) ==
    \/ Redeem(r) \/ Exchange(r) \/ Bind(r) \/ Store(r)
    \/ PresentRefresh(r) \/ ProviderRefresh(r) \/ Rebind(r) \/ Restore(r)
    \/ Replay(r) \/ StartInvoke(r) \/ Admit(r) \/ Call(r) \/ Finish(r)
    \/ Disconnect(r)
    \/ Refuse(r)

Next ==
    \/ \E c \in Connections :
          \/ \E ops \in SUBSET Ops : Create(c, ops)
          \/ Consent(c)
          \/ Withdraw(c)
    \/ \E r \in Requests :
          \/ \E ask \in Asks : conns[ask.conn].status # "none" /\ Arrive(r, ask)
          \/ Enter(r)
          \/ GiveUp(r)
          \/ Serve(r)
    \/ \E k \in Keys : ReadInvocation(k)
    \/ \E v \in Tokens : RevokeGrant(v)
    \/ Restart

Spec == Init /\ [][Next]_vars

\* A handler goes on (its provider calls have deadlines), and waiters on the
\* gate's channel get their turn in order, unless they leave first.
Fairness == \A r \in Requests : WF_vars(Serve(r)) /\ SF_vars(Enter(r))

FairSpec == Spec /\ Fairness

-----------------------------------------------------------------------------
(* Properties *)

\* The shape of the state; and the gate is held by exactly the request inside.
TypeOK ==
    /\ conns \in [Connections -> ConnRecord]
    /\ invs \in [Keys -> Invocation]
    /\ txs \in [Connections -> {"none", "pending", "ready", "consumed"}]
    /\ bindings \in Bindings
    /\ offered \in [Connections -> BOOLEAN]
    /\ minted \in 0 .. MaxTokens
    /\ restarts \in 0 .. MaxRestarts
    /\ exchanged \in [Connections -> Nat] /\ executed \in [Keys -> Nat]
    /\ told \in [Keys -> SUBSET Finals]
    /\ reqs \in [Requests -> RequestRecords]
    /\ \A r \in Requests : gate = r <=> reqs[r].at \in Inside

\* The answers hosts get about an invocation, from retries, from the lock-free
\* route and over restarts, never disagree on how it ended.
AnswersAgree == \A k \in Keys : \A a, b \in told[k] : a = b

\* The broker and the vault agree across the Update of each: what a connected
\* handle holds is bound whole, both tokens under one grant of its owner.
StoredTokensAreBound ==
    \A c \in OAuth : conns[c].status = "connected" =>
        LET t == conns[c].token
        IN  \A v \in Values(t) :
               /\ IsBound(bindings, v)
               /\ bindings[v].owner = OwnerOf[c]
               /\ SameGrant(bindings[v], bindings[t.access])

\* Revocation wins over a refresh or a consent under way: no token ever joins
\* a grant that was revoked, and a revoked grant has no token left.
GrantRevokedWhole == RevokedWhole(bindings)

\* An authorization code reaches the provider once, whatever fails after it.
CodeExchangedOnce == \A c \in Connections : exchanged[c] <= 1

\* The provider hears of an operation only while its connection is connected,
\* under the revision the caller named and a token whose scopes cover it, though
\* all three were checked several steps before.
CallsUnderGrant ==
    \A r \in Requests : (reqs[r].at = "calling" /\ reqs'[r].at = "finishing") =>
        LET c == reqs[r].ask.conn
        IN  /\ conns[c].status = "connected"
            /\ conns[c].rev = reqs[r].ask.rev
            /\ Needs[reqs[r].ask.op] \subseteq conns[c].scopes

CallsUnderCurrentGrant == [][CallsUnderGrant]_vars

\* Once the broker has revoked a grant, no outcome of a call made under it is
\* published; only a restart settles the record, as unknown.
PublishesUnderGrant ==
    \A k \in Keys :
        k[1] \in OAuth /\ invs[k].status = "running" /\ invs'[k].status \in {"succeeded", "failed"} =>
        ~bindings[conns[k[1]].token.access].revoked

RevokedOutcomesStayUnknown == [][PublishesUnderGrant]_vars

\* Every request that waits or is served ends, however the provider behaves.
RequestsEnd == \A r \in Requests : reqs[r].at # "idle" ~> reqs[r].at = "idle"

\* The records and the provider's effects are an invocation log.
Log == INSTANCE InvocationLog WITH
    Invocations <- Keys,
    status <- [k \in Keys |-> invs[k].status]

ImplementsInvocationLog == Log!LogSpec
=============================================================================

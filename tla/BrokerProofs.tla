---------------------------- MODULE BrokerProofs ----------------------------
(***************************************************************************)
(* Proofs about Broker, for every set of transactions, installations,      *)
(* owners, tabs and requests.  That a code is exchanged once rests on      *)
(* redeem marking the transaction in the critical section that finds it    *)
(* ready; what is said of the tokens rests on the bindings being judged    *)
(* and changed in one update of the store.                                 *)
(***************************************************************************)
EXTENDS Broker, TLAPS

-----------------------------------------------------------------------------
(* The table of token bindings.  CentralExecutionProofs has the same facts of  *)
(* its own table, with the numbers of tokens there.                            *)

\* A binding is not the mark of an unbound token, whose grant is no token.
LEMMA BindingBound ==
    ASSUME MaxTokens \in Nat PROVE NoToken \notin Tokens /\ Unbound \notin Binding
<1>1. NoToken \notin Tokens
  BY DEF NoToken, Tokens
<1>2. \A b \in Binding : b.grant # Unbound.grant
  BY <1>1 DEF Binding, Unbound
<1>3. QED
  BY <1>1, <1>2

\* What is bound is a binding.
LEMMA BoundTyped ==
    ASSUME NEW bs \in Bindings, NEW v, IsBound(bs, v) PROVE v \in Tokens /\ bs[v] \in Binding
  BY DEF IsBound, Bindings

\* The values of a pair are tokens, its access token among them.
LEMMA ValuesOfPair ==
    ASSUME MaxTokens \in Nat, NEW t \in TokenPairs
    PROVE  Values(t) \subseteq Tokens /\ t.access \in Values(t) /\ t.access \in Tokens
  BY BindingBound DEF Values, TokenPairs

\* Bindings are kept by what keeps them all.
LEMMA KeptAll == \A bs, new : bs = new => Kept(bs, new)
  BY DEF Kept, SameGrant

\* No tokens are bound at first.
LEMMA NothingBound == ASSUME MaxTokens \in Nat PROVE WellBound(NoBindings)
<1>1. \A v : ~IsBound(NoBindings, v)
  BY DEF IsBound, NoBindings
<1>2. NoBindings \in Bindings
  BY DEF NoBindings, Bindings
<1>3. QED
  BY <1>1, <1>2 DEF WellBound, GrantsNamed, RevokedWhole

\* The binding the tokens of a pair get: that of the grant they met, or b's own.
\* No token of that grant is revoked.
LEMMA GrantOfPair ==
    ASSUME MaxTokens \in Nat, NEW bs, WellBound(bs), NEW b \in Binding, NEW t \in TokenPairs,
           NEW fresh \in BOOLEAN, MayBind(bs, b, t, fresh), OpenGrant(bs, b, t)
    PROVE  \E n \in Binding :
              /\ Bound(bs, b, t) = [v \in Tokens |-> IF v \in Values(t) THEN n ELSE bs[v]]
              /\ n.owner = b.owner /\ n.scopes = b.scopes /\ n.revoked = b.revoked
              /\ n.grant = t.access \/ (IsBound(bs, n.grant) /\ SameGrant(bs[n.grant], n))
              /\ \A v \in Values(t) : IsBound(bs, v) => SameGrant(bs[v], n)
              /\ \A v \in Tokens : IsBound(bs, v) /\ SameGrant(bs[v], n) => ~bs[v].revoked
<1>t. bs \in Bindings /\ Values(t) \subseteq Tokens /\ t.access \in Values(t) /\ t.access \in Tokens
  BY ValuesOfPair DEF WellBound
<1>1. CASE Met(bs, t) = {}
  <2>1. Bound(bs, b, t) = [v \in Tokens |-> IF v \in Values(t) THEN b ELSE bs[v]]
    <3>1. [b EXCEPT !.grant = b.grant] = b
      BY DEF Binding
    <3>2. QED
      BY <1>1, <3>1 DEF Bound
  <2>2. \A v \in Values(t) : ~IsBound(bs, v)
    BY <1>1 DEF Met
  <2>3. ASSUME NEW v \in Tokens, IsBound(bs, v), SameGrant(bs[v], b) PROVE ~bs[v].revoked
    <3>1. b.grant # t.access
      BY <1>t, <2>2, <2>3 DEF WellBound, GrantsNamed, SameGrant
    <3>2. IsBound(bs, b.grant) /\ SameGrant(bs[b.grant], b) /\ ~bs[b.grant].revoked
      BY <3>1 DEF OpenGrant
    <3>3. b.grant \in Tokens /\ SameGrant(bs[v], bs[b.grant])
      BY <2>3, <3>2 DEF IsBound, SameGrant
    <3>4. bs[v] \in Binding /\ bs[b.grant] \in Binding
      BY <1>t, <2>3, <3>2, BoundTyped
    <3>5. QED
      BY <2>3, <3>2, <3>3, <3>4 DEF WellBound, RevokedWhole
  <2>4. QED
    BY <2>1, <2>2, <2>3 DEF OpenGrant
<1>2. CASE Met(bs, t) # {}
  <2> DEFINE o == CHOOSE old \in Met(bs, t) : TRUE
             n == [b EXCEPT !.grant = o.grant]
  <2>1. o \in Met(bs, t)
    BY <1>2
  <2>2. PICK w \in Values(t) : IsBound(bs, w) /\ o = bs[w]
    BY <2>1 DEF Met
  <2>3. /\ ~o.revoked /\ o.owner = b.owner
        /\ \A old \in Met(bs, t) : SameGrant(old, o)
    BY <2>1 DEF MayBind
  <2>4. Bound(bs, b, t) = [v \in Tokens |-> IF v \in Values(t) THEN n ELSE bs[v]]
    BY <1>2 DEF Bound
  <2> HIDE DEF o
  <2>5. o \in Binding /\ w \in Tokens
    BY <1>t, <2>2, BoundTyped
  <2>6. /\ n \in Binding
        /\ n.owner = b.owner /\ n.scopes = b.scopes /\ n.revoked = b.revoked /\ n.grant = o.grant
    BY <2>5 DEF Binding
  <2> HIDE DEF n
  <2>7. SameGrant(o, n)
    BY <2>3, <2>6 DEF SameGrant
  <2>8. IsBound(bs, n.grant) /\ SameGrant(bs[n.grant], n)
    BY <2>2, <2>5, <2>6, <2>7 DEF WellBound, GrantsNamed, SameGrant
  <2>9. \A v \in Values(t) : IsBound(bs, v) => SameGrant(bs[v], n)
    BY <2>3, <2>7 DEF Met, SameGrant
  <2>10. ASSUME NEW v \in Tokens, IsBound(bs, v), SameGrant(bs[v], n) PROVE ~bs[v].revoked
    <3>1. SameGrant(bs[v], bs[w])
      BY <2>2, <2>7, <2>10 DEF SameGrant
    <3>2. bs[v].revoked = bs[w].revoked
      BY <2>2, <2>5, <2>10, <3>1 DEF WellBound, RevokedWhole
    <3>3. QED
      BY <2>2, <2>3, <3>2
  <2>11. QED
    BY <2>4, <2>6, <2>8, <2>9, <2>10
<1>3. QED
  BY <1>1, <1>2

\* Binding a pair keeps every token under its grant, lets no token join a revoked
\* one and binds both tokens of the pair (bindTokenInState).
LEMMA BindKeeps ==
    ASSUME MaxTokens \in Nat, NEW bs, WellBound(bs), NEW b \in Binding, NEW t \in TokenPairs,
           NEW fresh \in BOOLEAN, MayBind(bs, b, t, fresh), OpenGrant(bs, b, t), ~b.revoked
    PROVE  WellBound(Bound(bs, b, t)) /\ Kept(bs, Bound(bs, b, t))
<1> DEFINE new == Bound(bs, b, t)
<1>t. bs \in Bindings /\ Values(t) \subseteq Tokens /\ t.access \in Values(t) /\ t.access \in Tokens
  BY ValuesOfPair DEF WellBound
<1>1. PICK n \in Binding :
              /\ new = [v \in Tokens |-> IF v \in Values(t) THEN n ELSE bs[v]]
              /\ n.revoked = b.revoked
              /\ n.grant = t.access \/ (IsBound(bs, n.grant) /\ SameGrant(bs[n.grant], n))
              /\ \A v \in Values(t) : IsBound(bs, v) => SameGrant(bs[v], n)
              /\ \A v \in Tokens : IsBound(bs, v) /\ SameGrant(bs[v], n) => ~bs[v].revoked
  BY GrantOfPair
<1> HIDE DEF new
<1>2. /\ new \in Bindings
      /\ \A v \in Values(t) : new[v] = n /\ IsBound(new, v)
      /\ \A v \in Tokens \ Values(t) : new[v] = bs[v] /\ (IsBound(new, v) <=> IsBound(bs, v))
  BY <1>t, <1>1, BindingBound DEF Bindings, IsBound
<1>3. Kept(bs, new)
  <2> SUFFICES ASSUME NEW v \in Tokens, IsBound(bs, v)
               PROVE  /\ IsBound(new, v) /\ SameGrant(new[v], bs[v])
                      /\ bs[v].revoked => new[v].revoked
    BY DEF Kept
  <2>1. CASE v \in Values(t)
    BY <1>1, <1>2, <2>1 DEF SameGrant
  <2>2. CASE v \notin Values(t)
    BY <1>2, <2>2 DEF SameGrant
  <2>3. QED
    BY <2>1, <2>2
<1>4. IsBound(new, n.grant) /\ SameGrant(new[n.grant], n)
  <2>1. CASE n.grant = t.access
    BY <1>t, <1>2, <2>1 DEF SameGrant
  <2>2. CASE IsBound(bs, n.grant) /\ SameGrant(bs[n.grant], n)
    BY <1>3, <2>2 DEF Kept, SameGrant, IsBound
  <2>3. QED
    BY <1>1, <2>1, <2>2
<1>5. GrantsNamed(new)
  <2> SUFFICES ASSUME NEW v \in Tokens, IsBound(new, v)
               PROVE  IsBound(new, new[v].grant) /\ SameGrant(new[new[v].grant], new[v])
    BY DEF GrantsNamed
  <2>1. CASE v \in Values(t)
    BY <1>2, <1>4, <2>1
  <2>2. CASE v \notin Values(t)
    <3>1. IsBound(bs, bs[v].grant) /\ SameGrant(bs[bs[v].grant], bs[v]) /\ new[v] = bs[v]
      BY <1>2, <2>2 DEF WellBound, GrantsNamed
    <3>2. QED
      BY <1>3, <3>1 DEF Kept, SameGrant, IsBound
  <2>3. QED
    BY <2>1, <2>2
<1>6. RevokedWhole(new)
  <2> SUFFICES ASSUME NEW v \in Tokens, NEW w \in Tokens, IsBound(new, v), IsBound(new, w),
                      SameGrant(new[v], new[w])
               PROVE  new[v].revoked = new[w].revoked
    BY DEF RevokedWhole
  <2>1. ASSUME NEW x \in Tokens, IsBound(new, x), SameGrant(new[x], n) PROVE new[x].revoked = FALSE
    <3>1. CASE x \in Values(t)
      BY <1>1, <1>2, <3>1
    <3>2. CASE x \notin Values(t)
      <4>1. bs[x] \in Binding /\ new[x] = bs[x] /\ ~bs[x].revoked
        BY <1>t, <1>1, <1>2, <2>1, <3>2, BoundTyped
      <4>2. QED
        BY <4>1 DEF Binding
    <3>3. QED
      BY <3>1, <3>2
  <2>2. CASE v \in Values(t) \/ w \in Values(t)
    <3>1. SameGrant(new[v], n) /\ SameGrant(new[w], n)
      BY <1>2, <2>2 DEF SameGrant
    <3>2. QED
      BY <2>1, <3>1
  <2>3. CASE v \notin Values(t) /\ w \notin Values(t)
    BY <1>2, <2>3 DEF WellBound, RevokedWhole
  <2>4. QED
    BY <2>2, <2>3
<1>7. QED
  BY <1>2, <1>3, <1>5, <1>6 DEF WellBound, new

\* A consent's pair (bindToken).
LEMMA ConsentKeeps ==
    ASSUME MaxTokens \in Nat, NEW bs, WellBound(bs), NEW t \in TokenPairs,
           MayBind(bs, Consented(t), t, TRUE)
    PROVE  /\ WellBound(Bound(bs, Consented(t), t))
           /\ Kept(bs, Bound(bs, Consented(t), t))
<1> DEFINE b == Consented(t)
<1>1. b \in Binding /\ ~b.revoked /\ b.grant = t.access
  BY DEF Consented, Binding, TokenPairs
<1> HIDE DEF b
<1>2. OpenGrant(bs, b, t)
  BY <1>1 DEF OpenGrant
<1>3. QED
  BY <1>1, <1>2, BindKeeps DEF b

\* A refreshed pair (bindRefreshedToken): it joins the grant of the token that was
\* presented, which nobody has revoked meanwhile.
LEMMA RefreshKeeps ==
    ASSUME MaxTokens \in Nat, NEW bs, WellBound(bs), NEW t \in TokenPairs,
           NEW previous, NEW expected, MayRebind(bs, previous, expected, t)
    PROVE  WellBound(Rebound(bs, previous, t)) /\ Kept(bs, Rebound(bs, previous, t))
<1> DEFINE b == [bs[previous] EXCEPT !.scopes = t.scopes]
<1>1. IsBound(bs, previous) /\ ~bs[previous].revoked /\ MayBind(bs, b, t, FALSE)
  BY DEF MayRebind
<1>2. previous \in Tokens /\ bs[previous] \in Binding
  BY <1>1, BoundTyped DEF WellBound
<1>3. t.scopes \in SUBSET Scopes
  BY DEF TokenPairs
<1>4. b \in Binding /\ ~b.revoked /\ b.grant = bs[previous].grant /\ b.owner = bs[previous].owner
  BY <1>1, <1>2, <1>3 DEF Binding
<1> HIDE DEF b
<1>5. IsBound(bs, b.grant) /\ SameGrant(bs[b.grant], b) /\ SameGrant(bs[b.grant], bs[previous])
  BY <1>1, <1>2, <1>4 DEF WellBound, GrantsNamed, SameGrant
<1>6. ~bs[b.grant].revoked
  BY <1>1, <1>2, <1>5 DEF WellBound, RevokedWhole, IsBound
<1>7. OpenGrant(bs, b, t)
  BY <1>5, <1>6 DEF OpenGrant
<1>8. QED
  BY <1>1, <1>4, <1>7, BindKeeps DEF b, Rebound

\* Fencing a grant revokes all its tokens and leaves the others (revoke).
LEMMA FenceKeeps ==
    ASSUME MaxTokens \in Nat, NEW bs, WellBound(bs), NEW v, IsBound(bs, v)
    PROVE  WellBound(Fenced(bs, v)) /\ Kept(bs, Fenced(bs, v))
<1> DEFINE new == Fenced(bs, v)
<1>t. bs \in Bindings /\ v \in Tokens
  BY DEF WellBound, IsBound
<1>1. ASSUME NEW w \in Tokens, IsBound(bs, w)
      PROVE  /\ new[w] \in Binding /\ new[w].owner = bs[w].owner /\ new[w].grant = bs[w].grant
             /\ new[w].revoked = (bs[w].revoked \/ SameGrant(bs[w], bs[v]))
             /\ bs[w] \in Binding
  <2>1. bs[w] \in Binding
    BY <1>t, <1>1, BoundTyped
  <2>2. CASE SameGrant(bs[w], bs[v])
    <3>1. new[w] = [bs[w] EXCEPT !.revoked = TRUE]
      BY <1>1, <2>2 DEF Fenced
    <3>2. QED
      BY <2>1, <2>2, <3>1 DEF Binding
  <2>3. CASE ~SameGrant(bs[w], bs[v])
    <3>1. new[w] = bs[w]
      BY <2>3 DEF Fenced
    <3>2. QED
      BY <2>1, <2>3, <3>1 DEF Binding
  <2>4. QED
    BY <2>2, <2>3
<1>2. \A w \in Tokens : ~IsBound(bs, w) => new[w] = bs[w]
  BY DEF Fenced
<1>3. new = [w \in Tokens |-> new[w]]
  BY DEF Fenced
<1> HIDE DEF new
<1>4. new \in Bindings
  BY <1>t, <1>1, <1>2, <1>3 DEF Bindings
<1>5. \A w \in Tokens : IsBound(new, w) <=> IsBound(bs, w)
  BY <1>1, <1>2, BindingBound DEF IsBound
<1>6. Kept(bs, new)
  BY <1>1, <1>5 DEF Kept, SameGrant
<1>7. GrantsNamed(new)
  <2> SUFFICES ASSUME NEW w \in Tokens, IsBound(new, w)
               PROVE  IsBound(new, new[w].grant) /\ SameGrant(new[new[w].grant], new[w])
    BY DEF GrantsNamed
  <2>1. IsBound(bs, bs[w].grant) /\ SameGrant(bs[bs[w].grant], bs[w]) /\ bs[w].grant \in Tokens
    BY <1>5 DEF WellBound, GrantsNamed, IsBound
  <2>2. QED
    BY <1>1, <1>5, <2>1 DEF SameGrant
<1>8. RevokedWhole(new)
  <2> SUFFICES ASSUME NEW w \in Tokens, NEW x \in Tokens, IsBound(new, w), IsBound(new, x),
                      SameGrant(new[w], new[x])
               PROVE  new[w].revoked = new[x].revoked
    BY DEF RevokedWhole
  <2>1. IsBound(bs, w) /\ IsBound(bs, x) /\ SameGrant(bs[w], bs[x])
    BY <1>1, <1>5 DEF SameGrant
  <2>2. bs[w].revoked = bs[x].revoked /\ (SameGrant(bs[w], bs[v]) <=> SameGrant(bs[x], bs[v]))
    BY <2>1 DEF WellBound, RevokedWhole, SameGrant
  <2>3. QED
    BY <1>1, <2>1, <2>2
<1>9. QED
  BY <1>4, <1>6, <1>7, <1>8 DEF WellBound, new

-----------------------------------------------------------------------------
(* What always holds, and why *)

\* A code is unspent until its exchange, which one request makes after it has
\* marked the transaction.
CodesSpentOnce ==
    /\ \A t \in Transactions :
          /\ exchanged[t] <= 1
          /\ txs[t].status # "consumed" => exchanged[t] = 0
    /\ \A r \in Requests : reqs[r].at = "exchange" =>
          txs[reqs[r].tx].status = "consumed" /\ exchanged[reqs[r].tx] = 0
    /\ \A r, g \in Requests :
          reqs[r].at = "exchange" /\ reqs[g].at = "exchange" /\ reqs[r].tx = reqs[g].tx => r = g

IInv == TypeOK /\ WellBound(bindings) /\ CodesSpentOnce

-----------------------------------------------------------------------------
(* What a request and a tab carry *)

\* What a request carries at each of its steps.
LEMMA RequestTyped ==
    ASSUME NEW q \in RequestRecords
    PROVE  /\ q.at \in {"idle", "exchange", "return", "bind", "refreshing", "rebind"}
           /\ q.at \in {"exchange", "return", "bind"} => q.tx \in Transactions
           /\ q.at \in {"bind", "rebind"} => q.token \in TokenPairs
           /\ q.at \in {"refreshing", "rebind"} => q.pair \in TokenPairs /\ q.expected \in Binding
  BY DEF RequestRecords, Idle

\* The request at hand.
LEMMA AtHand ==
    ASSUME TypeOK, NEW r \in Requests
    PROVE  /\ reqs[r] \in RequestRecords
           /\ reqs[r].at \in {"exchange", "return", "bind"} =>
                 reqs[r].tx \in Transactions /\ txs[reqs[r].tx] \in Transaction
           /\ reqs[r].at \in {"bind", "rebind"} => reqs[r].token \in TokenPairs
           /\ reqs[r].at \in {"refreshing", "rebind"} =>
                 reqs[r].pair \in TokenPairs /\ reqs[r].expected \in Binding
<1>1. reqs[r] \in RequestRecords
  BY DEF TypeOK
<1>2. QED
  BY <1>1, RequestTyped DEF TypeOK

\* A tab that shows a form shows one of a transaction.
LEMMA TabTyped ==
    ASSUME TypeOK, NEW b \in Tabs
    PROVE  /\ tabs[b].at \in {"closed", "form", "accepted"}
           /\ tabs[b].at # "closed" =>
                 /\ tabs[b] \in [at : {"form", "accepted"}, tx : Transactions, form : Forms]
                 /\ tabs[b].tx \in Transactions /\ tabs[b].form \in Forms
<1>1. tabs[b] \in {Closed} \union [at : {"form", "accepted"}, tx : Transactions, form : Forms]
  BY DEF TypeOK
<1>2. QED
  BY <1>1 DEF Closed

\* What the handlers write into a transaction is a transaction's record.
LEMMA TransactionTyped ==
    ASSUME NEW x \in Transaction
    PROVE  /\ \A s \in {"none", "pending", "ready", "consumed", "cancelled"} :
                 [x EXCEPT !.status = s] \in Transaction
           /\ \A f \in Forms \union {NoForm} : [x EXCEPT !.csrf = f] \in Transaction
           /\ [x EXCEPT !.approved = TRUE, !.linked = TRUE] \in Transaction
           /\ [x EXCEPT !.expired = TRUE] \in Transaction
           /\ [x EXCEPT !.expired = TRUE, !.busy = FALSE] \in Transaction
           /\ [x EXCEPT !.busy = FALSE] \in Transaction
           /\ [x EXCEPT !.status = "consumed", !.busy = TRUE] \in Transaction
  BY ZenonT(90) DEF Transaction

\* A transaction that has not been started.
LEMMA FreshTyped == Fresh \in Transaction /\ Fresh.status = "none" /\ ~Fresh.approved
  BY DEF Fresh, Transaction

-----------------------------------------------------------------------------
(* The steps *)

\* A step is a handler's critical section, a provider call, or the end of the process.
LEMMA StepCases ==
    ASSUME [Next]_vars
    PROVE  \/ UNCHANGED vars
           \/ \E t \in Transactions : Start(t) \/ Callback(t) \/ Expire(t)
           \/ \E t \in Transactions, b \in Tabs : Render(b, t)
           \/ \E t \in Transactions, r \in Requests : Redeem(r, t)
           \/ \E b \in Tabs : Post(b) \/ Approve(b) \/ CloseTab(b)
           \/ \E r \in Requests : \/ Exchange(r) \/ Bind(r) \/ Return(r)
                                  \/ ProviderRefresh(r) \/ Rebind(r)
           \/ \E r \in Requests, t \in held : PresentRefresh(r, t)
           \/ \E t \in held, v \in Tokens : Revoke(t, v)
           \/ Restart
  BY DEF Next

\* Whatever happens, a token that is bound keeps its grant, and a revocation stays.
LEMMA BindingsKept ==
    ASSUME BrokerAssumption, TypeOK, WellBound(bindings), [Next]_vars
    PROVE  WellBound(bindings') /\ Kept(bindings, bindings')
<1> USE DEF BrokerAssumption
<1>1. CASE UNCHANGED bindings
  BY <1>1, KeptAll
<1>2. ASSUME NEW r \in Requests, Bind(r)
      PROVE  WellBound(bindings') /\ Kept(bindings, bindings')
  <2>1. reqs[r].token \in TokenPairs
    BY <1>2, AtHand DEF Bind
  <2>2. QED
    BY <1>1, <1>2, <2>1, ConsentKeeps DEF Bind
<1>3. ASSUME NEW r \in Requests, Rebind(r)
      PROVE  WellBound(bindings') /\ Kept(bindings, bindings')
  <2>1. reqs[r].token \in TokenPairs
    BY <1>3, AtHand DEF Rebind
  <2>2. QED
    BY <1>1, <1>3, <2>1, RefreshKeeps DEF Rebind
<1>4. ASSUME NEW t \in held, NEW v \in Tokens, Revoke(t, v)
      PROVE  WellBound(bindings') /\ Kept(bindings, bindings')
  BY <1>4, FenceKeeps DEF Revoke
<1>5. QED
  BY <1>1, <1>2, <1>3, <1>4, StepCases, ZenonT(90)
     DEF Start, Callback, Expire, Render, Redeem, Post, Approve, CloseTab, Exchange, Return,
         ProviderRefresh, PresentRefresh, Restart, vars

\* The pair of tokens an exchange returns.
LEMMA ExchangeGives ==
    ASSUME BrokerAssumption, TypeOK, NEW r \in Requests, Exchange(r)
    PROVE  /\ minted' \in 0 .. MaxTokens
           /\ reqs' \in [Requests -> RequestRecords]
           /\ \A g \in Requests : reqs'[g].at = "exchange" => g # r /\ reqs'[g] = reqs[g]
<1>t. /\ minted \in 0 .. MaxTokens /\ MaxTokens \in Nat /\ reqs \in [Requests -> RequestRecords]
      /\ reqs[r].tx \in Transactions
  BY AtHand DEF TypeOK, BrokerAssumption, Exchange
<1>1. ASSUME NEW q \in RequestRecords, Move(r, q), q.at # "exchange"
      PROVE  /\ reqs' \in [Requests -> RequestRecords]
             /\ \A g \in Requests : reqs'[g].at = "exchange" => g # r /\ reqs'[g] = reqs[g]
  BY <1>t, <1>1 DEF Move
<1>2. CASE Move(r, [at |-> "return", tx |-> reqs[r].tx]) /\ UNCHANGED minted
  <2> DEFINE q == [at |-> "return", tx |-> reqs[r].tx]
  <2>1. q \in RequestRecords /\ q.at # "exchange"
    BY <1>t DEF RequestRecords
  <2>2. QED
    BY <1>t, <1>1, <1>2, <2>1
<1>3. ASSUME NEW o \in Owners, NEW renewable \in BOOLEAN, minted + 2 <= MaxTokens,
             NEW access \in 1 .. (minted + 1),
             Move(r, [at |-> "bind", tx |-> reqs[r].tx, token |->
                        [access |-> access, owner |-> o, scopes |-> Scopes,
                         refresh |-> IF renewable THEN minted + 2 ELSE NoToken]])
      PROVE  /\ reqs' \in [Requests -> RequestRecords]
             /\ \A g \in Requests : reqs'[g].at = "exchange" => g # r /\ reqs'[g] = reqs[g]
  <2> DEFINE t == [access |-> access, owner |-> o, scopes |-> Scopes,
                   refresh |-> IF renewable THEN minted + 2 ELSE NoToken]
             q == [at |-> "bind", tx |-> reqs[r].tx, token |-> t]
  <2>1. access \in Tokens /\ minted + 2 \in Tokens
    BY <1>t, <1>3 DEF Tokens
  <2>2. t \in TokenPairs
    BY <2>1 DEF TokenPairs, NoToken
  <2> HIDE DEF t
  <2>3. q \in RequestRecords /\ q.at # "exchange"
    BY <1>t, <2>2 DEF RequestRecords
  <2>4. Move(r, q)
    BY <1>3 DEF t
  <2> HIDE DEF q
  <2>5. QED
    BY <1>1, <2>3, <2>4
<1>4. CASE ~(Move(r, [at |-> "return", tx |-> reqs[r].tx]) /\ UNCHANGED minted)
  <2>1. PICK o \in {p \in Owners : InstallationOf[p] = Installer[reqs[r].tx]},
             renewable \in BOOLEAN :
          LET known == {v \in 1 .. minted : IsBound(bindings, v)
                                            /\ AccountOf[bindings[v].owner] = AccountOf[o]}
          IN  /\ minted + 2 <= MaxTokens
              /\ minted' = minted + 2
              /\ \E access \in known \union {minted + 1} :
                    Move(r, [at |-> "bind", tx |-> reqs[r].tx, token |->
                        [access |-> access, owner |-> o, scopes |-> Scopes,
                         refresh |-> IF renewable THEN minted + 2 ELSE NoToken]])
    BY <1>4 DEF Exchange
  <2>2. PICK access \in {v \in 1 .. minted : IsBound(bindings, v)
                              /\ AccountOf[bindings[v].owner] = AccountOf[o]} \union {minted + 1} :
          Move(r, [at |-> "bind", tx |-> reqs[r].tx, token |->
                        [access |-> access, owner |-> o, scopes |-> Scopes,
                         refresh |-> IF renewable THEN minted + 2 ELSE NoToken]])
    BY <2>1
  <2>3. access \in 1 .. (minted + 1) /\ minted' \in 0 .. MaxTokens
    BY <1>t, <2>1
  <2>4. o \in Owners
    OBVIOUS
  <2>5. QED
    BY <1>3, <2>1, <2>2, <2>3, <2>4
<1>5. QED
  BY <1>2, <1>4

\* The pair of tokens a refresh returns.
LEMMA RefreshGives ==
    ASSUME BrokerAssumption, TypeOK, NEW r \in Requests, ProviderRefresh(r)
    PROVE  /\ minted' \in 0 .. MaxTokens
           /\ \E q \in RequestRecords : Move(r, q) /\ q.at # "exchange"
<1> DEFINE h == reqs[r].pair
<1>t. /\ minted \in 0 .. MaxTokens /\ MaxTokens \in Nat
      /\ h \in TokenPairs /\ reqs[r].expected \in Binding
  BY AtHand DEF TypeOK, BrokerAssumption, ProviderRefresh
<1>1. Idle \in RequestRecords /\ Idle.at # "exchange"
  BY DEF RequestRecords, Idle
<1>2. CASE Move(r, Idle) /\ UNCHANGED minted
  BY <1>t, <1>1, <1>2
<1>3. CASE ~(Move(r, Idle) /\ UNCHANGED minted)
  <2>1. minted + 2 <= MaxTokens /\ minted' = minted + 2
    BY <1>3 DEF ProviderRefresh
  <2>2. PICK granted \in SUBSET h.scopes, rotated \in BOOLEAN :
          Move(r, [at |-> "rebind", pair |-> h, expected |-> reqs[r].expected, token |->
                     [h EXCEPT !.access = minted + 1, !.scopes = granted,
                               !.refresh = IF rotated THEN minted + 2 ELSE @]])
    BY <1>3 DEF ProviderRefresh
  <2> DEFINE t == [h EXCEPT !.access = minted + 1, !.scopes = granted,
                            !.refresh = IF rotated THEN minted + 2 ELSE @]
             q == [at |-> "rebind", pair |-> h, expected |-> reqs[r].expected, token |-> t]
  <2>3. minted + 1 \in Tokens /\ minted + 2 \in Tokens /\ minted' \in 0 .. MaxTokens
    BY <1>t, <2>1 DEF Tokens
  <2>4. granted \in SUBSET Scopes
    BY <1>t DEF TokenPairs
  <2>5. t \in TokenPairs
    BY <1>t, <2>3, <2>4 DEF TokenPairs
  <2> HIDE DEF t, h
  <2>6. q \in RequestRecords /\ q.at # "exchange"
    BY <1>t, <2>5 DEF RequestRecords
  <2>7. Move(r, q)
    BY <2>2 DEF t, h
  <2>8. QED
    BY <2>3, <2>6, <2>7
<1>4. QED
  BY <1>2, <1>3

\* How the requests move: one goes on to what its step leads to, and only a redeem
\* leads to an exchange.
LEMMA RequestsMove ==
    ASSUME BrokerAssumption, IInv, [Next]_vars
    PROVE  /\ reqs' \in [Requests -> RequestRecords]
           /\ \A g \in Requests : reqs'[g].at = "exchange" =>
                 \/ reqs'[g] = reqs[g]
                 \/ \E t \in Transactions : Redeem(g, t) /\ reqs'[g].tx = t
           /\ \A g \in Requests : Exchange(g) => reqs'[g].at # "exchange"
<1>t. TypeOK /\ reqs \in [Requests -> RequestRecords]
  BY DEF IInv, TypeOK
<1>i. Idle \in RequestRecords /\ Idle.at # "exchange"
  BY DEF RequestRecords, Idle
<1> DEFINE Goal == /\ reqs' \in [Requests -> RequestRecords]
                   /\ \A g \in Requests : reqs'[g].at = "exchange" =>
                         \/ reqs'[g] = reqs[g]
                         \/ \E t \in Transactions : Redeem(g, t) /\ reqs'[g].tx = t
<1>m. ASSUME NEW r \in Requests, NEW q \in RequestRecords, Move(r, q), q.at # "exchange" PROVE Goal
  BY <1>t, <1>m DEF Move
<1>1. ASSUME UNCHANGED reqs PROVE Goal
  BY <1>1, <1>t
<1>2. ASSUME NEW t \in Transactions, NEW r \in Requests, Redeem(r, t) PROVE Goal
  <2> DEFINE q == [at |-> "exchange", tx |-> t]
  <2>1. q \in RequestRecords /\ q.tx = t
    BY DEF RequestRecords
  <2>2. reqs' = [reqs EXCEPT ![r] = q]
    BY <1>2 DEF Redeem, Move
  <2> HIDE DEF q
  <2>3. reqs' \in [Requests -> RequestRecords] /\ reqs'[r].tx = t
        /\ \A g \in Requests : g # r => reqs'[g] = reqs[g]
    BY <1>t, <2>1, <2>2
  <2>4. QED
    BY <1>2, <2>3
<1>3. ASSUME NEW r \in Requests, Exchange(r) PROVE Goal
  BY <1>3, <1>t, ExchangeGives
<1>4. ASSUME NEW r \in Requests, Bind(r) PROVE Goal
  <2> DEFINE q == [at |-> "return", tx |-> reqs[r].tx]
  <2>1. q \in RequestRecords /\ q.at # "exchange"
    BY <1>4, <1>t, AtHand DEF Bind, RequestRecords
  <2>2. Move(r, q)
    BY <1>4 DEF Bind
  <2> HIDE DEF q, Goal
  <2>3. QED
    BY <1>m, <2>1, <2>2
<1>5. ASSUME NEW r \in Requests, Return(r) \/ Rebind(r) PROVE Goal
  <2>1. Move(r, Idle)
    BY <1>5 DEF Return, Rebind
  <2> HIDE DEF Goal
  <2>2. QED
    BY <1>m, <1>i, <2>1
<1>6. ASSUME NEW r \in Requests, ProviderRefresh(r) PROVE Goal
  <2>1. PICK q \in RequestRecords : Move(r, q) /\ q.at # "exchange"
    BY <1>6, <1>t, RefreshGives
  <2> HIDE DEF Goal
  <2>2. QED
    BY <1>m, <2>1
<1>7. ASSUME NEW r \in Requests, NEW t \in held, PresentRefresh(r, t) PROVE Goal
  <2> DEFINE q == [at |-> "refreshing", pair |-> t, expected |-> bindings[t.refresh]]
  <2>1. t \in TokenPairs /\ bindings[t.refresh] \in Binding
    BY <1>7, <1>t, BoundTyped DEF PresentRefresh, Refreshable, TypeOK
  <2>2. q \in RequestRecords /\ q.at # "exchange"
    BY <2>1 DEF RequestRecords
  <2>3. Move(r, q)
    BY <1>7, ZenonT(90) DEF PresentRefresh
  <2> HIDE DEF q, Goal
  <2>4. QED
    BY <1>m, <2>2, <2>3
<1>8. ASSUME Restart PROVE Goal
  BY <1>8, <1>i DEF Restart
<1>9. Goal
  <2>1. \/ UNCHANGED reqs
        \/ \E t \in Transactions, r \in Requests : Redeem(r, t)
        \/ \E r \in Requests : \/ Exchange(r) \/ Bind(r) \/ Return(r)
                               \/ ProviderRefresh(r) \/ Rebind(r)
        \/ \E r \in Requests, t \in held : PresentRefresh(r, t)
        \/ Restart
    BY StepCases DEF Start, Callback, Expire, Render, Post, Approve, CloseTab, Revoke, vars
  <2> HIDE DEF Goal
  <2>2. QED
    BY <1>1, <1>2, <1>3, <1>4, <1>5, <1>6, <1>7, <1>8, <2>1, ZenonT(90)
<1>10. \A g \in Requests : Exchange(g) => reqs'[g].at # "exchange"
  BY <1>t, ExchangeGives
<1>11. QED
  BY <1>9, <1>10

\* How the transactions move: a redeem takes one from ready to consumed, which is
\* final, and only the end of a POST approves one.
LEMMA TransactionsMove ==
    ASSUME BrokerAssumption, IInv, [Next]_vars
    PROVE  /\ txs' \in [Transactions -> Transaction]
           /\ \A t \in Transactions : txs[t].status = "consumed" => txs'[t].status = "consumed"
           /\ \A t \in Transactions : txs'[t].status = "consumed" /\ txs[t].status # "consumed" =>
                 \E r \in Requests : Redeem(r, t)
           /\ \A t \in Transactions : txs'[t].approved /\ ~txs[t].approved =>
                 \E b \in Tabs : Approve(b) /\ tabs[b].tx = t
<1>t. TypeOK /\ txs \in [Transactions -> Transaction]
  BY DEF IInv, TypeOK
<1> DEFINE Goal ==
             /\ txs' \in [Transactions -> Transaction]
             /\ \A t \in Transactions : txs[t].status = "consumed" => txs'[t].status = "consumed"
             /\ \A t \in Transactions : txs'[t].status = "consumed" /\ txs[t].status # "consumed" =>
                   \E r \in Requests : Redeem(r, t)
             /\ \A t \in Transactions : txs'[t].approved /\ ~txs[t].approved =>
                   \E b \in Tabs : Approve(b) /\ tabs[b].tx = t
<1>m. ASSUME NEW t \in Transactions, NEW x \in Transaction, Update(t, x),
             x.status = txs[t].status \/ (txs[t].status # "consumed" /\ x.status # "consumed"),
             x.approved = txs[t].approved \/ ~x.approved
      PROVE  Goal
  BY <1>t, <1>m DEF Update
<1>1. ASSUME UNCHANGED txs PROVE Goal
  BY <1>1, <1>t
<1>2. ASSUME NEW t \in Transactions, Start(t) PROVE Goal
  <2> DEFINE x == [Fresh EXCEPT !.status = "pending"]
  <2>1. x \in Transaction /\ x.status = "pending" /\ ~x.approved
    BY DEF Fresh, Transaction, NoForm
  <2>2. Update(t, x) /\ txs[t].status = "none"
    BY <1>2, FreshTyped DEF Start
  <2> HIDE DEF x, Goal
  <2>3. QED
    BY <1>m, <2>1, <2>2
<1>3. ASSUME NEW t \in Transactions, Callback(t) PROVE Goal
  <2>1. PICK s \in {"ready", "cancelled"} : Update(t, [txs[t] EXCEPT !.status = s])
    BY <1>3 DEF Callback
  <2> DEFINE x == [txs[t] EXCEPT !.status = s]
  <2>2. x \in Transaction /\ x.status # "consumed" /\ x.approved = txs[t].approved
    BY <1>t DEF Transaction
  <2>3. txs[t].status # "consumed" /\ Update(t, x)
    BY <1>3, <2>1 DEF Callback, Open
  <2> HIDE DEF x, Goal
  <2>4. QED
    BY <1>m, <2>2, <2>3
<1>4. ASSUME NEW t \in Transactions, Expire(t) PROVE Goal
  <2> DEFINE x == [txs[t] EXCEPT !.expired = TRUE]
  <2>1. x \in Transaction /\ x.status = txs[t].status /\ x.approved = txs[t].approved
    BY <1>t, ZenonT(90) DEF Transaction
  <2>2. Update(t, x)
    BY <1>4 DEF Expire
  <2> HIDE DEF x, Goal
  <2>3. QED
    BY <1>m, <2>1, <2>2
<1>5. ASSUME NEW t \in Transactions, NEW b \in Tabs, Render(b, t), ~UNCHANGED txs PROVE Goal
  <2> DEFINE x == [txs[t] EXCEPT !.csrf = forms + 1]
  <2>1. forms + 1 \in Forms /\ Update(t, x)
    BY <1>t, <1>5 DEF Render, Forms, TypeOK, BrokerAssumption
  <2>2. x \in Transaction /\ x.status = txs[t].status /\ x.approved = txs[t].approved
    BY <1>t, <2>1 DEF Transaction
  <2> HIDE DEF x, Goal
  <2>3. QED
    BY <1>m, <2>1, <2>2
<1>6. ASSUME NEW t \in Transactions, NEW r \in Requests, Redeem(r, t) PROVE Goal
  <2> DEFINE x == [txs[t] EXCEPT !.status = "consumed", !.busy = TRUE]
  <2>1. x \in Transaction /\ x.status = "consumed" /\ x.approved = txs[t].approved
    BY <1>t, ZenonT(90) DEF Transaction
  <2>2. Update(t, x)
    BY <1>6 DEF Redeem
  <2> HIDE DEF x
  <2>3. QED
    BY <1>6, <1>t, <2>1, <2>2 DEF Update
<1>7. ASSUME NEW b \in Tabs, Post(b) PROVE Goal
  <2> DEFINE t == tabs[b].tx
             x == [txs[t] EXCEPT !.csrf = NoForm]
  <2>1. t \in Transactions /\ Update(t, x)
    BY <1>7, <1>t, TabTyped DEF Post
  <2>2. x \in Transaction /\ x.status = txs[t].status /\ x.approved = txs[t].approved
    BY <1>t, <2>1 DEF Transaction
  <2> HIDE DEF x, t, Goal
  <2>3. QED
    BY <1>m, <2>1, <2>2
<1>8. ASSUME NEW b \in Tabs, Approve(b), ~UNCHANGED txs PROVE Goal
  <2> DEFINE t == tabs[b].tx
             x == [txs[t] EXCEPT !.approved = TRUE, !.linked = TRUE]
  <2>1. t \in Transactions /\ Update(t, x)
    BY <1>8, <1>t, TabTyped DEF Approve
  <2>2. x \in Transaction /\ x.status = txs[t].status
    BY <1>t, <2>1, ZenonT(90) DEF Transaction
  <2>3. \A s \in Transactions \ {t} : txs'[s] = txs[s]
    BY <1>t, <2>1 DEF Update
  <2>4. txs'[t] = x /\ txs' \in [Transactions -> Transaction]
    BY <1>t, <2>1, <2>2 DEF Update
  <2> HIDE DEF x
  <2>5. QED
    BY <1>8, <2>1, <2>2, <2>3, <2>4
<1>9. ASSUME NEW r \in Requests, Return(r) PROVE Goal
  <2> DEFINE t == reqs[r].tx
             x == [txs[t] EXCEPT !.busy = FALSE]
  <2>1. t \in Transactions /\ Update(t, x)
    BY <1>9, <1>t, AtHand DEF Return
  <2>2. x \in Transaction /\ x.status = txs[t].status /\ x.approved = txs[t].approved
    BY <1>t, <2>1, ZenonT(90) DEF Transaction
  <2> HIDE DEF x, t, Goal
  <2>3. QED
    BY <1>m, <2>1, <2>2
<1>10. ASSUME Restart PROVE Goal
  <2> DEFINE x(t) == IF txs[t] = Fresh THEN Fresh ELSE [txs[t] EXCEPT !.expired = TRUE, !.busy = FALSE]
  <2>1. ASSUME NEW t \in Transactions
        PROVE  x(t) \in Transaction /\ x(t).status = txs[t].status /\ x(t).approved = txs[t].approved
    <3> DEFINE y == [txs[t] EXCEPT !.expired = TRUE, !.busy = FALSE]
    <3>1. y \in Transaction
      BY <1>t, TransactionTyped, ZenonT(90)
    <3>2. y.status = txs[t].status /\ y.approved = txs[t].approved
      BY <1>t DEF Transaction
    <3> HIDE DEF y
    <3>3. x(t) = IF txs[t] = Fresh THEN Fresh ELSE y
      BY ZenonT(90) DEF y
    <3> HIDE DEF x
    <3>4. QED
      BY <3>1, <3>2, <3>3, FreshTyped
  <2>2. txs' = [t \in Transactions |-> x(t)]
    BY <1>10 DEF Restart
  <2> HIDE DEF x
  <2>3. QED
    BY <2>1, <2>2
<1>11. QED
  <2>1. \/ UNCHANGED txs
        \/ \E t \in Transactions : Start(t) \/ Callback(t) \/ Expire(t)
        \/ \E t \in Transactions, b \in Tabs : Render(b, t)
        \/ \E t \in Transactions, r \in Requests : Redeem(r, t)
        \/ \E b \in Tabs : Post(b) \/ Approve(b)
        \/ \E r \in Requests : Return(r)
        \/ Restart
    BY StepCases DEF CloseTab, Exchange, Bind, ProviderRefresh, Rebind, PresentRefresh, Revoke, vars
  <2>2. Goal
    <3> HIDE DEF Goal
    <3>1. QED
      BY <1>1, <1>2, <1>3, <1>4, <1>5, <1>6, <1>7, <1>8, <1>9, <1>10, <2>1
  <2>3. QED
    BY <2>2

\* How the tabs move: one shows what it is left with; only a POST is accepted.
LEMMA TabsMove ==
    ASSUME BrokerAssumption, TypeOK, [Next]_vars
    PROVE  /\ forms' \in 0 .. MaxForms
           /\ tabs' \in [Tabs -> {Closed} \union
                              [at : {"form", "accepted"}, tx : Transactions, form : Forms]]
           /\ \A b \in Tabs : tabs'[b].at = "accepted" /\ tabs[b].at # "accepted" =>
                 Post(b) /\ txs[tabs[b].tx].csrf = tabs[b].form
<1> DEFINE Shown == {Closed} \union [at : {"form", "accepted"}, tx : Transactions, form : Forms]
<1>t. tabs \in [Tabs -> Shown] /\ forms \in 0 .. MaxForms /\ MaxForms \in Nat
  BY DEF TypeOK, BrokerAssumption
<1> DEFINE Goal == /\ forms' \in 0 .. MaxForms
                   /\ tabs' \in [Tabs -> Shown]
                   /\ \A b \in Tabs : tabs'[b].at = "accepted" /\ tabs[b].at # "accepted" =>
                         Post(b) /\ txs[tabs[b].tx].csrf = tabs[b].form
<1>c. Closed \in Shown /\ Closed.at # "accepted"
  BY DEF Closed
<1>m. ASSUME NEW b \in Tabs, NEW x \in Shown, Show(b, x), x.at # "accepted", forms' \in 0 .. MaxForms
      PROVE  Goal
  BY <1>t, <1>m DEF Show
<1>1. ASSUME UNCHANGED <<tabs, forms>> PROVE Goal
  BY <1>1, <1>t
<1>2. ASSUME NEW t \in Transactions, NEW b \in Tabs, Render(b, t), ~UNCHANGED <<tabs, forms>> PROVE Goal
  <2> DEFINE x == [at |-> "form", tx |-> t, form |-> forms + 1]
  <2>1. Show(b, x) /\ forms + 1 \in Forms /\ forms' \in 0 .. MaxForms
    BY <1>t, <1>2 DEF Render, Forms
  <2>2. x \in Shown /\ x.at # "accepted"
    BY <2>1
  <2> HIDE DEF x, Goal, Shown
  <2>3. QED
    BY <1>m, <2>1, <2>2
<1>3. ASSUME NEW b \in Tabs, Post(b) PROVE Goal
  <2> DEFINE x == [tabs[b] EXCEPT !.at = "accepted"]
  <2>1. UNCHANGED forms /\ IF txs[tabs[b].tx].csrf = tabs[b].form THEN Show(b, x) ELSE Show(b, Closed)
    BY <1>3 DEF Post
  <2>2. x \in Shown
    BY <1>3, TabTyped DEF Post
  <2>3. tabs' \in [Tabs -> Shown] /\ \A a \in Tabs : a # b => tabs'[a] = tabs[a]
    BY <1>t, <1>c, <2>1, <2>2, SMTT(60) DEF Show
  <2>4. txs[tabs[b].tx].csrf # tabs[b].form => tabs'[b].at # "accepted"
    BY <1>t, <1>c, <2>1 DEF Show
  <2> HIDE DEF x, Shown
  <2>5. QED
    BY <1>t, <1>3, <2>1, <2>3, <2>4
<1>4. ASSUME NEW b \in Tabs, Approve(b) \/ CloseTab(b) PROVE Goal
  <2>1. Show(b, Closed) /\ UNCHANGED forms
    BY <1>4 DEF Approve, CloseTab
  <2> HIDE DEF Goal, Shown
  <2>2. QED
    BY <1>m, <1>c, <1>t, <2>1
<1>5. ASSUME Restart PROVE Goal
  BY <1>5, <1>t, <1>c DEF Restart
<1>6. Goal
  <2>1. \/ UNCHANGED <<tabs, forms>>
        \/ \E t \in Transactions, b \in Tabs : Render(b, t)
        \/ \E b \in Tabs : Post(b) \/ Approve(b) \/ CloseTab(b)
        \/ Restart
    BY StepCases, ZenonT(90) DEF Start, Callback, Expire, Redeem, Exchange, Bind, Return, ProviderRefresh, Rebind,
                     PresentRefresh, Revoke, vars
  <2> HIDE DEF Goal
  <2>2. QED
    BY <1>1, <1>2, <1>3, <1>4, <1>5, <2>1, ZenonT(90)
<1>7. QED
  BY <1>6

\* What is handed out is pairs of tokens, and the provider mints within the bound.
LEMMA TokensMove ==
    ASSUME BrokerAssumption, TypeOK, [Next]_vars
    PROVE  held' \subseteq TokenPairs /\ minted' \in 0 .. MaxTokens
<1>t. held \subseteq TokenPairs /\ minted \in 0 .. MaxTokens
  BY DEF TypeOK
<1>1. ASSUME NEW r \in Requests, Bind(r) \/ Rebind(r) PROVE held' \subseteq TokenPairs
  <2>1. reqs[r].token \in TokenPairs
    BY <1>1, AtHand DEF Bind, Rebind
  <2>2. held' \subseteq held \union {reqs[r].token}
    BY <1>1 DEF Bind, Rebind
  <2>3. QED
    BY <1>t, <2>1, <2>2
<1>2. ASSUME NEW r \in Requests, Exchange(r) \/ ProviderRefresh(r) PROVE minted' \in 0 .. MaxTokens
  BY <1>2, ExchangeGives, RefreshGives
<1>3. held' \subseteq TokenPairs
  <2>1. UNCHANGED held \/ \E r \in Requests : Bind(r) \/ Rebind(r)
    BY StepCases, ZenonT(90) DEF Start, Callback, Expire, Render, Redeem, Post, Approve, CloseTab, Exchange, Return,
                     ProviderRefresh, PresentRefresh, Revoke, Restart, vars
  <2>2. QED
    BY <1>t, <1>1, <2>1
<1>4. minted' \in 0 .. MaxTokens
  <2>1. UNCHANGED minted \/ \E r \in Requests : Exchange(r) \/ ProviderRefresh(r)
    BY StepCases, ZenonT(90) DEF Start, Callback, Expire, Render, Redeem, Post, Approve, CloseTab, Bind, Return,
                     Rebind, PresentRefresh, Revoke, Restart, vars, provider
  <2>2. QED
    BY <1>t, <1>2, <2>1
<1>5. QED
  BY <1>3, <1>4

\* A code is presented by the one request that redeemed its transaction.
LEMMA CodesMove ==
    ASSUME BrokerAssumption, IInv, [Next]_vars
    PROVE  exchanged' \in [Transactions -> Nat] /\ CodesSpentOnce'
<1>t. TypeOK /\ CodesSpentOnce /\ exchanged \in [Transactions -> Nat]
  BY DEF IInv, TypeOK
<1>1. \/ UNCHANGED exchanged
      \/ \E r \in Requests : Exchange(r)
  BY StepCases, ZenonT(90) DEF Start, Callback, Expire, Render, Redeem, Post, Approve, CloseTab, Bind, Return,
                   ProviderRefresh, Rebind, PresentRefresh, Revoke, Restart, vars, provider
<1>2. CASE \E r \in Requests : Exchange(r)
  <2>1. PICK r \in Requests : Exchange(r)
    BY <1>2
  <2> DEFINE t == reqs[r].tx
  <2>2. /\ t \in Transactions /\ reqs[r].at = "exchange"
        /\ exchanged' = [exchanged EXCEPT ![t] = @ + 1] /\ txs' = txs
        /\ txs[t].status = "consumed" /\ exchanged[t] = 0
    BY <1>t, <2>1, AtHand DEF Exchange, CodesSpentOnce
  <2>3. exchanged' \in [Transactions -> Nat] /\ exchanged'[t] = 1
        /\ \A s \in Transactions : s # t => exchanged'[s] = exchanged[s]
    BY <1>t, <2>2
  <2>4. \A g \in Requests : reqs'[g].at = "exchange" => g # r /\ reqs'[g] = reqs[g]
    BY <1>t, <2>1, ExchangeGives
  <2>5. \A g \in Requests : reqs[g].at = "exchange" => reqs[g].tx \in Transactions
    BY <1>t, AtHand
  <2>6. \A g \in Requests : reqs'[g].at = "exchange" => reqs[g].tx # t /\ reqs'[g] = reqs[g]
    BY <1>t, <2>2, <2>4 DEF CodesSpentOnce
  <2> HIDE DEF t
  <2>7. \A s \in Transactions : exchanged'[s] <= 1 /\ (txs'[s].status # "consumed" => exchanged'[s] = 0)
    BY <1>t, <2>2, <2>3 DEF CodesSpentOnce
  <2>8. \A g \in Requests : reqs'[g].at = "exchange" =>
           txs'[reqs'[g].tx].status = "consumed" /\ exchanged'[reqs'[g].tx] = 0
    BY <1>t, <2>2, <2>3, <2>5, <2>6 DEF CodesSpentOnce
  <2>9. \A g, h \in Requests :
           reqs'[g].at = "exchange" /\ reqs'[h].at = "exchange" /\ reqs'[g].tx = reqs'[h].tx => g = h
    BY <1>t, <2>6 DEF CodesSpentOnce
  <2>10. QED
    BY <2>3, <2>7, <2>8, <2>9 DEF CodesSpentOnce
<1>3. CASE UNCHANGED exchanged
  <2>1. \A t \in Transactions : txs[t].status = "consumed" => txs'[t].status = "consumed"
    BY TransactionsMove
  <2>2. \A t \in Transactions : exchanged'[t] <= 1 /\ (txs'[t].status # "consumed" => exchanged'[t] = 0)
    BY <1>t, <1>3, <2>1 DEF CodesSpentOnce
  <2>3. ASSUME NEW r \in Requests, NEW t \in Transactions, Redeem(r, t)
        PROVE  /\ txs[t].status # "consumed" /\ txs'[t].status = "consumed" /\ exchanged[t] = 0
               /\ \A g \in Requests : g # r => reqs'[g] = reqs[g]
    BY <1>t, <2>3 DEF Redeem, Update, Move, TypeOK, CodesSpentOnce, Transaction
  <2>4. \A g \in Requests : reqs'[g].at = "exchange" =>
           \/ reqs'[g] = reqs[g] /\ reqs[g].tx \in Transactions
           \/ \E t \in Transactions : Redeem(g, t) /\ reqs'[g].tx = t
    BY <1>t, RequestsMove, AtHand
  <2>5. ASSUME NEW g \in Requests, reqs'[g].at = "exchange"
        PROVE  txs'[reqs'[g].tx].status = "consumed" /\ exchanged'[reqs'[g].tx] = 0
    BY <1>t, <1>3, <2>1, <2>3, <2>4, <2>5 DEF CodesSpentOnce
  <2>6. ASSUME NEW g \in Requests, NEW h \in Requests, reqs'[g].at = "exchange", reqs'[h].at = "exchange",
               reqs'[g].tx = reqs'[h].tx, g # h
        PROVE  FALSE
    <3>1. CASE reqs'[g] = reqs[g] /\ reqs'[h] = reqs[h]
      BY <1>t, <2>6, <3>1 DEF CodesSpentOnce
    <3>2. ASSUME NEW a \in Requests, NEW b \in Requests, a # b, NEW t \in Transactions, Redeem(a, t),
                 reqs'[b].tx = t, reqs'[b].at = "exchange"
          PROVE  FALSE
      <4>1. reqs'[b] = reqs[b] /\ txs[t].status # "consumed"
        BY <2>3, <3>2
      <4>2. QED
        BY <1>t, <3>2, <4>1 DEF CodesSpentOnce
    <3>3. QED
      BY <2>4, <2>6, <3>1, <3>2
  <2>7. QED
    BY <1>t, <1>3, <2>2, <2>5, <2>6 DEF CodesSpentOnce
<1>4. QED
  BY <1>1, <1>2, <1>3

-----------------------------------------------------------------------------
(* The invariant *)

\* The broker starts with nothing disclosed, bound or handed out.
LEMMA InitHolds == ASSUME BrokerAssumption PROVE Init => IInv
<1> SUFFICES ASSUME Init PROVE IInv
  OBVIOUS
<1>1. TypeOK
  <2>1. bindings \in Bindings
    BY NothingBound DEF Init, BrokerAssumption, WellBound
  <2>2. reqs \in [Requests -> RequestRecords]
    BY DEF Init, RequestRecords
  <2>3. QED
    BY <2>1, <2>2, FreshTyped DEF Init, TypeOK, BrokerAssumption
<1>2. WellBound(bindings)
  BY NothingBound DEF Init, BrokerAssumption
<1>3. CodesSpentOnce
  BY DEF Init, CodesSpentOnce, Idle
<1>4. QED
  BY <1>1, <1>2, <1>3 DEF IInv

\* Every step keeps the invariant.
LEMMA StepHolds == ASSUME BrokerAssumption PROVE IInv /\ [Next]_vars => IInv'
<1> SUFFICES ASSUME IInv, [Next]_vars PROVE IInv'
  OBVIOUS
<1>1. WellBound(bindings')
  BY BindingsKept DEF IInv
<1>2. TypeOK'
  BY <1>1, TransactionsMove, TabsMove, RequestsMove, TokensMove, CodesMove DEF IInv, TypeOK, WellBound
<1>3. CodesSpentOnce'
  BY CodesMove
<1>4. QED
  BY <1>1, <1>2, <1>3 DEF IInv

LEMMA Invariance == BrokerAssumption => (Spec => []IInv)
<1> SUFFICES ASSUME BrokerAssumption PROVE Spec => []IInv
  OBVIOUS
<1>1. QED
  BY InitHolds, StepHolds, PTL DEF Spec

\* What the invariant says of every state.
LEMMA InvariantMeans ==
    ASSUME BrokerAssumption PROVE IInv => TypeOK /\ CodeExchangedOnce /\ GrantRevokedWhole
  BY DEF IInv, CodesSpentOnce, CodeExchangedOnce, WellBound, GrantRevokedWhole

-----------------------------------------------------------------------------
(* The theorems *)

\* The variables keep their types (Server, server.go).
THEOREM TypeCorrect == BrokerAssumption => (Spec => []TypeOK)
<1> SUFFICES ASSUME BrokerAssumption PROVE Spec => []TypeOK
  OBVIOUS
<1>1. QED
  BY Invariance, InvariantMeans, PTL

\* A code is presented to the provider once at most, however many requests redeem
\* its transaction at once or again (redeem).
THEOREM CodesExchangedOnce == BrokerAssumption => (Spec => []CodeExchangedOnce)
<1> SUFFICES ASSUME BrokerAssumption PROVE Spec => []CodeExchangedOnce
  OBVIOUS
<1>1. QED
  BY Invariance, InvariantMeans, PTL

\* A revoked grant has no token left that works, whatever consents and refreshes
\* were at the provider when it was revoked (bindToken, bindRefreshedToken, revoke).
THEOREM GrantsRevokedWhole == BrokerAssumption => (Spec => []GrantRevokedWhole)
<1> SUFFICES ASSUME BrokerAssumption PROVE Spec => []GrantRevokedWhole
  OBVIOUS
<1>1. QED
  BY Invariance, InvariantMeans, PTL

\* No step takes a tombstone away, or a token from whom it was first bound for.
LEMMA TokensStay ==
    ASSUME BrokerAssumption PROVE IInv /\ [Next]_vars => StaysRevoked /\ StaysOwned
<1> SUFFICES ASSUME IInv, [Next]_vars PROVE StaysRevoked /\ StaysOwned
  OBVIOUS
<1>1. Kept(bindings, bindings')
  BY BindingsKept DEF IInv
<1>2. QED
  BY <1>1 DEF Kept, SameGrant, StaysRevoked, StaysOwned

\* A revocation is final: a tombstone stays, whatever is at the provider.
THEOREM RevocationsFinal == BrokerAssumption => (Spec => RevocationIsFinal)
<1> SUFFICES ASSUME BrokerAssumption PROVE Spec => RevocationIsFinal
  OBVIOUS
<1>1. IInv /\ [Next]_vars => [StaysRevoked]_vars
  BY TokensStay
<1>2. QED
  BY <1>1, Invariance, PTL DEF Spec, RevocationIsFinal

\* A token stays with the installation it was given to first.
THEOREM OwnersKeepTokens == BrokerAssumption => (Spec => OwnerKeepsToken)
<1> SUFFICES ASSUME BrokerAssumption PROVE Spec => OwnerKeepsToken
  OBVIOUS
<1>1. IInv /\ [Next]_vars => [StaysOwned]_vars
  BY TokensStay
<1>2. QED
  BY <1>1, Invariance, PTL DEF Spec, OwnerKeepsToken

\* A POST is accepted for the form disclosed last, which it spends, and nothing but
\* an accepted POST approves.
LEMMA ConsentsAccepted ==
    ASSUME BrokerAssumption PROVE IInv /\ [Next]_vars => AcceptsLastForm /\ ApprovesByPost
<1> SUFFICES ASSUME IInv, [Next]_vars PROVE AcceptsLastForm /\ ApprovesByPost
  OBVIOUS
<1>1. AcceptsLastForm
  <2> SUFFICES ASSUME NEW b \in Tabs, tabs'[b].at = "accepted", tabs[b].at # "accepted"
               PROVE  txs[tabs[b].tx].csrf = tabs[b].form /\ txs'[tabs[b].tx].csrf = NoForm
    BY DEF AcceptsLastForm
  <2>1. Post(b) /\ txs[tabs[b].tx].csrf = tabs[b].form
    BY TabsMove DEF IInv
  <2>2. tabs[b].tx \in Transactions /\ txs \in [Transactions -> Transaction]
    BY <2>1, TabTyped DEF Post, IInv, TypeOK
  <2>3. txs'[tabs[b].tx].csrf = NoForm
    BY <2>1, <2>2, ZenonT(90) DEF Post, Update, Transaction
  <2>4. QED
    BY <2>1, <2>3
<1>2. ApprovesByPost
  BY TransactionsMove DEF ApprovesByPost, Approve
<1>3. QED
  BY <1>1, <1>2

\* Reopening the page voids the form of another tab, and a spent one is not rearmed
\* (authorize).
THEOREM LastFormsAccepted == BrokerAssumption => (Spec => ApprovedByLastForm)
<1> SUFFICES ASSUME BrokerAssumption PROVE Spec => ApprovedByLastForm
  OBVIOUS
<1>1. IInv /\ [Next]_vars => [AcceptsLastForm]_vars
  BY ConsentsAccepted
<1>2. QED
  BY <1>1, Invariance, PTL DEF Spec, ApprovedByLastForm

\* "GET never approves consent" (authorize).
THEOREM PostsApprove == BrokerAssumption => (Spec => ApprovedByPost)
<1> SUFFICES ASSUME BrokerAssumption PROVE Spec => ApprovedByPost
  OBVIOUS
<1>1. IInv /\ [Next]_vars => [ApprovesByPost]_vars
  BY ConsentsAccepted
<1>2. QED
  BY <1>1, Invariance, PTL DEF Spec, ApprovedByPost
=============================================================================

----------------------- MODULE CentralExecutionProofs -----------------------
(***************************************************************************)
(* Proofs about CentralExecution, for every set of requests, connections,  *)
(* operations and identifiers.  Everything rests on the gate: what the     *)
(* request inside has read stays true until it leaves, because the steps   *)
(* that could change it take the gate first.  The broker's bindings are    *)
(* outside the gate; they only grow and are only ever revoked.             *)
(***************************************************************************)
EXTENDS CentralExecution, TLAPS

-----------------------------------------------------------------------------
(* The table of token bindings.  BrokerProofs has the same facts of its own    *)
(* table, with the numbers of tokens there.                                    *)

\* A binding is not the mark of an unbound token, whose grant is no token.
LEMMA BindingBound ==
    ASSUME MaxTokens \in Nat PROVE NoToken \notin Tokens /\ Unbound \notin Binding
<1>1. NoToken \notin Tokens
  BY DEF NoToken, Tokens
<1>2. \A b \in Binding : b.grant # Unbound.grant
  BY <1>1 DEF Binding, Unbound
<1>3. QED
  BY <1>1, <1>2

\* What is bound is a binding.
LEMMA BoundTyped ==
    ASSUME NEW bs \in Bindings, NEW v, IsBound(bs, v) PROVE v \in Tokens /\ bs[v] \in Binding
  BY DEF IsBound, Bindings

\* The values of a pair are tokens, its access token among them.
LEMMA ValuesOfPair ==
    ASSUME MaxTokens \in Nat, NEW t \in TokenPairs
    PROVE  Values(t) \subseteq Tokens /\ t.access \in Values(t) /\ t.access \in Tokens
  BY BindingBound DEF Values, TokenPairs

\* Bindings are kept by what keeps them all.
LEMMA KeptAll == \A bs, new : bs = new => Kept(bs, new)
  BY DEF Kept, SameGrant

\* No tokens are bound at first.
LEMMA NothingBound == ASSUME MaxTokens \in Nat PROVE WellBound(NoBindings)
<1>1. \A v : ~IsBound(NoBindings, v)
  BY DEF IsBound, NoBindings
<1>2. NoBindings \in Bindings
  BY DEF NoBindings, Bindings
<1>3. QED
  BY <1>1, <1>2 DEF WellBound, GrantsNamed, RevokedWhole

\* The binding the tokens of a pair get: that of the grant they met, or b's own.
\* No token of that grant is revoked.
LEMMA GrantOfPair ==
    ASSUME MaxTokens \in Nat, NEW bs, WellBound(bs), NEW b \in Binding, NEW t \in TokenPairs,
           NEW fresh \in BOOLEAN, MayBind(bs, b, t, fresh), OpenGrant(bs, b, t)
    PROVE  \E n \in Binding :
              /\ Bound(bs, b, t) = [v \in Tokens |-> IF v \in Values(t) THEN n ELSE bs[v]]
              /\ n.owner = b.owner /\ n.scopes = b.scopes /\ n.revoked = b.revoked
              /\ n.grant = t.access \/ (IsBound(bs, n.grant) /\ SameGrant(bs[n.grant], n))
              /\ \A v \in Values(t) : IsBound(bs, v) => SameGrant(bs[v], n)
              /\ \A v \in Tokens : IsBound(bs, v) /\ SameGrant(bs[v], n) => ~bs[v].revoked
<1>t. bs \in Bindings /\ Values(t) \subseteq Tokens /\ t.access \in Values(t) /\ t.access \in Tokens
  BY ValuesOfPair DEF WellBound
<1>1. CASE Met(bs, t) = {}
  <2>1. Bound(bs, b, t) = [v \in Tokens |-> IF v \in Values(t) THEN b ELSE bs[v]]
    <3>1. [b EXCEPT !.grant = b.grant] = b
      BY DEF Binding
    <3>2. QED
      BY <1>1, <3>1 DEF Bound
  <2>2. \A v \in Values(t) : ~IsBound(bs, v)
    BY <1>1 DEF Met
  <2>3. ASSUME NEW v \in Tokens, IsBound(bs, v), SameGrant(bs[v], b) PROVE ~bs[v].revoked
    <3>1. b.grant # t.access
      BY <1>t, <2>2, <2>3 DEF WellBound, GrantsNamed, SameGrant
    <3>2. IsBound(bs, b.grant) /\ SameGrant(bs[b.grant], b) /\ ~bs[b.grant].revoked
      BY <3>1 DEF OpenGrant
    <3>3. b.grant \in Tokens /\ SameGrant(bs[v], bs[b.grant])
      BY <2>3, <3>2 DEF IsBound, SameGrant
    <3>4. bs[v] \in Binding /\ bs[b.grant] \in Binding
      BY <1>t, <2>3, <3>2, BoundTyped
    <3>5. QED
      BY <2>3, <3>2, <3>3, <3>4 DEF WellBound, RevokedWhole
  <2>4. QED
    BY <2>1, <2>2, <2>3 DEF OpenGrant
<1>2. CASE Met(bs, t) # {}
  <2> DEFINE o == CHOOSE old \in Met(bs, t) : TRUE
             n == [b EXCEPT !.grant = o.grant]
  <2>1. o \in Met(bs, t)
    BY <1>2
  <2>2. PICK w \in Values(t) : IsBound(bs, w) /\ o = bs[w]
    BY <2>1 DEF Met
  <2>3. /\ ~o.revoked /\ o.owner = b.owner
        /\ \A old \in Met(bs, t) : SameGrant(old, o)
    BY <2>1 DEF MayBind
  <2>4. Bound(bs, b, t) = [v \in Tokens |-> IF v \in Values(t) THEN n ELSE bs[v]]
    BY <1>2 DEF Bound
  <2> HIDE DEF o
  <2>5. o \in Binding /\ w \in Tokens
    BY <1>t, <2>2, BoundTyped
  <2>6. /\ n \in Binding
        /\ n.owner = b.owner /\ n.scopes = b.scopes /\ n.revoked = b.revoked /\ n.grant = o.grant
    BY <2>5 DEF Binding
  <2> HIDE DEF n
  <2>7. SameGrant(o, n)
    BY <2>3, <2>6 DEF SameGrant
  <2>8. IsBound(bs, n.grant) /\ SameGrant(bs[n.grant], n)
    BY <2>2, <2>5, <2>6, <2>7 DEF WellBound, GrantsNamed, SameGrant
  <2>9. \A v \in Values(t) : IsBound(bs, v) => SameGrant(bs[v], n)
    BY <2>3, <2>7 DEF Met, SameGrant
  <2>10. ASSUME NEW v \in Tokens, IsBound(bs, v), SameGrant(bs[v], n) PROVE ~bs[v].revoked
    <3>1. SameGrant(bs[v], bs[w])
      BY <2>2, <2>7, <2>10 DEF SameGrant
    <3>2. bs[v].revoked = bs[w].revoked
      BY <2>2, <2>5, <2>10, <3>1 DEF WellBound, RevokedWhole
    <3>3. QED
      BY <2>2, <2>3, <3>2
  <2>11. QED
    BY <2>4, <2>6, <2>8, <2>9, <2>10
<1>3. QED
  BY <1>1, <1>2

\* Binding a pair keeps every token under its grant, lets no token join a revoked
\* one and binds both tokens of the pair (bindTokenInState).
LEMMA BindKeeps ==
    ASSUME MaxTokens \in Nat, NEW bs, WellBound(bs), NEW b \in Binding, NEW t \in TokenPairs,
           NEW fresh \in BOOLEAN, MayBind(bs, b, t, fresh), OpenGrant(bs, b, t), ~b.revoked
    PROVE  WellBound(Bound(bs, b, t)) /\ Kept(bs, Bound(bs, b, t))
<1> DEFINE new == Bound(bs, b, t)
<1>t. bs \in Bindings /\ Values(t) \subseteq Tokens /\ t.access \in Values(t) /\ t.access \in Tokens
  BY ValuesOfPair DEF WellBound
<1>1. PICK n \in Binding :
              /\ new = [v \in Tokens |-> IF v \in Values(t) THEN n ELSE bs[v]]
              /\ n.revoked = b.revoked
              /\ n.grant = t.access \/ (IsBound(bs, n.grant) /\ SameGrant(bs[n.grant], n))
              /\ \A v \in Values(t) : IsBound(bs, v) => SameGrant(bs[v], n)
              /\ \A v \in Tokens : IsBound(bs, v) /\ SameGrant(bs[v], n) => ~bs[v].revoked
  BY GrantOfPair
<1> HIDE DEF new
<1>2. /\ new \in Bindings
      /\ \A v \in Values(t) : new[v] = n /\ IsBound(new, v)
      /\ \A v \in Tokens \ Values(t) : new[v] = bs[v] /\ (IsBound(new, v) <=> IsBound(bs, v))
  BY <1>t, <1>1, BindingBound DEF Bindings, IsBound
<1>3. Kept(bs, new)
  <2> SUFFICES ASSUME NEW v \in Tokens, IsBound(bs, v)
               PROVE  /\ IsBound(new, v) /\ SameGrant(new[v], bs[v])
                      /\ bs[v].revoked => new[v].revoked
    BY DEF Kept
  <2>1. CASE v \in Values(t)
    BY <1>1, <1>2, <2>1 DEF SameGrant
  <2>2. CASE v \notin Values(t)
    BY <1>2, <2>2 DEF SameGrant
  <2>3. QED
    BY <2>1, <2>2
<1>4. IsBound(new, n.grant) /\ SameGrant(new[n.grant], n)
  <2>1. CASE n.grant = t.access
    BY <1>t, <1>2, <2>1 DEF SameGrant
  <2>2. CASE IsBound(bs, n.grant) /\ SameGrant(bs[n.grant], n)
    BY <1>3, <2>2 DEF Kept, SameGrant, IsBound
  <2>3. QED
    BY <1>1, <2>1, <2>2
<1>5. GrantsNamed(new)
  <2> SUFFICES ASSUME NEW v \in Tokens, IsBound(new, v)
               PROVE  IsBound(new, new[v].grant) /\ SameGrant(new[new[v].grant], new[v])
    BY DEF GrantsNamed
  <2>1. CASE v \in Values(t)
    BY <1>2, <1>4, <2>1
  <2>2. CASE v \notin Values(t)
    <3>1. IsBound(bs, bs[v].grant) /\ SameGrant(bs[bs[v].grant], bs[v]) /\ new[v] = bs[v]
      BY <1>2, <2>2 DEF WellBound, GrantsNamed
    <3>2. QED
      BY <1>3, <3>1 DEF Kept, SameGrant, IsBound
  <2>3. QED
    BY <2>1, <2>2
<1>6. RevokedWhole(new)
  <2> SUFFICES ASSUME NEW v \in Tokens, NEW w \in Tokens, IsBound(new, v), IsBound(new, w),
                      SameGrant(new[v], new[w])
               PROVE  new[v].revoked = new[w].revoked
    BY DEF RevokedWhole
  <2>1. ASSUME NEW x \in Tokens, IsBound(new, x), SameGrant(new[x], n) PROVE new[x].revoked = FALSE
    <3>1. CASE x \in Values(t)
      BY <1>1, <1>2, <3>1
    <3>2. CASE x \notin Values(t)
      <4>1. bs[x] \in Binding /\ new[x] = bs[x] /\ ~bs[x].revoked
        BY <1>t, <1>1, <1>2, <2>1, <3>2, BoundTyped
      <4>2. QED
        BY <4>1 DEF Binding
    <3>3. QED
      BY <3>1, <3>2
  <2>2. CASE v \in Values(t) \/ w \in Values(t)
    <3>1. SameGrant(new[v], n) /\ SameGrant(new[w], n)
      BY <1>2, <2>2 DEF SameGrant
    <3>2. QED
      BY <2>1, <3>1
  <2>3. CASE v \notin Values(t) /\ w \notin Values(t)
    BY <1>2, <2>3 DEF WellBound, RevokedWhole
  <2>4. QED
    BY <2>2, <2>3
<1>7. QED
  BY <1>2, <1>3, <1>5, <1>6 DEF WellBound, new

\* A consent's pair (bindToken).
LEMMA ConsentKeeps ==
    ASSUME MaxTokens \in Nat, NEW bs, WellBound(bs), NEW t \in TokenPairs,
           MayBind(bs, Consented(t), t, TRUE)
    PROVE  /\ WellBound(Bound(bs, Consented(t), t))
           /\ Kept(bs, Bound(bs, Consented(t), t))
<1> DEFINE b == Consented(t)
<1>1. b \in Binding /\ ~b.revoked /\ b.grant = t.access
  BY DEF Consented, Binding, TokenPairs
<1> HIDE DEF b
<1>2. OpenGrant(bs, b, t)
  BY <1>1 DEF OpenGrant
<1>3. QED
  BY <1>1, <1>2, BindKeeps DEF b

\* A refreshed pair (bindRefreshedToken): it joins the grant of the token that was
\* presented, which nobody has revoked meanwhile.
LEMMA RefreshKeeps ==
    ASSUME MaxTokens \in Nat, NEW bs, WellBound(bs), NEW t \in TokenPairs,
           NEW previous, NEW expected, MayRebind(bs, previous, expected, t)
    PROVE  WellBound(Rebound(bs, previous, t)) /\ Kept(bs, Rebound(bs, previous, t))
<1> DEFINE b == [bs[previous] EXCEPT !.scopes = t.scopes]
<1>1. IsBound(bs, previous) /\ ~bs[previous].revoked /\ MayBind(bs, b, t, FALSE)
  BY DEF MayRebind
<1>2. previous \in Tokens /\ bs[previous] \in Binding
  BY <1>1, BoundTyped DEF WellBound
<1>3. t.scopes \in SUBSET Scopes
  BY DEF TokenPairs
<1>4. b \in Binding /\ ~b.revoked /\ b.grant = bs[previous].grant /\ b.owner = bs[previous].owner
  BY <1>1, <1>2, <1>3 DEF Binding
<1> HIDE DEF b
<1>5. IsBound(bs, b.grant) /\ SameGrant(bs[b.grant], b) /\ SameGrant(bs[b.grant], bs[previous])
  BY <1>1, <1>2, <1>4 DEF WellBound, GrantsNamed, SameGrant
<1>6. ~bs[b.grant].revoked
  BY <1>1, <1>2, <1>5 DEF WellBound, RevokedWhole, IsBound
<1>7. OpenGrant(bs, b, t)
  BY <1>5, <1>6 DEF OpenGrant
<1>8. QED
  BY <1>1, <1>4, <1>7, BindKeeps DEF b, Rebound

\* Fencing a grant revokes all its tokens and leaves the others (revoke).
LEMMA FenceKeeps ==
    ASSUME MaxTokens \in Nat, NEW bs, WellBound(bs), NEW v, IsBound(bs, v)
    PROVE  WellBound(Fenced(bs, v)) /\ Kept(bs, Fenced(bs, v))
<1> DEFINE new == Fenced(bs, v)
<1>t. bs \in Bindings /\ v \in Tokens
  BY DEF WellBound, IsBound
<1>1. ASSUME NEW w \in Tokens, IsBound(bs, w)
      PROVE  /\ new[w] \in Binding /\ new[w].owner = bs[w].owner /\ new[w].grant = bs[w].grant
             /\ new[w].revoked = (bs[w].revoked \/ SameGrant(bs[w], bs[v]))
             /\ bs[w] \in Binding
  <2>1. bs[w] \in Binding
    BY <1>t, <1>1, BoundTyped
  <2>2. CASE SameGrant(bs[w], bs[v])
    <3>1. new[w] = [bs[w] EXCEPT !.revoked = TRUE]
      BY <1>1, <2>2 DEF Fenced
    <3>2. QED
      BY <2>1, <2>2, <3>1 DEF Binding
  <2>3. CASE ~SameGrant(bs[w], bs[v])
    <3>1. new[w] = bs[w]
      BY <2>3 DEF Fenced
    <3>2. QED
      BY <2>1, <2>3, <3>1 DEF Binding
  <2>4. QED
    BY <2>2, <2>3
<1>2. \A w \in Tokens : ~IsBound(bs, w) => new[w] = bs[w]
  BY DEF Fenced
<1>3. new = [w \in Tokens |-> new[w]]
  BY DEF Fenced
<1> HIDE DEF new
<1>4. new \in Bindings
  BY <1>t, <1>1, <1>2, <1>3 DEF Bindings
<1>5. \A w \in Tokens : IsBound(new, w) <=> IsBound(bs, w)
  BY <1>1, <1>2, BindingBound DEF IsBound
<1>6. Kept(bs, new)
  BY <1>1, <1>5 DEF Kept, SameGrant
<1>7. GrantsNamed(new)
  <2> SUFFICES ASSUME NEW w \in Tokens, IsBound(new, w)
               PROVE  IsBound(new, new[w].grant) /\ SameGrant(new[new[w].grant], new[w])
    BY DEF GrantsNamed
  <2>1. IsBound(bs, bs[w].grant) /\ SameGrant(bs[bs[w].grant], bs[w]) /\ bs[w].grant \in Tokens
    BY <1>5 DEF WellBound, GrantsNamed, IsBound
  <2>2. QED
    BY <1>1, <1>5, <2>1 DEF SameGrant
<1>8. RevokedWhole(new)
  <2> SUFFICES ASSUME NEW w \in Tokens, NEW x \in Tokens, IsBound(new, w), IsBound(new, x),
                      SameGrant(new[w], new[x])
               PROVE  new[w].revoked = new[x].revoked
    BY DEF RevokedWhole
  <2>1. IsBound(bs, w) /\ IsBound(bs, x) /\ SameGrant(bs[w], bs[x])
    BY <1>1, <1>5 DEF SameGrant
  <2>2. bs[w].revoked = bs[x].revoked /\ (SameGrant(bs[w], bs[v]) <=> SameGrant(bs[x], bs[v]))
    BY <2>1 DEF WellBound, RevokedWhole, SameGrant
  <2>3. QED
    BY <1>1, <2>1, <2>2
<1>9. QED
  BY <1>4, <1>6, <1>7, <1>8 DEF WellBound, new

-----------------------------------------------------------------------------
(* What always holds, and why *)

\* The stages in which a handler works on a copy of the connection's record.
Copied == {"refreshing", "rebind", "restore", "prepared", "calling", "finishing"}

\* The gate is held by exactly the request inside.
GateHeld == \A r \in Requests : gate = r <=> reqs[r].at \in Inside

\* The copy a handler works on is the record.
CopiesCurrent ==
    \A r \in Requests : reqs[r].at \in Copied =>
        LET c == reqs[r].ask.conn
        IN  /\ reqs[r].held = conns[c] /\ conns[c].status = "connected"
            /\ reqs[r].at \in {"refreshing", "rebind", "restore"} =>
                  c \in OAuth /\ reqs[r].ask.kind \in {"refresh", "invoke"}
            /\ reqs[r].ask.kind = "invoke" => reqs[r].ask.rev = conns[c].rev
            /\ reqs[r].at \in {"prepared", "calling", "finishing"} => reqs[r].ask.kind = "invoke"

\* An operation under way is covered by the scopes held, and its record runs.
CallsRecorded ==
    \A r \in Requests : reqs[r].at \in {"calling", "finishing"} =>
        /\ Needs[reqs[r].ask.op] \subseteq conns[reqs[r].ask.conn].scopes
        /\ invs[Key(r)].status = "running"

\* The tokens a handler has received are the connection owner's.
TokensOwned ==
    \A r \in Requests : reqs[r].at \in {"bind", "store", "rebind", "restore"} =>
        /\ reqs[r].token.owner = OwnerOf[reqs[r].ask.conn]
        /\ reqs[r].at \in {"bind", "store"} => reqs[r].ask.kind = "complete"

\* A pair of tokens, both bound under one grant of their owner.
PairKept(bs, t, o) ==
    /\ t \in TokenPairs /\ t.owner = o
    /\ \A v \in Values(t) :
          /\ IsBound(bs, v)
          /\ bs[v].owner = o
          /\ SameGrant(bs[v], bs[t.access])

GrantsKept ==
    \A c \in OAuth : conns[c].status = "connected" =>
        PairKept(bindings, conns[c].token, OwnerOf[c])

\* A code is unspent until its exchange, and no consent brings it back.
CodesSpentOnce ==
    /\ \A c \in Connections :
          /\ exchanged[c] <= 1
          /\ conns[c].status = "none" \/ txs[c] \in {"pending", "ready"} => exchanged[c] = 0
    /\ \A r \in Requests : reqs[r].at = "exchange" =>
          LET c == reqs[r].ask.conn
          IN  /\ reqs[r].ask.kind = "complete"
              /\ exchanged[c] = 0 /\ txs[c] = "consumed" /\ conns[c].status # "none"

\* What hosts were told is what the record says.
AnswersRecorded == \A k \in Keys : told[k] \subseteq {invs[k].status}

\* The provider has carried out nothing that was not admitted, nor what is about
\* to be called; and a success was carried out.
ExecutionsCounted ==
    /\ \A k \in Keys : invs[k].status = "none" => executed[k] = 0
    /\ \A r \in Requests :
          /\ reqs[r].at = "calling" => executed[Key(r)] = 0
          /\ reqs[r].at = "finishing" /\ reqs[r].outcome = "succeeded" => executed[Key(r)] = 1

IInv ==
    /\ TypeOK
    /\ WellBound(bindings)
    /\ CopiesCurrent /\ CallsRecorded /\ TokensOwned
    /\ GrantsKept
    /\ CodesSpentOnce
    /\ AnswersRecorded /\ ExecutionsCounted

-----------------------------------------------------------------------------
(* Requests *)

\* What a request carries in each stage.
LEMMA RequestTyped ==
    ASSUME NEW q \in RequestRecords
    PROVE  /\ q.at \in {"idle", "waiting"} \union Inside
           /\ q.at # "idle" => q.ask \in Asks
           /\ q.at \in {"bind", "store", "rebind", "restore"} => q.token \in TokenPairs
           /\ q.at \in Copied => q.held \in ConnRecord
           /\ q.at \in {"refreshing", "rebind", "restore"} => q.expected \in Binding
           /\ q.at = "finishing" => q.outcome \in Finals
  BY DEF RequestRecords, Idle, Inside, Copied

\* What a request asks of.
LEMMA AskTyped ==
    ASSUME NEW a \in Asks
    PROVE  /\ a.conn \in Connections
           /\ a.kind \in {"complete", "refresh", "disconnect", "invoke"}
           /\ a.kind = "invoke" => /\ a.id \in IDs /\ a.op \in Ops /\ a.rev \in 1 .. 2
                                   /\ <<a.conn, a.id>> \in Keys
                                   /\ Body(a) \in [op : Ops, rev : 1 .. 2]
  BY DEF Asks, Keys, Body

\* A handler's next stage, when it takes nothing more with it.
Onward == {<<"waiting", "entered">>, <<"entered", "exchange">>, <<"bind", "store">>,
           <<"rebind", "restore">>, <<"prepared", "calling">>}

LEMMA OnwardTyped ==
    ASSUME NEW q \in RequestRecords, NEW to, <<q.at, to>> \in Onward
    PROVE  LET n == [q EXCEPT !.at = to]
           IN  /\ n \in RequestRecords /\ n.at = to /\ n.ask = q.ask
               /\ q.at = "bind" \/ q.at = "rebind" => n.token = q.token
               /\ q.at = "rebind" => n.held = q.held /\ n.expected = q.expected
               /\ q.at = "prepared" => n.held = q.held
<1>1. CASE q.at = "waiting" \/ q.at = "entered"
  <2>1. q \in [at : {"waiting", "entered", "exchange"}, ask : Asks]
    BY <1>1 DEF RequestRecords, Idle
  <2>2. QED
    BY <1>1, <2>1 DEF Onward, RequestRecords
<1>2. CASE q.at = "bind"
  <2>1. q \in [at : {"bind", "store"}, ask : Asks, token : TokenPairs]
    BY <1>2 DEF RequestRecords, Idle
  <2>2. QED
    BY <1>2, <2>1 DEF Onward, RequestRecords
<1>3. CASE q.at = "rebind"
  <2>1. q \in [at : {"rebind", "restore"}, ask : Asks, held : ConnRecord, expected : Binding,
               token : TokenPairs]
    BY <1>3 DEF RequestRecords, Idle
  <2>2. QED
    BY <1>3, <2>1 DEF Onward, RequestRecords
<1>4. CASE q.at = "prepared"
  <2>1. q \in [at : {"prepared", "calling"}, ask : Asks, held : ConnRecord]
    BY <1>4 DEF RequestRecords, Idle
  <2>2. QED
    BY <1>4, <2>1 DEF Onward, RequestRecords
<1>5. QED
  BY <1>1, <1>2, <1>3, <1>4 DEF Onward

\* The request at hand, and what its types say of it.
LEMMA AtHand ==
    ASSUME TypeOK, NEW r \in Requests
    PROVE  /\ reqs[r] \in RequestRecords /\ reqs[r].at \in {"idle", "waiting"} \union Inside
           /\ reqs[r].at # "idle" => /\ reqs[r].ask \in Asks
                                     /\ reqs[r].ask.conn \in Connections
                                     /\ conns[reqs[r].ask.conn] \in ConnRecord
           /\ reqs[r].at # "idle" /\ reqs[r].ask.kind = "invoke" =>
                 Key(r) \in Keys /\ invs[Key(r)] \in Invocation
<1>1. reqs[r] \in RequestRecords
  BY DEF TypeOK
<1>2. QED
  BY <1>1, RequestTyped, AskTyped DEF TypeOK, Key

\* While one request is inside no other is.
LEMMA OneInside ==
    ASSUME TypeOK, NEW r \in Requests, reqs[r].at \in Inside, NEW g \in Requests, g # r
    PROVE  reqs[g].at \in {"idle", "waiting"}
<1>1. reqs[g].at \notin Inside
  BY DEF TypeOK
<1>2. QED
  BY <1>1, AtHand

\* While the gate is free no request is inside.
LEMMA NoneInside ==
    ASSUME TypeOK, CentralAssumption, gate = Free, NEW r \in Requests
    PROVE  reqs[r].at \in {"idle", "waiting"}
<1>1. reqs[r].at \notin Inside
  BY DEF TypeOK, CentralAssumption
<1>2. QED
  BY <1>1, AtHand

\* A request that moves within the gate, or out of it, keeps the gate in step.
LEMMA GateKept ==
    ASSUME TypeOK, CentralAssumption, NEW r \in Requests, reqs[r].at \in Inside
    PROVE  /\ \A q \in RequestRecords :
                 Move(r, q) /\ q.at \in Inside /\ gate' = gate =>
                     GateHeld' /\ reqs' \in [Requests -> RequestRecords]
           /\ Leave(r) => GateHeld' /\ reqs' \in [Requests -> RequestRecords]
<1>1. gate = r /\ \A g \in Requests : g # r => reqs[g].at \notin Inside
  BY DEF TypeOK
<1>2. Idle \in RequestRecords /\ Idle.at \notin Inside
  BY ZenonT(90) DEF RequestRecords, Idle, Inside
<1>3. QED
  BY <1>1, <1>2, ZenonT(90) DEF Move, Leave, GateHeld, TypeOK, CentralAssumption

-----------------------------------------------------------------------------
(* Types *)

\* A connection's record may take any typed value.
LEMMA RecordsTyped ==
    ASSUME TypeOK, NEW c \in Connections
    PROVE  /\ Blank \in ConnRecord
           /\ \A k \in ConnRecord : conns' = [conns EXCEPT ![c] = k] =>
                 conns' \in [Connections -> ConnRecord]
           /\ \A t \in TokenPairs, s \in {"pending", "connected"}, ops \in SUBSET Ops :
                 [conns[c] EXCEPT !.status = s, !.ops = ops, !.scopes = t.scopes, !.token = t]
                     \in ConnRecord
           /\ \A t \in TokenPairs : [conns[c] EXCEPT !.token = t, !.scopes = t.scopes] \in ConnRecord
           /\ Disconnected(c) \in ConnRecord
<1>1. conns[c] \in ConnRecord
  BY DEF TypeOK
<1>2. Blank \in ConnRecord
  BY DEF Blank, ConnRecord
<1>3. ASSUME NEW k \in ConnRecord, conns' = [conns EXCEPT ![c] = k]
      PROVE  conns' \in [Connections -> ConnRecord]
  BY <1>3 DEF TypeOK
<1>4. \A t \in TokenPairs : t.scopes \in SUBSET Scopes
  BY DEF TokenPairs
<1>5. \A t \in TokenPairs, s \in {"pending", "connected"}, ops \in SUBSET Ops :
        [conns[c] EXCEPT !.status = s, !.ops = ops, !.scopes = t.scopes, !.token = t] \in ConnRecord
  BY <1>1, <1>4, ZenonT(90) DEF ConnRecord
<1>6. \A t \in TokenPairs : [conns[c] EXCEPT !.token = t, !.scopes = t.scopes] \in ConnRecord
  BY <1>1, <1>4 DEF ConnRecord
<1>7. Disconnected(c) \in ConnRecord
  <2>1. conns[c].rev \in 0 .. 2 /\ (IF conns[c].rev = 1 THEN 2 ELSE conns[c].rev) \in 0 .. 2
    BY <1>1 DEF ConnRecord
  <2>2. QED
    BY <1>1, <2>1 DEF Disconnected, ConnRecord
<1>8. QED
  BY <1>2, <1>3, <1>5, <1>6, <1>7

-----------------------------------------------------------------------------
(* Bindings *)

\* Whatever happens, a token that is bound keeps its grant, and a revocation stays.
LEMMA BindingsKept ==
    ASSUME CentralAssumption, TypeOK, WellBound(bindings), [Next]_vars
    PROVE  WellBound(bindings') /\ Kept(bindings, bindings')
<1> USE DEF CentralAssumption
<1>1. CASE UNCHANGED bindings
  BY <1>1, KeptAll
<1>2. ASSUME NEW r \in Requests, Bind(r)
      PROVE  WellBound(bindings') /\ Kept(bindings, bindings')
  <2>1. reqs[r].token \in TokenPairs
    BY <1>2, AtHand, RequestTyped DEF Bind, At
  <2>2. QED
    BY <1>2, <2>1, ConsentKeeps DEF Bind
<1>3. ASSUME NEW r \in Requests, Rebind(r)
      PROVE  WellBound(bindings') /\ Kept(bindings, bindings')
  <2>1. reqs[r].token \in TokenPairs
    BY <1>3, AtHand, RequestTyped DEF Rebind
  <2>2. QED
    BY <1>3, <2>1, RefreshKeeps DEF Rebind
<1>4. ASSUME NEW v \in Tokens, RevokeGrant(v)
      PROVE  WellBound(bindings') /\ Kept(bindings, bindings')
  BY <1>4, FenceKeeps, ZenonT(90) DEF RevokeGrant
<1>5. ASSUME NEW r \in Requests, Serve(r), ~Bind(r), ~Rebind(r) PROVE UNCHANGED bindings
  BY <1>5, ZenonT(90) DEF Serve, Redeem, Exchange, Store, PresentRefresh, ProviderRefresh, Restore, Replay,
              StartInvoke, Admit, Call, Finish, Disconnect, Refuse
<1>6. CASE UNCHANGED vars
  BY <1>1, <1>6 DEF vars
<1>7. QED
  BY <1>1, <1>2, <1>3, <1>4, <1>5, <1>6
     DEF Next, Create, Consent, Withdraw, Arrive, Enter, GiveUp, ReadInvocation, Restart

-----------------------------------------------------------------------------
(* The steps of the request inside *)

\* The pair of tokens an exchange returns is the owner's.
LEMMA ExchangeGives ==
    ASSUME CentralAssumption, TypeOK, NEW r \in Requests, Exchange(r)
    PROVE  /\ minted' \in 0 .. MaxTokens
           /\ \/ Leave(r)
              \/ gate' = gate /\ \E t \in TokenPairs :
                    /\ t.owner = OwnerOf[reqs[r].ask.conn]
                    /\ Move(r, [at |-> "bind", ask |-> reqs[r].ask, token |-> t])
<1> DEFINE c == reqs[r].ask.conn
<1>1. c \in Connections /\ conns[c].ops \in SUBSET Ops /\ OwnerOf[c] \in Owners
      /\ minted \in 0 .. MaxTokens /\ MaxTokens \in Nat
  BY AtHand, ZenonT(90) DEF Exchange, At, ConnRecord, CentralAssumption, TypeOK
<1>2. Wanted(conns[c].ops) \subseteq Scopes
  BY <1>1 DEF Wanted, CentralAssumption
<1>3. CASE Leave(r) /\ UNCHANGED minted
  BY <1>1, <1>3, ZenonT(90)
<1>4. ASSUME NEW granted \in SUBSET Wanted(conns[c].ops), NEW renewable \in BOOLEAN,
             NEW access \in Tokens, minted + 2 <= MaxTokens,
             Move(r, [at |-> "bind", ask |-> reqs[r].ask, token |->
                        [access |-> access, owner |-> OwnerOf[c], scopes |-> granted,
                         refresh |-> IF renewable THEN minted + 2 ELSE NoToken]])
      PROVE  \E t \in TokenPairs :
                /\ t.owner = OwnerOf[c]
                /\ Move(r, [at |-> "bind", ask |-> reqs[r].ask, token |-> t])
  <2> DEFINE t == [access |-> access, owner |-> OwnerOf[c], scopes |-> granted,
                   refresh |-> IF renewable THEN minted + 2 ELSE NoToken]
  <2>1. minted + 2 \in Tokens
    BY <1>1, <1>4 DEF Tokens
  <2>2. t \in TokenPairs /\ t.owner = OwnerOf[c]
    BY <1>1, <1>2, <1>4, <2>1, ZenonT(90) DEF TokenPairs, NoToken
  <2>3. QED
    BY <1>4, <2>2
<1>5. CASE ~(Leave(r) /\ UNCHANGED minted)
  <2>1. PICK granted \in SUBSET Wanted(conns[c].ops), renewable \in BOOLEAN, again \in BOOLEAN :
          LET old == {v \in 1 .. minted : IsBound(bindings, v) /\ bindings[v].owner = OwnerOf[c]}
          IN  /\ minted + 2 <= MaxTokens
              /\ \E access \in IF again THEN old ELSE {minted + 1} :
                    Move(r, [at |-> "bind", ask |-> reqs[r].ask, token |->
                        [access |-> access, owner |-> OwnerOf[c], scopes |-> granted,
                         refresh |-> IF renewable THEN minted + 2 ELSE NoToken]])
              /\ minted' = minted + 2
              /\ UNCHANGED gate
    BY <1>5, ZenonT(90) DEF Exchange
  <2>2. \A access \in IF again THEN {v \in 1 .. minted : IsBound(bindings, v)
                                                         /\ bindings[v].owner = OwnerOf[c]}
                               ELSE {minted + 1} : access \in Tokens
    BY <1>1, <2>1 DEF Tokens
  <2>3. minted' \in 0 .. MaxTokens
    BY <1>1, <2>1, SMTT(60)
  <2>4. QED
    BY <1>4, <2>1, <2>2, <2>3, ZenonT(90)
<1>6. QED
  BY <1>3, <1>5, ZenonT(90)

\* The pair of tokens a refresh returns has the owner of the one presented.
LEMMA RefreshGives ==
    ASSUME CentralAssumption, TypeOK, CopiesCurrent, GrantsKept, NEW r \in Requests,
           ProviderRefresh(r)
    PROVE  /\ minted' \in 0 .. MaxTokens
           /\ \E t \in TokenPairs :
                 /\ t.owner = OwnerOf[reqs[r].ask.conn]
                 /\ Move(r, [at |-> "rebind", ask |-> reqs[r].ask, held |-> reqs[r].held,
                             expected |-> reqs[r].expected, token |-> t])
<1> DEFINE h == reqs[r].held.token
<1>1. h \in TokenPairs /\ h.owner = OwnerOf[reqs[r].ask.conn]
  BY AtHand DEF ProviderRefresh, CopiesCurrent, Copied, GrantsKept, PairKept
<1>2. minted \in 0 .. MaxTokens /\ MaxTokens \in Nat
  BY DEF TypeOK, CentralAssumption
<1>3. minted + 2 <= MaxTokens /\ minted' = minted + 2
  BY DEF ProviderRefresh
<1>4. minted + 1 \in Tokens /\ minted + 2 \in Tokens /\ minted' \in 0 .. MaxTokens
  BY <1>2, <1>3 DEF Tokens
<1>5. PICK granted \in SUBSET h.scopes, rotated \in BOOLEAN :
        Move(r, [at |-> "rebind", ask |-> reqs[r].ask, held |-> reqs[r].held,
                 expected |-> reqs[r].expected, token |->
                 [h EXCEPT !.access = minted + 1, !.scopes = granted,
                           !.refresh = IF rotated THEN minted + 2 ELSE @]])
  BY DEF ProviderRefresh, Held
<1> DEFINE t == [h EXCEPT !.access = minted + 1, !.scopes = granted,
                          !.refresh = IF rotated THEN minted + 2 ELSE @]
<1>6. t \in TokenPairs /\ t.owner = h.owner
  <2>1. granted \in SUBSET Scopes /\ h.refresh \in Tokens \union {NoToken}
    BY <1>1, <1>5 DEF TokenPairs
  <2>2. (IF rotated THEN minted + 2 ELSE h.refresh) \in Tokens \union {NoToken}
    BY <1>4, <2>1
  <2> HIDE DEF h
  <2>3. QED
    BY <1>1, <1>4, <2>1, <2>2 DEF TokenPairs
<1>7. QED
  BY <1>1, <1>4, <1>5, <1>6

\* How a handler that stays inside works on: its next stage, by which action, and
\* what it takes with it.
WorksOn(r, q) ==
    \/ q.at = "exchange" /\ Redeem(r)
    \/ q.at = "bind" /\ Exchange(r) /\ q.token.owner = OwnerOf[q.ask.conn]
    \/ q.at = "store" /\ Bind(r) /\ q.token = reqs[r].token
    \/ q.at = "refreshing" /\ (PresentRefresh(r) \/ StartInvoke(r)) /\ MayRefresh(r, q.ask.conn)
       /\ q.held = conns[q.ask.conn]
    \/ q.at = "rebind" /\ ProviderRefresh(r) /\ q.held = reqs[r].held
       /\ q.token.owner = OwnerOf[q.ask.conn]
    \/ q.at = "restore" /\ Rebind(r) /\ q.held = reqs[r].held /\ q.token = reqs[r].token
    \/ q.at = "prepared" /\ StartInvoke(r) /\ q.held = conns[q.ask.conn]
    \/ q.at = "prepared" /\ Restore(r) /\ q.ask.kind # "refresh" /\ q.held = conns'[q.ask.conn]
    \/ q.at = "calling" /\ Admit(r) /\ q.held = reqs[r].held
    \/ q.at = "finishing" /\ Call(r) /\ q.held = reqs[r].held
       /\ (q.outcome = "succeeded" => executed' = [executed EXCEPT ![Key(r)] = @ + 1])

\* A record goes where it does, under the request's name.
LEMMA MovesTyped ==
    ASSUME TypeOK, CentralAssumption, NEW r \in Requests, NEW q \in RequestRecords, Move(r, q)
    PROVE  reqs'[r] = q /\ \A g \in Requests : g # r => reqs'[g] = reqs[g]
  BY ZenonT(90) DEF Move, TypeOK

\* The connection's record that a restored token makes.
LEMMA RestoreGives ==
    ASSUME CentralAssumption, TypeOK, NEW r \in Requests, Restore(r)
    PROVE  LET c == reqs[r].ask.conn
               t == reqs[r].token
           IN  /\ t \in TokenPairs /\ c \in Connections
               /\ conns' = [conns EXCEPT ![c] = [conns[c] EXCEPT !.token = t, !.scopes = t.scopes]]
               /\ conns'[c] \in ConnRecord
               /\ conns'[c].status = conns[c].status /\ conns'[c].rev = conns[c].rev
               /\ conns'[c].token = t
               /\ conns' \in [Connections -> ConnRecord]
<1> DEFINE c == reqs[r].ask.conn
           t == reqs[r].token
           k == [conns[c] EXCEPT !.token = t, !.scopes = t.scopes]
<1>1. t \in TokenPairs /\ c \in Connections /\ conns[c] \in ConnRecord
  BY AtHand, RequestTyped, ZenonT(90) DEF Restore
<1>2. conns' = [conns EXCEPT ![c] = k]
  BY ZenonT(90) DEF Restore
<1>3. k \in ConnRecord
  BY <1>1, RecordsTyped
<1>4. k.status = conns[c].status /\ k.rev = conns[c].rev /\ k.token = t
  BY <1>1 DEF ConnRecord
<1> HIDE DEF k
<1>5. conns'[c] = k /\ conns' \in [Connections -> ConnRecord]
  BY <1>1, <1>2, <1>3 DEF TypeOK
<1>6. QED
  BY <1>1, <1>2, <1>3, <1>4, <1>5, ZenonT(90) DEF k

\* A step of the request inside keeps it there, under way, or lets it out.
LEMMA ServeMoves ==
    ASSUME CentralAssumption, TypeOK, CopiesCurrent, GrantsKept, NEW r \in Requests, Serve(r)
    PROVE  /\ reqs[r].at \in Inside
           /\ \/ Leave(r)
              \/ gate' = gate /\ \E q \in RequestRecords :
                    Move(r, q) /\ q.at \in Inside /\ q.ask = reqs[r].ask /\ WorksOn(r, q)
<1> DEFINE c == reqs[r].ask.conn
           ask == reqs[r].ask
           Goal == \/ Leave(r)
                   \/ gate' = gate /\ \E q \in RequestRecords :
                         Move(r, q) /\ q.at \in Inside /\ q.ask = reqs[r].ask /\ WorksOn(r, q)
<1>1. reqs[r].at \in Inside
  BY ZenonT(90) DEF Serve, Redeem, Exchange, Bind, Store, PresentRefresh, ProviderRefresh, Rebind, Restore,
         Replay, StartInvoke, Admit, Call, Finish, Disconnect, Refuse, At, Inside
<1>t. /\ reqs[r] \in RequestRecords /\ ask \in Asks /\ c \in Connections
      /\ conns[c] \in ConnRecord /\ reqs[r].at # "idle"
  BY <1>1, AtHand DEF Inside
<1>2. CASE Redeem(r)
  <2> DEFINE q == [reqs[r] EXCEPT !.at = "exchange"]
  <2>1. q \in RequestRecords /\ q.at = "exchange" /\ q.ask = ask
    <3>1. reqs[r].at = "entered" /\ <<reqs[r].at, "exchange">> \in Onward
      BY <1>2 DEF Redeem, At, Onward
    <3>2. QED
      BY <1>t, <3>1, OnwardTyped
  <2>2. Move(r, q) /\ gate' = gate
    BY <1>2 DEF Redeem
  <2> HIDE DEF q
  <2>3. QED
    BY <1>1, <1>2, <2>1, <2>2 DEF Inside, WorksOn
<1>3. CASE Exchange(r)
  <2>1. ASSUME NEW t \in TokenPairs, t.owner = OwnerOf[c], gate' = gate,
               Move(r, [at |-> "bind", ask |-> ask, token |-> t])
        PROVE  Goal
    <3> DEFINE q == [at |-> "bind", ask |-> ask, token |-> t]
    <3>1. q \in RequestRecords /\ q.at = "bind" /\ q.ask = ask /\ q.token = t
      BY <1>t DEF RequestRecords
    <3>2. Move(r, q)
      BY <2>1
    <3> HIDE DEF q
    <3>3. QED
      BY <1>3, <2>1, <3>1, <3>2 DEF Inside, WorksOn
  <2>2. QED
    BY <1>1, <1>3, <2>1, ExchangeGives
<1>4. CASE Bind(r)
  <2> DEFINE q == [reqs[r] EXCEPT !.at = "store"]
  <2>1. q \in RequestRecords /\ q.at = "store" /\ q.ask = ask /\ q.token = reqs[r].token
    <3>1. reqs[r].at = "bind" /\ <<reqs[r].at, "store">> \in Onward
      BY <1>4 DEF Bind, At, Onward
    <3>2. QED
      BY <1>t, <3>1, OnwardTyped
  <2>2. Move(r, q) /\ gate' = gate
    BY <1>4 DEF Bind
  <2> HIDE DEF q
  <2>3. QED
    BY <1>1, <1>4, <2>1, <2>2 DEF Inside, WorksOn
<1>5. ASSUME PresentRefresh(r) \/ StartInvoke(r), MayRefresh(r, c), gate' = gate,
             Move(r, [at |-> "refreshing", ask |-> ask, held |-> conns[c],
                      expected |-> bindings[conns[c].token.refresh]])
      PROVE  Goal
  <2> DEFINE q == [at |-> "refreshing", ask |-> ask, held |-> conns[c],
                   expected |-> bindings[conns[c].token.refresh]]
  <2>1. bindings[conns[c].token.refresh] \in Binding
    BY <1>5, BoundTyped, ZenonT(90) DEF MayRefresh, Refreshable, TypeOK
  <2>2. q \in RequestRecords /\ q.at = "refreshing" /\ q.ask = ask /\ q.held = conns[c]
    BY <1>t, <2>1, ZenonT(90) DEF RequestRecords
  <2>3. Move(r, q)
    BY <1>5, ZenonT(90)
  <2> HIDE DEF q
  <2>4. QED
    BY <1>5, <2>2, <2>3, ZenonT(90) DEF Inside, WorksOn
<1>6. CASE PresentRefresh(r)
  BY <1>1, <1>5, <1>6 DEF PresentRefresh
<1>7. CASE ProviderRefresh(r)
  <2>1. PICK t \in TokenPairs :
          /\ t.owner = OwnerOf[c]
          /\ Move(r, [at |-> "rebind", ask |-> ask, held |-> reqs[r].held,
                      expected |-> reqs[r].expected, token |-> t])
    BY <1>7, RefreshGives
  <2> DEFINE q == [at |-> "rebind", ask |-> ask, held |-> reqs[r].held,
                   expected |-> reqs[r].expected, token |-> t]
  <2>2. reqs[r].held \in ConnRecord /\ reqs[r].expected \in Binding
    BY <1>t, <1>7, RequestTyped DEF ProviderRefresh, Copied
  <2>3. /\ q \in RequestRecords /\ q.at = "rebind" /\ q.ask = ask /\ q.token = t
        /\ q.held = reqs[r].held
    BY <1>t, <2>1, <2>2 DEF RequestRecords
  <2>4. Move(r, q) /\ gate' = gate
    BY <1>7, <2>1 DEF ProviderRefresh
  <2> HIDE DEF q
  <2>5. QED
    BY <1>1, <1>7, <2>1, <2>3, <2>4 DEF Inside, WorksOn
<1>8. CASE Rebind(r)
  <2> DEFINE q == [reqs[r] EXCEPT !.at = "restore"]
  <2>1. /\ q \in RequestRecords /\ q.at = "restore" /\ q.ask = ask /\ q.token = reqs[r].token
        /\ q.held = reqs[r].held
    <3>1. reqs[r].at = "rebind" /\ <<reqs[r].at, "restore">> \in Onward
      BY <1>8 DEF Rebind, Onward
    <3>2. QED
      BY <1>t, <3>1, OnwardTyped
  <2>2. Move(r, q) /\ gate' = gate
    BY <1>8 DEF Rebind
  <2> HIDE DEF q
  <2>3. QED
    BY <1>1, <1>8, <2>1, <2>2 DEF Inside, WorksOn
<1>9. CASE Restore(r)
  <2>1. CASE ask.kind = "refresh"
    BY <1>1, <1>9, <2>1 DEF Restore
  <2>2. CASE ask.kind # "refresh"
    <3> DEFINE q == [at |-> "prepared", ask |-> ask, held |-> conns'[c]]
    <3>1. conns'[c] \in ConnRecord
      BY <1>9, RestoreGives, ZenonT(90)
    <3>2. q \in RequestRecords /\ q.at = "prepared" /\ q.ask = ask /\ q.held = conns'[c]
      BY <1>t, <3>1, ZenonT(90) DEF RequestRecords
    <3>3. Move(r, q) /\ gate' = gate
      BY <1>9, <2>2, ZenonT(90) DEF Restore
    <3> HIDE DEF q
    <3>4. QED
      BY <1>1, <1>9, <2>2, <3>2, <3>3, ZenonT(90) DEF Inside, WorksOn
  <2>3. QED
    BY <2>1, <2>2
<1>10. CASE StartInvoke(r)
  <2>1. CASE Move(r, [at |-> "prepared", ask |-> ask, held |-> conns[c]])
    <3> DEFINE q == [at |-> "prepared", ask |-> ask, held |-> conns[c]]
    <3>1. q \in RequestRecords /\ q.at = "prepared" /\ q.ask = ask /\ q.held = conns[c]
      BY <1>t, ZenonT(90) DEF RequestRecords
    <3>2. Move(r, q) /\ gate' = gate
      BY <1>10, <2>1 DEF StartInvoke
    <3> HIDE DEF q
    <3>3. QED
      BY <1>1, <1>10, <3>1, <3>2 DEF Inside, WorksOn
  <2>2. QED
    BY <1>1, <1>5, <1>10, <2>1 DEF StartInvoke
<1>11. CASE Admit(r)
  <2> DEFINE q == [reqs[r] EXCEPT !.at = "calling"]
  <2>1. /\ q \in RequestRecords /\ q.at = "calling" /\ q.ask = ask /\ q.held = reqs[r].held
    <3>1. reqs[r].at = "prepared" /\ <<reqs[r].at, "calling">> \in Onward
      BY <1>11 DEF Admit, At, Onward
    <3>2. QED
      BY <1>t, <3>1, OnwardTyped
  <2>2. Move(r, q) /\ gate' = gate
    BY <1>11 DEF Admit
  <2> HIDE DEF q
  <2>3. QED
    BY <1>1, <1>11, <2>1, <2>2 DEF Inside, WorksOn
<1>12. CASE Call(r)
  <2>1. PICK answered \in BOOLEAN, carriedOut \in BOOLEAN :
          /\ answered => carriedOut
          /\ executed' = IF carriedOut THEN [executed EXCEPT ![Key(r)] = @ + 1] ELSE executed
          /\ Move(r, [at |-> "finishing", ask |-> ask, held |-> Held(r), outcome |->
                 CASE answered -> "succeeded"
                   [] ~answered /\ ask.op \in Writes -> "outcome_unknown"
                   [] OTHER -> "failed"])
    BY <1>12 DEF Call
  <2> DEFINE o == CASE answered -> "succeeded"
                    [] ~answered /\ ask.op \in Writes -> "outcome_unknown"
                    [] OTHER -> "failed"
             q == [at |-> "finishing", ask |-> ask, held |-> Held(r), outcome |-> o]
  <2>2. o \in Finals /\ (o = "succeeded" => answered)
    BY DEF Finals
  <2>3. Held(r) \in ConnRecord
    BY <1>t, <1>12, RequestTyped DEF Call, At, Copied, Held
  <2> HIDE DEF o
  <2>4. /\ q \in RequestRecords /\ q.at = "finishing" /\ q.ask = ask /\ q.held = Held(r)
        /\ q.outcome = o
    BY <1>t, <2>2, <2>3 DEF RequestRecords
  <2>5. Move(r, q) /\ gate' = gate
    BY <1>12, <2>1, ZenonT(90) DEF Call, o
  <2> HIDE DEF q
  <2>6. QED
    BY <1>1, <1>12, <2>1, <2>2, <2>4, <2>5 DEF Inside, WorksOn, Held
<1>13. CASE Store(r) \/ Replay(r) \/ Finish(r) \/ Disconnect(r) \/ Refuse(r)
  BY <1>1, <1>13, ZenonT(90) DEF Store, Replay, Finish, Disconnect, Refuse
<1>14. QED
  BY <1>1, <1>2, <1>3, <1>4, <1>6, <1>7, <1>8, <1>9, <1>10, <1>11, <1>12, <1>13, ZenonT(90) DEF Serve

-----------------------------------------------------------------------------
(* Type correctness *)

\* The steps that are not of the request inside, named.
LEMMA StepCases ==
    ASSUME [Next]_vars
    PROVE  \/ \E c \in Connections, ops \in SUBSET Ops : Create(c, ops)
           \/ \E c \in Connections : Consent(c) \/ Withdraw(c)
           \/ \E r \in Requests, ask \in Asks : Arrive(r, ask) /\ conns[ask.conn].status # "none"
           \/ \E r \in Requests : Enter(r) \/ GiveUp(r)
           \/ \E r \in Requests : Serve(r)
           \/ \E k \in Keys : ReadInvocation(k)
           \/ \E v \in Tokens : RevokeGrant(v)
           \/ Restart
           \/ UNCHANGED vars
  BY DEF Next

\* Requests keep their types, and the gate its holder.
LEMMA RequestsTyped ==
    ASSUME CentralAssumption, TypeOK, CopiesCurrent, GrantsKept, [Next]_vars
    PROVE  reqs' \in [Requests -> RequestRecords] /\ GateHeld'
<1> DEFINE Goal == reqs' \in [Requests -> RequestRecords] /\ GateHeld'
<1>t. /\ reqs \in [Requests -> RequestRecords] /\ GateHeld
      /\ Idle \in RequestRecords /\ Idle.at \notin Inside
  BY DEF TypeOK, GateHeld, RequestRecords, Idle, Inside
<1>1. ASSUME NEW r \in Requests, NEW ask \in Asks, Arrive(r, ask) PROVE Goal
  <2> DEFINE q == [at |-> "waiting", ask |-> ask]
  <2>1. q \in RequestRecords /\ q.at \notin Inside
    BY DEF RequestRecords, Inside
  <2>2. reqs[r].at \notin Inside /\ UNCHANGED gate /\ Move(r, q)
    BY <1>1, <1>t DEF Arrive
  <2> HIDE DEF q
  <2>3. QED
    BY <1>t, <2>1, <2>2 DEF Move, GateHeld
<1>2. ASSUME NEW r \in Requests, Enter(r) PROVE Goal
  <2> DEFINE q == [reqs[r] EXCEPT !.at = "entered"]
  <2>1. q \in RequestRecords /\ q.at \in Inside
    BY <1>2, <1>t, OnwardTyped DEF Enter, Onward, Inside
  <2>2. gate = Free /\ gate' = r /\ Move(r, q)
    BY <1>2 DEF Enter
  <2>3. \A g \in Requests : reqs[g].at \notin Inside
    BY <1>t, <2>2 DEF GateHeld, CentralAssumption
  <2> HIDE DEF q
  <2>4. QED
    BY <1>t, <2>1, <2>2, <2>3 DEF Move, GateHeld
<1>3. ASSUME NEW r \in Requests, GiveUp(r) PROVE Goal
  <2>1. reqs[r].at \notin Inside /\ UNCHANGED gate /\ Move(r, Idle)
    BY <1>3 DEF GiveUp, Inside
  <2>2. QED
    BY <1>t, <2>1 DEF Move, GateHeld
<1>4. ASSUME NEW r \in Requests, Serve(r) PROVE Goal
  BY <1>4, ServeMoves, GateKept
<1>5. CASE Restart
  BY <1>5, <1>t DEF Restart, GateHeld, CentralAssumption
<1>6. CASE UNCHANGED <<gate, reqs>>
  BY <1>6, <1>t DEF GateHeld
<1>7. QED
  BY <1>1, <1>2, <1>3, <1>4, <1>5, <1>6, StepCases
     DEF Create, Consent, Withdraw, ReadInvocation, RevokeGrant, vars

\* The connection's record that a finished consent makes.
LEMMA StoreGives ==
    ASSUME CentralAssumption, TypeOK, NEW r \in Requests, Store(r)
    PROVE  LET c == reqs[r].ask.conn
               t == reqs[r].token
           IN  /\ t \in TokenPairs /\ c \in Connections
               /\ conns' \in [Connections -> ConnRecord]
               /\ \A d \in Connections : d # c => conns'[d] = conns[d]
               /\ conns'[c].status = "connected" /\ conns'[c].token = t
<1> DEFINE c == reqs[r].ask.conn
           t == reqs[r].token
           granted == {o \in conns[c].ops : Needs[o] \subseteq t.scopes}
           k == [conns[c] EXCEPT !.status = "connected", !.ops = granted, !.scopes = t.scopes,
                                 !.token = t]
<1>1. t \in TokenPairs /\ c \in Connections /\ conns[c] \in ConnRecord
  BY AtHand, RequestTyped, ZenonT(90) DEF Store, At
<1>2. conns' = [conns EXCEPT ![c] = k]
  BY ZenonT(90) DEF Store
<1>3. granted \in SUBSET Ops
  BY <1>1 DEF ConnRecord
<1>4. k \in ConnRecord
  BY <1>1, <1>3, RecordsTyped
<1>5. k.status = "connected" /\ k.token = t
  BY <1>1 DEF ConnRecord
<1> HIDE DEF k
<1>6. QED
  BY <1>1, <1>2, <1>4, <1>5, ZenonT(90) DEF TypeOK

\* Connections keep their types.
LEMMA ConnectionsTyped ==
    ASSUME CentralAssumption, TypeOK, [Next]_vars PROVE conns' \in [Connections -> ConnRecord]
<1>1. ASSUME NEW c \in Connections, NEW ops \in SUBSET Ops, Create(c, ops)
      PROVE  conns' \in [Connections -> ConnRecord]
  <2> DEFINE scopes == UNION {Needs[o] : o \in ops}
             status == IF c \in OAuth THEN "pending" ELSE "connected"
             k == [status |-> status, rev |-> 1, ops |-> ops, scopes |-> scopes, token |-> NoPair]
  <2>1. scopes \in SUBSET Scopes /\ status \in {"pending", "connected"}
    BY DEF CentralAssumption
  <2>3. conns' = [conns EXCEPT ![c] = k]
    BY <1>1 DEF Create
  <2> HIDE DEF scopes, status
  <2>2. k \in ConnRecord
    BY <2>1 DEF ConnRecord
  <2> HIDE DEF k
  <2>4. QED
    BY <2>2, <2>3, RecordsTyped
<1>2. ASSUME NEW r \in Requests, Disconnect(r) PROVE conns' \in [Connections -> ConnRecord]
  <2>1. reqs[r].ask.conn \in Connections
    BY <1>2, AtHand, ZenonT(90) DEF Disconnect, At
  <2>2. QED
    BY <1>2, <2>1, RecordsTyped DEF Disconnect
<1>3. ASSUME NEW r \in Requests, Serve(r) PROVE conns' \in [Connections -> ConnRecord]
  <2>1. CASE UNCHANGED conns
    BY <2>1 DEF TypeOK
  <2>2. QED
    BY <1>2, <1>3, <2>1, RestoreGives, StoreGives, ZenonT(90)
       DEF Serve, Redeem, Exchange, Bind, PresentRefresh, ProviderRefresh, Rebind, Replay,
           StartInvoke, Admit, Call, Finish, Refuse, vault
<1>4. CASE UNCHANGED conns
  BY <1>4 DEF TypeOK
<1>5. QED
  BY <1>1, <1>3, <1>4, StepCases
     DEF Consent, Withdraw, Arrive, Enter, GiveUp, ReadInvocation, RevokeGrant, Restart, vars, vault

\* Invocation records and answers keep their types.
LEMMA RecordsOfCallsTyped ==
    ASSUME CentralAssumption, TypeOK, [Next]_vars
    PROVE  /\ invs' \in [Keys -> Invocation]
           /\ told' \in [Keys -> SUBSET Finals]
           /\ executed' \in [Keys -> Nat]
<1> DEFINE Goal == /\ invs' \in [Keys -> Invocation]
                   /\ told' \in [Keys -> SUBSET Finals]
                   /\ executed' \in [Keys -> Nat]
<1>t. /\ invs \in [Keys -> Invocation] /\ told \in [Keys -> SUBSET Finals]
      /\ executed \in [Keys -> Nat]
      /\ \A k \in Keys : Outcome(invs[k]) \in SUBSET Finals
  BY DEF TypeOK, Outcome
<1>1. CASE UNCHANGED <<invs, told, executed>>
  BY <1>1, <1>t
<1>2. ASSUME NEW r \in Requests, Admit(r) PROVE Goal
  <2>1. Key(r) \in Keys /\ Body(reqs[r].ask) \in [op : Ops, rev : 1 .. 2]
    BY <1>2, AtHand, AskTyped DEF Admit, At
  <2>2. [status |-> "running", body |-> Body(reqs[r].ask)] \in Invocation
    BY <2>1 DEF Invocation
  <2>3. QED
    BY <1>2, <1>t, <2>1, <2>2 DEF Admit, history
<1>3. ASSUME NEW r \in Requests, Call(r) PROVE Goal
  <2>1. Key(r) \in Keys
    BY <1>3, AtHand DEF Call, At
  <2>2. UNCHANGED <<invs, told>>
    BY <1>3 DEF Call, vault
  <2>3. executed' = executed \/ executed' = [executed EXCEPT ![Key(r)] = @ + 1]
    BY <1>3 DEF Call
  <2>4. executed' \in [Keys -> Nat]
    BY <1>t, <2>1, <2>3
  <2>5. QED
    BY <1>t, <2>2, <2>4
<1>4. ASSUME NEW r \in Requests, Finish(r) PROVE Goal
  <2>1. Key(r) \in Keys /\ reqs[r].outcome \in Finals
    BY <1>4, AtHand, RequestTyped DEF Finish, At
  <2>2. [invs[Key(r)] EXCEPT !.status = reqs[r].outcome] \in Invocation
    BY <1>t, <2>1 DEF Invocation
  <2>3. invs' = [invs EXCEPT ![Key(r)] = [invs[Key(r)] EXCEPT !.status = reqs[r].outcome]]
    BY <1>4 DEF Finish
  <2>4. invs' \in [Keys -> Invocation]
    BY <1>t, <2>2, <2>3
  <2>5. told' \in [Keys -> SUBSET Finals]
    BY <1>4, <1>t, <2>1 DEF Finish
  <2>6. QED
    BY <1>4, <1>t, <2>4, <2>5 DEF Finish
<1>5. ASSUME NEW r \in Requests, Replay(r) PROVE Goal
  <2>1. Key(r) \in Keys
    BY <1>5, AtHand DEF Replay, At
  <2>2. QED
    BY <1>5, <1>t, <2>1 DEF Replay, vault
<1>6. ASSUME NEW k \in Keys, ReadInvocation(k) PROVE Goal
  BY <1>6, <1>t DEF ReadInvocation, vault
<1>7. CASE Restart
  <2>1. \A k \in Keys : [invs[k] EXCEPT !.status = "outcome_unknown"] \in Invocation
    BY <1>t, ZenonT(90) DEF Invocation, Finals
  <2>2. Recovered(invs) \in [Keys -> Invocation]
    BY <1>t, <2>1 DEF Recovered
  <2>3. QED
    BY <1>7, <1>t, <2>2 DEF Restart, history
<1>8. ASSUME NEW r \in Requests, Serve(r) PROVE Goal
  BY <1>1, <1>2, <1>3, <1>4, <1>5, <1>8, ZenonT(90)
     DEF Serve, Redeem, Exchange, Bind, Store, PresentRefresh, ProviderRefresh, Rebind, Restore,
         StartInvoke, Disconnect, Refuse, vault, history
<1>9. QED
  BY <1>1, <1>6, <1>7, <1>8, StepCases
     DEF Create, Consent, Withdraw, Arrive, Enter, GiveUp, RevokeGrant, vars, vault, history

\* Every step keeps the types.
LEMMA StepTyped ==
    ASSUME CentralAssumption, TypeOK, WellBound(bindings), CopiesCurrent, GrantsKept, [Next]_vars
    PROVE  TypeOK'
<1>1. reqs' \in [Requests -> RequestRecords] /\ GateHeld'
  BY RequestsTyped
<1>2. bindings' \in Bindings
  BY BindingsKept, ZenonT(90) DEF WellBound
<1>3. minted' \in 0 .. MaxTokens
  BY ExchangeGives, RefreshGives, StepCases, ZenonT(90)
     DEF TypeOK, Create, Consent, Withdraw, Arrive, Enter, GiveUp, RevokeGrant, ReadInvocation,
         Restart, vars, Serve, Redeem, Bind, Store, PresentRefresh, Rebind, Restore, Replay,
         StartInvoke, Admit, Call, Finish, Disconnect, Refuse
<1>4. ASSUME NEW r \in Requests, Serve(r)
      PROVE  UNCHANGED <<restarts, offered>> /\ (Exchange(r) \/ UNCHANGED exchanged)
             /\ (Redeem(r) \/ UNCHANGED txs)
  BY <1>4, ZenonT(90) DEF Serve, Redeem, Exchange, Bind, Store, PresentRefresh, ProviderRefresh, Rebind, Restore, Replay,
              StartInvoke, Admit, Call, Finish, Disconnect, Refuse, history
<1>5. restarts' \in 0 .. MaxRestarts /\ offered' \in [Connections -> BOOLEAN]
  <2>1. CASE UNCHANGED <<restarts, offered>>
    BY <2>1 DEF TypeOK
  <2>2. CASE Restart
    BY <2>2 DEF Restart, TypeOK, CentralAssumption
  <2>3. ASSUME NEW c \in Connections, Withdraw(c)
        PROVE  restarts' \in 0 .. MaxRestarts /\ offered' \in [Connections -> BOOLEAN]
    BY <2>3 DEF Withdraw, TypeOK
  <2>4. QED
    BY <1>4, <2>1, <2>2, <2>3, StepCases
       DEF Create, Consent, Withdraw, Arrive, Enter, GiveUp, RevokeGrant, ReadInvocation, Restart, vars
<1>6. txs' \in [Connections -> {"none", "pending", "ready", "consumed"}]
  <2>1. CASE UNCHANGED txs
    BY <2>1 DEF TypeOK
  <2>2. ASSUME NEW c, NEW s \in {"none", "pending", "ready", "consumed"},
               txs' = [txs EXCEPT ![c] = s]
        PROVE  txs' \in [Connections -> {"none", "pending", "ready", "consumed"}]
    BY <2>2 DEF TypeOK
  <2>3. QED
    BY <1>4, <2>1, <2>2, StepCases
       DEF Create, Consent, Withdraw, Arrive, Enter, GiveUp, RevokeGrant, ReadInvocation, Restart, vars, Redeem
<1>7. exchanged' \in [Connections -> Nat]
  <2>1. CASE UNCHANGED exchanged
    BY <2>1 DEF TypeOK
  <2>2. ASSUME NEW r \in Requests, Exchange(r) PROVE exchanged' \in [Connections -> Nat]
    <3>1. exchanged' = [exchanged EXCEPT ![reqs[r].ask.conn] = @ + 1]
      BY <2>2 DEF Exchange
    <3>2. reqs[r].ask.conn \in Connections /\ exchanged \in [Connections -> Nat]
      BY <2>2, AtHand DEF Exchange, At, TypeOK
    <3>3. QED
      BY <3>1, <3>2
  <2>3. QED
    BY <1>4, <2>1, <2>2, StepCases
       DEF Create, Consent, Withdraw, Arrive, Enter, GiveUp, RevokeGrant, ReadInvocation, Restart, vars, history
<1>8. QED
  BY <1>1, <1>2, <1>3, <1>4, <1>5, <1>6, <1>7, ConnectionsTyped, RecordsOfCallsTyped
     DEF TypeOK, GateHeld

-----------------------------------------------------------------------------
(* What the gate keeps *)

\* A step of the request inside leaves the others where they are: outside.
LEMMA OthersWait ==
    ASSUME CentralAssumption, TypeOK, CopiesCurrent, GrantsKept, NEW r \in Requests, Serve(r),
           NEW g \in Requests, g # r
    PROVE  reqs'[g].at \in {"idle", "waiting"}
<1>1. reqs[g].at \in {"idle", "waiting"}
  BY ServeMoves, OneInside
<1>2. reqs'[g] = reqs[g]
  BY ServeMoves DEF Leave, Move, TypeOK
<1>3. QED
  BY <1>1, <1>2

\* The request inside, after its step, is out or where WorksOn says.
LEMMA ServedMoves ==
    ASSUME CentralAssumption, TypeOK, CopiesCurrent, GrantsKept, NEW r \in Requests, Serve(r)
    PROVE  \/ reqs'[r].at = "idle"
           \/ /\ reqs'[r] \in RequestRecords /\ reqs'[r].at \in Inside
              /\ reqs'[r].ask = reqs[r].ask /\ WorksOn(r, reqs'[r])
<1>1. CASE Leave(r)
  BY <1>1 DEF Leave, Move, TypeOK, Idle
<1>2. CASE ~Leave(r)
  BY <1>2, ServeMoves, MovesTyped
<1>3. QED
  BY <1>1, <1>2

\* Other steps change nothing a request inside relies on.
LEMMA OutsideSteps ==
    ASSUME CentralAssumption, TypeOK, [Next]_vars, \A r \in Requests : ~Serve(r),
           NEW g \in Requests, reqs'[g].at \notin {"idle", "waiting", "entered"}
    PROVE  /\ reqs'[g] = reqs[g]
           /\ UNCHANGED <<conns, invs, exchanged, executed>>
           /\ \A c \in Connections : txs[c] = "consumed" => txs'[c] = "consumed"
<1> DEFINE Goal == /\ reqs'[g] = reqs[g]
                   /\ UNCHANGED <<conns, invs, exchanged, executed>>
                   /\ \A c \in Connections : txs[c] = "consumed" => txs'[c] = "consumed"
<1>1. ASSUME NEW c \in Connections, NEW ops \in SUBSET Ops, Create(c, ops) PROVE FALSE
  BY <1>1, NoneInside DEF Create
<1>2. ASSUME NEW c \in Connections, Consent(c) PROVE Goal
  BY <1>2 DEF Consent, vault, history, TypeOK
<1>3. ASSUME NEW r \in Requests, NEW q, Move(r, q), q.at \in {"idle", "waiting", "entered"},
             UNCHANGED <<vault, txs, history>>
      PROVE  Goal
  BY <1>3 DEF Move, vault, history, TypeOK
<1>4. ASSUME NEW r \in Requests, NEW ask \in Asks, Arrive(r, ask) PROVE Goal
  BY <1>3, <1>4 DEF Arrive
<1>5. ASSUME NEW r \in Requests, Enter(r) PROVE Goal
  <2>1. [reqs[r] EXCEPT !.at = "entered"].at = "entered"
    BY <1>5, AtHand, OnwardTyped DEF Enter, Onward
  <2>2. QED
    BY <1>3, <1>5, <2>1, ZenonT(90) DEF Enter
<1>6. ASSUME NEW r \in Requests, GiveUp(r) PROVE Goal
  <2>1. Idle.at = "idle"
    BY DEF Idle
  <2>2. QED
    BY <1>3, <1>6, <2>1 DEF GiveUp
<1>7. CASE Restart
  BY <1>7 DEF Restart, Idle
<1>8. CASE UNCHANGED <<reqs, vault, txs, exchanged, executed>>
  BY <1>8 DEF vault
<1>9. QED
  BY <1>1, <1>2, <1>4, <1>5, <1>6, <1>7, <1>8, StepCases
     DEF Withdraw, ReadInvocation, RevokeGrant, vars, vault, history

\* What each stage of a handler changes of the records it relies on.
LEMMA WorkKeepsRecords ==
    ASSUME NEW r \in Requests, NEW q, WorksOn(r, q)
    PROVE  /\ q.at # "prepared" => UNCHANGED conns
           /\ q.at = "prepared" => Restore(r) \/ UNCHANGED conns
           /\ q.at \notin {"calling"} => UNCHANGED invs
  BY ZenonT(90) DEF WorksOn, Redeem, Exchange, Bind, PresentRefresh, ProviderRefresh, Rebind, Restore,
         StartInvoke, Admit, Call, vault

\* A handler's copy of the connection's record stays the record until it leaves.
LEMMA CopiesStep ==
    ASSUME CentralAssumption, TypeOK, CopiesCurrent, GrantsKept, [Next]_vars PROVE CopiesCurrent'
<1> SUFFICES ASSUME NEW g \in Requests, reqs'[g].at \in Copied
             PROVE  LET c == reqs'[g].ask.conn
                    IN  /\ reqs'[g].held = conns'[c] /\ conns'[c].status = "connected"
                        /\ reqs'[g].at \in {"refreshing", "rebind", "restore"} =>
                              c \in OAuth /\ reqs'[g].ask.kind \in {"refresh", "invoke"}
                        /\ reqs'[g].ask.kind = "invoke" => reqs'[g].ask.rev = conns'[c].rev
                        /\ reqs'[g].at \in {"prepared", "calling", "finishing"} =>
                              reqs'[g].ask.kind = "invoke"
  BY DEF CopiesCurrent
<1>1. CASE \A r \in Requests : ~Serve(r)
  <2>1. reqs'[g] = reqs[g] /\ conns' = conns
    BY <1>1, OutsideSteps, ZenonT(90) DEF Copied
  <2>2. QED
    BY <2>1 DEF CopiesCurrent
<1>2. CASE Serve(g)
  <2> DEFINE q == reqs'[g]
             c == reqs[g].ask.conn
  <2>1. q.ask = reqs[g].ask /\ WorksOn(g, q) /\ q.at \in Copied
    BY <1>2, ServedMoves, ZenonT(90) DEF Copied
  <2> HIDE DEF q
  <2>2. CASE q.at = "refreshing"
    <3>1. conns' = conns /\ q.held = conns[c] /\ MayRefresh(g, c)
      BY <2>1, <2>2, WorkKeepsRecords, ZenonT(90) DEF WorksOn
    <3>2. \/ reqs[g].ask.kind = "refresh"
          \/ reqs[g].ask.kind = "invoke" /\ reqs[g].ask.rev = conns[c].rev
      BY <2>1, <2>2 DEF WorksOn, PresentRefresh, StartInvoke, MayInvoke, At
    <3>3. QED
      BY <2>1, <2>2, <3>1, <3>2 DEF MayRefresh, q
  <2>3. CASE q.at \in {"rebind", "restore"}
    <3>1. conns' = conns /\ q.held = reqs[g].held /\ reqs[g].at \in {"refreshing", "rebind"}
      BY <2>1, <2>3, WorkKeepsRecords, ZenonT(90) DEF WorksOn, ProviderRefresh, Rebind
    <3>2. QED
      BY <2>1, <2>3, <3>1, ZenonT(90) DEF CopiesCurrent, Copied, q
  <2>4. CASE q.at = "prepared" /\ StartInvoke(g)
    <3>1. conns' = conns /\ q.held = conns[c] /\ reqs[g].ask.kind = "invoke" /\ MayInvoke(reqs[g].ask)
      BY <2>1, <2>4 DEF WorksOn, StartInvoke, At, vault, Restore
    <3>2. QED
      BY <2>1, <2>4, <3>1, ZenonT(90) DEF MayInvoke, q
  <2>5. CASE q.at = "prepared" /\ Restore(g)
    <3>1. /\ conns[c].status = "connected" /\ reqs[g].at = "restore"
          /\ conns'[c].status = conns[c].status /\ conns'[c].rev = conns[c].rev
      BY <2>5, RestoreGives, ZenonT(90) DEF Restore
    <3>2. q.held = conns'[c] /\ reqs[g].ask.kind # "refresh"
      BY <2>1, <2>5, <3>1 DEF WorksOn, StartInvoke, At
    <3>3. QED
      BY <2>1, <2>5, <3>1, <3>2, ZenonT(90) DEF CopiesCurrent, Copied, q
  <2>6. CASE q.at \in {"calling", "finishing"}
    <3>1. conns' = conns /\ q.held = reqs[g].held /\ reqs[g].at \in {"prepared", "calling"}
      BY <2>1, <2>6, WorkKeepsRecords, ZenonT(90) DEF WorksOn, Admit, Call, At
    <3>2. QED
      BY <2>1, <2>6, <3>1, ZenonT(90) DEF CopiesCurrent, Copied, q
  <2>7. QED
    BY <2>1, <2>2, <2>3, <2>4, <2>5, <2>6 DEF Copied, WorksOn, q
<1>3. ASSUME NEW r \in Requests, Serve(r), r # g PROVE FALSE
  BY <1>3, OthersWait DEF Copied
<1>4. QED
  BY <1>1, <1>2, <1>3

\* An operation that was admitted stays covered and its record keeps running,
\* until its outcome is recorded.
LEMMA CallsStep ==
    ASSUME CentralAssumption, TypeOK, CopiesCurrent, GrantsKept, CallsRecorded, [Next]_vars
    PROVE  CallsRecorded'
<1> SUFFICES ASSUME NEW g \in Requests, reqs'[g].at \in {"calling", "finishing"}
             PROVE  /\ Needs[reqs'[g].ask.op] \subseteq conns'[reqs'[g].ask.conn].scopes
                    /\ invs'[<<reqs'[g].ask.conn, reqs'[g].ask.id>>].status = "running"
  BY DEF CallsRecorded, Key
<1>1. CASE \A r \in Requests : ~Serve(r)
  <2>1. reqs'[g] = reqs[g] /\ conns' = conns /\ invs' = invs
    BY <1>1, OutsideSteps
  <2>2. QED
    BY <2>1 DEF CallsRecorded, Key
<1>2. CASE Serve(g)
  <2> DEFINE q == reqs'[g]
             c == reqs[g].ask.conn
  <2>1. q.ask = reqs[g].ask /\ WorksOn(g, q) /\ q.at \in {"calling", "finishing"}
    BY <1>2, ServedMoves
  <2> HIDE DEF q
  <2>2. CASE q.at = "calling"
    <3>1. Admit(g) /\ conns' = conns
      BY <2>1, <2>2, WorkKeepsRecords DEF WorksOn
    <3>2. Needs[reqs[g].ask.op] \subseteq conns[c].scopes
      BY <3>1 DEF Admit, At, Held, CopiesCurrent, Copied
    <3>3. invs'[Key(g)].status = "running"
      BY <3>1, AtHand DEF Admit, At, TypeOK
    <3>4. QED
      BY <2>1, <3>1, <3>2, <3>3 DEF q, Key
  <2>3. CASE q.at = "finishing"
    <3>1. reqs[g].at = "calling" /\ conns' = conns /\ invs' = invs
      BY <2>1, <2>3, WorkKeepsRecords DEF WorksOn, Call, At
    <3>2. QED
      BY <2>1, <3>1 DEF CallsRecorded, Key, q
  <2>4. QED
    BY <2>1, <2>2, <2>3
<1>3. ASSUME NEW r \in Requests, Serve(r), r # g PROVE FALSE
  BY <1>3, OthersWait
<1>4. QED
  BY <1>1, <1>2, <1>3

\* The tokens a handler has received stay the owner's.
LEMMA TokensStep ==
    ASSUME CentralAssumption, TypeOK, CopiesCurrent, GrantsKept, TokensOwned, [Next]_vars
    PROVE  TokensOwned'
<1> SUFFICES ASSUME NEW g \in Requests, reqs'[g].at \in {"bind", "store", "rebind", "restore"}
             PROVE  /\ reqs'[g].token.owner = OwnerOf[reqs'[g].ask.conn]
                    /\ reqs'[g].at \in {"bind", "store"} => reqs'[g].ask.kind = "complete"
  BY DEF TokensOwned
<1>1. CASE \A r \in Requests : ~Serve(r)
  <2>1. reqs'[g] = reqs[g]
    BY <1>1, OutsideSteps
  <2>2. QED
    BY <2>1 DEF TokensOwned
<1>2. CASE Serve(g)
  <2> DEFINE q == reqs'[g]
  <2>1. q.ask = reqs[g].ask /\ WorksOn(g, q) /\ q.at \in {"bind", "store", "rebind", "restore"}
    BY <1>2, ServedMoves, ZenonT(90)
  <2> HIDE DEF q
  <2>2. CASE q.at \in {"bind", "rebind"}
    BY <2>1, <2>2 DEF WorksOn, Exchange, At, q
  <2>3. CASE q.at \in {"store", "restore"}
    BY <2>1, <2>3 DEF WorksOn, Bind, Rebind, At, TokensOwned, q
  <2>4. QED
    BY <2>1, <2>2, <2>3
<1>3. ASSUME NEW r \in Requests, Serve(r), r # g PROVE FALSE
  BY <1>3, OthersWait
<1>4. QED
  BY <1>1, <1>2, <1>3

-----------------------------------------------------------------------------
(* Grants *)

\* What a pair is bound to stays, whatever becomes of other tokens.
LEMMA PairStays ==
    ASSUME CentralAssumption, NEW bs, NEW new, Kept(bs, new), NEW t, NEW o, PairKept(bs, t, o)
    PROVE  PairKept(new, t, o)
<1>1. t \in TokenPairs /\ Values(t) \subseteq Tokens /\ t.access \in Values(t)
  BY ValuesOfPair DEF PairKept, CentralAssumption
<1>2. ASSUME NEW v \in Values(t)
      PROVE  IsBound(new, v) /\ new[v].owner = o /\ SameGrant(new[v], new[t.access])
  BY <1>1 DEF PairKept, Kept, SameGrant
<1>3. QED
  BY <1>1, <1>2 DEF PairKept

\* A live pair of the owner is bound whole.
LEMMA LivePair ==
    ASSUME NEW bs, NEW t \in TokenPairs, Live(bs, t) PROVE PairKept(bs, t, t.owner)
  BY DEF Live, Refreshable, PairKept, Values, SameGrant

\* A connected handle holds a pair that is bound whole, over every interleaving of
\* its own requests with consents, refreshes and revocations.
LEMMA GrantsStep ==
    ASSUME CentralAssumption, TypeOK, WellBound(bindings), CopiesCurrent, TokensOwned, GrantsKept,
           [Next]_vars
    PROVE  GrantsKept'
<1> SUFFICES ASSUME NEW c \in OAuth, conns'[c].status = "connected"
             PROVE  PairKept(bindings', conns'[c].token, OwnerOf[c])
  BY DEF GrantsKept
<1>t. c \in Connections /\ conns \in [Connections -> ConnRecord]
  BY DEF CentralAssumption, TypeOK
<1>1. CASE conns'[c].status = conns[c].status /\ conns'[c].token = conns[c].token
  BY <1>1, BindingsKept, PairStays DEF GrantsKept
<1>2. ASSUME NEW r \in Requests, Store(r) \/ Restore(r)
      PROVE  PairKept(bindings', conns'[c].token, OwnerOf[c])
  <2> DEFINE d == reqs[r].ask.conn
             t == reqs[r].token
  <2>1. /\ t \in TokenPairs /\ t.owner = OwnerOf[d]
        /\ conns'[d].token = t
        /\ c # d => conns'[c] = conns[c]
        /\ Live(bindings, t) /\ UNCHANGED bindings
    <3>1. CASE Store(r)
      BY <3>1, <1>t, StoreGives, ZenonT(90) DEF Store, At, TokensOwned
    <3>2. CASE Restore(r)
      BY <3>2, <1>t, RestoreGives, ZenonT(90) DEF Restore, TokensOwned
    <3>3. QED
      BY <1>2, <3>1, <3>2
  <2> HIDE DEF t
  <2>2. CASE c = d
    BY <2>1, <2>2, LivePair
  <2>3. CASE c # d
    BY <1>1, <2>1, <2>3
  <2>4. QED
    BY <2>2, <2>3
<1>3. ASSUME NEW r \in Requests, Disconnect(r)
      PROVE  PairKept(bindings', conns'[c].token, OwnerOf[c])
  <2> DEFINE d == reqs[r].ask.conn
  <2>1. conns' = [conns EXCEPT ![d] = Disconnected(d)] /\ d \in Connections
    BY <1>3, AtHand DEF Disconnect, At
  <2>2. Disconnected(d).status = "disconnected"
    BY <1>t, <2>1 DEF Disconnected, ConnRecord
  <2>3. c # d /\ conns'[c] = conns[c]
    BY <1>t, <2>1, <2>2
  <2>4. QED
    BY <1>1, <2>3
<1>4. ASSUME NEW d \in Connections, NEW ops \in SUBSET Ops, Create(d, ops)
      PROVE  PairKept(bindings', conns'[c].token, OwnerOf[c])
  <2>1. c # d /\ conns'[c] = conns[c]
    BY <1>t, <1>4, ZenonT(90) DEF Create
  <2>2. QED
    BY <1>1, <2>1
<1>5. ASSUME NEW r \in Requests, Serve(r), ~Store(r), ~Restore(r), ~Disconnect(r)
      PROVE  UNCHANGED conns
  BY <1>5, ZenonT(90) DEF Serve, Redeem, Exchange, Bind, PresentRefresh, ProviderRefresh, Rebind, Replay,
              StartInvoke, Admit, Call, Finish, Refuse, vault
<1>6. QED
  BY <1>1, <1>2, <1>3, <1>4, <1>5, StepCases
     DEF Consent, Withdraw, Arrive, Enter, GiveUp, ReadInvocation, RevokeGrant, Restart, vars, vault

-----------------------------------------------------------------------------
(* Codes *)

\* A connection's record changes only from one that exists, but for Create.
LEMMA StatusStays ==
    ASSUME CentralAssumption, TypeOK, NEW r \in Requests, Serve(r), NEW c \in Connections
    PROVE  conns'[c].status = "none" <=> conns[c].status = "none"
<1>t. conns \in [Connections -> ConnRecord]
  BY DEF TypeOK
<1>1. CASE UNCHANGED conns
  BY <1>1
<1>2. CASE Store(r)
  <2>1. conns[reqs[r].ask.conn].status = "pending"
    BY <1>2, ZenonT(90) DEF Store
  <2>2. QED
    BY <1>2, <2>1, StoreGives, ZenonT(90)
<1>3. CASE Restore(r)
  BY <1>3, <1>t, RestoreGives, ZenonT(90)
<1>4. CASE Disconnect(r)
  <2> DEFINE d == reqs[r].ask.conn
  <2>1. conns' = [conns EXCEPT ![d] = Disconnected(d)] /\ conns[d].status # "none" /\ d \in Connections
    BY <1>4, AtHand DEF Disconnect, At
  <2>2. Disconnected(d).status = "disconnected"
    BY <1>t, <2>1 DEF Disconnected, ConnRecord
  <2>3. QED
    BY <1>t, <2>1, <2>2
<1>5. QED
  BY <1>1, <1>2, <1>3, <1>4, ZenonT(90)
     DEF Serve, Redeem, Exchange, Bind, PresentRefresh, ProviderRefresh, Rebind, Replay,
         StartInvoke, Admit, Call, Finish, Refuse, vault

\* A code is consumed before it is exchanged, and nothing makes it fresh again.
LEMMA CodesStep ==
    ASSUME CentralAssumption, TypeOK, CopiesCurrent, GrantsKept, CodesSpentOnce, [Next]_vars
    PROVE  CodesSpentOnce'
<1> DEFINE Spent == \A c \in Connections :
                       /\ exchanged[c] <= 1
                       /\ conns[c].status = "none" \/ txs[c] \in {"pending", "ready"} => exchanged[c] = 0
<1>t. /\ txs \in [Connections -> {"none", "pending", "ready", "consumed"}]
      /\ exchanged \in [Connections -> Nat] /\ conns \in [Connections -> ConnRecord]
  BY DEF TypeOK
<1>s. Spent
  BY DEF CodesSpentOnce
<1>1. ASSUME NEW r \in Requests, Redeem(r) PROVE Spent'
  <2>1. /\ txs[reqs[r].ask.conn] = "ready" /\ txs' = [txs EXCEPT ![reqs[r].ask.conn] = "consumed"]
        /\ UNCHANGED <<conns, exchanged>>
    BY <1>1 DEF Redeem, vault, history
  <2>2. QED
    BY <1>t, <1>s, <2>1
<1>2. ASSUME NEW r \in Requests, Exchange(r) PROVE Spent'
  <2> DEFINE d == reqs[r].ask.conn
  <2>1. /\ exchanged' = [exchanged EXCEPT ![d] = @ + 1] /\ UNCHANGED <<conns, txs>>
        /\ d \in Connections
    BY <1>2, AtHand, ZenonT(90) DEF Exchange, At, vault
  <2>2. exchanged[d] = 0 /\ txs[d] = "consumed" /\ conns[d].status # "none"
    BY <1>2 DEF Exchange, At, CodesSpentOnce
  <2> HIDE DEF d
  <2>3. exchanged'[d] = 1 /\ \A c \in Connections : c # d => exchanged'[c] = exchanged[c]
    BY <1>t, <2>1, <2>2
  <2>4. QED
    BY <1>s, <2>1, <2>2, <2>3, SMTT(60)
<1>3. ASSUME NEW r \in Requests, Serve(r), ~Redeem(r), ~Exchange(r) PROVE Spent'
  <2>1. UNCHANGED <<txs, exchanged>>
    BY <1>3, ZenonT(90) DEF Serve, Bind, Store, PresentRefresh, ProviderRefresh, Rebind, Restore, Replay,
                StartInvoke, Admit, Call, Finish, Disconnect, Refuse, history
  <2>2. QED
    BY <1>s, <1>3, <2>1, StatusStays, ZenonT(90)
<1>4. ASSUME NEW c \in Connections, NEW ops \in SUBSET Ops, Create(c, ops) PROVE Spent'
  <2>1. /\ conns[c].status = "none" /\ UNCHANGED exchanged
        /\ \A d \in Connections : d # c => conns'[d] = conns[d] /\ txs'[d] = txs[d]
    BY <1>t, <1>4 DEF Create, history
  <2>2. QED
    BY <1>s, <2>1
<1>5. ASSUME NEW c \in Connections, Consent(c) PROVE Spent'
  <2>1. /\ txs[c] = "pending" /\ UNCHANGED <<conns, exchanged>>
        /\ \A d \in Connections : d # c => txs'[d] = txs[d]
    BY <1>t, <1>5 DEF Consent, history, vault
  <2>2. QED
    BY <1>s, <2>1
<1>6. ASSUME UNCHANGED <<conns, exchanged>>,
             \A c \in Connections : txs'[c] = txs[c] \/ txs'[c] = "none"
      PROVE  Spent'
  <2>1. ASSUME NEW c \in Connections
        PROVE  /\ exchanged'[c] <= 1
               /\ conns'[c].status = "none" \/ txs'[c] \in {"pending", "ready"} =>
                     exchanged'[c] = 0
    <3>1. conns'[c] = conns[c] /\ exchanged'[c] = exchanged[c]
      BY <1>6
    <3>2. txs'[c] \in {"pending", "ready"} => txs'[c] = txs[c]
      BY <1>6
    <3>3. QED
      BY <1>s, <3>1, <3>2
  <2>2. QED
    BY <2>1
<1> HIDE DEF Spent
<1>7. ASSUME Restart \/ UNCHANGED <<conns, txs, exchanged>> PROVE Spent'
  <2>1. UNCHANGED <<conns, exchanged>>
    BY <1>7 DEF Restart, history
  <2>2. \A c \in Connections : txs'[c] = txs[c] \/ txs'[c] = "none"
    BY <1>7 DEF Restart
  <2>3. QED
    BY <1>6, <2>1, <2>2
<1>8. Spent'
  <2>1. ASSUME NEW r \in Requests, Serve(r) PROVE Spent'
    BY <1>1, <1>2, <1>3, <2>1
  <2>2. QED
    BY <1>4, <1>5, <1>7, <2>1, StepCases
       DEF Withdraw, Arrive, Enter, GiveUp, ReadInvocation, RevokeGrant, vars, vault, history
<1>9. ASSUME NEW g \in Requests, reqs'[g].at = "exchange"
      PROVE  LET c == reqs'[g].ask.conn
             IN  /\ reqs'[g].ask.kind = "complete"
                 /\ exchanged'[c] = 0 /\ txs'[c] = "consumed" /\ conns'[c].status # "none"
  <2>1. CASE \A r \in Requests : ~Serve(r)
    <3>1. /\ reqs'[g] = reqs[g] /\ UNCHANGED <<conns, exchanged>>
          /\ \A c \in Connections : txs[c] = "consumed" => txs'[c] = "consumed"
      BY <1>9, <2>1, OutsideSteps
    <3>2. reqs[g].ask.conn \in Connections
      BY <1>9, <3>1, AtHand
    <3>3. QED
      BY <1>9, <3>1, <3>2 DEF CodesSpentOnce
  <2>2. CASE Serve(g)
    <3>1. reqs'[g].ask = reqs[g].ask /\ Redeem(g)
      BY <1>9, <2>2, ServedMoves DEF WorksOn
    <3>2. reqs[g].ask.conn \in Connections
      BY <3>1, AtHand DEF Redeem, At
    <3>3. QED
      BY <1>t, <1>s, <3>1, <3>2 DEF Redeem, At, vault, history, Spent
  <2>3. ASSUME NEW r \in Requests, Serve(r), r # g PROVE FALSE
    BY <1>9, <2>3, OthersWait
  <2>4. QED
    BY <2>1, <2>2, <2>3
<1>10. QED
  BY <1>8, <1>9 DEF CodesSpentOnce, Spent

-----------------------------------------------------------------------------
(* Invocations *)

\* What is told of an invocation is final: its record leaves "running" once, by
\* the outcome that is told.
LEMMA AnswersStep ==
    ASSUME CentralAssumption, TypeOK, CallsRecorded, AnswersRecorded, [Next]_vars
    PROVE  AnswersRecorded'
<1>t. /\ invs \in [Keys -> Invocation] /\ told \in [Keys -> SUBSET Finals]
      /\ "running" \notin Finals /\ "none" \notin Finals
  BY DEF TypeOK, Finals
<1>u. \A k \in Keys : invs[k].status \notin Finals => told[k] = {}
  BY <1>t DEF AnswersRecorded
<1>1. CASE UNCHANGED <<invs, told>>
  BY <1>1 DEF AnswersRecorded
<1>2. ASSUME NEW k \in Keys, UNCHANGED invs,
             told' = [told EXCEPT ![k] = @ \union Outcome(invs[k])]
      PROVE  AnswersRecorded'
  BY <1>t, <1>2 DEF AnswersRecorded, Outcome
<1>3. ASSUME NEW k \in Keys, NEW i, invs[k].status \notin Finals, invs' = [invs EXCEPT ![k] = i],
             told' = told \/ told' = [told EXCEPT ![k] = @ \union {i.status}]
      PROVE  AnswersRecorded'
  <2>1. told[k] = {} /\ invs'[k] = i
        /\ \A j \in Keys : j # k => invs'[j] = invs[j] /\ told'[j] = told[j]
    BY <1>t, <1>u, <1>3
  <2>2. told'[k] \subseteq {i.status}
    BY <1>t, <1>3, <2>1
  <2>3. QED
    BY <2>1, <2>2 DEF AnswersRecorded
<1>4. ASSUME NEW r \in Requests, Admit(r) PROVE AnswersRecorded'
  <2>1. Key(r) \in Keys
    BY <1>4, AtHand DEF Admit, At
  <2>2. invs[Key(r)].status \notin Finals
    BY <1>4, <1>t DEF Admit
  <2>3. QED
    BY <1>3, <1>4, <2>1, <2>2 DEF Admit, history
<1>5. ASSUME NEW r \in Requests, Finish(r) PROVE AnswersRecorded'
  <2> DEFINE i == [invs[Key(r)] EXCEPT !.status = reqs[r].outcome]
  <2>1. Key(r) \in Keys
    BY <1>5, AtHand DEF Finish, At
  <2>2. invs[Key(r)].status \notin Finals
    BY <1>5, <1>t DEF Finish, At, CallsRecorded
  <2>3. i.status = reqs[r].outcome
    BY <1>t, <2>1 DEF Invocation
  <2>4. /\ invs' = [invs EXCEPT ![Key(r)] = i]
        /\ told' = told \/ told' = [told EXCEPT ![Key(r)] = @ \union {reqs[r].outcome}]
    BY <1>5 DEF Finish
  <2> HIDE DEF i
  <2>5. QED
    BY <1>3, <2>1, <2>2, <2>3, <2>4
<1>6. ASSUME NEW r \in Requests, Replay(r) PROVE AnswersRecorded'
  <2>1. Key(r) \in Keys
    BY <1>6, AtHand DEF Replay, At
  <2>2. QED
    BY <1>2, <1>6, <2>1, ZenonT(90) DEF Replay, vault
<1>7. CASE Restart
  <2>1. told' = told /\ \A k \in Keys : invs[k].status \in Finals => invs'[k] = invs[k]
    BY <1>t, <1>7 DEF Restart, Recovered, history
  <2>2. QED
    BY <1>t, <1>u, <2>1 DEF AnswersRecorded
<1>8. ASSUME NEW r \in Requests, Serve(r) PROVE AnswersRecorded'
  BY <1>1, <1>4, <1>5, <1>6, <1>8, ZenonT(90)
     DEF Serve, Redeem, Exchange, Bind, Store, PresentRefresh, ProviderRefresh, Rebind, Restore,
         StartInvoke, Call, Disconnect, Refuse, vault, history
<1>9. QED
  BY <1>1, <1>2, <1>7, <1>8, StepCases
     DEF Create, Consent, Withdraw, Arrive, Enter, GiveUp, ReadInvocation, RevokeGrant, vars,
         vault, history

\* The provider carries out an operation once at most, for a record that runs.
LEMMA ExecutionsStep ==
    ASSUME CentralAssumption, TypeOK, CopiesCurrent, GrantsKept, CallsRecorded, ExecutionsCounted,
           [Next]_vars
    PROVE  ExecutionsCounted'
<1>t. invs \in [Keys -> Invocation] /\ executed \in [Keys -> Nat]
  BY DEF TypeOK
<1>1. ASSUME NEW k \in Keys, invs'[k].status = "none" PROVE executed'[k] = 0
  <2>1. CASE UNCHANGED <<invs, executed>>
    BY <1>1, <2>1 DEF ExecutionsCounted
  <2>2. ASSUME NEW r \in Requests, Admit(r) \/ Finish(r) PROVE executed'[k] = 0
    <3> DEFINE o == IF Admit(r) THEN "running" ELSE reqs[r].outcome
    <3>1. Key(r) \in Keys /\ UNCHANGED executed
      BY <2>2, AtHand DEF Admit, Finish, At, history
    <3>2. k # Key(r)
      <4>1. CASE Admit(r)
        BY <1>t, <1>1, <3>1, <4>1 DEF Admit
      <4>2. CASE Finish(r)
        <5>1. reqs[r].outcome # "none"
          BY <4>2, AtHand, RequestTyped DEF Finish, At, Finals
        <5>2. invs'[Key(r)].status = reqs[r].outcome
          BY <1>t, <3>1, <4>2 DEF Finish, Invocation
        <5>3. QED
          BY <1>1, <5>1, <5>2
      <4>3. QED
        BY <2>2, <4>1, <4>2
    <3>3. invs'[k] = invs[k]
      BY <1>t, <2>2, <3>1, <3>2 DEF Admit, Finish
    <3>4. QED
      BY <1>1, <3>1, <3>3 DEF ExecutionsCounted
  <2>3. ASSUME NEW r \in Requests, Call(r) PROVE executed'[k] = 0
    <3>1. invs' = invs /\ invs[Key(r)].status = "running"
      BY <2>3 DEF Call, At, CallsRecorded, vault
    <3>2. k # Key(r)
      BY <1>1, <3>1
    <3>3. executed'[k] = executed[k]
      BY <1>t, <2>3, <3>2 DEF Call
    <3>4. QED
      BY <1>1, <3>1, <3>3 DEF ExecutionsCounted
  <2>4. CASE Restart
    <3>1. invs'[k].status = "none" => invs[k].status = "none"
      BY <1>t, <2>4, ZenonT(90) DEF Restart, Recovered, Invocation
    <3>2. QED
      BY <1>1, <2>4, <3>1 DEF Restart, history, ExecutionsCounted
  <2>5. ASSUME NEW r \in Requests, Serve(r) PROVE executed'[k] = 0
    BY <2>1, <2>2, <2>3, <2>5, ZenonT(90)
       DEF Serve, Redeem, Exchange, Bind, Store, PresentRefresh, ProviderRefresh, Rebind, Restore,
           Replay, StartInvoke, Disconnect, Refuse, vault, history
  <2>6. QED
    BY <2>1, <2>4, <2>5, StepCases
       DEF Create, Consent, Withdraw, Arrive, Enter, GiveUp, ReadInvocation, RevokeGrant, vars,
           vault, history
<1>2. ASSUME NEW g \in Requests, reqs'[g].at \in {"calling", "finishing"}
      PROVE  LET k == <<reqs'[g].ask.conn, reqs'[g].ask.id>>
             IN  /\ reqs'[g].at = "calling" => executed'[k] = 0
                 /\ reqs'[g].at = "finishing" /\ reqs'[g].outcome = "succeeded" => executed'[k] = 1
  <2>1. CASE \A r \in Requests : ~Serve(r)
    <3>1. reqs'[g] = reqs[g] /\ UNCHANGED executed
      BY <1>2, <2>1, OutsideSteps
    <3>2. QED
      BY <3>1 DEF ExecutionsCounted, Key
  <2>2. CASE Serve(g)
    <3> DEFINE q == reqs'[g]
    <3>1. q.ask = reqs[g].ask /\ WorksOn(g, q)
      BY <1>2, <2>2, ServedMoves
    <3> HIDE DEF q
    <3>2. CASE q.at = "calling"
      <4>1. Admit(g)
        BY <3>1, <3>2 DEF WorksOn
      <4>2. Key(g) \in Keys /\ executed' = executed /\ invs[Key(g)].status = "none"
        BY <4>1, AtHand DEF Admit, At, history
      <4>3. QED
        BY <3>1, <3>2, <4>2 DEF ExecutionsCounted, Key, q
    <3>3. CASE q.at = "finishing"
      <4>1. Call(g) /\ (q.outcome = "succeeded" => executed' = [executed EXCEPT ![Key(g)] = @ + 1])
        BY <3>1, <3>3 DEF WorksOn
      <4>2. Key(g) \in Keys /\ executed[Key(g)] = 0
        BY <4>1, AtHand DEF Call, At, ExecutionsCounted
      <4>3. q.outcome = "succeeded" => executed'[Key(g)] = 1
        BY <1>t, <4>1, <4>2
      <4>4. QED
        BY <3>1, <3>3, <4>3 DEF Key, q
    <3>4. QED
      BY <1>2, <3>2, <3>3 DEF q
  <2>3. ASSUME NEW r \in Requests, Serve(r), r # g PROVE FALSE
    BY <1>2, <2>3, OthersWait
  <2>4. QED
    BY <2>1, <2>2, <2>3
<1>3. QED
  BY <1>1, <1>2 DEF ExecutionsCounted, Key

-----------------------------------------------------------------------------
(* The invariant, and what follows from it *)

\* The service starts with nothing connected, invoked or bound.
LEMMA InitHolds == ASSUME CentralAssumption PROVE Init => IInv
<1> SUFFICES ASSUME Init PROVE IInv
  OBVIOUS
<1>1. Blank \in ConnRecord /\ Blank.status = "none"
  BY DEF Blank, ConnRecord
<1>2. Idle \in RequestRecords /\ Idle.at = "idle" /\ NoInvocation \in Invocation
      /\ NoInvocation.status = "none"
  BY DEF Idle, RequestRecords, NoInvocation, Invocation
<1>3. WellBound(bindings)
  BY NothingBound DEF Init, CentralAssumption
<1>4. TypeOK
  <2>1. \A r \in Requests : gate = r <=> reqs[r].at \in Inside
    BY <1>2 DEF Init, Inside, CentralAssumption
  <2>2. minted \in 0 .. MaxTokens /\ restarts \in 0 .. MaxRestarts
    BY DEF Init, CentralAssumption
  <2>3. conns \in [Connections -> ConnRecord] /\ reqs \in [Requests -> RequestRecords]
        /\ invs \in [Keys -> Invocation]
    BY <1>1, <1>2 DEF Init
  <2>4. /\ txs \in [Connections -> {"none", "pending", "ready", "consumed"}]
        /\ offered \in [Connections -> BOOLEAN]
        /\ exchanged \in [Connections -> Nat] /\ executed \in [Keys -> Nat]
        /\ told \in [Keys -> SUBSET Finals]
    BY DEF Init
  <2>5. QED
    BY <1>3, <2>1, <2>2, <2>3, <2>4 DEF TypeOK, WellBound
<1>5. CopiesCurrent /\ CallsRecorded /\ TokensOwned
  BY <1>2 DEF Init, CopiesCurrent, CallsRecorded, TokensOwned, Copied
<1>6. GrantsKept
  BY <1>1 DEF Init, GrantsKept, CentralAssumption
<1>7. CodesSpentOnce
  BY <1>2 DEF Init, CodesSpentOnce
<1>8. AnswersRecorded /\ ExecutionsCounted
  BY <1>2 DEF Init, AnswersRecorded, ExecutionsCounted
<1>9. QED
  BY <1>3, <1>4, <1>5, <1>6, <1>7, <1>8 DEF IInv

\* The invariant is inductive.
LEMMA StepHolds == ASSUME CentralAssumption PROVE IInv /\ [Next]_vars => IInv'
<1> SUFFICES ASSUME IInv, [Next]_vars PROVE IInv'
  OBVIOUS
<1>1. TypeOK /\ WellBound(bindings) /\ CopiesCurrent /\ CallsRecorded /\ TokensOwned /\ GrantsKept
      /\ CodesSpentOnce /\ AnswersRecorded /\ ExecutionsCounted
  BY DEF IInv
<1>2. TypeOK' /\ WellBound(bindings')
  BY <1>1, StepTyped, BindingsKept
<1>3. CopiesCurrent' /\ CallsRecorded' /\ TokensOwned'
  BY <1>1, CopiesStep, CallsStep, TokensStep
<1>4. GrantsKept' /\ CodesSpentOnce'
  BY <1>1, GrantsStep, CodesStep
<1>5. AnswersRecorded' /\ ExecutionsCounted'
  BY <1>1, AnswersStep, ExecutionsStep
<1>6. QED
  BY <1>2, <1>3, <1>4, <1>5 DEF IInv

LEMMA Invariance == CentralAssumption => (Spec => []IInv)
<1> SUFFICES ASSUME CentralAssumption PROVE Spec => []IInv
  OBVIOUS
<1>1. Init => IInv
  BY InitHolds
<1>2. IInv /\ [Next]_vars => IInv'
  BY StepHolds
<1>3. QED
  BY <1>1, <1>2, PTL DEF Spec

\* What the invariant says of answers, codes and grants.
LEMMA InvariantMeans ==
    ASSUME CentralAssumption, IInv
    PROVE  /\ TypeOK /\ AnswersAgree /\ CodeExchangedOnce /\ GrantRevokedWhole
           /\ StoredTokensAreBound
<1>1. TypeOK /\ CodeExchangedOnce /\ GrantRevokedWhole
  BY DEF IInv, CodesSpentOnce, CodeExchangedOnce, WellBound, GrantRevokedWhole
<1>2. AnswersAgree
  BY DEF IInv, AnswersRecorded, AnswersAgree
<1>3. StoredTokensAreBound
  BY DEF IInv, GrantsKept, PairKept, StoredTokensAreBound
<1>4. QED
  BY <1>1, <1>2, <1>3

\* Type correctness, with the gate: exactly the request inside holds it.
THEOREM TypeCorrect == CentralAssumption => (Spec => []TypeOK)
<1> SUFFICES ASSUME CentralAssumption PROVE Spec => []TypeOK
  OBVIOUS
<1>1. IInv => TypeOK
  BY DEF IInv
<1>2. QED
  BY <1>1, Invariance, PTL

\* The answers about one invocation, from the call itself, from retries under the
\* same identifier, from the lock-free route and over restarts, never disagree.
THEOREM AnswersNeverDisagree == CentralAssumption => (Spec => []AnswersAgree)
<1> SUFFICES ASSUME CentralAssumption PROVE Spec => []AnswersAgree
  OBVIOUS
<1>1. IInv => AnswersAgree
  BY InvariantMeans
<1>2. QED
  BY <1>1, Invariance, PTL

\* What a connected handle holds in the vault is bound whole at the broker, though
\* each has a store of its own and revocations take no gate.
THEOREM StoredTokensBound == CentralAssumption => (Spec => []StoredTokensAreBound)
<1> SUFFICES ASSUME CentralAssumption PROVE Spec => []StoredTokensAreBound
  OBVIOUS
<1>1. IInv => StoredTokensAreBound
  BY InvariantMeans
<1>2. QED
  BY <1>1, Invariance, PTL

\* A revoked grant keeps no token that works: consents and refreshes under way when
\* it was revoked bind nothing to it (bindTokenInState, bindRefreshedToken, revoke).
THEOREM GrantsRevokedWhole == CentralAssumption => (Spec => []GrantRevokedWhole)
<1> SUFFICES ASSUME CentralAssumption PROVE Spec => []GrantRevokedWhole
  OBVIOUS
<1>1. IInv => GrantRevokedWhole
  BY InvariantMeans
<1>2. QED
  BY <1>1, Invariance, PTL

\* A code goes to the provider at most once, whatever fails after it (CompleteCentral).
THEOREM CodesExchangedOnce == CentralAssumption => (Spec => []CodeExchangedOnce)
<1> SUFFICES ASSUME CentralAssumption PROVE Spec => []CodeExchangedOnce
  OBVIOUS
<1>1. IInv => CodeExchangedOnce
  BY InvariantMeans
<1>2. QED
  BY <1>1, Invariance, PTL

\* The checks an invoke made before the provider is called still hold when it is.
LEMMA CallsHold == ASSUME CentralAssumption PROVE IInv => CallsUnderGrant
<1> SUFFICES ASSUME IInv, NEW r \in Requests, reqs[r].at = "calling"
             PROVE  LET c == reqs[r].ask.conn
                    IN  /\ conns[c].status = "connected"
                        /\ conns[c].rev = reqs[r].ask.rev
                        /\ Needs[reqs[r].ask.op] \subseteq conns[c].scopes
  BY DEF CallsUnderGrant
<1>1. QED
  BY DEF IInv, CopiesCurrent, Copied, CallsRecorded

\* The provider hears of an operation only while its connection is connected, under
\* the revision the caller named and scopes that cover it (invoke).
THEOREM CallsUnderItsGrant == CentralAssumption => (Spec => CallsUnderCurrentGrant)
<1> SUFFICES ASSUME CentralAssumption PROVE Spec => CallsUnderCurrentGrant
  OBVIOUS
<1>1. IInv /\ [Next]_vars => [CallsUnderGrant]_vars
  BY CallsHold
<1>2. QED
  BY <1>1, Invariance, PTL DEF Spec, CallsUnderCurrentGrant

\* Only Finish publishes an outcome, and it looks at the grant again.
LEMMA PublishesHold == ASSUME CentralAssumption PROVE IInv /\ [Next]_vars => PublishesUnderGrant
<1> SUFFICES ASSUME IInv, [Next]_vars, NEW k \in Keys, k[1] \in OAuth,
                    invs[k].status = "running", invs'[k].status \in {"succeeded", "failed"}
             PROVE  ~bindings[conns[k[1]].token.access].revoked
  BY DEF PublishesUnderGrant
<1>t. TypeOK /\ CopiesCurrent /\ invs \in [Keys -> Invocation]
  BY DEF IInv, TypeOK
<1>1. ASSUME NEW r \in Requests, Finish(r) PROVE ~bindings[conns[k[1]].token.access].revoked
  <2>1. k = Key(r)
    BY <1>1, <1>t, ZenonT(90) DEF Finish
  <2>2. k[1] = reqs[r].ask.conn /\ reqs[r].held = conns[reqs[r].ask.conn]
    BY <1>1, <1>t, <2>1 DEF Key, Finish, At, CopiesCurrent, Copied
  <2>3. Live(bindings, conns[k[1]].token)
    BY <1>1, <2>2 DEF Finish, TokenLive, Held
  <2>4. QED
    BY <2>3 DEF Live
<1>2. ASSUME NEW r \in Requests, Admit(r) PROVE FALSE
  BY <1>2, <1>t DEF Admit
<1>3. ~Restart
  BY <1>t DEF Restart, Recovered, Invocation
<1>4. ~UNCHANGED invs
  BY <1>t, ZenonT(90)
<1>5. ASSUME NEW r \in Requests, Serve(r), ~Finish(r), ~Admit(r) PROVE FALSE
  BY <1>4, <1>5, ZenonT(90)
     DEF Serve, Redeem, Exchange, Bind, Store, PresentRefresh, ProviderRefresh, Rebind, Restore,
         Replay, StartInvoke, Call, Disconnect, Refuse, vault
<1>6. QED
  BY <1>1, <1>2, <1>3, <1>4, <1>5, StepCases
     DEF Create, Consent, Withdraw, Arrive, Enter, GiveUp, ReadInvocation, RevokeGrant, vars, vault

\* Nothing done under a grant is published once the broker has revoked it, though
\* the broker's revocation takes no part in the gate.
THEOREM PublishesUnderItsGrant == CentralAssumption => (Spec => RevokedOutcomesStayUnknown)
<1> SUFFICES ASSUME CentralAssumption PROVE Spec => RevokedOutcomesStayUnknown
  OBVIOUS
<1>1. IInv /\ [Next]_vars => [PublishesUnderGrant]_vars
  BY PublishesHold
<1>2. QED
  BY <1>1, Invariance, PTL DEF Spec, RevokedOutcomesStayUnknown

-----------------------------------------------------------------------------
(* Central execution is a log of invocations *)

\* How one step changes the records and the provider's effects.
LogStep(status, newStatus) ==
    \/ newStatus = status /\ UNCHANGED executed
    \/ \E k \in Keys :
          /\ status[k] = "none" /\ newStatus = [status EXCEPT ![k] = "running"]
          /\ UNCHANGED executed
    \/ \E k \in Keys :
          /\ status[k] = "running" /\ newStatus = status
          /\ executed[k] = 0 /\ executed' = [executed EXCEPT ![k] = 1]
    \/ \E k \in Keys, o \in Finals :
          /\ status[k] = "running" /\ newStatus = [status EXCEPT ![k] = o]
          /\ o = "succeeded" => executed[k] = 1
          /\ UNCHANGED executed
    \/ /\ newStatus = [k \in Keys |-> IF status[k] = "running" THEN "outcome_unknown" ELSE status[k]]
       /\ UNCHANGED executed

StatusOf(is) == [k \in Keys |-> is[k].status]

\* Every step accepts, executes, settles or interrupts, or changes neither.
LEMMA StepLogs ==
    ASSUME CentralAssumption PROVE IInv /\ [Next]_vars => LogStep(StatusOf(invs), StatusOf(invs'))
<1> SUFFICES ASSUME IInv, [Next]_vars PROVE LogStep(StatusOf(invs), StatusOf(invs'))
  OBVIOUS
<1> DEFINE s == StatusOf(invs)
           n == StatusOf(invs')
<1>t. TypeOK /\ invs \in [Keys -> Invocation] /\ executed \in [Keys -> Nat]
  BY DEF IInv, TypeOK
<1>s. /\ \A k \in Keys : s[k] = invs[k].status
      /\ \A k \in Keys : \A i : invs' = [invs EXCEPT ![k] = i] => n = [s EXCEPT ![k] = i.status]
  BY <1>t DEF StatusOf
<1>1. CASE UNCHANGED <<invs, executed>>
  BY <1>1 DEF LogStep
<1>2. ASSUME NEW r \in Requests, Admit(r) PROVE LogStep(s, n)
  <2>1. Key(r) \in Keys /\ s[Key(r)] = "none" /\ UNCHANGED executed
    BY <1>2, <1>t, <1>s, AtHand DEF Admit, At, history
  <2>2. n = [s EXCEPT ![Key(r)] = "running"]
    <3> DEFINE i == [status |-> "running", body |-> Body(reqs[r].ask)]
    <3>1. i.status = "running" /\ invs' = [invs EXCEPT ![Key(r)] = i]
      BY <1>2 DEF Admit
    <3> HIDE DEF i, n
    <3>2. n = [s EXCEPT ![Key(r)] = i.status]
      BY <1>s, <2>1, <3>1
    <3>3. QED
      BY <3>1, <3>2
  <2> HIDE DEF s, n
  <2>3. QED
    BY <2>1, <2>2 DEF LogStep
<1>3. ASSUME NEW r \in Requests, Call(r) PROVE LogStep(s, n)
  <2>1. Key(r) \in Keys /\ invs' = invs /\ s[Key(r)] = "running" /\ executed[Key(r)] = 0
    BY <1>3, <1>t, <1>s, AtHand DEF Call, At, vault, IInv, CallsRecorded, ExecutionsCounted
  <2>2. executed' = executed \/ executed' = [executed EXCEPT ![Key(r)] = 1]
    BY <1>3, <1>t, <2>1 DEF Call
  <2>3. n = s
    BY <2>1
  <2> HIDE DEF s, n
  <2>4. QED
    BY <2>1, <2>2, <2>3 DEF LogStep
<1>4. ASSUME NEW r \in Requests, Finish(r) PROVE LogStep(s, n)
  <2> DEFINE o == reqs[r].outcome
             i == [invs[Key(r)] EXCEPT !.status = o]
  <2>1. /\ Key(r) \in Keys /\ o \in Finals /\ s[Key(r)] = "running" /\ UNCHANGED executed
        /\ o = "succeeded" => executed[Key(r)] = 1
    BY <1>4, <1>t, <1>s, AtHand, RequestTyped
       DEF Finish, At, IInv, CallsRecorded, ExecutionsCounted
  <2>2. i.status = o
    BY <1>t, <2>1 DEF Invocation
  <2>3. invs' = [invs EXCEPT ![Key(r)] = i]
    BY <1>4 DEF Finish
  <2> HIDE DEF i, o
  <2>4. n = [s EXCEPT ![Key(r)] = o]
    BY <1>s, <2>1, <2>2, <2>3, ZenonT(90)
  <2> HIDE DEF s, n
  <2>5. QED
    BY <2>1, <2>4 DEF LogStep
<1>5. ASSUME Restart PROVE LogStep(s, n)
  <2>1. \A k \in Keys : n[k] = IF s[k] = "running" THEN "outcome_unknown" ELSE s[k]
    BY <1>5, <1>t DEF Restart, Recovered, StatusOf, Invocation
  <2>2. n = [k \in Keys |-> n[k]]
    BY DEF StatusOf
  <2>3. UNCHANGED executed
    BY <1>5 DEF Restart, history
  <2> HIDE DEF s, n
  <2>4. n = [k \in Keys |-> IF s[k] = "running" THEN "outcome_unknown" ELSE s[k]]
    BY <2>1, <2>2
  <2>5. QED
    BY <2>3, <2>4, Zenon DEF LogStep
<1>6. ASSUME NEW r \in Requests, Serve(r), ~Admit(r), ~Call(r), ~Finish(r)
      PROVE  UNCHANGED <<invs, executed>>
  BY <1>6, ZenonT(90)
     DEF Serve, Redeem, Exchange, Bind, Store, PresentRefresh, ProviderRefresh, Rebind, Restore,
         Replay, StartInvoke, Disconnect, Refuse, vault, history
<1>7. QED
  BY <1>1, <1>2, <1>3, <1>4, <1>5, <1>6, StepCases
     DEF Create, Consent, Withdraw, Arrive, Enter, GiveUp, ReadInvocation, RevokeGrant, vars, vault,
         history

\* Central execution implements the log of invocations: an identifier is admitted
\* once, carried out at most once and only while it runs, and its outcome is final,
\* over host retries and restarts.
THEOREM ExecutionIsLogged == CentralAssumption => (Spec => ImplementsInvocationLog)
<1> SUFFICES ASSUME CentralAssumption PROVE Spec => ImplementsInvocationLog
  OBVIOUS
<1>1. Init => Log!LogInit
  BY DEF Init, NoInvocation, Log!LogInit
<1>2. IInv /\ [Next]_vars => [Log!LogNext]_(Log!logVars)
  <2> SUFFICES ASSUME IInv, [Next]_vars PROVE Log!LogNext \/ UNCHANGED Log!logVars
    OBVIOUS
  <2>1. LogStep(StatusOf(invs), StatusOf(invs'))
    BY StepLogs
  <2>2. QED
    BY <2>1 DEF LogStep, StatusOf, Finals, Log!LogNext, Log!logVars, Log!Accept, Log!Execute,
                Log!Settle, Log!Interrupt
<1>3. QED
  BY <1>1, <1>2, Invariance, PTL DEF Spec, ImplementsInvocationLog, Log!LogSpec

=============================================================================

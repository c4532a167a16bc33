--------------------------- MODULE TokenBindings ---------------------------
(***************************************************************************)
(* The broker's token bindings (packages/connectors/auth/server.go): for   *)
(* the keyed hash of every access or refresh token it has handed out, whom *)
(* it belongs to, what it permits, which grant it comes from and whether   *)
(* that grant was revoked.  Operators only: the modules that keep bindings *)
(* as a variable say when they are applied.                                *)
(*                                                                         *)
(* An owner stands for the four fields sameGrant compares first, the       *)
(* installation, the provider, its app and the external account.           *)
(***************************************************************************)
EXTENDS Naturals, FiniteSets

CONSTANTS
    MaxTokens,          \* bound on the tokens the provider mints
    Owners,             \* installation and account, one value for both
    Scopes              \* what a token may permit

Tokens == 1 .. MaxTokens
NoToken == 0

\* What Exchange and Refresh return; refresh may be missing.
TokenPairs == [access : Tokens, refresh : Tokens \union {NoToken},
               owner : Owners, scopes : SUBSET Scopes]

\* A grant is named by the first access token bound under it: randomID is fresh.
Binding == [owner : Owners, grant : Tokens, scopes : SUBSET Scopes, revoked : BOOLEAN]
Unbound == [grant |-> NoToken, revoked |-> FALSE]
Bindings == [Tokens -> Binding \union {Unbound}]

NoBindings == [v \in Tokens |-> Unbound]

Values(t) == {t.access, t.refresh} \ {NoToken}

IsBound(bs, v) == v \in Tokens /\ bs[v] # Unbound

SameGrant(a, b) == a.owner = b.owner /\ a.grant = b.grant

\* The bindings a new pair of tokens meets.
Met(bs, t) == {bs[v] : v \in {w \in Values(t) : IsBound(bs, w)}}

\* The binding a consent asks for: a grant of its own.
Consented(t) == [owner |-> t.owner, grant |-> t.access, scopes |-> t.scopes, revoked |-> FALSE]

\* bindTokenInState's checks: tokens already known are of this owner, of one
\* grant that is not revoked, and no wider than before.
MayBind(bs, b, t, freshConsent) ==
    /\ b.owner = t.owner
    /\ \A old \in Met(bs, t) :
          /\ ~old.revoked
          /\ old.owner = b.owner
          /\ IF freshConsent THEN old.scopes = b.scopes
                             ELSE b.scopes \subseteq old.scopes /\ SameGrant(b, old)
    /\ \A old, other \in Met(bs, t) : SameGrant(old, other)

\* bindTokenInState's effect: both tokens join the grant they met, or b's.
Bound(bs, b, t) ==
    LET grant == IF Met(bs, t) = {} THEN b.grant ELSE (CHOOSE old \in Met(bs, t) : TRUE).grant
    IN  [v \in Tokens |-> IF v \in Values(t) THEN [b EXCEPT !.grant = grant] ELSE bs[v]]

\* bindRefreshedToken: the token presented must still be what it was when the
\* refresh began (expected), then the refreshed pair is bound under its grant.
MayRebind(bs, previous, expected, t) ==
    /\ IsBound(bs, previous)
    /\ ~bs[previous].revoked
    /\ SameGrant(bs[previous], expected)
    /\ bs[previous].scopes = expected.scopes
    /\ MayBind(bs, [bs[previous] EXCEPT !.scopes = t.scopes], t, FALSE)

Rebound(bs, previous, t) == Bound(bs, [bs[previous] EXCEPT !.scopes = t.scopes], t)

\* revoke: every token of v's grant stays as a tombstone.
Fenced(bs, v) ==
    [w \in Tokens |-> IF IsBound(bs, w) /\ SameGrant(bs[w], bs[v])
                      THEN [bs[w] EXCEPT !.revoked = TRUE] ELSE bs[w]]

\* What the broker asks of a refresh token presented with its pair.
Refreshable(bs, t) ==
    /\ IsBound(bs, t.refresh)
    /\ ~bs[t.refresh].revoked
    /\ bs[t.refresh].owner = t.owner
    /\ bs[t.refresh].scopes = t.scopes

\* WithCentralToken: a live central credential.
Live(bs, t) ==
    /\ IsBound(bs, t.access)
    /\ ~bs[t.access].revoked
    /\ bs[t.access].owner = t.owner
    /\ bs[t.access].scopes = t.scopes
    /\ t.refresh # NoToken =>
          /\ Refreshable(bs, t)
          /\ SameGrant(bs[t.refresh], bs[t.access])

\* A revoked grant has no token left that works.
RevokedWhole(bs) ==
    \A v, w \in Tokens :
        IsBound(bs, v) /\ IsBound(bs, w) /\ SameGrant(bs[v], bs[w]) => bs[v].revoked = bs[w].revoked

-----------------------------------------------------------------------------
(* What the bindings always are, and what a step may do to them *)

\* A grant is named by a token bound under it, which stays bound under it.
GrantsNamed(bs) ==
    \A v \in Tokens : IsBound(bs, v) =>
        IsBound(bs, bs[v].grant) /\ SameGrant(bs[bs[v].grant], bs[v])

\* Bindings as the broker keeps them.
WellBound(bs) == bs \in Bindings /\ GrantsNamed(bs) /\ RevokedWhole(bs)

\* What may happen to a token that is bound: it stays so, under its grant, and a
\* revocation stays.
Kept(bs, new) ==
    \A v \in Tokens : IsBound(bs, v) =>
        IsBound(new, v) /\ SameGrant(new[v], bs[v]) /\ (bs[v].revoked => new[v].revoked)

\* A binding for which a pair of tokens is bound: its grant is the pair's own, or
\* one that is bound and not revoked.
OpenGrant(bs, b, t) ==
    \/ b.grant = t.access
    \/ IsBound(bs, b.grant) /\ SameGrant(bs[b.grant], b) /\ ~bs[b.grant].revoked
=============================================================================

------------------------------ MODULE PageWalks ------------------------------
(***************************************************************************)
(* The signed page tokens of the reviewed batch and the Microsoft files    *)
(* adapters (src/packages/connectors/providers/reviewed_batch.go,          *)
(* microsoft_files.go).  The adapters keep nothing between calls: a token  *)
(* carries where the provider's listing goes on and everything the next    *)
(* call must agree with, signed under the credential.  A host walks a      *)
(* listing by handing each token back, while the connection's credential   *)
(* is rotated or expires, its account or configuration changes, and other  *)
(* listings of the same connection are walked.                             *)
(***************************************************************************)
EXTENDS Naturals, Sequences

CONSTANTS Calls,       \* invocations of one connection
          Accounts,    \* accounts the connection may be authorized for
          Configs,     \* configurations of the connection
          Operations,  \* paged operations
          Arguments,   \* arguments of an operation, but for its page token
          Pages,       \* pages of every listing
          MaxVersion,  \* times the credential may change: a bound
          Adapter,     \* "reviewed" or "files"
          None

BoundsAssumption == Pages \in Nat \ {0} /\ MaxVersion \in Nat
AdapterAssumption == Adapter \in {"reviewed", "files"}

VARIABLES
  connection, \* its account, configuration and credential
  expired,    \* credentials within fifteen seconds of their expiry
  phase,      \* of each call: "idle", "sent", "answered" or "refused"
  asked,      \* the listing each call asks for
  credential, \* the credential each call was made with
  cursor,     \* where the provider is asked to go on
  trail,      \* pages read along the tokens up to this call
  next        \* the page token each call returned

vars == <<connection, expired, phase, asked, credential, cursor, trail, next>>

Versions == 0..MaxVersion
Listings == [account : Accounts, config : Configs, op : Operations, args : Arguments]
Continuations == [listing : Listings, page : 2..Pages]

\* reviewedCursor and microsoftFilesCursor: the binding is a hash of the
\* configuration and the arguments, or of the configuration alone.
Bindings == (Configs \X Arguments) \cup Configs
Tokens == [account : Accounts, op : Operations, binding : Bindings,
           value : Continuations, credential : Versions]

Init ==
  /\ connection \in [account : Accounts, config : Configs, credential : {0}]
  /\ expired = {}
  /\ phase = [i \in Calls |-> "idle"]
  /\ asked = [i \in Calls |-> None]
  /\ credential = [i \in Calls |-> 0]
  /\ cursor = [i \in Calls |-> None]
  /\ trail = [i \in Calls |-> << >>]
  /\ next = [i \in Calls |-> None]

-----------------------------------------------------------------------------
(* prepare and plan *)

Binding(l) == IF Adapter = "reviewed" THEN <<l.config, l.args>> ELSE l.config

\* microsoftFilesContinuation: a link must have the path, with its drive or site,
\* the selection, the size and the search of the request, however it got there.
\* Whose listing it is the credential says, not the link.
Continues(v, l) ==
  Adapter = "files" => v.listing = [l EXCEPT !.account = v.listing.account]

\* Faulty: the credential binding is not compared.
AcceptsAnyCredential(t, l, c) ==
  /\ t.account = l.account /\ t.op = l.op /\ t.binding = Binding(l)
  /\ c \notin expired
  /\ Continues(t.value, l)

\* A token is taken back by a call that agrees with everything it carries, under
\* the credential that signed it, as long as that may be used.
Accepts(t, l, c) ==
  /\ t.account = l.account /\ t.op = l.op /\ t.binding = Binding(l)
  /\ t.credential = c /\ c \notin expired
  /\ Continues(t.value, l)

\* Calls whose result carries a token.
Holders == {i \in Calls : next[i] # None}

\* A call is admitted with the connection as it is, without a token or with one
\* of an earlier result; the credential is applied to the request.
Invoke(i) ==
  \E op \in Operations, args \in Arguments, j \in Holders \cup {None} :
    LET l == [account |-> connection.account, config |-> connection.config,
              op |-> op, args |-> args]
        c == connection.credential
        first == j = None
        taken == first \/ Accepts(next[j], l, c)
    IN /\ phase[i] = "idle"
       /\ asked' = [asked EXCEPT ![i] = l]
       /\ credential' = [credential EXCEPT ![i] = c]
       /\ IF taken /\ c \notin expired
          THEN /\ phase' = [phase EXCEPT ![i] = "sent"]
               /\ cursor' = [cursor EXCEPT ![i] = IF first THEN None ELSE next[j].value]
               /\ trail' = [trail EXCEPT ![i] = IF first THEN << >> ELSE trail[j]]
          ELSE /\ phase' = [phase EXCEPT ![i] = "refused"]
               /\ UNCHANGED <<cursor, trail>>
       /\ UNCHANGED <<connection, expired, next>>

-----------------------------------------------------------------------------
(* The provider and the result *)

\* The page a request is answered with: a continuation names its listing.
Page(i) == IF cursor[i] = None THEN [listing |-> asked[i], page |-> 1] ELSE cursor[i]

\* What the provider says comes next; Graph may name any link at all.
Following(p) ==
  IF p.page = Pages THEN {None}
  ELSE {[p EXCEPT !.page = p.page + 1]}
         \cup IF Adapter = "files"
              THEN {v \in [listing : Listings, page : {p.page + 1}] :
                      v.listing.account = p.listing.account}
              ELSE {}

Refuse(i) ==
  /\ phase' = [phase EXCEPT ![i] = "refused"]
  /\ UNCHANGED <<connection, expired, asked, credential, cursor, trail, next>>

\* No answer, an error, or one the response contract refuses.
Fails(i) == phase[i] = "sent" /\ Refuse(i)

\* The answer is returned with the token of the next page.  A link that does not
\* continue this request, or a credential that may no longer sign, loses it all.
Answers(i) ==
  /\ phase[i] = "sent"
  /\ \E v \in Following(Page(i)) :
       LET l == asked[i]
           token == [account |-> l.account, op |-> l.op, binding |-> Binding(l),
                     value |-> v, credential |-> credential[i]]
       IN IF v # None /\ (~ Continues(v, l) \/ credential[i] \in expired)
          THEN Refuse(i)
          ELSE /\ phase' = [phase EXCEPT ![i] = "answered"]
               /\ trail' = [trail EXCEPT ![i] =
                              Append(@, [page |-> Page(i), credential |-> credential[i]])]
               /\ next' = [next EXCEPT ![i] = IF v = None THEN None ELSE token]
               /\ UNCHANGED <<connection, expired, asked, credential, cursor>>

-----------------------------------------------------------------------------
(* The connection *)

\* A refresh, or a new consent, possibly by another account.
Rotate ==
  /\ connection.credential < MaxVersion
  /\ \E a \in Accounts :
       connection' = [connection EXCEPT !.credential = @ + 1, !.account = a]
  /\ UNCHANGED <<expired, phase, asked, credential, cursor, trail, next>>

Reconfigure ==
  /\ \E k \in Configs : connection' = [connection EXCEPT !.config = k]
  /\ UNCHANGED <<expired, phase, asked, credential, cursor, trail, next>>

Expire ==
  /\ expired' = expired \cup {connection.credential}
  /\ UNCHANGED <<connection, phase, asked, credential, cursor, trail, next>>

-----------------------------------------------------------------------------
Next ==
  \/ \E i \in Calls : Invoke(i) \/ Fails(i) \/ Answers(i)
  \/ Rotate \/ Reconfigure \/ Expire

Spec == Init /\ [][Next]_vars

-----------------------------------------------------------------------------
Read == [page : [listing : Listings, page : 1..Pages], credential : Versions]

TypeOK ==
  /\ connection \in [account : Accounts, config : Configs, credential : Versions]
  /\ expired \subseteq Versions
  /\ phase \in [Calls -> {"idle", "sent", "answered", "refused"}]
  /\ asked \in [Calls -> Listings \cup {None}]
  /\ credential \in [Calls -> Versions]
  /\ cursor \in [Calls -> Continuations \cup {None}]
  /\ trail \in [Calls -> Seq(Read)]
  /\ next \in [Calls -> Tokens \cup {None}]

\* The pages a host gets by following tokens are the first pages, in order and
\* without a gap, of the one listing its last call asks for: no token leads
\* into, or is taken by, a call for another account, configuration, operation
\* or other arguments.
WalksStayInOneListing ==
  \A i \in Calls : phase[i] = "answered" =>
    \A k \in DOMAIN trail[i] : trail[i][k].page = [listing |-> asked[i], page |-> k]

\* A walk is continued only under the credential it began with: once that was
\* rotated, the host starts again (credential_binding and the signature).
WalksKeepTheirCredential ==
  \A i \in Calls : phase[i] \in {"sent", "answered"} =>
    \A k \in DOMAIN trail[i] : trail[i][k].credential = credential[i]

\* A result without a token is the end of its listing: whatever fails while a
\* token is made loses the page with it, never the token alone.
WalksAreNotCutShort ==
  \A i \in Calls : phase[i] = "answered" /\ next[i] = None => Len(trail[i]) = Pages
=============================================================================

----------------------------- MODULE ProxyRelay -----------------------------
(***************************************************************************)
(* The loopback relay for authenticated egress proxies (src/sidecars/      *)
(* agent-in-chrome/host/proxy-relay.js): one connection of the browser,    *)
(* the upstream socket opened for it and the handler between the two,      *)
(* which suspends only at readUntil and at the connect.  Everything one    *)
(* event of a socket resumes, up to the next suspension, is one step.      *)
(***************************************************************************)
EXTENDS Naturals, Sequences

CONSTANTS MaxBytes,  \* payload bytes each side sends: a bound
          MaxReply   \* pieces of an upstream reply that fit in readUntil's buffer

BoundsAssumption == MaxBytes \in Nat /\ MaxReply \in Nat \ {0}

VARIABLES
  kind,     \* "connect" or "plain": which of the server's handlers runs
  proxy,    \* the upstream: "http", "socks" or "socksauth" (with credentials)
  stage,    \* where the handler is: idle, at one of its awaits, piping or out
  client,   \* the browser's connection
  upstream, \* the socket to the upstream proxy
  timed,    \* its inactivity timer is armed
  pieces,   \* pieces of an incomplete reply readUntil holds
  early,    \* the browser reset its connection before the tunnel stood
  up,       \* payload bytes: sent by the browser, at the upstream
  down      \* payload bytes: sent by the upstream, at the browser

vars == <<kind, proxy, stage, client, upstream, timed, pieces, early, up, down>>

\* The awaits of httpTunnel and socksTunnel, in their order.
Awaits == [http |-> <<"connecting", "request">>,
           socks |-> <<"connecting", "method", "request">>,
           socksauth |-> <<"connecting", "method", "auth", "request">>]
Replies == {"method", "auth", "request"}
Waiting == {"connecting"} \cup Replies

Traffic == [sent : 0..MaxBytes, got : Seq(1..MaxBytes)]
Quiet == [sent |-> 0, got |-> << >>]

Init ==
  /\ kind \in {"connect", "plain"} /\ proxy \in DOMAIN Awaits
  /\ stage = "idle" /\ client = "asking" /\ upstream = "none"
  /\ timed = FALSE /\ pieces = 0 /\ early = FALSE
  /\ up = Quiet /\ down = Quiet

\* n more bytes of one side come through.
Through(t, n) ==
  [sent |-> t.sent + n, got |-> t.got \o [i \in 1..n |-> t.sent + i]]

Following(s) == LET order == Awaits[proxy]
                    i == CHOOSE j \in DOMAIN order : order[j] = s
                IN IF i < Len(order) THEN order[i + 1] ELSE "piping"

-----------------------------------------------------------------------------
(* The handler *)

\* A request arrives; a target that cannot be one is refused at once.
Ask ==
  /\ stage = "idle" /\ client = "asking"
  /\ \/ /\ stage' = "connecting" /\ upstream' = "connecting" /\ timed' = TRUE
        /\ UNCHANGED client
     \/ stage' = "out" /\ client' = "refused" /\ UNCHANGED <<upstream, timed>>
  /\ UNCHANGED <<kind, proxy, pieces, early, up, down>>

Connected ==
  /\ stage = "connecting" /\ upstream = "connecting"
  /\ upstream' = "open" /\ stage' = Following(stage)
  /\ UNCHANGED <<kind, proxy, client, timed, pieces, early, up, down>>

\* A complete reply that agrees; the last of them may be followed by n bytes of
\* payload in the same piece, and by m the browser had sent with its request.
Agrees ==
  /\ stage \in Replies /\ upstream = "open"
  /\ stage' = Following(stage) /\ pieces' = 0
  /\ IF stage' # "piping"
     THEN UNCHANGED <<client, timed, up, down>>
     ELSE /\ timed' = FALSE
          /\ client' = IF client = "asking" THEN "piped" ELSE client
          /\ \E n, m \in 0..MaxBytes :
               /\ down' = IF client = "gone" THEN down ELSE Through(down, n)
               /\ up' = IF client = "asking" THEN Through(up, m) ELSE up
  /\ UNCHANGED <<kind, proxy, upstream, early>>

\* The handler fails: 502 for a browser that is still there.
Answer502 == client' = IF client \in {"asking", "closing"} THEN "refused" ELSE client

\* A complete reply that refuses.  Only the last one's handler destroys the
\* socket; after the others it is left to its timer.
Refuses ==
  /\ stage \in Replies /\ upstream = "open"
  /\ stage' = "out" /\ pieces' = 0
  /\ upstream' = IF stage = "request" THEN "closed" ELSE upstream
  /\ timed' = (timed /\ upstream' = "open")
  /\ Answer502
  /\ UNCHANGED <<kind, proxy, early, up, down>>

\* The socket is destroyed with an error, which rejects what awaits it.
Broken ==
  /\ upstream' = "closed" /\ timed' = FALSE /\ pieces' = 0
  /\ stage' = "out"
  /\ CASE stage \in Waiting -> Answer502
       [] stage = "piping" -> client' = "gone"
       [] OTHER -> UNCHANGED client
  /\ UNCHANGED <<kind, proxy, early, up, down>>

\* A piece that does not complete the reply restarts the timer; a reply that
\* outgrows the buffer breaks the socket.
Piece ==
  /\ stage \in Replies /\ upstream = "open"
  /\ IF pieces < MaxReply
     THEN /\ pieces' = pieces + 1
          /\ UNCHANGED <<kind, proxy, stage, client, upstream, timed, early, up, down>>
     ELSE Broken

\* withTimeout: nothing came for CONNECT_TIMEOUT_MS.
Timeout == timed /\ upstream \in {"connecting", "open"} /\ Broken

\* The upstream refuses the connection or resets it.
Fails == upstream \in {"connecting", "open"} /\ Broken

\* The upstream ends its side without a reply or after its payload.  That is no
\* error: nothing settles an await of readUntil.  A pipe ends the browser's side.
Ends ==
  /\ upstream = "open"
  /\ upstream' = "closed" /\ timed' = FALSE
  /\ IF stage = "piping"
     THEN stage' = "out" /\ client' = "gone"
     ELSE UNCHANGED <<stage, client>>
  /\ UNCHANGED <<kind, proxy, pieces, early, up, down>>

-----------------------------------------------------------------------------
(* The browser and the tunnel *)

\* The browser ends its side; the relay learns of it when it pipes.
Closes ==
  /\ client \in {"asking", "piped"} /\ stage # "idle"
  /\ client' = "closing"
  /\ UNCHANGED <<kind, proxy, stage, upstream, timed, pieces, early, up, down>>

\* The connection is reset, or the browser drops a refused one.  A listener on
\* "close" destroys the upstream socket of a CONNECT, once there is a tunnel.
Resets ==
  /\ client \in {"asking", "piped", "closing", "refused"} /\ stage # "idle"
  /\ client' = "gone"
  /\ early' = (early \/ stage \in Waiting)
  /\ IF stage = "piping" /\ kind = "connect"
     THEN upstream' = "closed" /\ stage' = "out"
     ELSE UNCHANGED <<upstream, stage>>
  /\ UNCHANGED <<kind, proxy, timed, pieces, up, down>>

SendsUp ==
  /\ stage = "piping" /\ client = "piped" /\ upstream = "open" /\ up.sent < MaxBytes
  /\ up' = Through(up, 1)
  /\ UNCHANGED <<kind, proxy, stage, client, upstream, timed, pieces, early, down>>

SendsDown ==
  /\ stage = "piping" /\ client \in {"piped", "closing"} /\ upstream = "open"
  /\ down.sent < MaxBytes
  /\ down' = Through(down, 1)
  /\ UNCHANGED <<kind, proxy, stage, client, upstream, timed, pieces, early, up>>

-----------------------------------------------------------------------------
Next ==
  \/ Ask \/ Connected \/ Agrees \/ Refuses \/ Piece \/ Timeout \/ Fails \/ Ends
  \/ Closes \/ Resets \/ SendsUp \/ SendsDown

\* Only the timer is certain: the upstream and the browser owe nothing.
Spec == Init /\ [][Next]_vars /\ WF_vars(Ask) /\ WF_vars(Timeout)

-----------------------------------------------------------------------------
TypeOK ==
  /\ kind \in {"connect", "plain"} /\ proxy \in DOMAIN Awaits
  /\ stage \in Waiting \cup {"idle", "piping", "out"}
  /\ client \in {"asking", "piped", "closing", "refused", "gone"}
  /\ upstream \in {"none", "connecting", "open", "closed"}
  /\ timed \in BOOLEAN /\ early \in BOOLEAN /\ pieces \in 0..MaxReply
  /\ up \in Traffic /\ down \in Traffic

\* Neither side's bytes are lost or reordered where the handler changes from
\* reading replies to piping (rest and head are written before the pipes).
BytesInOrder ==
  \A t \in {up, down} : t.got = [i \in 1..t.sent |-> i]

\* The upstream ended its side while a reply was awaited.
HungUp == stage \in Replies /\ upstream = "closed"

\* However the upstream stalls, dribbles or refuses, the browser gets its tunnel
\* or its 502.  The exception is an upstream that ends its side in silence:
\* readUntil listens for data and errors only, and the browser waits for ever.
AnsweredUnlessHungUp ==
  (client = "asking") ~> (client # "asking" \/ HungUp)

\* An upstream socket outlives its browser only while the handler still opens
\* it, when the browser reset the connection before the tunnel stood (the
\* listener on "close" comes too late), and behind a plain request.
OrphansOnlyOfResets ==
  client = "gone" /\ upstream = "open"
    => stage \in Waiting \/ timed \/ early \/ kind = "plain"

\* The socket of a browser that was refused is closed in the end, although most
\* refusals leave it to its timer.
RefusedSocketsClose ==
  (client = "refused" /\ upstream = "open") ~> (upstream = "closed")

-----------------------------------------------------------------------------
(* What always holds, and why *)

\* The handler awaits what its upstream is asked for, and no payload has come yet.
Negotiates ==
  /\ stage \in Waiting => \E i \in DOMAIN Awaits[proxy] : Awaits[proxy][i] = stage
  /\ stage \in Waiting \cup {"idle"} => up = Quiet /\ down = Quiet

\* Until bytes are piped the timer is what an upstream socket ends by.
TimerGuards == upstream \in {"connecting", "open"} /\ stage # "piping" => timed

\* A browser that is gone while the handler goes on has reset its connection.
GoneByReset ==
  /\ stage = "idle" => client = "asking"
  /\ client = "gone" /\ stage \in Waiting => early
  /\ client = "gone" /\ stage = "piping" => early \/ kind = "plain"

IInv ==
  /\ TypeOK /\ Negotiates /\ TimerGuards /\ GoneByReset
  /\ BytesInOrder /\ OrphansOnlyOfResets
=============================================================================

----------------------------- MODULE ImapStream -----------------------------
(***************************************************************************)
(* The guarded IMAP stream (src/packages/connectors/providers/             *)
(* imap_stream.go, guardedIMAPStream): a second parser of the same kind    *)
(* reads every response before the client's parser may see a byte of it,   *)
(* because the client would allocate a literal of any declared size and    *)
(* would go on after a response it cannot parse.  The bytes of the         *)
(* connection are numbered; bufio reads ahead of the response that is      *)
(* being validated.                                                        *)
(***************************************************************************)
EXTENDS Naturals, Sequences, SequencesExt, FiniteSetsExt

CONSTANTS Streams,    \* what servers send: sequences of responses
          MaxBytes,   \* imapMaxProtocolBytes
          MaxLiteral, \* imapMaxMessageBytes + 1
          MaxChunk    \* bytes one read of the connection brings: a bound

BoundsAssumption == MaxBytes \in Nat /\ MaxLiteral \in Nat /\ MaxChunk \in Nat \ {0}

\* A response has a length and the size of its literal, 0 without one; it can be
\* parsed or not.
StreamsAssumption ==
  \A s \in Streams : \A i \in DOMAIN s :
    /\ s[i].length \in Nat \ {0} /\ s[i].literal \in Nat /\ s[i].parses \in BOOLEAN

VARIABLES
  stream,    \* the responses the server sends
  arrived,   \* bytes read from the connection so far
  captured,  \* the read-ahead: bytes read and not yet released
  pending,   \* bytes of a validated response the client has still to read
  remaining, \* of the budget of the connection
  got,       \* bytes the client's parser has been given
  validated, \* responses released so far
  calling,   \* the client's parser waits in Read
  err        \* "none", "eof" or "limit": the error every further Read returns

vars == <<stream, arrived, captured, pending, remaining, got, validated, calling, err>>

Interval(first, count) == [k \in 1..count |-> first + k]
Total(s) == FoldSeq(LAMBDA r, n : r.length + n, 0, s)

Init ==
  /\ stream \in Streams
  /\ arrived = 0 /\ captured = << >> /\ pending = << >> /\ remaining = MaxBytes
  /\ got = << >> /\ validated = 0 /\ calling = FALSE /\ err = "none"

-----------------------------------------------------------------------------
(* Read *)

Smaller(a, b) == IF a < b THEN a ELSE b

\* The client's parser asks for n bytes: an earlier error, an exhausted budget
\* or bytes of the validated response answer at once.
Read(n) ==
  /\ ~ calling
  /\ IF err # "none" THEN UNCHANGED vars
     ELSE IF remaining = 0 THEN
       /\ err' = "limit"
       /\ UNCHANGED <<stream, arrived, captured, pending, remaining, got, validated, calling>>
     ELSE IF pending = << >> THEN
       /\ calling' = TRUE
       /\ UNCHANGED <<stream, arrived, captured, pending, remaining, got, validated, err>>
     ELSE LET k == Smaller(n, Len(pending)) IN
       /\ got' = got \o SubSeq(pending, 1, k)
       /\ pending' = SubSeq(pending, k + 1, Len(pending))
       /\ remaining' = remaining - k
       /\ UNCHANGED <<stream, arrived, captured, validated, calling, err>>

Response == stream[validated + 1]
Expected == validated < Len(stream)

\* The literal is refused when its size is read, before its bytes are.
Cap == Smaller(remaining, MaxLiteral)
TooLarge == Expected /\ captured # << >> /\ Response.literal > Cap

Whole == Expected /\ Len(captured) >= Response.length

\* io.LimitReader ends the connection at the budget.
Available == Smaller(Total(stream), MaxBytes) - arrived

\* The parser has used up the read-ahead and reads more of the connection.
Fill ==
  /\ calling /\ ~ Whole /\ ~ TooLarge /\ Available > 0
  /\ \E n \in 1..Smaller(MaxChunk, Available) :
       /\ captured' = captured \o Interval(arrived, n)
       /\ arrived' = arrived + n
  /\ UNCHANGED <<stream, pending, remaining, got, validated, calling, err>>

Fail(e) ==
  /\ err' = e /\ calling' = FALSE
  /\ UNCHANGED <<stream, arrived, captured, pending, remaining, got, validated>>

\* The connection ends where a response may begin.
Ends == calling /\ captured = << >> /\ Available = 0 /\ Fail("eof")

\* A response that cannot be parsed, is cut off, or whose literal is too large:
\* the connection is closed and nothing of the response is released.
Refuses ==
  /\ calling
  /\ \/ TooLarge
     \/ ~ TooLarge /\ Whole /\ ~ Response.parses
     \/ captured # << >> /\ ~ Whole /\ Available = 0
  /\ Fail("limit")

\* The response is whole: its bytes, and not the read-ahead behind them, are
\* released to the Read that waits.
Validates ==
  /\ calling /\ Whole /\ ~ TooLarge /\ Response.parses
  /\ pending' = SubSeq(captured, 1, Response.length)
  /\ captured' = SubSeq(captured, Response.length + 1, Len(captured))
  /\ validated' = validated + 1
  /\ calling' = FALSE
  /\ UNCHANGED <<stream, arrived, remaining, got, err>>

-----------------------------------------------------------------------------
Next ==
  \/ \E n \in 1..MaxChunk : Read(n)
  \/ Fill \/ Ends \/ Refuses \/ Validates

\* The client reads on and the network delivers.
Spec == Init /\ [][Next]_vars /\ WF_vars(Next)

-----------------------------------------------------------------------------
TypeOK ==
  /\ stream \in Streams /\ arrived \in 0..MaxBytes /\ remaining \in 0..MaxBytes
  /\ captured \in Seq(1..MaxBytes) /\ pending \in Seq(1..MaxBytes) /\ got \in Seq(1..MaxBytes)
  /\ validated \in 0..Len(stream) /\ calling \in BOOLEAN
  /\ err \in {"none", "eof", "limit"}

\* The client's parser gets the bytes of the connection once and in order,
\* however they arrive and are read, and no read-ahead is lost.
BytesOnceInOrder == got \o pending \o captured = Interval(0, arrived)

\* What the client's parser may see are whole responses that were parsed, with
\* no literal beyond the budget that was left where they began.
OnlyValidated ==
  LET released == Len(got) + Len(pending)
      seen == {i \in DOMAIN stream : Total(SubSeq(stream, 1, i - 1)) < released}
  IN /\ released = Total(SubSeq(stream, 1, validated))
     /\ \A i \in seen :
          /\ stream[i].parses
          /\ stream[i].literal <= MaxLiteral
          /\ stream[i].literal <= MaxBytes - Total(SubSeq(stream, 1, i - 1))

\* The budget covers what was released: the exhausted budget never hides bytes
\* of a response that was validated.
BudgetCovers == Len(pending) <= remaining /\ remaining + Len(got) = MaxBytes

Fits(s) ==
  /\ Total(s) <= MaxBytes
  /\ \A i \in DOMAIN s : s[i].parses /\ s[i].literal <= MaxLiteral

\* A stream of sound responses within the budget reaches the client whole.
SoundStreamsArrive ==
  Fits(stream) ~> (err # "none" /\ Len(got) = Total(stream))
=============================================================================

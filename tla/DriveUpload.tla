----------------------------- MODULE DriveUpload -----------------------------
(* One upload to Google Drive (providers/drive_upload.go): a bounded upload    *)
(* sends the whole content in one request, a resumable upload opens a session *)
(* and sends chunks.  A request may be lost, its answer may be lost, or it may *)
(* reach Drive long after the adapter gave it up; sessions lapse; Drive takes  *)
(* only a part of a chunk.  A trusted Drive tells the truth about what it      *)
(* holds; an untrusted one answers anything, and the adapter must still stop  *)
(* and must not report a success for bytes it never sent.                     *)
EXTENDS Integers, FiniteSets

CONSTANTS
  Totals,        \* sizes of the content, in quanta
  Chunk,         \* quanta of one chunk, driveUploadLimits.chunkBytes
  MaxAttempts,   \* idempotentWriteRetry.MaxAttempts
  Recoveries,    \* maxDriveUploadRecoveries
  Restarts,      \* maxDriveSessionRestarts
  Trusted        \* TRUE: Drive answers from what it holds

LimitsAssumption ==
  /\ Totals \subseteq Nat \ {0} /\ Chunk \in Nat \ {0}
  /\ {MaxAttempts, Recoveries} \subseteq Nat \ {0} /\ Restarts \in Nat
  /\ Trusted \in BOOLEAN

VARIABLES
  upload,      \* driveUploadRequest: the mode, update, whether it has a metadata ID
  at,          \* the step of the call, with the loops' counters
  offset,      \* bytes the adapter takes for stored in the session
  noProgress,  \* answers in a row that did not move the offset
  sent,        \* ghost: the end of the last chunk sent in this session
  held,        \* Drive: bytes each session holds, -1 once it has lapsed
  written,     \* Drive: files or revisions this call has made
  late,        \* requests given up by the adapter and still under way
  result       \* what the call returned, "none" before

vars == <<upload, at, offset, noProgress, sent, held, written, late, result>>

MaxTotal == CHOOSE n \in Totals : \A m \in Totals : m <= n
Sessions == 0..Restarts

Uploads ==
  [resumable : BOOLEAN, update : BOOLEAN, id : BOOLEAN, key : BOOLEAN, total : Totals]

Steps == {"create", "lookup", "session", "chunk", "probe", "finish", "end"}

\* Only a create with an ID and an idempotency key may be sent twice.
SafeCreateRetry(u) == ~u.update /\ u.id /\ u.key

BoundedAttempts(u) == IF SafeCreateRetry(u) THEN MaxAttempts ELSE 1

Init ==
  /\ upload \in Uploads
  /\ at = [step |-> IF upload.resumable THEN "session" ELSE "create",
           attempt |-> 1, restart |-> 0, probe |-> 1, retry |-> FALSE]
  /\ offset = 0 /\ noProgress = 0 /\ sent = 0
  /\ held = [s \in Sessions |-> 0]
  /\ written = 0 /\ late = {} /\ result = "none"

Total == upload.total
Session == at.restart
End == IF offset + Chunk > Total THEN Total ELSE offset + Chunk

-----------------------------------------------------------------------------
\* How a request may travel: its effect takes place now, later or never, and
\* the adapter sees Drive's answer, one whose body it cannot read or decode, which
\* ends the call, or a failure of the transport.
Travels == {"answered", "unreadable", "refused", "retryable", "lost", "answer lost", "late"}
Reaches(t) == t \in {"answered", "unreadable", "answer lost"}

\* The request of this step, still under way when the adapter gives it up.
Delayed ==
  CASE at.step = "create" -> late \cup {[kind |-> "create"]}
    [] at.step = "chunk" /\ Trusted ->
         late \cup {[kind |-> "chunk", session |-> Session, from |-> offset, to |-> End]}
    [] OTHER -> late

Return(r) ==
  /\ result' = r
  /\ at' = [at EXCEPT !.step = "end"]

-----------------------------------------------------------------------------
(* A bounded upload                                                           *)

\* Drive makes the file once for an ID, and every time without one.
Conflicts == upload.id /\ ~upload.update /\ written > 0
Written == IF Conflicts THEN written ELSE written + 1

\* What follows an attempt without an answer the call can return: a safe create
\* asks for the file first, then the attempt may be repeated.
AfterAttempt(retry, failure) ==
  IF SafeCreateRetry(upload)
  THEN at' = [at EXCEPT !.step = "lookup", !.retry = retry] /\ UNCHANGED result
  ELSE IF retry /\ at.attempt < BoundedAttempts(upload)
       THEN at' = [at EXCEPT !.attempt = @ + 1] /\ UNCHANGED result
       ELSE Return(failure)

Create ==
  /\ at.step = "create"
  /\ UNCHANGED <<upload, offset, noProgress, sent, held>>
  /\ \E t \in Travels :
       /\ written' = IF Reaches(t) THEN Written ELSE written
       /\ late' = IF t = "late" THEN Delayed ELSE late
       /\ CASE t = "answered" /\ ~Conflicts -> Return("ok")
            [] t = "answered" /\ Conflicts -> AfterAttempt(FALSE, "conflict")
            [] t = "unreadable" -> Return("response_error")
            [] t = "refused" -> Return("provider_error")
            [] t = "retryable" -> AfterAttempt(TRUE, "provider_error")
            [] OTHER -> AfterAttempt(TRUE, "network_error")

\* Faulty: a file that is not found counts as written
LookupTrusting ==
  /\ at.step = "lookup"
  /\ UNCHANGED <<upload, offset, noProgress, sent, held, written, late>>
  /\ Return("ok")

\* probeCreatedDriveFile: the file is there, or the attempt goes on.
Lookup ==
  /\ at.step = "lookup"
  /\ UNCHANGED <<upload, offset, noProgress, sent, held, written, late>>
  /\ \/ written > 0 /\ Return("ok")
     \/ Return("provider_error")
     \/ \* not found, or no answer to the question
        IF at.retry /\ at.attempt < BoundedAttempts(upload)
        THEN at' = [at EXCEPT !.step = "create", !.attempt = @ + 1] /\ UNCHANGED result
        ELSE Return("provider_error")

-----------------------------------------------------------------------------
(* A resumable upload                                                         *)

\* startDriveResumableSession; sessions nobody learned of are never used.
StartSession ==
  /\ at.step = "session"
  /\ UNCHANGED <<upload, offset, noProgress, sent, held, written, late>>
  /\ \/ at' = [at EXCEPT !.step = "chunk"] /\ UNCHANGED result
     \/ Return("provider_error")
     \/ \* no answer, or a status worth another attempt
        IF at.attempt < MaxAttempts
        THEN at' = [at EXCEPT !.attempt = @ + 1] /\ UNCHANGED result
        ELSE Return("network_error")

\* The session is gone: the whole upload starts again, once.
Expired ==
  /\ offset' = 0 /\ noProgress' = 0 /\ sent' = 0
  /\ IF at.restart < Restarts
     THEN at' = [at EXCEPT !.step = "session", !.restart = @ + 1, !.attempt = 1, !.probe = 1]
          /\ UNCHANGED result
     ELSE Return("resumable_session_expired")

\* recoveredDriveOffset: never back, and only so often in the same place.
Recovered(next) ==
  IF next < offset \/ (next = offset /\ noProgress + 1 > Recoveries)
  THEN Return("resumable_no_progress") /\ UNCHANGED <<offset, noProgress>>
  ELSE /\ offset' = next
       /\ noProgress' = IF next = offset THEN noProgress + 1 ELSE 0
       /\ IF next = Total THEN Return("resumable_no_completion")
          ELSE at' = [at EXCEPT !.step = "chunk"] /\ UNCHANGED result

\* nextDriveUploadOffset: a Range beyond the bytes sent so far is refused.
InRange(next, maximum) == next <= Total /\ next <= maximum

\* What a trusted Drive holds of a chunk it takes: a prefix of it, never a gap.
\* What an untrusted one holds does not matter, for it answers anything.
Takes(s, from, to) ==
  IF held[s] = -1 \/ from > held[s] \/ ~Trusted THEN {held[s]}
  ELSE {h \in held[s]..MaxTotal : h <= to \/ h = held[s]}

\* The session becomes a file when it holds every byte.
Stored(s, h) ==
  /\ held' = [held EXCEPT ![s] = h]
  /\ written' = IF h = Total /\ held[s] # Total THEN written + 1 ELSE written

\* What Drive says of a session: complete, 308 with the bytes held, or 404.
Says(h) ==
  IF Trusted
  THEN IF h = -1 THEN {[status |-> "gone", range |-> 0]}
       ELSE IF h = Total THEN {[status |-> "complete", range |-> Total],
                               [status |-> "more", range |-> Total]}
       ELSE {[status |-> "more", range |-> h]}
  ELSE [status : {"complete", "more", "gone"}, range : 0..MaxTotal]

\* transferDriveChunks: the answer to a chunk that ends at last.
ChunkAnswer(a, last) ==
  CASE a.status = "complete" ->
         UNCHANGED <<offset, noProgress>>
         /\ Return(IF last = Total THEN "ok" ELSE "provider_operation_error")
    [] a.status = "more" /\ (~InRange(a.range, last) \/ a.range < offset) ->
         UNCHANGED <<offset, noProgress>> /\ Return("invalid_resumable_range")
    [] a.status = "more" /\ a.range = Total ->
         /\ offset' = Total /\ noProgress' = 0
         /\ at' = [at EXCEPT !.step = "finish", !.probe = 1] /\ UNCHANGED result
    [] OTHER -> Recovered(a.range)

AskStatus ==
  /\ at' = [at EXCEPT !.step = "probe", !.probe = 1]
  /\ UNCHANGED <<offset, noProgress, result>>

SendChunk ==
  /\ at.step = "chunk"
  /\ UNCHANGED upload
  /\ \E t \in Travels :
       /\ late' = IF t = "late" THEN Delayed ELSE late
       /\ \E h \in IF Reaches(t) THEN Takes(Session, offset, End) ELSE {held[Session]} :
            /\ Stored(Session, h)
            /\ CASE t = "answered" ->
                      \E a \in Says(h) :
                        IF a.status = "gone" THEN Expired
                        ELSE ChunkAnswer(a, End) /\ sent' = End
                 [] t \in {"unreadable", "refused"} ->
                      Return(IF t = "refused" THEN "provider_error" ELSE "response_error")
                      /\ sent' = End /\ UNCHANGED <<offset, noProgress>>
                 [] OTHER -> AskStatus /\ sent' = End

\* probeDriveResumableSession, after a chunk nobody answered (up to its end) and
\* after the last byte (up to the total).
ProbeAnswer(a) ==
  CASE a.status = "complete" ->
         /\ UNCHANGED <<offset, noProgress>>
         /\ Return(IF sent = Total THEN "ok" ELSE "provider_operation_error")
    [] a.status = "more" /\ ~InRange(a.range, sent) ->
         UNCHANGED <<offset, noProgress>> /\ Return("invalid_resumable_range")
    [] at.step = "finish" ->
         UNCHANGED <<offset, noProgress>> /\ Return("resumable_no_completion")
    [] OTHER -> Recovered(a.range)

Probe ==
  /\ at.step \in {"probe", "finish"}
  /\ UNCHANGED <<upload, held, written, late>>
  /\ \/ \E a \in Says(held[Session]) :
          IF a.status = "gone" THEN Expired ELSE ProbeAnswer(a) /\ UNCHANGED sent
     \/ /\ UNCHANGED <<offset, noProgress, sent>>
        /\ IF at.probe < Recoveries
           THEN at' = [at EXCEPT !.probe = @ + 1] /\ UNCHANGED result
           ELSE Return("network_error")
     \/ Return("provider_error") /\ UNCHANGED <<offset, noProgress, sent>>

\* The host cancels the call; the request under way may still reach Drive.
Cancel ==
  /\ at.step # "end"
  /\ Return("cancelled")
  /\ late' = Delayed
  /\ UNCHANGED <<upload, offset, noProgress, sent, held, written>>

-----------------------------------------------------------------------------
(* Drive on its own                                                           *)

Arrive ==
  \E r \in late :
    /\ late' = late \ {r}
    /\ UNCHANGED <<upload, at, offset, noProgress, sent, result>>
    /\ IF r.kind = "create" THEN written' = Written /\ UNCHANGED held
       ELSE \E h \in Takes(r.session, r.from, r.to) : Stored(r.session, h)

\* An open session lapses; what became a file stays one.
Lapse ==
  /\ Trusted /\ at.step \in {"chunk", "probe", "finish"} /\ held[Session] \in 0..(Total - 1)
  /\ held' = [held EXCEPT ![Session] = -1]
  /\ UNCHANGED <<upload, at, offset, noProgress, sent, written, late, result>>

Ended == at.step = "end" /\ late = {} /\ UNCHANGED vars

Adapter == Create \/ Lookup \/ StartSession \/ SendChunk \/ Probe

Next == Adapter \/ Cancel \/ Arrive \/ Lapse \/ Ended

Spec == Init /\ [][Next]_vars

\* The transport of the adapter has a time limit, so a request always ends.
FairSpec == Spec /\ WF_vars(Adapter)

-----------------------------------------------------------------------------
Results ==
  {"none", "ok", "conflict", "provider_error", "network_error", "response_error", "cancelled",
   "provider_operation_error", "invalid_resumable_range", "resumable_no_progress",
   "resumable_no_completion", "resumable_session_expired"}

TypeOK ==
  /\ upload \in Uploads
  /\ at \in [step : Steps, attempt : 1..MaxAttempts, restart : Sessions,
             probe : 1..Recoveries, retry : BOOLEAN]
  /\ offset \in 0..MaxTotal /\ noProgress \in 0..Recoveries /\ sent \in 0..MaxTotal
  /\ held \in [Sessions -> -1..MaxTotal] /\ written \in Nat
  /\ late \subseteq [kind : {"create"}]
              \cup [kind : {"chunk"}, session : Sessions, from : 0..MaxTotal, to : 0..MaxTotal]
  /\ result \in Results

\* The adapter never steps over bytes: whatever Drive answers, the offset is one
\* it has sent up to in this session, so every chunk starts where sent bytes end.
NoByteSkipped == offset <= sent

\* A success of a resumable upload is reported for an upload whose last byte was
\* sent, even when Drive claims completion early or claims bytes it cannot hold.
SuccessAfterLastByte == result = "ok" /\ upload.resumable => sent = Total

\* With a Drive that tells the truth, a success means the file or revision exists
\* and holds the whole content, through every loss, lapse and restart.
SuccessIsStored == Trusted /\ result = "ok" => written > 0

\* One call makes at most one file or revision, however often it retries and
\* however late the requests it gave up arrive.
WrittenOnce == written <= 1

\* The chunk that is sent next continues what Drive holds, unless the session
\* lapsed: the offset never runs ahead of a Drive that tells the truth.
OffsetIsHeld ==
  Trusted /\ at.step = "chunk" /\ held[Session] # -1 => offset <= held[Session]

\* A call ends, even with a Drive that answers 308 for ever without progress.
CallEnds == <>(result # "none")
=============================================================================

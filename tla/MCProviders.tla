---------------------------- MODULE MCProviders -----------------------------
(***************************************************************************)
(* What stands between a connector and its provider: uploads to Drive,     *)
(* calls with their retries, calls of the tools of MCP servers, walks      *)
(* through paged listings and through a mailbox, mail that is sent, the    *)
(* events of a calendar, the stream of an IMAP connection, and the client  *)
(* of the connector runner.                                                *)
(* They share no state, so a behaviour exercises one of them: `part`,      *)
(* chosen at the start, says which, and the others stay as they began.     *)
(***************************************************************************)
EXTENDS Integers, Sequences, FiniteSets, TLC

CONSTANTS
    a1, a2, a3,     \* invocations
    k1, k2,         \* configurations
    p1, p2, p3,     \* pages and coins
    nobody

VARIABLES
    part,
    upload, at, offset, noProgress, sent, held, written, late, result,
    state, request, delayed, handed, effects, keys, used, scope, refused,
    connection, expired, phase, asked, credential, cursor, trail, next,
    stream, arrived, captured, pending, remaining, got, validated, calling, err,
    call, queue, lock, process, spawned, live, stdin, stdout, busy, tx,
    lapsed, presented, polled,
    asks, snapshot, operations, alive, step, posted, session, version, posts, ran, answer, outcome,
    honest, mailbox, uidNext, validity, op, stage, secure, secret, status, todo, page, told,
    walk, listed, steady, accepted, reached, finished, delivered,
    calendar, changes, booking, known, turn, synced

\* Contents of one, two and three quanta in chunks of two: a whole chunk, a short
\* last chunk and an upload of one chunk; Drive answers from what it holds, or not.
Drive == INSTANCE DriveUpload WITH Totals <- {1, 2, 3}, Chunk <- 2, MaxAttempts <- 2,
           Recoveries <- 2, Restarts <- 1, Trusted <- TRUE
Stranger == INSTANCE DriveUpload WITH Totals <- {1, 2, 3}, Chunk <- 2, MaxAttempts <- 3,
              Recoveries <- 3, Restarts <- 1, Trusted <- FALSE

Op(read, safe, attempts, retryable, header, budgeted, scoped) ==
    [read |-> read, safe |-> safe, attempts |-> attempts, retryableWrite |-> retryable,
     header |-> header, budgeted |-> budgeted, scoped |-> scoped]

\* A keyed write and its repetition by the host, and a raw call.
Written == [c \in {"write", "again", "raw"} |->
    IF c = "raw" THEN Op(FALSE, {TRUE, FALSE}, 2, TRUE, TRUE, FALSE, FALSE)
                 ELSE Op(FALSE, {FALSE}, 2, TRUE, TRUE, FALSE, FALSE)]
WriteKey == [c \in DOMAIN Written |-> IF c = "raw" THEN nobody ELSE "key"]
Writes == INSTANCE ProviderCalls WITH Calls <- DOMAIN Written, Operation <- Written,
            Key <- WriteKey, AllowWrite <- DOMAIN Written, Limit <- 1, None <- nobody,
            late <- delayed, sent <- handed

\* A replio read, two budgeted calls and a write that may not be repeated.
Read == [c \in {"replio", "ads", "adsWrite", "plain"} |->
    CASE c = "replio" -> Op(TRUE, {TRUE}, 2, FALSE, FALSE, FALSE, TRUE)
      [] c = "plain" -> Op(FALSE, {FALSE}, 2, FALSE, FALSE, FALSE, FALSE)
      [] OTHER -> Op(c = "ads", {FALSE}, 1, FALSE, TRUE, TRUE, FALSE)]
ReadKey == [c \in DOMAIN Read |-> IF c \in {"plain", "adsWrite"} THEN "key" ELSE nobody]
Reads == INSTANCE ProviderCalls WITH Calls <- DOMAIN Read, Operation <- Read,
           Key <- ReadKey, AllowWrite <- {"plain", "adsWrite"}, Limit <- 1, None <- nobody,
           late <- delayed, sent <- handed

\* Three invocations over listings of three pages: of two accounts, operations and
\* arguments, or of two configurations and arguments.
Reviewed == INSTANCE PageWalks WITH Calls <- {a1, a2, a3}, Accounts <- {"one", "other"},
              Configs <- {k1}, Operations <- {"list", "search"}, Arguments <- {"q1", "q2"},
              Pages <- 3, MaxVersion <- 1, Adapter <- "reviewed", None <- nobody
Files == INSTANCE PageWalks WITH Calls <- {a1, a2, a3}, Accounts <- {"one"},
           Configs <- {k1, k2}, Operations <- {"list"}, Arguments <- {"q1", "q2"},
           Pages <- 3, MaxVersion <- 1, Adapter <- "files", None <- nobody

\* Every stream of up to two responses of one to three bytes.
Responses == {r \in [length : 1..3, literal : 0..4, parses : BOOLEAN] :
                 /\ r.literal < r.length \/ r.literal = 4
                 /\ ~r.parses => r.literal = 0}
Imap == INSTANCE ImapStream WITH Streams <- UNION {[1..n -> Responses] : n \in 0..2},
          MaxBytes <- 4, MaxLiteral <- 2, MaxChunk <- 4

\* Calls at MCP servers: fetches and prices, of one and two pages or coins or of one twice; tools
\* that spend; and calls with something wrong about them.
Ask(provider, operation, pages, account, keyed, fits, large) ==
    [provider |-> provider, operation |-> operation, asks |-> pages, account |-> account,
     credential |-> keyed, fits |-> fits, large |-> large]
Asked ==
    {Ask(provider[1], provider[2], pages, "own", FALSE, TRUE, FALSE) :
        provider \in {<<"parallel_search", "fetch">>, <<"coingecko", "price">>},
        pages \in {<<p1>>, <<p1, p2>>, <<p1, p1>>}}
    \cup {Ask("higgsfield", operation, << >>, account, TRUE, TRUE, large) :
            operation \in {"make", "check"}, account \in {"absent", "foreign"}, large \in BOOLEAN}
    \cup {Ask(provider[1], provider[2], << >>, "own", FALSE, TRUE, FALSE) :
            provider \in {<<"context7", "query_docs">>, <<"coingecko", "global">>,
                          <<"parallel_search", "search">>, <<"exa", "scrape">>}}
    \cup {Ask("exa", "search", << >>, "foreign", FALSE, TRUE, FALSE),
          Ask("exa", "fetch", << >>, "own", TRUE, TRUE, FALSE),
          Ask("firecrawl", "scrape", << >>, "own", FALSE, FALSE, FALSE),
          Ask("firecrawl", "scrape", << >>, "own", FALSE, TRUE, TRUE)}

\* Snapshots of up to three tools, one more than there may be: named twice, excluded,
\* or of a risk that is neither.
Mappings == {[name |-> "make", tool |-> t, risk |-> k] : t \in {"generate", "face"}, k \in {"spend", "write"}}
            \cup {[name |-> n, tool |-> t, risk |-> "read"] :
                    n \in {"make", "check"}, t \in {"generate", "status"}}
SnapshotFiles == {<< >>} \cup {<<m>> : m \in Mappings} \cup {<<m, n>> : m, n \in Mappings}
          \cup {<<m, m, m>> : m \in Mappings}

Output(schema, extra, rows) == [schema |-> schema, extra |-> extra, rows |-> rows]
Outputs ==
    {Output("fetch", extra, rows) :
        extra \in BOOLEAN, rows \in {<<p1>>, <<p1, p2>>, <<p1, p1>>, <<p1, p3>>}}
    \cup {Output("price", FALSE, [c \in coins |-> p]) :
            coins \in {{p1}, {p1, p2}, {p1, p3}}, p \in {k1, nobody}}
    \cup {Output(schema, extra, << >>) : schema \in {"search", "global"}, extra \in BOOLEAN}
Line(json, id, says, v, output) ==
    [json |-> json, id |-> id, says |-> says, version |-> v, output |-> output]
NoOutput == Output("search", FALSE, << >>)
Texts == {Line(FALSE, "other", "result", "none", NoOutput), Line(FALSE, "other", "done", "none", NoOutput),
          Line(TRUE, "other", "result", "none", NoOutput)}
Replies == {Line(TRUE, id, says, "2025-03-26", NoOutput) : id \in {"initialize", "call"},
              says \in {"result", "error", "toolError", "payloadError", "scalar"}}
           \cup {Line(TRUE, "initialize", "result", "1", NoOutput)}
Lines == Texts \cup Replies \cup {Line(TRUE, "call", "result", "none", output) : output \in Outputs}
Bodies == {[stream |-> events, lines |-> lines] :
             events \in BOOLEAN, lines \in {<< >>} \cup {<<l>> : l \in Lines}}
          \cup {[stream |-> TRUE, lines |-> <<l, m>>] : l \in Texts \cup Replies, m \in Lines}
          \cup {[stream |-> TRUE, lines |-> <<l, m>>] : l \in Lines, m \in Texts}
Mcp == INSTANCE McpCalls WITH Requests <- Asked, Snapshots <- SnapshotFiles, MaxOperations <- 2,
         Excluded <- {"face"}, Sessions <- {k1}, None <- nobody,
         request <- asks, live <- alive, sent <- posts

\* A walk of one message a page over windows of two, with messages read on the way, in a mailbox
\* that is made anew once; pages of two over windows of three; and sending to two.
Mailbox == INSTANCE MailCalls WITH Operations <- {"list", "get", "mailboxes"}, Limit <- 1, Window <- 2,
             Recipients <- 1, MaxUid <- 4, MaxValidity <- 2, step <- stage, outcome <- told
Pages == INSTANCE MailCalls WITH Operations <- {"list"}, Limit <- 2, Window <- 3,
           Recipients <- 1, MaxUid <- 5, MaxValidity <- 1, step <- stage, outcome <- told
Mail == INSTANCE MailCalls WITH Operations <- {"send"}, Limit <- 1, Window <- 2,
          Recipients <- 2, MaxUid <- 0, MaxValidity <- 1, step <- stage, outcome <- told

\* Two hosts that write one event, and a host that follows what another writes, a page of one at a
\* time, with a connection that only reads.
Granted == "writer" :> {"calendar"} @@ "other" :> {"calendar.events"} @@ "reader" :> {"calendar.events.readonly"}
Of(hosts) == [h \in hosts |-> Granted[h]]
When(day, hour) == [day |-> day, at |-> hour]
Bookings == INSTANCE CalendarCalls WITH Hosts <- {"writer", "other"}, Events <- {"e1"},
              Granted <- Of({"writer", "other"}),
              Tasks <- "writer" :> {"create", "update", "delete"} @@ "other" :> {"get", "update"},
              Whens <- {When(FALSE, 1), When(FALSE, 2), When(TRUE, 2)}, Limit <- 1, MaxChanges <- 3,
              None <- nobody, call <- booking, page <- turn
Agenda == INSTANCE CalendarCalls WITH Hosts <- {"writer", "reader"}, Events <- {"e1", "e2"},
            Granted <- Of({"writer", "reader"}),
            Tasks <- "writer" :> {"create", "delete"} @@ "reader" :> {"list"},
            Whens <- {When(TRUE, 1), When(TRUE, 2)}, Limit <- 1, MaxChanges <- 3,
            None <- nobody, call <- booking, page <- turn

\* A start with a poll and two redeems; two starts over the capacity of one; and
\* three invocations and a close.
MethodOf == [c \in {"s1", "s2", "p", "r1", "r2", "i1", "i2", "i3", "k"} |->
    CASE c \in {"s1", "s2"} -> "start" [] c = "p" -> "poll" [] c \in {"r1", "r2"} -> "redeem"
      [] c = "k" -> "close" [] OTHER -> "invoke"]
ArgOf == [c \in {"p", "r1", "r2"} |-> "s1"]
Redeems == INSTANCE RunnerCalls WITH Calls <- {"s1", "p", "r1", "r2"}, Capacity <- 1,
             MaxProcesses <- 2, None <- nobody, expired <- lapsed, asked <- polled
Starts == INSTANCE RunnerCalls WITH Calls <- {"s1", "s2", "p", "r1"}, Capacity <- 1,
            MaxProcesses <- 2, None <- nobody, expired <- lapsed, asked <- polled
Invokes == INSTANCE RunnerCalls WITH Calls <- {"i1", "i2", "i3", "k"}, Capacity <- 1,
             MaxProcesses <- 3, None <- nobody, expired <- lapsed, asked <- polled

ASSUME ProvidersAssumption ==
    /\ Drive!LimitsAssumption /\ Stranger!LimitsAssumption
    /\ Writes!OperationAssumption /\ Reads!OperationAssumption
    /\ Reviewed!BoundsAssumption /\ Reviewed!AdapterAssumption
    /\ Files!BoundsAssumption /\ Files!AdapterAssumption
    /\ Imap!BoundsAssumption /\ Imap!StreamsAssumption
    /\ Mcp!RequestsAssumption /\ Mcp!BodiesAssumption /\ Mcp!SnapshotsAssumption
    /\ Mailbox!BoundsAssumption /\ Pages!BoundsAssumption /\ Mail!BoundsAssumption
    /\ Bookings!BoundsAssumption /\ Bookings!TasksAssumption /\ Bookings!WhensAssumption
    /\ Agenda!BoundsAssumption /\ Agenda!TasksAssumption /\ Agenda!WhensAssumption
    /\ Redeems!ArgAssumption /\ Starts!ArgAssumption /\ Invokes!ArgAssumption

drive == <<upload, at, offset, noProgress, sent, held, written, late, result>>
calls == <<state, request, delayed, handed, effects, keys, used, scope, refused>>
walks == <<connection, expired, phase, asked, credential, cursor, trail, next>>
imap == <<stream, arrived, captured, pending, remaining, got, validated, calling, err>>
runner == <<call, queue, lock, process, spawned, live, stdin, stdout, busy, tx,
            lapsed, presented, polled>>
mcp == <<asks, snapshot, operations, alive, step, posted, session, version, posts, ran, answer,
         outcome>>
mail == <<honest, mailbox, uidNext, validity, op, stage, secure, secret, status, todo, page, told,
          walk, listed, steady, accepted, reached, finished, delivered>>
agenda == <<calendar, changes, booking, known, turn, synced>>
vars == <<part, drive, calls, walks, imap, runner, mcp, mail, agenda>>

Parts == {"drive", "stranger", "writes", "reads", "reviewed", "files", "imap",
          "redeems", "starts", "invokes", "mcp", "mailbox", "pages", "mail", "bookings", "agenda"}

Init ==
    /\ part \in Parts
    /\ Drive!Init /\ (part \notin {"drive", "stranger"} =>
                        upload = CHOOSE u \in Drive!Uploads : TRUE)
    /\ IF part = "reads" THEN Reads!Init ELSE Writes!Init
    /\ IF part = "files" THEN Files!Init ELSE Reviewed!Init
    /\ part \notin {"reviewed", "files"} => connection.account = "one"
    /\ Imap!Init /\ (part # "imap" => stream = << >>)
    /\ CASE part = "redeems" -> Redeems!Init
         [] part = "starts" -> Starts!Init
         [] OTHER -> Invokes!Init
    /\ Mcp!Init /\ (part # "mcp" => asks = Ask("exa", "scrape", << >>, "own", FALSE, TRUE, FALSE))
    /\ IF part = "agenda" THEN Agenda!Init ELSE Bookings!Init
    /\ Mailbox!Init /\ (part \notin {"mailbox", "pages", "mail"} => honest)

DriveStep ==
    /\ \/ part = "drive" /\ Drive!Next
       \/ part = "stranger" /\ Stranger!Next
    /\ UNCHANGED <<part, calls, walks, imap, runner, mcp, mail, agenda>>

CallStep ==
    /\ \/ part = "writes" /\ Writes!Next
       \/ part = "reads" /\ Reads!Next
    /\ UNCHANGED <<part, drive, walks, imap, runner, mcp, mail, agenda>>

\* Invocations are alike, so the first that is made may be called the first.
InOrder == \A c \in {<<a1, a2>>, <<a2, a3>>} : phase[c[2]] # "idle" => phase[c[1]] # "idle"

WalkStep ==
    /\ \/ part = "reviewed" /\ Reviewed!Next
       \/ part = "files" /\ Files!Next
    /\ InOrder'
    /\ UNCHANGED <<part, drive, calls, imap, runner, mcp, mail, agenda>>

ImapStep ==
    /\ part = "imap" /\ Imap!Next
    /\ UNCHANGED <<part, drive, calls, walks, runner, mcp, mail, agenda>>

RunnerStep ==
    /\ \/ part = "redeems" /\ Redeems!Next
       \/ part = "starts" /\ Starts!Next
       \/ part = "invokes" /\ Invokes!Next
    /\ UNCHANGED <<part, drive, calls, walks, imap, mcp, mail, agenda>>

McpStep ==
    /\ part = "mcp" /\ Mcp!Next
    /\ UNCHANGED <<part, drive, calls, walks, imap, runner, mail, agenda>>

MailStep ==
    /\ \/ part = "mailbox" /\ Mailbox!Next
       \/ part = "pages" /\ Pages!Next
       \/ part = "mail" /\ Mail!Next
    /\ UNCHANGED <<part, drive, calls, walks, imap, runner, mcp, agenda>>

AgendaStep ==
    /\ \/ part = "bookings" /\ Bookings!Next
       \/ part = "agenda" /\ Agenda!Next
    /\ UNCHANGED <<part, drive, calls, walks, imap, runner, mcp, mail>>

Next == DriveStep \/ CallStep \/ WalkStep \/ ImapStep \/ RunnerStep \/ McpStep \/ MailStep \/ AgendaStep

Spec == Init /\ [][Next]_vars

-----------------------------------------------------------------------------
\* What is written at a provider: an upload that succeeded left every byte at
\* Drive, once, and the offset it resumes from is one Drive holds; with a Drive
\* that answers anything, no byte is skipped and success comes after the last
\* byte; a write without a key is sent once, a keyed one is applied once between
\* its attempts, its repetitions and its late requests, a result is the answer to a
\* request that was applied; and the budgets hold at every moment.  A call at an MCP
\* server that was refused ran no tool, its steps go out in order under the session the
\* server gave, only reviewed tools run; a message is delivered whole, to all, and once,
\* unless a call said that it may have been; no password goes out but over TLS.  No write to
\* a calendar replaces a version its host has not read, and its events stay well-formed.
WritesSafe ==
    /\ part = "drive" => /\ Drive!TypeOK /\ Drive!SuccessIsStored /\ Drive!WrittenOnce
                         /\ Drive!OffsetIsHeld
    /\ part = "stranger" => Stranger!NoByteSkipped /\ Stranger!SuccessAfterLastByte
    /\ part = "writes" => /\ Writes!UnkeyedWritesSentOnce /\ Writes!AppliedOnce
                          /\ Writes!ResultIsApplied
    /\ part = "reads" => Reads!TypeOK /\ Reads!UnkeyedWritesSentOnce /\ Reads!BudgetIsKept
    /\ part = "mcp" => /\ Mcp!TypeOK /\ Mcp!RefusalsRunNothing
                       /\ Mcp!StepsUnderTheirSession /\ Mcp!OnlyReviewedToolsRun
    /\ part = "mail" => Mail!TypeOK /\ Mail!SecretsOverTls /\ Mail!DeliveredOnceAndReported
    /\ part = "bookings" => /\ Bookings!TypeOK /\ Bookings!NoLostUpdate
                            /\ Bookings!WritesAreToldTruly /\ Bookings!EventsAreWellFormed

\* What is read from a provider: a walk along page tokens stays in one listing,
\* without a gap, under the credential it began with, and is not cut short by what
\* fails on the way (reviewed_batch.go, microsoft_files.go); the bytes of an IMAP
\* connection reach the parser once, in order, validated and within the budget.  What an
\* MCP server returned is the output of the tool that was called, of what was asked for
\* (keyless_mcp.go, higgsfield_mcp.go); a walk through a mailbox misses no message that
\* stayed, lists none twice and ends, and what is read is what was listed (imap.go); a
\* host that followed a calendar to a sync token missed nothing up to it (google_calendar.go).
ListingsSafe ==
    /\ part = "reviewed" => /\ Reviewed!TypeOK /\ Reviewed!WalksStayInOneListing
                            /\ Reviewed!WalksKeepTheirCredential /\ Reviewed!WalksAreNotCutShort
    /\ part = "files" => /\ Files!TypeOK /\ Files!WalksStayInOneListing
                         /\ Files!WalksKeepTheirCredential /\ Files!WalksAreNotCutShort
    /\ part = "imap" => /\ Imap!TypeOK /\ Imap!BytesOnceInOrder /\ Imap!OnlyValidated
                        /\ Imap!BudgetCovers
    /\ part = "mcp" => Mcp!ResultAnswersTheCall /\ Mcp!OutputIsAsked
    /\ part = "mailbox" => /\ Mailbox!TypeOK /\ Mailbox!WalksMissNothing /\ Mailbox!WalksDescend
                           /\ Mailbox!GotIsTheListed /\ Mailbox!SecretsOverTls
    /\ part = "pages" => Pages!TypeOK /\ Pages!WalksMissNothing /\ Pages!WalksDescend
    /\ part = "agenda" => Agenda!TypeOK /\ Agenda!SyncMissesNothing

\* The client of the connector runner, over timeouts and killed runners: a code is
\* presented once, the broker is asked only about transactions no process knows,
\* their number is bounded, and one process at a time works on one request, with
\* nothing of an earlier call left in its pipes.
RunnerSafe ==
    /\ part = "redeems" => Redeems!CodePresentedOnce /\ Redeems!OwnConsentsStayHere
    /\ part = "starts" => Starts!CodePresentedOnce /\ Starts!TransactionsBounded
    /\ part = "invokes" => /\ Invokes!TypeOK /\ Invokes!OneProcess /\ Invokes!CleanBetweenCalls
                           /\ Invokes!OneRequestAtATime

\* A refused scope check ends the call, whatever attempts were left, and no request
\* goes out under a key that was restricted when the attempt asked: the scope is
\* asked for before every attempt (validateReplioContext).
RefusedScopesAreFinal ==
    [][part = "reads" => Reads!RefusedStays /\ Reads!SendsUnderScope]_vars

\* A call takes nothing for its reply that the runner wrote for another request, or
\* for a line it could not read (call, request_id).
RepliesAreOwn == [][part = "invokes" => Invokes!OwnReply]_vars
=============================================================================

------------------------------ MODULE McpCalls ------------------------------
(***************************************************************************)
(* One tool call at a remote MCP server: the adapters without a credential *)
(* (keyless_mcp.go: exa, firecrawl, coingecko, context7, parallel_search)  *)
(* and the one of reviewed tools that may spend (higgsfield_mcp.go), under *)
(* src/packages/connectors/providers.  A call is three posts: initialize,  *)
(* the notification that it is done, and tools/call.  The adapters keep    *)
(* nothing between calls, so one call at a time is modelled.  The server   *)
(* answers anything; what it says of a tool it ran, it says after it ran.  *)
(***************************************************************************)
EXTENDS Naturals, Sequences, SequencesExt, FiniteSets

CONSTANTS
  Requests,      \* the calls a host makes
  Snapshots,     \* what a snapshot file of reviewed tools holds
  MaxOperations, \* 64
  Excluded,      \* tools of identity and voice, kept out of every snapshot
  Sessions,      \* session identifiers of servers
  Bodies,        \* the bodies of answers
  None

\* The compiled tools: what a provider without a credential offers, and the tool
\* at the server it stands for.
Compiled ==
  [exa |-> [search |-> "web_search_exa", fetch |-> "web_fetch_exa"],
   firecrawl |-> [search |-> "firecrawl_search", scrape |-> "firecrawl_scrape"],
   coingecko |-> [price |-> "execute", global |-> "execute"],
   context7 |-> [resolve_library |-> "resolve-library-id", query_docs |-> "query-docs"],
   parallel_search |-> [search |-> "web_search", fetch |-> "web_fetch"]]

\* The versions of the protocol an adapter without a credential goes on with.
Versions == {"2025-06-18", "2025-03-26", "2024-11-05"}

\* A call names a provider, an operation and its account, and has arguments: the
\* pages or coins it `asks` for, and the rest, which `fits` the schema or not; `large`
\* says that tools/call would be larger than a request may be.
RequestsAssumption ==
  \A r \in Requests :
    /\ r.provider \in DOMAIN Compiled \cup {"higgsfield"}
    /\ r.account \in {"own", "absent", "foreign"} /\ r.credential \in BOOLEAN
    /\ r.fits \in BOOLEAN /\ r.large \in BOOLEAN

\* A line of a body is JSON or not.  JSON has the id of a request or another, and
\* says a result, an error of the envelope, an error of the tool (isError), an error
\* in the payload of a result, or a result that is not an object; a result has the
\* `version` of the protocol, the `output` of a tool.  A stream can end with [DONE].
BodiesAssumption ==
  \A b \in Bodies :
    /\ b.stream \in BOOLEAN /\ ~ b.stream => Len(b.lines) < 2
    /\ \A i \in DOMAIN b.lines :
         /\ b.lines[i].json \in BOOLEAN /\ b.lines[i].id \in {"initialize", "call", "other"}
         /\ b.lines[i].says \in {"result", "error", "toolError", "payloadError", "scalar", "done"}
         /\ b.lines[i].json => b.lines[i].says # "done"

SnapshotsAssumption ==
  /\ MaxOperations \in Nat
  /\ \A s \in Snapshots : \A i \in DOMAIN s : s[i].risk \in {"read", "spend", "write", "publish"}

VARIABLES
  request,    \* the call
  snapshot,   \* the file of reviewed tools, with whether its digest is the pinned one
  operations, \* what the adapter offers: operation -> tool at the server
  live,       \* the credential has not expired
  step,       \* "load", "invoke", "initialize", "notify", "call" or "ended"
  posted,     \* an answer to the current step is due
  session,    \* of the server, from its answer to initialize
  version,    \* of the protocol
  sent,       \* the posts, in order
  ran,        \* the tools the server ran, in order
  answer,     \* the body the call ended with
  outcome     \* what the host is told

vars == <<request, snapshot, operations, live, step, posted, session, version, sent, ran,
          answer, outcome>>

Keyless == request.provider # "higgsfield"

Init ==
  /\ request \in Requests /\ snapshot \in [operations : Snapshots, pinned : BOOLEAN]
  /\ Keyless => snapshot = CHOOSE s \in [operations : Snapshots, pinned : BOOLEAN] : TRUE
  /\ operations = None /\ live = TRUE
  /\ step = "load" /\ posted = FALSE /\ session = None /\ version = "2025-06-18"
  /\ sent = << >> /\ ran = << >> /\ answer = None /\ outcome = [kind |-> "none"]

-----------------------------------------------------------------------------
(* The reviewed tools *)

\* validateHiggsfieldMapping: neither name is excluded, the risk is read or spend.
MappingValid(m) == {m.name, m.tool} \cap Excluded = {} /\ m.risk \in {"read", "spend"}

\* NewHiggsfieldMCPAdapter: no name and no tool appears twice.
Reviewed(s) ==
  /\ Len(s) \in 1..MaxOperations
  /\ \A m \in ToSet(s) : MappingValid(m)
  /\ \A i, j \in DOMAIN s : i # j => s[i].name # s[j].name /\ s[i].tool # s[j].tool

\* What a snapshot offers: a tool under the name of its mapping.
Offered(s) == [n \in {m.name : m \in ToSet(s)} |-> (CHOOSE m \in ToSet(s) : m.name = n).tool]

Ends(result) == step' = "ended" /\ posted' = FALSE /\ outcome' = result

\* An adapter is built with the compiled tools of its provider, or with a snapshot of
\* the pinned digest that is reviewed; there is none otherwise.
Load ==
  /\ step = "load"
  /\ IF Keyless
     THEN operations' = Compiled[request.provider] /\ step' = "invoke" /\ UNCHANGED <<posted, outcome>>
     ELSE IF snapshot.pinned /\ Reviewed(snapshot.operations)
     THEN operations' = Offered(snapshot.operations) /\ step' = "invoke" /\ UNCHANGED <<posted, outcome>>
     ELSE Ends([kind |-> "unavailable"]) /\ UNCHANGED operations
  /\ UNCHANGED <<request, snapshot, live, session, version, sent, ran, answer>>

-----------------------------------------------------------------------------
(* Invoke *)

Distinct(s) == \A i, j \in DOMAIN s : s[i] = s[j] => i = j

\* What is asked for is fetched page by page, or priced coin by coin.
Fetches == request.provider = "parallel_search" /\ request.operation = "fetch"
Prices == request.provider = "coingecko" /\ request.operation = "price"

\* arguments, validateInvocation: a keyless call is denied when its operation is not
\* compiled, it brings a credential or names another account, and invalid when it
\* asks for a page or a coin twice; an operation outside the snapshot is unsupported.
Refusals ==
  LET account == IF request.account # "foreign" THEN {}
                 ELSE IF Keyless THEN {"denied"} ELSE {"invalid_arguments"}
      arguments == IF request.fits /\ (Fetches \/ Prices => Distinct(request.asks)) THEN {}
                   ELSE {"invalid_arguments"}
  IN IF request.operation \notin DOMAIN operations
     THEN {IF Keyless THEN "denied" ELSE "unsupported"}
     ELSE IF Keyless /\ request.credential THEN {"denied"}
     ELSE account \cup arguments

Invoke ==
  /\ step = "invoke"
  /\ \/ \E kind \in Refusals : Ends([kind |-> kind])
     \/ Refusals = {} /\ step' = "initialize" /\ UNCHANGED <<posted, outcome>>
  /\ UNCHANGED <<request, snapshot, operations, live, session, version, sent, ran, answer>>

\* The credential of a higgsfield call reaches its expiry while the call is on.
Expire ==
  /\ ~ Keyless /\ live /\ step # "ended"
  /\ live' = FALSE
  /\ UNCHANGED <<request, snapshot, operations, step, posted, session, version, sent, ran, answer,
                 outcome>>

\* call, up to doer.Do: a body that is too large is not sent, nor is a post without a
\* credential that can still be applied.
Post ==
  /\ step \in {"initialize", "notify", "call"} /\ ~ posted
  /\ IF step = "call" /\ request.large THEN Ends([kind |-> "invalid_arguments"]) /\ UNCHANGED sent
     ELSE IF ~ Keyless /\ ~ live THEN Ends([kind |-> "credential_error"]) /\ UNCHANGED sent
     ELSE /\ sent' = Append(sent, [method |-> step, session |-> session, version |-> version])
          /\ posted' = TRUE
          /\ UNCHANGED <<step, outcome>>
  /\ UNCHANGED <<request, snapshot, operations, live, session, version, ran, answer>>

\* The server runs the tool it was sent, which may be after the adapter gave up.
Run ==
  /\ \E i \in DOMAIN sent : sent[i].method = "call"
  /\ ran = << >>
  /\ ran' = Append(ran, operations[request.operation])
  /\ UNCHANGED <<request, snapshot, operations, live, step, posted, session, version, sent, answer,
                 outcome>>

-----------------------------------------------------------------------------
(* Answers *)

\* No answer that can be used: the connection or the response fails, the response
\* is too large or has a status of failure.  An adapter without a credential
\* takes no answer from another address, and no session it could not send back.
Fail(kind) ==
  /\ posted
  /\ kind \in {"network_error", "response_error", "provider_error"}
       \cup (IF Keyless THEN {"provider_redirect_error", "provider_protocol_error"}
             ELSE {"response_too_large", "provider_permission"})
  /\ Ends([kind |-> kind])
  /\ UNCHANGED <<request, snapshot, operations, live, session, version, sent, ran, answer>>

Json(b) == SelectSeq(b.lines, LAMBDA l : l.json)
Data(b) == SelectSeq(b.lines, LAMBDA l : l.says # "done")

\* decodeMCPBody and, for coingecko, validateCoinGeckoMCPBody: of a stream the last
\* line that is JSON counts; coingecko takes a stream of one line.
Decodes(b) ==
  /\ Json(b) # << >>
  /\ (request.provider = "coingecko" /\ b.stream) => Len(Data(b)) = 1
Latest(b) == Last(Json(b))

\* validateMCPResponse, mcpResult and pipeboardMCPResultError.
Responds(l, id) == l.id = id /\ l.says \in {"result", "toolError", "payloadError", "scalar"}
Result(l, id) == Responds(l, id) /\ l.says \notin {"scalar", "toolError"}
KeylessResult(l, id) == Result(l, id) /\ l.says # "payloadError"

\* validateParallelMCPResult: no page twice; of a fetch as many as were asked for, and
\* each of them asked for.
PagesValid(rows) ==
  /\ Distinct(rows)
  /\ Fetches => Len(rows) = Len(request.asks) /\ ToSet(rows) \subseteq ToSet(request.asks)

\* validCoinGeckoPrices: as many coins as were asked for, and a price for each.
PricesValid(rows) ==
  /\ Cardinality(DOMAIN rows) = Len(request.asks)
  /\ \A coin \in ToSet(request.asks) : coin \in DOMAIN rows /\ rows[coin] # None

\* decodeCoinGeckoResult, validateParallelMCPResult, validateContext7MCPResult: the
\* schema of the operation, no `extra` (what a program logged, a page that failed),
\* and the rows.  The other providers promise nothing.
OutputValid(output) ==
  CASE request.provider = "coingecko" ->
         ~ output.extra /\ output.schema = request.operation /\ (Prices => PricesValid(output.rows))
    [] request.provider = "parallel_search" ->
         /\ output.schema = request.operation /\ (Fetches => ~ output.extra)
         /\ PagesValid(output.rows)
    [] request.provider = "context7" -> output.rows # << >>
    [] OTHER -> TRUE

\* The answer to initialize: its session and, without a credential, its version are
\* those of the rest of the call.
Initialized(b, s) ==
  /\ step = "initialize" /\ posted
  /\ LET ok == /\ Decodes(b)
               /\ IF Keyless THEN /\ KeylessResult(Latest(b), "initialize")
                                  /\ Latest(b).version \in Versions
                  ELSE Responds(Latest(b), "initialize")
     IN IF ok
        THEN /\ step' = "notify" /\ posted' = FALSE /\ session' = s
             /\ version' = IF Keyless THEN Latest(b).version ELSE version
             /\ UNCHANGED outcome
        ELSE Ends([kind |-> "provider_protocol_error"]) /\ UNCHANGED <<session, version>>
  /\ UNCHANGED <<request, snapshot, operations, live, sent, ran, answer>>

\* The answer to the notification may be empty; what it says is not looked at.
Notified(b) ==
  /\ step = "notify" /\ posted
  /\ IF b.lines = << >> \/ Decodes(b)
     THEN step' = "call" /\ posted' = FALSE /\ UNCHANGED outcome
     ELSE Ends([kind |-> "provider_protocol_error"])
  /\ UNCHANGED <<request, snapshot, operations, live, session, version, sent, ran, answer>>

\* The answer to tools/call.
Called(b) ==
  /\ step = "call" /\ posted
  /\ (\E l \in ToSet(b.lines) : l.id = "call" /\ l.says \in {"result", "payloadError"}) => ran # << >>
  /\ answer' = b
  /\ Ends(IF ~ Decodes(b) THEN [kind |-> "provider_protocol_error"]
          ELSE IF /\ IF Keyless THEN KeylessResult(Latest(b), "call") ELSE Result(Latest(b), "call")
                  /\ OutputValid(Latest(b).output)
          THEN [kind |-> "result", data |-> Latest(b).output]
          ELSE [kind |-> "provider_operation_error"])
  /\ UNCHANGED <<request, snapshot, operations, live, session, version, sent, ran>>

Answered ==
  /\ posted
  /\ \E b \in Bodies : \/ \E s \in Sessions \cup {None} : Initialized(b, s)
                       \/ Notified(b)
                       \/ Called(b)

Failed == \E kind \in {"network_error", "response_error", "response_too_large", "provider_error",
                       "provider_permission", "provider_redirect_error",
                       "provider_protocol_error"} : Fail(kind)

Next == Load \/ Invoke \/ Expire \/ Post \/ Run \/ Answered \/ Failed

Spec == Init /\ [][Next]_vars

-----------------------------------------------------------------------------
TypeOK ==
  /\ request \in Requests /\ live \in BOOLEAN /\ posted \in BOOLEAN
  /\ step \in {"load", "invoke", "initialize", "notify", "call", "ended"}
  /\ session \in Sessions \cup {None} /\ version \in Versions
  /\ Len(sent) \in 0..3 /\ Len(ran) \in 0..1

\* A result the host gets is the output of the tool this call ran, taken from an answer
\* that says so under the id of the call and reports no error, and, where a server could
\* hide an earlier error behind a later success, from an answer of one line
\* (validateCoinGeckoMCPBody).
ResultAnswersTheCall ==
  outcome.kind = "result" =>
    /\ ran = <<operations[request.operation]>>
    /\ \E i \in DOMAIN answer.lines :
         /\ answer.lines[i].id = "call" /\ answer.lines[i].output = outcome.data
         /\ answer.lines[i].says \in (IF Keyless THEN {"result"} ELSE {"result", "payloadError"})
         /\ request.provider = "coingecko" =>
              \A j \in DOMAIN answer.lines : j # i => answer.lines[j].says = "done"

\* What is fetched is what was asked for: every page of the call once and no
\* other, and a price for every coin and for no other.
OutputIsAsked ==
  outcome.kind = "result" =>
    /\ Fetches =>
         /\ ToSet(outcome.data.rows) = ToSet(request.asks)
         /\ Len(outcome.data.rows) = Cardinality(ToSet(request.asks))
    /\ Prices => DOMAIN outcome.data.rows = ToSet(request.asks)

\* A call the host was told is denied, unsupported, invalid or without a credential
\* ran nothing at the server and never will, however far it had got.
RefusalsRunNothing ==
  outcome.kind \in {"unavailable", "denied", "unsupported", "invalid_arguments", "credential_error"} =>
    /\ ran = << >>
    /\ \A i \in DOMAIN sent : sent[i].method # "call"

\* A server sees the steps of a call in their order, each once, and the later ones
\* under the session and the version it gave in answer to the first.
StepsUnderTheirSession ==
  /\ \A i \in DOMAIN sent : sent[i].method = <<"initialize", "notify", "call">>[i]
  /\ sent # << >> => sent[1].session = None /\ sent[1].version = "2025-06-18"
  /\ \A i \in 2..Len(sent) : sent[i].session = session /\ sent[i].version = version

\* No tool that is kept out of the snapshots is ever run, and no tool runs under the
\* name of another: a file that was changed or names a tool twice gives no adapter.
OnlyReviewedToolsRun ==
  ~ Keyless /\ ran # << >> =>
    /\ snapshot.pinned /\ ran[1] \notin Excluded
    /\ \E m \in ToSet(snapshot.operations) :
         /\ m.tool = ran[1] /\ m.name = request.operation /\ m.risk \in {"read", "spend"}
    /\ \A m \in ToSet(snapshot.operations) : m.tool = ran[1] <=> m.name = request.operation
=============================================================================

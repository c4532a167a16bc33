----------------------------- MODULE WebSearches -----------------------------
(* The searches of the web-search server (search-engine.ts, rate-limiter.ts):   *)
(* a search passes the limiter, waits for one of the concurrent places, and     *)
(* tries Bing, Brave and DuckDuckGo in turn, keeping the best results so far.   *)
(* Bing and Brave launch a browser of their own for each of two attempts.       *)
EXTENDS Integers, FiniteSets

CONSTANTS
  Searches,       \* calls of search
  MaxRequests,    \* maxRequestsPerMinute
  Places,         \* the concurrency of pLimit
  Interval,       \* resetIntervalMs, in steps of the clock
  MaxClock,       \* bound: steps of the clock
  CheckQuality,   \* ENABLE_RELEVANCE_CHECKING
  ForceMulti      \* FORCE_MULTI_ENGINE_SEARCH

SearchAssumption ==
  /\ MaxRequests \in Nat \ {0} /\ Places \in Nat \ {0} /\ Interval \in Nat \ {0}
  /\ MaxClock \in Nat /\ CheckQuality \in BOOLEAN /\ ForceMulti \in BOOLEAN
  /\ IsFiniteSet(Searches)

\* The scores of results that the code tells apart: no keyword found, below the
\* threshold, at least the threshold, at least 0.8.
Zero == 0
Low == 1
Fair == 2
Excellent == 3
Nothing == -1        \* an engine that found no results

Bing == 1
Brave == 2
DuckDuckGo == 3

VARIABLES
  clock,    \* now
  limiter,  \* requestCount and lastResetTime
  search,   \* each search: step, engine, attempt, its browser, best results and answer
  found     \* ghost: the scores each search's engines found

vars == <<clock, limiter, search, found>>

Init ==
  /\ clock = 0
  /\ limiter = [count |-> 0, reset |-> 0]
  /\ search = [s \in Searches |-> [pc |-> "idle", engine |-> Bing, attempt |-> 1,
                 browser |-> FALSE, quality |-> Zero, best |-> FALSE, answer |-> Nothing]]
  /\ found = [s \in Searches |-> {}]

Inside == {"launch", "page", "direct", "failed"}
Running == {s \in Searches : search[s].pc \in Inside}
Over == {"answered", "refused"}

-----------------------------------------------------------------------------
(* RateLimiter.execute                                                        *)

Tick ==
  /\ clock < MaxClock
  /\ clock' = clock + 1
  /\ UNCHANGED <<limiter, search, found>>

\* The counter starts anew after an interval; a full counter refuses.  A search that
\* passes is counted only when it gets its place.
Execute(s) ==
  LET fresh == IF clock - limiter.reset >= Interval
                 THEN [count |-> 0, reset |-> clock] ELSE limiter IN
  /\ search[s].pc = "idle"
  /\ limiter' = fresh
  /\ search' = [search EXCEPT ![s].pc = IF fresh.count >= MaxRequests THEN "refused" ELSE "queued"]
  /\ UNCHANGED <<clock, found>>

Begin(s) ==
  /\ search[s].pc = "queued" /\ Cardinality(Running) < Places
  /\ limiter' = [limiter EXCEPT !.count = @ + 1]
  /\ search' = [search EXCEPT ![s].pc = "launch"]
  /\ UNCHANGED <<clock, found>>

-----------------------------------------------------------------------------
(* SearchEngine.search: what it makes of an engine's results                  *)

Answer(s, q) == [search[s] EXCEPT !.pc = "answered", !.browser = FALSE, !.answer = q]

\* The next engine; after the last the best results there are, or none.
Advance(r) ==
  IF r.engine # DuckDuckGo
    THEN [r EXCEPT !.pc = "launch", !.engine = @ + 1, !.attempt = 1, !.browser = FALSE]
    ELSE [r EXCEPT !.pc = "answered", !.browser = FALSE,
                   !.answer = IF r.best THEN r.quality ELSE Nothing]

\* Results of score q (or Nothing) end the search, or are kept if they beat the best.
\* Without the quality check every result counts as excellent.
Consider(s, q) ==
  LET score == IF CheckQuality THEN q ELSE Excellent
      r == search[s]
      kept == IF score > r.quality THEN [r EXCEPT !.quality = score, !.best = TRUE] ELSE r IN
  IF q = Nothing THEN Advance(r)
  ELSE IF \/ score >= Excellent /\ ~ForceMulti
          \/ score >= Fair /\ r.engine # Bing /\ ~ForceMulti
    THEN Answer(s, score)
  ELSE IF r.engine = DuckDuckGo /\ (kept.quality >= Fair \/ ~CheckQuality \/ kept.best)
    THEN [kept EXCEPT !.pc = "answered", !.answer = IF kept.best THEN kept.quality ELSE Nothing]
  ELSE Advance(kept)

Returns(s, q) ==
  /\ search' = [search EXCEPT ![s] = Consider(s, q)]
  /\ found' = IF q = Nothing THEN found
              ELSE [found EXCEPT ![s] = @ \cup {IF CheckQuality THEN q ELSE Excellent}]
  /\ UNCHANGED <<clock, limiter>>

Step(s, pc) ==
  /\ search' = [search EXCEPT ![s].pc = pc]
  /\ UNCHANGED <<clock, limiter, found>>

-----------------------------------------------------------------------------
(* The engines                                                                *)

\* Bing and Brave start a browser for this attempt only.
Launch(s) ==
  /\ search[s].pc = "launch" /\ search[s].engine # DuckDuckGo
  /\ \/ /\ search' = [search EXCEPT ![s].pc = "page", ![s].browser = TRUE]
        /\ UNCHANGED <<clock, limiter, found>>
     \/ Step(s, "failed")

\* Bing's form first, and the direct address if that throws; no results is an answer.
BingForm(s, q) ==
  /\ search[s].pc = "page" /\ search[s].engine = Bing
  /\ Returns(s, q)

BingFormFails(s) ==
  /\ search[s].pc = "page" /\ search[s].engine = Bing
  /\ Step(s, "direct")

BingDirect(s, q) ==
  /\ search[s].pc = "direct"
  /\ Returns(s, q)

BravePage(s, q) ==
  /\ search[s].pc = "page" /\ search[s].engine = Brave
  /\ Returns(s, q)

PageFails(s) ==
  /\ \/ search[s].pc = "direct"
     \/ search[s].pc = "page" /\ search[s].engine = Brave
  /\ Step(s, "failed")

\* The attempt's browser is closed; a second attempt, or the next engine.
AttemptFailed(s) ==
  /\ search[s].pc = "failed"
  /\ search' = [search EXCEPT ![s] =
       IF @.attempt = 1 THEN [@ EXCEPT !.pc = "launch", !.attempt = 2, !.browser = FALSE]
       ELSE Advance(@)]
  /\ UNCHANGED <<clock, limiter, found>>

\* DuckDuckGo is one plain request.
Duck(s, q) ==
  /\ search[s].pc = "launch" /\ search[s].engine = DuckDuckGo
  /\ Returns(s, q)

DuckFails(s) ==
  /\ search[s].pc = "launch" /\ search[s].engine = DuckDuckGo
  /\ search' = [search EXCEPT ![s] = Advance(@)]
  /\ UNCHANGED <<clock, limiter, found>>

-----------------------------------------------------------------------------
Scores == {Nothing, Zero, Low, Fair, Excellent}

Engine(s) ==
  \/ Launch(s) \/ BingFormFails(s) \/ PageFails(s) \/ AttemptFailed(s) \/ DuckFails(s)
  \/ \E q \in Scores : BingForm(s, q) \/ BingDirect(s, q) \/ BravePage(s, q) \/ Duck(s, q)

Next == Tick \/ \E s \in Searches : Execute(s) \/ Begin(s) \/ Engine(s)

Spec == Init /\ [][Next]_vars

\* Every step of an engine has a time limit; the places are given in order.
FairSpec == Spec /\ \A s \in Searches : WF_vars(Engine(s)) /\ SF_vars(Begin(s))

-----------------------------------------------------------------------------
(* Properties                                                                 *)

SearchType == [pc : {"idle", "queued"} \cup Inside \cup Over, engine : Bing .. DuckDuckGo,
               attempt : 1 .. 2, browser : BOOLEAN, quality : Zero .. Excellent,
               best : BOOLEAN, answer : Scores]

TypeOK ==
  /\ clock \in 0 .. MaxClock
  /\ limiter \in [count : 0 .. Cardinality(Searches), reset : 0 .. MaxClock]
  /\ search \in [Searches -> SearchType]
  /\ found \in [Searches -> SUBSET Scores]

\* What a later engine answers, nothing and failures included, does not displace
\* better results of an earlier one: the answer is the best found, or good enough.
BestIsAnswered ==
  \A s \in Searches : search[s].pc = "answered" =>
     \A q \in found[s] : q > Zero => search[s].answer >= Fair \/ search[s].answer >= q

\* A browser runs only in an attempt that has launched it: none is left by a retry,
\* the next engine or the end of the search.
BrowsersEndWithAttempts ==
  \A s \in Searches : search[s].browser => search[s].pc \in {"page", "direct", "failed"}

-----------------------------------------------------------------------------
(* The inductive invariant of the proofs *)

\* What is known of a search r whose engines found the scores f: DuckDuckGo needs no
\* browser, and until a search is answered it keeps the best results found so far.
SearchKnown(r, f) ==
  /\ r.browser => r.pc \in {"page", "direct", "failed"}
  /\ r.pc \in {"page", "direct", "failed"} => r.engine # DuckDuckGo
  /\ r.quality > Zero => r.best
  /\ \A q \in f : q > Zero =>
       IF r.pc = "answered" THEN r.answer >= Fair \/ r.answer >= q ELSE r.quality >= q

\* The limiter counts searches that began, each once.
Begun == {s \in Searches : search[s].pc \in Inside \cup {"answered"}}
BegunCounted == limiter.count <= Cardinality(Begun)

IInv == TypeOK /\ BegunCounted /\ \A s \in Searches : SearchKnown(search[s], found[s])

-----------------------------------------------------------------------------
\* Every search is answered or refused.
SearchesEnd == \A s \in Searches : (search[s].pc \in {"queued"} \cup Inside) ~> (search[s].pc \in Over)

\* The comment of the loop: an engine that finds nothing must not erase what an earlier
\* one found, whatever its score.
ResultsAreNotErased ==
  \A s \in Searches : search[s].pc = "answered" /\ found[s] # {} => search[s].answer # Nothing

\* The limiter is described as so many requests per minute.
RateIsKept == limiter.count <= MaxRequests
=============================================================================

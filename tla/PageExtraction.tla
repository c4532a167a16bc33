--------------------------- MODULE PageExtraction ---------------------------
(* The page extraction of the web-search server (enhanced-content-extractor.ts, *)
(* url-guard.ts): the pages of one result list are fetched concurrently, each   *)
(* first by plain requests and then, where that may help, in a browser context. *)
(* Both follow redirects hop by hop and check every destination first.  What a  *)
(* page in the browser requests of its own is checked on its first URL only.    *)
EXTENDS Integers, FiniteSets

CONSTANTS
  Pages,         \* the results processed
  Places,        \* concurrency of browserLimit
  MaxRedirects   \* MAX_REDIRECTS

ExtractionAssumption == Places \in Nat \ {0} /\ MaxRedirects \in Nat /\ IsFiniteSet(Pages)

\* A destination passes the guard or it does not.
Kinds == {"public", "refused"}

\* The ways a page in the browser requests things itself: it navigates, it loads
\* sub-resources, and playwright hands a redirect's follow-up to no route.
Ways == {"document", "resource", "unrouted"}

\* The requests the extractor makes for one page: plain, in a context, in the HTTP/1.1 context.
Budget == 3 * (MaxRedirects + 1)

VARIABLES
  page,    \* each page: step, hops taken, destination, open contexts, outcome
  sent,    \* history: requests made for each page, by the kind of destination
  reached, \* history: the ways in which pages reached a refused destination
  answered \* the list has been returned

vars == <<page, sent, reached, answered>>

Init ==
  /\ page = [p \in Pages |-> [pc |-> "idle", hop |-> 0, to |-> "public",
                              contexts |-> {}, refused |-> FALSE, result |-> "none"]]
  /\ sent = [p \in Pages |-> [k \in Kinds |-> 0]]
  /\ reached = {} /\ answered = FALSE

InBrowser == {"route", "load", "read"}
Request(p) == sent' = [sent EXCEPT ![p][page[p].to] = @ + 1]
\* The page is over; the contexts it holds are closed with it.
End(p, result) ==
  page' = [page EXCEPT ![p].pc = "over", ![p].contexts = {}, ![p].result = result]
Refuse(p) ==
  page' = [page EXCEPT ![p].pc = "over", ![p].contexts = {}, ![p].result = "error",
                       ![p].refused = TRUE]

-----------------------------------------------------------------------------
(* Plain requests                                                             *)

Start(p) ==
  /\ page[p].pc = "idle"
  /\ \E k \in Kinds : page' = [page EXCEPT ![p].pc = "check", ![p].to = k]
  /\ UNCHANGED <<sent, reached, answered>>

\* assertPublicHttpUrl of the next destination; the last one allowed is only checked.
Check(p) ==
  /\ page[p].pc = "check"
  /\ \/ page[p].to = "refused" /\ Refuse(p)
     \/ /\ page[p].to = "public" /\ page[p].hop <= MaxRedirects
        /\ page' = [page EXCEPT ![p].pc = "get"]
     \/ /\ page[p].to = "public" /\ page[p].hop > MaxRedirects
        /\ page' = [page EXCEPT ![p].pc = "failed"]
  /\ UNCHANGED <<sent, reached, answered>>

\* Good content ends the page; poor content and errors are failures.
Get(p) ==
  /\ page[p].pc = "get"
  /\ Request(p)
  /\ \/ End(p, "success")
     \/ page' = [page EXCEPT ![p].pc = "failed"]
     \/ \E k \in Kinds :
          page' = [page EXCEPT ![p].pc = "check", ![p].to = k, ![p].hop = @ + 1]
  /\ UNCHANGED <<reached, answered>>

\* shouldUseBrowser: the status, the message or the site suggests a browser.
Failed(p) ==
  /\ page[p].pc = "failed"
  /\ \/ page' = [page EXCEPT ![p].pc = "queued"]
     \/ End(p, "error")
  /\ UNCHANGED <<sent, reached, answered>>

-----------------------------------------------------------------------------
(* The browser                                                                *)

\* A place is free; the pool gives a browser and the browser a context, or they fail.
OpenContext(p) ==
  /\ page[p].pc = "queued"
  /\ Cardinality({q \in Pages : page[q].pc \in InBrowser}) < Places
  /\ \/ page' = [page EXCEPT ![p].pc = "route", ![p].hop = 0, ![p].to = "public",
                             ![p].contexts = {"first"}]
     \/ End(p, "error")
  /\ UNCHANGED <<sent, reached, answered>>

\* The main document: checked, then fetched without following redirects.
RouteRefused(p) ==
  /\ page[p].pc = "route" /\ page[p].to = "refused"
  /\ Refuse(p)
  /\ UNCHANGED <<sent, reached, answered>>

\* The next hop, or the end of them.
NextHop(p) ==
  \/ /\ page[p].hop = MaxRedirects
     /\ End(p, "error")
  \/ /\ page[p].hop < MaxRedirects
     /\ \E k \in Kinds :
          page' = [page EXCEPT ![p].pc = "route", ![p].hop = @ + 1, ![p].to = k]

\* An HTTP/2 error: the context is closed and another one starts from the first URL.
Http1(p) ==
  /\ page[p].contexts = {"first"}
  /\ page' = [page EXCEPT ![p].pc = "route", ![p].contexts = {"http1"}, ![p].hop = 0,
                          ![p].to = "public"]

Route(p) ==
  /\ page[p].pc = "route" /\ page[p].to = "public"
  /\ Request(p)
  /\ \/ page' = [page EXCEPT ![p].pc = "load"]
     \/ End(p, "error")
     \/ NextHop(p)
     \/ Http1(p)
  /\ UNCHANGED <<reached, answered>>

\* The document is there and goto waits until it is parsed.
Load(p) ==
  /\ page[p].pc = "load"
  /\ \/ page' = [page EXCEPT ![p].pc = "read"]
     \/ End(p, "error")
     \/ Http1(p)
  /\ UNCHANGED <<sent, reached, answered>>

\* A document may be there: goto waits until it is parsed, or its navigation to another
\* place started a new hop.
Inhabited(p) ==
  \/ page[p].pc \in {"load", "read"}
  \/ page[p].pc = "route" /\ page[p].hop > 0

\* A document that was loaded navigates while goto waits for it or for the next hop:
\* goto fails, by the refusal of the destination or for the redirect it answers with,
\* where goto then goes on.
Interrupt(p) ==
  /\ page[p].pc \in {"route", "load"} /\ Inhabited(p)
  /\ Refuse(p) \/ NextHop(p)
  /\ UNCHANGED <<sent, reached, answered>>

\* What a page in the browser requests itself, as often as it likes: a navigation is
\* checked and its redirect is aborted; of a sub-resource the first URL is checked and
\* the request continues, its redirects followed by the browser without a check.
PageRequests(p) ==
  /\ Inhabited(p)
  /\ \E way \in Ways, k \in Kinds :
       /\ way # "unrouted" => k = "public"
       /\ reached' = IF k = "refused" THEN reached \cup {way} ELSE reached
  /\ UNCHANGED <<page, sent, answered>>

Read(p) ==
  /\ page[p].pc = "read"
  /\ End(p, "success") \/ End(p, "error")
  /\ UNCHANGED <<sent, reached, answered>>

-----------------------------------------------------------------------------
\* Promise.all: the list is returned when every extraction has ended.
Answer ==
  /\ ~answered /\ \A p \in Pages : page[p].pc = "over"
  /\ answered' = TRUE
  /\ UNCHANGED <<page, sent, reached>>

Extract(p) ==
  \/ Start(p) \/ Check(p) \/ Get(p) \/ Failed(p)
  \/ OpenContext(p) \/ RouteRefused(p) \/ Route(p) \/ Load(p) \/ Interrupt(p)
  \/ Read(p)

Next == Answer \/ \E p \in Pages : Extract(p) \/ PageRequests(p)

Spec == Init /\ [][Next]_vars

\* Requests and navigations have time limits; places are given in order.
FairSpec == Spec /\ WF_vars(Answer)
                 /\ \A p \in Pages : WF_vars(Extract(p)) /\ SF_vars(OpenContext(p))

-----------------------------------------------------------------------------
(* Properties                                                                 *)

PageType == [pc : {"idle", "check", "get", "failed", "queued", "over"} \cup InBrowser,
             hop : 0 .. MaxRedirects + 1, to : Kinds,
             contexts : SUBSET {"first", "http1"}, refused : BOOLEAN,
             result : {"none", "success", "error"}]

TypeOK ==
  /\ page \in [Pages -> PageType]
  /\ sent \in [Pages -> [Kinds -> 0 .. Budget]]
  /\ reached \subseteq Ways /\ answered \in BOOLEAN

\* Every destination the extractor requests, redirects included, is checked before, and
\* so are the navigations of a page and the first URLs of its sub-resources: a refused
\* destination is reached by no way but the requests that playwright hands to no route.
OnlyCheckedRequests ==
  /\ \A p \in Pages : sent[p]["refused"] = 0
  /\ reached \subseteq {"unrouted"}

\* A refusal is final: the extractor requests nothing more, by no later redirect and by
\* no browser fallback.
RefusalIsFinal == [][\A p \in Pages : page[p].refused => sent'[p] = sent[p]]_vars

\* The redirects of each client are limited, so the extractor makes a bounded number of
\* requests for a page through all fallbacks together.  The page's own have no bound.
RequestsAreBounded == \A p \in Pages : sent[p]["public"] + sent[p]["refused"] <= Budget

\* Contexts are open only in a page that is in the browser, one at a time, and only as
\* many pages are there as there are places.
ContextsAreReleased ==
  /\ \A p \in Pages : page[p].contexts # {} =>
        page[p].pc \in InBrowser /\ Cardinality(page[p].contexts) = 1
  /\ Cardinality({p \in Pages : page[p].contexts # {}}) <= Places

-----------------------------------------------------------------------------
(* The inductive invariant of the proofs *)

Visiting == {p \in Pages : page[p].pc \in InBrowser}

\* The most a page has cost at its step: a request for each hop, after those of the
\* clients it tried before.
Spent(r) ==
  IF r.pc \in {"idle", "check", "get"} THEN r.hop
  ELSE IF r.pc \in {"failed", "queued"} THEN MaxRedirects + 1
  ELSE IF r.pc \in {"route", "load"} THEN
    (IF r.contexts = {"first"} THEN MaxRedirects + 1 ELSE 2 * (MaxRedirects + 1)) + r.hop
      + (IF r.pc = "load" THEN 1 ELSE 0)
  ELSE Budget

\* What is known of a page r for which the requests n were made.
PageKnown(r, n) ==
  /\ n["refused"] = 0 /\ n["public"] <= Spent(r)
  /\ r.pc \in {"get", "route", "load"} => r.hop <= MaxRedirects
  /\ r.pc = "get" => r.to = "public"
  /\ IF r.pc \in InBrowser THEN r.contexts \in {{"first"}, {"http1"}} ELSE r.contexts = {}
  /\ r.refused => r.pc = "over"

IInv ==
  /\ TypeOK /\ \A p \in Pages : PageKnown(page[p], sent[p])
  /\ Cardinality(Visiting) <= Places /\ reached \subseteq {"unrouted"}

-----------------------------------------------------------------------------
\* The list is returned, however its pages behave.
ListIsReturned == <>answered
=============================================================================

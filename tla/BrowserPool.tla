----------------------------- MODULE BrowserPool -----------------------------
(* The pool of browsers the page extractor of the web-search server draws from *)
(* (browser-pool.ts): acquisitions rotate over the browser types, share a      *)
(* launch of the same type, replace a browser that disconnected, and evict the *)
(* oldest browser when there are too many; closeAll drains the launches first. *)
EXTENDS Integers, Sequences, FiniteSets

CONSTANTS
  TypeList,     \* browserTypes: a sequence of types
  MaxBrowsers,  \* maxBrowsers
  Gets,         \* calls of getBrowser
  MaxLaunches,  \* bound: browsers ever launched
  MaxCloses     \* bound: calls of closeAll that find none under way

PoolAssumption ==
  /\ TypeList \in Seq(STRING) /\ TypeList # <<>>
  /\ MaxBrowsers \in Nat \ {0} /\ MaxLaunches \in Nat /\ MaxCloses \in Nat

Types == {TypeList[i] : i \in DOMAIN TypeList}
Browsers == 1 .. MaxLaunches

VARIABLES
  browsers,  \* this.browsers: each type's browser, or 0; browsers are numbered as they are
             \* launched, which is the order in which the map holds its entries
  launches,  \* this.launches: per type the step of its launch and the browsers it holds;
             \* ghost: the closings before it began
  closing,   \* closeAll: none or drain; how often it ran
  index,     \* currentBrowserIndex, modulo the number of types
  get,       \* each getBrowser: its step, type and browser
  browser    \* each browser: none, up, closing or gone

vars == <<browsers, launches, closing, index, get, browser>>

NoLaunch == [step |-> "none", old |-> 0, new |-> 0, victim |-> 0, key |-> TypeList[1],
             since |-> 0]

Init ==
  /\ browsers = [t \in Types |-> 0]
  /\ launches = [t \in Types |-> NoLaunch]
  /\ closing = [step |-> "none", count |-> 0]
  /\ index = 0
  /\ get = [g \in Gets |-> [pc |-> "idle", type |-> TypeList[1], b |-> 0]]
  /\ browser = [b \in Browsers |-> "none"]

Launching(t) == launches[t].step # "none"
Owned(b) == \E t \in Types : browsers[t] = b
Without(t) == [browsers EXCEPT ![t] = 0]
Fresh == {b \in Browsers : browser[b] = "none" /\ \A c \in 1 .. b - 1 : browser[c] # "none"}

-----------------------------------------------------------------------------
(* getBrowser                                                                 *)

\* closeAll is under way: wait for it.
WaitForClose(g) ==
  /\ get[g].pc = "idle" /\ closing.step # "none"
  /\ get' = [get EXCEPT ![g].pc = "closing"]
  /\ UNCHANGED <<browsers, launches, closing, index, browser>>

\* Faulty: a launch is published only when it has completed
UnpublishedLaunch(g) ==
  LET t == TypeList[index + 1] IN
  /\ get[g].pc \in {"idle", "closing"} /\ closing.step = "none"
  /\ index' = (index + 1) % Len(TypeList)
  /\ \E b \in Fresh :
       /\ browsers' = [browsers EXCEPT ![t] = b]
       /\ browser' = [browser EXCEPT ![b] = "up"]
       /\ get' = [get EXCEPT ![g] = [pc |-> "has", type |-> t, b |-> b]]
  /\ UNCHANGED <<closing, launches>>

\* The next type in turn: its pending launch, its connected browser (one that is
\* being closed may still say so), or a new launch, published before any await.
Acquire(g) ==
  LET t == TypeList[index + 1] IN
  /\ get[g].pc \in {"idle", "closing"} /\ closing.step = "none"
  /\ index' = (index + 1) % Len(TypeList)
  /\ \/ /\ Launching(t)
        /\ get' = [get EXCEPT ![g] = [pc |-> "launch", type |-> t, b |-> 0]]
        /\ UNCHANGED <<browsers, launches, browser>>
     \/ /\ ~Launching(t) /\ browsers[t] # 0 /\ browser[browsers[t]] \in {"up", "closing"}
        /\ get' = [get EXCEPT ![g] = [pc |-> "has", type |-> t, b |-> browsers[t]]]
        /\ UNCHANGED <<browsers, launches, browser>>
     \/ /\ ~Launching(t) /\ browsers[t] # 0 /\ browser[browsers[t]] # "up"
        /\ browsers' = Without(t)
        /\ launches' = [launches EXCEPT ![t] =
                [NoLaunch EXCEPT !.step = "closing", !.old = browsers[t], !.since = closing.count]]
        /\ get' = [get EXCEPT ![g] = [pc |-> "launch", type |-> t, b |-> 0]]
        /\ UNCHANGED browser
     \/ /\ ~Launching(t) /\ browsers[t] = 0
        /\ launches' = [launches EXCEPT ![t] =
                         [NoLaunch EXCEPT !.step = "launching", !.since = closing.count]]
        /\ get' = [get EXCEPT ![g] = [pc |-> "launch", type |-> t, b |-> 0]]
        /\ UNCHANGED <<browsers, browser>>
  /\ UNCHANGED closing

-----------------------------------------------------------------------------
(* launchBrowser                                                              *)

\* The browser that had disconnected is closed, whatever its close answers.
OldClosed(t) ==
  /\ launches[t].step = "closing"
  /\ browser' = [browser EXCEPT ![launches[t].old] = "gone"]
  /\ launches' = [launches EXCEPT ![t].step = "launching", ![t].old = 0]
  /\ UNCHANGED <<browsers, closing, index, get>>

\* The launch of t settles: everyone who waits for it gets b, or its error.
Settle(t, pc, b) ==
  /\ launches' = [launches EXCEPT ![t] = NoLaunch]
  /\ get' = [g \in Gets |-> IF get[g].pc = "launch" /\ get[g].type = t
                              THEN [pc |-> pc, type |-> t, b |-> b] ELSE get[g]]

\* Too many browsers: the first entry's browser is closed before the launch settles.
Launched(t) ==
  /\ launches[t].step = "launching"
  /\ \E b \in Fresh :
       /\ browsers' = [browsers EXCEPT ![t] = b]
       /\ IF Cardinality({u \in Types : browsers'[u] # 0}) > MaxBrowsers
            THEN \E o \in Types :
                 /\ browsers'[o] # 0
                 /\ \A u \in Types : browsers'[u] # 0 => browsers'[o] <= browsers'[u]
                 /\ browser' = [browser EXCEPT ![b] = "up", ![browsers'[o]] = "closing"]
                 /\ launches' = [launches EXCEPT ![t] =
                      [launches[t] EXCEPT !.step = "evicting", !.new = b,
                                       !.victim = browsers'[o], !.key = o]]
                 /\ UNCHANGED get
            ELSE Settle(t, "has", b) /\ browser' = [browser EXCEPT ![b] = "up"]
  /\ UNCHANGED <<closing, index>>

LaunchFails(t) ==
  /\ launches[t].step = "launching"
  /\ Settle(t, "failed", 0)
  /\ UNCHANGED <<browsers, closing, index, browser>>

\* The entry of the oldest type is removed, whichever browser it holds by now.
Evicted(t) ==
  /\ launches[t].step = "evicting"
  /\ browser' = [browser EXCEPT ![launches[t].victim] = "gone"]
  /\ browsers' = Without(launches[t].key)
  /\ Settle(t, "has", launches[t].new)
  /\ UNCHANGED <<closing, index>>

\* A browser crashes or its connection is lost.
Crash(b) ==
  /\ browser[b] = "up"
  /\ browser' = [browser EXCEPT ![b] = "gone"]
  /\ UNCHANGED <<browsers, launches, closing, index, get>>

-----------------------------------------------------------------------------
(* closeAll                                                                   *)

\* Acquisitions that waited for the last closing go before another one.
CloseAll ==
  /\ closing.step = "none" /\ closing.count < MaxCloses
  /\ \A g \in Gets : get[g].pc # "closing"
  /\ closing' = [step |-> "drain", count |-> closing.count + 1]
  /\ UNCHANGED <<browsers, launches, index, get, browser>>

\* Faulty: closeAll does not wait for the launches
ClosesAtOnce ==
  /\ closing.step = "drain"
  /\ browser' = [b \in Browsers |-> IF Owned(b) THEN "gone" ELSE browser[b]]
  /\ browsers' = [t \in Types |-> 0]
  /\ closing' = [closing EXCEPT !.step = "none"]
  /\ UNCHANGED <<launches, index, get>>

\* The launches it found have settled: every browser of the map is closed.
CloseEnds ==
  /\ closing.step = "drain" /\ \A t \in Types : ~Launching(t)
  /\ browser' = [b \in Browsers |-> IF Owned(b) THEN "gone" ELSE browser[b]]
  /\ browsers' = [t \in Types |-> 0]
  /\ closing' = [closing EXCEPT !.step = "none"]
  /\ UNCHANGED <<launches, index, get>>

-----------------------------------------------------------------------------
Next ==
  \/ CloseAll \/ CloseEnds
  \/ \E g \in Gets : WaitForClose(g) \/ Acquire(g)
  \/ \E t \in Types : OldClosed(t) \/ Launched(t) \/ LaunchFails(t) \/ Evicted(t)
  \/ \E b \in Browsers : Crash(b)

Spec == Init /\ [][Next]_vars

\* A launch or a close of a browser answers; waiters are resumed.
FairSpec ==
  /\ Spec
  /\ WF_vars(CloseEnds)
  /\ \A g \in Gets : WF_vars(get[g].pc = "closing" /\ Acquire(g))
  /\ \A t \in Types : WF_vars(OldClosed(t) \/ Launched(t) \/ LaunchFails(t) \/ Evicted(t))

-----------------------------------------------------------------------------
(* Properties                                                                 *)

TypeOK ==
  /\ browsers \in [Types -> 0 .. MaxLaunches]
  /\ launches \in [Types -> [step : {"none", "closing", "launching", "evicting"},
                             old : 0 .. MaxLaunches, new : 0 .. MaxLaunches,
                             victim : 0 .. MaxLaunches, key : Types, since : 0 .. MaxCloses]]
  /\ closing \in [step : {"none", "drain"}, count : 0 .. MaxCloses]
  /\ index \in 0 .. Len(TypeList) - 1
  /\ get \in [Gets -> [pc : {"idle", "closing", "launch", "has", "failed"}, type : Types,
                       b : 0 .. MaxLaunches]]
  /\ browser \in [Browsers -> {"none", "up", "closing", "gone"}]

\* Every browser that runs is one closeAll will find: an entry of the map, or in the
\* hands of a launch (the test asks that every launched browser be owned and closed).
EveryBrowserIsOwned ==
  \A b \in Browsers : browser[b] \in {"up", "closing"} =>
     \/ Owned(b)
     \/ \E t \in Types : b \in {launches[t].old, launches[t].victim}

\* With room for every type, concurrent acquisitions launch one browser per type: a
\* second one runs only when the first has gone.
OneBrowserPerType ==
  Cardinality({b \in Browsers : browser[b] = "up"}) <= Cardinality(Types)

\* When closeAll returns nothing of the pool runs, not even a browser whose launch
\* was under way when it was called: no browser comes up from before it.
CloseLeavesNothing ==
  [][/\ (closing.step = "drain" /\ closing'.step = "none") =>
          \A b \in Browsers : browser'[b] \in {"none", "gone"}
     /\ \A t \in Types : (launches[t].step = "launching" /\ browsers'[t] # 0) =>
          closing.step = "drain" \/ launches[t].since = closing.count]_vars

-----------------------------------------------------------------------------
(* The inductive invariant of the proofs, where the pool has room for every type *)

Room == Cardinality(Types) <= MaxBrowsers

\* A launch has taken its type's browser off the map, evicts nobody, and began after the
\* last closing unless that one waits for it.
LaunchKnown(t) ==
  /\ launches[t].step # "evicting" /\ launches[t].victim = 0
  /\ IF launches[t].step = "closing"
       THEN launches[t].old # 0 /\ browser[launches[t].old] = "gone"
       ELSE launches[t].old = 0
  /\ Launching(t) => browsers[t] = 0
  /\ Launching(t) /\ closing.step = "none" => launches[t].since = closing.count

\* What runs is on the map, and what is on the map was launched.
MapKnown ==
  /\ \A b \in Browsers : browser[b] # "closing" /\ (browser[b] = "up" => Owned(b))
  /\ \A t \in Types : browsers[t] # 0 => browser[browsers[t]] \in {"up", "gone"}

IInv == TypeOK /\ MapKnown /\ \A t \in Types : LaunchKnown(t)

-----------------------------------------------------------------------------
\* Every acquisition ends with a browser or an error.
GetsReturn == \A g \in Gets : (get[g].pc \in {"closing", "launch"}) ~> (get[g].pc \in {"has", "failed"})
=============================================================================

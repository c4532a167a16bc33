--------------------------- MODULE MCToolsProofs ---------------------------
(***************************************************************************)
(* What is proved of the components that serve tools on the user's         *)
(* machine: the host bridge, the shell, the code executor, the pool of     *)
(* browsers, the web searches, the page extraction and the sidecar's       *)
(* connections to Chrome, to its viewers and to proxies, these whatever    *)
(* the sets and bounds in b.  Each has an inductive invariant in its       *)
(* module; the lemmas on a component show that its initial states satisfy  *)
(* it, that every step keeps it and what it means, and the last part puts  *)
(* the components together as MCTools does.                                *)
(***************************************************************************)
EXTENDS MCTools, FiniteSetTheorems, WellFoundedInduction, TLAPS

-----------------------------------------------------------------------------
(* The host bridge                                                          *)

\* The instance counts as FiniteSets does.
LEMMA HostCounts ==
  ASSUME NEW S
  PROVE  /\ Host!Cardinality(S) = Cardinality(S)
         /\ Host!IsFiniteSet(S) = IsFiniteSet(S)
BY Zenon DEF Host!Cardinality, Cardinality, Host!IsFiniteSet, IsFiniteSet

\* No helper runs at first, and nobody has called.
LEMMA BridgeStarts == ASSUME Host!CallsAssumption PROVE Host!Init => Host!IInv
<1> SUFFICES ASSUME Host!Init PROVE Host!IInv
  OBVIOUS
<1> USE Host!CallsAssumption DEF Host!Init, Host!CallsAssumption, Host!Calls, Host!Helpers,
        Host!Ended, Host!Deciders, Host!Alive
<1>1. Host!TypeOK
  BY DEF Host!TypeOK
<1>2. Host!AtOwnStep
  BY DEF Host!AtOwnStep
<1>3. Host!Numbered
  BY DEF Host!Numbered
<1>4. Host!HelpersKnown
  BY DEF Host!HelpersKnown, Host!HelperKnown
<1>5. Host!OnlyOneAlive /\ Host!NoHelperLeftBehind
  BY DEF Host!OnlyOneAlive, Host!NoHelperLeftBehind
<1>6. Host!PendingAtCurrentHelper
  BY DEF Host!PendingAtCurrentHelper
<1>7. Host!DeciderKnows
  BY DEF Host!DeciderKnows, Host!Current, Host!Knows
<1>8. QED BY <1>1, <1>2, <1>3, <1>4, <1>5, <1>6, <1>7 DEF Host!IInv

\* What the retirement of a helper that was spawned does to it.
LEMMA Retires ==
  ASSUME Host!CallsAssumption, Host!TypeOK, NEW h \in Host!Helpers, Host!Retirement(h)
  PROVE  /\ retiring' \in [Host!Helpers -> {"no", "term", "kill", "done", "failed"}]
         /\ \A g \in Host!Helpers : g # h => retiring'[g] = retiring[g]
         /\ retiring[h] # "no" => retiring'[h] = retiring[h]
         /\ retiring[h] = "no" => retiring'[h] = IF proc[h] = "alive" THEN "term" ELSE "done"
  BY DEF Host!CallsAssumption, Host!Helpers, Host!TypeOK, Host!Retirement

\* What a call does next when its request is refused.
LEMMA RefusedTo ==
  ASSUME Host!CallsAssumption
  PROVE  /\ \A c \in Starts : Host!Refused(c) = "withdraw"
         /\ \A c \in Stops : Host!Refused(c) = "asked"
         /\ \A c \in Invokes : Host!Refused(c) = "failed"
  BY DEF Host!CallsAssumption, Host!Refused

Steps == {"idle", "retire", "settle", "prepare", "initialize", "initialized",
                       "consent", "withdraw", "give up", "shutdown", "asked",
                         "call"} \cup Host!Ended
\* Dropping a helper's requests leaves every call at a step of the bridge, and only that
\* helper is forgotten.
LEMMA DropKeeps ==
  ASSUME Host!CallsAssumption, Host!TypeOK, NEW h \in Host!Helpers,
         NEW at \in [Host!Calls -> Steps],
         Host!Drop(h, at)
  PROVE  /\ pc' \in [Host!Calls -> Steps]
         /\ child' = IF child = h THEN nobody ELSE child
         /\ pending' = IF child = h THEN {} ELSE pending
         /\ \A c \in Host!Calls : pc'[c] = IF c \in pending
              /\ child = h THEN Host!Refused(c) ELSE at[c]
<1>1. h # nobody
  BY DEF Host!CallsAssumption, Host!Helpers
<1>2. \A c \in Host!Calls : Host!Refused(c) \in Steps
  BY RefusedTo DEF Host!Calls, Steps, Host!Ended
<1>3. CASE child = h
  BY <1>1, <1>2, <1>3 DEF Host!Drop
<1>4. CASE child # h
  BY <1>1, <1>2, <1>4 DEF Host!Drop
<1>5. QED BY <1>3, <1>4

\* A call that is alone in going on takes nothing from anybody else's knowledge.
LEMMA GoesOn ==
  ASSUME Host!CallsAssumption, Host!IInv, NEW c \in Host!Calls, c \notin pending,
         NEW next \in Steps,
         pc' = [pc EXCEPT ![c] = next], UNCHANGED Host!bridge,
         waits' = waits \/ \E w \in SUBSET Host!Helpers : waits' = [waits EXCEPT ![c] = w],
         c \in Starts => next \in {"settle", "prepare", "failed"},
         c \in Stops => next \in {"settle", "done", "failed"},
         c \in Invokes => next = "failed",
         pc[c] # "idle",
         c \in Starts => (next \in {"settle", "prepare"} => proc[c] = "none"),
         \A h \in waits'[c] : proc[h] # "none",
         Host!Current(c) /\ next # "failed" => Host!Knows(c)'
  PROVE  Host!IInv'
<1> USE Host!CallsAssumption DEF Host!CallsAssumption, Host!Calls, Host!Helpers, Host!bridge
<1>0. /\ pc \in [Host!Calls -> Steps] /\ pc' \in [Host!Calls -> Steps]
      /\ waits' \in [Host!Calls -> SUBSET Host!Helpers]
      /\ \A d \in Host!Calls : d # c => pc'[d] = pc[d] /\ waits'[d] = waits[d]
      /\ pc'[c] = next
  <2>1. pc \in [Host!Calls -> Steps] /\ waits \in [Host!Calls -> SUBSET Host!Helpers]
    BY DEF Host!IInv, Host!TypeOK, Steps, Host!Ended
  <2>2. /\ waits' \in [Host!Calls -> SUBSET Host!Helpers]
        /\ \A d \in Host!Calls : d # c => waits'[d] = waits[d]
    <3>1. CASE waits' = waits
      BY <2>1, <3>1
    <3>2. ASSUME NEW w \in SUBSET Host!Helpers, waits' = [waits EXCEPT ![c] = w]
          PROVE  /\ waits' \in [Host!Calls -> SUBSET Host!Helpers]
                 /\ \A d \in Host!Calls : d # c => waits'[d] = waits[d]
      BY <2>1, <3>2
    <3>3. QED BY <3>1, <3>2
  <2>3. QED BY <2>1, <2>2
<1>1. Host!TypeOK'
  BY <1>0 DEF Host!IInv, Host!TypeOK, Steps, Host!Ended
<1>2. Host!AtOwnStep'
  BY <1>0, ZenonT(90) DEF Host!IInv, Host!TypeOK, Host!AtOwnStep, Host!Ended
<1>3. Host!Numbered'
  BY <1>0 DEF Host!IInv, Host!Numbered, Host!Deciders
<1>4. Host!HelpersKnown'
  <2>1. ASSUME NEW h \in Host!Helpers PROVE Host!HelperKnown(h)'
    BY <1>0, <2>1 DEF Host!IInv, Host!HelpersKnown, Host!HelperKnown, Host!Alive
  <2>2. \A d \in Host!Calls : \A h \in waits'[d] : proc[h] # "none"
    BY <1>0 DEF Host!IInv, Host!HelpersKnown
  <2>3. QED BY <2>1, <2>2 DEF Host!IInv, Host!HelpersKnown, Host!Alive
<1>5. Host!OnlyOneAlive' /\ Host!NoHelperLeftBehind' /\ Host!PendingAtCurrentHelper'
  BY <1>0 DEF Host!IInv, Host!OnlyOneAlive, Host!NoHelperLeftBehind, Host!PendingAtCurrentHelper,
     Host!Alive
<1>6. Host!DeciderKnows'
  <2> SUFFICES ASSUME NEW d \in Host!Deciders, Host!Current(d)' PROVE Host!Knows(d)'
    BY DEF Host!DeciderKnows
  <2>1. CASE d = c
    BY <1>0, <2>1 DEF Host!Knows, Host!Current
  <2>2. CASE d # c
    BY <1>0, <2>2 DEF Host!IInv, Host!DeciderKnows, Host!Deciders, Host!Knows, Host!Current,
       Host!NothingRuns, Host!Alive
  <2>3. QED BY <2>1, <2>2
<1>7. QED BY <1>1, <1>2, <1>3, <1>4, <1>5, <1>6 DEF Host!IInv

\* The awaits of a decider, what it looks up between them, and its end.
LEMMA StepAwaits ==
  ASSUME Host!CallsAssumption, Host!IInv, NEW c \in Host!Calls,
         \/ Host!AwaitRetirements(c) \/ Host!RetirementFailed(c) \/ Host!Prepare(c)
         \/ Host!Overtaken(c)
         \/ Host!GiveUp(c) \/ Host!Stopped(c)
  PROVE  Host!IInv'
<1> USE Host!CallsAssumption DEF Host!CallsAssumption, Host!Calls, Host!Helpers, Host!Goes
<1>0. /\ c \in Starts => pc[c] \in {"idle", "retire", "settle", "prepare", "initialize",
                           "initialized", "consent", "withdraw", "give up"} \cup Host!Ended
      /\ c \in Stops => pc[c] \in {"idle", "shutdown", "asked", "retire", "settle"} \cup Host!Ended
      /\ c \in Invokes => pc[c] \in {"idle", "call"} \cup Host!Ended
      /\ c \in pending => pc[c] \in {"initialize", "consent", "shutdown", "call"}
      /\ c \in Starts => Host!HelperKnown(c)
      /\ \A h \in waits[c] : proc[h] # "none"
      /\ Host!Current(c) /\ c \in Host!Deciders => Host!Knows(c)
      /\ waits \in [Host!Calls -> SUBSET Host!Helpers]
  BY DEF Host!IInv, Host!TypeOK, Host!AtOwnStep, Host!HelpersKnown, Host!DeciderKnows
<1>1. CASE Host!AwaitRetirements(c)
  <2>1. Host!Retiring \in SUBSET Host!Helpers /\ \A h \in Host!Retiring : proc[h] # "none"
    BY DEF Host!Retiring, Host!IInv, Host!HelpersKnown, Host!HelperKnown
  <2>2. waits'[c] = Host!Retiring
    BY <1>0, <1>1 DEF Host!AwaitRetirements
  <2>3. Host!Current(c) => Host!Knows(c)'
    BY <1>0, <1>1, <2>2 DEF Host!AwaitRetirements, Host!Knows, Host!Ended, Host!IInv,
       Host!NoHelperLeftBehind, Host!Alive, Host!Retiring,
       Host!TypeOK, Host!Deciders, Host!bridge
  <2>4. QED BY <1>0, <1>1, <2>1, <2>2, <2>3, GoesOn DEF Host!AwaitRetirements, Host!Ended, Steps,
       Host!HelperKnown
<1>2. CASE Host!RetirementFailed(c)
  BY <1>0, <1>2, GoesOn DEF Host!RetirementFailed, Host!Ended, Steps
<1>3. CASE Host!Prepare(c) /\ pc' = [pc EXCEPT ![c] = "prepare"]
  <2>1. Host!Current(c) => Host!Knows(c)'
    BY <1>0, <1>3 DEF Host!Prepare, Host!Over, Host!Knows, Host!IInv, Host!HelpersKnown,
       Host!HelperKnown, Host!TypeOK, Host!Alive,
       Host!NothingRuns, Host!bridge, Host!Deciders, Host!Ended
  <2>2. QED BY <1>0, <1>3, <2>1, GoesOn DEF Host!Prepare, Host!Ended, Steps, Host!HelperKnown
<1>4. CASE Host!Prepare(c) /\ pc' = [pc EXCEPT ![c] = "failed"]
  BY <1>0, <1>4, GoesOn DEF Host!Prepare, Host!Ended, Steps
<1>5. CASE Host!Overtaken(c)
  BY <1>0, <1>5, GoesOn DEF Host!Overtaken, Host!Ended, Steps
<1>6. CASE Host!GiveUp(c)
  BY <1>0, <1>6, GoesOn DEF Host!GiveUp, Host!Ended, Steps
<1>7. CASE Host!Stopped(c)
  <2>1. Host!Current(c) => Host!Knows(c)'
    BY <1>0, <1>7 DEF Host!Stopped, Host!Over, Host!Knows, Host!IInv, Host!HelpersKnown,
       Host!HelperKnown, Host!TypeOK, Host!Alive,
       Host!NothingRuns, Host!bridge, Host!Deciders, Host!Ended
  <2>2. QED BY <1>0, <1>7, <2>1, GoesOn DEF Host!Stopped, Host!Ended, Steps
<1>8. QED BY <1>1, <1>2, <1>3, <1>4, <1>5, <1>6, <1>7 DEF Host!Prepare

\* The process is over: the close event adds only that its retirement is too.
LEMMA StepClose ==
  ASSUME Host!CallsAssumption, Host!IInv, NEW h \in Host!Helpers, Host!Close(h)
  PROVE  Host!IInv'
<1> USE Host!CallsAssumption DEF Host!Close, Host!IInv, Host!CallsAssumption, Host!Calls,
        Host!Helpers
<1>1. Host!TypeOK'
  BY DEF Host!TypeOK
<1>2. Host!AtOwnStep' /\ Host!Numbered'
  BY DEF Host!AtOwnStep, Host!Numbered, Host!TypeOK, Host!Deciders
<1>3. Host!HelpersKnown'
  BY DEF Host!HelpersKnown, Host!HelperKnown, Host!TypeOK, Host!Alive
<1>4. Host!OnlyOneAlive' /\ Host!NoHelperLeftBehind' /\ Host!PendingAtCurrentHelper'
  BY DEF Host!OnlyOneAlive, Host!NoHelperLeftBehind, Host!PendingAtCurrentHelper, Host!TypeOK,
     Host!Alive
<1>5. Host!DeciderKnows'
  BY DEF Host!DeciderKnows, Host!Knows, Host!Current, Host!NothingRuns, Host!TypeOK, Host!Alive,
     Host!Deciders
<1>6. QED BY <1>1, <1>2, <1>3, <1>4, <1>5

\* The wait for a terminated helper runs out: it is killed, or its retirement has
\* failed.
LEMMA StepTerminateTimeout ==
  ASSUME Host!CallsAssumption, Host!IInv, NEW h \in Host!Helpers, Host!TerminateTimeout(h)
  PROVE  Host!IInv'
<1> USE Host!CallsAssumption DEF Host!TerminateTimeout, Host!IInv, Host!CallsAssumption,
        Host!Calls, Host!Helpers
<1>1. Host!TypeOK'
  BY DEF Host!TypeOK
<1>2. Host!AtOwnStep' /\ Host!Numbered'
  BY DEF Host!AtOwnStep, Host!Numbered, Host!TypeOK, Host!Deciders
<1>3. Host!HelpersKnown'
  BY DEF Host!HelpersKnown, Host!HelperKnown, Host!TypeOK, Host!Alive
<1>4. Host!OnlyOneAlive' /\ Host!NoHelperLeftBehind' /\ Host!PendingAtCurrentHelper'
  BY DEF Host!OnlyOneAlive, Host!NoHelperLeftBehind, Host!PendingAtCurrentHelper, Host!TypeOK,
     Host!Alive
<1>5. Host!DeciderKnows'
  BY DEF Host!DeciderKnows, Host!Knows, Host!Current, Host!NothingRuns, Host!TypeOK, Host!Alive,
     Host!Deciders
<1>6. QED BY <1>1, <1>2, <1>3, <1>4, <1>5

\* The end of a request: its call goes on where a refusal or an answer leads it.
LEMMA RequestOver ==
  ASSUME Host!CallsAssumption, Host!IInv, NEW c \in pending, NEW next \in Steps,
         pending' = pending \ {c}, pc' = [pc EXCEPT ![c] = next],
         next \in {Host!Refused(c), Host!Answered(c)},
         UNCHANGED <<lifecycle, child, sentTo, revision, waits, retiring, proc>>,
         \A h \in Host!Helpers : inbox'[h] \subseteq inbox[h],
         inbox' \in [Host!Helpers -> SUBSET (Host!Calls \X {"initialize", "consent", "shutdown",
                                                            "call"})]
  PROVE  Host!IInv'
<1> USE Host!CallsAssumption DEF Host!CallsAssumption, Host!Calls, Host!Helpers
<1>0. /\ pc \in [Host!Calls -> Steps] /\ pc' \in [Host!Calls -> Steps] /\ c \in Host!Calls
      /\ \A d \in Host!Calls : d # c => pc'[d] = pc[d]
      /\ pc'[c] = next
  BY DEF Host!IInv, Host!TypeOK, Steps, Host!Ended
<1>1. /\ pc[c] \in {"initialize", "consent", "shutdown", "call"}
      /\ c \in Starts =>
         pc[c] \in {"initialize", "consent"} /\ next \in {"initialized", "withdraw", "done"}
      /\ c \in Stops => pc[c] = "shutdown" /\ next = "asked"
      /\ c \in Invokes => pc[c] = "call" /\ next \in {"failed", "done"}
  BY <1>0, RefusedTo DEF Host!Answered, Host!IInv, Host!AtOwnStep, Host!Ended
<1>2. Host!TypeOK'
  BY <1>0 DEF Host!IInv, Host!TypeOK, Steps, Host!Ended
<1>3. Host!AtOwnStep'
  <2>1. Host!AtOwnStep
    BY DEF Host!IInv
  <2>2. ASSUME NEW d \in Starts
        PROVE  pc'[d] \in {"idle", "retire", "settle", "prepare", "initialize", "initialized",
                           "consent", "withdraw", "give up"} \cup Host!Ended
    BY <1>0, <1>1, <2>1 DEF Host!AtOwnStep, Host!Ended
  <2>3. ASSUME NEW d \in Stops
        PROVE  pc'[d] \in {"idle", "shutdown", "asked", "retire", "settle"} \cup Host!Ended
    BY <1>0, <1>1, <2>1 DEF Host!AtOwnStep, Host!Ended
  <2>4. ASSUME NEW d \in Invokes PROVE pc'[d] \in {"idle", "call"} \cup Host!Ended
    BY <1>0, <1>1, <2>1 DEF Host!AtOwnStep, Host!Ended
  <2>5. ASSUME NEW d \in pending' PROVE pc'[d] \in {"initialize", "consent", "shutdown", "call"}
    <3>1. d \in Host!Calls /\ d # c /\ d \in pending
      BY DEF Host!IInv, Host!TypeOK
    <3>2. QED BY <1>0, <2>1, <3>1 DEF Host!AtOwnStep
  <2>6. QED BY <2>2, <2>3, <2>4, <2>5 DEF Host!AtOwnStep
<1>4. Host!Numbered'
  BY <1>0, <1>1 DEF Host!IInv, Host!Numbered, Host!Deciders
<1>5. Host!HelpersKnown'
  BY <1>0, <1>1 DEF Host!IInv, Host!HelpersKnown, Host!HelperKnown, Host!Alive
<1>6. Host!OnlyOneAlive' /\ Host!NoHelperLeftBehind' /\ Host!PendingAtCurrentHelper'
  BY <1>0 DEF Host!IInv, Host!OnlyOneAlive, Host!NoHelperLeftBehind, Host!PendingAtCurrentHelper,
     Host!Alive
<1>7. Host!DeciderKnows'
  <2> SUFFICES ASSUME NEW d \in Host!Deciders, Host!Current(d)' PROVE Host!Knows(d)'
    BY DEF Host!DeciderKnows
  <2>1. CASE d = c
    BY <1>0, <1>1, <2>1 DEF Host!Deciders, Host!Knows, Host!Current, Host!IInv, Host!DeciderKnows
  <2>2. CASE d # c
    BY <1>0, <2>2 DEF Host!IInv, Host!DeciderKnows, Host!Deciders, Host!Knows, Host!Current,
       Host!NothingRuns, Host!Alive
  <2>3. QED BY <2>1, <2>2
<1>8. QED BY <1>2, <1>3, <1>4, <1>5, <1>6, <1>7 DEF Host!IInv

\* A request ends by its time limit or its signal: the call goes on as refused.
LEMMA StepRequestEnds ==
  ASSUME Host!CallsAssumption, Host!IInv, NEW c \in Host!Calls, Host!RequestEnds(c)
  PROVE  Host!IInv'
<1>1. Host!Refused(c) \in Steps /\ c \in pending
  BY RefusedTo DEF Host!RequestEnds, Host!CallsAssumption, Host!Calls, Steps, Host!Ended
<1>2. QED BY <1>1, RequestOver DEF Host!RequestEnds, Host!Goes, Host!IInv, Host!TypeOK

\* A helper's answer reaches the call that waits for it, if it still waits.
LEMMA StepAnswer ==
  ASSUME Host!CallsAssumption, Host!IInv, NEW h \in Host!Helpers, NEW r \in inbox[h],
         Host!Answer(h, r)
  PROVE  Host!IInv'
<1>0. /\ inbox' \in [Host!Helpers -> SUBSET (Host!Calls \X {"initialize", "consent", "shutdown",
                                                            "call"})]
      /\ \A g \in Host!Helpers : inbox'[g] \subseteq inbox[g]
      /\ r[1] \in Host!Calls
  <2>1. /\ inbox \in [Host!Helpers -> SUBSET (Host!Calls \X {"initialize", "consent", "shutdown",
                                                             "call"})]
        /\ inbox' = [inbox EXCEPT ![h] = @ \ {r}]
    BY DEF Host!IInv, Host!TypeOK, Host!Answer
  <2>2. r \in Host!Calls \X {"initialize", "consent", "shutdown", "call"}
    BY <2>1
  <2>3. QED BY <2>1, <2>2
<1>1. CASE child = h /\ r[1] \in pending /\ pc[r[1]] = r[2]
  <2>1. Host!Refused(r[1]) \in Steps /\ Host!Answered(r[1]) \in Steps
    BY <1>0, RefusedTo DEF Host!CallsAssumption, Host!Calls, Steps, Host!Ended, Host!Answered
  <2>2. QED BY <1>0, <1>1, <2>1, RequestOver DEF Host!Answer, Host!Goes
<1>2. CASE ~(child = h /\ r[1] \in pending /\ pc[r[1]] = r[2])
  <2>1. UNCHANGED <<lifecycle, child, sentTo, revision, waits, retiring, proc, pending, pc>>
    BY <1>2 DEF Host!Answer
  <2>2. Host!TypeOK'
    BY <1>0, <2>1 DEF Host!IInv, Host!TypeOK
  <2>3. QED BY <2>1, <2>2, ZenonT(90) DEF Host!IInv, Host!AtOwnStep, Host!Numbered, Host!HelpersKnown,
       Host!HelperKnown, Host!OnlyOneAlive,
       Host!NoHelperLeftBehind, Host!PendingAtCurrentHelper, Host!DeciderKnows, Host!Knows,
         Host!Current, Host!NothingRuns, Host!Alive
<1>3. QED BY <1>1, <1>2

\* A step that leaves everybody where they were but for the calls whose request it ends.
LEMMA StepExit ==
  ASSUME Host!CallsAssumption, Host!IInv, NEW h \in Host!Helpers, Host!Exit(h)
  PROVE  Host!IInv'
<1> USE Host!CallsAssumption DEF Host!CallsAssumption, Host!Helpers
<1>1. /\ proc' \in [Host!Helpers -> {"none", "alive", "exited", "closed"}]
      /\ proc'[h] = "exited" /\ proc[h] = "alive"
      /\ \A g \in Host!Helpers : g # h => proc'[g] = proc[g]
      /\ retiring' \in [Host!Helpers -> {"no", "term", "kill", "done", "failed"}]
      /\ retiring'[h] = IF retiring[h] = "no" THEN "done" ELSE retiring[h]
      /\ \A g \in Host!Helpers : g # h => retiring'[g] = retiring[g]
      /\ inbox' \in [Host!Helpers -> SUBSET (Host!Calls \X {"initialize", "consent", "shutdown",
                                                            "call"})]
  BY DEF Host!IInv, Host!TypeOK, Host!Exit
<1>2. /\ pc \in [Host!Calls -> Steps] /\ pc' \in [Host!Calls -> Steps]
      /\ child' = IF child = h THEN nobody ELSE child
      /\ pending' = IF child = h THEN {} ELSE pending
      /\ \A c \in Host!Calls : pc'[c] = IF c \in pending
           /\ child = h THEN Host!Refused(c) ELSE pc[c]
      /\ UNCHANGED <<lifecycle, sentTo, revision, waits>>
  <2>1. pc \in [Host!Calls -> Steps] /\ Host!IInv /\ Host!TypeOK
    BY DEF Host!IInv, Host!TypeOK, Steps, Host!Ended
  <2>2. QED BY <2>1, DropKeeps DEF Host!Exit
<1>3. /\ \A c \in Starts \cap pending : pc[c] \in {"initialize", "consent"}
           /\ Host!Refused(c) = "withdraw"
      /\ \A c \in Stops \cap pending : pc[c] = "shutdown" /\ Host!Refused(c) = "asked"
      /\ \A c \in Invokes \cap pending : pc[c] = "call" /\ Host!Refused(c) = "failed"
  BY RefusedTo DEF Host!IInv, Host!AtOwnStep, Host!Ended
<1>4. Host!TypeOK'
  BY <1>1, <1>2 DEF Host!IInv, Host!TypeOK, Steps, Host!Ended
<1>5. Host!AtOwnStep'
  <2>1. Host!AtOwnStep /\ pending \subseteq Host!Calls
    BY DEF Host!IInv, Host!TypeOK
  <2>2. ASSUME NEW d \in Starts
        PROVE  pc'[d] \in {"idle", "retire", "settle", "prepare", "initialize", "initialized",
                           "consent", "withdraw", "give up"} \cup Host!Ended
    BY <1>2, <1>3, <2>1, ZenonT(90) DEF Host!AtOwnStep, Host!Ended, Host!Calls
  <2>3. ASSUME NEW d \in Stops
        PROVE  pc'[d] \in {"idle", "shutdown", "asked", "retire", "settle"} \cup Host!Ended
    BY <1>2, <1>3, <2>1, ZenonT(90) DEF Host!AtOwnStep, Host!Ended, Host!Calls
  <2>4. ASSUME NEW d \in Invokes PROVE pc'[d] \in {"idle", "call"} \cup Host!Ended
    BY <1>2, <1>3, <2>1 DEF Host!AtOwnStep, Host!Ended, Host!Calls
  <2>5. ASSUME NEW d \in pending' PROVE pc'[d] \in {"initialize", "consent", "shutdown", "call"}
    BY <1>2, <2>1 DEF Host!AtOwnStep
  <2>6. QED BY <2>2, <2>3, <2>4, <2>5 DEF Host!AtOwnStep
<1>6. Host!Numbered'
  <2>1. \A d \in Host!Deciders : d \in Host!Calls /\ (pc'[d] # "idle" => pc[d] # "idle")
    BY <1>2, <1>3 DEF Host!Deciders, Host!Calls
  <2>2. QED BY <1>2, <2>1 DEF Host!IInv, Host!Numbered
<1>7. Host!HelpersKnown'
  <2>1. ASSUME NEW g \in Host!Helpers PROVE Host!HelperKnown(g)'
    <3>1. /\ g \in Host!Calls /\ Host!HelperKnown(g)
          /\ pc'[g] = pc[g] \/ (pc[g] \in {"initialize", "consent"} /\ pc'[g] = "withdraw")
      BY <1>2, <1>3 DEF Host!Calls, Host!IInv, Host!HelpersKnown
    <3>2. CASE g = h
      BY <1>1, <3>1, <3>2 DEF Host!HelperKnown, Host!Alive
    <3>3. CASE g # h
      BY <1>1, <3>1, <3>3 DEF Host!HelperKnown, Host!Alive
    <3>4. QED BY <3>2, <3>3
  <2>2. child' # nobody => Host!Alive(child)'
    BY <1>1, <1>2 DEF Host!IInv, Host!HelpersKnown, Host!TypeOK, Host!Alive
  <2>3. \A c \in Host!Calls : \A g \in waits'[c] : proc'[g] # "none"
    BY <1>1, <1>2 DEF Host!IInv, Host!HelpersKnown, Host!TypeOK
  <2>4. QED BY <2>1, <2>2, <2>3 DEF Host!HelpersKnown
<1>8. Host!OnlyOneAlive' /\ Host!NoHelperLeftBehind' /\ Host!PendingAtCurrentHelper'
  BY <1>1, <1>2 DEF Host!IInv, Host!OnlyOneAlive, Host!NoHelperLeftBehind,
     Host!PendingAtCurrentHelper, Host!Alive
<1>9. Host!DeciderKnows'
  <2> SUFFICES ASSUME NEW d \in Host!Deciders, Host!Current(d)' PROVE Host!Knows(d)'
    BY DEF Host!DeciderKnows
  <2>1. d \in Host!Calls /\ Host!Knows(d)
    BY <1>2 DEF Host!IInv, Host!DeciderKnows, Host!Deciders, Host!Calls, Host!Current
  <2>2. \A g \in Host!Helpers : Host!Alive(g)' => Host!Alive(g)
    BY <1>1 DEF Host!Alive
  <2>3. CASE d \in pending /\ child = h
    BY <1>2, <1>3, <2>1, <2>3 DEF Host!Knows, Host!Deciders
  <2>4. CASE ~(d \in pending /\ child = h)
    BY <1>2, <2>1, <2>2, <2>4 DEF Host!Knows, Host!NothingRuns
  <2>5. QED BY <2>3, <2>4
<1>10. QED BY <1>4, <1>5, <1>6, <1>7, <1>8, <1>9 DEF Host!IInv

\* Retiring a helper that was spawned: what it changes of the bridge.
LEMMA RetireChanges ==
  ASSUME Host!CallsAssumption, Host!IInv, NEW h \in Host!Helpers,
         NEW at \in [Host!Calls -> Steps],
         Host!Retire(h, at), proc[h] # "none", UNCHANGED <<proc, sentTo>>
  PROVE  /\ retiring' \in [Host!Helpers -> {"no", "term", "kill", "done", "failed"}]
         /\ \A g \in Host!Helpers :
              /\ proc[g] = "none" => retiring'[g] = "no"
              /\ retiring'[g] = "done" => ~Host!Alive(g)
         /\ child' = IF child = h THEN nobody ELSE child
         /\ pending' = IF child = h THEN {} ELSE pending
         /\ pc' \in [Host!Calls -> Steps]
         /\ \A c \in Host!Calls : pc'[c] = IF c \in pending
              /\ child = h THEN Host!Refused(c) ELSE at[c]
         /\ Host!NoHelperLeftBehind' /\ Host!PendingAtCurrentHelper'
<1>1. /\ Host!IInv /\ Host!TypeOK /\ Host!Retirement(h) /\ Host!Drop(h, at)
      /\ \A g \in Host!Helpers : Host!HelperKnown(g)
  BY DEF Host!IInv, Host!Retire, Host!HelpersKnown
<1>2. /\ retiring' \in [Host!Helpers -> {"no", "term", "kill", "done", "failed"}]
      /\ \A g \in Host!Helpers : g # h => retiring'[g] = retiring[g]
      /\ retiring[h] # "no" => retiring'[h] = retiring[h]
      /\ retiring[h] = "no" => retiring'[h] = IF proc[h] = "alive" THEN "term" ELSE "done"
  BY <1>1, Retires
<1>3. /\ child' = IF child = h THEN nobody ELSE child
      /\ pending' = IF child = h THEN {} ELSE pending
      /\ pc' \in [Host!Calls -> Steps]
      /\ \A c \in Host!Calls : pc'[c] = IF c \in pending
           /\ child = h THEN Host!Refused(c) ELSE at[c]
  BY <1>1, DropKeeps
<1>4. \A g \in Host!Helpers :
         /\ proc[g] = "none" => retiring'[g] = "no"
         /\ retiring'[g] = "done" => ~Host!Alive(g)
  BY <1>1, <1>2 DEF Host!HelperKnown, Host!Alive
<1>5. Host!NoHelperLeftBehind'
  BY <1>1, <1>2, <1>3, <1>4, ZenonT(90) DEF Host!IInv, Host!NoHelperLeftBehind, Host!HelperKnown,
     Host!TypeOK, Host!Alive
<1>6. Host!PendingAtCurrentHelper'
  BY <1>3 DEF Host!IInv, Host!PendingAtCurrentHelper
<1>7. QED BY <1>2, <1>3, <1>4, <1>5, <1>6

\* A helper is retired by an event, by the start that spawned it or by the stop that asked it.
LEMMA StepRetire ==
  ASSUME Host!CallsAssumption, Host!IInv, NEW h \in Host!Helpers,
         NEW at \in [Host!Calls -> Steps],
         Host!Retire(h, at), proc[h] # "none",
         UNCHANGED <<lifecycle, sentTo, revision, proc, inbox>>,
         \A d \in Host!Calls : at[d] # pc[d] =>
            /\ d \notin pending
            /\ \/ d \in Starts /\ at[d] = "give up" /\ pc[d] = "withdraw"
               \/ d \in Stops /\ at[d] = "retire" /\ pc[d] = "asked" /\ h \in waits[d],
         waits' \in [Host!Calls -> SUBSET Host!Helpers],
         \A d \in Host!Calls : waits'[d] = waits[d] \/ at[d] = "give up",
         \A d \in Host!Calls : \A g \in waits'[d] : proc[g] # "none"
  PROVE  Host!IInv'
<1> USE Host!CallsAssumption DEF Host!CallsAssumption, Host!Helpers
<1>2. /\ retiring' \in [Host!Helpers -> {"no", "term", "kill", "done", "failed"}]
      /\ \A g \in Host!Helpers :
           /\ proc[g] = "none" => retiring'[g] = "no"
           /\ retiring'[g] = "done" => ~Host!Alive(g)
      /\ child' = IF child = h THEN nobody ELSE child
      /\ pending' = IF child = h THEN {} ELSE pending
      /\ pc' \in [Host!Calls -> Steps]
      /\ \A c \in Host!Calls : pc'[c] = IF c \in pending
           /\ child = h THEN Host!Refused(c) ELSE at[c]
      /\ Host!NoHelperLeftBehind' /\ Host!PendingAtCurrentHelper'
  BY RetireChanges
<1>3. /\ \A c \in Starts \cap pending : pc[c] \in {"initialize", "consent"}
           /\ Host!Refused(c) = "withdraw"
      /\ \A c \in Stops \cap pending : pc[c] = "shutdown" /\ Host!Refused(c) = "asked"
      /\ \A c \in Invokes \cap pending : pc[c] = "call" /\ Host!Refused(c) = "failed"
  BY RefusedTo DEF Host!IInv, Host!AtOwnStep, Host!Ended
<1>30. ASSUME NEW d \in Host!Calls
       PROVE  \/ pc'[d] = pc[d]
              \/ d \in pending /\ pc'[d] = Host!Refused(d)
              \/ d \in Starts /\ pc'[d] = "give up" /\ pc[d] = "withdraw"
              \/ d \in Stops /\ pc'[d] = "retire" /\ pc[d] = "asked"
  <2>1. pc'[d] = IF d \in pending /\ child = h THEN Host!Refused(d) ELSE at[d]
    BY <1>2
  <2>2. CASE at[d] = pc[d]
    BY <2>1, <2>2
  <2>3. CASE at[d] # pc[d]
    BY <2>1, <2>3
  <2>4. QED BY <2>2, <2>3
<1>4. Host!TypeOK'
  BY <1>2 DEF Host!IInv, Host!TypeOK, Steps, Host!Ended
<1>5. Host!AtOwnStep'
  <2>1. Host!AtOwnStep /\ pending \subseteq Host!Calls
    BY DEF Host!IInv, Host!TypeOK
  <2>2. ASSUME NEW d \in Starts
        PROVE  pc'[d] \in {"idle", "retire", "settle", "prepare", "initialize", "initialized",
                           "consent", "withdraw", "give up"} \cup Host!Ended
    BY <1>3, <1>30, <2>1, ZenonT(90) DEF Host!AtOwnStep, Host!Ended, Host!Calls
  <2>3. ASSUME NEW d \in Stops
        PROVE  pc'[d] \in {"idle", "shutdown", "asked", "retire", "settle"} \cup Host!Ended
    BY <1>3, <1>30, <2>1, ZenonT(90) DEF Host!AtOwnStep, Host!Ended, Host!Calls
  <2>4. ASSUME NEW d \in Invokes PROVE pc'[d] \in {"idle", "call"} \cup Host!Ended
    BY <1>3, <1>30, <2>1, ZenonT(90) DEF Host!AtOwnStep, Host!Ended, Host!Calls
  <2>5. ASSUME NEW d \in pending' PROVE pc'[d] \in {"initialize", "consent", "shutdown", "call"}
    <3>1. d \in pending /\ d \in Host!Calls /\ pc'[d] = at[d] /\ at[d] = pc[d]
      BY <1>2, <2>1
    <3>2. QED BY <2>1, <3>1 DEF Host!AtOwnStep
  <2>6. QED BY <2>2, <2>3, <2>4, <2>5 DEF Host!AtOwnStep
<1>6. Host!Numbered'
  <2>1. \A d \in Host!Deciders : d \in Host!Calls /\ (pc'[d] # "idle" => pc[d] # "idle")
    BY <1>2, <1>3 DEF Host!Deciders, Host!Calls
  <2>2. QED BY <1>2, <2>1 DEF Host!IInv, Host!Numbered
<1>7. Host!HelpersKnown'
  <2>1. ASSUME NEW g \in Host!Helpers PROVE Host!HelperKnown(g)'
    <3>1. /\ g \in Host!Calls /\ Host!HelperKnown(g)
          /\ \/ pc'[g] = pc[g]
             \/ pc[g] \in {"initialize", "consent", "withdraw"}
                  /\ pc'[g] \in {"withdraw", "give up"}
      <4>1. g \in Host!Calls /\ g \in Starts /\ Host!HelperKnown(g)
        BY DEF Host!Calls, Host!IInv, Host!HelpersKnown
      <4>2. QED BY <1>3, <1>30, <4>1
    <3>2. QED BY <1>2, <3>1 DEF Host!HelperKnown, Host!Alive
  <2>2. QED BY <1>2, <2>1 DEF Host!IInv, Host!HelpersKnown, Host!Alive
<1>8. Host!OnlyOneAlive'
  BY DEF Host!IInv, Host!OnlyOneAlive, Host!Alive
<1>9. Host!DeciderKnows'
  <2> SUFFICES ASSUME NEW d \in Host!Deciders, Host!Current(d)' PROVE Host!Knows(d)'
    BY DEF Host!DeciderKnows
  <2>1. d \in Host!Calls /\ Host!Knows(d)
    BY <1>2 DEF Host!IInv, Host!DeciderKnows, Host!Deciders, Host!Calls, Host!Current
  <2>2. CASE d \in pending /\ child = h
    BY <1>2, <1>3, <2>1, <2>2 DEF Host!Knows, Host!Deciders
  <2>3. CASE ~(d \in pending /\ child = h) /\ at[d] = pc[d]
    <3>1. pc'[d] = pc[d] /\ (waits'[d] = waits[d] \/ pc[d] = "give up")
      BY <1>2, <2>1, <2>3
    <3>2. QED BY <1>2, <2>1, <3>1 DEF Host!Knows, Host!NothingRuns, Host!Alive
  <2>4. CASE ~(d \in pending /\ child = h) /\ at[d] # pc[d]
    BY <1>2, <2>1, <2>4 DEF Host!Knows, Host!NothingRuns, Host!Alive
  <2>5. QED BY <2>2, <2>3, <2>4
<1>10. QED BY <1>2, <1>4, <1>5, <1>6, <1>7, <1>8, <1>9 DEF Host!IInv

\* The frames of a helper are lost: it is retired and its requests are refused.
LEMMA StepTransportLost ==
  ASSUME Host!CallsAssumption, Host!IInv, NEW h \in Host!Helpers, Host!TransportLost(h)
  PROVE  Host!IInv'
<1>1. pc \in [Host!Calls -> Steps] /\ waits' \in [Host!Calls -> SUBSET Host!Helpers]
  BY DEF Host!TransportLost, Host!IInv, Host!TypeOK, Steps, Host!Ended
<1>2. \A d \in Host!Calls : \A g \in waits'[d] : proc[g] # "none"
  BY DEF Host!TransportLost, Host!IInv, Host!HelpersKnown
<1>3. QED BY <1>1, <1>2, StepRetire DEF Host!TransportLost

\* A start that was refused retires the helper it spawned.
LEMMA StepWithdraw ==
  ASSUME Host!CallsAssumption, Host!IInv, NEW c \in Host!Calls, Host!Withdraw(c)
  PROVE  Host!IInv'
<1> DEFINE at == [pc EXCEPT ![c] = "give up"]
<1>1. pc[c] = "withdraw" /\ c \in Starts /\ c \notin pending /\ proc[c] # "none"
  BY DEF Host!Withdraw, Host!IInv, Host!AtOwnStep, Host!Ended, Host!Calls, Host!HelpersKnown,
     Host!HelperKnown, Host!Helpers
<1>2. /\ at \in [Host!Calls -> Steps] /\ at[c] = "give up"
      /\ \A d \in Host!Calls : d # c => at[d] = pc[d]
  BY DEF Host!IInv, Host!TypeOK, Steps, Host!Ended
<1>3. waits' \in [Host!Calls -> SUBSET Host!Helpers] /\ waits'[c] = {c}
      /\ \A d \in Host!Calls : d # c => waits'[d] = waits[d]
  BY <1>1 DEF Host!IInv, Host!TypeOK, Host!Withdraw, Host!Helpers
<1>4. \A d \in Host!Calls : \A g \in waits'[d] : proc[g] # "none"
  BY <1>1, <1>3 DEF Host!IInv, Host!HelpersKnown
<1>5. Host!Retire(c, at) /\ UNCHANGED <<lifecycle, sentTo, revision, proc, inbox>>
  BY DEF Host!Withdraw
<1> HIDE DEF at
<1>6. \A d \in Host!Calls : at[d] # pc[d] => d = c
  BY <1>2
<1>7. \A d \in Host!Calls : waits'[d] = waits[d] \/ at[d] = "give up"
  BY <1>2, <1>3
<1>8. c \in Host!Helpers
  BY <1>1 DEF Host!Helpers
<1>9. QED BY <1>1, <1>2, <1>3, <1>4, <1>5, <1>6, <1>7, <1>8, StepRetire, ZenonT(90)

\* A stop retires the helper it asked, answered or not.
LEMMA StepStopRetires ==
  ASSUME Host!CallsAssumption, Host!IInv, NEW c \in Host!Calls, Host!StopRetires(c)
  PROVE  Host!IInv'
<1> DEFINE at == [pc EXCEPT ![c] = "retire"]
<1>1. pc[c] = "asked" /\ c \in Stops /\ c \notin pending /\ waits' = waits
  BY DEF Host!StopRetires, Host!IInv, Host!AtOwnStep, Host!Ended, Host!Calls
<1>2. /\ at \in [Host!Calls -> Steps] /\ at[c] = "retire"
      /\ \A d \in Host!Calls : d # c => at[d] = pc[d]
  BY DEF Host!IInv, Host!TypeOK, Steps, Host!Ended
<1>3. waits \in [Host!Calls -> SUBSET Host!Helpers]
          /\ \A d \in Host!Calls : \A g \in waits[d] : proc[g] # "none"
  BY DEF Host!IInv, Host!HelpersKnown, Host!TypeOK
<1>4. PICK h \in waits[c] : Host!Retire(h, at)
  BY DEF Host!StopRetires
<1>5. UNCHANGED <<lifecycle, sentTo, revision, proc, inbox>>
  BY DEF Host!StopRetires
<1>6. h \in Host!Helpers /\ proc[h] # "none"
  BY <1>3, <1>4
<1> HIDE DEF at
<1>7. \A d \in Host!Calls : at[d] # pc[d] => d = c
  BY <1>2
<1>8. QED BY <1>1, <1>2, <1>3, <1>4, <1>5, <1>6, <1>7, StepRetire

\* A request is written to the current helper or refused.
LEMMA Sends ==
  ASSUME Host!CallsAssumption, Host!IInv, NEW c \in Host!Calls,
         NEW h \in Host!Helpers \cup {nobody},
         NEW step \in {"initialize", "consent", "shutdown", "call"}, Host!Send(c, h, step), child' =
           child
  PROVE  /\ pc' \in [Host!Calls -> Steps]
         /\ pc'[c] \in {step, Host!Refused(c)} /\ \A d \in Host!Calls : d # c => pc'[d] = pc[d]
         /\ pending' \subseteq Host!Calls
         /\ sentTo' \in [Host!Calls -> Host!Helpers \cup {nobody}]
         /\ inbox' \in [Host!Helpers -> SUBSET (Host!Calls \X {"initialize", "consent", "shutdown",
                                                               "call"})]
         /\ \A d \in pending' : d \in pending \/ (d = c /\ pc'[c] = step)
         /\ Host!PendingAtCurrentHelper'
<1>1. /\ Host!IInv /\ Host!TypeOK /\ pc \in [Host!Calls -> Steps] /\ Host!Refused(c) \in Steps
      /\ step \in Steps
  BY RefusedTo DEF Host!IInv, Host!TypeOK, Steps, Host!Ended, Host!CallsAssumption, Host!Calls
<1>2. CASE h # nobody /\ child = h /\ proc[h] = "alive"
  <2>1. /\ pending' = pending \cup {c} /\ sentTo' = [sentTo EXCEPT ![c] = h]
        /\ inbox' = [inbox EXCEPT ![h] = @ \cup {<<c, step>>}] /\ pc' = [pc EXCEPT ![c] = step]
        /\ h \in Host!Helpers
    BY <1>2 DEF Host!Send
  <2>2. Host!PendingAtCurrentHelper'
    BY <1>1, <1>2, <2>1 DEF Host!IInv, Host!TypeOK, Host!PendingAtCurrentHelper
  <2>3. inbox' \in [Host!Helpers -> SUBSET (Host!Calls \X {"initialize", "consent", "shutdown",
                                                           "call"})]
    <3>1. <<c, step>> \in Host!Calls \X {"initialize", "consent", "shutdown", "call"}
      OBVIOUS
    <3>2. QED BY <1>1, <2>1, <3>1 DEF Host!TypeOK
  <2>4. QED BY <1>1, <1>2, <2>1, <2>2, <2>3 DEF Host!TypeOK
<1>3. CASE ~(h # nobody /\ child = h /\ proc[h] = "alive")
  <2>1. pc' = [pc EXCEPT ![c] = Host!Refused(c)] /\ UNCHANGED <<pending, sentTo, inbox>>
    BY <1>3 DEF Host!Send
  <2>2. QED BY <1>1, <2>1 DEF Host!TypeOK, Host!IInv, Host!PendingAtCurrentHelper
<1>4. QED BY <1>2, <1>3

\* A start asks for consent, or somebody calls: nothing else is decided.
LEMMA StepSends ==
  ASSUME Host!CallsAssumption, Host!IInv, NEW c \in Host!Calls,
         Host!Consent(c) \/ (c \in Invokes /\ Host!Invoke(c))
  PROVE  Host!IInv'
<1> USE Host!CallsAssumption DEF Host!CallsAssumption, Host!Helpers
<1>1. /\ UNCHANGED <<lifecycle, child, revision, waits, retiring, proc>>
      /\ pc' \in [Host!Calls -> Steps]
      /\ \A d \in Host!Calls : d # c => pc'[d] = pc[d]
      /\ pending' \subseteq Host!Calls /\ sentTo' \in [Host!Calls -> Host!Helpers \cup {nobody}]
      /\ inbox' \in [Host!Helpers -> SUBSET (Host!Calls \X {"initialize", "consent", "shutdown",
                                                            "call"})]
      /\ \A d \in pending' : d \in pending \/ (d = c /\ pc'[c] \in {"consent", "call"})
      /\ Host!PendingAtCurrentHelper'
      /\ \/ c \in Starts /\ pc[c] = "initialized" /\ pc'[c] \in {"consent", "withdraw"}
         \/ c \in Invokes /\ pc[c] = "idle" /\ pc'[c] \in {"call", "failed"}
  <2>1. CASE Host!Consent(c)
    <3>1. c \in Starts /\ c \in Host!Helpers /\ pc[c] = "initialized"
      BY <2>1 DEF Host!Consent, Host!IInv, Host!AtOwnStep, Host!Ended, Host!Calls
    <3>2. Host!Send(c, c, "consent")
              /\ UNCHANGED <<lifecycle, child, revision, waits, retiring, proc>>
      BY <2>1 DEF Host!Consent
    <3>3. QED BY <3>1, <3>2, Sends, RefusedTo
  <2>2. CASE c \in Invokes /\ Host!Invoke(c)
    <3>1. Host!Send(c, child, "call")
              /\ UNCHANGED <<lifecycle, child, revision, waits, retiring, proc>>
      BY <2>2 DEF Host!Invoke
    <3>2. child \in Host!Helpers \cup {nobody} /\ pc[c] = "idle"
      BY <2>2 DEF Host!Invoke, Host!IInv, Host!TypeOK
    <3>3. QED BY <2>2, <3>1, <3>2, Sends, RefusedTo
  <2>3. QED BY <2>1, <2>2
<1>2. Host!TypeOK'
  BY <1>1 DEF Host!IInv, Host!TypeOK, Steps, Host!Ended
<1>3. Host!AtOwnStep'
  <2>1. Host!AtOwnStep /\ pending \subseteq Host!Calls
    BY DEF Host!IInv, Host!TypeOK
  <2>2. ASSUME NEW d \in Starts
        PROVE  pc'[d] \in {"idle", "retire", "settle", "prepare", "initialize", "initialized",
                           "consent", "withdraw", "give up"} \cup Host!Ended
    BY <1>1, <2>1 DEF Host!AtOwnStep, Host!Ended, Host!Calls
  <2>3. ASSUME NEW d \in Stops
        PROVE  pc'[d] \in {"idle", "shutdown", "asked", "retire", "settle"} \cup Host!Ended
    BY <1>1, <2>1 DEF Host!AtOwnStep, Host!Ended, Host!Calls
  <2>4. ASSUME NEW d \in Invokes PROVE pc'[d] \in {"idle", "call"} \cup Host!Ended
    BY <1>1, <2>1 DEF Host!AtOwnStep, Host!Ended, Host!Calls
  <2>5. ASSUME NEW d \in pending' PROVE pc'[d] \in {"initialize", "consent", "shutdown", "call"}
    BY <1>1, <2>1 DEF Host!AtOwnStep
  <2>6. QED BY <2>2, <2>3, <2>4, <2>5 DEF Host!AtOwnStep
<1>4. Host!Numbered'
  <2>1. \A d \in Host!Deciders : d \in Host!Calls /\ (pc'[d] # "idle" => pc[d] # "idle")
    BY <1>1 DEF Host!Deciders, Host!Calls
  <2>2. QED BY <1>1, <2>1 DEF Host!IInv, Host!Numbered
<1>5. Host!HelpersKnown'
  BY <1>1 DEF Host!IInv, Host!HelpersKnown, Host!HelperKnown, Host!Alive, Host!Calls
<1>6. Host!OnlyOneAlive' /\ Host!NoHelperLeftBehind'
  BY <1>1 DEF Host!IInv, Host!OnlyOneAlive, Host!NoHelperLeftBehind, Host!Alive
<1>7. Host!DeciderKnows'
  <2> SUFFICES ASSUME NEW d \in Host!Deciders, Host!Current(d)' PROVE Host!Knows(d)'
    BY DEF Host!DeciderKnows
  <2>1. d \in Host!Calls /\ Host!Knows(d)
    BY <1>1 DEF Host!IInv, Host!DeciderKnows, Host!Deciders, Host!Calls, Host!Current
  <2>2. CASE d = c
    BY <1>1, <2>1, <2>2 DEF Host!Knows, Host!Deciders
  <2>3. CASE d # c
    BY <1>1, <2>1, <2>3 DEF Host!Knows, Host!NothingRuns, Host!Alive
  <2>4. QED BY <2>2, <2>3
<1>8. QED BY <1>1, <1>2, <1>3, <1>4, <1>5, <1>6, <1>7 DEF Host!IInv

\* A new decider is the current one, and nobody else that has called is.
LEMMA Decided ==
  ASSUME Host!CallsAssumption, Host!IInv, NEW c \in Host!Deciders, Host!Decides(c),
         \A d \in Host!Deciders : d # c => (pc'[d] # "idle" => pc[d] # "idle"),
         pc'[c] \notin {"idle", "settle", "prepare", "done"},
         pc'[c] = "retire" => child' = nobody,
         pc'[c] \in {"shutdown", "asked"} => child' = child
  PROVE  /\ lifecycle' \in Nat /\ revision' \in [Host!Calls -> Nat]
         /\ waits' \in [Host!Calls -> SUBSET Host!Helpers]
         /\ \A d \in Host!Calls : \A g \in waits'[d] : proc[g] # "none"
         /\ Host!Numbered' /\ Host!DeciderKnows'
<1> USE Host!CallsAssumption DEF Host!CallsAssumption
<1>1. /\ lifecycle \in Nat /\ lifecycle' = lifecycle + 1 /\ c \in Host!Calls
      /\ revision \in [Host!Calls -> Nat] /\ revision' = [revision EXCEPT ![c] = lifecycle + 1]
      /\ waits \in [Host!Calls -> SUBSET Host!Helpers]
      /\ waits' = [waits EXCEPT ![c] = {child} \ {nobody}]
      /\ child \in Host!Helpers \cup {nobody}
      /\ pc[c] = "idle"
  BY DEF Host!Decides, Host!IInv, Host!TypeOK, Host!Deciders, Host!Calls
<1>2. /\ lifecycle' \in Nat /\ revision' \in [Host!Calls -> Nat]
      /\ waits' \in [Host!Calls -> SUBSET Host!Helpers]
      /\ waits'[c] = {child} \ {nobody} /\ revision'[c] = lifecycle + 1
      /\ \A d \in Host!Calls : d # c => waits'[d] = waits[d] /\ revision'[d] = revision[d]
  BY <1>1
<1>3. \A d \in Host!Calls : \A g \in waits'[d] : proc[g] # "none"
  BY <1>1, <1>2 DEF Host!IInv, Host!HelpersKnown, Host!Alive
<1>4. \A d \in Host!Deciders :
         /\ d \in Host!Calls
         /\ d # c /\ pc'[d] # "idle" =>
              /\ pc[d] # "idle" /\ revision[d] <= lifecycle
              /\ revision[d] \in Nat
  BY <1>1 DEF Host!IInv, Host!Numbered, Host!Deciders, Host!Calls
<1>5. Host!Numbered'
  <2>1. \A d \in Host!Deciders : pc'[d] # "idle" => revision'[d] <= lifecycle'
    BY <1>1, <1>2, <1>4
  <2>2. ASSUME NEW d \in Host!Deciders, NEW e \in Host!Deciders, pc'[d] # "idle", pc'[e] # "idle",
               revision'[d] = revision'[e]
        PROVE  d = e
    <3>1. CASE d = c \/ e = c
      BY <1>1, <1>2, <1>4, <2>2, <3>1
    <3>2. CASE d # c /\ e # c
      BY <1>2, <1>4, <2>2, <3>2 DEF Host!IInv, Host!Numbered
    <3>3. QED BY <3>1, <3>2
  <2>3. QED BY <2>1, <2>2 DEF Host!Numbered
<1>6. Host!DeciderKnows'
  <2> SUFFICES ASSUME NEW d \in Host!Deciders, Host!Current(d)' PROVE Host!Knows(d)'
    BY DEF Host!DeciderKnows
  <2>1. CASE d = c
    BY <1>1, <1>2, <2>1 DEF Host!Knows, Host!Deciders
  <2>2. CASE d # c
    <3>1. pc'[d] = "idle"
      BY <1>1, <1>2, <1>4, <2>2 DEF Host!Current
    <3>2. QED BY <3>1 DEF Host!Knows
  <2>3. QED BY <2>1, <2>2
<1>7. QED BY <1>2, <1>3, <1>5, <1>6

\* start and hardStop: the helper they find is retired with all that waited for it.
LEMMA StepDecides ==
  ASSUME Host!CallsAssumption, Host!IInv, NEW c \in Host!Deciders, Host!Decides(c),
         Host!Retire(child, [pc EXCEPT ![c] = "retire"]), UNCHANGED <<proc, sentTo, inbox>>
  PROVE  Host!IInv'
<1> USE Host!CallsAssumption DEF Host!CallsAssumption, Host!Helpers
<1> DEFINE at == [pc EXCEPT ![c] = "retire"]
<1>1. /\ pc[c] = "idle" /\ c \in Host!Calls /\ c \notin pending
      /\ at \in [Host!Calls -> Steps] /\ at[c] = "retire" /\ \A d \in Host!Calls : d # c =>
         at[d] = pc[d]
      /\ Host!Retire(child, at) /\ child \in Host!Helpers \cup {nobody}
  BY DEF Host!Decides, Host!Deciders, Host!Calls, Host!IInv, Host!TypeOK, Host!AtOwnStep, Steps,
     Host!Ended
<1> HIDE DEF at
<1>2. /\ retiring' \in [Host!Helpers -> {"no", "term", "kill", "done", "failed"}]
      /\ \A g \in Host!Helpers :
           /\ proc[g] = "none" => retiring'[g] = "no"
           /\ retiring'[g] = "done" => ~Host!Alive(g)
      /\ child' = nobody /\ pending' = {}
      /\ pc' \in [Host!Calls -> Steps]
      /\ \A d \in Host!Calls : pc'[d] = IF d \in pending THEN Host!Refused(d) ELSE at[d]
      /\ Host!NoHelperLeftBehind' /\ Host!PendingAtCurrentHelper'
  <2>1. CASE child = nobody
    <3>1. retiring' = retiring /\ child' = child /\ pending' = pending /\ pc' = at
      BY <1>1, <2>1 DEF Host!Retire, Host!Retirement, Host!Drop
    <3>2. pending = {}
      BY <2>1 DEF Host!IInv, Host!PendingAtCurrentHelper
    <3>3. QED BY <1>1, <2>1, <3>1, <3>2 DEF Host!IInv, Host!HelpersKnown, Host!HelperKnown, Host!TypeOK,
         Host!NoHelperLeftBehind,
         Host!PendingAtCurrentHelper
  <2>2. CASE child # nobody
    <3>1. child \in Host!Helpers /\ proc[child] # "none"
      BY <1>1, <2>2 DEF Host!IInv, Host!HelpersKnown, Host!Alive
    <3>2. QED BY <1>1, <3>1, RetireChanges
  <2>3. QED BY <2>1, <2>2
<1>3. /\ \A d \in Starts \cap pending : pc[d] \in {"initialize", "consent"}
           /\ Host!Refused(d) = "withdraw"
      /\ \A d \in Stops \cap pending : pc[d] = "shutdown" /\ Host!Refused(d) = "asked"
      /\ \A d \in Invokes \cap pending : pc[d] = "call" /\ Host!Refused(d) = "failed"
  BY RefusedTo DEF Host!IInv, Host!AtOwnStep, Host!Ended
<1>4. ASSUME NEW d \in Host!Calls
      PROVE  \/ pc'[d] = pc[d]
             \/ d \in pending /\ pc'[d] = Host!Refused(d)
             \/ d = c /\ pc'[d] = "retire" /\ pc[d] = "idle"
  BY <1>1, <1>2
<1>5. \A d \in Host!Deciders : d # c => (pc'[d] # "idle" => pc[d] # "idle")
  BY <1>3, <1>4 DEF Host!Deciders, Host!Calls
<1>6. pc'[c] = "retire"
  BY <1>1, <1>2
<1>7. /\ lifecycle' \in Nat /\ revision' \in [Host!Calls -> Nat]
      /\ waits' \in [Host!Calls -> SUBSET Host!Helpers]
      /\ \A d \in Host!Calls : \A g \in waits'[d] : proc[g] # "none"
      /\ Host!Numbered' /\ Host!DeciderKnows'
  BY <1>2, <1>5, <1>6, Decided
<1>8. Host!TypeOK'
  BY <1>2, <1>7 DEF Host!IInv, Host!TypeOK, Steps, Host!Ended
<1>9. Host!AtOwnStep'
  <2>1. Host!AtOwnStep
    BY DEF Host!IInv
  <2>2. ASSUME NEW d \in Starts
        PROVE  pc'[d] \in {"idle", "retire", "settle", "prepare", "initialize", "initialized",
                           "consent", "withdraw", "give up"} \cup Host!Ended
    BY <1>3, <1>4, <2>1 DEF Host!AtOwnStep, Host!Ended, Host!Calls
  <2>3. ASSUME NEW d \in Stops
        PROVE  pc'[d] \in {"idle", "shutdown", "asked", "retire", "settle"} \cup Host!Ended
    BY <1>3, <1>4, <2>1 DEF Host!AtOwnStep, Host!Ended, Host!Calls
  <2>4. ASSUME NEW d \in Invokes PROVE pc'[d] \in {"idle", "call"} \cup Host!Ended
    <3>1. d # c /\ d \in Host!Calls
      BY DEF Host!Deciders, Host!Calls
    <3>2. QED BY <1>3, <1>4, <2>1, <3>1 DEF Host!AtOwnStep, Host!Ended
  <2>5. QED BY <1>2, <2>2, <2>3, <2>4 DEF Host!AtOwnStep
<1>10. Host!HelpersKnown'
  <2>1. ASSUME NEW g \in Host!Helpers PROVE Host!HelperKnown(g)'
    <3>1. /\ g \in Host!Calls /\ g \in Starts /\ Host!HelperKnown(g)
      BY DEF Host!Calls, Host!IInv, Host!HelpersKnown
    <3>2. \/ pc'[g] = pc[g]
          \/ pc[g] \in {"initialize", "consent"} /\ pc'[g] = "withdraw"
          \/ pc[g] = "idle" /\ pc'[g] = "retire"
      BY <1>3, <1>4, <3>1
    <3>3. QED BY <1>2, <3>1, <3>2 DEF Host!HelperKnown, Host!Alive
  <2>2. QED BY <1>2, <1>7, <2>1 DEF Host!HelpersKnown
<1>11. Host!OnlyOneAlive'
  BY DEF Host!IInv, Host!OnlyOneAlive, Host!Alive
<1>12. QED BY <1>2, <1>7, <1>8, <1>9, <1>10, <1>11 DEF Host!IInv

\* stop: the helper it finds is asked to shut down, or there is none.
LEMMA StepStop ==
  ASSUME Host!CallsAssumption, Host!IInv, NEW c \in Stops, Host!Stop(c)
  PROVE  Host!IInv'
<1> USE Host!CallsAssumption DEF Host!CallsAssumption, Host!Helpers
<1>1. /\ pc[c] = "idle" /\ c \in Host!Calls /\ c \notin pending /\ c \in Host!Deciders
      /\ Host!Decides(c) /\ UNCHANGED <<child, proc, retiring>>
      /\ child \in Host!Helpers \cup {nobody}
  BY DEF Host!Stop, Host!Decides, Host!Deciders, Host!Calls, Host!IInv, Host!TypeOK,
     Host!AtOwnStep, Steps, Host!Ended
<1>2. /\ pc' \in [Host!Calls -> Steps]
      /\ pc'[c] \in {"shutdown", "asked", "retire"} /\ \A d \in Host!Calls : d # c => pc'[d] = pc[d]
      /\ pc'[c] = "retire" => child' = nobody
      /\ pending' \subseteq Host!Calls /\ sentTo' \in [Host!Calls -> Host!Helpers \cup {nobody}]
      /\ inbox' \in [Host!Helpers -> SUBSET (Host!Calls \X {"initialize", "consent", "shutdown",
                                                            "call"})]
      /\ \A d \in pending' : d \in pending \/ (d = c /\ pc'[c] = "shutdown")
      /\ Host!PendingAtCurrentHelper'
  <2>1. CASE child = nobody
    <3>1. pc' = [pc EXCEPT ![c] = "retire"] /\ UNCHANGED <<pending, sentTo, inbox>>
      BY <2>1 DEF Host!Stop, Host!Goes
    <3>2. Host!PendingAtCurrentHelper'
      BY <1>1, <3>1 DEF Host!IInv, Host!PendingAtCurrentHelper
    <3>3. QED BY <1>1, <2>1, <3>1, <3>2 DEF Host!IInv, Host!TypeOK, Steps, Host!Ended
  <2>2. CASE child # nobody
    <3>1. Host!Send(c, child, "shutdown")
      BY <2>2 DEF Host!Stop
    <3>2. QED BY <1>1, <3>1, Sends, RefusedTo
  <2>3. QED BY <2>1, <2>2
<1>3. \A d \in Host!Deciders : d # c => (pc'[d] # "idle" => pc[d] # "idle")
  BY <1>2 DEF Host!Deciders, Host!Calls
<1>4. /\ lifecycle' \in Nat /\ revision' \in [Host!Calls -> Nat]
      /\ waits' \in [Host!Calls -> SUBSET Host!Helpers]
      /\ \A d \in Host!Calls : \A g \in waits'[d] : proc[g] # "none"
      /\ Host!Numbered' /\ Host!DeciderKnows'
  BY <1>1, <1>2, <1>3, Decided
<1>5. Host!TypeOK'
  BY <1>1, <1>2, <1>4 DEF Host!IInv, Host!TypeOK, Steps, Host!Ended
<1>6. Host!AtOwnStep'
  <2>1. Host!AtOwnStep /\ pending \subseteq Host!Calls
    BY DEF Host!IInv, Host!TypeOK
  <2>2. \A d \in Starts \cup Invokes : pc'[d] = pc[d]
    BY <1>2 DEF Host!Calls
  <2>3. ASSUME NEW d \in Stops
        PROVE  pc'[d] \in {"idle", "shutdown", "asked", "retire", "settle"} \cup Host!Ended
    BY <1>2, <2>1 DEF Host!AtOwnStep, Host!Ended, Host!Calls
  <2>4. ASSUME NEW d \in pending' PROVE pc'[d] \in {"initialize", "consent", "shutdown", "call"}
    BY <1>1, <1>2, <2>1 DEF Host!AtOwnStep
  <2>5. QED BY <2>1, <2>2, <2>3, <2>4 DEF Host!AtOwnStep
<1>7. Host!HelpersKnown'
  <2>1. \A g \in Host!Helpers : pc'[g] = pc[g]
    BY <1>2 DEF Host!Calls
  <2>2. QED BY <1>1, <1>4, <2>1 DEF Host!IInv, Host!HelpersKnown, Host!HelperKnown, Host!Alive
<1>8. Host!OnlyOneAlive' /\ Host!NoHelperLeftBehind'
  BY <1>1 DEF Host!IInv, Host!OnlyOneAlive, Host!NoHelperLeftBehind, Host!Alive
<1>9. QED BY <1>2, <1>4, <1>5, <1>6, <1>7, <1>8 DEF Host!IInv

\* A start that is current after its last await finds nothing alive.
LEMMA StepSpawn ==
  ASSUME Host!CallsAssumption, Host!IInv, NEW c \in Host!Calls, Host!Spawn(c)
  PROVE  Host!IInv'
<1> USE Host!CallsAssumption DEF Host!CallsAssumption, Host!Helpers
<1>1. /\ c \in Starts /\ c \in Host!Helpers /\ c \in Host!Deciders /\ pc[c] = "prepare"
      /\ Host!Current(c)
      /\ c # nobody
  BY DEF Host!Spawn, Host!IInv, Host!AtOwnStep, Host!Ended, Host!Calls, Host!Deciders
<1>2. child = nobody /\ pending = {} /\ Host!NothingRuns /\ proc[c] = "none" /\ retiring[c] = "no"
  BY <1>1 DEF Host!IInv, Host!DeciderKnows, Host!Knows, Host!PendingAtCurrentHelper,
     Host!HelpersKnown, Host!HelperKnown
<1>3. /\ UNCHANGED <<lifecycle, revision, waits, retiring>>
      /\ child' = c /\ pending' = {c}
      /\ proc' \in [Host!Helpers -> {"none", "alive", "exited", "closed"}] /\ proc'[c] = "alive"
      /\ \A g \in Host!Helpers : g # c => proc'[g] = proc[g]
      /\ sentTo' \in [Host!Calls -> Host!Helpers \cup {nobody}] /\ sentTo'[c] = c
      /\ pc' \in [Host!Calls -> Steps] /\ pc'[c] = "initialize"
      /\ \A d \in Host!Calls : d # c => pc'[d] = pc[d]
  BY <1>1, <1>2 DEF Host!Spawn, Host!Goes, Host!IInv, Host!TypeOK, Steps, Host!Ended
<1>4. inbox' \in [Host!Helpers -> SUBSET (Host!Calls \X {"initialize", "consent", "shutdown",
                                                         "call"})]
  <2>1. <<c, "initialize">> \in Host!Calls \X {"initialize", "consent", "shutdown", "call"}
    OBVIOUS
  <2>2. QED BY <1>1, <2>1 DEF Host!Spawn, Host!IInv, Host!TypeOK
<1>5. Host!TypeOK'
  BY <1>1, <1>3, <1>4 DEF Host!IInv, Host!TypeOK, Steps, Host!Ended
<1>6. Host!AtOwnStep'
  <2>1. \A d \in Stops \cup Invokes : pc'[d] = pc[d]
    BY <1>1, <1>3 DEF Host!Calls
  <2>2. QED BY <1>1, <1>3, <2>1 DEF Host!IInv, Host!AtOwnStep, Host!Ended, Host!Calls
<1>7. Host!Numbered'
  <2>1. \A d \in Host!Deciders : d \in Host!Calls /\ (pc'[d] # "idle" => pc[d] # "idle")
    BY <1>1, <1>3 DEF Host!Deciders, Host!Calls
  <2>2. QED BY <1>3, <2>1 DEF Host!IInv, Host!Numbered
<1>8. Host!HelpersKnown'
  <2>1. ASSUME NEW g \in Host!Helpers PROVE Host!HelperKnown(g)'
    BY <1>1, <1>2, <1>3 DEF Host!IInv, Host!HelpersKnown, Host!HelperKnown, Host!Alive, Host!Calls
  <2>2. \A d \in Host!Calls : \A g \in waits'[d] : proc'[g] # "none"
    BY <1>3 DEF Host!IInv, Host!HelpersKnown, Host!TypeOK
  <2>3. QED BY <1>3, <2>1, <2>2 DEF Host!HelpersKnown, Host!Alive
<1>9. Host!OnlyOneAlive' /\ Host!NoHelperLeftBehind' /\ Host!PendingAtCurrentHelper'
  BY <1>1, <1>2, <1>3 DEF Host!OnlyOneAlive, Host!NoHelperLeftBehind,
     Host!PendingAtCurrentHelper, Host!NothingRuns, Host!Alive
<1>10. Host!DeciderKnows'
  <2> SUFFICES ASSUME NEW d \in Host!Deciders, Host!Current(d)' PROVE Host!Knows(d)'
    BY DEF Host!DeciderKnows
  <2>1. CASE d = c
    BY <1>1, <1>3, <2>1 DEF Host!Knows
  <2>2. CASE d # c
    <3>1. pc'[d] = "idle"
      BY <1>1, <1>3, <2>2 DEF Host!Current, Host!IInv, Host!Numbered, Host!Deciders, Host!Calls
    <3>2. QED BY <3>1 DEF Host!Knows
  <2>3. QED BY <2>1, <2>2
<1>11. QED BY <1>5, <1>6, <1>7, <1>8, <1>9, <1>10 DEF Host!IInv

\* Every step of the bridge, and a step of another component, keeps its invariant.
LEMMA BridgeStays ==
  ASSUME Host!CallsAssumption
  PROVE  Host!IInv /\ [Host!Next]_(Host!vars) => Host!IInv'
<1> SUFFICES ASSUME Host!IInv, [Host!Next]_(Host!vars) PROVE Host!IInv'
  OBVIOUS
<1>1. CASE UNCHANGED Host!vars
  BY <1>1, ZenonT(90) DEF Host!vars, Host!IInv, Host!TypeOK, Host!AtOwnStep, Host!Numbered,
     Host!HelpersKnown, Host!HelperKnown, Host!OnlyOneAlive,
     Host!NoHelperLeftBehind, Host!PendingAtCurrentHelper, Host!DeciderKnows, Host!Knows,
       Host!Current, Host!NothingRuns, Host!Alive
<1>2. ASSUME NEW c \in Starts, Host!Start(c) PROVE Host!IInv'
  BY <1>2, StepDecides DEF Host!Start, Host!Deciders
<1>3. ASSUME NEW c \in Stops, Host!Stop(c) \/ Host!HardStop(c) PROVE Host!IInv'
  BY <1>3, StepStop, StepDecides DEF Host!HardStop, Host!Deciders
<1>4. ASSUME NEW c \in Invokes, Host!Invoke(c) PROVE Host!IInv'
  BY <1>4, StepSends DEF Host!Calls
<1>5. ASSUME NEW c \in Host!Calls, Host!Continue(c) \/ Host!RequestEnds(c) PROVE Host!IInv'
  BY <1>5, StepAwaits, StepSpawn, StepSends, StepWithdraw, StepStopRetires,
     StepRequestEnds DEF Host!Continue
<1>6. ASSUME NEW h \in Host!Helpers, Host!TransportLost(h) \/ Host!Exit(h) \/ Host!Close(h)
                 \/ Host!TerminateTimeout(h)
      PROVE  Host!IInv'
  BY <1>6, StepTransportLost, StepExit, StepClose, StepTerminateTimeout
<1>7. ASSUME NEW h \in Host!Helpers, NEW r \in inbox[h], Host!Answer(h, r) PROVE Host!IInv'
  BY <1>7, StepAnswer
<1>8. QED BY <1>1, <1>2, <1>3, <1>4, <1>5, <1>6, <1>7 DEF Host!Next, Host!Terminated

\* Two helpers that live are the same: at most one lives.
LEMMA OneHelperAlive == ASSUME Host!OnlyOneAlive PROVE Host!OneHelper
<1> DEFINE living == {h \in Host!Helpers : proc[h] = "alive"}
<1>1. CASE living = {}
  BY <1>1, FS_EmptySet, HostCounts DEF Host!OneHelper
<1>2. CASE living # {}
  <2>1. PICK h \in living : TRUE
    BY <1>2
  <2>2. living = {h}
    BY <2>1 DEF Host!OnlyOneAlive, Host!Alive
  <2>3. Cardinality(living) = 1
    BY <2>2, FS_Singleton
  <2>4. QED BY <2>3, HostCounts DEF Host!OneHelper
<1>3. QED BY <1>1, <1>2

\* What the invariant of the bridge means: its properties.
LEMMA BridgeMeans ==
  ASSUME Host!CallsAssumption, Host!IInv
  PROVE  Host!TypeOK /\ Host!OneHelper /\ Host!NoHelperLeftBehind /\ Host!PendingAtCurrentHelper
             /\ Host!StopHolds
<1>1. Host!StopHolds
  BY DEF Host!IInv, Host!StopHolds, Host!DeciderKnows, Host!Knows, Host!NothingRuns, Host!Alive,
     Host!Deciders
<1>2. QED BY <1>1, OneHelperAlive DEF Host!IInv

-----------------------------------------------------------------------------
(* The shell, whatever its jobs and the bounds of their output              *)

Procs == {"none", "spawning", "failed", "running", "terminating", "killed", "exited"}
CallSteps == {"none", "feed", "wait", "grace", "finalise", "returned"}

\* No shell was asked for anything.
LEMMA ShellStarts ==
  ASSUME NEW js, NEW size, NEW bytes, Shell(js, size, bytes)!BoundsAssumption
  PROVE  Shell(js, size, bytes)!Init => Shell(js, size, bytes)!IInv
<1> SUFFICES ASSUME Shell(js, size, bytes)!Init PROVE Shell(js, size, bytes)!IInv
  OBVIOUS
<1> USE Shell(js, size, bytes)!BoundsAssumption DEF Shell!Init, Shell!BoundsAssumption
<1>1. Shell(js, size, bytes)!TypeOK
  <2>1. job \in [js -> Shell(js, size, bytes)!JobType]
    <3>1. [owner |-> nobody, proc |-> "none", pipe |-> "closed", drain |-> "done", final |-> FALSE,
           known |-> FALSE, call |-> "none"] \in Shell(js, size, bytes)!JobType
      BY DEF Shell!JobType
    <3>2. QED BY <3>1
  <2>2. output \in [js -> Shell(js, size, bytes)!StreamType]
            /\ seen \in [js -> Shell(js, size, bytes)!SeenType]
    BY DEF Shell!StreamType, Shell!SeenType
  <2>3. stop \in [whom : Principals \cup {nobody, Shell(js, size, bytes)!Close}, found : SUBSET js,
                  left : SUBSET js,
                  at : js \cup {nobody}, done : BOOLEAN]
    OBVIOUS
  <2>4. kill \in [Kills -> [job : js \cup {nobody}, sent : {"none", "TERM", "KILL"},
                            done : BOOLEAN]]
    OBVIOUS
  <2>5. \A j \in js : /\ output[j].total <= output[j].written
                        /\ output[j].dropped <= output[j].total
                        /\ output[j].cursor <= output[j].total
                        /\ output[j].total - output[j].dropped <= size
    OBVIOUS
  <2>6. /\ stop.left \subseteq stop.found /\ stop.at \in stop.left \cup {nobody}
        /\ told \in [js -> SUBSET (0..bytes)]
    OBVIOUS
  <2>7. QED BY ONLY <2>1, <2>2, <2>3, <2>4, <2>5, <2>6 DEF Shell!TypeOK
<1>2. ASSUME NEW j \in js
      PROVE  Shell(js, size, bytes)!JobKnown(job[j], output[j], told[j])
                 /\ Shell(js, size, bytes)!ReadKnown(output[j], seen[j])
  BY DEF Shell!JobKnown, Shell!ReadKnown
<1>3. (\A k \in Kills : Shell(js, size, bytes)!KillKnown(k)) /\ Shell(js, size, bytes)!StopKnown
  BY DEF Shell!KillKnown, Shell!StopKnown
<1>4. QED BY <1>1, <1>2, <1>3 DEF Shell!IInv

\* A kill that a step does not touch stays known.
LEMMA KillsStay ==
  ASSUME NEW js, NEW size, NEW bytes, Shell(js, size, bytes)!IInv, NEW k \in Kills,
         \A j \in js : Shell(js, size, bytes)!GoesOn(job[j], job'[j]), kill'[k] = kill[k]
  PROVE  Shell(js, size, bytes)!KillKnown(k)'
<1>1. kill[k].job \in js \cup {nobody} /\ Shell(js, size, bytes)!KillKnown(k)
  BY DEF Shell!IInv, Shell!TypeOK
<1>2. QED BY <1>1 DEF Shell!KillKnown, Shell!GoesOn, Shell!Background

\* And so does the release or the close.
LEMMA StopStays ==
  ASSUME NEW js, NEW size, NEW bytes, Shell(js, size, bytes)!IInv,
         \A j \in js : Shell(js, size, bytes)!GoesOn(job[j], job'[j]), stop'.found = stop.found,
         stop'.left = stop.left, stop'.done = stop.done
  PROVE  Shell(js, size, bytes)!StopKnown'
<1>1. stop.found \subseteq js /\ Shell(js, size, bytes)!StopKnown
  BY DEF Shell!IInv, Shell!TypeOK
<1>2. QED BY <1>1 DEF Shell!StopKnown, Shell!GoesOn, Shell!Background

\* One job goes on, to what is known of it.
LEMMA OneJob ==
  ASSUME NEW js, NEW size, NEW bytes, Shell(js, size, bytes)!BoundsAssumption,
         Shell(js, size, bytes)!IInv, NEW j \in js, NEW x \in Shell(js, size, bytes)!JobType,
         job' = [job EXCEPT ![j] = x],
         UNCHANGED output, NEW t \in SUBSET (0..bytes), told' = [told EXCEPT ![j] = t],
         Shell(js, size, bytes)!JobKnown(x, output[j], t), Shell(js, size, bytes)!GoesOn(job[j], x)
  PROVE  /\ job' \in [js -> Shell(js, size, bytes)!JobType] /\ told' \in [js -> SUBSET (0..bytes)]
         /\ \A u \in js : Shell(js, size, bytes)!JobKnown(job[u], output[u], told[u])'
         /\ \A u \in js : Shell(js, size, bytes)!GoesOn(job[u], job'[u])
<1>1. job \in [js -> Shell(js, size, bytes)!JobType] /\ told \in [js -> SUBSET (0..bytes)]
  BY DEF Shell!IInv, Shell!TypeOK
<1>2. /\ job' \in [js -> Shell(js, size, bytes)!JobType] /\ job'[j] = x /\ \A u \in js : u # j =>
         job'[u] = job[u]
      /\ told' \in [js -> SUBSET (0..bytes)] /\ told'[j] = t
      /\ \A u \in js : u # j => told'[u] = told[u]
  BY <1>1
<1>3. ASSUME NEW u \in js
      PROVE  Shell(js, size, bytes)!JobKnown(job[u], output[u], told[u])'
                 /\ Shell(js, size, bytes)!GoesOn(job[u], job'[u])
  <2>1. CASE u = j
    BY <1>2, <2>1 DEF Shell!JobKnown
  <2>2. CASE u # j
    BY <1>2, <2>2 DEF Shell!IInv, Shell!JobKnown, Shell!GoesOn
  <2>3. QED BY <2>1, <2>2
<1>4. QED BY <1>2, <1>3

\* A step of one job alone keeps the invariant.
LEMMA JobSteps ==
  ASSUME NEW js, NEW size, NEW bytes, Shell(js, size, bytes)!BoundsAssumption,
         Shell(js, size, bytes)!IInv, NEW j \in js, NEW x \in Shell(js, size, bytes)!JobType,
         job' = [job EXCEPT ![j] = x],
         UNCHANGED <<output, seen, kill, stop>>,
         NEW t \in SUBSET (0..bytes), told' = [told EXCEPT ![j] = t],
         Shell(js, size, bytes)!JobKnown(x, output[j], t), Shell(js, size, bytes)!GoesOn(job[j], x)
  PROVE  Shell(js, size, bytes)!IInv'
<1>1. /\ job' \in [js -> Shell(js, size, bytes)!JobType] /\ told' \in [js -> SUBSET (0..bytes)]
      /\ \A u \in js : Shell(js, size, bytes)!JobKnown(job[u], output[u], told[u])'
      /\ \A u \in js : Shell(js, size, bytes)!GoesOn(job[u], job'[u])
  BY OneJob
<1>2. Shell(js, size, bytes)!TypeOK'
  BY <1>1 DEF Shell!IInv, Shell!TypeOK
<1>3. \A u \in js : Shell(js, size, bytes)!ReadKnown(output[u], seen[u])'
  BY DEF Shell!IInv, Shell!ReadKnown
<1>4. (\A k \in Kills : Shell(js, size, bytes)!KillKnown(k)') /\ Shell(js, size, bytes)!StopKnown'
  BY <1>1, KillsStay, StopStays
<1>5. QED BY <1>1, <1>2, <1>3, <1>4 DEF Shell!IInv

\* What is known of a job and its announced totals.
LEMMA JobFacts ==
  ASSUME NEW js, NEW size, NEW bytes, Shell(js, size, bytes)!BoundsAssumption,
         Shell(js, size, bytes)!IInv, NEW j \in js
  PROVE  /\ job[j] \in Shell(js, size, bytes)!JobType
         /\ Shell(js, size, bytes)!JobKnown(job[j], output[j], told[j])
         /\ told[j] \in SUBSET (0..bytes) /\ told = [told EXCEPT ![j] = told[j]]
         /\ output[j] \in Shell(js, size, bytes)!StreamType /\ job = [job EXCEPT ![j] = job[j]]
  BY DEF Shell!IInv, Shell!TypeOK

\* A signal changes the process of a job that runs.
LEMMA Signals ==
  ASSUME NEW js, NEW size, NEW bytes, Shell(js, size, bytes)!BoundsAssumption,
         Shell(js, size, bytes)!IInv, NEW j \in js, NEW s \in {"TERM", "KILL"}
  PROVE  \E p \in Procs :
            /\ Shell(js, size, bytes)!Signalled(j, s) =
               [job EXCEPT ![j] = [job[j] EXCEPT !.proc = p]]
            /\ IF Shell(js, size, bytes)!Running(j)
               THEN p \in {"killed", "terminating"} /\ (s = "KILL" \/ job[j].proc = "killed" =>
                                                        p = "killed")
               ELSE p = job[j].proc
<1>1. job[j] \in Shell(js, size, bytes)!JobType /\ job = [job EXCEPT ![j] = job[j]]
  BY JobFacts
<1>2. CASE Shell(js, size, bytes)!Running(j)
  <2> DEFINE p == IF s = "KILL" \/ job[j].proc = "killed" THEN "killed" ELSE "terminating"
  <2>1. p \in Procs /\ p \in {"killed", "terminating"} /\ (s = "KILL" \/ job[j].proc = "killed" =>
                                                           p = "killed")
    BY DEF Procs
  <2>2. Shell(js, size, bytes)!Signalled(j, s) = [job EXCEPT ![j] = [job[j] EXCEPT !.proc = p]]
    BY <1>2 DEF Shell!Signalled, Shell!Set
  <2> HIDE DEF p
  <2>3. QED BY <1>2, <2>1, <2>2
<1>3. CASE ~Shell(js, size, bytes)!Running(j)
  <2>1. job[j].proc \in Procs
    BY <1>1 DEF Shell!JobType, Procs
  <2>2. [job[j] EXCEPT !.proc = job[j].proc] = job[j]
    BY <1>1 DEF Shell!JobType
  <2>3. Shell(js, size, bytes)!Signalled(j, s) =
          [job EXCEPT ![j] = [job[j] EXCEPT !.proc = job[j].proc]]
    BY <1>1, <1>3, <2>2 DEF Shell!Signalled
  <2>4. QED BY <1>3, <2>1, <2>3
<1>4. QED BY <1>2, <1>3

\* A background command is accepted.
LEMMA StepExec ==
  ASSUME NEW js, NEW size, NEW bytes, Shell(js, size, bytes)!BoundsAssumption,
         Shell(js, size, bytes)!IInv, NEW j \in js, NEW a \in Principals,
         Shell(js, size, bytes)!Exec(j, a)
  PROVE  Shell(js, size, bytes)!IInv'
<1> DEFINE r == job[j]
           o == a
           p == "spawning"
           x == [r EXCEPT !.owner = o, !.proc = p]
<1>1. /\ r \in Shell(js, size, bytes)!JobType
      /\ Shell(js, size, bytes)!JobKnown(r, output[j], told[j]) /\ told[j] \in SUBSET (0..bytes)
      /\ told = [told EXCEPT ![j] = told[j]] /\ job' = [job EXCEPT ![j] = x]
      /\ UNCHANGED <<output, seen, kill, stop, told>> /\ r.owner = nobody /\ a # nobody
  BY JobFacts DEF Shell!Exec, Shell!BoundsAssumption
<1>2. /\ o \in Principals \cup {nobody} /\ p \in Procs
      /\ o = a /\ p = "spawning"
  BY <1>1 DEF Shell!JobType, Procs, CallSteps
<1> HIDE DEF r, o, p
<1>3. /\ x \in Shell(js, size, bytes)!JobType /\ x.owner = o /\ x.proc = p /\ x.pipe = r.pipe
      /\ x.drain = r.drain /\ x.final = r.final /\ x.known = r.known /\ x.call = r.call
  BY <1>1, <1>2 DEF Shell!JobType, Procs, CallSteps
<1> HIDE DEF x
<1>4. Shell(js, size, bytes)!JobKnown(x, output[j], told[j]) /\ Shell(js, size, bytes)!GoesOn(r, x)
  BY <1>1, <1>2, <1>3 DEF Shell!JobKnown, Shell!GoesOn, Shell!Background
<1>5. QED BY <1>1, <1>3, <1>4, JobSteps DEF r

\* Its process cannot be created.
LEMMA StepSpawnFails ==
  ASSUME NEW js, NEW size, NEW bytes, Shell(js, size, bytes)!BoundsAssumption,
         Shell(js, size, bytes)!IInv, NEW j \in js, Shell(js, size, bytes)!SpawnFails(j)
  PROVE  Shell(js, size, bytes)!IInv'
<1> DEFINE r == job[j]
           p == "failed"
           c == IF r.call = "none" THEN "none" ELSE "returned"
           x == [r EXCEPT !.proc = p, !.call = c]
<1>1. /\ r \in Shell(js, size, bytes)!JobType
      /\ Shell(js, size, bytes)!JobKnown(r, output[j], told[j]) /\ told[j] \in SUBSET (0..bytes)
      /\ told = [told EXCEPT ![j] = told[j]] /\ job' = [job EXCEPT ![j] = x]
      /\ UNCHANGED <<output, seen, kill, stop, told>> /\ r.proc = "spawning"
  BY JobFacts DEF Shell!SpawnFails
<1>2. /\ p \in Procs /\ c \in CallSteps
      /\ p = "failed" /\ c = IF r.call = "none" THEN "none" ELSE "returned"
  BY <1>1 DEF Shell!JobType, Procs, CallSteps
<1> HIDE DEF r, p, c
<1>3. /\ x \in Shell(js, size, bytes)!JobType /\ x.owner = r.owner /\ x.proc = p
      /\ x.pipe = r.pipe
      /\ x.drain = r.drain /\ x.final = r.final /\ x.known = r.known /\ x.call = c
  BY <1>1, <1>2 DEF Shell!JobType, Procs, CallSteps
<1> HIDE DEF x
<1>4. Shell(js, size, bytes)!JobKnown(x, output[j], told[j]) /\ Shell(js, size, bytes)!GoesOn(r, x)
  BY <1>1, <1>2, <1>3 DEF Shell!JobKnown, Shell!GoesOn, Shell!Background
<1>5. QED BY <1>1, <1>3, <1>4, JobSteps DEF r

\* Or it starts, and the job is registered.
LEMMA StepStarted ==
  ASSUME NEW js, NEW size, NEW bytes, Shell(js, size, bytes)!BoundsAssumption,
         Shell(js, size, bytes)!IInv, NEW j \in js, Shell(js, size, bytes)!Started(j)
  PROVE  Shell(js, size, bytes)!IInv'
<1> DEFINE r == job[j]
           p == "running"
           i == "open"
           d == "reading"
           k == TRUE
           x == [r EXCEPT !.proc = p, !.pipe = i, !.drain = d, !.known = k]
<1>1. /\ r \in Shell(js, size, bytes)!JobType
      /\ Shell(js, size, bytes)!JobKnown(r, output[j], told[j]) /\ told[j] \in SUBSET (0..bytes)
      /\ told = [told EXCEPT ![j] = told[j]] /\ job' = [job EXCEPT ![j] = x]
      /\ UNCHANGED <<output, seen, kill, stop, told>> /\ r.proc = "spawning" /\ r.call = "none"
  BY JobFacts DEF Shell!Started
<1>2. /\ p \in Procs /\ i \in {"open", "closed"} /\ d \in {"reading", "done"} /\ k \in BOOLEAN
      /\ p = "running" /\ i = "open" /\ d = "reading" /\ k = TRUE
  BY <1>1 DEF Shell!JobType, Procs, CallSteps
<1> HIDE DEF r, p, i, d, k
<1>3. /\ x \in Shell(js, size, bytes)!JobType /\ x.owner = r.owner /\ x.proc = p /\ x.pipe = i
      /\ x.drain = d /\ x.final = r.final /\ x.known = k /\ x.call = r.call
  BY <1>1, <1>2 DEF Shell!JobType, Procs, CallSteps
<1> HIDE DEF x
<1>4. Shell(js, size, bytes)!JobKnown(x, output[j], told[j]) /\ Shell(js, size, bytes)!GoesOn(r, x)
  BY <1>1, <1>2, <1>3 DEF Shell!JobKnown, Shell!GoesOn, Shell!Background
<1>5. QED BY <1>1, <1>3, <1>4, JobSteps DEF r

\* A process that runs exits.
LEMMA StepProcessExits ==
  ASSUME NEW js, NEW size, NEW bytes, Shell(js, size, bytes)!BoundsAssumption,
         Shell(js, size, bytes)!IInv, NEW j \in js, Shell(js, size, bytes)!Exit(j)
  PROVE  Shell(js, size, bytes)!IInv'
<1> DEFINE r == job[j]
           p == "exited"
           x == [r EXCEPT !.proc = p]
<1>1. /\ r \in Shell(js, size, bytes)!JobType
      /\ Shell(js, size, bytes)!JobKnown(r, output[j], told[j]) /\ told[j] \in SUBSET (0..bytes)
      /\ told = [told EXCEPT ![j] = told[j]] /\ job' = [job EXCEPT ![j] = x]
      /\ UNCHANGED <<output, seen, kill, stop, told>>
      /\ r.proc \in {"running", "terminating", "killed"}
  BY JobFacts DEF Shell!Exit, Shell!Running, Shell!Set
<1>2. /\ p \in Procs
      /\ p = "exited"
  BY <1>1 DEF Shell!JobType, Procs, CallSteps
<1> HIDE DEF r, p
<1>3. /\ x \in Shell(js, size, bytes)!JobType /\ x.owner = r.owner /\ x.proc = p
      /\ x.pipe = r.pipe
      /\ x.drain = r.drain /\ x.final = r.final /\ x.known = r.known /\ x.call = r.call
  BY <1>1, <1>2 DEF Shell!JobType, Procs, CallSteps
<1> HIDE DEF x
<1>4. Shell(js, size, bytes)!JobKnown(x, output[j], told[j]) /\ Shell(js, size, bytes)!GoesOn(r, x)
  BY <1>1, <1>2, <1>3 DEF Shell!JobKnown, Shell!GoesOn, Shell!Background
<1>5. QED BY <1>1, <1>3, <1>4, JobSteps DEF r

\* The last holder of its pipe closes it.
LEMMA StepClosePipe ==
  ASSUME NEW js, NEW size, NEW bytes, Shell(js, size, bytes)!BoundsAssumption,
         Shell(js, size, bytes)!IInv, NEW j \in js, Shell(js, size, bytes)!ClosePipe(j)
  PROVE  Shell(js, size, bytes)!IInv'
<1> DEFINE r == job[j]
           i == "closed"
           x == [r EXCEPT !.pipe = i]
<1>1. /\ r \in Shell(js, size, bytes)!JobType
      /\ Shell(js, size, bytes)!JobKnown(r, output[j], told[j]) /\ told[j] \in SUBSET (0..bytes)
      /\ told = [told EXCEPT ![j] = told[j]] /\ job' = [job EXCEPT ![j] = x]
      /\ UNCHANGED <<output, seen, kill, stop, told>> /\ TRUE
  BY JobFacts DEF Shell!ClosePipe, Shell!Set
<1>2. /\ i \in {"open", "closed"}
      /\ i = "closed"
  BY <1>1 DEF Shell!JobType, Procs, CallSteps
<1> HIDE DEF r, i
<1>3. /\ x \in Shell(js, size, bytes)!JobType /\ x.owner = r.owner /\ x.proc = r.proc
      /\ x.pipe = i
      /\ x.drain = r.drain /\ x.final = r.final /\ x.known = r.known /\ x.call = r.call
  BY <1>1, <1>2 DEF Shell!JobType, Procs, CallSteps
<1> HIDE DEF x
<1>4. Shell(js, size, bytes)!JobKnown(x, output[j], told[j]) /\ Shell(js, size, bytes)!GoesOn(r, x)
  BY <1>1, <1>2, <1>3 DEF Shell!JobKnown, Shell!GoesOn, Shell!Background
<1>5. QED BY <1>1, <1>3, <1>4, JobSteps DEF r

\* The drain sees the end of the output.
LEMMA StepDrainEnds ==
  ASSUME NEW js, NEW size, NEW bytes, Shell(js, size, bytes)!BoundsAssumption,
         Shell(js, size, bytes)!IInv, NEW j \in js, Shell(js, size, bytes)!DrainEnds(j)
  PROVE  Shell(js, size, bytes)!IInv'
<1> DEFINE r == job[j]
           d == "done"
           x == [r EXCEPT !.drain = d]
<1>1. /\ r \in Shell(js, size, bytes)!JobType
      /\ Shell(js, size, bytes)!JobKnown(r, output[j], told[j]) /\ told[j] \in SUBSET (0..bytes)
      /\ told = [told EXCEPT ![j] = told[j]] /\ job' = [job EXCEPT ![j] = x]
      /\ UNCHANGED <<output, seen, kill, stop, told>> /\ TRUE
  BY JobFacts DEF Shell!DrainEnds, Shell!Set
<1>2. /\ d \in {"reading", "done"}
      /\ d = "done"
  BY <1>1 DEF Shell!JobType, Procs, CallSteps
<1> HIDE DEF r, d
<1>3. /\ x \in Shell(js, size, bytes)!JobType /\ x.owner = r.owner /\ x.proc = r.proc
      /\ x.pipe = r.pipe
      /\ x.drain = d /\ x.final = r.final /\ x.known = r.known /\ x.call = r.call
  BY <1>1, <1>2 DEF Shell!JobType, Procs, CallSteps
<1> HIDE DEF x
<1>4. Shell(js, size, bytes)!JobKnown(x, output[j], told[j]) /\ Shell(js, size, bytes)!GoesOn(r, x)
  BY <1>1, <1>2, <1>3 DEF Shell!JobKnown, Shell!GoesOn, Shell!Background
<1>5. QED BY <1>1, <1>3, <1>4, JobSteps DEF r

\* A foreground command is accepted.
LEMMA StepExecForeground ==
  ASSUME NEW js, NEW size, NEW bytes, Shell(js, size, bytes)!BoundsAssumption,
         Shell(js, size, bytes)!IInv, NEW j \in js, NEW a \in Principals, NEW feed \in BOOLEAN,
         Shell(js, size, bytes)!ExecForeground(j, a, feed)
  PROVE  Shell(js, size, bytes)!IInv'
<1> DEFINE r == job[j]
           o == a
           p == "spawning"
           c == IF feed THEN "feed" ELSE "wait"
           x == [r EXCEPT !.owner = o, !.proc = p, !.call = c]
<1>1. /\ r \in Shell(js, size, bytes)!JobType
      /\ Shell(js, size, bytes)!JobKnown(r, output[j], told[j]) /\ told[j] \in SUBSET (0..bytes)
      /\ told = [told EXCEPT ![j] = told[j]] /\ job' = [job EXCEPT ![j] = x]
      /\ UNCHANGED <<output, seen, kill, stop, told>> /\ r.owner = nobody /\ a # nobody
  BY JobFacts DEF Shell!ExecForeground, Shell!BoundsAssumption
<1>2. /\ o \in Principals \cup {nobody} /\ p \in Procs /\ c \in CallSteps
      /\ o = a /\ p = "spawning" /\ c = IF feed THEN "feed" ELSE "wait"
  BY <1>1 DEF Shell!JobType, Procs, CallSteps
<1> HIDE DEF r, o, p, c
<1>3. /\ x \in Shell(js, size, bytes)!JobType /\ x.owner = o /\ x.proc = p /\ x.pipe = r.pipe
      /\ x.drain = r.drain /\ x.final = r.final /\ x.known = r.known /\ x.call = c
  BY <1>1, <1>2 DEF Shell!JobType, Procs, CallSteps
<1> HIDE DEF x
<1>4. Shell(js, size, bytes)!JobKnown(x, output[j], told[j]) /\ Shell(js, size, bytes)!GoesOn(r, x)
  BY <1>1, <1>2, <1>3 DEF Shell!JobKnown, Shell!GoesOn, Shell!Background
<1>5. QED BY <1>1, <1>3, <1>4, JobSteps DEF r

\* Its process starts; the job is not registered.
LEMMA StepStartedForeground ==
  ASSUME NEW js, NEW size, NEW bytes, Shell(js, size, bytes)!BoundsAssumption,
         Shell(js, size, bytes)!IInv, NEW j \in js, Shell(js, size, bytes)!StartedForeground(j)
  PROVE  Shell(js, size, bytes)!IInv'
<1> DEFINE r == job[j]
           p == "running"
           i == "open"
           d == "reading"
           x == [r EXCEPT !.proc = p, !.pipe = i, !.drain = d]
<1>1. /\ r \in Shell(js, size, bytes)!JobType
      /\ Shell(js, size, bytes)!JobKnown(r, output[j], told[j]) /\ told[j] \in SUBSET (0..bytes)
      /\ told = [told EXCEPT ![j] = told[j]] /\ job' = [job EXCEPT ![j] = x]
      /\ UNCHANGED <<output, seen, kill, stop, told>> /\ r.proc = "spawning" /\ r.call # "none"
  BY JobFacts DEF Shell!StartedForeground
<1>2. /\ p \in Procs /\ i \in {"open", "closed"} /\ d \in {"reading", "done"}
      /\ p = "running" /\ i = "open" /\ d = "reading"
  BY <1>1 DEF Shell!JobType, Procs, CallSteps
<1> HIDE DEF r, p, i, d
<1>3. /\ x \in Shell(js, size, bytes)!JobType /\ x.owner = r.owner /\ x.proc = p /\ x.pipe = i
      /\ x.drain = d /\ x.final = r.final /\ x.known = r.known /\ x.call = r.call
  BY <1>1, <1>2 DEF Shell!JobType, Procs, CallSteps
<1> HIDE DEF x
<1>4. Shell(js, size, bytes)!JobKnown(x, output[j], told[j]) /\ Shell(js, size, bytes)!GoesOn(r, x)
  BY <1>1, <1>2, <1>3 DEF Shell!JobKnown, Shell!GoesOn, Shell!Background
<1>5. QED BY <1>1, <1>3, <1>4, JobSteps DEF r

\* Its input is written, or its process ended before.
LEMMA StepFed ==
  ASSUME NEW js, NEW size, NEW bytes, Shell(js, size, bytes)!BoundsAssumption,
         Shell(js, size, bytes)!IInv, NEW j \in js, Shell(js, size, bytes)!Fed(j)
  PROVE  Shell(js, size, bytes)!IInv'
<1> DEFINE r == job[j]
           c == IF r.proc = "exited" THEN "finalise" ELSE "wait"
           x == [r EXCEPT !.call = c]
<1>1. /\ r \in Shell(js, size, bytes)!JobType
      /\ Shell(js, size, bytes)!JobKnown(r, output[j], told[j]) /\ told[j] \in SUBSET (0..bytes)
      /\ told = [told EXCEPT ![j] = told[j]] /\ job' = [job EXCEPT ![j] = x]
      /\ UNCHANGED <<output, seen, kill, stop, told>> /\ r.call = "feed" /\ r.proc # "spawning"
  BY JobFacts DEF Shell!Fed, Shell!Foreground, Shell!Set
<1>2. /\ c \in CallSteps
      /\ c = IF r.proc = "exited" THEN "finalise" ELSE "wait"
  BY <1>1 DEF Shell!JobType, Procs, CallSteps
<1> HIDE DEF r, c
<1>3. /\ x \in Shell(js, size, bytes)!JobType /\ x.owner = r.owner /\ x.proc = r.proc
      /\ x.pipe = r.pipe
      /\ x.drain = r.drain /\ x.final = r.final /\ x.known = r.known /\ x.call = c
  BY <1>1, <1>2 DEF Shell!JobType, Procs, CallSteps
<1> HIDE DEF x
<1>4. Shell(js, size, bytes)!JobKnown(x, output[j], told[j]) /\ Shell(js, size, bytes)!GoesOn(r, x)
  BY <1>1, <1>2, <1>3 DEF Shell!JobKnown, Shell!GoesOn, Shell!Background
<1>5. QED BY <1>1, <1>3, <1>4, JobSteps DEF r

\* It ends within its time.
LEMMA StepEnds ==
  ASSUME NEW js, NEW size, NEW bytes, Shell(js, size, bytes)!BoundsAssumption,
         Shell(js, size, bytes)!IInv, NEW j \in js, Shell(js, size, bytes)!Ends(j)
  PROVE  Shell(js, size, bytes)!IInv'
<1> DEFINE r == job[j]
           c == "finalise"
           x == [r EXCEPT !.call = c]
<1>1. /\ r \in Shell(js, size, bytes)!JobType
      /\ Shell(js, size, bytes)!JobKnown(r, output[j], told[j]) /\ told[j] \in SUBSET (0..bytes)
      /\ told = [told EXCEPT ![j] = told[j]] /\ job' = [job EXCEPT ![j] = x]
      /\ UNCHANGED <<output, seen, kill, stop, told>> /\ r.call \in {"wait", "grace"}
      /\ r.proc = "exited"
  BY JobFacts DEF Shell!Ends, Shell!Foreground, Shell!Set
<1>2. /\ c \in CallSteps
      /\ c = "finalise"
  BY <1>1 DEF Shell!JobType, Procs, CallSteps
<1> HIDE DEF r, c
<1>3. /\ x \in Shell(js, size, bytes)!JobType /\ x.owner = r.owner /\ x.proc = r.proc
      /\ x.pipe = r.pipe
      /\ x.drain = r.drain /\ x.final = r.final /\ x.known = r.known /\ x.call = c
  BY <1>1, <1>2 DEF Shell!JobType, Procs, CallSteps
<1> HIDE DEF x
<1>4. Shell(js, size, bytes)!JobKnown(x, output[j], told[j]) /\ Shell(js, size, bytes)!GoesOn(r, x)
  BY <1>1, <1>2, <1>3 DEF Shell!JobKnown, Shell!GoesOn, Shell!Background
<1>5. QED BY <1>1, <1>3, <1>4, JobSteps DEF r

\* And the call returns.
LEMMA StepForegroundReturns ==
  ASSUME NEW js, NEW size, NEW bytes, Shell(js, size, bytes)!BoundsAssumption,
         Shell(js, size, bytes)!IInv, NEW j \in js, Shell(js, size, bytes)!ForegroundReturns(j)
  PROVE  Shell(js, size, bytes)!IInv'
<1> DEFINE r == job[j]
           d == "done"
           f == TRUE
           c == "returned"
           x == [r EXCEPT !.drain = d, !.final = f, !.call = c]
<1>1. /\ r \in Shell(js, size, bytes)!JobType
      /\ Shell(js, size, bytes)!JobKnown(r, output[j], told[j]) /\ told[j] \in SUBSET (0..bytes)
      /\ told = [told EXCEPT ![j] = told[j]] /\ job' = [job EXCEPT ![j] = x]
      /\ UNCHANGED <<output, seen, kill, stop, told>> /\ r.call = "finalise"
  BY JobFacts DEF Shell!ForegroundReturns, Shell!Foreground
<1>2. /\ d \in {"reading", "done"} /\ f \in BOOLEAN /\ c \in CallSteps
      /\ d = "done" /\ f = TRUE /\ c = "returned"
  BY <1>1 DEF Shell!JobType, Procs, CallSteps
<1> HIDE DEF r, d, f, c
<1>3. /\ x \in Shell(js, size, bytes)!JobType /\ x.owner = r.owner /\ x.proc = r.proc
      /\ x.pipe = r.pipe
      /\ x.drain = d /\ x.final = f /\ x.known = r.known /\ x.call = c
  BY <1>1, <1>2 DEF Shell!JobType, Procs, CallSteps
<1> HIDE DEF x
<1>4. Shell(js, size, bytes)!JobKnown(x, output[j], told[j]) /\ Shell(js, size, bytes)!GoesOn(r, x)
  BY <1>1, <1>2, <1>3 DEF Shell!JobKnown, Shell!GoesOn, Shell!Background
<1>5. QED BY <1>1, <1>3, <1>4, JobSteps DEF r

\* A background job is finalised and its last total announced.
LEMMA StepFinalise ==
  ASSUME NEW js, NEW size, NEW bytes, Shell(js, size, bytes)!BoundsAssumption,
         Shell(js, size, bytes)!IInv, NEW j \in js, Shell(js, size, bytes)!Finalise(j)
  PROVE  Shell(js, size, bytes)!IInv'
<1> DEFINE r == job[j]
           d == "done"
           f == TRUE
           t == told[j] \cup {output[j].total}
           x == [r EXCEPT !.drain = d, !.final = f]
<1>1. /\ r \in Shell(js, size, bytes)!JobType
      /\ Shell(js, size, bytes)!JobKnown(r, output[j], told[j]) /\ told[j] \in SUBSET (0..bytes)
      /\ output[j] \in Shell(js, size, bytes)!StreamType /\ job' = [job EXCEPT ![j] = x]
      /\ told' = [told EXCEPT ![j] = t] /\ t = told[j] \cup {output[j].total}
      /\ UNCHANGED <<output, seen, kill, stop>> /\ r.proc = "exited" /\ r.known
  BY JobFacts DEF Shell!Finalise
<1>2. d \in {"reading", "done"} /\ d = "done" /\ f \in BOOLEAN /\ f = TRUE
  OBVIOUS
<1> HIDE DEF r, d, f, t
<1>3. /\ x \in Shell(js, size, bytes)!JobType /\ x.owner = r.owner /\ x.proc = r.proc
      /\ x.pipe = r.pipe
      /\ x.drain = d /\ x.final = f /\ x.known = r.known /\ x.call = r.call
  BY <1>1, <1>2 DEF Shell!JobType
<1> HIDE DEF x
<1>4. t \in SUBSET (0..bytes)
  BY <1>1 DEF Shell!StreamType
<1>5. Shell(js, size, bytes)!JobKnown(x, output[j], t) /\ Shell(js, size, bytes)!GoesOn(r, x)
  BY <1>1, <1>2, <1>3 DEF Shell!JobKnown, Shell!GoesOn, Shell!Background
<1>6. QED BY <1>1, <1>3, <1>4, <1>5, JobSteps DEF r

\* A signalled job is known as before, and its call and reader are where they were.
LEMMA SignalledJob ==
  ASSUME NEW js, NEW size, NEW bytes, Shell(js, size, bytes)!BoundsAssumption,
         Shell(js, size, bytes)!IInv, NEW j \in js, NEW s \in {"TERM", "KILL"}
  PROVE  \E x \in Shell(js, size, bytes)!JobType :
            /\ Shell(js, size, bytes)!Signalled(j, s) = [job EXCEPT ![j] = x]
            /\ Shell(js, size, bytes)!JobKnown(x, output[j], told[j])
            /\ Shell(js, size, bytes)!GoesOn(job[j], x)
            /\ x.owner = job[j].owner /\ x.final = job[j].final /\ x.known = job[j].known
            /\ x.call = job[j].call /\ x.drain = job[j].drain
            /\ IF Shell(js, size, bytes)!Running(j) THEN x.proc \in {"terminating",
                                                                     "killed"} ELSE x.proc =
                                                                       job[j].proc
            /\ Shell(js, size, bytes)!Running(j) /\ s = "KILL" => x.proc = "killed"
<1> DEFINE r == job[j]
<1>1. r \in Shell(js, size, bytes)!JobType /\ Shell(js, size, bytes)!JobKnown(r, output[j], told[j])
  BY JobFacts
<1>2. PICK p \in Procs :
            /\ Shell(js, size, bytes)!Signalled(j, s) = [job EXCEPT ![j] = [r EXCEPT !.proc = p]]
            /\ IF Shell(js, size, bytes)!Running(j)
               THEN p \in {"killed", "terminating"} /\ (s = "KILL" \/ r.proc = "killed" =>
                                                        p = "killed")
               ELSE p = r.proc
  BY Signals
<1>3. Shell(js, size, bytes)!Running(j) <=> r.proc \in {"running", "terminating", "killed"}
  BY DEF Shell!Running
<1> DEFINE x == [r EXCEPT !.proc = p]
<1> HIDE DEF r
<1>4. /\ x \in Shell(js, size, bytes)!JobType /\ x.owner = r.owner /\ x.proc = p
      /\ x.pipe = r.pipe
      /\ x.drain = r.drain /\ x.final = r.final /\ x.known = r.known /\ x.call = r.call
  BY <1>1, <1>2 DEF Shell!JobType, Procs
<1>5. Shell(js, size, bytes)!Signalled(j, s) = [job EXCEPT ![j] = x]
  BY <1>2
<1> HIDE DEF x
<1>6. Shell(js, size, bytes)!JobKnown(x, output[j], told[j]) /\ Shell(js, size, bytes)!GoesOn(r, x)
  BY <1>1, <1>2, <1>3, <1>4 DEF Shell!JobKnown, Shell!GoesOn, Shell!Background
<1>7. QED BY <1>2, <1>4, <1>5, <1>6 DEF r

\* A signal by a release, or by none: the stop may go on to its job.
LEMMA StepStopsJob ==
  ASSUME NEW js, NEW size, NEW bytes, Shell(js, size, bytes)!BoundsAssumption,
         Shell(js, size, bytes)!IInv, NEW j \in js, Shell(js, size, bytes)!StopJob(j)
  PROVE  Shell(js, size, bytes)!IInv'
<1>1. PICK x \in Shell(js, size, bytes)!JobType :
        /\ Shell(js, size, bytes)!Signalled(j, "KILL") = [job EXCEPT ![j] = x]
        /\ Shell(js, size, bytes)!JobKnown(x, output[j], told[j])
        /\ Shell(js, size, bytes)!GoesOn(job[j], x)
  BY SignalledJob
<1>2. /\ job' = [job EXCEPT ![j] = x] /\ stop' = [stop EXCEPT !.at = j] /\ j \in stop.left
      /\ UNCHANGED <<output, seen, kill, told>>
  BY <1>1 DEF Shell!StopJob
<1>3. told[j] \in SUBSET (0..bytes) /\ told' = [told EXCEPT ![j] = told[j]]
  BY <1>2, JobFacts
<1>4. /\ job' \in [js -> Shell(js, size, bytes)!JobType]
      /\ \A u \in js : Shell(js, size, bytes)!JobKnown(job[u], output[u], told[u])'
      /\ \A u \in js : Shell(js, size, bytes)!GoesOn(job[u], job'[u])
  BY <1>1, <1>2, <1>3, OneJob
<1>5. /\ stop \in [whom : Principals \cup {nobody, Shell(js, size, bytes)!Close},
                   found : SUBSET js, left : SUBSET js,
                  at : js \cup {nobody}, done : BOOLEAN]
      /\ stop.left \subseteq stop.found
  BY DEF Shell!IInv, Shell!TypeOK
<1>6. /\ stop' \in [whom : Principals \cup {nobody, Shell(js, size, bytes)!Close},
                    found : SUBSET js, left : SUBSET js,
                   at : js \cup {nobody}, done : BOOLEAN]
      /\ stop'.at = j /\ stop'.found = stop.found /\ stop'.left = stop.left
      /\ stop'.done = stop.done
  BY <1>2, <1>5
<1>7. Shell(js, size, bytes)!TypeOK'
  BY <1>2, <1>4, <1>5, <1>6 DEF Shell!IInv, Shell!TypeOK
<1>8. Shell(js, size, bytes)!StopKnown'
  BY <1>4, <1>6, StopStays
<1>9. \A k \in Kills : Shell(js, size, bytes)!KillKnown(k)'
  BY <1>2, <1>4, KillsStay
<1>10. \A u \in js : Shell(js, size, bytes)!ReadKnown(output[u], seen[u])'
  BY <1>2 DEF Shell!IInv
<1>11. QED BY <1>4, <1>7, <1>8, <1>9, <1>10 DEF Shell!IInv

\* One kill and the job it signals go on.
LEMMA KillSteps ==
  ASSUME NEW js, NEW size, NEW bytes, Shell(js, size, bytes)!BoundsAssumption,
         Shell(js, size, bytes)!IInv, NEW j \in js, NEW k \in Kills,
         NEW x \in Shell(js, size, bytes)!JobType,
         job' = [job EXCEPT ![j] =
                 x], Shell(js, size, bytes)!JobKnown(x, output[j], told[j]),
                   Shell(js, size, bytes)!GoesOn(job[j], x),
         NEW y \in [job : js \cup {nobody}, sent : {"none", "TERM", "KILL"}, done : BOOLEAN],
         kill' = [kill EXCEPT ![k] =
                  y], UNCHANGED <<output, seen, stop, told>>, Shell(js, size, bytes)!KillKnown(k)'
  PROVE  Shell(js, size, bytes)!IInv'
<1>1. told[j] \in SUBSET (0..bytes) /\ told' = [told EXCEPT ![j] = told[j]]
  BY JobFacts
<1>2. /\ job' \in [js -> Shell(js, size, bytes)!JobType]
      /\ \A u \in js : Shell(js, size, bytes)!JobKnown(job[u], output[u], told[u])'
      /\ \A u \in js : Shell(js, size, bytes)!GoesOn(job[u], job'[u])
  BY <1>1, OneJob, ZenonT(90)
<1>3. kill \in [Kills -> [job : js \cup {nobody}, sent : {"none", "TERM", "KILL"}, done : BOOLEAN]]
  BY DEF Shell!IInv, Shell!TypeOK
<1>4. /\ kill' \in [Kills -> [job : js \cup {nobody}, sent : {"none", "TERM", "KILL"},
                              done : BOOLEAN]]
      /\ \A v \in Kills : v # k => kill'[v] = kill[v]
  BY <1>3
<1>5. Shell(js, size, bytes)!TypeOK'
  BY <1>2, <1>4 DEF Shell!IInv, Shell!TypeOK
<1>6. Shell(js, size, bytes)!StopKnown'
  BY <1>2, StopStays
<1>7. \A v \in Kills : Shell(js, size, bytes)!KillKnown(v)'
  BY <1>2, <1>4, KillsStay
<1>8. \A u \in js : Shell(js, size, bytes)!ReadKnown(output[u], seen[u])'
  BY DEF Shell!IInv
<1>9. QED BY <1>2, <1>5, <1>6, <1>7, <1>8 DEF Shell!IInv

\* A job that its owner may name was started in the background.
LEMMA StepKill ==
  ASSUME NEW js, NEW size, NEW bytes, Shell(js, size, bytes)!BoundsAssumption,
         Shell(js, size, bytes)!IInv, NEW k \in Kills, NEW a \in Principals, NEW j \in js,
         NEW s \in {"TERM", "KILL"}, Shell(js, size, bytes)!Kill(k, a, j, s)
  PROVE  Shell(js, size, bytes)!IInv'
<1>1. PICK x \in Shell(js, size, bytes)!JobType :
        /\ Shell(js, size, bytes)!Signalled(j, s) = [job EXCEPT ![j] = x]
        /\ Shell(js, size, bytes)!JobKnown(x, output[j], told[j])
        /\ Shell(js, size, bytes)!GoesOn(job[j], x)
  BY SignalledJob
<1> DEFINE g == IF Shell(js, size, bytes)!Running(j) THEN s ELSE "KILL"
           over == FALSE
           y == [job |-> j, sent |-> g, done |-> over]
<1>2. /\ job' = [job EXCEPT ![j] = x] /\ kill' = [kill EXCEPT ![k] = y] /\ job[j].known
      /\ UNCHANGED <<output, seen, stop, told>>
  BY <1>1 DEF Shell!Kill, Shell!May
<1>3. g \in {"none", "TERM", "KILL"} /\ over \in BOOLEAN /\ ~over
  OBVIOUS
<1> HIDE DEF g, over
<1>4. /\ y \in [job : js \cup {nobody}, sent : {"none", "TERM", "KILL"}, done : BOOLEAN]
      /\ y.job = j /\ ~y.done
  BY <1>3
<1> HIDE DEF y
<1>5. kill'[k] = y /\ job'[j] = x
  BY <1>2 DEF Shell!IInv, Shell!TypeOK
<1>6. Shell(js, size, bytes)!Background(job[j])
  BY <1>2, JobFacts DEF Shell!JobKnown, Shell!Background
<1>7. j # nobody
  BY DEF Shell!BoundsAssumption
<1>8. Shell(js, size, bytes)!KillKnown(k)'
  BY <1>1, <1>4, <1>5, <1>6, <1>7 DEF Shell!KillKnown, Shell!GoesOn, Shell!Background
<1>9. QED BY <1>1, <1>2, <1>4, <1>8, KillSteps

\* The grace of a kill ends: the process, of a known job, is killed.
LEMMA StepGraceEnds ==
  ASSUME NEW js, NEW size, NEW bytes, Shell(js, size, bytes)!BoundsAssumption,
         Shell(js, size, bytes)!IInv, NEW k \in Kills, Shell(js, size, bytes)!GraceEnds(k)
  PROVE  Shell(js, size, bytes)!IInv'
<1> DEFINE j == kill[k].job
           g == "KILL"
           y == [kill[k] EXCEPT !.sent = g]
<1>1. /\ kill[k] \in [job : js \cup {nobody}, sent : {"none", "TERM", "KILL"}, done : BOOLEAN]
      /\ kill \in [Kills -> [job : js \cup {nobody}, sent : {"none", "TERM", "KILL"},
                             done : BOOLEAN]]
      /\ Shell(js, size, bytes)!KillKnown(k) /\ kill[k].sent = "TERM"
  BY DEF Shell!IInv, Shell!TypeOK, Shell!GraceEnds
<1>2. j \in js /\ j # nobody
  BY <1>1 DEF Shell!KillKnown
<1>3. g \in {"none", "TERM", "KILL"} /\ g = "KILL"
  OBVIOUS
<1>4. kill' = [kill EXCEPT ![k] = y] /\ UNCHANGED <<output, seen, stop, told>>
          /\ job' = Shell(js, size, bytes)!Signalled(j, "KILL")
  BY DEF Shell!GraceEnds
<1> HIDE DEF g
<1>5. /\ y \in [job : js \cup {nobody}, sent : {"none", "TERM", "KILL"}, done : BOOLEAN]
      /\ y.job = j /\ y.done = kill[k].done
  BY <1>1, <1>3
<1> HIDE DEF y
<1>6. PICK x \in Shell(js, size, bytes)!JobType :
        /\ Shell(js, size, bytes)!Signalled(j, "KILL") = [job EXCEPT ![j] = x]
        /\ Shell(js, size, bytes)!JobKnown(x, output[j], told[j])
        /\ Shell(js, size, bytes)!GoesOn(job[j], x)
  BY <1>2, SignalledJob
<1>7. kill'[k] = y /\ job'[j] = x
  BY <1>1, <1>2, <1>4, <1>6 DEF Shell!IInv, Shell!TypeOK
<1>8. Shell(js, size, bytes)!KillKnown(k)'
  BY <1>1, <1>2, <1>5, <1>6, <1>7 DEF Shell!KillKnown, Shell!GoesOn, Shell!Background
<1>9. QED BY <1>2, <1>4, <1>5, <1>6, <1>8, KillSteps

\* A kill returns when the reader of its job is over.
LEMMA StepKillReturns ==
  ASSUME NEW js, NEW size, NEW bytes, Shell(js, size, bytes)!BoundsAssumption,
         Shell(js, size, bytes)!IInv, NEW k \in Kills, Shell(js, size, bytes)!KillReturns(k)
  PROVE  Shell(js, size, bytes)!IInv'
<1> DEFINE j == kill[k].job
           over == TRUE
           y == [kill[k] EXCEPT !.done = over]
<1>1. /\ kill[k] \in [job : js \cup {nobody}, sent : {"none", "TERM", "KILL"}, done : BOOLEAN]
      /\ kill \in [Kills -> [job : js \cup {nobody}, sent : {"none", "TERM", "KILL"},
                             done : BOOLEAN]]
      /\ Shell(js, size, bytes)!KillKnown(k) /\ j \in js /\ j # nobody /\ job[j].final
  BY DEF Shell!IInv, Shell!TypeOK, Shell!KillReturns, Shell!ReaderIsOver
<1>2. over \in BOOLEAN /\ over = TRUE
  OBVIOUS
<1>3. kill' = [kill EXCEPT ![k] = y] /\ UNCHANGED <<job, output, seen, stop, told>>
  BY DEF Shell!KillReturns
<1> HIDE DEF over
<1>4. /\ y \in [job : js \cup {nobody}, sent : {"none", "TERM", "KILL"}, done : BOOLEAN]
      /\ y.job = j /\ y.done
  BY <1>1, <1>2
<1> HIDE DEF y
<1>5. kill'[k] = y
  BY <1>1, <1>3
<1>6. Shell(js, size, bytes)!KillKnown(k)'
  BY <1>1, <1>3, <1>4, <1>5 DEF Shell!KillKnown, Shell!Background
<1>7. /\ job[j] \in Shell(js, size, bytes)!JobType /\ job' = [job EXCEPT ![j] = job[j]]
      /\ Shell(js, size, bytes)!GoesOn(job[j], job[j])
      /\ Shell(js, size, bytes)!JobKnown(job[j], output[j], told[j])
  BY <1>1, <1>3, JobFacts DEF Shell!GoesOn
<1>8. QED BY <1>1, <1>3, <1>4, <1>6, <1>7, KillSteps

\* A signalled job whose call goes on.
LEMMA CallSignals ==
  ASSUME NEW js, NEW size, NEW bytes, Shell(js, size, bytes)!BoundsAssumption,
         Shell(js, size, bytes)!IInv, NEW j \in js, NEW s \in {"TERM", "KILL"},
         NEW c \in CallSteps,
         job' = [Shell(js, size, bytes)!Signalled(j, s) EXCEPT ![j].call =
                 c], UNCHANGED <<output, seen, kill, stop, told>>,
         job[j].call \in {"feed", "wait", "grace"}, job[j].proc # "spawning",
         IF s = "KILL" THEN c = "finalise" ELSE c = "grace"
  PROVE  Shell(js, size, bytes)!IInv'
<1> DEFINE r == job[j]
<1>1. PICK x \in Shell(js, size, bytes)!JobType :
            /\ Shell(js, size, bytes)!Signalled(j, s) = [job EXCEPT ![j] = x]
            /\ Shell(js, size, bytes)!JobKnown(x, output[j], told[j])
            /\ Shell(js, size, bytes)!GoesOn(r, x)
            /\ x.owner = r.owner /\ x.final = r.final /\ x.known = r.known
            /\ x.call = r.call /\ x.drain = r.drain
            /\ IF Shell(js, size, bytes)!Running(j) THEN x.proc \in {"terminating",
                                                                     "killed"} ELSE x.proc = r.proc
            /\ Shell(js, size, bytes)!Running(j) /\ s = "KILL" => x.proc = "killed"
  BY SignalledJob
<1> DEFINE y == [x EXCEPT !.call = c]
<1>2. /\ y \in Shell(js, size, bytes)!JobType /\ y.owner = x.owner /\ y.proc = x.proc
      /\ y.pipe = x.pipe /\ y.drain = x.drain
      /\ y.final = x.final /\ y.known = x.known /\ y.call = c
  BY DEF Shell!JobType, CallSteps
<1>3. job' = [job EXCEPT ![j] = y]
  BY <1>1 DEF Shell!IInv, Shell!TypeOK
<1> HIDE DEF y
<1>4. /\ Shell(js, size, bytes)!JobKnown(r, output[j], told[j]) /\ told[j] \in SUBSET (0..bytes)
      /\ told' = [told EXCEPT ![j] = told[j]]
  BY JobFacts
<1>5. Shell(js, size, bytes)!Running(j) \/ r.proc = "exited"
  BY <1>4 DEF Shell!JobKnown, Shell!Running
<1>6. Shell(js, size, bytes)!JobKnown(y, output[j], told[j]) /\ Shell(js, size, bytes)!GoesOn(r, y)
  BY <1>1, <1>2, <1>4, <1>5 DEF Shell!JobKnown, Shell!GoesOn, Shell!Background, Shell!Running
<1>7. QED BY <1>2, <1>3, <1>4, <1>6, JobSteps

\* A foreground command passes its time, or the grace after it.
LEMMA StepTimesOut ==
  ASSUME NEW js, NEW size, NEW bytes, Shell(js, size, bytes)!BoundsAssumption,
         Shell(js, size, bytes)!IInv, NEW j \in js,
         Shell(js, size, bytes)!TimesOut(j) \/ Shell(js, size, bytes)!ForegroundGraceEnds(j)
  PROVE  Shell(js, size, bytes)!IInv'
<1> DEFINE g == "grace"
           f == "finalise"
<1>1. g \in CallSteps /\ g = "grace" /\ f \in CallSteps /\ f = "finalise"
  BY DEF CallSteps
<1>2. ASSUME Shell(js, size, bytes)!TimesOut(j) PROVE Shell(js, size, bytes)!IInv'
  <2>1. /\ job' = [Shell(js, size, bytes)!Signalled(j, "TERM") EXCEPT ![j].call = g]
        /\ job[j].call \in {"feed", "wait", "grace"}
        /\ job[j].proc # "spawning" /\ UNCHANGED <<output, seen, kill, stop, told>>
    BY <1>2 DEF Shell!TimesOut, Shell!Foreground
  <2> HIDE DEF g
  <2>2. QED BY <1>1, <2>1, CallSignals
<1>3. ASSUME Shell(js, size, bytes)!ForegroundGraceEnds(j) PROVE Shell(js, size, bytes)!IInv'
  <2>1. /\ job' = [Shell(js, size, bytes)!Signalled(j, "KILL") EXCEPT ![j].call = f]
        /\ job[j].call \in {"feed", "wait", "grace"}
        /\ job[j].proc # "spawning" /\ UNCHANGED <<output, seen, kill, stop, told>>
    BY <1>3 DEF Shell!ForegroundGraceEnds, Shell!Foreground
  <2> HIDE DEF f
  <2>2. QED BY <1>1, <2>1, CallSignals
<1>4. QED BY <1>2, <1>3

\* A foreground call is cancelled: its process is killed, or the call gives up the wait.
LEMMA StepCancelCall ==
  ASSUME NEW js, NEW size, NEW bytes, Shell(js, size, bytes)!BoundsAssumption,
         Shell(js, size, bytes)!IInv, NEW j \in js, Shell(js, size, bytes)!CancelCall(j)
  PROVE  Shell(js, size, bytes)!IInv'
<1> DEFINE f == "finalise"
           r == job[j]
           c == "returned"
           x == [r EXCEPT !.call = c]
<1>1. f \in CallSteps /\ f = "finalise" /\ c \in CallSteps /\ c = "returned"
  BY DEF CallSteps
<1>2. ASSUME job[j].call # "finalise" PROVE Shell(js, size, bytes)!IInv'
  <2>1. /\ job' = [Shell(js, size, bytes)!Signalled(j, "KILL") EXCEPT ![j].call = f]
        /\ job[j].call \in {"feed", "wait", "grace"}
        /\ job[j].proc # "spawning" /\ UNCHANGED <<output, seen, kill, stop, told>>
    BY <1>2 DEF Shell!CancelCall, Shell!Foreground
  <2> HIDE DEF f
  <2>2. QED BY <1>1, <2>1, CallSignals
<1>3. ASSUME r.call = "finalise" PROVE Shell(js, size, bytes)!IInv'
  <2>1. /\ r \in Shell(js, size, bytes)!JobType
        /\ Shell(js, size, bytes)!JobKnown(r, output[j], told[j]) /\ told[j] \in SUBSET (0..bytes)
        /\ told' = [told EXCEPT ![j] = told[j]] /\ job' = [job EXCEPT ![j] = x]
        /\ UNCHANGED <<output, seen, kill, stop, told>>
    BY <1>3, JobFacts DEF Shell!CancelCall, Shell!Set
  <2> HIDE DEF r, c
  <2>2. /\ x \in Shell(js, size, bytes)!JobType /\ x.owner = r.owner /\ x.proc = r.proc
        /\ x.pipe = r.pipe
        /\ x.drain = r.drain /\ x.final = r.final /\ x.known = r.known /\ x.call = c
    BY <1>1, <2>1 DEF Shell!JobType, CallSteps
  <2> HIDE DEF x
  <2>3. Shell(js, size, bytes)!JobKnown(x, output[j], told[j])
            /\ Shell(js, size, bytes)!GoesOn(r, x)
    BY <1>1, <1>3, <2>1, <2>2 DEF Shell!JobKnown, Shell!GoesOn, Shell!Background
  <2>4. QED BY <2>1, <2>2, <2>3, JobSteps DEF r
<1>4. QED BY <1>2, <1>3

\* One stream goes on, and what its reader saw.
LEMMA StreamSteps ==
  ASSUME NEW js, NEW size, NEW bytes, Shell(js, size, bytes)!BoundsAssumption,
         Shell(js, size, bytes)!IInv, NEW j \in js, NEW o \in Shell(js, size, bytes)!StreamType,
         NEW s \in Shell(js, size, bytes)!SeenType,
         output' = [output EXCEPT ![j] = o], seen' = [seen EXCEPT ![j] = s],
         UNCHANGED <<job, kill, stop, told>>,
         o.total <= o.written, o.dropped <= o.total, o.cursor <= o.total,
           o.total - o.dropped <= size,
         o.total = output[j].total \/ ~job[j].final, Shell(js, size, bytes)!ReadKnown(o, s)
  PROVE  Shell(js, size, bytes)!IInv'
<1>1. output \in [js -> Shell(js, size, bytes)!StreamType]
          /\ seen \in [js -> Shell(js, size, bytes)!SeenType]
  BY DEF Shell!IInv, Shell!TypeOK
<1>2. /\ output' \in [js -> Shell(js, size, bytes)!StreamType] /\ output'[j] = o
      /\ seen' \in [js -> Shell(js, size, bytes)!SeenType] /\ seen'[j] = s
      /\ \A u \in js : u # j => output'[u] = output[u] /\ seen'[u] = seen[u]
  BY <1>1
<1>3. Shell(js, size, bytes)!TypeOK'
  <2>1. ASSUME NEW u \in js
        PROVE  /\ output'[u].total <= output'[u].written
               /\ output'[u].dropped <= output'[u].total
               /\ output'[u].cursor <= output'[u].total
               /\ output'[u].total - output'[u].dropped <= size
    <3>1. CASE u = j
      BY <1>2, <3>1
    <3>2. CASE u # j
      BY <1>2, <3>2 DEF Shell!IInv, Shell!TypeOK
    <3>3. QED BY <3>1, <3>2
  <2>2. QED BY <1>2, <2>1 DEF Shell!IInv, Shell!TypeOK
<1>4. ASSUME NEW u \in js
      PROVE  Shell(js, size, bytes)!JobKnown(job[u], output[u], told[u])'
                 /\ Shell(js, size, bytes)!ReadKnown(output[u], seen[u])'
  <2>1. Shell(js, size, bytes)!JobKnown(job[u], output[u], told[u])
            /\ Shell(js, size, bytes)!ReadKnown(output[u], seen[u])
    BY DEF Shell!IInv
  <2>2. CASE u # j
    BY <1>2, <2>1, <2>2
  <2>3. CASE u = j
    <3>1. Shell(js, size, bytes)!JobKnown(job[j], o, told[j])
      BY <2>1, <2>3 DEF Shell!JobKnown
    <3>2. QED BY <1>2, <2>3, <3>1
  <2>4. QED BY <2>2, <2>3
<1>5. (\A k \in Kills : Shell(js, size, bytes)!KillKnown(k)') /\ Shell(js, size, bytes)!StopKnown'
  <2>1. \A u \in js : Shell(js, size, bytes)!GoesOn(job[u], job'[u])
    BY DEF Shell!GoesOn
  <2>2. QED BY <2>1, KillsStay, StopStays
<1>6. QED BY <1>3, <1>4, <1>5 DEF Shell!IInv

\* What is known of a job's stream and of what was read of it.
LEMMA StreamFacts ==
  ASSUME NEW js, NEW size, NEW bytes, Shell(js, size, bytes)!BoundsAssumption,
         Shell(js, size, bytes)!IInv, NEW j \in js
  PROVE  /\ output[j] \in Shell(js, size, bytes)!StreamType
         /\ seen[j] \in Shell(js, size, bytes)!SeenType
         /\ Shell(js, size, bytes)!ReadKnown(output[j], seen[j])
         /\ output[j].total <= output[j].written /\ output[j].dropped <= output[j].total
         /\ output[j].cursor <= output[j].total /\ output[j].total - output[j].dropped <= size
         /\ seen = [seen EXCEPT ![j] = seen[j]]
         /\ output[j].written \in 0..bytes /\ output[j].total \in 0..bytes
         /\ output[j].dropped \in 0..bytes /\ output[j].cursor \in 0..bytes
         /\ bytes \in Nat /\ size \in Nat
  BY DEF Shell!IInv, Shell!TypeOK, Shell!StreamType, Shell!BoundsAssumption

\* The process writes a byte.
LEMMA StepWrite ==
  ASSUME NEW js, NEW size, NEW bytes, Shell(js, size, bytes)!BoundsAssumption,
         Shell(js, size, bytes)!IInv, NEW j \in js, Shell(js, size, bytes)!Write(j)
  PROVE  Shell(js, size, bytes)!IInv'
<1> DEFINE q == output[j]
           w == q.written + 1
           o == [q EXCEPT !.written = w]
<1>1. /\ q \in Shell(js, size, bytes)!StreamType
      /\ Shell(js, size, bytes)!ReadKnown(q, seen[j])
      /\ seen[j] \in Shell(js, size, bytes)!SeenType
      /\ q.total <= q.written /\ q.dropped <= q.total /\ q.cursor <= q.total
      /\ q.total - q.dropped <= size /\ seen' = [seen EXCEPT ![j] = seen[j]]
      /\ q.written < bytes /\ output' = [output EXCEPT ![j] = o]
      /\ UNCHANGED <<job, kill, stop, told>>
  BY StreamFacts DEF Shell!Write
<1>2. w \in 0..bytes /\ q.total <= w
  BY <1>1, StreamFacts
<1> HIDE DEF q, w
<1>3. /\ o \in Shell(js, size, bytes)!StreamType /\ o.written = w /\ o.total = q.total
      /\ o.dropped = q.dropped
      /\ o.cursor = q.cursor
  BY <1>1, <1>2 DEF Shell!StreamType
<1> HIDE DEF o
<1>4. Shell(js, size, bytes)!ReadKnown(o, seen[j])
  BY <1>1, <1>3 DEF Shell!ReadKnown
<1>5. QED BY <1>1, <1>2, <1>3, <1>4, StreamSteps DEF q

\* A drain that reads has not been finalised: its total may grow.
LEMMA StepDrain ==
  ASSUME NEW js, NEW size, NEW bytes, Shell(js, size, bytes)!BoundsAssumption,
         Shell(js, size, bytes)!IInv, NEW j \in js, Shell(js, size, bytes)!Drain(j)
  PROVE  Shell(js, size, bytes)!IInv'
<1> DEFINE q == output[j]
<1>1. PICK t \in (q.total + 1)..q.written :
         output' = [output EXCEPT ![j].total = t, ![j].dropped =
                    Shell(js, size, bytes)!AtLeast(@, t - size)]
  BY DEF Shell!Drain
<1> DEFINE d == Shell(js, size, bytes)!AtLeast(q.dropped, t - size)
           o == [q EXCEPT !.total = t, !.dropped = d]
<1>2. /\ q \in Shell(js, size, bytes)!StreamType
      /\ Shell(js, size, bytes)!ReadKnown(q, seen[j])
      /\ seen[j] \in Shell(js, size, bytes)!SeenType
      /\ q.total <= q.written /\ q.dropped <= q.total /\ q.cursor <= q.total
      /\ seen' = [seen EXCEPT ![j] = seen[j]] /\ output' = [output EXCEPT ![j] = o]
      /\ UNCHANGED <<job, kill, stop, told>> /\ ~job[j].final
  BY <1>1, StreamFacts, JobFacts, ZenonT(90) DEF Shell!Drain, Shell!JobKnown
<1>3. /\ t \in 0..bytes /\ d \in 0..bytes /\ d <= t /\ t <= q.written /\ q.cursor <= t
      /\ t - d <= size /\ q.dropped <= d
  BY <1>1, StreamFacts DEF Shell!AtLeast
<1>4. /\ q.dropped \in Int /\ q.cursor \in Int /\ q.cursor \in 0..bytes
  BY StreamFacts
<1> HIDE DEF q, d
<1>5. /\ o \in Shell(js, size, bytes)!StreamType /\ o.written = q.written /\ o.total = t
      /\ o.dropped = d /\ o.cursor = q.cursor
  BY <1>2, <1>3 DEF Shell!StreamType
<1> HIDE DEF o
<1>6. Shell(js, size, bytes)!ReadKnown(o, seen[j])
  <2>1. seen[j].again = {} /\ seen[j].given \subseteq 1..o.cursor
    BY <1>2, <1>5 DEF Shell!ReadKnown
  <2>2. ASSUME NEW b \in 1..o.cursor
        PROVE  b \in seen[j].given \cup seen[j].refused \/ b <= o.dropped
    BY <1>2, <1>3, <1>4, <1>5, <2>2 DEF Shell!ReadKnown
  <2>3. QED BY <2>1, <2>2 DEF Shell!ReadKnown
<1>7. QED BY <1>2, <1>3, <1>5, <1>6, StreamSteps DEF q

\* What is beyond the cursor was given to nobody, and what is below the slice was dropped.
LEMMA StepOutputSinceLast ==
  ASSUME NEW js, NEW size, NEW bytes, Shell(js, size, bytes)!BoundsAssumption,
         Shell(js, size, bytes)!IInv, NEW a \in Principals, NEW j \in js,
         NEW filter \in {"valid", "invalid"}, Shell(js, size, bytes)!OutputSinceLast(a, j, filter)
  PROVE  Shell(js, size, bytes)!IInv'
<1> DEFINE q == output[j]
           s == seen[j]
           sl == Shell(js, size, bytes)!Slice(j, q.cursor)
           o == [q EXCEPT !.cursor = q.total]
           given == IF filter = "invalid" THEN s.given ELSE s.given \cup sl
           again == IF filter = "invalid" THEN s.again ELSE s.again \cup (s.given \cap sl)
           refused == IF filter = "invalid" THEN s.refused \cup sl ELSE s.refused
           z == [given |-> given, again |-> again, refused |-> refused]
<1>1. /\ q \in Shell(js, size, bytes)!StreamType /\ Shell(js, size, bytes)!ReadKnown(q, s)
      /\ s \in Shell(js, size, bytes)!SeenType
      /\ q.total <= q.written /\ q.dropped <= q.total /\ q.cursor <= q.total
      /\ q.total - q.dropped <= size /\ output' = [output EXCEPT ![j] = o]
      /\ UNCHANGED <<job, kill, stop, told>>
  BY StreamFacts DEF Shell!OutputSinceLast
<1>2. seen' = [seen EXCEPT ![j] = z]
  <2>1. s = [given |-> s.given, again |-> s.again, refused |-> s.refused]
    BY <1>1 DEF Shell!SeenType
  <2>2. CASE filter = "invalid"
    <3>1. [s EXCEPT !.refused = refused] = z
      BY <2>1, <2>2
    <3>2. seen' = [seen EXCEPT ![j] = [s EXCEPT !.refused = refused]]
      BY <2>2 DEF Shell!OutputSinceLast
    <3>3. QED BY <3>1, <3>2
  <2>3. CASE filter # "invalid"
    <3>1. seen' = [seen EXCEPT ![j] = [s EXCEPT !.given = given, !.again = again]]
      BY <2>3 DEF Shell!OutputSinceLast
    <3>2. refused = s.refused
      BY <2>3
    <3> HIDE DEF s, given, again, refused
    <3>3. [s EXCEPT !.given = given, !.again = again] = z
      <4> DEFINE s1 == [s EXCEPT !.given = given]
      <4>1. s1 = [given |-> given, again |-> s.again, refused |-> s.refused]
        BY <2>1
      <4> HIDE DEF s1
      <4>2. [s1 EXCEPT !.again = again] = z
        BY <3>2, <4>1
      <4>3. QED BY <4>2 DEF s1
    <3>4. QED BY <3>1, <3>3
  <2>4. QED BY <2>2, <2>3
<1>3. /\ q.total \in 0..bytes /\ q.dropped \in 0..bytes /\ q.cursor \in 0..bytes
      /\ bytes \in Nat
  BY StreamFacts
<1>4. \A b \in Int : b \in sl <=> b > q.cursor /\ b > q.dropped /\ b <= q.total
  BY <1>3 DEF Shell!Slice, Shell!AtLeast
<1>5. sl \in SUBSET (1..bytes)
  BY <1>3 DEF Shell!Slice, Shell!AtLeast
<1> HIDE DEF q, s, sl
<1>6. /\ o \in Shell(js, size, bytes)!StreamType /\ o.written = q.written /\ o.total = q.total
      /\ o.dropped = q.dropped
      /\ o.cursor = q.total
  BY <1>1, <1>3 DEF Shell!StreamType
<1> HIDE DEF o
<1>7. /\ given \in SUBSET (1..bytes) /\ again \in SUBSET (1..bytes)
      /\ refused \in SUBSET (1..bytes)
  BY <1>1, <1>5 DEF Shell!SeenType
<1>8. given \cup refused = s.given \cup s.refused \cup sl
  OBVIOUS
<1>9. again = {}
  BY <1>1, <1>3, <1>4 DEF Shell!ReadKnown
<1>10. given \subseteq 1..o.cursor
  <2>1. given \subseteq s.given \cup sl /\ s.given \subseteq 1..q.cursor
    BY <1>1 DEF Shell!ReadKnown
  <2>2. q.cursor \in Nat /\ q.total \in Nat /\ q.cursor <= q.total /\ o.cursor = q.total
    BY <1>1, <1>3, <1>6
  <2>3. ASSUME NEW b \in s.given PROVE b \in 1..o.cursor
    BY <2>1, <2>2
  <2>4. ASSUME NEW b \in sl PROVE b \in 1..o.cursor
    <3>1. b \in Int /\ b > q.cursor /\ b <= q.total
      BY <1>4, <1>5
    <3>2. QED BY <2>2, <3>1
  <2>5. QED BY <2>1, <2>3, <2>4
<1> HIDE DEF given, again, refused
<1>11. z \in Shell(js, size, bytes)!SeenType /\ z.given = given /\ z.again = again
           /\ z.refused = refused
  BY <1>7 DEF Shell!SeenType
<1> HIDE DEF z
<1>12. Shell(js, size, bytes)!ReadKnown(o, z)
  <2>1. ASSUME NEW b \in 1..o.cursor PROVE b \in given \cup refused \/ b <= o.dropped
    BY <1>1, <1>3, <1>4, <1>6, <1>8, <2>1 DEF Shell!ReadKnown
  <2>2. QED BY <1>9, <1>10, <1>11, <2>1 DEF Shell!ReadKnown
<1>13. /\ o.total <= o.written /\ o.dropped <= o.total /\ o.cursor <= o.total
       /\ o.total - o.dropped <= size
  BY <1>1, <1>3, <1>6
<1>14. o.total = output[j].total
  BY <1>6 DEF q
<1>15. QED BY <1>1, <1>2, <1>6, <1>11, <1>12, <1>13, <1>14, StreamSteps

\* What a release or a close finds was started in the background.
LEMMA StepStopBegins ==
  ASSUME NEW js, NEW size, NEW bytes, Shell(js, size, bytes)!BoundsAssumption,
         Shell(js, size, bytes)!IInv, NEW w \in Principals \cup {Shell(js, size, bytes)!Close},
         Shell(js, size, bytes)!Stop(w)
  PROVE  Shell(js, size, bytes)!IInv'
<1> DEFINE n == Shell(js, size, bytes)!InScope(w)
           over == FALSE
<1>1. /\ stop' = [whom |-> w, found |-> n, left |-> n, at |-> nobody, done |-> over]
      /\ UNCHANGED <<job, output, seen, kill, told>>
  BY DEF Shell!Stop
<1>2. over \in BOOLEAN /\ ~over /\ n \subseteq js /\ \A j \in n : job[j].known
  BY DEF Shell!InScope
<1> HIDE DEF n, over
<1>3. /\ stop' \in [whom : Principals \cup {nobody, Shell(js, size, bytes)!Close},
                    found : SUBSET js, left : SUBSET js,
                   at : js \cup {nobody}, done : BOOLEAN]
      /\ stop'.found = n /\ stop'.left = n /\ stop'.at = nobody /\ ~stop'.done
  BY <1>1, <1>2
<1>4. Shell(js, size, bytes)!TypeOK'
  BY <1>1, <1>3 DEF Shell!IInv, Shell!TypeOK
<1>5. \A j \in n : Shell(js, size, bytes)!Background(job[j])
  BY <1>2, JobFacts DEF Shell!JobKnown, Shell!Background
<1>6. Shell(js, size, bytes)!StopKnown'
  BY <1>1, <1>2, <1>3, <1>5 DEF Shell!StopKnown, Shell!Background
<1>7. \A k \in Kills : Shell(js, size, bytes)!KillKnown(k)'
  BY <1>1 DEF Shell!IInv, Shell!KillKnown, Shell!Background
<1>8. QED BY <1>1, <1>4, <1>6, <1>7 DEF Shell!IInv

\* A release or a close saw one of its jobs end.
LEMMA StepStoppedAwaits ==
  ASSUME NEW js, NEW size, NEW bytes, Shell(js, size, bytes)!BoundsAssumption,
         Shell(js, size, bytes)!IInv, Shell(js, size, bytes)!StopAwaits
  PROVE  Shell(js, size, bytes)!IInv'
<1> DEFINE l == stop.left \ {stop.at}
<1>1. /\ stop \in [whom : Principals \cup {nobody, Shell(js, size, bytes)!Close},
                   found : SUBSET js, left : SUBSET js,
                  at : js \cup {nobody}, done : BOOLEAN]
      /\ stop.left \subseteq stop.found /\ stop.at \in stop.left /\ stop.at \in js
      /\ job[stop.at].final
      /\ stop' = [stop EXCEPT !.at = nobody, !.left = l]
      /\ UNCHANGED <<job, output, seen, kill, told>>
  BY DEF Shell!IInv, Shell!TypeOK, Shell!StopAwaits, Shell!ReaderIsOver
<1>2. l \subseteq js /\ l \subseteq stop.found /\ (\A j \in stop.found : j \notin l =>
                                                   j \notin stop.left \/ j = stop.at)
      /\ (stop.left = {} => l = {})
  BY <1>1
<1> HIDE DEF l
<1>3. /\ stop' \in [whom : Principals \cup {nobody, Shell(js, size, bytes)!Close},
                    found : SUBSET js, left : SUBSET js,
                   at : js \cup {nobody}, done : BOOLEAN]
      /\ stop'.found = stop.found /\ stop'.left = l /\ stop'.at = nobody /\ stop'.done = stop.done
  BY <1>1, <1>2
<1>4. Shell(js, size, bytes)!TypeOK'
  BY <1>1, <1>2, <1>3 DEF Shell!IInv, Shell!TypeOK
<1>5. Shell(js, size, bytes)!StopKnown'
  BY <1>1, <1>2, <1>3 DEF Shell!IInv, Shell!StopKnown, Shell!Background
<1>6. \A k \in Kills : Shell(js, size, bytes)!KillKnown(k)'
  BY <1>1 DEF Shell!IInv, Shell!KillKnown, Shell!Background
<1>7. QED BY <1>1, <1>4, <1>5, <1>6 DEF Shell!IInv

\* What a release forgets goes on as a background job.
LEMMA StepStoppedReturns ==
  ASSUME NEW js, NEW size, NEW bytes, Shell(js, size, bytes)!BoundsAssumption,
         Shell(js, size, bytes)!IInv, Shell(js, size, bytes)!StopReturns
  PROVE  Shell(js, size, bytes)!IInv'
<1> DEFINE over == TRUE
           off == FALSE
<1>1. /\ stop \in [whom : Principals \cup {nobody, Shell(js, size, bytes)!Close},
                   found : SUBSET js, left : SUBSET js,
                  at : js \cup {nobody}, done : BOOLEAN]
      /\ stop' = [stop EXCEPT !.done = over] /\ stop.left = {}
      /\ job' = [j \in js |-> IF stop.whom # Shell(js, size, bytes)!Close /\ j \in stop.found
                                THEN [job[j] EXCEPT !.known = off] ELSE job[j]]
      /\ UNCHANGED <<output, seen, kill, told>>
  BY DEF Shell!IInv, Shell!TypeOK, Shell!StopReturns
<1>2. over \in BOOLEAN /\ over = TRUE /\ off \in BOOLEAN /\ off = FALSE
  OBVIOUS
<1> HIDE DEF over, off
<1>3. /\ stop' \in [whom : Principals \cup {nobody, Shell(js, size, bytes)!Close},
                    found : SUBSET js, left : SUBSET js,
                   at : js \cup {nobody}, done : BOOLEAN]
      /\ stop'.found = stop.found /\ stop'.left = stop.left /\ stop'.at = stop.at /\ stop'.done
  BY <1>1, <1>2
<1>4. ASSUME NEW j \in js
      PROVE  /\ job'[j] \in Shell(js, size, bytes)!JobType
             /\ Shell(js, size, bytes)!JobKnown(job'[j], output[j], told[j])
             /\ Shell(js, size, bytes)!GoesOn(job[j], job'[j])
  <2> DEFINE r == job[j]
             x == [r EXCEPT !.known = off]
  <2>1. r \in Shell(js, size, bytes)!JobType
            /\ Shell(js, size, bytes)!JobKnown(r, output[j], told[j])
    BY JobFacts
  <2>2. job'[j] = x \/ job'[j] = r
    BY <1>1
  <2> HIDE DEF r
  <2>3. /\ x \in Shell(js, size, bytes)!JobType /\ x.owner = r.owner /\ x.proc = r.proc
        /\ x.pipe = r.pipe
        /\ x.drain = r.drain /\ x.final = r.final /\ x.known = off /\ x.call = r.call
    BY <1>2, <2>1 DEF Shell!JobType
  <2> HIDE DEF x
  <2>4. Shell(js, size, bytes)!JobKnown(x, output[j], told[j])
            /\ Shell(js, size, bytes)!GoesOn(r, x) /\ Shell(js, size, bytes)!GoesOn(r, r)
    BY <1>2, <2>1, <2>3 DEF Shell!JobKnown, Shell!GoesOn, Shell!Background
  <2>5. QED BY <2>1, <2>2, <2>3, <2>4 DEF r
<1>5. job' \in [js -> Shell(js, size, bytes)!JobType]
  BY <1>1, <1>4
<1>6. Shell(js, size, bytes)!TypeOK'
  BY <1>1, <1>3, <1>5 DEF Shell!IInv, Shell!TypeOK
<1>7. \A k \in Kills : Shell(js, size, bytes)!KillKnown(k)'
  BY <1>1, <1>4, KillsStay
<1>8. Shell(js, size, bytes)!StopKnown'
  <2>1. Shell(js, size, bytes)!StopKnown /\ stop.found \subseteq js
    BY <1>1 DEF Shell!IInv
  <2>2. QED BY <1>1, <1>3, <1>4, <2>1 DEF Shell!StopKnown, Shell!GoesOn
<1>9. \A j \in js : Shell(js, size, bytes)!JobKnown(job[j], output[j], told[j])'
          /\ Shell(js, size, bytes)!ReadKnown(output[j], seen[j])'
  BY <1>1, <1>4 DEF Shell!IInv
<1>10. QED BY <1>6, <1>7, <1>8, <1>9 DEF Shell!IInv

\* A step of another component keeps the invariant of the shell.
LEMMA ShellStays ==
  ASSUME NEW js, NEW size, NEW bytes, Shell(js, size, bytes)!IInv,
         UNCHANGED Shell(js, size, bytes)!vars
  PROVE  Shell(js, size, bytes)!IInv'
<1>1. UNCHANGED <<job, output, seen, kill, stop, told>>
  BY DEF Shell!vars
<1>2. Shell(js, size, bytes)!TypeOK'
  BY <1>1 DEF Shell!IInv, Shell!TypeOK
<1>3. \A j \in js : Shell(js, size, bytes)!JobKnown(job[j], output[j], told[j])'
          /\ Shell(js, size, bytes)!ReadKnown(output[j], seen[j])'
  BY <1>1 DEF Shell!IInv
<1>4. (\A k \in Kills : Shell(js, size, bytes)!KillKnown(k)') /\ Shell(js, size, bytes)!StopKnown'
  BY <1>1 DEF Shell!IInv, Shell!KillKnown, Shell!StopKnown, Shell!Background
<1>5. QED BY <1>2, <1>3, <1>4 DEF Shell!IInv

\* Every step of the shells keeps their invariant.
LEMMA ShellSteps ==
  ASSUME NEW js, NEW size, NEW bytes, Shell(js, size, bytes)!BoundsAssumption,
         Shell(js, size, bytes)!IInv, Shell(js, size, bytes)!Next
  PROVE  Shell(js, size, bytes)!IInv'
<1>1. ASSUME NEW a \in Principals, NEW j \in js, Shell(js, size, bytes)!Exec(j, a)
      PROVE  Shell(js, size, bytes)!IInv'
  BY <1>1, StepExec
<1>2. ASSUME NEW a \in Principals, NEW j \in js, NEW feed \in BOOLEAN,
               Shell(js, size, bytes)!ExecForeground(j, a, feed)
      PROVE Shell(js, size, bytes)!IInv'
  BY <1>2, StepExecForeground
<1>3. ASSUME NEW a \in Principals, NEW j \in js, NEW f \in {"valid", "invalid"},
             Shell(js, size, bytes)!OutputSinceLast(a, j, f)
      PROVE Shell(js, size, bytes)!IInv'
  BY <1>3, StepOutputSinceLast
<1>4. ASSUME NEW a \in Principals, NEW j \in js, NEW k \in Kills, NEW s \in {"TERM", "KILL"},
             Shell(js, size, bytes)!Kill(k, a, j, s)
      PROVE Shell(js, size, bytes)!IInv'
  BY <1>4, StepKill
<1>5. Shell(js, size, bytes)!Callers => Shell(js, size, bytes)!IInv'
  BY <1>1, <1>2, <1>3, <1>4 DEF Shell!Callers
<1>6. ASSUME NEW j \in js, Shell(js, size, bytes)!SpawnFails(j)
                 \/ Shell(js, size, bytes)!Started(j) \/ Shell(js, size, bytes)!Write(j)
                 \/ Shell(js, size, bytes)!Exit(j) \/ Shell(js, size, bytes)!ClosePipe(j)
      PROVE Shell(js, size, bytes)!IInv'
  BY <1>6, StepSpawnFails, StepStarted, StepWrite, StepProcessExits, StepClosePipe
<1>7. ASSUME NEW j \in js, Shell(js, size, bytes)!Drain(j) \/ Shell(js, size, bytes)!DrainEnds(j)
                 \/ Shell(js, size, bytes)!Finalise(j) \/ Shell(js, size, bytes)!StopJob(j)
      PROVE Shell(js, size, bytes)!IInv'
  BY <1>7, StepDrain, StepDrainEnds, StepFinalise, StepStopsJob
<1>8. ASSUME NEW j \in js, \/ Shell(js, size, bytes)!StartedForeground(j)
                 \/ Shell(js, size, bytes)!Fed(j) \/ Shell(js, size, bytes)!TimesOut(j)
                 \/ Shell(js, size, bytes)!ForegroundGraceEnds(j)
                             \/ Shell(js, size, bytes)!Ends(j)
                             \/ Shell(js, size, bytes)!CancelCall(j)
                             \/ Shell(js, size, bytes)!ForegroundReturns(j)
      PROVE Shell(js, size, bytes)!IInv'
  BY <1>8, StepStartedForeground, StepFed, StepTimesOut, StepEnds, StepCancelCall,
     StepForegroundReturns
<1>9. ASSUME NEW k \in Kills, Shell(js, size, bytes)!GraceEnds(k)
                 \/ Shell(js, size, bytes)!KillReturns(k)
      PROVE  Shell(js, size, bytes)!IInv'
  BY <1>9, StepGraceEnds, StepKillReturns
<1>10. ASSUME NEW w \in Principals \cup {Shell(js, size, bytes)!Close},
                Shell(js, size, bytes)!Stop(w)
       PROVE  Shell(js, size, bytes)!IInv'
  BY <1>10, StepStopBegins
<1>11. Shell(js, size, bytes)!StopAwaits \/ Shell(js, size, bytes)!StopReturns =>
         Shell(js, size, bytes)!IInv'
  BY StepStoppedAwaits, StepStoppedReturns
<1>12. Shell(js, size, bytes)!Idle => Shell(js, size, bytes)!IInv'
  BY ShellStays DEF Shell!Idle
<1>13. QED BY <1>5, <1>6, <1>7, <1>8, <1>9, <1>10, <1>11, <1>12 DEF Shell!Next

\* What the invariant means: the properties of the shells.
LEMMA ShellMeans ==
  ASSUME NEW js, NEW size, NEW bytes, Shell(js, size, bytes)!BoundsAssumption,
         Shell(js, size, bytes)!IInv
  PROVE  /\ Shell(js, size, bytes)!TypeOK /\ Shell(js, size, bytes)!ReadWhole
         /\ Shell(js, size, bytes)!AnnouncedOnceAndFinal /\ Shell(js, size, bytes)!KillIsFinal
         /\ Shell(js, size, bytes)!StoppedJobsAreOver
         /\ Shell(js, size, bytes)!ForegroundLeavesNothing
<1>1. Shell(js, size, bytes)!TypeOK
  BY DEF Shell!IInv
<1>2. Shell(js, size, bytes)!ReadWhole
  BY DEF Shell!IInv, Shell!ReadKnown, Shell!ReadWhole
<1>3. Shell(js, size, bytes)!AnnouncedOnceAndFinal
  BY DEF Shell!IInv, Shell!JobKnown, Shell!AnnouncedOnceAndFinal
<1>4. Shell(js, size, bytes)!KillIsFinal
  <2>1. ASSUME NEW k \in Kills, kill[k].done
        PROVE  ~Shell(js, size, bytes)!Running(kill[k].job) /\ job[kill[k].job].final
    <3>1. /\ kill[k].job \in js /\ kill[k].job # nobody
          /\ Shell(js, size, bytes)!Background(job[kill[k].job])
          /\ job[kill[k].job].final
      BY <2>1 DEF Shell!IInv, Shell!TypeOK, Shell!KillKnown
    <3>2. job[kill[k].job].proc = "exited"
      BY <3>1, JobFacts DEF Shell!JobKnown, Shell!Background
    <3>3. QED BY <3>1, <3>2 DEF Shell!Running
  <2>2. QED BY <2>1 DEF Shell!KillIsFinal
<1>5. Shell(js, size, bytes)!StoppedJobsAreOver
  <2>1. ASSUME stop.done, NEW j \in stop.found
        PROVE  ~Shell(js, size, bytes)!Running(j) /\ told[j] # {}
    <3>1. j \in js /\ Shell(js, size, bytes)!Background(job[j]) /\ job[j].final
      BY <2>1 DEF Shell!IInv, Shell!TypeOK, Shell!StopKnown
    <3>2. job[j].proc = "exited" /\ told[j] # {}
      BY <3>1, JobFacts DEF Shell!JobKnown, Shell!Background
    <3>3. QED BY <3>2 DEF Shell!Running
  <2>2. QED BY <2>1 DEF Shell!StoppedJobsAreOver
<1>6. Shell(js, size, bytes)!ForegroundLeavesNothing
  BY DEF Shell!IInv, Shell!JobKnown, Shell!ForegroundLeavesNothing
<1>7. QED BY <1>1, <1>2, <1>3, <1>4, <1>5, <1>6

-----------------------------------------------------------------------------
(* The code executor                                                        *)

\* No code was run and no container made.
LEMMA CodeStarted == ASSUME Code!BackendAssumption PROVE Code!Init => Code!IInv
<1> SUFFICES ASSUME Code!Init PROVE Code!IInv
  OBVIOUS
<1> USE Code!BackendAssumption DEF Code!Init, Code!BackendAssumption, Code!Ended
<1>1. Code!TypeOK
  BY DEF Code!TypeOK
<1>2. Code!ContainersAreOwned /\ Code!ExecKnown
  BY DEF Code!ContainersAreOwned, Code!ExecKnown
<1>3. \A r \in Runs : Code!RunKnown(r) /\ Code!KillKnown(r)
  BY DEF Code!RunKnown, Code!KillKnown
<1>4. QED BY <1>1, <1>2, <1>3 DEF Code!IInv

\* What a run is.
RunType == [pc : {"idle", "locking", "preparing", "spawning", "running", "term",
                             "termclient", "kill", "killclient"} \cup Code!Ended,
                       cid : Boxes \cup {nobody}, client : {"none", "up", "gone"},
                       code : {"none", "asked", "up", "gone"}, file : BOOLEAN]

\* A step of one run leaves the others as they are.
LEMMA OneRun ==
  ASSUME Code!TypeOK, NEW r \in Runs, NEW x \in RunType, run' = [run EXCEPT ![r] = x]
  PROVE  run' \in [Runs -> RunType] /\ run'[r] = x /\ \A q \in Runs : q # r => run'[q] = run[q]
  BY ZenonT(90) DEF Code!TypeOK, RunType

\* The changes of a run give a run.
LEMMA RunTyped ==
  ASSUME NEW x \in RunType
  PROVE  /\ [x EXCEPT !.file = TRUE] \in RunType
         /\ [x EXCEPT !.code = "gone", !.file = FALSE] \in RunType
         /\ \A k \in Boxes \cup {nobody} : /\ [x EXCEPT !.pc = "preparing", !.cid = k] \in RunType
                                           /\ [x EXCEPT !.pc = "spawning", !.cid = k] \in RunType
         /\ [x EXCEPT !.pc = "failed"] \in RunType
         /\ [x EXCEPT !.pc = "termclient"] \in RunType
         /\ [x EXCEPT !.pc = "killclient"] \in RunType
  BY DEF RunType, Code!Ended

\* The signal ends the code it reaches, or TERM is ignored.
LEMMA Signalled ==
  ASSUME Code!TypeOK, NEW r \in Runs, NEW signal \in {"TERM", "KILL"},
         NEW s \in Code!Signal(r, signal)
  PROVE  /\ s \in RunType
         /\ s.pc = run[r].pc /\ s.cid = run[r].cid /\ s.client = run[r].client
         /\ \/ s.code = run[r].code /\ s.file = run[r].file
            \/ Code!Reached(r) /\ s.code = "gone" /\ s.file = FALSE
         /\ Code!Reached(r) /\ signal = "KILL" => s.code = "gone" /\ s.file = FALSE
<1>1. run[r] \in RunType
  BY DEF Code!TypeOK, RunType
<1>2. s = run[r] \/ (Code!Reached(r) /\ s = [run[r] EXCEPT !.code = "gone", !.file = FALSE])
  BY DEF Code!Signal
<1>3. Code!Reached(r) /\ signal = "KILL" => s = [run[r] EXCEPT !.code = "gone", !.file = FALSE]
  BY DEF Code!Signal
<1> DEFINE x == run[r]
<1>4. x \in RunType
  BY <1>1
<1> HIDE DEF x
<1>5. /\ [x EXCEPT !.code = "gone", !.file = FALSE] \in RunType
      /\ LET y == [x EXCEPT !.code = "gone", !.file = FALSE]
         IN  y.pc = x.pc /\ y.cid = x.cid /\ y.client = x.client /\ y.code = "gone"
             /\ y.file = FALSE
  BY <1>4, RunTyped DEF RunType
<1>6. QED BY <1>1, <1>2, <1>3, <1>5 DEF x

\* A run begins.
LEMMA CodeRun ==
  ASSUME Code!BackendAssumption, Code!IInv, NEW r \in Runs, Code!Run(r)
  PROVE  Code!IInv'
<1> USE Code!BackendAssumption DEF Code!Run, Code!BackendAssumption, Code!Ended, Code!Docker,
        Code!Go
<1>1. Code!TypeOK'
  BY DEF Code!IInv, Code!TypeOK, Code!RunKnown
<1>2. Code!ContainersAreOwned'
  BY DEF Code!IInv, Code!TypeOK, Code!ContainersAreOwned, Code!ExecKnown, Code!RunKnown
<1>3. Code!ExecKnown'
  BY DEF Code!IInv, Code!TypeOK, Code!ContainersAreOwned, Code!ExecKnown, Code!RunKnown
<1>4. ASSUME NEW q \in Runs PROVE Code!RunKnown(q)'
  BY DEF Code!IInv, Code!TypeOK, Code!ExecKnown, Code!RunKnown, Code!ContainersAreOwned
<1>5. ASSUME NEW q \in Runs PROVE Code!KillKnown(q)'
  BY DEF Code!IInv, Code!TypeOK, Code!ExecKnown, Code!RunKnown, Code!KillKnown
<1>6. QED BY <1>1, <1>2, <1>3, <1>4, <1>5 DEF Code!IInv

\* It holds the lock: it is refused, finds the container, or asks for one.
LEMMA CodePrepare ==
  ASSUME Code!BackendAssumption, Code!IInv, NEW r \in Runs, Code!Prepare(r)
  PROVE  Code!IInv'
<1> USE Code!BackendAssumption DEF Code!BackendAssumption, Code!Ended, Code!Docker, Code!Go
<1>0. run[r].pc = "locking" /\ exec.lock = nobody /\ felt' = felt
  BY DEF Code!Prepare
<1>1. CASE exec.closed /\ run' = [run EXCEPT ![r].pc = "failed"] /\ UNCHANGED <<exec, box>>
  <2>1. Code!TypeOK'
    BY <1>0, <1>1 DEF Code!IInv, Code!TypeOK, Code!RunKnown
  <2>2. Code!ContainersAreOwned'
    BY <1>0, <1>1 DEF Code!IInv, Code!TypeOK, Code!ContainersAreOwned, Code!ExecKnown,
       Code!RunKnown
  <2>3. Code!ExecKnown'
    BY <1>0, <1>1 DEF Code!IInv, Code!TypeOK, Code!ContainersAreOwned, Code!ExecKnown,
       Code!RunKnown
  <2>4. ASSUME NEW q \in Runs PROVE Code!RunKnown(q)'
    BY <1>0, <1>1 DEF Code!IInv, Code!TypeOK, Code!ExecKnown, Code!RunKnown,
       Code!ContainersAreOwned
  <2>5. ASSUME NEW q \in Runs PROVE Code!KillKnown(q)'
    BY <1>0, <1>1 DEF Code!IInv, Code!TypeOK, Code!ExecKnown, Code!RunKnown, Code!KillKnown
  <2>6. QED BY <2>1, <2>2, <2>3, <2>4, <2>5 DEF Code!IInv
<1>2. CASE /\ ~exec.closed /\ (~Code!Docker \/ exec.cid # nobody)
           /\ run' = [run EXCEPT ![r].pc = "spawning", ![r].cid = exec.cid]
           /\ UNCHANGED <<exec, box>>
  <2>1. Code!TypeOK'
    <3>1. run[r] \in RunType /\ exec.cid \in Boxes \cup {nobody} /\ Code!TypeOK
      BY ZenonT(90) DEF Code!IInv, Code!TypeOK, RunType
    <3>2. [run[r] EXCEPT !.pc = "spawning", !.cid = exec.cid] \in RunType
      BY <3>1, RunTyped
    <3>3. run' = [run EXCEPT ![r] = [run[r] EXCEPT !.pc = "spawning", !.cid = exec.cid]]
      BY <1>0, <1>2
    <3>4. run' \in [Runs -> RunType]
      BY <3>1, <3>2, <3>3, OneRun
    <3>5. QED BY <1>0, <1>2, <3>4 DEF Code!IInv, Code!TypeOK, RunType
  <2>2. Code!ContainersAreOwned'
    BY <1>0, <1>2 DEF Code!IInv, Code!TypeOK, Code!ContainersAreOwned, Code!ExecKnown,
       Code!RunKnown
  <2>3. Code!ExecKnown'
    BY <1>0, <1>2 DEF Code!IInv, Code!TypeOK, Code!ContainersAreOwned, Code!ExecKnown,
       Code!RunKnown
  <2>4. ASSUME NEW q \in Runs PROVE Code!RunKnown(q)'
    BY <1>0, <1>2 DEF Code!IInv, Code!TypeOK, Code!ExecKnown, Code!RunKnown,
       Code!ContainersAreOwned
  <2>5. ASSUME NEW q \in Runs PROVE Code!KillKnown(q)'
    BY <1>0, <1>2 DEF Code!IInv, Code!TypeOK, Code!ExecKnown, Code!RunKnown, Code!KillKnown
  <2>6. QED BY <2>1, <2>2, <2>3, <2>4, <2>5 DEF Code!IInv
<1>3. ASSUME ~exec.closed, Code!Docker, exec.cid = nobody, NEW k \in Boxes, box[k] = "absent",
             box' = [box EXCEPT ![k] = "starting"],
             run' = [run EXCEPT ![r].pc = "preparing", ![r].cid = k],
             exec' = [exec EXCEPT !.lock = r]
      PROVE  Code!IInv'
  <2>1. Code!TypeOK'
    <3>1. run[r] \in RunType /\ exec.cid \in Boxes \cup {nobody} /\ Code!TypeOK
      BY DEF Code!IInv, Code!TypeOK, RunType
    <3>2. [run[r] EXCEPT !.pc = "preparing", !.cid = k] \in RunType
      BY <3>1, RunTyped
    <3>3. run' = [run EXCEPT ![r] = [run[r] EXCEPT !.pc = "preparing", !.cid = k]]
      BY <1>0, <1>3
    <3>4. run' \in [Runs -> RunType]
      BY <3>1, <3>2, <3>3, OneRun
    <3>5. QED BY <1>0, <1>3, <3>4, ZenonT(90) DEF Code!IInv, Code!TypeOK, RunType
  <2>2. Code!ContainersAreOwned'
    BY <1>0, <1>3 DEF Code!IInv, Code!TypeOK, Code!ContainersAreOwned, Code!ExecKnown,
       Code!RunKnown
  <2>3. Code!ExecKnown'
    BY <1>0, <1>3 DEF Code!IInv, Code!TypeOK, Code!ContainersAreOwned, Code!ExecKnown,
       Code!RunKnown
  <2>4. ASSUME NEW q \in Runs PROVE Code!RunKnown(q)'
    BY <1>0, <1>3 DEF Code!IInv, Code!TypeOK, Code!ExecKnown, Code!RunKnown,
       Code!ContainersAreOwned
  <2>5. ASSUME NEW q \in Runs PROVE Code!KillKnown(q)'
    BY <1>0, <1>3 DEF Code!IInv, Code!TypeOK, Code!ExecKnown, Code!RunKnown, Code!KillKnown
  <2>6. QED BY <2>1, <2>2, <2>3, <2>4, <2>5 DEF Code!IInv
<1>4. QED BY <1>1, <1>2, <1>3 DEF Code!Prepare

\* The daemon made the container, or refused.
LEMMA CodePrepared ==
  ASSUME Code!BackendAssumption, Code!IInv, NEW r \in Runs, Code!Prepared(r)
  PROVE  Code!IInv'
<1> USE Code!BackendAssumption DEF Code!BackendAssumption, Code!Ended, Code!Docker, Code!Go
<1> DEFINE k == run[r].cid
<1>0. /\ Code!TypeOK /\ run[r].pc = "preparing" /\ k \in Boxes /\ exec.lock = r
      /\ exec.cid = nobody
      /\ ~exec.closed /\ Code!Docker /\ felt' = felt
      /\ run[r].code = "none" /\ ~run[r].file /\ r \notin felt.killed
  BY DEF Code!Prepared, Code!IInv, Code!ExecKnown, Code!RunKnown, Code!KillKnown
<1>1. CASE /\ box[k] = "up" /\ exec' = [exec EXCEPT !.lock = nobody, !.cid = k]
           /\ run' = [run EXCEPT ![r].pc = "spawning"] /\ UNCHANGED box
  <2>0. /\ run' \in [Runs -> RunType]
        /\ run'[r].pc = "spawning" /\ run'[r].cid = k /\ run'[r].code = "none"
        /\ run'[r].file = FALSE
        /\ \A q \in Runs : q # r => run'[q] = run[q]
        /\ exec' \in [closed : BOOLEAN, lock : Runs \cup {nobody, "close"},
                      cid : Boxes \cup {nobody},
                      step : {"open", "killing", "closed"},
                      kills : [Runs -> {"none", "code", "client", "done"}]]
        /\ exec'.closed = exec.closed /\ exec'.lock = nobody /\ exec'.cid = k
        /\ exec'.step = exec.step
    <3>1. /\ run' \in [Runs -> RunType]
          /\ run'[r].pc = "spawning" /\ run'[r].cid = k /\ run'[r].code = "none"
          /\ run'[r].file = FALSE
          /\ \A q \in Runs : q # r => run'[q] = run[q]
      BY <1>0, <1>1 DEF Code!TypeOK, RunType
    <3>2. /\ exec' \in [closed : BOOLEAN, lock : Runs \cup {nobody, "close"},
                        cid : Boxes \cup {nobody},
                        step : {"open", "killing", "closed"},
                        kills : [Runs -> {"none", "code", "client", "done"}]]
          /\ exec'.closed = exec.closed /\ exec'.lock = nobody /\ exec'.cid = k
          /\ exec'.step = exec.step
      BY <1>0, <1>1 DEF Code!TypeOK
    <3>3. QED BY <3>1, <3>2
  <2>1. Code!TypeOK'
    BY <1>0, <1>1, <2>0 DEF Code!TypeOK, RunType
  <2>2. Code!ContainersAreOwned'
    BY <1>0, <1>1, <2>0 DEF Code!IInv, Code!ContainersAreOwned
  <2>3. Code!ExecKnown'
    BY <1>0, <1>1, <2>0 DEF Code!IInv, Code!ExecKnown
  <2>4. ASSUME NEW q \in Runs PROVE Code!RunKnown(q)' /\ Code!KillKnown(q)'
    <3>1. CASE q = r
      BY <1>0, <1>1, <2>0, <3>1 DEF Code!RunKnown, Code!KillKnown
    <3>2. CASE q # r
      BY <1>0, <1>1, <2>0, <3>2 DEF Code!IInv, Code!ExecKnown, Code!RunKnown, Code!KillKnown
    <3>3. QED BY <3>1, <3>2
  <2>5. QED BY <2>1, <2>2, <2>3, <2>4 DEF Code!IInv
<1>2. CASE /\ box[k] = "starting" /\ exec' = [exec EXCEPT !.lock = nobody]
           /\ box' = [box EXCEPT ![k] = "gone"] /\ run' = [run EXCEPT ![r].pc = "failed"]
  <2>0. /\ run' \in [Runs -> RunType]
        /\ run'[r].pc = "failed" /\ run'[r].cid = k /\ run'[r].code = "none"
        /\ run'[r].file = FALSE
        /\ \A q \in Runs : q # r => run'[q] = run[q]
        /\ exec' \in [closed : BOOLEAN, lock : Runs \cup {nobody, "close"},
                      cid : Boxes \cup {nobody},
                      step : {"open", "killing", "closed"},
                      kills : [Runs -> {"none", "code", "client", "done"}]]
        /\ exec'.closed = exec.closed /\ exec'.lock = nobody /\ exec'.cid = nobody
        /\ exec'.step = exec.step
        /\ box' \in [Boxes -> {"absent", "starting", "up", "gone"}] /\ box'[k] = "gone"
        /\ \A j \in Boxes : j # k => box'[j] = box[j]
    BY <1>0, <1>2 DEF Code!TypeOK, RunType
  <2>1. Code!TypeOK'
    BY <1>0, <1>2, <2>0 DEF Code!TypeOK, RunType
  <2>2. Code!ContainersAreOwned'
    BY <1>0, <1>2, <2>0 DEF Code!IInv, Code!ContainersAreOwned
  <2>3. Code!ExecKnown'
    BY <1>0, <1>2, <2>0 DEF Code!IInv, Code!ExecKnown
  <2>4. ASSUME NEW q \in Runs PROVE Code!RunKnown(q)' /\ Code!KillKnown(q)'
    <3>1. CASE q = r
      BY <1>0, <1>2, <2>0, <3>1 DEF Code!RunKnown, Code!KillKnown
    <3>2. CASE q # r
      <4>1. Code!RunKnown(q) /\ Code!KillKnown(q) /\ Code!ExecKnown
        BY DEF Code!IInv
      <4>2. Code!KillKnown(q)'
        BY <1>0, <2>0, <3>2, <4>1 DEF Code!KillKnown
      <4>3. Code!RunKnown(q)'
        BY <1>0, <1>2, <2>0, <3>2, <4>1 DEF Code!RunKnown, Code!ExecKnown
      <4>4. QED BY <4>2, <4>3
    <3>3. QED BY <3>1, <3>2
  <2>5. QED BY <2>1, <2>2, <2>3, <2>4 DEF Code!IInv
<1>3. QED BY <1>1, <1>2 DEF Code!Prepared

\* A container is up.
LEMMA CodeBoxUp ==
  ASSUME Code!BackendAssumption, Code!IInv, NEW k \in Boxes, Code!BoxUp(k)
  PROVE  Code!IInv'
<1> USE Code!BackendAssumption DEF Code!BoxUp, Code!BackendAssumption, Code!Ended, Code!Docker,
        Code!Go
<1>1. Code!TypeOK'
  BY DEF Code!IInv, Code!TypeOK, Code!RunKnown
<1>2. Code!ContainersAreOwned'
  BY DEF Code!IInv, Code!TypeOK, Code!ContainersAreOwned, Code!ExecKnown, Code!RunKnown
<1>3. Code!ExecKnown'
  BY DEF Code!IInv, Code!TypeOK, Code!ContainersAreOwned, Code!ExecKnown, Code!RunKnown
<1>4. ASSUME NEW q \in Runs PROVE Code!RunKnown(q)'
  BY DEF Code!IInv, Code!TypeOK, Code!ExecKnown, Code!RunKnown, Code!ContainersAreOwned
<1>5. ASSUME NEW q \in Runs PROVE Code!KillKnown(q)'
  BY DEF Code!IInv, Code!TypeOK, Code!ExecKnown, Code!RunKnown, Code!KillKnown
<1>6. QED BY <1>1, <1>2, <1>3, <1>4, <1>5 DEF Code!IInv

\* The client of a run is created, or could not be.
LEMMA CodeSpawned ==
  ASSUME Code!BackendAssumption, Code!IInv, NEW r \in Runs, Code!Spawned(r)
  PROVE  Code!IInv'
<1> USE Code!BackendAssumption DEF Code!Spawned, Code!BackendAssumption, Code!Ended, Code!Docker,
        Code!Go
<1>1. Code!TypeOK'
  BY SMTT(60) DEF Code!IInv, Code!TypeOK, Code!RunKnown
<1>2. Code!ContainersAreOwned'
  BY DEF Code!IInv, Code!TypeOK, Code!ContainersAreOwned, Code!ExecKnown, Code!RunKnown
<1>3. Code!ExecKnown'
  BY DEF Code!IInv, Code!TypeOK, Code!ContainersAreOwned, Code!ExecKnown, Code!RunKnown
<1>4. ASSUME NEW q \in Runs PROVE Code!RunKnown(q)'
  BY DEF Code!IInv, Code!TypeOK, Code!ExecKnown, Code!RunKnown, Code!ContainersAreOwned
<1>5. ASSUME NEW q \in Runs PROVE Code!KillKnown(q)'
  BY DEF Code!IInv, Code!TypeOK, Code!ExecKnown, Code!RunKnown, Code!KillKnown
<1>6. QED BY <1>1, <1>2, <1>3, <1>4, <1>5 DEF Code!IInv

\* The code starts in its container.
LEMMA CodeCodeStarts ==
  ASSUME Code!BackendAssumption, Code!IInv, NEW r \in Runs, Code!CodeStarts(r)
  PROVE  Code!IInv'
<1> USE Code!BackendAssumption DEF Code!CodeStarts, Code!BackendAssumption, Code!Ended,
        Code!Docker, Code!Go
<1>1. Code!TypeOK'
  BY DEF Code!IInv, Code!TypeOK, Code!RunKnown
<1>2. Code!ContainersAreOwned'
  BY DEF Code!IInv, Code!TypeOK, Code!ContainersAreOwned, Code!ExecKnown, Code!RunKnown
<1>3. Code!ExecKnown'
  BY DEF Code!IInv, Code!TypeOK, Code!ContainersAreOwned, Code!ExecKnown, Code!RunKnown
<1>4. ASSUME NEW q \in Runs PROVE Code!RunKnown(q)'
  BY DEF Code!IInv, Code!TypeOK, Code!ExecKnown, Code!RunKnown, Code!ContainersAreOwned
<1>5. ASSUME NEW q \in Runs PROVE Code!KillKnown(q)'
  BY DEF Code!IInv, Code!TypeOK, Code!ExecKnown, Code!RunKnown, Code!KillKnown
<1>6. QED BY <1>1, <1>2, <1>3, <1>4, <1>5 DEF Code!IInv

\* Its process id is written to the file.
LEMMA CodeFileWritten ==
  ASSUME Code!BackendAssumption, Code!IInv, NEW r \in Runs, Code!FileWritten(r)
  PROVE  Code!IInv'
<1> USE Code!BackendAssumption DEF Code!FileWritten, Code!BackendAssumption, Code!Ended,
        Code!Docker, Code!Go
<1>1. Code!TypeOK'
  <2>1. [run[r] EXCEPT !.file = TRUE] \in RunType
    <3>1. run[r] \in RunType
      BY DEF Code!IInv, Code!TypeOK, RunType
    <3>2. QED BY <3>1, RunTyped
  <2>2. run' = [run EXCEPT ![r] = [run[r] EXCEPT !.file = TRUE]]
    OBVIOUS
  <2>3. run' \in [Runs -> RunType]
    BY <2>1, <2>2, OneRun DEF Code!IInv
  <2>4. QED BY <2>3, ZenonT(90) DEF Code!IInv, Code!TypeOK, RunType
<1>2. Code!ContainersAreOwned'
  BY DEF Code!IInv, Code!TypeOK, Code!ContainersAreOwned, Code!ExecKnown, Code!RunKnown
<1>3. Code!ExecKnown'
  BY DEF Code!IInv, Code!TypeOK, Code!ContainersAreOwned, Code!ExecKnown, Code!RunKnown
<1>4. ASSUME NEW q \in Runs PROVE Code!RunKnown(q)'
  BY DEF Code!IInv, Code!TypeOK, Code!ExecKnown, Code!RunKnown, Code!ContainersAreOwned
<1>5. ASSUME NEW q \in Runs PROVE Code!KillKnown(q)'
  BY DEF Code!IInv, Code!TypeOK, Code!ExecKnown, Code!RunKnown, Code!KillKnown
<1>6. QED BY <1>1, <1>2, <1>3, <1>4, <1>5 DEF Code!IInv

\* The code ends by itself.
LEMMA CodeCodeEnds ==
  ASSUME Code!BackendAssumption, Code!IInv, NEW r \in Runs, Code!CodeEnds(r)
  PROVE  Code!IInv'
<1> USE Code!BackendAssumption DEF Code!CodeEnds, Code!BackendAssumption, Code!Ended,
        Code!Docker, Code!Go
<1>1. Code!TypeOK'
  <2>1. [run[r] EXCEPT !.code = "gone", !.file = FALSE] \in RunType
    <3>1. run[r] \in RunType
      BY DEF Code!IInv, Code!TypeOK, RunType
    <3>2. QED BY <3>1, RunTyped
  <2>2. run' = [run EXCEPT ![r] = [run[r] EXCEPT !.code = "gone", !.file = FALSE]]
    OBVIOUS
  <2>3. run' \in [Runs -> RunType]
    BY <2>1, <2>2, OneRun DEF Code!IInv
  <2>4. QED BY <2>3, ZenonT(90) DEF Code!IInv, Code!TypeOK, RunType
<1>2. Code!ContainersAreOwned'
  BY DEF Code!IInv, Code!TypeOK, Code!ContainersAreOwned, Code!ExecKnown, Code!RunKnown
<1>3. Code!ExecKnown'
  BY DEF Code!IInv, Code!TypeOK, Code!ContainersAreOwned, Code!ExecKnown, Code!RunKnown
<1>4. ASSUME NEW q \in Runs PROVE Code!RunKnown(q)'
  BY DEF Code!IInv, Code!TypeOK, Code!ExecKnown, Code!RunKnown, Code!ContainersAreOwned
<1>5. ASSUME NEW q \in Runs PROVE Code!KillKnown(q)'
  BY DEF Code!IInv, Code!TypeOK, Code!ExecKnown, Code!RunKnown, Code!KillKnown
<1>6. QED BY <1>1, <1>2, <1>3, <1>4, <1>5 DEF Code!IInv

\* A client ends, with its command where that runs in a container.
LEMMA CodeClientEnds ==
  ASSUME Code!BackendAssumption, Code!IInv, NEW r \in Runs, Code!ClientEnds(r)
  PROVE  Code!IInv'
<1> USE Code!BackendAssumption DEF Code!ClientEnds, Code!BackendAssumption, Code!Ended,
        Code!Docker, Code!Go
<1>1. Code!TypeOK'
  BY DEF Code!IInv, Code!TypeOK, Code!RunKnown
<1>2. Code!ContainersAreOwned'
  BY DEF Code!IInv, Code!TypeOK, Code!ContainersAreOwned, Code!ExecKnown, Code!RunKnown
<1>3. Code!ExecKnown'
  BY DEF Code!IInv, Code!TypeOK, Code!ContainersAreOwned, Code!ExecKnown, Code!RunKnown
<1>4. ASSUME NEW q \in Runs PROVE Code!RunKnown(q)'
  BY DEF Code!IInv, Code!TypeOK, Code!ExecKnown, Code!RunKnown, Code!ContainersAreOwned
<1>5. ASSUME NEW q \in Runs PROVE Code!KillKnown(q)'
  BY DEF Code!IInv, Code!TypeOK, Code!ExecKnown, Code!RunKnown, Code!KillKnown
<1>6. QED BY <1>1, <1>2, <1>3, <1>4, <1>5 DEF Code!IInv

\* A run returns.
LEMMA CodeReturn ==
  ASSUME Code!BackendAssumption, Code!IInv, NEW r \in Runs, Code!Return(r)
  PROVE  Code!IInv'
<1> USE Code!BackendAssumption DEF Code!Return, Code!BackendAssumption, Code!Ended, Code!Docker,
        Code!Go
<1>1. Code!TypeOK'
  BY DEF Code!IInv, Code!TypeOK, Code!RunKnown
<1>2. Code!ContainersAreOwned'
  BY DEF Code!IInv, Code!TypeOK, Code!ContainersAreOwned, Code!ExecKnown, Code!RunKnown
<1>3. Code!ExecKnown'
  BY DEF Code!IInv, Code!TypeOK, Code!ContainersAreOwned, Code!ExecKnown, Code!RunKnown
<1>4. ASSUME NEW q \in Runs PROVE Code!RunKnown(q)'
  BY DEF Code!IInv, Code!TypeOK, Code!ExecKnown, Code!RunKnown, Code!ContainersAreOwned
<1>5. ASSUME NEW q \in Runs PROVE Code!KillKnown(q)'
  BY DEF Code!IInv, Code!TypeOK, Code!ExecKnown, Code!RunKnown, Code!KillKnown
<1>6. QED BY <1>1, <1>2, <1>3, <1>4, <1>5 DEF Code!IInv

\* A run passes its time.
LEMMA CodeTimeout ==
  ASSUME Code!BackendAssumption, Code!IInv, NEW r \in Runs, Code!Timeout(r)
  PROVE  Code!IInv'
<1> USE Code!BackendAssumption DEF Code!Timeout, Code!BackendAssumption, Code!Ended, Code!Docker,
        Code!Go
<1>1. Code!TypeOK'
  BY DEF Code!IInv, Code!TypeOK, Code!RunKnown
<1>2. Code!ContainersAreOwned'
  BY DEF Code!IInv, Code!TypeOK, Code!ContainersAreOwned, Code!ExecKnown, Code!RunKnown
<1>3. Code!ExecKnown'
  BY DEF Code!IInv, Code!TypeOK, Code!ContainersAreOwned, Code!ExecKnown, Code!RunKnown
<1>4. ASSUME NEW q \in Runs PROVE Code!RunKnown(q)'
  BY DEF Code!IInv, Code!TypeOK, Code!ExecKnown, Code!RunKnown, Code!ContainersAreOwned
<1>5. ASSUME NEW q \in Runs PROVE Code!KillKnown(q)'
  BY DEF Code!IInv, Code!TypeOK, Code!ExecKnown, Code!RunKnown, Code!KillKnown
<1>6. QED BY <1>1, <1>2, <1>3, <1>4, <1>5 DEF Code!IInv

\* A run is cancelled, wherever it is.
LEMMA CodeCancel ==
  ASSUME Code!BackendAssumption, Code!IInv, NEW r \in Runs, Code!Cancel(r)
  PROVE  Code!IInv'
<1> USE Code!BackendAssumption DEF Code!Cancel, Code!BackendAssumption, Code!Ended, Code!Docker,
        Code!Go
<1>1. Code!TypeOK'
  BY DEF Code!IInv, Code!TypeOK, Code!RunKnown
<1>2. Code!ContainersAreOwned'
  BY DEF Code!IInv, Code!TypeOK, Code!ContainersAreOwned, Code!ExecKnown, Code!RunKnown
<1>3. Code!ExecKnown'
  BY DEF Code!IInv, Code!TypeOK, Code!ContainersAreOwned, Code!ExecKnown, Code!RunKnown
<1>4. ASSUME NEW q \in Runs PROVE Code!RunKnown(q)'
  BY DEF Code!IInv, Code!TypeOK, Code!ExecKnown, Code!RunKnown, Code!ContainersAreOwned
<1>5. ASSUME NEW q \in Runs PROVE Code!KillKnown(q)'
  BY DEF Code!IInv, Code!TypeOK, Code!ExecKnown, Code!RunKnown, Code!KillKnown
<1>6. QED BY <1>1, <1>2, <1>3, <1>4, <1>5 DEF Code!IInv

\* The code is signalled through its file, or is not reached.
LEMMA CodeKillCode ==
  ASSUME Code!BackendAssumption, Code!IInv, NEW r \in Runs, Code!KillCode(r)
  PROVE  Code!IInv'
<1> USE Code!BackendAssumption DEF Code!BackendAssumption, Code!Ended, Code!Docker
<1>0. /\ Code!TypeOK /\ run[r].pc \in {"term", "kill"} /\ run[r] \in RunType
      /\ UNCHANGED <<exec, box>>
  BY DEF Code!KillCode, Code!IInv, Code!TypeOK, RunType
<1>1. PICK y \in RunType :
         /\ run' = [run EXCEPT ![r] = y]
         /\ y.cid = run[r].cid /\ y.client = run[r].client
         /\ \/ y.code = run[r].code /\ y.file = run[r].file
            \/ Code!Reached(r) /\ y.code = "gone" /\ y.file = FALSE
         /\ \/ /\ Code!Docker => exec.cid # nobody
               /\ y.pc = IF run[r].pc = "term" THEN "termclient" ELSE "killclient"
               /\ Code!Reached(r) /\ run[r].pc = "kill" => y.code = "gone"
               /\ felt' = IF Code!Reached(r) THEN [felt EXCEPT !.killed = @ \cup {r}] ELSE felt
            \/ /\ Code!Docker /\ y.pc = "killclient"
               /\ felt' = [felt EXCEPT !.killed = @ \ {r}]
  <2>1. ASSUME Code!Docker => exec.cid # nobody,
               NEW s \in Code!Signal(r, IF run[r].pc = "term" THEN "TERM" ELSE "KILL"),
               run' = [run EXCEPT ![r] =
                         [s EXCEPT !.pc = IF @ = "term" THEN "termclient" ELSE "killclient"]],
               felt' = IF Code!Reached(r) THEN [felt EXCEPT !.killed = @ \cup {r}] ELSE felt
        PROVE  \E y \in RunType :
                 /\ run' = [run EXCEPT ![r] = y]
                 /\ y.cid = run[r].cid /\ y.client = run[r].client
                 /\ \/ y.code = run[r].code /\ y.file = run[r].file
                    \/ Code!Reached(r) /\ y.code = "gone" /\ y.file = FALSE
                 /\ \/ /\ Code!Docker => exec.cid # nobody
                       /\ y.pc = IF run[r].pc = "term" THEN "termclient" ELSE "killclient"
                       /\ Code!Reached(r) /\ run[r].pc = "kill" => y.code = "gone"
                       /\ felt' = IF Code!Reached(r) THEN [felt EXCEPT !.killed =
                                                           @ \cup {r}] ELSE felt
                    \/ /\ Code!Docker /\ y.pc = "killclient"
                       /\ felt' = [felt EXCEPT !.killed = @ \ {r}]
    <3> DEFINE y == [s EXCEPT !.pc = IF @ = "term" THEN "termclient" ELSE "killclient"]
    <3>1. /\ s \in RunType
          /\ s.pc = run[r].pc /\ s.cid = run[r].cid /\ s.client = run[r].client
          /\ \/ s.code = run[r].code /\ s.file = run[r].file
             \/ Code!Reached(r) /\ s.code = "gone" /\ s.file = FALSE
          /\ Code!Reached(r) /\ run[r].pc = "kill" => s.code = "gone" /\ s.file = FALSE
      <4> DEFINE signal == IF run[r].pc = "term" THEN "TERM" ELSE "KILL"
      <4>1. s \in Code!Signal(r, signal) /\ (run[r].pc = "kill" => signal = "KILL")
             /\ signal \in {"TERM", "KILL"}
        BY <2>1
      <4> HIDE DEF signal
      <4>2. QED BY <1>0, <4>1, Signalled
    <3>2. /\ y \in RunType /\ y.pc = IF s.pc = "term" THEN "termclient" ELSE "killclient"
          /\ y.cid = s.cid /\ y.client = s.client /\ y.code = s.code /\ y.file = s.file
      BY <3>1 DEF RunType
    <3>3. run' = [run EXCEPT ![r] = y]
      BY <2>1
    <3> HIDE DEF y
    <3>4. QED BY <2>1, <3>1, <3>2, <3>3
  <2>2. ASSUME Code!Docker, run' = Code!Go(r, "killclient"), felt' =
                 [felt EXCEPT !.killed = @ \ {r}]
        PROVE  \E y \in RunType :
                 /\ run' = [run EXCEPT ![r] = y]
                 /\ y.cid = run[r].cid /\ y.client = run[r].client
                 /\ \/ y.code = run[r].code /\ y.file = run[r].file
                    \/ Code!Reached(r) /\ y.code = "gone" /\ y.file = FALSE
                 /\ \/ /\ Code!Docker => exec.cid # nobody
                       /\ y.pc = IF run[r].pc = "term" THEN "termclient" ELSE "killclient"
                       /\ Code!Reached(r) /\ run[r].pc = "kill" => y.code = "gone"
                       /\ felt' = IF Code!Reached(r) THEN [felt EXCEPT !.killed =
                                                           @ \cup {r}] ELSE felt
                    \/ /\ Code!Docker /\ y.pc = "killclient"
                       /\ felt' = [felt EXCEPT !.killed = @ \ {r}]
    <3> DEFINE x == run[r]
               y == [x EXCEPT !.pc = "killclient"]
    <3>1. run' = [run EXCEPT ![r] = y]
      BY <2>2 DEF Code!Go
    <3>2. x \in RunType
      BY <1>0
    <3> HIDE DEF x
    <3>3. /\ y \in RunType /\ y.pc = "killclient"
          /\ y.cid = x.cid /\ y.client = x.client /\ y.code = x.code /\ y.file = x.file
      BY <3>2 DEF RunType
    <3> HIDE DEF y
    <3>4. QED BY <2>2, <3>1, <3>3 DEF x
  <2>3. QED BY <2>1, <2>2 DEF Code!KillCode
<1>2. run' \in [Runs -> RunType] /\ run'[r] = y /\ \A q \in Runs : q # r => run'[q] = run[q]
  BY <1>0, <1>1, OneRun
<1>3. /\ felt' \in [killed : SUBSET Runs, orphans : SUBSET Boxes] /\ felt'.orphans = felt.orphans
      /\ \A q \in Runs : q # r => (q \in felt'.killed <=> q \in felt.killed)
      /\ r \in felt'.killed =>
           /\ r \in felt.killed \/ Code!Reached(r)
           /\ Code!Docker => exec.cid # nobody
           /\ y.pc = IF run[r].pc = "term" THEN "termclient" ELSE "killclient"
           /\ Code!Reached(r) /\ run[r].pc = "kill" => y.code = "gone"
  BY <1>0, <1>1 DEF Code!TypeOK
<1>4. Code!TypeOK'
  BY <1>0, <1>2, <1>3 DEF Code!TypeOK, RunType
<1>5. Code!ContainersAreOwned' /\ Code!ExecKnown'
  BY <1>0, <1>1, <1>2, <1>3 DEF Code!IInv, Code!TypeOK, Code!ContainersAreOwned, Code!ExecKnown
<1>6. ASSUME NEW q \in Runs PROVE Code!RunKnown(q)'
  <2>1. Code!RunKnown(q) /\ Code!RunKnown(r)
    BY DEF Code!IInv
  <2>2. CASE q = r
    <3>1. /\ y.pc \in {"termclient", "killclient"} /\ y.cid = run[r].cid
          /\ \/ y.code = run[r].code /\ y.file = run[r].file
             \/ y.code = "gone" /\ y.file = FALSE
      BY <1>0, <1>1
    <3>2. QED
      <4>1. CASE y.code = run[r].code /\ y.file = run[r].file
        BY <1>0, <1>2, <1>3, <2>1, <2>2, <3>1, <4>1 DEF Code!RunKnown
      <4>2. CASE y.code = "gone" /\ y.file = FALSE
        <5>1. Code!Docker
          BY <1>1, <2>1, <4>2, <1>0 DEF Code!RunKnown, Code!Reached
        <5>2. QED BY <1>0, <1>2, <2>2, <3>1, <4>2, <5>1 DEF Code!RunKnown
      <4>3. QED BY <3>1, <4>1, <4>2
  <2>3. CASE q # r
    BY <1>0, <1>2, <1>3, <2>1, <2>3 DEF Code!RunKnown
  <2>4. QED BY <2>2, <2>3
<1>7. ASSUME NEW q \in Runs PROVE Code!KillKnown(q)'
  <2>1. Code!KillKnown(q) /\ Code!RunKnown(r) /\ Code!ExecKnown
    BY DEF Code!IInv
  <2>2. CASE q = r
    <3>1. SUFFICES ASSUME r \in felt'.killed PROVE Code!KillKnown(r)'
      BY <2>2 DEF Code!KillKnown
    <3>2. CASE run[r].code = "up" /\ y.code = "up"
      <4>1. /\ run[r].file /\ run[r].cid = exec.cid /\ Code!Docker /\ box[exec.cid] = "up"
        BY <1>0, <1>3, <2>1, <2>2, <3>1, <3>2 DEF Code!KillKnown, Code!RunKnown, Code!ExecKnown,
           Code!Reached
      <4>2. run[r].pc = "term"
        BY <1>0, <1>3, <3>1, <3>2, <4>1 DEF Code!Reached
      <4>3. QED BY <1>0, <1>1, <1>2, <1>3, <3>1, <3>2, <4>1, <4>2 DEF Code!KillKnown
    <3>3. CASE ~(run[r].code = "up" /\ y.code = "up")
      <4>1. y.code \notin {"up", "asked"}
        BY <1>0, <1>1, <1>3, <2>1, <2>2, <3>1, <3>3 DEF Code!KillKnown, Code!RunKnown,
           Code!Reached
      <4>2. QED BY <1>0, <1>2, <1>3, <3>1, <4>1, <2>2 DEF Code!KillKnown
    <3>4. QED BY <3>2, <3>3
  <2>3. CASE q # r
    BY <1>0, <1>2, <1>3, <2>1, <2>3 DEF Code!KillKnown
  <2>4. QED BY <2>2, <2>3
<1>8. QED BY <1>4, <1>5, <1>6, <1>7 DEF Code!IInv

\* The client is killed.
LEMMA CodeKillClient ==
  ASSUME Code!BackendAssumption, Code!IInv, NEW r \in Runs, Code!KillClient(r)
  PROVE  Code!IInv'
<1> USE Code!BackendAssumption DEF Code!KillClient, Code!BackendAssumption, Code!Ended,
        Code!Docker, Code!Go
<1>1. Code!TypeOK'
  BY DEF Code!IInv, Code!TypeOK, Code!RunKnown
<1>2. Code!ContainersAreOwned'
  BY DEF Code!IInv, Code!TypeOK, Code!ContainersAreOwned, Code!ExecKnown, Code!RunKnown
<1>3. Code!ExecKnown'
  BY DEF Code!IInv, Code!TypeOK, Code!ContainersAreOwned, Code!ExecKnown, Code!RunKnown
<1>4. ASSUME NEW q \in Runs PROVE Code!RunKnown(q)'
  BY DEF Code!IInv, Code!TypeOK, Code!ExecKnown, Code!RunKnown, Code!ContainersAreOwned
<1>5. ASSUME NEW q \in Runs PROVE Code!KillKnown(q)'
  BY DEF Code!IInv, Code!TypeOK, Code!ExecKnown, Code!RunKnown, Code!KillKnown
<1>6. QED BY <1>1, <1>2, <1>3, <1>4, <1>5 DEF Code!IInv

\* close begins, with the lock that it holds to its end.
LEMMA CodeClose ==
  ASSUME Code!BackendAssumption, Code!IInv, Code!Close
  PROVE  Code!IInv'
<1> USE Code!BackendAssumption DEF Code!Close, Code!BackendAssumption, Code!Ended, Code!Docker,
        Code!Go, Code!Active
<1>1. Code!TypeOK'
  BY DEF Code!IInv, Code!TypeOK, Code!RunKnown
<1>2. Code!ContainersAreOwned'
  BY DEF Code!IInv, Code!TypeOK, Code!ContainersAreOwned, Code!ExecKnown, Code!RunKnown
<1>3. Code!ExecKnown'
  BY DEF Code!IInv, Code!TypeOK, Code!ContainersAreOwned, Code!ExecKnown, Code!RunKnown
<1>4. ASSUME NEW q \in Runs PROVE Code!RunKnown(q)'
  BY DEF Code!IInv, Code!TypeOK, Code!ExecKnown, Code!RunKnown, Code!ContainersAreOwned
<1>5. ASSUME NEW q \in Runs PROVE Code!KillKnown(q)'
  BY DEF Code!IInv, Code!TypeOK, Code!ExecKnown, Code!RunKnown, Code!KillKnown
<1>6. QED BY <1>1, <1>2, <1>3, <1>4, <1>5 DEF Code!IInv

\* It kills the code and the client of each run it found.
LEMMA CodeCloseKills ==
  ASSUME Code!BackendAssumption, Code!IInv, NEW r \in Runs, Code!CloseKills(r)
  PROVE  Code!IInv'
<1> USE Code!BackendAssumption DEF Code!BackendAssumption, Code!Ended, Code!Docker
<1>0. Code!TypeOK /\ run[r] \in RunType /\ UNCHANGED <<box, felt>>
  BY DEF Code!CloseKills, Code!IInv, Code!TypeOK, RunType
<1>1. /\ exec' \in [closed : BOOLEAN, lock : Runs \cup {nobody, "close"}, cid : Boxes \cup {nobody},
                    step : {"open", "killing", "closed"},
                    kills : [Runs -> {"none", "code", "client", "done"}]]
      /\ exec'.closed = exec.closed /\ exec'.lock = exec.lock /\ exec'.cid = exec.cid
      /\ exec'.step = exec.step
  BY <1>0 DEF Code!CloseKills, Code!TypeOK
<1>2. PICK y \in RunType :
         /\ run' = [run EXCEPT ![r] = y]
         /\ y.pc = run[r].pc /\ y.cid = run[r].cid
         /\ \/ y.code = run[r].code /\ y.file = run[r].file
            \/ Code!Reached(r) /\ y.code = "gone" /\ y.file = FALSE
  <2>1. CASE run' = run
    <3>1. run = [run EXCEPT ![r] = run[r]]
      BY <1>0 DEF Code!TypeOK
    <3>2. QED BY <1>0, <2>1, <3>1
  <2>2. ASSUME NEW s \in Code!Signal(r, "KILL"), run' = [run EXCEPT ![r] = s]
        PROVE  \E y \in RunType :
                 /\ run' = [run EXCEPT ![r] = y]
                 /\ y.pc = run[r].pc /\ y.cid = run[r].cid
                 /\ \/ y.code = run[r].code /\ y.file = run[r].file
                    \/ Code!Reached(r) /\ y.code = "gone" /\ y.file = FALSE
    BY <1>0, <2>2, Signalled
  <2>3. ASSUME run' = [run EXCEPT ![r].client = "gone"]
        PROVE  \E y \in RunType :
                 /\ run' = [run EXCEPT ![r] = y]
                 /\ y.pc = run[r].pc /\ y.cid = run[r].cid
                 /\ \/ y.code = run[r].code /\ y.file = run[r].file
                    \/ Code!Reached(r) /\ y.code = "gone" /\ y.file = FALSE
    <3> DEFINE x == run[r]
               y == [x EXCEPT !.client = "gone"]
    <3>1. run' = [run EXCEPT ![r] = y]
      BY <2>3
    <3>2. x \in RunType
      BY <1>0
    <3> HIDE DEF x
    <3>3. y \in RunType /\ y.pc = x.pc /\ y.cid = x.cid /\ y.code = x.code /\ y.file = x.file
      BY <3>2 DEF RunType
    <3> HIDE DEF y
    <3>4. QED BY <3>1, <3>3 DEF x
  <2>4. QED BY <2>1, <2>2, <2>3 DEF Code!CloseKills
<1>3. run' \in [Runs -> RunType] /\ run'[r] = y /\ \A q \in Runs : q # r => run'[q] = run[q]
  BY <1>0, <1>2, OneRun
<1>4. Code!TypeOK'
  BY <1>0, <1>1, <1>3 DEF Code!TypeOK, RunType
<1>5. Code!ContainersAreOwned' /\ Code!ExecKnown'
  BY <1>0, <1>1, <1>2, <1>3 DEF Code!IInv, Code!TypeOK, Code!ContainersAreOwned, Code!ExecKnown
<1>6. ASSUME NEW q \in Runs PROVE Code!RunKnown(q)' /\ Code!KillKnown(q)'
  <2>1. Code!RunKnown(q) /\ Code!KillKnown(q) /\ Code!RunKnown(r) /\ Code!KillKnown(r)
    BY DEF Code!IInv
  <2>2. CASE q = r
    BY <1>0, <1>1, <1>2, <1>3, <2>1, <2>2 DEF Code!RunKnown, Code!KillKnown, Code!Reached
  <2>3. CASE q # r
    BY <1>0, <1>1, <1>3, <2>1, <2>3 DEF Code!RunKnown, Code!KillKnown
  <2>4. QED BY <2>2, <2>3
<1>7. QED BY <1>4, <1>5, <1>6 DEF Code!IInv

\* And removes the container it holds, or gives it up.
LEMMA CodeCleanup ==
  ASSUME Code!BackendAssumption, Code!IInv, Code!Cleanup
  PROVE  Code!IInv'
<1> USE Code!BackendAssumption DEF Code!BackendAssumption, Code!Ended, Code!Docker
<1>0. Code!TypeOK /\ exec.step = "killing" /\ exec.closed /\ exec.lock = "close"
  BY DEF Code!Cleanup, Code!IInv, Code!ExecKnown
<1>1. /\ exec' \in [closed : BOOLEAN, lock : Runs \cup {nobody, "close"}, cid : Boxes \cup {nobody},
                    step : {"open", "killing", "closed"},
                    kills : [Runs -> {"none", "code", "client", "done"}]]
      /\ exec'.closed = exec.closed /\ exec'.lock = nobody /\ exec'.cid = nobody
      /\ exec'.step = "closed"
  BY <1>0 DEF Code!Cleanup, Code!TypeOK
<1>2. \A q \in Runs : run[q].pc # "preparing" /\ run[q] \in RunType
  BY <1>0 DEF Code!IInv, Code!ExecKnown, Code!TypeOK, RunType
<1>3. /\ box' \in [Boxes -> {"absent", "starting", "up", "gone"}]
      /\ felt' \in [killed : SUBSET Runs, orphans : SUBSET Boxes]
      /\ felt'.killed = felt.killed /\ felt.orphans \subseteq felt'.orphans
      /\ \A k \in Boxes : /\ box'[k] = box[k] \/ box'[k] = "gone"
                          /\ k = exec.cid => box'[k] = "gone" \/ k \in felt'.orphans
  <2>1. CASE UNCHANGED <<box, felt>> /\ exec.cid = nobody
    BY <1>0, <2>1 DEF Code!TypeOK
  <2>2. CASE exec.cid # nobody /\ box' = [box EXCEPT ![exec.cid] = "gone"] /\ UNCHANGED felt
    BY <1>0, <2>2 DEF Code!TypeOK
  <2>3. CASE exec.cid # nobody /\ felt' = [felt EXCEPT !.orphans = @ \cup {exec.cid}]
            /\ UNCHANGED box
    BY <1>0, <2>3 DEF Code!TypeOK
  <2>4. QED BY <2>1, <2>2, <2>3 DEF Code!Cleanup
<1>4. /\ run' \in [Runs -> RunType]
      /\ \A q \in Runs :
           /\ run'[q].pc = run[q].pc /\ run'[q].cid = run[q].cid
           /\ run'[q] = run[q] \/ (run[q].code = "up" /\ run'[q].code = "gone"
                                   /\ run'[q].file = FALSE)
           /\ run'[q].code = "up" /\ run[q].cid = exec.cid /\ exec.cid # nobody =>
                run[q].cid \in felt'.orphans
  <2>1. CASE run' = run /\ (exec.cid # nobody => exec.cid \in felt'.orphans)
    BY <1>0, <1>2, <2>1, ZenonT(90) DEF Code!TypeOK, RunType
  <2>2. CASE run' = [r \in Runs |-> IF run[r].cid = exec.cid /\ run[r].code = "up"
                                      THEN [run[r] EXCEPT !.code = "gone", !.file =
                                            FALSE] ELSE run[r]]
    <3>1. ASSUME NEW q \in Runs
          PROVE  /\ run'[q] \in RunType
                 /\ run'[q].pc = run[q].pc /\ run'[q].cid = run[q].cid
                 /\ run'[q] = run[q]
                    \/ (run[q].code = "up" /\ run'[q].code = "gone" /\ run'[q].file = FALSE)
                 /\ run'[q].code = "up" => run[q].cid # exec.cid
      <4> DEFINE x == run[q]
                 y == [x EXCEPT !.code = "gone", !.file = FALSE]
      <4>1. run'[q] = IF x.cid = exec.cid /\ x.code = "up" THEN y ELSE x
        BY <2>2
      <4>2. x \in RunType
        BY <1>2
      <4> HIDE DEF x
      <4>3. y \in RunType /\ y.pc = x.pc /\ y.cid = x.cid /\ y.code = "gone" /\ y.file = FALSE
        BY <4>2 DEF RunType
      <4> HIDE DEF y
      <4>4. QED BY <4>1, <4>2, <4>3 DEF x
    <3>2. QED BY <2>2, <3>1
  <2>3. QED
    <3>1. exec.cid # nobody /\ felt' = [felt EXCEPT !.orphans = @ \cup {exec.cid}]
            => exec.cid \in felt'.orphans
      BY <1>0 DEF Code!TypeOK
    <3>2. QED BY <2>1, <2>2, <3>1 DEF Code!Cleanup
<1>5. Code!TypeOK'
  BY <1>1, <1>3, <1>4 DEF Code!TypeOK, RunType
<1>6. Code!ContainersAreOwned'
  BY <1>0, <1>1, <1>3 DEF Code!IInv, Code!ContainersAreOwned
<1>7. Code!ExecKnown'
  BY <1>1, <1>2, <1>4, <1>0 DEF Code!IInv, Code!ExecKnown
<1>8. ASSUME NEW q \in Runs PROVE Code!RunKnown(q)' /\ Code!KillKnown(q)'
  <2>1. Code!RunKnown(q) /\ Code!KillKnown(q) /\ Code!ExecKnown
    BY DEF Code!IInv
  <2>2. CASE run'[q] = run[q]
    BY <1>0, <1>1, <1>2, <1>3, <1>4, <2>1, <2>2 DEF Code!RunKnown, Code!KillKnown, Code!ExecKnown
  <2>3. CASE run[q].code = "up" /\ run'[q].code = "gone" /\ run'[q].file = FALSE
    BY <1>0, <1>1, <1>2, <1>3, <1>4, <2>1, <2>3 DEF Code!RunKnown, Code!KillKnown, Code!ExecKnown
  <2>4. QED BY <1>4, <2>2, <2>3
<1>9. QED BY <1>5, <1>6, <1>7, <1>8 DEF Code!IInv

\* Every step of the executor keeps its invariant.
LEMMA CodeStays ==
  ASSUME Code!BackendAssumption
  PROVE  Code!IInv /\ [Code!Next]_(Code!vars) => Code!IInv'
<1> SUFFICES ASSUME Code!IInv, [Code!Next]_(Code!vars) PROVE Code!IInv'
  OBVIOUS
<1>1. CASE UNCHANGED Code!vars
  BY <1>1 DEF Code!vars, Code!IInv, Code!TypeOK, Code!ContainersAreOwned, Code!ExecKnown,
     Code!RunKnown, Code!KillKnown
<1>2. CASE Code!Close \/ Code!Cleanup
  BY <1>2, CodeClose, CodeCleanup
<1>3. ASSUME NEW k \in Boxes, Code!BoxUp(k) PROVE Code!IInv'
  BY <1>3, CodeBoxUp
<1>4. ASSUME NEW r \in Runs, Code!Run(r) \/ Code!Prepare(r) \/ Code!Prepared(r) \/ Code!Spawned(r)
      PROVE  Code!IInv'
  BY <1>4, CodeRun, CodePrepare, CodePrepared, CodeSpawned
<1>5. ASSUME NEW r \in Runs, Code!CodeStarts(r) \/ Code!FileWritten(r) \/ Code!CodeEnds(r)
                 \/ Code!ClientEnds(r)
      PROVE  Code!IInv'
  BY <1>5, CodeCodeStarts, CodeFileWritten, CodeCodeEnds, CodeClientEnds
<1>6. ASSUME NEW r \in Runs, Code!Return(r) \/ Code!Timeout(r) \/ Code!Cancel(r) PROVE Code!IInv'
  BY <1>6, CodeReturn, CodeTimeout, CodeCancel
<1>7. ASSUME NEW r \in Runs, Code!KillCode(r) \/ Code!KillClient(r) \/ Code!CloseKills(r)
      PROVE  Code!IInv'
  BY <1>7, CodeKillCode, CodeKillClient, CodeCloseKills
<1>8. QED BY <1>1, <1>2, <1>3, <1>4, <1>5, <1>6, <1>7 DEF Code!Next

\* What the invariant of the executor means: its properties.
LEMMA CodeMeans ==
  ASSUME Code!BackendAssumption, Code!IInv
  PROVE  Code!TypeOK /\ Code!ContainersAreOwned /\ Code!NothingRunsAfterClose
             /\ Code!ReachedCodeIsOver
<1>1. Code!NothingRunsAfterClose
  BY DEF Code!IInv, Code!BackendAssumption, Code!ExecKnown, Code!RunKnown,
     Code!NothingRunsAfterClose
<1>2. Code!ReachedCodeIsOver
  BY DEF Code!IInv, Code!KillKnown, Code!ReachedCodeIsOver
<1>3. QED BY <1>1, <1>2 DEF Code!IInv

-----------------------------------------------------------------------------
(* The pool of browsers                                                     *)

\* The instance counts as FiniteSets does.
LEMMA PoolCounts ==
  ASSUME NEW S
  PROVE  /\ Pool!Cardinality(S) = Cardinality(S)
         /\ Pool!IsFiniteSet(S) = IsFiniteSet(S)
BY Zenon DEF Pool!Cardinality, Cardinality, Pool!IsFiniteSet, IsFiniteSet

\* The types are finite, and the list, which is not empty, holds only types.
LEMMA TypesAre ==
  ASSUME Pool!PoolAssumption
  PROVE  /\ IsFiniteSet(Pool!Types) /\ TypeList[1] \in Pool!Types
         /\ Len(TypeList) \in Nat \ {0}
         /\ \A i \in 0 .. Len(TypeList) - 1 : TypeList[i + 1] \in Pool!Types
<1>1. /\ Len(TypeList) \in Nat \ {0} /\ DOMAIN TypeList = 1 .. Len(TypeList)
  BY DEF Pool!PoolAssumption
<1>2. /\ TypeList[1] \in Pool!Types
           /\ \A i \in 0 .. Len(TypeList) - 1 : TypeList[i + 1] \in Pool!Types
  BY <1>1 DEF Pool!Types
<1>3. IsFiniteSet(DOMAIN TypeList)
  BY <1>1, FS_Interval
<1>4. IsFiniteSet(Pool!Types)
  <2>1. TypeList \in Surjection(DOMAIN TypeList, Pool!Types)
    BY <1>1 DEF Surjection, Pool!Types, Pool!PoolAssumption
  <2>2. QED BY <1>3, <2>1, FS_Surjection
<1>5. QED BY <1>1, <1>2, <1>4

\* The empty pool.
LEMMA PoolStarts == ASSUME Pool!PoolAssumption PROVE Pool!Init => Pool!IInv
<1> SUFFICES ASSUME Pool!Init PROVE Pool!IInv
  OBVIOUS
<1> USE TypesAre DEF Pool!Init, Pool!NoLaunch, Pool!PoolAssumption, Pool!Browsers
<1>1. Pool!TypeOK
  BY DEF Pool!TypeOK
<1>2. Pool!MapKnown
  BY DEF Pool!MapKnown
<1>3. \A t \in Pool!Types : Pool!LaunchKnown(t)
  BY DEF Pool!LaunchKnown, Pool!Launching
<1>4. QED BY <1>1, <1>2, <1>3 DEF Pool!IInv

LaunchType == [step : {"none", "closing", "launching", "evicting"},
               old : 0 .. MaxLaunches, new : 0 .. MaxLaunches,
               victim : 0 .. MaxLaunches, key : Pool!Types, since : 0 .. MaxCloses]

\* No launch is a value of a launch.
LEMMA NoLaunchTyped == ASSUME Pool!PoolAssumption PROVE Pool!NoLaunch \in LaunchType
  BY TypesAre DEF Pool!NoLaunch, LaunchType, Pool!PoolAssumption

\* The rotation of the types stays in their list.
LEMMA NextIndex ==
  ASSUME Pool!PoolAssumption, index \in 0 .. Len(TypeList) - 1
  PROVE  (index + 1) % Len(TypeList) \in 0 .. Len(TypeList) - 1
<1> DEFINE n == Len(TypeList)
<1>1. n \in Nat \ {0} /\ index + 1 \in Nat
  BY TypesAre
<1> HIDE DEF n
<1>2. (index + 1) % n \in 0 .. n - 1
  BY <1>1
<1>3. QED BY <1>2 DEF n

\* An acquisition waits for the closing that is under way.
LEMMA PoolWaits ==
  ASSUME Pool!PoolAssumption, Pool!IInv, NEW g \in Gets, Pool!WaitForClose(g)
  PROVE  Pool!IInv'
<1> USE Pool!PoolAssumption DEF Pool!WaitForClose, Pool!PoolAssumption
<1>1. Pool!TypeOK'
  BY DEF Pool!IInv, Pool!TypeOK
<1>2. Pool!MapKnown' /\ \A t \in Pool!Types : Pool!LaunchKnown(t)'
  BY DEF Pool!IInv, Pool!MapKnown, Pool!LaunchKnown, Pool!Launching, Pool!Owned
<1>3. QED BY <1>1, <1>2 DEF Pool!IInv

\* An acquisition joins, uses or starts a launch of the next type.
LEMMA PoolAcquires ==
  ASSUME Pool!PoolAssumption, Pool!IInv, NEW g \in Gets, Pool!Acquire(g)
  PROVE  Pool!IInv'
<1> DEFINE t == TypeList[index + 1]
<1>0. /\ t \in Pool!Types /\ index' \in 0 .. Len(TypeList) - 1
      /\ closing' = closing /\ closing.step = "none" /\ Pool!TypeOK
      /\ closing.count \in 0 .. MaxCloses /\ browsers[t] \in 0 .. MaxLaunches
  BY TypesAre, NextIndex DEF Pool!Acquire, Pool!IInv, Pool!TypeOK
<1>1. CASE /\ \E b \in 0 .. MaxLaunches, at \in {"launch", "has"} :
                get' = [get EXCEPT ![g] = [pc |-> at, type |-> t, b |-> b]]
           /\ UNCHANGED <<browsers, launches, browser>>
  <2>1. Pool!TypeOK'
    BY <1>0, <1>1 DEF Pool!TypeOK
  <2>2. Pool!MapKnown' /\ \A u \in Pool!Types : Pool!LaunchKnown(u)'
    BY <1>0, <1>1 DEF Pool!IInv, Pool!MapKnown, Pool!LaunchKnown, Pool!Launching, Pool!Owned
  <2>3. QED BY <2>1, <2>2 DEF Pool!IInv
<1>2. ASSUME ~Pool!Launching(t), browsers' = [browsers EXCEPT ![t] = 0], UNCHANGED browser,
             browsers[t] # 0 => browser[browsers[t]] # "up",
             get' = [get EXCEPT ![g] = [pc |-> "launch", type |-> t, b |-> 0]],
             NEW l \in LaunchType, launches' = [launches EXCEPT ![t] = l],
             l.step \in {"closing", "launching"}, l.victim = 0, l.since = closing.count,
             l.step = "closing" => l.old = browsers[t] /\ browsers[t] # 0,
             l.step = "launching" => l.old = 0
      PROVE  Pool!IInv'
  <2>1. Pool!TypeOK'
    BY <1>0, <1>2 DEF Pool!TypeOK, LaunchType, Pool!PoolAssumption
  <2>2. Pool!MapKnown'
    BY <1>0, <1>2 DEF Pool!IInv, Pool!TypeOK, Pool!MapKnown, Pool!Owned
  <2>3. ASSUME NEW u \in Pool!Types PROVE Pool!LaunchKnown(u)'
    <3>1. CASE u = t
      <4>1. launches'[u] = l /\ browsers'[u] = 0
        BY <1>0, <1>2, <3>1 DEF Pool!TypeOK
      <4>2. browsers[t] # 0 => browser[browsers[t]] = "gone"
        BY <1>0, <1>2 DEF Pool!IInv, Pool!MapKnown
      <4>3. QED BY <1>0, <1>2, <4>1, <4>2 DEF Pool!LaunchKnown, Pool!Launching
    <3>2. CASE u # t
      <4>1. launches'[u] = launches[u] /\ browsers'[u] = browsers[u]
        BY <1>0, <1>2, <3>2 DEF Pool!TypeOK
      <4>2. QED BY <1>0, <1>2, <4>1 DEF Pool!IInv, Pool!LaunchKnown, Pool!Launching
    <3>3. QED BY <3>1, <3>2
  <2>4. QED BY <2>1, <2>2, <2>3 DEF Pool!IInv
<1>3. CASE /\ ~Pool!Launching(t) /\ browsers[t] # 0 /\ browser[browsers[t]] # "up"
           /\ browsers' = Pool!Without(t)
           /\ launches' = [launches EXCEPT ![t] =
                [Pool!NoLaunch EXCEPT !.step = "closing", !.old = browsers[t], !.since =
                 closing.count]]
           /\ get' = [get EXCEPT ![g] = [pc |-> "launch", type |-> t, b |-> 0]]
           /\ UNCHANGED browser
  <2> DEFINE l == [Pool!NoLaunch EXCEPT !.step = "closing", !.old = browsers[t], !.since =
                   closing.count]
  <2>1. /\ l \in LaunchType /\ l.step = "closing" /\ l.victim = 0 /\ l.since = closing.count
        /\ l.old = browsers[t]
    <3> DEFINE x == Pool!NoLaunch
               since == closing.count
               old == browsers[t]
    <3>1. x \in LaunchType /\ x.victim = 0 /\ since \in 0 .. MaxCloses /\ old \in 0 .. MaxLaunches
      BY <1>0, NoLaunchTyped DEF Pool!NoLaunch
    <3> HIDE DEF x, since, old
    <3>2. LET y == [x EXCEPT !.step = "closing", !.old = old, !.since = since]
          IN  y \in LaunchType /\ y.step = "closing" /\ y.victim = 0 /\ y.since = since
              /\ y.old = old
      BY <3>1 DEF LaunchType
    <3>3. QED BY <3>2 DEF x, since, old
  <2>2. launches' = [launches EXCEPT ![t] = l]
    BY <1>3
  <2> HIDE DEF l, t
  <2>3. QED BY <1>2, <1>3, <2>1, <2>2 DEF Pool!Without
<1>4. CASE /\ ~Pool!Launching(t) /\ browsers[t] = 0
           /\ launches' = [launches EXCEPT ![t] =
                         [Pool!NoLaunch EXCEPT !.step = "launching", !.since = closing.count]]
           /\ get' = [get EXCEPT ![g] = [pc |-> "launch", type |-> t, b |-> 0]]
           /\ UNCHANGED <<browsers, browser>>
  <2> DEFINE l == [Pool!NoLaunch EXCEPT !.step = "launching", !.since = closing.count]
  <2>1. /\ l \in LaunchType /\ l.step = "launching" /\ l.victim = 0 /\ l.since = closing.count
        /\ l.old = 0
    <3> DEFINE x == Pool!NoLaunch
               since == closing.count
    <3>1. x \in LaunchType /\ x.victim = 0 /\ x.old = 0 /\ since \in 0 .. MaxCloses
      BY <1>0, NoLaunchTyped DEF Pool!NoLaunch
    <3> HIDE DEF x, since
    <3>2. LET y == [x EXCEPT !.step = "launching", !.since = since]
          IN  y \in LaunchType /\ y.step = "launching" /\ y.victim = 0 /\ y.since = since
              /\ y.old = 0
      BY <3>1 DEF LaunchType
    <3>3. QED BY <3>2 DEF x, since
  <2>2. /\ launches' = [launches EXCEPT ![t] = l] /\ browsers' = [browsers EXCEPT ![t] = 0]
    BY <1>0, <1>4 DEF Pool!TypeOK
  <2> HIDE DEF l, t
  <2>3. QED BY <1>2, <1>4, <2>1, <2>2
<1>5. CASE /\ Pool!Launching(t) /\ get' = [get EXCEPT ![g] = [pc |-> "launch", type |-> t, b |-> 0]]
           /\ UNCHANGED <<browsers, launches, browser>>
  <2>1. 0 \in 0 .. MaxLaunches
    BY DEF Pool!PoolAssumption
  <2>2. QED BY <1>1, <1>5, <2>1
<1>6. CASE /\ get' = [get EXCEPT ![g] = [pc |-> "has", type |-> t, b |-> browsers[t]]]
           /\ UNCHANGED <<browsers, launches, browser>>
  BY <1>0, <1>1, <1>6
<1>7. QED BY <1>3, <1>4, <1>5, <1>6 DEF Pool!Acquire

\* Settling a launch ends it and answers everyone who waited for it, and nobody else.
LEMMA Settles ==
  ASSUME Pool!PoolAssumption, Pool!TypeOK, NEW t \in Pool!Types, NEW at \in {"has", "failed"},
         NEW b \in 0 .. MaxLaunches, Pool!Settle(t, at, b)
  PROVE  /\ launches' \in [Pool!Types -> LaunchType]
         /\ launches'[t] = Pool!NoLaunch /\ \A u \in Pool!Types : u # t =>
            launches'[u] = launches[u]
         /\ get' \in [Gets -> [pc : {"idle", "closing", "launch", "has", "failed"},
                               type : Pool!Types,
                               b : 0 .. MaxLaunches]]
<1>1. launches \in [Pool!Types -> LaunchType] /\ launches' = [launches EXCEPT ![t] = Pool!NoLaunch]
  BY DEF Pool!TypeOK, LaunchType, Pool!Settle
<1>2. launches' \in [Pool!Types -> LaunchType] /\ launches'[t] = Pool!NoLaunch
      /\ \A u \in Pool!Types : u # t => launches'[u] = launches[u]
  BY <1>1, NoLaunchTyped
<1>3. get' \in [Gets -> [pc : {"idle", "closing", "launch", "has", "failed"}, type : Pool!Types,
                         b : 0 .. MaxLaunches]]
  BY DEF Pool!TypeOK, Pool!Settle
<1>4. QED BY <1>2, <1>3

\* The browser that a launch replaces is closed.
LEMMA PoolClosesOld ==
  ASSUME Pool!PoolAssumption, Pool!IInv, NEW t \in Pool!Types, Pool!OldClosed(t)
  PROVE  Pool!IInv'
<1> USE Pool!PoolAssumption
<1> DEFINE l == [launches[t] EXCEPT !.step = "launching", !.old = 0]
<1>0. /\ Pool!TypeOK /\ launches[t] \in LaunchType /\ launches[t].step = "closing"
      /\ launches[t].old # 0 /\ browser[launches[t].old] = "gone" /\ launches[t].victim = 0
      /\ browsers[t] = 0
      /\ UNCHANGED <<browsers, closing, index, get>>
  BY DEF Pool!OldClosed, Pool!IInv, Pool!TypeOK, LaunchType, Pool!LaunchKnown, Pool!Launching
<1>1. /\ l \in LaunchType /\ l.step = "launching" /\ l.old = 0 /\ l.victim = 0
      /\ l.since = launches[t].since
  BY <1>0 DEF LaunchType, Pool!PoolAssumption
<1>2. launches' = [launches EXCEPT ![t] = l] /\ browser' = browser
  BY <1>0 DEF Pool!OldClosed, Pool!TypeOK
<1> HIDE DEF l
<1>3. Pool!TypeOK'
  BY <1>0, <1>1, <1>2 DEF Pool!TypeOK, LaunchType
<1>4. Pool!MapKnown'
  BY <1>0, <1>2 DEF Pool!IInv, Pool!MapKnown, Pool!Owned
<1>5. ASSUME NEW u \in Pool!Types PROVE Pool!LaunchKnown(u)'
  BY <1>0, <1>1, <1>2 DEF Pool!IInv, Pool!TypeOK, Pool!LaunchKnown, Pool!Launching
<1>6. QED BY <1>3, <1>4, <1>5 DEF Pool!IInv

\* A launch fails: those who waited for it fail.
LEMMA PoolLaunchFails ==
  ASSUME Pool!PoolAssumption, Pool!IInv, NEW t \in Pool!Types, Pool!LaunchFails(t)
  PROVE  Pool!IInv'
<1>0. /\ Pool!TypeOK /\ UNCHANGED <<browsers, closing, index, browser>>
      /\ launches' \in [Pool!Types -> LaunchType]
      /\ launches'[t] = Pool!NoLaunch /\ \A u \in Pool!Types : u # t => launches'[u] = launches[u]
      /\ get' \in [Gets -> [pc : {"idle", "closing", "launch", "has", "failed"}, type : Pool!Types,
                            b : 0 .. MaxLaunches]]
  BY Settles DEF Pool!LaunchFails, Pool!IInv, Pool!PoolAssumption
<1>1. Pool!TypeOK'
  BY <1>0 DEF Pool!TypeOK, LaunchType
<1>2. Pool!MapKnown'
  BY <1>0 DEF Pool!IInv, Pool!MapKnown, Pool!Owned
<1>3. ASSUME NEW u \in Pool!Types PROVE Pool!LaunchKnown(u)'
  BY <1>0 DEF Pool!IInv, Pool!LaunchKnown, Pool!Launching, Pool!NoLaunch
<1>4. QED BY <1>1, <1>2, <1>3 DEF Pool!IInv

\* With room for every type no launch evicts.
LEMMA PoolLaunches ==
  ASSUME Pool!PoolAssumption, Pool!Room, Pool!IInv, NEW t \in Pool!Types, Pool!Launched(t)
  PROVE  Pool!IInv'
<1>0. Pool!TypeOK /\ launches[t].step = "launching" /\ UNCHANGED <<closing, index>>
  BY DEF Pool!Launched, Pool!IInv
<1>1. PICK b \in Pool!Fresh :
         /\ browsers' = [browsers EXCEPT ![t] = b]
         /\ IF Cardinality({u \in Pool!Types : browsers'[u] # 0}) > MaxBrowsers
              THEN TRUE
              ELSE Pool!Settle(t, "has", b) /\ browser' = [browser EXCEPT ![b] = "up"]
  BY PoolCounts DEF Pool!Launched
<1>2. ~(Cardinality({u \in Pool!Types : browsers'[u] # 0}) > MaxBrowsers)
  <2> DEFINE some == {u \in Pool!Types : browsers'[u] # 0}
  <2>1. /\ IsFiniteSet(Pool!Types) /\ some \in SUBSET Pool!Types
    BY TypesAre
  <2>2. /\ IsFiniteSet(some) /\ Cardinality(some) <= Cardinality(Pool!Types)
    BY <2>1, FS_Subset
  <2>3. Cardinality(some) \in Nat /\ Cardinality(Pool!Types) \in Nat
    BY <2>1, <2>2, FS_CardinalityType
  <2> HIDE DEF some
  <2>4. ~(Cardinality(some) > MaxBrowsers)
    BY <2>2, <2>3, PoolCounts DEF Pool!Room, Pool!PoolAssumption
  <2>5. QED BY <2>4 DEF some
<1>3. b \in Pool!Browsers /\ b \in 0 .. MaxLaunches /\ b # 0 /\ browser[b] = "none"
  BY DEF Pool!Fresh, Pool!Browsers, Pool!PoolAssumption
<1>4. Pool!Settle(t, "has", b) /\ browser' = [browser EXCEPT ![b] = "up"]
  BY <1>1, <1>2
<1>5. /\ launches' \in [Pool!Types -> LaunchType]
      /\ launches'[t] = Pool!NoLaunch /\ \A u \in Pool!Types : u # t => launches'[u] = launches[u]
      /\ get' \in [Gets -> [pc : {"idle", "closing", "launch", "has", "failed"}, type : Pool!Types,
                            b : 0 .. MaxLaunches]]
  BY <1>0, <1>3, <1>4, Settles
<1>6. Pool!TypeOK'
  BY <1>0, <1>1, <1>3, <1>4, <1>5 DEF Pool!TypeOK, LaunchType
<1>7. Pool!MapKnown'
  <2>1. browsers[t] = 0
    BY <1>0 DEF Pool!IInv, Pool!LaunchKnown, Pool!Launching
  <2>2. ASSUME NEW c \in Pool!Browsers
        PROVE  browser'[c] # "closing" /\ (browser'[c] = "up" => Pool!Owned(c)')
    <3>1. CASE c = b
      BY <1>0, <1>1, <1>3, <1>4, <3>1 DEF Pool!TypeOK, Pool!Owned
    <3>2. CASE c # b
      <4>1. browser'[c] = browser[c]
        BY <1>0, <1>4, <3>2 DEF Pool!TypeOK
      <4>2. browser[c] = "up" => \E u \in Pool!Types : u # t /\ browsers[u] = c
        BY <2>1 DEF Pool!IInv, Pool!MapKnown, Pool!Owned, Pool!Browsers
      <4>3. \A u \in Pool!Types : u # t => browsers'[u] = browsers[u]
        BY <1>0, <1>1 DEF Pool!TypeOK
      <4>4. QED BY <4>1, <4>2, <4>3 DEF Pool!IInv, Pool!MapKnown, Pool!Owned
    <3>3. QED BY <3>1, <3>2
  <2>3. ASSUME NEW u \in Pool!Types, browsers'[u] # 0
        PROVE  browser'[browsers'[u]] \in {"up", "gone"}
    <3>1. CASE u = t
      BY <1>0, <1>1, <1>3, <1>4, <3>1 DEF Pool!TypeOK
    <3>2. CASE u # t
      <4>1. browsers'[u] = browsers[u] /\ browsers[u] \in Pool!Browsers
        BY <1>0, <1>1, <2>3, <3>2 DEF Pool!TypeOK, Pool!Browsers, Pool!PoolAssumption
      <4>2. browser[browsers[u]] \in {"up", "gone"}
        BY <2>3, <4>1 DEF Pool!IInv, Pool!MapKnown
      <4>3. QED BY <1>0, <1>3, <1>4, <4>1, <4>2 DEF Pool!TypeOK
    <3>3. QED BY <3>1, <3>2
  <2>4. QED BY <2>2, <2>3 DEF Pool!MapKnown
<1>8. ASSUME NEW u \in Pool!Types PROVE Pool!LaunchKnown(u)'
  <2>1. CASE u = t
    BY <1>5, <2>1 DEF Pool!LaunchKnown, Pool!Launching, Pool!NoLaunch
  <2>2. CASE u # t
    <3>1. /\ launches'[u] = launches[u] /\ browsers'[u] = browsers[u] /\ Pool!LaunchKnown(u)
          /\ launches[u].old \in 0 .. MaxLaunches
      BY <1>0, <1>1, <1>5, <2>2 DEF Pool!IInv, Pool!TypeOK
    <3>2. launches[u].step = "closing" => browser'[launches[u].old] = "gone"
      BY <1>0, <1>3, <1>4, <3>1, SMTT(60) DEF Pool!LaunchKnown, Pool!TypeOK, Pool!Browsers,
         Pool!PoolAssumption
    <3>3. QED BY <1>0, <3>1, <3>2 DEF Pool!LaunchKnown, Pool!Launching
  <2>3. QED BY <2>1, <2>2
<1>9. QED BY <1>6, <1>7, <1>8 DEF Pool!IInv

\* A browser crashes.
LEMMA PoolCrash ==
  ASSUME Pool!PoolAssumption, Pool!IInv, NEW b \in Pool!Browsers, Pool!Crash(b)
  PROVE  Pool!IInv'
<1> USE Pool!PoolAssumption DEF Pool!Crash, Pool!PoolAssumption
<1>1. Pool!TypeOK'
  BY DEF Pool!IInv, Pool!TypeOK
<1>2. Pool!MapKnown'
  BY DEF Pool!IInv, Pool!TypeOK, Pool!MapKnown, Pool!Owned, Pool!Browsers
<1>3. ASSUME NEW u \in Pool!Types PROVE Pool!LaunchKnown(u)'
  <2>1. Pool!LaunchKnown(u) /\ launches[u].old \in 0 .. MaxLaunches
            /\ UNCHANGED <<browsers, launches, closing>>
    BY DEF Pool!IInv, Pool!TypeOK
  <2>2. launches[u].step = "closing" => browser'[launches[u].old] = "gone"
    <3>1. launches[u].step = "closing" =>
            launches[u].old \in Pool!Browsers /\ browser[launches[u].old] = "gone"
      BY <2>1 DEF Pool!LaunchKnown, Pool!Browsers
    <3>2. QED BY <3>1 DEF Pool!IInv, Pool!TypeOK
  <2>3. QED BY <2>1, <2>2 DEF Pool!LaunchKnown, Pool!Launching
<1>4. QED BY <1>1, <1>2, <1>3 DEF Pool!IInv

\* closeAll begins, or closes every browser of the map.
LEMMA PoolCloses ==
  ASSUME Pool!PoolAssumption, Pool!IInv, Pool!CloseAll \/ Pool!CloseEnds
  PROVE  Pool!IInv'
<1> USE Pool!PoolAssumption DEF Pool!PoolAssumption
<1>1. CASE Pool!CloseAll
  <2>1. closing' \in [step : {"none", "drain"}, count : 0 .. MaxCloses] /\ closing'.step = "drain"
    BY <1>1 DEF Pool!CloseAll, Pool!IInv, Pool!TypeOK
  <2>2. Pool!TypeOK'
    BY <1>1, <2>1 DEF Pool!CloseAll, Pool!IInv, Pool!TypeOK
  <2>3. Pool!MapKnown' /\ \A u \in Pool!Types : Pool!LaunchKnown(u)'
    BY <1>1, <2>1 DEF Pool!CloseAll, Pool!IInv, Pool!MapKnown, Pool!LaunchKnown, Pool!Launching,
       Pool!Owned
  <2>4. QED BY <2>2, <2>3 DEF Pool!IInv
<1>2. CASE Pool!CloseEnds
  <2>1. closing' \in [step : {"none", "drain"}, count : 0 .. MaxCloses]
    BY <1>2 DEF Pool!CloseEnds, Pool!IInv, Pool!TypeOK
  <2>2. Pool!TypeOK'
    BY <1>2, <2>1 DEF Pool!CloseEnds, Pool!IInv, Pool!TypeOK
  <2>3. Pool!MapKnown'
    BY <1>2 DEF Pool!CloseEnds, Pool!IInv, Pool!TypeOK, Pool!MapKnown, Pool!Owned
  <2>4. ASSUME NEW u \in Pool!Types PROVE Pool!LaunchKnown(u)'
    BY <1>2 DEF Pool!CloseEnds, Pool!IInv, Pool!LaunchKnown, Pool!Launching
  <2>5. QED BY <2>2, <2>3, <2>4 DEF Pool!IInv
<1>3. QED BY <1>1, <1>2

\* Every step of the pool keeps its invariant.
LEMMA PoolStays ==
  ASSUME Pool!PoolAssumption, Pool!Room
  PROVE  Pool!IInv /\ [Pool!Next]_(Pool!vars) => Pool!IInv'
<1> SUFFICES ASSUME Pool!IInv, [Pool!Next]_(Pool!vars) PROVE Pool!IInv'
  OBVIOUS
<1>1. CASE UNCHANGED Pool!vars
  BY <1>1 DEF Pool!vars, Pool!IInv, Pool!TypeOK, Pool!MapKnown, Pool!LaunchKnown, Pool!Launching,
     Pool!Owned
<1>2. CASE Pool!CloseAll \/ Pool!CloseEnds
  BY <1>2, PoolCloses
<1>3. ASSUME NEW g \in Gets, Pool!WaitForClose(g) \/ Pool!Acquire(g) PROVE Pool!IInv'
  BY <1>3, PoolWaits, PoolAcquires
<1>4. ASSUME NEW t \in Pool!Types, Pool!OldClosed(t) \/ Pool!Launched(t) \/ Pool!LaunchFails(t)
                 \/ Pool!Evicted(t)
      PROVE  Pool!IInv'
  <2>1. ~Pool!Evicted(t)
    BY DEF Pool!Evicted, Pool!IInv, Pool!LaunchKnown
  <2>2. QED BY <1>4, <2>1, PoolClosesOld, PoolLaunches, PoolLaunchFails
<1>5. ASSUME NEW b \in Pool!Browsers, Pool!Crash(b) PROVE Pool!IInv'
  BY <1>5, PoolCrash
<1>6. QED BY <1>1, <1>2, <1>3, <1>4, <1>5 DEF Pool!Next

\* What the invariant of the pool means: its properties.
LEMMA PoolMeans ==
  ASSUME Pool!PoolAssumption, Pool!IInv
  PROVE  Pool!TypeOK /\ Pool!EveryBrowserIsOwned /\ Pool!OneBrowserPerType
<1>1. Pool!EveryBrowserIsOwned
  BY DEF Pool!IInv, Pool!MapKnown, Pool!EveryBrowserIsOwned
<1>2. Pool!OneBrowserPerType
  <2> DEFINE running == {b \in Pool!Browsers : browser[b] = "up"}
             f == [b \in running |-> CHOOSE t \in Pool!Types : browsers[t] = b]
  <2>1. \A b \in running : f[b] \in Pool!Types /\ browsers[f[b]] = b
    BY DEF Pool!IInv, Pool!MapKnown, Pool!Owned
  <2>2. f \in [running -> Pool!Types] /\ DOMAIN f = running
    BY <2>1
  <2> HIDE DEF f
  <2>3. \A a, b \in running : f[a] = f[b] => a = b
    BY <2>1
  <2>4. f \in Injection(running, Pool!Types)
    BY <2>2, <2>3 DEF Injection, IsInjective
  <2>5. QED BY <2>4, TypesAre, FS_Injection, PoolCounts DEF Pool!OneBrowserPerType
<1>3. QED BY <1>1, <1>2 DEF Pool!IInv

\* The step of a closing and that of a launch, by what they leave.
LEMMA PoolStepCloses ==
  ASSUME Pool!PoolAssumption, Pool!IInv, [Pool!Next]_(Pool!vars)
  PROVE  /\ (closing.step = "drain" /\ closing'.step = "none") =>
              \A b \in Pool!Browsers : browser'[b] \in {"none", "gone"}
         /\ \A t \in Pool!Types : (launches[t].step = "launching" /\ browsers'[t] # 0) =>
              closing.step = "drain" \/ launches[t].since = closing.count
<1>1. ASSUME NEW t \in Pool!Types, launches[t].step = "launching"
      PROVE  closing.step = "drain" \/ launches[t].since = closing.count
  BY <1>1 DEF Pool!IInv, Pool!LaunchKnown, Pool!Launching, Pool!TypeOK
<1>2. ASSUME closing.step = "drain", closing'.step = "none"
      PROVE  \A b \in Pool!Browsers : browser'[b] \in {"none", "gone"}
  <2>1. Pool!CloseEnds
    BY <1>2 DEF Pool!Next, Pool!vars, Pool!CloseAll, Pool!WaitForClose, Pool!Acquire,
       Pool!OldClosed, Pool!Launched, Pool!LaunchFails,
       Pool!Evicted, Pool!Crash
  <2>2. QED BY <2>1 DEF Pool!CloseEnds, Pool!IInv, Pool!TypeOK, Pool!MapKnown, Pool!Owned
<1>3. QED BY <1>1, <1>2

-----------------------------------------------------------------------------
(* The web searches, in either mode                                         *)

\* The instance counts as FiniteSets does.
LEMMA SearchCounts ==
  ASSUME NEW m, NEW S
  PROVE  /\ Search(m)!Cardinality(S) = Cardinality(S)
         /\ Search(m)!IsFiniteSet(S) = IsFiniteSet(S)
BY Zenon DEF Search!Cardinality, Cardinality, Search!IsFiniteSet, IsFiniteSet

\* The scores and the engines as numbers.
LEMMA Scored ==
  ASSUME NEW m
  PROVE  /\ Search(m)!Zero = 0 /\ Search(m)!Low = 1 /\ Search(m)!Fair = 2
         /\ Search(m)!Excellent = 3 /\ Search(m)!Nothing = -1
         /\ Search(m)!Bing = 1 /\ Search(m)!Brave = 2 /\ Search(m)!DuckDuckGo = 3
  BY DEF Search!Zero, Search!Low, Search!Fair, Search!Excellent, Search!Nothing, Search!Bing,
     Search!Brave, Search!DuckDuckGo

\* The next engine keeps what was found, and the end answers it.
LEMMA Advances ==
  ASSUME NEW m, NEW r \in Search(m)!SearchType, NEW f \in SUBSET Search(m)!Scores,
         Search(m)!SearchKnown(r, f), r.pc \in Search(m)!Inside
  PROVE  /\ Search(m)!Advance(r) \in Search(m)!SearchType
         /\ Search(m)!SearchKnown(Search(m)!Advance(r), f)
         /\ Search(m)!Advance(r).pc \in Search(m)!Inside \cup {"answered"}
<1> USE Scored DEF Search!Inside, Search!Over
<1>1. CASE r.engine # Search(m)!DuckDuckGo
  <2> DEFINE e == r.engine + 1
             at == "launch"
             a == 1
             b == FALSE
             x == [r EXCEPT !.pc = at, !.engine = e, !.attempt = a, !.browser = b]
  <2>1. Search(m)!Advance(r) = x
    BY <1>1 DEF Search!Advance
  <2>2. /\ e \in Search(m)!Bing .. Search(m)!DuckDuckGo /\ at \in Search(m)!Inside
        /\ a \in 1 .. 2 /\ b \in BOOLEAN
        /\ at = "launch" /\ b = FALSE
    BY <1>1 DEF Search!SearchType
  <2> HIDE DEF e, at, a, b
  <2>3. x \in Search(m)!SearchType /\ x.pc = at /\ x.browser = b /\ x.quality = r.quality
            /\ x.best = r.best
    BY <2>2 DEF Search!SearchType
  <2>4. x.pc = "launch" /\ x.browser = FALSE /\ x.quality = r.quality /\ x.best = r.best
    BY <2>2, <2>3
  <2> HIDE DEF x
  <2>5. Search(m)!SearchKnown(x, f)
    BY <2>4 DEF Search!SearchKnown
  <2>6. QED BY <2>1, <2>3, <2>4, <2>5
<1>2. CASE r.engine = Search(m)!DuckDuckGo
  <2> DEFINE a == IF r.best THEN r.quality ELSE Search(m)!Nothing
             x == [r EXCEPT !.pc = "answered", !.browser = FALSE, !.answer = a]
  <2>1. Search(m)!Advance(r) = x
    BY <1>2 DEF Search!Advance
  <2>2. a \in Search(m)!Scores
    BY DEF Search!SearchType, Search!Scores
  <2>3. \A q \in f : q > Search(m)!Zero => a >= q
    BY DEF Search!SearchKnown, Search!SearchType, Search!Scores
  <2> HIDE DEF a
  <2>4. /\ x \in Search(m)!SearchType /\ x.pc = "answered" /\ x.browser = FALSE
        /\ x.quality = r.quality
        /\ x.best = r.best /\ x.answer = a
    BY <2>2 DEF Search!SearchType
  <2> HIDE DEF x
  <2>5. Search(m)!SearchKnown(x, f)
    BY <2>3, <2>4 DEF Search!SearchKnown
  <2>6. QED BY <2>1, <2>4, <2>5
<1>3. QED BY <1>1, <1>2

\* Results end the search, or are kept if they are the best.
LEMMA Considers ==
  ASSUME NEW m, Search(m)!SearchAssumption, Search(m)!IInv, NEW s \in Searches,
         NEW q \in Search(m)!Scores, search[s].pc \in Search(m)!Inside,
         NEW f \in SUBSET Search(m)!Scores,
         f = IF q = Search(m)!Nothing THEN found[s]
             ELSE found[s] \cup {IF CheckQuality THEN q ELSE Search(m)!Excellent}
  PROVE  /\ Search(m)!Consider(s, q) \in Search(m)!SearchType
         /\ Search(m)!SearchKnown(Search(m)!Consider(s, q), f)
         /\ Search(m)!Consider(s, q).pc \in Search(m)!Inside \cup {"answered"}
<1> USE Scored
<1> DEFINE r == search[s]
           score == IF CheckQuality THEN q ELSE Search(m)!Excellent
           kept == IF score > r.quality THEN [r EXCEPT !.quality = score, !.best = TRUE] ELSE r
<1>1. r \in Search(m)!SearchType /\ Search(m)!SearchKnown(r, found[s])
          /\ found[s] \in SUBSET Search(m)!Scores
  BY DEF Search!IInv, Search!TypeOK, Search!SearchType, Search!SearchKnown
<1>2. CASE q = Search(m)!Nothing
  <2>1. Search(m)!Consider(s, q) = Search(m)!Advance(r)
    BY <1>2 DEF Search!Consider
  <2>2. QED BY <1>1, <1>2, <2>1, Advances
<1>3. CASE q # Search(m)!Nothing
  <2>1. score \in Search(m)!Zero .. Search(m)!Excellent /\ score \in Search(m)!Scores
            /\ f = found[s] \cup {score}
    BY <1>3 DEF Search!Scores
  <2>2. /\ kept \in Search(m)!SearchType /\ kept.pc = r.pc /\ kept.pc \in Search(m)!Inside
        /\ kept.engine = r.engine /\ kept.browser = r.browser
        /\ kept.quality >= score /\ kept.quality >= r.quality
        /\ kept.quality > Search(m)!Zero => kept.best
    <3> HIDE DEF r, score
    <3>1. CASE score > r.quality
      <4> DEFINE x == [r EXCEPT !.quality = score, !.best = TRUE]
      <4>1. x \in Search(m)!SearchType /\ x.pc = r.pc /\ x.engine = r.engine
                /\ x.browser = r.browser
            /\ x.quality = score /\ x.best = TRUE
        BY <1>1, <2>1 DEF Search!SearchType
      <4>2. kept = x
        BY <3>1
      <4> HIDE DEF x, kept
      <4>3. r.quality \in Int /\ score \in Int /\ r.pc \in Search(m)!Inside
        BY <1>1, <2>1 DEF Search!SearchType, r
      <4>4. QED BY <3>1, <4>1, <4>2, <4>3
    <3>2. CASE ~(score > r.quality)
      <4>1. kept = r
        BY <3>2
      <4> HIDE DEF kept
      <4>2. r.quality \in Int /\ score \in Int /\ r.pc \in Search(m)!Inside
        BY <1>1, <2>1 DEF Search!SearchType, r
      <4>3. QED BY <1>1, <3>2, <4>1, <4>2 DEF Search!SearchKnown
    <3>3. QED BY <3>1, <3>2
  <2>3. Search(m)!SearchKnown(kept, f)
    <3> HIDE DEF kept, r, score
    <3>1. kept.pc # "answered" /\ r.pc # "answered"
      BY <2>2 DEF Search!Inside
    <3>2. r.quality \in Int /\ kept.quality \in Int /\ score \in Int
      BY <1>1, <2>1, <2>2 DEF Search!SearchType
    <3>3. \A p \in f : p \in Int
      BY DEF Search!Scores
    <3>4. QED BY <1>1, <2>1, <2>2, <3>1, <3>2, <3>3 DEF Search!SearchKnown
  <2>4. CASE score >= Search(m)!Fair /\ Search(m)!Consider(s, q) = Search(m)!Answer(s, score)
    <3> DEFINE x == [r EXCEPT !.pc = "answered", !.browser = FALSE, !.answer = score]
    <3>1. Search(m)!Consider(s, q) = x
      BY <2>4 DEF Search!Answer
    <3> HIDE DEF r, score
    <3>2. /\ x \in Search(m)!SearchType /\ x.pc = "answered" /\ x.browser = FALSE
          /\ x.answer = score
          /\ x.quality = r.quality /\ x.best = r.best
      BY <1>1, <2>1 DEF Search!SearchType, Search!Over
    <3> HIDE DEF x
    <3>3. Search(m)!SearchKnown(x, f)
      BY <1>1, <2>4, <3>2 DEF Search!SearchKnown
    <3>4. QED BY <3>1, <3>2, <3>3
  <2>5. CASE Search(m)!Consider(s, q) = [kept EXCEPT !.pc = "answered",
                                 !.answer = IF kept.best THEN kept.quality ELSE Search(m)!Nothing]
             /\ r.engine = Search(m)!DuckDuckGo
    <3>0. kept.browser = FALSE
      BY <1>1, <2>2, <2>5 DEF Search!SearchKnown, Search!SearchType
    <3> HIDE DEF kept
    <3> DEFINE a == IF kept.best THEN kept.quality ELSE Search(m)!Nothing
               x == [kept EXCEPT !.pc = "answered", !.answer = a]
    <3>1. Search(m)!Consider(s, q) = x
      BY <2>5
    <3>2. a \in Search(m)!Scores /\ \A p \in f : p > Search(m)!Zero => a >= p
      <4>1. kept.pc # "answered" /\ kept.quality \in Search(m)!Zero .. Search(m)!Excellent
        BY <2>2 DEF Search!Inside, Search!SearchType
      <4>2. QED BY <2>2, <2>3, <4>1 DEF Search!SearchKnown, Search!Scores
    <3> HIDE DEF a
    <3>3. /\ x \in Search(m)!SearchType /\ x.pc = "answered" /\ x.browser = kept.browser
          /\ x.answer = a
          /\ x.quality = kept.quality /\ x.best = kept.best
      BY <2>2, <3>2 DEF Search!SearchType, Search!Over
    <3> HIDE DEF x
    <3>4. Search(m)!SearchKnown(x, f)
      BY <2>2, <2>5, <3>0, <3>2, <3>3 DEF Search!SearchKnown
    <3>5. QED BY <3>1, <3>3, <3>4
  <2>6. CASE Search(m)!Consider(s, q) = Search(m)!Advance(kept)
    <3> HIDE DEF kept
    <3>1. QED BY <2>2, <2>3, <2>6, Advances
  <2>7. \/ score >= Search(m)!Fair /\ Search(m)!Consider(s, q) = Search(m)!Answer(s, score)
        \/ Search(m)!Consider(s, q) = [kept EXCEPT !.pc = "answered",
                                 !.answer = IF kept.best THEN kept.quality ELSE Search(m)!Nothing]
           /\ r.engine = Search(m)!DuckDuckGo
        \/ Search(m)!Consider(s, q) = Search(m)!Advance(kept)
    <3> DEFINE good == \/ score >= Search(m)!Excellent /\ ~m
                       \/ score >= Search(m)!Fair /\ r.engine # Search(m)!Bing /\ ~m
               last == r.engine = Search(m)!DuckDuckGo
                   /\ (kept.quality >= Search(m)!Fair \/ ~CheckQuality \/ kept.best)
               end == [kept EXCEPT !.pc = "answered",
                                   !.answer = IF kept.best THEN kept.quality ELSE Search(m)!Nothing]
    <3>1. Search(m)!Consider(s, q) =
            IF good THEN Search(m)!Answer(s, score)
            ELSE IF last THEN end ELSE Search(m)!Advance(kept)
      <4>1. Search(m)!Consider(s, q) = IF q = Search(m)!Nothing THEN Search(m)!Advance(r) ELSE
              IF good THEN Search(m)!Answer(s, score)
              ELSE IF last THEN end ELSE Search(m)!Advance(kept)
        BY Zenon DEF Search!Consider
      <4> HIDE DEF good, last, end, kept, score, r
      <4>2. QED BY <1>3, <4>1
    <3>2. good => score >= Search(m)!Fair
      BY <2>1
    <3>3. last => r.engine = Search(m)!DuckDuckGo
      OBVIOUS
    <3> HIDE DEF good, last, kept, score, r
    <3>4. QED BY <3>1, <3>2, <3>3
  <2>8. QED BY <2>4, <2>5, <2>6, <2>7
<1>4. QED BY <1>2, <1>3

\* No search was begun and the limiter is fresh.
LEMMA SearchesStart ==
  ASSUME NEW m, Search(m)!SearchAssumption
  PROVE  Search(m)!Init => Search(m)!IInv
<1> SUFFICES ASSUME Search(m)!Init PROVE Search(m)!IInv
  OBVIOUS
<1> USE Scored, Search(m)!SearchAssumption DEF Search!Init, Search!SearchAssumption
<1>1. Search(m)!TypeOK
  <2>1. 0 \in 0 .. Search(m)!Cardinality(Searches)
    BY FS_CardinalityType, SearchCounts
  <2>2. [pc |-> "idle", engine |-> Search(m)!Bing, attempt |-> 1, browser |-> FALSE,
         quality |-> Search(m)!Zero,
         best |-> FALSE, answer |-> Search(m)!Nothing] \in Search(m)!SearchType
    BY DEF Search!SearchType, Search!Scores
  <2>3. search \in [Searches -> Search(m)!SearchType]
    BY <2>2
  <2>4. QED
    <3>1. clock \in 0 .. MaxClock
      OBVIOUS
    <3>2. limiter \in [count : 0 .. Search(m)!Cardinality(Searches), reset : 0 .. MaxClock]
      BY <2>1
    <3>3. found \in [Searches -> SUBSET Search(m)!Scores]
      OBVIOUS
    <3>4. QED BY <3>1, <3>2, <3>3, <2>3 DEF Search!TypeOK
<1>2. Search(m)!BegunCounted
  <2>1. Search(m)!Begun = {}
    BY DEF Search!Begun, Search!Inside
  <2>2. QED BY <2>1, FS_EmptySet, SearchCounts DEF Search!BegunCounted
<1>3. \A s \in Searches : Search(m)!SearchKnown(search[s], found[s])
  BY DEF Search!SearchKnown
<1>4. QED BY <1>1, <1>2, <1>3 DEF Search!IInv

\* One search goes on, to what is known of it; the limiter counts it when it begins.
LEMMA SearchSteps ==
  ASSUME NEW m, Search(m)!SearchAssumption, Search(m)!IInv, NEW s \in Searches,
         NEW x \in Search(m)!SearchType,
         search' = [search EXCEPT ![s] = x], clock' = clock,
         NEW f \in SUBSET Search(m)!Scores, found' =
           [found EXCEPT ![s] = f], Search(m)!SearchKnown(x, f),
         limiter' \in [count : Nat, reset : 0 .. MaxClock],
         \/ /\ search[s].pc \in Search(m)!Inside /\ x.pc \in Search(m)!Inside \cup {"answered"}
            /\ limiter' = limiter
         \/ /\ search[s].pc \in {"idle", "queued"} /\ x.pc \in {"queued", "refused"}
            /\ limiter'.count \in {0, limiter.count}
         \/ /\ search[s].pc = "queued" /\ x.pc \in Search(m)!Inside
            /\ limiter'.count = limiter.count + 1
  PROVE  Search(m)!IInv'
<1> USE Scored, Search(m)!SearchAssumption DEF Search!SearchAssumption
<1>1. /\ search \in [Searches -> Search(m)!SearchType]
      /\ found \in [Searches -> SUBSET Search(m)!Scores] /\ Search(m)!TypeOK
      /\ limiter.count \in Nat /\ Search(m)!BegunCounted
  BY FS_CardinalityType, SearchCounts DEF Search!IInv, Search!TypeOK, Search!SearchType
<1>2. /\ search' \in [Searches -> Search(m)!SearchType] /\ search'[s] = x
      /\ \A u \in Searches : u # s => search'[u] = search[u]
      /\ found' \in [Searches -> SUBSET Search(m)!Scores] /\ found'[s] = f
      /\ \A u \in Searches : u # s => found'[u] = found[u]
  BY <1>1
<1>3. ASSUME NEW u \in Searches PROVE Search(m)!SearchKnown(search[u], found[u])'
  <2>1. CASE u = s
    BY <1>2, <2>1 DEF Search!SearchKnown
  <2>2. CASE u # s
    BY <1>2, <2>2 DEF Search!IInv, Search!SearchKnown
  <2>3. QED BY <2>1, <2>2
<1>4. /\ IsFiniteSet(Search(m)!Begun) /\ IsFiniteSet(Search(m)!Begun')
      /\ Cardinality(Search(m)!Begun) \in Nat
      /\ Cardinality(Search(m)!Begun') \in Nat
      /\ Cardinality(Search(m)!Begun') <= Cardinality(Searches)
      /\ Cardinality(Searches) \in Nat
  <2>1. Search(m)!Begun \in SUBSET Searches /\ Search(m)!Begun' \in SUBSET Searches
    BY DEF Search!Begun
  <2>2. QED BY <2>1, FS_Subset, FS_CardinalityType, SearchCounts
<1>5. Search(m)!BegunCounted'
  <2>1. CASE search[s].pc \in Search(m)!Inside /\ x.pc \in Search(m)!Inside \cup {"answered"}
            /\ limiter' = limiter
    <3>1. Search(m)!Begun' = Search(m)!Begun
      BY <1>2, <2>1 DEF Search!Begun
    <3>2. QED BY <1>1, <2>1, <3>1 DEF Search!BegunCounted
  <2>2. CASE /\ search[s].pc \in {"idle", "queued"} /\ x.pc \in {"queued", "refused"}
             /\ limiter'.count \in {0, limiter.count}
    <3>1. Search(m)!Begun' = Search(m)!Begun
      BY <1>2, <2>2 DEF Search!Begun, Search!Inside
    <3>2. QED BY <1>1, <1>4, <2>2, <3>1, SearchCounts DEF Search!BegunCounted
  <2>3. CASE search[s].pc = "queued" /\ x.pc \in Search(m)!Inside
            /\ limiter'.count = limiter.count + 1
    <3>1. Search(m)!Begun' = Search(m)!Begun \cup {s} /\ s \notin Search(m)!Begun
      BY <1>2, <2>3 DEF Search!Begun, Search!Inside
    <3>2. Cardinality(Search(m)!Begun') = Cardinality(Search(m)!Begun) + 1
      BY <1>4, <3>1, FS_AddElement
    <3>3. QED BY <1>1, <1>4, <2>3, <3>2, SearchCounts DEF Search!BegunCounted
  <2>4. QED BY <2>1, <2>2, <2>3
<1>6. limiter'.count <= Cardinality(Searches)
  BY <1>4, <1>5, SearchCounts DEF Search!BegunCounted
<1>7. limiter' \in [count : 0 .. Cardinality(Searches), reset : 0 .. MaxClock]
  BY <1>4, <1>6
<1>8. Search(m)!TypeOK'
  BY <1>1, <1>2, <1>7, SearchCounts DEF Search!TypeOK, Search!SearchType
<1>9. QED BY <1>3, <1>5, <1>8 DEF Search!IInv

\* What is known of a search, and of the records its steps make of it.
LEMMA SearchFacts ==
  ASSUME NEW m, Search(m)!SearchAssumption, Search(m)!IInv, NEW s \in Searches
  PROVE  /\ search[s] \in Search(m)!SearchType /\ Search(m)!SearchKnown(search[s], found[s])
         /\ found[s] \in SUBSET Search(m)!Scores
         /\ found = [found EXCEPT ![s] = found[s]]
         /\ limiter \in [count : Nat, reset : 0 .. MaxClock] /\ clock \in 0 .. MaxClock
  BY FS_CardinalityType, SearchCounts DEF Search!SearchAssumption, Search!IInv, Search!TypeOK,
     Search!SearchType, Search!SearchKnown

\* A search at another step, which may need its browser or an engine that has one.
LEMMA Moves ==
  ASSUME NEW m, NEW r \in Search(m)!SearchType, NEW f \in SUBSET Search(m)!Scores,
         Search(m)!SearchKnown(r, f), r.pc # "answered",
         NEW at \in {"queued", "refused"} \cup Search(m)!Inside,
         r.browser => at \in {"page", "direct", "failed"},
         at \in {"page", "direct", "failed"} => r.engine # Search(m)!DuckDuckGo
  PROVE  /\ [r EXCEPT !.pc = at] \in Search(m)!SearchType /\ [r EXCEPT !.pc = at].pc = at
         /\ Search(m)!SearchKnown([r EXCEPT !.pc = at], f)
<1> DEFINE x == [r EXCEPT !.pc = at]
<1>1. /\ x \in Search(m)!SearchType /\ x.pc = at /\ x.browser = r.browser /\ x.quality = r.quality
      /\ x.best = r.best /\ x.answer = r.answer /\ x.engine = r.engine
  BY DEF Search!SearchType, Search!Inside, Search!Over
<1> HIDE DEF x
<1>2. at # "answered"
  BY DEF Search!Inside
<1>3. Search(m)!SearchKnown(x, f)
  BY <1>1, <1>2 DEF Search!SearchKnown
<1>4. QED BY <1>1, <1>3 DEF x

\* The clock goes on.
LEMMA StepTick ==
  ASSUME NEW m, Search(m)!SearchAssumption, Search(m)!IInv, Search(m)!Tick
  PROVE  Search(m)!IInv'
<1>1. Search(m)!TypeOK'
  BY DEF Search!Tick, Search!IInv, Search!TypeOK, Search!SearchAssumption
<1>2. QED BY <1>1 DEF Search!Tick, Search!IInv, Search!SearchKnown, Search!BegunCounted, Search!Begun

\* A search is counted in the interval of the limiter or in a new one: queued or
\* refused.
LEMMA StepExecute ==
  ASSUME NEW m, Search(m)!SearchAssumption, Search(m)!IInv, NEW s \in Searches,
         Search(m)!Execute(s)
  PROVE  Search(m)!IInv'
<1> DEFINE r == search[s]
           fresh == IF clock - limiter.reset >= Interval THEN [count |-> 0,
                                                               reset |-> clock] ELSE limiter
           at == IF fresh.count >= MaxRequests THEN "refused" ELSE "queued"
           x == [r EXCEPT !.pc = at]
<1>1. /\ r \in Search(m)!SearchType /\ Search(m)!SearchKnown(r, found[s])
      /\ found[s] \in SUBSET Search(m)!Scores
      /\ found = [found EXCEPT ![s] = found[s]] /\ r.pc = "idle"
      /\ limiter \in [count : Nat, reset : 0 .. MaxClock] /\ clock \in 0 .. MaxClock
      /\ limiter' = fresh /\ search' = [search EXCEPT ![s] = x]
      /\ UNCHANGED <<clock, found>> /\ at \in {"refused", "queued"}
  BY SearchFacts DEF Search!Execute
<1>2. /\ fresh \in [count : Nat, reset : 0 .. MaxClock]
      /\ fresh.count \in {0, limiter.count}
  BY <1>1
<1>3. ~r.browser
  BY <1>1 DEF Search!SearchKnown
<1> HIDE DEF r, fresh, at
<1>4. x \in Search(m)!SearchType /\ x.pc = at /\ Search(m)!SearchKnown(x, found[s])
  BY <1>1, <1>3, Moves
<1> HIDE DEF x
<1>5. QED BY <1>1, <1>2, <1>4, SearchSteps DEF r

\* A queued search gets its place and is counted.
LEMMA StepBegin ==
  ASSUME NEW m, Search(m)!SearchAssumption, Search(m)!IInv, NEW s \in Searches, Search(m)!Begin(s)
  PROVE  Search(m)!IInv'
<1> DEFINE r == search[s]
           x == [r EXCEPT !.pc = "launch"]
<1>1. /\ r \in Search(m)!SearchType /\ Search(m)!SearchKnown(r, found[s])
      /\ found[s] \in SUBSET Search(m)!Scores
      /\ found = [found EXCEPT ![s] = found[s]] /\ r.pc = "queued"
      /\ limiter \in [count : Nat, reset : 0 .. MaxClock]
      /\ limiter' = [limiter EXCEPT !.count = @ + 1] /\ search' = [search EXCEPT ![s] = x]
      /\ UNCHANGED <<clock, found>>
  BY SearchFacts DEF Search!Begin
<1>2. limiter' \in [count : Nat, reset : 0 .. MaxClock] /\ limiter'.count = limiter.count + 1
  BY <1>1
<1>3. ~r.browser
  BY <1>1 DEF Search!SearchKnown
<1> HIDE DEF r
<1>4. "launch" \in Search(m)!Inside
  BY DEF Search!Inside
<1>5. x \in Search(m)!SearchType /\ x.pc = "launch" /\ Search(m)!SearchKnown(x, found[s])
  BY <1>1, <1>3, <1>4, Moves
<1> HIDE DEF x
<1>6. QED BY <1>1, <1>2, <1>4, <1>5, SearchSteps DEF r

\* A step of an engine that finds nothing new.
LEMMA StepInside ==
  ASSUME NEW m, Search(m)!SearchAssumption, Search(m)!IInv, NEW s \in Searches,
         search[s].pc \in Search(m)!Inside,
         NEW x \in Search(m)!SearchType, search' = [search EXCEPT ![s] = x],
         UNCHANGED <<clock, limiter, found>>,
         x.pc \in Search(m)!Inside \cup {"answered"}, Search(m)!SearchKnown(x, found[s])
  PROVE  Search(m)!IInv'
  BY SearchFacts, SearchSteps

\* An engine returns results, and the search considers them.
LEMMA StepReturns ==
  ASSUME NEW m, Search(m)!SearchAssumption, Search(m)!IInv, NEW s \in Searches,
         search[s].pc \in Search(m)!Inside,
         NEW q \in Search(m)!Scores, Search(m)!Returns(s, q)
  PROVE  Search(m)!IInv'
<1> DEFINE f == IF q = Search(m)!Nothing THEN found[s]
                ELSE found[s] \cup {IF CheckQuality THEN q ELSE Search(m)!Excellent}
           x == Search(m)!Consider(s, q)
<1>1. /\ found[s] \in SUBSET Search(m)!Scores /\ found = [found EXCEPT ![s] = found[s]]
      /\ limiter \in [count : Nat, reset : 0 .. MaxClock]
  BY SearchFacts
<1>2. /\ f \in SUBSET Search(m)!Scores /\ found' = [found EXCEPT ![s] = f]
      /\ search' = [search EXCEPT ![s] = x] /\ UNCHANGED <<clock, limiter>>
  BY <1>1 DEF Search!Returns, Search!Scores
<1>3. x \in Search(m)!SearchType /\ Search(m)!SearchKnown(x, f)
          /\ x.pc \in Search(m)!Inside \cup {"answered"}
  BY <1>2, Considers
<1> HIDE DEF x, f
<1>4. QED BY <1>1, <1>2, <1>3, SearchSteps

\* Whatever an engine does, its results or its failure are considered.
LEMMA StepEngine ==
  ASSUME NEW m, Search(m)!SearchAssumption, Search(m)!IInv, NEW s \in Searches,
         Search(m)!Engine(s)
  PROVE  Search(m)!IInv'
<1> DEFINE r == search[s]
<1> USE Scored
<1>1. /\ r \in Search(m)!SearchType /\ Search(m)!SearchKnown(r, found[s])
      /\ found[s] \in SUBSET Search(m)!Scores
      /\ r.pc # "answered" =>
         (r.pc \in {"page", "direct", "failed"} => r.engine # Search(m)!DuckDuckGo)
  BY SearchFacts DEF Search!SearchKnown
<1>2. CASE Search(m)!Launch(s)
  <2>1. r.pc = "launch" /\ r.engine # Search(m)!DuckDuckGo /\ UNCHANGED <<clock, limiter, found>>
    BY <1>2 DEF Search!Launch, Search!Step
  <2>2. CASE search' = [search EXCEPT ![s].pc = "page", ![s].browser = TRUE]
    <3> DEFINE at == "page"
               b == TRUE
               x == [r EXCEPT !.pc = at, !.browser = b]
    <3>1. search' = [search EXCEPT ![s] = x]
      BY <2>2
    <3>2. r.pc \in Search(m)!Inside
      BY <2>1 DEF Search!Inside
    <3>3. /\ x \in Search(m)!SearchType /\ x.pc = "page" /\ x.quality = r.quality
          /\ x.engine = r.engine
          /\ x.best = r.best
      <4>1. at \in Search(m)!Inside /\ at = "page" /\ b \in BOOLEAN
        BY DEF Search!Inside
      <4> HIDE DEF r, at, b
      <4>2. QED BY <1>1, <4>1 DEF Search!SearchType
    <3> HIDE DEF r
    <3> HIDE DEF x
    <3>4. Search(m)!SearchKnown(x, found[s])
      BY <1>1, <2>1, <3>3 DEF Search!SearchKnown
    <3>5. QED BY <2>1, <3>1, <3>2, <3>3, <3>4, StepInside DEF r, Search!Inside
  <2>3. CASE Search(m)!Step(s, "failed")
    <3> DEFINE x == [r EXCEPT !.pc = "failed"]
    <3>1. search' = [search EXCEPT ![s] = x] /\ r.pc \in Search(m)!Inside
      BY <2>1, <2>3 DEF Search!Step, Search!Inside
    <3> HIDE DEF r
    <3>2. x \in Search(m)!SearchType /\ x.pc = "failed" /\ Search(m)!SearchKnown(x, found[s])
      <4>1. "failed" \in Search(m)!Inside /\ r.pc # "answered" /\ r.engine # Search(m)!DuckDuckGo
        BY <1>1, <2>1 DEF Search!Inside
      <4>2. QED BY <1>1, <4>1, Moves
    <3> HIDE DEF x
    <3>3. QED BY <2>1, <3>1, <3>2, StepInside DEF r, Search!Inside
  <2>4. QED BY <1>2, <2>2, <2>3 DEF Search!Launch
<1>3. CASE Search(m)!BingFormFails(s)
  <2> DEFINE x == [r EXCEPT !.pc = "direct"]
  <2>1. /\ search' = [search EXCEPT ![s] = x] /\ r.pc = "page" /\ r.pc \in Search(m)!Inside
        /\ r.engine # Search(m)!DuckDuckGo /\ UNCHANGED <<clock, limiter, found>>
    BY <1>3 DEF Search!BingFormFails, Search!Step, Search!Inside
  <2> HIDE DEF r
  <2>2. x \in Search(m)!SearchType /\ x.pc = "direct" /\ Search(m)!SearchKnown(x, found[s])
    <3>1. "direct" \in Search(m)!Inside /\ r.pc # "answered" /\ r.engine # Search(m)!DuckDuckGo
      BY <1>1, <2>1 DEF Search!Inside
    <3>2. QED BY <1>1, <3>1, Moves
  <2> HIDE DEF x
  <2>3. QED BY <2>1, <2>2, StepInside DEF r, Search!Inside
<1>4. CASE Search(m)!PageFails(s)
  <2> DEFINE x == [r EXCEPT !.pc = "failed"]
  <2>1. /\ search' = [search EXCEPT ![s] = x] /\ r.pc \in {"page", "direct"}
        /\ r.pc \in Search(m)!Inside
        /\ UNCHANGED <<clock, limiter, found>>
    BY <1>4 DEF Search!PageFails, Search!Step, Search!Inside
  <2> HIDE DEF r
  <2>2. x \in Search(m)!SearchType /\ x.pc = "failed" /\ Search(m)!SearchKnown(x, found[s])
    <3>1. "failed" \in Search(m)!Inside /\ r.pc # "answered" /\ r.engine # Search(m)!DuckDuckGo
      BY <1>1, <2>1 DEF Search!Inside
    <3>2. QED BY <1>1, <3>1, Moves
  <2> HIDE DEF x
  <2>3. QED BY <2>1, <2>2, StepInside DEF r, Search!Inside
<1>5. CASE Search(m)!AttemptFailed(s)
  <2>1. /\ r.pc = "failed" /\ r.pc \in Search(m)!Inside /\ UNCHANGED <<clock, limiter, found>>
        /\ search' = [search EXCEPT ![s] =
              IF r.attempt = 1 THEN [r EXCEPT !.pc = "launch", !.attempt = 2, !.browser = FALSE]
              ELSE Search(m)!Advance(r)]
    BY <1>5 DEF Search!AttemptFailed, Search!Inside
  <2>2. CASE r.attempt = 1
    <3> DEFINE at == "launch"
               a == 2
               b == FALSE
               x == [r EXCEPT !.pc = at, !.attempt = a, !.browser = b]
    <3>1. search' = [search EXCEPT ![s] = x]
      BY <2>1, <2>2
    <3>2. /\ x \in Search(m)!SearchType /\ x.pc = "launch" /\ x.quality = r.quality
          /\ x.engine = r.engine
          /\ x.best = r.best /\ x.browser = FALSE
      <4>1. at \in Search(m)!Inside /\ at = "launch" /\ a \in 1 .. 2 /\ b \in BOOLEAN /\ b = FALSE
        BY DEF Search!Inside
      <4> HIDE DEF r, at, a, b
      <4>2. QED BY <1>1, <4>1 DEF Search!SearchType
    <3> HIDE DEF r
    <3> HIDE DEF x
    <3>3. Search(m)!SearchKnown(x, found[s])
      BY <1>1, <2>1, <3>2 DEF Search!SearchKnown
    <3>4. QED BY <2>1, <3>1, <3>2, <3>3, StepInside DEF r, Search!Inside
  <2>3. CASE r.attempt # 1
    <3>1. search' = [search EXCEPT ![s] = Search(m)!Advance(r)]
      BY <2>1, <2>3
    <3> HIDE DEF r
    <3>2. Search(m)!Advance(r) \in Search(m)!SearchType
              /\ Search(m)!SearchKnown(Search(m)!Advance(r), found[s])
          /\ Search(m)!Advance(r).pc \in Search(m)!Inside \cup {"answered"}
      BY <1>1, <2>1, Advances
    <3>3. QED BY <2>1, <3>1, <3>2, StepInside DEF r
  <2>4. QED BY <2>2, <2>3
<1>6. CASE Search(m)!DuckFails(s)
  <2>1. /\ r.pc = "launch" /\ r.pc \in Search(m)!Inside /\ UNCHANGED <<clock, limiter, found>>
        /\ search' = [search EXCEPT ![s] = Search(m)!Advance(r)]
    BY <1>6 DEF Search!DuckFails, Search!Inside
  <2> HIDE DEF r
  <2>2. Search(m)!Advance(r) \in Search(m)!SearchType
            /\ Search(m)!SearchKnown(Search(m)!Advance(r), found[s])
        /\ Search(m)!Advance(r).pc \in Search(m)!Inside \cup {"answered"}
    BY <1>1, <2>1, Advances
  <2>3. QED BY <2>1, <2>2, StepInside DEF r
<1>7. ASSUME NEW q \in Search(m)!Scores, Search(m)!BingForm(s, q) \/ Search(m)!BingDirect(s, q)
                 \/ Search(m)!BravePage(s, q) \/ Search(m)!Duck(s, q)
      PROVE  Search(m)!IInv'
  BY <1>7, StepReturns DEF Search!BingForm, Search!BingDirect, Search!BravePage, Search!Duck,
     Search!Inside
<1>8. QED BY <1>2, <1>3, <1>4, <1>5, <1>6, <1>7 DEF Search!Engine

\* Every step of the searches keeps their invariant.
LEMMA SearchesStay ==
  ASSUME NEW m, Search(m)!SearchAssumption
  PROVE  Search(m)!IInv /\ [Search(m)!Next]_(Search(m)!vars) => Search(m)!IInv'
<1> SUFFICES ASSUME Search(m)!IInv, [Search(m)!Next]_(Search(m)!vars) PROVE Search(m)!IInv'
  OBVIOUS
<1>1. CASE UNCHANGED Search(m)!vars
  BY <1>1 DEF Search!vars, Search!IInv, Search!TypeOK, Search!SearchKnown, Search!BegunCounted,
     Search!Begun
<1>2. CASE Search(m)!Tick
  BY <1>2, StepTick
<1>3. ASSUME NEW s \in Searches, Search(m)!Execute(s) \/ Search(m)!Begin(s) \/ Search(m)!Engine(s)
      PROVE  Search(m)!IInv'
  BY <1>3, StepExecute, StepBegin, StepEngine
<1>4. QED BY <1>1, <1>2, <1>3 DEF Search!Next

\* What the invariant of the searches means: their properties.
LEMMA SearchesMean ==
  ASSUME NEW m, Search(m)!SearchAssumption, Search(m)!IInv
  PROVE  Search(m)!TypeOK /\ Search(m)!BestIsAnswered /\ Search(m)!BrowsersEndWithAttempts
  BY DEF Search!IInv, Search!SearchKnown, Search!BestIsAnswered, Search!BrowsersEndWithAttempts

-----------------------------------------------------------------------------
(* The page extraction                                                      *)

\* The instance counts as FiniteSets does.
LEMMA ExtractionCounts ==
  ASSUME NEW S
  PROVE  /\ Extraction!Cardinality(S) = Cardinality(S)
         /\ Extraction!IsFiniteSet(S) = IsFiniteSet(S)
BY Zenon DEF Extraction!Cardinality, Cardinality, Extraction!IsFiniteSet, IsFiniteSet

\* What a page has cost is within the budget.
LEMMA WithinBudget ==
  ASSUME Extraction!ExtractionAssumption, NEW r \in Extraction!PageType,
         NEW n \in [Extraction!Kinds -> Nat], Extraction!PageKnown(r, n)
  PROVE  n \in [Extraction!Kinds -> 0 .. Extraction!Budget] /\ Extraction!Spent(r) \in Nat
<1> USE DEF Extraction!ExtractionAssumption
<1>1. MaxRedirects \in Nat /\ r.hop \in 0 .. MaxRedirects + 1
          /\ Extraction!Budget = 3 * (MaxRedirects + 1)
  BY DEF Extraction!PageType, Extraction!Budget
<1>2. n["public"] \in Nat /\ n["refused"] \in Nat /\ Extraction!Kinds = {"public", "refused"}
  BY DEF Extraction!Kinds
<1>3. Extraction!Spent(r) \in Nat /\ Extraction!Spent(r) <= Extraction!Budget
  BY <1>1 DEF Extraction!Spent, Extraction!PageKnown
<1>4. n["public"] <= Extraction!Budget /\ n["refused"] <= Extraction!Budget
          /\ Extraction!Budget \in Nat
  BY <1>1, <1>2, <1>3 DEF Extraction!PageKnown
<1>5. QED BY <1>2, <1>3, <1>4

\* No page was asked for.
LEMMA PagesStart == ASSUME Extraction!ExtractionAssumption PROVE Extraction!Init => Extraction!IInv
<1> SUFFICES ASSUME Extraction!Init PROVE Extraction!IInv
  OBVIOUS
<1> USE Extraction!ExtractionAssumption DEF Extraction!ExtractionAssumption, Extraction!Init
<1>1. Extraction!TypeOK
  <2>1. 0 \in 0 .. Extraction!Budget /\ 0 \in 0 .. MaxRedirects + 1
    BY DEF Extraction!Budget
  <2>2. sent \in [Pages -> [Extraction!Kinds -> 0 .. Extraction!Budget]] /\ answered \in BOOLEAN
            /\ reached = {}
    BY <2>1
  <2>3. [pc |-> "idle", hop |-> 0, to |-> "public", contexts |-> {}, refused |-> FALSE,
         result |-> "none"]
          \in Extraction!PageType
    BY <2>1 DEF Extraction!PageType, Extraction!Kinds
  <2>4. page \in [Pages -> Extraction!PageType]
    BY <2>3
  <2>5. QED BY <2>2, <2>4 DEF Extraction!TypeOK, Extraction!PageType
<1>2. \A p \in Pages : Extraction!PageKnown(page[p], sent[p])
  BY DEF Extraction!PageKnown, Extraction!Spent, Extraction!Kinds, Extraction!InBrowser
<1>3. Cardinality(Extraction!Visiting) <= PagePlaces
  <2>1. Extraction!Visiting = {}
    BY DEF Extraction!Visiting, Extraction!InBrowser
  <2>2. QED BY <2>1, FS_EmptySet
<1>4. QED BY <1>1, <1>2, <1>3, ExtractionCounts DEF Extraction!IInv

\* One page goes on, to what is known of it, and enters the browser where it has a place.
LEMMA PageSteps ==
  ASSUME Extraction!ExtractionAssumption, Extraction!IInv, NEW p \in Pages,
         NEW x \in Extraction!PageType, NEW n \in [Extraction!Kinds -> Nat],
         page' = [page EXCEPT ![p] = x], sent' = [sent EXCEPT ![p] = n], UNCHANGED <<reached, answered>>,
         Extraction!PageKnown(x, n),
         x.pc \in Extraction!InBrowser =>
           page[p].pc \in Extraction!InBrowser \/ Cardinality(Extraction!Visiting) < PagePlaces
  PROVE  Extraction!IInv'
<1> USE Extraction!ExtractionAssumption DEF Extraction!ExtractionAssumption
<1>1. /\ page \in [Pages -> Extraction!PageType]
      /\ sent \in [Pages -> [Extraction!Kinds -> 0 .. Extraction!Budget]]
      /\ answered \in BOOLEAN /\ reached \subseteq Extraction!Ways /\ reached \subseteq {"unrouted"}
      /\ \A u \in Pages : Extraction!PageKnown(page[u], sent[u])
      /\ Cardinality(Extraction!Visiting) <= PagePlaces
  BY ExtractionCounts DEF Extraction!IInv, Extraction!TypeOK, Extraction!PageType
<1>2. n \in [Extraction!Kinds -> 0 .. Extraction!Budget]
  BY WithinBudget
<1>3. /\ page' \in [Pages -> Extraction!PageType] /\ page'[p] = x
      /\ \A u \in Pages : u # p => page'[u] = page[u]
      /\ sent' \in [Pages -> [Extraction!Kinds -> 0 .. Extraction!Budget]] /\ sent'[p] = n
      /\ \A u \in Pages : u # p => sent'[u] = sent[u]
  BY <1>1, <1>2
<1>4. Extraction!TypeOK'
  BY <1>1, <1>3 DEF Extraction!TypeOK, Extraction!PageType
<1>5. ASSUME NEW u \in Pages PROVE Extraction!PageKnown(page[u], sent[u])'
  <2>1. CASE u = p
    BY <1>3, <2>1 DEF Extraction!PageKnown, Extraction!Spent
  <2>2. CASE u # p
    BY <1>1, <1>3, <2>2 DEF Extraction!PageKnown, Extraction!Spent
  <2>3. QED BY <2>1, <2>2
<1>6. Cardinality(Extraction!Visiting') <= PagePlaces
  <2>1. Extraction!Visiting \in SUBSET Pages /\ Extraction!Visiting' \in SUBSET Pages
            /\ Extraction!Visiting' \subseteq Extraction!Visiting \cup {p}
    BY <1>3 DEF Extraction!Visiting
  <2>2. /\ IsFiniteSet(Extraction!Visiting) /\ IsFiniteSet(Extraction!Visiting')
        /\ Cardinality(Extraction!Visiting) \in Nat
        /\ Cardinality(Extraction!Visiting') \in Nat
    BY <2>1, FS_Subset, FS_CardinalityType, ExtractionCounts
  <2>3. CASE page[p].pc \in Extraction!InBrowser \/ x.pc \notin Extraction!InBrowser
    <3>1. Extraction!Visiting' \subseteq Extraction!Visiting
      BY <1>3, <2>3 DEF Extraction!Visiting
    <3>2. QED BY <1>1, <2>2, <3>1, FS_Subset
  <2>4. CASE Cardinality(Extraction!Visiting) < PagePlaces
    <3>1. CASE p \in Extraction!Visiting
      <4>1. Extraction!Visiting' \subseteq Extraction!Visiting
        BY <2>1, <3>1
      <4>2. QED BY <1>1, <2>2, <4>1, FS_Subset
    <3>2. CASE p \notin Extraction!Visiting
      <4>1. Cardinality(Extraction!Visiting \cup {p}) = Cardinality(Extraction!Visiting) + 1
                /\ IsFiniteSet(Extraction!Visiting \cup {p})
        BY <2>2, <3>2, FS_AddElement
      <4>2. Cardinality(Extraction!Visiting') <= Cardinality(Extraction!Visiting \cup {p})
        BY <2>1, <4>1, FS_Subset
      <4>3. QED BY <2>2, <2>4, <4>1, <4>2
    <3>3. QED BY <3>1, <3>2
  <2>5. QED BY <2>3, <2>4
<1>7. QED BY <1>1, <1>4, <1>5, <1>6, ExtractionCounts DEF Extraction!IInv

\* What is known of a page and of what was requested for it.
LEMMA PageFacts ==
  ASSUME Extraction!ExtractionAssumption, Extraction!IInv, NEW p \in Pages
  PROVE  /\ page[p] \in Extraction!PageType /\ Extraction!PageKnown(page[p], sent[p])
         /\ sent[p] \in [Extraction!Kinds -> Nat]
         /\ sent = [sent EXCEPT ![p] = sent[p]]
         /\ MaxRedirects \in Nat /\ Extraction!Spent(page[p]) \in Nat
         /\ Extraction!Spent(page[p]) <= Extraction!Budget
         /\ Extraction!Budget \in Nat
<1>1. /\ page[p] \in Extraction!PageType /\ Extraction!PageKnown(page[p], sent[p])
      /\ sent[p] \in [Extraction!Kinds -> Nat]
      /\ sent = [sent EXCEPT ![p] = sent[p]] /\ MaxRedirects \in Nat
  BY DEF Extraction!ExtractionAssumption, Extraction!IInv, Extraction!TypeOK,
     Extraction!PageType, Extraction!Budget
<1>2. page[p].hop \in 0 .. MaxRedirects + 1 /\ Extraction!Budget = 3 * (MaxRedirects + 1)
  BY <1>1 DEF Extraction!PageType, Extraction!Budget
<1>3. Extraction!Spent(page[p]) \in Nat /\ Extraction!Spent(page[p]) <= Extraction!Budget
          /\ Extraction!Budget \in Nat
  BY <1>1, <1>2 DEF Extraction!Spent, Extraction!PageKnown
<1>4. QED BY <1>1, <1>3

\* A page that ends holds no context, however many requests were made for it.
LEMMA PageEnds ==
  ASSUME Extraction!ExtractionAssumption, Extraction!IInv, NEW p \in Pages,
         NEW result \in {"success", "error"},
         Extraction!End(p, result)
             \/ Extraction!Refuse(p), NEW n \in [Extraction!Kinds -> Nat], sent' =
                [sent EXCEPT ![p] = n],
         n["refused"] = 0, n["public"] <= Extraction!Budget, UNCHANGED <<reached, answered>>
  PROVE  Extraction!IInv'
<1> DEFINE r == page[p]
           x == [r EXCEPT !.pc = "over", !.contexts = {}, !.result = result]
<1>1. r \in Extraction!PageType
  BY PageFacts
<1>2. "over" \notin Extraction!InBrowser
  BY DEF Extraction!InBrowser
<1>3. CASE Extraction!End(p, result)
  <2>1. page' = [page EXCEPT ![p] = x]
    BY <1>3 DEF Extraction!End
  <2> HIDE DEF r
  <2>2. x \in Extraction!PageType /\ x.pc = "over" /\ x.contexts = {}
    BY <1>1 DEF Extraction!PageType
  <2> HIDE DEF x
  <2>3. Extraction!PageKnown(x, n)
    BY <1>2, <2>2 DEF Extraction!PageKnown, Extraction!Spent
  <2>4. QED BY <1>2, <2>1, <2>2, <2>3, PageSteps
<1>4. CASE Extraction!Refuse(p)
  <2> DEFINE over == "over"
             error == "error"
             true == TRUE
             z == [r EXCEPT !.pc = over, !.contexts = {}, !.result = error, !.refused = true]
  <2>1. page' = [page EXCEPT ![p] = z]
    BY <1>4 DEF Extraction!Refuse
  <2>2. over = "over" /\ error \in {"success", "error"} /\ true \in BOOLEAN
    OBVIOUS
  <2> HIDE DEF r, over, error, true
  <2>3. z \in Extraction!PageType /\ z.pc = over /\ z.contexts = {}
    BY <1>1, <2>2 DEF Extraction!PageType
  <2> HIDE DEF z
  <2>4. Extraction!PageKnown(z, n)
    BY <1>2, <2>2, <2>3 DEF Extraction!PageKnown, Extraction!Spent
  <2>5. QED BY <1>2, <2>1, <2>2, <2>3, <2>4, PageSteps
<1>5. QED BY <1>3, <1>4

\* A page that goes on keeps its result and is not refused.
LEMMA PageMoves ==
  ASSUME Extraction!ExtractionAssumption, Extraction!IInv, NEW p \in Pages,
         page[p].pc # "over", NEW x \in Extraction!PageType, page' =
           [page EXCEPT ![p] = x], UNCHANGED <<reached, answered>>,
         NEW n \in [Extraction!Kinds -> Nat], sent' = [sent EXCEPT ![p] = n], n["refused"] = 0,
         n["public"] <= Extraction!Spent(x), x.refused = page[p].refused,
         x.pc \in {"get", "route", "load"} => x.hop <= MaxRedirects,
         x.pc = "get" => x.to = "public",
         IF x.pc \in Extraction!InBrowser THEN x.contexts \in {{"first"},
                                                               {"http1"}} ELSE x.contexts = {},
         x.pc \in Extraction!InBrowser =>
           page[p].pc \in Extraction!InBrowser \/ Cardinality(Extraction!Visiting) < PagePlaces
  PROVE  Extraction!IInv'
<1>1. ~page[p].refused
  BY PageFacts DEF Extraction!PageKnown
<1>2. Extraction!PageKnown(x, n)
  BY <1>1 DEF Extraction!PageKnown
<1>3. QED BY <1>2, PageSteps

\* An extraction begins.
LEMMA StepStart ==
  ASSUME Extraction!ExtractionAssumption, Extraction!IInv, NEW p \in Pages, Extraction!Start(p)
  PROVE  Extraction!IInv'
<1>1. PICK k \in Extraction!Kinds : page' = [page EXCEPT ![p].pc = "check", ![p].to = k]
  BY DEF Extraction!Start
<1> DEFINE r == page[p]
           n == sent[p]
           x == [r EXCEPT !.pc = "check", !.to = k]
<1>2. /\ r \in Extraction!PageType /\ Extraction!PageKnown(r, n) /\ r.pc = "idle"
      /\ n \in [Extraction!Kinds -> Nat]
      /\ sent' = [sent EXCEPT ![p] = n] /\ UNCHANGED <<reached, answered>>
      /\ page' = [page EXCEPT ![p] = x]
  BY <1>1, PageFacts DEF Extraction!Start
<1> HIDE DEF r, n
<1>3. /\ x \in Extraction!PageType /\ x.pc = "check" /\ x.hop = r.hop /\ x.refused = r.refused
      /\ x.contexts = r.contexts
  BY <1>2 DEF Extraction!PageType
<1> HIDE DEF x
<1>4. /\ n["refused"] = 0 /\ n["public"] <= Extraction!Spent(x) /\ x.contexts = {}
      /\ x.pc \notin Extraction!InBrowser
  BY <1>2, <1>3 DEF Extraction!PageKnown, Extraction!Spent, Extraction!InBrowser
<1>5. QED BY <1>2, <1>3, <1>4, PageMoves DEF r

\* A page that ends without another request.
LEMMA PageStops ==
  ASSUME Extraction!ExtractionAssumption, Extraction!IInv, NEW p \in Pages,
         NEW result \in {"success", "error"},
         Extraction!End(p, result) \/ Extraction!Refuse(p), UNCHANGED <<sent, reached, answered>>
  PROVE  Extraction!IInv'
<1>1. /\ sent[p] \in [Extraction!Kinds -> Nat] /\ sent' = [sent EXCEPT ![p] = sent[p]]
      /\ sent[p]["refused"] = 0 /\ sent[p]["public"] <= Extraction!Budget
  <2>1. /\ sent[p]["public"] \in Nat /\ sent[p]["public"] <= Extraction!Spent(page[p])
        /\ sent[p]["refused"] = 0
    BY PageFacts DEF Extraction!PageKnown, Extraction!Kinds
  <2>2. QED BY <2>1, PageFacts
<1>2. QED BY <1>1, PageEnds

\* The next destination is checked, the last one allowed only that.
LEMMA StepCheck ==
  ASSUME Extraction!ExtractionAssumption, Extraction!IInv, NEW p \in Pages, Extraction!Check(p)
  PROVE  Extraction!IInv'
<1> DEFINE r == page[p]
           n == sent[p]
<1>1. /\ r \in Extraction!PageType /\ Extraction!PageKnown(r, n) /\ r.pc = "check"
      /\ n \in [Extraction!Kinds -> Nat]
      /\ sent' = [sent EXCEPT ![p] = n] /\ UNCHANGED <<sent, reached, answered>>
      /\ MaxRedirects \in Nat /\ r.hop \in 0 .. MaxRedirects + 1
  BY PageFacts DEF Extraction!Check, Extraction!PageType
<1>2. CASE Extraction!Refuse(p)
  BY <1>1, <1>2, PageStops
<1>3. CASE r.to = "public" /\ r.hop <= MaxRedirects /\ page' = [page EXCEPT ![p].pc = "get"]
  <2> DEFINE x == [r EXCEPT !.pc = "get"]
  <2>1. page' = [page EXCEPT ![p] = x]
    BY <1>3
  <2> HIDE DEF r, n
  <2>2. /\ x \in Extraction!PageType /\ x.pc = "get" /\ x.hop = r.hop /\ x.refused = r.refused
        /\ x.contexts = r.contexts /\ x.to = r.to
    BY <1>1 DEF Extraction!PageType
  <2> HIDE DEF x
  <2>3. /\ n["refused"] = 0 /\ n["public"] <= Extraction!Spent(x) /\ x.contexts = {}
        /\ x.pc \notin Extraction!InBrowser
    BY <1>1, <2>2 DEF Extraction!PageKnown, Extraction!Spent, Extraction!InBrowser
  <2>4. QED BY <1>1, <1>3, <2>1, <2>2, <2>3, PageMoves DEF r
<1>4. CASE r.hop > MaxRedirects /\ page' = [page EXCEPT ![p].pc = "failed"]
  <2> DEFINE x == [r EXCEPT !.pc = "failed"]
  <2>1. page' = [page EXCEPT ![p] = x]
    BY <1>4
  <2> HIDE DEF r, n
  <2>2. /\ x \in Extraction!PageType /\ x.pc = "failed" /\ x.hop = r.hop /\ x.refused = r.refused
        /\ x.contexts = r.contexts /\ x.to = r.to
    BY <1>1 DEF Extraction!PageType
  <2> HIDE DEF x
  <2>3. /\ n["refused"] = 0 /\ x.contexts = {} /\ x.pc \notin Extraction!InBrowser
        /\ n["public"] <= r.hop
    BY <1>1, <2>2 DEF Extraction!PageKnown, Extraction!Spent, Extraction!InBrowser
  <2>4. n["public"] <= Extraction!Spent(x)
    BY <1>1, <2>2, <2>3 DEF Extraction!Spent, Extraction!Kinds
  <2>5. QED BY <1>1, <2>1, <2>2, <2>3, <2>4, PageMoves DEF r
<1>5. QED BY <1>2, <1>3, <1>4 DEF Extraction!Check

\* A request to the destination that was checked.
LEMMA Requested ==
  ASSUME Extraction!ExtractionAssumption, Extraction!IInv, NEW p \in Pages,
         Extraction!Request(p), page[p].to = "public"
  PROVE  \E n \in [Extraction!Kinds -> Nat] :
            /\ sent' = [sent EXCEPT ![p] = n] /\ n["refused"] = 0
            /\ n["public"] = sent[p]["public"] + 1
<1> DEFINE n == [sent[p] EXCEPT !["public"] = @ + 1]
<1>1. sent' = [sent EXCEPT ![p] = n]
  BY DEF Extraction!Request
<1>2. sent[p] \in [Extraction!Kinds -> Nat] /\ sent[p]["refused"] = 0
          /\ "public" \in Extraction!Kinds /\ "refused" \in Extraction!Kinds
  BY PageFacts DEF Extraction!PageKnown, Extraction!Kinds
<1>3. n \in [Extraction!Kinds -> Nat] /\ n["refused"] = 0 /\ n["public"] = sent[p]["public"] + 1
  BY <1>2
<1>4. QED BY <1>1, <1>3

\* It is requested: an answer, a failure or a redirect.
LEMMA StepGet ==
  ASSUME Extraction!ExtractionAssumption, Extraction!IInv, NEW p \in Pages, Extraction!Get(p)
  PROVE  Extraction!IInv'
<1> DEFINE r == page[p]
<1>1. /\ r \in Extraction!PageType /\ Extraction!PageKnown(r, sent[p]) /\ r.pc = "get"
      /\ sent[p] \in [Extraction!Kinds -> Nat]
      /\ UNCHANGED <<reached, answered>> /\ r.to = "public" /\ Extraction!Request(p)
      /\ MaxRedirects \in Nat /\ r.hop \in 0 .. MaxRedirects + 1 /\ r.hop <= MaxRedirects
      /\ r.contexts = {}
  BY PageFacts DEF Extraction!Get, Extraction!PageType, Extraction!PageKnown, Extraction!InBrowser
<1>2. PICK n \in [Extraction!Kinds -> Nat] : /\ sent' = [sent EXCEPT ![p] = n] /\ n["refused"] = 0
                                 /\ n["public"] = sent[p]["public"] + 1
  BY <1>1, Requested
<1>3. n["public"] <= r.hop + 1 /\ n["public"] \in Nat /\ r.hop \in Int
  BY <1>1, <1>2 DEF Extraction!PageKnown, Extraction!Spent, Extraction!Kinds
<1>4. CASE Extraction!End(p, "success")
  <2>1. n["public"] <= Extraction!Budget
    BY <1>1, <1>3 DEF Extraction!Budget
  <2>2. QED BY <1>1, <1>2, <1>4, <2>1, PageEnds
<1>5. CASE page' = [page EXCEPT ![p].pc = "failed"]
  <2> DEFINE x == [r EXCEPT !.pc = "failed"]
  <2>1. page' = [page EXCEPT ![p] = x]
    BY <1>5
  <2> HIDE DEF r
  <2>2. /\ x \in Extraction!PageType /\ x.pc = "failed" /\ x.refused = r.refused
        /\ x.contexts = r.contexts
    BY <1>1 DEF Extraction!PageType
  <2> HIDE DEF x
  <2>3. x.contexts = {} /\ x.pc \notin Extraction!InBrowser /\ n["public"] <= Extraction!Spent(x)
    BY <1>1, <1>3, <2>2 DEF Extraction!Spent, Extraction!InBrowser
  <2>4. QED BY <1>1, <1>2, <2>1, <2>2, <2>3, PageMoves DEF r
<1>6. ASSUME NEW k \in Extraction!Kinds,
             page' = [page EXCEPT ![p].pc = "check", ![p].to = k, ![p].hop = @ + 1]
      PROVE  Extraction!IInv'
  <2> DEFINE h == r.hop + 1
             x == [r EXCEPT !.pc = "check", !.to = k, !.hop = h]
  <2>1. page' = [page EXCEPT ![p] = x]
    BY <1>6
  <2>2. h \in 0 .. MaxRedirects + 1 /\ n["public"] <= h
    BY <1>1, <1>3
  <2> HIDE DEF r, h
  <2>3. /\ x \in Extraction!PageType /\ x.pc = "check" /\ x.refused = r.refused
        /\ x.contexts = r.contexts
        /\ x.hop = h
    BY <1>1, <2>2 DEF Extraction!PageType
  <2> HIDE DEF x
  <2>4. x.contexts = {} /\ x.pc \notin Extraction!InBrowser /\ n["public"] <= Extraction!Spent(x)
    BY <1>1, <2>2, <2>3 DEF Extraction!Spent, Extraction!InBrowser
  <2>5. QED BY <1>1, <1>2, <2>1, <2>3, <2>4, PageMoves DEF r
<1>7. QED BY <1>1, <1>4, <1>5, <1>6 DEF Extraction!Get

\* A plain request failed: the browser is tried, or the page ends.
LEMMA StepFailed ==
  ASSUME Extraction!ExtractionAssumption, Extraction!IInv, NEW p \in Pages, Extraction!Failed(p)
  PROVE  Extraction!IInv'
<1> DEFINE r == page[p]
           n == sent[p]
<1>1. /\ r \in Extraction!PageType /\ Extraction!PageKnown(r, n) /\ r.pc = "failed"
      /\ n \in [Extraction!Kinds -> Nat]
      /\ sent' = [sent EXCEPT ![p] = n] /\ UNCHANGED <<sent, reached, answered>>
  BY PageFacts DEF Extraction!Failed
<1>2. CASE Extraction!End(p, "error")
  BY <1>1, <1>2, PageStops
<1>3. CASE page' = [page EXCEPT ![p].pc = "queued"]
  <2> DEFINE x == [r EXCEPT !.pc = "queued"]
  <2>1. page' = [page EXCEPT ![p] = x]
    BY <1>3
  <2> HIDE DEF r, n
  <2>2. /\ x \in Extraction!PageType /\ x.pc = "queued" /\ x.refused = r.refused
        /\ x.contexts = r.contexts
    BY <1>1 DEF Extraction!PageType
  <2> HIDE DEF x
  <2>3. /\ n["refused"] = 0 /\ n["public"] <= Extraction!Spent(x) /\ x.contexts = {}
        /\ x.pc \notin Extraction!InBrowser
    BY <1>1, <2>2 DEF Extraction!PageKnown, Extraction!Spent, Extraction!InBrowser
  <2>4. QED BY <1>1, <2>1, <2>2, <2>3, PageMoves DEF r
<1>4. QED BY <1>2, <1>3 DEF Extraction!Failed

\* A place is free: the page gets a context, or none.
LEMMA StepOpenContext ==
  ASSUME Extraction!ExtractionAssumption, Extraction!IInv, NEW p \in Pages,
         Extraction!OpenContext(p)
  PROVE  Extraction!IInv'
<1> DEFINE r == page[p]
           n == sent[p]
<1>1. /\ r \in Extraction!PageType /\ Extraction!PageKnown(r, n) /\ r.pc = "queued"
      /\ n \in [Extraction!Kinds -> Nat]
      /\ sent' = [sent EXCEPT ![p] = n] /\ UNCHANGED <<sent, reached, answered>>
      /\ Cardinality(Extraction!Visiting) < PagePlaces /\ MaxRedirects \in Nat
  BY PageFacts, ExtractionCounts DEF Extraction!OpenContext, Extraction!Visiting
<1>2. CASE Extraction!End(p, "error")
  BY <1>1, <1>2, PageStops
<1>3. CASE page' = [page EXCEPT ![p].pc = "route", ![p].hop = 0, ![p].to = "public",
                                ![p].contexts = {"first"}]
  <2> DEFINE at == "route"
             hop == 0
             to == "public"
             c == {"first"}
             x == [r EXCEPT !.pc = at, !.hop = hop, !.to = to, !.contexts = c]
  <2>1. page' = [page EXCEPT ![p] = x]
    BY <1>3
  <2>2. /\ at \in Extraction!InBrowser /\ at = "route" /\ hop \in 0 .. MaxRedirects + 1 /\ hop = 0
        /\ to \in Extraction!Kinds /\ c \in SUBSET {"first", "http1"} /\ c = {"first"}
    BY <1>1 DEF Extraction!InBrowser, Extraction!Kinds
  <2> HIDE DEF r, n, at, hop, to, c
  <2>3. /\ x \in Extraction!PageType /\ x.pc = at /\ x.refused = r.refused /\ x.contexts = c
        /\ x.hop = hop
    BY <1>1, <2>2 DEF Extraction!PageType
  <2> HIDE DEF x
  <2>4. n["refused"] = 0 /\ n["public"] <= MaxRedirects + 1
    BY <1>1 DEF Extraction!PageKnown, Extraction!Spent
  <2>5. n["public"] <= Extraction!Spent(x) /\ x.hop <= MaxRedirects /\ x.pc = "route"
    BY <1>1, <2>2, <2>3, <2>4 DEF Extraction!Spent
  <2>6. x.contexts \in {{"first"}, {"http1"}} /\ x.pc \in Extraction!InBrowser
    BY <2>2, <2>3
  <2>7. r.pc # "over"
    BY <1>1
  <2>8. QED BY <1>1, <2>1, <2>3, <2>4, <2>5, <2>6, <2>7, PageMoves DEF r
<1>4. QED BY <1>2, <1>3 DEF Extraction!OpenContext

\* The most that was requested for a page before the context it is in.
SpentBefore(r) ==
  IF r.contexts = {"first"} THEN MaxRedirects + 1 ELSE 2 * (MaxRedirects + 1)

\* A page in the browser at one of its hops.
LEMMA AtAHop ==
  ASSUME Extraction!ExtractionAssumption, Extraction!IInv, NEW p \in Pages,
         page[p].pc \in {"route", "load"}
  PROVE  /\ page[p] \in Extraction!PageType /\ page[p].pc \in Extraction!InBrowser
         /\ MaxRedirects \in Nat /\ page[p].hop \in 0 .. MaxRedirects
         /\ page[p].contexts \in {{"first"}, {"http1"}}
         /\ SpentBefore(page[p]) \in Nat /\ SpentBefore(page[p]) <= 2 * (MaxRedirects + 1)
         /\ sent[p]["refused"] = 0 /\ sent[p]["public"] \in Nat
         /\ page[p].pc = "route" => sent[p]["public"] <= SpentBefore(page[p]) + page[p].hop
         /\ sent[p]["public"] <= SpentBefore(page[p]) + page[p].hop + 1
         /\ SpentBefore(page[p]) + page[p].hop + 1 <= Extraction!Budget
<1> DEFINE r == page[p]
           n == sent[p]
<1>1. /\ r \in Extraction!PageType /\ Extraction!PageKnown(r, n) /\ r.pc \in {"route", "load"}
      /\ n \in [Extraction!Kinds -> Nat] /\ MaxRedirects \in Nat
  BY PageFacts
<1> HIDE DEF r, n
<1>2. /\ r.pc \in Extraction!InBrowser /\ r.hop \in 0 .. MaxRedirects + 1 /\ r.hop <= MaxRedirects
      /\ r.contexts \in {{"first"}, {"http1"}} /\ n["refused"] = 0
      /\ n["public"] \in Nat /\ n["public"] <= Extraction!Spent(r)
  BY <1>1 DEF Extraction!PageType, Extraction!PageKnown, Extraction!InBrowser, Extraction!Kinds
<1>3. SpentBefore(r) \in Nat /\ SpentBefore(r) <= 2 * (MaxRedirects + 1)
  BY <1>1 DEF SpentBefore
<1>4. Extraction!Spent(r) = SpentBefore(r) + r.hop + (IF r.pc = "load" THEN 1 ELSE 0)
  BY <1>1 DEF Extraction!Spent, SpentBefore
<1>5. /\ r.hop \in 0 .. MaxRedirects
      /\ r.pc = "route" => n["public"] <= SpentBefore(r) + r.hop
      /\ n["public"] <= SpentBefore(r) + r.hop + 1
      /\ SpentBefore(r) + r.hop + 1 <= 3 * (MaxRedirects + 1)
  BY <1>1, <1>2, <1>3, <1>4
<1>6. QED BY <1>1, <1>2, <1>3, <1>5 DEF r, n, Extraction!Budget

\* A page goes to its next hop, or has no more of them.
LEMMA PageHops ==
  ASSUME Extraction!ExtractionAssumption, Extraction!IInv, NEW p \in Pages,
         page[p].pc \in {"route", "load"}, Extraction!NextHop(p), UNCHANGED <<reached, answered>>,
         NEW n \in [Extraction!Kinds -> Nat], sent' = [sent EXCEPT ![p] = n], n["refused"] = 0,
         n["public"] <= SpentBefore(page[p]) + page[p].hop + 1
  PROVE  Extraction!IInv'
<1> DEFINE r == page[p]
           spent == SpentBefore(r)
<1>1. /\ r \in Extraction!PageType /\ r.pc \in Extraction!InBrowser /\ r.pc # "over"
      /\ MaxRedirects \in Nat /\ r.hop \in 0 .. MaxRedirects
      /\ r.contexts \in {{"first"}, {"http1"}}
      /\ spent \in Nat /\ spent + r.hop + 1 <= Extraction!Budget
  BY AtAHop
<1>2. n["public"] \in Nat /\ Extraction!Budget \in Nat
  BY PageFacts DEF Extraction!Kinds
<1>3. CASE Extraction!End(p, "error")
  <2>1. n["public"] <= Extraction!Budget
    BY <1>1, <1>2
  <2>2. QED BY <1>3, <2>1, PageEnds
<1>4. ASSUME r.hop < MaxRedirects, NEW k \in Extraction!Kinds,
             page' = [page EXCEPT ![p].pc = "route", ![p].hop = @ + 1, ![p].to = k]
      PROVE  Extraction!IInv'
  <2> DEFINE at == "route"
             h == r.hop + 1
             x == [r EXCEPT !.pc = at, !.hop = h, !.to = k]
  <2>1. page' = [page EXCEPT ![p] = x]
    BY <1>4
  <2>2. h \in 0 .. MaxRedirects + 1 /\ n["public"] <= spent + h /\ h <= MaxRedirects
    BY <1>1, <1>2, <1>4
  <2>3. spent = IF r.contexts = {"first"} THEN MaxRedirects + 1 ELSE 2 * (MaxRedirects + 1)
    BY DEF SpentBefore
  <2>4. at \in Extraction!InBrowser /\ at = "route"
    BY DEF Extraction!InBrowser
  <2> HIDE DEF r, h, spent, at
  <2>5. /\ x \in Extraction!PageType /\ x.pc = at /\ x.refused = r.refused
        /\ x.contexts = r.contexts /\ x.hop = h
    BY <1>1, <2>2, <2>4 DEF Extraction!PageType
  <2> HIDE DEF x
  <2>6. n["public"] <= Extraction!Spent(x)
    BY <1>1, <2>2, <2>3, <2>4, <2>5 DEF Extraction!Spent
  <2>7. x.contexts \in {{"first"}, {"http1"}} /\ x.pc \in Extraction!InBrowser
            /\ x.pc = "route" /\ x.hop <= MaxRedirects
    BY <1>1, <2>2, <2>4, <2>5
  <2>8. QED BY <1>1, <2>1, <2>5, <2>6, <2>7, PageMoves DEF r
<1>5. QED BY <1>3, <1>4 DEF Extraction!NextHop

\* A page starts again in a context that speaks HTTP/1.1.
LEMMA PageRestarts ==
  ASSUME Extraction!ExtractionAssumption, Extraction!IInv, NEW p \in Pages,
         page[p].pc \in {"route", "load"}, Extraction!Http1(p), UNCHANGED <<reached, answered>>,
         NEW n \in [Extraction!Kinds -> Nat], sent' = [sent EXCEPT ![p] = n], n["refused"] = 0,
         n["public"] <= SpentBefore(page[p]) + page[p].hop + 1
  PROVE  Extraction!IInv'
<1> DEFINE r == page[p]
           at == "route"
           hop == 0
           to == "public"
           c == {"http1"}
           x == [r EXCEPT !.pc = at, !.contexts = c, !.hop = hop, !.to = to]
<1>1. /\ r \in Extraction!PageType /\ r.pc \in Extraction!InBrowser /\ r.pc # "over"
      /\ MaxRedirects \in Nat /\ r.hop \in 0 .. MaxRedirects
  BY AtAHop
<1>2. n["public"] <= 2 * (MaxRedirects + 1)
  <2>1. n["public"] \in Nat /\ n["public"] <= MaxRedirects + 1 + r.hop + 1
    BY DEF Extraction!Kinds, SpentBefore, Extraction!Http1
  <2>2. QED BY <1>1, <2>1
<1>3. page' = [page EXCEPT ![p] = x]
  BY DEF Extraction!Http1
<1>4. /\ hop \in 0 .. MaxRedirects + 1 /\ hop = 0 /\ to \in Extraction!Kinds
      /\ c \in SUBSET {"first", "http1"} /\ c = {"http1"} /\ c # {"first"}
      /\ at \in Extraction!InBrowser /\ at = "route"
  BY <1>1 DEF Extraction!Kinds, Extraction!InBrowser
<1> HIDE DEF r, hop, to, c, at
<1>5. /\ x \in Extraction!PageType /\ x.pc = at /\ x.refused = r.refused /\ x.contexts = c
      /\ x.hop = hop
  BY <1>1, <1>4 DEF Extraction!PageType
<1> HIDE DEF x
<1>6. n["public"] <= Extraction!Spent(x)
  BY <1>1, <1>2, <1>4, <1>5 DEF Extraction!Spent, Extraction!Kinds
<1>7. /\ x.contexts \in {{"first"}, {"http1"}} /\ x.pc \in Extraction!InBrowser
      /\ x.pc = "route" /\ x.hop <= MaxRedirects
  BY <1>1, <1>4, <1>5
<1>8. QED BY <1>1, <1>3, <1>5, <1>6, <1>7, PageMoves DEF r

\* The main document is fetched, without following its redirects.
LEMMA StepRoute ==
  ASSUME Extraction!ExtractionAssumption, Extraction!IInv, NEW p \in Pages, Extraction!Route(p)
  PROVE  Extraction!IInv'
<1> DEFINE r == page[p]
           spent == SpentBefore(r)
<1>1. /\ r \in Extraction!PageType /\ r.pc = "route" /\ r.to = "public" /\ Extraction!Request(p)
      /\ UNCHANGED <<reached, answered>>
      /\ MaxRedirects \in Nat /\ r.hop \in 0 .. MaxRedirects
      /\ r.contexts \in {{"first"}, {"http1"}} /\ r.pc \in Extraction!InBrowser
      /\ spent \in Nat /\ spent + r.hop + 1 <= Extraction!Budget
      /\ sent[p]["public"] \in Nat /\ sent[p]["public"] <= spent + r.hop
  BY AtAHop DEF Extraction!Route
<1>2. PICK n \in [Extraction!Kinds -> Nat] : /\ sent' = [sent EXCEPT ![p] = n] /\ n["refused"] = 0
                                 /\ n["public"] = sent[p]["public"] + 1
  BY <1>1, Requested
<1>3. n["public"] <= spent + r.hop + 1 /\ n["public"] <= Extraction!Budget
  <2>1. Extraction!Budget \in Nat
    BY PageFacts
  <2>2. QED BY <1>1, <1>2, <2>1
<1>4. CASE Extraction!End(p, "error")
  BY <1>1, <1>2, <1>3, <1>4, PageEnds
<1>5. CASE Extraction!NextHop(p)
  BY <1>1, <1>2, <1>3, <1>5, PageHops
<1>6. CASE Extraction!Http1(p)
  BY <1>1, <1>2, <1>3, <1>6, PageRestarts
<1>7. CASE page' = [page EXCEPT ![p].pc = "load"]
  <2> DEFINE at == "load"
             x == [r EXCEPT !.pc = at]
  <2>1. page' = [page EXCEPT ![p] = x]
    BY <1>7
  <2>2. spent = IF r.contexts = {"first"} THEN MaxRedirects + 1 ELSE 2 * (MaxRedirects + 1)
    BY DEF SpentBefore
  <2>3. at \in Extraction!InBrowser /\ at = "load"
    BY DEF Extraction!InBrowser
  <2> HIDE DEF r, spent, at
  <2>4. /\ x \in Extraction!PageType /\ x.pc = at /\ x.refused = r.refused
        /\ x.contexts = r.contexts /\ x.hop = r.hop
    BY <1>1, <2>3 DEF Extraction!PageType
  <2> HIDE DEF x
  <2>5. n["public"] <= Extraction!Spent(x)
    BY <1>1, <1>3, <2>2, <2>3, <2>4 DEF Extraction!Spent
  <2>6. x.contexts \in {{"first"}, {"http1"}} /\ x.hop <= MaxRedirects /\ x.pc = "load"
    BY <1>1, <2>3, <2>4
  <2>7. QED BY <1>1, <1>2, <2>1, <2>3, <2>4, <2>5, <2>6, PageMoves DEF r
<1>8. QED BY <1>4, <1>5, <1>6, <1>7 DEF Extraction!Route

\* What was requested for a page stays when it goes on without a request.
LEMMA NoRequest ==
  ASSUME Extraction!ExtractionAssumption, Extraction!IInv, NEW p \in Pages,
         page[p].pc \in {"route", "load"}, UNCHANGED sent
  PROVE  \E n \in [Extraction!Kinds -> Nat] :
            /\ sent' = [sent EXCEPT ![p] = n] /\ n["refused"] = 0
            /\ n["public"] <= SpentBefore(page[p]) + page[p].hop + 1
            /\ n["public"] <= Extraction!Budget
<1>1. /\ sent[p] \in [Extraction!Kinds -> Nat] /\ sent' = [sent EXCEPT ![p] = sent[p]]
      /\ Extraction!Budget \in Nat
  BY PageFacts
<1>2. /\ sent[p]["refused"] = 0 /\ sent[p]["public"] <= SpentBefore(page[p]) + page[p].hop + 1
      /\ sent[p]["public"] \in Nat /\ SpentBefore(page[p]) + page[p].hop \in Nat
      /\ SpentBefore(page[p]) + page[p].hop + 1 <= Extraction!Budget
  BY AtAHop
<1>3. sent[p]["public"] <= Extraction!Budget
  BY <1>1, <1>2
<1>4. QED BY <1>1, <1>2, <1>3

\* The document is parsed, or goto fails.
LEMMA StepLoad ==
  ASSUME Extraction!ExtractionAssumption, Extraction!IInv, NEW p \in Pages, Extraction!Load(p)
  PROVE  Extraction!IInv'
<1> DEFINE r == page[p]
<1>1. /\ r \in Extraction!PageType /\ r.pc = "load" /\ UNCHANGED <<sent, reached, answered>>
      /\ r.contexts \in {{"first"}, {"http1"}} /\ r.pc \in Extraction!InBrowser
  BY AtAHop DEF Extraction!Load
<1>2. PICK n \in [Extraction!Kinds -> Nat] :
            /\ sent' = [sent EXCEPT ![p] = n] /\ n["refused"] = 0
            /\ n["public"] <= SpentBefore(page[p]) + page[p].hop + 1
            /\ n["public"] <= Extraction!Budget
  BY <1>1, NoRequest
<1>3. CASE Extraction!End(p, "error")
  BY <1>1, <1>3, PageStops
<1>4. CASE Extraction!Http1(p)
  BY <1>1, <1>2, <1>4, PageRestarts
<1>5. CASE page' = [page EXCEPT ![p].pc = "read"]
  <2> DEFINE at == "read"
             x == [r EXCEPT !.pc = at]
  <2>1. page' = [page EXCEPT ![p] = x]
    BY <1>5
  <2>2. at \in Extraction!InBrowser /\ at = "read"
    BY DEF Extraction!InBrowser
  <2> HIDE DEF r, at
  <2>3. /\ x \in Extraction!PageType /\ x.pc = at /\ x.refused = r.refused
        /\ x.contexts = r.contexts
    BY <1>1, <2>2 DEF Extraction!PageType
  <2> HIDE DEF x
  <2>4. n["public"] <= Extraction!Spent(x) /\ x.contexts \in {{"first"}, {"http1"}}
    BY <1>1, <1>2, <2>2, <2>3 DEF Extraction!Spent
  <2>5. QED BY <1>1, <1>2, <2>1, <2>2, <2>3, <2>4, PageMoves DEF r
<1>6. QED BY <1>3, <1>4, <1>5 DEF Extraction!Load

\* A document navigates: the page ends, or goes to another hop.
LEMMA StepInterrupt ==
  ASSUME Extraction!ExtractionAssumption, Extraction!IInv, NEW p \in Pages, Extraction!Interrupt(p)
  PROVE  Extraction!IInv'
<1>1. page[p].pc \in {"route", "load"} /\ UNCHANGED <<sent, reached, answered>>
  BY DEF Extraction!Interrupt
<1>2. PICK n \in [Extraction!Kinds -> Nat] :
            /\ sent' = [sent EXCEPT ![p] = n] /\ n["refused"] = 0
            /\ n["public"] <= SpentBefore(page[p]) + page[p].hop + 1
            /\ n["public"] <= Extraction!Budget
  BY <1>1, NoRequest
<1>3. CASE Extraction!Refuse(p)
  BY <1>1, <1>3, PageStops
<1>4. CASE Extraction!NextHop(p)
  BY <1>1, <1>2, <1>4, PageHops
<1>5. QED BY <1>3, <1>4 DEF Extraction!Interrupt

\* A page requests things itself: what reaches a refused destination was handed to no route.
LEMMA StepPageRequests ==
  ASSUME Extraction!IInv, NEW p \in Pages, Extraction!PageRequests(p)
  PROVE  Extraction!IInv'
<1>1. UNCHANGED <<page, sent, answered>>
  BY DEF Extraction!PageRequests
<1>2. reached' \subseteq {"unrouted"} /\ reached' \subseteq Extraction!Ways
  BY DEF Extraction!PageRequests, Extraction!IInv, Extraction!Ways
<1>3. QED BY <1>1, <1>2 DEF Extraction!IInv, Extraction!TypeOK, Extraction!PageKnown, Extraction!Spent,
     Extraction!Visiting

\* Every step of an extraction keeps the invariant.
LEMMA PagesStay ==
  ASSUME Extraction!ExtractionAssumption
  PROVE  Extraction!IInv /\ [Extraction!Next]_(Extraction!vars) => Extraction!IInv'
<1> SUFFICES ASSUME Extraction!IInv, [Extraction!Next]_(Extraction!vars) PROVE Extraction!IInv'
  OBVIOUS
<1>1. CASE UNCHANGED Extraction!vars
  BY <1>1 DEF Extraction!vars, Extraction!IInv, Extraction!TypeOK, Extraction!PageKnown,
     Extraction!Spent, Extraction!Visiting
<1>2. CASE Extraction!Answer
  BY <1>2 DEF Extraction!Answer, Extraction!IInv, Extraction!TypeOK, Extraction!PageKnown,
     Extraction!Spent, Extraction!Visiting
<1>3. ASSUME NEW p \in Pages, Extraction!RouteRefused(p) PROVE Extraction!IInv'
  BY <1>3, PageStops DEF Extraction!RouteRefused
<1>4. ASSUME NEW p \in Pages, Extraction!Read(p) PROVE Extraction!IInv'
  BY <1>4, PageStops DEF Extraction!Read
<1>5. QED BY <1>1, <1>2, <1>3, <1>4, StepStart, StepCheck, StepGet, StepFailed, StepOpenContext,
     StepRoute, StepLoad, StepInterrupt, StepPageRequests
     DEF Extraction!Next, Extraction!Extract

\* What the invariant of the extraction means: its properties.
LEMMA PagesMean ==
  ASSUME Extraction!ExtractionAssumption, Extraction!IInv
  PROVE  Extraction!TypeOK /\ Extraction!OnlyCheckedRequests /\ Extraction!RequestsAreBounded
             /\ Extraction!ContextsAreReleased
<1>1. Extraction!TypeOK /\ Extraction!OnlyCheckedRequests
  BY DEF Extraction!IInv, Extraction!PageKnown, Extraction!OnlyCheckedRequests
<1>2. Extraction!RequestsAreBounded
  <2>1. ASSUME NEW p \in Pages PROVE sent[p]["public"] + sent[p]["refused"] <= Extraction!Budget
    <3>1. /\ sent[p]["public"] \in Nat /\ sent[p]["public"] <= Extraction!Spent(page[p])
          /\ sent[p]["refused"] = 0
      BY PageFacts DEF Extraction!PageKnown, Extraction!Kinds
    <3>2. QED BY <3>1, PageFacts
  <2>2. QED BY <2>1 DEF Extraction!RequestsAreBounded
<1>3. Extraction!ContextsAreReleased
  <2> DEFINE open == {p \in Pages : page[p].contexts # {}}
  <2>1. \A p \in Pages : page[p].contexts # {} =>
           page[p].pc \in Extraction!InBrowser /\ Cardinality(page[p].contexts) = 1
    <3> SUFFICES ASSUME NEW p \in Pages, page[p].contexts # {}
                 PROVE  page[p].pc \in Extraction!InBrowser /\ Cardinality(page[p].contexts) = 1
      OBVIOUS
    <3>1. page[p].pc \in Extraction!InBrowser /\ page[p].contexts \in {{"first"}, {"http1"}}
      BY PageFacts DEF Extraction!PageKnown
    <3>2. QED BY <3>1, FS_Singleton
  <2>2. open \subseteq Extraction!Visiting /\ Extraction!Visiting \subseteq Pages
    BY <2>1 DEF Extraction!Visiting
  <2>3. Cardinality(open) <= Cardinality(Extraction!Visiting) /\ Cardinality(open) \in Nat
        /\ Cardinality(Extraction!Visiting) \in Nat
    BY <2>2, FS_Subset, FS_CardinalityType, ExtractionCounts DEF Extraction!ExtractionAssumption
  <2>4. Cardinality(open) <= PagePlaces
    BY <2>3, ExtractionCounts DEF Extraction!IInv, Extraction!ExtractionAssumption
  <2>5. QED BY <2>1, <2>4, ExtractionCounts DEF Extraction!ContextsAreReleased
<1>4. QED BY <1>1, <1>2, <1>3

\* A page that was refused takes no further step.
LEMMA PageStepIsFinal ==
  ASSUME Extraction!ExtractionAssumption, Extraction!IInv, [Extraction!Next]_(Extraction!vars)
  PROVE  [\A p \in Pages : page[p].refused => sent'[p] = sent[p]]_(Extraction!vars)
<1> SUFFICES ASSUME NEW p \in Pages, page[p].refused PROVE sent'[p] = sent[p]
  OBVIOUS
<1>1. page[p].pc = "over" /\ sent \in [Pages -> [Extraction!Kinds -> Nat]]
  BY DEF Extraction!ExtractionAssumption, Extraction!IInv, Extraction!TypeOK,
     Extraction!PageKnown, Extraction!Budget
<1>2. CASE UNCHANGED Extraction!vars
  BY <1>2 DEF Extraction!vars
<1>3. CASE Extraction!Answer
  BY <1>3 DEF Extraction!Answer
<1>4. ASSUME NEW q \in Pages, Extraction!Extract(q) PROVE sent'[p] = sent[p]
  <2>1. q # p
    BY <1>1, <1>4 DEF Extraction!Extract, Extraction!Start, Extraction!Check, Extraction!Get,
       Extraction!Failed, Extraction!OpenContext, Extraction!RouteRefused, Extraction!Route,
       Extraction!Load, Extraction!Interrupt, Extraction!Read
  <2>2. sent' = sent \/ Extraction!Request(q)
    BY <1>4 DEF Extraction!Extract, Extraction!Start, Extraction!Check, Extraction!Get,
       Extraction!Failed, Extraction!OpenContext, Extraction!RouteRefused, Extraction!Route,
       Extraction!Load, Extraction!Interrupt, Extraction!Read
  <2>3. QED BY <1>1, <2>1, <2>2 DEF Extraction!Request
<1>5. ASSUME NEW q \in Pages, Extraction!PageRequests(q) PROVE sent'[p] = sent[p]
  BY <1>5 DEF Extraction!PageRequests
<1>6. QED BY <1>2, <1>3, <1>4, <1>5 DEF Extraction!Next

-----------------------------------------------------------------------------
(* A connection to Chrome, whatever its calls and their sessions            *)

\* The initial states.
LEMMA ConnectionStarts ==
  ASSUME NEW b, Connection(b)!SessionAssumption, Connection(b)!Init
  PROVE  Connection(b)!IInv
BY DEF Connection!SessionAssumption, Connection!Init, Connection!IInv, Connection!TypeOK,
   Connection!UnsentUnknown, Connection!ResultsAreOwn, Connection!RefusedNeverRuns,
       Connection!ClosedSettlesAll, Connection!ListenersAreOpenWaits, Connection!Outcomes,
         Connection!WaitOutcomes, Connection!Pending, Connection!Waiting

\* The close settles every command and every wait.
LEMMA ClosesKeep ==
  ASSUME NEW b, Connection(b)!IInv, Connection(b)!OnClose,
         ws' \in {"none", "opening", "open", "gone"},
         connected' \in {"none", "waiting", "resolved", "rejected"},
         UNCHANGED <<chrome, answers>>
  PROVE  Connection(b)!IInv'
<1> USE DEF Connection!IInv, Connection!TypeOK, Connection!Outcomes, Connection!Failures,
        Connection!WaitOutcomes
<1>1. CASE closed
  BY <1>1 DEF Connection!OnClose, Connection!UnsentUnknown, Connection!ResultsAreOwn,
     Connection!RefusedNeverRuns, Connection!ClosedSettlesAll,
              Connection!ListenersAreOpenWaits, Connection!Pending, Connection!Waiting
<1>2. CASE ~closed
  <2>1. closed' /\ listeners' = {} /\ handlers' = {}
    BY <1>2 DEF Connection!OnClose
  <2>2. command' = [c \in b.commands |-> IF c \in Connection(b)!Pending THEN "closed"
                                          ELSE command[c]]
    BY <1>2 DEF Connection!OnClose, Connection!Settle
  <2>3. wait' = [w \in b.waits |-> IF w \in Connection(b)!Waiting THEN "null" ELSE wait[w]]
    BY <1>2 DEF Connection!OnClose, Connection!ListenersAreOpenWaits
  <2>4. command' \in [b.commands -> Connection(b)!Outcomes]
            /\ wait' \in [b.waits -> Connection(b)!WaitOutcomes]
    BY <2>2, <2>3
  <2>5. Connection(b)!Pending' = {} /\ Connection(b)!Waiting' = {}
    BY <2>2, <2>3 DEF Connection!Pending, Connection!Waiting
  <2>6. Connection(b)!UnsentUnknown' /\ Connection(b)!ResultsAreOwn'
            /\ Connection(b)!RefusedNeverRuns'
    BY <2>2 DEF Connection!UnsentUnknown, Connection!ResultsAreOwn, Connection!RefusedNeverRuns,
       Connection!Pending
  <2>7. Connection(b)!TypeOK'
    BY <2>1, <2>4
  <2>8. Connection(b)!ClosedSettlesAll' /\ Connection(b)!ListenersAreOpenWaits'
    BY <2>1, <2>5 DEF Connection!ClosedSettlesAll, Connection!ListenersAreOpenWaits
  <2>9. QED BY <2>6, <2>7, <2>8
<1>3. QED BY <1>1, <1>2 DEF Connection!IInv, Connection!TypeOK

\* A settled command stays within what is known of it.
LEMMA SettlesKeep ==
  ASSUME NEW b, Connection(b)!IInv, NEW cs \in SUBSET Connection(b)!Pending,
         NEW o \in Connection(b)!Failures \ {"refused"}, Connection(b)!Settle(cs, o),
         UNCHANGED <<ws, closed, connected, wait, listeners, handlers, chrome, answers>>
  PROVE  Connection(b)!IInv'
<1>1. command' \in [b.commands -> Connection(b)!Outcomes]
  BY DEF Connection!IInv, Connection!TypeOK, Connection!Settle, Connection!Outcomes,
     Connection!Failures
<1>2. \A c \in b.commands : command'[c] = command[c]
                          \/ (c \in Connection(b)!Pending
                              /\ command'[c] \notin {"none", "pending", "result", "refused"})
  <2>1. o \notin {"none", "pending", "result", "refused"}
    BY DEF Connection!Failures
  <2>2. QED BY <2>1 DEF Connection!Settle
<1>3. Connection(b)!Pending' \subseteq Connection(b)!Pending
          /\ Connection(b)!Waiting' = Connection(b)!Waiting
  BY <1>2 DEF Connection!Pending, Connection!Waiting
<1>4. Connection(b)!UnsentUnknown' /\ Connection(b)!ResultsAreOwn'
          /\ Connection(b)!RefusedNeverRuns'
  BY <1>2 DEF Connection!IInv, Connection!UnsentUnknown, Connection!ResultsAreOwn,
     Connection!RefusedNeverRuns
<1>5. Connection(b)!ClosedSettlesAll' /\ Connection(b)!ListenersAreOpenWaits'
  BY <1>3 DEF Connection!IInv, Connection!ClosedSettlesAll, Connection!ListenersAreOpenWaits
<1>6. QED BY <1>1, <1>4, <1>5 DEF Connection!IInv, Connection!TypeOK

\* The waits in ws_ end, and nobody listens for them any more.
LEMMA FinishesKeep ==
  ASSUME NEW b, Connection(b)!IInv, NEW ws_ \in SUBSET Connection(b)!Waiting,
         NEW o \in {"event", "null", "aborted"}, Connection(b)!Finish(ws_, o),
         UNCHANGED <<ws, closed, connected, command, chrome, answers>>
  PROVE  Connection(b)!IInv'
<1>1. wait' \in [b.waits -> Connection(b)!WaitOutcomes]
          /\ Connection(b)!Waiting' = Connection(b)!Waiting \ ws_
          /\ Connection(b)!Pending' = Connection(b)!Pending
  BY DEF Connection!IInv, Connection!TypeOK, Connection!Finish, Connection!WaitOutcomes,
     Connection!Pending, Connection!Waiting
<1>2. Connection(b)!UnsentUnknown' /\ Connection(b)!ResultsAreOwn'
          /\ Connection(b)!RefusedNeverRuns'
  BY DEF Connection!IInv, Connection!UnsentUnknown, Connection!ResultsAreOwn,
     Connection!RefusedNeverRuns
<1>3. Connection(b)!ClosedSettlesAll' /\ Connection(b)!ListenersAreOpenWaits'
  BY <1>1 DEF Connection!IInv, Connection!ClosedSettlesAll, Connection!ListenersAreOpenWaits,
     Connection!Finish
<1>4. QED BY <1>1, <1>2, <1>3 DEF Connection!IInv, Connection!TypeOK, Connection!Finish

\* send
LEMMA SendsKeep ==
  ASSUME NEW b, Connection(b)!IInv, NEW c \in b.commands, Connection(b)!Send(c)
  PROVE  Connection(b)!IInv'
<1> USE DEF Connection!IInv, Connection!TypeOK
<1>1. \E o \in {"refused", "aborted", "pending"} :
        /\ command' = [d \in b.commands |-> IF d \in {c} THEN o ELSE command[d]]
        /\ o = "pending" => ~closed
        /\ IF o = "pending" THEN chrome' = [chrome EXCEPT ![c] = "sent"] ELSE chrome' = chrome
  BY DEF Connection!Send, Connection!Settle
<1>2. UNCHANGED <<ws, closed, connected, wait, listeners, handlers, answers>> /\ command[c] = "none"
  BY DEF Connection!Send
<1>3. command' \in [b.commands -> Connection(b)!Outcomes]
  BY <1>1 DEF Connection!Outcomes, Connection!Failures
<1>4. chrome' \in [b.commands -> {"none", "sent", "ran", "answered"}] /\ chrome[c] = "none"
  BY <1>1, <1>2 DEF Connection!UnsentUnknown
<1>5. Connection(b)!UnsentUnknown' /\ Connection(b)!RefusedNeverRuns'
  BY <1>1, <1>4 DEF Connection!UnsentUnknown, Connection!RefusedNeverRuns
<1>6. Connection(b)!ResultsAreOwn' /\ (closed => Connection(b)!Pending' = {})
          /\ Connection(b)!Waiting' = Connection(b)!Waiting
  BY <1>1, <1>2 DEF Connection!ResultsAreOwn, Connection!ClosedSettlesAll, Connection!Pending,
     Connection!Waiting
<1>7. Connection(b)!ClosedSettlesAll' /\ Connection(b)!ListenersAreOpenWaits'
  BY <1>2, <1>6 DEF Connection!ClosedSettlesAll, Connection!ListenersAreOpenWaits
<1>8. QED BY <1>2, <1>3, <1>4, <1>5, <1>6, <1>7

\* The browser answers.
LEMMA AnswersKeep ==
  ASSUME NEW b, Connection(b)!SessionAssumption, Connection(b)!IInv, NEW c \in b.commands,
         NEW s \in b.sessions, Connection(b)!Answer(c, s)
  PROVE  Connection(b)!IInv'
<1> USE DEF Connection!IInv, Connection!TypeOK
<1>1. PICK o \in {"foreign", "result", "error"} :
        /\ command' = command \/
             (c \in Connection(b)!Pending
              /\ command' = [d \in b.commands |-> IF d \in {c} THEN o ELSE command[d]])
        /\ o = "result" => s = b.session[c]
  BY DEF Connection!Answer, Connection!Settle
<1>2. /\ UNCHANGED <<ws, closed, connected, wait, listeners, handlers>>
      /\ chrome' = [chrome EXCEPT ![c] = "answered"] /\ chrome[c] = "ran"
      /\ answers' = answers \cup {<<c, s>>}
  BY DEF Connection!Answer
<1>3. Connection(b)!TypeOK'
  BY <1>1, <1>2 DEF Connection!Outcomes, Connection!Failures
<1>4. \A d \in b.commands : command'[d] = "result" => <<d, b.session[d]>> \in answers'
  BY <1>1, <1>2 DEF Connection!ResultsAreOwn
<1>5. Connection(b)!UnsentUnknown' /\ Connection(b)!RefusedNeverRuns'
  BY <1>1, <1>2 DEF Connection!UnsentUnknown, Connection!RefusedNeverRuns, Connection!Pending
<1>6. Connection(b)!Pending' \subseteq Connection(b)!Pending
          /\ Connection(b)!Waiting' = Connection(b)!Waiting
  BY <1>1, <1>2 DEF Connection!Pending, Connection!Waiting
<1>7. Connection(b)!ClosedSettlesAll' /\ Connection(b)!ListenersAreOpenWaits'
  BY <1>2, <1>6 DEF Connection!ClosedSettlesAll, Connection!ListenersAreOpenWaits
<1>8. QED BY <1>3, <1>4, <1>5, <1>7 DEF Connection!ResultsAreOwn

\* once
LEMMA OncesKeep ==
  ASSUME NEW b, Connection(b)!IInv, NEW w \in b.waits, Connection(b)!Once(w)
  PROVE  Connection(b)!IInv'
<1> USE DEF Connection!IInv, Connection!TypeOK
<1>1. UNCHANGED <<ws, closed, connected, command, chrome, answers>> /\ wait[w] = "none"
  BY DEF Connection!Once
<1>2. Connection(b)!Pending' = Connection(b)!Pending /\ Connection(b)!UnsentUnknown'
          /\ Connection(b)!RefusedNeverRuns' /\ Connection(b)!ResultsAreOwn'
  BY <1>1 DEF Connection!Pending, Connection!UnsentUnknown, Connection!RefusedNeverRuns,
     Connection!ResultsAreOwn
<1>3. CASE ~closed /\ wait' = [wait EXCEPT ![w] = "waiting"]
  <2>1. listeners' = listeners \cup {w} /\ handlers' = handlers \cup {w}
            /\ Connection(b)!Waiting' = Connection(b)!Waiting \cup {w}
    BY <1>3 DEF Connection!Once, Connection!Waiting
  <2>2. wait' \in [b.waits -> Connection(b)!WaitOutcomes]
    BY <1>3 DEF Connection!WaitOutcomes
  <2>3. QED BY <1>1, <1>2, <1>3, <2>1, <2>2 DEF Connection!ClosedSettlesAll,
       Connection!ListenersAreOpenWaits
<1>4. CASE wait' = [wait EXCEPT ![w] = "null"] \/ wait' = [wait EXCEPT ![w] = "aborted"]
  <2>1. Connection(b)!Waiting' = Connection(b)!Waiting
            /\ wait' \in [b.waits -> Connection(b)!WaitOutcomes]
            /\ UNCHANGED <<listeners, handlers>>
    BY <1>1, <1>4 DEF Connection!Once, Connection!Waiting, Connection!WaitOutcomes
  <2>2. QED BY <1>1, <1>2, <2>1 DEF Connection!ClosedSettlesAll, Connection!ListenersAreOpenWaits
<1>5. QED BY <1>3, <1>4 DEF Connection!Once

\* Every step.
LEMMA ConnectionSteps ==
  ASSUME NEW b, Connection(b)!SessionAssumption, Connection(b)!IInv, Connection(b)!Next
  PROVE  Connection(b)!IInv'
<1>1. CASE Connection(b)!Connect \/ Connection(b)!Opened
  BY <1>1 DEF Connection!Connect, Connection!Opened, Connection!IInv, Connection!TypeOK,
     Connection!UnsentUnknown, Connection!ResultsAreOwn, Connection!RefusedNeverRuns,
              Connection!ClosedSettlesAll, Connection!ListenersAreOpenWaits, Connection!Pending,
                Connection!Waiting
<1>2. CASE Connection(b)!OpenFails \/ Connection(b)!SocketCloses \/ Connection(b)!Close
  <2>1. /\ Connection(b)!OnClose /\ ws' \in {"none", "opening", "open", "gone"}
        /\ connected' \in {"none", "waiting", "resolved", "rejected"}
        /\ UNCHANGED <<chrome, answers>>
    BY <1>2 DEF Connection!OpenFails, Connection!SocketCloses, Connection!Close, Connection!IInv,
       Connection!TypeOK
  <2>2. QED BY <2>1, ClosesKeep
<1>3. ASSUME NEW c \in b.commands, Connection(b)!Run(c) PROVE Connection(b)!IInv'
  <2>1. chrome[c] = "sent" /\ chrome' = [chrome EXCEPT ![c] = "ran"]
        /\ UNCHANGED <<ws, closed, connected, command, wait, listeners, handlers, answers>>
    BY <1>3 DEF Connection!Run
  <2>2. Connection(b)!UnsentUnknown' /\ Connection(b)!RefusedNeverRuns'
    BY <2>1 DEF Connection!IInv, Connection!UnsentUnknown, Connection!RefusedNeverRuns,
       Connection!TypeOK
  <2>3. QED BY <2>1, <2>2 DEF Connection!IInv, Connection!TypeOK, Connection!ResultsAreOwn,
       Connection!ClosedSettlesAll, Connection!ListenersAreOpenWaits, Connection!Pending,
       Connection!Waiting
<1>4. ASSUME NEW c \in b.commands, Connection(b)!Timeout(c) PROVE Connection(b)!IInv'
  BY <1>4, SettlesKeep DEF Connection!Timeout, Connection!Failures
<1>5. ASSUME NEW c \in b.commands, Connection(b)!Cancel(c) PROVE Connection(b)!IInv'
  BY <1>5, SettlesKeep DEF Connection!Cancel, Connection!Failures
<1>6. ASSUME NEW s \in b.sessions, Connection(b)!Detached(s) PROVE Connection(b)!IInv'
  BY <1>6, SettlesKeep DEF Connection!Detached, Connection!Failures
<1>7. ASSUME NEW w \in b.waits, Connection(b)!WaitTimeout(w) \/ Connection(b)!WaitCancel(w)
      PROVE  Connection(b)!IInv'
  BY <1>7, FinishesKeep DEF Connection!WaitTimeout, Connection!WaitCancel
<1>8. ASSUME NEW s \in b.sessions, NEW ws_ \in SUBSET b.waits, Connection(b)!Event(s, ws_)
      PROVE  Connection(b)!IInv'
  <2>1. ws_ \subseteq Connection(b)!Waiting
    BY <1>8 DEF Connection!Event, Connection!IInv, Connection!ListenersAreOpenWaits
  <2>2. QED BY <1>8, <2>1, FinishesKeep DEF Connection!Event
<1>9. QED BY <1>1, <1>2, <1>3, <1>4, <1>5, <1>6, <1>7, <1>8, SendsKeep, AnswersKeep,
     OncesKeep DEF Connection!Next

\* And what leaves the connection alone.
LEMMA ConnectionStays ==
  ASSUME NEW b, Connection(b)!IInv, UNCHANGED Connection(b)!vars
  PROVE  Connection(b)!IInv'
BY DEF Connection!vars, Connection!IInv, Connection!TypeOK, Connection!UnsentUnknown,
   Connection!ResultsAreOwn, Connection!RefusedNeverRuns, Connection!ClosedSettlesAll,
       Connection!ListenersAreOpenWaits, Connection!Pending, Connection!Waiting

\* What the invariant says of the connection.
LEMMA ConnectionMeans ==
  ASSUME NEW b, Connection(b)!IInv
  PROVE  Connection(b)!TypeOK /\ Connection(b)!ResultsAreOwn /\ Connection(b)!RefusedNeverRuns
             /\ Connection(b)!ClosedSettlesAll /\ Connection(b)!ListenersAreOpenWaits
BY DEF Connection!IInv

-----------------------------------------------------------------------------
(* The proxied connections, whatever the bounds                             *)

\* The bytes that came through, in their order.
InOrder(t) == t.got = [i \in 1..t.sent |-> i]

\* What comes through stays in order.
LEMMA ThroughInOrder ==
  ASSUME NEW b, NEW t \in Relay(b)!Traffic, InOrder(t), NEW n \in Nat,
         t.sent + n <= b.bytes,
         Relay(b)!BoundsAssumption
  PROVE  /\ Relay(b)!Through(t, n) \in Relay(b)!Traffic /\ InOrder(Relay(b)!Through(t, n))
         /\ Relay(b)!Through(t, n).sent = t.sent + n
<1> USE DEF InOrder
<1> DEFINE more == [i \in 1..n |-> t.sent + i]
<1>1. t.sent \in Nat /\ t.sent + n \in 0..b.bytes /\ t.got \in Seq(1..b.bytes) /\ b.bytes \in Nat
  BY DEF Relay!Traffic, Relay!BoundsAssumption
<1>2. Len(t.got) = t.sent
  BY <1>1
<1>3. more \in Seq(1..b.bytes) /\ Len(more) = n
  <2>1. \A i \in 1..n : t.sent + i \in 1..b.bytes
    BY <1>1
  <2>2. more \in [1..n -> 1..b.bytes]
    BY <2>1
  <2>3. QED BY <2>2
<1>4. t.got \o more \in Seq(1..b.bytes) /\ Len(t.got \o more) = t.sent + n
  BY <1>1, <1>2, <1>3
<1>5. ASSUME NEW i \in 1..(t.sent + n) PROVE (t.got \o more)[i] = i
  <2>1. CASE i <= t.sent
    BY <1>1, <1>2, <1>3, <2>1
  <2>2. CASE i > t.sent
    <3>1. (t.got \o more)[i] = more[i - t.sent]
      BY <1>1, <1>2, <1>3, <2>2
    <3>2. i - t.sent \in 1..n
      BY <1>1, <2>2
    <3>3. QED BY <1>1, <3>1, <3>2
  <2>3. QED BY <1>1, <2>1, <2>2
<1>6. t.got \o more = [i \in 1..(t.sent + n) |-> i]
  BY <1>1, <1>4, <1>5, SMTT(60)
<1>7. Relay(b)!Through(t, n) = [sent |-> t.sent + n, got |-> t.got \o more]
  BY DEF Relay!Through
<1> HIDE DEF more
<1>8. QED BY <1>1, <1>4, <1>6, <1>7 DEF Relay!Traffic

\* After an await comes the next one of the same upstream, or the tunnel.
LEMMA FollowingAwaits ==
  ASSUME NEW b, proxy \in DOMAIN Relay(b)!Awaits, NEW s, NEW j \in DOMAIN Relay(b)!Awaits[proxy],
         Relay(b)!Awaits[proxy][j] = s
  PROVE  /\ Relay(b)!Following(s) \in Relay(b)!Replies \cup {"piping"}
         /\ Relay(b)!Following(s) \in Relay(b)!Waiting =>
            \E i \in DOMAIN Relay(b)!Awaits[proxy] : Relay(b)!Awaits[proxy][i] =
              Relay(b)!Following(s)
<1> DEFINE order == Relay(b)!Awaits[proxy]
           k == CHOOSE i \in DOMAIN order : order[i] = s
<1>1. k \in DOMAIN order
  OBVIOUS
<1>2. Relay(b)!Following(s) = IF k < Len(order) THEN order[k + 1] ELSE "piping"
  BY DEF Relay!Following
<1> HIDE DEF k
<1>3. /\ DOMAIN order = 1..Len(order) /\ Len(order) \in 2..4
      /\ \A i \in DOMAIN order : i > 1 => order[i] \in Relay(b)!Replies
  BY DEF Relay!Awaits, Relay!Replies
<1> HIDE DEF order
<1>4. CASE k < Len(order)
  <2>1. k + 1 \in DOMAIN order /\ k + 1 > 1 /\ Relay(b)!Following(s) = order[k + 1]
    BY <1>1, <1>2, <1>3, <1>4
  <2>2. Relay(b)!Following(s) \in Relay(b)!Replies
    BY <1>3, <2>1
  <2>3. QED BY <2>1, <2>2 DEF order
<1>5. CASE ~(k < Len(order))
  BY <1>2, <1>5 DEF Relay!Waiting, Relay!Replies
<1>6. QED BY <1>4, <1>5

\* The initial states.
LEMMA RelayStarts ==
  ASSUME NEW b, Relay(b)!BoundsAssumption, Relay(b)!Init
  PROVE  Relay(b)!IInv
<1>1. Relay(b)!Quiet \in Relay(b)!Traffic
          /\ Relay(b)!Quiet.got = [i \in 1..Relay(b)!Quiet.sent |-> i]
  BY DEF Relay!Quiet, Relay!Traffic, Relay!BoundsAssumption
<1>2. Relay(b)!TypeOK
  <2>1. pieces \in 0..b.reply
    BY DEF Relay!BoundsAssumption, Relay!Init
  <2>2. timed \in BOOLEAN /\ early \in BOOLEAN
    BY Zenon DEF Relay!Init
  <2>3. QED BY <1>1, <2>1, <2>2 DEF Relay!Init, Relay!TypeOK
<1>3. Relay(b)!Negotiates /\ Relay(b)!TimerGuards /\ Relay(b)!GoneByReset
          /\ Relay(b)!OrphansOnlyOfResets
  BY DEF Relay!Init, Relay!Negotiates, Relay!TimerGuards, Relay!GoneByReset,
     Relay!OrphansOnlyOfResets, Relay!Waiting, Relay!Replies
<1>4. Relay(b)!BytesInOrder
  BY <1>1 DEF Relay!Init, Relay!BytesInOrder
<1>5. QED BY <1>2, <1>3, <1>4 DEF Relay!IInv

\* The upstream breaks.
LEMMA BreaksKeep ==
  ASSUME NEW b, Relay(b)!BoundsAssumption, Relay(b)!IInv, Relay(b)!Broken
  PROVE  Relay(b)!IInv'
<1> USE DEF Relay!Broken, Relay!Answer502, Relay!IInv, Relay!TypeOK
<1>1. Relay(b)!TypeOK'
  <2>1. client' \in {client, "refused", "gone"}
    BY DEF Relay!Waiting, Relay!Replies
  <2>2. timed' \in BOOLEAN /\ early' \in BOOLEAN
    BY Zenon
  <2>3. pieces' \in 0..b.reply
    BY DEF Relay!BoundsAssumption
  <2>4. QED BY <2>1, <2>2, <2>3
<1>2. QED BY <1>1 DEF Relay!Negotiates, Relay!TimerGuards, Relay!GoneByReset, Relay!BytesInOrder,
     Relay!OrphansOnlyOfResets, Relay!Waiting, Relay!Replies

\* A reply that agrees leads to the next await, or to the tunnel.
LEMMA AgreesKeep ==
  ASSUME NEW b, Relay(b)!BoundsAssumption, Relay(b)!IInv, Relay(b)!Agrees
  PROVE  Relay(b)!IInv'
<1>1. /\ stage \in Relay(b)!Replies /\ upstream = "open" /\ stage' = Relay(b)!Following(stage)
      /\ pieces' = 0
      /\ UNCHANGED <<kind, proxy, upstream, early>>
  BY DEF Relay!Agrees
<1>2. Relay(b)!TypeOK /\ proxy \in DOMAIN Relay(b)!Awaits /\ stage \in Relay(b)!Waiting /\ timed
          /\ up = Relay(b)!Quiet /\ down = Relay(b)!Quiet
  BY <1>1 DEF Relay!IInv, Relay!TypeOK, Relay!Negotiates, Relay!TimerGuards, Relay!Waiting,
     Relay!Replies
<1>3. PICK j \in DOMAIN Relay(b)!Awaits[proxy] : Relay(b)!Awaits[proxy][j] = stage
  BY <1>2 DEF Relay!IInv, Relay!Negotiates
<1>4. /\ stage' \in Relay(b)!Replies \cup {"piping"}
      /\ stage' \in Relay(b)!Waiting =>
         \E i \in DOMAIN Relay(b)!Awaits[proxy'] : Relay(b)!Awaits[proxy'][i] = stage'
  BY <1>1, <1>2, <1>3, FollowingAwaits
<1>5. CASE stage' # "piping"
  <2>1. UNCHANGED <<client, timed, up, down>> /\ stage' \in Relay(b)!Waiting
    BY <1>4, <1>5 DEF Relay!Agrees, Relay!Waiting
  <2>2. Relay(b)!TypeOK'
    BY <1>1, <1>2, <2>1 DEF Relay!TypeOK, Relay!BoundsAssumption
  <2>3. QED BY <1>1, <1>2, <1>4, <2>1, <2>2
       DEF Relay!IInv, Relay!Negotiates, Relay!TimerGuards, Relay!GoneByReset, Relay!BytesInOrder,
         Relay!OrphansOnlyOfResets, Relay!Replies
<1>6. CASE stage' = "piping"
  <2>1. /\ timed' = FALSE /\ client' = IF client = "asking" THEN "piped" ELSE client
        /\ \E n \in 0..b.bytes : down' = IF client = "gone" THEN down ELSE Relay(b)!Through(down, n)
        /\ \E m \in 0..b.bytes : up' = IF client = "asking" THEN Relay(b)!Through(up, m) ELSE up
    BY <1>6 DEF Relay!Agrees
  <2>2. Relay(b)!Quiet \in Relay(b)!Traffic /\ InOrder(Relay(b)!Quiet) /\ Relay(b)!Quiet.sent = 0
    BY DEF InOrder, Relay!Quiet, Relay!Traffic, Relay!BoundsAssumption
  <2>3. ASSUME NEW n \in 0..b.bytes
        PROVE  /\ Relay(b)!Through(Relay(b)!Quiet, n) \in Relay(b)!Traffic
               /\ InOrder(Relay(b)!Through(Relay(b)!Quiet, n))
    <3>1. n \in Nat /\ Relay(b)!Quiet.sent + n <= b.bytes
      BY <2>2 DEF Relay!BoundsAssumption
    <3>2. QED BY <2>2, <3>1, ThroughInOrder, Zenon
  <2>4. up' \in Relay(b)!Traffic /\ down' \in Relay(b)!Traffic /\ Relay(b)!BytesInOrder'
    BY <1>2, <2>1, <2>2, <2>3 DEF InOrder, Relay!BytesInOrder
  <2>5. Relay(b)!TypeOK'
    <3>1. client' \in {client, "piped"} /\ stage' = "piping" /\ timed' = FALSE
      BY <1>6, <2>1
    <3>2. timed' \in BOOLEAN /\ early' \in BOOLEAN
      BY <1>1, <1>2, <3>1, Zenon DEF Relay!TypeOK
    <3>3. pieces' \in 0..b.reply
      BY <1>1 DEF Relay!BoundsAssumption
    <3>4. QED BY <1>1, <1>2, <2>4, <3>1, <3>2, <3>3 DEF Relay!TypeOK
  <2>6. Relay(b)!Negotiates' /\ Relay(b)!TimerGuards' /\ Relay(b)!GoneByReset'
            /\ Relay(b)!OrphansOnlyOfResets'
    BY <1>1, <1>2, <1>6, <2>1
       DEF Relay!IInv, Relay!Negotiates, Relay!TimerGuards, Relay!GoneByReset,
         Relay!OrphansOnlyOfResets, Relay!Waiting, Relay!Replies
  <2>7. QED BY <2>4, <2>5, <2>6 DEF Relay!IInv
<1>7. QED BY <1>5, <1>6

\* The browser or the upstream sends a byte through the tunnel.
LEMMA BytesKeep ==
  ASSUME NEW b, Relay(b)!BoundsAssumption, Relay(b)!IInv, Relay(b)!SendsUp \/ Relay(b)!SendsDown
  PROVE  Relay(b)!IInv'
<1>1. /\ stage = "piping"
      /\ UNCHANGED <<kind, proxy, stage, client, upstream, timed, pieces, early>>
      /\ \/ up.sent < b.bytes /\ up' = Relay(b)!Through(up, 1) /\ down' = down
         \/ down.sent < b.bytes /\ down' = Relay(b)!Through(down, 1) /\ up' = up
  BY DEF Relay!SendsUp, Relay!SendsDown
<1>2. up \in Relay(b)!Traffic /\ down \in Relay(b)!Traffic /\ up.sent \in Nat /\ down.sent \in Nat
  BY DEF Relay!IInv, Relay!TypeOK, Relay!Traffic, Relay!BoundsAssumption
<1>3. ASSUME NEW t \in {up, down}, t.sent < b.bytes
      PROVE  Relay(b)!Through(t, 1) \in Relay(b)!Traffic /\ InOrder(Relay(b)!Through(t, 1))
  <2>1. t \in Relay(b)!Traffic /\ InOrder(t) /\ t.sent + 1 <= b.bytes
    <3>1. t \in Relay(b)!Traffic /\ t.sent + 1 <= b.bytes
      BY <1>2, <1>3 DEF Relay!BoundsAssumption
    <3>2. InOrder(t)
      BY <1>3 DEF InOrder, Relay!IInv, Relay!BytesInOrder
    <3>3. QED BY <3>1, <3>2
  <2>2. QED BY <2>1, ThroughInOrder
<1>4. up' \in Relay(b)!Traffic /\ down' \in Relay(b)!Traffic /\ Relay(b)!BytesInOrder'
  BY <1>1, <1>2, <1>3 DEF InOrder, Relay!IInv, Relay!BytesInOrder
<1>5. QED BY <1>1, <1>4 DEF Relay!IInv, Relay!TypeOK, Relay!Negotiates, Relay!TimerGuards,
     Relay!GoneByReset, Relay!OrphansOnlyOfResets, Relay!Waiting, Relay!Replies

\* The first of what the handler awaits is the upstream, and it is not all.
LEMMA AwaitsBegin ==
  ASSUME NEW b, NEW x \in DOMAIN Relay(b)!Awaits
  PROVE  /\ "connecting" = Relay(b)!Awaits[x][1] /\ 1 \in DOMAIN Relay(b)!Awaits[x]
         /\ Len(Relay(b)!Awaits[x]) > 1
         /\ \A i \in DOMAIN Relay(b)!Awaits[x] : Relay(b)!Awaits[x][i] = "connecting" => i = 1
<1>1. x \in {"http", "socks", "socksauth"}
  BY DEF Relay!Awaits
<1>2. CASE x = "http"
  BY <1>2 DEF Relay!Awaits
<1>3. CASE x = "socks"
  BY <1>3 DEF Relay!Awaits
<1>4. CASE x = "socksauth"
  BY <1>4 DEF Relay!Awaits
<1>5. QED BY <1>1, <1>2, <1>3, <1>4

\* Every step.
LEMMA RelaySteps ==
  ASSUME NEW b, Relay(b)!BoundsAssumption, Relay(b)!IInv, Relay(b)!Next
  PROVE  Relay(b)!IInv'
<1> USE DEF Relay!IInv, Relay!TypeOK, Relay!Waiting, Relay!Replies, Relay!BoundsAssumption
<1>1. CASE Relay(b)!Ask
  <2>1. "connecting" = Relay(b)!Awaits[proxy][1] /\ 1 \in DOMAIN Relay(b)!Awaits[proxy]
    BY DEF Relay!Awaits
  <2>2. QED BY <1>1, <2>1 DEF Relay!Ask, Relay!Negotiates, Relay!TimerGuards, Relay!GoneByReset,
       Relay!BytesInOrder, Relay!OrphansOnlyOfResets
<1>2. CASE Relay(b)!Connected
  <2>1. /\ stage = "connecting" /\ upstream = "connecting" /\ upstream' = "open"
        /\ stage' = Relay(b)!Following(stage)
        /\ UNCHANGED <<kind, proxy, client, timed, pieces, early, up, down>>
    BY <1>2 DEF Relay!Connected
  <2>2. "connecting" = Relay(b)!Awaits[proxy][1] /\ 1 \in DOMAIN Relay(b)!Awaits[proxy]
            /\ Len(Relay(b)!Awaits[proxy]) > 1
        /\ \A i \in DOMAIN Relay(b)!Awaits[proxy] : Relay(b)!Awaits[proxy][i] = "connecting" =>
           i = 1
    BY AwaitsBegin
  <2>3. Relay(b)!Following(stage) = Relay(b)!Awaits[proxy][2] /\ 2 \in DOMAIN Relay(b)!Awaits[proxy]
    <3>1. (CHOOSE j \in DOMAIN Relay(b)!Awaits[proxy] : Relay(b)!Awaits[proxy][j] = stage) = 1
      BY <2>1, <2>2
    <3>2. Relay(b)!Following(stage) = Relay(b)!Awaits[proxy][1 + 1]
      BY <2>2, <3>1 DEF Relay!Following
    <3>3. 2 \in DOMAIN Relay(b)!Awaits[proxy]
      BY DEF Relay!Awaits
    <3>4. QED BY <3>2, <3>3
  <2>4. stage' \in Relay(b)!Replies
    BY <2>1, <2>3 DEF Relay!Awaits
  <2>5. QED BY <2>1, <2>3, <2>4 DEF Relay!Negotiates, Relay!TimerGuards, Relay!GoneByReset,
       Relay!BytesInOrder, Relay!OrphansOnlyOfResets
<1>3. CASE Relay(b)!Refuses
  BY <1>3 DEF Relay!Refuses, Relay!Answer502, Relay!Negotiates, Relay!TimerGuards,
     Relay!GoneByReset, Relay!BytesInOrder, Relay!OrphansOnlyOfResets
<1>4. CASE Relay(b)!Piece
  <2>1. CASE Relay(b)!Broken
    BY <2>1, BreaksKeep
  <2>2. CASE pieces < b.reply /\ pieces' = pieces + 1
             /\ UNCHANGED <<kind, proxy, stage, client, upstream, timed, early, up, down>>
    BY <2>2 DEF Relay!Negotiates, Relay!TimerGuards, Relay!GoneByReset, Relay!BytesInOrder,
       Relay!OrphansOnlyOfResets
  <2>3. QED BY <1>4, <2>1, <2>2 DEF Relay!Piece
<1>5. CASE Relay(b)!Timeout \/ Relay(b)!Fails
  BY <1>5, BreaksKeep DEF Relay!Timeout, Relay!Fails
<1>6. CASE Relay(b)!Ends
  BY <1>6 DEF Relay!Ends, Relay!Negotiates, Relay!TimerGuards, Relay!GoneByReset,
     Relay!BytesInOrder, Relay!OrphansOnlyOfResets
<1>7. CASE Relay(b)!Closes
  BY <1>7 DEF Relay!Closes, Relay!Negotiates, Relay!TimerGuards, Relay!GoneByReset,
     Relay!BytesInOrder, Relay!OrphansOnlyOfResets
<1>8. CASE Relay(b)!Resets
  BY <1>8 DEF Relay!Resets, Relay!Negotiates, Relay!TimerGuards, Relay!GoneByReset,
     Relay!BytesInOrder, Relay!OrphansOnlyOfResets
<1>9. QED BY <1>1, <1>2, <1>3, <1>4, <1>5, <1>6, <1>7, <1>8, AgreesKeep, BytesKeep DEF Relay!Next

\* And what leaves the relay alone.
LEMMA RelayStays ==
  ASSUME NEW b, Relay(b)!IInv, UNCHANGED Relay(b)!vars
  PROVE  Relay(b)!IInv'
BY DEF Relay!vars, Relay!IInv, Relay!TypeOK, Relay!Negotiates, Relay!TimerGuards,
   Relay!GoneByReset, Relay!BytesInOrder, Relay!OrphansOnlyOfResets

\* What the invariant says of the relay.
LEMMA RelayMeans ==
  ASSUME NEW b, Relay(b)!IInv
  PROVE  Relay(b)!TypeOK /\ Relay(b)!BytesInOrder /\ Relay(b)!OrphansOnlyOfResets
BY DEF Relay!IInv

-----------------------------------------------------------------------------
(* The frames of a live view, whatever its viewers and their limit          *)

\* The instance counts as FiniteSets does.
LEMMA FramesCounts ==
  ASSUME NEW b, NEW S
  PROVE  Frames(b)!Cardinality(S) = Cardinality(S)
BY Zenon DEF Frames!Cardinality, Cardinality

\* What is counted and kept for a viewer.
Counts(b) == [inFlight : 0..b.inFlight, latest : 0..b.frames, silent : BOOLEAN]

\* A viewer's record st, the frames w under way to it, its acknowledgements a and h,
\* whether it was resumed, and how many frames were painted.
Fine(b, st, w, a, h, r, n) ==
  /\ st \in Counts(b) /\ w \in Seq(1..b.frames) /\ a \in Nat /\ h \in Nat /\ n \in 0..b.frames
  /\ st.inFlight <= Len(w) + a + h
  /\ ~r => st.inFlight = Len(w) + a + h
  /\ \A i, j \in 1..Len(w) : i < j => w[i] < w[j]
  /\ \A i \in 1..Len(w) : w[i] <= n
  /\ st.latest # 0 => \A i \in 1..Len(w) : w[i] < st.latest
  /\ st.latest <= n

\* A frame waits only at the limit.
AtLimit(b, st) == st.latest # 0 => st.inFlight = b.inFlight

\* What holds of every viewer.
FineAt(b, v) == Fine(b, state[v], wire[v], acks[v], withheld[v], resumed[v], painted)

\* What the steps of the frames leave alone, or change by themselves.
Surroundings(b) ==
  /\ viewer \in [b.viewers -> {"new", "open", "gone"}]
  /\ state \in [b.viewers -> Counts(b)] /\ wire \in [b.viewers -> Seq(1..b.frames)]
  /\ acks \in [b.viewers -> Nat] /\ withheld \in [b.viewers -> Nat]
  /\ resumed \in [b.viewers -> BOOLEAN] /\ credit \in BOOLEAN /\ finished \in BOOLEAN
  /\ painted \in 0..b.frames /\ Frames(b)!Ended

\* The invariant, viewer by viewer.
LEMMA FramesParts ==
  ASSUME NEW b
  PROVE  Frames(b)!IInv <=>
           Surroundings(b) /\ \A v \in b.viewers : FineAt(b, v) /\ AtLimit(b, state[v])
<1>1. ASSUME Surroundings(b), NEW v \in b.viewers
      PROVE  (Frames(b)!Counted(v) /\ Frames(b)!WaitsAtLimit(v) /\ Frames(b)!Rising(v)) <=>
               (FineAt(b, v) /\ AtLimit(b, state[v]))
  <2>1. state[v] \in Counts(b) /\ wire[v] \in Seq(1..b.frames) /\ acks[v] \in Nat
            /\ withheld[v] \in Nat
        /\ painted \in 0..b.frames
    BY <1>1 DEF Surroundings
  <2>2. QED BY <2>1 DEF Frames!Counted, Frames!WaitsAtLimit, Frames!Rising, FineAt, Fine, AtLimit,
       Frames!Unacknowledged, Frames!NoFrame
<1>2. Surroundings(b) <=> /\ Frames(b)!TypeOK /\ Frames(b)!Ended
                       /\ wire \in [b.viewers -> Seq(1..b.frames)]
                       /\ withheld \in [b.viewers -> Nat]
                       /\ resumed \in [b.viewers -> BOOLEAN] /\ credit \in BOOLEAN
                       /\ finished \in BOOLEAN
  BY DEF Surroundings, Frames!TypeOK, Counts
<1>3. QED BY <1>1, <1>2 DEF Frames!IInv

\* So is the next state's.
LEMMA FramesNext ==
  ASSUME NEW b, Surroundings(b)', \A v \in b.viewers : FineAt(b, v)' /\ AtLimit(b, state'[v])
  PROVE  Frames(b)!IInv'
<1>1. ASSUME NEW v \in b.viewers
      PROVE  (Frames(b)!Counted(v) /\ Frames(b)!WaitsAtLimit(v) /\ Frames(b)!Rising(v))'
  <2>1. /\ state'[v] \in Counts(b) /\ wire'[v] \in Seq(1..b.frames) /\ acks'[v] \in Nat
        /\ withheld'[v] \in Nat /\ painted' \in 0..b.frames
    BY DEF Surroundings
  <2>2. FineAt(b, v)' /\ AtLimit(b, state'[v])
    OBVIOUS
  <2>3. QED BY <2>1, <2>2 DEF Frames!Counted, Frames!WaitsAtLimit, Frames!Rising, FineAt, Fine, AtLimit,
       Frames!Unacknowledged, Frames!NoFrame
<1>2. /\ Frames(b)!TypeOK' /\ Frames(b)!Ended'
      /\ wire' \in [b.viewers -> Seq(1..b.frames)] /\ withheld' \in [b.viewers -> Nat]
      /\ resumed' \in [b.viewers -> BOOLEAN] /\ credit' \in BOOLEAN /\ finished' \in BOOLEAN
  BY DEF Surroundings, Frames!TypeOK, Counts
<1>3. QED BY <1>1, <1>2 DEF Frames!IInv

\* What a sequence holds.
LEMMA Elements ==
  ASSUME NEW S, NEW w \in Seq(S), NEW i \in 1..Len(w)
  PROVE  w[i] \in S
OBVIOUS

\* deliver: a frame is only sent into room, and is newer than those under way.
LEMMA DeliversFine ==
  ASSUME NEW b, Frames(b)!InFlightAssumption, NEW st, NEW w, NEW a, NEW h, NEW r, NEW n,
         Fine(b, st, w, a, h, r, n)
  PROVE  Fine(b, Frames(b)!Delivered(st), w \o Frames(b)!Sent(st), a, h, r, n)
             /\ AtLimit(b, Frames(b)!Delivered(st))
<1>1. /\ st \in Counts(b) /\ w \in Seq(1..b.frames) /\ a \in Nat /\ h \in Nat /\ n \in 0..b.frames
      /\ st.inFlight \in 0..b.inFlight /\ st.latest \in 0..b.frames /\ Len(w) \in Nat
      /\ b.inFlight \in Nat /\ b.frames \in Nat
  BY DEF Fine, Counts, Frames!InFlightAssumption
<1>2. CASE ~Frames(b)!Deliverable(st)
  <2>1. Frames(b)!Delivered(st) = st /\ Frames(b)!Sent(st) = << >> /\ w \o << >> = w
    BY <1>1, <1>2 DEF Frames!Delivered, Frames!Sent
  <2>2. AtLimit(b, st)
    BY <1>1, <1>2 DEF Frames!Deliverable, AtLimit, Frames!NoFrame
  <2>3. QED BY <2>1, <2>2
<1>3. CASE Frames(b)!Deliverable(st)
  <2>1. /\ Frames(b)!Delivered(st) = [inFlight |-> st.inFlight + 1, latest |-> 0, silent |-> FALSE]
        /\ Frames(b)!Sent(st) = <<st.latest>> /\ st.latest # 0
        /\ st.inFlight + 1 \in 0..b.inFlight
    BY <1>1, <1>3 DEF Frames!Delivered, Frames!Sent, Frames!Deliverable, Frames!NoFrame
  <2> DEFINE u == w \o <<st.latest>>
  <2>2. /\ u \in Seq(1..b.frames) /\ Len(u) = Len(w) + 1
        /\ \A i \in 1..Len(w) : u[i] = w[i]
        /\ u[Len(w) + 1] = st.latest
    <3>1. <<st.latest>> \in Seq(1..b.frames) /\ Len(<<st.latest>>) = 1
              /\ <<st.latest>>[1] = st.latest
      BY <1>1, <2>1
    <3>2. u \in Seq(1..b.frames) /\ Len(u) = Len(w) + Len(<<st.latest>>)
      BY <1>1, <3>1
    <3>3. u[Len(w) + 1] = <<st.latest>>[1]
      BY <1>1, <3>1, <3>2
    <3>4. QED BY <1>1, <3>1, <3>2, <3>3
  <2> HIDE DEF u
  <2>3. \A i \in 1..Len(w) : u[i] < st.latest /\ u[i] <= n
    BY <2>1, <2>2 DEF Fine
  <2>4. \A i, j \in 1..Len(u) : i < j => u[i] < u[j]
    <3> SUFFICES ASSUME NEW i \in 1..Len(u), NEW j \in 1..Len(u), i < j PROVE u[i] < u[j]
      OBVIOUS
    <3>1. i \in 1..Len(w) /\ (j \in 1..Len(w) \/ j = Len(w) + 1)
      <4>1. Len(w) \in Nat /\ i \in 1..Len(w) + 1 /\ j \in 1..Len(w) + 1
        BY <1>1, <2>2
      <4>2. QED BY <4>1
    <3>2. QED BY <2>2, <2>3, <3>1 DEF Fine
  <2>5. \A i \in 1..Len(u) : u[i] <= n
    BY <1>1, <2>2, <2>3 DEF Fine
  <2>6. Frames(b)!Delivered(st) \in Counts(b) /\ Frames(b)!Delivered(st).latest = 0
            /\ Frames(b)!Delivered(st).inFlight = st.inFlight + 1
    BY <1>1, <2>1 DEF Counts
  <2>7. /\ st.inFlight + 1 <= Len(u) + a + h
        /\ ~r => st.inFlight + 1 = Len(u) + a + h
    BY <1>1, <2>2 DEF Fine
  <2>8. Fine(b, Frames(b)!Delivered(st), u, a, h, r, n)
    BY <1>1, <2>2, <2>4, <2>5, <2>6, <2>7 DEF Fine
  <2>9. QED BY <2>1, <2>6, <2>8 DEF u, AtLimit
<1>4. QED BY <1>2, <1>3

\* A frame replaces the one that waits, and resumes a viewer that fell silent.
LEMMA FramedFine ==
  ASSUME NEW b, Frames(b)!InFlightAssumption, NEW st, NEW w, NEW a, NEW h, NEW r, NEW n,
         Fine(b, st, w, a, h, r, n),
         n < b.frames
  PROVE  Fine(b, Frames(b)!Framed(st, n + 1), w, a, h, r \/ Frames(b)!Resumes(st), n + 1)
<1>1. /\ st \in Counts(b) /\ w \in Seq(1..b.frames) /\ a \in Nat /\ h \in Nat
      /\ n + 1 \in 0..b.frames
      /\ st.inFlight \in 0..b.inFlight /\ Len(w) \in Nat /\ n \in Nat /\ b.inFlight \in Nat
      /\ 0 \in 0..b.inFlight
  BY DEF Fine, Counts, Frames!InFlightAssumption
<1>2. /\ Frames(b)!Framed(st, n + 1) \in Counts(b) /\ Frames(b)!Framed(st, n + 1).latest = n + 1
      /\ Frames(b)!Framed(st, n + 1).inFlight = IF Frames(b)!Resumes(st) THEN 0 ELSE st.inFlight
  BY <1>1 DEF Frames!Framed, Counts
<1>3. \A i \in 1..Len(w) : w[i] < n + 1 /\ w[i] <= n + 1
  <2> SUFFICES ASSUME NEW i \in 1..Len(w) PROVE w[i] < n + 1 /\ w[i] <= n + 1
    OBVIOUS
  <2>1. w[i] <= n /\ w[i] \in 1..b.frames
    BY <1>1, Elements DEF Fine
  <2>2. QED BY <1>1, <2>1
<1>4. CASE Frames(b)!Resumes(st)
  BY <1>1, <1>2, <1>3, <1>4 DEF Fine
<1>5. CASE ~Frames(b)!Resumes(st)
  BY <1>1, <1>2, <1>3, <1>5 DEF Fine
<1>6. QED BY <1>4, <1>5

\* A frame that is shown is acknowledged, or withheld.
LEMMA ShownFine ==
  ASSUME NEW b, NEW st, NEW w, NEW a, NEW h, NEW r, NEW n, Fine(b, st, w, a, h, r, n), w # << >>
  PROVE  Fine(b, st, Tail(w), a + 1, h, r, n) /\ Fine(b, st, Tail(w), a, h + 1, r, n)
<1>1. /\ st \in Counts(b) /\ w \in Seq(1..b.frames) /\ a \in Nat /\ h \in Nat
      /\ Len(w) \in Nat \ {0}
  BY DEF Fine
<1>2. /\ Tail(w) \in Seq(1..b.frames) /\ Len(Tail(w)) = Len(w) - 1
      /\ \A i \in 1..Len(Tail(w)) : Tail(w)[i] = w[i + 1] /\ i + 1 \in 1..Len(w)
  BY <1>1
<1>3. /\ Len(Tail(w)) + (a + 1) + h = Len(w) + a + h
      /\ Len(Tail(w)) + a + (h + 1) = Len(w) + a + h
  BY <1>1, <1>2
<1>4. \A i, j \in 1..Len(Tail(w)) : i < j => Tail(w)[i] < Tail(w)[j]
  <2> SUFFICES ASSUME NEW i \in 1..Len(Tail(w)), NEW j \in 1..Len(Tail(w)), i < j
               PROVE  Tail(w)[i] < Tail(w)[j]
    OBVIOUS
  <2>1. i + 1 < j + 1 /\ i + 1 \in 1..Len(w) /\ j + 1 \in 1..Len(w)
    BY <1>2
  <2>2. QED BY <1>2, <2>1 DEF Fine
<1>5. /\ \A i \in 1..Len(Tail(w)) : Tail(w)[i] <= n
      /\ st.latest # 0 => \A i \in 1..Len(Tail(w)) : Tail(w)[i] < st.latest
  BY <1>2 DEF Fine
<1>6. QED BY <1>1, <1>2, <1>3, <1>4, <1>5 DEF Fine

\* An acknowledgement takes one off the count, and off those on their way back.
LEMMA AckedFine ==
  ASSUME NEW b, NEW st, NEW w, NEW a, NEW h, NEW r, NEW n, Fine(b, st, w, a, h, r, n), a > 0,
         Frames(b)!InFlightAssumption
  PROVE  Fine(b, [st EXCEPT !.inFlight = Frames(b)!Minus1(@)], w, a - 1, h, r, n)
<1>1. /\ st \in Counts(b) /\ a \in Nat /\ h \in Nat /\ st.inFlight \in 0..b.inFlight
      /\ b.inFlight \in Nat
      /\ w \in Seq(1..b.frames) /\ Len(w) \in Nat /\ a - 1 \in Nat
  BY DEF Fine, Counts, Frames!InFlightAssumption
<1> DEFINE m == Frames(b)!Minus1(st.inFlight)
           s == [st EXCEPT !.inFlight = Frames(b)!Minus1(@)]
<1>2. m \in 0..b.inFlight /\ (m = st.inFlight - 1 \/ (m = 0 /\ st.inFlight = 0))
  BY <1>1 DEF Frames!Minus1
<1>3. s \in Counts(b) /\ s.inFlight = m /\ s.latest = st.latest
  BY <1>1, <1>2 DEF Counts
<1> HIDE DEF m, s
<1>4. /\ m <= Len(w) + (a - 1) + h
      /\ ~r => m = Len(w) + (a - 1) + h
  BY <1>1, <1>2 DEF Fine
<1>5. Fine(b, s, w, a - 1, h, r, n)
  BY <1>1, <1>3, <1>4 DEF Fine
<1>6. QED BY <1>5 DEF s

\* A step of one viewer's flow.
LEMMA OneViewer ==
  ASSUME NEW b, Frames(b)!IInv, NEW v \in b.viewers, NEW st, NEW w, NEW a, NEW h,
         Fine(b, st, w, a, h, resumed[v], painted), AtLimit(b, st),
         state' = [state EXCEPT ![v] = st], wire' = [wire EXCEPT ![v] = w],
         acks' = [acks EXCEPT ![v] = a], withheld' = [withheld EXCEPT ![v] = h],
         UNCHANGED <<viewer, resumed, painted, credit, finished, statuses>>
  PROVE  Frames(b)!IInv'
<1>1. Surroundings(b) /\ \A u \in b.viewers : FineAt(b, u) /\ AtLimit(b, state[u])
  BY FramesParts
<1>2. st \in Counts(b) /\ w \in Seq(1..b.frames) /\ a \in Nat /\ h \in Nat
  BY DEF Fine
<1>3. Surroundings(b)'
  BY <1>1, <1>2 DEF Surroundings, Frames!Ended, Frames!Open
<1>4. ASSUME NEW u \in b.viewers PROVE FineAt(b, u)' /\ AtLimit(b, state'[u])
  <2>1. CASE u = v
    <3>1. state'[u] = st /\ wire'[u] = w /\ acks'[u] = a /\ withheld'[u] = h
      BY <1>1, <2>1 DEF Surroundings
    <3>2. QED BY <2>1, <3>1 DEF FineAt
  <2>2. CASE u # v
    <3>1. state'[u] = state[u] /\ wire'[u] = wire[u] /\ acks'[u] = acks[u]
              /\ withheld'[u] = withheld[u]
      BY <1>1, <2>2 DEF Surroundings
    <3>2. QED BY <1>1, <3>1 DEF FineAt
  <2>3. QED BY <2>1, <2>2
<1>5. QED BY <1>3, <1>4, FramesNext

\* The initial states.
LEMMA FramesStart ==
  ASSUME NEW b, Frames(b)!InFlightAssumption, Frames(b)!Init
  PROVE  Frames(b)!IInv
<1>1. b.inFlight \in Nat /\ b.frames \in Nat /\ 0 \in 0..b.inFlight /\ 0 \in 0..b.frames
  BY DEF Frames!InFlightAssumption
<1>2. Frames(b)!Fresh \in Counts(b) /\ Frames(b)!Fresh.inFlight = 0 /\ Frames(b)!Fresh.latest = 0
  BY <1>1 DEF Frames!Fresh, Counts, Frames!NoFrame
<1>3. << >> \in Seq(1..b.frames) /\ Len(<< >>) = 0
  OBVIOUS
<1>4. Fine(b, Frames(b)!Fresh, << >>, 0, 0, FALSE, 0) /\ AtLimit(b, Frames(b)!Fresh)
  BY <1>1, <1>2, <1>3 DEF Fine, AtLimit
<1>5. Surroundings(b)
  <2>1. finished = FALSE /\ statuses = {} /\ credit = TRUE /\ painted = 0
    BY DEF Frames!Init
  <2>2. credit \in BOOLEAN /\ finished \in BOOLEAN /\ Frames(b)!Ended
    BY <2>1 DEF Frames!Ended
  <2>3. QED BY <1>1, <1>2, <1>3, <2>1, <2>2 DEF Frames!Init, Surroundings
<1>6. ASSUME NEW v \in b.viewers PROVE FineAt(b, v) /\ AtLimit(b, state[v])
  <2>1. state[v] = Frames(b)!Fresh /\ wire[v] = << >> /\ acks[v] = 0 /\ withheld[v] = 0
            /\ resumed[v] = FALSE /\ painted = 0
    BY DEF Frames!Init
  <2>2. QED BY <1>4, <2>1 DEF FineAt
<1>7. QED BY <1>5, <1>6, FramesParts

\* Viewers join, leave and are shut out; Chrome is acknowledged.
LEMMA MembersKeep ==
  ASSUME NEW b, Frames(b)!IInv,
         Frames(b)!FrameAcked \/ Frames(b)!Done \/ Frames(b)!StopsEarly
             \/ \E v \in b.viewers : Frames(b)!Join(v) \/ Frames(b)!Leave(v)
  PROVE  Frames(b)!IInv'
<1>1. Surroundings(b) /\ \A u \in b.viewers : FineAt(b, u) /\ AtLimit(b, state[u])
  BY FramesParts
<1>2. UNCHANGED <<state, wire, acks, withheld, resumed, painted>>
  BY DEF Frames!FrameAcked, Frames!Done, Frames!StopsEarly, Frames!Finish, Frames!Join,
     Frames!Leave
<1>3. CASE Frames(b)!FrameAcked
  BY <1>1, <1>3, FramesNext DEF Frames!FrameAcked, Surroundings, Frames!Ended, Frames!Open, FineAt
<1>4. ASSUME NEW v \in b.viewers, Frames(b)!Join(v) \/ Frames(b)!Leave(v) PROVE Frames(b)!IInv'
  <2>1. viewer' \in [b.viewers -> {"new", "open", "gone"}]
        /\ UNCHANGED <<credit, finished, statuses>> /\ (finished =>
                                                        Frames(b)!Open' \subseteq Frames(b)!Open)
    BY <1>1, <1>4 DEF Surroundings, Frames!Join, Frames!Leave, Frames!Open
  <2>2. Frames(b)!Ended'
    BY <1>1, <2>1 DEF Surroundings, Frames!Ended
  <2>3. Surroundings(b)'
    BY <1>1, <1>2, <2>1, <2>2 DEF Surroundings
  <2>4. QED BY <1>1, <1>2, <2>3, FramesNext DEF FineAt
<1>5. ASSUME NEW s \in {"done", "timeout", "stopped", "browser_closed"}, Frames(b)!Finish(s)
      PROVE  Frames(b)!IInv'
  <2>1. viewer' \in [b.viewers -> {"new", "open", "gone"}] /\ Frames(b)!Ended'
            /\ finished' \in BOOLEAN
    <3>1. CASE finished
      BY <1>1, <1>5, <3>1 DEF Surroundings, Frames!Finish, Frames!Ended, Frames!Open
    <3>2. CASE ~finished
      <4>1. finished' = TRUE /\ statuses' = {s}
            /\ viewer' = [v \in b.viewers |-> IF v \in Frames(b)!Open THEN "gone" ELSE viewer[v]]
        BY <1>1, <1>5, <3>2 DEF Surroundings, Frames!Finish, Frames!Ended
      <4>2. viewer' \in [b.viewers -> {"new", "open", "gone"}] /\ Frames(b)!Open' = {}
        BY <1>1, <4>1 DEF Surroundings, Frames!Open
      <4>3. QED BY <4>1, <4>2 DEF Frames!Ended
    <3>3. QED BY <3>1, <3>2
  <2>2. UNCHANGED credit
    BY <1>5 DEF Frames!Finish
  <2>3. Surroundings(b)'
    BY <1>1, <1>2, <2>1, <2>2 DEF Surroundings
  <2>4. QED BY <1>1, <1>2, <2>3, FramesNext DEF FineAt
<1>6. QED BY <1>3, <1>4, <1>5 DEF Frames!Done, Frames!StopsEarly

\* Page.screencastFrame
LEMMA FrameKeeps ==
  ASSUME NEW b, Frames(b)!InFlightAssumption, Frames(b)!IInv, Frames(b)!Frame
  PROVE  Frames(b)!IInv'
<1>1. Surroundings(b) /\ \A u \in b.viewers : FineAt(b, u) /\ AtLimit(b, state[u])
  BY FramesParts
<1>2. painted < b.frames /\ painted' = painted + 1 /\ painted \in 0..b.frames
      /\ credit' = FALSE /\ UNCHANGED <<viewer, acks, withheld, finished, statuses>>
  BY <1>1 DEF Frames!Frame, Surroundings
<1>3. painted' \in 0..b.frames
  BY <1>2 DEF Frames!InFlightAssumption
<1>4. ASSUME NEW v \in b.viewers
      PROVE  /\ Fine(b, state'[v], wire'[v], acks'[v], withheld'[v], resumed'[v], painted')
             /\ AtLimit(b, state'[v]) /\ resumed'[v] \in BOOLEAN
  <2>1. resumed'[v] = (resumed[v] \/ (v \in Frames(b)!Open /\ Frames(b)!Resumes(state[v])))
            /\ resumed[v] \in BOOLEAN
    BY <1>1 DEF Frames!Frame, Surroundings
  <2>2. resumed'[v] \in BOOLEAN
    BY <2>1
  <2>3. CASE v \in Frames(b)!Open
    <3>1. /\ state'[v] = Frames(b)!Delivered(Frames(b)!Framed(state[v], painted + 1))
          /\ wire'[v] = wire[v] \o Frames(b)!Sent(Frames(b)!Framed(state[v], painted + 1))
      BY <2>3 DEF Frames!Frame
    <3>2. Fine(b, Frames(b)!Framed(state[v], painted + 1), wire[v], acks[v], withheld[v],
               resumed[v] \/ Frames(b)!Resumes(state[v]), painted + 1)
      BY <1>1, <1>2, FramedFine DEF FineAt
    <3>3. resumed'[v] = (resumed[v] \/ Frames(b)!Resumes(state[v]))
      BY <2>1, <2>3
    <3>4. Fine(b, Frames(b)!Framed(state[v], painted + 1), wire[v], acks[v], withheld[v],
               resumed'[v], painted + 1)
      BY <3>2, <3>3
    <3>5. /\ Fine(b, state'[v], wire'[v], acks[v], withheld[v], resumed'[v], painted + 1)
          /\ AtLimit(b, state'[v])
      BY <3>1, <3>4, DeliversFine
    <3>6. QED BY <1>2, <2>2, <3>5
  <2>4. CASE v \notin Frames(b)!Open
    <3>1. state'[v] = state[v] /\ wire'[v] = wire[v]
      BY <2>4 DEF Frames!Frame
    <3>2. resumed'[v] = resumed[v]
      BY <2>1, <2>4
    <3>3. Fine(b, state[v], wire[v], acks[v], withheld[v], resumed[v], painted)
      BY <1>1 DEF FineAt
    <3>4. ASSUME NEW i \in 1..Len(wire[v]) PROVE wire[v][i] <= painted + 1
      <4>1. wire[v][i] <= painted /\ wire[v][i] \in 1..b.frames /\ painted \in Nat
        <5>1. wire[v] \in Seq(1..b.frames) /\ wire[v][i] <= painted
          BY <3>3 DEF Fine
        <5>2. wire[v][i] \in 1..b.frames
          BY <5>1, Elements
        <5>3. QED BY <1>2, <5>1, <5>2 DEF Frames!InFlightAssumption
      <4>2. QED BY <4>1 DEF Frames!InFlightAssumption
    <3>5. state[v].latest <= painted + 1
      <4>1. state[v].latest <= painted /\ state[v].latest \in Nat /\ painted \in Nat
        BY <1>2, <3>3 DEF Fine, Counts
      <4>2. QED BY <4>1
    <3>6. Fine(b, state[v], wire[v], acks[v], withheld[v], resumed[v], painted + 1)
      BY <1>2, <1>3, <3>3, <3>4, <3>5 DEF Fine
    <3>7. QED BY <1>1, <1>2, <2>2, <3>1, <3>2, <3>6
  <2>5. QED BY <2>3, <2>4
<1>5. /\ DOMAIN state' = b.viewers /\ DOMAIN wire' = b.viewers /\ DOMAIN resumed' = b.viewers
      /\ state' = [v \in b.viewers |-> state'[v]] /\ wire' = [v \in b.viewers |-> wire'[v]]
      /\ resumed' = [v \in b.viewers |-> resumed'[v]]
  BY DEF Frames!Frame
<1>6. \A v \in b.viewers : state'[v] \in Counts(b) /\ wire'[v] \in Seq(1..b.frames)
  BY <1>4 DEF Fine
<1>7. state' \in [b.viewers -> Counts(b)] /\ wire' \in [b.viewers -> Seq(1..b.frames)]
  BY <1>5, <1>6
<1>8. resumed' \in [b.viewers -> BOOLEAN]
  BY <1>4, <1>5
<1>9. Frames(b)!Ended' /\ credit' \in BOOLEAN
  BY <1>1, <1>2 DEF Surroundings, Frames!Ended, Frames!Open
<1>10. Surroundings(b)'
  BY <1>1, <1>2, <1>3, <1>7, <1>8, <1>9 DEF Surroundings
<1>11. QED BY <1>4, <1>10, FramesNext DEF FineAt

\* Every step.
LEMMA FramesSteps ==
  ASSUME NEW b, Frames(b)!InFlightAssumption, Frames(b)!IInv, Frames(b)!Next
  PROVE  Frames(b)!IInv'
<1>1. Surroundings(b) /\ \A u \in b.viewers : FineAt(b, u) /\ AtLimit(b, state[u])
  BY FramesParts
<1>2. ASSUME NEW v \in b.viewers, Frames(b)!Silence(v) PROVE Frames(b)!IInv'
  <2> DEFINE st == [state[v] EXCEPT !.silent = TRUE]
  <2>1. Fine(b, state[v], wire[v], acks[v], withheld[v], resumed[v], painted)
            /\ AtLimit(b, state[v])
    BY <1>1 DEF FineAt
  <2>2. st \in Counts(b) /\ st.inFlight = state[v].inFlight /\ st.latest = state[v].latest
    BY <2>1 DEF Fine, Counts
  <2>3. state' = [state EXCEPT ![v] = st]
    BY <1>2 DEF Frames!Silence
  <2>4. /\ wire' = [wire EXCEPT ![v] = wire[v]] /\ acks' = [acks EXCEPT ![v] = acks[v]]
        /\ withheld' = [withheld EXCEPT ![v] = withheld[v]]
        /\ UNCHANGED <<viewer, resumed, painted, credit, finished, statuses>>
    BY <1>1, <1>2 DEF Frames!Silence, Surroundings
  <2> HIDE DEF st
  <2>5. Fine(b, st, wire[v], acks[v], withheld[v], resumed[v], painted) /\ AtLimit(b, st)
    BY <2>1, <2>2 DEF Fine, AtLimit
  <2>6. QED BY <2>3, <2>4, <2>5, OneViewer
<1>3. ASSUME NEW v \in b.viewers, Frames(b)!Show(v) \/ Frames(b)!ShowSilently(v)
      PROVE  Frames(b)!IInv'
  <2>1. Fine(b, state[v], wire[v], acks[v], withheld[v], resumed[v], painted)
            /\ AtLimit(b, state[v])
        /\ wire[v] # << >>
    BY <1>1, <1>3 DEF FineAt, Frames!Show, Frames!ShowSilently
  <2>2. /\ Fine(b, state[v], Tail(wire[v]), acks[v] + 1, withheld[v], resumed[v], painted)
        /\ Fine(b, state[v], Tail(wire[v]), acks[v], withheld[v] + 1, resumed[v], painted)
    BY <2>1, ShownFine
  <2>3. /\ state' = [state EXCEPT ![v] = state[v]] /\ wire' = [wire EXCEPT ![v] = Tail(wire[v])]
        /\ UNCHANGED <<viewer, resumed, painted, credit, finished, statuses>>
    BY <1>1, <1>3 DEF Frames!Show, Frames!ShowSilently, Surroundings
  <2>4. CASE Frames(b)!Show(v)
    <3>1. acks' = [acks EXCEPT ![v] = acks[v] + 1]
              /\ withheld' = [withheld EXCEPT ![v] = withheld[v]]
      BY <1>1, <2>4 DEF Frames!Show, Surroundings
    <3>2. QED BY <2>1, <2>2, <2>3, <3>1, OneViewer
  <2>5. CASE Frames(b)!ShowSilently(v)
    <3>1. acks' = [acks EXCEPT ![v] = acks[v]]
              /\ withheld' = [withheld EXCEPT ![v] = withheld[v] + 1]
      BY <1>1, <2>5 DEF Frames!ShowSilently, Surroundings
    <3>2. QED BY <2>1, <2>2, <2>3, <3>1, OneViewer
  <2>6. QED BY <1>3, <2>4, <2>5
<1>4. ASSUME NEW v \in b.viewers, Frames(b)!FrameAck(v) PROVE Frames(b)!IInv'
  <2> DEFINE st == [state[v] EXCEPT !.inFlight = Frames(b)!Minus1(@)]
  <2>1. /\ state' = [state EXCEPT ![v] = Frames(b)!Delivered(st)]
        /\ wire' = [wire EXCEPT ![v] = wire[v] \o Frames(b)!Sent(st)]
        /\ acks' = [acks EXCEPT ![v] = acks[v] - 1]
        /\ withheld' = [withheld EXCEPT ![v] = withheld[v]]
        /\ UNCHANGED <<viewer, resumed, painted, credit, finished, statuses>> /\ acks[v] > 0
    BY <1>1, <1>4 DEF Frames!FrameAck, Surroundings
  <2>2. Fine(b, st, wire[v], acks[v] - 1, withheld[v], resumed[v], painted)
    BY <1>1, <2>1, AckedFine DEF FineAt
  <2> HIDE DEF st
  <2>3. /\ Fine(b, Frames(b)!Delivered(st), wire[v] \o Frames(b)!Sent(st), acks[v] - 1,
                withheld[v], resumed[v], painted)
        /\ AtLimit(b, Frames(b)!Delivered(st))
    BY <2>2, DeliversFine
  <2>4. QED BY <2>1, <2>3, OneViewer
<1>5. QED BY <1>2, <1>3, <1>4, MembersKeep, FrameKeeps DEF Frames!Next

\* And what leaves the frames alone.
LEMMA FramesStay ==
  ASSUME NEW b, Frames(b)!IInv, UNCHANGED Frames(b)!vars
  PROVE  Frames(b)!IInv'
BY DEF Frames!vars, Frames!IInv, Frames!TypeOK, Frames!Ended, Frames!Open, Frames!Counted,
   Frames!Unacknowledged, Frames!WaitsAtLimit, Frames!Rising

\* What the invariant says of the frames.
LEMMA FramesMean ==
  ASSUME NEW b, Frames(b)!InFlightAssumption, Frames(b)!IInv
  PROVE  Frames(b)!TypeOK /\ Frames(b)!FramesBounded /\ Frames(b)!FramesInOrder
             /\ Frames(b)!WaitsForAcks /\ Frames(b)!EndsOnce
<1>1. Surroundings(b) /\ \A u \in b.viewers : FineAt(b, u) /\ AtLimit(b, state[u])
  BY FramesParts
<1>2. ASSUME NEW v \in b.viewers
      PROVE  /\ state[v].inFlight \in 0..b.inFlight /\ DOMAIN wire[v] = 1..Len(wire[v])
             /\ Len(wire[v]) + acks[v] + withheld[v] \in Nat
  BY <1>1 DEF Surroundings, Counts, Frames!InFlightAssumption
<1>3. Frames(b)!FramesBounded
  BY <1>1, <1>2 DEF Frames!FramesBounded, FineAt, Fine, Frames!InFlightAssumption
<1>4. Frames(b)!FramesInOrder
  BY <1>1, <1>2 DEF Frames!FramesInOrder, FineAt, Fine, Frames!NoFrame
<1>5. Frames(b)!WaitsForAcks
  BY <1>1, <1>2 DEF Frames!WaitsForAcks, FineAt, Fine, AtLimit, Frames!NoFrame,
     Frames!InFlightAssumption, Frames!Open
<1>6. Frames(b)!EndsOnce
  <2>1. CASE finished
    <3>1. PICK s : statuses = {s}
      BY <1>1, <2>1 DEF Surroundings, Frames!Ended
    <3>2. Cardinality(statuses) = 1
      BY <3>1, FS_Singleton
    <3>3. QED BY <1>1, <2>1, <3>2, FramesCounts DEF Surroundings, Frames!Ended, Frames!EndsOnce
  <2>2. CASE ~finished
    <3>1. Cardinality(statuses) = 0
      BY <1>1, <2>2, FS_EmptySet DEF Surroundings, Frames!Ended
    <3>2. QED BY <2>2, <3>1, FramesCounts DEF Frames!EndsOnce
  <2>3. QED BY <2>1, <2>2
<1>7. QED BY <1>3, <1>4, <1>5, <1>6 DEF Frames!IInv

-----------------------------------------------------------------------------
(* The live view, whatever its pages and handlers, while no page blinks     *)

\* A sequence of what a set holds, its elements and their order, as it grows at its
\* end and is read from its front.
Items(s) == {s[i] : i \in 1..Len(s)}

\* How such a sequence grows.
LEMMA Appending ==
  ASSUME NEW b, NEW S, NEW s \in Seq(S), NEW e \in S
  PROVE  /\ Append(s, e) \in Seq(S) /\ Append(s, e) # << >>
         /\ Items(Append(s, e)) = Items(s) \cup {e}
         /\ \A x, y \in Items(s) \cup {e} : View(b)!Precedes(Append(s, e), x, y) =>
              (x \in Items(s) /\ y \in Items(s) /\ View(b)!Precedes(s, x, y)) \/ (x \in Items(s)
                                                                                  /\ y = e)
<1> DEFINE t == Append(s, e)
<1>1. /\ t \in Seq(S) /\ Len(t) = Len(s) + 1 /\ Len(s) \in Nat
      /\ \A i \in 1..Len(s) : t[i] = s[i]
      /\ t[Len(s) + 1] = e
  OBVIOUS
<1> HIDE DEF t
<1>2. t # << >>
  <2> SUFFICES ASSUME t = << >> PROVE FALSE
    OBVIOUS
  <2>1. Len(t) = 0
    OBVIOUS
  <2>2. QED BY <1>1, <2>1
<1>3. \A i \in 1..Len(t) : i \in 1..Len(s) \/ i = Len(s) + 1
  BY <1>1
<1>4. Items(t) = Items(s) \cup {e}
  <2>1. Items(t) \subseteq Items(s) \cup {e}
    BY <1>1, <1>3 DEF Items
  <2>2. \A i \in 1..Len(s) : i \in 1..Len(t)
    BY <1>1
  <2>3. Len(s) + 1 \in 1..Len(t)
    BY <1>1
  <2>4. QED BY <1>1, <2>1, <2>2, <2>3 DEF Items
<1>5. ASSUME NEW x, NEW y, View(b)!Precedes(t, x, y)
      PROVE  (x \in Items(s) /\ y \in Items(s) /\ View(b)!Precedes(s, x, y)) \/ (x \in Items(s)
                                                                                 /\ y = e)
  <2>1. PICK i, j \in 1..Len(t) : i < j /\ t[i] = x /\ t[j] = y
    BY <1>5 DEF View!Precedes
  <2>2. i \in 1..Len(s)
    <3>1. i \in Nat /\ j \in Nat /\ 1 <= i /\ j <= Len(s) + 1
      BY <1>1
    <3>2. QED BY <1>1, <2>1, <3>1
  <2>3. x = s[i] /\ x \in Items(s)
    BY <1>1, <2>1, <2>2 DEF Items
  <2>4. CASE j = Len(s) + 1
    BY <1>1, <2>1, <2>3, <2>4
  <2>5. CASE j \in 1..Len(s)
    BY <1>1, <2>1, <2>2, <2>3, <2>5 DEF Items, View!Precedes
  <2>6. QED BY <1>3, <2>4, <2>5
<1>6. QED BY <1>1, <1>2, <1>4, <1>5 DEF t

\* And how it is read.
LEMMA Reading ==
  ASSUME NEW b, NEW S, NEW s \in Seq(S), s # << >>
  PROVE  /\ Tail(s) \in Seq(S) /\ Head(s) \in S /\ Head(s) \in Items(s)
         /\ Items(s) = Items(Tail(s)) \cup {Head(s)}
         /\ \A x, y \in Items(Tail(s)) : View(b)!Precedes(Tail(s), x, y) =>
            View(b)!Precedes(s, x, y)
         /\ \A x \in Items(Tail(s)) : View(b)!Precedes(s, Head(s), x)
<1> DEFINE t == Tail(s)
<1>1. /\ t \in Seq(S) /\ Len(s) \in Nat /\ Len(s) # 0 /\ Len(t) = Len(s) - 1
      /\ \A i \in 1..Len(t) : t[i] = s[i + 1]
      /\ Head(s) = s[1] /\ s[1] \in S
  OBVIOUS
<1> HIDE DEF t
<1>2. /\ \A i \in 1..Len(t) : i + 1 \in 1..Len(s) /\ 1 < i + 1
      /\ \A i \in 1..Len(s) : i = 1 \/ (i - 1 \in 1..Len(t) /\ (i - 1) + 1 = i)
      /\ 1 \in 1..Len(s)
  BY <1>1
<1>3. Items(s) = Items(t) \cup {Head(s)}
  <2>1. Items(t) \subseteq Items(s) /\ Head(s) \in Items(s)
    BY <1>1, <1>2 DEF Items
  <2>2. ASSUME NEW i \in 1..Len(s) PROVE s[i] \in Items(t) \cup {Head(s)}
    <3>1. CASE i = 1
      BY <1>1, <3>1
    <3>2. CASE i - 1 \in 1..Len(t) /\ (i - 1) + 1 = i
      <4>1. t[i - 1] = s[i]
        BY <1>1, <3>2
      <4>2. QED BY <3>2, <4>1 DEF Items
    <3>3. QED BY <1>2, <3>1, <3>2
  <2>3. QED BY <2>1, <2>2 DEF Items
<1>4. ASSUME NEW x, NEW y, View(b)!Precedes(t, x, y) PROVE View(b)!Precedes(s, x, y)
  <2>1. PICK i, j \in 1..Len(t) : i < j /\ t[i] = x /\ t[j] = y
    BY <1>4 DEF View!Precedes
  <2>2. i + 1 \in 1..Len(s) /\ j + 1 \in 1..Len(s) /\ s[i + 1] = x /\ s[j + 1] = y
    BY <1>1, <1>2, <2>1
  <2>3. i + 1 < j + 1
    BY <2>1
  <2>4. QED BY <2>2, <2>3 DEF View!Precedes
<1>5. ASSUME NEW x \in Items(t) PROVE View(b)!Precedes(s, Head(s), x)
  BY <1>1, <1>2 DEF Items, View!Precedes
<1>6. QED BY <1>1, <1>2, <1>3, <1>4, <1>5 DEF Items, t

\* Of some numbers one is the least.
LEMMA Least ==
  ASSUME NEW T \in SUBSET Nat, T # {}
  PROVE  \E x \in T : \A y \in T : x <= y
<1>1. PICK x \in T : \A y \in T : ~(<<y, x>> \in OpToRel(<, Nat))
  BY NatLessThanWellFounded, WFMin
<1>2. \A y \in T : ~(y < x)
  BY <1>1 DEF OpToRel
<1>3. QED BY <1>2

\* The newest page is one of the pages, and no other is newer.
LEMMA NewestIs ==
  ASSUME NEW b, NEW n \in Nat, NEW S \in SUBSET (0..n), S # {}
  PROVE  View(b)!Newest(S) \in S /\ \A q \in S : q <= View(b)!Newest(S)
<1> DEFINE T == {n - x : x \in S}
<1>1. T \in SUBSET Nat /\ T # {}
  <2>1. \A x \in S : n - x \in Nat
    OBVIOUS
  <2>2. PICK x \in S : TRUE
    OBVIOUS
  <2>3. n - x \in T
    BY <2>2
  <2>4. QED BY <2>1, <2>3
<1>2. PICK m \in T : \A k \in T : m <= k
  BY <1>1, Least
<1>3. PICK x \in S : m = n - x
  BY <1>2
<1>4. ASSUME NEW y \in S PROVE y <= x
  <2>1. n - x <= n - y
    BY <1>2, <1>3
  <2>2. QED BY <2>1
<1>5. QED BY <1>4 DEF View!Newest

\* What is said and asked as the queues are read and written.
LEMMA Reads ==
  ASSUME NEW b, View(b)!TypeOK, outbox # << >>, outbox' = Tail(outbox)
  PROVE  /\ outbox' \in Seq(View(b)!Message) /\ View(b)!Next1 \in View(b)!Message
         /\ View(b)!Next1 \in View(b)!Said
         /\ View(b)!Said = View(b)!Said' \cup {View(b)!Next1}
         /\ \A m, n \in View(b)!Said' : View(b)!Precedes(outbox', m, n) =>
            View(b)!Precedes(outbox, m, n)
         /\ \A m \in View(b)!Said' : View(b)!Precedes(outbox, View(b)!Next1, m)
<1>1. View(b)!Said = Items(outbox) /\ View(b)!Said' = Items(Tail(outbox))
          /\ outbox \in Seq(View(b)!Message)
  BY DEF View!Said, Items, View!TypeOK
<1>2. QED BY <1>1, Reading DEF View!Next1

\* A message is added behind the others.
LEMMA Says ==
  ASSUME NEW b, View(b)!TypeOK, NEW e \in View(b)!Message, outbox' = Append(outbox, e)
  PROVE  /\ outbox' \in Seq(View(b)!Message) /\ outbox' # << >>
         /\ View(b)!Said' = View(b)!Said \cup {e}
         /\ \A m, n \in View(b)!Said' : View(b)!Precedes(outbox', m, n) =>
              (m \in View(b)!Said /\ n \in View(b)!Said
               /\ View(b)!Precedes(outbox, m, n)) \/ (m \in View(b)!Said /\ n = e)
<1>1. View(b)!Said = Items(outbox) /\ View(b)!Said' = Items(Append(outbox, e))
          /\ outbox \in Seq(View(b)!Message)
  BY DEF View!Said, Items, View!TypeOK
<1>2. QED BY <1>1, Appending

\* The browser takes the first of the commands.
LEMMA Takes ==
  ASSUME NEW b, View(b)!TypeOK, toChrome # << >>, toChrome' = Tail(toChrome)
  PROVE  /\ toChrome' \in Seq(View(b)!Command) /\ Head(toChrome) \in View(b)!Command
         /\ Head(toChrome) \in View(b)!Asked
         /\ View(b)!Asked = View(b)!Asked' \cup {Head(toChrome)}
         /\ \A c, d \in View(b)!Asked' : View(b)!Precedes(toChrome', c, d) =>
            View(b)!Precedes(toChrome, c, d)
         /\ \A c \in View(b)!Asked' : View(b)!Precedes(toChrome, Head(toChrome), c)
<1>1. View(b)!Asked = Items(toChrome) /\ View(b)!Asked' = Items(Tail(toChrome))
          /\ toChrome \in Seq(View(b)!Command)
  BY DEF View!Asked, Items, View!TypeOK
<1>2. QED BY <1>1, Reading

\* A command is added behind the others.
LEMMA Asks ==
  ASSUME NEW b, View(b)!TypeOK, NEW e \in View(b)!Command, toChrome' = Append(toChrome, e)
  PROVE  /\ toChrome' \in Seq(View(b)!Command) /\ toChrome' # << >>
         /\ View(b)!Asked' = View(b)!Asked \cup {e}
         /\ \A c, d \in View(b)!Asked' : View(b)!Precedes(toChrome', c, d) =>
              (c \in View(b)!Asked /\ d \in View(b)!Asked
               /\ View(b)!Precedes(toChrome, c, d)) \/ (c \in View(b)!Asked /\ d = e)
<1>1. View(b)!Asked = Items(toChrome) /\ View(b)!Asked' = Items(Append(toChrome, e))
          /\ toChrome \in Seq(View(b)!Command)
  BY DEF View!Asked, Items, View!TypeOK
<1>2. QED BY <1>1, Appending

\* What the records hold.
LEMMA Records ==
  ASSUME NEW b, View(b)!ViewAssumption, View(b)!TypeOK
  PROVE  /\ \A m \in View(b)!Said :
              /\ m \in View(b)!Message /\ m.by \in b.handlers \cup {nobody} /\ m.page \in 0..b.pages
              /\ m.kind \in {"created", "destroyed", "answer", "error", "pages"}
         /\ \A c \in View(b)!Asked :
              /\ c \in View(b)!Command /\ c.op \in View(b)!Ops /\ c.by \in b.handlers
              /\ c.page \in 0..b.pages /\ c.on \in b.handlers \cup {nobody}
         /\ \A h \in b.handlers : /\ handler[h].at \in View(b)!Ops \cup {"idle", "done"}
                                /\ handler[h].page \in 0..b.pages
         /\ \A p \in alive : p \in Nat /\ 1 <= p /\ p <= opened /\ p \in 0..b.pages
         /\ opened \in Nat /\ opened <= b.pages /\ 1 <= opened /\ b.pages \in Nat
         /\ alive \in SUBSET (0..opened)
<1>1. \A m \in View(b)!Said : m \in View(b)!Message
  <2>1. outbox \in Seq(View(b)!Message)
    BY DEF View!TypeOK
  <2>2. \A i \in 1..Len(outbox) : outbox[i] \in View(b)!Message
    BY <2>1
  <2>3. QED BY <2>2 DEF View!Said
<1>2. \A c \in View(b)!Asked : c \in View(b)!Command
  <2>1. toChrome \in Seq(View(b)!Command)
    BY DEF View!TypeOK
  <2>2. \A i \in 1..Len(toChrome) : toChrome[i] \in View(b)!Command
    BY <2>1
  <2>3. QED BY <2>2 DEF View!Asked
<1>3. \A m \in View(b)!Message : /\ m.by \in b.handlers \cup {nobody} /\ m.page \in 0..b.pages
                         /\ m.kind \in {"created", "destroyed", "answer", "error", "pages"}
  BY DEF View!Message
<1>4. \A c \in View(b)!Command : /\ c.op \in View(b)!Ops /\ c.by \in b.handlers
                         /\ c.page \in 0..b.pages /\ c.on \in b.handlers \cup {nobody}
  BY DEF View!Command
<1>5. \A h \in b.handlers : /\ handler[h].at \in View(b)!Ops \cup {"idle", "done"}
                          /\ handler[h].page \in 0..b.pages
  BY DEF View!TypeOK
<1>6. /\ \A p \in alive : p \in Nat /\ 1 <= p /\ p <= opened /\ p \in 0..b.pages
      /\ opened \in Nat /\ opened <= b.pages /\ 1 <= opened /\ b.pages \in Nat
      /\ alive \in SUBSET (0..opened)
  BY DEF View!TypeOK, View!ViewAssumption
<1>7. QED BY <1>1, <1>2, <1>3, <1>4, <1>5, <1>6

-----------------------------------------------------------------------------
\* Nobody has asked or is to be answered on behalf of h.
Unheard(b, h) ==
  /\ \A c \in View(b)!Asked : c.by # h
  /\ \A m \in View(b)!Said' : View(b)!Reply(m) => m.by # h

\* What is left to read is in the order it was in, and only replies to h were read.
ReadFor(b, h) ==
  /\ outbox' \in Seq(View(b)!Message) /\ View(b)!Said' \subseteq View(b)!Said
  /\ \A m, n \in View(b)!Said' : View(b)!Precedes(outbox', m, n) => View(b)!Precedes(outbox, m, n)
  /\ \A m \in View(b)!Said : m \in View(b)!Said' \/ (View(b)!Reply(m) => m.by = h)

\* The order once h goes on, where it stays in turn with the others.
LEMMA OrderStays ==
  ASSUME NEW b, View(b)!ViewAssumption, View(b)!Exchange, NEW h \in b.handlers, ReadFor(b, h),
         Unheard(b, h),
         handler' \in [b.handlers -> [at : View(b)!Ops \cup {"idle", "done"}, page : 0..b.pages]],
         \A k \in b.handlers : k # h => handler'[k] = handler[k]
  PROVE  /\ \A m, n \in View(b)!Said' : View(b)!Precedes(outbox', m, n) => View(b)!Follows(m, n)'
         /\ \A c, d \in View(b)!Asked : View(b)!Precedes(toChrome, c, d) =>
            View(b)!InTurn(c.by, d.by)'
         /\ \A m \in View(b)!Said', c \in View(b)!Asked : View(b)!Reply(m) =>
            View(b)!InTurn(m.by, c.by)'
         /\ \A c \in View(b)!Asked : View(b)!CommandKnown(c)'
<1>1. View(b)!Ordered /\ (\A c \in View(b)!Asked : View(b)!CommandKnown(c))
          /\ (\A m \in View(b)!Said : View(b)!Reply(m) => View(b)!ReplyKnown(m))
  BY DEF View!Exchange
<1>2. \A m \in View(b)!Said : View(b)!Reply(m) => m.by \in b.handlers
  BY <1>1 DEF View!ReplyKnown
<1>3. \A c \in View(b)!Asked : c.by \in b.handlers
  BY Records DEF View!Exchange
<1>4. \A j, k \in b.handlers : j # h /\ k # h /\ View(b)!InTurn(j, k) => View(b)!InTurn(j, k)'
  BY DEF View!InTurn, View!Heading
<1>5. ASSUME NEW m \in View(b)!Said', NEW n \in View(b)!Said', View(b)!Precedes(outbox', m, n)
      PROVE  View(b)!Follows(m, n)'
  <2>1. View(b)!Follows(m, n) /\ m \in View(b)!Said /\ n \in View(b)!Said
    BY <1>1, <1>5 DEF View!Ordered, ReadFor
  <2>2. View(b)!Reply(m) /\ View(b)!Reply(n) => View(b)!InTurn(m.by, n.by)'
    BY <1>2, <1>4, <2>1 DEF View!Follows, Unheard
  <2>3. QED BY <2>1, <2>2 DEF View!Follows, View!Reply
<1>6. ASSUME NEW c \in View(b)!Asked, NEW d \in View(b)!Asked, View(b)!Precedes(toChrome, c, d)
      PROVE  View(b)!InTurn(c.by, d.by)'
  BY <1>1, <1>3, <1>4, <1>6 DEF View!Ordered, Unheard
<1>7. ASSUME NEW m \in View(b)!Said', NEW c \in View(b)!Asked, View(b)!Reply(m)
      PROVE  View(b)!InTurn(m.by, c.by)'
  BY <1>1, <1>2, <1>3, <1>4, <1>7 DEF View!Ordered, Unheard, ReadFor
<1>8. \A c \in View(b)!Asked : View(b)!CommandKnown(c)'
  BY <1>1, <1>3 DEF View!CommandKnown, Unheard
<1>9. QED BY <1>5, <1>6, <1>7, <1>8

\* h awaits its next answer: it takes its turn after the others.
LEMMA Awaiting ==
  ASSUME NEW b, View(b)!ViewAssumption, View(b)!Exchange, NEW h \in b.handlers, ReadFor(b, h),
         Unheard(b, h),
         NEW point \in View(b)!Ops, NEW dest \in 0..b.pages, NEW on \in b.handlers \cup {nobody},
         View(b)!Await(h, point, dest, on), point = "enable" => on = h,
         point \in {"stop", "attach"} =>
           \A k \in b.handlers : k # h /\ handler[k].at = point => handler[k].page <= dest,
         point = "stop" =>
           \A k \in b.handlers : k # h /\ handler[k].at = "attach" => handler[k].page <= dest,
         point = "attach" =>
           \A k \in b.handlers : k # h /\ handler[k].at = "stop" => dest <= handler[k].page,
         attached' = attached, alive' = alive, opened' = opened, casting' = casting,
         session' \in b.handlers \cup {nobody}, target' \in 0..b.pages
  PROVE  /\ View(b)!Exchange'
         /\ View(b)!Asked' = View(b)!Asked \cup {[op |-> point, by |-> h, page |-> dest, on |-> on]}
         /\ handler'[h] = [at |-> point, page |-> dest]
         /\ \A k \in b.handlers : k # h => handler'[k] = handler[k]
         /\ toChrome' # << >>
<1> DEFINE e == [op |-> point, by |-> h, page |-> dest, on |-> on]
<1>1. View(b)!TypeOK /\ e \in View(b)!Command /\ toChrome' = Append(toChrome, e)
  BY DEF View!Exchange, View!Command, View!Await
<1>2. /\ toChrome' \in Seq(View(b)!Command) /\ toChrome' # << >>
      /\ View(b)!Asked' = View(b)!Asked \cup {e}
      /\ \A c, d \in View(b)!Asked' : View(b)!Precedes(toChrome', c, d) =>
            (c \in View(b)!Asked /\ d \in View(b)!Asked
             /\ View(b)!Precedes(toChrome, c, d)) \/ (c \in View(b)!Asked /\ d = e)
  BY <1>1, Asks
<1>3. /\ handler' \in [b.handlers -> [at : View(b)!Ops \cup {"idle", "done"}, page : 0..b.pages]]
      /\ handler'[h] = [at |-> point, page |-> dest]
      /\ \A k \in b.handlers : k # h => handler'[k] = handler[k]
  BY <1>1 DEF View!TypeOK, View!Await
<1>4. View(b)!TypeOK'
  BY <1>1, <1>2, <1>3 DEF View!TypeOK, ReadFor
<1>5. /\ \A m, n \in View(b)!Said' : View(b)!Precedes(outbox', m, n) => View(b)!Follows(m, n)'
      /\ \A c, d \in View(b)!Asked : View(b)!Precedes(toChrome, c, d) => View(b)!InTurn(c.by, d.by)'
      /\ \A m \in View(b)!Said', c \in View(b)!Asked : View(b)!Reply(m) =>
         View(b)!InTurn(m.by, c.by)'
      /\ \A c \in View(b)!Asked : View(b)!CommandKnown(c)'
  BY <1>3, OrderStays
<1>6. e.by = h /\ e.op = point /\ e.page = dest /\ e.on = on
  OBVIOUS
<1> HIDE DEF e
<1>7. ASSUME NEW k \in b.handlers, k # h PROVE View(b)!InTurn(k, h)'
  BY <1>3, <1>7 DEF View!InTurn, View!Heading
<1>8. /\ \A c \in View(b)!Asked : c.by \in b.handlers /\ c.by # h
      /\ \A m \in View(b)!Said' : View(b)!Reply(m) =>
         m.by \in b.handlers /\ m.by # h /\ View(b)!ReplyKnown(m)
  BY <1>1, Records DEF Unheard, View!Exchange, View!ReplyKnown, ReadFor
<1>9. View(b)!Ordered'
  <2>1. \A c, d \in View(b)!Asked' : View(b)!Precedes(toChrome', c, d) =>
          View(b)!InTurn(c.by, d.by)'
    BY <1>2, <1>5, <1>6, <1>7, <1>8
  <2>2. \A m \in View(b)!Said', c \in View(b)!Asked' : View(b)!Reply(m) =>
          View(b)!InTurn(m.by, c.by)'
    BY <1>2, <1>5, <1>6, <1>7, <1>8
  <2>3. ASSUME NEW j \in b.handlers, NEW k \in b.handlers, handler'[j].at = "stop", handler'[k].at =
                 "attach"
        PROVE  handler'[k].page <= handler'[j].page
    <3>1. j # k
      BY <2>3
    <3>2. CASE j # h /\ k # h
      BY <2>3, <3>2, <1>3 DEF View!Exchange, View!Ordered
    <3>3. CASE j = h
      BY <2>3, <3>1, <3>3, <1>3
    <3>4. CASE k = h
      BY <2>3, <3>1, <3>4, <1>3
    <3>5. QED BY <3>2, <3>3, <3>4
  <2>4. QED BY <1>5, <2>1, <2>2, <2>3 DEF View!Ordered, View!Reply
<1>10. \A c \in View(b)!Asked' : View(b)!CommandKnown(c)'
  BY <1>2, <1>3, <1>5, <1>6 DEF View!CommandKnown
<1>11. ASSUME NEW m \in View(b)!Said', View(b)!Reply(m) PROVE View(b)!ReplyKnown(m)'
  BY <1>3, <1>8, <1>11 DEF View!ReplyKnown
<1>12. ASSUME NEW k \in b.handlers, handler'[k].at \in View(b)!Ops PROVE View(b)!Answered(k)'
  <2>1. CASE k = h
    BY <1>2, <1>6, <2>1 DEF View!Answered
  <2>2. CASE k # h
    <3>1. View(b)!Answered(k)
      BY <1>3, <1>12, <2>2 DEF View!Exchange
    <3>2. QED BY <1>2, <2>2, <3>1 DEF View!Answered, ReadFor, View!Reply
  <2>3. QED BY <2>1, <2>2
<1>13. QED BY <1>2, <1>3, <1>4, <1>9, <1>10, <1>11, <1>12 DEF View!Exchange, View!Reply, e

\* h is through with its page.
LEMMA Through ==
  ASSUME NEW b, View(b)!ViewAssumption, View(b)!Exchange, NEW h \in b.handlers, ReadFor(b, h),
         Unheard(b, h), View(b)!Finished(h),
         attached' = attached, alive' = alive, opened' = opened, casting' = casting,
         session' = session, target' = target
  PROVE  /\ View(b)!Exchange' /\ View(b)!Asked' = View(b)!Asked /\ handler'[h].at = "done"
         /\ \A k \in b.handlers : k # h => handler'[k] = handler[k]
<1>1. View(b)!TypeOK /\ toChrome' = toChrome /\ View(b)!Asked' = View(b)!Asked
  BY DEF View!Exchange, View!Finished, View!Asked
<1>2. /\ handler' \in [b.handlers -> [at : View(b)!Ops \cup {"idle", "done"}, page : 0..b.pages]]
      /\ handler'[h].at = "done"
      /\ \A k \in b.handlers : k # h => handler'[k] = handler[k]
  BY <1>1 DEF View!TypeOK, View!Finished
<1>3. View(b)!TypeOK'
  BY <1>1, <1>2 DEF View!TypeOK, ReadFor
<1>4. /\ \A m, n \in View(b)!Said' : View(b)!Precedes(outbox', m, n) => View(b)!Follows(m, n)'
      /\ \A c, d \in View(b)!Asked : View(b)!Precedes(toChrome, c, d) => View(b)!InTurn(c.by, d.by)'
      /\ \A m \in View(b)!Said', c \in View(b)!Asked : View(b)!Reply(m) =>
         View(b)!InTurn(m.by, c.by)'
      /\ \A c \in View(b)!Asked : View(b)!CommandKnown(c)'
  BY <1>2, OrderStays
<1>5. \A m \in View(b)!Said' : View(b)!Reply(m) =>
        m.by \in b.handlers /\ m.by # h /\ View(b)!ReplyKnown(m)
  BY DEF Unheard, View!Exchange, View!ReplyKnown, ReadFor
<1>6. View(b)!Ordered'
  <2>1. ASSUME NEW j \in b.handlers, NEW k \in b.handlers, handler'[j].at = "stop", handler'[k].at =
                 "attach"
        PROVE  handler'[k].page <= handler'[j].page
    BY <2>1, <1>2 DEF View!Exchange, View!Ordered
  <2>2. QED BY <1>1, <1>4, <2>1 DEF View!Ordered, View!Reply
<1>7. ASSUME NEW m \in View(b)!Said', View(b)!Reply(m) PROVE View(b)!ReplyKnown(m)'
  BY <1>2, <1>5, <1>7 DEF View!ReplyKnown
<1>8. ASSUME NEW k \in b.handlers, handler'[k].at \in View(b)!Ops PROVE View(b)!Answered(k)'
  <2>1. View(b)!Answered(k) /\ k # h
    BY <1>2, <1>8 DEF View!Exchange, View!Ops
  <2>2. QED BY <1>1, <2>1 DEF View!Answered, ReadFor, View!Reply
<1>9. QED BY <1>1, <1>2, <1>3, <1>4, <1>6, <1>7, <1>8 DEF View!Exchange, View!Reply

-----------------------------------------------------------------------------
\* What an answer to h is, and that it is the last of h's.
LEMMA HeadIsOwn ==
  ASSUME NEW b, View(b)!ViewAssumption, View(b)!IInv, NEW h \in b.handlers, outbox # << >>,
         View(b)!Next1.by = h, outbox' = Tail(outbox)
  PROVE  /\ ReadFor(b, h) /\ Unheard(b, h) /\ View(b)!Reply(View(b)!Next1)
         /\ View(b)!ReplyKnown(View(b)!Next1) /\ View(b)!EventKnown(View(b)!Next1)
         /\ View(b)!Next1 \in View(b)!Said /\ \A m \in View(b)!Said' : m \in View(b)!Said
              /\ View(b)!Follows(View(b)!Next1, m)
         /\ \A sort \in {"created", "destroyed"},
            p \in 0..b.pages : View(b)!Event(sort, p)' <=> View(b)!Event(sort, p)
<1>1. /\ outbox' \in Seq(View(b)!Message) /\ View(b)!Next1 \in View(b)!Message
      /\ View(b)!Next1 \in View(b)!Said
      /\ View(b)!Said = View(b)!Said' \cup {View(b)!Next1}
      /\ \A m, n \in View(b)!Said' : View(b)!Precedes(outbox', m, n) =>
         View(b)!Precedes(outbox, m, n)
      /\ \A m \in View(b)!Said' : View(b)!Precedes(outbox, View(b)!Next1, m)
  BY Reads DEF View!IInv, View!Exchange
<1>2. View(b)!EventKnown(View(b)!Next1) /\ View(b)!Reply(View(b)!Next1)
  <2>1. View(b)!EventKnown(View(b)!Next1)
    BY <1>1 DEF View!IInv, View!Outcome
  <2>2. QED BY <1>1, <2>1, Records DEF View!EventKnown, View!Reply, View!ViewAssumption, View!IInv,
       View!Exchange
<1>3. View(b)!ReplyKnown(View(b)!Next1)
  BY <1>1, <1>2 DEF View!IInv, View!Exchange
<1>4. \A m \in View(b)!Said' : m \in View(b)!Said /\ View(b)!Follows(View(b)!Next1, m)
  BY <1>1 DEF View!IInv, View!Exchange, View!Ordered
<1>5. ReadFor(b, h)
  BY <1>1 DEF ReadFor
<1>6. Unheard(b, h)
  BY <1>1, <1>2, <1>4 DEF Unheard, View!Follows, View!InTurn, View!IInv, View!Exchange,
     View!Ordered
<1>7. ASSUME NEW sort \in {"created", "destroyed"}, NEW p \in 0..b.pages
      PROVE  View(b)!Event(sort, p)' <=> View(b)!Event(sort, p)
  <2>1. View(b)!Next1 # [kind |-> sort, by |-> nobody, page |-> p]
    BY <1>2 DEF View!Reply
  <2>2. QED BY <1>1, <2>1 DEF View!Event
<1>8. QED BY <1>1, <1>2, <1>3, <1>4, <1>5, <1>6, <1>7

\* Who awaits comes after the one whose answer is read.
LEMMA NextInTurn ==
  ASSUME NEW b, View(b)!ViewAssumption, View(b)!IInv, NEW h \in b.handlers, outbox # << >>,
         View(b)!Next1.by = h, outbox' = Tail(outbox),
         View(b)!Heading(h), NEW k \in b.handlers, k # h, handler[k].at = handler[h].at
  PROVE  handler[h].page <= handler[k].page
<1>1. View(b)!Answered(k)
  BY DEF View!IInv, View!Exchange, View!Ops, View!Heading
<1>2. /\ View(b)!Next1 \in View(b)!Said /\ View(b)!Reply(View(b)!Next1)
           /\ \A m \in View(b)!Said' : View(b)!Follows(View(b)!Next1, m)
      /\ \A m \in View(b)!Said : m \in View(b)!Said' \/ (View(b)!Reply(m) => m.by = h)
  BY HeadIsOwn DEF ReadFor
<1>3. View(b)!InTurn(h, k)
  <2>1. CASE \E c \in View(b)!Asked : c.by = k
    BY <1>2, <2>1 DEF View!IInv, View!Exchange, View!Ordered
  <2>2. CASE \E m \in View(b)!Said : View(b)!Reply(m) /\ m.by = k
    BY <1>2, <2>2 DEF View!Follows
  <2>3. QED BY <1>1, <2>1, <2>2 DEF View!Answered
<1>4. QED BY <1>3 DEF View!InTurn

\* h sets out for a page that nobody will show an older one over.
LEMMA Heads ==
  ASSUME NEW b, View(b)!ViewAssumption, View(b)!IInv, NEW h \in b.handlers,
         NEW point \in {"stop", "attach"}, NEW dest \in alive,
         View(b)!Exchange',
         alive' = alive, opened' = opened, attached' = attached, casting' = casting,
         session' = session, target' = target,
         handler'[h] = [at |-> point, page |-> dest],
           handler[h].at \notin {"enable", "start", "done"},
         \A k \in b.handlers : k # h => handler'[k] = handler[k],
         session = nobody => point = "attach",
         \A m \in View(b)!Said' :
           /\ m \in View(b)!Said
           /\ m.kind = "created" => dest < m.page
           /\ m.kind = "pages" => dest <= m.page
           /\ m.kind = "pages" => \A p \in alive : p > m.page => View(b)!Event("created", p)',
         target <= dest \/ View(b)!Ended,
         \A n \in alive : (\A p \in alive : p <= n) => View(b)!Coming(n)'
  PROVE  View(b)!Outcome'
<1>1. View(b)!Outcome /\ View(b)!TypeOK
  BY DEF View!IInv, View!Exchange
<1>2. /\ dest \in Nat /\ target \in 0..b.pages
      /\ \A m \in View(b)!Said : m.page \in 0..b.pages
      /\ \A k \in b.handlers : handler[k].page \in 0..b.pages
      /\ \A p \in alive : p \in Nat
  BY <1>1, Records DEF View!TypeOK
<1>3. ASSUME NEW m \in View(b)!Said' PROVE View(b)!EventKnown(m)'
  <2>1. View(b)!EventKnown(m) /\ m \in View(b)!Said
    BY <1>1, <1>3 DEF View!Outcome
  <2>2. m.kind = "created" => \A k \in b.handlers : View(b)!Heading(k)' => handler'[k].page < m.page
    BY <1>3, <2>1 DEF View!EventKnown, View!Heading
  <2>3. m.kind = "pages" => \A k \in b.handlers : View(b)!Heading(k)' => handler'[k].page <= m.page
    <3>1. m.kind = "pages" /\ m.page = View(b)!NoPage => FALSE
      BY <2>1 DEF View!EventKnown
    <3>2. QED BY <1>3, <2>1, <3>1 DEF View!EventKnown, View!Heading
  <2>4. QED BY <1>3, <2>1, <2>2, <2>3 DEF View!EventKnown
<1>4. View(b)!Ended => View(b)!Ended'
  BY DEF View!Ended, View!Event
<1>5. ASSUME NEW k \in b.handlers PROVE View(b)!HandlerKnown(k)'
  <2>1. CASE k = h
    BY <1>4, <2>1 DEF View!HandlerKnown, View!Heading, View!Ops
  <2>2. CASE k # h
    <3>1. View(b)!HandlerKnown(k) /\ handler'[k] = handler[k]
      BY <1>1, <2>2 DEF View!Outcome
    <3>2. QED BY <1>4, <3>1 DEF View!HandlerKnown, View!Heading
  <2>3. QED BY <2>1, <2>2
<1>6. View(b)!SessionKnown'
  BY <1>1 DEF View!Outcome, View!SessionKnown, View!TypeOK
<1>7. View(b)!Started'
  BY DEF View!Started, View!Free, View!Idle
<1>8. View(b)!CastComes'
  BY DEF View!CastComes, View!Heading
<1>9. QED BY <1>3, <1>5, <1>6, <1>7, <1>8 DEF View!Outcome, View!Begins, View!NewestComes

\* main follows the first page.
LEMMA StartKeeps ==
  ASSUME NEW b, View(b)!ViewAssumption, View(b)!IInv, NEW h \in b.handlers, View(b)!Start(h)
  PROVE  View(b)!IInv'
<1>1. /\ alive = {View(b)!First} /\ toChrome = << >> /\ outbox = << >> /\ session = nobody
      /\ \A k \in b.handlers : handler[k] = View(b)!Idle
      /\ View(b)!Await(h, "attach", View(b)!First, nobody)
      /\ alive' = alive /\ opened' = opened /\ attached' = attached /\ casting' = casting
      /\ outbox' = outbox /\ session' = session /\ target' = target
  BY DEF View!Start, View!Started, View!IInv, View!Outcome, View!Begins, View!Free, View!Follow
<1>2. /\ View(b)!Said = {} /\ View(b)!Said' = {} /\ View(b)!Asked = {}
      /\ View(b)!First \in 0..b.pages
      /\ session \in b.handlers \cup {nobody} /\ target \in 0..b.pages
  BY <1>1 DEF View!Said, View!Asked, View!First, View!ViewAssumption, View!IInv, View!Exchange,
     View!TypeOK
<1>3. ReadFor(b, h) /\ Unheard(b, h)
  BY <1>1, <1>2 DEF ReadFor, Unheard, View!IInv, View!Exchange, View!TypeOK
<1>4. /\ View(b)!Exchange' /\ handler'[h] = [at |-> "attach", page |-> View(b)!First]
      /\ \A k \in b.handlers : k # h => handler'[k] = handler[k]
  <2>1. \A k \in b.handlers : handler[k].at = "idle"
    BY <1>1 DEF View!Idle
  <2>2. QED BY <1>1, <1>2, <1>3, <2>1, Awaiting DEF View!IInv, View!Ops
<1>5. target = View(b)!NoPage
  BY <1>1 DEF View!IInv, View!Outcome, View!SessionKnown
<1>6. ASSUME NEW n \in alive PROVE View(b)!Coming(n)'
  BY <1>1, <1>4 DEF View!Coming, View!Heading
<1>7. target <= View(b)!First
  BY <1>5 DEF View!NoPage, View!First
<1>8. View(b)!Outcome'
  BY <1>1, <1>2, <1>4, <1>6, <1>7, Heads DEF View!Idle
<1>9. QED BY <1>4, <1>8 DEF View!IInv

\* A popup is followed, unless it is shown; none is.
LEMMA CreatedKeeps ==
  ASSUME NEW b, View(b)!ViewAssumption, View(b)!IInv, View(b)!Created
  PROVE  View(b)!IInv'
<1>1. /\ outbox' \in Seq(View(b)!Message) /\ View(b)!Next1 \in View(b)!Message
      /\ View(b)!Next1 \in View(b)!Said
      /\ View(b)!Said = View(b)!Said' \cup {View(b)!Next1}
      /\ \A m, n \in View(b)!Said' : View(b)!Precedes(outbox', m, n) =>
         View(b)!Precedes(outbox, m, n)
      /\ \A m \in View(b)!Said' : View(b)!Precedes(outbox, View(b)!Next1, m)
  BY Reads DEF View!IInv, View!Exchange, View!Created
<1>2. View(b)!EventKnown(View(b)!Next1)
          /\ \A m \in View(b)!Said' : View(b)!Follows(View(b)!Next1, m)
  BY <1>1 DEF View!IInv, View!Outcome, View!Exchange, View!Ordered
<1> DEFINE dest == View(b)!Next1.page
<1>3. dest \in alive /\ target < dest /\ \A k \in b.handlers : View(b)!Heading(k) =>
        handler[k].page < dest
  BY <1>2 DEF View!EventKnown, View!Created
<1>4. PICK h \in b.handlers : View(b)!Free(h) /\ View(b)!Follow(h, dest)
  BY <1>3, Records DEF View!Created, View!IInv, View!Exchange, View!TypeOK
<1>5. /\ dest \in 0..b.pages /\ target \in 0..b.pages /\ session \in b.handlers \cup {nobody}
      /\ alive' = alive /\ opened' = opened /\ attached' = attached /\ casting' = casting
      /\ session' = session /\ target' = target
  BY <1>1 DEF View!Message, View!Created, View!IInv, View!Exchange, View!TypeOK
<1>6. handler[h].at = "idle"
  BY <1>4 DEF View!Free, View!Idle
<1>7. ReadFor(b, h)
  BY <1>1 DEF ReadFor, View!Created, View!Reply
<1>8. Unheard(b, h)
  BY <1>1, <1>6, Records DEF Unheard, View!IInv, View!Exchange, View!CommandKnown,
     View!ReplyKnown, View!Ops
<1> DEFINE point == IF session # nobody THEN "stop" ELSE "attach"
<1>9. /\ View(b)!Exchange' /\ handler'[h] = [at |-> point, page |-> dest]
      /\ \A k \in b.handlers : k # h => handler'[k] = handler[k]
  <2>1. View(b)!Await(h, point, dest, session)
    BY <1>4 DEF View!Follow
  <2>2. \A k \in b.handlers : View(b)!Heading(k) => handler[k].page <= dest
    BY <1>3, <1>5, Records DEF View!IInv, View!Exchange
  <2>3. session = nobody => \A k \in b.handlers : handler[k].at # "stop"
    BY DEF View!IInv, View!Outcome, View!HandlerKnown
  <2>4. point \in View(b)!Ops /\ point # "enable" /\ (point = "attach" => session = nobody)
    BY DEF View!Ops
  <2> HIDE DEF point, dest
  <2>5. \A k \in b.handlers : handler[k].at \in {"stop", "attach"} => handler[k].page <= dest
    BY <2>2 DEF View!Heading
  <2>6. QED BY <1>5, <1>7, <1>8, <2>1, <2>3, <2>4, <2>5, Awaiting DEF View!IInv
<1> HIDE DEF dest
<1>10. ASSUME NEW m \in View(b)!Said'
       PROVE  /\ m \in View(b)!Said /\ (m.kind = "created" => dest < m.page)
              /\ m.kind = "pages" => dest <= m.page
              /\ m.kind = "pages" => \A p \in alive : p > m.page => View(b)!Event("created", p)'
  <2>1. m \in View(b)!Said /\ View(b)!Follows(View(b)!Next1, m) /\ View(b)!EventKnown(m)
            /\ m.page \in 0..b.pages
    BY <1>1, <1>2, Records DEF View!IInv, View!Outcome, View!Exchange
  <2>2. m.kind = "created" => dest < m.page
    BY <2>1 DEF View!Follows, View!Created, dest
  <2>3. m.kind = "pages" => dest <= m.page
    BY <2>1 DEF View!Follows, View!Created, dest
  <2>4. ASSUME m.kind = "pages", NEW p \in alive, p > m.page PROVE View(b)!Event("created", p)'
    <3>1. View(b)!Event("created", p)
      BY <1>5, <2>1, <2>4, Records DEF View!EventKnown, View!IInv, View!Exchange
    <3>2. p # dest
      BY <1>5, <2>1, <2>3, <2>4, Records DEF View!IInv, View!Exchange
    <3>3. QED BY <1>1, <3>1, <3>2 DEF View!Event, dest
  <2>5. QED BY <2>1, <2>2, <2>3, <2>4
<1>11. ASSUME NEW n \in alive, \A p \in alive : p <= n PROVE View(b)!Coming(n)'
  <2>1. View(b)!Coming(n)
    BY <1>11 DEF View!IInv, View!Outcome, View!NewestComes
  <2>2. CASE \E k \in b.handlers : handler[k].at = "list" \/ (View(b)!Heading(k)
                                                              /\ handler[k].page = n)
    BY <1>6, <1>9, <2>2 DEF View!Coming, View!Heading
  <2>3. CASE View(b)!Event("created", n)
    <3>1. CASE dest = n
      BY <1>9, <3>1 DEF View!Coming, View!Heading
    <3>2. CASE dest # n
      BY <1>1, <2>3, <3>2 DEF View!Coming, View!Event, dest
    <3>3. QED BY <3>1, <3>2
  <2>4. CASE View(b)!Event("destroyed", target) /\ n < target
    BY <1>1, <1>5, <2>4 DEF View!Coming, View!Event, View!Created
  <2>5. CASE ~View(b)!Started
    <3>1. outbox = << >>
      BY <2>5 DEF View!IInv, View!Outcome, View!Begins
    <3>2. QED BY <3>1 DEF View!Created
  <2>6. CASE target = n
    BY <1>5, <2>6 DEF View!Coming
  <2>7. QED BY <2>1, <2>2, <2>3, <2>4, <2>5, <2>6 DEF View!Coming
<1>12. View(b)!Outcome'
  <2>1. target <= dest /\ dest \in alive
    BY <1>3, <1>5 DEF dest
  <2>2. (session = nobody => point = "attach") /\ point \in {"stop", "attach"}
    OBVIOUS
  <2> HIDE DEF point
  <2>3. QED BY <1>5, <1>6, <1>9, <1>10, <1>11, <2>1, <2>2, Heads
<1>13. QED BY <1>9, <1>12 DEF View!IInv

\* A list answers with the newest page, and that is followed.
LEMMA ListedKeeps ==
  ASSUME NEW b, View(b)!ViewAssumption, View(b)!IInv, NEW h \in b.handlers, View(b)!Resume(h),
         View(b)!Next1.kind = "pages"
  PROVE  View(b)!IInv'
<1> DEFINE dest == View(b)!Next1.page
<1>1. handler[h].at = "list"
  <2>1. outbox # << >> /\ View(b)!Next1.by = h /\ outbox' = Tail(outbox)
    BY DEF View!Resume
  <2>2. QED BY <2>1, HeadIsOwn DEF View!ReplyKnown
<1>2. /\ outbox # << >> /\ View(b)!Next1.by = h /\ outbox' = Tail(outbox)
      /\ IF dest # View(b)!NoPage THEN View(b)!Follow(h, dest) ELSE View(b)!Finished(h)
      /\ alive' = alive /\ opened' = opened /\ attached' = attached /\ casting' = casting
      /\ session' = session /\ target' = target
  <2>1. /\ outbox # << >> /\ View(b)!Next1.by = h /\ outbox' = Tail(outbox)
        /\ alive' = alive /\ opened' = opened /\ attached' = attached /\ casting' = casting
        /\ session' = session /\ target' = target
    BY DEF View!Resume
  <2>2. dest # View(b)!NoPage => View(b)!Follow(h, dest)
    BY <1>1 DEF View!Resume, View!Follow, View!Await, View!Finished
  <2>3. dest = View(b)!NoPage => View(b)!Finished(h)
    BY <1>1 DEF View!Resume, View!Follow, View!Await, View!Finished
  <2>4. QED BY <2>1, <2>2, <2>3
<1>3. /\ ReadFor(b, h) /\ Unheard(b, h) /\ View(b)!Reply(View(b)!Next1)
      /\ View(b)!ReplyKnown(View(b)!Next1) /\ View(b)!EventKnown(View(b)!Next1)
      /\ View(b)!Next1 \in View(b)!Said /\ \A m \in View(b)!Said' : m \in View(b)!Said
           /\ View(b)!Follows(View(b)!Next1, m)
      /\ \A sort \in {"created", "destroyed"},
         p \in 0..b.pages : View(b)!Event(sort, p)' <=> View(b)!Event(sort, p)
  BY <1>2, HeadIsOwn
<1>4. session # nobody
  BY <1>1 DEF View!IInv, View!Outcome, View!HandlerKnown
<1>5. dest \in 0..b.pages /\ target \in 0..b.pages /\ session \in b.handlers
  BY <1>3, <1>4, Records DEF View!IInv, View!Exchange, View!TypeOK
<1>6. CASE dest = View(b)!NoPage
  <2>1. /\ View(b)!Exchange' /\ handler'[h].at = "done"
        /\ \A k \in b.handlers : k # h => handler'[k] = handler[k]
    BY <1>2, <1>3, <1>6, Through DEF View!IInv
  <2>2. alive = {}
    BY <1>3, <1>6 DEF View!EventKnown
  <2>3. ASSUME NEW m \in View(b)!Said' PROVE View(b)!EventKnown(m)'
    <3>1. View(b)!EventKnown(m)
      BY <1>3, <2>3 DEF View!IInv, View!Outcome
    <3>2. QED BY <1>2, <2>1, <2>2, <3>1 DEF View!EventKnown, View!Heading
  <2>4. View(b)!Ended => View(b)!Ended'
    BY <1>2, <1>3, <1>5 DEF View!Ended
  <2>5. ASSUME NEW k \in b.handlers PROVE View(b)!HandlerKnown(k)'
    <3>1. CASE k = h
      BY <1>1, <1>2, <1>4, <2>1, <3>1 DEF View!HandlerKnown, View!Heading, View!Ops
    <3>2. CASE k # h
      <4>1. View(b)!HandlerKnown(k) /\ handler'[k] = handler[k]
        BY <2>1, <3>2 DEF View!IInv, View!Outcome
      <4>2. QED BY <1>2, <2>4, <4>1 DEF View!HandlerKnown, View!Heading
    <3>3. QED BY <3>1, <3>2
  <2>6. View(b)!SessionKnown'
    BY <1>1, <1>2, <1>4, <1>5, <2>1 DEF View!IInv, View!Outcome, View!SessionKnown
  <2>7. View(b)!Started'
    BY <2>1 DEF View!Started, View!Free, View!Idle
  <2>8. QED BY <1>2, <2>1, <2>2, <2>3, <2>5, <2>6, <2>7 DEF View!IInv, View!Outcome, View!Begins,
       View!NewestComes, View!CastComes
<1>7. CASE dest # View(b)!NoPage
  <2>1. View(b)!Await(h, "stop", dest, session)
    BY <1>2, <1>4, <1>7 DEF View!Follow
  <2>2. /\ dest \in alive /\ (target \in alive => target <= dest)
        /\ \A p \in alive : p > dest => View(b)!Event("created", p)
        /\ \A k \in b.handlers : View(b)!Heading(k) => handler[k].page <= dest
    BY <1>7 , <1>3 DEF View!EventKnown
  <2>3. /\ View(b)!Exchange' /\ handler'[h] = [at |-> "stop", page |-> dest]
        /\ \A k \in b.handlers : k # h => handler'[k] = handler[k]
    <3>1. \A k \in b.handlers : handler[k].at \in {"stop", "attach"} => handler[k].page <= dest
      BY <2>2 DEF View!Heading
    <3> HIDE DEF dest
    <3>2. "stop" \in View(b)!Ops
      BY DEF View!Ops
    <3>3. QED BY <1>2, <1>3, <1>5, <2>1, <3>1, <3>2, Awaiting DEF View!IInv
  <2>4. ASSUME NEW m \in View(b)!Said'
        PROVE  /\ m \in View(b)!Said /\ (m.kind = "created" => dest < m.page)
               /\ m.kind = "pages" => dest <= m.page
               /\ m.kind = "pages" => \A p \in alive : p > m.page => View(b)!Event("created", p)'
    <3>1. m \in View(b)!Said /\ View(b)!Follows(View(b)!Next1, m) /\ View(b)!EventKnown(m)
              /\ m.page \in 0..b.pages
      BY <1>3, Records DEF View!IInv, View!Outcome, View!Exchange
    <3>2. m.kind = "created" => dest < m.page
      BY <3>1 DEF View!Follows
    <3>3. ASSUME m.kind = "pages" PROVE dest <= m.page
      <4>1. SUFFICES ASSUME dest > m.page PROVE FALSE
        BY <1>5, <3>1
      <4>2. m.page # View(b)!NoPage
        BY <2>2, <3>1, <3>3 DEF View!EventKnown
      <4>3. View(b)!Event("created", dest)
        BY <2>2, <3>1, <3>3, <4>1, <4>2 DEF View!EventKnown
      <4>4. PICK n \in View(b)!Said' : n.kind = "created" /\ n.page = dest
        BY <1>3, <1>5, <4>3 DEF View!Event
      <4>5. View(b)!Follows(View(b)!Next1, n)
        BY <1>3
      <4>6. dest < dest
        BY <4>4, <4>5 DEF View!Follows
      <4>7. QED BY <1>5, <4>6
    <3>4. ASSUME m.kind = "pages", NEW p \in alive, p > m.page PROVE View(b)!Event("created", p)'
      <4>1. m.page # View(b)!NoPage
        BY <3>1, <3>4 DEF View!EventKnown
      <4>2. QED BY <1>3, <3>1, <3>4, <4>1, Records DEF View!EventKnown, View!IInv, View!Exchange
    <3>5. QED BY <3>1, <3>2, <3>3, <3>4
  <2>5. ASSUME NEW n \in alive, \A p \in alive : p <= n PROVE View(b)!Coming(n)'
    <3>1. CASE n = dest
      BY <2>3, <3>1 DEF View!Coming, View!Heading
    <3>2. CASE n > dest
      BY <1>3, <2>2, <3>2, Records DEF View!Coming, View!IInv, View!Exchange
    <3>3. n \in Nat /\ dest <= n
      BY <2>2, <2>5, Records DEF View!IInv, View!Exchange
    <3>4. QED BY <1>5, <3>1, <3>2, <3>3
  <2>6. target <= dest \/ View(b)!Ended
    BY <1>1, <2>2 DEF View!IInv, View!Outcome, View!HandlerKnown
  <2>7. dest \in alive /\ handler[h].at \notin {"enable", "start", "done"}
    BY <1>1, <2>2
  <2> HIDE DEF dest
  <2>8. View(b)!Outcome'
    BY <1>1, <1>2, <1>4, <2>3, <2>4, <2>5, <2>6, <2>7, Heads
  <2>9. QED BY <2>3, <2>8 DEF View!IInv
<1>8. QED BY <1>6, <1>7

\* The screencast that ran has stopped, and h attaches its page.
LEMMA StoppedKeeps ==
  ASSUME NEW b, View(b)!ViewAssumption, View(b)!IInv, NEW h \in b.handlers, View(b)!Resume(h),
         View(b)!Next1.kind # "pages", handler[h].at = "stop"
  PROVE  View(b)!IInv'
<1> DEFINE dest == handler[h].page
<1>1. /\ outbox # << >> /\ View(b)!Next1.by = h /\ outbox' = Tail(outbox)
      /\ View(b)!Await(h, "attach", dest, nobody)
      /\ alive' = alive /\ opened' = opened /\ attached' = attached /\ casting' = casting
      /\ session' = session /\ target' = target
  BY DEF View!Resume
<1>2. /\ ReadFor(b, h) /\ Unheard(b, h)
      /\ \A m \in View(b)!Said' : m \in View(b)!Said
      /\ \A sort \in {"created", "destroyed"},
         p \in 0..b.pages : View(b)!Event(sort, p)' <=> View(b)!Event(sort, p)
  BY <1>1, HeadIsOwn
<1>3. dest \in 0..b.pages /\ target \in 0..b.pages /\ session \in b.handlers \cup {nobody}
  BY Records DEF View!IInv, View!Exchange, View!TypeOK
<1>4. View(b)!HandlerKnown(h) /\ dest \in alive /\ session # nobody
          /\ (target <= dest \/ View(b)!Ended)
  BY DEF View!IInv, View!Outcome, View!HandlerKnown, View!Heading, View!Ops
<1>5. /\ View(b)!Exchange' /\ handler'[h] = [at |-> "attach", page |-> dest]
      /\ \A k \in b.handlers : k # h => handler'[k] = handler[k]
  <2>1. \A k \in b.handlers : handler[k].at = "attach" => handler[k].page <= dest
    BY DEF View!IInv, View!Exchange, View!Ordered
  <2>2. ASSUME NEW k \in b.handlers, k # h, handler[k].at = "stop" PROVE dest <= handler[k].page
    BY <1>1, <2>2, NextInTurn DEF View!Heading, View!Ops
  <2> HIDE DEF dest
  <2>3. "attach" \in View(b)!Ops
    BY DEF View!Ops
  <2>4. QED BY <1>1, <1>2, <1>3, <2>1, <2>2, <2>3, Awaiting DEF View!IInv
<1>6. ASSUME NEW m \in View(b)!Said'
      PROVE  /\ m \in View(b)!Said /\ (m.kind = "created" => dest < m.page)
             /\ m.kind = "pages" => dest <= m.page
             /\ m.kind = "pages" => \A p \in alive : p > m.page => View(b)!Event("created", p)'
  <2>1. m \in View(b)!Said /\ View(b)!EventKnown(m) /\ m.page \in 0..b.pages /\ View(b)!Heading(h)
    BY <1>2, Records DEF View!IInv, View!Outcome, View!Exchange, View!Heading
  <2>2. m.kind = "pages" => m.page # View(b)!NoPage
    BY <1>4, <2>1 DEF View!EventKnown
  <2>3. QED BY <1>2, <2>1, <2>2, Records DEF View!EventKnown, View!IInv, View!Exchange
<1>7. ASSUME NEW n \in alive, \A p \in alive : p <= n PROVE View(b)!Coming(n)'
  <2>1. View(b)!Coming(n) /\ n \in 0..b.pages
    BY <1>7, Records DEF View!IInv, View!Outcome, View!NewestComes, View!Exchange
  <2>2. CASE \E k \in b.handlers : handler[k].at = "list" \/ (View(b)!Heading(k)
                                                              /\ handler[k].page = n)
    <3>1. PICK k \in b.handlers : handler[k].at = "list" \/ (View(b)!Heading(k)
                                                             /\ handler[k].page = n)
      BY <2>2
    <3>2. CASE k = h
      BY <1>5, <3>1, <3>2 DEF View!Coming, View!Heading
    <3>3. CASE k # h
      BY <1>5, <3>1, <3>3 DEF View!Coming, View!Heading
    <3>4. QED BY <3>2, <3>3
  <2>3. CASE View(b)!Event("created", n) \/ (View(b)!Event("destroyed", target)
                                             /\ n < target) \/ target = n
    BY <1>1, <1>2, <1>3, <2>1, <2>3 DEF View!Coming
  <2>4. View(b)!Started
    BY DEF View!Started, View!Free, View!Idle
  <2>5. QED BY <2>1, <2>2, <2>3, <2>4 DEF View!Coming
<1>8. View(b)!Outcome'
  <2> HIDE DEF dest
  <2>1. QED BY <1>1, <1>4, <1>5, <1>6, <1>7, Heads
<1>9. QED BY <1>5, <1>8 DEF View!IInv

\* h is attached: its session is shown, of a page no older than the one before, and no
\* newer than those the others set out for.
LEMMA AttachedKeeps ==
  ASSUME NEW b, View(b)!ViewAssumption, View(b)!IInv, NEW h \in b.handlers, View(b)!Resume(h),
         View(b)!Next1.kind = "answer",
         handler[h].at = "attach"
  PROVE  View(b)!IInv'
<1> DEFINE dest == handler[h].page
<1>1. /\ outbox # << >> /\ View(b)!Next1.by = h /\ outbox' = Tail(outbox)
      /\ View(b)!Await(h, "enable", dest, h)
      /\ alive' = alive /\ opened' = opened /\ attached' = attached /\ casting' = casting
      /\ session' = h /\ target' = dest
  BY DEF View!Resume
<1>2. /\ ReadFor(b, h) /\ Unheard(b, h) /\ View(b)!ReplyKnown(View(b)!Next1)
      /\ \A m \in View(b)!Said' : m \in View(b)!Said
      /\ \A sort \in {"created", "destroyed"},
         p \in 0..b.pages : View(b)!Event(sort, p)' <=> View(b)!Event(sort, p)
  BY <1>1, HeadIsOwn
<1>3. dest \in 0..b.pages /\ dest \in Nat /\ target \in 0..b.pages /\ h # nobody
  BY Records DEF View!IInv, View!Exchange, View!TypeOK, View!ViewAssumption
<1>4. View(b)!HandlerKnown(h) /\ View(b)!Heading(h) /\ dest \in alive
          /\ (target <= dest \/ View(b)!Ended)
  BY DEF View!IInv, View!Outcome, View!HandlerKnown, View!Heading, View!Ops
<1>5. attached[h] = dest
  BY <1>1, <1>2 DEF View!ReplyKnown
<1>6. dest \in 1..opened /\ dest # View(b)!NoPage
  BY <1>4, Records DEF View!IInv, View!Exchange, View!NoPage
<1>7. /\ View(b)!Exchange' /\ handler'[h] = [at |-> "enable", page |-> dest]
      /\ \A k \in b.handlers : k # h => handler'[k] = handler[k]
  <2>1. "enable" \in View(b)!Ops
    BY DEF View!Ops
  <2> HIDE DEF dest
  <2>2. QED BY <1>1, <1>2, <1>3, <2>1, Awaiting DEF View!IInv
<1>8. ASSUME NEW m \in View(b)!Said' PROVE View(b)!EventKnown(m)'
  <2>1. View(b)!EventKnown(m) /\ m \in View(b)!Said /\ m.page \in 0..b.pages
    BY <1>2, Records DEF View!IInv, View!Outcome, View!Exchange
  <2>2. m.kind = "created" => target' < m.page
    BY <1>1, <1>4, <2>1 DEF View!EventKnown
  <2>3. m.kind = "pages" => m.page # View(b)!NoPage /\ target' <= m.page
    BY <1>1, <1>4, <2>1 DEF View!EventKnown
  <2>4. \A k \in b.handlers : View(b)!Heading(k)' => View(b)!Heading(k) /\ handler'[k] = handler[k]
    BY <1>7 DEF View!Heading
  <2>5. ASSUME m.kind = "pages", NEW p \in alive, p > m.page PROVE View(b)!Event("created", p)'
    BY <1>2, <2>1, <2>3, <2>5, Records DEF View!EventKnown, View!IInv, View!Exchange
  <2>6. QED BY <1>1, <2>1, <2>2, <2>3, <2>4, <2>5 DEF View!EventKnown
<1>9. ASSUME NEW k \in b.handlers PROVE View(b)!HandlerKnown(k)'
  <2>1. CASE k = h
    BY <1>1, <1>3, <1>4, <1>5, <1>7, <2>1 DEF View!HandlerKnown, View!Heading, View!Ops
  <2>2. CASE k # h
    <3>1. View(b)!HandlerKnown(k) /\ handler'[k] = handler[k]
      BY <1>7, <2>2 DEF View!IInv, View!Outcome
    <3>2. View(b)!Heading(k) => dest <= handler[k].page
      <4>1. CASE handler[k].at = "attach"
        BY <1>1, <1>4, <2>2, <4>1, NextInTurn
      <4>2. CASE handler[k].at = "stop"
        BY <4>2 DEF View!IInv, View!Exchange, View!Ordered
      <4>3. QED BY <4>1, <4>2 DEF View!Heading
    <3>3. QED BY <1>1, <1>3, <1>4, <3>1, <3>2 DEF View!HandlerKnown, View!Heading
  <2>3. QED BY <2>1, <2>2
<1>10. View(b)!SessionKnown'
  BY <1>1, <1>3, <1>5, <1>6, <1>7 DEF View!SessionKnown
<1>11. View(b)!Started'
  BY <1>7 DEF View!Started, View!Free, View!Idle
<1>12. ASSUME NEW n \in alive, \A p \in alive : p <= n PROVE View(b)!Coming(n)'
  <2>1. View(b)!Coming(n) /\ n \in 0..b.pages /\ dest <= n
    BY <1>4, <1>12, Records DEF View!IInv, View!Outcome, View!NewestComes, View!Exchange
  <2>2. CASE \E k \in b.handlers : handler[k].at = "list" \/ (View(b)!Heading(k)
                                                              /\ handler[k].page = n)
    <3>1. PICK k \in b.handlers : handler[k].at = "list" \/ (View(b)!Heading(k)
                                                             /\ handler[k].page = n)
      BY <2>2
    <3>2. CASE k = h
      BY <1>1, <3>1, <3>2 DEF View!Coming
    <3>3. CASE k # h
      BY <1>7, <3>1, <3>3 DEF View!Coming, View!Heading
    <3>4. QED BY <3>2, <3>3
  <2>3. CASE View(b)!Event("created", n)
    BY <1>2, <2>1, <2>3 DEF View!Coming
  <2>4. CASE target = n
    <3>1. dest = n
      BY <1>3, <1>4, <1>12, <2>1, <2>4 DEF View!Ended
    <3>2. QED BY <1>1, <3>1 DEF View!Coming
  <2>5. CASE View(b)!Event("destroyed", target) /\ n < target
    BY <1>3, <1>4, <2>1, <2>5 DEF View!Ended
  <2>6. View(b)!Started
    BY DEF View!Started, View!Free, View!Idle
  <2>7. QED BY <2>1, <2>2, <2>3, <2>4, <2>5, <2>6 DEF View!Coming
<1>13. View(b)!CastComes'
  BY <1>1, <1>7 DEF View!CastComes
<1>14. QED BY <1>1, <1>7, <1>8, <1>9, <1>10, <1>11, <1>12, <1>13 DEF View!IInv, View!Outcome, View!Begins,
     View!NewestComes

\* The last steps of a handler, that change nothing of what is shown.
LEMMA ViewGoesOn ==
  ASSUME NEW b, View(b)!ViewAssumption, View(b)!IInv, NEW h \in b.handlers, outbox # << >>,
         View(b)!Next1.by = h, outbox' = Tail(outbox),
         alive' = alive, opened' = opened, attached' = attached, casting' = casting,
         session' = session, target' = target,
         handler[h].at \in {"enable", "start"}, handler'[h].at \in {"start", "done"},
         handler'[h].page = handler[h].page,
         \A k \in b.handlers : k # h => handler'[k] = handler[k],
         \A c \in View(b)!Asked : c \in View(b)!Asked',
         handler[h].at = "enable" => \E c \in View(b)!Asked' : c.op = "start" /\ c.on = session
  PROVE  View(b)!Outcome'
<1>1. /\ \A m \in View(b)!Said' : m \in View(b)!Said
      /\ \A sort \in {"created", "destroyed"},
         p \in 0..b.pages : View(b)!Event(sort, p)' <=> View(b)!Event(sort, p)
  BY HeadIsOwn
<1>2. target \in 0..b.pages /\ session # nobody
  BY DEF View!IInv, View!Exchange, View!TypeOK, View!Outcome, View!HandlerKnown
<1>3. ASSUME NEW m \in View(b)!Said' PROVE View(b)!EventKnown(m)'
  <2>1. View(b)!EventKnown(m) /\ m \in View(b)!Said
    BY <1>1, <1>3 DEF View!IInv, View!Outcome
  <2>2. \A k \in b.handlers : View(b)!Heading(k)' => View(b)!Heading(k) /\ handler'[k] = handler[k]
    BY DEF View!Heading
  <2>3. ASSUME NEW p \in alive, View(b)!Event("created", p) PROVE View(b)!Event("created", p)'
    BY <1>1, <2>3, Records DEF View!IInv, View!Exchange
  <2>4. QED BY <2>1, <2>2, <2>3 DEF View!EventKnown
<1>4. View(b)!Ended => View(b)!Ended'
  BY <1>1, <1>2 DEF View!Ended
<1>5. ASSUME NEW k \in b.handlers PROVE View(b)!HandlerKnown(k)'
  <2>1. CASE k = h
    BY <1>2, <2>1 DEF View!IInv, View!Outcome, View!HandlerKnown, View!Heading, View!Ops
  <2>2. CASE k # h
    <3>1. View(b)!HandlerKnown(k) /\ handler'[k] = handler[k]
      BY <2>2 DEF View!IInv, View!Outcome
    <3>2. QED BY <1>4, <3>1 DEF View!HandlerKnown, View!Heading
  <2>3. QED BY <2>1, <2>2
<1>6. View(b)!SessionKnown'
  <2>1. session \in b.handlers
    BY <1>2 DEF View!IInv, View!Exchange, View!TypeOK
  <2>2. QED BY <2>1 DEF View!IInv, View!Outcome, View!SessionKnown
<1>7. View(b)!Started' /\ View(b)!Started
  BY DEF View!Started, View!Free, View!Idle
<1>8. ASSUME NEW n \in alive, \A p \in alive : p <= n PROVE View(b)!Coming(n)'
  <2>1. View(b)!Coming(n) /\ n \in 0..b.pages
    BY <1>8, Records DEF View!IInv, View!Outcome, View!NewestComes, View!Exchange
  <2>2. \A k \in b.handlers : handler[k].at = "list" \/ View(b)!Heading(k) =>
          k # h /\ handler'[k] = handler[k]
    BY DEF View!Heading
  <2>3. QED BY <1>1, <1>2, <1>7, <2>1, <2>2 DEF View!Coming, View!Heading
<1>9. View(b)!CastComes'
  <2>1. \A k \in b.handlers : View(b)!Heading(k) => View(b)!Heading(k)'
    BY DEF View!Heading
  <2>2. session \in b.handlers
    BY <1>2 DEF View!IInv, View!Exchange, View!TypeOK
  <2>3. QED BY <2>1, <2>2 DEF View!IInv, View!Outcome, View!CastComes
<1>10. QED BY <1>3, <1>5, <1>6, <1>7, <1>8, <1>9 DEF View!Outcome, View!Begins, View!NewestComes

\* The page of the session is enabled; the session that is shown by then is started.
LEMMA EnabledKeeps ==
  ASSUME NEW b, View(b)!ViewAssumption, View(b)!IInv, NEW h \in b.handlers, View(b)!Resume(h),
         View(b)!Next1.kind = "answer",
         handler[h].at = "enable"
  PROVE  View(b)!IInv'
<1> DEFINE dest == handler[h].page
<1>1. /\ outbox # << >> /\ View(b)!Next1.by = h /\ outbox' = Tail(outbox)
      /\ View(b)!Await(h, "start", dest, session)
      /\ alive' = alive /\ opened' = opened /\ attached' = attached /\ casting' = casting
      /\ session' = session /\ target' = target
  BY DEF View!Resume
<1>2. ReadFor(b, h) /\ Unheard(b, h)
  BY <1>1, HeadIsOwn
<1>3. dest \in 0..b.pages /\ target \in 0..b.pages /\ session \in b.handlers \cup {nobody}
  BY Records DEF View!IInv, View!Exchange, View!TypeOK
<1>4. /\ View(b)!Exchange' /\ handler'[h] = [at |-> "start", page |-> dest]
      /\ View(b)!Asked' =
         View(b)!Asked \cup {[op |-> "start", by |-> h, page |-> dest, on |-> session]}
      /\ \A k \in b.handlers : k # h => handler'[k] = handler[k]
  <2>1. "start" \in View(b)!Ops
    BY DEF View!Ops
  <2> HIDE DEF dest
  <2>2. QED BY <1>1, <1>2, <1>3, <2>1, Awaiting DEF View!IInv
<1>5. \E c \in View(b)!Asked' : c.op = "start" /\ c.on = session
  <2> DEFINE e == [op |-> "start", by |-> h, page |-> dest, on |-> session]
  <2>1. e \in View(b)!Asked' /\ e.op = "start" /\ e.on = session
    BY <1>4
  <2> HIDE DEF e
  <2>2. QED BY <2>1
<1>6. View(b)!Outcome'
  BY <1>1, <1>4, <1>5, ViewGoesOn
<1>7. QED BY <1>4, <1>6 DEF View!IInv

\* The screencast runs, or its session is gone; the handler is through.
LEMMA EndKeeps ==
  ASSUME NEW b, View(b)!ViewAssumption, View(b)!IInv, NEW h \in b.handlers, View(b)!Resume(h),
         View(b)!Next1.kind # "pages",
         handler[h].at = "start"
  PROVE  View(b)!IInv'
<1>1. /\ outbox # << >> /\ View(b)!Next1.by = h /\ outbox' = Tail(outbox)
      /\ View(b)!Finished(h)
      /\ alive' = alive /\ opened' = opened /\ attached' = attached /\ casting' = casting
      /\ session' = session /\ target' = target
  BY DEF View!Resume
<1>2. ReadFor(b, h) /\ Unheard(b, h)
  BY <1>1, HeadIsOwn
<1>3. /\ View(b)!Exchange' /\ View(b)!Asked' = View(b)!Asked /\ handler'[h].at = "done"
      /\ \A k \in b.handlers : k # h => handler'[k] = handler[k]
  BY <1>1, <1>2, Through DEF View!IInv
<1>4. handler'[h].page = handler[h].page
  BY <1>1 DEF View!Finished, View!IInv, View!Exchange, View!TypeOK
<1>5. View(b)!Outcome'
  BY <1>1, <1>3, <1>4, ViewGoesOn
<1>6. QED BY <1>3, <1>5 DEF View!IInv

\* A handler resumes, wherever it awaited.
LEMMA ResumeKeeps ==
  ASSUME NEW b, View(b)!ViewAssumption, View(b)!IInv, NEW h \in b.handlers, View(b)!Resume(h)
  PROVE  View(b)!IInv'
<1>1. View(b)!ReplyKnown(View(b)!Next1) /\ View(b)!Next1.by = h
          /\ View(b)!Next1.kind \in {"answer", "error", "pages"}
  <2>1. outbox # << >> /\ View(b)!Next1.by = h /\ outbox' = Tail(outbox)
    BY DEF View!Resume
  <2>2. QED BY <2>1, HeadIsOwn DEF View!Reply
<1>2. /\ handler[h].at \in {"list", "stop", "attach", "enable", "start"}
      /\ (View(b)!Next1.kind = "pages") <=> (handler[h].at = "list")
      /\ handler[h].at \in {"attach", "enable"} => View(b)!Next1.kind = "answer"
  BY <1>1 DEF View!ReplyKnown, View!Ops
<1>3. QED BY <1>1, <1>2, ListedKeeps, StoppedKeeps, AttachedKeeps, EnabledKeeps, EndKeeps

\* The end of the page shown is followed by a list of the pages.
LEMMA DestroyedKeeps ==
  ASSUME NEW b, View(b)!ViewAssumption, View(b)!IInv, View(b)!Destroyed
  PROVE  View(b)!IInv'
<1>1. /\ outbox' \in Seq(View(b)!Message) /\ View(b)!Next1 \in View(b)!Message
      /\ View(b)!Next1 \in View(b)!Said
      /\ View(b)!Said = View(b)!Said' \cup {View(b)!Next1}
      /\ \A m, n \in View(b)!Said' : View(b)!Precedes(outbox', m, n) =>
         View(b)!Precedes(outbox, m, n)
      /\ \A m \in View(b)!Said' : View(b)!Precedes(outbox, View(b)!Next1, m)
  BY Reads DEF View!IInv, View!Exchange, View!Destroyed
<1>2. /\ View(b)!EventKnown(View(b)!Next1) /\ \A m \in View(b)!Said' : View(b)!EventKnown(m)
           /\ View(b)!Follows(View(b)!Next1, m)
      /\ View(b)!Next1.kind = "destroyed" /\ outbox # << >>
      /\ alive' = alive /\ opened' = opened /\ attached' = attached /\ casting' = casting
      /\ session' = session /\ target' = target
  BY <1>1 DEF View!IInv, View!Outcome, View!Exchange, View!Ordered, View!Destroyed
<1>3. /\ target \in 0..b.pages /\ View(b)!Next1.page \in 1..opened
      /\ View(b)!Next1.page \notin alive
      /\ session \in b.handlers \cup {nobody}
  BY <1>2, Records DEF View!EventKnown, View!IInv, View!Exchange, View!TypeOK
<1>4. \A p \in 0..b.pages : View(b)!Event("created", p)' <=> View(b)!Event("created", p)
  <2>1. ASSUME NEW p \in 0..b.pages
        PROVE  View(b)!Event("created", p)' <=> View(b)!Event("created", p)
    <3>1. View(b)!Next1 # [kind |-> "created", by |-> nobody, page |-> p]
      BY <1>2
    <3>2. QED BY <1>1, <3>1 DEF View!Event
  <2>2. QED BY <2>1
<1>5. \A p \in 0..b.pages : View(b)!Event("destroyed", p)' => View(b)!Event("destroyed", p)
  BY <1>1 DEF View!Event
<1>6. View(b)!Ended => View(b)!Ended'
  BY <1>2, <1>3, <1>5 DEF View!Ended
<1>7. View(b)!Started
  BY <1>2 DEF View!IInv, View!Outcome, View!Begins
<1>8. CASE View(b)!Next1.page # target
  <2>1. toChrome' = toChrome /\ handler' = handler /\ View(b)!Asked' = View(b)!Asked
    BY <1>8 DEF View!Destroyed, View!Asked
  <2>2. View(b)!Exchange'
    <3>1. View(b)!TypeOK'
      BY <1>1, <1>2, <2>1 DEF View!IInv, View!Exchange, View!TypeOK
    <3>2. \A m \in View(b)!Said' : m \in View(b)!Said /\ (View(b)!Reply(m) => View(b)!ReplyKnown(m))
      BY <1>1 DEF View!IInv, View!Exchange
    <3>3. \A m \in View(b)!Said' : View(b)!Reply(m) => View(b)!ReplyKnown(m)'
      BY <1>2, <2>1, <3>2 DEF View!ReplyKnown
    <3>4. \A c \in View(b)!Asked' : View(b)!CommandKnown(c)'
      BY <2>1 DEF View!IInv, View!Exchange, View!CommandKnown
    <3>5. ASSUME NEW k \in b.handlers, handler'[k].at \in View(b)!Ops PROVE View(b)!Answered(k)'
      <4>1. View(b)!Answered(k)
        BY <2>1, <3>5 DEF View!IInv, View!Exchange
      <4>2. ~View(b)!Reply(View(b)!Next1)
        BY <1>2 DEF View!Reply
      <4>3. QED BY <1>1, <2>1, <4>1, <4>2 DEF View!Answered, View!Reply
    <3>6. \A j, k \in b.handlers : View(b)!InTurn(j, k) => View(b)!InTurn(j, k)'
      BY <2>1 DEF View!InTurn, View!Heading
    <3>7. View(b)!Ordered'
      <4>1. ASSUME NEW m \in View(b)!Said', NEW n \in View(b)!Said', View(b)!Precedes(outbox', m, n)
            PROVE  View(b)!Follows(m, n)'
        <5>1. View(b)!Follows(m, n) /\ (View(b)!Reply(m) =>
                                        m.by \in b.handlers) /\ (View(b)!Reply(n) =>
                                          n.by \in b.handlers)
          BY <1>1, <3>2, <4>1 DEF View!IInv, View!Exchange, View!Ordered, View!ReplyKnown
        <5>2. QED BY <3>6, <5>1 DEF View!Follows, View!Reply
      <4>2. \A c, d \in View(b)!Asked' : View(b)!Precedes(toChrome', c, d) =>
              View(b)!InTurn(c.by, d.by)'
        BY <2>1, <3>6, Records DEF View!IInv, View!Exchange, View!Ordered
      <4>3. ASSUME NEW m \in View(b)!Said', NEW c \in View(b)!Asked', View(b)!Reply(m)
            PROVE  View(b)!InTurn(m.by, c.by)'
        BY <2>1, <3>2, <3>6, <4>3, Records DEF View!IInv, View!Exchange, View!Ordered,
           View!ReplyKnown
      <4>4. \A j, k \in b.handlers : handler'[j].at = "stop" /\ handler'[k].at = "attach" =>
               handler'[k].page <= handler'[j].page
        BY <2>1 DEF View!IInv, View!Exchange, View!Ordered
      <4>5. QED BY <4>1, <4>2, <4>3, <4>4 DEF View!Ordered, View!Reply
    <3>8. QED BY <3>1, <3>3, <3>4, <3>5, <3>7 DEF View!Exchange, View!Reply
  <2>3. ASSUME NEW m \in View(b)!Said' PROVE View(b)!EventKnown(m)'
    <3>1. ASSUME NEW p \in alive, View(b)!Event("created", p) PROVE View(b)!Event("created", p)'
      BY <1>4, <3>1, Records DEF View!IInv, View!Exchange
    <3>2. QED BY <1>2, <2>1, <3>1 DEF View!EventKnown, View!Heading
  <2>4. \A k \in b.handlers : View(b)!HandlerKnown(k)'
    BY <1>2, <1>6, <2>1 DEF View!IInv, View!Outcome, View!HandlerKnown, View!Heading
  <2>5. View(b)!SessionKnown' /\ View(b)!Started'
    BY <1>2, <1>7, <2>1 DEF View!IInv, View!Outcome, View!SessionKnown, View!Started, View!Free
  <2>6. View(b)!Event("destroyed", target) => View(b)!Event("destroyed", target)'
    <3>1. View(b)!Next1 # [kind |-> "destroyed", by |-> nobody, page |-> target]
      BY <1>8
    <3>2. QED BY <1>1, <1>2, <3>1 DEF View!Event
  <2>7. ASSUME NEW n \in alive, \A p \in alive : p <= n PROVE View(b)!Coming(n)'
    <3>1. View(b)!Coming(n) /\ n \in 0..b.pages
      BY <2>7, Records DEF View!IInv, View!Outcome, View!NewestComes, View!Exchange
    <3>2. QED BY <1>2, <1>4, <1>7, <2>1, <2>6, <3>1 DEF View!Coming, View!Heading
  <2>8. View(b)!CastComes'
    BY <1>2, <2>1 DEF View!IInv, View!Outcome, View!CastComes, View!Heading
  <2>9. QED BY <1>2, <2>2, <2>3, <2>4, <2>5, <2>7, <2>8 DEF View!IInv, View!Outcome, View!Begins,
       View!NewestComes
<1>9. CASE View(b)!Next1.page = target
  <2>1. PICK h \in b.handlers : View(b)!Free(h) /\ View(b)!Await(h, "list", View(b)!NoPage, nobody)
    BY <1>9 DEF View!Destroyed
  <2>2. handler[h].at = "idle"
    BY <2>1 DEF View!Free, View!Idle
  <2>3. ReadFor(b, h)
    BY <1>1, <1>2 DEF ReadFor, View!Reply
  <2>4. Unheard(b, h)
    BY <1>1, <2>2, Records DEF Unheard, View!IInv, View!Exchange, View!CommandKnown,
       View!ReplyKnown, View!Ops
  <2>5. /\ View(b)!Exchange' /\ handler'[h] = [at |-> "list", page |-> View(b)!NoPage]
        /\ View(b)!Asked' =
           View(b)!Asked \cup {[op |-> "list", by |-> h, page |-> View(b)!NoPage, on |-> nobody]}
        /\ \A k \in b.handlers : k # h => handler'[k] = handler[k]
    <3>1. "list" \in View(b)!Ops /\ View(b)!NoPage \in 0..b.pages
      BY DEF View!Ops, View!NoPage, View!ViewAssumption
    <3>2. QED BY <1>2, <1>3, <2>1, <2>3, <2>4, <3>1, Awaiting DEF View!IInv
  <2>6. View(b)!Ended'
    <3>1. ~View(b)!Event("destroyed", target)'
      BY <1>2, <1>9 DEF View!Event, View!Follows
    <3>2. QED BY <1>2, <1>3, <1>9, <3>1 DEF View!Ended
  <2>7. session # nobody
    BY <1>3, <1>9 DEF View!IInv, View!Outcome, View!SessionKnown, View!NoPage
  <2>8. ASSUME NEW m \in View(b)!Said' PROVE View(b)!EventKnown(m)'
    <3>1. ASSUME NEW p \in alive, View(b)!Event("created", p) PROVE View(b)!Event("created", p)'
      BY <1>4, <3>1, Records DEF View!IInv, View!Exchange
    <3>2. \A k \in b.handlers : View(b)!Heading(k)' =>
            View(b)!Heading(k) /\ handler'[k] = handler[k]
      BY <2>5 DEF View!Heading
    <3>3. QED BY <1>2, <3>1, <3>2 DEF View!EventKnown
  <2>9. ASSUME NEW k \in b.handlers PROVE View(b)!HandlerKnown(k)'
    <3>1. CASE k = h
      BY <1>2, <2>5, <2>6, <2>7, <3>1 DEF View!HandlerKnown, View!Heading, View!Ops
    <3>2. CASE k # h
      <4>1. View(b)!HandlerKnown(k) /\ handler'[k] = handler[k]
        BY <2>5, <3>2 DEF View!IInv, View!Outcome
      <4>2. QED BY <1>2, <2>6, <4>1 DEF View!HandlerKnown, View!Heading
    <3>3. QED BY <3>1, <3>2
  <2>10. View(b)!SessionKnown'
    BY <1>2, <1>3, <2>2, <2>5, <2>7 DEF View!IInv, View!Outcome, View!SessionKnown
  <2>11. View(b)!Started'
    BY <2>5 DEF View!Started, View!Free, View!Idle
  <2>12. \A n \in alive : View(b)!Coming(n)'
    BY <2>5 DEF View!Coming
  <2>13. View(b)!CastComes'
    BY <1>2, <1>3, <1>9 DEF View!CastComes
  <2>14. QED BY <1>2, <2>5, <2>8, <2>9, <2>10, <2>11, <2>12, <2>13 DEF View!IInv, View!Outcome,
       View!Begins, View!NewestComes
<1>10. QED BY <1>8, <1>9

-----------------------------------------------------------------------------
\* An event takes its place after all that was said.
LEMMA EventsKeep ==
  ASSUME NEW b, View(b)!ViewAssumption, View(b)!IInv, NEW e \in View(b)!Message,
         ~View(b)!Reply(e), outbox' = Append(outbox, e),
         \A m \in View(b)!Said : View(b)!Follows(m, e),
         View(b)!TypeOK', toChrome' = toChrome, handler' = handler, attached' = attached
  PROVE  View(b)!Exchange' /\ View(b)!Asked' = View(b)!Asked /\ outbox' # << >>
<1>1. View(b)!TypeOK /\ View(b)!Ordered
  BY DEF View!IInv, View!Exchange
<1>2. /\ outbox' # << >> /\ View(b)!Said' = View(b)!Said \cup {e}
      /\ \A m, n \in View(b)!Said' : View(b)!Precedes(outbox', m, n) =>
            (m \in View(b)!Said /\ n \in View(b)!Said
             /\ View(b)!Precedes(outbox, m, n)) \/ (m \in View(b)!Said /\ n = e)
  BY <1>1, Says
<1>3. View(b)!Asked' = View(b)!Asked
  BY DEF View!Asked
<1>4. \A j, k \in b.handlers : View(b)!InTurn(j, k) => View(b)!InTurn(j, k)'
  BY DEF View!InTurn, View!Heading
<1>5. \A m \in View(b)!Said : View(b)!Reply(m) => m.by \in b.handlers /\ View(b)!ReplyKnown(m)
  BY DEF View!IInv, View!Exchange, View!ReplyKnown
<1>6. ASSUME NEW m \in View(b)!Said', NEW n \in View(b)!Said', View(b)!Precedes(outbox', m, n)
      PROVE  View(b)!Follows(m, n)'
  <2>1. View(b)!Follows(m, n)
    BY <1>1, <1>2, <1>6 DEF View!Ordered
  <2>2. View(b)!Reply(m) /\ View(b)!Reply(n) => View(b)!InTurn(m.by, n.by)'
    BY <1>2, <1>4, <1>5, <2>1 DEF View!Follows
  <2>3. QED BY <2>1, <2>2 DEF View!Follows, View!Reply
<1>7. \A c, d \in View(b)!Asked' : View(b)!Precedes(toChrome', c, d) => View(b)!InTurn(c.by, d.by)'
  BY <1>1, <1>3, <1>4, Records DEF View!Ordered
<1>8. \A m \in View(b)!Said', c \in View(b)!Asked' : View(b)!Reply(m) => View(b)!InTurn(m.by, c.by)'
  BY <1>1, <1>2, <1>3, <1>4, <1>5, Records DEF View!Ordered
<1>9. \A j, k \in b.handlers : handler'[j].at = "stop" /\ handler'[k].at = "attach" =>
         handler'[k].page <= handler'[j].page
  BY <1>1 DEF View!Ordered
<1>10. View(b)!Ordered'
  BY <1>6, <1>7, <1>8, <1>9 DEF View!Ordered, View!Reply
<1>11. \A c \in View(b)!Asked' : View(b)!CommandKnown(c)'
  BY <1>3 DEF View!IInv, View!Exchange, View!CommandKnown
<1>12. \A m \in View(b)!Said' : View(b)!Reply(m) => View(b)!ReplyKnown(m)'
  BY <1>2, <1>5 DEF View!ReplyKnown
<1>13. \A k \in b.handlers : handler'[k].at \in View(b)!Ops => View(b)!Answered(k)'
  BY <1>2, <1>3 DEF View!IInv, View!Exchange, View!Answered, View!Reply
<1>14. QED BY <1>2, <1>3, <1>10, <1>11, <1>12, <1>13 DEF View!Exchange, View!Reply

\* A page opens another one.
LEMMA PopupKeeps ==
  ASSUME NEW b, View(b)!ViewAssumption, View(b)!IInv, View(b)!OpenPopup
  PROVE  View(b)!IInv'
<1> DEFINE new == opened + 1
           e == [kind |-> "created", by |-> nobody, page |-> new]
<1>1. /\ opened' = new /\ alive' = alive \cup {new} /\ outbox' = Append(outbox, e)
      /\ attached' = attached /\ casting' = casting /\ toChrome' = toChrome /\ handler' = handler
      /\ session' = session /\ target' = target /\ View(b)!Started /\ alive # {}
      /\ opened < b.pages
  BY DEF View!OpenPopup
<1>2. /\ opened \in Nat /\ new \in 1..b.pages /\ new \in 0..b.pages /\ new \notin alive
      /\ \A p \in 0..opened : p < new /\ p # new
  BY <1>1, Records DEF View!IInv, View!Exchange
<1>3. e \in View(b)!Message /\ ~View(b)!Reply(e) /\ e.kind = "created" /\ e.page = new
          /\ e.by = nobody
  BY <1>2 DEF View!Message, View!Reply
<1>4. \A m \in View(b)!Said : m.kind \in {"created", "pages"} =>
        m.page \in 0..opened /\ m.page < new
  BY <1>2, Records DEF View!IInv, View!Exchange, View!Outcome, View!EventKnown, View!NoPage
<1>5. target \in 0..opened /\ target < new
  BY <1>2 DEF View!IInv, View!Exchange, View!TypeOK, View!Outcome, View!SessionKnown, View!NoPage
<1>6. \A k \in b.handlers : View(b)!Heading(k) => handler[k].page \in alive /\ handler[k].page < new
  BY <1>2, Records DEF View!IInv, View!Exchange, View!Outcome, View!HandlerKnown, View!Heading,
     View!Ops
<1> HIDE DEF e
<1>7. View(b)!TypeOK'
  <2>1. outbox' \in Seq(View(b)!Message)
    BY <1>1, <1>3, Says DEF View!IInv, View!Exchange
  <2>2. opened' \in 1..b.pages /\ alive' \subseteq 1..opened'
    BY <1>1, <1>2, Records DEF View!IInv, View!Exchange
  <2> HIDE DEF new
  <2>3. QED BY <1>1, <2>1, <2>2 DEF View!IInv, View!Exchange, View!TypeOK
<1> HIDE DEF new
<1>8. View(b)!Exchange' /\ View(b)!Asked' = View(b)!Asked /\ View(b)!Said' = View(b)!Said \cup {e}
  <2>1. \A m \in View(b)!Said : View(b)!Follows(m, e)
    BY <1>3, <1>4 DEF View!Follows
  <2>2. QED BY <1>1, <1>3, <1>7, <2>1, EventsKeep, Says DEF View!IInv, View!Exchange
<1>9. \A p \in 0..b.pages : View(b)!Event("created", p) \/ p = new => View(b)!Event("created", p)'
  BY <1>8 DEF View!Event, e
<1>10. \A p \in 0..b.pages : View(b)!Event("destroyed", p)' <=> View(b)!Event("destroyed", p)
  <2>1. \A p \in 0..b.pages : e # [kind |-> "destroyed", by |-> nobody, page |-> p]
    BY <1>3
  <2>2. QED BY <1>8, <2>1 DEF View!Event
<1>11. target \in 0..b.pages /\ (target \in alive' <=> target \in alive)
  BY <1>1, <1>2, <1>5, Records DEF View!IInv, View!Exchange, View!TypeOK
<1>12. View(b)!Ended => View(b)!Ended'
  BY <1>1, <1>10, <1>11 DEF View!Ended
<1>13. ASSUME NEW m \in View(b)!Said' PROVE View(b)!EventKnown(m)'
  <2>1. CASE m = e
    BY <1>1, <1>3, <1>5, <1>6, <2>1 DEF View!EventKnown, View!Heading
  <2>2. CASE m \in View(b)!Said
    <3>1. View(b)!EventKnown(m)
      BY <2>2 DEF View!IInv, View!Outcome
    <3>2. m.kind = "destroyed" => m.page \in 1..opened' /\ m.page \notin alive'
      BY <1>1, <1>2, <3>1 DEF View!EventKnown, new
    <3>3. m.kind = "pages" => /\ m.page # View(b)!NoPage /\ m.page \in alive'
                              /\ \A p \in alive' : p > m.page => View(b)!Event("created", p)'
      BY <1>1, <1>2, <1>9, <3>1, Records DEF View!EventKnown, View!IInv, View!Exchange
    <3>4. QED BY <1>1, <1>11, <3>1, <3>2, <3>3 DEF View!EventKnown, View!Heading
  <2>3. QED BY <1>8, <2>1, <2>2
<1>14. ASSUME NEW k \in b.handlers PROVE View(b)!HandlerKnown(k)'
  BY <1>1, <1>11, <1>12 DEF View!IInv, View!Outcome, View!HandlerKnown, View!Heading
<1>15. View(b)!SessionKnown'
  BY <1>1, <1>2 DEF View!IInv, View!Outcome, View!SessionKnown, new
<1>16. View(b)!Started'
  BY <1>1 DEF View!Started, View!Free
<1>17. ASSUME NEW n \in alive', \A p \in alive' : p <= n PROVE View(b)!Coming(n)'
  <2>1. CASE n = new
    BY <1>2, <1>9, <2>1 DEF View!Coming
  <2>2. CASE n # new
    <3>1. n \in alive /\ n \in 0..opened
      BY <1>1, <2>2, Records DEF View!IInv, View!Exchange
    <3>2. n < new /\ new <= n
      BY <1>1, <1>2, <1>17, <3>1
    <3>3. QED BY <1>2, <3>1, <3>2
  <2>3. QED BY <2>1, <2>2
<1>18. View(b)!CastComes'
  BY <1>1, <1>8, <1>11 DEF View!IInv, View!Outcome, View!CastComes, View!Heading
<1>19. QED BY <1>8, <1>13, <1>14, <1>15, <1>16, <1>17, <1>18 DEF View!IInv, View!Outcome, View!Begins,
     View!NewestComes

\* A page that closes is one that nobody is on his way to.
LEMMA CloseKeeps ==
  ASSUME NEW b, View(b)!ViewAssumption, View(b)!IInv, NEW q \in 1..b.pages,
         View(b)!ClosePage(q)
  PROVE  View(b)!IInv'
<1> DEFINE e == [kind |-> "destroyed", by |-> nobody, page |-> q]
<1>1. /\ q \in alive /\ View(b)!Started /\ ~View(b)!Approached(q)
      /\ alive' = alive \ {q} /\ casting' = {s \in casting : attached[s] # q}
      /\ outbox' = Append(outbox, e)
      /\ opened' = opened /\ attached' = attached /\ toChrome' = toChrome /\ handler' = handler
      /\ session' = session /\ target' = target
  BY DEF View!ClosePage
<1>2. e \in View(b)!Message /\ ~View(b)!Reply(e) /\ e.kind = "destroyed" /\ e.page = q
          /\ e.by = nobody
  BY DEF View!Message, View!Reply, View!ViewAssumption
<1>3. /\ ~View(b)!Event("created", q)
      /\ \A k \in b.handlers : handler[k].at \in View(b)!Ops =>
         handler[k].at # "list" /\ handler[k].page # q
  BY <1>1 DEF View!Approached, View!Ops
<1> HIDE DEF e
<1>4. View(b)!TypeOK'
  <2>1. outbox' \in Seq(View(b)!Message)
    BY <1>1, <1>2, Says DEF View!IInv, View!Exchange
  <2>2. QED BY <1>1, <2>1 DEF View!IInv, View!Exchange, View!TypeOK
<1>5. View(b)!Exchange' /\ View(b)!Asked' = View(b)!Asked /\ View(b)!Said' = View(b)!Said \cup {e}
  <2>1. \A m \in View(b)!Said : View(b)!Follows(m, e)
    BY <1>1, <1>2 DEF View!Follows, View!IInv, View!Outcome, View!EventKnown
  <2>2. QED BY <1>1, <1>2, <1>4, <2>1, EventsKeep, Says DEF View!IInv, View!Exchange
<1>6. /\ \A p \in 0..b.pages : View(b)!Event("created", p)' <=> View(b)!Event("created", p)
      /\ \A p \in 0..b.pages : View(b)!Event("destroyed", p)' <=> View(b)!Event("destroyed", p)
           \/ p = q
  <2>1. \A p \in 0..b.pages : e # [kind |-> "created", by |-> nobody, page |-> p]
    BY <1>2
  <2>2. \A p \in 0..b.pages : e = [kind |-> "destroyed", by |-> nobody, page |-> p] <=> p = q
    BY <1>2 DEF e
  <2>3. QED BY <1>5, <2>1, <2>2 DEF View!Event
<1>7. target \in 0..b.pages /\ q \in 0..b.pages /\ target \in Nat
  BY DEF View!IInv, View!Exchange, View!TypeOK, View!ViewAssumption
<1>8. View(b)!Ended => View(b)!Ended'
  BY <1>1, <1>6, <1>7 DEF View!Ended
<1>9. \A m \in View(b)!Said : m.kind # "pages"
  BY <1>3 DEF View!IInv, View!Exchange, View!ReplyKnown, View!Reply
<1>10. ASSUME NEW m \in View(b)!Said' PROVE View(b)!EventKnown(m)'
  <2>1. CASE m = e
    BY <1>1, <1>2, <2>1, Records DEF View!EventKnown, View!IInv, View!Exchange
  <2>2. CASE m \in View(b)!Said
    <3>1. View(b)!EventKnown(m) /\ m.kind # "pages" /\ m \in View(b)!Message
      BY <1>9, <2>2, Records DEF View!IInv, View!Outcome, View!Exchange
    <3>2. m.kind = "created" => m.page # q
      <4>1. SUFFICES ASSUME m.kind = "created", m.page = q PROVE FALSE
        OBVIOUS
      <4>2. m = [kind |-> "created", by |-> nobody, page |-> q]
        BY <3>1, <4>1 DEF View!EventKnown, View!Message
      <4>3. QED BY <1>3, <2>2, <4>2 DEF View!Event
    <3>3. QED BY <1>1, <3>1, <3>2 DEF View!EventKnown, View!Heading
  <2>3. QED BY <1>5, <2>1, <2>2
<1>11. ASSUME NEW k \in b.handlers PROVE View(b)!HandlerKnown(k)'
  <2>1. View(b)!HandlerKnown(k)
    BY DEF View!IInv, View!Outcome
  <2>2. QED BY <1>1, <1>3, <1>8, <2>1 DEF View!HandlerKnown, View!Heading, View!Ops
<1>12. View(b)!SessionKnown' /\ View(b)!Started'
  BY <1>1 DEF View!IInv, View!Outcome, View!SessionKnown, View!Started, View!Free
<1>13. ASSUME NEW n \in alive', \A p \in alive' : p <= n PROVE View(b)!Coming(n)'
  <2>1. n \in alive /\ n \in 0..b.pages /\ n \in Nat /\ n # q /\ q \in Nat
    BY <1>1, Records DEF View!IInv, View!Exchange
  <2>2. CASE q < n
    <3>1. View(b)!Coming(n)
      <4>1. \A p \in alive : p <= n
        BY <1>1, <1>13, <2>1, <2>2
      <4>2. QED BY <2>1, <4>1 DEF View!IInv, View!Outcome, View!NewestComes
    <3>2. QED BY <1>1, <1>6, <1>7, <2>1, <3>1 DEF View!Coming, View!Heading
  <2>3. CASE n < q
    <3>1. View(b)!Coming(q)
      <4>1. \A p \in alive : p <= q
        BY <1>1, <1>13, <2>1, <2>3, Records DEF View!IInv, View!Exchange
      <4>2. QED BY <1>1, <4>1 DEF View!IInv, View!Outcome, View!NewestComes
    <3>2. ~(\E k \in b.handlers : handler[k].at = "list" \/ (View(b)!Heading(k)
                                                             /\ handler[k].page = q))
      BY <1>3 DEF View!Heading, View!Ops
    <3>3. target = q \/ (View(b)!Event("destroyed", target) /\ q < target)
      BY <1>1, <1>3, <3>1, <3>2 DEF View!Coming
    <3>4. View(b)!Event("destroyed", target)' /\ n < target
      BY <1>1, <1>6, <1>7, <2>1, <2>3, <3>3
    <3>5. QED BY <1>1, <3>4 DEF View!Coming
  <2>4. QED BY <2>1, <2>2, <2>3
<1>14. View(b)!CastComes'
  <2>1. ASSUME target \in alive' PROVE session \in casting => session \in casting'
    <3>1. session # nobody
      BY <1>7, <2>1, <1>1, Records DEF View!IInv, View!Exchange, View!Outcome, View!SessionKnown,
         View!NoPage
    <3>2. attached[session] # q
      BY <1>1, <2>1, <3>1 DEF View!IInv, View!Outcome, View!SessionKnown
    <3>3. QED BY <1>1, <3>2
  <2>2. QED BY <1>1, <1>5, <2>1 DEF View!IInv, View!Outcome, View!CastComes, View!Heading
<1>15. QED BY <1>5, <1>10, <1>11, <1>12, <1>13, <1>14 DEF View!IInv, View!Outcome, View!Begins,
     View!NewestComes

\* What the browser answers to a command c.
Answer(b, c) ==
  [kind |-> IF c.op = "list" THEN "pages"
            ELSE IF c.op \in {"attach", "enable"}
                \/ View(b)!Living(c.on) THEN "answer" ELSE "error",
   by |-> c.by, page |-> IF c.op = "list" THEN View(b)!Newest(alive) ELSE View(b)!NoPage]

\* What the browser does for a command and what it answers.
LEMMA Serves ==
  ASSUME NEW b, View(b)!ViewAssumption, View(b)!IInv, View(b)!Serve
  PROVE  LET c == Head(toChrome) IN
         /\ outbox' = Append(outbox, Answer(b, c))
         /\ c.op = "attach" => attached' = [attached EXCEPT ![c.by] = c.page]
         /\ c.op # "attach" => attached' = attached
         /\ c.op = "start" /\ View(b)!Living(c.on) => casting' = casting \cup {c.on}
         /\ c.op = "stop" => casting' \in {casting, casting \ {c.on}}
         /\ c.op \notin {"start", "stop"} \/ (c.op = "start" /\ ~View(b)!Living(c.on)) =>
            casting' = casting
<1> DEFINE c == Head(toChrome)
           ok == CASE c.op = "attach" -> c.page \in alive
                   [] c.op = "list"   -> TRUE
                   [] OTHER           -> View(b)!Living(c.on)
<1>1. c \in View(b)!Asked /\ c.op \in View(b)!Ops /\ c.by \in b.handlers
  BY Takes, Records DEF View!Serve, View!IInv, View!Exchange
<1>2. View(b)!CommandKnown(c) /\ View(b)!HandlerKnown(c.by)
  BY <1>1 DEF View!IInv, View!Exchange, View!Outcome
<1>3. c.op = "attach" => c.page \in alive
  BY <1>2 DEF View!CommandKnown, View!HandlerKnown, View!Ops
<1>4. c.op = "enable" => View(b)!Living(c.on)
  BY <1>1, <1>2 DEF View!CommandKnown, View!HandlerKnown, View!Living, View!Ops,
     View!ViewAssumption
<1>5. /\ outbox' = Append(outbox,
             [kind |-> IF c.op = "list" THEN "pages" ELSE IF ok THEN "answer" ELSE "error",
              by |-> c.by, page |-> IF c.op =
                "list" THEN View(b)!Newest(alive) ELSE View(b)!NoPage])
      /\ attached' = IF ok /\ c.op = "attach" THEN [attached EXCEPT ![c.by] = c.page] ELSE attached
      /\ casting' = IF ~ok THEN casting
                    ELSE CASE c.op = "start" -> casting \cup {c.on}
                           [] c.op = "stop"  -> casting \ {c.on}
                           [] OTHER          -> casting
  BY DEF View!Serve
<1>6. /\ c.op = "attach" => ok
      /\ c.op = "enable" => ok
      /\ c.op \in {"start", "stop"} => (ok <=> View(b)!Living(c.on))
  BY <1>3, <1>4 DEF View!Living
<1> HIDE DEF ok
<1>7. outbox' = Append(outbox, Answer(b, c))
  BY <1>1, <1>5, <1>6 DEF Answer, View!Ops
<1>8. QED BY <1>5, <1>6, <1>7

\* The browser runs a command.
LEMMA ServeKeeps ==
  ASSUME NEW b, View(b)!ViewAssumption, View(b)!IInv, View(b)!Serve
  PROVE  View(b)!IInv'
<1> DEFINE c == Head(toChrome)
           e == Answer(b, c)
<1>1. /\ toChrome' \in Seq(View(b)!Command) /\ c \in View(b)!Command /\ c \in View(b)!Asked
      /\ View(b)!Asked = View(b)!Asked' \cup {c}
      /\ \A d, f \in View(b)!Asked' : View(b)!Precedes(toChrome', d, f) =>
         View(b)!Precedes(toChrome, d, f)
      /\ \A d \in View(b)!Asked' : View(b)!Precedes(toChrome, c, d)
  BY Takes DEF View!Serve, View!IInv, View!Exchange
<1>2. /\ alive' = alive /\ opened' = opened /\ handler' = handler
      /\ session' = session /\ target' = target
  BY DEF View!Serve
<1>3. /\ c.op \in View(b)!Ops /\ c.by \in b.handlers /\ c.page \in 0..b.pages
      /\ c.on \in b.handlers \cup {nobody}
      /\ View(b)!CommandKnown(c) /\ View(b)!HandlerKnown(c.by) /\ c.by # nobody
  BY <1>1, Records DEF View!IInv, View!Exchange, View!Outcome, View!ViewAssumption
<1>4. /\ alive # {} =>
         View(b)!Newest(alive) \in alive /\ \A p \in alive : p <= View(b)!Newest(alive)
      /\ alive = {} => View(b)!Newest(alive) = View(b)!NoPage
      /\ View(b)!Newest(alive) \in 0..b.pages /\ (alive # {} =>
                                                  View(b)!Newest(alive) # View(b)!NoPage)
  <2>1. alive # {} => View(b)!Newest(alive) \in alive /\ \A p \in alive : p <= View(b)!Newest(alive)
    BY Records, NewestIs DEF View!IInv, View!Exchange
  <2>2. alive = {} => View(b)!Newest(alive) = View(b)!NoPage
    BY DEF View!Newest
  <2>3. QED BY <2>1, <2>2, Records DEF View!IInv, View!Exchange, View!NoPage
<1>5. e \in View(b)!Message /\ View(b)!Reply(e) /\ e.by = c.by
  BY <1>3, <1>4 DEF Answer, View!Message, View!Reply, View!NoPage, View!ViewAssumption
<1>6. /\ e.kind = "pages" <=> c.op = "list"
      /\ c.op = "list" => e.page = View(b)!Newest(alive)
      /\ c.op \in {"attach", "enable"} => e.kind = "answer"
  BY DEF Answer
<1>7. /\ outbox' \in Seq(View(b)!Message) /\ outbox' # << >>
      /\ View(b)!Said' = View(b)!Said \cup {e}
      /\ \A m, n \in View(b)!Said' : View(b)!Precedes(outbox', m, n) =>
            (m \in View(b)!Said /\ n \in View(b)!Said
             /\ View(b)!Precedes(outbox, m, n)) \/ (m \in View(b)!Said /\ n = e)
  BY <1>5, Says, Serves DEF View!IInv, View!Exchange
<1>8. /\ c.op = "attach" => attached' = [attached EXCEPT ![c.by] = c.page]
      /\ c.op # "attach" => attached' = attached
      /\ c.op = "start" /\ View(b)!Living(c.on) => casting' = casting \cup {c.on}
      /\ c.op = "stop" => casting' \in {casting, casting \ {c.on}}
      /\ c.op \notin {"start", "stop"} \/ (c.op = "start" /\ ~View(b)!Living(c.on)) =>
         casting' = casting
  BY Serves
<1> HIDE DEF c, e
<1>9. \A k \in b.handlers : k # c.by \/ handler[k].at # "attach" => attached'[k] = attached[k]
  BY <1>3, <1>8 DEF View!CommandKnown, View!IInv, View!Exchange, View!TypeOK
<1>10. View(b)!TypeOK'
  <2>1. attached' \in [b.handlers -> 0..b.pages]
    BY <1>3, <1>8 DEF View!IInv, View!Exchange, View!TypeOK
  <2>2. casting' \subseteq b.handlers
    BY <1>3, <1>8 DEF View!IInv, View!Exchange, View!TypeOK, View!Living, View!Ops
  <2>3. QED BY <1>1, <1>2, <1>7, <2>1, <2>2 DEF View!IInv, View!Exchange, View!TypeOK
<1>11. \A j, k \in b.handlers : View(b)!InTurn(j, k) => View(b)!InTurn(j, k)'
  BY <1>2 DEF View!InTurn, View!Heading
<1>12. \A m \in View(b)!Said : View(b)!Reply(m) =>
         m.by \in b.handlers /\ View(b)!ReplyKnown(m) /\ View(b)!InTurn(m.by, c.by)
  BY <1>1 DEF View!IInv, View!Exchange, View!ReplyKnown, View!Ordered
<1>13. ASSUME NEW m \in View(b)!Said PROVE View(b)!Follows(m, e)
  <2>1. m.kind = "created" => m.page \in alive
    BY DEF View!IInv, View!Outcome, View!EventKnown
  <2>2. e.kind = "pages" /\ m.kind = "created" => m.page <= e.page
    BY <1>4, <1>6, <2>1
  <2>3. QED BY <1>5, <1>12, <2>2 DEF View!Follows, View!Reply
<1>14. View(b)!Ordered'
  <2>1. ASSUME NEW m \in View(b)!Said', NEW n \in View(b)!Said', View(b)!Precedes(outbox', m, n)
        PROVE  View(b)!Follows(m, n)'
    <3>1. View(b)!Follows(m, n)
      BY <1>7, <1>13, <2>1 DEF View!IInv, View!Exchange, View!Ordered
    <3>2. View(b)!Reply(m) /\ View(b)!Reply(n) => View(b)!InTurn(m.by, n.by)'
      BY <1>3, <1>5, <1>7, <1>11, <1>12, <3>1 DEF View!Follows
    <3>3. QED BY <3>1, <3>2 DEF View!Follows, View!Reply
  <2>2. \A d, f \in View(b)!Asked' : View(b)!Precedes(toChrome', d, f) =>
          View(b)!InTurn(d.by, f.by)'
    BY <1>1, <1>11, Records DEF View!IInv, View!Exchange, View!Ordered
  <2>3. ASSUME NEW m \in View(b)!Said', NEW d \in View(b)!Asked', View(b)!Reply(m)
        PROVE  View(b)!InTurn(m.by, d.by)'
    <3>1. d \in View(b)!Asked /\ d.by \in b.handlers
      BY <1>1, Records DEF View!IInv, View!Exchange
    <3>2. CASE m = e
      BY <1>1, <1>3, <1>5, <1>11, <3>1, <3>2 DEF View!IInv, View!Exchange, View!Ordered
    <3>3. CASE m \in View(b)!Said
      BY <1>11, <1>12, <2>3, <3>1, <3>3 DEF View!IInv, View!Exchange, View!Ordered
    <3>4. QED BY <1>7, <3>2, <3>3
  <2>4. \A j, k \in b.handlers : handler'[j].at = "stop" /\ handler'[k].at = "attach" =>
           handler'[k].page <= handler'[j].page
    BY <1>2 DEF View!IInv, View!Exchange, View!Ordered
  <2>5. QED BY <2>1, <2>2, <2>3, <2>4 DEF View!Ordered, View!Reply
<1>15. \A d \in View(b)!Asked' : View(b)!CommandKnown(d)'
  BY <1>1, <1>2 DEF View!IInv, View!Exchange, View!CommandKnown
<1>16. ASSUME NEW m \in View(b)!Said', View(b)!Reply(m) PROVE View(b)!ReplyKnown(m)'
  <2>1. CASE m = e
    <3>1. handler[c.by].at = c.op /\ (c.op = "attach" => c.page = handler[c.by].page)
      BY <1>3 DEF View!CommandKnown
    <3>2. c.op = "attach" => attached'[c.by] = c.page
      BY <1>3, <1>8 DEF View!IInv, View!Exchange, View!TypeOK
    <3>3. QED BY <1>2, <1>3, <1>5, <1>6, <2>1, <3>1, <3>2 DEF View!ReplyKnown
  <2>2. CASE m \in View(b)!Said
    BY <1>2, <1>9, <1>12, <1>16, <2>2 DEF View!ReplyKnown, View!InTurn
  <2>3. QED BY <1>7, <2>1, <2>2
<1>17. ASSUME NEW k \in b.handlers, handler'[k].at \in View(b)!Ops PROVE View(b)!Answered(k)'
  <2>1. View(b)!Answered(k)
    BY <1>2, <1>17 DEF View!IInv, View!Exchange
  <2>2. QED BY <1>1, <1>5, <1>7, <2>1 DEF View!Answered, View!Reply
<1>18. View(b)!Exchange'
  BY <1>10, <1>14, <1>15, <1>16, <1>17 DEF View!Exchange, View!Reply
<1>19. \A sort \in {"created", "destroyed"},
         p \in 0..b.pages : View(b)!Event(sort, p)' <=> View(b)!Event(sort, p)
  <2>1. \A sort \in {"created", "destroyed"}, p \in 0..b.pages :
           e # [kind |-> sort, by |-> nobody, page |-> p]
    BY <1>3, <1>5
  <2>2. QED BY <1>7, <2>1 DEF View!Event
<1>20. target \in 0..b.pages /\ View(b)!Started
  BY <1>3 DEF View!IInv, View!Exchange, View!TypeOK, View!CommandKnown, View!Ops, View!Started,
     View!Free, View!Idle
<1>21. View(b)!Ended => View(b)!Ended'
  BY <1>2, <1>19, <1>20 DEF View!Ended
<1>22. ASSUME NEW m \in View(b)!Said' PROVE View(b)!EventKnown(m)'
  <2>1. CASE m = e
    <3>1. \A k \in b.handlers : View(b)!Heading(k) => handler[k].page \in alive
      BY DEF View!IInv, View!Outcome, View!HandlerKnown, View!Heading, View!Ops
    <3>2. \A p \in alive : ~(p > View(b)!Newest(alive))
      BY <1>4, Records DEF View!IInv, View!Exchange
    <3>3. QED BY <1>2, <1>4, <1>5, <1>6, <2>1, <3>1, <3>2 DEF View!EventKnown, View!Heading, View!Reply
  <2>2. CASE m \in View(b)!Said
    <3>1. View(b)!EventKnown(m)
      BY <2>2 DEF View!IInv, View!Outcome
    <3>2. \A p \in alive : View(b)!Event("created", p) => View(b)!Event("created", p)'
      BY <1>19, Records DEF View!IInv, View!Exchange
    <3>3. QED BY <1>2, <3>1, <3>2 DEF View!EventKnown, View!Heading
  <2>3. QED BY <1>7, <2>1, <2>2
<1>23. ASSUME NEW k \in b.handlers PROVE View(b)!HandlerKnown(k)'
  <2>1. View(b)!HandlerKnown(k)
    BY DEF View!IInv, View!Outcome
  <2>2. QED BY <1>2, <1>9, <1>21, <2>1 DEF View!HandlerKnown, View!Heading
<1>24. View(b)!SessionKnown' /\ View(b)!Started'
  <2>1. session # nobody => session \in b.handlers /\ handler[session].at # "attach"
    BY DEF View!IInv, View!Exchange, View!Outcome, View!TypeOK, View!SessionKnown
  <2>2. QED BY <1>2, <1>9, <1>20, <2>1 DEF View!IInv, View!Outcome, View!SessionKnown, View!Started,
       View!Free
<1>25. ASSUME NEW n \in alive, \A p \in alive : p <= n PROVE View(b)!Coming(n)'
  <2>1. View(b)!Coming(n) /\ n \in 0..b.pages
    BY <1>25, Records DEF View!IInv, View!Outcome, View!NewestComes, View!Exchange
  <2>2. QED BY <1>2, <1>19, <1>20, <2>1 DEF View!Coming, View!Heading
<1>26. View(b)!CastComes'
  <2>1. SUFFICES ASSUME target \in alive
        PROVE  \/ session \in casting' \/ handler[session].at = "enable"
               \/ \E h \in b.handlers : View(b)!Heading(h)
               \/ \E d \in View(b)!Asked' : d.op = "start" /\ d.on = session
    BY <1>2 DEF View!CastComes, View!Heading
  <2>2. session # nobody /\ View(b)!Living(session)
    BY <1>20, <2>1, Records DEF View!IInv, View!Exchange, View!Outcome, View!SessionKnown,
       View!NoPage, View!Living
  <2>3. CASE c.op = "stop"
    BY <1>3, <2>3 DEF View!CommandKnown, View!Heading
  <2>4. CASE c.op = "start" /\ c.on = session
    BY <1>8, <2>2, <2>4
  <2>5. CASE c.op # "stop" /\ ~(c.op = "start" /\ c.on = session)
    <3>1. session \in casting => session \in casting'
      BY <1>8, <2>5
    <3>2. \A d \in View(b)!Asked : d.op = "start" /\ d.on = session => d \in View(b)!Asked'
      BY <1>1, <2>5
    <3>3. QED BY <2>1, <3>1, <3>2 DEF View!IInv, View!Outcome, View!CastComes
  <2>6. QED BY <2>3, <2>4, <2>5
<1>27. QED BY <1>2, <1>18, <1>22, <1>23, <1>24, <1>25, <1>26 DEF View!IInv, View!Outcome, View!Begins,
     View!NewestComes

\* The initial states.
LEMMA ViewStarts ==
  ASSUME NEW b
  PROVE  View(b)!ViewAssumption /\ View(b)!Init => View(b)!IInv
<1> SUFFICES ASSUME View(b)!ViewAssumption, View(b)!Init PROVE View(b)!IInv
  OBVIOUS
<1>1. /\ alive = {View(b)!First} /\ opened = 1
      /\ attached = [h \in b.handlers |-> View(b)!NoPage] /\ casting = {}
      /\ toChrome = << >> /\ outbox = << >> /\ handler = [h \in b.handlers |-> View(b)!Idle]
      /\ session = nobody /\ target = View(b)!NoPage
  BY DEF View!Init
<1>2. View(b)!Said = {} /\ View(b)!Asked = {} /\ ~View(b)!Started
  BY <1>1 DEF View!Said, View!Asked, View!Started, View!Free
<1>3. View(b)!TypeOK
  BY <1>1 DEF View!TypeOK, View!ViewAssumption, View!First, View!NoPage, View!Idle
<1>4. \A h \in b.handlers : handler[h].at = "idle"
  BY <1>1 DEF View!Idle
<1>5. View(b)!Exchange
  BY <1>2, <1>3, <1>4 DEF View!Exchange, View!Ordered, View!Ops
<1>6. View(b)!Outcome
  BY <1>1, <1>2, <1>4
     DEF View!Outcome, View!HandlerKnown, View!Heading, View!Ops, View!SessionKnown, View!Begins,
       View!NewestComes, View!Coming, View!CastComes, View!First, View!NoPage
<1>7. QED BY <1>5, <1>6 DEF View!IInv

\* Every step.
LEMMA ViewSteps ==
  ASSUME NEW b, View(b)!ViewAssumption, View(b)!IInv, View(b)!Next
  PROVE  View(b)!IInv'
BY StartKeeps, ResumeKeeps, CloseKeeps, PopupKeeps, ServeKeeps, CreatedKeeps,
   DestroyedKeeps DEF View!Next

\* And what leaves the view alone.
LEMMA ViewStays ==
  ASSUME NEW b
  PROVE  View(b)!ViewAssumption /\ View(b)!IInv /\ [View(b)!Next]_(View(b)!vars) => View(b)!IInv'
<1> SUFFICES ASSUME View(b)!ViewAssumption, View(b)!IInv, [View(b)!Next]_(View(b)!vars)
             PROVE  View(b)!IInv'
  OBVIOUS
<1>1. CASE View(b)!Next
  BY <1>1, ViewSteps
<1>2. CASE UNCHANGED View(b)!vars
  <2>1. /\ alive' = alive /\ opened' = opened /\ attached' = attached /\ casting' = casting
        /\ toChrome' = toChrome /\ outbox' = outbox /\ handler' = handler
        /\ session' = session /\ target' = target
    BY <1>2 DEF View!vars
  <2>2. View(b)!Said' = View(b)!Said /\ View(b)!Asked' = View(b)!Asked
    BY <2>1 DEF View!Said, View!Asked
  <2>3. View(b)!Exchange'
    BY <2>1, <2>2 DEF View!IInv, View!Exchange, View!TypeOK, View!Ordered, View!CommandKnown,
       View!ReplyKnown, View!Reply, View!Answered,
                      View!InTurn, View!Heading, View!Follows
  <2>4. View(b)!Outcome'
    BY <2>1, <2>2 DEF View!IInv, View!Outcome, View!EventKnown, View!HandlerKnown,
       View!SessionKnown, View!Begins, View!NewestComes,
                      View!CastComes, View!Coming, View!Heading, View!Event, View!Ended,
                        View!Started, View!Free
  <2>5. QED BY <2>3, <2>4 DEF View!IInv
<1>3. QED BY <1>1, <1>2

\* What the invariant says of the view.
LEMMA ViewMeans ==
  ASSUME NEW b, View(b)!ViewAssumption, View(b)!IInv
  PROVE  View(b)!TypeOK /\ View(b)!SessionIsOfTarget /\ View(b)!ShowsLivingPage
             /\ View(b)!ShowsNewestPage
<1>1. ASSUME View(b)!Settled, alive # {} PROVE target = View(b)!Newest(alive) /\ session \in casting
  <2>1. View(b)!Newest(alive) \in alive /\ \A p \in alive : p <= View(b)!Newest(alive)
    BY <1>1, Records, NewestIs DEF View!IInv, View!Exchange
  <2>2. /\ View(b)!Started /\ View(b)!Said = {} /\ View(b)!Asked = {}
        /\ \A h \in b.handlers : handler[h].at \in {"idle", "done"}
    BY <1>1 DEF View!Settled, View!Said, View!Asked
  <2>3. View(b)!Coming(View(b)!Newest(alive))
    BY <2>1 DEF View!IInv, View!Outcome, View!NewestComes
  <2>4. target = View(b)!Newest(alive)
    BY <2>2, <2>3 DEF View!Coming, View!Heading, View!Event
  <2>5. target \in alive /\ session \in b.handlers
    BY <2>1, <2>4, Records DEF View!IInv, View!Exchange, View!Outcome, View!TypeOK,
       View!SessionKnown, View!NoPage
  <2>6. QED BY <2>2, <2>4, <2>5 DEF View!IInv, View!Outcome, View!CastComes, View!Heading
<1>2. QED BY <1>1 DEF View!IInv, View!Exchange, View!Outcome, View!SessionKnown, View!SessionIsOfTarget,
     View!ShowsLivingPage, View!ShowsNewestPage

-----------------------------------------------------------------------------
(* The components, one of them exercised *)

\* The invariant of the component that is exercised.
IInv ==
    /\ part = "host" => Host!IInv
    /\ part = "jobs" => Shell(Jobs, Buffer, MaxBytes)!IInv
    /\ part = "reader" => Shell(Followed, FollowedBuffer, FollowedBytes)!IInv
    /\ part = "code" => Code!IInv
    /\ part = "search" => Search(FALSE)!IInv
    /\ part = "forced" => Search(TRUE)!IInv
    /\ part = "pages" => Extraction!IInv
    /\ part = "connection" => Connection(Requests)!IInv
    /\ part = "view" => View(Popups)!IInv
    /\ part = "frames" => Frames(Watching)!IInv
    /\ part = "relay" => Relay(Tunnel)!IInv

\* And of the pool, while it has room for a browser of every type.
PoolInv == part = "pool" => Pool!IInv

\* What a step is to the components of the user's machine, and to the pool and the
\* pages while they are not exercised.
LEMMA StepCases ==
    ASSUME [Next]_vars
    PROVE  /\ part' = part
           /\ part = "host" => [Host!Next]_(Host!vars)
           /\ part = "jobs" =>
             [Shell(Jobs, Buffer, MaxBytes)!Next]_(Shell(Jobs, Buffer, MaxBytes)!vars)
           /\ part = "reader" =>
             [Shell(Followed, FollowedBuffer, FollowedBytes)!Next]_
               (Shell(Followed, FollowedBuffer, FollowedBytes)!vars)
           /\ part = "code" => [Code!Next]_(Code!vars)
           /\ IF part = "pool" THEN [Pool!Next]_(Pool!vars) ELSE UNCHANGED Pool!vars
           /\ part = "search" => [Search(FALSE)!Next]_(Search(FALSE)!vars)
           /\ part = "forced" => [Search(TRUE)!Next]_(Search(TRUE)!vars)
           /\ IF part = "pages" THEN [Extraction!Next]_(Extraction!vars)
              ELSE UNCHANGED Extraction!vars
<1> USE DEF pool, pages, Pool!vars, Extraction!vars
<1>1. CASE HostStep
  BY <1>1 DEF HostStep
<1>2. CASE CodeStep
  BY <1>2 DEF CodeStep
<1>3. CASE PoolStep
  BY <1>3 DEF PoolStep
<1>4. CASE SearchStep
  BY <1>4 DEF SearchStep
<1>5. CASE PagesStep
  BY <1>5 DEF PagesStep
<1>6. CASE ConnectionStep \/ ViewStep \/ FramesStep \/ RelayStep
  BY <1>6 DEF ConnectionStep, ViewStep, FramesStep, RelayStep, host, shell, code, searches,
              Host!vars, Shell!vars, Code!vars, Search!vars
<1>7. CASE ShellStep
  BY <1>7 DEF ShellStep
<1>8. CASE UNCHANGED vars
  BY <1>8 DEF vars, host, shell, code, searches, Host!vars, Shell!vars, Code!vars, Search!vars
<1>9. QED BY <1>1, <1>2, <1>3, <1>4, <1>5, <1>6, <1>7, <1>8 DEF Next

\* And to the sidecar's connections.
LEMMA LinkCases ==
    ASSUME [Next]_vars
    PROVE  /\ part = "connection" =>
             [Connection(Requests)!Next]_(Connection(Requests)!vars)
           /\ part = "view" => [View(Popups)!Next]_(View(Popups)!vars)
           /\ part = "frames" => [Frames(Watching)!Next]_(Frames(Watching)!vars)
           /\ part = "relay" => [Relay(Tunnel)!Next]_(Relay(Tunnel)!vars)
<1>1. \/ part \notin {"connection", "view", "frames", "relay"}
      \/ ConnectionStep \/ ViewStep \/ FramesStep \/ RelayStep
      \/ UNCHANGED <<cdp, view, frames, relay>>
  BY DEF Next, vars, HostStep, ShellStep, CodeStep, PoolStep, SearchStep, PagesStep
<1>2. CASE UNCHANGED <<cdp, view, frames, relay>>
  BY <1>2 DEF cdp, view, frames, relay, Connection!vars, View!vars, Frames!vars, Relay!vars
<1>3. CASE ConnectionStep \/ ViewStep \/ FramesStep \/ RelayStep
  BY <1>3 DEF ConnectionStep, ViewStep, FramesStep, RelayStep
<1>4. QED BY <1>1, <1>2, <1>3

\* Each component starts in its invariant.
LEMMA InitHolds == Init => IInv /\ PoolInv
<1> SUFFICES ASSUME Init PROVE IInv /\ PoolInv
  OBVIOUS
<1>1. part = "host" => Host!IInv
  BY ToolsAssumption, BridgeStarts DEF Init
<1>2. part = "code" => Code!IInv
  BY ToolsAssumption, CodeStarted DEF Init
<1>3. part = "pool" => Pool!IInv
  BY ToolsAssumption, PoolStarts DEF Init
<1>4. part = "search" => Search(FALSE)!IInv
  BY ToolsAssumption, SearchesStart DEF Init
<1>5. part = "forced" => Search(TRUE)!IInv
  BY ToolsAssumption, SearchesStart DEF Init
<1>6. part = "pages" => Extraction!IInv
  BY ToolsAssumption, PagesStart DEF Init
<1>7. part = "jobs" => Shell(Jobs, Buffer, MaxBytes)!IInv
  BY ToolsAssumption, ShellStarts DEF Init
<1>8. part = "reader" => Shell(Followed, FollowedBuffer, FollowedBytes)!IInv
  BY ToolsAssumption, ShellStarts DEF Init
<1>9. Connection(Requests)!IInv
  BY ToolsAssumption, ConnectionStarts DEF Init
<1>10. View(Popups)!IInv
  BY ToolsAssumption, ViewStarts DEF Init
<1>11. Frames(Watching)!IInv
  BY ToolsAssumption, FramesStart DEF Init
<1>12. Relay(Tunnel)!IInv
  BY ToolsAssumption, RelayStarts DEF Init
<1>13. QED BY <1>1, <1>2, <1>3, <1>4, <1>5, <1>6, <1>7, <1>8, <1>9, <1>10, <1>11, <1>12 DEF IInv, PoolInv

\* And keeps it.
LEMMA StepHolds == IInv /\ [Next]_vars => IInv'
<1> SUFFICES ASSUME IInv, [Next]_vars PROVE IInv'
  OBVIOUS
<1>1. part = "host" => Host!IInv'
  BY ToolsAssumption, StepCases, BridgeStays DEF IInv
<1>2. part = "code" => Code!IInv'
  BY ToolsAssumption, StepCases, CodeStays DEF IInv
<1>3. part = "search" => Search(FALSE)!IInv'
  BY ToolsAssumption, StepCases, SearchesStay DEF IInv
<1>4. part = "forced" => Search(TRUE)!IInv'
  BY ToolsAssumption, StepCases, SearchesStay DEF IInv
<1>5. part = "pages" => Extraction!IInv'
  BY ToolsAssumption, StepCases, PagesStay DEF IInv
<1>6. part = "jobs" => Shell(Jobs, Buffer, MaxBytes)!IInv'
  BY ToolsAssumption, StepCases, ShellSteps, ShellStays DEF IInv
<1>7. part = "reader" => Shell(Followed, FollowedBuffer, FollowedBytes)!IInv'
  BY ToolsAssumption, StepCases, ShellSteps, ShellStays DEF IInv
<1>8. part = "connection" => Connection(Requests)!IInv'
  BY ToolsAssumption, LinkCases, ConnectionSteps, ConnectionStays DEF IInv
<1>9. part = "view" => View(Popups)!IInv'
  BY ToolsAssumption, LinkCases, ViewStays DEF IInv
<1>10. part = "frames" => Frames(Watching)!IInv'
  BY ToolsAssumption, LinkCases, FramesSteps, FramesStay DEF IInv
<1>11. part = "relay" => Relay(Tunnel)!IInv'
  BY ToolsAssumption, LinkCases, RelaySteps, RelayStays DEF IInv
<1>12. QED BY <1>1, <1>2, <1>3, <1>4, <1>5, <1>6, <1>7, <1>8, <1>9, <1>10, <1>11, StepCases, ZenonT(90)
     DEF IInv

\* The invariant always holds.
LEMMA Invariance == Spec => []IInv
  BY InitHolds, StepHolds, PTL DEF Spec

\* The pool's invariant, while its part is exercised.
LEMMA PoolInvariance == Pool!Room => (Spec => []PoolInv)
<1> SUFFICES ASSUME Pool!Room PROVE Spec => []PoolInv
  OBVIOUS
<1>1. PoolInv /\ [Next]_vars => PoolInv'
  BY ToolsAssumption, StepCases, PoolStays DEF PoolInv
<1>2. QED BY InitHolds, <1>1, PTL DEF Spec

-----------------------------------------------------------------------------
\* The desktop's host bridge: however its starts, stops and calls overtake each other,
\* one helper lives at most, none is left behind, a request waits only for the current
\* helper, and no earlier start spawns once a stop has returned (host bridge).
THEOREM HostIsSafe == Spec => []HostSafe
<1>1. IInv => HostSafe
  BY ToolsAssumption, BridgeMeans DEF IInv, HostSafe
<1>2. QED BY <1>1, Invariance, PTL

\* The shell: a total is announced once and is final, a kill answers for a process that
\* has ended, nothing of what a release or a close found goes on, a foreground command
\* leaves no process, and who follows a job sees its output once and whole but for what
\* the full buffer dropped (shell server).
THEOREM ShellIsSafe == Spec => []ShellSafe
<1>1. IInv => ShellSafe
  <2> SUFFICES ASSUME IInv PROVE ShellSafe
    OBVIOUS
  <2>1. part = "jobs" => /\ Shell(Jobs, Buffer, MaxBytes)!AnnouncedOnceAndFinal
                         /\ Shell(Jobs, Buffer, MaxBytes)!KillIsFinal
                         /\ Shell(Jobs, Buffer, MaxBytes)!StoppedJobsAreOver
                         /\ Shell(Jobs, Buffer, MaxBytes)!ForegroundLeavesNothing
    BY ToolsAssumption, ShellMeans DEF IInv
  <2>2. part = "reader" => /\ Shell(Followed, FollowedBuffer, FollowedBytes)!TypeOK
                           /\ Shell(Followed, FollowedBuffer, FollowedBytes)!ReadWhole
    BY ToolsAssumption, ShellMeans DEF IInv
  <2>3. QED BY <2>1, <2>2 DEF ShellSafe
<1>2. QED BY <1>1, Invariance, PTL

\* The code executor: its containers are owned, nothing runs once close has returned,
\* and code that a kill reached is over with its run (code executor).
THEOREM CodeIsSafe == Spec => []CodeSafe
<1>1. IInv => CodeSafe
  BY ToolsAssumption, CodeMeans DEF IInv, CodeSafe
<1>2. QED BY <1>1, Invariance, PTL

\* The web search: browsers are owned, one per type, where the pool has room for all
\* types; the best results are answered, whatever the mode; the extractor requests only
\* checked destinations, a bounded number of times for a page; and what a page requests
\* of its own reaches a refused one by nothing but a redirect of a sub-resource (web-search).
THEOREM SearchesAreSafe == Pool!Room => (Spec => []SearchesSafe)
<1> SUFFICES ASSUME Pool!Room PROVE Spec => []SearchesSafe
  OBVIOUS
<1>1. IInv /\ PoolInv => SearchesSafe
  <2> SUFFICES ASSUME IInv, PoolInv PROVE SearchesSafe
    OBVIOUS
  <2>1. part = "pool" => Pool!TypeOK /\ Pool!EveryBrowserIsOwned /\ Pool!OneBrowserPerType
    BY ToolsAssumption, PoolMeans DEF PoolInv
  <2>2. part = "search" => /\ Search(FALSE)!TypeOK /\ Search(FALSE)!BestIsAnswered
                           /\ Search(FALSE)!BrowsersEndWithAttempts
    BY ToolsAssumption, SearchesMean DEF IInv
  <2>3. part = "forced" => Search(TRUE)!BestIsAnswered
    BY ToolsAssumption, SearchesMean DEF IInv
  <2>4. part = "pages" => /\ Extraction!TypeOK /\ Extraction!OnlyCheckedRequests
                          /\ Extraction!RequestsAreBounded /\ Extraction!ContextsAreReleased
    BY ToolsAssumption, PagesMean DEF IInv
  <2>5. QED BY <2>1, <2>2, <2>3, <2>4 DEF SearchesSafe
<1>2. QED BY <1>1, Invariance, PoolInvariance, PTL

\* A closing of the pool leaves nothing of what came before it, and the extractor requests
\* nothing more for a page that was refused (closeAll, the url guard).
THEOREM SearchesAreFinal == Pool!Room => (Spec => SearchesFinal)
<1> SUFFICES ASSUME Pool!Room PROVE Spec => SearchesFinal
  OBVIOUS
<1> DEFINE C == /\ (closing.step = "drain" /\ closing'.step = "none") =>
                     \A b \in Pool!Browsers : browser'[b] \in {"none", "gone"}
                /\ \A t \in Pool!Types : (launches[t].step = "launching" /\ browsers'[t] # 0) =>
                     closing.step = "drain" \/ launches[t].since = closing.count
           R == \A p \in Pages : page[p].refused => sent'[p] = sent[p]
<1>1. PoolInv /\ [Next]_vars => [C]_(Pool!vars)
  <2> SUFFICES ASSUME PoolInv, [Next]_vars PROVE [C]_(Pool!vars)
    OBVIOUS
  <2>1. CASE part = "pool"
    BY <2>1, ToolsAssumption, StepCases, PoolStepCloses DEF PoolInv
  <2>2. CASE part # "pool"
    BY <2>2, StepCases
  <2>3. QED BY <2>1, <2>2
<1>2. IInv /\ [Next]_vars => [R]_(Extraction!vars)
  <2> SUFFICES ASSUME IInv, [Next]_vars PROVE [R]_(Extraction!vars)
    OBVIOUS
  <2>1. CASE part = "pages"
    BY <2>1, ToolsAssumption, StepCases, PageStepIsFinal DEF IInv
  <2>2. CASE part # "pages"
    BY <2>2, StepCases
  <2>3. QED BY <2>1, <2>2
<1>3. QED BY <1>1, <1>2, Invariance, PoolInvariance, PTL
     DEF Spec, SearchesFinal, Pool!CloseLeavesNothing, Extraction!RefusalIsFinal

\* A connection to Chrome, whatever its commands, waits and sessions: a command gets its
\* own result, one that is refused never runs, a close settles everyone, and exactly
\* the open waits listen (send, _onMessage, _onClose, once).
THEOREM ConnectionIsSafe ==
  ASSUME NEW b, Connection(b)!SessionAssumption
  PROVE  Connection(b)!Spec => [](/\ Connection(b)!TypeOK /\ Connection(b)!ResultsAreOwn
                                  /\ Connection(b)!RefusedNeverRuns
                                  /\ Connection(b)!ClosedSettlesAll
                                  /\ Connection(b)!ListenersAreOpenWaits)
<1>1. Connection(b)!Init => Connection(b)!IInv
  BY ConnectionStarts
<1>2. Connection(b)!IInv /\ [Connection(b)!Next]_(Connection(b)!vars) => Connection(b)!IInv'
  BY ConnectionSteps, ConnectionStays
<1>3. Connection(b)!IInv => /\ Connection(b)!TypeOK /\ Connection(b)!ResultsAreOwn
                            /\ Connection(b)!RefusedNeverRuns /\ Connection(b)!ClosedSettlesAll
                            /\ Connection(b)!ListenersAreOpenWaits
  BY ConnectionMeans
<1>4. QED BY <1>1, <1>2, <1>3, PTL DEF Connection!Spec

\* A proxied connection, however many bytes it carries and into how many pieces its
\* upstream cuts the replies: the bytes stay in order where the handler turns from
\* replies to pipes, and an upstream outlives its browser only in the cases of a reset
\* (local-proxy-relay).
THEOREM RelayIsSafe ==
  ASSUME NEW b, Relay(b)!BoundsAssumption
  PROVE  Relay(b)!Spec => [](/\ Relay(b)!TypeOK /\ Relay(b)!BytesInOrder
                             /\ Relay(b)!OrphansOnlyOfResets)
<1>1. Relay(b)!Init => Relay(b)!IInv
  BY RelayStarts
<1>2. Relay(b)!IInv /\ [Relay(b)!Next]_(Relay(b)!vars) => Relay(b)!IInv'
  BY RelaySteps, RelayStays
<1>3. Relay(b)!IInv => Relay(b)!TypeOK /\ Relay(b)!BytesInOrder /\ Relay(b)!OrphansOnlyOfResets
  BY RelayMeans
<1>4. QED BY <1>1, <1>2, <1>3, PTL DEF Relay!Spec

\* The frames of a live view, however many viewers share it and whatever their limit:
\* they are bounded and in order, one waits only for acknowledgements that are due, and
\* the session ends with one status (deliver, frame_ack, end).
THEOREM FramesAreSafe ==
  ASSUME NEW b, Frames(b)!InFlightAssumption
  PROVE  Frames(b)!Spec => [](/\ Frames(b)!TypeOK /\ Frames(b)!FramesBounded
                              /\ Frames(b)!FramesInOrder /\ Frames(b)!WaitsForAcks
                              /\ Frames(b)!EndsOnce)
<1>1. Frames(b)!Init => Frames(b)!IInv
  BY FramesStart
<1>2. Frames(b)!IInv /\ [Frames(b)!Next]_(Frames(b)!vars) => Frames(b)!IInv'
  BY FramesSteps, FramesStay
<1>3. Frames(b)!IInv => /\ Frames(b)!TypeOK /\ Frames(b)!FramesBounded /\ Frames(b)!FramesInOrder
                        /\ Frames(b)!WaitsForAcks /\ Frames(b)!EndsOnce
  BY FramesMean
<1>4. QED BY <1>1, <1>2, <1>3, PTL DEF Frames!Spec

\* The live view, however many pages come and go and however many events have a handler
\* of their own, while no page ends before a handler that is on its way to it is there:
\* when the handlers are through it shows the newest page that lives, and its session is
\* always that of the page it calls its target (follow, main).
THEOREM ViewIsSafe ==
  ASSUME NEW b, View(b)!ViewAssumption
  PROVE  View(b)!Spec => [](/\ View(b)!TypeOK /\ View(b)!SessionIsOfTarget
                            /\ View(b)!ShowsLivingPage /\ View(b)!ShowsNewestPage)
<1>1. View(b)!Init => View(b)!IInv
  BY ViewStarts
<1>2. View(b)!IInv /\ [View(b)!Next]_(View(b)!vars) => View(b)!IInv'
  BY ViewStays
<1>3. View(b)!IInv => /\ View(b)!TypeOK /\ View(b)!SessionIsOfTarget
                      /\ View(b)!ShowsLivingPage /\ View(b)!ShowsNewestPage
  BY ViewMeans
<1>4. QED BY <1>1, <1>2, <1>3, PTL DEF View!Spec

\* The sidecar's connections, as MCTools puts them together: to Chrome, to the viewers
\* and to proxies (cdp, browser-session, local-proxy-relay).
THEOREM ConnectionsAreSafe == Spec => []ConnectionsSafe
<1>1. IInv => ConnectionsSafe
  <2> SUFFICES ASSUME IInv PROVE ConnectionsSafe
    OBVIOUS
  <2>1. part = "connection" =>
           /\ Connection(Requests)!TypeOK /\ Connection(Requests)!ResultsAreOwn
           /\ Connection(Requests)!RefusedNeverRuns /\ Connection(Requests)!ClosedSettlesAll
           /\ Connection(Requests)!ListenersAreOpenWaits
    BY ConnectionMeans DEF IInv
  <2>2. part = "relay" => /\ Relay(Tunnel)!TypeOK /\ Relay(Tunnel)!BytesInOrder
                          /\ Relay(Tunnel)!OrphansOnlyOfResets
    BY RelayMeans DEF IInv
  <2>3. part = "view" => /\ View(Popups)!TypeOK /\ View(Popups)!SessionIsOfTarget
                         /\ View(Popups)!ShowsLivingPage /\ View(Popups)!ShowsNewestPage
    BY ToolsAssumption, ViewMeans DEF IInv
  <2>4. part = "frames" => /\ Frames(Watching)!TypeOK /\ Frames(Watching)!FramesBounded
                           /\ Frames(Watching)!FramesInOrder /\ Frames(Watching)!WaitsForAcks
                           /\ Frames(Watching)!EndsOnce
    BY ToolsAssumption, FramesMean DEF IInv
  <2>5. QED BY <2>1, <2>2, <2>3, <2>4 DEF ConnectionsSafe
<1>2. QED BY <1>1, Invariance, PTL
=============================================================================

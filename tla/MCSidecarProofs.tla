-------------------------- MODULE MCSidecarProofs ---------------------------
(***************************************************************************)
(* What is proved of human control and of the table of tabs, whatever the  *)
(* calls, pages and requests and the bounds in p.  Each has an inductive   *)
(* invariant in its module; the lemmas on a component show that its        *)
(* initial states satisfy it, that every step keeps it and what it means,  *)
(* and the last part puts the two together as MCSidecar does.              *)
(***************************************************************************)
EXTENDS MCSidecar, FiniteSetTheorems, TLAPS

-----------------------------------------------------------------------------
(* Human control                                                            *)

\* What a step may add to what was done under human control.
Intruded ==
    \/ UNCHANGED intrusions
    \/ \E w \in {"resize", "relaunch"} : intrusions' = intrusions \union {w}
    \/ strayed /\ \E w \in {"command", "action"} : intrusions' = intrusions \union {w}

\* Nobody is told anything at first.
LEMMA HumanStarts ==
  ASSUME NEW p, Human(p)!HumanControlAssumption
  PROVE  Human(p)!Init => Human(p)!IInv
<1> SUFFICES ASSUME Human(p)!Init PROVE Human(p)!IInv
  OBVIOUS
<1> USE Human(p)!HumanControlAssumption DEF Human!Init, Human!HumanControlAssumption
<1>1. Human(p)!TypeOK
  <2>1. Human(p)!NoRequest \in Human(p)!Request
    BY DEF Human!NoRequest, Human!Request
  <2>2. Human(p)!Idle \in Human(p)!CallType
    BY DEF Human!Idle, Human!CallType
  <2>3. /\ calls \in [Calls -> Human(p)!CallType]
        /\ requests \in [p.requests -> Human(p)!Request] /\ decided \in [p.requests -> Nat]
        /\ usedApprovals \in [p.nonces -> Nat \union {nobody}]
    BY <2>1, <2>2
  <2>4. now \in 0..p.now /\ connection \in 0..p.connections
    OBVIOUS
  <2>5. humanControl \in p.requests \union {nobody} /\ origin \in p.origins
    OBVIOUS
  <2>6. open \subseteq 1..p.connections /\ watched \subseteq 1..p.connections
    OBVIOUS
  <2>7. connecting \in BOOLEAN
    OBVIOUS
  <2>8. /\ approvals \subseteq Human(p)!Approval
        /\ told \subseteq p.requests /\ survivors \subseteq p.requests
        /\ intrusions \subseteq {"command", "resize", "relaunch", "action"}
    OBVIOUS
  <2>9. late \in [Calls -> 0..Human(p)!Owed + 1] /\ strayed \in BOOLEAN
    <3>1. late = [c \in Calls |-> 0] /\ strayed = FALSE
      OBVIOUS
    <3>2. 0 \in 0..Human(p)!Owed + 1
      BY ONLY SMT DEF Human!Owed
    <3>3. QED
      BY ONLY <3>1, <3>2
  <2>10. QED
    BY ONLY <2>3, <2>4, <2>5, <2>6, <2>7, <2>8, <2>9 DEF Human!TypeOK
<1>2. Human(p)!OneTransport /\ Human(p)!Paused /\ Human(p)!AdmittedCallsPause
  BY DEF Human!OneTransport, Human!Paused, Human!AdmittedCallsPause
<1>3. ASSUME NEW c \in Calls PROVE Human(p)!CallKnown(c) /\ Human(p)!HandsOver(c) /\ Human(p)!LateKnown(c)
  BY DEF Human!CallKnown, Human!HandsOver, Human!LateKnown, Human!Due, Human!Idle
<1>4. (\A r \in told : Human(p)!HandedOver(r)) /\ (\A r \in p.requests : Human(p)!DecidedIsGone(r))
  BY DEF Human!HandedOver, Human!DecidedIsGone
<1>5. QED
  BY <1>1, <1>2, <1>3, <1>4 DEF Human!IInv

\* A call that moves on keeps its connection and its request.
LEMMA CallTyped == ASSUME NEW p, Human(p)!TypeOK PROVE calls \in [Calls -> Human(p)!CallType]
BY DEF Human!TypeOK

\* An idle call is known.
LEMMA IdleTyped ==
  ASSUME NEW p, Human(p)!HumanControlAssumption
  PROVE  Human(p)!Idle \in Human(p)!CallType
BY DEF Human!Idle, Human!CallType, Human!HumanControlAssumption

\* What the request of a decision becomes is a request, and stays gone when it is.
LEMMA LiveTyped ==
  ASSUME NEW p, Human(p)!HumanControlAssumption, Human(p)!TypeOK
  PROVE  /\ Human(p)!Live \in [p.requests -> Human(p)!Request]
         /\ \A r \in p.requests : requests[r].action = "gone" => Human(p)!Live[r].action = "gone"
         /\ \A r \in p.requests : Human(p)!Live[r].action \in {"resume", "permission"} =>
            Human(p)!Pending(r)
         /\ Human(p)!Gone \in Human(p)!Request /\ Human(p)!Gone.action = "gone"
  BY DEF Human!HumanControlAssumption, Human!TypeOK, Human!Live, Human!Pending, Human!Gone,
     Human!NoRequest, Human!Request

\* What keeps the decisions' part of the invariant.
LEMMA RequestsMove ==
  ASSUME NEW p, Human(p)!IInv, UNCHANGED decided,
         \A r \in p.requests : requests[r].action = "gone" => requests'[r].action = "gone"
  PROVE  \A r \in p.requests : Human(p)!DecidedIsGone(r)'
  BY DEF Human!IInv, Human!DecidedIsGone

\* Calls that move while the browser stays in the hands it is in.
LEMMA CallsMove ==
  ASSUME NEW p, Human(p)!IInv,
         UNCHANGED <<now, humanControl, connection, open, approvals, told, decided, strayed>>,
         late' \in [Calls -> 0..Human(p)!Owed + 1],
         Intruded,
         origin' \in p.origins, survivors' \subseteq p.requests,
         requests' \in [p.requests -> Human(p)!Request],
           usedApprovals' \in [p.nonces -> Nat \union {nobody}],
         \A r \in p.requests : requests[r].action = "gone" => requests'[r].action = "gone",
         watched' \subseteq 1..p.connections, connecting' \in BOOLEAN,
         connecting' => connection = 0 /\ (strayed \/ humanControl = nobody),
         calls' \in [Calls -> Human(p)!CallType],
         \A c \in Calls : Human(p)!CallKnown(c)' /\ Human(p)!HandsOver(c)' /\ Human(p)!LateKnown(c)'
  PROVE  Human(p)!IInv'
<1>1. Human(p)!TypeOK'
  BY DEF Human!IInv, Human!TypeOK, Human!CallType, Intruded
<1>2. Human(p)!OneTransport' /\ Human(p)!Paused' /\ Human(p)!AdmittedCallsPause'
  BY DEF Human!IInv, Human!OneTransport, Human!Paused, Human!AdmittedCallsPause, Intruded
<1>3. \A r \in told' : Human(p)!HandedOver(r)'
  BY DEF Human!IInv, Human!HandedOver
<1>4. QED
  BY <1>1, <1>2, <1>3, RequestsMove DEF Human!IInv

\* The same where nothing else is asked for.
LEMMA CallsOnly ==
  ASSUME NEW p, Human(p)!IInv, UNCHANGED <<now, Human(p)!slot, connection, open, origin,
         approvals, told, decided, survivors, strayed>>,
         late' \in [Calls -> 0..Human(p)!Owed + 1],
         Intruded,
         watched' \subseteq 1..p.connections, connecting' \in BOOLEAN,
         connecting' => connection = 0 /\ (strayed \/ humanControl = nobody),
         calls' \in [Calls -> Human(p)!CallType],
         \A c \in Calls : Human(p)!CallKnown(c)' /\ Human(p)!HandsOver(c)' /\ Human(p)!LateKnown(c)'
  PROVE  Human(p)!IInv'
<1>1. /\ UNCHANGED <<humanControl, requests, usedApprovals>>
      /\ requests \in [p.requests -> Human(p)!Request]
      /\ usedApprovals \in [p.nonces -> Nat \union {nobody}]
      /\ origin \in p.origins /\ survivors \subseteq p.requests
  BY DEF Human!IInv, Human!TypeOK, Human!slot
<1>2. QED
  BY <1>1, CallsMove

\* Nothing is in a human's hands unless the slot is under control, and then no
\* operation of playwright goes on.
LEMMA HandsKnown ==
  ASSUME NEW p, Human(p)!HumanControlAssumption, Human(p)!IInv, Human(p)!InHumanHands, ~strayed
  PROVE  humanControl # nobody /\ open = {}
<1>1. PICK r \in told : decided[r] = 0
  BY DEF Human!InHumanHands
<1>2. r \in p.requests /\ humanControl = r /\ open = {}
  BY <1>1 DEF Human!IInv, Human!TypeOK, Human!HandedOver
<1>3. QED
  BY <1>2 DEF Human!HumanControlAssumption

\* A command or an operation reaches the browser of a human only when it strayed.
LEMMA IntrudesOnlyAstray ==
  ASSUME NEW p, Human(p)!HumanControlAssumption, Human(p)!IInv,
         NEW w \in {"command", "resize", "relaunch", "action"}, Human(p)!Intrudes(w),
         \/ w \in {"resize", "relaunch"} \/ humanControl = nobody \/ open # {}
  PROVE  Intruded
<1>1. CASE Human(p)!InHumanHands /\ ~strayed
  BY <1>1, HandsKnown DEF Human!Intrudes, Intruded
<1>2. CASE ~Human(p)!InHumanHands
  BY <1>2 DEF Human!Intrudes, Intruded
<1>3. CASE Human(p)!InHumanHands /\ strayed
  BY <1>3 DEF Human!Intrudes, Intruded
<1>4. QED
  BY <1>1, <1>2, <1>3

\* What becomes of one call while the others stay as they are.
LEMMA OneCall ==
  ASSUME NEW p, Human(p)!IInv, NEW c \in Calls, NEW x \in Human(p)!CallType,
         calls' = [calls EXCEPT ![c] = x],
         UNCHANGED <<humanControl, decided, open, strayed>>, connecting => connecting',
         \A d \in Calls : d # c => late'[d] = late[d],
         ~strayed => late'[c] <= Human(p)!Due(x.at),
         x.at \in {"page", "ready", "acting"} => x.conn # 0,
         x.at = "connecting" => connecting',
         x.at = "acting" => x.kind = "action",
         x.at = "draining" => x.kind = "detach",
         x.at = "closing" => x.kind # "takeover"
  PROVE  /\ calls' \in [Calls -> Human(p)!CallType]
         /\ \A d \in Calls : Human(p)!CallKnown(d)' /\ Human(p)!HandsOver(d)' /\ Human(p)!LateKnown(d)'
<1>1. calls \in [Calls -> Human(p)!CallType]
  BY CallTyped DEF Human!IInv
<1>2. calls' \in [Calls -> Human(p)!CallType] /\ calls'[c] = x /\ \A d \in Calls : d # c =>
        calls'[d] = calls[d]
  BY <1>1
<1>3. ASSUME NEW d \in Calls PROVE Human(p)!CallKnown(d)' /\ Human(p)!HandsOver(d)' /\ Human(p)!LateKnown(d)'
  <2>1. CASE d = c
    BY <1>2, <2>1 DEF Human!CallKnown, Human!HandsOver, Human!LateKnown, Human!Due
  <2>2. CASE d # c
    BY <1>2, <2>2 DEF Human!CallKnown, Human!HandsOver, Human!LateKnown, Human!Due, Human!IInv
  <2>3. QED
    BY <2>1, <2>2
<1>4. QED
  BY <1>2, <1>3

\* What a call has sent already is no more at its next step than it may be there.
LEMMA LateEases ==
  ASSUME NEW p, Human(p)!HumanControlAssumption, Human(p)!IInv, NEW c \in Calls, NEW at,
         at \in {"handler", "pressed", "failing"} =>
             \/ humanControl = nobody \/ at = calls[c].at
             \/ at = "failing" /\ calls[c].at \in {"handler", "pressed"}
  PROVE  ~strayed => late[c] <= Human(p)!Due(at)
<1>1. late[c] \in 0..3 /\ (~strayed => late[c] <= Human(p)!Due(calls[c].at))
  BY DEF Human!IInv, Human!TypeOK, Human!LateKnown, Human!Owed
<1>2. QED
  BY <1>1 DEF Human!Due, Human!Owed

\* A step of one call that leaves the connection and the requests as they are.
LEMMA OneCallOnly ==
  ASSUME NEW p, Human(p)!HumanControlAssumption, Human(p)!IInv, NEW c \in Calls,
         NEW x \in Human(p)!CallType,
         calls' = [calls EXCEPT ![c] = x],
         UNCHANGED <<now, Human(p)!slot, Human(p)!transport, origin, approvals, told, decided,
           survivors, late, strayed>>,
         Intruded,
         x.at \in {"handler", "pressed", "failing"} =>
             \/ humanControl = nobody \/ x.at = calls[c].at
             \/ x.at = "failing" /\ calls[c].at \in {"handler", "pressed"},
         x.at \in {"page", "ready", "acting"} => x.conn # 0,
         x.at # "connecting",
         x.at = "acting" => x.kind = "action",
         x.at = "draining" => x.kind = "detach",
         x.at = "closing" => x.kind # "takeover"
  PROVE  Human(p)!IInv'
<1>1. UNCHANGED <<humanControl, connection, connecting, open, watched>>
  BY DEF Human!slot, Human!transport
<1>2. /\ calls' \in [Calls -> Human(p)!CallType]
      /\ \A d \in Calls : Human(p)!CallKnown(d)' /\ Human(p)!HandsOver(d)' /\ Human(p)!LateKnown(d)'
  BY <1>1, OneCall, LateEases
<1>3. /\ late' \in [Calls -> 0..Human(p)!Owed + 1]
      /\ watched' \subseteq 1..p.connections /\ connecting' \in BOOLEAN
      /\ connecting' => connection = 0 /\ (strayed \/ humanControl = nobody)
  BY <1>1 DEF Human!IInv, Human!TypeOK, Human!OneTransport, Human!Paused
<1>4. QED
  BY <1>1, <1>2, <1>3, CallsOnly

\* A call that is admitted, or ends.
LEMMA CallBegins ==
  ASSUME NEW p, Human(p)!HumanControlAssumption, Human(p)!IInv, NEW c \in Calls,
         \/ \E k \in Human(p)!LegacyKinds : Human(p)!CallTool(c, k)
         \/ Human(p)!Detach(c)
  PROVE  Human(p)!IInv'
<1>1. CASE \E k \in Human(p)!LegacyKinds : Human(p)!CallTool(c, k)
  <2>1. PICK k \in Human(p)!LegacyKinds : Human(p)!CallTool(c, k)
    BY <1>1
  <2> DEFINE x == [Human(p)!Idle EXCEPT !.kind = k, !.at = "handler"]
  <2>2. x \in Human(p)!CallType /\ x.at = "handler"
    BY IdleTyped DEF Human!Idle, Human!CallType, Human!LegacyKinds
  <2>3. calls' = [calls EXCEPT ![c] = x]
            /\ UNCHANGED <<now, Human(p)!slot, Human(p)!transport, origin, approvals,
               Human(p)!history>>
    BY <2>1 DEF Human!CallTool
  <2> HIDE DEF x
  <2>4. QED
    BY <2>1, <2>2, <2>3, OneCallOnly DEF Human!history, Human!CallTool, Human!Automated, Intruded
<1>2. CASE Human(p)!Detach(c)
  <2> DEFINE x == [Human(p)!Idle EXCEPT !.kind = "detach", !.at = "draining"]
  <2>2. x \in Human(p)!CallType /\ x.at = "draining" /\ x.kind = "detach"
    BY IdleTyped DEF Human!Idle, Human!CallType, Human!LegacyKinds
  <2>3. calls' = [calls EXCEPT ![c] = x]
            /\ UNCHANGED <<now, Human(p)!slot, Human(p)!transport, origin, approvals,
               Human(p)!history>>
    BY <1>2 DEF Human!Detach
  <2> HIDE DEF x
  <2>4. QED
    BY <2>2, <2>3, OneCallOnly DEF Human!history, Intruded
<1>3. QED
  BY <1>1, <1>2

\* A call that ends and disturbs no connection.
LEMMA CallEnds ==
  ASSUME NEW p, Human(p)!HumanControlAssumption, Human(p)!IInv, NEW c \in Calls, Human(p)!Ends(c),
         UNCHANGED <<now, Human(p)!slot, Human(p)!transport, origin, approvals, told, decided,
           survivors, late, strayed>>,
         Intruded
  PROVE  Human(p)!IInv'
<1>1. Human(p)!Idle \in Human(p)!CallType /\ Human(p)!Idle.at = "idle"
  BY IdleTyped DEF Human!Idle
<1>2. QED
  BY <1>1, OneCallOnly DEF Human!Ends

\* A call that goes on at another place of the same tool.
LEMMA CallGoes ==
  ASSUME NEW p, Human(p)!HumanControlAssumption, Human(p)!IInv, NEW c \in Calls,
         NEW at \in {"pressed", "failing", "window", "ready", "acting"}, Human(p)!Goes(c, at),
         at \in {"ready", "acting"} => calls[c].conn # 0,
         at = "acting" => calls[c].kind = "action",
         at = "pressed" => humanControl = nobody,
         at = "failing" => calls[c].at \in {"handler", "pressed"},
         UNCHANGED <<now, Human(p)!slot, Human(p)!transport, origin, approvals, told, decided,
           survivors, late, strayed>>,
         Intruded
  PROVE  Human(p)!IInv'
<1> DEFINE x == [calls[c] EXCEPT !.at = at]
<1>1. calls \in [Calls -> Human(p)!CallType]
  BY CallTyped DEF Human!IInv
<1>2. x \in Human(p)!CallType /\ x.at = at /\ x.kind = calls[c].kind /\ x.conn = calls[c].conn
  BY <1>1 DEF Human!CallType
<1>3. calls' = [calls EXCEPT ![c] = x]
  BY DEF Human!Goes
<1> HIDE DEF x
<1>4. QED
  BY <1>2, <1>3, OneCallOnly

\* Commands of admitted calls: while a human has the browser, none goes through send.
LEMMA CommandsKeep ==
  ASSUME NEW p, Human(p)!HumanControlAssumption, Human(p)!IInv, NEW c \in Calls,
         Human(p)!Send(c) \/ Human(p)!Press(c) \/ Human(p)!AskWindow(c)
             \/ Human(p)!SetWindowBounds(c)
  PROVE  Human(p)!IInv'
<1>1. CASE Human(p)!Send(c)
  <2>1. Intruded /\ calls[c].at \in {"handler", "pressed"}
    BY <1>1, IntrudesOnlyAstray DEF Human!Send, Human!Automated, Intruded
  <2>2. CASE Human(p)!Automated
    <3>1. calls' = [calls EXCEPT ![c] = calls[c]] /\ calls[c] \in Human(p)!CallType
      BY <1>1, <2>2, CallTyped DEF Human!Send, Human!IInv
    <3>2. QED
      BY <1>1, <2>1, <3>1, OneCallOnly DEF Human!Send
  <2>3. CASE ~Human(p)!Automated /\ calls[c].at = "pressed"
    BY <1>1, <2>1, <2>3, CallGoes DEF Human!Send
  <2>4. CASE ~Human(p)!Automated /\ calls[c].at # "pressed"
    BY <1>1, <2>1, <2>4, CallEnds DEF Human!Send
  <2>5. QED
    BY <2>2, <2>3, <2>4
<1>2. CASE Human(p)!Press(c)
  <2>1. Intruded
    BY <1>2, IntrudesOnlyAstray DEF Human!Press, Human!Automated, Intruded
  <2>2. QED
    BY <1>2, <2>1, CallGoes DEF Human!Press, Human!Automated
<1>3. CASE Human(p)!AskWindow(c)
  BY <1>3, CallGoes, CallEnds DEF Human!AskWindow, Human!history, Intruded
<1>4. CASE Human(p)!SetWindowBounds(c)
  <2>1. Intruded
    BY <1>4, IntrudesOnlyAstray DEF Human!SetWindowBounds
  <2>2. QED
    BY <1>4, <2>1, CallEnds DEF Human!SetWindowBounds
<1>5. QED
  BY <1>1, <1>2, <1>3, <1>4

\* A release is the last command of a call, or of one of its presses.
LEMMA OwedReleaseKeeps ==
  ASSUME NEW p, Human(p)!HumanControlAssumption, Human(p)!IInv, NEW c \in Calls,
         Human(p)!Release(c)
  PROVE  Human(p)!IInv'
<1>1. PICK x \in {[calls[c] EXCEPT !.at = "handler"], Human(p)!Idle} :
        /\ calls' = [calls EXCEPT ![c] = x]
        /\ x # Human(p)!Idle => calls[c].at = "pressed"
  BY DEF Human!Release, Human!Goes, Human!Ends
<1>2. /\ calls[c].at \in {"pressed", "failing"}
      /\ late' = IF Human(p)!InHumanHands /\ late[c] <= Human(p)!Owed
                 THEN [late EXCEPT ![c] = @ + 1] ELSE late
      /\ UNCHANGED <<now, Human(p)!slot, Human(p)!transport, origin, approvals, told, decided,
                     survivors, intrusions, strayed>>
  BY DEF Human!Release
<1>3. calls \in [Calls -> Human(p)!CallType] /\ late \in [Calls -> 0..Human(p)!Owed + 1]
  BY CallTyped DEF Human!IInv, Human!TypeOK
<1>4. Human(p)!Idle \in Human(p)!CallType /\ Human(p)!Idle.at = "idle"
  BY IdleTyped DEF Human!Idle
<1>5. x \in Human(p)!CallType /\ (x.at = "idle" \/ (x.at = "handler" /\ calls[c].at = "pressed"))
  BY <1>1, <1>3, <1>4 DEF Human!CallType
<1>6. late' \in [Calls -> 0..Human(p)!Owed + 1] /\ \A d \in Calls : d # c => late'[d] = late[d]
  BY <1>2, <1>3 DEF Human!Owed
<1>7. ~strayed => late'[c] <= Human(p)!Due(x.at)
  <2>1. ~strayed => late[c] <= Human(p)!Due(calls[c].at)
    BY DEF Human!IInv, Human!LateKnown
  <2>2. ~strayed /\ Human(p)!InHumanHands => humanControl # nobody
    BY HandsKnown
  <2>3. late[c] \in 0..3
    BY <1>3 DEF Human!Owed
  <2>4. late'[c] = IF Human(p)!InHumanHands /\ late[c] <= 2 THEN late[c] + 1 ELSE late[c]
    BY <1>2, <1>3 DEF Human!Owed
  <2>5. QED
    BY <1>2, <1>5, <2>1, <2>2, <2>3, <2>4 DEF Human!Due, Human!Owed
<1>8. UNCHANGED <<humanControl, connection, connecting, open, watched>>
  BY <1>2 DEF Human!slot, Human!transport
<1>9. /\ calls' \in [Calls -> Human(p)!CallType]
      /\ \A d \in Calls : Human(p)!CallKnown(d)' /\ Human(p)!HandsOver(d)' /\ Human(p)!LateKnown(d)'
  BY <1>1, <1>2, <1>5, <1>6, <1>7, <1>8, OneCall
<1>10. /\ watched' \subseteq 1..p.connections /\ connecting' \in BOOLEAN
       /\ connecting' => connection = 0 /\ (strayed \/ humanControl = nobody)
  BY <1>8 DEF Human!IInv, Human!TypeOK, Human!OneTransport, Human!Paused
<1>11. QED
  BY <1>2, <1>6, <1>8, <1>9, <1>10, CallsOnly DEF Intruded

\* Operations of playwright: none goes on while a human has the browser.
LEMMA OperationsKeep ==
  ASSUME NEW p, Human(p)!HumanControlAssumption, Human(p)!IInv, NEW c \in Calls,
         Human(p)!StartOperation(c) \/ Human(p)!Operate(c) \/ Human(p)!OperationEnds(c)
             \/ Human(p)!CallFails(c)
  PROVE  Human(p)!IInv'
<1>1. CASE Human(p)!StartOperation(c)
  BY <1>1, CallGoes DEF Human!StartOperation, Human!IInv, Human!CallKnown, Human!history, Intruded
<1>2. CASE Human(p)!Operate(c)
  <2>1. Intruded
    BY <1>2, IntrudesOnlyAstray DEF Human!Operate
  <2>2. calls' = [calls EXCEPT ![c] = calls[c]] /\ calls[c] \in Human(p)!CallType
    BY <1>2, CallTyped DEF Human!Operate, Human!IInv
  <2>3. Human(p)!CallKnown(c) /\ calls[c].at = "acting"
    BY <1>2 DEF Human!Operate, Human!IInv
  <2>4. QED
    BY <1>2, <2>1, <2>2, <2>3, OneCallOnly DEF Human!Operate, Human!CallKnown
<1>3. CASE Human(p)!OperationEnds(c)
  BY <1>3, CallEnds DEF Human!OperationEnds, Human!history, Intruded
<1>4. CASE Human(p)!CallFails(c)
  BY <1>4, CallEnds, CallGoes DEF Human!CallFails, Human!history, Intruded
<1>5. QED
  BY <1>1, <1>2, <1>3, <1>4

\* The relaunch for an extension ends the calls that waited for a connection.
LEMMA RelaunchKeeps ==
  ASSUME NEW p, Human(p)!HumanControlAssumption, Human(p)!IInv, NEW c \in Calls,
         Human(p)!Relaunch(c)
  PROVE  Human(p)!IInv'
<1> USE DEF Human!Relaunch
<1>0. calls' = [d \in Calls |-> IF d = c \/ d \in Human(p)!Waiting THEN Human(p)!Idle ELSE calls[d]]
  OBVIOUS
<1>1. calls \in [Calls -> Human(p)!CallType] /\ Human(p)!Idle \in Human(p)!CallType
          /\ Human(p)!Idle.at = "idle"
  BY CallTyped, IdleTyped DEF Human!IInv, Human!Idle
<1>2. /\ calls' \in [Calls -> Human(p)!CallType]
      /\ \A d \in Calls : calls'[d] = Human(p)!Idle \/ (calls'[d] = calls[d]
                                                        /\ d \notin Human(p)!Waiting)
  BY ONLY <1>0, <1>1
<1>3. ASSUME NEW d \in Calls PROVE Human(p)!CallKnown(d)' /\ Human(p)!HandsOver(d)' /\ Human(p)!LateKnown(d)'
  <2>1. CASE calls'[d] = Human(p)!Idle
    BY <1>1, <2>1, LateEases DEF Human!CallKnown, Human!HandsOver, Human!LateKnown, Human!Due
  <2>2. CASE calls'[d] = calls[d] /\ d \notin Human(p)!Waiting
    <3>1. Human(p)!CallKnown(d) /\ Human(p)!HandsOver(d) /\ Human(p)!LateKnown(d)
      BY DEF Human!IInv
    <3>2. Human(p)!CallKnown(d)'
      BY <2>2, <3>1 DEF Human!CallKnown, Human!Waiting
    <3>3. Human(p)!HandsOver(d)' /\ Human(p)!LateKnown(d)'
      BY <2>2, <3>1 DEF Human!HandsOver, Human!LateKnown, Human!Due, Human!Owed
    <3>4. QED
      BY <3>2, <3>3
  <2>3. QED
    BY <1>2, <2>1, <2>2
<1>4. requests' \in [p.requests -> Human(p)!Request]
          /\ \A r \in p.requests : requests[r].action = "gone" => requests'[r].action = "gone"
  BY LiveTyped DEF Human!IInv, Human!TypeOK
<1>5. Human(p)!TypeOK'
  <2>1. intrusions' \subseteq {"command", "resize", "relaunch", "action"}
    BY DEF Human!Intrudes, Human!IInv, Human!TypeOK
  <2>2. connection' \in 0..p.connections /\ connecting' \in BOOLEAN
            /\ open' \subseteq 1..p.connections
        /\ watched' \subseteq 1..p.connections
    <3>1. connecting' \in BOOLEAN
      OBVIOUS
    <3>2. QED
      BY <3>1 DEF Human!HumanControlAssumption
  <2>3. QED
    BY <1>2, <1>4, <2>1, <2>2 DEF Human!IInv, Human!TypeOK, Human!CallType
<1>6. Human(p)!OneTransport' /\ Human(p)!Paused' /\ Human(p)!AdmittedCallsPause'
  BY DEF Human!IInv, Human!OneTransport, Human!Paused, Human!AdmittedCallsPause, Human!Intrudes
<1>7. \A r \in told' : Human(p)!HandedOver(r)'
  BY DEF Human!IInv, Human!HandedOver
<1>8. QED
  BY <1>3, <1>4, <1>5, <1>6, <1>7, RequestsMove DEF Human!IInv

\* A call joins the connection there is, or waits for the one that is being made.
LEMMA BeginKeeps ==
  ASSUME NEW p, Human(p)!HumanControlAssumption, Human(p)!IInv, NEW c \in Calls,
         NEW k \in Human(p)!AdvancedKinds, Human(p)!Begin(c, k)
  PROVE  Human(p)!IInv'
<1> DEFINE x == [Human(p)!Idle EXCEPT !.kind = k, !.conn = connection,
                   !.at = IF connection # 0 THEN "page" ELSE "connecting"]
<1>1. x \in Human(p)!CallType /\ x.conn = connection
          /\ x.at = IF connection # 0 THEN "page" ELSE "connecting"
  BY IdleTyped DEF Human!IInv, Human!TypeOK, Human!Idle, Human!CallType
<1>2. calls' = [calls EXCEPT ![c] = x] /\ connecting' = (connection = 0)
      /\ UNCHANGED <<now, Human(p)!slot, connection, open, watched, origin, approvals,
         Human(p)!history>> /\ humanControl = nobody
  BY DEF Human!Begin, Human!Automated
<1> HIDE DEF x
<1>3. UNCHANGED <<humanControl, decided, open, late, strayed>> /\ (connecting => connecting')
  BY <1>2 DEF Human!slot, Human!history, Human!IInv, Human!OneTransport
<1>4. /\ calls' \in [Calls -> Human(p)!CallType]
      /\ \A d \in Calls : Human(p)!CallKnown(d)' /\ Human(p)!HandsOver(d)' /\ Human(p)!LateKnown(d)'
  BY <1>1, <1>2, <1>3, OneCall, LateEases DEF Human!history
<1>5. /\ late' \in [Calls -> 0..Human(p)!Owed + 1]
      /\ watched' \subseteq 1..p.connections /\ connecting' \in BOOLEAN
      /\ (connecting' => connection = 0 /\ (strayed \/ humanControl = nobody))
  <2>1. late' \in [Calls -> 0..Human(p)!Owed + 1] /\ watched' \subseteq 1..p.connections
    BY <1>2 DEF Human!IInv, Human!TypeOK, Human!history
  <2>2. connecting' \in BOOLEAN
    BY <1>2
  <2>3. QED
    BY <1>2, <2>1, <2>2
<1>6. QED
  BY <1>2, <1>4, <1>5, CallsOnly DEF Human!history, Intruded

\* A connection is made while none is under human control, and is the only one.
LEMMA ConnectedKeeps ==
  ASSUME NEW p, Human(p)!HumanControlAssumption, ClosesInOrder, Human(p)!IInv, Human(p)!Connected
  PROVE  Human(p)!IInv'
<1>1. PICK n \in 1..p.connections \ open :
        /\ connection' = n /\ open' = {n} /\ watched' = watched \ {n}
        /\ calls' = [c \in Calls |-> IF c \in Human(p)!Waiting THEN [calls[c] EXCEPT !.at =
                                                                     "page", !.conn = n]
                                     ELSE calls[c]]
  BY DEF Human!Connected
<1>2. connecting /\ connecting' = FALSE
          /\ UNCHANGED <<now, Human(p)!slot, origin, approvals, Human(p)!history>>
  BY DEF Human!Connected
<1>3. (strayed \/ humanControl = nobody) /\ connection = 0 /\ n # 0 /\ n \in 0..p.connections
  BY <1>2 DEF Human!IInv, Human!OneTransport, Human!Paused, Human!HumanControlAssumption
<1>4. calls \in [Calls -> Human(p)!CallType]
  BY CallTyped DEF Human!IInv
<1>5. ASSUME NEW c \in Calls
      PROVE  /\ calls'[c] \in Human(p)!CallType
             /\ \/ c \in Human(p)!Waiting /\ calls'[c].at = "page" /\ calls'[c].conn = n
                \/ c \notin Human(p)!Waiting /\ calls'[c] = calls[c]
  BY <1>1, <1>3, <1>4 DEF Human!CallType
<1>6. calls' \in [Calls -> Human(p)!CallType]
  BY <1>1, <1>5
<1>7. ASSUME NEW c \in Calls PROVE Human(p)!CallKnown(c)' /\ Human(p)!HandsOver(c)' /\ Human(p)!LateKnown(c)'
  <2>1. Human(p)!CallKnown(c) /\ Human(p)!HandsOver(c) /\ Human(p)!LateKnown(c)
    BY DEF Human!IInv
  <2>2. Human(p)!CallKnown(c)'
    BY <1>3, <1>5, <2>1 DEF Human!CallKnown, Human!Waiting
  <2>3. ~strayed /\ calls[c].at = "closing" /\ calls[c].kind = "takeover" =>
          decided[calls[c].request] # 0
    BY <1>3, <2>1 DEF Human!CallKnown, Human!HandsOver, Human!HumanControlAssumption
  <2>4. Human(p)!HandsOver(c)'
    BY <1>2, <1>5, <2>3 DEF Human!HandsOver, Human!history
  <2>5. ~strayed => late[c] <= Human(p)!Due("page")
    BY LateEases
  <2>6. Human(p)!LateKnown(c)'
    BY <1>2, <1>5, <2>1, <2>5 DEF Human!LateKnown, Human!Due, Human!Owed, Human!slot, Human!history
  <2>7. QED
    BY <2>2, <2>4, <2>6
<1>8. Human(p)!TypeOK'
  <2>1. connecting' \in BOOLEAN
    BY <1>2
  <2>2. open' \subseteq 1..p.connections /\ watched' \subseteq 1..p.connections
    BY <1>1 DEF Human!IInv, Human!TypeOK
  <2>3. QED
    BY <1>1, <1>2, <1>3, <1>6, <2>1, <2>2 DEF Human!IInv, Human!TypeOK, Human!slot,
       Human!history, Human!CallType
<1>9. Human(p)!OneTransport' /\ Human(p)!Paused' /\ Human(p)!AdmittedCallsPause'
  BY <1>1, <1>2, <1>3 DEF Human!IInv, Human!OneTransport, Human!Paused, Human!AdmittedCallsPause,
     Human!slot, Human!history
<1>10. \A r \in told' : Human(p)!HandedOver(r)'
  BY <1>2, <1>3 DEF Human!IInv, Human!TypeOK, Human!HandedOver, Human!slot, Human!history,
     Human!HumanControlAssumption
<1>11. QED
  BY <1>2, <1>7, <1>8, <1>9, <1>10, RequestsMove DEF Human!IInv, Human!slot, Human!history

\* No connection is made: those that waited end.
LEMMA ConnectFailsKeeps ==
  ASSUME NEW p, Human(p)!HumanControlAssumption, Human(p)!IInv, Human(p)!ConnectFails
  PROVE  Human(p)!IInv'
<1> USE DEF Human!ConnectFails
<1>0. calls' = [d \in Calls |-> IF d \in Human(p)!Waiting THEN Human(p)!Idle ELSE calls[d]]
  OBVIOUS
<1>1. calls \in [Calls -> Human(p)!CallType] /\ Human(p)!Idle \in Human(p)!CallType
          /\ Human(p)!Idle.at = "idle"
  BY CallTyped, IdleTyped DEF Human!IInv, Human!Idle
<1>2. calls' \in [Calls -> Human(p)!CallType]
      /\ \A d \in Calls : calls'[d] = Human(p)!Idle \/ (calls'[d] = calls[d]
                                                        /\ d \notin Human(p)!Waiting)
  BY ONLY <1>0, <1>1
<1>3. ASSUME NEW d \in Calls PROVE Human(p)!CallKnown(d)' /\ Human(p)!HandsOver(d)' /\ Human(p)!LateKnown(d)'
  <2>1. CASE calls'[d] = Human(p)!Idle
    BY <1>1, <2>1, LateEases DEF Human!history, Human!slot, Human!Owed, Human!CallKnown, Human!HandsOver, Human!LateKnown, Human!Due
  <2>2. CASE calls'[d] = calls[d] /\ d \notin Human(p)!Waiting
    <3>1. Human(p)!CallKnown(d) /\ Human(p)!HandsOver(d) /\ Human(p)!LateKnown(d)
      BY DEF Human!IInv
    <3>2. Human(p)!CallKnown(d)'
      BY <2>2, <3>1 DEF Human!CallKnown, Human!Waiting
    <3>3. Human(p)!HandsOver(d)' /\ Human(p)!LateKnown(d)'
      BY <2>2, <3>1 DEF Human!HandsOver, Human!LateKnown, Human!Due, Human!Owed, Human!slot, Human!history
    <3>4. QED
      BY <3>2, <3>3
  <2>3. QED
    BY <1>2, <2>1, <2>2
<1>4. late' \in [Calls -> 0..Human(p)!Owed + 1] /\ watched' \subseteq 1..p.connections /\ ~connecting'
  BY DEF Human!IInv, Human!TypeOK, Human!history
<1>5. connecting' \in BOOLEAN
  OBVIOUS
<1>6. QED
  BY <1>2, <1>3, <1>4, <1>5, CallsOnly DEF Human!history, Intruded

\* A page is found, and listened to, on a connection that works.
LEMMA FindPageKeeps ==
  ASSUME NEW p, Human(p)!HumanControlAssumption, Human(p)!IInv, NEW c \in Calls,
         Human(p)!FindPage(c)
  PROVE  Human(p)!IInv'
<1>0. PICK n \in open : /\ calls' = [calls EXCEPT ![c].at = "ready", ![c].conn = n]
                       /\ watched' = watched \union {n}
  BY DEF Human!FindPage
<1> DEFINE x == [calls[c] EXCEPT !.at = "ready", !.conn = n]
<1>1. calls \in [Calls -> Human(p)!CallType] /\ n \in 1..p.connections
  BY CallTyped DEF Human!IInv, Human!TypeOK
<1>2. x \in Human(p)!CallType /\ x.at = "ready" /\ x.conn # 0
  <2>1. n \in 0..p.connections /\ n # 0
    BY <1>1 DEF Human!HumanControlAssumption
  <2>2. QED
    BY <1>1, <2>1 DEF Human!CallType
<1>3. calls' = [calls EXCEPT ![c] = x]
  BY <1>0, <1>1
<1>4. UNCHANGED <<now, Human(p)!slot, connection, connecting, open, origin, approvals,
        Human(p)!history>>
  BY DEF Human!FindPage
<1> HIDE DEF x
<1>5. /\ calls' \in [Calls -> Human(p)!CallType]
      /\ \A d \in Calls : Human(p)!CallKnown(d)' /\ Human(p)!HandsOver(d)' /\ Human(p)!LateKnown(d)'
  BY <1>2, <1>3, <1>4, OneCall, LateEases DEF Human!slot, Human!history
<1>6. late' \in [Calls -> 0..Human(p)!Owed + 1] /\ watched' \subseteq 1..p.connections /\ connecting' \in BOOLEAN
      /\ (connecting' => connection = 0 /\ (strayed \/ humanControl = nobody))
  <2>1. late' \in [Calls -> 0..Human(p)!Owed + 1] /\ watched' \subseteq 1..p.connections
    BY <1>0, <1>1, <1>4 DEF Human!IInv, Human!TypeOK, Human!history
  <2>2. QED
    BY <1>4, <2>1 DEF Human!IInv, Human!TypeOK, Human!OneTransport, Human!Paused
<1>7. QED
  BY <1>4, <1>5, <1>6, CallsOnly DEF Human!history, Intruded

\* A call that takes the connection away, to close it: no human waits for that one.
LEMMA DisconnectKeeps ==
  ASSUME NEW p, Human(p)!HumanControlAssumption, Human(p)!IInv, NEW c \in Calls,
         Human(p)!Disconnect(c, nobody), calls[c].kind # "takeover",
         UNCHANGED <<now, Human(p)!slot, origin, approvals, Human(p)!history>>
  PROVE  Human(p)!IInv'
<1> DEFINE x == [calls[c] EXCEPT !.at = "closing", !.conn = connection, !.request = nobody]
<1>1. calls \in [Calls -> Human(p)!CallType]
  BY CallTyped DEF Human!IInv
<1>2. x \in Human(p)!CallType /\ x.at = "closing" /\ x.kind = calls[c].kind
  BY <1>1, ZenonT(90) DEF Human!CallType, Human!IInv, Human!TypeOK
<1>3. calls' = [calls EXCEPT ![c] = x] /\ connection' = 0 /\ UNCHANGED <<open, connecting, watched>>
  BY <1>1 DEF Human!Disconnect
<1> HIDE DEF x
<1>4. /\ calls' \in [Calls -> Human(p)!CallType]
      /\ \A d \in Calls : Human(p)!CallKnown(d)' /\ Human(p)!HandsOver(d)' /\ Human(p)!LateKnown(d)'
  BY <1>2, <1>3, OneCall, LateEases DEF Human!slot, Human!history
<1>5. Human(p)!TypeOK'
  BY <1>3, <1>4 DEF Human!IInv, Human!TypeOK, Human!CallType, Human!slot, Human!history,
     Human!HumanControlAssumption
<1>6. Human(p)!OneTransport' /\ Human(p)!Paused' /\ Human(p)!AdmittedCallsPause'
  BY <1>3 DEF Human!IInv, Human!OneTransport, Human!Paused, Human!AdmittedCallsPause, Human!slot,
     Human!history
<1>7. \A r \in told' : Human(p)!HandedOver(r)'
  BY <1>3 DEF Human!IInv, Human!HandedOver, Human!slot, Human!history
<1>8. QED
  BY <1>4, <1>5, <1>6, <1>7, RequestsMove DEF Human!IInv, Human!slot, Human!history

\* A takeover closes the one connection there is, or strays.
LEMMA TakeoverKeeps ==
  ASSUME NEW p, Human(p)!HumanControlAssumption, Human(p)!IInv, NEW c \in Calls,
         NEW r \in p.requests, Human(p)!RequestTakeover(c, r)
  PROVE  Human(p)!IInv'
<1> DEFINE x == [calls[c] EXCEPT !.at = "closing", !.conn = connection, !.request = r]
<1>1. calls \in [Calls -> Human(p)!CallType]
  BY CallTyped DEF Human!IInv
<1>2. x \in Human(p)!CallType /\ x.at = "closing" /\ x.request = r /\ x.conn = connection
  BY <1>1, ZenonT(90) DEF Human!CallType, Human!IInv, Human!TypeOK
<1>3. /\ calls' = [calls EXCEPT ![c] = x] /\ connection' = 0 /\ humanControl' = r
      /\ UNCHANGED <<now, usedApprovals, connecting, open, watched, origin, approvals,
         told, decided, survivors, intrusions, late>>
      /\ strayed' = (strayed \/ calls[c].conn # connection)
      /\ requests[r] = Human(p)!NoRequest
      /\ requests' = [Human(p)!Live EXCEPT ![r] =
                      [action |-> "resume", expires |-> now + p.takeover, origin |-> nobody]]
  BY <1>1 DEF Human!RequestTakeover, Human!Disconnect, Human!Ask
<1>4. ~strayed' => ~strayed /\ ~connecting /\ humanControl = nobody
                  /\ open \subseteq {connection}
  BY <1>3 DEF Human!RequestTakeover, Human!IInv, Human!CallKnown, Human!OneTransport, Human!Paused
<1>5. decided[r] = 0
  BY <1>3 DEF Human!IInv, Human!DecidedIsGone, Human!NoRequest
<1> HIDE DEF x
<1>6. /\ calls' \in [Calls -> Human(p)!CallType]
      /\ calls'[c] = x /\ \A d \in Calls : d # c => calls'[d] = calls[d]
  BY <1>1, <1>2, <1>3
<1>7. ASSUME NEW d \in Calls PROVE Human(p)!CallKnown(d)' /\ Human(p)!HandsOver(d)' /\ Human(p)!LateKnown(d)'
  <2>1. Human(p)!CallKnown(d) /\ Human(p)!HandsOver(d) /\ Human(p)!LateKnown(d)
    BY DEF Human!IInv
  <2>2. Human(p)!LateKnown(d)'
    <3>1. late[d] \in 0..3
      BY DEF Human!IInv, Human!TypeOK, Human!Owed
    <3>2. ~strayed' => late'[d] = 0
      BY <1>3, <1>4, <2>1, <3>1 DEF Human!LateKnown, Human!Due
    <3>3. QED
      BY <3>2 DEF Human!LateKnown, Human!Due, Human!Owed
  <2>3. CASE d = c
    BY <1>2, <1>3, <1>4, <1>6, <2>2, <2>3 DEF Human!CallKnown, Human!HandsOver
  <2>4. CASE d # c
    <3>1. ~strayed' /\ calls[d].at = "closing" /\ calls[d].kind = "takeover" =>
            calls[d].request \in p.requests /\ decided[calls[d].request] # 0
      BY <1>4, <2>1 DEF Human!CallKnown, Human!HandsOver, Human!HumanControlAssumption
    <3>2. QED
      BY <1>3, <1>6, <2>1, <2>2, <2>4, <3>1 DEF Human!CallKnown, Human!HandsOver
  <2>5. QED
    BY <2>3, <2>4
<1>8. requests' \in [p.requests -> Human(p)!Request]
          /\ \A o \in p.requests : requests[o].action = "gone" => requests'[o].action = "gone"
  <2>1. [action |-> "resume", expires |-> now + p.takeover, origin |-> nobody] \in Human(p)!Request
    BY DEF Human!Request, Human!IInv, Human!TypeOK, Human!HumanControlAssumption
  <2>2. Human(p)!Live \in [p.requests -> Human(p)!Request]
            /\ \A o \in p.requests : requests[o].action = "gone" => Human(p)!Live[o].action = "gone"
    BY LiveTyped DEF Human!IInv
  <2>3. requests[r].action # "gone"
    BY <1>3 DEF Human!NoRequest
  <2>4. QED
    BY <1>3, <2>1, <2>2, <2>3
<1>9. Human(p)!TypeOK'
  <2>1. connection' \in 0..p.connections
    BY <1>3 DEF Human!HumanControlAssumption
  <2>2. strayed' \in BOOLEAN
    BY <1>3
  <2>3. QED
    BY <1>3, <1>6, <1>8, <2>1, <2>2 DEF Human!IInv, Human!TypeOK, Human!CallType
<1>10. Human(p)!OneTransport' /\ Human(p)!Paused' /\ Human(p)!AdmittedCallsPause'
  BY <1>3, <1>4 DEF Human!IInv, Human!OneTransport, Human!Paused, Human!AdmittedCallsPause
<1>11. \A q \in told' : Human(p)!HandedOver(q)'
  BY <1>3, <1>4 DEF Human!IInv, Human!TypeOK, Human!HandedOver, Human!HumanControlAssumption
<1>12. QED
  BY <1>3, <1>7, <1>8, <1>9, <1>10, <1>11, RequestsMove DEF Human!IInv

\* A connection is closed; if its human is told now, nothing works any more.
LEMMA ClosedKeeps ==
  ASSUME NEW p, Human(p)!HumanControlAssumption, Human(p)!IInv, NEW c \in Calls,
         Human(p)!Closed(c)
  PROVE  Human(p)!IInv'
<1>1. calls \in [Calls -> Human(p)!CallType] /\ Human(p)!Idle \in Human(p)!CallType
          /\ Human(p)!Idle.at = "idle"
  BY CallTyped, IdleTyped DEF Human!IInv, Human!Idle
<1>2. /\ calls[c].at = "closing" /\ calls' = [calls EXCEPT ![c] = Human(p)!Idle]
      /\ open' = open \ {calls[c].conn}
      /\ told' = IF calls[c].kind = "takeover" THEN told \union {calls[c].request} ELSE told
      /\ UNCHANGED <<now, humanControl, connection, connecting, watched, origin, approvals,
         decided, survivors, intrusions, late, strayed>>
  BY DEF Human!Closed, Human!Ends
<1>3. calls' \in [Calls -> Human(p)!CallType] /\ calls'[c] = Human(p)!Idle
          /\ \A d \in Calls : d # c => calls'[d] = calls[d]
  BY <1>1, <1>2
<1>4. /\ requests' \in [p.requests -> Human(p)!Request]
      /\ usedApprovals' \in [p.nonces -> Nat \union {nobody}]
      /\ \A r \in p.requests : requests[r].action = "gone" => requests'[r].action = "gone"
  <2>1. CASE Human(p)!Forget
    <3>1. /\ requests' \in [p.requests -> Human(p)!Request]
          /\ \A r \in p.requests : requests[r].action = "gone" => requests'[r].action = "gone"
      BY <2>1, LiveTyped DEF Human!Forget, Human!IInv, Human!TypeOK, Human!Pending
    <3>2. usedApprovals' \in [p.nonces -> Nat \union {nobody}]
      BY <2>1 DEF Human!Forget
    <3>3. QED
      BY <3>1, <3>2
  <2>2. CASE UNCHANGED <<requests, usedApprovals>>
    BY <2>2 DEF Human!IInv, Human!TypeOK
  <2>3. QED
    BY <2>1, <2>2 DEF Human!Closed
<1>5. ASSUME NEW d \in Calls PROVE Human(p)!CallKnown(d)' /\ Human(p)!HandsOver(d)' /\ Human(p)!LateKnown(d)'
  <2>1. CASE d = c
    BY <1>1, <1>2, <1>3, <2>1, LateEases DEF Human!CallKnown, Human!HandsOver, Human!LateKnown, Human!Due
  <2>2. CASE d # c
    <3>1. Human(p)!CallKnown(d) /\ Human(p)!HandsOver(d) /\ Human(p)!LateKnown(d)
      BY DEF Human!IInv
    <3>2. QED
      BY <1>2, <1>3, <2>2, <3>1 DEF Human!CallKnown, Human!HandsOver, Human!LateKnown, Human!Due
  <2>3. QED
    BY <2>1, <2>2
<1>6. Human(p)!CallKnown(c) /\ Human(p)!HandsOver(c)
  BY DEF Human!IInv
<1>7. told' \subseteq p.requests
  BY <1>2, <1>6 DEF Human!IInv, Human!TypeOK, Human!CallKnown
<1>8. Human(p)!TypeOK'
  BY <1>2, <1>3, <1>4, <1>7 DEF Human!IInv, Human!TypeOK, Human!CallType
<1>9. Human(p)!OneTransport' /\ Human(p)!Paused' /\ Human(p)!AdmittedCallsPause'
  BY <1>2 DEF Human!IInv, Human!OneTransport, Human!Paused, Human!AdmittedCallsPause
<1>10. ASSUME NEW r \in told' PROVE Human(p)!HandedOver(r)'
  <2>1. CASE r \in told
    BY <1>2, <2>1 DEF Human!IInv, Human!HandedOver
  <2>2. CASE r \notin told
    BY <1>2, <1>6, <2>2 DEF Human!HandsOver, Human!HandedOver
  <2>3. QED
    BY <2>1, <2>2
<1>11. QED
  BY <1>2, <1>4, <1>5, <1>8, <1>9, <1>10, RequestsMove DEF Human!IInv

\* A detach whose downloads are over: it disconnects, or has nothing to close.
LEMMA DetachKeeps ==
  ASSUME NEW p, Human(p)!HumanControlAssumption, Human(p)!IInv, NEW c \in Calls,
         Human(p)!DetachDisconnects(c)
  PROVE  Human(p)!IInv'
<1>1. calls[c].at = "draining" /\ calls[c].kind = "detach"
  BY DEF Human!DetachDisconnects, Human!IInv, Human!CallKnown
<1>2. CASE Human(p)!Disconnect(c, nobody) /\ UNCHANGED Human(p)!slot
  BY <1>1, <1>2, DisconnectKeeps DEF Human!DetachDisconnects
<1>3. CASE Human(p)!Ends(c) /\ Human(p)!Forget /\ UNCHANGED <<humanControl, Human(p)!transport>>
  <2>1. Human(p)!Idle \in Human(p)!CallType /\ Human(p)!Idle.at = "idle"
    BY IdleTyped DEF Human!Idle
  <2>2. UNCHANGED <<now, humanControl, connection, connecting, open, watched, origin, approvals,
          told, decided,
                    survivors, intrusions, late, strayed>>
    BY <1>3 DEF Human!DetachDisconnects, Human!transport, Human!history
  <2>3. /\ calls' \in [Calls -> Human(p)!CallType]
        /\ \A d \in Calls : Human(p)!CallKnown(d)' /\ Human(p)!HandsOver(d)' /\ Human(p)!LateKnown(d)'
    BY <1>3, <2>1, <2>2, OneCall, LateEases DEF Human!Ends
  <2>4. /\ requests' \in [p.requests -> Human(p)!Request]
        /\ \A r \in p.requests : requests[r].action = "gone" => requests'[r].action = "gone"
    BY <1>3, LiveTyped DEF Human!Forget, Human!IInv, Human!TypeOK, Human!Pending
  <2>5. usedApprovals' \in [p.nonces -> Nat \union {nobody}]
    BY <1>3 DEF Human!Forget
  <2>6. /\ late' \in [Calls -> 0..Human(p)!Owed + 1]
        /\ origin' \in p.origins /\ survivors' \subseteq p.requests
        /\ watched' \subseteq 1..p.connections
        /\ connecting' \in BOOLEAN /\ (connecting' => connection = 0 /\ (strayed \/ humanControl = nobody))
    BY <2>2 DEF Human!IInv, Human!TypeOK, Human!OneTransport, Human!Paused
  <2>7. QED
    BY <2>2, <2>3, <2>4, <2>5, <2>6, CallsMove DEF Intruded
<1>4. QED
  BY <1>2, <1>3 DEF Human!DetachDisconnects

\* A permission is asked for: the request is new, and none that was decided comes back.
LEMMA AskKeeps ==
  ASSUME NEW p, Human(p)!HumanControlAssumption, Human(p)!IInv, NEW c \in Calls,
         NEW r \in p.requests, Human(p)!AskPermission(c, r)
  PROVE  Human(p)!IInv'
<1> DEFINE q == [action |-> "permission", expires |-> now + 1, origin |-> origin]
<1>1. /\ requests[r] = Human(p)!NoRequest /\ requests' = [Human(p)!Live EXCEPT ![r] = q]
      /\ Human(p)!Ends(c)
      /\ UNCHANGED <<now, humanControl, usedApprovals, Human(p)!transport, origin, approvals,
         Human(p)!history>>
  BY DEF Human!AskPermission, Human!Ask
<1>2. q \in Human(p)!Request
  BY DEF Human!Request, Human!IInv, Human!TypeOK, Human!HumanControlAssumption
<1> HIDE DEF q
<1>3. requests' \in [p.requests -> Human(p)!Request]
      /\ \A o \in p.requests : requests[o].action = "gone" => requests'[o].action = "gone"
  <2>1. Human(p)!Live \in [p.requests -> Human(p)!Request]
        /\ \A o \in p.requests : requests[o].action = "gone" => Human(p)!Live[o].action = "gone"
    BY LiveTyped DEF Human!IInv
  <2>2. requests[r].action # "gone"
    BY <1>1 DEF Human!NoRequest
  <2>3. QED
    BY <1>1, <1>2, <2>1, <2>2
<1>4. Human(p)!Idle \in Human(p)!CallType /\ Human(p)!Idle.at = "idle"
  BY IdleTyped DEF Human!Idle
<1>5. UNCHANGED <<now, humanControl, connection, connecting, open, watched, origin, approvals,
                  told, decided, survivors, intrusions, usedApprovals,
                  late, strayed>>
  BY <1>1 DEF Human!transport, Human!history
<1>6. /\ calls' \in [Calls -> Human(p)!CallType]
      /\ \A d \in Calls : Human(p)!CallKnown(d)' /\ Human(p)!HandsOver(d)' /\ Human(p)!LateKnown(d)'
  BY <1>1, <1>4, <1>5, OneCall, LateEases DEF Human!Ends
<1>7. /\ late' \in [Calls -> 0..Human(p)!Owed + 1]
      /\ origin' \in p.origins /\ survivors' \subseteq p.requests
      /\ watched' \subseteq 1..p.connections
      /\ connecting' \in BOOLEAN /\ (connecting' => connection = 0 /\ (strayed \/ humanControl = nobody))
      /\ usedApprovals' \in [p.nonces -> Nat \union {nobody}]
  BY <1>5 DEF Human!IInv, Human!TypeOK, Human!OneTransport, Human!Paused
<1>8. QED
  BY <1>3, <1>5, <1>6, <1>7, CallsMove DEF Intruded

\* An approval that is accepted leaves the nonce used, and its request gone for good.
LEMMA Consumed ==
  ASSUME NEW p, Human(p)!HumanControlAssumption, Human(p)!IInv, NEW a \in approvals,
         Human(p)!Approved(a), Human(p)!Consume(a)
  PROVE  /\ a.request \in p.requests /\ decided[a.request] = 0
         /\ requests[a.request].action = IF a.action = "resume" THEN "resume" ELSE "permission"
         /\ usedApprovals' \in [p.nonces -> Nat \union {nobody}]
         /\ requests' \in [p.requests -> Human(p)!Request] /\ requests'[a.request].action = "gone"
         /\ \A r \in p.requests : requests[r].action = "gone" => requests'[r].action = "gone"
<1>1. /\ Human(p)!Live \in [p.requests -> Human(p)!Request]
      /\ Human(p)!Gone \in Human(p)!Request /\ Human(p)!Gone.action = "gone"
      /\ \A r \in p.requests : requests[r].action = "gone" => Human(p)!Live[r].action = "gone"
      /\ \A r \in p.requests : Human(p)!Live[r].action \in {"resume", "permission"} =>
         Human(p)!Pending(r)
  BY LiveTyped DEF Human!IInv
<1>2. a \in Human(p)!Approval
  BY DEF Human!IInv, Human!TypeOK
<1>3. a.request \in p.requests
          /\ Human(p)!Live[a.request].action = IF a.action =
             "resume" THEN "resume" ELSE "permission"
  BY <1>2 DEF Human!Approval, Human!Approved
<1>4. Human(p)!Live[a.request] = requests[a.request]
  BY <1>3 DEF Human!Live, Human!Gone, Human!NoRequest
<1>5. requests[a.request].action # "gone" /\ decided[a.request] = 0
  BY <1>3, <1>4 DEF Human!IInv, Human!DecidedIsGone
<1>6. usedApprovals' \in [p.nonces -> Nat \union {nobody}]
  BY <1>2 DEF Human!Consume, Human!Approval, Human!IInv, Human!TypeOK
<1>7. QED
  BY <1>1, <1>3, <1>4, <1>5, <1>6 DEF Human!Consume

\* A takeover ends by its own request, which is decided then.
LEMMA ResumeKeeps ==
  ASSUME NEW p, Human(p)!HumanControlAssumption, Human(p)!IInv, NEW a \in approvals,
         Human(p)!Resume(a)
  PROVE  Human(p)!IInv'
<1> DEFINE r == a.request
<1>1. /\ r \in p.requests /\ decided[r] = 0
      /\ usedApprovals' \in [p.nonces -> Nat \union {nobody}]
      /\ requests' \in [p.requests -> Human(p)!Request] /\ requests'[r].action = "gone"
      /\ \A o \in p.requests : requests[o].action = "gone" => requests'[o].action = "gone"
  BY Consumed DEF Human!Resume
<1>2. UNCHANGED <<now, connection, connecting, open, watched, origin, calls, approvals, told,
        survivors, intrusions, strayed>>
  BY DEF Human!Resume, Human!transport
<1>3. CASE humanControl # r
  <2>1. UNCHANGED <<humanControl, decided, late>>
    BY <1>3 DEF Human!Resume
  <2>2. /\ calls' \in [Calls -> Human(p)!CallType]
        /\ \A d \in Calls : Human(p)!CallKnown(d)' /\ Human(p)!HandsOver(d)' /\ Human(p)!LateKnown(d)'
    BY <1>2, <2>1, CallTyped DEF Human!IInv, Human!CallKnown, Human!HandsOver, Human!LateKnown, Human!Due
  <2>3. /\ late' \in [Calls -> 0..Human(p)!Owed + 1]
        /\ origin' \in p.origins /\ survivors' \subseteq p.requests
        /\ watched' \subseteq 1..p.connections
        /\ connecting' \in BOOLEAN /\ (connecting' => connection = 0 /\ (strayed \/ humanControl = nobody))
    BY <1>2, <2>1 DEF Human!IInv, Human!TypeOK, Human!OneTransport, Human!Paused
  <2>4. QED
    BY <1>1, <1>2, <2>1, <2>2, <2>3, CallsMove DEF Intruded
<1>4. CASE humanControl = r
  <2>1. humanControl' = nobody /\ decided' = [decided EXCEPT ![r] = @ + 1]
        /\ late' = [c \in Calls |-> 0]
    BY <1>4 DEF Human!Resume
  <2>2. decided \in [p.requests -> Nat]
    BY DEF Human!IInv, Human!TypeOK
  <2> HIDE DEF r
  <2>3. decided' \in [p.requests -> Nat] /\ decided'[r] = 1 /\ \A q \in p.requests : q # r =>
          decided'[q] = decided[q]
    BY <1>1, <2>1, <2>2
  <2>4. Human(p)!TypeOK'
    BY <1>1, <1>2, <2>1, <2>3 DEF Human!IInv, Human!TypeOK, Human!Owed
  <2>5. Human(p)!OneTransport' /\ Human(p)!Paused' /\ Human(p)!AdmittedCallsPause'
    BY <1>2, <2>1 DEF Human!IInv, Human!OneTransport, Human!Paused, Human!AdmittedCallsPause
  <2>6. ASSUME NEW c \in Calls PROVE Human(p)!CallKnown(c)' /\ Human(p)!HandsOver(c)' /\ Human(p)!LateKnown(c)'
    <3>1. Human(p)!CallKnown(c) /\ Human(p)!HandsOver(c) /\ Human(p)!LateKnown(c)
      BY DEF Human!IInv
    <3>2. QED
      BY <1>2, <1>4, <2>1, <2>3, <3>1 DEF Human!CallKnown, Human!HandsOver, Human!LateKnown, Human!Due
  <2>7. ASSUME NEW q \in told' PROVE Human(p)!HandedOver(q)'
    <3>1. q \in p.requests /\ Human(p)!HandedOver(q)
      BY <1>2 DEF Human!IInv, Human!TypeOK
    <3>2. QED
      BY <1>2, <1>4, <2>3, <3>1 DEF Human!HandedOver
  <2>8. ASSUME NEW q \in p.requests PROVE Human(p)!DecidedIsGone(q)'
    <3>1. Human(p)!DecidedIsGone(q)
      BY DEF Human!IInv
    <3>2. QED
      BY <1>1, <2>3, <3>1 DEF Human!DecidedIsGone
  <2>9. QED
    BY <2>4, <2>5, <2>6, <2>7, <2>8 DEF Human!IInv
<1>5. QED
  BY <1>3, <1>4

\* A permission is granted or revoked once: what was told of other requests stays.
LEMMA GrantKeeps ==
  ASSUME NEW p, Human(p)!HumanControlAssumption, Human(p)!IInv, NEW c \in Calls,
         NEW a \in approvals, Human(p)!Grant(c, a)
  PROVE  Human(p)!IInv'
<1> DEFINE r == a.request
<1>1. /\ r \in p.requests /\ decided[r] = 0
      /\ usedApprovals' \in [p.nonces -> Nat \union {nobody}]
      /\ requests' \in [p.requests -> Human(p)!Request] /\ requests'[r].action = "gone"
      /\ \A o \in p.requests : requests[o].action = "gone" => requests'[o].action = "gone"
  BY Consumed DEF Human!Grant
<1>2. UNCHANGED <<now, humanControl, connection, connecting, open, watched, origin, approvals,
        told, survivors,
                  intrusions, late, strayed>>
      /\ Human(p)!Ends(c) /\ decided' = [decided EXCEPT ![r] = @ + 1]
  BY DEF Human!Grant, Human!transport
<1>3. calls \in [Calls -> Human(p)!CallType] /\ Human(p)!Idle \in Human(p)!CallType
          /\ Human(p)!Idle.at = "idle" /\ decided \in [p.requests -> Nat]
  BY CallTyped, IdleTyped DEF Human!IInv, Human!TypeOK, Human!Idle
<1> HIDE DEF r
<1>4. calls' \in [Calls -> Human(p)!CallType] /\ calls'[c] = Human(p)!Idle
          /\ \A d \in Calls : d # c => calls'[d] = calls[d]
  BY <1>2, <1>3 DEF Human!Ends
<1>5. decided' \in [p.requests -> Nat] /\ decided'[r] = 1 /\ \A q \in p.requests : q # r =>
        decided'[q] = decided[q]
  BY <1>1, <1>2, <1>3
<1>6. Human(p)!TypeOK'
  BY <1>1, <1>2, <1>4, <1>5 DEF Human!IInv, Human!TypeOK, Human!CallType
<1>7. Human(p)!OneTransport' /\ Human(p)!Paused' /\ Human(p)!AdmittedCallsPause'
  BY <1>2 DEF Human!IInv, Human!OneTransport, Human!Paused, Human!AdmittedCallsPause
<1>8. ASSUME NEW d \in Calls PROVE Human(p)!CallKnown(d)' /\ Human(p)!HandsOver(d)' /\ Human(p)!LateKnown(d)'
  <2>1. Human(p)!CallKnown(d) /\ Human(p)!HandsOver(d) /\ Human(p)!LateKnown(d)
    BY DEF Human!IInv
  <2>2. CASE d = c
    BY <1>2, <1>3, <1>4, <2>2, LateEases DEF Human!CallKnown, Human!HandsOver, Human!LateKnown, Human!Due
  <2>3. CASE d # c
    BY <1>2, <1>4, <1>5, <2>1, <2>3 DEF Human!CallKnown, Human!HandsOver, Human!LateKnown, Human!Due
  <2>4. QED
    BY <2>2, <2>3
<1>9. ASSUME NEW q \in told' PROVE Human(p)!HandedOver(q)'
  <2>1. q \in p.requests /\ Human(p)!HandedOver(q)
    BY <1>2 DEF Human!IInv, Human!TypeOK
  <2>2. QED
    BY <1>2, <1>5, <2>1 DEF Human!HandedOver
<1>10. ASSUME NEW q \in p.requests PROVE Human(p)!DecidedIsGone(q)'
  <2>1. Human(p)!DecidedIsGone(q)
    BY DEF Human!IInv
  <2>2. QED
    BY <1>1, <1>5, <2>1 DEF Human!DecidedIsGone
<1>11. QED
  BY <1>6, <1>7, <1>8, <1>9, <1>10 DEF Human!IInv

\* The host signs, the page navigates, time passes: no call and no request is decided.
LEMMA SurroundingsKeep ==
  ASSUME NEW p, Human(p)!HumanControlAssumption, Human(p)!IInv,
         \/ \E n \in p.nonces, r \in p.requests : Human(p)!Sign(n, r)
         \/ \E o \in p.origins : Human(p)!Navigate(o)
         \/ Human(p)!Tick
  PROVE  Human(p)!IInv'
<1>1. CASE \E n \in p.nonces, r \in p.requests : Human(p)!Sign(n, r)
  <2>1. PICK n \in p.nonces, r \in p.requests : Human(p)!Sign(n, r)
    BY <1>1
  <2>2. [nonce |-> n, request |-> r, action |-> IF requests[r].action =
         "resume" THEN "resume" ELSE "grant",
         origin |-> requests[r].origin, expires |-> now + 1] \in Human(p)!Approval
    BY DEF Human!IInv, Human!TypeOK, Human!Request, Human!Approval, Human!HumanControlAssumption
  <2>3. approvals' \subseteq Human(p)!Approval
            /\ UNCHANGED <<now, Human(p)!slot, Human(p)!transport, origin, calls, Human(p)!history>>
    BY <2>1, <2>2 DEF Human!Sign, Human!IInv, Human!TypeOK
  <2>4. Human(p)!TypeOK'
    BY <2>3 DEF Human!IInv, Human!TypeOK, Human!slot, Human!transport, Human!history
  <2>5. Human(p)!OneTransport' /\ Human(p)!Paused' /\ Human(p)!AdmittedCallsPause'
    BY <2>3 DEF Human!IInv, Human!OneTransport, Human!Paused, Human!AdmittedCallsPause,
       Human!slot, Human!transport, Human!history
  <2>6. \A c \in Calls : Human(p)!CallKnown(c)' /\ Human(p)!HandsOver(c)' /\ Human(p)!LateKnown(c)'
    BY <2>3 DEF Human!IInv, Human!CallKnown, Human!HandsOver, Human!LateKnown, Human!Due, Human!slot, Human!transport,
       Human!history
  <2>7. (\A r_1 \in told : Human(p)!HandedOver(r_1))'
            /\ (\A r_1 \in p.requests : Human(p)!DecidedIsGone(r_1))'
    BY <2>3 DEF Human!IInv, Human!HandedOver, Human!DecidedIsGone, Human!slot, Human!transport,
       Human!history
  <2>8. QED
    BY <2>4, <2>5, <2>6, <2>7 DEF Human!IInv
<1>2. CASE \E o \in p.origins : Human(p)!Navigate(o)
  <2>1. PICK o \in p.origins : Human(p)!Navigate(o)
    BY <1>2
  <2>2. /\ requests' \in [p.requests -> Human(p)!Request]
        /\ \A r \in p.requests : requests[r].action = "gone" => requests'[r].action = "gone"
    BY <2>1, LiveTyped DEF Human!Navigate, Human!IInv, Human!TypeOK
  <2>3. UNCHANGED <<now, humanControl, connection, connecting, open, watched, usedApprovals, calls,
          approvals,
                    told, decided, intrusions, late, strayed>>
        /\ origin' \in p.origins /\ survivors' \subseteq p.requests
    BY <2>1 DEF Human!Navigate, Human!transport, Human!IInv, Human!TypeOK
  <2>4. /\ calls' \in [Calls -> Human(p)!CallType]
        /\ \A d \in Calls : Human(p)!CallKnown(d)' /\ Human(p)!HandsOver(d)' /\ Human(p)!LateKnown(d)'
    BY <2>3, CallTyped DEF Human!IInv, Human!CallKnown, Human!HandsOver, Human!LateKnown, Human!Due
  <2>5. /\ late' \in [Calls -> 0..Human(p)!Owed + 1]
        /\ watched' \subseteq 1..p.connections
        /\ usedApprovals' \in [p.nonces -> Nat \union {nobody}]
        /\ connecting' \in BOOLEAN /\ (connecting' => connection = 0 /\ (strayed \/ humanControl = nobody))
    BY <2>3 DEF Human!IInv, Human!TypeOK, Human!OneTransport, Human!Paused
  <2>6. QED
    BY <2>2, <2>3, <2>4, <2>5, CallsMove DEF Intruded
<1>3. CASE Human(p)!Tick
  <2>1. now' \in 0..p.now
            /\ UNCHANGED <<Human(p)!slot, Human(p)!transport, origin, calls, approvals,
               Human(p)!history>>
    BY <1>3 DEF Human!Tick, Human!IInv, Human!TypeOK, Human!HumanControlAssumption
  <2>4. Human(p)!TypeOK'
    BY <2>1 DEF Human!IInv, Human!TypeOK, Human!slot, Human!transport, Human!history
  <2>5. Human(p)!OneTransport' /\ Human(p)!Paused' /\ Human(p)!AdmittedCallsPause'
    BY <2>1 DEF Human!IInv, Human!OneTransport, Human!Paused, Human!AdmittedCallsPause,
       Human!slot, Human!transport, Human!history
  <2>6. \A c \in Calls : Human(p)!CallKnown(c)' /\ Human(p)!HandsOver(c)' /\ Human(p)!LateKnown(c)'
    BY <2>1 DEF Human!IInv, Human!CallKnown, Human!HandsOver, Human!LateKnown, Human!Due, Human!slot, Human!transport,
       Human!history
  <2>7. (\A r \in told : Human(p)!HandedOver(r))'
            /\ (\A r \in p.requests : Human(p)!DecidedIsGone(r))'
    BY <2>1 DEF Human!IInv, Human!HandedOver, Human!DecidedIsGone, Human!slot, Human!transport,
       Human!history
  <2>8. QED
    BY <2>4, <2>5, <2>6, <2>7 DEF Human!IInv
<1>4. QED
  BY <1>1, <1>2, <1>3

\* Steps that leave the slot alone keep the invariant.
LEMMA HumanStays ==
  ASSUME NEW p, Human(p)!IInv, UNCHANGED Human(p)!vars
  PROVE  Human(p)!IInv'
<1>1. Human(p)!TypeOK'
  BY DEF Human!IInv, Human!TypeOK, Human!vars
<1>2. Human(p)!OneTransport' /\ Human(p)!Paused' /\ Human(p)!AdmittedCallsPause'
  BY DEF Human!IInv, Human!OneTransport, Human!Paused, Human!AdmittedCallsPause, Human!vars
<1>3. \A c \in Calls : Human(p)!CallKnown(c)' /\ Human(p)!HandsOver(c)' /\ Human(p)!LateKnown(c)'
  BY DEF Human!IInv, Human!CallKnown, Human!HandsOver, Human!LateKnown, Human!Due, Human!vars
<1>4. (\A r \in told : Human(p)!HandedOver(r))'
          /\ (\A r \in p.requests : Human(p)!DecidedIsGone(r))'
  BY DEF Human!IInv, Human!HandedOver, Human!DecidedIsGone, Human!vars
<1>5. QED
  BY <1>1, <1>2, <1>3, <1>4 DEF Human!IInv

\* Every step keeps the invariant.
LEMMA HumanSteps ==
  ASSUME NEW p, Human(p)!HumanControlAssumption, ClosesInOrder, Human(p)!IInv, Human(p)!Next
  PROVE  Human(p)!IInv'
<1>1. ASSUME NEW c \in Calls, (\E k \in Human(p)!LegacyKinds : Human(p)!CallTool(c, k))
                 \/ Human(p)!Detach(c)
      PROVE  Human(p)!IInv'
  BY <1>1, CallBegins
<1>2. ASSUME NEW c \in Calls, Human(p)!Send(c) \/ Human(p)!Press(c) \/ Human(p)!Release(c)
                 \/ Human(p)!AskWindow(c) \/ Human(p)!SetWindowBounds(c)
      PROVE  Human(p)!IInv'
  BY <1>2, CommandsKeep, OwedReleaseKeeps
<1>3. ASSUME NEW c \in Calls, Human(p)!Relaunch(c) PROVE Human(p)!IInv'
  BY <1>3, RelaunchKeeps
<1>4. ASSUME NEW c \in Calls, NEW k \in Human(p)!AdvancedKinds, Human(p)!Begin(c, k)
      PROVE  Human(p)!IInv'
  BY <1>4, BeginKeeps
<1>5. ASSUME NEW c \in Calls, Human(p)!FindPage(c) PROVE Human(p)!IInv'
  BY <1>5, FindPageKeeps
<1>6. ASSUME NEW c \in Calls, Human(p)!StartOperation(c) \/ Human(p)!Operate(c)
                 \/ Human(p)!OperationEnds(c) \/ Human(p)!CallFails(c)
      PROVE  Human(p)!IInv'
  BY <1>6, OperationsKeep
<1>7. ASSUME NEW c \in Calls, Human(p)!Abort(c) PROVE Human(p)!IInv'
  <2>1. calls[c].kind # "takeover"
    BY <1>7 DEF Human!Abort, Human!IInv, Human!CallKnown
  <2>2. QED
    BY <1>7, <2>1, DisconnectKeeps DEF Human!Abort
<1>8. ASSUME NEW c \in Calls, Human(p)!Closed(c) PROVE Human(p)!IInv'
  BY <1>8, ClosedKeeps
<1>9. ASSUME NEW c \in Calls, Human(p)!DetachDisconnects(c) PROVE Human(p)!IInv'
  BY <1>9, DetachKeeps
<1>10. ASSUME NEW c \in Calls, NEW r \in p.requests, Human(p)!RequestTakeover(c, r)
       PROVE  Human(p)!IInv'
  BY <1>10, TakeoverKeeps
<1>11. ASSUME NEW c \in Calls, NEW r \in p.requests, Human(p)!AskPermission(c, r)
       PROVE  Human(p)!IInv'
  BY <1>11, AskKeeps
<1>12. ASSUME NEW c \in Calls, NEW a \in approvals, Human(p)!Grant(c, a) PROVE Human(p)!IInv'
  BY <1>12, GrantKeeps
<1>13. CASE Human(p)!Connected \/ Human(p)!ConnectFails
  BY <1>13, ConnectedKeeps, ConnectFailsKeeps
<1>14. ASSUME NEW a \in approvals, Human(p)!Resume(a) PROVE Human(p)!IInv'
  BY <1>14, ResumeKeeps
<1>15. CASE \/ \E n \in p.nonces, r \in p.requests : Human(p)!Sign(n, r)
            \/ \E o \in p.origins : Human(p)!Navigate(o)
            \/ Human(p)!Tick
  BY <1>15, SurroundingsKeep
<1>16. QED
  BY <1>1, <1>2, <1>3, <1>4, <1>5, <1>6, <1>7, <1>8, <1>9, <1>10, <1>11, <1>12, <1>13, <1>14,
     <1>15
     DEF Human!Next

\* What the invariant says of the human and of the requests.
LEMMA HumanMeans ==
  ASSUME NEW p, Human(p)!IInv
  PROVE  /\ Human(p)!TypeOK /\ Human(p)!AdmittedCallsPause /\ Human(p)!OnlyOwedReleases
         /\ Human(p)!OrderlyTakeoversEnd /\ Human(p)!RequestsDecidedOnce
<1>1. Human(p)!OrderlyTakeoversEnd
  BY DEF Human!IInv, Human!HandedOver, Human!TakeoversEndByTheirResume, Human!OrderlyTakeoversEnd
<1>2. Human(p)!RequestsDecidedOnce
  BY DEF Human!IInv, Human!TypeOK, Human!DecidedIsGone, Human!RequestsDecidedOnce
<1>3. ASSUME NEW c \in Calls, ~strayed PROVE late[c] <= Human(p)!Owed
  <2>1. late[c] \in 0..3 /\ late[c] <= Human(p)!Due(calls[c].at)
    BY <1>3 DEF Human!IInv, Human!TypeOK, Human!LateKnown, Human!Owed
  <2>2. QED
    BY <2>1 DEF Human!Due, Human!Owed
<1>4. QED
  BY <1>1, <1>2, <1>3 DEF Human!IInv, Human!OnlyOwedReleases

-----------------------------------------------------------------------------
(* The table of tabs                                                        *)

\* The instance counts as FiniteSets does.
LEMMA TabCounts ==
  ASSUME NEW p, NEW S
  PROVE  /\ Tab(p)!Cardinality(S) = Cardinality(S)
         /\ Tab(p)!IsFiniteSet(S) = IsFiniteSet(S)
BY Zenon DEF Tab!Cardinality, Cardinality, Tab!IsFiniteSet, IsFiniteSet

\* At first there is no browser and no call.
LEMMA TabsStarts == ASSUME NEW p, Tab(p)!BrowserTabsAssumption PROVE Tab(p)!Init => Tab(p)!IInv
<1> SUFFICES ASSUME Tab(p)!Init PROVE Tab(p)!IInv
  OBVIOUS
<1> USE Tab(p)!BrowserTabsAssumption DEF Tab!Init, Tab!BrowserTabsAssumption
<1>1. Tab(p)!Idle \in Tab(p)!CallType /\ Tab(p)!Idle.sess = 0 /\ Tab(p)!Idle.at = "idle"
          /\ Tab(p)!Idle.kind = "none"
  BY DEF Tab!Idle, Tab!CallType
<1>2. Tab(p)!TypeOK
  <2>1. /\ browser \in 0..p.browsers /\ loaded \in 0..p.installs
        /\ living \subseteq born /\ born \subseteq Others
        /\ conns \in [Tab(p)!Connections -> 0..p.browsers]
        /\ subscribed \subseteq Tab(p)!Connections
        /\ cdp \in 0..p.connections /\ ownPid \in 0..p.browsers
    BY DEF Tab!Connections
  <2>2. dying \in BOOLEAN
    OBVIOUS
  <2>3. /\ ensuring \in Calls \union {nobody}
        /\ nextTabId \in 1..p.tabs + 1 /\ tabOf \in [Others -> 0..p.tabs]
        /\ \A t, u \in Others : tabOf[t] = tabOf[u] /\ tabOf[t] # 0 => t = u
        /\ sessions \in [Others -> 0..p.sessions]
        /\ attaching \in [Others -> Calls \union {nobody}]
    OBVIOUS
  <2>4. session \in [Tab(p)!Sessions -> [target : Others \union {nobody}, conn : 0..p.connections,
                                  live : BOOLEAN]]
    <3>1. Tab(p)!NoSession \in [target : Others \union {nobody}, conn : 0..p.connections,
                                live : BOOLEAN]
      BY DEF Tab!NoSession
    <3>2. QED
      BY <3>1
  <2>5. /\ named \in [Tab(p)!Tabs -> Others \union {nobody}] /\ astray \subseteq Tab(p)!Tabs
        /\ stuck \subseteq Calls
        /\ installed \in 0..p.installs /\ unloaded \subseteq 1..p.installs
    OBVIOUS
  <2>6. QED
    BY ONLY <2>1, <2>2, <2>3, <2>4, <2>5 DEF Tab!TypeOK
<1>3. tabCalls \in [Calls -> Tab(p)!CallType] /\ \A c \in Calls : Tab(p)!CallKnown(c, tabCalls[c])
  BY <1>1 DEF Tab!CallKnown
<1>4. Tab(p)!NumbersAreOwn /\ Tab(p)!SessionsKnown /\ Tab(p)!SetUpAlone
  BY <1>1 DEF Tab!NumbersAreOwn, Tab!SessionsKnown, Tab!SetUpAlone, Tab!NoSession
<1>5. Tab(p)!LiveSessionsAreShared /\ Tab(p)!PressesReachTheirTab /\ Tab(p)!PressesAreReleased
  BY <1>1 DEF Tab!LiveSessionsAreShared, Tab!PressesReachTheirTab, Tab!PressesAreReleased
<1>6. QED
  BY <1>2, <1>3, <1>4, <1>5 DEF Tab!IInv

\* The sessions there are, typed.
SessionType(p) == [target : Others \union {nobody}, conn : 0..p.connections, live : BOOLEAN]

\* Sessions and what is kept of them only end.
Shrinks(p) ==
  /\ session' \in [Tab(p)!Sessions -> SessionType(p)] /\ sessions' \in [Others -> 0..p.sessions]
  /\ \A s \in Tab(p)!Sessions :
                         /\ session'[s].target = session[s].target
                         /\ session'[s].live =>
                            session[s].live /\ session'[s].conn = session[s].conn
  /\ \A t \in Others : sessions'[t] \in {0, sessions[t]}

\* No live session of the controller's connection is forgotten.
Remembers(p) ==
  \A t \in Others : \A s \in Tab(p)!Sessions :
     session'[s].live /\ session'[s].conn = cdp' /\ session[s].target = t =>
       session[s].conn = cdp /\ (sessions[t] = s => sessions'[t] = s)

\* The numbers given out stay given.
Grows(p) == named' \in [Tab(p)!Tabs -> Others \union {nobody}]
    /\ \A n \in Tab(p)!Tabs : named[n] # nobody => named'[n] = named[n]

\* A call that holds nothing, or what it held before.
Settled(x) ==
  /\ x.at \notin {"attaching", "setup", "waiting", "ready", "pressed"} /\ x.sess = 0
  /\ x.kind = "click" => x.tab # 0
  /\ x.kind = "installed" \/ x.at \in {"closing", "killing", "polling"} => x.ext # 0
  /\ x.at = "discovering" => x.conn # 0
Holds(x, y) ==
  /\ x.at \in {"ready", "pressed"} /\ y.at \in {"ready", "pressed"}
  /\ x.tab = y.tab /\ x.target = y.target /\ x.sess = y.sess /\ x.kind = y.kind /\ x.ext = y.ext

\* What the calls hold is kept while sessions only end.
LEMMA HeldIsKept ==
  ASSUME NEW p, Tab(p)!BrowserTabsAssumption, Tab(p)!IInv, Shrinks(p), Remembers(p), Grows(p),
         UNCHANGED attaching,
         tabCalls' \in [Calls -> Tab(p)!CallType],
         \A c \in Calls : tabCalls'[c] = tabCalls[c] \/ Settled(tabCalls'[c])
             \/ Holds(tabCalls'[c], tabCalls[c])
  PROVE  /\ \A c \in Calls : Tab(p)!CallKnown(c, tabCalls[c])'
         /\ Tab(p)!SetUpAlone' /\ Tab(p)!LiveSessionsAreShared'
<1> USE Tab(p)!BrowserTabsAssumption DEF Tab!BrowserTabsAssumption
<1>1. ASSUME NEW c \in Calls,
               tabCalls'[c].at \in {"attaching", "setup", "waiting", "ready", "pressed"}
      PROVE  /\ tabCalls[c].tab \in Tab(p)!Tabs /\ tabCalls[c].target \in Others
             /\ named[tabCalls[c].tab] = tabCalls[c].target
             /\ tabCalls'[c].tab = tabCalls[c].tab /\ tabCalls'[c].target = tabCalls[c].target
             /\ tabCalls'[c].sess = tabCalls[c].sess
             /\ tabCalls'[c] = tabCalls[c] \/ (tabCalls[c].at \in {"ready", "pressed"}
                                               /\ tabCalls'[c].at \in {"ready", "pressed"})
             /\ tabCalls[c].at \in {"setup", "ready", "pressed"} =>
                  tabCalls[c].sess \in Tab(p)!Sessions
                      /\ session[tabCalls[c].sess].target = tabCalls[c].target
  <2>1. tabCalls'[c] = tabCalls[c] \/ Holds(tabCalls'[c], tabCalls[c])
    BY <1>1 DEF Settled
  <2>2. tabCalls[c] \in Tab(p)!CallType /\ Tab(p)!CallKnown(c, tabCalls[c])
    BY DEF Tab!IInv
  <2>3. tabCalls[c].tab \in 0..p.tabs /\ tabCalls[c].target \in Others \union {nobody}
            /\ tabCalls[c].sess \in 0..p.sessions
    BY <2>2 DEF Tab!CallType
  <2>4. QED
    BY <1>1, <2>1, <2>2, <2>3 DEF Holds, Tab!CallKnown, Tab!Tabs, Tab!Sessions
<1>2. ASSUME NEW c \in Calls PROVE Tab(p)!CallKnown(c, tabCalls[c])'
  <2>1. Tab(p)!CallKnown(c, tabCalls[c])
    BY DEF Tab!IInv
  <2>2. CASE tabCalls'[c].at \in {"attaching", "setup", "waiting", "ready", "pressed"}
    <3>1. named'[tabCalls[c].tab] = tabCalls[c].target /\ tabCalls[c].target # nobody
              /\ tabCalls[c].tab # 0
      BY <1>1, <2>2 DEF Grows, Tab!Tabs
    <3>2. attaching'[tabCalls[c].target] = attaching[tabCalls[c].target]
          /\ (sessions[tabCalls[c].target] = 0 => sessions'[tabCalls[c].target] = 0)
      BY <1>1, <2>2 DEF Shrinks
    <3>3. tabCalls[c].at \in {"setup", "ready", "pressed"} =>
            tabCalls[c].sess # 0 /\ session'[tabCalls[c].sess].target = tabCalls[c].target
      BY <1>1, <2>2 DEF Shrinks, Tab!Sessions
    <3>4. CASE tabCalls'[c] = tabCalls[c]
      BY <2>1, <2>2, <3>1, <3>2, <3>3, <3>4 DEF Tab!CallKnown
    <3>5. CASE tabCalls'[c] # tabCalls[c]
      <4>1. Holds(tabCalls'[c], tabCalls[c])
        BY <2>2, <3>5 DEF Settled
      <4>2. QED
        BY <2>1, <3>1, <3>3, <4>1 DEF Tab!CallKnown, Holds
    <3>6. QED
      BY <3>4, <3>5
  <2>3. CASE tabCalls'[c].at \notin {"attaching", "setup", "waiting", "ready", "pressed"}
    BY <2>1, <2>3 DEF Tab!CallKnown, Settled, Holds
  <2>4. QED
    BY <2>2, <2>3
<1>3. Tab(p)!SetUpAlone'
  <2> SUFFICES ASSUME NEW c \in Calls, NEW d \in Calls, c # d, tabCalls'[c].at = "setup"
               PROVE  tabCalls'[d].sess # tabCalls'[c].sess
    BY DEF Tab!SetUpAlone
  <2>1. tabCalls'[c] = tabCalls[c] /\ tabCalls[c].sess # 0
    BY <1>1 DEF Tab!Sessions
  <2>2. tabCalls'[d].sess \in {0, tabCalls[d].sess}
    BY DEF Settled, Holds
  <2>3. tabCalls[d].sess # tabCalls[c].sess
    BY <2>1 DEF Tab!IInv, Tab!SetUpAlone
  <2>4. QED
    BY <2>1, <2>2, <2>3
<1>4. Tab(p)!LiveSessionsAreShared'
  <2> SUFFICES ASSUME NEW c \in Calls, tabCalls'[c].at \in {"ready", "pressed"},
                      session'[tabCalls'[c].sess].live, session'[tabCalls'[c].sess].conn = cdp'
               PROVE  sessions'[tabCalls'[c].target] = tabCalls'[c].sess
    BY DEF Tab!LiveSessionsAreShared
  <2> DEFINE s == tabCalls[c].sess
  <2>1. /\ tabCalls'[c].sess = s /\ tabCalls'[c].target = tabCalls[c].target
        /\ tabCalls[c].at \in {"ready", "pressed"}
        /\ s \in Tab(p)!Sessions /\ tabCalls[c].target \in Others
        /\ session[s].target = tabCalls[c].target
    BY <1>1
  <2>2. session[s].live /\ session[s].conn = cdp
    BY <2>1 DEF Shrinks, Remembers
  <2>3. sessions[tabCalls[c].target] = s
    BY <2>1, <2>2 DEF Tab!IInv, Tab!LiveSessionsAreShared
  <2>4. QED
    BY <2>1, <2>3 DEF Remembers
<1>5. QED
  BY <1>2, <1>3, <1>4

\* Sessions whose connections or pages end are dead; the others stay as they are.
LEMMA DeadSessions ==
  ASSUME NEW p, Tab(p)!BrowserTabsAssumption, Tab(p)!TypeOK, NEW ms, NEW ts,
         session' = Tab(p)!Dead(ms, ts)
  PROVE  /\ session' \in [Tab(p)!Sessions -> SessionType(p)]
         /\ \A s \in Tab(p)!Sessions :
              /\ session'[s].target = session[s].target
              /\ session'[s].live =>
                                     /\ session[s].live /\ session'[s].conn = session[s].conn
                                     /\ session[s].conn \notin ms /\ session[s].target \notin ts
<1>1. session \in [Tab(p)!Sessions -> SessionType(p)]
  BY DEF Tab!TypeOK, SessionType
<1>2. ASSUME NEW s \in Tab(p)!Sessions
      PROVE  /\ Tab(p)!Dead(ms, ts)[s] \in SessionType(p)
             /\ Tab(p)!Dead(ms, ts)[s].target = session[s].target
             /\ Tab(p)!Dead(ms, ts)[s].live =>
                  /\ session[s].live /\ Tab(p)!Dead(ms, ts)[s] = session[s]
                  /\ session[s].conn \notin ms /\ session[s].target \notin ts
  <2>1. session[s] \in SessionType(p)
    BY <1>1
  <2>2. CASE session[s].conn \in ms \/ session[s].target \in ts
    <3>1. Tab(p)!Dead(ms, ts)[s] =
            [session[s] EXCEPT !.live = FALSE, !.conn = IF @ \in ms THEN 0 ELSE @]
      BY <2>2 DEF Tab!Dead
    <3>2. (IF session[s].conn \in ms THEN 0 ELSE session[s].conn) \in 0..p.connections
      BY <2>1 DEF SessionType, Tab!BrowserTabsAssumption
    <3>3. /\ Tab(p)!Dead(ms, ts)[s] \in SessionType(p)
          /\ Tab(p)!Dead(ms, ts)[s].target = session[s].target
          /\ Tab(p)!Dead(ms, ts)[s].live = FALSE
      BY <2>1, <3>1, <3>2 DEF SessionType
    <3>4. QED
      BY <3>3
  <2>3. CASE ~(session[s].conn \in ms \/ session[s].target \in ts)
    <3>1. Tab(p)!Dead(ms, ts)[s] = session[s]
      BY <2>3 DEF Tab!Dead
    <3>2. QED
      BY <2>1, <2>3, <3>1 DEF SessionType
  <2>4. QED
    BY <2>2, <2>3
<1>3. Tab(p)!Dead(ms, ts) = [s \in Tab(p)!Sessions |-> Tab(p)!Dead(ms, ts)[s]]
  BY DEF Tab!Dead
<1>4. session' \in [Tab(p)!Sessions -> SessionType(p)]
  BY <1>2, <1>3
<1>5. QED
  BY <1>2, <1>4

\* Connections close: the controller forgets the sessions of its own one.
LEMMA CloseEnds ==
  ASSUME NEW p, Tab(p)!BrowserTabsAssumption, Tab(p)!IInv, NEW ms \in SUBSET Tab(p)!Connections,
         Tab(p)!Close(ms)
  PROVE  /\ conns' \in [Tab(p)!Connections -> 0..p.browsers]
         /\ subscribed' \subseteq Tab(p)!Connections
         /\ cdp' \in 0..p.connections /\ cdp' \in {0, cdp}
         /\ \A m \in Tab(p)!Connections : conns'[m] = IF m \in ms THEN 0 ELSE conns[m]
         /\ \A s \in Tab(p)!Sessions : session'[s].live => session'[s].conn \notin ms
         /\ Shrinks(p) /\ Remembers(p)
<1> USE Tab(p)!BrowserTabsAssumption DEF Tab!BrowserTabsAssumption, Tab!Close
<1>1. Tab(p)!TypeOK /\ Tab(p)!SessionsKnown
  BY DEF Tab!IInv
<1>2. /\ conns' \in [Tab(p)!Connections -> 0..p.browsers]
      /\ subscribed' \subseteq Tab(p)!Connections
      /\ cdp' \in 0..p.connections /\ cdp' \in {0, cdp}
      /\ \A m \in Tab(p)!Connections : conns'[m] = IF m \in ms THEN 0 ELSE conns[m]
  BY <1>1 DEF Tab!TypeOK
<1>3. sessions' \in [Others -> 0..p.sessions] /\ \A t \in Others : sessions'[t] \in {0, sessions[t]}
  BY <1>1 DEF Tab!TypeOK
<1>4. Shrinks(p) /\ \A s \in Tab(p)!Sessions : session'[s].live => session[s].conn \notin ms
  BY <1>1, <1>3, DeadSessions DEF Shrinks
<1>5. ASSUME NEW t \in Others, NEW s \in Tab(p)!Sessions, session'[s].live, session'[s].conn = cdp'
      PROVE  session[s].conn = cdp /\ sessions' = sessions
  <2>1. session[s].live /\ session[s].conn = cdp' /\ session[s].conn # 0
    BY <1>1, <1>4, <1>5 DEF Tab!SessionsKnown, Shrinks
  <2>2. QED
    BY <2>1, <1>2
<1>6. Remembers(p)
  BY <1>5 DEF Remembers
<1>7. QED
  BY <1>2, <1>4, <1>6 DEF Shrinks

\* What is known of the sessions is kept when they only end.
LEMMA SessionsEnd ==
  ASSUME NEW p, Tab(p)!BrowserTabsAssumption, Tab(p)!IInv, Shrinks(p),
         \A m \in Tab(p)!Connections : conns'[m] \in {0, browser'}, browser' = 0 => living' = {},
         \A s \in Tab(p)!Sessions : session'[s].live =>
            conns'[session[s].conn] # 0 /\ session[s].target \in living'
  PROVE  Tab(p)!SessionsKnown'
<1>1. ASSUME NEW s \in Tab(p)!Sessions, session'[s].live
      PROVE  session'[s].conn # 0 /\ conns'[session'[s].conn] # 0 /\ session'[s].target \in living'
  BY <1>1 DEF Tab!IInv, Tab!SessionsKnown, Shrinks
<1>2. ASSUME NEW t \in Others, sessions'[t] # 0 PROVE session'[sessions'[t]].target = t
  <2>1. sessions[t] # 0 /\ sessions'[t] = sessions[t] /\ sessions[t] \in Tab(p)!Sessions
    BY <1>2 DEF Shrinks, Tab!IInv, Tab!TypeOK, Tab!Sessions, Tab!BrowserTabsAssumption
  <2>2. session[sessions[t]].target = t
    BY <2>1 DEF Tab!IInv, Tab!SessionsKnown
  <2>3. QED
    BY <2>1, <2>2 DEF Shrinks
<1>3. QED
  BY <1>1, <1>2 DEF Tab!SessionsKnown

\* The pages that get a number get one that was never given.
LEMMA NumbersGrow ==
  ASSUME NEW p, Tab(p)!BrowserTabsAssumption, Tab(p)!IInv, NEW ts \in SUBSET Others, NEW old,
         Tab(p)!Number(ts, old)
  PROVE  /\ nextTabId' \in 1..p.tabs + 1 /\ tabOf' \in [Others -> 0..p.tabs]
         /\ \A t, u \in Others : tabOf'[t] = tabOf'[u] /\ tabOf'[t] # 0 => t = u
         /\ Tab(p)!NumbersAreOwn' /\ Grows(p)
<1> DEFINE new == {t \in ts : tabOf[t] = 0}
           count == Cardinality(new)
<1>1. count \in Nat
  <2>1. IsFiniteSet(new)
    BY FS_Subset, TabCounts DEF Tab!BrowserTabsAssumption
  <2>2. QED
    BY <2>1, FS_CardinalityType
<1>2. PICK f \in [new -> nextTabId..(nextTabId + count - 1)] :
        /\ \A x, y \in new : x # y => f[x] # f[y]
        /\ tabOf' = [t \in Others |-> IF t \in new THEN f[t] ELSE IF t \in old THEN 0 ELSE tabOf[t]]
        /\ named' = [n \in Tab(p)!Tabs |-> IF named[n] = nobody /\ \E t \in new : f[t] = n
                                    THEN CHOOSE t \in new : f[t] = n ELSE named[n]]
  <2>1. Tab(p)!Cardinality(new) = count
    BY TabCounts
  <2> HIDE DEF count
  <2>2. QED
    BY <2>1 DEF Tab!Number
<1>3. nextTabId + count <= p.tabs + 1 /\ nextTabId' = nextTabId + count
  BY TabCounts DEF Tab!Number
<1> HIDE DEF count
<1>4. /\ Tab(p)!TypeOK /\ Tab(p)!NumbersAreOwn /\ new \subseteq Others
      /\ nextTabId \in 1..p.tabs + 1 /\ p.tabs \in Nat /\ nextTabId \in Nat /\ nextTabId >= 1
  BY DEF Tab!IInv, Tab!TypeOK, Tab!BrowserTabsAssumption
<1> HIDE DEF new
<1>5. ASSUME NEW t \in new
      PROVE  f[t] \in Tab(p)!Tabs /\ f[t] >= nextTabId /\ f[t] < nextTabId + count
                 /\ named[f[t]] = nobody
  <2>1. f[t] \in nextTabId..(nextTabId + count - 1)
    BY <1>2
  <2>2. f[t] \in Tab(p)!Tabs /\ f[t] >= nextTabId /\ f[t] < nextTabId + count
    BY <2>1, <1>1, <1>3, <1>4 DEF Tab!Tabs
  <2>3. named[f[t]] = nobody
    BY <2>2, <1>4 DEF Tab!NumbersAreOwn, Tab!Tabs
  <2>4. QED
    BY <2>2, <2>3
<1>6. ASSUME NEW t \in new PROVE named'[f[t]] = t
  <2>1. named'[f[t]] = CHOOSE u \in new : f[u] = f[t]
    BY <1>2, <1>5
  <2>2. \A u \in new : f[u] = f[t] => u = t
    BY <1>2
  <2>3. QED
    BY <2>1, <2>2
<1>7. ASSUME NEW n \in Tab(p)!Tabs
      PROVE  \/ named'[n] = named[n] /\ (named[n] = nobody => \A t \in new : f[t] # n)
             \/ named[n] = nobody /\ (\E t \in new : f[t] = n /\ named'[n] = t)
  BY <1>2, <1>6
<1>8. Grows(p)
  <2>1. named \in [Tab(p)!Tabs -> Others \union {nobody}]
    BY <1>4 DEF Tab!TypeOK
  <2>2. ASSUME NEW n \in Tab(p)!Tabs PROVE named'[n] \in Others \union {nobody}
    BY <1>4, <1>7, <2>1
  <2>3. named' = [n \in Tab(p)!Tabs |-> named'[n]]
    BY <1>2
  <2>4. QED
    BY <1>7, <2>2, <2>3 DEF Grows
<1>9. tabOf' \in [Others -> 0..p.tabs]
  <2>1. ASSUME NEW t \in Others PROVE tabOf'[t] \in 0..p.tabs
    <3>1. CASE t \in new
      BY <1>2, <1>5, <3>1, <1>4 DEF Tab!Tabs
    <3>2. CASE t \notin new
      BY <1>2, <1>4, <3>2 DEF Tab!TypeOK
    <3>3. QED
      BY <3>1, <3>2
  <2>2. QED
    BY <1>2, <2>1
<1>10. nextTabId' \in 1..p.tabs + 1
  BY <1>1, <1>3, <1>4
<1>11. Tab(p)!NumbersAreOwn'
  <2>1. ASSUME NEW t \in Others, tabOf'[t] # 0 PROVE named'[tabOf'[t]] = t
    <3>1. CASE t \in new
      BY <1>2, <1>6, <3>1
    <3>2. CASE t \notin new
      <4>1. tabOf'[t] = tabOf[t] /\ tabOf[t] \in Tab(p)!Tabs /\ named[tabOf[t]] = t
        BY <1>2, <1>4, <2>1, <3>2 DEF Tab!TypeOK, Tab!NumbersAreOwn, Tab!Tabs
      <4>2. QED
        BY <1>8, <4>1 DEF Grows, Tab!BrowserTabsAssumption
    <3>3. QED
      BY <3>1, <3>2
  <2>2. ASSUME NEW n \in Tab(p)!Tabs, named'[n] # nobody PROVE n < nextTabId'
    <3>1. CASE named[n] # nobody
      BY <3>1, <1>1, <1>3, <1>4 DEF Tab!NumbersAreOwn, Tab!Tabs
    <3>2. CASE named[n] = nobody
      BY <1>3, <1>5, <1>7, <2>2, <3>2
    <3>3. QED
      BY <3>1, <3>2
  <2>3. QED
    BY <2>1, <2>2 DEF Tab!NumbersAreOwn
<1>12. ASSUME NEW t \in Others, NEW u \in Others, tabOf'[t] = tabOf'[u], tabOf'[t] # 0 PROVE t = u
  BY <1>11, <1>12 DEF Tab!NumbersAreOwn
<1>13. QED
  BY <1>8, <1>9, <1>10, <1>11, <1>12

\* What is held stays as it is.
LEMMA HeldStays ==
  ASSUME NEW p, Tab(p)!IInv, UNCHANGED Tab(p)!held
  PROVE  Shrinks(p) /\ (cdp' = cdp => Remembers(p))
BY DEF Tab!IInv, Tab!TypeOK, Tab!held, Shrinks, SessionType, Remembers

\* The numbers stay as they are.
LEMMA NumbersStay ==
  ASSUME NEW p, Tab(p)!IInv, UNCHANGED Tab(p)!tabs
  PROVE  Tab(p)!NumbersAreOwn' /\ Grows(p)
BY DEF Tab!IInv, Tab!TypeOK, Tab!tabs, Tab!NumbersAreOwn, Grows

\* Calls that settle or go on with what they hold keep the invariant.
LEMMA TabCallsSettle ==
  ASSUME NEW p, Tab(p)!BrowserTabsAssumption, Tab(p)!IInv, Tab(p)!TypeOK', Tab(p)!SessionsKnown',
         Tab(p)!NumbersAreOwn', Shrinks(p), Remembers(p), Grows(p),
         UNCHANGED <<attaching, astray, stuck>>, tabCalls' \in [Calls -> Tab(p)!CallType],
         \A c \in Calls : tabCalls'[c] = tabCalls[c] \/ Settled(tabCalls'[c])
             \/ Holds(tabCalls'[c], tabCalls[c])
  PROVE  Tab(p)!IInv'
BY HeldIsKept DEF Tab!IInv, Tab!PressesReachTheirTab, Tab!PressesAreReleased

\* What becomes of one call.
LEMMA OneTabCall ==
  ASSUME NEW p, Tab(p)!IInv, NEW c \in Calls, NEW x \in Tab(p)!CallType,
         tabCalls' = [tabCalls EXCEPT ![c] = x],
         Settled(x) \/ Holds(x, tabCalls[c])
  PROVE  /\ tabCalls' \in [Calls -> Tab(p)!CallType]
         /\ \A d \in Calls : tabCalls'[d] = tabCalls[d] \/ Settled(tabCalls'[d])
              \/ Holds(tabCalls'[d], tabCalls[d])
<1>1. tabCalls \in [Calls -> Tab(p)!CallType]
  BY DEF Tab!IInv
<1>2. tabCalls' \in [Calls -> Tab(p)!CallType] /\ tabCalls'[c] = x /\ \A d \in Calls : d # c =>
        tabCalls'[d] = tabCalls[d]
  BY <1>1
<1>3. QED
  BY <1>2

\* A call that ends holds nothing.
LEMMA IdleTabCall ==
  ASSUME NEW p, Tab(p)!BrowserTabsAssumption
  PROVE  Tab(p)!Idle \in Tab(p)!CallType /\ Settled(Tab(p)!Idle)
BY DEF Tab!BrowserTabsAssumption, Tab!Idle, Tab!CallType, Settled

\* A step of one call that touches neither pages, connections nor sessions.
LEMMA OneTabCallOnly ==
  ASSUME NEW p, Tab(p)!BrowserTabsAssumption, Tab(p)!IInv, NEW c \in Calls,
         NEW x \in Tab(p)!CallType, tabCalls' = [tabCalls EXCEPT ![c] = x],
         Settled(x) \/ Holds(x, tabCalls[c]),
         UNCHANGED <<browser, loaded, living, born, conns, subscribed, cdp, ownPid, Tab(p)!tabs,
           Tab(p)!held, astray, stuck>>,
         dying' \in BOOLEAN, ensuring' \in Calls \union {nobody},
         installed' \in 0..p.installs, unloaded' \subseteq 1..p.installs
  PROVE  Tab(p)!IInv'
<1>1. Tab(p)!TypeOK'
  BY DEF Tab!IInv, Tab!TypeOK, Tab!tabs, Tab!held
<1>2. Shrinks(p) /\ Remembers(p) /\ Tab(p)!NumbersAreOwn' /\ Grows(p)
  BY HeldStays, NumbersStay
<1>3. Tab(p)!SessionsKnown' /\ UNCHANGED attaching
  BY DEF Tab!IInv, Tab!SessionsKnown, Tab!held
<1>4. QED
  BY <1>1, <1>2, <1>3, OneTabCall, TabCallsSettle

\* The same where the history is not touched either.
LEMMA OneTabCallAlone ==
  ASSUME NEW p, Tab(p)!BrowserTabsAssumption, Tab(p)!IInv, NEW c \in Calls,
         NEW x \in Tab(p)!CallType, tabCalls' = [tabCalls EXCEPT ![c] = x],
         Settled(x) \/ Holds(x, tabCalls[c]),
         UNCHANGED <<Tab(p)!chrome, Tab(p)!link, Tab(p)!tabs, Tab(p)!held, installed,
           Tab(p)!history>>
  PROVE  Tab(p)!IInv'
<1>1. UNCHANGED <<browser, loaded, living, born, conns, subscribed, cdp, ownPid, Tab(p)!tabs,
        Tab(p)!held, astray, stuck>>
      /\ UNCHANGED <<dying, ensuring, installed, unloaded>>
  BY DEF Tab!chrome, Tab!link, Tab!history
<1>2. dying \in BOOLEAN /\ ensuring \in Calls \union {nobody}
      /\ installed \in 0..p.installs /\ unloaded \subseteq 1..p.installs
  BY DEF Tab!IInv, Tab!TypeOK
<1>3. QED
  BY <1>1, <1>2, OneTabCallOnly

\* Pages and connections that change while the calls and what they hold settle.
LEMMA TabsSettle ==
  ASSUME NEW p, Tab(p)!BrowserTabsAssumption, Tab(p)!IInv, Shrinks(p), Remembers(p), Grows(p),
         Tab(p)!NumbersAreOwn',
         nextTabId' \in 1..p.tabs + 1, tabOf' \in [Others -> 0..p.tabs],
         \A t, u \in Others : tabOf'[t] = tabOf'[u] /\ tabOf'[t] # 0 => t = u,
         browser' \in 0..p.browsers, loaded' \in 0..p.installs, dying' \in BOOLEAN,
         living' \subseteq born', born' \subseteq Others,
         conns' \in [Tab(p)!Connections -> 0..p.browsers], subscribed' \subseteq Tab(p)!Connections,
         cdp' \in 0..p.connections, ownPid' \in 0..p.browsers, ensuring' \in Calls \union {nobody},
         UNCHANGED <<attaching, installed, Tab(p)!history>>,
         \A m \in Tab(p)!Connections : conns'[m] \in {0, browser'}, browser' = 0 => living' = {},
         \A s \in Tab(p)!Sessions : session'[s].live =>
           conns'[session[s].conn] # 0 /\ session[s].target \in living',
         tabCalls' \in [Calls -> Tab(p)!CallType],
         \A c \in Calls : tabCalls'[c] = tabCalls[c] \/ Settled(tabCalls'[c])
             \/ Holds(tabCalls'[c], tabCalls[c])
  PROVE  Tab(p)!IInv'
<1>1. Tab(p)!SessionsKnown'
  BY SessionsEnd
<1>2. UNCHANGED <<astray, stuck, unloaded>>
  BY DEF Tab!history
<1>3. Tab(p)!TypeOK'
  BY <1>2 DEF Tab!IInv, Tab!TypeOK, Shrinks, SessionType, Grows
<1>4. QED
  BY <1>1, <1>2, <1>3, TabCallsSettle

\* The typing of what a step leaves alone.
LEMMA TabsTyped ==
  ASSUME NEW p, Tab(p)!IInv
  PROVE  /\ nextTabId \in 1..p.tabs + 1 /\ tabOf \in [Others -> 0..p.tabs]
         /\ \A t, u \in Others : tabOf[t] = tabOf[u] /\ tabOf[t] # 0 => t = u
         /\ browser \in 0..p.browsers /\ loaded \in 0..p.installs /\ dying \in BOOLEAN
         /\ living \subseteq born /\ born \subseteq Others
         /\ conns \in [Tab(p)!Connections -> 0..p.browsers]
         /\ subscribed \subseteq Tab(p)!Connections
         /\ cdp \in 0..p.connections /\ ownPid \in 0..p.browsers
         /\ ensuring \in Calls \union {nobody}
         /\ \A m \in Tab(p)!Connections : conns[m] \in {0, browser}
         /\ browser = 0 => living = {}
         /\ \A s \in Tab(p)!Sessions : session[s].live =>
            conns[session[s].conn] # 0 /\ session[s].conn \in Tab(p)!Connections
                                                   /\ session[s].target \in living
         /\ tabCalls \in [Calls -> Tab(p)!CallType]
<1>1. \A s \in Tab(p)!Sessions : session[s].live =>
        conns[session[s].conn] # 0 /\ session[s].conn \in Tab(p)!Connections
                                             /\ session[s].target \in living
  BY DEF Tab!IInv, Tab!TypeOK, Tab!SessionsKnown, Tab!Connections
<1>2. QED
  BY <1>1 DEF Tab!IInv, Tab!TypeOK, Tab!SessionsKnown

\* A connection is lost, to the browser that goes on.
LEMMA LostKeeps ==
  ASSUME NEW p, Tab(p)!BrowserTabsAssumption, Tab(p)!IInv, NEW m \in Tab(p)!Connections,
         Tab(p)!ConnectionLost(m)
  PROVE  Tab(p)!IInv'
<1>1. Tab(p)!Close({m})
          /\ UNCHANGED <<Tab(p)!chrome, ownPid, ensuring, Tab(p)!tabs, attaching, tabCalls,
             installed, Tab(p)!history>>
  BY DEF Tab!ConnectionLost
<1>2. /\ conns' \in [Tab(p)!Connections -> 0..p.browsers]
      /\ subscribed' \subseteq Tab(p)!Connections
      /\ cdp' \in 0..p.connections /\ cdp' \in {0, cdp}
      /\ \A l \in Tab(p)!Connections : conns'[l] = IF l \in {m} THEN 0 ELSE conns[l]
      /\ \A s \in Tab(p)!Sessions : session'[s].live => session'[s].conn \notin {m}
      /\ Shrinks(p) /\ Remembers(p)
  BY <1>1, CloseEnds
<1>3. \A s \in Tab(p)!Sessions : session'[s].live =>
        conns'[session[s].conn] # 0 /\ session[s].target \in living'
  BY <1>1, <1>2, TabsTyped DEF Shrinks, Tab!chrome
<1>4. Tab(p)!NumbersAreOwn' /\ Grows(p)
  BY <1>1, NumbersStay
<1>5. \A l \in Tab(p)!Connections : conns'[l] \in {0, browser'}
  BY <1>1, <1>2, TabsTyped DEF Tab!chrome
<1>6. QED
  BY <1>1, <1>2, <1>3, <1>4, <1>5, TabsTyped, TabsSettle DEF Tab!chrome, Tab!tabs

\* The process ends, with every connection to it and every session.
LEMMA ExitEnds ==
  ASSUME NEW p, Tab(p)!BrowserTabsAssumption, Tab(p)!IInv, Tab(p)!Exit, UNCHANGED <<loaded, born,
         ownPid, ensuring, Tab(p)!tabs, attaching, installed, Tab(p)!history>>,
         tabCalls' \in [Calls -> Tab(p)!CallType],
         \A c \in Calls : tabCalls'[c] = tabCalls[c] \/ Settled(tabCalls'[c])
             \/ Holds(tabCalls'[c], tabCalls[c])
  PROVE  Tab(p)!IInv'
<1> DEFINE ms == {m \in Tab(p)!Connections : conns[m] = browser}
<1>1. browser' = 0 /\ dying' = FALSE /\ living' = {} /\ Tab(p)!Close(ms)
  BY DEF Tab!Exit
<1>2. /\ conns' \in [Tab(p)!Connections -> 0..p.browsers]
      /\ subscribed' \subseteq Tab(p)!Connections
      /\ cdp' \in 0..p.connections /\ cdp' \in {0, cdp}
      /\ \A l \in Tab(p)!Connections : conns'[l] = IF l \in ms THEN 0 ELSE conns[l]
      /\ \A s \in Tab(p)!Sessions : session'[s].live => session'[s].conn \notin ms
      /\ Shrinks(p) /\ Remembers(p)
  BY <1>1, CloseEnds
<1>3. ASSUME NEW s \in Tab(p)!Sessions PROVE ~session'[s].live
  BY <1>2, TabsTyped DEF Shrinks
<1>4. Tab(p)!NumbersAreOwn' /\ Grows(p)
  BY NumbersStay
<1>5. \A l \in Tab(p)!Connections : conns'[l] \in {0, browser'}
  BY <1>1, <1>2, TabsTyped
<1>6. browser' \in 0..p.browsers /\ living' \subseteq born' /\ living' = {}
  BY <1>1 DEF Tab!BrowserTabsAssumption
<1>7. dying' \in BOOLEAN
  BY <1>1
<1>8. QED
  BY <1>2, <1>3, <1>4, <1>5, <1>6, <1>7, TabsTyped, TabsSettle DEF Tab!tabs

\* The browser ends by itself.
LEMMA ExitKeeps ==
  ASSUME NEW p, Tab(p)!BrowserTabsAssumption, Tab(p)!IInv, Tab(p)!BrowserExits
  PROVE  Tab(p)!IInv'
BY ExitEnds, TabsTyped DEF Tab!BrowserExits

\* Nobody's call moves.
LEMMA TabCallsStay ==
  ASSUME NEW p, Tab(p)!IInv, UNCHANGED tabCalls
  PROVE  /\ tabCalls' \in [Calls -> Tab(p)!CallType]
         /\ \A c \in Calls : tabCalls'[c] = tabCalls[c] \/ Settled(tabCalls'[c])
              \/ Holds(tabCalls'[c], tabCalls[c])
BY DEF Tab!IInv

\* A page opens.
LEMMA OpensKeep ==
  ASSUME NEW p, Tab(p)!BrowserTabsAssumption, Tab(p)!IInv, NEW t \in Others, Tab(p)!PageOpens(t)
  PROVE  Tab(p)!IInv'
<1>1. /\ living' = living \union {t} /\ born' = born \union {t}
      /\ UNCHANGED <<browser, loaded, dying, Tab(p)!link, Tab(p)!held, tabCalls, installed,
         Tab(p)!history>>
      /\ Tab(p)!Number({t}, {}) \/ UNCHANGED Tab(p)!tabs
  BY DEF Tab!PageOpens
<1>2. /\ nextTabId' \in 1..p.tabs + 1 /\ tabOf' \in [Others -> 0..p.tabs]
      /\ \A v, u \in Others : tabOf'[v] = tabOf'[u] /\ tabOf'[v] # 0 => v = u
      /\ Tab(p)!NumbersAreOwn' /\ Grows(p)
  <2>1. CASE Tab(p)!Number({t}, {})
    BY <2>1, NumbersGrow
  <2>2. CASE UNCHANGED Tab(p)!tabs
    BY <2>2, NumbersStay, TabsTyped DEF Tab!tabs
  <2>3. QED
    BY <1>1, <2>1, <2>2
<1>3. UNCHANGED <<conns, subscribed, cdp, ownPid, ensuring, session, sessions, attaching>>
          /\ UNCHANGED Tab(p)!held
  BY <1>1 DEF Tab!link, Tab!held
<1>4. Shrinks(p) /\ Remembers(p)
  BY <1>3, HeldStays
<1>5. living' \subseteq born' /\ born' \subseteq Others /\ browser' # 0
  BY <1>1, TabsTyped DEF Tab!PageOpens
<1>6. \A s \in Tab(p)!Sessions : session'[s].live =>
        conns'[session[s].conn] # 0 /\ session[s].target \in living'
  BY <1>1, <1>3, TabsTyped
<1>7. QED
  BY <1>1, <1>2, <1>3, <1>4, <1>5, <1>6, TabsTyped, TabCallsStay, TabsSettle

\* A page closes: its sessions are dead, and forgotten if anybody hears of it.
LEMMA ClosesKeep ==
  ASSUME NEW p, Tab(p)!BrowserTabsAssumption, Tab(p)!IInv, NEW t \in Others, Tab(p)!PageCloses(t)
  PROVE  Tab(p)!IInv'
<1> USE DEF Tab!PageCloses
<1>1. UNCHANGED <<browser, loaded, dying, born, conns, subscribed, cdp, ownPid, ensuring,
        nextTabId, named, attaching,
                  tabCalls, installed, Tab(p)!history>>
  BY DEF Tab!link
<1>2. /\ session' \in [Tab(p)!Sessions -> SessionType(p)]
      /\ \A s \in Tab(p)!Sessions :
           /\ session'[s].target = session[s].target
           /\ session'[s].live =>
                                  /\ session[s].live /\ session'[s].conn = session[s].conn
                                  /\ session[s].conn \notin {} /\ session[s].target \notin {t}
  BY DeadSessions DEF Tab!IInv
<1>3. sessions' \in [Others -> 0..p.sessions] /\ \A u \in Others : sessions'[u] \in {0, sessions[u]}
      /\ (u # t => sessions'[u] = sessions[u])
  BY DEF Tab!IInv, Tab!TypeOK, Tab!BrowserTabsAssumption
<1>4. Shrinks(p)
  BY <1>2, <1>3 DEF Shrinks
<1>5. Remembers(p)
  BY <1>1, <1>2, <1>3, ZenonT(90) DEF Remembers
<1>6. /\ tabOf' \in [Others -> 0..p.tabs]
      /\ \A u \in Others : tabOf'[u] \in {0, tabOf[u]}
  BY TabsTyped DEF Tab!BrowserTabsAssumption
<1>7. \A v, u \in Others : tabOf'[v] = tabOf'[u] /\ tabOf'[v] # 0 => v = u
  BY <1>6, TabsTyped
<1>8. Tab(p)!NumbersAreOwn' /\ Grows(p)
  BY <1>1, <1>6 DEF Tab!NumbersAreOwn, Grows, Tab!IInv, Tab!TypeOK
<1>9. /\ living' \subseteq born' /\ (browser' = 0 => living' = {})
      /\ \A s \in Tab(p)!Sessions : session'[s].live =>
           conns'[session[s].conn] # 0 /\ session[s].target \in living'
  BY <1>1, <1>2, TabsTyped
<1>10. /\ nextTabId' \in 1..p.tabs + 1 /\ browser' \in 0..p.browsers /\ loaded' \in 0..p.installs
       /\ dying' \in BOOLEAN /\ born' \subseteq Others
       /\ conns' \in [Tab(p)!Connections -> 0..p.browsers]
       /\ subscribed' \subseteq Tab(p)!Connections /\ cdp' \in 0..p.connections
       /\ ownPid' \in 0..p.browsers /\ ensuring' \in Calls \union {nobody}
       /\ \A m \in Tab(p)!Connections : conns'[m] \in {0, browser'}
  BY <1>1, TabsTyped
<1>11. /\ tabCalls' \in [Calls -> Tab(p)!CallType]
       /\ \A c \in Calls : tabCalls'[c] = tabCalls[c] \/ Settled(tabCalls'[c])
            \/ Holds(tabCalls'[c], tabCalls[c])
  BY <1>1, TabCallsStay
<1>12. UNCHANGED <<attaching, installed, Tab(p)!history>>
  BY <1>1
<1> HIDE DEF Tab!PageCloses
<1>13. QED
  BY <1>4, <1>5, <1>6, <1>7, <1>8, <1>9, <1>10, <1>11, <1>12, TabsSettle

\* A session ends alone.
LEMMA DetachesKeep ==
  ASSUME NEW p, Tab(p)!BrowserTabsAssumption, Tab(p)!IInv, NEW s \in Tab(p)!Sessions,
         Tab(p)!SessionDetaches(s)
  PROVE  Tab(p)!IInv'
<1> USE DEF Tab!SessionDetaches
<1>1. UNCHANGED <<browser, loaded, dying, living, born, conns, subscribed, cdp, ownPid, ensuring,
        Tab(p)!tabs, attaching,
                  tabCalls, installed, Tab(p)!history>>
  BY DEF Tab!link, Tab!chrome
<1>2. session \in [Tab(p)!Sessions -> SessionType(p)]
  BY DEF Tab!IInv, Tab!TypeOK, SessionType
<1>3. session' \in [Tab(p)!Sessions -> SessionType(p)]
          /\ session'[s] = [session[s] EXCEPT !.live = FALSE]
      /\ \A r \in Tab(p)!Sessions : r # s => session'[r] = session[r]
  BY <1>2 DEF SessionType
<1>4. session'[s].live = FALSE /\ session'[s].target = session[s].target
  BY <1>2, <1>3 DEF SessionType
<1>5. sessions' \in [Others -> 0..p.sessions]
      /\ \A u \in Others : sessions'[u] \in {0, sessions[u]} /\ (sessions[u] # s =>
                                                                 sessions'[u] = sessions[u])
  BY DEF Tab!IInv, Tab!TypeOK, Tab!BrowserTabsAssumption
<1>6. Shrinks(p)
  BY <1>3, <1>4, <1>5 DEF Shrinks
<1>7. Remembers(p)
  BY <1>1, <1>3, <1>4, <1>5 DEF Remembers
<1>8. Tab(p)!NumbersAreOwn' /\ Grows(p)
  BY <1>1, NumbersStay
<1>9. \A r \in Tab(p)!Sessions : session'[r].live =>
        session[r].target \in living' /\ conns'[session[r].conn] # 0
  BY <1>1, <1>3, <1>4, TabsTyped
<1>10. QED
  BY <1>1, <1>6, <1>7, <1>8, <1>9, TabsTyped, TabCallsStay, TabsSettle DEF Tab!tabs

\* The pages are looked up again: of a page that is gone no session lives.
LEMMA SyncEnds ==
  ASSUME NEW p, Tab(p)!BrowserTabsAssumption, Tab(p)!IInv, Tab(p)!Sync, UNCHANGED <<session, cdp>>
  PROVE  /\ Shrinks(p) /\ Remembers(p) /\ Grows(p) /\ Tab(p)!NumbersAreOwn'
         /\ nextTabId' \in 1..p.tabs + 1 /\ tabOf' \in [Others -> 0..p.tabs]
         /\ \A t, u \in Others : tabOf'[t] = tabOf'[u] /\ tabOf'[t] # 0 => t = u
<1>1. Tab(p)!Number(living, Others \ living) /\ living \in SUBSET Others
  BY TabsTyped DEF Tab!Sync
<1>2. sessions' = [t \in Others |-> IF tabOf[t] # 0 /\ t \notin living THEN 0 ELSE sessions[t]]
  BY DEF Tab!Sync
<1>3. sessions' \in [Others -> 0..p.sessions]
      /\ \A u \in Others : sessions'[u] \in {0, sessions[u]} /\ (u \in living =>
                                                                 sessions'[u] = sessions[u])
  BY <1>2 DEF Tab!IInv, Tab!TypeOK, Tab!BrowserTabsAssumption
<1>4. Shrinks(p)
  BY <1>3 DEF Shrinks, Tab!IInv, Tab!TypeOK, SessionType
<1>5. Remembers(p)
  BY <1>3, TabsTyped DEF Remembers
<1>6. QED
  BY <1>1, <1>4, <1>5, NumbersGrow

\* A step of the calls after which the pages have been looked up.
LEMMA SyncSettles ==
  ASSUME NEW p, Tab(p)!BrowserTabsAssumption, Tab(p)!IInv, Tab(p)!Sync,
         UNCHANGED <<Tab(p)!chrome, conns, subscribed, cdp, ownPid, attaching, session, installed,
           Tab(p)!history>>,
         ensuring' \in Calls \union {nobody}, tabCalls' \in [Calls -> Tab(p)!CallType],
         \A c \in Calls : tabCalls'[c] = tabCalls[c] \/ Settled(tabCalls'[c])
             \/ Holds(tabCalls'[c], tabCalls[c])
  PROVE  Tab(p)!IInv'
<1>1. UNCHANGED <<browser, loaded, dying, living, born>>
  BY DEF Tab!chrome
<1>2. QED
  BY <1>1, SyncEnds, TabsTyped, TabsSettle

\* A call is made.
LEMMA TabCallBegins ==
  ASSUME NEW p, Tab(p)!BrowserTabsAssumption, Tab(p)!IInv, NEW c \in Calls,
         NEW kind \in {"click", "list", "install"}, NEW n,
         kind = "click" => n \in Tab(p)!Tabs, Tab(p)!Call(c, kind, n)
  PROVE  Tab(p)!IInv'
<1> DEFINE at == IF cdp # 0 THEN "handler" ELSE IF ensuring # nobody THEN "joining" ELSE "launching"
           tab == IF kind = "click" THEN n ELSE 0
           x == [Tab(p)!Idle EXCEPT !.kind = kind, !.tab = tab, !.at = at]
<1>1. tabCalls' = [tabCalls EXCEPT ![c] = x]
      /\ UNCHANGED <<Tab(p)!chrome, conns, subscribed, cdp, ownPid, Tab(p)!tabs, Tab(p)!held,
         installed, Tab(p)!history>>
  BY DEF Tab!Call
<1>2. ensuring' \in Calls \union {nobody}
  BY DEF Tab!Call, Tab!IInv, Tab!TypeOK
<1>3. tab \in 0..p.tabs /\ (kind = "click" => tab # 0)
  BY DEF Tab!Tabs, Tab!BrowserTabsAssumption
<1>4. at \in {"handler", "joining", "launching"}
  OBVIOUS
<1> HIDE DEF tab, at
<1>5. x \in Tab(p)!CallType /\ Settled(x)
  BY <1>3, <1>4, IdleTabCall DEF Tab!Idle, Tab!CallType, Settled
<1> HIDE DEF x
<1>6. UNCHANGED <<browser, loaded, living, born, dying, astray, stuck, unloaded, installed>>
  BY <1>1 DEF Tab!chrome, Tab!history
<1>7. dying' \in BOOLEAN /\ installed' \in 0..p.installs /\ unloaded' \subseteq 1..p.installs
  BY <1>6 DEF Tab!IInv, Tab!TypeOK
<1>8. QED
  BY <1>1, <1>2, <1>5, <1>6, <1>7, OneTabCallOnly

\* A browser is launched, or the one there is found; the connection to it is new.
LEMMA LaunchKeeps ==
  ASSUME NEW p, Tab(p)!BrowserTabsAssumption, Tab(p)!IInv, NEW c \in Calls, Tab(p)!Launched(c)
  PROVE  Tab(p)!IInv'
<1>1. PICK m \in Tab(p)!FreeConnections :
        /\ \/ /\ browser # 0 /\ ownPid' = 0
              /\ UNCHANGED <<browser, loaded, dying, living, born>>
           \/ /\ browser = 0
              /\ \E b \in Tab(p)!FreeBrowsers, t \in Others \ born :
                    /\ browser' = b /\ ownPid' = b /\ living' = {t}
                    /\ born' = born \union {t}
              /\ loaded' = installed /\ dying' = FALSE
        /\ conns' = [conns EXCEPT ![m] = browser'] /\ cdp' = m
        /\ tabCalls' = [tabCalls EXCEPT ![c].at = "discovering", ![c].conn = m]
  BY DEF Tab!Launched
<1>2. Tab(p)!At(c, "launching")
          /\ UNCHANGED <<subscribed, ensuring, Tab(p)!tabs, Tab(p)!held, installed, Tab(p)!history>>
  BY DEF Tab!Launched
<1>3. m \in Tab(p)!Connections /\ conns[m] = 0 /\ \A s \in Tab(p)!Sessions : session[s].conn # m
  BY <1>1 DEF Tab!FreeConnections
<1>4. /\ browser' \in 0..p.browsers /\ browser' # 0 /\ ownPid' \in 0..p.browsers
      /\ loaded' \in 0..p.installs
      /\ living' \subseteq born' /\ born' \subseteq Others
      /\ \A s \in Tab(p)!Sessions : session[s].live => browser' = browser /\ living' = living
  <2>1. CASE browser # 0
    BY <1>1, <2>1, TabsTyped DEF Tab!BrowserTabsAssumption
  <2>2. CASE browser = 0
    <3>1. /\ browser' \in Tab(p)!FreeBrowsers /\ ownPid' = browser' /\ loaded' = installed
          /\ \E t \in Others \ born : living' = {t} /\ born' = born \union {t}
      BY <1>1, <2>2
    <3>2. browser' \in 1..p.browsers
      BY <3>1 DEF Tab!FreeBrowsers
    <3>3. browser' \in 0..p.browsers /\ browser' # 0
      BY <3>2 DEF Tab!BrowserTabsAssumption
    <3>4. \A s \in Tab(p)!Sessions : ~session[s].live
      BY <2>2, TabsTyped
    <3>5. QED
      BY <3>1, <3>3, <3>4, TabsTyped DEF Tab!IInv, Tab!TypeOK
  <2>3. QED
    BY <2>1, <2>2
<1>5. dying' \in BOOLEAN
  BY <1>1, TabsTyped
<1>6. conns' \in [Tab(p)!Connections -> 0..p.browsers]
          /\ (\A l \in Tab(p)!Connections : conns'[l] \in {0, browser'})
  BY <1>1, <1>3, <1>4, TabsTyped
<1>7. cdp' \in 0..p.connections /\ m # 0
  BY <1>1, <1>3 DEF Tab!Connections, Tab!BrowserTabsAssumption
<1>8. UNCHANGED <<session, sessions, attaching>>
  BY <1>2 DEF Tab!held
<1>9. Shrinks(p)
  BY <1>2, HeldStays
<1>10. Remembers(p)
  BY <1>1, <1>3, <1>8 DEF Remembers
<1>11. \A s \in Tab(p)!Sessions : session'[s].live =>
         conns'[session[s].conn] # 0 /\ session[s].target \in living'
  BY <1>1, <1>3, <1>4, <1>8, TabsTyped
<1> DEFINE x == [tabCalls[c] EXCEPT !.at = "discovering", !.conn = m]
<1>12. x \in Tab(p)!CallType /\ Settled(x)
  <2>1. tabCalls[c] \in Tab(p)!CallType /\ Tab(p)!CallKnown(c, tabCalls[c])
            /\ tabCalls[c].at = "launching"
    BY <1>2, TabsTyped DEF Tab!IInv, Tab!At
  <2>2. m \in 0..p.connections
    BY <1>1, <1>7
  <2>3. x \in Tab(p)!CallType /\ x.at = "discovering" /\ x.conn = m /\ x.sess = tabCalls[c].sess
            /\ x.kind = tabCalls[c].kind
        /\ x.tab = tabCalls[c].tab /\ x.ext = tabCalls[c].ext
    BY <2>1, <2>2 DEF Tab!CallType
  <2> HIDE DEF x
  <2>4. QED
    BY <1>7, <2>1, <2>3 DEF Settled, Tab!CallKnown
<1>13. tabCalls' = [tabCalls EXCEPT ![c] = x]
  BY <1>1, TabsTyped
<1> HIDE DEF x
<1>14. /\ tabCalls' \in [Calls -> Tab(p)!CallType]
       /\ \A d \in Calls : tabCalls'[d] = tabCalls[d] \/ Settled(tabCalls'[d])
            \/ Holds(tabCalls'[d], tabCalls[d])
  BY <1>12, <1>13, OneTabCall
<1>15. Tab(p)!NumbersAreOwn' /\ Grows(p)
  BY <1>2, NumbersStay
<1>16. QED
  BY <1>2, <1>4, <1>5, <1>6, <1>7, <1>8, <1>9, <1>10, <1>11, <1>14, <1>15, TabsTyped,
     TabsSettle DEF Tab!tabs

\* A call that moves to another place of ensure or of its handler.
LEMMA TabCallMoves ==
  ASSUME NEW p, Tab(p)!BrowserTabsAssumption, Tab(p)!IInv, NEW c \in Calls,
         NEW at \in {"syncing", "handler", "resync"},
         tabCalls[c].at \in {"discovering", "handler", "resync"}
  PROVE  [tabCalls[c] EXCEPT !.at = at] \in Tab(p)!CallType
             /\ Settled([tabCalls[c] EXCEPT !.at = at])
<1> DEFINE x == [tabCalls[c] EXCEPT !.at = at]
<1>1. tabCalls[c] \in Tab(p)!CallType /\ Tab(p)!CallKnown(c, tabCalls[c])
  BY TabsTyped DEF Tab!IInv
<1>2. x \in Tab(p)!CallType /\ x.at = at /\ x.sess = tabCalls[c].sess /\ x.kind = tabCalls[c].kind
          /\ x.tab = tabCalls[c].tab
      /\ x.ext = tabCalls[c].ext
  BY <1>1 DEF Tab!CallType
<1> HIDE DEF x
<1>3. Settled(x)
  BY <1>1, <1>2 DEF Settled, Tab!CallKnown
<1>4. QED
  BY <1>2, <1>3 DEF x

\* The events of a connection are handled from now on.
LEMMA DiscoveredKeeps ==
  ASSUME NEW p, Tab(p)!BrowserTabsAssumption, Tab(p)!IInv, NEW c \in Calls, Tab(p)!Discovered(c)
  PROVE  Tab(p)!IInv'
<1> USE DEF Tab!Discovered
<1>1. tabCalls[c].conn \in Tab(p)!Connections
  BY TabsTyped DEF Tab!At, Tab!IInv, Tab!CallKnown, Tab!CallType, Tab!Connections,
     Tab!BrowserTabsAssumption
<1>2. /\ tabCalls' \in [Calls -> Tab(p)!CallType]
      /\ \A d \in Calls : tabCalls'[d] = tabCalls[d] \/ Settled(tabCalls'[d])
           \/ Holds(tabCalls'[d], tabCalls[d])
  BY TabCallMoves, OneTabCall, TabsTyped DEF Tab!At, Tab!Goes
<1>3. Shrinks(p) /\ Remembers(p) /\ Tab(p)!NumbersAreOwn' /\ Grows(p)
  BY HeldStays, NumbersStay
<1>4. UNCHANGED <<browser, loaded, dying, living, born, session, sessions, attaching, nextTabId,
        tabOf>>
  BY DEF Tab!chrome, Tab!held, Tab!tabs
<1>5. subscribed' \subseteq Tab(p)!Connections
  BY <1>1, TabsTyped
<1>6. QED
  BY <1>2, <1>3, <1>4, <1>5, TabsTyped, TabsSettle

\* The end of ensure, for all that waited for it.
LEMMA EnsuredSettles ==
  ASSUME NEW p, Tab(p)!BrowserTabsAssumption, Tab(p)!IInv, NEW c \in Calls,
         NEW at \in {"idle", "handler"}, Tab(p)!Ensured(c, at),
         tabCalls[c].at \in {"launching", "discovering", "syncing"}
  PROVE  /\ tabCalls' \in [Calls -> Tab(p)!CallType]
         /\ \A d \in Calls : tabCalls'[d] = tabCalls[d] \/ Settled(tabCalls'[d])
              \/ Holds(tabCalls'[d], tabCalls[d])
<1>1. ASSUME NEW d \in Calls, d = c \/ Tab(p)!At(d, "joining")
      PROVE  [tabCalls[d] EXCEPT !.at = at, !.conn = 0] \in Tab(p)!CallType
             /\ (at = "handler" => Settled([tabCalls[d] EXCEPT !.at = at, !.conn = 0]))
  <2> DEFINE x == [tabCalls[d] EXCEPT !.at = at, !.conn = 0]
  <2>1. tabCalls[d] \in Tab(p)!CallType /\ Tab(p)!CallKnown(d, tabCalls[d])
        /\ tabCalls[d].at \in {"launching", "discovering", "syncing", "joining"}
    BY <1>1, TabsTyped DEF Tab!IInv, Tab!At
  <2>2. x \in Tab(p)!CallType /\ x.at = at /\ x.sess = tabCalls[d].sess
            /\ x.kind = tabCalls[d].kind /\ x.tab = tabCalls[d].tab
        /\ x.ext = tabCalls[d].ext
    <3>1. 0 \in 0..p.connections
      BY DEF Tab!BrowserTabsAssumption
    <3>2. QED
      BY <2>1, <3>1 DEF Tab!CallType
  <2> HIDE DEF x
  <2>3. at = "handler" => Settled(x)
    BY <2>1, <2>2 DEF Settled, Tab!CallKnown
  <2>4. QED
    BY <2>2, <2>3 DEF x
<1>2. ASSUME NEW d \in Calls
      PROVE  /\ tabCalls'[d] \in Tab(p)!CallType
             /\ tabCalls'[d] = tabCalls[d] \/ Settled(tabCalls'[d])
                  \/ Holds(tabCalls'[d], tabCalls[d])
  <2>1. tabCalls[d] \in Tab(p)!CallType
    BY TabsTyped
  <2>2. CASE d = c \/ Tab(p)!At(d, "joining")
    <3>1. tabCalls'[d] = IF at =
            "idle" THEN Tab(p)!Idle ELSE [tabCalls[d] EXCEPT !.at = at, !.conn = 0]
      BY <2>2 DEF Tab!Ensured
    <3>2. QED
      BY <1>1, <2>2, <3>1, IdleTabCall
  <2>3. CASE ~(d = c \/ Tab(p)!At(d, "joining"))
    BY <2>1, <2>3 DEF Tab!Ensured
  <2>4. QED
    BY <2>2, <2>3
<1>3. tabCalls' \in [Calls -> Tab(p)!CallType]
  BY <1>2 DEF Tab!Ensured
<1>4. QED
  BY <1>2, <1>3

\* ensure ends well, or fails, for all that waited for it.
LEMMA EnsureKeeps ==
  ASSUME NEW p, Tab(p)!BrowserTabsAssumption, Tab(p)!IInv, NEW c \in Calls,
         Tab(p)!Ready(c) \/ Tab(p)!EnsureFails(c)
  PROVE  Tab(p)!IInv'
<1>1. CASE Tab(p)!Ready(c)
  <2>1. tabCalls[c].at = "syncing" /\ ensuring' \in Calls \union {nobody}
    BY <1>1 DEF Tab!Ready, Tab!At
  <2>2. QED
    BY <1>1, <2>1, EnsuredSettles, SyncSettles DEF Tab!Ready
<1>2. CASE Tab(p)!EnsureFails(c)
  <2>1. /\ tabCalls' \in [Calls -> Tab(p)!CallType]
        /\ \A d \in Calls : tabCalls'[d] = tabCalls[d] \/ Settled(tabCalls'[d])
             \/ Holds(tabCalls'[d], tabCalls[d])
    BY <1>2, EnsuredSettles DEF Tab!EnsureFails
  <2>2. UNCHANGED <<browser, loaded, dying, living, born, conns, subscribed, cdp, ownPid,
          Tab(p)!tabs, nextTabId, tabOf,
                    Tab(p)!held, session, sessions, attaching, installed, Tab(p)!history>>
        /\ ensuring' \in Calls \union {nobody}
    BY <1>2 DEF Tab!EnsureFails, Tab!chrome, Tab!held, Tab!tabs
  <2>3. Shrinks(p) /\ Remembers(p) /\ Tab(p)!NumbersAreOwn' /\ Grows(p)
    BY <2>2, HeldStays, NumbersStay
  <2>4. QED
    BY <2>1, <2>2, <2>3, TabsTyped, TabsSettle
<1>3. QED
  BY <1>1, <1>2

\* A call ends that leaves the rest as it is.
LEMMA TabCallEnds ==
  ASSUME NEW p, Tab(p)!BrowserTabsAssumption, Tab(p)!IInv, NEW c \in Calls, Tab(p)!Ends(c),
         UNCHANGED <<Tab(p)!chrome, Tab(p)!link, Tab(p)!tabs, Tab(p)!held, installed,
         Tab(p)!history>>
  PROVE  Tab(p)!IInv'
BY IdleTabCall, OneTabCallAlone DEF Tab!Ends

\* Tabs are listed, calls fail, and a number nobody knows is looked up again.
LEMMA TabHandlersKeep ==
  ASSUME NEW p, Tab(p)!BrowserTabsAssumption, Tab(p)!IInv, NEW c \in Calls,
         Tab(p)!ListTabs(c) \/ Tab(p)!CallFails(c) \/ Tab(p)!UnknownTab(c) \/ Tab(p)!Resync(c)
  PROVE  Tab(p)!IInv'
<1>1. CASE Tab(p)!ListTabs(c)
  <2>1. /\ tabCalls' \in [Calls -> Tab(p)!CallType]
        /\ \A d \in Calls : tabCalls'[d] = tabCalls[d] \/ Settled(tabCalls'[d])
             \/ Holds(tabCalls'[d], tabCalls[d])
    BY <1>1, IdleTabCall, OneTabCall DEF Tab!ListTabs, Tab!Ends
  <2>2. QED
    BY <1>1, <2>1, SyncSettles, TabsTyped DEF Tab!ListTabs, Tab!link
<1>2. CASE Tab(p)!CallFails(c)
  BY <1>2, TabCallEnds DEF Tab!CallFails
<1>3. CASE Tab(p)!UnknownTab(c)
  <2>1. [tabCalls[c] EXCEPT !.at = "resync"] \in Tab(p)!CallType
            /\ Settled([tabCalls[c] EXCEPT !.at = "resync"])
    BY <1>3, TabCallMoves DEF Tab!UnknownTab, Tab!At
  <2>2. tabCalls' = [tabCalls EXCEPT ![c] = [tabCalls[c] EXCEPT !.at = "resync"]]
    BY <1>3 DEF Tab!UnknownTab, Tab!Goes
  <2>3. QED
    BY <1>3, <2>1, <2>2, OneTabCallAlone DEF Tab!UnknownTab
<1>4. CASE Tab(p)!Resync(c)
  <2>1. [tabCalls[c] EXCEPT !.at = "handler"] \in Tab(p)!CallType
            /\ Settled([tabCalls[c] EXCEPT !.at = "handler"])
    BY <1>4, TabCallMoves DEF Tab!Resync, Tab!At
  <2>2. \/ tabCalls' = [tabCalls EXCEPT ![c] = [tabCalls[c] EXCEPT !.at = "handler"]]
        \/ tabCalls' = [tabCalls EXCEPT ![c] = Tab(p)!Idle]
    BY <1>4 DEF Tab!Resync, Tab!Goes, Tab!Ends
  <2>3. /\ tabCalls' \in [Calls -> Tab(p)!CallType]
        /\ \A d \in Calls : tabCalls'[d] = tabCalls[d] \/ Settled(tabCalls'[d])
             \/ Holds(tabCalls'[d], tabCalls[d])
    BY <2>1, <2>2, IdleTabCall, OneTabCall
  <2>4. QED
    BY <1>4, <2>3, SyncSettles, TabsTyped DEF Tab!Resync, Tab!link
<1>5. QED
  BY <1>1, <1>2, <1>3, <1>4

\* What a call holds that has a page's session.
LEMMA HoldsKnown ==
  ASSUME NEW p, Tab(p)!BrowserTabsAssumption, Tab(p)!IInv, NEW c \in Calls,
         tabCalls[c].at \in {"setup", "ready", "pressed"}
  PROVE  /\ tabCalls[c] \in Tab(p)!CallType /\ Tab(p)!CallKnown(c, tabCalls[c])
         /\ tabCalls[c].tab \in Tab(p)!Tabs /\ tabCalls[c].target \in Others
         /\ named[tabCalls[c].tab] = tabCalls[c].target
         /\ tabCalls[c].sess \in Tab(p)!Sessions
         /\ session[tabCalls[c].sess].target = tabCalls[c].target
BY DEF Tab!IInv, Tab!CallType, Tab!CallKnown, Tab!Tabs, Tab!Sessions, Tab!BrowserTabsAssumption

\* The press goes to the page its number was given to.
LEMMA PressKeeps ==
  ASSUME NEW p, Tab(p)!BrowserTabsAssumption, Tab(p)!IInv, NEW c \in Calls,
         Tab(p)!Press(c) \/ Tab(p)!Abort(c)
  PROVE  Tab(p)!IInv'
<1>1. CASE Tab(p)!Press(c)
  <2> DEFINE x == [tabCalls[c] EXCEPT !.at = "pressed"]
  <2>1. tabCalls[c].at = "ready" /\ tabCalls' = [tabCalls EXCEPT ![c] = x]
    BY <1>1 DEF Tab!Press, Tab!At, Tab!Goes
  <2>2. x \in Tab(p)!CallType /\ Holds(x, tabCalls[c])
    BY <2>1, HoldsKnown DEF Tab!CallType, Holds
  <2> HIDE DEF x
  <2>3. astray' = astray
    BY <1>1, <2>1, HoldsKnown DEF Tab!Press
  <2>4. UNCHANGED <<Tab(p)!chrome, Tab(p)!link, Tab(p)!tabs, Tab(p)!held, installed,
          Tab(p)!history>>
    BY <1>1, <2>3 DEF Tab!Press, Tab!history
  <2>5. QED
    BY <2>1, <2>2, <2>4, OneTabCallAlone
<1>2. CASE Tab(p)!Abort(c)
  <2> DEFINE x == [tabCalls[c] EXCEPT !.aborted = TRUE]
  <2>1. tabCalls[c].at \in {"ready", "pressed"} /\ tabCalls' = [tabCalls EXCEPT ![c] = x]
    BY <1>2 DEF Tab!Abort
  <2>2. x \in Tab(p)!CallType
    BY <2>1, HoldsKnown, ZenonT(90) DEF Tab!CallType
  <2>3. Holds(x, tabCalls[c])
    BY <2>1, HoldsKnown DEF Tab!CallType, Holds
  <2> HIDE DEF x
  <2>4. QED
    BY <1>2, <2>1, <2>2, <2>3, OneTabCallAlone DEF Tab!Abort
<1>3. QED
  BY <1>1, <1>2

\* What is pressed is released where it could still be reached.
LEMMA ReleaseKeeps ==
  ASSUME NEW p, Tab(p)!BrowserTabsAssumption, Tab(p)!IInv, NEW c \in Calls, Tab(p)!Release(c)
  PROVE  Tab(p)!IInv'
<1> DEFINE s == tabCalls[c].sess
<1>1. tabCalls[c].at = "pressed" /\ Tab(p)!Ends(c)
          /\ UNCHANGED <<Tab(p)!chrome, Tab(p)!link, Tab(p)!tabs, Tab(p)!held, installed, astray,
             unloaded>>
      /\ Tab(p)!Leaves(c, Tab(p)!Current(c))
  BY DEF Tab!Release, Tab!At
<1>2. s \in Tab(p)!Sessions /\ tabCalls[c].target \in Others
  BY <1>1, HoldsKnown
<1>3. session[s].live /\ session[s].conn = cdp => Tab(p)!Current(c)
  BY <1>1, <1>2 DEF Tab!IInv, Tab!SessionsKnown, Tab!LiveSessionsAreShared, Tab!Current
<1>4. UNCHANGED stuck
  BY <1>1, <1>3 DEF Tab!Leaves
<1>5. QED
  BY <1>1, <1>4, TabCallEnds DEF Tab!history

\* An install goes on: it holds what the controller had, and no session.
LEMMA InstallMoves ==
  ASSUME NEW p, Tab(p)!BrowserTabsAssumption, Tab(p)!IInv, NEW c \in Calls,
         NEW kind \in {tabCalls[c].kind, "installed"},
         NEW at \in {"closing", "killing", "polling", "launching", "joining"},
         NEW conn \in 0..p.connections, NEW pid \in 0..p.browsers, NEW ext \in 0..p.installs,
         ext # 0,
         tabCalls[c].at \in {"handler", "closing", "killing", "polling"}
  PROVE  [tabCalls[c] EXCEPT !.kind = kind, !.at = at, !.conn = conn, !.pid = pid, !.ext =
          ext] \in Tab(p)!CallType
         /\ Settled([tabCalls[c] EXCEPT !.kind = kind, !.at = at, !.conn = conn, !.pid =
                     pid, !.ext = ext])
<1> DEFINE x == [tabCalls[c] EXCEPT !.kind = kind, !.at = at, !.conn = conn, !.pid = pid, !.ext =
                 ext]
<1>1. tabCalls[c] \in Tab(p)!CallType /\ Tab(p)!CallKnown(c, tabCalls[c])
  BY TabsTyped DEF Tab!IInv
<1>2. x \in Tab(p)!CallType /\ x.at = at /\ x.sess = tabCalls[c].sess /\ x.kind = kind
          /\ x.tab = tabCalls[c].tab
      /\ x.ext = ext
  BY <1>1 DEF Tab!CallType
<1> HIDE DEF x
<1>3. Settled(x)
  BY <1>1, <1>2 DEF Settled, Tab!CallKnown
<1>4. QED
  BY <1>2, <1>3 DEF x

\* An install asks for the end of the browser there is.
LEMMA InstallBegins ==
  ASSUME NEW p, Tab(p)!BrowserTabsAssumption, Tab(p)!IInv, NEW c \in Calls, Tab(p)!Relaunch(c)
  PROVE  Tab(p)!IInv'
<1>1. /\ tabCalls[c].at = "handler" /\ installed < p.installs /\ installed' = installed + 1
      /\ dying' = (dying \/ cdp # 0)
      /\ tabCalls' = [tabCalls EXCEPT ![c].at = "closing", ![c].conn = cdp, ![c].pid =
                      ownPid, ![c].ext = installed + 1]
      /\ UNCHANGED <<browser, loaded, living, born, Tab(p)!link, Tab(p)!tabs, Tab(p)!held,
         Tab(p)!history>>
  BY DEF Tab!Relaunch, Tab!At
<1> DEFINE x == [tabCalls[c] EXCEPT !.kind = tabCalls[c].kind, !.at = "closing", !.conn =
                 cdp, !.pid = ownPid, !.ext = installed + 1]
<1>2. installed' \in 0..p.installs /\ installed + 1 # 0 /\ installed + 1 \in 0..p.installs
  BY <1>1, SMTT(60) DEF Tab!IInv, Tab!TypeOK, Tab!BrowserTabsAssumption
<1>3. x \in Tab(p)!CallType /\ Settled(x)
  BY <1>1, <1>2, TabsTyped, InstallMoves
<1>4. tabCalls' = [tabCalls EXCEPT ![c] = x]
  <2>1. tabCalls[c] \in Tab(p)!CallType
    BY TabsTyped
  <2>2. x = [tabCalls[c] EXCEPT !.at = "closing", !.conn = cdp, !.pid = ownPid, !.ext =
             installed + 1]
    BY <2>1 DEF Tab!CallType
  <2>3. QED
    BY <1>1, <2>2, TabsTyped
<1> HIDE DEF x
<1>5. dying' \in BOOLEAN
  BY <1>1
<1>6. UNCHANGED <<browser, loaded, living, born, conns, subscribed, cdp, ownPid, Tab(p)!tabs,
        Tab(p)!held, astray, stuck>>
      /\ UNCHANGED <<ensuring, unloaded>>
  BY <1>1 DEF Tab!link, Tab!history
<1>7. ensuring' \in Calls \union {nobody} /\ unloaded' \subseteq 1..p.installs
  BY <1>6 DEF Tab!IInv, Tab!TypeOK
<1>8. QED
  BY <1>2, <1>3, <1>4, <1>5, <1>6, <1>7, OneTabCallOnly

\* The connection an install found is closed, and then its own browser killed.
LEMMA InstallCloses ==
  ASSUME NEW p, Tab(p)!BrowserTabsAssumption, Tab(p)!IInv, NEW c \in Calls,
         Tab(p)!CloseConnection(c) \/ Tab(p)!Kill(c)
  PROVE  Tab(p)!IInv'
<1>1. tabCalls[c] \in Tab(p)!CallType /\ Tab(p)!CallKnown(c, tabCalls[c])
          /\ tabCalls[c].at \in {"closing", "killing"}
  BY TabsTyped DEF Tab!IInv, Tab!CloseConnection, Tab!Kill, Tab!At
<1>2. tabCalls[c].conn \in 0..p.connections /\ tabCalls[c].pid \in 0..p.browsers
      /\ tabCalls[c].ext \in 0..p.installs /\ tabCalls[c].ext # 0 /\ 0 \in 0..p.connections
      /\ 0 \in 0..p.browsers
  BY <1>1 DEF Tab!CallType, Tab!CallKnown, Tab!BrowserTabsAssumption
<1>3. CASE Tab(p)!CloseConnection(c)
  <2> DEFINE x == [tabCalls[c] EXCEPT !.kind = tabCalls[c].kind, !.at = "killing", !.conn =
                   0, !.pid = tabCalls[c].pid,
                                   !.ext = tabCalls[c].ext]
             ms == {tabCalls[c].conn} \ {0}
  <2>1. x \in Tab(p)!CallType /\ Settled(x)
    BY <1>1, <1>2, InstallMoves
  <2>2. x = [tabCalls[c] EXCEPT !.at = "killing", !.conn = 0]
    BY <1>1 DEF Tab!CallType
  <2>3. tabCalls' = [tabCalls EXCEPT ![c] = x]
    BY <1>3, <2>2, TabsTyped DEF Tab!CloseConnection
  <2> HIDE DEF x
  <2>4. /\ tabCalls' \in [Calls -> Tab(p)!CallType]
        /\ \A d \in Calls : tabCalls'[d] = tabCalls[d] \/ Settled(tabCalls'[d])
             \/ Holds(tabCalls'[d], tabCalls[d])
    BY <2>1, <2>3, OneTabCall
  <2>5. Tab(p)!Close(ms)
            /\ UNCHANGED <<Tab(p)!chrome, ownPid, ensuring, Tab(p)!tabs, attaching, installed,
               Tab(p)!history>>
    BY <1>3 DEF Tab!CloseConnection
  <2>6. ms \in SUBSET Tab(p)!Connections
    BY <1>2 DEF Tab!Connections, Tab!BrowserTabsAssumption
  <2> HIDE DEF ms
  <2>7. /\ conns' \in [Tab(p)!Connections -> 0..p.browsers]
        /\ subscribed' \subseteq Tab(p)!Connections
        /\ cdp' \in 0..p.connections /\ cdp' \in {0, cdp}
        /\ \A l \in Tab(p)!Connections : conns'[l] = IF l \in ms THEN 0 ELSE conns[l]
        /\ \A s \in Tab(p)!Sessions : session'[s].live => session'[s].conn \notin ms
        /\ Shrinks(p) /\ Remembers(p)
    BY <2>5, <2>6, CloseEnds
  <2>8. \A s \in Tab(p)!Sessions : session'[s].live =>
          conns'[session[s].conn] # 0 /\ session[s].target \in living'
    BY <2>5, <2>7, TabsTyped DEF Shrinks, Tab!chrome
  <2>9. Tab(p)!NumbersAreOwn' /\ Grows(p)
    BY <2>5, NumbersStay
  <2>10. \A l \in Tab(p)!Connections : conns'[l] \in {0, browser'}
    BY <2>5, <2>7, TabsTyped DEF Tab!chrome
  <2>11. QED
    BY <2>4, <2>5, <2>7, <2>8, <2>9, <2>10, TabsTyped, TabsSettle, ZenonT(90) DEF Tab!chrome, Tab!tabs
<1>4. CASE Tab(p)!Kill(c)
  <2> DEFINE x == [tabCalls[c] EXCEPT !.kind = tabCalls[c].kind, !.at = "polling", !.conn =
                   tabCalls[c].conn, !.pid = 0,
                                   !.ext = tabCalls[c].ext]
  <2>1. x \in Tab(p)!CallType /\ Settled(x)
    BY <1>1, <1>2, InstallMoves, ZenonT(90)
  <2>2. x = [tabCalls[c] EXCEPT !.at = "polling", !.pid = 0]
    BY <1>1 DEF Tab!CallType
  <2>3. tabCalls' = [tabCalls EXCEPT ![c] = x]
    BY <1>4, <2>2, TabsTyped DEF Tab!Kill
  <2> HIDE DEF x
  <2>4. /\ tabCalls' \in [Calls -> Tab(p)!CallType]
        /\ \A d \in Calls : tabCalls'[d] = tabCalls[d] \/ Settled(tabCalls'[d])
             \/ Holds(tabCalls'[d], tabCalls[d])
    BY <2>1, <2>3, OneTabCall
  <2>5. CASE Tab(p)!Exit
    BY <1>4, <2>4, <2>5, ExitEnds DEF Tab!Kill
  <2>6. CASE UNCHANGED <<browser, dying, living, conns, subscribed, cdp, sessions, session>>
    <3>1. UNCHANGED <<browser, loaded, dying, living, born, conns, subscribed, cdp, ownPid,
            ensuring, Tab(p)!tabs, nextTabId, tabOf,
                      Tab(p)!held, session, sessions, attaching, installed, Tab(p)!history>>
      BY <1>4, <2>6 DEF Tab!Kill, Tab!held, Tab!tabs
    <3>2. Shrinks(p) /\ Remembers(p) /\ Tab(p)!NumbersAreOwn' /\ Grows(p)
      BY <3>1, HeldStays, NumbersStay
    <3>3. QED
      BY <2>4, <3>1, <3>2, TabsTyped, TabsSettle
  <2>7. QED
    BY <1>4, <2>5, <2>6, ZenonT(90) DEF Tab!Kill
<1>5. QED
  BY <1>3, <1>4

\* An install forgets everything and ensures a browser again.
LEMMA ResetKeeps ==
  ASSUME NEW p, Tab(p)!BrowserTabsAssumption, Tab(p)!IInv, NEW c \in Calls, Tab(p)!Reset(c)
  PROVE  Tab(p)!IInv'
<1>1. tabCalls[c] \in Tab(p)!CallType /\ Tab(p)!CallKnown(c, tabCalls[c])
          /\ tabCalls[c].at = "polling"
  BY TabsTyped DEF Tab!IInv, Tab!Reset, Tab!At
<1>2. tabCalls[c].conn \in 0..p.connections /\ tabCalls[c].pid \in 0..p.browsers
      /\ tabCalls[c].ext \in 0..p.installs /\ tabCalls[c].ext # 0
  BY <1>1, ZenonT(90) DEF Tab!CallType, Tab!CallKnown
<1> DEFINE at == IF ensuring = nobody THEN "launching" ELSE "joining"
           x == [tabCalls[c] EXCEPT !.kind = "installed", !.at = at, !.conn =
                 tabCalls[c].conn, !.pid = tabCalls[c].pid,
                                 !.ext = tabCalls[c].ext]
<1>3. x \in Tab(p)!CallType /\ Settled(x)
  BY <1>1, <1>2, InstallMoves, ZenonT(90)
<1>4. x = [tabCalls[c] EXCEPT !.kind = "installed", !.at = at]
  BY <1>1 DEF Tab!CallType
<1>5. tabCalls' = [tabCalls EXCEPT ![c] = x]
  BY <1>4, TabsTyped DEF Tab!Reset
<1> HIDE DEF x, at
<1>6. /\ tabCalls' \in [Calls -> Tab(p)!CallType]
      /\ \A d \in Calls : tabCalls'[d] = tabCalls[d] \/ Settled(tabCalls'[d])
           \/ Holds(tabCalls'[d], tabCalls[d])
  BY <1>3, <1>5, OneTabCall
<1>7. /\ cdp' = 0 /\ ownPid' = 0
      /\ sessions' = [t \in Others |-> 0] /\ tabOf' = [t \in Others |-> 0]
      /\ UNCHANGED <<Tab(p)!chrome, browser, loaded, dying, living, born, conns, subscribed,
         nextTabId, named, attaching, session,
                     installed, Tab(p)!history>>
  BY DEF Tab!Reset, Tab!chrome
<1>8. ensuring' \in Calls \union {nobody} /\ cdp' \in 0..p.connections /\ ownPid' \in 0..p.browsers
  BY <1>7, TabsTyped DEF Tab!Reset, Tab!BrowserTabsAssumption
<1>9. sessions' \in [Others -> 0..p.sessions] /\ tabOf' \in [Others -> 0..p.tabs]
  BY <1>7 DEF Tab!BrowserTabsAssumption
<1>10. Shrinks(p)
  BY <1>7, <1>9 DEF Shrinks, Tab!IInv, Tab!TypeOK, SessionType
<1>11. Remembers(p)
  BY <1>7 DEF Remembers, Tab!IInv, Tab!SessionsKnown
<1>12. Tab(p)!NumbersAreOwn' /\ Grows(p)
  BY <1>7 DEF Tab!NumbersAreOwn, Grows, Tab!IInv, Tab!TypeOK
<1>13. \A s \in Tab(p)!Sessions : session'[s].live =>
         conns'[session[s].conn] # 0 /\ session[s].target \in living'
  BY <1>7, TabsTyped
<1>14. QED
  BY <1>6, <1>7, <1>8, <1>9, <1>10, <1>11, <1>12, <1>13, TabsTyped, TabsSettle

\* An install is answered.
LEMMA InstalledKeeps ==
  ASSUME NEW p, Tab(p)!BrowserTabsAssumption, Tab(p)!IInv, NEW c \in Calls, Tab(p)!Installed(c)
  PROVE  Tab(p)!IInv'
<1>1. tabCalls[c] \in Tab(p)!CallType /\ Tab(p)!CallKnown(c, tabCalls[c])
          /\ tabCalls[c].kind = "installed"
  BY TabsTyped DEF Tab!IInv, Tab!Installed
<1>2. tabCalls[c].ext \in 1..p.installs
  BY <1>1 DEF Tab!CallType, Tab!CallKnown, Tab!BrowserTabsAssumption
<1>3. unloaded' \subseteq 1..p.installs
  BY <1>2 DEF Tab!Installed, Tab!IInv, Tab!TypeOK
<1>4. UNCHANGED <<browser, loaded, dying, living, born, conns, subscribed, cdp, ownPid, ensuring,
        Tab(p)!tabs, Tab(p)!held, installed,
                  astray, stuck>>
  BY DEF Tab!Installed, Tab!chrome, Tab!link
<1>5. dying' \in BOOLEAN /\ ensuring' \in Calls \union {nobody} /\ installed' \in 0..p.installs
  BY <1>4 DEF Tab!IInv, Tab!TypeOK
<1>6. QED
  BY <1>3, <1>4, <1>5, IdleTabCall, OneTabCallOnly DEF Tab!Installed, Tab!Ends

\* A call that is at the attachment of a page is the one that attaches it.
LEMMA AttachesAlone ==
  ASSUME NEW p, Tab(p)!BrowserTabsAssumption, Tab(p)!IInv, NEW c \in Calls,
         tabCalls[c].at \in {"attaching", "setup"}
  PROVE  /\ tabCalls[c] \in Tab(p)!CallType /\ Tab(p)!CallKnown(c, tabCalls[c])
         /\ tabCalls[c].target \in Others
         /\ attaching[tabCalls[c].target] = c
         /\ \A d \in Calls : d # c /\ tabCalls[d].at \in {"attaching", "setup"} =>
            tabCalls[d].target # tabCalls[c].target
<1>1. \A d \in Calls : tabCalls[d] \in Tab(p)!CallType /\ Tab(p)!CallKnown(d, tabCalls[d])
  BY TabsTyped DEF Tab!IInv
<1>2. QED
  BY <1>1 DEF Tab!CallType, Tab!CallKnown

\* A call joins an attachment, uses the session there is, or attaches.
LEMMA JoinsKnown ==
  ASSUME NEW p, Tab(p)!BrowserTabsAssumption, Tab(p)!IInv, NEW c \in Calls,
         NEW x \in Tab(p)!CallType, tabCalls' = [tabCalls EXCEPT ![c] = x],
         UNCHANGED <<Tab(p)!chrome, Tab(p)!link, Tab(p)!tabs, sessions, session, installed,
           Tab(p)!history>>,
         attaching' \in [Others -> Calls \union {nobody}],
         \A d \in Calls : d # c /\ tabCalls[d].at \in {"attaching", "setup"} =>
            attaching'[tabCalls[d].target] = d /\ (tabCalls[d].at = "setup" =>
                                                   x.sess # tabCalls[d].sess),
         Tab(p)!CallKnown(c, tabCalls[c])', x.at # "setup", x.sess # 0 =>
           sessions[x.target] = x.sess
  PROVE  Tab(p)!IInv'
<1>1. \A d \in Calls : tabCalls[d] \in Tab(p)!CallType /\ Tab(p)!CallKnown(d, tabCalls[d])
  BY TabsTyped DEF Tab!IInv
<1>2. tabCalls' \in [Calls -> Tab(p)!CallType] /\ tabCalls'[c] = x /\ \A d \in Calls : d # c =>
        tabCalls'[d] = tabCalls[d]
  BY TabsTyped
<1>3. UNCHANGED <<browser, loaded, dying, living, born, conns, subscribed, cdp, ownPid, ensuring,
        nextTabId, tabOf, named,
                  sessions, session, installed, astray, stuck, unloaded>>
  BY DEF Tab!chrome, Tab!link, Tab!tabs, Tab!history
<1>4. Tab(p)!TypeOK'
  BY <1>3 DEF Tab!IInv, Tab!TypeOK
<1>5. Tab(p)!SessionsKnown' /\ Tab(p)!NumbersAreOwn'
  BY <1>3 DEF Tab!IInv, Tab!SessionsKnown, Tab!NumbersAreOwn
<1>6. ASSUME NEW d \in Calls PROVE Tab(p)!CallKnown(d, tabCalls[d])'
  <2>1. CASE d = c
    BY <2>1
  <2>2. CASE d # c
    BY <1>1, <1>2, <1>3, <2>2 DEF Tab!CallKnown
  <2>3. QED
    BY <2>1, <2>2
<1>7. Tab(p)!SetUpAlone'
  BY <1>2 DEF Tab!IInv, Tab!SetUpAlone
<1>8. Tab(p)!LiveSessionsAreShared'
  <2> SUFFICES ASSUME NEW d \in Calls, tabCalls'[d].at \in {"ready", "pressed"},
                      session'[tabCalls'[d].sess].live, session'[tabCalls'[d].sess].conn = cdp'
               PROVE  sessions'[tabCalls'[d].target] = tabCalls'[d].sess
    BY DEF Tab!LiveSessionsAreShared
  <2>1. CASE d = c
    BY <1>2, <1>3, <2>1 DEF Tab!CallKnown
  <2>2. CASE d # c
    BY <1>2, <1>3, <2>2 DEF Tab!IInv, Tab!LiveSessionsAreShared
  <2>3. QED
    BY <2>1, <2>2
<1>9. Tab(p)!PressesReachTheirTab' /\ Tab(p)!PressesAreReleased'
  BY <1>3 DEF Tab!IInv, Tab!PressesReachTheirTab, Tab!PressesAreReleased
<1>10. QED
  BY <1>2, <1>4, <1>5, <1>6, <1>7, <1>8, <1>9 DEF Tab!IInv

\* A call looks for the session of the page its number stands for.
LEMMA EnsureAttachedKeeps ==
  ASSUME NEW p, Tab(p)!BrowserTabsAssumption, Tab(p)!IInv, NEW c \in Calls,
         Tab(p)!EnsureAttached(c)
  PROVE  Tab(p)!IInv'
<1>1. /\ tabCalls[c].at = "handler" /\ tabCalls[c].kind = "click"
      /\ UNCHANGED <<Tab(p)!chrome, Tab(p)!link, Tab(p)!tabs, sessions, session, installed,
         Tab(p)!history>>
  BY DEF Tab!EnsureAttached, Tab!At
<1>2. tabCalls[c] \in Tab(p)!CallType /\ Tab(p)!CallKnown(c, tabCalls[c]) /\ tabCalls[c].tab # 0
          /\ tabCalls[c].sess = 0
  BY <1>1, TabsTyped DEF Tab!IInv, Tab!CallKnown
<1>3. PICK t \in Tab(p)!Named(tabCalls[c].tab) :
        \/ /\ attaching[t] # nobody
           /\ tabCalls' = [tabCalls EXCEPT ![c].at = "waiting", ![c].target = t]
           /\ UNCHANGED attaching
        \/ /\ attaching[t] = nobody /\ sessions[t] # 0
           /\ tabCalls' = [tabCalls EXCEPT ![c].at = "ready", ![c].target = t, ![c].sess =
                           sessions[t]]
           /\ UNCHANGED attaching
        \/ /\ attaching[t] = nobody /\ sessions[t] = 0
           /\ attaching' = [attaching EXCEPT ![t] = c]
           /\ tabCalls' = [tabCalls EXCEPT ![c].at = "attaching", ![c].target = t, ![c].conn = cdp]
  BY DEF Tab!EnsureAttached
<1>4. t \in Others /\ named[tabCalls[c].tab] = t /\ t # nobody
      /\ named' = named /\ sessions' = sessions /\ session' = session
  BY <1>1, <1>2 DEF Tab!Named, Tab!IInv, Tab!NumbersAreOwn, Tab!tabs, Tab!BrowserTabsAssumption
<1>5. attaching \in [Others -> Calls \union {nobody}] /\ sessions \in [Others -> 0..p.sessions]
      /\ cdp \in 0..p.connections
  BY DEF Tab!IInv, Tab!TypeOK
<1>6. CASE attaching[t] # nobody
          /\ tabCalls' = [tabCalls EXCEPT ![c].at = "waiting", ![c].target = t]
          /\ UNCHANGED attaching
  <2> DEFINE x == [tabCalls[c] EXCEPT !.at = "waiting", !.target = t]
  <2>1. tabCalls' = [tabCalls EXCEPT ![c] = x]
    BY <1>6, TabsTyped
  <2>2. x \in Tab(p)!CallType /\ x.at = "waiting" /\ x.target = t /\ x.sess = 0
            /\ x.tab = tabCalls[c].tab
        /\ x.kind = "click" /\ x.ext = tabCalls[c].ext
    BY <1>1, <1>2, <1>4, ZenonT(90) DEF Tab!CallType
  <2> HIDE DEF x
  <2>3. Tab(p)!CallKnown(c, tabCalls[c])'
    <3>1. tabCalls'[c] = x
      BY <2>1, TabsTyped
    <3>2. QED
      BY <1>2, <1>4, <2>2, <3>1 DEF Tab!CallKnown
  <2>4. ASSUME NEW d \in Calls, d # c, tabCalls[d].at \in {"attaching", "setup"}
        PROVE  attaching'[tabCalls[d].target] = d /\ (tabCalls[d].at = "setup" =>
                                                      x.sess # tabCalls[d].sess)
    <3>1. attaching'[tabCalls[d].target] = d
      BY <1>6, <2>4, AttachesAlone
    <3>2. QED
      BY <2>2, <2>4, <3>1, AttachesAlone DEF Tab!CallKnown
  <2>5. attaching' \in [Others -> Calls \union {nobody}]
    BY <1>5, <1>6
  <2>6. QED
    BY <1>1, <2>1, <2>2, <2>3, <2>4, <2>5, JoinsKnown
<1>7. CASE attaching[t] = nobody /\ sessions[t] # 0 /\ UNCHANGED attaching
           /\ tabCalls' = [tabCalls EXCEPT ![c].at = "ready", ![c].target = t, ![c].sess =
                           sessions[t]]
  <2> DEFINE x == [tabCalls[c] EXCEPT !.at = "ready", !.target = t, !.sess = sessions[t]]
  <2>1. tabCalls' = [tabCalls EXCEPT ![c] = x]
    BY <1>7, TabsTyped
  <2>2. x \in Tab(p)!CallType /\ x.at = "ready" /\ x.target = t /\ x.sess = sessions[t]
            /\ x.tab = tabCalls[c].tab
        /\ x.kind = "click" /\ x.ext = tabCalls[c].ext
    BY <1>1, <1>2, <1>4, <1>5, ZenonT(90) DEF Tab!CallType
  <2> HIDE DEF x
  <2>3. session[sessions[t]].target = t
    BY <1>4, <1>7 DEF Tab!IInv, Tab!SessionsKnown
  <2>4. Tab(p)!CallKnown(c, tabCalls[c])'
    <3>1. tabCalls'[c] = x
      BY <2>1, TabsTyped
    <3>2. QED
      BY <1>2, <1>4, <1>7, <2>2, <2>3, <3>1 DEF Tab!CallKnown
  <2>5. ASSUME NEW d \in Calls, d # c, tabCalls[d].at \in {"attaching", "setup"}
        PROVE  attaching'[tabCalls[d].target] = d /\ (tabCalls[d].at = "setup" =>
                                                      x.sess # tabCalls[d].sess)
    <3>1. attaching'[tabCalls[d].target] = d /\ attaching[tabCalls[d].target] = d
              /\ tabCalls[d].target # t
      BY <1>7, <2>5, AttachesAlone DEF Tab!BrowserTabsAssumption
    <3>2. tabCalls[d].at = "setup" => session[tabCalls[d].sess].target = tabCalls[d].target
      BY <2>5, AttachesAlone DEF Tab!CallKnown
    <3>3. QED
      BY <2>2, <2>3, <3>1, <3>2
  <2>6. attaching' \in [Others -> Calls \union {nobody}]
    BY <1>5, <1>7
  <2>7. QED
    BY <1>1, <2>1, <2>2, <2>4, <2>5, <2>6, JoinsKnown
<1>8. CASE attaching[t] = nobody /\ sessions[t] = 0 /\ attaching' = [attaching EXCEPT ![t] = c]
           /\ tabCalls' = [tabCalls EXCEPT ![c].at = "attaching", ![c].target = t, ![c].conn = cdp]
  <2> DEFINE x == [tabCalls[c] EXCEPT !.at = "attaching", !.target = t, !.conn = cdp]
  <2>1. tabCalls' = [tabCalls EXCEPT ![c] = x]
    BY <1>8, TabsTyped
  <2>2. x \in Tab(p)!CallType /\ x.at = "attaching" /\ x.target = t /\ x.sess = 0
            /\ x.tab = tabCalls[c].tab
        /\ x.kind = "click" /\ x.ext = tabCalls[c].ext
    BY <1>1, <1>2, <1>4, <1>5, ZenonT(90) DEF Tab!CallType
  <2> HIDE DEF x
  <2>3. attaching'[t] = c /\ attaching' \in [Others -> Calls \union {nobody}]
        /\ \A u \in Others : u # t => attaching'[u] = attaching[u]
    BY <1>4, <1>5, <1>8
  <2>4. Tab(p)!CallKnown(c, tabCalls[c])'
    <3>1. tabCalls'[c] = x
      BY <2>1, TabsTyped
    <3>2. QED
      BY <1>2, <1>4, <1>8, <2>2, <2>3, <3>1 DEF Tab!CallKnown
  <2>5. ASSUME NEW d \in Calls, d # c, tabCalls[d].at \in {"attaching", "setup"}
        PROVE  attaching'[tabCalls[d].target] = d /\ (tabCalls[d].at = "setup" =>
                                                      x.sess # tabCalls[d].sess)
    <3>1. attaching[tabCalls[d].target] = d /\ tabCalls[d].target \in Others
              /\ tabCalls[d].target # t
      BY <1>8, <2>5, AttachesAlone DEF Tab!BrowserTabsAssumption
    <3>2. QED
      BY <2>2, <2>3, <2>5, <3>1, AttachesAlone DEF Tab!CallKnown
  <2>6. QED
    BY <1>1, <2>1, <2>2, <2>3, <2>4, <2>5, JoinsKnown, ZenonT(90)
<1>9. QED
  BY <1>3, <1>6, <1>7, <1>8

\* The page is attached: the session is its alone.
LEMMA AttachedKeeps ==
  ASSUME NEW p, Tab(p)!BrowserTabsAssumption, Tab(p)!IInv, NEW c \in Calls, Tab(p)!Attached(c)
  PROVE  Tab(p)!IInv'
<1> DEFINE m == tabCalls[c].conn
           t == tabCalls[c].target
<1>1. /\ tabCalls[c].at = "attaching" /\ m # 0 /\ conns[m] = browser /\ t \in living
      /\ cdp = m /\ tabOf[t] # 0
      /\ UNCHANGED <<Tab(p)!chrome, Tab(p)!link, Tab(p)!tabs, attaching, installed, Tab(p)!history>>
  BY DEF Tab!Attached, Tab!At
<1>2. PICK s \in Tab(p)!FreeSessions :
        /\ session' = [session EXCEPT ![s] = [target |-> t, conn |-> m, live |-> TRUE]]
        /\ sessions' = [sessions EXCEPT ![t] = s]
        /\ tabCalls' = [tabCalls EXCEPT ![c].at = "setup", ![c].sess = s]
  BY DEF Tab!Attached
<1>3. /\ tabCalls[c] \in Tab(p)!CallType /\ Tab(p)!CallKnown(c, tabCalls[c]) /\ t \in Others
      /\ attaching[t] = c /\ sessions[t] = 0
      /\ \A d \in Calls : d # c /\ tabCalls[d].at \in {"attaching", "setup"} =>
         tabCalls[d].target # t
  BY <1>1, AttachesAlone DEF Tab!CallKnown
<1>4. /\ s \in Tab(p)!Sessions /\ ~session[s].live /\ (\A u \in Others : sessions[u] # s)
           /\ (\A d \in Calls : tabCalls[d].sess # s)
      /\ s # 0 /\ s \in 0..p.sessions
  BY <1>2 DEF Tab!FreeSessions, Tab!Sessions, Tab!BrowserTabsAssumption
<1>5. session \in [Tab(p)!Sessions -> SessionType(p)] /\ sessions \in [Others -> 0..p.sessions]
          /\ m \in 0..p.connections
      /\ browser # 0
  BY <1>1, <1>3, TabsTyped DEF Tab!IInv, Tab!TypeOK, SessionType, Tab!CallType
<1>6. [target |-> t, conn |-> m, live |-> TRUE] \in SessionType(p)
  BY <1>3, <1>5 DEF SessionType
<1>7. /\ session' \in [Tab(p)!Sessions -> SessionType(p)]
      /\ session'[s] = [target |-> t, conn |-> m, live |-> TRUE]
      /\ \A r \in Tab(p)!Sessions : r # s => session'[r] = session[r]
  BY <1>2, <1>4, <1>5, <1>6
<1>8. /\ sessions' \in [Others -> 0..p.sessions] /\ sessions'[t] = s
      /\ \A u \in Others : u # t => sessions'[u] = sessions[u]
  BY <1>2, <1>3, <1>4, <1>5
<1> DEFINE x == [tabCalls[c] EXCEPT !.at = "setup", !.sess = s]
<1>9. x \in Tab(p)!CallType /\ x.at = "setup" /\ x.target = t /\ x.sess = s
          /\ x.tab = tabCalls[c].tab
      /\ x.kind = tabCalls[c].kind /\ x.ext = tabCalls[c].ext
  BY <1>3, <1>4 DEF Tab!CallType
<1>10. tabCalls' = [tabCalls EXCEPT ![c] = x]
  BY <1>2, TabsTyped
<1> HIDE DEF x, m, t
<1>11. tabCalls' \in [Calls -> Tab(p)!CallType] /\ tabCalls'[c] = x /\ \A d \in Calls : d # c =>
         tabCalls'[d] = tabCalls[d]
  BY <1>9, <1>10, TabsTyped
<1>12. UNCHANGED <<browser, loaded, dying, living, born, conns, subscribed, cdp, ownPid, ensuring,
         nextTabId, tabOf, named,
                  attaching, installed, astray, stuck, unloaded>>
  BY <1>1 DEF Tab!chrome, Tab!link, Tab!tabs, Tab!history
<1>13. Tab(p)!TypeOK'
  BY <1>7, <1>8, <1>12 DEF Tab!IInv, Tab!TypeOK, SessionType
<1>14. Tab(p)!NumbersAreOwn'
  BY <1>12 DEF Tab!IInv, Tab!NumbersAreOwn
<1>15. Tab(p)!SessionsKnown'
  <2>1. ASSUME NEW r \in Tab(p)!Sessions, session'[r].live
        PROVE  session'[r].conn # 0 /\ conns'[session'[r].conn] # 0
                   /\ session'[r].target \in living'
    <3>1. CASE r = s
      BY <1>1, <1>5, <1>7, <1>12, <3>1
    <3>2. CASE r # s
      BY <1>7, <1>12, <2>1, <3>2 DEF Tab!IInv, Tab!SessionsKnown
    <3>3. QED
      BY <3>1, <3>2
  <2>2. ASSUME NEW u \in Others, sessions'[u] # 0 PROVE session'[sessions'[u]].target = u
    <3>1. CASE u = t
      BY <1>7, <1>8, <3>1
    <3>2. CASE u # t
      <4>1. sessions'[u] = sessions[u] /\ sessions[u] # s /\ sessions[u] \in Tab(p)!Sessions
                /\ session[sessions[u]].target = u
        BY <1>4, <1>5, <1>8, <2>2, <3>2 DEF Tab!IInv, Tab!SessionsKnown, Tab!Sessions,
           Tab!BrowserTabsAssumption
      <4>2. QED
        BY <1>7, <4>1
    <3>3. QED
      BY <3>1, <3>2
  <2>3. QED
    BY <1>12, <2>1, <2>2 DEF Tab!IInv, Tab!SessionsKnown
<1>16. ASSUME NEW d \in Calls PROVE Tab(p)!CallKnown(d, tabCalls[d])'
  <2>1. tabCalls[d] \in Tab(p)!CallType /\ Tab(p)!CallKnown(d, tabCalls[d]) /\ tabCalls[d].sess # s
    BY <1>4, TabsTyped DEF Tab!IInv
  <2>2. CASE d = c
    <3>1. /\ tabCalls[c].tab # 0 /\ t # nobody /\ named[tabCalls[c].tab] = t
          /\ tabCalls[c].kind = "installed" => tabCalls[c].ext # 0
      BY <1>1, <1>3 DEF Tab!CallKnown, t
    <3>2. attaching'[t] = c /\ named'[tabCalls[c].tab] = t /\ session'[s].target = t
      BY <1>3, <1>7, <1>12, <3>1
    <3>3. Tab(p)!CallKnown(c, tabCalls[c])'
      BY <1>4, <1>9, <1>11, <3>1, <3>2 DEF Tab!CallKnown
    <3>4. QED
      BY <2>2, <3>3
  <2>3. CASE d # c
    <3>1. tabCalls'[d] = tabCalls[d] /\ tabCalls[d].target \in Others \union {nobody}
              /\ tabCalls[d].sess \in 0..p.sessions
      BY <1>11, <2>1, <2>3 DEF Tab!CallType
    <3>2. tabCalls[d].sess # 0 => session'[tabCalls[d].sess] = session[tabCalls[d].sess]
      BY <1>7, <2>1, <3>1 DEF Tab!Sessions, Tab!BrowserTabsAssumption
    <3>3. tabCalls[d].at = "attaching" => sessions'[tabCalls[d].target] = 0
      BY <1>3, <1>8, <2>1, <2>3, <3>1 DEF Tab!CallKnown
    <3>4. QED
      BY <1>12, <2>1, <3>1, <3>2, <3>3 DEF Tab!CallKnown
  <2>4. QED
    BY <2>2, <2>3
<1>17. Tab(p)!SetUpAlone'
  BY <1>4, <1>9, <1>11 DEF Tab!IInv, Tab!SetUpAlone
<1>18. Tab(p)!LiveSessionsAreShared'
  <2> SUFFICES ASSUME NEW d \in Calls, tabCalls'[d].at \in {"ready", "pressed"},
                      session'[tabCalls'[d].sess].live, session'[tabCalls'[d].sess].conn = cdp'
               PROVE  sessions'[tabCalls'[d].target] = tabCalls'[d].sess
    BY DEF Tab!LiveSessionsAreShared
  <2>1. d # c /\ tabCalls'[d] = tabCalls[d]
    BY <1>9, <1>11
  <2>2. tabCalls[d].sess \in Tab(p)!Sessions /\ tabCalls[d].sess # s /\ tabCalls[d].sess # 0
            /\ tabCalls[d].target \in Others
    BY <1>4, <2>1, HoldsKnown DEF Tab!CallKnown
  <2>3. sessions[tabCalls[d].target] = tabCalls[d].sess
    BY <1>7, <1>12, <2>1, <2>2 DEF Tab!IInv, Tab!LiveSessionsAreShared
  <2>4. QED
    BY <1>3, <1>8, <2>1, <2>2, <2>3
<1>19. Tab(p)!PressesReachTheirTab' /\ Tab(p)!PressesAreReleased'
  BY <1>12 DEF Tab!IInv, Tab!PressesReachTheirTab, Tab!PressesAreReleased
<1>20. QED
  BY <1>11, <1>13, <1>14, <1>15, <1>16, <1>17, <1>18, <1>19 DEF Tab!IInv

\* A call that is given the session s of the page t.
Given(x, t, s) == [x EXCEPT !.at = "ready", !.conn = 0, !.target = t, !.sess = s]

\* The attachment is over, for the call that ran it and for those that joined it.
LEMMA AttachEndsAll ==
  ASSUME NEW p, Tab(p)!BrowserTabsAssumption, Tab(p)!IInv, NEW c \in Calls,
         NEW s \in {0, tabCalls[c].sess}, Tab(p)!AttachEnds(c, s),
         tabCalls[c].at \in {"attaching", "setup"}
  PROVE  /\ attaching' \in [Others -> Calls \union {nobody}]
         /\ tabCalls' \in [Calls -> Tab(p)!CallType]
         /\ \A u \in Others : u # tabCalls[c].target => attaching'[u] = attaching[u]
         /\ \A d \in Calls :
              \/ d # c /\ tabCalls'[d] = tabCalls[d]
                   /\ ~(tabCalls[d].at = "waiting" /\ tabCalls[d].target = tabCalls[c].target)
              \/ s = 0 /\ tabCalls'[d] = Tab(p)!Idle
              \/ /\ d # c =>
                      tabCalls[d].at = "waiting" /\ tabCalls[d].target = tabCalls[c].target
                 /\ s # 0
                 /\ tabCalls'[d] = Given(tabCalls[d], tabCalls[c].target, s)
<1>1. \A d \in Calls : tabCalls[d] \in Tab(p)!CallType
  BY TabsTyped
<1>2. tabCalls[c].target \in Others /\ s \in 0..p.sessions
  BY <1>1, AttachesAlone DEF Tab!CallType, Tab!BrowserTabsAssumption
<1>3. /\ attaching' \in [Others -> Calls \union {nobody}]
      /\ \A u \in Others : u # tabCalls[c].target => attaching'[u] = attaching[u]
  BY DEF Tab!AttachEnds, Tab!IInv, Tab!TypeOK
<1>4. ASSUME NEW d \in Calls
      PROVE  /\ tabCalls'[d] \in Tab(p)!CallType
             /\ \/ d # c /\ tabCalls'[d] = tabCalls[d]
                   /\ ~(tabCalls[d].at = "waiting" /\ tabCalls[d].target = tabCalls[c].target)
                \/ s = 0 /\ tabCalls'[d] = Tab(p)!Idle
                \/ /\ d # c =>
                        tabCalls[d].at = "waiting" /\ tabCalls[d].target = tabCalls[c].target
                   /\ s # 0
                   /\ tabCalls'[d] = Given(tabCalls[d], tabCalls[c].target, s)
<2>1. Given(tabCalls[d], tabCalls[c].target, s) \in Tab(p)!CallType
    <3>1. 0 \in 0..p.connections
      BY DEF Tab!BrowserTabsAssumption
    <3>2. QED
      BY <1>1, <1>2, <3>1, ZenonT(90) DEF Tab!CallType, Given
  <2>2. tabCalls'[d] = IF d = c \/ (tabCalls[d].at = "waiting"
                                    /\ tabCalls[d].target = tabCalls[c].target)
                    THEN IF s = 0 THEN Tab(p)!Idle
                         ELSE Given(tabCalls[d], tabCalls[c].target, s)
                    ELSE tabCalls[d]
    BY DEF Tab!AttachEnds, Tab!At, Given
  <2>3. QED
    BY <1>1, <2>1, <2>2, IdleTabCall
<1>5. tabCalls' \in [Calls -> Tab(p)!CallType]
  BY <1>4 DEF Tab!AttachEnds
<1>6. QED
  BY <1>3, <1>4, <1>5

\* An attachment ends, with the session for all that waited for it or with none.
LEMMA AttachmentOver ==
  ASSUME NEW p, Tab(p)!BrowserTabsAssumption, Tab(p)!IInv, NEW c \in Calls,
         NEW s \in {0, tabCalls[c].sess}, Tab(p)!AttachEnds(c, s),
         tabCalls[c].at \in {"attaching", "setup"},
         s # 0 => tabCalls[c].at = "setup" /\ sessions[tabCalls[c].target] = s,
         UNCHANGED <<Tab(p)!chrome, Tab(p)!link, Tab(p)!tabs, session, installed, Tab(p)!history>>,
         sessions' \in [Others -> 0..p.sessions],
         \A u \in Others :
                            \/ sessions'[u] = sessions[u]
                            \/ s = 0 /\ sessions'[u] = 0 /\ sessions[u] = tabCalls[c].sess
                                 /\ tabCalls[c].sess # 0
  PROVE  Tab(p)!IInv'
<1> DEFINE t == tabCalls[c].target
<1>1. /\ tabCalls[c] \in Tab(p)!CallType /\ Tab(p)!CallKnown(c, tabCalls[c]) /\ t \in Others
      /\ attaching[t] = c
      /\ \A d \in Calls : d # c /\ tabCalls[d].at \in {"attaching", "setup"} =>
         tabCalls[d].target # t
      /\ tabCalls[c].at = "attaching" => tabCalls[c].sess = 0
  BY AttachesAlone DEF Tab!CallKnown
<1>2. /\ attaching' \in [Others -> Calls \union {nobody}]
      /\ tabCalls' \in [Calls -> Tab(p)!CallType]
      /\ \A u \in Others : u # t => attaching'[u] = attaching[u]
      /\ \A d \in Calls :
           \/ d # c /\ tabCalls'[d] = tabCalls[d]
                /\ ~(tabCalls[d].at = "waiting" /\ tabCalls[d].target = t)
           \/ s = 0 /\ tabCalls'[d] = Tab(p)!Idle
           \/ /\ d # c =>
                   tabCalls[d].at = "waiting" /\ tabCalls[d].target = t
              /\ s # 0
              /\ tabCalls'[d] = Given(tabCalls[d], t, s)
  BY AttachEndsAll
<1>3. UNCHANGED <<browser, loaded, dying, living, born, conns, subscribed, cdp, ownPid, ensuring,
        nextTabId, tabOf, named,
                  session, installed, astray, stuck, unloaded>>
  BY DEF Tab!chrome, Tab!link, Tab!tabs, Tab!history
<1>4. Tab(p)!TypeOK' /\ Tab(p)!NumbersAreOwn'
  BY <1>2, <1>3 DEF Tab!IInv, Tab!TypeOK, Tab!NumbersAreOwn
<1>5. Tab(p)!SessionsKnown'
  BY <1>3 DEF Tab!IInv, Tab!SessionsKnown
<1>6. s # 0 => s \in Tab(p)!Sessions /\ session[s].target = t /\ sessions'[t] = s
  BY <1>1 DEF Tab!IInv, Tab!TypeOK, Tab!SessionsKnown, Tab!Sessions, Tab!BrowserTabsAssumption
<1>7. ASSUME NEW d \in Calls
      PROVE  \/ /\ d # c /\ tabCalls'[d] = tabCalls[d]
                /\ tabCalls[d].at \in {"attaching", "setup"} => tabCalls[d].target # t
             \/ tabCalls'[d] = Tab(p)!Idle
             \/ /\ s # 0 /\ tabCalls'[d].at = "ready"
                /\ tabCalls'[d].target = t /\ tabCalls'[d].sess = s
                /\ tabCalls'[d].tab = tabCalls[d].tab /\ tabCalls'[d].kind = tabCalls[d].kind
                /\ tabCalls'[d].ext = tabCalls[d].ext
                /\ tabCalls[d].tab # 0 /\ named[tabCalls[d].tab] = t /\ t # nobody
                /\ tabCalls[d].kind = "installed" => tabCalls[d].ext # 0
  <2>1. tabCalls[d] \in Tab(p)!CallType /\ Tab(p)!CallKnown(d, tabCalls[d])
    BY TabsTyped DEF Tab!IInv
  <2>2. CASE d # c /\ tabCalls'[d] = tabCalls[d]
    BY <1>1, <2>2
  <2>3. CASE /\ d # c =>
                  tabCalls[d].at = "waiting" /\ tabCalls[d].target = t
             /\ s # 0
             /\ tabCalls'[d] = Given(tabCalls[d], t, s)
    <3>1. tabCalls[d].at \in {"attaching", "setup", "waiting"} /\ tabCalls[d].target = t
      BY <2>3
    <3>2. tabCalls[d].tab # 0 /\ named[tabCalls[d].tab] = t /\ t # nobody
              /\ (tabCalls[d].kind = "installed" => tabCalls[d].ext # 0)
      BY <2>1, <3>1 DEF Tab!CallKnown
    <3>3. tabCalls'[d].at = "ready" /\ tabCalls'[d].target = t /\ tabCalls'[d].sess = s
          /\ tabCalls'[d].tab = tabCalls[d].tab /\ tabCalls'[d].kind = tabCalls[d].kind
          /\ tabCalls'[d].ext = tabCalls[d].ext
      BY <2>1, <2>3 DEF Tab!CallType, Given
    <3>4. QED
      BY <2>3, <3>2, <3>3
  <2>4. QED
    BY <1>2, <2>2, <2>3
<1> HIDE DEF t
<1>8. ASSUME NEW d \in Calls PROVE Tab(p)!CallKnown(d, tabCalls[d])'
  <2>1. tabCalls[d] \in Tab(p)!CallType /\ Tab(p)!CallKnown(d, tabCalls[d])
    BY TabsTyped DEF Tab!IInv
  <2>2. CASE d # c /\ tabCalls'[d] = tabCalls[d] /\ (tabCalls[d].at \in {"attaching", "setup"} =>
                                                     tabCalls[d].target # t)
    <3>1. tabCalls[d].at \in {"attaching", "setup"} =>
            tabCalls[d].target \in Others
                /\ attaching'[tabCalls[d].target] = attaching[tabCalls[d].target]
      BY <1>2, <2>2, AttachesAlone
    <3>2. tabCalls[d].at = "attaching" => sessions'[tabCalls[d].target] = 0
      BY <2>1, <2>2, AttachesAlone DEF Tab!CallKnown
    <3>3. QED
      BY <1>3, <2>1, <2>2, <3>1, <3>2 DEF Tab!CallKnown
  <2>3. CASE tabCalls'[d] = Tab(p)!Idle
    BY <2>3 DEF Tab!Idle, Tab!CallKnown
  <2>4. CASE /\ s # 0 /\ tabCalls'[d].at = "ready"
             /\ tabCalls'[d].target = t /\ tabCalls'[d].sess = s
             /\ tabCalls'[d].tab = tabCalls[d].tab /\ tabCalls'[d].kind = tabCalls[d].kind
             /\ tabCalls'[d].ext = tabCalls[d].ext
             /\ tabCalls[d].tab # 0 /\ named[tabCalls[d].tab] = t /\ t # nobody
             /\ tabCalls[d].kind = "installed" => tabCalls[d].ext # 0
    BY <1>3, <1>6, <2>4 DEF Tab!CallKnown
  <2>5. QED
    BY <1>7, <2>2, <2>3, <2>4
<1>9. Tab(p)!SetUpAlone'
  <2> SUFFICES ASSUME NEW d \in Calls, NEW e \in Calls, d # e, tabCalls'[d].at = "setup"
               PROVE  tabCalls'[e].sess # tabCalls'[d].sess
    BY DEF Tab!SetUpAlone
  <2>1. d # c /\ tabCalls'[d] = tabCalls[d]
    BY <1>7 DEF Tab!Idle
  <2>2. tabCalls[e].sess # tabCalls[d].sess /\ tabCalls[c].sess # tabCalls[d].sess
            /\ tabCalls[d].sess # 0
    BY <2>1, HoldsKnown DEF Tab!IInv, Tab!SetUpAlone, Tab!CallKnown
  <2>3. tabCalls'[e].sess \in {tabCalls[e].sess, 0, s}
    BY <1>7 DEF Tab!Idle
  <2>4. QED
    BY <2>1, <2>2, <2>3
<1>10. Tab(p)!LiveSessionsAreShared'
  <2> SUFFICES ASSUME NEW d \in Calls, tabCalls'[d].at \in {"ready", "pressed"},
                      session'[tabCalls'[d].sess].live, session'[tabCalls'[d].sess].conn = cdp'
               PROVE  sessions'[tabCalls'[d].target] = tabCalls'[d].sess
    BY DEF Tab!LiveSessionsAreShared
  <2>1. CASE d # c /\ tabCalls'[d] = tabCalls[d]
    <3>1. sessions[tabCalls[d].target] = tabCalls[d].sess /\ tabCalls[d].target \in Others
      BY <1>3, <2>1, HoldsKnown DEF Tab!IInv, Tab!LiveSessionsAreShared
    <3>2. tabCalls[c].at = "setup" => tabCalls[d].sess # tabCalls[c].sess
      BY <2>1 DEF Tab!IInv, Tab!SetUpAlone
    <3>3. QED
      BY <1>1, <2>1, <3>1, <3>2
  <2>2. CASE tabCalls'[d].target = t /\ tabCalls'[d].sess = s /\ s # 0
    BY <1>6, <2>2
  <2>3. QED
    BY <1>7, <2>1, <2>2 DEF Tab!Idle
<1>11. Tab(p)!PressesReachTheirTab' /\ Tab(p)!PressesAreReleased'
  BY <1>3 DEF Tab!IInv, Tab!PressesReachTheirTab, Tab!PressesAreReleased
<1>12. QED
  BY <1>2, <1>4, <1>5, <1>8, <1>9, <1>10, <1>11 DEF Tab!IInv

\* An attachment ends well, or fails.
LEMMA AttachmentsKeep ==
  ASSUME NEW p, Tab(p)!BrowserTabsAssumption, Tab(p)!IInv, NEW c \in Calls,
         Tab(p)!SetUp(c) \/ Tab(p)!AttachFails(c)
  PROVE  Tab(p)!IInv'
<1>1. sessions \in [Others -> 0..p.sessions] /\ 0 \in 0..p.sessions
  BY DEF Tab!IInv, Tab!TypeOK, Tab!BrowserTabsAssumption
<1>2. CASE Tab(p)!SetUp(c)
  <2>1. /\ tabCalls[c].at = "setup" /\ sessions[tabCalls[c].target] = tabCalls[c].sess
        /\ Tab(p)!AttachEnds(c, tabCalls[c].sess)
        /\ UNCHANGED <<Tab(p)!chrome, Tab(p)!link, Tab(p)!tabs, session, installed,
           Tab(p)!history>> /\ sessions' = sessions
    BY <1>2 DEF Tab!SetUp, Tab!At
  <2>2. QED
    BY <1>1, <2>1, AttachmentOver
<1>3. CASE Tab(p)!AttachFails(c)
  <2>1. /\ tabCalls[c].at \in {"attaching", "setup"} /\ Tab(p)!AttachEnds(c, 0)
        /\ UNCHANGED <<Tab(p)!chrome, Tab(p)!link, Tab(p)!tabs, session, installed, Tab(p)!history>>
        /\ sessions' = [t \in Others |-> IF tabCalls[c].sess # 0
                        /\ sessions[t] = tabCalls[c].sess THEN 0 ELSE sessions[t]]
    BY <1>3 DEF Tab!AttachFails
  <2>2. sessions' \in [Others -> 0..p.sessions]
        /\ \A u \in Others :
                              \/ sessions'[u] = sessions[u]
                              \/ sessions'[u] = 0 /\ sessions[u] = tabCalls[c].sess
                                   /\ tabCalls[c].sess # 0
    BY <1>1, <2>1
  <2>3. QED
    BY <2>1, <2>2, AttachmentOver
<1>4. QED
  BY <1>2, <1>3

\* Nothing happens.
LEMMA TabsStay == ASSUME NEW p, Tab(p)!IInv, UNCHANGED Tab(p)!vars PROVE Tab(p)!IInv'
<1>1. UNCHANGED <<browser, loaded, dying, living, born, conns, subscribed, cdp, ownPid, ensuring,
          nextTabId, tabOf, sessions, attaching, session, tabCalls, installed,
          named, astray, stuck, unloaded>>
  BY DEF Tab!vars
<1>2. Tab(p)!TypeOK' /\ tabCalls' \in [Calls -> Tab(p)!CallType]
  BY <1>1 DEF Tab!IInv, Tab!TypeOK
<1>3. Tab(p)!NumbersAreOwn' /\ Tab(p)!SessionsKnown' /\ Tab(p)!SetUpAlone'
  BY <1>1 DEF Tab!IInv, Tab!NumbersAreOwn, Tab!SessionsKnown, Tab!SetUpAlone
<1>4. \A c \in Calls : Tab(p)!CallKnown(c, tabCalls[c])'
  BY <1>1 DEF Tab!IInv, Tab!CallKnown
<1>5. Tab(p)!LiveSessionsAreShared' /\ Tab(p)!PressesReachTheirTab' /\ Tab(p)!PressesAreReleased'
  BY <1>1 DEF Tab!IInv, Tab!LiveSessionsAreShared, Tab!PressesReachTheirTab,
     Tab!PressesAreReleased
<1>6. QED
  BY <1>2, <1>3, <1>4, <1>5 DEF Tab!IInv

\* Every step keeps the invariant.
LEMMA TabsSteps ==
  ASSUME NEW p, Tab(p)!BrowserTabsAssumption, Tab(p)!IInv, Tab(p)!Next
  PROVE  Tab(p)!IInv'
<1>1. ASSUME NEW c \in Calls, Tab(p)!Step(c) PROVE Tab(p)!IInv'
  BY <1>1, LaunchKeeps, DiscoveredKeeps, EnsureKeeps, TabHandlersKeep, EnsureAttachedKeeps,
     AttachedKeeps, AttachmentsKeep,
     PressKeeps, ReleaseKeeps, InstallBegins, InstallCloses, ResetKeeps, InstalledKeeps DEF Tab!Step
<1>2. ASSUME NEW c \in Calls, Tab(p)!Abort(c) PROVE Tab(p)!IInv'
  BY <1>2, PressKeeps
<1>3. ASSUME NEW c \in Calls, NEW n \in Tab(p)!Tabs, Tab(p)!Call(c, "click", n) PROVE Tab(p)!IInv'
  BY <1>3, TabCallBegins
<1>4. ASSUME NEW c \in Calls, NEW kind \in {"list", "install"}, Tab(p)!Call(c, kind, 1)
      PROVE  Tab(p)!IInv'
  BY <1>4, TabCallBegins
<1>5. ASSUME NEW t \in Others, Tab(p)!PageOpens(t) \/ Tab(p)!PageCloses(t) PROVE Tab(p)!IInv'
  BY <1>5, OpensKeep, ClosesKeep
<1>6. ASSUME NEW s \in Tab(p)!Sessions, Tab(p)!SessionDetaches(s) PROVE Tab(p)!IInv'
  BY <1>6, DetachesKeep
<1>7. ASSUME NEW m \in Tab(p)!Connections, Tab(p)!ConnectionLost(m) PROVE Tab(p)!IInv'
  BY <1>7, LostKeeps
<1>8. CASE Tab(p)!BrowserExits
  BY <1>8, ExitKeeps
<1>9. QED
  BY <1>1, <1>2, <1>3, <1>4, <1>5, <1>6, <1>7, <1>8 DEF Tab!Next

\* What the invariant says of the tabs.
LEMMA TabsMeans ==
  ASSUME NEW p, Tab(p)!IInv
  PROVE  Tab(p)!TypeOK /\ Tab(p)!LiveSessionsAreShared /\ Tab(p)!PressesAreReleased
             /\ Tab(p)!PressesReachTheirTab
BY DEF Tab!IInv

-----------------------------------------------------------------------------
(* The components, one of them exercised *)

\* The human keeps control of the page, whatever the agents, the approvals and the
\* transport do, if playwright closes in order: until a takeover is asked for over a
\* connection given up, a call admitted before sends nothing through send() once he was
\* told but the releases it owes, two at most, and a takeover lasts until its own request
\* is resumed; and a request is always decided once (send, request_takeover, human_control).
THEOREM HumanKeepsControl ==
  ASSUME NEW p, Human(p)!HumanControlAssumption, ClosesInOrder
  PROVE  Human(p)!Spec => [](/\ Human(p)!TypeOK /\ Human(p)!AdmittedCallsPause
                             /\ Human(p)!OnlyOwedReleases /\ Human(p)!OrderlyTakeoversEnd
                             /\ Human(p)!RequestsDecidedOnce)
<1>1. Human(p)!Init => Human(p)!IInv
  BY HumanStarts
<1>2. Human(p)!IInv /\ [Human(p)!Next]_(Human(p)!vars) => Human(p)!IInv'
  BY HumanSteps, HumanStays
<1>3. Human(p)!IInv => /\ Human(p)!TypeOK /\ Human(p)!AdmittedCallsPause
                       /\ Human(p)!OnlyOwedReleases /\ Human(p)!OrderlyTakeoversEnd
                       /\ Human(p)!RequestsDecidedOnce
  BY HumanMeans
<1>4. QED
  BY <1>1, <1>2, <1>3, PTL DEF Human!Spec

\* The agent's calls keep apart, over any pages, connections, sessions and relaunches:
\* calls on one page over one connection share its session, a click is released
\* wherever it could still be, and a press goes to the page its number was first given
\* to (ensureAttached, mouseClick, _intForTarget).
THEOREM TabsKeepApart ==
  ASSUME NEW p, Tab(p)!BrowserTabsAssumption
  PROVE  Tab(p)!Spec => [](/\ Tab(p)!TypeOK /\ Tab(p)!LiveSessionsAreShared
                           /\ Tab(p)!PressesAreReleased /\ Tab(p)!PressesReachTheirTab)
<1>1. Tab(p)!Init => Tab(p)!IInv
  BY TabsStarts
<1>2. Tab(p)!IInv /\ [Tab(p)!Next]_(Tab(p)!vars) => Tab(p)!IInv'
  BY TabsSteps, TabsStay
<1>3. Tab(p)!IInv => /\ Tab(p)!TypeOK /\ Tab(p)!LiveSessionsAreShared
                     /\ Tab(p)!PressesAreReleased /\ Tab(p)!PressesReachTheirTab
  BY TabsMeans
<1>4. QED
  BY <1>1, <1>2, <1>3, PTL DEF Tab!Spec

\* What a step is to the component that is exercised.
LEMMA StepCases ==
    ASSUME [Next]_vars
    PROVE  /\ part' = part
           /\ part = "takeover" => [Human(Takeovers)!Next]_(Human(Takeovers)!vars)
           /\ part = "decision" => [Human(Decisions)!Next]_(Human(Decisions)!vars)
           /\ part = "tabs" => [Tab(Sharing)!Next]_(Tab(Sharing)!vars)
           /\ part = "relaunch" => [Tab(Relaunching)!Next]_(Tab(Relaunching)!vars)
<1>1. CASE HumanStep
  BY <1>1 DEF HumanStep
<1>2. CASE TabsStep
  BY <1>2 DEF TabsStep
<1>3. CASE UNCHANGED vars
  BY <1>3 DEF vars, humanVars, tabVars, Human!vars, Tab!vars
<1>4. QED
  BY <1>1, <1>2, <1>3 DEF Next

\* The invariant of human control, where it is exercised.
HumanInv ==
    /\ part = "takeover" => Human(Takeovers)!IInv
    /\ part = "decision" => Human(Decisions)!IInv

\* And of the tabs.
TabsInv ==
    /\ part = "tabs" => Tab(Sharing)!IInv
    /\ part = "relaunch" => Tab(Relaunching)!IInv

\* In MCSidecar the human keeps control, if playwright closes in order: what
\* HumanKeepsControl says, of the takeovers and of the decisions of the run.
THEOREM HumanIsSafe == ClosesInOrder => (Spec => []HumanSafe)
<1> SUFFICES ASSUME ClosesInOrder PROVE Spec => []HumanSafe
  OBVIOUS
<1>1. Init => HumanInv
  <2>1. Human(Decisions)!Init => Human(Decisions)!IInv
    BY SidecarAssumption, HumanStarts
  <2>2. Human(Takeovers)!Init => Human(Takeovers)!IInv
    BY SidecarAssumption, HumanStarts
  <2>3. QED
    BY <2>1, <2>2 DEF Init, HumanInv
<1>2. HumanInv /\ [Next]_vars => HumanInv'
  <2> SUFFICES ASSUME HumanInv, [Next]_vars PROVE HumanInv'
    OBVIOUS
  <2>1. CASE part = "takeover"
    <3>1. Human(Takeovers)!IInv'
      BY <2>1, SidecarAssumption, StepCases, HumanSteps, HumanStays DEF HumanInv
    <3>2. QED
      BY <2>1, <3>1, StepCases DEF HumanInv
  <2>2. CASE part = "decision"
    <3>1. Human(Decisions)!IInv'
      BY <2>2, SidecarAssumption, StepCases, HumanSteps, HumanStays DEF HumanInv
    <3>2. QED
      BY <2>2, <3>1, StepCases DEF HumanInv
  <2>3. QED
    BY <2>1, <2>2, StepCases DEF HumanInv
<1>3. HumanInv => HumanSafe
  <2>1. Human(Takeovers)!IInv =>
          /\ Human(Takeovers)!AdmittedCallsPause /\ Human(Takeovers)!OnlyOwedReleases
          /\ Human(Takeovers)!OrderlyTakeoversEnd
    BY HumanMeans
  <2>2. Human(Decisions)!IInv => Human(Decisions)!TypeOK /\ Human(Decisions)!RequestsDecidedOnce
    BY HumanMeans
  <2>3. QED
    BY <2>1, <2>2 DEF HumanInv, HumanSafe
<1>4. QED
  BY <1>1, <1>2, <1>3, PTL DEF Spec

\* In MCSidecar the agent's calls keep apart.
THEOREM TabsAreSafe == Spec => []TabsSafe
<1>1. Init => TabsInv
  <2>1. Tab(Sharing)!Init => Tab(Sharing)!IInv
    BY SidecarAssumption, TabsStarts
  <2>2. Tab(Relaunching)!Init => Tab(Relaunching)!IInv
    BY SidecarAssumption, TabsStarts
  <2>3. QED
    BY <2>1, <2>2 DEF Init, TabsInv
<1>2. TabsInv /\ [Next]_vars => TabsInv'
  <2> SUFFICES ASSUME TabsInv, [Next]_vars PROVE TabsInv'
    OBVIOUS
  <2>1. CASE part = "tabs"
    <3>1. Tab(Sharing)!IInv'
      BY <2>1, SidecarAssumption, StepCases, TabsSteps, TabsStay DEF TabsInv
    <3>2. QED
      BY <2>1, <3>1, StepCases DEF TabsInv
  <2>2. CASE part = "relaunch"
    <3>1. Tab(Relaunching)!IInv'
      BY <2>2, SidecarAssumption, StepCases, TabsSteps, TabsStay DEF TabsInv
    <3>2. QED
      BY <2>2, <3>1, StepCases DEF TabsInv
  <2>3. QED
    BY <2>1, <2>2, StepCases DEF TabsInv
<1>3. TabsInv => TabsSafe
  <2>1. Tab(Sharing)!IInv => Tab(Sharing)!LiveSessionsAreShared /\ Tab(Sharing)!PressesAreReleased
    BY TabsMeans
  <2>2. Tab(Relaunching)!IInv => Tab(Relaunching)!TypeOK /\ Tab(Relaunching)!PressesReachTheirTab
    BY TabsMeans
  <2>3. QED
    BY <2>1, <2>2 DEF TabsInv, TabsSafe
<1>4. QED
  BY <1>1, <1>2, <1>3, PTL DEF Spec
=============================================================================

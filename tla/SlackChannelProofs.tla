------------------------- MODULE SlackChannelProofs -------------------------
(***************************************************************************)
(* Theorems about SlackChannel, for any number of teams, channels,         *)
(* bindings, requests, events and operations and any bounds.               *)
(*                                                                         *)
(* Every proof starts from which actions change a part of the state (the   *)
(* Frame lemmas), and looks at those actions only.                         *)
(***************************************************************************)
EXTENDS SlackChannel, TLAPS

-----------------------------------------------------------------------------
(* Which actions change which part of the state *)

BindingsChange ==
    \/ \E b \in Bindings : \/ \E t \in Teams, c \in Channels : Start(b, t, c)
                           \/ IssueSession(b) \/ Disconnect(b)
    \/ \E r \in Requests : FailBinding(r) \/ StoreGrant(r) \/ ActivateBinding(r)
    \/ \E e \in Events : ReceiveLifecycle(e)

GrantsChange ==
    \/ \E r \in Requests : StoreGrant(r) \/ Acquire(r) \/ AdmitRefresh(r) \/ Refreshed(r)
    \/ \E e \in Events : ReceiveLifecycle(e)
    \/ Restart

TxsChange ==
    \/ \E b \in Bindings, t \in Teams, c \in Channels : Start(b, t, c)
    \/ \E r \in Requests : Confirm(r) \/ Consume(r)

DeliveriesChange ==
    \/ \E b \in Bindings, e \in Events, outcome \in {"acknowledged", "denied"} :
          Ack(b, e, outcome)
    \/ \E e \in Events : ReceiveLifecycle(e) \/ ReceiveMention(e)

OperationsChange ==
    \/ \E r \in Requests : AdmitOperation(r) \/ OutcomeUnknown(r) \/ CompleteOperation(r)
    \/ Restart

SlackChange ==
    \/ \E r \in Requests : Exchange(r)
    \/ \E e \in Events, t \in Teams :
          \/ \E c \in Channels : MintMention(e, t, c)
          \/ \E bot \in BOOLEAN, type \in {"app_uninstalled", "tokens_revoked"} :
                MintLifecycle(e, t, type, bot)

HistoryChange ==
    \/ \E r \in Requests : Exchange(r) \/ Refresh(r) \/ Call(r)
    \/ \E e \in Events : ReceiveAgain(e) \/ ReceiveLifecycle(e) \/ ReceiveMention(e)

LEMMA BindingsFrame == Next => UNCHANGED bindings \/ BindingsChange
<1>1. ASSUME NEW r \in Requests, Proceed(r) PROVE UNCHANGED bindings \/ BindingsChange
  BY <1>1, ZenonT(90) DEF BindingsChange, Proceed, CallbackStep, GrantStep, Confirm, Consume, FenceExchange,
     Exchange, AdmitOperation, Acquire, AdmitRefresh, Refresh, Refreshed, AdmitMembers, Members,
     AdmitCall, Call, Leave, OutcomeUnknown, CompleteOperation, Answer, store
<1>2. ASSUME NEW r \in Requests, StoreFails(r) \/ \E b \in Bindings : Request(r, b)
      PROVE  UNCHANGED bindings
  BY <1>2, ZenonT(90) DEF StoreFails, Request, InstallPage, Callback, Activate, Inbox, Api, store
<1>3. ASSUME NEW b \in Bindings, Host(b) PROVE UNCHANGED bindings \/ BindingsChange
  BY <1>3 DEF BindingsChange, Host, Ack
<1>4. ASSUME NEW e \in Events, Slack(e) PROVE UNCHANGED bindings \/ BindingsChange
  BY <1>4 DEF BindingsChange, Slack, MintMention, MintLifecycle, ReceiveAgain, ReceiveMention, store
<1>5. Tick \/ Restart => UNCHANGED bindings
  BY DEF Tick, Restart, store
<1> QED BY <1>1, <1>2, <1>3, <1>4, <1>5, ZenonT(90) DEF Next

LEMMA GrantsFrame == Next => UNCHANGED grants \/ GrantsChange
<1>1. ASSUME NEW r \in Requests, Proceed(r) PROVE UNCHANGED grants \/ GrantsChange
  BY <1>1, ZenonT(90) DEF GrantsChange, Proceed, CallbackStep, GrantStep, Confirm, Consume, FenceExchange,
     Exchange, FailBinding, AdmitOperation, Refresh, AdmitMembers, Members, AdmitCall, Call, Leave,
     OutcomeUnknown, ActivateBinding, CompleteOperation, Answer, store
<1>2. ASSUME NEW r \in Requests, StoreFails(r) \/ \E b \in Bindings : Request(r, b)
      PROVE  UNCHANGED grants
  BY <1>2, ZenonT(90) DEF StoreFails, Request, InstallPage, Callback, Activate, Inbox, Api, store
<1>3. ASSUME NEW b \in Bindings, Host(b) PROVE UNCHANGED grants
  BY <1>3 DEF Host, Start, IssueSession, Disconnect, Ack
<1>4. ASSUME NEW e \in Events, Slack(e) PROVE UNCHANGED grants \/ GrantsChange
  BY <1>4 DEF GrantsChange, Slack, MintMention, MintLifecycle, ReceiveAgain, ReceiveMention, store
<1>5. Tick => UNCHANGED grants
  BY DEF Tick, store
<1> QED BY <1>1, <1>2, <1>3, <1>4, <1>5 DEF Next, GrantsChange

LEMMA TxsFrame == Next => UNCHANGED txs \/ TxsChange
<1>1. ASSUME NEW r \in Requests, Proceed(r) PROVE UNCHANGED txs \/ TxsChange
  BY <1>1, ZenonT(90) DEF TxsChange, Proceed, CallbackStep, GrantStep, FenceExchange, Exchange, FailBinding,
     StoreGrant, AdmitOperation, Acquire, AdmitRefresh, Refresh, Refreshed, AdmitMembers, Members,
     AdmitCall, Call, Leave, OutcomeUnknown, ActivateBinding, CompleteOperation, Answer, store
<1>2. ASSUME NEW r \in Requests, StoreFails(r) \/ \E b \in Bindings : Request(r, b)
      PROVE  UNCHANGED txs
  BY <1>2, ZenonT(90) DEF StoreFails, Request, InstallPage, Callback, Activate, Inbox, Api, store
<1>3. ASSUME NEW b \in Bindings, Host(b) PROVE UNCHANGED txs \/ TxsChange
  BY <1>3 DEF TxsChange, Host, IssueSession, Disconnect, Ack
<1>4. ASSUME NEW e \in Events, Slack(e) PROVE UNCHANGED txs
  BY <1>4 DEF Slack, MintMention, MintLifecycle, ReceiveAgain, ReceiveLifecycle, ReceiveMention, store
<1>5. Tick \/ Restart => UNCHANGED txs
  BY DEF Tick, Restart, store
<1> QED BY <1>1, <1>2, <1>3, <1>4, <1>5, ZenonT(90) DEF Next

LEMMA DeliveriesFrame == Next => UNCHANGED deliveries \/ DeliveriesChange
<1>1. ASSUME NEW r \in Requests, Proceed(r) PROVE UNCHANGED deliveries
  BY <1>1, ZenonT(90) DEF Proceed, CallbackStep, GrantStep, Confirm, Consume, FenceExchange, Exchange,
     FailBinding, StoreGrant, AdmitOperation, Acquire, AdmitRefresh, Refresh, Refreshed,
     AdmitMembers, Members, AdmitCall, Call, Leave, OutcomeUnknown, ActivateBinding,
     CompleteOperation, Answer, store
<1>2. ASSUME NEW r \in Requests, StoreFails(r) \/ \E b \in Bindings : Request(r, b)
      PROVE  UNCHANGED deliveries
  BY <1>2, ZenonT(90) DEF StoreFails, Request, InstallPage, Callback, Activate, Inbox, Api, store
<1>3. ASSUME NEW b \in Bindings, Host(b) PROVE UNCHANGED deliveries \/ DeliveriesChange
  BY <1>3 DEF DeliveriesChange, Host, Start, IssueSession, Disconnect
<1>4. ASSUME NEW e \in Events, Slack(e) PROVE UNCHANGED deliveries \/ DeliveriesChange
  BY <1>4 DEF DeliveriesChange, Slack, MintMention, MintLifecycle, ReceiveAgain, store
<1>5. Tick \/ Restart => UNCHANGED deliveries
  BY DEF Tick, Restart, store
<1> QED BY <1>1, <1>2, <1>3, <1>4, <1>5, ZenonT(90) DEF Next

LEMMA OperationsFrame == Next => UNCHANGED operations \/ OperationsChange
<1>1. ASSUME NEW r \in Requests, Proceed(r) PROVE UNCHANGED operations \/ OperationsChange
  BY <1>1, ZenonT(90) DEF OperationsChange, Proceed, CallbackStep, GrantStep, Confirm, Consume, FenceExchange,
     Exchange, FailBinding, StoreGrant, Acquire, AdmitRefresh, Refresh, Refreshed, AdmitMembers,
     Members, AdmitCall, Call, Leave, ActivateBinding, Answer, store
<1>2. ASSUME NEW r \in Requests, StoreFails(r) \/ \E b \in Bindings : Request(r, b)
      PROVE  UNCHANGED operations
  BY <1>2, ZenonT(90) DEF StoreFails, Request, InstallPage, Callback, Activate, Inbox, Api, store
<1>3. ASSUME NEW b \in Bindings, Host(b) PROVE UNCHANGED operations
  BY <1>3 DEF Host, Start, IssueSession, Disconnect, Ack
<1>4. ASSUME NEW e \in Events, Slack(e) PROVE UNCHANGED operations
  BY <1>4, ZenonT(90) DEF Slack, MintMention, MintLifecycle, ReceiveAgain, ReceiveLifecycle, ReceiveMention, store
<1>5. Tick => UNCHANGED operations
  BY DEF Tick, store
<1> QED BY <1>1, <1>2, <1>3, <1>4, <1>5, ZenonT(90) DEF Next, OperationsChange

LEMMA SlackFrame == Next => UNCHANGED slack \/ SlackChange
<1>1. ASSUME NEW r \in Requests, Proceed(r) PROVE UNCHANGED slack \/ SlackChange
  BY <1>1, ZenonT(90) DEF SlackChange, Proceed, CallbackStep, GrantStep, Confirm, Consume, FenceExchange,
     FailBinding, StoreGrant, AdmitOperation, Acquire, AdmitRefresh, Refresh, Refreshed,
     AdmitMembers, Members, AdmitCall, Call, Leave, OutcomeUnknown, ActivateBinding,
     CompleteOperation, Answer
<1>2. ASSUME NEW r \in Requests, StoreFails(r) \/ \E b \in Bindings : Request(r, b)
      PROVE  UNCHANGED slack
  BY <1>2, ZenonT(90) DEF StoreFails, Request, InstallPage, Callback, Activate, Inbox, Api
<1>3. ASSUME NEW b \in Bindings, Host(b) PROVE UNCHANGED slack
  BY <1>3, ZenonT(90) DEF Host, Start, IssueSession, Disconnect, Ack
<1>4. ASSUME NEW e \in Events, Slack(e) PROVE UNCHANGED slack \/ SlackChange
  BY <1>4, ZenonT(90) DEF SlackChange, Slack, ReceiveAgain, ReceiveLifecycle, ReceiveMention
<1>5. Tick \/ Restart => UNCHANGED slack
  BY ZenonT(90) DEF Tick, Restart
<1> QED BY <1>1, <1>2, <1>3, <1>4, <1>5 DEF Next

LEMMA HistoryFrame == Next => UNCHANGED history \/ HistoryChange
<1>1. ASSUME NEW r \in Requests, Proceed(r) PROVE UNCHANGED history \/ HistoryChange
  BY <1>1, ZenonT(90) DEF HistoryChange, Proceed, CallbackStep, GrantStep, Confirm, Consume, FenceExchange,
     FailBinding, StoreGrant, AdmitOperation, Acquire, AdmitRefresh, Refreshed,
     AdmitMembers, Members, AdmitCall, Leave, OutcomeUnknown, ActivateBinding,
     CompleteOperation, Answer
<1>2. ASSUME NEW r \in Requests, StoreFails(r) \/ \E b \in Bindings : Request(r, b)
      PROVE  UNCHANGED history
  BY <1>2, ZenonT(90) DEF StoreFails, Request, InstallPage, Callback, Activate, Inbox, Api
<1>3. ASSUME NEW b \in Bindings, Host(b) PROVE UNCHANGED history
  BY <1>3 DEF Host, Start, IssueSession, Disconnect, Ack
<1>4. ASSUME NEW e \in Events, Slack(e) PROVE UNCHANGED history \/ HistoryChange
  BY <1>4 DEF HistoryChange, Slack, MintMention, MintLifecycle
<1>5. Tick \/ Restart => UNCHANGED history
  BY DEF Tick, Restart
<1> QED BY <1>1, <1>2, <1>3, <1>4, <1>5 DEF Next

LEMMA ClockFrame == Next => UNCHANGED clock \/ Tick
<1>1. ASSUME NEW r \in Requests, Proceed(r) PROVE UNCHANGED clock
  BY <1>1, ZenonT(90) DEF Proceed, CallbackStep, GrantStep, Confirm, Consume, FenceExchange, Exchange,
     FailBinding, StoreGrant, AdmitOperation, Acquire, AdmitRefresh, Refresh, Refreshed,
     AdmitMembers, Members, AdmitCall, Call, Leave, OutcomeUnknown, ActivateBinding,
     CompleteOperation, Answer
<1>2. ASSUME NEW r \in Requests, StoreFails(r) \/ \E b \in Bindings : Request(r, b)
      PROVE  UNCHANGED clock
  BY <1>2, ZenonT(90) DEF StoreFails, Request, InstallPage, Callback, Activate, Inbox, Api
<1>3. ASSUME NEW b \in Bindings, Host(b) PROVE UNCHANGED clock
  BY <1>3 DEF Host, Start, IssueSession, Disconnect, Ack
<1>4. ASSUME NEW e \in Events, Slack(e) PROVE UNCHANGED clock
  BY <1>4 DEF Slack, MintMention, MintLifecycle, ReceiveAgain, ReceiveLifecycle, ReceiveMention
<1>5. Restart => UNCHANGED clock
  BY DEF Restart
<1> QED BY <1>1, <1>2, <1>3, <1>4, <1>5, ZenonT(90) DEF Next

-----------------------------------------------------------------------------
(* Types of the requests in progress *)

Places == HeldSteps \union FreeSteps \union {"idle"}

Proper(q) ==
    /\ q \in RequestRecords
    /\ q # Idle => /\ q.binding \in Bindings
                   /\ q.kind = "write" => q.op \in OpIds /\ q.delivery \in Events

LEMMA ReqReplaced ==
  ASSUME ReqsTyped, NEW r \in Requests, NEW q, Proper(q), reqs' = [reqs EXCEPT ![r] = q]
  PROVE  ReqsTyped'
  BY DEF ReqsTyped, Proper

LEMMA ReqMoved ==
  ASSUME ReqsTyped, NEW r \in Requests, reqs[r] # Idle,
         NEW at \in Places, NEW held \in Nat, NEW page \in Nat, NEW stamp \in Nat,
         reqs' = [reqs EXCEPT ![r].at = at, ![r].held = held, ![r].page = page, ![r].stamp = stamp]
  PROVE  ReqsTyped'
<1> DEFINE q == [reqs[r] EXCEPT !.at = at, !.held = held, !.page = page, !.stamp = stamp]
<1>1. reqs[r] \in RequestRecords /\ Proper(reqs[r])
  BY DEF ReqsTyped, Proper
<1>2. q \in RequestRecords /\ q.binding = reqs[r].binding /\ q.kind = reqs[r].kind
      /\ q.op = reqs[r].op /\ q.delivery = reqs[r].delivery
  BY <1>1, ZenonT(90) DEF RequestRecords, Places
<1>3. reqs' = [reqs EXCEPT ![r] = q]
  BY DEF ReqsTyped
<1>4. Proper(q)
  BY <1>1, <1>2 DEF Proper
<1> QED BY <1>3, <1>4, ReqReplaced

LEMMA IdleProper == Proper(Idle)
  BY DEF Idle, RequestRecords, Proper

LEMMA DoneTyped ==
  ASSUME ReqsTyped, NEW r \in Requests, Done(r)
  PROVE  ReqsTyped'
  BY IdleProper, ReqReplaced DEF Done

LEMMA GotoTyped ==
  ASSUME ReqsTyped, NEW r \in Requests, reqs[r] # Idle, NEW at \in Places, Goto(r, at)
  PROVE  ReqsTyped'
<1>1. reqs[r] \in RequestRecords
  BY DEF ReqsTyped
<1>2. reqs[r].held \in Nat /\ reqs[r].page \in Nat /\ reqs[r].stamp \in Nat
  BY <1>1 DEF RequestRecords
<1>3. reqs' = [reqs EXCEPT ![r].at = at, ![r].held = reqs[r].held, ![r].page = reqs[r].page,
                          ![r].stamp = reqs[r].stamp]
  BY <1>1 DEF Goto, ReqsTyped, RequestRecords
<1> QED BY <1>2, <1>3, ReqMoved

LEMMA NotIdle ==
  ASSUME NEW r \in Requests, reqs[r].at # "idle"
  PROVE  reqs[r] # Idle
  BY DEF Idle

LEMMA GiveUpTyped ==
  ASSUME ReqsTyped, NEW r \in Requests, reqs[r] # Idle, GiveUp(r)
  PROVE  ReqsTyped'
<1>1. CASE reqs[r].kind # "write"
  <2>1. Done(r)
    BY <1>1 DEF GiveUp, Done, ReqsTyped
  <2> QED BY <2>1, DoneTyped
<1>2. CASE reqs[r].kind = "write"
  <2>1. reqs' = [reqs EXCEPT ![r].at = "unknown", ![r].held = 0, ![r].page = 0, ![r].stamp = 0]
    BY <1>2 DEF GiveUp, ReqsTyped
  <2>2. "unknown" \in Places
    BY DEF Places, FreeSteps
  <2> QED BY <2>1, <2>2, ReqMoved
<1> QED BY <1>1, <1>2

LEMMA BeginTyped ==
  ASSUME ReqsTyped, NEW r \in Requests, NEW q, Begin(r, q), Proper(q)
  PROVE  ReqsTyped'
  BY ReqReplaced DEF Begin

LEMMA CallbackReqs ==
  ASSUME ReqsTyped, clock \in Nat, NEW r \in Requests, CallbackStep(r)
  PROVE  ReqsTyped'
<1>0. reqs[r].at # "idle" => reqs[r] # Idle
  BY NotIdle
<1> USE DEF Places, HeldSteps, FreeSteps
<1>1. CASE Consume(r)
  BY <1>0, <1>1, GotoTyped, DoneTyped DEF Consume
<1>2. CASE FailBinding(r)
  BY <1>2, DoneTyped DEF FailBinding
<1>3. CASE FenceExchange(r)
  BY <1>0, <1>3, GotoTyped, DoneTyped DEF FenceExchange
<1>4. CASE Exchange(r)
  <2>1. reqs[r] # Idle /\ reqs[r] \in RequestRecords
    BY <1>0, <1>4 DEF Exchange, ReqsTyped
  <2>2. CASE Goto(r, "reject")
    BY <2>1, <2>2, GotoTyped, ZenonT(90)
  <2>3. CASE reqs' = [reqs EXCEPT ![r].at = "store", ![r].stamp = clock]
    <3>1. reqs' = [reqs EXCEPT ![r].at = "store", ![r].held = reqs[r].held,
                              ![r].page = reqs[r].page, ![r].stamp = clock]
      BY <2>1, <2>3, ZenonT(90) DEF ReqsTyped, RequestRecords
    <3>2. reqs[r].held \in Nat /\ reqs[r].page \in Nat
      BY <2>1 DEF RequestRecords
    <3> QED BY <2>1, <3>1, <3>2, ReqMoved, ZenonT(90)
  <2> QED BY <1>4, <2>2, <2>3 DEF Exchange
<1>5. CASE StoreGrant(r)
  BY <1>5, DoneTyped DEF StoreGrant
<1> QED BY <1>1, <1>2, <1>3, <1>4, <1>5 DEF CallbackStep

LEMMA GrantReqs ==
  ASSUME ReqsTyped, GrantsTyped, clock \in Nat, NEW r \in Requests, GrantStep(r)
  PROVE  ReqsTyped'
<1>0. reqs[r] # Idle
  BY NotIdle, ZenonT(90) DEF GrantStep, AdmitRefresh, Refresh, Refreshed, AdmitMembers, Members, AdmitCall,
     Call, Leave
<1>1. /\ reqs \in [Requests -> RequestRecords]
      /\ reqs[r].held \in Nat /\ reqs[r].held + 1 \in Nat
      /\ reqs[r].page \in Nat /\ reqs[r].page + 1 \in Nat /\ reqs[r].stamp \in Nat
  BY DEF ReqsTyped, RequestRecords
<1> USE DEF Places, HeldSteps, FreeSteps
<1>2. CASE AdmitRefresh(r)
  BY <1>0, <1>2, GotoTyped, GiveUpTyped, ZenonT(90) DEF AdmitRefresh
<1>3. CASE Refresh(r)
  <2>1. reqs' = [reqs EXCEPT ![r].at = "refreshed", ![r].held = reqs[r].held,
                            ![r].page = reqs[r].page, ![r].stamp = clock]
    BY <1>1, <1>3, ZenonT(90) DEF Refresh, RequestRecords
  <2> QED BY <1>0, <1>1, <2>1, ReqMoved
<1>4. CASE Refreshed(r)
  <2>1. CASE GiveUp(r)
    BY <1>0, <2>1, GiveUpTyped
  <2>2. CASE reqs' = [reqs EXCEPT ![r].at = "members", ![r].held = @ + 1, ![r].stamp = 0]
    <3>1. reqs' = [reqs EXCEPT ![r].at = "members", ![r].held = reqs[r].held + 1,
                              ![r].page = reqs[r].page, ![r].stamp = 0]
      BY <1>1, <2>2 DEF RequestRecords
    <3> QED BY <1>0, <1>1, <3>1, ReqMoved
  <2> QED BY <1>4, <2>1, <2>2, ZenonT(90) DEF Refreshed
<1>5. CASE AdmitMembers(r)
  BY <1>0, <1>5, GotoTyped, GiveUpTyped DEF AdmitMembers
<1>6. CASE Members(r)
  <2>1. CASE GiveUp(r)
    BY <1>0, <2>1, GiveUpTyped
  <2>2. CASE reqs' = [reqs EXCEPT ![r].at = "members", ![r].page = @ + 1]
    <3>1. reqs' = [reqs EXCEPT ![r].at = "members", ![r].held = reqs[r].held,
                              ![r].page = reqs[r].page + 1, ![r].stamp = reqs[r].stamp]
      BY <1>1, <2>2, ZenonT(90) DEF RequestRecords
    <3> QED BY <1>0, <1>1, <3>1, ReqMoved
  <2>3. CASE reqs' = [reqs EXCEPT ![r].at = "membersDone", ![r].page = 0]
    <3>1. reqs' = [reqs EXCEPT ![r].at = "membersDone", ![r].held = reqs[r].held,
                              ![r].page = 0, ![r].stamp = reqs[r].stamp]
      BY <1>1, <2>3, ZenonT(90) DEF RequestRecords
    <3> QED BY <1>0, <1>1, <3>1, ReqMoved
  <2> QED BY <1>6, <2>1, <2>2, <2>3, ZenonT(90) DEF Members
<1>7. CASE AdmitCall(r)
  BY <1>0, <1>7, GotoTyped, GiveUpTyped DEF AdmitCall
<1>8. CASE Call(r)
  BY <1>0, <1>8, GotoTyped, GiveUpTyped DEF Call
<1>9. CASE Leave(r)
  <2>1. CASE GiveUp(r)
    BY <1>0, <2>1, GiveUpTyped
  <2>2. CASE reqs' = [reqs EXCEPT ![r].at = "finish", ![r].held = 0]
    <3>1. reqs' = [reqs EXCEPT ![r].at = "finish", ![r].held = 0,
                              ![r].page = reqs[r].page, ![r].stamp = reqs[r].stamp]
      BY <1>1, <2>2, ZenonT(90) DEF RequestRecords
    <3> QED BY <1>0, <1>1, <3>1, ReqMoved
  <2> QED BY <1>9, <2>1, <2>2 DEF Leave
<1> QED BY <1>2, <1>3, <1>4, <1>5, <1>6, <1>7, <1>8, <1>9 DEF GrantStep

LEMMA AcquireReqs ==
  ASSUME ReqsTyped, BindingsTyped, GrantsTyped, NEW r \in Requests, Acquire(r)
  PROVE  ReqsTyped'
<1> DEFINE t == bindings[reqs[r].binding].team
<1>0. reqs[r] # Idle
  BY NotIdle DEF Acquire
<1>1. /\ reqs \in [Requests -> RequestRecords]
      /\ reqs[r].page \in Nat /\ reqs[r].stamp \in Nat
  BY DEF ReqsTyped, RequestRecords
<1> USE DEF Places, HeldSteps, FreeSteps
<1>2. CASE GiveUp(r)
  BY <1>0, <1>2, GiveUpTyped, ZenonT(90)
<1>3. CASE Admitted(reqs[r]) /\ ~GiveUp(r)
  <2>1. bindings[reqs[r].binding] # NoBinding
    BY <1>3 DEF Admitted, NoBinding
  <2>2. t \in Teams
    BY <1>0, <2>1 DEF BindingsTyped, ReqsTyped
  <2>3. grants[t].version \in Nat
    BY <2>2, ZenonT(90) DEF GrantsTyped, GrantRecords
  <2>4. PICK at \in {"members", "admitRefresh"} :
          reqs' = [reqs EXCEPT ![r].at = at, ![r].held = grants[t].version]
    BY <1>3, ZenonT(90) DEF Acquire
  <2>5. reqs' = [reqs EXCEPT ![r].at = at, ![r].held = grants[t].version,
                            ![r].page = reqs[r].page, ![r].stamp = reqs[r].stamp]
    BY <1>1, <2>4, ZenonT(90) DEF RequestRecords
  <2> HIDE DEF t
  <2> QED BY <1>0, <1>1, <2>3, <2>5, ReqMoved
<1> QED BY <1>2, <1>3, ZenonT(90) DEF Acquire

LEMMA OtherReqs ==
  ASSUME ReqsTyped, NEW r \in Requests,
         \/ Confirm(r) \/ AdmitOperation(r) \/ OutcomeUnknown(r) \/ ActivateBinding(r)
         \/ CompleteOperation(r) \/ Answer(r)
  PROVE  ReqsTyped'
<1>1. CASE AdmitOperation(r)
  BY <1>1, NotIdle, GotoTyped, DoneTyped DEF AdmitOperation, Places, FreeSteps
<1>2. CASE \/ Confirm(r) \/ OutcomeUnknown(r) \/ ActivateBinding(r)
           \/ CompleteOperation(r) \/ Answer(r)
  BY <1>2, DoneTyped DEF Confirm, OutcomeUnknown, ActivateBinding, CompleteOperation, Answer
<1> QED BY <1>1, <1>2

LEMMA StoreFailsReqs ==
  ASSUME ReqsTyped, NEW r \in Requests, StoreFails(r)
  PROVE  ReqsTyped'
  BY NotIdle, DoneTyped, GiveUpTyped DEF StoreFails

LEMMA RequestReqs ==
  ASSUME ReqsTyped, BindingsTyped, NEW r \in Requests, NEW b \in Bindings, Request(r, b)
  PROVE  ReqsTyped'
<1>1. bindings[b].version \in Nat /\ bindings[b].session \in Nat
  BY DEF BindingsTyped, BindingRecords
<1> USE DEF Proper, RequestRecords, HeldSteps, FreeSteps
<1>2. CASE InstallPage(r, b)
  <2> DEFINE q == [Idle EXCEPT !.kind = "install", !.at = "confirm", !.binding = b]
  <2>1. Proper(q)
    BY DEF Idle
  <2> QED BY <1>2, <2>1, BeginTyped DEF InstallPage
<1>3. CASE Callback(r, b)
  <2> DEFINE q == [Idle EXCEPT !.kind = "callback", !.at = "consume", !.binding = b,
                               !.version = bindings[b].version]
  <2>1. Proper(q)
    BY <1>1 DEF Idle
  <2> QED BY <1>3, <2>1, BeginTyped DEF Callback
<1>4. CASE Activate(r, b)
  <2> DEFINE q == [Idle EXCEPT !.kind = "activate", !.at = "acquire", !.binding = b,
                               !.version = bindings[b].version]
  <2>1. Proper(q)
    BY <1>1 DEF Idle
  <2> QED BY <1>4, <2>1, BeginTyped DEF Activate
<1>5. CASE Inbox(r, b)
  <2>1. Proper(InSession("inbox", b))
    BY <1>1 DEF Idle, InSession
  <2> QED BY <1>5, <2>1, BeginTyped DEF Inbox
<1>6. ASSUME NEW e \in Events, Api(r, b, e) PROVE ReqsTyped'
  <2> DEFINE q == [InSession("read", b) EXCEPT !.delivery = e]
  <2>1. Proper(q)
    BY <1>1, ZenonT(90) DEF Idle, InSession
  <2>2. ASSUME NEW o \in OpIds
        PROVE  /\ Proper([q EXCEPT !.kind = "write", !.at = "admitOp", !.op = o])
               /\ Proper([q EXCEPT !.kind = "replay", !.op = o])
    BY <1>1, ZenonT(90) DEF Idle, InSession
  <2>3. \/ Begin(r, q)
        \/ \E o \in OpIds : \/ Begin(r, [q EXCEPT !.kind = "write", !.at = "admitOp", !.op = o])
                            \/ Begin(r, [q EXCEPT !.kind = "replay", !.op = o])
    BY <1>6 DEF Api
  <2> HIDE DEF q, Proper, RequestRecords, HeldSteps, FreeSteps
  <2> QED BY <2>1, <2>2, <2>3, BeginTyped
<1> QED BY <1>2, <1>3, <1>4, <1>5, <1>6 DEF Request

LEMMA ReqsStep ==
  ASSUME TypeOK, Next
  PROVE  ReqsTyped'
<1> USE DEF TypeOK
<1>1. CASE \E r \in Requests : Proceed(r) \/ StoreFails(r) \/ \E b \in Bindings : Request(r, b)
  BY <1>1, CallbackReqs, GrantReqs, AcquireReqs, OtherReqs, StoreFailsReqs, RequestReqs DEF Proceed
<1>2. CASE Restart
  BY <1>2, IdleProper, ZenonT(90) DEF Restart, ReqsTyped, Proper
<1>3. ASSUME Tick \/ (\E b \in Bindings : Host(b)) \/ (\E e \in Events : Slack(e))
      PROVE  UNCHANGED reqs
  BY <1>3, ZenonT(90) DEF Tick, Host, Start, IssueSession, Disconnect, Ack,
     Slack, MintMention, MintLifecycle, ReceiveAgain, ReceiveLifecycle, ReceiveMention
<1>4. UNCHANGED reqs => ReqsTyped'
  BY DEF ReqsTyped
<1> QED BY <1>1, <1>2, <1>3, <1>4 DEF Next

-----------------------------------------------------------------------------
(* Types of the records *)

LEMMA BindingReplaced ==
  ASSUME BindingsTyped, NEW b \in Bindings, NEW q \in BindingRecords,
         q.status # "none", q.team \in Teams, q.channel \in Channels,
         bindings' = [bindings EXCEPT ![b] = q]
  PROVE  BindingsTyped'
  BY DEF BindingsTyped

LEMMA BindingsStep ==
  ASSUME TypeOK, Next
  PROVE  BindingsTyped'
<1> USE DEF BindingRecords, BindingStatus
<1>0. BindingsTyped /\ clock \in Nat /\ MaxClock \in Nat /\ SessionLife \in Nat
  BY DurationAssumption DEF TypeOK
<1>1. \A b \in Bindings : bindings[b] \in BindingRecords
  BY <1>0 DEF BindingsTyped
<1>sums. \A b \in Bindings :
          /\ bindings[b].version \in Nat /\ bindings[b].version + 1 \in Nat
          /\ bindings[b].session \in Nat /\ bindings[b].session + 1 \in Nat
  BY <1>1
<1>2. \A b \in Bindings : bindings[b].status # "none" =>
         bindings[b].team \in Teams /\ bindings[b].channel \in Channels
  BY <1>0 DEF BindingsTyped, NoBinding
<1>3. ASSUME NEW b \in Bindings, NEW t \in Teams, NEW c \in Channels, Start(b, t, c)
      PROVE  BindingsTyped'
  <2> DEFINE q == [NoBinding EXCEPT !.status = "pending_consent", !.team = t, !.channel = c,
                                    !.version = 1]
  <2>1. q \in BindingRecords /\ q.status # "none" /\ q.team \in Teams /\ q.channel \in Channels
    BY DEF NoBinding
  <2>2. bindings' = [bindings EXCEPT ![b] = q]
    BY <1>3 DEF Start
  <2> QED BY <1>0, <2>1, <2>2, BindingReplaced
<1>4. ASSUME NEW b \in Bindings, NEW s \in BindingStatus \ {"none"},
             bindings' = [bindings EXCEPT ![b].status = s], bindings[b].status # "none"
      PROVE  BindingsTyped'
  <2> DEFINE q == [bindings[b] EXCEPT !.status = s]
  <2>1. q \in BindingRecords /\ q.status # "none" /\ q.team \in Teams /\ q.channel \in Channels
    BY <1>1, <1>2, <1>4
  <2>2. bindings' = [bindings EXCEPT ![b] = q]
    BY <1>4
  <2> QED BY <1>0, <2>1, <2>2, BindingReplaced
<1>5. ASSUME NEW b \in Bindings, IssueSession(b) PROVE BindingsTyped'
  <2> DEFINE q == [bindings[b] EXCEPT !.session = @ + 1, !.until = clock + SessionLife]
  <2>0. clock + SessionLife \in Nat
    BY <1>0
  <2>1. q \in BindingRecords /\ q.status # "none" /\ q.team \in Teams /\ q.channel \in Channels
    BY <2>0, <1>1, <1>sums, <1>2, <1>5, ZenonT(90) DEF IssueSession
  <2>2. bindings' = [bindings EXCEPT ![b] = q]
    BY <1>5 DEF IssueSession
  <2> QED BY <1>0, <2>1, <2>2, BindingReplaced
<1>6. ASSUME NEW b \in Bindings, Disconnect(b) PROVE BindingsTyped'
  <2> DEFINE q == [bindings[b] EXCEPT !.status = "disconnected", !.version = @ + 1, !.session = 0]
  <2>1. q \in BindingRecords /\ q.status # "none" /\ q.team \in Teams /\ q.channel \in Channels
    BY <1>1, <1>sums, <1>2, <1>6 DEF Disconnect
  <2>2. bindings' = [bindings EXCEPT ![b] = q]
    BY <1>6 DEF Disconnect
  <2> QED BY <1>0, <2>1, <2>2, BindingReplaced
<1>7. ASSUME NEW r \in Requests, FailBinding(r) \/ ActivateBinding(r) PROVE BindingsTyped'
  <2>1. reqs[r].binding \in Bindings
    BY <1>7 DEF FailBinding, ActivateBinding, TypeOK, ReqsTyped, Idle
  <2>2. CASE UNCHANGED bindings
    BY <1>0, <2>2, ZenonT(90) DEF BindingsTyped
  <2> QED BY <1>4, <1>7, <2>1, <2>2 DEF FailBinding, ActivateBinding
<1>8. ASSUME NEW r \in Requests, StoreGrant(r) PROVE BindingsTyped'
  <2> DEFINE b == reqs[r].binding
             q == [bindings[b] EXCEPT !.status = "authorized", !.authorizedAt = clock]
  <2>1. b \in Bindings
    BY <1>8 DEF StoreGrant, TypeOK, ReqsTyped, Idle
  <2>2. CASE UNCHANGED bindings
    BY <1>0, <2>2 DEF BindingsTyped
  <2>3. CASE bindings[b].status = "pending_consent" /\ bindings' = [bindings EXCEPT ![b] = q]
    <3>0. /\ bindings[b] \in BindingRecords /\ clock \in Nat
          /\ bindings[b].team \in Teams /\ bindings[b].channel \in Channels
      BY <1>0, <1>1, <1>2, <2>1, <2>3
    <3>1. q \in BindingRecords /\ q.status # "none" /\ q.team \in Teams /\ q.channel \in Channels
      BY <3>0
    <3> QED BY <1>0, <2>1, <2>3, <3>1, BindingReplaced
  <2> QED BY <1>8, <2>2, <2>3 DEF StoreGrant
<1>9. ASSUME NEW e \in Events, ReceiveLifecycle(e) PROVE BindingsTyped'
  <2>1. sent[e].team \in Teams /\ sent[e].at \in Nat
    BY <1>9 DEF ReceiveLifecycle, TypeOK, SlackTyped, EventRecords
  <2>2. ASSUME NEW b \in Bindings, Revocable(b, sent[e].team)
        PROVE  bindings[b].status # "none"
    BY <1>0, <2>1, <2>2, NoneAssumption, SMTT(60) DEF Revocable, BindingsTyped, NoBinding
  <2>3. \A b \in Bindings :
          \/ bindings'[b] = bindings[b]
          \/ /\ bindings[b].status # "none"
             /\ bindings'[b] = [bindings[b] EXCEPT !.status = "revoked",
                   !.authorizedAt = sent[e].at, !.version = @ + 1, !.session = 0]
    BY <1>9, <2>2, ZenonT(90) DEF ReceiveLifecycle
  <2>4. bindings' = [b \in Bindings |-> bindings'[b]]
    BY <1>9 DEF ReceiveLifecycle
  <2>5. ASSUME NEW b \in Bindings
        PROVE  /\ bindings'[b] \in BindingRecords
               /\ \/ bindings'[b] = NoBinding
                  \/ /\ bindings'[b].status # "none"
                     /\ bindings'[b].team \in Teams /\ bindings'[b].channel \in Channels
    <3>1. CASE bindings'[b] = bindings[b]
      BY <1>0, <3>1 DEF BindingsTyped
    <3> DEFINE q == [bindings[b] EXCEPT !.status = "revoked", !.authorizedAt = sent[e].at,
                                        !.version = @ + 1, !.session = 0]
    <3>2. CASE bindings[b].status # "none" /\ bindings'[b] = q
      <4>1. q \in BindingRecords /\ q.status # "none" /\ q.team \in Teams /\ q.channel \in Channels
        BY <1>1, <1>sums, <1>2, <2>1, <3>2, ZenonT(90)
      <4> QED BY <3>2, <4>1
    <3> QED BY <2>3, <3>1, <3>2
  <2> QED BY <2>4, <2>5 DEF BindingsTyped
<1>10. CASE UNCHANGED bindings
  BY <1>0, <1>10 DEF BindingsTyped
<1> QED BY <1>3, <1>5, <1>6, <1>7, <1>8, <1>9, <1>10, BindingsFrame DEF BindingsChange

LEMMA GrantReplaced ==
  ASSUME GrantsTyped, NEW t, NEW g \in GrantRecords,
         g.status # "none" => g.version > 0, grants' = [grants EXCEPT ![t] = g]
  PROVE  GrantsTyped'
  BY DEF GrantsTyped

LEMMA GrantRelabelled ==
  ASSUME GrantsTyped, NEW t, t \in Teams => grants[t].status # "none",
         NEW s \in GrantStatus, grants' = [grants EXCEPT ![t].status = s]
  PROVE  GrantsTyped'
<1>1. CASE t \in Teams
  <2> DEFINE g == [grants[t] EXCEPT !.status = s]
  <2>1. g \in GrantRecords /\ g.version > 0
    BY <1>1 DEF GrantsTyped, GrantRecords
  <2>2. grants' = [grants EXCEPT ![t] = g]
    OBVIOUS
  <2> QED BY <2>1, <2>2, GrantReplaced
<1>2. CASE t \notin Teams
  BY <1>2 DEF GrantsTyped
<1> QED BY <1>1, <1>2

LEMMA RotationEndsTyped ==
  ASSUME GrantsTyped, NEW r \in Requests, NEW s \in GrantStatus, RotationEnds(r, s)
  PROVE  GrantsTyped'
<1>1. CASE Rotating(r)
  BY <1>1, GrantRelabelled DEF RotationEnds, Rotating
<1>2. CASE ~Rotating(r)
  BY <1>2 DEF RotationEnds, GrantsTyped
<1> QED BY <1>1, <1>2

LEMMA GrantsStep ==
  ASSUME TypeOK, Next
  PROVE  GrantsTyped'
<1>0. GrantsTyped /\ clock \in Nat /\ GrantLife \in Nat
  BY DurationAssumption DEF TypeOK
<1>1. UNCHANGED grants => GrantsTyped'
  BY <1>0 DEF GrantsTyped
<1>2. ASSUME NEW r \in Requests, StoreGrant(r) PROVE GrantsTyped'
  <2> DEFINE t == bindings[reqs[r].binding].team
             g == [status |-> "active", version |-> grants[t].version + 1,
                   expiresAt |-> reqs[r].stamp + GrantLife, authorizedAt |-> clock]
  <2>1. reqs[r].binding \in Bindings /\ reqs[r].stamp \in Nat
    <3>1. reqs[r] # Idle
      BY <1>2 DEF StoreGrant, Idle
    <3> QED BY <3>1 DEF TypeOK, ReqsTyped, RequestRecords
  <2>2. CASE bindings[reqs[r].binding].status = "pending_consent" /\ grants' = [grants EXCEPT ![t] = g]
    <3>1. t \in Teams
      BY <2>1, <2>2 DEF TypeOK, BindingsTyped, NoBinding
    <3>2. /\ grants[t].version + 1 \in Nat /\ grants[t].version + 1 > 0
          /\ reqs[r].stamp + GrantLife \in Nat
      BY <1>0, <2>1, <3>1 DEF GrantsTyped, GrantRecords
    <3>3. g \in GrantRecords /\ g.version > 0
      BY <1>0, <3>2, ZenonT(90) DEF GrantRecords, GrantStatus
    <3> QED BY <1>0, <2>2, <3>3, GrantReplaced
  <2> QED BY <1>1, <1>2, <2>2 DEF StoreGrant
<1>3. ASSUME NEW r \in Requests, Acquire(r) PROVE GrantsTyped'
  <2> DEFINE t == bindings[reqs[r].binding].team
  <2>1. CASE grants[t].status = "active" /\ grants' = [grants EXCEPT ![t].status = "refreshing"]
    BY <1>0, <2>1, GrantRelabelled DEF GrantStatus
  <2> QED BY <1>1, <1>3, <2>1, ZenonT(90) DEF Acquire
<1>4. ASSUME NEW r \in Requests, AdmitRefresh(r) PROVE GrantsTyped'
  BY <1>0, <1>1, <1>4, RotationEndsTyped DEF AdmitRefresh, GrantStatus
<1>5. ASSUME NEW r \in Requests, Refreshed(r) PROVE GrantsTyped'
  <2> DEFINE t == bindings[reqs[r].binding].team
             g == [grants[t] EXCEPT !.status = "active", !.version = @ + 1,
                                    !.expiresAt = reqs[r].stamp + GrantLife]
  <2>1. reqs[r].stamp \in Nat
    BY <1>5 DEF TypeOK, ReqsTyped, RequestRecords
  <2>2. CASE RotationEnds(r, "reconnect_required")
    BY <1>0, <2>2, RotationEndsTyped, ZenonT(90) DEF GrantStatus
  <2>3. CASE t \notin Teams /\ grants' = [grants EXCEPT ![t] = g]
    BY <1>0, <2>3 DEF GrantsTyped
  <2>4. CASE t \in Teams /\ grants' = [grants EXCEPT ![t] = g]
    <3>0. /\ grants[t] \in GrantRecords
          /\ grants[t].version + 1 \in Nat /\ grants[t].version + 1 > 0
          /\ reqs[r].stamp + GrantLife \in Nat
      BY <1>0, <2>1, <2>4, SMTT(60) DEF GrantsTyped, GrantRecords
    <3>1. g \in GrantRecords /\ g.version > 0
      BY <3>0, ZenonT(90) DEF GrantRecords, GrantStatus
    <3> QED BY <1>0, <2>4, <3>1, GrantReplaced
  <2>5. \/ UNCHANGED grants \/ RotationEnds(r, "reconnect_required")
        \/ grants' = [grants EXCEPT ![t] = g]
    BY <1>5, ZenonT(90) DEF Refreshed
  <2> QED BY <1>1, <2>2, <2>3, <2>4, <2>5
<1>6. ASSUME NEW e \in Events, ReceiveLifecycle(e) PROVE GrantsTyped'
  <2> DEFINE t == sent[e].team
             g == [grants[t] EXCEPT !.status = "revoked", !.version = @ + 1]
  <2>1. t \in Teams
    BY <1>6 DEF ReceiveLifecycle, TypeOK, SlackTyped
  <2>0. /\ grants[t] \in GrantRecords
        /\ grants[t].version + 1 \in Nat /\ grants[t].version + 1 > 0
    BY <1>0, <2>1 DEF GrantsTyped, GrantRecords
  <2>2. g \in GrantRecords /\ g.version > 0
    BY <2>0 DEF GrantRecords, GrantStatus
  <2>3. UNCHANGED grants \/ grants' = [grants EXCEPT ![t] = g]
    BY <1>6 DEF ReceiveLifecycle
  <2> QED BY <1>0, <1>1, <2>2, <2>3, GrantReplaced
<1>7. CASE Restart
  <2>1. ASSUME NEW t \in Teams
        PROVE  /\ RecoveredGrant(grants[t]) \in GrantRecords
               /\ RecoveredGrant(grants[t]).status # "none" => RecoveredGrant(grants[t]).version > 0
    BY <1>0 DEF GrantsTyped, GrantRecords, GrantStatus, RecoveredGrant
  <2> QED BY <1>7, <2>1 DEF Restart, GrantsTyped
<1> QED BY <1>1, <1>2, <1>3, <1>4, <1>5, <1>6, <1>7, GrantsFrame DEF GrantsChange

LEMMA TxsStep ==
  ASSUME TypeOK, Next
  PROVE  txs' \in [Bindings -> TxRecords]
<1>1. txs \in [Bindings -> TxRecords] /\ clock \in Nat
  BY DEF TypeOK
<1>2. ASSUME NEW b \in Bindings, NEW t \in Teams, NEW c \in Channels, Start(b, t, c)
      PROVE  txs' \in [Bindings -> TxRecords]
  BY <1>1, <1>2 DEF Start, TxRecords
<1>3. ASSUME NEW r \in Requests, Confirm(r) PROVE txs' \in [Bindings -> TxRecords]
  BY <1>1, <1>3, ZenonT(90) DEF Confirm, TxRecords
<1>4. ASSUME NEW r \in Requests, Consume(r) PROVE txs' \in [Bindings -> TxRecords]
  BY <1>1, <1>4 DEF Consume, TxRecords
<1> QED BY <1>1, <1>2, <1>3, <1>4, TxsFrame DEF TxsChange

LEMMA PurgedTyped == TypeOK => Purged \in [Events -> DeliveryRecords]
  BY DEF TypeOK, Purged, NoDelivery, DeliveryRecords

LEMMA DeliveriesStep ==
  ASSUME TypeOK, Next
  PROVE  deliveries' \in [Events -> DeliveryRecords]
<1>1. deliveries \in [Events -> DeliveryRecords] /\ clock \in Nat
  BY DEF TypeOK
<1>2. ASSUME NEW b \in Bindings, NEW e \in Events, NEW outcome \in {"acknowledged", "denied"},
             Ack(b, e, outcome)
      PROVE  deliveries' \in [Events -> DeliveryRecords]
  BY <1>1, <1>2 DEF Ack, DeliveryRecords
<1>3. ASSUME NEW e \in Events, ReceiveLifecycle(e)
      PROVE  deliveries' \in [Events -> DeliveryRecords]
  <2> DEFINE d == [NoDelivery EXCEPT !.status = "lifecycle", !.team = sent[e].team,
                                     !.occurredAt = sent[e].at, !.createdAt = clock]
  <2>1. d \in DeliveryRecords
    BY <1>1 DEF TypeOK, SlackTyped, EventRecords, NoDelivery, DeliveryRecords
  <2>2. deliveries' = [Purged EXCEPT ![e] = d] \/ deliveries' = Purged
    BY <1>3 DEF ReceiveLifecycle
  <2> HIDE DEF d
  <2> QED BY <2>1, <2>2, PurgedTyped
<1>4. ASSUME NEW e \in Events, ReceiveMention(e)
      PROVE  deliveries' \in [Events -> DeliveryRecords]
  <2>1. ASSUME NEW b \in Bindings
        PROVE  [status |-> "pending", team |-> sent[e].team, binding |-> b,
                version |-> bindings[b].version, occurredAt |-> sent[e].at,
                createdAt |-> clock] \in DeliveryRecords
    BY <1>1 DEF TypeOK, SlackTyped, EventRecords, BindingsTyped, BindingRecords, DeliveryRecords
  <2>2. \/ deliveries' = Purged
        \/ \E b \in Bindings : deliveries' = [Purged EXCEPT ![e] =
             [status |-> "pending", team |-> sent[e].team, binding |-> b,
              version |-> bindings[b].version, occurredAt |-> sent[e].at, createdAt |-> clock]]
    BY <1>4 DEF ReceiveMention
  <2> QED BY <2>1, <2>2, PurgedTyped
<1> QED BY <1>1, <1>2, <1>3, <1>4, DeliveriesFrame DEF DeliveriesChange

LEMMA OperationReplaced ==
  ASSUME operations \in [Bindings -> [OpIds -> OpRecords]], NEW b, NEW o, NEW op \in OpRecords,
         operations' = [operations EXCEPT ![b][o] = op]
  PROVE  operations' \in [Bindings -> [OpIds -> OpRecords]]
  OBVIOUS

LEMMA OperationsStep ==
  ASSUME TypeOK, Next
  PROVE  operations' \in [Bindings -> [OpIds -> OpRecords]]
<1>1. operations \in [Bindings -> [OpIds -> OpRecords]] /\ ReqsTyped
  BY DEF TypeOK
<1>2. ASSUME NEW r \in Requests, AdmitOperation(r)
      PROVE  operations' \in [Bindings -> [OpIds -> OpRecords]]
  <2> DEFINE op == [status |-> "running", delivery |-> reqs[r].delivery]
  <2>1. op \in OpRecords
    BY <1>1 DEF ReqsTyped, RequestRecords, OpRecords
  <2>2. \/ UNCHANGED operations
        \/ operations' = [operations EXCEPT ![reqs[r].binding][reqs[r].op] = op]
    BY <1>2, ZenonT(90) DEF AdmitOperation
  <2> HIDE DEF op
  <2> QED BY <1>1, <2>1, <2>2, OperationReplaced, ZenonT(90)
<1>3. ASSUME NEW r \in Requests, OutcomeUnknown(r) \/ CompleteOperation(r)
      PROVE  operations' \in [Bindings -> [OpIds -> OpRecords]]
  <2> DEFINE b == reqs[r].binding
             o == reqs[r].op
  <2>1. CASE UNCHANGED operations
    BY <1>1, <2>1
  <2>2. ASSUME NEW s \in {"outcome_unknown", "completed"},
               operations' = [operations EXCEPT ![b][o].status = s]
        PROVE  operations' \in [Bindings -> [OpIds -> OpRecords]]
    <3>1. ASSUME NEW x \in Bindings, NEW y \in OpIds
          PROVE  [operations[x][y] EXCEPT !.status = s] \in OpRecords
      <4>1. operations[x][y] \in OpRecords
        BY <1>1
      <4>2. \A op \in OpRecords : [op EXCEPT !.status = s] \in OpRecords
        BY DEF OpRecords
      <4> QED BY <4>1, <4>2
    <3>2. operations' = [x \in Bindings |-> [y \in OpIds |->
             IF x = b /\ y = o THEN [operations[x][y] EXCEPT !.status = s] ELSE operations[x][y]]]
      BY <1>1, <2>2
    <3> QED BY <1>1, <3>1, <3>2
  <2> QED BY <1>3, <2>1, <2>2 DEF OutcomeUnknown, CompleteOperation
<1>4. CASE Restart
  <2>1. ASSUME NEW b \in Bindings, NEW o \in OpIds
        PROVE  RecoveredOp(operations[b][o]) \in OpRecords
    BY <1>1, ZenonT(90) DEF RecoveredOp, OpRecords
  <2> QED BY <1>4, <2>1 DEF Restart
<1> QED BY <1>1, <1>2, <1>3, <1>4, OperationsFrame DEF OperationsChange

LEMMA SlackStep ==
  ASSUME TypeOK, Next
  PROVE  SlackTyped'
<1>1. SlackTyped /\ clock \in Nat /\ NoTime \in Nat
  BY DurationAssumption DEF TypeOK, NoTime
<1>2. UNCHANGED slack => SlackTyped'
  BY <1>1 DEF slack, SlackTyped
<1>3. ASSUME NEW r \in Requests, Exchange(r) PROVE SlackTyped'
  BY <1>1, <1>3 DEF Exchange, SlackTyped
<1>4. ASSUME NEW e \in Events, NEW q \in EventRecords, q.team \in Teams,
             sent' = [sent EXCEPT ![e] = q], minted' \in [Teams -> Nat]
      PROVE  SlackTyped'
  BY <1>1, <1>4 DEF SlackTyped
<1>5. ASSUME NEW e \in Events, NEW t \in Teams, NEW c \in Channels, MintMention(e, t, c)
      PROVE  SlackTyped'
  <2> DEFINE q == [type |-> "app_mention", team |-> t, channel |-> c, bot |-> FALSE, at |-> clock]
  <2>1. q \in EventRecords /\ q.team \in Teams
    BY <1>1 DEF EventRecords
  <2>2. sent' = [sent EXCEPT ![e] = q] /\ minted' \in [Teams -> Nat]
    BY <1>1, <1>5 DEF MintMention, SlackTyped
  <2> HIDE DEF q
  <2> QED BY <1>4, <2>1, <2>2
<1>6. ASSUME NEW e \in Events, NEW t \in Teams, NEW bot \in BOOLEAN,
             NEW type \in {"app_uninstalled", "tokens_revoked"}, MintLifecycle(e, t, type, bot)
      PROVE  SlackTyped'
  <2> DEFINE q == [type |-> type, team |-> t, channel |-> None, bot |-> bot, at |-> clock]
  <2>1. q \in EventRecords /\ q.team \in Teams
    BY <1>1 DEF EventRecords
  <2>2. sent' = [sent EXCEPT ![e] = q] /\ minted' \in [Teams -> Nat]
    BY <1>1, <1>6 DEF MintLifecycle, SlackTyped
  <2> HIDE DEF q
  <2> QED BY <1>4, <2>1, <2>2
<1> QED BY <1>2, <1>3, <1>5, <1>6, SlackFrame DEF SlackChange

LEMMA HistoryStep ==
  ASSUME TypeOK, Next
  PROVE  HistoryTyped'
<1>1. HistoryTyped /\ ReqsTyped
  BY DEF TypeOK
<1>2. UNCHANGED history => HistoryTyped'
  BY <1>1 DEF history, HistoryTyped
<1>3. ASSUME NEW r \in Requests, Exchange(r) PROVE HistoryTyped'
  <2>1. exchanges[reqs[r].binding] + 1 \in Nat
    BY <1>1, <1>3 DEF Exchange, ReqsTyped, HistoryTyped, Idle
  <2> QED BY <1>1, <1>3, <2>1 DEF Exchange, HistoryTyped
<1>4. ASSUME NEW r \in Requests, Refresh(r) PROVE HistoryTyped'
  BY <1>1, <1>4, ZenonT(90) DEF Refresh, HistoryTyped, ReqsTyped, RequestRecords
<1>5. ASSUME NEW r \in Requests, Call(r) PROVE HistoryTyped'
  <2> DEFINE b == reqs[r].binding
             o == reqs[r].op
  <2>1. CASE reqs[r].kind = "write"
    <3>1. posts[b][o] + 1 \in Nat
      BY <1>1, <1>5, <2>1 DEF Call, ReqsTyped, HistoryTyped, Idle
    <3>2. posts' = [posts EXCEPT ![b][o] = posts[b][o] + 1]
      BY <1>5, <2>1 DEF Call
    <3>3. posts' \in [Bindings -> [OpIds -> Nat]]
      BY <1>1, <3>1, <3>2 DEF HistoryTyped
    <3> QED BY <1>1, <1>5, <3>3 DEF Call, HistoryTyped
  <2>2. CASE reqs[r].kind # "write"
    BY <1>1, <1>5, <2>2 DEF Call, HistoryTyped
  <2> QED BY <2>1, <2>2
<1>6. ASSUME NEW e \in Events, ReceiveAgain(e) \/ ReceiveLifecycle(e) \/ ReceiveMention(e)
      PROVE  HistoryTyped'
  BY <1>1, <1>6 DEF ReceiveAgain, ReceiveLifecycle, ReceiveMention, HistoryTyped
<1> QED BY <1>2, <1>3, <1>4, <1>5, <1>6, HistoryFrame DEF HistoryChange

-----------------------------------------------------------------------------
(* grantMu *)

\* What a step of the handler r may do to the lock: keep it, release it, do
\* without it, or take it when it is free.
LockStep(r) ==
    /\ \A x \in Requests \ {r} : reqs'[x] = reqs[x]
    /\ \/ reqs[r].at \in HeldSteps /\ reqs'[r].at \in HeldSteps /\ UNCHANGED grantMu
       \/ reqs[r].at \in HeldSteps /\ reqs'[r].at \notin HeldSteps /\ grantMu' = None
       \/ reqs[r].at \notin HeldSteps /\ reqs'[r].at \notin HeldSteps /\ UNCHANGED grantMu
       \/ reqs[r].at \notin HeldSteps /\ reqs'[r].at \in HeldSteps /\ grantMu = None /\ grantMu' = r

LEMMA AtAfter ==
  ASSUME ReqsTyped, NEW r \in Requests
  PROVE  /\ Done(r) => \A x \in Requests \ {r} : reqs'[x] = reqs[x]
         /\ Done(r) => reqs'[r].at \notin HeldSteps
         /\ GiveUp(r) => \A x \in Requests \ {r} : reqs'[x] = reqs[x]
         /\ GiveUp(r) => reqs'[r].at \notin HeldSteps /\ grantMu' = None
         /\ \A at \in HeldSteps \union FreeSteps :
               Goto(r, at) => /\ \A x \in Requests \ {r} : reqs'[x] = reqs[x]
                              /\ reqs'[r].at = at
<1>1. reqs \in [Requests -> RequestRecords] /\ reqs[r] \in RequestRecords
  BY DEF ReqsTyped
<1>2. Idle.at \notin HeldSteps
  BY DEF Idle, HeldSteps
<1>3. ASSUME Done(r)
      PROVE  reqs'[r].at \notin HeldSteps /\ \A x \in Requests \ {r} : reqs'[x] = reqs[x]
  BY <1>1, <1>2, <1>3 DEF Done
<1>4. ASSUME GiveUp(r)
      PROVE  /\ reqs'[r].at \notin HeldSteps /\ grantMu' = None
             /\ \A x \in Requests \ {r} : reqs'[x] = reqs[x]
  <2>1. [reqs[r] EXCEPT !.at = "unknown", !.held = 0, !.page = 0, !.stamp = 0].at \notin HeldSteps
    BY <1>1 DEF RequestRecords, HeldSteps
  <2>2. reqs'[r] \in {Idle, [reqs[r] EXCEPT !.at = "unknown", !.held = 0, !.page = 0, !.stamp = 0]}
    BY <1>1, <1>4 DEF GiveUp
  <2> QED BY <1>1, <1>2, <1>4, <2>1, <2>2 DEF GiveUp, Unlock
<1>5. ASSUME NEW at, Goto(r, at)
      PROVE  reqs'[r].at = at /\ \A x \in Requests \ {r} : reqs'[x] = reqs[x]
  BY <1>1, <1>5 DEF Goto, RequestRecords
<1> QED BY <1>3, <1>4, <1>5

LEMMA CallbackLock ==
  ASSUME ReqsTyped, NEW r \in Requests, CallbackStep(r)
  PROVE  LockStep(r)
<1> USE AtAfter DEF LockStep, Unlock, HeldSteps, FreeSteps
<1>1. CASE Consume(r)
  BY <1>1 DEF Consume
<1>2. CASE FailBinding(r)
  BY <1>2 DEF FailBinding
<1>3. CASE FenceExchange(r)
  BY <1>3 DEF FenceExchange
<1>4. CASE Exchange(r)
  BY <1>4 DEF Exchange, ReqsTyped, RequestRecords
<1>5. CASE StoreGrant(r)
  BY <1>5, ZenonT(90) DEF StoreGrant
<1> QED BY <1>1, <1>2, <1>3, <1>4, <1>5 DEF CallbackStep

LEMMA GrantLock ==
  ASSUME ReqsTyped, NEW r \in Requests, GrantStep(r) \/ Acquire(r)
  PROVE  LockStep(r)
<1> USE AtAfter DEF LockStep, HeldSteps, FreeSteps
<1>1. CASE Acquire(r)
  <2>1. CASE GiveUp(r)
    BY <1>1, <2>1, ZenonT(90) DEF Acquire
  <2>2. CASE ~GiveUp(r)
    <3>1. /\ grantMu = None /\ grantMu' = r /\ reqs[r].at = "acquire"
          /\ \E at \in {"members", "admitRefresh"} : \E v :
                reqs' = [reqs EXCEPT ![r].at = at, ![r].held = v]
      BY <1>1, <2>2, ZenonT(90) DEF Acquire
    <3> QED BY <3>1, ZenonT(90) DEF ReqsTyped, RequestRecords
  <2> QED BY <2>1, <2>2, ZenonT(90)
<1>2. CASE AdmitRefresh(r)
  BY <1>2, ZenonT(90) DEF AdmitRefresh
<1>3. CASE Refresh(r)
  BY <1>3, ZenonT(90) DEF Refresh, ReqsTyped, RequestRecords
<1>4. CASE Refreshed(r)
  <2>1. reqs[r].at \in HeldSteps
    BY <1>4, ZenonT(90) DEF Refreshed
  <2>2. CASE GiveUp(r)
    BY <2>1, <2>2, ZenonT(90)
  <2>3. CASE ~GiveUp(r)
    <3>1. /\ reqs' = [reqs EXCEPT ![r].at = "members", ![r].held = @ + 1, ![r].stamp = 0]
          /\ UNCHANGED grantMu
      BY <1>4, <2>3, ZenonT(90) DEF Refreshed
    <3>2. reqs'[r].at = "members" /\ \A x \in Requests \ {r} : reqs'[x] = reqs[x]
      BY <3>1 DEF ReqsTyped, RequestRecords
    <3> QED BY <2>1, <3>1, <3>2, ZenonT(90)
  <2> QED BY <2>2, <2>3
<1>5. CASE AdmitMembers(r)
  BY <1>5 DEF AdmitMembers
<1>6. CASE Members(r)
  BY <1>6 DEF Members, ReqsTyped, RequestRecords
<1>7. CASE AdmitCall(r)
  BY <1>7 DEF AdmitCall
<1>8. CASE Call(r)
  BY <1>8 DEF Call
<1>9. CASE Leave(r)
  BY <1>9 DEF Leave, Unlock, ReqsTyped, RequestRecords
<1> QED BY <1>1, <1>2, <1>3, <1>4, <1>5, <1>6, <1>7, <1>8, <1>9 DEF GrantStep

LEMMA FreeLock ==
  ASSUME ReqsTyped, NEW r \in Requests,
         \/ Confirm(r) \/ AdmitOperation(r) \/ OutcomeUnknown(r) \/ ActivateBinding(r)
         \/ CompleteOperation(r) \/ Answer(r) \/ \E b \in Bindings : Request(r, b)
  PROVE  LockStep(r)
<1> USE AtAfter DEF LockStep, HeldSteps, FreeSteps
<1>1. CASE Confirm(r) \/ OutcomeUnknown(r) \/ ActivateBinding(r) \/ CompleteOperation(r) \/ Answer(r)
  BY <1>1, ZenonT(90) DEF Confirm, OutcomeUnknown, ActivateBinding, CompleteOperation, Answer
<1>2. CASE AdmitOperation(r)
  BY <1>2 DEF AdmitOperation
<1>3. ASSUME NEW q, q.at \notin HeldSteps, Begin(r, q), UNCHANGED grantMu PROVE LockStep(r)
  BY <1>3 DEF Begin, ReqsTyped, Idle
<1>4. ASSUME NEW b \in Bindings, Request(r, b) PROVE LockStep(r)
  <2>1. /\ [Idle EXCEPT !.kind = "install", !.at = "confirm", !.binding = b].at = "confirm"
        /\ [Idle EXCEPT !.kind = "callback", !.at = "consume", !.binding = b,
                        !.version = bindings[b].version].at = "consume"
        /\ [Idle EXCEPT !.kind = "activate", !.at = "acquire", !.binding = b,
                        !.version = bindings[b].version].at = "acquire"
        /\ InSession("inbox", b).at = "acquire"
        /\ \A e : [InSession("read", b) EXCEPT !.delivery = e].at = "acquire"
        /\ \A e, o : [[InSession("read", b) EXCEPT !.delivery = e]
                         EXCEPT !.kind = "replay", !.op = o].at = "acquire"
        /\ \A e, o : [[InSession("read", b) EXCEPT !.delivery = e]
                         EXCEPT !.kind = "write", !.at = "admitOp", !.op = o].at = "admitOp"
    BY DEF Idle, InSession
  <2>2. PICK q : q.at \in FreeSteps /\ Begin(r, q) /\ UNCHANGED grantMu
    <3>1. CASE InstallPage(r, b)
      BY <2>1, <3>1 DEF InstallPage
    <3>2. CASE Callback(r, b)
      BY <2>1, <3>2 DEF Callback
    <3>3. CASE Activate(r, b)
      BY <2>1, <3>3 DEF Activate
    <3>4. CASE Inbox(r, b)
      BY <2>1, <3>4 DEF Inbox
    <3>5. ASSUME NEW e \in Events, Api(r, b, e)
          PROVE  \E q : q.at \in FreeSteps /\ Begin(r, q) /\ UNCHANGED grantMu
      <4> DEFINE q == [InSession("read", b) EXCEPT !.delivery = e]
      <4>1. /\ UNCHANGED grantMu
            /\ \/ Begin(r, q)
               \/ \E o \in OpIds :
                     \/ Begin(r, [q EXCEPT !.kind = "write", !.at = "admitOp", !.op = o])
                     \/ Begin(r, [q EXCEPT !.kind = "replay", !.op = o])
        BY <3>5 DEF Api
      <4>2. /\ q.at \in FreeSteps
            /\ \A o : /\ [q EXCEPT !.kind = "write", !.at = "admitOp", !.op = o].at \in FreeSteps
                      /\ [q EXCEPT !.kind = "replay", !.op = o].at \in FreeSteps
        BY <2>1
      <4> HIDE DEF q, LockStep, HeldSteps, FreeSteps
      <4> QED BY <4>1, <4>2
    <3> QED BY <1>4, <3>1, <3>2, <3>3, <3>4, <3>5 DEF Request
  <2> QED BY <1>3, <2>2
<1> QED BY <1>1, <1>2, <1>4, ZenonT(90)

LEMMA StoreFailsLock ==
  ASSUME ReqsTyped, NEW r \in Requests, StoreFails(r)
  PROVE  LockStep(r)
  BY AtAfter DEF StoreFails, LockStep, Unlock, HeldSteps, FreeSteps

LEMMA LockSteps ==
  ASSUME ReqsTyped, Next
  PROVE  Restart \/ UNCHANGED <<reqs, grantMu>> \/ \E r \in Requests : LockStep(r)
<1>1. ASSUME NEW r \in Requests, Proceed(r) \/ StoreFails(r) \/ \E b \in Bindings : Request(r, b)
      PROVE  LockStep(r)
  BY <1>1, CallbackLock, GrantLock, FreeLock, StoreFailsLock, ZenonT(90) DEF Proceed
<1>2. ASSUME Tick \/ (\E b \in Bindings : Host(b)) \/ (\E e \in Events : Slack(e))
      PROVE  UNCHANGED <<reqs, grantMu>>
  BY <1>2, ZenonT(90) DEF Tick, Host, Start, IssueSession, Disconnect, Ack,
     Slack, MintMention, MintLifecycle, ReceiveAgain, ReceiveLifecycle, ReceiveMention
<1> QED BY <1>1, <1>2 DEF Next

-----------------------------------------------------------------------------
(* Type correctness *)

LEMMA TypeInit == Init => TypeOK
  <1> SUFFICES ASSUME Init PROVE TypeOK
    OBVIOUS
  <1>1. BindingsTyped
    BY DEF Init, BindingsTyped, NoBinding, BindingRecords, BindingStatus
  <1>2. GrantsTyped
    BY DEF Init, GrantsTyped, NoGrant, GrantRecords, GrantStatus
  <1>3. txs \in [Bindings -> TxRecords] /\ deliveries \in [Events -> DeliveryRecords]
    BY DEF Init, NoTx, TxRecords, NoDelivery, DeliveryRecords
  <1>4. operations \in [Bindings -> [OpIds -> OpRecords]]
    BY DEF Init, NoOp, OpRecords
  <1>5. ReqsTyped
    BY DEF Init, ReqsTyped, Idle, RequestRecords
  <1>6. SlackTyped
    <2>1. NoTime \in Nat
      BY DurationAssumption DEF NoTime
    <2> QED BY <2>1 DEF Init, SlackTyped, NoEvent, EventRecords
  <1>7. HistoryTyped
    BY DEF Init, HistoryTyped
  <1>8. grantMu \in Requests \union {None} /\ clock \in Nat
    BY DEF Init
  <1> QED BY <1>1, <1>2, <1>3, <1>4, <1>5, <1>6, <1>7, <1>8 DEF TypeOK

LEMMA TypeStep == TypeOK /\ [Next]_vars => TypeOK'
<1>1. ASSUME TypeOK, Next PROVE TypeOK'
  <2>1. grantMu' \in Requests \union {None}
    BY <1>1, LockSteps DEF TypeOK, LockStep, Restart
  <2>2. clock' \in Nat
    <3>1. UNCHANGED clock \/ Tick
      BY <1>1, ClockFrame
    <3> QED BY <1>1, <3>1 DEF TypeOK, Tick
  <2> QED BY <1>1, <2>1, <2>2, BindingsStep, GrantsStep, TxsStep, DeliveriesStep, OperationsStep,
     ReqsStep, SlackStep, HistoryStep DEF TypeOK
<1>2. ASSUME TypeOK, UNCHANGED vars PROVE TypeOK'
  BY <1>2 DEF TypeOK, BindingsTyped, GrantsTyped, ReqsTyped, SlackTyped, HistoryTyped,
     vars, store, slack, history
<1> QED BY <1>1, <1>2

\* Every record keeps its type, every request in progress names a binding, and
\* a stored binding or event the team it belongs to.
THEOREM TypeCorrect == Spec => []TypeOK
  BY TypeInit, TypeStep, PTL DEF Spec

-----------------------------------------------------------------------------
(* The grant lock *)

LEMMA OwnerStep == TypeOK /\ OneGrantOwner /\ [Next]_vars => OneGrantOwner'
<1> SUFFICES ASSUME TypeOK, OneGrantOwner, [Next]_vars PROVE OneGrantOwner'
  OBVIOUS
<1>1. CASE \E r \in Requests : LockStep(r)
  <2>1. PICK r \in Requests : LockStep(r)
    BY <1>1
  <2>2. None \notin Requests
    BY NoneAssumption
  <2> QED BY <2>1, <2>2 DEF OneGrantOwner, LockStep
<1>2. CASE Restart
  BY <1>2, NoneAssumption DEF Restart, OneGrantOwner, Idle, HeldSteps
<1>3. CASE UNCHANGED <<reqs, grantMu>>
  BY <1>3 DEF OneGrantOwner
<1> QED BY <1>1, <1>2, <1>3, LockSteps DEF TypeOK, vars

\* A handler between Lock and Unlock of grantMu is its owner, and the owner is
\* such a handler: callback and withGrant use the grant one at a time.
THEOREM GrantOwnerUnique == Spec => []OneGrantOwner
<1>1. Init => OneGrantOwner
  BY NoneAssumption DEF Init, OneGrantOwner, Idle, HeldSteps
<1> QED BY <1>1, OwnerStep, TypeCorrect, PTL DEF Spec

-----------------------------------------------------------------------------
(* Channels and the workspace grant *)

\* Only Start makes a binding live; none moves to another channel while live.
NoneRevived ==
    \A b \in Bindings : Live(b)' =>
        Live(b) /\ bindings'[b].team = bindings[b].team /\ bindings'[b].channel = bindings[b].channel

LEMMA BindingsRevived ==
  ASSUME TypeOK, Next
  PROVE  NoneRevived \/ \E b \in Bindings, t \in Teams, c \in Channels : Start(b, t, c)
<1>0. bindings \in [Bindings -> BindingRecords]
  BY DEF TypeOK, BindingsTyped
<1> USE DEF NoneRevived, Live, BindingRecords
<1>1. ASSUME NEW b \in Bindings, IssueSession(b) PROVE NoneRevived
  BY <1>0, <1>1 DEF IssueSession
<1>2. ASSUME NEW b \in Bindings, Disconnect(b) PROVE NoneRevived
  BY <1>0, <1>2 DEF Disconnect
<1>3. ASSUME NEW r \in Requests, FailBinding(r) PROVE NoneRevived
  BY <1>0, <1>3 DEF FailBinding
<1>4. ASSUME NEW r \in Requests, StoreGrant(r) PROVE NoneRevived
  BY <1>0, <1>4, SMTT(60) DEF StoreGrant
<1>5. ASSUME NEW r \in Requests, ActivateBinding(r) PROVE NoneRevived
  BY <1>0, <1>5 DEF ActivateBinding
<1>6. ASSUME NEW e \in Events, ReceiveLifecycle(e) PROVE NoneRevived
  <2>1. \A b \in Bindings : bindings'[b] = bindings[b] \/ bindings'[b].status = "revoked"
    BY <1>0, <1>6 DEF ReceiveLifecycle
  <2> QED BY <2>1, ZenonT(90)
<1>7. UNCHANGED bindings => NoneRevived
  OBVIOUS
<1> QED BY <1>1, <1>2, <1>3, <1>4, <1>5, <1>6, <1>7, BindingsFrame DEF BindingsChange

LEMMA OneLiveStep ==
  TypeOK /\ OneLiveBindingPerChannel /\ [Next]_vars => OneLiveBindingPerChannel'
<1> SUFFICES ASSUME TypeOK, OneLiveBindingPerChannel, [Next]_vars
             PROVE  OneLiveBindingPerChannel'
  OBVIOUS
<1>1. CASE Next /\ NoneRevived
  BY <1>1 DEF OneLiveBindingPerChannel, NoneRevived
<1>2. ASSUME NEW b \in Bindings, NEW t \in Teams, NEW c \in Channels, Start(b, t, c)
      PROVE  OneLiveBindingPerChannel'
  <2>1. /\ \A x \in Bindings \ {b} : bindings'[x] = bindings[x]
        /\ bindings'[b].team = t /\ bindings'[b].channel = c
    BY <1>2 DEF Start, TypeOK, BindingsTyped, NoBinding
  <2>2. \A x \in Bindings : Live(x) => bindings[x].team # t \/ bindings[x].channel # c
    BY <1>2 DEF Start
  <2> QED BY <2>1, <2>2 DEF OneLiveBindingPerChannel, Live
<1>3. CASE UNCHANGED vars
  BY <1>3 DEF OneLiveBindingPerChannel, Live, vars, store
<1> QED BY <1>1, <1>2, <1>3, BindingsRevived

\* Of any number of bindings, consents and handlers, no two live bindings share
\* a channel: what start checks once holds ever after.
THEOREM ChannelsUnshared == Spec => []OneLiveBindingPerChannel
<1>1. Init => OneLiveBindingPerChannel
  BY DEF Init, OneLiveBindingPerChannel, Live, NoBinding
<1> QED BY <1>1, OneLiveStep, TypeCorrect, PTL DEF Spec

\* What a step leaves of the grant of team t, but for StoreGrant and lifecycle
\* events: no grant appears, is revoked, or gets another consent.
GrantKept(t) ==
    /\ grants[t].status = "none" <=> grants'[t].status = "none"
    /\ grants[t].status = "revoked" <=> grants'[t].status = "revoked"
    /\ grants'[t].authorizedAt = grants[t].authorizedAt

LEMMA GrantsKept ==
  ASSUME TypeOK, Next
  PROVE  \/ \A t \in Teams : GrantKept(t)
         \/ \E r \in Requests : StoreGrant(r)
         \/ \E e \in Events : ReceiveLifecycle(e)
<1>0. grants \in [Teams -> GrantRecords]
  BY DEF TypeOK, GrantsTyped
<1> USE DEF GrantKept, GrantRecords
<1>6. UNCHANGED grants => \A t \in Teams : GrantKept(t)
  BY ZenonT(90)
<1>1. ASSUME NEW r \in Requests, NEW s \in {"active", "reconnect_required"}, RotationEnds(r, s)
      PROVE  \A t \in Teams : GrantKept(t)
  BY <1>0, <1>1, ZenonT(90) DEF RotationEnds, Rotating
<1>2. ASSUME NEW r \in Requests, Acquire(r) PROVE \A t \in Teams : GrantKept(t)
  <2> DEFINE u == bindings[reqs[r].binding].team
  <2>1. \/ UNCHANGED grants
        \/ grants[u].status = "active" /\ grants' = [grants EXCEPT ![u].status = "refreshing"]
    BY <1>2 DEF Acquire
  <2> QED BY <1>0, <2>1, ZenonT(90)
<1>3. ASSUME NEW r \in Requests, AdmitRefresh(r) PROVE \A t \in Teams : GrantKept(t)
  BY <1>1, <1>3, ZenonT(90) DEF AdmitRefresh
<1>4. ASSUME NEW r \in Requests, Refreshed(r) PROVE \A t \in Teams : GrantKept(t)
  <2> DEFINE u == bindings[reqs[r].binding].team
  <2>1. \/ RotationEnds(r, "reconnect_required")
        \/ UNCHANGED grants
        \/ /\ grants[u].status = "refreshing"
           /\ grants' = [grants EXCEPT ![u].status = "active", ![u].version = @ + 1,
                                       ![u].expiresAt = reqs[r].stamp + GrantLife]
    BY <1>4, ZenonT(90) DEF Refreshed, Rotating
  <2>2. ASSUME NEW v, NEW x, grants[u].status = "refreshing",
               grants' = [grants EXCEPT ![u].status = "active", ![u].version = v, ![u].expiresAt = x]
        PROVE  \A t \in Teams : GrantKept(t)
    BY <1>0, <2>2, ZenonT(90)
  <2> QED BY <1>1, <1>6, <2>1, <2>2, ZenonT(90)
<1>5. CASE Restart
  BY <1>0, <1>5 DEF Restart, RecoveredGrant
<1> QED BY <1>2, <1>3, <1>4, <1>5, <1>6, GrantsFrame DEF GrantsChange

LEMMA GrantOfLiveStep ==
  TypeOK /\ LiveBindingHasGrant /\ [Next]_vars => LiveBindingHasGrant'
<1> SUFFICES ASSUME TypeOK, LiveBindingHasGrant, [Next]_vars
             PROVE  LiveBindingHasGrant'
  OBVIOUS
<1>0. bindings \in [Bindings -> BindingRecords] /\ grants \in [Teams -> GrantRecords]
  BY DEF TypeOK, BindingsTyped, GrantsTyped
<1>team. \A b \in Bindings : bindings[b].status # "none" => bindings[b].team \in Teams
  BY DEF TypeOK, BindingsTyped, NoBinding
<1>1. ASSUME NEW r \in Requests, StoreGrant(r) PROVE LiveBindingHasGrant'
  <2> DEFINE b == reqs[r].binding
             t == bindings[b].team
  <2>1. CASE UNCHANGED <<bindings, grants>>
    BY <2>1 DEF LiveBindingHasGrant
  <2>2. CASE ~UNCHANGED <<bindings, grants>>
    <3>1. /\ bindings[b].status = "pending_consent"
          /\ grants'[t].status = "active" \/ t \notin Teams
          /\ \A u \in Teams \ {t} : grants'[u] = grants[u]
          /\ \A x \in Bindings : bindings'[x].team = bindings[x].team
          /\ \A x \in Bindings \ {b} : bindings'[x] = bindings[x]
      <4> DEFINE g == [status |-> "active", version |-> grants[t].version + 1,
                       expiresAt |-> reqs[r].stamp + GrantLife, authorizedAt |-> clock]
      <4>1. /\ bindings[b].status = "pending_consent"
            /\ grants' = [grants EXCEPT ![t] = g]
            /\ bindings' = [bindings EXCEPT ![b].status = "authorized",
                                           ![b].authorizedAt = clock]
        BY <1>1, <2>2 DEF StoreGrant
      <4>2. g.status = "active"
        OBVIOUS
      <4> HIDE DEF g, b, t
      <4>3. /\ grants'[t].status = "active" \/ t \notin Teams
            /\ \A u \in Teams \ {t} : grants'[u] = grants[u]
        BY <1>0, <4>1, <4>2
      <4>4. /\ \A x \in Bindings : bindings'[x].team = bindings[x].team
            /\ \A x \in Bindings \ {b} : bindings'[x] = bindings[x]
        BY <1>0, <4>1 DEF BindingRecords
      <4> QED BY <4>1, <4>3, <4>4
    <3>2. b \in Bindings
      BY <1>1 DEF StoreGrant, TypeOK, ReqsTyped, Idle
    <3> QED BY <1>team, <3>1, <3>2 DEF LiveBindingHasGrant
  <2> QED BY <2>1, <2>2
<1>2. ASSUME NEW e \in Events, ReceiveLifecycle(e) PROVE LiveBindingHasGrant'
  <2> DEFINE t == sent[e].team
             hits == Affects(e) /\ grants[t].status # "none" /\ sent[e].at >= grants[t].authorizedAt
  <2>1. CASE hits
    <3>1. \A b \in Bindings : \/ bindings'[b].status = "revoked"
                              \/ bindings'[b] = bindings[b] /\ bindings[b].team # t
                              \/ bindings'[b] = bindings[b] /\ bindings[b].status = "disconnected"
      BY <1>0, <1>2, <2>1 DEF ReceiveLifecycle, Revocable, BindingRecords
    <3>2. \A u \in Teams \ {t} : grants'[u] = grants[u]
      BY <1>0, <1>2 DEF ReceiveLifecycle
    <3> QED BY <1>team, <3>1, <3>2 DEF LiveBindingHasGrant
  <2>2. CASE ~hits
    <3>1. grants' = grants /\ \A b \in Bindings : bindings'[b] = bindings[b]
      BY <1>2, <2>2, ZenonT(90) DEF ReceiveLifecycle
    <3> QED BY <3>1, ZenonT(90) DEF LiveBindingHasGrant
  <2> QED BY <2>1, <2>2
<1>3. ASSUME NEW r \in Requests, ActivateBinding(r) PROVE LiveBindingHasGrant'
  BY <1>0, <1>3 DEF ActivateBinding, LiveBindingHasGrant, BindingRecords
<1>4. ASSUME Next, \A t \in Teams : GrantKept(t), ~ \E r \in Requests : ActivateBinding(r),
             ~ \E r \in Requests : StoreGrant(r), ~ \E e \in Events : ReceiveLifecycle(e)
      PROVE  LiveBindingHasGrant'
  <2> DEFINE NoneAuthorized ==
         \A b \in Bindings : bindings'[b].status \in {"authorized", "active"} =>
             /\ bindings[b].status \in {"authorized", "active"}
             /\ bindings'[b].team = bindings[b].team
  <2>1. NoneAuthorized
    <3>1. CASE UNCHANGED bindings
      BY <3>1
    <3>2. ASSUME NEW b \in Bindings, NEW t \in Teams, NEW c \in Channels, Start(b, t, c)
          PROVE  NoneAuthorized
      BY <1>0, <3>2 DEF Start, NoBinding
    <3>3. ASSUME NEW b \in Bindings, IssueSession(b) PROVE NoneAuthorized
      BY <1>0, <3>3 DEF IssueSession, BindingRecords
    <3>4. ASSUME NEW b \in Bindings, Disconnect(b) PROVE NoneAuthorized
      BY <1>0, <3>4 DEF Disconnect, BindingRecords
    <3>5. ASSUME NEW r \in Requests, FailBinding(r) PROVE NoneAuthorized
      BY <1>0, <3>5 DEF FailBinding, BindingRecords
    <3> QED BY <1>4, <3>1, <3>2, <3>3, <3>4, <3>5, BindingsFrame DEF BindingsChange
  <2> QED BY <1>team, <1>4, <2>1 DEF LiveBindingHasGrant, GrantKept
<1>5. CASE UNCHANGED vars
  BY <1>5 DEF LiveBindingHasGrant, vars, store
<1> QED BY <1>1, <1>2, <1>3, <1>4, <1>5, GrantsKept

\* An authorized or active binding has a grant that was not revoked: the
\* revocation in events reaches every one of them.
THEOREM LiveBindingsGranted == Spec => []LiveBindingHasGrant
<1>1. Init => LiveBindingHasGrant
  BY DEF Init, LiveBindingHasGrant, NoBinding
<1> QED BY <1>1, GrantOfLiveStep, TypeCorrect, PTL DEF Spec

-----------------------------------------------------------------------------
(* Recorded lifecycle events *)

\* No consent began in the future.
ConsentsBegun == \A b \in Bindings : txs[b].startedAt <= clock

LEMMA BegunStep == TypeOK /\ ConsentsBegun /\ [Next]_vars => ConsentsBegun'
<1> SUFFICES ASSUME TypeOK, ConsentsBegun, [Next]_vars PROVE ConsentsBegun'
  OBVIOUS
<1>0. txs \in [Bindings -> TxRecords] /\ clock \in Nat /\ clock <= clock'
  BY ClockFrame DEF TypeOK, Tick, vars
<1>began. \A b \in Bindings : txs[b].startedAt \in Nat
  BY <1>0 DEF TxRecords
<1>1. \A b \in Bindings : txs'[b].startedAt \in {txs[b].startedAt, clock}
  <2> USE DEF TxRecords
  <2>1. ASSUME NEW b \in Bindings, NEW t \in Teams, NEW c \in Channels, Start(b, t, c)
        PROVE  \A x \in Bindings : txs'[x].startedAt \in {txs[x].startedAt, clock}
    BY <1>0, <2>1 DEF Start
  <2>2. ASSUME NEW r \in Requests, Confirm(r) \/ Consume(r)
        PROVE  \A x \in Bindings : txs'[x].startedAt \in {txs[x].startedAt, clock}
    BY <1>0, <2>2 DEF Confirm, Consume
  <2>3. UNCHANGED vars \/ UNCHANGED txs => \A x \in Bindings : txs'[x] = txs[x]
    BY DEF vars, store
  <2> QED BY <2>1, <2>2, <2>3, TxsFrame DEF TxsChange
<1>2. clock' \in Nat
  BY ClockFrame DEF TypeOK, Tick, vars
<1> QED BY <1>0, <1>began, <1>1, <1>2 DEF ConsentsBegun

\* Only a lifecycle event that arrives adds a lifecycle record.
LEMMA LifecycleRecords ==
  ASSUME TypeOK, Next, NEW x \in Events, deliveries'[x].status = "lifecycle"
  PROVE  \/ deliveries'[x] = deliveries[x]
         \/ ReceiveLifecycle(x) /\ Affects(x) /\ deliveries'[x].team = sent[x].team
                                /\ deliveries'[x].occurredAt = sent[x].at
<1>0. deliveries \in [Events -> DeliveryRecords]
  BY DEF TypeOK
<1>1. Purged[x] \in {deliveries[x], NoDelivery} /\ NoDelivery.status # "lifecycle"
  BY DEF Purged, NoDelivery
<1>2. ASSUME NEW b \in Bindings, NEW e \in Events, NEW outcome \in {"acknowledged", "denied"},
             Ack(b, e, outcome)
      PROVE  deliveries'[x] = deliveries[x]
  BY <1>0, <1>2 DEF Ack, DeliveryRecords
<1>3. ASSUME NEW e \in Events, ReceiveMention(e) PROVE deliveries'[x] = deliveries[x]
  <2>1. \/ deliveries' = Purged
        \/ \E d : d.status = "pending" /\ deliveries' = [Purged EXCEPT ![e] = d]
    BY <1>3 DEF ReceiveMention
  <2> QED BY <1>1, <2>1 DEF Purged
<1>4. ASSUME NEW e \in Events, ReceiveLifecycle(e), deliveries'[x] # deliveries[x]
      PROVE  /\ x = e /\ Affects(e) /\ deliveries'[x].team = sent[x].team
             /\ deliveries'[x].occurredAt = sent[x].at
  <2> DEFINE d == [NoDelivery EXCEPT !.status = "lifecycle", !.team = sent[e].team,
                                     !.occurredAt = sent[e].at, !.createdAt = clock]
  <2>1. d.team = sent[e].team /\ d.occurredAt = sent[e].at
    BY DEF NoDelivery
  <2>2. \/ deliveries' = Purged
        \/ Affects(e) /\ deliveries' = [Purged EXCEPT ![e] = d]
    BY <1>4 DEF ReceiveLifecycle
  <2> HIDE DEF d
  <2> QED BY <1>1, <1>4, <2>1, <2>2 DEF Purged
<1> QED BY <1>2, <1>3, <1>4, DeliveriesFrame DEF DeliveriesChange

LEMMA RecordedStep ==
  TypeOK /\ ConsentsBegun /\ RecordedRevocationFences /\ [Next]_vars => RecordedRevocationFences'
<1> SUFFICES ASSUME TypeOK, ConsentsBegun, RecordedRevocationFences, [Next]_vars
             PROVE  RecordedRevocationFences'
  OBVIOUS
<1> DEFINE Usable == {"active", "refreshing", "reconnect_required"}
<1>0. /\ bindings \in [Bindings -> BindingRecords] /\ grants \in [Teams -> GrantRecords]
      /\ deliveries \in [Events -> DeliveryRecords] /\ txs \in [Bindings -> TxRecords]
      /\ clock \in Nat /\ sent \in [Events -> EventRecords]
  BY DEF TypeOK, BindingsTyped, GrantsTyped, SlackTyped
<1>1. CASE UNCHANGED vars
  BY <1>1 DEF RecordedRevocationFences, vars, store
<1>2. ASSUME NEW e \in Events, ReceiveLifecycle(e) PROVE RecordedRevocationFences'
  <2> DEFINE t == sent[e].team
             hits == Affects(e) /\ grants[t].status # "none" /\ sent[e].at >= grants[t].authorizedAt
  <2>1. Next
    BY <1>2 DEF Next, Slack
  <2>2. ASSUME NEW u \in Teams, NEW x \in Events, deliveries'[x].status = "lifecycle",
               deliveries'[x].team = u, grants'[u].status \in Usable
        PROVE  deliveries'[x].occurredAt < grants'[u].authorizedAt
    <3>1. grants'[u] = grants[u] /\ ~(hits /\ u = t)
      BY <1>0, <1>2, <2>2, ZenonT(90) DEF ReceiveLifecycle, GrantRecords
    <3>2. CASE deliveries'[x] = deliveries[x]
      BY <2>2, <3>1, <3>2 DEF RecordedRevocationFences
    <3>3. CASE deliveries'[x] # deliveries[x]
      <4>1. /\ ReceiveLifecycle(x) /\ Affects(x) /\ u = sent[x].team
            /\ deliveries'[x].occurredAt = sent[x].at
        BY <2>1, <2>2, <3>3, LifecycleRecords
      <4>2. grants'[u].status # "revoked" /\ grants[u].status # "none"
        BY <2>2, <3>1
      <4>3. ~(sent[x].at >= grants[u].authorizedAt)
        BY <1>0, <2>2, <4>1, <4>2, ZenonT(90) DEF ReceiveLifecycle, GrantRecords
      <4> QED BY <1>0, <3>1, <4>1, <4>3 DEF EventRecords, GrantRecords
    <3> QED BY <3>2, <3>3, ZenonT(90)
  <2> QED BY <2>2 DEF RecordedRevocationFences
<1>3. ASSUME Next, ~ \E e \in Events : ReceiveLifecycle(e)
      PROVE  RecordedRevocationFences'
  <2>1. \A x \in Events : deliveries'[x].status = "lifecycle" => deliveries'[x] = deliveries[x]
    BY <1>3, LifecycleRecords
  <2>2. CASE \A t \in Teams : GrantKept(t)
    <3>1. \A t \in Teams : grants'[t].status \in Usable =>
             /\ grants[t].status \in Usable
             /\ grants'[t].authorizedAt = grants[t].authorizedAt
      <4>1. \A t \in Teams : grants[t].status \in GrantStatus
        BY <1>0 DEF GrantRecords
      <4> QED BY <2>2, <4>1 DEF GrantKept, GrantStatus
    <3> QED BY <2>1, <3>1 DEF RecordedRevocationFences
  <2>3. ASSUME NEW r \in Requests, StoreGrant(r) PROVE RecordedRevocationFences'
    <3> DEFINE b == reqs[r].binding
               t == bindings[b].team
    <3>1. CASE UNCHANGED grants
      BY <2>1, <3>1 DEF RecordedRevocationFences
    <3>2. CASE ~UNCHANGED grants
      <4>1. /\ ~LifecycleSince(b)
            /\ \A u \in Teams \ {t} : grants'[u] = grants[u]
            /\ t \in Teams => grants'[t].authorizedAt = clock
        BY <1>0, <2>3, <3>2 DEF StoreGrant
      <4>2. b \in Bindings
        BY <2>3 DEF StoreGrant, TypeOK, ReqsTyped, Idle
      <4>3. txs[b].startedAt <= clock /\ txs[b].startedAt \in Nat
        BY <1>0, <4>2 DEF ConsentsBegun, TxRecords
      <4>4. \A x \in Events : deliveries[x].status = "lifecycle" /\ deliveries[x].team = t =>
               deliveries[x].occurredAt < clock
        BY <1>0, <4>1, <4>3 DEF LifecycleSince, DeliveryRecords
      <4> QED BY <2>1, <4>1, <4>4, ZenonT(90) DEF RecordedRevocationFences
    <3> QED BY <3>1, <3>2
  <2> QED BY <1>3, <2>2, <2>3, GrantsKept
<1> QED BY <1>1, <1>2, <1>3

\* A recorded uninstall or revocation is older than the consent of every grant
\* its team can still use or is renewing.
THEOREM RevocationsFence == Spec => []RecordedRevocationFences
<1>1. Init => ConsentsBegun /\ RecordedRevocationFences
  BY DEF Init, ConsentsBegun, RecordedRevocationFences, NoTx, NoDelivery
<1> QED BY <1>1, BegunStep, RecordedStep, TypeCorrect, PTL DEF Spec

-----------------------------------------------------------------------------
(* The rest says what is done at most once (a code, a refresh token, a      *)
(* post), what stays decided, which mentions a destination may read and     *)
(* which callbacks an uninstall fences.  A handler goes through a fixed     *)
(* graph of steps and keeps its work (the Moves lemma); each invariant says *)
(* what is true of the store while a handler is at a step, and looks at the *)
(* moves into that step only.                                               *)

-----------------------------------------------------------------------------
(* What the store holds while a handler is at a step *)

\* Whatever a handler or a transaction names was started.
Started(b) == bindings[b].status # "none"
NamedAreStarted ==
    /\ \A r \in Requests : reqs[r] # Idle => Started(reqs[r].binding)
    /\ \A b \in Bindings : txs[b].status # "none" => Started(b)

\* The callback that has spent the state parameter and not yet the code.
Spending(r) == reqs[r].at \in {"fence", "exchange"}

ConsentSpent ==
    /\ \A r \in Requests : Spending(r) =>
          txs[reqs[r].binding].status = "consumed" /\ exchanges[reqs[r].binding] = 0
    /\ \A r, x \in Requests :
          Spending(r) /\ Spending(x) /\ reqs[r].binding = reqs[x].binding => r = x
    /\ \A b \in Bindings : txs[b].status # "consumed" => exchanges[b] = 0

\* The write that has admitted operation o of b: not posted yet, posted, or lost.
Posting == {"acquire", "admitRefresh", "refresh", "refreshed", "members", "membersCall",
            "membersDone", "call"}
Posted  == {"leave", "finish"}
Works(r, b, o) ==
    /\ reqs[r].kind = "write" /\ reqs[r].binding = b /\ reqs[r].op = o
    /\ reqs[r].at \in Posting \union Posted \union {"unknown"}

OperationsWorked ==
    \A b \in Bindings, o \in OpIds :
        /\ operations[b][o].status = "none" => posts[b][o] = 0
        /\ \A r \in Requests : Works(r, b, o) =>
              /\ operations[b][o].status # "none"
              /\ reqs[r].at \in Posting => posts[b][o] = 0
              /\ reqs[r].at \in Posted => posts[b][o] = 1
              /\ \A x \in Requests : Works(x, b, o) => r = x

\* The rotation under way: the token it presents is the newest of the grant, or
\* the grant has been revoked since, and it was not presented before.
Renewing(r) == reqs[r].at \in {"admitRefresh", "refresh", "refreshed"}

TokensPresented ==
    /\ \A t \in Teams : \A v \in presented[t] : v <= grants[t].version
    /\ \A t \in Teams : grants[t].status = "active" => grants[t].version \notin presented[t]
    /\ \A r \in Requests : Renewing(r) =>
          LET t == bindings[reqs[r].binding].team IN
          /\ reqs[r].held <= grants[t].version
          /\ reqs[r].held = grants[t].version => grants[t].status = "refreshing"
          /\ reqs[r].at # "refreshed" => reqs[r].held \notin presented[t]

\* A pending delivery is of an event Slack sent, to a binding that was started.
PendingKnown ==
    \A e \in Events : deliveries[e].status = "pending" =>
        sent[e] # NoEvent /\ deliveries[e].binding \in Bindings /\ Started(deliveries[e].binding)

\* An uninstall that was answered is on record until Retention has passed.
UninstallRecorded ==
    \A e \in Events :
        /\ deliveries[e].status \in {"pending", "acknowledged", "denied"} =>
              sent[e].type = "app_mention" /\ deliveries[e].binding \in Bindings
        /\ deliveries[e].status # "none" =>
              sent[e] # NoEvent /\ deliveries[e].createdAt >= sent[e].at
        /\ deliveries[e].status = "lifecycle" =>
              /\ sent[e].type # "app_mention" /\ deliveries[e].binding \notin Bindings
              /\ deliveries[e].team = sent[e].team /\ deliveries[e].occurredAt = sent[e].at
        /\ e \in accepted => sent[e] # NoEvent
        /\ e \in accepted /\ sent[e].type = "app_uninstalled" =>
              deliveries[e].status = "lifecycle" \/ clock > sent[e].at + Retention

\* No event was written in the future.
SentPast == \A e \in Events : sent[e].at <= clock

\* A callback that holds the lock has not outlasted its transaction.
CallbacksOnTime ==
    \A r \in Requests : reqs[r].at \in {"exchange", "store", "reject"} =>
        clock <= txs[reqs[r].binding].startedAt + TxLife + CallLife

-----------------------------------------------------------------------------
(* Moves of a handler *)

Alone(r) == \A x \in Requests \ {r} : reqs'[x] = reqs[x]

\* The work of r is what it was begun for, whatever step it is at.
Same(r) ==
    /\ reqs'[r].kind = reqs[r].kind /\ reqs'[r].binding = reqs[r].binding
    /\ reqs'[r].op = reqs[r].op /\ reqs'[r].delivery = reqs[r].delivery

\* The steps that follow one another in a handler of the given kind.
Flows(kind, from, to) ==
    \/ from = "consume" /\ to \in {"fence", "cancel"}
    \/ from = "fence" /\ to = "exchange"
    \/ from = "exchange" /\ to \in {"store", "reject"}
    \/ from = "admitOp" /\ to = "acquire"
    \/ from = "acquire" /\ to \in {"members", "admitRefresh"}
    \/ from = "admitRefresh" /\ to = "refresh"
    \/ from = "refresh" /\ to = "refreshed"
    \/ from = "refreshed" /\ to = "members"
    \/ from = "members" /\ to = "membersCall"
    \/ from = "membersCall" /\ to \in {"members", "membersDone"}
    \/ from = "membersDone" /\ to = "call"
    \/ from = "membersDone" /\ to = "leave" /\ kind # "write"
    \/ from = "call" /\ to = "leave"
    \/ from = "leave" /\ to = "finish"
    \/ /\ from \in {"acquire", "admitRefresh", "refreshed", "members", "membersCall",
                    "membersDone", "call", "leave"}
       /\ to = "unknown" /\ kind = "write"

Moves(r) == Same(r) /\ Flows(reqs[r].kind, reqs[r].at, reqs'[r].at)

\* The request about b that r is begun for.
Begins(r, b) ==
    /\ reqs[r] = Idle /\ reqs'[r].binding = b
    /\ reqs'[r].at \in {"confirm", "consume", "acquire", "admitOp"}
    /\ reqs'[r].kind = "write" <=> reqs'[r].at = "admitOp"

Put(r, at, held, page, stamp) ==
    reqs' = [reqs EXCEPT ![r].at = at, ![r].held = held, ![r].page = page, ![r].stamp = stamp]

LEMMA MovedTo ==
  ASSUME ReqsTyped, NEW r \in Requests, NEW at, NEW held, NEW page, NEW stamp,
         Put(r, at, held, page, stamp)
  PROVE  Alone(r) /\ Same(r) /\ reqs'[r].at = at
<1> DEFINE q == [reqs[r] EXCEPT !.at = at, !.held = held, !.page = page, !.stamp = stamp]
<1>1. reqs \in [Requests -> RequestRecords] /\ reqs[r] \in RequestRecords
  BY DEF ReqsTyped
<1>2. /\ q.at = at /\ q.kind = reqs[r].kind /\ q.binding = reqs[r].binding
      /\ q.op = reqs[r].op /\ q.delivery = reqs[r].delivery
  BY <1>1 DEF RequestRecords
<1>3. reqs'[r] = q /\ Alone(r)
  BY <1>1 DEF Alone, Put
<1> QED BY <1>2, <1>3 DEF Same

LEMMA Ended ==
  ASSUME ReqsTyped, NEW r \in Requests, Done(r)
  PROVE  Alone(r) /\ reqs'[r] = Idle
  BY DEF ReqsTyped, Done, Alone

LEMMA Gone ==
  ASSUME ReqsTyped, NEW r \in Requests, NEW at, Goto(r, at)
  PROVE  Alone(r) /\ Same(r) /\ reqs'[r].at = at
<1>1. /\ reqs \in [Requests -> RequestRecords] /\ reqs[r] \in RequestRecords
      /\ reqs[r].held \in Nat /\ reqs[r].page \in Nat /\ reqs[r].stamp \in Nat
  BY DEF ReqsTyped, RequestRecords
<1>2. Put(r, at, reqs[r].held, reqs[r].page, reqs[r].stamp)
  BY <1>1 DEF Goto, RequestRecords, Put
<1> QED BY <1>1, <1>2, MovedTo

LEMMA GivenUp ==
  ASSUME ReqsTyped, NEW r \in Requests, GiveUp(r)
  PROVE  /\ Alone(r)
         /\ \/ reqs'[r] = Idle
            \/ Same(r) /\ reqs[r].kind = "write" /\ reqs'[r].at = "unknown"
<1>1. CASE reqs[r].kind = "write"
  <2>1. Put(r, "unknown", 0, 0, 0)
    BY <1>1 DEF GiveUp, ReqsTyped, Put
  <2> QED BY <1>1, <2>1, MovedTo
<1>2. CASE reqs[r].kind # "write"
  BY <1>2, Ended DEF GiveUp, Done, ReqsTyped
<1> QED BY <1>1, <1>2

\* Where a handler may stand next.
MovesOn(r) == Alone(r) /\ (reqs'[r] = Idle \/ Moves(r))

\* A step of a handler that is in progress ends it or follows its graph.
LEMMA StepMoves ==
  ASSUME TypeOK, NEW r \in Requests, Proceed(r) \/ StoreFails(r)
  PROVE  MovesOn(r)
<1> ReqsTyped /\ clock \in Nat
  BY DEF TypeOK
<1>0. /\ reqs \in [Requests -> RequestRecords] /\ reqs[r] \in RequestRecords
      /\ reqs[r].held \in Nat /\ reqs[r].page \in Nat /\ reqs[r].stamp \in Nat
      /\ reqs[r].held + 1 \in Nat /\ reqs[r].page + 1 \in Nat
  BY DEF ReqsTyped, RequestRecords
<1>done. Done(r) => MovesOn(r)
  BY Ended DEF MovesOn
<1>goto. \A at \in Places : Goto(r, at) /\ Flows(reqs[r].kind, reqs[r].at, at) => MovesOn(r)
  BY Gone DEF Moves, MovesOn
<1>up. GiveUp(r) /\ reqs[r].at \in {"acquire", "admitRefresh", "refreshed", "members", "membersCall",
                                    "membersDone", "call", "leave"} => MovesOn(r)
  BY GivenUp DEF Moves, Flows, MovesOn
<1>to. \A at \in Places, held \in Nat, page \in Nat, stamp \in Nat :
          /\ Put(r, at, held, page, stamp)
          /\ Flows(reqs[r].kind, reqs[r].at, at)
          => MovesOn(r)
  BY MovedTo DEF Moves, MovesOn
<1>places. {"exchange", "store", "reject", "admitRefresh", "refresh", "refreshed", "members",
            "membersCall", "membersDone", "call", "leave", "cancel", "fence", "acquire",
            "unknown", "finish"} \subseteq Places
  BY DEF Places, HeldSteps, FreeSteps
<1>1. CASE StoreFails(r)
  BY <1>1, <1>done, <1>up, ZenonT(90) DEF StoreFails
<1>2. CASE Confirm(r) \/ FailBinding(r) \/ StoreGrant(r) \/ OutcomeUnknown(r)
           \/ ActivateBinding(r) \/ CompleteOperation(r) \/ Answer(r)
  BY <1>2, <1>done DEF Confirm, FailBinding, StoreGrant, OutcomeUnknown, ActivateBinding,
     CompleteOperation, Answer
<1>3. CASE Consume(r)
  BY <1>3, <1>done, <1>goto, <1>places DEF Consume, Flows
<1>4. CASE FenceExchange(r)
  BY <1>4, <1>done, <1>goto, <1>places DEF FenceExchange, Flows
<1>5. CASE Exchange(r)
  <2>1. CASE Goto(r, "reject")
    BY <1>5, <2>1, <1>goto, <1>places DEF Exchange, Flows
  <2>2. CASE reqs' = [reqs EXCEPT ![r].at = "store", ![r].stamp = clock]
    <3>1. Put(r, "store", reqs[r].held, reqs[r].page, clock)
      BY <1>0, <2>2, ZenonT(90) DEF RequestRecords, Put
    <3> QED BY <1>0, <1>5, <3>1, <1>to, <1>places DEF Exchange, Flows
  <2> QED BY <1>5, <2>1, <2>2 DEF Exchange
<1>6. CASE AdmitOperation(r)
  BY <1>6, <1>done, <1>goto, <1>places DEF AdmitOperation, Flows
<1>7. CASE Acquire(r)
  <2>1. reqs[r].at = "acquire"
    BY <1>7 DEF Acquire
  <2>2. ASSUME NEW at \in {"members", "admitRefresh"}, NEW v \in Nat,
               reqs' = [reqs EXCEPT ![r].at = at, ![r].held = v]
        PROVE  MovesOn(r)
    <3>1. Put(r, at, v, reqs[r].page, reqs[r].stamp)
      BY <1>0, <2>2, ZenonT(90) DEF RequestRecords, Put
    <3> QED BY <1>0, <2>1, <3>1, <1>to, <1>places DEF Flows
  <2>3. CASE ~GiveUp(r)
    <3> DEFINE t == bindings[reqs[r].binding].team
    <3>1. GiveUp(r) \/ Admitted(reqs[r])
      BY <1>7 DEF Acquire
    <3>2. bindings[reqs[r].binding] # NoBinding
      BY <2>3, <3>1 DEF Admitted, NoBinding
    <3>3. t \in Teams
      BY <2>1, <3>2, NotIdle DEF TypeOK, BindingsTyped, ReqsTyped
    <3>4. grants[t].version \in Nat
      BY <3>3, ZenonT(90) DEF TypeOK, GrantsTyped, GrantRecords
    <3>5. \E at \in {"members", "admitRefresh"} :
             reqs' = [reqs EXCEPT ![r].at = at, ![r].held = grants[t].version]
      BY <1>7, <2>3 DEF Acquire
    <3> HIDE DEF t
    <3> QED BY <2>2, <3>4, <3>5
  <2> QED BY <2>1, <2>3, <1>up
<1>8. CASE AdmitRefresh(r)
  BY <1>8, <1>up, <1>goto, <1>places DEF AdmitRefresh, Flows
<1>9. CASE Refresh(r)
  <2>0. reqs' = [reqs EXCEPT ![r].at = "refreshed", ![r].stamp = clock]
    BY <1>9 DEF Refresh
  <2>1. Put(r, "refreshed", reqs[r].held, reqs[r].page, clock)
    BY <1>0, <2>0, ZenonT(90) DEF RequestRecords, Put
  <2> QED BY <1>0, <1>9, <2>1, <1>to, <1>places DEF Refresh, Flows
<1>10. CASE Refreshed(r)
  <2>1. reqs[r].at = "refreshed"
    BY <1>10, ZenonT(90) DEF Refreshed
  <2>2. CASE ~GiveUp(r)
    <3>1. reqs' = [reqs EXCEPT ![r].at = "members", ![r].held = @ + 1, ![r].stamp = 0]
      BY <1>10, <2>2, ZenonT(90) DEF Refreshed
    <3>2. Put(r, "members", reqs[r].held + 1, reqs[r].page, 0)
      BY <1>0, <3>1 DEF RequestRecords, Put
    <3> QED BY <1>0, <2>1, <3>2, <1>to, <1>places DEF Flows
  <2> QED BY <2>1, <2>2, <1>up
<1>11. CASE AdmitMembers(r)
  BY <1>11, <1>up, <1>goto, <1>places DEF AdmitMembers, Flows
<1>12. CASE Members(r)
  <2>1. reqs[r].at = "membersCall"
    BY <1>12 DEF Members
  <2>2. ASSUME NEW at \in {"members", "membersDone"}, NEW v \in Nat,
               reqs' = [reqs EXCEPT ![r].at = at, ![r].page = v]
        PROVE  MovesOn(r)
    <3>1. Put(r, at, reqs[r].held, v, reqs[r].stamp)
      BY <1>0, <2>2, ZenonT(90) DEF RequestRecords, Put
    <3> QED BY <1>0, <2>1, <3>1, <1>to, <1>places DEF Flows
  <2>3. \/ GiveUp(r)
        \/ reqs' = [reqs EXCEPT ![r].at = "members", ![r].page = reqs[r].page + 1]
        \/ reqs' = [reqs EXCEPT ![r].at = "membersDone", ![r].page = 0]
    BY <1>0, <1>12 DEF Members
  <2> QED BY <1>0, <2>1, <2>2, <2>3, <1>up
<1>13. CASE AdmitCall(r)
  BY <1>13, <1>up, <1>goto, <1>places DEF AdmitCall, Flows
<1>14. CASE Call(r)
  BY <1>14, <1>up, <1>goto, <1>places DEF Call, Flows
<1>15. CASE Leave(r)
  <2>1. ASSUME reqs' = [reqs EXCEPT ![r].at = "finish", ![r].held = 0]
        PROVE  MovesOn(r)
    <3>1. Put(r, "finish", 0, reqs[r].page, reqs[r].stamp)
      BY <1>0, <2>1, ZenonT(90) DEF RequestRecords, Put
    <3> QED BY <1>0, <1>15, <3>1, <1>to, <1>places DEF Leave, Flows
  <2> QED BY <1>15, <2>1, <1>up DEF Leave
<1> QED
  BY <1>1, <1>2, <1>3, <1>4, <1>5, <1>6, <1>7, <1>8, <1>9, <1>10, <1>11, <1>12, <1>13, <1>14, <1>15
     DEF Proceed, CallbackStep, GrantStep

LEMMA RequestBegins ==
  ASSUME TypeOK, NEW r \in Requests, NEW b \in Bindings, Request(r, b)
  PROVE  Alone(r) /\ Begins(r, b) /\ Started(b) /\ UNCHANGED <<store, slack, history, clock>>
<1>0. ReqsTyped
  BY DEF TypeOK
<1>1. ASSUME NEW q, q.binding = b, q.at \in {"confirm", "consume", "acquire", "admitOp"},
             q.kind = "write" <=> q.at = "admitOp", Begin(r, q)
      PROVE  Alone(r) /\ Begins(r, b)
  BY <1>0, <1>1 DEF Begin, Begins, Alone, ReqsTyped
<1>2. SessionValid(b) => Started(b)
  BY DEF SessionValid, Current, InSession, Idle, Started
<1>3. CASE InstallPage(r, b)
  <2> DEFINE q == [Idle EXCEPT !.kind = "install", !.at = "confirm", !.binding = b]
  <2>1. q.kind = "install" /\ q.at = "confirm" /\ q.binding = b
    BY DEF Idle
  <2>2. Begin(r, q) /\ Started(b) /\ UNCHANGED <<store, slack, history, clock>>
    BY <1>3 DEF InstallPage, Started
  <2> HIDE DEF q
  <2> QED BY <1>1, <2>1, <2>2
<1>4. CASE Callback(r, b)
  <2> DEFINE q == [Idle EXCEPT !.kind = "callback", !.at = "consume", !.binding = b,
                               !.version = bindings[b].version]
  <2>1. q.kind = "callback" /\ q.at = "consume" /\ q.binding = b
    BY DEF Idle
  <2>2. Begin(r, q) /\ Started(b) /\ UNCHANGED <<store, slack, history, clock>>
    BY <1>4 DEF Callback, Started
  <2> HIDE DEF q
  <2> QED BY <1>1, <2>1, <2>2
<1>5. CASE Activate(r, b)
  <2> DEFINE q == [Idle EXCEPT !.kind = "activate", !.at = "acquire", !.binding = b,
                               !.version = bindings[b].version]
  <2>1. q.kind = "activate" /\ q.at = "acquire" /\ q.binding = b
    BY DEF Idle
  <2>2. Begin(r, q) /\ Started(b) /\ UNCHANGED <<store, slack, history, clock>>
    BY <1>5 DEF Activate, Started
  <2> HIDE DEF q
  <2> QED BY <1>1, <2>1, <2>2
<1>6. CASE Inbox(r, b)
  <2> DEFINE q == InSession("inbox", b)
  <2>1. q.kind = "inbox" /\ q.at = "acquire" /\ q.binding = b
    BY DEF InSession, Idle
  <2>2. Begin(r, q) /\ SessionValid(b) /\ UNCHANGED <<store, slack, history, clock>>
    BY <1>6, ZenonT(90) DEF Inbox
  <2> HIDE DEF q
  <2> QED BY <1>1, <1>2, <2>1, <2>2
<1>7. ASSUME NEW e \in Events, Api(r, b, e)
      PROVE  Alone(r) /\ Begins(r, b) /\ Started(b) /\ UNCHANGED <<store, slack, history, clock>>
  <2> DEFINE q == [InSession("read", b) EXCEPT !.delivery = e]
  <2>1. q.kind = "read" /\ q.at = "acquire" /\ q.binding = b
    BY DEF InSession, Idle
  <2>2. ASSUME NEW o, Begin(r, [q EXCEPT !.kind = "write", !.at = "admitOp", !.op = o])
        PROVE  Alone(r) /\ Begins(r, b)
    <3> DEFINE w == [q EXCEPT !.kind = "write", !.at = "admitOp", !.op = o]
    <3>1. w.kind = "write" /\ w.at = "admitOp" /\ w.binding = b
      BY DEF InSession, Idle
    <3> HIDE DEF w
    <3> QED BY <1>1, <2>2, <3>1 DEF w
  <2>3. ASSUME NEW o, Begin(r, [q EXCEPT !.kind = "replay", !.op = o])
        PROVE  Alone(r) /\ Begins(r, b)
    <3> DEFINE p == [q EXCEPT !.kind = "replay", !.op = o]
    <3>1. p.kind = "replay" /\ p.at = "acquire" /\ p.binding = b
      BY DEF InSession, Idle
    <3> HIDE DEF p
    <3> QED BY <1>1, <2>3, <3>1 DEF p
  <2>4. SessionValid(b) /\ UNCHANGED <<store, slack, history, clock>>
    BY <1>7 DEF Api
  <2>5. \/ Begin(r, q)
        \/ \E o \in OpIds : \/ Begin(r, [q EXCEPT !.kind = "write", !.at = "admitOp", !.op = o])
                            \/ Begin(r, [q EXCEPT !.kind = "replay", !.op = o])
    BY <1>7 DEF Api
  <2> HIDE DEF q
  <2> QED BY <1>1, <1>2, <2>1, <2>2, <2>3, <2>4, <2>5
<1> QED BY <1>3, <1>4, <1>5, <1>6, <1>7 DEF Request

\* Only a step of its own, or a restart, moves a handler.
LEMMA Turns ==
  ASSUME TypeOK, Next, NEW r \in Requests, reqs'[r] # reqs[r]
  PROVE  Restart \/ Proceed(r) \/ StoreFails(r) \/ \E b \in Bindings : Request(r, b)
<1>1. ASSUME NEW x \in Requests, Proceed(x) \/ StoreFails(x) PROVE Alone(x)
  BY <1>1, StepMoves DEF MovesOn
<1>2. ASSUME NEW x \in Requests, NEW b \in Bindings, Request(x, b) PROVE Alone(x)
  BY <1>2, RequestBegins, ZenonT(90)
<1>3. ASSUME Tick \/ (\E b \in Bindings : Host(b)) \/ (\E e \in Events : Slack(e))
      PROVE  UNCHANGED reqs
  BY <1>3, ZenonT(90) DEF Tick, Host, Start, IssueSession, Disconnect, Ack,
     Slack, MintMention, MintLifecycle, ReceiveAgain, ReceiveLifecycle, ReceiveMention
<1> QED BY <1>1, <1>2, <1>3 DEF Next, Alone

\* A handler that moves and is still in progress has just begun or has followed
\* its graph.
LEMMA MovesOrBegins ==
  ASSUME TypeOK, Next, NEW r \in Requests, reqs'[r] # reqs[r], reqs'[r] # Idle
  PROVE  \/ Moves(r) /\ (Proceed(r) \/ StoreFails(r))
         \/ \E b \in Bindings : Begins(r, b) /\ Started(b)
<1>1. Restart => reqs'[r] = Idle
  BY DEF Restart
<1> QED BY <1>1, Turns, StepMoves, RequestBegins DEF MovesOn

\* A failing store only ends a handler or leaves its write without an outcome.
LEMMA FailsApart ==
  ASSUME TypeOK, NEW r \in Requests, StoreFails(r), reqs'[r] # Idle
  PROVE  reqs'[r].at = "unknown"
<1> ReqsTyped
  BY DEF TypeOK
<1>1. Done(r) => reqs'[r] = Idle
  BY Ended
<1> QED BY <1>1, GivenUp DEF StoreFails

\* The action of a handler that stands at the given step.
LEMMA ActionAt ==
  ASSUME NEW r \in Requests, Proceed(r)
  PROVE  /\ reqs[r].at = "consume" => Consume(r)
         /\ reqs[r].at = "fence" => FenceExchange(r)
         /\ reqs[r].at = "exchange" => Exchange(r)
         /\ reqs[r].at = "admitOp" => AdmitOperation(r)
         /\ reqs[r].at = "acquire" => Acquire(r)
         /\ reqs[r].at = "admitRefresh" => AdmitRefresh(r)
         /\ reqs[r].at = "refresh" => Refresh(r)
         /\ reqs[r].at = "call" => Call(r)
<1>1. /\ Confirm(r) => reqs[r].at = "confirm"
      /\ Consume(r) => reqs[r].at = "consume"
      /\ FailBinding(r) => reqs[r].at \in {"cancel", "reject"}
      /\ FenceExchange(r) => reqs[r].at = "fence"
      /\ Exchange(r) => reqs[r].at = "exchange"
      /\ StoreGrant(r) => reqs[r].at = "store"
  BY DEF Confirm, Consume, FailBinding, FenceExchange, Exchange, StoreGrant
<1>2. /\ AdmitOperation(r) => reqs[r].at = "admitOp"
      /\ Acquire(r) => reqs[r].at = "acquire"
      /\ AdmitRefresh(r) => reqs[r].at = "admitRefresh"
      /\ Refresh(r) => reqs[r].at = "refresh"
      /\ Refreshed(r) => reqs[r].at = "refreshed"
  BY ZenonT(90) DEF AdmitOperation, Acquire, AdmitRefresh, Refresh, Refreshed
<1>3. /\ AdmitMembers(r) => reqs[r].at = "members"
      /\ Members(r) => reqs[r].at = "membersCall"
      /\ AdmitCall(r) => reqs[r].at = "membersDone"
      /\ Call(r) => reqs[r].at = "call"
      /\ Leave(r) => reqs[r].at = "leave"
  BY ZenonT(90) DEF AdmitMembers, Members, AdmitCall, Call, Leave
<1>4. /\ OutcomeUnknown(r) => reqs[r].at = "unknown"
      /\ ActivateBinding(r) \/ CompleteOperation(r) \/ Answer(r) => reqs[r].at = "finish"
  BY DEF OutcomeUnknown, ActivateBinding, CompleteOperation, Answer
<1> QED BY <1>1, <1>2, <1>3, <1>4 DEF Proceed, CallbackStep, GrantStep

-----------------------------------------------------------------------------
(* Bindings that were started *)

\* A binding that was started keeps its channel, its version never falls, and in
\* one version it goes on being active under one consent.
BindingKept(b) ==
    /\ bindings'[b].status # "none"
    /\ bindings'[b].team = bindings[b].team /\ bindings'[b].channel = bindings[b].channel
    /\ bindings'[b].version >= bindings[b].version
    /\ bindings[b].status = "active" /\ bindings'[b].version = bindings[b].version =>
          bindings'[b].status = "active" /\ bindings'[b].authorizedAt = bindings[b].authorizedAt

LEMMA StartedKept ==
  ASSUME TypeOK, Next, NEW b \in Bindings, Started(b)
  PROVE  BindingKept(b)
<1>0. bindings \in [Bindings -> BindingRecords] /\ bindings[b] \in BindingRecords
      /\ bindings[b].version \in Nat /\ bindings[b].status # "none"
  BY DEF TypeOK, BindingsTyped, BindingRecords, Started
<1> USE DEF BindingKept
<1>1. UNCHANGED bindings => BindingKept(b)
  BY <1>0
<1>2. ASSUME NEW x \in Bindings, NEW t \in Teams, NEW c \in Channels, Start(x, t, c)
      PROVE  BindingKept(b)
  BY <1>0, <1>2 DEF Start
<1>4. ASSUME NEW x \in Bindings, IssueSession(x) PROVE BindingKept(b)
  BY <1>0, <1>4 DEF IssueSession, BindingRecords
<1>5. ASSUME NEW x \in Bindings, Disconnect(x) PROVE BindingKept(b)
  BY <1>0, <1>5 DEF Disconnect, BindingRecords
<1>6. ASSUME NEW r \in Requests, FailBinding(r) PROVE BindingKept(b)
  BY <1>0, <1>6 DEF FailBinding, BindingRecords
<1>7. ASSUME NEW r \in Requests, StoreGrant(r) PROVE BindingKept(b)
  BY <1>0, <1>7, SMTT(60) DEF StoreGrant, BindingRecords
<1>8. ASSUME NEW r \in Requests, ActivateBinding(r) PROVE BindingKept(b)
  BY <1>0, <1>8 DEF ActivateBinding, BindingRecords
<1>9. ASSUME NEW e \in Events, ReceiveLifecycle(e) PROVE BindingKept(b)
  <2>1. \/ bindings'[b] = bindings[b]
        \/ bindings'[b] = [bindings[b] EXCEPT !.status = "revoked", !.authorizedAt = sent[e].at,
                                              !.version = @ + 1, !.session = 0]
    BY <1>9 DEF ReceiveLifecycle
  <2>2. CASE bindings'[b] = bindings[b]
    BY <1>0, <2>2
  <2>3. CASE bindings'[b] = [bindings[b] EXCEPT !.status = "revoked", !.authorizedAt = sent[e].at,
                                                !.version = bindings[b].version + 1, !.session = 0]
    <3>1. /\ bindings'[b].status = "revoked" /\ bindings'[b].team = bindings[b].team
          /\ bindings'[b].channel = bindings[b].channel
          /\ bindings'[b].version = bindings[b].version + 1
      BY <1>0, <2>3 DEF BindingRecords
    <3> QED BY <1>0, <3>1
  <2> QED BY <2>1, <2>2, <2>3, ZenonT(90)
<1> QED BY <1>1, <1>2, <1>4, <1>5, <1>6, <1>7, <1>8, <1>9, BindingsFrame DEF BindingsChange

-----------------------------------------------------------------------------
(* Consents *)

\* How the transaction of b may change.
TxChange(b) ==
    \/ txs'[b] = txs[b]
    \/ ~Started(b) /\ Started(b)' /\ txs'[b].status = "pending" /\ UNCHANGED history
    \/ /\ txs[b].status = "pending" /\ txs'[b].status = "consenting"
       /\ txs'[b].startedAt = txs[b].startedAt /\ UNCHANGED history
    \/ /\ txs[b].status = "consenting" /\ txs'[b].status = "consumed"
       /\ txs'[b].startedAt = txs[b].startedAt

LEMMA TxChanges ==
  ASSUME TypeOK, Next, NEW b \in Bindings
  PROVE  TxChange(b)
<1>0. txs \in [Bindings -> TxRecords] /\ bindings \in [Bindings -> BindingRecords]
  BY DEF TypeOK, BindingsTyped
<1>1. ASSUME NEW x \in Bindings, NEW t \in Teams, NEW c \in Channels, Start(x, t, c)
      PROVE  TxChange(b)
  <2>1. /\ bindings[x].status = "none" /\ UNCHANGED history
        /\ txs' = [txs EXCEPT ![x] = [status |-> "pending", startedAt |-> clock]]
        /\ bindings' = [bindings EXCEPT ![x] =
              [NoBinding EXCEPT !.status = "pending_consent", !.team = t, !.channel = c,
                                !.version = 1]]
    BY <1>1 DEF Start
  <2>2. bindings'[x].status = "pending_consent"
    BY <1>0, <2>1 DEF NoBinding
  <2> QED BY <1>0, <2>1, <2>2 DEF TxChange, Started
<1>2. ASSUME NEW r \in Requests, Confirm(r) PROVE TxChange(b)
  BY <1>0, <1>2 DEF Confirm, TxRecords, TxChange
<1>3. ASSUME NEW r \in Requests, Consume(r) PROVE TxChange(b)
  BY <1>0, <1>3 DEF Consume, TxRecords, TxChange
<1>4. UNCHANGED txs => TxChange(b)
  BY DEF TxChange
<1> QED BY <1>1, <1>2, <1>3, <1>4, TxsFrame DEF TxsChange

LEMMA NamedStep == TypeOK /\ NamedAreStarted /\ [Next]_vars => NamedAreStarted'
<1> SUFFICES ASSUME TypeOK, NamedAreStarted, [Next]_vars PROVE NamedAreStarted'
  OBVIOUS
<1>1. CASE UNCHANGED vars
  BY <1>1 DEF NamedAreStarted, Started, vars, store
<1>2. CASE Next
  <2>kept. \A b \in Bindings : Started(b) => Started(b)'
    BY <1>2, StartedKept DEF BindingKept, Started
  <2>type. TypeOK' /\ \A r \in Requests : reqs'[r] # Idle => reqs'[r].binding \in Bindings
    BY <1>2, TypeStep DEF TypeOK, ReqsTyped
  <2>1. ASSUME NEW r \in Requests, reqs'[r] # Idle PROVE Started(reqs[r].binding)'
    <3>1. CASE reqs'[r] = reqs[r]
      BY <2>1, <2>kept, <2>type, <3>1 DEF NamedAreStarted, Started
    <3>2. CASE Moves(r)
      <4>1. reqs[r] # Idle /\ reqs'[r].binding = reqs[r].binding
        BY <3>2, NotIdle DEF Moves, Flows, Same
      <4> QED BY <2>1, <2>kept, <2>type, <4>1 DEF NamedAreStarted, Started
    <3>3. ASSUME NEW b \in Bindings, Begins(r, b), Started(b) PROVE Started(reqs[r].binding)'
      BY <2>kept, <3>3 DEF Begins, Started
    <3> QED BY <1>2, <2>1, <3>1, <3>2, <3>3, MovesOrBegins
  <2>2. ASSUME NEW b \in Bindings, txs'[b].status # "none" PROVE Started(b)'
    <3>1. TxChange(b)
      BY <1>2, TxChanges
    <3> QED BY <2>2, <2>kept, <3>1 DEF TxChange, NamedAreStarted
  <2> QED BY <2>1, <2>2 DEF NamedAreStarted
<1> QED BY <1>1, <1>2

LEMMA NamedStarted == Spec => []NamedAreStarted
<1>1. Init => NamedAreStarted
  BY DEF Init, NamedAreStarted, NoTx
<1> QED BY <1>1, NamedStep, TypeCorrect, PTL DEF Spec

LEMMA ExchangesChange ==
  ASSUME TypeOK, Next, NEW b \in Bindings, exchanges'[b] # exchanges[b]
  PROVE  \E r \in Requests : /\ Exchange(r) /\ reqs[r].binding = b
                             /\ exchanges'[b] = exchanges[b] + 1
<1>0. exchanges \in [Bindings -> Nat]
  BY DEF TypeOK, HistoryTyped
<1>1. UNCHANGED exchanges \/ \E r \in Requests : Exchange(r)
  <2>1. UNCHANGED history => UNCHANGED exchanges
    BY ZenonT(90) DEF history
  <2>2. ASSUME NEW r \in Requests, Refresh(r) \/ Call(r) PROVE UNCHANGED exchanges
    BY <2>2, ZenonT(90) DEF Refresh, Call
  <2>3. ASSUME NEW e \in Events, ReceiveAgain(e) \/ ReceiveLifecycle(e) \/ ReceiveMention(e)
        PROVE  UNCHANGED exchanges
    BY <2>3 DEF ReceiveAgain, ReceiveLifecycle, ReceiveMention
  <2> QED BY <2>1, <2>2, <2>3, HistoryFrame DEF HistoryChange
<1>2. PICK r \in Requests : Exchange(r)
  BY <1>1
<1>3. exchanges' = [exchanges EXCEPT ![reqs[r].binding] = @ + 1]
  BY <1>2 DEF Exchange
<1> QED BY <1>0, <1>2, <1>3

\* Spending moves on from consume to fence to exchange.
LEMMA SpendingMoves ==
  ASSUME TypeOK, Next, NEW r \in Requests, Spending(r)', reqs'[r] # reqs[r]
  PROVE  /\ Alone(r) /\ reqs'[r].binding = reqs[r].binding /\ reqs[r] # Idle
         /\ Consume(r) \/ (Spending(r) /\ FenceExchange(r))
<1>1. reqs'[r] # Idle /\ reqs'[r].at \in {"fence", "exchange"}
  BY DEF Spending, Idle
<1>2. Moves(r) /\ (Proceed(r) \/ StoreFails(r))
  BY <1>1, MovesOrBegins DEF Begins
<1>3. Proceed(r)
  BY <1>1, <1>2, FailsApart
<1>4. reqs'[r].binding = reqs[r].binding /\ reqs[r].at \in {"consume", "fence"}
  BY <1>1, <1>2 DEF Moves, Same, Flows
<1>5. Alone(r)
  BY <1>3, StepMoves DEF MovesOn
<1> QED BY <1>3, <1>4, <1>5, ActionAt, NotIdle DEF Spending

LEMMA ConsentStep ==
  TypeOK /\ NamedAreStarted /\ ConsentSpent /\ [Next]_vars => ConsentSpent'
<1> SUFFICES ASSUME TypeOK, NamedAreStarted, ConsentSpent, [Next]_vars PROVE ConsentSpent'
  OBVIOUS
<1>0. /\ txs \in [Bindings -> TxRecords] /\ exchanges \in [Bindings -> Nat]
      /\ \A r \in Requests : Spending(r) => reqs[r] # Idle /\ reqs[r].binding \in Bindings
  BY NotIdle DEF TypeOK, HistoryTyped, ReqsTyped, Spending
<1>1. CASE UNCHANGED vars
  BY <1>1 DEF ConsentSpent, Spending, vars, store, history
<1>2. CASE Next
  <2>1. ASSUME NEW b \in Bindings, exchanges'[b] # exchanges[b]
        PROVE  \E r \in Requests : /\ Spending(r) /\ reqs[r].binding = b
                                   /\ reqs'[r] # reqs[r] /\ ~Spending(r)'
                                   /\ txs' = txs
    <3>1. PICK r \in Requests : Exchange(r) /\ reqs[r].binding = b
      BY <1>2, <2>1, ExchangesChange
    <3>2. reqs[r].at = "exchange" /\ txs' = txs
      BY <3>1 DEF Exchange, store
    <3>3. reqs'[r] = Idle \/ Flows(reqs[r].kind, "exchange", reqs'[r].at)
      BY <3>1, <3>2, StepMoves DEF Proceed, CallbackStep, MovesOn, Moves
    <3>4. reqs'[r].at \notin {"fence", "exchange"}
      BY <3>3 DEF Flows, Idle
    <3> QED BY <3>1, <3>2, <3>4 DEF Spending
  <2>2. ASSUME NEW r \in Requests, Spending(r)'
        PROVE  txs'[reqs'[r].binding].status = "consumed" /\ exchanges'[reqs'[r].binding] = 0
    <3> DEFINE b == reqs[r].binding
    <3>1. CASE reqs'[r] = reqs[r]
      <4>1. /\ Spending(r) /\ b \in Bindings /\ Started(b)
            /\ txs[b].status = "consumed" /\ exchanges[b] = 0
        BY <1>0, <2>2, <3>1 DEF Spending, NamedAreStarted, ConsentSpent
      <4>2. TxChange(b)
        BY <1>2, <4>1, TxChanges
      <4>3. txs'[b].status = "consumed"
        BY <4>1, <4>2 DEF TxChange
      <4>4. exchanges'[b] = exchanges[b]
        BY <2>1, <3>1, <4>1 DEF ConsentSpent
      <4> QED BY <3>1, <4>1, <4>3, <4>4
    <3>2. CASE reqs'[r] # reqs[r]
      <4>1. /\ reqs'[r].binding = b /\ b \in Bindings
            /\ Consume(r) \/ (Spending(r) /\ FenceExchange(r))
        BY <1>2, <2>2, <3>2, SpendingMoves DEF TypeOK, ReqsTyped
      <4>2. CASE Consume(r)
        <5>1. /\ txs[b].status = "consenting" /\ txs' = [txs EXCEPT ![b].status = "consumed"]
              /\ UNCHANGED history
          <6>1. Done(r) => reqs'[r].at = "idle"
            BY Ended DEF TypeOK, Idle
          <6> QED BY <2>2, <4>2, <6>1 DEF Consume, Spending
        <5>2. txs'[b].status = "consumed"
          BY <1>0, <4>1, <5>1 DEF TxRecords
        <5> QED BY <4>1, <5>1, <5>2 DEF ConsentSpent, history
      <4>3. CASE Spending(r) /\ FenceExchange(r)
        BY <4>1, <4>3 DEF FenceExchange, ConsentSpent, store, history
      <4> QED BY <4>1, <4>2, <4>3
    <3> QED BY <3>1, <3>2
  <2>3. ASSUME NEW r \in Requests, NEW x \in Requests, Spending(r)', Spending(x)',
               reqs'[r].binding = reqs'[x].binding, r # x
        PROVE  FALSE
    <3>1. ASSUME NEW u \in Requests, NEW v \in Requests, u # v, Spending(u)', Spending(v)',
                 reqs'[u].binding = reqs'[v].binding, reqs'[u] # reqs[u]
          PROVE  FALSE
      <4>1. /\ Alone(u) /\ reqs'[u].binding = reqs[u].binding
            /\ Consume(u) \/ Spending(u)
        BY <1>2, <3>1, SpendingMoves
      <4>2. reqs'[v] = reqs[v] /\ Spending(v) /\ reqs[u].binding = reqs[v].binding
        BY <3>1, <4>1 DEF Alone, Spending
      <4>3. Consume(u) => txs[reqs[u].binding].status = "consenting"
        <5>1. Done(u) => reqs'[u].at = "idle"
          BY Ended DEF TypeOK, Idle
        <5> QED BY <3>1, <5>1 DEF Consume, Spending
      <4> QED BY <3>1, <4>1, <4>2, <4>3 DEF ConsentSpent
    <3>2. reqs'[r] = reqs[r] /\ reqs'[x] = reqs[x]
      BY <2>3, <3>1
    <3> QED BY <2>3, <3>2 DEF ConsentSpent, Spending
  <2>4. ASSUME NEW b \in Bindings, txs'[b].status # "consumed" PROVE exchanges'[b] = 0
    <3>1. TxChange(b)
      BY <1>2, TxChanges
    <3>2. txs[b].status # "consumed"
      BY <2>4, <3>1 DEF TxChange, NamedAreStarted
    <3>3. exchanges'[b] = exchanges[b]
      BY <2>1, <3>2 DEF ConsentSpent
    <3> QED BY <3>2, <3>3 DEF ConsentSpent
  <2> QED BY <2>2, <2>3, <2>4 DEF ConsentSpent
<1> QED BY <1>1, <1>2

LEMMA ExchangedOnceStep ==
  TypeOK /\ ConsentSpent /\ ConsentExchangedOnce /\ [Next]_vars => ConsentExchangedOnce'
<1> SUFFICES ASSUME TypeOK, ConsentSpent, ConsentExchangedOnce, [Next]_vars, NEW b \in Bindings
             PROVE  exchanges'[b] <= 1
  BY DEF ConsentExchangedOnce
<1>1. exchanges'[b] = exchanges[b] => exchanges'[b] <= 1
  BY DEF ConsentExchangedOnce
<1>2. ASSUME Next, exchanges'[b] # exchanges[b] PROVE exchanges'[b] <= 1
  <2>1. PICK r \in Requests : /\ Exchange(r) /\ reqs[r].binding = b
                              /\ exchanges'[b] = exchanges[b] + 1
    BY <1>2, ExchangesChange
  <2>2. exchanges[b] = 0
    BY <2>1 DEF Exchange, ConsentSpent, Spending
  <2> QED BY <2>1, <2>2
<1> QED BY <1>1, <1>2 DEF vars, history

\* However often and from however many browsers a callback is repeated, over any
\* number of restarts, the code of a consent is redeemed at most once.
THEOREM ConsentsExchangedOnce == Spec => []ConsentExchangedOnce
<1>1. Init => ConsentSpent /\ ConsentExchangedOnce
  BY DEF Init, ConsentSpent, ConsentExchangedOnce, Spending, Idle
<1> QED BY <1>1, ConsentStep, ExchangedOnceStep, NamedStarted, TypeCorrect, PTL DEF Spec

-----------------------------------------------------------------------------
(* Operations and posts *)

\* How operation o of b may change.
OpChange(b, o) ==
    \/ operations'[b][o] = operations[b][o]
    \/ /\ operations[b][o].status = "none" /\ operations'[b][o].status = "running"
       /\ \E r \in Requests : /\ reqs[r].at = "admitOp" /\ AdmitOperation(r)
                              /\ reqs[r].binding = b /\ reqs[r].op = o
    \/ operations[b][o].status = "running" /\ operations'[b][o].status = "outcome_unknown"
    \/ /\ operations[b][o].status = "running" /\ operations'[b][o].status = "completed"
       /\ \E r \in Requests : /\ reqs[r].at = "finish" /\ reqs[r].kind = "write"
                              /\ reqs[r].binding = b /\ reqs[r].op = o
                              /\ UNCHANGED posts

\* Operation y of x is replaced by q, or its status is set to v.
OpPut(x, y, q) == operations' = [operations EXCEPT ![x][y] = q]
OpSet(x, y, v) == operations' = [operations EXCEPT ![x][y].status = v]

LEMMA StatusSet ==
  ASSUME NEW op \in OpRecords, NEW v
  PROVE  [op EXCEPT !.status = v].status = v
BY DEF OpRecords

\* Replacing an operation, or setting its status, leaves the others alone.
LEMMA OpPutIs ==
  ASSUME TypeOK, NEW b \in Bindings, NEW o \in OpIds, NEW x, NEW y, NEW q, OpPut(x, y, q),
         operations'[b][o] # operations[b][o]
  PROVE  b = x /\ o = y /\ operations'[b][o] = q
<1>0. operations \in [Bindings -> [OpIds -> OpRecords]]
  BY DEF TypeOK
<1> QED BY <1>0 DEF OpPut

LEMMA OpSetIs ==
  ASSUME TypeOK, NEW b \in Bindings, NEW o \in OpIds, NEW x, NEW y, NEW v, OpSet(x, y, v),
         operations'[b][o] # operations[b][o]
  PROVE  b = x /\ o = y /\ operations'[b][o].status = v
<1>0. operations \in [Bindings -> [OpIds -> OpRecords]] /\ operations[b][o] \in OpRecords
  BY DEF TypeOK
<1>1. b = x /\ o = y /\ operations'[b][o] = [operations[b][o] EXCEPT !.status = v]
  BY <1>0, ZenonT(90) DEF OpSet
<1> QED BY <1>0, <1>1, StatusSet

LEMMA OpChanges ==
  ASSUME TypeOK, Next, NEW b \in Bindings, NEW o \in OpIds
  PROVE  OpChange(b, o)
<1>1. ASSUME NEW r \in Requests, AdmitOperation(r), operations'[b][o] # operations[b][o]
      PROVE  OpChange(b, o)
  <2> DEFINE q == [status |-> "running", delivery |-> reqs[r].delivery]
  <2>1. /\ reqs[r].at = "admitOp"
        /\ operations[reqs[r].binding][reqs[r].op].status = "none"
        /\ OpPut(reqs[r].binding, reqs[r].op, q)
    BY <1>1 DEF AdmitOperation, OpPut
  <2>2. q.status = "running"
    BY ZenonT(90)
  <2> HIDE DEF q
  <2> QED BY <1>1, OpPutIs, <2>1, <2>2 DEF OpChange
<1>2. ASSUME NEW r \in Requests, OutcomeUnknown(r), operations'[b][o] # operations[b][o]
      PROVE  OpChange(b, o)
  <2>1. /\ operations[reqs[r].binding][reqs[r].op].status = "running"
        /\ OpSet(reqs[r].binding, reqs[r].op, "outcome_unknown")
    BY <1>2, ZenonT(90) DEF OutcomeUnknown, OpSet
  <2> QED BY <1>2, OpSetIs, <2>1 DEF OpChange
<1>3. ASSUME NEW r \in Requests, CompleteOperation(r), operations'[b][o] # operations[b][o]
      PROVE  OpChange(b, o)
  <2>1. /\ reqs[r].at = "finish" /\ reqs[r].kind = "write" /\ UNCHANGED history
        /\ operations[reqs[r].binding][reqs[r].op].status = "running"
        /\ OpSet(reqs[r].binding, reqs[r].op, "completed")
    BY <1>3 DEF CompleteOperation, OpSet
  <2> QED BY <1>3, OpSetIs, <2>1 DEF OpChange, history
<1>4. CASE Restart
  <2>1. operations'[b][o] = RecoveredOp(operations[b][o])
    BY <1>4 DEF Restart
  <2>2. operations[b][o] \in OpRecords
    BY DEF TypeOK
  <2> QED BY <2>1, <2>2 DEF RecoveredOp, OpRecords, OpChange
<1>5. operations'[b][o] = operations[b][o] => OpChange(b, o)
  BY DEF OpChange
<1> QED BY <1>1, <1>2, <1>3, <1>4, <1>5, OperationsFrame DEF OperationsChange

LEMMA PostsChange ==
  ASSUME TypeOK, Next, NEW b \in Bindings, NEW o \in OpIds, posts'[b][o] # posts[b][o]
  PROVE  \E r \in Requests : /\ Call(r) /\ reqs[r].kind = "write"
                             /\ reqs[r].binding = b /\ reqs[r].op = o
                             /\ posts'[b][o] = posts[b][o] + 1
<1>0. posts \in [Bindings -> [OpIds -> Nat]]
  BY DEF TypeOK, HistoryTyped
<1>1. UNCHANGED posts \/ \E r \in Requests : Call(r)
  <2>1. UNCHANGED history => UNCHANGED posts
    BY ZenonT(90) DEF history
  <2>2. ASSUME NEW r \in Requests, Refresh(r) \/ Exchange(r) PROVE UNCHANGED posts
    BY <2>2, ZenonT(90) DEF Refresh, Exchange
  <2>3. ASSUME NEW e \in Events, ReceiveAgain(e) \/ ReceiveLifecycle(e) \/ ReceiveMention(e)
        PROVE  UNCHANGED posts
    BY <2>3 DEF ReceiveAgain, ReceiveLifecycle, ReceiveMention
  <2> QED BY <2>1, <2>2, <2>3, HistoryFrame DEF HistoryChange
<1>2. PICK r \in Requests : Call(r)
  BY <1>1
<1>3. /\ reqs[r].kind = "write"
      /\ posts' = [posts EXCEPT ![reqs[r].binding][reqs[r].op] = @ + 1]
  BY <1>2 DEF Call
<1> QED BY <1>0, <1>2, <1>3

\* A write comes to work on its operation by admitting it, and then follows the
\* graph.
LEMMA WorksMoves ==
  ASSUME TypeOK, Next, NEW r \in Requests, NEW b \in Bindings, NEW o \in OpIds,
         Works(r, b, o)', reqs'[r] # reqs[r]
  PROVE  /\ Alone(r)
         /\ \/ /\ AdmitOperation(r) /\ reqs'[r].at = "acquire"
               /\ operations[b][o].status = "none" /\ operations'[b][o].status = "running"
            \/ /\ Works(r, b, o) /\ Flows("write", reqs[r].at, reqs'[r].at)
               /\ reqs[r].at = "call" /\ reqs'[r].at = "leave" => Call(r)
<1>1. /\ reqs'[r].kind = "write" /\ reqs'[r].binding = b /\ reqs'[r].op = o
      /\ reqs'[r] # Idle /\ reqs'[r].at # "admitOp"
  BY DEF Works, Posting, Posted, Idle
<1>2. Moves(r) /\ (Proceed(r) \/ StoreFails(r))
  BY <1>1, MovesOrBegins DEF Begins
<1>3. Alone(r)
  BY <1>2, StepMoves DEF MovesOn
<1>4. /\ reqs[r].kind = "write" /\ reqs[r].binding = b /\ reqs[r].op = o
      /\ Flows("write", reqs[r].at, reqs'[r].at)
  BY <1>1, <1>2 DEF Moves, Same
<1>5. reqs[r].at = "admitOp" \/ Works(r, b, o)
  <2>1. reqs'[r].at \in Posting \union Posted \union {"unknown"}
    BY DEF Works
  <2> QED BY <1>4, <2>1 DEF Flows, Works, Posting, Posted
<1>6. CASE reqs[r].at = "admitOp"
  <2>1. reqs'[r].at = "acquire"
    BY <1>4, <1>6 DEF Flows
  <2>2. AdmitOperation(r)
    BY <1>1, <1>2, <1>6, <2>1, FailsApart, ActionAt
  <2>3. ~Done(r)
    BY <1>1, Ended DEF TypeOK
  <2>4. /\ operations[b][o].status = "none"
        /\ operations' = [operations EXCEPT ![b][o] =
                             [status |-> "running", delivery |-> reqs[r].delivery]]
    BY <1>4, <2>2, <2>3 DEF AdmitOperation
  <2>5. operations'[b][o] = [status |-> "running", delivery |-> reqs[r].delivery]
    BY <2>4 DEF TypeOK
  <2> QED BY <1>3, <2>1, <2>2, <2>4, <2>5
<1>7. CASE Works(r, b, o) /\ reqs[r].at # "admitOp"
  BY <1>1, <1>2, <1>3, <1>4, <1>7, FailsApart, ActionAt
<1> QED BY <1>5, <1>6, <1>7

LEMMA WorkedStep ==
  TypeOK /\ OperationsWorked /\ [Next]_vars => OperationsWorked'
<1> SUFFICES ASSUME TypeOK, OperationsWorked, [Next]_vars,
                    NEW b \in Bindings, NEW o \in OpIds
             PROVE  /\ operations'[b][o].status = "none" => posts'[b][o] = 0
                    /\ \A r \in Requests : Works(r, b, o)' =>
                          /\ operations'[b][o].status # "none"
                          /\ reqs'[r].at \in Posting => posts'[b][o] = 0
                          /\ reqs'[r].at \in Posted => posts'[b][o] = 1
                          /\ \A x \in Requests : Works(x, b, o)' => r = x
  BY DEF OperationsWorked
<1>worked. /\ operations[b][o].status = "none" => posts[b][o] = 0
           /\ \A r \in Requests : Works(r, b, o) =>
                 /\ operations[b][o].status # "none"
                 /\ reqs[r].at \in Posting => posts[b][o] = 0
                 /\ reqs[r].at \in Posted => posts[b][o] = 1
                 /\ \A x \in Requests : Works(x, b, o) => r = x
  BY DEF OperationsWorked
<1>1. CASE UNCHANGED vars
  BY <1>1, <1>worked DEF Works, vars, store, history
<1>2. CASE Next
  <2>op. operations'[b][o].status = "none" => operations[b][o].status = "none"
    BY <1>2, OpChanges DEF OpChange
  <2>post. ASSUME posts'[b][o] # posts[b][o]
           PROVE  \E r \in Requests : /\ Works(r, b, o) /\ reqs[r].at = "call"
                                      /\ posts'[b][o] = posts[b][o] + 1 /\ reqs'[r].at # "call"
    <3>1. PICK r \in Requests : /\ Call(r) /\ reqs[r].kind = "write"
                                /\ reqs[r].binding = b /\ reqs[r].op = o
                                /\ posts'[b][o] = posts[b][o] + 1
      BY <1>2, <2>post, PostsChange
    <3>2. reqs[r].at = "call" /\ Works(r, b, o)
      BY <3>1 DEF Call, Works, Posting
    <3>3. MovesOn(r)
      BY <3>1, StepMoves DEF Proceed, GrantStep
    <3>4. reqs'[r].at # "call"
      BY <3>2, <3>3 DEF MovesOn, Moves, Flows, Idle
    <3> QED BY <3>1, <3>2, <3>4
  <2>1. operations'[b][o].status = "none" => posts'[b][o] = 0
    BY <1>worked, <2>op, <2>post
  <2>2. ASSUME NEW r \in Requests, Works(r, b, o)'
        PROVE  /\ operations'[b][o].status # "none"
               /\ reqs'[r].at \in Posting => posts'[b][o] = 0
               /\ reqs'[r].at \in Posted => posts'[b][o] = 1
    <3>1. CASE reqs'[r] = reqs[r]
      <4>1. Works(r, b, o)
        BY <2>2, <3>1 DEF Works
      <4>2. posts'[b][o] = posts[b][o]
        BY <1>worked, <2>post, <3>1, <4>1
      <4> QED BY <1>worked, <2>op, <3>1, <4>1, <4>2
    <3>2. CASE reqs'[r] # reqs[r]
      <4>1. CASE AdmitOperation(r) /\ reqs'[r].at = "acquire"
                 /\ operations[b][o].status = "none" /\ operations'[b][o].status = "running"
        <5>1. posts'[b][o] = 0
          BY <1>worked, <2>post, <4>1
        <5> QED BY <4>1, <5>1 DEF Posted
      <4>2. CASE /\ Works(r, b, o) /\ Flows("write", reqs[r].at, reqs'[r].at)
                 /\ reqs[r].at = "call" /\ reqs'[r].at = "leave" => Call(r)
        <5>1. CASE reqs[r].at # "call"
          <6>1. posts'[b][o] = posts[b][o]
            BY <1>worked, <2>post, <4>2, <5>1
          <6>2. /\ reqs'[r].at \in Posting => reqs[r].at \in Posting
                /\ reqs'[r].at \in Posted => reqs[r].at \in Posted
            <7>1. reqs[r].at # "admitOp"
              BY <4>2 DEF Works, Posting, Posted
            <7> QED BY <4>2, <5>1, <7>1 DEF Flows, Posting, Posted
          <6> QED BY <1>worked, <2>op, <4>2, <6>1, <6>2
        <5>2. CASE reqs[r].at = "call"
          <6>1. reqs'[r].at \in {"leave", "unknown"}
            BY <4>2, <5>2 DEF Flows
          <6>2. posts[b][o] = 0 /\ operations'[b][o].status # "none"
            BY <1>worked, <2>op, <4>2, <5>2 DEF Posting
          <6>3. ASSUME Call(r) PROVE posts'[b][o] = 1
            <7>1. reqs[r].kind = "write" /\ reqs[r].binding = b /\ reqs[r].op = o
              BY <4>2 DEF Works
            <7>2. posts' = [posts EXCEPT ![b][o] = @ + 1]
              BY <6>3, <7>1 DEF Call
            <7> QED BY <6>2, <7>2 DEF TypeOK, HistoryTyped
          <6> QED BY <4>2, <5>2, <6>1, <6>2, <6>3 DEF Posting, Posted
        <5> QED BY <5>1, <5>2
      <4> QED BY <1>2, <2>2, <3>2, <4>1, <4>2, WorksMoves
    <3> QED BY <3>1, <3>2
  <2>3. ASSUME NEW r \in Requests, NEW x \in Requests, Works(r, b, o)', Works(x, b, o)', r # x
        PROVE  FALSE
    <3>1. ASSUME NEW u \in Requests, NEW v \in Requests, u # v, Works(u, b, o)', Works(v, b, o)',
                 reqs'[u] # reqs[u]
          PROVE  FALSE
      <4>1. Alone(u) /\ (operations[b][o].status = "none" \/ Works(u, b, o))
        BY <1>2, <3>1, WorksMoves
      <4>2. Works(v, b, o)
        BY <3>1, <4>1 DEF Alone, Works
      <4> QED BY <1>worked, <3>1, <4>1, <4>2
    <3>2. reqs'[r] = reqs[r] /\ reqs'[x] = reqs[x]
      BY <2>3, <3>1
    <3>3. Works(r, b, o) /\ Works(x, b, o)
      BY <2>3, <3>2 DEF Works
    <3> QED BY <1>worked, <2>3, <3>3
  <2> QED BY <2>1, <2>2, <2>3
<1> QED BY <1>1, <1>2

LEMMA PostedStep ==
  TypeOK /\ OperationsWorked /\ PostedAtMostOnce /\ [Next]_vars => PostedAtMostOnce'
<1> SUFFICES ASSUME TypeOK, OperationsWorked, PostedAtMostOnce, [Next]_vars,
                    NEW b \in Bindings, NEW o \in OpIds
             PROVE  /\ posts'[b][o] <= 1
                    /\ operations'[b][o].status = "completed" => posts'[b][o] = 1
  BY DEF PostedAtMostOnce
<1>1. CASE UNCHANGED vars
  BY <1>1 DEF PostedAtMostOnce, vars, store, history
<1>2. CASE Next
  <2>1. CASE posts'[b][o] # posts[b][o]
    <3>1. PICK r \in Requests : /\ Call(r) /\ reqs[r].kind = "write"
                                /\ reqs[r].binding = b /\ reqs[r].op = o
                                /\ posts'[b][o] = posts[b][o] + 1
      BY <1>2, <2>1, PostsChange
    <3>2. posts[b][o] = 0
      BY <3>1 DEF Call, Works, Posting, OperationsWorked
    <3> QED BY <3>1, <3>2
  <2>2. CASE posts'[b][o] = posts[b][o]
    <3>1. ASSUME NEW r \in Requests, reqs[r].at = "finish", reqs[r].kind = "write",
                 reqs[r].binding = b, reqs[r].op = o
          PROVE  posts[b][o] = 1
      BY <3>1 DEF Works, Posted, OperationsWorked
    <3>2. OpChange(b, o)
      BY <1>2, OpChanges
    <3>3. operations'[b][o].status = "completed" =>
             operations[b][o].status = "completed" \/ posts[b][o] = 1
      BY <3>1, <3>2 DEF OpChange
    <3> QED BY <2>2, <3>3 DEF PostedAtMostOnce
  <2> QED BY <2>1, <2>2
<1> QED BY <1>1, <1>2

\* Under one operation id at most one message reaches Slack, for any number of
\* retries, parallel requests, lost answers and restarts, and whatever the relay
\* reports completed did reach it.
THEOREM OperationsPostedOnce == Spec => []PostedAtMostOnce
<1>1. Init => OperationsWorked /\ PostedAtMostOnce
  BY DEF Init, OperationsWorked, PostedAtMostOnce, Works, Idle, NoOp
<1> QED BY <1>1, WorkedStep, PostedStep, TypeCorrect, PTL DEF Spec

-----------------------------------------------------------------------------
(* Mentions *)

LEMMA SentKept ==
  ASSUME TypeOK, Next, NEW e \in Events, sent[e] # NoEvent
  PROVE  sent'[e] = sent[e]
<1>0. sent \in [Events -> EventRecords]
  BY DEF TypeOK, SlackTyped
<1>1. UNCHANGED slack => sent' = sent
  BY DEF slack
<1>2. ASSUME NEW r \in Requests, Exchange(r) PROVE sent' = sent
  BY <1>2 DEF Exchange
<1>3. ASSUME NEW x \in Events, NEW t \in Teams, NEW c \in Channels, MintMention(x, t, c)
      PROVE  sent'[e] = sent[e]
  <2>1. sent[x] = NoEvent /\ \E q : sent' = [sent EXCEPT ![x] = q]
    BY <1>3 DEF MintMention
  <2> QED BY <1>0, <2>1
<1>4. ASSUME NEW x \in Events, NEW t \in Teams, NEW bot \in BOOLEAN,
             NEW type \in {"app_uninstalled", "tokens_revoked"}, MintLifecycle(x, t, type, bot)
      PROVE  sent'[e] = sent[e]
  <2>1. sent[x] = NoEvent /\ \E q : sent' = [sent EXCEPT ![x] = q]
    BY <1>4 DEF MintLifecycle
  <2> QED BY <1>0, <2>1
<1> QED BY <1>1, <1>2, <1>3, <1>4, SlackFrame DEF SlackChange

\* Only a mention that arrives makes a delivery pending.
LEMMA PendingRecords ==
  ASSUME TypeOK, Next, NEW e \in Events, deliveries'[e].status = "pending",
         deliveries'[e] # deliveries[e]
  PROVE  /\ Arrives(e) /\ UNCHANGED <<bindings, sent>>
         /\ \E b \in Bindings :
               /\ Destinations(e) = {b}
               /\ deliveries'[e].binding = b /\ deliveries'[e].version = bindings[b].version
<1>0. deliveries \in [Events -> DeliveryRecords]
  BY DEF TypeOK
<1>1. Purged[e] \in {deliveries[e], NoDelivery} /\ NoDelivery.status # "pending"
  BY DEF Purged, NoDelivery
<1>2. ASSUME NEW b \in Bindings, NEW x \in Events, NEW outcome \in {"acknowledged", "denied"},
             Ack(b, x, outcome)
      PROVE  FALSE
  <2>1. deliveries' = [deliveries EXCEPT ![x].status = outcome]
    BY <1>2 DEF Ack
  <2>2. deliveries[x] \in DeliveryRecords
    BY <1>0
  <2>3. deliveries'[e] = deliveries[e] \/ deliveries'[e].status = outcome
    BY <1>0, <2>1, <2>2 DEF DeliveryRecords
  <2> QED BY <2>3
<1>3. ASSUME NEW x \in Events, ReceiveLifecycle(x) PROVE FALSE
  <2> DEFINE d == [NoDelivery EXCEPT !.status = "lifecycle", !.team = sent[x].team,
                                     !.occurredAt = sent[x].at, !.createdAt = clock]
  <2>1. d.status = "lifecycle"
    BY DEF NoDelivery
  <2>2. deliveries' = Purged \/ deliveries' = [Purged EXCEPT ![x] = d]
    BY <1>3 DEF ReceiveLifecycle
  <2> HIDE DEF d
  <2> QED BY <1>1, <2>1, <2>2 DEF Purged
<1>4. ASSUME NEW x \in Events, ReceiveMention(x)
      PROVE  /\ Arrives(e) /\ UNCHANGED <<bindings, sent>>
             /\ \E b \in Bindings :
                   /\ Destinations(e) = {b}
                   /\ deliveries'[e].binding = b /\ deliveries'[e].version = bindings[b].version
  <2>1. Arrives(x) /\ UNCHANGED <<bindings, sent>>
    BY <1>4 DEF ReceiveMention, slack
  <2>2. deliveries' # Purged
    BY <1>1
  <2>3. PICK b \in Bindings : /\ Destinations(x) = {b}
                              /\ deliveries' = [Purged EXCEPT ![x] =
                                   [status |-> "pending", team |-> sent[x].team, binding |-> b,
                                    version |-> bindings[b].version, occurredAt |-> sent[x].at,
                                    createdAt |-> clock]]
    BY <1>4, <2>2 DEF ReceiveMention
  <2>4. e = x
    BY <1>1, <2>3 DEF Purged
  <2>5. deliveries'[e].binding = b /\ deliveries'[e].version = bindings[b].version
    BY <2>3, <2>4 DEF Purged
  <2> QED BY <2>1, <2>3, <2>4, <2>5
<1> QED BY <1>2, <1>3, <1>4, DeliveriesFrame DEF DeliveriesChange

LEMMA MentionsStep ==
  /\ TypeOK /\ PendingKnown /\ MentionsReachTheirConsent /\ [Next]_vars
  => PendingKnown' /\ MentionsReachTheirConsent'
<1> SUFFICES ASSUME TypeOK, PendingKnown, MentionsReachTheirConsent, [Next]_vars
             PROVE  PendingKnown' /\ MentionsReachTheirConsent'
  OBVIOUS
<1>1. CASE UNCHANGED vars
  BY <1>1 DEF PendingKnown, MentionsReachTheirConsent, Started, vars, store, slack
<1>2. CASE Next
  <2>0. bindings \in [Bindings -> BindingRecords] /\ deliveries \in [Events -> DeliveryRecords]
    BY DEF TypeOK, BindingsTyped
  <2>1. ASSUME NEW e \in Events, deliveries'[e].status = "pending", deliveries'[e] = deliveries[e]
        PROVE  LET d == deliveries'[e]
                   b == bindings'[d.binding]
               IN  /\ sent'[e] # NoEvent /\ d.binding \in Bindings /\ b.status # "none"
                   /\ d.version <= b.version
                   /\ b.version = d.version =>
                         /\ b.status = "active"
                         /\ b.team = sent'[e].team /\ b.channel = sent'[e].channel
                         /\ sent'[e].at >= b.authorizedAt
    <3> DEFINE b == deliveries[e].binding
    <3>1. /\ sent[e] # NoEvent /\ b \in Bindings /\ Started(b)
          /\ deliveries[e].version <= bindings[b].version
          /\ bindings[b].version = deliveries[e].version =>
                /\ bindings[b].status = "active"
                /\ bindings[b].team = sent[e].team /\ bindings[b].channel = sent[e].channel
                /\ sent[e].at >= bindings[b].authorizedAt
      BY <2>1 DEF PendingKnown, MentionsReachTheirConsent
    <3>2. sent'[e] = sent[e] /\ BindingKept(b)
      BY <1>2, <3>1, SentKept, StartedKept
    <3>3. /\ bindings[b].version \in Nat /\ bindings'[b].version \in Nat
          /\ deliveries[e].version \in Nat
      BY <1>2, <2>0, <3>1, TypeStep DEF TypeOK, BindingsTyped, BindingRecords, DeliveryRecords
    <3> HIDE DEF b
    <3>4. /\ bindings'[b].version >= deliveries[e].version
          /\ bindings'[b].version = deliveries[e].version =>
                bindings[b].version = deliveries[e].version
                /\ bindings'[b].version = bindings[b].version
      BY <3>1, <3>2, <3>3 DEF BindingKept
    <3> QED BY <2>1, <3>1, <3>2, <3>3, <3>4 DEF BindingKept, b
  <2>2. ASSUME NEW e \in Events, deliveries'[e].status = "pending", deliveries'[e] # deliveries[e]
        PROVE  LET d == deliveries'[e]
                   b == bindings'[d.binding]
               IN  /\ sent'[e] # NoEvent /\ d.binding \in Bindings /\ b.status # "none"
                   /\ d.version <= b.version
                   /\ b.version = d.version =>
                         /\ b.status = "active"
                         /\ b.team = sent'[e].team /\ b.channel = sent'[e].channel
                         /\ sent'[e].at >= b.authorizedAt
    <3>1. /\ Arrives(e) /\ UNCHANGED <<bindings, sent>>
      BY <1>2, <2>2, PendingRecords
    <3>2. PICK b \in Bindings : /\ Destinations(e) = {b}
                                /\ deliveries'[e].binding = b
                                /\ deliveries'[e].version = bindings[b].version
      BY <1>2, <2>2, PendingRecords
    <3>3. bindings[b].version \in Nat
      BY <2>0 DEF BindingRecords
    <3>4. b \in Destinations(e)
      BY <3>2
    <3>5. /\ bindings[b].status = "active"
          /\ bindings[b].team = sent[e].team /\ bindings[b].channel = sent[e].channel
          /\ sent[e].at >= bindings[b].authorizedAt
      BY <3>4 DEF Destinations
    <3> QED BY <3>1, <3>2, <3>3, <3>5 DEF Arrives
  <2> QED BY <2>1, <2>2 DEF PendingKnown, MentionsReachTheirConsent, Started
<1> QED BY <1>1, <1>2

\* A mention waits for the destination that had consented when it was written,
\* and for that one only as long as its consent is the same.
THEOREM MentionsConsented == Spec => []MentionsReachTheirConsent
<1>1. Init => PendingKnown /\ MentionsReachTheirConsent
  BY DEF Init, PendingKnown, MentionsReachTheirConsent, NoDelivery
<1> QED BY <1>1, MentionsStep, TypeCorrect, PTL DEF Spec

-----------------------------------------------------------------------------
(* Refresh tokens *)

TeamOf(r) == bindings[reqs[r].binding].team

\* How the grant of t may change: only a new version is free of conditions.
GrantChange(t) ==
    \/ grants'[t] = grants[t]
    \/ grants'[t].version = grants[t].version + 1
    \/ /\ grants'[t].version = grants[t].version
       /\ \/ /\ grants[t].status = "active" /\ grants'[t].status = "refreshing"
             /\ \E r \in Requests : Acquire(r)
          \/ /\ grants[t].status = "refreshing" /\ grants'[t].status = "active"
             /\ \E r \in Requests : /\ AdmitRefresh(r) /\ reqs'[r] # reqs[r]
                                    /\ TeamOf(r) = t /\ reqs[r].held = grants[t].version
          \/ /\ grants[t].status = "refreshing" /\ grants'[t].status = "reconnect_required"
             /\ Restart \/ \E r \in Requests : reqs[r].at = "refreshed" /\ reqs'[r] # reqs[r]

LEMMA GrantPut ==
  ASSUME TypeOK, NEW t \in Teams, NEW u, NEW g, grants' = [grants EXCEPT ![u] = g],
         grants'[t] # grants[t]
  PROVE  t = u /\ grants'[t] = g
  BY DEF TypeOK, GrantsTyped

LEMMA GivesUp ==
  ASSUME TypeOK, NEW r \in Requests, GiveUp(r), reqs[r].at \in HeldSteps
  PROVE  reqs'[r] # reqs[r]
  BY AtAfter DEF TypeOK, HeldSteps

LEMMA GrantChanges ==
  ASSUME TypeOK, Next, NEW t \in Teams
  PROVE  GrantChange(t)
<1>0. grants \in [Teams -> GrantRecords] /\ grants[t] \in GrantRecords
  BY DEF TypeOK, GrantsTyped
<1>same. grants'[t] = grants[t] => GrantChange(t)
  BY DEF GrantChange
<1>1. ASSUME NEW r \in Requests, StoreGrant(r), grants'[t] # grants[t] PROVE GrantChange(t)
  <2> DEFINE u == TeamOf(r)
             g == [status |-> "active", version |-> grants[u].version + 1,
                   expiresAt |-> reqs[r].stamp + GrantLife, authorizedAt |-> clock]
  <2>1. grants' = [grants EXCEPT ![u] = g]
    BY <1>1 DEF StoreGrant, TeamOf
  <2>2. g.version = grants[u].version + 1
    OBVIOUS
  <2> HIDE DEF u, g
  <2>3. t = u /\ grants'[t] = g
    BY <1>1, <2>1, GrantPut
  <2> QED BY <2>2, <2>3 DEF GrantChange
<1>2. ASSUME NEW r \in Requests, Acquire(r), grants'[t] # grants[t] PROVE GrantChange(t)
  <2> DEFINE u == TeamOf(r)
  <2>1. grants[u].status = "active" /\ grants' = [grants EXCEPT ![u].status = "refreshing"]
    BY <1>2 DEF Acquire, TeamOf
  <2> HIDE DEF u
  <2>2. t = u /\ grants'[t] = [grants[t] EXCEPT !.status = "refreshing"]
    BY <1>0, <1>2, <2>1
  <2>3. grants'[t].status = "refreshing" /\ grants'[t].version = grants[t].version
    BY <1>0, <2>2 DEF GrantRecords
  <2> QED BY <1>2, <2>1, <2>2, <2>3, ZenonT(90) DEF GrantChange
<1>ends. ASSUME NEW r \in Requests, NEW s \in {"active", "reconnect_required"}, RotationEnds(r, s),
                grants'[t] # grants[t]
         PROVE  /\ t = TeamOf(r) /\ grants[t].version = reqs[r].held
                /\ grants[t].status = "refreshing"
                /\ grants'[t].status = s /\ grants'[t].version = grants[t].version
  <2> DEFINE u == TeamOf(r)
  <2>1. Rotating(r) /\ grants' = [grants EXCEPT ![u].status = s]
    BY <1>ends, ZenonT(90) DEF RotationEnds, TeamOf
  <2>2. grants[u].status = "refreshing" /\ grants[u].version = reqs[r].held
    BY <2>1 DEF Rotating, TeamOf
  <2> HIDE DEF u
  <2>3. t = u /\ grants'[t] = [grants[t] EXCEPT !.status = s]
    BY <1>0, <1>ends, <2>1
  <2>4. grants'[t].status = s /\ grants'[t].version = grants[t].version
    BY <1>0, <2>3 DEF GrantRecords
  <2> QED BY <2>2, <2>3, <2>4, ZenonT(90) DEF u
<1>3. ASSUME NEW r \in Requests, AdmitRefresh(r), grants'[t] # grants[t] PROVE GrantChange(t)
  <2>1. reqs[r].at = "admitRefresh" /\ RotationEnds(r, "active") /\ GiveUp(r)
    BY <1>3 DEF AdmitRefresh
  <2>2. reqs'[r] # reqs[r]
    BY <2>1, GivesUp DEF HeldSteps
  <2> QED BY <1>3, <1>ends, <2>1, <2>2 DEF GrantChange
<1>4. ASSUME NEW r \in Requests, Refreshed(r), grants'[t] # grants[t] PROVE GrantChange(t)
  <2> DEFINE u == TeamOf(r)
             g == [grants[u] EXCEPT !.status = "active", !.version = grants[u].version + 1,
                                    !.expiresAt = reqs[r].stamp + GrantLife]
  <2>0. reqs[r].at = "refreshed"
    BY <1>4, ZenonT(90) DEF Refreshed
  <2>1. \/ RotationEnds(r, "reconnect_required") /\ GiveUp(r)
        \/ grants' = [grants EXCEPT ![u] = g]
    BY <1>0, <1>4, ZenonT(90) DEF Refreshed, TeamOf
  <2>2. CASE RotationEnds(r, "reconnect_required") /\ GiveUp(r)
    <3>1. reqs'[r] # reqs[r]
      BY <2>0, <2>2, GivesUp DEF HeldSteps
    <3> QED BY <1>4, <1>ends, <2>0, <2>2, <3>1 DEF GrantChange
  <2>3. CASE grants' = [grants EXCEPT ![u] = g]
    <3>1. \A q \in GrantRecords : \A v, x :
             [q EXCEPT !.status = "active", !.version = v, !.expiresAt = x].version = v
      BY DEF GrantRecords
    <3>2. t = u /\ grants'[t] = g
      BY <1>4, <2>3, GrantPut
    <3>3. g.version = grants[t].version + 1
      BY <1>0, <3>1, <3>2
    <3> HIDE DEF g, u
    <3> QED BY <3>2, <3>3 DEF GrantChange
  <2> QED BY <2>1, <2>2, <2>3, ZenonT(90)
<1>5. ASSUME NEW e \in Events, ReceiveLifecycle(e), grants'[t] # grants[t] PROVE GrantChange(t)
  <2> DEFINE u == sent[e].team
             g == [grants[u] EXCEPT !.status = "revoked", !.version = grants[u].version + 1]
  <2>1. grants' = [grants EXCEPT ![u] = g]
    BY <1>0, <1>5 DEF ReceiveLifecycle
  <2>2. t = u /\ grants'[t] = g
    BY <1>5, <2>1, GrantPut
  <2>3. g.version = grants[t].version + 1
    BY <1>0, <2>2 DEF GrantRecords
  <2> HIDE DEF g, u
  <2> QED BY <2>2, <2>3 DEF GrantChange
<1>6. ASSUME Restart, grants'[t] # grants[t] PROVE GrantChange(t)
  <2>1. grants[t].status = "refreshing"
        /\ grants'[t] = [grants[t] EXCEPT !.status = "reconnect_required"]
    BY <1>6 DEF Restart, RecoveredGrant
  <2>2. grants'[t].status = "reconnect_required" /\ grants'[t].version = grants[t].version
    BY <1>0, <2>1 DEF GrantRecords
  <2> QED BY <1>6, <2>1, <2>2 DEF GrantChange
<1> QED BY <1>same, <1>1, <1>2, <1>3, <1>4, <1>5, <1>6, GrantsFrame DEF GrantsChange

LEMMA PresentedChange ==
  ASSUME TypeOK, Next, presented' # presented
  PROVE  \E r \in Requests :
            /\ Refresh(r) /\ UNCHANGED <<grants, bindings>> /\ reqs'[r] # reqs[r]
            /\ \A t \in Teams : presented'[t] = IF t = TeamOf(r)
                                                THEN presented[t] \union {reqs[r].held}
                                                ELSE presented[t]
<1>1. UNCHANGED history => UNCHANGED presented
  BY DEF history
<1>2. ASSUME NEW r \in Requests, Exchange(r) \/ Call(r) PROVE UNCHANGED presented
  BY <1>2, ZenonT(90) DEF Exchange, Call
<1>3. ASSUME NEW e \in Events, ReceiveAgain(e) \/ ReceiveLifecycle(e) \/ ReceiveMention(e)
      PROVE  UNCHANGED presented
  BY <1>3 DEF ReceiveAgain, ReceiveLifecycle, ReceiveMention
<1>4. PICK r \in Requests : Refresh(r)
  BY <1>1, <1>2, <1>3, HistoryFrame, ZenonT(90) DEF HistoryChange
<1>5. /\ UNCHANGED <<grants, bindings>> /\ reqs[r].at = "refresh"
      /\ presented' = [presented EXCEPT ![TeamOf(r)] = @ \union {reqs[r].held}]
  BY <1>4 DEF Refresh, store, TeamOf
<1>6. reqs'[r] # reqs[r]
  <2>1. MovesOn(r)
    BY <1>4, StepMoves DEF Proceed, GrantStep
  <2> QED BY <1>5, <2>1 DEF MovesOn, Moves, Flows, Idle
<1>7. \A t \in Teams : presented'[t] = IF t = TeamOf(r)
                                       THEN presented[t] \union {reqs[r].held}
                                       ELSE presented[t]
  BY <1>5 DEF TypeOK, HistoryTyped
<1> QED BY <1>4, <1>5, <1>6, <1>7

\* A handler comes to renew a grant by marking it, and then keeps the version it
\* has marked.
LEMMA RenewingMoves ==
  ASSUME TypeOK, Next, NEW r \in Requests, Renewing(r)', reqs'[r] # reqs[r]
  PROVE  /\ Alone(r) /\ reqs'[r].binding = reqs[r].binding /\ UNCHANGED bindings
         /\ \/ /\ reqs'[r].at = "admitRefresh" /\ UNCHANGED presented /\ reqs[r].at = "acquire"
               /\ reqs'[r].held = grants[TeamOf(r)].version
               /\ grants[TeamOf(r)].status = "active"
               /\ grants' = [grants EXCEPT ![TeamOf(r)].status = "refreshing"]
            \/ /\ reqs[r].at = "admitRefresh" /\ reqs'[r].at = "refresh"
               /\ reqs'[r].held = reqs[r].held /\ UNCHANGED <<grants, presented>>
            \/ /\ reqs[r].at = "refresh" /\ reqs'[r].at = "refreshed"
               /\ reqs'[r].held = reqs[r].held /\ UNCHANGED grants
<1>0. reqs \in [Requests -> RequestRecords] /\ reqs[r] \in RequestRecords
  BY DEF TypeOK, ReqsTyped
<1>1. reqs'[r] # Idle /\ reqs'[r].at \in {"admitRefresh", "refresh", "refreshed"}
  BY DEF Renewing, Idle
<1>2. Moves(r) /\ Proceed(r)
  BY <1>1, MovesOrBegins, FailsApart DEF Begins
<1>3. Alone(r) /\ reqs'[r].binding = reqs[r].binding
  BY <1>2, StepMoves DEF MovesOn, Moves, Same
<1>4. \/ reqs[r].at = "acquire" /\ reqs'[r].at = "admitRefresh"
      \/ reqs[r].at = "admitRefresh" /\ reqs'[r].at = "refresh"
      \/ reqs[r].at = "refresh" /\ reqs'[r].at = "refreshed"
  BY <1>1, <1>2 DEF Moves, Flows
<1>up. GiveUp(r) => reqs'[r].at \in {"idle", "unknown"}
  BY GivenUp DEF TypeOK, Idle
<1>5. CASE reqs[r].at = "acquire"
  <2>1. Acquire(r) /\ ~GiveUp(r) /\ reqs'[r].at = "admitRefresh"
    BY <1>2, <1>4, <1>5, <1>up, ActionAt
  <2>2. /\ grants[TeamOf(r)].status = "active" /\ UNCHANGED <<bindings, history>>
        /\ \/ reqs' = [reqs EXCEPT ![r].at = "members", ![r].held = grants[TeamOf(r)].version]
           \/ /\ reqs' = [reqs EXCEPT ![r].at = "admitRefresh",
                                      ![r].held = grants[TeamOf(r)].version]
              /\ grants' = [grants EXCEPT ![TeamOf(r)].status = "refreshing"]
    BY <2>1 DEF Acquire, TeamOf
  <2>3. ASSUME NEW at, NEW v, reqs' = [reqs EXCEPT ![r].at = at, ![r].held = v]
        PROVE  reqs'[r].at = at /\ reqs'[r].held = v
    BY <1>0, <2>3 DEF RequestRecords
  <2>4. /\ reqs' = [reqs EXCEPT ![r].at = "admitRefresh", ![r].held = grants[TeamOf(r)].version]
        /\ grants' = [grants EXCEPT ![TeamOf(r)].status = "refreshing"]
    BY <2>1, <2>2, <2>3
  <2>5. reqs'[r].held = grants[TeamOf(r)].version
    BY <2>3, <2>4
  <2>6. UNCHANGED bindings /\ UNCHANGED presented /\ grants[TeamOf(r)].status = "active"
    BY <2>2 DEF history
  <2>7. grants' = [grants EXCEPT ![TeamOf(r)].status = "refreshing"]
    BY <2>4
  <2> QED BY <1>3, <1>5, <2>1, <2>5, <2>6, <2>7
<1>6. CASE reqs[r].at = "admitRefresh"
  <2>1. AdmitRefresh(r) /\ ~GiveUp(r) /\ reqs'[r].at = "refresh"
    BY <1>2, <1>4, <1>6, <1>up, ActionAt
  <2>2. Goto(r, "refresh") /\ UNCHANGED <<grants, bindings, history>>
    BY <2>1 DEF AdmitRefresh
  <2>3. reqs'[r].held = reqs[r].held
    BY <1>0, <2>2 DEF Goto, RequestRecords
  <2> QED BY <1>3, <1>6, <2>1, <2>2, <2>3 DEF history
<1>7. CASE reqs[r].at = "refresh"
  <2>1. Refresh(r) /\ reqs'[r].at = "refreshed"
    BY <1>2, <1>4, <1>7, ActionAt
  <2>2. /\ reqs' = [reqs EXCEPT ![r].at = "refreshed", ![r].stamp = clock]
        /\ UNCHANGED <<grants, bindings>>
    BY <2>1 DEF Refresh, store
  <2>3. reqs'[r].held = reqs[r].held
    BY <1>0, <2>2 DEF RequestRecords
  <2> QED BY <1>3, <1>7, <2>1, <2>2, <2>3
<1> QED BY <1>4, <1>5, <1>6, <1>7

LEMMA TokensStep ==
  /\ TypeOK /\ OneGrantOwner /\ NamedAreStarted /\ TokensPresented /\ [Next]_vars
  => TokensPresented'
<1> SUFFICES ASSUME TypeOK, OneGrantOwner, NamedAreStarted, TokensPresented, [Next]_vars
             PROVE  TokensPresented'
  BY ZenonT(90)
<1>1. CASE UNCHANGED vars
  BY <1>1, ZenonT(90) DEF TokensPresented, Renewing, vars, store, history
<1>2. CASE Next
  <2>type. /\ \A t \in Teams : grants[t].version \in Nat /\ grants'[t].version \in Nat
           /\ \A t \in Teams : presented[t] \subseteq Nat
           /\ \A r \in Requests : reqs[r].held \in Nat
           /\ grants \in [Teams -> GrantRecords]
    BY <1>2, TypeStep DEF TypeOK, GrantsTyped, GrantRecords, HistoryTyped, ReqsTyped, RequestRecords
  <2>held. \A r, x \in Requests : Renewing(r) /\ reqs[x].at \in HeldSteps => r = x
    BY NoneAssumption, ZenonT(90) DEF OneGrantOwner, Renewing, HeldSteps
  <2>free. ASSUME NEW r \in Requests, Renewing(r), NEW x \in Requests, Acquire(x) PROVE FALSE
    BY <2>free, NoneAssumption DEF Acquire, OneGrantOwner, Renewing, HeldSteps
  <2>team. \A r \in Requests : Renewing(r) => TeamOf(r) \in Teams
    BY NotIdle DEF Renewing, NamedAreStarted, Started, TypeOK, BindingsTyped, NoBinding, ReqsTyped,
       TeamOf
  <2>old. \A r \in Requests : Renewing(r) =>
             /\ reqs[r].held <= grants[TeamOf(r)].version
             /\ reqs[r].held = grants[TeamOf(r)].version =>
                   grants[TeamOf(r)].status = "refreshing"
             /\ reqs[r].at # "refreshed" => reqs[r].held \notin presented[TeamOf(r)]
    BY DEF TokensPresented, TeamOf
  <2>new. ASSUME presented' # presented
          PROVE  \E r \in Requests :
                   /\ Renewing(r) /\ reqs'[r] # reqs[r] /\ reqs[r].at = "refresh"
                   /\ UNCHANGED grants
                   /\ \A t \in Teams : presented'[t] = IF t = TeamOf(r)
                                                       THEN presented[t] \union {reqs[r].held}
                                                       ELSE presented[t]
    BY <1>2, <2>new, PresentedChange DEF Refresh, Renewing
  <2>1. ASSUME NEW t \in Teams, NEW v \in presented'[t] PROVE v <= grants'[t].version
    <3>1. CASE v \in presented[t]
      <4>1. v <= grants[t].version /\ v \in Nat
        BY <2>type, <3>1 DEF TokensPresented
      <4>2. GrantChange(t)
        BY <1>2, GrantChanges
      <4>3. grants'[t].version \in {grants[t].version, grants[t].version + 1}
        BY <4>2 DEF GrantChange
      <4> QED BY <2>type, <4>1, <4>3
    <3>2. CASE v \notin presented[t]
      <4>1. presented' # presented
        BY <2>1, <3>2
      <4>2. PICK r \in Requests : Renewing(r) /\ UNCHANGED grants /\ t = TeamOf(r) /\ v = reqs[r].held
        BY <2>1, <2>new, <3>2, <4>1
      <4> QED BY <2>old, <4>2
    <3> QED BY <3>1, <3>2
  <2>2. ASSUME NEW t \in Teams, grants'[t].status = "active"
        PROVE  grants'[t].version \notin presented'[t]
    <3>1. CASE presented' = presented
      <4>1. \A v \in presented[t] : v <= grants[t].version
        BY DEF TokensPresented
      <4>2. CASE grants'[t] = grants[t]
        BY <2>2, <3>1, <4>2 DEF TokensPresented
      <4>3. CASE grants'[t].version = grants[t].version + 1
        BY <2>type, <3>1, <4>1, <4>3
      <4>4. ASSUME NEW r \in Requests, AdmitRefresh(r), TeamOf(r) = t,
                   reqs[r].held = grants[t].version, grants'[t].version = grants[t].version
            PROVE  grants'[t].version \notin presented'[t]
        <5>1. reqs[r].at = "admitRefresh"
          BY <4>4 DEF AdmitRefresh
        <5> QED BY <2>old, <3>1, <4>4, <5>1 DEF Renewing
      <4> QED BY <1>2, <2>2, <4>2, <4>3, <4>4, GrantChanges DEF GrantChange
    <3>2. CASE presented' # presented
      <4>1. PICK r \in Requests :
               /\ Renewing(r) /\ UNCHANGED grants
               /\ presented'[t] = IF t = TeamOf(r) THEN presented[t] \union {reqs[r].held}
                                                   ELSE presented[t]
        BY <2>new, <3>2
      <4>2. grants[t].version \notin presented[t]
        BY <2>2, <4>1 DEF TokensPresented
      <4> QED BY <2>2, <2>old, <4>1, <4>2
    <3> QED BY <3>1, <3>2
  <2>3. ASSUME NEW r \in Requests, Renewing(r)'
        PROVE  /\ reqs'[r].held <= grants'[TeamOf(r)'].version
               /\ reqs'[r].held = grants'[TeamOf(r)'].version =>
                     grants'[TeamOf(r)'].status = "refreshing"
               /\ reqs'[r].at # "refreshed" => reqs'[r].held \notin presented'[TeamOf(r)']
    <3> DEFINE t == TeamOf(r)
    <3>1. CASE reqs'[r] = reqs[r]
      <4>1. Renewing(r) /\ t \in Teams
        BY <2>3, <2>team, <3>1 DEF Renewing
      <4>2. TeamOf(r)' = t
        <5>1. reqs[r].binding \in Bindings /\ Started(reqs[r].binding)
          BY <4>1, NotIdle DEF Renewing, NamedAreStarted, TypeOK, ReqsTyped
        <5>2. BindingKept(reqs[r].binding)
          BY <1>2, <5>1, StartedKept
        <5> QED BY <3>1, <5>2 DEF BindingKept, TeamOf
      <4>3. presented' = presented
        <5>1. ASSUME NEW x \in Requests, Renewing(x), reqs'[x] # reqs[x] PROVE FALSE
          BY <2>held, <3>1, <4>1, <5>1 DEF Renewing, HeldSteps
        <5> QED BY <2>new, <5>1
      <4>4. ~Restart
        BY <2>3 DEF Restart, Renewing, Idle
      <4>5. GrantChange(t)
        BY <1>2, <4>1, GrantChanges
      <4>6. grants'[t] = grants[t] \/ grants'[t].version = grants[t].version + 1
        <5>1. ASSUME NEW x \in Requests, reqs[x].at \in HeldSteps, reqs'[x] # reqs[x] PROVE FALSE
          BY <2>held, <3>1, <4>1, <5>1
        <5>2. \A x \in Requests : AdmitRefresh(x) => reqs[x].at \in HeldSteps
          BY DEF AdmitRefresh, HeldSteps
        <5>3. "refreshed" \in HeldSteps
          BY DEF HeldSteps
        <5> QED BY <2>free, <4>1, <4>4, <4>5, <5>1, <5>2, <5>3 DEF GrantChange
      <4>7. reqs[r].held \in Nat /\ grants[t].version \in Nat
        BY <2>type, <4>1
      <4> HIDE DEF t
      <4>8. CASE grants'[t] = grants[t]
        BY <2>old, <3>1, <4>1, <4>2, <4>3, <4>8 DEF t
      <4>9. CASE grants'[t].version = grants[t].version + 1
        <5>1. reqs[r].held <= grants[t].version
          BY <2>old, <4>1 DEF t
        <5>2. reqs[r].at # "refreshed" => reqs[r].held \notin presented[t]
          BY <2>old, <4>1 DEF t
        <5> QED BY <3>1, <4>2, <4>3, <4>7, <4>9, <5>1, <5>2
      <4> QED BY <4>6, <4>8, <4>9
    <3>2. CASE reqs'[r] # reqs[r]
      <4>1. TeamOf(r)' = t /\ t \in Teams
        <5>1. reqs'[r].binding = reqs[r].binding /\ UNCHANGED bindings /\ reqs[r] # Idle
          BY <1>2, <2>3, <3>2, RenewingMoves, NotIdle
        <5> QED BY <5>1 DEF TeamOf, NamedAreStarted, Started, TypeOK, BindingsTyped, NoBinding,
                            ReqsTyped
      <4>2. CASE /\ reqs'[r].at = "admitRefresh" /\ UNCHANGED presented /\ reqs[r].at = "acquire"
                 /\ reqs'[r].held = grants[t].version /\ grants[t].status = "active"
                 /\ grants' = [grants EXCEPT ![t].status = "refreshing"]
        <5>1. grants'[t].status = "refreshing" /\ grants'[t].version = grants[t].version
          BY <2>type, <4>1, <4>2, ZenonT(90) DEF GrantRecords
        <5>2. grants[t].version \notin presented[t]
          BY <4>1, <4>2 DEF TokensPresented
        <5> QED BY <2>type, <4>1, <4>2, <5>1, <5>2
      <4>3. CASE /\ reqs[r].at = "admitRefresh" /\ reqs'[r].held = reqs[r].held
                 /\ UNCHANGED <<grants, presented>>
        BY <2>old, <4>1, <4>3 DEF Renewing
      <4>4. CASE /\ reqs[r].at = "refresh" /\ reqs'[r].at = "refreshed"
                 /\ reqs'[r].held = reqs[r].held /\ UNCHANGED grants
        BY <2>old, <4>1, <4>4 DEF Renewing
      <4> QED BY <1>2, <2>3, <3>2, <4>2, <4>3, <4>4, RenewingMoves
    <3> QED BY <3>1, <3>2
  <2> QED BY <2>1, <2>2, <2>3 DEF TokensPresented, TeamOf
<1> QED BY <1>1, <1>2

LEMMA TokensInvariant == Spec => []TokensPresented
<1>1. Init => TokensPresented
  BY DEF Init, TokensPresented, Renewing, Idle, NoGrant
<1> QED BY <1>1, TokensStep, TypeCorrect, GrantOwnerUnique, NamedStarted, PTL DEF Spec

\* No refresh token is presented to Slack a second time, whichever requests,
\* lifecycle events and restarts come between.
THEOREM RefreshTokensUsedOnce == Spec => RefreshTokenUsedOnce
<1>1. TokensPresented =>
        \A r \in Requests : Refresh(r) =>
           reqs[r].held \notin presented[bindings[reqs[r].binding].team]
  BY DEF TokensPresented, Refresh, Renewing
<1> QED BY <1>1, TokensInvariant, PTL DEF RefreshTokenUsedOnce

-----------------------------------------------------------------------------
(* What stays decided *)

LEMMA DecidedKept ==
  ASSUME TypeOK, Next, NEW e \in Events, deliveries[e].status \in {"acknowledged", "denied"}
  PROVE  deliveries'[e] \in {deliveries[e], NoDelivery}
<1>0. deliveries \in [Events -> DeliveryRecords] /\ deliveries[e] \in DeliveryRecords
  BY DEF TypeOK
<1>1. Purged[e] \in {deliveries[e], NoDelivery}
  BY DEF Purged
<1>2. ASSUME NEW x \in Events, New(x), deliveries' = Purged \/ \E d : deliveries' = [Purged EXCEPT ![x] = d]
      PROVE  deliveries'[e] \in {deliveries[e], NoDelivery}
  <2>1. x # e
    BY <1>2 DEF New
  <2> QED BY <1>1, <1>2, <2>1 DEF Purged
<1>3. ASSUME NEW b \in Bindings, NEW x \in Events, NEW outcome \in {"acknowledged", "denied"},
             Ack(b, x, outcome)
      PROVE  deliveries'[e] = deliveries[e]
  <2>1. /\ deliveries[x].status \in {"pending", outcome}
        /\ deliveries' = [deliveries EXCEPT ![x].status = outcome]
    BY <1>3 DEF Ack
  <2>2. CASE x = e
    <3>1. deliveries[e].status = outcome
      BY <2>1, <2>2
    <3>2. [deliveries[e] EXCEPT !.status = deliveries[e].status] = deliveries[e]
      BY <1>0 DEF DeliveryRecords
    <3> QED BY <1>0, <2>1, <2>2, <3>1, <3>2
  <2>3. CASE x # e
    BY <1>0, <2>1, <2>3
  <2> QED BY <2>2, <2>3
<1>4. ASSUME NEW x \in Events, ReceiveLifecycle(x)
      PROVE  deliveries'[e] \in {deliveries[e], NoDelivery}
  <2>1. New(x) /\ (deliveries' = Purged \/ \E d : deliveries' = [Purged EXCEPT ![x] = d])
    BY <1>4 DEF ReceiveLifecycle
  <2> QED BY <1>2, <2>1, ZenonT(90)
<1>5. ASSUME NEW x \in Events, ReceiveMention(x)
      PROVE  deliveries'[e] \in {deliveries[e], NoDelivery}
  <2>1. New(x) /\ (deliveries' = Purged \/ \E d : deliveries' = [Purged EXCEPT ![x] = d])
    BY <1>5 DEF ReceiveMention
  <2> QED BY <1>2, <2>1
<1> QED BY <1>3, <1>4, <1>5, DeliveriesFrame DEF DeliveriesChange

LEMMA OutcomesStep ==
  ASSUME TypeOK, Next
  PROVE  /\ \A b \in Bindings, o \in OpIds :
              operations[b][o].status \in {"completed", "outcome_unknown"} =>
                  operations'[b][o] = operations[b][o]
         /\ \A e \in Events :
              deliveries[e].status \in {"acknowledged", "denied"} =>
                  deliveries'[e] \in {deliveries[e], NoDelivery}
         /\ \A b \in Bindings : ~Live(b) /\ bindings[b].status # "none" => ~Live(b)'
<1>1. \A b \in Bindings, o \in OpIds :
         operations[b][o].status \in {"completed", "outcome_unknown"} =>
             operations'[b][o] = operations[b][o]
  BY OpChanges DEF OpChange
<1>2. \A b \in Bindings : ~Live(b) /\ bindings[b].status # "none" => ~Live(b)'
  <2>1. ASSUME NEW b \in Bindings, NEW t \in Teams, NEW c \in Channels, Start(b, t, c)
        PROVE  \A x \in Bindings : bindings[x].status # "none" => bindings'[x] = bindings[x]
    BY <2>1 DEF Start, TypeOK, BindingsTyped
  <2> QED BY <2>1, BindingsRevived DEF NoneRevived, Live
<1> QED BY <1>1, <1>2, DecidedKept

\* An operation, an acknowledgement and the end of a binding are decided once,
\* whatever comes later or comes again.
THEOREM OutcomesFinal == Spec => OutcomesAreFinal
<1>1. /\ TypeOK /\ [Next]_vars
      => [/\ \A b \in Bindings, o \in OpIds :
               operations[b][o].status \in {"completed", "outcome_unknown"} =>
                   operations'[b][o] = operations[b][o]
          /\ \A e \in Events :
               deliveries[e].status \in {"acknowledged", "denied"} =>
                   deliveries'[e] \in {deliveries[e], NoDelivery}
          /\ \A b \in Bindings : ~Live(b) /\ bindings[b].status # "none" => ~Live(b)']_vars
  BY OutcomesStep
<1> QED BY <1>1, TypeCorrect, PTL DEF Spec, OutcomesAreFinal

-----------------------------------------------------------------------------
(* Uninstalls *)

LEMMA ClockStep ==
  ASSUME TypeOK, [Next]_vars
  PROVE  clock \in Nat /\ clock' \in Nat /\ clock <= clock'
  BY ClockFrame DEF TypeOK, Tick, vars

LEMMA SentPastStep == TypeOK /\ SentPast /\ [Next]_vars => SentPast'
<1> SUFFICES ASSUME TypeOK, SentPast, [Next]_vars, NEW e \in Events PROVE sent'[e].at <= clock'
  BY DEF SentPast
<1>0. sent \in [Events -> EventRecords] /\ sent[e].at \in Nat /\ sent[e].at <= clock
  BY DEF TypeOK, SlackTyped, EventRecords, SentPast
<1>1. sent'[e] = sent[e] \/ sent'[e].at = clock
  <2>1. UNCHANGED vars \/ UNCHANGED slack => sent' = sent
    BY DEF vars, slack
  <2>2. ASSUME NEW r \in Requests, Exchange(r) PROVE sent' = sent
    BY <2>2 DEF Exchange
  <2>3. ASSUME NEW x \in Events, NEW t \in Teams, NEW c \in Channels, MintMention(x, t, c)
        PROVE  sent'[e] = sent[e] \/ sent'[e].at = clock
    BY <1>0, <2>3 DEF MintMention
  <2>4. ASSUME NEW x \in Events, NEW t \in Teams, NEW bot \in BOOLEAN,
               NEW type \in {"app_uninstalled", "tokens_revoked"}, MintLifecycle(x, t, type, bot)
        PROVE  sent'[e] = sent[e] \/ sent'[e].at = clock
    BY <1>0, <2>4 DEF MintLifecycle
  <2> QED BY <2>1, <2>2, <2>3, <2>4, SlackFrame DEF SlackChange
<1> QED BY <1>0, <1>1, ClockStep

\* How the record of event e may change.
DeliveryChange(e) ==
    \/ deliveries'[e] = deliveries[e]
    \/ /\ deliveries'[e] = NoDelivery /\ deliveries[e].status # "pending"
       /\ clock > deliveries[e].createdAt + Retention
    \/ /\ deliveries[e].status \in {"pending", "acknowledged", "denied"}
       /\ deliveries'[e].status \in {"acknowledged", "denied"}
       /\ deliveries'[e].binding = deliveries[e].binding
       /\ deliveries'[e].createdAt = deliveries[e].createdAt
    \/ /\ deliveries[e].status = "none" /\ deliveries'[e].status = "lifecycle"
       /\ Arrives(e) /\ sent[e].type # "app_mention" /\ UNCHANGED sent
       /\ deliveries'[e].team = sent[e].team /\ deliveries'[e].occurredAt = sent[e].at
       /\ deliveries'[e].binding = None /\ deliveries'[e].createdAt = clock
    \/ /\ deliveries[e].status = "none" /\ deliveries'[e].status = "pending"
       /\ Arrives(e) /\ sent[e].type = "app_mention" /\ UNCHANGED sent
       /\ deliveries'[e].binding \in Bindings /\ deliveries'[e].createdAt = clock

LEMMA DeliveryChanges ==
  ASSUME TypeOK, Next, NEW e \in Events
  PROVE  DeliveryChange(e)
<1>0. deliveries \in [Events -> DeliveryRecords] /\ deliveries[e] \in DeliveryRecords
  BY DEF TypeOK
<1>1. /\ DOMAIN Purged = Events
      /\ \/ Purged[e] = deliveries[e]
         \/ /\ Purged[e] = NoDelivery /\ deliveries[e].status # "pending"
            /\ clock > deliveries[e].createdAt + Retention
  BY DEF Purged
<1>2. deliveries'[e] = deliveries[e] \/ deliveries'[e] = Purged[e] => DeliveryChange(e)
  BY <1>1 DEF DeliveryChange
<1>3. ASSUME NEW b \in Bindings, NEW x \in Events, NEW outcome \in {"acknowledged", "denied"},
             Ack(b, x, outcome)
      PROVE  DeliveryChange(e)
  <2>1. /\ deliveries[x].status \in {"pending", outcome}
        /\ deliveries' = [deliveries EXCEPT ![x].status = outcome]
    BY <1>3 DEF Ack
  <2>2. CASE x # e
    BY <1>0, <1>2, <2>1, <2>2
  <2>3. CASE x = e
    <3>1. deliveries'[e] = [deliveries[e] EXCEPT !.status = outcome]
      BY <1>0, <2>1, <2>3
    <3>2. /\ deliveries'[e].status = outcome
          /\ deliveries'[e].binding = deliveries[e].binding
          /\ deliveries'[e].createdAt = deliveries[e].createdAt
      BY <1>0, <3>1 DEF DeliveryRecords
    <3> QED BY <2>1, <2>3, <3>2 DEF DeliveryChange
  <2> QED BY <2>2, <2>3
<1>4. ASSUME NEW x \in Events, ReceiveLifecycle(x) PROVE DeliveryChange(e)
  <2> DEFINE d == [NoDelivery EXCEPT !.status = "lifecycle", !.team = sent[x].team,
                                     !.occurredAt = sent[x].at, !.createdAt = clock]
  <2>1. /\ d.status = "lifecycle" /\ d.team = sent[x].team /\ d.occurredAt = sent[x].at
        /\ d.binding = None /\ d.createdAt = clock
    BY ZenonT(90) DEF NoDelivery
  <2>2. /\ deliveries' = Purged \/ deliveries' = [Purged EXCEPT ![x] = d]
        /\ Arrives(x) /\ UNCHANGED sent /\ deliveries[x].status = "none"
        /\ sent[x].type # "app_mention"
    BY <1>4 DEF ReceiveLifecycle, New, slack
  <2> HIDE DEF d
  <2>3. CASE deliveries'[e] # Purged[e]
    <3>1. e = x /\ deliveries'[e] = d
      BY <1>1, <2>2, <2>3
    <3> QED BY <2>1, <2>2, <3>1 DEF DeliveryChange
  <2> QED BY <1>2, <2>3
<1>5. ASSUME NEW x \in Events, ReceiveMention(x) PROVE DeliveryChange(e)
  <2>1. /\ Arrives(x) /\ UNCHANGED sent /\ deliveries[x].status = "none"
        /\ sent[x].type = "app_mention"
    BY <1>5 DEF ReceiveMention, New, slack
  <2>2. CASE deliveries' = Purged
    BY <1>2, <2>2
  <2>3. ASSUME NEW b \in Bindings,
               deliveries' = [Purged EXCEPT ![x] =
                  [status |-> "pending", team |-> sent[x].team, binding |-> b,
                   version |-> bindings[b].version, occurredAt |-> sent[x].at,
                   createdAt |-> clock]]
        PROVE  DeliveryChange(e)
    <3>1. CASE e # x
      <4>1. deliveries'[e] = Purged[e]
        BY <2>3, <3>1 DEF Purged
      <4> QED BY <1>2, <4>1
    <3>2. CASE e = x
      <4>1. /\ deliveries'[e].status = "pending" /\ deliveries'[e].binding = b
            /\ deliveries'[e].createdAt = clock
        BY <1>1, <2>3, <3>2
      <4> QED BY <2>1, <3>2, <4>1 DEF DeliveryChange
    <3> QED BY <3>1, <3>2
  <2> QED BY <1>5, <2>2, <2>3 DEF ReceiveMention
<1> QED BY <1>2, <1>3, <1>4, <1>5, DeliveriesFrame DEF DeliveriesChange

\* An event accepted for the first time arrives now; it was on record already, or
\* it goes on record, if it is an uninstall.
LEMMA AcceptedChange ==
  ASSUME TypeOK, Next, NEW e \in accepted', e \notin accepted
  PROVE  /\ e \in Events /\ Arrives(e) /\ UNCHANGED sent
         /\ \/ deliveries[e].status # "none" /\ UNCHANGED deliveries
            \/ sent[e].type = "app_uninstalled" => deliveries'[e].status = "lifecycle"
<1>0. Purged \in [Events -> DeliveryRecords]
  BY PurgedTyped
<1>1. UNCHANGED history => UNCHANGED accepted
  BY ZenonT(90) DEF history
<1>2. ASSUME NEW r \in Requests, Exchange(r) \/ Refresh(r) \/ Call(r) PROVE UNCHANGED accepted
  BY <1>2 DEF Exchange, Refresh, Call
<1>3. PICK x \in Events : ReceiveAgain(x) \/ ReceiveLifecycle(x) \/ ReceiveMention(x)
  BY <1>1, <1>2, HistoryFrame, ZenonT(90) DEF HistoryChange
<1>4. accepted' = accepted \union {x} /\ Arrives(x) /\ UNCHANGED sent
  BY <1>3 DEF ReceiveAgain, ReceiveLifecycle, ReceiveMention, slack
<1>5. x = e
  BY <1>4
<1>6. CASE ReceiveAgain(x)
  BY <1>4, <1>5, <1>6 DEF ReceiveAgain, store
<1>7. CASE ReceiveLifecycle(x)
  <2> DEFINE d == [NoDelivery EXCEPT !.status = "lifecycle", !.team = sent[x].team,
                                     !.occurredAt = sent[x].at, !.createdAt = clock]
  <2>1. d.status = "lifecycle"
    BY ZenonT(90) DEF NoDelivery
  <2>2. sent[x].type = "app_uninstalled" => deliveries' = [Purged EXCEPT ![x] = d]
    BY <1>7 DEF ReceiveLifecycle, Affects
  <2> HIDE DEF d
  <2> QED BY <1>0, <1>4, <1>5, <2>1, <2>2
<1>8. CASE ReceiveMention(x)
  BY <1>4, <1>5, <1>8 DEF ReceiveMention
<1> QED BY <1>3, <1>6, <1>7, <1>8

LEMMA UninstallStep ==
  TypeOK /\ SentPast /\ UninstallRecorded /\ [Next]_vars => UninstallRecorded'
<1> SUFFICES ASSUME TypeOK, SentPast, UninstallRecorded, [Next]_vars PROVE UninstallRecorded'
  OBVIOUS
<1>1. CASE UNCHANGED vars
  BY <1>1 DEF UninstallRecorded, vars, store, slack, history
<1>2. CASE Next
  <2>clock. clock \in Nat /\ clock' \in Nat /\ clock <= clock'
    BY ClockStep
  <2>type. /\ \A e \in Events : sent[e].at \in Nat /\ sent[e].at <= clock
           /\ \A e \in Events : deliveries[e].createdAt \in Nat
           /\ \A e \in Events : deliveries[e].status \in
                 {"none", "pending", "acknowledged", "denied", "lifecycle"}
           /\ Retention \in Nat
    BY DurationAssumption DEF TypeOK, SlackTyped, EventRecords, DeliveryRecords, SentPast
  <2>none. None \notin Bindings
    BY NoneAssumption
  <2>change. \A e \in Events : DeliveryChange(e)
    BY <1>2, DeliveryChanges
  <2>sent. \A e \in Events : sent[e] # NoEvent => sent'[e] = sent[e]
    BY <1>2, SentKept
  <2>1. ASSUME NEW e \in Events, deliveries'[e].status # "none"
        PROVE  sent[e] # NoEvent /\ sent'[e] = sent[e] /\ deliveries'[e].createdAt >= sent[e].at
    <3>1. CASE deliveries[e].status # "none"
      <4>1. sent[e] # NoEvent /\ deliveries[e].createdAt >= sent[e].at
        BY <3>1 DEF UninstallRecorded
      <4>2. deliveries'[e].createdAt = deliveries[e].createdAt
        BY <2>1, <2>change, <3>1 DEF DeliveryChange, NoDelivery
      <4> QED BY <2>sent, <4>1, <4>2
    <3>2. CASE deliveries[e].status = "none"
      BY <2>1, <2>sent, <2>type, <2>change, <3>2 DEF DeliveryChange, NoDelivery, Arrives
    <3> QED BY <3>1, <3>2
  <2>2. ASSUME NEW e \in Events, deliveries'[e].status \in {"pending", "acknowledged", "denied"}
        PROVE  sent[e].type = "app_mention" /\ deliveries'[e].binding \in Bindings
    <3>1. DeliveryChange(e)
      BY <2>change
    <3>2. deliveries[e].status \in {"pending", "acknowledged", "denied"} =>
             sent[e].type = "app_mention" /\ deliveries[e].binding \in Bindings
      BY DEF UninstallRecorded
    <3> QED BY <2>2, <3>1, <3>2 DEF DeliveryChange, NoDelivery
  <2>3. ASSUME NEW e \in Events, deliveries'[e].status = "lifecycle"
        PROVE  /\ sent[e].type # "app_mention" /\ deliveries'[e].binding \notin Bindings
               /\ deliveries'[e].team = sent[e].team /\ deliveries'[e].occurredAt = sent[e].at
    <3>1. DeliveryChange(e)
      BY <2>change
    <3>2. deliveries[e].status = "lifecycle" =>
             /\ sent[e].type # "app_mention" /\ deliveries[e].binding \notin Bindings
             /\ deliveries[e].team = sent[e].team /\ deliveries[e].occurredAt = sent[e].at
      BY DEF UninstallRecorded
    <3> QED BY <2>3, <2>none, <3>1, <3>2 DEF DeliveryChange, NoDelivery
  <2>4. ASSUME NEW e \in Events, e \in accepted' PROVE sent[e] # NoEvent /\ sent'[e] = sent[e]
    <3>1. CASE e \in accepted
      BY <2>sent, <3>1 DEF UninstallRecorded
    <3>2. CASE e \notin accepted
      BY <1>2, <2>4, <2>sent, <3>2, AcceptedChange DEF Arrives
    <3> QED BY <3>1, <3>2
  <2>5. ASSUME NEW e \in Events, e \in accepted', sent[e].type = "app_uninstalled"
        PROVE  deliveries'[e].status = "lifecycle" \/ clock' > sent[e].at + Retention
    <3>1. CASE e \in accepted
      <4>1. deliveries[e].status = "lifecycle" \/ clock > sent[e].at + Retention
        BY <2>5, <3>1 DEF UninstallRecorded
      <4>2. CASE clock > sent[e].at + Retention
        BY <2>clock, <2>type, <4>2
      <4>3. CASE deliveries[e].status = "lifecycle"
        <5>1. deliveries[e].createdAt >= sent[e].at
          BY <4>3 DEF UninstallRecorded
        <5>2. \/ deliveries'[e] = deliveries[e]
              \/ clock > deliveries[e].createdAt + Retention
          BY <2>change, <4>3 DEF DeliveryChange
        <5> QED BY <2>clock, <2>type, <4>3, <5>1, <5>2
      <4> QED BY <4>1, <4>2, <4>3
    <3>2. CASE e \notin accepted
      <4>1. CASE deliveries[e].status # "none" /\ UNCHANGED deliveries
        <5>1. deliveries[e].status \notin {"pending", "acknowledged", "denied"}
          BY <2>5 DEF UninstallRecorded
        <5> QED BY <2>type, <4>1, <5>1
      <4> QED BY <1>2, <2>5, <3>2, <4>1, AcceptedChange
    <3> QED BY <3>1, <3>2
  <2> QED BY <2>1, <2>2, <2>3, <2>4, <2>5 DEF UninstallRecorded
<1> QED BY <1>1, <1>2

LEMMA OnTimeStep ==
  TypeOK /\ NamedAreStarted /\ CallbacksOnTime /\ [Next]_vars => CallbacksOnTime'
<1> SUFFICES ASSUME TypeOK, NamedAreStarted, CallbacksOnTime, [Next]_vars,
                    NEW r \in Requests, reqs'[r].at \in {"exchange", "store", "reject"}
             PROVE  clock' <= txs'[reqs'[r].binding].startedAt + TxLife + CallLife
  BY DEF CallbacksOnTime
<1> DEFINE b == reqs[r].binding
           limit == txs[b].startedAt + TxLife + CallLife
<1>1. CASE UNCHANGED vars
  BY <1>1 DEF CallbacksOnTime, vars, store
<1>2. CASE Next
  <2>1. reqs'[r] = reqs[r] \/ (Moves(r) /\ (Proceed(r) \/ StoreFails(r)))
    BY <1>2, MovesOrBegins DEF Begins, Idle
  <2>2. /\ reqs'[r].binding = b
        /\ reqs[r].at \in {"fence", "exchange", "store", "reject"}
    BY <2>1 DEF Moves, Same, Flows
  <2>3. b \in Bindings /\ Started(b)
    BY <2>2, NotIdle DEF NamedAreStarted, TypeOK, ReqsTyped
  <2>4. /\ txs[b].startedAt \in Nat /\ clock \in Nat /\ TxLife \in Nat /\ CallLife \in Nat
    BY <2>3, DurationAssumption DEF TypeOK, TxRecords
  <2>5. txs'[b].startedAt = txs[b].startedAt
    BY <1>2, <2>3, TxChanges DEF TxChange
  <2>6. CASE reqs[r].at \in {"exchange", "store", "reject"}
    <3>1. clock <= limit
      BY <2>6 DEF CallbacksOnTime
    <3>2. clock' = clock \/ (clock' = clock + 1 /\ clock < limit)
      BY <1>2, <2>6, ClockFrame DEF Tick
    <3> QED BY <2>2, <2>4, <2>5, <3>1, <3>2
  <2>7. CASE reqs[r].at = "fence"
    <3>1. reqs'[r] # reqs[r] /\ reqs'[r] # Idle /\ reqs'[r].at = "exchange"
      BY <2>1, <2>7 DEF Moves, Flows, Idle
    <3>2. FenceExchange(r)
      BY <2>1, <2>7, <3>1, FailsApart, ActionAt
    <3>3. ~Done(r)
      BY <3>1, Ended DEF TypeOK
    <3>4. clock < txs[b].startedAt + TxLife /\ clock' = clock
      BY <3>2, <3>3 DEF FenceExchange, Unexpired
    <3> QED BY <2>2, <2>4, <2>5, <3>4
  <2> QED BY <2>2, <2>6, <2>7
<1> QED BY <1>1, <1>2

LEMMA FencesStep ==
  ASSUME TypeOK, UninstallRecorded, CallbacksOnTime, Next,
         NEW b \in Bindings, bindings[b].status = "pending_consent",
         bindings'[b].status = "authorized",
         NEW e \in accepted, sent[e].team = bindings[b].team, sent[e].type = "app_uninstalled",
         sent[e].at >= txs[b].startedAt
  PROVE  FALSE
<1>0. bindings \in [Bindings -> BindingRecords] /\ bindings[b] \in BindingRecords /\ e \in Events
  BY DEF TypeOK, BindingsTyped, HistoryTyped
<1>1. \E r \in Requests : StoreGrant(r) /\ reqs[r].binding = b
  <2>1. ASSUME NEW x \in Bindings, NEW t \in Teams, NEW c \in Channels, Start(x, t, c) PROVE FALSE
    BY <1>0, <2>1 DEF Start, NoBinding
  <2>2. ASSUME NEW x \in Bindings, IssueSession(x) PROVE FALSE
    BY <1>0, <2>2 DEF IssueSession, BindingRecords
  <2>3. ASSUME NEW x \in Bindings, Disconnect(x) PROVE FALSE
    BY <1>0, <2>3 DEF Disconnect, BindingRecords
  <2>4. ASSUME NEW r \in Requests, FailBinding(r) PROVE FALSE
    BY <1>0, <2>4 DEF FailBinding, BindingRecords
  <2>5. ASSUME NEW r \in Requests, ActivateBinding(r) PROVE FALSE
    BY <1>0, <2>5 DEF ActivateBinding, BindingRecords
  <2>6. ASSUME NEW x \in Events, ReceiveLifecycle(x) PROVE FALSE
    <3>1. \/ bindings'[b] = bindings[b]
          \/ bindings'[b] = [bindings[b] EXCEPT !.status = "revoked", !.authorizedAt = sent[x].at,
                                                !.version = @ + 1, !.session = 0]
      BY <2>6 DEF ReceiveLifecycle
    <3> QED BY <1>0, <3>1 DEF BindingRecords
  <2>7. ASSUME NEW r \in Requests, StoreGrant(r) PROVE reqs[r].binding = b
    BY <1>0, <2>7 DEF StoreGrant
  <2> QED BY <1>0, <2>1, <2>2, <2>3, <2>4, <2>5, <2>6, <2>7, BindingsFrame DEF BindingsChange
<1>2. PICK r \in Requests : StoreGrant(r) /\ reqs[r].binding = b
  BY <1>1
<1>3. ~LifecycleSince(b) /\ reqs[r].at = "store"
  BY <1>0, <1>2 DEF StoreGrant
<1>4. deliveries[e].status # "lifecycle"
  BY <1>0, <1>3 DEF LifecycleSince, UninstallRecorded
<1>5. clock > sent[e].at + Retention
  BY <1>0, <1>4 DEF UninstallRecorded
<1>6. clock <= txs[b].startedAt + TxLife + CallLife
  BY <1>2, <1>3 DEF CallbacksOnTime
<1>7. /\ txs[b].startedAt \in Nat /\ sent[e].at \in Nat /\ clock \in Nat
      /\ TxLife \in Nat /\ CallLife \in Nat /\ Retention \in Nat /\ TxLife + CallLife <= Retention
  BY <1>0, DurationAssumption DEF TypeOK, TxRecords, SlackTyped, EventRecords
<1> QED BY <1>5, <1>6, <1>7

\* An uninstall that was answered, at any moment of a consent, fences its
\* callback: the record cannot be purged before the callback is over.
THEOREM UninstallsFence == Spec => UninstallFencesDelayedCallback
<1> DEFINE Fences ==
      \A b \in Bindings :
          bindings[b].status = "pending_consent" /\ bindings'[b].status = "authorized" =>
             ~ \E e \in accepted :
                 /\ sent[e].team = bindings[b].team
                 /\ sent[e].type = "app_uninstalled"
                 /\ sent[e].at >= txs[b].startedAt
<1>1. Init => SentPast /\ UninstallRecorded /\ CallbacksOnTime
  BY DEF Init, SentPast, UninstallRecorded, CallbacksOnTime, NoEvent, NoDelivery, Idle
<1>2. TypeOK /\ UninstallRecorded /\ CallbacksOnTime /\ Next => Fences
  BY FencesStep
<1>3. UNCHANGED vars => Fences
  BY DEF vars, store
<1>4. TypeOK /\ UninstallRecorded /\ CallbacksOnTime /\ [Next]_vars => [Fences]_vars
  BY <1>2, <1>3
<1> QED BY <1>1, <1>4, SentPastStep, UninstallStep, OnTimeStep, NamedStarted, TypeCorrect, PTL
        DEF Spec, UninstallFencesDelayedCallback

=============================================================================

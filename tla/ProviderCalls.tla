--------------------------- MODULE ProviderCalls ---------------------------
(***************************************************************************)
(* Invocations of provider operations: the runtime's admission             *)
(* (src/packages/connectors/runtime.go), the call budget                   *)
(* (providers/budgeted_adapter.go) and the HTTP adapter's attempts         *)
(* (providers/http_adapter.go, providers/replio_context.go), against a     *)
(* provider that loses requests and answers, applies a request late, and   *)
(* drops a repeated request only if it carries a key it has seen.          *)
(***************************************************************************)
EXTENDS Naturals, FiniteSets

CONSTANTS Calls,     \* invocations
          Operation, \* of each call: its manifest (risk, method, retry, header)
          Key,       \* of each call: its idempotency key, or None
          AllowWrite, \* calls whose binding grants more than the read tools
          Limit,     \* provider calls the budget allows
          None

\* read: RiskRead; safe: the methods a plan may have, TRUE for GET; attempts and
\* retryableWrite: Retry; header: the provider is sent the key; budgeted and
\* scoped: the pipeboard and the replio adapters.
Operations == [read : BOOLEAN, safe : SUBSET BOOLEAN, attempts : Nat, retryableWrite : BOOLEAN,
               header : BOOLEAN, budgeted : BOOLEAN, scoped : BOOLEAN]

OperationAssumption == Operation \in [Calls -> Operations]

VARIABLES
  state,    \* each call: where it is, its attempt, whether its method is safe
  request,  \* the request of its current attempt at the provider
  late,     \* calls with an earlier request the provider may still apply
  sent,     \* requests of each call handed to the transport
  effects,  \* writes the provider has applied, of each call
  keys,     \* idempotency keys the provider has seen
  used,     \* provider calls reserved
  scope,    \* the replio key is unrestricted
  refused   \* calls whose scope check was refused

vars == <<state, request, late, sent, effects, keys, used, scope, refused>>
provider == <<request, late, sent, effects, keys>>

Outcomes == {"result", "denied", "invalid", "quota", "budget_error", "credential_error",
             "permission", "network_error", "response_error", "provider_error", "cancelled"}
Running == {"reserving", "attempting", "checking", "sending", "sleeping"}

Init ==
  /\ state = [c \in Calls |-> [at |-> "new", attempt |-> 0, safe |-> FALSE]]
  /\ request = [c \in Calls |-> "none"]
  /\ late = {}
  /\ sent = [c \in Calls |-> 0]
  /\ effects = [c \in Calls |-> 0]
  /\ keys = {} /\ used = 0
  /\ scope = TRUE /\ refused = {}

At(c, where) == state[c].at = where
Ended(c, outcome) == state' = [state EXCEPT ![c].at = outcome]
Move(c, where) == state' = [state EXCEPT ![c].at = where]

-----------------------------------------------------------------------------
(* Admission *)

\* A write, by the risk of the operation and the method of the plan.
Writes(c) == ~Operation[c].read /\ ~state[c].safe

\* Runtime.Tools: the read tools, and the others only with AllowWrite.
Granted(c) == Operation[c].read \/ c \in AllowWrite

\* Runtime.Invoke up to the adapter; buildPlan fixes the method: a typed
\* operation has its own, a raw one takes the caller's.
Invoke(c) ==
  /\ At(c, "new")
  /\ \/ ~Granted(c) /\ Ended(c, "denied")
     \/ Ended(c, "invalid")
     \/ /\ Granted(c)
        /\ \E safe \in Operation[c].safe :
             state' = [state EXCEPT ![c] =
               [at |-> IF Operation[c].budgeted THEN "reserving" ELSE "attempting",
                attempt |-> 1, safe |-> safe]]
  /\ UNCHANGED <<used, scope, refused>> /\ UNCHANGED provider

\* ReserveProviderCall, once for all attempts; it may fail, whether or not the
\* reservation was recorded.
Reserve(c) ==
  /\ At(c, "reserving")
  /\ \/ used < Limit /\ used' = used + 1 /\ (Move(c, "attempting") \/ Ended(c, "budget_error"))
     \/ used >= Limit /\ Ended(c, "quota") /\ UNCHANGED used
     \/ Ended(c, "budget_error") /\ UNCHANGED used
  /\ UNCHANGED <<scope, refused>> /\ UNCHANGED provider

-----------------------------------------------------------------------------
(* Attempts *)

\* Writes are repeated only with RetryableWrite and a key.
MaxAttempts(c) ==
  IF Writes(c) /\ (~Operation[c].retryableWrite \/ Key[c] = None) THEN 1
  ELSE IF Operation[c].attempts < 1 THEN 1 ELSE Operation[c].attempts

\* Another attempt after a delay, or the end.
RetryOr(c, outcome) ==
  IF state[c].attempt < MaxAttempts(c) THEN Move(c, "sleeping") ELSE Ended(c, outcome)

\* Faulty: only the first attempt asks for the scope.
AttemptChecksOnce(c) ==
  /\ At(c, "attempting")
  /\ \/ Ended(c, "credential_error")
     \/ Move(c, IF Operation[c].scoped /\ state[c].attempt = 1 THEN "checking" ELSE "sending")
  /\ UNCHANGED <<used, scope, refused>> /\ UNCHANGED provider

\* An attempt applies the credential, which may have expired, and asks for the
\* scope of a replio key.
Attempt(c) ==
  /\ At(c, "attempting")
  /\ \/ Ended(c, "credential_error")
     \/ Move(c, IF Operation[c].scoped THEN "checking" ELSE "sending")
  /\ UNCHANGED <<used, scope, refused>> /\ UNCHANGED provider

\* validateReplioContext: refused, unknown and unreachable are the same.
CheckScope(c) ==
  /\ At(c, "checking")
  /\ \/ scope /\ Move(c, "sending") /\ UNCHANGED refused
     \/ Ended(c, "permission") /\ refused' = refused \cup {c}
  /\ UNCHANGED <<used, scope>> /\ UNCHANGED provider

Send(c) ==
  /\ At(c, "sending") /\ request[c] = "none"
  /\ request' = [request EXCEPT ![c] = "sent"]
  /\ sent' = [sent EXCEPT ![c] = @ + 1]
  /\ UNCHANGED <<state, late, effects, keys, used, scope, refused>>

\* The transport fails: the request may never arrive, be applied yet, or have
\* been applied.
NetworkFails(c) ==
  /\ At(c, "sending") /\ request[c] # "none"
  /\ request' = [request EXCEPT ![c] = "none"]
  /\ late' = IF request[c] = "sent" THEN late \cup {c} ELSE late
  /\ RetryOr(c, "network_error")
  /\ UNCHANGED <<sent, effects, keys, used, scope, refused>>

\* A status of the manifest's list is retried, any other ends the call.
Refused(c) ==
  /\ At(c, "sending") /\ request[c] \in {"sent", "applied"}
  /\ request' = [request EXCEPT ![c] = "none"]
  /\ RetryOr(c, "provider_error") \/ Ended(c, "provider_error") \/ Ended(c, "permission")
  /\ UNCHANGED <<late, sent, effects, keys, used, scope, refused>>

\* A 2xx answer whose body is read, cut short, too large or names an error of
\* the application.
Answered(c) ==
  /\ At(c, "sending") /\ request[c] = "applied"
  /\ request' = [request EXCEPT ![c] = "none"]
  /\ \E outcome \in {"result", "response_error", "provider_error", "permission"} : Ended(c, outcome)
  /\ UNCHANGED <<late, sent, effects, keys, used, scope, refused>>

Wake(c) ==
  /\ At(c, "sleeping")
  /\ state' = [state EXCEPT ![c].at = "attempting", ![c].attempt = @ + 1]
  /\ UNCHANGED <<used, scope, refused>> /\ UNCHANGED provider

\* The runtime's 90 s, or its caller, cuts a pause or a request short; a request
\* cut short ends as a network failure whose pause is cut short in turn.
Cancel(c) ==
  /\ At(c, "sleeping") \/ At(c, "sending")
  /\ request' = [request EXCEPT ![c] = "none"]
  /\ late' = IF request[c] = "sent" THEN late \cup {c} ELSE late
  /\ Ended(c, IF At(c, "sending") /\ state[c].attempt >= MaxAttempts(c) THEN "network_error" ELSE "cancelled")
  /\ UNCHANGED <<sent, effects, keys, used, scope, refused>>

-----------------------------------------------------------------------------
(* The provider *)

Keyed(c) == Operation[c].header /\ Key[c] # None

Effect(c) ==
  IF Writes(c) /\ ~(Keyed(c) /\ Key[c] \in keys)
  THEN effects' = [effects EXCEPT ![c] = @ + 1]
  ELSE UNCHANGED effects

Apply(c) ==
  /\ request[c] = "sent"
  /\ request' = [request EXCEPT ![c] = "applied"]
  /\ Effect(c)
  /\ keys' = IF Keyed(c) THEN keys \cup {Key[c]} ELSE keys
  /\ UNCHANGED <<state, late, sent, used, scope, refused>>

ApplyLate(c) ==
  /\ c \in late
  /\ late' = late \ {c}
  /\ Effect(c)
  /\ keys' = IF Keyed(c) THEN keys \cup {Key[c]} ELSE keys
  /\ UNCHANGED <<state, request, sent, used, scope, refused>>

\* The owner of the replio key restricts it to some channels.
Restrict ==
  /\ scope /\ \E c \in Calls : Operation[c].scoped
  /\ scope' = FALSE
  /\ UNCHANGED <<state, used, refused>> /\ UNCHANGED provider

-----------------------------------------------------------------------------
Next ==
  \/ Restrict
  \/ \E c \in Calls :
       \/ Invoke(c) \/ Reserve(c) \/ Attempt(c) \/ CheckScope(c) \/ Send(c)
       \/ NetworkFails(c) \/ Refused(c) \/ Answered(c) \/ Wake(c) \/ Cancel(c)
       \/ Apply(c) \/ ApplyLate(c)

Spec == Init /\ [][Next]_vars

\* The adapter's own steps, and the deadline of the runtime; the provider owes
\* nothing.
FairSpec ==
  /\ Spec
  /\ \A c \in Calls : WF_vars(Reserve(c) \/ Attempt(c) \/ CheckScope(c)) /\ WF_vars(Cancel(c))

-----------------------------------------------------------------------------
TypeOK ==
  /\ state \in [Calls -> [at : {"new"} \cup Running \cup Outcomes, attempt : 0..5, safe : BOOLEAN]]
  /\ request \in [Calls -> {"none", "sent", "applied"}]
  /\ late \subseteq Calls /\ refused \subseteq Calls
  /\ sent \in [Calls -> 0..5] /\ used \in 0..Limit
  /\ scope \in BOOLEAN

\* A write without a key, or of an operation not declared retryable, is sent once
\* whatever becomes of its answer (Invoke, maxAttempts).
UnkeyedWritesSentOnce ==
  \A c \in Calls :
    Writes(c) /\ (Key[c] = None \/ ~Operation[c].retryableWrite) => sent[c] <= 1

\* One key, one effect: the attempts of a call and the calls that repeat its key
\* are applied once between them by a provider that honours keys, late requests
\* included; a write without a key is applied once at most.
AppliedOnce ==
  /\ \A c \in Calls : effects[c] <= 1
  /\ \A c, d \in Calls : c # d /\ Keyed(c) /\ Key[c] = Key[d] => effects[c] + effects[d] <= 1

\* A result is the answer to a request the provider applied, in this call or,
\* under the same key, in an earlier one (Answered).
ResultIsApplied ==
  \A c \in Calls : At(c, "result") /\ Writes(c) =>
    \E d \in Calls : effects[d] > 0 /\ (d = c \/ (Key[d] = Key[c] /\ Keyed(c)))

\* The calls that reach a budgeted provider stay within the reservations: no
\* attempt is made outside them (budgetedAdapter.Invoke).
Budgeted == {c \in Calls : Operation[c].budgeted}
BudgetIsKept ==
  /\ Cardinality({c \in Budgeted : sent[c] > 0}) <= used
  /\ \A c \in Budgeted : sent[c] <= 1

\* A refused scope check ends the call: no attempt follows it, whatever the
\* attempts before it were allowed (validateReplioContext).
RefusedStays ==
  \A c \in refused : sent'[c] = sent[c] /\ state'[c].at = "permission"

RefusedScopeIsFinal == [][RefusedStays]_vars

\* No request is sent under a key restricted when the attempt asked.
SendsUnderScope ==
  \A c \in Calls : Operation[c].scoped /\ ~scope /\ state'[c].at = "sending" => At(c, "sending")

SentUnderCheckedScope == [][SendsUnderScope]_vars

\* Every admitted call returns, whatever the provider does.
CallsEnd ==
  \A c \in Calls : state[c].at \in Running ~> state[c].at \in Outcomes
=============================================================================

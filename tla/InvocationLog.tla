--------------------------- MODULE InvocationLog ---------------------------
(***************************************************************************)
(* What the central service promises of an invocation identifier: it is    *)
(* admitted once, its operation reaches the provider at most once and only *)
(* while it runs, and the outcome it settles on is final.                  *)
(***************************************************************************)
EXTENDS Naturals

CONSTANT Invocations

VARIABLES
    status,             \* status[i]: what the log says of i
    executed            \* executed[i]: how often the provider carried i out

logVars == <<status, executed>>

LogInit ==
    /\ status = [i \in Invocations |-> "none"]
    /\ executed = [i \in Invocations |-> 0]

Accept(i) ==
    /\ status[i] = "none"
    /\ status' = [status EXCEPT ![i] = "running"]
    /\ UNCHANGED executed

Execute(i) ==
    /\ status[i] = "running"
    /\ executed[i] = 0
    /\ executed' = [executed EXCEPT ![i] = 1]
    /\ UNCHANGED status

Settle(i, outcome) ==
    /\ status[i] = "running"
    /\ outcome = "succeeded" => executed[i] = 1
    /\ status' = [status EXCEPT ![i] = outcome]
    /\ UNCHANGED executed

\* A crash settles every invocation it cut short.
Interrupt ==
    /\ status' = [i \in Invocations |->
                     IF status[i] = "running" THEN "outcome_unknown" ELSE status[i]]
    /\ UNCHANGED executed

LogNext ==
    \/ \E i \in Invocations :
          \/ Accept(i)
          \/ Execute(i)
          \/ \E outcome \in {"succeeded", "failed", "outcome_unknown"} : Settle(i, outcome)
    \/ Interrupt

LogSpec == LogInit /\ [][LogNext]_logVars
=============================================================================

----------------------------- MODULE RetryLoop -----------------------------
(***************************************************************************)
(* The retry bookkeeping of run_turn_internal and handle_completion_error  *)
(* (crates/agent2/src/thread.rs) on its own, with every class of           *)
(* completion error: requests of one turn fail with one error after        *)
(* another, and a round of tool results starts the count anew.  AgentThread *)
(* embeds the same steps with a few errors.                                *)
(***************************************************************************)
EXTENDS RetryPolicy, Sequences

CONSTANTS Errors,    \* the errors a provider may report
          Plans,     \* [cloud, plan, burn] settings the turn may run under
          MaxRounds  \* bound: rounds of tool results in the turn

\* Option<Duration>: a server asks for a delay in seconds, or for none.
ASSUME ErrorsAssumption == \A e \in Errors : e.retry_after \in Nat \cup {NoHint}

VARIABLES plan,      \* provider and plan, fixed for the turn
          attempt,   \* the u8 of run_turn_internal
          granted,   \* errors repeated since the last round of tool results
          waited,    \* seconds waited for them
          rounds, status

vars == <<plan, attempt, granted, waited, rounds, status>>

Init ==
  /\ plan \in Plans
  /\ attempt = 0 /\ granted = <<>> /\ waited = 0 /\ rounds = 0 /\ status = "running"

\* A request fails with e: it is repeated after a delay, or fails the turn.
handle_completion_error(e) ==
  /\ status = "running"
  /\ attempt' = attempt + 1
  /\ IF auto_retry(plan.cloud, plan.plan, plan.burn) /\ Retried(e, attempt')
     THEN /\ granted' = Append(granted, e)
          /\ waited' = waited + retry_delay(e, attempt')
          /\ UNCHANGED status
     ELSE status' = "failed" /\ UNCHANGED <<granted, waited>>
  /\ UNCHANGED <<plan, rounds>>

\* A request succeeds and its tools are done: attempt = 0.
ToolRound ==
  /\ status = "running" /\ rounds < MaxRounds
  /\ rounds' = rounds + 1
  /\ attempt' = 0 /\ granted' = <<>> /\ waited' = 0
  /\ UNCHANGED <<plan, status>>

EndTurn ==
  /\ status = "running"
  /\ status' = "ended"
  /\ UNCHANGED <<plan, attempt, granted, waited, rounds>>

Next == (\E e \in Errors : handle_completion_error(e)) \/ ToolRound \/ EndTurn
Spec == Init /\ [][Next]_vars

----------------------------------------------------------------------------
\* thread.rs:2009: time-based errors are repeated up to 4 times, errors that
\* might be fixed by retrying up to 3 times - however errors of different
\* kinds follow each other, no error is repeated as the (n+1)-st attempt when
\* its own kind allows n, so at most 4 repetitions separate two tool rounds.
RepetitionsWithinBudget ==
  /\ Len(granted) <= MAX_RETRY_ATTEMPTS
  /\ \A i \in DOMAIN granted : i <= retry_strategy_for(granted[i]).max_attempts

\* handle_completion_error: errors that retrying cannot fix end the turn
\* whatever was repeated before, and plans without automatic retry never wait.
HopelessNeverRepeated ==
  \A i \in DOMAIN granted :
    /\ granted[i].variant \notin {"AuthenticationError", "PermissionError", "NoApiKey",
                                  "ApiEndpointNotFound", "PromptTooLarge"}
    /\ granted[i].variant = "HttpResponseError" => granted[i].status \notin NeverHelps
    /\ plan.cloud => plan.plan # "none"

\* retry_delay: the exponent counts every attempt, those spent on other kinds
\* of error included; unless a server asks for a longer delay than BASE_RETRY_DELAY, the user
\* waits at most 5 + 10 + 20 + 40 seconds between two rounds.
WaitBounded ==
  (\A i \in DOMAIN granted : granted[i].retry_after <= 5) => waited <= 75
=============================================================================

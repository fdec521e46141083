-------------------------- MODULE RetryLoopProofs --------------------------
(***************************************************************************)
(* The retry budget, for every set of errors and plans and any number of   *)
(* tool rounds.                                                            *)
(***************************************************************************)
EXTENDS RetryLoop, SequenceTheorems, TLAPS

\* No strategy grants more than MAX_RETRY_ATTEMPTS, whatever the error.
LEMMA StrategyWithinMaximum ==
  ASSUME NEW e
  PROVE  retry_strategy_for(e).max_attempts \in 0..MAX_RETRY_ATTEMPTS
<1>1. http_strategy(e).max_attempts \in 0..4
  BY DEF http_strategy, Exponential, Fixed, NoRetry, MAX_RETRY_ATTEMPTS
<1>2. upstream_strategy(e).max_attempts \in 0..4
  BY DEF upstream_strategy, Fixed, MAX_RETRY_ATTEMPTS
<1> QED
  BY <1>1, <1>2 DEF retry_strategy_for, Fixed, NoRetry, MAX_RETRY_ATTEMPTS

\* Errors that retrying cannot fix have no attempts.
LEMMA HopelessHasNoAttempts ==
  ASSUME NEW e,
         \/ e.variant \in {"AuthenticationError", "PermissionError", "NoApiKey",
                           "ApiEndpointNotFound", "PromptTooLarge"}
         \/ e.variant = "HttpResponseError" /\ e.status \in NeverHelps
  PROVE  retry_strategy_for(e).max_attempts = 0
<1>1. e.status \in NeverHelps => http_strategy(e).max_attempts = 0
  BY DEF http_strategy, Exponential, Fixed, NoRetry, NeverHelps, TOO_MANY_REQUESTS
<1> QED
  BY <1>1 DEF retry_strategy_for, NoRetry

\* An error is repeated only while the attempts it was granted last.
Justified(e) ==
  /\ e.variant \notin {"AuthenticationError", "PermissionError", "NoApiKey",
                       "ApiEndpointNotFound", "PromptTooLarge"}
  /\ e.variant = "HttpResponseError" => e.status \notin NeverHelps
  /\ plan.cloud => plan.plan # "none"

\* While the turn runs, attempt counts the repetitions granted since the last
\* round of tools; afterwards it may have counted one that was not granted.
IInv ==
  /\ granted \in Seq(Errors) /\ attempt \in Nat
  /\ status = "running" => attempt = Len(granted)
  /\ RepetitionsWithinBudget
  /\ \A i \in DOMAIN granted : Justified(granted[i])

LEMMA InitIInv == Init => IInv
BY DEF Init, IInv, RepetitionsWithinBudget, MAX_RETRY_ATTEMPTS

LEMMA ErrorStep ==
  ASSUME IInv, NEW e \in Errors, handle_completion_error(e)
  PROVE  IInv'
<1>1. /\ attempt = Len(granted) /\ attempt' = attempt + 1 /\ attempt' \in Nat
      /\ granted \in Seq(Errors) /\ plan' = plan
  BY DEF handle_completion_error, IInv
<1>2. CASE auto_retry(plan.cloud, plan.plan, plan.burn) /\ Retried(e, attempt')
  <2>1. /\ granted' = Append(granted, e) /\ Len(granted') = attempt'
        /\ granted' \in Seq(Errors)
        /\ \A i \in 1..attempt : granted'[i] = granted[i]
        /\ granted'[attempt'] = e
    BY <1>1, <1>2 DEF handle_completion_error
  <2>2. attempt' <= retry_strategy_for(e).max_attempts
    BY <1>2 DEF Retried
  <2>3. attempt' <= MAX_RETRY_ATTEMPTS
    BY <1>1, <2>2, StrategyWithinMaximum DEF MAX_RETRY_ATTEMPTS
  <2>4. Justified(e)
    <3>1. retry_strategy_for(e).max_attempts # 0
      BY <1>1, <2>2, StrategyWithinMaximum DEF MAX_RETRY_ATTEMPTS, IInv
    <3>2. plan.cloud => plan.plan # "none"
      BY <1>2 DEF auto_retry
    <3> QED
      BY <3>1, <3>2, HopelessHasNoAttempts DEF Justified
  <2>5. ASSUME NEW i \in DOMAIN granted'
        PROVE  i <= retry_strategy_for(granted'[i]).max_attempts /\ Justified(granted'[i])
    <3>1. i \in 1..attempt \/ i = attempt'
      BY <1>1, <2>1
    <3>2. CASE i \in 1..attempt
      BY <1>1, <2>1, <3>2 DEF IInv, RepetitionsWithinBudget
    <3>3. CASE i = attempt'
      BY <2>1, <2>2, <2>4, <3>3
    <3> QED
      BY <3>1, <3>2, <3>3
  <2> QED
    BY <1>1, <2>1, <2>3, <2>5 DEF IInv, RepetitionsWithinBudget, Justified
<1>3. CASE ~(auto_retry(plan.cloud, plan.plan, plan.burn) /\ Retried(e, attempt'))
  <2>1. status' = "failed" /\ granted' = granted
    BY <1>3 DEF handle_completion_error
  <2> QED
    BY <1>1, <2>1 DEF IInv, RepetitionsWithinBudget, Justified
<1> QED
  BY <1>2, <1>3

LEMMA NextIInv ==
  ASSUME IInv, [Next]_vars
  PROVE  IInv'
<1>1. CASE ToolRound
  BY <1>1 DEF ToolRound, IInv, RepetitionsWithinBudget, MAX_RETRY_ATTEMPTS
<1>2. CASE EndTurn \/ UNCHANGED vars
  BY <1>2 DEF EndTurn, vars, IInv, RepetitionsWithinBudget, Justified
<1> QED
  BY <1>1, <1>2, ErrorStep DEF Next

\* However errors of different kinds follow each other, none is repeated
\* beyond the attempts of its own kind, and at most MAX_RETRY_ATTEMPTS
\* repetitions separate two rounds of tools.
THEOREM BudgetAlwaysKept == Spec => []RepetitionsWithinBudget
<1>1. IInv => RepetitionsWithinBudget
  BY DEF IInv
<1> QED
  BY InitIInv, NextIInv, <1>1, PTL DEF Spec

\* Errors that retrying cannot fix are never repeated, and nothing is repeated
\* for the hosted provider without a plan.
THEOREM HopelessAlwaysEnds == Spec => []HopelessNeverRepeated
<1>1. IInv => HopelessNeverRepeated
  BY DEF IInv, Justified, HopelessNeverRepeated
<1> QED
  BY InitIInv, NextIInv, <1>1, PTL DEF Spec

----------------------------------------------------------------------------
(* How long the user waits *)

\* The seconds n repetitions take at most when no server asks for more than
\* BASE_RETRY_DELAY: as if every delay doubled the one before it.
WaitLimit(n) == CASE n = 0 -> 0 [] n = 1 -> 5 [] n = 2 -> 15 [] n = 3 -> 35 [] OTHER -> 75

\* No server asks for a longer delay than BASE_RETRY_DELAY.
Modest(e) == e.retry_after <= 5

\* The wait is bounded by the number of repetitions it is made of.
WaitInv ==
  /\ waited \in Nat
  /\ (\A i \in DOMAIN granted : Modest(granted[i])) => waited <= WaitLimit(Len(granted))

\* The delay before the n-th attempt fits what that attempt adds to the limit.
LEMMA DelayWithinLimit ==
  ASSUME NEW e \in Errors, NEW n \in 1..4
  PROVE  /\ retry_delay(e, n) \in Nat
         /\ Modest(e) => retry_delay(e, n) <= WaitLimit(n) - WaitLimit(n - 1)
<1>1. HintOrBase(e) \in Nat /\ (Modest(e) => HintOrBase(e) <= 5)
  BY ErrorsAssumption DEF HintOrBase, Modest, NoHint, BASE_RETRY_DELAY
<1>2. \/ /\ retry_strategy_for(e).kind = "ExponentialBackoff"
         /\ retry_strategy_for(e).delay = 5
      \/ /\ retry_strategy_for(e).kind # "ExponentialBackoff"
         /\ retry_strategy_for(e).delay \in {0, 5, HintOrBase(e)}
  <2>1. \/ /\ http_strategy(e).kind = "ExponentialBackoff" /\ http_strategy(e).delay = 5
        \/ http_strategy(e).kind # "ExponentialBackoff" /\ http_strategy(e).delay \in {0, 5}
    BY DEF http_strategy, Exponential, Fixed, NoRetry, BASE_RETRY_DELAY
  <2>2. /\ upstream_strategy(e).kind # "ExponentialBackoff"
        /\ upstream_strategy(e).delay = HintOrBase(e)
    BY DEF upstream_strategy, Fixed
  <2> QED
    BY <2>1, <2>2 DEF retry_strategy_for, Fixed, NoRetry, BASE_RETRY_DELAY
<1>3. CASE retry_strategy_for(e).kind = "ExponentialBackoff"
  <2>1. retry_delay(e, n) = 5 * 2^(n - 1)
    BY <1>2, <1>3 DEF retry_delay
  <2>2. n = 1 => retry_delay(e, n) = 5
    BY <2>1
  <2>3. n = 2 => retry_delay(e, n) = 10
    BY <2>1
  <2>4. n = 3 => retry_delay(e, n) = 20
    <3>1. 2^(3 - 1) = 4
      OBVIOUS
    <3> QED
      BY <2>1, <3>1
  <2>5. n = 4 => retry_delay(e, n) = 40
    <3>1. 2^(4 - 1) = 8
      OBVIOUS
    <3> QED
      BY <2>1, <3>1
  <2> QED
    BY <2>2, <2>3, <2>4, <2>5 DEF WaitLimit
<1>4. CASE retry_strategy_for(e).kind # "ExponentialBackoff"
  <2>1. retry_delay(e, n) \in {0, 5, HintOrBase(e)}
    BY <1>2, <1>4 DEF retry_delay
  <2>2. 5 <= WaitLimit(n) - WaitLimit(n - 1) /\ WaitLimit(n) - WaitLimit(n - 1) \in Nat
    BY DEF WaitLimit
  <2> QED
    BY <1>1, <2>1, <2>2
<1> QED
  BY <1>3, <1>4

LEMMA WaitStep ==
  ASSUME IInv, WaitInv, [Next]_vars
  PROVE  WaitInv'
<1>1. ASSUME NEW e \in Errors, handle_completion_error(e)
      PROVE  WaitInv'
  <2>1. /\ attempt = Len(granted) /\ attempt' = attempt + 1 /\ attempt \in Nat
        /\ granted \in Seq(Errors)
    BY <1>1 DEF handle_completion_error, IInv
  <2>2. CASE auto_retry(plan.cloud, plan.plan, plan.burn) /\ Retried(e, attempt')
    <3>1. /\ granted' = Append(granted, e) /\ Len(granted') = attempt'
          /\ waited' = waited + retry_delay(e, attempt')
          /\ DOMAIN granted' = 1..attempt' /\ DOMAIN granted = 1..attempt
          /\ \A i \in 1..attempt : granted'[i] = granted[i]
          /\ granted'[attempt'] = e
      BY <1>1, <2>1, <2>2 DEF handle_completion_error
    <3>2. attempt' \in 1..4
      BY <2>1, <2>2, StrategyWithinMaximum DEF Retried, MAX_RETRY_ATTEMPTS
    <3>3. /\ retry_delay(e, attempt') \in Nat
          /\ Modest(e) => retry_delay(e, attempt') <= WaitLimit(attempt') - WaitLimit(attempt)
      BY <2>1, <3>2, DelayWithinLimit
    <3>4. WaitLimit(attempt) \in Nat /\ WaitLimit(attempt') \in Nat
      BY SMTT(20) DEF WaitLimit
    <3>5. SUFFICES ASSUME \A i \in DOMAIN granted' : Modest(granted'[i])
                   PROVE  waited' <= WaitLimit(attempt')
      BY <3>1, <3>3 DEF WaitInv
    <3>6. Modest(e) /\ \A i \in DOMAIN granted : Modest(granted[i])
      BY <2>1, <3>1, <3>2, <3>5
    <3>7. waited <= WaitLimit(attempt) /\ waited \in Nat
      BY <2>1, <3>6 DEF WaitInv
    <3> QED
      BY <3>1, <3>3, <3>4, <3>6, <3>7
  <2>3. CASE ~(auto_retry(plan.cloud, plan.plan, plan.burn) /\ Retried(e, attempt'))
    BY <1>1, <2>3 DEF handle_completion_error, WaitInv
  <2> QED
    BY <2>2, <2>3
<1>2. CASE ToolRound
  BY <1>2 DEF ToolRound, WaitInv, WaitLimit
<1>3. CASE EndTurn \/ UNCHANGED vars
  BY <1>3 DEF EndTurn, vars, WaitInv
<1> QED
  BY <1>1, <1>2, <1>3 DEF Next

\* Unless a server asks for a longer delay than BASE_RETRY_DELAY, the user waits
\* at most 75 seconds between two rounds of tools, however fixed and
\* exponential delays alternate.
THEOREM WaitAlwaysBounded == Spec => []WaitBounded
<1>1. Init => WaitInv
  BY DEF Init, WaitInv, WaitLimit
<1>2. IInv /\ WaitInv => WaitBounded
  <2> SUFFICES ASSUME IInv, WaitInv, \A i \in DOMAIN granted : granted[i].retry_after <= 5
               PROVE  waited <= 75
    BY DEF WaitBounded
  <2>1. waited <= WaitLimit(Len(granted)) /\ waited \in Nat
    BY DEF WaitInv, Modest
  <2>2. WaitLimit(Len(granted)) \in Nat /\ WaitLimit(Len(granted)) <= 75
    BY DEF WaitLimit
  <2> QED
    BY <2>1, <2>2
<1> QED
  BY InitIInv, NextIInv, WaitStep, <1>1, <1>2, PTL DEF Spec
=============================================================================

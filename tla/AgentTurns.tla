---------------------------- MODULE AgentTurns -----------------------------
(***************************************************************************)
(* What an agent connection promises of its turns, and all that AcpThread  *)
(* relies on: the prompt, resume, cancel and truncate operations of trait  *)
(* AgentConnection (crates/acp_thread/src/connection.rs).  Turns run one   *)
(* at a time, each has exactly one outcome, an outcome is final, and a     *)
(* turn that is overtaken or cancelled has the outcome "Cancelled".        *)
(***************************************************************************)
EXTENDS Naturals

CONSTANT MaxTurns

VARIABLES started,   \* number of turns started
          current,   \* the turn that runs, 0 when none does
          outcome    \* outcome of each turn, "none" before it has one

vars == <<started, current, outcome>>

Turns == 1..MaxTurns
Final == {"EndTurn", "Refusal", "MaxTokens", "Error"}

Init == started = 0 /\ current = 0 /\ outcome = [t \in Turns |-> "none"]

\* The outcomes once the turn that runs, if any, has been cancelled.
Interrupted ==
  IF current = 0 THEN outcome ELSE [outcome EXCEPT ![current] = "Cancelled"]

\* prompt and resume
Start ==
  /\ started < MaxTurns
  /\ started' = started + 1
  /\ current' = started + 1
  /\ outcome' = Interrupted

\* cancel, truncate, and a prompt that fails
Cancel == current' = 0 /\ outcome' = Interrupted /\ UNCHANGED started

Finish(reason) ==
  /\ current # 0
  /\ outcome' = [outcome EXCEPT ![current] = reason]
  /\ current' = 0
  /\ UNCHANGED started

Next == Start \/ Cancel \/ \E reason \in Final : Finish(reason)

Spec == Init /\ [][Next]_vars

\* Every turn gets its outcome.
LiveSpec == Spec /\ WF_vars(\E reason \in Final : Finish(reason))
=============================================================================

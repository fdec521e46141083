------------------------- MODULE AgentThreadProofs -------------------------
(***************************************************************************)
(* Theorems about AgentThread for every value of its constants: the type   *)
(* invariant, that stored tool uses are answered, and that every turn      *)
(* sends exactly one final event.                                          *)
(***************************************************************************)
EXTENDS AgentThread, SequenceTheorems, TLAPS

----------------------------------------------------------------------------
(* Lemmas about messages. *)

\* The constant messages are messages.
LEMMA ConstantMessages ==
  /\ Empty \in Messages
  /\ ResumeMessage \in Messages
  /\ \A u \in 0..MaxPrompts : UserMessage(u) \in Messages
  /\ 0 \in 0..MaxPrompts
<1>1. 0 \in 0..MaxPrompts
  BY BoundsAssumption
<1>2. NoResults \in [ToolIds -> Outcomes \cup {"none"}]
  BY DEF NoResults
<1>3. <<>> \in Seq(Chunks)
  OBVIOUS
<1> QED
  BY <1>1, <1>2, <1>3 DEF Messages, Empty, ResumeMessage, UserMessage

\* Tool uses of a message have ids of tools.
LEMMA ToolUsesAreToolIds ==
  ASSUME NEW p \in Messages
  PROVE  ToolUses(p) \subseteq ToolIds
<1> SUFFICES ASSUME NEW i \in DOMAIN p.content, p.content[i].kind = "tool_use"
             PROVE  p.content[i].id \in ToolIds
  BY DEF ToolUses
<1>1. p.content \in Seq(Chunks)
  BY DEF Messages
<1>2. p.content[i] \in Chunks
  BY <1>1
<1> QED
  BY <1>2 DEF Chunks, Kinds

\* Sealing a message keeps its type and content and answers its tool uses.
LEMMA SealedProperties ==
  ASSUME NEW p \in Messages
  PROVE  /\ Sealed(p) \in Messages
         /\ Sealed(p).role = p.role /\ Sealed(p).content = p.content
         /\ ToolUses(Sealed(p)) \subseteq Results(Sealed(p))
<1> DEFINE r == [t \in ToolIds |-> IF t \in ToolUses(p) /\ p.results[t] = "none"
                                   THEN "canceled" ELSE p.results[t]]
<1>1. p.results \in [ToolIds -> Outcomes \cup {"none"}]
  BY DEF Messages
<1>2. r \in [ToolIds -> Outcomes \cup {"none"}]
  BY <1>1 DEF Outcomes
<1>3. Sealed(p) = [p EXCEPT !.results = r]
  BY DEF Sealed
<1>4. /\ Sealed(p) \in Messages
      /\ Sealed(p).role = p.role /\ Sealed(p).content = p.content
      /\ Sealed(p).results = r
  BY <1>2, <1>3 DEF Messages
<1>5. ToolUses(Sealed(p)) = ToolUses(p)
  BY <1>4 DEF ToolUses
<1>6. \A t \in ToolUses(p) : t \in ToolIds /\ r[t] # "none"
  BY <1>1, ToolUsesAreToolIds
<1> HIDE DEF r
<1>7. ToolUses(p) \subseteq Results(Sealed(p))
  BY <1>4, <1>6 DEF Results
<1> QED
  BY <1>4, <1>5, <1>7

\* Flushing appends at most one message, and only an answered one.
LEMMA FlushedProperties ==
  ASSUME NEW ms \in Seq(Messages), NEW p \in Messages
  PROVE  /\ Flushed(ms, p) \in Seq(Messages)
         /\ Len(Flushed(ms, p)) \in {Len(ms), Len(ms) + 1}
         /\ \A i \in 1..Len(ms) : Flushed(ms, p)[i] = ms[i]
         /\ Answered(ms) => Answered(Flushed(ms, p))
<1>1. CASE p.content = <<>>
  BY <1>1 DEF Flushed
<1>2. CASE p.content # <<>>
  <2>1. Flushed(ms, p) = Append(ms, Sealed(p))
    BY <1>2 DEF Flushed
  <2>2. Sealed(p) \in Messages /\ ToolUses(Sealed(p)) \subseteq Results(Sealed(p))
    BY SealedProperties
  <2>3. /\ Append(ms, Sealed(p)) \in Seq(Messages)
        /\ Len(Append(ms, Sealed(p))) = Len(ms) + 1
        /\ \A i \in 1..Len(ms) : Append(ms, Sealed(p))[i] = ms[i]
        /\ Append(ms, Sealed(p))[Len(ms) + 1] = Sealed(p)
    BY <2>2
  <2>4. ASSUME Answered(ms) PROVE Answered(Flushed(ms, p))
    BY <2>1, <2>2, <2>3, <2>4 DEF Answered
  <2> QED
    BY <2>1, <2>3, <2>4
<1> QED
  BY <1>1, <1>2

\* A message that is not the agent's needs no answers.
LEMMA AppendAnswered ==
  ASSUME NEW ms \in Seq(Messages), NEW m \in Messages, m.role # "agent", Answered(ms)
  PROVE  Answered(Append(ms, m))
BY DEF Answered

\* Cutting messages off keeps the rest answered.
LEMMA SubSeqAnswered ==
  ASSUME NEW ms \in Seq(Messages), NEW n \in Int, n <= Len(ms)
  PROVE  /\ SubSeq(ms, 1, n) \in Seq(Messages)
         /\ Answered(ms) => Answered(SubSeq(ms, 1, n))
<1>1. SubSeq(ms, 1, n) \in Seq(Messages)
  OBVIOUS
<1>2. Len(SubSeq(ms, 1, n)) <= Len(ms)
      /\ \A i \in 1..Len(SubSeq(ms, 1, n)) : SubSeq(ms, 1, n)[i] = ms[i]
  OBVIOUS
<1> QED
  BY <1>1, <1>2 DEF Answered

----------------------------------------------------------------------------
(* The inductive invariant: besides the types, that a task runs exactly when *)
(* running_turn says so, only for a turn that was started, and that its own  *)
(* message is stored, so that a refusal cuts inside the messages.            *)

TaskMatchesTurn ==
  /\ running_turn <= turn
  /\ pc = "idle" <=> running_turn = 0
  /\ running_turn # 0 => message_ix < Len(messages)

IInv == TypeOK /\ TaskMatchesTurn /\ ToolUsesAnswered /\ OneFinalEvent

\* The final events after the running turn, if any, sent `reason`.
LEMMA FinalEventSent ==
  ASSUME TypeOK, TaskMatchesTurn, OneFinalEvent, NEW reason \in Reasons,
         running_turn # 0,
         events' = [events EXCEPT ![running_turn] = Append(@, reason)],
         running_turn' = 0, turn' = turn
  PROVE  events' \in [Turns -> Seq(Reasons)] /\ OneFinalEvent'
<1>1. running_turn \in Turns /\ turn \in Nat
  BY BoundsAssumption DEF TypeOK, TaskMatchesTurn, Turns
<1>2. \A t \in Turns : events[t] \in Seq(Reasons)
  BY DEF TypeOK
<1>3. \A t \in Turns : /\ events'[t] \in Seq(Reasons)
                       /\ Len(events'[t]) = IF t = running_turn THEN Len(events[t]) + 1
                                            ELSE Len(events[t])
  BY <1>1, <1>2 DEF TypeOK
<1>4. events' \in [Turns -> Seq(Reasons)]
  BY <1>2, <1>1 DEF TypeOK
<1>5. ASSUME NEW t \in Turns
      PROVE  Len(events'[t]) = IF t <= turn' /\ t # running_turn' THEN 1 ELSE 0
  <2>1. t # 0 /\ t \in Nat
    BY DEF Turns
  <2> QED
    BY <1>1, <1>3, <2>1 DEF OneFinalEvent, TaskMatchesTurn
<1> QED
  BY <1>4, <1>5 DEF OneFinalEvent

\* Cancelling sends the final event of the running turn and no other.
LEMMA CanceledEventsSent ==
  ASSUME TypeOK, TaskMatchesTurn, OneFinalEvent,
         events' = CanceledEvents,
         \/ running_turn' = 0 /\ turn' = turn
         \/ running_turn' = turn + 1 /\ turn' = turn + 1
  PROVE  events' \in [Turns -> Seq(Reasons)] /\ OneFinalEvent'
<1>0. running_turn \in Nat /\ turn \in Nat /\ running_turn <= turn /\ turn <= MaxTurns
      /\ Turns = 1..MaxTurns /\ MaxTurns \in Nat
  BY BoundsAssumption DEF TypeOK, TaskMatchesTurn, Turns
<1>1. \A t \in Turns : events[t] \in Seq(Reasons)
  BY DEF TypeOK
<1>2. /\ events' \in [Turns -> Seq(Reasons)]
      /\ \A t \in Turns : Len(events'[t]) = IF t = running_turn THEN Len(events[t]) + 1
                                            ELSE Len(events[t])
  <2>1. CASE running_turn = 0
    BY <1>0, <2>1 DEF CanceledEvents, TypeOK
  <2>2. CASE running_turn # 0
    <3>1. running_turn \in Turns
      BY <1>0, <2>2
    <3>2. "Cancelled" \in Reasons
      BY DEF Reasons
    <3>3. events' = [events EXCEPT ![running_turn] = Append(@, "Cancelled")]
      BY <2>2 DEF CanceledEvents
    <3>4. Append(events[running_turn], "Cancelled") \in Seq(Reasons)
          /\ Len(Append(events[running_turn], "Cancelled")) = Len(events[running_turn]) + 1
      BY <1>1, <3>1, <3>2
    <3> QED
      BY <3>1, <3>3, <3>4 DEF TypeOK
  <2> QED
    BY <2>1, <2>2
<1>3. ASSUME NEW t \in Turns
      PROVE  Len(events'[t]) = IF t <= turn' /\ t # running_turn' THEN 1 ELSE 0
  <2>1. t # 0 /\ t \in Nat
    BY DEF Turns
  <2>2. Len(events[t]) = IF t <= turn /\ t # running_turn THEN 1 ELSE 0
    BY DEF OneFinalEvent
  <2>3. Len(events'[t]) = IF t <= turn THEN 1 ELSE 0
    <3>1. CASE t = running_turn
      <4>1. Len(events[t]) = 0 /\ t <= turn
        BY <1>0, <2>1, <2>2, <3>1
      <4>2. Len(events'[t]) = Len(events[t]) + 1
        BY <1>2, <3>1
      <4> QED
        BY <4>1, <4>2
    <3>2. CASE t # running_turn
      <4>1. Len(events'[t]) = Len(events[t])
        BY <1>2, <3>2
      <4> QED
        BY <2>2, <3>2, <4>1
    <3> QED
      BY <3>1, <3>2
  <2>4. CASE running_turn' = 0 /\ turn' = turn
    BY <2>1, <2>3, <2>4
  <2>5. CASE running_turn' = turn + 1 /\ turn' = turn + 1
    BY <1>0, <2>1, <2>3, <2>5
  <2> QED
    BY <2>4, <2>5
<1> QED
  BY <1>2, <1>3 DEF OneFinalEvent


LEMMA InitIInv == Init => IInv
<1> SUFFICES ASSUME Init PROVE IInv
  OBVIOUS
<1>1. TypeOK
  <2>1. Empty \in Messages /\ <<>> \in Seq(Messages)
    BY ConstantMessages
  <2>2. events \in [Turns -> Seq(Reasons)]
    BY DEF Init
  <2>3. /\ tool_status \in [ToolIds -> Statuses]
        /\ running_tools \in [ToolIds -> Nat] /\ ready_errors \in [ToolIds -> Nat]
    BY DEF Init, Statuses, NoTools
  <2>4. /\ prompt_id \in 0..MaxPrompts /\ turn \in 0..MaxTurns
        /\ running_turn \in 0..MaxTurns /\ attempt \in 0..MAX_RETRY_ATTEMPTS
    BY BoundsAssumption DEF Init, MAX_RETRY_ATTEMPTS
  <2> QED
    BY <2>1, <2>2, <2>3, <2>4 DEF Init, TypeOK
<1>2. ToolUsesAnswered
  BY DEF Init, ToolUsesAnswered, Answered
<1>3. TaskMatchesTurn /\ OneFinalEvent
  BY BoundsAssumption DEF Init, TaskMatchesTurn, OneFinalEvent, Turns
<1> QED
  BY <1>1, <1>2, <1>3 DEF IInv

\* What cancelling does to the messages and the task keeps the invariant.
LEMMA CancelStep ==
  ASSUME IInv, cancel
  PROVE  IInv'
<1> USE DEF IInv
<1>1. messages' \in Seq(Messages) /\ ToolUsesAnswered'
  BY FlushedProperties DEF cancel, TypeOK, ToolUsesAnswered
<1>2. events' \in [Turns -> Seq(Reasons)] /\ OneFinalEvent'
  BY CanceledEventsSent DEF cancel
<1>3. TypeOK'
  BY <1>1, <1>2, ConstantMessages, BoundsAssumption
  DEF cancel, TypeOK, auxVars, TaskGone, FlushedSummary, AgedSummaryTask, Aged, NoTools,
      MAX_RETRY_ATTEMPTS
<1>4. TaskMatchesTurn'
  BY DEF cancel, TaskMatchesTurn, TaskGone, TypeOK
<1> QED
  BY <1>1, <1>2, <1>3, <1>4

LEMMA TruncateStep ==
  ASSUME IInv, NEW u \in 1..MaxPrompts, truncate(u)
  PROVE  IInv'
<1> USE DEF IInv
<1> DEFINE ms == Flushed(messages, pending_message)
           found == {i \in DOMAIN ms : ms[i].role = "user" /\ ms[i].id = u}
<1>1. ms \in Seq(Messages) /\ Answered(ms)
  BY FlushedProperties DEF TypeOK, ToolUsesAnswered
<1>2. /\ messages' \in Seq(Messages) /\ Answered(messages')
      /\ request_token_usage' \subseteq request_token_usage
      /\ summary' \in {"none", FlushedSummary(pending_message)}
  <2>1. CASE found = {} /\ messages' = ms
             /\ summary' = FlushedSummary(pending_message)
             /\ UNCHANGED request_token_usage
    BY <1>1, <2>1
  <2>2. ASSUME NEW position \in found, messages' = SubSeq(ms, 1, position - 1),
               request_token_usage' \subseteq request_token_usage, summary' = "none"
        PROVE  messages' \in Seq(Messages) /\ Answered(messages')
    <3>1. position - 1 \in Int /\ position - 1 <= Len(ms)
      BY <1>1
    <3> HIDE DEF ms, found
    <3> QED
      BY <1>1, <2>2, <3>1, SubSeqAnswered
  <2> QED
    BY <2>1, <2>2 DEF truncate
<1>3. events' \in [Turns -> Seq(Reasons)] /\ OneFinalEvent'
  BY CanceledEventsSent DEF truncate
<1>5. /\ running_turn' = 0 /\ TaskGone /\ pending_message' = Empty
      /\ summary_task' = AgedSummaryTask(messages')
      /\ UNCHANGED <<model, prompt_id, tool_use_limit_reached, title,
                     pending_title_generation, turn, tool_status, auxVars>>
  BY DEF truncate
<1> HIDE DEF ms, found
<1>6. TypeOK'
  BY <1>2, <1>3, <1>5, ConstantMessages, BoundsAssumption
  DEF TypeOK, auxVars, TaskGone, FlushedSummary, AgedSummaryTask, Aged, NoTools,
      MAX_RETRY_ATTEMPTS
<1>7. TaskMatchesTurn'
  BY <1>5 DEF TaskMatchesTurn, TaskGone, TypeOK
<1> QED
  BY <1>2, <1>3, <1>6, <1>7 DEF ToolUsesAnswered

\* run_turn, started or failed, with the message that send or resume pushed.
LEMMA RunTurnStep ==
  ASSUME IInv, NEW m \in Messages, m.role # "agent", NEW found \in BOOLEAN,
         prompt_id' \in 0..MaxPrompts, run_turn(m, found)
  PROVE  IInv'
<1> USE DEF IInv
<1> DEFINE ms == Flushed(Append(messages, m), pending_message)
<1>1. /\ Append(messages, m) \in Seq(Messages)
      /\ Len(Append(messages, m)) = Len(messages) + 1 /\ Len(messages) \in Nat
      /\ Answered(Append(messages, m))
  BY AppendAnswered DEF TypeOK, ToolUsesAnswered
<1>2. /\ ms \in Seq(Messages) /\ Answered(ms)
      /\ Len(ms) - 1 \in Nat
  <2> DEFINE pushed == Append(messages, m)
  <2>1. pushed \in Seq(Messages) /\ Answered(pushed) /\ pending_message \in Messages
        /\ Len(pushed) = Len(messages) + 1
    BY <1>1 DEF TypeOK
  <2> HIDE DEF pushed
  <2>2. /\ Flushed(pushed, pending_message) \in Seq(Messages)
        /\ Answered(Flushed(pushed, pending_message))
        /\ Len(Flushed(pushed, pending_message)) \in {Len(pushed), Len(pushed) + 1}
    BY <2>1, FlushedProperties
  <2>3. Len(Flushed(pushed, pending_message)) - 1 \in Nat
    BY <1>1, <2>1, <2>2
  <2> QED
    BY <2>2, <2>3 DEF pushed
<1>3. /\ messages' = ms /\ events' = CanceledEvents /\ pending_message' = Empty
      /\ summary_task' = Aged(summary_task) /\ turn < MaxTurns
      /\ UNCHANGED <<model, request_token_usage, title, pending_title_generation>>
  BY DEF run_turn
<1>4. CASE model /\ found
  <2>1. /\ turn' = turn + 1 /\ running_turn' = turn + 1 /\ message_ix' = Len(ms) - 1
        /\ tool_use_limit_reached' = FALSE /\ summary' = "none"
        /\ tool_status' = [t \in ToolIds |-> "none"]
        /\ pc' = "request" /\ attempt' = 0 /\ error' = NoError
        /\ running_tools' = NoTools /\ ready_errors' = NoTools
        /\ before' = messages /\ overtook' \in BOOLEAN
    BY <1>4 DEF run_turn
  <2> HIDE DEF ms
  <2>2. events' \in [Turns -> Seq(Reasons)] /\ OneFinalEvent'
    BY <1>3, <2>1, CanceledEventsSent
  <2>3. /\ turn' \in 0..MaxTurns /\ running_turn' \in 0..MaxTurns
        /\ attempt' \in 0..MAX_RETRY_ATTEMPTS /\ message_ix' \in Nat
    BY <1>2, <1>3, <2>1, BoundsAssumption DEF TypeOK, MAX_RETRY_ATTEMPTS
  <2>4. /\ tool_status' \in [ToolIds -> Statuses]
        /\ running_tools' \in [ToolIds -> Nat] /\ ready_errors' \in [ToolIds -> Nat]
    BY <2>1 DEF NoTools, Statuses
  <2>5. TypeOK'
    BY <1>2, <1>3, <2>1, <2>2, <2>3, <2>4, ConstantMessages DEF TypeOK, Aged
  <2>6. TaskMatchesTurn'
    BY <1>2, <1>3, <2>1 DEF TaskMatchesTurn, TypeOK
  <2> QED
    BY <1>2, <1>3, <2>2, <2>5, <2>6 DEF ToolUsesAnswered
<1>5. CASE ~(model /\ found)
  <2>1. /\ running_turn' = 0 /\ TaskGone
        /\ summary' = Aged(FlushedSummary(pending_message))
        /\ UNCHANGED <<turn, tool_use_limit_reached, tool_status, auxVars>>
    BY <1>5 DEF run_turn
  <2> HIDE DEF ms
  <2>2. events' \in [Turns -> Seq(Reasons)] /\ OneFinalEvent'
    BY <1>3, <2>1, CanceledEventsSent
  <2>3. TypeOK'
    BY <1>2, <1>3, <2>1, <2>2, ConstantMessages, BoundsAssumption
    DEF TypeOK, auxVars, TaskGone, FlushedSummary, Aged, NoTools, MAX_RETRY_ATTEMPTS
  <2>4. TaskMatchesTurn'
    BY <2>1 DEF TaskMatchesTurn, TaskGone, TypeOK
  <2> QED
    BY <1>2, <1>3, <2>2, <2>3, <2>4 DEF ToolUsesAnswered
<1> QED
  BY <1>4, <1>5

----------------------------------------------------------------------------
(* Steps of the task. *)

\* The turn ends with `reason` once p was flushed behind the messages.
LEMMA TurnEndsStep ==
  ASSUME IInv, NEW p \in Messages, NEW reason \in Reasons, running_turn # 0,
         TurnEnds(reason, Flushed(messages, p), p),
         pending_message' = Empty,
         summary_task' = AgedSummaryTask(messages'),
         pending_title_generation' \in BOOLEAN,
         tool_status' \in [ToolIds -> Statuses],
         UNCHANGED <<model, prompt_id, request_token_usage, tool_use_limit_reached,
                     title, turn, auxVars>>
  PROVE  IInv'
<1> USE DEF IInv
<1>1. Flushed(messages, p) \in Seq(Messages) /\ Answered(Flushed(messages, p))
  BY FlushedProperties DEF TypeOK, ToolUsesAnswered
<1>2. messages' \in Seq(Messages) /\ ToolUsesAnswered'
  <2>1. CASE reason # "Refusal"
    BY <1>1, <2>1 DEF TurnEnds, ToolUsesAnswered
  <2>2. CASE reason = "Refusal"
    <3>1. messages' = SubSeq(Flushed(messages, p), 1, message_ix)
      BY <2>2 DEF TurnEnds
    <3>2. message_ix \in Int /\ message_ix <= Len(Flushed(messages, p))
      BY FlushedProperties DEF TypeOK, TaskMatchesTurn
    <3> QED
      BY <1>1, <3>1, <3>2, SubSeqAnswered DEF ToolUsesAnswered
  <2> QED
    BY <2>1, <2>2
<1>3. /\ events' = [events EXCEPT ![running_turn] = Append(@, reason)]
      /\ running_turn' = 0 /\ TaskGone
      /\ summary' \in {FlushedSummary(p), Aged(FlushedSummary(p))}
  BY DEF TurnEnds
<1>4. events' \in [Turns -> Seq(Reasons)] /\ OneFinalEvent'
  BY <1>3, FinalEventSent
<1>5. TypeOK'
  BY <1>2, <1>3, <1>4, ConstantMessages, BoundsAssumption
  DEF TypeOK, auxVars, TaskGone, FlushedSummary, AgedSummaryTask, Aged, NoTools, MAX_RETRY_ATTEMPTS
<1>6. TaskMatchesTurn'
  BY <1>3 DEF TaskMatchesTurn, TaskGone, TypeOK
<1> QED
  BY <1>2, <1>4, <1>5, <1>6

\* The task goes on with another await.
LEMMA ContinuesStep ==
  ASSUME IInv, NEW p \in Messages, NEW next \in {"request", "retry"},
         NEW n \in 0..MAX_RETRY_ATTEMPTS, running_turn # 0,
         Continues(next, n, Flushed(messages, p), p),
         pending_message' = Empty,
         summary_task' = AgedSummaryTask(messages'),
         pending_title_generation' \in BOOLEAN,
         tool_status' \in [ToolIds -> Statuses],
         UNCHANGED <<model, prompt_id, request_token_usage, tool_use_limit_reached,
                     title, turn, auxVars>>
  PROVE  IInv'
<1> USE DEF IInv
<1>1. /\ messages' \in Seq(Messages) /\ ToolUsesAnswered'
      /\ Len(messages) <= Len(messages')
  BY FlushedProperties DEF TypeOK, ToolUsesAnswered, Continues
<1>2. OneFinalEvent'
  BY DEF OneFinalEvent, Continues
<1>3. TypeOK'
  BY <1>1, ConstantMessages
  DEF TypeOK, auxVars, Continues, FlushedSummary, AgedSummaryTask, Aged, NoTools
<1>4. TaskMatchesTurn'
  BY <1>1 DEF TaskMatchesTurn, TypeOK, Continues
<1> QED
  BY <1>1, <1>2, <1>3, <1>4

LEMMA RequestOverStep ==
  ASSUME IInv, NEW p \in Messages, NEW e \in Errors \cup {NoError}, NEW end_turn \in BOOLEAN,
         running_turn # 0, RequestOver(p, e, end_turn),
         tool_status' \in [ToolIds -> Statuses]
  PROVE  IInv'
<1> DEFINE ms == Flushed(messages, p)
<1>1. /\ pending_message' = Empty /\ pending_title_generation' \in BOOLEAN
      /\ summary_task' = AgedSummaryTask(messages')
      /\ UNCHANGED <<model, prompt_id, request_token_usage, tool_use_limit_reached,
                     title, turn, auxVars>>
  BY DEF RequestOver, generate_title, IInv, TypeOK
<1>2. CASE e # NoError /\ Repeated(e, attempt + 1) /\ Continues("retry", attempt + 1, ms, p)
  <2>1. attempt + 1 \in 0..MAX_RETRY_ATTEMPTS
    <3>1. attempt + 1 <= retry_strategy_for(e).max_attempts
          /\ retry_strategy_for(e).max_attempts \in 0..MAX_RETRY_ATTEMPTS
      BY <1>2, ErrorsAssumption DEF Repeated, Retried
    <3> QED
      BY <3>1 DEF IInv, TypeOK, MAX_RETRY_ATTEMPTS
  <2> QED
    BY <1>1, <1>2, <2>1, ContinuesStep
<1>3. CASE TurnEnds("Error", ms, p)
  BY <1>1, <1>3, TurnEndsStep DEF Reasons
<1>4. CASE TurnEnds("EndTurn", ms, p)
  BY <1>1, <1>4, TurnEndsStep DEF Reasons
<1>5. CASE Continues("request", 0, ms, p)
  <2>1. 0 \in 0..MAX_RETRY_ATTEMPTS
    BY DEF MAX_RETRY_ATTEMPTS
  <2> QED
    BY <1>1, <1>5, <2>1, ContinuesStep
<1> QED
  BY <1>2, <1>3, <1>4, <1>5 DEF RequestOver

LEMMA ToolResultStep ==
  ASSUME IInv, NEW t \in ToolIds, NEW outcome \in {"ok", "error"},
         NEW running \in [ToolIds -> Nat], NEW ready \in [ToolIds -> Nat],
         ToolResult(t, outcome, running, ready)
  PROVE  IInv'
<1> DEFINE p == [pending_message EXCEPT !.results[t] = outcome]
<1>1. p \in Messages
  BY DEF IInv, TypeOK, Messages, Outcomes
<1>2. running_turn # 0
  BY DEF ToolResult, IInv, TaskMatchesTurn
<1>3. tool_status' \in [ToolIds -> Statuses]
  BY DEF ToolResult, IInv, TypeOK, Statuses
<1> HIDE DEF p
<1>4. CASE NoTasks(running, ready)
  <2>1. RequestOver(p, error, FALSE)
    BY <1>4 DEF ToolResult, p
  <2> QED
    BY <1>1, <1>2, <1>3, <2>1, RequestOverStep DEF IInv, TypeOK
<1>5. CASE ~NoTasks(running, ready)
  <2>1. /\ pending_message' = p
        /\ running_tools' = running /\ ready_errors' = ready
        /\ UNCHANGED <<model, prompt_id, messages, request_token_usage,
                       tool_use_limit_reached, running_turn, titleVars, turn, events,
                       pc, message_ix, attempt, error, auxVars>>
    BY <1>5 DEF ToolResult, p
  <2> QED
    BY <1>1, <1>3, <2>1
    DEF IInv, TypeOK, auxVars, TaskMatchesTurn, ToolUsesAnswered, OneFinalEvent, titleVars
<1> QED
  BY <1>4, <1>5


\* Steps that leave the messages, the turns and the task's place alone.
LEMMA QuietStep ==
  ASSUME IInv, TypeOK',
         UNCHANGED <<messages, turn, running_turn, events>>,
         message_ix' = message_ix,
         pc' = pc \/ (pc # "idle" /\ pc' # "idle")
  PROVE  IInv'
BY DEF IInv, TaskMatchesTurn, ToolUsesAnswered, OneFinalEvent

LEMMA StreamEventStep ==
  ASSUME IInv, StreamEvent
  PROVE  IInv'
<1> USE DEF IInv
<1>1. CASE StartMessage
  <2>1. TypeOK'
    BY <1>1, ConstantMessages
    DEF StartMessage, TypeOK, auxVars, titleVars, chanVars, taskVars
  <2> QED
    BY <1>1, <2>1, QuietStep DEF StartMessage, chanVars, taskVars
<1>2. ASSUME NEW kind \in TextKinds, TextChunk(kind)
      PROVE  IInv'
  <2>1. Chunk(kind) \in Chunks
    BY FlagsAssumption DEF Chunk, Chunks
  <2>2. Append(pending_message.content, Chunk(kind)) \in Seq(Chunks)
    BY <2>1 DEF TypeOK, Messages
  <2>3. pending_message' \in Messages
    BY <1>2, <2>2 DEF TextChunk, TypeOK, Messages
  <2>4. TypeOK'
    BY <1>2, <2>3 DEF TextChunk, TypeOK, auxVars, titleVars, chanVars, taskVars
  <2> QED
    BY <1>2, <2>4, QuietStep DEF TextChunk, chanVars, taskVars
<1>3. ASSUME NEW t \in ToolIds, NEW known \in BOOLEAN, NEW complete \in BOOLEAN,
             handle_tool_use_event(t, known, complete)
      PROVE  IInv'
  <2> DEFINE p == pending_message
             replaces == /\ p.content # <<>>
                         /\ LastChunk(p).kind = "tool_use" /\ LastChunk(p).id = t
             content == IF replaces
                        THEN [p.content EXCEPT ![Len(p.content)] = ToolUse(t, complete)]
                        ELSE Append(p.content, ToolUse(t, complete))
  <2>1. ToolUse(t, complete) \in Chunks
    BY DEF ToolUse, Chunks
  <2>2. content \in Seq(Chunks)
    <3>1. p.content \in Seq(Chunks)
      BY DEF TypeOK, Messages
    <3>2. CASE replaces
      <4>1. Len(p.content) \in 1..Len(p.content)
        BY <3>1, <3>2, EmptySeq
      <4> QED
        BY <2>1, <3>1, <3>2, <4>1, ExceptSeq
    <3>3. CASE ~replaces
      BY <2>1, <3>1, <3>3
    <3> QED
      BY <3>2, <3>3
  <2>3. pending_message' = [p EXCEPT !.content = content]
    BY <1>3 DEF handle_tool_use_event
  <2> HIDE DEF content, replaces
  <2>4. pending_message' \in Messages
    BY <2>2, <2>3 DEF TypeOK, Messages
  <2>5. /\ tool_status' \in [ToolIds -> Statuses]
        /\ running_tools' \in [ToolIds -> Nat] /\ ready_errors' \in [ToolIds -> Nat]
    BY <1>3, SMTT(20) DEF handle_tool_use_event, TypeOK, Statuses
  <2>6. UNCHANGED <<model, prompt_id, messages, request_token_usage,
                    tool_use_limit_reached, running_turn, titleVars, turn, events, pc,
                    message_ix, attempt, error, auxVars>>
    BY <1>3 DEF handle_tool_use_event
  <2>7. TypeOK'
    BY <2>4, <2>5, <2>6 DEF TypeOK, auxVars, titleVars
  <2> QED
    BY <2>6, <2>7, QuietStep
<1>4. ASSUME NEW t \in ToolIds, handle_tool_use_json_parse_error_event(t)
      PROVE  IInv'
  <2>1. ready_errors' \in [ToolIds -> Nat]
    BY <1>4 DEF handle_tool_use_json_parse_error_event, TypeOK
  <2>2. TypeOK'
    BY <1>4, <2>1
    DEF handle_tool_use_json_parse_error_event, TypeOK, auxVars, threadVars, titleVars, chanVars
  <2> QED
    BY <1>4, <2>2, QuietStep
    DEF handle_tool_use_json_parse_error_event, threadVars, chanVars
<1>5. CASE update_token_usage
  <2>1. request_token_usage' \subseteq 0..MaxPrompts
    <3>1. PICK i \in LastUserMessage(messages) :
            request_token_usage' = request_token_usage \cup {messages[i].id}
      BY <1>5 DEF update_token_usage
    <3>2. messages[i] \in Messages
      BY <3>1 DEF LastUserMessage, TypeOK
    <3> QED
      BY <3>1, <3>2 DEF TypeOK, Messages
  <2>2. TypeOK'
    BY <1>5, <2>1 DEF update_token_usage, TypeOK, auxVars, titleVars, chanVars, taskVars
  <2> QED
    BY <1>5, <2>2, QuietStep DEF update_token_usage, chanVars, taskVars
<1>6. CASE ToolUseLimitReached
  <2>1. TypeOK'
    BY <1>6 DEF ToolUseLimitReached, TypeOK, auxVars, titleVars, chanVars, taskVars
  <2> QED
    BY <1>6, <2>1, QuietStep DEF ToolUseLimitReached, chanVars, taskVars
<1>7. ASSUME NEW reason \in {"Refusal", "MaxTokens"}, StopEvent(reason)
      PROVE  IInv'
  <2>1. reason \in Reasons /\ running_turn # 0
    BY <1>7 DEF Reasons, StopEvent, TaskMatchesTurn
  <2> QED
    BY <1>7, <2>1, TurnEndsStep DEF StopEvent, TypeOK
<1> QED
  BY <1>1, <1>2, <1>3, <1>4, <1>5, <1>6, <1>7 DEF StreamEvent

LEMMA RetryTimerStep ==
  ASSUME IInv, RetryTimer
  PROVE  IInv'
<1> USE DEF IInv
<1>1. /\ messages' \in Seq(Messages) /\ Answered(messages')
      /\ Len(messages) <= Len(messages')
  <2>1. ResumeMessage \in Messages /\ ResumeMessage.role # "agent"
    BY ConstantMessages DEF ResumeMessage
  <2>2. messages' = messages \/ messages' = Append(messages, ResumeMessage)
    BY DEF RetryTimer
  <2>3. /\ Append(messages, ResumeMessage) \in Seq(Messages)
        /\ Len(messages) <= Len(Append(messages, ResumeMessage))
    BY <2>1 DEF TypeOK
  <2>4. Answered(Append(messages, ResumeMessage))
    BY <2>1, AppendAnswered DEF TypeOK, ToolUsesAnswered
  <2>5. Len(messages) <= Len(messages)
    BY DEF TypeOK
  <2> QED
    BY <2>2, <2>3, <2>4, <2>5 DEF TypeOK, ToolUsesAnswered
<1>2. /\ pc = "retry" /\ pc' = "request"
      /\ summary' \in {summary, Aged(summary)}
      /\ summary_task' = AgedSummaryTask(messages')
      /\ UNCHANGED <<model, prompt_id, pending_message, request_token_usage,
                     tool_use_limit_reached, running_turn, title, pending_title_generation,
                     chanVars, message_ix, attempt, error, running_tools, ready_errors,
                     auxVars>>
  BY DEF RetryTimer
<1>3. TypeOK'
  BY <1>1, <1>2 DEF TypeOK, auxVars, Aged, AgedSummaryTask, chanVars
<1>4. TaskMatchesTurn' /\ OneFinalEvent'
  BY <1>1, <1>2 DEF TaskMatchesTurn, OneFinalEvent, TypeOK, chanVars
<1> QED
  BY <1>1, <1>3, <1>4 DEF ToolUsesAnswered

----------------------------------------------------------------------------
\* Every step keeps the invariant.
LEMMA NextIInv == IInv /\ [Next]_vars => IInv'
<1> SUFFICES ASSUME IInv, [Next]_vars PROVE IInv'
  OBVIOUS
<1> USE DEF IInv
<1>1. CASE UNCHANGED vars
  BY <1>1 DEF vars, threadVars, titleVars, chanVars, taskVars, TypeOK, auxVars, TaskMatchesTurn,
              ToolUsesAnswered, OneFinalEvent
<1>2. CASE Calls
  <2>1. CASE SetModel
    <3>1. TypeOK'
      BY <2>1 DEF SetModel, TypeOK, auxVars, titleVars, chanVars, taskVars
    <3> QED
      BY <2>1, <3>1, QuietStep DEF SetModel, chanVars, taskVars
  <2>2. CASE cancel
    BY <2>2, CancelStep
  <2>3. ASSUME NEW found \in BOOLEAN, send(found) PROVE IInv'
    <3>1. prompt_id' \in 0..MaxPrompts
      BY <2>3, BoundsAssumption DEF send, TypeOK
    <3>2. UserMessage(prompt_id') \in Messages /\ UserMessage(prompt_id').role # "agent"
      BY <3>1, ConstantMessages DEF UserMessage
    <3> QED
      BY <2>3, <3>1, <3>2, RunTurnStep DEF send
  <2>4. ASSUME NEW found \in BOOLEAN, resume(found) PROVE IInv'
    <3>1. ResumeMessage \in Messages /\ ResumeMessage.role # "agent"
      BY ConstantMessages DEF ResumeMessage
    <3> QED
      BY <2>4, <3>1, RunTurnStep DEF resume, TypeOK
  <2>5. ASSUME NEW u \in 1..MaxPrompts, truncate(u) PROVE IInv'
    BY <2>5, TruncateStep
  <2>6. CASE set_title
    <3>1. TypeOK'
      BY <2>6 DEF set_title, TypeOK, auxVars, threadVars, chanVars, taskVars
    <3> QED
      BY <2>6, <3>1, QuietStep DEF set_title, threadVars, chanVars, taskVars
  <2>7. CASE Summarize
    <3>1. TypeOK'
      BY <2>7 DEF Summarize, TypeOK, auxVars, threadVars, chanVars, taskVars
    <3> QED
      BY <2>7, <3>1, QuietStep DEF Summarize, threadVars, chanVars, taskVars
  <2> QED
    BY <1>2, <2>1, <2>2, <2>3, <2>4, <2>5, <2>6, <2>7 DEF Calls
<1>3. ASSUME NEW ok \in BOOLEAN, TitleGenerated(ok) \/ SummaryReady(ok) PROVE IInv'
  <2>1. CASE TitleGenerated(ok)
    <3>1. TypeOK'
      BY <2>1 DEF TitleGenerated, TypeOK, auxVars, threadVars, chanVars, taskVars
    <3> QED
      BY <2>1, <3>1, QuietStep DEF TitleGenerated, threadVars, chanVars, taskVars
  <2>2. CASE SummaryReady(ok)
    <3>1. TypeOK'
      BY <2>2 DEF SummaryReady, TypeOK, auxVars, threadVars, chanVars, taskVars
    <3> QED
      BY <2>2, <3>1, QuietStep DEF SummaryReady, threadVars, chanVars, taskVars
  <2> QED
    BY <1>3, <2>1, <2>2
<1>4. CASE StreamEvent
  BY <1>4, StreamEventStep
<1>5. CASE RequestAccepted
  <2>1. TypeOK'
    BY <1>5 DEF RequestAccepted, TypeOK, auxVars, threadVars, titleVars, chanVars
  <2> QED
    BY <1>5, <2>1, QuietStep DEF RequestAccepted, threadVars, chanVars
<1>6. ASSUME NEW e \in Errors, RequestFailed(e) PROVE IInv'
  BY <1>6, RequestOverStep DEF RequestFailed, TypeOK, TaskMatchesTurn
<1>7. ASSUME NEW e \in Errors \cup {NoError}, StreamOver(e) PROVE IInv'
  <2>1. CASE NoTasks(running_tools, ready_errors)
    BY <1>7, <2>1, RequestOverStep DEF StreamOver, TypeOK, TaskMatchesTurn
  <2>2. CASE ~NoTasks(running_tools, ready_errors)
    <3>1. /\ pc = "stream" /\ pc' = "tools" /\ error' = e /\ tool_status' = tool_status
          /\ UNCHANGED <<threadVars, titleVars, turn, events, message_ix, attempt,
                         running_tools, ready_errors, auxVars>>
      BY <1>7, <2>2 DEF StreamOver
    <3>2. TypeOK'
      BY <3>1 DEF TypeOK, auxVars, threadVars, titleVars
    <3> QED
      BY <3>1, <3>2, QuietStep DEF threadVars
  <2> QED
    BY <2>1, <2>2
<1>8. ASSUME NEW t \in ToolIds, ErrorDelivered(t) PROVE IInv'
  <2>1. [ready_errors EXCEPT ![t] = @ - 1] \in [ToolIds -> Nat]
    BY <1>8 DEF ErrorDelivered, TypeOK
  <2> QED
    BY <1>8, <2>1, ToolResultStep DEF ErrorDelivered, TypeOK
<1>9. ASSUME NEW t \in ToolIds, NEW o \in {"ok", "error"}, ToolFinishes(t, o) PROVE IInv'
  <2>1. [running_tools EXCEPT ![t] = @ - 1] \in [ToolIds -> Nat]
    BY <1>9 DEF ToolFinishes, TypeOK
  <2> QED
    BY <1>9, <2>1, ToolResultStep DEF ToolFinishes, TypeOK
<1>10. CASE RetryTimer
  BY <1>10, RetryTimerStep
<1> QED
  BY <1>1, <1>2, <1>3, <1>4, <1>5, <1>6, <1>7, <1>8, <1>9, <1>10
  DEF Next, Background, RequestAnswered, StreamCloses, ToolDone

\* The invariant holds in every reachable state.
THEOREM Invariance == Spec => []IInv
<1>1. Init => IInv
  BY InitIInv
<1>2. IInv /\ [Next]_vars => IInv'
  BY NextIInv
<1> QED
  BY <1>1, <1>2, PTL DEF Spec

\* Types: in particular no request is repeated more than MAX_RETRY_ATTEMPTS
\* times in a row, whatever errors the provider reports.
THEOREM TypeCorrect == Spec => []TypeOK
<1>1. IInv => TypeOK
  BY DEF IInv
<1> QED
  BY Invariance, <1>1, PTL

\* However turns are interrupted, every stored tool use has its result, for
\* any tools, any number of prompts and any length of answers.
THEOREM ToolUsesAlwaysAnswered == Spec => []ToolUsesAnswered
<1>1. IInv => ToolUsesAnswered
  BY DEF IInv
<1> QED
  BY Invariance, <1>1, PTL

\* Every turn that is over has sent exactly one final event, and the turn that
\* runs none.
THEOREM ExactlyOneFinalEvent == Spec => []OneFinalEvent
<1>1. IInv => OneFinalEvent
  BY DEF IInv
<1> QED
  BY Invariance, <1>1, PTL
=============================================================================

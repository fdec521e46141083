------------------------ MODULE AgentContractProofs ------------------------
(***************************************************************************)
(* More theorems about AgentThread, on top of the inductive invariant of   *)
(* AgentThreadProofs, for every value of its constants: it keeps the       *)
(* contract AgentTurns, step by step; the user's title stays; no tool is   *)
(* left running and no result is lost; a refusal restores the conversation *)
(* and every request ends with the user's side, but for what a turn that   *)
(* is overtaken leaves behind the prompt of its successor.                 *)
(***************************************************************************)
EXTENDS AgentThreadProofs

----------------------------------------------------------------------------
(* The outcomes that the channels tell. *)

\* The channel of the running turn is empty, so `reason` becomes its outcome.
LEMMA OutcomeOfFinalEvent ==
  ASSUME IInv, running_turn # 0, NEW reason \in Reasons,
         events' = [events EXCEPT ![running_turn] = Append(@, reason)]
  PROVE  Outcome' = [Outcome EXCEPT ![running_turn] = reason]
<1>1. running_turn \in Turns
  BY BoundsAssumption DEF IInv, TypeOK, Turns
<1>2. events[running_turn] = <<>>
  <2>1. Len(events[running_turn]) = 0 /\ events[running_turn] \in Seq(Reasons)
    BY <1>1 DEF IInv, OneFinalEvent, TypeOK
  <2> QED
    BY <2>1, EmptySeq
<1>3. events'[running_turn] = <<reason>>
  BY <1>1, <1>2 DEF IInv, TypeOK
<1>4. ASSUME NEW t \in Turns, t # running_turn PROVE events'[t] = events[t]
  BY <1>4 DEF IInv, TypeOK
<1>5. \A t \in Turns : Outcome'[t] = [Outcome EXCEPT ![running_turn] = reason][t]
  <2>1. Outcome'[running_turn] = reason
    BY <1>1, <1>3 DEF Outcome
  <2>2. ASSUME NEW t \in Turns, t # running_turn PROVE Outcome'[t] = Outcome[t]
    BY <1>4, <2>2 DEF Outcome
  <2>3. Outcome = [t \in Turns |-> Outcome[t]]
    BY DEF Outcome
  <2> QED
    BY <2>1, <2>2, <2>3
<1> QED
  BY <1>5 DEF Outcome

\* Cancelling interrupts, as the contract says.
LEMMA OutcomeOfCancel ==
  ASSUME IInv, events' = CanceledEvents
  PROVE  Outcome' = Contract!Interrupted
<1>1. CASE running_turn = 0
  BY <1>1 DEF CanceledEvents, Outcome, Contract!Interrupted
<1>2. CASE running_turn # 0
  <2>1. "Cancelled" \in Reasons
    BY DEF Reasons
  <2>2. Outcome' = [Outcome EXCEPT ![running_turn] = "Cancelled"]
    BY <1>2, <2>1, OutcomeOfFinalEvent DEF CanceledEvents
  <2> QED
    BY <1>2, <2>2 DEF Contract!Interrupted
<1> QED
  BY <1>1, <1>2

----------------------------------------------------------------------------
(* Each step of the thread is a step of the contract or a stutter. *)

ContractStep == Contract!Next \/ UNCHANGED Contract!vars

\* Steps that leave turns and channels alone.
LEMMA Stutters ==
  ASSUME UNCHANGED <<turn, running_turn, events>>
  PROVE  ContractStep
BY DEF ContractStep, Contract!vars, Outcome

LEMMA Cancels ==
  ASSUME IInv, events' = CanceledEvents, running_turn' = 0, turn' = turn
  PROVE  ContractStep
BY OutcomeOfCancel DEF ContractStep, Contract!Next, Contract!Cancel

LEMMA Starts ==
  ASSUME IInv, NEW m, NEW found \in BOOLEAN, run_turn(m, found)
  PROVE  ContractStep
<1>1. events' = CanceledEvents /\ turn < MaxTurns
  BY DEF run_turn
<1>2. CASE model /\ found
  <2>1. turn' = turn + 1 /\ running_turn' = turn + 1
    BY <1>2 DEF run_turn
  <2> QED
    BY <1>1, <2>1, OutcomeOfCancel DEF ContractStep, Contract!Next, Contract!Start
<1>3. CASE ~(model /\ found)
  BY <1>1, <1>3, Cancels DEF run_turn
<1> QED
  BY <1>2, <1>3

LEMMA Finishes ==
  ASSUME IInv, running_turn # 0, turn' = turn, NEW ms, NEW p,
         NEW reason \in {"EndTurn", "Refusal", "MaxTokens", "Error"},
         TurnEnds(reason, ms, p)
  PROVE  ContractStep
<1>1. reason \in Reasons /\ reason \in Contract!Final
  BY DEF Reasons, Contract!Final
<1>2. Outcome' = [Outcome EXCEPT ![running_turn] = reason] /\ running_turn' = 0
  BY <1>1, OutcomeOfFinalEvent DEF TurnEnds
<1> QED
  BY <1>1, <1>2 DEF ContractStep, Contract!Next, Contract!Finish

LEMMA RequestOverContract ==
  ASSUME IInv, running_turn # 0, NEW p, NEW e, NEW end_turn,
         RequestOver(p, e, end_turn)
  PROVE  ContractStep
<1> DEFINE ms == Flushed(messages, p)
<1>1. turn' = turn
  BY DEF RequestOver
<1>2. CASE TurnEnds("Error", ms, p) \/ TurnEnds("EndTurn", ms, p)
  BY <1>1, <1>2, Finishes
<1>3. ASSUME NEW next, NEW n, Continues(next, n, ms, p) PROVE ContractStep
  BY <1>1, <1>3, Stutters DEF Continues
<1> QED
  BY <1>2, <1>3 DEF RequestOver

LEMMA NextContract ==
  ASSUME IInv, [Next]_vars
  PROVE  ContractStep
<1>1. pc # "idle" => running_turn # 0
  BY DEF IInv, TaskMatchesTurn
<1>2. CASE UNCHANGED vars
  BY <1>2, Stutters DEF vars, threadVars, chanVars
<1>3. CASE Calls
  <2>1. CASE SetModel
    BY <2>1, Stutters DEF SetModel, chanVars
  <2>2. CASE cancel
    BY <2>2, Cancels DEF cancel
  <2>3. ASSUME NEW found \in BOOLEAN, send(found) \/ resume(found) PROVE ContractStep
    BY <2>3, Starts DEF send, resume
  <2>4. ASSUME NEW u \in 1..MaxPrompts, truncate(u) PROVE ContractStep
    BY <2>4, Cancels DEF truncate
  <2>5. CASE set_title \/ Summarize
    BY <2>5, Stutters DEF set_title, Summarize, threadVars, chanVars
  <2> QED
    BY <1>3, <2>1, <2>2, <2>3, <2>4, <2>5 DEF Calls
<1>4. CASE Background
  BY <1>4, Stutters DEF Background, TitleGenerated, SummaryReady, threadVars, chanVars
<1>5. CASE StreamEvent
  <2>1. ASSUME NEW reason \in {"Refusal", "MaxTokens"}, StopEvent(reason) PROVE ContractStep
    BY <1>1, <2>1, Finishes DEF StopEvent
  <2>2. CASE StartMessage \/ update_token_usage \/ ToolUseLimitReached
    BY <2>2, Stutters DEF StartMessage, update_token_usage, ToolUseLimitReached, chanVars
  <2>3. ASSUME NEW kind \in TextKinds, TextChunk(kind) PROVE ContractStep
    BY <2>3, Stutters DEF TextChunk, chanVars
  <2>4. ASSUME NEW t \in ToolIds, NEW known \in BOOLEAN, NEW complete \in BOOLEAN,
               handle_tool_use_event(t, known, complete)
        PROVE  ContractStep
    BY <2>4, Stutters DEF handle_tool_use_event
  <2>5. ASSUME NEW t \in ToolIds, handle_tool_use_json_parse_error_event(t)
        PROVE  ContractStep
    BY <2>5, Stutters DEF handle_tool_use_json_parse_error_event, threadVars, chanVars
  <2> QED
    BY <1>5, <2>1, <2>2, <2>3, <2>4, <2>5 DEF StreamEvent
<1>6. CASE RequestAccepted
  BY <1>6, Stutters DEF RequestAccepted, threadVars, chanVars
<1>7. ASSUME NEW e, RequestFailed(e) PROVE ContractStep
  BY <1>1, <1>7, RequestOverContract DEF RequestFailed
<1>8. ASSUME NEW e, StreamOver(e) PROVE ContractStep
  <2>1. CASE NoTasks(running_tools, ready_errors)
    BY <1>1, <1>8, <2>1, RequestOverContract DEF StreamOver
  <2>2. CASE ~NoTasks(running_tools, ready_errors)
    BY <1>8, <2>2, Stutters DEF StreamOver, threadVars
  <2> QED
    BY <2>1, <2>2
<1>9. ASSUME NEW t, NEW outcome, NEW running, NEW ready,
             ToolResult(t, outcome, running, ready)
      PROVE  ContractStep
  <2>1. CASE NoTasks(running, ready)
    BY <1>1, <1>9, <2>1, RequestOverContract DEF ToolResult
  <2>2. CASE ~NoTasks(running, ready)
    BY <1>9, <2>2, Stutters DEF ToolResult
  <2> QED
    BY <2>1, <2>2
<1>10. CASE ToolDone
  BY <1>9, <1>10 DEF ToolDone, ToolFinishes, ErrorDelivered
<1>11. CASE RetryTimer
  BY <1>11, Stutters DEF RetryTimer, chanVars
<1> QED
  BY <1>2, <1>3, <1>4, <1>5, <1>6, <1>7, <1>8, <1>10, <1>11
  DEF Next, RequestAnswered, StreamCloses

\* The safety half of ImplementsContract: seen through its channels the thread
\* is an agent that runs one turn at a time and gives each exactly one outcome,
\* "Cancelled" for those that are overtaken, cancelled or truncated.
THEOREM ThreadKeepsContract == Spec => Contract!Spec
<1>1. Init => Contract!Init
  BY DEF Init, Contract!Init, Outcome, Turns, Contract!Turns
<1>2. IInv /\ [Next]_vars => [Contract!Next]_(Contract!vars)
  BY NextContract DEF ContractStep
<1> QED
  BY <1>1, <1>2, Invariance, PTL DEF Spec, Contract!Spec

----------------------------------------------------------------------------
(* Refusals.  The messages up to message_ix are those before the turn's own    *)
(* message; when the answer of an overtaken turn is flushed behind it, the     *)
(* message itself is one of them.                                              *)

BeforeIsPrefix ==
  /\ running_turn = 0 => pending_message = Empty
  /\ running_turn # 0 => Restored(SubSeq(messages, 1, message_ix))

\* A turn whose channel now ends with a refusal left the messages as they were.
RefusalStep ==
  \A t \in Turns : events'[t] # events[t] /\ events'[t] = <<"Refusal">> => Restored(messages')

\* Sequences that agree up to n have the same prefix of length n.
LEMMA SamePrefix ==
  ASSUME NEW S, NEW ms \in Seq(S), NEW ns \in Seq(S), NEW n \in 0..Len(ms),
         Len(ms) <= Len(ns), \A i \in 1..Len(ms) : ns[i] = ms[i]
  PROVE  SubSeq(ns, 1, n) = SubSeq(ms, 1, n)
<1>1. /\ SubSeq(ns, 1, n) \in Seq(S) /\ SubSeq(ms, 1, n) \in Seq(S)
      /\ Len(SubSeq(ns, 1, n)) = n /\ Len(SubSeq(ms, 1, n)) = n
      /\ \A i \in 1..n : SubSeq(ns, 1, n)[i] = ns[i] /\ SubSeq(ms, 1, n)[i] = ms[i]
  OBVIOUS
<1>2. \A i \in 1..n : ns[i] = ms[i]
  OBVIOUS
<1> QED
  BY <1>1, <1>2, SeqEqual

\* Flushing leaves the messages before it in place.
LEMMA FlushedGrows ==
  ASSUME IInv, NEW p \in Messages
  PROVE  /\ messages \in Seq(Messages) /\ Flushed(messages, p) \in Seq(Messages)
         /\ Len(messages) <= Len(Flushed(messages, p))
         /\ \A i \in 1..Len(messages) : Flushed(messages, p)[i] = messages[i]
<1>1. messages \in Seq(Messages)
  BY DEF IInv, TypeOK
<1>2. /\ Flushed(messages, p) \in Seq(Messages)
      /\ Len(Flushed(messages, p)) \in {Len(messages), Len(messages) + 1}
      /\ \A i \in 1..Len(messages) : Flushed(messages, p)[i] = messages[i]
  BY <1>1, FlushedProperties
<1>3. Len(messages) \in Nat
  BY <1>1
<1>4. Len(messages) <= Len(Flushed(messages, p))
  BY <1>2, <1>3
<1> QED
  BY <1>1, <1>2, <1>4

\* No final event is sent, and the messages only grow.
LEMMA GrowingMessages ==
  ASSUME IInv, BeforeIsPrefix, running_turn # 0,
         UNCHANGED <<running_turn, message_ix, auxVars, events>>,
         messages' \in Seq(Messages), Len(messages) <= Len(messages'),
         \A i \in 1..Len(messages) : messages'[i] = messages[i]
  PROVE  BeforeIsPrefix' /\ RefusalStep
<1>1. message_ix \in 0..Len(messages) /\ messages \in Seq(Messages)
  BY DEF IInv, TypeOK, TaskMatchesTurn
<1>2. SubSeq(messages', 1, message_ix) = SubSeq(messages, 1, message_ix)
  BY <1>1, SamePrefix
<1> QED
  BY <1>2 DEF BeforeIsPrefix, RefusalStep, Restored, auxVars

\* Neither messages nor channels change.
LEMMA NoRefusal ==
  ASSUME BeforeIsPrefix, UNCHANGED <<running_turn, message_ix, auxVars, events, messages>>,
         running_turn # 0 \/ pending_message' = pending_message
  PROVE  BeforeIsPrefix' /\ RefusalStep
BY DEF BeforeIsPrefix, RefusalStep, Restored, auxVars

\* "Cancelled" is no refusal.
LEMMA CancelIsNoRefusal ==
  ASSUME IInv, events' = CanceledEvents
  PROVE  RefusalStep
<1> SUFFICES ASSUME NEW t \in Turns, events'[t] # events[t], events'[t] = <<"Refusal">>
             PROVE  FALSE
  BY DEF RefusalStep
<1>1. running_turn # 0 /\ t = running_turn
  BY DEF CanceledEvents, IInv, TypeOK
<1>2. events'[t] = Append(events[t], "Cancelled") /\ events[t] \in Seq(Reasons)
  BY <1>1 DEF CanceledEvents, IInv, TypeOK
<1>3. events'[t][Len(events[t]) + 1] = "Cancelled" /\ Len(events'[t]) = Len(events[t]) + 1
  BY <1>2 DEF Reasons
<1>4. Len(events[t]) = 0
  BY <1>1, BoundsAssumption DEF IInv, OneFinalEvent
<1> QED
  BY <1>3, <1>4

LEMMA TurnEndsRefusal ==
  ASSUME IInv, BeforeIsPrefix, running_turn # 0, NEW p \in Messages,
         NEW reason \in Reasons,
         TurnEnds(reason, Flushed(messages, p), p), pending_message' = Empty
  PROVE  BeforeIsPrefix' /\ RefusalStep
<1>1. running_turn' = 0 /\ events' = [events EXCEPT ![running_turn] = Append(@, reason)]
  BY DEF TurnEnds
<1>2. BeforeIsPrefix'
  BY <1>1 DEF BeforeIsPrefix
<1>3. RefusalStep
  <2> SUFFICES ASSUME NEW t \in Turns, events'[t] # events[t], events'[t] = <<"Refusal">>
               PROVE  Restored(messages')
    BY DEF RefusalStep
  <2>1. t = running_turn
    BY <1>1 DEF IInv, TypeOK
  <2>2. events[t] = <<>>
    <3>1. Len(events[t]) = 0 /\ events[t] \in Seq(Reasons)
      BY <2>1 DEF IInv, OneFinalEvent, TypeOK
    <3> QED
      BY <3>1, EmptySeq
  <2>3. reason = "Refusal"
    <3>1. events'[t] = <<reason>>
      BY <1>1, <2>1, <2>2 DEF IInv, TypeOK
    <3> QED
      BY <3>1
  <2>4. messages' = SubSeq(Flushed(messages, p), 1, message_ix)
    BY <2>3 DEF TurnEnds
  <2>5. message_ix \in 0..Len(messages)
    BY DEF IInv, TypeOK, TaskMatchesTurn
  <2>6. SubSeq(Flushed(messages, p), 1, message_ix) = SubSeq(messages, 1, message_ix)
    BY <2>5, FlushedGrows, SamePrefix
  <2> QED
    BY <2>4, <2>6 DEF BeforeIsPrefix
<1> QED
  BY <1>2, <1>3

\* The turn's own message is the last one before message_ix or the first one
\* behind it.
LEMMA OwnMessagePlaced ==
  ASSUME IInv, NEW m \in OwnMessages, m \in Messages,
         messages' = Flushed(Append(messages, m), pending_message),
         message_ix' = Len(messages') - 1, before' = messages,
         overtook' = (pending_message.content # <<>>)
  PROVE  /\ Restored(SubSeq(messages, 1, message_ix))'
         /\ overtook' => Len(messages') = Len(messages) + 2
<1> DEFINE ms == Append(messages, m)
<1>1. messages \in Seq(Messages) /\ pending_message \in Messages
  BY DEF IInv, TypeOK
<1>2. /\ ms \in Seq(Messages) /\ Len(ms) = Len(messages) + 1 /\ Len(messages) \in Nat
      /\ \A i \in 1..Len(messages) : ms[i] = messages[i]
  BY <1>1
<1>3. messages' = Flushed(ms, pending_message)
  OBVIOUS
<1> HIDE DEF ms
<1>4. CASE pending_message.content = <<>>
  <2>1. messages' = ms /\ message_ix' = Len(messages)
    BY <1>2, <1>3, <1>4 DEF Flushed
  <2>2. SubSeq(ms, 1, Len(messages)) = SubSeq(messages, 1, Len(messages))
    BY <1>1, <1>2, SamePrefix
  <2>3. SubSeq(ms, 1, Len(messages)) = messages
    BY <1>1, <2>2, SubSeqFull
  <2> QED
    BY <1>4, <2>1, <2>3 DEF Restored
<1>5. CASE pending_message.content # <<>>
  <2>1. messages' = Append(ms, Sealed(pending_message)) /\ Sealed(pending_message) \in Messages
    BY <1>1, <1>3, <1>5, SealedProperties DEF Flushed
  <2>2. /\ messages' \in Seq(Messages) /\ Len(messages') = Len(ms) + 1
        /\ \A i \in 1..Len(ms) : messages'[i] = ms[i]
    BY <1>2, <2>1
  <2>3. message_ix' = Len(ms)
    BY <1>2, <2>2
  <2>4. SubSeq(messages', 1, Len(ms)) = SubSeq(ms, 1, Len(ms))
    BY <1>2, <2>2, SamePrefix
  <2>5. SubSeq(messages', 1, Len(ms)) = ms
    BY <1>2, <2>4, SubSeqFull
  <2>6. SubSeq(messages, 1, message_ix)' = Append(before', m) /\ overtook'
    BY <1>5, <2>3, <2>5 DEF ms
  <2>7. OwnMessages' = OwnMessages
    BY DEF OwnMessages, UserMessage, ResumeMessage, NoResults
  <2> QED
    BY <1>2, <2>2, <2>6, <2>7 DEF Restored
<1> QED
  BY <1>4, <1>5

LEMMA RunTurnRefusal ==
  ASSUME IInv, BeforeIsPrefix, NEW m \in OwnMessages, m \in Messages, NEW found \in BOOLEAN,
         run_turn(m, found)
  PROVE  BeforeIsPrefix' /\ RefusalStep
<1>1. RefusalStep
  BY CancelIsNoRefusal DEF run_turn
<1>2. pending_message' = Empty
  BY DEF run_turn
<1>3. CASE model /\ found
  <2>1. Restored(SubSeq(messages, 1, message_ix))'
    BY <1>3, OwnMessagePlaced DEF run_turn
  <2> QED
    BY <1>1, <1>2, <2>1 DEF BeforeIsPrefix
<1>4. CASE ~(model /\ found)
  <2>1. running_turn' = 0
    BY <1>4 DEF run_turn
  <2> QED
    BY <1>1, <1>2, <2>1 DEF BeforeIsPrefix
<1> QED
  BY <1>3, <1>4

LEMMA RequestOverRefusal ==
  ASSUME IInv, BeforeIsPrefix, running_turn # 0, NEW p \in Messages, NEW e, NEW end_turn,
         RequestOver(p, e, end_turn)
  PROVE  BeforeIsPrefix' /\ RefusalStep
<1> DEFINE ms == Flushed(messages, p)
<1>1. pending_message' = Empty /\ UNCHANGED auxVars
  BY DEF RequestOver
<1>2. CASE TurnEnds("Error", ms, p) \/ TurnEnds("EndTurn", ms, p)
  BY <1>1, <1>2, TurnEndsRefusal DEF Reasons
<1>3. ASSUME NEW next, NEW n, Continues(next, n, ms, p) PROVE BeforeIsPrefix' /\ RefusalStep
  <2>1. messages' = ms /\ UNCHANGED <<running_turn, message_ix, events>>
    BY <1>3 DEF Continues
  <2>2. /\ ms \in Seq(Messages) /\ Len(messages) <= Len(ms)
        /\ \A i \in 1..Len(messages) : ms[i] = messages[i]
    BY FlushedGrows
  <2> QED
    BY <1>1, <2>1, <2>2, GrowingMessages
<1> QED
  BY <1>2, <1>3 DEF RequestOver

LEMMA ToolResultRefusal ==
  ASSUME IInv, BeforeIsPrefix, NEW t \in ToolIds, NEW outcome \in {"ok", "error"},
         NEW running, NEW ready, ToolResult(t, outcome, running, ready)
  PROVE  BeforeIsPrefix' /\ RefusalStep
<1> DEFINE p == [pending_message EXCEPT !.results[t] = outcome]
<1>1. p \in Messages
  BY DEF IInv, TypeOK, Messages, Outcomes
<1>2. running_turn # 0
  BY DEF ToolResult, IInv, TaskMatchesTurn
<1> HIDE DEF p
<1>3. CASE NoTasks(running, ready)
  <2>1. RequestOver(p, error, FALSE)
    BY <1>3 DEF ToolResult, p
  <2> QED
    BY <1>1, <1>2, <2>1, RequestOverRefusal
<1>4. CASE ~NoTasks(running, ready)
  BY <1>2, <1>4, NoRefusal DEF ToolResult
<1> QED
  BY <1>3, <1>4

LEMMA RetryTimerRefusal ==
  ASSUME IInv, BeforeIsPrefix, RetryTimer
  PROVE  BeforeIsPrefix' /\ RefusalStep
<1>1. running_turn # 0 /\ UNCHANGED <<running_turn, message_ix, auxVars, events>>
  BY DEF RetryTimer, IInv, TaskMatchesTurn, chanVars
<1>2. messages \in Seq(Messages) /\ ResumeMessage \in Messages
  BY ConstantMessages DEF IInv, TypeOK
<1>3. messages' \in {messages, Append(messages, ResumeMessage)}
  BY DEF RetryTimer
<1>4. /\ messages' \in Seq(Messages) /\ Len(messages) <= Len(messages')
      /\ \A i \in 1..Len(messages) : messages'[i] = messages[i]
  BY <1>2, <1>3
<1> QED
  BY <1>1, <1>4, GrowingMessages

LEMMA NextRefusal ==
  ASSUME IInv, BeforeIsPrefix, [Next]_vars
  PROVE  BeforeIsPrefix' /\ RefusalStep
<1>1. /\ pc # "idle" => running_turn # 0
      /\ pending_message \in Messages /\ prompt_id \in 0..MaxPrompts
  BY DEF IInv, TaskMatchesTurn, TypeOK
<1>2. CASE UNCHANGED vars
  BY <1>2, NoRefusal DEF vars, threadVars, chanVars, taskVars
<1>3. CASE Calls
  <2>1. CASE SetModel
    BY <2>1, NoRefusal DEF SetModel, chanVars, taskVars
  <2>2. CASE cancel
    BY <2>2, CancelIsNoRefusal DEF cancel, BeforeIsPrefix
  <2>3. ASSUME NEW found \in BOOLEAN, send(found) PROVE BeforeIsPrefix' /\ RefusalStep
    <3>1. prompt_id' \in 0..MaxPrompts
      BY <1>1, <2>3, BoundsAssumption DEF send
    <3> QED
      BY <2>3, <3>1, ConstantMessages, RunTurnRefusal DEF send, OwnMessages
  <2>4. ASSUME NEW found \in BOOLEAN, resume(found) PROVE BeforeIsPrefix' /\ RefusalStep
    BY <2>4, ConstantMessages, RunTurnRefusal DEF resume, OwnMessages
  <2>5. ASSUME NEW u \in 1..MaxPrompts, truncate(u) PROVE BeforeIsPrefix' /\ RefusalStep
    BY <2>5, CancelIsNoRefusal DEF truncate, BeforeIsPrefix
  <2>6. CASE set_title \/ Summarize
    BY <2>6, NoRefusal DEF set_title, Summarize, threadVars, chanVars, taskVars
  <2> QED
    BY <1>3, <2>1, <2>2, <2>3, <2>4, <2>5, <2>6 DEF Calls
<1>4. CASE Background
  BY <1>4, NoRefusal
  DEF Background, TitleGenerated, SummaryReady, threadVars, chanVars, taskVars
<1>5. CASE StreamEvent
  <2>0. running_turn # 0
    BY <1>1, <1>5
    DEF StreamEvent, StartMessage, TextChunk, handle_tool_use_event, update_token_usage,
        handle_tool_use_json_parse_error_event, ToolUseLimitReached, StopEvent, InStream
  <2>1. ASSUME NEW reason \in {"Refusal", "MaxTokens"}, StopEvent(reason)
        PROVE  BeforeIsPrefix' /\ RefusalStep
    BY <1>1, <2>0, <2>1, TurnEndsRefusal DEF StopEvent, Reasons
  <2>2. CASE StartMessage \/ update_token_usage \/ ToolUseLimitReached
    BY <2>0, <2>2, NoRefusal
    DEF StartMessage, update_token_usage, ToolUseLimitReached, chanVars, taskVars
  <2>3. ASSUME NEW kind \in TextKinds, TextChunk(kind) PROVE BeforeIsPrefix' /\ RefusalStep
    BY <2>0, <2>3, NoRefusal DEF TextChunk, chanVars, taskVars
  <2>4. ASSUME NEW t \in ToolIds, NEW known \in BOOLEAN, NEW complete \in BOOLEAN,
               handle_tool_use_event(t, known, complete)
        PROVE  BeforeIsPrefix' /\ RefusalStep
    BY <2>0, <2>4, NoRefusal DEF handle_tool_use_event
  <2>5. ASSUME NEW t \in ToolIds, handle_tool_use_json_parse_error_event(t)
        PROVE  BeforeIsPrefix' /\ RefusalStep
    BY <2>0, <2>5, NoRefusal DEF handle_tool_use_json_parse_error_event, threadVars, chanVars
  <2> QED
    BY <1>5, <2>1, <2>2, <2>3, <2>4, <2>5 DEF StreamEvent
<1>6. CASE RequestAccepted
  BY <1>6, NoRefusal DEF RequestAccepted, threadVars, chanVars
<1>7. ASSUME NEW e, RequestFailed(e) PROVE BeforeIsPrefix' /\ RefusalStep
  BY <1>1, <1>7, RequestOverRefusal DEF RequestFailed
<1>8. ASSUME NEW e, StreamOver(e) PROVE BeforeIsPrefix' /\ RefusalStep
  <2>1. CASE NoTasks(running_tools, ready_errors)
    BY <1>1, <1>8, <2>1, RequestOverRefusal DEF StreamOver
  <2>2. CASE ~NoTasks(running_tools, ready_errors)
    BY <1>8, <2>2, NoRefusal DEF StreamOver, threadVars
  <2> QED
    BY <2>1, <2>2
<1>9. CASE ToolDone
  BY <1>9, ToolResultRefusal DEF ToolDone, ToolFinishes, ErrorDelivered
<1>10. CASE RetryTimer
  BY <1>10, RetryTimerRefusal
<1> QED
  BY <1>2, <1>3, <1>4, <1>5, <1>6, <1>7, <1>8, <1>9, <1>10
  DEF Next, RequestAnswered, StreamCloses

\* A refused turn leaves the conversation as it was before the turn's own
\* message, whatever it streamed, ran and retried; when it overtook a turn with
\* an answer, it leaves its own message behind, and nothing else.
THEOREM RefusalAlwaysRestores == Spec => RefusalRestores
<1>1. Init => BeforeIsPrefix
  BY DEF Init, BeforeIsPrefix
<1>2. IInv /\ BeforeIsPrefix /\ [Next]_vars => BeforeIsPrefix' /\ RefusalStep
  BY NextRefusal
<1>3. RefusalStep =>
        [\A t \in Turns : events'[t] # events[t] /\ events'[t] = <<"Refusal">>
            => Restored(messages')]_vars
  BY DEF RefusalStep
<1> QED
  BY <1>1, <1>2, <1>3, Invariance, PTL DEF Spec, RefusalRestores

----------------------------------------------------------------------------
(* Titles. *)

NoGenerationForUserTitle == title = "user" => pending_title_generation = FALSE

TitleStep == title = "user" => title' = "user"

\* Nothing about the title changes, or a generation starts for want of one.
LEMMA TitleKept ==
  ASSUME NoGenerationForUserTitle, title' = title,
         \/ pending_title_generation' = pending_title_generation
         \/ generate_title
  PROVE  NoGenerationForUserTitle' /\ TitleStep
BY DEF NoGenerationForUserTitle, TitleStep, generate_title

LEMMA NextTitle ==
  ASSUME NoGenerationForUserTitle, [Next]_vars
  PROVE  NoGenerationForUserTitle' /\ TitleStep
<1>1. CASE UNCHANGED vars
  BY <1>1, TitleKept DEF vars, titleVars
<1>2. CASE Calls
  <2>1. CASE SetModel \/ cancel \/ Summarize
    BY <2>1, TitleKept DEF SetModel, cancel, Summarize, titleVars
  <2>2. ASSUME NEW found \in BOOLEAN, send(found) \/ resume(found)
        PROVE  NoGenerationForUserTitle' /\ TitleStep
    BY <2>2, TitleKept DEF send, resume, run_turn
  <2>3. ASSUME NEW u \in 1..MaxPrompts, truncate(u)
        PROVE  NoGenerationForUserTitle' /\ TitleStep
    BY <2>3, TitleKept DEF truncate
  <2>4. CASE set_title
    BY <2>4 DEF set_title, NoGenerationForUserTitle, TitleStep
  <2> QED
    BY <1>2, <2>1, <2>2, <2>3, <2>4 DEF Calls
<1>3. ASSUME NEW ok \in BOOLEAN, TitleGenerated(ok) \/ SummaryReady(ok)
      PROVE  NoGenerationForUserTitle' /\ TitleStep
  <2>1. CASE TitleGenerated(ok)
    BY <2>1 DEF TitleGenerated, NoGenerationForUserTitle, TitleStep
  <2>2. CASE SummaryReady(ok)
    BY <2>2, TitleKept DEF SummaryReady
  <2> QED
    BY <1>3, <2>1, <2>2
<1>4. CASE StreamEvent
  BY <1>4, TitleKept
  DEF StreamEvent, StartMessage, TextChunk, handle_tool_use_event, update_token_usage,
      handle_tool_use_json_parse_error_event, ToolUseLimitReached, StopEvent, titleVars
<1>5. ASSUME NEW p, NEW e, NEW end_turn, RequestOver(p, e, end_turn)
      PROVE  NoGenerationForUserTitle' /\ TitleStep
  BY <1>5, TitleKept DEF RequestOver
<1>6. CASE RequestAnswered \/ StreamCloses
  BY <1>5, <1>6, TitleKept
  DEF RequestAnswered, RequestAccepted, RequestFailed, StreamCloses, StreamOver, titleVars
<1>7. ASSUME NEW t, NEW outcome, NEW running, NEW ready, ToolResult(t, outcome, running, ready)
      PROVE  NoGenerationForUserTitle' /\ TitleStep
  BY <1>5, <1>7, TitleKept DEF ToolResult, titleVars
<1>8. CASE ToolDone
  BY <1>7, <1>8 DEF ToolDone, ToolFinishes, ErrorDelivered
<1>9. CASE RetryTimer
  BY <1>9, TitleKept DEF RetryTimer
<1> QED
  BY <1>1, <1>2, <1>3, <1>4, <1>6, <1>8, <1>9 DEF Next, Background

\* A title the user chose is never replaced by a generated one, whenever its
\* request was sent and whenever it is answered.
THEOREM UserTitleAlwaysKept == Spec => UserTitleKept
<1>1. Init => NoGenerationForUserTitle
  BY DEF Init, NoGenerationForUserTitle
<1>2. NoGenerationForUserTitle /\ [Next]_vars => NoGenerationForUserTitle' /\ TitleStep
  BY NextTitle
<1>3. TitleStep => [title = "user" => title' = "user"]_vars
  BY DEF TitleStep
<1> QED
  BY <1>1, <1>2, <1>3, PTL DEF Spec, UserTitleKept

----------------------------------------------------------------------------
(* Tools.  Their results are owed until they are there: a complete tool use   *)
(* of the pending answer has its result, or a task that will bring it.        *)

AwaitsNoTool ==
  pc \in {"idle", "request", "retry"} =>
    pending_message = Empty /\ running_tools = NoTools /\ ready_errors = NoTools

ToolsReported ==
  running_turn # 0 => \A t \in ToolIds : tool_status[t] = "in_progress" => running_tools[t] > 0

Owed(p, running, ready) ==
  \A j \in DOMAIN p.content :
    LET c == p.content[j]
    IN  c.kind = "tool_use" /\ c.complete =>
          p.results[c.id] # "none" \/ running[c.id] + ready[c.id] > 0

NotCanceled(p) == \A t \in ToolIds : p.results[t] # "canceled"

PendingOwed == Owed(pending_message, running_tools, ready_errors) /\ NotCanceled(pending_message)

Newest == running_turn \in {0, turn}

ToolInv ==
  /\ AwaitsNoTool /\ ToolsReported /\ PendingOwed /\ Newest
  /\ NoToolLeftRunning /\ NoResultLost

\* No complete tool use of m was answered with "Tool canceled by user".
NothingLost(m) ==
  \A j \in DOMAIN m.content :
    LET c == m.content[j]
    IN  c.kind = "tool_use" /\ c.complete => m.results[c.id] # "canceled"

NoneInProgress == \A t \in ToolIds : tool_status[t] # "in_progress"

\* A pending message that owes nothing any more loses nothing when it is sealed.
LEMMA SealedLosesNothing ==
  ASSUME NEW p \in Messages, NotCanceled(p), NEW running, NEW ready,
         NoTasks(running, ready), Owed(p, running, ready)
  PROVE  NothingLost(Sealed(p))
<1> SUFFICES ASSUME NEW j \in DOMAIN p.content,
                    p.content[j].kind = "tool_use", p.content[j].complete
             PROVE  Sealed(p).results[p.content[j].id] # "canceled"
  BY SealedProperties DEF NothingLost
<1> DEFINE u == p.content[j].id
<1>1. u \in ToolIds
  BY ToolUsesAreToolIds DEF ToolUses
<1>2. p.results[u] # "none" /\ p.results[u] # "canceled"
  BY <1>1 DEF Owed, NoTasks, NotCanceled
<1>3. Sealed(p).results[u] = p.results[u]
  BY <1>1, <1>2 DEF Sealed, Messages
<1> QED
  BY <1>2, <1>3

LEMMA FlushedLosesNothing ==
  ASSUME NEW ms \in Seq(Messages), NEW p \in Messages, NotCanceled(p),
         NEW running, NEW ready, NoTasks(running, ready), Owed(p, running, ready),
         NEW k \in Nat \ {0}, \A i \in k..Len(ms) : NothingLost(ms[i])
  PROVE  \A i \in k..Len(Flushed(ms, p)) : NothingLost(Flushed(ms, p)[i])
<1>1. CASE p.content = <<>>
  BY <1>1 DEF Flushed
<1>2. CASE p.content # <<>>
  <2>1. Flushed(ms, p) = Append(ms, Sealed(p)) /\ NothingLost(Sealed(p))
    BY <1>2, SealedLosesNothing DEF Flushed
  <2>2. Sealed(p) \in Messages
    BY SealedProperties
  <2>3. /\ Len(Append(ms, Sealed(p))) = Len(ms) + 1 /\ Len(ms) \in Nat
        /\ Append(ms, Sealed(p))[Len(ms) + 1] = Sealed(p)
        /\ \A i \in 1..Len(ms) : Append(ms, Sealed(p))[i] = ms[i]
    BY <2>2
  <2>4. ASSUME NEW i \in k..Len(ms) + 1
        PROVE  NothingLost(Append(ms, Sealed(p))[i])
    BY <2>1, <2>3, <2>4
  <2> QED
    BY <2>1, <2>3, <2>4
<1> QED
  BY <1>1, <1>2

\* The results stored since the turn's own message.
LEMMA NoResultLostMeans ==
  NoResultLost <=>
    (running_turn # 0 => \A i \in message_ix + 2 .. Len(messages) : NothingLost(messages[i]))
BY DEF NoResultLost, NothingLost

LEMMA EmptyOwes == \A running, ready : Owed(Empty, running, ready) /\ NotCanceled(Empty)
BY DEF Owed, NotCanceled, Empty, NoResults

\* The turn that runs is the newest, and has sent nothing.
LEMMA RunningIsSilent ==
  ASSUME IInv, ToolInv, running_turn # 0
  PROVE  /\ running_turn = turn /\ turn \in Turns
         /\ events[turn] = <<>> /\ events[turn] \notin {<<"EndTurn">>, <<"Error">>}
<1>1. running_turn = turn /\ turn \in Turns
  BY BoundsAssumption DEF ToolInv, Newest, IInv, TypeOK, Turns
<1>2. events[turn] \in Seq(Reasons) /\ Len(events[turn]) = 0
  BY <1>1 DEF IInv, TypeOK, OneFinalEvent
<1>3. events[turn] # <<"EndTurn">> /\ events[turn] # <<"Error">>
  BY <1>2
<1> QED
  BY <1>1, <1>2, <1>3, EmptySeq

\* What is left when the task is gone.
LEMMA TaskGoneTools ==
  ASSUME TaskGone, pending_message' = Empty, running_turn' = 0, NoToolLeftRunning'
  PROVE  ToolInv'
<1>1. AwaitsNoTool' /\ ToolsReported' /\ Newest' /\ NoResultLost'
  BY DEF TaskGone, AwaitsNoTool, ToolsReported, Newest, NoResultLost
<1>2. PendingOwed'
  BY EmptyOwes DEF PendingOwed, Owed, NotCanceled
<1> QED
  BY <1>1, <1>2 DEF ToolInv

\* "Cancelled" is neither the end of a turn by itself nor an error.
LEMMA CancelTools ==
  ASSUME IInv, ToolInv, events' = CanceledEvents, turn' = turn, tool_status' = tool_status,
         running_turn' = 0, TaskGone, pending_message' = Empty
  PROVE  ToolInv'
<1>1. CASE running_turn = 0
  BY <1>1, TaskGoneTools DEF CanceledEvents, ToolInv, NoToolLeftRunning
<1>2. CASE running_turn # 0
  <2>1. events'[turn] = Append(events[turn], "Cancelled") /\ events[turn] = <<>>
    BY <1>2, RunningIsSilent DEF CanceledEvents, IInv, TypeOK
  <2>2. events'[turn'] \notin {<<"EndTurn">>, <<"Error">>}
    BY <2>1
  <2> QED
    BY <2>2, TaskGoneTools DEF NoToolLeftRunning
<1> QED
  BY <1>1, <1>2

LEMMA RunTurnTools ==
  ASSUME IInv, ToolInv, NEW m \in Messages, NEW found \in BOOLEAN, run_turn(m, found)
  PROVE  ToolInv'
<1>1. CASE model /\ found
  <2> DEFINE ms == Flushed(Append(messages, m), pending_message)
  <2>1. /\ messages' = ms /\ message_ix' = Len(ms) - 1
        /\ pending_message' = Empty /\ pc' = "request"
        /\ running_tools' = NoTools /\ ready_errors' = NoTools
        /\ tool_status' = [t \in ToolIds |-> "none"]
        /\ turn' = turn + 1 /\ running_turn' = turn + 1
    BY <1>1 DEF run_turn
  <2>2. Len(ms) \in Nat
    <3>1. Append(messages, m) \in Seq(Messages) /\ pending_message \in Messages
      BY DEF IInv, TypeOK
    <3>2. ms \in Seq(Messages)
      BY <3>1, FlushedProperties
    <3> HIDE DEF ms
    <3> QED
      BY <3>2
  <2> HIDE DEF ms
  <2>3. message_ix' + 2 .. Len(messages') = {}
    BY <2>1, <2>2
  <2>4. AwaitsNoTool' /\ ToolsReported' /\ Newest' /\ NoToolLeftRunning' /\ NoResultLost'
    BY <2>1, <2>3
    DEF AwaitsNoTool, ToolsReported, Newest, NoToolLeftRunning, NoResultLost
  <2>5. PendingOwed'
    BY <2>1, EmptyOwes DEF PendingOwed, Owed, NotCanceled
  <2> QED
    BY <2>4, <2>5 DEF ToolInv
<1>2. CASE ~(model /\ found)
  BY <1>2, CancelTools DEF run_turn
<1> QED
  BY <1>1, <1>2

\* The turn ends by itself or by an error only when no tool is in progress.
LEMMA TurnEndsTools ==
  ASSUME IInv, ToolInv, running_turn # 0, NEW ms, NEW p, NEW reason \in Reasons,
         TurnEnds(reason, ms, p), pending_message' = Empty, turn' = turn,
         reason \in {"Refusal", "MaxTokens"} \/ NoneInProgress'
  PROVE  ToolInv'
<1>1. running_turn = turn /\ turn \in Turns /\ events[turn] = <<>>
  BY RunningIsSilent
<1>2. events'[turn] = Append(events[turn], reason)
  BY <1>1 DEF TurnEnds, IInv, TypeOK
<1>3. events'[turn] = <<reason>>
  BY <1>1, <1>2
<1>4. NoToolLeftRunning'
  <2>1. CASE reason \in {"Refusal", "MaxTokens"}
    <3>1. events'[turn'] \notin {<<"EndTurn">>, <<"Error">>}
      BY <1>3, <2>1
    <3> QED
      BY <3>1 DEF NoToolLeftRunning
  <2>2. CASE NoneInProgress'
    BY <2>2 DEF NoneInProgress, NoToolLeftRunning
  <2> QED
    BY <2>1, <2>2
<1> QED
  BY <1>4, TaskGoneTools DEF TurnEnds

\* The answer is stored without losing a result, and the task goes on.
LEMMA ContinuesTools ==
  ASSUME IInv, ToolInv, running_turn # 0, NEW p \in Messages, NotCanceled(p),
         NEW running, NEW ready, NoTasks(running, ready), Owed(p, running, ready),
         NEW next, NEW n, Continues(next, n, Flushed(messages, p), p),
         pending_message' = Empty, turn' = turn, NoneInProgress'
  PROVE  ToolInv'
<1>1. /\ running_tools' = NoTools /\ ready_errors' = NoTools
      /\ messages' = Flushed(messages, p) /\ UNCHANGED <<events, running_turn, message_ix>>
  BY DEF Continues
<1>2. AwaitsNoTool' /\ ToolsReported' /\ Newest'
  BY <1>1 DEF AwaitsNoTool, ToolsReported, NoneInProgress, ToolInv, Newest
<1>3. PendingOwed'
  BY EmptyOwes DEF PendingOwed, Owed, NotCanceled
<1>4. NoToolLeftRunning'
  BY DEF NoneInProgress, NoToolLeftRunning
<1>5. NoResultLost'
  <2>1. \A i \in message_ix + 2 .. Len(messages) : NothingLost(messages[i])
    BY NoResultLostMeans DEF ToolInv
  <2>2. messages \in Seq(Messages) /\ message_ix + 2 \in Nat \ {0}
    BY DEF IInv, TypeOK
  <2>3. \A i \in message_ix + 2 .. Len(messages') : NothingLost(messages'[i])
    BY <1>1, <2>1, <2>2, FlushedLosesNothing
  <2>4. (message_ix + 2)' = message_ix + 2
    BY <1>1
  <2> QED
    BY <2>3, <2>4 DEF NoResultLost, NothingLost
<1> QED
  BY <1>2, <1>3, <1>4, <1>5 DEF ToolInv

LEMMA RequestOverTools ==
  ASSUME IInv, ToolInv, running_turn # 0, NEW p \in Messages, NotCanceled(p),
         NEW running, NEW ready, NoTasks(running, ready), Owed(p, running, ready),
         NEW e, NEW end_turn, RequestOver(p, e, end_turn), NoneInProgress'
  PROVE  ToolInv'
<1> DEFINE ms == Flushed(messages, p)
<1>1. pending_message' = Empty /\ turn' = turn
  BY DEF RequestOver
<1>2. CASE TurnEnds("Error", ms, p) \/ TurnEnds("EndTurn", ms, p)
  BY <1>1, <1>2, TurnEndsTools DEF Reasons
<1>3. ASSUME NEW next, NEW n, Continues(next, n, ms, p) PROVE ToolInv'
  BY <1>1, <1>3, ContinuesTools
<1> QED
  BY <1>2, <1>3 DEF RequestOver

\* While some task is left, the turn is not over.
LEMMA ToolResultTools ==
  ASSUME IInv, ToolInv, NEW t \in ToolIds, NEW outcome \in {"ok", "error"},
         NEW running \in [ToolIds -> Nat], NEW ready \in [ToolIds -> Nat],
         \A u \in ToolIds \ {t} : running[u] = running_tools[u] /\ ready[u] = ready_errors[u],
         ToolResult(t, outcome, running, ready)
  PROVE  ToolInv'
<1> DEFINE p == [pending_message EXCEPT !.results[t] = outcome]
<1>1. /\ p \in Messages /\ p.content = pending_message.content
      /\ p.results = [pending_message.results EXCEPT ![t] = outcome]
  BY DEF IInv, TypeOK, Messages, Outcomes
<1>2. pc = "tools" /\ running_turn # 0
  BY DEF ToolResult, IInv, TaskMatchesTurn
<1>3. /\ p.results[t] = outcome
      /\ \A u \in ToolIds \ {t} : p.results[u] = pending_message.results[u]
  BY <1>1 DEF IInv, TypeOK, Messages
<1>4. \A j \in DOMAIN p.content : p.content[j].kind = "tool_use" => p.content[j].id \in ToolIds
  BY <1>1, ToolUsesAreToolIds DEF ToolUses
<1> HIDE DEF p
<1>5. NotCanceled(p) /\ Owed(p, running, ready)
  BY <1>1, <1>3, <1>4 DEF ToolInv, PendingOwed, Owed, NotCanceled
<1>6. \A u \in ToolIds : tool_status'[u] = "in_progress" => u # t /\ running[u] > 0
  BY <1>2 DEF ToolResult, ToolInv, ToolsReported, IInv, TypeOK
<1>7. CASE NoTasks(running, ready)
  <2>1. RequestOver(p, error, FALSE)
    BY <1>7 DEF ToolResult, p
  <2>2. NoneInProgress'
    BY <1>6, <1>7 DEF NoneInProgress, NoTasks
  <2> QED
    BY <1>1, <1>2, <1>5, <1>7, <2>1, <2>2, RequestOverTools
<1>8. CASE ~NoTasks(running, ready)
  <2>1. /\ pending_message' = p /\ running_tools' = running /\ ready_errors' = ready
        /\ UNCHANGED <<messages, running_turn, turn, events, pc, message_ix>>
    BY <1>8 DEF ToolResult, p
  <2>2. AwaitsNoTool' /\ ToolsReported' /\ PendingOwed' /\ Newest'
    BY <1>2, <1>5, <1>6, <2>1
    DEF AwaitsNoTool, ToolsReported, PendingOwed, Owed, NotCanceled, Newest, ToolInv
  <2>3. NoToolLeftRunning' /\ NoResultLost'
    <3>1. events[turn] \notin {<<"EndTurn">>, <<"Error">>}
      BY <1>2, RunningIsSilent
    <3>2. NoResultLost'
      BY <2>1 DEF NoResultLost, ToolInv
    <3> QED
      BY <2>1, <3>1, <3>2 DEF NoToolLeftRunning
  <2> QED
    BY <2>2, <2>3 DEF ToolInv
<1> QED
  BY <1>7, <1>8

\* Steps that leave turns, channels, messages and tools alone.
LEMMA QuietTools ==
  ASSUME ToolInv,
         UNCHANGED <<pending_message, running_tools, ready_errors, tool_status, turn,
                     running_turn, events, messages, message_ix>>,
         pc' = pc \/ pc' \in {"stream", "tools"} \/ (pc = "retry" /\ pc' = "request")
  PROVE  ToolInv'
<1>1. AwaitsNoTool' /\ ToolsReported' /\ Newest'
  BY DEF ToolInv, AwaitsNoTool, ToolsReported, Newest
<1>2. PendingOwed'
  BY DEF ToolInv, PendingOwed, Owed, NotCanceled
<1>3. NoToolLeftRunning' /\ NoResultLost'
  BY DEF ToolInv, NoToolLeftRunning, NoResultLost
<1> QED
  BY <1>1, <1>2, <1>3 DEF ToolInv

\* Events of the stream change the pending answer and its tools only.
LEMMA StreamTools ==
  ASSUME IInv, ToolInv, pc = "stream",
         UNCHANGED <<pc, turn, running_turn, events, messages, message_ix>>,
         PendingOwed',
         \A t \in ToolIds : tool_status'[t] = "in_progress" =>
            \/ running_tools'[t] > 0
            \/ tool_status[t] = "in_progress" /\ running_tools'[t] = running_tools[t]
  PROVE  ToolInv'
<1>1. running_turn # 0
  BY DEF IInv, TaskMatchesTurn
<1>2. AwaitsNoTool' /\ ToolsReported' /\ Newest'
  BY <1>1 DEF ToolInv, AwaitsNoTool, ToolsReported, Newest
<1>3. NoToolLeftRunning' /\ NoResultLost'
  BY <1>1, RunningIsSilent DEF ToolInv, NoToolLeftRunning, NoResultLost
<1> QED
  BY <1>2, <1>3 DEF ToolInv

LEMMA ToolUseTools ==
  ASSUME IInv, ToolInv, NEW t \in ToolIds, NEW known \in BOOLEAN, NEW complete \in BOOLEAN,
         handle_tool_use_event(t, known, complete)
  PROVE  ToolInv'
<1> DEFINE p == pending_message
           replaces == /\ p.content # <<>>
                       /\ LastChunk(p).kind = "tool_use" /\ LastChunk(p).id = t
           content == IF replaces
                      THEN [p.content EXCEPT ![Len(p.content)] = ToolUse(t, complete)]
                      ELSE Append(p.content, ToolUse(t, complete))
<1>1. p \in Messages /\ p.content \in Seq(Chunks)
  BY DEF IInv, TypeOK, Messages
<1>2. \A j \in DOMAIN content : \/ content[j] = ToolUse(t, complete)
                                \/ j \in DOMAIN p.content /\ content[j] = p.content[j]
  <2>1. CASE replaces
    BY <1>1, <2>1
  <2>2. CASE ~replaces
    <3>1. ToolUse(t, complete) \in Chunks
      BY DEF ToolUse, Chunks
    <3>2. DOMAIN content = 1..Len(p.content) + 1 /\ DOMAIN p.content = 1..Len(p.content)
      BY <1>1, <2>2, <3>1
    <3> QED
      BY <1>1, <2>2, <3>1, <3>2
  <2> QED
    BY <2>1, <2>2
<1>3. pending_message' = [p EXCEPT !.content = content]
  BY DEF handle_tool_use_event
<1>4. pending_message'.content = content /\ pending_message'.results = p.results
  BY <1>1, <1>3 DEF Messages
<1> HIDE DEF content, replaces
<1>5. /\ pc = "stream"
      /\ UNCHANGED <<pc, turn, running_turn, events, messages, message_ix>>
  BY DEF handle_tool_use_event, InStream
<1>6. /\ \A u \in ToolIds \ {t} : /\ running_tools'[u] = running_tools[u]
                                  /\ ready_errors'[u] = ready_errors[u]
                                  /\ tool_status'[u] = tool_status[u]
      /\ running_tools'[t] >= running_tools[t] /\ ready_errors'[t] >= ready_errors[t]
      /\ complete => running_tools'[t] + ready_errors'[t] > 0
      /\ \A u \in ToolIds : /\ running_tools[u] \in Nat /\ ready_errors[u] \in Nat
                            /\ running_tools'[u] \in Nat /\ ready_errors'[u] \in Nat
  BY SMTT(20) DEF handle_tool_use_event, IInv, TypeOK
<1>7. \A u \in ToolIds : tool_status'[u] = "in_progress" =>
            \/ running_tools'[u] > 0
            \/ tool_status[u] = "in_progress" /\ running_tools'[u] = running_tools[u]
  <2>1. tool_status'[t] = "in_progress" =>
            \/ running_tools'[t] > 0
            \/ tool_status[t] = "in_progress" /\ running_tools'[t] = running_tools[t]
    BY DEF handle_tool_use_event, IInv, TypeOK
  <2> QED
    BY <1>6, <2>1
<1>8. PendingOwed'
  <2>1. ASSUME NEW j \in DOMAIN content, content[j].kind = "tool_use", content[j].complete
        PROVE  \/ p.results[content[j].id] # "none"
               \/ running_tools'[content[j].id] + ready_errors'[content[j].id] > 0
    <3>1. CASE content[j] = ToolUse(t, complete)
      BY <1>6, <2>1, <3>1 DEF ToolUse
    <3>2. CASE j \in DOMAIN p.content /\ content[j] = p.content[j]
      <4>1. content[j].id \in ToolIds
        BY <1>1, <2>1, <3>2, ToolUsesAreToolIds DEF ToolUses
      <4>2. \/ p.results[content[j].id] # "none"
            \/ running_tools[content[j].id] + ready_errors[content[j].id] > 0
        BY <2>1, <3>2 DEF ToolInv, PendingOwed, Owed
      <4> QED
        BY <1>6, <4>1, <4>2
    <3> QED
      BY <1>2, <3>1, <3>2
  <2>2. NotCanceled(pending_message)'
    BY <1>4 DEF ToolInv, PendingOwed, NotCanceled
  <2> QED
    BY <1>4, <2>1, <2>2 DEF PendingOwed, Owed
<1> QED
  BY <1>5, <1>7, <1>8, StreamTools

LEMMA StreamEventTools ==
  ASSUME IInv, ToolInv, StreamEvent
  PROVE  ToolInv'
<1>1. CASE StartMessage
  <2>1. PendingOwed'
    BY <1>1, EmptyOwes DEF StartMessage, PendingOwed, Owed, NotCanceled
  <2> QED
    BY <1>1, <2>1, StreamTools DEF StartMessage, InStream, chanVars, taskVars
<1>2. ASSUME NEW kind \in TextKinds, TextChunk(kind) PROVE ToolInv'
  <2> DEFINE p == pending_message
  <2>1. p \in Messages /\ p.content \in Seq(Chunks) /\ Chunk(kind) \in Chunks
    BY FlagsAssumption DEF IInv, TypeOK, Messages, Chunk, Chunks
  <2>2. pending_message' \in {p, [p EXCEPT !.content = Append(@, Chunk(kind))]}
    BY <1>2 DEF TextChunk
  <2>3. pending_message'.content \in {p.content, Append(p.content, Chunk(kind))}
        /\ pending_message'.results = p.results
    BY <2>1, <2>2 DEF Messages
  <2>4. \A j \in DOMAIN pending_message'.content :
          \/ j \in DOMAIN p.content /\ pending_message'.content[j] = p.content[j]
          \/ pending_message'.content[j] = Chunk(kind)
    BY <2>1, <2>3
  <2>5. Chunk(kind).kind # "tool_use"
    BY FlagsAssumption DEF Chunk, Kinds
  <2>6. UNCHANGED <<running_tools, ready_errors>>
    BY <1>2 DEF TextChunk, taskVars
  <2>7. PendingOwed'
    BY <2>3, <2>4, <2>5, <2>6 DEF ToolInv, PendingOwed, Owed, NotCanceled
  <2> QED
    BY <1>2, <2>7, StreamTools DEF TextChunk, InStream, chanVars, taskVars
<1>3. ASSUME NEW t \in ToolIds, NEW known \in BOOLEAN, NEW complete \in BOOLEAN,
             handle_tool_use_event(t, known, complete)
      PROVE  ToolInv'
  BY <1>3, ToolUseTools
<1>4. ASSUME NEW t \in ToolIds, handle_tool_use_json_parse_error_event(t) PROVE ToolInv'
  <2>1. /\ UNCHANGED <<pc, turn, running_turn, events, messages, message_ix, pending_message,
                       tool_status, running_tools>>
        /\ pc = "stream" /\ ready_errors' = [ready_errors EXCEPT ![t] = @ + 1]
    BY <1>4 DEF handle_tool_use_json_parse_error_event, InStream, threadVars, chanVars
  <2>2. \A u \in ToolIds : /\ ready_errors[u] \in Nat /\ running_tools[u] \in Nat
                           /\ ready_errors'[u] \in Nat /\ ready_errors'[u] >= ready_errors[u]
    BY <2>1 DEF IInv, TypeOK
  <2>3. \A j \in DOMAIN pending_message.content :
          pending_message.content[j].kind = "tool_use" => pending_message.content[j].id \in ToolIds
    BY ToolUsesAreToolIds DEF ToolUses, IInv, TypeOK
  <2>4. PendingOwed'
    BY <2>1, <2>2, <2>3 DEF ToolInv, PendingOwed, Owed, NotCanceled
  <2> QED
    BY <2>1, <2>4, StreamTools
<1>5. CASE update_token_usage \/ ToolUseLimitReached
  BY <1>5, QuietTools DEF update_token_usage, ToolUseLimitReached, chanVars, taskVars
<1>6. ASSUME NEW reason \in {"Refusal", "MaxTokens"}, StopEvent(reason) PROVE ToolInv'
  BY <1>6, TurnEndsTools DEF StopEvent, Reasons, IInv, TaskMatchesTurn
<1> QED
  BY <1>1, <1>2, <1>3, <1>4, <1>5, <1>6 DEF StreamEvent

\* A Resume message holds no tool use.
LEMMA RetryTimerTools ==
  ASSUME IInv, ToolInv, RetryTimer
  PROVE  ToolInv'
<1>1. /\ pc = "retry" /\ pc' = "request" /\ running_turn # 0
      /\ UNCHANGED <<pending_message, running_tools, ready_errors, tool_status, turn,
                     running_turn, events, message_ix>>
  BY DEF RetryTimer, chanVars, IInv, TaskMatchesTurn
<1>2. AwaitsNoTool' /\ ToolsReported' /\ PendingOwed' /\ Newest' /\ NoToolLeftRunning'
  BY <1>1 DEF ToolInv, AwaitsNoTool, ToolsReported, PendingOwed, Owed, NotCanceled, Newest,
              NoToolLeftRunning
<1>3. NoResultLost'
  <2>1. messages \in Seq(Messages) /\ ResumeMessage \in Messages /\ message_ix \in Nat
    BY ConstantMessages DEF IInv, TypeOK
  <2>2. messages' = messages \/ messages' = Append(messages, ResumeMessage)
    BY DEF RetryTimer
  <2>3. NothingLost(ResumeMessage)
    BY DEF NothingLost, ResumeMessage
  <2>4. \A i \in message_ix + 2 .. Len(messages) : NothingLost(messages[i])
    BY <1>1, NoResultLostMeans DEF ToolInv
  <2>5. \A i \in message_ix + 2 .. Len(messages') : NothingLost(messages'[i])
    <3>1. CASE messages' = messages
      BY <2>4, <3>1
    <3>2. CASE messages' = Append(messages, ResumeMessage)
      <4>1. /\ Len(messages') = Len(messages) + 1 /\ Len(messages) \in Nat
            /\ messages'[Len(messages) + 1] = ResumeMessage
            /\ \A i \in 1..Len(messages) : messages'[i] = messages[i]
        BY <2>1, <3>2
      <4>2. \A i \in message_ix + 2 .. Len(messages') :
              i = Len(messages) + 1 \/ i \in message_ix + 2 .. Len(messages)
        BY <2>1, <4>1
      <4>3. \A i \in message_ix + 2 .. Len(messages) : messages'[i] = messages[i]
        BY <2>1, <4>1
      <4> QED
        BY <2>3, <2>4, <4>1, <4>2, <4>3
    <3> QED
      BY <2>2, <3>1, <3>2
  <2>6. message_ix' = message_ix
    BY <1>1
  <2> QED
    BY <2>5, <2>6 DEF NoResultLost, NothingLost
<1> QED
  BY <1>2, <1>3 DEF ToolInv

LEMMA NextTools ==
  ASSUME IInv, ToolInv, [Next]_vars
  PROVE  ToolInv'
<1>1. /\ pc # "idle" => running_turn # 0
      /\ pending_message \in Messages /\ prompt_id \in 0..MaxPrompts
      /\ running_tools \in [ToolIds -> Nat] /\ ready_errors \in [ToolIds -> Nat]
      /\ NotCanceled(pending_message)
      /\ Owed(pending_message, running_tools, ready_errors)
  BY DEF IInv, TaskMatchesTurn, TypeOK, ToolInv, PendingOwed
<1>2. CASE UNCHANGED vars
  BY <1>2, QuietTools DEF vars, threadVars, chanVars, taskVars
<1>3. CASE Calls
  <2>1. CASE SetModel \/ set_title \/ Summarize
    BY <2>1, QuietTools DEF SetModel, set_title, Summarize, threadVars, chanVars, taskVars
  <2>2. CASE cancel
    BY <2>2, CancelTools DEF cancel
  <2>3. ASSUME NEW found \in BOOLEAN, send(found) PROVE ToolInv'
    <3>1. prompt_id' \in 0..MaxPrompts
      BY <1>1, <2>3, BoundsAssumption DEF send
    <3> QED
      BY <2>3, <3>1, ConstantMessages, RunTurnTools DEF send
  <2>4. ASSUME NEW found \in BOOLEAN, resume(found) PROVE ToolInv'
    BY <2>4, ConstantMessages, RunTurnTools DEF resume
  <2>5. ASSUME NEW u \in 1..MaxPrompts, truncate(u) PROVE ToolInv'
    BY <2>5, CancelTools DEF truncate
  <2> QED
    BY <1>3, <2>1, <2>2, <2>3, <2>4, <2>5 DEF Calls
<1>4. CASE Background
  BY <1>4, QuietTools
  DEF Background, TitleGenerated, SummaryReady, threadVars, chanVars, taskVars
<1>5. CASE StreamEvent
  BY <1>5, StreamEventTools
<1>6. CASE RequestAccepted
  BY <1>6, QuietTools DEF RequestAccepted, threadVars, chanVars
\* Nothing is in progress once no tool runs.
<1>7. ASSUME pc # "idle", NoTasks(running_tools, ready_errors), tool_status' = tool_status
      PROVE  NoneInProgress'
  BY <1>1, <1>7 DEF NoneInProgress, NoTasks, ToolInv, ToolsReported
<1>8. ASSUME NEW e, RequestFailed(e) PROVE ToolInv'
  <2>1. pc = "request" /\ RequestOver(pending_message, e, TRUE) /\ tool_status' = tool_status
    BY <1>8 DEF RequestFailed
  <2>2. NoTasks(running_tools, ready_errors)
    BY <2>1 DEF ToolInv, AwaitsNoTool, NoTasks, NoTools
  <2> QED
    BY <1>1, <1>7, <2>1, <2>2, RequestOverTools
<1>9. ASSUME NEW e, StreamOver(e) PROVE ToolInv'
  <2>1. CASE NoTasks(running_tools, ready_errors)
    <3>1. pc = "stream" /\ RequestOver(pending_message, e, TRUE) /\ tool_status' = tool_status
      BY <1>9, <2>1 DEF StreamOver
    <3> QED
      BY <1>1, <1>7, <2>1, <3>1, RequestOverTools
  <2>2. CASE ~NoTasks(running_tools, ready_errors)
    BY <1>9, <2>2, QuietTools DEF StreamOver, threadVars
  <2> QED
    BY <2>1, <2>2
<1>10. ASSUME NEW t \in ToolIds, ErrorDelivered(t) PROVE ToolInv'
  <2>1. [ready_errors EXCEPT ![t] = @ - 1] \in [ToolIds -> Nat]
    BY <1>10 DEF ErrorDelivered, IInv, TypeOK
  <2>2. \A u \in ToolIds \ {t} : [ready_errors EXCEPT ![t] = @ - 1][u] = ready_errors[u]
    BY <1>1
  <2> QED
    BY <1>1, <1>10, <2>1, <2>2, ToolResultTools DEF ErrorDelivered
<1>11. ASSUME NEW t \in ToolIds, NEW o \in {"ok", "error"}, ToolFinishes(t, o) PROVE ToolInv'
  <2>1. [running_tools EXCEPT ![t] = @ - 1] \in [ToolIds -> Nat]
    BY <1>11 DEF ToolFinishes, IInv, TypeOK
  <2>2. \A u \in ToolIds \ {t} : [running_tools EXCEPT ![t] = @ - 1][u] = running_tools[u]
    BY <1>1
  <2> QED
    BY <1>1, <1>11, <2>1, <2>2, ToolResultTools DEF ToolFinishes
<1>12. CASE RetryTimer
  BY <1>12, RetryTimerTools
<1> QED
  BY <1>2, <1>3, <1>4, <1>5, <1>6, <1>8, <1>9, <1>10, <1>11, <1>12
  DEF Next, RequestAnswered, StreamCloses, ToolDone

LEMMA InitTools == Init => ToolInv
<1> SUFFICES ASSUME Init PROVE ToolInv
  OBVIOUS
<1>1. AwaitsNoTool /\ ToolsReported /\ Newest /\ NoToolLeftRunning /\ NoResultLost
  BY DEF Init, AwaitsNoTool, ToolsReported, Newest, NoToolLeftRunning, NoResultLost
<1>2. PendingOwed
  BY EmptyOwes DEF Init, PendingOwed
<1> QED
  BY <1>1, <1>2 DEF ToolInv

THEOREM ToolInvariance == Spec => []ToolInv
BY InitTools, NextTools, Invariance, PTL DEF Spec

\* A turn that ends by itself or by an error has reported the end of every tool
\* call it reported as in progress, even of tools called twice.
THEOREM NoToolEverLeftRunning == Spec => []NoToolLeftRunning
<1>1. ToolInv => NoToolLeftRunning
  BY DEF ToolInv
<1> QED
  BY <1>1, ToolInvariance, PTL

\* As long as the turn runs, no complete tool use it stored is answered with
\* "Tool canceled by user": every tool is awaited before the answer is flushed.
THEOREM NoResultEverLost == Spec => []NoResultLost
<1>1. ToolInv => NoResultLost
  BY DEF ToolInv
<1> QED
  BY <1>1, ToolInvariance, PTL

----------------------------------------------------------------------------
(* Requests.  From the request on until the answer is flushed, the messages   *)
(* end with what the model has to answer.                                     *)

EndsForModel(ms) ==
  /\ ms # <<>>
  /\ ms[Len(ms)].role = "agent" =>
       Results(ms[Len(ms)]) # {} \/ (overtook /\ Len(ms) = Len(before) + 2)

ForModel == pc \in {"request", "stream", "tools"} => EndsForModel(messages)

\* Flushing an answer that has a result keeps that so.
LEMMA FlushedForModel ==
  ASSUME NEW ms \in Seq(Messages), EndsForModel(ms), NEW p \in Messages,
         NEW t \in ToolIds, p.results[t] # "none"
  PROVE  EndsForModel(Flushed(ms, p))
<1>1. CASE p.content = <<>>
  BY <1>1 DEF Flushed
<1>2. CASE p.content # <<>>
  <2>1. Flushed(ms, p) = Append(ms, Sealed(p))
    BY <1>2 DEF Flushed
  <2>2. Sealed(p) \in Messages
    BY SealedProperties
  <2>3. t \in Results(Sealed(p))
    <3>1. Sealed(p).results[t] # "none"
      BY DEF Sealed, Messages
    <3> QED
      BY <3>1 DEF Results
  <2>4. /\ Append(ms, Sealed(p)) # <<>>
        /\ Append(ms, Sealed(p))[Len(Append(ms, Sealed(p)))] = Sealed(p)
    BY <2>2
  <2> QED
    BY <2>1, <2>3, <2>4 DEF EndsForModel
<1> QED
  BY <1>1, <1>2

LEMMA PushedForModel ==
  ASSUME NEW ms \in Seq(Messages), NEW m \in Messages, m.role # "agent"
  PROVE  EndsForModel(Append(ms, m))
<1>1. Append(ms, m) # <<>> /\ Append(ms, m)[Len(Append(ms, m))] = m
  OBVIOUS
<1> QED
  BY <1>1 DEF EndsForModel

\* Only a round of tools goes straight on with the next request.
LEMMA RequestOverForModel ==
  ASSUME IInv, NEW p \in Messages, NEW e, NEW end_turn \in BOOLEAN, RequestOver(p, e, end_turn),
         end_turn \/ (EndsForModel(messages) /\ \E t \in ToolIds : p.results[t] # "none")
  PROVE  ForModel'
<1> DEFINE ms == Flushed(messages, p)
<1>0. UNCHANGED <<before, overtook>>
  BY DEF RequestOver, auxVars
<1>1. CASE TurnEnds("Error", ms, p) \/ TurnEnds("EndTurn", ms, p)
  BY <1>1 DEF TurnEnds, TaskGone, ForModel
<1>2. CASE Continues("retry", attempt + 1, ms, p)
  BY <1>2 DEF Continues, ForModel
<1>3. CASE ~end_turn /\ Continues("request", 0, ms, p)
  <2>1. EndsForModel(ms)
    BY <1>3, FlushedForModel DEF IInv, TypeOK
  <2> QED
    BY <1>0, <1>3, <2>1 DEF Continues, ForModel, EndsForModel
<1> QED
  BY <1>1, <1>2, <1>3 DEF RequestOver

LEMMA RunTurnForModel ==
  ASSUME IInv, NEW m \in OwnMessages, m \in Messages, m.role # "agent", NEW found \in BOOLEAN,
         run_turn(m, found)
  PROVE  ForModel'
<1>1. CASE ~(model /\ found)
  BY <1>1 DEF run_turn, TaskGone, ForModel
<1>2. CASE model /\ found
  <2>1. /\ messages' = Flushed(Append(messages, m), pending_message)
        /\ message_ix' = Len(messages') - 1 /\ before' = messages
        /\ overtook' = (pending_message.content # <<>>)
    BY <1>2 DEF run_turn
  <2>2. messages \in Seq(Messages)
    BY DEF IInv, TypeOK
  <2>3. CASE overtook'
    <3>1. Len(messages') = Len(before') + 2
      BY <2>1, <2>3, OwnMessagePlaced
    <3>2. messages' # <<>>
      BY <2>2, <2>1, <3>1, EmptySeq
    <3> QED
      BY <2>3, <3>1, <3>2 DEF ForModel, EndsForModel
  <2>4. CASE ~overtook'
    <3>1. messages' = Append(messages, m)
      BY <2>1, <2>4 DEF Flushed
    <3> QED
      BY <2>2, <3>1 DEF ForModel, EndsForModel
  <2> QED
    BY <2>3, <2>4
<1> QED
  BY <1>1, <1>2

LEMMA NextForModel ==
  ASSUME IInv, ToolInv, ForModel, [Next]_vars
  PROVE  ForModel'
<1>1. /\ pending_message \in Messages /\ prompt_id \in 0..MaxPrompts
      /\ messages \in Seq(Messages)
  BY DEF IInv, TypeOK
<1>2. ASSUME UNCHANGED <<messages, before, overtook>>, pc' \in {pc, "retry", "idle"}
      PROVE  ForModel'
  BY <1>2 DEF ForModel, EndsForModel
<1>3. ASSUME TaskGone PROVE ForModel'
  BY <1>3 DEF TaskGone, ForModel
<1>4. CASE UNCHANGED vars
  BY <1>2, <1>4 DEF vars, threadVars, taskVars, auxVars
<1>5. CASE Calls
  <2>1. CASE SetModel \/ set_title \/ Summarize
    BY <1>2, <2>1 DEF SetModel, set_title, Summarize, threadVars, taskVars, auxVars
  <2>2. ASSUME NEW found \in BOOLEAN, send(found) PROVE ForModel'
    <3>1. prompt_id' \in 0..MaxPrompts
      BY <1>1, <2>2, BoundsAssumption DEF send
    <3>2. /\ UserMessage(prompt_id') \in Messages /\ UserMessage(prompt_id').role # "agent"
          /\ UserMessage(prompt_id') \in OwnMessages
      BY <3>1, ConstantMessages DEF UserMessage, OwnMessages
    <3>3. run_turn(UserMessage(prompt_id'), found)
      BY <2>2 DEF send
    <3> QED
      BY <3>2, <3>3, RunTurnForModel
  <2>3. ASSUME NEW found \in BOOLEAN, resume(found) PROVE ForModel'
    <3>1. ResumeMessage \in Messages /\ ResumeMessage.role # "agent"
      BY ConstantMessages DEF ResumeMessage
    <3> QED
      BY <2>3, <3>1, RunTurnForModel DEF resume, OwnMessages
  <2> QED
    BY <1>3, <1>5, <2>1, <2>2, <2>3 DEF Calls, cancel, truncate
<1>6. CASE Background
  BY <1>2, <1>6 DEF Background, TitleGenerated, SummaryReady, threadVars, taskVars, auxVars
<1>7. CASE StreamEvent
  <2>1. ASSUME NEW reason, StopEvent(reason) PROVE ForModel'
    BY <1>3, <2>1 DEF StopEvent, TurnEnds
  <2> QED
    BY <1>2, <1>7, <2>1
    DEF StreamEvent, StartMessage, TextChunk, handle_tool_use_event, update_token_usage,
        handle_tool_use_json_parse_error_event, ToolUseLimitReached, threadVars, taskVars, auxVars
<1>8. CASE RequestAccepted
  BY <1>8 DEF RequestAccepted, threadVars, auxVars, ForModel, EndsForModel
<1>9. ASSUME NEW e, RequestFailed(e) PROVE ForModel'
  BY <1>1, <1>9, RequestOverForModel DEF RequestFailed
<1>10. ASSUME NEW e, StreamOver(e) PROVE ForModel'
  <2>1. CASE NoTasks(running_tools, ready_errors)
    BY <1>1, <1>10, <2>1, RequestOverForModel DEF StreamOver
  <2>2. CASE ~NoTasks(running_tools, ready_errors)
    BY <1>10, <2>2 DEF StreamOver, threadVars, auxVars, ForModel, EndsForModel
  <2> QED
    BY <2>1, <2>2
<1>11. ASSUME NEW t \in ToolIds, NEW outcome \in {"ok", "error"}, NEW running, NEW ready,
              ToolResult(t, outcome, running, ready)
       PROVE  ForModel'
  <2> DEFINE p == [pending_message EXCEPT !.results[t] = outcome]
  <2>1. p \in Messages /\ p.results[t] # "none"
    BY DEF IInv, TypeOK, Messages, Outcomes
  <2>2. EndsForModel(messages)
    BY <1>11 DEF ToolResult, ForModel
  <2> HIDE DEF p
  <2>3. CASE NoTasks(running, ready)
    <3>1. RequestOver(p, error, FALSE)
      BY <1>11, <2>3 DEF ToolResult, p
    <3> QED
      BY <2>1, <2>2, <3>1, RequestOverForModel
  <2>4. CASE ~NoTasks(running, ready)
    BY <1>2, <1>11, <2>4 DEF ToolResult, auxVars
  <2> QED
    BY <2>3, <2>4
<1>12. CASE ToolDone
  BY <1>11, <1>12 DEF ToolDone, ToolFinishes, ErrorDelivered
<1>13. CASE RetryTimer
  <2>1. messages # <<>>
    <3>1. message_ix < Len(messages) /\ message_ix \in Nat
      BY <1>13 DEF RetryTimer, IInv, TaskMatchesTurn, TypeOK
    <3> QED
      BY <1>1, <3>1, EmptySeq
  <2>2. CASE messages[Len(messages)].role = "agent" /\ Results(messages[Len(messages)]) = {}
    <3>1. Len(messages) > 0
      BY <1>1, <2>1, EmptySeq
    <3>2. messages' = Append(messages, ResumeMessage)
      BY <1>13, <2>2, <3>1 DEF RetryTimer
    <3> QED
      BY <1>1, <3>2, ConstantMessages, PushedForModel DEF ForModel, EndsForModel, ResumeMessage
  <2>3. CASE ~(messages[Len(messages)].role = "agent" /\ Results(messages[Len(messages)]) = {})
    BY <1>13, <2>1, <2>3 DEF RetryTimer, ForModel, EndsForModel, auxVars
  <2> QED
    BY <2>2, <2>3
<1> QED
  BY <1>4, <1>5, <1>6, <1>7, <1>8, <1>9, <1>10, <1>12, <1>13
  DEF Next, RequestAnswered, StreamCloses

\* Whenever a request is sent - the first, the next round of tools, or a
\* repetition - the conversation ends with what the model has to answer and the
\* pending answer is empty; or it is the first request of a turn that overtook
\* another, whose cut-off answer lies behind the prompt.
THEOREM RequestAlwaysEndsWithUser == Spec => []RequestEndsWithUser
<1>1. Init => ForModel
  BY DEF Init, ForModel
<1>2. IInv /\ ToolInv /\ ForModel /\ [Next]_vars => ForModel'
  BY NextForModel
<1>3. ToolInv /\ ForModel => RequestEndsWithUser
  BY DEF ToolInv, AwaitsNoTool, ForModel, EndsForModel, RequestEndsWithUser
<1> QED
  BY <1>1, <1>2, <1>3, Invariance, ToolInvariance, PTL DEF Spec
=============================================================================

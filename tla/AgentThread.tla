---------------------------- MODULE AgentThread ----------------------------
(***************************************************************************)
(* The native agent's conversation and its turn loop: struct Thread of     *)
(* crates/agent2/src/thread.rs.                                            *)
(*                                                                         *)
(* Everything runs on one foreground executor, so a step of the model is   *)
(* what the code does between two awaits: a call on the Thread entity      *)
(* (send, resume, cancel, truncate, set_title ...), or one poll of the     *)
(* task that run_turn spawns, which awaits the model's answer ("request"), *)
(* the next event of the stream ("stream"), the next finished tool         *)
(* ("tools") or the retry timer ("retry").  Cancelling drops the task:     *)
(* what it held (attempt, error, tool tasks, message_ix) is gone.          *)
(*                                                                         *)
(* Data is abstracted: a user message is its id (the number of the prompt  *)
(* that sent it), text is its kind, a tool result is its outcome.  A       *)
(* pending_message of None and of Some(default) are one value here, Empty: *)
(* pending_message() inserts the default, and flush and to_request treat   *)
(* the two alike.                                                          *)
(***************************************************************************)
EXTENDS Integers, Sequences, RetryPolicy

CONSTANTS
  ToolIds,          \* tool use ids a model may mention
  TextKinds,        \* the text-like chunks of the stream, see Kinds
  Errors,           \* the completion errors a provider may report
  AutoRetry,        \* auto_retry for the thread's provider and plan
  HasSummarizationModel,  \* summarization_model is Some
  ParseErrorsAnnounced,   \* a ToolUseJsonParseError follows a ToolUse of its id
  MaxPrompts, MaxTurns, MaxMessages, MaxContent, MaxTasks  \* bounds

Kinds == {"text", "thinking", "redacted"}

ASSUME ToolIdsAssumption == "-" \notin ToolIds
ASSUME FlagsAssumption ==
  /\ TextKinds \subseteq Kinds
  /\ AutoRetry \in BOOLEAN /\ HasSummarizationModel \in BOOLEAN
  /\ ParseErrorsAnnounced \in BOOLEAN
ASSUME BoundsAssumption ==
  /\ MaxPrompts \in Nat /\ MaxTurns \in Nat /\ MaxMessages \in Nat
  /\ MaxContent \in Nat /\ MaxTasks \in Nat
ASSUME ErrorsAssumption ==
  \A e \in Errors : retry_strategy_for(e).max_attempts \in 0..MAX_RETRY_ATTEMPTS

VARIABLES
  \* fields of Thread
  model,             \* model is Some
  prompt_id,         \* number of prompts sent: the id of the newest user message
  messages, pending_message,
  request_token_usage,   \* the user message ids that have an entry
  title, pending_title_generation,
  summary, summary_task, \* cached summary, and the request that computes one
  tool_use_limit_reached,
  running_turn,      \* number of the turn that runs, 0 for None
  \* the turns started, and what their event channels carry
  turn, events,      \* events[t]: the final events sent on turn t's channel
  tool_status,       \* last status the newest channel reports for each tool call
  \* locals of the running task
  pc, message_ix, attempt, error, running_tools, ready_errors,
  \* auxiliary
  before,    \* the messages as they were before the newest turn's own message
  overtook   \* it overtook a turn whose answer had begun

threadVars == <<model, prompt_id, messages, pending_message, request_token_usage,
                tool_use_limit_reached, running_turn>>
titleVars  == <<title, pending_title_generation, summary, summary_task>>
chanVars   == <<turn, events, tool_status>>
taskVars   == <<pc, message_ix, attempt, error, running_tools, ready_errors>>
auxVars    == <<before, overtook>>
vars == <<threadVars, titleVars, chanVars, taskVars, auxVars>>

Turns == 1..MaxTurns
NoError == [variant |-> "none", status |-> 0, retry_after |-> NoHint]
NoTools == [t \in ToolIds |-> 0]

----------------------------------------------------------------------------
(* Messages. *)

Outcomes == {"ok", "error", "canceled"}
NoResults == [t \in ToolIds |-> "none"]
Chunk(kind) == [kind |-> kind, id |-> "-", complete |-> TRUE]
ToolUse(t, complete) == [kind |-> "tool_use", id |-> t, complete |-> complete]

Chunks == [kind : Kinds, id : {"-"}, complete : {TRUE}]
            \cup [kind : {"tool_use"}, id : ToolIds, complete : BOOLEAN]
Messages == [role : {"user", "agent", "resume"}, id : 0..MaxPrompts,
             content : Seq(Chunks), results : [ToolIds -> Outcomes \cup {"none"}]]

UserMessage(u) == [role |-> "user", id |-> u, content |-> <<>>, results |-> NoResults]
ResumeMessage  == [role |-> "resume", id |-> 0, content |-> <<>>, results |-> NoResults]
Empty          == [role |-> "agent", id |-> 0, content |-> <<>>, results |-> NoResults]

ToolUses(m) == {m.content[i].id : i \in {j \in DOMAIN m.content :
                                            m.content[j].kind = "tool_use"}}
Results(m) == {t \in ToolIds : m.results[t] # "none"}

\* Variant: interrupted tool uses stay unanswered.
Sealed_Unanswered(m) == m

\* flush_pending_message answers every tool use that has no result yet.
Sealed(m) ==
  [m EXCEPT !.results = [t \in ToolIds |->
      IF t \in ToolUses(m) /\ m.results[t] = "none" THEN "canceled" ELSE m.results[t]]]

Flushed(ms, p) == IF p.content = <<>> THEN ms ELSE Append(ms, Sealed(p))

\* A cached or requested summary that no longer describes the messages.
Aged(s) == IF s = "fresh" THEN "stale" ELSE s

\* flush_pending_message clears the summary when it pushes.
FlushedSummary(p) == IF p.content = <<>> THEN summary ELSE "none"
AgedSummaryTask(ms) == IF ms = messages THEN summary_task ELSE Aged(summary_task)

\* The position of the last user message, in a set that is empty without one.
LastUserMessage(ms) ==
  {i \in DOMAIN ms : /\ ms[i].role = "user"
                     /\ \A j \in i + 1 .. Len(ms) : ms[j].role # "user"}

----------------------------------------------------------------------------
Init ==
  /\ model \in BOOLEAN
  /\ prompt_id = 0
  /\ messages = <<>>
  /\ pending_message = Empty
  /\ request_token_usage = {}
  /\ title = "none" /\ pending_title_generation = FALSE
  /\ summary = "none" /\ summary_task = "none"
  /\ tool_use_limit_reached = FALSE
  /\ running_turn = 0 /\ turn = 0
  /\ events = [t \in Turns |-> <<>>]
  /\ tool_status = [t \in ToolIds |-> "none"]
  /\ pc = "idle" /\ message_ix = 0 /\ attempt = 0 /\ error = NoError
  /\ running_tools = NoTools /\ ready_errors = NoTools
  /\ before = <<>> /\ overtook = FALSE

\* The task is dropped, or has returned.
TaskGone ==
  /\ pc' = "idle" /\ message_ix' = 0 /\ attempt' = 0 /\ error' = NoError
  /\ running_tools' = NoTools /\ ready_errors' = NoTools

\* Variant: a cancelled turn sends no final event.
CanceledEvents_Silent == events

\* What the channels carry once the running turn, if any, has been cancelled.
CanceledEvents ==
  IF running_turn = 0 THEN events
  ELSE [events EXCEPT ![running_turn] = Append(@, "Cancelled")]

----------------------------------------------------------------------------
(* Calls on the thread. *)

SetModel ==
  /\ ~model
  /\ model' = TRUE
  /\ UNCHANGED <<prompt_id, messages, pending_message, request_token_usage,
                 tool_use_limit_reached, running_turn, titleVars, chanVars, taskVars, auxVars>>

cancel ==
  /\ events' = CanceledEvents
  /\ running_turn' = 0
  /\ TaskGone
  /\ messages' = Flushed(messages, pending_message)
  /\ pending_message' = Empty
  /\ summary' = FlushedSummary(pending_message)
  /\ summary_task' = AgedSummaryTask(messages')
  /\ UNCHANGED <<model, prompt_id, request_token_usage, tool_use_limit_reached, title,
                 pending_title_generation, turn, tool_status, auxVars>>

\* run_turn after `message` was pushed.  It cancels first, so the answer of
\* an interrupted turn lands behind `message`, and message_ix behind that; a
\* profile that is not in the settings fails the call after that.
run_turn(message, profile_found) ==
  LET ms == Flushed(Append(messages, message), pending_message)
  IN
  /\ turn < MaxTurns /\ Len(messages) < MaxMessages
  /\ events' = CanceledEvents
  /\ messages' = ms
  /\ pending_message' = Empty
  /\ summary_task' = Aged(summary_task)
  /\ IF model /\ profile_found
     THEN /\ turn' = turn + 1
          /\ running_turn' = turn + 1
          /\ message_ix' = Len(ms) - 1
          /\ tool_use_limit_reached' = FALSE
          /\ summary' = "none"
          /\ tool_status' = [t \in ToolIds |-> "none"]
          /\ pc' = "request" /\ attempt' = 0 /\ error' = NoError
          /\ running_tools' = NoTools /\ ready_errors' = NoTools
          /\ before' = messages /\ overtook' = (pending_message.content # <<>>)
     ELSE /\ running_turn' = 0
          /\ TaskGone
          /\ summary' = Aged(FlushedSummary(pending_message))
          /\ UNCHANGED <<turn, tool_use_limit_reached, tool_status, auxVars>>
  /\ UNCHANGED <<model, request_token_usage, title, pending_title_generation>>

\* AcpThread cancels a turn and waits for it before it prompts again, but not
\* one that was stopped by hand: its late prompt and the next one overtake
\* each other here.
send(profile_found) ==
  /\ model
  /\ prompt_id < MaxPrompts
  /\ prompt_id' = prompt_id + 1
  /\ run_turn(UserMessage(prompt_id'), profile_found)

\* The UI offers it on a conversation that stopped with an error.
resume(profile_found) ==
  /\ messages # <<>>
  /\ run_turn(ResumeMessage, profile_found)
  /\ UNCHANGED prompt_id

\* truncate cancels first; an unknown message id then fails the call.
truncate(u) ==
  LET ms == Flushed(messages, pending_message)
      found == {i \in DOMAIN ms : ms[i].role = "user" /\ ms[i].id = u}
  IN
  /\ events' = CanceledEvents
  /\ running_turn' = 0
  /\ TaskGone
  /\ pending_message' = Empty
  /\ \/ /\ found = {}
        /\ messages' = ms
        /\ summary' = FlushedSummary(pending_message)
        /\ UNCHANGED request_token_usage
     \/ \E position \in found :
        /\ \A i \in found : position <= i
        /\ messages' = SubSeq(ms, 1, position - 1)
        /\ request_token_usage' = request_token_usage \
             {ms[i].id : i \in {j \in position..Len(ms) : ms[j].role = "user"}}
        /\ summary' = "none"
  /\ summary_task' = AgedSummaryTask(messages')
  /\ UNCHANGED <<model, prompt_id, tool_use_limit_reached, title,
                 pending_title_generation, turn, tool_status, auxVars>>

\* Variant: the generation in flight survives.
set_title_KeepsGeneration ==
  /\ title' = "user"
  /\ UNCHANGED <<threadVars, pending_title_generation, summary, summary_task, chanVars,
                 taskVars, auxVars>>

\* The user names the thread; a title being generated is dropped.
set_title ==
  /\ title' = "user"
  /\ pending_title_generation' = FALSE
  /\ UNCHANGED <<threadVars, summary, summary_task, chanVars, taskVars, auxVars>>

\* The title request ends, with a title or with an error.
TitleGenerated(ok) ==
  /\ pending_title_generation
  /\ pending_title_generation' = FALSE
  /\ title' = IF ok THEN "generated" ELSE title
  /\ UNCHANGED <<threadVars, summary, summary_task, chanVars, taskVars, auxVars>>

Summarize ==
  /\ HasSummarizationModel /\ summary = "none" /\ summary_task = "none"
  /\ summary_task' = "fresh"
  /\ UNCHANGED <<threadVars, title, pending_title_generation, summary, chanVars, taskVars,
                 auxVars>>

SummaryReady(ok) ==
  /\ summary_task # "none"
  /\ summary_task' = "none"
  /\ summary' = IF ok THEN summary_task ELSE summary
  /\ UNCHANGED <<threadVars, title, pending_title_generation, chanVars, taskVars, auxVars>>

----------------------------------------------------------------------------
(* The turn's task: run_turn's spawned block and run_turn_internal. *)

\* Variant: the refused prompt itself is kept.
TurnEnds_KeepsPrompt(reason, ms, p) ==
  /\ events' = [events EXCEPT ![running_turn] = Append(@, reason)]
  /\ messages' = IF reason = "Refusal" THEN SubSeq(ms, 1, message_ix + 1) ELSE ms
  /\ summary' = IF reason = "Refusal" THEN Aged(FlushedSummary(p)) ELSE FlushedSummary(p)
  /\ running_turn' = 0
  /\ TaskGone

\* Variant: running_turn is not taken when the turn ends.
TurnEnds_KeepsRunning(reason, ms, p) ==
  /\ events' = [events EXCEPT ![running_turn] = Append(@, reason)]
  /\ messages' = IF reason = "Refusal" THEN SubSeq(ms, 1, message_ix) ELSE ms
  /\ summary' = IF reason = "Refusal" THEN Aged(FlushedSummary(p)) ELSE FlushedSummary(p)
  /\ UNCHANGED running_turn
  /\ TaskGone

\* The block after run_turn_internal returned: ms are the flushed messages.
TurnEnds(reason, ms, p) ==
  /\ events' = [events EXCEPT ![running_turn] = Append(@, reason)]
  /\ messages' = IF reason = "Refusal" THEN SubSeq(ms, 1, message_ix) ELSE ms
  /\ summary' = IF reason = "Refusal" THEN Aged(FlushedSummary(p)) ELSE FlushedSummary(p)
  /\ running_turn' = 0
  /\ TaskGone

\* Variant: the attempts made so far are forgotten.
Continues_ForgetsAttempts(next, n, ms, p) ==
  /\ pc' = next
  /\ attempt' = 0
  /\ error' = NoError
  /\ messages' = ms
  /\ summary' = FlushedSummary(p)
  /\ running_tools' = NoTools /\ ready_errors' = NoTools
  /\ UNCHANGED <<events, running_turn, message_ix>>

Continues(next, n, ms, p) ==
  /\ pc' = next
  /\ attempt' = n
  /\ error' = NoError
  /\ messages' = ms
  /\ summary' = FlushedSummary(p)
  /\ running_tools' = NoTools /\ ready_errors' = NoTools
  /\ UNCHANGED <<events, running_turn, message_ix>>

generate_title ==
  pending_title_generation' =
    (pending_title_generation \/ (title = "none" /\ HasSummarizationModel))

\* Variant: the attempts are not counted against max_attempts.
Repeated_Unbounded(e, n) == AutoRetry /\ retry_strategy_for(e).max_attempts > 0

Repeated(e, n) == AutoRetry /\ Retried(e, n)

\* The request is over and its tools are done: flush p, then repeat the
\* request, fail, end the turn or go on with the tools' results.
RequestOver(p, err, end_turn) ==
  LET ms == Flushed(messages, p)
  IN
  /\ pending_message' = Empty
  /\ generate_title
  /\ \/ err # NoError /\ Repeated(err, attempt + 1) /\ Continues("retry", attempt + 1, ms, p)
     \/ err # NoError /\ ~Repeated(err, attempt + 1) /\ TurnEnds("Error", ms, p)
     \/ err = NoError /\ tool_use_limit_reached /\ TurnEnds("Error", ms, p)
     \/ err = NoError /\ ~tool_use_limit_reached /\ end_turn /\ TurnEnds("EndTurn", ms, p)
     \/ err = NoError /\ ~tool_use_limit_reached /\ ~end_turn /\ Continues("request", 0, ms, p)
  /\ summary_task' = AgedSummaryTask(messages')
  /\ UNCHANGED <<model, prompt_id, request_token_usage, tool_use_limit_reached, title,
                 turn, auxVars>>

\* model.stream_completion returns a stream ...
RequestAccepted ==
  /\ pc = "request"
  /\ pc' = "stream"
  /\ UNCHANGED <<threadVars, titleVars, chanVars, message_ix, attempt, error,
                 running_tools, ready_errors, auxVars>>

\* ... or an error, which is handled like an empty stream that ends in it.
RequestFailed(e) ==
  /\ pc = "request"
  /\ RequestOver(pending_message, e, TRUE)
  /\ UNCHANGED tool_status

\* Variant: only the results that are ready are awaited.
NoTasks_IgnoresRunning(running, ready) == \A t \in ToolIds : ready[t] = 0

NoTasks(running, ready) == \A t \in ToolIds : running[t] = 0 /\ ready[t] = 0

\* Variant: a broken stream is handled before its tools are done.
StreamOver_ErrorFirst(e) ==
  /\ pc = "stream"
  /\ IF e # NoError \/ NoTasks(running_tools, ready_errors)
     THEN RequestOver(pending_message, e, TRUE)
     ELSE /\ pc' = "tools"
          /\ error' = e
          /\ UNCHANGED <<threadVars, titleVars, turn, events, message_ix, attempt,
                         running_tools, ready_errors, auxVars>>
  /\ UNCHANGED tool_status

\* The stream ends, or breaks off with e.  The tools that run are awaited
\* before the error is looked at.
StreamOver(e) ==
  /\ pc = "stream"
  /\ IF NoTasks(running_tools, ready_errors)
     THEN RequestOver(pending_message, e, TRUE)
     ELSE /\ pc' = "tools"
          /\ error' = e
          /\ UNCHANGED <<threadVars, titleVars, turn, events, message_ix, attempt,
                         running_tools, ready_errors, auxVars>>
  /\ UNCHANGED tool_status

\* One tool task resolves; ready ones carry an error result.
ToolResult(t, outcome, running, ready) ==
  LET p == [pending_message EXCEPT !.results[t] = outcome]
  IN
  /\ pc = "tools"
  /\ tool_status' = [tool_status EXCEPT ![t] =
                       IF outcome = "ok" THEN "completed" ELSE "failed"]
  /\ IF NoTasks(running, ready)
     THEN RequestOver(p, error, FALSE)
     ELSE /\ pending_message' = p
          /\ running_tools' = running /\ ready_errors' = ready
          /\ UNCHANGED <<model, prompt_id, messages, request_token_usage,
                         tool_use_limit_reached, running_turn, titleVars, turn, events,
                         pc, message_ix, attempt, error, auxVars>>

ToolFinishes(t, outcome) ==
  /\ running_tools[t] > 0
  /\ ToolResult(t, outcome, [running_tools EXCEPT ![t] = @ - 1], ready_errors)

ErrorDelivered(t) ==
  /\ ready_errors[t] > 0
  /\ ToolResult(t, "error", running_tools, [ready_errors EXCEPT ![t] = @ - 1])

\* Variant: a half-finished answer is not closed.
RetryTimer_NoResume ==
  /\ pc = "retry"
  /\ pc' = "request"
  /\ UNCHANGED <<threadVars, titleVars, chanVars, message_ix, attempt, error,
                 running_tools, ready_errors, auxVars>>

\* The retry timer fires.  A half-finished answer without tool results is
\* closed with a Resume message.
RetryTimer ==
  LET last == messages[Len(messages)]
      resumes == Len(messages) > 0 /\ last.role = "agent" /\ Results(last) = {}
  IN
  /\ pc = "retry"
  /\ pc' = "request"
  /\ messages' = IF resumes THEN Append(messages, ResumeMessage) ELSE messages
  /\ summary' = IF resumes THEN Aged(summary) ELSE summary
  /\ summary_task' = AgedSummaryTask(messages')
  /\ UNCHANGED <<model, prompt_id, pending_message, request_token_usage,
                 tool_use_limit_reached, running_turn, title, pending_title_generation,
                 chanVars, message_ix, attempt, error, running_tools, ready_errors, auxVars>>

----------------------------------------------------------------------------
(* handle_completion_event: one action per event of the stream. *)

InStream == pc = "stream" /\ Len(messages) < MaxMessages
Room(p) == Len(p.content) < MaxContent
LastChunk(p) == p.content[Len(p.content)]

\* Providers send StartMessage before any content of the answer.
StartMessage ==
  /\ InStream /\ pending_message.content = <<>> /\ NoTasks(running_tools, ready_errors)
  /\ pending_message' = Empty
  /\ UNCHANGED <<model, prompt_id, messages, request_token_usage, tool_use_limit_reached,
                 running_turn, titleVars, chanVars, taskVars, auxVars>>

\* Text and Thinking extend a last chunk of their kind; RedactedThinking
\* always adds one.
TextChunk(kind) ==
  LET p == pending_message
      merges == kind # "redacted" /\ p.content # <<>> /\ LastChunk(p).kind = kind
  IN
  /\ InStream
  /\ merges \/ Room(p)
  /\ pending_message' =
       IF merges THEN p ELSE [p EXCEPT !.content = Append(@, Chunk(kind))]
  /\ UNCHANGED <<model, prompt_id, messages, request_token_usage, tool_use_limit_reached,
                 running_turn, titleVars, chanVars, taskVars, auxVars>>

\* A tool use replaces a last chunk of its id, else it is pushed and announced.
\* When its input is complete, an enabled tool is started and an unknown one
\* answered with an error.
handle_tool_use_event(t, known, complete) ==
  LET p == pending_message
      replaces == /\ p.content # <<>>
                  /\ LastChunk(p).kind = "tool_use" /\ LastChunk(p).id = t
      content == IF replaces
                 THEN [p.content EXCEPT ![Len(p.content)] = ToolUse(t, complete)]
                 ELSE Append(p.content, ToolUse(t, complete))
      announced == IF replaces THEN tool_status[t] ELSE "pending"
  IN
  /\ InStream
  /\ replaces \/ Room(p)
  /\ complete => running_tools[t] + ready_errors[t] < MaxTasks
  /\ pending_message' = [p EXCEPT !.content = content]
  /\ tool_status' = [tool_status EXCEPT ![t] =
                       IF complete /\ known THEN "in_progress" ELSE announced]
  /\ running_tools' = [running_tools EXCEPT ![t] = IF complete /\ known THEN @ + 1 ELSE @]
  /\ ready_errors' = [ready_errors EXCEPT ![t] = IF complete /\ ~known THEN @ + 1 ELSE @]
  /\ UNCHANGED <<model, prompt_id, messages, request_token_usage, tool_use_limit_reached,
                 running_turn, titleVars, turn, events, pc, message_ix, attempt, error, auxVars>>

\* The tool's input is not JSON: an error result, and nothing in the content.
handle_tool_use_json_parse_error_event(t) ==
  /\ InStream
  /\ ParseErrorsAnnounced => t \in ToolUses(pending_message)
  /\ running_tools[t] + ready_errors[t] < MaxTasks
  /\ ready_errors' = [ready_errors EXCEPT ![t] = @ + 1]
  /\ UNCHANGED <<threadVars, titleVars, chanVars, pc, message_ix, attempt, error,
                 running_tools, auxVars>>

\* UsageUpdate is booked on the last user message.
update_token_usage ==
  /\ InStream
  /\ \E i \in LastUserMessage(messages) :
       request_token_usage' = request_token_usage \cup {messages[i].id}
  /\ UNCHANGED <<model, prompt_id, messages, pending_message, tool_use_limit_reached,
                 running_turn, titleVars, chanVars, taskVars, auxVars>>

ToolUseLimitReached ==
  /\ InStream
  /\ tool_use_limit_reached' = TRUE
  /\ UNCHANGED <<model, prompt_id, messages, pending_message, request_token_usage,
                 running_turn, titleVars, chanVars, taskVars, auxVars>>

\* Stop(Refusal) and Stop(MaxTokens) leave run_turn_internal at once; the
\* tools that run are dropped.  Stop(EndTurn) and Stop(ToolUse) do nothing.
StopEvent(reason) ==
  /\ pc = "stream"
  /\ pending_message' = Empty
  /\ TurnEnds(reason, Flushed(messages, pending_message), pending_message)
  /\ summary_task' = AgedSummaryTask(messages')
  /\ UNCHANGED <<model, prompt_id, request_token_usage, tool_use_limit_reached, title,
                 pending_title_generation, turn, tool_status, auxVars>>

----------------------------------------------------------------------------
Calls ==
  \/ SetModel
  \/ cancel
  \/ \E profile_found \in BOOLEAN : send(profile_found) \/ resume(profile_found)
  \/ \E u \in 1..MaxPrompts : truncate(u)
  \/ set_title
  \/ Summarize

Background ==
  \E ok \in BOOLEAN : TitleGenerated(ok) \/ SummaryReady(ok)

StreamEvent ==
  \/ StartMessage
  \/ \E kind \in TextKinds : TextChunk(kind)
  \/ \E t \in ToolIds, known \in BOOLEAN, complete \in BOOLEAN :
        handle_tool_use_event(t, known, complete)
  \/ \E t \in ToolIds : handle_tool_use_json_parse_error_event(t)
  \/ update_token_usage
  \/ ToolUseLimitReached
  \/ \E reason \in {"Refusal", "MaxTokens"} : StopEvent(reason)

\* What ends the task's current await.
RequestAnswered == RequestAccepted \/ \E e \in Errors : RequestFailed(e)
StreamCloses == \E e \in Errors \cup {NoError} : StreamOver(e)
ToolDone ==
  \E t \in ToolIds : ErrorDelivered(t) \/ \E o \in {"ok", "error"} : ToolFinishes(t, o)

Next ==
  Calls \/ Background \/ StreamEvent \/ RequestAnswered \/ StreamCloses \/ ToolDone \/ RetryTimer

Spec == Init /\ [][Next]_vars

\* The executor polls a task whose await is over; the provider answers every
\* request and closes every stream, and every tool returns.
Fairness ==
  /\ WF_vars(RequestAnswered) /\ WF_vars(StreamCloses) /\ WF_vars(ToolDone) /\ WF_vars(RetryTimer)

LiveSpec == Spec /\ Fairness

----------------------------------------------------------------------------
(* Properties. *)

Statuses == {"none", "pending", "in_progress", "completed", "failed"}
Reasons  == {"EndTurn", "Refusal", "MaxTokens", "Cancelled", "Error"}

\* Every variable has the type its field, local or channel has in the code;
\* in particular the u8 `attempt` never exceeds MAX_RETRY_ATTEMPTS.
TypeOK ==
  /\ model \in BOOLEAN
  /\ prompt_id \in 0..MaxPrompts
  /\ messages \in Seq(Messages)
  /\ pending_message \in Messages
  /\ request_token_usage \subseteq 0..MaxPrompts
  /\ title \in {"none", "user", "generated"}
  /\ pending_title_generation \in BOOLEAN
  /\ summary \in {"none", "fresh", "stale"} /\ summary_task \in {"none", "fresh", "stale"}
  /\ tool_use_limit_reached \in BOOLEAN
  /\ turn \in 0..MaxTurns /\ running_turn \in 0..MaxTurns
  /\ events \in [Turns -> Seq(Reasons)]
  /\ tool_status \in [ToolIds -> Statuses]
  /\ pc \in {"idle", "request", "stream", "tools", "retry"}
  /\ message_ix \in Nat
  /\ attempt \in 0..MAX_RETRY_ATTEMPTS
  /\ error \in Errors \cup {NoError}
  /\ running_tools \in [ToolIds -> Nat] /\ ready_errors \in [ToolIds -> Nat]
  /\ before \in Seq(Messages) /\ overtook \in BOOLEAN

Answered(ms) ==
  \A i \in DOMAIN ms : ms[i].role = "agent" => ToolUses(ms[i]) \subseteq Results(ms[i])

\* flush_pending_message (thread.rs:1798): however a turn was interrupted -
\* cancelled, truncated, refused, failed, overtaken by a new prompt - every
\* tool use of a stored agent message has a result in that same message.
ToolUsesAnswered == Answered(messages)

\* run_turn, RunningTurn::cancel: every turn that is over has sent exactly one
\* final event on its channel, and the turn that runs has sent none.
OneFinalEvent ==
  \A t \in Turns :
    Len(events[t]) = IF t <= turn /\ t # running_turn THEN 1 ELSE 0

\* run_turn_internal, retry and tool rounds: whenever the loop sends a request,
\* nothing is left in the pending message and the conversation ends with what
\* the model has to answer: a prompt, a Resume, or results of tools.  (Not so
\* the first request of a turn that overtook another: it ends with the answer
\* that was cut off, just behind the turn's own prompt.)
RequestEndsWithUser ==
  pc = "request" =>
    LET last == messages[Len(messages)]
    IN  /\ pending_message = Empty
        /\ messages # <<>>
        /\ last.role = "agent" =>
             Results(last) # {} \/ (overtook /\ Len(messages) = Len(before) + 2)

\* run_turn_internal awaits every tool before it flushes: as long as the turn
\* runs, no tool use with complete input in the messages it has stored is
\* answered with "Tool canceled by user".
NoResultLost ==
  running_turn # 0 =>
    \A i \in message_ix + 2 .. Len(messages) : \A j \in DOMAIN messages[i].content :
      LET c == messages[i].content[j]
      IN  c.kind = "tool_use" /\ c.complete => messages[i].results[c.id] # "canceled"

\* A turn that ends by itself or by an error has reported the end of every
\* tool call it reported as in progress.
NoToolLeftRunning ==
  turn # 0 /\ events[turn] \in {<<"EndTurn">>, <<"Error">>} =>
    \A t \in ToolIds : tool_status[t] # "in_progress"

OwnMessages == {UserMessage(u) : u \in 0..MaxPrompts} \cup {ResumeMessage}

\* The messages from before the newest turn; of a turn that overtook another
\* its own message stays, too, and the answer that was cut off goes.
Restored(ms) ==
  IF overtook THEN \E m \in OwnMessages : ms = Append(before, m) ELSE ms = before

\* Refusal (run_turn): the messages are again what they were before the turn's
\* own message, whatever the turn stored, retried or ran in between.  (When it
\* overtook a turn the refused prompt is kept, and nothing behind it.)
RefusalRestores ==
  [][\A t \in Turns : events'[t] # events[t] /\ events'[t] = <<"Refusal">>
        => Restored(messages')]_vars

\* set_title drops a title generation in flight: a title the user chose is
\* never replaced by a generated one.
UserTitleKept == [][title = "user" => title' = "user"]_vars

\* Every turn that starts sends its final event.
TurnEndsEventually == \A t \in Turns : (running_turn = t) ~> (events[t] # <<>>)

\* The outcome of each turn, as its channel tells it.
Outcome ==
  [t \in Turns |-> IF events[t] = <<>> THEN "none" ELSE events[t][Len(events[t])]]

Contract == INSTANCE AgentTurns
  WITH started <- turn, current <- running_turn, outcome <- Outcome

\* The thread keeps the contract of an agent connection: one turn at a time,
\* one final outcome each, "Cancelled" exactly for those interrupted, and,
\* while provider and tools answer, an outcome for every turn.
ImplementsContract == Contract!LiveSpec

\* thread.rs:1391: handle_completion_event "Returns an optional tool result
\* task, which the main agentic loop will send back to the model when it
\* resolves."  When the last task of a request resolves and the turn goes on,
\* the next request holds a result of that tool.
ToolResultReachesModel ==
  [][\A t \in ToolIds :
        (pc = "tools" /\ pc' = "request" /\ tool_status'[t] \in {"completed", "failed"}
            /\ running_tools[t] + ready_errors[t] > 0)
        => \E i \in message_ix + 2 .. Len(messages') : t \in Results(messages'[i])]_vars
=============================================================================

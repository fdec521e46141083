----------------------------- MODULE AcpThread -----------------------------
(***************************************************************************)
(* The conversation as the user sees it: struct AcpThread of               *)
(* crates/acp_thread/src/acp_thread.rs, over a connection that keeps the   *)
(* contract AgentTurns (AgentThread implements it).                        *)
(*                                                                         *)
(* run_turn splits a turn over two tasks of the foreground executor.  The  *)
(* send task awaits the cancel task of the turn it overtakes ("queued"),   *)
(* pushes the user message, awaits a git checkpoint ("checkpoint"), sets   *)
(* it on the last user message, prompts the connection and awaits its      *)
(* response ("prompting").  The completion task, which the caller owns,    *)
(* awaits that response ("waiting"), then a second checkpoint              *)
(* ("checkpoint", "compared"), and only then looks at the outcome.  Many   *)
(* turns may be somewhere between the two.                                 *)
(*                                                                         *)
(* A turn is its number, and so is the user message it pushes.  Entries of *)
(* assistant text are left out: nothing here depends on them.  A           *)
(* checkpoint is only there or not.                                        *)
(***************************************************************************)
EXTENDS Naturals, Sequences

CONSTANTS
  ToolIds,    \* tool calls a turn may make
  Calls,      \* what users do: send, resume, stop, rewind
  Reasons,    \* outcomes the agent gives its turns, besides Cancelled
  Impatient,  \* users send, resume and rewind before earlier turns are over
  MaxTurns, MaxEntries  \* bounds

ASSUME InstanceAssumption ==
  /\ Impatient \in BOOLEAN
  /\ Calls \subseteq {"send", "resume", "stop", "rewind"}
  /\ Reasons \subseteq {"EndTurn", "Refusal", "MaxTokens", "Error"}
ASSUME BoundsAssumption == MaxTurns \in Nat /\ MaxEntries \in Nat

VARIABLES
  \* fields of AcpThread
  entries,
  send_task,      \* the turn whose send task the field holds, 0 for None
  \* the turns, in the order of the calls of run_turn
  turns, kind,
  task,           \* where the send task of each turn is
  waits_for,      \* the turn whose send task it awaits first, 0 for none
  response,       \* what arrived on the turn's oneshot
  completion,     \* where the completion task of each turn is
  \* AcpThreadView
  cancel_task,    \* the turn whose send task the view's _cancel_task holds
  \* the connection and the agent behind it
  started, current, outcome,  \* see AgentTurns
  prompt,         \* the connection's turn that each turn started, 0 for none
  memory,         \* the user messages the agent has, in its order
  reported,       \* the last status of each tool call on the stream of a prompt
  \* auxiliary: turns the user stopped, or that a stopped turn waited for, and
  \* turns that were under way or current when a rewind, or the refusal of
  \* another turn, took messages away
  stopped, cut

threadVars == <<entries, send_task>>
turnVars == <<turns, kind, waits_for>>
connVars == <<started, current, outcome>>
agentVars == <<connVars, prompt, memory, reported>>
auxVars == <<stopped, cut>>
vars == <<threadVars, turnVars, task, response, completion, cancel_task, agentVars, auxVars>>

Turns == 1..MaxTurns
Connection == INSTANCE AgentTurns

Over == {"stopped", "error", "aborted"}
Ended == {"done", "dropped"}

\* The turns whose completion task is not over.
Unfinished == {t \in 1..turns : completion[t] \notin Over}

\* No task of any turn is under way.
Calm == \A t \in 1..turns : completion[t] \in Over /\ task[t] \in Ended

----------------------------------------------------------------------------
(* Entries. *)

UserMessage(t) == [kind |-> "user", turn |-> t, checkpoint |-> FALSE]
ToolCall(t, id, status, output) ==
  [kind |-> "tool", turn |-> t, id |-> id, status |-> status, output |-> output]

IsUser(ix) == entries[ix].kind = "user"
IsTool(ix) == entries[ix].kind = "tool"

\* Variant: searched from the start.
LastUserMessage_First ==
  {ix \in DOMAIN entries : IsUser(ix) /\ \A jx \in DOMAIN entries : IsUser(jx) => ix <= jx}

\* last_user_message: a set of at most one index.
LastUserMessage ==
  {ix \in DOMAIN entries : IsUser(ix) /\ \A jx \in DOMAIN entries : IsUser(jx) => jx <= ix}

\* user_message_mut
PositionOf(m) == {ix \in DOMAIN entries : IsUser(ix) /\ entries[ix].turn = m}

\* index_for_tool_call searches from the end.
IndexForToolCall(t, id) ==
  LET matching == {ix \in DOMAIN entries :
                     IsTool(ix) /\ entries[ix].turn = t /\ entries[ix].id = id}
  IN  {ix \in matching : \A jx \in matching : jx <= ix}

Pushed(entry) == Len(entries) < MaxEntries /\ entries' = Append(entries, entry)

Unsettled == {"Pending", "WaitingForConfirmation", "InProgress"}
Canceled(es) ==
  [ix \in DOMAIN es |-> IF es[ix].kind = "tool" /\ es[ix].status \in Unsettled
                        THEN [es[ix] EXCEPT !.status = "Canceled"] ELSE es[ix]]

----------------------------------------------------------------------------
(* Tasks.  Dropping a task that has not ended drops what it holds: a       *)
(* queued send task holds the send task it awaits.                         *)

UnderWay(t) == task[t] \notin Ended

\* The send tasks that are gone with t's: those in every set with t that holds
\* what its members hold.
Owned(t) ==
  LET closed == {S \in SUBSET Turns :
                   \A u \in S : LET held == waits_for[u]
                                IN  task[u] = "queued" /\ held # 0 /\ UnderWay(held) => held \in S}
  IN  {u \in Turns : t # 0 /\ UnderWay(t) /\ UnderWay(u) /\ \A S \in closed : t \in S => u \in S}

NothingReported == [id \in ToolIds |-> "none"]

Dropped(ts) ==
  /\ task' = [t \in Turns |-> IF t \in ts THEN "dropped" ELSE task[t]]
  /\ response' = [t \in Turns |-> IF t \in ts THEN "Dropped" ELSE response[t]]
  /\ reported' = [t \in Turns |-> IF t \in ts THEN NothingReported ELSE reported[t]]

Init ==
  /\ entries = <<>> /\ send_task = 0 /\ turns = 0 /\ cancel_task = 0
  /\ kind = [t \in Turns |-> "send"]
  /\ task = [t \in Turns |-> "none"]
  /\ waits_for = [t \in Turns |-> 0]
  /\ response = [t \in Turns |-> "none"]
  /\ completion = [t \in Turns |-> "none"]
  /\ Connection!Init
  /\ prompt = [t \in Turns |-> 0]
  /\ memory = <<>>
  /\ reported = [t \in Turns |-> NothingReported]
  /\ stopped = {} /\ cut = {}

----------------------------------------------------------------------------
(* Calls on the entity. *)

\* cancel, but for send_task and its task
cancel ==
  IF send_task = 0 THEN UNCHANGED <<entries, connVars>>
  ELSE entries' = Canceled(entries) /\ Connection!Cancel

\* Variant: send_task is set before the old one is taken.
run_turn_AwaitsItself(how) ==
  /\ how \in Calls
  /\ turns < MaxTurns /\ (Impatient \/ Calm)
  /\ cancel
  /\ turns' = turns + 1
  /\ kind' = [kind EXCEPT ![turns + 1] = how]
  /\ waits_for' = [waits_for EXCEPT ![turns + 1] = turns + 1]
  /\ send_task' = turns + 1
  /\ task' = [task EXCEPT ![turns + 1] = "queued"]
  /\ completion' = [completion EXCEPT ![turns + 1] = "waiting"]
  /\ UNCHANGED <<response, cancel_task, prompt, memory, reported, auxVars>>

run_turn(how) ==
  /\ how \in Calls
  /\ turns < MaxTurns /\ (Impatient \/ Calm)
  /\ cancel
  /\ turns' = turns + 1
  /\ kind' = [kind EXCEPT ![turns + 1] = how]
  /\ waits_for' = [waits_for EXCEPT ![turns + 1] = send_task]
  /\ send_task' = turns + 1
  /\ task' = [task EXCEPT ![turns + 1] = "queued"]
  /\ completion' = [completion EXCEPT ![turns + 1] = "waiting"]
  /\ UNCHANGED <<response, cancel_task, prompt, memory, reported, auxVars>>

send == run_turn("send")
resume == run_turn("resume")

\* The stop button.  The view keeps the cancelled send task in _cancel_task,
\* and with it drops the one it kept before.
cancel_generation ==
  /\ "stop" \in Calls
  /\ cancel
  /\ send_task' = 0
  /\ Dropped(Owned(cancel_task))
  /\ cancel_task' = send_task
  /\ stopped' = stopped \cup Owned(send_task)
  /\ UNCHANGED <<turnVars, completion, prompt, memory, cut>>

\* A message sent while generating: a detached task awaits the cancelled send
\* task and then sends.
stop_current_and_send_new_message ==
  /\ "stop" \in Calls /\ send_task # 0
  /\ cancel
  /\ send_task' = 0
  /\ stopped' = stopped \cup Owned(send_task)
  /\ UNCHANGED <<turnVars, task, response, completion, cancel_task, prompt, memory,
                 reported, cut>>

\* Variant: the message itself stays among the entries.
rewind_KeepsMessage(m) ==
  /\ "rewind" \in Calls /\ Calm
  /\ Connection!Cancel
  /\ \E position \in DOMAIN memory, ix \in PositionOf(m) :
       /\ memory[position] = m
       /\ memory' = SubSeq(memory, 1, position - 1)
       /\ entries' = SubSeq(entries, 1, ix)
  /\ UNCHANGED <<send_task, turnVars, task, response, completion, cancel_task, prompt,
                 reported, auxVars>>

\* rewind, alone (regenerate) or before git is restored (restore_checkpoint).
\* The connection cancels its turn before it looks for the message.
rewind(m) ==
  /\ "rewind" \in Calls
  /\ Impatient \/ Calm
  /\ PositionOf(m) # {}
  /\ Connection!Cancel
  /\ cut' = cut \cup Unfinished \cup ({send_task} \ {0})
  /\ \/ \E position \in DOMAIN memory, ix \in PositionOf(m) :
          /\ memory[position] = m
          /\ memory' = SubSeq(memory, 1, position - 1)
          /\ entries' = SubSeq(entries, 1, ix - 1)
     \/ /\ \A position \in DOMAIN memory : memory[position] # m
        /\ UNCHANGED <<memory, entries>>
  /\ UNCHANGED <<send_task, turnVars, task, response, completion, cancel_task, prompt,
                 reported, stopped>>

\* The view offers the options of a call only while it waits for confirmation.
authorize_tool_call(ix, allow) ==
  /\ IsTool(ix) /\ entries[ix].status = "WaitingForConfirmation"
  /\ entries' = [entries EXCEPT ![ix].status = IF allow THEN "InProgress" ELSE "Rejected"]
  /\ UNCHANGED <<send_task, turnVars, task, response, completion, cancel_task, agentVars,
                 auxVars>>

----------------------------------------------------------------------------
(* The send task of turn t. *)

\* connection.prompt or resume.  It may fail: at once, or after the agent took
\* the message and cancelled its turn.
Prompts(t) ==
  /\ \/ /\ Connection!Start
        /\ prompt' = [prompt EXCEPT ![t] = started + 1]
        /\ task' = [task EXCEPT ![t] = "prompting"]
        /\ memory' = IF kind[t] = "send" THEN Append(memory, t) ELSE memory
        /\ UNCHANGED response
     \/ /\ "Error" \in Reasons
        /\ task' = [task EXCEPT ![t] = "done"]
        /\ response' = [response EXCEPT ![t] = "Error"]
        /\ \/ UNCHANGED <<connVars, memory>>
           \/ Connection!Cancel /\ memory' = IF kind[t] = "send" THEN Append(memory, t) ELSE memory
        /\ UNCHANGED prompt
  /\ UNCHANGED reported

\* Variant: the cancel task is not awaited.
Ready_AtOnce(t) == task[t] = "queued"

Ready(t) == task[t] = "queued" /\ waits_for[t] \in {0} \cup {u \in Turns : task[u] \in Ended}

PushUserMessage(t) ==
  /\ Ready(t) /\ kind[t] = "send"
  /\ Pushed(UserMessage(t))
  /\ task' = [task EXCEPT ![t] = "checkpoint"]
  /\ UNCHANGED <<send_task, turnVars, response, completion, cancel_task, agentVars, auxVars>>

ResumeConnection(t) ==
  /\ Ready(t) /\ kind[t] = "resume"
  /\ Prompts(t)
  /\ UNCHANGED <<threadVars, turnVars, completion, cancel_task, auxVars>>

\* The checkpoint goes to whatever user message is the last one now.
CheckpointTaken(t) ==
  /\ task[t] = "checkpoint"
  /\ \E taken \in BOOLEAN :
       entries' = [ix \in DOMAIN entries |->
                     IF ix \in LastUserMessage THEN [entries[ix] EXCEPT !.checkpoint = taken]
                     ELSE entries[ix]]
  /\ Prompts(t)
  /\ UNCHANGED <<send_task, turnVars, completion, cancel_task, auxVars>>

\* A turn that ended its answer has reported the end of its tool calls first.
ResponseArrives(t) ==
  /\ task[t] = "prompting" /\ outcome[prompt[t]] # "none"
  /\ outcome[prompt[t]] = "EndTurn" =>
       \A id \in ToolIds : reported[t][id] \in {"none", "Completed", "Failed"}
  /\ task' = [task EXCEPT ![t] = "done"]
  /\ response' = [response EXCEPT ![t] = outcome[prompt[t]]]
  /\ reported' = [reported EXCEPT ![t] = NothingReported]
  /\ UNCHANGED <<threadVars, turnVars, completion, cancel_task, connVars, prompt, memory, auxVars>>

----------------------------------------------------------------------------
(* Events of turn t's stream, which are handled while its prompt is awaited *)
(* and may lag behind the outcome.                                          *)

Reported(t, id, status) ==
  /\ task[t] = "prompting"
  /\ reported' = [reported EXCEPT ![t][id] = status]
  /\ UNCHANGED <<send_task, turnVars, task, response, completion, cancel_task, connVars,
                 prompt, memory, auxVars>>

\* upsert_tool_call_inner
Upserted(t, id, status) ==
  \/ \E ix \in IndexForToolCall(t, id) : entries' = [entries EXCEPT ![ix].status = status]
  \/ IndexForToolCall(t, id) = {} /\ Pushed(ToolCall(t, id, status, FALSE))

upsert_tool_call(t, id) ==
  /\ reported[t][id] = "none"
  /\ Upserted(t, id, "Pending")
  /\ Reported(t, id, "Pending")

\* With always_allow_tool_actions the call stays pending and is answered at once.
request_tool_call_authorization(t, id) ==
  /\ reported[t][id] = "InProgress"
  /\ \E status \in {"Pending", "WaitingForConfirmation"} : Upserted(t, id, status)
  /\ Reported(t, id, "InProgress")

\* The agent does not go on with a call while it awaits the user's answer.
update_tool_call(t, id, status, output) ==
  /\ reported[t][id] \in {"Pending", "InProgress"} /\ status # reported[t][id]
  /\ output => status = "Completed"
  /\ \A ix \in IndexForToolCall(t, id) : entries[ix].status # "WaitingForConfirmation"
  /\ \/ \E ix \in IndexForToolCall(t, id) :
          entries' = [entries EXCEPT ![ix].status = status, ![ix].output = @ \/ output]
     \/ IndexForToolCall(t, id) = {} /\ Pushed(ToolCall(t, id, "Failed", FALSE))
  /\ Reported(t, id, status)

\* The agent decides the outcome of its turn.  A refusal makes it forget the
\* message of the turn and what follows it.
AgentFinishes(reason) ==
  /\ Connection!Finish(reason)
  /\ memory' =
       LET refused == {position \in DOMAIN memory :
                         reason = "Refusal" /\ prompt[memory[position]] = current}
           kept == {position \in DOMAIN memory : \A r \in refused : position < r}
       IN  [position \in kept |-> memory[position]]
  /\ UNCHANGED <<threadVars, turnVars, task, response, completion, cancel_task, prompt,
                 reported, auxVars>>

----------------------------------------------------------------------------
(* The completion task of turn t. *)

\* Variant: one entry too many is skipped.
HasToolOutputAfter_SkipsTwo(user_msg_ix) ==
  \E ix \in user_msg_ix + 2 .. Len(entries) :
    IsTool(ix) /\ entries[ix].status = "Completed" /\ entries[ix].output

HasToolOutputAfter(user_msg_ix) ==
  \E ix \in user_msg_ix + 1 .. Len(entries) :
    IsTool(ix) /\ entries[ix].status = "Completed" /\ entries[ix].output

\* Truncates to before the last user message, whichever turn pushed it.
RefusalHandled ==
  \/ \E ix \in LastUserMessage :
       entries' = IF HasToolOutputAfter(ix) THEN entries ELSE SubSeq(entries, 1, ix - 1)
  \/ LastUserMessage = {} /\ UNCHANGED entries

\* Variant: only a turn that ended normally takes the send task.
TakesSendTask_EndTurn(t) == response[t] = "EndTurn"

\* send_task.take() drops the task it takes.
TakesSendTask(t) == response[t] # "Cancelled"

Finished(t) ==
  /\ completion' = [completion EXCEPT ![t] = IF response[t] = "Error" THEN "error" ELSE "stopped"]
  /\ IF TakesSendTask(t) THEN send_task' = 0 /\ Dropped(Owned(send_task))
     ELSE UNCHANGED <<send_task, task, response, reported>>
  /\ IF response[t] = "Refusal"
     THEN RefusalHandled /\ cut' = cut \cup (Unfinished \ {t})
     ELSE UNCHANGED <<entries, cut>>
  /\ UNCHANGED <<turnVars, cancel_task, connVars, prompt, memory, stopped>>

HasCheckpoint == \E ix \in LastUserMessage : entries[ix].checkpoint

\* Variant: a turn whose sender was dropped is not answered.
ResponseReceived_NotDropped(t) ==
  /\ completion[t] = "waiting" /\ response[t] \notin {"none", "Dropped"}
  /\ ~HasCheckpoint /\ Finished(t)

\* update_last_checkpoint has nothing to do for a message without checkpoint.
ResponseReceived(t) ==
  /\ completion[t] = "waiting" /\ response[t] # "none"
  /\ \/ ~HasCheckpoint /\ Finished(t)
     \/ /\ HasCheckpoint
        /\ completion' = [completion EXCEPT ![t] = "checkpoint"]
        /\ UNCHANGED <<threadVars, turnVars, task, response, cancel_task, agentVars, auxVars>>

\* "no user message" and "no checkpoint" end the completion task with an error,
\* before it looks at the response; a checkpoint that fails does not.
update_last_checkpoint(t) ==
  /\ completion[t] = "checkpoint"
  /\ \/ completion' = [completion EXCEPT ![t] = "compared"]
     \/ ~HasCheckpoint /\ completion' = [completion EXCEPT ![t] = "aborted"]
  /\ UNCHANGED <<threadVars, turnVars, task, response, cancel_task, agentVars, auxVars>>

CheckpointUpdated(t) == completion[t] = "compared" /\ Finished(t)

----------------------------------------------------------------------------
SendTask(t) ==
  PushUserMessage(t) \/ ResumeConnection(t) \/ CheckpointTaken(t) \/ ResponseArrives(t)

CompletionTask(t) ==
  ResponseReceived(t) \/ update_last_checkpoint(t) \/ CheckpointUpdated(t)

ToolEvent(t, id) ==
  \/ upsert_tool_call(t, id)
  \/ request_tool_call_authorization(t, id)
  \/ \E status \in {"InProgress", "Completed", "Failed"}, output \in BOOLEAN :
       update_tool_call(t, id, status, output)

\* A tool call that was announced is brought to its end.
ToolEnds(t, id) ==
  \E status \in {"Completed", "Failed"} : update_tool_call(t, id, status, FALSE)

User ==
  \/ send \/ resume \/ cancel_generation \/ stop_current_and_send_new_message
  \/ \E m \in Turns : rewind(m)
  \/ \E ix \in DOMAIN entries, allow \in BOOLEAN : authorize_tool_call(ix, allow)

Finishes == \E reason \in Reasons : AgentFinishes(reason)

Next ==
  \/ User
  \/ Finishes
  \/ \E t \in Turns : SendTask(t) \/ CompletionTask(t)
  \/ \E t \in Turns, id \in ToolIds : ToolEvent(t, id)

Spec == Init /\ [][Next]_vars

\* The executor polls every task that is ready, git answers, and the agent
\* finishes its turns and their tool calls.  Users need not do anything.
Fairness ==
  /\ \A t \in Turns : WF_vars(SendTask(t)) /\ WF_vars(CompletionTask(t))
  /\ \A t \in Turns, id \in ToolIds : WF_vars(ToolEnds(t, id))
  /\ WF_vars(Finishes)

LiveSpec == Spec /\ Fairness

----------------------------------------------------------------------------
TypeOK ==
  /\ \A ix \in DOMAIN entries :
       \/ entries[ix] \in [kind : {"user"}, turn : 1..turns, checkpoint : BOOLEAN]
       \/ entries[ix] \in [kind : {"tool"}, turn : 1..turns, id : ToolIds,
                           status : Unsettled \cup {"Completed", "Failed", "Rejected", "Canceled"},
                           output : BOOLEAN]
  /\ turns \in 0..MaxTurns /\ send_task \in 0..turns /\ cancel_task \in 0..turns
  /\ \A t \in Turns :
       /\ kind[t] \in {"send", "resume"}
       /\ waits_for[t] \in 0..(t - 1)
       /\ task[t] \in {"none", "queued", "checkpoint", "prompting"} \cup Ended
       /\ response[t] \in {"none", "Cancelled", "Dropped"} \cup Connection!Final
       /\ completion[t] \in {"none", "waiting", "checkpoint", "compared"} \cup Over
       /\ prompt[t] \in 0..started

Active(t) == task[t] \in {"checkpoint", "prompting"}

\* A turn that overtakes another waits for it: the two are never under way at
\* the same time, and the agent is prompted in the order of the calls.  Only a
\* turn that the user stopped by hand is not waited for, because its send task
\* has left send_task (run_turn, cancel and AcpThreadView::cancel_generation).
OvertakenTurnsFinishFirst ==
  \A t, u \in Turns : t < u /\ t \notin stopped =>
    /\ ~(Active(t) /\ Active(u))
    /\ prompt[t] # 0 /\ prompt[u] # 0 => prompt[t] < prompt[u]

\* When no task is under way the thread is Idle.  It is left Generating only by
\* a rewind that interrupts a turn, whose completion task then keeps send_task
\* because the response is Cancelled, or ends early for want of a message.
StopsGenerating ==
  Calm /\ send_task # 0 =>
    /\ send_task \in cut
    /\ response[send_task] = "Cancelled" \/ completion[send_task] = "aborted"

Shown == {entries[ix].turn : ix \in {jx \in DOMAIN entries : IsUser(jx)}}
Remembered == {memory[position] : position \in DOMAIN memory}

\* The user and the agent have the same conversation before them: once every
\* turn is over, what the agent remembers is shown, and a message that is shown
\* but not remembered was refused, failed or never reached the agent.  The
\* exception is a refused resume: AcpThread removes the last user message, the
\* agent only its Resume message (RefusalHandled, AgentFinishes).
SameConversation ==
  Calm =>
    /\ \/ Remembered \subseteq Shown
       \/ \E t \in Turns : kind[t] = "resume" /\ response[t] = "Refusal"
    /\ \A m \in Shown \ Remembered : response[m] \in {"Refusal", "Error", "Dropped"}

\* A turn that finishes never removes the output of a completed tool call, even
\* when the agent refused to go on (run_turn tells refused prompts from refused
\* tool output).
ToolOutputKept ==
  [][\A t \in Turns : completion[t] \notin Over /\ completion'[t] \in Over =>
       \A ix \in DOMAIN entries :
         IsTool(ix) /\ entries[ix].status = "Completed" /\ entries[ix].output
           => ix \in DOMAIN entries' /\ entries'[ix] = entries[ix]]_vars

\* A refusal costs no prompt of an earlier turn: at most its own, or that of a
\* later turn that has pushed one by the time it is handled.  (Unless its own is
\* gone by then, with a rewind or with the refusal of another turn.  Turns the
\* user stopped are not waited for and may push late.)
RefusalKeepsEarlierPrompts ==
  [][\A t, m \in Turns :
       completion[t] \notin Over /\ completion'[t] \in Over /\ kind[t] = "send" /\ t \notin cut
       /\ m < t /\ m \notin stopped =>
         (PositionOf(m) # {} => PositionOf(m)' # {})]_vars

\* Every turn gets to its end, however often it is overtaken, stopped, rewound
\* or refused, unless one of its tool calls waits for the user's permission.
EveryTurnAnswered ==
  \A t \in Turns :
    completion[t] = "waiting" ~>
      \/ completion[t] \in Over
      \/ \E ix \in DOMAIN entries : IsTool(ix) /\ entries[ix].status = "WaitingForConfirmation"

(* What comments say and the code does not do. *)

\* "dropping `send_task` would cause the next generation to be canceled": a
\* turn that finishes does not drop a send task that a later turn started.
NextGenerationKept ==
  [][\A t, u \in Turns :
       t < u /\ completion[t] \notin Over /\ completion'[t] \in Over =>
         ~(task[u] \notin Ended /\ task'[u] = "dropped")]_vars
=============================================================================

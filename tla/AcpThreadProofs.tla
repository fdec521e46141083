-------------------------- MODULE AcpThreadProofs --------------------------
(***************************************************************************)
(* Theorems about AcpThread, for any number of turns, entries and tool     *)
(* calls, whether or not users wait for a turn to end; the last one, that  *)
(* both sides keep the same conversation, for users who wait.              *)
(***************************************************************************)
EXTENDS AcpThread, SequenceTheorems, WellFoundedInduction, TLAPS

USE BoundsAssumption, InstanceAssumption

----------------------------------------------------------------------------
(* Entries. *)

Statuses == Unsettled \cup {"Completed", "Failed", "Rejected", "Canceled"}
UserMessages(n) == [kind : {"user"}, turn : 1..n, checkpoint : BOOLEAN]
ToolCalls(n) ==
  [kind : {"tool"}, turn : 1..n, id : ToolIds, status : Statuses, output : BOOLEAN]
Entries(n) == UserMessages(n) \cup ToolCalls(n)

LEMMA Mapped ==
  ASSUME NEW S, NEW es \in Seq(S), NEW f \in [DOMAIN es -> S]
  PROVE  f \in Seq(S) /\ Len(f) = Len(es)
<1>1. Len(es) \in Nat /\ DOMAIN es = 1..Len(es)
  OBVIOUS
<1> QED
  BY <1>1

LEMMA EntriesGrow ==
  ASSUME NEW n \in Nat, NEW es \in Seq(Entries(n))
  PROVE  es \in Seq(Entries(n + 1))
<1>1. Entries(n) \subseteq Entries(n + 1)
  BY DEF Entries, UserMessages, ToolCalls
<1>2. Len(es) \in Nat /\ es \in [1..Len(es) -> Entries(n)]
  OBVIOUS
<1>3. es \in [1..Len(es) -> Entries(n + 1)]
  BY <1>1, <1>2
<1> QED
  BY <1>2, <1>3

\* What is done to one entry: a user message gets a checkpoint, a tool call a
\* status and maybe an output.
LEMMA CheckpointSet ==
  ASSUME NEW n \in Nat, NEW e \in Entries(n), e.kind = "user", NEW c \in BOOLEAN
  PROVE  [e EXCEPT !.checkpoint = c] \in Entries(n)
<1>1. e \in UserMessages(n)
  BY DEF Entries, UserMessages, ToolCalls
<1> QED
  BY <1>1 DEF Entries, UserMessages

LEMMA StatusSet ==
  ASSUME NEW n \in Nat, NEW e \in Entries(n), e.kind = "tool", NEW s \in Statuses
  PROVE  [e EXCEPT !.status = s] \in Entries(n)
<1>1. e \in ToolCalls(n)
  BY DEF Entries, UserMessages, ToolCalls
<1> QED
  BY <1>1 DEF Entries, ToolCalls

LEMMA OutputSet ==
  ASSUME NEW n \in Nat, NEW e \in Entries(n), e.kind = "tool", NEW o \in BOOLEAN
  PROVE  [e EXCEPT !.output = o] \in Entries(n)
<1>1. e \in ToolCalls(n)
  BY DEF Entries, UserMessages, ToolCalls
<1> QED
  BY <1>1 DEF Entries, ToolCalls

LEMMA NewEntries ==
  ASSUME NEW n \in Nat, NEW t \in 1..n, NEW id, NEW s \in Statuses
  PROVE  /\ UserMessage(t) \in Entries(n)
         /\ id \in ToolIds => ToolCall(t, id, s, FALSE) \in Entries(n)
BY DEF Entries, UserMessages, ToolCalls, UserMessage, ToolCall

LEMMA CanceledType ==
  ASSUME NEW n \in Nat, NEW es \in Seq(Entries(n))
  PROVE  Canceled(es) \in Seq(Entries(n))
<1> DEFINE f == Canceled(es)
<1>1. ASSUME NEW ix \in DOMAIN es PROVE f[ix] \in Entries(n)
  <2>1. es[ix] \in Entries(n)
    OBVIOUS
  <2>2. [es[ix] EXCEPT !.status = "Canceled"] \in Entries(n) \/ es[ix].kind # "tool"
    BY <2>1, StatusSet DEF Statuses
  <2> QED
    BY <2>1, <2>2 DEF Canceled
<1>2. f \in [DOMAIN es -> Entries(n)]
  BY <1>1 DEF Canceled
<1> QED
  BY <1>2, Mapped

----------------------------------------------------------------------------
(* Types. *)

Outcomes == {"Cancelled"} \cup Connection!Final

ConnType ==
  /\ started \in 0..MaxTurns /\ current \in 0..started
  /\ outcome \in [Turns -> {"none"} \cup Outcomes]
  /\ \A t \in Turns : t > started => outcome[t] = "none"

TurnType ==
  /\ turns \in 0..MaxTurns /\ send_task \in 0..turns /\ cancel_task \in 0..turns
  /\ kind \in [Turns -> {"send", "resume"}]
  /\ waits_for \in [Turns -> 0..MaxTurns] /\ \A t \in Turns : waits_for[t] < t
  /\ task \in [Turns -> {"none", "queued", "checkpoint", "prompting"} \cup Ended]
  /\ response \in [Turns -> {"none", "Dropped"} \cup Outcomes]
  /\ completion \in [Turns -> {"none", "waiting", "checkpoint", "compared"} \cup Over]
  /\ prompt \in [Turns -> 0..MaxTurns]
  /\ stopped \subseteq 1..turns

\* How far a turn is in its two tasks.
Phase(t) ==
  /\ task[t] = "none" <=> t > turns
  /\ task[t] = "none" => completion[t] = "none"
  /\ task[t] \in {"none", "queued", "checkpoint"} => prompt[t] = 0
  /\ task[t] = "prompting" => prompt[t] # 0
  /\ prompt[t] <= started
  /\ response[t] # "none" <=> task[t] \in Ended
  /\ task[t] = "dropped" => response[t] = "Dropped"
  /\ completion[t] \notin {"none", "waiting"} => response[t] # "none"
  /\ t <= turns => completion[t] # "none"

Typed ==
  /\ ConnType /\ TurnType /\ \A t \in Turns : Phase(t)
  /\ entries \in Seq(Entries(turns))

LEMMA ConnStep ==
  ASSUME ConnType,
         \/ Connection!Start \/ Connection!Cancel \/ UNCHANGED connVars
         \/ \E reason \in Reasons : Connection!Finish(reason)
  PROVE  ConnType' /\ started <= started'
<1>1. \A t : current # 0 => [outcome EXCEPT ![current] = t] \in [Turns -> {"none"} \cup Outcomes] \/ t \notin Outcomes
  BY DEF ConnType, Turns
<1>2. Connection!Interrupted \in [Turns -> {"none"} \cup Outcomes]
  BY <1>1 DEF ConnType, Connection!Interrupted, Outcomes
<1>3. /\ \A t \in Turns : t > started => Connection!Interrupted[t] = "none"
      /\ \A t \in Turns : t > started + 1 => Connection!Interrupted[t] = "none"
  BY DEF ConnType, Connection!Interrupted, Turns
<1>4. \A reason \in Reasons : reason \in Outcomes
  BY DEF Outcomes, Connection!Final
<1>5. CASE Connection!Start
  BY <1>2, <1>3, <1>5 DEF ConnType, Connection!Start
<1>6. CASE Connection!Cancel
  BY <1>2, <1>3, <1>6 DEF ConnType, Connection!Cancel
<1>7. CASE UNCHANGED connVars
  BY <1>7 DEF ConnType, connVars
<1>8. ASSUME NEW reason \in Reasons, Connection!Finish(reason) PROVE ConnType' /\ started <= started'
  BY <1>1, <1>4, <1>8 DEF ConnType, Connection!Finish
<1> QED
  BY <1>5, <1>6, <1>7, <1>8

LEMMA TypedInit == Init => Typed
<1> SUFFICES ASSUME Init PROVE Typed
  OBVIOUS
<1>1. ConnType
  BY DEF Init, Connection!Init, ConnType, Turns, Connection!Turns
<1>2. TurnType
  BY DEF Init, TurnType, Turns
<1>3. \A t \in Turns : Phase(t)
  BY <1>1, <1>2 DEF Init, Phase, Turns, Ended, ConnType
<1> QED
  BY <1>1, <1>2, <1>3 DEF Init, Typed

\* What goes with a send task is of turns there are, and was under way.
LEMMA OwnedTurns ==
  ASSUME TurnType, NEW x \in 0..turns
  PROVE  Owned(x) \subseteq 1..turns /\ \A u \in Owned(x) : task[u] \notin Ended
<1> DEFINE S == 1..turns
<1>1. S \in SUBSET Turns /\ \A u \in S : waits_for[u] # 0 => waits_for[u] \in S
  BY DEF TurnType, Turns
<1>2. x # 0 => x \in S
  BY DEF TurnType
<1> HIDE DEF S
<1>3. Owned(x) \subseteq S
  BY <1>1, <1>2 DEF Owned
<1> QED
  BY <1>3 DEF S, Owned, UnderWay

\* Dropped tasks are those of Owned(x).
LEMMA DroppedTurns ==
  ASSUME Typed, NEW x \in 0..turns, Dropped(Owned(x))
  PROVE  /\ task' \in [Turns -> {"none", "queued", "checkpoint", "prompting"} \cup Ended]
         /\ response' \in [Turns -> {"none", "Dropped"} \cup Outcomes]
         /\ \A t \in Turns :
              \/ /\ t \in Owned(x) /\ t <= turns /\ task[t] \notin Ended
                 /\ task'[t] = "dropped" /\ response'[t] = "Dropped"
              \/ t \notin Owned(x) /\ task'[t] = task[t] /\ response'[t] = response[t]
<1>1. TurnType
  BY DEF Typed
<1>2. Owned(x) \subseteq 1..turns /\ \A u \in Owned(x) : task[u] \notin Ended
  BY <1>1, OwnedTurns
<1> QED
  BY <1>1, <1>2 DEF Dropped, TurnType, Ended

LEMMA CancelType ==
  ASSUME Typed, cancel
  PROVE  /\ entries' \in Seq(Entries(turns)) /\ ConnType' /\ started <= started'
         /\ entries' = entries \/ entries' = Canceled(entries)
<1>1. turns \in Nat /\ entries \in Seq(Entries(turns)) /\ ConnType
  BY DEF Typed, TurnType
<1> QED
  BY <1>1, CanceledType, ConnStep DEF cancel

\* The call on the connection, from a send task that is ready or has its
\* checkpoint.
LEMMA PromptsType ==
  ASSUME Typed, NEW t \in Turns, task[t] \in {"queued", "checkpoint"}, Prompts(t)
  PROVE  /\ ConnType' /\ started <= started'
         /\ task' \in [Turns -> {"none", "queued", "checkpoint", "prompting"} \cup Ended]
         /\ response' \in [Turns -> {"none", "Dropped"} \cup Outcomes]
         /\ prompt' \in [Turns -> 0..MaxTurns]
         /\ \A u \in Turns \ {t} : task'[u] = task[u] /\ response'[u] = response[u] /\ prompt'[u] = prompt[u]
         /\ \/ /\ task'[t] = "prompting" /\ response' = response
               /\ prompt'[t] = started + 1 /\ started' = started + 1
            \/ task'[t] = "done" /\ response'[t] = "Error" /\ prompt' = prompt
<1>1. ConnType /\ TurnType
  BY DEF Typed
<1>2. ConnType' /\ started <= started'
  BY <1>1, ConnStep DEF Prompts
<1>3. CASE /\ Connection!Start
           /\ prompt' = [prompt EXCEPT ![t] = started + 1]
           /\ task' = [task EXCEPT ![t] = "prompting"]
           /\ UNCHANGED response
  <2>1. started' = started + 1 /\ started + 1 \in 0..MaxTurns
    BY <1>1, <1>3 DEF Connection!Start, ConnType
  <2> QED
    BY <1>1, <1>2, <1>3, <2>1 DEF TurnType
<1>4. CASE /\ task' = [task EXCEPT ![t] = "done"]
           /\ response' = [response EXCEPT ![t] = "Error"]
           /\ UNCHANGED prompt
  BY <1>1, <1>2, <1>4 DEF TurnType, Ended, Outcomes, Connection!Final
<1> QED
  BY <1>3, <1>4 DEF Prompts

\* A step that leaves the turns as they are keeps their phases.
LEMMA PhasesKept ==
  ASSUME Typed, ConnType', started <= started',
         UNCHANGED <<turnVars, task, response, completion, prompt, stopped>>,
         send_task' \in 0..turns, cancel_task' \in 0..turns,
         entries' \in Seq(Entries(turns))
  PROVE  Typed'
<1>1. TurnType'
  BY DEF Typed, TurnType, turnVars
<1>2. \A t \in Turns : Phase(t)'
  BY DEF Typed, Phase, turnVars, ConnType, TurnType
<1> QED
  BY <1>1, <1>2 DEF Typed, turnVars

LEMMA RunTurnTyped ==
  ASSUME Typed, NEW how \in {"send", "resume"}, run_turn(how)
  PROVE  Typed'
<1>0. ConnType /\ TurnType /\ turns \in Nat /\ turns + 1 \in Turns
  BY DEF Typed, TurnType, run_turn, Turns
<1>1. entries' \in Seq(Entries(turns)) /\ ConnType' /\ started <= started'
  BY CancelType DEF run_turn
<1>2. entries' \in Seq(Entries(turns'))
  BY <1>0, <1>1, EntriesGrow DEF run_turn
<1>3. TurnType'
  BY <1>0 DEF run_turn, TurnType, Turns, auxVars
<1>4. \A t \in Turns : Phase(t)'
  <2> TAKE t \in Turns
  <2>1. CASE t = turns + 1
    <3>1. response'[t] = "none" /\ prompt'[t] = 0
      BY <1>0, <2>1 DEF Typed, Phase, run_turn, Ended, TurnType, ConnType
    <3>2. task'[t] = "queued" /\ completion'[t] = "waiting" /\ turns' = turns + 1
      BY <1>0, <2>1 DEF run_turn, TurnType
    <3> QED
      BY <1>1, <1>0, <2>1, <3>1, <3>2 DEF Phase, Ended, ConnType
  <2>2. CASE t # turns + 1
    <3>1. task'[t] = task[t] /\ completion'[t] = completion[t] /\ turns' = turns + 1
          /\ response' = response /\ prompt' = prompt
      BY <1>0, <2>2 DEF run_turn, TurnType
    <3>2. (t > turns' <=> t > turns) /\ (t <= turns' <=> t <= turns)
      BY <1>0, <2>2, <3>1 DEF TurnType, Turns
    <3> QED
      BY <1>0, <1>1, <3>1, <3>2 DEF Phase, Typed, ConnType, TurnType
  <2> QED
    BY <2>1, <2>2
<1> QED
  BY <1>1, <1>2, <1>3, <1>4 DEF Typed

\* The tasks that the view's cancel task and a finished turn drop.
LEMMA DroppedTyped ==
  ASSUME Typed, NEW x \in 0..turns, Dropped(Owned(x)), ConnType', started <= started',
         UNCHANGED <<turnVars, prompt>>,
         send_task' \in 0..turns, cancel_task' \in 0..turns, stopped' \subseteq 1..turns,
         completion' \in [Turns -> {"none", "waiting", "checkpoint", "compared"} \cup Over],
         \A t \in Turns : completion'[t] # completion[t] => response[t] # "none" /\ completion'[t] # "none",
         entries' \in Seq(Entries(turns))
  PROVE  Typed'
<1>1. TurnType'
  BY DroppedTurns DEF Typed, TurnType, turnVars
<1>2. \A t \in Turns : Phase(t)'
  <2> TAKE t \in Turns
  <2>1. Phase(t) /\ prompt' = prompt /\ turns' = turns
    BY DEF Typed, turnVars
  <2>2. prompt[t] <= started'
    BY <2>1 DEF Phase, Typed, ConnType, TurnType
  <2>3. completion'[t] = completion[t] \/ (response[t] # "none" /\ completion'[t] # "none")
    OBVIOUS
  <2>4. CASE t <= turns /\ task[t] \notin Ended /\ task'[t] = "dropped" /\ response'[t] = "Dropped"
    BY <2>1, <2>2, <2>3, <2>4 DEF Phase, Ended, Typed, TurnType, Turns
  <2>5. CASE task'[t] = task[t] /\ response'[t] = response[t]
    BY <2>1, <2>2, <2>3, <2>5 DEF Phase, Ended, Typed, TurnType
  <2> QED
    BY <2>4, <2>5, DroppedTurns
<1> QED
  BY <1>1, <1>2 DEF Typed, turnVars

LEMMA PromptsTyped ==
  ASSUME Typed, NEW t \in Turns, task[t] \in {"queued", "checkpoint"}, Prompts(t),
         UNCHANGED <<turnVars, send_task, cancel_task, completion, stopped>>,
         entries' \in Seq(Entries(turns))
  PROVE  Typed'
<1>1. ConnType /\ TurnType /\ ConnType' /\ started <= started'
  BY PromptsType DEF Typed
<1>2. TurnType'
  BY <1>1, PromptsType DEF TurnType, turnVars
<1>3. ASSUME NEW u \in Turns PROVE Phase(u)'
  <2>1. Phase(u) /\ turns' = turns /\ completion' = completion
    BY DEF Typed, turnVars
  <2>2. CASE u # t
    <3>1. task'[u] = task[u] /\ response'[u] = response[u] /\ prompt'[u] = prompt[u]
      BY <2>2, PromptsType
    <3> QED
      BY <1>1, <2>1, <3>1 DEF Phase, ConnType, TurnType
  <2>3. CASE u = t
    <3>1. task[u] \notin Ended /\ task[u] # "none" /\ prompt[u] = 0
      BY <2>1, <2>3 DEF Phase, Ended
    <3>2. CASE /\ task'[t] = "prompting" /\ response' = response
               /\ prompt'[t] = started + 1 /\ started' = started + 1
      BY <1>1, <2>1, <2>3, <3>1, <3>2 DEF Phase, Ended, ConnType
    <3>3. CASE task'[t] = "done" /\ response'[t] = "Error" /\ prompt' = prompt
      BY <1>1, <2>1, <2>3, <3>1, <3>3 DEF Phase, Ended, ConnType
    <3> QED
      BY <3>2, <3>3, PromptsType
  <2> QED
    BY <2>2, <2>3
<1> QED
  BY <1>1, <1>2, <1>3 DEF Typed, turnVars

LEMMA UserTyped ==
  ASSUME Typed, User
  PROVE  Typed'
<1>0. ConnType /\ TurnType /\ turns \in Nat /\ entries \in Seq(Entries(turns))
  BY DEF Typed, TurnType
<1>1. ASSUME cancel_generation PROVE Typed'
  <2>1. entries' \in Seq(Entries(turns)) /\ ConnType' /\ started <= started'
    BY <1>1, CancelType DEF cancel_generation
  <2>2. stopped' \subseteq 1..turns /\ cancel_task \in 0..turns
    BY <1>0, <1>1, OwnedTurns DEF cancel_generation, TurnType
  <2>3. send_task' \in 0..turns /\ cancel_task' \in 0..turns
    BY <1>0, <1>1 DEF cancel_generation, TurnType
  <2>4. Dropped(Owned(cancel_task)) /\ UNCHANGED <<turnVars, prompt, completion>>
    BY <1>1 DEF cancel_generation
  <2>5. completion' \in [Turns -> {"none", "waiting", "checkpoint", "compared"} \cup Over]
    BY <1>0, <2>4 DEF TurnType
  <2> QED
    BY <2>1, <2>2, <2>3, <2>4, <2>5, DroppedTyped
<1>2. ASSUME stop_current_and_send_new_message PROVE Typed'
  <2>1. entries' \in Seq(Entries(turns)) /\ ConnType' /\ started <= started'
    BY <1>2, CancelType DEF stop_current_and_send_new_message
  <2>2. stopped' \subseteq 1..turns
    BY <1>0, <1>2, OwnedTurns DEF stop_current_and_send_new_message, TurnType
  <2>3. /\ UNCHANGED <<turnVars, task, response, completion, prompt, cancel_task>>
        /\ send_task' = 0
    BY <1>2 DEF stop_current_and_send_new_message
  <2>4. TurnType'
    BY <1>0, <2>2, <2>3 DEF TurnType, turnVars
  <2>5. \A t \in Turns : Phase(t)'
    BY <1>0, <2>1, <2>3 DEF Typed, Phase, turnVars, ConnType, TurnType
  <2> QED
    BY <2>1, <2>3, <2>4, <2>5 DEF Typed, turnVars
<1>3. ASSUME NEW m \in Turns, rewind(m) PROVE Typed'
  <2>1. ConnType' /\ started <= started'
    BY <1>0, <1>3, ConnStep DEF rewind
  <2>2. /\ UNCHANGED <<turnVars, task, response, completion, prompt, stopped>>
        /\ send_task' \in 0..turns /\ cancel_task' \in 0..turns
    BY <1>0, <1>3 DEF rewind, TurnType
  <2>3. entries' \in Seq(Entries(turns))
    <3>1. \A ix \in PositionOf(m) : SubSeq(entries, 1, ix - 1) \in Seq(Entries(turns))
      BY <1>0 DEF PositionOf
    <3> QED
      BY <1>0, <1>3, <3>1 DEF rewind
  <2> QED
    BY <2>1, <2>2, <2>3, PhasesKept
<1>4. ASSUME NEW ix \in DOMAIN entries, NEW allow \in BOOLEAN, authorize_tool_call(ix, allow)
      PROVE  Typed'
  <2> DEFINE s == IF allow THEN "InProgress" ELSE "Rejected"
  <2>1. entries[ix] \in Entries(turns) /\ entries[ix].kind = "tool"
    BY <1>0, <1>4 DEF authorize_tool_call, IsTool
  <2>2. [entries[ix] EXCEPT !.status = s] \in Entries(turns)
    BY <1>0, <2>1, StatusSet DEF Statuses, Unsettled
  <2>3. entries' = [entries EXCEPT ![ix] = [entries[ix] EXCEPT !.status = s]]
    BY <1>4 DEF authorize_tool_call
  <2> HIDE DEF s
  <2>4. entries' \in Seq(Entries(turns))
    BY <1>0, <2>2, <2>3, ExceptSeq
  <2>5. /\ UNCHANGED <<turnVars, task, response, completion, prompt, stopped, connVars>>
        /\ send_task' \in 0..turns /\ cancel_task' \in 0..turns
    BY <1>0, <1>4 DEF authorize_tool_call, TurnType, agentVars, auxVars
  <2> QED
    BY <1>0, <2>4, <2>5, ConnStep, PhasesKept
<1>5. ASSUME send \/ resume PROVE Typed'
  BY <1>5, RunTurnTyped DEF send, resume
<1> QED
  BY <1>1, <1>2, <1>3, <1>4, <1>5 DEF User

LEMMA SendTaskTyped ==
  ASSUME Typed, NEW t \in Turns, SendTask(t)
  PROVE  Typed'
<1>0. /\ ConnType /\ TurnType /\ turns \in Nat /\ entries \in Seq(Entries(turns))
      /\ ConnType /\ started \in Nat /\ Phase(t)
  BY DEF Typed, TurnType, ConnType
<1>1. ASSUME PushUserMessage(t) PROVE Typed'
  <2>1. t \in 1..turns
    BY <1>0, <1>1 DEF PushUserMessage, Ready, Phase, Turns, Ended
  <2>2. entries' \in Seq(Entries(turns))
    <3>1. UserMessage(t) \in Entries(turns)
      BY <1>0, <2>1, NewEntries DEF Statuses
    <3> QED
      BY <1>0, <1>1, <3>1, AppendProperties DEF PushUserMessage, Pushed
  <2>3. /\ UNCHANGED <<send_task, turnVars, response, completion, prompt, stopped, connVars, cancel_task>>
        /\ task' = [task EXCEPT ![t] = "checkpoint"] /\ task[t] = "queued"
    BY <1>1 DEF PushUserMessage, agentVars, auxVars, Ready
  <2>4. ConnType' /\ started <= started'
    BY <1>0, <2>3, ConnStep
  <2>5. TurnType'
    BY <1>0, <2>3 DEF TurnType, turnVars
  <2>6. \A u \in Turns : Phase(u)'
    BY <1>0, <2>3 DEF Typed, Phase, turnVars, connVars, TurnType, Ended
  <2> QED
    BY <2>2, <2>3, <2>4, <2>5, <2>6 DEF Typed, turnVars
<1>2. ASSUME ResumeConnection(t) PROVE Typed'
  BY <1>0, <1>2, PromptsTyped DEF ResumeConnection, Ready, threadVars, auxVars
<1>3. ASSUME CheckpointTaken(t) PROVE Typed'
  <2>1. PICK taken \in BOOLEAN :
          entries' = [ix \in DOMAIN entries |->
                        IF ix \in LastUserMessage THEN [entries[ix] EXCEPT !.checkpoint = taken]
                        ELSE entries[ix]]
    BY <1>3 DEF CheckpointTaken
  <2>2. ASSUME NEW ix \in DOMAIN entries PROVE entries'[ix] \in Entries(turns)
    <3>1. entries[ix] \in Entries(turns)
      BY <1>0
    <3> QED
      BY <1>0, <2>1, <3>1, CheckpointSet DEF LastUserMessage, IsUser
  <2>3. entries' \in [DOMAIN entries -> Entries(turns)]
    BY <2>1, <2>2
  <2>4. entries' \in Seq(Entries(turns))
    BY <1>0, <2>3, Mapped
  <2> QED
    BY <1>3, <2>4, PromptsTyped DEF CheckpointTaken, auxVars
<1>4. ASSUME ResponseArrives(t) PROVE Typed'
  <2>1. prompt[t] \in Turns
    BY <1>0, <1>4 DEF ResponseArrives, Phase, TurnType, Turns
  <2>2. outcome[prompt[t]] \in Outcomes
    BY <1>0, <1>4, <2>1 DEF ResponseArrives, ConnType
  <2>3. /\ UNCHANGED <<threadVars, turnVars, completion, cancel_task, connVars, prompt, auxVars>>
        /\ task' = [task EXCEPT ![t] = "done"] /\ task[t] = "prompting"
        /\ response' = [response EXCEPT ![t] = outcome[prompt[t]]]
    BY <1>4 DEF ResponseArrives
  <2>4. ConnType' /\ started <= started'
    BY <1>0, <2>3, ConnStep
  <2>5. TurnType'
    BY <1>0, <2>2, <2>3 DEF TurnType, turnVars, Ended, threadVars, auxVars
  <2>6. outcome[prompt[t]] # "none" /\ "done" \in Ended
    BY <1>4 DEF ResponseArrives, Ended
  <2>7. ASSUME NEW u \in Turns PROVE Phase(u)'
    <3>1. Phase(u) /\ turns' = turns /\ completion' = completion /\ prompt' = prompt /\ started' = started
      BY <2>3 DEF Typed, turnVars, connVars
    <3>2. CASE u = t
      BY <1>0, <2>3, <2>6, <3>1, <3>2 DEF Phase, Ended, TurnType
    <3>3. CASE u # t
      <4>1. task'[u] = task[u] /\ response'[u] = response[u]
        BY <2>3, <3>3, <1>0 DEF TurnType
      <4> QED
        BY <3>1, <4>1 DEF Phase
    <3> QED
      BY <3>2, <3>3
  <2> QED
    BY <1>0, <2>3, <2>4, <2>5, <2>7 DEF Typed, turnVars, threadVars
<1> QED
  BY <1>1, <1>2, <1>3, <1>4 DEF SendTask

LEMMA ToolEventTyped ==
  ASSUME Typed, NEW t \in Turns, NEW id \in ToolIds, ToolEvent(t, id)
  PROVE  Typed'
<1>0. /\ ConnType /\ TurnType /\ turns \in Nat /\ entries \in Seq(Entries(turns)) /\ Phase(t)
  BY DEF Typed, TurnType
<1> DEFINE Settles(ix, s, o) == [[entries[ix] EXCEPT !.status = s] EXCEPT !.output = @ \/ o]
<1>1. ASSUME task[t] = "prompting",
             UNCHANGED <<send_task, turnVars, task, response, completion, cancel_task, connVars,
                         prompt, stopped>>,
             entries' \in Seq(Entries(turns))
      PROVE  Typed'
  BY <1>0, <1>1, ConnStep, PhasesKept DEF TurnType
<1>2. ASSUME NEW s, Reported(t, id, s)
      PROVE  /\ task[t] = "prompting"
             /\ UNCHANGED <<send_task, turnVars, task, response, completion, cancel_task, connVars,
                            prompt, stopped>>
  BY <1>2 DEF Reported, auxVars
<1>3. task[t] = "prompting" => t \in 1..turns
  BY <1>0 DEF Phase, Turns
<1>4. \A ix \in IndexForToolCall(t, id) :
        ix \in DOMAIN entries /\ entries[ix] \in Entries(turns) /\ entries[ix].kind = "tool"
  BY <1>0 DEF IndexForToolCall, IsTool
<1>5. ASSUME NEW s \in Statuses, Upserted(t, id, s), t \in 1..turns
      PROVE  entries' \in Seq(Entries(turns))
  <2>1. ASSUME NEW ix \in IndexForToolCall(t, id), entries' = [entries EXCEPT ![ix].status = s]
        PROVE  entries' \in Seq(Entries(turns))
    <3>1. [entries[ix] EXCEPT !.status = s] \in Entries(turns)
      BY <1>0, <1>4, StatusSet
    <3>2. entries' = [entries EXCEPT ![ix] = [entries[ix] EXCEPT !.status = s]]
      BY <2>1
    <3> QED
      BY <1>0, <1>4, <3>1, <3>2, ExceptSeq
  <2>2. ASSUME Pushed(ToolCall(t, id, s, FALSE)) PROVE entries' \in Seq(Entries(turns))
    <3>1. ToolCall(t, id, s, FALSE) \in Entries(turns)
      BY <1>0, <1>5, NewEntries
    <3> QED
      BY <1>0, <2>2, <3>1, AppendProperties DEF Pushed
  <2> QED
    BY <1>5, <2>1, <2>2 DEF Upserted
<1>6. ASSUME NEW s \in Statuses, NEW o \in BOOLEAN, t \in 1..turns, update_tool_call(t, id, s, o)
      PROVE  entries' \in Seq(Entries(turns))
  <2>1. ASSUME NEW ix \in IndexForToolCall(t, id),
               entries' = [entries EXCEPT ![ix].status = s, ![ix].output = @ \/ o]
        PROVE  entries' \in Seq(Entries(turns))
    <3>1. [entries[ix] EXCEPT !.status = s] \in Entries(turns)
      BY <1>0, <1>4, StatusSet
    <3>2. [entries[ix] EXCEPT !.status = s].kind = "tool"
      BY <1>4
    <3>3. Settles(ix, s, o) \in Entries(turns)
      BY <1>0, <3>1, <3>2, OutputSet
    <3>4. entries' = [entries EXCEPT ![ix] = Settles(ix, s, o)]
      BY <2>1
    <3> HIDE DEF Settles
    <3> QED
      BY <1>0, <1>4, <3>3, <3>4, ExceptSeq
  <2>2. ASSUME Pushed(ToolCall(t, id, "Failed", FALSE)) PROVE entries' \in Seq(Entries(turns))
    <3>1. ToolCall(t, id, "Failed", FALSE) \in Entries(turns)
      BY <1>0, <1>6, NewEntries DEF Statuses
    <3> QED
      BY <1>0, <2>2, <3>1, AppendProperties DEF Pushed
  <2> QED
    BY <1>6, <2>1, <2>2 DEF update_tool_call
<1>7. ASSUME upsert_tool_call(t, id) PROVE Typed'
  BY <1>1, <1>2, <1>3, <1>5, <1>7 DEF upsert_tool_call, Statuses, Unsettled
<1>8. ASSUME request_tool_call_authorization(t, id) PROVE Typed'
  BY <1>1, <1>2, <1>3, <1>5, <1>8 DEF request_tool_call_authorization, Statuses, Unsettled
<1>9. ASSUME NEW s \in {"InProgress", "Completed", "Failed"}, NEW o \in BOOLEAN,
             update_tool_call(t, id, s, o)
      PROVE  Typed'
  <2>1. s \in Statuses /\ Reported(t, id, s)
    BY <1>9 DEF update_tool_call, Statuses, Unsettled
  <2> QED
    BY <1>1, <1>2, <1>3, <1>6, <1>9, <2>1
<1> QED
  BY <1>7, <1>8, <1>9 DEF ToolEvent

LEMMA FinishesTyped ==
  ASSUME Typed, Finishes
  PROVE  Typed'
<1>0. ConnType /\ TurnType /\ entries \in Seq(Entries(turns))
  BY DEF Typed
<1>1. /\ UNCHANGED <<threadVars, turnVars, task, response, completion, cancel_task, prompt, stopped>>
      /\ \E reason \in Reasons : Connection!Finish(reason)
  BY DEF Finishes, AgentFinishes, auxVars
<1>2. ConnType' /\ started <= started'
  BY <1>0, <1>1, ConnStep
<1> QED
  BY <1>0, <1>1, <1>2, PhasesKept DEF threadVars, TurnType

\* The end of a completion task, and the refusal in it.
LEMMA RefusalType ==
  ASSUME Typed, RefusalHandled
  PROVE  entries' \in Seq(Entries(turns))
<1>1. entries \in Seq(Entries(turns))
  BY DEF Typed
<1>2. \A ix \in LastUserMessage : SubSeq(entries, 1, ix - 1) \in Seq(Entries(turns))
  BY <1>1 DEF LastUserMessage
<1> QED
  BY <1>1, <1>2 DEF RefusalHandled

LEMMA FinishedTyped ==
  ASSUME Typed, NEW t \in Turns, completion[t] # "none", response[t] # "none", Finished(t)
  PROVE  Typed'
<1>0. ConnType /\ TurnType /\ entries \in Seq(Entries(turns))
  BY DEF Typed
<1>1. entries' \in Seq(Entries(turns))
  BY <1>0, RefusalType DEF Finished
<1>2. /\ UNCHANGED <<turnVars, cancel_task, connVars, prompt, stopped>>
      /\ completion' = [completion EXCEPT ![t] = IF response[t] = "Error" THEN "error" ELSE "stopped"]
  BY DEF Finished
<1>3. ConnType' /\ started <= started'
  BY <1>0, <1>2, ConnStep
<1>4. completion' \in [Turns -> {"none", "waiting", "checkpoint", "compared"} \cup Over]
  BY <1>0, <1>2 DEF TurnType, Over
<1>5. \A u \in Turns : completion'[u] # completion[u] => response[u] # "none" /\ completion'[u] # "none"
  BY <1>0, <1>2 DEF TurnType
<1>6. send_task \in 0..turns /\ cancel_task' \in 0..turns /\ stopped' \subseteq 1..turns
  BY <1>0, <1>2 DEF TurnType
<1>7. CASE send_task' = 0 /\ Dropped(Owned(send_task))
  <2>1. send_task' \in 0..turns
    BY <1>0, <1>7 DEF TurnType
  <2> QED
    BY <1>1, <1>2, <1>3, <1>4, <1>5, <1>6, <1>7, <2>1, DroppedTyped
<1>8. CASE UNCHANGED <<send_task, task, response>>
  <2>1. TurnType'
    BY <1>0, <1>2, <1>4, <1>8 DEF TurnType, turnVars
  <2>2. \A u \in Turns : Phase(u)'
    BY <1>0, <1>2, <1>3, <1>5, <1>8 DEF Typed, Phase, turnVars, connVars
  <2> QED
    BY <1>1, <1>2, <1>3, <2>1, <2>2 DEF Typed, turnVars
<1> QED
  BY <1>7, <1>8 DEF Finished

LEMMA CompletionTaskTyped ==
  ASSUME Typed, NEW t \in Turns, CompletionTask(t)
  PROVE  Typed'
<1>0. ConnType /\ TurnType /\ entries \in Seq(Entries(turns)) /\ Phase(t)
  BY DEF Typed
<1>1. ASSUME NEW c \in {"checkpoint", "compared", "aborted"}, response[t] # "none",
             completion' = [completion EXCEPT ![t] = c],
             UNCHANGED <<threadVars, turnVars, task, response, cancel_task, agentVars, auxVars>>
      PROVE  Typed'
  <2>1. ConnType'
    BY <1>0, <1>1 DEF ConnType, agentVars, connVars
  <2>2. completion' \in [Turns -> {"none", "waiting", "checkpoint", "compared"} \cup Over]
    BY <1>0, <1>1 DEF TurnType, Over
  <2>3. TurnType'
    BY <1>0, <1>1, <2>2 DEF TurnType, turnVars, threadVars, agentVars, auxVars
  <2>4. ASSUME NEW u \in Turns PROVE Phase(u)'
    <3>1. /\ Phase(u) /\ turns' = turns /\ task' = task /\ response' = response
          /\ prompt' = prompt /\ started' = started
      BY <1>1 DEF Typed, turnVars, agentVars, connVars
    <3>2. completion'[u] = completion[u] \/ (response[u] # "none" /\ completion'[u] # "none")
      BY <1>0, <1>1 DEF TurnType
    <3>3. task[u] # "none" \/ response[u] = "none"
      BY <3>1 DEF Phase, Ended
    <3> QED
      BY <3>1, <3>2, <3>3 DEF Phase
  <2> QED
    BY <1>0, <1>1, <2>1, <2>3, <2>4 DEF Typed, turnVars, threadVars
<1>2. ASSUME ResponseReceived(t) PROVE Typed'
  <2>1. response[t] # "none" /\ completion[t] # "none"
    BY <1>2 DEF ResponseReceived
  <2> QED
    BY <1>1, <1>2, <2>1, FinishedTyped DEF ResponseReceived
<1>3. ASSUME update_last_checkpoint(t) PROVE Typed'
  <2>1. response[t] # "none"
    BY <1>0, <1>3 DEF update_last_checkpoint, Phase
  <2> QED
    BY <1>1, <1>3, <2>1 DEF update_last_checkpoint
<1>4. ASSUME CheckpointUpdated(t) PROVE Typed'
  BY <1>0, <1>4, FinishedTyped DEF CheckpointUpdated, Phase
<1> QED
  BY <1>2, <1>3, <1>4 DEF CompletionTask

LEMMA TypedStep == Typed /\ [Next]_vars => Typed'
<1> SUFFICES ASSUME Typed, [Next]_vars PROVE Typed'
  OBVIOUS
<1>1. CASE UNCHANGED vars
  <2>1. /\ UNCHANGED <<threadVars, turnVars, task, response, completion, cancel_task, connVars,
                       prompt, stopped>>
    BY <1>1 DEF vars, agentVars, auxVars
  <2> QED
    BY <2>1, ConnStep, PhasesKept DEF Typed, TurnType, threadVars
<1> QED
  BY <1>1, UserTyped, FinishesTyped, SendTaskTyped, CompletionTaskTyped, ToolEventTyped DEF Next

LEMMA TypedType == Typed => TypeOK
<1> SUFFICES ASSUME Typed PROVE TypeOK
  OBVIOUS
<1>1. ConnType /\ TurnType /\ \A t \in Turns : Phase(t)
  BY DEF Typed
<1>2. ASSUME NEW ix \in DOMAIN entries PROVE entries[ix] \in Entries(turns)
  BY DEF Typed
<1>3. ASSUME NEW t \in Turns PROVE prompt[t] \in 0..started /\ waits_for[t] \in 0..(t - 1)
  BY <1>1 DEF Phase, TurnType, ConnType, Turns
<1> QED
  BY <1>1, <1>2, <1>3
     DEF TypeOK, TurnType, Outcomes, Entries, UserMessages, ToolCalls, Statuses

\* Every variable keeps its type: entries are of turns there are, tasks and
\* responses are what their types allow, a turn waits only for an earlier one.
THEOREM TypeCorrect == Spec => []TypeOK
<1>1. Spec => []Typed
  BY TypedInit, TypedStep, PTL DEF Spec
<1> QED
  BY <1>1, TypedType, PTL

----------------------------------------------------------------------------
(* Steps of a turn. *)

\* What a step does to one turn: nothing, begin it, go on with its send task, or
\* drop that.
TurnStep(t) ==
  \/ SendTask(t) /\ kind'[t] = kind[t]
  \/ /\ response'[t] = response[t] /\ prompt'[t] = prompt[t]
     /\ \/ task'[t] = task[t] /\ kind'[t] = kind[t]
        \/ /\ t = turns + 1 /\ turns' = turns + 1 /\ task'[t] = "queued"
           /\ \E how \in {"send", "resume"} : run_turn(how)
  \/ /\ task[t] \notin Ended /\ t <= turns /\ task'[t] = "dropped" /\ response'[t] = "Dropped"
     /\ prompt'[t] = prompt[t] /\ kind'[t] = kind[t]

LEMMA TurnSteps ==
  ASSUME Typed, [Next]_vars, NEW t \in Turns
  PROVE  TurnStep(t)
<1>0. TurnType /\ cancel_task \in 0..turns /\ send_task \in 0..turns
  BY DEF Typed, TurnType
<1>1. CASE UNCHANGED <<task, response, prompt, kind>>
  BY <1>1 DEF TurnStep
<1>2. ASSUME NEW x \in 0..turns, Dropped(Owned(x)), UNCHANGED <<prompt, kind>> PROVE TurnStep(t)
  BY <1>2, DroppedTurns DEF TurnStep
<1>3. ASSUME NEW how \in {"send", "resume"}, run_turn(how) PROVE TurnStep(t)
  BY <1>0, <1>3 DEF run_turn, TurnType, TurnStep
<1>4. CASE cancel_generation
  BY <1>0, <1>2, <1>4 DEF cancel_generation, turnVars
<1>5. CASE User
  BY <1>1, <1>3, <1>4, <1>5
     DEF User, send, resume, stop_current_and_send_new_message, rewind, authorize_tool_call,
         turnVars, agentVars
<1>6. CASE Finishes \/ UNCHANGED vars
  BY <1>1, <1>6 DEF Finishes, AgentFinishes, vars, turnVars, agentVars
<1>7. ASSUME NEW u \in Turns, SendTask(u) PROVE TurnStep(t)
  <2>1. kind' = kind
    BY <1>7 DEF SendTask, PushUserMessage, ResumeConnection, CheckpointTaken, ResponseArrives, turnVars
  <2>2. CASE u = t
    BY <1>7, <2>1, <2>2 DEF TurnStep
  <2>3. CASE u # t
    <3>1. task'[t] = task[t] /\ response'[t] = response[t] /\ prompt'[t] = prompt[t]
      BY <1>0, <1>7, <2>3, PromptsType
         DEF SendTask, PushUserMessage, ResponseArrives, ResumeConnection, CheckpointTaken, Ready,
             TurnType, agentVars
    <3> QED
      BY <2>1, <3>1 DEF TurnStep
  <2> QED
    BY <2>2, <2>3
<1>8. ASSUME NEW u \in Turns, CompletionTask(u) PROVE TurnStep(t)
  <2>1. UNCHANGED <<prompt, kind>>
    BY <1>8 DEF CompletionTask, ResponseReceived, update_last_checkpoint, CheckpointUpdated, Finished,
                turnVars, agentVars
  <2>2. UNCHANGED <<task, response>> \/ Dropped(Owned(send_task))
    BY <1>8 DEF CompletionTask, ResponseReceived, update_last_checkpoint, CheckpointUpdated, Finished
  <2> QED
    BY <1>0, <1>1, <1>2, <2>1, <2>2
<1>9. ASSUME NEW u \in Turns, NEW id \in ToolIds, ToolEvent(u, id) PROVE TurnStep(t)
  BY <1>1, <1>9 DEF ToolEvent, upsert_tool_call, request_tool_call_authorization, update_tool_call,
                    Reported, turnVars
<1> QED
  BY <1>5, <1>6, <1>7, <1>8, <1>9 DEF Next

\* A send task that has ended does not go on, and its response is final.
LEMMA TurnFinal ==
  ASSUME Typed, [Next]_vars, NEW t \in Turns, response[t] # "none"
  PROVE  response'[t] = response[t] /\ task'[t] = task[t] /\ prompt'[t] = prompt[t] /\ kind'[t] = kind[t]
<1>1. task[t] \in Ended /\ t <= turns /\ turns \in Nat
  BY DEF Typed, TurnType, Phase, Ended, Turns
<1>2. ~SendTask(t)
  BY <1>1 DEF SendTask, PushUserMessage, ResumeConnection, CheckpointTaken, ResponseArrives, Ready, Ended
<1> QED
  BY <1>1, <1>2, TurnSteps DEF TurnStep, Turns

----------------------------------------------------------------------------
(* Where the user messages are. *)

SameMessages == \A u \in Turns : PositionOf(u)' = PositionOf(u)
FewerMessages == \A u \in Turns : PositionOf(u)' \subseteq PositionOf(u)

\* The last user message has its checkpoint if it had it.
SameCheckpoint == HasCheckpoint' <=> HasCheckpoint

LEMMA CheckpointKept ==
  ASSUME \A ix : ix \in DOMAIN entries' /\ entries'[ix].kind = "user" <=>
                 ix \in DOMAIN entries /\ entries[ix].kind = "user",
         \A ix \in DOMAIN entries : entries[ix].kind = "user" => entries'[ix] = entries[ix]
  PROVE  SameCheckpoint
<1>1. LastUserMessage' = LastUserMessage
  BY DEF LastUserMessage, IsUser
<1>2. \A ix \in LastUserMessage : entries'[ix] = entries[ix]
  BY DEF LastUserMessage, IsUser
<1> QED
  BY <1>1, <1>2 DEF SameCheckpoint, HasCheckpoint

LEMMA MessagesMapped ==
  ASSUME NEW n \in Nat, entries \in Seq(Entries(n)), entries' \in Seq(Entries(n)),
         Len(entries') = Len(entries),
         \A ix \in DOMAIN entries :
           entries'[ix].kind = entries[ix].kind /\ entries'[ix].turn = entries[ix].turn
  PROVE  SameMessages
<1>1. DOMAIN entries' = DOMAIN entries
  OBVIOUS
<1> QED
  BY <1>1 DEF SameMessages, PositionOf, IsUser

LEMMA MessagesCut ==
  ASSUME NEW n \in Nat, entries \in Seq(Entries(n)), NEW k \in 0..Len(entries),
         entries' = SubSeq(entries, 1, k)
  PROVE  FewerMessages /\ \A u \in Turns : \A ix \in PositionOf(u) : ix <= k => ix \in PositionOf(u)'
<1>1. /\ Len(entries') = k /\ DOMAIN entries' = 1..k /\ DOMAIN entries = 1..Len(entries)
      /\ \A ix \in 1..k : entries'[ix] = entries[ix]
  OBVIOUS
<1> QED
  BY <1>1 DEF FewerMessages, PositionOf, IsUser

LEMMA MessagesPushed ==
  ASSUME NEW n \in Nat, entries \in Seq(Entries(n)), NEW e \in Entries(n), Pushed(e)
  PROVE  /\ e.kind = "tool" => SameMessages /\ SameCheckpoint
         /\ \A t \in Turns : e = UserMessage(t) =>
              /\ \A u \in Turns \ {t} : PositionOf(u)' = PositionOf(u)
              /\ PositionOf(t)' = PositionOf(t) \cup {Len(entries) + 1}
<1>1. /\ entries' \in Seq(Entries(n)) /\ Len(entries') = Len(entries) + 1
      /\ \A ix \in 1..Len(entries) : entries'[ix] = entries[ix]
      /\ entries'[Len(entries) + 1] = e
  BY AppendProperties DEF Pushed
<1>2. DOMAIN entries = 1..Len(entries) /\ DOMAIN entries' = DOMAIN entries \cup {Len(entries) + 1}
  BY <1>1
<1>3. ASSUME e.kind = "tool", NEW u \in Turns PROVE PositionOf(u)' = PositionOf(u)
  BY <1>1, <1>2, <1>3 DEF PositionOf, IsUser
<1>4. ASSUME NEW t \in Turns, e = UserMessage(t)
      PROVE  /\ \A u \in Turns \ {t} : PositionOf(u)' = PositionOf(u)
             /\ PositionOf(t)' = PositionOf(t) \cup {Len(entries) + 1}
  <2>1. e.kind = "user" /\ e.turn = t
    BY <1>4 DEF UserMessage
  <2> QED
    BY <1>1, <1>2, <2>1 DEF PositionOf, IsUser
<1>5. ASSUME e.kind = "tool" PROVE SameCheckpoint
  <2>1. ASSUME NEW ix
        PROVE  ix \in DOMAIN entries' /\ entries'[ix].kind = "user" <=>
               ix \in DOMAIN entries /\ entries[ix].kind = "user"
    BY <1>1, <1>2, <1>5
  <2> QED
    BY <1>1, <1>2, <2>1, CheckpointKept
<1> QED
  BY <1>3, <1>4, <1>5 DEF SameMessages

LEMMA CancelMessages ==
  ASSUME Typed, cancel
  PROVE  SameMessages
<1>1. /\ turns \in Nat /\ entries \in Seq(Entries(turns)) /\ entries' \in Seq(Entries(turns))
      /\ entries' = entries \/ entries' = Canceled(entries)
  BY CancelType DEF Typed, TurnType
<1>2. CASE entries' = entries
  BY <1>2 DEF SameMessages, PositionOf, IsUser
<1>3. CASE entries' = Canceled(entries)
  <2>1. DOMAIN entries' = DOMAIN entries /\ Len(entries') = Len(entries)
    BY <1>1, <1>3 DEF Canceled
  <2>2. ASSUME NEW ix \in DOMAIN entries
        PROVE  entries'[ix].kind = entries[ix].kind /\ entries'[ix].turn = entries[ix].turn
    <3>1. entries[ix] \in Entries(turns)
      BY <1>1
    <3> QED
      BY <1>3, <3>1 DEF Canceled, Entries, UserMessages, ToolCalls
  <2> QED
    BY <1>1, <2>1, <2>2, MessagesMapped
<1> QED
  BY <1>1, <1>2, <1>3

\* A change to one tool call, or a checkpoint for a user message.
LEMMA MessagesExcept ==
  ASSUME NEW n \in Nat, entries \in Seq(Entries(n)), NEW ix \in DOMAIN entries, NEW e \in Entries(n),
         e.kind = entries[ix].kind, e.turn = entries[ix].turn,
         entries' = [entries EXCEPT ![ix] = e]
  PROVE  SameMessages /\ (e.kind = "tool" => SameCheckpoint)
<1>1. /\ entries' \in Seq(Entries(n)) /\ Len(entries') = Len(entries)
      /\ \A jx \in DOMAIN entries : entries'[jx] = IF jx = ix THEN e ELSE entries[jx]
  BY ExceptSeq
<1>2. DOMAIN entries' = DOMAIN entries
  OBVIOUS
<1>3. ASSUME e.kind = "tool" PROVE SameCheckpoint
  <2>1. ASSUME NEW jx
        PROVE  jx \in DOMAIN entries' /\ entries'[jx].kind = "user" <=>
               jx \in DOMAIN entries /\ entries[jx].kind = "user"
    BY <1>1, <1>2, <1>3
  <2> QED
    BY <1>1, <1>3, <2>1, CheckpointKept
<1> QED
  BY <1>1, <1>3, MessagesMapped

LEMMA ToolEventMessages ==
  ASSUME Typed, NEW t \in Turns, NEW id \in ToolIds, ToolEvent(t, id)
  PROVE  SameMessages /\ SameCheckpoint
<1>0. /\ turns \in Nat /\ entries \in Seq(Entries(turns)) /\ Phase(t)
  BY DEF Typed, TurnType
<1>1. t \in 1..turns
  <2>1. task[t] = "prompting"
    BY DEF ToolEvent, upsert_tool_call, request_tool_call_authorization, update_tool_call, Reported
  <2> QED
    BY <1>0, <2>1 DEF Phase, Turns
<1>2. \A ix \in IndexForToolCall(t, id) :
        ix \in DOMAIN entries /\ entries[ix] \in ToolCalls(turns)
  BY <1>0 DEF IndexForToolCall, IsTool, Entries, UserMessages, ToolCalls
<1>3. ASSUME NEW s \in Statuses, Pushed(ToolCall(t, id, s, FALSE)) PROVE SameMessages /\ SameCheckpoint
  <2>1. ToolCall(t, id, s, FALSE) \in Entries(turns)
    BY <1>0, <1>1, NewEntries
  <2>2. ToolCall(t, id, s, FALSE).kind = "tool"
    BY DEF ToolCall
  <2> QED
    BY <1>0, <1>3, <2>1, <2>2, MessagesPushed
<1>4. ASSUME NEW ix \in IndexForToolCall(t, id), NEW s \in Statuses,
             entries' = [entries EXCEPT ![ix].status = s]
      PROVE  SameMessages /\ SameCheckpoint
  <2> DEFINE e == [entries[ix] EXCEPT !.status = s]
  <2>1. e \in Entries(turns) /\ e.kind = "tool" /\ e.kind = entries[ix].kind /\ e.turn = entries[ix].turn
    BY <1>0, <1>2, StatusSet DEF Entries, ToolCalls
  <2>2. entries' = [entries EXCEPT ![ix] = e]
    BY <1>4
  <2> HIDE DEF e
  <2> QED
    BY <1>0, <1>2, <2>1, <2>2, MessagesExcept
<1>5. ASSUME NEW ix \in IndexForToolCall(t, id), NEW s \in Statuses, NEW o \in BOOLEAN,
             entries' = [entries EXCEPT ![ix].status = s, ![ix].output = @ \/ o]
      PROVE  SameMessages /\ SameCheckpoint
  <2> DEFINE d == [entries[ix] EXCEPT !.status = s]
             e == [d EXCEPT !.output = @ \/ o]
  <2>1. d \in Entries(turns) /\ d.kind = "tool" /\ d.turn = entries[ix].turn
    BY <1>0, <1>2, StatusSet DEF Entries, ToolCalls
  <2> HIDE DEF d
  <2>2. e \in Entries(turns) /\ e.kind = "tool" /\ e.kind = entries[ix].kind /\ e.turn = entries[ix].turn
    BY <1>0, <1>2, <2>1, OutputSet DEF Entries, ToolCalls, UserMessages
  <2>3. entries' = [entries EXCEPT ![ix] = e]
    BY <1>5 DEF d
  <2> HIDE DEF e
  <2> QED
    BY <1>0, <1>2, <2>2, <2>3, MessagesExcept
<1>6. ASSUME NEW s \in Statuses, Upserted(t, id, s) PROVE SameMessages /\ SameCheckpoint
  BY <1>3, <1>4, <1>6 DEF Upserted
<1>7. CASE upsert_tool_call(t, id)
  BY <1>6, <1>7 DEF upsert_tool_call, Statuses, Unsettled
<1>8. CASE request_tool_call_authorization(t, id)
  BY <1>6, <1>8 DEF request_tool_call_authorization, Statuses, Unsettled
<1>9. ASSUME NEW s \in {"InProgress", "Completed", "Failed"}, NEW o \in BOOLEAN,
             update_tool_call(t, id, s, o)
      PROVE  SameMessages /\ SameCheckpoint
  BY <1>3, <1>5, <1>9 DEF update_tool_call, Statuses, Unsettled
<1> QED
  BY <1>7, <1>8, <1>9 DEF ToolEvent

LEMMA CheckpointMessages ==
  ASSUME Typed, NEW t \in Turns, CheckpointTaken(t)
  PROVE  SameMessages
<1>0. turns \in Nat /\ entries \in Seq(Entries(turns))
  BY DEF Typed, TurnType
<1>1. PICK taken \in BOOLEAN :
        entries' = [ix \in DOMAIN entries |->
                      IF ix \in LastUserMessage THEN [entries[ix] EXCEPT !.checkpoint = taken]
                      ELSE entries[ix]]
  BY DEF CheckpointTaken
<1>2. ASSUME NEW ix \in DOMAIN entries
      PROVE  /\ entries'[ix] \in Entries(turns)
             /\ entries'[ix].kind = entries[ix].kind /\ entries'[ix].turn = entries[ix].turn
  <2>1. entries[ix] \in Entries(turns)
    BY <1>0
  <2>2. CASE ix \in LastUserMessage
    <3>1. entries[ix].kind = "user" /\ entries[ix] \in UserMessages(turns)
      BY <2>1, <2>2 DEF LastUserMessage, IsUser, Entries, UserMessages, ToolCalls
    <3> QED
      BY <1>0, <1>1, <2>1, <2>2, <3>1, CheckpointSet DEF UserMessages
  <2> QED
    BY <1>1, <2>1, <2>2
<1>3. entries' \in [DOMAIN entries -> Entries(turns)]
  BY <1>1, <1>2
<1>4. entries' \in Seq(Entries(turns)) /\ Len(entries') = Len(entries)
  BY <1>0, <1>3, Mapped
<1> QED
  BY <1>0, <1>2, <1>4, MessagesMapped

LEMMA AuthorizeMessages ==
  ASSUME Typed, NEW ix \in DOMAIN entries, NEW allow \in BOOLEAN, authorize_tool_call(ix, allow)
  PROVE  SameMessages /\ SameCheckpoint
<1> DEFINE s == IF allow THEN "InProgress" ELSE "Rejected"
           e == [entries[ix] EXCEPT !.status = s]
<1>1. turns \in Nat /\ entries \in Seq(Entries(turns)) /\ s \in Statuses
  BY DEF Typed, TurnType, Statuses, Unsettled
<1>2. entries[ix] \in Entries(turns) /\ entries[ix].kind = "tool"
  BY <1>1 DEF authorize_tool_call, IsTool
<1>3. entries' = [entries EXCEPT ![ix] = e]
  BY DEF authorize_tool_call
<1> HIDE DEF s
<1>4. e \in Entries(turns) /\ e.kind = "tool" /\ e.kind = entries[ix].kind /\ e.turn = entries[ix].turn
  BY <1>1, <1>2, StatusSet DEF Entries, ToolCalls, UserMessages
<1> HIDE DEF e
<1> QED
  BY <1>1, <1>3, <1>4, MessagesExcept

LEMMA RewindMessages ==
  ASSUME Typed, NEW m \in Turns, rewind(m)
  PROVE  FewerMessages
<1>1. turns \in Nat /\ entries \in Seq(Entries(turns))
  BY DEF Typed, TurnType
<1>2. ASSUME NEW ix \in PositionOf(m), entries' = SubSeq(entries, 1, ix - 1) PROVE FewerMessages
  <2>1. ix - 1 \in 0..Len(entries)
    BY <1>1 DEF PositionOf
  <2> QED
    BY <1>1, <1>2, <2>1, MessagesCut
<1>3. ASSUME entries' = entries PROVE FewerMessages
  BY <1>3 DEF FewerMessages, PositionOf, IsUser
<1> QED
  BY <1>2, <1>3 DEF rewind

LEMMA RefusalMessages ==
  ASSUME Typed, RefusalHandled
  PROVE  FewerMessages
<1>1. turns \in Nat /\ entries \in Seq(Entries(turns))
  BY DEF Typed, TurnType
<1>2. ASSUME NEW ix \in LastUserMessage, entries' = SubSeq(entries, 1, ix - 1) PROVE FewerMessages
  <2>1. ix - 1 \in 0..Len(entries)
    BY <1>1 DEF LastUserMessage
  <2> QED
    BY <1>1, <1>2, <2>1, MessagesCut
<1>3. ASSUME entries' = entries PROVE FewerMessages
  BY <1>3 DEF FewerMessages, PositionOf, IsUser
<1> QED
  BY <1>2, <1>3 DEF RefusalHandled

\* Only a new prompt adds a message, only a rewind and a refusal remove some.
LEMMA Messages ==
  ASSUME Typed, [Next]_vars
  PROVE  \/ SameMessages
         \/ \E t \in Turns : PushUserMessage(t)
         \/ \E m \in Turns : rewind(m) /\ FewerMessages
         \/ \E t \in Turns : /\ Finished(t) /\ response[t] = "Refusal" /\ RefusalHandled
                             /\ CompletionTask(t) /\ FewerMessages
<1>0. entries' = entries => SameMessages
  BY DEF SameMessages, PositionOf, IsUser
<1>1. CASE UNCHANGED vars
  BY <1>0, <1>1 DEF vars, threadVars
<1>2. CASE User
  <2>1. cancel => SameMessages
    BY CancelMessages
  <2>2. CASE send \/ resume
    BY <2>1, <2>2 DEF send, resume, run_turn
  <2>3. CASE cancel_generation \/ stop_current_and_send_new_message
    BY <2>1, <2>3 DEF cancel_generation, stop_current_and_send_new_message
  <2> QED
    BY <1>2, <2>2, <2>3, RewindMessages, AuthorizeMessages DEF User
<1>3. CASE Finishes
  BY <1>0, <1>3 DEF Finishes, AgentFinishes, threadVars
<1>4. ASSUME NEW t \in Turns, SendTask(t) PROVE SameMessages \/ PushUserMessage(t)
  BY <1>0, <1>4, CheckpointMessages DEF SendTask, ResumeConnection, ResponseArrives, threadVars
<1>5. ASSUME NEW t \in Turns, CompletionTask(t)
      PROVE  SameMessages \/ (Finished(t) /\ response[t] = "Refusal" /\ RefusalHandled /\ FewerMessages)
  <2>1. entries' = entries \/ Finished(t)
    BY <1>5 DEF CompletionTask, ResponseReceived, update_last_checkpoint, CheckpointUpdated, threadVars
  <2> QED
    BY <1>0, <2>1, RefusalMessages DEF Finished
<1> QED
  BY <1>1, <1>2, <1>3, <1>4, <1>5, ToolEventMessages DEF Next

----------------------------------------------------------------------------
(* Overtaken turns. *)

LEMMA LeastNumber ==
  ASSUME NEW T \in SUBSET Nat, NEW k \in T
  PROVE  \E x \in T : \A y \in T : x <= y
<1> DEFINE R == {ss \in Nat \X Nat : ss[1] < ss[2]}
<1>1. IsWellFoundedOn(R, Nat)
  BY NatLessThanWellFounded DEF OpToRel
<1> HIDE DEF R
<1>2. \E x \in T : \A y \in T : ~(<<y, x>> \in R)
  BY <1>1, WFMin
<1>3. \A x, y \in Nat : ~(<<y, x>> \in R) => x <= y
  BY DEF R
<1> QED
  BY <1>2, <1>3

\* The turns that are under way and that the user has not stopped.
Alive == {t \in 1..turns : UnderWay(t) /\ t \notin stopped}

\* They are in a queue that ends at send_task: each waits for one that is under
\* way, so only the first can be past waiting.
Queue ==
  /\ \A t, v \in Alive : t < v =>
       task[v] = "queued" /\ waits_for[v] \in Alive /\ t <= waits_for[v]
  /\ \A t \in Alive : send_task \in Alive /\ t <= send_task
  /\ send_task \in {0, turns}

\* A stopped turn holds only stopped ones, the view holds only stopped ones, and
\* all of them are of before those that are not stopped.
Stops ==
  /\ \A v \in stopped :
       task[v] = "queued" /\ waits_for[v] # 0 /\ UnderWay(waits_for[v]) => waits_for[v] \in stopped
  /\ cancel_task # 0 /\ UnderWay(cancel_task) => cancel_task \in stopped
  /\ \A t \in Alive, u \in stopped : u < t

\* Nothing of a turn is to be seen while one before it is under way.
Later ==
  /\ \A t \in Alive, u \in Turns : t < u => prompt[u] = 0 /\ PositionOf(u) = {}
  /\ \A t, u \in Turns : t < u /\ t \notin stopped /\ prompt[t] # 0 /\ prompt[u] # 0 =>
       prompt[t] < prompt[u]

Order == Queue /\ Stops /\ Later

LEMMA OwnedFacts ==
  ASSUME TurnType, NEW x \in 0..turns
  PROVE  /\ x # 0 /\ UnderWay(x) => x \in Owned(x)
         /\ \A v \in Owned(x) :
              task[v] = "queued" /\ waits_for[v] # 0 /\ UnderWay(waits_for[v]) => waits_for[v] \in Owned(x)
<1>1. x # 0 => x \in Turns
  BY DEF TurnType, Turns
<1>2. \A v \in Turns : waits_for[v] # 0 => waits_for[v] \in Turns
  BY DEF TurnType, Turns
<1>3. x # 0 /\ UnderWay(x) => x \in Owned(x)
  BY <1>1 DEF Owned
<1>4. ASSUME NEW v \in Owned(x), task[v] = "queued", waits_for[v] # 0, UnderWay(waits_for[v])
      PROVE  waits_for[v] \in Owned(x)
  <2>1. v \in Turns /\ x # 0 /\ UnderWay(x)
    BY DEF Owned
  <2> DEFINE Closed(S) == \A u \in S : task[u] = "queued" /\ waits_for[u] # 0 /\ UnderWay(waits_for[u])
                                          => waits_for[u] \in S
  <2>2. \A S \in SUBSET Turns : Closed(S) /\ x \in S => v \in S
    BY DEF Owned
  <2>3. \A S \in SUBSET Turns : Closed(S) /\ v \in S => waits_for[v] \in S
    BY <1>4
  <2> QED
    BY <1>2, <1>4, <2>1, <2>2, <2>3 DEF Owned
<1> QED
  BY <1>3, <1>4

\* The whole queue goes with its end.
LEMMA OwnedAlive ==
  ASSUME Typed, Queue
  PROVE  Alive \subseteq Owned(send_task)
<1> SUFFICES ASSUME NEW t \in Alive, t \notin Owned(send_task) PROVE FALSE
  OBVIOUS
<1>1. TurnType /\ turns \in Nat
  BY DEF Typed, TurnType
<1>2. /\ send_task \in Alive /\ t <= send_task /\ t \in Turns /\ t # 0 /\ UnderWay(t)
      /\ send_task # 0 /\ UnderWay(send_task)
  BY <1>1 DEF Queue, Alive, Turns, TurnType
<1>3. PICK S \in SUBSET Turns :
        /\ \A u \in S : task[u] = "queued" /\ waits_for[u] # 0 /\ UnderWay(waits_for[u]) => waits_for[u] \in S
        /\ send_task \in S /\ t \notin S
  BY <1>2 DEF Owned
<1> DEFINE T == {s \in S : s \in Alive /\ t < s}
<1>4. send_task \in T /\ T \in SUBSET Nat
  <2>1. t # send_task /\ t \in Nat /\ send_task \in Nat
    BY <1>1, <1>2, <1>3 DEF Alive, TurnType
  <2>2. t < send_task
    BY <1>2, <2>1
  <2>3. \A s \in S : s \in Nat
    BY DEF Turns
  <2> QED
    BY <1>2, <1>3, <2>2, <2>3
<1>5. PICK v \in T : \A s \in T : v <= s
  BY <1>4, LeastNumber
<1>6. /\ v \in S /\ v \in Alive /\ t < v /\ v \in Turns /\ task[v] = "queued"
      /\ waits_for[v] \in Alive /\ t <= waits_for[v]
  BY <1>5 DEF Queue
<1>7. waits_for[v] < v /\ waits_for[v] # 0 /\ UnderWay(waits_for[v]) /\ waits_for[v] \in Nat /\ v \in Nat
  BY <1>1, <1>6 DEF TurnType, Alive, Turns
<1>8. waits_for[v] \in S
  BY <1>3, <1>6, <1>7
<1>9. waits_for[v] \in T
  BY <1>1, <1>3, <1>6, <1>7, <1>8 DEF Alive
<1> QED
  BY <1>5, <1>7, <1>9

LEMMA OwnedStopped ==
  ASSUME Typed, Stops
  PROVE  Owned(cancel_task) \subseteq stopped
<1>1. stopped \in SUBSET Turns
  BY DEF Typed, TurnType, Turns
<1> QED
  BY <1>1 DEF Owned, Stops

\* The step that ends the queue: every turn in it is stopped or dropped.
Emptied(D, C) ==
  /\ send_task' = 0 /\ UNCHANGED <<turns, waits_for, prompt>>
  /\ \A u \in Turns : IF u \in D THEN task'[u] = "dropped" ELSE task'[u] = task[u]
  /\ stopped' = stopped \cup C
  /\ cancel_task' = cancel_task \/ (cancel_task' = send_task /\ C = Owned(send_task))
  /\ \A u \in Turns : PositionOf(u)' \subseteq PositionOf(u)
  /\ Owned(send_task) \subseteq C \cup D /\ C \in {{}, Owned(send_task)}

LEMMA EmptiedOrder ==
  ASSUME Typed, Order, NEW D, NEW C, Emptied(D, C)
  PROVE  Order'
<1>1. TurnType /\ send_task \in 0..turns /\ cancel_task \in 0..turns /\ turns \in Nat
  BY DEF Typed, TurnType
<1>2. /\ turns' = turns /\ send_task' = 0 /\ stopped \subseteq stopped' /\ stopped' \subseteq 1..turns
  BY <1>1, OwnedTurns DEF Emptied, TurnType
<1>3. ASSUME NEW u \in 1..turns, task'[u] \notin Ended PROVE UnderWay(u) /\ u \notin D /\ task'[u] = task[u]
  BY <1>1, <1>3 DEF Emptied, UnderWay, Ended, TurnType, Turns
<1>4. Alive' = {}
  <2> SUFFICES ASSUME NEW t \in 1..turns, task'[t] \notin Ended, t \notin stopped' PROVE FALSE
    BY <1>2 DEF Alive, UnderWay
  <2>1. t \in Alive
    BY <1>2, <1>3 DEF Alive
  <2>2. t \in C \/ t \in D
    BY <2>1, OwnedAlive DEF Order, Emptied
  <2> QED
    BY <1>3, <2>2 DEF Emptied
<1>5. ASSUME NEW v \in stopped', task'[v] = "queued", waits_for'[v] # 0, task'[waits_for'[v]] \notin Ended
      PROVE  waits_for'[v] \in stopped'
  <2>1. v \in 1..turns /\ v \in Turns /\ waits_for' = waits_for
    BY <1>1, <1>2 DEF Emptied, TurnType, Turns
  <2>2. waits_for[v] \in 1..turns
    BY <1>1, <1>5, <2>1 DEF TurnType, Turns
  <2>3. UnderWay(waits_for[v]) /\ task[v] = "queued"
    BY <1>3, <1>5, <2>1, <2>2 DEF Emptied
  <2>4. v \in stopped \/ v \in Owned(send_task)
    BY <1>5 DEF Emptied
  <2>5. CASE v \in stopped
    BY <1>2, <1>5, <2>1, <2>3, <2>5 DEF Order, Stops
  <2>6. CASE v \notin stopped
    BY <1>1, <1>5, <2>1, <2>3, <2>4, <2>6, OwnedFacts DEF Emptied
  <2> QED
    BY <2>5, <2>6
<1>6. ASSUME cancel_task' # 0, task'[cancel_task'] \notin Ended PROVE cancel_task' \in stopped'
  <2>1. cancel_task' \in 1..turns
    BY <1>1, <1>6 DEF Emptied
  <2>2. UnderWay(cancel_task')
    BY <1>3, <1>6, <2>1
  <2>3. CASE cancel_task' = send_task /\ C = Owned(send_task)
    BY <1>1, <1>6, <2>2, <2>3, OwnedFacts DEF Emptied
  <2>4. CASE cancel_task' = cancel_task
    BY <1>2, <1>6, <2>2, <2>4 DEF Order, Stops
  <2> QED
    BY <2>3, <2>4 DEF Emptied
<1>7. Later'
  BY <1>2, <1>4 DEF Order, Later, Emptied
<1> QED
  BY <1>2, <1>4, <1>5, <1>6, <1>7 DEF Order, Queue, Stops, UnderWay

\* A send task goes on: it awaits no other.
Advances(t) ==
  /\ UNCHANGED <<turns, waits_for, send_task, cancel_task, stopped>>
  /\ t \in 1..turns /\ UnderWay(t)
  /\ task[t] = "queued" => waits_for[t] = 0 \/ ~UnderWay(waits_for[t])
  /\ task'[t] \in {"checkpoint", "prompting", "done"}
  /\ \A u \in Turns \ {t} :
       task'[u] = task[u] /\ prompt'[u] = prompt[u] /\ PositionOf(u)' \subseteq PositionOf(u)
  /\ prompt'[t] \in {prompt[t], started + 1}

LEMMA AdvancesFirst ==
  ASSUME Typed, Order, NEW t, Advances(t)
  PROVE  \A s \in Alive : ~(s < t)
<1> SUFFICES ASSUME NEW s \in Alive, s < t PROVE FALSE
  OBVIOUS
<1>1. CASE t \in stopped
  <2>1. t < s
    BY <1>1 DEF Order, Stops
  <2> QED
    BY <2>1 DEF Typed, TurnType, Alive, Advances
<1>2. CASE t \notin stopped
  <2>1. t \in Alive
    BY <1>2 DEF Alive, Advances
  <2>2. task[t] = "queued" /\ waits_for[t] \in Alive
    BY <2>1 DEF Order, Queue
  <2>3. UnderWay(waits_for[t]) /\ waits_for[t] # 0
    BY <2>2 DEF Alive
  <2> QED
    BY <2>2, <2>3 DEF Advances
<1> QED
  BY <1>1, <1>2

LEMMA AdvancesOrder ==
  ASSUME Typed, Order, NEW t, Advances(t)
  PROVE  Order'
<1>1. /\ TurnType /\ turns \in Nat /\ t \in 1..turns /\ t \in Turns /\ 1..turns \subseteq Turns
      /\ turns' = turns /\ waits_for' = waits_for /\ send_task' = send_task
      /\ cancel_task' = cancel_task /\ stopped' = stopped
  BY DEF Typed, TurnType, Advances, Turns
<1>2. \A u \in Turns : UnderWay(u)' => UnderWay(u)
  BY DEF Advances, UnderWay
<1>3. Alive' \subseteq Alive /\ Alive \ {t} \subseteq Alive'
  BY <1>1, <1>2 DEF Alive, UnderWay, Advances
<1>4. ASSUME NEW a \in Alive', NEW w \in Alive, a <= w
      PROVE  w \in Alive'
  <2>1. w # t => w \in Alive'
    BY <1>3
  <2>2. w = t => a = t
    BY <1>1, <1>3, <1>4, AdvancesFirst DEF Alive
  <2> QED
    BY <2>1, <2>2
<1>5. Queue'
  <2>1. ASSUME NEW a \in Alive', NEW v \in Alive', a < v
        PROVE  task'[v] = "queued" /\ waits_for'[v] \in Alive' /\ a <= waits_for'[v]
    <3>1. v # t /\ v \in Turns
      BY <1>1, <1>3, <2>1, AdvancesFirst DEF Alive
    <3>2. task'[v] = task[v]
      BY <3>1 DEF Advances
    <3>3. task[v] = "queued" /\ waits_for[v] \in Alive /\ a <= waits_for[v]
      BY <1>3, <2>1 DEF Order, Queue
    <3> QED
      BY <1>1, <1>4, <3>2, <3>3
  <2>2. ASSUME NEW a \in Alive' PROVE send_task' \in Alive' /\ a <= send_task'
    BY <1>1, <1>3, <1>4 DEF Order, Queue
  <2> QED
    BY <1>1, <2>1, <2>2 DEF Order, Queue
<1>6. Stops'
  <2>1. ASSUME NEW v \in stopped, task'[v] = "queued", waits_for[v] # 0, task'[waits_for[v]] \notin Ended
        PROVE  waits_for[v] \in stopped
    <3>1. v \in Turns /\ v # t /\ waits_for[v] \in Turns
      BY <1>1, <2>1 DEF TurnType, Turns, Advances
    <3>2. task[v] = "queued" /\ UnderWay(waits_for[v])
      BY <1>2, <2>1, <3>1 DEF Advances, UnderWay
    <3> QED
      BY <2>1, <3>2 DEF Order, Stops
  <2>2. cancel_task # 0 /\ task'[cancel_task] \notin Ended => cancel_task \in stopped
    BY <1>1, <1>2 DEF Order, Stops, TurnType, UnderWay
  <2>3. \A a \in Alive', u \in stopped : u < a
    BY <1>3 DEF Order, Stops
  <2> QED
    BY <1>1, <2>1, <2>2, <2>3 DEF Stops, UnderWay
<1>7. ASSUME NEW a \in Alive', NEW u \in Turns, a < u
      PROVE  prompt'[u] = 0 /\ PositionOf(u)' = {}
  <2>1. a \in Alive /\ u # t
    BY <1>3, <1>7, AdvancesFirst
  <2> QED
    BY <1>7, <2>1 DEF Order, Later, Advances
<1>8. ASSUME NEW a \in Turns, NEW u \in Turns, a < u, a \notin stopped, prompt'[a] # 0, prompt'[u] # 0
      PROVE  prompt'[a] < prompt'[u]
  <2>1. prompt[a] <= started /\ started \in Nat
    BY DEF Typed, Phase, ConnType
  <2>2. prompt'[u] = prompt[u] \/ (u = t /\ prompt'[u] = started + 1)
    BY DEF Advances
  <2>3. CASE prompt'[a] = prompt[a]
    BY <1>1, <1>8, <2>1, <2>2, <2>3 DEF Order, Later, TurnType
  <2>4. CASE prompt'[a] # prompt[a]
    <3>1. a = t /\ a \in Alive
      BY <1>1, <1>8, <2>4 DEF Advances, Alive
    <3>2. prompt[u] = 0 /\ u # t
      BY <1>8, <3>1 DEF Order, Later, Turns
    <3> QED
      BY <1>8, <2>2, <3>2
  <2> QED
    BY <2>3, <2>4
<1> QED
  BY <1>1, <1>5, <1>6, <1>7, <1>8 DEF Order, Later

LEMMA StillOrder ==
  ASSUME Order, UNCHANGED <<turns, waits_for, task, prompt, send_task, cancel_task, stopped>>,
         \A u \in Turns : PositionOf(u)' \subseteq PositionOf(u)
  PROVE  Order'
<1>1. Alive' = Alive
  BY DEF Alive, UnderWay
<1>2. Queue' /\ Stops'
  BY <1>1 DEF Order, Queue, Stops, UnderWay
<1> QED
  BY <1>1, <1>2 DEF Order, Later

LEMMA BegunOrder ==
  ASSUME Typed, Order, NEW how \in {"send", "resume"}, run_turn(how),
         \A u \in Turns : PositionOf(u)' \subseteq PositionOf(u)
  PROVE  Order'
<1> DEFINE n == turns + 1
<1>1. /\ TurnType /\ turns \in Nat /\ n \in Turns /\ 1..turns \subseteq Turns
      /\ send_task \in 0..turns
  BY DEF Typed, TurnType, run_turn, Turns
<1>2. /\ turns' = n /\ waits_for'[n] = send_task /\ send_task' = n /\ task'[n] = "queued"
      /\ \A u \in 1..turns : task'[u] = task[u] /\ waits_for'[u] = waits_for[u]
      /\ prompt' = prompt /\ stopped' = stopped /\ cancel_task' = cancel_task
  BY <1>1 DEF run_turn, TurnType, auxVars
<1>3. n \notin stopped /\ n > turns /\ n \in Nat
  BY <1>1 DEF TurnType
<1>4. 1..n = 1..turns \cup {n}
  BY <1>1
<1> HIDE DEF n
<1>5. Alive' = Alive \cup {n} /\ Alive \subseteq 1..turns
  BY <1>1, <1>2, <1>3, <1>4 DEF Alive, UnderWay, Ended
<1>6. Queue'
  <2>1. ASSUME NEW a \in Alive', NEW v \in Alive', a < v
        PROVE  task'[v] = "queued" /\ waits_for'[v] \in Alive' /\ a <= waits_for'[v]
    <3>1. a \in Alive
      BY <1>1, <1>3, <1>5, <2>1
    <3>2. CASE v = n
      BY <1>2, <1>5, <3>1, <3>2 DEF Order, Queue
    <3>3. CASE v \in Alive
      BY <1>2, <1>5, <2>1, <3>1, <3>3 DEF Order, Queue
    <3> QED
      BY <1>5, <3>2, <3>3
  <2>2. \A a \in Alive' : send_task' \in Alive' /\ a <= send_task'
    BY <1>1, <1>2, <1>3, <1>5
  <2> QED
    BY <1>2, <2>1, <2>2 DEF Queue
<1>7. Stops'
  <2>1. ASSUME NEW v \in stopped, task'[v] = "queued", waits_for'[v] # 0, task'[waits_for'[v]] \notin Ended
        PROVE  waits_for'[v] \in stopped
    <3>1. v \in 1..turns /\ task[v] = "queued" /\ waits_for'[v] = waits_for[v] /\ waits_for[v] # 0
      BY <1>1, <1>2, <2>1 DEF TurnType
    <3>2. waits_for[v] \in 1..turns
      BY <1>1, <3>1 DEF TurnType, Turns
    <3> QED
      BY <1>2, <2>1, <3>1, <3>2 DEF Order, Stops, UnderWay
  <2>2. cancel_task # 0 /\ task'[cancel_task] \notin Ended => cancel_task \in stopped
    <3>1. cancel_task # 0 => cancel_task \in 1..turns
      BY <1>1 DEF TurnType
    <3> QED
      BY <1>2, <3>1 DEF Order, Stops, UnderWay
  <2>3. \A u \in stopped : u < n
    BY <1>1, <1>3 DEF TurnType
  <2>4. \A a \in Alive', u \in stopped : u < a
    BY <1>5, <2>3 DEF Order, Stops
  <2> QED
    BY <1>2, <2>1, <2>2, <2>4 DEF Stops, UnderWay
<1>8. ASSUME NEW a \in Alive', NEW u \in Turns, a < u
      PROVE  prompt'[u] = 0 /\ PositionOf(u)' = {}
  <2>1. CASE a \in Alive
    BY <1>2, <1>8, <2>1 DEF Order, Later
  <2>2. CASE a = n
    <3>1. u > turns
      BY <1>1, <1>3, <1>8, <2>2 DEF Turns
    <3>2. prompt[u] = 0
      BY <1>8, <3>1 DEF Typed, Phase
    <3>3. PositionOf(u) = {}
      <4>1. \A ix \in DOMAIN entries : entries[ix] \in Entries(turns)
        BY DEF Typed
      <4>2. \A e \in Entries(turns) : e.turn \in 1..turns
        BY DEF Entries, UserMessages, ToolCalls
      <4> QED
        BY <1>1, <3>1, <4>1, <4>2 DEF PositionOf
    <3> QED
      BY <1>2, <3>2, <3>3
  <2> QED
    BY <1>5, <2>1, <2>2
<1>9. \A a, u \in Turns : a < u /\ a \notin stopped' /\ prompt'[a] # 0 /\ prompt'[u] # 0 => prompt'[a] < prompt'[u]
  BY <1>2 DEF Order, Later
<1> QED
  BY <1>6, <1>7, <1>8, <1>9 DEF Order, Later

LEMMA StopsOrder ==
  ASSUME Typed, Order, SameMessages, cancel_generation \/ stop_current_and_send_new_message
  PROVE  Order'
<1>1. /\ send_task' = 0 /\ UNCHANGED <<turns, waits_for, prompt>>
      /\ stopped' = stopped \cup Owned(send_task)
  BY DEF cancel_generation, stop_current_and_send_new_message, turnVars
<1>2. ASSUME cancel_generation PROVE Emptied(Owned(cancel_task), Owned(send_task))
  <2>1. \A u \in Turns : IF u \in Owned(cancel_task) THEN task'[u] = "dropped" ELSE task'[u] = task[u]
    BY <1>2 DEF cancel_generation, Dropped
  <2> QED
    BY <1>1, <1>2, <2>1 DEF Emptied, SameMessages, cancel_generation
<1>3. ASSUME stop_current_and_send_new_message PROVE Emptied({}, Owned(send_task))
  BY <1>1, <1>3 DEF Emptied, SameMessages, stop_current_and_send_new_message
<1> QED
  BY <1>2, <1>3, EmptiedOrder

LEMMA SendTaskOrder ==
  ASSUME Typed, Order, NEW t \in Turns, SendTask(t), SameMessages \/ PushUserMessage(t)
  PROVE  Order'
<1>0. /\ TurnType /\ ConnType /\ turns \in Nat /\ entries \in Seq(Entries(turns)) /\ Phase(t)
  BY DEF Typed, TurnType
<1>1. t \in 1..turns /\ UnderWay(t)
  BY <1>0 DEF SendTask, PushUserMessage, ResumeConnection, CheckpointTaken, ResponseArrives, Ready,
              Phase, Ended, UnderWay, Turns
<1>2. UNCHANGED <<turns, waits_for, send_task, cancel_task, stopped>>
  BY DEF SendTask, PushUserMessage, ResumeConnection, CheckpointTaken, ResponseArrives,
         turnVars, threadVars, auxVars
<1>3. task[t] = "queued" => waits_for[t] = 0 \/ ~UnderWay(waits_for[t])
  BY DEF SendTask, PushUserMessage, ResumeConnection, CheckpointTaken, ResponseArrives, Ready,
         UnderWay
<1>4. \A u \in Turns \ {t} : PositionOf(u)' \subseteq PositionOf(u)
  <2>1. CASE PushUserMessage(t)
    <3>1. UserMessage(t) \in Entries(turns)
      BY <1>0, <1>1, NewEntries DEF Statuses
    <3> QED
      BY <1>0, <2>1, <3>1, MessagesPushed DEF PushUserMessage
  <2> QED
    BY <2>1 DEF SameMessages
<1>5. /\ task'[t] \in {"checkpoint", "prompting", "done"} /\ prompt'[t] \in {prompt[t], started + 1}
      /\ \A u \in Turns \ {t} : task'[u] = task[u] /\ prompt'[u] = prompt[u]
  <2>1. CASE PushUserMessage(t)
    BY <1>0, <2>1 DEF PushUserMessage, agentVars, TurnType
  <2>2. CASE ResponseArrives(t)
    BY <1>0, <2>2 DEF ResponseArrives, TurnType
  <2>3. CASE ResumeConnection(t) \/ CheckpointTaken(t)
    BY <2>3, PromptsType DEF ResumeConnection, CheckpointTaken, Ready
  <2> QED
    BY <2>1, <2>2, <2>3 DEF SendTask
<1>6. Advances(t)
  BY <1>1, <1>2, <1>3, <1>4, <1>5 DEF Advances
<1> QED
  BY <1>6, AdvancesOrder

LEMMA CompletionTaskOrder ==
  ASSUME Typed, Order, NEW t \in Turns, CompletionTask(t), FewerMessages
  PROVE  Order'
<1>1. CASE Finished(t)
  <2>1. UNCHANGED <<turns, waits_for, prompt, stopped, cancel_task>>
    BY <1>1 DEF Finished, turnVars
  <2>2. CASE send_task' = 0 /\ Dropped(Owned(send_task))
    <3>1. \A u \in Turns : IF u \in Owned(send_task) THEN task'[u] = "dropped" ELSE task'[u] = task[u]
      BY <2>2 DEF Dropped
    <3>2. Emptied(Owned(send_task), {})
      BY <2>1, <2>2, <3>1 DEF Emptied, FewerMessages
    <3> QED
      BY <3>2, EmptiedOrder
  <2>3. CASE UNCHANGED <<send_task, task>>
    BY <2>1, <2>3, StillOrder DEF FewerMessages
  <2> QED
    BY <1>1, <2>2, <2>3 DEF Finished
<1>2. CASE UNCHANGED <<threadVars, turnVars, task, cancel_task, agentVars, auxVars>>
  BY <1>2, StillOrder DEF FewerMessages, threadVars, turnVars, agentVars, auxVars
<1> QED
  BY <1>1, <1>2 DEF CompletionTask, ResponseReceived, update_last_checkpoint, CheckpointUpdated

LEMMA OrderStep ==
  ASSUME Typed, Order, [Next]_vars
  PROVE  Order'
<1>0. SameMessages => FewerMessages
  BY DEF SameMessages, FewerMessages
<1>1. ASSUME SameMessages \/ FewerMessages,
             UNCHANGED <<send_task, turnVars, task, cancel_task, prompt, stopped>>
      PROVE  Order'
  BY <1>0, <1>1, StillOrder DEF FewerMessages, turnVars
<1>2. ASSUME NEW t \in Turns, PushUserMessage(t) PROVE Order'
  BY <1>2, SendTaskOrder DEF SendTask
<1>3. ASSUME NEW m \in Turns, rewind(m), FewerMessages PROVE Order'
  BY <1>1, <1>3 DEF rewind
<1>4. ASSUME NEW t \in Turns, CompletionTask(t), FewerMessages PROVE Order'
  BY <1>4, CompletionTaskOrder
<1>5. ASSUME SameMessages PROVE Order'
  <2>1. CASE send \/ resume
    BY <1>5, <2>1, BegunOrder DEF send, resume, SameMessages
  <2>2. CASE cancel_generation \/ stop_current_and_send_new_message
    BY <1>5, <2>2, StopsOrder
  <2>3. ASSUME NEW m \in Turns, rewind(m) PROVE Order'
    BY <1>0, <1>3, <1>5, <2>3
  <2>4. ASSUME NEW ix \in DOMAIN entries, NEW allow \in BOOLEAN, authorize_tool_call(ix, allow)
        PROVE  Order'
    BY <1>1, <1>5, <2>4 DEF authorize_tool_call, agentVars, auxVars
  <2>5. CASE Finishes \/ UNCHANGED vars
    BY <1>1, <1>5, <2>5 DEF Finishes, AgentFinishes, vars, threadVars, auxVars, agentVars
  <2>6. ASSUME NEW t \in Turns, SendTask(t) \/ CompletionTask(t) PROVE Order'
    BY <1>0, <1>5, <2>6, SendTaskOrder, CompletionTaskOrder
  <2>7. ASSUME NEW t \in Turns, NEW id \in ToolIds, ToolEvent(t, id) PROVE Order'
    <3>1. UNCHANGED <<send_task, turnVars, task, cancel_task, prompt, stopped>>
      BY <2>7 DEF ToolEvent, upsert_tool_call, request_tool_call_authorization, update_tool_call,
                  Reported, auxVars
    <3> QED
      BY <1>1, <1>5, <3>1
  <2> QED
    BY <2>1, <2>2, <2>3, <2>4, <2>5, <2>6, <2>7 DEF Next, User
<1> QED
  BY <1>2, <1>3, <1>4, <1>5, Messages

LEMMA OrderInit ==
  ASSUME Init
  PROVE  Order
<1>1. Alive = {}
  BY DEF Init, Alive
<1> QED
  BY <1>1 DEF Init, Order, Queue, Stops, Later, Turns

LEMMA OrderFinishesFirst ==
  ASSUME Typed, Order
  PROVE  OvertakenTurnsFinishFirst
<1> SUFFICES ASSUME NEW t \in Turns, NEW u \in Turns, t < u, t \notin stopped
             PROVE  /\ ~(Active(t) /\ Active(u))
                    /\ prompt[t] # 0 /\ prompt[u] # 0 => prompt[t] < prompt[u]
  BY DEF OvertakenTurnsFinishFirst
<1>1. ASSUME NEW v \in Turns, Active(v) PROVE v \in 1..turns /\ UnderWay(v) /\ task[v] # "queued"
  BY <1>1 DEF Typed, TurnType, Phase, Active, UnderWay, Ended, Turns
<1>2. ASSUME Active(t), Active(u) PROVE FALSE
  <2>1. t \in Alive
    BY <1>1, <1>2 DEF Alive
  <2>2. u \in stopped => u < t
    BY <2>1 DEF Order, Stops
  <2>3. u \notin stopped
    BY <2>2 DEF Turns
  <2>4. u \in Alive
    BY <1>1, <1>2, <2>3 DEF Alive
  <2> QED
    BY <1>1, <1>2, <2>1, <2>4 DEF Order, Queue
<1> QED
  BY <1>2 DEF Order, Later

\* A turn that is overtaken finishes first, unless the user stopped it by hand:
\* two turns are never past their waiting together, and the agent is prompted in
\* the order of the calls (run_turn, cancel, AcpThreadView::cancel_generation).
THEOREM OvertakenTurnsAlwaysFinishFirst == Spec => []OvertakenTurnsFinishFirst
<1>1. Init => Typed /\ Order
  BY TypedInit, OrderInit
<1>2. Typed /\ Order /\ [Next]_vars => (Typed /\ Order)'
  BY TypedStep, OrderStep
<1>3. Typed /\ Order => OvertakenTurnsFinishFirst
  BY OrderFinishesFirst
<1> QED
  BY <1>1, <1>2, <1>3, PTL DEF Spec

----------------------------------------------------------------------------
(* The thread stops generating. *)

\* Turn w is on its way to taking send_task: it will prompt, or its prompt or
\* its completion task will end with an outcome other than Cancelled.
WillTake(w) ==
  \/ task[w] \in {"queued", "checkpoint"}
  \/ task[w] = "prompting" /\ outcome[prompt[w]] # "Cancelled"
  \/ /\ response[w] \notin {"none", "Cancelled"}
     /\ completion[w] \in {"waiting", "compared"} \/ (completion[w] = "checkpoint" /\ HasCheckpoint)

\* Some turn is, unless messages were taken away from the one that is there.
Watched == send_task # 0 /\ send_task \notin cut => \E w \in 1..turns : WillTake(w)

\* A turn that finished and is still there was cancelled.
LeftCancelled ==
  send_task # 0 /\ completion[send_task] \in {"stopped", "error"} => response[send_task] = "Cancelled"

\* A step that leaves the turn of send_task there, and nothing cut.
LEMMA WillTakeKept ==
  ASSUME Typed, NEW w \in 1..turns, WillTake(w),
         UNCHANGED <<task, response, completion, prompt>>, SameCheckpoint,
         UNCHANGED outcome \/ Finishes
  PROVE  WillTake(w)'
<1>1. TurnType /\ ConnType
  BY DEF Typed
<1>2. ASSUME Finishes, task[w] = "prompting", outcome[prompt[w]] # "Cancelled"
      PROVE  outcome'[prompt[w]] # "Cancelled"
  <2>1. PICK reason \in Reasons : outcome' = [outcome EXCEPT ![current] = reason]
    BY <1>2 DEF Finishes, AgentFinishes, Connection!Finish
  <2>2. reason # "Cancelled"
    OBVIOUS
  <2>3. prompt[w] \in Turns
    BY <1>1, <1>2 DEF Typed, TurnType, Phase, Turns
  <2> QED
    BY <1>1, <1>2, <2>1, <2>2, <2>3 DEF ConnType
<1> QED
  BY <1>2 DEF WillTake, SameCheckpoint

LEMMA SendTaskWatched ==
  ASSUME Typed, NEW t \in Turns, SendTask(t), NEW w \in 1..turns, WillTake(w)
  PROVE  \E v \in 1..turns : WillTake(v)'
<1>0. TurnType /\ ConnType /\ Phase(t) /\ turns \in Nat /\ started \in Nat /\ 1..turns \subseteq Turns
  BY DEF Typed, TurnType, ConnType, Turns
<1>1. t \in 1..turns
  BY <1>0 DEF SendTask, PushUserMessage, ResumeConnection, CheckpointTaken, ResponseArrives, Ready,
              Phase, Turns
<1>2. CASE PushUserMessage(t)
  BY <1>0, <1>1, <1>2 DEF PushUserMessage, TurnType, WillTake
<1>3. CASE ResumeConnection(t) \/ CheckpointTaken(t)
  <2>1. task[t] \in {"queued", "checkpoint"} /\ Prompts(t) /\ completion' = completion
    BY <1>3 DEF ResumeConnection, CheckpointTaken, Ready
  <2>2. CASE /\ Connection!Start
             /\ prompt' = [prompt EXCEPT ![t] = started + 1]
             /\ task' = [task EXCEPT ![t] = "prompting"]
    <3>1. outcome' = Connection!Interrupted /\ started < MaxTurns
      BY <2>2 DEF Connection!Start
    <3>2. outcome'[started + 1] = "none"
      BY <1>0, <3>1 DEF Connection!Interrupted, ConnType, Turns
    <3>3. task'[t] = "prompting" /\ prompt'[t] = started + 1
      BY <1>0, <2>2 DEF TurnType
    <3> QED
      BY <1>1, <3>2, <3>3 DEF WillTake
  <2>3. CASE response' = [response EXCEPT ![t] = "Error"]
    <3>1. completion[t] = "waiting"
      BY <1>0, <1>1, <2>1 DEF Phase, Ended
    <3> QED
      BY <1>0, <1>1, <2>1, <2>3, <3>1 DEF TurnType, WillTake
  <2> QED
    BY <2>1, <2>2, <2>3 DEF Prompts
<1>4. CASE ResponseArrives(t)
  <2>1. /\ entries' = entries /\ outcome' = outcome /\ prompt' = prompt /\ completion' = completion
        /\ outcome[prompt[t]] # "none" /\ task[t] = "prompting"
        /\ response'[t] = outcome[prompt[t]]
        /\ \A u \in Turns \ {t} : task'[u] = task[u] /\ response'[u] = response[u]
    BY <1>0, <1>4 DEF ResponseArrives, TurnType, threadVars, connVars
  <2>2. HasCheckpoint' = HasCheckpoint
    BY <2>1 DEF HasCheckpoint, LastUserMessage, IsUser
  <2>3. CASE w = t
    <3>1. completion[t] = "waiting" /\ response[t] = "none"
      BY <1>0, <1>1, <2>1 DEF Phase, Ended
    <3>2. outcome[prompt[t]] # "Cancelled"
      BY <2>1, <2>3, <3>1 DEF WillTake
    <3> QED
      BY <1>1, <2>1, <3>1, <3>2 DEF WillTake
  <2>4. CASE w # t
    BY <1>0, <2>1, <2>2, <2>4 DEF WillTake
  <2> QED
    BY <2>3, <2>4
<1> QED
  BY <1>2, <1>3, <1>4 DEF SendTask

LEMMA CompletionTaskWatched ==
  ASSUME Typed, NEW t \in Turns, CompletionTask(t), NEW w \in 1..turns, WillTake(w)
  PROVE  \/ send_task' = 0
         \/ WillTake(w)' /\ UNCHANGED <<send_task, cut>>
<1>0. TurnType /\ ConnType /\ Phase(t) /\ 1..turns \subseteq Turns
  <2>1. turns \in 0..MaxTurns
    BY DEF Typed, TurnType
  <2> QED
    BY <2>1 DEF Typed, Turns
<1>1. CASE Finished(t) /\ send_task' # 0
  <2>1. /\ response[t] = "Cancelled" /\ UNCHANGED <<send_task, task, response, entries, cut, outcome, prompt>>
        /\ \A u \in Turns \ {t} : completion'[u] = completion[u]
    BY <1>0, <1>1 DEF Finished, TakesSendTask, connVars, TurnType
  <2>2. HasCheckpoint' = HasCheckpoint
    BY <2>1 DEF HasCheckpoint, LastUserMessage, IsUser
  <2>3. w # t
    BY <1>0, <2>1 DEF WillTake, Phase, Ended
  <2> QED
    BY <1>0, <2>1, <2>2, <2>3 DEF WillTake
<1>2. ASSUME NEW c \in {"checkpoint", "compared", "aborted"},
             completion' = [completion EXCEPT ![t] = c],
             c = "checkpoint" => HasCheckpoint,
             c = "aborted" => completion[t] = "checkpoint" /\ ~HasCheckpoint,
             response[t] # "none",
             UNCHANGED <<threadVars, task, response, agentVars, auxVars>>
      PROVE  WillTake(w)' /\ UNCHANGED <<send_task, cut>>
  <2>1. /\ UNCHANGED <<entries, send_task, task, response, outcome, prompt, cut>> /\ completion'[t] = c
        /\ \A u \in Turns \ {t} : completion'[u] = completion[u]
    BY <1>0, <1>2 DEF threadVars, agentVars, connVars, auxVars, TurnType
  <2>2. HasCheckpoint' = HasCheckpoint
    BY <2>1 DEF HasCheckpoint, LastUserMessage, IsUser
  <2>3. CASE w = t
    BY <1>0, <1>2, <2>1, <2>2, <2>3 DEF WillTake, Phase, Ended
  <2>4. CASE w # t
    BY <1>0, <2>1, <2>2, <2>4 DEF WillTake
  <2> QED
    BY <2>1, <2>3, <2>4
<1>3. CASE ResponseReceived(t)
  BY <1>1, <1>2, <1>3 DEF ResponseReceived
<1>4. CASE update_last_checkpoint(t)
  <2>1. response[t] # "none" /\ completion[t] = "checkpoint"
    BY <1>0, <1>4 DEF update_last_checkpoint, Phase
  <2> QED
    BY <1>2, <1>4, <2>1 DEF update_last_checkpoint
<1>5. CASE CheckpointUpdated(t)
  BY <1>1, <1>5 DEF CheckpointUpdated
<1> QED
  BY <1>3, <1>4, <1>5 DEF CompletionTask

LEMMA WatchedStep ==
  ASSUME Typed, Watched, [Next]_vars
  PROVE  Watched'
<1> SUFFICES ASSUME send_task' # 0, send_task' \notin cut'
             PROVE  \E w \in 1..turns' : WillTake(w)'
  BY DEF Watched
<1>0. TurnType /\ turns \in Nat
  BY DEF Typed, TurnType
<1>1. CASE send \/ resume
  <2>1. task'[turns + 1] = "queued" /\ turns' = turns + 1
    BY <1>0, <1>1 DEF send, resume, run_turn, TurnType, Turns
  <2> QED
    BY <1>0, <2>1 DEF WillTake
<1>2. CASE cancel_generation \/ stop_current_and_send_new_message
  BY <1>2 DEF cancel_generation, stop_current_and_send_new_message
<1>3. ASSUME NEW m \in Turns, rewind(m) PROVE FALSE
  BY <1>3 DEF rewind
<1>4. ASSUME NEW ix \in DOMAIN entries, NEW allow \in BOOLEAN, authorize_tool_call(ix, allow)
      PROVE  \E w \in 1..turns' : WillTake(w)'
  <2>1. UNCHANGED <<turns, send_task, cut, task, response, completion, prompt, outcome>>
    BY <1>4 DEF authorize_tool_call, turnVars, agentVars, connVars, auxVars
  <2> QED
    BY <1>4, <2>1, AuthorizeMessages, WillTakeKept DEF Watched
<1>5. CASE Finishes \/ UNCHANGED vars
  <2>1. UNCHANGED <<turns, send_task, cut, task, response, completion, prompt, entries>>
    BY <1>5 DEF Finishes, AgentFinishes, vars, threadVars, turnVars, agentVars, auxVars
  <2>2. SameCheckpoint
    BY <2>1 DEF SameCheckpoint, HasCheckpoint, LastUserMessage, IsUser
  <2>3. UNCHANGED outcome \/ Finishes
    BY <1>5 DEF vars, agentVars, connVars
  <2> QED
    BY <2>1, <2>2, <2>3, WillTakeKept DEF Watched
<1>6. ASSUME NEW t \in Turns, SendTask(t) PROVE \E w \in 1..turns' : WillTake(w)'
  <2>1. UNCHANGED <<turns, send_task, cut>>
    BY <1>6 DEF SendTask, PushUserMessage, ResumeConnection, CheckpointTaken, ResponseArrives,
                turnVars, threadVars, auxVars
  <2>2. PICK w \in 1..turns : WillTake(w)
    BY <2>1 DEF Watched
  <2> QED
    BY <1>6, <2>1, <2>2, SendTaskWatched
<1>7. ASSUME NEW t \in Turns, CompletionTask(t) PROVE \E w \in 1..turns' : WillTake(w)'
  <2>1. send_task # 0 /\ send_task \notin cut /\ turns' = turns
    BY <1>7 DEF CompletionTask, ResponseReceived, update_last_checkpoint, CheckpointUpdated, Finished,
                turnVars, threadVars, auxVars, TakesSendTask
  <2>2. PICK w \in 1..turns : WillTake(w)
    BY <2>1 DEF Watched
  <2> QED
    BY <1>7, <2>1, <2>2, CompletionTaskWatched
<1>8. ASSUME NEW t \in Turns, NEW id \in ToolIds, ToolEvent(t, id)
      PROVE  \E w \in 1..turns' : WillTake(w)'
  <2>1. UNCHANGED <<turns, send_task, cut, task, response, completion, prompt, outcome>>
    BY <1>8 DEF ToolEvent, upsert_tool_call, request_tool_call_authorization, update_tool_call,
                Reported, turnVars, connVars, auxVars
  <2> QED
    BY <1>8, <2>1, ToolEventMessages, WillTakeKept DEF Watched
<1> QED
  BY <1>1, <1>2, <1>3, <1>4, <1>5, <1>6, <1>7, <1>8 DEF Next, User

\* A completion task comes to its end in a step of its own, which may finish
\* the turn, take its send task and handle a refusal.
LEMMA Completes ==
  ASSUME Typed, [Next]_vars, NEW t \in Turns, completion'[t] # completion[t], completion'[t] \in Over
  PROVE  /\ CompletionTask(t) /\ completion[t] \notin {"none"} \cup Over
         /\ Finished(t) \/ (completion'[t] = "aborted" /\ UNCHANGED <<entries, send_task>>)
<1>0. TurnType
  BY DEF Typed
<1>1. ~(send \/ resume)
  BY <1>0 DEF send, resume, run_turn, TurnType, Over
<1>2. ~(UNCHANGED completion)
  OBVIOUS
<1>3. PICK u \in Turns : CompletionTask(u)
  <2>1. ~Finishes /\ ~(UNCHANGED vars)
    BY <1>2 DEF Finishes, AgentFinishes, vars
  <2>2. ~User
    BY <1>1, <1>2 DEF User, cancel_generation, stop_current_and_send_new_message, rewind,
                      authorize_tool_call
  <2>3. \A u \in Turns : ~SendTask(u)
    BY <1>2 DEF SendTask, PushUserMessage, ResumeConnection, CheckpointTaken, ResponseArrives
  <2>4. \A u \in Turns, id \in ToolIds : ~ToolEvent(u, id)
    <3>1. \A u \in Turns, id \in ToolIds : \A status : ~Reported(u, id, status)
      BY <1>2 DEF Reported
    <3> QED
      BY <3>1 DEF ToolEvent, upsert_tool_call, request_tool_call_authorization, update_tool_call
  <2> QED
    BY <2>1, <2>2, <2>3, <2>4 DEF Next
<1>4. \E c : completion' = [completion EXCEPT ![u] = c]
  BY <1>3 DEF CompletionTask, ResponseReceived, update_last_checkpoint, CheckpointUpdated, Finished
<1>5. u = t
  BY <1>0, <1>4 DEF TurnType
<1>6. completion[t] \notin {"none"} \cup Over
  BY <1>3, <1>5 DEF CompletionTask, ResponseReceived, update_last_checkpoint, CheckpointUpdated, Over
<1>7. Finished(t) \/ (completion'[t] = "aborted" /\ UNCHANGED <<entries, send_task>>)
  BY <1>0, <1>3, <1>5 DEF CompletionTask, ResponseReceived, update_last_checkpoint,
                          CheckpointUpdated, TurnType, Over, threadVars
<1> QED
  BY <1>3, <1>5, <1>6, <1>7

LEMMA LeftCancelledStep ==
  ASSUME Typed, LeftCancelled, [Next]_vars
  PROVE  LeftCancelled'
<1> SUFFICES ASSUME send_task' # 0, completion'[send_task'] \in {"stopped", "error"}
             PROVE  response'[send_task'] = "Cancelled"
  BY DEF LeftCancelled
<1> DEFINE s == send_task'
<1>0. TurnType /\ s \in Turns
  <2>1. TurnType'
    BY TypedStep DEF Typed
  <2>2. send_task' \in 0..turns' /\ turns' \in 0..MaxTurns
    BY <2>1 DEF TurnType
  <2> QED
    BY <2>2 DEF Typed, Turns
<1>1. completion'[s] \in Over
  BY DEF Over
<1>2. CASE completion'[s] # completion[s]
  <2>1. Finished(s)
    BY <1>0, <1>1, <1>2, Completes
  <2> QED
    BY <1>0, <2>1 DEF Finished, TakesSendTask
<1>3. CASE completion'[s] = completion[s]
  <2>1. send_task' = send_task
    <3>1. ~(send \/ resume)
      BY <1>0, <1>3 DEF send, resume, run_turn, TurnType
    <3>2. CASE User \/ Finishes \/ UNCHANGED vars
      BY <3>1, <3>2 DEF User, cancel_generation, stop_current_and_send_new_message, rewind,
             authorize_tool_call, Finishes, AgentFinishes, threadVars, vars
    <3>3. ASSUME NEW t \in Turns, SendTask(t) PROVE send_task' = send_task
      BY <3>3 DEF SendTask, PushUserMessage, ResumeConnection, CheckpointTaken, ResponseArrives,
                  threadVars
    <3>4. ASSUME NEW t \in Turns, CompletionTask(t) PROVE send_task' = send_task
      BY <3>4 DEF CompletionTask, ResponseReceived, update_last_checkpoint, CheckpointUpdated,
                  Finished, threadVars
    <3>5. ASSUME NEW t \in Turns, NEW id \in ToolIds, ToolEvent(t, id) PROVE send_task' = send_task
      BY <3>5 DEF ToolEvent, upsert_tool_call, request_tool_call_authorization, update_tool_call,
                  Reported
    <3> QED
      BY <3>2, <3>3, <3>4, <3>5 DEF Next
  <2>2. response[s] = "Cancelled"
    BY <1>3, <2>1 DEF LeftCancelled
  <2> QED
    BY <1>0, <2>2, TurnFinal
<1> QED
  BY <1>2, <1>3

LEMMA WatchedStops ==
  ASSUME Typed, Watched, LeftCancelled
  PROVE  StopsGenerating
<1> SUFFICES ASSUME Calm, send_task # 0
             PROVE  /\ send_task \in cut
                    /\ response[send_task] = "Cancelled" \/ completion[send_task] = "aborted"
  BY DEF StopsGenerating
<1>1. send_task \in 1..turns
  BY DEF Typed, TurnType
<1>2. \A w \in 1..turns : ~WillTake(w)
  BY DEF Calm, WillTake, Over, Ended
<1> QED
  BY <1>1, <1>2 DEF Watched, LeftCancelled, Calm, Over

\* Once no task is under way the thread generates no more, unless messages were
\* taken away from its last turn while that turn was under way or current
\* (run_turn, cancel, rewind, update_last_checkpoint).
THEOREM AlwaysStopsGenerating == Spec => []StopsGenerating
<1>1. Init => Typed /\ Watched /\ LeftCancelled
  BY TypedInit DEF Init, Watched, LeftCancelled
<1>2. Typed /\ Watched /\ LeftCancelled /\ [Next]_vars => (Typed /\ Watched /\ LeftCancelled)'
  BY TypedStep, WatchedStep, LeftCancelledStep
<1>3. Typed /\ Watched /\ LeftCancelled => StopsGenerating
  BY WatchedStops
<1> QED
  BY <1>1, <1>2, <1>3, PTL DEF Spec

----------------------------------------------------------------------------
(* What a turn that finishes leaves. *)

LEMMA OutputKept ==
  ASSUME Typed, [Next]_vars
  PROVE  \A t \in Turns : completion[t] \notin Over /\ completion'[t] \in Over =>
           \A ix \in DOMAIN entries :
             IsTool(ix) /\ entries[ix].status = "Completed" /\ entries[ix].output
               => ix \in DOMAIN entries' /\ entries'[ix] = entries[ix]
<1> SUFFICES ASSUME NEW t \in Turns, completion[t] \notin Over, completion'[t] \in Over,
                    NEW ix \in DOMAIN entries,
                    IsTool(ix), entries[ix].status = "Completed", entries[ix].output
             PROVE  ix \in DOMAIN entries' /\ entries'[ix] = entries[ix]
  OBVIOUS
<1>1. entries \in Seq(Entries(turns))
  BY DEF Typed
<1>2. entries' = entries \/ RefusalHandled
  BY Completes DEF Finished
<1>3. ASSUME NEW jx \in LastUserMessage, ~HasToolOutputAfter(jx), entries' = SubSeq(entries, 1, jx - 1)
      PROVE  ix \in DOMAIN entries' /\ entries'[ix] = entries[ix]
  <2>1. jx \in 1..Len(entries) /\ entries[jx].kind = "user" /\ ix \in 1..Len(entries) /\ Len(entries) \in Nat
    BY <1>1 DEF LastUserMessage, IsUser
  <2>2. ~(ix > jx)
    BY <1>3, <2>1 DEF HasToolOutputAfter
  <2>3. ix # jx
    BY <2>1 DEF IsTool
  <2>4. ix \in 1..(jx - 1)
    BY <2>1, <2>2, <2>3
  <2> QED
    BY <1>1, <1>3, <2>1, <2>4
<1> QED
  BY <1>2, <1>3 DEF RefusalHandled

\* A turn that finishes, even refused, never removes the output of a completed
\* tool call (run_turn, the Refusal arm).
THEOREM ToolOutputAlwaysKept == Spec => ToolOutputKept
<1>1. Typed /\ [Next]_vars =>
        [\A t \in Turns : completion[t] \notin Over /\ completion'[t] \in Over =>
           \A ix \in DOMAIN entries :
             IsTool(ix) /\ entries[ix].status = "Completed" /\ entries[ix].output
               => ix \in DOMAIN entries' /\ entries'[ix] = entries[ix]]_vars
  BY OutputKept
<1>2. Spec => []Typed
  BY TypedInit, TypedStep, PTL DEF Spec
<1> QED
  BY <1>1, <1>2, PTL DEF Spec, ToolOutputKept

\* A prompt that its turn pushed is there until that turn is over or cut, and
\* prompts are in the order of their turns.
PromptThere ==
  \A t \in Turns :
    kind[t] = "send" /\ task[t] \in {"checkpoint", "prompting", "done"}
    /\ completion[t] \notin Over /\ t \notin cut =>
      PositionOf(t) # {}

PromptsInOrder ==
  \A m, t \in Turns : m < t /\ m \notin stopped =>
    \A ix \in PositionOf(m), jx \in PositionOf(t) : ix < jx

LEMMA PushMessages ==
  ASSUME Typed, NEW t \in Turns, PushUserMessage(t)
  PROVE  /\ \A u \in Turns \ {t} : PositionOf(u)' = PositionOf(u)
         /\ PositionOf(t)' = PositionOf(t) \cup {Len(entries) + 1}
<1>1. t \in 1..turns /\ turns \in Nat /\ entries \in Seq(Entries(turns))
  BY DEF PushUserMessage, Ready, Typed, TurnType, Phase, Ended, Turns
<1>2. UserMessage(t) \in Entries(turns)
  BY <1>1, NewEntries DEF Statuses
<1> QED
  BY <1>1, <1>2, MessagesPushed DEF PushUserMessage

\* A turn past waiting was past it or has just pushed its prompt; a turn that
\* is not over was not; what is cut stays cut.
LEMMA Progress ==
  ASSUME Typed, [Next]_vars, NEW t \in Turns
  PROVE  /\ kind'[t] = "send" /\ task'[t] \in {"checkpoint", "prompting", "done"} =>
              \/ kind[t] = "send" /\ task[t] \in {"checkpoint", "prompting", "done"}
              \/ PushUserMessage(t)
         /\ completion[t] \in Over => completion'[t] \in Over
         /\ cut \subseteq cut' /\ stopped \subseteq stopped'
<1>0. TurnType /\ ConnType
  BY DEF Typed
<1> DEFINE Past == kind[t] = "send" /\ task[t] \in {"checkpoint", "prompting", "done"}
           Past1 == kind'[t] = "send" /\ task'[t] \in {"checkpoint", "prompting", "done"}
           Goal == /\ Past1 => Past \/ PushUserMessage(t)
                   /\ completion[t] \in Over => completion'[t] \in Over
                   /\ cut \subseteq cut' /\ stopped \subseteq stopped'
<1>1. CASE send \/ resume
  <2>1. PICK how \in {"send", "resume"} : run_turn(how)
    BY <1>1 DEF send, resume
  <2>2. turns + 1 \in Turns /\ UNCHANGED auxVars
    BY <1>0, <2>1 DEF run_turn, TurnType, Turns
  <2>3. CASE t = turns + 1
    <3>1. task'[t] = "queued" /\ completion[t] = "none"
      BY <1>0, <2>1, <2>3 DEF run_turn, TurnType, Typed, Phase
    <3> QED
      BY <2>2, <3>1 DEF auxVars, Over
  <2>4. CASE t # turns + 1
    BY <1>0, <2>1, <2>2, <2>4 DEF run_turn, TurnType, auxVars
  <2> QED
    BY <2>3, <2>4
<1>2. CASE UNCHANGED <<kind, task, completion>> /\ cut \subseteq cut' /\ stopped \subseteq stopped'
  BY <1>2
<1>3. \A x \in 0..turns : Dropped(Owned(x)) => task'[t] \in {task[t], "dropped"}
  BY DroppedTurns
<1>4. CASE cancel_generation
  BY <1>0, <1>3, <1>4 DEF cancel_generation, TurnType, turnVars
<1>5. ASSUME NEW u \in Turns, SendTask(u) PROVE Goal
  <2>1. UNCHANGED <<kind, completion, cut, stopped>>
    BY <1>5 DEF SendTask, PushUserMessage, ResumeConnection, CheckpointTaken, ResponseArrives,
                turnVars, auxVars
  <2>2. u # t => task'[t] = task[t]
    BY <1>0, <1>5 DEF SendTask, PushUserMessage, ResumeConnection, CheckpointTaken, ResponseArrives,
                      Prompts, TurnType
  <2>3. u = t => PushUserMessage(t) \/ kind[t] # "send" \/ task[t] \in {"checkpoint", "prompting"}
    BY <1>5 DEF SendTask, ResumeConnection, CheckpointTaken, ResponseArrives
  <2> QED
    BY <2>1, <2>2, <2>3
<1>6. ASSUME NEW u \in Turns, CompletionTask(u) PROVE Goal
  <2>1. UNCHANGED <<kind, stopped>> /\ cut \subseteq cut'
    BY <1>6 DEF CompletionTask, ResponseReceived, update_last_checkpoint, CheckpointUpdated,
                Finished, turnVars, auxVars
  <2>2. task'[t] \in {task[t], "dropped"}
    BY <1>0, <1>3, <1>6 DEF CompletionTask, ResponseReceived, update_last_checkpoint,
                            CheckpointUpdated, Finished, TurnType
  <2>3. completion[t] \in Over => completion'[t] = completion[t]
    BY <1>0, <1>6 DEF CompletionTask, ResponseReceived, update_last_checkpoint, CheckpointUpdated,
                      Finished, TurnType, Over
  <2> QED
    BY <2>1, <2>2, <2>3
<1>7. CASE UNCHANGED vars
  BY <1>2, <1>7 DEF vars, turnVars, auxVars
<1>8. ASSUME NEW u \in Turns, NEW id \in ToolIds, ToolEvent(u, id) PROVE Goal
  <2>1. UNCHANGED <<kind, task, completion, cut, stopped>>
    BY <1>8 DEF ToolEvent, upsert_tool_call, request_tool_call_authorization, update_tool_call,
                Reported, turnVars, auxVars
  <2> QED
    BY <1>2, <2>1
<1>9. CASE User \/ Finishes
  BY <1>1, <1>2, <1>4, <1>9
     DEF User, stop_current_and_send_new_message, rewind, authorize_tool_call, Finishes,
         AgentFinishes, turnVars, auxVars
<1> QED
  BY <1>5, <1>6, <1>7, <1>8, <1>9 DEF Next

LEMMA PromptThereStep ==
  ASSUME Typed, PromptThere, [Next]_vars
  PROVE  PromptThere'
<1> SUFFICES ASSUME NEW t \in Turns, kind'[t] = "send",
                    task'[t] \in {"checkpoint", "prompting", "done"},
                    completion'[t] \notin Over, t \notin cut'
             PROVE  PositionOf(t)' # {}
  BY DEF PromptThere
<1>1. CASE PushUserMessage(t)
  BY <1>1, PushMessages
<1>2. CASE ~PushUserMessage(t)
  <2>1. /\ kind[t] = "send" /\ task[t] \in {"checkpoint", "prompting", "done"}
        /\ completion[t] \notin Over /\ t \notin cut
    BY <1>2, Progress
  <2>2. PositionOf(t) # {} /\ t \in Unfinished
    BY <2>1 DEF PromptThere, Typed, TurnType, Phase, Unfinished, Turns
  <2>3. CASE SameMessages
    BY <2>2, <2>3 DEF SameMessages
  <2>4. ASSUME NEW u \in Turns, PushUserMessage(u) PROVE PositionOf(t)' # {}
    BY <1>2, <2>2, <2>4, PushMessages
  <2>5. ASSUME NEW m \in Turns, rewind(m) PROVE FALSE
    BY <2>2, <2>5 DEF rewind
  <2>6. ASSUME NEW u \in Turns, Finished(u), response[u] = "Refusal" PROVE FALSE
    <3>1. completion'[u] \in Over
      BY <2>6 DEF Finished, Typed, TurnType, Over
    <3> QED
      BY <2>2, <2>6, <3>1 DEF Finished
  <2> QED
    BY <2>3, <2>4, <2>5, <2>6, Messages
<1> QED
  BY <1>1, <1>2

LEMMA PromptsInOrderStep ==
  ASSUME Typed, Order, PromptsInOrder, [Next]_vars
  PROVE  PromptsInOrder'
<1> SUFFICES ASSUME NEW m \in Turns, NEW t \in Turns, m < t, m \notin stopped',
                    NEW ix \in PositionOf(m)', NEW jx \in PositionOf(t)'
             PROVE  ix < jx
  BY DEF PromptsInOrder
<1>1. m \notin stopped /\ Len(entries) \in Nat /\ DOMAIN entries = 1..Len(entries)
  BY Progress DEF Typed
<1>2. CASE ix \in PositionOf(m) /\ jx \in PositionOf(t)
  BY <1>1, <1>2 DEF PromptsInOrder
<1>3. CASE SameMessages \/ FewerMessages
  BY <1>2, <1>3 DEF SameMessages, FewerMessages
<1>4. ASSUME NEW u \in Turns, PushUserMessage(u) PROVE ix < jx
  <2>1. u # m /\ u # t => ix < jx
    BY <1>2, <1>4, PushMessages
  <2>2. CASE u = m
    <3>1. m \in Alive
      BY <1>1, <1>4, <2>2 DEF PushUserMessage, Ready, Alive, UnderWay, Ended, Typed, TurnType, Phase, Turns
    <3>2. PositionOf(t) = {} /\ t # u
      BY <2>2, <3>1 DEF Order, Later, Turns
    <3> QED
      BY <1>4, <3>2, PushMessages
  <2>3. CASE u = t
    <3>1. u # m
      BY <2>3 DEF Turns
    <3>2. ix \in PositionOf(m) /\ ix \in 1..Len(entries)
      BY <1>1, <1>4, <3>1, PushMessages DEF PositionOf
    <3>3. jx \in PositionOf(t) \/ jx = Len(entries) + 1
      BY <1>4, <2>3, PushMessages
    <3> QED
      BY <1>1, <1>2, <3>2, <3>3
  <2> QED
    BY <2>1, <2>2, <2>3
<1> QED
  BY <1>3, <1>4, Messages

LEMMA RefusalKeeps ==
  ASSUME Typed, PromptThere, PromptsInOrder, [Next]_vars
  PROVE  \A t, m \in Turns :
           completion[t] \notin Over /\ completion'[t] \in Over /\ kind[t] = "send" /\ t \notin cut
           /\ m < t /\ m \notin stopped =>
             (PositionOf(m) # {} => PositionOf(m)' # {})
<1> SUFFICES ASSUME NEW t \in Turns, NEW m \in Turns,
                    completion[t] \notin Over, completion'[t] \in Over, kind[t] = "send", t \notin cut,
                    m < t, m \notin stopped, NEW ix \in PositionOf(m)
             PROVE  PositionOf(m)' # {}
  OBVIOUS
<1>1. turns \in Nat /\ entries \in Seq(Entries(turns))
  BY DEF Typed, TurnType
<1>2. CASE entries' = entries
  BY <1>2 DEF PositionOf, IsUser
<1>3. CASE Finished(t) /\ response[t] = "Refusal"
  <2>1. task[t] = "done"
    BY <1>3 DEF Typed, Phase, Ended
  <2>2. PICK jx \in PositionOf(t) : ix < jx
    BY <2>1 DEF PromptThere, PromptsInOrder
  <2>3. ASSUME NEW kx \in LastUserMessage, entries' = SubSeq(entries, 1, kx - 1)
        PROVE  PositionOf(m)' # {}
    <3>1. kx - 1 \in 0..Len(entries) /\ jx <= kx /\ jx \in Nat /\ kx \in Nat /\ ix \in Nat
      BY <1>1 DEF LastUserMessage, PositionOf
    <3>2. ix <= kx - 1
      BY <2>2, <3>1
    <3> QED
      BY <1>1, <2>3, <3>1, <3>2, MessagesCut
  <2> QED
    BY <1>2, <1>3, <2>3 DEF Finished, RefusalHandled
<1> QED
  BY <1>2, <1>3, Completes DEF Finished

\* A refusal costs no prompt of an earlier turn, unless the refused turn's own
\* prompt was taken away before or the user stopped that earlier turn (run_turn,
\* the Refusal arm, which removes what follows the last user message).
THEOREM RefusalAlwaysKeepsEarlierPrompts == Spec => RefusalKeepsEarlierPrompts
<1> DEFINE IInv == Typed /\ Order /\ PromptThere /\ PromptsInOrder
<1>1. Init => IInv
  BY TypedInit, OrderInit DEF Init, PromptThere, PromptsInOrder, PositionOf
<1>2. IInv /\ [Next]_vars => IInv'
  BY TypedStep, OrderStep, PromptThereStep, PromptsInOrderStep
<1>3. IInv /\ [Next]_vars =>
        [\A t, m \in Turns :
           completion[t] \notin Over /\ completion'[t] \in Over /\ kind[t] = "send" /\ t \notin cut
           /\ m < t /\ m \notin stopped =>
             (PositionOf(m) # {} => PositionOf(m)' # {})]_vars
  BY RefusalKeeps
<1> HIDE DEF IInv
<1> QED
  BY <1>1, <1>2, <1>3, PTL DEF Spec, RefusalKeepsEarlierPrompts

----------------------------------------------------------------------------
(* The conversation, when users wait for a turn to end.                     *)

\* Only the last turn is not over, and only turns that are over are cut.
Alone ==
  /\ \A t \in 1..turns : t < turns => completion[t] \in Over /\ task[t] \in Ended
  /\ cut \subseteq {t \in Turns : completion[t] \in Over}

LEMMA AloneLast ==
  ASSUME Typed, Alone, NEW t \in Turns, SendTask(t)
  PROVE  t = turns
<1>1. task[t] \notin Ended /\ t \in 1..turns /\ turns \in Nat
  BY DEF SendTask, PushUserMessage, ResumeConnection, CheckpointTaken, ResponseArrives, Ready, Ended,
         Typed, TurnType, Phase, Turns
<1> QED
  BY <1>1 DEF Alone

LEMMA AloneStep ==
  ASSUME Typed, Alone, ~Impatient, [Next]_vars
  PROVE  Alone'
<1>0. TurnType /\ turns \in 0..MaxTurns /\ \A t \in Turns : Phase(t)
  BY DEF Typed, TurnType
<1>1. ASSUME NEW how \in {"send", "resume"}, run_turn(how) PROVE Alone'
  <2>1. /\ turns' = turns + 1 /\ cut' = cut /\ Calm /\ turns + 1 \in Turns
        /\ \A u \in Turns \ {turns + 1} : completion'[u] = completion[u] /\ task'[u] = task[u]
    BY <1>0, <1>1 DEF run_turn, auxVars, TurnType, Turns
  <2>2. ASSUME NEW t \in 1..turns PROVE completion'[t] \in Over /\ task'[t] \in Ended
    BY <1>0, <2>1 DEF Calm, Turns
  <2>3. turns + 1 \notin cut
    BY <1>0, <2>1 DEF Alone, Phase, Over
  <2>4. cut' \subseteq {t \in Turns : completion'[t] \in Over}
    BY <2>1, <2>3 DEF Alone
  <2> QED
    BY <1>0, <2>1, <2>2, <2>4 DEF Alone
<1>2. ASSUME turns' = turns, cut' \subseteq {t \in Turns : completion'[t] \in Over} PROVE Alone'
  <2>1. ASSUME NEW t \in 1..turns, t < turns PROVE completion'[t] \in Over /\ task'[t] \in Ended
    <3>1. t \in Turns /\ completion[t] \in Over /\ task[t] \in Ended
      BY <1>0, <2>1 DEF Alone, Turns
    <3>2. response[t] # "none"
      BY <1>0, <3>1 DEF Phase
    <3> QED
      BY <3>1, <3>2, Progress, TurnFinal
  <2> QED
    BY <1>2, <2>1 DEF Alone
<1>3. cut \subseteq {t \in Turns : completion'[t] \in Over}
  BY Progress DEF Alone
<1>4. ASSUME turns' = turns, cut' = cut PROVE Alone'
  BY <1>2, <1>3, <1>4
<1>5. ASSUME NEW m \in Turns, rewind(m) PROVE Alone'
  <2>1. Calm /\ turns' = turns /\ completion' = completion
    BY <1>5 DEF rewind, turnVars
  <2>2. Unfinished = {}
    BY <2>1 DEF Calm, Unfinished
  <2>3. cut' = cut \cup ({send_task} \ {0})
    BY <1>5, <2>2 DEF rewind
  <2>4. send_task # 0 => send_task \in Turns /\ completion[send_task] \in Over
    BY <1>0, <2>1 DEF TurnType, Calm, Turns
  <2> QED
    BY <1>2, <1>3, <2>1, <2>3, <2>4
<1>6. ASSUME NEW t \in Turns, CompletionTask(t) PROVE Alone'
  <2>1. turns' = turns
    BY <1>6 DEF CompletionTask, ResponseReceived, update_last_checkpoint, CheckpointUpdated, Finished,
                turnVars
  <2>2. CASE Finished(t) /\ response[t] = "Refusal" /\ completion[t] \notin Over
    <3>1. t = turns
      BY <1>0, <2>2 DEF Phase, Alone, Ended, Turns
    <3>2. Unfinished \ {t} = {}
      BY <1>0, <3>1 DEF Unfinished, Alone
    <3> QED
      BY <1>4, <2>1, <2>2, <3>2 DEF Finished
  <2>3. CASE cut' = cut
    BY <1>4, <2>1, <2>3
  <2> QED
    BY <1>6, <2>2, <2>3 DEF CompletionTask, ResponseReceived, update_last_checkpoint,
                            CheckpointUpdated, Finished, auxVars, Over
<1>7. ASSUME ~User, ~(\E t \in Turns : CompletionTask(t)) PROVE turns' = turns /\ cut' = cut
  <2>1. CASE Finishes \/ UNCHANGED vars
    BY <2>1 DEF Finishes, AgentFinishes, turnVars, auxVars, vars
  <2>2. ASSUME NEW t \in Turns, SendTask(t) PROVE turns' = turns /\ cut' = cut
    BY <2>2 DEF SendTask, PushUserMessage, ResumeConnection, CheckpointTaken, ResponseArrives,
                turnVars, auxVars
  <2>3. ASSUME NEW t \in Turns, NEW id \in ToolIds, ToolEvent(t, id)
        PROVE  turns' = turns /\ cut' = cut
    BY <2>3 DEF ToolEvent, upsert_tool_call, request_tool_call_authorization, update_tool_call,
                Reported, turnVars, auxVars
  <2> QED
    BY <1>7, <2>1, <2>2, <2>3 DEF Next
<1>8. CASE User
  BY <1>1, <1>4, <1>5, <1>8
     DEF User, send, resume, cancel_generation, stop_current_and_send_new_message,
         authorize_tool_call, turnVars, auxVars
<1> QED
  BY <1>4, <1>6, <1>7, <1>8

\* Which messages are shown and which the agent has, as the turns that sent them.
EntryOrder ==
  /\ \A m, t \in Turns : \A ix \in PositionOf(m), jx \in PositionOf(t) :
       (m < t => ix < jx) /\ (m = t => ix = jx)
  /\ \A t \in Turns : PositionOf(t) # {} => kind[t] = "send" /\ task[t] \notin {"none", "queued"}

LEMMA ShownTurns == Typed => Shown = {u \in Turns : PositionOf(u) # {}} /\ Shown \subseteq 1..turns
<1> SUFFICES ASSUME Typed PROVE Shown = {u \in Turns : PositionOf(u) # {}} /\ Shown \subseteq 1..turns
  OBVIOUS
<1>1. \A ix \in DOMAIN entries : entries[ix] \in Entries(turns)
  BY DEF Typed
<1>2. \A e \in Entries(turns) : e.turn \in 1..turns
  BY DEF Entries, UserMessages, ToolCalls
<1>3. 1..turns \subseteq Turns
  <2>1. turns \in 0..MaxTurns
    BY DEF Typed, TurnType
  <2> QED
    BY <2>1 DEF Turns
<1> QED
  BY <1>1, <1>2, <1>3 DEF Shown, PositionOf

LEMMA ShownTurnsNext == Typed' => (Shown = {u \in Turns : PositionOf(u) # {}} /\ Shown \subseteq 1..turns)'
BY ShownTurns, PTL

LEMMA EntryOrderStep ==
  ASSUME Typed, EntryOrder, Alone, [Next]_vars
  PROVE  EntryOrder'
<1>0. TurnType /\ turns \in Nat /\ \A t \in Turns : Phase(t)
  BY DEF Typed, TurnType
<1>1. \A t \in Turns : kind[t] = "send" /\ task[t] \notin {"none", "queued"} =>
                       kind'[t] = "send" /\ task'[t] \notin {"none", "queued"}
  <2> TAKE t \in Turns
  <2>1. t = turns + 1 => task[t] = "none"
    BY <1>0 DEF Phase
  <2>2. ASSUME SendTask(t) PROVE task'[t] \notin {"none", "queued"}
    BY <1>0, <2>2, PromptsType
       DEF SendTask, PushUserMessage, ResumeConnection, CheckpointTaken, ResponseArrives, Ready,
           TurnType
  <2> QED
    BY <2>1, <2>2, TurnSteps DEF TurnStep
<1>2. CASE SameMessages \/ FewerMessages
  BY <1>1, <1>2 DEF EntryOrder, SameMessages, FewerMessages
<1>3. ASSUME NEW n \in Turns, PushUserMessage(n) PROVE EntryOrder'
  <2>1. n = turns
    BY <1>3, AloneLast DEF SendTask
  <2>2. PositionOf(n) = {}
    BY <1>3 DEF PushUserMessage, Ready, EntryOrder
  <2>3. /\ \A u \in Turns \ {n} : PositionOf(u)' = PositionOf(u)
        /\ PositionOf(n)' = {Len(entries) + 1}
    BY <1>3, <2>2, PushMessages
  <2>4. \A u \in Turns : \A ix \in PositionOf(u) : ix <= Len(entries) /\ ix \in Nat /\ u <= turns
    BY ShownTurns DEF PositionOf, Typed
  <2>5. Len(entries) \in Nat
    BY DEF Typed
  <2>6. kind'[n] = "send" /\ task'[n] = "checkpoint"
    BY <1>0, <1>3 DEF PushUserMessage, turnVars, TurnType
  <2>7. ASSUME NEW m \in Turns, NEW t \in Turns, NEW ix \in PositionOf(m)', NEW jx \in PositionOf(t)'
        PROVE  (m < t => ix < jx) /\ (m = t => ix = jx)
    <3>1. CASE m = n
      BY <1>0, <2>1, <2>3, <2>4, <3>1, <2>7 DEF Turns
    <3>2. CASE m # n /\ t = n
      BY <2>3, <2>4, <2>5, <2>7, <3>2
    <3>3. CASE m # n /\ t # n
      BY <2>3, <2>7, <3>3 DEF EntryOrder
    <3> QED
      BY <3>1, <3>2, <3>3
  <2>8. \A t \in Turns : PositionOf(t)' # {} => kind'[t] = "send" /\ task'[t] \notin {"none", "queued"}
    BY <1>1, <2>3, <2>6 DEF EntryOrder
  <2> QED
    BY <2>7, <2>8 DEF EntryOrder
<1> QED
  BY <1>2, <1>3, Messages

\* The agent runs at most the turn it started last, which it has not answered;
\* turns are prompted in order; the message of the turn it runs is the last it
\* has.
AgentTurn ==
  /\ current \in {0, started} /\ (current # 0 => outcome[current] = "none")
  /\ \A t, u \in Turns : t < u /\ prompt[t] # 0 /\ prompt[u] # 0 => prompt[t] < prompt[u]
  /\ current # 0 => \A m, o \in Remembered : prompt[m] = current => o <= m

\* An answer is the outcome of the prompt; a refused message is forgotten.
Answered ==
  \A t \in Turns :
    /\ task[t] = "done" /\ prompt[t] # 0 => response[t] = outcome[prompt[t]]
    /\ response[t] = "Refusal" => prompt[t] # 0 /\ task[t] = "done"
    /\ prompt[t] # 0 /\ outcome[prompt[t]] = "Refusal" => t \notin Remembered

MemoryIncreases == memory \in Seq(Turns) /\ \A i, j \in DOMAIN memory : i < j => memory[i] < memory[j]

RememberedSent == \A m \in Remembered : kind[m] = "send" /\ task[m] \in {"prompting", "done", "dropped"}

LEMMA MemoryAppended ==
  ASSUME MemoryIncreases, NEW t \in Turns, memory' = Append(memory, t), \A m \in Remembered : m < t
  PROVE  MemoryIncreases' /\ Remembered' = Remembered \cup {t}
<1>1. /\ memory' \in Seq(Turns) /\ Len(memory') = Len(memory) + 1 /\ Len(memory) \in Nat
      /\ \A i \in 1..Len(memory) : memory'[i] = memory[i]
      /\ memory'[Len(memory) + 1] = t
  BY AppendProperties DEF MemoryIncreases
<1>2. DOMAIN memory = 1..Len(memory) /\ DOMAIN memory' = DOMAIN memory \cup {Len(memory) + 1}
  BY <1>1 DEF MemoryIncreases
<1>3. Remembered' = Remembered \cup {t}
  BY <1>1, <1>2 DEF Remembered
<1>4. ASSUME NEW i \in DOMAIN memory', NEW j \in DOMAIN memory', i < j PROVE memory'[i] < memory'[j]
  <2>1. i \in 1..Len(memory) /\ memory'[i] = memory[i] /\ memory[i] \in Remembered
    BY <1>1, <1>2, <1>4 DEF Remembered
  <2>2. CASE j = Len(memory) + 1
    BY <1>1, <2>1, <2>2
  <2>3. CASE j \in 1..Len(memory)
    BY <1>1, <1>2, <1>4, <2>1, <2>3 DEF MemoryIncreases
  <2> QED
    BY <1>2, <2>2, <2>3
<1> QED
  BY <1>1, <1>3, <1>4 DEF MemoryIncreases

\* Memory up to before the message of turn m.
LEMMA MemoryCut ==
  ASSUME MemoryIncreases, NEW k \in DOMAIN memory,
         memory' \in Seq(Turns), Len(memory') = k - 1, \A i \in 1..(k - 1) : memory'[i] = memory[i]
  PROVE  MemoryIncreases' /\ Remembered' = {u \in Remembered : u < memory[k]}
<1>1. /\ Len(memory) \in Nat /\ k \in 1..Len(memory) /\ DOMAIN memory = 1..Len(memory)
      /\ DOMAIN memory' = 1..(k - 1)
  BY DEF MemoryIncreases
<1>2. \A i \in DOMAIN memory : memory[i] \in Nat
  BY DEF MemoryIncreases, Turns
<1>3. \A i \in DOMAIN memory : memory[i] < memory[k] <=> i < k
  BY <1>1, <1>2 DEF MemoryIncreases
<1>4. Remembered' = {u \in Remembered : u < memory[k]}
  BY <1>1, <1>3 DEF Remembered
<1>5. MemoryIncreases'
  BY <1>1 DEF MemoryIncreases
<1> QED
  BY <1>4, <1>5

\* A rewind to a message takes what follows it from the user and the agent.
LEMMA RewindCuts ==
  ASSUME Typed, MemoryIncreases, EntryOrder, NEW m \in Turns, rewind(m)
  PROVE  \/ memory' = memory /\ Shown' = Shown
         \/ /\ MemoryIncreases' /\ Remembered' = {u \in Remembered : u < m}
            /\ Shown' = {u \in Shown : u < m}
<1>0. Next
  BY DEF Next, User
<1>1. turns \in Nat /\ entries \in Seq(Entries(turns)) /\ Typed'
  BY <1>0, TypedStep DEF Typed, TurnType
<1>2. CASE UNCHANGED <<memory, entries>>
  BY <1>2 DEF Shown, IsUser
<1>3. ASSUME NEW position \in DOMAIN memory, NEW ix \in PositionOf(m), memory[position] = m,
             memory' = SubSeq(memory, 1, position - 1), entries' = SubSeq(entries, 1, ix - 1)
      PROVE  /\ MemoryIncreases' /\ Remembered' = {u \in Remembered : u < m}
             /\ Shown' = {u \in Shown : u < m}
  <2>1. /\ memory' \in Seq(Turns) /\ Len(memory') = position - 1
        /\ \A i \in 1..(position - 1) : memory'[i] = memory[i]
    BY <1>3 DEF MemoryIncreases
  <2>2. MemoryIncreases' /\ Remembered' = {u \in Remembered : u < m}
    BY <1>3, <2>1, MemoryCut
  <2>3. ix \in Nat /\ ix - 1 \in 0..Len(entries) /\ \A u \in Turns : \A jx \in PositionOf(u) : jx \in Nat
    BY <1>1 DEF PositionOf
  <2>4. FewerMessages /\ \A u \in Turns : \A jx \in PositionOf(u) : jx <= ix - 1 => jx \in PositionOf(u)'
    BY <1>1, <1>3, <2>3, MessagesCut
  <2>5. \A jx \in DOMAIN entries' : jx < ix /\ jx \in Nat
    BY <1>1, <1>3, <2>3
  <2>6. ASSUME NEW u \in Turns PROVE PositionOf(u)' # {} <=> PositionOf(u) # {} /\ u < m
    <3>1. ASSUME NEW jx \in PositionOf(u)' PROVE jx \in PositionOf(u) /\ u < m
      <4>1. jx \in PositionOf(u) /\ jx < ix
        BY <2>4, <2>5 DEF FewerMessages, PositionOf
      <4>2. ~(m < u) /\ m # u
        BY <2>3, <4>1 DEF EntryOrder
      <4> QED
        BY <4>1, <4>2 DEF Turns
    <3>2. ASSUME NEW jx \in PositionOf(u), u < m PROVE jx \in PositionOf(u)'
      <4>1. jx < ix
        BY <3>2 DEF EntryOrder
      <4> QED
        BY <2>3, <2>4, <4>1
    <3> QED
      BY <3>1, <3>2
  <2>7. Shown' = {u \in Turns : PositionOf(u)' # {}} /\ Shown = {u \in Turns : PositionOf(u) # {}}
    BY <1>1, ShownTurns, ShownTurnsNext
  <2> QED
    BY <2>2, <2>6, <2>7
<1> QED
  BY <1>2, <1>3 DEF rewind

\* An outcome makes the agent forget the message of the turn it runs, if it is a
\* refusal, and that is the last message.
LEMMA FinishForgets ==
  ASSUME Typed, MemoryIncreases, AgentTurn, NEW reason \in Reasons, AgentFinishes(reason)
  PROVE  \/ /\ memory' = memory
            /\ reason = "Refusal" => \A m \in Remembered : prompt[m] # current
         \/ /\ MemoryIncreases' /\ reason = "Refusal"
            /\ \E m \in Remembered : prompt[m] = current /\ Remembered' = Remembered \ {m}
<1> DEFINE refused == {position \in DOMAIN memory : reason = "Refusal" /\ prompt[memory[position]] = current}
           kept == {position \in DOMAIN memory : \A r \in refused : position < r}
<1>1. memory' = [position \in kept |-> memory[position]] /\ current # 0
  BY DEF AgentFinishes, Connection!Finish
<1>2. Len(memory) \in Nat /\ DOMAIN memory = 1..Len(memory) /\ memory \in Seq(Turns)
  BY DEF MemoryIncreases
<1>3. CASE refused = {}
  <2>1. kept = DOMAIN memory
    BY <1>3
  <2> HIDE DEF kept
  <2>2. memory' = memory
    BY <1>1, <1>2, <2>1
  <2>3. reason = "Refusal" => \A m \in Remembered : prompt[m] # current
    BY <1>3 DEF Remembered
  <2> QED
    BY <2>2, <2>3
<1>4. CASE refused # {}
  <2>1. refused \in SUBSET Nat
    BY <1>2
  <2>2. PICK k \in refused : \A r \in refused : k <= r
    BY <1>4, <2>1, LeastNumber
  <2>3. /\ k \in 1..Len(memory) /\ reason = "Refusal" /\ prompt[memory[k]] = current
        /\ k \in DOMAIN memory /\ memory[k] \in Remembered
    BY <1>2, <2>2 DEF Remembered
  <2>4. kept = 1..(k - 1)
    BY <1>2, <2>1, <2>2, <2>3
  <2> HIDE DEF kept, refused
  <2>5. memory' = [i \in 1..(k - 1) |-> memory[i]]
    BY <1>1, <2>4
  <2>6. \A i \in 1..(k - 1) : memory[i] \in Turns
    BY <1>2, <2>3
  <2>7. /\ memory' \in Seq(Turns) /\ Len(memory') = k - 1
        /\ \A i \in 1..(k - 1) : memory'[i] = memory[i]
    <3>1. k - 1 \in Nat
      BY <2>3
    <3> QED
      BY <2>5, <2>6, <3>1
  <2>8. MemoryIncreases' /\ Remembered' = {u \in Remembered : u < memory[k]}
    BY <2>3, <2>7, MemoryCut
  <2>9. Remembered \subseteq Turns
    BY <1>2 DEF Remembered
  <2>10. \A u \in Remembered : u < memory[k] <=> u # memory[k]
    <3>1. \A u \in Remembered : u <= memory[k]
      BY <1>1, <2>3 DEF AgentTurn
    <3>2. Turns \subseteq Nat
      BY DEF Turns
    <3>3. \A u \in Remembered : u \in Nat
      BY <2>9, <3>2
    <3>4. memory[k] \in Nat
      BY <2>3, <3>3
    <3> QED
      BY <3>1, <3>3, <3>4
  <2>11. Remembered' = Remembered \ {memory[k]}
    BY <2>8, <2>10
  <2> QED
    BY <2>3, <2>8, <2>11
<1> QED
  BY <1>3, <1>4

\* What a step does to the agent: what a send task asks for, a rewind, an
\* outcome, or at most a cancellation.
LEMMA AgentSteps ==
  ASSUME [Next]_vars
  PROVE  \/ \E t \in Turns : SendTask(t) /\ Prompts(t) /\ task[t] \in {"queued", "checkpoint"}
         \/ \E m \in Turns : rewind(m)
         \/ \E reason \in Reasons : AgentFinishes(reason)
         \/ UNCHANGED <<memory, prompt>> /\ (UNCHANGED connVars \/ Connection!Cancel)
<1>1. CASE User
  BY <1>1 DEF User, send, resume, run_turn, cancel_generation, stop_current_and_send_new_message, cancel,
              authorize_tool_call, agentVars
<1>2. ASSUME NEW t \in Turns, SendTask(t)
      PROVE  \/ Prompts(t) /\ task[t] \in {"queued", "checkpoint"}
             \/ UNCHANGED <<memory, prompt, connVars>>
  BY <1>2 DEF SendTask, PushUserMessage, ResumeConnection, CheckpointTaken, ResponseArrives, Ready,
              agentVars
<1>3. ASSUME NEW t \in Turns, CompletionTask(t) PROVE UNCHANGED <<memory, prompt, connVars>>
  BY <1>3 DEF CompletionTask, ResponseReceived, update_last_checkpoint, CheckpointUpdated, Finished,
              agentVars
<1>4. ASSUME NEW t \in Turns, NEW id \in ToolIds, ToolEvent(t, id)
      PROVE  UNCHANGED <<memory, prompt, connVars>>
  BY <1>4 DEF ToolEvent, upsert_tool_call, request_tool_call_authorization, update_tool_call, Reported
<1>5. CASE UNCHANGED vars
  BY <1>5 DEF vars, agentVars
<1>6. CASE Finishes
  BY <1>6 DEF Finishes
<1> QED
  BY <1>1, <1>2, <1>3, <1>4, <1>5, <1>6 DEF Next

\* The call on the connection, from the last turn.
LEMMA PromptsAgent ==
  ASSUME Typed, Alone, AgentTurn, MemoryIncreases, RememberedSent,
         NEW t \in Turns, SendTask(t), Prompts(t), task[t] \in {"queued", "checkpoint"}
  PROVE  /\ t = turns /\ \A m \in Remembered : m < t
         /\ prompt[t] = 0 /\ kind'[t] = kind[t] /\ task'[t] \in {"prompting", "done"}
         /\ \/ memory' = memory
            \/ MemoryIncreases' /\ Remembered' = Remembered \cup {t} /\ kind[t] = "send"
         /\ kind[t] = "send" => Remembered' = Remembered \cup {t} \/ response'[t] = "Error"
         /\ \/ /\ Connection!Start /\ prompt'[t] = started + 1 /\ response'[t] = "none"
               /\ task'[t] = "prompting"
            \/ /\ response'[t] = "Error" /\ prompt' = prompt /\ task'[t] = "done"
               /\ Connection!Cancel \/ (UNCHANGED connVars /\ memory' = memory)
<1>0. TurnType /\ turns \in Nat /\ Phase(t) /\ \A u \in Turns : Phase(u)
  BY DEF Typed, TurnType
<1>1. t = turns
  BY AloneLast
<1>2. ASSUME NEW m \in Remembered PROVE m < t
  <2>1. m \in Turns
    BY DEF Remembered, MemoryIncreases
  <2>2. m <= turns /\ m # t
    <3>1. task[m] \in {"prompting", "done", "dropped"}
      BY DEF RememberedSent
    <3>2. ~(m > turns)
      BY <1>0, <2>1, <3>1 DEF Phase
    <3> QED
      BY <1>0, <2>1, <3>1, <3>2 DEF Turns
  <2> QED
    BY <1>0, <1>1, <2>1, <2>2 DEF Turns
<1>3. memory' = Append(memory, t) => MemoryIncreases' /\ Remembered' = Remembered \cup {t}
  BY <1>2, MemoryAppended
<1>4. /\ prompt[t] = 0 /\ response[t] = "none" /\ kind'[t] = kind[t]
  BY <1>0 DEF Phase, Ended, SendTask, PushUserMessage, ResumeConnection, CheckpointTaken, ResponseArrives,
              turnVars
<1>5. CASE /\ Connection!Start
           /\ prompt' = [prompt EXCEPT ![t] = started + 1]
           /\ task' = [task EXCEPT ![t] = "prompting"]
           /\ memory' = IF kind[t] = "send" THEN Append(memory, t) ELSE memory
           /\ UNCHANGED response
  <2>1. prompt'[t] = started + 1 /\ task'[t] = "prompting" /\ response'[t] = "none"
    BY <1>0, <1>4, <1>5 DEF TurnType
  <2> QED
    BY <1>1, <1>2, <1>3, <1>4, <1>5, <2>1
<1>6. CASE /\ task' = [task EXCEPT ![t] = "done"]
           /\ response' = [response EXCEPT ![t] = "Error"]
           /\ \/ UNCHANGED <<connVars, memory>>
              \/ Connection!Cancel /\ memory' = IF kind[t] = "send" THEN Append(memory, t) ELSE memory
           /\ UNCHANGED prompt
  <2>1. task'[t] = "done" /\ response'[t] = "Error"
    BY <1>0, <1>6 DEF TurnType
  <2> QED
    BY <1>1, <1>2, <1>3, <1>4, <1>6, <2>1
<1> QED
  BY <1>5, <1>6 DEF Prompts

\* The outcome of a prompt is final.
LEMMA OutcomeFinal ==
  ASSUME Typed, AgentTurn, [Next]_vars, NEW x \in Turns, outcome[x] # "none"
  PROVE  outcome'[x] = outcome[x]
<1>1. ConnType
  BY DEF Typed
<1>2. current # 0 => current # x
  BY DEF AgentTurn
<1>3. Connection!Interrupted[x] = outcome[x]
  BY <1>1, <1>2 DEF Connection!Interrupted, ConnType
<1>4. Connection!Start \/ Connection!Cancel => outcome'[x] = outcome[x]
  BY <1>3 DEF Connection!Start, Connection!Cancel
<1>5. ASSUME NEW reason, AgentFinishes(reason) PROVE outcome'[x] = outcome[x]
  BY <1>1, <1>2, <1>5 DEF AgentFinishes, Connection!Finish, ConnType
<1>6. UNCHANGED connVars => outcome'[x] = outcome[x]
  BY DEF connVars
<1> QED
  BY <1>4, <1>5, <1>6, AgentSteps DEF Prompts, rewind

LEMMA RememberedSentStep ==
  ASSUME Typed, Alone, AgentTurn, MemoryIncreases, EntryOrder, RememberedSent, [Next]_vars
  PROVE  MemoryIncreases' /\ RememberedSent'
<1>0. TurnType /\ turns \in Nat /\ \A t \in Turns : Phase(t)
  BY DEF Typed, TurnType
<1>1. ASSUME NEW m \in Remembered
      PROVE  kind'[m] = "send" /\ task'[m] \in {"prompting", "done", "dropped"}
  <2>1. m \in Turns /\ kind[m] = "send" /\ task[m] \in {"prompting", "done", "dropped"}
    BY DEF Remembered, MemoryIncreases, RememberedSent
  <2>2. SendTask(m) => task'[m] = "done"
    BY <1>0, <2>1 DEF SendTask, PushUserMessage, ResumeConnection, CheckpointTaken, ResponseArrives, Ready,
                      TurnType
  <2>3. m # turns + 1
    BY <1>0, <2>1 DEF Phase
  <2> QED
    BY <2>1, <2>2, <2>3, TurnSteps DEF TurnStep
<1>2. ASSUME memory' = memory PROVE MemoryIncreases' /\ RememberedSent'
  <2>1. Remembered' = Remembered
    BY <1>2 DEF Remembered
  <2> QED
    BY <1>1, <1>2, <2>1 DEF MemoryIncreases, RememberedSent
<1>3. ASSUME MemoryIncreases', Remembered' \subseteq Remembered PROVE RememberedSent'
  BY <1>1, <1>3 DEF RememberedSent
<1>4. ASSUME NEW t \in Turns, SendTask(t), Prompts(t), task[t] \in {"queued", "checkpoint"}
      PROVE  MemoryIncreases' /\ RememberedSent'
  <2>1. CASE memory' = memory
    BY <1>2, <2>1
  <2>2. CASE MemoryIncreases' /\ Remembered' = Remembered \cup {t} /\ kind[t] = "send"
    <3>1. kind'[t] = "send" /\ task'[t] \in {"prompting", "done"}
      BY <1>4, <2>2, PromptsAgent
    <3> QED
      BY <1>1, <2>2, <3>1 DEF RememberedSent
  <2> QED
    BY <1>4, <2>1, <2>2, PromptsAgent
<1>5. ASSUME NEW m \in Turns, rewind(m) PROVE MemoryIncreases' /\ RememberedSent'
  BY <1>2, <1>3, <1>5, RewindCuts
<1>6. ASSUME NEW reason \in Reasons, AgentFinishes(reason) PROVE MemoryIncreases' /\ RememberedSent'
  BY <1>2, <1>3, <1>6, FinishForgets
<1> QED
  BY <1>2, <1>4, <1>5, <1>6, AgentSteps

LEMMA AgentTurnStep ==
  ASSUME Typed, Alone, AgentTurn, MemoryIncreases, RememberedSent, [Next]_vars
  PROVE  AgentTurn'
<1>0. TurnType /\ ConnType /\ turns \in Nat /\ started \in Nat /\ \A t \in Turns : Phase(t)
  BY DEF Typed, TurnType, ConnType
<1>1. ASSUME current' = 0, prompt' = prompt PROVE AgentTurn'
  BY <1>1 DEF AgentTurn
<1>2. ASSUME UNCHANGED connVars, memory' = memory, prompt' = prompt PROVE AgentTurn'
  BY <1>2 DEF AgentTurn, connVars, Remembered
<1>3. ASSUME NEW t \in Turns, SendTask(t), Prompts(t), task[t] \in {"queued", "checkpoint"}
      PROVE  AgentTurn'
  <2>1. CASE Connection!Start /\ prompt'[t] = started + 1
    <3>1. started' = started + 1 /\ current' = started + 1 /\ started + 1 \in Turns
      BY <1>0, <2>1 DEF Connection!Start, Turns
    <3>2. outcome'[started + 1] = "none"
      BY <1>0, <2>1, <3>1 DEF Connection!Start, Connection!Interrupted, ConnType
    <3>3. \A u \in Turns \ {t} : prompt'[u] = prompt[u] /\ prompt[u] <= started
      BY <1>0, <1>3, PromptsType DEF Phase
    <3>4. \A u \in Turns : u > t => prompt[u] = 0
      BY <1>0, <1>3, PromptsAgent DEF Phase, Turns
    <3>5. ASSUME NEW v \in Turns, NEW u \in Turns, v < u, prompt'[v] # 0, prompt'[u] # 0
          PROVE  prompt'[v] < prompt'[u]
      <4>1. v # t
        <5>1. v = t => u > t /\ u # t
          BY <3>5 DEF Turns
        <5> QED
          BY <3>3, <3>4, <3>5, <5>1
      <4>2. CASE u = t
        BY <1>0, <2>1, <3>3, <4>1, <4>2 DEF TurnType
      <4>3. CASE u # t
        BY <3>3, <3>5, <4>1, <4>3 DEF AgentTurn
      <4> QED
        BY <4>2, <4>3
    <3>6. ASSUME NEW m \in Remembered', NEW o \in Remembered', prompt'[m] = started + 1 PROVE o <= m
      <4>1. Remembered' \subseteq Remembered \cup {t} /\ Remembered \subseteq Turns
        <5>1. memory' = memory => Remembered' = Remembered
          BY DEF Remembered
        <5>2. Remembered \subseteq Turns
          BY DEF Remembered, MemoryIncreases
        <5> QED
          BY <1>3, <5>1, <5>2, PromptsAgent
      <4>2. m = t
        BY <1>0, <3>3, <3>6, <4>1 DEF TurnType
      <4>3. o = t \/ o < t
        BY <1>3, <4>1, PromptsAgent
      <4> QED
        BY <4>1, <4>2, <4>3 DEF Turns
    <3> QED
      BY <3>1, <3>2, <3>5, <3>6 DEF AgentTurn
  <2>2. CASE prompt' = prompt /\ (Connection!Cancel \/ (UNCHANGED connVars /\ memory' = memory))
    BY <1>1, <1>2, <2>2 DEF Connection!Cancel
  <2> QED
    BY <1>3, <2>1, <2>2, PromptsAgent
<1>4. ASSUME NEW m \in Turns, rewind(m) PROVE AgentTurn'
  BY <1>1, <1>4 DEF rewind, Connection!Cancel
<1>5. ASSUME NEW reason \in Reasons, AgentFinishes(reason) PROVE AgentTurn'
  BY <1>1, <1>5 DEF AgentFinishes, Connection!Finish
<1>6. CASE UNCHANGED <<memory, prompt>> /\ (UNCHANGED connVars \/ Connection!Cancel)
  BY <1>1, <1>2, <1>6 DEF Connection!Cancel
<1> QED
  BY <1>3, <1>4, <1>5, <1>6, AgentSteps

LEMMA AnsweredStep ==
  ASSUME Typed, Alone, AgentTurn, Answered, MemoryIncreases, RememberedSent, EntryOrder, [Next]_vars
  PROVE  Answered'
<1> SUFFICES ASSUME NEW t \in Turns
             PROVE  /\ task'[t] = "done" /\ prompt'[t] # 0 => response'[t] = outcome'[prompt'[t]]
                    /\ response'[t] = "Refusal" => prompt'[t] # 0 /\ task'[t] = "done"
                    /\ prompt'[t] # 0 /\ outcome'[prompt'[t]] = "Refusal" => t \notin Remembered'
  BY DEF Answered
<1>0. /\ TurnType /\ ConnType /\ turns \in Nat /\ started \in Nat /\ Phase(t)
      /\ \A u \in Turns : Phase(u)
  BY DEF Typed, TurnType, ConnType
<1>1. \A u \in Turns : prompt[u] # 0 => prompt[u] \in Turns
  BY <1>0 DEF TurnType, Turns
<1>2. ASSUME SendTask(t)
      PROVE  \/ task'[t] \notin Ended /\ response'[t] = "none"
             \/ task'[t] = "done" /\ prompt'[t] = 0 /\ response'[t] = "Error"
             \/ /\ task'[t] = "done" /\ prompt'[t] # 0 /\ outcome' = outcome
                /\ response'[t] = outcome[prompt'[t]]
  <2>1. CASE PushUserMessage(t)
    BY <1>0, <2>1 DEF PushUserMessage, Ready, Phase, TurnType, Ended
  <2>2. CASE ResumeConnection(t) \/ CheckpointTaken(t)
    BY <1>2, <2>2, PromptsAgent DEF ResumeConnection, CheckpointTaken, Ready, Ended
  <2>3. CASE ResponseArrives(t)
    BY <1>0, <2>3 DEF ResponseArrives, TurnType, Phase, connVars
  <2> QED
    BY <1>2, <2>1, <2>2, <2>3 DEF SendTask
<1>3. ASSUME task'[t] = task[t], response'[t] = response[t], prompt'[t] = prompt[t],
             task[t] = "done", prompt[t] # 0
      PROVE  response'[t] = outcome'[prompt'[t]]
  <2>1. response[t] = outcome[prompt[t]] /\ response[t] # "none"
    BY <1>0, <1>3 DEF Answered, Phase, Ended
  <2> QED
    BY <1>1, <1>3, <2>1, OutcomeFinal
<1>4. task'[t] = "done" /\ prompt'[t] # 0 => response'[t] = outcome'[prompt'[t]]
  BY <1>2, <1>3, TurnSteps DEF TurnStep, Ended
<1>5. response'[t] = "Refusal" => prompt'[t] # 0 /\ task'[t] = "done"
  <2>1. t = turns + 1 => response[t] = "none"
    BY <1>0 DEF Phase, Ended
  <2> QED
    BY <1>2, <2>1, TurnSteps DEF TurnStep, Answered
<1>6. ASSUME prompt'[t] # 0, outcome'[prompt'[t]] = "Refusal" PROVE t \notin Remembered'
  <2>1. Connection!Start \/ Connection!Cancel =>
          \A x \in Turns : outcome'[x] = "Refusal" => outcome[x] = "Refusal"
    BY <1>0 DEF Connection!Start, Connection!Cancel, Connection!Interrupted, ConnType
  <2>2. \A x \in Turns : UNCHANGED connVars => outcome'[x] = outcome[x]
    BY DEF connVars
  <2>3. ASSUME prompt'[t] = prompt[t], outcome[prompt[t]] = "Refusal", Remembered' \subseteq Remembered \cup (Turns \ {t})
        PROVE  t \notin Remembered'
    BY <1>6, <2>3 DEF Answered
  <2>4. ASSUME NEW u \in Turns, SendTask(u), Prompts(u), task[u] \in {"queued", "checkpoint"}
        PROVE  t \notin Remembered'
    <3>1. Remembered' = Remembered \/ Remembered' = Remembered \cup {u}
      BY <2>4, PromptsAgent DEF Remembered
    <3>2. CASE u = t
      <4>1. Connection!Start /\ prompt'[t] = started + 1
        BY <1>6, <2>4, <3>2, PromptsAgent
      <4>2. outcome'[started + 1] = "none"
        BY <1>0, <4>1 DEF Connection!Start, Connection!Interrupted, ConnType, Turns
      <4> QED
        BY <1>6, <4>1, <4>2
    <3>3. CASE u # t
      <4>1. prompt'[t] = prompt[t]
        BY <2>4, <3>3, PromptsType
      <4>2. outcome[prompt[t]] = "Refusal"
        BY <1>1, <1>6, <2>1, <2>2, <2>4, <4>1, PromptsAgent
      <4> QED
        BY <2>3, <3>1, <3>3, <4>1, <4>2
    <3> QED
      BY <3>2, <3>3
  <2>5. ASSUME NEW m \in Turns, rewind(m) PROVE t \notin Remembered'
    <3>1. Connection!Cancel /\ prompt' = prompt
      BY <2>5 DEF rewind
    <3>2. Remembered' \subseteq Remembered
      BY <2>5, RewindCuts DEF Remembered
    <3> QED
      BY <1>1, <1>6, <2>1, <2>3, <3>1, <3>2
  <2>6. ASSUME NEW reason \in Reasons, AgentFinishes(reason) PROVE t \notin Remembered'
    <3>1. prompt' = prompt /\ outcome' = [outcome EXCEPT ![current] = reason]
      BY <2>6 DEF AgentFinishes, Connection!Finish
    <3>2. Remembered' \subseteq Remembered
      BY <2>6, FinishForgets DEF Remembered
    <3>3. CASE prompt[t] # current
      BY <1>0, <1>1, <1>6, <2>3, <3>1, <3>2, <3>3 DEF ConnType
    <3>4. CASE prompt[t] = current
      <4>1. reason = "Refusal"
        BY <1>0, <1>1, <1>6, <3>1, <3>4 DEF ConnType
      <4>2. \A m \in Turns : prompt[m] = current => m = t
        BY <1>6, <3>1, <3>4 DEF AgentTurn, Turns
      <4>3. Remembered \subseteq Turns
        BY DEF Remembered, MemoryIncreases
      <4>4. CASE memory' = memory
        BY <2>6, <3>4, <4>1, <4>4, FinishForgets DEF Remembered
      <4> QED
        BY <2>6, <3>4, <4>1, <4>2, <4>3, <4>4, FinishForgets
    <3> QED
      BY <3>3, <3>4
  <2>7. CASE UNCHANGED <<memory, prompt>> /\ (UNCHANGED connVars \/ Connection!Cancel)
    <3>1. Remembered' = Remembered
      BY <2>7 DEF Remembered
    <3> QED
      BY <1>1, <1>6, <2>1, <2>2, <2>3, <2>7, <3>1
  <2> QED
    BY <2>4, <2>5, <2>6, <2>7, AgentSteps
<1> QED
  BY <1>4, <1>5, <1>6

\* What the agent knows is shown, unless a resume was refused.
Known ==
  \/ Remembered \subseteq Shown
  \/ \E t \in Turns : kind[t] = "resume" /\ response[t] = "Refusal"

\* A message that is shown and that the agent does not know is on its way to it,
\* or will have been refused, or its turn failed or was dropped.
Accounted(m) ==
  \/ response[m] \in {"Refusal", "Error", "Dropped"}
  \/ task[m] = "checkpoint"
  \/ task[m] = "prompting" /\ outcome[prompt[m]] = "Refusal"

Lost == \A m \in Shown \ Remembered : Accounted(m)

\* A refusal takes away at most the last message that is shown.
LEMMA RefusalShown ==
  ASSUME Typed, EntryOrder, RefusalHandled, Typed'
  PROVE  \/ Shown' = Shown
         \/ \E l \in Shown : (\A u \in Shown : u <= l) /\ Shown' = Shown \ {l}
<1>1. turns \in Nat /\ entries \in Seq(Entries(turns))
  BY DEF Typed, TurnType
<1>2. Shown = {u \in Turns : PositionOf(u) # {}} /\ Shown' = {u \in Turns : PositionOf(u)' # {}}
  BY ShownTurns, ShownTurnsNext
<1>3. CASE entries' = entries
  BY <1>3 DEF Shown, IsUser
<1>4. ASSUME NEW ix \in LastUserMessage, entries' = SubSeq(entries, 1, ix - 1)
      PROVE  \E l \in Shown : (\A u \in Shown : u <= l) /\ Shown' = Shown \ {l}
  <2>0. PICK l : l = entries[ix].turn
    OBVIOUS
  <2>1. ix \in DOMAIN entries /\ ix \in Nat /\ ix - 1 \in 0..Len(entries) /\ IsUser(ix)
    BY <1>1 DEF LastUserMessage
  <2>2. l \in Shown
    BY <2>0, <2>1 DEF Shown
  <2>3. ix \in PositionOf(l) /\ l \in Turns
    BY <1>2, <2>0, <2>1, <2>2 DEF PositionOf
  <2>4. ASSUME NEW u \in Turns, NEW jx \in PositionOf(u) PROVE jx <= ix /\ jx \in Nat
    BY <1>1, <1>4 DEF LastUserMessage, PositionOf
  <2>5. ASSUME NEW u \in Shown PROVE u <= l
    <3>1. PICK jx \in PositionOf(u) : u \in Turns /\ jx <= ix /\ jx \in Nat
      BY <1>2, <2>4
    <3>2. ~(l < u)
      BY <2>1, <2>3, <3>1 DEF EntryOrder
    <3> QED
      BY <2>3, <3>1, <3>2 DEF Turns
  <2>6. FewerMessages /\ \A u \in Turns : \A jx \in PositionOf(u) : jx <= ix - 1 => jx \in PositionOf(u)'
    BY <1>1, <1>4, <2>1, MessagesCut
  <2>7. PositionOf(l)' = {}
    <3>1. ix \notin DOMAIN entries'
      BY <1>1, <1>4, <2>1
    <3>2. \A jx \in PositionOf(l) : jx = ix
      BY <2>3 DEF EntryOrder
    <3>3. PositionOf(l)' \subseteq PositionOf(l)
      BY <2>3, <2>6 DEF FewerMessages
    <3>4. PositionOf(l)' \subseteq DOMAIN entries'
      BY DEF PositionOf
    <3> QED
      BY <3>1, <3>2, <3>3, <3>4
  <2>8. ASSUME NEW u \in Turns, u # l, NEW jx \in PositionOf(u) PROVE jx \in PositionOf(u)'
    <3>1. u < l
      BY <1>2, <2>3, <2>5, <2>8 DEF Turns
    <3>2. jx < ix
      BY <2>3, <2>8, <3>1 DEF EntryOrder
    <3> QED
      BY <2>1, <2>4, <2>6, <2>8, <3>2
  <2>9. ASSUME NEW u \in Turns PROVE PositionOf(u)' # {} <=> PositionOf(u) # {} /\ u # l
    <3>1. PositionOf(u)' \subseteq PositionOf(u)
      BY <2>6 DEF FewerMessages
    <3>2. ASSUME u # l PROVE PositionOf(u) \subseteq PositionOf(u)'
      BY <2>8, <3>2
    <3>3. CASE u = l
      BY <2>7, <3>3
    <3>4. CASE u # l
      BY <3>1, <3>2, <3>4
    <3> QED
      BY <3>3, <3>4
  <2>10. Shown' = Shown \ {l}
    BY <1>2, <2>9
  <2> QED
    BY <2>2, <2>5, <2>10
<1> QED
  BY <1>3, <1>4 DEF RefusalHandled

LEMMA AccountedKept ==
  ASSUME Typed, Alone, AgentTurn, MemoryIncreases, RememberedSent, EntryOrder, [Next]_vars,
         NEW m \in Shown, Accounted(m)
  PROVE  Accounted(m)' \/ m \in Remembered'
<1>0. /\ m \in Turns /\ kind[m] = "send" /\ m <= turns /\ turns \in Nat /\ TurnType /\ ConnType
      /\ Phase(m)
  BY ShownTurns DEF EntryOrder, Typed, TurnType
<1>1. CASE response[m] \in {"Refusal", "Error", "Dropped"}
  BY <1>0, <1>1, TurnFinal DEF Accounted
<1>2. ~(m = turns + 1)
  BY <1>0
<1>3. CASE response'[m] = "Dropped"
  BY <1>3 DEF Accounted
<1>4. CASE task[m] = "checkpoint"
  <2>1. CASE SendTask(m)
    <3>1. CheckpointTaken(m)
      BY <1>4, <2>1 DEF SendTask, PushUserMessage, ResumeConnection, ResponseArrives, Ready
    <3>2. m \in Remembered' \/ response'[m] = "Error"
      BY <1>0, <1>4, <2>1, <3>1, PromptsAgent DEF CheckpointTaken
    <3> QED
      BY <3>2 DEF Accounted
  <2> QED
    BY <1>0, <1>2, <1>3, <1>4, <2>1, TurnSteps DEF TurnStep, Accounted
<1>5. CASE task[m] = "prompting" /\ outcome[prompt[m]] = "Refusal"
  <2>1. CASE SendTask(m)
    <3>1. response'[m] = "Refusal"
      BY <1>0, <1>5, <2>1
         DEF SendTask, PushUserMessage, ResumeConnection, CheckpointTaken, ResponseArrives, Ready, TurnType
    <3> QED
      BY <3>1 DEF Accounted
  <2>2. prompt[m] \in Turns
    BY <1>0, <1>5 DEF Phase, TurnType, Turns
  <2>3. outcome'[prompt[m]] = "Refusal"
    BY <1>5, <2>2, OutcomeFinal
  <2> QED
    BY <1>0, <1>2, <1>3, <1>5, <2>1, <2>3, TurnSteps DEF TurnStep, Accounted
<1> QED
  BY <1>1, <1>4, <1>5 DEF Accounted

LEMMA LostStep ==
  ASSUME Typed, Alone, AgentTurn, Answered, MemoryIncreases, RememberedSent, EntryOrder, Lost,
         [Next]_vars
  PROVE  Lost'
<1> SUFFICES ASSUME NEW m \in Shown', m \notin Remembered' PROVE Accounted(m)'
  BY DEF Lost
<1>0. Typed' /\ TurnType /\ \A t \in Turns : Phase(t)
  BY TypedStep DEF Typed
<1>1. /\ Shown = {u \in Turns : PositionOf(u) # {}} /\ Shown' = {u \in Turns : PositionOf(u)' # {}}
  BY <1>0, ShownTurns, ShownTurnsNext
<1>2. CASE m \notin Remembered /\ m \in Shown
  BY <1>2, AccountedKept DEF Lost
<1>3. CASE m \notin Shown
  <2>1. PICK t \in Turns : PushUserMessage(t)
    BY <1>1, <1>3, Messages DEF SameMessages, FewerMessages
  <2>2. t = m
    BY <1>1, <1>3, <2>1, PushMessages
  <2> QED
    BY <1>0, <2>1, <2>2 DEF PushUserMessage, TurnType, Accounted
<1>4. CASE m \in Remembered
  <2>1. m \in Turns /\ task[m] \in {"prompting", "done", "dropped"}
    BY <1>4 DEF RememberedSent, Remembered, MemoryIncreases
  <2>2. memory' # memory
    BY <1>4 DEF Remembered
  <2>3. ~(\E t \in Turns : SendTask(t) /\ Prompts(t) /\ task[t] \in {"queued", "checkpoint"})
    BY <1>4, <2>2, PromptsAgent
  <2>4. ~(\E n \in Turns : rewind(n))
    BY <1>4, <2>2, RewindCuts
  <2>5. PICK reason \in Reasons : AgentFinishes(reason)
    BY <2>2, <2>3, <2>4, AgentSteps
  <2>6. /\ UNCHANGED <<task, response, prompt>> /\ outcome' = [outcome EXCEPT ![current] = reason]
        /\ current # 0
    BY <2>5 DEF AgentFinishes, Connection!Finish
  <2>7. reason = "Refusal" /\ prompt[m] = current
    BY <1>4, <2>2, <2>5, FinishForgets
  <2>8. outcome[current] = "none" /\ current \in Turns
    BY <1>0, <2>1, <2>6, <2>7 DEF AgentTurn, TurnType, Turns
  <2>9. CASE task[m] = "prompting"
    <3>1. outcome'[prompt'[m]] = "Refusal"
      BY <2>6, <2>7, <2>8 DEF Typed, ConnType
    <3> QED
      BY <2>6, <2>9, <3>1 DEF Accounted
  <2>10. CASE task[m] = "done"
    <3>1. response[m] = "none"
      BY <2>1, <2>6, <2>7, <2>8, <2>10 DEF Answered
    <3> QED
      BY <1>0, <2>1, <2>10, <3>1 DEF Phase, Ended
  <2>11. CASE task[m] = "dropped"
    BY <1>0, <2>1, <2>6, <2>11 DEF Phase, Accounted
  <2> QED
    BY <2>1, <2>9, <2>10, <2>11
<1> QED
  BY <1>2, <1>3, <1>4

LEMMA KnownStep ==
  ASSUME Typed, Alone, AgentTurn, Answered, MemoryIncreases, RememberedSent, EntryOrder, PromptThere,
         Known, [Next]_vars
  PROVE  Known'
<1>0. Typed' /\ TurnType /\ turns \in Nat /\ \A t \in Turns : Phase(t)
  BY TypedStep DEF Typed, TurnType
<1>1. /\ Shown = {u \in Turns : PositionOf(u) # {}} /\ Shown' = {u \in Turns : PositionOf(u)' # {}}
      /\ Shown \subseteq 1..turns
  BY <1>0, ShownTurns, ShownTurnsNext
<1>2. ASSUME NEW t \in Turns, kind[t] = "resume", response[t] = "Refusal" PROVE Known'
  BY <1>2, TurnFinal DEF Known
<1>3. CASE Remembered \subseteq Shown
  <2>1. ASSUME NEW t \in Turns, SendTask(t), Prompts(t), task[t] \in {"queued", "checkpoint"}
        PROVE  Remembered' \subseteq Shown
    <3>1. CASE memory' = memory
      BY <1>3, <3>1 DEF Remembered
    <3>2. CASE Remembered' = Remembered \cup {t} /\ kind[t] = "send" /\ memory' # memory
      <4>1. task[t] = "checkpoint"
        BY <2>1, <3>2 DEF SendTask, PushUserMessage, ResumeConnection, CheckpointTaken, ResponseArrives,
                          Ready, agentVars
      <4>2. completion[t] = "waiting" /\ t \notin cut
        BY <1>0, <4>1 DEF Phase, Ended, Alone, Over, Turns
      <4> QED
        BY <1>1, <1>3, <3>2, <4>1, <4>2 DEF PromptThere, Over
    <3> QED
      BY <2>1, <3>1, <3>2, PromptsAgent
  <2>2. ASSUME NEW m \in Turns, rewind(m) PROVE Known'
    <3>1. CASE memory' = memory /\ Shown' = Shown
      BY <1>3, <3>1 DEF Known, Remembered
    <3> QED
      BY <1>3, <2>2, <3>1, RewindCuts DEF Known
  <2>3. ASSUME ~(\E m \in Turns : rewind(m)) PROVE Remembered' \subseteq Shown
    <3>1. ASSUME memory' = memory PROVE Remembered' \subseteq Shown
      BY <1>3, <3>1 DEF Remembered
    <3>2. ASSUME NEW reason \in Reasons, AgentFinishes(reason) PROVE Remembered' \subseteq Shown
      BY <1>3, <3>1, <3>2, FinishForgets
    <3> QED
      BY <2>1, <2>3, <3>1, <3>2, AgentSteps
  <2>4. CASE Shown \subseteq Shown' /\ ~(\E m \in Turns : rewind(m))
    BY <2>3, <2>4 DEF Known
  <2>5. ASSUME NEW t \in Turns, Finished(t), response[t] = "Refusal", RefusalHandled, CompletionTask(t)
        PROVE  Known'
    <3>1. CASE kind[t] = "resume"
      BY <1>2, <2>5, <3>1
    <3>2. CASE kind[t] = "send"
      <4>1. task[t] = "done" /\ prompt[t] # 0 /\ t \notin Remembered
        BY <2>5 DEF Answered
      <4>2. completion[t] \notin Over /\ t \in 1..turns
        BY <1>0, <2>5, <4>1
           DEF CompletionTask, ResponseReceived, update_last_checkpoint, CheckpointUpdated, Over, Phase, Turns
      <4>3. t = turns /\ t \notin cut
        BY <1>0, <4>2 DEF Alone
      <4>4. t \in Shown
        BY <1>1, <3>2, <4>1, <4>2, <4>3 DEF PromptThere
      <4>5. memory' = memory
        BY <2>5 DEF Finished
      <4>6. Shown' = Shown \/ Shown' = Shown \ {t}
        <5>1. ASSUME NEW l \in Shown, \A u \in Shown : u <= l PROVE l = t
          BY <1>0, <1>1, <4>3, <4>4, <5>1
        <5> QED
          BY <1>0, <2>5, <5>1, RefusalShown
      <4> QED
        BY <1>3, <4>1, <4>5, <4>6 DEF Known, Remembered
    <3> QED
      BY <1>0, <3>1, <3>2 DEF TurnType
  <2>6. SameMessages \/ (\E t \in Turns : PushUserMessage(t)) => Shown \subseteq Shown'
    BY <1>1, PushMessages DEF SameMessages
  <2> QED
    BY <2>2, <2>4, <2>5, <2>6, Messages
<1> QED
  BY <1>2, <1>3 DEF Known

Conversation ==
  /\ Typed /\ Alone /\ AgentTurn /\ Answered /\ MemoryIncreases /\ RememberedSent /\ EntryOrder
  /\ PromptThere /\ Known /\ Lost

LEMMA ConversationInit ==
  ASSUME Init
  PROVE  Conversation
<1>1. Typed /\ DOMAIN entries = {} /\ DOMAIN memory = {}
  BY TypedInit DEF Init
<1>2. Shown = {} /\ Remembered = {} /\ \A t \in Turns : PositionOf(t) = {}
  BY <1>1 DEF Shown, Remembered, PositionOf
<1>3. Alone /\ AgentTurn /\ Answered
  BY <1>2 DEF Init, Connection!Init, Alone, AgentTurn, Answered, Turns
<1>4. MemoryIncreases /\ RememberedSent
  BY <1>2 DEF Init, MemoryIncreases, RememberedSent
<1>5. EntryOrder /\ PromptThere
  BY <1>2 DEF Init, EntryOrder, PromptThere
<1> QED
  BY <1>1, <1>2, <1>3, <1>4, <1>5 DEF Conversation, Known, Lost

LEMMA ConversationSame ==
  ASSUME Conversation
  PROVE  SameConversation
<1> SUFFICES ASSUME Calm
             PROVE  /\ \/ Remembered \subseteq Shown
                       \/ \E t \in Turns : kind[t] = "resume" /\ response[t] = "Refusal"
                    /\ \A m \in Shown \ Remembered : response[m] \in {"Refusal", "Error", "Dropped"}
  BY DEF SameConversation
<1>1. \A m \in Shown : task[m] \in Ended
  BY ShownTurns DEF Conversation, Calm
<1> QED
  BY <1>1 DEF Conversation, Known, Lost, Accounted, Ended

\* Users who wait for a turn to end have the same conversation before them as
\* the agent, however they stop, resume and rewind turns (run_turn, rewind,
\* cancel_generation and the Refusal arms of AcpThread and the agent).
THEOREM ConversationAlwaysSame == ASSUME ~Impatient PROVE Spec => []SameConversation
<1>1. Conversation /\ [Next]_vars => Conversation'
  BY TypedStep, AloneStep, AgentTurnStep, AnsweredStep, RememberedSentStep, EntryOrderStep,
     PromptThereStep, KnownStep, LostStep
     DEF Conversation
<1>2. Init => Conversation
  BY ConversationInit
<1>3. Conversation => SameConversation
  BY ConversationSame
<1> QED
  BY <1>1, <1>2, <1>3, PTL DEF Spec

=============================================================================

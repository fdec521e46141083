# Jamu: formal models of the agent

Jamu is a fork of the Zed editor that shows only the agent panel and drives Ableton Live
through MCP tools. Its own core logic is the agent: a conversation with a language model, the
tools it calls, and the context servers that provide them. This directory holds TLA+ models of
that core, TLC configurations that check them on small instances, and proofs checked by TLAPS.

The editor Jamu inherits (text CRDT, editor, language servers, collaboration, debugger,
extensions) is not modelled; `PROJECT.json` lists every component with its status.

## 1. Inventory

All agent code runs on gpui's single foreground executor. A task runs without interruption from
one `await` to the next, a task that is dropped never runs again, and events of an entity are
delivered at the end of the update that emits them. So concurrency here means: tasks interleave
at awaits, and everything a task read before an await may be stale after it.

| Component | Code (`src/crates/`) | State | Operations |
|---|---|---|---|
| Agent thread | `agent2/src/thread.rs` | messages, pending message, running turn, title, summary, token usage | send, resume, cancel, truncate, set_title, summary; the turn task: request, stream, tools, retry |
| Retry policy | `agent2/src/thread.rs:1336-1389, 2009-2130` | attempt | strategy of an error, delay, giving up |
| Conversation | `acp_thread/src/acp_thread.rs`, `agent_ui/src/acp/thread_view.rs` | entries, `send_task`, per-turn tasks, the view's `_cancel_task` | send, resume, cancel, rewind, tool call updates and permissions, checkpoints, refusals |
| Connection | `acp_thread/src/connection.rs`, `agent2/src/agent.rs` | sessions | prompt, resume, cancel, truncate |
| Context servers | `project/src/context_server_store.rs`, `agent2/src/tools/context_server_registry.rs`, `context_server/src/context_server.rs` | server states, settings, pending updates, tool lists, clients | start, stop, maintain, load tools, call a tool |
| Protocol client | `context_server/src/{client,protocol,context_server}.rs`, `transport/stdio_transport.rs` | response handlers, two queues and their tasks, the server's process | handshake, request, answer, time out, cancel, stop |
| Persistence, history | `agent2/src/{db,agent,history_store}.rs` | SQLite rows, sessions with their pending saves, history list | save, open, close, mention, delete, list, restart |
| Providers | `language_models`, `language_model` | registry, API keys, rate limiter | stream a completion |
| Action log | `action_log`, `assistant_tools/src/edit_agent.rs` | tracked buffers, diff bases, unreviewed hunks, queued updates | read, create, edit, delete, commit, keep, reject |
| Terminals | `acp_thread/src/terminal.rs` | terminals, buffered events | create, output, exit, kill |

How they interact: the view calls `AcpThread`; `AcpThread` calls `AgentConnection` (prompt, cancel,
truncate) and gets a stream of events and one response for each prompt; `NativeAgentConnection`
implements that trait with `Thread::send`, `cancel` and `truncate` and forwards the thread's
event channel; `Thread` calls a provider for each request and runs tools as tasks; the tools of context
servers come from `ContextServerRegistry`, which follows the events of `ContextServerStore`; the
store follows the settings and the extensions.

What is hard, and what correctness means there:

* **Agent thread.** A turn may be cancelled, overtaken, refused, failed or truncated at each of
  its awaits, while tools run and while a retry timer runs. Whatever happens, the stored
  conversation must remain one the provider accepts (every tool use has a result, a request ends
  with the user's side), no finished tool's result may be lost, a refusal must restore the conversation,
  and each turn reports exactly one end.
* **Conversation.** One turn is spread over a send task and a completion task, and the next turn
  may start while both are under way. Turns must not overlap, the thread must not stay
  *Generating* for ever, every caller gets its answer, and what the user sees must be what the
  agent remembers.
* **Context servers.** Settings change while the previous change is still being applied, servers
  start, fail, stop and are replaced while their tool lists are under way. No change may be lost,
  and the model must be offered the tools of exactly the servers that run.
* **Retries.** Errors of different kinds alternate, each with its own budget, under one counter.
* **Persistence.** Every notified change of a thread starts a save and drops the one before it, which a background
  thread may already be writing; some changes are not notified; a thread can be open in several agents, be closed, deleted, or cut off by
  a restart at any step. The disk must hold a state the thread was in, never an older one than before, and
  the newest that was notified in the end; the history must list what is there.
* **Protocol client.** The server answers late, twice, out of order or never, and may die. An answer must reach
  its own call, every call must end, and a server that is stopped must not live on.
* **Action log.** Edits of the agent and of the user, commits and reviews come in any order while the diff is
  updated in the background. Each change of the agent must be shown for review until it is reviewed, and
  nothing else.

`PROJECT.json` lists the hazards one by one, at the line where each bites, with the properties that
cover it or the reason why none does.

## 2. Modules

| Module | Models | Composition |
|---|---|---|
| `RetryPolicy` | `retry_strategy_for`, the decision and the delay of `handle_completion_error`; pure operators | used by the next two |
| `RetryLoop` | the retry bookkeeping of one turn with every class of error and plan | extends `RetryPolicy` |
| `AgentTurns` | abstract: what a connection promises of its turns | contract between the next two |
| `AgentThread` | `Thread`: conversation and turn loop | extends `RetryPolicy`, implements `AgentTurns` |
| `AcpThread` | `AcpThread`, its two tasks per turn, the stop button of the view | is built over `AgentTurns` |
| `ContextServers` | `ContextServerStore`, `ContextServerRegistry`, `ContextServer` | stands alone |
| `ContextServerClient` | `Client`, `ModelContextProtocol`, `StdioTransport`, the client's life in `ContextServer` | stands alone: one server of `ContextServers` in detail |
| `ThreadPersistence` | `NativeAgent`'s sessions, `ThreadsDatabase`, `HistoryStore` | stands alone |
| `ActionLog` | `ActionLog` and its callers in the edit tools | stands alone |
| `RetryLoopProofs`, `AgentThreadProofs`, `AcpThreadProofs`, `ContextServersProofs`, `ContextServerClientProofs`, `ThreadPersistenceProofs`, `ActionLogProofs` | theorems | each extends the module it is about |
| `AgentContractProofs` | theorems | extends `AgentThreadProofs` and its inductive invariant |
| `MC...` | values of the constants for TLC | |

The agent and the conversation are checked by assumption and guarantee: `agent_turns` shows that
`AgentThread` implements `AgentTurns`, and `AcpThread` uses nothing of the agent but the actions of
`AgentTurns` (and the list of the user messages the agent has). Their product would multiply two
state spaces of a million states each.

### AgentThread

Variables carry the names of the fields and locals they stand for. `pc` says which await of
`run_turn_internal` the turn's task is at:

| `pc` | await in `thread.rs` | actions that end it |
|---|---|---|
| `request` | `stream_completion(..).await` | `RequestAccepted`, `RequestFailed` |
| `stream` | `events.next().await` | one action for each event: `TextChunk`, `handle_tool_use_event`, `StopEvent` ...; `StreamOver` |
| `tools` | `tool_results.next().await` | `ToolFinishes`, `ErrorDelivered` |
| `retry` | `timer.await` | `RetryTimer` |
| `idle` | no task | |

What follows an await up to the next one is one action: `StreamOver` with no tool left performs
the flush, generates a title, and decides between repeating, failing, ending the turn and the next
round. The calls (`send`, `resume`, `cancel`, `truncate`, `set_title`, `Summarize`) may come between any two steps and
drop the task, as dropping `RunningTurn` does. Tools may finish at any time, and their results are
taken in any order.

`send` and `resume` may come while a turn runs. `AcpThread` cancels a turn before the next and waits for its send task, but
not for one the user stopped by hand: `thread_view.rs:862` has taken `send_task` then, so the next `AcpThread::cancel`
returns at once (`acp_thread.rs:1756`), and a stopped turn that was awaiting its checkpoint prompts as well as the new one. The later of the two
pushes its message (`thread.rs:1174`) before `run_turn` cancels the other (1185), which flushes the interrupted answer behind that
message; `message_ix` (1194) is then the place of that answer, behind the prompt. `overtook` is auxiliary and records that this happened to the running turn, `before` the messages
there were before its own.

Abstractions: a user message is its number; text is its kind; a tool result is *ok*, *error* or *canceled*;
`pending_message` of `None` and of the default are one value, because the code treats them alike; a summary
is absent, fresh or stale. The channel of a turn is reduced to its final events and the last status of each tool call.

### AcpThread

For each call of `run_turn` the model keeps where its send task is (`task`), whose end it awaits
(`waits_for`), what arrived on the oneshot (`response`) and where its completion task is
(`completion`). `Owned(t)` is the set of tasks that go when a task is dropped: a send task that has
not been polled yet holds the cancel task it awaits, and that holds the previous send task; it is written as the least set
closed under "holds", so that it can be reasoned about. The
view's `cancel_generation` stores the cancelled send task in `_cancel_task`, which drops the
one stored there; `stop_current_and_send_new_message` detaches a task of its own instead.

Checkpoints are reduced to being there or not. Assistant text, plans, terminals, token usage and
titles are left out: no control flow of the modelled operations looks at them. Elicited
permissions are the status `WaitingForConfirmation`, answered by `authorize_tool_call`.

Auxiliary: `stopped`, the turns the user stopped and those a stopped turn waited for; and `cut`, the turns that were under way or
in `send_task` when a rewind, or the refusal of another turn, took messages away: their own message may be gone when they finish.

### ContextServers

`maintain_servers` is two actions, before and after the await for the commands of extensions; so
is `start_server` after its task has been spawned. `EventsHandled` is what the registry does when the events of
an update are delivered. `connected` holds the instances that have a client. Auxiliary variables
record which servers the user stopped (`halted`), which instances `remove_server` dropped without
stopping (`removed`) and which servers `start_server` ran with settings that had changed meanwhile
(`outdated`); the actions never read them in a guard.

Simplifications: one call of `start_server` for each server and one tool call at a time; an
instance does not remember the command it was created with; the name of an instance that nothing
refers to may be taken again; `restart_server` has no caller in the repository and is left out; a
server that dies after it has started is not noticed by the store, so there is no action for it.

### ThreadPersistence

A *copy* is one `NativeAgent` with its session: each view connects an agent of its own, and so does each mention of a
thread (`thread_view.rs` and `agent.rs:650`). What a copy or a row knows of a thread is the set of the changes made so far (a truncation is one of them), so
"older" is set inclusion. `contents` says whether the thread is empty (no message and no title: `Thread::is_empty`) and whether it has a title, with which it can never be empty again.

A notification (`Notified`) makes `save_thread` replace the save before it, unless the thread is empty: then the early return at
`agent.rs:667` leaves the row and the save under way as they are. A change without a notification (`Unnotified`) starts no save: the truncation after a refusal (`thread.rs:1216`), the Resume
message of a repetition (1320) and `set_profile` (1088). It is in the next save that is started for another reason, or is lost.
`told` is auxiliary: the state a copy had when it was loaded or last notified with something in it.

`pending_save[c].at` is where the task that `save_thread` stores in the session is:

| `at` | code in `agent.rs` and `db.rs` | ends with |
|---|---|---|
| `pending` | `thread.to_db().await`, the write is not yet picked up | `WriteStarts` |
| `writing` | `save_thread_sync` runs on a background thread | `WriteEnds`, which stores the row or fails |
| `written` | back in the foreground, before `history.reload` | `SaveOver` |
| `ready` | no task | |

`Dropped` says what replacing or closing does to that task: a pending one vanishes, a written one no longer reloads the
history, and one that is *writing* goes on as an *orphan*. A `reload` is a task that lists the rows on a background thread (`list_threads`) and
stores the list when it is back (`ListArrives`, in any order). `Quit` ends the process at any point and
starts it again. Auxiliary: `disturbed` (threads open twice, or whose write was orphaned), `unsaved` (the last write failed or the row was deleted), `unlisted`
and `reordered` (the list is known to be out of date); no guard reads them.

### ContextServerClient

One call is one use of `request_with`, call 0 the handshake. `calls[c].at` is the statement it has reached; a message goes out through
`outbound` (read by `Client::handle_output`) and `stdout` (read by the transport), an answer comes in through `inbound`. The handler a call leaves
under its id is its only way to hear of the answer; `Cleared` is what the deferred `take()` at `client.rs:318` does when the output task ends. `Freed`
says that nobody owns the client any more: `stop` only drops one owner, the calls in flight are others. The
server is external: it may answer what it has read in any order, more than once or never, and exit.

### ActionLog

One buffer, whose text is a function on a few rows; the content of a row is the edit that wrote it, `<<author, n>>`. Rows neither
appear nor vanish, which leaves out the row arithmetic of patches (it is covered by the repository's randomized test) and keeps what the
hazards are about: which base an update started from, and what happened to the tracked entry before it is stored. `maintain_diff` first awaits `open_uncommitted_diff` and then
reads the head it compares later ones with (`action_log.rs:253-269`); `git_diff` says how far it is: *opening*, *off* (no diff or no repository), *quiet* (subscribed) or *changed* (there is a commit to take in).
While it is *opening*, and after an entry is made anew, updates wait and commits are no news. `track_edits` and `keep_committed_edits` start an
update with what is tracked then (`task`), `update_diff` stores it; everything else may come in between.
The rows are a set of consecutive integers, a hunk is a longest run of rows that differ.
Auxiliary: `reviewed` (what the agent wrote and the user need not be asked about), `approved` (what he kept and
must not be asked about again), `touched` (rows he may be asked about),
`committed_at` and `lost`.

## 3. What the runs check

| Run | States | Shows |
|---|---|---|
| `retry_loop` | 0.3 M | with every class of error and every plan: no error is repeated beyond the budget of its own kind, errors that retrying cannot fix end the turn, the total wait is bounded |
| `agent_tools` | 1.6 M | two tools in an answer, errors, cancel, truncate, refusal, resume: stored tool uses are answered, requests end with the user's side, results are kept, no tool call is left running, a refusal restores the messages, with a turn that overtakes another told apart |
| `agent_turns` | 0.25 M | a prompt and a resume that overtake one another, titles, summaries, retries up to the limit: every turn ends, with one final event; the user's title stays; the thread implements `AgentTurns`, liveness included |
| `acp_calm` | 0.8 M | one turn after another with tools, permissions, stop, rewind, refusal: both sides have the same conversation, tool output is kept |
| `acp_impatient` | 0.25 M | overlapping calls: a turn that is overtaken is over before the next starts, the thread is not stuck generating, a refusal costs no earlier prompt, every caller of `send` gets its answer |
| `context_servers` | 1.0 M | the tools offered are those of the servers that run, clients exist exactly while servers run, no settings change is lost |
| `thread_persistence` | 0.4 M | a thread open up to twice, saves that are replaced, dropped, orphaned or fail, a restart: rows never go back to an older state, the newest state that was notified is on the disk when no save is under way and gets there in the end, the history lists what is stored |
| `context_server_client` | 0.1 M | a handshake and two calls, late, repeated and missing answers, timeouts, cancellation, exit and stop: answers reach their own call, no call waits without a handler, the server sees the handshake first, every call ends, a stopped server dies |
| `action_log` | 5.3 M | edits of the agent and the user, creation, deletion, commits, keep and reject: once the updates are taken in the diff is true, shows the agent's unreviewed edits, nothing else, and nothing that was kept, or committed once the diff of the repository is open |

Three runs end with a counterexample, because the code does not do what its own comments say; they
are the findings of `PROJECT.json`:

* `agent_parse_error`: a tool use whose input is not JSON leaves only a result in the pending
  message; `flush_pending_message` drops a message without content, result included, so the model
  is asked the identical request again, without limit, although `thread.rs:1391` says that the result is sent back.
  The run has `ParseErrorsAnnounced = FALSE`, as the OpenAI-compatible event mapper reports such
  an error; `agent_turns` has `TRUE` (the mapper of a provider that first announces the tool use).
* `acp_next_generation`: the completion task of a turn that was not cancelled takes and drops `send_task`, whichever turn that belongs to by then,
  which the comment at `acp_thread.rs:1702` wants to prevent. The shortest counterexamples have two turns. Either turn 1 runs alone and ends
  by itself, and turn 2 is sent before turn 1's completion task has run (it also awaits `update_last_checkpoint` first); or turn 2 is sent
  while turn 1 is queued or awaits its checkpoint, when `connection.cancel` finds nothing to cancel, and turn 1 then prompts and ends normally. In
  both, turn 2's send task is dropped. TLC prints one or the other: they have the same length.
* `action_log_reject`: the check that a created file holds only the agent's text compares `tracked.version` with the
  buffer's, but every read and every edit of the agent sets it to the current version. If the agent touches the
  file after the user has typed into it, rejecting deletes the file with the user's text, which the
  comment at `action_log.rs:656` rules out.

Smaller disagreements between comments and code, without a run of their own: `thread.rs:2086`
says "Retry all other 4xx and 5xx errors once." and grants 3 attempts; `thread.rs:2104` says
"Conservatively assume that any other errors are non-retryable" and grants 2; the test at
`agent2/src/tests/mod.rs:1454` says a refusal removes everything after the last user message,
which holds for prompts, while a refused *resume* removes only what follows its Resume message
(`RefusalRestores` states what the code does); a tool call may stay
*InProgress* in the conversation after a turn ended with MaxTokens, although `acp_thread.rs:387` documents that status as currently running; a
refusal that is handled after the next turn has pushed its message removes that message (`acp_thread.rs:1733`), and when the message of
the refused turn is gone already, with a rewind or with another refusal that was handled first, it removes that of an earlier
turn: with three turns two refusals on their way at once cost the first prompt (`RefusalKeepsEarlierPrompts` says what remains true); and `start_server` runs a server with settings it read before it awaited the command, after
`maintain_servers` has stopped it for being disabled (`context_server_store.rs:340`).

What modelling brought to light, and the properties therefore allow for:

* A turn that overtakes an answering one at the agent (after a stop by hand, see `AgentThread` in section 2) sends a first request that ends with the
  cut-off answer instead of its prompt, and if it is refused its prompt stays in the messages (`overtook` in `RequestEndsWithUser` and `RefusalRestores`).
* After a refusal the disk keeps the refused messages until something else is notified, because the truncation is not; and a thread that
  becomes empty again keeps its older row, or the save under way, because `save_thread` returns early. `LatestSaved` and `ChangesReachDisk` speak of what was
  notified (`told`).
* A commit made while `maintain_diff` awaits `open_uncommitted_diff` is not taken in, then or later: its hunks stay up for review (`CommitsAreReviews` speaks of commits that `maintain_diff` hears of).
* An orphaned write may overwrite the row a newer save has written, and a mention saves its own copy over the row, whatever the first
  copy has saved meanwhile (`disturbed` in `LatestSaved` and `RowsOnlyGrow`). Closing a view drops a save that is still
  pending. A deleted thread that is still open comes back with its next save. Notifications that keep coming can
  keep a save from starting: `ChangesReachDisk` holds because the model bounds the changes.
* Handlers of calls that timed out stay in the map until a late answer takes them. `stop` does not end the process while a
  call is in flight, which may take as long as its timeout; a dead process is noticed only when a later message
  fails, and calls in flight till then end by their timeout.
* A hunk that is kept while an update is under way is asked about again, because the update stores the base it
  began with; and one that is kept while edits of the same row wait in the queue may be, because the diff under review is
  behind the buffer. A row that is kept, replaced in the base by a later review or commit, and then brought back by the user is a change against that
  base again. `approved` leaves these out; the last two need several edits of one row and a longer queue than the
  run has, and came to light with the proof of `KeptStaysKept`. A commit that accepts all of a created file leaves its status at *Created*. What a
  formatter does between the two reports of `edit_file_tool.rs:397-417` counts as the user's edit. The first
  edit of a buffer that is not tracked is taken as read and never reviewed (`ReadNow` in `buffer_edited`).

### Bounds

Every bound is a constant in a guard of the action it limits.

* `MaxPrompts`, `MaxTurns`, `MaxMessages`: two turns, in `agent_turns` a prompt and a resume, are the fewest in which one overtakes
  another, one turn refuses what another stored, or a stale task meets a newer turn. The
  properties of the agent thread relate one turn to the one before it. `MaxMessages = 3` holds a prompt, an answer with tools and
  what follows; a third tool round changes nothing the properties can tell apart.
* `MaxContent`, `MaxTasks`, two tool ids: two tool uses in one answer are needed for results out of
  order, one error among results, and one running while another fails.
* `MaxEntries = 4` in `AcpThread`: two user messages and two tool calls.
* `ContextServers`: two servers that are unlike each other (a custom command, nothing to await; an extension, whose
  command is awaited), three instances (one in the store, one in `start_server`, one held by a call),
  three requests (changes, starts, stops, calls): enough for a change during an update and
  another after it. The theorems below hold for all numbers.
* `ThreadPersistence`: threads do not interact except through the list, which is stored as a whole, so one thread; two copies,
  for two views or a view and a mention; two changes, the fewest of which one can be lost; two reloads, for one
  that overtakes another; one restart. The theorems hold for all numbers.
* `ContextServerClient`: the handshake and two calls, for answers out of order; three answers, so that one may
  be repeated or come for a call that has ended.
* `ActionLog`: two rows are a hunk and a row beside it, or two hunks that merge; three edits, for one of the
  agent between two of the user and the reverse. With these bounds an earlier, stronger `KeptStaysKept` held that is wrong
  with five edits of one row and a queue of four: what made the run too small for it is why the theorems below, which hold
  for any rows, edits and queue, are needed here.
* Errors: `RetryLoop` has all classes; `AgentThread` needs one that is never, one that is once and one
  that is often repeated.

`CHECK_DEADLOCK FALSE` stands where users or the environment need not do anything more: `AcpThread`, `ContextServers`, `ThreadPersistence`, `ContextServerClient` and `ActionLog` once all turns,
requests, changes, calls or edits are over, `RetryLoop` once the turn has ended. `AgentThread` is checked for deadlock.

### Fairness

Liveness is checked under weak fairness of what the executor and the environment do by
themselves: a task whose await is over is polled (gpui's executor), the provider answers each
request and closes each stream, each tool returns, git answers. Users are never assumed to act: a tool
call that waits for permission excuses `EveryTurnAnswered`. In `AgentThread` a stream may be
closed at any time, so weak fairness of `StreamCloses` says only that it does not go on for
ever; `ThreadPersistence` assumes that saves and reloads which can go on do, `ContextServerClient` that callers and tasks
are polled and timers fire, and nothing of the server; neither assumes a restart, a closing or a call. The parse-error livelock is excluded from that run by its constant, and shown in the other.

## 4. What is proved

TLAPS checks these for every value of the constants that satisfies the modules' assumptions.

**RetryLoopProofs** (`RetryLoop`). `BudgetAlwaysKept` and `HopelessAlwaysEnds`, for any set of errors and plans. The
invariant says that while the turn runs `attempt` is the number of repetitions granted since the
last round of tools, and that each was granted within the budget of its own error; both
properties follow from it. `StrategyWithinMaximum`, that no strategy exceeds `MAX_RETRY_ATTEMPTS`, is a lemma about
`retry_strategy_for` and needs no assumption about errors. `WaitAlwaysBounded` adds `WaitInv`: the seconds waited are bounded by a
function of the number of repetitions (0, 5, 15, 35, 75), to which each delay adds at most its step, because the exponent of `retry_delay` counts
every attempt. It assumes `ErrorsAssumption`, that a server's hint is a number of seconds (`Option<Duration>`).

**AgentThreadProofs** (`AgentThread`). `TypeCorrect`, `ToolUsesAlwaysAnswered` and `ExactlyOneFinalEvent`.
The inductive invariant is

    IInv == TypeOK /\ TaskMatchesTurn /\ ToolUsesAnswered /\ OneFinalEvent

`TaskMatchesTurn` ties the task to the turn: the task is gone exactly when no turn runs, the turn that
runs is one that has started, and its own message is still there (`message_ix < Len(messages)`). `OneFinalEvent`
needs it, since cancel and the end of a turn write to the channel of
`running_turn`. The type invariant carries `attempt \in 0..MAX_RETRY_ATTEMPTS`, for which the assumption on `Errors` is
needed. Lemmas about `Sealed`, `Flushed` and truncation carry `ToolUsesAnswered` through every way a
turn ends.

**AgentContractProofs** (`AgentThread`). What follows from `IInv`, most of it with an invariant on top of it:

* `ThreadKeepsContract` is the safety half of the refinement: the initial state of the
  thread maps to one of `AgentTurns`, and every step maps to `Start`, `Cancel`, `Finish` or a stutter, because the channel of
  the running turn is empty and those of earlier turns hold one event.
* `RefusalAlwaysRestores`: a refusal restores the messages. It adds to `IInv` that without a turn the
  pending message is empty, and that while one runs the messages before its own are a prefix that
  nothing touches (`BeforeIsPrefix`). Of a turn that overtook another which was answering, its own message is the last of these (`Restored`, by `OwnMessagePlaced`), so that
  a refusal keeps its prompt and removes everything behind it.
* `UserTitleAlwaysKept`: no generation is pending while the title is the user's, which needs nothing of `IInv`.
* `NoToolEverLeftRunning` and `NoResultEverLost`, by

      ToolInv == AwaitsNoTool /\ ToolsReported /\ PendingOwed /\ Newest /\ NoToolLeftRunning /\ NoResultLost

  A tool call that is reported as in progress has a tool running (`ToolsReported`), and each complete tool use of the pending
  message has a result or a task that will bring one (`PendingOwed`). At the awaits between rounds there are no tasks and nothing is pending (`AwaitsNoTool`), so
  whatever is flushed there has its results. `Newest`, that the running turn is the newest, ties the properties, which speak of either, together.
* `RequestAlwaysEndsWithUser`: from the request to the end of the tools the stored messages end with what the model has to answer
  (`ForModel`); after an error `RetryTimer` appends a Resume message where they do not. The exception is stated in it: of a turn that overtook another, as long as there
  is nothing behind its message but the answer that was cut off.

**AcpThreadProofs** (`AcpThread`), for any number of turns, entries and tool calls. `TypeCorrect` is by `Typed`, the full typing
of the variables with, for each turn, which states of its two tasks go together (`Phase`).

* `OvertakenTurnsAlwaysFinishFirst`, by `Typed /\ Order`. Call a turn alive when its send task is under way and it was not stopped. The
  alive turns form a queue that ends at `send_task`, in which each waits for an alive turn not older than those before it
  (`Queue`); stopped turns hold only stopped ones, so that `cancel_generation`, which drops what `_cancel_task` holds, drops no alive one (`Stops`);
  and no turn after an alive one has prompted the agent or pushed a message (`Later`). That a turn which finishes drops the whole queue is why `Queue` survives
  the bug of `acp_next_generation`.
* `AlwaysStopsGenerating`, by `Watched /\ LeftCancelled`: as long as `send_task` holds a turn that is not `cut`, some turn is on its way to
  taking it (`WillTake`), perhaps another one; and a finished turn still there was cancelled.
* `ToolOutputAlwaysKept`, an action property that needs only `Typed` and `LastUserMessage`, whichever turns' message that is.
* `RefusalAlwaysKeepsEarlierPrompts`, by `Typed /\ Order /\ PromptThere /\ PromptsInOrder`: a turn that is not over and not `cut` has its
  message among the entries, and messages stand in the order of their turns. So the last user message is not an earlier one. The proof attempt
  without `cut` failed for a reason: see section 3.
* `ConversationAlwaysSame` assumes `~Impatient`, that users send, resume and rewind only when no task is under way; a stop may come at
  any time. (Otherwise a refusal takes away the message of a later turn, and the two sides differ.) Its
  invariant says that only the last turn is not over (`Alone`); that the agent runs at most the turn it started
  last, and what was refused it has forgotten (`AgentTurn`, `Answered`); that both lists are in the order of turns (`MemoryIncreases`,
  `EntryOrder`); that what is remembered is shown, but for a refused resume (`Known`); and that what is shown and not remembered is on its way or was
  refused, failed or dropped (`Lost`).

**ContextServersProofs** (`ContextServers`). `TypeCorrect`, `ToolsAlwaysOfRunningServers`,
`OnlyRunningServersConnected`, `SettingsAlwaysApplied`, for any number of servers, instances and requests.

    IInv == TypeOK /\ ToolsOfRunningServers /\ ConnectedServersRun /\ Applied
    Applied == TargetsAreCurrent /\ SettingsAreApplied

`TargetsAreCurrent` is what makes the settings invariant inductive: while `maintain_servers` awaits commands, either the
targets it has computed are still those of the settings, or `needs_server_update` is set.

**ContextServerClientProofs** (`ContextServerClient`). `TypeCorrect`, `AnswersAlwaysMatch`, `CallersAlwaysHeard` and
`HandshakeAlwaysFirst`, for any number of calls and answers, in two layers:

    IInv == TypeOK /\ IdsCounted /\ IdBeforeSending /\ OnTheirWay
            /\ HandlersMatch /\ AnswersMatch /\ NoneLeftWaiting

`IdsCounted` (the counter is the number of calls that have an id) keeps ids apart and within bounds; `OnTheirWay` says that
whatever is in the queues belongs to calls with an id; `HandlersMatch`, that the handler under an id is that of the call which drew it. So
a late or repeated answer finds its own call's handler or none. The second layer, `HInv`, looks at what the server has
received and the two queues before it as one sequence (`Wire`). Messages are appended to it, and move within it without overtaking;
it stays in the order of the handshake because the client is handed out only after `Initialized` was appended, unless the
output has ended, when nothing is appended any more.

**ThreadPersistenceProofs** (`ThreadPersistence`). `TypeCorrect`, `LatestAlwaysSaved`, `RowsAlwaysGrow` and
`HistoryAlwaysCurrent`, for any number of threads, copies, changes, reloads and restarts. The assumption is that a reload may happen
at all (`MaxReloads` is not 0).

    IInv == TypeOK /\ OnlyBorn /\ Accounted /\ SavesNewest /\ SeenRow /\ SavedOrSaving

`Accounted` says that a thread with two copies or an orphan is in `disturbed`; `SavesNewest`, that a save under way carries what its
copy last notified (`told`), because each such notification replaces the save before it; `SeenRow`, that a copy which is the only one
has seen what is on the disk. The last two are why a write cannot lose anything (`RowsOnlyGrow`). `HInv` follows the history: for
each thread that is not `unlisted`, either a reload is still to come, or the newest list that is not overtaken
shows its row (`ToBeListed`, `Listed`); lists are overtaken in order (`OvertakenInOrder`).

**ActionLogProofs** (`ActionLog`), for any set of consecutive rows, any number of edits and any length of the queue.
`AllSteps` sorts the actions into kinds of steps (an edit of the agent, of the user, a rejection, a review, a new entry, a step of
`maintain_diff`), by what they do to the entry, the queue and the buffer; each invariant is then shown for the kinds. The queue is looked at as the sequence of texts it leads through (`TextAt`),
from the text that is stored or about to be (`Start`), over the base that is (`Base`).

* `DiffAlwaysTrue`, by `CurrentInv`: the queue leads to the buffer, and when it is empty the hunks are those of base and text.
* `AgentEditsAlwaysUnreviewed`, by `ReviewedInv /\ GitInv`: each row of the agent's in the base, in what an update of the user replaces,
  and in a commit that is to be taken in is in `reviewed`; these are the three ways into the base.
* `OnlyAgentEditsEverUnreviewed`, by `TouchedInv`: there is a chain of sets of touched rows along the queue, each containing what may then
  differ from the base; an update of the user either adds what it replaces or overlaps with none of it, and then `maintain_diff` takes it into the base
  (`Widening`). A chain is needed because that decision is made against the hunks of the moment.
* `KeptAlwaysStaysKept`, by `KeptInv`: where a row was kept the base holds it, and no update of the user in the queue replaces it by something else.
* `CommitsAlwaysReviews`, by `GitInv /\ CommitInv`: once it is looked at, a commit of the last version that `maintain_diff` heard of leaves nothing between base and
  text, and no other text in the queue.

All rest on `LogType` and on `Apart`, that hunks under review have no row in common.

**Only model-checked**: liveness (`TurnEndsEventually`, `EveryTurnAnswered`, `ChangesReachDisk`, `CallsEnd`, `StopEndsServer`) and with it the liveness half of `ImplementsContract`, which are out of the
prover's reach. Every safety property of the passing runs is stated by a theorem; one theorem, `ConversationAlwaysSame`, has a hypothesis about
users (`~Impatient`), under which `acp_calm` checks the property, too.

## 5. Plan

Done: the modules of section 2 and the proofs of section 4. Next, most important first:

1. Proofs: what of `SameConversation` remains when users do not wait, and which turns a refusal may then cost; that `ContextServerClient`, seen
   from outside, is the server that `ContextServers` assumes.
2. `OpenAiEvents` (`open_ai.rs`): the mapper from deltas to events, and that its streams are in the alphabet
   `AgentThread` assumes.
3. `ModelRegistry` and the agent's refresh of models: a removed provider, the default and the summary model.
4. `TerminalEvents` (events buffered before the terminal exists), `EnabledTools`.

## 6. Not modelled, and why

Of the modelled components: the fields of a stored thread. (Two of them do not survive: `to_db` stores `title()`, which is
"New Thread" without a title, so that `from_db` never finds the empty title it looks for at `thread.rs:811` and a thread that was
saved before it had a title does not get one; and it stores the name of the model, `thread.rs:860`, where
`select_model` looks for its id.) The list of recently opened entries, replay of a loaded thread to the view, requests and
notifications of a context server (no handler is registered for them), what the model is told about the user's edits
(`last_seen_base`), and the arithmetic of rows in patches.

Rendering, settings merging, wire formats, file, process and network I/O of tools and providers, and the inherited
editor: either no state of their own, or none the agent depends on. External agents are other programs; only the
contract they must keep is here. `PROJECT.json` gives the reason for each component.

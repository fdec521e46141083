------------------------ MODULE ContextServerClient ------------------------
(***************************************************************************)
(* The JSON-RPC client of one context server: Client (crates/              *)
(* context_server/src/client.rs), the handshake of ModelContextProtocol    *)
(* (protocol.rs), the stdio transport (transport/stdio_transport.rs) and   *)
(* the life of the client in ContextServer (context_server.rs).            *)
(*                                                                         *)
(* A call is one use of request_with; call 0 is the Initialize request of  *)
(* the handshake.  A message passes two queues and two tasks on its way    *)
(* out: outbound and handle_output of the client (a background thread),    *)
(* then stdout and handle_output of the transport; answers pass one.       *)
(*                                                                         *)
(* The server is another process: it may answer what it has read in any    *)
(* order, more than once or never, and exit at any time.                   *)
(***************************************************************************)
EXTENDS Integers, Sequences

CONSTANTS
  MaxCalls, MaxAnswers  \* bounds

ASSUME BoundsAssumption == MaxCalls \in Nat /\ MaxAnswers \in Nat

VARIABLES
  next_id,            \* Client::next_id
  calls,              \* where each call is, its id and the answer it returned
  rx,                 \* its oneshot channel: Pending, Canceled, or the answer sent
  response_handlers,  \* whose handler stands under each id
  output,             \* handle_output: "running", "clearing" or "ended"
  outbound,           \* the channel it reads
  stdout,             \* StdioTransport's queue for the process' stdin
  writer,             \* its handle_output runs
  inbound,            \* answers on their way to handle_input
  server,             \* "alive", "exited", or "killed" by the transport's Drop
  received,           \* what the server has read
  answers,            \* counter
  client              \* ContextServer::client: "starting", "some", "taken", "failed"

ioVars == <<output, outbound, stdout, writer>>
serverVars == <<inbound, server, received, answers>>
vars == <<next_id, calls, rx, response_handlers, ioVars, serverVars, client>>

Calls == 0..MaxCalls
Ids == 0..MaxCalls
Initialize == 0
None == -1
Pending == -1
Canceled == -2

Request(c) == [kind |-> "request", call |-> c]
Initialized == [kind |-> "initialized", call |-> None]
Cancelled(c) == [kind |-> "cancelled", call |-> c]

InFlight(c) == calls[c].at \in {"holding", "sending", "refused", "awaiting"}
Ended(c) == calls[c].at \in {"ok", "error", "cancelled", "timed out", "dropped"}
Freed == client \in {"taken", "failed"} /\ \A c \in Calls : ~InFlight(c)

Moved(c, at) == calls' = [calls EXCEPT ![c].at = at]

Init ==
  /\ next_id = 0
  /\ calls = [c \in Calls |-> [at |-> IF c = Initialize THEN "holding" ELSE "idle",
                               id |-> None, got |-> None]]
  /\ rx = [c \in Calls |-> Pending]
  /\ response_handlers = [i \in Ids |-> None]
  /\ output = "running" /\ outbound = <<>> /\ stdout = <<>> /\ writer = TRUE
  /\ inbound = <<>> /\ server = "alive" /\ received = <<>> /\ answers = 0
  /\ client = "starting"

----------------------------------------------------------------------------
(* request_with. *)

\* A caller takes the protocol of a server that is running.
get_client(c) ==
  /\ client = "some" /\ calls[c].at = "idle"
  /\ Moved(c, "holding")
  /\ UNCHANGED <<next_id, rx, response_handlers, ioVars, serverVars, client>>

\* Variant: the counter is read, not advanced.
insert_handler_NotAdvanced(c) ==
  /\ calls[c].at = "holding"
  /\ calls' = [calls EXCEPT ![c].id = next_id,
                 ![c].at = IF output = "running" THEN "sending" ELSE "refused"]
  /\ response_handlers' = IF output = "running"
                          THEN [response_handlers EXCEPT ![next_id] = c]
                          ELSE response_handlers
  /\ UNCHANGED <<next_id, rx, ioVars, serverVars, client>>

\* Variant: the handler is kept whether or not the map was taken.
insert_handler_Always(c) ==
  /\ calls[c].at = "holding"
  /\ next_id' = next_id + 1
  /\ calls' = [calls EXCEPT ![c].id = next_id, ![c].at = "sending"]
  /\ response_handlers' = [response_handlers EXCEPT ![next_id] = c]
  /\ UNCHANGED <<rx, ioVars, serverVars, client>>

\* The call draws its id and leaves its handler, unless the map was taken.
insert_handler(c) ==
  /\ calls[c].at = "holding"
  /\ next_id' = next_id + 1
  /\ calls' = [calls EXCEPT ![c].id = next_id,
                 ![c].at = IF output = "running" THEN "sending" ELSE "refused"]
  /\ response_handlers' = IF output = "running"
                          THEN [response_handlers EXCEPT ![next_id] = c]
                          ELSE response_handlers
  /\ UNCHANGED <<rx, ioVars, serverVars, client>>

\* try_send fails once the receiver is dropped.
Queued(m) == outbound' = IF output = "ended" THEN outbound ELSE Append(outbound, m)

try_send(c) ==
  /\ calls[c].at \in {"sending", "refused"}
  /\ Queued(Request(c))
  /\ Moved(c, IF calls[c].at = "refused" \/ output = "ended" THEN "error" ELSE "awaiting")
  /\ client' = IF c = Initialize /\ (calls[c].at = "refused" \/ output = "ended")
               THEN "failed" ELSE client
  /\ UNCHANGED <<next_id, rx, response_handlers, output, stdout, writer, serverVars>>

\* Variant: the client is handed out without the Initialized notification.
Responded_NotNotified(c) ==
  /\ calls[c].at = "awaiting" /\ rx[c] # Pending
  /\ calls' = [calls EXCEPT ![c].at = IF rx[c] = Canceled THEN "error" ELSE "ok",
                            ![c].got = IF rx[c] = Canceled THEN None ELSE rx[c]]
  /\ client' = IF c = Initialize THEN IF rx[c] = Canceled THEN "failed" ELSE "some"
               ELSE client
  /\ UNCHANGED <<next_id, rx, response_handlers, ioVars, serverVars>>

\* select!, first branch: the answer, or the end of the channel.  Initialize
\* goes on to check the version, to notify the server and to hand the client out.
Responded(c) ==
  /\ calls[c].at = "awaiting" /\ rx[c] # Pending
  /\ calls' = [calls EXCEPT ![c].at = IF rx[c] = Canceled THEN "error" ELSE "ok",
                            ![c].got = IF rx[c] = Canceled THEN None ELSE rx[c]]
  /\ \E supported \in BOOLEAN :
       LET checked == rx[c] # Canceled /\ supported
       IN  IF c # Initialize THEN UNCHANGED <<client, outbound>>
           ELSE /\ client' = IF checked /\ output # "ended" THEN "some" ELSE "failed"
                /\ IF checked THEN Queued(Initialized) ELSE UNCHANGED outbound
  /\ UNCHANGED <<next_id, rx, response_handlers, output, stdout, writer, serverVars>>

\* Second branch.  (Initialize cannot be cancelled.)
RequestCanceled(c) ==
  /\ calls[c].at = "awaiting" /\ c # Initialize
  /\ Moved(c, "cancelled")
  /\ Queued(Cancelled(c))
  /\ UNCHANGED <<next_id, rx, response_handlers, output, stdout, writer, serverVars, client>>

\* Variant: a request without a timeout of its own has none.
RequestTimeout_OnlyConfigured(c) ==
  /\ calls[c].at = "awaiting" /\ c # Initialize
  /\ Moved(c, "timed out")
  /\ UNCHANGED <<next_id, rx, response_handlers, ioVars, serverVars, client>>

\* Third branch.
RequestTimeout(c) ==
  /\ calls[c].at = "awaiting"
  /\ Moved(c, "timed out")
  /\ client' = IF c = Initialize THEN "failed" ELSE client
  /\ UNCHANGED <<next_id, rx, response_handlers, ioVars, serverVars>>

\* The caller drops the future.
Dropped(c) ==
  /\ calls[c].at \in {"holding", "awaiting"}
  /\ Moved(c, "dropped")
  /\ client' = IF c = Initialize THEN "failed" ELSE client
  /\ UNCHANGED <<next_id, rx, response_handlers, ioVars, serverVars>>

----------------------------------------------------------------------------
(* The tasks. *)

\* What the calls see when the handlers are dropped: a channel that is closed.
Cleared ==
  /\ response_handlers' = [i \in Ids |-> None]
  /\ rx' = [c \in Calls |->
              IF \E i \in Ids : response_handlers[i] = c THEN Canceled ELSE rx[c]]

\* Variant: the handlers stay when the output ends.
handle_output_NotCleared ==
  /\ output = "running" /\ outbound # <<>>
  /\ outbound' = Tail(outbound)
  /\ IF writer
     THEN stdout' = Append(stdout, Head(outbound)) /\ UNCHANGED output
     ELSE output' = "clearing" /\ UNCHANGED stdout
  /\ UNCHANGED <<next_id, calls, rx, response_handlers, writer, serverVars, client>>

\* Client::handle_output; transport.send fails once the writer has ended.
handle_output ==
  /\ output = "running" /\ outbound # <<>>
  /\ IF writer
     THEN /\ outbound' = Tail(outbound)
          /\ stdout' = Append(stdout, Head(outbound))
          /\ UNCHANGED <<output, rx, response_handlers>>
     ELSE /\ outbound' = Tail(outbound)
          /\ output' = "clearing"
          /\ Cleared
          /\ UNCHANGED stdout
  /\ UNCHANGED <<next_id, calls, writer, serverVars, client>>

\* ... and its receiver is dropped after that.
OutputEnds ==
  /\ output = "clearing"
  /\ output' = "ended" /\ outbound' = <<>>
  /\ UNCHANGED <<next_id, calls, rx, response_handlers, stdout, writer, serverVars, client>>

\* StdioTransport::handle_output ends at the first write that fails.
write_all ==
  /\ writer /\ stdout # <<>>
  /\ IF server = "alive"
     THEN received' = Append(received, Head(stdout)) /\ stdout' = Tail(stdout) /\ UNCHANGED writer
     ELSE writer' = FALSE /\ stdout' = <<>> /\ UNCHANGED received
  /\ UNCHANGED <<next_id, calls, rx, response_handlers, output, outbound, inbound, server,
                 answers, client>>

\* Client::handle_input: an answer is for the handler under its id, if it is
\* still there; a call that has ended no longer listens.
handle_input ==
  LET i == calls[Head(inbound)].id
      c == response_handlers[i]
  IN  /\ inbound # <<>> /\ ~Freed
      /\ inbound' = Tail(inbound)
      /\ response_handlers' = [response_handlers EXCEPT ![i] = None]
      /\ rx' = IF c = None THEN rx ELSE [rx EXCEPT ![c] = Head(inbound)]
      /\ UNCHANGED <<next_id, calls, ioVars, server, received, answers, client>>

\* Variant: the tasks that are left behind keep the transport.
DropClient_KeepsTransport ==
  /\ Freed /\ output # "ended"
  /\ output' = "ended" /\ outbound' = <<>>
  /\ Cleared
  /\ UNCHANGED <<next_id, calls, stdout, writer, serverVars, client>>

\* The last owner is gone: the client's tasks end, and the transport's Drop
\* kills the process.
DropClient ==
  /\ Freed /\ server # "killed"
  /\ server' = "killed"
  /\ output' = "ended" /\ outbound' = <<>>
  /\ Cleared
  /\ UNCHANGED <<next_id, calls, stdout, writer, inbound, received, answers, client>>

\* ContextServer::stop
stop ==
  /\ client = "some"
  /\ client' = "taken"
  /\ UNCHANGED <<next_id, calls, rx, response_handlers, ioVars, serverVars>>

----------------------------------------------------------------------------
(* The server. *)

Answers ==
  /\ server = "alive" /\ answers < MaxAnswers
  /\ \E ix \in DOMAIN received :
       /\ received[ix].kind = "request"
       /\ inbound' = Append(inbound, received[ix].call)
  /\ answers' = answers + 1
  /\ UNCHANGED <<next_id, calls, rx, response_handlers, ioVars, server, received, client>>

Exits ==
  /\ server = "alive" /\ server' = "exited"
  /\ UNCHANGED <<next_id, calls, rx, response_handlers, ioVars, inbound, received, answers,
                 client>>

Next ==
  \/ \E c \in Calls : \/ get_client(c) \/ insert_handler(c) \/ try_send(c)
                      \/ Responded(c) \/ RequestCanceled(c) \/ RequestTimeout(c) \/ Dropped(c)
  \/ handle_output \/ OutputEnds \/ write_all \/ handle_input
  \/ DropClient \/ stop \/ Answers \/ Exits

Spec == Init /\ [][Next]_vars

\* Callers and tasks that are ready run, and timers fire; the server owes nothing.
Fairness ==
  /\ \A c \in Calls : /\ WF_vars(insert_handler(c)) /\ WF_vars(try_send(c))
                      /\ WF_vars(Responded(c)) /\ WF_vars(RequestTimeout(c))
  /\ WF_vars(handle_output) /\ WF_vars(OutputEnds) /\ WF_vars(write_all)
  /\ WF_vars(handle_input) /\ WF_vars(DropClient)

LiveSpec == Spec /\ Fairness

----------------------------------------------------------------------------

Messages == [kind : {"request", "cancelled"}, call : Calls] \cup {Initialized}

\* Every variable has its type, and no id is drawn twice.
TypeOK ==
  /\ next_id \in 0..MaxCalls + 1
  /\ calls \in [Calls -> [at : {"idle", "holding", "sending", "refused", "awaiting", "ok",
                                "error", "cancelled", "timed out", "dropped"},
                          id : Ids \cup {None}, got : Calls \cup {None}]]
  /\ \A c \in Calls : /\ calls[c].id < next_id
                     /\ \A d \in Calls \ {c} : calls[c].id # calls[d].id \/ calls[c].id = None
  /\ rx \in [Calls -> Calls \cup {Pending, Canceled}]
  /\ response_handlers \in [Ids -> Calls \cup {None}]
  /\ output \in {"running", "clearing", "ended"} /\ writer \in BOOLEAN
  /\ outbound \in Seq(Messages) /\ stdout \in Seq(Messages) /\ received \in Seq(Messages)
  /\ inbound \in Seq(Calls)
  /\ server \in {"alive", "exited", "killed"} /\ answers \in 0..MaxAnswers
  /\ client \in {"starting", "some", "taken", "failed"}

\* An answer reaches the call it answers, however late it is and however often
\* the server repeats it.
AnswersMatch == \A c \in Calls : calls[c].at = "ok" => calls[c].got = c

\* A call that waits is heard of: its handler stands under its id, until it is
\* answered or the output ends; from then on no handler is left, so that a call
\* that begins after that, or had begun before, is not left to its timeout.
NoneLeftWaiting ==
  /\ output # "running" => \A i \in Ids : response_handlers[i] = None
  /\ \A c \in Calls : calls[c].at \in {"sending", "awaiting"} /\ rx[c] = Pending =>
                       response_handlers[calls[c].id] = c

\* The server sees the handshake first: Initialize, Initialized, and only then
\* the other requests.
HandshakeFirst ==
  \A ix \in DOMAIN received :
    \/ received[ix] = Request(Initialize)
    \/ \E jx \in 1..(ix - 1) :
         received[jx] = IF received[ix] = Initialized THEN Request(Initialize) ELSE Initialized

\* Every call ends, whatever the server does.
CallsEnd == \A c \in Calls : InFlight(c) ~> Ended(c)

\* A server that is stopped, or whose handshake fails, does not live on.
StopEndsServer == client \in {"taken", "failed"} ~> server = "killed"

=============================================================================

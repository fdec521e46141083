--------------------- MODULE ContextServerClientProofs ---------------------
(***************************************************************************)
(* Theorems about ContextServerClient, for any number of calls and         *)
(* answers: ids are not reused, an answer reaches its own call, no call    *)
(* waits without a handler, and the server sees the handshake first.       *)
(***************************************************************************)
EXTENDS ContextServerClient, FiniteSetTheorems, SequenceTheorems, TLAPS

\* The calls that have drawn an id.
Drawn == {c \in Calls : calls[c].id # None}

\* The counter has advanced once for each of them.
IdsCounted == next_id = Cardinality(Drawn)

\* A call draws its id before it sends anything.
IdBeforeSending ==
  \A c \in Calls :
    /\ calls[c].at \in {"idle", "holding"} => calls[c].id = None
    /\ calls[c].at \notin {"idle", "holding", "dropped"} => calls[c].id # None

\* Answers are for calls whose id is drawn.
Sent == {m \in Messages : m.kind = "request" => calls[m.call].id # None}
OnTheirWay ==
  /\ outbound \in Seq(Sent) /\ stdout \in Seq(Sent) /\ received \in Seq(Sent)
  /\ inbound \in Seq(Drawn)

\* A handler stands under the id of its call, and what a channel holds is for its call.
HandlersMatch ==
  /\ \A i \in Ids : response_handlers[i] # None => calls[response_handlers[i]].id = i
  /\ \A c \in Calls : rx[c] \in {Pending, Canceled, c}

IInv ==
  /\ TypeOK /\ IdsCounted /\ IdBeforeSending /\ OnTheirWay
  /\ HandlersMatch /\ AnswersMatch /\ NoneLeftWaiting

\* What the server has seen and what it may still see, in order.
Wire == received \o (stdout \o outbound)

Occurs(m, s) == \E ix \in DOMAIN s : s[ix] = m

\* Nothing comes before the Initialize request but what needs nothing before it,
\* and nothing else before Initialized.
Before(m) == IF m = Initialized THEN Request(Initialize) ELSE Initialized
Ordered(s) ==
  \A ix \in DOMAIN s : s[ix] = Request(Initialize) \/ \E jx \in 1..(ix - 1) : s[jx] = Before(s[ix])

\* The client is handed out, or another call has it.
HandedOut == client \in {"some", "taken"} \/ \E c \in Calls \ {Initialize} : calls[c].at # "idle"

HInv ==
  /\ HandshakeFirst
  /\ writer => Ordered(Wire)
  /\ output = "clearing" => ~writer
  /\ \A ix \in DOMAIN inbound : Occurs(Request(inbound[ix]), received)
  /\ \A c \in Calls : rx[c] = c => Occurs(Request(c), received)
  /\ HandedOut => output = "ended" \/ ~writer \/ Occurs(Initialized, Wire)

Stages == {"idle", "holding", "sending", "refused", "awaiting", "ok", "error", "cancelled",
           "timed out", "dropped"}
CallStates == [at : Stages, id : Ids \cup {None}, got : Calls \cup {None}]

----------------------------------------------------------------------------
(* Calls and their ids *)

LEMMA Numbers ==
  /\ MaxCalls \in Nat /\ Calls \subseteq Nat /\ Ids \subseteq Nat /\ Initialize \in Calls
  /\ None \notin Calls /\ None \notin Ids /\ Pending \notin Calls /\ Canceled \notin Calls
  /\ Pending # Canceled
BY BoundsAssumption DEF Calls, Ids, None, Pending, Canceled, Initialize

\* A call that moves keeps its id and its answer, and the others stay.
LEMMA MovedProperties ==
  ASSUME TypeOK, NEW c \in Calls, NEW at \in Stages, Moved(c, at)
  PROVE  /\ calls' \in [Calls -> CallStates]
         /\ \A d \in Calls : /\ calls'[d].id = calls[d].id /\ calls'[d].got = calls[d].got
                             /\ calls'[d].at = IF d = c THEN at ELSE calls[d].at
<1>1. calls \in [Calls -> CallStates] BY DEF TypeOK, CallStates, Stages
<1>2. calls' = [calls EXCEPT ![c] = [calls[c] EXCEPT !.at = at]] BY DEF Moved
<1>3. [calls[c] EXCEPT !.at = at] \in CallStates BY <1>1 DEF CallStates
<1>4. /\ [calls[c] EXCEPT !.at = at].at = at
      /\ [calls[c] EXCEPT !.at = at].id = calls[c].id
      /\ [calls[c] EXCEPT !.at = at].got = calls[c].got
  BY <1>1 DEF CallStates
<1>. QED BY <1>1, <1>2, <1>3, <1>4

\* No id is drawn twice.
IdsDiffer ==
  \A c \in Calls : /\ calls[c].id < next_id
                  /\ \A d \in Calls \ {c} : calls[c].id # calls[d].id \/ calls[c].id = None

\* A step that draws no id changes nothing about ids.
LEMMA SameIds ==
  ASSUME IdsCounted, IdsDiffer, next_id' = next_id, \A d \in Calls : calls'[d].id = calls[d].id
  PROVE  Drawn' = Drawn /\ Sent' = Sent /\ IdsCounted' /\ IdsDiffer'
<1>1. Drawn' = Drawn BY DEF Drawn
<1>2. Sent' = Sent
  <2>1. \A m \in Messages : m.kind = "request" => m.call \in Calls
    BY DEF Messages, Initialized
  <2>. QED BY <2>1 DEF Sent
<1>. QED BY <1>1, <1>2 DEF IdsCounted, IdsDiffer

\* There is an id left for a call that has none.
LEMMA NextIdLeft ==
  ASSUME TypeOK, IdsCounted, NEW c \in Calls, calls[c].id = None
  PROVE  next_id \in Ids
<1>1. IsFiniteSet(Calls) /\ Cardinality(Calls) = MaxCalls + 1
  BY FS_Interval, BoundsAssumption DEF Calls
<1>2. Drawn \in SUBSET Calls /\ Drawn # Calls BY DEF Drawn
<1>3. Cardinality(Drawn) <= MaxCalls + 1 /\ Cardinality(Drawn) # MaxCalls + 1
  BY <1>1, <1>2, FS_Subset
<1>4. next_id \in 0..MaxCalls + 1 /\ next_id = Cardinality(Drawn) BY DEF IdsCounted, TypeOK
<1>. QED BY <1>3, <1>4, BoundsAssumption DEF Ids

\* What the types say, without what the ids have of their own.
Rest ==
  /\ rx \in [Calls -> Calls \cup {Pending, Canceled}]
  /\ response_handlers \in [Ids -> Calls \cup {None}]
  /\ output \in {"running", "clearing", "ended"} /\ writer \in BOOLEAN
  /\ server \in {"alive", "exited", "killed"} /\ answers \in 0..MaxAnswers
  /\ client \in {"starting", "some", "taken", "failed"}

LEMMA SentAreMessages == OnTheirWay =>
  /\ outbound \in Seq(Messages) /\ stdout \in Seq(Messages) /\ received \in Seq(Messages)
  /\ inbound \in Seq(Calls)
BY SeqMonotonic DEF OnTheirWay, Sent, Drawn

LEMMA TypeParts ==
  OnTheirWay => (TypeOK <=> /\ next_id \in 0..MaxCalls + 1 /\ calls \in [Calls -> CallStates]
                            /\ IdsDiffer /\ Rest)
BY SentAreMessages DEF TypeOK, IdsDiffer, Rest, CallStates, Stages

LEMMA TypePartsNext ==
  (OnTheirWay => (TypeOK <=> /\ next_id \in 0..MaxCalls + 1 /\ calls \in [Calls -> CallStates]
                             /\ IdsDiffer /\ Rest))'
BY TypeParts, PTL

LEMMA InitIds == Init => IInv
<1>. SUFFICES ASSUME Init PROVE IInv OBVIOUS
<1>1. /\ calls \in [Calls -> CallStates]
      /\ \A c \in Calls : calls[c].id = None /\ calls[c].at \in {"idle", "holding"}
  BY Numbers DEF Init, CallStates, Stages
<1>2. Drawn = {} BY <1>1 DEF Drawn
<1>3. IdsCounted BY <1>2, FS_EmptySet DEF IdsCounted, Init
<1>4. IdBeforeSending BY <1>1 DEF IdBeforeSending
<1>5. OnTheirWay BY EmptySeq DEF OnTheirWay, Init
<1>6. HandlersMatch BY DEF HandlersMatch, Init
<1>7. IdsDiffer BY <1>1, Numbers DEF IdsDiffer, Init, None
<1>8. Rest BY BoundsAssumption DEF Rest, Init
<1>9. next_id \in 0..MaxCalls + 1 BY Numbers DEF Init
<1>10. TypeOK BY <1>1, <1>5, <1>7, <1>8, <1>9, TypeParts
<1>11. AnswersMatch BY <1>1 DEF AnswersMatch
<1>12. NoneLeftWaiting BY <1>1 DEF NoneLeftWaiting, Init
<1>. QED BY <1>3, <1>4, <1>5, <1>6, <1>10, <1>11, <1>12 DEF IInv

----------------------------------------------------------------------------
(* request_with *)

\* The message a call sends, when its id is drawn, may be on its way.
LEMMA QueuedSent ==
  ASSUME OnTheirWay, NEW m \in Sent, Queued(m)
  PROVE  outbound' \in Seq(Sent)
BY AppendProperties DEF OnTheirWay, Queued

LEMMA InsertIds ==
  ASSUME IInv, NEW c \in Calls, insert_handler(c)
  PROVE  IInv'
<1>. DEFINE at == IF output = "running" THEN "sending" ELSE "refused"
<1>1. /\ calls \in [Calls -> CallStates] /\ Rest /\ IdsDiffer /\ OnTheirWay
      /\ IdsCounted /\ next_id \in 0..MaxCalls + 1
  BY TypeParts DEF IInv
<1>2. calls[c].at = "holding" /\ calls[c].id = None
  BY DEF insert_handler, IInv, IdBeforeSending
<1>3. next_id \in Ids BY <1>1, <1>2, NextIdLeft DEF IInv
<1>4. /\ calls' \in [Calls -> CallStates]
      /\ calls'[c].at = at /\ calls'[c].id = next_id
      /\ \A d \in Calls \ {c} : calls'[d] = calls[d]
  <2>1. at \in Stages BY DEF Stages
  <2>. HIDE DEF at
  <2>2. calls' = [calls EXCEPT ![c] = [[calls[c] EXCEPT !.id = next_id] EXCEPT !.at = at]]
    BY <1>1 DEF insert_handler, at, CallStates
  <2>3. /\ [[calls[c] EXCEPT !.id = next_id] EXCEPT !.at = at] \in CallStates
        /\ [[calls[c] EXCEPT !.id = next_id] EXCEPT !.at = at].at = at
        /\ [[calls[c] EXCEPT !.id = next_id] EXCEPT !.at = at].id = next_id
    BY <1>1, <1>3, <2>1 DEF CallStates
  <2>. QED BY <1>1, <2>2, <2>3
<1>5. next_id' = next_id + 1 BY DEF insert_handler
<1>6. Drawn' = Drawn \cup {c} /\ c \notin Drawn
  BY <1>2, <1>3, <1>4, Numbers DEF Drawn
<1>7. IdsCounted'
  <2>1. IsFiniteSet(Calls) BY FS_Interval, BoundsAssumption DEF Calls
  <2>2. IsFiniteSet(Drawn) BY <2>1, FS_Subset DEF Drawn
  <2>. QED BY <2>2, <1>1, <1>5, <1>6, FS_AddElement DEF IdsCounted
<1>8. IdsDiffer'
  <2>1. \A d \in Calls : calls[d].id \in Ids \cup {None} /\ calls[d].id < next_id
    BY <1>1 DEF CallStates, IdsDiffer
  <2>. QED BY <2>1, <1>1, <1>2, <1>3, <1>4, <1>5, Numbers DEF IdsDiffer, None, Ids
<1>9. OnTheirWay'
  <2>1. \A m \in Messages : m.kind = "request" => m.call \in Calls
    BY DEF Messages, Initialized
  <2>2. Sent \subseteq Sent' BY <2>1, <1>3, <1>4, Numbers DEF Sent
  <2>. QED BY <1>1, <1>6, <2>2, SeqMonotonic DEF OnTheirWay, insert_handler, ioVars, serverVars
<1>10. Rest'
  BY <1>1, <1>3 DEF Rest, insert_handler, ioVars, serverVars
<1>11. TypeOK' BY <1>3, <1>4, <1>5, <1>8, <1>9, <1>10, TypePartsNext, BoundsAssumption DEF Ids
<1>12. IdBeforeSending'
  BY <1>2, <1>3, <1>4, Numbers DEF IInv, IdBeforeSending
<1>13. HandlersMatch'
  <2>1. \A d \in Calls : calls[d].id \in Ids => d # c /\ calls[d].id # next_id
    BY <1>1, <1>2, Numbers DEF IdsDiffer, Ids
  <2>2. ASSUME NEW i \in Ids, response_handlers'[i] # None
        PROVE  calls'[response_handlers'[i]].id = i
    <3>1. response_handlers \in [Ids -> Calls \cup {None}] BY <1>1 DEF Rest
    <3>2. CASE response_handlers'[i] = response_handlers[i]
      <4>1. response_handlers[i] \in Calls /\ calls[response_handlers[i]].id = i
        BY <2>2, <3>1, <3>2 DEF IInv, HandlersMatch
      <4>. QED BY <4>1, <3>2, <2>1, <1>4
    <3>3. CASE response_handlers'[i] # response_handlers[i]
      BY <3>1, <3>3, <1>3, <1>4 DEF insert_handler
    <3>. QED BY <3>2, <3>3
  <2>3. rx' = rx BY DEF insert_handler
  <2>. QED BY <2>2, <2>3 DEF IInv, HandlersMatch
<1>14. AnswersMatch'
  BY <1>4 DEF IInv, AnswersMatch
<1>15. NoneLeftWaiting'
  <2>1. response_handlers \in [Ids -> Calls \cup {None}] BY <1>1 DEF Rest
  <2>2. output' = output /\ rx' = rx BY DEF insert_handler, ioVars
  <2>3. output' # "running" => \A i \in Ids : response_handlers'[i] = None
    BY <2>2 DEF IInv, NoneLeftWaiting, insert_handler
  <2>4. ASSUME NEW d \in Calls, calls'[d].at \in {"sending", "awaiting"}, rx'[d] = Pending
        PROVE  response_handlers'[calls'[d].id] = d
    <3>1. CASE d = c
      BY <3>1, <2>1, <2>4, <1>3, <1>4 DEF insert_handler
    <3>2. CASE d # c
      <4>1. response_handlers[calls[d].id] = d /\ calls'[d].id = calls[d].id
        BY <3>2, <2>2, <2>4, <1>4 DEF IInv, NoneLeftWaiting
      <4>2. calls[d].id \in Ids \cup {None} /\ calls[d].id # next_id
        BY <1>1, <1>3 DEF CallStates, IdsDiffer, Ids
      <4>. QED BY <4>1, <4>2, <2>1, <1>3 DEF insert_handler
    <3>. QED BY <3>1, <3>2
  <2>. QED BY <2>3, <2>4 DEF NoneLeftWaiting
<1>. QED BY <1>7, <1>9, <1>11, <1>12, <1>13, <1>14, <1>15 DEF IInv

\* A call goes on without drawing an id, and touches no handler and no channel.
GoesOn(c) ==
  /\ calls' \in [Calls -> CallStates]
  /\ \A d \in Calls : /\ calls'[d].id = calls[d].id
                      /\ d # c => calls'[d].at = calls[d].at /\ calls'[d].got = calls[d].got
  /\ calls'[c].at \in {"idle", "holding"} => calls[c].id = None
  /\ calls'[c].at \notin {"idle", "holding", "dropped"} => calls[c].id # None
  /\ calls'[c].at \in {"sending", "awaiting"} => calls[c].at \in {"sending", "awaiting"}
  /\ calls'[c].at = "ok" => calls'[c].got = c
  /\ outbound' \in Seq(Sent) /\ client' \in {"starting", "some", "taken", "failed"}
  /\ UNCHANGED <<next_id, rx, response_handlers, output, stdout, writer, serverVars>>

LEMMA GoesOnIds ==
  ASSUME IInv, NEW c \in Calls, GoesOn(c)
  PROVE  IInv'
<1>1. /\ calls \in [Calls -> CallStates] /\ Rest /\ IdsDiffer /\ OnTheirWay
      /\ IdsCounted /\ next_id \in 0..MaxCalls + 1
  BY TypeParts DEF IInv
<1>2. next_id' = next_id /\ \A d \in Calls : calls'[d].id = calls[d].id BY DEF GoesOn
<1>3. Drawn' = Drawn /\ Sent' = Sent /\ IdsCounted' /\ IdsDiffer' BY <1>1, <1>2, SameIds
<1>4. OnTheirWay' BY <1>1, <1>3 DEF OnTheirWay, GoesOn, serverVars
<1>5. Rest' BY <1>1 DEF Rest, GoesOn, serverVars
<1>6. TypeOK' BY <1>1, <1>2, <1>3, <1>4, <1>5, TypePartsNext DEF GoesOn
<1>7. IdBeforeSending' BY DEF IInv, IdBeforeSending, GoesOn
<1>8. HandlersMatch'
  <2>1. \A i \in Ids : response_handlers[i] # None => response_handlers[i] \in Calls
    BY <1>1 DEF Rest
  <2>. QED BY <2>1, <1>2 DEF IInv, HandlersMatch, GoesOn
<1>9. AnswersMatch' BY DEF IInv, AnswersMatch, GoesOn
<1>10. NoneLeftWaiting' BY DEF IInv, NoneLeftWaiting, GoesOn
<1>. QED BY <1>3, <1>4, <1>6, <1>7, <1>8, <1>9, <1>10 DEF IInv

\* ... as one that only moves does.
LEMMA MovesIds ==
  ASSUME IInv, NEW c \in Calls, NEW at \in Stages \ {"ok", "sending"}, Moved(c, at),
         at \in {"idle", "holding"} => calls[c].id = None,
         at \notin {"idle", "holding", "dropped"} => calls[c].id # None,
         at = "awaiting" => calls[c].at \in {"sending", "awaiting"},
         outbound' \in Seq(Sent), client' \in {"starting", "some", "taken", "failed"},
         UNCHANGED <<next_id, rx, response_handlers, output, stdout, writer, serverVars>>
  PROVE  IInv'
<1>1. TypeOK BY DEF IInv
<1>2. /\ calls' \in [Calls -> CallStates]
      /\ \A d \in Calls : /\ calls'[d].id = calls[d].id /\ calls'[d].got = calls[d].got
                          /\ calls'[d].at = IF d = c THEN at ELSE calls[d].at
  BY <1>1, MovedProperties
<1>3. GoesOn(c) BY <1>2 DEF GoesOn
<1>. QED BY <1>3, GoesOnIds

LEMMA CallerIds ==
  ASSUME IInv, NEW c \in Calls,
         get_client(c) \/ try_send(c) \/ RequestCanceled(c) \/ RequestTimeout(c) \/ Dropped(c)
  PROVE  IInv'
<1>1. OnTheirWay /\ client \in {"starting", "some", "taken", "failed"}
  BY DEF IInv, TypeOK
<1>2. outbound \in Seq(Sent) BY <1>1 DEF OnTheirWay
<1>3. CASE get_client(c)
  <2>1. Moved(c, "holding") /\ calls[c].id = None
    BY <1>3 DEF get_client, IInv, IdBeforeSending
  <2>2. UNCHANGED <<next_id, rx, response_handlers, ioVars, serverVars, client>>
    BY <1>3 DEF get_client
  <2>3. "holding" \in Stages \ {"ok", "sending"} BY DEF Stages
  <2>. QED BY <2>1, <2>2, <2>3, <1>1, <1>2, MovesIds DEF ioVars
<1>4. CASE try_send(c)
  <2>. DEFINE at == IF calls[c].at = "refused" \/ output = "ended" THEN "error" ELSE "awaiting"
  <2>1. Moved(c, at) /\ Queued(Request(c)) /\ calls[c].at \in {"sending", "refused"}
    BY <1>4 DEF try_send
  <2>2. calls[c].id # None BY <2>1 DEF IInv, IdBeforeSending
  <2>3. Request(c) \in Sent BY <2>2 DEF Sent, Messages, Request
  <2>4. outbound' \in Seq(Sent) BY <1>1, <2>1, <2>3, QueuedSent
  <2>5. /\ at \in Stages \ {"ok", "sending"} /\ at \notin {"idle", "holding"}
        /\ at = "awaiting" => calls[c].at = "sending"
    BY <2>1 DEF Stages
  <2>6. client' \in {"starting", "some", "taken", "failed"} BY <1>1, <1>4 DEF try_send
  <2>7. UNCHANGED <<next_id, rx, response_handlers, output, stdout, writer, serverVars>>
    BY <1>4 DEF try_send
  <2>. HIDE DEF at
  <2>. QED BY <2>1, <2>2, <2>4, <2>5, <2>6, <2>7, MovesIds
<1>5. CASE RequestCanceled(c)
  <2>1. /\ Moved(c, "cancelled") /\ Queued(Cancelled(c)) /\ calls[c].id # None
        /\ UNCHANGED <<next_id, rx, response_handlers, output, stdout, writer, serverVars, client>>
    BY <1>5 DEF RequestCanceled, IInv, IdBeforeSending
  <2>2. Cancelled(c) \in Sent BY DEF Sent, Messages, Cancelled
  <2>3. outbound' \in Seq(Sent) BY <1>1, <2>1, <2>2, QueuedSent
  <2>4. "cancelled" \in Stages \ {"ok", "sending"} BY DEF Stages
  <2>. QED BY <2>1, <2>3, <2>4, <1>1, MovesIds
<1>6. CASE RequestTimeout(c)
  <2>1. /\ Moved(c, "timed out") /\ calls[c].id # None
        /\ UNCHANGED <<next_id, rx, response_handlers, ioVars, serverVars>>
    BY <1>6 DEF RequestTimeout, IInv, IdBeforeSending
  <2>2. client' \in {"starting", "some", "taken", "failed"} BY <1>1, <1>6 DEF RequestTimeout
  <2>3. "timed out" \in Stages \ {"ok", "sending"} BY DEF Stages
  <2>. QED BY <2>1, <2>2, <2>3, <1>2, MovesIds DEF ioVars
<1>7. CASE Dropped(c)
  <2>1. /\ Moved(c, "dropped")
        /\ UNCHANGED <<next_id, rx, response_handlers, ioVars, serverVars>>
    BY <1>7 DEF Dropped
  <2>2. client' \in {"starting", "some", "taken", "failed"} BY <1>1, <1>7 DEF Dropped
  <2>3. "dropped" \in Stages \ {"ok", "sending"} BY DEF Stages
  <2>. QED BY <2>1, <2>2, <2>3, <1>2, MovesIds DEF ioVars
<1>. QED BY <1>3, <1>4, <1>5, <1>6, <1>7

LEMMA RespondedIds ==
  ASSUME IInv, NEW c \in Calls, Responded(c)
  PROVE  IInv'
<1>. DEFINE at == IF rx[c] = Canceled THEN "error" ELSE "ok"
            got == IF rx[c] = Canceled THEN None ELSE rx[c]
<1>1. OnTheirWay /\ TypeOK /\ calls \in [Calls -> CallStates]
  BY TypeParts DEF IInv
<1>2. calls[c].at = "awaiting" /\ calls[c].id # None BY DEF Responded, IInv, IdBeforeSending
<1>3. rx[c] \in {Canceled, c} BY DEF Responded, IInv, HandlersMatch
<1>4. at \in Stages /\ got \in Calls \cup {None} /\ at \in {"error", "ok"} /\ (at = "ok" => got = c)
  BY <1>3 DEF Stages
<1>5. calls' = [calls EXCEPT ![c] = [[calls[c] EXCEPT !.at = at] EXCEPT !.got = got]]
  BY <1>1 DEF Responded, CallStates
<1>. HIDE DEF at, got
<1>6. /\ [[calls[c] EXCEPT !.at = at] EXCEPT !.got = got] \in CallStates
      /\ [[calls[c] EXCEPT !.at = at] EXCEPT !.got = got].at = at
      /\ [[calls[c] EXCEPT !.at = at] EXCEPT !.got = got].got = got
      /\ [[calls[c] EXCEPT !.at = at] EXCEPT !.got = got].id = calls[c].id
  BY <1>1, <1>4 DEF CallStates
<1>7. /\ calls' \in [Calls -> CallStates] /\ calls'[c].at = at /\ calls'[c].got = got
      /\ calls'[c].id = calls[c].id /\ \A d \in Calls \ {c} : calls'[d] = calls[d]
  BY <1>1, <1>5, <1>6
<1>8. outbound' \in Seq(Sent) /\ client' \in {"starting", "some", "taken", "failed"}
  <2>1. Initialized \in Sent BY DEF Sent, Messages, Initialized
  <2>2. Queued(Initialized) => outbound' \in Seq(Sent) BY <1>1, <2>1, QueuedSent
  <2>3. client \in {"starting", "some", "taken", "failed"} /\ outbound \in Seq(Sent)
    BY <1>1 DEF TypeOK, OnTheirWay
  <2>. QED BY <2>2, <2>3 DEF Responded
<1>9. UNCHANGED <<next_id, rx, response_handlers, output, stdout, writer, serverVars>>
  BY DEF Responded
<1>10. GoesOn(c) BY <1>2, <1>4, <1>7, <1>8, <1>9 DEF GoesOn
<1>. QED BY <1>10, GoesOnIds

----------------------------------------------------------------------------
(* The tasks and the server *)

\* A step that is no call's own keeps what is said of the calls.
LEMMA TaskIds ==
  ASSUME IInv, UNCHANGED <<next_id, calls>>,
         OnTheirWay', Rest', HandlersMatch', NoneLeftWaiting'
  PROVE  IInv'
<1>1. /\ calls \in [Calls -> CallStates] /\ IdsDiffer /\ IdsCounted
      /\ next_id \in 0..MaxCalls + 1
  BY TypeParts DEF IInv
<1>2. IdsCounted' /\ IdsDiffer' BY <1>1, SameIds
<1>3. TypeOK' BY <1>1, <1>2, TypePartsNext
<1>. QED BY <1>2, <1>3 DEF IInv, IdBeforeSending, AnswersMatch

LEMMA ClearedIds ==
  ASSUME IInv, UNCHANGED calls, Cleared
  PROVE  /\ HandlersMatch' /\ NoneLeftWaiting'
         /\ rx' \in [Calls -> Calls \cup {Pending, Canceled}]
         /\ response_handlers' \in [Ids -> Calls \cup {None}]
<1>1. calls \in [Calls -> CallStates] /\ Rest BY TypeParts DEF IInv
<1>2. HandlersMatch' BY DEF IInv, HandlersMatch, Cleared
<1>3. ASSUME NEW c \in Calls, calls[c].at \in {"sending", "awaiting"}, rx'[c] = Pending
      PROVE  FALSE
  <2>1. rx[c] = Pending BY <1>3, Numbers DEF Cleared
  <2>2. response_handlers[calls[c].id] = c BY <1>3, <2>1 DEF IInv, NoneLeftWaiting
  <2>3. calls[c].id \in Ids BY <1>1, <1>3 DEF IInv, IdBeforeSending, CallStates
  <2>4. rx'[c] = Canceled BY <2>2, <2>3 DEF Cleared
  <2>. QED BY <1>3, <2>4, Numbers
<1>4. NoneLeftWaiting' BY <1>3 DEF NoneLeftWaiting, Cleared
<1>. QED BY <1>1, <1>2, <1>4 DEF Cleared, Rest

LEMMA OutputIds ==
  ASSUME IInv, handle_output \/ OutputEnds \/ DropClient
  PROVE  IInv'
<1>1. OnTheirWay /\ Rest BY TypeParts DEF IInv
<1>2. UNCHANGED calls BY DEF handle_output, OutputEnds, DropClient
<1>3. Sent' = Sent /\ Drawn' = Drawn
  BY <1>2 DEF Sent, Drawn
<1>4. CASE handle_output
  <2>1. /\ Head(outbound) \in Sent /\ Tail(outbound) \in Seq(Sent)
        /\ Append(stdout, Head(outbound)) \in Seq(Sent)
    BY <1>1, <1>4, HeadTailProperties, AppendProperties DEF handle_output, OnTheirWay
  <2>2. OnTheirWay' BY <1>1, <1>3, <1>4, <2>1 DEF handle_output, OnTheirWay, serverVars
  <2>3. /\ Rest' /\ HandlersMatch' /\ NoneLeftWaiting'
    <3>1. CASE writer
      BY <3>1, <1>1, <1>4 DEF handle_output, Rest, IInv, HandlersMatch, NoneLeftWaiting, serverVars
    <3>2. CASE ~writer
      BY <3>2, <1>1, <1>4, ClearedIds DEF handle_output, Rest, serverVars
    <3>. QED BY <3>1, <3>2
  <2>. QED BY <1>4, <2>2, <2>3, TaskIds DEF handle_output
<1>5. CASE OutputEnds
  <2>1. OnTheirWay' BY <1>1, <1>3, <1>5, EmptySeq DEF OutputEnds, OnTheirWay, serverVars
  <2>2. Rest' /\ HandlersMatch' /\ NoneLeftWaiting'
    BY <1>1, <1>5 DEF OutputEnds, Rest, IInv, HandlersMatch, NoneLeftWaiting, serverVars
  <2>. QED BY <1>5, <2>1, <2>2, TaskIds DEF OutputEnds
<1>6. CASE DropClient
  <2>1. OnTheirWay' BY <1>1, <1>3, <1>6, EmptySeq DEF DropClient, OnTheirWay
  <2>2. Rest' /\ HandlersMatch' /\ NoneLeftWaiting'
    BY <1>1, <1>6, ClearedIds DEF DropClient, Rest
  <2>. QED BY <1>6, <2>1, <2>2, TaskIds DEF DropClient
<1>. QED BY <1>4, <1>5, <1>6

\* An answer is for the call whose handler it takes, even if it comes late or again.
LEMMA InputIds ==
  ASSUME IInv, handle_input
  PROVE  IInv'
<1>. DEFINE d == Head(inbound)
            i == calls[d].id
            c == response_handlers[i]
<1>1. OnTheirWay /\ Rest /\ IdsDiffer /\ calls \in [Calls -> CallStates] BY TypeParts DEF IInv
<1>2. d \in Drawn /\ Tail(inbound) \in Seq(Drawn)
  BY <1>1, HeadTailProperties DEF handle_input, OnTheirWay
<1>3. d \in Calls /\ i \in Ids BY <1>1, <1>2 DEF Drawn, CallStates
<1>4. c \in Calls \cup {None} /\ (c # None => calls[c].id = i)
  BY <1>1, <1>3 DEF Rest, IInv, HandlersMatch
<1>5. c # None => c = d BY <1>1, <1>3, <1>4, Numbers DEF IdsDiffer
<1>6. /\ inbound' = Tail(inbound) /\ response_handlers' = [response_handlers EXCEPT ![i] = None]
      /\ rx' = IF c = None THEN rx ELSE [rx EXCEPT ![c] = d]
      /\ UNCHANGED <<next_id, calls, ioVars, server, received, answers, client>>
  BY DEF handle_input
<1>. HIDE DEF d, i, c
<1>7. OnTheirWay' BY <1>1, <1>2, <1>6 DEF OnTheirWay, ioVars, Sent, Drawn
<1>8. Rest' BY <1>1, <1>3, <1>4, <1>6 DEF Rest, ioVars
<1>9. HandlersMatch' BY <1>1, <1>3, <1>4, <1>5, <1>6 DEF IInv, HandlersMatch, Rest
<1>10. NoneLeftWaiting'
  <2>1. output' = output BY <1>6 DEF ioVars
  <2>2. output' # "running" => \A j \in Ids : response_handlers'[j] = None
    BY <2>1, <1>1, <1>6 DEF IInv, NoneLeftWaiting, Rest
  <2>3. ASSUME NEW e \in Calls, calls[e].at \in {"sending", "awaiting"}, rx'[e] = Pending
        PROVE  response_handlers'[calls[e].id] = e
    <3>1. e # c BY <2>3, <1>1, <1>3, <1>6, Numbers DEF Rest
    <3>2. rx[e] = Pending BY <2>3, <3>1, <1>1, <1>4, <1>6 DEF Rest
    <3>3. response_handlers[calls[e].id] = e BY <2>3, <3>2 DEF IInv, NoneLeftWaiting
    <3>4. calls[e].id # i BY <3>1, <3>3 DEF c
    <3>5. calls[e].id \in Ids BY <2>3, <1>1 DEF IInv, IdBeforeSending, CallStates
    <3>. QED BY <3>3, <3>4, <3>5, <1>1, <1>6 DEF Rest
  <2>. QED BY <2>2, <2>3, <1>6 DEF NoneLeftWaiting
<1>. QED BY <1>6, <1>7, <1>8, <1>9, <1>10, TaskIds

LEMMA ServerIds ==
  ASSUME IInv, write_all \/ stop \/ Answers \/ Exits
  PROVE  IInv'
<1>1. OnTheirWay /\ Rest BY TypeParts DEF IInv
<1>2. UNCHANGED <<next_id, calls, rx, response_handlers, output, outbound>>
  BY DEF write_all, stop, Answers, Exits, ioVars
<1>3. Sent' = Sent /\ Drawn' = Drawn BY <1>2 DEF Sent, Drawn
<1>4. HandlersMatch' /\ NoneLeftWaiting'
  BY <1>2 DEF IInv, HandlersMatch, NoneLeftWaiting
<1>5. OnTheirWay'
  <2>1. CASE write_all
    <3>1. /\ Head(stdout) \in Sent /\ Tail(stdout) \in Seq(Sent)
          /\ Append(received, Head(stdout)) \in Seq(Sent) /\ <<>> \in Seq(Sent)
      BY <1>1, <2>1, HeadTailProperties, AppendProperties, EmptySeq DEF write_all, OnTheirWay
    <3>. QED BY <1>1, <1>2, <1>3, <2>1, <3>1 DEF write_all, OnTheirWay
  <2>2. CASE stop BY <1>1, <1>3, <2>2 DEF stop, OnTheirWay, ioVars, serverVars
  <2>3. CASE Answers
    <3>1. PICK ix \in DOMAIN received :
            received[ix].kind = "request" /\ inbound' = Append(inbound, received[ix].call)
      BY <2>3 DEF Answers
    <3>2. received[ix] \in Sent BY <1>1, LenProperties, ElementOfSeq DEF OnTheirWay
    <3>3. received[ix].call \in Drawn
      BY <3>1, <3>2 DEF Sent, Messages, Initialized, Drawn
    <3>4. inbound' \in Seq(Drawn) BY <1>1, <3>1, <3>3, AppendProperties DEF OnTheirWay
    <3>. QED BY <1>1, <1>3, <2>3, <3>4 DEF Answers, OnTheirWay, ioVars
  <2>4. CASE Exits BY <1>1, <1>3, <2>4 DEF Exits, OnTheirWay, ioVars
  <2>. QED BY <2>1, <2>2, <2>3, <2>4
<1>6. Rest'
  <2>1. CASE write_all BY <1>1, <2>1 DEF Rest, write_all
  <2>2. CASE stop BY <1>1, <2>2 DEF Rest, stop, ioVars, serverVars
  <2>3. CASE Answers
    <3>1. answers' \in 0..MaxAnswers BY <1>1, <2>3, BoundsAssumption DEF Rest, Answers
    <3>. QED BY <1>1, <2>3, <3>1 DEF Rest, Answers, ioVars
  <2>4. CASE Exits BY <1>1, <2>4 DEF Rest, Exits, ioVars
  <2>. QED BY <2>1, <2>2, <2>3, <2>4
<1>. QED BY <1>2, <1>4, <1>5, <1>6, TaskIds

LEMMA IdsStep == IInv /\ [Next]_vars => IInv'
<1>. SUFFICES ASSUME IInv, [Next]_vars PROVE IInv' OBVIOUS
<1>1. CASE UNCHANGED vars
  <2>1. OnTheirWay /\ Rest BY TypeParts DEF IInv
  <2>2. OnTheirWay' /\ Rest' /\ HandlersMatch' /\ NoneLeftWaiting'
    BY <1>1, <2>1 DEF vars, ioVars, serverVars, IInv, OnTheirWay, Rest, HandlersMatch,
                      NoneLeftWaiting, Sent, Drawn
  <2>. QED BY <1>1, <2>2, TaskIds DEF vars
<1>2. CASE Next
  BY <1>2, CallerIds, InsertIds, RespondedIds, OutputIds, InputIds, ServerIds DEF Next
<1>. QED BY <1>1, <1>2

THEOREM IdsKept == Spec => []IInv
BY InitIds, IdsStep, PTL DEF Spec

\* TypeOK: ids are counted up and none is drawn twice, and what the queues, the
\* handlers and the channels hold has its type.
THEOREM TypeCorrect == Spec => []TypeOK
BY IdsKept, PTL DEF IInv

\* AnswersMatch: the answer a call returns is the answer to it, although answers
\* come in any order, late and more than once.
THEOREM AnswersAlwaysMatch == Spec => []AnswersMatch
BY IdsKept, PTL DEF IInv

\* NoneLeftWaiting: a call that waits has its handler, until the output has ended;
\* from then on there is none, and the channel of every call is closed.
THEOREM CallersAlwaysHeard == Spec => []NoneLeftWaiting
BY IdsKept, PTL DEF IInv

----------------------------------------------------------------------------
(* The order of messages *)

LEMMA Kinds ==
  /\ Initialized \in Messages /\ \A c \in Calls : Request(c) \in Messages
  /\ \A c \in Calls : Cancelled(c) \in Messages /\ Cancelled(c) # Initialized
  /\ \A c \in Calls : Request(c) # Initialized
  /\ \A m \in Messages : m.kind = "request" => m.call \in Calls /\ m = Request(m.call)
BY DEF Messages, Initialized, Request, Cancelled

\* A message that goes from the head of one queue to the end of the one before it
\* keeps its place.
LEMMA HeadMoves ==
  ASSUME NEW S, NEW a \in Seq(S), NEW b \in Seq(S), b # <<>>
  PROVE  Append(a, Head(b)) \o Tail(b) = a \o b
<1>. DEFINE l == Append(a, Head(b)) \o Tail(b)
            r == a \o b
<1>1. /\ Len(a) \in Nat /\ Len(b) \in Nat \ {0} /\ Head(b) = b[1]
  BY LenProperties, EmptySeq
<1>2. /\ Head(b) \in S /\ Tail(b) \in Seq(S) /\ Len(Tail(b)) = Len(b) - 1
      /\ \A ix \in 1..Len(Tail(b)) : Tail(b)[ix] = b[ix + 1]
  BY HeadTailProperties
<1>3. /\ Append(a, Head(b)) \in Seq(S) /\ Len(Append(a, Head(b))) = Len(a) + 1
      /\ \A ix \in 1..Len(a) : Append(a, Head(b))[ix] = a[ix]
      /\ Append(a, Head(b))[Len(a) + 1] = Head(b)
  BY <1>2, AppendProperties
<1>4. /\ l \in Seq(S) /\ Len(l) = Len(a) + Len(b)
      /\ \A ix \in 1..(Len(a) + Len(b)) :
           l[ix] = IF ix <= Len(a) + 1 THEN Append(a, Head(b))[ix] ELSE Tail(b)[ix - (Len(a) + 1)]
  <2>1. /\ l \in Seq(S) /\ Len(l) = Len(Append(a, Head(b))) + Len(Tail(b))
        /\ \A ix \in 1..(Len(Append(a, Head(b))) + Len(Tail(b))) :
             l[ix] = IF ix <= Len(Append(a, Head(b))) THEN Append(a, Head(b))[ix]
                     ELSE Tail(b)[ix - Len(Append(a, Head(b)))]
    BY <1>2, <1>3, ConcatProperties
  <2>2. Len(Append(a, Head(b))) + Len(Tail(b)) = Len(a) + Len(b) BY <1>1, <1>2, <1>3
  <2>. QED BY <2>1, <2>2, <1>3
<1>5. /\ r \in Seq(S) /\ Len(r) = Len(a) + Len(b)
      /\ \A ix \in 1..(Len(a) + Len(b)) : r[ix] = IF ix <= Len(a) THEN a[ix] ELSE b[ix - Len(a)]
  BY ConcatProperties
<1>. HIDE DEF l, r
<1>6. ASSUME NEW ix \in 1..(Len(a) + Len(b)) PROVE l[ix] = r[ix]
  <2>1. CASE ix <= Len(a) BY <2>1, <1>1, <1>3, <1>4, <1>5
  <2>2. CASE ix = Len(a) + 1 BY <2>2, <1>1, <1>3, <1>4, <1>5
  <2>3. CASE ix > Len(a) + 1
    <3>1. l[ix] = Tail(b)[ix - (Len(a) + 1)] BY <2>3, <1>1, <1>4
    <3>2. ix - (Len(a) + 1) \in 1..Len(Tail(b)) BY <2>3, <1>1, <1>2
    <3>3. l[ix] = b[(ix - (Len(a) + 1)) + 1] BY <3>1, <3>2, <1>2
    <3>. QED BY <3>3, <2>3, <1>1, <1>5
  <2>. QED BY <2>1, <2>2, <2>3, <1>1
<1>7. l = r BY <1>4, <1>5, <1>6, SeqEqual
<1>. QED BY <1>7 DEF l, r

\* What is appended comes last.
LEMMA Appended ==
  ASSUME NEW s \in Seq(Messages), NEW m \in Messages
  PROVE  /\ Occurs(m, Append(s, m))
         /\ \A n : Occurs(n, s) => Occurs(n, Append(s, m))
         /\ Ordered(s) /\ (m = Request(Initialize) \/ Occurs(Before(m), s)) =>
              Ordered(Append(s, m))
<1>1. /\ DOMAIN s = 1..Len(s) /\ Len(s) \in Nat
      /\ DOMAIN Append(s, m) = 1..(Len(s) + 1)
      /\ \A ix \in 1..Len(s) : Append(s, m)[ix] = s[ix]
      /\ Append(s, m)[Len(s) + 1] = m
  BY AppendProperties, LenProperties
<1>2. Occurs(m, Append(s, m)) BY <1>1 DEF Occurs
<1>3. \A n : Occurs(n, s) => Occurs(n, Append(s, m)) BY <1>1 DEF Occurs
<1>4. ASSUME Ordered(s), m = Request(Initialize) \/ Occurs(Before(m), s)
      PROVE  Ordered(Append(s, m))
  <2>1. SUFFICES ASSUME NEW ix \in 1..(Len(s) + 1), Append(s, m)[ix] # Request(Initialize)
                 PROVE  \E jx \in 1..(ix - 1) : Append(s, m)[jx] = Before(Append(s, m)[ix])
    BY <1>1 DEF Ordered
  <2>2. CASE ix = Len(s) + 1
    <3>1. Occurs(Before(m), s) BY <2>1, <2>2, <1>1, <1>4
    <3>2. PICK jx \in 1..Len(s) : s[jx] = Before(m) BY <3>1, <1>1 DEF Occurs
    <3>. QED BY <3>2, <2>2, <1>1
  <2>3. CASE ix \in 1..Len(s)
    <3>1. s[ix] # Request(Initialize) /\ Append(s, m)[ix] = s[ix] BY <2>1, <2>3, <1>1
    <3>2. PICK jx \in 1..(ix - 1) : s[jx] = Before(s[ix]) BY <3>1, <2>3, <1>1, <1>4 DEF Ordered
    <3>3. jx \in 1..Len(s) BY <2>3, <3>2, <1>1
    <3>. QED BY <3>1, <3>2, <3>3, <1>1
  <2>. QED BY <2>2, <2>3, <1>1
<1>. QED BY <1>2, <1>3, <1>4

\* What comes first is ordered if the whole is.
LEMMA Prefix ==
  ASSUME NEW s \in Seq(Messages), NEW t \in Seq(Messages)
  PROVE  /\ \A n : Occurs(n, s) => Occurs(n, s \o t)
         /\ Ordered(s \o t) => Ordered(s)
<1>1. /\ DOMAIN s = 1..Len(s) /\ Len(s) \in Nat /\ Len(t) \in Nat
      /\ DOMAIN (s \o t) = 1..(Len(s) + Len(t))
      /\ \A ix \in 1..Len(s) : ix \in 1..(Len(s) + Len(t)) /\ (s \o t)[ix] = s[ix]
  BY ConcatProperties, LenProperties
<1>2. \A n : Occurs(n, s) => Occurs(n, s \o t) BY <1>1 DEF Occurs
<1>3. ASSUME Ordered(s \o t) PROVE Ordered(s)
  <2>1. SUFFICES ASSUME NEW ix \in 1..Len(s), s[ix] # Request(Initialize)
                 PROVE  \E jx \in 1..(ix - 1) : s[jx] = Before(s[ix])
    BY <1>1 DEF Ordered
  <2>2. PICK jx \in 1..(ix - 1) : (s \o t)[jx] = Before((s \o t)[ix])
    BY <2>1, <1>1, <1>3 DEF Ordered
  <2>3. jx \in 1..Len(s) BY <2>1, <2>2, <1>1
  <2>. QED BY <2>2, <2>3, <1>1
<1>. QED BY <1>2, <1>3

----------------------------------------------------------------------------
(* The handshake *)

Queues == outbound \in Seq(Messages) /\ stdout \in Seq(Messages) /\ received \in Seq(Messages)

LEMMA WireSeq == Queues => Wire \in Seq(Messages)
BY ConcatProperties DEF Queues, Wire

\* What the server has seen is the first part of the wire.
LEMMA WireOfReceived ==
  ASSUME Queues
  PROVE  /\ \A n : Occurs(n, received) => Occurs(n, Wire)
         /\ Ordered(Wire) => Ordered(received)
         /\ Ordered(Wire) => Ordered(received \o (stdout \o <<>>))
<1>1. stdout \o outbound \in Seq(Messages) BY ConcatProperties DEF Queues
<1>2. received \o stdout \in Seq(Messages) BY ConcatProperties DEF Queues
<1>3. stdout \o <<>> = stdout BY ConcatEmptySeq DEF Queues
<1>4. Wire = (received \o stdout) \o outbound BY ConcatAssociative DEF Queues, Wire
<1>5. Ordered(Wire) => Ordered(received \o stdout) BY <1>2, <1>4, Prefix DEF Queues
<1>. QED BY <1>1, <1>3, <1>5, Prefix DEF Queues, Wire

\* A message that is queued is the last on the wire, unless the output has ended.
LEMMA QueuedWire ==
  ASSUME Queues, NEW m \in Messages, Queued(m), UNCHANGED <<stdout, received>>
  PROVE  Wire' = IF output = "ended" THEN Wire ELSE Append(Wire, m)
<1>1. CASE output = "ended" BY <1>1 DEF Queued, Wire
<1>2. CASE output # "ended"
  <2>1. /\ Append(outbound, m) = outbound \o <<m>> /\ <<m>> \in Seq(Messages)
        /\ stdout \o outbound \in Seq(Messages) /\ Wire \in Seq(Messages)
    <3>1. <<m>> = Append(<<>>, m) /\ <<>> \in Seq(Messages) BY EmptySeq
    <3>2. <<m>> \in Seq(Messages) BY <3>1, AppendProperties
    <3>. QED BY <3>2, AppendIsConcat, ConcatProperties, WireSeq DEF Queues
  <2>2. stdout \o (outbound \o <<m>>) = (stdout \o outbound) \o <<m>>
    BY <2>1, ConcatAssociative DEF Queues
  <2>3. received \o ((stdout \o outbound) \o <<m>>) = Wire \o <<m>>
    BY <2>1, ConcatAssociative DEF Queues, Wire
  <2>4. Wire \o <<m>> = Append(Wire, m) BY <2>1, AppendIsConcat
  <2>. QED BY <1>2, <2>1, <2>2, <2>3, <2>4 DEF Queued, Wire
<1>. QED BY <1>1, <1>2

\* A call queues a message that may come last.
LEMMA QueuedOrdered ==
  ASSUME Queues, HInv, NEW m \in Messages, Queued(m),
         UNCHANGED <<stdout, received, output, writer>>,
         \/ output = "ended" \/ ~writer
         \/ m = Request(Initialize) \/ Occurs(Before(m), Wire)
  PROVE  /\ HandshakeFirst' /\ (writer => Ordered(Wire))' /\ (output = "clearing" => ~writer)'
         /\ Occurs(Initialized, Wire) => Occurs(Initialized, Wire')
         /\ output # "ended" => Occurs(m, Wire')
<1>1. Wire \in Seq(Messages) /\ Wire' = IF output = "ended" THEN Wire ELSE Append(Wire, m)
  BY WireSeq, QueuedWire
<1>2. writer => Ordered(Wire') BY <1>1, Appended DEF HInv
<1>3. HandshakeFirst' BY DEF HInv, HandshakeFirst
<1>4. (Occurs(Initialized, Wire) => Occurs(Initialized, Wire')) /\ (output # "ended" => Occurs(m, Wire'))
  BY <1>1, Appended
<1>. QED BY <1>2, <1>3, <1>4 DEF HInv

\* Queues and channels as they are; the order of what is on the wire has been seen to.
LEMMA CallerOrder ==
  ASSUME IInv, HInv, UNCHANGED <<rx, inbound, received>>,
         HandshakeFirst', (writer => Ordered(Wire))', (output = "clearing" => ~writer)',
         (HandedOut => output = "ended" \/ ~writer \/ Occurs(Initialized, Wire))'
  PROVE  HInv'
BY DEF HInv

LEMMA InitOrder == Init => HInv
<1>. SUFFICES ASSUME Init PROVE HInv OBVIOUS
<1>1. received = <<>> /\ stdout = <<>> /\ outbound = <<>> /\ inbound = <<>> BY DEF Init
<1>2. Wire = <<>> BY <1>1, ConcatEmptySeq, EmptySeq DEF Wire
<1>3. DOMAIN <<>> = {} OBVIOUS
<1>4. Ordered(Wire) /\ HandshakeFirst BY <1>1, <1>2, <1>3 DEF Ordered, HandshakeFirst
<1>5. \A c \in Calls : rx[c] # c BY Numbers DEF Init
<1>6. ~HandedOut BY DEF Init, HandedOut
<1>7. output = "running" BY DEF Init
<1>. QED BY <1>1, <1>3, <1>4, <1>5, <1>6, <1>7 DEF HInv

LEMMA CallsOrder ==
  ASSUME IInv, HInv, NEW c \in Calls,
         \/ get_client(c) \/ insert_handler(c) \/ RequestTimeout(c) \/ Dropped(c)
  PROVE  HInv'
<1>1. UNCHANGED <<inbound, received, output, stdout, writer, outbound>>
  BY DEF get_client, insert_handler, RequestTimeout, Dropped, ioVars, serverVars
<1>2. rx' = rx BY DEF get_client, insert_handler, RequestTimeout, Dropped
<1>3. Wire' = Wire BY <1>1 DEF Wire
<1>4. calls \in [Calls -> CallStates] BY TypeParts DEF IInv
<1>5. HandedOut' => HandedOut
  <2>1. \A d \in Calls \ {c} : calls'[d] = calls[d]
    BY <1>4 DEF get_client, insert_handler, RequestTimeout, Dropped, Moved
  <2>2. calls[c].at # "idle" \/ client = "some"
    BY DEF get_client, insert_handler, RequestTimeout, Dropped
  <2>3. client' \in {client, "failed"}
    BY DEF get_client, insert_handler, RequestTimeout, Dropped
  <2>. QED BY <2>1, <2>2, <2>3 DEF HandedOut
<1>6. HandshakeFirst' BY <1>1 DEF HInv, HandshakeFirst
<1>. QED BY <1>1, <1>2, <1>3, <1>5, <1>6 DEF HInv

LEMMA SendOrder ==
  ASSUME IInv, HInv, NEW c \in Calls, try_send(c) \/ RequestCanceled(c)
  PROVE  HInv'
<1>1. /\ calls \in [Calls -> CallStates] /\ Queues /\ OnTheirWay
  BY TypeParts, SentAreMessages DEF IInv, Queues
<1>2. UNCHANGED <<rx, inbound, received, output, stdout, writer>>
  BY DEF try_send, RequestCanceled, serverVars
<1>3. calls[c].at # "idle" /\ \A d \in Calls \ {c} : calls'[d] = calls[d]
  BY <1>1 DEF try_send, RequestCanceled, Moved
<1>4. client' \in {client, "failed"} BY DEF try_send, RequestCanceled
<1>5. HandedOut' => HandedOut BY <1>3, <1>4 DEF HandedOut
<1>6. c # Initialize => output = "ended" \/ ~writer \/ Occurs(Initialized, Wire)
  BY <1>3 DEF HInv, HandedOut
<1>7. PICK m \in Messages : /\ Queued(m) /\ m # Initialized
                            /\ m = Request(Initialize) \/ c # Initialize
  BY Kinds DEF try_send, RequestCanceled
<1>8. /\ HandshakeFirst' /\ (writer => Ordered(Wire))' /\ (output = "clearing" => ~writer)'
      /\ Occurs(Initialized, Wire) => Occurs(Initialized, Wire')
  BY <1>1, <1>2, <1>6, <1>7, QueuedOrdered DEF Before
<1>9. (HandedOut => output = "ended" \/ ~writer \/ Occurs(Initialized, Wire))'
  BY <1>2, <1>5, <1>8 DEF HInv
<1>. QED BY <1>2, <1>8, <1>9, CallerOrder

\* The answer to Initialize says that the server has seen it.
LEMMA RespondedOrder ==
  ASSUME IInv, HInv, NEW c \in Calls, Responded(c)
  PROVE  HInv'
<1>1. /\ calls \in [Calls -> CallStates] /\ Queues /\ OnTheirWay
  BY TypeParts, SentAreMessages DEF IInv, Queues
<1>2. UNCHANGED <<rx, inbound, received, output, stdout, writer>> BY DEF Responded, serverVars
<1>3. calls[c].at # "idle" /\ \A d \in Calls \ {c} : calls'[d] = calls[d]
  BY <1>1 DEF Responded
<1>4. CASE client' \in {client, "failed"} /\ UNCHANGED outbound
  <2>1. HandedOut' => HandedOut BY <1>3, <1>4 DEF HandedOut
  <2>2. Wire' = Wire BY <1>2, <1>4 DEF Wire
  <2>3. HandshakeFirst' BY <1>2 DEF HInv, HandshakeFirst
  <2>. QED BY <1>2, <2>1, <2>2, <2>3 DEF HInv
<1>5. CASE c = Initialize /\ rx[c] = c /\ Queued(Initialized)
  <2>1. Occurs(Request(Initialize), Wire) BY <1>1, <1>5, WireOfReceived DEF HInv
  <2>2. Before(Initialized) = Request(Initialize) /\ Initialized \in Messages
    BY Kinds DEF Before
  <2>3. /\ HandshakeFirst' /\ (writer => Ordered(Wire))' /\ (output = "clearing" => ~writer)'
        /\ output # "ended" => Occurs(Initialized, Wire')
    BY <1>1, <1>2, <1>5, <2>1, <2>2, QueuedOrdered
  <2>. QED BY <1>2, <2>3, CallerOrder
<1>6. rx[c] \in {Canceled, c} BY DEF Responded, IInv, HandlersMatch
<1>. QED BY <1>4, <1>5, <1>6 DEF Responded

LEMMA OutputOrder ==
  ASSUME IInv, HInv, handle_output \/ OutputEnds \/ DropClient
  PROVE  HInv'
<1>1. Queues /\ Rest BY TypeParts, SentAreMessages DEF IInv, Queues
<1>2. UNCHANGED <<calls, client, writer, inbound, received>>
  BY DEF handle_output, OutputEnds, DropClient, serverVars
<1>3. HandedOut' = HandedOut BY <1>2 DEF HandedOut
<1>4. HandshakeFirst' BY <1>2 DEF HInv, HandshakeFirst
<1>5. \A c \in Calls : rx'[c] \in {rx[c], Canceled}
  <2>1. Cleared => \A c \in Calls : rx'[c] \in {rx[c], Canceled} BY DEF Cleared
  <2>. QED BY <2>1 DEF handle_output, OutputEnds, DropClient
<1>6. \A c \in Calls : rx'[c] = c => Occurs(Request(c), received')
  BY <1>2, <1>5, Numbers DEF HInv
<1>7. CASE handle_output
  <2>1. CASE writer
    <3>1. /\ outbound # <<>> /\ outbound' = Tail(outbound)
          /\ stdout' = Append(stdout, Head(outbound)) /\ output' = output
      BY <1>7, <2>1 DEF handle_output
    <3>2. stdout' \o outbound' = stdout \o outbound BY <1>1, <3>1, HeadMoves DEF Queues
    <3>3. Wire' = Wire BY <1>2, <3>2 DEF Wire
    <3>. QED BY <1>2, <1>3, <1>4, <1>6, <3>1, <3>3 DEF HInv
  <2>2. CASE ~writer BY <1>2, <1>4, <1>6, <2>2 DEF HInv
  <2>. QED BY <2>1, <2>2
<1>8. CASE OutputEnds \/ DropClient
  <2>1. output' = "ended" /\ outbound' = <<>> /\ UNCHANGED stdout
    BY <1>8 DEF OutputEnds, DropClient
  <2>2. Ordered(Wire) => Ordered(Wire') BY <1>1, <1>2, <2>1, WireOfReceived DEF Wire
  <2>. QED BY <1>2, <1>4, <1>6, <2>1, <2>2 DEF HInv
<1>. QED BY <1>7, <1>8

LEMMA WriteOrder ==
  ASSUME IInv, HInv, write_all
  PROVE  HInv'
<1>1. Queues BY SentAreMessages DEF IInv, Queues
<1>2. UNCHANGED <<calls, client, rx, output, outbound, inbound>> BY DEF write_all
<1>3. HandedOut' = HandedOut BY <1>2 DEF HandedOut
<1>4. CASE server = "alive"
  <2>1. /\ stdout # <<>> /\ received' = Append(received, Head(stdout)) /\ stdout' = Tail(stdout)
        /\ writer' = writer /\ writer
    BY <1>4 DEF write_all
  <2>2. /\ Head(stdout) \in Messages /\ received' \in Seq(Messages) /\ stdout' \in Seq(Messages)
    BY <1>1, <2>1, HeadTailProperties, AppendProperties DEF Queues
  <2>3. received' \o stdout' = received \o stdout BY <1>1, <2>1, HeadMoves DEF Queues
  <2>4. Wire' = Wire
    <3>1. (received' \o stdout') \o outbound = received' \o (stdout' \o outbound)
      BY <1>1, <2>2, ConcatAssociative DEF Queues
    <3>2. (received \o stdout) \o outbound = received \o (stdout \o outbound)
      BY <1>1, ConcatAssociative DEF Queues
    <3>. QED BY <1>2, <2>3, <3>1, <3>2 DEF Wire
  <2>5. Ordered(received')
    <3>1. Wire = received' \o (stdout' \o outbound) BY <1>2, <2>4 DEF Wire
    <3>2. stdout' \o outbound \in Seq(Messages) BY <1>1, <2>2, ConcatProperties DEF Queues
    <3>. QED BY <2>1, <2>2, <3>1, <3>2, Prefix DEF HInv
  <2>6. HandshakeFirst' BY <2>5 DEF HandshakeFirst, Ordered, Before
  <2>7. \A n : Occurs(n, received) => Occurs(n, received')
    BY <1>1, <2>1, <2>2, Appended DEF Queues
  <2>. QED BY <1>2, <1>3, <2>1, <2>4, <2>6, <2>7 DEF HInv
<1>5. CASE server # "alive"
  <2>1. writer' = FALSE /\ received' = received BY <1>5 DEF write_all
  <2>2. HandshakeFirst' BY <2>1 DEF HInv, HandshakeFirst
  <2>. QED BY <1>2, <2>1, <2>2 DEF HInv
<1>. QED BY <1>4, <1>5

LEMMA ServerOrder ==
  ASSUME IInv, HInv, handle_input \/ stop \/ Answers \/ Exits
  PROVE  HInv'
<1>1. OnTheirWay /\ Queues /\ Rest /\ inbound \in Seq(Calls)
  BY TypeParts, SentAreMessages DEF IInv, Queues
<1>2. UNCHANGED <<calls, output, stdout, writer, outbound, received>>
  BY DEF handle_input, stop, Answers, Exits, ioVars, serverVars
<1>3. Wire' = Wire BY <1>2 DEF Wire
<1>4. HandedOut' => HandedOut BY <1>2 DEF HandedOut, handle_input, stop, Answers, Exits
<1>5. HandshakeFirst' BY <1>2 DEF HInv, HandshakeFirst
<1>6. \A ix \in DOMAIN inbound' : Occurs(Request(inbound'[ix]), received)
  <2>1. CASE handle_input
    <3>1. inbound # <<>> /\ inbound' = Tail(inbound) BY <2>1 DEF handle_input
    <3>2. /\ Len(inbound) \in Nat /\ DOMAIN inbound = 1..Len(inbound)
          /\ inbound' \in Seq(Calls) /\ Len(inbound') = Len(inbound) - 1
          /\ \A ix \in 1..Len(inbound') : inbound'[ix] = inbound[ix + 1]
      BY <1>1, <3>1, HeadTailProperties, LenProperties
    <3>3. DOMAIN inbound' = 1..(Len(inbound) - 1) BY <3>2, LenProperties
    <3>4. \A ix \in 1..(Len(inbound) - 1) : ix + 1 \in DOMAIN inbound BY <3>2
    <3>. QED BY <3>2, <3>3, <3>4 DEF HInv
  <2>2. CASE Answers
    <3>1. PICK ix \in DOMAIN received :
            received[ix].kind = "request" /\ inbound' = Append(inbound, received[ix].call)
      BY <2>2 DEF Answers
    <3>2. received[ix] \in Messages BY <1>1, LenProperties, ElementOfSeq DEF Queues
    <3>3. received[ix].call \in Calls /\ received[ix] = Request(received[ix].call)
      BY <3>1, <3>2, Kinds
    <3>4. Occurs(Request(received[ix].call), received) BY <3>3 DEF Occurs
    <3>5. /\ DOMAIN inbound = 1..Len(inbound) /\ Len(inbound) \in Nat
          /\ DOMAIN inbound' = 1..(Len(inbound) + 1)
          /\ \A jx \in 1..Len(inbound) : inbound'[jx] = inbound[jx]
          /\ inbound'[Len(inbound) + 1] = received[ix].call
      BY <1>1, <3>1, <3>3, AppendProperties, LenProperties
    <3>. QED BY <3>4, <3>5 DEF HInv
  <2>3. CASE stop \/ Exits BY <2>3 DEF stop, Exits, serverVars, HInv
  <2>. QED BY <2>1, <2>2, <2>3
<1>7. \A c \in Calls : rx'[c] = c => Occurs(Request(c), received)
  <2>1. CASE handle_input
    <3>. DEFINE d == Head(inbound)
    <3>1. inbound # <<>> BY <2>1 DEF handle_input
    <3>2. d = inbound[1] /\ 1 \in DOMAIN inbound BY <1>1, <3>1, EmptySeq, LenProperties
    <3>3. Occurs(Request(d), received) BY <3>2 DEF HInv
    <3>4. rx' = rx \/ \E c \in Calls : rx' = [rx EXCEPT ![c] = d]
      <4>1. d \in Drawn BY <1>1, <3>1, HeadTailProperties DEF OnTheirWay
      <4>2. calls[d].id \in Ids BY <4>1, TypeParts DEF IInv, Drawn, CallStates
      <4>3. response_handlers[calls[d].id] \in Calls \cup {None} BY <4>2, <1>1 DEF Rest
      <4>. QED BY <2>1, <4>3 DEF handle_input
    <3>. HIDE DEF d
    <3>. QED BY <1>1, <3>3, <3>4 DEF HInv, Rest
  <2>2. CASE stop \/ Answers \/ Exits BY <2>2 DEF stop, Answers, Exits, HInv
  <2>. QED BY <2>1, <2>2
<1>. QED BY <1>2, <1>3, <1>4, <1>5, <1>6, <1>7 DEF HInv

LEMMA OrderStep == IInv /\ HInv /\ [Next]_vars => HInv'
<1>. SUFFICES ASSUME IInv, HInv, [Next]_vars PROVE HInv' OBVIOUS
<1>1. CASE UNCHANGED vars
  BY <1>1 DEF vars, ioVars, serverVars, HInv, HandshakeFirst, Wire, HandedOut
<1>2. CASE Next
  BY <1>2, CallsOrder, SendOrder, RespondedOrder, OutputOrder, WriteOrder, ServerOrder DEF Next
<1>. QED BY <1>1, <1>2

\* HandshakeFirst: whatever comes of the client, the server has seen Initialize
\* before Initialized, and Initialized before every other message.
THEOREM HandshakeAlwaysFirst == Spec => []HandshakeFirst
<1>1. Init => IInv /\ HInv BY InitIds, InitOrder
<1>2. IInv /\ HInv /\ [Next]_vars => (IInv /\ HInv)' BY IdsStep, OrderStep
<1>3. HInv => HandshakeFirst BY DEF HInv
<1>. QED BY <1>1, <1>2, <1>3, PTL DEF Spec

=============================================================================

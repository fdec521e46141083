------------------------- MODULE ThreadPersistence -------------------------
(***************************************************************************)
(* How threads reach the disk and the history list: NativeAgent's sessions *)
(* (crates/agent2/src/agent.rs), ThreadsDatabase (db.rs) and HistoryStore  *)
(* (history_store.rs).                                                     *)
(*                                                                         *)
(* A copy is one NativeAgent with its session: every view connects an      *)
(* agent of its own, and so does every mention of a thread, so a thread    *)
(* may be open more than once.  What a copy knows is the set of the        *)
(* changes made to it, a truncation being one of them; a row that does not *)
(* exist has none.                                                         *)
(*                                                                         *)
(* Each change that is notified replaces pending_save, which drops the     *)
(* save before it, unless the thread is empty then: it has no message and  *)
(* no title.  A thread that is loaded has a title (to_db gives it one).  A *)
(* dropped save is gone while it waits ("pending"); once a background      *)
(* thread has begun save_thread_sync ("writing") it cannot be stopped and  *)
(* goes on without its session, an orphan; dropped after that ("written")  *)
(* it no longer reloads the history.                                       *)
(***************************************************************************)
EXTENDS Naturals, Sequences, SequencesExt

CONSTANTS
  Threads, Copies,
  MaxChanges, MaxReloads, MaxQuits  \* bounds

ASSUME BoundsAssumption == MaxChanges \in Nat /\ MaxReloads \in Nat \ {0} /\ MaxQuits \in Nat

VARIABLES
  rows,          \* what the database has of each thread
  copies,        \* the sessions; told (auxiliary) is the state a copy had when it
                 \* was loaded or last notified with something in it
  pending_save,  \* Session::pending_save of each copy
  orphans,       \* writes whose session has dropped them
  deleting,      \* where HistoryStore::delete_thread is with each thread
  reloading,     \* how many reloads wait for list_threads
  lists,         \* what list_threads has returned, in that order
  threads,       \* HistoryStore::threads
  changes, born, quits,  \* counters: changes, threads ever created, restarts
  \* auxiliary
  disturbed,  \* threads that were open twice, or whose save was orphaned
  unsaved,    \* threads whose last access to the row was a delete or a failure
  unlisted,   \* threads whose row may differ from the last list without any
              \* reload to come: an orphan or a closed copy wrote it, or
              \* list_threads failed
  reordered   \* the list shown is older than one shown before it

historyVars == <<deleting, reloading, lists, threads, reordered>>
countVars == <<changes, born, quits>>
vars == <<rows, copies, pending_save, orphans, historyVars, countVars,
          disturbed, unsaved, unlisted>>

Changes == 1..MaxChanges
Empty == {}
Contents == {"empty", "untitled", "titled"}

Copy(status, t, s, contents) ==
  [status |-> status, thread |-> t, state |-> s, contents |-> contents, told |-> s]
Closed == Copy("closed", "-", Empty, "empty")
Ready == [at |-> "ready", state |-> Empty]
Save(at, s) == [at |-> at, state |-> s]
Unread == [t \in Threads |-> Empty]

Held(t) == {c \in Copies : copies[c].thread = t}
Open(c) == copies[c].status = "open"

Init ==
  /\ rows = Unread
  /\ copies = [c \in Copies |-> Closed]
  /\ pending_save = [c \in Copies |-> Ready]
  /\ orphans = {}
  /\ deleting = [t \in Threads |-> "no"]
  /\ reloading = 1 /\ lists = <<>> /\ threads = Unread
  /\ changes = 0 /\ born = {} /\ quits = 0
  /\ disturbed = {} /\ unsaved = {} /\ unlisted = {} /\ reordered = FALSE

----------------------------------------------------------------------------
(* Saving. *)

reload == reloading + Len(lists) < MaxReloads /\ reloading' = reloading + 1

\* Variant: a save that is replaced is detached, not dropped.
Dropped_Detached(c) ==
  LET t == copies[c].thread
      p == pending_save[c]
  IN  /\ orphans' = IF p.at \in {"pending", "writing"}
                    THEN orphans \cup {[thread |-> t, state |-> p.state]} ELSE orphans
      /\ UNCHANGED <<disturbed, unlisted>>

\* Dropping the task in pending_save.
Dropped(c) ==
  LET t == copies[c].thread
      p == pending_save[c]
      orphaned == p.at = "writing"
  IN  /\ orphans' = IF orphaned THEN orphans \cup {[thread |-> t, state |-> p.state]}
                    ELSE orphans
      /\ disturbed' = IF orphaned THEN disturbed \cup {t} ELSE disturbed
      /\ unlisted' = IF p.at = "written" THEN unlisted \cup {t} ELSE unlisted

\* What a thread with the given contents may hold after a change.
ContentsAfter(contents) == IF contents = "titled" THEN {"titled"} ELSE Contents

\* A copy after a change, or without one.
Changed(copy, contents) ==
  IF contents = "same" THEN copy
  ELSE [copy EXCEPT !.state = @ \cup {changes + 1}, !.contents = contents]

\* Variant: a save under way is left to finish instead of being replaced.
Notified_KeepsSave(c, contents) ==
  LET copy == Changed(copies[c], contents)
  IN  /\ Open(c) /\ changes < MaxChanges
      /\ contents \in ContentsAfter(copies[c].contents) \cup {"same"}
      /\ changes' = changes + 1
      /\ copies' = [copies EXCEPT ![c] =
                      IF copy.contents = "empty" THEN copy ELSE [copy EXCEPT !.told = copy.state]]
      /\ pending_save' = IF copy.contents = "empty" \/ pending_save[c].at # "ready" THEN pending_save
                         ELSE [pending_save EXCEPT ![c] = Save("pending", copy.state)]
      /\ UNCHANGED <<rows, orphans, historyVars, born, quits, disturbed, unsaved, unlisted>>

\* A notification of the thread: with a change of what is saved, or without
\* (a model that is refreshed, a chunk in the pending message).  save_thread
\* leaves the save before it alone when the thread is empty (again).
Notified(c, contents) ==
  LET copy == Changed(copies[c], contents)
  IN  /\ Open(c) /\ changes < MaxChanges
      /\ contents \in ContentsAfter(copies[c].contents) \cup {"same"}
      /\ changes' = changes + 1
      /\ \/ /\ copy.contents = "empty"
            /\ copies' = [copies EXCEPT ![c] = copy]
            /\ UNCHANGED <<pending_save, orphans, disturbed, unlisted>>
         \/ /\ copy.contents # "empty"
            /\ copies' = [copies EXCEPT ![c] = [copy EXCEPT !.told = copy.state]]
            /\ Dropped(c)
            /\ pending_save' = [pending_save EXCEPT ![c] = Save("pending", copy.state)]
      /\ UNCHANGED <<rows, historyVars, born, quits, unsaved>>

\* What is saved changes without a notification: a refusal truncates the
\* messages, a repetition pushes a Resume message, the profile is set.
Unnotified(c, contents) ==
  /\ Open(c) /\ changes < MaxChanges
  /\ \/ contents = copies[c].contents
     \/ contents = "empty" /\ copies[c].contents = "untitled"
  /\ changes' = changes + 1
  /\ copies' = [copies EXCEPT ![c] = Changed(@, contents)]
  /\ UNCHANGED <<rows, pending_save, orphans, historyVars, born, quits, disturbed, unsaved,
                 unlisted>>

\* to_db is ready, and a background thread picks up save_thread_sync.
WriteStarts(c) ==
  /\ pending_save[c].at = "pending"
  /\ pending_save' = [pending_save EXCEPT ![c].at = "writing"]
  /\ UNCHANGED <<rows, copies, orphans, historyVars, countVars, disturbed, unsaved, unlisted>>

Stored(t, s) == rows' = [rows EXCEPT ![t] = s] /\ unsaved' = unsaved \ {t}

\* save_thread_sync has the connection to itself.
WriteEnds(c) ==
  /\ pending_save[c].at = "writing"
  /\ pending_save' = [pending_save EXCEPT ![c].at = "written"]
  /\ \/ Stored(copies[c].thread, pending_save[c].state)
     \/ rows' = rows /\ unsaved' = unsaved \cup {copies[c].thread}
  /\ UNCHANGED <<copies, orphans, historyVars, countVars, disturbed, unlisted>>

OrphanWritten(o) ==
  /\ orphans' = orphans \ {o}
  /\ Stored(o.thread, o.state)
  /\ unlisted' = unlisted \cup {o.thread}
  /\ UNCHANGED <<copies, pending_save, historyVars, countVars, disturbed>>

\* Variant: the history is not told.
SaveOver_NoReload(c) ==
  /\ pending_save[c].at = "written"
  /\ pending_save' = [pending_save EXCEPT ![c] = Ready]
  /\ UNCHANGED <<rows, copies, orphans, historyVars, countVars, disturbed, unsaved, unlisted>>

SaveOver(c) ==
  /\ pending_save[c].at = "written"
  /\ pending_save' = [pending_save EXCEPT ![c] = Ready]
  /\ reload
  /\ UNCHANGED <<rows, copies, orphans, deleting, lists, threads, countVars,
                 disturbed, unsaved, unlisted, reordered>>

----------------------------------------------------------------------------
(* Sessions. *)

\* Another copy of the thread is or may still be at work.
Disturbed(t) == IF Held(t) # {} THEN disturbed \cup {t} ELSE disturbed

new_thread(c, t) ==
  /\ copies[c] = Closed /\ t \notin born
  /\ born' = born \cup {t}
  /\ copies' = [copies EXCEPT ![c] = Copy("open", t, Empty, "empty")]
  /\ UNCHANGED <<rows, pending_save, orphans, historyVars, changes, quits,
                 disturbed, unsaved, unlisted>>

\* From the history list, the menu of recent threads, or a mention.
open_thread(c, t) ==
  /\ copies[c] = Closed /\ threads[t] # Empty
  /\ copies' = [copies EXCEPT ![c] = Copy("loading", t, Empty, "empty")]
  /\ disturbed' = Disturbed(t)
  /\ UNCHANGED <<rows, pending_save, orphans, historyVars, countVars, unsaved, unlisted>>

load_thread(c) ==
  LET t == copies[c].thread
  IN  /\ copies[c].status = "loading"
      /\ \/ copies' = [copies EXCEPT ![c] = Closed]  \* no row, or none that can be read
         \/ /\ rows[t] # Empty
            /\ copies' = [copies EXCEPT ![c] = Copy("loaded", t, rows[t], "titled")]
      /\ UNCHANGED <<rows, pending_save, orphans, historyVars, countVars,
                     disturbed, unsaved, unlisted>>

\* from_db and register_session.
Registered(c) ==
  /\ copies[c].status = "loaded"
  /\ copies' = [copies EXCEPT ![c].status = "open"]
  /\ UNCHANGED <<rows, pending_save, orphans, historyVars, countVars,
                 disturbed, unsaved, unlisted>>

\* Variant: the session is removed, its save goes on.
Release_KeepsSave(c) ==
  /\ copies[c] # Closed
  /\ copies' = [copies EXCEPT ![c] = Closed]
  /\ UNCHANGED <<rows, pending_save, orphans, historyVars, countVars,
                 disturbed, unsaved, unlisted>>

\* The view, or the task of the mention, drops its AcpThread, which removes
\* the session (observe_release), or stops loading it.
Release(c) ==
  /\ copies[c] # Closed
  /\ Dropped(c)
  /\ copies' = [copies EXCEPT ![c] = Closed]
  /\ pending_save' = [pending_save EXCEPT ![c] = Ready]
  /\ UNCHANGED <<rows, historyVars, countVars, unsaved>>

----------------------------------------------------------------------------
(* The history. *)

delete_thread(t) ==
  /\ threads[t] # Empty /\ deleting[t] = "no"
  /\ deleting' = [deleting EXCEPT ![t] = "queued"]
  /\ UNCHANGED <<rows, copies, pending_save, orphans, reloading, lists, threads,
                 countVars, disturbed, unsaved, unlisted, reordered>>

RowDeleted(t) ==
  /\ deleting[t] = "queued"
  /\ \/ /\ deleting' = [deleting EXCEPT ![t] = "deleted"]
        /\ rows' = [rows EXCEPT ![t] = Empty]
        /\ unsaved' = unsaved \cup {t}
     \/ /\ deleting' = [deleting EXCEPT ![t] = "no"]  \* failed: no reload
        /\ UNCHANGED <<rows, unsaved>>
  /\ UNCHANGED <<copies, pending_save, orphans, reloading, lists, threads,
                 countVars, disturbed, unlisted, reordered>>

DeleteOver(t) ==
  /\ deleting[t] = "deleted"
  /\ deleting' = [deleting EXCEPT ![t] = "no"]
  /\ reload
  /\ UNCHANGED <<rows, copies, pending_save, orphans, lists, threads, countVars,
                 disturbed, unsaved, unlisted, reordered>>

list_threads ==
  /\ reloading > 0
  /\ reloading' = reloading - 1
  /\ lists' = Append(lists, [rows |-> rows, overtaken |-> FALSE])
  /\ unlisted' = {}
  /\ UNCHANGED <<rows, copies, pending_save, orphans, deleting, threads, countVars,
                 disturbed, unsaved, reordered>>

ListFails ==
  /\ reloading > 0
  /\ reloading' = reloading - 1
  /\ unlisted' = Threads
  /\ UNCHANGED <<rows, copies, pending_save, orphans, deleting, lists, threads,
                 countVars, disturbed, unsaved, reordered>>

\* The list arrives in the foreground, in the order in which the background
\* threads get there.
ListArrives(ix) ==
  /\ threads' = lists[ix].rows
  /\ lists' = RemoveAt([jx \in DOMAIN lists |->
                          [lists[jx] EXCEPT !.overtaken = @ \/ jx < ix]], ix)
  /\ reordered' = lists[ix].overtaken
  /\ UNCHANGED <<rows, copies, pending_save, orphans, deleting, reloading, countVars,
                 disturbed, unsaved, unlisted>>

----------------------------------------------------------------------------
(* The application quits, or crashes, and starts again. *)

Quit ==
  /\ quits < MaxQuits /\ quits' = quits + 1
  /\ copies' = [c \in Copies |-> Closed]
  /\ pending_save' = [c \in Copies |-> Ready]
  /\ orphans' = {}
  /\ deleting' = [t \in Threads |-> "no"]
  /\ reloading' = 1 /\ lists' = <<>> /\ threads' = Unread /\ reordered' = FALSE
  /\ disturbed' = {} /\ unlisted' = {}
  /\ UNCHANGED <<rows, changes, born, unsaved>>

Next ==
  \/ \E c \in Copies : \/ \E contents \in Contents : Notified(c, contents) \/ Unnotified(c, contents)
                       \/ Notified(c, "same")
                       \/ WriteStarts(c) \/ WriteEnds(c) \/ SaveOver(c)
                       \/ load_thread(c) \/ Registered(c) \/ Release(c)
                       \/ \E t \in Threads : new_thread(c, t) \/ open_thread(c, t)
  \/ \E o \in orphans : OrphanWritten(o)
  \/ \E t \in Threads : delete_thread(t) \/ RowDeleted(t) \/ DeleteOver(t)
  \/ list_threads \/ ListFails \/ \E ix \in DOMAIN lists : ListArrives(ix)
  \/ Quit

Spec == Init /\ [][Next]_vars

\* Tasks that are ready are run, on the foreground and in the background.
Fairness ==
  /\ \A c \in Copies : WF_vars(WriteStarts(c)) /\ WF_vars(WriteEnds(c))
  /\ WF_vars(\E c \in Copies : SaveOver(c))
  /\ WF_vars(list_threads) /\ WF_vars(\E ix \in DOMAIN lists : ListArrives(ix))

LiveSpec == Spec /\ Fairness

----------------------------------------------------------------------------

States == SUBSET Changes
Sessions == [status : {"closed", "loading", "loaded", "open"},
             thread : Threads \cup {"-"}, state : States,
             contents : Contents, told : States]
Saves == [at : {"ready", "pending", "writing", "written"}, state : States]
Lists == [rows : [Threads -> States], overtaken : BOOLEAN]

\* Every variable has its type, and only what is open has a save under way.
TypeOK ==
  /\ rows \in [Threads -> States] /\ threads \in [Threads -> States]
  /\ copies \in [Copies -> Sessions] /\ pending_save \in [Copies -> Saves]
  /\ \A c \in Copies :
       /\ copies[c] = Closed \/ (copies[c].status # "closed" /\ copies[c].thread \in Threads)
       /\ Open(c) \/ pending_save[c] = Ready
  /\ orphans \subseteq [thread : Threads, state : States]
  /\ deleting \in [Threads -> {"no", "queued", "deleted"}]
  /\ reloading \in Nat /\ lists \in Seq(Lists) /\ reloading + Len(lists) <= MaxReloads
  /\ changes \in 0..MaxChanges /\ born \subseteq Threads /\ quits \in 0..MaxQuits
  /\ disturbed \subseteq Threads /\ unsaved \subseteq Threads
  /\ unlisted \subseteq Threads /\ reordered \in BOOLEAN

\* Saving a thread loses nothing that is on the disk: across closing and
\* opening, restarts and failed writes, a row only changes for a later state of
\* its thread, or is deleted.  (Not so when two copies are open, or when a save
\* was replaced or dropped while a background thread was writing it: nothing
\* orders that write and the ones after it.)
RowsOnlyGrow ==
  [][\A t \in Threads : \/ rows[t] \subseteq rows'[t]
                        \/ rows'[t] = Empty
                        \/ t \in disturbed]_vars

\* When a copy has no save under way, what is on the disk is what it showed
\* when it last notified with something in it: replacing the save before it by
\* a newer one drops no change.  (What it shows may be later: changes that do
\* not notify, and those that leave it empty, start no save.)
LatestSaved ==
  \A c \in Copies :
    Open(c) /\ pending_save[c].at \in {"ready", "written"} =>
      \/ rows[copies[c].thread] = copies[c].told
      \/ copies[c].thread \in unsaved \cup disturbed

\* When all tasks have ended, the history lists what is on the disk, unless a
\* save went on without its session, which then does not reload the list, or
\* an older list arrived last.
HistoryCurrent ==
  /\ \A c \in Copies : pending_save[c] = Ready
  /\ orphans = {} /\ \A t \in Threads : deleting[t] # "deleted"
  /\ reloading = 0 /\ lists = <<>>
  => reordered \/ \A t \in Threads \ unlisted : threads[t] = rows[t]

\* Every change of an open thread that it is notified with, or that is there
\* when it is next notified with something in it, reaches the disk, if the copy
\* stays open, the write does not fail and no orphan's follows it.
ChangesReachDisk ==
  \A c \in Copies, t \in Threads, k \in Changes :
    Open(c) /\ copies[c].thread = t /\ k \in copies[c].told ~>
      k \in rows[t] \/ t \in unsaved \cup disturbed \/ ~Open(c)

=============================================================================

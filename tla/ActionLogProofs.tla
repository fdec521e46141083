-------------------------- MODULE ActionLogProofs --------------------------
(***************************************************************************)
(* Theorems about ActionLog, for any rows, any number of edits and any     *)
(* length of the queue of updates: the diff is true, the agent's edits are *)
(* all up for review and nothing else is, what was kept stays kept, and    *)
(* what was committed is reviewed.                                         *)
(***************************************************************************)
EXTENDS ActionLog, SequenceTheorems, TLAPS

----------------------------------------------------------------------------
(* Hunks. *)

\* Two runs that share a row make one.
LEMMA RunsUnite ==
  ASSUME NEW H \in Runs, NEW K \in Runs, NEW r \in H \cap K
  PROVE  H \cup K \in Runs
<1>1. H \cup K \in SUBSET Rows /\ H \cup K # {} /\ H \cup K \subseteq Int
  BY RowsAssumption DEF Runs
<1>2. ASSUME NEW p \in H \cup K, NEW q \in H \cup K, NEW s \in p..q PROVE s \in H \cup K
  <2>1. /\ s \in p..r \/ s \in r..q
        /\ p \in H \/ p \in K
        /\ q \in H \/ q \in K
    BY <1>1
  <2>2. /\ p \in H => p..r \subseteq H
        /\ p \in K => p..r \subseteq K
        /\ q \in H => r..q \subseteq H
        /\ q \in K => r..q \subseteq K
    BY DEF Runs
  <2> QED
    BY <2>1, <2>2
<1> QED
  BY <1>1, <1>2 DEF Runs

LEMMA HunksDisjoint ==
  ASSUME NEW old, NEW new, NEW H \in Hunks(old, new), NEW K \in Hunks(old, new), H \cap K # {}
  PROVE  H = K
<1>1. H \in Runs /\ K \in Runs /\ H \cup K \subseteq Changed(old, new)
  BY DEF Hunks
<1>2. H \cup K \in Runs
  BY <1>1, RunsUnite
<1>3. H = H \cup K /\ K = H \cup K
  BY <1>1, <1>2 DEF Hunks
<1> QED
  BY <1>3

\* Hunks are made of the changed rows, and of all of them.
LEMMA HunksChanged ==
  ASSUME NEW old, NEW new
  PROVE  /\ \A H \in Hunks(old, new) : H \subseteq Changed(old, new) /\ H \subseteq Rows
         /\ \A r \in Changed(old, new) : \E H \in Hunks(old, new) : r \in H
<1>1. \A H \in Hunks(old, new) : H \subseteq Changed(old, new) /\ H \subseteq Rows
  BY DEF Hunks, Runs
<1>2. ASSUME NEW r \in Changed(old, new) PROVE \E H \in Hunks(old, new) : r \in H
  <2> DEFINE C == Changed(old, new)
             M == {q \in C : q..r \subseteq C /\ r..q \subseteq C}
  <2>1. C \subseteq Rows /\ C \subseteq Int
    BY RowsAssumption DEF Changed
  <2> HIDE DEF C
  <2>2. r \in M
    BY <1>2, <2>1 DEF C
  <2>3. ASSUME NEW p \in M, NEW q \in M, NEW s \in p..q PROVE s \in M
    <3> p \in C /\ q \in C /\ r \in C
      BY <1>2 DEF C
    <3>1. s \in Int /\ p \in Int /\ q \in Int /\ r \in Int /\ p <= s /\ s <= q
      BY <2>1
    <3>2. s \in p..r \/ s \in r..q
      BY <3>1
    <3>3. s \in C
      BY <3>2
    <3>4. s..r \subseteq p..r /\ r..s \subseteq r..q
      BY <3>1
    <3> QED
      BY <3>3, <3>4
  <2>4. M \in Runs
    BY <2>1, <2>2, <2>3 DEF Runs
  <2>5. ASSUME NEW R \in Runs, R \subseteq C, M \subseteq R PROVE M = R
    <3>1. \A q \in R : q..r \subseteq R /\ r..q \subseteq R
      BY <2>2, <2>5 DEF Runs
    <3> QED
      BY <2>5, <3>1
  <2>6. M \in Hunks(old, new)
    BY <2>4, <2>5 DEF Hunks, C
  <2> QED
    BY <2>2, <2>6
<1> QED
  BY <1>1, <1>2

LEMMA NoHunks == \A old, new : Changed(old, new) = {} => Hunks(old, new) = {}
BY DEF Hunks, Runs

----------------------------------------------------------------------------
(* Types. *)

Contents == {"nothing", "file", "agent", "user"} \X Nat
Texts == [Rows -> Contents]
Entries == [status : {"created", "modified", "deleted"}, existing : SUBSET Texts,
            diff_base : Texts, unreviewed_edits : SUBSET SUBSET Rows, snapshot : Texts,
            version : Nat]
Updates == [author : {"agent", "user"}, snapshot : Texts]

\* What is not tracked has no queue, no task and no diff of the repository.
Resting == ~IsTracked => updates = <<>> /\ task = Idle /\ git_diff = "opening"

LogType ==
  /\ buffer \in Texts /\ git \in Texts /\ version \in Nat /\ committed_at \in Int
  /\ IsTracked => tracked \in Entries
  /\ updates \in Seq(Updates)
  /\ task = Idle \/ task \in [at : {"diffing"}, snapshot : Texts, base : Texts]
  /\ git_diff \in {"opening", "off", "quiet", "changed"}
  /\ approved \subseteq Rows \X Contents /\ touched \subseteq Rows
  /\ Resting

LEMMA PatchedType ==
  /\ \A S : \A a, b \in Texts : Patched(a, S, b) \in Texts
  /\ Blank \in Texts
BY DEF Patched, Blank, Texts, Nothing, Contents

LEMMA EditedType ==
  ASSUME buffer \in Texts, version \in Nat, NEW author \in {"agent", "user"}, NEW S
  PROVE  Edited(author, S) \in Texts
<1> DEFINE new == [r \in Rows |-> <<author, version + 1>>]
<1>1. new \in Texts
  BY DEF Texts, Contents
<1> HIDE DEF new
<1>2. Patched(buffer, S, new) \in Texts
  BY <1>1, PatchedType
<1> QED
  BY <1>2 DEF Edited, new

LEMMA QueueType ==
  ASSUME NEW us \in Seq(Updates)
  PROVE  /\ \A u \in Updates : Append(us, u) \in Seq(Updates)
         /\ us # <<>> => Tail(us) \in Seq(Updates) /\ Head(us) \in Updates
         /\ <<>> \in Seq(Updates)
         /\ \A u \in Updates : <<u>> \in Seq(Updates)
OBVIOUS

LEMMA ScheduledType ==
  ASSUME updates \in Seq(Updates), NEW author \in {"agent", "user"}, NEW text \in Texts
  PROVE  Scheduled(author, text) \in Seq(Updates)
<1>1. [author |-> author, snapshot |-> text] \in Updates
  BY DEF Updates
<1> QED
  BY <1>1, QueueType DEF Scheduled

LEMMA AgentRowsType ==
  ASSUME NEW text \in Texts, NEW S \in SUBSET Rows
  PROVE  AgentRows(S, text) \subseteq Rows \X Contents
BY DEF AgentRows, Texts

LEMMA EntryType ==
  ASSUME NEW text \in Texts, NEW v \in Nat
  PROVE  Read(text, v) \in Entries
BY DEF Read, Tracked, Entries

LEMMA UntrackedIsNoEntry == Untracked \notin Entries
BY DEF Untracked, Entries

LEMMA TypeInit == Init => LogType
<1> SUFFICES ASSUME Init PROVE LogType
  OBVIOUS
<1>1. [r \in Rows |-> <<"file", 0>>] \in Texts /\ Blank \in Texts
  BY PatchedType DEF Texts, Contents
<1>2. buffer \in Texts /\ git \in Texts /\ updates \in Seq(Updates)
  BY <1>1, QueueType DEF Init
<1>3. version = 0 /\ committed_at = -1 /\ git_diff = "opening"
  BY DEF Init
<1>4. approved \subseteq Rows \X Contents /\ touched \subseteq Rows /\ task = Idle /\ ~IsTracked
  BY DEF Init, IsTracked
<1>5. Resting
  BY DEF Init, Resting
<1>6. version \in Nat /\ committed_at \in Int
  BY <1>3
<1>7. git_diff \in {"opening", "off", "quiet", "changed"}
  BY <1>3
<1> QED
  BY <1>2, <1>4, <1>5, <1>6, <1>7 DEF LogType

\* (An entry is anything else than Untracked.)
USE DEF IsTracked

LEMMA TypeStep == LogType /\ [Next]_vars => LogType'
<1> SUFFICES ASSUME LogType, [Next]_vars PROVE LogType'
  OBVIOUS
<1> USE DEF LogType, Resting, bufferVars, taskVars, logVars, auxVars
<1>1. CASE buffer_read
  <2>1. approved' \subseteq approved /\ touched' \subseteq Rows
    BY <1>1 DEF buffer_read, ReadNow
  <2>2. tracked' \in Entries
    <3>1. CASE IsTracked
      BY <1>1, <3>1 DEF buffer_read, Entries
    <3>2. CASE ~IsTracked
      BY <1>1, <3>2, EntryType DEF buffer_read
    <3> QED
      BY <3>1, <3>2
  <2> QED
    BY <1>1, <2>1, <2>2, UntrackedIsNoEntry DEF buffer_read
<1>2. CASE overwrite
  <2>1. tracked' \in Entries
    <3>1. Existing \subseteq Texts
      BY DEF Existing, Entries, Untracked
    <3> QED
      BY <1>2, <3>1, PatchedType DEF overwrite, Tracked, Entries
  <2>2. updates' \in Seq(Updates)
    BY <1>2, QueueType, PatchedType DEF overwrite, Updates
  <2> QED
    <3>1. /\ buffer' = Blank /\ version' = version + 1
          /\ task' = Idle /\ git_diff' = "opening"
          /\ touched' = Rows /\ approved' = {}
          /\ git' = git /\ committed_at' = committed_at
      BY <1>2 DEF overwrite
    <3>2. buffer' \in Texts /\ version' \in Nat
      BY <3>1, PatchedType
    <3> QED
      BY <3>1, <3>2, <2>1, <2>2, UntrackedIsNoEntry
<1>3. CASE Saved
  BY <1>3 DEF Saved
<1>4. CASE will_delete_buffer
  <2>1. CASE tracked.status = "created"
    BY <1>4, <2>1, QueueType DEF will_delete_buffer, Restarted
  <2>2. CASE tracked.status \in {"modified", "none"}
    <3>1. /\ buffer' = Blank /\ version' = version + 1
          /\ tracked' = [(IF IsTracked THEN tracked ELSE Read(buffer, version)) EXCEPT
                             !.status = "deleted", !.version = version]
          /\ updates' = Append(updates, [author |-> "agent", snapshot |-> Blank])
          /\ touched' = Rows /\ approved' = {}
          /\ UNCHANGED <<taskVars, git, committed_at>>
      BY <1>4, <2>2 DEF will_delete_buffer, Scheduled
    <3>2. tracked' \in Entries
      <4>1. (IF IsTracked THEN tracked ELSE Read(buffer, version)) \in Entries
        BY EntryType
      <4> QED
        BY <3>1, <4>1 DEF Entries
    <3>3. [author |-> "agent", snapshot |-> Blank] \in Updates
      BY PatchedType DEF Updates
    <3>4. updates' \in Seq(Updates)
      BY <3>1, <3>3, QueueType
    <3> QED
      BY <3>1, <3>2, <3>4, PatchedType, UntrackedIsNoEntry
  <2>3. CASE tracked.status \notin {"created", "modified", "none"}
    <3>1. tracked # Untracked /\ tracked' = [tracked EXCEPT !.version = version]
          /\ UNCHANGED <<bufferVars, updates, taskVars, approved, touched, git, committed_at>>
      BY <1>4, <2>3 DEF will_delete_buffer, Untracked
    <3>2. tracked' \in Entries
      BY <3>1 DEF Entries
    <3> QED
      BY <3>1, <3>2, UntrackedIsNoEntry
  <2> QED
    BY <2>1, <2>2, <2>3
<1>5. ASSUME NEW S \in Runs \cup {{}}, buffer_edited(S) PROVE LogType'
  <2>1. buffer' \in Texts /\ version' \in Nat /\ S \subseteq Rows
    BY <1>5, EditedType DEF buffer_edited, Runs
  <2>2. tracked' \in Entries
    <3>1. CASE IsTracked
      <4>1. PICK status \in {"modified", tracked.status} :
              tracked' = [tracked EXCEPT !.status = status, !.version = version']
        BY <1>5, <3>1 DEF buffer_edited
      <4> QED
        BY <2>1, <3>1, <4>1 DEF Entries
    <3>2. CASE ~IsTracked
      BY <1>5, <2>1, <3>2, EntryType DEF buffer_edited
    <3> QED
      BY <3>1, <3>2
  <2>3. updates' \in Seq(Updates)
    BY <1>5, <2>1, QueueType DEF buffer_edited, Scheduled, Updates
  <2>4. approved' \subseteq approved /\ touched' \subseteq Rows
    BY <1>5, <2>1 DEF buffer_edited, ReadNow
  <2> QED
    BY <1>5, <2>1, <2>2, <2>3, <2>4, UntrackedIsNoEntry DEF buffer_edited
<1>6. ASSUME NEW S \in Runs, handle_buffer_edited(S) PROVE LogType'
  <2>1. buffer' \in Texts /\ version' \in Nat /\ S \subseteq Rows
    BY <1>6, EditedType DEF handle_buffer_edited, Runs
  <2>2. updates' \in Seq(Updates) /\ (~IsTracked => updates' = updates)
    BY <1>6, <2>1, QueueType DEF handle_buffer_edited, Scheduled, Updates
  <2> QED
    BY <1>6, <2>1, <2>2 DEF handle_buffer_edited
<1>7. CASE handle_buffer_file_changed
  <2>1. UNCHANGED <<buffer, version, git, committed_at>>
    BY <1>7 DEF handle_buffer_file_changed
  <2>2. CASE UNCHANGED <<tracked, updates, task, git_diff>>
    BY <1>7, <2>1, <2>2 DEF handle_buffer_file_changed, ReadNow
  <2>3. CASE tracked' = Untracked /\ Restarted
    BY <1>7, <2>1, <2>3, QueueType DEF handle_buffer_file_changed, Restarted, ReadNow
  <2>4. CASE tracked' = Read(buffer, version) /\ Restarted
    BY <1>7, <2>1, <2>4, QueueType, EntryType DEF handle_buffer_file_changed, Restarted, ReadNow
  <2> QED
    BY <1>7, <2>2, <2>3, <2>4 DEF handle_buffer_file_changed
<1>8. CASE Committed
  BY <1>8 DEF Committed, Subscribed
<1>16. CASE git_diff_opened
  BY <1>16 DEF git_diff_opened
<1>9. CASE track_edits
  <2>1. IsTracked /\ Head(updates) \in Updates /\ updates' \in Seq(Updates)
    BY <1>9, QueueType DEF track_edits
  <2>2. task' \in [at : {"diffing"}, snapshot : Texts, base : Texts]
    BY <1>9, <2>1, PatchedType DEF track_edits, apply_non_conflicting_edits, Entries, Updates
  <2> QED
    BY <1>9, <2>1, <2>2 DEF track_edits
<1>10. CASE keep_committed_edits
  <2>1. task' \in [at : {"diffing"}, snapshot : Texts, base : Texts]
    BY <1>10, PatchedType DEF keep_committed_edits, CommittedBase, Entries
  <2> QED
    BY <1>10, <2>1 DEF keep_committed_edits
<1>11. CASE update_diff
  <2>1. IsTracked /\ Hunks(task.base, task.snapshot) \in SUBSET SUBSET Rows
    BY <1>11 DEF update_diff, Hunks, Runs
  <2>2. tracked' \in Entries
    BY <1>11, <2>1 DEF update_diff, Entries, Idle
  <2> QED
    BY <1>11, <2>1, <2>2, UntrackedIsNoEntry DEF update_diff
<1>12. ASSUME NEW r \in Rows, keep_edits_in_range(r) PROVE LogType'
  <2>1. CASE KeptDeletion
    BY <1>12, <2>1, QueueType DEF keep_edits_in_range, KeptDeletion, Restarted
  <2>2. CASE ~KeptDeletion
    <3>1. tracked' \in Entries
      <4> DEFINE met == {H \in tracked.unreviewed_edits : Meets(r, H)}
                 left == tracked.unreviewed_edits \ met
      <4>1. tracked' = [tracked EXCEPT
              !.unreviewed_edits = left,
              !.diff_base = Patched(tracked.diff_base, UNION met, tracked.snapshot),
              !.status = IF left = {} THEN "modified" ELSE tracked.status]
        BY <1>12, <2>2 DEF keep_edits_in_range
      <4>2. IsTracked /\ tracked \in Entries
        BY <1>12 DEF keep_edits_in_range
      <4>3. Patched(tracked.diff_base, UNION met, tracked.snapshot) \in Texts
        BY <4>2, PatchedType DEF Entries
      <4> QED
        BY <4>1, <4>2, <4>3 DEF Entries
    <3>2. updates' \in Seq(Updates)
      BY <1>12, <2>2, ScheduledType DEF keep_edits_in_range
    <3>3. PICK S \in SUBSET Rows : Kept(S)
      BY <1>12, <2>2 DEF keep_edits_in_range, Entries
    <3>4. AgentRows(S, tracked.snapshot) \subseteq Rows \X Contents
      BY <1>12, AgentRowsType DEF keep_edits_in_range, Entries
    <3>5. approved' \subseteq Rows \X Contents /\ touched' \subseteq Rows /\ committed_at' = committed_at
      BY <3>3, <3>4 DEF Kept
    <3> QED
      BY <1>12, <2>2, <3>1, <3>2, <3>5, UntrackedIsNoEntry DEF keep_edits_in_range
  <2> QED
    BY <2>1, <2>2
<1>13. CASE keep_all_edits
  <2>1. CASE KeptDeletion
    BY <1>13, <2>1, QueueType DEF keep_all_edits, KeptDeletion, Restarted
  <2>2. CASE ~KeptDeletion
    <3>1. tracked' \in Entries
      BY <1>13, <2>2 DEF keep_all_edits, Entries
    <3>2. updates' \in Seq(Updates)
      BY <1>13, <2>2, ScheduledType DEF keep_all_edits
    <3>3. AgentRows(Rows, tracked.snapshot) \subseteq Rows \X Contents
      BY <1>13, AgentRowsType DEF keep_all_edits, Entries
    <3>4. approved' \subseteq Rows \X Contents /\ touched' \subseteq Rows /\ committed_at' = committed_at
      BY <1>13, <2>2, <3>3 DEF keep_all_edits, Kept
    <3> QED
      BY <1>13, <2>2, <3>1, <3>2, <3>4, UntrackedIsNoEntry DEF keep_all_edits
  <2> QED
    BY <2>1, <2>2
<1>14. ASSUME NEW rows \in SUBSET Rows, reject_edits_in_ranges(rows) PROVE LogType'
  <2>1. git' = git /\ IsTracked
    BY <1>14 DEF reject_edits_in_ranges
  <2>2. CASE CreationRejected
    <3>1. buffer' \in Texts /\ version' \in Nat
      BY <2>1, <2>2 DEF CreationRejected, Entries
    <3> QED
      BY <2>1, <2>2, <3>1, QueueType DEF CreationRejected, Restarted
  <2>3. CASE DeletionRejected
    <3>1. buffer' \in Texts /\ version' \in Nat
      BY <2>1, <2>3 DEF DeletionRejected, Entries
    <3> QED
      BY <2>1, <2>3, <3>1, QueueType, EntryType, UntrackedIsNoEntry
      DEF DeletionRejected, Restarted, ReadNow
  <2>4. ASSUME NEW rejected, HunksRejected(rejected) PROVE LogType'
    <3>1. buffer' \in Texts
      BY <2>1, <2>4, PatchedType DEF HunksRejected, Entries
    <3>2. updates' \in Seq(Updates)
      BY <2>4, <3>1, QueueType DEF HunksRejected, Scheduled, Updates
    <3> QED
      BY <2>1, <2>4, <3>1, <3>2 DEF HunksRejected
  <2> QED
    BY <1>14, <2>2, <2>3, <2>4 DEF reject_edits_in_ranges
<1>15. CASE UNCHANGED vars
  BY <1>15 DEF vars
<1> QED
  BY <1>1, <1>2, <1>3, <1>4, <1>5, <1>6, <1>7, <1>8, <1>9, <1>10, <1>11, <1>12, <1>13, <1>14, <1>15,
     <1>16
  DEF Next

----------------------------------------------------------------------------
(* The hunks under review have no row in common. *)

Apart == IsTracked => \A H, K \in tracked.unreviewed_edits : H \cap K # {} => H = K

LEMMA KeepsFewer ==
  ASSUME LogType, IsTracked', NEW r \in Rows, keep_edits_in_range(r)
  PROVE  IsTracked /\ tracked'.unreviewed_edits \subseteq tracked.unreviewed_edits
<1>1. IsTracked /\ DOMAIN tracked = DOMAIN Tracked("created", {}, Blank, {}, Blank, 0)
  BY DEF keep_edits_in_range, LogType, Entries, Tracked
<1>2. ~KeptDeletion
  BY DEF KeptDeletion
<1>3. PICK met, base, status :
        tracked' = [tracked EXCEPT !.unreviewed_edits = tracked.unreviewed_edits \ met,
                                   !.diff_base = base, !.status = status]
  BY <1>2, Zenon DEF keep_edits_in_range
<1> QED
  BY <1>1, <1>3 DEF Tracked

LEMMA ApartStep == LogType /\ Apart /\ [Next]_vars => Apart'
<1> SUFFICES ASSUME LogType, Apart, [Next]_vars, IsTracked'
             PROVE  \A H, K \in tracked'.unreviewed_edits : H \cap K # {} => H = K
  BY DEF Apart
<1>1. \/ IsTracked /\ tracked'.unreviewed_edits \subseteq tracked.unreviewed_edits
      \/ tracked'.unreviewed_edits \in {{}, {Rows}}
      \/ update_diff
  <2> USE DEF LogType, Entries
  <2>1. CASE \/ Saved \/ Committed \/ git_diff_opened \/ UNCHANGED vars \/ \E S \in Runs : handle_buffer_edited(S)
    BY <2>1 DEF Saved, Committed, git_diff_opened, vars, logVars, handle_buffer_edited
  <2>2. \A text, v : Read(text, v).unreviewed_edits = {}
    BY DEF Read, Tracked
  <2>6. CASE buffer_read
    BY <2>2, <2>6 DEF buffer_read
  <2>7. CASE handle_buffer_file_changed
    BY <2>2, <2>7 DEF handle_buffer_file_changed, logVars
  <2>8. ASSUME NEW S \in Runs \cup {{}}, buffer_edited(S)
        PROVE  \/ IsTracked /\ tracked'.unreviewed_edits \subseteq tracked.unreviewed_edits
               \/ tracked'.unreviewed_edits = {}
    BY <2>2, <2>8 DEF buffer_edited
  <2>9. CASE overwrite
    BY <2>9 DEF overwrite, Tracked
  <2>10. CASE will_delete_buffer
    <3>1. CASE ~IsTracked
      <4>1. tracked.status = "none"
        BY <3>1 DEF Untracked
      <4>2. tracked' = [Read(buffer, version) EXCEPT !.status = "deleted", !.version = version]
        BY <2>10, <3>1, <4>1 DEF will_delete_buffer
      <4> QED
        BY <4>2 DEF Read, Tracked
    <3>2. CASE IsTracked
      BY <2>10, <3>2 DEF will_delete_buffer
    <3> QED
      BY <3>1, <3>2
  <2>3. CASE track_edits \/ keep_committed_edits \/ update_diff
    BY <2>3 DEF track_edits, keep_committed_edits
  <2>4. CASE keep_all_edits
    BY <2>4 DEF keep_all_edits, KeptDeletion
  <2>11. ASSUME NEW r \in Rows, keep_edits_in_range(r)
         PROVE  IsTracked /\ tracked'.unreviewed_edits \subseteq tracked.unreviewed_edits
    BY <2>11, KeepsFewer
  <2>5. ASSUME NEW rows \in SUBSET Rows, reject_edits_in_ranges(rows)
        PROVE  \/ IsTracked /\ tracked'.unreviewed_edits \subseteq tracked.unreviewed_edits
               \/ tracked'.unreviewed_edits = {}
    BY <2>5 DEF reject_edits_in_ranges, CreationRejected, DeletionRejected, HunksRejected, Read,
                Tracked
  <2> QED
    BY <2>1, <2>3, <2>4, <2>5, <2>6, <2>7, <2>8, <2>9, <2>10, <2>11 DEF Next
<1>2. CASE update_diff
  <2>1. tracked'.unreviewed_edits = Hunks(task.base, task.snapshot)
    BY <1>2 DEF update_diff, LogType, Resting, Entries
  <2> QED
    BY <2>1, HunksDisjoint
<1> QED
  BY <1>1, <1>2 DEF Apart

----------------------------------------------------------------------------
(* What steps do to the log. *)

\* An edit gives a buffer a new version.
Versioned == version' = version + 1 \/ (version' = version /\ buffer' = buffer)

SameReview ==
  /\ tracked'.diff_base = tracked.diff_base /\ tracked'.snapshot = tracked.snapshot
  /\ tracked'.unreviewed_edits = tracked.unreviewed_edits
SameTask == task' = task /\ git_diff' = git_diff

\* An edit of some of the rows in S enters the queue.
Extended(author, S) ==
  /\ IsTracked /\ IsTracked' /\ SameReview /\ SameTask
  /\ updates' = Append(updates, [author |-> author, snapshot |-> buffer'])
  /\ Changed(buffer, buffer') \subseteq S
  /\ Versioned /\ UNCHANGED <<git, committed_at, reviewed>>

AgentEdit(S) ==
  Extended("agent", S) /\ touched \cup S \subseteq touched' /\ approved' \subseteq approved
UserEdit(S) ==
  /\ Extended("user", S) /\ \A r \in S \cap Rows : buffer'[r][1] = "user"
  /\ approved' = {p \in approved : p[1] \notin S}
  /\ touched' = IF S \cap touched # {} THEN touched \cup S ELSE touched
Rejection(S) ==
  /\ Extended("user", S) /\ S \subseteq UNION tracked.unreviewed_edits
  /\ \A r \in S : buffer'[r] = tracked.diff_base[r]
  /\ UNCHANGED <<touched, approved>>

\* The user keeps hunks with the rows S.
Review(S) ==
  /\ IsTracked /\ IsTracked' /\ SameTask /\ tracked'.snapshot = tracked.snapshot
  /\ tracked'.diff_base = Patched(tracked.diff_base, S, tracked.snapshot)
  /\ tracked'.unreviewed_edits \subseteq tracked.unreviewed_edits
  /\ \A H \in tracked'.unreviewed_edits : H \cap S = {}
  /\ updates' = Append(updates, [author |-> "user", snapshot |-> buffer])
  /\ Kept(S) /\ UNCHANGED <<bufferVars, git>>

\* An entry for a text that is as good as reviewed, and maybe an edit after it.
Begun(text) ==
  /\ IsTracked' /\ task' = Idle /\ git_diff' # "changed"
  /\ tracked'.diff_base = text /\ tracked'.snapshot = text /\ tracked'.unreviewed_edits = {}
  /\ \/ updates' = <<>> /\ text = buffer'
     \/ /\ updates' = <<[author |-> "agent", snapshot |-> buffer']>>
        /\ text = buffer' \/ touched' = Rows
  /\ reviewed \cup AgentRows(Rows, text) \subseteq reviewed'
  /\ approved' \subseteq {p \in approved : text[p[1]] = p[2]}
  /\ version' = version + 1 \/ (version' = version /\ buffer' = buffer /\ text = buffer)
  /\ UNCHANGED <<git, committed_at>>

\* Nothing happens to the log, but maybe there is a commit to look at.
Quiet ==
  /\ IsTracked /\ IsTracked' /\ SameReview
  /\ UNCHANGED <<bufferVars, updates, task, approved, touched>> /\ reviewed \subseteq reviewed'
  /\ git_diff' = "changed" \/ (git_diff # "changed" /\ committed_at' = committed_at)

Steps ==
  \/ ~IsTracked' \/ overwrite \/ Quiet
  \/ \E text \in Texts : Begun(text)
  \/ \E S \in SUBSET Rows : AgentEdit(S) \/ UserEdit(S) \/ Rejection(S) \/ Review(S)
  \/ track_edits \/ keep_committed_edits \/ update_diff

LEMMA EditedChanges ==
  ASSUME NEW old \in Texts, NEW new, NEW S
  PROVE  Changed(old, Patched(old, S, new)) \subseteq S
BY DEF Changed, Patched, Texts

LEMMA PatchedByNothing == \A b : \A a \in Texts : Patched(a, {}, b) = a
BY DEF Patched, Texts

LEMMA ReadEntry ==
  ASSUME NEW text, NEW v
  PROVE  /\ Read(text, v).diff_base = text /\ Read(text, v).snapshot = text
         /\ Read(text, v).unreviewed_edits = {}
BY DEF Read, Tracked

LEMMA AllSteps ==
  ASSUME LogType, Apart, [Next]_vars
  PROVE  Steps
<1> SUFFICES ASSUME IsTracked' PROVE Steps
  BY DEF Steps
<1> USE DEF LogType, Resting
<1>0. tracked' = tracked /\ UNCHANGED <<bufferVars, updates, taskVars, approved, touched, reviewed, git, committed_at>>
      => Quiet
  BY DEF Quiet, SameReview, taskVars, bufferVars
<1>1. CASE buffer_read
  <2>1. CASE IsTracked
    BY <1>1, <2>1 DEF buffer_read, Quiet, SameReview, Steps, bufferVars, taskVars, Entries
  <2>2. CASE ~IsTracked
    <3>1. Begun(buffer)
      BY <1>1, <2>2, ReadEntry DEF buffer_read, ReadNow, Begun, bufferVars, taskVars
    <3> QED
      BY <3>1 DEF Steps
  <2> QED
    BY <2>1, <2>2
<1>3. CASE Saved
  BY <1>0, <1>3 DEF Saved, logVars, auxVars, Steps, bufferVars, taskVars
<1>4. CASE will_delete_buffer
  <2>1. tracked.status # "created"
    BY <1>4 DEF will_delete_buffer
  <2>2. CASE tracked.status \in {"modified", "none"}
    <3>1. /\ buffer' = Blank /\ version' = version + 1
          /\ tracked' = [(IF IsTracked THEN tracked ELSE Read(buffer, version)) EXCEPT
                             !.status = "deleted", !.version = version]
          /\ updates' = Append(updates, [author |-> "agent", snapshot |-> Blank])
          /\ reviewed' = IF IsTracked THEN reviewed ELSE reviewed \cup AgentRows(Rows, buffer)
          /\ touched' = Rows /\ approved' = {}
          /\ UNCHANGED <<task, git_diff, git, committed_at>>
      BY <1>4, <2>2 DEF will_delete_buffer, Scheduled, taskVars
    <3>2. CASE IsTracked
      <4>1. AgentEdit(Rows)
        BY <3>1, <3>2 DEF AgentEdit, Extended, SameReview, SameTask, Versioned, Changed, Entries
      <4> QED
        BY <4>1 DEF Steps
    <3>3. CASE ~IsTracked
      <4>1. updates' = <<[author |-> "agent", snapshot |-> Blank]>>
        BY <3>1, <3>3
      <4>2. tracked' = [Read(buffer, version) EXCEPT !.status = "deleted", !.version = version]
        BY <3>1, <3>3
      <4>3. /\ tracked'.diff_base = buffer /\ tracked'.snapshot = buffer
            /\ tracked'.unreviewed_edits = {}
        BY <4>2 DEF Read, Tracked
      <4>4. Begun(buffer)
        BY <3>1, <3>3, <4>1, <4>3 DEF Begun
      <4> QED
        BY <4>4 DEF Steps
    <3> QED
      BY <3>2, <3>3
  <2>3. CASE tracked.status \notin {"created", "modified", "none"}
    <3>1. tracked # Untracked
      BY <2>3 DEF Untracked
    <3> QED
      BY <1>4, <2>3, <3>1
      DEF will_delete_buffer, Quiet, SameReview, Steps, bufferVars, taskVars, Entries
  <2> QED
    BY <2>1, <2>2, <2>3
<1>5. ASSUME NEW S \in Runs \cup {{}}, buffer_edited(S) PROVE Steps
  <2>1. Changed(buffer, buffer') \subseteq S /\ S \in SUBSET Rows
    BY <1>5, EditedChanges DEF buffer_edited, Edited, Runs
  <2>2. Versioned
    BY <1>5, PatchedByNothing DEF buffer_edited, Edited, Versioned
  <2>3. CASE IsTracked
    <3>1. AgentEdit(S)
      BY <1>5, <2>1, <2>2, <2>3
      DEF buffer_edited, AgentEdit, Extended, SameReview, SameTask, Scheduled, taskVars, Entries
    <3> QED
      BY <2>1, <3>1 DEF Steps
  <2>4. CASE ~IsTracked
    <3>1. updates' = <<[author |-> "agent", snapshot |-> buffer']>>
      BY <1>5, <2>4 DEF buffer_edited, Scheduled
    <3>2. tracked' = Read(buffer', version') /\ ReadNow(buffer') /\ buffer' \in Texts
      BY <1>5, <2>4, EditedType DEF buffer_edited
    <3>3. Begun(buffer')
      BY <1>5, <2>2, <2>4, <3>1, <3>2, ReadEntry DEF buffer_edited, ReadNow, Begun, taskVars, Versioned
    <3> QED
      BY <3>2, <3>3 DEF Steps
  <2> QED
    BY <2>3, <2>4
<1>6. ASSUME NEW S \in Runs, handle_buffer_edited(S) PROVE Steps
  <2>1. Changed(buffer, buffer') \subseteq S /\ S \in SUBSET Rows
    BY <1>6, EditedChanges DEF handle_buffer_edited, Edited, Runs
  <2>2. \A r \in S \cap Rows : buffer'[r][1] = "user"
    BY <1>6 DEF handle_buffer_edited, Edited, Patched
  <2>3. UserEdit(S)
    BY <1>6, <2>1, <2>2
    DEF handle_buffer_edited, UserEdit, Extended, SameReview, SameTask, Scheduled, taskVars, Versioned
  <2> QED
    BY <2>1, <2>3 DEF Steps
<1>7. CASE handle_buffer_file_changed
  <2>1. UNCHANGED <<bufferVars, git, committed_at>>
    BY <1>7 DEF handle_buffer_file_changed, auxVars
  <2>2. CASE UNCHANGED logVars /\ UNCHANGED <<approved, touched, reviewed>>
    BY <1>0, <2>1, <2>2 DEF logVars, Steps
  <2>3. CASE tracked' = Read(buffer, version) /\ Restarted /\ ReadNow(buffer)
    <3>1. Begun(buffer)
      BY <2>1, <2>3, ReadEntry DEF Begun, Restarted, ReadNow, bufferVars
    <3> QED
      BY <3>1 DEF Steps
  <2> QED
    BY <1>7, <2>2, <2>3 DEF handle_buffer_file_changed, auxVars
<1>8. CASE Committed
  BY <1>8 DEF Committed, Subscribed, Quiet, SameReview, Steps, bufferVars
<1>16. CASE git_diff_opened
  BY <1>16 DEF git_diff_opened, Quiet, SameReview, Steps, bufferVars, auxVars
<1>12. ASSUME NEW r \in Rows, keep_edits_in_range(r) PROVE Steps
  <2> DEFINE met == {H \in tracked.unreviewed_edits : Meets(r, H)}
             left == tracked.unreviewed_edits \ met
  <2>1. ~KeptDeletion /\ IsTracked /\ tracked \in Entries
    BY <1>12 DEF keep_edits_in_range, KeptDeletion
  <2>2. /\ tracked' = [tracked EXCEPT
              !.unreviewed_edits = left,
              !.diff_base = Patched(tracked.diff_base, UNION met, tracked.snapshot),
              !.status = IF left = {} THEN "modified" ELSE tracked.status]
        /\ updates' = Append(updates, [author |-> "user", snapshot |-> buffer])
        /\ Kept(UNION met) /\ UNCHANGED <<bufferVars, taskVars, git>>
    BY <1>12, <2>1 DEF keep_edits_in_range, Scheduled
  <2>3. \A H \in left : H \cap UNION met = {}
    BY <2>1 DEF Apart
  <2>4. UNION met \in SUBSET Rows
    BY <2>1 DEF Entries
  <2>5. /\ tracked'.diff_base = Patched(tracked.diff_base, UNION met, tracked.snapshot)
        /\ tracked'.unreviewed_edits = left /\ tracked'.snapshot = tracked.snapshot
    BY <2>1, <2>2 DEF Entries
  <2> HIDE DEF met
  <2>6. Review(UNION met)
    BY <2>1, <2>2, <2>3, <2>5 DEF Review, SameTask, taskVars
  <2> QED
    BY <2>4, <2>6 DEF Steps
<1>13. CASE keep_all_edits
  <2>1. ~KeptDeletion /\ IsTracked /\ tracked \in Entries
    BY <1>13 DEF keep_all_edits, KeptDeletion
  <2>2. /\ tracked' = [tracked EXCEPT !.unreviewed_edits = {}, !.diff_base = tracked.snapshot,
                                      !.status = "modified"]
        /\ updates' = Append(updates, [author |-> "user", snapshot |-> buffer])
        /\ Kept(Rows) /\ UNCHANGED <<bufferVars, taskVars, git>>
    BY <1>13, <2>1 DEF keep_all_edits, Scheduled
  <2>3. Patched(tracked.diff_base, Rows, tracked.snapshot) = tracked.snapshot
    BY <2>1 DEF Patched, Entries, Texts
  <2>4. /\ tracked'.diff_base = tracked.snapshot /\ tracked'.unreviewed_edits = {}
        /\ tracked'.snapshot = tracked.snapshot
    BY <2>1, <2>2 DEF Entries
  <2>5. Review(Rows)
    BY <2>1, <2>2, <2>3, <2>4 DEF Review, SameTask, taskVars
  <2> QED
    BY <2>5 DEF Steps
<1>14. ASSUME NEW rows \in SUBSET Rows, reject_edits_in_ranges(rows) PROVE Steps
  <2>1. git' = git /\ IsTracked /\ tracked \in Entries
    BY <1>14 DEF reject_edits_in_ranges
  <2>2. CASE CreationRejected
    BY <2>2 DEF CreationRejected
  <2>3. CASE DeletionRejected
    <3>1. buffer' \in Texts
      BY <2>1, <2>3 DEF DeletionRejected, Entries
    <3>2. Begun(buffer')
      BY <2>1, <2>3, ReadEntry DEF DeletionRejected, Begun, Restarted, ReadNow
    <3> QED
      BY <3>1, <3>2 DEF Steps
  <2>4. ASSUME NEW rejected \in SUBSET tracked.unreviewed_edits, HunksRejected(rejected) PROVE Steps
    <3>1. Changed(buffer, buffer') \subseteq UNION rejected /\ UNION rejected \in SUBSET Rows
      BY <2>1, <2>4, EditedChanges DEF HunksRejected, Entries
    <3>2. \A r \in UNION rejected : buffer'[r] = tracked.diff_base[r]
      BY <2>4, <3>1 DEF HunksRejected, Patched
    <3>3. Extended("user", UNION rejected)
      BY <2>1, <2>4, <3>1
      DEF HunksRejected, Extended, SameReview, SameTask, Scheduled, taskVars, auxVars, Versioned
    <3>4. Rejection(UNION rejected)
      BY <2>4, <3>2, <3>3 DEF HunksRejected, Rejection, auxVars
    <3> QED
      BY <3>1, <3>4 DEF Steps
  <2> QED
    BY <1>14, <2>2, <2>3, <2>4 DEF reject_edits_in_ranges
<1>15. CASE UNCHANGED vars
  BY <1>0, <1>15 DEF vars, logVars, auxVars, Steps
<1> QED
  BY <1>1, <1>3, <1>4, <1>5, <1>6, <1>7, <1>8, <1>12, <1>13, <1>14, <1>15, <1>16 DEF Next, Steps

----------------------------------------------------------------------------
(* The queue, after the text s. *)

TextAt(s, us, i) == IF i = 0 THEN s ELSE us[i].snapshot
Replaced(s, us, i) == Changed(TextAt(s, us, i - 1), TextAt(s, us, i))

\* The queue vs is us with one more update.
Queued(s, us, author, text, vs) ==
  /\ Len(vs) = Len(us) + 1 /\ Len(us) \in Nat
  /\ \A i \in 0..Len(us) : TextAt(s, vs, i) = TextAt(s, us, i)
  /\ \A i \in 1..Len(us) : Replaced(s, vs, i) = Replaced(s, us, i) /\ vs[i].author = us[i].author
  /\ TextAt(s, vs, Len(vs)) = text /\ vs[Len(vs)].author = author
  /\ Replaced(s, vs, Len(vs)) = Changed(TextAt(s, us, Len(us)), text)

LEMMA AppendTexts ==
  ASSUME NEW us \in Seq(Updates), NEW s, NEW author \in {"agent", "user"}, NEW text \in Texts
  PROVE  Queued(s, us, author, text, Append(us, [author |-> author, snapshot |-> text]))
<1> DEFINE u == [author |-> author, snapshot |-> text]
           vs == Append(us, u)
<1>1. u.snapshot = text /\ u.author = author /\ u \in Updates
  BY DEF Updates
<1> HIDE DEF u
<1>3. /\ Len(vs) = Len(us) + 1 /\ Len(us) \in Nat
      /\ \A i \in 1..Len(us) : vs[i] = us[i]
      /\ vs[Len(us) + 1] = u
  BY <1>1
<1> HIDE DEF vs
<1>4. \A i \in 0..Len(us) : TextAt(s, vs, i) = TextAt(s, us, i)
  BY <1>3 DEF TextAt
<1>5. TextAt(s, vs, Len(vs)) = text
  BY <1>1, <1>3 DEF TextAt
<1>6. \A i \in 1..Len(us) : Replaced(s, vs, i) = Replaced(s, us, i)
  <2>1. \A i \in 1..Len(us) : i \in 0..Len(us) /\ i - 1 \in 0..Len(us)
    BY <1>3
  <2> QED
    BY <1>4, <2>1 DEF Replaced
<1>7. Replaced(s, vs, Len(vs)) = Changed(TextAt(s, us, Len(us)), text)
  <2>1. Len(vs) - 1 = Len(us) /\ Len(us) \in 0..Len(us)
    BY <1>3
  <2> QED
    BY <1>4, <1>5, <2>1 DEF Replaced
<1>8. Queued(s, us, author, text, vs)
  BY <1>1, <1>3, <1>4, <1>5, <1>6, <1>7 DEF Queued
<1> QED
  BY <1>8 DEF vs, u

\* The queue vs is us without its first update.
Dequeued(s, us, vs) ==
  /\ Len(us) = Len(vs) + 1 /\ Len(vs) \in Nat
  /\ \A i \in 0..Len(vs) : TextAt(us[1].snapshot, vs, i) = TextAt(s, us, i + 1)
  /\ \A i \in 1..Len(vs) : /\ Replaced(us[1].snapshot, vs, i) = Replaced(s, us, i + 1)
                           /\ vs[i].author = us[i + 1].author

LEMMA TailTexts ==
  ASSUME NEW us \in Seq(Updates), us # <<>>, NEW s
  PROVE  Dequeued(s, us, Tail(us)) /\ Head(us) = us[1] /\ us[1] \in Updates
<1> DEFINE vs == Tail(us)
<1>1. /\ Len(us) = Len(vs) + 1 /\ Len(vs) \in Nat
      /\ Head(us) = us[1] /\ us[1] \in Updates
      /\ \A i \in 1..Len(vs) : vs[i] = us[i + 1]
  OBVIOUS
<1> HIDE DEF vs
<1>2. \A i \in 0..Len(vs) : TextAt(us[1].snapshot, vs, i) = TextAt(s, us, i + 1)
  BY <1>1 DEF TextAt
<1>3. \A i \in 1..Len(vs) : Replaced(us[1].snapshot, vs, i) = Replaced(s, us, i + 1)
  <2> TAKE i \in 1..Len(vs)
  <2>1. i \in 0..Len(vs) /\ i - 1 \in 0..Len(vs) /\ (i - 1) + 1 = i /\ (i + 1) - 1 = i
    BY <1>1
  <2> QED
    BY <1>2, <2>1 DEF Replaced
<1>4. Dequeued(s, us, vs)
  BY <1>1, <1>2, <1>3 DEF Dequeued
<1> QED
  BY <1>1, <1>4 DEF vs

\* What maintain_diff will store when it ends what it is at: the base and the text.
Base == IF task = Idle THEN tracked.diff_base ELSE task.base
Start == IF task = Idle THEN tracked.snapshot ELSE task.snapshot

\* The log begins with these, and the queue leads from there to the buffer.
LEMMA SameBase ==
  ASSUME SameTask, tracked'.snapshot = tracked.snapshot
  PROVE  /\ Start' = Start
         /\ tracked'.diff_base = tracked.diff_base => Base' = Base
         /\ task # Idle => Base' = Base
BY DEF SameTask, Start, Base

LEMMA BegunBase ==
  ASSUME NEW text, Begun(text)
  PROVE  Base' = text /\ Start' = text
BY DEF Begun, Base, Start

LEMMA TrackedBase ==
  ASSUME LogType, track_edits
  PROVE  /\ Start = tracked.snapshot /\ Base = tracked.diff_base
         /\ Start' = updates[1].snapshot
         /\ Base' = IF updates[1].author = "user"
                    THEN apply_non_conflicting_edits(tracked.unreviewed_edits,
                           Hunks(Start, Start'), Base, Start')
                    ELSE Base
         /\ tracked' = tracked /\ IsTracked /\ tracked \in Entries
         /\ task = Idle /\ task' # Idle /\ updates # <<>> /\ updates' = Tail(updates)
         /\ Base' \in Texts /\ Start' \in Texts
<1>1. task = Idle /\ updates # <<>> /\ Head(updates) = updates[1] /\ updates[1] \in Updates
  BY TailTexts DEF track_edits, LogType
<1>2. task'.at = "diffing" /\ task' # Idle
  BY DEF track_edits, Idle
<1>3. tracked' = tracked /\ IsTracked /\ tracked \in Entries
  BY <1>1 DEF track_edits, LogType, Resting
<1>4. /\ task'.snapshot = updates[1].snapshot
      /\ task'.base = IF updates[1].author = "user"
                      THEN apply_non_conflicting_edits(tracked.unreviewed_edits,
                             Hunks(tracked.snapshot, updates[1].snapshot),
                             tracked.diff_base, updates[1].snapshot)
                      ELSE tracked.diff_base
  BY <1>1 DEF track_edits
<1>5. Start' \in Texts /\ Base' \in Texts
  BY <1>1, <1>2, <1>3, <1>4, PatchedType DEF Start, Base, Updates, Entries, apply_non_conflicting_edits
<1> QED
  BY <1>1, <1>2, <1>3, <1>4, <1>5 DEF Start, Base, track_edits

LEMMA CommittingBase ==
  ASSUME LogType, keep_committed_edits
  PROVE  /\ Start = tracked.snapshot /\ Base = tracked.diff_base /\ Start' = Start
         /\ Base' = CommittedBase(tracked)
         /\ tracked' = tracked /\ IsTracked /\ tracked \in Entries /\ Quiesced
         /\ task' # Idle /\ updates' = updates
<1>1. task'.at = "diffing" /\ task' # Idle
  BY DEF keep_committed_edits, Idle
<1> QED
  BY <1>1 DEF keep_committed_edits, LogType, Resting, Start, Base, Quiesced

LEMMA UpdatedBase ==
  ASSUME LogType, update_diff
  PROVE  /\ Start' = Start /\ Base' = Base /\ updates' = updates
         /\ tracked'.diff_base = Base /\ tracked'.snapshot = Start
         /\ tracked'.unreviewed_edits = Hunks(Base, Start)
         /\ task # Idle /\ task' = Idle /\ IsTracked /\ tracked \in Entries
BY DEF update_diff, LogType, Resting, Entries, Start, Base

----------------------------------------------------------------------------
(* The diff is true. *)

\* The texts in the queue lead from the one under review to the buffer; without
\* a queue the hunks are those of the base and the text.
CurrentInv ==
  /\ IsTracked => TextAt(Start, updates, Len(updates)) = buffer
  /\ Quiesced => tracked.unreviewed_edits = Hunks(tracked.diff_base, tracked.snapshot)

LEMMA Grown ==
  ASSUME LogType, NEW author \in {"agent", "user"}, NEW text \in Texts,
         updates' = Append(updates, [author |-> author, snapshot |-> text])
  PROVE  Queued(Start, updates, author, text, updates') /\ updates' # <<>>
<1>1. Queued(Start, updates, author, text, updates')
  BY AppendTexts DEF LogType
<1> QED
  BY <1>1 DEF Queued

LEMMA Shrunk ==
  ASSUME LogType, track_edits
  PROVE  /\ Dequeued(Start, updates, updates') /\ Start' = updates[1].snapshot
         /\ Replaced(Start, updates, 1) = Changed(Start, Start')
<1>1. /\ updates \in Seq(Updates) /\ updates # <<>> /\ updates' = Tail(updates)
      /\ Start' = updates[1].snapshot
  BY TrackedBase DEF LogType
<1>2. Dequeued(Start, updates, updates')
  BY <1>1, TailTexts
<1> QED
  BY <1>1, <1>2 DEF Replaced, TextAt

LEMMA CurrentStep ==
  ASSUME LogType, LogType', Steps, CurrentInv
  PROVE  CurrentInv'
<1> SUFFICES ASSUME IsTracked'
             PROVE  /\ TextAt(Start', updates', Len(updates')) = buffer'
                    /\ Quiesced' => tracked'.unreviewed_edits = Hunks(tracked'.diff_base, tracked'.snapshot)
  BY DEF CurrentInv, Quiesced
<1> USE DEF CurrentInv
<1>1. CASE overwrite
  <2>1. updates' = <<[author |-> "agent", snapshot |-> Blank]>> /\ buffer' = Blank
    BY <1>1 DEF overwrite
  <2> QED
    BY <2>1 DEF TextAt, Quiesced
<1>2. CASE Quiet
  BY <1>2 DEF Quiet, SameReview, Quiesced, Start, bufferVars
<1>3. ASSUME NEW text \in Texts, Begun(text)
      PROVE  /\ TextAt(Start', updates', Len(updates')) = buffer'
             /\ tracked'.unreviewed_edits = Hunks(tracked'.diff_base, tracked'.snapshot)
  <2>1. Start' = text
    BY <1>3, BegunBase
  <2>2. tracked'.unreviewed_edits = Hunks(tracked'.diff_base, tracked'.snapshot)
    BY <1>3, NoHunks DEF Begun, Changed
  <2>3. CASE updates' = <<>> /\ text = buffer'
    BY <2>1, <2>2, <2>3 DEF TextAt
  <2>4. CASE updates' = <<[author |-> "agent", snapshot |-> buffer']>>
    BY <2>2, <2>4 DEF TextAt
  <2> QED
    BY <1>3, <2>3, <2>4 DEF Begun
<1>4. ASSUME NEW author \in {"agent", "user"}, SameTask, tracked'.snapshot = tracked.snapshot,
             updates' = Append(updates, [author |-> author, snapshot |-> buffer'])
      PROVE  TextAt(Start', updates', Len(updates')) = buffer' /\ ~Quiesced'
  <2>1. Queued(Start, updates, author, buffer', updates') /\ updates' # <<>>
    BY <1>4, Grown DEF LogType
  <2> QED
    BY <1>4, <2>1, SameBase DEF Queued, Quiesced
<1>5. ASSUME NEW S \in SUBSET Rows, AgentEdit(S) \/ UserEdit(S) \/ Rejection(S) \/ Review(S)
      PROVE  TextAt(Start', updates', Len(updates')) = buffer' /\ ~Quiesced'
  <2>1. \E author \in {"agent", "user"} :
          /\ SameTask /\ tracked'.snapshot = tracked.snapshot
          /\ updates' = Append(updates, [author |-> author, snapshot |-> buffer'])
    BY <1>5 DEF AgentEdit, UserEdit, Rejection, Extended, Review, SameReview, bufferVars
  <2> QED
    BY <1>4, <2>1
<1>6. CASE track_edits
  <2>1. Dequeued(Start, updates, updates') /\ Start' = updates[1].snapshot
    BY <1>6, Shrunk
  <2>2. /\ Len(updates') \in 0..Len(updates') /\ Len(updates) = Len(updates') + 1
        /\ \A i \in 0..Len(updates') : TextAt(Start', updates', i) = TextAt(Start, updates, i + 1)
    BY <2>1 DEF Dequeued
  <2>4. TextAt(Start', updates', Len(updates')) = TextAt(Start, updates, Len(updates))
    BY <2>2
  <2> QED
    BY <1>6, <2>4, TrackedBase DEF track_edits, Quiesced, bufferVars
<1>7. CASE keep_committed_edits
  BY <1>7, CommittingBase DEF keep_committed_edits, Quiesced, bufferVars
<1>8. CASE update_diff
  BY <1>8, UpdatedBase DEF update_diff, bufferVars
<1> QED
  BY <1>1, <1>2, <1>3, <1>5, <1>6, <1>7, <1>8 DEF Steps

\* All updates taken in, the base and the hunks make up the buffer.
THEOREM DiffAlwaysTrue == Spec => []DiffTrue
<1> DEFINE IInv == LogType /\ Apart /\ CurrentInv
<1>1. Init => IInv
  BY TypeInit DEF Init, Apart, CurrentInv, Quiesced
<1>2. IInv /\ [Next]_vars => IInv'
  BY TypeStep, ApartStep, AllSteps, CurrentStep
<1>3. IInv => DiffTrue
  BY DEF CurrentInv, DiffTrue, Quiesced, TextAt, Start
<1> QED
  BY <1>1, <1>2, <1>3, PTL DEF Spec

----------------------------------------------------------------------------
(* Every edit of the agent is up for review. *)

\* Nothing of the agent's in the rows S of a text is open.
Settled(S, text, done) == \A r \in S : text[r][1] = "agent" => <<r, text[r]>> \in done

LEMMA SettledRows ==
  ASSUME NEW S, NEW text, NEW done
  PROVE  Settled(S, text, done) <=> AgentRows(S, text) \subseteq done
BY DEF Settled, AgentRows

\* The base is settled, and so is what an update of the user replaces: maintain_diff
\* takes those rows into the base.
ReviewedInv ==
  IsTracked => /\ Settled(Rows, tracked.diff_base, reviewed)
               /\ Settled(Rows, Base, reviewed)
               /\ \A i \in 1..Len(updates) : updates[i].author = "user" =>
                     Settled(Replaced(Start, updates, i), TextAt(Start, updates, i), reviewed)

\* So is a commit that is to be taken in; it is of the buffer as it was then.
GitInv ==
  /\ git_diff = "changed" => Settled(Rows, git, reviewed)
  /\ committed_at <= version
  /\ committed_at = version => git = buffer

CommitStep ==
  \/ /\ UNCHANGED <<git, committed_at>> /\ Versioned
     /\ git_diff' = "changed" => git_diff = "changed"
  \/ /\ git' = buffer /\ UNCHANGED bufferVars /\ committed_at' \in {version, committed_at}
     /\ git_diff' = "changed" => AgentRows(Rows, buffer) \subseteq reviewed'

LEMMA CommitSteps ==
  ASSUME LogType, [Next]_vars
  PROVE  CommitStep /\ reviewed \subseteq reviewed'
<1> DEFINE NoNews == git_diff' = "changed" => git_diff = "changed"
<1>1. NoNews /\ UNCHANGED <<bufferVars, git, committed_at>> => CommitStep
  BY DEF CommitStep, Versioned, bufferVars
<1>2. NoNews /\ version' = version + 1 /\ UNCHANGED <<git, committed_at>> => CommitStep
  BY DEF CommitStep, Versioned
<1>3. CASE \/ buffer_read \/ Saved \/ git_diff_opened \/ track_edits \/ keep_committed_edits
           \/ update_diff \/ UNCHANGED vars
  BY <1>1, <1>3 DEF buffer_read, ReadNow, Saved, git_diff_opened, track_edits,
                    keep_committed_edits, update_diff, vars, auxVars, logVars, taskVars
<1>4. CASE overwrite
  BY <1>2, <1>4 DEF overwrite
<1>5. CASE will_delete_buffer
  <2>1. /\ UNCHANGED <<git, committed_at>>
        /\ (version' = version + 1 \/ UNCHANGED bufferVars)
        /\ NoNews
    BY <1>5 DEF will_delete_buffer, Restarted, taskVars
  <2>2. reviewed \subseteq reviewed'
    BY <1>5 DEF will_delete_buffer
  <2> QED
    BY <1>1, <1>2, <2>1, <2>2
<1>6. ASSUME NEW S \in Runs \cup {{}}, buffer_edited(S) PROVE CommitStep /\ reviewed \subseteq reviewed'
  BY <1>6, PatchedByNothing DEF buffer_edited, ReadNow, Edited, CommitStep, Versioned, LogType, taskVars
<1>7. ASSUME NEW S \in Runs, handle_buffer_edited(S) PROVE CommitStep /\ reviewed \subseteq reviewed'
  BY <1>2, <1>7 DEF handle_buffer_edited, taskVars
<1>8. CASE handle_buffer_file_changed
  BY <1>1, <1>8 DEF handle_buffer_file_changed, ReadNow, Restarted, auxVars, logVars, taskVars
<1>9. CASE Committed
  BY <1>9 DEF Committed, Subscribed, CommitStep
<1>10. ASSUME NEW S, UNCHANGED <<bufferVars, git>>,
              (Kept(S) /\ UNCHANGED taskVars) \/ KeptDeletion
       PROVE  CommitStep /\ reviewed \subseteq reviewed'
  BY <1>1, <1>10 DEF Kept, KeptDeletion, Restarted, auxVars, taskVars
<1>11. ASSUME NEW r \in Rows, keep_edits_in_range(r) PROVE CommitStep /\ reviewed \subseteq reviewed'
  BY <1>10, <1>11 DEF keep_edits_in_range
<1>12. CASE keep_all_edits
  BY <1>10, <1>12 DEF keep_all_edits
<1>13. ASSUME NEW rows \in SUBSET Rows, reject_edits_in_ranges(rows)
       PROVE  CommitStep /\ reviewed \subseteq reviewed'
  <2>1. git' = git
    BY <1>13 DEF reject_edits_in_ranges
  <2>2. CASE CreationRejected
    BY <2>1, <2>2 DEF CreationRejected, Restarted, CommitStep, Versioned
  <2>3. CASE DeletionRejected
    BY <1>2, <2>1, <2>3 DEF DeletionRejected, Restarted, ReadNow
  <2>4. ASSUME NEW rejected, HunksRejected(rejected) PROVE CommitStep /\ reviewed \subseteq reviewed'
    BY <1>2, <2>1, <2>4 DEF HunksRejected, auxVars, taskVars
  <2> QED
    BY <1>13, <2>2, <2>3, <2>4 DEF reject_edits_in_ranges
<1> QED
  BY <1>3, <1>4, <1>5, <1>6, <1>7, <1>8, <1>9, <1>11, <1>12, <1>13 DEF Next

LEMMA SettledMore ==
  ASSUME NEW S, NEW text, NEW done, NEW more, Settled(S, text, done), done \subseteq more
  PROVE  Settled(S, text, more)
BY DEF Settled

LEMMA GitStep ==
  ASSUME LogType, LogType', GitInv, CommitStep, reviewed \subseteq reviewed'
  PROVE  GitInv'
<1>1. git_diff' = "changed" => Settled(Rows, git', reviewed')
  BY SettledMore, SettledRows DEF GitInv, CommitStep
<1>2. committed_at' <= version' /\ (committed_at' = version' => git' = buffer')
  BY DEF GitInv, CommitStep, Versioned, LogType, bufferVars
<1> QED
  BY <1>1, <1>2 DEF GitInv

LEMMA SettledPatch ==
  ASSUME NEW a, NEW b, NEW S, NEW done, Settled(Rows, a, done), Settled(S \cap Rows, b, done)
  PROVE  Settled(Rows, Patched(a, S, b), done)
BY DEF Settled, Patched

\* The queue after one more update, if that is settled.
LEMMA ReviewedGrown ==
  ASSUME LogType, LogType', ReviewedInv, CurrentInv, IsTracked, reviewed \subseteq reviewed',
         NEW author \in {"agent", "user"}, Start' = Start,
         updates' = Append(updates, [author |-> author, snapshot |-> buffer']),
         author = "user" => Settled(Changed(buffer, buffer'), buffer', reviewed')
  PROVE  \A i \in 1..Len(updates') : updates'[i].author = "user" =>
           Settled(Replaced(Start', updates', i), TextAt(Start', updates', i), reviewed')
<1>1. Queued(Start, updates, author, buffer', updates')
  BY Grown DEF LogType
<1> SUFFICES ASSUME NEW i \in 1..Len(updates'), updates'[i].author = "user"
             PROVE  Settled(Replaced(Start, updates', i), TextAt(Start, updates', i), reviewed')
  OBVIOUS
<1>2. CASE i = Len(updates')
  BY <1>1, <1>2 DEF Queued, CurrentInv
<1>3. CASE i # Len(updates')
  <2>1. i \in 1..Len(updates) /\ i \in 0..Len(updates)
    BY <1>1, <1>3 DEF Queued
  <2> QED
    BY <1>1, <2>1, SettledMore DEF Queued, ReviewedInv
<1> QED
  BY <1>2, <1>3

\* An update of the user patches the base with rows that it replaced.
LEMMA NonConflicting ==
  ASSUME NEW patch, NEW base, NEW old, NEW new
  PROVE  \E S \in SUBSET Changed(old, new) :
           /\ apply_non_conflicting_edits(patch, Hunks(old, new), base, new) = Patched(base, S, new)
           /\ (\A H \in patch : H \cap Changed(old, new) = {}) => S = Changed(old, new)
<1> DEFINE S == UNION {E \in Hunks(old, new) : \A H \in patch : E \cap H = {}}
<1>1. S \subseteq Changed(old, new)
  BY HunksChanged
<1>2. ASSUME \A H \in patch : H \cap Changed(old, new) = {} PROVE Changed(old, new) \subseteq S
  <2>1. \A E \in Hunks(old, new) : \A H \in patch : E \cap H = {}
    BY <1>2, HunksChanged
  <2> QED
    BY <2>1, HunksChanged
<1>3. apply_non_conflicting_edits(patch, Hunks(old, new), base, new) = Patched(base, S, new)
  BY DEF apply_non_conflicting_edits
<1> QED
  BY <1>1, <1>2, <1>3

LEMMA ReviewedStep ==
  ASSUME LogType, LogType', Steps, CurrentInv, ReviewedInv, GitInv, reviewed \subseteq reviewed'
  PROVE  ReviewedInv'
<1> DEFINE Queue == \A i \in 1..Len(updates') : updates'[i].author = "user" =>
                     Settled(Replaced(Start', updates', i), TextAt(Start', updates', i), reviewed')
           Goal == /\ Settled(Rows, tracked'.diff_base, reviewed')
                   /\ Settled(Rows, Base', reviewed')
                   /\ Queue
<1> SUFFICES ASSUME IsTracked' PROVE Goal
  BY DEF ReviewedInv
<1>1. CASE overwrite
  <2>1. /\ updates' = <<[author |-> "agent", snapshot |-> Blank]>> /\ task' = Idle
        /\ tracked'.diff_base = Blank
    BY <1>1 DEF overwrite, Tracked
  <2>2. Settled(Rows, Blank, reviewed') /\ Base' = Blank
    BY <2>1 DEF Settled, Blank, Nothing, Base
  <2> QED
    BY <2>1, <2>2
<1>2. CASE Quiet
  <2>1. Base' = Base /\ Start' = Start /\ updates' = updates /\ tracked'.diff_base = tracked.diff_base /\ IsTracked
    BY <1>2 DEF Quiet, SameReview, Base, Start
  <2> QED
    BY <2>1, SettledMore DEF ReviewedInv
<1>3. ASSUME NEW text \in Texts, Begun(text) PROVE Goal
  <2>1. Base' = text /\ tracked'.diff_base = text /\ AgentRows(Rows, text) \subseteq reviewed'
    BY <1>3, BegunBase DEF Begun
  <2>2. \A i \in 1..Len(updates') : updates'[i].author # "user"
    BY <1>3 DEF Begun
  <2> QED
    BY <2>1, <2>2, SettledRows
<1>4. ASSUME NEW S \in SUBSET Rows, AgentEdit(S) \/ UserEdit(S) \/ Rejection(S) PROVE Goal
  <2>1. PICK author \in {"agent", "user"} :
          /\ Extended(author, S)
          /\ author = "user" => UserEdit(S) \/ Rejection(S)
    BY <1>4 DEF AgentEdit, UserEdit, Rejection
  <2>2. Base' = Base /\ Start' = Start /\ tracked'.diff_base = tracked.diff_base /\ IsTracked
    BY <2>1, SameBase DEF Extended, SameReview
  <2>3. Changed(buffer, buffer') \subseteq S
    BY <2>1 DEF Extended
  <2>4. UserEdit(S) => Settled(Changed(buffer, buffer'), buffer', reviewed')
    BY <2>3 DEF UserEdit, Settled
  <2>5. Rejection(S) => Settled(Changed(buffer, buffer'), buffer', reviewed')
    BY <2>2, <2>3 DEF Rejection, Settled, ReviewedInv
  <2>6. Queue
    BY <2>1, <2>2, <2>4, <2>5, ReviewedGrown DEF Extended
  <2> QED
    BY <2>2, <2>6, SettledMore DEF ReviewedInv
<1>5. ASSUME NEW S \in SUBSET Rows, Review(S) PROVE Goal
  <2>1. Start' = Start /\ IsTracked /\ AgentRows(S, tracked.snapshot) \subseteq reviewed'
    BY <1>5, SameBase DEF Review, Kept
  <2>2. Settled(Rows, tracked'.diff_base, reviewed')
    <3>1. Settled(Rows, tracked.diff_base, reviewed')
      BY <2>1, SettledMore DEF ReviewedInv
    <3>2. Settled(S \cap Rows, tracked.snapshot, reviewed')
      BY <2>1, SettledRows DEF Settled
    <3>3. tracked'.diff_base = Patched(tracked.diff_base, S, tracked.snapshot)
      BY <1>5 DEF Review
    <3> QED
      BY <3>1, <3>2, <3>3, SettledPatch
  <2>3. Settled(Rows, Base', reviewed')
    BY <1>5, <2>1, <2>2, SettledMore, SameBase DEF Review, ReviewedInv, SameTask, Base
  <2>4. Changed(buffer, buffer') = {} /\ buffer' = buffer
    BY <1>5 DEF Review, bufferVars, Changed
  <2>5. Queue
    BY <1>5, <2>1, <2>4, ReviewedGrown DEF Review, Settled
  <2> QED
    BY <2>2, <2>3, <2>5
<1>6. CASE track_edits
  <2>1. /\ tracked' = tracked /\ IsTracked /\ Base = tracked.diff_base
        /\ Dequeued(Start, updates, updates') /\ Start' = updates[1].snapshot
        /\ Len(updates) \in Nat \ {0}
    BY <1>6, TrackedBase, Shrunk DEF Dequeued
  <2>2. Queue
    <3> SUFFICES ASSUME NEW i \in 1..Len(updates'), updates'[i].author = "user"
                 PROVE  Settled(Replaced(Start', updates', i), TextAt(Start', updates', i), reviewed')
      OBVIOUS
    <3>1. i + 1 \in 1..Len(updates) /\ i \in 0..Len(updates')
      BY <2>1 DEF Dequeued
    <3> QED
      BY <2>1, <3>1, SettledMore DEF Dequeued, ReviewedInv
  <2>3. Settled(Rows, Base, reviewed')
    BY <2>1, SettledMore DEF ReviewedInv
  <2>4. CASE updates[1].author = "user"
    <3>1. PICK S : S \subseteq Changed(Start, Start') /\ Base' = Patched(Base, S, Start')
      BY <1>6, <2>4, TrackedBase, NonConflicting
    <3>2. Settled(Changed(Start, Start'), Start', reviewed)
      <4>1. Replaced(Start, updates, 1) = Changed(Start, Start') /\ TextAt(Start, updates, 1) = Start'
        BY <1>6, <2>1, Shrunk DEF TextAt
      <4> QED
        BY <2>1, <2>4, <4>1 DEF ReviewedInv
    <3>3. Settled(S \cap Rows, Start', reviewed')
      BY <3>1, <3>2 DEF Settled
    <3> QED
      BY <2>1, <2>2, <2>3, <3>1, <3>3, SettledPatch
  <2>5. CASE updates[1].author # "user"
    BY <1>6, <2>1, <2>2, <2>3, <2>5, TrackedBase
  <2> QED
    BY <2>4, <2>5
<1>7. CASE keep_committed_edits
  <2>1. /\ Start' = Start /\ updates' = updates /\ tracked' = tracked /\ IsTracked
        /\ Base' = CommittedBase(tracked)
    BY <1>7, CommittingBase
  <2>2. PICK S : Base' = Patched(tracked.diff_base, S, git)
    BY <2>1 DEF CommittedBase
  <2>3. Settled(Rows, tracked.diff_base, reviewed') /\ Settled(S \cap Rows, git, reviewed')
    BY <1>7, <2>1, SettledMore DEF keep_committed_edits, ReviewedInv, GitInv, Settled
  <2>4. Settled(Rows, Base', reviewed')
    BY <2>2, <2>3, SettledPatch
  <2> QED
    BY <2>1, <2>4, SettledMore DEF ReviewedInv
<1>8. CASE update_diff
  BY <1>8, UpdatedBase, SettledMore DEF ReviewedInv
<1> QED
  BY <1>1, <1>2, <1>3, <1>4, <1>5, <1>6, <1>7, <1>8 DEF Steps

\* No edit of the agent slips past the review.
THEOREM AgentEditsAlwaysUnreviewed == Spec => []AgentEditsUnreviewed
<1> DEFINE IInv == LogType /\ Apart /\ CurrentInv /\ ReviewedInv /\ GitInv
<1>1. Init => IInv
  <2> SUFFICES ASSUME Init PROVE IInv
    OBVIOUS
  <2>1. Settled(Rows, git, reviewed)
    BY DEF Init, Settled, Blank, Nothing
  <2>2. version = 0 /\ committed_at = -1 /\ ~IsTracked
    BY DEF Init
  <2>3. committed_at <= version /\ committed_at # version
    BY <2>2
  <2> QED
    BY <2>1, <2>2, <2>3, TypeInit DEF Apart, CurrentInv, Quiesced, ReviewedInv, GitInv
<1>2. IInv /\ [Next]_vars => IInv'
  BY TypeStep, ApartStep, AllSteps, CurrentStep, CommitSteps, GitStep, ReviewedStep
<1>3. IInv => AgentEditsUnreviewed
  BY DEF AgentEditsUnreviewed, ReviewedInv, Quiesced, Settled, AgentRows
<1> QED
  BY <1>1, <1>2, <1>3, PTL DEF Spec

----------------------------------------------------------------------------
(* The user is asked about nothing but what the agent touched. *)

\* From the rows t[0], which may differ from the base, the queue leads to wider
\* and wider sets of touched rows: an update adds what it replaces, but for one
\* of the user's that overlaps with none of the rows so far, which maintain_diff
\* takes into the base.
Widening(t, s, us) ==
  \A i \in 1..Len(us) :
    /\ t[i - 1] \subseteq t[i]
    /\ \/ Replaced(s, us, i) \subseteq t[i]
       \/ us[i].author = "user" /\ Replaced(s, us, i) \cap t[i - 1] = {}
Foreseen(U, s, us, rows) ==
  \E t \in [0..Len(us) -> SUBSET rows] : U \subseteq t[0] /\ Widening(t, s, us)

\* The rows that may differ from the base once the update under way is stored.
Reach == Changed(Base, Start) \cup (IF task = Idle THEN UNION tracked.unreviewed_edits ELSE {})

TouchedInv ==
  IsTracked => /\ UNION tracked.unreviewed_edits \subseteq touched
               /\ Foreseen(Reach, Start, updates, touched)

LEMMA ForeseenFlat ==
  ASSUME NEW U, NEW s, NEW us \in Seq(Updates), NEW rows, U \subseteq rows,
         \A i \in 1..Len(us) : Replaced(s, us, i) \subseteq rows
  PROVE  Foreseen(U, s, us, rows)
<1> DEFINE t == [i \in 0..Len(us) |-> rows]
<1>1. Len(us) \in Nat /\ t \in [0..Len(us) -> SUBSET rows]
  OBVIOUS
<1>2. \A i \in 1..Len(us) : i \in 0..Len(us) /\ i - 1 \in 0..Len(us)
  BY <1>1
<1>3. Widening(t, s, us) /\ U \subseteq t[0]
  BY <1>1, <1>2 DEF Widening
<1> QED
  BY <1>1, <1>3 DEF Foreseen

LEMMA ForeseenLess ==
  ASSUME NEW U, NEW V, V \subseteq U, NEW s, NEW us, NEW rows, Foreseen(U, s, us, rows)
  PROVE  Foreseen(V, s, us, rows)
BY DEF Foreseen

LEMMA ForeseenNow ==
  ASSUME NEW U, NEW s, NEW us \in Seq(Updates), NEW rows, Foreseen(U, s, us, rows)
  PROVE  U \subseteq rows
<1>1. Len(us) \in Nat
  OBVIOUS
<1> QED
  BY <1>1 DEF Foreseen

LEMMA ForeseenGrown ==
  ASSUME NEW U, NEW s, NEW us \in Seq(Updates), NEW rows, Foreseen(U, s, us, rows),
         NEW more, rows \subseteq more,
         NEW author, NEW text, NEW vs, Queued(s, us, author, text, vs),
         \/ Changed(TextAt(s, us, Len(us)), text) \subseteq more
         \/ author = "user" /\ Changed(TextAt(s, us, Len(us)), text) \cap rows = {}
  PROVE  Foreseen(U, s, vs, more)
<1>1. PICK t \in [0..Len(us) -> SUBSET rows] : U \subseteq t[0] /\ Widening(t, s, us)
  BY DEF Foreseen
<1> DEFINE n == Len(us)
           tt == [i \in 0..Len(vs) |-> IF i = Len(vs) THEN more ELSE t[i]]
<1>2. /\ n \in Nat /\ Len(vs) = n + 1
      /\ \A i \in 1..n : Replaced(s, vs, i) = Replaced(s, us, i) /\ vs[i].author = us[i].author
      /\ vs[Len(vs)].author = author
      /\ Replaced(s, vs, Len(vs)) = Changed(TextAt(s, us, n), text)
  BY DEF Queued
<1>3. /\ \A i \in 0..n : tt[i] = t[i] /\ tt[i] \subseteq rows
      /\ tt[Len(vs)] = more /\ tt \in [0..Len(vs) -> SUBSET more]
  BY <1>2, SMTT(20)
<1> HIDE DEF tt
<1>4. ASSUME NEW i \in 1..Len(vs)
      PROVE  /\ tt[i - 1] \subseteq tt[i]
             /\ \/ Replaced(s, vs, i) \subseteq tt[i]
                \/ vs[i].author = "user" /\ Replaced(s, vs, i) \cap tt[i - 1] = {}
  <2>1. CASE i = Len(vs)
    <3>1. i - 1 = n /\ n \in 0..n
      BY <1>2, <2>1
    <3> QED
      BY <1>2, <1>3, <2>1, <3>1
  <2>2. CASE i # Len(vs)
    <3>1. i \in 1..n /\ i \in 0..n /\ i - 1 \in 0..n
      BY <1>2, <2>2
    <3> QED
      BY <1>1, <1>2, <1>3, <3>1 DEF Widening
  <2> QED
    BY <2>1, <2>2
<1>5. U \subseteq tt[0]
  BY <1>1, <1>2, <1>3
<1> QED
  BY <1>3, <1>4, <1>5 DEF Foreseen, Widening

\* The first update of us is taken from the queue, vs is what is left.
ForeseenFirst(U, s, us, vs, rows) ==
  \E before, after \in SUBSET rows :
    /\ U \subseteq before /\ before \subseteq after
    /\ \/ Replaced(s, us, 1) \subseteq after
       \/ us[1].author = "user" /\ Replaced(s, us, 1) \cap before = {}
    /\ \A V \in SUBSET after : Foreseen(V, us[1].snapshot, vs, rows)

LEMMA ForeseenShrunk ==
  ASSUME NEW U, NEW s, NEW us \in Seq(Updates), NEW rows, Foreseen(U, s, us, rows),
         NEW vs, Dequeued(s, us, vs)
  PROVE  ForeseenFirst(U, s, us, vs, rows)
<1>1. PICK t \in [0..Len(us) -> SUBSET rows] : U \subseteq t[0] /\ Widening(t, s, us)
  BY DEF Foreseen
<1> DEFINE n == Len(vs)
           tt == [i \in 0..n |-> t[i + 1]]
<1>2. /\ n \in Nat /\ Len(us) = n + 1
      /\ \A i \in 1..n : /\ Replaced(us[1].snapshot, vs, i) = Replaced(s, us, i + 1)
                        /\ vs[i].author = us[i + 1].author
  BY DEF Dequeued
<1>3. t[0] \in SUBSET rows /\ t[1] \in SUBSET rows /\ tt \in [0..n -> SUBSET rows] /\ tt[0] = t[1]
  BY <1>1, <1>2
<1>4. /\ t[0] \subseteq t[1]
      /\ Replaced(s, us, 1) \subseteq t[1] \/ (us[1].author = "user" /\ Replaced(s, us, 1) \cap t[0] = {})
  <2>1. 1 \in 1..Len(us) /\ 1 - 1 = 0
    BY <1>2
  <2> QED
    BY <1>1, <2>1 DEF Widening
<1>5. Widening(tt, us[1].snapshot, vs)
  <2> SUFFICES ASSUME NEW i \in 1..n
               PROVE  /\ tt[i - 1] \subseteq tt[i]
                      /\ \/ Replaced(us[1].snapshot, vs, i) \subseteq tt[i]
                         \/ vs[i].author = "user" /\ Replaced(us[1].snapshot, vs, i) \cap tt[i - 1] = {}
    BY DEF Widening
  <2>1. i + 1 \in 1..Len(us) /\ (i + 1) - 1 = i /\ i \in 0..n /\ i - 1 \in 0..n
    BY <1>2
  <2>2. tt[i] = t[i + 1] /\ tt[i - 1] = t[i]
    BY <2>1
  <2> QED
    BY <1>1, <1>2, <2>1, <2>2 DEF Widening
<1>6. ASSUME NEW V \in SUBSET t[1] PROVE Foreseen(V, us[1].snapshot, vs, rows)
  BY <1>3, <1>5 DEF Foreseen
<1> QED
  BY <1>1, <1>3, <1>4, <1>6 DEF ForeseenFirst

LEMMA ReplacedInRows == \A s, us, i : Replaced(s, us, i) \subseteq Rows
BY DEF Replaced, Changed

LEMMA TouchedStep ==
  ASSUME LogType, LogType', Apart', Steps, CurrentInv, TouchedInv
  PROVE  TouchedInv'
<1> DEFINE Goal == /\ UNION tracked'.unreviewed_edits \subseteq touched'
                   /\ Foreseen(Reach', Start', updates', touched')
<1> SUFFICES ASSUME IsTracked' PROVE Goal
  BY DEF TouchedInv
<1>0. /\ updates \in Seq(Updates) /\ updates' \in Seq(Updates)
      /\ buffer' \in Texts /\ tracked' \in Entries
  BY DEF LogType
<1>1. ASSUME touched' = Rows PROVE Goal
  <2>1. Reach' \subseteq Rows /\ UNION tracked'.unreviewed_edits \subseteq Rows
    BY <1>0 DEF Reach, Changed, Entries
  <2>2. Foreseen(Reach', Start', updates', Rows)
    BY <1>0, <2>1, ForeseenFlat, ReplacedInRows
  <2> QED
    BY <1>1, <2>1, <2>2
<1>2. CASE Quiet
  <2>1. Reach' = Reach /\ Start' = Start
    BY <1>2 DEF Quiet, SameReview, Reach, Base, Start
  <2> QED
    BY <1>2, <2>1 DEF Quiet, SameReview, TouchedInv
<1>3. ASSUME NEW text \in Texts, Begun(text) PROVE Goal
  <2>1. Base' = text /\ Start' = text /\ tracked'.unreviewed_edits = {}
    BY <1>3, BegunBase DEF Begun
  <2>2. Reach' = {}
    BY <2>1 DEF Reach, Changed
  <2>3. CASE text = buffer'
    <3>1. \A i \in 1..Len(updates') : Replaced(Start', updates', i) \subseteq touched'
      <4>1. CASE updates' = <<>>
        BY <4>1
      <4>2. CASE updates' = <<[author |-> "agent", snapshot |-> buffer']>>
        BY <2>1, <2>3, <4>2 DEF Replaced, TextAt, Changed
      <4> QED
        BY <1>3, <4>1, <4>2 DEF Begun
    <3>2. Foreseen(Reach', Start', updates', touched')
      BY <1>0, <2>2, <3>1, ForeseenFlat
    <3> QED
      BY <2>1, <3>2
  <2> QED
    BY <1>1, <1>3, <2>3 DEF Begun
<1>4. ASSUME NEW S \in SUBSET Rows, AgentEdit(S) \/ UserEdit(S) \/ Rejection(S) PROVE Goal
  <2>1. PICK author \in {"agent", "user"} :
          /\ Extended(author, S)
          /\ \/ AgentEdit(S)
             \/ author = "user" /\ (UserEdit(S) \/ Rejection(S))
    BY <1>4 DEF AgentEdit, UserEdit, Rejection
  <2>2. /\ IsTracked /\ Start' = Start /\ Reach' = Reach
        /\ tracked'.unreviewed_edits = tracked.unreviewed_edits
        /\ Changed(buffer, buffer') \subseteq S
    BY <2>1, SameBase DEF Extended, SameReview, Reach, SameTask
  <2>3. Queued(Start, updates, author, buffer', updates') /\ TextAt(Start, updates, Len(updates)) = buffer
    BY <1>0, <2>1, <2>2, Grown DEF Extended, CurrentInv
  <2>4. UNION tracked.unreviewed_edits \subseteq touched /\ Foreseen(Reach, Start, updates, touched)
    BY <2>2 DEF TouchedInv
  <2>5. /\ touched \subseteq touched'
        /\ \/ Changed(buffer, buffer') \subseteq touched'
           \/ author = "user" /\ Changed(buffer, buffer') \cap touched = {}
    BY <2>1, <2>2, <2>4 DEF AgentEdit, UserEdit, Rejection
  <2>6. Foreseen(Reach, Start, updates', touched')
    BY <1>0, <2>3, <2>4, <2>5, ForeseenGrown
  <2> QED
    BY <2>2, <2>4, <2>5, <2>6
<1>5. ASSUME NEW S \in SUBSET Rows, Review(S) PROVE Goal
  <2>1. /\ IsTracked /\ Start' = Start /\ (task # Idle => Base' = Base)
        /\ task' = task /\ tracked'.snapshot = tracked.snapshot
        /\ tracked'.diff_base = Patched(tracked.diff_base, S, tracked.snapshot)
        /\ tracked'.unreviewed_edits \subseteq tracked.unreviewed_edits
        /\ \A H \in tracked'.unreviewed_edits : H \cap S = {}
        /\ touched' = IF task = Idle /\ updates = <<>> THEN touched \ S ELSE touched
    BY <1>5, SameBase DEF Review, Kept, SameTask
  <2>2. UNION tracked.unreviewed_edits \subseteq touched /\ Foreseen(Reach, Start, updates, touched)
    BY <2>1 DEF TouchedInv
  <2>3. Queued(Start, updates, "user", buffer, updates') /\ TextAt(Start, updates, Len(updates)) = buffer
    BY <1>0, <1>5, <2>1, Grown DEF Review, CurrentInv, bufferVars
  <2>4. Changed(buffer, buffer) = {}
    BY DEF Changed
  <2>5. task = Idle => Changed(Base', Start') \subseteq Changed(Base, Start) \ S
    BY <2>1 DEF Base, Start, Changed, Patched
  <2>6. Reach' \subseteq Reach /\ (task = Idle => Reach' \cap S = {})
    BY <2>1, <2>5 DEF Reach
  <2>7. CASE task = Idle /\ updates = <<>>
    <3>1. Reach' \subseteq touched' /\ UNION tracked'.unreviewed_edits \subseteq touched'
      BY <1>0, <2>1, <2>2, <2>6, <2>7, ForeseenNow
    <3>2. \A i \in 1..Len(updates') : Replaced(Start', updates', i) \subseteq touched'
      <4>1. Len(updates') = 1 /\ Replaced(Start', updates', 1) = {}
        BY <2>1, <2>3, <2>4, <2>7 DEF Queued
      <4> QED
        BY <4>1
    <3> QED
      BY <1>0, <3>1, <3>2, ForeseenFlat
  <2>8. CASE ~(task = Idle /\ updates = <<>>)
    <3>1. Foreseen(Reach', Start, updates, touched)
      BY <2>2, <2>6, ForeseenLess
    <3>2. Foreseen(Reach', Start, updates', touched)
      BY <1>0, <2>3, <2>4, <3>1, ForeseenGrown
    <3> QED
      BY <2>1, <2>2, <2>8, <3>2
  <2> QED
    BY <2>7, <2>8
<1>6. CASE track_edits
  <2>1. /\ tracked' = tracked /\ IsTracked /\ touched' = touched /\ task = Idle /\ task' # Idle
        /\ Dequeued(Start, updates, updates') /\ Start' = updates[1].snapshot
        /\ Replaced(Start, updates, 1) = Changed(Start, Start')
    BY <1>6, TrackedBase, Shrunk DEF track_edits, auxVars
  <2>2. UNION tracked.unreviewed_edits \subseteq touched /\ Foreseen(Reach, Start, updates, touched)
    BY <2>1 DEF TouchedInv
  <2>3. PICK before, after \in SUBSET touched :
          /\ Reach \subseteq before /\ before \subseteq after
          /\ \/ Changed(Start, Start') \subseteq after
             \/ updates[1].author = "user" /\ Changed(Start, Start') \cap before = {}
          /\ \A V \in SUBSET after : Foreseen(V, Start', updates', touched)
    <3>1. ForeseenFirst(Reach, Start, updates, updates', touched)
      BY <1>0, <2>1, <2>2, ForeseenShrunk
    <3> QED
      BY <2>1, <3>1 DEF ForeseenFirst
  <2>4. Reach' = Changed(Base', Start')
    BY <2>1 DEF Reach
  <2>5. Changed(Base, Start) \subseteq before /\ UNION tracked.unreviewed_edits \subseteq before
    BY <2>1, <2>3 DEF Reach
  <2>6. ASSUME updates[1].author = "user" PROVE Changed(Base', Start') \subseteq after
    <3>1. PICK S : /\ Base' = Patched(Base, S, Start')
                   /\ (\A H \in tracked.unreviewed_edits : H \cap Changed(Start, Start') = {})
                        => S = Changed(Start, Start')
      BY <1>6, <2>6, TrackedBase, NonConflicting
    <3>2. Changed(Base', Start') \subseteq Changed(Base, Start')
      BY <3>1 DEF Changed, Patched
    <3>3. CASE Changed(Start, Start') \subseteq after
      BY <2>3, <2>5, <3>2, <3>3 DEF Changed
    <3>4. CASE Changed(Start, Start') \cap before = {}
      <4>1. S = Changed(Start, Start')
        BY <2>5, <3>1, <3>4
      <4>2. Changed(Base', Start') \subseteq Changed(Base, Start)
        BY <3>1, <4>1 DEF Changed, Patched
      <4> QED
        BY <2>3, <2>5, <4>2
    <3> QED
      BY <2>3, <3>3, <3>4
  <2>7. ASSUME updates[1].author # "user" PROVE Changed(Base', Start') \subseteq after
    <3>1. Base' = Base /\ Changed(Start, Start') \subseteq after
      BY <1>6, <2>3, <2>7, TrackedBase
    <3> QED
      BY <2>3, <2>5, <3>1 DEF Changed
  <2>8. Reach' \subseteq after
    BY <2>4, <2>6, <2>7
  <2> QED
    BY <2>1, <2>2, <2>3, <2>8
<1>7. CASE keep_committed_edits
  <2>1. /\ Start = tracked.snapshot /\ Base = tracked.diff_base /\ Start' = Start
        /\ Base' = CommittedBase(tracked) /\ updates' = updates /\ touched' = touched
        /\ tracked' = tracked /\ IsTracked /\ task' # Idle
    BY <1>7, CommittingBase DEF keep_committed_edits
  <2>2. Changed(Base', Start') \subseteq Changed(Base, Start)
    BY <2>1 DEF CommittedBase, Patched, Changed
  <2>3. Reach' \subseteq Reach
    BY <2>1, <2>2 DEF Reach
  <2> QED
    BY <2>1, <2>3, ForeseenLess DEF TouchedInv
<1>8. CASE update_diff
  <2>1. /\ Start' = Start /\ Base' = Base /\ updates' = updates /\ touched' = touched
        /\ tracked'.unreviewed_edits = Hunks(Base, Start) /\ IsTracked
    BY <1>8, UpdatedBase DEF update_diff, auxVars
  <2>2. UNION Hunks(Base, Start) \subseteq Changed(Base, Start)
    BY HunksChanged
  <2>3. Reach' \subseteq Reach /\ UNION tracked'.unreviewed_edits \subseteq Reach
    BY <2>1, <2>2 DEF Reach
  <2> QED
    BY <1>0, <2>1, <2>3, ForeseenLess, ForeseenNow DEF TouchedInv
<1> QED
  BY <1>1, <1>2, <1>3, <1>4, <1>5, <1>6, <1>7, <1>8 DEF Steps, overwrite

\* The user is asked about the agent's rows, and about his own edits where they
\* overlap with them.
THEOREM OnlyAgentEditsEverUnreviewed == Spec => []OnlyAgentEditsUnreviewed
<1> DEFINE IInv == LogType /\ Apart /\ CurrentInv /\ TouchedInv
<1>1. Init => IInv
  BY TypeInit DEF Init, Apart, CurrentInv, Quiesced, TouchedInv
<1>2. IInv /\ [Next]_vars => IInv'
  BY TypeStep, ApartStep, AllSteps, CurrentStep, TouchedStep
<1>3. IInv => OnlyAgentEditsUnreviewed
  BY DEF OnlyAgentEditsUnreviewed, TouchedInv, Quiesced
<1> QED
  BY <1>1, <1>2, <1>3, PTL DEF Spec

----------------------------------------------------------------------------
(* What was kept stays kept. *)

\* An update of the user that replaces the row r leaves c in it.
Leaves(s, us, r, c) ==
  \A i \in 1..Len(us) : us[i].author = "user" /\ r \in Replaced(s, us, i) => TextAt(s, us, i)[r] = c

\* In a row that was kept, the base holds what was kept, and an update of the
\* user leaves it there; the base under review holds it too, or the row is not
\* up for review.
KeptInv ==
  IsTracked => \A p \in approved :
    /\ Base[p[1]] = p[2]
    /\ Leaves(Start, updates, p[1], p[2])
    /\ tracked.diff_base[p[1]] = p[2] \/ p[1] \notin UNION tracked.unreviewed_edits

LEMMA LeavesGrown ==
  ASSUME NEW s, NEW us, NEW vs, NEW author, NEW text, Queued(s, us, author, text, vs),
         NEW r, NEW c, Leaves(s, us, r, c),
         author = "user" /\ r \in Changed(TextAt(s, us, Len(us)), text) => text[r] = c
  PROVE  Leaves(s, vs, r, c)
<1> SUFFICES ASSUME NEW i \in 1..Len(vs), vs[i].author = "user", r \in Replaced(s, vs, i)
             PROVE  TextAt(s, vs, i)[r] = c
  BY DEF Leaves
<1>1. CASE i = Len(vs)
  BY <1>1 DEF Queued
<1>2. CASE i # Len(vs)
  <2>1. i \in 1..Len(us) /\ i \in 0..Len(us)
    BY <1>2 DEF Queued
  <2> QED
    BY <2>1 DEF Queued, Leaves
<1> QED
  BY <1>1, <1>2

LEMMA LeavesShrunk ==
  ASSUME NEW s, NEW us, NEW vs, Dequeued(s, us, vs), NEW r, NEW c, Leaves(s, us, r, c)
  PROVE  Leaves(us[1].snapshot, vs, r, c)
<1> SUFFICES ASSUME NEW i \in 1..Len(vs), vs[i].author = "user", r \in Replaced(us[1].snapshot, vs, i)
             PROVE  TextAt(us[1].snapshot, vs, i)[r] = c
  BY DEF Leaves
<1>1. i + 1 \in 1..Len(us) /\ i \in 0..Len(vs)
  BY DEF Dequeued
<1> QED
  BY <1>1 DEF Dequeued, Leaves

LEMMA KeptStep ==
  ASSUME LogType, LogType', Steps, CurrentInv, KeptInv
  PROVE  KeptInv'
<1> SUFFICES ASSUME IsTracked', NEW p \in approved'
             PROVE  /\ Base'[p[1]] = p[2]
                    /\ Leaves(Start', updates', p[1], p[2])
                    /\ tracked'.diff_base[p[1]] = p[2] \/ p[1] \notin UNION tracked'.unreviewed_edits
  BY DEF KeptInv
<1> DEFINE r == p[1]
           c == p[2]
           InBase == Base'[r] = c
           InQueue == Leaves(Start', updates', r, c)
           InReview == tracked'.diff_base[r] = c \/ r \notin UNION tracked'.unreviewed_edits
           Old == /\ Base[r] = c /\ Leaves(Start, updates, r, c)
                  /\ tracked.diff_base[r] = c \/ r \notin UNION tracked.unreviewed_edits
<1>0. /\ updates \in Seq(Updates) /\ updates' \in Seq(Updates) /\ buffer' \in Texts
      /\ r \in Rows
      /\ p \in approved /\ IsTracked => Old
  BY DEF LogType, KeptInv
<1> HIDE DEF r, c
<1> SUFFICES InBase /\ InQueue /\ InReview
  BY DEF r, c
<1>1. CASE overwrite
  BY <1>1 DEF overwrite
<1>2. CASE Quiet
  <2>1. Base' = Base /\ Start' = Start /\ p \in approved /\ IsTracked
    BY <1>2 DEF Quiet, SameReview, Base, Start
  <2> QED
    BY <1>0, <1>2, <2>1 DEF Quiet, SameReview
<1>3. ASSUME NEW text \in Texts, Begun(text) PROVE InBase /\ InQueue /\ InReview
  <2>1. Base' = text /\ text[r] = c /\ tracked'.unreviewed_edits = {}
    BY <1>3, BegunBase DEF Begun, r, c
  <2>2. \A i \in 1..Len(updates') : updates'[i].author # "user"
    BY <1>3 DEF Begun
  <2> QED
    BY <2>1, <2>2 DEF Leaves
<1>4. ASSUME NEW S \in SUBSET Rows, AgentEdit(S) \/ UserEdit(S) \/ Rejection(S)
      PROVE  InBase /\ InQueue /\ InReview
  <2>1. PICK author \in {"agent", "user"} :
          /\ Extended(author, S)
          /\ author = "user" => UserEdit(S) \/ Rejection(S)
    BY <1>4 DEF AgentEdit, UserEdit, Rejection
  <2>2. /\ IsTracked /\ Start' = Start /\ Base' = Base /\ p \in approved
        /\ tracked'.unreviewed_edits = tracked.unreviewed_edits
        /\ tracked'.diff_base = tracked.diff_base
        /\ Changed(buffer, buffer') \subseteq S
    BY <1>4, <2>1, SameBase DEF Extended, SameReview, AgentEdit, UserEdit, Rejection
  <2>3. Queued(Start, updates, author, buffer', updates') /\ TextAt(Start, updates, Len(updates)) = buffer
    BY <1>0, <2>1, <2>2, Grown DEF Extended, CurrentInv
  <2>4. UserEdit(S) => r \notin Changed(buffer, buffer')
    BY <2>2 DEF UserEdit, r
  <2>5. Rejection(S) /\ r \in Changed(buffer, buffer') => buffer'[r] = c
    BY <1>0, <2>2 DEF Rejection
  <2>6. InQueue
    BY <1>0, <2>1, <2>2, <2>3, <2>4, <2>5, LeavesGrown
  <2> QED
    BY <1>0, <2>2, <2>6
<1>5. ASSUME NEW S \in SUBSET Rows, Review(S) PROVE InBase /\ InQueue /\ InReview
  <2>1. /\ IsTracked /\ Start' = Start /\ (task # Idle => Base' = Base)
        /\ task' = task /\ tracked'.snapshot = tracked.snapshot
        /\ tracked'.diff_base = Patched(tracked.diff_base, S, tracked.snapshot)
        /\ tracked'.unreviewed_edits \subseteq tracked.unreviewed_edits
        /\ \A H \in tracked'.unreviewed_edits : H \cap S = {}
    BY <1>5, SameBase DEF Review, SameTask
  <2>2. Queued(Start, updates, "user", buffer, updates') /\ TextAt(Start, updates, Len(updates)) = buffer
    BY <1>0, <1>5, <2>1, Grown DEF Review, CurrentInv, bufferVars
  <2>3. Leaves(Start, updates, r, c) => InQueue
    BY <2>1, <2>2, LeavesGrown DEF Changed
  <2>4. \/ p \in approved /\ (task # Idle \/ r \notin S)
        \/ /\ task = Idle /\ r \in S /\ c = tracked.snapshot[r]
           /\ \A i \in DOMAIN updates : updates[i].snapshot[r] = c
    BY <1>5 DEF Review, Kept, AgentRows, r, c
  <2>5. CASE p \in approved /\ task # Idle
    BY <1>0, <2>1, <2>3, <2>5 DEF Patched
  <2>6. CASE p \in approved /\ task = Idle /\ r \notin S
    <3>1. tracked'.diff_base[r] = tracked.diff_base[r] /\ Base' = tracked'.diff_base /\ Base = tracked.diff_base
      BY <1>0, <2>1, <2>6 DEF Patched, Base
    <3> QED
      BY <1>0, <2>1, <2>3, <2>6, <3>1
  <2>7. CASE /\ task = Idle /\ r \in S /\ c = tracked.snapshot[r]
             /\ \A i \in DOMAIN updates : updates[i].snapshot[r] = c
    <3>1. tracked'.diff_base[r] = c /\ Base' = tracked'.diff_base
      BY <1>0, <2>1, <2>7 DEF Patched, Base
    <3>2. Leaves(Start, updates, r, c)
      BY <1>0, <2>7 DEF Leaves, TextAt
    <3> QED
      BY <2>3, <3>1, <3>2
  <2> QED
    BY <2>4, <2>5, <2>6, <2>7
<1>6. CASE track_edits
  <2>1. /\ tracked' = tracked /\ IsTracked /\ Base = tracked.diff_base /\ p \in approved
        /\ Dequeued(Start, updates, updates') /\ Start' = updates[1].snapshot
        /\ Replaced(Start, updates, 1) = Changed(Start, Start') /\ TextAt(Start, updates, 1) = Start'
        /\ 1 \in 1..Len(updates)
    BY <1>6, TrackedBase, Shrunk DEF track_edits, auxVars, TextAt, Dequeued
  <2>2. InQueue
    BY <1>0, <2>1, LeavesShrunk
  <2>3. CASE updates[1].author = "user"
    <3>1. PICK S : S \subseteq Changed(Start, Start') /\ Base' = Patched(Base, S, Start')
      BY <1>6, <2>3, TrackedBase, NonConflicting
    <3>2. r \in Changed(Start, Start') => Start'[r] = c
      BY <1>0, <2>1, <2>3 DEF Leaves
    <3> QED
      BY <1>0, <2>1, <2>2, <3>1, <3>2 DEF Patched
  <2>4. CASE updates[1].author # "user"
    BY <1>0, <1>6, <2>1, <2>2, <2>4, TrackedBase
  <2> QED
    BY <2>3, <2>4
<1>7. CASE keep_committed_edits
  <2>1. /\ Start' = Start /\ Base = tracked.diff_base /\ updates' = updates
        /\ tracked' = tracked /\ IsTracked /\ Base' = task'.base
    BY <1>7, CommittingBase DEF Base
  <2>2. p \in approved /\ Base'[r] = tracked.diff_base[r]
    BY <1>7, <2>1 DEF keep_committed_edits, r
  <2> QED
    BY <1>0, <2>1, <2>2
<1>8. CASE update_diff
  <2>1. p \in approved
    BY <1>8 DEF update_diff, auxVars
  <2> QED
    BY <1>0, <1>8, <2>1, UpdatedBase
<1> QED
  BY <1>1, <1>2, <1>3, <1>4, <1>5, <1>6, <1>7, <1>8 DEF Steps

\* What the user has kept is not asked about again.
THEOREM KeptAlwaysStaysKept == Spec => []KeptStaysKept
<1> DEFINE IInv == LogType /\ Apart /\ CurrentInv /\ KeptInv
<1>1. Init => IInv
  BY TypeInit DEF Init, Apart, CurrentInv, Quiesced, KeptInv
<1>2. IInv /\ [Next]_vars => IInv'
  BY TypeStep, ApartStep, AllSteps, CurrentStep, KeptStep
<1>3. IInv => KeptStaysKept
  BY DEF KeptStaysKept, KeptInv, Quiesced, Base
<1> QED
  BY <1>1, <1>2, <1>3, PTL DEF Spec

----------------------------------------------------------------------------
(* Commits are reviews. *)

\* Once it is looked at, a commit of the text there is leaves nothing between
\* the base and that text, and no other text in the queue.
CommitInv ==
  IsTracked /\ git_diff # "changed" /\ committed_at = version =>
    /\ Changed(Base, Start) = {}
    /\ \A i \in 0..Len(updates) : TextAt(Start, updates, i) = buffer

LEMMA CommitInvStep ==
  ASSUME LogType, LogType', Steps, CommitStep, CurrentInv, GitInv, CommitInv
  PROVE  CommitInv'
<1> DEFINE Goal == /\ Changed(Base', Start') = {}
                   /\ \A i \in 0..Len(updates') : TextAt(Start', updates', i) = buffer'
<1> SUFFICES ASSUME IsTracked', git_diff' # "changed", committed_at' = version' PROVE Goal
  BY DEF CommitInv
<1>0. /\ updates \in Seq(Updates) /\ updates' \in Seq(Updates) /\ buffer' \in Texts
      /\ buffer' = buffer /\ version' = version /\ Changed(buffer, buffer') = {}
      /\ \A text : Changed(text, text) = {}
  BY DEF LogType, CommitStep, GitInv, Versioned, bufferVars, Changed
<1>1. CASE overwrite
  BY <1>0, <1>1 DEF overwrite, LogType
<1>2. CASE Quiet
  <2>1. Base' = Base /\ Start' = Start /\ updates' = updates
    BY <1>2 DEF Quiet, SameReview, Base, Start
  <2> QED
    BY <1>0, <1>2, <2>1 DEF Quiet, CommitInv
<1>3. ASSUME NEW text \in Texts, Begun(text) PROVE Goal
  <2>1. Base' = text /\ Start' = text /\ text = buffer'
    BY <1>0, <1>3, BegunBase DEF Begun, LogType
  <2>2. \A i \in 0..Len(updates') : TextAt(Start', updates', i) = buffer'
    BY <1>3, <2>1 DEF Begun, TextAt
  <2> QED
    BY <1>0, <2>1, <2>2
<1>4. ASSUME NEW author \in {"agent", "user"}, SameTask, tracked'.snapshot = tracked.snapshot,
             IsTracked, committed_at' = committed_at,
             updates' = Append(updates, [author |-> author, snapshot |-> buffer'])
      PROVE  /\ Changed(Base, Start) = {} /\ Start' = Start
             /\ \A i \in 0..Len(updates') : TextAt(Start', updates', i) = buffer'
  <2>1. /\ Changed(Base, Start) = {}
        /\ \A i \in 0..Len(updates) : TextAt(Start, updates, i) = buffer
    BY <1>0, <1>4 DEF CommitInv, SameTask
  <2>2. Queued(Start, updates, author, buffer', updates')
    BY <1>0, <1>4, Grown
  <2>3. \A i \in 0..Len(updates') : TextAt(Start, updates', i) = buffer
    <3>1. \A i \in 0..Len(updates') : i \in 0..Len(updates) \/ i = Len(updates')
      BY <2>2 DEF Queued
    <3> QED
      BY <1>0, <2>1, <2>2, <3>1 DEF Queued
  <2> QED
    BY <1>0, <1>4, <2>1, <2>3, SameBase
<1>5. ASSUME NEW S \in SUBSET Rows, AgentEdit(S) \/ UserEdit(S) \/ Rejection(S) PROVE Goal
  <2>1. PICK author \in {"agent", "user"} : Extended(author, S)
    BY <1>5 DEF AgentEdit, UserEdit, Rejection
  <2>2. Base' = Base
    BY <2>1, SameBase DEF Extended, SameReview
  <2> QED
    BY <1>4, <2>1, <2>2 DEF Extended, SameReview
<1>6. ASSUME NEW S \in SUBSET Rows, Review(S) PROVE Goal
  <2>1. /\ Changed(Base, Start) = {} /\ Start' = Start
        /\ \A i \in 0..Len(updates') : TextAt(Start', updates', i) = buffer'
    BY <1>0, <1>4, <1>6 DEF Review, Kept
  <2>2. Changed(Base', Start') \subseteq Changed(Base, Start)
    BY <1>6, <2>1 DEF Review, SameTask, Base, Start, Changed, Patched
  <2> QED
    BY <2>1, <2>2
<1>7. CASE track_edits
  <2>1. /\ IsTracked /\ Base = tracked.diff_base
        /\ Dequeued(Start, updates, updates') /\ Start' = updates[1].snapshot
        /\ Start' = TextAt(Start, updates, 1) /\ Start = TextAt(Start, updates, 0)
        /\ git_diff' = git_diff /\ committed_at' = committed_at
    BY <1>7, TrackedBase, Shrunk DEF track_edits, auxVars, TextAt
  <2>2. /\ Changed(Base, Start) = {}
        /\ \A i \in 0..Len(updates) : TextAt(Start, updates, i) = buffer
    BY <1>0, <2>1 DEF CommitInv
  <2>3. \A i \in 0..Len(updates') : i + 1 \in 0..Len(updates)
    BY <2>1 DEF Dequeued
  <2>4. \A i \in 0..Len(updates') : TextAt(Start', updates', i) = buffer
    BY <2>1, <2>2, <2>3 DEF Dequeued
  <2>5. Start' = Start
    <3>1. 0 \in 0..Len(updates) /\ 1 \in 0..Len(updates)
      BY <2>1 DEF Dequeued
    <3> QED
      BY <2>1, <2>2, <3>1
  <2>6. \E S : Base' = Base \/ Base' = Patched(Base, S, Start')
    BY <1>7, TrackedBase, NonConflicting
  <2>7. Changed(Base', Start') = {}
    BY <2>2, <2>5, <2>6 DEF Changed, Patched
  <2> QED
    BY <1>0, <2>4, <2>7
<1>8. CASE keep_committed_edits
  <2>1. /\ Start = tracked.snapshot /\ Base = tracked.diff_base /\ Start' = Start
        /\ Base' = CommittedBase(tracked) /\ updates' = updates /\ updates = <<>>
        /\ committed_at' = committed_at /\ IsTracked /\ Quiesced
    BY <1>8, CommittingBase DEF keep_committed_edits
  <2>2. Start = buffer /\ git = buffer /\ tracked.unreviewed_edits = Hunks(Base, Start)
    BY <1>0, <2>1 DEF CurrentInv, GitInv, TextAt
  <2>3. Base' = Patched(Base, UNION Hunks(Base, Start), Start)
    BY <2>1, <2>2 DEF CommittedBase
  <2>4. Changed(Base', Start) = {}
    BY <2>3, HunksChanged DEF Changed, Patched
  <2> QED
    BY <1>0, <2>1, <2>2, <2>4 DEF TextAt
<1>9. CASE update_diff
  BY <1>0, <1>9, UpdatedBase DEF update_diff, auxVars, CommitInv
<1> QED
  BY <1>1, <1>2, <1>3, <1>5, <1>6, <1>7, <1>8, <1>9 DEF Steps

\* What is committed once maintain_diff has the diff of the repository need not
\* be reviewed.
THEOREM CommitsAlwaysReviews == Spec => []CommitsAreReviews
<1> DEFINE IInv == LogType /\ Apart /\ CurrentInv /\ GitInv /\ CommitInv
<1>1. Init => IInv
  <2> SUFFICES ASSUME Init PROVE IInv
    OBVIOUS
  <2>1. Settled(Rows, git, reviewed)
    BY DEF Init, Settled, Blank, Nothing
  <2>2. version = 0 /\ committed_at = -1 /\ ~IsTracked
    BY DEF Init
  <2>3. committed_at <= version /\ committed_at # version
    BY <2>2
  <2> QED
    BY <2>1, <2>2, <2>3, TypeInit DEF Apart, CurrentInv, Quiesced, GitInv, CommitInv
<1>2. IInv /\ [Next]_vars => IInv'
  BY TypeStep, ApartStep, AllSteps, CurrentStep, CommitSteps, GitStep, CommitInvStep
<1>3. IInv => CommitsAreReviews
  <2> SUFFICES ASSUME IInv, Quiesced, git_diff # "changed", committed_at = version
               PROVE  tracked.unreviewed_edits = {}
    BY DEF CommitsAreReviews
  <2>1. /\ Changed(tracked.diff_base, tracked.snapshot) = {}
        /\ tracked.unreviewed_edits = Hunks(tracked.diff_base, tracked.snapshot)
    BY DEF CommitInv, CurrentInv, Quiesced, Base, Start
  <2> QED
    BY <2>1, NoHunks
<1> QED
  BY <1>1, <1>2, <1>3, PTL DEF Spec
=============================================================================

----------------------------- MODULE ActionLog -----------------------------
(***************************************************************************)
(* ActionLog (crates/action_log/src/action_log.rs): which of the changes   *)
(* to a buffer are the agent's, and which of those the user has reviewed.  *)
(*                                                                         *)
(* One buffer.  Buffers are tracked independently of each other.  Its text *)
(* is a function on a few rows; an edit replaces a run of rows, and rows   *)
(* neither appear nor vanish, so that the row arithmetic of patches is     *)
(* left out.  A row's content is the edit that wrote it, <<author, n>>.    *)
(*                                                                         *)
(* maintain_diff first opens the diff of the buffer against the repository *)
(* and then takes the updates of the buffer one by one from a queue; each  *)
(* is computed on background threads from what is tracked when it starts,  *)
(* and stored when that ends (task).  The user keeps and rejects hunks at  *)
(* any time.                                                               *)
(***************************************************************************)
EXTENDS Integers, Sequences

CONSTANTS
  Rows,                 \* a set of consecutive integers
  MaxEdits, MaxUpdates  \* bounds: edits of the buffer, updates in the queue

ASSUME RowsAssumption == Rows \subseteq Int /\ \A p, q \in Rows : p..q \subseteq Rows
ASSUME BoundsAssumption == MaxEdits \in Nat /\ MaxUpdates \in Nat

VARIABLES
  buffer,   \* its text
  version,  \* how often it was edited
  disk,     \* its file: "none" yet, "exists", or "deleted"
  tracked,  \* tracked_buffers' entry, or Untracked
  updates,  \* TrackedBuffer::diff_update
  task,     \* the update under way in maintain_diff, or Idle
  git,      \* the text of the last commit
  git_diff, \* what maintain_diff knows of commits: "opening" the diff, it knows of
            \* none; "off", there is no diff or no repository; "quiet", it has
            \* subscribed; "changed", a commit has been made that it must take in
  \* auxiliary
  reviewed, \* what the agent wrote and the user need not be asked about: <<row, content>>
  approved, \* those of them the user kept, unless an update under way was replacing
            \* the row, he rewrites it himself, or a later review or a commit
            \* replaces it in the base
  touched,  \* rows that the agent, or an edit that overlaps with its rows, changed
  committed_at, \* the version of the last commit that maintain_diff heard of, or -1
  lost      \* a reject deleted the file with text of the user

bufferVars == <<buffer, version>>
taskVars == <<task, git_diff>>
logVars == <<tracked, updates, taskVars>>
auxVars == <<reviewed, approved, touched, committed_at, lost>>
vars == <<bufferVars, disk, logVars, git, auxVars>>

Nothing == <<"nothing", 0>>
Blank == [r \in Rows |-> Nothing]
Runs == {S \in SUBSET Rows : S # {} /\ \A p, q \in S : p..q \subseteq S}

Changed(old, new) == {r \in Rows : old[r] # new[r]}

\* The rows in which two texts differ, as runs: those that no other contains.
Hunks(old, new) ==
  LET runs == {R \in Runs : R \subseteq Changed(old, new)}
  IN  {H \in runs : \A R \in runs : H \subseteq R => H = R}

\* The text a, with the rows in S as in b.
Patched(a, S, b) == [r \in Rows |-> IF r \in S THEN b[r] ELSE a[r]]

Untracked == [status |-> "none"]
\* existing_file_content is a set of at most one text.
Tracked(status, existing, base, edits, text, v) ==
  [status |-> status, existing |-> existing, diff_base |-> base,
   unreviewed_edits |-> edits, snapshot |-> text, version |-> v]
Idle == [at |-> "idle"]
IsTracked == tracked # Untracked

\* The entry is removed, and maybe another made: the task and its channels go.
Restarted == updates' = <<>> /\ task' = Idle /\ git_diff' = "opening"

Scheduled(author, text) == Append(updates, [author |-> author, snapshot |-> text])

Init ==
  /\ disk \in {"none", "exists"}
  /\ buffer = IF disk = "exists" THEN [r \in Rows |-> <<"file", 0>>] ELSE Blank
  /\ version = 0
  /\ tracked = Untracked /\ updates = <<>> /\ task = Idle
  /\ git = buffer /\ git_diff = "opening"
  /\ reviewed = {} /\ approved = {} /\ touched = {} /\ committed_at = -1 /\ lost = FALSE

----------------------------------------------------------------------------
(* The agent. *)

\* What is the agent's in the rows S of a text.
AgentRows(S, text) == {<<r, text[r]>> : r \in {q \in S : text[q][1] = "agent"}}

\* track_buffer_internal: an entry for text that is as good as reviewed.
Read(text, v) == Tracked("modified", {}, text, {}, text, v)
ReadNow(text) ==
  /\ reviewed' = reviewed \cup AgentRows(Rows, text)
  /\ touched' = {}
  /\ approved' = {p \in approved : text[p[1]] = p[2]}

buffer_read ==
  /\ IF IsTracked
     THEN tracked' = [tracked EXCEPT !.version = version] /\ UNCHANGED <<reviewed, approved, touched>>
     ELSE tracked' = Read(buffer, version) /\ ReadNow(buffer)
  /\ UNCHANGED <<bufferVars, disk, updates, taskVars, git, committed_at, lost>>

EditsAllowed == version < MaxEdits /\ Len(updates) < MaxUpdates
Edited(author, S) == Patched(buffer, S, [r \in Rows |-> <<author, version + 1>>])

\* What a file that the agent creates anew had in it, as a set.
Existing ==
  CASE tracked.status = "created" -> tracked.existing
    [] tracked.status \in {"modified", "deleted"} -> {tracked.diff_base}
    [] OTHER -> IF disk = "exists" THEN {buffer} ELSE {}

\* buffer_created, and then the first edit, which empties the buffer.  What was
\* tracked, its queue and its task are dropped.
overwrite ==
  /\ EditsAllowed
  /\ buffer' = Blank /\ version' = version + 1
  /\ tracked' = Tracked("created", Existing, Blank, {Rows}, buffer, version')
  /\ updates' = <<[author |-> "agent", snapshot |-> Blank]>>
  /\ task' = Idle /\ git_diff' = "opening"
  /\ touched' = Rows /\ approved' = {}
  /\ UNCHANGED <<disk, git, reviewed, committed_at, lost>>

\* Variant: the edit is reported after its effect cycle.
buffer_edited_Later(S) ==
  LET text == Edited("agent", S)
      status == IF tracked.status = "deleted" THEN "modified" ELSE tracked.status
  IN  /\ EditsAllowed /\ IsTracked
      /\ buffer' = text /\ version' = version + 1
      /\ tracked' = [tracked EXCEPT !.status = status, !.version = version']
      /\ updates' = Scheduled("user", text)
      /\ touched' = touched \cup S
      /\ UNCHANGED <<disk, taskVars, git, reviewed, approved, committed_at, lost>>

\* The agent edits the buffer and reports it in the same effect cycle.  (The
\* event of the edit schedules the same text once more as the user's: nothing
\* is left in it to attribute.)  A tool also reports before and after it saves,
\* when there is nothing new (S = {}).
buffer_edited(S) ==
  LET text == Edited("agent", S)
      status == IF tracked.status = "deleted" THEN "modified" ELSE tracked.status
  IN  /\ Len(updates) < MaxUpdates /\ (S = {} \/ version < MaxEdits)
      /\ buffer' = text /\ version' = IF S = {} THEN version ELSE version + 1
      /\ updates' = Scheduled("agent", text)
      /\ IF IsTracked
         THEN /\ tracked' = [tracked EXCEPT !.status = status, !.version = version']
              /\ touched' = touched \cup S
              /\ UNCHANGED <<reviewed, approved>>
         ELSE tracked' = Read(text, version') /\ ReadNow(text)
      /\ UNCHANGED <<disk, taskVars, git, committed_at, lost>>

\* The tool has saved what it wrote.
Saved ==
  /\ disk # "exists" /\ IsTracked /\ tracked.status # "deleted"
  /\ disk' = "exists"
  /\ UNCHANGED <<bufferVars, logVars, git, auxVars>>

\* The tool is about to delete the file.
will_delete_buffer ==
  /\ disk = "exists" /\ EditsAllowed
  /\ CASE tracked.status = "created" ->
            /\ tracked' = Untracked /\ Restarted
            /\ UNCHANGED <<bufferVars, reviewed, approved, touched>>
       [] tracked.status \in {"modified", "none"} ->
            /\ buffer' = Blank /\ version' = version + 1
            /\ tracked' = [(IF IsTracked THEN tracked ELSE Read(buffer, version)) EXCEPT
                             !.status = "deleted", !.version = version]
            /\ updates' = Scheduled("agent", Blank)
            /\ reviewed' = IF IsTracked THEN reviewed ELSE reviewed \cup AgentRows(Rows, buffer)
            /\ touched' = Rows /\ approved' = {}
            /\ UNCHANGED taskVars
       [] OTHER -> /\ tracked' = [tracked EXCEPT !.version = version]
                   /\ UNCHANGED <<bufferVars, updates, taskVars, reviewed, approved, touched>>
  /\ UNCHANGED <<disk, git, committed_at, lost>>

----------------------------------------------------------------------------
(* Others: the user's edits, the file, the repository. *)

\* Variant: the edit is taken for one of the agent's.
handle_buffer_edited_Agent(S) ==
  /\ EditsAllowed
  /\ buffer' = Edited("user", S) /\ version' = version + 1
  /\ updates' = IF IsTracked THEN Scheduled("agent", buffer') ELSE updates
  /\ approved' = {p \in approved : p[1] \notin S}
  /\ touched' = IF S \cap touched # {} THEN touched \cup S ELSE touched
  /\ UNCHANGED <<disk, tracked, taskVars, git, reviewed, committed_at, lost>>

\* Any edit that no tool reports with it: typing, formatting, undo.
handle_buffer_edited(S) ==
  /\ EditsAllowed
  /\ buffer' = Edited("user", S) /\ version' = version + 1
  /\ updates' = IF IsTracked THEN Scheduled("user", buffer') ELSE updates
  /\ approved' = {p \in approved : p[1] \notin S}
  /\ touched' = IF S \cap touched # {} THEN touched \cup S ELSE touched
  /\ UNCHANGED <<disk, tracked, taskVars, git, reviewed, committed_at, lost>>

\* The file is deleted, by the tool or another hand, or comes back; any other
\* change of a file that was to be deleted counts as its return.
handle_buffer_file_changed ==
  \/ /\ disk = "exists" /\ disk' = "deleted"
     /\ IF tracked.status \in {"created", "modified"}
        THEN tracked' = Untracked /\ Restarted
        ELSE UNCHANGED logVars
     /\ UNCHANGED <<bufferVars, git, auxVars>>
  \/ /\ disk = "deleted" \/ (disk = "exists" /\ tracked.status = "deleted")
     /\ disk' = "exists"
     /\ IF tracked.status = "deleted"
        THEN /\ tracked' = Read(buffer, version) /\ Restarted
             /\ ReadNow(buffer)
        ELSE UNCHANGED <<logVars, reviewed, approved, touched>>
     /\ UNCHANGED <<bufferVars, git, committed_at, lost>>

Subscribed == git_diff \in {"quiet", "changed"}

\* The user commits the file as it is in the buffer.
Committed ==
  /\ disk = "exists" /\ git # buffer
  /\ git' = buffer
  /\ IF Subscribed
     THEN /\ git_diff' = "changed" /\ committed_at' = version
          /\ reviewed' = reviewed \cup AgentRows(Rows, buffer)
     ELSE UNCHANGED <<git_diff, committed_at, reviewed>>
  /\ UNCHANGED <<bufferVars, disk, tracked, updates, task, approved, touched, lost>>

----------------------------------------------------------------------------
(* maintain_diff. *)

\* open_uncommitted_diff has ended.  What was committed before this is no news.
git_diff_opened ==
  /\ IsTracked /\ git_diff = "opening"
  /\ git_diff' \in {"off", "quiet"}
  /\ UNCHANGED <<bufferVars, disk, tracked, updates, task, git, auxVars>>

\* The base with those of the edits that overlap with none of the patch.
apply_non_conflicting_edits(patch, edits, base, text) ==
  Patched(base, UNION {E \in edits : \A H \in patch : E \cap H = {}}, text)

track_edits ==
  /\ git_diff # "opening" /\ task = Idle /\ updates # <<>>
  /\ LET update == Head(updates)
     IN  task' = [at |-> "diffing", snapshot |-> update.snapshot,
                  base |-> IF update.author = "user"
                           THEN apply_non_conflicting_edits(tracked.unreviewed_edits,
                                  Hunks(tracked.snapshot, update.snapshot),
                                  tracked.diff_base, update.snapshot)
                           ELSE tracked.diff_base]
  /\ updates' = Tail(updates)
  /\ UNCHANGED <<bufferVars, disk, tracked, git_diff, git, auxVars>>

\* Variant: a commit is not looked at.
CommittedBase_Ignored(t) == t.diff_base

\* The base with the unreviewed hunks that are committed just so.
CommittedBase(t) ==
  LET committed == Hunks(t.diff_base, git)
  IN  Patched(t.diff_base,
              UNION {H \in t.unreviewed_edits \cap committed : \A r \in H : git[r] = t.snapshot[r]},
              git)

\* (Updates of the buffer come first.)
keep_committed_edits ==
  /\ git_diff = "changed" /\ task = Idle /\ updates = <<>>
  /\ git_diff' = "quiet"
  /\ task' = [at |-> "diffing", snapshot |-> tracked.snapshot, base |-> CommittedBase(tracked)]
  /\ approved' = {p \in approved : task'.base[p[1]] = tracked.diff_base[p[1]]}
  /\ UNCHANGED <<bufferVars, disk, tracked, updates, git, reviewed, touched, committed_at, lost>>

\* Variant: the hunks are those of the base before.
update_diff_OldBase ==
  /\ task # Idle
  /\ tracked' = [tracked EXCEPT !.diff_base = task.base, !.snapshot = task.snapshot,
                   !.unreviewed_edits = Hunks(tracked.diff_base, task.snapshot)]
  /\ task' = Idle
  /\ UNCHANGED <<bufferVars, disk, updates, git_diff, git, auxVars>>

update_diff ==
  /\ task # Idle
  /\ tracked' = [tracked EXCEPT !.diff_base = task.base, !.snapshot = task.snapshot,
                   !.unreviewed_edits = Hunks(task.base, task.snapshot)]
  /\ task' = Idle
  /\ UNCHANGED <<bufferVars, disk, updates, git_diff, git, auxVars>>

----------------------------------------------------------------------------
(* The user's review. *)

\* A range meets a hunk that it overlaps, or that ends where it begins.
Meets(r, H) == r \in H \/ r - 1 \in H

\* The update under way will store the base it began with; those in the queue
\* may replace what is kept.
Kept(S) ==
  LET kept == AgentRows(S, tracked.snapshot)
      settled == {p \in kept : /\ task = Idle
                               /\ \A i \in DOMAIN updates : updates[i].snapshot[p[1]] = p[2]}
  IN  /\ reviewed' = reviewed \cup kept
      /\ approved' = {p \in approved : task # Idle \/ p[1] \notin S} \cup settled
      /\ touched' = IF task = Idle /\ updates = <<>> THEN touched \ S ELSE touched
      /\ UNCHANGED <<committed_at, lost>>

KeptDeletion ==
  /\ tracked.status = "deleted"
  /\ tracked' = Untracked /\ Restarted
  /\ UNCHANGED auxVars

\* Variant: the hunk leaves the list, the base stays.
keep_edits_in_range_BaseStays(row) ==
  LET met == {H \in tracked.unreviewed_edits : Meets(row, H)}
  IN  /\ IsTracked /\ tracked.unreviewed_edits # {} /\ Len(updates) < MaxUpdates
      /\ tracked.status # "deleted"
      /\ tracked' = [tracked EXCEPT !.unreviewed_edits = @ \ met]
      /\ updates' = Scheduled("user", buffer)
      /\ Kept(UNION met)
      /\ UNCHANGED <<taskVars, bufferVars, disk, git>>

keep_edits_in_range(row) ==
  LET met == {H \in tracked.unreviewed_edits : Meets(row, H)}
      left == tracked.unreviewed_edits \ met
  IN  /\ IsTracked /\ tracked.unreviewed_edits # {} /\ Len(updates) < MaxUpdates
      /\ \/ KeptDeletion
         \/ /\ tracked.status # "deleted"
            /\ tracked' = [tracked EXCEPT
                 !.unreviewed_edits = left,
                 !.diff_base = Patched(@, UNION met, tracked.snapshot),
                 !.status = IF left = {} THEN "modified" ELSE @]
            /\ updates' = Scheduled("user", buffer)
            /\ Kept(UNION met)
            /\ UNCHANGED taskVars
      /\ UNCHANGED <<bufferVars, disk, git>>

keep_all_edits ==
  /\ IsTracked /\ Len(updates) < MaxUpdates
  /\ \/ KeptDeletion
     \/ /\ tracked.status # "deleted"
        /\ tracked' = [tracked EXCEPT !.unreviewed_edits = {}, !.diff_base = tracked.snapshot,
                                      !.status = "modified"]
        /\ updates' = Scheduled("user", buffer)
        /\ Kept(Rows)
        /\ UNCHANGED taskVars
  /\ UNCHANGED <<bufferVars, disk, git>>

\* A created file is restored, deleted when all of it is the agent's, or left
\* alone.
CreationRejected ==
  LET ai_only == tracked.version = version /\ buffer = tracked.snapshot
      restored == tracked.existing # {}
  IN  /\ tracked.status = "created"
      /\ buffer' = IF restored THEN CHOOSE text \in tracked.existing : TRUE ELSE buffer
      /\ version' = IF restored THEN version + 1 ELSE version
      /\ disk' = IF restored THEN "exists"
                 ELSE IF ai_only /\ disk = "exists" THEN "deleted" ELSE disk
      /\ lost' = (lost \/ (disk' = "deleted" /\ disk = "exists"
                           /\ \E r \in Rows : buffer[r][1] = "user"))
      /\ tracked' = Untracked /\ Restarted
      /\ UNCHANGED <<reviewed, approved, touched, committed_at>>

DeletionRejected ==
  /\ tracked.status = "deleted"
  /\ buffer' = tracked.diff_base /\ version' = version + 1 /\ disk' = "exists"
  /\ tracked' = Read(buffer', version') /\ Restarted
  /\ ReadNow(buffer') /\ UNCHANGED <<committed_at, lost>>

HunksRejected(rejected) ==
  /\ tracked.status = "modified" /\ rejected # {}
  /\ buffer' = Patched(buffer, UNION rejected, tracked.diff_base)
  /\ version' = version + 1
  /\ updates' = Scheduled("user", buffer')
  /\ disk' = "exists"
  /\ UNCHANGED <<tracked, taskVars, auxVars>>

\* Of one range, or (reject_all_edits) of all.
reject_edits_in_ranges(rows) ==
  /\ IsTracked /\ tracked.unreviewed_edits # {} /\ EditsAllowed
  /\ \/ CreationRejected
     \/ DeletionRejected
     \/ HunksRejected({H \in tracked.unreviewed_edits : \E r \in rows : Meets(r, H)})
  /\ UNCHANGED git

Next ==
  \/ buffer_read \/ overwrite \/ Saved \/ will_delete_buffer
  \/ \E S \in Runs \cup {{}} : buffer_edited(S)
  \/ \E S \in Runs : handle_buffer_edited(S)
  \/ handle_buffer_file_changed \/ Committed
  \/ git_diff_opened \/ track_edits \/ keep_committed_edits \/ update_diff
  \/ \E r \in Rows : keep_edits_in_range(r) \/ reject_edits_in_ranges({r})
  \/ keep_all_edits \/ reject_edits_in_ranges(Rows)

Spec == Init /\ [][Next]_vars

----------------------------------------------------------------------------

\* All updates are taken in.
Quiesced == IsTracked /\ updates = <<>> /\ task = Idle

\* The diff then tells the truth: base and unreviewed edits make up the buffer.
DiffTrue ==
  Quiesced => /\ tracked.snapshot = buffer
              /\ tracked.unreviewed_edits = Hunks(tracked.diff_base, buffer)

\* No edit of the agent slips past the review.
AgentEditsUnreviewed ==
  Quiesced => \A p \in AgentRows(Rows, buffer) \ reviewed : tracked.diff_base[p[1]] # p[2]

\* The user is asked about nothing but the agent's rows, and his own edits
\* where they overlap with them.
OnlyAgentEditsUnreviewed == Quiesced => UNION tracked.unreviewed_edits \subseteq touched

\* What the user has kept is not asked about again, however his review and the
\* edits that go on interleave.  (Not so if an update under way stores the base
\* it began with, or replaces the row; nor if he rewrites the row himself, or a
\* later review or a commit replaces it in the base, and he then goes back to
\* the row as it was.)
KeptStaysKept ==
  Quiesced => \A p \in AgentRows(Rows, buffer) \cap approved : tracked.diff_base[p[1]] = p[2]

\* What is committed once maintain_diff has the diff of the repository need not
\* be reviewed, whatever updates and reviews were under way.  (What is committed
\* while it awaits that diff stays up for review.)
CommitsAreReviews ==
  Quiesced /\ git_diff # "changed" /\ committed_at = version => tracked.unreviewed_edits = {}

\* Rejecting a file the agent created deletes no text of the user.
UserTextKept == ~lost

=============================================================================

---------------------- MODULE ThreadPersistenceProofs ----------------------
(***************************************************************************)
(* Theorems about ThreadPersistence, for all threads, copies, numbers of   *)
(* changes, reloads and restarts: a row never goes back to an older state, *)
(* a thread without a save under way is on the disk as it last notified,   *)
(* and the history lists what is stored.                                   *)
(***************************************************************************)
EXTENDS ThreadPersistence, SequenceTheorems, TLAPS

\* A thread that was never created is nowhere.
OnlyBorn ==
  \A t \in Threads \ born :
    /\ rows[t] = Empty /\ threads[t] = Empty
    /\ \A c \in Copies : copies[c].thread = t => copies[c] = Closed
    /\ \A ix \in DOMAIN lists : lists[ix].rows[t] = Empty
    /\ \A o \in orphans : o.thread # t

\* Two copies of a thread, or an orphan, are known of.
Accounted ==
  /\ \A c, d \in Copies : c # d /\ copies[c].thread = copies[d].thread =>
       copies[c] = Closed \/ copies[d] = Closed \/ copies[c].thread \in disturbed
  /\ \A o \in orphans : o.thread \in disturbed

\* A save that is under way saves what the copy last notified.
SavesNewest ==
  \A c \in Copies : pending_save[c].at # "ready" => pending_save[c].state = copies[c].told

\* The only copy of a thread has seen what is on the disk, and shows it.
SeenRow ==
  \A c \in Copies :
    /\ copies[c].told \subseteq copies[c].state
    /\ copies[c].status \in {"loaded", "open"} =>
         rows[copies[c].thread] \subseteq copies[c].told \/ copies[c].thread \in disturbed

\* LatestSaved, of copies that are about to be opened as well.
SavedOrSaving ==
  \A c \in Copies :
    \/ copies[c].status \in {"closed", "loading"}
    \/ pending_save[c].at \in {"pending", "writing"}
    \/ rows[copies[c].thread] = copies[c].told
    \/ copies[c].thread \in unsaved \cup disturbed

IInv == TypeOK /\ OnlyBorn /\ Accounted /\ SavesNewest /\ SeenRow /\ SavedOrSaving

\* A reload of the history is still to come that will list t.
ToBeListed(t) ==
  \/ reloading > 0 \/ deleting[t] = "deleted"
  \/ \E c \in Copies : pending_save[c].at = "written" /\ copies[c].thread = t

\* Lists before one that is overtaken are overtaken.
OvertakenInOrder ==
  \A ix, jx \in DOMAIN lists : ix < jx /\ lists[jx].overtaken => lists[ix].overtaken

\* The last list is not overtaken: it will be shown in the end.
NewestComes == lists # <<>> /\ ~lists[Len(lists)].overtaken

Listed(t) ==
  IF NewestComes THEN lists[Len(lists)].rows[t] = rows[t]
  ELSE lists # <<>> \/ reordered \/ threads[t] = rows[t]

HInv == OvertakenInOrder /\ \A t \in Threads \ unlisted : ToBeListed(t) \/ Listed(t)

----------------------------------------------------------------------------
(* Sequences *)

\* One element less, the others in the same order.
LEMMA RemoveAtProperties ==
  ASSUME NEW S, NEW s \in Seq(S), NEW ix \in 1..Len(s)
  PROVE  /\ RemoveAt(s, ix) \in Seq(S) /\ Len(RemoveAt(s, ix)) = Len(s) - 1
         /\ \A jx \in 1..(Len(s) - 1) :
              RemoveAt(s, ix)[jx] = IF jx < ix THEN s[jx] ELSE s[jx + 1]
<1>. DEFINE a == SubSeq(s, 1, ix - 1)
            b == SubSeq(s, ix + 1, Len(s))
<1>1. Len(s) \in Nat /\ \A jx \in 1..Len(s) : s[jx] \in S
  BY LenProperties, ElementOfSeq
<1>2. /\ a \in Seq(S) /\ Len(a) = ix - 1
      /\ \A jx \in 1..(ix - 1) : a[jx] = s[jx]
  <2>1. \A jx \in 1..(ix - 1) : s[jx] \in S BY <1>1
  <2>2. /\ a \in Seq(S) /\ Len(a) = IF 1 <= ix - 1 THEN ix - 1 - 1 + 1 ELSE 0
        /\ \A jx \in 1..(ix - 1 - 1 + 1) : a[jx] = s[1 + jx - 1]
    BY <2>1, <1>1, SubSeqProperties
  <2>. QED BY <2>2, <1>1
<1>3. /\ b \in Seq(S) /\ Len(b) = Len(s) - ix
      /\ \A jx \in 1..(Len(s) - ix) : b[jx] = s[ix + jx]
  <2>1. \A jx \in (ix + 1)..Len(s) : s[jx] \in S BY <1>1
  <2>2. /\ b \in Seq(S) /\ Len(b) = IF ix + 1 <= Len(s) THEN Len(s) - (ix + 1) + 1 ELSE 0
        /\ \A jx \in 1..(Len(s) - (ix + 1) + 1) : b[jx] = s[ix + 1 + jx - 1]
    BY <2>1, <1>1, SubSeqProperties
  <2>. QED BY <2>2, <1>1
<1>4. RemoveAt(s, ix) = a \o b BY DEF RemoveAt
<1>. HIDE DEF a, b
<1>5. /\ a \o b \in Seq(S) /\ Len(a \o b) = Len(a) + Len(b)
      /\ \A jx \in 1..(Len(a) + Len(b)) :
           (a \o b)[jx] = IF jx <= Len(a) THEN a[jx] ELSE b[jx - Len(a)]
  BY <1>2, <1>3, ConcatProperties
<1>6. ASSUME NEW jx \in 1..(Len(s) - 1)
      PROVE  (a \o b)[jx] = IF jx < ix THEN s[jx] ELSE s[jx + 1]
  <2>1. CASE jx < ix BY <2>1, <1>1, <1>2, <1>3, <1>5
  <2>2. CASE ~(jx < ix)
    <3>1. (a \o b)[jx] = b[jx - Len(a)] BY <2>2, <1>1, <1>2, <1>3, <1>5
    <3>2. b[jx - Len(a)] = s[ix + (jx - Len(a))] BY <2>2, <1>1, <1>2, <1>3
    <3>. QED BY <2>2, <3>1, <3>2, <1>1, <1>2
  <2>. QED BY <2>1, <2>2
<1>. QED BY <1>1, <1>2, <1>3, <1>4, <1>5, <1>6

\* The lists that are left when one has arrived: those before it are overtaken.
LEMMA ListsLeft ==
  ASSUME lists \in Seq(Lists), NEW ix \in DOMAIN lists, ListArrives(ix)
  PROVE  /\ lists' \in Seq(Lists) /\ Len(lists') = Len(lists) - 1
         /\ \A jx \in 1..(Len(lists) - 1) :
              IF jx < ix
              THEN lists'[jx].rows = lists[jx].rows /\ lists'[jx].overtaken
              ELSE /\ lists'[jx].rows = lists[jx + 1].rows
                   /\ lists'[jx].overtaken <=> lists[jx + 1].overtaken
<1>. DEFINE marked == [jx \in DOMAIN lists |->
                         [lists[jx] EXCEPT !.overtaken = @ \/ jx < ix]]
<1>1. /\ Len(lists) \in Nat /\ DOMAIN lists = 1..Len(lists)
      /\ \A jx \in 1..Len(lists) : lists[jx] \in Lists
  BY LenProperties, ElementOfSeq
<1>2. marked \in [1..Len(lists) -> Lists]
  <2>1. ASSUME NEW jx \in 1..Len(lists), NEW b \in BOOLEAN
        PROVE  [lists[jx] EXCEPT !.overtaken = b] \in Lists
    BY <1>1 DEF Lists
  <2>2. \A jx \in 1..Len(lists) : (lists[jx].overtaken \/ jx < ix) \in BOOLEAN
    OBVIOUS
  <2>. QED BY <1>1, <2>1, <2>2
<1>3. marked \in Seq(Lists) /\ Len(marked) = Len(lists)
  BY <1>1, <1>2, LenProperties
<1>4. lists' = RemoveAt(marked, ix) BY DEF ListArrives
<1>5. ix \in 1..Len(marked) BY <1>1, <1>3
<1>6. \A jx \in 1..Len(lists) : marked[jx] = [lists[jx] EXCEPT !.overtaken = @ \/ jx < ix]
  BY <1>1
<1>. HIDE DEF marked
<1>7. /\ lists' \in Seq(Lists) /\ Len(lists') = Len(lists) - 1
      /\ \A jx \in 1..(Len(lists) - 1) :
           lists'[jx] = IF jx < ix THEN marked[jx] ELSE marked[jx + 1]
  BY <1>3, <1>4, <1>5, RemoveAtProperties
<1>8. ASSUME NEW jx \in 1..Len(lists)
      PROVE  /\ marked[jx].rows = lists[jx].rows
             /\ marked[jx].overtaken <=> lists[jx].overtaken \/ jx < ix
  <2>1. lists[jx] \in Lists BY <1>1
  <2>2. marked[jx] = [lists[jx] EXCEPT !.overtaken = lists[jx].overtaken \/ jx < ix]
    BY <1>6
  <2>. QED BY <2>1, <2>2, Zenon DEF Lists
<1>9. ASSUME NEW jx \in 1..(Len(lists) - 1)
      PROVE  jx \in 1..Len(lists) /\ jx + 1 \in 1..Len(lists) /\ (~(jx < ix) => ~(jx + 1 < ix))
  BY <1>1
<1>. QED BY <1>7, <1>8, <1>9

----------------------------------------------------------------------------
(* Types *)

LEMMA InitType == Init => TypeOK
<1>. SUFFICES ASSUME Init PROVE TypeOK OBVIOUS
<1>1. Empty \in States BY DEF Empty, States
<1>2. Unread \in [Threads -> States] BY <1>1 DEF Unread
<1>3. /\ Closed \in Sessions /\ Ready \in Saves
  BY <1>1 DEF Closed, Copy, Contents, Sessions, Ready, Saves
<1>4. lists \in Seq(Lists) /\ Len(lists) = 0 BY EmptySeq DEF Init
<1>5. reloading \in Nat /\ reloading + Len(lists) <= MaxReloads
  BY <1>4, BoundsAssumption DEF Init
<1>6. /\ copies \in [Copies -> Sessions] /\ pending_save \in [Copies -> Saves]
      /\ \A c \in Copies : copies[c] = Closed /\ pending_save[c] = Ready
  BY <1>3 DEF Init
<1>7. deleting \in [Threads -> {"no", "queued", "deleted"}] BY DEF Init
<1>8. changes \in 0..MaxChanges /\ quits \in 0..MaxQuits BY BoundsAssumption DEF Init
<1>9. rows \in [Threads -> States] /\ threads \in [Threads -> States] BY <1>2 DEF Init
<1>10. /\ orphans = {} /\ born = {} /\ disturbed = {} /\ unsaved = {} /\ unlisted = {}
       /\ reordered = FALSE
  BY DEF Init
<1>. QED BY <1>4, <1>5, <1>6, <1>7, <1>8, <1>9, <1>10 DEF TypeOK

\* What dropping a save leaves has its type.
LEMMA DroppedType ==
  ASSUME TypeOK, NEW c \in Copies, copies[c] # Closed, Dropped(c)
  PROVE  /\ orphans' \subseteq [thread : Threads, state : States]
         /\ disturbed' \subseteq Threads /\ unlisted' \subseteq Threads
BY DEF TypeOK, Dropped, Saves

\* A save that reloads the history, or a reload, keeps the bound.
LEMMA ReloadType ==
  ASSUME TypeOK, reload, UNCHANGED lists
  PROVE  reloading' \in Nat /\ lists' \in Seq(Lists) /\ reloading' + Len(lists') <= MaxReloads
<1>1. Len(lists) \in Nat BY LenProperties DEF TypeOK
<1>. QED BY <1>1, BoundsAssumption DEF TypeOK, reload

\* What a copy is after a change of its thread.
LEMMA ChangedCopy ==
  ASSUME TypeOK, NEW c \in Copies, Open(c), changes < MaxChanges,
         NEW contents \in Contents \cup {"same"}
  PROVE  /\ Changed(copies[c], contents) \in Sessions
         /\ Changed(copies[c], contents).status = "open"
         /\ Changed(copies[c], contents).thread = copies[c].thread
         /\ copies[c].state \subseteq Changed(copies[c], contents).state
         /\ Changed(copies[c], contents).told = copies[c].told
<1>1. copies[c] \in Sessions /\ copies[c].status = "open"
  BY DEF TypeOK, Open
<1>2. changes + 1 \in Changes
  BY BoundsAssumption DEF TypeOK, Changes
<1>3. copies[c].state \cup {changes + 1} \in States
  BY <1>1, <1>2 DEF States, Sessions
<1>. QED BY <1>1, <1>3 DEF Changed, Sessions

\* What a notification, or a change without one, does to the copy and its save.
LEMMA ChangeSteps ==
  ASSUME TypeOK, NEW c \in Copies, NEW contents \in Contents \cup {"same"},
         Notified(c, contents) \/ (contents # "same" /\ Unnotified(c, contents))
  PROVE  /\ copies' \in [Copies -> Sessions]
         /\ copies[c].status = "open" /\ copies'[c].status = "open"
         /\ copies[c].thread \in Threads /\ copies'[c].thread = copies[c].thread
         /\ copies[c].state \subseteq copies'[c].state
         /\ \A d \in Copies \ {c} : copies'[d] = copies[d] /\ pending_save'[d] = pending_save[d]
         /\ \/ /\ copies'[c].told = copies[c].told
               /\ UNCHANGED <<pending_save, orphans, disturbed, unlisted>>
            \/ /\ copies'[c].told = copies'[c].state
               /\ pending_save'[c] = Save("pending", copies'[c].state)
               /\ pending_save' \in [Copies -> Saves]
               /\ Dropped(c)
         /\ changes' \in 0..MaxChanges
         /\ UNCHANGED <<rows, historyVars, born, quits, unsaved>>
<1>. DEFINE copy == Changed(copies[c], contents)
<1>1. /\ Open(c) /\ changes < MaxChanges /\ changes' = changes + 1
      /\ UNCHANGED <<rows, historyVars, born, quits, unsaved>>
  BY DEF Notified, Unnotified
<1>2. /\ copy \in Sessions /\ copy.status = "open" /\ copy.thread = copies[c].thread
      /\ copies[c].state \subseteq copy.state /\ copy.told = copies[c].told
  BY <1>1, ChangedCopy
<1>3. copies[c].status = "open" /\ copies[c].thread \in Threads
  BY <1>1 DEF TypeOK, Open, Closed, Copy
<1>4. changes' \in 0..MaxChanges
  BY <1>1, BoundsAssumption DEF TypeOK
<1>5. \/ /\ copies' = [copies EXCEPT ![c] = copy]
         /\ UNCHANGED <<pending_save, orphans, disturbed, unlisted>>
      \/ /\ copies' = [copies EXCEPT ![c] = [copy EXCEPT !.told = copy.state]]
         /\ Dropped(c)
         /\ pending_save' = [pending_save EXCEPT ![c] = Save("pending", copy.state)]
  BY DEF Notified, Unnotified
<1>. HIDE DEF copy
<1>6. [copy EXCEPT !.told = copy.state] \in Sessions
  BY <1>2 DEF Sessions
<1>7. Save("pending", copy.state) \in Saves
  BY <1>2 DEF Save, Saves, Sessions
<1>8. CASE /\ copies' = [copies EXCEPT ![c] = copy]
           /\ UNCHANGED <<pending_save, orphans, disturbed, unlisted>>
  BY <1>1, <1>2, <1>3, <1>4, <1>8 DEF TypeOK
<1>9. CASE /\ copies' = [copies EXCEPT ![c] = [copy EXCEPT !.told = copy.state]]
           /\ Dropped(c)
           /\ pending_save' = [pending_save EXCEPT ![c] = Save("pending", copy.state)]
  <2>1. /\ copies' \in [Copies -> Sessions] /\ pending_save' \in [Copies -> Saves]
        /\ \A d \in Copies \ {c} : copies'[d] = copies[d] /\ pending_save'[d] = pending_save[d]
        /\ copies'[c] = [copy EXCEPT !.told = copy.state]
        /\ pending_save'[c] = Save("pending", copy.state)
    BY <1>6, <1>7, <1>9 DEF TypeOK
  <2>2. /\ copies'[c].status = "open" /\ copies'[c].thread = copies[c].thread
        /\ copies'[c].state = copy.state /\ copies'[c].told = copy.state
    BY <1>2, <2>1 DEF Sessions
  <2>. QED BY <1>1, <1>2, <1>3, <1>4, <1>9, <2>1, <2>2
<1>. QED BY <1>5, <1>8, <1>9

LEMMA ChangeType ==
  ASSUME TypeOK, NEW c \in Copies, NEW contents \in Contents \cup {"same"},
         Notified(c, contents) \/ (contents # "same" /\ Unnotified(c, contents))
  PROVE  TypeOK'
<1>1. copies[c] # Closed BY ChangeSteps DEF Closed, Copy
<1>2. /\ copies' \in [Copies -> Sessions] /\ pending_save' \in [Copies -> Saves]
      /\ \A d \in Copies \ {c} : copies'[d] = copies[d] /\ pending_save'[d] = pending_save[d]
      /\ copies'[c].status = "open" /\ copies'[c].thread \in Threads
  BY ChangeSteps DEF TypeOK
<1>3. /\ orphans' \subseteq [thread : Threads, state : States]
      /\ disturbed' \subseteq Threads /\ unlisted' \subseteq Threads
  BY <1>1, ChangeSteps, DroppedType DEF TypeOK
<1>4. \A d \in Copies :
        /\ copies'[d] = Closed \/ (copies'[d].status # "closed" /\ copies'[d].thread \in Threads)
        /\ copies'[d].status = "open" \/ pending_save'[d] = Ready
  BY <1>2 DEF TypeOK, Open
<1>5. changes' \in 0..MaxChanges /\ UNCHANGED <<rows, historyVars, born, quits, unsaved>>
  BY ChangeSteps
<1>. QED BY <1>2, <1>3, <1>4, <1>5 DEF TypeOK, Open, historyVars

LEMMA SavingType ==
  ASSUME TypeOK, NEW c \in Copies, WriteStarts(c) \/ WriteEnds(c) \/ SaveOver(c)
  PROVE  TypeOK'
<1>1. CASE WriteStarts(c)
  BY <1>1 DEF WriteStarts, TypeOK, Saves, Open, Ready, historyVars, countVars
<1>2. CASE WriteEnds(c)
  <2>1. copies[c].thread \in Threads /\ Open(c)
    BY <1>2 DEF TypeOK, WriteEnds, Ready, Open, Closed, Copy
  <2>2. rows' \in [Threads -> States] /\ unsaved' \subseteq Threads
    BY <1>2, <2>1 DEF TypeOK, WriteEnds, Stored, Saves
  <2>3. /\ pending_save' \in [Copies -> Saves]
        /\ \A d \in Copies : Open(d) \/ pending_save'[d] = Ready
    BY <1>2, <2>1 DEF TypeOK, WriteEnds, Saves
  <2>. QED BY <1>2, <2>2, <2>3 DEF WriteEnds, TypeOK, Open, historyVars, countVars
<1>3. CASE SaveOver(c)
  <2>1. Ready \in Saves BY DEF Ready, Saves, Empty, States
  <2>2. /\ pending_save' \in [Copies -> Saves]
        /\ \A d \in Copies : Open(d) \/ pending_save'[d] = Ready
    BY <1>3, <2>1 DEF TypeOK, SaveOver
  <2>3. reloading' \in Nat /\ lists' \in Seq(Lists) /\ reloading' + Len(lists') <= MaxReloads
    BY <1>3, ReloadType DEF SaveOver
  <2>. QED BY <1>3, <2>2, <2>3 DEF SaveOver, TypeOK, Open, countVars
<1>. QED BY <1>1, <1>2, <1>3

LEMMA SessionType ==
  ASSUME TypeOK, NEW c \in Copies,
         \/ load_thread(c) \/ Registered(c) \/ Release(c)
         \/ \E t \in Threads : new_thread(c, t) \/ open_thread(c, t)
  PROVE  TypeOK'
<1>1. Empty \in States /\ Closed \in Sessions /\ Ready \in Saves
  BY DEF Closed, Copy, Contents, Sessions, Ready, Saves, Empty, States
<1>2. CASE load_thread(c)
  <2>1. copies[c].thread \in Threads /\ ~Open(c)
    BY <1>2 DEF TypeOK, load_thread, Closed, Copy, Open
  <2>2. Copy("loaded", copies[c].thread, rows[copies[c].thread], "titled") \in Sessions
    BY <2>1 DEF Copy, Contents, Sessions, TypeOK
  <2>3. /\ copies' \in [Copies -> Sessions] /\ \A d \in Copies \ {c} : copies'[d] = copies[d]
        /\ copies'[c] = Closed \/ (copies'[c].status # "closed" /\ copies'[c].thread \in Threads)
    BY <1>1, <1>2, <2>1, <2>2 DEF TypeOK, load_thread, Copy
  <2>. QED BY <1>2, <2>1, <2>3 DEF load_thread, TypeOK, Open, historyVars, countVars
<1>3. CASE Registered(c)
  <2>1. /\ copies[c] \in Sessions /\ copies[c].thread \in Threads
        /\ copies' = [copies EXCEPT ![c].status = "open"]
    BY <1>3 DEF Registered, TypeOK, Closed, Copy
  <2>2. /\ [copies[c] EXCEPT !.status = "open"] \in Sessions
        /\ [copies[c] EXCEPT !.status = "open"].status = "open"
        /\ [copies[c] EXCEPT !.status = "open"].thread = copies[c].thread
    BY <2>1 DEF Sessions
  <2>3. /\ copies' \in [Copies -> Sessions] /\ \A d \in Copies \ {c} : copies'[d] = copies[d]
        /\ copies'[c].status = "open" /\ copies'[c].thread \in Threads
    BY <2>1, <2>2 DEF TypeOK
  <2>. QED BY <1>3, <2>3 DEF Registered, TypeOK, Open, historyVars, countVars
<1>4. CASE Release(c)
  <2>1. /\ orphans' \subseteq [thread : Threads, state : States]
        /\ disturbed' \subseteq Threads /\ unlisted' \subseteq Threads
    BY <1>4, DroppedType DEF Release
  <2>. QED BY <1>1, <1>4, <2>1 DEF Release, TypeOK, Open, historyVars, countVars
<1>5. ASSUME NEW t \in Threads, new_thread(c, t) \/ open_thread(c, t) PROVE TypeOK'
  <2>1. \A st \in {"open", "loading"} :
          /\ Copy(st, t, Empty, "empty") \in Sessions /\ Copy(st, t, Empty, "empty").thread = t
          /\ Copy(st, t, Empty, "empty").status = st
    BY <1>1 DEF Copy, Contents, Sessions
  <2>2. PICK st \in {"open", "loading"} : copies' = [copies EXCEPT ![c] = Copy(st, t, Empty, "empty")]
    BY <1>5 DEF new_thread, open_thread
  <2>3. /\ copies' \in [Copies -> Sessions] /\ \A d \in Copies \ {c} : copies'[d] = copies[d]
        /\ copies'[c].status # "closed" /\ copies'[c].thread \in Threads
    BY <2>1, <2>2 DEF TypeOK
  <2>4. ~Open(c) BY <1>5 DEF new_thread, open_thread, Closed, Copy, Open
  <2>5. born' \subseteq Threads /\ disturbed' \subseteq Threads
    BY <1>5 DEF new_thread, open_thread, Disturbed, TypeOK, countVars
  <2>6. UNCHANGED <<rows, pending_save, orphans, historyVars, changes, quits, unsaved, unlisted>>
    BY <1>5 DEF new_thread, open_thread, countVars
  <2>. QED BY <2>3, <2>4, <2>5, <2>6 DEF TypeOK, Open, historyVars
<1>. QED BY <1>2, <1>3, <1>4, <1>5

LEMMA HistoryType ==
  ASSUME TypeOK,
         \/ \E o \in orphans : OrphanWritten(o)
         \/ \E t \in Threads : delete_thread(t) \/ RowDeleted(t) \/ DeleteOver(t)
         \/ list_threads \/ ListFails \/ \E ix \in DOMAIN lists : ListArrives(ix)
         \/ Quit
  PROVE  TypeOK'
<1>1. ASSUME NEW o \in orphans, OrphanWritten(o) PROVE TypeOK'
  BY <1>1 DEF OrphanWritten, Stored, TypeOK, Open, historyVars, countVars
<1>2. ASSUME NEW t \in Threads, delete_thread(t) PROVE TypeOK'
  BY <1>2 DEF delete_thread, TypeOK, Open, countVars
<1>3. ASSUME NEW t \in Threads, RowDeleted(t) PROVE TypeOK'
  <2>1. Empty \in States BY DEF Empty, States
  <2>2. /\ rows' \in [Threads -> States] /\ unsaved' \subseteq Threads
        /\ deleting' \in [Threads -> {"no", "queued", "deleted"}]
    BY <1>3, <2>1 DEF TypeOK, RowDeleted
  <2>. QED BY <1>3, <2>2 DEF RowDeleted, TypeOK, Open, countVars
<1>4. ASSUME NEW t \in Threads, DeleteOver(t) PROVE TypeOK'
  <2>1. reloading' \in Nat /\ lists' \in Seq(Lists) /\ reloading' + Len(lists') <= MaxReloads
    BY <1>4, ReloadType DEF DeleteOver
  <2>. QED BY <1>4, <2>1 DEF DeleteOver, TypeOK, Open, countVars
<1>5. CASE list_threads
  <2>1. [rows |-> rows, overtaken |-> FALSE] \in Lists BY DEF TypeOK, Lists
  <2>2. lists' \in Seq(Lists) /\ Len(lists') = Len(lists) + 1
    BY <1>5, <2>1 DEF TypeOK, list_threads
  <2>3. Len(lists) \in Nat BY LenProperties DEF TypeOK
  <2>4. reloading' \in Nat /\ reloading' + Len(lists') <= MaxReloads
    BY <1>5, <2>2, <2>3, BoundsAssumption DEF TypeOK, list_threads
  <2>. QED BY <1>5, <2>2, <2>4 DEF list_threads, TypeOK, Open, countVars
<1>6. CASE ListFails
  <2>1. Len(lists) \in Nat BY LenProperties DEF TypeOK
  <2>2. reloading' \in Nat /\ reloading' + Len(lists) <= MaxReloads
    BY <1>6, <2>1, BoundsAssumption DEF TypeOK, ListFails
  <2>. QED BY <1>6, <2>2 DEF ListFails, TypeOK, Open, countVars
<1>7. ASSUME NEW ix \in DOMAIN lists, ListArrives(ix) PROVE TypeOK'
  <2>1. Len(lists) \in Nat /\ lists[ix] \in Lists
    BY LenProperties, ElementOfSeq DEF TypeOK
  <2>2. lists' \in Seq(Lists) /\ Len(lists') = Len(lists) - 1
    BY <1>7, ListsLeft DEF TypeOK
  <2>3. threads' \in [Threads -> States] /\ reordered' \in BOOLEAN
    BY <1>7, <2>1 DEF ListArrives, Lists
  <2>4. reloading' \in Nat /\ reloading' + Len(lists') <= MaxReloads
    BY <1>7, <2>1, <2>2, BoundsAssumption DEF TypeOK, ListArrives
  <2>. QED BY <1>7, <2>2, <2>3, <2>4 DEF ListArrives, TypeOK, Open, countVars
<1>8. CASE Quit
  <2>1. Empty \in States /\ Closed \in Sessions /\ Ready \in Saves
    BY DEF Closed, Copy, Contents, Sessions, Ready, Saves, Empty, States
  <2>2. threads' \in [Threads -> States] BY <1>8, <2>1 DEF Quit, Unread
  <2>3. reloading' \in Nat /\ lists' \in Seq(Lists) /\ reloading' + Len(lists') <= MaxReloads
    BY <1>8, EmptySeq, BoundsAssumption DEF Quit
  <2>4. quits' \in 0..MaxQuits BY <1>8, BoundsAssumption DEF Quit, TypeOK
  <2>5. /\ copies' \in [Copies -> Sessions] /\ pending_save' \in [Copies -> Saves]
        /\ \A c \in Copies : copies'[c] = Closed /\ pending_save'[c] = Ready
    BY <1>8, <2>1 DEF Quit
  <2>6. deleting' \in [Threads -> {"no", "queued", "deleted"}] BY <1>8 DEF Quit
  <2>. QED BY <1>8, <2>2, <2>3, <2>4, <2>5, <2>6 DEF Quit, TypeOK
<1>. QED BY <1>1, <1>2, <1>3, <1>4, <1>5, <1>6, <1>7, <1>8

LEMMA StutterType == TypeOK /\ UNCHANGED vars => TypeOK'
BY DEF TypeOK, vars, historyVars, countVars, Open

LEMMA TypeStep == TypeOK /\ [Next]_vars => TypeOK'
<1>1. ASSUME TypeOK, NEW c \in Copies,
             \/ \E contents \in Contents : Notified(c, contents) \/ Unnotified(c, contents)
             \/ Notified(c, "same")
      PROVE  TypeOK'
  BY <1>1, ChangeType DEF Contents
<1>. QED BY <1>1, SavingType, SessionType, HistoryType, StutterType DEF Next

\* TypeOK: what the sessions, the saves under way, the database and the history
\* hold has its type, and only a thread that is open is being saved.
THEOREM TypeCorrect == Spec => []TypeOK
BY InitType, TypeStep, PTL DEF Spec

----------------------------------------------------------------------------
(* What the disk has *)

\* What one copy knows, by itself and against the disk.
CopyInv(c) ==
  /\ pending_save[c].at # "ready" => pending_save[c].state = copies[c].told
  /\ copies[c].told \subseteq copies[c].state
  /\ copies[c].status \in {"loaded", "open"} =>
       \/ rows[copies[c].thread] \subseteq copies[c].told
       \/ copies[c].thread \in disturbed
  /\ \/ copies[c].status \in {"closed", "loading"}
     \/ pending_save[c].at \in {"pending", "writing"}
     \/ rows[copies[c].thread] = copies[c].told
     \/ copies[c].thread \in unsaved \cup disturbed

LEMMA CopyInvs == SavesNewest /\ SeenRow /\ SavedOrSaving <=> \A c \in Copies : CopyInv(c)
BY DEF SavesNewest, SeenRow, SavedOrSaving, CopyInv

\* A copy whose own state, save and row stay keeps what it knows.
LEMMA Untouched ==
  ASSUME NEW c \in Copies, CopyInv(c), disturbed \subseteq disturbed',
         copies'[c] = copies[c], pending_save'[c] = pending_save[c],
         copies[c].status \in {"closed", "loading"} \/
           \/ copies[c].thread \in disturbed'
           \/ /\ rows'[copies[c].thread] = rows[copies[c].thread]
              /\ copies[c].thread \in unsaved => copies[c].thread \in unsaved'
           \/ rows'[copies[c].thread] = Empty /\ copies[c].thread \in unsaved'
  PROVE  CopyInv(c)'
BY DEF CopyInv, Empty

\* Dropping a save adds to what is disturbed, and accounts for the orphan.
LEMMA DroppedAccounted ==
  ASSUME TypeOK, OnlyBorn, Accounted, NEW c \in Copies, copies[c] # Closed, Dropped(c)
  PROVE  /\ disturbed \subseteq disturbed'
         /\ \A o \in orphans' : o.thread \in disturbed' /\ o.thread \in born
BY DEF Dropped, Accounted, OnlyBorn, TypeOK

LEMMA InitDisk == Init => IInv
<1>. SUFFICES ASSUME Init PROVE IInv OBVIOUS
<1>1. TypeOK BY InitType
<1>2. \A c \in Copies : copies[c] = Closed /\ pending_save[c] = Ready BY DEF Init
<1>3. OnlyBorn BY <1>2 DEF Init, OnlyBorn, Unread
<1>4. Accounted BY <1>2 DEF Init, Accounted
<1>5. \A c \in Copies : CopyInv(c) BY <1>2 DEF CopyInv, Closed, Copy, Ready
<1>. QED BY <1>1, <1>3, <1>4, <1>5, CopyInvs DEF IInv

LEMMA ChangeDisk ==
  ASSUME IInv, NEW c \in Copies, NEW contents \in Contents \cup {"same"},
         Notified(c, contents) \/ (contents # "same" /\ Unnotified(c, contents))
  PROVE  OnlyBorn' /\ Accounted' /\ SavesNewest' /\ SeenRow' /\ SavedOrSaving'
<1>1. /\ copies[c].status = "open" /\ copies'[c].status = "open"
      /\ copies'[c].thread = copies[c].thread /\ copies[c].state \subseteq copies'[c].state
      /\ \A d \in Copies \ {c} : copies'[d] = copies[d] /\ pending_save'[d] = pending_save[d]
  BY ChangeSteps DEF IInv
<1>2. copies[c] # Closed /\ copies'[c] # Closed
  BY <1>1 DEF Closed, Copy
<1>3. \/ /\ copies'[c].told = copies[c].told
         /\ UNCHANGED <<pending_save, orphans, disturbed, unlisted>>
      \/ /\ copies'[c].told = copies'[c].state
         /\ pending_save'[c] = Save("pending", copies'[c].state)
         /\ Dropped(c)
  BY ChangeSteps DEF IInv
<1>4. UNCHANGED <<rows, threads, lists, born, unsaved>>
  BY ChangeSteps DEF IInv, historyVars
<1>5. /\ disturbed \subseteq disturbed'
      /\ \A o \in orphans' : o.thread \in disturbed' /\ o.thread \in born
  BY <1>2, <1>3, DroppedAccounted DEF IInv, Accounted, OnlyBorn, TypeOK
<1>6. OnlyBorn'
  BY <1>1, <1>2, <1>4, <1>5 DEF IInv, OnlyBorn
<1>7. \A d \in Copies : copies'[d].thread = copies[d].thread /\ (copies'[d] = Closed <=> copies[d] = Closed)
  BY <1>1, <1>2
<1>8. Accounted' BY <1>5, <1>7 DEF IInv, Accounted
<1>9. CopyInv(c)'
  <2>1. CopyInv(c) BY CopyInvs DEF IInv
  <2>2. CASE copies'[c].told = copies[c].told /\ UNCHANGED <<pending_save, orphans, disturbed, unlisted>>
    BY <2>1, <2>2, <1>1, <1>4 DEF CopyInv
  <2>3. CASE copies'[c].told = copies'[c].state /\ pending_save'[c] = Save("pending", copies'[c].state)
    <3>1. pending_save'[c].at = "pending" /\ pending_save'[c].state = copies'[c].told
      BY <2>3 DEF Save
    <3>. QED BY <2>1, <2>3, <3>1, <1>1, <1>4, <1>5 DEF CopyInv
  <2>. QED BY <2>2, <2>3, <1>3
<1>10. ASSUME NEW d \in Copies \ {c} PROVE CopyInv(d)'
  <2>1. CopyInv(d) BY CopyInvs DEF IInv
  <2>. QED BY <2>1, <1>1, <1>4, <1>5, Untouched
<1>11. (SavesNewest /\ SeenRow /\ SavedOrSaving)' <=> \A d \in Copies : CopyInv(d)'
  BY DEF SavesNewest, SeenRow, SavedOrSaving, CopyInv
<1>. QED BY <1>6, <1>8, <1>9, <1>10, <1>11

LEMMA SavingDisk ==
  ASSUME IInv, NEW c \in Copies, WriteStarts(c) \/ WriteEnds(c) \/ SaveOver(c)
  PROVE  OnlyBorn' /\ Accounted' /\ SavesNewest' /\ SeenRow' /\ SavedOrSaving'
<1>. DEFINE t == copies[c].thread
<1>1. UNCHANGED <<copies, orphans, threads, lists, born, disturbed>>
  BY DEF WriteStarts, WriteEnds, SaveOver, historyVars, countVars
<1>2. t \in Threads /\ Open(c) /\ copies[c] # Closed
  BY DEF IInv, TypeOK, WriteStarts, WriteEnds, SaveOver, Ready, Open, Closed, Copy
<1>3. Accounted' BY <1>1 DEF IInv, Accounted
<1>4. \A u \in Threads \ {t} : rows'[u] = rows[u] /\ (u \in unsaved => u \in unsaved')
  BY <1>2 DEF IInv, TypeOK, WriteStarts, WriteEnds, SaveOver, Stored
<1>5. t \in born BY <1>2 DEF IInv, OnlyBorn
<1>6. OnlyBorn' BY <1>1, <1>4, <1>5 DEF IInv, OnlyBorn
<1>7. /\ pending_save' = [pending_save EXCEPT ![c] = pending_save'[c]]
      /\ \A d \in Copies \ {c} : pending_save'[d] = pending_save[d]
  BY DEF IInv, TypeOK, WriteStarts, WriteEnds, SaveOver
<1>8. CopyInv(c) BY CopyInvs DEF IInv
<1>9. CopyInv(c)'
  <2>1. CASE WriteStarts(c)
    BY <2>1, <1>1, <1>8 DEF WriteStarts, CopyInv, IInv, TypeOK, Saves
  <2>2. CASE SaveOver(c)
    BY <2>2, <1>1, <1>8 DEF SaveOver, CopyInv, Ready, IInv, TypeOK
  <2>3. CASE WriteEnds(c)
    <3>1. /\ pending_save[c].at = "writing" /\ pending_save'[c].state = pending_save[c].state
          /\ pending_save'[c].at = "written" /\ pending_save[c].state = copies[c].told
      BY <2>3, <1>8 DEF WriteEnds, CopyInv, IInv, TypeOK, Saves
    <3>2. \/ rows'[t] = pending_save[c].state
          \/ rows'[t] = rows[t] /\ t \in unsaved'
      BY <2>3, <1>2 DEF WriteEnds, Stored, IInv, TypeOK
    <3>. QED BY <3>1, <3>2, <1>1, <1>8 DEF CopyInv
  <2>. QED BY <2>1, <2>2, <2>3
<1>10. ASSUME NEW d \in Copies \ {c} PROVE CopyInv(d)'
  <2>1. CopyInv(d) BY CopyInvs DEF IInv
  <2>2. CASE copies[d] = Closed
    BY <2>1, <2>2, <1>1, <1>7, Untouched DEF Closed, Copy
  <2>3. CASE copies[d] # Closed
    <3>1. copies[d].thread \in Threads BY <2>3 DEF IInv, TypeOK
    <3>2. copies[d].thread # t \/ t \in disturbed BY <2>3, <1>2 DEF IInv, Accounted
    <3>. QED BY <2>1, <3>1, <3>2, <1>1, <1>4, <1>7, Untouched
  <2>. QED BY <2>2, <2>3
<1>11. (SavesNewest /\ SeenRow /\ SavedOrSaving)' <=> \A d \in Copies : CopyInv(d)'
  BY DEF SavesNewest, SeenRow, SavedOrSaving, CopyInv
<1>. QED BY <1>3, <1>6, <1>9, <1>10, <1>11

LEMMA SessionDisk ==
  ASSUME IInv, NEW c \in Copies, load_thread(c) \/ Registered(c) \/ Release(c)
  PROVE  OnlyBorn' /\ Accounted' /\ SavesNewest' /\ SeenRow' /\ SavedOrSaving'
<1>. DEFINE t == copies[c].thread
<1>1. UNCHANGED <<rows, threads, lists, born, unsaved>>
  BY DEF load_thread, Registered, Release, historyVars, countVars
<1>2. copies[c] # Closed /\ t \in Threads /\ copies[c] \in Sessions
  BY DEF IInv, TypeOK, load_thread, Registered, Release, Closed, Copy
<1>3. /\ \A d \in Copies \ {c} : copies'[d] = copies[d] /\ pending_save'[d] = pending_save[d]
      /\ copies'[c] = Closed \/ copies'[c].thread = t
  BY <1>2 DEF IInv, TypeOK, load_thread, Registered, Release, Copy, Sessions
<1>4. /\ disturbed \subseteq disturbed'
      /\ \A o \in orphans' : o.thread \in disturbed' /\ o.thread \in born
  BY <1>2, DroppedAccounted
     DEF IInv, Accounted, OnlyBorn, TypeOK, load_thread, Registered, Release
<1>5. OnlyBorn' BY <1>1, <1>2, <1>3, <1>4 DEF IInv, OnlyBorn
<1>6. Accounted' BY <1>2, <1>3, <1>4 DEF IInv, Accounted
<1>7. CopyInv(c) BY CopyInvs DEF IInv
<1>8. CopyInv(c)'
  <2>1. CASE load_thread(c)
    <3>1. pending_save[c] = Ready /\ pending_save'[c] = Ready
      BY <2>1 DEF load_thread, IInv, TypeOK, Open
    <3>2. copies'[c] = Closed \/ copies'[c] = Copy("loaded", t, rows[t], "titled")
      BY <2>1 DEF load_thread, IInv, TypeOK
    <3>. QED BY <1>1, <3>1, <3>2 DEF CopyInv, Closed, Copy, Ready
  <2>2. CASE Registered(c)
    <3>1. /\ copies[c].status = "loaded" /\ copies'[c].status = "open"
          /\ copies'[c].thread = t /\ copies'[c].state = copies[c].state
          /\ copies'[c].told = copies[c].told
          /\ pending_save'[c] = pending_save[c]
      BY <2>2, <1>2 DEF Registered, IInv, TypeOK, Sessions
    <3>. QED BY <1>1, <1>4, <1>7, <3>1 DEF CopyInv
  <2>3. CASE Release(c)
    <3>1. copies'[c] = Closed /\ pending_save'[c] = Ready
      BY <2>3 DEF Release, IInv, TypeOK
    <3>. QED BY <3>1 DEF CopyInv, Closed, Copy, Ready
  <2>. QED BY <2>1, <2>2, <2>3
<1>9. ASSUME NEW d \in Copies \ {c} PROVE CopyInv(d)'
  <2>1. CopyInv(d) BY CopyInvs DEF IInv
  <2>. QED BY <2>1, <1>1, <1>3, <1>4, Untouched
<1>10. (SavesNewest /\ SeenRow /\ SavedOrSaving)' <=> \A d \in Copies : CopyInv(d)'
  BY DEF SavesNewest, SeenRow, SavedOrSaving, CopyInv
<1>. QED BY <1>5, <1>6, <1>8, <1>9, <1>10

LEMMA OpeningDisk ==
  ASSUME IInv, NEW c \in Copies, NEW t \in Threads, new_thread(c, t) \/ open_thread(c, t)
  PROVE  OnlyBorn' /\ Accounted' /\ SavesNewest' /\ SeenRow' /\ SavedOrSaving'
<1>1. UNCHANGED <<rows, pending_save, orphans, threads, lists, unsaved>>
  BY DEF new_thread, open_thread, historyVars, countVars
<1>2. copies[c] = Closed /\ pending_save[c] = Ready
  BY DEF new_thread, open_thread, IInv, TypeOK, Open, Closed, Copy
<1>3. PICK st \in {"open", "loading"} :
        copies' = [copies EXCEPT ![c] = Copy(st, t, Empty, "empty")] /\ (st = "open" => new_thread(c, t))
  BY DEF new_thread, open_thread
<1>4. /\ copies'[c] = Copy(st, t, Empty, "empty") /\ copies'[c].status = st /\ copies'[c].thread = t
      /\ copies'[c].state = Empty /\ copies'[c].told = Empty /\ copies'[c] # Closed
      /\ \A d \in Copies \ {c} : copies'[d] = copies[d]
  BY <1>3 DEF IInv, TypeOK, Copy, Closed
<1>5. t \in born' /\ born \subseteq born' /\ born' \subseteq born \cup {t}
  BY DEF new_thread, open_thread, IInv, OnlyBorn, countVars
<1>6. disturbed \subseteq disturbed' BY DEF new_thread, open_thread, Disturbed
<1>7. OnlyBorn' BY <1>1, <1>4, <1>5 DEF IInv, OnlyBorn
<1>8. ASSUME NEW d \in Copies \ {c}, copies[d].thread = t, copies[d] # Closed
      PROVE  t \in disturbed'
  <2>1. ~new_thread(c, t) BY <1>8 DEF new_thread, IInv, OnlyBorn
  <2>2. d \in Held(t) BY <1>8 DEF Held
  <2>. QED BY <2>1, <2>2 DEF open_thread, Disturbed
<1>9. Accounted' BY <1>1, <1>4, <1>6, <1>8 DEF IInv, Accounted
<1>10. CopyInv(c)'
  <2>1. CASE st = "loading" BY <2>1, <1>1, <1>2, <1>4 DEF CopyInv, Ready
  <2>2. CASE st = "open"
    <3>1. rows[t] = Empty BY <2>2, <1>3 DEF new_thread, IInv, OnlyBorn
    <3>. QED BY <3>1, <1>1, <1>2, <1>4 DEF CopyInv, Ready
  <2>. QED BY <2>1, <2>2
<1>11. ASSUME NEW d \in Copies \ {c} PROVE CopyInv(d)'
  <2>1. CopyInv(d) BY CopyInvs DEF IInv
  <2>. QED BY <2>1, <1>1, <1>4, <1>6, Untouched
<1>12. (SavesNewest /\ SeenRow /\ SavedOrSaving)' <=> \A d \in Copies : CopyInv(d)'
  BY DEF SavesNewest, SeenRow, SavedOrSaving, CopyInv
<1>. QED BY <1>7, <1>9, <1>10, <1>11, <1>12

\* Orphans and deletions: the row changes under the copies.
LEMMA RowDisk ==
  ASSUME IInv, NEW t \in Threads,
         \/ \E o \in orphans : o.thread = t /\ OrphanWritten(o)
         \/ RowDeleted(t)
  PROVE  OnlyBorn' /\ Accounted' /\ SavesNewest' /\ SeenRow' /\ SavedOrSaving'
<1>1. UNCHANGED <<copies, pending_save, threads, lists, born, disturbed>>
  BY DEF OrphanWritten, RowDeleted, historyVars, countVars
<1>2. orphans' \subseteq orphans BY DEF OrphanWritten, RowDeleted
<1>3. \A u \in Threads \ {t} : rows'[u] = rows[u] /\ (u \in unsaved => u \in unsaved')
  BY DEF IInv, TypeOK, OrphanWritten, RowDeleted, Stored
<1>4. \/ t \in disturbed
      \/ rows'[t] = rows[t] /\ unsaved' = unsaved
      \/ rows'[t] = Empty /\ t \in unsaved'
  BY DEF IInv, TypeOK, Accounted, OrphanWritten, RowDeleted
<1>5. Accounted' BY <1>1, <1>2 DEF IInv, Accounted
<1>6. ASSUME NEW c \in Copies PROVE CopyInv(c)'
  <2>1. CopyInv(c) BY CopyInvs DEF IInv
  <2>2. copies[c].status = "closed" \/ copies[c].thread \in Threads
    BY DEF IInv, TypeOK, Closed, Copy
  <2>. QED BY <2>1, <2>2, <1>1, <1>3, <1>4, Untouched
<1>7. t \in born \/ rows'[t] = Empty
  <2>1. CASE RowDeleted(t)
    BY <2>1 DEF RowDeleted, IInv, TypeOK, OnlyBorn
  <2>2. CASE \E o \in orphans : o.thread = t /\ OrphanWritten(o)
    BY <2>2 DEF IInv, OnlyBorn
  <2>. QED BY <2>1, <2>2
<1>8. OnlyBorn' BY <1>1, <1>2, <1>3, <1>7 DEF IInv, OnlyBorn
<1>9. (SavesNewest /\ SeenRow /\ SavedOrSaving)' <=> \A d \in Copies : CopyInv(d)'
  BY DEF SavesNewest, SeenRow, SavedOrSaving, CopyInv
<1>. QED BY <1>5, <1>6, <1>8, <1>9

LEMMA HistoryDisk ==
  ASSUME IInv,
         \/ \E t \in Threads : delete_thread(t) \/ DeleteOver(t)
         \/ list_threads \/ ListFails \/ \E ix \in DOMAIN lists : ListArrives(ix)
  PROVE  OnlyBorn' /\ Accounted' /\ SavesNewest' /\ SeenRow' /\ SavedOrSaving'
<1>1. UNCHANGED <<rows, copies, pending_save, orphans, born, disturbed, unsaved>>
  BY DEF delete_thread, DeleteOver, list_threads, ListFails, ListArrives, countVars
<1>2. Accounted' /\ SavesNewest' /\ SeenRow' /\ SavedOrSaving'
  BY <1>1 DEF IInv, Accounted, SavesNewest, SeenRow, SavedOrSaving
<1>3. Len(lists) \in Nat /\ DOMAIN lists = 1..Len(lists) /\ lists \in Seq(Lists)
  BY LenProperties DEF IInv, TypeOK
<1>4. ASSUME NEW t \in Threads \ born
      PROVE  threads'[t] = Empty /\ \A ix \in DOMAIN lists' : lists'[ix].rows[t] = Empty
  <2>1. /\ rows[t] = Empty /\ threads[t] = Empty
        /\ \A ix \in DOMAIN lists : lists[ix].rows[t] = Empty
    BY DEF IInv, OnlyBorn
  <2>2. CASE list_threads
    <3>1. \A ix \in DOMAIN lists' :
            \/ ix \in DOMAIN lists /\ lists'[ix] = lists[ix]
            \/ lists'[ix] = [rows |-> rows, overtaken |-> FALSE]
      BY <2>2, <1>3 DEF list_threads
    <3>2. threads' = threads BY <2>2 DEF list_threads
    <3>. QED BY <2>1, <3>1, <3>2
  <2>3. ASSUME NEW ix \in DOMAIN lists, ListArrives(ix)
        PROVE  threads'[t] = Empty /\ \A jx \in DOMAIN lists' : lists'[jx].rows[t] = Empty
    <3>1. /\ lists' \in Seq(Lists) /\ Len(lists') = Len(lists) - 1
          /\ \A jx \in 1..(Len(lists) - 1) :
               lists'[jx].rows = lists[jx].rows \/ lists'[jx].rows = lists[jx + 1].rows
      BY <2>3, <1>3, ListsLeft
    <3>2. DOMAIN lists' = 1..(Len(lists) - 1) BY <3>1, LenProperties
    <3>3. threads' = lists[ix].rows BY <2>3 DEF ListArrives
    <3>4. \A jx \in 1..(Len(lists) - 1) : jx \in DOMAIN lists /\ jx + 1 \in DOMAIN lists
      BY <1>3
    <3>. QED BY <2>1, <3>1, <3>2, <3>3, <3>4
  <2>4. CASE \/ \E u \in Threads : delete_thread(u) \/ DeleteOver(u)
             \/ ListFails
    <3>1. UNCHANGED <<lists, threads>> BY <2>4 DEF delete_thread, DeleteOver, ListFails
    <3>. QED BY <2>1, <3>1
  <2>. QED BY <2>2, <2>3, <2>4
<1>. QED BY <1>1, <1>2, <1>4 DEF IInv, OnlyBorn

LEMMA QuitDisk ==
  ASSUME IInv, Quit
  PROVE  OnlyBorn' /\ Accounted' /\ SavesNewest' /\ SeenRow' /\ SavedOrSaving'
<1>1. \A c \in Copies : copies'[c] = Closed /\ pending_save'[c] = Ready BY DEF Quit
<1>2. /\ orphans' = {} /\ lists' = <<>> /\ threads' = Unread
      /\ UNCHANGED <<rows, born>>
  BY DEF Quit
<1>3. OnlyBorn' BY <1>1, <1>2 DEF IInv, OnlyBorn, Unread
<1>4. Accounted' BY <1>1, <1>2 DEF Accounted
<1>5. SavesNewest' /\ SeenRow' /\ SavedOrSaving'
  BY <1>1 DEF SavesNewest, SeenRow, SavedOrSaving, Closed, Copy, Ready
<1>. QED BY <1>3, <1>4, <1>5

LEMMA DiskStep == IInv /\ [Next]_vars => IInv'
<1>. SUFFICES ASSUME IInv, [Next]_vars PROVE IInv' OBVIOUS
<1>1. TypeOK' BY TypeStep DEF IInv
<1>2. CASE UNCHANGED vars
  BY <1>1, <1>2 DEF vars, historyVars, countVars, IInv, OnlyBorn, Accounted, SavesNewest,
                    SeenRow, SavedOrSaving
<1>3. CASE Next
  <2>1. OnlyBorn' /\ Accounted' /\ SavesNewest' /\ SeenRow' /\ SavedOrSaving'
    <3>1. ASSUME NEW o \in orphans, OrphanWritten(o)
          PROVE  OnlyBorn' /\ Accounted' /\ SavesNewest' /\ SeenRow' /\ SavedOrSaving'
      <4>1. o.thread \in Threads BY DEF IInv, TypeOK
      <4>. QED BY <3>1, <4>1, RowDisk
    <3>2. ASSUME NEW c \in Copies,
                 \/ \E contents \in Contents : Notified(c, contents) \/ Unnotified(c, contents)
                 \/ Notified(c, "same")
          PROVE  OnlyBorn' /\ Accounted' /\ SavesNewest' /\ SeenRow' /\ SavedOrSaving'
      BY <3>2, ChangeDisk DEF Contents
    <3>. QED BY <1>3, <3>1, <3>2, SavingDisk, SessionDisk, OpeningDisk, RowDisk,
                HistoryDisk, QuitDisk DEF Next
  <2>. QED BY <1>1, <2>1 DEF IInv
<1>. QED BY <1>2, <1>3

LEMMA DiskInvariant == Spec => []IInv
BY InitDisk, DiskStep, PTL DEF Spec

\* LatestSaved: when a copy has no save under way, what it showed when it last
\* notified is on the disk, however its saves have replaced one another.
THEOREM LatestAlwaysSaved == Spec => []LatestSaved
<1>1. IInv => LatestSaved
  BY DEF IInv, SavedOrSaving, LatestSaved, Open, TypeOK, Saves
<1>. QED BY <1>1, DiskInvariant, PTL

\* What a step does to the rows.
LEMMA RowsStep ==
  ASSUME IInv, [Next]_vars, NEW t \in Threads
  PROVE  rows[t] \subseteq rows'[t] \/ rows'[t] = Empty \/ t \in disturbed
<1>1. ASSUME NEW c \in Copies, WriteEnds(c)
      PROVE  rows[t] \subseteq rows'[t] \/ t \in disturbed
  <2>1. /\ copies[c].status = "open" /\ copies[c].thread \in Threads
        /\ pending_save[c].state = copies[c].told
    BY <1>1 DEF WriteEnds, IInv, TypeOK, Open, Ready, Closed, Copy, SavesNewest
  <2>2. \/ rows[copies[c].thread] \subseteq pending_save[c].state
        \/ copies[c].thread \in disturbed
    BY <2>1 DEF IInv, SeenRow
  <2>. QED BY <1>1, <2>1, <2>2 DEF WriteEnds, Stored, IInv, TypeOK
<1>2. ASSUME NEW o \in orphans, OrphanWritten(o)
      PROVE  rows[t] \subseteq rows'[t] \/ t \in disturbed
  BY <1>2 DEF OrphanWritten, Stored, IInv, TypeOK, Accounted
<1>3. ASSUME NEW u \in Threads, RowDeleted(u)
      PROVE  rows'[t] = rows[t] \/ rows'[t] = Empty
  BY <1>3 DEF RowDeleted, IInv, TypeOK
<1>4. CASE UNCHANGED vars BY <1>4 DEF vars
<1>5. ASSUME NEW c \in Copies,
             \/ \E contents \in Contents \cup {"same"} : Notified(c, contents) \/ Unnotified(c, contents)
             \/ WriteStarts(c) \/ SaveOver(c) \/ load_thread(c) \/ Registered(c) \/ Release(c)
             \/ \E u \in Threads : new_thread(c, u) \/ open_thread(c, u)
      PROVE  rows' = rows
  BY <1>5 DEF Notified, Unnotified, WriteStarts, SaveOver, load_thread, Registered, Release, new_thread,
              open_thread
<1>6. ASSUME \/ \E u \in Threads : delete_thread(u) \/ DeleteOver(u)
             \/ list_threads \/ ListFails \/ (\E ix \in DOMAIN lists : ListArrives(ix)) \/ Quit
      PROVE  rows' = rows
  BY <1>6 DEF delete_thread, DeleteOver, list_threads, ListFails, ListArrives, Quit
<1>. QED BY <1>1, <1>2, <1>3, <1>4, <1>5, <1>6 DEF Next

\* RowsOnlyGrow: whatever is written, closed, opened and restarted upon, no
\* change that is on the disk is lost.
THEOREM RowsAlwaysGrow == Spec => RowsOnlyGrow
<1>1. IInv /\ [Next]_vars =>
        [\A t \in Threads : \/ rows[t] \subseteq rows'[t]
                            \/ rows'[t] = Empty
                            \/ t \in disturbed]_vars
  BY RowsStep
<1>. QED BY <1>1, DiskInvariant, PTL DEF Spec, RowsOnlyGrow

----------------------------------------------------------------------------
(* The history *)

LEMMA InitHistory == Init => HInv
BY DEF Init, HInv, OvertakenInOrder, ToBeListed

\* Steps that leave the history and the rows alone, and drop no reload.
LEMMA HistoryUntouched ==
  ASSUME HInv, UNCHANGED <<historyVars, rows>>, unlisted \subseteq unlisted',
         \A c \in Copies : pending_save[c].at = "written" =>
           \/ copies[c].thread \in unlisted'
           \/ pending_save'[c].at = "written" /\ copies'[c].thread = copies[c].thread
  PROVE  HInv'
BY DEF HInv, historyVars, OvertakenInOrder, ToBeListed, Listed, NewestComes

\* A reload is on its way, for every thread.
LEMMA HistoryReloads ==
  ASSUME HInv, UNCHANGED lists, reloading' > 0 PROVE HInv'
BY DEF HInv, OvertakenInOrder, ToBeListed

\* Steps that write rows leave the threads they write to be listed, or known
\* not to be.
LEMMA HistoryRowWritten ==
  ASSUME HInv, NEW t \in Threads, UNCHANGED <<reloading, lists, threads, reordered>>,
         \A u \in Threads \ {t} : rows'[u] = rows[u] /\ (deleting[u] = "deleted" => deleting'[u] = "deleted"),
         unlisted \subseteq unlisted', UNCHANGED copies,
         \A c \in Copies : pending_save[c].at = "written" => pending_save'[c].at = "written",
         \/ t \in unlisted' \/ ToBeListed(t)'
         \/ rows'[t] = rows[t] /\ (deleting[t] # "deleted")
  PROVE  HInv'
<1>1. OvertakenInOrder' BY DEF HInv, OvertakenInOrder
<1>2. ASSUME NEW u \in Threads \ unlisted' PROVE ToBeListed(u)' \/ Listed(u)'
  <2>1. ToBeListed(u) \/ Listed(u) BY DEF HInv
  <2>2. CASE u # t BY <2>1, <2>2 DEF ToBeListed, Listed, NewestComes
  <2>3. CASE u = t BY <2>1, <2>3 DEF ToBeListed, Listed, NewestComes
  <2>. QED BY <2>2, <2>3
<1>. QED BY <1>1, <1>2 DEF HInv

LEMMA ChangeHistory ==
  ASSUME TypeOK, HInv, NEW c \in Copies, NEW contents \in Contents \cup {"same"},
         Notified(c, contents) \/ (contents # "same" /\ Unnotified(c, contents))
  PROVE  HInv'
<1>1. UNCHANGED <<historyVars, rows>> BY ChangeSteps
<1>2. unlisted \subseteq unlisted'
  BY DEF Notified, Unnotified, Dropped
<1>3. \A d \in Copies : copies'[d].thread = copies[d].thread
  BY ChangeSteps
<1>4. \A d \in Copies \ {c} : pending_save'[d] = pending_save[d]
  BY ChangeSteps
<1>5. pending_save[c].at = "written" =>
        copies[c].thread \in unlisted' \/ pending_save'[c].at = "written"
  BY ChangeSteps DEF Dropped
<1>. QED BY <1>1, <1>2, <1>3, <1>4, <1>5, HistoryUntouched

LEMMA SavingHistory ==
  ASSUME TypeOK, HInv, NEW c \in Copies, WriteStarts(c) \/ WriteEnds(c) \/ SaveOver(c)
  PROVE  HInv'
<1>1. CASE WriteStarts(c)
  <2>1. UNCHANGED <<historyVars, rows, copies, unlisted>> BY <1>1 DEF WriteStarts
  <2>2. \A d \in Copies : pending_save[d].at = "written" => pending_save'[d] = pending_save[d]
    BY <1>1 DEF WriteStarts, TypeOK
  <2>. QED BY <2>1, <2>2, HistoryUntouched
<1>2. CASE WriteEnds(c)
  <2>1. copies[c].thread \in Threads
    BY <1>2 DEF TypeOK, WriteEnds, Ready, Open, Closed, Copy
  <2>2. UNCHANGED <<historyVars, copies, unlisted>> BY <1>2 DEF WriteEnds
  <2>3. /\ pending_save'[c].at = "written"
        /\ \A d \in Copies : pending_save[d].at = "written" => pending_save'[d].at = "written"
    BY <1>2 DEF WriteEnds, TypeOK, Saves
  <2>4. \A u \in Threads \ {copies[c].thread} : rows'[u] = rows[u]
    BY <1>2, <2>1 DEF WriteEnds, Stored, TypeOK
  <2>5. ToBeListed(copies[c].thread)' BY <2>2, <2>3 DEF ToBeListed
  <2>. QED BY <2>1, <2>2, <2>3, <2>4, <2>5, HistoryRowWritten DEF historyVars
<1>3. CASE SaveOver(c)
  BY <1>3, HistoryReloads DEF SaveOver, reload, TypeOK
<1>. QED BY <1>1, <1>2, <1>3

LEMMA SessionHistory ==
  ASSUME TypeOK, HInv, NEW c \in Copies,
         \/ load_thread(c) \/ Registered(c) \/ Release(c)
         \/ \E t \in Threads : new_thread(c, t) \/ open_thread(c, t)
  PROVE  HInv'
<1>1. UNCHANGED <<historyVars, rows>> /\ unlisted \subseteq unlisted'
  BY DEF load_thread, Registered, Release, new_thread, open_thread, Dropped
<1>2. \A d \in Copies \ {c} : copies'[d] = copies[d] /\ pending_save'[d] = pending_save[d]
  BY DEF load_thread, Registered, Release, new_thread, open_thread, TypeOK
<1>3. pending_save[c].at = "written" => copies[c].status = "open" /\ copies[c] # Closed
  BY DEF TypeOK, Open, Ready, Closed, Copy
<1>4. pending_save[c].at = "written" => copies[c].thread \in unlisted'
  BY <1>3 DEF load_thread, Registered, Release, new_thread, open_thread, Dropped
<1>. QED BY <1>1, <1>2, <1>4, HistoryUntouched

LEMMA ListHistory ==
  ASSUME TypeOK, HInv,
         list_threads \/ ListFails \/ \E ix \in DOMAIN lists : ListArrives(ix)
  PROVE  HInv'
<1>1. Len(lists) \in Nat /\ DOMAIN lists = 1..Len(lists) /\ lists \in Seq(Lists)
  BY LenProperties DEF TypeOK
<1>2. CASE list_threads
  <2>. DEFINE new == [rows |-> rows, overtaken |-> FALSE]
  <2>1. /\ lists' = Append(lists, new) /\ UNCHANGED rows BY <1>2 DEF list_threads
  <2>2. new \in Lists BY DEF TypeOK, Lists
  <2>3. /\ Len(lists') = Len(lists) + 1 /\ DOMAIN lists' = 1..(Len(lists) + 1)
        /\ lists'[Len(lists')] = new /\ lists' # <<>>
        /\ \A ix \in 1..Len(lists) : lists'[ix] = lists[ix]
    BY <1>1, <2>1, <2>2
  <2>4. OvertakenInOrder'
    <3>. SUFFICES ASSUME NEW ix \in 1..(Len(lists) + 1), NEW jx \in 1..(Len(lists) + 1), ix < jx,
                         lists'[jx].overtaken
                  PROVE  lists'[ix].overtaken
      BY <2>3 DEF OvertakenInOrder
    <3>1. jx # Len(lists) + 1 BY <2>3
    <3>2. ix \in 1..Len(lists) /\ jx \in 1..Len(lists) BY <1>1, <3>1
    <3>. QED BY <1>1, <2>3, <3>2 DEF HInv, OvertakenInOrder
  <2>5. \A t \in Threads : Listed(t)' BY <2>1, <2>3 DEF Listed, NewestComes
  <2>. QED BY <2>4, <2>5 DEF HInv
<1>3. CASE ListFails
  BY <1>3 DEF ListFails, HInv, OvertakenInOrder
<1>4. ASSUME NEW ix \in DOMAIN lists, ListArrives(ix) PROVE HInv'
  <2>1. /\ lists' \in Seq(Lists) /\ Len(lists') = Len(lists) - 1
        /\ \A jx \in 1..(Len(lists) - 1) :
             IF jx < ix
             THEN lists'[jx].rows = lists[jx].rows /\ lists'[jx].overtaken
             ELSE /\ lists'[jx].rows = lists[jx + 1].rows
                  /\ lists'[jx].overtaken <=> lists[jx + 1].overtaken
    BY <1>1, <1>4, ListsLeft
  <2>2. DOMAIN lists' = 1..(Len(lists) - 1) /\ (lists' = <<>> <=> Len(lists) = 1)
    BY <2>1, <1>1, LenProperties, EmptySeq
  <2>3. /\ threads' = lists[ix].rows /\ reordered' = lists[ix].overtaken
        /\ UNCHANGED <<rows, copies, pending_save, deleting, reloading, unlisted>>
    BY <1>4 DEF ListArrives
  <2>4. OvertakenInOrder'
    <3>. SUFFICES ASSUME NEW kx \in 1..(Len(lists) - 1), NEW jx \in 1..(Len(lists) - 1), kx < jx,
                         lists'[jx].overtaken
                  PROVE  lists'[kx].overtaken
      BY <2>2 DEF OvertakenInOrder
    <3>1. CASE kx < ix BY <3>1, <2>1
    <3>2. CASE ~(kx < ix)
      <4>1. ~(jx < ix) BY <3>2, <1>1
      <4>2. lists[jx + 1].overtaken BY <4>1, <2>1
      <4>3. kx + 1 \in 1..Len(lists) /\ jx + 1 \in 1..Len(lists) /\ kx + 1 < jx + 1 BY <1>1
      <4>4. lists[kx + 1].overtaken BY <1>1, <4>2, <4>3 DEF HInv, OvertakenInOrder
      <4>. QED BY <3>2, <4>4, <2>1
    <3>. QED BY <3>1, <3>2
  <2>5. ASSUME NEW t \in Threads, Listed(t) PROVE Listed(t)'
    <3>1. CASE ix < Len(lists)
      <4>1. Len(lists) - 1 \in 1..(Len(lists) - 1) /\ ~(Len(lists) - 1 < ix) /\ lists' # <<>>
        BY <3>1, <1>1, <2>2
      <4>2. /\ lists'[Len(lists) - 1].rows = lists[Len(lists) - 1 + 1].rows
            /\ lists'[Len(lists) - 1].overtaken <=> lists[Len(lists) - 1 + 1].overtaken
        BY <4>1, <2>1
      <4>3. Len(lists) - 1 + 1 = Len(lists) /\ lists # <<>> BY <1>1, <3>1, EmptySeq
      <4>4. /\ lists'[Len(lists')].rows = lists[Len(lists)].rows
            /\ lists'[Len(lists')].overtaken <=> lists[Len(lists)].overtaken
        BY <4>2, <4>3, <2>1
      <4>. QED BY <2>3, <2>5, <4>1, <4>3, <4>4 DEF Listed, NewestComes
    <3>2. CASE ix = Len(lists)
      <4>1. lists # <<>> /\ lists[ix] \in Lists BY <1>1, <3>2, EmptySeq, ElementOfSeq
      <4>2. CASE lists[ix].overtaken
        <5>1. ~NewestComes /\ reordered' BY <3>2, <4>2, <2>3 DEF NewestComes
        <5>2. ~NewestComes'
          <6>1. CASE lists' = <<>> BY <6>1 DEF NewestComes
          <6>2. CASE lists' # <<>>
            <7>1. Len(lists') \in 1..(Len(lists) - 1) /\ Len(lists') < ix
              BY <6>2, <1>1, <2>1, <2>2, <3>2
            <7>. QED BY <7>1, <2>1 DEF NewestComes
          <6>. QED BY <6>1, <6>2
        <5>. QED BY <5>1, <5>2 DEF Listed
      <4>3. CASE ~lists[ix].overtaken
        <5>1. NewestComes BY <3>2, <4>1, <4>3 DEF NewestComes
        <5>2. threads'[t] = rows'[t] BY <2>3, <2>5, <3>2, <5>1 DEF Listed
        <5>3. ~NewestComes'
          <6>1. CASE lists' = <<>> BY <6>1 DEF NewestComes
          <6>2. CASE lists' # <<>>
            <7>1. Len(lists') \in 1..(Len(lists) - 1) /\ Len(lists') < ix
              BY <6>2, <1>1, <2>1, <2>2, <3>2
            <7>. QED BY <7>1, <2>1 DEF NewestComes
          <6>. QED BY <6>1, <6>2
        <5>. QED BY <5>2, <5>3 DEF Listed
      <4>. QED BY <4>2, <4>3
    <3>. QED BY <3>1, <3>2, <1>1
  <2>6. \A t \in Threads : ToBeListed(t) => ToBeListed(t)'
    BY <2>3 DEF ToBeListed
  <2>. QED BY <2>3, <2>4, <2>5, <2>6 DEF HInv
<1>. QED BY <1>2, <1>3, <1>4

LEMMA RowHistory ==
  ASSUME TypeOK, HInv,
         \/ \E o \in orphans : OrphanWritten(o)
         \/ \E t \in Threads : delete_thread(t) \/ RowDeleted(t) \/ DeleteOver(t)
         \/ Quit
  PROVE  HInv'
<1>1. ASSUME NEW o \in orphans, OrphanWritten(o) PROVE HInv'
  <2>1. o.thread \in Threads BY DEF TypeOK
  <2>2. /\ UNCHANGED <<historyVars, copies, pending_save>> /\ o.thread \in unlisted'
        /\ unlisted \subseteq unlisted' /\ \A u \in Threads \ {o.thread} : rows'[u] = rows[u]
    BY <1>1 DEF OrphanWritten, Stored, TypeOK
  <2>. QED BY <2>1, <2>2, HistoryRowWritten DEF historyVars
<1>2. ASSUME NEW t \in Threads, delete_thread(t) PROVE HInv'
  <2>1. /\ UNCHANGED <<reloading, lists, threads, reordered, rows, copies, pending_save, unlisted>>
        /\ \A u \in Threads : deleting[u] = "deleted" => deleting'[u] = "deleted"
    BY <1>2 DEF delete_thread, TypeOK
  <2>2. deleting[t] = "no" BY <1>2 DEF delete_thread
  <2>. QED BY <2>1, <2>2, HistoryRowWritten
<1>3. ASSUME NEW t \in Threads, RowDeleted(t) PROVE HInv'
  <2>1. /\ UNCHANGED <<reloading, lists, threads, reordered, copies, pending_save, unlisted>>
        /\ \A u \in Threads \ {t} : rows'[u] = rows[u] /\ deleting'[u] = deleting[u]
    BY <1>3 DEF RowDeleted, TypeOK
  <2>2. deleting'[t] = "deleted" \/ (rows'[t] = rows[t] /\ deleting[t] # "deleted")
    BY <1>3 DEF RowDeleted, TypeOK
  <2>. QED BY <2>1, <2>2, HistoryRowWritten DEF ToBeListed
<1>4. ASSUME NEW t \in Threads, DeleteOver(t) PROVE HInv'
  BY <1>4, HistoryReloads DEF DeleteOver, reload, TypeOK
<1>5. CASE Quit
  BY <1>5, EmptySeq DEF Quit, HInv, OvertakenInOrder, ToBeListed
<1>. QED BY <1>1, <1>2, <1>3, <1>4, <1>5

LEMMA HistoryStep == TypeOK /\ HInv /\ [Next]_vars => HInv'
<1>1. TypeOK /\ HInv /\ UNCHANGED vars => HInv'
  BY HistoryUntouched DEF vars
<1>2. ASSUME TypeOK, HInv, NEW c \in Copies,
             \/ \E contents \in Contents : Notified(c, contents) \/ Unnotified(c, contents)
             \/ Notified(c, "same")
      PROVE  HInv'
  BY <1>2, ChangeHistory DEF Contents
<1>. QED BY <1>1, <1>2, SavingHistory, SessionHistory, ListHistory, RowHistory DEF Next

\* HistoryCurrent: when every task has ended the history lists what is on the
\* disk, however lists, saves and deletions have overtaken one another.
THEOREM HistoryAlwaysCurrent == Spec => []HistoryCurrent
<1>1. TypeOK /\ HInv => HistoryCurrent
  BY DEF HInv, ToBeListed, Listed, NewestComes, HistoryCurrent, Ready, TypeOK
<1>2. Spec => []HInv BY InitHistory, HistoryStep, TypeCorrect, PTL DEF Spec
<1>. QED BY <1>1, <1>2, TypeCorrect, PTL

=============================================================================

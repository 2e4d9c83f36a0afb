--------------------------- MODULE Mailbox_proofs ---------------------------
(* Proofs about Mailbox, for any number of letters, any caps and any number  *)
(* of row ids.                                                               *)
EXTENDS Mailbox, FiniteSetTheorems, TLAPS

-----------------------------------------------------------------------------
(* Tables of letters.                                                        *)

Tables == [Ids -> Row \cup {NoRow}]

\* What a mailbox shows: the letters its owner did not delete.
Shown(t) == InboxIds(t) \cup KeptIds(t)

LEMMA RowOrNone == \A r \in Row : r # NoRow
BY DEF Row, NoRow

LEMMA ShownIsCounted ==
    ASSUME NEW t
    PROVE  /\ IsFiniteSet(Shown(t)) /\ Cardinality(Shown(t)) \in Nat
           /\ IsFiniteSet(InboxIds(t)) /\ Cardinality(InboxIds(t)) \in Nat
           /\ IsFiniteSet(KeptIds(t)) /\ Cardinality(KeptIds(t)) \in Nat
           /\ Cardinality(Shown(t)) = Cardinality(InboxIds(t)) + Cardinality(KeptIds(t))
<1>. DEFINE A == InboxIds(t)
            B == KeptIds(t)
<1>1. IsFiniteSet(Ids)
  <2>1. MaxId \in Int /\ 1 \in Int
    BY MailboxAssumption DEF MailboxAssumption
  <2>. QED  BY <2>1, FS_Interval DEF Ids
<1>2. A \subseteq Ids /\ B \subseteq Ids /\ A \cap B = {}
  BY DEF InboxIds, KeptIds, Present
<1>. HIDE DEF A, B
<1>3. IsFiniteSet(A) /\ IsFiniteSet(B)
  BY <1>1, <1>2, FS_Subset
<1>4. /\ IsFiniteSet(A \cup B)
      /\ Cardinality(A \cup B) = Cardinality(A) + Cardinality(B) - Cardinality(A \cap B)
  BY <1>3, FS_Union
<1>5. Cardinality(A \cap B) = 0
  BY <1>2, FS_EmptySet
<1>6. Cardinality(A) \in Nat /\ Cardinality(B) \in Nat
  BY <1>3, FS_CardinalityType
<1>7. Cardinality(A \cup B) = Cardinality(A) + Cardinality(B) /\ Cardinality(A \cup B) \in Nat
  BY <1>4, <1>5, <1>6
<1>. QED  BY <1>3, <1>4, <1>6, <1>7 DEF A, B, Shown

LEMMA FewerOrOneMore ==
    ASSUME NEW S, NEW T, NEW x, IsFiniteSet(T), S \subseteq T \cup {x}
    PROVE  /\ IsFiniteSet(S) /\ Cardinality(S) \in Nat /\ Cardinality(T) \in Nat
           /\ Cardinality(S) <= Cardinality(T) + 1
           /\ S \subseteq T => Cardinality(S) <= Cardinality(T)
<1>1. /\ IsFiniteSet(T \cup {x}) /\ Cardinality(T) \in Nat
      /\ Cardinality(T \cup {x}) = IF x \in T THEN Cardinality(T) ELSE Cardinality(T) + 1
  BY FS_AddElement, FS_CardinalityType
<1>2. IsFiniteSet(S) /\ Cardinality(S) <= Cardinality(T \cup {x})
  BY <1>1, FS_Subset
<1>3. Cardinality(S) \in Nat
  BY <1>2, FS_CardinalityType
<1>4. S \subseteq T => Cardinality(S) <= Cardinality(T)
  BY FS_Subset
<1>. QED  BY <1>1, <1>2, <1>3, <1>4

LEMMA OneForOne ==
    ASSUME NEW S, NEW T, NEW x, NEW v \in T, IsFiniteSet(T), S \subseteq (T \ {v}) \cup {x}
    PROVE  Cardinality(S) <= Cardinality(T)
<1>1. IsFiniteSet(T \ {v}) /\ Cardinality(T \ {v}) = Cardinality(T) - 1 /\ Cardinality(T) \in Nat
  BY FS_RemoveElement, FS_CardinalityType
<1>2. Cardinality(S) <= Cardinality(T \ {v}) + 1 /\ Cardinality(S) \in Nat
  BY <1>1, FewerOrOneMore
<1>. QED  BY <1>1, <1>2

LEMMA SubsetCounted ==
    ASSUME NEW S, NEW T, S \subseteq T, IsFiniteSet(T)
    PROVE  /\ IsFiniteSet(S) /\ Cardinality(S) \in Nat /\ Cardinality(T) \in Nat
           /\ Cardinality(S) <= Cardinality(T)
BY FS_Subset, FS_CardinalityType

LEMMA IdsCounted ==
    ASSUME NEW S, S \subseteq Ids
    PROVE  IsFiniteSet(S) /\ Cardinality(S) \in Nat
<1>1. MaxId \in Int /\ 1 \in Int
  BY MailboxAssumption DEF MailboxAssumption
<1>2. IsFiniteSet(Ids)
  BY <1>1, FS_Interval DEF Ids
<1>. QED  BY <1>2, SubsetCounted

-----------------------------------------------------------------------------
(* The invariant.  The bounds count, with the letters that show, the one     *)
(* that the delete of a sender's single copy is about to bring back, and     *)
(* leave room for what each delivery and each keep in progress will add.     *)

\* The letter whose eviction a sender's delete will undo.
Returning == {i \in Ids : /\ task.step = "delete" /\ task.one /\ task.side = "sender"
                          /\ i \in task.ids \ task.gone
                          /\ rows[i] # NoRow /\ rows[i].rdel}

MayShow == Shown(rows) \cup Returning
MayBeKept == KeptIds(rows) \cup Returning
Keepable == task.ids \cap InboxIds(rows)
Bound == Cap + KeptCap + overlaps

RoomHolds ==
    /\ Cardinality(MayShow) <= Bound
    /\ \A c \in Conns : job[c].step = "write" => Cardinality(MayShow \ {job[c].victim}) + 1 <= Bound
    /\ Cardinality(MayBeKept) <= KeptCap + overlaps

KeepHolds ==
    /\ task.step = "keep" => Cardinality(KeptIds(rows) \cup Keepable) <= KeptCap + overlaps
    /\ task.step = "room" =>
          /\ Cardinality(KeptIds(rows) \cup Keepable) <= KeptCap + overlaps + task.n
          /\ Cardinality(Keepable) <= task.n + overlaps

\* A letter that a bulk delete would leave deleted on both sides has crossed it.
OrphansCross ==
    task.step = "delete" /\ ~task.one =>
        \A i \in task.ids \ task.gone :
           rows[i] # NoRow /\ OtherDeleted(task.side, rows[i]) => rows[i].letter \in crossed

TaskHolds ==
    /\ task = IdleTask \/ job["fg"] = IdleJob
    /\ task.step \in {"select", "delete"} /\ task.one => \E i \in Ids : task.ids = {i}

NoticesHold ==
    /\ EvictionsTold
    /\ together \/ \A u, w \in Menus : menu[u] > 0 /\ menu[w] > 0 => u = w

\* What a delivery has read holds while nothing changed.
ReadsHold ==
    \A c \in Conns : job[c].step = "write" /\ ~stale[c] =>
        IF job[c].victim = 0 THEN inbox_count < Cap
        ELSE IsVictim(job[c].victim) /\ job[c].sdel = rows[job[c].victim].sdel

\* A letter is delivered once.
LettersOnce ==
    /\ \A i \in Present(rows) : rows[i].letter \in arrived
    /\ \A c \in Conns : job[c].step = "write" =>
          /\ job[c].letter \in arrived
          /\ \A i \in Present(rows) : rows[i].letter # job[c].letter
          /\ \A d \in Conns \ {c} : job[d].step = "write" => job[d].letter # job[c].letter

MailInv ==
    /\ TypeOK /\ NoOrphanRow /\ NoticesHold
    /\ RoomHolds /\ KeepHolds /\ OrphansCross /\ TaskHolds
    /\ ReadsHold /\ LettersOnce

LEMMA IdleFields == IdleTask.step = "idle" /\ IdleJob.step = "idle"
BY DEF IdleTask, IdleJob

\* The jobs and the task are as their connection left them.
LEMMA JobIs ==
    ASSUME TypeOK, NEW c \in Conns
    PROVE  /\ job[c].step = "write" => job[c] \in WriteJob
           /\ job[c].step # "write" => job[c] = IdleJob
BY DEF TypeOK, WriteJob, IdleJob

LEMMA TaskIs ==
    ASSUME TypeOK
    PROVE  /\ task.step \in {"select", "delete"} <=> task \in DeleteTask
           /\ task.step \in {"room", "keep"} <=> task \in KeepTask
           /\ task.step = "idle" <=> task = IdleTask
           /\ task \in DeleteTask => /\ task.ids \in SUBSET Ids /\ task.gone \in SUBSET Ids
                                     /\ task.side \in Sides /\ task.one \in BOOLEAN
           /\ task \in KeepTask => task.ids \in SUBSET Ids /\ task.n \in Nat
<1>1. task \in DeleteTask => task.step \in {"select", "delete"}
  BY DEF DeleteTask
<1>2. task \in KeepTask => task.step \in {"room", "keep"}
  BY DEF KeepTask
<1>3. task \in DeleteTask \cup KeepTask \cup {IdleTask}
  BY DEF TypeOK
<1>4. task \in DeleteTask => /\ task.ids \in SUBSET Ids /\ task.gone \in SUBSET Ids
                             /\ task.side \in Sides /\ task.one \in BOOLEAN
  BY DEF DeleteTask
<1>5. task \in KeepTask => task.ids \in SUBSET Ids /\ task.n \in Nat
  BY DEF KeepTask
<1>. QED  BY <1>1, <1>2, <1>3, <1>4, <1>5, IdleFields

LEMMA NatBounds ==
    ASSUME TypeOK
    PROVE  Cap \in Nat /\ Cap > 0 /\ KeptCap \in Nat /\ overlaps \in Nat /\ Bound \in Nat
BY MailboxAssumption DEF MailboxAssumption, TypeOK, Bound

\* The sets that are counted are finite.
LEMMA Counting ==
    /\ MayShow \subseteq Ids /\ MayBeKept \subseteq Ids /\ Returning \subseteq Ids
    /\ Keepable \subseteq Ids /\ InboxIds(rows) \subseteq Ids /\ KeptIds(rows) \subseteq Ids
    /\ Shown(rows) \subseteq Ids
BY DEF MayShow, MayBeKept, Returning, Keepable, Shown, InboxIds, KeptIds, Present

LEMMA InvBounds ==
    ASSUME TypeOK, RoomHolds
    PROVE  BoundsNeedOverlap
<1>1. Shown(rows) \subseteq MayShow /\ KeptIds(rows) \subseteq MayBeKept
  BY DEF MayShow, MayBeKept
<1>2. IsFiniteSet(MayShow) /\ IsFiniteSet(MayBeKept)
  BY Counting, IdsCounted
<1>3. /\ Cardinality(Shown(rows)) <= Cardinality(MayShow) /\ Cardinality(MayShow) \in Nat
      /\ Cardinality(KeptIds(rows)) <= Cardinality(MayBeKept) /\ Cardinality(MayBeKept) \in Nat
  BY <1>1, <1>2, SubsetCounted
<1>. QED  BY <1>3, ShownIsCounted, NatBounds
          DEF RoomHolds, BoundsNeedOverlap, Bound, inbox_count, kept_count

LEMMA MailInit == Init => MailInv
<1>. SUFFICES ASSUME Init PROVE MailInv
  OBVIOUS
<1>. USE MailboxAssumption DEF MailboxAssumption
<1>1. Present(rows) = {} /\ InboxIds(rows) = {} /\ KeptIds(rows) = {} /\ task.step = "idle"
  BY IdleFields DEF Init, Present, InboxIds, KeptIds
<1>2. MayShow = {} /\ MayBeKept = {} /\ overlaps = 0
  BY <1>1 DEF Init, MayShow, MayBeKept, Shown, Returning
<1>3. \A c \in Conns : job[c] = IdleJob
  BY DEF Init
<1>4. RoomHolds /\ KeepHolds
  BY <1>1, <1>2, <1>3, IdleFields, FS_EmptySet DEF RoomHolds, KeepHolds, Bound
<1>5. TypeOK
  <2>1. rows \in [Ids -> Row \cup {NoRow}] /\ job \in [Conns -> WriteJob \cup {IdleJob}]
    BY DEF Init
  <2>2. menu \in [Menus -> Nat] /\ stale \in [Conns -> BOOLEAN]
    BY DEF Init
  <2>3. task \in DeleteTask \cup KeepTask \cup {IdleTask}
    BY DEF Init
  <2>4. arrived \subseteq Letters /\ view \subseteq Entry /\ crossed \subseteq Letters
    BY DEF Init
  <2>5. notice = 0 /\ overlaps = 0 /\ untold = 0 /\ together = FALSE
    BY DEF Init
  <2>6. notice \in Nat /\ overlaps \in Nat /\ untold \in Int
    BY <2>5
  <2>7. together \in BOOLEAN
    BY <2>5, Zenon
  <2>. QED  BY <2>1, <2>2, <2>3, <2>4, <2>6, <2>7 DEF TypeOK
<1>6. ReadsHold /\ LettersOnce
  BY <1>1, <1>3, IdleFields DEF ReadsHold, LettersOnce
<1>7. NoOrphanRow /\ NoticesHold
  BY <1>1 DEF Init, NoOrphanRow, NoticesHold, EvictionsTold
<1>8. OrphansCross /\ TaskHolds
  BY <1>1 DEF Init, OrphansCross, TaskHolds
<1>. QED  BY <1>4, <1>5, <1>6, <1>7, <1>8 DEF MailInv

-----------------------------------------------------------------------------
(* The steps that only read.                                                 *)

\* Nothing of the rows or of the deliveries changes: what the bounds count
\* stays, unless a task is to bring a letter back.
LEMMA ReadingKeeps ==
    ASSUME MailInv, UNCHANGED <<rows, arrived, job, stale, overlaps, crossed, noticeVars, view>>,
           task' \in DeleteTask \cup KeepTask \cup {IdleTask},
           Returning' = {}, OrphansCross', TaskHolds', KeepHolds'
    PROVE  MailInv'
<1>1. MayShow' \subseteq MayShow /\ MayBeKept' \subseteq MayBeKept
  BY DEF MayShow, MayBeKept, Shown, InboxIds, KeptIds, Present
<1>2. RoomHolds'
  <2>1. \A S : S \subseteq Ids => IsFiniteSet(S)
    BY IdsCounted
  <2>2. Cardinality(MayShow') <= Cardinality(MayShow) /\ Cardinality(MayShow') \in Nat
        /\ Cardinality(MayShow) \in Nat
    BY <1>1, <2>1, Counting, SubsetCounted
  <2>3. Cardinality(MayBeKept') <= Cardinality(MayBeKept) /\ Cardinality(MayBeKept') \in Nat
        /\ Cardinality(MayBeKept) \in Nat
    BY <1>1, <2>1, Counting, SubsetCounted
  <2>4. ASSUME NEW c \in Conns, job[c].step = "write"
        PROVE  Cardinality(MayShow' \ {job[c].victim}) + 1 <= Bound
    <3>1. MayShow' \ {job[c].victim} \subseteq MayShow \ {job[c].victim}
      BY <1>1
    <3>2. IsFiniteSet(MayShow \ {job[c].victim})
      BY <2>1, Counting
    <3>3. /\ Cardinality(MayShow' \ {job[c].victim}) <= Cardinality(MayShow \ {job[c].victim})
          /\ Cardinality(MayShow' \ {job[c].victim}) \in Nat
          /\ Cardinality(MayShow \ {job[c].victim}) \in Nat
      BY <3>1, <3>2, SubsetCounted
    <3>4. Cardinality(MayShow \ {job[c].victim}) + 1 <= Bound
      BY <2>4 DEF MailInv, RoomHolds
    <3>. QED  BY <3>3, <3>4, NatBounds DEF MailInv
  <2>5. Cardinality(MayShow) <= Bound /\ Cardinality(MayBeKept) <= KeptCap + overlaps
    BY DEF MailInv, RoomHolds
  <2>6. Bound' = Bound /\ overlaps' = overlaps /\ job' = job
    BY DEF Bound
  <2>. QED  BY <2>2, <2>3, <2>4, <2>5, <2>6, NatBounds DEF MailInv, RoomHolds
<1>3. TypeOK'
  BY DEF MailInv, TypeOK, noticeVars
<1>4. NoOrphanRow' /\ NoticesHold'
  BY DEF MailInv, NoOrphanRow, NoticesHold, EvictionsTold, noticeVars
<1>5. ReadsHold' /\ LettersOnce'
  BY DEF MailInv, ReadsHold, LettersOnce, inbox_count, IsVictim, Evictable, Before
<1>. QED  BY <1>2, <1>3, <1>4, <1>5 DEF MailInv

LEMMA KeepKeeps ==
    ASSUME MailInv, NEW S \in SUBSET view, Keep(S)
    PROVE  MailInv'
<1>. DEFINE ids == ListedIds(S)
            n == Cardinality(ids \cap InboxIds(rows))
            t == [step |-> "room", ids |-> ids, n |-> n]
<1>1. task' = t /\ job["fg"].step = "idle" /\ task = IdleTask
      /\ UNCHANGED <<rows, arrived, job, stale, overlaps, crossed, noticeVars, view>>
  BY DEF Keep, LaneFree
<1>2. ids \in SUBSET Ids
  BY DEF ListedIds, MailInv, TypeOK, Entry
<1>3. IsFiniteSet(ids \cap InboxIds(rows)) /\ n \in Nat
  BY <1>2, IdsCounted
<1>. HIDE DEF ids, n
<1>4. t \in KeepTask /\ t.step = "room" /\ t.ids = ids /\ t.n = n
  BY <1>2, <1>3 DEF KeepTask
<1>. HIDE DEF t
<1>5. Returning' = {}
  BY <1>1, <1>4 DEF Returning
<1>6. OrphansCross' /\ TaskHolds'
  <2>1. job["fg"] = IdleJob
    BY <1>1, JobIs DEF MailInv, Conns
  <2>. QED  BY <1>1, <1>4, <2>1 DEF OrphansCross, TaskHolds
<1>7. KeepHolds'
  <2>1. Keepable' = ids \cap InboxIds(rows)
    BY <1>1, <1>4 DEF Keepable, InboxIds, Present
  <2>2. Cardinality(KeptIds(rows)) <= KeptCap + overlaps /\ Cardinality(KeptIds(rows)) \in Nat
    BY InvBounds, ShownIsCounted, NatBounds DEF MailInv, BoundsNeedOverlap, kept_count
  <2>3. IsFiniteSet(KeptIds(rows))
    BY ShownIsCounted
  <2>4. /\ Cardinality(KeptIds(rows) \cup (ids \cap InboxIds(rows)))
           = Cardinality(KeptIds(rows)) + n - Cardinality(KeptIds(rows) \cap (ids \cap InboxIds(rows)))
        /\ Cardinality(KeptIds(rows) \cap (ids \cap InboxIds(rows))) \in Nat
    <3>1. KeptIds(rows) \cap (ids \cap InboxIds(rows)) \subseteq Ids
      BY Counting
    <3>. QED  BY <1>3, <2>3, <3>1, FS_Union, IdsCounted DEF n
  <2>5. KeptIds(rows)' = KeptIds(rows) /\ overlaps' = overlaps
    BY <1>1 DEF KeptIds, Present
  <2>. QED  BY <1>1, <1>3, <1>4, <2>1, <2>2, <2>4, <2>5, NatBounds DEF KeepHolds, MailInv, n
<1>. QED  BY <1>1, <1>4, <1>5, <1>6, <1>7, ReadingKeeps

LEMMA FindKeptRoomKeeps ==
    ASSUME MailInv, FindKeptRoom
    PROVE  MailInv'
<1>1. /\ task.step = "room" /\ task \in KeepTask
      /\ UNCHANGED <<rows, arrived, job, stale, overlaps, crossed, noticeVars, view>>
  BY TaskIs DEF FindKeptRoom, MailInv
<1>2. CASE ~AllFit(task.n)
  <2>1. task' = IdleTask
    BY <1>2 DEF FindKeptRoom
  <2>2. Returning' = {} /\ OrphansCross' /\ TaskHolds' /\ KeepHolds'
    BY <1>1, <2>1, IdleFields DEF Returning, OrphansCross, TaskHolds, KeepHolds
  <2>. QED  BY <1>1, <2>1, <2>2, ReadingKeeps
<1>3. CASE AllFit(task.n)
  <2>1. task' = [task EXCEPT !.step = "keep"]
    BY <1>3 DEF FindKeptRoom
  <2>2. task' \in KeepTask /\ task'.step = "keep" /\ task'.ids = task.ids
    BY <1>1, <2>1 DEF KeepTask
  <2>3. Returning' = {} /\ OrphansCross'
    BY <2>2 DEF Returning, OrphansCross
  <2>4. TaskHolds'
    <3>1. job["fg"] = IdleJob
      BY <1>1, IdleFields DEF MailInv, TaskHolds
    <3>. QED  BY <1>1, <2>2, <3>1 DEF TaskHolds
  <2>5. KeepHolds'
    <3>. DEFINE K == KeptIds(rows)
                I == Keepable
    <3>1. /\ K \subseteq Ids /\ I \subseteq Ids /\ K \cap I \subseteq Ids
          /\ KeptIds(rows)' = K /\ Keepable' = I
      BY <1>1, <2>2, Counting DEF Keepable, KeptIds, InboxIds, Present
    <3>2. /\ Cardinality(K \cup I) <= KeptCap + overlaps + task.n
          /\ Cardinality(I) <= task.n + overlaps
      BY <1>1 DEF MailInv, KeepHolds
    <3>3. task.n <= KeptCap - Cardinality(K) \/ task.n = 0
      BY <1>3 DEF AllFit, kept_count
    <3>. HIDE DEF K, I
    <3>4. /\ Cardinality(K \cup I) = Cardinality(K) + Cardinality(I) - Cardinality(K \cap I)
          /\ Cardinality(K) \in Nat /\ Cardinality(I) \in Nat /\ Cardinality(K \cap I) \in Nat
      BY <3>1, IdsCounted, FS_Union
    <3>5. Cardinality(K \cup I) <= KeptCap + overlaps
      BY <1>1, <3>2, <3>3, <3>4, NatBounds, TaskIs DEF MailInv
    <3>. QED  BY <1>1, <2>2, <3>1, <3>5 DEF KeepHolds
  <2>. QED  BY <1>1, <2>2, <2>3, <2>4, <2>5, ReadingKeeps
<1>. QED  BY <1>2, <1>3

\* A delete that has read that the other side's mark is there removes.
LEMMA DeleteReads ==
    ASSUME MailInv, DeleteTask' = DeleteTask,
           UNCHANGED <<rows, arrived, job, stale, overlaps, crossed, noticeVars, view>>,
           task' \in DeleteTask, job["fg"] = IdleJob,
           task'.one => \E i \in Ids : task'.ids = {i},
           task'.step = "delete" => task'.gone = AlsoGone(task'.side, task'.ids)
    PROVE  MailInv'
<1>1. task'.step \in {"select", "delete"}
  BY DEF DeleteTask
<1>2. ASSUME task'.step = "delete", NEW i \in task'.ids \ task'.gone, rows[i] # NoRow
      PROVE  ~OtherDeleted(task'.side, rows[i])
  <2>1. i \in Ids
    BY <1>2 DEF DeleteTask
  <2>. QED  BY <1>2, <2>1 DEF AlsoGone, Present
<1>3. Returning' = {}
  BY <1>2 DEF Returning, OtherDeleted
<1>4. OrphansCross'
  BY <1>2 DEF OrphansCross, OtherDeleted
<1>5. TaskHolds' /\ KeepHolds'
  BY <1>1 DEF TaskHolds, KeepHolds
<1>. QED  BY <1>3, <1>4, <1>5, ReadingKeeps

LEMMA DeletesRead ==
    ASSUME MailInv,
           \/ \E side \in Sides, i \in Ids : DeleteOne(side, i)
           \/ \E side \in Sides, S \in SUBSET Ids : DeleteSome(side, S)
           \/ SelectGone
    PROVE  MailInv'
<1>0. DeleteTask' = DeleteTask
  BY DEF DeleteTask
<1>1. ASSUME NEW side \in Sides, NEW i \in Ids, DeleteOne(side, i)
      PROVE  MailInv'
  <2>. DEFINE gone == AlsoGone(side, {i})
              t == [step |-> "delete", side |-> side, one |-> TRUE, ids |-> {i}, gone |-> gone]
  <2>1. /\ task' = t /\ job["fg"].step = "idle"
        /\ UNCHANGED <<rows, arrived, job, stale, overlaps, crossed, noticeVars, view>>
    BY <1>1 DEF DeleteOne, LaneFree
  <2>2. gone \in SUBSET Ids
    BY DEF AlsoGone
  <2>. HIDE DEF gone
  <2>3. /\ t \in DeleteTask /\ t.one /\ t.ids = {i} /\ t.side = side /\ t.gone = gone
    BY <2>2 DEF DeleteTask
  <2>. HIDE DEF t
  <2>4. job["fg"] = IdleJob
    BY <2>1, JobIs DEF MailInv, Conns
  <2>. QED  BY <1>0, <2>1, <2>3, <2>4, DeleteReads DEF gone
<1>2. ASSUME NEW side \in Sides, NEW S \in SUBSET Ids, DeleteSome(side, S)
      PROVE  MailInv'
  <2>. DEFINE ids == S \cap Undeleted(side)
              t == [step |-> "select", side |-> side, one |-> FALSE, ids |-> ids, gone |-> {}]
  <2>1. /\ task' = t /\ job["fg"].step = "idle"
        /\ UNCHANGED <<rows, arrived, job, stale, overlaps, crossed, noticeVars, view>>
    BY <1>2 DEF DeleteSome, LaneFree
  <2>2. ids \in SUBSET Ids
    OBVIOUS
  <2>. HIDE DEF ids
  <2>3. t \in DeleteTask /\ ~t.one /\ t.step = "select"
    BY <2>2 DEF DeleteTask
  <2>. HIDE DEF t
  <2>4. job["fg"] = IdleJob
    BY <2>1, JobIs DEF MailInv, Conns
  <2>. QED  BY <1>0, <2>1, <2>3, <2>4, DeleteReads
<1>3. ASSUME SelectGone
      PROVE  MailInv'
  <2>. DEFINE gone == AlsoGone(task.side, task.ids)
  <2>1. /\ task.step = "select" /\ task \in DeleteTask
        /\ task' = [task EXCEPT !.step = "delete", !.gone = gone]
        /\ UNCHANGED <<rows, arrived, job, stale, overlaps, crossed, noticeVars, view>>
    BY <1>3, TaskIs DEF SelectGone, MailInv
  <2>2. gone \in SUBSET Ids
    BY <2>1 DEF AlsoGone, DeleteTask
  <2>. HIDE DEF gone
  <2>3. /\ task' \in DeleteTask /\ task'.one = task.one /\ task'.ids = task.ids
        /\ task'.side = task.side /\ task'.gone = gone
    BY <2>1, <2>2 DEF DeleteTask
  <2>4. job["fg"] = IdleJob /\ (task.one => \E i \in Ids : task.ids = {i})
    BY <2>1, IdleFields DEF MailInv, TaskHolds
  <2>. QED  BY <1>0, <2>1, <2>3, <2>4, DeleteReads DEF gone
<1>. QED  BY <1>1, <1>2, <1>3

\* The list and the notices: nothing else changes.
LEMMA OthersKeep ==
    ASSUME MailInv, Reload \/ (\E u \in Menus : ReadNotice(u) \/ AckNotice(u)) \/ UNCHANGED vars
    PROVE  MailInv'
<1>1. UNCHANGED <<rows, arrived, job, task, stale, overlaps, crossed>>
  BY DEF Reload, ReadNotice, AckNotice, vars, historyVars
<1>2. NoOrphanRow' /\ RoomHolds' /\ KeepHolds' /\ OrphansCross' /\ TaskHolds'
  BY <1>1 DEF MailInv, NoOrphanRow, RoomHolds, KeepHolds, OrphansCross, TaskHolds, MayShow, MayBeKept,
              Returning, Keepable, Bound, Shown, InboxIds, KeptIds, Present
<1>3. ReadsHold' /\ LettersOnce'
  BY <1>1 DEF MailInv, ReadsHold, LettersOnce, inbox_count, IsVictim, Evictable, Before
<1>4. view' \subseteq Entry
  <2>1. CASE Reload
    <3>1. \A i \in InboxIds(rows) \cup KeptIds(rows) :
             [id |-> i, local |-> rows[i].kind = "local"] \in Entry
      <4>. TAKE i \in InboxIds(rows) \cup KeptIds(rows)
      <4>. DEFINE b == rows[i].kind = "local"
      <4>1. b \in BOOLEAN /\ i \in Ids
        BY Counting
      <4>. HIDE DEF b
      <4>2. [id |-> i, local |-> b] \in Entry
        BY <4>1 DEF Entry
      <4>. QED  BY <4>2 DEF b
    <3>2. view' = {[id |-> i, local |-> rows[i].kind = "local"] : i \in InboxIds(rows) \cup KeptIds(rows)}
      BY <2>1 DEF Reload
    <3>. QED  BY <3>1, <3>2
  <2>2. CASE UNCHANGED view
    BY <2>2 DEF MailInv, TypeOK
  <2>. QED  BY <2>1, <2>2 DEF ReadNotice, AckNotice, vars
<1>5. /\ notice \in Nat /\ menu \in [Menus -> Nat] /\ untold \in Int /\ together \in BOOLEAN
      /\ together \/ (notice = untold /\ \A u \in Menus : menu[u] <= notice)
      /\ together \/ \A u, w \in Menus : menu[u] > 0 /\ menu[w] > 0 => u = w
  BY DEF MailInv, TypeOK, NoticesHold, EvictionsTold
<1>6. /\ notice' \in Nat /\ menu' \in [Menus -> Nat] /\ untold' \in Int /\ together' \in BOOLEAN
      /\ together' \/ (notice' = untold' /\ \A u \in Menus : menu'[u] <= notice')
      /\ together' \/ \A u, w \in Menus : menu'[u] > 0 /\ menu'[w] > 0 => u = w
  <2>1. CASE UNCHANGED <<notice, menu, untold, together>>
    BY <1>5, <2>1
  <2>2. ASSUME NEW u \in Menus, ReadNotice(u)
        PROVE  <1>6!:
    <3>1. /\ menu' = [menu EXCEPT ![u] = notice] /\ menu[u] = 0 /\ notice' = notice /\ untold' = untold
          /\ together' = (together \/ \E w \in Menus : menu[w] > 0)
      BY <2>2 DEF ReadNotice
    <3>2. menu'[u] = notice /\ \A w \in Menus \ {u} : menu'[w] = menu[w]
      BY <1>5, <3>1
    <3>3. menu' \in [Menus -> Nat] /\ together' \in BOOLEAN /\ notice' \in Nat /\ untold' \in Int
      BY <1>5, <3>1
    <3>4. ASSUME ~together'
          PROVE  ~together /\ \A w \in Menus : menu[w] = 0
      <4>. DEFINE some == \E w \in Menus : menu[w] > 0
      <4>1. together' = (together \/ some)
        BY <3>1
      <4>. HIDE DEF some
      <4>2. ~together /\ ~some
        BY <3>4, <4>1
      <4>3. \A w \in Menus : ~(menu[w] > 0)
        BY <4>2 DEF some
      <4>. QED  BY <1>5, <4>2, <4>3
    <3>5. ~together' => notice' = untold' /\ \A w \in Menus : menu'[w] <= notice'
      BY <1>5, <3>1, <3>2, <3>4
    <3>6. ~together' => \A w, x \in Menus : menu'[w] > 0 /\ menu'[x] > 0 => w = x
      BY <3>2, <3>4
    <3>. QED  BY <3>3, <3>5, <3>6
  <2>3. ASSUME NEW u \in Menus, AckNotice(u)
        PROVE  <1>6!:
    <3>1. /\ menu' = [menu EXCEPT ![u] = 0] /\ menu[u] > 0
          /\ notice' = IF notice > menu[u] THEN notice - menu[u] ELSE 0
          /\ untold' = untold - menu[u] /\ together' = together
      BY <2>3 DEF AckNotice
    <3>2. menu'[u] = 0 /\ \A w \in Menus \ {u} : menu'[w] = menu[w]
      BY <1>5, <3>1
    <3>3. notice' \in Nat /\ menu' \in [Menus -> Nat] /\ untold' \in Int
      BY <1>5, <3>1
    <3>4. ASSUME ~together
          PROVE  notice' = untold' /\ \A w \in Menus : menu'[w] <= notice'
      <4>1. \A w \in Menus : menu'[w] = 0
        BY <1>5, <3>1, <3>2, <3>4
      <4>. QED  BY <1>5, <3>1, <3>3, <3>4, <4>1
    <3>. QED  BY <1>5, <3>1, <3>2, <3>3, <3>4
  <2>. QED  BY <2>1, <2>2, <2>3 DEF Reload, vars, historyVars
<1>7. TypeOK' /\ NoticesHold'
  BY <1>1, <1>4, <1>6 DEF MailInv, TypeOK, NoticesHold, EvictionsTold
<1>. QED  BY <1>2, <1>3, <1>7 DEF MailInv

-----------------------------------------------------------------------------
(* The deliveries.                                                           *)

LEMMA FindRoomKeeps ==
    ASSUME MailInv, NEW c \in Conns, NEW m \in Letters, NEW k \in Kinds, FindRoom(c, m, k)
    PROVE  MailInv'
<1>1. /\ arrived' = arrived \cup {m} /\ m \notin arrived
      /\ UNCHANGED <<rows, task, notice, menu, view, stale, overlaps, crossed, untold, together>>
      /\ c = "fg" => task = IdleTask
      /\ job[c].step = "idle" /\ job \in [Conns -> WriteJob \cup {IdleJob}]
  BY DEF FindRoom, historyVars, MailInv, TypeOK
<1>2. PICK j \in WriteJob \cup {IdleJob} :
         /\ job' = [job EXCEPT ![c] = j]
         /\ j = IdleJob \/ /\ j.step = "write" /\ j.letter = m
                           /\ IF j.victim = 0 THEN inbox_count < Cap
                              ELSE IsVictim(j.victim) /\ j.sdel = rows[j.victim].sdel
  <2>1. CASE UNCHANGED job
    <3>1. job[c] = IdleJob /\ job' = [job EXCEPT ![c] = IdleJob]
      BY <1>1, <2>1, JobIs DEF MailInv
    <3>. QED  BY <3>1
  <2>2. CASE /\ inbox_count < Cap
             /\ job' = [job EXCEPT ![c] = [step |-> "write", letter |-> m, kind |-> k,
                                           victim |-> 0, sdel |-> FALSE]]
    <3>. DEFINE j == [step |-> "write", letter |-> m, kind |-> k, victim |-> 0, sdel |-> FALSE]
    <3>1. j \in WriteJob /\ j.step = "write" /\ j.letter = m /\ j.victim = 0
      BY MailboxAssumption DEF WriteJob, MailboxAssumption
    <3>. QED  BY <2>2, <3>1
  <2>3. ASSUME NEW i \in Ids, IsVictim(i),
               job' = [job EXCEPT ![c] = [step |-> "write", letter |-> m, kind |-> k,
                                          victim |-> i, sdel |-> rows[i].sdel]]
        PROVE  \E j \in WriteJob \cup {IdleJob} :
                  /\ job' = [job EXCEPT ![c] = j]
                  /\ j = IdleJob \/ /\ j.step = "write" /\ j.letter = m
                                    /\ IF j.victim = 0 THEN inbox_count < Cap
                                       ELSE IsVictim(j.victim) /\ j.sdel = rows[j.victim].sdel
    <3>. DEFINE j == [step |-> "write", letter |-> m, kind |-> k, victim |-> i, sdel |-> rows[i].sdel]
    <3>1. i \in 0 .. MaxId /\ i # 0
      BY MailboxAssumption DEF Ids, MailboxAssumption
    <3>2. rows[i] \in Row
      BY <2>3 DEF IsVictim, Evictable, InboxIds, Present, MailInv, TypeOK
    <3>3. j \in WriteJob /\ j.step = "write" /\ j.letter = m /\ j.victim = i /\ j.sdel = rows[i].sdel
      BY <3>1, <3>2 DEF WriteJob, Row
    <3>. HIDE DEF j
    <3>4. job' = [job EXCEPT ![c] = j]
      BY <2>3 DEF j
    <3>. QED  BY <2>3, <3>1, <3>3, <3>4
  <2>. QED  BY <2>1, <2>2, <2>3 DEF FindRoom
<1>3. job'[c] = j /\ \A d \in Conns \ {c} : job'[d] = job[d]
  BY <1>1, <1>2
<1>4. TypeOK'
  BY <1>1, <1>2 DEF MailInv, TypeOK
<1>5. ReadsHold'
  <2>1. inbox_count' = inbox_count /\ \A i : IsVictim(i)' <=> IsVictim(i)
    BY <1>1 DEF inbox_count, IsVictim, Evictable, Before
  <2>2. IdleJob.step # "write"
    BY DEF IdleJob
  <2>. QED  BY <1>1, <1>2, <1>3, <2>1, <2>2 DEF MailInv, ReadsHold
<1>6. LettersOnce'
  <2>1. IdleJob.step # "write"
    BY DEF IdleJob
  <2>2. \A i \in Present(rows) : rows[i].letter # m
    BY <1>1 DEF MailInv, LettersOnce
  <2>. QED  BY <1>1, <1>2, <1>3, <2>1, <2>2 DEF MailInv, LettersOnce
<1>7. NoOrphanRow' /\ NoticesHold' /\ KeepHolds' /\ OrphansCross'
  BY <1>1 DEF MailInv, NoOrphanRow, NoticesHold, EvictionsTold, KeepHolds, OrphansCross, Keepable,
              InboxIds, KeptIds, Present
<1>8. TaskHolds'
  <2>1. task = IdleTask \/ job'["fg"] = job["fg"]
    BY <1>1, <1>3 DEF Conns
  <2>. QED  BY <1>1, <2>1 DEF MailInv, TaskHolds
<1>9. RoomHolds'
  <2>1. /\ MayShow' = MayShow /\ MayBeKept' = MayBeKept /\ Bound' = Bound /\ overlaps' = overlaps
    BY <1>1 DEF MayShow, MayBeKept, Shown, Returning, InboxIds, KeptIds, Present, Bound
  <2>2. ASSUME j # IdleJob
        PROVE  Cardinality(MayShow \ {j.victim}) + 1 <= Bound
    <3>. DEFINE I == InboxIds(rows)
                K == MayBeKept
    <3>1. MayShow = I \cup K /\ I \subseteq Ids /\ K \subseteq Ids /\ MayShow \subseteq Ids
      BY Counting DEF MayShow, MayBeKept, Shown
    <3>2. IsFiniteSet(I) /\ IsFiniteSet(K) /\ IsFiniteSet(MayShow) /\ Cardinality(MayShow) \in Nat
      BY <3>1, IdsCounted
    <3>3. Cardinality(K) <= KeptCap + overlaps /\ Cardinality(MayShow) <= Bound
      BY DEF MailInv, RoomHolds
    <3>. HIDE DEF I, K
    <3>4. CASE j.victim = 0
      <4>1. inbox_count < Cap
        BY <1>2, <2>2, <3>4
      <4>2. /\ Cardinality(I \cup K) = Cardinality(I) + Cardinality(K) - Cardinality(I \cap K)
            /\ Cardinality(I) \in Nat /\ Cardinality(K) \in Nat /\ Cardinality(I \cap K) \in Nat
        BY <3>2, FS_Union, FS_Intersection, FS_CardinalityType
      <4>3. MayShow \ {j.victim} \subseteq MayShow
        OBVIOUS
      <4>4. /\ Cardinality(MayShow \ {j.victim}) <= Cardinality(MayShow)
            /\ Cardinality(MayShow \ {j.victim}) \in Nat
        BY <3>2, <4>3, SubsetCounted
      <4>. QED  BY <3>1, <3>3, <4>1, <4>2, <4>4, NatBounds DEF MailInv, Bound, inbox_count, I
    <3>5. CASE j.victim # 0
      <4>1. j.victim \in MayShow
        BY <1>2, <2>2, <3>5 DEF IsVictim, Evictable, MayShow, Shown
      <4>2. Cardinality(MayShow \ {j.victim}) = Cardinality(MayShow) - 1
        BY <3>2, <4>1, FS_RemoveElement
      <4>. QED  BY <3>2, <3>3, <4>2, NatBounds DEF MailInv
    <3>. QED  BY <3>4, <3>5
  <2>3. ASSUME NEW d \in Conns, job'[d].step = "write"
        PROVE  Cardinality(MayShow \ {job'[d].victim}) + 1 <= Bound
    <3>1. CASE d = c
      BY <1>3, <2>2, <2>3, <3>1, IdleFields
    <3>2. CASE d # c
      BY <1>3, <2>3, <3>2 DEF MailInv, RoomHolds
    <3>. QED  BY <3>1, <3>2
  <2>. QED  BY <2>1, <2>3 DEF MailInv, RoomHolds
<1>. QED  BY <1>4, <1>5, <1>6, <1>7, <1>8, <1>9 DEF MailInv

LEMMA NewRowFields ==
    ASSUME NEW m, NEW k
    PROVE  /\ NewRow(m, k).letter = m /\ NewRow(m, k).first = "never"
           /\ NewRow(m, k).kept = FALSE /\ NewRow(m, k).rdel = FALSE
<1>. DEFINE b == k # "local"
<1>1. NewRow(m, k) = [letter |-> m, kind |-> k, read |-> FALSE, kept |-> FALSE, first |-> "never",
                      sdel |-> b, rdel |-> FALSE]
  BY DEF NewRow
<1>. HIDE DEF b
<1>. QED  BY <1>1

\* What a delivery does to the table: its letter gets a row that was free or
\* was the victim's, and only the victim's row changes besides.
Delivered(j, i) ==
    /\ rows' \in Tables
    /\ rows'[i] = NewRow(j.letter, j.kind) /\ rows'[i] \in Row
    /\ rows[i] = NoRow \/ (i = j.victim /\ j.sdel)
    /\ \A p \in Ids \ {i} :
          \/ rows'[p] = rows[p] /\ (p # j.victim \/ rows[p] = NoRow)
          \/ p = j.victim /\ rows'[p] = NoRow
          \/ /\ p = j.victim /\ ~j.sdel /\ rows[p] \in Row
             /\ rows'[p] = [rows[p] EXCEPT !.sdel = FALSE, !.rdel = TRUE] /\ rows'[p] \in Row

LEMMA DeliveredElsewhere ==
    ASSUME NEW j, NEW k \in Ids, Delivered(j, k), NEW p \in Ids, p # k
    PROVE  rows'[p] = rows[p] \/ rows'[p] = NoRow \/ (p = j.victim /\ ~j.sdel)
<1>1. \/ rows'[p] = rows[p] /\ (p # j.victim \/ rows[p] = NoRow)
      \/ p = j.victim /\ rows'[p] = NoRow
      \/ /\ p = j.victim /\ ~j.sdel /\ rows[p] \in Row
         /\ rows'[p] = [rows[p] EXCEPT !.sdel = FALSE, !.rdel = TRUE] /\ rows'[p] \in Row
  BY Zenon DEF Delivered
<1>2. CASE rows'[p] = rows[p]
  BY <1>2
<1>3. CASE rows'[p] = NoRow
  BY <1>3
<1>4. CASE p = j.victim /\ ~j.sdel
  BY <1>4
<1>. QED  BY <1>1, <1>2, <1>3, <1>4

LEMMA Delivering ==
    ASSUME MailInv, NEW c \in Conns, WriteLetter(c)
    PROVE  \E i \in Ids : Delivered(job[c], i)
<1>. DEFINE j == job[c]
            K == IF j.victim = 0 THEN rows ELSE Removed(rows, j.victim, j.sdel)
<1>1. rows \in Tables /\ j \in WriteJob
  BY JobIs DEF MailInv, TypeOK, Tables, WriteLetter
<1>2. PICK i \in Ids : /\ \A p \in Present(K) : p < i
                       /\ rows' = [K EXCEPT ![i] = NewRow(j.letter, j.kind)]
  BY DEF WriteLetter
<1>3. /\ j.letter \in Letters /\ j.kind \in Kinds /\ j.sdel \in BOOLEAN
      /\ j.victim = 0 \/ j.victim \in Ids
  BY <1>1, MailboxAssumption DEF WriteJob, Ids, MailboxAssumption
<1>. HIDE DEF j
<1>4. NewRow(j.letter, j.kind) \in Row
  BY <1>3 DEF NewRow, Row
<1>5. /\ K \in Tables
      /\ \A p \in Ids : \/ K[p] = rows[p] /\ (p # j.victim \/ rows[p] = NoRow)
                        \/ p = j.victim /\ j.sdel /\ K[p] = NoRow
                        \/ /\ p = j.victim /\ ~j.sdel /\ rows[p] \in Row
                           /\ K[p] = [rows[p] EXCEPT !.sdel = FALSE, !.rdel = TRUE] /\ K[p] \in Row
  <2>0. 0 \notin Ids
    BY MailboxAssumption DEF Ids, MailboxAssumption
  <2>1. CASE j.victim = 0
    BY <1>1, <2>0, <2>1
  <2>2. CASE j.victim \in Ids /\ rows[j.victim] = NoRow
    BY <1>1, <2>0, <2>2 DEF Removed
  <2>3. CASE j.victim \in Ids /\ rows[j.victim] # NoRow
    <3>. DEFINE v == j.victim
                x == IF j.sdel THEN NoRow ELSE [rows[v] EXCEPT !.sdel = FALSE, !.rdel = TRUE]
    <3>1. rows[v] \in Row
      BY <1>1, <2>3 DEF Tables
    <3>2. [rows[v] EXCEPT !.sdel = FALSE, !.rdel = TRUE] \in Row
      BY <3>1 DEF Row
    <3>3. K = [rows EXCEPT ![v] = x]
      BY <2>0, <2>3 DEF Removed
    <3>4. x \in Row \cup {NoRow} /\ (x = NoRow \/ ~j.sdel) /\ (j.sdel => x = NoRow)
      BY <3>2
    <3>. HIDE DEF v
    <3>5. v \in Ids /\ v = j.victim
      BY <2>3 DEF v
    <3>6. K[v] = x /\ (\A p \in Ids \ {v} : K[p] = rows[p]) /\ K \in Tables
      BY <1>1, <3>3, <3>4, <3>5, ZenonT(60) DEF Tables
    <3>. QED  BY <1>3, <3>1, <3>2, <3>5, <3>6
  <2>. QED  BY <1>3, <2>1, <2>2, <2>3
<1>6. K[i] = NoRow
  <2>1. i \notin Present(K)
    BY <1>2 DEF Ids
  <2>. QED  BY <2>1 DEF Present
<1>. HIDE DEF K
<1>7. /\ rows' \in Tables /\ rows'[i] = NewRow(j.letter, j.kind)
      /\ \A p \in Ids \ {i} : rows'[p] = K[p]
  BY <1>2, <1>4, <1>5 DEF Tables
<1>8. rows[i] = NoRow \/ (i = j.victim /\ j.sdel)
  BY <1>5, <1>6, RowOrNone
<1>9. \A p \in Ids \ {i} :
          \/ rows'[p] = rows[p] /\ (p # j.victim \/ rows[p] = NoRow)
          \/ p = j.victim /\ rows'[p] = NoRow
          \/ /\ p = j.victim /\ ~j.sdel /\ rows[p] \in Row
             /\ rows'[p] = [rows[p] EXCEPT !.sdel = FALSE, !.rdel = TRUE] /\ rows'[p] \in Row
  <2>. TAKE p \in Ids \ {i}
  <2>1. rows'[p] = K[p] /\ p \in Ids
    BY <1>7
  <2>. QED  BY <1>5, <2>1
<1>10. Delivered(j, i)
  BY <1>4, <1>7, <1>8, <1>9 DEF Delivered
<1>. QED  BY <1>10 DEF j

\* What the table shows after a delivery.
LEMMA DeliveredShows ==
    ASSUME MailInv, NEW j \in WriteJob, NEW i \in Ids, Delivered(j, i)
    PROVE  /\ InboxIds(rows') \subseteq (InboxIds(rows) \ {j.victim}) \cup {i}
           /\ KeptIds(rows') \subseteq KeptIds(rows)
           /\ Shown(rows') \subseteq (Shown(rows) \ {j.victim}) \cup {i}
<1>1. ~rows'[i].kept /\ ~rows'[i].rdel
  BY NewRowFields, ZenonT(60) DEF Delivered
<1>2. ASSUME NEW p \in Present(rows'), p # i, ~rows'[p].rdel
      PROVE  p \in Present(rows) /\ ~rows[p].rdel /\ rows'[p].kept = rows[p].kept /\ p # j.victim
  <2>0. p \in Ids /\ rows'[p] # NoRow
    BY DEF Present
  <2>1. CASE rows'[p] = rows[p] /\ (p # j.victim \/ rows[p] = NoRow)
    BY <1>2, <2>0, <2>1 DEF Present
  <2>2. ~(/\ p = j.victim /\ ~j.sdel /\ rows[p] \in Row
          /\ rows'[p] = [rows[p] EXCEPT !.sdel = FALSE, !.rdel = TRUE] /\ rows'[p] \in Row)
    BY <1>2 DEF Row
  <2>. QED  BY <1>2, <2>0, <2>1, <2>2 DEF Delivered
<1>3. ASSUME NEW p \in Shown(rows'), p # i
      PROVE  /\ p \in Shown(rows) \ {j.victim}
             /\ p \in InboxIds(rows') => p \in InboxIds(rows)
             /\ p \in KeptIds(rows') => p \in KeptIds(rows)
  <2>1. p \in Present(rows') /\ ~rows'[p].rdel
    BY <1>3 DEF Shown, InboxIds, KeptIds
  <2>2. p \in Present(rows) /\ ~rows[p].rdel /\ rows'[p].kept = rows[p].kept /\ p # j.victim
    BY <1>2, <1>3, <2>1
  <2>. QED  BY <1>3, <2>2 DEF Shown, InboxIds, KeptIds
<1>4. i \notin KeptIds(rows')
  BY <1>1 DEF KeptIds
<1>. QED  BY <1>3, <1>4 DEF Shown

\* What may show after a delivery: a letter whose eviction is about to be
\* undone may have shown before.
LEMMA DeliveredMayShow ==
    ASSUME MailInv, NEW c \in Conns, NEW i \in Ids, Delivered(job[c], i), job[c] \in WriteJob,
           UNCHANGED task
    PROVE  /\ MayShow' \subseteq MayShow \cup {i}
           /\ Returning = {} /\ Returning' = {} => MayShow' \subseteq (MayShow \ {job[c].victim}) \cup {i}
           /\ KeptIds(rows') \subseteq KeptIds(rows)
           /\ Keepable' \subseteq Keepable \cup {i}
<1>. DEFINE j == job[c]
<1>1. /\ InboxIds(rows') \subseteq (InboxIds(rows) \ {j.victim}) \cup {i}
      /\ KeptIds(rows') \subseteq KeptIds(rows)
      /\ Shown(rows') \subseteq (Shown(rows) \ {j.victim}) \cup {i}
  BY DeliveredShows
<1>. HIDE DEF j
<1>2. ASSUME NEW p \in Returning', p # i
      PROVE  p \in MayShow
  <2>1. /\ p \in Ids /\ rows'[p] # NoRow /\ rows'[p].rdel
        /\ task.step = "delete" /\ task.one /\ task.side = "sender" /\ p \in task.ids \ task.gone
    BY <1>2 DEF Returning
  <2>2. rows[p] # NoRow
    <3>1. \/ rows'[p] = rows[p]
          \/ rows'[p] = NoRow
          \/ rows[p] \in Row
      BY <1>2, <2>1, Zenon DEF Delivered
    <3>. QED  BY <2>1, <3>1, RowOrNone
  <2>3. CASE rows[p].rdel
    BY <2>1, <2>2, <2>3 DEF MayShow, Returning
  <2>4. CASE ~rows[p].rdel
    <3>1. rows[p] \in Row
      BY <2>1, <2>2 DEF MailInv, TypeOK
    <3>. QED  BY <2>1, <2>2, <2>4 DEF MayShow, Shown, InboxIds, KeptIds, Present
  <2>. QED  BY <2>3, <2>4
<1>3. MayShow' = Shown(rows') \cup Returning' /\ MayShow = Shown(rows) \cup Returning
  BY DEF MayShow, Shown, InboxIds, KeptIds, Present
<1>4. MayShow' \subseteq MayShow \cup {i}
  BY <1>1, <1>2, <1>3
<1>5. Keepable' = task.ids \cap InboxIds(rows') /\ Keepable = task.ids \cap InboxIds(rows)
  BY DEF Keepable, InboxIds, Present
<1>. QED  BY <1>1, <1>3, <1>4, <1>5 DEF j

\* One more overlap pays for one more letter.
LEMMA OneMore ==
    ASSUME NEW S, NEW T, NEW x, T \subseteq Ids, S \subseteq T \cup {x},
           NEW n \in Int, Cardinality(T) <= n
    PROVE  /\ Cardinality(S) \in Nat /\ Cardinality(T) \in Nat
           /\ Cardinality(S) <= n + 1 /\ (S \subseteq T => Cardinality(S) <= n)
<1>1. IsFiniteSet(T)
  BY IdsCounted
<1>2. /\ Cardinality(S) \in Nat /\ Cardinality(T) \in Nat
      /\ Cardinality(S) <= Cardinality(T) + 1
      /\ S \subseteq T => Cardinality(S) <= Cardinality(T)
  BY <1>1, FewerOrOneMore
<1>. QED  BY <1>2

LEMMA DeliveryFits ==
    ASSUME MailInv, NEW c \in Conns, WriteLetter(c)
    PROVE  RoomHolds' /\ KeepHolds'
<1>. DEFINE j == job[c]
<1>1. j \in WriteJob /\ j.step = "write" /\ job \in [Conns -> WriteJob \cup {IdleJob}]
  BY JobIs DEF MailInv, TypeOK, WriteLetter
<1>2. PICK i \in Ids : Delivered(j, i)
  BY Delivering
<1>3. /\ overlaps' = IF Overlapping(c) THEN overlaps + 1 ELSE overlaps
      /\ job' = [job EXCEPT ![c] = IdleJob] /\ task' = task
  BY DEF WriteLetter
<1>4. job'[c] = IdleJob /\ \A d \in Conns \ {c} : job'[d] = job[d]
  BY <1>1, <1>3
<1>5. /\ MayShow' \subseteq MayShow \cup {i}
      /\ Returning = {} /\ Returning' = {} => MayShow' \subseteq (MayShow \ {j.victim}) \cup {i}
      /\ KeptIds(rows') \subseteq KeptIds(rows)
      /\ Keepable' \subseteq Keepable \cup {i}
  BY <1>1, <1>2, <1>3, DeliveredMayShow
<1>6. /\ Cap \in Nat /\ KeptCap \in Nat /\ overlaps \in Nat /\ Bound \in Nat
      /\ Bound' = Cap + KeptCap + overlaps' /\ Bound = Cap + KeptCap + overlaps
  BY NatBounds DEF MailInv, Bound
<1>7. /\ Cardinality(MayShow) <= Bound
      /\ Cardinality(MayShow \ {j.victim}) + 1 <= Bound
      /\ Cardinality(MayBeKept) <= KeptCap + overlaps
  BY <1>1 DEF MailInv, RoomHolds
<1>8. ~Refilling => /\ Returning = {} /\ Returning' = {}
                    /\ task.step # "keep" /\ task.step # "room"
  BY <1>3, TaskIs DEF Refilling, Returning, MailInv
<1>9. Cardinality(MayShow') <= Bound'
  <2>1. CASE Overlapping(c)
    <3>1. Bound' = Bound + 1
      BY <1>3, <1>6, <2>1
    <3>2. Bound \in Int /\ MayShow \subseteq Ids
      BY <1>6, Counting
    <3>3. Cardinality(MayShow') <= Bound + 1
      BY <1>5, <1>7, <3>2, OneMore
    <3>. QED  BY <3>1, <3>3
  <2>2. CASE ~Overlapping(c)
    <3>1. MayShow' \subseteq (MayShow \ {j.victim}) \cup {i}
      BY <1>5, <1>8, <2>2 DEF Overlapping
    <3>2. MayShow \ {j.victim} \subseteq Ids /\ Bound' = Bound
      BY <1>3, <1>6, <2>2, Counting
    <3>3. Cardinality(MayShow \ {j.victim}) <= Bound - 1
      BY <1>6, <1>7, <3>2, IdsCounted
    <3>4. Bound - 1 \in Int /\ (Bound - 1) + 1 = Bound
      BY <1>6
    <3>5. Cardinality(MayShow') <= (Bound - 1) + 1
      BY <3>1, <3>2, <3>3, <3>4, OneMore
    <3>. QED  BY <3>2, <3>4, <3>5
  <2>. QED  BY <2>1, <2>2
<1>10. ASSUME NEW d \in Conns, job'[d].step = "write"
       PROVE  Cardinality(MayShow' \ {job'[d].victim}) + 1 <= Bound'
  <2>1. d # c /\ job'[d] = job[d]
    BY <1>4, <1>10, IdleFields
  <2>2. Overlapping(c)
    BY <1>10, <2>1 DEF Overlapping
  <2>3. Bound' = Bound + 1
    BY <1>3, <1>6, <2>2
  <2>4. /\ MayShow \ {job[d].victim} \subseteq Ids
        /\ MayShow' \ {job[d].victim} \subseteq (MayShow \ {job[d].victim}) \cup {i}
    BY <1>5, Counting
  <2>5. Cardinality(MayShow \ {job[d].victim}) + 1 <= Bound
    BY <1>10, <2>1 DEF MailInv, RoomHolds
  <2>6. /\ Cardinality(MayShow \ {job[d].victim}) <= Bound - 1
        /\ Cardinality(MayShow' \ {job[d].victim}) \in Nat
    <3>1. MayShow' \ {job[d].victim} \subseteq Ids
      BY <1>5, Counting
    <3>. QED  BY <1>6, <2>4, <2>5, <3>1, IdsCounted
  <2>7. Bound - 1 \in Int
    BY <1>6
  <2>8. Cardinality(MayShow' \ {job[d].victim}) <= (Bound - 1) + 1
    BY <2>4, <2>6, <2>7, OneMore
  <2>. QED  BY <1>6, <2>1, <2>3, <2>6, <2>8
<1>11. Cardinality(MayBeKept') <= KeptCap + overlaps'
  <2>0. MayBeKept' = KeptIds(rows') \cup Returning'
    BY DEF MayBeKept, KeptIds, Present
  <2>1. CASE Refilling /\ task.step = "delete" /\ task.one
    <3>1. PICK k \in Ids : task.ids = {k}
      BY <2>1 DEF MailInv, TaskHolds
    <3>2. Returning' \subseteq {k}
      BY <1>3, <3>1 DEF Returning
    <3>3. MayBeKept' \subseteq MayBeKept \cup {k}
      BY <1>5, <2>0, <3>2 DEF MayBeKept
    <3>4. overlaps' = overlaps + 1
      BY <1>3, <2>1 DEF Overlapping
    <3>5. KeptCap + overlaps \in Int /\ MayBeKept \subseteq Ids
      BY <1>6, Counting
    <3>6. Cardinality(MayBeKept') <= (KeptCap + overlaps) + 1
      BY <1>7, <3>3, <3>5, OneMore
    <3>. QED  BY <1>6, <3>4, <3>6
  <2>2. CASE ~(Refilling /\ task.step = "delete" /\ task.one)
    <3>1. Returning' = {}
      BY <1>3, <1>8, <2>2 DEF Returning
    <3>2. MayBeKept' \subseteq MayBeKept
      BY <1>5, <2>0, <3>1 DEF MayBeKept
    <3>3. MayBeKept' \subseteq MayBeKept \cup {0} /\ KeptCap + overlaps \in Int
      BY <1>6, <3>2
    <3>4. Cardinality(MayBeKept') <= KeptCap + overlaps
      BY <1>7, <3>2, <3>3, Counting, OneMore
    <3>5. Cardinality(MayBeKept') \in Nat
      BY <3>2, Counting, IdsCounted
    <3>. QED  BY <1>3, <1>6, <3>4, <3>5
  <2>. QED  BY <2>1, <2>2
<1>12. KeepHolds'
  <2>1. SUFFICES ASSUME task.step \in {"room", "keep"} PROVE KeepHolds'
    BY <1>3 DEF KeepHolds
  <2>2. Refilling /\ task.n \in Nat /\ overlaps' = overlaps + 1
    <3>1. task \in KeepTask
      BY <2>1, TaskIs DEF MailInv
    <3>. QED  BY <1>3, <3>1, TaskIs DEF Refilling, Overlapping, MailInv
  <2>3. (KeptIds(rows) \cup Keepable)' = KeptIds(rows') \cup Keepable'
    BY DEF KeptIds, Present
  <2>4. (KeptIds(rows) \cup Keepable)' \subseteq (KeptIds(rows) \cup Keepable) \cup {i}
    BY <1>5, <2>3
  <2>5. KeptIds(rows) \cup Keepable \subseteq Ids /\ Keepable \subseteq Ids
    BY Counting
  <2>6. CASE task.step = "keep"
    <3>1. Cardinality(KeptIds(rows) \cup Keepable) <= KeptCap + overlaps
      BY <2>6 DEF MailInv, KeepHolds
    <3>2. KeptCap + overlaps \in Int
      BY <1>6
    <3>3. Cardinality((KeptIds(rows) \cup Keepable)') <= (KeptCap + overlaps) + 1
      BY <2>4, <2>5, <3>1, <3>2, OneMore
    <3>. QED  BY <1>3, <1>6, <2>2, <2>6, <3>3 DEF KeepHolds
  <2>7. CASE task.step = "room"
    <3>1. /\ Cardinality(KeptIds(rows) \cup Keepable) <= KeptCap + overlaps + task.n
          /\ Cardinality(Keepable) <= task.n + overlaps
      BY <2>7 DEF MailInv, KeepHolds
    <3>2. KeptCap + overlaps + task.n \in Int /\ task.n + overlaps \in Int
      BY <1>6, <2>2
    <3>3. Cardinality((KeptIds(rows) \cup Keepable)') <= (KeptCap + overlaps + task.n) + 1
      BY <2>4, <2>5, <3>1, <3>2, OneMore
    <3>4. Cardinality(Keepable') <= (task.n + overlaps) + 1
      BY <1>5, <2>5, <3>1, <3>2, OneMore
    <3>. QED  BY <1>3, <1>6, <2>2, <2>7, <3>3, <3>4 DEF KeepHolds
  <2>. QED  BY <2>1, <2>6, <2>7
<1>. QED  BY <1>9, <1>10, <1>11, <1>12 DEF RoomHolds

LEMMA WriteLetterKeeps ==
    ASSUME MailInv, NEW c \in Conns, WriteLetter(c)
    PROVE  MailInv'
<1>. DEFINE j == job[c]
<1>1. /\ j \in WriteJob /\ j.step = "write"
      /\ rows \in Tables /\ job \in [Conns -> WriteJob \cup {IdleJob}]
      /\ notice \in Nat /\ overlaps \in Nat /\ untold \in Int
      /\ stale \in [Conns -> BOOLEAN]
  BY JobIs DEF MailInv, TypeOK, Tables, WriteLetter
<1>2. PICK i \in Ids : Delivered(j, i)
  BY Delivering
<1>3. /\ notice' = notice + Counted(j)
      /\ untold' = untold + (IF j.victim # 0 THEN 1 ELSE 0)
      /\ overlaps' = IF Overlapping(c) THEN overlaps + 1 ELSE overlaps
      /\ crossed' = IF BulkDelete
                    THEN crossed \cup {j.letter} \cup {rows[p].letter : p \in Present(rows) \cap {j.victim}}
                    ELSE crossed
      /\ job' = [job EXCEPT ![c] = IdleJob]
      /\ stale' = [d \in Conns |-> IF d = c THEN FALSE ELSE stale[d] \/ job[d].step = "write"]
      /\ UNCHANGED <<arrived, task, menu, view, together>>
  BY DEF WriteLetter, Touched
<1>4. job'[c] = IdleJob /\ \A d \in Conns \ {c} : job'[d] = job[d]
  BY <1>1, <1>3
<1>. HIDE DEF j
<1>5. TypeOK'
  <2>1. rows' \in [Ids -> Row \cup {NoRow}]
    BY <1>2 DEF Delivered, Tables
  <2>2. notice' \in Nat /\ untold' \in Int /\ overlaps' \in Nat
    BY <1>1, <1>3 DEF Counted
  <2>3. stale' \in [Conns -> BOOLEAN] /\ job' \in [Conns -> WriteJob \cup {IdleJob}]
    BY <1>1, <1>3
  <2>4. crossed' \subseteq Letters
    <3>1. j.letter \in Letters /\ crossed \subseteq Letters
      BY <1>1 DEF WriteJob, MailInv, TypeOK
    <3>2. \A p \in Present(rows) : rows[p].letter \in Letters
      BY <1>1 DEF Present, Tables, Row
    <3>. QED  BY <1>3, <3>1, <3>2
  <2>5. DeleteTask' = DeleteTask /\ KeepTask' = KeepTask
    BY DEF DeleteTask, KeepTask
  <2>. QED  BY <1>3, <2>1, <2>2, <2>3, <2>4 DEF MailInv, TypeOK
<1>6. NoticesHold'
  <2>1. /\ menu \in [Menus -> Nat]
        /\ together \/ (notice = untold /\ \A u \in Menus : menu[u] <= notice)
        /\ together \/ \A u, w \in Menus : menu[u] > 0 /\ menu[w] > 0 => u = w
    BY DEF MailInv, TypeOK, NoticesHold, EvictionsTold
  <2>2. notice' \in Nat /\ notice' >= notice /\ (notice = untold => notice' = untold')
    BY <1>1, <1>3 DEF Counted
  <2>3. \A u \in Menus : menu[u] <= notice => menu[u] <= notice'
    BY <1>1, <2>1, <2>2
  <2>. QED  BY <1>3, <2>1, <2>2, <2>3 DEF NoticesHold, EvictionsTold
\* The victim's row is left with the sender's side undeleted.
<1>7. ASSUME NEW p \in Ids, rows'[p] # NoRow
      PROVE  \/ p = i /\ ~rows'[p].rdel /\ rows'[p].letter = j.letter
             \/ rows'[p] = rows[p]
             \/ /\ p = j.victim /\ rows[p] \in Row /\ rows'[p].letter = rows[p].letter
                /\ ~rows'[p].sdel
  <2>1. CASE p = i
    <3>1. rows'[i] = NewRow(j.letter, j.kind)
      BY <1>2 DEF Delivered
    <3>2. NewRow(j.letter, j.kind).letter = j.letter
      BY NewRowFields
    <3>3. rows'[i].letter = j.letter
      BY <3>1, <3>2
    <3>4. ~rows'[i].rdel
      BY <1>2, NewRowFields, ZenonT(60) DEF Delivered
    <3>. QED  BY <2>1, <3>3, <3>4
  <2>2. CASE /\ p = j.victim /\ ~j.sdel /\ rows[p] \in Row
             /\ rows'[p] = [rows[p] EXCEPT !.sdel = FALSE, !.rdel = TRUE] /\ rows'[p] \in Row
    BY <2>2 DEF Row
  <2>3. \/ p = i
        \/ rows'[p] = rows[p] /\ (p # j.victim \/ rows[p] = NoRow)
        \/ p = j.victim /\ rows'[p] = NoRow
        \/ /\ p = j.victim /\ ~j.sdel /\ rows[p] \in Row
           /\ rows'[p] = [rows[p] EXCEPT !.sdel = FALSE, !.rdel = TRUE] /\ rows'[p] \in Row
    BY <1>2, Zenon DEF Delivered
  <2>. QED  BY <1>7, <2>1, <2>2, <2>3
<1>8. crossed \subseteq crossed'
  BY <1>3
<1>9. NoOrphanRow'
  <2>. SUFFICES ASSUME NEW p \in Ids, rows'[p] # NoRow, rows'[p].sdel, rows'[p].rdel
                PROVE  rows'[p].letter \in crossed'
    BY DEF NoOrphanRow, Present
  <2>1. rows'[p] = rows[p]
    BY <1>7
  <2>. QED  BY <1>8, <2>1 DEF MailInv, NoOrphanRow, Present
<1>10. OrphansCross'
  <2>. SUFFICES ASSUME task.step = "delete", ~task.one, NEW p \in task.ids \ task.gone,
                       rows'[p] # NoRow, OtherDeleted(task.side, rows'[p])
                PROVE  rows'[p].letter \in crossed'
    BY <1>3 DEF OrphansCross, OtherDeleted
  <2>1. task \in DeleteTask /\ p \in Ids
    BY TaskIs DEF MailInv
  <2>2. BulkDelete
    BY <2>1 DEF BulkDelete
  <2>3. CASE rows'[p] = rows[p]
    BY <1>8, <2>3 DEF MailInv, OrphansCross
  <2>4. CASE rows'[p].letter = j.letter
    BY <1>3, <2>2, <2>4
  <2>5. CASE p = j.victim /\ rows[p] \in Row /\ rows'[p].letter = rows[p].letter
    <3>1. p \in Present(rows) \cap {j.victim}
      BY <2>1, <2>5, RowOrNone DEF Present
    <3>. QED  BY <1>3, <2>2, <2>5, <3>1
  <2>. QED  BY <1>7, <2>1, <2>3, <2>4, <2>5
<1>11. TaskHolds'
  <2>1. job["fg"] = IdleJob => job'["fg"] = IdleJob
    BY <1>4 DEF Conns
  <2>. QED  BY <1>3, <2>1 DEF MailInv, TaskHolds
<1>12. ReadsHold'
  <2>1. IdleJob.step # "write"
    BY DEF IdleJob
  <2>2. \A d \in Conns : job'[d].step = "write" => stale'[d]
    BY <1>3, <1>4, <2>1
  <2>. QED  BY <2>2 DEF ReadsHold
<1>13. LettersOnce'
  <2>1. IdleJob.step # "write"
    BY DEF IdleJob
  <2>2. \A p \in Present(rows') : rows'[p].letter = j.letter \/ (p \in Present(rows) /\ rows'[p].letter = rows[p].letter)
    <3>. TAKE p \in Present(rows')
    <3>1. p \in Ids /\ rows'[p] # NoRow
      BY DEF Present
    <3>2. CASE p = i
      <4>1. rows'[i] = NewRow(j.letter, j.kind)
        BY <1>2 DEF Delivered
      <4>2. NewRow(j.letter, j.kind).letter = j.letter
        BY NewRowFields
      <4>3. rows'[i].letter = j.letter
        BY <4>1, <4>2
      <4>. QED  BY <3>2, <4>3
    <3>3. CASE p # i /\ rows'[p] = rows[p]
      BY <3>1, <3>3 DEF Present
    <3>4. CASE rows[p] \in Row /\ rows'[p] = [rows[p] EXCEPT !.sdel = FALSE, !.rdel = TRUE]
      BY <3>1, <3>4, RowOrNone DEF Row, Present
    <3>. QED  BY <1>2, <3>1, <3>2, <3>3, <3>4 DEF Delivered
  <2>3. j.letter \in arrived
    BY <1>1 DEF MailInv, LettersOnce, j
  <2>4. \A d \in Conns \ {c} : job[d].step = "write" => job[d].letter # j.letter
    BY <1>1 DEF MailInv, LettersOnce, j
  <2>5. \A p \in Present(rows') : rows'[p].letter \in arrived
    BY <2>2, <2>3 DEF MailInv, LettersOnce
  <2>6. ASSUME NEW d \in Conns, job'[d].step = "write"
        PROVE  /\ job'[d].letter \in arrived
               /\ \A p \in Present(rows') : rows'[p].letter # job'[d].letter
               /\ \A e \in Conns \ {d} : job'[e].step = "write" => job'[e].letter # job'[d].letter
    <3>1. d # c /\ job'[d] = job[d]
      BY <1>4, <2>1, <2>6
    <3>2. \A e \in Conns \ {d} : job'[e].step = "write" => e # c /\ job'[e] = job[e]
      BY <1>4, <2>1
    <3>3. /\ job[d].letter \in arrived
          /\ \A p \in Present(rows) : rows[p].letter # job[d].letter
          /\ \A e \in Conns \ {d} : job[e].step = "write" => job[e].letter # job[d].letter
      BY <2>6, <3>1 DEF MailInv, LettersOnce
    <3>. QED  BY <2>2, <2>4, <2>6, <3>1, <3>2, <3>3
  <2>. QED  BY <1>3, <2>5, <2>6 DEF LettersOnce
<1>. QED  BY <1>5, <1>6, <1>9, <1>10, <1>11, <1>12, <1>13, DeliveryFits DEF MailInv

-----------------------------------------------------------------------------
(* The screens and the senders.                                              *)

\* What a write of the foreground lane may make of the row r of id i: it may
\* go; its letter stays the same and its first reading is not taken back; it
\* shows only if it did, or if its eviction is undone; and a row that both
\* sides have deleted is left only if a delivery crossed.
HandledAs(i, r, x) ==
    \/ x = r
    \/ x = NoRow
    \/ /\ r \in Row /\ x \in Row
       /\ x.letter = r.letter
       /\ r.first # "never" => x.first = r.first
       /\ x.rdel \/ ~r.rdel \/ i \in Returning
       /\ x.sdel /\ x.rdel => r.letter \in crossed

Handled(i) == HandledAs(i, rows[i], rows'[i])

LEMMA HandlingKeeps ==
    ASSUME MailInv, rows' \in Tables, \A i \in Ids : Handled(i), Touched("none"), task' = IdleTask,
           UNCHANGED <<arrived, job, view, noticeVars, overlaps, crossed>>,
           Cardinality(KeptIds(rows')) <= KeptCap + overlaps
    PROVE  MailInv'
<1>0. stale' = [d \in Conns |-> IF d = "none" THEN FALSE ELSE stale[d] \/ job[d].step = "write"]
  BY DEF Touched
<1>1. TypeOK'
  <2>1. stale' \in [Conns -> BOOLEAN]
    BY <1>0 DEF MailInv, TypeOK
  <2>. QED  BY <2>1 DEF MailInv, TypeOK, Tables, noticeVars
<1>2. NoOrphanRow'
  <2>. SUFFICES ASSUME NEW p \in Ids, rows'[p] # NoRow, rows'[p].sdel, rows'[p].rdel
                PROVE  rows'[p].letter \in crossed
    BY DEF NoOrphanRow, Present
  <2>1. CASE rows'[p] = rows[p]
    BY <2>1 DEF MailInv, NoOrphanRow, Present
  <2>. QED  BY <2>1 DEF Handled, HandledAs
<1>3. ReadsHold'
  <2>1. \A d \in Conns : job'[d].step = "write" => stale'[d]
    BY <1>0 DEF Conns
  <2>. QED  BY <2>1 DEF ReadsHold
<1>4. \A p \in Present(rows') : p \in Present(rows) /\ rows'[p].letter = rows[p].letter
  BY RowOrNone DEF Present, Handled, HandledAs
<1>5. LettersOnce'
  BY <1>4 DEF MailInv, LettersOnce
<1>6. MayShow' \subseteq MayShow /\ Returning' = {} /\ MayBeKept' = KeptIds(rows')
  <2>1. Returning' = {}
    BY IdleFields DEF Returning
  <2>2. Shown(rows') \subseteq MayShow
    <3>. SUFFICES ASSUME NEW p \in Ids, rows'[p] # NoRow, ~rows'[p].rdel
                  PROVE  p \in Returning \/ (rows[p] # NoRow /\ ~rows[p].rdel)
      BY DEF MayShow, Shown, InboxIds, KeptIds, Present
    <3>. QED  BY RowOrNone DEF Handled, HandledAs
  <2>. QED  BY <2>1, <2>2 DEF MayShow, MayBeKept, Shown, InboxIds, KeptIds, Present
<1>7. RoomHolds'
  <2>1. Bound \in Nat /\ Bound' = Bound /\ overlaps' = overlaps /\ job' = job
    BY NatBounds DEF MailInv, Bound
  <2>2. Cardinality(MayShow) <= Bound
    BY DEF MailInv, RoomHolds
  <2>3. MayShow' \subseteq MayShow \cup {0} /\ MayShow \subseteq Ids /\ Bound \in Int
    BY <1>6, <2>1, Counting
  <2>4. Cardinality(MayShow') <= Bound
    BY <1>6, <2>2, <2>3, OneMore
  <2>5. ASSUME NEW c \in Conns, job[c].step = "write"
        PROVE  Cardinality(MayShow' \ {job[c].victim}) + 1 <= Bound
    <3>. DEFINE T == MayShow \ {job[c].victim}
                S == MayShow' \ {job[c].victim}
    <3>1. Cardinality(T) + 1 <= Bound
      BY <2>5 DEF MailInv, RoomHolds
    <3>2. S \subseteq T /\ IsFiniteSet(T)
      <4>1. T \subseteq Ids
        BY Counting
      <4>. QED  BY <1>6, <4>1, IdsCounted
    <3>. HIDE DEF S, T
    <3>3. Cardinality(S) <= Cardinality(T) /\ Cardinality(S) \in Nat /\ Cardinality(T) \in Nat
      BY <3>2, SubsetCounted
    <3>4. Cardinality(S) + 1 <= Bound
      BY <2>1, <3>1, <3>3
    <3>. QED  BY <3>4 DEF S
  <2>. QED  BY <1>6, <2>1, <2>4, <2>5 DEF RoomHolds
<1>8. NoticesHold'
  BY DEF MailInv, NoticesHold, EvictionsTold, noticeVars
<1>9. KeepHolds' /\ OrphansCross' /\ TaskHolds'
  BY IdleFields DEF KeepHolds, OrphansCross, TaskHolds
<1>. QED  BY <1>1, <1>2, <1>3, <1>5, <1>7, <1>8, <1>9 DEF MailInv

\* Letters that are not moved to Kept do not fill it.
LEMMA NotMoving ==
    ASSUME MailInv, rows' \in Tables, Touched("none"), task' = IdleTask,
           \A i \in Ids : /\ Handled(i)
                          /\ rows'[i] \in Row => rows[i] \in Row /\ (rows'[i].kept => rows[i].kept),
           UNCHANGED <<arrived, job, view, noticeVars, overlaps, crossed>>
    PROVE  MailInv'
<1>1. KeptIds(rows') \subseteq MayBeKept
  <2>. SUFFICES ASSUME NEW i \in Ids, rows'[i] # NoRow, ~rows'[i].rdel, rows'[i].kept
                PROVE  i \in Returning \/ (rows[i] # NoRow /\ ~rows[i].rdel /\ rows[i].kept)
    BY DEF MayBeKept, KeptIds, Present
  <2>1. rows'[i] \in Row /\ rows[i] \in Row /\ rows[i].kept
    BY DEF Tables
  <2>. QED  BY <2>1, RowOrNone DEF Handled, HandledAs
<1>2. Cardinality(KeptIds(rows')) <= KeptCap + overlaps
  <2>1. Cardinality(MayBeKept) <= KeptCap + overlaps /\ KeptCap + overlaps \in Int
    BY NatBounds DEF MailInv, RoomHolds
  <2>2. KeptIds(rows') \subseteq MayBeKept \cup {0}
    BY <1>1
  <2>. QED  BY <1>1, <2>1, <2>2, Counting, OneMore
<1>. QED  BY <1>2, HandlingKeeps

\* What a row is after each of the operations.
LEMMA ReadRow ==
    ASSUME NEW i, NEW r \in Row, r.sdel /\ r.rdel => r.letter \in crossed, NEW shared \in BOOLEAN,
           NEW x, x = [r EXCEPT !.read = TRUE, !.first = FirstReading(r, shared)]
    PROVE  HandledAs(i, r, x) /\ x \in Row /\ x.kept = r.kept
<1>. DEFINE g == FirstReading(r, shared)
<1>1. g \in {"never", "shared", "private"} /\ (r.first # "never" => g = r.first)
  BY DEF FirstReading, Row
<1>. HIDE DEF g
<1>2. x = [r EXCEPT !.read = TRUE, !.first = g]
  BY DEF g
<1>. QED  BY <1>1, <1>2 DEF HandledAs, Row

LEMMA UnreadRow ==
    ASSUME NEW i, NEW r \in Row, r.sdel /\ r.rdel => r.letter \in crossed,
           NEW x, x = [r EXCEPT !.read = FALSE]
    PROVE  HandledAs(i, r, x) /\ x \in Row /\ x.kept = r.kept
BY DEF HandledAs, Row

LEMMA MovedRow ==
    ASSUME NEW i, NEW r \in Row, r.sdel /\ r.rdel => r.letter \in crossed, NEW b \in BOOLEAN,
           NEW x, x = [r EXCEPT !.kept = b]
    PROVE  HandledAs(i, r, x) /\ x \in Row /\ x.kept = b
BY DEF HandledAs, Row

LEMMA LeftRow ==
    ASSUME NEW i, NEW r \in Row, ~r.rdel, NEW x, x = [r EXCEPT !.sdel = TRUE]
    PROVE  HandledAs(i, r, x) /\ x \in Row /\ x.kept = r.kept
BY DEF HandledAs, Row

\* A row that is there is a letter; if both sides have deleted it, a delivery
\* crossed.
LEMMA RowThere ==
    ASSUME MailInv, NEW i \in Ids, rows[i] # NoRow
    PROVE  rows[i] \in Row /\ (rows[i].sdel /\ rows[i].rdel => rows[i].letter \in crossed)
BY DEF MailInv, TypeOK, NoOrphanRow, Present

\* What a delete leaves of a row it does not remove.
LEMMA MarkedRow ==
    ASSUME MailInv, NEW i \in Ids, task.step = "delete", i \in task.ids \ task.gone, rows[i] # NoRow,
           NEW x, x = Marked(rows[i], task.side, task.one)
    PROVE  HandledAs(i, rows[i], x) /\ x \in Row /\ x.kept = rows[i].kept
<1>. DEFINE r == rows[i]
<1>1. r \in Row /\ task.one \in BOOLEAN /\ task.side \in Sides
  BY RowThere, TaskIs DEF MailInv
<1>2. r \in Row /\ r # NoRow /\ task.one \in BOOLEAN
  BY <1>1
<1>3. CASE task.side = "sender"
  <2>. DEFINE b == ~task.one /\ r.rdel
  <2>1. b \in BOOLEAN /\ (task.one => b = FALSE) /\ (~task.one => b = r.rdel)
    BY <1>1 DEF Row
  <2>2. x = [r EXCEPT !.sdel = TRUE, !.rdel = b]
    BY <1>3 DEF Marked
  <2>3. task.one => ~r.rdel \/ i \in Returning
    BY <1>3 DEF Returning
  <2>4. ~task.one /\ r.rdel => r.letter \in crossed
    BY <1>3 DEF MailInv, OrphansCross, OtherDeleted
  <2>. HIDE DEF b, r
  <2>5. /\ x \in Row /\ x.letter = r.letter /\ x.first = r.first /\ x.kept = r.kept
        /\ x.rdel = b
    BY <1>2, <2>1, <2>2 DEF Row
  <2>6. CASE task.one
    BY <1>2, <2>1, <2>3, <2>5, <2>6 DEF HandledAs, r
  <2>7. CASE ~task.one
    BY <1>2, <2>1, <2>4, <2>5, <2>7 DEF HandledAs, r
  <2>. QED  BY <1>2, <2>5, <2>6, <2>7 DEF r
<1>4. CASE task.side = "recipient"
  <2>. DEFINE b == ~task.one /\ r.sdel
  <2>1. b \in BOOLEAN /\ (task.one => b = FALSE) /\ (~task.one => b = r.sdel)
    BY <1>1 DEF Row
  <2>2. x = [r EXCEPT !.rdel = TRUE, !.sdel = b]
    BY <1>4 DEF Marked
  <2>3. ~task.one /\ r.sdel => r.letter \in crossed
    BY <1>4 DEF MailInv, OrphansCross, OtherDeleted
  <2>. HIDE DEF b, r
  <2>4. /\ x \in Row /\ x.letter = r.letter /\ x.first = r.first /\ x.kept = r.kept
        /\ x.sdel = b /\ x.rdel = TRUE
    BY <1>2, <2>1, <2>2 DEF Row
  <2>5. x.sdel => r.letter \in crossed
    BY <2>1, <2>3, <2>4
  <2>. QED  BY <1>2, <2>4, <2>5 DEF HandledAs, r
<1>. QED  BY <1>1, <1>3, <1>4 DEF Sides

\* The steps that change rows on the foreground lane, but for deliveries.
Screens ==
    \/ \E e \in view : MarkUnread(e) \/ \E shared \in BOOLEAN : MarkRead(e, shared)
    \/ \E S \in SUBSET view : Unkeep(S)
    \/ \E ids \in SUBSET Ids : SenderLeaves(ids)
    \/ WriteKept \/ WriteDelete

\* A screen's change of rows: the table stays one, and each row is handled;
\* none but a keep moves a letter to Kept.
LEMMA ScreensHandle ==
    ASSUME MailInv, Screens
    PROVE  /\ rows' \in Tables
           /\ \A i \in Ids : Handled(i)
           /\ \/ WriteKept
              \/ \A i \in Ids : rows'[i] \in Row => rows[i] \in Row /\ (rows'[i].kept => rows[i].kept)
<1>0. rows \in Tables
  BY DEF MailInv, TypeOK, Tables
<1>1. \A e \in view : e.id \in Ids
  BY DEF MailInv, TypeOK, Entry
<1>2. ASSUME NEW k \in Ids, NEW x \in Row, rows' = [rows EXCEPT ![k] = x], rows[k] \in Row,
             HandledAs(k, rows[k], x), x.kept = rows[k].kept
      PROVE  /\ rows' \in Tables
             /\ \A i \in Ids : Handled(i)
             /\ \A i \in Ids : rows'[i] \in Row => rows[i] \in Row /\ (rows'[i].kept => rows[i].kept)
  <2>1. rows' \in Tables
    BY <1>0, <1>2 DEF Tables
  <2>2. rows'[k] = x /\ \A i \in Ids \ {k} : rows'[i] = rows[i]
    BY <1>0, <1>2 DEF Tables
  <2>3. \A i \in Ids : Handled(i)
    BY <1>2, <2>2 DEF Handled, HandledAs
  <2>4. \A i \in Ids : rows'[i] \in Row => rows[i] \in Row /\ (rows'[i].kept => rows[i].kept)
    BY <1>2, <2>2
  <2>. QED  BY <2>1, <2>3, <2>4
<1>3. ASSUME NEW e \in view, NEW shared \in BOOLEAN, MarkRead(e, shared)
      PROVE  /\ rows' \in Tables
             /\ \A i \in Ids : Handled(i)
             /\ \A i \in Ids : rows'[i] \in Row => rows[i] \in Row /\ (rows'[i].kept => rows[i].kept)
  <2>. DEFINE k == e.id
              x == [rows[k] EXCEPT !.read = TRUE, !.first = FirstReading(rows[k], shared)]
  <2>1. k \in Ids /\ rows[k] # NoRow
    BY <1>1, <1>3 DEF MarkRead
  <2>2. rows[k] \in Row /\ (rows[k].sdel /\ rows[k].rdel => rows[k].letter \in crossed)
    BY <2>1, RowThere
  <2>3. rows' = [rows EXCEPT ![k] = x]
    <3>1. rows' = [rows EXCEPT ![k].read = TRUE, ![k].first = FirstReading(rows[k], shared)]
      BY <1>3 DEF MarkRead
    <3>. HIDE DEF k
    <3>. QED  BY <1>0, <2>1, <2>2, <3>1 DEF Tables
  <2>. HIDE DEF k
  <2>4. HandledAs(k, rows[k], x) /\ x \in Row /\ x.kept = rows[k].kept
    BY <2>2, ReadRow
  <2>. HIDE DEF x
  <2>. QED  BY <1>2, <2>1, <2>2, <2>3, <2>4
<1>4. ASSUME NEW e \in view, MarkUnread(e)
      PROVE  /\ rows' \in Tables
             /\ \A i \in Ids : Handled(i)
             /\ \A i \in Ids : rows'[i] \in Row => rows[i] \in Row /\ (rows'[i].kept => rows[i].kept)
  <2>. DEFINE k == e.id
              x == [rows[k] EXCEPT !.read = FALSE]
  <2>1. k \in Ids /\ rows[k] # NoRow
    BY <1>1, <1>4 DEF MarkUnread
  <2>2. rows[k] \in Row /\ (rows[k].sdel /\ rows[k].rdel => rows[k].letter \in crossed)
    BY <2>1, RowThere
  <2>3. rows' = [rows EXCEPT ![k] = x]
    BY <1>4 DEF MarkUnread
  <2>. HIDE DEF k
  <2>4. HandledAs(k, rows[k], x) /\ x \in Row /\ x.kept = rows[k].kept
    BY <2>2, UnreadRow
  <2>. HIDE DEF x
  <2>. QED  BY <1>2, <2>1, <2>2, <2>3, <2>4
<1>5. ASSUME WriteKept
      PROVE  rows' \in Tables /\ \A i \in Ids : Handled(i)
  <2>. DEFINE ids == task.ids \cap InboxIds(rows)
  <2>1. rows' = [i \in Ids |-> IF i \in ids THEN [rows[i] EXCEPT !.kept = TRUE] ELSE rows[i]]
    BY <1>5 DEF WriteKept
  <2>2. \A i \in ids : i \in Ids /\ rows[i] # NoRow
    BY DEF InboxIds, Present
  <2>. HIDE DEF ids
  <2>3. \A i \in ids : HandledAs(i, rows[i], rows'[i]) /\ rows'[i] \in Row
    BY <2>1, <2>2, RowThere, MovedRow
  <2>4. \A i \in Ids \ ids : rows'[i] = rows[i]
    BY <2>1
  <2>5. rows' \in Tables
    <3>1. \A i \in Ids : rows'[i] \in Row \cup {NoRow}
      BY <1>0, <2>3, <2>4 DEF Tables
    <3>. QED  BY <2>1, <3>1 DEF Tables
  <2>. QED  BY <2>3, <2>4, <2>5 DEF Handled, HandledAs
<1>6. ASSUME NEW ids \in SUBSET Ids, DOMAIN rows' = Ids, rows' = [i \in Ids |-> rows'[i]],
             \A i \in Ids \ ids : rows'[i] = rows[i],
             \A i \in ids : /\ rows[i] # NoRow /\ HandledAs(i, rows[i], rows'[i])
                            /\ rows'[i] = NoRow \/ (rows'[i] \in Row /\ (rows'[i].kept => rows[i].kept))
      PROVE  /\ rows' \in Tables
             /\ \A i \in Ids : Handled(i)
             /\ \A i \in Ids : rows'[i] \in Row => rows[i] \in Row /\ (rows'[i].kept => rows[i].kept)
  <2>1. rows' \in Tables
    <3>1. \A i \in Ids : rows'[i] \in Row \cup {NoRow}
      BY <1>0, <1>6 DEF Tables
    <3>. QED  BY <1>6, <3>1 DEF Tables
  <2>2. \A i \in Ids : Handled(i)
    BY <1>6 DEF Handled, HandledAs
  <2>3. \A i \in ids : rows[i] \in Row
    BY <1>6, RowThere
  <2>4. \A i \in Ids : rows'[i] \in Row => rows[i] \in Row /\ (rows'[i].kept => rows[i].kept)
    BY <1>6, <2>3, RowOrNone
  <2>. QED  BY <2>1, <2>2, <2>4
<1>7. ASSUME NEW S \in SUBSET view, Unkeep(S)
      PROVE  /\ rows' \in Tables
             /\ \A i \in Ids : Handled(i)
             /\ \A i \in Ids : rows'[i] \in Row => rows[i] \in Row /\ (rows'[i].kept => rows[i].kept)
  <2>. DEFINE ids == ListedIds(S) \cap KeptIds(rows)
  <2>1. rows' = [i \in Ids |-> IF i \in ids THEN [rows[i] EXCEPT !.kept = FALSE] ELSE rows[i]]
    BY <1>7 DEF Unkeep
  <2>2. ids \in SUBSET Ids /\ \A i \in ids : rows[i] # NoRow
    BY DEF KeptIds, Present
  <2>. HIDE DEF ids
  <2>3. \A i \in ids : HandledAs(i, rows[i], rows'[i]) /\ rows'[i] \in Row /\ rows'[i].kept = FALSE
    BY <2>1, <2>2, RowThere, MovedRow
  <2>4. /\ DOMAIN rows' = Ids /\ rows' = [i \in Ids |-> rows'[i]]
        /\ \A i \in Ids \ ids : rows'[i] = rows[i]
    BY <2>1
  <2>. QED  BY <1>6, <2>2, <2>3, <2>4
<1>8. ASSUME WriteDelete
      PROVE  /\ rows' \in Tables
             /\ \A i \in Ids : Handled(i)
             /\ \A i \in Ids : rows'[i] \in Row => rows[i] \in Row /\ (rows'[i].kept => rows[i].kept)
  <2>. DEFINE ids == {i \in Ids : rows[i] # NoRow /\ i \in task.ids}
  <2>1. /\ task.step = "delete"
        /\ rows' = [i \in Ids |-> IF rows[i] = NoRow \/ i \notin task.ids THEN rows[i]
                                  ELSE IF i \in task.gone THEN NoRow
                                  ELSE Marked(rows[i], task.side, task.one)]
    BY <1>8 DEF WriteDelete
  <2>2. ids \in SUBSET Ids /\ \A i \in ids : rows[i] # NoRow
    OBVIOUS
  <2>3. ASSUME NEW i \in ids
        PROVE  /\ HandledAs(i, rows[i], rows'[i])
               /\ rows'[i] = NoRow \/ (rows'[i] \in Row /\ rows'[i].kept = rows[i].kept)
    <3>1. CASE i \in task.gone
      BY <2>1, <3>1 DEF HandledAs
    <3>2. CASE i \notin task.gone
      BY <2>1, <3>2, MarkedRow
    <3>. QED  BY <3>1, <3>2
  <2>4. /\ DOMAIN rows' = Ids /\ rows' = [i \in Ids |-> rows'[i]]
        /\ \A i \in Ids \ ids : rows'[i] = rows[i]
    BY <2>1
  <2>. HIDE DEF ids
  <2>. QED  BY <1>6, <2>2, <2>3, <2>4
<1>9. ASSUME NEW ids \in SUBSET Ids, SenderLeaves(ids)
      PROVE  /\ rows' \in Tables
             /\ \A i \in Ids : Handled(i)
             /\ \A i \in Ids : rows'[i] \in Row => rows[i] \in Row /\ (rows'[i].kept => rows[i].kept)
  <2>1. rows' = [i \in Ids |-> IF i \notin ids THEN rows[i]
                               ELSE IF rows[i].rdel THEN NoRow ELSE [rows[i] EXCEPT !.sdel = TRUE]]
    BY <1>9 DEF SenderLeaves
  <2>2. \A i \in ids : rows[i] # NoRow
    BY <1>9 DEF SenderLeaves
  <2>3. ASSUME NEW i \in ids
        PROVE  /\ HandledAs(i, rows[i], rows'[i])
               /\ rows'[i] = NoRow \/ (rows'[i] \in Row /\ rows'[i].kept = rows[i].kept)
    <3>1. CASE rows[i].rdel
      BY <2>1, <3>1 DEF HandledAs
    <3>2. CASE ~rows[i].rdel
      BY <2>1, <2>2, <3>2, RowThere, LeftRow
    <3>. QED  BY <3>1, <3>2
  <2>4. /\ DOMAIN rows' = Ids /\ rows' = [i \in Ids |-> rows'[i]]
        /\ \A i \in Ids \ ids : rows'[i] = rows[i]
    BY <2>1
  <2>. QED  BY <1>6, <2>2, <2>3, <2>4
<1>. QED  BY <1>3, <1>4, <1>5, <1>7, <1>8, <1>9 DEF Screens

LEMMA WriteKeptKeeps ==
    ASSUME MailInv, WriteKept
    PROVE  MailInv'
<1>1. rows' \in Tables /\ \A i \in Ids : Handled(i)
  BY ScreensHandle DEF Screens
<1>2. /\ task.step = "keep" /\ task' = IdleTask /\ Touched("none")
      /\ rows' = [i \in Ids |-> IF i \in Keepable THEN [rows[i] EXCEPT !.kept = TRUE] ELSE rows[i]]
      /\ UNCHANGED <<arrived, job, view, noticeVars, overlaps, crossed>>
  BY DEF WriteKept, Keepable
<1>3. KeptIds(rows') \subseteq KeptIds(rows) \cup Keepable
  BY <1>2 DEF KeptIds, Present
<1>4. /\ Cardinality(KeptIds(rows) \cup Keepable) <= KeptCap + overlaps
      /\ KeptCap + overlaps \in Int
      /\ KeptIds(rows) \cup Keepable \subseteq Ids
  BY <1>2, NatBounds, Counting DEF MailInv, KeepHolds
<1>5. Cardinality(KeptIds(rows')) <= KeptCap + overlaps
  <2>1. KeptIds(rows') \subseteq (KeptIds(rows) \cup Keepable) \cup {0}
    BY <1>3
  <2>. QED  BY <1>3, <1>4, <2>1, OneMore
<1>. QED  BY <1>1, <1>2, <1>5, HandlingKeeps

LEMMA ScreensKeep ==
    ASSUME MailInv, Screens
    PROVE  MailInv'
<1>1. CASE WriteKept
  BY <1>1, WriteKeptKeeps
<1>2. /\ Touched("none") /\ task' = IdleTask
      /\ UNCHANGED <<arrived, job, view, noticeVars, overlaps, crossed>>
  BY DEF Screens, MarkUnread, MarkRead, Unkeep, SenderLeaves, WriteKept, WriteDelete, LaneFree
<1>3. CASE \A i \in Ids : rows'[i] \in Row => rows[i] \in Row /\ (rows'[i].kept => rows[i].kept)
  BY <1>2, <1>3, ScreensHandle, NotMoving
<1>. QED  BY <1>1, <1>3, ScreensHandle

-----------------------------------------------------------------------------
(* Every step.                                                               *)

\* The steps of a delete or a keep that only read.
Reads ==
    \/ \E S \in SUBSET view : Keep(S)
    \/ FindKeptRoom
    \/ \E side \in Sides, i \in Ids : DeleteOne(side, i)
    \/ \E side \in Sides, S \in SUBSET Ids : DeleteSome(side, S)
    \/ SelectGone

\* A step of the mailbox: a delivery, a screen's write or something else.
LEMMA MailSteps ==
    ASSUME [Next]_vars
    PROVE  \/ \E c \in Conns, m \in Letters, k \in Kinds : FindRoom(c, m, k)
           \/ \E c \in Conns : WriteLetter(c)
           \/ Screens
           \/ Reads
           \/ Reload \/ (\E u \in Menus : ReadNotice(u) \/ AckNotice(u)) \/ UNCHANGED vars
BY DEF Next, Owner, Deletes, LaterSteps, Screens, Reads

LEMMA MailStep == MailInv /\ [Next]_vars => MailInv'
<1>1. MailInv /\ Reads => MailInv'
  BY KeepKeeps, FindKeptRoomKeeps, DeletesRead DEF Reads
<1>. QED  BY <1>1, MailSteps, FindRoomKeeps, WriteLetterKeeps, ScreensKeep, OthersKeep

LEMMA MailAlways == Spec => []MailInv
BY MailInit, MailStep, PTL DEF Spec

\* What is neither a delivery's write nor a screen's leaves the rows alone.
LEMMA RowsStay ==
    ASSUME [Next]_vars, ~Screens, \A c \in Conns : ~WriteLetter(c)
    PROVE  rows' = rows
<1>1. Reads => rows' = rows
  BY DEF Reads, Keep, FindKeptRoom, DeleteOne, DeleteSome, SelectGone
<1>. QED  BY <1>1, MailSteps DEF FindRoom, Reload, ReadNotice, AckNotice, vars

-----------------------------------------------------------------------------
(* The theorems.                                                             *)

\* The mailbox's state is what TypeOK says, for any caps (mail.py's table,
\* the eviction notices and the jobs between their reads and writes).
THEOREM MailTypes == Spec => []TypeOK
BY MailAlways, PTL DEF MailInv

\* delete_for_recipient, delete_for_sender, delete_letters, _hard_delete_or_mark:
\* no sequence of deletes and evictions, on either connection, leaves a row
\* that both sides have deleted, which no screen could reach to remove --
\* except a letter that a delivery added or evicted while a bulk delete was
\* between its reads and its write.
THEOREM NothingOrphaned == Spec => []NoOrphanRow
BY MailAlways, PTL DEF MailInv

\* pending_eviction_notice, acknowledge_eviction_notice: however evictions and
\* menus interleave, what was told and what waits is every eviction made, as
\* long as two sessions of the account do not show a notice at once.
THEOREM EvictionsAreTold == Spec => []EvictionsTold
BY MailAlways, PTL DEF MailInv, NoticesHold

\* set_kept's bound: Kept exceeds its cap, and the whole mailbox the two caps,
\* by at most one letter for each delivery that wrote between the reads and
\* the write of the other connection's delivery, keep or single delete.
THEOREM BoundsHold == Spec => []BoundsNeedOverlap
BY MailAlways, InvBounds, PTL DEF MailInv

\* mark_read, mark_unread and the evictions: when a letter was first read, and
\* whether that was shared, is never rewritten; a row id that SQLite uses
\* again has another letter.
THEOREM ReceiptsStay == Spec => ReceiptStays
<1>1. ASSUME MailInv, [Next]_vars
      PROVE  [\A i \in Present(rows) \cap Present(rows') :
                 rows[i].letter = rows'[i].letter /\ rows[i].first # "never" =>
                    rows'[i].first = rows[i].first]_vars
  <2>. SUFFICES ASSUME NEW i \in Present(rows) \cap Present(rows'),
                       rows[i].letter = rows'[i].letter, rows[i].first # "never"
                PROVE  rows'[i].first = rows[i].first
    OBVIOUS
  <2>0. i \in Ids /\ rows[i] # NoRow /\ rows'[i] # NoRow
    BY DEF Present
  <2>1. ASSUME NEW c \in Conns, WriteLetter(c)
        PROVE  rows'[i].first = rows[i].first
    <3>. DEFINE j == job[c]
    <3>1. PICK k \in Ids : Delivered(j, k)
      BY <1>1, <2>1, Delivering
    <3>2. rows[i].letter # j.letter
      BY <1>1, <2>1 DEF MailInv, LettersOnce, WriteLetter
    <3>. HIDE DEF j
    <3>3. CASE i = k
      <4>1. rows'[i].letter = j.letter
        <5>1. rows'[k] = NewRow(j.letter, j.kind)
          BY <3>1 DEF Delivered
        <5>2. NewRow(j.letter, j.kind).letter = j.letter
          BY NewRowFields
        <5>. QED  BY <3>3, <5>1, <5>2
      <4>. QED  BY <3>2, <4>1
    <3>4. CASE rows[i] \in Row /\ rows'[i] = [rows[i] EXCEPT !.sdel = FALSE, !.rdel = TRUE]
      BY <3>4 DEF Row
    <3>. QED  BY <2>0, <3>1, <3>3, <3>4 DEF Delivered
  <2>2. CASE Screens
    <3>1. Handled(i)
      BY <1>1, <2>0, <2>2, ScreensHandle
    <3>. QED  BY <2>0, <3>1 DEF Handled, HandledAs
  <2>. QED  BY <1>1, <2>1, <2>2, RowsStay
<1>. QED  BY <1>1, MailAlways, PTL DEF Spec, ReceiptStays

\* Only its own write ends a delivery.
LEMMA EndsByWriting ==
    ASSUME MailInv, [Next]_vars, NEW c \in Conns, job[c].step = "write", job'[c].step = "idle"
    PROVE  WriteLetter(c)
<1>0. job \in [Conns -> WriteJob \cup {IdleJob}]
  BY DEF MailInv, TypeOK
<1>1. ASSUME NEW d \in Conns, NEW m \in Letters, NEW k \in Kinds, FindRoom(d, m, k)
      PROVE  job'[c] = job[c]
  <2>1. d # c
    BY <1>1 DEF FindRoom
  <2>. QED  BY <1>0, <1>1, <2>1 DEF FindRoom
<1>2. ASSUME NEW d \in Conns, WriteLetter(d), d # c
      PROVE  job'[c] = job[c]
  BY <1>0, <1>2 DEF WriteLetter
<1>3. Screens \/ Reads => job' = job
  BY DEF Screens, MarkUnread, MarkRead, Unkeep, SenderLeaves, WriteKept, WriteDelete,
         Reads, Keep, FindKeptRoom, DeleteOne, DeleteSome, SelectGone
<1>. QED  BY <1>1, <1>2, <1>3, MailSteps DEF Reload, ReadNotice, AckNotice, vars

\* make_room and the delivery's transaction: a delivery whose reads still hold
\* when it writes takes no kept or unread letter, does not take the inbox past
\* its cap, and leaves a sender's delete as it was.
THEOREM DeliveriesAreClean == Spec => CleanDelivery
<1>1. ASSUME MailInv, [Next]_vars, NEW c \in Conns,
             job[c].step = "write", job'[c].step = "idle", ~stale[c]
      PROVE  /\ \A i \in InboxIds(rows) \cup KeptIds(rows) :
                   rows[i].kept \/ ~rows[i].read => rows'[i] = rows[i]
             /\ Cardinality(InboxIds(rows')) <= Cap \/ Cardinality(InboxIds(rows')) <= inbox_count
             /\ \A i \in Present(rows) \cap Present(rows') :
                   rows[i].letter = rows'[i].letter /\ rows[i].sdel => rows'[i].sdel
  <2>. DEFINE j == job[c]
  <2>1. WriteLetter(c)
    BY <1>1, EndsByWriting
  <2>2. PICK k \in Ids : Delivered(j, k)
    BY <1>1, <2>1, Delivering
  <2>3. j \in WriteJob
    BY <1>1, JobIs DEF MailInv
  <2>4. IF j.victim = 0 THEN inbox_count < Cap
        ELSE IsVictim(j.victim) /\ j.sdel = rows[j.victim].sdel
    BY <1>1 DEF MailInv, ReadsHold
  <2>5. \A i \in Present(rows) : rows[i].letter # j.letter
    BY <1>1 DEF MailInv, LettersOnce
  <2>. HIDE DEF j
  <2>6. 0 \notin Ids
    BY MailboxAssumption DEF Ids, MailboxAssumption
  <2>7. j.victim \in Ids => /\ j.victim \in InboxIds(rows) /\ rows[j.victim].read /\ ~rows[j.victim].kept
                            /\ j.sdel = rows[j.victim].sdel
    BY <2>4, <2>6 DEF IsVictim, Evictable, InboxIds
  <2>8. ASSUME NEW i \in Shown(rows), rows[i].kept \/ ~rows[i].read
        PROVE  rows'[i] = rows[i]
    <3>1. i \in Ids /\ rows[i] # NoRow /\ i # j.victim
      BY <2>7, <2>8 DEF Shown, InboxIds, KeptIds, Present
    <3>. QED  BY <2>2, <3>1 DEF Delivered
  <2>9. Cardinality(InboxIds(rows')) <= Cap \/ Cardinality(InboxIds(rows')) <= inbox_count
    <3>1. InboxIds(rows') \subseteq (InboxIds(rows) \ {j.victim}) \cup {k}
      BY <1>1, <2>2, <2>3, DeliveredShows
    <3>2. CASE j.victim = 0
      <4>1. InboxIds(rows') \subseteq InboxIds(rows) \cup {k}
        BY <3>1
      <4>2. Cardinality(InboxIds(rows')) <= Cardinality(InboxIds(rows)) + 1
        BY <4>1, ShownIsCounted, FewerOrOneMore
      <4>3. Cardinality(InboxIds(rows)) < Cap
        BY <2>4, <3>2 DEF inbox_count
      <4>. QED  BY <4>2, <4>3, ShownIsCounted, MailboxAssumption DEF MailboxAssumption
    <3>3. CASE j.victim # 0
      <4>1. j.victim \in InboxIds(rows)
        BY <2>4, <3>3 DEF IsVictim, Evictable
      <4>2. Cardinality(InboxIds(rows')) <= Cardinality(InboxIds(rows))
        BY <3>1, <4>1, ShownIsCounted, OneForOne
      <4>. QED  BY <4>2 DEF inbox_count
    <3>. QED  BY <3>2, <3>3
  <2>10. ASSUME NEW i \in Present(rows) \cap Present(rows'),
                rows[i].letter = rows'[i].letter, rows[i].sdel
         PROVE  rows'[i].sdel
    <3>0. i \in Ids /\ rows[i] # NoRow /\ rows'[i] # NoRow
      BY DEF Present
    <3>1. i # k
      <4>1. rows'[k] = NewRow(j.letter, j.kind)
        BY <2>2 DEF Delivered
      <4>2. NewRow(j.letter, j.kind).letter = j.letter
        BY NewRowFields
      <4>3. rows[i].letter # j.letter
        BY <2>5
      <4>. QED  BY <2>10, <4>1, <4>2, <4>3
    <3>2. ~(i = j.victim /\ ~j.sdel)
      BY <2>7, <2>10, <3>0
    <3>3. \/ rows'[i] = rows[i]
          \/ rows'[i] = NoRow
          \/ i = j.victim /\ ~j.sdel
      BY <2>2, <3>0, <3>1, DeliveredElsewhere
    <3>. QED  BY <2>10, <3>0, <3>2, <3>3
  <2>. QED  BY <2>8, <2>9, <2>10 DEF Shown
<1>2. ASSUME MailInv, [Next]_vars
      PROVE  [\A c \in Conns :
          job[c].step = "write" /\ job'[c].step = "idle" /\ ~stale[c] =>
             /\ \A i \in InboxIds(rows) \cup KeptIds(rows) :
                   rows[i].kept \/ ~rows[i].read => rows'[i] = rows[i]
             /\ Cardinality(InboxIds(rows')) <= Cap \/ Cardinality(InboxIds(rows')) <= inbox_count
             /\ \A i \in Present(rows) \cap Present(rows') :
                   rows[i].letter = rows'[i].letter /\ rows[i].sdel => rows'[i].sdel]_vars
  BY <1>1, <1>2
<1>. QED  BY <1>2, MailAlways, PTL DEF Spec, CleanDelivery

=============================================================================

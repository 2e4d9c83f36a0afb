------------------------ MODULE DatabaseLane_proofs ------------------------
(* Proofs about DatabaseLane, for any number of lanes, callers, slots and    *)
(* writes.                                                                   *)
EXTENDS DatabaseLane, FiniteSetTheorems, TLAPS

-----------------------------------------------------------------------------
(* Transactions.  A lane's connection carries the writes of no job but the   *)
(* one on the worker thread.                                                 *)

TxInv ==
    /\ running \in [Lanes -> Jobs \cup {None}]
    /\ tx \in [Lanes -> {"none", "begun", "writing"}]
    /\ dirty \in [Lanes -> SUBSET Jobs]
    /\ db \in [Lanes -> {"none", "open", "closed"}]
    /\ \A l \in Lanes : dirty[l] \subseteq {running[l]}
    /\ \A l \in Lanes : db[l] = "none" => tx[l] = "none" /\ dirty[l] = {}
    /\ NothingLeftOpen
    /\ OwnWritesOnly

\* A job's transaction ends and the job goes on or is over.
LEMMA TransactionEnds ==
    ASSUME TxInv, NEW l \in Lanes, running[l] \in Jobs, EndTransaction(l, running[l]),
           running' \in {running, [running EXCEPT ![l] = None]}, UNCHANGED db
    PROVE  TxInv'
<1>1. stray' = {}
  BY DEF EndTransaction, TxInv, OwnWritesOnly
<1>2. /\ tx' \in [Lanes -> {"none", "begun", "writing"}]
      /\ tx'[l] = "none" /\ \A k \in Lanes \ {l} : tx'[k] = tx[k]
  BY DEF EndTransaction, TxInv
<1>3. /\ dirty' \in [Lanes -> SUBSET Jobs]
      /\ dirty'[l] = {} /\ \A k \in Lanes \ {l} : dirty'[k] = dirty[k]
  BY DEF EndTransaction, TxInv
<1>4. /\ running' \in [Lanes -> Jobs \cup {None}]
      /\ \A k \in Lanes \ {l} : running'[k] = running[k]
  BY DEF TxInv
<1>5. \A k \in Lanes : dirty'[k] \subseteq {running'[k]}
  BY <1>3, <1>4 DEF TxInv
<1>6. NothingLeftOpen'
  BY <1>2, <1>3, <1>4 DEF TxInv, NothingLeftOpen
<1>7. \A k \in Lanes : db'[k] = "none" => tx'[k] = "none" /\ dirty'[k] = {}
  BY <1>2, <1>3 DEF TxInv
<1>. QED  BY <1>1, <1>2, <1>3, <1>4, <1>5, <1>6, <1>7 DEF TxInv, OwnWritesOnly

LEMMA TxAlways == Spec => []TxInv
<1>. USE LaneAssumption DEF LaneAssumption
<1>1. Init => TxInv
  BY DEF Init, TxInv, NothingLeftOpen, OwnWritesOnly
<1>2. TxInv /\ [Next]_vars => TxInv'
  <2>. SUFFICES ASSUME TxInv, [Next]_vars PROVE TxInv'
    OBVIOUS
  <2>1. ASSUME UNCHANGED <<running, db, tx, dirty, stray>> PROVE TxInv'
    BY <2>1 DEF TxInv, NothingLeftOpen, OwnWritesOnly
  <2>2. ASSUME NEW j \in Jobs, \/ RefuseBusy(j) \/ AwaitSlot(j) \/ TakeSlotAndSubmit(j)
                               \/ SubmitGranted(j) \/ CancelWaiting(j) \/ CancelHolding(j)
                               \/ Resume(j)
        PROVE  TxInv'
    BY <2>1, <2>2 DEF RefuseBusy, AwaitSlot, TakeSlotAndSubmit, SubmitGranted, CancelWaiting,
                      CancelHolding, Resume, dbVars, poolVars
  <2>3. ASSUME NEW l \in Lanes, CloseBegin(l) \/ CloseEnd(l) PROVE TxInv'
    BY <2>1, <2>3 DEF CloseBegin, CloseEnd, dbVars, poolVars
  <2>9. ASSUME NEW l \in Lanes, RunClose(l) PROVE TxInv'
    <3>1. db' = [db EXCEPT ![l] = "closed"] /\ UNCHANGED <<running, tx, dirty, stray>>
      BY <2>9 DEF RunClose
    <3>. QED  BY <3>1 DEF TxInv, NothingLeftOpen, OwnWritesOnly
  <2>4. ASSUME NEW l \in Lanes, StartJob(l) PROVE TxInv'
    <3>1. running[l] = None /\ UNCHANGED <<db, tx, dirty, stray>>
      BY <2>4 DEF StartJob, dbVars
    <3>2. PICK j \in Jobs : running' \in {running, [running EXCEPT ![l] = j]}
      BY <2>4 DEF StartJob
    <3>3. \A k \in Lanes \ {l} : running'[k] = running[k]
      BY <3>2 DEF TxInv
    <3>4. dirty[l] = {} /\ tx[l] = "none"
      BY <3>1 DEF TxInv, NothingLeftOpen
    <3>5. running' \in [Lanes -> Jobs \cup {None}]
      BY <3>2 DEF TxInv
    <3>6. \A k \in Lanes : dirty'[k] \subseteq {running'[k]}
      BY <3>1, <3>3, <3>4 DEF TxInv
    <3>7. NothingLeftOpen'
      BY <3>1, <3>3, <3>4 DEF TxInv, NothingLeftOpen
    <3>. QED  BY <3>1, <3>5, <3>6, <3>7 DEF TxInv, OwnWritesOnly
  <2>5. ASSUME NEW l \in Lanes, OpenConnection(l) PROVE TxInv'
    <3>1. tx[l] = "none" /\ dirty[l] = {} /\ UNCHANGED <<tx, dirty, stray>>
      BY <2>5 DEF OpenConnection, TxInv
    <3>2. running' \in {running, [running EXCEPT ![l] = None]}
      BY <2>5 DEF OpenConnection
    <3>3. db' \in {db, [db EXCEPT ![l] = "open"]}
      BY <2>5 DEF OpenConnection
    <3>4. /\ running' \in [Lanes -> Jobs \cup {None}]
          /\ \A k \in Lanes \ {l} : running'[k] = running[k]
      BY <3>2 DEF TxInv
    <3>5. /\ db' \in [Lanes -> {"none", "open", "closed"}]
          /\ \A k \in Lanes \ {l} : db'[k] = db[k]
      BY <3>3 DEF TxInv
    <3>6. \A k \in Lanes : dirty'[k] \subseteq {running'[k]}
      BY <3>1, <3>4 DEF TxInv
    <3>. QED  BY <3>1, <3>4, <3>5, <3>6 DEF TxInv, NothingLeftOpen, OwnWritesOnly
  <2>6. ASSUME NEW l \in Lanes, JobWrite(l) PROVE TxInv'
    <3>1. running[l] \in Jobs /\ db[l] = "open" /\ UNCHANGED <<running, db, stray>>
      BY <2>6 DEF JobWrite, InFunction, poolVars
    <3>2. dirty' \in {dirty, [dirty EXCEPT ![l] = dirty[l] \cup {running[l]}]}
      BY <2>6 DEF JobWrite
    <3>3. dirty' \in [Lanes -> SUBSET Jobs] /\ \A k \in Lanes \ {l} : dirty'[k] = dirty[k]
      BY <3>1, <3>2 DEF TxInv
    <3>4. \A k \in Lanes : dirty'[k] \subseteq {running'[k]}
      BY <3>1, <3>2, <3>3 DEF TxInv
    <3>5. /\ tx' \in [Lanes -> {"none", "begun", "writing"}]
          /\ \A k \in Lanes \ {l} : tx'[k] = tx[k]
      BY <2>6 DEF JobWrite, TxInv
    <3>6. NothingLeftOpen'
      BY <3>1, <3>3, <3>5 DEF TxInv, NothingLeftOpen
    <3>. QED  BY <3>1, <3>3, <3>4, <3>5, <3>6 DEF TxInv, OwnWritesOnly
  <2>7. ASSUME NEW l \in Lanes, JobCommit(l) \/ JobReturn(l) \/ JobRaise(l) PROVE TxInv'
    <3>1. /\ running[l] \in Jobs /\ EndTransaction(l, running[l])
          /\ running' \in {running, [running EXCEPT ![l] = None]} /\ UNCHANGED db
      BY <2>7 DEF JobCommit, JobReturn, JobRaise, InFunction, CleanUp, poolVars
    <3>. QED  BY <3>1, TransactionEnds
  <2>8. CASE UNCHANGED vars
    BY <2>1, <2>8 DEF vars, poolVars, dbVars
  <2>. QED  BY <2>2, <2>3, <2>4, <2>5, <2>6, <2>7, <2>8, <2>9 DEF Next, Worker
<1>. QED  BY <1>1, <1>2, PTL DEF Spec

\* Between two jobs no transaction is open, and no job's commit or rollback
\* touches what another job wrote: _run_job, whatever its jobs do.
THEOREM TransactionsSettled == Spec => [](NothingLeftOpen /\ OwnWritesOnly)
<1>1. TxInv => NothingLeftOpen /\ OwnWritesOnly
  BY DEF TxInv
<1>. QED  BY <1>1, TxAlways, PTL

-----------------------------------------------------------------------------
(* The semaphore.  Who waits is in its lane's queue, so that a free slot     *)
(* finds him.                                                                *)

SlotType ==
    /\ call \in [Jobs -> CallStates]
    /\ laneOf \in [Jobs -> Lanes]
    /\ slots \in [Lanes -> Nat]
    /\ waiters \in [Lanes -> Seq(Jobs)]

InLine(j, l) == \E i \in 1 .. Len(waiters[l]) : waiters[l][i] = j

SlotInv ==
    /\ SlotType
    /\ \A l \in Lanes : \A i \in 1 .. Len(waiters[l]) : laneOf[waiters[l][i]] = l
    /\ \A j \in Jobs : call[j] = "waiting" => InLine(j, laneOf[j])
    /\ NoIdleSlot

\* Handing slots on: those woken were first in line, and slots are left over
\* only when nobody waits or somebody was woken.
Handed(l, free, most, c) ==
    /\ slots' \in [Lanes -> Nat] /\ waiters' \in [Lanes -> Seq(Jobs)]
    /\ call' \in [Jobs -> CallStates]
    /\ \A k \in Lanes \ {l} : slots'[k] = slots[k] /\ waiters'[k] = waiters[k]
    /\ \A i \in 1 .. Len(waiters'[l]) :
          \E h \in 1 .. Len(waiters[l]) : waiters'[l][i] = waiters[l][h]
    /\ \A j \in Jobs : laneOf[j] # l => call'[j] = c[j]
    /\ \A j \in Jobs : call'[j] \in {c[j], "granted"}
    /\ \A j \in Jobs : InLine(j, l) /\ call'[j] # "granted" => InLine(j, l)'
    /\ waiters'[l] # <<>> /\ slots'[l] > 0 =>
          \/ most < free /\ most = 0
          \/ most < free /\ \E j \in Jobs : laneOf[j] = l /\ call'[j] = "granted"

LEMMA HandingOn ==
    ASSUME SlotInv, NEW l \in Lanes, NEW free \in Nat, NEW most \in Nat, NEW c \in [Jobs -> CallStates],
           HandOn(l, free, most, c)
    PROVE  Handed(l, free, most, c)
<1>. DEFINE n == Smaller(Smaller(free, most), Len(waiters[l]))
            woken == {waiters[l][i] : i \in 1 .. n}
<1>1. /\ waiters[l] \in Seq(Jobs) /\ Len(waiters[l]) \in Nat
      /\ \A i \in 1 .. Len(waiters[l]) : waiters[l][i] \in Jobs /\ laneOf[waiters[l][i]] = l
  BY DEF SlotInv, SlotType
<1>2. /\ n \in Nat /\ n <= free /\ n <= most /\ n <= Len(waiters[l])
      /\ n < Len(waiters[l]) => n = free \/ n = most
  BY <1>1 DEF Smaller
<1>3. /\ slots' = [slots EXCEPT ![l] = free - n]
      /\ waiters' = [waiters EXCEPT ![l] = SubSeq(waiters[l], n + 1, Len(waiters[l]))]
      /\ call' = [k \in Jobs |-> IF k \in woken THEN "granted" ELSE c[k]]
  BY DEF HandOn
<1>. HIDE DEF n
<1>4. /\ SubSeq(waiters[l], n + 1, Len(waiters[l])) \in Seq(Jobs)
      /\ Len(SubSeq(waiters[l], n + 1, Len(waiters[l]))) = Len(waiters[l]) - n
      /\ \A i \in 1 .. Len(waiters[l]) - n :
            SubSeq(waiters[l], n + 1, Len(waiters[l]))[i] = waiters[l][i + n]
  BY <1>1, <1>2
<1>s. /\ slots' \in [Lanes -> Nat] /\ slots'[l] = free - n
      /\ \A k \in Lanes \ {l} : slots'[k] = slots[k]
  BY <1>2, <1>3 DEF SlotInv, SlotType
<1>w. /\ waiters' \in [Lanes -> Seq(Jobs)]
      /\ waiters'[l] = SubSeq(waiters[l], n + 1, Len(waiters[l]))
      /\ \A k \in Lanes \ {l} : waiters'[k] = waiters[k]
  <2>. DEFINE rest == SubSeq(waiters[l], n + 1, Len(waiters[l]))
  <2>1. rest \in Seq(Jobs) /\ waiters' = [waiters EXCEPT ![l] = rest]
    BY <1>3, <1>4
  <2>2. waiters \in [Lanes -> Seq(Jobs)]
    BY DEF SlotInv, SlotType
  <2>. HIDE DEF rest
  <2>3. waiters' \in [Lanes -> Seq(Jobs)] /\ waiters'[l] = rest
        /\ \A k \in Lanes \ {l} : waiters'[k] = waiters[k]
    BY <2>1, <2>2
  <2>. QED  BY <2>3 DEF rest
<1>5. /\ slots' \in [Lanes -> Nat] /\ waiters' \in [Lanes -> Seq(Jobs)]
      /\ slots'[l] = free - n /\ waiters'[l] = SubSeq(waiters[l], n + 1, Len(waiters[l]))
      /\ \A k \in Lanes \ {l} : slots'[k] = slots[k] /\ waiters'[k] = waiters[k]
  BY <1>s, <1>w
<1>6. call' \in [Jobs -> CallStates] /\ \A j \in Jobs : call'[j] \in {c[j], "granted"}
  BY <1>3 DEF CallStates
<1>7. \A i \in 1 .. Len(waiters'[l]) :
         \E h \in 1 .. Len(waiters[l]) : waiters'[l][i] = waiters[l][h]
  <2>. SUFFICES ASSUME NEW i \in 1 .. Len(waiters'[l])
                PROVE  \E h \in 1 .. Len(waiters[l]) : waiters'[l][i] = waiters[l][h]
    OBVIOUS
  <2>1. i + n \in 1 .. Len(waiters[l]) /\ waiters'[l][i] = waiters[l][i + n]
    <3>1. Len(waiters'[l]) = Len(waiters[l]) - n
      BY <1>4, <1>5
    <3>2. i \in 1 .. Len(waiters[l]) - n
      BY <3>1
    <3>3. i + n \in 1 .. Len(waiters[l])
      BY <1>1, <1>2, <3>2
    <3>. QED  BY <1>4, <1>5, <3>2, <3>3
  <2>. QED  BY <2>1
<1>8. \A j \in Jobs : laneOf[j] # l => call'[j] = c[j]
  BY <1>1, <1>2, <1>3
<1>9. ASSUME NEW j \in Jobs, InLine(j, l), call'[j] # "granted" PROVE InLine(j, l)'
  <2>1. PICK i \in 1 .. Len(waiters[l]) : waiters[l][i] = j
    BY <1>9 DEF InLine
  <2>2. i \notin 1 .. n
    BY <1>3, <1>9, <2>1
  <2>a. Len(waiters'[l]) = Len(waiters[l]) - n
    BY <1>4, <1>5
  <2>b. i - n \in 1 .. Len(waiters[l]) - n /\ (i - n) + n = i
    BY <1>1, <1>2, <2>1, <2>2
  <2>3. i - n \in 1 .. Len(waiters'[l]) /\ waiters'[l][i - n] = j
    BY <1>4, <1>5, <2>1, <2>a, <2>b
  <2>. QED  BY <2>3 DEF InLine
<1>10. ASSUME waiters'[l] # <<>>, slots'[l] > 0
       PROVE  \/ most < free /\ most = 0
              \/ most < free /\ \E j \in Jobs : laneOf[j] = l /\ call'[j] = "granted"
  <2>1. n < Len(waiters[l])
    BY <1>1, <1>2, <1>4, <1>5, <1>10
  <2>2. n = most /\ n < free
    BY <1>2, <1>5, <1>10, <2>1
  <2>3. ASSUME most # 0 PROVE \E j \in Jobs : laneOf[j] = l /\ call'[j] = "granted"
    <3>1. 1 \in 1 .. n /\ 1 \in 1 .. Len(waiters[l])
      BY <1>1, <1>2, <2>1, <2>2, <2>3
    <3>2. waiters[l][1] \in woken
      BY <3>1
    <3>. QED  BY <1>1, <1>3, <3>1, <3>2
  <2>. QED  BY <2>2, <2>3
<1>. QED  BY <1>5, <1>6, <1>7, <1>8, <1>9, <1>10 DEF Handed

\* Who held a slot of lane l moves on and hands slots on.
LEMMA HandOnKeeps ==
    ASSUME SlotInv, NEW j \in Jobs, NEW l \in Lanes, l = laneOf[j],
           call[j] \in {"granted", "submitted"},
           NEW st \in {"done", "submitted"}, NEW free \in Nat, NEW most \in Nat,
           call[j] = "granted" => most >= free, call[j] = "submitted" => most = 1,
           HandOn(l, free, most, [call EXCEPT ![j] = st]), laneOf' = laneOf
    PROVE  SlotInv'
<1>. DEFINE c == [call EXCEPT ![j] = st]
<1>1. /\ l \in Lanes /\ c \in [Jobs -> CallStates] /\ c[j] = st
      /\ \A i \in Jobs \ {j} : c[i] = call[i]
  BY DEF SlotInv, SlotType, CallStates
<1>2. HandOn(l, free, most, c)
  OBVIOUS
<1>. HIDE DEF c
<1>h. Handed(l, free, most, c)
  BY <1>1, <1>2, HandingOn
<1>3. /\ slots' \in [Lanes -> Nat] /\ waiters' \in [Lanes -> Seq(Jobs)]
      /\ call' \in [Jobs -> CallStates]
      /\ \A k \in Lanes \ {l} : slots'[k] = slots[k] /\ waiters'[k] = waiters[k]
      /\ \A i \in 1 .. Len(waiters'[l]) :
            \E h \in 1 .. Len(waiters[l]) : waiters'[l][i] = waiters[l][h]
      /\ \A i \in Jobs : laneOf[i] # l => call'[i] = c[i]
      /\ \A i \in Jobs : call'[i] \in {c[i], "granted"}
      /\ \A i \in Jobs : InLine(i, l) /\ call'[i] # "granted" => InLine(i, l)'
      /\ waiters'[l] # <<>> /\ slots'[l] > 0 =>
            \/ most < free /\ most = 0
            \/ most < free /\ \E i \in Jobs : laneOf[i] = l /\ call'[i] = "granted"
  BY <1>h DEF Handed
<1>4. SlotType'
  BY <1>3 DEF SlotInv, SlotType
<1>5. \A k \in Lanes : \A i \in 1 .. Len(waiters'[k]) : laneOf'[waiters'[k][i]] = k
  <2>1. ASSUME NEW k \in Lanes \ {l} PROVE \A i \in 1 .. Len(waiters'[k]) : laneOf'[waiters'[k][i]] = k
    BY <1>3 DEF SlotInv
  <2>2. ASSUME NEW i \in 1 .. Len(waiters'[l]) PROVE laneOf'[waiters'[l][i]] = l
    <3>1. PICK h \in 1 .. Len(waiters[l]) : waiters'[l][i] = waiters[l][h]
      BY <1>3
    <3>2. laneOf[waiters[l][h]] = l
      BY <1>1 DEF SlotInv
    <3>. QED  BY <3>1, <3>2
  <2>. QED  BY <2>1, <2>2
<1>6. ASSUME NEW i \in Jobs, call'[i] = "waiting" PROVE InLine(i, laneOf[i])'
  <2>1. i # j /\ call[i] = "waiting"
    BY <1>1, <1>3, <1>6
  <2>2. InLine(i, laneOf[i]) /\ laneOf[i] \in Lanes
    BY <2>1 DEF SlotInv, SlotType
  <2>3. CASE laneOf[i] = l
    <3>1. InLine(i, l)'
      BY <1>3, <1>6, <2>2, <2>3
    <3>2. laneOf'[i] = l
      BY <2>3
    <3>. QED  BY <3>1, <3>2 DEF InLine
  <2>4. CASE laneOf[i] # l
    BY <1>3, <2>2, <2>4 DEF InLine
  <2>. QED  BY <2>3, <2>4
<1>7. NoIdleSlot'
  <2>. SUFFICES ASSUME NEW k \in Lanes, waiters'[k] # <<>>, slots'[k] > 0
                PROVE  \E i \in Jobs : laneOf'[i] = k /\ call'[i] = "granted"
    BY DEF NoIdleSlot
  <2>1. CASE k = l
    BY <1>3, <2>1
  <2>2. CASE k # l
    <3>1. PICK i \in Jobs : laneOf[i] = k /\ call[i] = "granted"
      BY <1>3, <2>2, SMTT(30) DEF SlotInv, NoIdleSlot
    <3>2. i # j /\ call'[i] = "granted"
      BY <1>1, <1>3, <2>2, <3>1
    <3>. QED  BY <3>1, <3>2
  <2>. QED  BY <2>1, <2>2
<1>. QED  BY <1>4, <1>5, <1>6, <1>7 DEF SlotInv

LEMMA SlotInit == Init => SlotInv
<1>. USE LaneAssumption DEF LaneAssumption
<1>1. Init => SlotInv
  <2>. SUFFICES ASSUME Init PROVE SlotInv
    OBVIOUS
  <2>1. SlotType
    BY DEF Init, SlotType, CallStates
  <2>2. \A l \in Lanes : waiters[l] = <<>>
    BY DEF Init
  <2>. QED  BY <2>1, <2>2 DEF Init, SlotInv, NoIdleSlot
<1>. QED  BY <1>1

LEMMA SlotStep == SlotInv /\ [Next]_vars => SlotInv'
<1>. USE LaneAssumption DEF LaneAssumption
<1>2. SlotInv /\ [Next]_vars => SlotInv'
  <2>. SUFFICES ASSUME SlotInv, [Next]_vars PROVE SlotInv'
    OBVIOUS
  <2>1. ASSUME UNCHANGED <<call, laneOf, slots, waiters>> PROVE SlotInv'
    BY <2>1 DEF SlotInv, SlotType, InLine, NoIdleSlot
  <2>t. /\ \A j \in Jobs : laneOf[j] \in Lanes /\ slots[laneOf[j]] \in Nat
        /\ waiters \in [Lanes -> Seq(Jobs)]
    BY DEF SlotInv, SlotType
  <2>2. ASSUME NEW j \in Jobs, call[j] = "idle", NEW st \in {"done", "submitted"},
               call' = [call EXCEPT ![j] = st], UNCHANGED <<laneOf, waiters>>,
               \/ UNCHANGED slots
               \/ slots[laneOf[j]] # 0 /\ slots' = [slots EXCEPT ![laneOf[j]] = @ - 1]
        PROVE  SlotInv'
    <3>1. SlotType'
      BY <2>2, <2>t DEF SlotInv, SlotType, CallStates
    <3>2. \A i \in Jobs : i # j => call'[i] = call[i]
      BY <2>2 DEF SlotInv, SlotType
    <3>3. \A l \in Lanes : slots'[l] <= slots[l] /\ slots[l] \in Nat /\ slots'[l] \in Nat
      <4>1. CASE UNCHANGED slots
        BY <4>1 DEF SlotInv, SlotType
      <4>2. CASE slots' = [slots EXCEPT ![laneOf[j]] = @ - 1]
        BY <3>1, <4>2 DEF SlotInv, SlotType
      <4>. QED  BY <2>2, <4>1, <4>2
    <3>4. \A i \in Jobs : call'[i] = "waiting" => call[i] = "waiting"
      BY <2>2 DEF SlotInv, SlotType
    <3>5. NoIdleSlot'
      <4>. SUFFICES ASSUME NEW k \in Lanes, waiters'[k] # <<>>, slots'[k] > 0
                    PROVE  \E i \in Jobs : laneOf'[i] = k /\ call'[i] = "granted"
        BY DEF NoIdleSlot
      <4>1. PICK i \in Jobs : laneOf[i] = k /\ call[i] = "granted"
        BY <2>2, <3>3 DEF SlotInv, NoIdleSlot
      <4>. QED  BY <2>2, <3>2, <4>1
    <3>6. \A i \in Jobs : call'[i] = "waiting" => InLine(i, laneOf[i])'
      BY <2>2, <3>4 DEF SlotInv, InLine
    <3>. QED  BY <2>2, <3>1, <3>5, <3>6 DEF SlotInv
  <2>3. ASSUME NEW j \in Jobs, RefuseBusy(j) PROVE SlotInv'
    BY <2>2, <2>3 DEF RefuseBusy, semVars
  <2>4. ASSUME NEW j \in Jobs, TakeSlotAndSubmit(j) PROVE SlotInv'
    BY <2>2, <2>4 DEF TakeSlotAndSubmit, Locked
  <2>5. ASSUME NEW j \in Jobs, AwaitSlot(j) PROVE SlotInv'
    <3>. DEFINE l == laneOf[j]
                line == Append(waiters[l], j)
    <3>1. /\ call' = [call EXCEPT ![j] = "waiting"] /\ UNCHANGED <<laneOf, slots>>
          /\ waiters' = [waiters EXCEPT ![l] = line] /\ call[j] = "idle"
      BY <2>5 DEF AwaitSlot
    <3>2. /\ line \in Seq(Jobs) /\ Len(line) = Len(waiters[l]) + 1 /\ Len(waiters[l]) \in Nat
          /\ \A i \in 1 .. Len(waiters[l]) : line[i] = waiters[l][i]
          /\ line[Len(waiters[l]) + 1] = j
      BY <2>t
    <3>. HIDE DEF line
    <3>3. /\ waiters' \in [Lanes -> Seq(Jobs)] /\ waiters'[l] = line
          /\ \A k \in Lanes \ {l} : waiters'[k] = waiters[k]
      BY <2>t, <3>1, <3>2
    <3>4. call' \in [Jobs -> CallStates] /\ \A i \in Jobs \ {j} : call'[i] = call[i]
      BY <3>1 DEF SlotInv, SlotType, CallStates
    <3>5. \A k \in Lanes : \A i \in 1 .. Len(waiters'[k]) : laneOf'[waiters'[k][i]] = k
      <4>1. ASSUME NEW i \in 1 .. Len(line) PROVE laneOf[line[i]] = l
        <5>1. i \in 1 .. Len(waiters[l]) \/ i = Len(waiters[l]) + 1
          BY <3>2
        <5>. QED  BY <2>t, <3>2, <5>1 DEF SlotInv
      <4>. QED  BY <3>1, <3>3, <4>1 DEF SlotInv
    <3>6. ASSUME NEW i \in Jobs, call'[i] = "waiting" PROVE InLine(i, laneOf[i])'
      <4>1. CASE i = j
        <5>1. Len(waiters[l]) + 1 \in 1 .. Len(line)
          BY <3>2
        <5>. QED  BY <3>1, <3>2, <3>3, <4>1, <5>1 DEF InLine
      <4>2. CASE i # j /\ laneOf[i] = l
        <5>1. PICK h \in 1 .. Len(waiters[l]) : waiters[l][h] = i
          BY <3>4, <3>6, <4>2 DEF SlotInv, InLine
        <5>2. h \in 1 .. Len(line) /\ line[h] = i
          BY <3>2, <5>1
        <5>. QED  BY <3>1, <3>3, <4>2, <5>2 DEF InLine
      <4>3. CASE i # j /\ laneOf[i] # l
        BY <2>t, <3>1, <3>3, <3>4, <3>6, <4>3 DEF SlotInv, InLine
      <4>. QED  BY <4>1, <4>2, <4>3
    <3>7. ASSUME slots[l] > 0 PROVE \E i \in Jobs : laneOf[i] = l /\ call[i] = "granted"
      <4>1. PICK i \in Jobs : laneOf[i] = l /\ call[i] \in {"waiting", "granted"}
        BY <2>5, <2>t, <3>7 DEF AwaitSlot, Locked
      <4>2. ASSUME call[i] = "waiting" PROVE waiters[l] # <<>>
        <5>1. PICK h \in 1 .. Len(waiters[l]) : waiters[l][h] = i
          BY <4>1, <4>2 DEF SlotInv, InLine
        <5>. QED  BY <2>t, <5>1
      <4>. QED  BY <2>t, <3>7, <4>1, <4>2 DEF SlotInv, NoIdleSlot
    <3>8. NoIdleSlot'
      <4>. SUFFICES ASSUME NEW k \in Lanes, waiters'[k] # <<>>, slots'[k] > 0
                    PROVE  \E i \in Jobs : laneOf'[i] = k /\ call'[i] = "granted"
        BY DEF NoIdleSlot
      <4>1. PICK i \in Jobs : laneOf[i] = k /\ call[i] = "granted"
        BY <3>1, <3>3, <3>7 DEF SlotInv, NoIdleSlot
      <4>. QED  BY <3>1, <3>4, <4>1
    <3>9. SlotType'
      BY <3>1, <3>3, <3>4 DEF SlotInv, SlotType
    <3>. QED  BY <3>5, <3>6, <3>8, <3>9 DEF SlotInv
  <2>6. ASSUME NEW j \in Jobs, CancelWaiting(j) PROVE SlotInv'
    <3>. DEFINE l == laneOf[j]
    <3>1. PICK n \in 1 .. Len(waiters[l]) :
             /\ waiters[l][n] = j
             /\ waiters' = [waiters EXCEPT ![l] = SubSeq(waiters[l], 1, n - 1)
                                      \o SubSeq(waiters[l], n + 1, Len(waiters[l]))]
      BY <2>6 DEF CancelWaiting
    <3>2. call' = [call EXCEPT ![j] = "done"] /\ call[j] = "waiting" /\ UNCHANGED <<laneOf, slots>>
      BY <2>6 DEF CancelWaiting
    <3>. DEFINE line == SubSeq(waiters[l], 1, n - 1) \o SubSeq(waiters[l], n + 1, Len(waiters[l]))
    <3>3. /\ line \in Seq(Jobs) /\ Len(line) = Len(waiters[l]) - 1 /\ Len(waiters[l]) \in Nat
          /\ \A i \in 1 .. n - 1 : line[i] = waiters[l][i]
          /\ \A i \in n .. Len(waiters[l]) - 1 : line[i] = waiters[l][i + 1]
      <4>1. /\ SubSeq(waiters[l], 1, n - 1) \in Seq(Jobs)
            /\ SubSeq(waiters[l], n + 1, Len(waiters[l])) \in Seq(Jobs)
            /\ Len(SubSeq(waiters[l], 1, n - 1)) = n - 1
            /\ Len(SubSeq(waiters[l], n + 1, Len(waiters[l]))) = Len(waiters[l]) - n
        BY <2>t
      <4>. DEFINE a == SubSeq(waiters[l], 1, n - 1)
                  b == SubSeq(waiters[l], n + 1, Len(waiters[l]))
      <4>2. /\ \A i \in 1 .. n - 1 : a[i] = waiters[l][i]
            /\ \A i \in 1 .. Len(waiters[l]) - n : b[i] = waiters[l][i + n]
            /\ Len(waiters[l]) \in Nat
        BY <2>t, SMTT(30)
      <4>a. a \in Seq(Jobs) /\ b \in Seq(Jobs)
        BY <4>1
      <4>. HIDE DEF a, b
      <4>3. /\ a \o b \in Seq(Jobs) /\ Len(a \o b) = Len(a) + Len(b)
            /\ \A i \in 1 .. Len(a) : (a \o b)[i] = a[i]
            /\ \A i \in Len(a) + 1 .. Len(a) + Len(b) : (a \o b)[i] = b[i - Len(a)]
        BY <4>a
      <4>4. Len(a) = n - 1 /\ Len(b) = Len(waiters[l]) - n /\ line = a \o b
        BY <4>1 DEF a, b
      <4>5. ASSUME NEW i \in n .. Len(waiters[l]) - 1 PROVE (a \o b)[i] = waiters[l][i + 1]
        <5>1. /\ i \in Len(a) + 1 .. Len(a) + Len(b)
              /\ i - Len(a) \in 1 .. Len(waiters[l]) - n /\ (i - Len(a)) + n = i + 1
          BY <4>2, <4>4, <4>5
        <5>. QED  BY <4>2, <4>3, <5>1
      <4>. HIDE DEF line
      <4>6. \A i \in 1 .. n - 1 : (a \o b)[i] = waiters[l][i]
        BY <4>2, <4>3, <4>4
      <4>7. Len(line) = Len(waiters[l]) - 1 /\ line \in Seq(Jobs)
        <5>1. Len(a) + Len(b) = Len(waiters[l]) - 1
          BY <4>2, <4>4
        <5>2. Len(a \o b) = Len(waiters[l]) - 1 /\ a \o b \in Seq(Jobs)
          BY <4>3, <5>1, Zenon
        <5>. QED  BY <4>4, <5>2, Zenon
      <4>. QED  BY <4>2, <4>4, <4>5, <4>6, <4>7
    <3>4. waiters' = [waiters EXCEPT ![l] = line]
      BY <3>1
    <3>. HIDE DEF line
    <3>5. /\ waiters' \in [Lanes -> Seq(Jobs)] /\ waiters'[l] = line
          /\ \A k \in Lanes \ {l} : waiters'[k] = waiters[k]
      BY <2>t, <3>3, <3>4
    <3>6. call' \in [Jobs -> CallStates] /\ \A i \in Jobs \ {j} : call'[i] = call[i]
      BY <3>2 DEF SlotInv, SlotType, CallStates
    <3>7. \A k \in Lanes : \A i \in 1 .. Len(waiters'[k]) : laneOf'[waiters'[k][i]] = k
      <4>1. ASSUME NEW i \in 1 .. Len(line) PROVE laneOf[line[i]] = l
        <5>1. i \in 1 .. n - 1 \/ i \in n .. Len(waiters[l]) - 1
          BY <3>1, <3>3
        <5>2. \E h \in 1 .. Len(waiters[l]) : line[i] = waiters[l][h]
          BY <3>3, <5>1
        <5>. QED  BY <2>t, <5>2 DEF SlotInv
      <4>. QED  BY <3>2, <3>5, <4>1 DEF SlotInv
    <3>8. ASSUME NEW i \in Jobs, call'[i] = "waiting" PROVE InLine(i, laneOf[i])'
      <4>0. i # j /\ call[i] = "waiting"
        BY <3>2, <3>6, <3>8
      <4>1. CASE laneOf[i] = l
        <5>1. PICK h \in 1 .. Len(waiters[l]) : waiters[l][h] = i
          BY <4>0, <4>1 DEF SlotInv, InLine
        <5>2. h # n
          BY <3>1, <4>0, <5>1
        <5>3. \/ h \in 1 .. n - 1
              \/ h - 1 \in n .. Len(waiters[l]) - 1 /\ (h - 1) + 1 = h
          BY <3>3, <5>1, <5>2
        <5>4. \E g \in 1 .. Len(line) : line[g] = i
          <6>1. CASE h \in 1 .. n - 1
            <7>1. h \in 1 .. Len(line) /\ line[h] = i
              BY <3>3, <5>1, <6>1
            <7>. QED  BY <7>1
          <6>2. CASE h - 1 \in n .. Len(waiters[l]) - 1 /\ (h - 1) + 1 = h
            <7>1. h - 1 \in 1 .. Len(line) /\ line[h - 1] = i
              BY <3>3, <5>1, <6>2
            <7>. QED  BY <7>1
          <6>. QED  BY <5>3, <6>1, <6>2
        <5>. QED  BY <3>2, <3>5, <4>1, <5>4 DEF InLine
      <4>2. CASE laneOf[i] # l
        <5>1. PICK h \in 1 .. Len(waiters[laneOf[i]]) : waiters[laneOf[i]][h] = i
          BY <4>0 DEF SlotInv, InLine
        <5>2. waiters'[laneOf[i]] = waiters[laneOf[i]] /\ laneOf'[i] = laneOf[i]
          BY <2>t, <3>2, <3>5, <4>2
        <5>. QED  BY <5>1, <5>2 DEF InLine
      <4>. QED  BY <4>1, <4>2
    <3>9. NoIdleSlot'
      <4>. SUFFICES ASSUME NEW k \in Lanes, waiters'[k] # <<>>, slots'[k] > 0
                    PROVE  \E i \in Jobs : laneOf'[i] = k /\ call'[i] = "granted"
        BY DEF NoIdleSlot
      <4>1. waiters[l] # <<>>
        BY <2>t, <3>1
      <4>2. PICK i \in Jobs : laneOf[i] = k /\ call[i] = "granted"
        BY <3>2, <3>5, <4>1 DEF SlotInv, NoIdleSlot
      <4>. QED  BY <3>2, <3>6, <4>2
    <3>10. SlotType'
      BY <3>2, <3>5, <3>6 DEF SlotInv, SlotType
    <3>. QED  BY <3>7, <3>8, <3>9, <3>10 DEF SlotInv
  <2>7. ASSUME NEW j \in Jobs, NEW o, call[j] \in {"granted", "submitted"},
               ReleaseSlot(j, laneOf[j], o), UNCHANGED laneOf
        PROVE  SlotInv'
    <3>1. HandOn(laneOf[j], slots[laneOf[j]] + 1, Wakes(j, laneOf[j]), [call EXCEPT ![j] = "done"])
      BY <2>7 DEF ReleaseSlot
    <3>2. /\ Wakes(j, laneOf[j]) \in Nat /\ slots[laneOf[j]] + 1 \in Nat
          /\ call[j] = "granted" => Wakes(j, laneOf[j]) >= slots[laneOf[j]] + 1
          /\ call[j] = "submitted" => Wakes(j, laneOf[j]) = 1
      BY <2>t DEF Wakes
    <3>3. laneOf[j] \in Lanes /\ laneOf' = laneOf
      BY <2>t, <2>7
    <3>. QED  BY <2>7, <3>1, <3>2, <3>3, HandOnKeeps
  <2>8. ASSUME NEW j \in Jobs, SubmitGranted(j) PROVE SlotInv'
    <3>1. call[j] = "granted" /\ UNCHANGED laneOf
      BY <2>8 DEF SubmitGranted
    <3>2. CASE HandOn(laneOf[j], slots[laneOf[j]], slots[laneOf[j]], [call EXCEPT ![j] = "submitted"])
      <4>1. laneOf[j] \in Lanes /\ slots[laneOf[j]] \in Nat /\ slots[laneOf[j]] >= slots[laneOf[j]]
        BY <2>t
      <4>2. call[j] # "submitted"
        BY <3>1
      <4>. QED  BY <3>1, <3>2, <4>1, <4>2, HandOnKeeps
    <3>3. CASE ReleaseSlot(j, laneOf[j], "closed")
      BY <2>7, <3>1, <3>3
    <3>. QED  BY <2>8, <3>2, <3>3 DEF SubmitGranted
  <2>9. ASSUME NEW j \in Jobs, CancelHolding(j) PROVE SlotInv'
    BY <2>7, <2>9 DEF CancelHolding
  <2>10. ASSUME NEW j \in Jobs, Resume(j) PROVE SlotInv'
    BY <2>7, <2>10 DEF Resume
  <2>11. ASSUME NEW l \in Lanes, CloseBegin(l) \/ CloseEnd(l) \/ Worker(l) PROVE SlotInv'
    BY <2>1, <2>11 DEF CloseBegin, CloseEnd, Worker, StartJob, OpenConnection, RunClose, JobWrite,
                       JobCommit, JobReturn, JobRaise, callVars, semVars
  <2>12. CASE UNCHANGED vars
    BY <2>1, <2>12 DEF vars, callVars, semVars
  <2>. QED  BY <2>3, <2>4, <2>5, <2>6, <2>8, <2>9, <2>10, <2>11, <2>12 DEF Next
<1>. QED  BY <1>2

\* No caller waits while a slot of its lane is free, but behind one who was
\* given a slot and is about to resume: for any max_queued.
THEOREM SlotsHandedOn == Spec => []NoIdleSlot
<1>1. SlotInv => NoIdleSlot
  BY DEF SlotInv
<1>. QED  BY <1>1, SlotInit, SlotStep, PTL DEF Spec

-----------------------------------------------------------------------------
(* The line and the work.  Nobody stands in line twice, and every slot is    *)
(* either free or with a caller; a job still to be run is with its lane, and *)
(* its caller has not ended.                                                 *)

InWaiting ==
    \A l \in Lanes : \A i \in 1 .. Len(waiters[l]) :
        /\ call[waiters[l][i]] = "waiting"
        /\ \A h \in 1 .. Len(waiters[l]) : waiters[l][h] = waiters[l][i] => h = i

HoldersOf(l, c) == {j \in Jobs : laneOf[j] = l /\ c[j] \in {"granted", "submitted"}}

SlotsKept == \A l \in Lanes : slots[l] + Cardinality(HoldersOf(l, call)) <= MaxQueued

LineInv == InWaiting /\ SlotsKept

InQueue(j, l) == \E i \in 1 .. Len(queue[l]) : queue[l][i] = j

WorkInv ==
    /\ queue \in [Lanes -> Seq(Jobs \cup {CloseItem})]
    /\ fut \in [Jobs -> FutStates]
    /\ running \in [Lanes -> Jobs \cup {None}]
    /\ outcome \in [Jobs -> Outcomes]
    /\ \A l \in Lanes : \A j \in Jobs : InQueue(j, l) => laneOf[j] = l
    /\ \A j \in Jobs : fut[j] = "pending" => call[j] = "submitted" /\ InQueue(j, laneOf[j])
    /\ \A j \in Jobs : fut[j] = "running" => running[laneOf[j]] = j
    /\ \A l \in Lanes : shut[l] => queue[l] = <<>> /\ running[l] = None
    /\ \A j \in Jobs : outcome[j] = "cancelled" => call[j] = "done"

LEMMA HoldersFinite ==
    ASSUME NEW l, NEW c
    PROVE  IsFiniteSet(HoldersOf(l, c)) /\ Cardinality(HoldersOf(l, c)) \in Nat
<1>1. HoldersOf(l, c) \in SUBSET Jobs /\ IsFiniteSet(Jobs)
  BY LaneAssumption DEF HoldersOf, LaneAssumption
<1>. QED  BY <1>1, FS_Subset, FS_CardinalityType

\* What HandOn does to the line and to the number of slots.
LEMMA HandingOut ==
    ASSUME SlotInv, LineInv, NEW l \in Lanes, NEW free \in Nat, NEW most \in Nat,
           NEW c \in [Jobs -> CallStates], HandOn(l, free, most, c), laneOf' = laneOf,
           \A j \in Jobs : c[j] = call[j] \/ call[j] # "waiting"
    PROVE  /\ InWaiting'
           /\ slots' \in [Lanes -> Nat]
           /\ slots'[l] + Cardinality(HoldersOf(l, call')) <= free + Cardinality(HoldersOf(l, c))
           /\ \A k \in Lanes \ {l} : slots'[k] = slots[k] /\ HoldersOf(k, call') = HoldersOf(k, c)
           /\ \A j \in Jobs : call[j] # "waiting" => call'[j] = c[j]
           /\ \A j \in Jobs : call'[j] \in {c[j], "granted"}
<1>. DEFINE n == Smaller(Smaller(free, most), Len(waiters[l]))
            woken == {waiters[l][i] : i \in 1 .. n}
<1>1. /\ waiters[l] \in Seq(Jobs) /\ Len(waiters[l]) \in Nat
      /\ \A i \in 1 .. Len(waiters[l]) : waiters[l][i] \in Jobs /\ laneOf[waiters[l][i]] = l
  BY DEF SlotInv, SlotType
<1>2. n \in Nat /\ n <= free /\ n <= Len(waiters[l])
  BY <1>1 DEF Smaller
<1>3. /\ slots' = [slots EXCEPT ![l] = free - n]
      /\ waiters' = [waiters EXCEPT ![l] = SubSeq(waiters[l], n + 1, Len(waiters[l]))]
      /\ call' = [k \in Jobs |-> IF k \in woken THEN "granted" ELSE c[k]]
  BY DEF HandOn
<1>h. Handed(l, free, most, c)
  BY HandingOn
<1>. HIDE DEF n
<1>4. /\ SubSeq(waiters[l], n + 1, Len(waiters[l])) \in Seq(Jobs)
      /\ Len(SubSeq(waiters[l], n + 1, Len(waiters[l]))) = Len(waiters[l]) - n
      /\ \A i \in 1 .. Len(waiters[l]) - n :
            SubSeq(waiters[l], n + 1, Len(waiters[l]))[i] = waiters[l][i + n]
  BY <1>1, <1>2
<1>w. /\ waiters'[l] = SubSeq(waiters[l], n + 1, Len(waiters[l]))
      /\ \A k \in Lanes \ {l} : waiters'[k] = waiters[k]
  <2>1. waiters \in [Lanes -> Seq(Jobs)]
    BY DEF SlotInv, SlotType
  <2>. QED  BY <1>3, <2>1
<1>5. \A j \in woken : j \in Jobs /\ laneOf[j] = l /\ call[j] = "waiting"
  <2>1. \A i \in 1 .. n : i \in 1 .. Len(waiters[l])
    BY <1>1, <1>2
  <2>. QED  BY <1>1, <2>1 DEF LineInv, InWaiting
<1>6. \A j \in Jobs : call'[j] = IF j \in woken THEN "granted" ELSE c[j]
  BY <1>3
<1>7. InWaiting'
  <2>1. ASSUME NEW k \in Lanes \ {l}, NEW i \in 1 .. Len(waiters'[k])
        PROVE  /\ call'[waiters'[k][i]] = "waiting"
               /\ \A h \in 1 .. Len(waiters'[k]) : waiters'[k][h] = waiters'[k][i] => h = i
    <3>1. /\ waiters'[k] = waiters[k] /\ i \in 1 .. Len(waiters[k])
      BY <1>w, <2>1
    <3>2. waiters[k][i] \in Jobs /\ laneOf[waiters[k][i]] = k
      BY <3>1 DEF SlotInv, SlotType
    <3>3. call[waiters[k][i]] = "waiting"
      BY <3>1 DEF LineInv, InWaiting
    <3>4. call'[waiters[k][i]] = "waiting"
      BY <1>5, <1>6, <3>2, <3>3
    <3>. QED  BY <3>1, <3>4 DEF LineInv, InWaiting
  <2>2. ASSUME NEW i \in 1 .. Len(waiters'[l])
        PROVE  /\ call'[waiters'[l][i]] = "waiting"
               /\ \A h \in 1 .. Len(waiters'[l]) : waiters'[l][h] = waiters'[l][i] => h = i
    <3>1. \A h \in 1 .. Len(waiters'[l]) :
             h + n \in 1 .. Len(waiters[l]) /\ waiters'[l][h] = waiters[l][h + n] /\ h \in Nat
      <4>. TAKE h \in 1 .. Len(waiters'[l])
      <4>1. Len(waiters'[l]) = Len(waiters[l]) - n
        BY <1>4, <1>w
      <4>2. h \in 1 .. Len(waiters[l]) - n /\ h \in Nat /\ h + n \in 1 .. Len(waiters[l])
        BY <1>1, <1>2, <4>1
      <4>. QED  BY <1>4, <1>w, <4>2
    <3>2. waiters[l][i + n] \notin woken
      <4>1. \A h \in 1 .. n : h \in 1 .. Len(waiters[l]) /\ h # i + n
        BY <1>1, <1>2, <1>4, <1>w
      <4>. QED  BY <3>1, <4>1 DEF LineInv, InWaiting
    <3>3. waiters[l][i + n] \in Jobs /\ call[waiters[l][i + n]] = "waiting"
      BY <1>1, <3>1 DEF LineInv, InWaiting
    <3>4. call'[waiters'[l][i]] = "waiting"
      BY <1>6, <3>1, <3>2, <3>3
    <3>5. ASSUME NEW h \in 1 .. Len(waiters'[l]), waiters'[l][h] = waiters'[l][i] PROVE h = i
      <4>1. h + n = i + n
        BY <3>1, <3>5 DEF LineInv, InWaiting
      <4>2. h \in Nat /\ i \in Nat /\ n \in Nat
        BY <1>2, <3>1
      <4>. QED  BY <4>1, <4>2
    <3>. QED  BY <3>4, <3>5
  <2>. QED  BY <2>1, <2>2 DEF InWaiting
<1>8. slots' \in [Lanes -> Nat] /\ slots'[l] = free - n /\ \A k \in Lanes \ {l} : slots'[k] = slots[k]
  BY <1>2, <1>3 DEF SlotInv, SlotType
<1>9. IsFiniteSet(woken) /\ Cardinality(woken) <= n
  <2>. DEFINE f == [i \in 1 .. n |-> waiters[l][i]]
  <2>1. f \in Surjection(1 .. n, woken)
    BY DEF Surjection
  <2>2. ExistsSurjection(1 .. n, woken)
    BY <2>1 DEF ExistsSurjection
  <2>3. IsFiniteSet(woken)
    BY <1>2, <2>2, FS_NatSurjection
  <2>. QED  BY <1>2, <2>2, <2>3, FS_SurjCardinalityBound
<1>10. slots'[l] + Cardinality(HoldersOf(l, call')) <= free + Cardinality(HoldersOf(l, c))
  <2>1. HoldersOf(l, call') \in SUBSET (HoldersOf(l, c) \cup woken)
    BY <1>6 DEF HoldersOf
  <2>2. /\ IsFiniteSet(HoldersOf(l, c) \cup woken)
        /\ Cardinality(HoldersOf(l, c) \cup woken) =
              Cardinality(HoldersOf(l, c)) + Cardinality(woken) - Cardinality(HoldersOf(l, c) \cap woken)
    BY <1>9, HoldersFinite, FS_Union
  <2>3. Cardinality(HoldersOf(l, c) \cap woken) \in Nat /\ Cardinality(woken) \in Nat
    BY <1>9, HoldersFinite, FS_Intersection, FS_CardinalityType
  <2>4. Cardinality(HoldersOf(l, call')) <= Cardinality(HoldersOf(l, c) \cup woken)
    BY <2>1, <2>2, FS_Subset
  <2>. QED  BY <1>2, <1>8, <1>9, <2>2, <2>3, <2>4, HoldersFinite
<1>11. \A k \in Lanes \ {l} : HoldersOf(k, call') = HoldersOf(k, c)
  BY <1>5, <1>6 DEF HoldersOf
<1>. QED  BY <1>5, <1>6, <1>7, <1>8, <1>10, <1>11

\* A caller that holds a slot submits its job or ends, and hands slots on.
LEMMA HandingKeeps ==
    ASSUME SlotInv, LineInv, NEW j \in Jobs, NEW l \in Lanes, l = laneOf[j],
           call[j] \in {"granted", "submitted"},
           NEW st \in {"done", "submitted"}, NEW free \in Nat, NEW most \in Nat,
           free <= slots[l] + (IF st = "done" THEN 1 ELSE 0),
           HandOn(l, free, most, [call EXCEPT ![j] = st]), laneOf' = laneOf
    PROVE  /\ LineInv'
           /\ call'[j] = st
           /\ \A i \in Jobs \ {j} : call[i] # "waiting" => call'[i] = call[i]
           /\ \A i \in Jobs \ {j} : call'[i] \in {call[i], "granted"}
<1>. DEFINE c == [call EXCEPT ![j] = st]
<1>1. /\ c \in [Jobs -> CallStates] /\ c[j] = st
      /\ \A i \in Jobs \ {j} : c[i] = call[i]
      /\ \A i \in Jobs : c[i] = call[i] \/ call[i] # "waiting"
  BY DEF SlotInv, SlotType, CallStates
<1>2. HandOn(l, free, most, c)
  OBVIOUS
<1>. HIDE DEF c
<1>3. /\ InWaiting'
      /\ slots' \in [Lanes -> Nat]
      /\ slots'[l] + Cardinality(HoldersOf(l, call')) <= free + Cardinality(HoldersOf(l, c))
      /\ \A k \in Lanes \ {l} : slots'[k] = slots[k] /\ HoldersOf(k, call') = HoldersOf(k, c)
      /\ \A i \in Jobs : call[i] # "waiting" => call'[i] = c[i]
      /\ \A i \in Jobs : call'[i] \in {c[i], "granted"}
  BY <1>1, <1>2, HandingOut
<1>4. \A k \in Lanes \ {l} : HoldersOf(k, c) = HoldersOf(k, call)
  BY <1>1 DEF HoldersOf
<1>5. free + Cardinality(HoldersOf(l, c)) <= slots[l] + Cardinality(HoldersOf(l, call))
  <2>1. slots[l] \in Nat
    BY DEF SlotInv, SlotType
  <2>2. CASE st = "done"
    <3>1. HoldersOf(l, c) = HoldersOf(l, call) \ {j} /\ j \in HoldersOf(l, call)
      BY <1>1, <2>2 DEF HoldersOf
    <3>2. Cardinality(HoldersOf(l, c)) = Cardinality(HoldersOf(l, call)) - 1
      BY <3>1, HoldersFinite, FS_RemoveElement
    <3>. QED  BY <2>1, <2>2, <3>2, HoldersFinite
  <2>3. CASE st = "submitted"
    <3>1. HoldersOf(l, c) = HoldersOf(l, call)
      BY <1>1, <2>3 DEF HoldersOf
    <3>. QED  BY <2>1, <2>3, <3>1, HoldersFinite
  <2>. QED  BY <2>2, <2>3
<1>6. SlotsKept'
  <2>. SUFFICES ASSUME NEW k \in Lanes
                PROVE  slots'[k] + Cardinality(HoldersOf(k, call')) <= MaxQueued
    BY DEF SlotsKept, HoldersOf
  <2>1. /\ slots[k] + Cardinality(HoldersOf(k, call)) <= MaxQueued
        /\ slots[l] + Cardinality(HoldersOf(l, call)) <= MaxQueued
    BY DEF LineInv, SlotsKept
  <2>2. CASE k # l
    BY <1>3, <1>4, <2>1, <2>2
  <2>3. CASE k = l
    <3>1. /\ slots'[l] \in Nat /\ slots[l] \in Nat /\ MaxQueued \in Nat
          /\ Cardinality(HoldersOf(l, call')) \in Nat /\ Cardinality(HoldersOf(l, call)) \in Nat
          /\ Cardinality(HoldersOf(l, c)) \in Nat
      BY <1>3, HoldersFinite, LaneAssumption DEF SlotInv, SlotType, LaneAssumption
    <3>. QED  BY <1>3, <1>5, <2>1, <2>3, <3>1
  <2>. QED  BY <2>2, <2>3
<1>. QED  BY <1>1, <1>3, <1>6 DEF LineInv

LEMMA ReleaseKeeps ==
    ASSUME SlotInv, LineInv, NEW j \in Jobs, NEW o, call[j] \in {"granted", "submitted"},
           ReleaseSlot(j, laneOf[j], o), laneOf' = laneOf
    PROVE  /\ LineInv'
           /\ call'[j] = "done"
           /\ \A i \in Jobs \ {j} : call[i] # "waiting" => call'[i] = call[i]
<1>1. laneOf[j] \in Lanes /\ slots[laneOf[j]] \in Nat
  BY DEF SlotInv, SlotType
<1>2. /\ slots[laneOf[j]] + 1 \in Nat /\ Wakes(j, laneOf[j]) \in Nat
      /\ slots[laneOf[j]] + 1 <= slots[laneOf[j]] + (IF "done" = "done" THEN 1 ELSE 0)
  BY <1>1 DEF Wakes
<1>3. HandOn(laneOf[j], slots[laneOf[j]] + 1, Wakes(j, laneOf[j]), [call EXCEPT ![j] = "done"])
  BY DEF ReleaseSlot
<1>. QED  BY <1>1, <1>2, <1>3, HandingKeeps

LEMMA SubmitKeeps ==
    ASSUME SlotInv, LineInv, NEW j \in Jobs, call[j] = "granted", laneOf' = laneOf,
           HandOn(laneOf[j], slots[laneOf[j]], slots[laneOf[j]], [call EXCEPT ![j] = "submitted"])
    PROVE  /\ LineInv'
           /\ call'[j] = "submitted"
           /\ \A i \in Jobs \ {j} : call[i] # "waiting" => call'[i] = call[i]
<1>1. laneOf[j] \in Lanes /\ slots[laneOf[j]] \in Nat
  BY DEF SlotInv, SlotType
<1>2. slots[laneOf[j]] <= slots[laneOf[j]] + (IF "submitted" = "done" THEN 1 ELSE 0)
  BY <1>1
<1>. QED  BY <1>1, <1>2, HandingKeeps

\* A newcomer leaves the line alone: it is refused, is done, or takes a slot
\* that is free.
LEMMA NewcomerKeeps ==
    ASSUME SlotInv, LineInv, NEW j \in Jobs, call[j] = "idle",
           NEW st \in {"done", "submitted"}, call' = [call EXCEPT ![j] = st],
           UNCHANGED <<laneOf, waiters>>,
           \/ UNCHANGED slots /\ st = "done"
           \/ slots[laneOf[j]] # 0 /\ slots' = [slots EXCEPT ![laneOf[j]] = @ - 1]
    PROVE  LineInv'
<1>1. /\ call \in [Jobs -> CallStates] /\ laneOf[j] \in Lanes /\ slots \in [Lanes -> Nat]
      /\ \A l \in Lanes : \A i \in 1 .. Len(waiters[l]) : waiters[l][i] \in Jobs
  BY DEF SlotInv, SlotType
<1>2. call'[j] = st /\ \A i \in Jobs \ {j} : call'[i] = call[i]
  BY <1>1
<1>3. InWaiting'
  <2>1. \A l \in Lanes : \A i \in 1 .. Len(waiters[l]) : waiters[l][i] # j
    BY <1>1 DEF LineInv, InWaiting
  <2>. QED  BY <1>1, <1>2, <2>1 DEF LineInv, InWaiting
<1>4. SlotsKept'
  <2>. SUFFICES ASSUME NEW k \in Lanes
                PROVE  slots'[k] + Cardinality(HoldersOf(k, call')) <= MaxQueued
    BY DEF SlotsKept, HoldersOf
  <2>1. /\ slots[k] + Cardinality(HoldersOf(k, call)) <= MaxQueued /\ slots[k] \in Nat
        /\ Cardinality(HoldersOf(k, call)) \in Nat /\ MaxQueued \in Nat
    BY <1>1, HoldersFinite, LaneAssumption DEF LineInv, SlotsKept, LaneAssumption
  <2>2. CASE k # laneOf[j]
    <3>1. slots'[k] = slots[k] /\ HoldersOf(k, call') = HoldersOf(k, call)
      BY <1>1, <1>2, <2>2 DEF HoldersOf
    <3>. QED  BY <2>1, <3>1
  <2>3. CASE k = laneOf[j] /\ UNCHANGED slots /\ st = "done"
    <3>1. HoldersOf(k, call') = HoldersOf(k, call)
      BY <1>1, <1>2, <2>3 DEF HoldersOf
    <3>. QED  BY <2>1, <2>3, <3>1
  <2>4. CASE k = laneOf[j] /\ slots' = [slots EXCEPT ![laneOf[j]] = @ - 1]
    <3>1. slots'[k] = slots[k] - 1
      BY <1>1, <2>4
    <3>2. HoldersOf(k, call') \in SUBSET (HoldersOf(k, call) \cup {j})
      BY <1>2 DEF HoldersOf
    <3>3. /\ IsFiniteSet(HoldersOf(k, call) \cup {j})
          /\ Cardinality(HoldersOf(k, call) \cup {j}) <= Cardinality(HoldersOf(k, call)) + 1
      <4>. DEFINE H == HoldersOf(k, call)
      <4>1. IsFiniteSet(H) /\ Cardinality(H) \in Nat
        BY HoldersFinite
      <4>. HIDE DEF H
      <4>2. /\ IsFiniteSet(H \cup {j})
            /\ Cardinality(H \cup {j}) = IF j \in H THEN Cardinality(H) ELSE Cardinality(H) + 1
        BY <4>1, FS_AddElement
      <4>3. IsFiniteSet(H \cup {j}) /\ Cardinality(H \cup {j}) <= Cardinality(H) + 1
        BY <4>1, <4>2
      <4>. QED  BY <4>3 DEF H
    <3>4. Cardinality(HoldersOf(k, call')) <= Cardinality(HoldersOf(k, call) \cup {j})
      BY <3>2, <3>3, FS_Subset
    <3>5. Cardinality(HoldersOf(k, call')) \in Nat /\ Cardinality(HoldersOf(k, call) \cup {j}) \in Nat
      BY <3>3, HoldersFinite, FS_CardinalityType
    <3>. QED  BY <2>1, <3>1, <3>3, <3>4, <3>5
  <2>. QED  BY <2>2, <2>3, <2>4
<1>. QED  BY <1>3, <1>4 DEF LineInv

\* A caller gets in line behind those that are in it.
LEMMA AwaitKeeps ==
    ASSUME SlotInv, LineInv, NEW j \in Jobs, AwaitSlot(j)
    PROVE  LineInv'
<1>. DEFINE l == laneOf[j]
            line == Append(waiters[l], j)
<1>1. /\ call \in [Jobs -> CallStates] /\ l \in Lanes /\ waiters \in [Lanes -> Seq(Jobs)]
      /\ call[j] = "idle" /\ call' = [call EXCEPT ![j] = "waiting"]
      /\ waiters' = [waiters EXCEPT ![l] = line] /\ UNCHANGED <<laneOf, slots>>
  BY DEF SlotInv, SlotType, AwaitSlot
<1>2. call'[j] = "waiting" /\ \A i \in Jobs \ {j} : call'[i] = call[i]
  BY <1>1
<1>3. /\ Len(line) = Len(waiters[l]) + 1 /\ Len(waiters[l]) \in Nat /\ line \in Seq(Jobs)
      /\ \A i \in 1 .. Len(waiters[l]) : line[i] = waiters[l][i]
      /\ line[Len(waiters[l]) + 1] = j
  BY <1>1
<1>. HIDE DEF line
<1>4. waiters'[l] = line /\ \A k \in Lanes \ {l} : waiters'[k] = waiters[k]
  BY <1>1
<1>5. \A k \in Lanes : \A i \in 1 .. Len(waiters[k]) :
         waiters[k][i] \in Jobs \ {j} /\ call[waiters[k][i]] = "waiting"
  BY <1>1 DEF LineInv, InWaiting
<1>6. InWaiting'
  <2>1. ASSUME NEW k \in Lanes \ {l}, NEW i \in 1 .. Len(waiters'[k])
        PROVE  /\ call'[waiters'[k][i]] = "waiting"
               /\ \A h \in 1 .. Len(waiters'[k]) : waiters'[k][h] = waiters'[k][i] => h = i
    BY <1>2, <1>4, <1>5, <2>1 DEF LineInv, InWaiting
  <2>2. ASSUME NEW i \in 1 .. Len(line)
        PROVE  /\ call'[line[i]] = "waiting"
               /\ \A h \in 1 .. Len(line) : line[h] = line[i] => h = i
    <3>1. \A h \in 1 .. Len(line) : h \in 1 .. Len(waiters[l]) \/ h = Len(waiters[l]) + 1
      BY <1>3
    <3>2. \A h \in 1 .. Len(waiters[l]) : h # Len(waiters[l]) + 1
      BY <1>3
    <3>0. /\ \A h \in 1 .. Len(waiters[l]) :
                waiters[l][h] \in Jobs \ {j} /\ call[waiters[l][h]] = "waiting"
          /\ \A g, h \in 1 .. Len(waiters[l]) : waiters[l][g] = waiters[l][h] => g = h
      BY <1>1, <1>5 DEF LineInv, InWaiting
    <3>3. call'[line[i]] = "waiting"
      <4>1. CASE i \in 1 .. Len(waiters[l])
        BY <1>2, <1>3, <3>0, <4>1
      <4>2. CASE i = Len(waiters[l]) + 1
        BY <1>2, <1>3, <4>2
      <4>. QED  BY <3>1, <4>1, <4>2
    <3>4. ASSUME NEW h \in 1 .. Len(line), line[h] = line[i] PROVE h = i
      <4>1. CASE h \in 1 .. Len(waiters[l]) /\ i \in 1 .. Len(waiters[l])
        BY <1>3, <3>0, <3>4, <4>1
      <4>2. CASE h \notin 1 .. Len(waiters[l]) \/ i \notin 1 .. Len(waiters[l])
        BY <1>3, <3>0, <3>1, <3>4, <4>2
      <4>. QED  BY <4>1, <4>2
    <3>. QED  BY <3>3, <3>4
  <2>. QED  BY <1>4, <2>1, <2>2 DEF InWaiting
<1>7. \A k \in Lanes : HoldersOf(k, call') = HoldersOf(k, call)
  BY <1>1, <1>2 DEF HoldersOf
<1>8. SlotsKept'
  BY <1>1, <1>7 DEF LineInv, SlotsKept, HoldersOf
<1>. QED  BY <1>6, <1>8 DEF LineInv

\* A waiting caller is cancelled and leaves the line.
LEMMA CancelWaitingKeeps ==
    ASSUME SlotInv, LineInv, NEW j \in Jobs, CancelWaiting(j)
    PROVE  LineInv'
<1>. DEFINE l == laneOf[j]
            q == waiters[l]
<1>1. /\ call \in [Jobs -> CallStates] /\ l \in Lanes /\ waiters \in [Lanes -> Seq(Jobs)]
      /\ call[j] = "waiting" /\ call' = [call EXCEPT ![j] = "done"]
      /\ UNCHANGED <<laneOf, slots>>
  BY DEF SlotInv, SlotType, CancelWaiting
<1>2. PICK n \in 1 .. Len(q) :
         /\ q[n] = j
         /\ waiters' = [waiters EXCEPT ![l] = SubSeq(q, 1, n - 1) \o SubSeq(q, n + 1, Len(q))]
  BY DEF CancelWaiting
<1>3. call'[j] = "done" /\ \A i \in Jobs \ {j} : call'[i] = call[i]
  BY <1>1
<1>4. q \in Seq(Jobs) /\ Len(q) \in Nat
  BY <1>1
<1>. HIDE DEF q
<1>. DEFINE a == SubSeq(q, 1, n - 1)
            b == SubSeq(q, n + 1, Len(q))
<1>5. /\ a \in Seq(Jobs) /\ b \in Seq(Jobs) /\ Len(a) = n - 1 /\ Len(b) = Len(q) - n
      /\ \A i \in 1 .. n - 1 : a[i] = q[i]
      /\ \A i \in 1 .. Len(q) - n : b[i] = q[i + n]
  BY <1>4
<1>6. waiters' = [waiters EXCEPT ![l] = a \o b]
  BY <1>2
<1>. HIDE DEF a, b
<1>. DEFINE line == a \o b
<1>7. /\ Len(line) = Len(a) + Len(b) /\ line \in Seq(Jobs)
      /\ \A i \in 1 .. Len(a) : line[i] = a[i]
      /\ \A i \in Len(a) + 1 .. Len(a) + Len(b) : line[i] = b[i - Len(a)]
  <2>1. a \in Seq(Jobs) /\ b \in Seq(Jobs)
    BY <1>5
  <2>. QED  BY <2>1
<1>8. waiters'[l] = line /\ \A k \in Lanes \ {l} : waiters'[k] = waiters[k]
  BY <1>1, <1>6
<1>. HIDE DEF line
<1>. DEFINE at == [i \in 1 .. Len(line) |-> IF i < n THEN i ELSE i + 1]
<1>9. \A i \in 1 .. Len(line) : at[i] \in 1 .. Len(q) /\ at[i] # n /\ line[i] = q[at[i]]
  <2>. TAKE i \in 1 .. Len(line)
  <2>1. Len(line) = Len(q) - 1 /\ n \in Nat
    BY <1>4, <1>5, <1>7
  <2>2. CASE i < n
    <3>1. i \in 1 .. n - 1 /\ i \in 1 .. Len(a) /\ at[i] = i
      BY <1>5, <2>1, <2>2
    <3>. QED  BY <1>4, <1>5, <1>7, <2>1, <2>2, <3>1
  <2>3. CASE ~(i < n)
    <3>1. /\ i \in Len(a) + 1 .. Len(a) + Len(b) /\ i - Len(a) \in 1 .. Len(q) - n
          /\ (i - Len(a)) + n = i + 1 /\ at[i] = i + 1 /\ i + 1 \in 1 .. Len(q) /\ i + 1 # n
      BY <1>4, <1>5, <1>7, <2>1, <2>3
    <3>. QED  BY <1>5, <1>7, <3>1
  <2>. QED  BY <2>2, <2>3
<1>10. \A i, h \in 1 .. Len(line) : at[h] = at[i] => h = i
  <2>1. Len(line) \in Nat /\ n \in Nat
    BY <1>2, <1>4, <1>5, <1>7
  <2>. QED  BY <2>1
<1>. HIDE DEF at
<1>11. /\ \A i \in 1 .. Len(q) : q[i] \in Jobs /\ call[q[i]] = "waiting"
       /\ \A i, h \in 1 .. Len(q) : q[h] = q[i] => h = i
  BY <1>1, <1>4 DEF LineInv, InWaiting, q
<1>12. InWaiting'
  <2>1. ASSUME NEW k \in Lanes \ {l}, NEW i \in 1 .. Len(waiters'[k])
        PROVE  /\ call'[waiters'[k][i]] = "waiting"
               /\ \A h \in 1 .. Len(waiters'[k]) : waiters'[k][h] = waiters'[k][i] => h = i
    <3>1. waiters[k][i] \in Jobs /\ laneOf[waiters[k][i]] = k /\ call[waiters[k][i]] = "waiting"
      BY <1>8, <2>1 DEF LineInv, InWaiting, SlotInv, SlotType
    <3>2. waiters[k][i] # j
      BY <2>1, <3>1
    <3>. QED  BY <1>3, <1>8, <2>1, <3>1, <3>2 DEF LineInv, InWaiting
  <2>2. ASSUME NEW i \in 1 .. Len(line)
        PROVE  /\ call'[line[i]] = "waiting"
               /\ \A h \in 1 .. Len(line) : line[h] = line[i] => h = i
    <3>1. q[at[i]] # j
      BY <1>2, <1>9, <1>11
    <3>2. call'[line[i]] = "waiting"
      BY <1>3, <1>9, <1>11, <3>1, SMTT(30)
    <3>3. \A h \in 1 .. Len(line) : line[h] = line[i] => h = i
      BY <1>9, <1>10, <1>11, SMTT(30)
    <3>. QED  BY <3>2, <3>3
  <2>. QED  BY <1>8, <2>1, <2>2 DEF InWaiting
<1>13. \A k \in Lanes : HoldersOf(k, call') = HoldersOf(k, call)
  BY <1>1, <1>3 DEF HoldersOf
<1>14. SlotsKept'
  BY <1>1, <1>13 DEF LineInv, SlotsKept, HoldersOf
<1>. QED  BY <1>12, <1>14 DEF LineInv

LEMMA LineStep == SlotInv /\ LineInv /\ [Next]_vars => LineInv'
<1>. SUFFICES ASSUME SlotInv, LineInv, [Next]_vars PROVE LineInv'
  OBVIOUS
<1>1. ASSUME UNCHANGED <<call, laneOf, slots, waiters>> PROVE LineInv'
  BY <1>1 DEF LineInv, InWaiting, SlotsKept, HoldersOf
<1>2. ASSUME NEW j \in Jobs, RefuseBusy(j) PROVE LineInv'
  BY <1>2, NewcomerKeeps DEF RefuseBusy, semVars
<1>3. ASSUME NEW j \in Jobs, TakeSlotAndSubmit(j) PROVE LineInv'
  BY <1>3, NewcomerKeeps DEF TakeSlotAndSubmit, Locked
<1>4. ASSUME NEW j \in Jobs, SubmitGranted(j) PROVE LineInv'
  BY <1>4, SubmitKeeps, ReleaseKeeps DEF SubmitGranted
<1>5. ASSUME NEW j \in Jobs, CancelHolding(j) \/ Resume(j) PROVE LineInv'
  BY <1>5, ReleaseKeeps DEF CancelHolding, Resume
<1>6. ASSUME NEW l \in Lanes, CloseBegin(l) \/ CloseEnd(l) \/ Worker(l) PROVE LineInv'
  BY <1>1, <1>6 DEF CloseBegin, CloseEnd, Worker, StartJob, OpenConnection, RunClose, JobWrite,
                    JobCommit, JobReturn, JobRaise, callVars, semVars
<1>7. CASE UNCHANGED vars
  BY <1>1, <1>7 DEF vars, callVars, semVars
<1>. QED  BY <1>2, <1>3, <1>4, <1>5, <1>6, <1>7, AwaitKeeps, CancelWaitingKeeps DEF Next

LEMMA LineInit == Init => LineInv
<1>. SUFFICES ASSUME Init PROVE LineInv
  OBVIOUS
<1>1. \A l \in Lanes : waiters[l] = <<>> /\ slots[l] = MaxQueued /\ HoldersOf(l, call) = {}
  BY DEF Init, HoldersOf
<1>2. Cardinality({}) = 0 /\ MaxQueued \in Nat
  BY FS_EmptySet, LaneAssumption DEF LaneAssumption
<1>3. InWaiting
  BY <1>1 DEF InWaiting
<1>4. \A l \in Lanes : slots[l] + Cardinality(HoldersOf(l, call)) = MaxQueued
  <2>. TAKE l \in Lanes
  <2>1. Cardinality(HoldersOf(l, call)) = Cardinality({})
    BY <1>1
  <2>2. slots[l] = MaxQueued
    BY <1>1
  <2>. QED  BY <1>2, <2>1, <2>2
<1>5. SlotsKept
  BY <1>2, <1>4 DEF SlotsKept
<1>. QED  BY <1>3, <1>5 DEF LineInv

\* What a coroutine does without touching the executor's queue.
LEMMA CallerKeeps ==
    ASSUME WorkInv, UNCHANGED <<laneOf, queue, running, shut>>,
           fut' \in [Jobs -> FutStates], outcome' \in [Jobs -> Outcomes],
           \A i \in Jobs : fut'[i] = "pending" => fut[i] = "pending" /\ call'[i] = "submitted",
           \A i \in Jobs : fut'[i] = "running" => fut[i] = "running",
           \A i \in Jobs : outcome'[i] = "cancelled" => call'[i] = "done"
    PROVE  WorkInv'
BY DEF WorkInv, InQueue

\* A caller submits its job: it is queued on the lane the caller called.
LEMMA SubmissionKeeps ==
    ASSUME SlotInv, WorkInv, NEW j \in Jobs, call[j] \in {"idle", "granted"}, ~shut[laneOf[j]],
           UNCHANGED <<laneOf, outcome, running, shut>>,
           queue' = [queue EXCEPT ![laneOf[j]] = Append(@, j)],
           fut' = [fut EXCEPT ![j] = "pending"], call'[j] = "submitted",
           \A i \in Jobs \ {j} : call[i] # "waiting" => call'[i] = call[i]
    PROVE  WorkInv'
<1>. DEFINE l == laneOf[j]
            q == queue[l]
            longer == Append(q, j)
<1>1. /\ l \in Lanes /\ q \in Seq(Jobs \cup {CloseItem})
      /\ queue \in [Lanes -> Seq(Jobs \cup {CloseItem})] /\ fut \in [Jobs -> FutStates]
      /\ queue' = [queue EXCEPT ![l] = longer]
  BY DEF SlotInv, SlotType, WorkInv
<1>. HIDE DEF q
<1>2. /\ longer \in Seq(Jobs \cup {CloseItem}) /\ Len(q) \in Nat /\ Len(longer) = Len(q) + 1
      /\ \A i \in 1 .. Len(q) : longer[i] = q[i]
      /\ longer[Len(q) + 1] = j
  BY <1>1
<1>. HIDE DEF longer
<1>3. /\ queue' \in [Lanes -> Seq(Jobs \cup {CloseItem})]
      /\ queue'[l] = longer /\ \A k \in Lanes \ {l} : queue'[k] = queue[k]
  BY <1>1, <1>2, ZenonT(60)
<1>4. fut' \in [Jobs -> FutStates] /\ fut'[j] = "pending" /\ \A i \in Jobs \ {j} : fut'[i] = fut[i]
  BY <1>1 DEF FutStates
<1>5. \A k \in Lanes : \A i \in Jobs : InQueue(i, k)' <=> InQueue(i, k) \/ (k = l /\ i = j)
  <2>1. \A k \in Lanes \ {l} : \A i \in Jobs : InQueue(i, k)' <=> InQueue(i, k)
    BY <1>3 DEF InQueue
  <2>2. \A i \in Jobs : InQueue(i, l)' <=> InQueue(i, l) \/ i = j
    <3>. TAKE i \in Jobs
    <3>1. InQueue(i, l)' <=> \E n \in 1 .. Len(longer) : longer[n] = i
      BY <1>3 DEF InQueue
    <3>2. InQueue(i, l) <=> \E n \in 1 .. Len(q) : q[n] = i
      BY DEF InQueue, q
    <3>3. \A n : n \in 1 .. Len(longer) <=> n \in 1 .. Len(q) \/ n = Len(q) + 1
      BY <1>2
    <3>. QED  BY <1>2, <3>1, <3>2, <3>3
  <2>. QED  BY <1>1, <2>1, <2>2
<1>6. \A i \in Jobs : fut'[i] = "pending" => (call[i] = "submitted" /\ InQueue(i, laneOf[i]))'
  <2>. SUFFICES ASSUME NEW i \in Jobs, fut'[i] = "pending"
                PROVE  (call[i] = "submitted" /\ InQueue(i, laneOf[i]))'
    OBVIOUS
  <2>0. laneOf'[i] = laneOf[i]
    OBVIOUS
  <2>1. CASE i = j
    BY <1>1, <1>5, <2>0, <2>1 DEF InQueue
  <2>2. CASE i # j
    <3>1. laneOf[i] \in Lanes /\ call[i] = "submitted" /\ InQueue(i, laneOf[i])
      BY <1>4, <2>2 DEF WorkInv, SlotInv, SlotType
    <3>. QED  BY <1>5, <2>0, <2>2, <3>1 DEF InQueue
  <2>. QED  BY <2>1, <2>2
<1>7. \A i \in Jobs : fut'[i] = "running" => running'[laneOf'[i]] = i
  BY <1>4 DEF WorkInv
<1>8. \A k \in Lanes : shut'[k] => queue'[k] = <<>> /\ running'[k] = None
  BY <1>3 DEF WorkInv
<1>9. \A i \in Jobs : outcome'[i] = "cancelled" => call'[i] = "done"
  BY DEF WorkInv
<1>10. \A k \in Lanes : \A i \in Jobs : InQueue(i, k)' => laneOf'[i] = k
  BY <1>5 DEF WorkInv
<1>. QED  BY <1>3, <1>4, <1>6, <1>7, <1>8, <1>9, <1>10 DEF WorkInv

\* The worker takes the first item of its queue.
LEMMA TakingKeeps ==
    ASSUME WorkInv, SlotInv, NEW l \in Lanes, queue[l] # <<>>, ~shut[l],
           UNCHANGED <<call, laneOf, outcome, shut>>,
           queue' = [queue EXCEPT ![l] = Tail(@)],
           fut' \in [Jobs -> FutStates], running' \in [Lanes -> Jobs \cup {None}],
           \A k \in Lanes \ {l} : running'[k] = running[k],
           \A i \in Jobs : fut'[i] = "pending" => fut[i] = "pending" /\ i # Head(queue[l]),
           \A i \in Jobs : fut'[i] = "running" => running'[laneOf[i]] = i
    PROVE  WorkInv'
<1>. DEFINE q == queue[l]
            rest == Tail(q)
<1>1. q \in Seq(Jobs \cup {CloseItem}) /\ q # <<>> /\ queue \in [Lanes -> Seq(Jobs \cup {CloseItem})]
  BY DEF WorkInv
<1>0. queue' = [queue EXCEPT ![l] = rest] /\ Head(queue[l]) = q[1]
  BY <1>1
<1>. HIDE DEF q
<1>2. /\ rest \in Seq(Jobs \cup {CloseItem}) /\ Len(q) \in Nat /\ Len(rest) = Len(q) - 1
      /\ \A i \in 1 .. Len(rest) : rest[i] = q[i + 1]
  BY <1>1
<1>. HIDE DEF rest
<1>3. /\ queue' \in [Lanes -> Seq(Jobs \cup {CloseItem})]
      /\ queue'[l] = rest /\ \A k \in Lanes \ {l} : queue'[k] = queue[k]
  BY <1>0, <1>1, <1>2
<1>4. \A k \in Lanes \ {l} : \A i \in Jobs : InQueue(i, k)' <=> InQueue(i, k)
  BY <1>3 DEF InQueue
<1>5. \A i \in Jobs : InQueue(i, l)' => InQueue(i, l)
  <2>1. \A n \in 1 .. Len(rest) : n + 1 \in 1 .. Len(q)
    BY <1>2
  <2>. QED  BY <1>2, <1>3, <2>1 DEF InQueue, q
<1>6. \A i \in Jobs : InQueue(i, l) /\ i # q[1] => InQueue(i, l)'
  <2>. SUFFICES ASSUME NEW i \in Jobs, NEW n \in 1 .. Len(q), q[n] = i, i # q[1]
                PROVE  InQueue(i, l)'
    BY DEF InQueue, q
  <2>1. n - 1 \in 1 .. Len(rest) /\ (n - 1) + 1 = n
    BY <1>2
  <2>2. rest[n - 1] = i
    BY <1>2, <2>1
  <2>. QED  BY <1>3, <2>1, <2>2 DEF InQueue
<1>7. \A i \in Jobs : fut'[i] = "pending" => (call[i] = "submitted" /\ InQueue(i, laneOf[i]))'
  <2>. SUFFICES ASSUME NEW i \in Jobs, fut'[i] = "pending"
                PROVE  (call[i] = "submitted" /\ InQueue(i, laneOf[i]))'
    OBVIOUS
  <2>1. i # q[1] /\ call[i] = "submitted" /\ InQueue(i, laneOf[i]) /\ laneOf[i] \in Lanes
    BY <1>0 DEF WorkInv, SlotInv, SlotType
  <2>2. laneOf'[i] = laneOf[i] /\ call'[i] = call[i]
    OBVIOUS
  <2>3. PICK k \in Lanes : k = laneOf[i]
    BY <2>1
  <2>4. InQueue(i, k)
    BY <2>1, <2>3
  <2>5. InQueue(i, k)'
    <3>1. CASE k = l
      BY <1>6, <2>1, <2>4, <3>1
    <3>2. CASE k # l
      BY <1>4, <2>4, <3>2
    <3>. QED  BY <3>1, <3>2
  <2>. QED  BY <2>1, <2>2, <2>3, <2>5 DEF InQueue
<1>8. \A k \in Lanes : \A i \in Jobs : InQueue(i, k)' => laneOf'[i] = k
  BY <1>4, <1>5, SMTT(30) DEF WorkInv
<1>9. \A k \in Lanes : shut'[k] => queue'[k] = <<>> /\ running'[k] = None
  BY <1>3 DEF WorkInv
<1>. QED  BY <1>3, <1>7, <1>8, <1>9 DEF WorkInv

LEMMA WorkInit == Init => WorkInv
<1>. SUFFICES ASSUME Init PROVE WorkInv
  OBVIOUS
<1>1. /\ queue = [l \in Lanes |-> <<>>] /\ fut = [j \in Jobs |-> "none"]
      /\ running = [l \in Lanes |-> None] /\ outcome = [j \in Jobs |-> "none"]
      /\ \A l \in Lanes : ~shut[l]
  BY DEF Init
<1>2. /\ queue \in [Lanes -> Seq(Jobs \cup {CloseItem})]
      /\ \A l \in Lanes : \A j \in Jobs : ~InQueue(j, l)
  BY <1>1 DEF InQueue
<1>. QED  BY <1>1, <1>2 DEF WorkInv, FutStates, Outcomes

LEMMA WorkStep == SlotInv /\ LineInv /\ WorkInv /\ [Next]_vars => WorkInv'
<1>. SUFFICES ASSUME SlotInv, LineInv, WorkInv, [Next]_vars PROVE WorkInv'
  OBVIOUS
<1>. USE LaneAssumption DEF LaneAssumption
<1>0. /\ call \in [Jobs -> CallStates] /\ laneOf \in [Jobs -> Lanes] /\ fut \in [Jobs -> FutStates]
      /\ outcome \in [Jobs -> Outcomes] /\ running \in [Lanes -> Jobs \cup {None}]
      /\ queue \in [Lanes -> Seq(Jobs \cup {CloseItem})]
  BY DEF SlotInv, SlotType, WorkInv
<1>1. ASSUME UNCHANGED <<call, laneOf, outcome, queue, fut, running, shut>> PROVE WorkInv'
  BY <1>1 DEF WorkInv, InQueue
<1>2. ASSUME NEW j \in Jobs, UNCHANGED <<laneOf, queue, running, shut>>,
             fut' \in {fut, [fut EXCEPT ![j] = CancelledFuture(@)]},
             NEW o \in Outcomes, outcome' = [outcome EXCEPT ![j] = o],
             call'[j] = "done", fut[j] = "pending" => fut' # fut,
             \A i \in Jobs \ {j} : call[i] # "waiting" => call'[i] = call[i]
      PROVE  WorkInv'
  <2>1. /\ fut' \in [Jobs -> FutStates]
        /\ \A i \in Jobs \ {j} : fut'[i] = fut[i]
        /\ fut'[j] # "pending" /\ (fut'[j] = "running" => fut[j] = "running")
    BY <1>0, <1>2 DEF CancelledFuture, FutStates
  <2>2. outcome' \in [Jobs -> Outcomes] /\ \A i \in Jobs \ {j} : outcome'[i] = outcome[i]
    BY <1>0, <1>2
  <2>3. \A i \in Jobs : fut'[i] = "pending" => fut[i] = "pending" /\ call'[i] = "submitted"
    BY <1>2, <2>1 DEF WorkInv
  <2>4. \A i \in Jobs : fut'[i] = "running" => fut[i] = "running"
    BY <2>1
  <2>5. \A i \in Jobs : outcome'[i] = "cancelled" => call'[i] = "done"
    BY <1>2, <2>2 DEF WorkInv
  <2>. QED  BY <1>2, <2>1, <2>2, <2>3, <2>4, <2>5, CallerKeeps
<1>3. ASSUME NEW j \in Jobs, RefuseBusy(j) PROVE WorkInv'
  <2>1. fut[j] # "pending"
    BY <1>3 DEF RefuseBusy, WorkInv
  <2>. QED  BY <1>0, <1>2, <1>3, <2>1 DEF RefuseBusy, poolVars, Outcomes
<1>4. ASSUME NEW j \in Jobs, AwaitSlot(j) PROVE WorkInv'
  <2>1. /\ UNCHANGED <<laneOf, outcome, queue, fut, running, shut>>
        /\ call[j] = "idle" /\ \A i \in Jobs \ {j} : call'[i] = call[i]
    BY <1>0, <1>4 DEF AwaitSlot, poolVars
  <2>2. fut[j] # "pending" /\ outcome[j] # "cancelled"
    BY <2>1 DEF WorkInv
  <2>3. \A i \in Jobs : fut'[i] = "pending" => fut[i] = "pending" /\ call'[i] = "submitted"
    BY <2>1, <2>2 DEF WorkInv
  <2>4. \A i \in Jobs : outcome'[i] = "cancelled" => call'[i] = "done"
    BY <2>1, <2>2 DEF WorkInv
  <2>. QED  BY <1>0, <2>1, <2>3, <2>4, CallerKeeps
<1>5. ASSUME NEW j \in Jobs, TakeSlotAndSubmit(j) PROVE WorkInv'
  <2>1. fut[j] # "pending" /\ call[j] = "idle"
    BY <1>5 DEF TakeSlotAndSubmit, WorkInv
  <2>2. CASE shut[laneOf[j]]
    BY <1>0, <1>2, <1>5, <2>1, <2>2 DEF TakeSlotAndSubmit, poolVars, Outcomes
  <2>3. CASE ~shut[laneOf[j]]
    <3>1. /\ UNCHANGED <<laneOf, outcome, running, shut>>
          /\ queue' = [queue EXCEPT ![laneOf[j]] = Append(@, j)]
          /\ fut' = [fut EXCEPT ![j] = "pending"] /\ call' = [call EXCEPT ![j] = "submitted"]
      BY <1>5, <2>3 DEF TakeSlotAndSubmit
    <3>2. call'[j] = "submitted" /\ \A i \in Jobs \ {j} : call'[i] = call[i]
      BY <1>0, <3>1
    <3>. QED  BY <2>1, <2>3, <3>1, <3>2, SubmissionKeeps
  <2>. QED  BY <2>2, <2>3
<1>6. ASSUME NEW j \in Jobs, NEW o \in Outcomes, call[j] \in {"granted", "submitted"},
             ReleaseSlot(j, laneOf[j], o), UNCHANGED <<laneOf, queue, running, shut>>,
             fut' \in {fut, [fut EXCEPT ![j] = CancelledFuture(@)]},
             fut[j] = "pending" => fut' # fut
      PROVE  WorkInv'
  <2>1. call'[j] = "done" /\ \A i \in Jobs \ {j} : call[i] # "waiting" => call'[i] = call[i]
    BY <1>6, ReleaseKeeps
  <2>2. outcome' = [outcome EXCEPT ![j] = o]
    BY <1>6 DEF ReleaseSlot
  <2>. QED  BY <1>2, <1>6, <2>1, <2>2
<1>7. ASSUME NEW j \in Jobs, SubmitGranted(j) PROVE WorkInv'
  <2>1. fut[j] # "pending" /\ call[j] = "granted"
    BY <1>7 DEF SubmitGranted, WorkInv
  <2>2. CASE shut[laneOf[j]]
    BY <1>6, <1>7, <2>1, <2>2 DEF SubmitGranted, poolVars, Outcomes
  <2>3. CASE ~shut[laneOf[j]]
    <3>1. /\ UNCHANGED <<laneOf, outcome, running, shut>>
          /\ queue' = [queue EXCEPT ![laneOf[j]] = Append(@, j)]
          /\ fut' = [fut EXCEPT ![j] = "pending"]
          /\ HandOn(laneOf[j], slots[laneOf[j]], slots[laneOf[j]], [call EXCEPT ![j] = "submitted"])
      BY <1>7, <2>3 DEF SubmitGranted
    <3>2. /\ call'[j] = "submitted"
          /\ \A i \in Jobs \ {j} : call[i] # "waiting" => call'[i] = call[i]
      BY <2>1, <3>1, SubmitKeeps
    <3>. QED  BY <2>1, <2>3, <3>1, <3>2, SubmissionKeeps
  <2>. QED  BY <2>2, <2>3
<1>8. ASSUME NEW j \in Jobs, CancelWaiting(j) PROVE WorkInv'
  <2>1. fut[j] # "pending"
    BY <1>8 DEF CancelWaiting, WorkInv
  <2>2. call'[j] = "done" /\ \A i \in Jobs \ {j} : call'[i] = call[i]
    BY <1>0, <1>8 DEF CancelWaiting
  <2>. QED  BY <1>2, <1>8, <2>1, <2>2 DEF CancelWaiting, poolVars, Outcomes
<1>9. ASSUME NEW j \in Jobs, CancelHolding(j) PROVE WorkInv'
  <2>1. fut[j] = "pending" => fut' # fut
    BY <1>0, <1>9 DEF CancelHolding, CancelledFuture
  <2>. QED  BY <1>6, <1>9, <2>1 DEF CancelHolding, Outcomes
<1>10. ASSUME NEW j \in Jobs, Resume(j) PROVE WorkInv'
  BY <1>6, <1>10 DEF Resume, poolVars, Outcomes
<1>11. ASSUME NEW l \in Lanes, CloseBegin(l) PROVE WorkInv'
  <2>. DEFINE longer == Append(queue[l], CloseItem)
  <2>1. CASE db[l] # "open"
    BY <1>0, <1>1, <1>11, <2>1 DEF CloseBegin, callVars
  <2>2. CASE db[l] = "open"
    <3>1. /\ UNCHANGED <<call, laneOf, outcome, fut, running, shut>> /\ ~shut[l]
          /\ queue' = [queue EXCEPT ![l] = longer]
      BY <1>11, <2>2 DEF CloseBegin, callVars
    <3>2. /\ longer \in Seq(Jobs \cup {CloseItem}) /\ Len(queue[l]) \in Nat
          /\ Len(longer) = Len(queue[l]) + 1
          /\ \A i \in 1 .. Len(queue[l]) : longer[i] = queue[l][i]
          /\ longer[Len(queue[l]) + 1] = CloseItem
      <4>1. queue[l] \in Seq(Jobs \cup {CloseItem})
        BY <1>0
      <4>. QED  BY <4>1
    <3>. HIDE DEF longer
    <3>3. /\ queue' \in [Lanes -> Seq(Jobs \cup {CloseItem})] /\ queue'[l] = longer
          /\ \A k \in Lanes \ {l} : queue'[k] = queue[k]
      BY <1>0, <3>1, <3>2
    <3>4. \A k \in Lanes : \A i \in Jobs : InQueue(i, k)' <=> InQueue(i, k)
      <4>1. \A k \in Lanes \ {l} : \A i \in Jobs : InQueue(i, k)' <=> InQueue(i, k)
        BY <3>3 DEF InQueue
      <4>2. \A n : n \in 1 .. Len(longer) <=> n \in 1 .. Len(queue[l]) \/ n = Len(queue[l]) + 1
        BY <3>2
      <4>3. \A i \in Jobs : i # CloseItem
        OBVIOUS
      <4>4. \A i \in Jobs : InQueue(i, l)' <=> InQueue(i, l)
        BY <3>2, <3>3, <4>2, <4>3 DEF InQueue
      <4>. QED  BY <4>1, <4>4
    <3>5. \A i \in Jobs : laneOf[i] \in Lanes
      BY <1>0
    <3>6. \A i \in Jobs : fut'[i] = "pending" => (call[i] = "submitted" /\ InQueue(i, laneOf[i]))'
      <4>. SUFFICES ASSUME NEW i \in Jobs, fut[i] = "pending"
                    PROVE  (call[i] = "submitted" /\ InQueue(i, laneOf[i]))'
        BY <3>1
      <4>1. PICK k \in Lanes : k = laneOf[i]
        BY <3>5
      <4>2. call[i] = "submitted" /\ InQueue(i, k)
        BY <4>1 DEF WorkInv
      <4>3. InQueue(i, k)'
        BY <3>4, <4>2
      <4>. QED  BY <3>1, <4>1, <4>2, <4>3 DEF InQueue
    <3>7. \A k \in Lanes : \A i \in Jobs : InQueue(i, k)' => laneOf'[i] = k
      BY <3>1, <3>4 DEF WorkInv
    <3>8. \A k \in Lanes : shut'[k] => queue'[k] = <<>> /\ running'[k] = None
      BY <3>1, <3>3 DEF WorkInv
    <3>. QED  BY <3>1, <3>3, <3>6, <3>7, <3>8 DEF WorkInv
  <2>. QED  BY <2>1, <2>2
<1>12. ASSUME NEW l \in Lanes, CloseEnd(l) PROVE WorkInv'
  BY <1>12 DEF CloseEnd, callVars, poolVars, WorkInv, InQueue
<1>13. ASSUME NEW l \in Lanes, StartJob(l) PROVE WorkInv'
  <2>. DEFINE j == Head(queue[l])
  <2>1. /\ j \in Jobs /\ queue[l] # <<>> /\ running[l] = None
        /\ UNCHANGED <<call, laneOf, outcome, shut>> /\ queue' = [queue EXCEPT ![l] = Tail(@)]
        /\ \/ fut[j] = "cancelled" /\ UNCHANGED <<fut, running>>
           \/ /\ fut[j] = "pending" /\ fut' = [fut EXCEPT ![j] = "running"]
              /\ running' = [running EXCEPT ![l] = j]
    BY <1>13 DEF StartJob, callVars
  <2>2. ~shut[l]
    BY <2>1 DEF WorkInv
  <2>3. laneOf[j] = l
    <3>1. queue[l] \in Seq(Jobs \cup {CloseItem}) /\ queue[l] # <<>>
      BY <1>0, <2>1
    <3>2. 1 \in 1 .. Len(queue[l]) /\ queue[l][1] = j
      BY <3>1
    <3>. QED  BY <2>1, <3>2 DEF WorkInv, InQueue
  <2>. HIDE DEF j
  <2>4. /\ fut' \in [Jobs -> FutStates] /\ running' \in [Lanes -> Jobs \cup {None}]
        /\ \A k \in Lanes \ {l} : running'[k] = running[k]
    <3>1. CASE UNCHANGED <<fut, running>>
      BY <1>0, <3>1
    <3>2. CASE fut' = [fut EXCEPT ![j] = "running"] /\ running' = [running EXCEPT ![l] = j]
      BY <1>0, <2>1, <3>2 DEF FutStates
    <3>. QED  BY <2>1, <3>1, <3>2
  <2>5. \A i \in Jobs : fut'[i] = "pending" => fut[i] = "pending" /\ i # j
    BY <1>0, <2>1
  <2>6. \A i \in Jobs : fut'[i] = "running" => running'[laneOf[i]] = i
    <3>1. \A i \in Jobs : fut[i] = "running" => running[laneOf[i]] = i /\ laneOf[i] # l
      BY <2>1 DEF WorkInv
    <3>2. \A i \in Jobs : laneOf[i] \in Lanes
      BY <1>0
    <3>. QED  BY <1>0, <2>1, <2>3, <3>1, <3>2
  <2>7. \A i \in Jobs : fut'[i] = "pending" => fut[i] = "pending" /\ i # Head(queue[l])
    BY <2>5 DEF j
  <2>. QED  BY <2>1, <2>2, <2>4, <2>6, <2>7, TakingKeeps
<1>14. ASSUME NEW l \in Lanes, RunClose(l) PROVE WorkInv'
  <2>1. /\ queue[l] # <<>> /\ Head(queue[l]) = CloseItem
        /\ UNCHANGED <<call, laneOf, outcome, fut, running, shut>>
        /\ queue' = [queue EXCEPT ![l] = Tail(@)]
    BY <1>14 DEF RunClose, callVars
  <2>2. ~shut[l]
    BY <2>1 DEF WorkInv
  <2>3. \A i \in Jobs : i # Head(queue[l])
    BY <2>1
  <2>4. \A i \in Jobs : fut'[i] = "running" => running'[laneOf[i]] = i
    BY <2>1 DEF WorkInv
  <2>. QED  BY <1>0, <2>1, <2>2, <2>3, <2>4, TakingKeeps
<1>15. ASSUME NEW l \in Lanes, running[l] \in Jobs, NEW o \in {"result", "error"},
              UNCHANGED <<call, laneOf, outcome, queue, shut>>,
              fut' = [fut EXCEPT ![running[l]] = o], running' = [running EXCEPT ![l] = None]
       PROVE  WorkInv'
  <2>1. /\ fut' \in [Jobs -> FutStates] /\ running' \in [Lanes -> Jobs \cup {None}]
        /\ \A i \in Jobs : fut'[i] = IF i = running[l] THEN o ELSE fut[i]
        /\ \A k \in Lanes : running'[k] = IF k = l THEN None ELSE running[k]
    BY <1>0, <1>15 DEF FutStates
  <2>2. \A i \in Jobs : fut'[i] = "running" => running'[laneOf[i]] = i
    <3>1. \A i \in Jobs : laneOf[i] \in Lanes
      BY <1>0
    <3>. QED  BY <1>15, <2>1, <3>1 DEF WorkInv
  <2>3. \A k \in Lanes : \A i \in Jobs : InQueue(i, k)' <=> InQueue(i, k)
    BY <1>15 DEF InQueue
  <2>4. \A i \in Jobs : fut'[i] = "pending" => (call[i] = "submitted" /\ InQueue(i, laneOf[i]))'
    BY <1>15, <2>1 DEF WorkInv, InQueue
  <2>5. \A k \in Lanes : shut'[k] => queue'[k] = <<>> /\ running'[k] = None
    BY <1>15, <2>1 DEF WorkInv
  <2>. QED  BY <1>15, <2>1, <2>2, <2>3, <2>4, <2>5 DEF WorkInv
<1>16. ASSUME NEW l \in Lanes, OpenConnection(l) PROVE WorkInv'
  BY <1>1, <1>15, <1>16 DEF OpenConnection, callVars
<1>17. ASSUME NEW l \in Lanes, JobWrite(l) \/ JobCommit(l) PROVE WorkInv'
  BY <1>1, <1>17 DEF JobWrite, JobCommit, callVars, poolVars
<1>18. ASSUME NEW l \in Lanes, JobReturn(l) \/ JobRaise(l) PROVE WorkInv'
  <2>1. /\ running[l] \in Jobs /\ UNCHANGED <<call, laneOf, outcome, queue, shut>>
        /\ running' = [running EXCEPT ![l] = None]
        /\ \E o \in {"result", "error"} : fut' = [fut EXCEPT ![running[l]] = o]
    BY <1>18 DEF JobReturn, JobRaise, InFunction, callVars
  <2>. QED  BY <1>15, <2>1
<1>19. CASE UNCHANGED vars
  BY <1>1, <1>19 DEF vars, callVars, poolVars
<1>. QED  BY <1>3, <1>4, <1>5, <1>7, <1>8, <1>9, <1>10, <1>11, <1>12, <1>13, <1>14, <1>16, <1>17,
            <1>18, <1>19 DEF Next, Worker

LEMMA LaneAlways == Spec => [](SlotInv /\ LineInv /\ WorkInv)
<1>1. Init => SlotInv /\ LineInv /\ WorkInv
  BY SlotInit, LineInit, WorkInit
<1>2. SlotInv /\ LineInv /\ WorkInv /\ [Next]_vars => (SlotInv /\ LineInv /\ WorkInv)'
  BY SlotStep, LineStep, WorkStep
<1>. QED  BY <1>1, <1>2, PTL DEF Spec

\* What DatabaseLane.run submits is bounded by the semaphore although a
\* cancelled caller gives its slot back while its job may still run: a job
\* that waits in the executor's queue has its caller and the caller its slot,
\* so what a lane still has to do is the slots taken and the job on its
\* worker thread.
THEOREM LoadStaysBounded == Spec => []LoadBounded
<1>1. SlotInv /\ LineInv /\ WorkInv => LoadBounded
  <2>. SUFFICES ASSUME SlotInv, LineInv, WorkInv, NEW l \in Lanes
                PROVE  Cardinality(LiveJobs(l)) <= MaxQueued + 1
    BY DEF LoadBounded
  <2>. DEFINE H == HoldersOf(l, call)
              on == running[l]
  <2>1. LiveJobs(l) \in SUBSET (H \cup {on})
    BY DEF LiveJobs, WorkInv, HoldersOf
  <2>2. /\ IsFiniteSet(H) /\ Cardinality(H) \in Nat /\ MaxQueued \in Nat
        /\ slots[l] \in Nat /\ slots[l] + Cardinality(H) <= MaxQueued
    BY HoldersFinite, LaneAssumption DEF LineInv, SlotsKept, SlotInv, SlotType, LaneAssumption
  <2>. HIDE DEF H, on
  <2>3. /\ IsFiniteSet(H \cup {on})
        /\ Cardinality(H \cup {on}) = IF on \in H THEN Cardinality(H) ELSE Cardinality(H) + 1
    BY <2>2, FS_AddElement
  <2>4. /\ IsFiniteSet(LiveJobs(l)) /\ Cardinality(LiveJobs(l)) <= Cardinality(H \cup {on})
    BY <2>1, <2>3, FS_Subset
  <2>5. Cardinality(LiveJobs(l)) \in Nat
    BY <2>4, FS_CardinalityType
  <2>. QED  BY <2>2, <2>3, <2>4, <2>5
<1>. QED  BY <1>1, LaneAlways, PTL

\* close() waits for the executor with the event loop blocked, and nothing is
\* submitted once it returns: the queue is empty and the worker idle for good,
\* and an idle worker's connection has no transaction open.
THEOREM ShutStaysQuiet == Spec => []ShutIsQuiet
<1>1. SlotInv /\ WorkInv /\ TxInv => ShutIsQuiet
  <2>. SUFFICES ASSUME SlotInv, WorkInv, TxInv, NEW l \in Lanes, shut[l]
                PROVE  LiveJobs(l) = {} /\ tx[l] = "none"
    BY DEF ShutIsQuiet
  <2>1. queue[l] = <<>> /\ running[l] = None
    BY DEF WorkInv
  <2>2. tx[l] = "none"
    BY <2>1 DEF TxInv, NothingLeftOpen
  <2>3. \A j \in Jobs : ~InQueue(j, l) /\ running[l] # j
    BY <2>1, LaneAssumption DEF InQueue, LaneAssumption
  <2>4. LiveJobs(l) = {}
    BY <2>3 DEF LiveJobs, WorkInv
  <2>. QED  BY <2>2, <2>4
<1>. QED  BY <1>1, LaneAlways, TxAlways, PTL

\* run's caller is cancelled: the executor's future is cancelled with the
\* awaited one if its job has not started, so the worker drops it.
THEOREM CancelledStaysOut == Spec => CancelledNeverStarts
<1>. DEFINE Stays == \A j \in Jobs : outcome[j] = "cancelled" /\ fut[j] # "running" => fut'[j] # "running"
<1>1. WorkInv /\ SlotInv /\ [Next]_vars => [Stays]_vars
  <2>. SUFFICES ASSUME WorkInv, SlotInv, [Next]_vars, NEW j \in Jobs, outcome[j] = "cancelled",
                       fut[j] # "running"
                PROVE  fut'[j] # "running"
    OBVIOUS
  <2>0. fut \in [Jobs -> FutStates] /\ fut[j] # "pending" /\ call[j] = "done"
    BY DEF WorkInv
  <2>1. CASE UNCHANGED fut
    BY <2>1
  <2>2. ASSUME NEW l \in Lanes, StartJob(l) PROVE fut'[j] # "running"
    BY <2>0, <2>2 DEF StartJob
  <2>3. ASSUME NEW i \in Jobs, TakeSlotAndSubmit(i) \/ SubmitGranted(i) PROVE fut'[j] # "running"
    BY <2>0, <2>3 DEF TakeSlotAndSubmit, SubmitGranted, poolVars
  <2>4. ASSUME NEW i \in Jobs, CancelHolding(i) PROVE fut'[j] # "running"
    BY <2>0, <2>4 DEF CancelHolding, CancelledFuture
  <2>5. ASSUME NEW l \in Lanes, OpenConnection(l) \/ JobReturn(l) \/ JobRaise(l)
        PROVE  fut'[j] # "running"
    <3>1. \/ UNCHANGED fut
          \/ \E o \in {"result", "error"} : fut' = [fut EXCEPT ![running[l]] = o]
      BY <2>5 DEF OpenConnection, JobReturn, JobRaise
    <3>. QED  BY <2>0, <3>1
  <2>6. ASSUME NEW i \in Jobs, RefuseBusy(i) \/ AwaitSlot(i) \/ CancelWaiting(i) \/ Resume(i)
        PROVE  fut'[j] # "running"
    BY <2>1, <2>6 DEF RefuseBusy, AwaitSlot, CancelWaiting, Resume, poolVars
  <2>7. ASSUME NEW l \in Lanes,
               CloseBegin(l) \/ CloseEnd(l) \/ RunClose(l) \/ JobWrite(l) \/ JobCommit(l)
        PROVE  fut'[j] # "running"
    BY <2>1, <2>7 DEF CloseBegin, CloseEnd, RunClose, JobWrite, JobCommit, poolVars
  <2>8. CASE UNCHANGED vars
    BY <2>1, <2>8 DEF vars, poolVars
  <2>. QED  BY <2>2, <2>3, <2>4, <2>5, <2>6, <2>7, <2>8 DEF Next, Worker
<1>. QED  BY <1>1, LaneAlways, PTL DEF Spec, CancelledNeverStarts

\* Every variable stays in its type: no lane ever has more slots than
\* max_queued, since a slot is given back only by a caller that held one.
THEOREM LaneTypes == Spec => []TypeOK
<1>. USE LaneAssumption DEF LaneAssumption
<1>. DEFINE Rest == /\ writes \in [Jobs -> 0..MaxWrites]
                    /\ blocked \in Lanes \cup {None}
                    /\ shut \in [Lanes -> BOOLEAN]
<1>1. Init => Rest
  BY DEF Init
<1>2. SlotInv /\ WorkInv /\ Rest /\ [Next]_vars => Rest'
  <2>. SUFFICES ASSUME SlotInv, WorkInv, Rest, [Next]_vars PROVE Rest'
    OBVIOUS
  <2>1. ASSUME UNCHANGED <<writes, blocked, shut>> PROVE Rest'
    BY <2>1
  <2>2. ASSUME NEW j \in Jobs, \/ RefuseBusy(j) \/ AwaitSlot(j) \/ TakeSlotAndSubmit(j)
                               \/ SubmitGranted(j) \/ CancelWaiting(j) \/ CancelHolding(j)
                               \/ Resume(j)
        PROVE  Rest'
    BY <2>1, <2>2 DEF RefuseBusy, AwaitSlot, TakeSlotAndSubmit, SubmitGranted, CancelWaiting,
                      CancelHolding, Resume, dbVars
  <2>3. ASSUME NEW l \in Lanes, CloseBegin(l) \/ CloseEnd(l) PROVE Rest'
    BY <2>3 DEF CloseBegin, CloseEnd, dbVars
  <2>4. ASSUME NEW l \in Lanes, JobWrite(l) PROVE Rest'
    <3>1. running[l] \in Jobs /\ writes[running[l]] \in 0..MaxWrites /\ writes[running[l]] < MaxWrites
      BY <2>4 DEF JobWrite, InFunction
    <3>2. writes[running[l]] + 1 \in 0..MaxWrites
      BY <3>1
    <3>3. writes' \in [Jobs -> 0..MaxWrites]
      BY <2>4, <3>1, <3>2 DEF JobWrite
    <3>. QED  BY <2>4, <3>3 DEF JobWrite
  <2>5. ASSUME NEW l \in Lanes, \/ StartJob(l) \/ OpenConnection(l) \/ RunClose(l) \/ JobCommit(l)
                                \/ JobReturn(l) \/ JobRaise(l)
        PROVE  Rest'
    BY <2>1, <2>5 DEF StartJob, OpenConnection, RunClose, JobCommit, JobReturn, JobRaise, dbVars
  <2>6. CASE UNCHANGED vars
    BY <2>1, <2>6 DEF vars, dbVars
  <2>. QED  BY <2>2, <2>3, <2>4, <2>5, <2>6 DEF Next, Worker
<1>3. SlotInv /\ LineInv => slots \in [Lanes -> 0..MaxQueued]
  <2>. SUFFICES ASSUME SlotInv, LineInv PROVE slots \in [Lanes -> 0..MaxQueued]
    OBVIOUS
  <2>1. ASSUME NEW l \in Lanes PROVE slots[l] \in 0..MaxQueued
    <3>1. slots[l] \in Nat /\ Cardinality(HoldersOf(l, call)) \in Nat
      BY HoldersFinite DEF SlotInv, SlotType
    <3>. QED  BY <3>1 DEF LineInv, SlotsKept
  <2>. QED  BY <2>1 DEF SlotInv, SlotType
<1>4. SlotInv /\ LineInv /\ WorkInv /\ TxInv /\ Rest => TypeOK
  BY <1>3 DEF SlotInv, SlotType, WorkInv, TxInv, OwnWritesOnly, TypeOK
<1>. HIDE DEF Rest
<1>5. Spec => []Rest
  BY <1>1, <1>2, LaneAlways, PTL DEF Spec
<1>. QED  BY <1>4, <1>5, LaneAlways, TxAlways, PTL

=============================================================================

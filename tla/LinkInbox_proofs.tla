-------------------------- MODULE LinkInbox_proofs --------------------------
(* Proofs about LinkInbox: a letter is delivered at most once and an accepted
   answer is the last word on it, for every set of letters and handlers and
   whatever crashes and lane errors happen. *)
EXTENDS LinkInbox, WorkItems_proofs, SequenceTheorems, FiniteSetTheorems

-----------------------------------------------------------------------------
(* The inductive invariant.                                                *)

(* What the answers' table and the loop's view of it look like. *)
AnswerTypes ==
    /\ acks \in Seq(Ack)
    /\ Len(acks) <= MaxRowId
    /\ due \subseteq Snapshot
    /\ cur \in Snapshot
    /\ error \in ItemError
    /\ \A i \in DOMAIN acks : acks[i].item.status \in Unresolved =>
                                acks[i].item.attempts < MaxAttempts

(* The types the argument about letters and answers rests on. *)
CoreType ==
    /\ saved \subseteq Letters
    /\ known \subseteq Letters
    /\ job \in [Handlers -> Job]
    /\ AnswerTypes
    /\ copies \in [Letters -> Nat]

(* The steps of a handler whose letter handle_events has accepted. *)
PastAccept == Step \ {"idle", "door", "turn_away", "accept"}
BeforeInsert == PastAccept \ {"answer", "log"}
Kept == {"open", "insert", "answer", "log"}

(* A letter is accepted by one handler only, and is known from then on. *)
OneHandler ==
    /\ saved \subseteq known
    /\ \A h \in Handlers : job[h].step \in PastAccept => job[h].letter \in known
    /\ \A g, h \in Handlers :
          /\ job[g].step \in PastAccept
          /\ job[h].step \in PastAccept
          /\ job[g].letter = job[h].letter
          => g = h

(* A letter is in the mailbox only after it was saved, so a restart knows it;
   until its handler inserts it there is no copy. *)
CopiesFollow ==
    /\ \A l \in Letters : copies[l] > 0 => copies[l] = 1 /\ l \in saved
    /\ \A h \in Handlers :
          /\ job[h].step \in BeforeInsert => copies[job[h].letter] = 0
          /\ job[h].step \in Kept => job[h].letter \in saved
          /\ job[h].step = "answer" => copies[job[h].letter] = 1

(* An accepted answer is about a delivered letter and nothing follows it; a
   handler about to queue one knows of none before. *)
AnswersFollow ==
    /\ AcceptedIsLastWord
    /\ \A h \in Handlers :
          job[h].step = "answer" =>
             \A i \in AnswersTo(job[h].letter) : acks[i].kind # "accepted"

DeliveryInv == CoreType /\ OneHandler /\ CopiesFollow /\ AnswersFollow

-----------------------------------------------------------------------------
(* What each kind of step does to the parts of the invariant.              *)

LEMMA NoJobType == NoJob \in Job /\ NoJob.step = "idle"
  BY LettersAssumption DEF NoJob, Job, Step

LEMMA NoSnapshotType == NoSnapshot \in Snapshot
  BY NumbersAssumption DEF NoSnapshot, Snapshot

LEMMA InitDelivery == Init => DeliveryInv
  <1> SUFFICES ASSUME Init PROVE DeliveryInv
    OBVIOUS
  <1>1. /\ saved = {} /\ known = {} /\ acks = <<>>
        /\ job = [h \in Handlers |-> NoJob]
        /\ copies = [l \in Letters |-> 0]
    BY DEF Init
  <1>2. CoreType
    BY <1>1, NoJobType, NoSnapshotType, NumbersAssumption DEF Init, CoreType, AnswerTypes, ItemError
  <1>3. OneHandler /\ CopiesFollow
    BY <1>1, NoJobType
    DEF OneHandler, CopiesFollow, PastAccept, BeforeInsert, Kept, Step
  <1>4. AnswersFollow
    BY <1>1, NoJobType DEF AnswersFollow, AcceptedIsLastWord
  <1> QED BY <1>2, <1>3, <1>4 DEF DeliveryInv

(* A step that leaves the letters saved and delivered alone, and in which no
   handler does more than end or move between steps that promise no more
   than the one it leaves. *)
Retreats(h) ==
    \/ job'[h] = job[h]
    \/ job'[h].step \notin PastAccept
    \/ /\ job'[h].letter = job[h].letter
       /\ job[h].step \in PastAccept
       /\ job'[h].step \in BeforeInsert => job[h].step \in BeforeInsert
       /\ job'[h].step \in Kept => job[h].step \in Kept
       /\ job'[h].step # "answer"

(* The answers stay, each about its letter and of its kind. *)
SameAnswers ==
    /\ DOMAIN acks' = DOMAIN acks
    /\ Len(acks') = Len(acks)
    /\ \A i \in DOMAIN acks : /\ acks'[i].letter = acks[i].letter
                              /\ acks'[i].kind = acks[i].kind

LEMMA RetreatingStep ==
    ASSUME DeliveryInv, CoreType', SameAnswers,
           UNCHANGED <<saved, copies>>,
           known \subseteq known',
           \A h \in Handlers : Retreats(h)
    PROVE  DeliveryInv'
  <1> USE DEF CoreType, AnswerTypes
  <1>1. OneHandler'
    BY DEF DeliveryInv, OneHandler, Retreats
  <1>2. CopiesFollow'
    BY DEF DeliveryInv, CopiesFollow, Retreats, PastAccept, BeforeInsert, Kept,
           Job
  <1>3. AcceptedIsLastWord'
    BY DEF DeliveryInv, AnswersFollow, AcceptedIsLastWord, AnswersTo,
           SameAnswers
  <1>4. ASSUME NEW h \in Handlers, job'[h].step = "answer"
        PROVE  \A i \in AnswersTo(job[h].letter)' : acks'[i].kind # "accepted"
    <2>1. job'[h] = job[h]
      BY <1>4 DEF Retreats, PastAccept, Step
    <2> QED BY <1>4, <2>1 DEF DeliveryInv, AnswersFollow, AnswersTo, SameAnswers
  <1>5. AnswersFollow'
    BY <1>3, <1>4 DEF AnswersFollow, AnswersTo, Retreats, PastAccept, Step
  <1> QED BY <1>1, <1>2, <1>5 DEF DeliveryInv

-----------------------------------------------------------------------------
(* Types.                                                                  *)

(* Rewriting the work items of the answers keeps the table a table. *)
LEMMA RewrittenAnswers ==
    ASSUME acks \in Seq(Ack), NEW row, DOMAIN row = DOMAIN acks,
           \A i \in DOMAIN acks : row[i] \in Item,
           acks' = [i \in DOMAIN acks |-> [acks[i] EXCEPT !.item = row[i]]]
    PROVE  /\ acks' \in Seq(Ack)
           /\ SameAnswers
           /\ \A i \in DOMAIN acks : acks'[i].item = row[i]
  <1>1. DOMAIN acks = 1 .. Len(acks) /\ Len(acks) \in Nat
    OBVIOUS
  <1>2. \A i \in DOMAIN acks : acks[i] \in Ack
    OBVIOUS
  <1>3. \A i \in DOMAIN acks :
           /\ [acks[i] EXCEPT !.item = row[i]] \in Ack
           /\ [acks[i] EXCEPT !.item = row[i]].letter = acks[i].letter
           /\ [acks[i] EXCEPT !.item = row[i]].kind = acks[i].kind
           /\ [acks[i] EXCEPT !.item = row[i]].item = row[i]
    BY <1>2 DEF Ack
  <1>4. acks' \in [1 .. Len(acks) -> Ack]
    BY <1>1, <1>3
  <1>5. acks' \in Seq(Ack)
    BY <1>1, <1>4, SeqDef
  <1>6. Len(acks') = Len(acks)
    BY <1>1, <1>4, <1>5
  <1> QED BY <1>3, <1>5, <1>6 DEF SameAnswers

(* Rewriting one of them. *)
LEMMA RewrittenAnswer ==
    ASSUME acks \in Seq(Ack), NEW k, NEW r,
           k \in DOMAIN acks => r \in Item,
           acks' = [acks EXCEPT ![k].item = r]
    PROVE  /\ acks' \in Seq(Ack)
           /\ SameAnswers
           /\ \A i \in DOMAIN acks :
                 acks'[i].item = IF i = k THEN r ELSE acks[i].item
  <1> DEFINE row == [i \in DOMAIN acks |-> IF i = k THEN r ELSE acks[i].item]
  <1>1. \A i \in DOMAIN acks : acks[i] \in Ack
    OBVIOUS
  <1>2. \A i \in DOMAIN acks : row[i] \in Item
    BY <1>1 DEF Ack
  <1>3. \A i \in DOMAIN acks : i # k => [acks[i] EXCEPT !.item = row[i]] = acks[i]
    BY <1>1 DEF Ack
  <1>4. acks' = [i \in DOMAIN acks |-> [acks[i] EXCEPT !.item = row[i]]]
    BY <1>3
  <1>5. DOMAIN row = DOMAIN acks
    OBVIOUS
  <1> HIDE DEF row
  <1>6. /\ acks' \in Seq(Ack)
        /\ SameAnswers
        /\ \A i \in DOMAIN acks : acks'[i].item = row[i]
    BY <1>2, <1>4, <1>5, RewrittenAnswers
  <1> QED BY <1>6 DEF row

-----------------------------------------------------------------------------
(* The steps that touch no letter: the sync loop's answers and time.       *)

LEMMA AnswerRows ==
    ASSUME AnswerTypes, NEW i \in DOMAIN acks
    PROVE  acks[i] \in Ack /\ acks[i].item \in Item
  <1>1. acks \in Seq(Ack)
    BY DEF AnswerTypes
  <1>2. acks[i] \in Ack
    BY <1>1
  <1> QED BY <1>2 DEF Ack

LEMMA AgedSnapshot ==
    ASSUME NEW s \in Snapshot
    PROVE  Aged(s) \in Snapshot
  BY NumbersAssumption DEF Aged, Older, Snapshot

(* Waking or ageing every row. *)
LEMMA RowsWait ==
    ASSUME AnswerTypes
    PROVE  /\ WakeAnswers => SameAnswers /\ AnswerTypes'
           /\ Tick => SameAnswers /\ AnswerTypes'
  <1> USE DEF AnswerTypes
  <1>0. \A i \in DOMAIN acks : acks[i] \in Ack /\ acks[i].item \in Item
    BY AnswerRows
  <1>1. ASSUME WakeAnswers PROVE SameAnswers /\ AnswerTypes'
    <2> DEFINE row == [i \in DOMAIN acks |->
                          IF NodeEstablished THEN WokenRow(acks[i].item)
                          ELSE acks[i].item]
    <2>1. \A i \in DOMAIN acks : /\ row[i] \in Item
                                 /\ row[i].status = acks[i].item.status
                                 /\ row[i].attempts = acks[i].item.attempts
      BY <1>0, WaitingRowTypes
    <2>2. \A i \in DOMAIN acks :
             [acks[i] EXCEPT !.item = row[i]] =
                IF NodeEstablished
                THEN [acks[i] EXCEPT !.item = WokenRow(@)] ELSE acks[i]
      BY <1>0 DEF Ack
    <2>3. acks' = [i \in DOMAIN acks |-> [acks[i] EXCEPT !.item = row[i]]]
      BY <1>1, <2>2 DEF WakeAnswers
    <2>4. DOMAIN row = DOMAIN acks
      OBVIOUS
    <2> HIDE DEF row
    <2>5. /\ acks' \in Seq(Ack) /\ SameAnswers
          /\ \A i \in DOMAIN acks : acks'[i].item = row[i]
      BY <2>1, <2>3, <2>4, RewrittenAnswers
    <2> QED BY <1>1, <2>1, <2>5 DEF WakeAnswers, SameAnswers, ackLoopVars
  <1>2. ASSUME Tick PROVE SameAnswers /\ AnswerTypes'
    <2> DEFINE row == [i \in DOMAIN acks |-> AgedRow(acks[i].item)]
    <2>1. \A i \in DOMAIN acks : /\ row[i] \in Item
                                 /\ row[i].status = acks[i].item.status
                                 /\ row[i].attempts = acks[i].item.attempts
      BY <1>0, WaitingRowTypes
    <2>3. acks' = [i \in DOMAIN acks |-> [acks[i] EXCEPT !.item = row[i]]]
      BY <1>2 DEF Tick
    <2>4. DOMAIN row = DOMAIN acks
      OBVIOUS
    <2> HIDE DEF row
    <2>5. /\ acks' \in Seq(Ack) /\ SameAnswers
          /\ \A i \in DOMAIN acks : acks'[i].item = row[i]
      BY <2>1, <2>3, <2>4, RewrittenAnswers
    <2>6. due' \subseteq Snapshot /\ cur' \in Snapshot /\ error' = error
      BY <1>2, AgedSnapshot DEF Tick
    <2> QED BY <2>1, <2>5, <2>6 DEF SameAnswers
  <1> QED BY <1>1, <1>2

(* record_success and record_failure. *)
LEMMA RowSettles ==
    ASSUME AnswerTypes, AnswerSent \/ AnswerNotSent
    PROVE  SameAnswers /\ AnswerTypes'
  <1> USE DEF AnswerTypes
  <1>0. \A i \in DOMAIN acks : acks[i] \in Ack /\ acks[i].item \in Item
    BY AnswerRows
  <1>1. due' = due /\ cur' \in Snapshot /\ error' \in ItemError
    BY NoSnapshotType DEF AnswerSent, AnswerNotSent, NextAnswer, ItemError
  <1>2. CASE AnswerSent
    <2> DEFINE r == PushedRow(acks[cur.ack].item)
    <2>1. cur.ack \in DOMAIN acks => r \in Item /\ r.status \notin Unresolved
      BY <1>0 DEF PushedRow, Item, ItemStatus, Unresolved
    <2>2. acks' = [acks EXCEPT ![cur.ack].item = r]
      BY <1>2 DEF AnswerSent, WithItem
    <2> HIDE DEF r
    <2>3. /\ acks' \in Seq(Ack) /\ SameAnswers
          /\ \A i \in DOMAIN acks :
                acks'[i].item = IF i = cur.ack THEN r ELSE acks[i].item
      BY <2>1, <2>2, RewrittenAnswer
    <2> QED BY <1>1, <2>1, <2>3 DEF SameAnswers
  <1>3. CASE AnswerNotSent
    <2> DEFINE r == FailedRow(acks[cur.ack].item, cur, error)
    <2>0. cur.attempts \in 0 .. MaxAttempts - 1 /\ cur.age \in Int
      BY NumbersAssumption DEF Snapshot
    <2>1. cur.ack \in DOMAIN acks =>
             r \in Item /\ (r.status \in Unresolved => r.attempts < MaxAttempts)
      BY <1>0, <2>0, WorkItemRowTypes
    <2>2. acks' = [acks EXCEPT ![cur.ack].item = r]
      BY <1>3 DEF AnswerNotSent, WithItem
    <2> HIDE DEF r
    <2>3. /\ acks' \in Seq(Ack) /\ SameAnswers
          /\ \A i \in DOMAIN acks :
                acks'[i].item = IF i = cur.ack THEN r ELSE acks[i].item
      BY <2>1, <2>2, RewrittenAnswer
    <2> QED BY <1>1, <2>1, <2>3 DEF SameAnswers
  <1> QED BY <1>2, <1>3

(* The rest of the loop's steps only move it along. *)
LEMMA LoopMoves ==
    ASSUME AnswerTypes,
           \/ EndPickUp \/ LoadDueAnswers \/ (\E s \in due : TakeAnswer(s))
           \/ DecideAnswer \/ (\E d \in BOOLEAN : PushAnswer(d)) \/ EndPass
    PROVE  SameAnswers /\ AnswerTypes' /\ UNCHANGED <<saved, copies, known, job>>
  <1> USE DEF AnswerTypes, dbVars, ackLoopVars, historyVars, SameAnswers
  <1>1. CASE EndPickUp
    BY <1>1 DEF EndPickUp
  <1>2. CASE LoadDueAnswers
    <2>1. \A i \in DOMAIN acks : i \in 1 .. MaxRowId
      BY NumbersAssumption
    <2>2. due' \subseteq Snapshot
      <3> SUFFICES ASSUME NEW i \in DOMAIN acks, IsDue(acks[i].item)
                   PROVE  [ack |-> i, attempts |-> acks[i].item.attempts,
                           age |-> acks[i].item.age] \in Snapshot
        BY <1>2 DEF LoadDueAnswers
      <3>1. acks[i].item \in Item /\ acks[i].item.attempts < MaxAttempts
        BY AnswerRows DEF IsDue
      <3>2. /\ acks[i].item.attempts \in 0 .. MaxAttempts - 1
            /\ acks[i].item.age \in 0 .. MaxAge + 1
        BY <3>1, NumbersAssumption DEF Item
      <3> QED BY <2>1, <3>2 DEF Snapshot
    <2> QED BY <1>2, <2>2 DEF LoadDueAnswers
  <1>3. CASE \E s \in due : TakeAnswer(s)
    BY <1>3 DEF TakeAnswer
  <1>4. CASE DecideAnswer
    BY <1>4 DEF DecideAnswer, ItemError
  <1>5. CASE \E d \in BOOLEAN : PushAnswer(d)
    BY <1>5 DEF PushAnswer, ItemError
  <1>6. CASE EndPass
    BY <1>6, NoSnapshotType DEF EndPass, LeavePass, ItemError
  <1> QED BY <1>1, <1>2, <1>3, <1>4, <1>5, <1>6

-----------------------------------------------------------------------------
(* The steps of a handler.                                                 *)

(* A handler that moves on or ends leaves the other handlers alone. *)
LEMMA OneMoves ==
    ASSUME CoreType, NEW h \in Handlers
    PROVE  /\ \A s \in Step : Goes(h, s) =>
                 /\ job' \in [Handlers -> Job]
                 /\ job'[h].letter = job[h].letter /\ job'[h].step = s
                 /\ \A g \in Handlers \ {h} : job'[g] = job[g]
           /\ Ends(h) =>
                 /\ job' \in [Handlers -> Job]
                 /\ job'[h].step = "idle"
                 /\ \A g \in Handlers \ {h} : job'[g] = job[g]
  <1>1. job \in [Handlers -> Job] /\ job[h] \in Job
    BY DEF CoreType
  <1>2. ASSUME NEW s \in Step, Goes(h, s)
        PROVE  /\ job' \in [Handlers -> Job]
               /\ job'[h].letter = job[h].letter /\ job'[h].step = s
               /\ \A g \in Handlers \ {h} : job'[g] = job[g]
    <2>1. /\ [job[h] EXCEPT !.step = s] \in Job
          /\ [job[h] EXCEPT !.step = s].letter = job[h].letter
          /\ [job[h] EXCEPT !.step = s].step = s
      BY <1>1 DEF Job
    <2>2. job' = [job EXCEPT ![h] = [job[h] EXCEPT !.step = s]]
      BY <1>2 DEF Goes
    <2> QED BY <1>1, <2>1, <2>2
  <1>3. ASSUME Ends(h)
        PROVE  /\ job' \in [Handlers -> Job]
               /\ job'[h].step = "idle"
               /\ \A g \in Handlers \ {h} : job'[g] = job[g]
    BY <1>1, <1>3, NoJobType DEF Ends
  <1> QED BY <1>2, <1>3

(* Queueing an answer appends one row and changes no other. *)
LEMMA QueuedAnswer ==
    ASSUME AnswerTypes, NEW l \in Letters, NEW kind \in AnswerKind,
           Queue(l, kind), UNCHANGED ackLoopVars
    PROVE  /\ AnswerTypes'
           /\ DOMAIN acks = 1 .. Len(acks) /\ Len(acks) \in Nat
           /\ DOMAIN acks' = 1 .. Len(acks) + 1
           /\ \A i \in DOMAIN acks : acks'[i] = acks[i]
           /\ acks'[Len(acks) + 1].letter = l
           /\ acks'[Len(acks) + 1].kind = kind
  <1> DEFINE n == Len(acks) + 1
  <1> DEFINE new == [letter |-> l, kind |-> kind, item |-> NewItem(n)]
  <1>1. acks \in Seq(Ack) /\ Len(acks) < MaxRowId /\ acks' = Append(acks, new)
    BY DEF AnswerTypes, Queue
  <1>2. n \in 1 .. MaxRowId
    BY <1>1, NumbersAssumption
  <1>3. NewItem(n) \in Item /\ NewItem(n).attempts < MaxAttempts
    <2> HIDE DEF n
    <2>1. n \in 0 .. MaxRowId /\ 0 \in 0 .. MaxAttempts /\ 0 < MaxAttempts
          /\ 0 \in 0 .. MaxBackoff /\ 0 \in 0 .. MaxAge + 1
      BY <1>2, NumbersAssumption
    <2> QED BY <2>1 DEF NewItem, Item, ItemStatus, ItemError
  <1>4. new \in Ack /\ new.letter = l /\ new.kind = kind
        /\ new.item.attempts < MaxAttempts
    BY <1>3 DEF Ack
  <1> HIDE DEF new
  <1>5. /\ acks' \in Seq(Ack) /\ Len(acks') = n
        /\ DOMAIN acks = 1 .. Len(acks) /\ Len(acks) \in Nat
        /\ DOMAIN acks' = 1 .. n
        /\ \A i \in DOMAIN acks : acks'[i] = acks[i]
        /\ acks'[n] = new
    BY <1>1, <1>4
  <1>6. \A i \in DOMAIN acks' : i \in DOMAIN acks \/ i = n
    BY <1>5
  <1>7. AnswerTypes'
    BY <1>2, <1>4, <1>5, <1>6 DEF AnswerTypes, ackLoopVars
  <1> QED BY <1>4, <1>5, <1>7

(* The quiet steps of a handler. *)
LEMMA HandlerRetreats ==
    ASSUME DeliveryInv, NEW h \in Handlers,
           \/ DecideAtDoor(h) \/ TurnAway(h) \/ DecideAuthor(h)
           \/ RecordRefusal(h) \/ DecideToAnswer(h) \/ LogBounce(h)
           \/ \E unfit \in BOOLEAN : OpenLetter(h, unfit)
    PROVE  DeliveryInv'
  <1> USE DEF DeliveryInv, dbVars, mailVars, ackLoopVars, historyVars
  <1>0. CoreType /\ job \in [Handlers -> Job] /\ job[h] \in Job
    BY DEF CoreType
  <1>1. UNCHANGED <<saved, copies, known, acks, due, cur, error>>
    BY DEF DecideAtDoor, TurnAway, DecideAuthor, RecordRefusal, DecideToAnswer,
           LogBounce, OpenLetter
  <1>2. /\ job' \in [Handlers -> Job]
        /\ \A g \in Handlers \ {h} : job'[g] = job[g]
        /\ Retreats(h)
    <2> USE DEF PastAccept, BeforeInsert, Kept, Retreats, Step, At
    <2>1. CASE DecideAtDoor(h)
      BY <1>0, <2>1, OneMoves DEF DecideAtDoor
    <2>2. CASE TurnAway(h)
      BY <1>0, <2>2, OneMoves DEF TurnAway
    <2>3. CASE DecideAuthor(h)
      BY <1>0, <2>3, OneMoves DEF DecideAuthor
    <2>4. CASE RecordRefusal(h)
      BY <1>0, <2>4, OneMoves DEF RecordRefusal
    <2>5. CASE DecideToAnswer(h)
      BY <1>0, <2>5, OneMoves DEF DecideToAnswer
    <2>6. CASE LogBounce(h)
      BY <1>0, <2>6, OneMoves DEF LogBounce
    <2>7. CASE \E unfit \in BOOLEAN : OpenLetter(h, unfit)
      <3>1. PICK evict \in SUBSET Letters :
               job' = [job EXCEPT ![h].step = "insert", ![h].evict = evict]
        BY <2>7 DEF OpenLetter
      <3>2. job[h].step = "open"
        BY <2>7 DEF OpenLetter
      <3> DEFINE j == [job[h] EXCEPT !.step = "insert", !.evict = evict]
      <3>3. j \in Job /\ j.letter = job[h].letter /\ j.step = "insert"
        BY <1>0 DEF Job
      <3>4. job' = [job EXCEPT ![h] = j]
        BY <1>0, <3>1
      <3> QED BY <1>0, <3>2, <3>3, <3>4
    <2> QED BY <2>1, <2>2, <2>3, <2>4, <2>5, <2>6, <2>7
  <1>3. \A g \in Handlers : Retreats(g)
    BY <1>2 DEF Retreats
  <1>4. SameAnswers /\ AnswerTypes'
    BY <1>0, <1>1 DEF CoreType, AnswerTypes, SameAnswers
  <1>5. CoreType'
    BY <1>0, <1>1, <1>2, <1>4 DEF CoreType
  <1> QED BY <1>1, <1>3, <1>4, <1>5, RetreatingStep

(* handle_events: a letter not known has no copy and no other handler. *)
LEMMA AcceptStep ==
    ASSUME DeliveryInv, NEW h \in Handlers, Accept(h)
    PROVE  DeliveryInv'
  <1> USE DEF DeliveryInv, dbVars, ackLoopVars, historyVars
  <1>0. CoreType /\ job \in [Handlers -> Job] /\ job[h] \in Job
        /\ job[h].letter \in Letters
    BY DEF CoreType, Job
  <1>1. UNCHANGED <<saved, copies, acks, due, cur, error>>
    BY DEF Accept
  <1>2. SameAnswers /\ AnswerTypes'
    BY <1>0, <1>1 DEF CoreType, AnswerTypes, SameAnswers
  <1>3. CASE job[h].letter \in known
    <2>1. job' \in [Handlers -> Job] /\ known' = known
          /\ \A g \in Handlers : Retreats(g)
      BY <1>0, <1>3, OneMoves DEF Accept, Retreats, PastAccept
    <2>2. CoreType'
      BY <1>0, <1>1, <1>2, <2>1 DEF CoreType
    <2> QED BY <1>1, <1>2, <2>1, <2>2, RetreatingStep
  <1>4. CASE job[h].letter \notin known
    <2> DEFINE l == job[h].letter
    <2>1. PICK s \in {"decide", "save"} : Goes(h, s)
      BY <1>4 DEF Accept
    <2>2. /\ job' \in [Handlers -> Job]
          /\ job'[h].letter = l /\ job'[h].step = s
          /\ \A g \in Handlers \ {h} : job'[g] = job[g]
      BY <1>0, <2>1, OneMoves DEF Step
    <2>3. known' = known \cup {l}
      BY DEF Accept
    <2>4. CoreType'
      BY <1>0, <1>1, <1>2, <2>2, <2>3 DEF CoreType
    <2>5. \A g \in Handlers : job[g].step \in PastAccept => job[g].letter # l
      BY <1>4 DEF OneHandler
    <2>6. OneHandler'
      BY <1>1, <2>2, <2>3, <2>5 DEF OneHandler
    <2>7. l \in Letters /\ copies[l] \in Nat /\ ~(copies[l] > 0)
      BY <1>0, <1>4 DEF CopiesFollow, OneHandler, CoreType
    <2>8. copies[l] = 0
      BY <2>7
    <2>9. CopiesFollow'
      BY <1>1, <2>1, <2>2, <2>8 DEF CopiesFollow, BeforeInsert, Kept
    <2>10. AnswersFollow'
      BY <1>1, <2>1, <2>2
      DEF AnswersFollow, AcceptedIsLastWord, AnswersTo
    <2> QED BY <2>4, <2>6, <2>9, <2>10
  <1> QED BY <1>3, <1>4

(* save_event. *)
LEMMA SaveStep ==
    ASSUME DeliveryInv, NEW h \in Handlers, SaveLetter(h)
    PROVE  DeliveryInv'
  <1> USE DEF DeliveryInv, mailVars, ackLoopVars, historyVars
  <1>0. CoreType /\ job \in [Handlers -> Job] /\ job[h] \in Job
        /\ job[h].letter \in Letters /\ job[h].step = "save"
    BY DEF CoreType, Job, SaveLetter, At
  <1>1. UNCHANGED <<known, copies, acks, due, cur, error>>
    BY DEF SaveLetter
  <1>2. saved' = saved \cup {job[h].letter}
    BY DEF SaveLetter
  <1>3. /\ job' \in [Handlers -> Job]
        /\ job'[h].letter = job[h].letter /\ job'[h].step = "open"
        /\ \A g \in Handlers \ {h} : job'[g] = job[g]
    BY <1>0, OneMoves DEF SaveLetter, Step
  <1>4. CoreType'
    BY <1>0, <1>1, <1>2, <1>3 DEF CoreType, AnswerTypes
  <1>5. OneHandler'
    BY <1>0, <1>1, <1>2, <1>3 DEF OneHandler, PastAccept, Step
  <1>6. CopiesFollow'
    BY <1>0, <1>1, <1>2, <1>3 DEF CopiesFollow, BeforeInsert, PastAccept, Kept, Step
  <1>7. AnswersFollow'
    BY <1>1, <1>3 DEF AnswersFollow, AcceptedIsLastWord, AnswersTo
  <1> QED BY <1>4, <1>5, <1>6, <1>7

(* A bounce is queued for a letter without a copy, hence after no accepted
   answer about it. *)
LEMMA BounceStep ==
    ASSUME DeliveryInv, NEW h \in Handlers,
           BounceRefused(h) \/ \E unfit \in BOOLEAN : BounceLetter(h, unfit)
    PROVE  DeliveryInv'
  <1> USE DEF DeliveryInv, mailVars, ackLoopVars, historyVars
  <1> DEFINE l == job[h].letter
  <1>0. CoreType /\ job \in [Handlers -> Job] /\ job[h] \in Job
        /\ l \in Letters /\ job[h].step \in {"bounce", "open"}
    BY DEF CoreType, Job, BounceRefused, BounceLetter, At
  <1>1. /\ UNCHANGED <<saved, known, copies, due, cur, error>>
        /\ Queue(l, "bounced")
        /\ Ends(h) \/ (job[h].step = "open" /\ Goes(h, "log"))
    BY DEF BounceRefused, BounceLetter, At
  <1>2. /\ job' \in [Handlers -> Job]
        /\ \/ job'[h].step = "idle"
           \/ /\ job[h].step = "open"
              /\ job'[h].letter = l /\ job'[h].step = "log"
        /\ \A g \in Handlers \ {h} : job'[g] = job[g]
    BY <1>0, <1>1, OneMoves DEF Step
  <1>3. copies[l] = 0
    BY <1>0 DEF CopiesFollow, BeforeInsert, PastAccept, Step
  <1>4. /\ AnswerTypes'
        /\ DOMAIN acks = 1 .. Len(acks) /\ Len(acks) \in Nat
        /\ DOMAIN acks' = 1 .. Len(acks) + 1
        /\ \A i \in DOMAIN acks : acks'[i] = acks[i]
        /\ acks'[Len(acks) + 1].letter = l
        /\ acks'[Len(acks) + 1].kind = "bounced"
    BY <1>0, <1>1, QueuedAnswer DEF CoreType, AnswerKind
  <1>5. CoreType'
    BY <1>0, <1>1, <1>2, <1>4 DEF CoreType
  <1>6. OneHandler'
    BY <1>0, <1>1, <1>2 DEF OneHandler, PastAccept, Step
  <1>7. CopiesFollow'
    BY <1>0, <1>1, <1>2 DEF CopiesFollow, BeforeInsert, PastAccept, Kept, Step
  <1>8. \A i \in DOMAIN acks : acks[i].kind = "accepted" => acks[i].letter # l
    BY <1>3 DEF AnswersFollow, AcceptedIsLastWord
  <1>9. AcceptedIsLastWord'
    <2> SUFFICES ASSUME NEW i \in DOMAIN acks', acks'[i].kind = "accepted"
                 PROVE  /\ copies'[acks'[i].letter] = 1
                        /\ \A j \in DOMAIN acks' :
                              acks'[j].letter = acks'[i].letter => j <= i
      BY DEF AcceptedIsLastWord, AnswersTo
    <2>1. i \in DOMAIN acks
      BY <1>4
    <2>2. acks[i].kind = "accepted" /\ acks'[i].letter = acks[i].letter
      BY <1>4, <2>1
    <2>3. /\ copies[acks[i].letter] = 1
          /\ \A j \in DOMAIN acks : acks[j].letter = acks[i].letter => j <= i
      BY <2>1, <2>2 DEF AnswersFollow, AcceptedIsLastWord, AnswersTo
    <2>4. \A j \in DOMAIN acks' : j \in DOMAIN acks \/ j = Len(acks) + 1
      BY <1>4
    <2> QED BY <1>1, <1>4, <1>8, <2>1, <2>2, <2>3, <2>4
  <1>10. ASSUME NEW g \in Handlers, job'[g].step = "answer",
                NEW i \in DOMAIN acks', acks'[i].letter = job'[g].letter
         PROVE  acks'[i].kind # "accepted"
    <2>1. g # h /\ job'[g] = job[g]
      BY <1>2, <1>10
    <2>2. i \in DOMAIN acks \/ i = Len(acks) + 1
      BY <1>4
    <2> QED BY <1>4, <1>10, <2>1, <2>2 DEF AnswersFollow, AnswersTo
  <1>11. AnswersFollow'
    BY <1>9, <1>10 DEF AnswersFollow, AnswersTo
  <1> QED BY <1>5, <1>6, <1>7, <1>11

(* The INSERT: the first copy, and no accepted answer is about it yet. *)
LEMMA InsertStep ==
    ASSUME DeliveryInv, NEW h \in Handlers, InsertLetter(h)
    PROVE  DeliveryInv'
  <1> USE DEF DeliveryInv, ackLoopVars
  <1> DEFINE l == job[h].letter
  <1>0. CoreType /\ job \in [Handlers -> Job] /\ job[h] \in Job
        /\ l \in Letters /\ job[h].step = "insert"
    BY DEF CoreType, Job, InsertLetter, At
  <1>1. UNCHANGED <<saved, known, acks, due, cur, error>>
        /\ copies' = [copies EXCEPT ![l] = @ + 1]
    BY DEF InsertLetter
  <1>2. /\ job' \in [Handlers -> Job]
        /\ job'[h].letter = l /\ job'[h].step = "answer"
        /\ \A g \in Handlers \ {h} : job'[g] = job[g]
    <2> DEFINE j == [job[h] EXCEPT !.step = "answer", !.evict = {}]
    <2>1. j \in Job /\ j.letter = l /\ j.step = "answer"
      BY <1>0 DEF Job, Step
    <2>2. job' = [job EXCEPT ![h] = j]
      BY <1>0 DEF InsertLetter
    <2> QED BY <1>0, <2>1, <2>2
  <1>3. copies[l] = 0 /\ l \in saved
    BY <1>0 DEF CopiesFollow, BeforeInsert, PastAccept, Kept, Step
  <1>4. copies'[l] = 1 /\ \A m \in Letters \ {l} : copies'[m] = copies[m]
    BY <1>0, <1>1, <1>3 DEF CoreType
  <1>5. CoreType'
    BY <1>0, <1>1, <1>2 DEF CoreType, AnswerTypes
  <1>6. OneHandler'
    BY <1>0, <1>1, <1>2 DEF OneHandler, PastAccept, Step
  <1>7. \A g \in Handlers \ {h} : job[g].step \in PastAccept =>
                                      job[g].letter # l
    BY <1>0 DEF OneHandler, PastAccept, Step
  <1>8. CopiesFollow'
    <2>1. \A m \in Letters : copies'[m] > 0 => copies'[m] = 1 /\ m \in saved'
      BY <1>1, <1>3, <1>4 DEF CopiesFollow
    <2>2. ASSUME NEW g \in Handlers
          PROVE  /\ job'[g].step \in BeforeInsert => copies'[job'[g].letter] = 0
                 /\ job'[g].step \in Kept => job'[g].letter \in saved'
                 /\ job'[g].step = "answer" => copies'[job'[g].letter] = 1
      <3>1. CASE g = h
        BY <1>1, <1>2, <1>3, <1>4, <3>1 DEF BeforeInsert
      <3>2. CASE g # h
        <4>1. job'[g] = job[g] /\ job[g].letter \in Letters
          BY <1>0, <1>2, <3>2 DEF Job
        <4>2. job[g].step \in BeforeInsert \cup {"answer"} =>
                 copies'[job[g].letter] = copies[job[g].letter]
          BY <1>4, <1>7, <3>2, <4>1 DEF BeforeInsert, PastAccept, Step
        <4> QED BY <1>1, <4>1, <4>2 DEF CopiesFollow
      <3> QED BY <3>1, <3>2
    <2> QED BY <2>1, <2>2 DEF CopiesFollow
  <1>9. \A i \in DOMAIN acks : acks[i].kind = "accepted" => acks[i].letter # l
    BY <1>3 DEF AnswersFollow, AcceptedIsLastWord
  <1>10. \A i \in DOMAIN acks : acks[i].letter \in Letters
    BY <1>0, AnswerRows DEF CoreType, Ack
  <1>11. AcceptedIsLastWord'
    BY <1>1, <1>4, <1>9, <1>10 DEF AnswersFollow, AcceptedIsLastWord, AnswersTo
  <1>12. AnswersFollow'
    BY <1>1, <1>2, <1>9, <1>11 DEF AnswersFollow, AnswersTo
  <1> QED BY <1>5, <1>6, <1>8, <1>12

(* The accepted answer: about the one copy, and the first of its kind. *)
LEMMA AcceptedStep ==
    ASSUME DeliveryInv, NEW h \in Handlers, QueueAccepted(h)
    PROVE  DeliveryInv'
  <1> USE DEF DeliveryInv, mailVars, ackLoopVars, historyVars
  <1> DEFINE l == job[h].letter
  <1> DEFINE n == Len(acks) + 1
  <1>0. CoreType /\ job \in [Handlers -> Job] /\ job[h] \in Job
        /\ l \in Letters /\ job[h].step = "answer"
    BY DEF CoreType, Job, QueueAccepted, At
  <1>1. /\ UNCHANGED <<saved, known, copies, due, cur, error>>
        /\ Queue(l, "accepted") /\ Ends(h)
    BY DEF QueueAccepted
  <1>2. /\ job' \in [Handlers -> Job]
        /\ job'[h].step = "idle"
        /\ \A g \in Handlers \ {h} : job'[g] = job[g]
    BY <1>0, <1>1, OneMoves
  <1>3. /\ copies[l] = 1
        /\ \A i \in DOMAIN acks : acks[i].letter = l => acks[i].kind # "accepted"
    BY <1>0 DEF CopiesFollow, AnswersFollow, AnswersTo
  <1>4. /\ AnswerTypes'
        /\ DOMAIN acks = 1 .. Len(acks) /\ Len(acks) \in Nat
        /\ DOMAIN acks' = 1 .. n
        /\ \A i \in DOMAIN acks : acks'[i] = acks[i]
        /\ acks'[n].letter = l
        /\ acks'[n].kind = "accepted"
    BY <1>0, <1>1, QueuedAnswer DEF CoreType, AnswerKind
  <1>5. CoreType'
    BY <1>0, <1>1, <1>2, <1>4 DEF CoreType
  <1>6. OneHandler'
    BY <1>0, <1>1, <1>2 DEF OneHandler, PastAccept
  <1>7. CopiesFollow'
    BY <1>0, <1>1, <1>2 DEF CopiesFollow, BeforeInsert, PastAccept, Kept
  <1>8. \A j \in DOMAIN acks' : j \in DOMAIN acks \/ j = n
    BY <1>4
  <1>9. AcceptedIsLastWord'
    <2> SUFFICES ASSUME NEW i \in DOMAIN acks', acks'[i].kind = "accepted"
                 PROVE  /\ copies'[acks'[i].letter] = 1
                        /\ \A j \in DOMAIN acks' :
                              acks'[j].letter = acks'[i].letter => j <= i
      BY DEF AcceptedIsLastWord, AnswersTo
    <2>1. CASE i = n
      BY <1>1, <1>3, <1>4, <2>1
    <2>2. CASE i # n
      <3>1. i \in DOMAIN acks /\ acks'[i] = acks[i]
        BY <1>4, <1>8, <2>2
      <3>2. /\ copies[acks[i].letter] = 1 /\ acks[i].letter # l
            /\ \A j \in DOMAIN acks : acks[j].letter = acks[i].letter => j <= i
        BY <1>3, <3>1 DEF AnswersFollow, AcceptedIsLastWord, AnswersTo
      <3> QED BY <1>1, <1>4, <1>8, <3>1, <3>2
    <2> QED BY <2>1, <2>2
  <1>10. ASSUME NEW g \in Handlers, job'[g].step = "answer",
                NEW i \in DOMAIN acks', acks'[i].letter = job'[g].letter
         PROVE  acks'[i].kind # "accepted"
    <2>1. g # h /\ job'[g] = job[g]
      BY <1>2, <1>10
    <2>2. job[g].letter # l
      BY <1>0, <1>10, <2>1 DEF OneHandler, PastAccept, Step
    <2> QED BY <1>4, <1>8, <1>10, <2>1, <2>2 DEF AnswersFollow, AnswersTo
  <1>11. AnswersFollow'
    BY <1>9, <1>10 DEF AnswersFollow, AnswersTo
  <1> QED BY <1>5, <1>6, <1>7, <1>11

(* Everything a handler does. *)
LEMMA HandlerStepDelivers ==
    ASSUME DeliveryInv, NEW h \in Handlers, HandlerStep(h)
    PROVE  DeliveryInv'
  <1>1. CASE Accept(h)
    BY <1>1, AcceptStep
  <1>2. CASE SaveLetter(h)
    BY <1>2, SaveStep
  <1>3. CASE BounceRefused(h) \/ \E unfit \in BOOLEAN : BounceLetter(h, unfit)
    BY <1>3, BounceStep
  <1>4. CASE InsertLetter(h)
    BY <1>4, InsertStep
  <1>5. CASE QueueAccepted(h)
    BY <1>5, AcceptedStep
  <1>6. CASE \/ DecideAtDoor(h) \/ TurnAway(h) \/ DecideAuthor(h)
             \/ RecordRefusal(h) \/ DecideToAnswer(h) \/ LogBounce(h)
             \/ \E unfit \in BOOLEAN : OpenLetter(h, unfit)
    BY <1>6, HandlerRetreats
  <1> QED BY <1>1, <1>2, <1>3, <1>4, <1>5, <1>6 DEF HandlerStep

-----------------------------------------------------------------------------
(* Arrivals, faults and the rest.                                          *)

LEMMA ArrivalStep ==
    ASSUME DeliveryInv,
           \/ \E h \in Requests, l \in Letters : Push(h, l)
           \/ \E l \in pulled : TakePulled(l) /\ l \in Letters
    PROVE  DeliveryInv'
  <1> USE DEF DeliveryInv, dbVars, ackLoopVars, historyVars
  <1>1. UNCHANGED <<saved, copies, known, acks, due, cur, error>>
    BY DEF Push, TakePulled
  <1>2. PICK h \in Handlers, l \in Letters, s \in {"door", "accept"} :
           job' = [job EXCEPT ![h] = [letter |-> l, evict |-> {}, step |-> s]]
    BY DEF Push, TakePulled, Handlers
  <1>3. [letter |-> l, evict |-> {}, step |-> s] \in Job
    BY DEF Job, Step
  <1>4. /\ job' \in [Handlers -> Job]
        /\ \A g \in Handlers : Retreats(g)
    BY <1>2, <1>3 DEF CoreType, Retreats, PastAccept
  <1>5. SameAnswers /\ AnswerTypes'
    BY <1>1 DEF CoreType, AnswerTypes, SameAnswers
  <1>6. CoreType'
    BY <1>1, <1>4, <1>5 DEF CoreType
  <1> QED BY <1>1, <1>4, <1>5, <1>6, RetreatingStep

(* Errors end handlers; a restart forgets exactly what was not saved. *)
LEMMA FaultStepDelivers ==
    ASSUME DeliveryInv, FaultStep
    PROVE  DeliveryInv'
  <1> USE DEF DeliveryInv, dbVars, ackLoopVars, historyVars
  <1>0. /\ UNCHANGED <<saved, copies, acks>>
        /\ due' \subseteq Snapshot /\ cur' \in Snapshot /\ error' \in ItemError
    BY NoSnapshotType
    DEF FaultStep, RequestFails, PassFails, CrashAndRestart, LeavePass,
        CoreType, AnswerTypes, ItemError
  <1>1. SameAnswers /\ AnswerTypes'
    BY <1>0 DEF CoreType, AnswerTypes, SameAnswers
  <1>2. CASE (\E h \in Requests : RequestFails(h)) \/ PassFails
    <2>1. PICK h \in Handlers : Ends(h) /\ known' = known
      BY <1>2 DEF RequestFails, PassFails, Handlers
    <2>2. job' \in [Handlers -> Job] /\ \A g \in Handlers : Retreats(g)
      BY <2>1, OneMoves DEF Retreats, PastAccept
    <2>3. CoreType'
      BY <1>0, <1>1, <2>1, <2>2 DEF CoreType
    <2> QED BY <1>0, <1>1, <2>1, <2>2, <2>3, RetreatingStep
  <1>3. CASE CrashAndRestart
    <2>1. known' = saved /\ job' = [h \in Handlers |-> NoJob]
      BY <1>3 DEF CrashAndRestart
    <2>2. \A h \in Handlers : job'[h] \in Job /\ job'[h].step = "idle"
      BY <2>1, NoJobType
    <2>3. CoreType'
      BY <1>0, <1>1, <2>1, <2>2 DEF CoreType
    <2>4. OneHandler'
      BY <1>0, <2>1, <2>2 DEF OneHandler, PastAccept
    <2>5. CopiesFollow'
      BY <1>0, <2>2 DEF CopiesFollow, BeforeInsert, PastAccept, Kept
    <2>6. AnswersFollow'
      BY <1>0, <2>2 DEF AnswersFollow, AcceptedIsLastWord, AnswersTo
    <2> QED BY <2>3, <2>4, <2>5, <2>6
  <1> QED BY <1>2, <1>3 DEF FaultStep

(* A step that leaves letters, handlers and answers alone. *)
LEMMA QuietStep ==
    ASSUME DeliveryInv, UNCHANGED <<saved, copies, known, job>>,
           SameAnswers, AnswerTypes'
    PROVE  DeliveryInv'
  <1>1. CoreType'
    BY DEF DeliveryInv, CoreType
  <1>2. \A h \in Handlers : Retreats(h)
    BY DEF Retreats
  <1> QED BY <1>1, <1>2, RetreatingStep

PulledType == pulled \subseteq Letters /\ held \subseteq Letters

LEMMA PulledNext == PulledType /\ [Next]_vars => PulledType'
  BY DEF PulledType, Next, vars, Push, Deposit, HandlerStep, DecideAtDoor,
         TurnAway, Accept, DecideAuthor, RecordRefusal, DecideToAnswer,
         BounceRefused, SaveLetter, OpenLetter, BounceLetter, InsertLetter,
         QueueAccepted, LogBounce, StartPass, PickUp, LoopStep, TakePulled,
         EndPickUp, WakeAnswers, LoadDueAnswers, TakeAnswer, DecideAnswer,
         PushAnswer, AnswerSent, AnswerNotSent, EndPass, LeavePass,
         RecipientStep, Read, MarkUnread, Delete, Tick, ChangeStanding,
         FaultStep, RequestFails, PassFails, CrashAndRestart, envVars

LEMMA DeliveryNext ==
    PulledType /\ DeliveryInv /\ [Next]_vars => DeliveryInv'
  <1> SUFFICES ASSUME PulledType, DeliveryInv, [Next]_vars PROVE DeliveryInv'
    OBVIOUS
  <1> USE DEF dbVars, mailVars, ackLoopVars, historyVars
  <1>0. AnswerTypes /\ DeliveryInv
    BY DEF DeliveryInv, CoreType
  <1>1. CASE UNCHANGED <<saved, copies, known, job, acks, due, cur, error>>
    BY <1>0, <1>1, QuietStep DEF AnswerTypes, SameAnswers
  <1>2. CASE \E h \in Requests, l \in Letters : Push(h, l)
    BY <1>2, ArrivalStep
  <1>3. CASE \E h \in Handlers : HandlerStep(h)
    BY <1>3, HandlerStepDelivers
  <1>4. CASE LoopStep
    <2>1. CASE \E l \in pulled : TakePulled(l)
      BY <2>1, ArrivalStep DEF PulledType
    <2>2. CASE WakeAnswers
      BY <1>0, <2>2, RowsWait, QuietStep DEF WakeAnswers
    <2>3. CASE AnswerSent \/ AnswerNotSent
      BY <1>0, <2>3, RowSettles, QuietStep DEF AnswerSent, AnswerNotSent
    <2>4. CASE \/ EndPickUp \/ LoadDueAnswers \/ (\E s \in due : TakeAnswer(s))
               \/ DecideAnswer \/ (\E d \in BOOLEAN : PushAnswer(d)) \/ EndPass
      BY <1>0, <2>4, LoopMoves, QuietStep
    <2> QED BY <1>4, <2>1, <2>2, <2>3, <2>4 DEF LoopStep
  <1>5. CASE Tick
    BY <1>0, <1>5, RowsWait, QuietStep DEF Tick
  <1>6. CASE FaultStep
    BY <1>6, FaultStepDelivers
  <1>7. CASE (\E l \in Letters : Deposit(l)) \/ StartPass \/ RecipientStep
             \/ ChangeStanding
    BY <1>1, <1>7
    DEF Deposit, StartPass, PickUp, RecipientStep, Read, MarkUnread, Delete,
        ChangeStanding
  <1> QED
    BY <1>1, <1>2, <1>3, <1>4, <1>5, <1>6, <1>7 DEF Next, vars

(* However often and by however many ways at once a letter arrives, and
   wherever a crash or a failed lane job interrupts its handler,
   deliver_link_message puts at most one copy of it into the mailbox. *)
THEOREM DeliveredAtMostOnce == Spec => []AtMostOneCopy
  <1>1. Init => PulledType /\ DeliveryInv
    BY InitDelivery DEF Init, PulledType
  <1>2. PulledType /\ DeliveryInv /\ [Next]_vars => PulledType' /\ DeliveryInv'
    BY DeliveryNext, PulledNext
  <1>3. DeliveryInv => AtMostOneCopy
    BY DEF DeliveryInv, CoreType, CopiesFollow, AtMostOneCopy
  <1> QED BY <1>1, <1>2, <1>3, PTL DEF Spec

(* An accepted answer is only ever queued for a letter that is in the mailbox
   and is the last answer about it: no restart or redelivery makes this node
   bounce, or accept again, what it has already accepted. *)
THEOREM AcceptedStaysLastWord == Spec => []AcceptedIsLastWord
  <1>1. Init => PulledType /\ DeliveryInv
    BY InitDelivery DEF Init, PulledType
  <1>2. PulledType /\ DeliveryInv /\ [Next]_vars => PulledType' /\ DeliveryInv'
    BY DeliveryNext, PulledNext
  <1>3. DeliveryInv => AcceptedIsLastWord
    BY DEF DeliveryInv, AnswersFollow
  <1> QED BY <1>1, <1>2, <1>3, PTL DEF Spec

-----------------------------------------------------------------------------
(* Never both, never silence: as long as no handler is interrupted, a letter
   is answered once.                                                        *)

(* The steps at which a handler still owes its letter an answer, and those of
   them at which the letter has been saved. *)
Owes == PastAccept \ {"log"}
OwesSaved == {"open", "insert", "answer"}

(* No letter is answered twice, and none that is unknown or still owed its
   answer is answered; a saved letter is owed its answer or has it. *)
AnswersOnce ==
    /\ \A i, j \in DOMAIN acks : acks[i].letter = acks[j].letter => i = j
    /\ \A i \in DOMAIN acks : acks[i].letter \in known
    /\ \A h \in Handlers : job[h].step \in Owes =>
          \A i \in DOMAIN acks : acks[i].letter # job[h].letter
    /\ \A l \in saved :
          \/ \E h \in Handlers : job[h].step \in OwesSaved /\ job[h].letter = l
          \/ \E i \in DOMAIN acks : acks[i].letter = l

(* A step after which a handler owes an answer to no other letter than before
   it, and to that one still. *)
StillOwes(h) ==
    \/ job'[h] = job[h]
    \/ /\ job'[h].letter = job[h].letter
       /\ job'[h].step \in Owes => job[h].step \in Owes
       /\ job[h].step \in OwesSaved => job'[h].step \in OwesSaved
    \/ job[h].step \notin OwesSaved /\ job'[h].step \notin Owes

LEMMA NothingAnswered ==
    ASSUME AnswersOnce, SameAnswers, saved' = saved, known \subseteq known',
           \A h \in Handlers : StillOwes(h)
    PROVE  AnswersOnce'
  <1>1. \A i, j \in DOMAIN acks' : acks'[i].letter = acks'[j].letter => i = j
    BY DEF AnswersOnce, SameAnswers
  <1>2. \A i \in DOMAIN acks' : acks'[i].letter \in known'
    BY DEF AnswersOnce, SameAnswers
  <1>3. ASSUME NEW h \in Handlers, job'[h].step \in Owes,
               NEW i \in DOMAIN acks'
        PROVE  acks'[i].letter # job'[h].letter
    <2>1. job[h].step \in Owes /\ job'[h].letter = job[h].letter
      BY <1>3 DEF StillOwes
    <2> QED BY <1>3, <2>1 DEF AnswersOnce, SameAnswers
  <1>4. ASSUME NEW l \in saved'
        PROVE  \/ \E h \in Handlers : /\ job'[h].step \in OwesSaved
                                      /\ job'[h].letter = l
               \/ \E i \in DOMAIN acks' : acks'[i].letter = l
    <2>1. CASE \E i \in DOMAIN acks : acks[i].letter = l
      BY <2>1 DEF SameAnswers
    <2>2. CASE \E h \in Handlers : job[h].step \in OwesSaved /\ job[h].letter = l
      <3>1. PICK h \in Handlers : job[h].step \in OwesSaved /\ job[h].letter = l
        BY <2>2
      <3>2. job'[h].step \in OwesSaved /\ job'[h].letter = l
        BY <3>1 DEF StillOwes
      <3> QED BY <3>2
    <2> QED BY <1>4, <2>1, <2>2 DEF AnswersOnce
  <1> QED BY <1>1, <1>2, <1>3, <1>4 DEF AnswersOnce

(* A handler that queues no answer. *)
LEMMA HandlerStillOwes ==
    ASSUME DeliveryInv, AnswersOnce, NEW h \in Handlers,
           \/ DecideAtDoor(h) \/ TurnAway(h) \/ DecideAuthor(h)
           \/ RecordRefusal(h) \/ DecideToAnswer(h) \/ LogBounce(h)
           \/ InsertLetter(h)
           \/ \E unfit \in BOOLEAN : OpenLetter(h, unfit)
    PROVE  AnswersOnce'
  <1> USE DEF dbVars, mailVars, historyVars
  <1>0. CoreType /\ job \in [Handlers -> Job] /\ job[h] \in Job
    BY DEF DeliveryInv, CoreType
  <1>1. UNCHANGED <<saved, known, acks>>
    BY DEF DecideAtDoor, TurnAway, DecideAuthor, RecordRefusal, DecideToAnswer,
           LogBounce, InsertLetter, OpenLetter
  <1>2. StillOwes(h) /\ \A g \in Handlers \ {h} : job'[g] = job[g]
    <2> USE DEF Owes, OwesSaved, PastAccept, StillOwes, Step, At
    <2>1. CASE DecideAtDoor(h)
      BY <1>0, <2>1, OneMoves DEF DecideAtDoor
    <2>2. CASE TurnAway(h)
      BY <1>0, <2>2, OneMoves DEF TurnAway
    <2>3. CASE DecideAuthor(h)
      BY <1>0, <2>3, OneMoves DEF DecideAuthor
    <2>4. CASE RecordRefusal(h)
      BY <1>0, <2>4, OneMoves DEF RecordRefusal
    <2>5. CASE DecideToAnswer(h)
      BY <1>0, <2>5, OneMoves DEF DecideToAnswer
    <2>6. CASE LogBounce(h)
      BY <1>0, <2>6, OneMoves DEF LogBounce
    <2>7. ASSUME job[h].step \in OwesSaved, NEW s \in OwesSaved,
                 NEW evict \in SUBSET Letters,
                 job' = [job EXCEPT ![h].step = s, ![h].evict = evict]
          PROVE  StillOwes(h) /\ \A g \in Handlers \ {h} : job'[g] = job[g]
      <3> DEFINE j == [job[h] EXCEPT !.step = s, !.evict = evict]
      <3>1. j.letter = job[h].letter /\ j.step = s
        BY <1>0 DEF Job
      <3>2. job' = [job EXCEPT ![h] = j]
        BY <1>0, <2>7
      <3> QED BY <1>0, <2>7, <3>1, <3>2
    <2>8. CASE InsertLetter(h)
      <3>1. /\ job' = [job EXCEPT ![h].step = "answer", ![h].evict = {}]
            /\ job[h].step \in OwesSaved /\ "answer" \in OwesSaved
            /\ {} \in SUBSET Letters
        BY <2>8 DEF InsertLetter
      <3> HIDE DEF StillOwes, OwesSaved
      <3> QED BY <2>7, <3>1
    <2>9. CASE \E unfit \in BOOLEAN : OpenLetter(h, unfit)
      BY <2>7, <2>9 DEF OpenLetter
    <2> QED BY <2>1, <2>2, <2>3, <2>4, <2>5, <2>6, <2>8, <2>9
  <1>3. \A g \in Handlers : StillOwes(g)
    BY <1>2 DEF StillOwes
  <1> QED BY <1>1, <1>3, NothingAnswered DEF SameAnswers

(* handle_events: an unknown letter has no answer, so its handler owes one. *)
LEMMA AcceptedOwes ==
    ASSUME DeliveryInv, AnswersOnce, NEW h \in Handlers, Accept(h)
    PROVE  AnswersOnce'
  <1> DEFINE l == job[h].letter
  <1>0. /\ CoreType /\ UNCHANGED <<saved, acks>> /\ known' = known \cup {l}
        /\ job[h].step = "accept"
    BY DEF DeliveryInv, Accept, dbVars
  <1>1. CASE l \in known
    <2>1. \A g \in Handlers : StillOwes(g)
      BY <1>0, <1>1, OneMoves DEF Accept, StillOwes, Owes, OwesSaved, PastAccept
    <2> QED BY <1>0, <2>1, NothingAnswered DEF SameAnswers
  <1>2. CASE l \notin known
    <2>1. PICK s \in {"decide", "save"} : Goes(h, s)
      BY <1>2 DEF Accept
    <2>2. /\ job'[h].letter = l /\ job'[h].step = s
          /\ \A g \in Handlers \ {h} : job'[g] = job[g]
      BY <1>0, <2>1, OneMoves DEF Step
    <2>3. \A i \in DOMAIN acks : acks[i].letter # l
      BY <1>2 DEF AnswersOnce
    <2>4. \A g \in Handlers : job'[g].step \in Owes =>
             \A i \in DOMAIN acks : acks[i].letter # job'[g].letter
      BY <2>2, <2>3 DEF AnswersOnce
    <2>5. \A g \in Handlers : job[g].step \in OwesSaved => job'[g] = job[g]
      BY <1>0, <2>2 DEF OwesSaved
    <2>6. \A m \in saved :
             \/ \E g \in Handlers : job'[g].step \in OwesSaved /\ job'[g].letter = m
             \/ \E i \in DOMAIN acks : acks[i].letter = m
      BY <2>5 DEF AnswersOnce
    <2> QED BY <1>0, <2>4, <2>6 DEF AnswersOnce
  <1> QED BY <1>1, <1>2

(* save_event: the letter it saves is owed its answer. *)
LEMMA SavedIsOwed ==
    ASSUME DeliveryInv, AnswersOnce, NEW h \in Handlers, SaveLetter(h)
    PROVE  AnswersOnce'
  <1> DEFINE l == job[h].letter
  <1>0. /\ CoreType /\ UNCHANGED <<known, acks>> /\ saved' = saved \cup {l}
        /\ job[h].step = "save" /\ Goes(h, "open")
    BY DEF DeliveryInv, SaveLetter, At
  <1>1. /\ job'[h].letter = l /\ job'[h].step = "open"
        /\ \A g \in Handlers \ {h} : job'[g] = job[g]
    BY <1>0, OneMoves DEF Step
  <1>2. \A g \in Handlers : StillOwes(g)
    BY <1>0, <1>1 DEF StillOwes, Owes, OwesSaved, PastAccept, Step
  <1>3. \A g \in Handlers : job'[g].step \in Owes =>
           \A i \in DOMAIN acks : acks[i].letter # job'[g].letter
    BY <1>2 DEF AnswersOnce, StillOwes
  <1>4. \A g \in Handlers : job[g].step \in OwesSaved => job'[g] = job[g]
    BY <1>0, <1>1 DEF OwesSaved
  <1>5. \A m \in saved' :
           \/ \E g \in Handlers : job'[g].step \in OwesSaved /\ job'[g].letter = m
           \/ \E i \in DOMAIN acks : acks[i].letter = m
    BY <1>0, <1>1, <1>4 DEF AnswersOnce, OwesSaved
  <1> QED BY <1>0, <1>3, <1>5 DEF AnswersOnce

(* _queue_acknowledgement: the answer owed to the letter, and the only one. *)
LEMMA OwedIsAnswered ==
    ASSUME DeliveryInv, AnswersOnce, NEW h \in Handlers,
           \/ BounceRefused(h) \/ QueueAccepted(h)
           \/ \E unfit \in BOOLEAN : BounceLetter(h, unfit)
    PROVE  AnswersOnce'
  <1> DEFINE l == job[h].letter
  <1> DEFINE n == Len(acks) + 1
  <1>0. /\ CoreType /\ AnswerTypes /\ l \in Letters
        /\ job[h].step \in {"bounce", "answer", "open"}
    BY DEF DeliveryInv, CoreType, Job, BounceRefused, QueueAccepted,
           BounceLetter, At
  <1>1. /\ UNCHANGED <<saved, known, due, cur, error>>
        /\ \E kind \in AnswerKind : Queue(l, kind)
        /\ Ends(h) \/ Goes(h, "log")
    BY DEF BounceRefused, QueueAccepted, BounceLetter, AnswerKind, ackLoopVars
  <1>2. /\ job'[h].step \in {"idle", "log"}
        /\ \A g \in Handlers \ {h} : job'[g] = job[g]
    BY <1>0, <1>1, OneMoves DEF Step
  <1>3. /\ DOMAIN acks = 1 .. Len(acks) /\ Len(acks) \in Nat
        /\ DOMAIN acks' = 1 .. n
        /\ \A i \in DOMAIN acks : acks'[i] = acks[i]
        /\ acks'[n].letter = l
    BY <1>0, <1>1, QueuedAnswer DEF ackLoopVars
  <1>4. \A i \in DOMAIN acks' : i = n \/ (i \in DOMAIN acks /\ acks'[i] = acks[i])
    BY <1>3
  <1>5. DOMAIN acks \subseteq DOMAIN acks' /\ n \in DOMAIN acks'
    BY <1>3
  <1>6. l \in known /\ \A i \in DOMAIN acks : acks[i].letter # l
    BY <1>0 DEF AnswersOnce, DeliveryInv, OneHandler, Owes, PastAccept, Step
  <1> HIDE DEF n
  <1>7. \A i, j \in DOMAIN acks' : acks'[i].letter = acks'[j].letter => i = j
    BY <1>3, <1>4, <1>6 DEF AnswersOnce
  <1>8. \A i \in DOMAIN acks' : acks'[i].letter \in known'
    BY <1>1, <1>3, <1>4, <1>6 DEF AnswersOnce
  <1>9. ASSUME NEW g \in Handlers, job'[g].step \in Owes,
               NEW i \in DOMAIN acks'
        PROVE  acks'[i].letter # job'[g].letter
    <2>1. g # h /\ job'[g] = job[g] /\ job[g].step \in Owes
      BY <1>2, <1>9 DEF Owes, PastAccept
    <2>2. job[g].letter # l
      BY <1>0, <2>1 DEF DeliveryInv, OneHandler, Owes, PastAccept, Step
    <2> QED BY <1>3, <1>4, <1>9, <2>1, <2>2 DEF AnswersOnce
  <1>10. ASSUME NEW m \in saved'
         PROVE  \/ \E g \in Handlers : /\ job'[g].step \in OwesSaved
                                       /\ job'[g].letter = m
                \/ \E i \in DOMAIN acks' : acks'[i].letter = m
    <2>1. CASE m = l
      BY <1>3, <1>5, <2>1
    <2>2. CASE m # l
      BY <1>1, <1>2, <1>3, <1>5, <1>10, <2>2 DEF AnswersOnce
    <2> QED BY <2>1, <2>2
  <1> QED BY <1>7, <1>8, <1>9, <1>10 DEF AnswersOnce

(* A request that arrives, or a letter taken from what was picked up, finds
   its handler idle. *)
LEMMA ArrivalOwesNothing ==
    ASSUME DeliveryInv, AnswersOnce,
           \/ \E h \in Requests, l \in Letters : Push(h, l)
           \/ \E l \in pulled : TakePulled(l)
    PROVE  AnswersOnce'
  <1>0. CoreType /\ UNCHANGED <<saved, known, acks>>
    BY DEF DeliveryInv, Push, TakePulled, dbVars
  <1>1. PICK h \in Handlers :
           /\ job[h].step = "idle"
           /\ \E l, s : /\ s \in {"door", "accept"}
                       /\ job' = [job EXCEPT ![h] =
                                     [letter |-> l, evict |-> {}, step |-> s]]
    <2>1. ASSUME NEW h \in Requests, NEW l \in Letters, Push(h, l)
          PROVE  /\ h \in Handlers /\ job[h].step = "idle"
                 /\ \E s \in {"door", "accept"} :
                       job' = [job EXCEPT ![h] =
                                  [letter |-> l, evict |-> {}, step |-> s]]
      BY <2>1 DEF Push, Handlers, Busy
    <2>2. ASSUME NEW l \in pulled, TakePulled(l)
          PROVE  /\ "loop" \in Handlers /\ job["loop"].step = "idle"
                 /\ job' = [job EXCEPT !["loop"] =
                               [letter |-> l, evict |-> {}, step |-> "accept"]]
      BY <2>2 DEF TakePulled, Handlers, Busy
    <2> QED BY <2>1, <2>2
  <1>2. \A g \in Handlers : StillOwes(g)
    BY <1>0, <1>1 DEF CoreType, StillOwes, Owes, OwesSaved, PastAccept
  <1> QED BY <1>0, <1>2, NothingAnswered DEF SameAnswers

LEMMA AnswersOnceNext ==
    ASSUME ~LaneErrors, ~Crashes, PulledType, DeliveryInv, AnswersOnce,
           [Next]_vars
    PROVE  AnswersOnce'
  <1> USE DEF dbVars, mailVars, ackLoopVars, historyVars
  <1>0. AnswerTypes
    BY DEF DeliveryInv, CoreType
  <1>1. CASE SameAnswers /\ UNCHANGED <<saved, known, job>>
    BY <1>1, NothingAnswered DEF StillOwes
  <1>2. CASE UNCHANGED <<saved, known, job, acks>>
    BY <1>1, <1>2 DEF SameAnswers
  <1>3. CASE \E h \in Requests, l \in Letters : Push(h, l)
    BY <1>3, ArrivalOwesNothing
  <1>4. ASSUME NEW h \in Handlers, HandlerStep(h) PROVE AnswersOnce'
    <2>1. CASE Accept(h)
      BY <2>1, AcceptedOwes
    <2>2. CASE SaveLetter(h)
      BY <2>2, SavedIsOwed
    <2>3. CASE \/ BounceRefused(h) \/ QueueAccepted(h)
               \/ \E unfit \in BOOLEAN : BounceLetter(h, unfit)
      BY <2>3, OwedIsAnswered
    <2>4. CASE \/ DecideAtDoor(h) \/ TurnAway(h) \/ DecideAuthor(h)
               \/ RecordRefusal(h) \/ DecideToAnswer(h) \/ LogBounce(h)
               \/ InsertLetter(h)
               \/ \E unfit \in BOOLEAN : OpenLetter(h, unfit)
      BY <2>4, HandlerStillOwes
    <2> QED BY <1>4, <2>1, <2>2, <2>3, <2>4 DEF HandlerStep
  <1>5. CASE LoopStep
    <2>1. CASE \E l \in pulled : TakePulled(l)
      BY <2>1, ArrivalOwesNothing
    <2>2. CASE WakeAnswers
      BY <1>0, <1>1, <2>2, RowsWait DEF WakeAnswers
    <2>3. CASE AnswerSent \/ AnswerNotSent
      BY <1>0, <1>1, <2>3, RowSettles DEF AnswerSent, AnswerNotSent
    <2>4. CASE \/ EndPickUp \/ LoadDueAnswers \/ (\E s \in due : TakeAnswer(s))
               \/ DecideAnswer \/ (\E d \in BOOLEAN : PushAnswer(d)) \/ EndPass
      BY <1>0, <1>1, <2>4, LoopMoves
    <2> QED BY <1>5, <2>1, <2>2, <2>3, <2>4 DEF LoopStep
  <1>6. CASE Tick
    BY <1>0, <1>1, <1>6, RowsWait DEF Tick
  <1>7. ~FaultStep
    BY DEF FaultStep, RequestFails, PassFails, CrashAndRestart
  <1>8. CASE (\E l \in Letters : Deposit(l)) \/ StartPass \/ RecipientStep
             \/ ChangeStanding
    BY <1>2, <1>8
    DEF Deposit, StartPass, PickUp, RecipientStep, Read, MarkUnread, Delete,
        ChangeStanding
  <1> QED
    BY <1>2, <1>3, <1>4, <1>5, <1>6, <1>7, <1>8 DEF Next, vars

LEMMA OneAnswerEach ==
    ASSUME DeliveryInv, AnswersOnce
    PROVE  NeverSilent
  <1> SUFFICES ASSUME NEW l \in saved, ~InProgress(l)
               PROVE  Cardinality(AnswersTo(l)) = 1
    BY DEF NeverSilent
  <1>1. PICK i \in DOMAIN acks : acks[i].letter = l
    BY DEF AnswersOnce, InProgress, Busy, OwesSaved
  <1>2. AnswersTo(l) = {i}
    BY <1>1 DEF AnswersTo, AnswersOnce
  <1> QED BY <1>2, FS_Singleton

(* deliver_link_message answers a letter exactly once, "never both, never
   silence": as long as no lane job raises and the process does not stop
   between its transactions, a saved letter whose handler is done has one
   answer, whatever the trust standing does meanwhile, however full the
   mailbox is and by however many ways the letter arrives again. *)
THEOREM AnsweredExactlyOnce ==
    ASSUME ~LaneErrors, ~Crashes
    PROVE  Spec => []NeverSilent
  <1>1. Init => PulledType /\ DeliveryInv /\ AnswersOnce
    <2>1. Init => PulledType /\ DeliveryInv
      BY InitDelivery DEF Init, PulledType
    <2>2. Init => AnswersOnce
      BY NoJobType DEF Init, AnswersOnce, Owes, PastAccept
    <2> QED BY <2>1, <2>2
  <1>2. PulledType /\ DeliveryInv /\ AnswersOnce /\ [Next]_vars =>
           PulledType' /\ DeliveryInv' /\ AnswersOnce'
    BY DeliveryNext, PulledNext, AnswersOnceNext
  <1>3. DeliveryInv /\ AnswersOnce => NeverSilent
    BY OneAnswerEach
  <1> QED BY <1>1, <1>2, <1>3, PTL DEF Spec

-----------------------------------------------------------------------------
(* The mailbox.                                                            *)

LEMMA RowGone ==
    ASSUME NEW q \in Seq(Letters), NEW S
    PROVE  /\ Without(q, S) \in Seq(Letters)
           /\ Len(Without(q, S)) <= Len(q)
           /\ (\E i \in DOMAIN q : q[i] \in S) => Len(Without(q, S)) = Len(q) - 1
           /\ \A j \in DOMAIN Without(q, S) : \E k \in DOMAIN q : Without(q, S)[j] = q[k]
           /\ (\A j, k \in DOMAIN q : q[j] = q[k] => j = k) =>
                 \A j, k \in DOMAIN Without(q, S) : Without(q, S)[j] = Without(q, S)[k] => j = k
  <1> DEFINE rows == {i \in DOMAIN q : q[i] \in S}
             i == CHOOSE k \in rows : TRUE
  <1>1. CASE rows = {}
    BY <1>1 DEF Without
  <1>2. CASE rows # {}
    <2>1. i \in DOMAIN q
      BY <1>2
    <2>2. Without(q, S) = SubSeq(q, 1, i - 1) \o SubSeq(q, i + 1, Len(q))
      BY <1>2 DEF Without
    <2> HIDE DEF i
    <2>3. i \in 1 .. Len(q) /\ Len(q) \in Nat
      BY <2>1
    <2> DEFINE before == SubSeq(q, 1, i - 1)
               after == SubSeq(q, i + 1, Len(q))
    <2>4. before \in Seq(Letters) /\ Len(before) = i - 1
      BY <2>3
    <2>5. after \in Seq(Letters)
      BY <2>3
    <2>6. Len(after) = Len(q) - i
      BY <2>3
    <2>7. Without(q, S) = before \o after
      BY <2>2
    <2>7a. /\ \A j \in 1 .. i - 1 : before[j] = q[j]
           /\ \A j \in 1 .. Len(q) - i : after[j] = q[i + j]
      BY <2>3
    <2> HIDE DEF before, after
    <2>8. /\ before \o after \in Seq(Letters)
          /\ Len(before \o after) = Len(before) + Len(after)
      BY <2>4, <2>5
    <2>9. Len(before) + Len(after) = Len(q) - 1
      BY <2>3, <2>4, <2>6
    <2>10. Len(Without(q, S)) = Len(q) - 1 /\ Without(q, S) \in Seq(Letters)
      BY <2>7, <2>8, <2>9
    <2> DEFINE rest == before \o after
               At0(j) == IF j < i THEN j ELSE j + 1
    <2>11. \A j \in 1 .. Len(q) - 1 : rest[j] = q[At0(j)] /\ At0(j) \in 1 .. Len(q)
      <3> SUFFICES ASSUME NEW j \in 1 .. Len(q) - 1
                   PROVE  rest[j] = q[At0(j)] /\ At0(j) \in 1 .. Len(q)
        OBVIOUS
      <3>1. CASE j < i
        <4>1. j \in 1 .. i - 1 /\ rest[j] = before[j]
          BY <2>3, <2>4, <2>5, <3>1
        <4> QED BY <2>3, <2>7a, <3>1, <4>1
      <3>2. CASE ~(j < i)
        <4>1. /\ j - (i - 1) \in 1 .. Len(q) - i /\ i + (j - (i - 1)) = j + 1
              /\ rest[j] = after[j - (i - 1)]
          BY <2>3, <2>4, <2>5, <2>6, <2>9, <3>2
        <4> QED BY <2>3, <2>7a, <3>2, <4>1
      <3> QED BY <3>1, <3>2
    <2>12. \A j, k \in 1 .. Len(q) - 1 : At0(j) = At0(k) => j = k
      BY <2>3
    <2>13. DOMAIN q = 1 .. Len(q) /\ DOMAIN rest = 1 .. Len(q) - 1 /\ Without(q, S) = rest
      BY <2>3, <2>7, <2>8, <2>9
    <2> HIDE DEF rest, At0
    <2>14. \A j \in DOMAIN rest : \E k \in DOMAIN q : rest[j] = q[k]
      BY <2>11, <2>13
    <2>15. ASSUME \A j, k \in DOMAIN q : q[j] = q[k] => j = k,
                  NEW j \in DOMAIN rest, NEW k \in DOMAIN rest, rest[j] = rest[k]
           PROVE  j = k
      <3>1. /\ j \in 1 .. Len(q) - 1 /\ rest[j] = q[At0(j)] /\ At0(j) \in DOMAIN q
            /\ k \in 1 .. Len(q) - 1 /\ rest[k] = q[At0(k)] /\ At0(k) \in DOMAIN q
        BY <2>11, <2>13
      <3>2. At0(j) = At0(k)
        BY <2>15, <3>1
      <3> QED BY <2>12, <3>1, <3>2
    <2>16. Len(Without(q, S)) <= Len(q)
      BY <2>3, <2>10
    <2>17. (\E k \in DOMAIN q : q[k] \in S) => Len(Without(q, S)) = Len(q) - 1
      BY <2>10
    <2> QED BY <2>10, <2>13, <2>14, <2>15, <2>16, <2>17
  <1> QED BY <1>1, <1>2

(* The types of what the argument about letters does not need. *)
MailboxType ==
    /\ inbox \in Seq(Letters)
    /\ unread \subseteq Letters /\ opened \subseteq Letters /\ refusals \subseteq Letters
    /\ loop \in LoopPC
    /\ standing \in Standings
    /\ faults \in 0 .. MaxFaults

LEMMA MailboxNext ==
    CoreType /\ PulledType /\ MailboxType /\ [Next]_vars => MailboxType'
  <1> SUFFICES ASSUME CoreType, PulledType, MailboxType, [Next]_vars PROVE MailboxType'
    OBVIOUS
  <1> USE DEF MailboxType, dbVars, mailVars, envVars, historyVars, LoopPC
  <1>0. \A h \in Handlers : job[h].letter \in Letters
    BY DEF CoreType, Job
  <1>1. CASE UNCHANGED vars
    BY <1>1 DEF vars
  <1>2. CASE \E h \in Requests, l \in Letters : Push(h, l)
    BY <1>2 DEF Push
  <1>3. ASSUME NEW h \in Handlers, HandlerStep(h) PROVE MailboxType'
    <2>1. CASE InsertLetter(h)
      <3>1. /\ inbox' = Append(Without(inbox, job[h].evict), job[h].letter)
            /\ unread' = (unread \ job[h].evict) \cup {job[h].letter}
            /\ UNCHANGED <<opened, refusals, loop, standing, faults>>
        BY <2>1 DEF InsertLetter
      <3>2. Without(inbox, job[h].evict) \in Seq(Letters)
        BY RowGone
      <3> QED BY <1>0, <3>1, <3>2
    <2>2. CASE TurnAway(h) \/ RecordRefusal(h) \/ LogBounce(h)
      BY <1>0, <2>2 DEF TurnAway, RecordRefusal, LogBounce
    <2>3. CASE \/ DecideAtDoor(h) \/ Accept(h) \/ DecideAuthor(h) \/ DecideToAnswer(h)
               \/ BounceRefused(h) \/ SaveLetter(h) \/ QueueAccepted(h)
               \/ \E unfit \in BOOLEAN : OpenLetter(h, unfit) \/ BounceLetter(h, unfit)
      BY <2>3 DEF DecideAtDoor, Accept, DecideAuthor, DecideToAnswer, BounceRefused,
                  SaveLetter, QueueAccepted, OpenLetter, BounceLetter
    <2> QED BY <1>3, <2>1, <2>2, <2>3 DEF HandlerStep
  <1>4. CASE (\E l \in Letters : Deposit(l)) \/ StartPass \/ Tick \/ ChangeStanding
    BY <1>4 DEF Deposit, StartPass, PickUp, Tick, ChangeStanding
  <1>5. CASE LoopStep
    BY <1>5 DEF LoopStep, TakePulled, EndPickUp, WakeAnswers, LoadDueAnswers, TakeAnswer,
                DecideAnswer, PushAnswer, AnswerSent, AnswerNotSent, NextAnswer, EndPass, LeavePass
  <1>6. ASSUME NEW l \in Letters, Read(l) \/ MarkUnread(l) \/ Delete(l) PROVE MailboxType'
    <2>1. CASE Delete(l)
      BY <2>1, RowGone DEF Delete
    <2>2. CASE Read(l) \/ MarkUnread(l)
      BY <2>2 DEF Read, MarkUnread
    <2> QED BY <1>6, <2>1, <2>2
  <1>7. CASE FaultStep
    <2>1. /\ faults < MaxFaults /\ faults' = faults + 1
          /\ UNCHANGED <<inbox, unread, opened, refusals, standing>>
          /\ loop' = loop \/ loop' = "idle"
      BY <1>7 DEF FaultStep, RequestFails, PassFails, CrashAndRestart, LeavePass
    <2> QED BY <2>1, InboxAssumption DEF InboxAssumption
  <1> QED BY <1>1, <1>2, <1>3, <1>4, <1>5, <1>6, <1>7 DEF Next, RecipientStep

(* One handler at most is inside deliver_link_message, between what make_room
   has read and the answer; what it has read leaves it a row, whatever the
   recipient does meanwhile. *)
RoomInv ==
    /\ Len(inbox) <= MailboxCap
    /\ \A h \in Handlers :
          job[h].step = "insert" => Len(inbox) < MailboxCap \/ \E l \in job[h].evict : InInbox(l)
    /\ \A g, h \in Handlers :
          job[g].step \in {"insert", "answer"} /\ job[h].step \in {"insert", "answer"} => g = h

(* A step that adds no row and takes no handler into deliver_link_message's
   transaction. *)
LEMMA RoomKept ==
    ASSUME RoomInv, MailboxType,
           \A h \in Handlers : job'[h] = job[h] \/ job'[h].step \notin {"insert", "answer"},
           UNCHANGED inbox \/ Len(inbox') < Len(inbox), inbox' \in Seq(Letters)
    PROVE  RoomInv'
  <1>0. Len(inbox) \in Nat /\ Len(inbox') \in Nat /\ MailboxCap \in Nat
    BY InboxAssumption DEF MailboxType, InboxAssumption
  <1>1. Len(inbox') <= MailboxCap
    BY <1>0 DEF RoomInv
  <1>2. ASSUME NEW h \in Handlers, job'[h].step = "insert"
        PROVE  Len(inbox') < MailboxCap \/ \E l \in job'[h].evict : InInbox(l)'
    <2>1. job'[h] = job[h]
      BY <1>2
    <2> QED BY <1>0, <1>2, <2>1 DEF RoomInv, InInbox
  <1>3. ASSUME NEW g \in Handlers, NEW h \in Handlers,
               job'[g].step \in {"insert", "answer"}, job'[h].step \in {"insert", "answer"}
        PROVE  g = h
    BY <1>3 DEF RoomInv
  <1> QED BY <1>1, <1>2, <1>3 DEF RoomInv

LEMMA RoomNext ==
    CoreType /\ MailboxType /\ MailboxType' /\ RoomInv /\ [Next]_vars => RoomInv'
  <1> SUFFICES ASSUME CoreType, MailboxType, MailboxType', RoomInv, [Next]_vars PROVE RoomInv'
    OBVIOUS
  <1> USE DEF dbVars, mailVars, envVars, historyVars
  <1>0. /\ job \in [Handlers -> Job] /\ inbox \in Seq(Letters) /\ inbox' \in Seq(Letters)
        /\ Len(inbox) \in Nat /\ MailboxCap \in Nat \ {0} /\ "loop" \in Handlers
        /\ Requests \subseteq Handlers
    BY InboxAssumption DEF CoreType, MailboxType, InboxAssumption, Handlers
  (* Handlers that end, or go on outside the transaction *)
  <1>1. ASSUME UNCHANGED inbox, NEW h \in Handlers,
               Ends(h) \/ (\E s \in Step \ {"insert", "answer"} : Goes(h, s))
        PROVE  RoomInv'
    <2>1. \A g \in Handlers : job'[g] = job[g] \/ job'[g].step \notin {"insert", "answer"}
      BY <1>1, OneMoves
    <2> QED BY <1>0, <1>1, <2>1, RoomKept
  <1>2. CASE UNCHANGED <<inbox, job>>
    BY <1>0, <1>2, RoomKept
  <1>3. ASSUME NEW h \in Handlers, NEW l \in Letters, UNCHANGED inbox,
               \E s \in {"door", "accept"} :
                  job' = [job EXCEPT ![h] = [letter |-> l, evict |-> {}, step |-> s]]
        PROVE  RoomInv'
    BY <1>0, <1>3, RoomKept
  <1>4. ASSUME NEW h \in Handlers, HandlerStep(h) PROVE RoomInv'
    <2>1. ASSUME NEW unfit \in BOOLEAN, OpenLetter(h, unfit) PROVE RoomInv'
      <3>1. PICK evict \in SUBSET Letters :
               /\ RoomFor(evict)
               /\ job' = [job EXCEPT ![h].step = "insert", ![h].evict = evict]
        BY <2>1 DEF OpenLetter
      <3>2. UNCHANGED inbox /\ LaneFree(h)
        BY <2>1 DEF OpenLetter, At
      <3>3. job'[h].evict = evict /\ \A g \in Handlers \ {h} : job'[g] = job[g]
        BY <1>0, <3>1 DEF Job
      <3>4. Len(inbox) < MailboxCap \/ \E l \in evict : InInbox(l)
        BY <3>1 DEF RoomFor, InInbox
      <3>5. \A g \in Handlers \ {h} : job'[g].step \notin {"insert", "answer"}
        BY <3>2, <3>3 DEF LaneFree
      <3>6. ASSUME NEW g \in Handlers, job'[g].step = "insert"
            PROVE  Len(inbox') < MailboxCap \/ \E l \in job'[g].evict : InInbox(l)'
        <4>1. g = h
          BY <3>5, <3>6
        <4> QED BY <3>2, <3>3, <3>4, <4>1 DEF InInbox
      <3> QED BY <3>2, <3>5, <3>6 DEF RoomInv
    <2>2. CASE InsertLetter(h)
      <3>1. /\ inbox' = Append(Without(inbox, job[h].evict), job[h].letter)
            /\ job' = [job EXCEPT ![h].step = "answer", ![h].evict = {}]
            /\ job[h].step = "insert"
        BY <2>2 DEF InsertLetter, At
      <3>2. job'[h].step = "answer" /\ \A g \in Handlers \ {h} : job'[g] = job[g]
        BY <1>0, <3>1 DEF Job
      <3>3. \A g \in Handlers \ {h} : job[g].step \notin {"insert", "answer"}
        BY <3>1 DEF RoomInv
      <3>4. Len(inbox') <= MailboxCap
        <4> DEFINE rest == Without(inbox, job[h].evict)
        <4>1. rest \in Seq(Letters) /\ Len(rest) \in Nat /\ Len(rest) <= Len(inbox)
          BY <1>0, RowGone
        <4>2. Len(rest) < MailboxCap
          <5>1. CASE Len(inbox) < MailboxCap
            BY <1>0, <4>1, <5>1
          <5>2. CASE \E l \in job[h].evict : InInbox(l)
            <6>1. Len(rest) = Len(inbox) - 1
              BY <1>0, <5>2, RowGone DEF InInbox
            <6> QED BY <1>0, <6>1 DEF RoomInv
          <5> QED BY <3>1, <5>1, <5>2 DEF RoomInv
        <4>3. job[h].letter \in Letters
          BY <1>0 DEF Job
        <4> HIDE DEF rest
        <4>4. Len(Append(rest, job[h].letter)) = Len(rest) + 1
          BY <4>1, <4>3
        <4> QED BY <1>0, <3>1, <4>1, <4>2, <4>4 DEF rest
      <3> QED BY <3>2, <3>3, <3>4 DEF RoomInv
    <2>3. CASE \/ DecideAtDoor(h) \/ TurnAway(h) \/ Accept(h) \/ DecideAuthor(h)
               \/ RecordRefusal(h) \/ DecideToAnswer(h) \/ BounceRefused(h) \/ SaveLetter(h)
               \/ QueueAccepted(h) \/ LogBounce(h)
               \/ \E unfit \in BOOLEAN : BounceLetter(h, unfit)
      <3>1. UNCHANGED inbox
        BY <2>3 DEF DecideAtDoor, TurnAway, Accept, DecideAuthor, RecordRefusal, DecideToAnswer,
                    BounceRefused, SaveLetter, QueueAccepted, LogBounce, BounceLetter
      <3>2. Ends(h) \/ \E s \in Step \ {"insert", "answer"} : Goes(h, s)
        BY <2>3 DEF DecideAtDoor, TurnAway, Accept, DecideAuthor, RecordRefusal, DecideToAnswer,
                    BounceRefused, SaveLetter, QueueAccepted, LogBounce, BounceLetter, Step
      <3> QED BY <1>1, <3>1, <3>2
    <2> QED BY <1>4, <2>1, <2>2, <2>3 DEF HandlerStep
  <1>5. CASE \E h \in Requests, l \in Letters : Push(h, l)
    BY <1>0, <1>3, <1>5 DEF Push
  <1>6. CASE LoopStep
    <2>1. ASSUME NEW l \in pulled, TakePulled(l) PROVE RoomInv'
      <3>1. /\ UNCHANGED inbox
            /\ job' = [job EXCEPT !["loop"] = [letter |-> l, evict |-> {}, step |-> "accept"]]
        BY <2>1 DEF TakePulled
      <3>2. \A g \in Handlers : job'[g] = job[g] \/ job'[g].step \notin {"insert", "answer"}
        BY <1>0, <3>1
      <3> QED BY <1>0, <3>1, <3>2, RoomKept
    <2>2. CASE ~\E l \in pulled : TakePulled(l)
      BY <1>2, <1>6, <2>2
      DEF LoopStep, EndPickUp, WakeAnswers, LoadDueAnswers, TakeAnswer, DecideAnswer, PushAnswer,
          AnswerSent, AnswerNotSent, EndPass
    <2> QED BY <2>1, <2>2
  <1>7. ASSUME NEW l \in Letters, Read(l) \/ MarkUnread(l) \/ Delete(l) PROVE RoomInv'
    <2>1. CASE Read(l) \/ MarkUnread(l)
      BY <1>2, <2>1 DEF Read, MarkUnread
    <2>2. CASE Delete(l)
      <3>1. Len(inbox') = Len(inbox) - 1 /\ UNCHANGED job
        BY <1>0, <2>2, RowGone DEF Delete, InInbox
      <3> QED BY <1>0, <3>1, RoomKept
    <2> QED BY <1>7, <2>1, <2>2
  <1>8. CASE FaultStep
    <2>1. UNCHANGED inbox
      BY <1>8 DEF FaultStep, RequestFails, PassFails, CrashAndRestart
    <2>2. CASE CrashAndRestart
      <3>1. \A g \in Handlers : job'[g].step = "idle"
        BY <2>2, NoJobType DEF CrashAndRestart
      <3> QED BY <1>0, <2>1, <3>1, RoomKept
    <2>3. CASE (\E h \in Requests : RequestFails(h)) \/ PassFails
      <3>1. \E h \in Handlers : Ends(h)
        BY <1>0, <2>3 DEF RequestFails, PassFails
      <3> QED BY <1>1, <2>1, <3>1
    <2> QED BY <1>8, <2>2, <2>3 DEF FaultStep
  <1>9. CASE (\E l \in Letters : Deposit(l)) \/ StartPass \/ Tick \/ ChangeStanding \/ UNCHANGED vars
    BY <1>2, <1>9 DEF Deposit, StartPass, PickUp, Tick, ChangeStanding, vars
  <1> QED BY <1>4, <1>5, <1>6, <1>7, <1>8, <1>9 DEF Next, RecipientStep

(* make_room: the mailbox never holds more than MAX_MAIL_PER_RECIPIENT
   letters, though make_room reads in one step and deletes in another, and
   the recipient deletes and marks letters in between on a connection of
   their own. *)
THEOREM MailboxKeepsItsBound == Spec => [](Len(inbox) <= MailboxCap)
  <1>1. Init => PulledType /\ DeliveryInv /\ MailboxType /\ RoomInv
    <2>1. Init => MailboxType /\ RoomInv
      BY InboxAssumption, NoJobType DEF Init, MailboxType, RoomInv, LoopPC, InboxAssumption
    <2> QED BY <2>1, InitDelivery DEF Init, PulledType
  <1>2. DeliveryInv => CoreType
    BY DEF DeliveryInv
  <1>3. RoomInv => Len(inbox) <= MailboxCap
    BY DEF RoomInv
  <1> QED BY <1>1, <1>2, <1>3, PulledNext, DeliveryNext, MailboxNext, RoomNext, PTL DEF Spec

(* A letter has one row of the mailbox at most, of the copy it was given. *)
RowsInv ==
    /\ \A i, k \in DOMAIN inbox : inbox[i] = inbox[k] => i = k
    /\ \A i \in DOMAIN inbox : copies[inbox[i]] = 1

LEMMA RowsNext ==
    DeliveryInv /\ MailboxType /\ RowsInv /\ [Next]_vars => RowsInv'
  <1> SUFFICES ASSUME DeliveryInv, MailboxType, RowsInv, [Next]_vars PROVE RowsInv'
    OBVIOUS
  <1> USE DEF dbVars, mailVars, historyVars
  <1>0. /\ inbox \in Seq(Letters) /\ job \in [Handlers -> Job] /\ copies \in [Letters -> Nat]
    BY DEF DeliveryInv, CoreType, MailboxType
  <1>1. CASE UNCHANGED <<inbox, copies>>
    BY <1>1 DEF RowsInv
  <1>2. ASSUME NEW h \in Handlers, InsertLetter(h) PROVE RowsInv'
    <2> DEFINE rest == Without(inbox, job[h].evict)
               new == job[h].letter
    <2>1. /\ inbox' = Append(rest, new)
          /\ copies' = [copies EXCEPT ![new] = @ + 1]
          /\ copies[new] = 0 /\ new \in Letters
      BY <1>0, <1>2 DEF InsertLetter, At, DeliveryInv, CopiesFollow, BeforeInsert, PastAccept, Step, Job
    <2>2. /\ rest \in Seq(Letters)
          /\ \A j, k \in DOMAIN rest : rest[j] = rest[k] => j = k
          /\ \A j \in DOMAIN rest : \E k \in DOMAIN inbox : rest[j] = inbox[k]
      BY <1>0, RowGone DEF RowsInv
    <2> HIDE DEF rest, new
    <2>3. \A j \in DOMAIN rest : copies[rest[j]] = 1 /\ rest[j] # new
      BY <2>1, <2>2 DEF RowsInv
    <2>4. /\ DOMAIN inbox' = DOMAIN rest \cup {Len(rest) + 1}
          /\ \A j \in DOMAIN rest : inbox'[j] = rest[j]
          /\ inbox'[Len(rest) + 1] = new
      BY <2>1, <2>2
    <2>5. copies'[new] = 1 /\ \A j \in DOMAIN rest : copies'[rest[j]] = 1
      BY <1>0, <2>1, <2>3
    <2> QED BY <2>2, <2>3, <2>4, <2>5 DEF RowsInv
  <1>3. ASSUME NEW l \in Letters, Delete(l) PROVE RowsInv'
    <2> DEFINE rest == Without(inbox, {l})
    <2>1. inbox' = rest /\ UNCHANGED copies
      BY <1>3 DEF Delete
    <2>2. /\ \A j, k \in DOMAIN rest : rest[j] = rest[k] => j = k
          /\ \A j \in DOMAIN rest : \E k \in DOMAIN inbox : rest[j] = inbox[k]
      BY <1>0, RowGone DEF RowsInv
    <2> HIDE DEF rest
    <2> QED BY <2>1, <2>2 DEF RowsInv
  <1>4. CASE \/ \E h \in Requests, l \in Letters : Push(h, l)
             \/ \E l \in Letters : Deposit(l) \/ Read(l) \/ MarkUnread(l)
             \/ StartPass \/ LoopStep \/ Tick \/ ChangeStanding \/ FaultStep \/ UNCHANGED vars
    BY <1>1, <1>4
    DEF Push, Deposit, Read, MarkUnread, StartPass, PickUp, LoopStep, TakePulled, EndPickUp,
        WakeAnswers, LoadDueAnswers, TakeAnswer, DecideAnswer, PushAnswer, AnswerSent,
        AnswerNotSent, EndPass, Tick, ChangeStanding, FaultStep, RequestFails, PassFails,
        CrashAndRestart, vars
  <1>5. ASSUME NEW h \in Handlers, HandlerStep(h), ~InsertLetter(h) PROVE RowsInv'
    BY <1>1, <1>5
    DEF HandlerStep, DecideAtDoor, TurnAway, Accept, DecideAuthor, RecordRefusal, DecideToAnswer,
        BounceRefused, SaveLetter, OpenLetter, BounceLetter, QueueAccepted, LogBounce
  <1> QED BY <1>2, <1>3, <1>4, <1>5 DEF Next, RecipientStep

(* deliver_link_message and handle_events: no two rows of the mailbox hold
   the same letter, whatever is deleted and delivered in between; so what
   make_room or the recipient deletes by id is the letter. *)
THEOREM OneRowEach ==
    Spec => [](\A i, k \in DOMAIN inbox : inbox[i] = inbox[k] => i = k)
  <1>1. Init => PulledType /\ DeliveryInv /\ MailboxType /\ RowsInv
    BY InboxAssumption, InitDelivery
    DEF Init, PulledType, MailboxType, LoopPC, InboxAssumption, RowsInv
  <1>2. DeliveryInv => CoreType
    BY DEF DeliveryInv
  <1>3. RowsInv => \A i, k \in DOMAIN inbox : inbox[i] = inbox[k] => i = k
    BY DEF RowsInv
  <1> QED BY <1>1, <1>2, <1>3, PulledNext, DeliveryNext, MailboxNext, RowsNext, PTL DEF Spec

(* Letters, handlers, answers and the mailbox keep their shape, whatever
   crashes, lane errors and deletions happen. *)
THEOREM TypeCorrect == Spec => []TypeOK
  <1>1. Init => PulledType /\ DeliveryInv /\ MailboxType
    BY InboxAssumption, InitDelivery DEF Init, PulledType, MailboxType, LoopPC, InboxAssumption
  <1>2. DeliveryInv => CoreType
    BY DEF DeliveryInv
  <1>3. CoreType /\ PulledType /\ MailboxType => TypeOK
    BY DEF CoreType, AnswerTypes, PulledType, MailboxType, TypeOK
  <1> QED BY <1>1, <1>2, <1>3, PulledNext, DeliveryNext, MailboxNext, PTL DEF Spec

=============================================================================

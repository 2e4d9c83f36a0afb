-------------------------- MODULE LinkOutbox_proofs --------------------------
(* Proofs of the safety properties of LinkOutbox, for every set of letters,
   every limit and every combination of faults. *)
EXTENDS LinkOutbox, WorkItems_proofs

-----------------------------------------------------------------------------
(* Types of what the statements leave behind. *)

(* Every UPDATE of mail_messages leaves a well-formed row. *)
LEMMA MailRowTypes ==
    ASSUME NEW m \in Letter, NEW why \in Reason, NEW b \in BOOLEAN
    PROVE  /\ Expired(m, why) \in Letter
           /\ Unexpired(m) \in Letter
           /\ Bounced(m, why, b) \in Letter
           /\ Accepted(m) \in Letter
           /\ HandedOff(m) \in Letter
           /\ GivenUpUnanswered(m) \in Letter
           /\ [m EXCEPT !.notice = FALSE] \in Letter
           /\ [m EXCEPT !.handoff = SinceOlder(@)] \in Letter
  <1> USE TimesAssumption DEF Letter, MailStatus, Reason, Never
  <1>1. Expired(m, why) \in Letter
    BY DEF Expired
  <1>2. Unexpired(m) \in Letter
    BY DEF Unexpired
  <1>3. Bounced(m, why, b) \in Letter
    BY DEF Bounced
  <1>4. Accepted(m) \in Letter
    BY DEF Accepted
  <1>5. HandedOff(m) \in Letter
    BY DEF HandedOff
  <1>6. GivenUpUnanswered(m) \in Letter
    BY DEF GivenUpUnanswered, Expired
  <1>7. [m EXCEPT !.notice = FALSE] \in Letter
    OBVIOUS
  <1>8. [m EXCEPT !.handoff = SinceOlder(@)] \in Letter
    BY DEF SinceOlder, Older
  <1> QED BY <1>1, <1>2, <1>3, <1>4, <1>5, <1>6, <1>7, <1>8

(* The rows the loop and the Outbox screen leave are well formed, and an item
   that is still to be tried has attempts left. *)
LEMMA ItemRowTypes ==
    ASSUME NEW row \in Item, NEW s \in Snapshot, NEW why \in ItemError
    PROVE  /\ FailedRow(row, s, why) \in Item
           /\ FailedRow(row, s, why).status \in Unresolved =>
                 FailedRow(row, s, why).attempts < MaxAttempts
           /\ PushedRow(row) \in Item
           /\ PushedRow(row).status \notin Unresolved
           /\ CancelledRow(row) \in Item
           /\ CancelledRow(row).status \notin Unresolved
           /\ ReplayedRow(row) \in Item
           /\ ReplayedRow(row).attempts < MaxAttempts
           /\ NoItem \in Item
           /\ NoItem.status \notin Unresolved
  <1>1. s.attempts \in 0 .. MaxAttempts - 1 /\ s.age \in Int
    BY NumbersAssumption DEF Snapshot
  <1> QED BY <1>1, WorkItemRowTypes

(* A snapshot stays one as time passes, and the empty one is one. *)
LEMMA SnapshotTypes ==
    /\ NoSnapshot \in Snapshot
    /\ \A s \in Snapshot : Aged(s) \in Snapshot
  <1>1. NoSnapshot \in Snapshot
    BY LettersAssumption, NumbersAssumption DEF NoSnapshot, Snapshot
  <1>2. ASSUME NEW s \in Snapshot PROVE Aged(s) \in Snapshot
    BY NumbersAssumption DEF Aged, Older, Snapshot
  <1> QED BY <1>1, <1>2

-----------------------------------------------------------------------------
(* Type correctness. *)

(* An item that is still to be tried has attempts left. *)
TriesLeft ==
    \A l \in Letters : items[l].status \in Unresolved =>
                          items[l].attempts < MaxAttempts

TypeInv == TypeOK /\ TriesLeft

LEMMA TypeInit == Init => TypeInv
  <1> SUFFICES ASSUME Init PROVE TypeInv
    OBVIOUS
  <1>1. Unwritten \in Letter /\ NoItem \in Item /\ NoItem.status = "absent"
    BY NumbersAssumption
    DEF Unwritten, Letter, MailStatus, Reason, Never, NoItem, Item, ItemStatus,
        ItemError
  <1>2. NoSnapshot \in Snapshot
    BY SnapshotTypes
  <1>3. NoSysOp \in SysOpState
    BY LettersAssumption, NumbersAssumption DEF NoSysOp, SysOpState
  <1>4. 0 \in 0 .. MaxFaults
    BY TimesAssumption
  <1> QED
    BY <1>1, <1>2, <1>3, <1>4
    DEF Init, TypeInv, TypeOK, TriesLeft, Unresolved, LoopPC, ItemError,
        ShownStatus, Never

(* The steps of the sync loop. *)
LEMMA TypeSync == TypeInv /\ (StartPass \/ SyncStep) => TypeInv'
  <1> SUFFICES ASSUME TypeInv, StartPass \/ SyncStep PROVE TypeInv'
    OBVIOUS
  <1> USE DEF TypeInv, TypeOK, TriesLeft, dbVars, ackVars, historyVars, LoopPC
  <1>0. /\ NoSnapshot \in Snapshot
        /\ cur.letter \in Letters
        /\ \A e \in ItemError, l \in Letters :
              /\ FailedRow(items[l], cur, e) \in Item
              /\ FailedRow(items[l], cur, e).status \in Unresolved =>
                    FailedRow(items[l], cur, e).attempts < MaxAttempts
    BY SnapshotTypes, ItemRowTypes DEF Snapshot
  <1>1. CASE StartPass
    BY <1>1 DEF StartPass, Goto
  <1>2. CASE ExpireUnanswered
    <2>1. \A l \in Letters : GivenUpUnanswered(mail[l]) \in Letter
      BY MailRowTypes DEF Reason
    <2> QED BY <1>2, <2>1 DEF ExpireUnanswered, Goto
  <1>3. CASE WakeHeldItems
    <2>1. \A l \in Letters : /\ WokenRow(items[l]) \in Item
                             /\ WokenRow(items[l]).attempts = items[l].attempts
                             /\ WokenRow(items[l]).status = items[l].status
      BY WaitingRowTypes
    <2> QED BY <1>3, <2>1 DEF WakeHeldItems, Goto
  <1>4. CASE LoadDueItems
    <2>1. todo' \subseteq Snapshot
      BY <1>4, NumbersAssumption DEF LoadDueItems, IsDue, Snapshot, Item
    <2> QED BY <1>4, <2>1 DEF LoadDueItems
  <1>5. CASE EndPass
    BY <1>0, <1>5 DEF EndPass, LeavePass, Continue, ItemError
  <1>6. CASE \E s \in todo : TakeItem(s)
    BY <1>6 DEF TakeItem, Snapshot
  <1>7. CASE SaveOwnLetter
    BY <1>0, <1>7 DEF SaveOwnLetter, Goto
  <1>8. CASE DecidePolicy
    BY <1>8 DEF DecidePolicy, ItemError
  <1>9. CASE \E delivered, refusal, arrived \in BOOLEAN :
                PushDirect(delivered, refusal, arrived)
    BY <1>0, <1>9 DEF PushDirect
  <1>10. CASE \E delivered, arrived \in BOOLEAN : PushRelay(delivered, arrived)
    <2>1. PICK delivered, arrived \in BOOLEAN : PushRelay(delivered, arrived)
      BY <1>10
    <2>2. relayAge' \in [Letters -> {Never} \cup (0 .. NoAnswerTimeout)]
      BY <2>1, <1>0, TimesAssumption DEF PushRelay
    <2>3. error' \in ItemError /\ pc' \in LoopPC
      BY <2>1 DEF PushRelay, ItemError
    <2> QED BY <1>0, <2>1, <2>2, <2>3 DEF PushRelay
  <1>11. CASE RecordRelayHandoff
    <2>1. HandedOff(mail[cur.letter]) \in Letter
      BY <1>0, MailRowTypes DEF Reason
    <2> QED BY <1>0, <1>11, <2>1 DEF RecordRelayHandoff, Goto
  <1>12. CASE RecordRefused
    <2>1. Bounced(mail[cur.letter], "refused", TRUE) \in Letter
      BY <1>0, MailRowTypes DEF Reason
    <2> QED BY <1>0, <1>12, <2>1 DEF RecordRefused, Goto
  <1>13. CASE RecordSuccess
    <2>1. \A l \in Letters : /\ PushedRow(items[l]) \in Item
                             /\ PushedRow(items[l]).status \notin Unresolved
      BY ItemRowTypes
    <2> QED BY <1>13, <2>1 DEF RecordSuccess, Goto
  <1>14. CASE RecordFailure
    BY <1>0, <1>14 DEF RecordFailure, Goto
  <1>15. CASE RereadItem
    BY <1>0, <1>15
    DEF RereadItem, Goto, LeavePass, NextItem, Continue, ItemError
  <1>16. CASE ExpireLetter
    <2>1. \A w \in Reason : Expired(mail[cur.letter], w) \in Letter
      BY <1>0, MailRowTypes
    <2> QED
      BY <1>0, <1>16, <2>1
      DEF ExpireLetter, NextItem, Continue, ItemError, Reason
  <1> QED
    BY <1>1, <1>2, <1>3, <1>4, <1>5, <1>6, <1>7, <1>8, <1>9, <1>10, <1>11,
       <1>12, <1>13, <1>14, <1>15, <1>16
    DEF SyncStep

(* Composing, and the SysOp's operations. *)
LEMMA TypeOperations ==
    TypeInv /\ ((\E l \in Letters : Compose(l)) \/ SysOpStep) => TypeInv'
  <1> SUFFICES ASSUME TypeInv, (\E l \in Letters : Compose(l)) \/ SysOpStep
               PROVE  TypeInv'
    OBVIOUS
  <1> USE DEF TypeInv, TypeOK, TriesLeft, dbVars, ackVars, loopVars,
              historyVars
  <1>0. NoSysOp \in SysOpState
    BY LettersAssumption, NumbersAssumption DEF NoSysOp, SysOpState
  <1>1. CASE \E l \in Letters : Compose(l)
    <2>1. PICK l \in Letters : Compose(l)
      BY <1>1
    <2>2. PICK n \in 1 .. MaxRowId :
             items' = [items EXCEPT ![l] = NewItem(n)]
      BY <2>1 DEF Compose
    <2>3. n \in 0 .. MaxRowId /\ 0 \in 0 .. MaxAttempts /\ 0 < MaxAttempts
          /\ 0 \in 0 .. MaxBackoff /\ 0 \in 0 .. MaxAge + 1
          /\ 0 \in 0 .. NoAnswerTimeout
      BY NumbersAssumption, TimesAssumption
    <2>5. items' \in [Letters -> Item] /\ TriesLeft'
      BY <2>2, <2>3 DEF NewItem, Item, ItemStatus, ItemError
    <2>6. [Unwritten EXCEPT !.status = "pending"] \in Letter
      BY DEF Unwritten, Letter, MailStatus, Reason
    <2> QED BY <2>1, <2>3, <2>5, <2>6 DEF Compose
  <1>2. CASE \E op \in Operation, l \in Letters : SysOpChecks(op, l)
    <2>1. PICK op \in Operation, l \in Letters : SysOpChecks(op, l)
      BY <1>2
    <2>2. sysop' \in SysOpState
      BY <2>1 DEF SysOpChecks, SysOpState, Item
    <2> QED BY <2>1, <2>2 DEF SysOpChecks
  <1>3. CASE SysOpCancels
    <2>1. sysop.letter \in Letters
      BY DEF SysOpState
    <2>2. Expired(mail[sysop.letter], "sysop_cancelled") \in Letter
      BY <2>1, MailRowTypes DEF Reason
    <2>3. \A l \in Letters : /\ CancelledRow(items[l]) \in Item
                             /\ CancelledRow(items[l]).status \notin Unresolved
      BY ItemRowTypes, SnapshotTypes
    <2> QED BY <1>0, <1>3, <2>1, <2>2, <2>3 DEF SysOpCancels
  <1>4. CASE SysOpReplays
    <2>1. sysop.letter \in Letters
      BY DEF SysOpState
    <2>2. Unexpired(mail[sysop.letter]) \in Letter
      BY <2>1, MailRowTypes DEF Reason
    <2>3. \A l \in Letters : /\ ReplayedRow(items[l]) \in Item
                             /\ ReplayedRow(items[l]).attempts < MaxAttempts
      BY ItemRowTypes, SnapshotTypes
    <2>4. pendingAge' \in [Letters -> {Never} \cup (0 .. NoAnswerTimeout)]
      BY <1>4, <2>1, TimesAssumption DEF SysOpReplays
    <2> QED BY <1>0, <1>4, <2>1, <2>2, <2>3, <2>4 DEF SysOpReplays
  <1>5. CASE SysOpDeletes
    <2>1. NoItem \in Item /\ NoItem.status \notin Unresolved
      BY NumbersAssumption DEF NoItem, Item, ItemStatus, ItemError, Unresolved
    <2> QED BY <1>0, <1>5, <2>1 DEF SysOpDeletes
  <1> QED BY <1>1, <1>2, <1>3, <1>4, <1>5 DEF SysOpStep

(* Answers, the main menu, time and faults. *)
LEMMA TypeSurroundings ==
    TypeInv /\ (AnswerStep \/ MenuStep \/ Tick \/ ChangeStanding \/ FaultStep)
        => TypeInv'
  <1> SUFFICES ASSUME TypeInv,
                      AnswerStep \/ MenuStep \/ Tick \/ ChangeStanding
                         \/ FaultStep
               PROVE  TypeInv'
    OBVIOUS
  <1> USE DEF TypeInv, TypeOK, TriesLeft, dbVars, ackVars, loopVars,
              historyVars
  <1>0. NoSnapshot \in Snapshot /\ NoSysOp \in SysOpState
    BY SnapshotTypes, LettersAssumption, NumbersAssumption
    DEF NoSysOp, SysOpState
  <1>1. CASE AnswerStep
    <2>1. CASE \E l \in Letters, kind \in PeerAnswers : AnswerArrives(l, kind)
      BY <2>1, SwitchesAssumption
      DEF AnswerArrives, Answer, AnswerKind, AckJob
    <2>2. CASE \E job \in ackJobs : SaveAnswer(job)
      BY <2>2 DEF SaveAnswer, AckJob
    <2>3. CASE \E job \in ackJobs : ApplyAnswer(job)
      <3>1. PICK job \in ackJobs : ApplyAnswer(job)
        BY <2>3
      <3>2. job.answer[1] \in Letters
        BY DEF AckJob, Answer
      <3>3. /\ Accepted(mail[job.answer[1]]) \in Letter
            /\ Bounced(mail[job.answer[1]], "answered", FALSE) \in Letter
        BY <3>2, MailRowTypes DEF Reason
      <3> QED BY <3>1, <3>2, <3>3 DEF ApplyAnswer
    <2> QED BY <1>1, <2>1, <2>2, <2>3 DEF AnswerStep
  <1>2. CASE MenuStep
    <2>1. CASE ReadNotices
      BY <2>1 DEF ReadNotices, ShownStatus, Letter
    <2>2. CASE AcknowledgeNotices
      <3>1. \A l \in Letters : [mail[l] EXCEPT !.notice = FALSE] \in Letter
        BY MailRowTypes DEF Reason
      <3> QED BY <2>2, <3>1 DEF AcknowledgeNotices, ShownStatus
    <2>3. CASE DropCaller
      BY <2>3 DEF DropCaller, ShownStatus
    <2> QED BY <1>2, <2>1, <2>2, <2>3 DEF MenuStep
  <1>3. CASE Tick
    <2>1. \A l \in Letters : [mail[l] EXCEPT !.handoff = SinceOlder(@)] \in Letter
      BY MailRowTypes DEF Reason
    <2>3. \A l \in Letters : /\ AgedRow(items[l]) \in Item
                             /\ AgedRow(items[l]).attempts = items[l].attempts
                             /\ AgedRow(items[l]).status = items[l].status
      BY WaitingRowTypes
    <2>4. todo' \subseteq Snapshot /\ cur' \in Snapshot
      BY <1>3, SnapshotTypes DEF Tick
    <2>5. \A t \in {Never} \cup (0 .. NoAnswerTimeout) :
             SinceOlder(t) \in {Never} \cup (0 .. NoAnswerTimeout)
      BY TimesAssumption DEF SinceOlder, Older, Never
    <2> QED BY <1>3, <2>1, <2>3, <2>4, <2>5 DEF Tick
  <1>4. CASE ChangeStanding
    BY <1>4 DEF ChangeStanding
  <1>5. CASE FaultStep
    <2>0. faults < MaxFaults => faults + 1 \in 0 .. MaxFaults
      BY TimesAssumption
    <2>1. CASE PassFails
      BY <1>0, <2>0, <2>1
      DEF PassFails, LeavePass, Continue, LoopPC, ItemError
    <2>2. CASE \E job \in ackJobs : AnswerFails(job)
      BY <2>0, <2>2 DEF AnswerFails
    <2>3. CASE CrashAndRestart
      BY <1>0, <2>0, <2>3
      DEF CrashAndRestart, LeavePass, Continue, LoopPC, ItemError, ShownStatus
    <2> QED BY <1>5, <2>1, <2>2, <2>3 DEF FaultStep
  <1> QED BY <1>1, <1>2, <1>3, <1>4, <1>5

LEMMA TypeNext == TypeInv /\ [Next]_vars => TypeInv'
  <1> SUFFICES ASSUME TypeInv, [Next]_vars PROVE TypeInv'
    OBVIOUS
  <1>1. CASE Next
    BY <1>1, TypeSync, TypeOperations, TypeSurroundings DEF Next
  <1>2. CASE UNCHANGED vars
    BY <1>2 DEF vars, TypeInv, TypeOK, TriesLeft
  <1> QED BY <1>1, <1>2

(* Every variable keeps its type: the rows a stale writer leaves behind stay
   within the limits on attempts, back-off and age that the schema and
   record_failure set, for every interleaving of loop, SysOp and faults. *)
THEOREM TypeCorrect == Spec => []TypeOK
  <1>1. TypeInv => TypeOK
    BY DEF TypeInv
  <1> QED BY <1>1, TypeInit, TypeNext, PTL DEF Spec

-----------------------------------------------------------------------------
(* What a step does to one letter. *)

(* The two writers of a flag that only the main menu clears. *)
MarkedShown(m) == [m EXCEPT !.notice = FALSE]
Ticked(m) == [m EXCEPT !.handoff = SinceOlder(@)]

(* A step leaves a letter alone, composes it, or applies one of the UPDATEs
   of netbbs.link.mail; only an acknowledged menu changes what was told. *)
LEMMA LetterSteps ==
    ASSUME TypeInv, [Next]_vars, NEW l \in Letters
    PROVE  \/ /\ told'[l] = told[l]
              /\ \/ mail'[l] = mail[l]
                 \/ /\ Compose(l)
                    /\ mail[l].status = "unsent"
                    /\ mail'[l] = [Unwritten EXCEPT !.status = "pending"]
                 \/ \E why \in Reason : mail'[l] = Expired(mail[l], why)
                 \/ /\ SysOpReplays /\ l = sysop.letter
                    /\ mail'[l] = Unexpired(mail[l])
                 \/ \E why \in Reason, b \in BOOLEAN :
                       mail'[l] = Bounced(mail[l], why, b)
                 \/ mail'[l] = Accepted(mail[l])
                 \/ mail'[l] = HandedOff(mail[l])
                 \/ mail'[l] = GivenUpUnanswered(mail[l])
                 \/ mail'[l] = Ticked(mail[l])
           \/ /\ menu[l] # "no"
              /\ told'[l] = menu[l]
              /\ mail'[l] = MarkedShown(mail[l])
  <1> DEFINE m == mail[l]
  <1> USE DEF TypeInv, TypeOK, dbVars, ackVars, loopVars, historyVars
  <1>0. cur.letter \in Letters /\ sysop.letter \in Letters
    BY DEF Snapshot, SysOpState
  <1>2. CASE mail' = mail /\ told' = told
    BY <1>2
  <1>3. CASE \E k \in Letters : Compose(k)
    <2>1. PICK k \in Letters : Compose(k)
      BY <1>3
    <2>2. CASE k = l
      BY <2>1, <2>2 DEF Compose
    <2>3. CASE k # l
      BY <2>1, <2>3 DEF Compose
    <2> QED BY <2>2, <2>3
  <1>4. CASE ExpireUnanswered
    BY <1>4 DEF ExpireUnanswered
  <1>5. CASE RecordRelayHandoff
    BY <1>0, <1>5 DEF RecordRelayHandoff
  <1>6. CASE RecordRefused
    <2>1. mail'[l] = m \/ mail'[l] = Bounced(m, "refused", TRUE)
      BY <1>0, <1>6 DEF RecordRefused
    <2> QED BY <1>6, <2>1 DEF RecordRefused, Reason
  <1>7. CASE ExpireLetter
    <2>1. \/ mail'[l] = m
          \/ mail'[l] = Expired(m, "own_policy")
          \/ mail'[l] = Expired(m, "none")
      BY <1>0, <1>7 DEF ExpireLetter
    <2> QED BY <1>7, <2>1 DEF ExpireLetter, Reason
  <1>8. CASE \E job \in ackJobs : ApplyAnswer(job)
    <2>1. PICK job \in ackJobs : ApplyAnswer(job)
      BY <1>8
    <2>2. job.answer[1] \in Letters
      BY DEF AckJob, Answer
    <2>3. \/ mail'[l] = m
          \/ mail'[l] = Accepted(m)
          \/ mail'[l] = Bounced(m, "answered", FALSE)
      BY <2>1, <2>2 DEF ApplyAnswer
    <2> QED BY <2>1, <2>3 DEF ApplyAnswer, Reason
  <1>9. CASE SysOpCancels
    <2>1. mail'[l] = m \/ mail'[l] = Expired(m, "sysop_cancelled")
      BY <1>0, <1>9 DEF SysOpCancels
    <2> QED BY <1>9, <2>1 DEF SysOpCancels, Reason
  <1>10. CASE SysOpReplays
    BY <1>0, <1>10 DEF SysOpReplays
  <1>11. CASE AcknowledgeNotices
    BY <1>11 DEF AcknowledgeNotices, MarkedShown
  <1>12. CASE Tick
    BY <1>12 DEF Tick, Ticked
  <1>13. \/ mail' = mail /\ told' = told
         \/ \E k \in Letters : Compose(k)
         \/ ExpireUnanswered \/ RecordRelayHandoff \/ RecordRefused
         \/ ExpireLetter
         \/ \E job \in ackJobs : ApplyAnswer(job)
         \/ SysOpCancels \/ SysOpReplays \/ AcknowledgeNotices \/ Tick
    BY DEF Next, SyncStep, AnswerStep, SysOpStep, MenuStep, FaultStep, vars,
           StartPass, WakeHeldItems, LoadDueItems, EndPass, TakeItem,
           SaveOwnLetter, DecidePolicy, PushDirect, PushRelay, RecordSuccess,
           RecordFailure, RereadItem, AnswerArrives, SaveAnswer, SysOpChecks,
           SysOpDeletes, ReadNotices, DropCaller, ChangeStanding, PassFails,
           AnswerFails, CrashAndRestart
  <1> QED
    BY <1>2, <1>3, <1>4, <1>5, <1>6, <1>7, <1>8, <1>9, <1>10, <1>11, <1>12,
       <1>13

-----------------------------------------------------------------------------
(* Answers are final. *)

(* Only an answer moves a letter once it is delivered or bounced. *)
LEMMA AnsweredRows ==
    ASSUME NEW m \in Letter, NEW why \in Reason, NEW b \in BOOLEAN,
           m.status \in {"delivered", "bounced"}
    PROVE  /\ Expired(m, why) = m
           /\ Unexpired(m) = m
           /\ GivenUpUnanswered(m) = m
           /\ HandedOff(m) = m
           /\ Accepted(m).status = "delivered"
           /\ Bounced(m, why, b).status \in {"delivered", "bounced"}
           /\ MarkedShown(m).status = m.status
           /\ Ticked(m).status = m.status
  <1>1. m.status \notin {"unsent", "pending", "expired"}
    OBVIOUS
  <1>2. Expired(m, why) = m
    BY <1>1 DEF Expired
  <1>3. Unexpired(m) = m
    BY <1>1 DEF Unexpired
  <1>4. GivenUpUnanswered(m) = m
    BY <1>1 DEF GivenUpUnanswered, Expired
  <1>5. HandedOff(m) = m
    BY <1>1 DEF HandedOff
  <1>6. Accepted(m).status = "delivered"
    BY <1>1 DEF Accepted, Letter
  <1>7. Bounced(m, why, b).status \in {"delivered", "bounced"}
    BY DEF Bounced, Letter
  <1>8. MarkedShown(m).status = m.status
    BY DEF MarkedShown, Letter
  <1>9. Ticked(m).status = m.status
    BY DEF Ticked, Letter
  <1> QED BY <1>2, <1>3, <1>4, <1>5, <1>6, <1>7, <1>8, <1>9

LEMMA AnswersFinalStep ==
    ASSUME TypeInv, [Next]_vars, NEW l \in Letters,
           mail[l].status \in {"delivered", "bounced"}
    PROVE  mail'[l].status \in {"delivered", "bounced"}
  <1>1. mail[l] \in Letter /\ "none" \in Reason /\ TRUE \in BOOLEAN
    BY DEF TypeInv, TypeOK, Reason
  <1>2. mail[l].status # "unsent"
    OBVIOUS
  <1>3. \A why \in Reason, b \in BOOLEAN :
           /\ Expired(mail[l], why) = mail[l]
           /\ Unexpired(mail[l]) = mail[l]
           /\ GivenUpUnanswered(mail[l]) = mail[l]
           /\ HandedOff(mail[l]) = mail[l]
           /\ Accepted(mail[l]).status = "delivered"
           /\ Bounced(mail[l], why, b).status \in {"delivered", "bounced"}
           /\ MarkedShown(mail[l]).status = mail[l].status
           /\ Ticked(mail[l]).status = mail[l].status
    BY <1>1, AnsweredRows
  <1> QED BY <1>1, <1>2, <1>3, LetterSteps

(* An answered letter stays answered: expire_link_message_delivery,
   expire_unanswered_relay_mail, record_link_message_refused, cancel and
   replay never take a signed answer back, in any order of arrival. *)
THEOREM AnswersStayFinal == Spec => AnswersAreFinal
  <1>1. TypeInv /\ [Next]_vars =>
           [\A l \in Letters : mail[l].status \in {"delivered", "bounced"} =>
                                  mail'[l].status \in {"delivered", "bounced"}]_vars
    BY AnswersFinalStep
  <1> QED BY <1>1, TypeInit, TypeNext, PTL DEF Spec, AnswersAreFinal

-----------------------------------------------------------------------------
(* Notices. *)

(* What a drawn menu says is a failure. *)
MenuShowsFailures == \A l \in Letters : menu[l] = "no" \/ menu[l] \in Failed

NoticeInv == NoFalseAlarm /\ NeverSilentFailure /\ MenuShowsFailures

(* A row and what its sender was last told, as NoticeInv wants them. *)
NoticeRight(m, shown) ==
    /\ m.notice => m.status \in Failed
    /\ m.status \in Failed /\ ~m.notice => shown \in Failed

LEMMA NoticeRows ==
    ASSUME NEW m \in Letter, NEW why \in Reason, NEW b \in BOOLEAN,
           NEW shown, NoticeRight(m, shown)
    PROVE  /\ NoticeRight(Expired(m, why), shown)
           /\ NoticeRight(Unexpired(m), shown)
           /\ NoticeRight(GivenUpUnanswered(m), shown)
           /\ NoticeRight(HandedOff(m), shown)
           /\ NoticeRight(Accepted(m), shown)
           /\ NoticeRight(Bounced(m, why, b), shown)
           /\ NoticeRight(Ticked(m), shown)
           /\ \A s \in Failed : NoticeRight(MarkedShown(m), s)
  <1> USE DEF NoticeRight, Failed, Letter
  <1>2. NoticeRight(Expired(m, why), shown)
    BY DEF Expired
  <1>3. NoticeRight(Unexpired(m), shown)
    BY DEF Unexpired
  <1>4. NoticeRight(GivenUpUnanswered(m), shown)
    BY DEF GivenUpUnanswered, Expired
  <1>5. NoticeRight(HandedOff(m), shown)
    BY DEF HandedOff
  <1>6. NoticeRight(Accepted(m), shown)
    BY DEF Accepted
  <1>7. NoticeRight(Bounced(m, why, b), shown)
    BY DEF Bounced
  <1>8. \A s \in Failed : NoticeRight(MarkedShown(m), s)
    BY DEF MarkedShown
  <1>9. NoticeRight(Ticked(m), shown)
    BY DEF Ticked
  <1> QED BY <1>2, <1>3, <1>4, <1>5, <1>6, <1>7, <1>8, <1>9

(* What the menu holds changes only when it is read or let go. *)
LEMMA MenuSteps ==
    ASSUME [Next]_vars
    PROVE  \/ menu' = menu
           \/ menu' = [l \in Letters |-> "no"]
           \/ menu' = [l \in Letters |-> IF mail[l].notice THEN mail[l].status
                                         ELSE "no"]
  BY DEF Next, SyncStep, AnswerStep, SysOpStep, MenuStep, FaultStep, vars,
         Compose, ExpireUnanswered, RecordRelayHandoff, RecordRefused,
         ExpireLetter, ApplyAnswer, SysOpCancels, SysOpReplays,
         AcknowledgeNotices, Tick,
         StartPass, WakeHeldItems, LoadDueItems, EndPass, TakeItem,
         SaveOwnLetter, DecidePolicy, PushDirect, PushRelay, RecordSuccess,
         RecordFailure, RereadItem, AnswerArrives, SaveAnswer, SysOpChecks,
         SysOpDeletes, ReadNotices, DropCaller, ChangeStanding, PassFails,
         AnswerFails, CrashAndRestart

LEMMA NoticeNext == TypeInv /\ NoticeInv /\ [Next]_vars => NoticeInv'
  <1> SUFFICES ASSUME TypeInv, NoticeInv, [Next]_vars PROVE NoticeInv'
    OBVIOUS
  <1>1. ASSUME NEW l \in Letters PROVE NoticeRight(mail'[l], told'[l])
    <2>1. mail[l] \in Letter /\ "none" \in Reason /\ TRUE \in BOOLEAN
      BY DEF TypeInv, TypeOK, Reason
    <2>2. NoticeRight(mail[l], told[l])
      BY DEF NoticeInv, NoFalseAlarm, NeverSilentFailure, NoticeRight
    <2>3. NoticeRight([Unwritten EXCEPT !.status = "pending"], told[l])
      BY DEF NoticeRight, Unwritten, Failed
    <2>4. menu[l] # "no" => menu[l] \in Failed
      BY DEF NoticeInv, MenuShowsFailures
    <2> HIDE DEF NoticeRight
    <2> QED BY <2>1, <2>2, <2>3, <2>4, LetterSteps, NoticeRows
  <1>2. MenuShowsFailures'
    BY MenuSteps DEF NoticeInv, MenuShowsFailures, NoFalseAlarm
  <1> QED
    BY <1>1, <1>2
    DEF NoticeInv, NoFalseAlarm, NeverSilentFailure, NoticeRight

LEMMA NoticeInit == Init => NoticeInv
  BY DEF Init, NoticeInv, NoFalseAlarm, NeverSilentFailure, MenuShowsFailures,
         Unwritten, Failed

LEMMA NoticesAlways == Spec => []NoticeInv
  BY TypeInit, TypeNext, NoticeInit, NoticeNext, PTL DEF Spec

(* A pending notice is about a failed letter, for every number of letters and
   every interleaving of answers, expiries, replays, menus, crashes and
   errors. *)
THEOREM NoticesAreRight == Spec => []NoFalseAlarm
  <1>1. NoticeInv => NoFalseAlarm
    BY DEF NoticeInv
  <1> QED BY <1>1, NoticesAlways, PTL

(* A failed letter has a notice or was shown as failed, under the same
   conditions (pending_delivery_notices, acknowledge_delivery_notices). *)
THEOREM FailuresAreTold == Spec => []NeverSilentFailure
  <1>1. NoticeInv => NeverSilentFailure
    BY DEF NoticeInv
  <1> QED BY <1>1, NoticesAlways, PTL

-----------------------------------------------------------------------------
(* Registration. *)

(* Without lane errors, what is in node.events is in link_events too, except
   the one letter whose save_event the loop is about to await; and a letter is
   pushed only after that. *)
RegistrationInv ==
    /\ stored \subseteq known
    /\ handed \subseteq stored
    /\ known \subseteq IF pc = "save" THEN stored \cup {cur.letter} ELSE stored
    /\ pc = "save" => cur.letter \in known
    /\ pc \in {"policy", "direct", "relay"} => cur.letter \in stored

LEMMA RegistrationInit == Init => RegistrationInv
  BY DEF Init, RegistrationInv

LEMMA RegistrationNext ==
    ASSUME ~LaneErrors
    PROVE  TypeInv /\ RegistrationInv /\ [Next]_vars => RegistrationInv'
  <1> SUFFICES ASSUME TypeInv, RegistrationInv, [Next]_vars
               PROVE  RegistrationInv'
    OBVIOUS
  <1> USE DEF RegistrationInv, dbVars, ackVars, loopVars, historyVars
  <1>1. CASE UNCHANGED <<stored, known, handed, pc, cur>>
    BY <1>1
  <1>2. CASE SyncStep
    <2>1. CASE \E s \in todo : TakeItem(s)
      BY <2>1 DEF TakeItem
    <2>2. CASE SaveOwnLetter
      BY <2>2 DEF SaveOwnLetter, Goto
    <2>3. CASE DecidePolicy
      BY <2>3 DEF DecidePolicy
    <2>4. CASE \E delivered, refusal, arrived \in BOOLEAN :
                  PushDirect(delivered, refusal, arrived)
      BY <2>4 DEF PushDirect
    <2>5. CASE \E delivered, arrived \in BOOLEAN : PushRelay(delivered, arrived)
      BY <2>5 DEF PushRelay
    <2>6. CASE \/ ExpireUnanswered \/ WakeHeldItems \/ LoadDueItems \/ EndPass
               \/ RecordRelayHandoff \/ RecordRefused \/ RecordSuccess
               \/ RecordFailure \/ RereadItem \/ ExpireLetter
      BY <2>6
      DEF ExpireUnanswered, WakeHeldItems, LoadDueItems, EndPass,
          RecordRelayHandoff, RecordRefused, RecordSuccess, RecordFailure,
          RereadItem, ExpireLetter, Goto, LeavePass, NextItem, Continue
    <2> QED BY <1>2, <2>1, <2>2, <2>3, <2>4, <2>5, <2>6 DEF SyncStep
  <1>3. CASE StartPass
    BY <1>3 DEF StartPass, Goto
  <1>4. CASE Tick
    <2>1. cur'.letter = cur.letter
      BY <1>4 DEF Tick, Aged, TypeInv, TypeOK, Snapshot
    <2> QED BY <1>4, <2>1 DEF Tick
  <1>5. CASE CrashAndRestart
    BY <1>5 DEF CrashAndRestart, LeavePass, Continue
  <1>6. \/ UNCHANGED <<stored, known, handed, pc, cur>>
        \/ SyncStep \/ StartPass \/ Tick \/ CrashAndRestart
    BY DEF Next, AnswerStep, SysOpStep, MenuStep, FaultStep, vars, Compose,
           ApplyAnswer, SysOpCancels, SysOpReplays, AcknowledgeNotices,
           AnswerArrives, SaveAnswer, SysOpChecks, SysOpDeletes, ReadNotices,
           DropCaller, ChangeStanding, PassFails, AnswerFails
  <1> QED BY <1>1, <1>2, <1>3, <1>4, <1>5, <1>6

(* While no lane job raises, every letter that left the node is one whose
   answer the node will recognise, across any number of crashes and restarts:
   the order register, save_event, push in _push_pending_link_mail suffices. *)
THEOREM HandedStaysRegistered ==
    ASSUME ~LaneErrors
    PROVE  Spec => []HandedIsRegistered
  <1>1. RegistrationInv => HandedIsRegistered
    BY DEF RegistrationInv, HandedIsRegistered
  <1> QED
    BY <1>1, TypeInit, TypeNext, RegistrationInit, RegistrationNext, PTL
    DEF Spec

-----------------------------------------------------------------------------
(* Cancelled items. *)

(* WHERE id = ? names at most one row. *)
UniqueIds ==
    \A l, k \in Letters : Present(l) /\ HasId(k, items[l].id) => l = k

(* Only the SysOp deletes rows, so the row the SysOp has checked is there, and
   is still the row of the letter it named, when the SysOp writes. *)
CheckedRowStays == sysop.op \in Operation => HasId(sysop.letter, sysop.id)

(* A letter that is not composed yet has no row. *)
UnsentHasNoRow ==
    \A l \in Letters : mail[l].status = "unsent" => ~Present(l)

CancelInv ==
    CancelledIsNotPending /\ UniqueIds /\ CheckedRowStays /\ UnsentHasNoRow

(* What a step of anyone but the composer and the SysOp does to a row. *)
LoopRowStep(l) ==
    /\ items'[l].id = items[l].id
    /\ items'[l].status = "absent" <=> items[l].status = "absent"
    /\ items'[l].status = "cancelled" => items[l].status = "cancelled"

LEMMA LoopRowSteps ==
    ASSUME TypeInv, [Next]_vars, ~SysOpStep, ~ \E k \in Letters : Compose(k)
    PROVE  /\ \A l \in Letters : LoopRowStep(l)
           /\ sysop' = sysop \/ sysop' = NoSysOp
  <1> USE DEF TypeInv, TypeOK, dbVars, ackVars, loopVars, historyVars
  <1>1. CASE UNCHANGED <<items, sysop>>
    BY <1>1 DEF LoopRowStep
  <1>2. CASE WakeHeldItems
    BY <1>2, WaitingRowTypes DEF WakeHeldItems, LoopRowStep
  <1>3. CASE RecordSuccess
    BY <1>3 DEF RecordSuccess, PushedRow, LoopRowStep, HasId, Present, Item
  <1>4. CASE RecordFailure
    BY <1>4 DEF RecordFailure, FailedRow, LoopRowStep, HasId, Present, Item
  <1>5. CASE Tick
    BY <1>5, WaitingRowTypes DEF Tick, LoopRowStep, Present
  <1>6. CASE CrashAndRestart
    BY <1>6 DEF CrashAndRestart, LoopRowStep
  <1>7. \/ UNCHANGED <<items, sysop>>
        \/ WakeHeldItems \/ RecordSuccess \/ RecordFailure \/ Tick
        \/ CrashAndRestart
    BY DEF Next, SyncStep, AnswerStep, SysOpStep, MenuStep, FaultStep, vars,
           ExpireUnanswered, RecordRelayHandoff, RecordRefused, ExpireLetter,
           ApplyAnswer, AcknowledgeNotices, StartPass, LoadDueItems, EndPass,
           TakeItem, SaveOwnLetter, DecidePolicy, PushDirect, PushRelay,
           RereadItem, AnswerArrives, SaveAnswer, ReadNotices, DropCaller,
           ChangeStanding, PassFails, AnswerFails
  <1> QED BY <1>1, <1>2, <1>3, <1>4, <1>5, <1>6, <1>7

(* Only composing and replaying make a letter pending. *)
LEMMA PendingSteps ==
    ASSUME TypeInv, [Next]_vars, NEW l \in Letters,
           mail'[l].status = "pending"
    PROVE  \/ mail[l].status = "pending"
           \/ Compose(l)
           \/ SysOpReplays /\ l = sysop.letter
  <1>1. mail[l] \in Letter /\ "none" \in Reason /\ TRUE \in BOOLEAN
    BY DEF TypeInv, TypeOK, Reason
  <1>2. ASSUME NEW m \in Letter, NEW why \in Reason, NEW b \in BOOLEAN
        PROVE  /\ Expired(m, why).status # "pending"
               /\ Accepted(m).status # "pending"
               /\ Bounced(m, why, b).status = "pending" => m.status = "pending"
               /\ HandedOff(m).status = m.status
               /\ GivenUpUnanswered(m).status = "pending" => m.status = "pending"
               /\ Ticked(m).status = m.status
               /\ MarkedShown(m).status = m.status
    <2>1. Expired(m, why).status # "pending"
      BY DEF Expired, Letter
    <2>2. Accepted(m).status # "pending"
      BY DEF Accepted, Letter
    <2>3. Bounced(m, why, b).status = "pending" => m.status = "pending"
      BY DEF Bounced, Letter
    <2>4. HandedOff(m).status = m.status
      BY DEF HandedOff, Letter
    <2>5. GivenUpUnanswered(m).status = "pending" => m.status = "pending"
      BY DEF GivenUpUnanswered, Expired, Letter
    <2>6. Ticked(m).status = m.status /\ MarkedShown(m).status = m.status
      BY DEF Ticked, MarkedShown, Letter
    <2> QED BY <2>1, <2>2, <2>3, <2>4, <2>5, <2>6
  <1>3. \A why \in Reason, b \in BOOLEAN :
           /\ Expired(mail[l], why).status # "pending"
           /\ Accepted(mail[l]).status # "pending"
           /\ Bounced(mail[l], why, b).status = "pending" =>
                 mail[l].status = "pending"
           /\ HandedOff(mail[l]).status = mail[l].status
           /\ GivenUpUnanswered(mail[l]).status = "pending" =>
                 mail[l].status = "pending"
           /\ Ticked(mail[l]).status = mail[l].status
           /\ MarkedShown(mail[l]).status = mail[l].status
    BY <1>1, <1>2
  <1> QED BY <1>1, <1>3, LetterSteps

(* No statement on mail_messages brings a letter back to unsent. *)
LEMMA UnsentSteps ==
    ASSUME TypeInv, [Next]_vars, NEW l \in Letters, mail'[l].status = "unsent"
    PROVE  mail[l].status = "unsent" /\ ~Compose(l)
  <1>1. mail[l] \in Letter /\ "none" \in Reason /\ TRUE \in BOOLEAN
    BY DEF TypeInv, TypeOK, Reason
  <1>2. ASSUME NEW m \in Letter, NEW why \in Reason, NEW b \in BOOLEAN,
               m.status # "unsent"
        PROVE  /\ Expired(m, why).status # "unsent"
               /\ Unexpired(m).status # "unsent"
               /\ Accepted(m).status # "unsent"
               /\ Bounced(m, why, b).status # "unsent"
               /\ HandedOff(m).status # "unsent"
               /\ GivenUpUnanswered(m).status # "unsent"
               /\ Ticked(m).status # "unsent"
               /\ MarkedShown(m).status # "unsent"
    <2> USE <1>2 DEF Letter
    <2>1. Expired(m, why).status # "unsent"
      BY DEF Expired
    <2>2. Accepted(m).status # "unsent"
      BY DEF Accepted
    <2>3. Bounced(m, why, b).status # "unsent"
      BY DEF Bounced
    <2>4. HandedOff(m).status # "unsent"
      BY DEF HandedOff
    <2>5. GivenUpUnanswered(m).status # "unsent"
      BY DEF GivenUpUnanswered, Expired
    <2>6. Ticked(m).status # "unsent" /\ MarkedShown(m).status # "unsent"
      BY DEF Ticked, MarkedShown
    <2>7. Unexpired(m).status # "unsent"
      BY DEF Unexpired
    <2> QED BY <2>1, <2>2, <2>3, <2>4, <2>5, <2>6, <2>7
  <1>3. mail[l].status # "unsent" =>
           \A why \in Reason, b \in BOOLEAN :
              /\ Expired(mail[l], why).status # "unsent"
              /\ Unexpired(mail[l]).status # "unsent"
              /\ Accepted(mail[l]).status # "unsent"
              /\ Bounced(mail[l], why, b).status # "unsent"
              /\ HandedOff(mail[l]).status # "unsent"
              /\ GivenUpUnanswered(mail[l]).status # "unsent"
              /\ Ticked(mail[l]).status # "unsent"
              /\ MarkedShown(mail[l]).status # "unsent"
    BY <1>1, <1>2
  <1>4. [Unwritten EXCEPT !.status = "pending"].status # "unsent"
    BY DEF Unwritten
  <1>5. ~Compose(l)
    BY <1>4 DEF Compose, TypeInv, TypeOK
  <1> QED BY <1>1, <1>3, <1>5, LetterSteps

LEMMA CancelInit == Init => CancelInv
  BY DEF Init, CancelInv, CancelledIsNotPending, UniqueIds, CheckedRowStays,
         UnsentHasNoRow, Present, HasId, NoItem, NoSysOp, Operation

LEMMA CancelCompose ==
    ASSUME TypeInv, CancelInv, NEW l \in Letters, Compose(l)
    PROVE  CancelInv'
  <1> USE DEF TypeInv, TypeOK
  <1>1. PICK n \in 1 .. MaxRowId :
           IsNextRowId(n) /\ items' = [items EXCEPT ![l] = NewItem(n)]
    BY DEF Compose
  <1>2. \A k \in Letters : k # l => mail'[k] = mail[k] /\ items'[k] = items[k]
    BY <1>1 DEF Compose
  <1>3. items'[l].id = n /\ items'[l].status = "pending"
    BY <1>1 DEF NewItem
  <1>4. \A k \in Letters : Present(k) => items[k].id \in Int /\ items[k].id # n
    BY <1>1, NumbersAssumption DEF IsNextRowId, Item
  <1>5. CancelledIsNotPending'
    BY <1>2, <1>3 DEF CancelInv, CancelledIsNotPending
  <1>6. UniqueIds'
    BY <1>2, <1>3, <1>4 DEF CancelInv, UniqueIds, Present, HasId
  <1>7. CheckedRowStays'
    <2>1. sysop' = sysop
      BY DEF Compose
    <2>2. ASSUME sysop.op \in Operation PROVE HasId(sysop.letter, sysop.id)'
      <3>1. HasId(sysop.letter, sysop.id) /\ sysop.letter \in Letters
        BY <2>2 DEF CancelInv, CheckedRowStays, SysOpState
      <3>2. CASE sysop.letter # l
        BY <1>2, <2>1, <3>1, <3>2 DEF HasId, Present
      <3>3. CASE sysop.letter = l
        BY <3>1, <3>3 DEF CancelInv, UnsentHasNoRow, HasId, Compose
      <3> QED BY <3>2, <3>3
    <2> QED BY <2>1, <2>2 DEF CheckedRowStays
  <1>8. UnsentHasNoRow'
    <2>1. mail'[l].status = "pending"
      BY DEF Compose, Unwritten
    <2> QED BY <1>2, <2>1 DEF CancelInv, UnsentHasNoRow, Present
  <1> QED BY <1>5, <1>6, <1>7, <1>8 DEF CancelInv

LEMMA CancelSysOp ==
    ASSUME TypeInv, CancelInv, SysOpStep
    PROVE  CancelInv'
  <1> USE DEF TypeInv, TypeOK
  <1> DEFINE k == sysop.letter
  <1>0. k \in Letters
    BY DEF SysOpState
  <1>1. CASE \E op \in Operation, l \in Letters : SysOpChecks(op, l)
    <2>1. PICK op \in Operation, l \in Letters : SysOpChecks(op, l)
      BY <1>1
    <2>2. items' = items /\ mail' = mail
      BY <2>1 DEF SysOpChecks, dbVars
    <2>3. HasId(l, items[l].id) /\ sysop'.letter = l /\ sysop'.id = items[l].id
      BY <2>1 DEF SysOpChecks, HasId
    <2> QED
      BY <2>2, <2>3
      DEF CancelInv, CancelledIsNotPending, UniqueIds, CheckedRowStays,
          UnsentHasNoRow, HasId, Present
  <1>2. ASSUME sysop.op \in Operation
        PROVE  \A l \in Letters : HasId(l, sysop.id) <=> l = k
    BY <1>0, <1>2 DEF CancelInv, UniqueIds, CheckedRowStays, HasId
  <1>3. sysop' = NoSysOp => CheckedRowStays'
    BY DEF CheckedRowStays, NoSysOp, Operation
  <1>4. CASE SysOpCancels
    <2>1. /\ \A l \in Letters : HasId(l, sysop.id) <=> l = k
          /\ HasId(k, sysop.id)
      BY <1>0, <1>2, <1>4 DEF SysOpCancels, Operation
    <2>2. /\ items'[k] = CancelledRow(items[k])
          /\ mail'[k] = Expired(mail[k], "sysop_cancelled")
          /\ \A l \in Letters : l # k => items'[l] = items[l] /\ mail'[l] = mail[l]
      BY <1>0, <1>4, <2>1 DEF SysOpCancels
    <2>3. items'[k].id = items[k].id /\ items'[k].status = "cancelled"
      BY <1>0, <2>2 DEF CancelledRow, Item
    <2>4. mail'[k].status \notin {"pending", "unsent"}
      BY <1>0, <2>1, <2>2
      DEF Expired, Letter, CancelInv, UnsentHasNoRow, HasId
    <2> QED
      BY <1>0, <1>3, <1>4, <2>1, <2>2, <2>3, <2>4
      DEF SysOpCancels, CancelInv, CancelledIsNotPending, UniqueIds,
          UnsentHasNoRow, HasId, Present
  <1>5. CASE SysOpReplays
    <2>1. /\ \A l \in Letters : HasId(l, sysop.id) <=> l = k
          /\ HasId(k, sysop.id)
      BY <1>0, <1>2, <1>5 DEF SysOpReplays, Operation
    <2>2. /\ items'[k] = ReplayedRow(items[k])
          /\ mail'[k] = Unexpired(mail[k])
          /\ \A l \in Letters : l # k => items'[l] = items[l] /\ mail'[l] = mail[l]
      BY <1>0, <1>5, <2>1 DEF SysOpReplays
    <2>3. items'[k].id = items[k].id /\ items'[k].status = "pending"
      BY <1>0, <2>2 DEF ReplayedRow, Item
    <2>4. mail'[k].status # "unsent"
      BY <1>0, <2>1, <2>2
      DEF Unexpired, Letter, CancelInv, UnsentHasNoRow, HasId
    <2> QED
      BY <1>0, <1>3, <1>5, <2>1, <2>2, <2>3, <2>4
      DEF SysOpReplays, CancelInv, CancelledIsNotPending, UniqueIds,
          UnsentHasNoRow, HasId, Present
  <1>6. CASE SysOpDeletes
    <2>1. /\ \A l \in Letters : HasId(l, sysop.id) <=> l = k
          /\ HasId(k, sysop.id)
      BY <1>0, <1>2, <1>6 DEF SysOpDeletes, Operation
    <2>2. /\ items'[k] = NoItem
          /\ mail' = mail
          /\ \A l \in Letters : l # k => items'[l] = items[l]
      BY <1>0, <1>6, <2>1 DEF SysOpDeletes
    <2>3. items'[k].status = "absent"
      BY <2>2 DEF NoItem
    <2> QED
      BY <1>0, <1>3, <1>6, <2>1, <2>2, <2>3
      DEF SysOpDeletes, CancelInv, CancelledIsNotPending, UniqueIds,
          UnsentHasNoRow, HasId, Present
  <1> QED BY <1>1, <1>4, <1>5, <1>6 DEF SysOpStep

LEMMA CancelNext == TypeInv /\ CancelInv /\ [Next]_vars => CancelInv'
  <1> SUFFICES ASSUME TypeInv, CancelInv, [Next]_vars PROVE CancelInv'
    OBVIOUS
  <1>1. CASE \E l \in Letters : Compose(l)
    BY <1>1, CancelCompose
  <1>2. CASE SysOpStep
    BY <1>2, CancelSysOp
  <1>3. CASE ~SysOpStep /\ ~ \E l \in Letters : Compose(l)
    <2>1. /\ \A l \in Letters : LoopRowStep(l)
          /\ sysop' = sysop \/ sysop' = NoSysOp
      BY <1>3, LoopRowSteps
    <2>2. \A l \in Letters : mail'[l].status = "pending" =>
                               mail[l].status = "pending"
      BY <1>3, PendingSteps DEF SysOpStep
    <2>3. \A l \in Letters : mail'[l].status = "unsent" =>
                               mail[l].status = "unsent"
      BY UnsentSteps
    <2>4. CancelledIsNotPending'
      BY <2>1, <2>2 DEF CancelInv, CancelledIsNotPending, LoopRowStep
    <2>5. UniqueIds'
      BY <2>1 DEF CancelInv, UniqueIds, LoopRowStep, Present, HasId
    <2>6. UnsentHasNoRow'
      BY <2>1, <2>3 DEF CancelInv, UnsentHasNoRow, LoopRowStep, Present
    <2>7. CheckedRowStays'
      <3>1. sysop.letter \in Letters
        BY DEF TypeInv, TypeOK, SysOpState
      <3> QED
        BY <2>1, <3>1
        DEF CancelInv, CheckedRowStays, LoopRowStep, Present, HasId, NoSysOp,
            Operation
    <2> QED BY <2>4, <2>5, <2>6, <2>7 DEF CancelInv
  <1> QED BY <1>1, <1>2, <1>3

(* cancel_work_item never leaves a cancelled item beside a pending letter,
   although it reads and writes in two steps and writes by a rowid that SQLite
   gives again: the checked row cannot go or change its letter meanwhile. *)
THEOREM CancelledNeverPending == Spec => []CancelledIsNotPending
  <1>1. CancelInv => CancelledIsNotPending
    BY DEF CancelInv
  <1> QED BY <1>1, TypeInit, TypeNext, CancelInit, CancelNext, PTL DEF Spec

-----------------------------------------------------------------------------
(* The no-answer time-out. *)

(* A letter's row, the time since a relay first had it and the time it has been
   pending: its handoff is no older than either. *)
ClockRight(m, relayed, pended) ==
    /\ m.handoff <= relayed /\ m.handoff <= pended
    /\ m.status = "pending" => pended # Never
    /\ m.status = "expired" /\ m.reason = "no_answer" =>
          relayed = NoAnswerTimeout /\ pended = NoAnswerTimeout

ClockInv ==
    /\ \A l \in Letters : ClockRight(mail[l], relayAge[l], pendingAge[l])
    /\ pc = "handoff" => relayAge[cur.letter] # Never

Ages == {Never} \cup (0 .. NoAnswerTimeout)

(* No UPDATE but a handoff and a time-out touches what the clocks are about. *)
LEMMA ClockRows ==
    ASSUME NEW m \in Letter, NEW why \in Reason, NEW b \in BOOLEAN,
           NEW r \in Ages, NEW q \in Ages, ClockRight(m, r, q)
    PROVE  /\ why # "no_answer" => ClockRight(Expired(m, why), r, q)
           /\ ClockRight(Bounced(m, why, b), r, q)
           /\ ClockRight(Accepted(m), r, q)
           /\ ClockRight(MarkedShown(m), r, q)
           /\ r # Never => ClockRight(HandedOff(m), r, q)
           /\ ClockRight(GivenUpUnanswered(m), r, q)
           /\ ClockRight(Ticked(m), SinceOlder(r), SinceOlder(q))
           /\ r = Never => ClockRight(m, 0, q)
           /\ m.status = "expired" => ClockRight(Unexpired(m), r, 0)
           /\ m.status # "expired" => ClockRight(Unexpired(m), r, q)
  <1> USE TimesAssumption DEF ClockRight, Letter, Ages, Never
  <1>1. why # "no_answer" => ClockRight(Expired(m, why), r, q)
    BY DEF Expired
  <1>2. ClockRight(Bounced(m, why, b), r, q)
    BY DEF Bounced
  <1>3. ClockRight(Accepted(m), r, q)
    BY DEF Accepted
  <1>4. ClockRight(MarkedShown(m), r, q)
    BY DEF MarkedShown
  <1>5. r # Never => ClockRight(HandedOff(m), r, q)
    BY DEF HandedOff
  <1>6. ClockRight(GivenUpUnanswered(m), r, q)
    BY DEF GivenUpUnanswered, Expired
  <1>7. ClockRight(Ticked(m), SinceOlder(r), SinceOlder(q))
    <2>1. /\ SinceOlder(m.handoff) <= SinceOlder(r)
          /\ SinceOlder(m.handoff) <= SinceOlder(q)
      BY DEF SinceOlder, Older
    <2>2. /\ q # Never => SinceOlder(q) # Never
          /\ r = NoAnswerTimeout => SinceOlder(r) = NoAnswerTimeout
          /\ q = NoAnswerTimeout => SinceOlder(q) = NoAnswerTimeout
      BY DEF SinceOlder, Older
    <2>3. /\ Ticked(m).handoff = SinceOlder(m.handoff)
          /\ Ticked(m).status = m.status /\ Ticked(m).reason = m.reason
      BY DEF Ticked
    <2> QED BY <2>1, <2>2, <2>3
  <1>8. r = Never => ClockRight(m, 0, q)
    OBVIOUS
  <1>9. m.status = "expired" => ClockRight(Unexpired(m), r, 0)
    BY DEF Unexpired
  <1>10. m.status # "expired" => ClockRight(Unexpired(m), r, q)
    BY DEF Unexpired
  <1> QED BY <1>1, <1>2, <1>3, <1>4, <1>5, <1>6, <1>7, <1>8, <1>9, <1>10

(* What a step does to a letter and its clocks. *)
LEMMA ClockSteps ==
    ASSUME TypeInv, [Next]_vars, NEW l \in Letters
    PROVE  \/ /\ UNCHANGED <<relayAge[l], pendingAge[l]>>
              /\ \/ mail'[l] = mail[l]
                 \/ \E why \in Reason \ {"no_answer"} :
                       mail'[l] = Expired(mail[l], why)
                 \/ \E why \in Reason, b \in BOOLEAN :
                       mail'[l] = Bounced(mail[l], why, b)
                 \/ mail'[l] = Accepted(mail[l])
                 \/ mail'[l] = MarkedShown(mail[l])
                 \/ mail'[l] = GivenUpUnanswered(mail[l])
                 \/ /\ pc = "handoff" /\ l = cur.letter
                    /\ mail'[l] = HandedOff(mail[l])
           \/ /\ mail'[l] = mail[l] /\ pendingAge'[l] = pendingAge[l]
              /\ relayAge[l] = Never /\ relayAge'[l] = 0
           \/ /\ mail'[l] = [Unwritten EXCEPT !.status = "pending"]
              /\ relayAge'[l] = relayAge[l] /\ pendingAge'[l] = 0
           \/ /\ mail'[l] = Unexpired(mail[l]) /\ relayAge'[l] = relayAge[l]
              /\ pendingAge'[l] = IF mail[l].status = "expired" THEN 0
                                  ELSE pendingAge[l]
           \/ /\ mail'[l] = Ticked(mail[l])
              /\ relayAge'[l] = SinceOlder(relayAge[l])
              /\ pendingAge'[l] = SinceOlder(pendingAge[l])
  <1> DEFINE m == mail[l]
  <1> USE DEF TypeInv, TypeOK, dbVars, ackVars, loopVars, historyVars
  <1>0. cur.letter \in Letters /\ sysop.letter \in Letters
    BY DEF Snapshot, SysOpState
  <1>1. CASE UNCHANGED <<mail, relayAge, pendingAge>>
    BY <1>1
  <1>2. CASE \E k \in Letters : Compose(k)
    <2>1. PICK k \in Letters : Compose(k)
      BY <1>2
    <2>2. CASE k = l
      BY <2>1, <2>2 DEF Compose
    <2>3. CASE k # l
      BY <2>1, <2>3 DEF Compose
    <2> QED BY <2>2, <2>3
  <1>3. CASE ExpireUnanswered
    BY <1>3 DEF ExpireUnanswered
  <1>4. CASE \E delivered, arrived \in BOOLEAN : PushRelay(delivered, arrived)
    BY <1>0, <1>4 DEF PushRelay
  <1>5. CASE RecordRelayHandoff
    BY <1>0, <1>5 DEF RecordRelayHandoff
  <1>6. CASE RecordRefused
    <2>1. mail'[l] = m \/ mail'[l] = Bounced(m, "refused", TRUE)
      BY <1>0, <1>6 DEF RecordRefused
    <2> QED BY <1>6, <2>1 DEF RecordRefused, Reason
  <1>7. CASE ExpireLetter
    <2>1. \/ mail'[l] = m
          \/ mail'[l] = Expired(m, "own_policy")
          \/ mail'[l] = Expired(m, "none")
      BY <1>0, <1>7 DEF ExpireLetter
    <2> QED BY <1>7, <2>1 DEF ExpireLetter, Reason
  <1>8. CASE \E job \in ackJobs : ApplyAnswer(job)
    <2>1. PICK job \in ackJobs : ApplyAnswer(job)
      BY <1>8
    <2>2. job.answer[1] \in Letters
      BY DEF AckJob, Answer
    <2>3. \/ mail'[l] = m
          \/ mail'[l] = Accepted(m)
          \/ mail'[l] = Bounced(m, "answered", FALSE)
      BY <2>1, <2>2 DEF ApplyAnswer
    <2> QED BY <2>1, <2>3 DEF ApplyAnswer, Reason
  <1>9. CASE SysOpCancels
    <2>1. mail'[l] = m \/ mail'[l] = Expired(m, "sysop_cancelled")
      BY <1>0, <1>9 DEF SysOpCancels
    <2> QED BY <1>9, <2>1 DEF SysOpCancels, Reason
  <1>10. CASE SysOpReplays
    <2>1. CASE l = sysop.letter
      BY <1>10, <2>1 DEF SysOpReplays
    <2>2. CASE l # sysop.letter
      BY <1>0, <1>10, <2>2 DEF SysOpReplays
    <2> QED BY <2>1, <2>2
  <1>11. CASE AcknowledgeNotices
    BY <1>11 DEF AcknowledgeNotices, MarkedShown
  <1>12. CASE Tick
    BY <1>12 DEF Tick, Ticked
  <1>13. \/ UNCHANGED <<mail, relayAge, pendingAge>>
         \/ \E k \in Letters : Compose(k)
         \/ ExpireUnanswered \/ RecordRelayHandoff \/ RecordRefused
         \/ ExpireLetter
         \/ \E delivered, arrived \in BOOLEAN : PushRelay(delivered, arrived)
         \/ \E job \in ackJobs : ApplyAnswer(job)
         \/ SysOpCancels \/ SysOpReplays \/ AcknowledgeNotices \/ Tick
    BY DEF Next, SyncStep, AnswerStep, SysOpStep, MenuStep, FaultStep, vars,
           StartPass, WakeHeldItems, LoadDueItems, EndPass, TakeItem,
           SaveOwnLetter, DecidePolicy, PushDirect, RecordSuccess,
           RecordFailure, RereadItem, AnswerArrives, SaveAnswer, SysOpChecks,
           SysOpDeletes, ReadNotices, DropCaller, ChangeStanding, PassFails,
           AnswerFails, CrashAndRestart
  <1> QED
    BY <1>1, <1>2, <1>3, <1>4, <1>5, <1>6, <1>7, <1>8, <1>9, <1>10, <1>11,
       <1>12, <1>13

(* The loop records a handoff only of a letter a relay has taken. *)
LEMMA HandoffSteps ==
    ASSUME TypeInv, [Next]_vars, pc' = "handoff",
           pc = "handoff" => relayAge[cur.letter] # Never
    PROVE  relayAge'[cur'.letter] # Never
  <1> USE DEF TypeInv, TypeOK, dbVars, ackVars, loopVars, historyVars
  <1>0. cur.letter \in Letters /\ Never # 0
    BY DEF Snapshot, Never
  <1>1. CASE UNCHANGED <<pc, cur, relayAge>>
    BY <1>1
  <1>2. CASE \E delivered, arrived \in BOOLEAN : PushRelay(delivered, arrived)
    BY <1>0, <1>2 DEF PushRelay
  <1>3. CASE Tick
    <2>1. cur'.letter = cur.letter
      BY <1>3 DEF Tick, Aged, Snapshot
    <2>2. \A t \in Ages \ {Never} : SinceOlder(t) # Never
      BY TimesAssumption DEF Ages, SinceOlder, Older, Never
    <2>3. relayAge[cur.letter] \in Ages \ {Never}
      BY <1>0, <1>3 DEF Ages, Tick
    <2>4. relayAge'[cur.letter] = SinceOlder(relayAge[cur.letter])
      BY <1>0, <1>3 DEF Tick
    <2> QED BY <2>1, <2>2, <2>3, <2>4
  <1>4. \/ UNCHANGED <<pc, cur, relayAge>>
        \/ \E delivered, arrived \in BOOLEAN : PushRelay(delivered, arrived)
        \/ Tick
    BY DEF Next, SyncStep, AnswerStep, SysOpStep, MenuStep, FaultStep, vars,
           Compose, ExpireUnanswered, RecordRelayHandoff, RecordRefused,
           ExpireLetter, ApplyAnswer, SysOpCancels, SysOpReplays,
           AcknowledgeNotices, StartPass, WakeHeldItems, LoadDueItems,
           EndPass, TakeItem, SaveOwnLetter, DecidePolicy, PushDirect,
           RecordSuccess, RecordFailure, RereadItem, AnswerArrives,
           SaveAnswer, SysOpChecks, SysOpDeletes, ReadNotices, DropCaller,
           ChangeStanding, PassFails, AnswerFails, CrashAndRestart, Goto,
           LeavePass, NextItem, Continue
  <1> QED BY <1>1, <1>2, <1>3, <1>4

LEMMA ClockNext == TypeInv /\ ClockInv /\ [Next]_vars => ClockInv'
  <1> SUFFICES ASSUME TypeInv, ClockInv, [Next]_vars PROVE ClockInv'
    OBVIOUS
  <1>1. ASSUME NEW l \in Letters
        PROVE  ClockRight(mail'[l], relayAge'[l], pendingAge'[l])
    <2> DEFINE m == mail[l]
               r == relayAge[l]
               q == pendingAge[l]
    <2>1. m \in Letter /\ r \in Ages /\ q \in Ages /\ ClockRight(m, r, q)
      BY DEF TypeInv, TypeOK, Ages, ClockInv
    <2>2. "none" \in Reason /\ TRUE \in BOOLEAN
      BY DEF Reason
    <2>3. /\ \A why \in Reason \ {"no_answer"} : ClockRight(Expired(m, why), r, q)
          /\ \A why \in Reason, b \in BOOLEAN : ClockRight(Bounced(m, why, b), r, q)
          /\ ClockRight(Accepted(m), r, q)
          /\ ClockRight(MarkedShown(m), r, q)
          /\ r # Never => ClockRight(HandedOff(m), r, q)
          /\ ClockRight(GivenUpUnanswered(m), r, q)
          /\ ClockRight(Ticked(m), SinceOlder(r), SinceOlder(q))
          /\ r = Never => ClockRight(m, 0, q)
          /\ m.status = "expired" => ClockRight(Unexpired(m), r, 0)
          /\ m.status # "expired" => ClockRight(Unexpired(m), r, q)
      BY <2>1, <2>2, ClockRows
    <2>4. ClockRight([Unwritten EXCEPT !.status = "pending"], r, 0)
      BY <2>1, TimesAssumption DEF ClockRight, Unwritten, Ages, Never
    <2>5. pc = "handoff" /\ l = cur.letter => r # Never
      BY DEF ClockInv
    <2> QED BY <2>1, <2>3, <2>4, <2>5, ClockSteps
  <1>2. pc' = "handoff" => relayAge'[cur'.letter] # Never
    BY HandoffSteps DEF ClockInv
  <1> QED BY <1>1, <1>2 DEF ClockInv

LEMMA ClockInit == Init => ClockInv
  BY TimesAssumption DEF Init, ClockInv, ClockRight, Unwritten, Never

(* expire_unanswered_relay_mail gives a letter up only after a relay has had
   it, and it has been pending, for the whole RELAY_NO_ANSWER_TIMEOUT, for any
   time-out and however often the SysOp replays it, relays take it again and
   the node restarts. *)
THEOREM GivenUpOnlyInTime == Spec => []NoAnswerOnlyAfterTimeout
  <1>1. ClockInv => NoAnswerOnlyAfterTimeout
    BY DEF ClockInv, ClockRight, NoAnswerOnlyAfterTimeout
  <1> QED BY <1>1, TypeInit, TypeNext, ClockInit, ClockNext, PTL DEF Spec

-----------------------------------------------------------------------------
(* The batch of a pass, without a SysOp. *)

(* The row a snapshot was loaded from is there, and still to be tried. *)
Awaits(s) == HasId(s.letter, s.id) /\ items[s.letter].status \in Unresolved

Trying == {"save", "policy", "direct", "relay", "handoff", "refuse", "success",
           "failure"}
Recording == {"reread", "expire"}

(* What the loop has loaded is as it was, until it writes its outcome. *)
BatchInv ==
    /\ sysop = NoSysOp
    /\ \A s \in todo : Awaits(s)
    /\ \A s, t \in todo : s.letter = t.letter => s = t
    /\ pc \in Trying => Awaits(cur)
    /\ pc \in Recording => HasId(cur.letter, cur.id)
    /\ pc \in Trying \cup Recording => \A s \in todo : s.letter # cur.letter
    /\ pc = "expire" => items[cur.letter].status = "dead_lettered"
    /\ pc = "failure" => error # "none"

SameRows ==
    \A l \in Letters : /\ items'[l].id = items[l].id
                       /\ items'[l].status = items[l].status

LEMMA BatchInit == Init => BatchInv
  BY DEF Init, BatchInv, Trying, Recording

(* Without a SysOp no Outbox operation is under way. *)
LEMMA NoOperation ==
    ASSUME ~SysOpActs, TypeInv, BatchInv, [Next]_vars
    PROVE  ~SysOpStep /\ sysop' = NoSysOp
  <1>1. ~SysOpStep
    BY DEF SysOpStep, SysOpChecks, SysOpCancels, SysOpReplays, SysOpDeletes,
           BatchInv, NoSysOp
  <1>2. sysop' = sysop \/ sysop' = NoSysOp
    <2>1. CASE \E k \in Letters : Compose(k)
      BY <2>1 DEF Compose
    <2> QED BY <1>1, <2>1, LoopRowSteps
  <1> QED BY <1>1, <1>2 DEF BatchInv

(* The loop's writes by id reach the row of the letter it works on. *)
LEMMA RowOfCur ==
    ASSUME TypeInv, CancelInv, HasId(cur.letter, cur.id)
    PROVE  /\ cur.letter \in Letters
           /\ \A l \in Letters : HasId(l, cur.id) <=> l = cur.letter
  <1>1. cur.letter \in Letters
    BY DEF TypeInv, TypeOK, Snapshot
  <1> QED BY <1>1 DEF CancelInv, UniqueIds, HasId

LEMMA BatchNext ==
    ASSUME ~SysOpActs
    PROVE  TypeInv /\ CancelInv /\ BatchInv /\ [Next]_vars => BatchInv'
  <1> SUFFICES ASSUME TypeInv, CancelInv, BatchInv, [Next]_vars PROVE BatchInv'
    OBVIOUS
  <1>0. ~SysOpStep /\ sysop' = NoSysOp
    BY NoOperation
  <1>1. /\ cur \in Snapshot /\ cur.letter \in Letters
        /\ \A s \in todo : s \in Snapshot /\ s.letter \in Letters
        /\ items \in [Letters -> Item]
    BY DEF TypeInv, TypeOK, Snapshot
  <1>2. SameRows =>
           \A l \in Letters : \A n :
             /\ HasId(l, n)' <=> HasId(l, n)
             /\ Present(l)' <=> Present(l)
    BY DEF SameRows, HasId, Present
  <1>3. CASE SameRows /\ UNCHANGED <<pc, todo, cur, error>>
    BY <1>0, <1>1, <1>2, <1>3 DEF BatchInv, Awaits, SameRows, HasId, Present
  <1>4. CASE SameRows /\ UNCHANGED todo /\ pc' \notin Trying \cup Recording
    BY <1>0, <1>1, <1>2, <1>4
    DEF BatchInv, Awaits, SameRows, Trying, Recording, HasId, Present
  <1>5. CASE SameRows /\ todo' = {} /\ pc' = "idle"
    BY <1>0, <1>5 DEF BatchInv, Trying, Recording
  <1>6. CASE /\ SameRows /\ UNCHANGED <<todo, cur>>
             /\ pc \in Trying /\ pc' \in Trying /\ (pc' = "failure" => error' # "none")
    BY <1>0, <1>1, <1>2, <1>6
    DEF BatchInv, Awaits, SameRows, Trying, Recording, HasId, Present
  <1>7. CASE \E l \in Letters : Compose(l)
    <2>1. PICK l \in Letters : Compose(l)
      BY <1>7
    <2>2. ~Present(l)
      BY <2>1 DEF CancelInv, UnsentHasNoRow, Compose
    <2>3. \A k \in Letters : k # l => items'[k] = items[k]
      BY <2>1, <1>1 DEF Compose
    <2>4. UNCHANGED <<pc, todo, cur, error>>
      BY <2>1 DEF Compose, loopVars
    <2>5. /\ \A s \in todo : s.letter # l
          /\ pc \in Trying \cup Recording => cur.letter # l
      BY <2>2 DEF BatchInv, Awaits, HasId
    <2> QED
      BY <1>0, <1>1, <2>3, <2>4, <2>5
      DEF BatchInv, Awaits, HasId, Present, Trying, Recording
  <1>8. CASE LoadDueItems
    <2>1. /\ items' = items /\ pc' = "next"
          /\ todo' = {[letter |-> l, id |-> items[l].id,
                       attempts |-> items[l].attempts, age |-> items[l].age] :
                         l \in {m \in Letters : IsDue(items[m])}}
      BY <1>8 DEF LoadDueItems, dbVars
    <2>2. \A s \in todo' : /\ s.letter \in Letters /\ s.id = items[s.letter].id
                           /\ s.attempts = items[s.letter].attempts
                           /\ s.age = items[s.letter].age
                           /\ s = [letter |-> s.letter, id |-> s.id,
                                   attempts |-> s.attempts, age |-> s.age]
                           /\ items[s.letter].status \in Unresolved
      BY <2>1 DEF IsDue
    <2>3. \A s, t \in todo' : s.letter = t.letter => s = t
      <3> SUFFICES ASSUME NEW s \in todo', NEW t \in todo', s.letter = t.letter
                   PROVE  s = t
        OBVIOUS
      <3>1. s.id = t.id /\ s.attempts = t.attempts /\ s.age = t.age
        BY <2>2
      <3> QED BY <2>2, <3>1
    <2>4. \A s \in todo' : Awaits(s)'
      BY <2>1, <2>2 DEF Awaits, HasId, Present, Unresolved
    <2> QED BY <1>0, <2>1, <2>3, <2>4 DEF BatchInv, Trying, Recording
  <1>9. CASE \E s \in todo : TakeItem(s)
    <2>1. PICK s \in todo : TakeItem(s)
      BY <1>9
    <2>2. /\ items' = items /\ todo' = todo \ {s} /\ cur' = s
          /\ pc' \in {"success", "policy", "save"}
      BY <2>1 DEF TakeItem, dbVars
    <2>3. \A t \in todo' : t.letter # s.letter
      BY <2>2 DEF BatchInv
    <2> QED
      BY <1>0, <2>2, <2>3
      DEF BatchInv, Awaits, HasId, Present, Trying, Recording
  <1>10. CASE RecordSuccess \/ RecordFailure
    <2>1. /\ pc \in Trying /\ pc' = "reread" /\ UNCHANGED <<todo, cur>>
      BY <1>10 DEF RecordSuccess, RecordFailure, Goto, Trying
    <2>2. HasId(cur.letter, cur.id) /\ \A s \in todo : s.letter # cur.letter
      BY <2>1 DEF BatchInv, Awaits
    <2>3. \A l \in Letters : HasId(l, cur.id) <=> l = cur.letter
      BY <2>2, RowOfCur
    <2>4. \A l \in Letters : l # cur.letter => items'[l] = items[l]
      BY <1>10, <2>3 DEF RecordSuccess, RecordFailure
    <2>5. items'[cur.letter].id = items[cur.letter].id /\ items'[cur.letter].status # "absent"
      <3>1. \/ items'[cur.letter] = PushedRow(items[cur.letter])
            \/ items'[cur.letter] = FailedRow(items[cur.letter], cur, error)
        BY <1>1, <1>10, <2>2 DEF RecordSuccess, RecordFailure
      <3> QED BY <1>1, <3>1 DEF PushedRow, FailedRow, Item
    <2> QED
      BY <1>0, <1>1, <2>1, <2>2, <2>4, <2>5
      DEF BatchInv, Awaits, HasId, Present, Trying, Recording
  <1>11. CASE RereadItem
    <2>1. items' = items /\ pc = "reread"
      BY <1>11 DEF RereadItem, dbVars
    <2>2. \/ todo' = {} /\ pc' = "idle"
          \/ UNCHANGED todo /\ pc' = "next"
          \/ IsDeadLettered(cur.id) /\ pc' = "expire" /\ UNCHANGED <<todo, cur>>
      BY <1>11 DEF RereadItem, LeavePass, NextItem, Continue, Goto
    <2>3. IsDeadLettered(cur.id) => items[cur.letter].status = "dead_lettered"
      BY <2>1, RowOfCur DEF BatchInv, Recording, IsDeadLettered
    <2> QED
      BY <1>0, <1>4, <1>5, <2>1, <2>2, <2>3
      DEF BatchInv, Awaits, SameRows, HasId, Present, Trying, Recording
  <1>12. CASE Tick
    <2>1. SameRows
      BY <1>1, <1>12, WaitingRowTypes DEF Tick, SameRows
    <2>2. \A s \in Snapshot : Aged(s).letter = s.letter /\ Aged(s).id = s.id
      BY DEF Aged, Snapshot
    <2>3. /\ cur'.letter = cur.letter /\ cur'.id = cur.id
          /\ todo' = {Aged(s) : s \in todo} /\ pc' = pc /\ error' = error
      BY <1>1, <1>12, <2>2 DEF Tick
    <2>4. \A t \in todo' : \E s \in todo : t = Aged(s) /\ t.letter = s.letter /\ t.id = s.id
      BY <1>1, <2>2, <2>3
    <2>5. \A s, t \in todo' : s.letter = t.letter => s = t
      <3> SUFFICES ASSUME NEW s \in todo', NEW t \in todo', s.letter = t.letter
                   PROVE  s = t
        OBVIOUS
      <3>1. PICK s0 \in todo : s = Aged(s0) /\ s.letter = s0.letter
        BY <2>4
      <3>2. PICK t0 \in todo : t = Aged(t0) /\ t.letter = t0.letter
        BY <2>4
      <3>3. s0 = t0
        BY <3>1, <3>2 DEF BatchInv
      <3> QED BY <3>1, <3>2, <3>3
    <2>6. \A t \in todo' : Awaits(t)'
      <3> TAKE t \in todo'
      <3>1. PICK s \in todo : t.letter = s.letter /\ t.id = s.id
        BY <2>4
      <3>2. Awaits(s) /\ s.letter \in Letters
        BY <1>1 DEF BatchInv
      <3> QED BY <2>1, <3>1, <3>2 DEF Awaits, HasId, Present, SameRows
    <2>7. /\ pc' \in Trying => Awaits(cur)'
          /\ pc' \in Recording => HasId(cur.letter, cur.id)'
          /\ pc' = "expire" => items'[cur'.letter].status = "dead_lettered"
      BY <1>1, <2>1, <2>3 DEF BatchInv, Awaits, HasId, Present, SameRows
    <2>8. pc' \in Trying \cup Recording => \A t \in todo' : t.letter # cur'.letter
      BY <2>3, <2>4 DEF BatchInv
    <2>9. pc' = "failure" => error' # "none"
      BY <2>3 DEF BatchInv
    <2> QED BY <1>0, <2>5, <2>6, <2>7, <2>8, <2>9 DEF BatchInv
  <1>13. \/ SameRows /\ UNCHANGED <<pc, todo, cur, error>>
         \/ SameRows /\ UNCHANGED todo /\ pc' \notin Trying \cup Recording
         \/ SameRows /\ todo' = {} /\ pc' = "idle"
         \/ /\ SameRows /\ UNCHANGED <<todo, cur>>
            /\ pc \in Trying /\ pc' \in Trying /\ (pc' = "failure" => error' # "none")
         \/ \E l \in Letters : Compose(l)
         \/ LoadDueItems \/ \E s \in todo : TakeItem(s)
         \/ RecordSuccess \/ RecordFailure \/ RereadItem \/ Tick
    <2> USE DEF dbVars, ackVars, loopVars, historyVars, SameRows, Trying, Recording
    <2>1. CASE StartPass \/ ExpireUnanswered \/ EndPass \/ ExpireLetter
      BY <2>1
      DEF StartPass, ExpireUnanswered, EndPass, ExpireLetter, Goto, LeavePass,
          NextItem, Continue
    <2>2. CASE WakeHeldItems
      <3>1. SameRows
        BY <1>1, <2>2, WaitingRowTypes DEF WakeHeldItems
      <3> QED BY <2>2, <3>1 DEF WakeHeldItems, Goto
    <2>3. CASE SaveOwnLetter \/ RecordRelayHandoff \/ RecordRefused
      BY <2>3 DEF SaveOwnLetter, RecordRelayHandoff, RecordRefused, Goto
    <2>4. CASE DecidePolicy
      BY <2>4 DEF DecidePolicy
    <2>5. CASE \E delivered, refusal, arrived \in BOOLEAN :
                  PushDirect(delivered, refusal, arrived)
      BY <2>5 DEF PushDirect
    <2>6. CASE \E delivered, arrived \in BOOLEAN : PushRelay(delivered, arrived)
      <3>1. PICK delivered, arrived \in BOOLEAN : PushRelay(delivered, arrived)
        BY <2>6
      <3>2. pc' \in {"handoff", "refuse", "failure"} /\ (pc' = "failure" => error' = "route")
        BY <3>1 DEF PushRelay
      <3> QED BY <3>1, <3>2 DEF PushRelay
    <2>7. CASE AnswerStep \/ MenuStep \/ ChangeStanding \/ UNCHANGED vars
      BY <2>7
      DEF AnswerStep, MenuStep, ChangeStanding, vars, AnswerArrives, SaveAnswer,
          ApplyAnswer, ReadNotices, AcknowledgeNotices, DropCaller
    <2>8. CASE FaultStep
      BY <2>8
      DEF FaultStep, PassFails, AnswerFails, CrashAndRestart, LeavePass, Continue
    <2> QED
      BY <1>0, <2>1, <2>2, <2>3, <2>4, <2>5, <2>6, <2>7, <2>8 DEF Next, SyncStep
  <1> QED
    BY <1>3, <1>4, <1>5, <1>6, <1>7, <1>8, <1>9, <1>10, <1>11, <1>12, <1>13

-----------------------------------------------------------------------------
(* Outcomes, without a SysOp. *)

(* What the loop may record as pushed: it left the node, or was refused. *)
Reached(l) == l \in handed \/ mail[l].status = "bounced"

(* A letter that never left the node has not been at a relay and was not
   accepted, expires only with a dead-lettered item, and is resolved as pushed
   only when it bounced. *)
OutcomeRight(l) ==
    /\ mail[l].handoff # Never \/ mail[l].status = "delivered" => l \in handed
    /\ mail[l].status = "expired" /\ l \notin handed =>
          items[l].status = "dead_lettered"
    /\ items[l].status = "pushed" => Reached(l)
    /\ items[l].status # "cancelled"

OutcomeInv ==
    /\ \A l \in Letters : OutcomeRight(l)
    /\ \A job \in ackJobs : job.answer[1] \in handed
    /\ pc = "handoff" => cur.letter \in handed
    /\ pc = "success" => Reached(cur.letter)

LEMMA OutcomeInit == Init => OutcomeInv
  BY DEF Init, OutcomeInv, OutcomeRight, Unwritten, NoItem, Reached

(* What a step does to a letter that has not left the node. *)
LEMMA UnhandedLetterSteps ==
    ASSUME ~SysOpActs, TypeInv, BatchInv, OutcomeInv, [Next]_vars,
           NEW l \in Letters, l \notin handed
    PROVE  \/ mail'[l].status = mail[l].status /\ mail'[l].handoff = mail[l].handoff
           \/ /\ mail'[l].status = "bounced" /\ mail'[l].handoff = mail[l].handoff
              /\ items' = items
           \/ Compose(l)
           \/ /\ pc = "expire" /\ l = cur.letter /\ items' = items
              /\ mail'[l].status = "expired" /\ mail'[l].handoff = mail[l].handoff
  <1> DEFINE m == mail[l]
  <1> USE DEF TypeInv, TypeOK, dbVars, ackVars, loopVars, historyVars
  <1>0. /\ m \in Letter /\ cur.letter \in Letters /\ m.handoff = Never
        /\ ~SysOpStep
    BY NoOperation DEF Snapshot, OutcomeInv, OutcomeRight
  <1>1. CASE mail' = mail
    BY <1>1
  <1>2. CASE \E k \in Letters : Compose(k)
    <2>1. PICK k \in Letters : Compose(k)
      BY <1>2
    <2>2. CASE k = l
      BY <2>1, <2>2
    <2>3. CASE k # l
      BY <2>1, <2>3 DEF Compose
    <2> QED BY <2>2, <2>3
  <1>3. CASE ExpireUnanswered
    <2>1. mail'[l] = GivenUpUnanswered(m)
      BY <1>3 DEF ExpireUnanswered
    <2> QED BY <1>0, <2>1 DEF GivenUpUnanswered
  <1>4. CASE RecordRelayHandoff
    BY <1>0, <1>4 DEF RecordRelayHandoff, OutcomeInv
  <1>5. CASE RecordRefused
    <2>1. mail'[l] = m \/ mail'[l] = Bounced(m, "refused", TRUE)
      BY <1>0, <1>5 DEF RecordRefused
    <2> QED BY <1>0, <1>5, <2>1 DEF RecordRefused, Bounced, Letter
  <1>6. CASE ExpireLetter
    <2>1. \/ mail'[l] = m
          \/ /\ l = cur.letter
             /\ \E why \in Reason : mail'[l] = Expired(m, why)
      BY <1>0, <1>6 DEF ExpireLetter, Reason
    <2> QED BY <1>0, <1>6, <2>1 DEF ExpireLetter, Expired, Letter
  <1>7. CASE \E job \in ackJobs : ApplyAnswer(job)
    <2>1. PICK job \in ackJobs : ApplyAnswer(job)
      BY <1>7
    <2>2. job.answer[1] \in Letters /\ job.answer[1] # l
      BY DEF AckJob, Answer, OutcomeInv
    <2> QED BY <2>1, <2>2 DEF ApplyAnswer
  <1>8. CASE AcknowledgeNotices
    BY <1>0, <1>8 DEF AcknowledgeNotices, Letter
  <1>9. CASE Tick
    <2>1. mail'[l] = [m EXCEPT !.handoff = SinceOlder(@)]
      BY <1>9 DEF Tick
    <2> QED BY <1>0, <2>1 DEF SinceOlder, Letter
  <1>10. \/ mail' = mail
         \/ \E k \in Letters : Compose(k)
         \/ ExpireUnanswered \/ RecordRelayHandoff \/ RecordRefused
         \/ ExpireLetter \/ AcknowledgeNotices \/ Tick
         \/ \E job \in ackJobs : ApplyAnswer(job)
    BY <1>0
    DEF Next, SyncStep, AnswerStep, MenuStep, FaultStep, vars,
           StartPass, WakeHeldItems, LoadDueItems, EndPass, TakeItem,
           SaveOwnLetter, DecidePolicy, PushDirect, PushRelay, RecordSuccess,
           RecordFailure, RereadItem, AnswerArrives, SaveAnswer,
           ReadNotices, DropCaller, ChangeStanding, PassFails,
           AnswerFails, CrashAndRestart
  <1> QED
    BY <1>1, <1>2, <1>3, <1>4, <1>5, <1>6, <1>7, <1>8, <1>9, <1>10

(* What a step does to the status of a row. *)
LEMMA StatusSteps ==
    ASSUME ~SysOpActs, TypeInv, CancelInv, BatchInv, [Next]_vars, NEW l \in Letters
    PROVE  \/ items'[l].status = items[l].status
           \/ Compose(l) /\ items'[l].status = "pending"
           \/ /\ pc = "success" /\ l = cur.letter /\ mail' = mail
              /\ items'[l].status = "pushed"
           \/ /\ pc = "failure" /\ l = cur.letter /\ mail' = mail
              /\ items'[l].status \in {"dead_lettered", "retrying"}
              /\ pc' = "reread" /\ cur' = cur /\ error' = error
  <1> USE DEF TypeInv, TypeOK, dbVars, ackVars, loopVars, historyVars
  <1>0. ~SysOpStep /\ items[l] \in Item
    BY NoOperation
  <1>1. CASE items' = items
    BY <1>1
  <1>2. CASE \E k \in Letters : Compose(k)
    <2>1. PICK k \in Letters, n \in 1 .. MaxRowId :
             Compose(k) /\ items' = [items EXCEPT ![k] = NewItem(n)]
      BY <1>2 DEF Compose
    <2>2. CASE k = l
      BY <2>1, <2>2 DEF NewItem
    <2>3. CASE k # l
      BY <2>1, <2>3
    <2> QED BY <2>2, <2>3
  <1>3. CASE WakeHeldItems
    BY <1>3, WaitingRowTypes DEF WakeHeldItems
  <1>4. CASE Tick
    BY <1>4, WaitingRowTypes DEF Tick
  <1>5. CASE RecordSuccess
    <2>1. HasId(l, cur.id) => l = cur.letter
      BY <1>5, RowOfCur DEF RecordSuccess, BatchInv, Trying, Awaits
    <2> QED BY <1>0, <1>5, <2>1 DEF RecordSuccess, PushedRow, Item
  <1>6. CASE RecordFailure
    <2>1. HasId(l, cur.id) => l = cur.letter
      BY <1>6, RowOfCur DEF RecordFailure, BatchInv, Trying, Awaits
    <2> QED BY <1>0, <1>6, <2>1 DEF RecordFailure, FailedRow, Item, Goto
  <1>7. \/ items' = items
        \/ \E k \in Letters : Compose(k)
        \/ WakeHeldItems \/ Tick \/ RecordSuccess \/ RecordFailure
    BY <1>0
    DEF Next, SyncStep, AnswerStep, MenuStep, FaultStep, vars, ApplyAnswer,
           ExpireUnanswered, RecordRelayHandoff, RecordRefused, ExpireLetter,
           StartPass, LoadDueItems, EndPass, TakeItem, AcknowledgeNotices,
           SaveOwnLetter, DecidePolicy, PushDirect, PushRelay,
           RereadItem, AnswerArrives, SaveAnswer,
           ReadNotices, DropCaller, ChangeStanding, PassFails,
           AnswerFails, CrashAndRestart
  <1> QED BY <1>1, <1>2, <1>3, <1>4, <1>5, <1>6, <1>7

LEMMA HandedGrows ==
    ASSUME [Next]_vars
    PROVE  handed \subseteq handed'
  BY DEF Next, SyncStep, AnswerStep, SysOpStep, MenuStep, FaultStep, vars,
         dbVars, ackVars, loopVars, historyVars,
         Compose, ExpireUnanswered, RecordRelayHandoff, RecordRefused,
         ExpireLetter, ApplyAnswer, SysOpCancels, SysOpReplays,
         AcknowledgeNotices, Tick,
         StartPass, WakeHeldItems, LoadDueItems, EndPass, TakeItem,
         SaveOwnLetter, DecidePolicy, PushDirect, PushRelay, RecordSuccess,
         RecordFailure, RereadItem, AnswerArrives, SaveAnswer, SysOpChecks,
         SysOpDeletes, ReadNotices, DropCaller, ChangeStanding, PassFails,
         AnswerFails, CrashAndRestart

(* A letter the loop is still trying is not one that expired unnoticed. *)
LEMMA TriedOrReached ==
    ASSUME TypeInv, CancelInv, OutcomeInv, NEW l \in Letters,
           Present(l), items[l].status \in Unresolved, mail[l].status # "pending"
    PROVE  Reached(l)
  <1>1. mail[l].status \in {"delivered", "bounced", "expired"}
    BY DEF TypeInv, TypeOK, Letter, MailStatus, CancelInv, UnsentHasNoRow
  <1> QED BY <1>1 DEF OutcomeInv, OutcomeRight, Reached, Unresolved

LEMMA OutcomeNext ==
    ASSUME ~SysOpActs
    PROVE  TypeInv /\ CancelInv /\ BatchInv /\ OutcomeInv /\ [Next]_vars => OutcomeInv'
  <1> SUFFICES ASSUME TypeInv, CancelInv, BatchInv, OutcomeInv, [Next]_vars
               PROVE  OutcomeInv'
    OBVIOUS
  <1>0. handed \subseteq handed' /\ cur.letter \in Letters
    BY HandedGrows DEF TypeInv, TypeOK, Snapshot
  <1>1. \A l \in Letters : OutcomeRight(l)'
    <2> TAKE l \in Letters
    <2>0. OutcomeRight(l)
      BY DEF OutcomeInv
    <2>1. items'[l].status # "cancelled"
      BY <2>0, StatusSteps DEF OutcomeRight
    <2>2. CASE l \in handed'
      BY <2>1, <2>2 DEF OutcomeRight, Reached
    <2>3. CASE l \notin handed'
      <3>0. l \notin handed
        BY <1>0, <2>3
      <3>1. CASE Compose(l)
        <4>1. mail'[l] = [Unwritten EXCEPT !.status = "pending"]
          BY <3>1 DEF Compose, TypeInv, TypeOK
        <4>2. items'[l].status = "pending"
          BY <3>1 DEF Compose, NewItem, TypeInv, TypeOK
        <4> QED BY <4>1, <4>2 DEF OutcomeRight, Unwritten
      <3>2. CASE ~Compose(l)
        <4>1. \/ mail'[l].status = mail[l].status /\ mail'[l].handoff = mail[l].handoff
              \/ /\ mail'[l].status = "bounced" /\ mail'[l].handoff = mail[l].handoff
                 /\ items' = items
              \/ /\ pc = "expire" /\ l = cur.letter /\ items' = items
                 /\ mail'[l].status = "expired" /\ mail'[l].handoff = mail[l].handoff
          BY <3>0, <3>2, UnhandedLetterSteps
        <4>2. \/ items'[l].status = items[l].status
              \/ pc = "success" /\ l = cur.letter /\ mail' = mail
              \/ /\ pc = "failure" /\ l = cur.letter /\ mail' = mail
                 /\ items'[l].status \in {"dead_lettered", "retrying"}
          BY <3>2, StatusSteps
        <4>3. pc = "expire" /\ l = cur.letter => items[l].status = "dead_lettered"
          BY DEF BatchInv
        <4>4. pc \in {"success", "failure"} /\ l = cur.letter =>
                 Present(l) /\ items[l].status \in Unresolved
          BY DEF BatchInv, Trying, Awaits, HasId
        <4>5. pc = "success" /\ l = cur.letter => mail[l].status = "bounced"
          BY <3>0 DEF OutcomeInv, Reached
        <4>6. pc = "failure" /\ l = cur.letter => mail[l].status # "expired"
          BY <2>0, <3>0, <4>4 DEF OutcomeRight, Unresolved
        <4> QED
          BY <2>0, <2>1, <2>3, <3>0, <4>1, <4>2, <4>3, <4>5, <4>6
          DEF OutcomeRight, Reached
      <3> QED BY <3>1, <3>2
    <2> QED BY <2>2, <2>3
  <1>2. \A l \in Letters : Reached(l) => Reached(l)'
    <2> TAKE l \in Letters
    <2>1. mail[l].status = "bounced" => mail'[l].status \in {"delivered", "bounced"}
      BY AnswersFinalStep
    <2> QED BY <1>0, <1>1, <2>1 DEF Reached, OutcomeRight
  <1>3. \A job \in ackJobs' : job.answer[1] \in handed'
    <2>1. CASE \E l \in Letters, kind \in PeerAnswers : AnswerArrives(l, kind)
      BY <1>0, <2>1 DEF AnswerArrives, OutcomeInv
    <2>2. CASE \E job \in ackJobs : SaveAnswer(job)
      <3>1. \A job \in ackJobs : [job EXCEPT !.step = "apply"].answer = job.answer
        BY DEF TypeInv, TypeOK, AckJob
      <3> QED BY <1>0, <2>2, <3>1 DEF SaveAnswer, OutcomeInv
    <2>3. CASE ackJobs' \subseteq ackJobs
      BY <1>0, <2>3 DEF OutcomeInv
    <2>4. \/ ackJobs' \subseteq ackJobs
          \/ \E l \in Letters, kind \in PeerAnswers : AnswerArrives(l, kind)
          \/ \E job \in ackJobs : SaveAnswer(job)
      BY DEF Next, SyncStep, AnswerStep, SysOpStep, MenuStep, FaultStep, vars,
             dbVars, ackVars, loopVars, historyVars,
             Compose, ExpireUnanswered, RecordRelayHandoff, RecordRefused,
             ExpireLetter, ApplyAnswer, SysOpCancels, SysOpReplays,
             AcknowledgeNotices, Tick,
             StartPass, WakeHeldItems, LoadDueItems, EndPass, TakeItem,
             SaveOwnLetter, DecidePolicy, PushDirect, PushRelay, RecordSuccess,
             RecordFailure, RereadItem, SysOpChecks,
             SysOpDeletes, ReadNotices, DropCaller, ChangeStanding, PassFails,
             AnswerFails, CrashAndRestart
    <2> QED BY <2>1, <2>2, <2>3, <2>4
  <1>4. /\ pc' = "handoff" => cur'.letter \in handed'
        /\ pc' = "success" => Reached(cur.letter)'
    <2> USE DEF dbVars, ackVars, loopVars, historyVars
    <2>1. CASE pc' = pc /\ cur'.letter = cur.letter
      BY <1>0, <1>2, <2>1 DEF OutcomeInv
    <2>2. CASE pc' \notin {"handoff", "success"}
      BY <2>2
    <2>3. CASE \E s \in todo : TakeItem(s)
      <3>1. PICK s \in todo : TakeItem(s)
        BY <2>3
      <3>2. CASE pc' = "success"
        <4>1. mail[s.letter].status # "pending" /\ cur' = s
          BY <3>1, <3>2 DEF TakeItem
        <4>2. s.letter \in Letters /\ Awaits(s)
          BY DEF TypeInv, TypeOK, Snapshot, BatchInv
        <4>3. Reached(s.letter)
          BY <4>1, <4>2, TriedOrReached DEF Awaits, HasId
        <4> QED BY <1>2, <3>2, <4>1, <4>2, <4>3
      <3>3. CASE pc' # "success"
        BY <3>1, <3>3 DEF TakeItem
      <3> QED BY <3>2, <3>3
    <2>4. CASE \E delivered, refusal, arrived \in BOOLEAN :
                  PushDirect(delivered, refusal, arrived)
      BY <2>4 DEF PushDirect, Reached
    <2>5. CASE \E delivered, arrived \in BOOLEAN : PushRelay(delivered, arrived)
      BY <2>5 DEF PushRelay, Reached
    <2>6. CASE RecordRelayHandoff
      BY <1>0, <2>6 DEF RecordRelayHandoff, Goto, OutcomeInv, Reached
    <2>7. CASE RecordRefused
      <3>1. Present(cur.letter) /\ items[cur.letter].status \in Unresolved
        BY <2>7 DEF RecordRefused, BatchInv, Trying, Awaits, HasId
      <3>2. mail[cur.letter].status # "pending" => Reached(cur.letter)
        BY <1>0, <3>1, TriedOrReached
      <3>3. mail[cur.letter].status = "pending" => mail'[cur.letter].status = "bounced"
        <4>1. mail'[cur.letter] = Bounced(mail[cur.letter], "refused", TRUE)
          BY <1>0, <2>7 DEF RecordRefused, TypeInv, TypeOK
        <4> QED BY <1>0, <4>1 DEF Bounced, Letter, TypeInv, TypeOK
      <3>4. cur' = cur
        BY <2>7 DEF RecordRefused, Goto
      <3>5. Reached(cur.letter)'
        BY <1>0, <1>2, <3>2, <3>3, <3>4 DEF Reached
      <3> QED BY <2>7, <3>4, <3>5 DEF RecordRefused, Goto
    <2>8. CASE Tick
      <3>1. cur'.letter = cur.letter
        BY <2>8 DEF Tick, Aged, TypeInv, TypeOK, Snapshot
      <3> QED BY <2>1, <2>8, <3>1 DEF Tick
    <2>9. \/ pc' = pc /\ cur' = cur
          \/ pc' \notin {"handoff", "success"}
          \/ \E s \in todo : TakeItem(s)
          \/ \E delivered, refusal, arrived \in BOOLEAN :
                PushDirect(delivered, refusal, arrived)
          \/ \E delivered, arrived \in BOOLEAN : PushRelay(delivered, arrived)
          \/ RecordRelayHandoff \/ RecordRefused \/ Tick
      BY DEF Next, SyncStep, AnswerStep, SysOpStep, MenuStep, FaultStep, vars,
             Compose, ExpireUnanswered, ExpireLetter, ApplyAnswer,
             SysOpCancels, SysOpReplays, AcknowledgeNotices, StartPass,
             WakeHeldItems, LoadDueItems, EndPass, SaveOwnLetter,
             DecidePolicy, RecordSuccess, RecordFailure, RereadItem,
             AnswerArrives, SaveAnswer, SysOpChecks, SysOpDeletes,
             ReadNotices, DropCaller, ChangeStanding, PassFails, AnswerFails,
             CrashAndRestart, Goto, LeavePass, NextItem, Continue
    <2> QED BY <2>1, <2>2, <2>3, <2>4, <2>5, <2>6, <2>7, <2>8, <2>9
  <1> QED BY <1>1, <1>3, <1>4 DEF OutcomeInv

LEMMA OutcomesAlways ==
    ASSUME ~SysOpActs
    PROVE  Spec => [](TypeInv /\ CancelInv /\ BatchInv /\ OutcomeInv)
  BY TypeInit, TypeNext, CancelInit, CancelNext, BatchInit, BatchNext,
     OutcomeInit, OutcomeNext, PTL DEF Spec

(* record_success, without a SysOp: a work item is resolved as pushed only when
   its letter reached the peer's transport or a relay, or was refused, for any
   number of letters, lost answers, errors and crashes. *)
THEOREM PushedWasHanded ==
    ASSUME ~SysOpActs
    PROVE  Spec => []PushedMeansHanded
  <1>1. OutcomeInv => PushedMeansHanded
    BY DEF OutcomeInv, OutcomeRight, Reached, PushedMeansHanded
  <1> QED BY <1>1, OutcomesAlways, PTL

(* A pending letter has its row, and a dead-lettered one beside a pending
   letter is the one the loop is working on. *)
TrackInv ==
    /\ \A l \in Letters : mail[l].status = "pending" => Present(l)
    /\ \A l \in Letters :
          items[l].status = "dead_lettered" /\ mail[l].status = "pending" =>
             BeingExpired(l) /\ error # "none"

LEMMA TrackInit == Init => TrackInv
  BY DEF Init, TrackInv, Unwritten

(* Nothing but a failed job or a crash stops the loop between the two. *)
LEMMA ExpiryGoesOn ==
    ASSUME ~SysOpActs, ~LaneErrors, ~Crashes, TypeInv, CancelInv, BatchInv,
           [Next]_vars, NEW l \in Letters, BeingExpired(l), error # "none",
           items[l].status = "dead_lettered", mail'[l].status = "pending"
    PROVE  BeingExpired(l)' /\ error' # "none"
  <1> USE DEF dbVars, ackVars, loopVars, historyVars, BeingExpired
  <1>1. CASE UNCHANGED <<pc, cur, error>>
    BY <1>1
  <1>2. CASE RereadItem
    <2>1. HasId(cur.letter, cur.id)
      BY DEF BatchInv, Recording
    <2>2. RowExists(cur.id) /\ IsDeadLettered(cur.id)
      BY <2>1 DEF RowExists, IsDeadLettered
    <2> QED BY <1>2, <2>2 DEF RereadItem, Goto
  <1>3. CASE ExpireLetter
    <2>1. mail[l] \in Letter /\ "own_policy" \in Reason /\ "none" \in Reason
      BY DEF TypeInv, TypeOK, Reason
    <2>2. \A why \in Reason : Expired(mail[l], why).status # "pending"
      BY <2>1 DEF Expired, Letter
    <2>3. mail'[l] = Expired(mail[l], IF error = "policy" THEN "own_policy" ELSE "none")
      BY <1>3 DEF ExpireLetter, TypeInv, TypeOK
    <2> QED BY <2>1, <2>2, <2>3
  <1>4. CASE Tick
    <2>1. cur'.letter = cur.letter
      BY <1>4 DEF Tick, Aged, TypeInv, TypeOK, Snapshot
    <2> QED BY <1>4, <2>1 DEF Tick
  <1>5. UNCHANGED <<pc, cur, error>> \/ RereadItem \/ ExpireLetter \/ Tick
    BY DEF Next, SyncStep, AnswerStep, SysOpStep, MenuStep, FaultStep, vars,
           Compose, ExpireUnanswered, ApplyAnswer, RecordRelayHandoff,
           RecordRefused, SysOpCancels, SysOpReplays, AcknowledgeNotices,
           StartPass, WakeHeldItems, LoadDueItems, EndPass, TakeItem,
           SaveOwnLetter, DecidePolicy, PushDirect, PushRelay, RecordSuccess,
           RecordFailure, AnswerArrives, SaveAnswer, SysOpChecks,
           SysOpDeletes, ReadNotices, DropCaller, ChangeStanding, PassFails,
           AnswerFails, CrashAndRestart
  <1> QED BY <1>1, <1>2, <1>3, <1>4, <1>5

LEMMA TrackNext ==
    ASSUME ~SysOpActs, ~LaneErrors, ~Crashes
    PROVE  TypeInv /\ CancelInv /\ BatchInv /\ TrackInv /\ [Next]_vars => TrackInv'
  <1> SUFFICES ASSUME TypeInv, CancelInv, BatchInv, TrackInv, [Next]_vars,
                      NEW l \in Letters, mail'[l].status = "pending"
               PROVE  /\ Present(l)'
                      /\ items'[l].status = "dead_lettered" =>
                            BeingExpired(l)' /\ error' # "none"
    BY DEF TrackInv
  <1>1. CASE Compose(l)
    <2>1. items'[l].status = "pending"
      BY <1>1 DEF Compose, NewItem, TypeInv, TypeOK
    <2> QED BY <2>1 DEF Present
  <1>2. CASE ~Compose(l)
    <2>1. mail[l].status = "pending" /\ Present(l)
      BY <1>2, PendingSteps, NoOperation DEF SysOpStep, TrackInv
    <2>2. \/ items'[l].status = items[l].status
          \/ items'[l].status = "pushed"
          \/ /\ pc = "failure" /\ l = cur.letter
             /\ items'[l].status \in {"dead_lettered", "retrying"}
             /\ pc' = "reread" /\ cur' = cur /\ error' = error
      BY <1>2, StatusSteps
    <2>3. Present(l)'
      BY <2>1, <2>2 DEF Present
    <2>4. CASE items'[l].status = "dead_lettered" /\ items[l].status = "dead_lettered"
      <3>1. BeingExpired(l) /\ error # "none"
        BY <2>1, <2>4 DEF TrackInv
      <3> QED BY <2>3, <2>4, <3>1, ExpiryGoesOn
    <2>5. CASE items'[l].status = "dead_lettered" /\ items[l].status # "dead_lettered"
      <3>1. /\ pc = "failure" /\ l = cur.letter
            /\ pc' = "reread" /\ cur' = cur /\ error' = error
        BY <2>2, <2>5
      <3> QED BY <2>3, <3>1 DEF BatchInv, BeingExpired
    <2>6. CASE items'[l].status # "dead_lettered"
      BY <2>3, <2>6
    <2> QED BY <2>4, <2>5, <2>6
  <1> QED BY <1>1, <1>2

(* The queue's promise, without a SysOp, errors and crashes: a pending letter
   that has not left the node has an unresolved work item, or is just being
   expired, for any number of letters and any limits. *)
THEOREM PendingStaysTracked ==
    ASSUME ~SysOpActs, ~LaneErrors, ~Crashes
    PROVE  Spec => []PendingIsTracked
  <1>1. ASSUME TypeInv, OutcomeInv, TrackInv PROVE PendingIsTracked
    <2> SUFFICES ASSUME NEW l \in Letters, mail[l].status = "pending", l \notin handed
                 PROVE  items[l].status \in Unresolved \/ BeingExpired(l)
      BY DEF PendingIsTracked
    <2>1. items[l].status \in {"pending", "retrying", "dead_lettered"}
      BY <1>1
      DEF TypeInv, TypeOK, Item, ItemStatus, OutcomeInv, OutcomeRight, Reached,
          TrackInv, Present
    <2> QED BY <1>1, <2>1 DEF TrackInv, Unresolved
  <1> QED BY <1>1, OutcomesAlways, TrackInit, TrackNext, PTL DEF Spec

=============================================================================

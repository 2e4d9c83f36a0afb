--------------------------- MODULE LinkMail_proofs ---------------------------
(* Proofs about LinkMail: the three nodes together keep the promise of        *)
(* MailService, for any number of letters and answers, any limits and any     *)
(* number of crashes and replays.                                             *)
EXTENDS LinkMail, WorkItems_proofs

-----------------------------------------------------------------------------
(* Types.                                                                     *)

\* A row of link_work_items; one that is still to be tried has attempts left.
Sound == {r \in Item : r.status \in Unresolved => r.attempts < MaxAttempts}

LEMMA SoundRows ==
    /\ NoItem \in Sound /\ NewItem(1) \in Sound
    /\ NewItem(1).status = "pending" /\ NoItem.status = "absent"
    /\ \A r \in Sound :
          /\ PushedRow(r) \in Sound /\ PushedRow(r).status = "pushed"
          /\ ReplayedRow(r) \in Sound /\ ReplayedRow(r).status = "pending"
          /\ AgedItem(r) \in Sound /\ AgedItem(r).status = r.status
          /\ r.status \notin Unresolved => AgedItem(r) = r
          /\ r.status \in Unresolved => /\ FailedRow(r, r, "route") \in Sound
                                        /\ FailedRow(r, r, "route").status = IF GivesUp(r) THEN "dead_lettered" ELSE "retrying"
<1>. USE NumbersAssumption DEF Sound
<1>1. NoItem \in Sound /\ NewItem(1) \in Sound /\ NewItem(1).status = "pending"
      /\ NoItem.status = "absent"
  BY DEF NoItem, NewItem, Item, ItemStatus, ItemError, Unresolved
<1>2. ASSUME NEW r \in Sound
      PROVE  /\ PushedRow(r) \in Sound /\ PushedRow(r).status = "pushed"
             /\ ReplayedRow(r) \in Sound /\ ReplayedRow(r).status = "pending"
  <2>1. PushedRow(r) \in Sound /\ PushedRow(r).status = "pushed"
    BY DEF PushedRow, Item, ItemStatus, Unresolved
  <2>2. /\ 0 \in 0 .. MaxAttempts /\ 0 \in 0 .. MaxBackoff /\ 0 \in 0 .. MaxAge + 1
        /\ 0 < MaxAttempts /\ "none" \in ItemError /\ "pending" \in ItemStatus
    BY DEF ItemError, ItemStatus
  <2>3. ReplayedRow(r) \in Item
    BY <2>2 DEF ReplayedRow, Item
  <2>4. ReplayedRow(r).status = "pending" /\ ReplayedRow(r).attempts = 0
    BY DEF ReplayedRow, Item
  <2>. QED  BY <2>1, <2>2, <2>3, <2>4
<1>3. ASSUME NEW r \in Sound
      PROVE  /\ AgedItem(r) \in Sound /\ AgedItem(r).status = r.status
             /\ r.status \notin Unresolved => AgedItem(r) = r
  <2>1. AgedRow(r) \in Item /\ AgedRow(r).status = r.status /\ AgedRow(r).attempts = r.attempts
    BY WaitingRowTypes
  <2>. QED  BY <2>1 DEF AgedItem
<1>4. ASSUME NEW r \in Sound, r.status \in Unresolved
      PROVE  /\ FailedRow(r, r, "route") \in Sound
             /\ FailedRow(r, r, "route").status = IF GivesUp(r) THEN "dead_lettered" ELSE "retrying"
  <2>1. r.attempts \in 0 .. MaxAttempts - 1 /\ r.age \in Int /\ r \in Item /\ "route" \in ItemError
    BY <1>4 DEF Item, ItemError
  <2>2. /\ FailedRow(r, r, "route") \in Item
        /\ FailedRow(r, r, "route").status \in Unresolved => FailedRow(r, r, "route").attempts < MaxAttempts
    BY <2>1, WorkItemRowTypes
  <2>3. FailedRow(r, r, "route").status = IF GivesUp(r) THEN "dead_lettered" ELSE "retrying"
    BY <2>1 DEF FailedRow, Item
  <2>. QED  BY <2>2, <2>3
<1>. QED  BY <1>1, <1>2, <1>3, <1>4

LEMMA Envelopes ==
    /\ Answer \subseteq Envelope
    /\ \A l \in Letters : LetterEnvelope(l) \in Envelope /\ LetterEnvelope(l).letter = l
                          /\ LetterEnvelope(l).kind = "letter" /\ LetterEnvelope(l) \notin Answer
    /\ \A e \in Envelope : e.letter \in Letters /\ e.kind \in {"letter", "accepted", "bounced"}
    /\ \A e \in Envelope : e.kind = "letter" => e = LetterEnvelope(e.letter)
    /\ \A e \in Envelope : e.kind # "letter" <=> e \in Answer
    /\ NoPush \in Push /\ NoPush.step = "idle" /\ NoPush.reply = "none" /\ ~NoPush.refused
BY LettersAssumption DEF Answer, Envelope, LetterEnvelope, NoPush, Push

\* Where the relay's envelopes go.
LEMMA RelayTypes ==
    ASSUME held \in [Envelope -> {Never} \cup (0 .. Retention + 1)]
    PROVE  /\ \A e \in Envelope : /\ Deposited(e) \in [Envelope -> {Never} \cup (0 .. Retention + 1)]
                                  /\ Takes(e) => Deposited(e)[e] # Never
                                  /\ \A d \in Envelope : d # e => Deposited(e)[d] = held[d]
           /\ \A S : /\ Without(S) \in [Envelope -> {Never} \cup (0 .. Retention + 1)]
                     /\ \A e \in Envelope : Without(S)[e] = IF e \in S THEN Never ELSE held[e]
           /\ HeldFor("sender") = {a \in Answer : IsHeld(a)}
           /\ HeldFor("recipient") = {e \in Envelope : e.kind = "letter" /\ IsHeld(e)}
<1>. USE RelayAssumption DEF RelayAssumption
<1>1. 0 \in 0 .. Retention + 1 /\ Never # 0
  BY DEF Never
<1>2. ASSUME NEW e \in Envelope
      PROVE  /\ Deposited(e) \in [Envelope -> {Never} \cup (0 .. Retention + 1)]
             /\ Takes(e) => Deposited(e)[e] # Never
             /\ \A d \in Envelope : d # e => Deposited(e)[d] = held[d]
  BY <1>1 DEF Deposited, Takes, IsHeld
<1>3. ASSUME NEW S
      PROVE  /\ Without(S) \in [Envelope -> {Never} \cup (0 .. Retention + 1)]
             /\ \A e \in Envelope : Without(S)[e] = IF e \in S THEN Never ELSE held[e]
  BY DEF Without
<1>4. /\ HeldFor("sender") = {a \in Answer : IsHeld(a)}
      /\ HeldFor("recipient") = {e \in Envelope : e.kind = "letter" /\ IsHeld(e)}
  BY Envelopes DEF HeldFor, Addressee
<1>. QED  BY <1>2, <1>3, <1>4

TInv ==
    /\ TypeOK
    /\ items \in [Letters -> Sound]
    /\ ackItems \in [Answer -> Sound]
    /\ push.step \notin {"idle", "expire"} => items[push.letter].status \in Unresolved

\* One letter's row changes while nothing is pushed, or the row is the pushed
\* letter's own.
LEMMA ArrivalTypes ==
    ASSUME TInv, NEW l \in Letters, Arrives(l)
    PROVE  /\ known' \subseteq Letters /\ saved' \subseteq Letters /\ turned' \subseteq Letters
           /\ work' \in [Letters -> Work] /\ ackItems' \in [Answer -> Sound]
<1>1. CASE UNCHANGED <<known, saved, work, ackItems, turned>>
  BY <1>1 DEF TInv, TypeOK
<1>2. CASE Keep(l)
  BY <1>2 DEF Keep, TInv, TypeOK, Work
<1>3. ASSUME NEW b \in BOOLEAN, Refuse(l, b)
      PROVE  /\ known' \subseteq Letters /\ saved' \subseteq Letters /\ turned' \subseteq Letters
             /\ work' \in [Letters -> Work] /\ ackItems' \in [Answer -> Sound]
  <2>1. ackItems' \in [Answer -> Sound]
    BY <1>3, SoundRows DEF Refuse, Queue, TInv
  <2>. QED  BY <1>3, <2>1 DEF Refuse, TInv, TypeOK
<1>. QED  BY <1>1, <1>2, <1>3 DEF Arrives

LEMMA ItemsAreItems ==
    /\ \A f : f \in [Letters -> Sound] => f \in [Letters -> Item]
    /\ \A f : f \in [Answer -> Sound] => f \in [Answer -> Item]
BY DEF Sound

\* Every variable keeps its type, no item is retried beyond its attempts, and
\* the letter being pushed has an item that is still to be tried.
LEMMA TypeStep == TInv /\ [Next]_vars => TInv'
<1>. SUFFICES ASSUME TInv, [Next]_vars PROVE TInv'
  OBVIOUS
<1>. USE RelayAssumption DEF RelayAssumption
<1>a. TypeOK /\ items \in [Letters -> Sound] /\ ackItems \in [Answer -> Sound]
  BY DEF TInv
<1>p. /\ push \in Push /\ push.letter \in Letters /\ push.reply \in {"none", "done", "known"}
      /\ \A st \in {"idle", "direct", "wait", "relay", "handoff", "refuse",
                    "success", "failure", "expire"} :
            /\ [push EXCEPT !.step = st] \in Push
            /\ [push EXCEPT !.step = st].letter = push.letter
            /\ [push EXCEPT !.step = st].step = st
  BY <1>a DEF TypeOK, Push
<1>n. NoPush \in Push /\ NoPush.step = "idle"
  BY Envelopes
<1>i. push.step \notin {"idle", "expire"} => items[push.letter].status \in Unresolved
  BY DEF TInv
<1>1. ASSUME NEW l \in Letters, Compose(l) PROVE TInv'
  <2>1. items' = [items EXCEPT ![l] = NewItem(1)] /\ report' = [report EXCEPT ![l] = "pending"]
    BY <1>1 DEF Compose
  <2>2. items' \in [Letters -> Sound] /\ report' \in [Letters -> ReportStatus]
    BY <1>a, <2>1, SoundRows DEF TypeOK, ReportStatus
  <2>3. \A k \in Letters : items[k].status \in Unresolved => items'[k].status \in Unresolved
    BY <1>a, <2>1, SoundRows DEF Unresolved
  <2>. QED  BY <1>1, <1>a, <1>i, <1>p, <2>2, <2>3, ItemsAreItems
            DEF Compose, TInv, TypeOK, recipientVars, historyVars
<1>2. ASSUME NEW l \in Letters, Replay(l) PROVE TInv'
  <2>1. items' = [items EXCEPT ![l] = ReplayedRow(items[l])] /\ UNCHANGED push
    BY <1>2 DEF Replay
  <2>2. items' \in [Letters -> Sound]
    BY <1>a, <2>1, SoundRows
  <2>3. \A k \in Letters : items[k].status \in Unresolved => items'[k].status \in Unresolved
    BY <1>a, <2>1, SoundRows DEF Unresolved
  <2>4. report' \in [Letters -> ReportStatus] /\ handoff' \in [Letters -> {Never} \cup (0 .. NoAnswerTimeout)]
    BY <1>2, <1>a DEF Replay, TypeOK, ReportStatus
  <2>5. incidents' \in 0 .. MaxIncidents /\ replayed' \subseteq Letters
    BY <1>2, <1>a DEF Replay, TypeOK
  <2>. QED  BY <1>2, <1>a, <1>i, <1>p, <2>1, <2>2, <2>3, <2>4, <2>5, ItemsAreItems
            DEF Replay, TInv, TypeOK, recipientVars
<1>3. ASSUME NEW l \in Letters, Deliver(l) PROVE TInv'
  <2>1. copies' \in [Letters -> Nat] /\ work' \in [Letters -> Work]
    BY <1>3, <1>a DEF Deliver, TypeOK, Work
  <2>. QED  BY <1>3, <1>a, <1>i, <2>1 DEF Deliver, TInv, TypeOK, senderVars
<1>q. ASSUME NEW l \in Letters, NEW kind, Queue(l, kind) PROVE ackItems' \in [Answer -> Sound]
  BY <1>q, <1>a, SoundRows DEF Queue
<1>4. ASSUME NEW l \in Letters, AnswerAccepted(l) PROVE TInv'
  <2>1. ackItems' \in [Answer -> Sound] /\ work' \in [Letters -> Work]
    BY <1>4, <1>a, <1>q DEF AnswerAccepted, TypeOK, Work
  <2>. QED  BY <1>4, <1>a, <1>i, <2>1, ItemsAreItems DEF AnswerAccepted, TInv, TypeOK, senderVars, historyVars
<1>5. ASSUME NEW l \in Letters, Bounce(l) PROVE TInv'
  <2>1. /\ ackItems' \in [Answer -> Sound] /\ work' \in [Letters -> Work] /\ turned' \subseteq Letters
    BY <1>5, <1>a, <1>q DEF Bounce, TypeOK, Work
  <2>. QED  BY <1>5, <1>a, <1>i, <2>1, ItemsAreItems DEF Bounce, TInv, TypeOK, senderVars
<1>m. ASSUME OnlyPushMoves, push' \in Push,
             push'.step \notin {"idle", "expire"} => items[push'.letter].status \in Unresolved
      PROVE  TInv'
  BY <1>m, <1>a DEF OnlyPushMoves, TInv, TypeOK, recipientVars, historyVars
<1>6. ASSUME NEW l \in Letters, TakeItem(l) PROVE TInv'
  <2>1. push' \in Push /\ push'.letter = l
    BY <1>6, <1>n DEF TakeItem, Push
  <2>. QED  BY <1>6, <1>m, <2>1 DEF TakeItem, IsDue
<1>7. CASE PushDirect
  <2>1. push' \in Push /\ push'.letter = push.letter /\ push.step = "direct"
    BY <1>7, <1>p DEF PushDirect, Push
  <2>2. /\ known' \subseteq Letters /\ saved' \subseteq Letters /\ turned' \subseteq Letters
        /\ work' \in [Letters -> Work] /\ ackItems' \in [Answer -> Sound]
    BY <1>7, <1>p, ArrivalTypes DEF PushDirect
  <2>. QED  BY <1>7, <1>a, <1>i, <2>1, <2>2, ItemsAreItems DEF PushDirect, TInv, TypeOK
<1>8. CASE PushRefused
  <2>1. push' \in Push /\ push'.letter = push.letter /\ push.step = "direct"
    BY <1>8, <1>p DEF PushRefused, Push
  <2>2. turned' \subseteq Letters
    BY <1>8, <1>a, <1>p DEF PushRefused, TypeOK
  <2>. QED  BY <1>8, <1>a, <1>i, <2>1, <2>2 DEF PushRefused, TInv, TypeOK, recipientVars
<1>9. ASSUME PushUnreachable \/ HearReply \/ LoseReply PROVE TInv'
  <2>1. /\ push' \in Push /\ push'.letter = push.letter /\ push.step \in {"direct", "wait"}
        /\ OnlyPushMoves
    BY <1>9, <1>p, ZenonT(60) DEF PushUnreachable, HearReply, LoseReply, Goto
  <2>. QED  BY <1>i, <1>m, <2>1
<1>10. ASSUME PushRelay \/ \E arrives \in BOOLEAN : PushRelayFails(arrives) PROVE TInv'
  <2>1. push' \in Push /\ push'.letter = push.letter /\ push.step = "relay"
    BY <1>10, <1>p DEF PushRelay, PushRelayFails, Goto
  <2>2. held' \in {held, Deposited(LetterEnvelope(push.letter))}
    BY <1>10 DEF PushRelay, PushRelayFails
  <2>3. held' \in [Envelope -> {Never} \cup (0 .. Retention + 1)]
    BY <1>a, <1>p, <2>2, RelayTypes, Envelopes DEF TypeOK
  <2>4. UNCHANGED <<report, handoff, items, applied, spulled, recipientVars, incidents, historyVars>>
    BY <1>10 DEF PushRelay, PushRelayFails
  <2>. QED  BY <1>a, <1>i, <2>1, <2>3, <2>4 DEF TInv, TypeOK, recipientVars, historyVars
<1>11. CASE RecordHandoff
  <2>1. push' \in Push /\ push'.letter = push.letter /\ push.step = "handoff"
    BY <1>11, <1>p DEF RecordHandoff, Goto
  <2>2. handoff' \in [Letters -> {Never} \cup (0 .. NoAnswerTimeout)]
    <3>1. 0 \in 0 .. NoAnswerTimeout
      OBVIOUS
    <3>2. handoff' \in {handoff, [handoff EXCEPT ![push.letter] = 0]}
      BY <1>11 DEF RecordHandoff
    <3>. QED  BY <1>a, <3>1, <3>2 DEF TypeOK
  <2>. QED  BY <1>11, <1>a, <1>i, <2>1, <2>2 DEF RecordHandoff, TInv, TypeOK, recipientVars, historyVars
<1>12. CASE RecordRefused
  <2>1. push' \in Push /\ push'.letter = push.letter /\ push.step = "refuse"
    BY <1>12, <1>p DEF RecordRefused, Goto
  <2>2. report' \in [Letters -> ReportStatus]
    BY <1>12, <1>a DEF RecordRefused, TypeOK, ReportStatus
  <2>. QED  BY <1>12, <1>a, <1>i, <2>1, <2>2 DEF RecordRefused, TInv, TypeOK, recipientVars, historyVars
<1>13. CASE RecordSuccess
  <2>1. items' \in [Letters -> Sound]
    BY <1>13, <1>a, <1>p, SoundRows DEF RecordSuccess
  <2>. QED  BY <1>13, <1>a, <1>n, <2>1, ItemsAreItems DEF RecordSuccess, TInv, TypeOK, recipientVars, historyVars
<1>14. CASE RecordFailure
  <2>1. items[push.letter].status \in Unresolved /\ items[push.letter] \in Sound
    BY <1>14, <1>a, <1>p, <1>i DEF RecordFailure
  <2>2. items' = [items EXCEPT ![push.letter] = FailedRow(items[push.letter], items[push.letter], "route")]
    BY <1>14 DEF RecordFailure
  <2>3. items' \in [Letters -> Sound]
    BY <1>a, <2>1, <2>2, SoundRows
  <2>4. push' \in Push /\ push'.step \in {"idle", "expire"}
    BY <1>14, <1>p, <1>n DEF RecordFailure, Goto
  <2>. QED  BY <1>14, <1>a, <2>3, <2>4, ItemsAreItems DEF RecordFailure, TInv, TypeOK, recipientVars, historyVars
<1>15. CASE ExpireLetter
  <2>1. report' \in [Letters -> ReportStatus]
    BY <1>15, <1>a DEF ExpireLetter, TypeOK, ReportStatus
  <2>. QED  BY <1>15, <1>a, <1>n, <2>1 DEF ExpireLetter, TInv, TypeOK, recipientVars, historyVars
<1>16. CASE ExpireUnanswered
  <2>1. report' \in [Letters -> ReportStatus]
    BY <1>16, <1>a DEF ExpireUnanswered, TypeOK, ReportStatus
  <2>. QED  BY <1>16, <1>a, <1>i, <2>1 DEF ExpireUnanswered, TInv, TypeOK, recipientVars, historyVars
<1>17. ASSUME NEW heard \in BOOLEAN, PickUpLetters(heard) PROVE TInv'
  <2>1. {e.letter : e \in HeldFor("recipient")} \subseteq Letters
    BY Envelopes DEF HeldFor
  <2>2. held' \in [Envelope -> {Never} \cup (0 .. Retention + 1)]
    BY <1>17, <1>a, RelayTypes DEF PickUpLetters, PickedUp, TypeOK
  <2>3. rpulled' \subseteq Letters /\ gone' \subseteq Letters
    BY <1>17, <1>a, <2>1 DEF PickUpLetters, TypeOK
  <2>. QED  BY <1>17, <1>a, <1>i, <2>2, <2>3 DEF PickUpLetters, TInv, TypeOK, senderVars
<1>18. ASSUME NEW heard \in BOOLEAN, PickUpAnswers(heard) PROVE TInv'
  <2>2. held' \in [Envelope -> {Never} \cup (0 .. Retention + 1)]
    BY <1>18, <1>a, RelayTypes DEF PickUpAnswers, PickedUp, TypeOK
  <2>3. spulled' \subseteq Answer
    BY <1>18, <1>a, RelayTypes DEF PickUpAnswers, TypeOK
  <2>. QED  BY <1>18, <1>a, <1>i, <2>2, <2>3 DEF PickUpAnswers, TInv, TypeOK, recipientVars, historyVars
<1>19. ASSUME NEW l \in rpulled, ReceivePulled(l) PROVE TInv'
  <2>1. /\ known' \subseteq Letters /\ saved' \subseteq Letters /\ turned' \subseteq Letters
        /\ work' \in [Letters -> Work] /\ ackItems' \in [Answer -> Sound]
    BY <1>19, <1>a, ArrivalTypes DEF ReceivePulled, TypeOK
  <2>. QED  BY <1>19, <1>a, <1>i, <2>1, ItemsAreItems DEF ReceivePulled, TInv, TypeOK, senderVars
<1>20. ASSUME NEW l \in rpulled, RejectPulled(l) PROVE TInv'
  BY <1>20, <1>a, <1>i DEF RejectPulled, TInv, TypeOK, senderVars
<1>t. ASSUME NEW a \in Answer, Apply(a)
      PROVE  applied' \subseteq Answer /\ report' \in [Letters -> ReportStatus]
  BY <1>t, <1>a DEF Apply, Told, TypeOK, ReportStatus, Answer
<1>21. ASSUME NEW a \in spulled, ApplyPulled(a) PROVE TInv'
  <2>1. applied' \subseteq Answer /\ report' \in [Letters -> ReportStatus]
    BY <1>21, <1>a, <1>t DEF ApplyPulled, TypeOK
  <2>. QED  BY <1>21, <1>a, <1>i, <2>1 DEF ApplyPulled, TInv, TypeOK, recipientVars, historyVars
<1>22. ASSUME NEW a \in spulled, RejectAnswer(a) PROVE TInv'
  BY <1>22, <1>a, <1>i DEF RejectAnswer, TInv, TypeOK, recipientVars, historyVars
<1>23. ASSUME NEW a \in Answer, NEW direct \in Outcome, NEW relay \in Outcome, TryAnswer(a, direct, relay)
       PROVE  TInv'
  <2>1. applied' \subseteq Answer /\ report' \in [Letters -> ReportStatus]
    BY <1>23, <1>a, <1>t DEF TryAnswer, TypeOK
  <2>2. held' \in [Envelope -> {Never} \cup (0 .. Retention + 1)]
    BY <1>23, <1>a, RelayTypes, Envelopes DEF TryAnswer, TypeOK
  <2>3. /\ ackItems[a] \in Sound /\ ackItems[a].status \in Unresolved
        /\ ackItems' \in {[ackItems EXCEPT ![a] = PushedRow(ackItems[a])],
                          [ackItems EXCEPT ![a] = FailedRow(ackItems[a], ackItems[a], "route")]}
    BY <1>23, <1>a DEF TryAnswer, IsDue
  <2>4. ackItems' \in [Answer -> Sound]
    BY <1>a, <2>3, SoundRows
  <2>. QED  BY <1>23, <1>a, <1>i, <2>1, <2>2, <2>4, ItemsAreItems DEF TryAnswer, TInv, TypeOK, historyVars
<1>24. CASE Prune
  <2>1. held' \in [Envelope -> {Never} \cup (0 .. Retention + 1)]
    BY <1>24, <1>a, RelayTypes DEF Prune, TypeOK
  <2>2. gone' \subseteq Letters /\ awaited' \subseteq Letters
    BY <1>24, <1>a DEF Prune, TypeOK
  <2>. QED  BY <1>24, <1>a, <1>i, <2>1, <2>2 DEF Prune, TInv, TypeOK, senderVars, recipientVars
<1>25. CASE Tick
  <2>1. items' \in [Letters -> Sound] /\ ackItems' \in [Answer -> Sound]
    BY <1>25, <1>a, SoundRows DEF Tick
  <2>2. \A l \in Letters : items'[l].status = items[l].status
    BY <1>25, <1>a, SoundRows DEF Tick
  <2>3. handoff' \in [Letters -> {Never} \cup (0 .. NoAnswerTimeout)]
    BY <1>25, <1>a DEF Tick, TypeOK, Older
  <2>4. held' \in [Envelope -> {Never} \cup (0 .. Retention + 1)]
    BY <1>25, <1>a DEF Tick, TypeOK, Older
  <2>. QED  BY <1>25, <1>a, <1>i, <1>p, <2>1, <2>2, <2>3, <2>4, ItemsAreItems
            DEF Tick, TInv, TypeOK, historyVars
<1>26. CASE SenderCrash
  BY <1>26, <1>a, <1>n DEF SenderCrash, TInv, TypeOK, recipientVars, historyVars
<1>27. CASE RecipientCrash
  <2>1. push' \in Push /\ push'.letter = push.letter /\ push'.step = push.step
    BY <1>27, <1>p DEF RecipientCrash, Push
  <2>2. work' \in [Letters -> Work] /\ gone' \subseteq Letters /\ incidents' \in 0 .. MaxIncidents
    BY <1>27, <1>a DEF RecipientCrash, TypeOK, Work
  <2>. QED  BY <1>27, <1>a, <1>i, <2>1, <2>2 DEF RecipientCrash, TInv, TypeOK
<1>28. CASE UNCHANGED vars
  BY <1>28, <1>a, <1>i DEF vars, TInv, TypeOK
<1>. QED  BY <1>1, <1>2, <1>3, <1>4, <1>5, <1>6, <1>7, <1>8, <1>9, <1>10, <1>11, <1>12, <1>13,
             <1>14, <1>15, <1>16, <1>17, <1>18, <1>19, <1>20, <1>21, <1>22, <1>23, <1>24, <1>25,
             <1>26, <1>27, <1>28
          DEF Next, SenderStep, PullStep, AnswerStep, WorkStep

LEMMA TypeInit == Init => TInv
<1>. SUFFICES ASSUME Init PROVE TInv
  OBVIOUS
<1>1. items \in [Letters -> Sound] /\ ackItems \in [Answer -> Sound]
  BY SoundRows DEF Init
<1>2. push \in Push /\ push.step = "idle"
  BY Envelopes DEF Init
<1>. QED  BY <1>1, <1>2, ItemsAreItems, RelayAssumption
          DEF Init, TInv, TypeOK, RelayAssumption, ReportStatus, Work

\* Every variable keeps its type.
THEOREM TypeCorrect == Spec => []TypeOK
<1>1. TInv => TypeOK
  BY DEF TInv
<1>. QED  BY <1>1, TypeInit, TypeStep, PTL DEF Spec

-----------------------------------------------------------------------------
(* The promise.  Whatever carries a letter was given it by its sender, and    *)
(* whatever carries an answer, the recipient has made it so.                  *)

Sent(l) == report[l] # "unsent"

Honest(a) ==
    /\ Sent(a.letter)
    /\ a.kind = "accepted" => copies[a.letter] = 1
    /\ a.kind = "bounced" => a.letter \in turned

SentInv ==
    /\ \A l \in Letters : items[l].status # "absent" => Sent(l)
    /\ push.step # "idle" => Sent(push.letter)
    /\ \A l \in Letters : held[LetterEnvelope(l)] # Never => Sent(l)
    /\ \A l \in rpulled \cup known : Sent(l)

WorkInv ==
    /\ saved \subseteq known
    /\ \A l \in Letters : copies[l] \in {0, 1} /\ (copies[l] = 1 => l \in saved)
    /\ \A l \in Letters : work[l] = "decide" => copies[l] = 0 /\ l \in saved
    /\ \A l \in Letters : work[l] = "answer" => copies[l] = 1

AnswerInv ==
    /\ push.refused \/ push.step = "refuse" => push.letter \in turned
    /\ \A a \in Answer : ackItems[a].status # "absent" \/ held[a] # Never \/ a \in spulled
                         => Honest(a)

PInv == SentInv /\ WorkInv /\ AnswerInv

LEMMA ApplyTells ==
    ASSUME TInv, NEW a \in Answer, Honest(a), Apply(a), UNCHANGED <<copies, turned>>
    PROVE  Service!Next \/ UNCHANGED Service!vars
<1>1. a.letter \in Letters /\ a.kind \in {"accepted", "bounced"}
  BY DEF Answer
<1>2. CASE a \in applied
  BY <1>2 DEF Apply, Service!vars
<1>3. CASE a \notin applied /\ a.kind = "accepted"
  <2>1. Service!TellDelivered(a.letter)
    BY <1>3 DEF Apply, Told, Honest, Sent, Service!TellDelivered, Service!Tell, Service!Sent
  <2>. QED  BY <1>1, <2>1 DEF Service!Next
<1>4. CASE a \notin applied /\ a.kind = "bounced"
  <2>1. Service!TellBounced(a.letter)
    BY <1>4 DEF Apply, Told, Honest, Sent, Service!TellBounced, Service!Tell, Service!Sent
  <2>. QED  BY <1>1, <2>1 DEF Service!Next
<1>. QED  BY <1>1, <1>2, <1>3, <1>4

LEMMA ArrivesKeepsPromise ==
    ASSUME TInv, NEW l \in Letters, Sent(l), Arrives(l), UNCHANGED <<report, copies>>
    PROVE  Service!Next \/ UNCHANGED Service!vars
<1>1. CASE UNCHANGED turned
  BY <1>1 DEF Service!vars
<1>2. CASE turned' = turned \cup {l}
  <2>1. Service!Refuse(l)
    BY <1>2 DEF Sent, Service!Refuse, Service!Sent
  <2>. QED  BY <2>1 DEF Service!Next
<1>. QED  BY <1>1, <1>2 DEF Arrives, Keep, Refuse

\* Each step of the nodes is a step of the service, or none.
LEMMA PromiseStep ==
    ASSUME TInv, PInv, [Next]_vars
    PROVE  Service!Next \/ UNCHANGED Service!vars
<1>a. TypeOK /\ SentInv /\ WorkInv /\ AnswerInv
  BY DEF TInv, PInv
<1>p. push.letter \in Letters
  BY <1>a DEF TypeOK, Push
<1>s. ASSUME UNCHANGED <<report, copies, turned>> PROVE UNCHANGED Service!vars
  BY <1>s DEF Service!vars
<1>1. ASSUME NEW l \in Letters, Compose(l) PROVE Service!Next
  <2>1. Service!Post(l)
    BY <1>1 DEF Compose, historyVars, Service!Post, Service!Tell, Service!Sent
  <2>. QED  BY <2>1 DEF Service!Next
<1>2. ASSUME NEW l \in Letters, Replay(l) PROVE Service!Next \/ UNCHANGED Service!vars
  <2>1. CASE report[l] = "expired"
    <3>1. Service!TryAgain(l)
      BY <1>2, <2>1 DEF Replay, Service!TryAgain, Service!Tell
    <3>. QED  BY <3>1 DEF Service!Next
  <2>2. CASE report[l] # "expired"
    BY <1>2, <2>2, <1>s DEF Replay
  <2>. QED  BY <2>1, <2>2
<1>3. ASSUME NEW l \in Letters, Deliver(l) PROVE Service!Next
  <2>1. copies[l] = 0 /\ Sent(l)
    BY <1>3, <1>a DEF Deliver, WorkInv, SentInv
  <2>2. copies' = [copies EXCEPT ![l] = 1]
    BY <1>3, <2>1 DEF Deliver
  <2>3. Service!Accept(l)
    BY <1>3, <2>1, <2>2 DEF Deliver, senderVars, Sent, Service!Accept, Service!Sent
  <2>. QED  BY <2>3 DEF Service!Next
<1>4. ASSUME NEW l \in Letters, Bounce(l) PROVE Service!Next
  <2>1. Sent(l)
    BY <1>4, <1>a DEF Bounce, WorkInv, SentInv
  <2>2. Service!Refuse(l)
    BY <1>4, <2>1 DEF Bounce, senderVars, Sent, Service!Refuse, Service!Sent
  <2>. QED  BY <2>2 DEF Service!Next
<1>5. ASSUME NEW l \in Letters, AnswerAccepted(l) \/ TakeItem(l) PROVE UNCHANGED Service!vars
  BY <1>5, <1>s DEF AnswerAccepted, TakeItem, OnlyPushMoves, senderVars, historyVars
<1>6. CASE PushDirect
  <2>1. Sent(push.letter)
    BY <1>6, <1>a DEF PushDirect, SentInv
  <2>. QED  BY <1>6, <1>p, <2>1, ArrivesKeepsPromise DEF PushDirect
<1>7. CASE PushRefused
  <2>1. Sent(push.letter)
    BY <1>7, <1>a DEF PushRefused, SentInv
  <2>2. Service!Refuse(push.letter)
    BY <1>7, <2>1 DEF PushRefused, Sent, Service!Refuse, Service!Sent
  <2>. QED  BY <1>p, <2>2 DEF Service!Next
<1>8. ASSUME PushUnreachable \/ HearReply \/ LoseReply PROVE UNCHANGED Service!vars
  BY <1>8, <1>s DEF PushUnreachable, HearReply, LoseReply, OnlyPushMoves, historyVars
<1>9. ASSUME PushRelay \/ \E arrives \in BOOLEAN : PushRelayFails(arrives) PROVE UNCHANGED Service!vars
  BY <1>9, <1>s DEF PushRelay, PushRelayFails, historyVars
<1>10. ASSUME RecordHandoff \/ RecordSuccess \/ RecordFailure PROVE UNCHANGED Service!vars
  BY <1>10, <1>s DEF RecordHandoff, RecordSuccess, RecordFailure, historyVars
<1>11. CASE RecordRefused
  <2>1. CASE report[push.letter] = "pending"
    <3>1. push.letter \in turned
      BY <1>11, <1>a DEF RecordRefused, AnswerInv
    <3>2. Service!TellBounced(push.letter)
      BY <1>11, <2>1, <3>1 DEF RecordRefused, historyVars, Service!TellBounced, Service!Tell, Service!Sent
    <3>. QED  BY <1>p, <3>2 DEF Service!Next
  <2>2. CASE report[push.letter] # "pending"
    BY <1>11, <2>2, <1>s DEF RecordRefused, historyVars
  <2>. QED  BY <2>1, <2>2
<1>12. CASE ExpireLetter
  <2>1. CASE report[push.letter] = "pending"
    <3>1. report' = [l \in Letters |-> IF l \in {push.letter} THEN "expired" ELSE report[l]]
      BY <1>12, <1>a, <1>p, <2>1 DEF ExpireLetter, TypeOK
    <3>2. Service!GiveUp({push.letter})
      BY <1>12, <2>1, <3>1 DEF ExpireLetter, historyVars, Service!GiveUp
    <3>. QED  BY <1>p, <3>2 DEF Service!Next
  <2>2. CASE report[push.letter] # "pending"
    BY <1>12, <2>2, <1>s DEF ExpireLetter, historyVars
  <2>. QED  BY <2>1, <2>2
<1>13. CASE ExpireUnanswered
  <2>1. Service!GiveUp(Overdue)
    BY <1>13 DEF ExpireUnanswered, Overdue, historyVars, Service!GiveUp
  <2>2. Overdue \in SUBSET Letters
    BY DEF Overdue
  <2>. QED  BY <2>1, <2>2 DEF Service!Next
<1>14. ASSUME NEW heard \in BOOLEAN, PickUpLetters(heard) \/ PickUpAnswers(heard)
       PROVE  UNCHANGED Service!vars
  BY <1>14, <1>s DEF PickUpLetters, PickUpAnswers, senderVars, historyVars
<1>15. ASSUME NEW l \in rpulled, ReceivePulled(l) PROVE Service!Next \/ UNCHANGED Service!vars
  <2>1. l \in Letters /\ Sent(l)
    BY <1>a DEF TypeOK, SentInv
  <2>. QED  BY <1>15, <2>1, ArrivesKeepsPromise DEF ReceivePulled, senderVars
<1>16. ASSUME NEW l \in rpulled, RejectPulled(l) PROVE UNCHANGED Service!vars
  BY <1>16, <1>s DEF RejectPulled, senderVars
<1>17. ASSUME NEW a \in spulled, ApplyPulled(a) PROVE Service!Next \/ UNCHANGED Service!vars
  <2>1. a \in Answer /\ Honest(a)
    BY <1>a DEF TypeOK, AnswerInv
  <2>. QED  BY <1>17, <2>1, ApplyTells DEF ApplyPulled, historyVars
<1>18. ASSUME NEW a \in spulled, RejectAnswer(a) PROVE UNCHANGED Service!vars
  BY <1>18, <1>s DEF RejectAnswer, historyVars
<1>19. ASSUME NEW a \in Answer, NEW direct \in Outcome, NEW relay \in Outcome, TryAnswer(a, direct, relay)
       PROVE  Service!Next \/ UNCHANGED Service!vars
  <2>1. Honest(a)
    BY <1>19, <1>a DEF TryAnswer, IsDue, Unresolved, AnswerInv
  <2>2. UNCHANGED <<copies, turned>> /\ (Apply(a) \/ UNCHANGED report)
    BY <1>19 DEF TryAnswer, historyVars
  <2>. QED  BY <2>1, <2>2, <1>s, ApplyTells
<1>20. ASSUME Prune \/ Tick \/ SenderCrash \/ RecipientCrash PROVE UNCHANGED Service!vars
  BY <1>20, <1>s DEF Prune, Tick, SenderCrash, RecipientCrash, senderVars, historyVars
<1>21. CASE UNCHANGED vars
  BY <1>21, <1>s DEF vars
<1>. QED  BY <1>1, <1>2, <1>3, <1>4, <1>5, <1>6, <1>7, <1>8, <1>9, <1>10, <1>11, <1>12, <1>13,
             <1>14, <1>15, <1>16, <1>17, <1>18, <1>19, <1>20, <1>21
          DEF Next, SenderStep, PullStep, AnswerStep, WorkStep

\* What the service has once said or done stays so.
Grows ==
    /\ \A l \in Letters : Sent(l) => Sent(l)'
    /\ \A l \in Letters : copies[l] = 1 => copies'[l] = 1
    /\ turned \subseteq turned'

LEMMA ServiceGrows ==
    ASSUME TInv, Service!Next \/ UNCHANGED Service!vars
    PROVE  Grows
<1>t. report \in [Letters -> ReportStatus] /\ copies \in [Letters -> Nat]
  BY DEF TInv, TypeOK
<1>1. CASE UNCHANGED Service!vars
  BY <1>1 DEF Service!vars, Grows, Sent
<1>2. ASSUME NEW l \in Letters, NEW r \in {"pending", "delivered", "bounced"}, Service!Tell(l, r)
      PROVE  Grows
  BY <1>2, <1>t DEF Service!Tell, Grows, Sent
<1>3. ASSUME NEW l \in Letters, Service!Accept(l) PROVE Grows
  BY <1>3, <1>t DEF Service!Accept, Grows, Sent
<1>4. ASSUME NEW l \in Letters, Service!Refuse(l) PROVE Grows
  BY <1>4 DEF Service!Refuse, Grows, Sent
<1>5. ASSUME NEW S \in SUBSET Letters, Service!GiveUp(S) PROVE Grows
  BY <1>5, <1>t DEF Service!GiveUp, Grows, Sent
<1>. QED  BY <1>1, <1>2, <1>3, <1>4, <1>5
          DEF Service!Next, Service!Post, Service!TellDelivered, Service!TellBounced, Service!TryAgain

LEMMA HonestStays ==
    ASSUME TInv, Grows, NEW a \in Answer, Honest(a)
    PROVE  Honest(a)'
<1>1. a.letter \in Letters
  BY DEF Answer
<1>. QED  BY <1>1 DEF Grows, Honest, Sent

\* Whoever is sent on or counted was sent before.
LEMMA SentStep ==
    ASSUME TInv, PInv, Grows, [Next]_vars
    PROVE  SentInv'
<1>a. TypeOK /\ SentInv /\ items \in [Letters -> Sound]
  BY DEF TInv, PInv
<1>p. push \in Push /\ push.letter \in Letters
  BY <1>a DEF TypeOK, Push
<1>n. NoPush.step = "idle"
  BY Envelopes
<1>g. \A l \in Letters : Sent(l) => Sent(l)'
  BY DEF Grows
<1>e. \A l \in Letters : LetterEnvelope(l) \in Envelope
  BY Envelopes
<1>1. /\ \A l \in Letters : items'[l].status # "absent" => Sent(l)'
      /\ push'.step # "idle" => Sent(push.letter)'
  <2>1. ASSUME NEW l \in Letters, Compose(l)
        PROVE  /\ \A k \in Letters : items'[k].status # "absent" => Sent(k)'
               /\ push'.step # "idle" => Sent(push.letter)'
    <3>1. Sent(l)'
      BY <2>1, <1>a DEF Compose, TypeOK, Sent
    <3>2. \A k \in Letters : k # l => items'[k] = items[k]
      BY <2>1, <1>a DEF Compose
    <3>. QED  BY <2>1, <3>1, <3>2, <1>a, <1>g, <1>p DEF Compose, SentInv, Sent
  <2>2. ASSUME NEW l \in Letters, Replay(l)
        PROVE  /\ \A k \in Letters : items'[k].status # "absent" => Sent(k)'
               /\ push'.step # "idle" => Sent(push.letter)'
    <3>1. Sent(l)
      BY <2>2, <1>a DEF Replay, GivenUp, SentInv
    <3>2. \A k \in Letters : k # l => items'[k] = items[k]
      BY <2>2, <1>a DEF Replay
    <3>. QED  BY <2>2, <3>1, <3>2, <1>a, <1>g, <1>p DEF Replay, SentInv, Sent
  <2>3. ASSUME UNCHANGED items, push'.letter = push.letter \/ push'.step = "idle",
               push.step # "idle" \/ push'.step = "idle"
        PROVE  /\ \A k \in Letters : items'[k].status # "absent" => Sent(k)'
               /\ push'.step # "idle" => Sent(push.letter)'
    BY <2>3, <1>a, <1>g, <1>p DEF SentInv, Sent
  <2>u. ASSUME UNCHANGED <<items, push>>
        PROVE  /\ \A k \in Letters : items'[k].status # "absent" => Sent(k)'
               /\ push'.step # "idle" => Sent(push.letter)'
    BY <2>u, <1>a, <1>g, <1>p DEF SentInv, Sent
  <2>4. ASSUME NEW l \in Letters, TakeItem(l)
        PROVE  /\ \A k \in Letters : items'[k].status # "absent" => Sent(k)'
               /\ push'.step # "idle" => Sent(push.letter)'
    <3>1. Sent(l)
      BY <2>4, <1>a DEF TakeItem, IsDue, Unresolved, SentInv
    <3>2. push'.letter = l /\ UNCHANGED items
      BY <2>4, Envelopes DEF TakeItem, OnlyPushMoves, Push
    <3>. QED  BY <3>1, <3>2, <1>a, <1>g DEF SentInv, Sent
  <2>5. ASSUME RecordSuccess \/ RecordFailure
        PROVE  /\ \A k \in Letters : items'[k].status # "absent" => Sent(k)'
               /\ push'.step # "idle" => Sent(push.letter)'
    <3>1. Sent(push.letter)
      BY <2>5, <1>a DEF RecordSuccess, RecordFailure, SentInv
    <3>2. \A k \in Letters : k # push.letter => items'[k] = items[k]
      BY <2>5, <1>a DEF RecordSuccess, RecordFailure
    <3>3. push'.letter = push.letter \/ push'.step = "idle"
      BY <2>5, <1>n, <1>p DEF RecordSuccess, RecordFailure, Goto, Push
    <3>. QED  BY <3>1, <3>2, <3>3, <1>a, <1>g, <1>p DEF SentInv, Sent
  <2>6. ASSUME PushDirect \/ PushRefused \/ PushUnreachable \/ HearReply \/ LoseReply \/ PushRelay
               \/ (\E arrives \in BOOLEAN : PushRelayFails(arrives)) \/ RecordHandoff \/ RecordRefused
        PROVE  UNCHANGED items /\ push'.letter = push.letter /\ push.step # "idle"
    BY <2>6, <1>p DEF PushDirect, PushRefused, PushUnreachable, HearReply, LoseReply, PushRelay,
                      PushRelayFails, RecordHandoff, RecordRefused, Goto, OnlyPushMoves, Push
  <2>7. ASSUME ExpireLetter \/ SenderCrash PROVE UNCHANGED items /\ push'.step = "idle"
    BY <2>7, <1>n DEF ExpireLetter, SenderCrash
  <2>8. CASE RecipientCrash
    <3>1. push'.letter = push.letter /\ push'.step = push.step /\ UNCHANGED items
      BY <2>8, <1>p DEF RecipientCrash, Push
    <3>. QED  BY <3>1, <1>a, <1>g, <1>p DEF SentInv, Sent
  <2>9. CASE Tick
    <3>1. \A k \in Letters : items'[k].status = items[k].status
      BY <2>9, <1>a, SoundRows DEF Tick
    <3>. QED  BY <2>9, <3>1, <1>a, <1>g, <1>p DEF Tick, SentInv, Sent
  <2>10. ASSUME NEW l \in Letters, WorkStep(l) PROVE UNCHANGED <<items, push>>
    BY <2>10 DEF WorkStep, Deliver, AnswerAccepted, Bounce, senderVars
  <2>11. ASSUME PullStep \/ AnswerStep \/ Prune \/ ExpireUnanswered PROVE UNCHANGED <<items, push>>
    BY <2>11 DEF PullStep, PickUpLetters, PickUpAnswers, ReceivePulled, RejectPulled, ApplyPulled,
                 RejectAnswer, AnswerStep, TryAnswer, Prune, ExpireUnanswered, senderVars
  <2>12. CASE UNCHANGED vars
    BY <2>12, <2>u DEF vars
  <2>. QED  BY <2>1, <2>2, <2>3, <2>u, <2>4, <2>5, <2>6, <2>7, <2>8, <2>9, <2>10, <2>11, <2>12
            DEF Next, SenderStep
<1>2. /\ \A l \in Letters : held'[LetterEnvelope(l)] # Never => Sent(l)'
      /\ \A l \in rpulled' \cup known' : Sent(l)'
  <2>u. ASSUME \A l \in Letters : held'[LetterEnvelope(l)] # Never => held[LetterEnvelope(l)] # Never,
               rpulled' \subseteq rpulled, known' \subseteq known
        PROVE  /\ \A l \in Letters : held'[LetterEnvelope(l)] # Never => Sent(l)'
               /\ \A l \in rpulled' \cup known' : Sent(l)'
    BY <2>u, <1>a, <1>g DEF SentInv, TypeOK
  <2>1. ASSUME NEW l \in Letters, Sent(l), Arrives(l), UNCHANGED held, rpulled' \subseteq rpulled
        PROVE  /\ \A k \in Letters : held'[LetterEnvelope(k)] # Never => Sent(k)'
               /\ \A k \in rpulled' \cup known' : Sent(k)'
    <3>1. known' \subseteq known \cup {l}
      BY <2>1 DEF Arrives, Keep, Refuse
    <3>. QED  BY <2>1, <3>1, <1>a, <1>g DEF SentInv, TypeOK
  <2>2. CASE PushDirect
    BY <2>1, <2>2, <1>a, <1>p DEF PushDirect, SentInv
  <2>3. ASSUME NEW l \in rpulled, ReceivePulled(l)
        PROVE  /\ \A k \in Letters : held'[LetterEnvelope(k)] # Never => Sent(k)'
               /\ \A k \in rpulled' \cup known' : Sent(k)'
    BY <2>1, <2>3, <1>a DEF ReceivePulled, SentInv, TypeOK
  <2>4. ASSUME PushRelay \/ \E arrives \in BOOLEAN : PushRelayFails(arrives)
        PROVE  /\ \A k \in Letters : held'[LetterEnvelope(k)] # Never => Sent(k)'
               /\ \A k \in rpulled' \cup known' : Sent(k)'
    <3>1. /\ held' \in {held, Deposited(LetterEnvelope(push.letter))}
          /\ push.step = "relay" /\ UNCHANGED <<rpulled, known>>
      BY <2>4 DEF PushRelay, PushRelayFails, recipientVars
    <3>2. Sent(push.letter)
      BY <3>1, <1>a DEF SentInv
    <3>3. ASSUME NEW k \in Letters, k # push.letter
          PROVE  held'[LetterEnvelope(k)] = held[LetterEnvelope(k)]
      <4>1. LetterEnvelope(k) # LetterEnvelope(push.letter)
        BY <3>3, <1>p DEF LetterEnvelope
      <4>. QED  BY <3>1, <4>1, <1>a, <1>e, <1>p, RelayTypes DEF TypeOK
    <3>. QED  BY <3>1, <3>2, <3>3, <1>a, <1>g, <1>p DEF SentInv, TypeOK
  <2>5. ASSUME NEW heard \in BOOLEAN, PickUpLetters(heard)
        PROVE  /\ \A k \in Letters : held'[LetterEnvelope(k)] # Never => Sent(k)'
               /\ \A k \in rpulled' \cup known' : Sent(k)'
    <3>1. /\ \A e \in Envelope : held'[e] # Never => held[e] # Never
          /\ HeldFor("recipient") = {e \in Envelope : e.kind = "letter" /\ IsHeld(e)}
      BY <2>5, <1>a, RelayTypes DEF PickUpLetters, PickedUp, TypeOK
    <3>2. \A e \in HeldFor("recipient") : Sent(e.letter) /\ e.letter \in Letters
      BY <3>1, <1>a, Envelopes DEF SentInv, IsHeld
    <3>3. rpulled' \subseteq {e.letter : e \in HeldFor("recipient")} /\ UNCHANGED known
      BY <2>5 DEF PickUpLetters
    <3>. QED  BY <3>1, <3>2, <3>3, <1>a, <1>e, <1>g DEF SentInv, TypeOK
  <2>6. ASSUME NEW a \in Answer, NEW direct \in Outcome, NEW relay \in Outcome, TryAnswer(a, direct, relay)
        PROVE  /\ \A k \in Letters : held'[LetterEnvelope(k)] # Never => Sent(k)'
               /\ \A k \in rpulled' \cup known' : Sent(k)'
    <3>1. held' \in {held, Deposited(a)} /\ UNCHANGED <<rpulled, known>>
      BY <2>6 DEF TryAnswer
    <3>2. \A k \in Letters : held'[LetterEnvelope(k)] = held[LetterEnvelope(k)]
      BY <3>1, <1>a, RelayTypes, Envelopes DEF TypeOK
    <3>. QED  BY <2>u, <3>1, <3>2
  <2>7. ASSUME NEW heard \in BOOLEAN, PickUpAnswers(heard)
        PROVE  /\ \A k \in Letters : held'[LetterEnvelope(k)] # Never => Sent(k)'
               /\ \A k \in rpulled' \cup known' : Sent(k)'
    <3>1. \A e \in Envelope : held'[e] # Never => held[e] # Never
      BY <2>7, <1>a, RelayTypes DEF PickUpAnswers, PickedUp, TypeOK
    <3>. QED  BY <2>7, <2>u, <3>1, <1>e DEF PickUpAnswers, recipientVars
  <2>8. CASE Prune
    <3>1. \A e \in Envelope : held'[e] # Never => held[e] # Never
      BY <2>8, <1>a, RelayTypes DEF Prune, TypeOK
    <3>. QED  BY <2>8, <2>u, <3>1, <1>e DEF Prune, recipientVars
  <2>9. CASE Tick
    <3>1. \A e \in Envelope : held'[e] # Never => held[e] # Never
      BY <2>9 DEF Tick
    <3>. QED  BY <2>9, <2>u, <3>1, <1>e DEF Tick
  <2>10. CASE RecipientCrash
    <3>1. saved \subseteq known
      BY DEF PInv, WorkInv
    <3>. QED  BY <2>10, <2>u, <3>1 DEF RecipientCrash
  <2>11. ASSUME NEW l \in Letters, Compose(l) \/ Replay(l) \/ WorkStep(l) \/ TakeItem(l)
         PROVE  UNCHANGED <<held, rpulled, known>>
    BY <2>11 DEF Compose, Replay, WorkStep, Deliver, AnswerAccepted, Bounce, TakeItem, OnlyPushMoves, recipientVars
  <2>12. ASSUME PushRefused \/ PushUnreachable \/ HearReply \/ LoseReply \/ RecordHandoff \/ RecordRefused
                \/ RecordSuccess \/ RecordFailure \/ ExpireLetter \/ ExpireUnanswered \/ SenderCrash
         PROVE  UNCHANGED <<held, rpulled, known>>
    BY <2>12 DEF PushRefused, PushUnreachable, HearReply, LoseReply, RecordHandoff, RecordRefused,
                 RecordSuccess, RecordFailure, ExpireLetter, ExpireUnanswered, SenderCrash,
                 OnlyPushMoves, recipientVars
  <2>13. ASSUME NEW l \in rpulled, RejectPulled(l)
         PROVE  UNCHANGED <<held, known>> /\ rpulled' \subseteq rpulled
    BY <2>13 DEF RejectPulled
  <2>14. ASSUME NEW a \in spulled, ApplyPulled(a) \/ RejectAnswer(a)
         PROVE  UNCHANGED <<held, rpulled, known>>
    BY <2>14 DEF ApplyPulled, RejectAnswer, recipientVars
  <2>15. CASE UNCHANGED vars
    BY <2>15, <2>u DEF vars
  <2>. QED  BY <2>u, <2>2, <2>3, <2>4, <2>5, <2>6, <2>7, <2>8, <2>9, <2>10, <2>11, <2>12, <2>13,
               <2>14, <2>15 DEF Next, SenderStep, PullStep, AnswerStep
<1>. QED  BY <1>1, <1>2 DEF SentInv, Sent

\* A letter is decided once: only a kept letter is, and a kept one stays known.
LEMMA WorkInvStep ==
    ASSUME TInv, PInv, [Next]_vars
    PROVE  WorkInv'
<1>a. TypeOK /\ WorkInv
  BY DEF TInv, PInv
<1>p. push.letter \in Letters
  BY <1>a DEF TypeOK, Push
<1>u. ASSUME UNCHANGED <<saved, known, work, copies>> PROVE WorkInv'
  BY <1>u, <1>a DEF WorkInv
<1>1. ASSUME NEW l \in Letters, Arrives(l), UNCHANGED copies PROVE WorkInv'
  <2>1. CASE UNCHANGED <<saved, known, work>>
    BY <1>1, <1>u, <2>1
  <2>2. CASE l \notin known /\ Keep(l)
    <3>1. copies[l] = 0
      BY <1>a, <2>2 DEF WorkInv
    <3>2. \A k \in Letters : work'[k] = IF k = l THEN "decide" ELSE work[k]
      BY <1>a, <2>2 DEF Keep, TypeOK
    <3>. QED  BY <1>1, <1>a, <2>2, <3>1, <3>2 DEF Keep, WorkInv
  <2>3. CASE \E b \in BOOLEAN : Refuse(l, b)
    <3>1. UNCHANGED <<saved, work>> /\ known \subseteq known'
      BY <2>3 DEF Refuse
    <3>. QED  BY <1>1, <1>a, <3>1 DEF WorkInv
  <2>. QED  BY <1>1, <2>1, <2>2, <2>3 DEF Arrives
<1>2. ASSUME NEW l \in Letters, Deliver(l) PROVE WorkInv'
  <2>1. copies[l] = 0 /\ l \in saved
    BY <1>2, <1>a DEF Deliver, WorkInv
  <2>2. \A k \in Letters : /\ work'[k] = IF k = l THEN "answer" ELSE work[k]
                           /\ copies'[k] = IF k = l THEN 1 ELSE copies[k]
    BY <1>2, <1>a, <2>1 DEF Deliver, TypeOK
  <2>. QED  BY <1>2, <1>a, <2>1, <2>2 DEF Deliver, WorkInv
<1>3. ASSUME NEW l \in Letters, AnswerAccepted(l) \/ Bounce(l) PROVE WorkInv'
  <2>1. \A k \in Letters : work'[k] = IF k = l THEN "none" ELSE work[k]
    BY <1>3, <1>a DEF AnswerAccepted, Bounce, TypeOK
  <2>2. UNCHANGED <<saved, known, copies>>
    BY <1>3 DEF AnswerAccepted, Bounce, historyVars
  <2>. QED  BY <1>a, <2>1, <2>2 DEF WorkInv
<1>4. CASE RecipientCrash
  <2>1. \A k \in Letters : work'[k] = "none"
    BY <1>4 DEF RecipientCrash
  <2>. QED  BY <1>4, <1>a, <2>1 DEF RecipientCrash, WorkInv
<1>5. CASE PushDirect
  BY <1>1, <1>5, <1>p DEF PushDirect
<1>6. ASSUME NEW l \in rpulled, ReceivePulled(l) PROVE WorkInv'
  BY <1>1, <1>6, <1>a DEF ReceivePulled, TypeOK
<1>7. ASSUME NEW l \in Letters, Compose(l) \/ Replay(l) \/ TakeItem(l)
      PROVE  UNCHANGED <<saved, known, work, copies>>
  BY <1>7 DEF Compose, Replay, TakeItem, OnlyPushMoves, recipientVars, historyVars
<1>8. ASSUME PushRefused \/ PushUnreachable \/ HearReply \/ LoseReply \/ PushRelay
             \/ (\E arrives \in BOOLEAN : PushRelayFails(arrives)) \/ RecordHandoff \/ RecordRefused
             \/ RecordSuccess \/ RecordFailure \/ ExpireLetter \/ ExpireUnanswered \/ SenderCrash
             \/ AnswerStep \/ Prune \/ Tick
      PROVE  UNCHANGED <<saved, known, work, copies>>
  BY <1>8 DEF PushRefused, PushUnreachable, HearReply, LoseReply, PushRelay, PushRelayFails,
              RecordHandoff, RecordRefused, RecordSuccess, RecordFailure, ExpireLetter,
              ExpireUnanswered, SenderCrash, AnswerStep, TryAnswer, Prune, Tick, OnlyPushMoves,
              recipientVars, historyVars
<1>9. ASSUME NEW heard \in BOOLEAN, PickUpLetters(heard) \/ PickUpAnswers(heard)
      PROVE  UNCHANGED <<saved, known, work, copies>>
  BY <1>9 DEF PickUpLetters, PickUpAnswers, recipientVars, historyVars
<1>10. ASSUME NEW l \in rpulled, RejectPulled(l) PROVE UNCHANGED <<saved, known, work, copies>>
  BY <1>10 DEF RejectPulled
<1>11. ASSUME NEW a \in spulled, ApplyPulled(a) \/ RejectAnswer(a)
       PROVE  UNCHANGED <<saved, known, work, copies>>
  BY <1>11 DEF ApplyPulled, RejectAnswer, recipientVars, historyVars
<1>12. CASE UNCHANGED vars
  BY <1>12, <1>u DEF vars
<1>. QED  BY <1>u, <1>2, <1>3, <1>4, <1>5, <1>6, <1>7, <1>8, <1>9, <1>10, <1>11, <1>12
          DEF Next, SenderStep, PullStep, WorkStep

\* What answers say is so.
LEMMA AnswerStepKeeps ==
    ASSUME TInv, PInv, Grows, [Next]_vars
    PROVE  AnswerInv'
<1>a. TypeOK /\ SentInv /\ WorkInv /\ AnswerInv /\ ackItems \in [Answer -> Sound]
  BY DEF TInv, PInv
<1>p. push \in Push /\ push.letter \in Letters
  BY <1>a DEF TypeOK, Push
<1>n. NoPush.step = "idle" /\ ~NoPush.refused
  BY Envelopes
<1>h. \A a \in Answer : Honest(a) => Honest(a)'
  BY HonestStays
<1>t. turned \subseteq turned'
  BY DEF Grows
<1>e. Answer \subseteq Envelope
  BY Envelopes
<1>1. push'.refused \/ push'.step = "refuse" => push'.letter \in turned'
  <2>1. ASSUME push'.letter = push.letter, push'.refused = push.refused,
               push'.step = "refuse" => push.step = "refuse" \/ push.refused
        PROVE  push'.refused \/ push'.step = "refuse" => push'.letter \in turned'
    BY <2>1, <1>a, <1>t DEF AnswerInv
  <2>u. UNCHANGED push => (push'.refused \/ push'.step = "refuse" => push'.letter \in turned')
    BY <1>a, <1>t DEF AnswerInv
  <2>i. push' = NoPush => ~(push'.refused \/ push'.step = "refuse")
    BY <1>n
  <2>2. ASSUME NEW l \in Letters, TakeItem(l) PROVE ~(push'.refused \/ push'.step = "refuse")
    BY <2>2, Envelopes DEF TakeItem, Push
  <2>3. CASE PushRefused
    BY <2>3, <1>p DEF PushRefused, Push
  <2>4. ASSUME PushDirect \/ PushUnreachable \/ HearReply \/ LoseReply \/ PushRelay
               \/ (\E arrives \in BOOLEAN : PushRelayFails(arrives)) \/ RecordHandoff \/ RecordRefused
               \/ RecipientCrash
        PROVE  /\ push'.letter = push.letter /\ push'.refused = push.refused
               /\ push'.step = "refuse" => push.step = "refuse" \/ push.refused
    BY <2>4, <1>p, ZenonT(60) DEF PushDirect, PushUnreachable, HearReply, LoseReply, PushRelay, PushRelayFails,
                      RecordHandoff, RecordRefused, RecipientCrash, Goto, Push
  <2>5. CASE RecordFailure
    <3>1. CASE push' = NoPush
      BY <3>1, <2>i
    <3>2. CASE Goto("expire")
      BY <3>2, <2>1, <1>p DEF Goto, Push
    <3>. QED  BY <2>5, <3>1, <3>2 DEF RecordFailure
  <2>6. ASSUME RecordSuccess \/ ExpireLetter \/ SenderCrash PROVE push' = NoPush
    BY <2>6 DEF RecordSuccess, ExpireLetter, SenderCrash
  <2>7. ASSUME NEW l \in Letters, Compose(l) \/ Replay(l) \/ WorkStep(l) PROVE UNCHANGED push
    BY <2>7 DEF Compose, Replay, WorkStep, Deliver, AnswerAccepted, Bounce, senderVars
  <2>8. ASSUME PullStep \/ AnswerStep \/ Prune \/ Tick \/ ExpireUnanswered PROVE UNCHANGED push
    BY <2>8 DEF PullStep, PickUpLetters, PickUpAnswers, ReceivePulled, RejectPulled, ApplyPulled,
                RejectAnswer, AnswerStep, TryAnswer, Prune, Tick, ExpireUnanswered, senderVars
  <2>9. CASE UNCHANGED vars
    BY <2>9, <2>u DEF vars
  <2>. QED  BY <2>1, <2>u, <2>i, <2>2, <2>3, <2>4, <2>5, <2>6, <2>7, <2>8, <2>9 DEF Next, SenderStep
<1>2. \A a \in Answer : ackItems'[a].status # "absent" => Honest(a)'
  <2>u. UNCHANGED ackItems => \A a \in Answer : ackItems'[a].status # "absent" => Honest(a)'
    BY <1>a, <1>h DEF AnswerInv
  <2>q. ASSUME NEW l \in Letters, NEW kind \in {"accepted", "bounced"}, Queue(l, kind), Sent(l)',
               kind = "accepted" => copies'[l] = 1, kind = "bounced" => l \in turned'
        PROVE  \A a \in Answer : ackItems'[a].status # "absent" => Honest(a)'
    <3>1. PICK b \in Answer : b.letter = l /\ b.kind = kind /\ ackItems' = [ackItems EXCEPT ![b] = NewItem(1)]
      BY <2>q DEF Queue
    <3>2. Honest(b)'
      BY <2>q, <3>1 DEF Honest, Sent
    <3>3. \A a \in Answer : a # b => ackItems'[a] = ackItems[a]
      BY <3>1, <1>a
    <3>. QED  BY <3>2, <3>3, <1>a, <1>h DEF AnswerInv
  <2>r. ASSUME NEW l \in Letters, Sent(l), Arrives(l)
        PROVE  \A a \in Answer : ackItems'[a].status # "absent" => Honest(a)'
    <3>1. Sent(l)'
      BY <2>r DEF Grows
    <3>2. ASSUME NEW b \in BOOLEAN, Refuse(l, b)
          PROVE  l \in turned' /\ (Queue(l, "bounced") \/ UNCHANGED ackItems)
      BY <3>2 DEF Refuse
    <3>3. UNCHANGED ackItems \/ \E b \in BOOLEAN : Refuse(l, b)
      BY <2>r DEF Arrives, Keep
    <3>. QED  BY <2>u, <2>q, <3>1, <3>2, <3>3
  <2>1. CASE PushDirect
    BY <2>1, <2>r, <1>a, <1>p DEF PushDirect, SentInv
  <2>2. ASSUME NEW l \in rpulled, ReceivePulled(l)
        PROVE  \A a \in Answer : ackItems'[a].status # "absent" => Honest(a)'
    BY <2>2, <2>r, <1>a DEF ReceivePulled, SentInv, TypeOK
  <2>3. ASSUME NEW l \in Letters, AnswerAccepted(l)
        PROVE  \A a \in Answer : ackItems'[a].status # "absent" => Honest(a)'
    <3>1. copies[l] = 1 /\ Sent(l)
      BY <2>3, <1>a DEF AnswerAccepted, WorkInv, SentInv
    <3>2. Sent(l)' /\ copies'[l] = 1
      BY <3>1 DEF Grows
    <3>. QED  BY <2>3, <2>q, <3>2 DEF AnswerAccepted
  <2>4. ASSUME NEW l \in Letters, Bounce(l)
        PROVE  \A a \in Answer : ackItems'[a].status # "absent" => Honest(a)'
    <3>1. Sent(l)' /\ l \in turned'
      BY <2>4, <1>a DEF Bounce, WorkInv, SentInv, Grows
    <3>. QED  BY <2>4, <2>q, <3>1 DEF Bounce
  <2>5. ASSUME NEW a \in Answer, NEW direct \in Outcome, NEW relay \in Outcome, TryAnswer(a, direct, relay)
        PROVE  \A b \in Answer : ackItems'[b].status # "absent" => Honest(b)'
    <3>1. Honest(a)
      BY <2>5, <1>a DEF TryAnswer, IsDue, Unresolved, AnswerInv
    <3>2. \A b \in Answer : b # a => ackItems'[b] = ackItems[b]
      BY <2>5, <1>a DEF TryAnswer
    <3>. QED  BY <3>1, <3>2, <1>a, <1>h DEF AnswerInv
  <2>6. CASE Tick
    <3>1. \A a \in Answer : ackItems'[a].status = ackItems[a].status
      BY <2>6, <1>a, SoundRows DEF Tick
    <3>. QED  BY <3>1, <1>a, <1>h DEF AnswerInv
  <2>7. ASSUME NEW l \in Letters, Compose(l) \/ Replay(l) \/ Deliver(l) \/ TakeItem(l) PROVE UNCHANGED ackItems
    BY <2>7 DEF Compose, Replay, Deliver, TakeItem, OnlyPushMoves, recipientVars
  <2>8. ASSUME PushRefused \/ PushUnreachable \/ HearReply \/ LoseReply \/ PushRelay
               \/ (\E arrives \in BOOLEAN : PushRelayFails(arrives)) \/ RecordHandoff \/ RecordRefused
               \/ RecordSuccess \/ RecordFailure \/ ExpireLetter \/ ExpireUnanswered \/ SenderCrash
               \/ RecipientCrash \/ Prune
        PROVE  UNCHANGED ackItems
    BY <2>8 DEF PushRefused, PushUnreachable, HearReply, LoseReply, PushRelay, PushRelayFails,
                RecordHandoff, RecordRefused, RecordSuccess, RecordFailure, ExpireLetter,
                ExpireUnanswered, SenderCrash, RecipientCrash, Prune, OnlyPushMoves, recipientVars
  <2>9. ASSUME NEW heard \in BOOLEAN, PickUpLetters(heard) \/ PickUpAnswers(heard) PROVE UNCHANGED ackItems
    BY <2>9 DEF PickUpLetters, PickUpAnswers, recipientVars
  <2>10. ASSUME NEW l \in rpulled, RejectPulled(l) PROVE UNCHANGED ackItems
    BY <2>10 DEF RejectPulled
  <2>11. ASSUME NEW a \in spulled, ApplyPulled(a) \/ RejectAnswer(a) PROVE UNCHANGED ackItems
    BY <2>11 DEF ApplyPulled, RejectAnswer, recipientVars
  <2>12. CASE UNCHANGED vars
    BY <2>12, <2>u DEF vars
  <2>. QED  BY <2>u, <2>1, <2>2, <2>3, <2>4, <2>5, <2>6, <2>7, <2>8, <2>9, <2>10, <2>11, <2>12
            DEF Next, SenderStep, PullStep, WorkStep, AnswerStep
<1>3. \A a \in Answer : held'[a] # Never \/ a \in spulled' => Honest(a)'
  <2>k. ASSUME \A a \in Answer : held'[a] # Never => held[a] # Never \/ Honest(a),
               \A a \in spulled' : a \in spulled \/ held[a] # Never
        PROVE  \A a \in Answer : held'[a] # Never \/ a \in spulled' => Honest(a)'
    BY <2>k, <1>a, <1>h DEF AnswerInv
  <2>1. ASSUME PushRelay \/ \E arrives \in BOOLEAN : PushRelayFails(arrives)
        PROVE  \A a \in Answer : held'[a] # Never \/ a \in spulled' => Honest(a)'
    <3>1. held' \in {held, Deposited(LetterEnvelope(push.letter))} /\ UNCHANGED spulled
      BY <2>1 DEF PushRelay, PushRelayFails
    <3>2. \A a \in Answer : held'[a] = held[a]
      BY <3>1, <1>a, <1>p, RelayTypes, Envelopes DEF TypeOK
    <3>. QED  BY <2>k, <3>1, <3>2
  <2>2. ASSUME NEW a \in Answer, NEW direct \in Outcome, NEW relay \in Outcome, TryAnswer(a, direct, relay)
        PROVE  \A b \in Answer : held'[b] # Never \/ b \in spulled' => Honest(b)'
    <3>1. Honest(a)
      BY <2>2, <1>a DEF TryAnswer, IsDue, Unresolved, AnswerInv
    <3>2. held' \in {held, Deposited(a)} /\ UNCHANGED spulled
      BY <2>2 DEF TryAnswer
    <3>3. \A b \in Answer : b # a => held'[b] = held[b]
      BY <3>2, <1>a, <1>e, RelayTypes DEF TypeOK
    <3>. QED  BY <2>k, <3>1, <3>2, <3>3
  <2>3. ASSUME NEW heard \in BOOLEAN, PickUpLetters(heard)
        PROVE  \A a \in Answer : held'[a] # Never \/ a \in spulled' => Honest(a)'
    <3>1. \A e \in Envelope : held'[e] # Never => held[e] # Never
      BY <2>3, <1>a, RelayTypes DEF PickUpLetters, PickedUp, TypeOK
    <3>. QED  BY <2>3, <2>k, <3>1, <1>e DEF PickUpLetters, senderVars
  <2>4. ASSUME NEW heard \in BOOLEAN, PickUpAnswers(heard)
        PROVE  \A a \in Answer : held'[a] # Never \/ a \in spulled' => Honest(a)'
    <3>1. \A e \in Envelope : held'[e] # Never => held[e] # Never
      BY <2>4, <1>a, RelayTypes DEF PickUpAnswers, PickedUp, TypeOK
    <3>2. \A a \in spulled' : held[a] # Never
      BY <2>4 DEF PickUpAnswers, HeldFor, IsHeld
    <3>. QED  BY <2>k, <3>1, <3>2, <1>e
  <2>5. CASE Prune
    <3>1. \A e \in Envelope : held'[e] # Never => held[e] # Never
      BY <2>5, <1>a, RelayTypes DEF Prune, TypeOK
    <3>. QED  BY <2>5, <2>k, <3>1, <1>e DEF Prune, senderVars
  <2>6. CASE Tick
    <3>1. \A e \in Envelope : held'[e] # Never => held[e] # Never
      BY <2>6 DEF Tick
    <3>. QED  BY <2>6, <2>k, <3>1, <1>e DEF Tick
  <2>7. ASSUME NEW a \in spulled, ApplyPulled(a) \/ RejectAnswer(a)
        PROVE  UNCHANGED held /\ spulled' \subseteq spulled
    BY <2>7 DEF ApplyPulled, RejectAnswer
  <2>8. ASSUME NEW l \in Letters, Compose(l) \/ Replay(l) \/ WorkStep(l) \/ TakeItem(l)
        PROVE  UNCHANGED held /\ spulled' \subseteq spulled
    BY <2>8 DEF Compose, Replay, WorkStep, Deliver, AnswerAccepted, Bounce, TakeItem, OnlyPushMoves, senderVars
  <2>9. ASSUME PushDirect \/ PushRefused \/ PushUnreachable \/ HearReply \/ LoseReply \/ RecordHandoff
               \/ RecordRefused \/ RecordSuccess \/ RecordFailure \/ ExpireLetter \/ ExpireUnanswered
               \/ SenderCrash \/ RecipientCrash
        PROVE  UNCHANGED held /\ spulled' \subseteq spulled
    BY <2>9 DEF PushDirect, PushRefused, PushUnreachable, HearReply, LoseReply, RecordHandoff, RecordRefused,
                RecordSuccess, RecordFailure, ExpireLetter, ExpireUnanswered, SenderCrash, RecipientCrash,
                OnlyPushMoves
  <2>10. ASSUME NEW l \in rpulled, ReceivePulled(l) \/ RejectPulled(l)
         PROVE  UNCHANGED held /\ spulled' \subseteq spulled
    BY <2>10 DEF ReceivePulled, RejectPulled, senderVars
  <2>11. CASE UNCHANGED vars
    BY <2>11, <2>k DEF vars
  <2>. QED  BY <2>k, <2>1, <2>2, <2>3, <2>4, <2>5, <2>6, <2>7, <2>8, <2>9, <2>10, <2>11
            DEF Next, SenderStep, PullStep, AnswerStep
<1>. QED  BY <1>1, <1>2, <1>3 DEF AnswerInv

LEMMA PInvStep == TInv /\ PInv /\ [Next]_vars => PInv'
BY PromiseStep, ServiceGrows, SentStep, WorkInvStep, AnswerStepKeeps DEF PInv

LEMMA InitInv == Init => TInv /\ PInv
<1>. SUFFICES ASSUME Init PROVE TInv /\ PInv
  OBVIOUS
<1>2. push.step = "idle" /\ ~push.refused
  BY Envelopes DEF Init
<1>3. TInv
  BY TypeInit
<1>4. SentInv
  BY <1>2, Envelopes, SoundRows DEF Init, SentInv
<1>5. WorkInv
  BY DEF Init, WorkInv
<1>6. AnswerInv
  BY <1>2, Envelopes, SoundRows DEF Init, AnswerInv
<1>. QED  BY <1>3, <1>4, <1>5, <1>6 DEF PInv

\* The three nodes together implement MailService: whatever is lost, repeated,
\* reordered, expired, replayed or forgotten in a crash, a letter is put into
\* its mailbox at most once and its sender is told nothing untrue.
THEOREM Implements == Spec => KeepsPromise
<1>1. Init => Service!Init
  BY DEF Init, Service!Init
<1>2. TInv /\ PInv /\ [Next]_vars => [Service!Next]_Service!vars
  BY PromiseStep
<1>. QED  BY <1>1, <1>2, InitInv, TypeStep, PInvStep, PTL DEF Spec, KeepsPromise, Service!Spec

-----------------------------------------------------------------------------
(* In good hands.  A letter that was taken once, by the relay or by a node    *)
(* of the recipient's, is accounted for ever after; and the sender stops only *)
(* when it was taken.                                                         *)

Decided(l) == copies[l] > 0 \/ l \in turned \/ work[l] # "none" \/ l \in gone
Taken(l) == Decided(l) \/ held[LetterEnvelope(l)] # Never \/ l \in rpulled

\* What the sync loop believes of the letter l it is pushing.
Believes(l) ==
    /\ push.step = "wait" /\ push.reply # "none" => Decided(l)
    /\ push.step = "handoff" => Taken(l)
    /\ push.step = "success" /\ report[l] = "pending" => Taken(l)

HandsInv ==
    /\ \A l \in known : Decided(l)
    /\ \A l \in Letters : push.letter = l => Believes(l)
    /\ \A l \in Letters : items[l].status = "pushed" /\ report[l] = "pending" => Taken(l)

LEMMA DecidedStays ==
    ASSUME TInv, PInv, Grows, [Next]_vars, NEW l \in Letters, Decided(l)
    PROVE  Decided(l)'
<1>a. TypeOK /\ WorkInv
  BY DEF TInv, PInv
<1>1. \A k \in Letters : copies[k] > 0 => copies'[k] > 0
  BY <1>a DEF WorkInv, Grows
<1>2. gone \subseteq gone'
  BY DEF Next, Compose, Replay, WorkStep, Deliver, AnswerAccepted, Bounce, SenderStep, TakeItem,
         PushDirect, PushRefused, PushUnreachable, HearReply, LoseReply, PushRelay, PushRelayFails,
         RecordHandoff, RecordRefused, RecordSuccess, RecordFailure, ExpireLetter,
         ExpireUnanswered, PullStep, PickUpLetters, PickUpAnswers, ReceivePulled, RejectPulled,
         ApplyPulled, RejectAnswer, AnswerStep, TryAnswer, Prune, Tick, SenderCrash,
         RecipientCrash, OnlyPushMoves, historyVars, vars
<1>3. ASSUME work[l] # "none" PROVE Decided(l)'
  <2>u. ASSUME UNCHANGED work PROVE Decided(l)'
    BY <1>3, <2>u DEF Decided
  <2>1. CASE work[l] = "answer"
    BY <1>1, <1>a, <2>1 DEF WorkInv, Decided
  <2>2. ASSUME NEW k \in Letters, Arrives(k) PROVE Decided(l)'
    <3>1. work' \in {work, [work EXCEPT ![k] = "decide"]}
      BY <2>2 DEF Arrives, Keep, Refuse
    <3>2. work'[l] # "none"
      BY <1>3, <1>a, <3>1 DEF TypeOK
    <3>. QED  BY <3>2 DEF Decided
  <2>3. ASSUME NEW k \in Letters, Deliver(k) PROVE Decided(l)'
    <3>1. work'[l] # "none"
      BY <2>3, <1>3, <1>a DEF Deliver, TypeOK
    <3>. QED  BY <3>1 DEF Decided
  <2>4. ASSUME NEW k \in Letters, AnswerAccepted(k), work[l] = "decide" PROVE Decided(l)'
    <3>1. work'[l] # "none"
      BY <2>4, <1>a DEF AnswerAccepted, TypeOK
    <3>. QED  BY <3>1 DEF Decided
  <2>5. ASSUME NEW k \in Letters, Bounce(k) PROVE Decided(l)'
    <3>1. work'[l] # "none" \/ l \in turned'
      BY <2>5, <1>3, <1>a DEF Bounce, TypeOK
    <3>. QED  BY <3>1 DEF Decided
  <2>6. ASSUME RecipientCrash, work[l] = "decide" PROVE Decided(l)'
    BY <2>6 DEF RecipientCrash, Decided
  <2>7. CASE PushDirect
    BY <2>2, <2>7, <1>a DEF PushDirect, TypeOK, Push
  <2>8. ASSUME NEW k \in rpulled, ReceivePulled(k) PROVE Decided(l)'
    BY <2>2, <2>8, <1>a DEF ReceivePulled, TypeOK
  <2>9. ASSUME NEW k \in Letters, Compose(k) \/ Replay(k) \/ TakeItem(k) PROVE UNCHANGED work
    BY <2>9 DEF Compose, Replay, TakeItem, OnlyPushMoves, recipientVars
  <2>10. ASSUME PushRefused \/ PushUnreachable \/ HearReply \/ LoseReply \/ PushRelay
                \/ (\E arrives \in BOOLEAN : PushRelayFails(arrives)) \/ RecordHandoff \/ RecordRefused
                \/ RecordSuccess \/ RecordFailure \/ ExpireLetter \/ ExpireUnanswered \/ SenderCrash
                \/ AnswerStep \/ Prune \/ Tick
         PROVE  UNCHANGED work
    BY <2>10 DEF PushRefused, PushUnreachable, HearReply, LoseReply, PushRelay, PushRelayFails,
                 RecordHandoff, RecordRefused, RecordSuccess, RecordFailure, ExpireLetter,
                 ExpireUnanswered, SenderCrash, AnswerStep, TryAnswer, Prune, Tick, OnlyPushMoves,
                 recipientVars
  <2>11. ASSUME NEW heard \in BOOLEAN, PickUpLetters(heard) \/ PickUpAnswers(heard) PROVE UNCHANGED work
    BY <2>11 DEF PickUpLetters, PickUpAnswers, recipientVars
  <2>12. ASSUME NEW k \in rpulled, RejectPulled(k) PROVE UNCHANGED work
    BY <2>12 DEF RejectPulled
  <2>13. ASSUME NEW a \in spulled, ApplyPulled(a) \/ RejectAnswer(a) PROVE UNCHANGED work
    BY <2>13 DEF ApplyPulled, RejectAnswer, recipientVars
  <2>14. CASE UNCHANGED vars
    BY <2>14, <2>u DEF vars
  <2>15. work[l] \in {"decide", "answer"}
    BY <1>3, <1>a DEF TypeOK, Work
  <2>. QED  BY <2>u, <2>1, <2>3, <2>4, <2>5, <2>6, <2>7, <2>8, <2>9, <2>10, <2>11, <2>12, <2>13,
               <2>14, <2>15 DEF Next, SenderStep, PullStep, WorkStep
<1>. QED  BY <1>1, <1>2, <1>3 DEF Decided, Grows

\* A letter that arrives is decided from then on.
LEMMA ArrivalDecides ==
    ASSUME TInv, PInv, HandsInv, Grows, [Next]_vars, NEW l \in Letters, Arrives(l)
    PROVE  /\ Decided(l)'
           /\ \A k \in known' : k \in known \cup {l}
<1>a. TypeOK
  BY DEF TInv
<1>1. CASE l \in known
  BY <1>1, DecidedStays DEF HandsInv, Arrives
<1>2. CASE l \notin known /\ Keep(l)
  BY <1>2, <1>a DEF Keep, Decided, TypeOK
<1>3. CASE \E b \in BOOLEAN : Refuse(l, b)
  BY <1>3 DEF Refuse, Decided
<1>. QED  BY <1>1, <1>2, <1>3 DEF Arrives

LEMMA TakenStays ==
    ASSUME TInv, PInv, HandsInv, Grows, [Next]_vars, NEW l \in Letters, Taken(l)
    PROVE  Taken(l)'
<1>a. TypeOK
  BY DEF TInv
<1>e. LetterEnvelope(l) \in Envelope /\ LetterEnvelope(l).letter = l /\ LetterEnvelope(l).kind = "letter"
      /\ LetterEnvelope(l) \notin Answer /\ Answer \subseteq Envelope
  BY Envelopes
<1>1. CASE Decided(l)
  BY <1>1, DecidedStays DEF Taken
<1>2. ASSUME held[LetterEnvelope(l)] # Never PROVE Taken(l)'
  <2>u. ASSUME held'[LetterEnvelope(l)] # Never PROVE Taken(l)'
    BY <2>u DEF Taken
  <2>1. ASSUME NEW heard \in BOOLEAN, PickUpLetters(heard) PROVE Taken(l)'
    <3>1. LetterEnvelope(l) \in HeldFor("recipient")
      BY <1>2, <1>e, <1>a, RelayTypes DEF IsHeld, TypeOK
    <3>2. l \in {e.letter : e \in HeldFor("recipient")}
      BY <3>1, <1>e
    <3>3. l \in rpulled' \/ l \in gone'
      BY <2>1, <3>2 DEF PickUpLetters
    <3>. QED  BY <3>3 DEF Taken, Decided
  <2>2. CASE Prune
    <3>1. CASE HeldTooLong(LetterEnvelope(l))
      <4>1. l \in gone'
        BY <2>2, <3>1, <1>e DEF Prune
      <4>. QED  BY <4>1 DEF Taken, Decided
    <3>2. CASE ~HeldTooLong(LetterEnvelope(l))
      <4>1. held'[LetterEnvelope(l)] = held[LetterEnvelope(l)]
        BY <2>2, <3>2, <1>a, <1>e, RelayTypes DEF Prune, TypeOK
      <4>. QED  BY <1>2, <2>u, <4>1
    <3>. QED  BY <3>1, <3>2
  <2>3. ASSUME NEW heard \in BOOLEAN, PickUpAnswers(heard) PROVE Taken(l)'
    <3>1. LetterEnvelope(l) \notin HeldFor("sender")
      BY <1>a, <1>e, RelayTypes DEF TypeOK
    <3>2. held'[LetterEnvelope(l)] = held[LetterEnvelope(l)]
      BY <2>3, <3>1, <1>a, <1>e, RelayTypes DEF PickUpAnswers, PickedUp, TypeOK
    <3>. QED  BY <1>2, <2>u, <3>2
  <2>4. CASE Tick
    <3>1. held[LetterEnvelope(l)] \in 0 .. Retention + 1
      BY <1>2, <1>a, <1>e DEF TypeOK
    <3>2. held'[LetterEnvelope(l)] # Never
      BY <2>4, <1>2, <1>e, <3>1, RelayAssumption DEF Tick, Older, Never, RelayAssumption
    <3>. QED  BY <2>u, <3>2
  <2>5. ASSUME NEW e \in Envelope, held' \in {held, Deposited(e)} PROVE Taken(l)'
    <3>1. held'[LetterEnvelope(l)] # Never
      BY <2>5, <1>2, <1>a, <1>e DEF Deposited, IsHeld, TypeOK
    <3>. QED  BY <2>u, <3>1
  <2>6. ASSUME PushRelay \/ \E arrives \in BOOLEAN : PushRelayFails(arrives) PROVE Taken(l)'
    <3>1. push.letter \in Letters
      BY <1>a DEF TypeOK, Push
    <3>2. held' \in {held, Deposited(LetterEnvelope(push.letter))}
      BY <2>6 DEF PushRelay, PushRelayFails
    <3>3. LetterEnvelope(push.letter) \in Envelope
      BY <3>1, Envelopes
    <3>. QED  BY <2>5, <3>2, <3>3
  <2>7. ASSUME NEW a \in Answer, NEW direct \in Outcome, NEW relay \in Outcome, TryAnswer(a, direct, relay)
        PROVE  Taken(l)'
    <3>1. held' \in {held, Deposited(a)}
      BY <2>7 DEF TryAnswer
    <3>. QED  BY <2>5, <3>1, <1>e
  <2>8. ASSUME NEW k \in Letters, Compose(k) \/ Replay(k) \/ WorkStep(k) \/ TakeItem(k) PROVE UNCHANGED held
    BY <2>8 DEF Compose, Replay, WorkStep, Deliver, AnswerAccepted, Bounce, TakeItem, OnlyPushMoves
  <2>9. ASSUME PushDirect \/ PushRefused \/ PushUnreachable \/ HearReply \/ LoseReply \/ RecordHandoff
               \/ RecordRefused \/ RecordSuccess \/ RecordFailure \/ ExpireLetter \/ ExpireUnanswered
               \/ SenderCrash \/ RecipientCrash
        PROVE  UNCHANGED held
    BY <2>9 DEF PushDirect, PushRefused, PushUnreachable, HearReply, LoseReply, RecordHandoff, RecordRefused,
                RecordSuccess, RecordFailure, ExpireLetter, ExpireUnanswered, SenderCrash, RecipientCrash,
                OnlyPushMoves
  <2>10. ASSUME NEW k \in rpulled, ReceivePulled(k) \/ RejectPulled(k) PROVE UNCHANGED held
    BY <2>10 DEF ReceivePulled, RejectPulled
  <2>11. ASSUME NEW a \in spulled, ApplyPulled(a) \/ RejectAnswer(a) PROVE UNCHANGED held
    BY <2>11 DEF ApplyPulled, RejectAnswer
  <2>12. ASSUME UNCHANGED held PROVE Taken(l)'
    BY <1>2, <2>u, <2>12
  <2>13. CASE UNCHANGED vars
    BY <2>12, <2>13 DEF vars
  <2>. QED  BY <2>1, <2>2, <2>3, <2>4, <2>6, <2>7, <2>8, <2>9, <2>10, <2>11, <2>12, <2>13
            DEF Next, SenderStep, PullStep, AnswerStep
<1>3. ASSUME l \in rpulled PROVE Taken(l)'
  <2>u. ASSUME rpulled \subseteq rpulled' PROVE Taken(l)'
    BY <1>3, <2>u DEF Taken
  <2>1. ASSUME NEW k \in rpulled, ReceivePulled(k) PROVE Taken(l)'
    <3>1. CASE k = l
      BY <2>1, <3>1, ArrivalDecides DEF ReceivePulled, Taken
    <3>2. CASE k # l
      BY <2>1, <3>2, <1>3 DEF ReceivePulled, Taken
    <3>. QED  BY <3>1, <3>2
  <2>2. ASSUME NEW k \in rpulled, RejectPulled(k) PROVE Taken(l)'
    BY <2>2, <1>3 DEF RejectPulled, Taken, Decided
  <2>3. CASE RecipientCrash
    BY <2>3, <1>3 DEF RecipientCrash, Taken, Decided
  <2>4. ASSUME NEW k \in Letters, Compose(k) \/ Replay(k) \/ WorkStep(k) \/ TakeItem(k) PROVE UNCHANGED rpulled
    BY <2>4 DEF Compose, Replay, WorkStep, Deliver, AnswerAccepted, Bounce, TakeItem, OnlyPushMoves, recipientVars
  <2>5. ASSUME PushDirect \/ PushRefused \/ PushUnreachable \/ HearReply \/ LoseReply \/ PushRelay
               \/ (\E arrives \in BOOLEAN : PushRelayFails(arrives)) \/ RecordHandoff
               \/ RecordRefused \/ RecordSuccess \/ RecordFailure \/ ExpireLetter \/ ExpireUnanswered
               \/ SenderCrash \/ AnswerStep \/ Prune \/ Tick
        PROVE  UNCHANGED rpulled
    BY <2>5 DEF PushDirect, PushRefused, PushUnreachable, HearReply, LoseReply, PushRelay, PushRelayFails,
                RecordHandoff, RecordRefused, RecordSuccess, RecordFailure, ExpireLetter, ExpireUnanswered,
                SenderCrash, AnswerStep, TryAnswer, Prune, Tick, OnlyPushMoves, recipientVars
  <2>6. ASSUME NEW heard \in BOOLEAN, PickUpLetters(heard) \/ PickUpAnswers(heard)
        PROVE  rpulled \subseteq rpulled'
    BY <2>6 DEF PickUpLetters, PickUpAnswers, recipientVars
  <2>7. ASSUME NEW a \in spulled, ApplyPulled(a) \/ RejectAnswer(a) PROVE UNCHANGED rpulled
    BY <2>7 DEF ApplyPulled, RejectAnswer, recipientVars
  <2>8. CASE UNCHANGED vars
    BY <2>8, <2>u DEF vars
  <2>. QED  BY <2>u, <2>1, <2>2, <2>3, <2>4, <2>5, <2>6, <2>7, <2>8 DEF Next, SenderStep, PullStep
<1>. QED  BY <1>1, <1>2, <1>3 DEF Taken

\* What a node has noted as known was decided.
LEMMA KnownDecided ==
    ASSUME TInv, PInv, HandsInv, Grows, [Next]_vars
    PROVE  \A l \in known' : Decided(l)'
<1>a. TypeOK /\ saved \subseteq known /\ known \subseteq Letters /\ push.letter \in Letters /\ rpulled \subseteq Letters
  BY DEF TInv, TypeOK, PInv, WorkInv, Push
<1>k. \A l \in known : Decided(l)'
  BY <1>a, DecidedStays DEF HandsInv
<1>u. ASSUME known' \subseteq known PROVE \A l \in known' : Decided(l)'
  BY <1>k, <1>u
<1>1. ASSUME NEW l \in Letters, Arrives(l) PROVE \A k \in known' : Decided(k)'
  <2>1. Decided(l)' /\ \A k \in known' : k \in known \cup {l}
    BY <1>1, ArrivalDecides
  <2>. QED  BY <2>1, <1>k
<1>2. CASE PushDirect
  BY <1>1, <1>2, <1>a DEF PushDirect
<1>3. ASSUME NEW l \in rpulled, ReceivePulled(l) PROVE \A k \in known' : Decided(k)'
  BY <1>1, <1>3, <1>a DEF ReceivePulled
<1>4. CASE RecipientCrash
  BY <1>4, <1>a, <1>u DEF RecipientCrash
<1>5. ASSUME NEW k \in Letters, Compose(k) \/ Replay(k) \/ WorkStep(k) \/ TakeItem(k) PROVE UNCHANGED known
  BY <1>5 DEF Compose, Replay, WorkStep, Deliver, AnswerAccepted, Bounce, TakeItem, OnlyPushMoves, recipientVars
<1>6. ASSUME PushRefused \/ PushUnreachable \/ HearReply \/ LoseReply \/ PushRelay
             \/ (\E arrives \in BOOLEAN : PushRelayFails(arrives)) \/ RecordHandoff
             \/ RecordRefused \/ RecordSuccess \/ RecordFailure \/ ExpireLetter \/ ExpireUnanswered
             \/ SenderCrash \/ AnswerStep \/ Prune \/ Tick
      PROVE  UNCHANGED known
  BY <1>6 DEF PushRefused, PushUnreachable, HearReply, LoseReply, PushRelay, PushRelayFails,
              RecordHandoff, RecordRefused, RecordSuccess, RecordFailure, ExpireLetter, ExpireUnanswered,
              SenderCrash, AnswerStep, TryAnswer, Prune, Tick, OnlyPushMoves, recipientVars
<1>7. ASSUME NEW heard \in BOOLEAN, PickUpLetters(heard) \/ PickUpAnswers(heard) PROVE UNCHANGED known
  BY <1>7 DEF PickUpLetters, PickUpAnswers, recipientVars
<1>8. ASSUME NEW a \in spulled, ApplyPulled(a) \/ RejectAnswer(a) PROVE UNCHANGED known
  BY <1>8 DEF ApplyPulled, RejectAnswer, recipientVars
<1>9. ASSUME NEW k \in rpulled, RejectPulled(k) PROVE UNCHANGED known
  BY <1>9 DEF RejectPulled
<1>10. CASE UNCHANGED vars
  BY <1>10, <1>u DEF vars
<1>. QED  BY <1>u, <1>2, <1>3, <1>4, <1>5, <1>6, <1>7, <1>8, <1>9, <1>10 DEF Next, SenderStep, PullStep

\* Only composing and replaying make a letter pending; neither touches the one
\* being pushed, and both give it a pending item.
LEMMA PendingAgain ==
    ASSUME TInv, PInv, [Next]_vars, NEW l \in Letters,
           report'[l] = "pending", report[l] # "pending"
    PROVE  UNCHANGED push /\ items'[l].status = "pending" /\ (push.step = "success" => push.letter # l)
<1>a. TypeOK /\ report \in [Letters -> ReportStatus] /\ items \in [Letters -> Sound]
  BY DEF TInv, TypeOK
<1>1. ASSUME NEW k \in Letters, Compose(k)
      PROVE  UNCHANGED push /\ items'[l].status = "pending" /\ (push.step = "success" => push.letter # l)
  <2>1. k = l
    BY <1>1, <1>a DEF Compose
  <2>2. items'[l] = NewItem(1)
    BY <1>1, <1>a, <2>1 DEF Compose
  <2>. QED  BY <1>1, <2>1, <2>2, SoundRows DEF Compose, PInv, SentInv, Sent
<1>2. ASSUME NEW k \in Letters, Replay(k)
      PROVE  UNCHANGED push /\ items'[l].status = "pending" /\ (push.step = "success" => push.letter # l)
  <2>1. k = l
    BY <1>2, <1>a DEF Replay
  <2>2. items'[l] = ReplayedRow(items[l]) /\ items[l] \in Sound
    BY <1>2, <1>a, <2>1 DEF Replay
  <2>3. push.step = "success" => push.letter # l
    BY <1>2, <2>1 DEF Replay, TInv, GivenUp, Unresolved
  <2>. QED  BY <1>2, <2>2, <2>3, SoundRows DEF Replay
<1>3. ASSUME NEW a \in Answer, Apply(a) PROVE FALSE
  <2>1. report'[l] \in {report[l], "delivered", "bounced"}
    BY <1>3, <1>a DEF Apply, Told, Answer
  <2>. QED  BY <2>1
<1>4. ASSUME NEW a \in spulled, ApplyPulled(a) \/ RejectAnswer(a) PROVE FALSE
  <2>1. a \in Answer
    BY <1>a DEF TypeOK
  <2>2. Apply(a) \/ UNCHANGED report
    BY <1>4 DEF ApplyPulled, RejectAnswer
  <2>. QED  BY <2>1, <2>2, <1>3
<1>5. CASE AnswerStep
  <2>1. \E a \in Answer : Apply(a) \/ UNCHANGED report
    BY <1>5 DEF AnswerStep, TryAnswer
  <2>. QED  BY <2>1, <1>3
<1>6. CASE RecordRefused \/ ExpireLetter \/ ExpireUnanswered
  <2>1. report'[l] \in {report[l], "expired", "bounced"}
    BY <1>6, <1>a DEF RecordRefused, ExpireLetter, ExpireUnanswered
  <2>. QED  BY <2>1
<1>7. ASSUME NEW k \in Letters, WorkStep(k) \/ TakeItem(k) PROVE UNCHANGED report
  BY <1>7 DEF WorkStep, Deliver, AnswerAccepted, Bounce, TakeItem, OnlyPushMoves, senderVars
<1>8. ASSUME PushDirect \/ PushRefused \/ PushUnreachable \/ HearReply \/ LoseReply \/ PushRelay
             \/ (\E arrives \in BOOLEAN : PushRelayFails(arrives)) \/ RecordHandoff
             \/ RecordSuccess \/ RecordFailure \/ SenderCrash \/ RecipientCrash \/ Prune \/ Tick
      PROVE  UNCHANGED report
  BY <1>8 DEF PushDirect, PushRefused, PushUnreachable, HearReply, LoseReply, PushRelay, PushRelayFails,
              RecordHandoff, RecordSuccess, RecordFailure, SenderCrash, RecipientCrash, Prune, Tick,
              OnlyPushMoves, senderVars
<1>9. ASSUME NEW heard \in BOOLEAN, PickUpLetters(heard) \/ PickUpAnswers(heard) PROVE UNCHANGED report
  BY <1>9 DEF PickUpLetters, PickUpAnswers, senderVars
<1>10. ASSUME NEW k \in rpulled, ReceivePulled(k) \/ RejectPulled(k) PROVE UNCHANGED report
  BY <1>10 DEF ReceivePulled, RejectPulled, senderVars
<1>11. CASE UNCHANGED vars
  BY <1>11 DEF vars
<1>. QED  BY <1>1, <1>2, <1>4, <1>5, <1>6, <1>7, <1>8, <1>9, <1>10, <1>11 DEF Next, SenderStep, PullStep

\* An item is called pushed only by record_success.
LEMMA PushedBySuccess ==
    ASSUME TInv, [Next]_vars, NEW l \in Letters, items'[l].status = "pushed"
    PROVE  items[l].status = "pushed" \/ (push.step = "success" /\ push.letter = l /\ UNCHANGED report)
<1>a. TypeOK /\ items \in [Letters -> Sound] /\ push.letter \in Letters
  BY DEF TInv, TypeOK, Push
<1>1. ASSUME NEW k \in Letters, Compose(k) \/ Replay(k) PROVE items[l].status = "pushed"
  <2>1. items' \in {[items EXCEPT ![k] = NewItem(1)], [items EXCEPT ![k] = ReplayedRow(items[k])]}
    BY <1>1 DEF Compose, Replay
  <2>2. items'[k].status = "pending"
    BY <1>a, <2>1, SoundRows
  <2>. QED  BY <1>a, <2>1, <2>2
<1>2. CASE RecordSuccess
  BY <1>2, <1>a DEF RecordSuccess
<1>3. CASE RecordFailure
  <2>1. items[push.letter].status \in Unresolved /\ items[push.letter] \in Sound
    BY <1>3, <1>a DEF RecordFailure, TInv
  <2>2. FailedRow(items[push.letter], items[push.letter], "route").status # "pushed"
    BY <2>1, SoundRows
  <2>3. items' = [items EXCEPT ![push.letter] = FailedRow(items[push.letter], items[push.letter], "route")]
    BY <1>3 DEF RecordFailure
  <2>. QED  BY <1>a, <2>2, <2>3
<1>4. CASE Tick
  BY <1>4, <1>a, SoundRows DEF Tick
<1>5. ASSUME NEW k \in Letters, WorkStep(k) \/ TakeItem(k) PROVE UNCHANGED items
  BY <1>5 DEF WorkStep, Deliver, AnswerAccepted, Bounce, TakeItem, OnlyPushMoves, senderVars
<1>6. ASSUME PushDirect \/ PushRefused \/ PushUnreachable \/ HearReply \/ LoseReply \/ PushRelay
             \/ (\E arrives \in BOOLEAN : PushRelayFails(arrives)) \/ RecordHandoff \/ RecordRefused
             \/ ExpireLetter \/ ExpireUnanswered \/ SenderCrash \/ RecipientCrash \/ Prune \/ AnswerStep
      PROVE  UNCHANGED items
  BY <1>6 DEF PushDirect, PushRefused, PushUnreachable, HearReply, LoseReply, PushRelay, PushRelayFails,
              RecordHandoff, RecordRefused, ExpireLetter, ExpireUnanswered, SenderCrash, RecipientCrash,
              Prune, AnswerStep, TryAnswer, OnlyPushMoves, senderVars
<1>7. ASSUME NEW heard \in BOOLEAN, PickUpLetters(heard) \/ PickUpAnswers(heard) PROVE UNCHANGED items
  BY <1>7 DEF PickUpLetters, PickUpAnswers, senderVars
<1>8. ASSUME NEW k \in rpulled, ReceivePulled(k) \/ RejectPulled(k) PROVE UNCHANGED items
  BY <1>8 DEF ReceivePulled, RejectPulled, senderVars
<1>9. ASSUME NEW a \in spulled, ApplyPulled(a) \/ RejectAnswer(a) PROVE UNCHANGED items
  BY <1>9 DEF ApplyPulled, RejectAnswer
<1>10. CASE UNCHANGED vars
  BY <1>10 DEF vars
<1>. QED  BY <1>1, <1>2, <1>3, <1>4, <1>5, <1>6, <1>7, <1>8, <1>9, <1>10 DEF Next, SenderStep, PullStep

\* The sync loop goes on to record a success only of a letter that was taken.
LEMMA BelievesStep ==
    ASSUME TInv, PInv, HandsInv, Grows, [Next]_vars, NEW l \in Letters, push'.letter = l
    PROVE  Believes(l)'
<1>a. TypeOK /\ report \in [Letters -> ReportStatus] /\ push \in Push /\ push.letter \in Letters
  BY DEF TInv, TypeOK, Push
<1>g. \A st : [push EXCEPT !.step = st].letter = push.letter /\ [push EXCEPT !.step = st].step = st
  BY <1>a DEF Push
<1>b. push.letter = l => Believes(l)
  BY DEF HandsInv
<1>d. (Decided(l) => Decided(l)') /\ (Taken(l) => Taken(l)')
  BY DecidedStays, TakenStays
<1>i. ASSUME push'.step \notin {"wait", "handoff", "success"} PROVE Believes(l)'
  BY <1>i DEF Believes
<1>s. ASSUME UNCHANGED push PROVE Believes(l)'
  <2>1. push.step = "success" /\ report'[l] = "pending" => report[l] = "pending"
    BY <1>s, PendingAgain
  <2>. QED  BY <1>s, <1>b, <1>d, <2>1 DEF Believes
<1>1. ASSUME NEW k \in Letters, TakeItem(k) PROVE Believes(l)'
  <2>1. /\ push' = [NoPush EXCEPT !.letter = k, !.step = IF report[k] = "pending" THEN "direct" ELSE "success"]
        /\ UNCHANGED report
    BY <1>1 DEF TakeItem, OnlyPushMoves
  <2>2. k = l /\ push'.step = IF report[k] = "pending" THEN "direct" ELSE "success"
    BY <2>1, Envelopes DEF Push
  <2>. QED  BY <2>1, <2>2 DEF Believes
<1>2. CASE PushDirect
  <2>1. push'.step = "wait" /\ push.letter = l
    BY <1>2, <1>a DEF PushDirect, Push
  <2>2. Decided(l)'
    BY <1>2, <2>1, ArrivalDecides DEF PushDirect
  <2>. QED  BY <2>1, <2>2 DEF Believes
<1>3. CASE PushRefused
  <2>1. push'.step = "relay"
    BY <1>3, <1>a DEF PushRefused, Push
  <2>. QED  BY <1>i, <2>1
<1>4. ASSUME PushUnreachable \/ LoseReply \/ \E arrives \in BOOLEAN : PushRelayFails(arrives)
      PROVE  Believes(l)'
  <2>1. push'.step \in {"relay", "refuse", "failure"}
    BY <1>4, <1>g DEF PushUnreachable, LoseReply, PushRelayFails, Goto
  <2>. QED  BY <1>i, <2>1
<1>5. CASE HearReply
  <2>1. push'.step = "success" /\ push.letter = l /\ push.step = "wait" /\ push.reply # "none"
    BY <1>5, <1>g DEF HearReply, Goto
  <2>. QED  BY <2>1, <1>b, <1>d DEF Believes, Taken
<1>6. CASE PushRelay
  <2>1. push'.step = "handoff" /\ push.letter = l
    BY <1>6, <1>g DEF PushRelay, Goto
  <2>2. held'[LetterEnvelope(l)] # Never
    BY <1>6, <2>1, <1>a, RelayTypes, Envelopes DEF PushRelay, TypeOK
  <2>. QED  BY <2>1, <2>2 DEF Believes, Taken
<1>7. CASE RecordHandoff
  <2>1. push'.step = "success" /\ push.letter = l /\ push.step = "handoff"
    BY <1>7, <1>g DEF RecordHandoff, Goto
  <2>. QED  BY <2>1, <1>b, <1>d DEF Believes
<1>8. CASE RecordRefused
  <2>1. push'.step = "success" /\ push.letter = l
    BY <1>8, <1>g DEF RecordRefused, Goto
  <2>2. report'[l] # "pending"
    BY <1>8, <2>1, <1>a DEF RecordRefused
  <2>. QED  BY <2>1, <2>2 DEF Believes
<1>9. CASE RecordSuccess \/ RecordFailure \/ ExpireLetter \/ SenderCrash
  <2>1. push'.step \in {"idle", "expire"}
    BY <1>9, <1>g, Envelopes, ZenonT(60) DEF RecordSuccess, RecordFailure, ExpireLetter, SenderCrash, Goto
  <2>. QED  BY <1>i, <2>1
<1>10. CASE RecipientCrash
  <2>1. CASE push.step = "wait"
    <3>1. push'.step = "wait" /\ push'.reply = "none"
      BY <1>10, <2>1, <1>a DEF RecipientCrash, Push
    <3>. QED  BY <3>1 DEF Believes
  <2>2. CASE push.step # "wait"
    BY <1>10, <2>2, <1>s DEF RecipientCrash
  <2>. QED  BY <2>1, <2>2
<1>11. ASSUME NEW k \in Letters, Compose(k) \/ Replay(k) \/ WorkStep(k) PROVE UNCHANGED push
  BY <1>11 DEF Compose, Replay, WorkStep, Deliver, AnswerAccepted, Bounce, senderVars
<1>12. ASSUME ExpireUnanswered \/ Prune \/ Tick \/ AnswerStep PROVE UNCHANGED push
  BY <1>12 DEF ExpireUnanswered, Prune, Tick, AnswerStep, TryAnswer, senderVars
<1>13. ASSUME NEW heard \in BOOLEAN, PickUpLetters(heard) \/ PickUpAnswers(heard) PROVE UNCHANGED push
  BY <1>13 DEF PickUpLetters, PickUpAnswers, senderVars
<1>14. ASSUME NEW k \in rpulled, ReceivePulled(k) \/ RejectPulled(k) PROVE UNCHANGED push
  BY <1>14 DEF ReceivePulled, RejectPulled, senderVars
<1>15. ASSUME NEW a \in spulled, ApplyPulled(a) \/ RejectAnswer(a) PROVE UNCHANGED push
  BY <1>15 DEF ApplyPulled, RejectAnswer
<1>16. CASE UNCHANGED vars
  BY <1>16, <1>s DEF vars
<1>. QED  BY <1>s, <1>1, <1>2, <1>3, <1>4, <1>5, <1>6, <1>7, <1>8, <1>9, <1>10, <1>11, <1>12, <1>13,
             <1>14, <1>15, <1>16 DEF Next, SenderStep, PullStep

LEMMA HandsStep == TInv /\ PInv /\ HandsInv /\ [Next]_vars => HandsInv'
<1>. SUFFICES ASSUME TInv, PInv, HandsInv, [Next]_vars PROVE HandsInv'
  OBVIOUS
<1>1. Grows
  BY PromiseStep, ServiceGrows
<1>2. \A l \in known' : Decided(l)'
  BY <1>1, KnownDecided
<1>3. \A l \in Letters : push'.letter = l => Believes(l)'
  BY <1>1, BelievesStep
<1>4. ASSUME NEW l \in Letters, items'[l].status = "pushed", report'[l] = "pending"
      PROVE  Taken(l)'
  <2>1. report[l] = "pending"
    BY <1>4, PendingAgain
  <2>2. Taken(l)
    BY <1>4, <2>1, PushedBySuccess DEF HandsInv, Believes
  <2>. QED  BY <1>1, <2>2, TakenStays
<1>. QED  BY <1>2, <1>3, <1>4 DEF HandsInv

\* A letter its node has stopped pushing and still calls pending is accounted
\* for: a refused deposit, a lost reply or a crash never makes the sender of a
\* letter stop too soon.
THEOREM LettersInGoodHands == Spec => []InGoodHands
<1>1. Init => HandsInv
  BY Envelopes, SoundRows DEF Init, HandsInv, Believes
<1>2. TInv /\ HandsInv => InGoodHands
  <2>. SUFFICES ASSUME TInv, HandsInv, NEW l \in Letters,
                       items[l].status = "pushed", report[l] = "pending"
                PROVE  \/ copies[l] > 0 \/ l \in turned
                       \/ LetterEnvelope(l) \in {e \in Envelope : IsHeld(e)}
                       \/ l \in rpulled \/ work[l] # "none"
                       \/ l \in gone
    BY DEF InGoodHands
  <2>1. Taken(l) /\ LetterEnvelope(l) \in Envelope
    BY Envelopes DEF HandsInv
  <2>. QED  BY <2>1 DEF Taken, Decided, IsHeld
<1>. QED  BY <1>1, <1>2, InitInv, TypeStep, PInvStep, HandsStep, PTL DEF Spec

-----------------------------------------------------------------------------
(* What the relay drops.                                                      *)

\* How long a letter can have lain at the relay while its item is retried: the
\* last retry starts within MaxAge and waits for one back-off, or is due at the
\* end of the unit of time.
Longest == IF MaxBackoff > 1 THEN MaxAge + MaxBackoff ELSE MaxAge + 1

LyingFor(l) == held[LetterEnvelope(l)]

\* A letter nobody has composed is not at the relay.  One that is retried lies
\* there no longer than its item has existed, or than the item's age and wait
\* allow; one left there waits for its answer since its handoff.
Timely(l) ==
    /\ report[l] = "unsent" => items[l].status = "absent"
    /\ items[l].status = "absent" => LyingFor(l) = Never
    /\ items[l].status \in Unresolved /\ l \notin replayed =>
          /\ LyingFor(l) + items[l].wait <= Longest
          /\ items[l].age <= MaxAge => LyingFor(l) <= items[l].age
    /\ report[l] = "pending" /\ handoff[l] # Never /\ l \notin replayed =>
          LyingFor(l) <= handoff[l] + Longest

TimelyInv ==
    /\ \A l \in Letters : Timely(l)
    /\ awaited \subseteq replayed

LEMMA LongestBounds ==
    /\ Longest \in Nat
    /\ MaxAge + 1 <= Longest /\ MaxAge + MaxBackoff <= Longest
    /\ Retention >= NoAnswerTimeout + MaxAge + MaxBackoff =>
          NoAnswerTimeout + Longest <= Retention
BY NumbersAssumption, RelayAssumption DEF Longest

\* The numbers of one letter.
LEMMA LetterTypes ==
    ASSUME TInv, NEW l \in Letters
    PROVE  /\ LyingFor(l) = Never \/ LyingFor(l) \in 0 .. Retention + 1
           /\ handoff[l] = Never \/ handoff[l] \in 0 .. NoAnswerTimeout
           /\ items[l] \in Item /\ items[l] \in Sound
           /\ items[l].wait \in 0 .. MaxBackoff
           /\ items[l].age \in 0 .. MaxAge + 1
           /\ items[l].wait \in Nat /\ items[l].age \in Nat
           /\ LyingFor(l) \in Int /\ handoff[l] \in Int
           /\ LyingFor(l) >= -1
<1>1. /\ held[LetterEnvelope(l)] \in {Never} \cup (0 .. Retention + 1)
      /\ handoff[l] \in {Never} \cup (0 .. NoAnswerTimeout)
      /\ items[l] \in Item /\ items[l] \in Sound
  BY Envelopes DEF TInv, TypeOK
<1>2. items[l].wait \in 0 .. MaxBackoff /\ items[l].age \in 0 .. MaxAge + 1
  BY <1>1 DEF Item
<1>. QED  BY <1>1, <1>2, RelayAssumption, NumbersAssumption DEF LyingFor, Never

\* Nothing that makes it wait, unless the letter is replayed: its item and its
\* handoff stay, its report leaves the statuses it waits in or stays, and its
\* envelope goes or stays.
Eases(l) ==
    /\ report'[l] = report[l] \/ report'[l] \notin {"unsent", "pending"}
    /\ handoff'[l] = handoff[l]
    /\ items'[l] = items[l]
    /\ LyingFor(l)' \in {LyingFor(l), Never}

LEMMA EasingStep ==
    ASSUME TInv, NEW l \in Letters, Timely(l), Eases(l), replayed \subseteq replayed'
    PROVE  Timely(l)'
<1>1. /\ LyingFor(l) \in Int /\ LyingFor(l) >= -1 /\ LyingFor(l)' \in Int
      /\ LyingFor(l)' <= LyingFor(l)
      /\ items[l].wait \in Nat /\ items[l].age \in Nat
      /\ handoff[l] \in Int /\ Longest \in Nat
  BY LetterTypes, LongestBounds DEF Eases, Never
<1>2. LyingFor(l) = Never => LyingFor(l)' = Never
  BY DEF Eases
<1>3. /\ report'[l] = "unsent" => report[l] = "unsent"
      /\ report'[l] = "pending" => report[l] = "pending"
      /\ handoff'[l] = handoff[l] /\ items'[l] = items[l]
      /\ l \notin replayed' => l \notin replayed
  BY DEF Eases
<1>4. /\ items'[l].status = items[l].status /\ items'[l].wait = items[l].wait
      /\ items'[l].age = items[l].age
  BY <1>3
<1>. QED  BY <1>1, <1>2, <1>3, <1>4 DEF Timely

\* A letter is deposited while its item is retried: its time starts again.
LEMMA DepositedIsTimely ==
    ASSUME TInv, NEW l \in Letters, Timely(l), items[l].status \in Unresolved,
           UNCHANGED <<report, handoff, items, replayed>>, LyingFor(l)' = 0
    PROVE  Timely(l)'
<1>1. /\ items[l].wait \in Nat /\ items[l].age \in Nat /\ items[l].wait <= MaxBackoff
      /\ handoff[l] = Never \/ handoff[l] \in Nat
      /\ MaxAge + MaxBackoff <= Longest /\ Longest \in Nat
  BY LetterTypes, LongestBounds, RelayAssumption, NumbersAssumption
<1>2. items[l].wait <= Longest
  BY <1>1, NumbersAssumption
<1>3. items[l].status # "absent"
  BY DEF Unresolved
<1>. QED  BY <1>1, <1>2, <1>3 DEF Timely

\* _deposit_one: the envelope of the letter being pushed, or none at all.
LEMMA PushToRelay ==
    ASSUME TInv, TimelyInv,
           PushRelay \/ \E arrives \in BOOLEAN : PushRelayFails(arrives),
           NEW l \in Letters
    PROVE  Timely(l)'
<1>. DEFINE e == LetterEnvelope(push.letter)
<1>1. /\ UNCHANGED <<report, handoff, items, replayed>>
      /\ push.step = "relay"
      /\ held' = held \/ held' = Deposited(e)
  BY DEF PushRelay, PushRelayFails, historyVars
<1>2. push.letter \in Letters /\ items[push.letter].status \in Unresolved
      /\ held \in [Envelope -> {Never} \cup (0 .. Retention + 1)]
  BY <1>1 DEF TInv, TypeOK, Push
<1>3. LetterEnvelope(l) \in Envelope /\ e \in Envelope
      /\ (LetterEnvelope(l) = e => l = push.letter)
  BY <1>2, Envelopes
<1>4. CASE held'[LetterEnvelope(l)] = held[LetterEnvelope(l)]
  BY <1>1, <1>4, EasingStep DEF TimelyInv, Eases, LyingFor
<1>5. CASE held'[LetterEnvelope(l)] # held[LetterEnvelope(l)]
  <2>1. held' = [held EXCEPT ![e] = 0]
    BY <1>1, <1>5 DEF Deposited
  <2>2. LetterEnvelope(l) = e /\ held'[LetterEnvelope(l)] = 0
    BY <1>2, <1>3, <1>5, <2>1
  <2>. QED  BY <1>1, <1>2, <1>3, <2>2, DepositedIsTimely DEF TimelyInv, LyingFor
<1>. QED  BY <1>4, <1>5

\* record_failure: a retry is queued only within MaxAge.
LEMMA RetryIsTimely ==
    ASSUME TInv, TimelyInv, RecordFailure, NEW l \in Letters
    PROVE  Timely(l)'
<1>. DEFINE k == push.letter
<1>1. /\ UNCHANGED <<report, handoff, held, replayed>>
      /\ items' = [items EXCEPT ![k] = FailedRow(items[k], items[k], "route")]
      /\ k \in Letters /\ items[k].status \in Unresolved
      /\ items \in [Letters -> Sound]
  BY DEF RecordFailure, historyVars, TInv, TypeOK, Push
<1>2. LyingFor(l)' = LyingFor(l)
  BY <1>1 DEF LyingFor
<1>3. CASE l # k
  BY <1>1, <1>2, <1>3, EasingStep DEF TimelyInv, Eases
<1>4. CASE l = k
  <2>. DEFINE r == FailedRow(items[l], items[l], "route")
  <2>1. items'[l] = r
    BY <1>1, <1>4
  <2>2. CASE GivesUp(items[l])
    <3>1. r.status = "dead_lettered"
      BY <1>1, <1>4, <2>2, SoundRows
    <3>. QED  BY <1>1, <1>2, <2>1, <3>1, <1>4 DEF Timely, TimelyInv, Unresolved
  <2>3. CASE ~GivesUp(items[l])
    <3>1. r.status = "retrying" /\ r \in Item
      BY <1>1, <1>4, <2>3, SoundRows DEF Sound
    <3>2. r.age = items[l].age /\ items[l].age <= MaxAge
      BY <2>3, LetterTypes, NumbersAssumption DEF FailedRow, GivesUp, Item
    <3>3. r.wait \in 0 .. MaxBackoff
      BY <3>1 DEF Item
    <3>. HIDE DEF r
    <3>4. l \notin replayed => LyingFor(l) <= items[l].age
      BY <1>1, <1>4, <3>2 DEF Timely, TimelyInv
    <3>5. l \notin replayed => LyingFor(l) + r.wait <= Longest
      BY <3>2, <3>3, <3>4, LetterTypes, LongestBounds, NumbersAssumption
    <3>6. /\ report[l] # "unsent"
          /\ (report[l] = "pending" /\ handoff[l] # Never /\ l \notin replayed =>
                 LyingFor(l) <= handoff[l] + Longest)
      BY <1>1, <1>4 DEF Timely, TimelyInv, Unresolved
    <3>. QED  BY <1>1, <1>2, <2>1, <3>1, <3>2, <3>4, <3>5, <3>6 DEF Timely
  <2>. QED  BY <2>2, <2>3
<1>. QED  BY <1>3, <1>4

\* The clock advances only when no pass has anything to do.
LEMMA TickIsTimely ==
    ASSUME TInv, TimelyInv, Tick, NEW l \in Letters
    PROVE  Timely(l)'
<1>1. /\ UNCHANGED <<report, replayed>>
      /\ handoff'[l] = IF report[l] = "pending" /\ handoff[l] # Never
                       THEN Older(handoff[l], NoAnswerTimeout) ELSE handoff[l]
      /\ items'[l] = AgedItem(items[l])
      /\ LyingFor(l)' = IF LyingFor(l) = Never THEN Never
                        ELSE Older(LyingFor(l), Retention + 1)
      /\ report[l] = "pending" => handoff[l] # NoAnswerTimeout
      /\ IsDue(items[l]) => ~(items[l].age > MaxAge)
  BY Envelopes DEF Tick, PassesDone, Overdue, LyingFor, historyVars
<1>2. /\ LyingFor(l) \in Int /\ LyingFor(l)' \in Int
      /\ LyingFor(l)' <= LyingFor(l) + 1
      /\ LyingFor(l) = Never => LyingFor(l)' = Never
  BY <1>1, LetterTypes DEF Older
<1>3. Timely(l)
  BY DEF TimelyInv
<1>4. ASSUME report'[l] = "pending", handoff'[l] # Never, l \notin replayed'
      PROVE  LyingFor(l)' <= handoff'[l] + Longest
  <2>1. report[l] = "pending" /\ handoff[l] # Never /\ l \notin replayed
    BY <1>1, <1>4
  <2>2. handoff[l] \in 0 .. NoAnswerTimeout /\ handoff[l] # NoAnswerTimeout
    BY <1>1, <2>1, LetterTypes
  <2>3. handoff'[l] = handoff[l] + 1
    BY <1>1, <2>1, <2>2, RelayAssumption DEF Older
  <2>4. LyingFor(l) <= handoff[l] + Longest
    BY <1>3, <2>1 DEF Timely
  <2>. QED  BY <1>2, <2>2, <2>3, <2>4, LongestBounds
<1>5. CASE items[l].status \notin Unresolved
  <2>1. items'[l] = items[l]
    BY <1>1, <1>5, LetterTypes, SoundRows
  <2>. QED  BY <1>1, <1>2, <1>3, <1>4, <1>5, <2>1 DEF Timely
<1>6. CASE items[l].status \in Unresolved
  <2>1. /\ items'[l].status = items[l].status
        /\ items'[l].age = Older(items[l].age, MaxAge + 1)
        /\ items'[l].wait = IF items[l].wait > 0 THEN items[l].wait - 1 ELSE 0
    BY <1>1, <1>6, LetterTypes DEF AgedItem, AgedRow, Item
  <2>2. ASSUME l \notin replayed
        PROVE  /\ LyingFor(l)' + items'[l].wait <= Longest
               /\ items'[l].age <= MaxAge => LyingFor(l)' <= items'[l].age
    <3>1. /\ LyingFor(l) + items[l].wait <= Longest
          /\ items[l].age <= MaxAge => LyingFor(l) <= items[l].age
      BY <1>3, <1>6, <2>2 DEF Timely
    <3>2. items[l].wait = 0 => items[l].age <= MaxAge
      BY <1>1, <1>6, LetterTypes, NumbersAssumption DEF IsDue
    <3>3. items[l].wait \in Nat /\ items[l].age \in Nat /\ MaxAge \in Nat
          /\ Longest \in Nat /\ MaxAge + 1 <= Longest
      BY LetterTypes, LongestBounds, NumbersAssumption
    <3>4. LyingFor(l)' + items'[l].wait <= Longest
      BY <1>2, <2>1, <3>1, <3>2, <3>3
    <3>5. items'[l].age <= MaxAge => LyingFor(l)' <= items'[l].age
      BY <1>2, <2>1, <3>1, <3>3 DEF Older
    <3>. QED  BY <3>4, <3>5
  <2>3. items[l].status # "absent" /\ report[l] # "unsent"
    BY <1>3, <1>6 DEF Timely, Unresolved
  <2>. QED  BY <1>1, <1>4, <2>1, <2>2, <2>3 DEF Timely
<1>. QED  BY <1>5, <1>6

\* Prune drops nothing whose sender still waits for it.
LEMMA PruneIsTimely ==
    ASSUME Retention >= NoAnswerTimeout + MaxAge + MaxBackoff,
           TInv, TimelyInv, NEW l \in Letters \ replayed, AwaitsAnswer(l)
    PROVE  ~HeldTooLong(LetterEnvelope(l))
<1>1. Timely(l) /\ NoAnswerTimeout + Longest <= Retention /\ Longest \in Nat
      /\ NoAnswerTimeout \in Nat /\ Retention \in Nat
  BY LongestBounds, RelayAssumption DEF TimelyInv
<1>2. LyingFor(l) <= Retention
  <2>1. CASE items[l].status \in Unresolved
    <3>1. LyingFor(l) + items[l].wait <= Longest
      BY <1>1, <2>1 DEF Timely
    <3>. QED  BY <1>1, <3>1, LetterTypes
  <2>2. CASE handoff[l] # Never
    <3>1. LyingFor(l) <= handoff[l] + Longest
      BY <1>1, <2>2 DEF Timely, AwaitsAnswer
    <3>2. handoff[l] \in 0 .. NoAnswerTimeout
      BY <2>2, LetterTypes
    <3>. QED  BY <1>1, <3>1, <3>2, LetterTypes
  <2>. QED  BY <2>1, <2>2 DEF AwaitsAnswer
<1>. QED  BY <1>1, <1>2, LetterTypes DEF HeldTooLong, LyingFor

\* The steps of the sending node that move no envelope.
LEMMA SenderIsTimely ==
    ASSUME TInv, TimelyInv, NEW l \in Letters,
           \/ \E k \in Letters : Compose(k) \/ Replay(k)
           \/ RecordHandoff \/ RecordSuccess
    PROVE  Timely(l)'
<1>1. LyingFor(l)' = LyingFor(l)
  BY DEF Compose, Replay, RecordHandoff, RecordSuccess, LyingFor
<1>2. /\ items \in [Letters -> Sound] /\ report \in [Letters -> ReportStatus]
      /\ handoff \in [Letters -> {Never} \cup (0 .. NoAnswerTimeout)]
      /\ push.letter \in Letters /\ Timely(l)
  BY DEF TInv, TypeOK, Push, TimelyInv
<1>3. ASSUME NEW k \in Letters, Compose(k) PROVE Timely(l)'
  <2>1. /\ UNCHANGED <<handoff, replayed>> /\ report[k] = "unsent"
        /\ report' = [report EXCEPT ![k] = "pending"]
        /\ items' = [items EXCEPT ![k] = NewItem(1)]
    BY <1>3 DEF Compose, historyVars
  <2>2. CASE l # k
    BY <1>1, <1>2, <2>1, <2>2, EasingStep DEF Eases
  <2>3. CASE l = k
    <3>1. LyingFor(l) = Never
      BY <1>2, <2>1, <2>3 DEF Timely
    <3>2. report'[l] = "pending" /\ items'[l] = NewItem(1) /\ handoff'[l] = handoff[l]
      BY <1>2, <2>1, <2>3
    <3>3. NewItem(1).status = "pending" /\ NewItem(1).wait = 0 /\ NewItem(1).age = 0
      BY DEF NewItem
    <3>4. handoff[l] # Never => handoff[l] \in Nat
      BY LetterTypes, RelayAssumption
    <3>. QED  BY <1>1, <3>1, <3>2, <3>3, <3>4, LongestBounds, NumbersAssumption DEF Timely, Never
  <2>. QED  BY <2>2, <2>3
<1>4. ASSUME NEW k \in Letters, Replay(k) PROVE Timely(l)'
  <2>1. /\ items[k].status \in GivenUp
        /\ items' = [items EXCEPT ![k] = ReplayedRow(items[k])]
        /\ replayed' = replayed \cup {k}
        /\ \A m \in Letters \ {k} : report'[m] = report[m] /\ handoff'[m] = handoff[m]
        /\ report'[k] = report[k] \/ report'[k] = "pending"
    BY <1>2, <1>4 DEF Replay
  <2>2. CASE l # k
    BY <1>1, <1>2, <2>1, <2>2, EasingStep DEF Eases
  <2>3. CASE l = k
    <3>1. items'[l].status = "pending" /\ l \in replayed'
      BY <1>2, <2>1, <2>3, SoundRows
    <3>2. report'[l] # "unsent"
      BY <1>2, <2>1, <2>3 DEF Timely, GivenUp
    <3>. QED  BY <3>1, <3>2 DEF Timely
  <2>. QED  BY <2>2, <2>3
<1>5. CASE RecordHandoff
  <2>1. /\ UNCHANGED <<report, items, replayed>> /\ push.step = "handoff"
        /\ handoff' = handoff \/ handoff' = [handoff EXCEPT ![push.letter] = 0]
    BY <1>5 DEF RecordHandoff, historyVars
  <2>2. items[push.letter].status \in Unresolved
    BY <2>1 DEF TInv
  <2>3. CASE handoff'[l] = handoff[l]
    BY <1>1, <1>2, <2>1, <2>3, EasingStep DEF Eases
  <2>4. CASE handoff'[l] # handoff[l]
    <3>1. l = push.letter /\ handoff'[l] = 0
      BY <1>2, <2>1, <2>4
    <3>2. l \notin replayed => LyingFor(l) <= Longest
      BY <1>2, <2>2, <3>1, LetterTypes, LongestBounds DEF Timely
    <3>3. l \notin replayed => LyingFor(l) <= 0 + Longest
      BY <3>2, LongestBounds
    <3>. QED  BY <1>1, <1>2, <2>1, <3>1, <3>3 DEF Timely
  <2>. QED  BY <2>3, <2>4
<1>6. CASE RecordSuccess
  <2>1. /\ UNCHANGED <<report, handoff, replayed>>
        /\ items' = [items EXCEPT ![push.letter] = PushedRow(items[push.letter])]
        /\ push.step = "success"
    BY <1>6 DEF RecordSuccess, historyVars
  <2>2. CASE l # push.letter
    BY <1>1, <1>2, <2>1, <2>2, EasingStep DEF Eases
  <2>3. CASE l = push.letter
    <3>1. items'[l].status = "pushed" /\ items[l].status \in Unresolved
      BY <1>2, <2>1, <2>3, SoundRows DEF TInv
    <3>. QED  BY <1>1, <1>2, <2>1, <3>1 DEF Timely, Unresolved
  <2>. QED  BY <2>2, <2>3
<1>. QED  BY <1>3, <1>4, <1>5, <1>6

\* Answers, pickups and arrivals: no letter is put anywhere it would age.
LEMMA OthersEase ==
    ASSUME TInv, NEW l \in Letters,
           \/ AnswerStep \/ PullStep \/ Prune \/ SenderCrash \/ RecipientCrash
           \/ \E k \in Letters : TakeItem(k) \/ WorkStep(k)
           \/ PushDirect \/ PushRefused \/ PushUnreachable \/ HearReply \/ LoseReply
           \/ RecordRefused \/ ExpireLetter \/ ExpireUnanswered
           \/ UNCHANGED vars
    PROVE  Eases(l) /\ replayed' = replayed
<1>. USE DEF Eases, LyingFor, senderVars, recipientVars, historyVars
<1>1. /\ held \in [Envelope -> {Never} \cup (0 .. Retention + 1)]
      /\ report \in [Letters -> ReportStatus]
      /\ LetterEnvelope(l) \in Envelope
  BY Envelopes DEF TInv, TypeOK
<1>2. \A a \in Answer : Apply(a) => report'[l] = report[l] \/ report'[l] \notin {"unsent", "pending"}
  BY <1>1 DEF Apply, Told
<1>3. \A S : held' = Without(S) => held'[LetterEnvelope(l)] \in {held[LetterEnvelope(l)], Never}
  BY <1>1 DEF Without
<1>4. ASSUME NEW a \in Answer, NEW direct \in Outcome, NEW relay \in Outcome,
             TryAnswer(a, direct, relay)
      PROVE  Eases(l) /\ replayed' = replayed
  <2>1. held'[LetterEnvelope(l)] = held[LetterEnvelope(l)]
    <3>1. a \in Envelope /\ LetterEnvelope(l) # a
      BY Envelopes
    <3>2. Deposited(a)[LetterEnvelope(l)] = held[LetterEnvelope(l)]
      BY <1>1, <3>1, RelayTypes
    <3>. QED  BY <1>4, <3>2 DEF TryAnswer
  <2>2. report'[l] = report[l] \/ report'[l] \notin {"unsent", "pending"}
    BY <1>2, <1>4 DEF TryAnswer
  <2>. QED  BY <1>4, <2>1, <2>2 DEF TryAnswer
<1>5. ASSUME NEW heard \in BOOLEAN, PickUpLetters(heard) \/ PickUpAnswers(heard)
      PROVE  Eases(l) /\ replayed' = replayed
  BY <1>3, <1>5 DEF PickUpLetters, PickUpAnswers, PickedUp
<1>6. ASSUME \/ \E m \in rpulled : ReceivePulled(m) \/ RejectPulled(m)
             \/ \E a \in spulled : RejectAnswer(a)
      PROVE  Eases(l) /\ replayed' = replayed
  BY <1>6 DEF ReceivePulled, RejectPulled, RejectAnswer
<1>7. ASSUME NEW a \in spulled, ApplyPulled(a)
      PROVE  Eases(l) /\ replayed' = replayed
  <2>1. a \in Answer
    BY DEF TInv, TypeOK
  <2>. QED  BY <1>2, <1>7, <2>1 DEF ApplyPulled
<1>8. CASE Prune
  BY <1>3, <1>8 DEF Prune
<1>9. CASE SenderCrash \/ RecipientCrash
  BY <1>9 DEF SenderCrash, RecipientCrash
<1>10. CASE \/ \E k \in Letters : TakeItem(k) \/ WorkStep(k)
            \/ PushDirect \/ PushRefused \/ PushUnreachable \/ HearReply \/ LoseReply
  BY <1>10
  DEF TakeItem, WorkStep, Deliver, AnswerAccepted, Bounce, PushDirect, PushRefused,
      PushUnreachable, HearReply, LoseReply, OnlyPushMoves
<1>11. CASE RecordRefused \/ ExpireLetter \/ ExpireUnanswered
  BY <1>1, <1>11 DEF RecordRefused, ExpireLetter, ExpireUnanswered
<1>12. CASE UNCHANGED vars
  BY <1>12 DEF vars
<1>. QED  BY <1>4, <1>5, <1>6, <1>7, <1>8, <1>9, <1>10, <1>11, <1>12 DEF AnswerStep, PullStep

\* Only prune drops a letter somebody waits for, and a replay is never undone.
LEMMA OnlyPruneDrops ==
    ASSUME [Next]_vars
    PROVE  /\ replayed \subseteq replayed'
           /\ awaited' = awaited \/ Prune
<1>. USE DEF senderVars, recipientVars, historyVars
<1>1. ASSUME NEW l \in Letters, Compose(l) \/ Replay(l) \/ WorkStep(l)
      PROVE  replayed \subseteq replayed' /\ awaited' = awaited
  BY <1>1 DEF Compose, Replay, WorkStep, Deliver, AnswerAccepted, Bounce
<1>2. CASE SenderStep
  BY <1>2
  DEF SenderStep, TakeItem, PushDirect, PushRefused, PushUnreachable, HearReply, LoseReply,
      PushRelay, PushRelayFails, RecordHandoff, RecordRefused, RecordSuccess, RecordFailure,
      ExpireLetter, ExpireUnanswered, OnlyPushMoves
<1>3. CASE PullStep \/ AnswerStep
  BY <1>3
  DEF PullStep, AnswerStep, PickUpLetters, PickUpAnswers, ReceivePulled, RejectPulled,
      ApplyPulled, RejectAnswer, TryAnswer
<1>4. CASE Prune \/ Tick \/ SenderCrash \/ RecipientCrash \/ UNCHANGED vars
  BY <1>4 DEF Prune, Tick, SenderCrash, RecipientCrash, vars
<1>. QED  BY <1>1, <1>2, <1>3, <1>4 DEF Next

LEMMA TimelyStep ==
    ASSUME Retention >= NoAnswerTimeout + MaxAge + MaxBackoff,
           TInv, TimelyInv, [Next]_vars
    PROVE  TimelyInv'
<1>1. ASSUME NEW l \in Letters PROVE Timely(l)'
  <2>1. CASE PushRelay \/ \E arrives \in BOOLEAN : PushRelayFails(arrives)
    BY <2>1, PushToRelay
  <2>2. CASE RecordFailure
    BY <2>2, RetryIsTimely
  <2>3. CASE Tick
    BY <2>3, TickIsTimely
  <2>4. CASE \/ \E k \in Letters : Compose(k) \/ Replay(k)
             \/ RecordHandoff \/ RecordSuccess
    BY <2>4, SenderIsTimely
  <2>5. CASE \/ AnswerStep \/ PullStep \/ Prune \/ SenderCrash \/ RecipientCrash
             \/ \E k \in Letters : TakeItem(k) \/ WorkStep(k)
             \/ PushDirect \/ PushRefused \/ PushUnreachable \/ HearReply \/ LoseReply
             \/ RecordRefused \/ ExpireLetter \/ ExpireUnanswered
             \/ UNCHANGED vars
    BY <2>5, OthersEase, EasingStep DEF TimelyInv
  <2>. QED  BY <2>1, <2>2, <2>3, <2>4, <2>5 DEF Next, SenderStep
<1>2. awaited' \subseteq replayed'
  <2>1. CASE awaited' = awaited
    BY <2>1, OnlyPruneDrops DEF TimelyInv
  <2>2. CASE Prune
    <3>1. \A l \in awaited' : l \in awaited \/
             (l \in Letters /\ AwaitsAnswer(l) /\ HeldTooLong(LetterEnvelope(l)))
      BY <2>2 DEF Prune
    <3>. QED  BY <3>1, PruneIsTimely, OnlyPruneDrops DEF TimelyInv
  <2>. QED  BY <2>1, <2>2, OnlyPruneDrops
<1>. QED  BY <1>1, <1>2 DEF TimelyInv

\* The relay never drops a letter whose sender has not given it up, unless the
\* SysOp sent it again: its retention outlasts the retries, one back-off and the
\* wait for an answer, although a resend does not renew received_at.
THEOREM RelayKeepsAwaited ==
    ASSUME Retention >= NoAnswerTimeout + MaxAge + MaxBackoff
    PROVE  Spec => []DroppedOnlyIfReplayed
<1>1. Init => TInv /\ TimelyInv
  <2>1. Init => TimelyInv
    BY Envelopes, SoundRows DEF Init, TimelyInv, Timely, LyingFor, Never, Unresolved
  <2>. QED  BY <2>1, TypeInit
<1>2. TInv /\ TimelyInv /\ [Next]_vars => TInv' /\ TimelyInv'
  BY TypeStep, TimelyStep
<1>3. TimelyInv => DroppedOnlyIfReplayed
  BY DEF TimelyInv, DroppedOnlyIfReplayed
<1>. QED  BY <1>1, <1>2, <1>3, PTL DEF Spec

=============================================================================

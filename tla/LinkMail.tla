------------------------------ MODULE LinkMail ------------------------------
(***************************************************************************)
(* Link mail from end to end: a sending node, the relay both nodes use and *)
(* a receiving node.  The sending node pushes each letter directly or      *)
(* deposits it at the relay (sync._push_pending_link_mail); the receiving  *)
(* node takes it from a request or picks it up (sync._pickup_relay_mail),  *)
(* decides it once, and sends its answer back the same two ways; the relay *)
(* holds a bounded number of envelopes per node for a bounded time         *)
(* (link/relay_mailbox.py).                                                *)
(*                                                                         *)
(* LinkOutbox and LinkInbox have every step of the two ends, and their     *)
(* trust policies; here an end is reduced to what the other one and the    *)
(* relay can observe.  Every exchange may fail before or after it had its  *)
(* effect, and either end may crash.  A unit of time is a few days: far    *)
(* longer than a sync pass or a back-off, so what a pass is due to do is   *)
(* done before the clock advances.                                         *)
(***************************************************************************)
EXTENDS WorkItems, FiniteSets

CONSTANTS
    Letters,         \* content ids of the letters the sender may compose
    NoAnswerTimeout, \* RELAY_NO_ANSWER_TIMEOUT
    Retention,       \* RELAY_MAILBOX_RETENTION_DAYS
    RelayCap,        \* MAX_MAILBOX_ENVELOPES_PER_RECIPIENT
    SysOpReplays,    \* whether the SysOp replays given-up letters
    MaxAnswers,      \* bound: answers the recipient makes to one letter
    MaxIncidents     \* bound: crashes of the two ends and replays

ASSUME LettersAssumption == Letters # {} /\ IsFiniteSet(Letters)

(* "This has to stay comfortably longer than that timeout": 30 days against
   14, and the 5 days for which a letter is retried. *)
ASSUME RelayAssumption ==
    /\ {NoAnswerTimeout, Retention, RelayCap, MaxAnswers, MaxIncidents} \subseteq Nat
    /\ Retention > NoAnswerTimeout + MaxAge
    /\ SysOpReplays \in BOOLEAN

VARIABLES
    \* The sending node.
    report,   \* mail_messages.link_delivery_status of each letter
    handoff,  \* time since link_relay_handoff_at
    items,    \* link_work_items: the delivery of each letter
    applied,  \* answers received and applied
    push,     \* where the sync loop stands with the letter it is pushing
    spulled,  \* answers picked up and not yet processed
    \* The relay.
    held,     \* link_relay_mailbox: time since each envelope's received_at
    \* The receiving node.
    saved,    \* link_events: letters kept
    known,    \* node.known_event_ids
    work,     \* letters between their acceptance and the end of their job
    ackItems, \* link_work_items: the delivery of each answer
    rpulled,  \* letters picked up and not yet processed
    incidents,\* crashes and replays so far
    \* History, read by no action.
    copies,   \* how often each letter was put into the mailbox
    turned,   \* letters a node at the recipient's address has refused
    gone,     \* letters lost after a node or the relay had taken them
    awaited,  \* letters the relay dropped while their sender waited
    replayed  \* letters the SysOp sent again

senderVars == <<report, handoff, items, applied, push, spulled>>
recipientVars == <<saved, known, work, ackItems, rpulled>>
historyVars == <<copies, turned, gone, awaited, replayed>>
vars == <<report, handoff, items, applied, push, spulled, held, saved,
          known, work, ackItems, rpulled, incidents, copies, turned, gone, awaited,
          replayed>>

-----------------------------------------------------------------------------
(* Envelopes and records.                                                  *)

Never == -1

LetterEnvelope(l) == [letter |-> l, kind |-> "letter", nr |-> 0]
Answer == [letter : Letters, kind : {"accepted", "bounced"}, nr : 1 .. MaxAnswers]
Envelope == Answer \cup [letter : Letters, kind : {"letter"}, nr : {0}]

Addressee(e) == IF e.kind = "letter" THEN "recipient" ELSE "sender"

ReportStatus == {"unsent", "pending", "delivered", "bounced", "expired"}
Work == {"none", "decide", "answer"}

(* reply: what the receiving node will say to the direct push: nothing, 200
   when its own job is done, or 200 at once (a letter already known). *)
Push == [letter : Letters, refused : BOOLEAN,
         step : {"idle", "direct", "wait", "relay", "handoff", "refuse",
                 "success", "failure", "expire"},
         reply : {"none", "done", "known"}]
NoPush == [letter |-> CHOOSE l \in Letters : TRUE, refused |-> FALSE,
           step |-> "idle", reply |-> "none"]

TypeOK ==
    /\ report \in [Letters -> ReportStatus]
    /\ handoff \in [Letters -> {Never} \cup (0 .. NoAnswerTimeout)]
    /\ items \in [Letters -> Item]
    /\ applied \subseteq Answer
    /\ push \in Push
    /\ spulled \subseteq Answer
    /\ held \in [Envelope -> {Never} \cup (0 .. Retention + 1)]
    /\ saved \subseteq Letters
    /\ known \subseteq Letters
    /\ work \in [Letters -> Work]
    /\ ackItems \in [Answer -> Item]
    /\ rpulled \subseteq Letters
    /\ incidents \in 0 .. MaxIncidents
    /\ copies \in [Letters -> Nat]
    /\ turned \subseteq Letters
    /\ gone \subseteq Letters
    /\ awaited \subseteq Letters
    /\ replayed \subseteq Letters

Init ==
    /\ report = [l \in Letters |-> "unsent"]
    /\ handoff = [l \in Letters |-> Never]
    /\ items = [l \in Letters |-> NoItem]
    /\ applied = {} /\ push = NoPush /\ spulled = {}
    /\ held = [e \in Envelope |-> Never]
    /\ saved = {} /\ known = {}
    /\ work = [l \in Letters |-> "none"]
    /\ ackItems = [a \in Answer |-> NoItem]
    /\ rpulled = {}
    /\ incidents = 0
    /\ copies = [l \in Letters |-> 0]
    /\ turned = {} /\ gone = {} /\ awaited = {} /\ replayed = {}

-----------------------------------------------------------------------------
(* The relay (link/relay_mailbox.py).                                      *)

IsHeld(e) == held[e] # Never

HeldFor(n) == {e \in Envelope : IsHeld(e) /\ Addressee(e) = n}

(* count < MAX_MAILBOX_ENVELOPES_PER_RECIPIENT, whatever they are *)
RoomFor(n) == Cardinality(HeldFor(n)) < RelayCap

(* deposit_relay_mailbox_envelope answers 200: a resend, or there is room *)
Takes(e) == IsHeld(e) \/ RoomFor(Addressee(e))

(* deposit_relay_mailbox_envelope: a resend changes nothing *)
Deposited(e) == IF IsHeld(e) \/ ~RoomFor(Addressee(e)) THEN held ELSE [held EXCEPT ![e] = 0]

(* The envelopes left when those of S are deleted. *)
Without(S) == [e \in Envelope |-> IF e \in S THEN Never ELSE held[e]]

(* pickup_relay_mailbox_envelopes: read and deleted in one transaction *)
PickedUp(n) == held' = Without(HeldFor(n))

(* Mutant: envelopes are dropped as soon as the sender's time-out has passed. *)
ExpiredTooSoon(e) == held[e] > NoAnswerTimeout

(* received_at < now - RELAY_MAILBOX_RETENTION_DAYS *)
HeldTooLong(e) == held[e] > Retention

(* The sender still tries, or waits for an answer to what it left here. *)
AwaitsAnswer(l) ==
    report[l] = "pending" /\ (items[l].status \in Unresolved \/ handoff[l] # Never)

(* prune_expired_relay_mailbox_envelopes, whatever the envelopes are *)
Prune ==
    LET old == {e \in Envelope : HeldTooLong(e)}
        letters == {l \in Letters : LetterEnvelope(l) \in old}
    IN  /\ old # {}
        /\ held' = Without(old)
        /\ gone' = gone \cup letters
        /\ awaited' = awaited \cup {l \in letters : AwaitsAnswer(l)}
        /\ UNCHANGED <<senderVars, recipientVars, incidents, copies, turned,
                       replayed>>

-----------------------------------------------------------------------------
(* The receiving node.                                                     *)

(* handle_events, decide_event_authorship and save_event: a letter already
   known is passed over; one whose author is welcome is kept and decided;
   any other is refused unkept, with a bounce unless its node is blocked. *)
Keep(l) ==
    /\ known' = known \cup {l}
    /\ saved' = saved \cup {l}
    /\ work' = [work EXCEPT ![l] = "decide"]
    /\ UNCHANGED <<ackItems, turned>>

IsNextAnswer(a) ==
    /\ ackItems[a] = NoItem
    /\ a.nr = 1 + Cardinality({b \in Answer : b.letter = a.letter /\ ackItems[b] # NoItem})

(* _queue_acknowledgement: the answer and its work item *)
Queue(l, kind) ==
    \E a \in Answer :
        /\ a.letter = l /\ a.kind = kind
        /\ IsNextAnswer(a)
        /\ ackItems' = [ackItems EXCEPT ![a] = NewItem(1)]

Refuse(l, bounced) ==
    /\ known' = known \cup {l}
    /\ turned' = turned \cup {l}
    /\ IF bounced THEN Queue(l, "bounced") ELSE UNCHANGED ackItems
    /\ UNCHANGED <<saved, work>>

(* Mutant: a letter is passed over only when it has been answered. *)
ArrivesUnnoted(l) ==
    IF l \in known /\ work[l] = "none"
    THEN UNCHANGED <<known, saved, work, ackItems, turned>>
    ELSE Keep(l) \/ \E bounced \in BOOLEAN : Refuse(l, bounced)

(* What a letter that arrives by either way leads to. *)
Arrives(l) ==
    IF l \in known THEN UNCHANGED <<known, saved, work, ackItems, turned>>
    ELSE Keep(l) \/ \E bounced \in BOOLEAN : Refuse(l, bounced)

(* deliver_link_message: into the mailbox ... *)
Deliver(l) ==
    /\ work[l] = "decide"
    /\ copies' = [copies EXCEPT ![l] = @ + 1]
    /\ work' = [work EXCEPT ![l] = "answer"]
    /\ UNCHANGED <<senderVars, held, saved, known, ackItems, rpulled, incidents,
                   turned, gone, awaited, replayed>>

(* ... and the accepted answer, in a second transaction; *)
AnswerAccepted(l) ==
    /\ work[l] = "answer"
    /\ Queue(l, "accepted")
    /\ work' = [work EXCEPT ![l] = "none"]
    /\ UNCHANGED <<senderVars, held, saved, known, rpulled, incidents, historyVars>>

(* or a bounce: no such recipient, no room, a blocked sender *)
Bounce(l) ==
    /\ work[l] = "decide"
    /\ Queue(l, "bounced")
    /\ turned' = turned \cup {l}
    /\ work' = [work EXCEPT ![l] = "none"]
    /\ UNCHANGED <<senderVars, held, saved, known, rpulled, incidents, copies,
                   gone, awaited, replayed>>

(* _pickup_relay_mail.  The relay has deleted what it answered with, so a
   lost answer loses the letters. *)
PickUpLetters(heard) ==
    /\ rpulled = {}
    /\ HeldFor("recipient") # {}
    /\ PickedUp("recipient")
    /\ LET letters == {e.letter : e \in HeldFor("recipient")} IN
       /\ rpulled' = IF heard THEN letters ELSE {}
       /\ gone' = IF heard THEN gone ELSE gone \cup letters
    /\ UNCHANGED <<senderVars, saved, known, work, ackItems, incidents, copies,
                   turned, awaited, replayed>>

(* Each letter picked up goes through handle_events and, if accepted,
   persist_accepted_events, ... *)
ReceivePulled(l) ==
    /\ l \in rpulled
    /\ rpulled' = rpulled \ {l}
    /\ Arrives(l)
    /\ UNCHANGED <<senderVars, held, incidents, copies, gone, awaited, replayed>>

(* ... which rejects one whose sender this node has no hello with. *)
RejectPulled(l) ==
    /\ l \in rpulled \ known
    /\ rpulled' = rpulled \ {l}
    /\ gone' = gone \cup {l}
    /\ UNCHANGED <<senderVars, held, saved, known, work, ackItems, incidents,
                   copies, turned, awaited, replayed>>

-----------------------------------------------------------------------------
(* Answers on their way back: the second half of _push_pending_link_mail.   *)

(* link_delivery_status after apply_link_message_accepted or _bounced *)
Told(a) == IF a.kind = "accepted" THEN "delivered" ELSE "bounced"

(* handle_events and persist_accepted_events: each answer once *)
Apply(a) ==
    /\ applied' = applied \cup {a}
    /\ report' = IF a \in applied THEN report ELSE [report EXCEPT ![a.letter] = Told(a)]

(* One attempt: _push_one, then _deposit_one if no address answered.  Each
   fails, has its effect unheard, or is heard; record_success or
   record_failure says whether one was. *)
TryAnswer(a, direct, relay) ==
    /\ IsDue(ackItems[a])
    /\ direct = "heard" => relay = "fails"
    /\ relay # "fails" => Takes(a)
    /\ IF direct = "fails" THEN UNCHANGED <<applied, report>> ELSE Apply(a)
    /\ held' = IF relay = "fails" THEN held ELSE Deposited(a)
    /\ ackItems' = [ackItems EXCEPT ![a] = IF "heard" \in {direct, relay} THEN PushedRow(@)
                                           ELSE FailedRow(@, @, "route")]
    /\ UNCHANGED <<handoff, items, push, spulled, saved, known, work,
                   rpulled, incidents, historyVars>>

(* The sending node's _pickup_relay_mail. *)
PickUpAnswers(heard) ==
    /\ spulled = {}
    /\ HeldFor("sender") # {}
    /\ PickedUp("sender")
    /\ spulled' = IF heard THEN HeldFor("sender") ELSE {}
    /\ UNCHANGED <<report, handoff, items, applied, push, recipientVars,
                   incidents, historyVars>>

ApplyPulled(a) ==
    /\ a \in spulled
    /\ spulled' = spulled \ {a}
    /\ Apply(a)
    /\ UNCHANGED <<handoff, items, push, held, recipientVars, incidents,
                   historyVars>>

(* handle_events rejects it: no hello with its signer. *)
RejectAnswer(a) ==
    /\ a \in spulled
    /\ spulled' = spulled \ {a}
    /\ UNCHANGED <<report, handoff, items, applied, push, held, recipientVars,
                   incidents, historyVars>>

-----------------------------------------------------------------------------
(* The sending node: the first half of _push_pending_link_mail.            *)

(* compose_link_message *)
Compose(l) ==
    /\ report[l] = "unsent"
    /\ report' = [report EXCEPT ![l] = "pending"]
    /\ items' = [items EXCEPT ![l] = NewItem(1)]
    /\ UNCHANGED <<handoff, applied, push, spulled, held, recipientVars,
                   incidents, historyVars>>

Goto(step) == push' = [push EXCEPT !.step = step]
OnlyPushMoves == UNCHANGED <<report, handoff, items, applied, spulled, held,
                             recipientVars, incidents, historyVars>>

(* load_due_work_items, get_link_message_for_delivery: a letter that is no
   longer pending is not pushed again *)
TakeItem(l) ==
    /\ push = NoPush
    /\ IsDue(items[l])
    /\ push' = [NoPush EXCEPT !.letter = l,
                   !.step = IF report[l] = "pending" THEN "direct" ELSE "success"]
    /\ OnlyPushMoves

(* _push_mail_one: the letter reaches the receiving node, ... *)
PushDirect ==
    /\ push.step = "direct"
    /\ push' = [push EXCEPT !.step = "wait",
                   !.reply = IF push.letter \in known THEN "known" ELSE "done"]
    /\ Arrives(push.letter)
    /\ UNCHANGED <<report, handoff, items, applied, spulled, held, rpulled,
                   incidents, copies, gone, awaited, replayed>>

(* ... or a node there refuses it with a 403, ... *)
PushRefused ==
    /\ push.step = "direct"
    /\ push' = [push EXCEPT !.step = "relay", !.refused = TRUE]
    /\ turned' = turned \cup {push.letter}
    /\ UNCHANGED <<report, handoff, items, applied, spulled, held,
                   recipientVars, incidents, copies, gone, awaited, replayed>>

(* ... or no address is known or answers. *)
PushUnreachable ==
    /\ push.step = "direct"
    /\ Goto("relay")
    /\ OnlyPushMoves

(* The 200, when the request's own job is done. *)
HearReply ==
    /\ push.step = "wait"
    /\ \/ push.reply = "known"
       \/ push.reply = "done" /\ work[push.letter] = "none"
    /\ Goto("success")
    /\ OnlyPushMoves

(* The reply is lost, or comes after the time-out. *)
LoseReply ==
    /\ push.step = "wait"
    /\ Goto("relay")
    /\ OnlyPushMoves

(* _deposit_one: taken and heard *)
PushRelay ==
    /\ push.step = "relay"
    /\ Takes(LetterEnvelope(push.letter))
    /\ held' = Deposited(LetterEnvelope(push.letter))
    /\ Goto("handoff")
    /\ UNCHANGED <<report, handoff, items, applied, spulled,
                   recipientVars, incidents, historyVars>>

(* Mutant: any reply of the relay counts as a deposit. *)
PushRelayAnyReply(arrives) ==
    /\ push.step = "relay"
    /\ held' = IF arrives THEN Deposited(LetterEnvelope(push.letter)) ELSE held
    /\ Goto("handoff")
    /\ UNCHANGED <<report, handoff, items, applied, spulled,
                   recipientVars, incidents, historyVars>>

(* Out of reach, refused as full (507), or taken and not heard *)
PushRelayFails(arrives) ==
    /\ push.step = "relay"
    /\ held' = IF arrives THEN Deposited(LetterEnvelope(push.letter)) ELSE held
    /\ Goto(IF push.refused THEN "refuse" ELSE "failure")
    /\ UNCHANGED <<report, handoff, items, applied, spulled,
                   recipientVars, incidents, historyVars>>

(* record_relay_handoff *)
RecordHandoff ==
    /\ push.step = "handoff"
    /\ handoff' = IF report[push.letter] = "pending"
                  THEN [handoff EXCEPT ![push.letter] = 0] ELSE handoff
    /\ Goto("success")
    /\ UNCHANGED <<report, items, applied, spulled, held, recipientVars,
                   incidents, historyVars>>

(* record_link_message_refused *)
RecordRefused ==
    /\ push.step = "refuse"
    /\ report' = IF report[push.letter] = "pending"
                 THEN [report EXCEPT ![push.letter] = "bounced"] ELSE report
    /\ Goto("success")
    /\ UNCHANGED <<handoff, items, applied, spulled, held, recipientVars,
                   incidents, historyVars>>

(* record_success *)
RecordSuccess ==
    /\ push.step = "success"
    /\ items' = [items EXCEPT ![push.letter] = PushedRow(@)]
    /\ push' = NoPush
    /\ UNCHANGED <<report, handoff, applied, spulled, held, recipientVars,
                   incidents, historyVars>>

(* Mutant: a dead-lettered item's letter is not expired. *)
RecordFailureOnly ==
    /\ push.step = "failure"
    /\ items' = [items EXCEPT ![push.letter] = FailedRow(@, @, "route")]
    /\ push' = NoPush
    /\ UNCHANGED <<report, handoff, applied, spulled, held, recipientVars,
                   incidents, historyVars>>

(* record_failure ... *)
RecordFailure ==
    /\ push.step = "failure"
    /\ items' = [items EXCEPT ![push.letter] = FailedRow(@, @, "route")]
    /\ IF GivesUp(items[push.letter]) THEN Goto("expire") ELSE push' = NoPush
    /\ UNCHANGED <<report, handoff, applied, spulled, held, recipientVars,
                   incidents, historyVars>>

(* ... and expire_link_message_delivery of a dead-lettered one *)
ExpireLetter ==
    /\ push.step = "expire"
    /\ report' = IF report[push.letter] = "pending"
                 THEN [report EXCEPT ![push.letter] = "expired"] ELSE report
    /\ push' = NoPush
    /\ UNCHANGED <<handoff, items, applied, spulled, held, recipientVars,
                   incidents, historyVars>>

Overdue == {l \in Letters : report[l] = "pending" /\ handoff[l] = NoAnswerTimeout}

(* expire_unanswered_relay_mail, at the start of a pass *)
ExpireUnanswered ==
    /\ push = NoPush
    /\ Overdue # {}
    /\ report' = [l \in Letters |-> IF l \in Overdue THEN "expired" ELSE report[l]]
    /\ UNCHANGED <<handoff, items, applied, push, spulled, held, recipientVars,
                   incidents, historyVars>>

(* replay_work_item, with unexpire_link_message_delivery_without_commit *)
Replay(l) ==
    /\ SysOpReplays
    /\ incidents < MaxIncidents
    /\ incidents' = incidents + 1
    /\ items[l].status \in GivenUp
    /\ items' = [items EXCEPT ![l] = ReplayedRow(@)]
    /\ IF report[l] = "expired"
       THEN /\ report' = [report EXCEPT ![l] = "pending"]
            /\ handoff' = [handoff EXCEPT ![l] = Never]
       ELSE UNCHANGED <<report, handoff>>
    /\ replayed' = replayed \cup {l}
    /\ UNCHANGED <<applied, push, spulled, held, recipientVars, copies, turned,
                   gone, awaited>>

-----------------------------------------------------------------------------
(* Time and crashes.                                                       *)

(* Everything a pass of either node or the relay has to do is done. *)
PassesDone ==
    /\ push = NoPush
    /\ Overdue = {}
    /\ \A l \in Letters : ~(IsDue(items[l]) /\ items[l].age > MaxAge)
    /\ \A a \in Answer : ~(IsDue(ackItems[a]) /\ ackItems[a].age > MaxAge)
    /\ \A e \in Envelope : ~HeldTooLong(e)

(* A time nothing reads any more stands still. *)
AgedItem(row) == IF row.status \in Unresolved THEN AgedRow(row) ELSE row

Tick ==
    /\ PassesDone
    /\ handoff' = [l \in Letters |->
                      IF report[l] = "pending" /\ handoff[l] # Never
                      THEN Older(handoff[l], NoAnswerTimeout) ELSE handoff[l]]
    /\ items' = [l \in Letters |-> AgedItem(items[l])]
    /\ ackItems' = [a \in Answer |-> AgedItem(ackItems[a])]
    /\ held' = [e \in Envelope |-> IF held[e] = Never THEN Never
                                   ELSE Older(held[e], Retention + 1)]
    /\ UNCHANGED <<report, applied, push, spulled, saved, known, work,
                   rpulled, incidents, historyVars>>

SenderCrash ==
    /\ incidents < MaxIncidents
    /\ incidents' = incidents + 1
    /\ push' = NoPush
    /\ spulled' = {}
    /\ UNCHANGED <<report, handoff, items, applied, held, recipientVars,
                   historyVars>>

(* load_link_node rebuilds known_event_ids from link_events; a request cut
   short is never answered. *)
RecipientCrash ==
    /\ incidents < MaxIncidents
    /\ incidents' = incidents + 1
    /\ known' = saved
    /\ work' = [l \in Letters |-> "none"]
    /\ rpulled' = {}
    /\ push' = IF push.step = "wait" THEN [push EXCEPT !.reply = "none"] ELSE push
    /\ gone' = gone \cup rpulled \cup {l \in Letters : work[l] = "decide"}
    /\ UNCHANGED <<report, handoff, items, applied, spulled, held, saved,
                   ackItems, copies, turned, awaited, replayed>>

-----------------------------------------------------------------------------
(* The specification.                                                      *)

SenderStep ==
    \/ \E l \in Letters : TakeItem(l)
    \/ PushDirect \/ PushRefused \/ PushUnreachable
    \/ HearReply \/ LoseReply
    \/ PushRelay
    \/ \E arrives \in BOOLEAN : PushRelayFails(arrives)
    \/ RecordHandoff \/ RecordRefused \/ RecordSuccess \/ RecordFailure
    \/ ExpireLetter \/ ExpireUnanswered

PullStep ==
    \/ \E heard \in BOOLEAN : PickUpLetters(heard) \/ PickUpAnswers(heard)
    \/ \E l \in rpulled : ReceivePulled(l) \/ RejectPulled(l)
    \/ \E a \in spulled : ApplyPulled(a) \/ RejectAnswer(a)

Outcome == {"fails", "unheard", "heard"}
AnswerStep == \E a \in Answer, direct, relay \in Outcome : TryAnswer(a, direct, relay)

WorkStep(l) == Deliver(l) \/ AnswerAccepted(l) \/ Bounce(l)

Next ==
    \/ \E l \in Letters : Compose(l) \/ Replay(l) \/ WorkStep(l)
    \/ SenderStep \/ PullStep \/ AnswerStep
    \/ Prune \/ Tick
    \/ SenderCrash \/ RecipientCrash

Spec == Init /\ [][Next]_vars

(* Both nodes run pass after pass, every job and exchange ends, and time
   passes. *)
Fairness ==
    /\ WF_vars(SenderStep)
    /\ WF_vars(AnswerStep)
    /\ \A l \in Letters : WF_vars(WorkStep(l))
    /\ WF_vars(Prune)
    /\ WF_vars(Tick)

FairSpec == Spec /\ Fairness

-----------------------------------------------------------------------------
(* Properties.                                                             *)

Service == INSTANCE MailService WITH refused <- turned

(* The three nodes together keep the promise of MailService: at most one
   copy, "delivered" only of a letter in the mailbox, "bounced" only after a
   refusal, whatever is lost, repeated, reordered or forgotten in a crash. *)
KeepsPromise == Service!Spec

(* A letter its node has stopped pushing and still calls pending has been
   decided, is on its way through the relay or the receiving node, or was
   lost after one of them had taken it: a refused deposit, a lost reply or a
   crash never makes the sender stop too soon. *)
InGoodHands ==
    \A l \in Letters :
        items[l].status = "pushed" /\ report[l] = "pending" =>
            \/ copies[l] > 0 \/ l \in turned
            \/ LetterEnvelope(l) \in {e \in Envelope : IsHeld(e)}
            \/ l \in rpulled \/ work[l] # "none"
            \/ l \in gone

(* "a letter the sender has not yet given up on is never the one dropped
   here", but for one the SysOp sent again: the relay's retention outlasts the
   retries and the wait for an answer, although a resend does not renew it. *)
DroppedOnlyIfReplayed == awaited \subseteq replayed

HandedDirectly(l) == items[l].status = "pushed" /\ handoff[l] = Never
Forgotten(l) == items[l].status = "dead_lettered" /\ incidents > 0

(* A letter does not stay pending for ever, with two exceptions: it was
   handed over directly and its answer was lost or given up, since only a
   letter left at a relay has a time-out; or its node crashed between
   dead-lettering its item and expiring it. *)
EveryLetterSettles ==
    \A l \in Letters :
        report[l] = "pending" ~>
            report[l] # "pending" \/ [](HandedDirectly(l) \/ Forgotten(l))

=============================================================================

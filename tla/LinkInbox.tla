------------------------------ MODULE LinkInbox ------------------------------
(***************************************************************************)
(* The receiving side of NetBBS Link mail on one node: letters arrive by a *)
(* direct push (netbbs.link.transport.LinkServer._handle_events) or are    *)
(* picked up from a relay by the sync loop (sync._pickup_relay_mail), are  *)
(* accepted once (LinkNode.handle_events), saved, delivered into a bounded *)
(* mailbox or bounced (transport.persist_accepted_events,                  *)
(* mail.deliver_link_message), and answered by a signed acknowledgement    *)
(* that the sync loop pushes back (sync._push_pending_link_mail).  All     *)
(* letters come from one user of one node, to one local user.              *)
(*                                                                         *)
(* A handler is one coroutine: a request of the Link server, or the sync   *)
(* loop while it processes what it picked up.  All of them share the       *)
(* background database lane, one thread, one job at a time; the recipient  *)
(* uses the foreground lane's own connection.  deliver_link_message is ONE *)
(* job but three separately visible steps: it reads, writes the letter and *)
(* commits, then writes the answer and commits.                            *)
(***************************************************************************)
EXTENDS WorkItems, Sequences, FiniteSets

CONSTANTS
    Letters,            \* content ids of the letters sent here
    Requests,           \* concurrent push requests the Link server handles
    MailboxCap,         \* MAX_MAIL_PER_RECIPIENT
    EnforceTrustPolicy, \* enforce_trust_policy of the server and the loop
    Standings,          \* the trust standings the sender may have
    MarksUnread,        \* whether the recipient marks letters unread again
    LaneErrors,         \* whether a lane job may raise (a locked database)
    Crashes,            \* whether the process may crash and restart
    MaxFaults           \* bound: lane errors and crashes together

ASSUME LettersAssumption == Letters # {} /\ IsFiniteSet(Letters)

ASSUME InboxAssumption ==
    /\ MailboxCap \in Nat \ {0}
    /\ MaxFaults \in Nat
    /\ "loop" \notin Requests
    /\ Standings # {}
    /\ Standings \subseteq {"established", "probationary", "user_blocked",
                            "node_blocked"}
    /\ {EnforceTrustPolicy, MarksUnread, LaneErrors, Crashes} \subseteq BOOLEAN

VARIABLES
    \* The database: it survives a crash.
    saved,      \* link_events: received letters
    inbox,      \* the recipient's mail_messages rows, oldest first
    unread,     \* ... those with read_at NULL
    opened,     \* letters with first_read_at set
    acks,       \* link_mail_acknowledgements, each with its work item
    refusals,   \* link_mail_refusals
    \* The memory of the running process.
    known,      \* node.known_event_ids
    job,        \* the letter each handler is working on, and how far it is
    loop,       \* where the sync loop's coroutine stands
    pulled,     \* letters picked up from the relay and not yet processed
    due,        \* the due answers the loop has loaded and not yet tried
    cur,        \* the answer it is working on, as it was loaded
    error,      \* the error to record for cur
    \* The environment.
    held,       \* letters held for this node at its relay
    standing,   \* this node's trust standing of the sender
    faults,     \* lane errors and crashes so far
    \* History, read by no action.
    copies      \* how often each letter was put into the mailbox

dbVars == <<saved, inbox, unread, opened, acks, refusals>>
mailVars == <<inbox, unread, opened>>
ackLoopVars == <<due, cur, error>>
envVars == <<held, standing, faults>>
historyVars == <<copies>>
vars == <<saved, inbox, unread, opened, acks, refusals, known, job, loop,
          pulled, due, cur, error, held, standing, faults, copies>>

-----------------------------------------------------------------------------
(* Rows and records.                                                       *)

Handlers == Requests \cup {"loop"}

Step == {"idle", "door", "turn_away", "accept", "decide", "refuse", "state",
         "bounce", "save", "open", "insert", "answer", "log"}

(* evict: the letter make_room has chosen to delete, if any *)
Job == [letter : Letters, step : Step, evict : SUBSET Letters]
NoJob == [letter |-> CHOOSE l \in Letters : TRUE, step |-> "idle",
          evict |-> {}]

AnswerKind == {"accepted", "bounced"}
Ack == [letter : Letters, kind : AnswerKind, item : Item]

(* What load_due_work_items returns of a row and the loop still uses. *)
Snapshot == [ack      : 1 .. MaxRowId,
             attempts : 0 .. MaxAttempts - 1,
             age      : 0 .. MaxAge + 1]
NoSnapshot == [ack |-> 1, attempts |-> 0, age |-> 0]

LoopPC == {"idle", "pickup", "wake", "load", "next", "decide", "push",
           "success", "failure"}

TypeOK ==
    /\ saved \subseteq Letters
    /\ inbox \in Seq(Letters)
    /\ unread \subseteq Letters
    /\ opened \subseteq Letters
    /\ acks \in Seq(Ack) /\ Len(acks) <= MaxRowId
    /\ refusals \subseteq Letters
    /\ known \subseteq Letters
    /\ job \in [Handlers -> Job]
    /\ loop \in LoopPC
    /\ pulled \subseteq Letters
    /\ due \subseteq Snapshot
    /\ cur \in Snapshot
    /\ error \in ItemError
    /\ held \subseteq Letters
    /\ standing \in Standings
    /\ faults \in 0 .. MaxFaults
    /\ copies \in [Letters -> Nat]

Init ==
    /\ saved = {} /\ inbox = <<>> /\ unread = {} /\ opened = {}
    /\ acks = <<>> /\ refusals = {}
    /\ known = {}
    /\ job = [h \in Handlers |-> NoJob]
    /\ loop = "idle" /\ pulled = {} /\ due = {} /\ cur = NoSnapshot
    /\ error = "none"
    /\ held = {}
    /\ standing \in Standings
    /\ faults = 0
    /\ copies = [l \in Letters |-> 0]

-----------------------------------------------------------------------------
(* Trust decisions (netbbs.link.enforcement).                              *)

(* decide_link_mail_sender: the node is established and the user is neither
   quarantined nor blocked *)
SenderWelcome == standing = "established"

(* decide_node_action(sender's node, LINK_MAIL) *)
NodeEstablished == standing \in {"established", "user_blocked"}

-----------------------------------------------------------------------------
(* A handler's coroutine.                                                  *)

Busy(h) == job[h].step # "idle"

(* The one thread of the lane is inside another handler's
   deliver_link_message. *)
LaneFree(h) ==
    \A g \in Handlers \ {h} : job[g].step \notin {"insert", "answer"}

(* h runs a lane job (or other step) that begins at `step'. *)
At(h, step) == job[h].step = step /\ LaneFree(h)

Goes(h, step) == job' = [job EXCEPT ![h].step = step]
Ends(h) == job' = [job EXCEPT ![h] = NoJob]

(* _queue_acknowledgement: the answer and its work item, in one transaction *)
Queue(l, kind) ==
    /\ Len(acks) < MaxRowId
    /\ acks' = Append(acks, [letter |-> l, kind |-> kind,
                             item |-> NewItem(Len(acks) + 1)])

-----------------------------------------------------------------------------
(* Arrival.                                                                *)

(* The sender pushes a letter, for the first time or again. *)
Push(h, l) ==
    /\ h \in Requests
    /\ ~Busy(h)
    /\ job' = [job EXCEPT ![h] =
                  [letter |-> l, evict |-> {},
                   step |-> IF EnforceTrustPolicy THEN "door" ELSE "accept"]]
    /\ UNCHANGED <<dbVars, known, loop, pulled, ackLoopVars, envVars,
                   historyVars>>

(* _handle_events: decide_node_action, decide_event_authorship *)
DecideAtDoor(h) ==
    /\ At(h, "door")
    /\ Goes(h, IF SenderWelcome THEN "accept" ELSE "turn_away")
    /\ UNCHANGED <<dbVars, known, loop, pulled, ackLoopVars, envVars,
                   historyVars>>

(* _record_refused_mail, then the 403 *)
TurnAway(h) ==
    /\ At(h, "turn_away")
    /\ refusals' = refusals \cup {job[h].letter}
    /\ Ends(h)
    /\ UNCHANGED <<saved, mailVars, acks, known, loop, pulled, ackLoopVars,
                   envVars, historyVars>>

(* The sender leaves a letter at this node's relay, for the first time or
   again. *)
Deposit(l) ==
    /\ held' = held \cup {l}
    /\ l \notin held
    /\ UNCHANGED <<dbVars, known, job, loop, pulled, ackLoopVars, standing,
                   faults, historyVars>>

(* _pickup_relay_mail: the relay hands over what it holds and deletes it.
   The relay may be out of reach, and its answer may be lost after it has
   deleted the letters. *)
PickUp(got, deleted) ==
    /\ loop = "idle"
    /\ got => deleted
    /\ loop' = "pickup"
    /\ pulled' = IF got THEN held ELSE {}
    /\ held' = IF deleted THEN {} ELSE held
    /\ UNCHANGED <<dbVars, known, job, ackLoopVars, standing, faults,
                   historyVars>>

TakePulled(l) ==
    /\ loop = "pickup"
    /\ ~Busy("loop")
    /\ l \in pulled
    /\ pulled' = pulled \ {l}
    /\ job' = [job EXCEPT !["loop"] =
                  [letter |-> l, evict |-> {}, step |-> "accept"]]
    /\ UNCHANGED <<dbVars, known, loop, ackLoopVars, envVars, historyVars>>

EndPickUp ==
    /\ loop = "pickup"
    /\ ~Busy("loop")
    /\ pulled = {}
    /\ loop' = IF EnforceTrustPolicy THEN "wake" ELSE "load"
    /\ UNCHANGED <<dbVars, known, job, pulled, ackLoopVars, envVars,
                   historyVars>>

(* Mutant: the letter is noted as known only when it is saved. *)
AcceptUnnoted(h) ==
    /\ job[h].step = "accept"
    /\ IF job[h].letter \in known
       THEN Ends(h)
       ELSE Goes(h, IF EnforceTrustPolicy THEN "decide" ELSE "save")
    /\ known' = known \cup saved
    /\ UNCHANGED <<dbVars, loop, pulled, ackLoopVars, envVars, historyVars>>

(* LinkNode.handle_events, on the event loop: a letter already known is
   passed over, any other is noted before the first await. *)
Accept(h) ==
    /\ job[h].step = "accept"
    /\ IF job[h].letter \in known
       THEN Ends(h)
       ELSE Goes(h, IF EnforceTrustPolicy THEN "decide" ELSE "save")
    /\ known' = known \cup {job[h].letter}
    /\ UNCHANGED <<dbVars, loop, pulled, ackLoopVars, envVars, historyVars>>

-----------------------------------------------------------------------------
(* persist_accepted_events.                                                *)

(* decide_event_authorship, before anything is kept; a welcome author's day
   of activity is counted (record_author_activity, not modelled) *)
DecideAuthor(h) ==
    /\ At(h, "decide")
    /\ Goes(h, IF SenderWelcome THEN "save" ELSE "refuse")
    /\ UNCHANGED <<dbVars, known, loop, pulled, ackLoopVars, envVars,
                   historyVars>>

(* record_link_mail_refusal, of a letter that will not be saved *)
RecordRefusal(h) ==
    /\ At(h, "refuse")
    /\ refusals' = refusals \cup {job[h].letter}
    /\ Goes(h, "state")
    /\ UNCHANGED <<saved, mailVars, acks, known, loop, pulled, ackLoopVars,
                   envVars, historyVars>>

(* node_transport_state: a quarantined or blocked node is not answered *)
DecideToAnswer(h) ==
    /\ At(h, "state")
    /\ IF standing = "node_blocked" THEN Ends(h) ELSE Goes(h, "bounce")
    /\ UNCHANGED <<dbVars, known, loop, pulled, ackLoopVars, envVars,
                   historyVars>>

(* bounce_link_message(..., "blocked_sender") *)
BounceRefused(h) ==
    /\ At(h, "bounce")
    /\ Queue(job[h].letter, "bounced")
    /\ Ends(h)
    /\ UNCHANGED <<saved, mailVars, refusals, known, loop, pulled,
                   ackLoopVars, envVars, historyVars>>

(* save_event *)
SaveLetter(h) ==
    /\ At(h, "save")
    /\ saved' = saved \cup {job[h].letter}
    /\ Goes(h, "open")
    /\ UNCHANGED <<mailVars, acks, refusals, known, loop, pulled, ackLoopVars,
                   envVars, historyVars>>

-----------------------------------------------------------------------------
(* deliver_link_message.                                                   *)

(* The rows but that of the letter in S, if there is one: a letter has one
   row at most, and S one letter. *)
Without(seq, S) ==
    LET rows == {i \in DOMAIN seq : seq[i] \in S} IN
    IF rows = {} THEN seq
    ELSE LET i == CHOOSE i \in rows : TRUE
         IN  SubSeq(seq, 1, i - 1) \o SubSeq(seq, i + 1, Len(seq))

(* make_room: below the cap nothing goes; at the cap the oldest read letter;
   no room if every letter is unread *)
RoomFor(evict) ==
    IF Len(inbox) < MailboxCap THEN evict = {}
    ELSE \E i \in DOMAIN inbox :
            /\ inbox[i] \notin unread
            /\ \A k \in 1 .. i - 1 : inbox[k] \in unread
            /\ evict = {inbox[i]}

HasRoom == \E evict \in SUBSET Letters : RoomFor(evict)

(* The checks and make_room's reads.  unfit: no such recipient, one who takes
   no mail or has blocked the sender, or a letter that cannot be opened. *)
OpenLetter(h, unfit) ==
    /\ At(h, "open")
    /\ ~unfit
    /\ \E evict \in SUBSET Letters :
          /\ RoomFor(evict)
          /\ job' = [job EXCEPT ![h].step = "insert", ![h].evict = evict]
    /\ UNCHANGED <<dbVars, known, loop, pulled, ackLoopVars, envVars,
                   historyVars>>

(* Mutant: a letter there is no room for is dropped. *)
BounceLetterUnqueued(h, unfit) ==
    /\ At(h, "open")
    /\ unfit \/ ~HasRoom
    /\ Goes(h, "log")
    /\ UNCHANGED <<dbVars, known, loop, pulled, ackLoopVars, envVars,
                   historyVars>>

(* _bounce *)
BounceLetter(h, unfit) ==
    /\ At(h, "open")
    /\ unfit \/ ~HasRoom
    /\ Queue(job[h].letter, "bounced")
    /\ Goes(h, "log")
    /\ UNCHANGED <<saved, mailVars, refusals, known, loop, pulled,
                   ackLoopVars, envVars, historyVars>>

(* The INSERT and make_room's DELETE (by id), in one transaction *)
InsertLetter(h) ==
    /\ At(h, "insert")
    /\ inbox' = Append(Without(inbox, job[h].evict), job[h].letter)
    /\ unread' = (unread \ job[h].evict) \cup {job[h].letter}
    /\ copies' = [copies EXCEPT ![job[h].letter] = @ + 1]
    /\ job' = [job EXCEPT ![h].step = "answer", ![h].evict = {}]
    /\ UNCHANGED <<saved, opened, acks, refusals, known, loop, pulled,
                   ackLoopVars, envVars>>

(* Mutant: the answer is never queued. *)
QueueAcceptedNot(h) ==
    /\ At(h, "answer")
    /\ Ends(h)
    /\ UNCHANGED <<dbVars, known, loop, pulled, ackLoopVars, envVars,
                   historyVars>>

(* _queue_acknowledgement of the accepted answer, in a second transaction *)
QueueAccepted(h) ==
    /\ At(h, "answer")
    /\ Queue(job[h].letter, "accepted")
    /\ Ends(h)
    /\ UNCHANGED <<saved, mailVars, refusals, known, loop, pulled,
                   ackLoopVars, envVars, historyVars>>

(* record_link_mail_refusal, after deliver_link_message has bounced *)
LogBounce(h) ==
    /\ At(h, "log")
    /\ refusals' = refusals \cup {job[h].letter}
    /\ Ends(h)
    /\ UNCHANGED <<saved, mailVars, acks, known, loop, pulled, ackLoopVars,
                   envVars, historyVars>>

-----------------------------------------------------------------------------
(* The recipient, on the foreground lane.                                  *)

InInbox(l) == \E i \in DOMAIN inbox : inbox[i] = l

(* mark_read *)
Read(l) ==
    /\ InInbox(l) /\ l \in unread
    /\ unread' = unread \ {l}
    /\ opened' = opened \cup {l}
    /\ UNCHANGED <<saved, inbox, acks, refusals, known, job, loop, pulled,
                   ackLoopVars, envVars, historyVars>>

(* mark_unread *)
MarkUnread(l) ==
    /\ MarksUnread
    /\ InInbox(l) /\ l \notin unread
    /\ unread' = unread \cup {l}
    /\ UNCHANGED <<saved, inbox, opened, acks, refusals, known, job, loop,
                   pulled, ackLoopVars, envVars, historyVars>>

(* delete_for_recipient: no Sent copy exists here, so the row goes *)
Delete(l) ==
    /\ InInbox(l)
    /\ inbox' = Without(inbox, {l})
    /\ unread' = unread \ {l}
    /\ UNCHANGED <<saved, opened, acks, refusals, known, job, loop, pulled,
                   ackLoopVars, envVars, historyVars>>

-----------------------------------------------------------------------------
(* The sync loop's answers: the second half of _push_pending_link_mail.    *)

LoopAt(label) == loop = label /\ LaneFree("loop")

WithItem(i, row) == [acks EXCEPT ![i].item = row]

(* _wake_mail_for_established_targets *)
WakeAnswers ==
    /\ LoopAt("wake")
    /\ acks' = [i \in DOMAIN acks |->
                   IF NodeEstablished
                   THEN [acks[i] EXCEPT !.item = WokenRow(@)] ELSE acks[i]]
    /\ loop' = "load"
    /\ UNCHANGED <<saved, mailVars, refusals, known, job, pulled, ackLoopVars,
                   envVars, historyVars>>

(* load_due_work_items(kind = link_mail_ack) *)
LoadDueAnswers ==
    /\ LoopAt("load")
    /\ due' = {[ack |-> i, attempts |-> acks[i].item.attempts,
                age |-> acks[i].item.age] :
                   i \in {k \in DOMAIN acks : IsDue(acks[k].item)}}
    /\ loop' = "next"
    /\ UNCHANGED <<dbVars, known, job, pulled, cur, error, envVars,
                   historyVars>>

(* get_link_mail_acknowledgement *)
TakeAnswer(s) ==
    /\ LoopAt("next")
    /\ s \in due
    /\ due' = due \ {s}
    /\ cur' = s
    /\ loop' = IF EnforceTrustPolicy THEN "decide" ELSE "push"
    /\ UNCHANGED <<dbVars, known, job, pulled, error, envVars, historyVars>>

(* decide_node_action(target, LINK_MAIL); a bounce is also sent to a node on
   probation *)
DecideAnswer ==
    /\ LoopAt("decide")
    /\ IF \/ NodeEstablished
          \/ acks[cur.ack].kind = "bounced" /\ standing = "probationary"
       THEN loop' = "push" /\ UNCHANGED error
       ELSE loop' = "failure" /\ error' = "policy"
    /\ UNCHANGED <<dbVars, known, job, pulled, due, cur, envVars, historyVars>>

(* _push_one on every address, then _deposit_one at every relay *)
PushAnswer(delivered) ==
    /\ loop = "push"
    /\ loop' = IF delivered THEN "success" ELSE "failure"
    /\ error' = IF delivered THEN error ELSE "route"
    /\ UNCHANGED <<dbVars, known, job, pulled, due, cur, envVars, historyVars>>

NextAnswer == loop' = "next" /\ cur' = NoSnapshot /\ error' = "none"

(* record_success *)
AnswerSent ==
    /\ LoopAt("success")
    /\ acks' = WithItem(cur.ack, PushedRow(acks[cur.ack].item))
    /\ NextAnswer
    /\ UNCHANGED <<saved, mailVars, refusals, known, job, pulled, due,
                   envVars, historyVars>>

(* record_failure *)
AnswerNotSent ==
    /\ LoopAt("failure")
    /\ acks' = WithItem(cur.ack, FailedRow(acks[cur.ack].item, cur, error))
    /\ NextAnswer
    /\ UNCHANGED <<saved, mailVars, refusals, known, job, pulled, due,
                   envVars, historyVars>>

LeavePass ==
    /\ loop' = "idle" /\ pulled' = {} /\ due' = {} /\ cur' = NoSnapshot
    /\ error' = "none"

EndPass ==
    /\ loop = "next"
    /\ due = {}
    /\ LeavePass
    /\ UNCHANGED <<dbVars, known, job, envVars, historyVars>>

-----------------------------------------------------------------------------
(* Time, trust standing and faults.                                        *)

Aged(snapshot) == [snapshot EXCEPT !.age = Older(@, MaxAge + 1)]

Tick ==
    /\ acks' = [i \in DOMAIN acks |-> [acks[i] EXCEPT !.item = AgedRow(@)]]
    /\ due' = {Aged(s) : s \in due}
    /\ cur' = IF cur = NoSnapshot THEN cur ELSE Aged(cur)
    /\ UNCHANGED <<saved, mailVars, refusals, known, job, loop, pulled, error,
                   envVars, historyVars>>

ChangeStanding ==
    /\ standing' \in Standings \ {standing}
    /\ UNCHANGED <<dbVars, known, job, loop, pulled, ackLoopVars, held, faults,
                   historyVars>>

(* The lane job of a request raises: it was rolled back, the request fails,
   and what handle_events noted in memory stays. *)
RequestFails(h) ==
    /\ LaneErrors
    /\ faults < MaxFaults
    /\ h \in Requests
    /\ job[h].step \notin {"idle", "accept"}
    /\ LaneFree(h)
    /\ Ends(h)
    /\ faults' = faults + 1
    /\ UNCHANGED <<dbVars, known, loop, pulled, ackLoopVars, held, standing,
                   historyVars>>

(* A step of the sync pass raises: run_link_sync ends the pass, and what was
   picked up and not yet processed is gone. *)
PassFails ==
    /\ LaneErrors
    /\ faults < MaxFaults
    /\ loop # "idle"
    /\ LeavePass
    /\ Ends("loop")
    /\ faults' = faults + 1
    /\ UNCHANGED <<dbVars, known, held, standing, historyVars>>

(* Mutant: memory starts empty. *)
CrashAndForget ==
    /\ Crashes
    /\ faults < MaxFaults
    /\ faults' = faults + 1
    /\ known' = {}
    /\ job' = [h \in Handlers |-> NoJob]
    /\ LeavePass
    /\ UNCHANGED <<dbVars, held, standing, historyVars>>

(* The process dies and load_link_node rebuilds its memory from link_events. *)
CrashAndRestart ==
    /\ Crashes
    /\ faults < MaxFaults
    /\ faults' = faults + 1
    /\ known' = saved
    /\ job' = [h \in Handlers |-> NoJob]
    /\ LeavePass
    /\ UNCHANGED <<dbVars, held, standing, historyVars>>

-----------------------------------------------------------------------------
(* The specification.                                                      *)

HandlerStep(h) ==
    \/ DecideAtDoor(h)
    \/ TurnAway(h)
    \/ Accept(h)
    \/ DecideAuthor(h)
    \/ RecordRefusal(h)
    \/ DecideToAnswer(h)
    \/ BounceRefused(h)
    \/ SaveLetter(h)
    \/ \E unfit \in BOOLEAN : OpenLetter(h, unfit) \/ BounceLetter(h, unfit)
    \/ InsertLetter(h)
    \/ QueueAccepted(h)
    \/ LogBounce(h)

LoopStep ==
    \/ \E l \in pulled : TakePulled(l)
    \/ EndPickUp
    \/ WakeAnswers
    \/ LoadDueAnswers
    \/ \E s \in due : TakeAnswer(s)
    \/ DecideAnswer
    \/ \E delivered \in BOOLEAN : PushAnswer(delivered)
    \/ AnswerSent
    \/ AnswerNotSent
    \/ EndPass

StartPass == \E got, deleted \in BOOLEAN : PickUp(got, deleted)

RecipientStep == \E l \in Letters : Read(l) \/ MarkUnread(l) \/ Delete(l)

FaultStep ==
    \/ \E h \in Requests : RequestFails(h)
    \/ PassFails
    \/ CrashAndRestart

Next ==
    \/ \E h \in Requests, l \in Letters : Push(h, l)
    \/ \E l \in Letters : Deposit(l)
    \/ \E h \in Handlers : HandlerStep(h)
    \/ StartPass
    \/ LoopStep
    \/ RecipientStep
    \/ Tick
    \/ ChangeStanding
    \/ FaultStep

Spec == Init /\ [][Next]_vars

(* Every handler's awaits return, run_link_sync runs pass after pass, and the
   clock advances. *)
Fairness ==
    /\ \A h \in Handlers : WF_vars(HandlerStep(h))
    /\ WF_vars(StartPass)
    /\ WF_vars(LoopStep)
    /\ WF_vars(Tick)

FairSpec == Spec /\ Fairness

-----------------------------------------------------------------------------
(* Properties.                                                             *)

AnswersTo(l) == {i \in DOMAIN acks : acks[i].letter = l}

(* However often a letter is pushed, by however many requests at once and
   from a relay besides, and wherever a crash or an error strikes, it is put
   into the mailbox at most once. *)
AtMostOneCopy == \A l \in Letters : copies[l] <= 1

(* An accepted answer tells the truth and is the last word: the letter was
   put into the mailbox, and no answer of either kind follows it. *)
AcceptedIsLastWord ==
    \A i \in DOMAIN acks :
        acks[i].kind = "accepted" =>
            /\ copies[acks[i].letter] = 1
            /\ \A j \in AnswersTo(acks[i].letter) : j <= i

InProgress(l) == \E h \in Handlers : Busy(h) /\ job[h].letter = l

(* deliver_link_message either delivers or bounces, "never both, never
   silence": a letter kept here has exactly one answer once its handler is
   done. *)
NeverSilent ==
    \A l \in saved : InProgress(l) \/ Cardinality(AnswersTo(l)) = 1

(* Every letter this node takes note of is answered, unless its sender was
   refused, which the SysOp can see. *)
EveryLetterAnswered ==
    \A l \in Letters :
        l \in known ~> (AnswersTo(l) # {} \/ l \in refusals)

(* Every answer queued is sent or given up. *)
EveryAnswerSettles ==
    \A i \in 1 .. MaxRowId :
        (i \in DOMAIN acks /\ acks[i].item.status \in Unresolved) ~>
            (i \in DOMAIN acks /\ acks[i].item.status \notin Unresolved)

=============================================================================

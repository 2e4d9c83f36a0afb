----------------------------- MODULE LinkOutbox -----------------------------
(***************************************************************************)
(* The sending side of NetBBS Link mail on one node: the letters of        *)
(* mail_messages (netbbs.link.mail), the rows of link_work_items that      *)
(* track their delivery (netbbs.link.work_items), the Link sync loop that  *)
(* pushes them (netbbs.link.sync._push_pending_link_mail), the SysOp's     *)
(* Outbox screen, the intake of the recipient's signed answers             *)
(* (netbbs.link.transport.persist_accepted_events) and the sender's main   *)
(* menu.  All letters go to users of one peer node.                        *)
(*                                                                         *)
(* One step is one database-lane job or one network exchange: between two  *)
(* of them the coroutine has awaited, and another task, or the foreground  *)
(* lane's own connection, may run.  What the network and the peer do is    *)
(* nondeterministic.                                                       *)
(*                                                                         *)
(* Timestamps are kept as elapsed or remaining time, saturated where the   *)
(* code can no longer tell the difference, so the clock needs no bound.    *)
(***************************************************************************)
EXTENDS WorkItems, FiniteSets

CONSTANTS
    Letters,            \* content ids of the letters users may compose
    NoAnswerTimeout,    \* RELAY_NO_ANSWER_TIMEOUT
    EnforceTrustPolicy, \* run_link_sync's enforce_trust_policy
    PeerAnswers,        \* the kinds of answers the peer may send
    SenderReads,        \* whether the sender opens the main menu
    SysOpActs,          \* whether a SysOp uses the Outbox screen
    LaneErrors,         \* whether a lane job may raise (a locked database)
    Crashes,            \* whether the process may crash and restart
    MaxFaults           \* bound: lane errors and crashes together

ASSUME LettersAssumption == Letters # {} /\ IsFiniteSet(Letters)

ASSUME TimesAssumption == NoAnswerTimeout \in Nat /\ MaxFaults \in Nat

ASSUME SwitchesAssumption ==
    /\ {EnforceTrustPolicy, SenderReads, SysOpActs, LaneErrors, Crashes}
          \subseteq BOOLEAN
    /\ PeerAnswers \subseteq {"accepted", "bounced"}

VARIABLES
    \* The database: it survives a crash.
    mail,       \* mail_messages: the sender's row of each letter
    items,      \* link_work_items: the link_mail_delivery row of each letter
    stored,     \* link_events: own letters registered by the sync loop
    ackStored,  \* link_events: answers received
    \* The memory of the running process.
    known,      \* node.known_event_ids / node.events: own letters
    ackKnown,   \* node.known_event_ids: answers
    ackJobs,    \* answers between acceptance and the end of their handler
    pc,         \* where the sync loop's coroutine stands
    todo,       \* the due items it has loaded and not yet tried
    cur,        \* the item it is working on, as it was loaded
    refused,    \* a 403 policy refusal was heard for cur
    error,      \* the error recorded for cur; "none" on the success path
    sysop,      \* the Outbox operation between its check and its write
    menu,       \* the notices a main menu has read and not yet acknowledged
    \* The environment.
    established,\* this node's trust policy lets mail go to the peer
    faults,     \* lane errors and crashes so far
    handed,     \* letters that reached the peer's transport or a relay
    \* History, read by no action.
    relayAge,   \* time since the letter was first deposited at a relay
    pendingAge, \* time since it was composed or last un-expired
    told        \* the outcome last shown to the sender

dbVars == <<mail, items, stored, ackStored>>
loopVars == <<pc, todo, cur, refused, error>>
ackVars == <<ackStored, ackKnown, ackJobs>>
historyVars == <<handed, relayAge, pendingAge, told>>
vars == <<mail, items, stored, ackStored, known, ackKnown, ackJobs, pc, todo,
          cur, refused, error, sysop, menu, established, faults, handed,
          relayAge, pendingAge, told>>

-----------------------------------------------------------------------------
(* Rows and records.                                                       *)

Never == -1

MailStatus == {"unsent", "pending", "delivered", "bounced", "expired"}
Reason == {"none", "answered", "refused", "own_policy", "no_answer",
           "sysop_cancelled"}
Letter == [status  : MailStatus,
           reason  : Reason,
           notice  : BOOLEAN,
           handoff : {Never} \cup (0 .. NoAnswerTimeout)]

(* What load_due_work_items returns of a row and the loop still uses. *)
Snapshot == [letter   : Letters,
             id       : 0 .. MaxRowId,
             attempts : 0 .. MaxAttempts - 1,
             age      : 0 .. MaxAge + 1]
NoSnapshot == [letter |-> CHOOSE l \in Letters : TRUE, id |-> 0,
               attempts |-> 0, age |-> 0]

AnswerKind == {"accepted", "bounced"}
Answer == Letters \X AnswerKind
AckJob == [answer : Answer, step : {"save", "apply"}]

LoopPC == {"idle", "unanswered", "wake", "load", "next", "save", "policy",
           "direct", "relay", "handoff", "refuse", "success", "failure",
           "reread", "expire"}

Operation == {"cancel", "replay", "delete"}
SysOpState == [op : Operation \cup {"idle"}, letter : Letters,
               id : 0 .. MaxRowId]
NoSysOp == [op |-> "idle", letter |-> CHOOSE l \in Letters : TRUE, id |-> 0]

ShownStatus == {"no"} \cup MailStatus

Unwritten == [status |-> "unsent", reason |-> "none", notice |-> FALSE,
              handoff |-> Never]

TypeOK ==
    /\ mail \in [Letters -> Letter]
    /\ items \in [Letters -> Item]
    /\ stored \subseteq Letters
    /\ known \subseteq Letters
    /\ ackStored \subseteq Answer
    /\ ackKnown \subseteq Answer
    /\ ackJobs \subseteq AckJob
    /\ pc \in LoopPC
    /\ todo \subseteq Snapshot
    /\ cur \in Snapshot
    /\ refused \in BOOLEAN
    /\ error \in ItemError
    /\ sysop \in SysOpState
    /\ menu \in [Letters -> ShownStatus]
    /\ established \in BOOLEAN
    /\ faults \in 0 .. MaxFaults
    /\ handed \subseteq Letters
    /\ relayAge \in [Letters -> {Never} \cup (0 .. NoAnswerTimeout)]
    /\ pendingAge \in [Letters -> {Never} \cup (0 .. NoAnswerTimeout)]
    /\ told \in [Letters -> ShownStatus]

Init ==
    /\ mail = [l \in Letters |-> Unwritten]
    /\ items = [l \in Letters |-> NoItem]
    /\ stored = {} /\ known = {}
    /\ ackStored = {} /\ ackKnown = {} /\ ackJobs = {}
    /\ pc = "idle" /\ todo = {} /\ cur = NoSnapshot
    /\ refused = FALSE /\ error = "none"
    /\ sysop = NoSysOp
    /\ menu = [l \in Letters |-> "no"]
    /\ established \in BOOLEAN
    /\ faults = 0
    /\ handed = {}
    /\ relayAge = [l \in Letters |-> Never]
    /\ pendingAge = [l \in Letters |-> Never]
    /\ told = [l \in Letters |-> "no"]

-----------------------------------------------------------------------------
(* Statements on mail_messages.  Each is the row an UPDATE leaves behind.  *)

(* Mutant: the UPDATE without its AND link_delivery_status = 'pending'. *)
ExpiredUnguarded(m, why) ==
    IF m.status = "unsent" THEN m
    ELSE [m EXCEPT !.status = "expired", !.reason = why, !.notice = TRUE]

(* expire_link_message_delivery_without_commit *)
Expired(m, why) ==
    IF m.status = "pending"
    THEN [m EXCEPT !.status = "expired", !.reason = why, !.notice = TRUE]
    ELSE m

(* Mutant: the relay clock of the earlier round is not cleared. *)
UnexpiredKeepingHandoff(m) ==
    IF m.status = "expired"
    THEN [m EXCEPT !.status = "pending", !.reason = "none", !.notice = FALSE]
    ELSE m

(* unexpire_link_message_delivery_without_commit *)
Unexpired(m) ==
    IF m.status = "expired"
    THEN [m EXCEPT !.status = "pending", !.reason = "none", !.notice = FALSE,
                   !.handoff = Never]
    ELSE m

(* _record_bounce *)
Bounced(m, why, onlyPending) ==
    IF m.status = "unsent" \/ (onlyPending /\ m.status # "pending")
    THEN m
    ELSE [m EXCEPT !.status = "bounced", !.reason = why,
                   !.notice = IF m.status = "bounced" THEN @ ELSE TRUE]

(* Mutant: delivery_notice is left as an earlier expiry set it. *)
AcceptedKeepingNotice(m) ==
    IF m.status = "unsent" THEN m
    ELSE [m EXCEPT !.status = "delivered", !.reason = "none"]

(* apply_link_message_accepted *)
Accepted(m) ==
    IF m.status = "unsent" THEN m
    ELSE [m EXCEPT !.status = "delivered", !.reason = "none", !.notice = FALSE]

(* record_relay_handoff *)
HandedOff(m) ==
    IF m.status = "pending" THEN [m EXCEPT !.handoff = 0] ELSE m

(* expire_unanswered_relay_mail, for one row *)
GivenUpUnanswered(m) ==
    IF m.handoff # Never /\ m.handoff >= NoAnswerTimeout
    THEN Expired(m, "no_answer")
    ELSE m

-----------------------------------------------------------------------------
(* Statements on link_work_items.                                          *)

Present(l) == items[l].status # "absent"

(* The rowid SQLite gives a new row of an INTEGER PRIMARY KEY table without
   AUTOINCREMENT: one more than the largest in use, so the id of a deleted
   last row is given again. *)
IsNextRowId(n) ==
    /\ \A l \in Letters : Present(l) => items[l].id < n
    /\ n = 1 \/ \E l \in Letters : Present(l) /\ items[l].id = n - 1

(* WHERE id = ?: the row with that id, whatever letter it belongs to now. *)
HasId(l, id) == Present(l) /\ items[l].id = id

RowExists(id) == \E l \in Letters : HasId(l, id)

IsDeadLettered(id) ==
    \E l \in Letters : HasId(l, id) /\ items[l].status = "dead_lettered"

-----------------------------------------------------------------------------
(* Composing a letter.                                                     *)

(* compose_link_message: the letter and its work item, in one transaction. *)
Compose(l) ==
    /\ mail[l].status = "unsent"
    /\ mail' = [mail EXCEPT ![l] = [Unwritten EXCEPT !.status = "pending"]]
    /\ \E n \in 1 .. MaxRowId :
          /\ IsNextRowId(n)
          /\ items' = [items EXCEPT ![l] = NewItem(n)]
    /\ pendingAge' = [pendingAge EXCEPT ![l] = 0]
    /\ UNCHANGED <<stored, ackVars, known, loopVars, sysop, menu, established,
                   faults, handed, relayAge, told>>

-----------------------------------------------------------------------------
(* The sync loop: one pass of _push_pending_link_mail.                     *)

Goto(label) == pc' = label /\ UNCHANGED <<todo, cur, refused, error>>

(* On to the next item of the loaded batch, or out of the pass. *)
Continue(label) ==
    /\ pc' = label
    /\ cur' = NoSnapshot
    /\ refused' = FALSE
    /\ error' = "none"

NextItem == Continue("next") /\ UNCHANGED todo
LeavePass == Continue("idle") /\ todo' = {}

StartPass ==
    /\ pc = "idle"
    /\ Goto("unanswered")
    /\ UNCHANGED <<dbVars, known, ackKnown, ackJobs, sysop, menu, established,
                   faults, historyVars>>

(* Mutant: the pass starts with the work items. *)
ExpireUnansweredSkipped ==
    /\ pc = "unanswered"
    /\ Goto(IF EnforceTrustPolicy THEN "wake" ELSE "load")
    /\ UNCHANGED <<dbVars, known, ackKnown, ackJobs, sysop, menu, established,
                   faults, historyVars>>

(* expire_unanswered_relay_mail *)
ExpireUnanswered ==
    /\ pc = "unanswered"
    /\ mail' = [l \in Letters |-> GivenUpUnanswered(mail[l])]
    /\ Goto(IF EnforceTrustPolicy THEN "wake" ELSE "load")
    /\ UNCHANGED <<items, stored, ackVars, known, sysop, menu, established,
                   faults, historyVars>>

(* _wake_mail_for_established_targets, wake_work_items_for_target *)
WakeHeldItems ==
    /\ pc = "wake"
    /\ items' = [l \in Letters |->
                    IF established THEN WokenRow(items[l]) ELSE items[l]]
    /\ Goto("load")
    /\ UNCHANGED <<mail, stored, ackVars, known, sysop, menu, established,
                   faults, historyVars>>

(* load_due_work_items *)
LoadDueItems ==
    /\ pc = "load"
    /\ pc' = "next"
    /\ todo' = {[letter |-> l, id |-> items[l].id,
                 attempts |-> items[l].attempts, age |-> items[l].age] :
                    l \in {m \in Letters : IsDue(items[m])}}
    /\ UNCHANGED <<cur, refused, error, dbVars, known, ackKnown, ackJobs,
                   sysop, menu, established, faults, historyVars>>

EndPass ==
    /\ pc = "next"
    /\ todo = {}
    /\ LeavePass
    /\ UNCHANGED <<dbVars, known, ackKnown, ackJobs, sysop, menu, established,
                   faults, historyVars>>

(* get_link_message_for_delivery, and what the loop does with its answer
   before the next await: a resolved letter is not pushed again, and a letter
   not yet in node.events is registered there. *)
TakeItem(s) ==
    /\ pc = "next"
    /\ s \in todo
    /\ todo' = todo \ {s}
    /\ cur' = s
    /\ IF mail[s.letter].status # "pending"
       THEN pc' = "success" /\ UNCHANGED known
       ELSE /\ known' = known \cup {s.letter}
            /\ pc' = IF s.letter \in known THEN "policy" ELSE "save"
    /\ UNCHANGED <<refused, error, dbVars, ackKnown, ackJobs, sysop, menu,
                   established, faults, historyVars>>

(* Mutant: the letter is registered in memory only. *)
SaveOwnLetterInMemoryOnly ==
    /\ pc = "save"
    /\ Goto("policy")
    /\ UNCHANGED <<dbVars, known, ackKnown, ackJobs, sysop, menu, established,
                   faults, historyVars>>

(* save_event, for the letter just registered *)
SaveOwnLetter ==
    /\ pc = "save"
    /\ stored' = stored \cup {cur.letter}
    /\ Goto("policy")
    /\ UNCHANGED <<mail, items, ackVars, known, sysop, menu, established,
                   faults, historyVars>>

(* decide_node_action(target, LINK_MAIL) *)
DecidePolicy ==
    /\ pc = "policy"
    /\ IF EnforceTrustPolicy /\ ~established
       THEN pc' = "failure" /\ error' = "policy"
       ELSE pc' = "direct" /\ UNCHANGED error
    /\ UNCHANGED <<todo, cur, refused, dbVars, known, ackKnown, ackJobs, sysop,
                   menu, established, faults, historyVars>>

(* _try_addresses_via(_push_mail_one): every known address of the peer in
   turn.  A letter may arrive although its answer is lost, and an address may
   refuse it with a 403 before another one takes it. *)
PushDirect(delivered, refusal, arrived) ==
    /\ pc = "direct"
    /\ delivered => arrived
    /\ pc' = IF delivered THEN "success" ELSE "relay"
    /\ refused' = refusal
    /\ handed' = IF arrived THEN handed \cup {cur.letter} ELSE handed
    /\ UNCHANGED <<todo, cur, error, dbVars, known, ackKnown, ackJobs, sysop,
                   menu, established, faults, relayAge, pendingAge, told>>

(* _try_addresses_via(_deposit_one): the relays the peer has published *)
PushRelay(delivered, arrived) ==
    /\ pc = "relay"
    /\ delivered => arrived
    /\ pc' = IF delivered THEN "handoff"
             ELSE IF refused THEN "refuse" ELSE "failure"
    /\ error' = IF delivered \/ refused THEN "none" ELSE "route"
    /\ handed' = IF arrived THEN handed \cup {cur.letter} ELSE handed
    /\ relayAge' = IF arrived /\ relayAge[cur.letter] = Never
                   THEN [relayAge EXCEPT ![cur.letter] = 0]
                   ELSE relayAge
    /\ UNCHANGED <<todo, cur, refused, dbVars, known, ackKnown, ackJobs, sysop,
                   menu, established, faults, pendingAge, told>>

RecordRelayHandoff ==
    /\ pc = "handoff"
    /\ mail' = [mail EXCEPT ![cur.letter] = HandedOff(@)]
    /\ Goto("success")
    /\ UNCHANGED <<items, stored, ackVars, known, sysop, menu, established,
                   faults, historyVars>>

(* Mutant: the refusal resolves the item but not the letter. *)
RecordRefusedItemOnly ==
    /\ pc = "refuse"
    /\ Goto("success")
    /\ UNCHANGED <<dbVars, known, ackKnown, ackJobs, sysop, menu, established,
                   faults, historyVars>>

(* record_link_message_refused *)
RecordRefused ==
    /\ pc = "refuse"
    /\ mail' = [mail EXCEPT ![cur.letter] = Bounced(@, "refused", TRUE)]
    /\ Goto("success")
    /\ UNCHANGED <<items, stored, ackVars, known, sysop, menu, established,
                   faults, historyVars>>

(* record_success: UPDATE and commit *)
RecordSuccess ==
    /\ pc = "success"
    /\ items' = [l \in Letters |-> IF HasId(l, cur.id) THEN PushedRow(items[l])
                                   ELSE items[l]]
    /\ Goto("reread")
    /\ UNCHANGED <<mail, stored, ackVars, known, sysop, menu, established,
                   faults, historyVars>>

(* record_failure: UPDATE and commit *)
RecordFailure ==
    /\ pc = "failure"
    /\ items' = [l \in Letters |-> IF HasId(l, cur.id)
                                   THEN FailedRow(items[l], cur, error)
                                   ELSE items[l]]
    /\ Goto("reread")
    /\ UNCHANGED <<mail, stored, ackVars, known, sysop, menu, established,
                   faults, historyVars>>

(* Mutant: a dead-lettered item's letter is not expired. *)
RereadItemOnly ==
    /\ pc = "reread"
    /\ IF ~RowExists(cur.id) THEN LeavePass ELSE NextItem
    /\ UNCHANGED <<dbVars, known, ackKnown, ackJobs, sysop, menu, established,
                   faults, historyVars>>

(* get_work_item after either commit: it raises WorkItemError for a row that
   is gone, which ends the pass; a dead-lettered item's letter expires. *)
RereadItem ==
    /\ pc = "reread"
    /\ IF ~RowExists(cur.id) THEN LeavePass
       ELSE IF error # "none" /\ IsDeadLettered(cur.id) THEN Goto("expire")
       ELSE NextItem
    /\ UNCHANGED <<dbVars, known, ackKnown, ackJobs, sysop, menu, established,
                   faults, historyVars>>

(* expire_link_message_delivery *)
ExpireLetter ==
    /\ pc = "expire"
    /\ mail' = [mail EXCEPT ![cur.letter] =
                   Expired(@, IF error = "policy" THEN "own_policy" ELSE "none")]
    /\ NextItem
    /\ UNCHANGED <<items, stored, ackVars, known, sysop, menu, established,
                   faults, historyVars>>

-----------------------------------------------------------------------------
(* The recipient's signed answers.                                         *)

(* LinkNode.handle_events accepts an answer only about a letter in
   node.events (_resolve_own_link_message), and each answer once. *)
AnswerArrives(l, kind) ==
    /\ l \in handed
    /\ l \in known
    /\ <<l, kind>> \notin ackKnown
    /\ ackKnown' = ackKnown \cup {<<l, kind>>}
    /\ ackJobs' = ackJobs \cup {[answer |-> <<l, kind>>, step |-> "save"]}
    /\ UNCHANGED <<dbVars, known, loopVars, sysop, menu, established, faults,
                   historyVars>>

(* persist_accepted_events: save_event ... *)
SaveAnswer(job) ==
    /\ job \in ackJobs
    /\ job.step = "save"
    /\ ackStored' = ackStored \cup {job.answer}
    /\ ackJobs' = (ackJobs \ {job}) \cup {[job EXCEPT !.step = "apply"]}
    /\ UNCHANGED <<mail, items, stored, known, ackKnown, loopVars, sysop, menu,
                   established, faults, historyVars>>

(* ... then apply_link_message_accepted or apply_link_message_bounced, in a
   lane job of its own. *)
ApplyAnswer(job) ==
    /\ job \in ackJobs
    /\ job.step = "apply"
    /\ mail' = [mail EXCEPT ![job.answer[1]] =
                   IF job.answer[2] = "accepted" THEN Accepted(@)
                   ELSE Bounced(@, "answered", FALSE)]
    /\ ackJobs' = ackJobs \ {job}
    /\ UNCHANGED <<items, stored, ackStored, known, ackKnown, loopVars, sysop,
                   menu, established, faults, historyVars>>

-----------------------------------------------------------------------------
(* The SysOp's Outbox screen, on the foreground lane's own connection.      *)
(* Each operation reads the row's status (get_work_item, outside any        *)
(* transaction), and only then writes by id.                                *)

MayStart(op, status) ==
    status \in IF op = "cancel" THEN Unresolved ELSE GivenUp

SysOpChecks(op, l) ==
    /\ SysOpActs
    /\ sysop = NoSysOp
    /\ Present(l)
    /\ MayStart(op, items[l].status)
    /\ sysop' = [op |-> op, letter |-> l, id |-> items[l].id]
    /\ UNCHANGED <<dbVars, known, ackKnown, ackJobs, loopVars, menu,
                   established, faults, historyVars>>

(* Mutant: the row is cancelled and the letter left pending. *)
SysOpCancelsItemOnly ==
    /\ sysop.op = "cancel"
    /\ items' = [l \in Letters |-> IF HasId(l, sysop.id)
                                   THEN CancelledRow(items[l]) ELSE items[l]]
    /\ sysop' = NoSysOp
    /\ UNCHANGED <<mail, stored, ackVars, known, loopVars, menu, established,
                   faults, historyVars>>

(* cancel_work_item: one transaction with the letter's expiry *)
SysOpCancels ==
    /\ sysop.op = "cancel"
    /\ items' = [l \in Letters |-> IF HasId(l, sysop.id)
                                   THEN CancelledRow(items[l]) ELSE items[l]]
    /\ mail' = [mail EXCEPT ![sysop.letter] = Expired(@, "sysop_cancelled")]
    /\ sysop' = NoSysOp
    /\ UNCHANGED <<stored, ackVars, known, loopVars, menu, established, faults,
                   historyVars>>

(* replay_work_item: one transaction with the letter's un-expiry *)
SysOpReplays ==
    /\ sysop.op = "replay"
    /\ items' = [l \in Letters |-> IF HasId(l, sysop.id)
                                   THEN ReplayedRow(items[l]) ELSE items[l]]
    /\ mail' = [mail EXCEPT ![sysop.letter] = Unexpired(@)]
    /\ pendingAge' = IF mail[sysop.letter].status = "expired"
                     THEN [pendingAge EXCEPT ![sysop.letter] = 0]
                     ELSE pendingAge
    /\ sysop' = NoSysOp
    /\ UNCHANGED <<stored, ackVars, known, loopVars, menu, established, faults,
                   handed, relayAge, told>>

(* delete_work_item: only the tracking row goes *)
SysOpDeletes ==
    /\ sysop.op = "delete"
    /\ items' = [l \in Letters |-> IF HasId(l, sysop.id) THEN NoItem
                                   ELSE items[l]]
    /\ sysop' = NoSysOp
    /\ UNCHANGED <<mail, stored, ackVars, known, loopVars, menu, established,
                   faults, historyVars>>

-----------------------------------------------------------------------------
(* The sender's main menu.                                                 *)

(* pending_delivery_notices: what the menu being drawn will say *)
ReadNotices ==
    /\ SenderReads
    /\ \A l \in Letters : menu[l] = "no"
    /\ \E l \in Letters : mail[l].notice
    /\ menu' = [l \in Letters |-> IF mail[l].notice THEN mail[l].status
                                  ELSE "no"]
    /\ UNCHANGED <<dbVars, known, ackKnown, ackJobs, loopVars, sysop,
                   established, faults, historyVars>>

(* acknowledge_delivery_notices, once the lines are on screen *)
AcknowledgeNotices ==
    /\ \E l \in Letters : menu[l] # "no"
    /\ mail' = [l \in Letters |-> IF menu[l] # "no"
                                  THEN [mail[l] EXCEPT !.notice = FALSE]
                                  ELSE mail[l]]
    /\ told' = [l \in Letters |-> IF menu[l] # "no" THEN menu[l] ELSE told[l]]
    /\ menu' = [l \in Letters |-> "no"]
    /\ UNCHANGED <<items, stored, ackVars, known, loopVars, sysop, established,
                   faults, handed, relayAge, pendingAge>>

(* Mutant: the notices are marked when read, not when shown. *)
DropCallerMarked ==
    /\ \E l \in Letters : menu[l] # "no"
    /\ mail' = [l \in Letters |-> IF menu[l] # "no"
                                  THEN [mail[l] EXCEPT !.notice = FALSE]
                                  ELSE mail[l]]
    /\ menu' = [l \in Letters |-> "no"]
    /\ UNCHANGED <<items, stored, ackVars, known, loopVars, sysop, established,
                   faults, historyVars>>

(* The caller drops before the menu is drawn: nothing was marked. *)
DropCaller ==
    /\ \E l \in Letters : menu[l] # "no"
    /\ menu' = [l \in Letters |-> "no"]
    /\ UNCHANGED <<dbVars, known, ackKnown, ackJobs, loopVars, sysop,
                   established, faults, historyVars>>

-----------------------------------------------------------------------------
(* Time, trust standing and faults.                                        *)

SinceOlder(t) == IF t = Never THEN Never ELSE Older(t, NoAnswerTimeout)

Aged(snapshot) == [snapshot EXCEPT !.age = Older(@, MaxAge + 1)]

Tick ==
    /\ mail' = [l \in Letters |->
                   [mail[l] EXCEPT !.handoff = SinceOlder(@)]]
    /\ items' = [l \in Letters |-> IF Present(l) THEN AgedRow(items[l])
                                   ELSE items[l]]
    /\ todo' = {Aged(s) : s \in todo}
    /\ cur' = IF cur = NoSnapshot THEN cur ELSE Aged(cur)
    /\ relayAge' = [l \in Letters |-> SinceOlder(relayAge[l])]
    /\ pendingAge' = [l \in Letters |-> SinceOlder(pendingAge[l])]
    /\ UNCHANGED <<stored, ackVars, known, pc, refused, error, sysop, menu,
                   established, faults, handed, told>>

(* The peer graduates, is established, or loses its standing. *)
ChangeStanding ==
    /\ EnforceTrustPolicy
    /\ established' = ~established
    /\ UNCHANGED <<dbVars, known, ackKnown, ackJobs, loopVars, sysop, menu,
                   faults, historyVars>>

(* A step of the pass raises: run_link_sync logs it and ends the pass; the
   failed lane job was rolled back (DatabaseLane._run_job). *)
PassFails ==
    /\ LaneErrors
    /\ faults < MaxFaults
    /\ pc # "idle"
    /\ LeavePass
    /\ faults' = faults + 1
    /\ UNCHANGED <<dbVars, known, ackKnown, ackJobs, sysop, menu, established,
                   historyVars>>

(* A lane job of persist_accepted_events raises: the request fails, and what
   handle_events noted in memory stays. *)
AnswerFails(job) ==
    /\ LaneErrors
    /\ faults < MaxFaults
    /\ job \in ackJobs
    /\ ackJobs' = ackJobs \ {job}
    /\ faults' = faults + 1
    /\ UNCHANGED <<dbVars, known, ackKnown, loopVars, sysop, menu, established,
                   historyVars>>

(* The process dies and load_link_node rebuilds its memory from link_events. *)
CrashAndRestart ==
    /\ Crashes
    /\ faults < MaxFaults
    /\ faults' = faults + 1
    /\ known' = stored
    /\ ackKnown' = ackStored
    /\ ackJobs' = {}
    /\ LeavePass
    /\ sysop' = NoSysOp
    /\ menu' = [l \in Letters |-> "no"]
    /\ UNCHANGED <<dbVars, established, historyVars>>

-----------------------------------------------------------------------------
(* The specification.                                                      *)

SyncStep ==
    \/ ExpireUnanswered
    \/ WakeHeldItems
    \/ LoadDueItems
    \/ EndPass
    \/ \E s \in todo : TakeItem(s)
    \/ SaveOwnLetter
    \/ DecidePolicy
    \/ \E delivered, refusal, arrived \in BOOLEAN :
          PushDirect(delivered, refusal, arrived)
    \/ \E delivered, arrived \in BOOLEAN : PushRelay(delivered, arrived)
    \/ RecordRelayHandoff
    \/ RecordRefused
    \/ RecordSuccess
    \/ RecordFailure
    \/ RereadItem
    \/ ExpireLetter

AnswerStep ==
    \/ \E l \in Letters, kind \in PeerAnswers : AnswerArrives(l, kind)
    \/ \E job \in ackJobs : SaveAnswer(job) \/ ApplyAnswer(job)

SysOpStep ==
    \/ \E op \in Operation, l \in Letters : SysOpChecks(op, l)
    \/ SysOpCancels
    \/ SysOpReplays
    \/ SysOpDeletes

MenuStep == ReadNotices \/ AcknowledgeNotices \/ DropCaller

FaultStep ==
    \/ PassFails
    \/ \E job \in ackJobs : AnswerFails(job)
    \/ CrashAndRestart

Next ==
    \/ \E l \in Letters : Compose(l)
    \/ StartPass
    \/ SyncStep
    \/ AnswerStep
    \/ SysOpStep
    \/ MenuStep
    \/ Tick
    \/ ChangeStanding
    \/ FaultStep

Spec == Init /\ [][Next]_vars

(* run_link_sync runs pass after pass whatever a pass ends with, every await
   of a pass returns (each exchange has a timeout), and the clock advances. *)
Fairness ==
    /\ WF_vars(StartPass)
    /\ WF_vars(SyncStep)
    /\ WF_vars(Tick)

FairSpec == Spec /\ Fairness

-----------------------------------------------------------------------------
(* Properties.                                                             *)

Failed == {"bounced", "expired"}

(* A signed accepted or bounced answer outlives every other outcome: once
   delivered or bounced, no late dead-letter, relay timeout, policy refusal,
   SysOp cancel or replay puts the letter back to expired or pending
   (expire_link_message_delivery: "a genuine accepted/bounced event racing in
   first ... must win"). *)
AnswersAreFinal ==
    [][\A l \in Letters : mail[l].status \in {"delivered", "bounced"} =>
                             mail'[l].status \in {"delivered", "bounced"}]_vars

(* The main menu never holds a failure notice for a letter that is pending
   again or was delivered after all, however the answers, expiries and
   replays that set and cleared the flag were ordered. *)
NoFalseAlarm ==
    \A l \in Letters : mail[l].notice => mail[l].status \in Failed

(* A letter that failed and is no longer flagged was shown to its sender as
   failed at least once: no interleaving of the menu's read and acknowledge
   with new outcomes makes a failure entirely silent. *)
NeverSilentFailure ==
    \A l \in Letters :
        mail[l].status \in Failed /\ ~mail[l].notice => told[l] \in Failed

(* cancel_work_item: "no Outbox screen can cancel a letter and leave its
   sender's Sent folder saying it is still pending", whatever the sync loop
   writes to the row between the SysOp's check and write. *)
CancelledIsNotPending ==
    \A l \in Letters :
        items[l].status = "cancelled" => mail[l].status # "pending"

(* A letter expires as unanswered only when a relay has had it, and it has been
   pending, for the whole RELAY_NO_ANSWER_TIMEOUT: a replay restarts the wait,
   and no handoff of an earlier round is held against the new one. *)
NoAnswerOnlyAfterTimeout ==
    \A l \in Letters :
        mail[l].status = "expired" /\ mail[l].reason = "no_answer" =>
            relayAge[l] = NoAnswerTimeout /\ pendingAge[l] = NoAnswerTimeout

(* "A work item resolving successfully means its payload was handed to the
   recipient's transport (or deposited at a relay) at least once", or its
   push was answered with a policy refusal. *)
PushedMeansHanded ==
    \A l \in Letters :
        items[l].status = "pushed" =>
            l \in handed \/ mail[l].status = "bounced"

(* Every letter that has left this node is one whose answer it can recognise:
   it is in node.events, and is there again after a restart. *)
HandedIsRegistered == handed \subseteq known

(* The loop is between dead-lettering the item and expiring its letter. *)
BeingExpired(l) == cur.letter = l /\ pc \in {"reread", "expire"}

(* A pending letter that never left this node is still going to be tried:
   its work item is unresolved, or the loop is about to expire the letter. *)
PendingIsTracked ==
    \A l \in Letters :
        mail[l].status = "pending" /\ l \notin handed =>
            \/ items[l].status \in Unresolved
            \/ BeingExpired(l)

(* A letter this node has composed does not stay pending without ever leaving
   the node: it is handed over, refused or expired. *)
EveryLetterSettles ==
    \A l \in Letters :
        mail[l].status = "pending" ~>
            (mail[l].status # "pending" \/ l \in handed)

(* A letter recorded as left at a relay does not stay pending for ever, even
   if no answer ever comes back. *)
RelayedLetterSettles ==
    \A l \in Letters :
        (mail[l].status = "pending" /\ mail[l].handoff # Never) ~>
            mail[l].status # "pending"

=============================================================================

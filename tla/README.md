# A verification project for NetBBS

NetBBS is a bulletin board system in Python: callers use boards, chat, mail,
files and doors over Telnet and SSH; nodes exchange boards, channels and mail
with each other over *NetBBS Link*, a signed peer-to-peer protocol, and mail
with other systems over FidoNet.  This directory models the parts of it where
several actors, several database connections and an unreliable network meet:
**mail**, over Link and over FidoNet, from the moment a user composes it to the
moment its sender learns what became of it, and the two pieces of local
machinery that mail goes through, the **database lanes** and the **mailbox**.

Paths below are relative to `src/src/netbbs/`.

## 1. The system

### Components, their state and their operations

| Component | State | Operations | Hard because |
|---|---|---|---|
| Work items, `link/work_items.py` | rows of `link_work_items`: status, attempts, next attempt, age, last error | enqueue, load due, record success / failure, wake, cancel, replay, delete | written by the sync loop and by a SysOp's screen on two connections; the loop writes by id from a stale copy |
| Outbound Link mail, `link/mail.py`, `link/sync.py` | `mail_messages` rows: delivery status, reason, notice flag, relay handoff time; own letters in `link_events` and in `node.events` | compose, push directly or by relay, record refusal, expire, un-expire, apply answers, time out | an await between any two statements; answers, refusals, expiries and replays reach the same row in any order |
| Inbound Link mail, `link/transport.py`, `link/protocol.py`, `link/mail.py` | received letters in `link_events`, `node.known_event_ids`, the mailbox, `link_mail_acknowledgements`, `link_mail_refusals` | push handler, relay pickup, accept, decide, save, deliver or bounce, queue and push the answer | the same letter arrives several times at once; acceptance, saving, delivery and answer are four separate steps |
| Relay mailbox, `link/relay_mailbox.py` | envelopes held per recipient | deposit, pick up (read and delete), prune | capacity 50, retention 30 days against a 14-day time-out, loss window at pickup |
| Mailbox, `mail.py` | letters with read, kept and both sides' deleted marks; the eviction notice | deliver with `make_room`, read, mark unread, keep, delete singly and in bulk, tell | deliveries, deletes and keeps read before their transactions begin; screens act on stale lists |
| `DatabaseLane`, `storage/execution.py` | one thread and one SQLite connection per lane, a semaphore and a queue | run a job, refuse when busy, cancel, roll back, close | a job may commit more than once; a cancelled waiter does not stop its job |
| BinkP, `ftn/binkp.py` | two coroutines per side over one connection: what to send, what awaits its M_GOT, batch numbers | handshake, announce, send, confirm, end a batch, finish | each side has its own idea of the batch; the connection may break between receipt and confirmation |
| FidoNet queue and mailer, `ftn/queue.py`, `outbound.py`, `mailer.py`, `listener.py`, `exchange.py`, `tosser.py` | `ftn_outbound` rows, failed calls, `ftn_seen_msgids`, held packets | compose, poll, call directly, answer, settle, count, re-route, drop, report, toss, hold, release | mailer and listener hold prepared rows by id at the same time; broken calls are repeated |
| Trust policy, `link/enforcement.py`, `link/trust*.py` | trust states of nodes and users | decide node action, author, mail sender | decided several times for one letter, with awaits between |
| Link protocol for boards, channels, files, communities, attestations, realtime | signed event sets, chains | gossip, materialise, transfer origin | ordering and partial acceptance of batches |
| QWK, MRC, doors, files, boards, chat, bots, web, accounts, console, backup | each its own tables or files | — | mostly one transaction per operation |

`PROJECT.json` lists every component with its status; the last two rows of the
table are not modelled (section 8), and of the trust policy only its decisions
are.

### How they interact

A process runs one asyncio event loop and two database lanes.  The **background
lane** serves the Link server and `run_link_sync`; the **foreground lane**
serves callers and the SysOp.  Each lane is one thread with its own SQLite
connection, so two jobs of one lane never overlap, but a background job can
interleave with a foreground job between any two of its transactions, and with
its reads before a transaction begins (sqlite3's deferred `BEGIN`).  Between
two `await lane.run(...)` of one coroutine, any other coroutine may run.

Sending over Link: `compose_link_message` writes the letter and its work item in
one transaction.  Each pass of `run_link_sync` calls `_push_pending_link_mail`,
which expires unanswered relay mail, wakes items held by policy, loads the due
items, and for each one registers the letter, asks the trust policy, pushes it
to the peer's addresses, else to a relay, and records what happened.

Receiving: a push request, or the sync loop after a pickup, calls
`LinkNode.handle_events` (in memory, no await) and then
`persist_accepted_events` (one lane job per step).  The answer is itself queued
as a work item and pushed by the same pass.  Back at the sender the answer is
accepted only about a letter in `node.events`.

FidoNet: a netmail is a row of `ftn_outbound`.  The mailer polls the hub and
calls nodes directly, one call at a time; the listener answers the hub beside
it.  A session (BinkP) takes prepared rows as packets, reports which the remote
confirmed, and `SessionOutbound.settle` marks their rows sent by id.  The hub
tosses what it received, or holds it.

### What makes each component correct

* Work items: bounded attempts and back-off; every item ends; a resolved item
  stays resolved; what an item says agrees with its letter.
* Outbound: an answer is never overwritten; notices are right and a failure is
  never silent; a letter that left can always be recognised in its answer;
  nothing pending is forgotten; the time-out is never cut short.
* Inbound: at most one copy; an accepted answer is true and final; a letter
  kept is answered exactly once.
* Relay: what it drops nobody waits for; a refused deposit is no handoff.
* Sender, relay and recipient together: the promise of `MailService`.
* Mailbox: within its bounds; only read, unkept letters are evicted, and every
  eviction is told; a row goes exactly when both sides have deleted it.  Each
  of these has its exceptions, which the properties name (section 3).
* Lane: a job's writes are its own; a slot is never lost; close drains.
* BinkP: confirmed means received, once; a clean end moved everything; both
  sides agree on whether the session is secure; every session ends.
* FidoNet queue: sent means received; nothing is stored twice or dropped
  without a word; mail for a direct call settles.

## 2. Modules

| Module | What it is |
|---|---|
| `WorkItems` | the rows of `link_work_items` as pure operators: what each statement leaves behind |
| `LinkOutbox` | the sending side, every await a step (EXTENDS `WorkItems`) |
| `LinkInbox` | the receiving side, every await a step (EXTENDS `WorkItems`) |
| `MailService` | abstract specification: what Link mail promises its users |
| `LinkMail` | sender, relay and recipient composed (EXTENDS `WorkItems`); implements `MailService` |
| `DatabaseLane` | the lanes: event loop, semaphore, worker threads, connections |
| `Mailbox` | one account's mailbox on two connections |
| `Binkp` | one BinkP session |
| `FtnMail` | the FidoNet queue, its three lines, the hub's tosser |
| `MCLinkInbox`, `MCDatabaseLane`, `MCMailbox`, `MCBinkp` | the same with symmetry sets and function-valued constants for TLC; the other modules need nothing more than their configurations |
| `WorkItems_proofs`, `LinkOutbox_proofs`, `LinkInbox_proofs`, `LinkMail_proofs`, `DatabaseLane_proofs`, `Mailbox_proofs`, `Binkp_proofs`, `FtnMail_proofs` | theorems and proofs |

`LinkMail` relies on `LinkOutbox` and `LinkInbox` for what happens inside a
node, and `FtnMail` on `Binkp` for what a session guarantees (what is confirmed
was received); they are compositions by assumption, stated in each module's
header, not by INSTANCE.

### WorkItems

A row is a record.  `next_attempt_at` becomes the time still to wait, `created_at`
the row's age; both saturate where the code can no longer tell the difference,
so time needs no bound.  `GivesUp` and `FailedRow` take the *snapshot* the loop
loaded, as `record_failure` does, and the current row.

### LinkOutbox

| State | Code |
|---|---|
| `mail`, `items` | the sender's `mail_messages` row, its `link_work_items` row |
| `stored`, `ackStored` | `link_events`: own letters, received answers |
| `known`, `ackKnown` | `node.known_event_ids` / `node.events` |
| `pc`, `todo`, `cur`, `refused`, `error` | the coroutine `_push_pending_link_mail`: where it stands, the rest of the batch, the loaded item, `refusals`, the error to record |
| `ackJobs` | `persist_accepted_events` of an answer, between its awaits |
| `sysop` | `cancel_work_item`, `replay_work_item` or `delete_work_item` between its `get_work_item` and its write |
| `menu` | the main menu between `pending_delivery_notices` and `acknowledge_delivery_notices` |
| `handed`, `relayAge`, `pendingAge`, `told` | history: what really left, since when, what the sender saw |

One action is one lane job or one network exchange.  `record_success` and
`record_failure` are two steps, because they commit and then re-read the row by
id, and a row deleted in between raises and ends the pass.  A push has three
independent outcomes: whether the loop heard a success, whether it heard a
refusal, and whether the letter arrived; a lost response is *arrived and not
delivered*.  Row ids are given as SQLite gives them (`IsNextRowId`).

### LinkInbox

A handler is a push request or the sync loop while it processes a pickup; `job`
says which letter it works on and how far it is.  `deliver_link_message` is one
lane job of three visible steps (`open`, `insert`, `answer`): while a handler
is inside it no other handler's job runs (`LaneFree`), but the recipient, on
the other lane, may act.  `OpenLetter` performs the checks and `make_room`'s
reads, `InsertLetter` the INSERT and the DELETE by id, `QueueAccepted` the
second transaction.  `copies` is history.

The sender's standing is one of *established*, *probationary*, *user blocked*
(the node is fine) and *node blocked* (quarantined is treated alike by the
code), and changes at any moment.

Faults of these two modules: with `LaneErrors` any lane job may raise instead
of running; the pass or the request ends there and the job is rolled back.
With `Crashes` the process stops at any step and `load_link_node` rebuilds
memory from the database.  Both are counted against `MaxFaults`.

### MailService and LinkMail

`MailService` has three variables a user could observe: what the sender's Sent
folder says (`report`), how often the letter was put into the recipient's
mailbox (`copies`) and whether the recipient's side refused it.  *Delivered* is
reported only of a letter that is there, *bounced* only after a refusal, and
nothing is delivered twice.

| State of `LinkMail` | Code |
|---|---|
| `report`, `handoff`, `items` | the sender's `mail_messages` row and work item |
| `applied`, `spulled` | answers applied; answers picked up and not processed |
| `push` | the letter `_push_pending_link_mail` is working on and the reply under way |
| `held` | `link_relay_mailbox`: every envelope with its age since `received_at` |
| `saved`, `known`, `work` | the recipient's `link_events`, `known_event_ids`, and jobs between acceptance and answer |
| `ackItems`, `rpulled` | its answers' work items; letters picked up and not processed |
| `copies`, `turned`, `gone`, `awaited`, `replayed` | history |

`PushDirect`, `PushRelay` and `TryAnswer` have their effect at the other end or
the relay and lose or return the reply; `PickUpLetters` and `PickUpAnswers` empty
the relay and lose or hand over what was in it; `Prune` is the relay's sweep;
either end may crash and the SysOp may replay a given-up letter (`Replay`).
The refinement is `INSTANCE MailService WITH refused <- turned`.

### DatabaseLane

`call[j]` follows the coroutine of one `DatabaseLane.run` through refusal when
busy, the wait for a slot, submission and the result; `slots` and `waiters` are
the semaphore (external: asyncio), `queue`, `fut` and `running` the executor
(external: `concurrent.futures`), `db`, `tx` and `dirty` the connection, its
transaction and whose writes are in it.  A job opens the connection if it is
the first, may begin, write, commit, return inside a transaction or raise;
`_run_job` then settles the transaction.  `CancelWaiting` and `CancelHolding`
cancel the caller at either await.  `CloseBegin` blocks the event loop until
`CloseEnd`.  All lanes share one write lock.

### Mailbox

A delivery is `FindRoom` (the checks, `make_room`'s reads) and `WriteLetter`
(INSERT, eviction by id, notice) on its connection: `fg` for local letters and
notices, `bg` for Link mail.  The owner's screens and the senders' run on `fg`,
the owner's on the entries of the list last loaded (`view`): read with or
without a receipt, mark unread, keep, unkeep, delete one or several.

sqlite3 begins a transaction with the first write, so what a job reads before
it may be out of date when it writes.  `task` is the job that is between the
two: `delete_for_recipient` and `delete_for_sender` read the row, other side's
mark included (`DeleteOne`), and write the mark back as they read it
(`WriteDelete`); `delete_letters` selects the letters still undeleted
(`DeleteSome`), then those of them to remove (`SelectGone`), and then writes;
`set_kept` counts the letters (`Keep`), then the room (`FindKeptRoom`), and then
moves them (`WriteKept`).  The other connection's delivery may write in between
any two.  The deletion of a sender's account is one step (`SenderLeaves`), since
`delete_user` has begun its transaction with BEGIN IMMEDIATE
(`auth/users.py:1930`).  `ReadNotice` and `AckNotice` are the two halves of the
main menu in each session of the account.  `stale`, `overlaps`, `crossed`,
`untold` and `together` are history: whose reads are out of date, and which
deliveries crossed which other job.

### Binkp

`st[s]` is one side: the place of its sending coroutine (`phase`) and the fields
of `_Transfer`; `chan[s]` the frames on their way to it.  Actions are the
handshake's steps, those of `_send_files` (`AnnounceFile` … `AskNextBatch`) and
one per kind of frame for the receiving coroutine.  `SendGot` is separate from
`ReceiveData`, because the confirmation is an await of its own.  The receiving
coroutine waits for a frame and for `done` together, and a frame or an end of the
connection that is there when it wakes is still handled: `late` are the sides
whose receiver has not noticed `done` yet.  A side in `Foreign` may refuse a
file, cut one short or hang up; `Break` loses the connection with what is in it.
`skipped`, `faulty` and `outrun` (an end of the connection handled after `done`)
are history.

### FtnMail

`rows` is `ftn_outbound`; `ses[l]` the session on line `l` with the row ids it
prepared, then the work after it (`settle`, `note_failed_crash`, `_to_uplink`);
`failures` is `direct_status`; `telling` are dropped messages whose senders are
not told yet (`Report`).  At the hub, `got` is what came and is not tossed,
`seen` the dupe check, `stored` what was made of it, `held` the held store.
`CallEnds` lets a call succeed, fail before or after the packet came whole,
break before its confirmation is heard, or end well with the packet skipped by
the node (`Refuses`; this program itself skips no file).  `PruneSeen` is the
daily pruning of remembered MSGIDs, with `forgets` counting it; `CrashHere` and
`CrashHub` are crashes.

## 3. Runs

Passing:

| Run | Instance | Properties | Shows |
|---|---|---|---|
| `OutboxFaults` | 1 letter, 1 fault, both answers, menu | `NoFalseAlarm`, `NeverSilentFailure`, `PushedMeansHanded`, `AnswersAreFinal` | outcomes and notices through every fault |
| `OutboxSysOp` | 1 letter, both answers, SysOp, 1 crash | `CancelledIsNotPending`, `NoAnswerOnlyAfterTimeout`, `HandedIsRegistered` | cancel and expiry stay together; replays restart the clock; a letter that left is recognised |
| `OutboxSettles` | 2 letters, no faults, no answers | `PendingIsTracked`, `EveryLetterSettles`, `RelayedLetterSettles` | nothing is forgotten, and the no-answer sweep settles what a relay has |
| `InboxFaults` | 1 letter, 2 requests + relay, 2 faults | `AtMostOneCopy`, `AcceptedIsLastWord` | de-duplication |
| `InboxAnswers` | 1 letter, every standing, no faults | `NeverSilent`, `EveryLetterAnswered`, `EveryAnswerSettles` | answers |
| `LinkMail` | 1 letter, both ends and the relay, lost replies, 1 crash or replay | `KeepsPromise` (refinement), `InGoodHands`, `DroppedOnlyIfReplayed`, `EveryLetterSettles` | the promise is kept end to end; whoever has the letter; what a relay drops; what may stay pending for ever |
| `LaneJobs` | 3 calls, 2 lanes of 1 slot, every placement | `OwnWritesOnly`, `NoIdleSlot`, `LoadBounded`, `ShutIsQuiet`, `CancelledNeverStarts`, `EveryCallEnds` | cancellation, leaking and failing jobs, close |
| `MailboxUse` | a letter of each kind, room for 1 and 1 kept, 1 menu | `BoundsNeedOverlap`, `NoOrphanRow`, `EvictionsTold`, `CleanDelivery`, `ReceiptStays` | eviction, deletes, keeps, notices and receipts under overlap |
| `BinkpSession` | 2 files one way, 1 the other, up to 3 batches, a foreign answerer | `ConfirmedIsReceived`, `CleanEnd`, `SecureAgrees`, `OnlyFaultsFail`, `SessionEnds` | sessions |
| `FtnMail` | 1 message of any flavour, 3 lines, 1 crash | `SentMeansReceived`, `KeptOrCounted`, `StoredOnce`, `NeverSilent`, `DirectMailSettles` | the queue |

Violations, each a disagreement between the code and what its own documentation
says (quoted in `PROJECT.json`, `findings`):

| Run | Property | What happens |
|---|---|---|
| `InboxCrashGap` | `NeverSilent` | crash between saving and delivering a letter: neither delivered nor bounced, ever |
| `FtnIdReuse` | `SentMeansReceived` | a dropped row's id is given to the next netmail, which the old session's confirmation then marks sent and erases |

### Windows the models show, stated by the properties' conditions

These have no run of their own; a property says what does hold, and its
condition, or the run's bounds, leaves them out.

* A crash between dead-lettering an item and expiring its letter leaves it
  pending for ever: `PendingIsTracked` is checked without crashes.
* An item the SysOp cancels in mid-batch can still end as *pushed*:
  `PushedMeansHanded` is checked without a SysOp.  `delete_work_item` can delete
  a row the loop has just resolved.
* A failed `save_event` is not repeated while the process lives, and after a
  restart the answer is rejected: `HandedIsRegistered` without lane errors.
* A bounce that arrives while the menu is drawn is cleared by the menu's
  acknowledgement: `NeverSilentFailure` says a failure is shown *as some
  failure*.
* A work item's row id may be given again after a delete while the loop holds
  the old id (one letter in `OutboxSysOp`; the theorem on cancelled items
  covers any number).
* A letter marked unread or kept, or deleted by its sender, between
  `make_room`'s reads and its write is evicted, or its delete undone, all the
  same, although `mail.py:768` says "Unread mail is never removed."
  `CleanDelivery` states it of undisturbed deliveries.
* The other way round, a Link delivery may evict a letter between the reads and
  the write of a delete.  `delete_for_sender` then writes the recipient's mark
  back as it read it, NULL: the eviction is undone and the mailbox is one letter
  past its cap.  `delete_letters` then marks the second side of a letter it
  should have removed, and the row stays for good.  The doc of
  `delete_for_recipient` (`mail.py:1471-1476`) calls both of these outcomes fixed
  by reading the row afresh; that closes the gap between two jobs, and leaves
  the one between a job's read and its write.  `BoundsNeedOverlap` allows one
  letter for each such delivery (`overlaps`), `NoOrphanRow` excepts the letters
  that were added or evicted while a bulk delete was under way (`crossed`).
* Keep may move a letter that was delivered, under an id given again, after it
  counted: counted in `overlaps` too.
* Two sessions of one account that show the same count of evictions each
  subtract it, and an eviction made since is not told: `EvictionsTold` excepts
  it (`together`).
* A BinkP side that has ended well closes at once.  If that end reaches the other
  side's receiver together with its own `done`, the session there is reported as
  hung up, or in its first batch as failed, though everything was moved and
  confirmed.  `OnlyFaultsFail` names the case (`outrun`) and says that then
  nothing is missing; the mailer counts a poll that ended so as failed.
* Mail for a node whose mailer skips the packet (M_SKIP) in a session that ends
  well is neither marked nor counted, and the node's failures are reset: it is
  offered again in every pass, for ever, and neither dropped nor re-routed
  while the nodelist has the node.  `DirectMailSettles` says that mail settles or is skipped.
* A copy of a message held for longer than remembered MSGIDs are kept is stored
  again when it is released: `StoredOnce` counts one more for each pruning.
* A redeposit at the relay keeps the old `received_at`.  After a SysOp's replay
  the relay may therefore drop a letter that is awaited again:
  `DroppedOnlyIfReplayed`.
* A letter handed over directly has no no-answer time-out; if its answer is
  lost it stays pending (`EveryLetterSettles` of `LinkMail` names that case).
  After a recipient's restart and a change of standing a refusal may reach the
  sender after, or instead of, the acceptance; `MailService` allows it.  The
  text at `sync.py:152` ("never an acknowledgement") predates the answers that
  `sync.py:2940` pushes.
* `DatabaseLane.close()` before the first queued job has opened the connection
  leaves that connection open; `ShutIsQuiet` is about threads and jobs only.
* A crash of the hub between M_GOT and the toss, and one here between dropping
  rows and telling their senders, cost the message or the report: `cut` in
  `KeptOrCounted` and `NeverSilent`.

### Bounds, and why they are enough

* `MaxAttempts` 1 or 2, `MaxAge`, `MaxBackoff`, `NoAnswerTimeout` 0 or 1: the
  code compares each with a limit once; 2 attempts show a retry and a last try,
  and one unit of time separates before from after.  In `OutboxFaults` the
  attempts run out first, in `OutboxSettles` the age.
* `Letters` 1 or 2 in the Link modules: letters interact only through row ids,
  the batch of a pass and the caps.  `LinkMail` has one letter and up to two
  answers to it, and `RelayCap` 1, so the second answer finds the relay full;
  `Retention` 2 is the least its assumption allows with a time-out of 1.
* `Requests` 2: two concurrent pushes and the loop; declared symmetric.
* `MailboxUse`: one letter of each kind (`KindsOf`), so that the two lanes
  overlap and the order of eviction matters; with `Cap` 1 and `KeptCap` 1 two
  letters fill both folders and a third one passes the bounds, and three ids let
  an id be given again.  One session shows a main menu (`Menus`): two make the
  instance too large to check in minutes, and the theorems cover any number.
* `LaneJobs`: one slot, so three calls on one lane are one running or queued,
  one waiting and one refused; placements with two lanes share the write lock.
* `BinkpSession`: an empty file (no data frame) and a full one, mail added for a
  second batch, and `MaxBatches` 3 so that the limit is met.
* `FtnMail`: one message, forgotten by the hub once (`MaxForgets`); two attempts
  for each kind of call; `FtnIdReuse` needs two messages and two ids.  Two messages with crashes are out of TLC's reach
  in minutes; the theorems cover any number.
* `MaxFaults`, `MaxIncidents`, `MaxCrashes` 1 or 2: a crash, and in
  `InboxFaults` a crash after an error.

Deadlock is checked in the runs of `LinkOutbox` and `LinkInbox`, whose sync loop
never stops.  It is not in the others, where everything may be done: a session
or a lane ends, and in `LinkMail` an idle pass is no step.

### Fairness

Weak fairness, unless said otherwise; nothing is assumed of the peer, the
network, users, the SysOp or the trust standing.

* `LinkOutbox`, `LinkInbox`: the start of a pass, every step of a pass and of a
  handler, and the clock.  `run_link_sync` loops for ever and catches what a
  pass raises, each exchange has a time-out, a lane runs its jobs.
* `LinkMail`: the sender's pass, the pushing of answers, a letter's job at the
  recipient, the relay's sweep and the clock; none of the pickups, and no
  exchange has to succeed.
* `DatabaseLane`: the event loop resumes what is ready, and a worker thread
  takes its items and ends them; nobody has to call, cancel or close.  A job is
  assumed to end.
* `Binkp`: each coroutine of each side; the connection may break (`Break`, a
  time-out included) but does not have to.
* `FtnMail`: sessions end and the steps after them are taken; strong fairness of
  the start of the mailer's calls and of its sweeps, which its loop makes in
  every pass in which there is something for them, while the other line's
  sessions may disable them in between.

## 4. Proofs

All theorems hold for every value of the constants allowed by the named
assumptions beside each module's CONSTANTS.

* `WorkItems_proofs`: the back-off is within its cap, and every row operator
  returns a row; in particular `FailedRow` of a snapshot with fewer than
  `MaxAttempts` attempts.
* `LinkOutbox_proofs`:
  * `TypeCorrect` (`TypeOK`).  The type invariant is inductive because a
    snapshot's type bounds its attempts by `MaxAttempts - 1`: an item that is
    due was not given up.  That needs the strengthening `TriesLeft`, an
    unresolved item has attempts left, kept through replays and reused ids.
  * `AnswersStayFinal` (`AnswersAreFinal`), from the guards of each UPDATE.
  * `NoticesAreRight` (`NoFalseAlarm`) and `FailuresAreTold`
    (`NeverSilentFailure`).  The two together are inductive with the fact that
    what a menu has read is a failure.
  * `GivenUpOnlyInTime` (`NoAnswerOnlyAfterTimeout`), from `ClockInv`: the time
    since the handoff that the row carries is never more than the time since a
    relay took the letter or since it last became pending.
  * `PushedWasHanded` (`PushedMeansHanded`), when there are no SysOp operations
    (`~SysOpActs`), from `BatchInv` and `OutcomeInv`: what the loop has loaded
    is unresolved and its own until it writes the outcome, and at the step
    before `record_success` the letter has left or was refused.  Alone the
    property says nothing of the loop in the middle of a letter.
  * `PendingStaysTracked` (`PendingIsTracked`), with `~SysOpActs`,
    `~LaneErrors` and `~Crashes`, from these two and `TrackInv`: a
    dead-lettered item beside a pending letter is the one the loop is about to
    expire.
  * `HandedStaysRegistered` (`HandedIsRegistered`), when lane jobs do not
    raise (`~LaneErrors`).  `RegistrationInv`: what is known is stored, except
    the letter whose save is being awaited, and a letter being pushed is
    stored.
  * `CancelledNeverPending` (`CancelledIsNotPending`).  `CancelInv`: row ids
    are unique among present rows (`UniqueIds`), the row a SysOp operation has
    checked is still its letter's when it writes (`CheckedRowStays`), and a
    letter not yet composed has no row (`UnsentHasNoRow`).  TLC checks it on
    one letter; the theorem covers any number and the reuse of ids.
* `LinkInbox_proofs`:
  * `DeliveredAtMostOnce` (`AtMostOneCopy`) and `AcceptedStaysLastWord`
    (`AcceptedIsLastWord`), from `DeliveryInv`: past acceptance a letter is in
    the hands of one handler only (`OneHandler`); its copies follow from how
    far that handler is (`CopiesFollow`); and so do its answers
    (`AnswersFollow`).  Neither property is inductive alone: at the step
    before the INSERT one must know that no other handler is past acceptance
    with the same letter and that it was saved only once.
  * `AnsweredExactlyOnce` (`NeverSilent`), when no lane job raises and nothing
    crashes (`InboxCrashGap` shows that the condition is needed).
    `AnswersOnce`: no letter has two answers, one that is unknown or that a
    handler still owes an answer has none, and a letter saved either is owed
    its answer or has it.
  * `MailboxKeepsItsBound`: the mailbox holds at most `MailboxCap` rows though
    `make_room` reads before it deletes, and the recipient deletes and marks
    letters in between on a connection of their own.  `RoomInv`: one handler at
    a time is inside `deliver_link_message`, and at its INSERT there is room or
    the row it chose to evict is still there; whatever the recipient deletes
    only makes more room.  (Local deliveries on a second connection are
    `Mailbox`'s, where the bound needs `BoundsNeedOverlap`'s condition.)
  * `OneRowEach`: no letter has two rows (`RowsInv`: each row is of the one
    copy the letter was given), so a deletion by id takes that letter.
  * `TypeCorrect` (`TypeOK`).
* `LinkMail_proofs`:
  * `TypeCorrect` (`TypeOK`).
  * `Implements` (`KeepsPromise`): the refinement of `MailService`, with no
    bound on letters, answers, crashes, replays or the relay.  Its invariant
    says what the record at each end implies about the other: a letter in work
    is saved or known and has the copies its step says, an *accepted* answer
    anywhere (queued, held, picked up, applied) is about a letter with a copy,
    a *bounced* one about a letter refused.
  * `LettersInGoodHands` (`InGoodHands`): at each step of the push, what the
    sending node believes has happened to the letter (`Believes`) was true when
    it heard it, and the letter has been taken by somebody since.
  * `RelayKeepsAwaited` (`DroppedOnlyIfReplayed`), when the retention is no
    less than the time-out, the retries and one back-off together (30 days
    against 14, 5 and a quarter).  `TimelyInv` adds up where the time goes: an
    envelope is never older than its item while the item is retried within
    `MaxAge`, what it has lain there and the wait left stay within `Longest`,
    and from the handoff on it grows only with the time-out.
* `DatabaseLane_proofs`:
  * `LaneTypes` (`TypeOK`).
  * `TransactionsSettled` (`OwnWritesOnly`), from `TxInv`: a connection without
    a running job has no transaction and no writes, and the writes in one with
    a job are that job's.
  * `SlotsHandedOn` (`NoIdleSlot`), from `SlotInv`: whenever a slot is free and
    somebody waits, somebody who was given a slot is about to resume and will
    hand on what is left.
  * `LoadStaysBounded` (`LoadBounded`), from `SlotsKept` (free slots and the
    callers who hold one never exceed `max_queued`) and `WorkInv` (a pending
    job's caller still holds its slot, and what runs is the worker's one job).
  * `ShutStaysQuiet` (`ShutIsQuiet`) and `CancelledStaysOut`
    (`CancelledNeverStarts`), from `WorkInv` too: a shut lane has nothing
    queued or running, and a cancelled caller's future is not pending.
* `Mailbox_proofs`, from one invariant, `MailInv`:
  * `BoundsHold` (`BoundsNeedOverlap`).  It needs `ReadsHold`: as long as
    nothing has marked a delivery stale, what `make_room` read is still true,
    so its write makes room for itself; and `RoomHolds` and `KeepHolds`, which
    say the same of what a delete or a keep has read, with `overlaps` in the
    place of `stale`.
  * `NothingOrphaned` (`NoOrphanRow`), from `OrphansCross`: a row a bulk delete
    is about to mark is undeleted on the other side, or its letter crossed the
    delete.
  * `EvictionsAreTold` (`EvictionsTold`), from `NoticesHold`: as long as one
    session at a time shows a notice, what it shows is part of the count.
  * `ReceiptsStay` (`ReceiptStays`) and `DeliveriesAreClean` (`CleanDelivery`),
    action properties, from `LettersOnce`: a letter is in one row at most, so
    an id given again is told from the row that had it.
  * `MailTypes` (`TypeOK`).
* `Binkp_proofs`.  From `SessionInv`, over the sets of frames on their way:
  * `ConfirmedFilesArrived` (`ConfirmedIsReceived`).  `FileInv`: a file is to
    be sent, or its M_FILE is on the way (once), or it is being received, or it
    was received once; an M_GOT owed or on the way is about a file received.
  * `BothKnowIfSecure` (`SecureAgrees`).  `SecureInv`: what M_PWD and M_OK say
    while they are on their way.
  * `GoodEndSettlesFiles`: a side that ends well has every file confirmed or
    refused, whatever became of the other; it is the first half of `CleanEnd`,
    for each side alone.

  From `StepInv`, over their order, as long as neither the line nor a mailer was
  at fault and no side reached `MAX_BATCHES` (`Smooth`):
  * `OnlyFaultsEndSessions` (`OnlyFaultsFail`) and `GoodEndsAgree` (`CleanEnd`).
    The sets of frames do not say how far one side's batch runs ahead of the
    other's; `Heard` does: reading the frames on their way one after the other
    (`Reading`) leads a side from the file it receives and the M_EOBs it has
    read to the file the other announces and the M_EOBs it has written, and
    each batch in which the other sent or got a file will count as such on this
    side too.  So both sides decide alike whether another batch follows.
    `BatchInv` says where a side is in its batches and that `check_done` has
    followed whatever could end one, `HelloInv` which frames of the handshake
    may still be on their way, and `AnswerInv` that a file waiting for its
    answer is in exactly one of three places: going there, there, or its answer
    coming back.  `EarlyInv` is for an end of the connection that is
    handled after `done`: without a fault both sides are then done, in the same
    batch (`Level`), and stay so; that everything was moved (`Complete`) follows
    as it does for `CleanEnd`.
  * `NeverBothWait`: the two sides never both wait with nothing on its way to
    either, from the first line of the handshake on.  It needs two facts more
    (`WaitInv`): what the handshake waits for is on its way, and a sender waits
    only for the end of a batch whose M_EOB it has written.

  From `LimitInv`, whatever goes wrong:
  * `TypeCorrect` (`TypeOK`): a session has at most `MAX_BATCHES` batches and no
    side takes the other to be more than one batch beyond that, because the
    M_EOBs on their way (`Apart`) are no more than the other has written and
    this side has not read.
* `FtnMail_proofs`:
  * `TypeCorrect` (`TypeOK`).
  * `HubStoresOnce` (`StoredOnce`) and `HubKeepsAll` (`KeptOrCounted`), from
    `HubInv`, which adds that what is stored has been seen by the dupe check,
    or was forgotten once for each time it was stored.
  * `MarkedMailArrived` (`SentMeansReceived`) and `NoMailForgotten`
    (`NeverSilent`), when no mail is queued after some was dropped
    (`~QueueAfterDrop`), the case in which no id is given twice; `FtnIdReuse`
    shows that the condition is needed.  `LineInv`: one row per message, every
    id a session holds is in use and its message is in the packet, and a packet
    that was confirmed has come.

TLC checked the inductive invariants on the instances of the runs before they
were proved (`TimelyInv` also with a back-off of 1 and three attempts; the
mailbox's on two letters and two sessions, the batches' bound on the instance of `BinkpSession`).

So every invariant and action property the runs check, the refinement of
`MailService` and every `TypeOK` are theorems, some under the
conditions named above.  Only model-checked are the liveness properties, because
the prover has neither fairness nor ENABLED: `EveryLetterSettles` (of
`LinkOutbox` and of `LinkMail`), `RelayedLetterSettles`, `EveryLetterAnswered`,
`EveryAnswerSettles`, `EveryCallEnds`, `SessionEnds` and `DirectMailSettles`.

## 5. Mutants

Each property of a passing run has a mutant: an operator beside the one it
replaces, marked `Mutant:` and used by no action, that changes the code the way
a plausible slip would.  They document what the property protects against.

## 6. Plan

1. (done) `WorkItems`, `LinkOutbox`, `LinkInbox`.
2. (done) the relay, and `LinkMail` implementing `MailService`.
3. (done) `Mailbox`, `DatabaseLane`, `Binkp`, `FtnMail`.
4. (done) the invariants and action properties the runs check, as theorems.
5. (done) `CleanEnd` and `OnlyFaultsFail` of BinkP, from the order of frames and
   the distance between the two sides' batches; the remaining types.
6. Link board events: batches, `known_event_ids` and persistence, where
   `handle_events` raises in the middle of a batch (`protocol.py:5214`, the one
   hazard no property covers).

## 7. Abstractions

* Link: one peer, one sender and one recipient; letters are content ids;
  encryption, signatures, addresses and wording are left out, a letter that
  fails a check is one nondeterministic `unfit`.  `load_due_work_items` has no
  order and no LIMIT here; both halves of a pass are modelled, each in its own
  module.  One SysOp operation at a time, on letters only.  A sender who
  deletes a letter from Sent only hides its notice and is left out, as are
  `record_resend`'s mark, the re-signing of stored letters after a key
  compromise and the pruning of `link_mail_refusals`.
  `record_author_activity`, `save_peer` and the log are lane jobs that change
  nothing modelled.
* `LinkMail`: one relay for both directions, without its slots for attestation
  bundles; a unit of time is days, so a pass finishes what is due before time
  advances.
* `Mailbox`: one owner; letters to several people, search and drafts are left
  out, and so is what the owner's own account deletion does.  Of a read letter
  the list's flag is left open, since several sessions have lists of any age:
  `MarkRead` and `MarkUnread` are enabled whenever the row is in that state.  A
  bulk delete or keep of more than 400 letters is several statements per
  chunk; here it is one chunk.
* `DatabaseLane`: the rollback itself does not fail, and a job does not close
  its own connection.
* `Binkp`: M_GET and resuming, size limits, M_NUL lines and the contents of
  files are left out; a file's data is one frame, or none if it is empty.
* `FtnMail`: netmail without attached files; one hub, which expects a password,
  and one node; bundles, points, echoes, file echoes and the pruning of sent
  rows are left out.

## 8. Not modelled

The repository is large (268 000 lines), and most of it is not protocol: bundled
door games, screens, file formats and their conversions, migrations.  The
modules here follow mail, and so cover a small share of the lines.

* Operations of modelled parts: FidoNet's attached files, points and downlinks,
  file echoes and TIC files, bad echoes, robots; the trust policy's evidence.
* Link's other objects (boards, channels, files, communities, attestations,
  realtime): event sets and protocols of their own; the board events are next
  in the plan, the realtime channels would be a project of this size.
* Boards, chat, files, QWK, MRC, bots, web, accounts, moderation, backup: single
  transactions over local data or clients of outside services; see
  `components` in `PROJECT.json` for the reason of each.
* Doors and the bundled games: external processes and single-player state.
* Terminal sessions, screens and rendering: input and layout; the two screens
  that change Link mail, and the mailbox screens, are modelled as the actions
  they call.

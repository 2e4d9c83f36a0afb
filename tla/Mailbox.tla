------------------------------- MODULE Mailbox -------------------------------
(***************************************************************************)
(* One account's mailbox (mail.py): letters that arrive on two database     *)
(* connections, local mail and notices on the foreground lane and Link mail *)
(* on the background lane; the owner's screens, which act on the list they  *)
(* last loaded; the senders, who may delete their own copies; and the main  *)
(* menu's notice of evicted mail.                                           *)
(*                                                                          *)
(* A SELECT does not begin a transaction, the first write does: a delivery  *)
(* that reads (is there room, which letter would go?) and then writes is    *)
(* two steps, and so are a delete and a keep (which of the letters are      *)
(* there, and in what state?).  What the other connection commits in        *)
(* between is not seen.  The jobs of the owner and of the senders run on    *)
(* the foreground lane, one at a time with the deliveries there; only the   *)
(* deletion of an account holds the database from its first read.           *)
(* Row ids are SQLite's without AUTOINCREMENT: above every present row,     *)
(* hence possibly one that was used before.                                 *)
(***************************************************************************)
EXTENDS Integers, FiniteSets

CONSTANTS
    Letters,   \* letters that may arrive, in any order
    Cap,       \* MAX_MAIL_PER_RECIPIENT
    KeptCap,   \* MAX_KEPT_PER_RECIPIENT
    MaxId,     \* bound: row ids
    KindsOf,   \* KindsOf[m]: the kinds of letter that m may be
    Menus      \* sessions of the account that may show a main menu

ASSUME MailboxAssumption ==
    /\ Cap \in Nat \ {0}
    /\ KeptCap \in Nat /\ MaxId \in Nat
    /\ IsFiniteSet(Letters)

Conns == {"fg", "bg"}
Ids == 1 .. MaxId
Kinds == {"local", "system", "link"}

\* Local letters and notices are written on the foreground lane; Link mail
\* on the background lane.
KindsOn(c) == IF c = "fg" THEN {"local", "system"} ELSE {"link"}

VARIABLES
    rows,      \* mail_messages: the owner's letters by id
    arrived,   \* letters whose delivery was decided
    job,       \* job[c]: the delivery on connection c between read and write
    task,      \* the delete or keep on the foreground lane between its steps
    notice,    \* mail_eviction_notices.evicted
    menu,      \* menu[u]: the count session u shows and has not acknowledged
    view,      \* the list on the owner's screen: ids, and which are local mail
    stale,     \* history: stale[c]: rows changed since c's delivery read them
    overlaps,  \* history: deliveries that overlapped the other connection's
    crossed,   \* history: letters added or evicted during a bulk delete
    untold,    \* history: evictions the owner was not told of
    together   \* history: two sessions showed a notice at once

vars == <<rows, arrived, job, task, notice, menu, view,
          stale, overlaps, crossed, untold, together>>
historyVars == <<stale, overlaps, crossed, untold, together>>
noticeVars == <<notice, menu, untold, together>>

Row == [letter : Letters, kind : Kinds, read : BOOLEAN, kept : BOOLEAN,
        first : {"never", "shared", "private"}, \* first_read_at, first_read_shared
        sdel : BOOLEAN, rdel : BOOLEAN]         \* sender_/recipient_deleted_at
NoRow == [letter |-> "none"]
IdleJob == [step |-> "idle"]
WriteJob == [step : {"write"}, letter : Letters, kind : Kinds,
             victim : 0 .. MaxId, sdel : BOOLEAN]
IdleTask == [step |-> "idle"]
Sides == {"sender", "recipient"}
DeleteTask == [step : {"select", "delete"}, side : Sides, one : BOOLEAN,
               ids : SUBSET Ids, gone : SUBSET Ids]
KeepTask == [step : {"room", "keep"}, ids : SUBSET Ids, n : Nat]
Entry == [id : Ids, local : BOOLEAN]

TypeOK ==
    /\ rows \in [Ids -> Row \cup {NoRow}]
    /\ arrived \subseteq Letters
    /\ job \in [Conns -> WriteJob \cup {IdleJob}]
    /\ task \in DeleteTask \cup KeepTask \cup {IdleTask}
    /\ notice \in Nat /\ menu \in [Menus -> Nat]
    /\ view \subseteq Entry
    /\ stale \in [Conns -> BOOLEAN]
    /\ overlaps \in Nat /\ untold \in Int /\ together \in BOOLEAN
    /\ crossed \subseteq Letters

Init ==
    /\ rows = [i \in Ids |-> NoRow]
    /\ arrived = {}
    /\ job = [c \in Conns |-> IdleJob]
    /\ task = IdleTask
    /\ notice = 0 /\ menu = [u \in Menus |-> 0]
    /\ view = {}
    /\ stale = [c \in Conns |-> FALSE]
    /\ overlaps = 0 /\ crossed = {} /\ untold = 0 /\ together = FALSE

-----------------------------------------------------------------------------
(* Queries over a table t.                                                  *)

Present(t) == {i \in Ids : t[i] # NoRow}
InboxIds(t) == {i \in Present(t) : ~t[i].rdel /\ ~t[i].kept}
KeptIds(t) == {i \in Present(t) : ~t[i].rdel /\ t[i].kept}
inbox_count == Cardinality(InboxIds(rows))
kept_count == Cardinality(KeptIds(rows))

\* Mutant: kept letters may be evicted too.
EvictableOrKept == {i \in InboxIds(rows) \cup KeptIds(rows) : rows[i].read}

Evictable == {i \in InboxIds(rows) : rows[i].read}

\* ORDER BY from_system DESC, id ASC LIMIT 1
Before(i, k) ==
    \/ rows[i].kind = "system" /\ rows[k].kind # "system"
    \/ (rows[i].kind = "system") = (rows[k].kind = "system") /\ i <= k
IsVictim(i) == i \in Evictable /\ \A k \in Evictable : Before(i, k)

\* A change of the rows makes what the deliveries in progress have read
\* stale; the one that writes itself ends.
Touched(c) == stale' = [d \in Conns |-> IF d = c THEN FALSE
                                        ELSE stale[d] \/ job[d].step = "write"]

-----------------------------------------------------------------------------
(* Delivery: send_mail, send_system_mail, deliver_link_message.             *)

\* The checks and make_room's reads.  A full mailbox without a read letter
\* refuses the delivery (MailboxFullError, a bounce).
FindRoom(c, m, k) ==
    /\ job[c].step = "idle"
    /\ m \in Letters \ arrived
    /\ k \in KindsOn(c) \cap KindsOf[m]
    /\ c = "fg" => task = IdleTask
    /\ arrived' = arrived \cup {m}
    /\ \/ /\ inbox_count < Cap
          /\ job' = [job EXCEPT ![c] = [step |-> "write", letter |-> m, kind |-> k,
                                        victim |-> 0, sdel |-> FALSE]]
       \/ /\ inbox_count >= Cap
          /\ \E i \in Ids :
                /\ IsVictim(i)
                /\ job' = [job EXCEPT ![c] = [step |-> "write", letter |-> m, kind |-> k,
                                              victim |-> i, sdel |-> rows[i].sdel]]
       \/ /\ inbox_count >= Cap
          /\ Evictable = {}
          /\ UNCHANGED job
    /\ UNCHANGED <<rows, task, notice, menu, view, historyVars>>

\* _hard_delete_or_mark of row i, with the sender's side as it was read.
Removed(t, i, sdel) ==
    IF t[i] = NoRow THEN t
    ELSE [t EXCEPT ![i] = IF sdel THEN NoRow ELSE [t[i] EXCEPT !.sdel = FALSE, !.rdel = TRUE]]

NewRow(m, k) ==
    [letter |-> m, kind |-> k, read |-> FALSE, kept |-> FALSE, first |-> "never",
     sdel |-> k # "local", rdel |-> FALSE]

\* Mutant: an eviction is not counted when the letter is removed outright.
CountedIfMarked(j) == IF j.victim # 0 /\ ~j.sdel THEN 1 ELSE 0

\* What INSERT INTO mail_eviction_notices adds.
Counted(j) == IF j.victim # 0 THEN 1 ELSE 0

\* A bulk delete between its reads and its write; a task whose write may
\* bring letters into a folder, by a mark it writes back or by a reused id.
BulkDelete == task \in DeleteTask /\ ~task.one
Refilling == task \in KeepTask \/ (task \in DeleteTask /\ task.one /\ task.side = "sender")

\* What c's delivery overlaps with: the other connection's delivery or task
\* is between its reads and its write.
Overlapping(c) == (\E d \in Conns \ {c} : job[d].step = "write") \/ Refilling

\* The transaction: count the eviction, remove the victim by its id, insert
\* the letter; then commit.
WriteLetter(c) ==
    /\ job[c].step = "write"
    /\ LET j == job[c]
           kept == IF j.victim = 0 THEN rows ELSE Removed(rows, j.victim, j.sdel)
       IN  /\ \E i \in Ids :
                 /\ \A p \in Present(kept) : p < i
                 /\ rows' = [kept EXCEPT ![i] = NewRow(j.letter, j.kind)]
           /\ notice' = notice + Counted(j)
           /\ untold' = untold + (IF j.victim # 0 THEN 1 ELSE 0)
           /\ crossed' = IF BulkDelete
                         THEN crossed \cup {j.letter} \cup {rows[i].letter : i \in Present(rows) \cap {j.victim}}
                         ELSE crossed
    /\ overlaps' = IF Overlapping(c) THEN overlaps + 1 ELSE overlaps
    /\ job' = [job EXCEPT ![c] = IdleJob]
    /\ Touched(c)
    /\ UNCHANGED <<arrived, task, menu, view, together>>

-----------------------------------------------------------------------------
(* The owner's screens: jobs of the foreground lane on ids the list shows.  *)

LaneFree == job["fg"].step = "idle" /\ task = IdleTask

\* list_inbox, Inbox and Kept.
Reload ==
    /\ LaneFree
    /\ view' = {[id |-> i, local |-> rows[i].kind = "local"] : i \in InboxIds(rows) \cup KeptIds(rows)}
    /\ view' # view
    /\ UNCHANGED <<rows, arrived, job, task, notice, menu, historyVars>>

\* Mutant: every reading is recorded as the first.
LatestReading(r, shared) == IF shared THEN "shared" ELSE "private"

\* first_read_at, first_read_shared after a reading: the first one stays.
FirstReading(r, shared) ==
    IF r.first # "never" THEN r.first ELSE IF shared THEN "shared" ELSE "private"

\* mark_read: opening a letter that the list shows as unread (one that was
\* read since is not changed).  Receipts are shared only between two local
\* accounts that both share them.
MarkRead(e, shared) ==
    /\ LaneFree
    /\ e \in view
    /\ rows[e.id] # NoRow /\ ~rows[e.id].read
    /\ shared => e.local
    /\ rows' = [rows EXCEPT ![e.id].read = TRUE,
                             ![e.id].first = FirstReading(rows[e.id], shared)]
    /\ Touched("none")
    /\ UNCHANGED <<arrived, job, task, view, noticeVars, overlaps, crossed>>

\* mark_unread, of a letter that the list shows as read.
MarkUnread(e) ==
    /\ LaneFree
    /\ e \in view
    /\ rows[e.id] # NoRow /\ rows[e.id].read
    /\ rows' = [rows EXCEPT ![e.id].read = FALSE]
    /\ Touched("none")
    /\ UNCHANGED <<arrived, job, task, view, noticeVars, overlaps, crossed>>

ListedIds(S) == {e.id : e \in S}

\* Mutant: the letters to keep are counted after the first of them fits.
SomeFit(n) == kept_count < KeptCap \/ n = 0

\* set_kept's check: all of them fit, or KeptFullError and none is moved.
AllFit(n) == n <= KeptCap - kept_count \/ n = 0

\* set_kept(kept=True) counts the letters still in the Inbox, ...
Keep(S) ==
    /\ LaneFree
    /\ S # {} /\ S \subseteq view
    /\ task' = [step |-> "room", ids |-> ListedIds(S),
                n |-> Cardinality(ListedIds(S) \cap InboxIds(rows))]
    /\ UNCHANGED <<rows, arrived, job, view, noticeVars, stale, overlaps, crossed>>

\* ... then what Kept has room for, ...
FindKeptRoom ==
    /\ task.step = "room"
    /\ task' = IF AllFit(task.n) THEN [task EXCEPT !.step = "keep"] ELSE IdleTask
    /\ UNCHANGED <<rows, arrived, job, view, noticeVars, stale, overlaps, crossed>>

\* ... and moves those of the ids that are in the Inbox by then.
WriteKept ==
    /\ task.step = "keep"
    /\ LET ids == task.ids \cap InboxIds(rows) IN
       rows' = [i \in Ids |-> IF i \in ids THEN [rows[i] EXCEPT !.kept = TRUE] ELSE rows[i]]
    /\ task' = IdleTask
    /\ Touched("none")
    /\ UNCHANGED <<arrived, job, view, noticeVars, overlaps, crossed>>

\* set_kept(kept=False): never refused.
Unkeep(S) ==
    /\ LaneFree
    /\ S \subseteq view
    /\ LET ids == ListedIds(S) \cap KeptIds(rows) IN
       /\ ids # {}
       /\ rows' = [i \in Ids |-> IF i \in ids THEN [rows[i] EXCEPT !.kept = FALSE] ELSE rows[i]]
    /\ Touched("none")
    /\ UNCHANGED <<arrived, job, task, view, noticeVars, overlaps, crossed>>

-----------------------------------------------------------------------------
(* Deletes, by the owner and by the senders.                                *)

\* The letters that have not been deleted on a side.
Undeleted(side) ==
    IF side = "recipient" THEN InboxIds(rows) \cup KeptIds(rows)
    ELSE {i \in Present(rows) : rows[i].kind = "local" /\ ~rows[i].sdel}

\* What a screen of that side lists: the owner's list, a sender's Sent mail.
Listed(side) == IF side = "recipient" THEN ListedIds(view) ELSE Ids

OtherDeleted(side, r) == IF side = "sender" THEN r.rdel ELSE r.sdel

\* Mutant: no letter is found that the other side has deleted.
NoneGone(side, ids) == {}

\* Those of ids that the other side has deleted.
AlsoGone(side, ids) == {i \in ids \cap Present(rows) : OtherDeleted(side, rows[i])}

\* delete_for_recipient, delete_for_sender: the row is read, ...
DeleteOne(side, i) ==
    /\ LaneFree
    /\ i \in Listed(side) \cap Undeleted(side)
    /\ task' = [step |-> "delete", side |-> side, one |-> TRUE, ids |-> {i},
                gone |-> AlsoGone(side, {i})]
    /\ UNCHANGED <<rows, arrived, job, view, noticeVars, stale, overlaps, crossed>>

\* delete_letters: those still undeleted on this side are selected, ...
DeleteSome(side, S) ==
    /\ LaneFree
    /\ S \subseteq Listed(side) /\ S \cap Undeleted(side) # {}
    /\ task' = [step |-> "select", side |-> side, one |-> FALSE, ids |-> S \cap Undeleted(side),
                gone |-> {}]
    /\ UNCHANGED <<rows, arrived, job, view, noticeVars, stale, overlaps, crossed>>

\* ... then those of them that are to be removed, ...
SelectGone ==
    /\ task.step = "select"
    /\ task' = [task EXCEPT !.step = "delete", !.gone = AlsoGone(task.side, task.ids)]
    /\ UNCHANGED <<rows, arrived, job, view, noticeVars, stale, overlaps, crossed>>

\* The row as the UPDATE leaves it: the delete of one letter writes the other
\* side's mark back as it read it (not deleted), a bulk delete only its own.
Marked(r, side, one) ==
    IF side = "sender" THEN [r EXCEPT !.sdel = TRUE, !.rdel = ~one /\ r.rdel]
    ELSE [r EXCEPT !.rdel = TRUE, !.sdel = ~one /\ r.sdel]

\* ... and the rows with these ids are removed or marked.
WriteDelete ==
    /\ task.step = "delete"
    /\ rows' = [i \in Ids |-> IF rows[i] = NoRow \/ i \notin task.ids THEN rows[i]
                              ELSE IF i \in task.gone THEN NoRow
                              ELSE Marked(rows[i], task.side, task.one)]
    /\ task' = IdleTask
    /\ Touched("none")
    /\ UNCHANGED <<arrived, job, view, noticeVars, overlaps, crossed>>

\* release_mail_of_deleted_account_without_commit, for a sender's letters to
\* this owner: delete_user has begun its transaction, so it is one step.
SenderLeaves(ids) ==
    /\ LaneFree
    /\ ids # {}
    /\ \A i \in ids : rows[i] # NoRow /\ rows[i].kind = "local"
    /\ rows' = [i \in Ids |-> IF i \notin ids THEN rows[i]
                              ELSE IF rows[i].rdel THEN NoRow ELSE [rows[i] EXCEPT !.sdel = TRUE]]
    /\ Touched("none")
    /\ UNCHANGED <<arrived, job, task, view, noticeVars, overlaps, crossed>>

-----------------------------------------------------------------------------
(* The main menu, in every session of the account.                          *)

\* pending_eviction_notice: the menu reads the count and draws itself.
ReadNotice(u) ==
    /\ menu[u] = 0
    /\ notice > 0
    /\ menu' = [menu EXCEPT ![u] = notice]
    /\ together' = (together \/ \E w \in Menus : menu[w] > 0)
    /\ UNCHANGED <<rows, arrived, job, task, notice, view, stale, overlaps, crossed, untold>>

\* acknowledge_eviction_notice: what was shown is subtracted, and a row that
\* is down to zero or below is deleted.
AckNotice(u) ==
    /\ menu[u] > 0
    /\ notice' = IF notice > menu[u] THEN notice - menu[u] ELSE 0
    /\ untold' = untold - menu[u]
    /\ menu' = [menu EXCEPT ![u] = 0]
    /\ UNCHANGED <<rows, arrived, job, task, view, stale, overlaps, crossed, together>>

Owner ==
    \/ Reload
    \/ \E e \in view : MarkUnread(e) \/ \E shared \in BOOLEAN : MarkRead(e, shared)
    \/ \E S \in SUBSET view : Keep(S) \/ Unkeep(S)

Deletes ==
    \/ \E side \in Sides : \/ \E i \in Ids : DeleteOne(side, i)
                           \/ \E S \in SUBSET Ids : DeleteSome(side, S)
    \/ \E ids \in SUBSET Ids : SenderLeaves(ids)

LaterSteps == FindKeptRoom \/ WriteKept \/ SelectGone \/ WriteDelete

Next ==
    \/ \E c \in Conns, m \in Letters, k \in Kinds : FindRoom(c, m, k)
    \/ \E c \in Conns : WriteLetter(c)
    \/ Owner \/ Deletes \/ LaterSteps
    \/ \E u \in Menus : ReadNotice(u) \/ AckNotice(u)

Spec == Init /\ [][Next]_vars

-----------------------------------------------------------------------------
(* Properties.                                                              *)

\* The doc of set_kept: "the account still holds no more than the two bounds
\* together" -- but for one letter per delivery that wrote between the reads
\* and the write of a job on the other connection.
BoundsNeedOverlap ==
    /\ inbox_count + kept_count <= Cap + KeptCap + overlaps
    /\ kept_count <= KeptCap + overlaps

\* A letter both sides have deleted is gone, since no screen could reach it to
\* remove it -- but for one that a delivery added or evicted between the reads
\* and the write of a bulk delete.
NoOrphanRow == \A i \in Present(rows) : rows[i].sdel /\ rows[i].rdel => rows[i].letter \in crossed

\* Every eviction is told or waits to be told: one made while a menu draws
\* an earlier notice is not acknowledged with it -- unless two sessions of
\* the account showed a notice at the same time.
EvictionsTold == together \/ (notice = untold /\ \A u \in Menus : menu[u] <= notice)

\* A delivery whose reads are still true when it writes evicts only a read
\* letter that is not kept, leaves the inbox within its cap unless it was
\* past it, and never undoes a sender's delete.
CleanDelivery ==
    [][\A c \in Conns :
          job[c].step = "write" /\ job'[c].step = "idle" /\ ~stale[c] =>
             /\ \A i \in InboxIds(rows) \cup KeptIds(rows) :
                   rows[i].kept \/ ~rows[i].read => rows'[i] = rows[i]
             /\ Cardinality(InboxIds(rows')) <= Cap \/ Cardinality(InboxIds(rows')) <= inbox_count
             /\ \A i \in Present(rows) \cap Present(rows') :
                   rows[i].letter = rows'[i].letter /\ rows[i].sdel => rows'[i].sdel]_vars

\* A read receipt is not taken back or rewritten: neither mark unread nor a
\* later reading, nor an eviction, changes when a letter was first read and
\* whether that was shared.
ReceiptStays ==
    [][\A i \in Present(rows) \cap Present(rows') :
          rows[i].letter = rows'[i].letter /\ rows[i].first # "never" =>
             rows'[i].first = rows[i].first]_vars

=============================================================================

------------------------------- MODULE FtnMail -------------------------------
(***************************************************************************)
(* FidoNet mail from this node's outbound queue to the systems that take   *)
(* it: its hub (the uplink) and one other node of the nodelist             *)
(* (ftn/queue.py, outbound.py, mailer.py, listener.py, exchange.py,        *)
(* tosser.py).  The hub runs the same program and tosses what it receives; *)
(* the node is any mailer.                                                 *)
(*                                                                         *)
(* Mail leaves over three lines: the mailer polls the hub, the mailer      *)
(* calls the node directly, or the hub calls and the listener answers.     *)
(* The mailer makes one call at a time; the listener runs beside it.  A    *)
(* session is what Binkp guarantees of it: what is confirmed was received. *)
(*                                                                         *)
(* The queue is a table whose ids are SQLite rowids: a new row gets the    *)
(* largest id in use plus one.                                             *)
(***************************************************************************)
EXTENDS Integers, FiniteSets

CONSTANTS
    Msgs,
    MaxId,          \* largest row id
    MaxPending,     \* MAX_PENDING_PER_NETWORK
    MaxPerPacket,   \* MAX_MESSAGES_PER_PACKET
    CrashAttempts,  \* CRASH_ATTEMPTS
    DirectAttempts, \* DIRECT_ATTEMPTS
    MaxHeld,        \* MAX_HELD_PACKETS
    MaxCrashes,     \* bound: crashes of any of the systems
    MaxForgets,     \* bound: how often the hub forgets one message
    QueueAfterDrop  \* whether mail is queued after some was dropped

ASSUME FtnAssumption ==
    /\ {MaxId, MaxPending, MaxPerPacket, CrashAttempts, DirectAttempts} \subseteq Nat \ {0}
    /\ {MaxHeld, MaxCrashes, MaxForgets} \subseteq Nat
    /\ IsFiniteSet(Msgs) /\ QueueAfterDrop \in BOOLEAN

Lines == {"poll", "direct", "answer"}
MailerLines == {"poll", "direct"}
Remotes == {"hub", "node"}
Ids == 1 .. MaxId

\* What the hub tosses: the packets of its two lines, and what its SysOp
\* releases from the held store
Tosses == {"poll", "answer", "release"}

VARIABLES
    rows,     \* ftn_outbound
    composed, \* messages ever queued
    listed,   \* the nodelist says where the node answers
    ses,      \* ses[l]: the session on line l and what is left to do after it
    failures, \* direct_status: failed calls to the node, in a row
    telling,  \* messages dropped whose senders are not told yet
    told,     \* messages whose senders were told (or, mailbox full, logged)
    got,      \* got[l]: messages the hub has received and not tossed
    seen,     \* ftn_seen_msgids at the hub
    forgets,  \* history: how often the hub has forgotten a message it had seen
    stored,   \* stored[m]: posts and letters made of m at the hub
    held,     \* ftn_held_inbound at the hub: row id to messages
    received, \* history: <<r, m>>, m came whole to r
    cut,      \* history: messages the hub had no room to hold, or a crash cost
              \* it, or whose sender a crash kept from being told
    crashes

queue == <<rows, composed, listed>>
remote == <<got, seen, forgets, stored, held, received>>
vars == <<queue, ses, failures, telling, told, remote, cut, crashes>>

NoRow == [status |-> "none"]
Row == [m : Msgs, status : {"pending", "sent"}, route : {"uplink", "direct"},
        flavour : {"normal", "crash", "hold"}, attempts : 0 .. CrashAttempts]

\* The session's place: the call itself, then SessionOutbound.settle,
\* note_failed_crash and _to_uplink.
Session == [at : {"idle", "call", "settle", "count", "reroute"}, ids : SUBSET Ids,
            packet : SUBSET Msgs, confirmed : BOOLEAN, failed : BOOLEAN]
NoSession == [at |-> "idle", ids |-> {}, packet |-> {}, confirmed |-> FALSE, failed |-> FALSE]

TypeOK ==
    /\ rows \in [Ids -> Row \cup {NoRow}]
    /\ composed \subseteq Msgs
    /\ listed \in BOOLEAN
    /\ ses \in [Lines -> Session]
    /\ failures \in Nat
    /\ telling \subseteq Msgs /\ told \subseteq Msgs
    /\ got \in [Tosses -> SUBSET Msgs]
    /\ seen \subseteq Msgs
    /\ forgets \in [Msgs -> 0 .. MaxForgets]
    /\ stored \in [Msgs -> Nat]
    /\ held \in [1 .. MaxHeld -> SUBSET Msgs]
    /\ received \subseteq Remotes \X Msgs
    /\ cut \subseteq Msgs
    /\ crashes \in 0 .. MaxCrashes

Init ==
    /\ rows = [i \in Ids |-> NoRow]
    /\ composed = {}
    /\ listed = TRUE
    /\ ses = [l \in Lines |-> NoSession]
    /\ failures = 0
    /\ telling = {} /\ told = {}
    /\ got = [l \in Tosses |-> {}]
    /\ seen = {}
    /\ forgets = [m \in Msgs |-> 0]
    /\ stored = [m \in Msgs |-> 0]
    /\ held = [n \in 1 .. MaxHeld |-> {}]
    /\ received = {} /\ cut = {}
    /\ crashes = 0

-----------------------------------------------------------------------------
(* The queue.                                                              *)

Used == {i \in Ids : rows[i].status # "none"}
Pending == {i \in Used : rows[i].status = "pending"}

\* The rowid SQLite gives a new row
IsNextId(i) ==
    /\ \A j \in Used : j < i
    /\ i = 1 \/ i - 1 \in Used

\* flavour_route; crash to a node the nodelist does not list is refused
RouteOf(flavour, dest) ==
    IF dest = "hub" THEN "uplink"
    ELSE IF flavour = "hold" THEN "direct"
    ELSE IF listed THEN "direct" ELSE "uplink"

\* send_netmail, enqueue_outbound_without_commit
Compose(m, flavour, dest) ==
    /\ m \notin composed
    /\ flavour = "crash" => dest = "hub" \/ listed
    /\ Cardinality(Pending) < MaxPending
    /\ QueueAfterDrop \/ composed \subseteq {rows[i].m : i \in Used}
    /\ \E i \in Ids :
          /\ IsNextId(i)
          /\ rows' = [rows EXCEPT ![i] =
                         [m |-> m, status |-> "pending", route |-> RouteOf(flavour, dest),
                          flavour |-> flavour, attempts |-> 0]]
    /\ composed' = composed \cup {m}
    /\ UNCHANGED <<listed, ses, failures, telling, told, remote, cut, crashes>>

\* A new nodelist no longer lists the node.
Unlist ==
    /\ listed
    /\ listed' = FALSE
    /\ UNCHANGED <<rows, composed, ses, failures, telling, told, remote, cut, crashes>>

\* The mailer and the listener share a lane: while one of its jobs reports
\* what it dropped, no other job runs.
LaneFree == telling = {}
MailerFree == \A l \in MailerLines : ses[l].at = "idle"

\* waiting_for_node: held rows go only in a session a password proved
Waiting(l) ==
    {i \in Pending :
        /\ rows[i].route = IF l = "direct" THEN "direct" ELSE "uplink"
        /\ l # "direct" \/ rows[i].flavour # "hold"}

OldestFirst(S) == {i \in S : Cardinality({j \in S : j < i}) < MaxPerPacket}

\* Mutant: rows are dropped and nobody is told.
DropUnreported(f, S) ==
    /\ rows' = [i \in Ids |-> IF i \in S THEN NoRow ELSE f[i]]
    /\ telling' = {}

\* _drop_rows: the rows go, then their senders are told
Drop(f, S) ==
    /\ rows' = [i \in Ids |-> IF i \in S THEN NoRow ELSE f[i]]
    /\ telling' = {rows[i].m : i \in S}

\* report_undelivered, the end of the same job
Report ==
    /\ telling # {}
    /\ told' = told \cup telling
    /\ telling' = {}
    /\ UNCHANGED <<queue, ses, failures, remote, cut, crashes>>

\* expire_held, once a day
ExpireHeld ==
    /\ LaneFree /\ MailerFree
    /\ \E S \in SUBSET {i \in Pending : rows[i].flavour = "hold"} : S # {} /\ Drop(rows, S)
    /\ UNCHANGED <<composed, listed, ses, failures, told, remote, cut, crashes>>

-----------------------------------------------------------------------------
(* A session: outbound_for_node, then run_session.                         *)

Goes(l, r) == ses' = [ses EXCEPT ![l] = r]

\* poll, deliver_direct, or the listener's _answer.  The hub's mailer is one
\* task: it calls again when it has tossed what it got.
Start(l) ==
    /\ LaneFree
    /\ ses[l].at = "idle"
    /\ l \in MailerLines => MailerFree
    /\ l = "direct" => listed
    /\ l = "answer" => got[l] = {}
    /\ LET S == OldestFirst(Waiting(l)) IN
       /\ S # {}
       /\ Goes(l, [NoSession EXCEPT !.at = "call", !.ids = S,
                                    !.packet = {rows[i].m : i \in S}])
    /\ UNCHANGED <<queue, failures, telling, told, remote, cut, crashes>>

\* No connection, M_BSY, or a break before the packet was through
CallFails(l) ==
    /\ ses[l].at = "call"
    /\ Goes(l, [ses[l] EXCEPT !.at = "settle", !.failed = TRUE])
    /\ UNCHANGED <<queue, failures, telling, told, remote, cut, crashes>>

\* Mutant: a session that breaks keeps nothing of what it received.
KeptOfWholeSessions(packet, failed) == IF failed THEN {} ELSE packet

\* What a remote tosses of a session: whole files, also of a broken one
KeptOf(packet, failed) == packet

\* The packet is received whole.  Its M_GOT may be lost with the connection,
\* and the session may break after it.  A remote that is still tossing the
\* last call's files answers M_BSY.
Transfer(l) ==
    /\ ses[l].at = "call"
    /\ l # "direct" => got[l] = {}
    /\ \E confirmed, failed \in BOOLEAN :
          /\ confirmed \/ failed
          /\ Goes(l, [ses[l] EXCEPT !.at = "settle", !.confirmed = confirmed,
                                    !.failed = failed])
          /\ got' = [k \in Tosses |-> IF k = l THEN KeptOf(ses[l].packet, failed) ELSE got[k]]
    /\ received' = received \cup ({IF l = "direct" THEN "node" ELSE "hub"} \X ses[l].packet)
    /\ UNCHANGED <<queue, failures, telling, told, seen, forgets, stored, held, cut, crashes>>

\* The remote skips the packet (M_SKIP) and the session ends well; this
\* program, which is the hub's too, never skips a file.
Refuses(l) ==
    /\ l = "direct"
    /\ ses[l].at = "call"
    /\ Goes(l, [ses[l] EXCEPT !.at = "settle"])
    /\ UNCHANGED <<queue, failures, telling, told, remote, cut, crashes>>

\* Mutant: the messages are marked sent whatever the remote confirmed.
MarkedAfterCall(f, s) ==
    [i \in Ids |-> IF i \in s.ids /\ f[i].status # "none"
                   THEN [f[i] EXCEPT !.status = "sent"] ELSE f[i]]

\* mark_outbound_sent: by id
Marked(f, s) ==
    [i \in Ids |-> IF i \in s.ids /\ f[i].status # "none" /\ s.confirmed
                   THEN [f[i] EXCEPT !.status = "sent"] ELSE f[i]]

\* SessionOutbound.settle, then the caller's bookkeeping
Settle(l) ==
    /\ LaneFree
    /\ ses[l].at = "settle"
    /\ rows' = Marked(rows, ses[l])
    /\ failures' = IF l # "direct" THEN failures
                   ELSE IF ses[l].confirmed \/ ~ses[l].failed THEN 0 ELSE failures + 1
    /\ LET counts == \/ l = "poll" /\ ses[l].failed
                     \/ l = "direct" /\ ses[l].failed /\ ~ses[l].confirmed
       IN  Goes(l, IF counts THEN [ses[l] EXCEPT !.at = "count"] ELSE NoSession)
    /\ UNCHANGED <<composed, listed, telling, told, remote, cut, crashes>>

\* Mutant: a failed call is not counted.
NotCounted(S) == rows

\* note_failed_crash counts the call against the crash rows it would have
\* carried ...
Counted(S) ==
    [i \in Ids |-> IF i \in S /\ i \in Used /\ rows[i].flavour = "crash"
                      /\ rows[i].attempts < CrashAttempts
                   THEN [rows[i] EXCEPT !.attempts = @ + 1] ELSE rows[i]]

\* ... and drops the network's crash mail that had its calls.
NoteFailedCrash(l) ==
    /\ LaneFree
    /\ ses[l].at = "count"
    /\ LET counted == Counted(ses[l].ids) IN
       Drop(counted, {i \in Pending : /\ counted[i].flavour = "crash"
                                      /\ counted[i].attempts >= CrashAttempts})
    /\ Goes(l, IF l = "direct" /\ failures >= DirectAttempts
               THEN [ses[l] EXCEPT !.at = "reroute"] ELSE NoSession)
    /\ UNCHANGED <<composed, listed, failures, told, remote, cut, crashes>>

\* reroute_outbound_to_uplink
Rerouted(S) ==
    [i \in Ids |-> IF i \in S /\ i \in Used /\ rows[i].flavour = "normal"
                   THEN [rows[i] EXCEPT !.route = "uplink"] ELSE rows[i]]

\* _to_uplink
ToUplink ==
    /\ LaneFree
    /\ ses["direct"].at = "reroute"
    /\ rows' = Rerouted(ses["direct"].ids)
    /\ failures' = 0
    /\ Goes("direct", NoSession)
    /\ UNCHANGED <<composed, listed, telling, told, remote, cut, crashes>>

\* _unroutable: the node is no longer listed
Unroutable ==
    /\ LaneFree /\ MailerFree
    /\ ~listed
    /\ LET S == OldestFirst(Waiting("direct")) IN
       /\ S # {}
       /\ Drop(Rerouted(S), {i \in S : rows[i].flavour = "crash"})
    /\ UNCHANGED <<composed, listed, ses, failures, told, remote, cut, crashes>>

-----------------------------------------------------------------------------
(* The hub: toss_received, toss_packet.                                    *)

\* hold_inbound: a new item, or nothing when the store is full
Hold(ms) ==
    \/ \E n \in 1 .. MaxHeld :
          /\ held[n] = {}
          /\ \A k \in 1 .. n - 1 : held[k] # {}
          /\ held' = [held EXCEPT ![n] = ms]
          /\ UNCHANGED cut
    \/ /\ \A n \in 1 .. MaxHeld : held[n] # {}
       /\ cut' = cut \cup ms
       /\ UNCHANGED held

\* Mutant: only a third copy counts as a repetition.
IsDupeIfStored(m) == stored[m] > 1

\* record_seen_msgid_without_commit: the message has been here
IsDupe(m) == m \in seen

\* One message of a packet, in one transaction
Toss(l, m) ==
    /\ m \in got[l]
    /\ got' = [got EXCEPT ![l] = @ \ {m}]
    /\ \/ /\ IsDupe(m)
          /\ UNCHANGED <<seen, stored, held, cut>>
       \/ /\ ~IsDupe(m)                       \* a post or a letter
          /\ seen' = seen \cup {m}
          /\ stored' = [stored EXCEPT ![m] = @ + 1]
          /\ UNCHANGED <<held, cut>>
       \/ /\ ~IsDupe(m)                       \* from a blocked sender
          /\ seen' = seen \cup {m}
          /\ UNCHANGED <<stored, held, cut>>
       \/ /\ ~IsDupe(m)                       \* _Unstorable: rolled back, held
          /\ Hold({m})
          /\ UNCHANGED <<seen, stored>>
    /\ UNCHANGED <<queue, ses, failures, telling, told, forgets, received, crashes>>

\* release_held: the item goes, then its messages are tossed
Release(n) ==
    /\ got["release"] = {} /\ held[n] # {}
    /\ held' = [held EXCEPT ![n] = {}]
    /\ got' = [got EXCEPT !["release"] = held[n]]
    /\ UNCHANGED <<queue, ses, failures, telling, told, seen, forgets, stored, received, cut,
                   crashes>>

\* prune_seen_msgids, once a day: what is older than the retention
PruneSeen ==
    /\ \E S \in SUBSET {m \in seen : forgets[m] < MaxForgets} :
          /\ S # {}
          /\ seen' = seen \ S
          /\ forgets' = [m \in Msgs |-> IF m \in S THEN forgets[m] + 1 ELSE forgets[m]]
    /\ UNCHANGED <<queue, ses, failures, telling, told, got, stored, held, received, cut, crashes>>

-----------------------------------------------------------------------------
(* Crashes: what is only in memory is gone.                                *)

CrashHub ==
    /\ crashes < MaxCrashes
    /\ crashes' = crashes + 1
    /\ got' = [l \in Tosses |-> {}]
    /\ cut' = cut \cup UNION {got[l] : l \in Tosses}
    /\ UNCHANGED <<queue, ses, failures, telling, told, seen, forgets, stored, held, received>>

CrashHere ==
    /\ crashes < MaxCrashes
    /\ crashes' = crashes + 1
    /\ ses' = [l \in Lines |-> NoSession]
    /\ failures' = 0
    /\ telling' = {}
    /\ cut' = cut \cup telling
    /\ UNCHANGED <<queue, told, remote>>

-----------------------------------------------------------------------------
(* The specification.                                                      *)

CallEnds(l) == CallFails(l) \/ Transfer(l) \/ Refuses(l)
After(l) == Settle(l) \/ NoteFailedCrash(l) \/ (l = "direct" /\ ToUplink)

Next ==
    \/ \E m \in Msgs, flavour \in {"normal", "crash", "hold"}, dest \in Remotes :
          Compose(m, flavour, dest)
    \/ Unlist \/ Report \/ ExpireHeld \/ Unroutable
    \/ \E l \in Lines : Start(l) \/ CallEnds(l) \/ After(l)
    \/ \E l \in Tosses, m \in Msgs : Toss(l, m)
    \/ \E n \in 1 .. MaxHeld : Release(n)
    \/ PruneSeen \/ CrashHub \/ CrashHere

Spec == Init /\ [][Next]_vars

\* The mailer's loop runs for ever and makes each of its calls in every pass
\* in which mail waits for it; sessions end, at the latest by their time-out.
Fairness ==
    /\ WF_vars(Report)
    /\ SF_vars(ExpireHeld) /\ SF_vars(Unroutable)
    /\ \A l \in MailerLines : SF_vars(Start(l))
    /\ \A l \in Lines : WF_vars(CallEnds(l)) /\ WF_vars(After(l))

FairSpec == Spec /\ Fairness

-----------------------------------------------------------------------------
(* Properties.                                                             *)

\* A message marked sent has come whole to a remote (mark_outbound_sent,
\* "marked sent only when the hub confirms the packet holding it"): its text
\* is erased with the mark.
SentMeansReceived ==
    \A i \in Used : rows[i].status = "sent" => \E r \in Remotes : <<r, rows[i].m>> \in received

\* What came whole to the hub is there: tossed, so long ago that the hub has
\* forgotten it or not, held or being tossed; only a full held store, which is
\* counted, and a crash take it.
KeptOrCounted ==
    \A m \in Msgs :
        <<"hub", m>> \in received =>
            \/ m \in seen \cup cut \/ forgets[m] > 0
            \/ \E l \in Tosses : m \in got[l]
            \/ \E n \in 1 .. MaxHeld : m \in held[n]

\* However often a message comes, over either line or from the held store,
\* it makes one post or letter, and one more at most each time the hub has
\* forgotten it (prune_seen_msgids; an item may be held longer than that).
StoredOnce == \A m \in Msgs : stored[m] <= 1 + forgets[m]

\* A message never disappears: it waits, came to a remote, or its sender was
\* told it was dropped.
NeverSilent ==
    \A m \in composed :
        \/ \E i \in Pending : rows[i].m = m
        \/ \E r \in Remotes : <<r, m>> \in received
        \/ m \in telling \cup told \cup cut

\* Mail for a direct call, crash mail and held mail do not wait for ever
\* without a refusal: they are sent, dropped, or go by the hub.  A node that
\* skips the packet in every session keeps them waiting, for such a session
\* counts as a good one (deliver_direct resets the failures and counts no call).
DirectMailSettles ==
    \A m \in Msgs :
        LET Waits == \E i \in Pending :
                        rows[i].m = m /\ (rows[i].route = "direct" \/ rows[i].flavour # "normal")
            Skipped == LET s == ses["direct"] IN
                       s.at = "settle" /\ m \in s.packet /\ ~s.confirmed /\ ~s.failed
        IN  Waits ~> ~Waits \/ Skipped
=============================================================================

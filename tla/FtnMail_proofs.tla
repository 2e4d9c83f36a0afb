---------------------------- MODULE FtnMail_proofs ----------------------------
(* Proofs about FtnMail, for any number of messages and any bounds.          *)
EXTENDS FtnMail, TLAPS

-----------------------------------------------------------------------------
(* Types.                                                                    *)

\* Updates of rows keep the type of the table.
LEMMA RowUpdates ==
    ASSUME rows \in [Ids -> Row \cup {NoRow}], FtnAssumption
    PROVE  /\ \A s : Marked(rows, s) \in [Ids -> Row \cup {NoRow}]
           /\ \A S : Counted(S) \in [Ids -> Row \cup {NoRow}]
           /\ \A S : Rerouted(S) \in [Ids -> Row \cup {NoRow}]
<1>1. ASSUME NEW i \in Ids, rows[i].status # "none"
      PROVE  rows[i] \in Row
  BY <1>1 DEF NoRow
<1>2. ASSUME NEW r \in Row
      PROVE  /\ [r EXCEPT !.status = "sent"] \in Row
             /\ [r EXCEPT !.route = "uplink"] \in Row
             /\ r.attempts < CrashAttempts => [r EXCEPT !.attempts = @ + 1] \in Row
  BY <1>2, FtnAssumption DEF Row, FtnAssumption
<1>3. ASSUME NEW s PROVE Marked(rows, s) \in [Ids -> Row \cup {NoRow}]
  BY <1>1, <1>2 DEF Marked
<1>4. ASSUME NEW S PROVE Counted(S) \in [Ids -> Row \cup {NoRow}]
  BY <1>1, <1>2 DEF Counted, Used
<1>5. ASSUME NEW S PROVE Rerouted(S) \in [Ids -> Row \cup {NoRow}]
  BY <1>1, <1>2 DEF Rerouted, Used
<1>. QED  BY <1>3, <1>4, <1>5

\* What a step that rewrites rows may do to one of them: drop it, or keep its
\* message and at most mark it sent.
Keeps(f, i) ==
    \/ f[i].status = "none"
    \/ /\ rows[i].status # "none"
       /\ f[i].m = rows[i].m
       /\ f[i].status \in {rows[i].status, "sent"}

LEMMA RowsKept ==
    ASSUME rows \in [Ids -> Row \cup {NoRow}], NEW i \in Ids, NEW S, NEW s
    PROVE  /\ Keeps(Counted(S), i) /\ Counted(S)[i].status = rows[i].status
           /\ Keeps(Rerouted(S), i) /\ Rerouted(S)[i].status = rows[i].status
           /\ Keeps(Marked(rows, s), i)
           /\ Marked(rows, s)[i].status = "sent" =>
                 rows[i].status = "sent" \/ (i \in s.ids /\ s.confirmed)
           /\ Marked(rows, s)[i].status = "none" => rows[i].status = "none"
<1>1. rows[i] \in Row \/ rows[i] = NoRow
  OBVIOUS
<1>2. /\ Counted(S)[i] \in {rows[i], [rows[i] EXCEPT !.attempts = @ + 1]}
      /\ Counted(S)[i] # rows[i] => rows[i].status # "none"
  BY DEF Counted, Used
<1>3. /\ Rerouted(S)[i] \in {rows[i], [rows[i] EXCEPT !.route = "uplink"]}
      /\ Rerouted(S)[i] # rows[i] => rows[i].status # "none"
  BY DEF Rerouted, Used
<1>4. \/ Marked(rows, s)[i] = rows[i]
      \/ /\ Marked(rows, s)[i] = [rows[i] EXCEPT !.status = "sent"]
         /\ rows[i].status # "none" /\ i \in s.ids /\ s.confirmed
  BY DEF Marked
<1>5. rows[i].status # "none" => rows[i] \in Row
  BY <1>1 DEF NoRow
<1>. QED  BY <1>1, <1>2, <1>3, <1>4, <1>5 DEF Keeps, Row, NoRow

\* Every variable keeps its type.
THEOREM TypeCorrect == Spec => []TypeOK
<1>1. Init => TypeOK
  BY FtnAssumption DEF Init, TypeOK, FtnAssumption, NoSession, Session, Remotes, Ids
<1>2. TypeOK /\ [Next]_vars => TypeOK'
  <2>. SUFFICES ASSUME TypeOK, [Next]_vars PROVE TypeOK'
    OBVIOUS
  <2>. USE FtnAssumption
  <2>u. Pending \subseteq Used /\ Used \subseteq Ids
    BY DEF Pending, Used
  <2>r. ASSUME NEW i \in Used PROVE rows[i] \in Row /\ rows[i].m \in Msgs
    BY <2>r DEF TypeOK, Used, NoRow, Row
  <2>1. ASSUME NEW m \in Msgs, NEW flavour \in {"normal", "crash", "hold"},
               NEW dest \in Remotes, Compose(m, flavour, dest)
        PROVE  TypeOK'
    <3>1. PICK i \in Ids : rows' = [rows EXCEPT ![i] =
                         [m |-> m, status |-> "pending", route |-> RouteOf(flavour, dest),
                          flavour |-> flavour, attempts |-> 0]]
      BY <2>1 DEF Compose
    <3>2. RouteOf(flavour, dest) \in {"uplink", "direct"}
      BY DEF RouteOf
    <3>3. rows' \in [Ids -> Row \cup {NoRow}]
      BY <3>1, <3>2 DEF TypeOK, Row, FtnAssumption
    <3>. QED  BY <2>1, <3>3 DEF Compose, TypeOK, remote
  <2>2. CASE Unlist
    BY <2>2 DEF Unlist, TypeOK, remote
  <2>3. CASE Report
    BY <2>3 DEF Report, TypeOK, remote, queue
  <2>d. ASSUME NEW f \in [Ids -> Row \cup {NoRow}], NEW S \in SUBSET Used, Drop(f, S)
        PROVE  rows' \in [Ids -> Row \cup {NoRow}] /\ telling' \subseteq Msgs
    BY <2>d, <2>r DEF Drop
  <2>4. CASE ExpireHeld
    <3>1. PICK S \in SUBSET {i \in Pending : rows[i].flavour = "hold"} : Drop(rows, S)
      BY <2>4 DEF ExpireHeld
    <3>2. rows' \in [Ids -> Row \cup {NoRow}] /\ telling' \subseteq Msgs
      BY <3>1, <2>d, <2>u DEF TypeOK
    <3>. QED  BY <2>4, <3>2 DEF ExpireHeld, TypeOK, remote
  <2>5. CASE Unroutable
    <3>. DEFINE S == OldestFirst(Waiting("direct"))
    <3>1. S \subseteq Used
      BY <2>u DEF OldestFirst, Waiting
    <3>2. Drop(Rerouted(S), {i \in S : rows[i].flavour = "crash"})
      BY <2>5 DEF Unroutable
    <3>3. /\ Rerouted(S) \in [Ids -> Row \cup {NoRow}]
          /\ {i \in S : rows[i].flavour = "crash"} \in SUBSET Used
      <4>. HIDE DEF S
      <4>. QED  BY <3>1, RowUpdates DEF TypeOK
    <3>4. rows' \in [Ids -> Row \cup {NoRow}] /\ telling' \subseteq Msgs
      <4>. HIDE DEF S
      <4>. QED  BY <3>2, <3>3, <2>d
    <3>. QED  BY <2>5, <3>4 DEF Unroutable, TypeOK, remote
  <2>6. ASSUME NEW l \in Lines, Start(l) PROVE TypeOK'
    <3>. DEFINE S == OldestFirst(Waiting(l))
    <3>1. S \subseteq Used
      BY <2>u DEF OldestFirst, Waiting
    <3>2. ses' = [ses EXCEPT ![l] = [NoSession EXCEPT !.at = "call", !.ids = S,
                                    !.packet = {rows[i].m : i \in S}]]
      BY <2>6 DEF Start, Goes
    <3>3. S \subseteq Ids /\ {rows[i].m : i \in S} \subseteq Msgs
      BY <3>1, <2>u, <2>r
    <3>4. ses' \in [Lines -> Session]
      <4>. HIDE DEF S
      <4>. QED  BY <3>2, <3>3 DEF TypeOK, NoSession, Session
    <3>. QED  BY <2>6, <3>4 DEF Start, TypeOK, remote, queue
  <2>7. ASSUME NEW l \in Lines, CallFails(l) PROVE TypeOK'
    BY <2>7, ZenonT(60) DEF CallFails, Goes, TypeOK, Session, remote, queue
  <2>8. ASSUME NEW l \in Lines, Transfer(l) PROVE TypeOK'
    <3>1. ses' \in [Lines -> Session]
      <4>1. PICK confirmed \in BOOLEAN, failed \in BOOLEAN :
               ses' = [ses EXCEPT ![l] = [ses[l] EXCEPT !.at = "settle",
                                     !.confirmed = confirmed, !.failed = failed]]
        BY <2>8 DEF Transfer, Goes
      <4>2. [ses[l] EXCEPT !.at = "settle", !.confirmed = confirmed, !.failed = failed]
               \in Session
        BY ZenonT(60) DEF TypeOK, Session
      <4>. QED  BY <4>1, <4>2 DEF TypeOK
    <3>p. ses[l].packet \subseteq Msgs
      BY DEF TypeOK, Session
    <3>3. got' = [k \in Tosses |-> IF k = l THEN ses[l].packet ELSE got[k]]
      BY <2>8 DEF Transfer, KeptOf
    <3>4. got' \in [Tosses -> SUBSET Msgs]
      BY <3>3, <3>p DEF TypeOK
    <3>2. received' \subseteq Remotes \X Msgs
      BY <2>8 DEF Transfer, TypeOK, Session, Remotes
    <3>. QED  BY <2>8, <3>1, <3>2, <3>4 DEF Transfer, TypeOK, queue
  <2>9. ASSUME NEW l \in Lines, Settle(l) PROVE TypeOK'
    <3>1. rows' \in [Ids -> Row \cup {NoRow}]
      BY <2>9, RowUpdates DEF Settle, TypeOK
    <3>2. ses' \in [Lines -> Session]
      <4>1. \/ ses' = [ses EXCEPT ![l] = [ses[l] EXCEPT !.at = "count"]]
            \/ ses' = [ses EXCEPT ![l] = NoSession]
        BY <2>9 DEF Settle, Goes
      <4>2. [ses[l] EXCEPT !.at = "count"] \in Session /\ NoSession \in Session
        BY DEF TypeOK, Session, NoSession
      <4>. QED  BY <4>1, <4>2 DEF TypeOK
    <3>3. failures' \in Nat
      BY <2>9 DEF Settle, TypeOK
    <3>. QED  BY <2>9, <3>1, <3>2, <3>3 DEF Settle, TypeOK, remote
  <2>10. ASSUME NEW l \in Lines, NoteFailedCrash(l) PROVE TypeOK'
    <3>. DEFINE S == {i \in Pending : /\ Counted(ses[l].ids)[i].flavour = "crash"
                                      /\ Counted(ses[l].ids)[i].attempts >= CrashAttempts}
    <3>1. Drop(Counted(ses[l].ids), S)
      BY <2>10 DEF NoteFailedCrash
    <3>a. S \in SUBSET Used
      BY <2>u
    <3>b. Counted(ses[l].ids) \in [Ids -> Row \cup {NoRow}]
      BY RowUpdates DEF TypeOK
    <3>2. rows' \in [Ids -> Row \cup {NoRow}] /\ telling' \subseteq Msgs
      <4>. HIDE DEF S
      <4>. QED  BY <3>1, <3>a, <3>b, <2>d
    <3>3. ses' \in [Lines -> Session]
      <4>1. ses' \in {[ses EXCEPT ![l] = [ses[l] EXCEPT !.at = "reroute"]],
                      [ses EXCEPT ![l] = NoSession]}
        BY <2>10 DEF NoteFailedCrash, Goes
      <4>2. NoSession \in Session /\ [ses[l] EXCEPT !.at = "reroute"] \in Session
        BY DEF TypeOK, Session, NoSession
      <4>. QED  BY <4>1, <4>2 DEF TypeOK
    <3>. QED  BY <2>10, <3>2, <3>3 DEF NoteFailedCrash, TypeOK, remote
  <2>11. CASE ToUplink
    <3>1. rows' \in [Ids -> Row \cup {NoRow}]
      BY <2>11, RowUpdates DEF ToUplink, TypeOK
    <3>2. ses' \in [Lines -> Session]
      BY <2>11 DEF ToUplink, Goes, TypeOK, Session, NoSession, Lines
    <3>. QED  BY <2>11, <3>1, <3>2 DEF ToUplink, TypeOK, remote, FtnAssumption
  <2>12. ASSUME NEW l \in Tosses, NEW m \in Msgs, Toss(l, m) PROVE TypeOK'
    <3>h. ASSUME Hold({m})
          PROVE  held' \in [1 .. MaxHeld -> SUBSET Msgs] /\ cut' \subseteq Msgs
      <4>1. CASE UNCHANGED cut /\ \E n \in 1 .. MaxHeld : held' = [held EXCEPT ![n] = {m}]
        BY <4>1 DEF TypeOK
      <4>2. CASE cut' = cut \cup {m} /\ UNCHANGED held
        BY <4>2 DEF TypeOK
      <4>. QED  BY <3>h, <4>1, <4>2 DEF Hold
    <3>1. held' \in [1 .. MaxHeld -> SUBSET Msgs] /\ cut' \subseteq Msgs
      BY <2>12, <3>h DEF Toss, TypeOK
    <3>g. got' \in [Tosses -> SUBSET Msgs]
      <4>1. got' = [got EXCEPT ![l] = got[l] \ {m}]
        BY <2>12 DEF Toss
      <4>2. got[l] \ {m} \in SUBSET Msgs
        BY DEF TypeOK
      <4>. QED  BY <4>1, <4>2 DEF TypeOK
    <3>s. stored' \in {stored, [stored EXCEPT ![m] = stored[m] + 1]}
      BY <2>12 DEF Toss
    <3>t. stored' \in [Msgs -> Nat]
      BY <3>s DEF TypeOK
    <3>2. seen' \subseteq Msgs /\ stored' \in [Msgs -> Nat] /\ got' \in [Tosses -> SUBSET Msgs]
      BY <2>12, <3>g, <3>t DEF Toss, TypeOK
    <3>. QED  BY <2>12, <3>1, <3>2 DEF Toss, TypeOK, queue
  <2>13. ASSUME NEW n \in 1 .. MaxHeld, Release(n) PROVE TypeOK'
    BY <2>13 DEF Release, TypeOK, queue, Tosses
  <2>14. CASE CrashHub
    BY <2>14, SMTT(30) DEF CrashHub, TypeOK, queue, FtnAssumption
  <2>15. CASE CrashHere
    BY <2>15 DEF CrashHere, TypeOK, queue, remote, NoSession, Session, FtnAssumption
  <2>17. ASSUME NEW l \in Lines, Refuses(l) PROVE TypeOK'
    BY <2>17, ZenonT(60) DEF Refuses, Goes, TypeOK, Session, remote, queue
  <2>18. CASE PruneSeen
    <3>1. PICK S \in SUBSET {m \in seen : forgets[m] < MaxForgets} :
             /\ seen' = seen \ S
             /\ forgets' = [m \in Msgs |-> IF m \in S THEN forgets[m] + 1 ELSE forgets[m]]
      BY <2>18 DEF PruneSeen
    <3>2. forgets' \in [Msgs -> 0 .. MaxForgets] /\ seen' \subseteq Msgs
      BY <3>1 DEF TypeOK, FtnAssumption
    <3>. QED  BY <2>18, <3>2 DEF PruneSeen, TypeOK, queue
  <2>16. CASE UNCHANGED vars
    BY <2>16 DEF vars, queue, remote, TypeOK
  <2>. QED  BY <2>1, <2>2, <2>3, <2>4, <2>5, <2>6, <2>7, <2>8, <2>9, <2>10, <2>11, <2>12,
               <2>13, <2>14, <2>15, <2>16, <2>17, <2>18 DEF Next, CallEnds, After
<1>. QED  BY <1>1, <1>2, PTL DEF Spec

-----------------------------------------------------------------------------
(* The hub.  What it has stored it has seen, unless it has forgotten it       *)
(* since, and IsDupe asks what was seen.                                     *)

StoredIsSeen ==
    \A m \in Msgs :
        /\ stored[m] <= 1 + forgets[m]
        /\ m \notin seen => stored[m] <= forgets[m]
HubInv == StoredIsSeen /\ KeptOrCounted

\* Steps of the sending side leave the hub alone, but for cut.
LEMMA HubUntouched ==
    ASSUME HubInv, UNCHANGED remote, cut \subseteq cut'
    PROVE  HubInv'
BY DEF HubInv, StoredIsSeen, KeptOrCounted, remote

\* The hub's invariant holds with any number of messages and crashes.
LEMMA HubAlways == Spec => []HubInv
<1>1. Init => HubInv
  BY DEF Init, HubInv, StoredIsSeen, KeptOrCounted
<1>2. TypeOK /\ HubInv /\ [Next]_vars => HubInv'
  <2>. SUFFICES ASSUME TypeOK, HubInv, [Next]_vars PROVE HubInv'
    OBVIOUS
  <2>. USE FtnAssumption
  <2>1. ASSUME NEW l \in Lines, Transfer(l) PROVE HubInv'
    <3>1. got' = [k \in Tosses |-> IF k = l THEN ses[l].packet ELSE got[k]]
      BY <2>1 DEF Transfer, KeptOf
    <3>2. ASSUME NEW m \in Msgs, <<"hub", m>> \in received'
          PROVE  <<"hub", m>> \in received \/ (l # "direct" /\ m \in ses[l].packet)
      BY <2>1, <3>2 DEF Transfer
    <3>3. \A k \in Tosses : got[k] \subseteq got'[k]
      BY <2>1, <3>1 DEF Transfer, Tosses, Lines
    <3>4. ASSUME l # "direct" PROVE l \in Tosses /\ ses[l].packet = got'[l]
      BY <3>1, <3>4 DEF Tosses, Lines
    <3>5. KeptOrCounted'
      <4>. SUFFICES ASSUME NEW m \in Msgs, <<"hub", m>> \in received'
                    PROVE  \/ m \in seen' \cup cut' \/ forgets'[m] > 0
                           \/ \E k \in Tosses : m \in got'[k]
                           \/ \E n \in 1 .. MaxHeld : m \in held'[n]
        BY DEF KeptOrCounted
      <4>1. UNCHANGED <<seen, forgets, held, cut>>
        BY <2>1 DEF Transfer
      <4>. QED  BY <3>2, <3>3, <3>4, <4>1 DEF HubInv, KeptOrCounted
    <3>. QED  BY <2>1, <3>5 DEF Transfer, HubInv, StoredIsSeen
  <2>2. ASSUME NEW l \in Tosses, NEW m \in Msgs, Toss(l, m) PROVE HubInv'
    <3>1. got' = [got EXCEPT ![l] = got[l] \ {m}] /\ UNCHANGED <<forgets, received>>
      BY <2>2 DEF Toss
    <3>2. \A k \in Tosses : got[k] \ {m} \subseteq got'[k]
      BY <3>1 DEF TypeOK
    <3>3. seen \subseteq seen' /\ cut \subseteq cut'
      BY <2>2 DEF Toss, Hold
    <3>4. \A n \in 1 .. MaxHeld : held[n] \subseteq held'[n]
      BY <2>2 DEF Toss, Hold, TypeOK
    <3>5. \/ m \in seen' \cup cut'
          \/ \E n \in 1 .. MaxHeld : m \in held'[n]
      BY <2>2 DEF Toss, IsDupe, Hold, TypeOK
    <3>6. KeptOrCounted'
      <4>. SUFFICES ASSUME NEW k \in Msgs, <<"hub", k>> \in received, k # m
                    PROVE  \/ k \in seen' \cup cut' \/ forgets'[k] > 0
                           \/ \E j \in Tosses : k \in got'[j]
                           \/ \E n \in 1 .. MaxHeld : k \in held'[n]
        BY <3>1, <3>5 DEF KeptOrCounted
      <4>. QED  BY <3>1, <3>2, <3>3, <3>4 DEF HubInv, KeptOrCounted
    <3>7. StoredIsSeen'
      BY <2>2 DEF Toss, IsDupe, HubInv, StoredIsSeen, TypeOK
    <3>. QED  BY <3>6, <3>7 DEF HubInv
  <2>3. ASSUME NEW n \in 1 .. MaxHeld, Release(n) PROVE HubInv'
    <3>1. got' = [got EXCEPT !["release"] = held[n]] /\ got["release"] = {}
      BY <2>3 DEF Release
    <3>2. (\A l \in Tosses : got[l] \subseteq got'[l]) /\ got'["release"] = held[n]
      BY <3>1 DEF TypeOK, Tosses
    <3>3. \A k \in 1 .. MaxHeld : k # n => held'[k] = held[k]
      BY <2>3 DEF Release, TypeOK
    <3>4. UNCHANGED <<received, seen, forgets, stored, cut>>
      BY <2>3 DEF Release
    <3>5. \A m \in held[n] : \E l \in Tosses : m \in got'[l]
      BY <3>2 DEF Tosses
    <3>6. ASSUME NEW m \in Msgs, NEW k \in 1 .. MaxHeld, m \in held[k]
          PROVE  \/ \E l \in Tosses : m \in got'[l]
                 \/ \E j \in 1 .. MaxHeld : m \in held'[j]
      BY <3>3, <3>5, <3>6
    <3>7. KeptOrCounted'
      BY <3>2, <3>4, <3>6 DEF HubInv, KeptOrCounted
    <3>. QED  BY <3>4, <3>7 DEF HubInv, StoredIsSeen
  <2>4. CASE CrashHub
    <3>1. \A l \in Tosses : got[l] \subseteq cut'
      BY <2>4 DEF CrashHub
    <3>. QED  BY <2>4, <3>1 DEF CrashHub, HubInv, StoredIsSeen, KeptOrCounted
  <2>5. CASE CrashHere
    BY <2>5, HubUntouched DEF CrashHere
  <2>6. ASSUME NEW m \in Msgs, NEW flavour \in {"normal", "crash", "hold"},
               NEW dest \in Remotes, Compose(m, flavour, dest)
        PROVE  HubInv'
    BY <2>6, HubUntouched DEF Compose
  <2>7. ASSUME Unlist \/ Report \/ ExpireHeld \/ Unroutable \/ ToUplink PROVE HubInv'
    BY <2>7, HubUntouched DEF Unlist, Report, ExpireHeld, Unroutable, ToUplink
  <2>8. ASSUME NEW l \in Lines,
               \/ Start(l) \/ CallFails(l) \/ Refuses(l)
               \/ Settle(l) \/ NoteFailedCrash(l)
        PROVE  HubInv'
    BY <2>8, HubUntouched DEF Start, CallFails, Refuses, Settle, NoteFailedCrash
  <2>9. CASE UNCHANGED vars
    BY <2>9, HubUntouched DEF vars
  <2>10. CASE PruneSeen
    <3>1. PICK S \in SUBSET {m \in seen : forgets[m] < MaxForgets} :
             /\ seen' = seen \ S
             /\ forgets' = [m \in Msgs |-> IF m \in S THEN forgets[m] + 1 ELSE forgets[m]]
      BY <2>10 DEF PruneSeen
    <3>2. UNCHANGED <<got, stored, held, received, cut>>
      BY <2>10 DEF PruneSeen
    <3>3. ASSUME NEW m \in Msgs
          PROVE  /\ forgets[m] \in Nat /\ stored[m] \in Nat
                 /\ m \in S => forgets'[m] = forgets[m] + 1
                 /\ m \notin S => forgets'[m] = forgets[m]
      <4>1. forgets[m] \in Nat /\ stored[m] \in Nat
        BY DEF TypeOK
      <4>. QED  BY <3>1, <4>1
    <3>4. ASSUME NEW m \in Msgs
          PROVE  /\ stored'[m] <= 1 + forgets'[m]
                 /\ m \notin seen' => stored'[m] <= forgets'[m]
      <4>n. /\ forgets[m] \in Nat /\ stored[m] \in Nat
            /\ m \in S => forgets'[m] = forgets[m] + 1
            /\ m \notin S => forgets'[m] = forgets[m]
        BY <3>3
      <4>1. stored'[m] = stored[m] /\ (m \in S => m \in seen)
        BY <3>1, <3>2
      <4>2. stored[m] <= 1 + forgets[m] /\ (m \notin seen => stored[m] <= forgets[m])
        BY DEF HubInv, StoredIsSeen
      <4>3. m \notin seen' => m \notin seen \/ m \in S
        BY <3>1
      <4>4. CASE m \in S
        BY <4>1, <4>2, <4>4, <4>n
      <4>5. CASE m \notin S
        BY <4>1, <4>2, <4>3, <4>5, <4>n
      <4>. QED  BY <4>4, <4>5
    <3>5. ASSUME NEW m \in Msgs, <<"hub", m>> \in received'
          PROVE  \/ m \in seen' \cup cut' \/ forgets'[m] > 0
                 \/ \E l \in Tosses : m \in got'[l]
                 \/ \E n \in 1 .. MaxHeld : m \in held'[n]
      <4>1. CASE m \in S
        <5>1. forgets[m] \in Nat /\ forgets'[m] = forgets[m] + 1
          BY <4>1, <3>3
        <5>. QED  BY <5>1
      <4>2. CASE m \notin S
        BY <4>2, <3>1, <3>2, <3>3, <3>5 DEF HubInv, KeptOrCounted
      <4>. QED  BY <4>1, <4>2
    <3>. QED  BY <3>4, <3>5 DEF HubInv, StoredIsSeen, KeptOrCounted
  <2>. QED  BY <2>1, <2>2, <2>3, <2>4, <2>5, <2>6, <2>7, <2>8, <2>9, <2>10
            DEF Next, CallEnds, After
<1>. QED  BY <1>1, <1>2, TypeCorrect, PTL DEF Spec

\* However often a message comes, on whichever line or from the held store,
\* it is stored at most once, and once more each time its MSGID was pruned
\* (the dupe check of tosser.py, prune_seen_msgids).
THEOREM HubStoresOnce == Spec => []StoredOnce
<1>1. HubInv => StoredOnce
  BY DEF HubInv, StoredIsSeen, StoredOnce
<1>. QED  BY <1>1, HubAlways, PTL

\* What comes whole to the hub is tossed, whether or not the hub remembers it
\* still, or held or counted, with any number of
\* messages, lines and crashes (tosser.py, the held store of queue.py).
THEOREM HubKeepsAll == Spec => []KeptOrCounted
<1>1. HubInv => KeptOrCounted
  BY DEF HubInv
<1>. QED  BY <1>1, HubAlways, PTL
-----------------------------------------------------------------------------
(* The queue and the sessions.  What mark_outbound_sent marks by id is what  *)
(* the packet held as long as no id is given twice, and an id is given twice *)
(* only when mail is queued after some was dropped.                          *)

Arrived(m) == \E r \in Remotes : <<r, m>> \in received
Gap == \E m \in composed : \A i \in Used : rows[i].m # m

OneRowEach == \A i, j \in Used : rows[i].m = rows[j].m => i = j
RowsComposed == \A i \in Used : rows[i].m \in composed
SessionRows == \A l \in Lines : \A i \in ses[l].ids \cap Used : rows[i].m \in ses[l].packet
IdsInUse == Gap \/ \A l \in Lines : ses[l].ids \subseteq Used
ConfirmedCame == \A l \in Lines : ses[l].confirmed => \A m \in ses[l].packet : Arrived(m)
LineInv ==
    /\ OneRowEach /\ RowsComposed /\ SessionRows /\ IdsInUse /\ ConfirmedCame
    /\ SentMeansReceived /\ NeverSilent

\* What a session that goes on, ends or begins nothing does to its line.
LineKept(l) ==
    \/ ses'[l].ids = {} /\ ~ses'[l].confirmed
    \/ /\ ses'[l].ids = ses[l].ids /\ ses'[l].packet = ses[l].packet
       /\ ses'[l].confirmed => ses[l].confirmed \/ \A m \in ses[l].packet : Arrived(m)'

\* All steps but Compose and Start.
Ordinary ==
    /\ composed' = composed
    /\ \A i \in Ids : Keeps(rows', i)
    /\ \A i \in Ids : rows'[i].status = "sent" =>
          rows[i].status = "sent" \/ \E l \in Lines : i \in ses[l].ids /\ ses[l].confirmed
    /\ \A i \in Pending : rows'[i].status = "none" => rows[i].m \in telling'
    /\ \A l \in Lines : LineKept(l)
    /\ received \subseteq received'
    /\ telling \cup told \cup cut \subseteq telling' \cup told' \cup cut'

LEMMA RowsUnchanged ==
    ASSUME TypeOK, UNCHANGED rows
    PROVE  /\ \A i \in Ids : Keeps(rows', i)
           /\ \A i \in Ids : rows'[i].status = "sent" => rows[i].status = "sent"
           /\ \A i \in Pending : rows'[i].status # "none"
BY DEF Keeps, Pending, Used

LEMMA DropShape ==
    ASSUME TypeOK, NEW f, NEW S \in SUBSET Pending, Drop(f, S),
           \A i \in Ids : Keeps(f, i) /\ f[i].status = rows[i].status
    PROVE  /\ \A i \in Ids : Keeps(rows', i)
           /\ \A i \in Ids : rows'[i].status = "sent" => rows[i].status = "sent"
           /\ \A i \in Pending : rows'[i].status = "none" => rows[i].m \in telling'
<1>1. \A i \in Ids : rows'[i] = IF i \in S THEN NoRow ELSE f[i]
  BY DEF Drop
<1>2. telling' = {rows[i].m : i \in S}
  BY DEF Drop
<1>3. \A i \in Pending : i \in Ids /\ rows[i].status = "pending"
  BY DEF Pending, Used
<1>4. NoRow.status = "none"
  BY DEF NoRow
<1>. QED  BY <1>1, <1>2, <1>3, <1>4 DEF Keeps

LEMMA LinesUnchanged ==
    ASSUME UNCHANGED ses
    PROVE  \A l \in Lines : LineKept(l)
BY DEF LineKept

LEMMA LineMoves ==
    ASSUME TypeOK, NEW l \in Lines, NEW r, Goes(l, r),
           \/ r = NoSession
           \/ /\ r.ids = ses[l].ids /\ r.packet = ses[l].packet
              /\ r.confirmed => ses[l].confirmed \/ \A m \in ses[l].packet : Arrived(m)'
    PROVE  \A k \in Lines : LineKept(k)
<1>1. \A k \in Lines : ses'[k] = IF k = l THEN r ELSE ses[k]
  BY DEF Goes, TypeOK
<1>. QED  BY <1>1 DEF LineKept, NoSession

LEMMA StepShape ==
    ASSUME TypeOK, [Next]_vars,
           ~(\E m \in Msgs, flavour \in {"normal", "crash", "hold"}, dest \in Remotes :
                Compose(m, flavour, dest)),
           ~(\E l \in Lines : Start(l))
    PROVE  Ordinary
<1>. USE FtnAssumption
<1>r. rows \in [Ids -> Row \cup {NoRow}]
  BY DEF TypeOK
<1>k. \A i \in Ids : Keeps(rows, i)
  BY DEF Keeps
<1>p. Pending \subseteq Ids
  BY DEF Pending, Used
<1>1. CASE Unlist
  BY <1>1, RowsUnchanged, LinesUnchanged DEF Unlist, Ordinary, remote
<1>2. CASE Report
  BY <1>2, RowsUnchanged, LinesUnchanged DEF Report, Ordinary, remote, queue
<1>3. CASE ExpireHeld
  <2>1. PICK S \in SUBSET {i \in Pending : rows[i].flavour = "hold"} : Drop(rows, S)
    BY <1>3 DEF ExpireHeld
  <2>2. S \in SUBSET Pending
    BY <2>1
  <2>3. /\ \A i \in Ids : Keeps(rows', i)
        /\ \A i \in Ids : rows'[i].status = "sent" => rows[i].status = "sent"
        /\ \A i \in Pending : rows'[i].status = "none" => rows[i].m \in telling'
    BY <2>1, <2>2, <1>k, DropShape
  <2>. QED  BY <1>3, <2>3, LinesUnchanged DEF ExpireHeld, LaneFree, Ordinary, remote
<1>4. CASE Unroutable
  <2>. DEFINE W == OldestFirst(Waiting("direct"))
              S == {i \in W : rows[i].flavour = "crash"}
  <2>1. S \in SUBSET Pending
    BY DEF OldestFirst, Waiting
  <2>2. Drop(Rerouted(W), S)
    BY <1>4 DEF Unroutable
  <2>3. \A i \in Ids : Keeps(Rerouted(W), i) /\ Rerouted(W)[i].status = rows[i].status
    BY <1>r, RowsKept
  <2>4. /\ \A i \in Ids : Keeps(rows', i)
        /\ \A i \in Ids : rows'[i].status = "sent" => rows[i].status = "sent"
        /\ \A i \in Pending : rows'[i].status = "none" => rows[i].m \in telling'
    <3>. HIDE DEF W, S
    <3>. QED  BY <2>1, <2>2, <2>3, DropShape
  <2>. QED  BY <1>4, <2>4, LinesUnchanged DEF Unroutable, LaneFree, Ordinary, remote
<1>5. ASSUME NEW l \in Lines, CallFails(l) PROVE Ordinary
  <2>1. \A k \in Lines : LineKept(k)
    <3>. DEFINE r == [ses[l] EXCEPT !.at = "settle", !.failed = TRUE]
    <3>1. Goes(l, r)
      BY <1>5 DEF CallFails
    <3>2. r.ids = ses[l].ids /\ r.packet = ses[l].packet /\ r.confirmed = ses[l].confirmed
      BY DEF TypeOK, Session
    <3>. HIDE DEF r
    <3>. QED  BY <3>1, <3>2, LineMoves
  <2>. QED  BY <1>5, <2>1, RowsUnchanged DEF CallFails, Ordinary, queue, remote
<1>6. ASSUME NEW l \in Lines, Transfer(l) PROVE Ordinary
  <2>1. \A m \in ses[l].packet : Arrived(m)'
    BY <1>6 DEF Transfer, Arrived, Remotes
  <2>2. PICK confirmed \in BOOLEAN, failed \in BOOLEAN :
           Goes(l, [ses[l] EXCEPT !.at = "settle", !.confirmed = confirmed, !.failed = failed])
    BY <1>6 DEF Transfer
  <2>3. \A k \in Lines : LineKept(k)
    <3>. DEFINE r == [ses[l] EXCEPT !.at = "settle", !.confirmed = confirmed, !.failed = failed]
    <3>1. Goes(l, r)
      BY <2>2
    <3>2. r.ids = ses[l].ids /\ r.packet = ses[l].packet
      BY DEF TypeOK, Session
    <3>. HIDE DEF r
    <3>. QED  BY <3>1, <3>2, <2>1, LineMoves
  <2>. QED  BY <1>6, <2>3, RowsUnchanged DEF Transfer, Ordinary, queue
<1>7. ASSUME NEW l \in Lines, Settle(l) PROVE Ordinary
  <2>1. rows' = Marked(rows, ses[l])
    BY <1>7 DEF Settle
  <2>2. /\ \A i \in Ids : Keeps(rows', i)
        /\ \A i \in Ids : rows'[i].status = "sent" =>
              rows[i].status = "sent" \/ (i \in ses[l].ids /\ ses[l].confirmed)
        /\ \A i \in Pending : rows'[i].status # "none"
    <3>1. ASSUME NEW i \in Ids
          PROVE  /\ Keeps(Marked(rows, ses[l]), i)
                 /\ Marked(rows, ses[l])[i].status = "sent" =>
                       rows[i].status = "sent" \/ (i \in ses[l].ids /\ ses[l].confirmed)
                 /\ Marked(rows, ses[l])[i].status = "none" => rows[i].status = "none"
      BY <1>r, RowsKept
    <3>. QED  BY <2>1, <3>1 DEF Pending, Used
  <2>3. \A k \in Lines : LineKept(k)
    <3>. DEFINE r == [ses[l] EXCEPT !.at = "count"]
    <3>1. Goes(l, r) \/ Goes(l, NoSession)
      BY <1>7 DEF Settle
    <3>2. r.ids = ses[l].ids /\ r.packet = ses[l].packet /\ r.confirmed = ses[l].confirmed
      BY DEF TypeOK, Session
    <3>. HIDE DEF r
    <3>. QED  BY <3>1, <3>2, LineMoves
  <2>4. composed' = composed /\ UNCHANGED <<telling, told, cut, received>>
    BY <1>7 DEF Settle, remote
  <2>. QED  BY <2>2, <2>3, <2>4 DEF Ordinary
<1>8. ASSUME NEW l \in Lines, NoteFailedCrash(l) PROVE Ordinary
  <2>. DEFINE f == Counted(ses[l].ids)
              S == {i \in Pending : f[i].flavour = "crash" /\ f[i].attempts >= CrashAttempts}
  <2>1. S \in SUBSET Pending
    OBVIOUS
  <2>2. Drop(f, S)
    BY <1>8 DEF NoteFailedCrash
  <2>3. \A i \in Ids : Keeps(f, i) /\ f[i].status = rows[i].status
    BY <1>r, RowsKept
  <2>4. /\ \A i \in Ids : Keeps(rows', i)
        /\ \A i \in Ids : rows'[i].status = "sent" => rows[i].status = "sent"
        /\ \A i \in Pending : rows'[i].status = "none" => rows[i].m \in telling'
    <3>. HIDE DEF f, S
    <3>. QED  BY <2>1, <2>2, <2>3, DropShape
  <2>5. \A k \in Lines : LineKept(k)
    <3>. DEFINE r == [ses[l] EXCEPT !.at = "reroute"]
    <3>1. Goes(l, r) \/ Goes(l, NoSession)
      BY <1>8 DEF NoteFailedCrash
    <3>2. r.ids = ses[l].ids /\ r.packet = ses[l].packet /\ r.confirmed = ses[l].confirmed
      BY DEF TypeOK, Session
    <3>. HIDE DEF r
    <3>. QED  BY <3>1, <3>2, LineMoves
  <2>6. telling = {} /\ composed' = composed /\ UNCHANGED <<told, cut, received>>
    BY <1>8 DEF NoteFailedCrash, LaneFree, remote
  <2>. QED  BY <2>4, <2>5, <2>6 DEF Ordinary
<1>9. CASE ToUplink
  <2>1. rows' = Rerouted(ses["direct"].ids)
    BY <1>9 DEF ToUplink
  <2>2. /\ \A i \in Ids : Keeps(rows', i)
        /\ \A i \in Ids : rows'[i].status = rows[i].status
    BY <2>1, <1>r, RowsKept
  <2>3. \A k \in Lines : LineKept(k)
    BY <1>9, LineMoves DEF ToUplink, Lines
  <2>4. \A i \in Pending : rows'[i].status # "none"
    BY <2>2 DEF Pending, Used
  <2>. QED  BY <1>9, <2>2, <2>3, <2>4 DEF ToUplink, Ordinary, remote
<1>10. ASSUME NEW l \in Tosses, NEW m \in Msgs, Toss(l, m) PROVE Ordinary
  <2>1. cut \subseteq cut'
    BY <1>10 DEF Toss, Hold
  <2>. QED  BY <1>10, <2>1, RowsUnchanged, LinesUnchanged DEF Toss, Ordinary, queue
<1>11. ASSUME NEW n \in 1 .. MaxHeld, Release(n) PROVE Ordinary
  BY <1>11, RowsUnchanged, LinesUnchanged DEF Release, Ordinary, queue
<1>12. CASE CrashHub
  BY <1>12, RowsUnchanged, LinesUnchanged DEF CrashHub, Ordinary, queue
<1>13. CASE CrashHere
  <2>1. \A l \in Lines : LineKept(l)
    BY <1>13 DEF CrashHere, LineKept, NoSession
  <2>. QED  BY <1>13, <2>1, RowsUnchanged DEF CrashHere, Ordinary, queue, remote
<1>15. ASSUME NEW l \in Lines, Refuses(l) PROVE Ordinary
  <2>1. \A k \in Lines : LineKept(k)
    <3>. DEFINE r == [ses[l] EXCEPT !.at = "settle"]
    <3>1. Goes(l, r)
      BY <1>15 DEF Refuses
    <3>2. r.ids = ses[l].ids /\ r.packet = ses[l].packet /\ r.confirmed = ses[l].confirmed
      BY DEF TypeOK, Session
    <3>. HIDE DEF r
    <3>. QED  BY <3>1, <3>2, LineMoves
  <2>. QED  BY <1>15, <2>1, RowsUnchanged DEF Refuses, Ordinary, queue, remote
<1>16. CASE PruneSeen
  BY <1>16, RowsUnchanged, LinesUnchanged DEF PruneSeen, Ordinary, queue
<1>14. CASE UNCHANGED vars
  BY <1>14, RowsUnchanged, LinesUnchanged DEF vars, queue, remote, Ordinary
<1>. QED  BY <1>1, <1>2, <1>3, <1>4, <1>5, <1>6, <1>7, <1>8, <1>9, <1>10, <1>11, <1>12,
             <1>13, <1>14, <1>15, <1>16 DEF Next, CallEnds, After

LEMMA OrdinaryKeeps ==
    ASSUME TypeOK, LineInv, Ordinary
    PROVE  LineInv'
<1>. USE DEF LineInv
<1>1. /\ Used' \subseteq Used /\ Used \subseteq Ids
      /\ \A i \in Used' : rows'[i].m = rows[i].m
      /\ \A i \in Used' : rows'[i].status \in {rows[i].status, "sent"}
  BY DEF Ordinary, Keeps, Used
<1>2. OneRowEach' /\ RowsComposed'
  BY <1>1 DEF Ordinary, OneRowEach, RowsComposed
<1>3. \A m \in Msgs : Arrived(m) => Arrived(m)'
  BY DEF Ordinary, Arrived
<1>m. \A l \in Lines : ses[l].packet \subseteq Msgs
  BY DEF TypeOK, Session
<1>4. SessionRows'
  BY <1>1 DEF SessionRows, Ordinary, LineKept
<1>5. ConfirmedCame'
  BY <1>3, <1>m DEF ConfirmedCame, Ordinary, LineKept
<1>6. Gap => Gap'
  BY <1>1 DEF Gap, Ordinary
<1>7. ASSUME NEW i \in Used, i \notin Used' PROVE Gap'
  <2>1. rows[i].m \in composed'
    BY <1>7 DEF RowsComposed, Ordinary
  <2>2. \A j \in Used' : rows'[j].m # rows[i].m
    BY <1>1, <1>7 DEF OneRowEach
  <2>. QED  BY <2>1, <2>2 DEF Gap
<1>8. IdsInUse'
  <2>. SUFFICES ASSUME ~Gap', NEW l \in Lines, NEW i \in ses'[l].ids PROVE i \in Used'
    BY DEF IdsInUse
  <2>1. i \in ses[l].ids
    BY DEF Ordinary, LineKept
  <2>. QED  BY <2>1, <1>6, <1>7 DEF IdsInUse
<1>9. SentMeansReceived'
  <2>. SUFFICES ASSUME NEW i \in Used', rows'[i].status = "sent" PROVE Arrived(rows[i].m)'
    BY DEF SentMeansReceived, Arrived
  <2>1. i \in Used /\ i \in Ids /\ rows'[i].m = rows[i].m /\ rows[i].m \in Msgs
    BY <1>1 DEF TypeOK, Used, Row, NoRow
  <2>2. CASE rows[i].status = "sent"
    BY <2>1, <2>2, <1>3 DEF SentMeansReceived, Arrived
  <2>3. ASSUME NEW l \in Lines, i \in ses[l].ids, ses[l].confirmed PROVE Arrived(rows[i].m)'
    BY <2>1, <2>3, <1>3 DEF SessionRows, ConfirmedCame
  <2>. QED  BY <2>1, <2>2, <2>3 DEF Ordinary
<1>10. NeverSilent'
  <2>. SUFFICES ASSUME NEW m \in composed
                PROVE  \/ \E i \in Pending' : rows'[i].m = m
                       \/ Arrived(m)'
                       \/ m \in telling' \cup told' \cup cut'
    BY DEF NeverSilent, Arrived, Ordinary
  <2>0. m \in Msgs
    BY DEF TypeOK
  <2>1. CASE Arrived(m)
    BY <2>0, <2>1, <1>3
  <2>2. CASE m \in telling \cup told \cup cut
    BY <2>2 DEF Ordinary
  <2>3. ASSUME NEW i \in Pending, rows[i].m = m
        PROVE  \/ \E j \in Pending' : rows'[j].m = m
               \/ Arrived(m)'
               \/ m \in telling' \cup told' \cup cut'
    <3>0. i \in Used /\ i \in Ids /\ rows[i].status = "pending"
      BY <2>3 DEF Pending, Used
    <3>1. CASE i \notin Used'
      <4>1. rows'[i].status = "none"
        BY <3>0, <3>1 DEF Used
      <4>. QED  BY <4>1, <2>3 DEF Ordinary
    <3>2. CASE i \in Used' /\ rows'[i].status = "sent"
      BY <3>2, <2>3, <1>1, <1>9 DEF SentMeansReceived, Arrived
    <3>3. CASE i \in Used' /\ rows'[i].status # "sent"
      BY <3>0, <3>3, <2>3, <1>1 DEF Pending
    <3>. QED  BY <3>1, <3>2, <3>3
  <2>. QED  BY <2>1, <2>2, <2>3 DEF NeverSilent, Arrived
<1>. QED  BY <1>2, <1>4, <1>5, <1>8, <1>9, <1>10

LEMMA ComposeKeeps ==
    ASSUME TypeOK, LineInv, ~QueueAfterDrop,
           NEW m \in Msgs, NEW flavour \in {"normal", "crash", "hold"}, NEW dest \in Remotes,
           Compose(m, flavour, dest)
    PROVE  LineInv'
<1>. USE DEF LineInv
<1>1. PICK n \in Ids :
         /\ IsNextId(n)
         /\ rows' = [rows EXCEPT ![n] =
                         [m |-> m, status |-> "pending", route |-> RouteOf(flavour, dest),
                          flavour |-> flavour, attempts |-> 0]]
  BY DEF Compose
<1>2. n \notin Used
  BY <1>1 DEF IsNextId, Used, Ids
<1>3. /\ rows'[n].m = m /\ rows'[n].status = "pending"
      /\ \A i \in Ids : i # n => rows'[i] = rows[i]
  BY <1>1 DEF TypeOK
<1>4. Used' = Used \cup {n} /\ Pending' = Pending \cup {n}
  BY <1>2, <1>3 DEF Used, Pending
<1>u. Used \subseteq Ids /\ Pending \subseteq Used
  BY DEF Used, Pending
<1>5. m \notin composed /\ composed' = composed \cup {m}
      /\ UNCHANGED <<ses, telling, told, cut, received>>
  BY DEF Compose, remote
<1>6. ~Gap
  BY DEF Compose, Gap
<1>7. \A l \in Lines : ses[l].ids \subseteq Used
  BY <1>6 DEF IdsInUse
<1>8. OneRowEach' /\ RowsComposed'
  BY <1>2, <1>3, <1>4, <1>5, <1>u DEF OneRowEach, RowsComposed
<1>9. SessionRows' /\ IdsInUse'
  BY <1>2, <1>3, <1>4, <1>5, <1>7, <1>u DEF SessionRows, IdsInUse
<1>10. ConfirmedCame'
  BY <1>5 DEF ConfirmedCame, Arrived
<1>11. SentMeansReceived'
  BY <1>2, <1>3, <1>4, <1>5, <1>u DEF SentMeansReceived
<1>12. NeverSilent'
  <2>1. \A i \in Pending : i \in Pending' /\ rows'[i].m = rows[i].m
    BY <1>2, <1>3, <1>4, <1>u
  <2>2. n \in Pending' /\ rows'[n].m = m
    BY <1>3, <1>4
  <2>. QED  BY <1>5, <2>1, <2>2 DEF NeverSilent
<1>. QED  BY <1>8, <1>9, <1>10, <1>11, <1>12

LEMMA StartKeeps ==
    ASSUME TypeOK, LineInv, NEW l \in Lines, Start(l)
    PROVE  LineInv'
<1>. USE DEF LineInv
<1>. DEFINE S == OldestFirst(Waiting(l))
<1>1. S \subseteq Used
  BY DEF OldestFirst, Waiting, Pending
<1>2. Goes(l, [NoSession EXCEPT !.at = "call", !.ids = S, !.packet = {rows[i].m : i \in S}])
  BY DEF Start
<1>. HIDE DEF S
<1>3. /\ ses'[l].ids = S /\ ses'[l].packet = {rows[i].m : i \in S} /\ ~ses'[l].confirmed
      /\ \A k \in Lines : k # l => ses'[k] = ses[k]
  BY <1>2 DEF Goes, TypeOK, NoSession
<1>4. UNCHANGED <<rows, composed, telling, told, cut, received>>
  BY DEF Start, queue, remote
<1>5. Used' = Used /\ Pending' = Pending /\ Gap' = Gap
  BY <1>4 DEF Used, Pending, Gap
<1>6. OneRowEach' /\ RowsComposed' /\ SentMeansReceived' /\ NeverSilent'
  BY <1>4, <1>5 DEF OneRowEach, RowsComposed, SentMeansReceived, NeverSilent
<1>7. SessionRows'
  BY <1>3, <1>4, <1>5 DEF SessionRows
<1>8. IdsInUse'
  BY <1>1, <1>3, <1>5 DEF IdsInUse
<1>9. ConfirmedCame'
  BY <1>3, <1>4 DEF ConfirmedCame, Arrived
<1>. QED  BY <1>6, <1>7, <1>8, <1>9

\* The queue's invariant, if no mail is queued once some was dropped, so that
\* SQLite gives no row id twice.
LEMMA LinesAlways ==
    ASSUME ~QueueAfterDrop
    PROVE  Spec => []LineInv
<1>1. Init => LineInv
  BY DEF Init, LineInv, OneRowEach, RowsComposed, SessionRows, IdsInUse, ConfirmedCame,
         SentMeansReceived, NeverSilent, Used, NoSession, NoRow
<1>2. TypeOK /\ LineInv /\ [Next]_vars => LineInv'
  BY OrdinaryKeeps, ComposeKeeps, StartKeeps, StepShape
<1>. QED  BY <1>1, <1>2, TypeCorrect, PTL DEF Spec

\* Unless a row id is given twice, mail marked sent has arrived (settle marks
\* by id).  With QueueAfterDrop the run FtnIdReuse refutes this.
THEOREM MarkedMailArrived ==
    ASSUME ~QueueAfterDrop
    PROVE  Spec => []SentMeansReceived
<1>1. LineInv => SentMeansReceived
  BY DEF LineInv
<1>. QED  BY <1>1, LinesAlways, PTL

\* Unless a row id is given twice, no mail disappears without a word: through
\* broken calls, re-routing, drops of every kind and crashes (outbound.py).
THEOREM NoMailForgotten ==
    ASSUME ~QueueAfterDrop
    PROVE  Spec => []NeverSilent
<1>1. LineInv => NeverSilent
  BY DEF LineInv
<1>. QED  BY <1>1, LinesAlways, PTL
=============================================================================

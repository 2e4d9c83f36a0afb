-------------------------- MODULE WorkItems_proofs --------------------------
(* What the statements of WorkItems leave behind, for every limit. *)
EXTENDS WorkItems, TLAPS

(* _backoff_seconds never exceeds its cap. *)
LEMMA BackoffBounded ==
    ASSUME NEW n \in Nat
    PROVE  BackoffSeconds(n) \in 0 .. MaxBackoff
  BY NumbersAssumption DEF BackoffSeconds

(* Every UPDATE of link_work_items leaves a well-formed row, and an item
   that is still to be tried has attempts left. *)
LEMMA WorkItemRowTypes ==
    ASSUME NEW row \in Item, NEW s, NEW why \in ItemError,
           s.attempts \in 0 .. MaxAttempts - 1, s.age \in Int
    PROVE  /\ FailedRow(row, s, why) \in Item
           /\ FailedRow(row, s, why).status \in Unresolved =>
                 FailedRow(row, s, why).attempts < MaxAttempts
           /\ PushedRow(row) \in Item
           /\ PushedRow(row).status \notin Unresolved
           /\ CancelledRow(row) \in Item
           /\ CancelledRow(row).status \notin Unresolved
           /\ ReplayedRow(row) \in Item
           /\ ReplayedRow(row).attempts < MaxAttempts
           /\ NoItem \in Item
           /\ NoItem.status \notin Unresolved
  <1> USE NumbersAssumption DEF Item, ItemStatus, Unresolved
  <1>1. /\ s.attempts \in 0 .. MaxAttempts - 1
        /\ s.age \in Int
    OBVIOUS
  <1>2. BackoffSeconds(s.attempts + 1) \in 0 .. MaxBackoff
    BY <1>1, BackoffBounded
  <1>3. /\ FailedRow(row, s, why) \in Item
        /\ FailedRow(row, s, why).status \in Unresolved =>
              FailedRow(row, s, why).attempts < MaxAttempts
    <2> DEFINE n == s.attempts + 1
    <2> DEFINE w == BackoffSeconds(n)
    <2>1. n \in 0 .. MaxAttempts /\ w \in 0 .. MaxBackoff
      BY <1>1, <1>2
    <2>2. CASE GivesUp(s)
      <3>1. FailedRow(row, s, why) =
               [row EXCEPT !.status = "dead_lettered", !.attempts = n,
                           !.error = why]
        BY <2>2 DEF FailedRow
      <3> HIDE DEF n
      <3>2. FailedRow(row, s, why) \in Item
        BY <2>1, <3>1
      <3>3. FailedRow(row, s, why).status = "dead_lettered"
        BY <3>1
      <3> QED BY <3>2, <3>3
    <2>3. CASE ~GivesUp(s)
      <3>1. FailedRow(row, s, why) =
               [row EXCEPT !.status = "retrying", !.attempts = n,
                           !.error = why, !.wait = w]
        BY <2>3 DEF FailedRow
      <3>2. n < MaxAttempts
        BY <1>1, <2>3 DEF GivesUp
      <3> HIDE DEF n, w
      <3>3. FailedRow(row, s, why) \in Item
        BY <2>1, <3>1
      <3>4. FailedRow(row, s, why).attempts = n
        BY <3>1
      <3> QED BY <3>2, <3>3, <3>4
    <2> QED BY <2>2, <2>3
  <1>4. PushedRow(row) \in Item /\ PushedRow(row).status \notin Unresolved
    BY DEF PushedRow
  <1>5. CancelledRow(row) \in Item /\ CancelledRow(row).status \notin Unresolved
    BY DEF CancelledRow
  <1>6. ReplayedRow(row) \in Item /\ ReplayedRow(row).attempts < MaxAttempts
    <2>1. /\ 0 \in 0 .. MaxAttempts /\ 0 \in 0 .. MaxBackoff
          /\ 0 \in 0 .. MaxAge + 1 /\ 0 < MaxAttempts
      OBVIOUS
    <2>2. ReplayedRow(row) \in Item
      BY <2>1 DEF ReplayedRow, ItemError
    <2>3. ReplayedRow(row).attempts = 0
      BY DEF ReplayedRow
    <2> QED BY <2>1, <2>2, <2>3
  <1>7. NoItem \in Item /\ NoItem.status \notin Unresolved
    BY DEF NoItem, ItemError
  <1> QED BY <1>3, <1>4, <1>5, <1>6, <1>7

(* Neither time nor a wake-up changes whose turn it is: the row keeps its
   id, its status and its count of attempts. *)
LEMMA WaitingRowTypes ==
    ASSUME NEW row \in Item
    PROVE  /\ WokenRow(row) \in Item
           /\ WokenRow(row).id = row.id
           /\ WokenRow(row).status = row.status
           /\ WokenRow(row).attempts = row.attempts
           /\ AgedRow(row) \in Item
           /\ AgedRow(row).id = row.id
           /\ AgedRow(row).status = row.status
           /\ AgedRow(row).attempts = row.attempts
  <1>1. /\ 0 \in 0 .. MaxBackoff
        /\ (IF row.wait > 0 THEN row.wait - 1 ELSE 0) \in 0 .. MaxBackoff
        /\ Older(row.age, MaxAge + 1) \in 0 .. MaxAge + 1
    BY NumbersAssumption DEF Item, Older
  <1>2. /\ WokenRow(row) \in Item
        /\ WokenRow(row).id = row.id
        /\ WokenRow(row).status = row.status
        /\ WokenRow(row).attempts = row.attempts
    BY <1>1 DEF WokenRow, Item
  <1>3. /\ AgedRow(row) \in Item
        /\ AgedRow(row).id = row.id
        /\ AgedRow(row).status = row.status
        /\ AgedRow(row).attempts = row.attempts
    BY <1>1 DEF AgedRow, Item
  <1> QED BY <1>2, <1>3

=============================================================================

----------------------------- MODULE WorkItems -----------------------------
(***************************************************************************)
(* The rows of link_work_items (netbbs.link.work_items): what each         *)
(* statement of that module leaves behind.  The rows' owners, LinkOutbox   *)
(* for letters and LinkInbox for answers, hold them as state.              *)
(*                                                                         *)
(* next_attempt_at is kept as the time still to wait and created_at as the *)
(* row's age; an age past MaxAge is not told apart from MaxAge + 1.        *)
(***************************************************************************)
EXTENDS Integers

CONSTANTS
    MaxAttempts,        \* _MAX_ATTEMPTS
    InitialBackoff,     \* _INITIAL_BACKOFF_SECONDS
    MaxBackoff,         \* _MAX_BACKOFF_SECONDS
    MaxAge,             \* _MAX_AGE_SECONDS
    MaxRowId            \* bound: largest rowid of link_work_items

ASSUME NumbersAssumption ==
    /\ MaxAttempts \in Nat \ {0}
    /\ InitialBackoff \in Nat
    /\ MaxBackoff \in Nat
    /\ MaxAge \in Nat
    /\ MaxRowId \in Nat \ {0}

(* "absent" stands for no row. *)
ItemStatus == {"absent", "pending", "retrying", "pushed", "dead_lettered",
               "cancelled"}
Unresolved == {"pending", "retrying"}
GivenUp == {"dead_lettered", "cancelled"}
ItemError == {"none", "policy", "route"}
Item == [id       : 0 .. MaxRowId,
         status   : ItemStatus,
         attempts : 0 .. MaxAttempts,
         wait     : 0 .. MaxBackoff,
         age      : 0 .. MaxAge + 1,
         error    : ItemError]

NoItem == [id |-> 0, status |-> "absent", attempts |-> 0, wait |-> 0,
           age |-> 0, error |-> "none"]

-----------------------------------------------------------------------------
(* load_due_work_items: WHERE status IN ('pending', 'retrying') AND
   next_attempt_at <= now *)
IsDue(row) == row.status \in Unresolved /\ row.wait = 0

(* wake_work_items_for_target, for one row of that target *)
WokenRow(row) ==
    IF row.status \in Unresolved /\ row.error = "policy"
    THEN [row EXCEPT !.wait = 0]
    ELSE row

(* _backoff_seconds: min(initial * 2^attempts, max) *)
BackoffSeconds(attempts) ==
    LET doubled == InitialBackoff * 2^attempts
    IN  IF doubled \in 0 .. MaxBackoff THEN doubled ELSE MaxBackoff

(* record_failure's verdict, from the row as the loop loaded it *)
GivesUp(snapshot) ==
    \/ snapshot.attempts + 1 >= MaxAttempts
    \/ snapshot.age > MaxAge

(* Mutant: the failed attempt is not counted. *)
FailedRowUncounted(row, snapshot, why) ==
    [row EXCEPT !.status = "retrying", !.error = why,
                !.wait = BackoffSeconds(snapshot.attempts + 1)]

FailedRow(row, snapshot, why) ==
    IF GivesUp(snapshot)
    THEN [row EXCEPT !.status = "dead_lettered",
                     !.attempts = snapshot.attempts + 1, !.error = why]
    ELSE [row EXCEPT !.status = "retrying",
                     !.attempts = snapshot.attempts + 1, !.error = why,
                     !.wait = BackoffSeconds(snapshot.attempts + 1)]

(* enqueue_work_item_without_commit: due at once *)
NewItem(n) == [id |-> n, status |-> "pending", attempts |-> 0, wait |-> 0,
               age |-> 0, error |-> "none"]

PushedRow(row) == [row EXCEPT !.status = "pushed"]
CancelledRow(row) == [row EXCEPT !.status = "cancelled"]
ReplayedRow(row) ==
    [row EXCEPT !.status = "pending", !.attempts = 0, !.wait = 0, !.age = 0,
                !.error = "none"]

Older(t, cap) == IF t < cap THEN t + 1 ELSE t

(* One unit of time passes for a row. *)
AgedRow(row) ==
    [row EXCEPT !.wait = IF @ > 0 THEN @ - 1 ELSE 0,
                !.age = Older(@, MaxAge + 1)]

=============================================================================

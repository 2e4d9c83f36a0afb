---------------------------- MODULE DatabaseLane ----------------------------
(***************************************************************************)
(* The database execution lanes of storage/execution.py: each lane is one   *)
(* worker thread with one SQLite connection, a bounded semaphore in front   *)
(* of it and an executor queue behind the semaphore.  Coroutines on the     *)
(* event loop call DatabaseLane.run; a caller may be cancelled at any       *)
(* await, and close() blocks the event loop while it drains the lane.       *)
(*                                                                          *)
(* A job is one call of run, so it enters the lane once.  What the job's    *)
(* function does to the database is reduced to what the lane must clean up  *)
(* after: it may open a transaction, write, commit, return or raise at any  *)
(* point.  All lanes share one database file and so one write lock.         *)
(***************************************************************************)
EXTENDS Naturals, Sequences, FiniteSets

CONSTANTS
    Lanes,       \* the lanes of the process
    Jobs,        \* the calls of DatabaseLane.run
    Plans,       \* which lane each of them is made on: one function each
    MaxQueued,   \* max_queued: slots of a lane's semaphore
    MaxWrites,   \* bound: writes one job makes
    Strict       \* STRICT_TRANSACTIONS

None == "none"       \* no job, no lane
CloseItem == "close" \* the work item that closes the connection

ASSUME LaneAssumption ==
    /\ MaxQueued \in Nat \ {0}
    /\ MaxWrites \in Nat
    /\ Strict \in BOOLEAN
    /\ None \notin Jobs \cup Lanes
    /\ CloseItem \notin Jobs
    /\ IsFiniteSet(Jobs)
    /\ Plans \subseteq [Jobs -> Lanes]

VARIABLES
    call,      \* call[j]: where the coroutine that called run for j stands
    laneOf,    \* laneOf[j]: the lane it calls
    outcome,   \* outcome[j]: what its caller got
    slots,     \* slots[l]: the semaphore's value
    waiters,   \* waiters[l]: coroutines waiting for a slot, in order
    queue,     \* queue[l]: the executor's queue
    fut,       \* fut[j]: the executor's future of j
    running,   \* running[l]: the job on the worker thread
    writes,    \* writes[j]: how often j wrote
    db,        \* db[l]: the lane's connection
    tx,        \* tx[l]: the connection's transaction
    dirty,     \* dirty[l]: jobs whose writes are in that transaction
    blocked,   \* the lane whose close() blocks the event loop
    shut,      \* shut[l]: the executor was shut down
    stray      \* history: jobs whose writes another job decided about

callVars == <<call, laneOf, outcome>>
semVars  == <<slots, waiters>>
poolVars == <<queue, fut, running>>
dbVars   == <<writes, db, tx, dirty, stray>>
vars == <<callVars, semVars, poolVars, dbVars, blocked, shut>>

CallStates == {"idle", "waiting", "granted", "submitted", "done"}
Outcomes == {"none", "busy", "closed", "cancelled", "result", "error"}
FutStates == {"none", "pending", "cancelled", "running", "result", "error"}

TypeOK ==
    /\ call \in [Jobs -> CallStates]
    /\ laneOf \in [Jobs -> Lanes]
    /\ outcome \in [Jobs -> Outcomes]
    /\ slots \in [Lanes -> 0..MaxQueued]
    /\ waiters \in [Lanes -> Seq(Jobs)]
    /\ queue \in [Lanes -> Seq(Jobs \cup {CloseItem})]
    /\ fut \in [Jobs -> FutStates]
    /\ running \in [Lanes -> Jobs \cup {None}]
    /\ writes \in [Jobs -> 0..MaxWrites]
    /\ db \in [Lanes -> {"none", "open", "closed"}]
    /\ tx \in [Lanes -> {"none", "begun", "writing"}]
    /\ dirty \in [Lanes -> SUBSET Jobs]
    /\ blocked \in Lanes \cup {None}
    /\ shut \in [Lanes -> BOOLEAN]
    /\ stray \in SUBSET Jobs

Init ==
    /\ call = [j \in Jobs |-> "idle"]
    /\ laneOf \in Plans
    /\ outcome = [j \in Jobs |-> "none"]
    /\ slots = [l \in Lanes |-> MaxQueued]
    /\ waiters = [l \in Lanes |-> <<>>]
    /\ queue = [l \in Lanes |-> <<>>]
    /\ fut = [j \in Jobs |-> "none"]
    /\ running = [l \in Lanes |-> None]
    /\ writes = [j \in Jobs |-> 0]
    /\ db = [l \in Lanes |-> "none"]
    /\ tx = [l \in Lanes |-> "none"]
    /\ dirty = [l \in Lanes |-> {}]
    /\ blocked = None
    /\ shut = [l \in Lanes |-> FALSE]
    /\ stray = {}

-----------------------------------------------------------------------------
(* The semaphore (asyncio.Semaphore, external): a slot that is released     *)
(* goes to the first waiter, and a newcomer waits behind anybody who waits  *)
(* or was given a slot and has not resumed yet.                             *)

Locked(l) ==
    \/ slots[l] = 0
    \/ \E j \in Jobs : laneOf[j] = l /\ call[j] \in {"waiting", "granted"}

Smaller(a, b) == IF a < b THEN a ELSE b

\* With free slots on lane l, up to most of them go to those who wait
\* longest; c is what call becomes besides.
HandOn(l, free, most, c) ==
    LET n == Smaller(Smaller(free, most), Len(waiters[l]))
        woken == {waiters[l][i] : i \in 1 .. n}
    IN  /\ slots' = [slots EXCEPT ![l] = free - n]
        /\ waiters' = [waiters EXCEPT ![l] = SubSeq(@, n + 1, Len(@))]
        /\ call' = [k \in Jobs |-> IF k \in woken THEN "granted" ELSE c[k]]

\* A release wakes one waiter.  A caller that resumes with a slot it was
\* given wakes everyone there is a slot for, since newcomers wait behind it.
Wakes(j, l) == IF call[j] = "granted" THEN slots[l] + 1 ELSE 1

\* Mutant: a slot is given back without waking who waits for it.
ReleaseWithoutWake(j, l, o) ==
    /\ outcome' = [outcome EXCEPT ![j] = o]
    /\ HandOn(l, slots[l] + 1, 0, [call EXCEPT ![j] = "done"])

\* Mutant: the caller ends and takes its slot with it.
KeepSlot(j, l, o) ==
    /\ outcome' = [outcome EXCEPT ![j] = o]
    /\ call' = [call EXCEPT ![j] = "done"]
    /\ UNCHANGED <<slots, waiters>>

\* The coroutine of j ends with outcome o and gives its slot of lane l back.
ReleaseSlot(j, l, o) ==
    /\ outcome' = [outcome EXCEPT ![j] = o]
    /\ HandOn(l, slots[l] + 1, Wakes(j, l), [call EXCEPT ![j] = "done"])

-----------------------------------------------------------------------------
(* The event loop.  None of these run while a close() blocks it.            *)

\* run, with block_if_busy = FALSE and no slot free: LaneBusyError.
RefuseBusy(j) ==
    /\ blocked = None
    /\ call[j] = "idle"
    /\ Locked(laneOf[j])
    /\ call' = [call EXCEPT ![j] = "done"]
    /\ outcome' = [outcome EXCEPT ![j] = "busy"]
    /\ UNCHANGED <<laneOf, semVars, poolVars, dbVars, blocked, shut>>

\* run, waiting for a slot.
AwaitSlot(j) ==
    /\ blocked = None
    /\ call[j] = "idle"
    /\ Locked(laneOf[j])
    /\ call' = [call EXCEPT ![j] = "waiting"]
    /\ waiters' = [waiters EXCEPT ![laneOf[j]] = Append(@, j)]
    /\ UNCHANGED <<laneOf, outcome, slots, poolVars, dbVars, blocked, shut>>

\* run, with a slot free: it is taken and the job submitted without an await
\* in between.  After shutdown() run_in_executor raises and the slot is free
\* again.
TakeSlotAndSubmit(j) ==
    /\ blocked = None
    /\ call[j] = "idle"
    /\ ~Locked(laneOf[j])
    /\ \/ /\ ~shut[laneOf[j]]
          /\ slots' = [slots EXCEPT ![laneOf[j]] = @ - 1]
          /\ call' = [call EXCEPT ![j] = "submitted"]
          /\ queue' = [queue EXCEPT ![laneOf[j]] = Append(@, j)]
          /\ fut' = [fut EXCEPT ![j] = "pending"]
          /\ UNCHANGED <<outcome, running>>
       \/ /\ shut[laneOf[j]]
          /\ call' = [call EXCEPT ![j] = "done"]
          /\ outcome' = [outcome EXCEPT ![j] = "closed"]
          /\ UNCHANGED <<slots, poolVars>>
    /\ UNCHANGED <<laneOf, waiters, dbVars, blocked, shut>>

\* The caller that was given a slot resumes and submits its job.
SubmitGranted(j) ==
    /\ blocked = None
    /\ call[j] = "granted"
    /\ \/ /\ ~shut[laneOf[j]]
          /\ HandOn(laneOf[j], slots[laneOf[j]], slots[laneOf[j]], [call EXCEPT ![j] = "submitted"])
          /\ queue' = [queue EXCEPT ![laneOf[j]] = Append(@, j)]
          /\ fut' = [fut EXCEPT ![j] = "pending"]
          /\ UNCHANGED <<outcome, running>>
       \/ /\ shut[laneOf[j]]
          /\ ReleaseSlot(j, laneOf[j], "closed")
          /\ UNCHANGED poolVars
    /\ UNCHANGED <<laneOf, dbVars, blocked, shut>>

\* The caller is cancelled while it waits for a slot.
CancelWaiting(j) ==
    /\ blocked = None
    /\ call[j] = "waiting"
    /\ call' = [call EXCEPT ![j] = "done"]
    /\ outcome' = [outcome EXCEPT ![j] = "cancelled"]
    /\ \E i \in 1 .. Len(waiters[laneOf[j]]) :
          /\ waiters[laneOf[j]][i] = j
          /\ waiters' = [waiters EXCEPT ![laneOf[j]] =
                            SubSeq(@, 1, i - 1) \o SubSeq(@, i + 1, Len(@))]
    /\ UNCHANGED <<laneOf, slots, poolVars, dbVars, blocked, shut>>

\* Mutant: the executor's future is not cancelled with the awaited one.
FutureLeftAlone(f) == f

\* What cancelling the awaited future does to the executor's: a job not yet
\* started is cancelled with it, one that runs or has run is left alone.
CancelledFuture(f) == IF f = "pending" THEN "cancelled" ELSE f

\* The caller is cancelled after it got its slot, before or after it
\* submitted its job.
CancelHolding(j) ==
    /\ blocked = None
    /\ call[j] \in {"granted", "submitted"}
    /\ fut' = [fut EXCEPT ![j] = CancelledFuture(@)]
    /\ ReleaseSlot(j, laneOf[j], "cancelled")
    /\ UNCHANGED <<laneOf, queue, running, dbVars, blocked, shut>>

\* The job is over and its caller resumes with its result or error.
Resume(j) ==
    /\ blocked = None
    /\ call[j] = "submitted"
    /\ fut[j] \in {"result", "error"}
    /\ ReleaseSlot(j, laneOf[j], fut[j])
    /\ UNCHANGED <<laneOf, poolVars, dbVars, blocked, shut>>

\* close(): the connection's close is queued as one more job if the lane has
\* a connection by now; the event loop blocks from here to CloseEnd.
CloseBegin(l) ==
    /\ blocked = None
    /\ ~shut[l]
    /\ blocked' = l
    /\ queue' = [queue EXCEPT ![l] = IF db[l] = "open" THEN Append(@, CloseItem) ELSE @]
    /\ UNCHANGED <<callVars, semVars, fut, running, dbVars, shut>>

\* Mutant: close() does not wait for the worker thread.
CloseNow(l) ==
    /\ blocked = l
    /\ blocked' = None
    /\ shut' = [shut EXCEPT ![l] = TRUE]
    /\ UNCHANGED <<callVars, semVars, poolVars, dbVars>>

\* shutdown(wait=True): the queue is drained first.
CloseEnd(l) ==
    /\ blocked = l
    /\ queue[l] = <<>>
    /\ running[l] = None
    /\ blocked' = None
    /\ shut' = [shut EXCEPT ![l] = TRUE]
    /\ UNCHANGED <<callVars, semVars, poolVars, dbVars>>

-----------------------------------------------------------------------------
(* The worker thread of lane l.                                             *)

\* The executor takes the next job; a cancelled one is dropped.
StartJob(l) ==
    /\ running[l] = None
    /\ queue[l] # <<>>
    /\ Head(queue[l]) \in Jobs
    /\ queue' = [queue EXCEPT ![l] = Tail(@)]
    /\ LET j == Head(queue[l]) IN
       \/ /\ fut[j] = "cancelled"
          /\ UNCHANGED <<fut, running>>
       \/ /\ fut[j] = "pending"
          /\ fut' = [fut EXCEPT ![j] = "running"]
          /\ running' = [running EXCEPT ![l] = j]
    /\ UNCHANGED <<callVars, semVars, dbVars, blocked, shut>>

\* _ensure_db: the first job opens the connection; an error ends the job.
OpenConnection(l) ==
    /\ running[l] \in Jobs
    /\ db[l] = "none"
    /\ \/ /\ db' = [db EXCEPT ![l] = "open"]
          /\ UNCHANGED <<fut, running>>
       \/ /\ fut' = [fut EXCEPT ![running[l]] = "error"]
          /\ running' = [running EXCEPT ![l] = None]
          /\ UNCHANGED db
    /\ UNCHANGED <<callVars, semVars, queue, writes, tx, dirty, stray, blocked, shut>>

\* The queued Database.close.
RunClose(l) ==
    /\ running[l] = None
    /\ queue[l] # <<>>
    /\ Head(queue[l]) = CloseItem
    /\ queue' = [queue EXCEPT ![l] = Tail(@)]
    /\ db' = [db EXCEPT ![l] = "closed"]
    /\ UNCHANGED <<callVars, semVars, fut, running, writes, tx, dirty, stray, blocked, shut>>

\* The job's function runs, on the connection _ensure_db returned.
InFunction(l) == running[l] \in Jobs /\ db[l] = "open"

\* SQLite (external): one connection at a time holds the write lock.
LockFree(l) == \A k \in Lanes \ {l} : tx[k] # "writing"

\* The job writes: an implicit BEGIN, then the write lock.  When another
\* lane keeps the lock past the busy timeout the transaction stays begun and
\* the statement raises; the job may still go on.
JobWrite(l) ==
    /\ InFunction(l)
    /\ writes[running[l]] < MaxWrites
    /\ writes' = [writes EXCEPT ![running[l]] = @ + 1]
    /\ \/ /\ LockFree(l)
          /\ tx' = [tx EXCEPT ![l] = "writing"]
          /\ dirty' = [dirty EXCEPT ![l] = @ \cup {running[l]}]
       \/ /\ ~LockFree(l)
          /\ tx' = [tx EXCEPT ![l] = "begun"]
          /\ UNCHANGED dirty
    /\ UNCHANGED <<callVars, semVars, poolVars, db, stray, blocked, shut>>

\* COMMIT or ROLLBACK on lane l while job j runs: the transaction ends, and
\* history notes whose writes j decided about besides its own.
EndTransaction(l, j) ==
    /\ tx' = [tx EXCEPT ![l] = "none"]
    /\ dirty' = [dirty EXCEPT ![l] = {}]
    /\ stray' = stray \cup (dirty[l] \ {j})

\* The job commits by itself.
JobCommit(l) ==
    /\ InFunction(l)
    /\ tx[l] # "none"
    /\ EndTransaction(l, running[l])
    /\ UNCHANGED <<callVars, semVars, poolVars, writes, db, blocked, shut>>

\* Mutant: a job that failed halfway leaves its transaction to the next.
LeaveOpen(l, j) == UNCHANGED <<tx, dirty, stray>>

\* What _run_job leaves of the transaction when the job is over.
CleanUp(l, j) == EndTransaction(l, j)

\* _run_job: the function returned.  A transaction it left open is committed,
\* or rolled back and reported as an error in strict mode.
JobReturn(l) ==
    /\ InFunction(l)
    /\ LET leaked == tx[l] # "none" IN
       fut' = [fut EXCEPT ![running[l]] = IF leaked /\ Strict THEN "error" ELSE "result"]
    /\ CleanUp(l, running[l])
    /\ running' = [running EXCEPT ![l] = None]
    /\ UNCHANGED <<callVars, semVars, queue, writes, db, blocked, shut>>

\* _run_job: the function raised; an open transaction is rolled back.
JobRaise(l) ==
    /\ InFunction(l)
    /\ fut' = [fut EXCEPT ![running[l]] = "error"]
    /\ CleanUp(l, running[l])
    /\ running' = [running EXCEPT ![l] = None]
    /\ UNCHANGED <<callVars, semVars, queue, writes, db, blocked, shut>>

Worker(l) ==
    \/ StartJob(l) \/ OpenConnection(l) \/ RunClose(l)
    \/ JobWrite(l) \/ JobCommit(l) \/ JobReturn(l) \/ JobRaise(l)

Next ==
    \/ \E j \in Jobs :
          RefuseBusy(j) \/ AwaitSlot(j) \/ TakeSlotAndSubmit(j)
    \/ \E j \in Jobs :
          SubmitGranted(j) \/ CancelWaiting(j) \/ CancelHolding(j) \/ Resume(j)
    \/ \E l \in Lanes : CloseBegin(l) \/ CloseEnd(l) \/ Worker(l)

Spec == Init /\ [][Next]_vars

\* The event loop resumes what is ready, and a worker thread takes its jobs
\* and ends them; nobody has to call, cancel or close.
Fairness ==
    /\ \A j \in Jobs : WF_vars(SubmitGranted(j)) /\ WF_vars(Resume(j))
    /\ \A l \in Lanes :
          /\ WF_vars(StartJob(l)) /\ WF_vars(OpenConnection(l)) /\ WF_vars(RunClose(l)) /\ WF_vars(CloseEnd(l))
          /\ WF_vars(JobReturn(l) \/ JobRaise(l))

FairSpec == Spec /\ Fairness

-----------------------------------------------------------------------------
(* Properties.                                                              *)

\* Between two jobs a lane's connection has no transaction open, so it holds
\* neither the write lock nor somebody's uncommitted writes (issue #1059,
\* execution.py): whatever mixture of failed, leaking and cancelled jobs ran.
NothingLeftOpen ==
    \A l \in Lanes : running[l] = None => tx[l] = "none" /\ dirty[l] = {}

\* No job's commit publishes, and no job's rollback throws away, what an
\* earlier job on the same connection wrote: _run_job settles each job's
\* transaction before the next one begins.
OwnWritesOnly == stray = {}

\* A caller never waits while a slot of its lane is free, but behind one who
\* was given a slot and is about to resume: a slot released by a result, an
\* error, a cancelled caller or a closed executor is handed on.
NoIdleSlot ==
    \A l \in Lanes :
        waiters[l] # <<>> /\ slots[l] > 0 => \E j \in Jobs : laneOf[j] = l /\ call[j] = "granted"

\* The work a lane still has to do.
LiveJobs(l) == {j \in Jobs : laneOf[j] = l /\ fut[j] \in {"pending", "running"}}

\* Cancelled callers free their slots while their job may still run, and new
\* jobs take those slots: the work in a lane exceeds max_queued by the job
\* on the worker thread at most.
LoadBounded ==
    \A l \in Lanes : Cardinality(LiveJobs(l)) <= MaxQueued + 1

\* close() abandons nothing: when the lane is shut, everything submitted has
\* run or was cancelled, and the connection holds no lock.
ShutIsQuiet ==
    \A l \in Lanes : shut[l] => LiveJobs(l) = {} /\ tx[l] = "none"

\* A job whose caller was cancelled before the worker took it never starts.
CancelledNeverStarts ==
    [][\A j \in Jobs : outcome[j] = "cancelled" /\ fut[j] # "running" => fut'[j] # "running"]_vars

\* Every call of run ends, whatever is cancelled or closed meanwhile, and a
\* close() that has begun ends.
EveryCallEnds ==
    /\ \A j \in Jobs : call[j] # "idle" ~> call[j] = "done"
    /\ \A l \in Lanes : blocked = l ~> shut[l]
=============================================================================

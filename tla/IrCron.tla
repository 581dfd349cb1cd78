------------------------------- MODULE IrCron -------------------------------
(***************************************************************************)
(* The scheduler (src/odoo/addons/base/models/ir_cron.py): several workers *)
(* poll the table of jobs, acquire one job after another, run it and plan  *)
(* its next call, while users edit jobs and trigger them.                  *)
(*                                                                         *)
(* A worker polls and acquires in one REPEATABLE READ transaction (the     *)
(* cursor cron_cr) that ends with the job; the job itself runs and commits *)
(* in another.  A job acquired by a worker is locked; a job whose row was  *)
(* updated since the snapshot of the worker cannot be locked any more.     *)
(* Workers may die, or drop what they do on an error, at any moment.       *)
(***************************************************************************)
EXTENDS Integers, FiniteSets

CONSTANTS
  Worker,       \* cron threads or processes
  Nobody,       \* owner of a free row lock, or the job of a worker that has none
  Job,          \* rows of ir_cron
  Interval,     \* interval_number of each job at first, in steps of the clock
  DoAll,        \* jobs whose missed occurrences are all executed
  Triggered,    \* jobs some code triggers
  Numbercall,   \* numbercall of each job at first
  MaxTime,      \* bound: last time of the clock; triggers are set, and for, before it
  MaxIncidents, \* bound: failures of workers and writes by users, together
  MaxTriggers   \* bound: triggers in the table

Time == 0..MaxTime

ASSUME OwnerAssumption == Nobody \notin Worker \cup Job
ASSUME JobAssumption   == /\ Interval \in [Job -> Int]
                          /\ DoAll \subseteq Job /\ Triggered \subseteq Job
                          /\ Numbercall \in [Job -> Int]
ASSUME BoundAssumption == MaxTime \in Nat /\ MaxIncidents \in Nat /\ MaxTriggers \in Nat

VARIABLES
  clock,        \* now, in UTC
  cron,         \* the committed rows of ir_cron
  trigger,      \* the committed rows of ir_cron_trigger
  lock,         \* the worker that holds the lock of each row
  phase,        \* where each worker is
  todo,         \* ids the worker has still to go through
  snap,         \* what the snapshot of each worker shows at its now()
  missed,       \* rows updated by a commit the worker cannot see
  current,      \* the job each worker has acquired
  row,          \* its row, as the worker read it
  now,          \* when it started to run it
  incidents,    \* failures and writes so far
  served,       \* history: how often each occurrence was counted as called
  called,       \* history: counted calls of each job with a numbercall
  fresh         \* history: triggers no run has started for at or after their time

vars == <<clock, cron, trigger, lock, phase, todo, snap, missed, current, row,
          now, incidents, served, called, fresh>>

worker  == <<lock, phase, todo, snap, missed, current, row, now>>
history == <<served, called, fresh>>

\* idle; in the loop without a transaction; in the loop with one; has acquired
\* a job; has run it.
Phase == {"idle", "loop", "open", "acquired", "ran"}

CronRow == [nextcall : Int, numbercall : Int, active : BOOLEAN, interval : Int]
Trigger == [cron : Job, call_at : Time]
Snap    == [ready : SUBSET Job, past : SUBSET Trigger]

\* A worker without a job.
NoRow == [nextcall |-> 0, numbercall |-> 0, active |-> FALSE, interval |-> 0]

\* A worker without a transaction.
NoSnap == [ready |-> {}, past |-> {}]

TypeOK ==
  /\ clock     \in Time
  /\ cron      \in [Job -> CronRow]
  /\ trigger   \subseteq Trigger
  /\ lock      \in [Job -> Worker \cup {Nobody}]
  /\ phase     \in [Worker -> Phase]
  /\ todo      \in [Worker -> SUBSET Job]
  /\ snap      \in [Worker -> Snap]
  /\ missed    \in [Worker -> SUBSET Job]
  /\ current   \in [Worker -> Job \cup {Nobody}]
  /\ row       \in [Worker -> CronRow]
  /\ now       \in [Worker -> Time]
  /\ incidents \in 0..MaxIncidents
  /\ served    \in [Job -> [Time -> Nat]]
  /\ called    \in [Job -> Nat]
  /\ fresh     \subseteq Trigger

\* Every job is due at once: nextcall is by default the time of its creation.
Init ==
  /\ clock     = 0
  /\ cron      = [j \in Job |-> [nextcall |-> 0, numbercall |-> Numbercall[j],
                                active |-> TRUE, interval |-> Interval[j]]]
  /\ trigger   = {}
  /\ lock      = [j \in Job |-> Nobody]
  /\ phase     = [w \in Worker |-> "idle"]
  /\ todo      = [w \in Worker |-> {}]
  /\ snap      = [w \in Worker |-> NoSnap]
  /\ missed    = [w \in Worker |-> {}]
  /\ current   = [w \in Worker |-> Nobody]
  /\ row       = [w \in Worker |-> NoRow]
  /\ now       = [w \in Worker |-> 0]
  /\ incidents = 0
  /\ served    = [j \in Job |-> [t \in Time |-> 0]]
  /\ called    = [j \in Job |-> 0]
  /\ fresh     = {}

\* A commit has updated the row of j: open transactions do not see it.
Updated(j) ==
  [w \in Worker |-> IF phase[w] \in {"idle", "loop"} THEN missed[w] ELSE missed[w] \cup {j}]

-----------------------------------------------------------------------------
(* What a worker reads *)

\* The WHERE clause of _get_all_ready_jobs and _acquire_one_job.
Ready(j) ==
  /\ cron[j].active
  /\ cron[j].numbercall # 0
  /\ \/ cron[j].nextcall <= clock
     \/ \E t \in trigger : t.cron = j /\ t.call_at <= clock

\* Mutant of Present: the triggers are deleted without regard to their time.
Present_AllTriggers == [ready |-> {j \in Job : Ready(j)}, past |-> trigger]

\* A snapshot shows the jobs that are ready and the triggers to delete when one
\* of them is done: call_at < now(), the time the transaction started.
Present == [ready |-> {j \in Job : Ready(j)}, past |-> {t \in trigger : t.call_at < clock}]

\* The snapshot the next statement of w sees: that of its transaction, or a
\* new one.
Seen(w) == IF phase[w] = "loop" THEN Present ELSE snap[w]

\* _get_all_ready_jobs
Poll(w) ==
  /\ phase[w] = "idle"
  /\ Present.ready # {}
  /\ phase'  = [phase EXCEPT ![w] = "open"]
  /\ todo'   = [todo EXCEPT ![w] = Present.ready]
  /\ snap'   = [snap EXCEPT ![w] = Present]
  /\ missed' = [missed EXCEPT ![w] = {}]
  /\ UNCHANGED <<clock, cron, trigger, lock, current, row, now, incidents, history>>

\* The rows the transaction of w cannot see the last version of.
Stale(w) == IF phase[w] = "loop" THEN {} ELSE missed[w]

\* Mutants of Acquirable: nothing is locked; READ COMMITTED, where the row is
\* locked as it is now and its triggers are those of the query before.
Acquirable_NoLock(w, j) == j \in Seen(w).ready /\ j \notin Stale(w)

Acquirable_Stale(w, j) == j \in Seen(w).ready /\ lock[j] = Nobody

Acquirable(w, j) == j \in Seen(w).ready /\ lock[j] = Nobody /\ j \notin Stale(w)

InLoop(w, j) == phase[w] \in {"loop", "open"} /\ j \in todo[w]

\* _acquire_one_job: SELECT ... FOR NO KEY UPDATE SKIP LOCKED returns the row.
Acquire(w, j) ==
  /\ InLoop(w, j)
  /\ Acquirable(w, j)
  /\ lock'    = [lock EXCEPT ![j] = w]
  /\ phase'   = [phase EXCEPT ![w] = "acquired"]
  /\ todo'    = [todo EXCEPT ![w] = @ \ {j}]
  /\ snap'    = [snap EXCEPT ![w] = Seen(w)]
  /\ missed'  = [missed EXCEPT ![w] = Stale(w)]
  /\ current' = [current EXCEPT ![w] = j]
  /\ row'     = [row EXCEPT ![w] = cron[j]]
  /\ UNCHANGED <<clock, cron, trigger, now, incidents, history>>

\* It returns no row: the job is not ready any more, or locked by another worker
\* and not updated since the snapshot.  The transaction goes on.
SkipJob(w, j) ==
  /\ InLoop(w, j)
  /\ j \notin Seen(w).ready \/ (lock[j] # Nobody /\ j \notin Stale(w))
  /\ phase'  = [phase EXCEPT ![w] = "open"]
  /\ todo'   = [todo EXCEPT ![w] = @ \ {j}]
  /\ snap'   = [snap EXCEPT ![w] = Seen(w)]
  /\ missed' = [missed EXCEPT ![w] = Stale(w)]
  /\ UNCHANGED <<clock, cron, trigger, lock, current, row, now, incidents, history>>

\* TransactionRollbackError: another worker has processed the job since, and a
\* row that was updated is not looked at for locks.
SkipProcessed(w, j) ==
  /\ InLoop(w, j)
  /\ j \in Seen(w).ready /\ j \in Stale(w)
  /\ phase'  = [phase EXCEPT ![w] = "loop"]
  /\ todo'   = [todo EXCEPT ![w] = @ \ {j}]
  /\ snap'   = [snap EXCEPT ![w] = NoSnap]
  /\ missed' = [missed EXCEPT ![w] = {}]
  /\ UNCHANGED <<clock, cron, trigger, lock, current, row, now, incidents, history>>

\* The end of the loop: the cursor is closed.
EndLoop(w) ==
  /\ phase[w] \in {"loop", "open"}
  /\ todo[w] = {}
  /\ phase'  = [phase EXCEPT ![w] = "idle"]
  /\ snap'   = [snap EXCEPT ![w] = NoSnap]
  /\ missed' = [missed EXCEPT ![w] = {}]
  /\ UNCHANGED <<clock, cron, trigger, lock, todo, current, row, now, incidents, history>>

-----------------------------------------------------------------------------
(* _process_job on the acquired row *)

\* The row, its lock and the transaction of w end with the UPDATE of the row.
Release(w, new) ==
  /\ cron'    = [cron EXCEPT ![current[w]] = new]
  /\ lock'    = [lock EXCEPT ![current[w]] = Nobody]
  /\ missed'  = [Updated(current[w]) EXCEPT ![w] = {}]
  /\ snap'    = [snap EXCEPT ![w] = NoSnap]
  /\ phase'   = [phase EXCEPT ![w] = "loop"]
  /\ current' = [current EXCEPT ![w] = Nobody]
  /\ row'     = [row EXCEPT ![w] = NoRow]
  /\ now'     = [now EXCEPT ![w] = 0]

\* interval_number <= 0: the job is deactivated.
Disable(w) ==
  /\ phase[w] = "acquired"
  /\ row[w].interval <= 0
  /\ Release(w, [row[w] EXCEPT !.active = FALSE])
  /\ UNCHANGED <<clock, trigger, todo, incidents, history>>

\* Mutant of UtcNow: datetime.now(), east of Greenwich.
UtcNow_Local == clock + 1

UtcNow == clock

\* The calls are made and committed in a transaction of their own; failed ones
\* are logged and count all the same.
Run(w) ==
  /\ phase[w] = "acquired"
  /\ row[w].interval > 0
  /\ phase' = [phase EXCEPT ![w] = "ran"]
  /\ now'   = [now EXCEPT ![w] = UtcNow]
  /\ fresh' = {t \in fresh : ~(t.cron = current[w] /\ t.call_at <= UtcNow)}
  /\ UNCHANGED <<clock, cron, trigger, lock, todo, snap, missed, current, row, incidents,
                 served, called>>

\* Mutant of MissedCalls: `while missed_call < now'.
MissedCalls_Strict(w) ==
  IF now[w] <= row[w].nextcall THEN 0
  ELSE (now[w] - row[w].nextcall - 1) \div row[w].interval + 1

\* missed_call_count: the occurrences from nextcall up to and including now.
MissedCalls(w) ==
  IF now[w] < row[w].nextcall THEN 0
  ELSE (now[w] - row[w].nextcall) \div row[w].interval + 1

\* future_nextcall
FutureNextcall(w) == row[w].nextcall + MissedCalls(w) * row[w].interval

\* Mutant of EffectiveCalls: numbercall does not limit the missed calls.
EffectiveCalls_All(w) ==
  IF MissedCalls(w) = 0 \/ current[w] \notin DoAll THEN 1 ELSE MissedCalls(w)

\* effective_call_count
EffectiveCalls(w) ==
  IF MissedCalls(w) = 0 \/ current[w] \notin DoAll THEN 1
  ELSE IF row[w].numbercall = -1 \/ MissedCalls(w) < row[w].numbercall THEN MissedCalls(w)
  ELSE row[w].numbercall

\* call_count_left
CallsLeft(w) ==
  IF row[w].numbercall - EffectiveCalls(w) > -1 THEN row[w].numbercall - EffectiveCalls(w) ELSE -1

\* DELETE FROM ir_cron_trigger, of what the snapshot shows.
Consumed(w) == {t \in snap[w].past : t.cron = current[w]}

\* The job is planned again and its transaction commits.
Reschedule(w) ==
  /\ phase[w] = "ran"
  /\ Release(w, [row[w] EXCEPT !.nextcall   = FutureNextcall(w),
                               !.numbercall = CallsLeft(w),
                               !.active     = @ /\ CallsLeft(w) # 0])
  /\ trigger' = trigger \ Consumed(w)
  /\ served'  = [served EXCEPT ![current[w]] =
       [t \in Time |-> IF t \in row[w].nextcall..(FutureNextcall(w) - 1) THEN @[t] + 1 ELSE @[t]]]
  /\ called'  = [called EXCEPT ![current[w]] =
                   IF row[w].numbercall < 0 THEN @ ELSE @ + EffectiveCalls(w)]
  /\ UNCHANGED <<clock, todo, incidents, fresh>>

\* The worker dies or meets an error: its transaction is rolled back.  What
\* the job has committed by then stays.
Fail(w) ==
  /\ phase[w] # "idle"
  /\ incidents < MaxIncidents
  /\ incidents' = incidents + 1
  /\ lock'     = [j \in Job |-> IF lock[j] = w THEN Nobody ELSE lock[j]]
  /\ phase'    = [phase EXCEPT ![w] = "idle"]
  /\ todo'     = [todo EXCEPT ![w] = {}]
  /\ snap'     = [snap EXCEPT ![w] = NoSnap]
  /\ missed'   = [missed EXCEPT ![w] = {}]
  /\ current'  = [current EXCEPT ![w] = Nobody]
  /\ row'      = [row EXCEPT ![w] = NoRow]
  /\ now'      = [now EXCEPT ![w] = 0]
  /\ UNCHANGED <<clock, cron, trigger, history>>

-----------------------------------------------------------------------------
(* Users *)

\* Mutant of TryLock: the write waits for the job and then goes through, on
\* the row as it was.
TryLock_Blind(j) == TRUE

\* _try_lock: FOR NO KEY UPDATE NOWAIT, or a UserError.
TryLock(j) == lock[j] = Nobody

\* What a user may make of a job.
Edits(j) == {[cron[j] EXCEPT !.active = active] : active \in BOOLEAN} \cup
            {[cron[j] EXCEPT !.interval = 0]}

\* write and toggle, and method_direct_trigger, which writes lastcall.
Write(j, new) ==
  /\ TryLock(j)
  /\ cron'   = [cron EXCEPT ![j] = new]
  /\ missed' = Updated(j)
  /\ incidents < MaxIncidents
  /\ incidents' = incidents + 1
  /\ UNCHANGED <<clock, trigger, lock, phase, todo, snap, current, row, now, history>>

\* _trigger: an inactive job is only triggered for later, an active one for any
\* time, one that is past included.
CallAt(j, at) ==
  /\ clock < MaxTime /\ at < MaxTime
  /\ Cardinality(trigger) < MaxTriggers
  /\ cron[j].active \/ at > clock
  /\ [cron |-> j, call_at |-> at] \notin trigger
  /\ trigger' = trigger \cup {[cron |-> j, call_at |-> at]}
  /\ fresh'   = fresh \cup {[cron |-> j, call_at |-> at]}
  /\ UNCHANGED <<clock, cron, worker, incidents, served, called>>

Tick ==
  /\ clock < MaxTime
  /\ clock' = clock + 1
  /\ UNCHANGED <<cron, trigger, worker, incidents, history>>

-----------------------------------------------------------------------------
Work(w) ==
  \/ Poll(w)
  \/ \E j \in Job : Acquire(w, j) \/ SkipJob(w, j) \/ SkipProcessed(w, j)
  \/ EndLoop(w)
  \/ Disable(w)
  \/ Run(w)
  \/ Reschedule(w)

Next ==
  \/ \E w \in Worker : Work(w) \/ Fail(w)
  \/ \E j \in Job : \E new \in Edits(j) : Write(j, new)
  \/ \E j \in Triggered, at \in Time : CallAt(j, at)
  \/ Tick

Spec == Init /\ [][Next]_vars

FairSpec == Spec /\ WF_vars(Tick) /\ \A w \in Worker : WF_vars(Work(w))

-----------------------------------------------------------------------------
(* Properties *)

\* "ALL jobs are executed ONLY ONCE no matter how many cron workers may process
\* them" (_acquire_one_job): each occurrence of a job is counted as called at
\* most once, although workers go by lists of jobs and snapshots that are out of
\* date, and take over from others that died.
OnlyOnce == \A j \in Job, t \in Time : served[j][t] <= 1

\* "(ii) prevent re-processing jobs that have been processed already"
\* (_acquire_one_job): a job that a worker has acquired from an old list and
\* snapshot is due, and stays so until that worker has run it.
RunsAreDue == \A w \in Worker : phase[w] \in {"acquired", "ran"} => Ready(current[w])

\* "How many times the method is called" (help of numbercall): the calls counted
\* and those left add up, missed calls that are made up for included.
NumbercallKept ==
  \A j \in Job : Numbercall[j] >= 0 =>
    cron[j].numbercall >= 0 /\ called[j] + cron[j].numbercall = Numbercall[j]

\* "optional triggers are removed" when a job has been processed
\* (_acquire_one_job): a trigger is there until a run of its job has started at
\* or after the time it was set for, and after it was set.  One that is for
\* later outlives the runs before its time, and one set while the job runs stays.
TriggersKept == fresh \subseteq trigger

\* "This cron task is currently being executed and may not be modified"
\* (_try_lock): the end of a run does not undo what a user wrote meanwhile; a
\* job that was deactivated is activated by a user only.
DeactivationStands ==
  [][\A j \in Job : ~cron[j].active /\ cron'[j].active => Write(j, cron'[j])]_vars

\* A job that is due, or triggered, does not stay so: some worker runs it,
\* whatever workers fail, and plans it for a later time.
DueIsRun == \A j \in Job : Ready(j) ~> ~Ready(j)
=============================================================================

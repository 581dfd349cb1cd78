---------------------------- MODULE IrCronProofs ----------------------------
(***************************************************************************)
(* Theorems about the scheduler, for any workers, jobs and bounds.         *)
(*                                                                         *)
(* All rest on Holding: a worker that has acquired a job holds the lock of *)
(* its row and has read the row as it is.  SnapInv says what an old        *)
(* snapshot still tells: of rows that no commit has updated, the truth.    *)
(***************************************************************************)
EXTENDS IrCron, TLAPS

HasJob(w) == phase[w] \in {"acquired", "ran"}

Holding ==
  \A w \in Worker : HasJob(w) =>
    /\ current[w] \in Job
    /\ lock[current[w]] = w
    /\ row[w] = cron[current[w]]
    /\ phase[w] = "ran" => row[w].interval > 0

TypeInv == TypeOK /\ Holding

SnapInv ==
  \A w \in Worker : phase[w] \in {"open", "acquired", "ran"} =>
    /\ \A j \in snap[w].ready : j \notin missed[w] => Ready(j)
    /\ \A t \in snap[w].past : t.cron \notin missed[w] => t \in trigger

DueInv == TypeInv /\ SnapInv /\ RunsAreDue

ServedInv ==
  \A j \in Job, t \in Time :
    served[j][t] <= 1 /\ (t >= cron[j].nextcall => served[j][t] = 0)

\* What a snapshot showed as past is past.
PastInv ==
  \A w \in Worker : phase[w] \in {"open", "acquired", "ran"} =>
    \A t \in snap[w].past : t \in Trigger /\ t.call_at <= clock

FreshInv ==
  /\ fresh \subseteq trigger
  /\ \A w \in Worker : HasJob(w) =>
       \A t \in snap[w].past : t.cron = current[w] =>
         t \in trigger /\ (phase[w] = "ran" => t \notin fresh)

-----------------------------------------------------------------------------
\* A catch-up never plans a job for an earlier time, and never makes more calls
\* than are left.
LEMMA CatchUp ==
  ASSUME TypeInv, NEW w \in Worker, phase[w] = "ran"
  PROVE  /\ MissedCalls(w) \in Nat
         /\ FutureNextcall(w) \in Int
         /\ FutureNextcall(w) >= row[w].nextcall
         /\ EffectiveCalls(w) \in Int
         /\ CallsLeft(w) \in Int
         /\ row[w].numbercall >= 0 => EffectiveCalls(w) \in Nat
         /\ row[w].numbercall > 0 =>
              CallsLeft(w) = row[w].numbercall - EffectiveCalls(w) /\ CallsLeft(w) >= 0
<1> DEFINE i == row[w].interval
           n == row[w].nextcall
           m == MissedCalls(w)
<1>1. i \in Int /\ i > 0 /\ n \in Int /\ now[w] \in Int /\ row[w].numbercall \in Int
  BY BoundAssumption DEF TypeInv, TypeOK, Holding, HasJob, CronRow, Time
<1>2. \A a, b \in Int : b > 0 /\ a >= 0 => a \div b \in Int /\ a \div b >= 0
  OBVIOUS
<1>3. m \in Nat
  <2>1. CASE now[w] < n
    BY <2>1 DEF MissedCalls
  <2>2. CASE ~(now[w] < n)
    <3>1. now[w] - n \in Int /\ now[w] - n >= 0
      BY <1>1, <2>2
    <3>2. (now[w] - n) \div i \in Int /\ (now[w] - n) \div i >= 0
      BY <1>1, <1>2, <3>1
    <3> QED  BY <2>2, <3>2 DEF MissedCalls
  <2> QED  BY <2>1, <2>2
<1>4. m * i \in Int /\ m * i >= 0
  <2>1. \A a, b \in Nat : a * b \in Nat
    OBVIOUS
  <2>2. i \in Nat
    BY <1>1
  <2>3. m * i \in Nat
    BY <1>3, <2>1, <2>2
  <2> QED  BY <2>3
<1>5. FutureNextcall(w) \in Int /\ FutureNextcall(w) >= n
  BY <1>1, <1>4 DEF FutureNextcall
<1>6. /\ EffectiveCalls(w) \in Int
      /\ row[w].numbercall >= 0 => EffectiveCalls(w) \in Nat
      /\ row[w].numbercall > 0 => EffectiveCalls(w) <= row[w].numbercall
  BY <1>1, <1>3 DEF EffectiveCalls
<1>7. /\ CallsLeft(w) \in Int
      /\ row[w].numbercall > 0 =>
           CallsLeft(w) = row[w].numbercall - EffectiveCalls(w) /\ CallsLeft(w) >= 0
  BY <1>1, <1>6 DEF CallsLeft
<1> QED  BY <1>3, <1>5, <1>6, <1>7

\* What is written into a row leaves it a row.
LEMMA RowEdit ==
  ASSUME NEW x \in CronRow, NEW active \in BOOLEAN, NEW n \in Int, NEW c \in Int, NEW i \in Int
  PROVE  /\ [x EXCEPT !.active = active] \in CronRow
         /\ [x EXCEPT !.interval = i] \in CronRow
         /\ [x EXCEPT !.nextcall = n, !.numbercall = c, !.active = @ /\ active] \in CronRow
BY DEF CronRow

\* The steps of the system.
LEMMA StepCases ==
  ASSUME NEW P, [Next]_vars,
         ASSUME NEW w \in Worker, Poll(w) PROVE P,
         ASSUME NEW w \in Worker, NEW j \in Job, Acquire(w, j) PROVE P,
         ASSUME NEW w \in Worker, NEW j \in Job, SkipJob(w, j) \/ SkipProcessed(w, j) PROVE P,
         ASSUME NEW w \in Worker, EndLoop(w) PROVE P,
         ASSUME NEW w \in Worker, Disable(w) PROVE P,
         ASSUME NEW w \in Worker, Run(w) PROVE P,
         ASSUME NEW w \in Worker, Reschedule(w) PROVE P,
         ASSUME NEW w \in Worker, Fail(w) PROVE P,
         ASSUME NEW j \in Job, NEW new \in Edits(j), Write(j, new) PROVE P,
         ASSUME NEW j \in Job, NEW at \in Time, CallAt(j, at) PROVE P,
         ASSUME Tick PROVE P,
         ASSUME UNCHANGED vars PROVE P
  PROVE  P
BY JobAssumption DEF Next, Work

LEMMA TypeStep == TypeInv /\ [Next]_vars => TypeInv'
<1> SUFFICES ASSUME TypeInv, [Next]_vars PROVE TypeInv'
  OBVIOUS
<1> USE OwnerAssumption, JobAssumption, BoundAssumption
<1>1. ASSUME NEW w \in Worker, Poll(w) PROVE TypeInv'
  BY <1>1 DEF TypeInv, TypeOK, Holding, HasJob, Poll, history, Phase, Present, Snap
<1>2. ASSUME NEW w \in Worker, NEW j \in Job, Acquire(w, j) PROVE TypeInv'
  <2>1. TypeOK'
    BY <1>2 DEF TypeInv, TypeOK, Acquire, history, Phase, Present, Snap, Seen, Stale, InLoop
  <2>2. Holding'
    BY <1>2 DEF TypeInv, TypeOK, Holding, HasJob, Acquire, Acquirable, InLoop
  <2> QED  BY <2>1, <2>2 DEF TypeInv
<1>3. ASSUME NEW w \in Worker, NEW j \in Job, SkipJob(w, j) \/ SkipProcessed(w, j) PROVE TypeInv'
  <2>1. Seen(w) \in Snap /\ Stale(w) \in SUBSET Job
    BY DEF TypeInv, TypeOK, Seen, Stale, Present, Snap
  <2>2. phase[w] \in {"loop", "open"}
    BY <1>3 DEF SkipJob, SkipProcessed, InLoop
  <2>3. CASE SkipJob(w, j)
    BY <2>1, <2>2, <2>3 DEF TypeInv, TypeOK, Holding, HasJob, SkipJob, history, Phase
  <2>4. CASE SkipProcessed(w, j)
    BY <2>2, <2>4 DEF TypeInv, TypeOK, Holding, HasJob, SkipProcessed, history, Phase, Snap, NoSnap
  <2> QED  BY <1>3, <2>3, <2>4
<1>4. ASSUME NEW w \in Worker, EndLoop(w) PROVE TypeInv'
  <2>1. NoSnap \in Snap
    BY DEF NoSnap, Snap
  <2>2. TypeOK'
    BY <1>4, <2>1 DEF TypeInv, TypeOK, EndLoop, history, Phase
  <2>3. Holding'
    BY <1>4 DEF TypeInv, TypeOK, Holding, HasJob, EndLoop
  <2> QED  BY <2>2, <2>3 DEF TypeInv
<1>5. ASSUME NEW w \in Worker, phase[w] \in {"acquired", "ran"}, NEW new \in CronRow, Release(w, new)
      PROVE  /\ cron' \in [Job -> CronRow] /\ lock' \in [Job -> Worker \cup {Nobody}]
             /\ phase' \in [Worker -> Phase] /\ snap' \in [Worker -> Snap]
             /\ missed' \in [Worker -> SUBSET Job] /\ current' \in [Worker -> Job \cup {Nobody}]
             /\ row' \in [Worker -> CronRow] /\ now' \in [Worker -> Time]
             /\ Holding'
  <2>1. NoRow \in CronRow /\ NoSnap \in Snap /\ 0 \in Time
    BY DEF NoRow, CronRow, NoSnap, Snap, Time
  <2>2. Holding'
    BY <1>5 DEF TypeInv, TypeOK, Holding, HasJob, Release
  <2>3. missed' \in [Worker -> SUBSET Job]
    <3>1. current[w] \in Job
      BY <1>5 DEF TypeInv, Holding, HasJob
    <3>2. Updated(current[w]) \in [Worker -> SUBSET Job]
      BY <3>1 DEF TypeInv, TypeOK, Updated
    <3> QED  BY <1>5, <3>2 DEF Release
  <2> QED  BY <1>5, <2>1, <2>2, <2>3 DEF TypeInv, TypeOK, Release, Phase
<1>6. ASSUME NEW w \in Worker, Disable(w) PROVE TypeInv'
  <2>1. [row[w] EXCEPT !.active = FALSE] \in CronRow
    <3>1. row[w] \in CronRow /\ FALSE \in BOOLEAN /\ 0 \in Int
      BY DEF TypeInv, TypeOK
    <3> QED  BY <3>1, RowEdit
  <2> QED  BY <1>5, <1>6, <2>1 DEF Disable, TypeInv, TypeOK, history
<1>7. ASSUME NEW w \in Worker, Run(w) PROVE TypeInv'
  <2>2. TypeOK'
    BY <1>7 DEF TypeInv, TypeOK, Run, Phase, UtcNow
  <2>3. Holding'
    BY <1>7 DEF TypeInv, TypeOK, Holding, HasJob, Run
  <2> QED  BY <2>2, <2>3 DEF TypeInv
<1>8. ASSUME NEW w \in Worker, Reschedule(w) PROVE TypeInv'
  <2> DEFINE new == [row[w] EXCEPT !.nextcall   = FutureNextcall(w),
                                   !.numbercall = CallsLeft(w),
                                   !.active     = @ /\ CallsLeft(w) # 0]
  <2>1. phase[w] = "ran"
    BY <1>8 DEF Reschedule
  <2>2. new \in CronRow
    <3>1. /\ row[w] \in CronRow /\ FutureNextcall(w) \in Int /\ CallsLeft(w) \in Int
          /\ (CallsLeft(w) # 0) \in BOOLEAN
      BY <2>1, CatchUp DEF TypeInv, TypeOK
    <3> QED  BY <3>1, RowEdit
  <2>3. Release(w, new) /\ UNCHANGED <<clock, todo, incidents, fresh>>
    BY <1>8 DEF Reschedule
  <2>4. served' \in [Job -> [Time -> Nat]]
    <3>1. served \in [Job -> [Time -> Nat]] /\ current[w] \in Job
      BY <2>1 DEF TypeInv, TypeOK, Holding, HasJob
    <3>2. [t \in Time |-> IF t \in row[w].nextcall..(FutureNextcall(w) - 1)
                         THEN served[current[w]][t] + 1 ELSE served[current[w]][t]] \in [Time -> Nat]
      BY <3>1
    <3> QED  BY <1>8, <3>1, <3>2 DEF Reschedule
  <2>5. called' \in [Job -> Nat]
    <3>1. called \in [Job -> Nat] /\ current[w] \in Job /\ row[w].numbercall \in Int
      BY <2>1 DEF TypeInv, TypeOK, Holding, HasJob, CronRow
    <3>2. row[w].numbercall >= 0 => called[current[w]] + EffectiveCalls(w) \in Nat
      BY <2>1, <3>1, CatchUp
    <3> QED  BY <1>8, <3>1, <3>2 DEF Reschedule
  <2>6. trigger' \subseteq Trigger
    BY <1>8 DEF Reschedule, TypeInv, TypeOK
  <2> HIDE DEF new
  <2> QED  BY <1>5, <2>1, <2>2, <2>3, <2>4, <2>5, <2>6 DEF TypeInv, TypeOK
<1>9. ASSUME NEW w \in Worker, Fail(w) PROVE TypeInv'
  <2>1. NoRow \in CronRow /\ NoSnap \in Snap /\ 0 \in Time
    BY DEF NoRow, CronRow, NoSnap, Snap, Time
  <2>2. TypeOK'
    BY <1>9, <2>1 DEF TypeInv, TypeOK, Fail, history, Phase
  <2>3. Holding'
    BY <1>9 DEF TypeInv, TypeOK, Holding, HasJob, Fail
  <2> QED  BY <2>2, <2>3 DEF TypeInv
<1>10. ASSUME NEW j \in Job, NEW new \in Edits(j), Write(j, new) PROVE TypeInv'
  <2>1. new \in CronRow
    <3>1. cron[j] \in CronRow /\ 0 \in Int
      BY DEF TypeInv, TypeOK
    <3>2. CASE \E active \in BOOLEAN : new = [cron[j] EXCEPT !.active = active]
      BY <3>1, <3>2, RowEdit
    <3>3. CASE new = [cron[j] EXCEPT !.interval = 0]
      BY <3>1, <3>3, RowEdit
    <3> QED  BY <3>2, <3>3 DEF Edits
  <2> QED  BY <1>10, <2>1 DEF TypeInv, TypeOK, Holding, HasJob, Write, TryLock, Updated, history
<1>11. ASSUME NEW j \in Job, NEW at \in Time, CallAt(j, at) PROVE TypeInv'
  BY <1>11 DEF TypeInv, TypeOK, Holding, HasJob, CallAt, worker, Trigger
<1>12. ASSUME Tick PROVE TypeInv'
  BY <1>12 DEF TypeInv, TypeOK, Holding, HasJob, Tick, worker, history, Time
<1>13. ASSUME UNCHANGED vars PROVE TypeInv'
  BY <1>13 DEF TypeInv, TypeOK, Holding, HasJob, vars
<1> QED
  BY <1>1, <1>2, <1>3, <1>4, <1>6, <1>7, <1>8, <1>9, <1>10, <1>11, <1>12, <1>13, StepCases

\* The variables keep their types, whatever workers fail.
THEOREM TypeCorrect == Spec => []TypeOK
<1>1. Init => TypeInv
  BY OwnerAssumption, JobAssumption, BoundAssumption
     DEF Init, TypeInv, TypeOK, Holding, HasJob, Time, CronRow, NoRow, Phase, Snap, NoSnap
<1>2. TypeInv => TypeOK
  BY DEF TypeInv
<1> QED  BY <1>1, <1>2, TypeStep, PTL DEF Spec

-----------------------------------------------------------------------------
\* What commits of others leave true for a worker: a row nobody has updated.
LEMMA DueStep == DueInv /\ [Next]_vars => DueInv'
<1> SUFFICES ASSUME DueInv, [Next]_vars PROVE SnapInv' /\ RunsAreDue'
  BY TypeStep DEF DueInv
<1> USE OwnerAssumption, JobAssumption, BoundAssumption
<1> DEFINE Goal == SnapInv' /\ RunsAreDue'
<1>1. ASSUME UNCHANGED <<clock, cron, trigger>> PROVE \A j : Ready(j)' = Ready(j)
  BY <1>1 DEF Ready
<1>2. /\ \A j \in Present.ready : Ready(j)
      /\ \A t \in Present.past : t \in trigger
  BY DEF Present
<1>3. \A w \in Worker : phase[w] \in {"loop", "open", "acquired", "ran"} =>
        /\ \A j \in Seen(w).ready : j \notin Stale(w) => Ready(j)
        /\ \A t \in Seen(w).past : t.cron \notin Stale(w) => t \in trigger
  BY <1>2 DEF DueInv, SnapInv, Seen, Stale
<1>4. ASSUME NEW w \in Worker, Poll(w) PROVE Goal
  BY <1>1, <1>2, <1>4 DEF DueInv, TypeInv, TypeOK, SnapInv, RunsAreDue, Poll
<1>5. ASSUME NEW w \in Worker, NEW j \in Job, Acquire(w, j) PROVE Goal
  BY <1>1, <1>3, <1>5 DEF DueInv, TypeInv, TypeOK, SnapInv, RunsAreDue, Acquire, Acquirable, InLoop
<1>6. ASSUME NEW w \in Worker, NEW j \in Job, SkipJob(w, j) \/ SkipProcessed(w, j) PROVE Goal
  <2>1. phase[w] \in {"loop", "open"}
    BY <1>6 DEF SkipJob, SkipProcessed, InLoop
  <2>2. CASE SkipJob(w, j)
    BY <1>1, <1>3, <2>1, <2>2 DEF DueInv, TypeInv, TypeOK, SnapInv, RunsAreDue, SkipJob
  <2>3. CASE SkipProcessed(w, j)
    BY <1>1, <2>1, <2>3 DEF DueInv, TypeInv, TypeOK, SnapInv, RunsAreDue, SkipProcessed
  <2> QED  BY <1>6, <2>2, <2>3
<1>7. ASSUME NEW w \in Worker, EndLoop(w) PROVE Goal
  BY <1>1, <1>7 DEF DueInv, TypeInv, TypeOK, SnapInv, RunsAreDue, EndLoop
<1>8. ASSUME NEW w \in Worker, phase[w] \in {"acquired", "ran"}, NEW new, Release(w, new),
             clock' = clock, trigger' \subseteq trigger,
             \A t \in trigger \ trigger' : t.cron = current[w]
      PROVE Goal
  <2>1. current[w] \in Job /\ lock[current[w]] = w
    BY <1>8 DEF DueInv, TypeInv, Holding, HasJob
  <2>2. \A j \in Job : j # current[w] => Ready(j)' = Ready(j)
    BY <1>8, <2>1 DEF Ready, Release, DueInv, TypeInv, TypeOK, Trigger
  <2>3. \A v \in Worker : v # w /\ phase[v] \in {"open", "acquired", "ran"} =>
          phase'[v] = phase[v] /\ snap'[v] = snap[v] /\ current'[v] = current[v]
            /\ missed'[v] = missed[v] \cup {current[w]}
    BY <1>8, <2>1 DEF Release, Updated, DueInv, TypeInv, TypeOK
  <2>4. phase'[w] = "loop" /\ \A v \in Worker : v # w => phase'[v] = phase[v]
    BY <1>8 DEF Release, DueInv, TypeInv, TypeOK
  <2>5. SnapInv'
    <3> SUFFICES ASSUME NEW v \in Worker, phase'[v] \in {"open", "acquired", "ran"}
                 PROVE  /\ \A j \in snap'[v].ready : j \notin missed'[v] => Ready(j)'
                        /\ \A t \in snap'[v].past : t.cron \notin missed'[v] => t \in trigger'
      BY DEF SnapInv
    <3>1. v # w /\ phase[v] \in {"open", "acquired", "ran"}
      BY <2>4
    <3>2. snap[v].ready \subseteq Job
      BY DEF DueInv, TypeInv, TypeOK, Snap
    <3> QED  BY <1>8, <2>2, <2>3, <3>1, <3>2 DEF DueInv, SnapInv
  <2>6. RunsAreDue'
    <3> SUFFICES ASSUME NEW v \in Worker, phase'[v] \in {"acquired", "ran"}
                 PROVE  Ready(current[v])'
      BY DEF RunsAreDue
    <3>1. v # w /\ phase[v] \in {"acquired", "ran"} /\ current'[v] = current[v]
      BY <2>3, <2>4
    <3>2. current[v] \in Job /\ current[v] # current[w] /\ Ready(current[v])
      BY <2>1, <3>1 DEF DueInv, RunsAreDue, TypeInv, Holding, HasJob
    <3>3. Ready(current[v])' = Ready(current[v])
      BY <2>2, <3>1, <3>2 DEF Ready
    <3> QED  BY <3>2, <3>3
  <2> QED  BY <2>5, <2>6
<1>9. ASSUME NEW w \in Worker, Disable(w) PROVE Goal
  BY <1>8, <1>9 DEF Disable
<1>10. ASSUME NEW w \in Worker, Run(w) PROVE Goal
  BY <1>1, <1>10 DEF DueInv, TypeInv, TypeOK, SnapInv, RunsAreDue, Run
<1>11. ASSUME NEW w \in Worker, Reschedule(w) PROVE Goal
  BY <1>8, <1>11 DEF Reschedule, Consumed
<1>12. ASSUME NEW w \in Worker, Fail(w) PROVE Goal
  BY <1>1, <1>12 DEF DueInv, TypeInv, TypeOK, SnapInv, RunsAreDue, Fail, history
<1>13. ASSUME NEW j \in Job, NEW new \in Edits(j), Write(j, new) PROVE Goal
  <2>1. \A i \in Job : i # j => Ready(i)' = Ready(i)
    BY <1>13 DEF Ready, Write, DueInv, TypeInv, TypeOK
  <2>2. \A w \in Worker : phase[w] \in {"open", "acquired", "ran"} => missed'[w] = missed[w] \cup {j}
    BY <1>13 DEF Write, Updated
  <2>3. \A w \in Worker : HasJob(w) => current[w] # j /\ current[w] \in Job
    BY <1>13 DEF Write, TryLock, DueInv, TypeInv, Holding
  <2>4. \A w \in Worker : snap[w].ready \subseteq Job
    BY DEF DueInv, TypeInv, TypeOK, Snap
  <2> QED  BY <1>13, <2>1, <2>2, <2>3, <2>4 DEF DueInv, SnapInv, RunsAreDue, HasJob, Write
<1>14. ASSUME NEW j \in Job, NEW at \in Time, CallAt(j, at) PROVE Goal
  <2>1. \A i : Ready(i) => Ready(i)'
    BY <1>14 DEF Ready, CallAt
  <2> QED  BY <1>14, <2>1 DEF DueInv, SnapInv, RunsAreDue, CallAt, worker
<1>15. ASSUME Tick PROVE Goal
  <2>1. \A i \in Job : Ready(i) => Ready(i)'
    BY <1>15 DEF Ready, Tick, DueInv, TypeInv, TypeOK, CronRow, Trigger, Time
  <2>2. \A w \in Worker : snap[w].ready \subseteq Job /\ (HasJob(w) => current[w] \in Job)
    BY DEF DueInv, TypeInv, TypeOK, Snap, Holding
  <2> QED  BY <1>15, <2>1, <2>2 DEF DueInv, SnapInv, RunsAreDue, HasJob, Tick, worker
<1>16. ASSUME UNCHANGED vars PROVE Goal
  BY <1>1, <1>16 DEF DueInv, SnapInv, RunsAreDue, vars
<1> HIDE DEF Goal
<1>17. Goal
  BY <1>4, <1>5, <1>6, <1>7, <1>9, <1>10, <1>11, <1>12, <1>13, <1>14, <1>15, <1>16, StepCases
<1> QED  BY <1>17 DEF Goal

LEMMA InitDue == Init => DueInv
BY OwnerAssumption, JobAssumption, BoundAssumption
   DEF Init, DueInv, TypeInv, TypeOK, Holding, HasJob, SnapInv, RunsAreDue, Time, CronRow, NoRow,
       Phase, Snap, NoSnap

\* A job that a worker has acquired, from however old a list, is due and stays
\* so until the worker has run it and planned it again.
THEOREM RunsDue == Spec => []RunsAreDue
<1>1. DueInv => RunsAreDue
  BY DEF DueInv
<1> QED  BY <1>1, InitDue, DueStep, PTL DEF Spec

-----------------------------------------------------------------------------
\* What each step does to the rows and to the history of calls.
LEMMA RowSteps ==
  ASSUME DueInv, [Next]_vars
  PROVE  \/ cron' = cron /\ served' = served /\ called' = called
         \/ \E w \in Worker : Disable(w)
         \/ \E w \in Worker : Reschedule(w)
         \/ \E j \in Job : \E new \in Edits(j) : Write(j, new)
<1> DEFINE Kept == cron' = cron /\ served' = served /\ called' = called
<1>1. ASSUME NEW w \in Worker, NEW j \in Job,
             Poll(w) \/ Acquire(w, j) \/ SkipJob(w, j) \/ SkipProcessed(w, j)
      PROVE  Kept
  BY <1>1 DEF Poll, Acquire, SkipJob, SkipProcessed, history
<1>2. ASSUME NEW w \in Worker, EndLoop(w) \/ Run(w) \/ Fail(w) PROVE Kept
  BY <1>2 DEF EndLoop, Run, Fail, history
<1>3. ASSUME NEW j \in Job, NEW at \in Time, CallAt(j, at) PROVE Kept
  BY <1>3 DEF CallAt
<1>4. ASSUME Tick \/ UNCHANGED vars PROVE Kept
  BY <1>4 DEF Tick, history, vars
<1>5. ASSUME NEW w \in Worker, Poll(w) PROVE Kept
  BY <1>5 DEF Poll, history
<1> HIDE DEF Kept
<1>6. Kept \/ (\E w \in Worker : Disable(w) \/ Reschedule(w))
           \/ \E j \in Job : \E new \in Edits(j) : Write(j, new)
  BY <1>1, <1>2, <1>3, <1>4, <1>5, JobAssumption, Zenon DEF Next, Work
<1> QED  BY <1>6 DEF Kept

LEMMA ServedStep == DueInv /\ ServedInv /\ [Next]_vars => ServedInv'
<1> SUFFICES ASSUME DueInv, ServedInv, [Next]_vars PROVE ServedInv'
  OBVIOUS
<1>1. \A w \in Worker : phase[w] \in {"acquired", "ran"} => current[w] \in Job /\ row[w] = cron[current[w]]
  BY DEF DueInv, TypeInv, Holding, HasJob
<1>2. CASE cron' = cron /\ served' = served /\ called' = called
  BY <1>2 DEF ServedInv
<1>3. ASSUME NEW w \in Worker, Disable(w) PROVE ServedInv'
  <2>1. served' = served /\ \A j \in Job : cron'[j].nextcall = cron[j].nextcall
    BY <1>1, <1>3 DEF Disable, Release, history, DueInv, TypeInv, TypeOK, CronRow
  <2> QED  BY <2>1 DEF ServedInv
<1>4. ASSUME NEW w \in Worker, Reschedule(w) PROVE ServedInv'
  <2> DEFINE c == current[w]
             n == row[w].nextcall
             f == FutureNextcall(w)
  <2>1. phase[w] = "ran" /\ c \in Job /\ n = cron[c].nextcall
    BY <1>1, <1>4 DEF Reschedule
  <2>2. n \in Int /\ f \in Int /\ f >= n
    BY <2>1, CatchUp DEF DueInv, TypeInv, TypeOK, CronRow
  <2>3. /\ cron'[c].nextcall = f
        /\ \A j \in Job : j # c => cron'[j] = cron[j]
    <3>1. row[w] \in CronRow /\ cron \in [Job -> CronRow]
      BY DEF DueInv, TypeInv, TypeOK
    <3> QED  BY <1>4, <2>1, <3>1 DEF Reschedule, Release, CronRow
  <2>4. /\ \A j \in Job : j # c => served'[j] = served[j]
        /\ \A t \in Time :
             served'[c][t] = IF t \in n..(f - 1) THEN served[c][t] + 1 ELSE served[c][t]
    BY <1>4, <2>1 DEF Reschedule, DueInv, TypeInv, TypeOK
  <2> HIDE DEF c, n, f
  <2>5. SUFFICES ASSUME NEW j \in Job, NEW t \in Time
                 PROVE  served'[j][t] <= 1 /\ (t >= cron'[j].nextcall => served'[j][t] = 0)
    BY DEF ServedInv
  <2>6. CASE j # c
    BY <2>3, <2>4, <2>6 DEF ServedInv
  <2>7. CASE j = c
    <3>1. served[c][t] \in Nat /\ t \in Int
      BY <2>1, BoundAssumption DEF DueInv, TypeInv, TypeOK, Time
    <3>2. served[c][t] <= 1 /\ (t >= n => served[c][t] = 0)
      BY <2>1 DEF ServedInv
    <3>3. served'[c][t] = IF t >= n /\ t < f THEN served[c][t] + 1 ELSE served[c][t]
      BY <2>2, <2>4, <3>1
    <3> QED  BY <2>2, <2>3, <2>7, <3>1, <3>2, <3>3
  <2> QED  BY <2>6, <2>7
<1>5. ASSUME NEW j \in Job, NEW new \in Edits(j), Write(j, new) PROVE ServedInv'
  <2>1. new.nextcall = cron[j].nextcall
    BY DEF Edits, DueInv, TypeInv, TypeOK, CronRow
  <2>2. served' = served /\ \A i \in Job : cron'[i].nextcall = cron[i].nextcall
    BY <1>5, <2>1 DEF Write, history, DueInv, TypeInv, TypeOK
  <2> QED  BY <2>2 DEF ServedInv
<1> QED  BY <1>2, <1>3, <1>4, <1>5, RowSteps

\* "ALL jobs are executed ONLY ONCE": no occurrence is counted as called twice,
\* for any number of workers, however they fail.
THEOREM ServedOnce == Spec => []OnlyOnce
<1>1. Init => ServedInv
  BY DEF Init, ServedInv
<1>2. DueInv /\ ServedInv => OnlyOnce
  BY DEF ServedInv, OnlyOnce
<1> QED  BY <1>1, <1>2, InitDue, DueStep, ServedStep, PTL DEF Spec

\* "How many times the method is called": calls made and calls left add up.
LEMMA CallsStep == DueInv /\ NumbercallKept /\ [Next]_vars => NumbercallKept'
<1> SUFFICES ASSUME DueInv, NumbercallKept, [Next]_vars PROVE NumbercallKept'
  OBVIOUS
<1>1. \A w \in Worker : phase[w] \in {"acquired", "ran"} =>
        current[w] \in Job /\ row[w] = cron[current[w]] /\ row[w].numbercall # 0
  BY DEF DueInv, TypeInv, Holding, HasJob, RunsAreDue, Ready
<1>2. CASE cron' = cron /\ served' = served /\ called' = called
  BY <1>2 DEF NumbercallKept
<1>3. ASSUME NEW w \in Worker, Disable(w) PROVE NumbercallKept'
  <2>1. called' = called /\ \A j \in Job : cron'[j].numbercall = cron[j].numbercall
    BY <1>1, <1>3 DEF Disable, Release, history, DueInv, TypeInv, TypeOK, CronRow
  <2> QED  BY <2>1 DEF NumbercallKept
<1>4. ASSUME NEW w \in Worker, Reschedule(w) PROVE NumbercallKept'
  <2> DEFINE c == current[w]
             n == row[w].numbercall
             e == EffectiveCalls(w)
  <2>1. phase[w] = "ran" /\ c \in Job /\ n = cron[c].numbercall /\ n # 0 /\ n \in Int
    BY <1>1, <1>4 DEF Reschedule, DueInv, TypeInv, TypeOK, CronRow
  <2>2. e \in Int /\ (n > 0 => CallsLeft(w) = n - e /\ CallsLeft(w) >= 0)
    BY <2>1, CatchUp DEF DueInv
  <2>3. /\ cron'[c].numbercall = CallsLeft(w)
        /\ \A j \in Job : j # c => cron'[j] = cron[j]
    <3>1. row[w] \in CronRow /\ cron \in [Job -> CronRow]
      BY DEF DueInv, TypeInv, TypeOK
    <3> QED  BY <1>4, <2>1, <3>1 DEF Reschedule, Release, CronRow
  <2>4. /\ \A j \in Job : j # c => called'[j] = called[j]
        /\ called'[c] = IF n < 0 THEN called[c] ELSE called[c] + e
    BY <1>4, <2>1 DEF Reschedule, DueInv, TypeInv, TypeOK
  <2>5. called[c] \in Int /\ Numbercall[c] \in Int
    BY <2>1, JobAssumption DEF DueInv, TypeInv, TypeOK
  <2> HIDE DEF c, n, e
  <2>6. Numbercall[c] >= 0 => n > 0 /\ called[c] + n = Numbercall[c]
    BY <2>1 DEF NumbercallKept
  <2>7. Numbercall[c] >= 0 =>
          cron'[c].numbercall >= 0 /\ called'[c] + cron'[c].numbercall = Numbercall[c]
    BY <2>1, <2>2, <2>3, <2>4, <2>5, <2>6
  <2> QED  BY <2>3, <2>4, <2>7 DEF NumbercallKept
<1>5. ASSUME NEW j \in Job, NEW new \in Edits(j), Write(j, new) PROVE NumbercallKept'
  <2>1. new.numbercall = cron[j].numbercall
    BY DEF Edits, DueInv, TypeInv, TypeOK, CronRow
  <2>2. called' = called /\ \A i \in Job : cron'[i].numbercall = cron[i].numbercall
    BY <1>5, <2>1 DEF Write, history, DueInv, TypeInv, TypeOK
  <2> QED  BY <2>2 DEF NumbercallKept
<1> QED  BY <1>2, <1>3, <1>4, <1>5, RowSteps

\* The numbercall of a job is exact, calls that were missed and are made up for
\* included.
THEOREM CallsExact == Spec => []NumbercallKept
<1>1. Init => NumbercallKept
  BY JobAssumption DEF Init, NumbercallKept
<1> QED  BY <1>1, InitDue, DueStep, CallsStep, PTL DEF Spec

-----------------------------------------------------------------------------
LEMMA PastStep == DueInv /\ PastInv /\ [Next]_vars => PastInv'
<1> SUFFICES ASSUME DueInv, PastInv, [Next]_vars PROVE PastInv'
  OBVIOUS
<1>0. clock \in Int /\ \A t \in Trigger : t.call_at \in Int
  BY BoundAssumption DEF DueInv, TypeInv, TypeOK, Time, Trigger
<1>1. \A t \in Present.past : t \in Trigger /\ t.call_at <= clock
  BY <1>0 DEF Present, DueInv, TypeInv, TypeOK
<1>2. \A w \in Worker : phase[w] \in {"loop", "open"} =>
        \A t \in Seen(w).past : t \in Trigger /\ t.call_at <= clock
  BY <1>1 DEF PastInv, Seen
<1>3. ASSUME NEW w \in Worker, Poll(w) PROVE PastInv'
  BY <1>1, <1>3 DEF DueInv, TypeInv, TypeOK, PastInv, Poll
<1>4. ASSUME NEW w \in Worker, NEW j \in Job, Acquire(w, j) PROVE PastInv'
  BY <1>2, <1>4 DEF DueInv, TypeInv, TypeOK, PastInv, Acquire, InLoop
<1>5. ASSUME NEW w \in Worker, NEW j \in Job, SkipJob(w, j) \/ SkipProcessed(w, j) PROVE PastInv'
  <2>1. CASE SkipJob(w, j)
    BY <1>2, <2>1 DEF DueInv, TypeInv, TypeOK, PastInv, SkipJob, InLoop
  <2>2. CASE SkipProcessed(w, j)
    BY <2>2 DEF DueInv, TypeInv, TypeOK, PastInv, SkipProcessed
  <2> QED  BY <1>5, <2>1, <2>2
<1>6. ASSUME NEW w \in Worker, EndLoop(w) PROVE PastInv'
  BY <1>6 DEF DueInv, TypeInv, TypeOK, PastInv, EndLoop
<1>7. ASSUME NEW w \in Worker, NEW new, Release(w, new), clock' = clock PROVE PastInv'
  BY <1>7 DEF DueInv, TypeInv, TypeOK, PastInv, Release
<1>8. ASSUME NEW w \in Worker, Disable(w) \/ Reschedule(w) PROVE PastInv'
  BY <1>7, <1>8 DEF Disable, Reschedule
<1>9. ASSUME NEW w \in Worker, Run(w) PROVE PastInv'
  BY <1>9 DEF DueInv, TypeInv, TypeOK, PastInv, Run
<1>10. ASSUME NEW w \in Worker, Fail(w) PROVE PastInv'
  BY <1>10 DEF DueInv, TypeInv, TypeOK, PastInv, Fail
<1>11. ASSUME NEW j \in Job, NEW new \in Edits(j), Write(j, new) PROVE PastInv'
  BY <1>11 DEF PastInv, Write
<1>12. ASSUME NEW j \in Job, NEW at \in Time, CallAt(j, at) PROVE PastInv'
  BY <1>12 DEF PastInv, CallAt, worker
<1>13. ASSUME Tick PROVE PastInv'
  BY <1>0, <1>13 DEF PastInv, Tick, worker
<1>14. ASSUME UNCHANGED vars PROVE PastInv'
  BY <1>14 DEF PastInv, vars
<1> QED
  BY <1>3, <1>4, <1>5, <1>6, <1>8, <1>9, <1>10, <1>11, <1>12, <1>13, <1>14, StepCases

LEMMA FreshStep == DueInv /\ PastInv /\ FreshInv /\ [Next]_vars => FreshInv'
<1> SUFFICES ASSUME DueInv, PastInv, FreshInv, [Next]_vars PROVE FreshInv'
  OBVIOUS
<1>1. ASSUME NEW w \in Worker, Poll(w) PROVE FreshInv'
  BY <1>1 DEF DueInv, TypeInv, TypeOK, FreshInv, HasJob, Poll, history
<1>2. ASSUME NEW w \in Worker, NEW j \in Job, Acquire(w, j) PROVE FreshInv'
  <2>1. \A t \in Seen(w).past : t.cron = j => t \in trigger
    BY <1>2 DEF Acquire, Acquirable, InLoop, DueInv, SnapInv, Seen, Stale, Present
  <2> QED  BY <1>2, <2>1 DEF DueInv, TypeInv, TypeOK, FreshInv, HasJob, Acquire, history
<1>3. ASSUME NEW w \in Worker, NEW j \in Job, SkipJob(w, j) \/ SkipProcessed(w, j) PROVE FreshInv'
  <2>1. CASE SkipJob(w, j)
    BY <2>1 DEF DueInv, TypeInv, TypeOK, FreshInv, HasJob, SkipJob, history
  <2>2. CASE SkipProcessed(w, j)
    BY <2>2 DEF DueInv, TypeInv, TypeOK, FreshInv, HasJob, SkipProcessed, history
  <2> QED  BY <1>3, <2>1, <2>2
<1>4. ASSUME NEW w \in Worker, EndLoop(w) PROVE FreshInv'
  BY <1>4 DEF DueInv, TypeInv, TypeOK, FreshInv, HasJob, EndLoop, history
<1>5. ASSUME NEW w \in Worker, NEW new, Release(w, new)
      PROVE  \A v \in Worker : HasJob(v)' =>
               v # w /\ HasJob(v) /\ phase'[v] = phase[v] /\ snap'[v] = snap[v]
                 /\ current'[v] = current[v]
  BY <1>5 DEF DueInv, TypeInv, TypeOK, HasJob, Release
<1>6. ASSUME NEW w \in Worker, Disable(w) PROVE FreshInv'
  BY <1>5, <1>6 DEF FreshInv, Disable, history
<1>7. ASSUME NEW w \in Worker, Run(w) PROVE FreshInv'
  <2>1. \A t \in snap[w].past : t.cron = current[w] => t \notin fresh'
    BY <1>7 DEF PastInv, Run, UtcNow
  <2> QED  BY <1>7, <2>1 DEF DueInv, TypeInv, TypeOK, FreshInv, HasJob, Run
<1>8. ASSUME NEW w \in Worker, Reschedule(w) PROVE FreshInv'
  <2>1. HasJob(w) /\ phase[w] = "ran" /\ trigger' = trigger \ Consumed(w) /\ fresh' = fresh
    BY <1>8 DEF Reschedule, HasJob
  <2>2. \A t \in Consumed(w) : t.cron = current[w] /\ t \notin fresh
    BY <2>1 DEF Consumed, FreshInv
  <2>3. \A v \in Worker : v # w /\ HasJob(v) => current[v] # current[w]
    BY <2>1 DEF DueInv, TypeInv, Holding
  <2> QED  BY <1>5, <1>8, <2>1, <2>2, <2>3 DEF FreshInv, Reschedule
<1>9. ASSUME NEW w \in Worker, Fail(w) PROVE FreshInv'
  BY <1>9 DEF DueInv, TypeInv, TypeOK, FreshInv, HasJob, Fail, history
<1>10. ASSUME NEW j \in Job, NEW new \in Edits(j), Write(j, new) PROVE FreshInv'
  BY <1>10 DEF FreshInv, HasJob, Write, history
<1>11. ASSUME NEW j \in Job, NEW at \in Time, CallAt(j, at) PROVE FreshInv'
  BY <1>11 DEF FreshInv, HasJob, CallAt, worker
<1>12. ASSUME Tick PROVE FreshInv'
  BY <1>12 DEF FreshInv, HasJob, Tick, worker, history
<1>13. ASSUME UNCHANGED vars PROVE FreshInv'
  BY <1>13 DEF FreshInv, HasJob, vars
<1> QED
  BY <1>1, <1>2, <1>3, <1>4, <1>6, <1>7, <1>8, <1>9, <1>10, <1>11, <1>12, <1>13, StepCases

\* No trigger is removed before a run of its job has started at or after the
\* time it is for: not by a run before that time, and not by one that started
\* before the trigger was set (DELETE in _process_job).
THEOREM TriggersHonoured == Spec => []TriggersKept
<1>1. Init => FreshInv /\ PastInv
  BY DEF Init, FreshInv, PastInv, HasJob
<1>2. FreshInv => TriggersKept
  BY DEF FreshInv, TriggersKept
<1> QED  BY <1>1, <1>2, InitDue, DueStep, PastStep, FreshStep, PTL DEF Spec

-----------------------------------------------------------------------------
\* A job that a user has deactivated is activated by a user only.
THEOREM UsersDecide == Spec => DeactivationStands
<1> DEFINE Stands == \A j \in Job : ~cron[j].active /\ cron'[j].active => Write(j, cron'[j])
<1>1. DueInv /\ [Next]_vars => [Stands]_vars
  <2> SUFFICES ASSUME DueInv, [Next]_vars, NEW j \in Job, ~cron[j].active, cron'[j].active
               PROVE  Write(j, cron'[j])
    OBVIOUS
  <2>1. \A w \in Worker : phase[w] \in {"acquired", "ran"} =>
          current[w] \in Job /\ row[w] = cron[current[w]] /\ row[w] \in CronRow
    BY DEF DueInv, TypeInv, TypeOK, Holding, HasJob
  <2>2. ASSUME NEW w \in Worker, Disable(w) PROVE FALSE
    BY <2>1, <2>2 DEF Disable, Release, DueInv, TypeInv, TypeOK, CronRow
  <2>3. ASSUME NEW w \in Worker, Reschedule(w) PROVE FALSE
    BY <2>1, <2>3 DEF Reschedule, Release, DueInv, TypeInv, TypeOK, CronRow
  <2>4. ASSUME NEW i \in Job, NEW new \in Edits(i), Write(i, new) PROVE Write(j, cron'[j])
    BY <2>4 DEF Write, DueInv, TypeInv, TypeOK
  <2> QED  BY <2>2, <2>3, <2>4, RowSteps
<1> QED  BY <1>1, InitDue, DueStep, PTL DEF Spec, DeactivationStands

=============================================================================

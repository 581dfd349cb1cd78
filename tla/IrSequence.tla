----------------------------- MODULE IrSequence -----------------------------
(***************************************************************************)
(* Numbering by one `ir.sequence' row (src/odoo/addons/base/models/        *)
(* ir_sequence.py), drawn by RPC requests that run concurrently, each in a *)
(* REPEATABLE READ transaction that service/model.py retries.              *)
(*                                                                         *)
(* Every document, customer, contract and quotation number of the three    *)
(* business addons is drawn here (next_by_code).                           *)
(*                                                                         *)
(* A request draws any number of numbers in its transaction and commits    *)
(* them with the records that carry them, or is rolled back.  The two      *)
(* implementations differ in what a rollback does: a `standard' sequence   *)
(* is a PostgreSQL sequence, whose nextval() is never undone; a `no_gap'   *)
(* one is the column number_next of the row, read first, then locked with  *)
(* FOR UPDATE NOWAIT, then updated.                                        *)
(***************************************************************************)
EXTENDS Integers

CONSTANTS
  Request,      \* RPC requests (worker threads running one call each)
  NoRequest,    \* owner of a free row lock
  Start,        \* number_next of the sequence when it is created
  Increment,    \* number_increment
  InitialImpl,  \* implementation of the sequence when it is created
  SwitchTo,     \* implementations an administrator may switch it to
  MaxTries,     \* MAX_TRIES_ON_CONCURRENCY_FAILURE
  MaxCalls,     \* bound: numbers drawn by one transaction
  MaxNumber     \* bound: largest number drawn

Implementation == {"standard", "no_gap"}

ASSUME RequestAssumption   == NoRequest \notin Request
ASSUME NumberAssumption    == /\ Start \in Nat
                              /\ Increment \in Nat \ {0}
                              /\ MaxTries \in Nat
                              /\ MaxCalls \in Nat
                              /\ MaxNumber \in Nat
ASSUME SequenceAssumption  == /\ InitialImpl \in Implementation
                              /\ SwitchTo \subseteq Implementation

VARIABLES
  row,          \* the committed row: implementation and number_next
  nextval,      \* next value of the PostgreSQL sequence, while there is one
  lock,         \* the request whose transaction locked the row
  phase,        \* where each request is
  tries,        \* retries of each request so far
  view,         \* the row as each open transaction sees it
  missed,       \* the row was updated by a commit the transaction cannot see
  local,        \* number_next read by _update_nogap before it locks
  calls,        \* how many numbers each open transaction has drawn
  drawn,        \* those numbers
  assigned,     \* numbers on committed records
  switched      \* history: implementations the sequence was changed to

vars == <<row, nextval, lock, phase, tries, view, missed, local, calls, drawn,
          assigned, switched>>

Phase == {"idle", "open", "read", "done", "failed"}

Row   == [implementation : Implementation, number_next : Nat]

\* A number as drawn: the call-th number of request req.
Draw  == [req : Request, call : Nat, number : Nat]

TypeOK ==
  /\ row      \in Row
  /\ nextval  \in Nat
  /\ lock     \in Request \cup {NoRequest}
  /\ phase    \in [Request -> Phase]
  /\ tries    \in [Request -> Nat]
  /\ view     \in [Request -> Row]
  /\ missed   \in [Request -> BOOLEAN]
  /\ local    \in [Request -> Nat]
  /\ calls    \in [Request -> Nat]
  /\ drawn    \in [Request -> SUBSET Draw]
  /\ assigned \subseteq Draw
  /\ switched \subseteq Implementation

Active(r) == phase[r] \in {"open", "read"}

InitialRow == [implementation |-> InitialImpl, number_next |-> Start]

Init ==
  /\ row      = InitialRow
  /\ nextval  = Start
  /\ lock     = NoRequest
  /\ phase    = [r \in Request |-> "idle"]
  /\ tries    = [r \in Request |-> 0]
  /\ view     = [r \in Request |-> InitialRow]
  /\ missed   = [r \in Request |-> FALSE]
  /\ local    = [r \in Request |-> Start]
  /\ calls    = [r \in Request |-> 0]
  /\ drawn    = [r \in Request |-> {}]
  /\ assigned = {}
  /\ switched = {}

-----------------------------------------------------------------------------
(* Transactions *)

\* A (re)tried call opens a cursor; its first query takes the snapshot.
Begin(r) ==
  /\ phase[r] = "idle"
  /\ phase'  = [phase EXCEPT ![r] = "open"]
  /\ view'   = [view EXCEPT ![r] = row]
  /\ missed' = [missed EXCEPT ![r] = FALSE]
  /\ UNCHANGED <<row, nextval, lock, tries, local, calls, drawn, assigned, switched>>

\* Mutant of Rollback: the UPDATE of number_next was made on a cursor of its
\* own, already committed.
Rollback_OwnCursor(r) ==
  /\ lock'   = IF lock = r THEN NoRequest ELSE lock
  /\ row'    = IF lock = r THEN view[r] ELSE row
  /\ missed' = [q \in Request |-> missed[q] \/ lock = r]
  /\ calls'  = [calls EXCEPT ![r] = 0]
  /\ drawn'  = [drawn EXCEPT ![r] = {}]
  /\ UNCHANGED <<nextval, view, local, assigned, switched>>

\* Whatever the transaction wrote goes away, its row lock with it.
Rollback(r) ==
  /\ lock'  = IF lock = r THEN NoRequest ELSE lock
  /\ calls' = [calls EXCEPT ![r] = 0]
  /\ drawn' = [drawn EXCEPT ![r] = {}]
  /\ UNCHANGED <<row, nextval, view, missed, local, assigned, switched>>

\* The request made its records and COMMITs: number_next, when it updated
\* it, reaches the other transactions, but not their snapshots.
Commit(r) ==
  /\ phase[r] = "open"
  /\ drawn[r] # {}
  /\ phase'    = [phase EXCEPT ![r] = "done"]
  /\ assigned' = assigned \cup drawn[r]
  /\ drawn'    = [drawn EXCEPT ![r] = {}]
  /\ row'      = IF lock = r THEN view[r] ELSE row
  /\ lock'     = IF lock = r THEN NoRequest ELSE lock
  /\ missed'   = [q \in Request |-> missed[q] \/ lock = r]
  /\ UNCHANGED <<nextval, tries, view, local, calls, switched>>

\* Mutant of Abort: the request is left in a state nothing handles.
Abort_NoState(r) ==
  /\ Active(r)
  /\ phase' = [phase EXCEPT ![r] = "aborted"]
  /\ Rollback(r)
  /\ UNCHANGED tries

\* A UserError, a constraint of the record, a killed worker: no retry.
Abort(r) ==
  /\ Active(r)
  /\ phase' = [phase EXCEPT ![r] = "failed"]
  /\ Rollback(r)
  /\ UNCHANGED tries

-----------------------------------------------------------------------------
(* Drawing a number *)

Take(r, number) ==
  /\ calls' = [calls EXCEPT ![r] = @ + 1]
  /\ drawn' = [drawn EXCEPT ![r] =
                 @ \cup {[req |-> r, call |-> calls[r], number |-> number]}]

\* _select_nextval: not undone by a rollback, seen by everybody at once.
SelectNextval(r) ==
  /\ phase[r] = "open"
  /\ view[r].implementation = "standard"
  /\ row.implementation = "standard"
  /\ calls[r] < MaxCalls
  /\ nextval <= MaxNumber
  /\ Take(r, nextval)
  /\ nextval' = nextval + Increment
  /\ UNCHANGED <<row, lock, phase, tries, view, missed, local, assigned, switched>>

\* The snapshot still says `standard' but the PostgreSQL sequence was dropped:
\* an error that is not retried.
NextvalUndefined(r) ==
  /\ phase[r] = "open"
  /\ view[r].implementation = "standard"
  /\ row.implementation = "no_gap"
  /\ phase' = [phase EXCEPT ![r] = "failed"]
  /\ Rollback(r)
  /\ UNCHANGED tries

\* _update_nogap, first statement: number_next is read before the lock.
ReadNumberNext(r) ==
  /\ phase[r] = "open"
  /\ view[r].implementation = "no_gap"
  /\ calls[r] < MaxCalls
  /\ view[r].number_next <= MaxNumber
  /\ phase' = [phase EXCEPT ![r] = "read"]
  /\ local' = [local EXCEPT ![r] = view[r].number_next]
  /\ UNCHANGED <<row, nextval, lock, tries, view, missed, calls, drawn, assigned, switched>>

\* PostgreSQL grants FOR UPDATE NOWAIT if nobody else holds the row and the
\* snapshot has its last committed version.
LockGranted(r) == lock \in {r, NoRequest} /\ ~missed[r]

\* What UPDATE ... SET number_next = number_next + %s adds to.
CurrentNumber(r) == IF lock = r THEN view[r].number_next ELSE row.number_next

LockAndUpdate(r) ==
  /\ phase[r] = "read"
  /\ LockGranted(r)
  /\ Take(r, local[r])
  /\ lock'  = r
  /\ view'  = [view EXCEPT ![r].number_next = CurrentNumber(r) + Increment]
  /\ phase' = [phase EXCEPT ![r] = "open"]
  /\ UNCHANGED <<row, nextval, tries, missed, local, assigned, switched>>

\* LOCK_NOT_AVAILABLE or SERIALIZATION_FAILURE: the call is rolled back and
\* made again from the start ...
Retry(r) ==
  /\ phase[r] = "read"
  /\ ~LockGranted(r)
  /\ tries[r] < MaxTries
  /\ phase' = [phase EXCEPT ![r] = "idle"]
  /\ tries' = [tries EXCEPT ![r] = @ + 1]
  /\ Rollback(r)

\* ... unless it was retried MaxTries times: "maximum number of tries reached".
GiveUp(r) ==
  /\ phase[r] = "read"
  /\ ~LockGranted(r)
  /\ tries[r] >= MaxTries
  /\ phase' = [phase EXCEPT ![r] = "failed"]
  /\ Rollback(r)
  /\ UNCHANGED tries

-----------------------------------------------------------------------------
(* IrSequence.write with a new implementation, by an administrator.  The   *)
(* UPDATE of the row waits for its lock, and DROP SEQUENCE for every open  *)
(* transaction that used the PostgreSQL sequence.                          *)

UsesPgSequence(r) == drawn[r] # {} /\ view[r].implementation = "standard"

\* Mutant of RowWritable: the write does not wait for the row lock.
RowWritable_NoWait(new) ==
  new = "no_gap" => \A r \in Request : ~UsesPgSequence(r)

RowWritable(new) ==
  /\ lock = NoRequest
  /\ new = "no_gap" => \A r \in Request : ~UsesPgSequence(r)

\* Mutant of CreateSequence: the numbering starts as that of a new sequence.
CreateSequence_Default == Start

\* CREATE SEQUENCE ... START WITH the number_next of the row.
CreateSequence == row.number_next

WriteImplementation(new) ==
  /\ new \in SwitchTo
  /\ new # row.implementation
  /\ RowWritable(new)
  /\ row'      = [row EXCEPT !.implementation = new]
  /\ nextval'  = IF new = "standard" THEN CreateSequence ELSE nextval
  /\ missed'   = [r \in Request |-> TRUE]
  /\ switched' = switched \cup {new}
  /\ UNCHANGED <<lock, phase, tries, view, local, calls, drawn, assigned>>

-----------------------------------------------------------------------------
Step(r) ==
  \/ Begin(r)
  \/ SelectNextval(r)
  \/ NextvalUndefined(r)
  \/ ReadNumberNext(r)
  \/ LockAndUpdate(r)
  \/ Retry(r)
  \/ GiveUp(r)
  \/ Commit(r)
  \/ Abort(r)

Next ==
  \/ \E r \in Request : Step(r)
  \/ \E new \in SwitchTo : WriteImplementation(new)

Spec == Init /\ [][Next]_vars

-----------------------------------------------------------------------------
(* Properties *)

\* Every number that is on a record, or that an open transaction is about to
\* put on one.
Handed == assigned \cup UNION {drawn[r] : r \in Request}

\* "Such objects are used to generate unique identifiers in a transaction-safe
\* way" (ir_sequence.py, docstring of IrSequence): no two draws that survive,
\* of one request or of two, have the same number, whether the sequence is
\* standard, no_gap or no_gap made standard.  One that is made no_gap starts
\* again at the number_next it has, which a standard sequence does not keep up.
UniqueNumbers ==
  "no_gap" \notin switched => \A x, y \in Handed : x.number = y.number => x = y

\* "The 'no gap' sequence implementation ensures that each previous sequence
\* number has been assigned already" (ir_sequence.py, help of implementation):
\* below every number on a record the previous one is on a record too, however
\* the transactions that drew in between ended, while the sequence is no_gap.
NoGap ==
  InitialImpl = "no_gap" /\ switched = {} =>
  \A x \in assigned :
    x.number = Start \/ \E y \in assigned : y.number + Increment = x.number

\* The row lock never outlives the transaction that took it: a request that
\* was answered, failed or waits for its retry blocks nobody.
LockHeldByActive == lock # NoRequest => Active(lock)

\* A change of the implementation never lands in the middle of a transaction
\* that draws: while numbers drawn from one implementation are not committed,
\* the sequence still has that implementation.
NoMixedImplementation ==
  \A r \in Request :
    drawn[r] # {} => view[r].implementation = row.implementation
=============================================================================

-------------------------- MODULE IrSequenceProofs --------------------------
(***************************************************************************)
(* Theorems about IrSequence, for any number of requests, any start, step  *)
(* and retry limit.  What keeps numbers apart is stated once, in           *)
(* LockInv (who may have drawn what) and BoundInv (what was drawn is below *)
(* what will be drawn next); uniqueness and gaplessness rest on the two.   *)
(***************************************************************************)
EXTENDS IrSequence, TLAPS

-----------------------------------------------------------------------------
(* Every variable keeps its type: a refused lock, a dropped PostgreSQL     *)
(* sequence or a switch of the implementation leaves no request in a state *)
(* the others do not expect.                                               *)
LEMMA TypeInit == Init => TypeOK
  BY RequestAssumption, NumberAssumption, SequenceAssumption
     DEF Init, TypeOK, InitialRow, Row, Phase, Implementation

LEMMA TypeNext == TypeOK /\ [Next]_vars => TypeOK'
<1> SUFFICES ASSUME TypeOK, [Next]_vars
             PROVE  TypeOK'
  OBVIOUS
<1> USE NumberAssumption, SequenceAssumption
    DEF TypeOK, Row, Phase, Implementation, Draw
<1>1. CASE UNCHANGED vars
  BY <1>1 DEF vars
<1>2. ASSUME NEW r \in Request, Begin(r)
      PROVE  TypeOK'
  BY <1>2 DEF Begin
<1>3. ASSUME NEW r \in Request, SelectNextval(r)
      PROVE  TypeOK'
  BY <1>3 DEF SelectNextval, Take
<1>4. ASSUME NEW r \in Request, NextvalUndefined(r)
      PROVE  TypeOK'
  BY <1>4 DEF NextvalUndefined, Rollback
<1>5. ASSUME NEW r \in Request, ReadNumberNext(r)
      PROVE  TypeOK'
  BY <1>5 DEF ReadNumberNext
<1>6. ASSUME NEW r \in Request, LockAndUpdate(r)
      PROVE  TypeOK'
  BY <1>6 DEF LockAndUpdate, Take, CurrentNumber
<1>7. ASSUME NEW r \in Request, Retry(r) \/ GiveUp(r)
      PROVE  TypeOK'
  <2>1. CASE Retry(r)
    BY <2>1 DEF Retry, Rollback
  <2>2. CASE GiveUp(r)
    BY <2>2 DEF GiveUp, Rollback
  <2> QED
    BY <1>7, <2>1, <2>2
<1>8. ASSUME NEW r \in Request, Commit(r)
      PROVE  TypeOK'
  BY <1>8 DEF Commit
<1>9. ASSUME NEW r \in Request, Abort(r)
      PROVE  TypeOK'
  BY <1>9 DEF Abort, Rollback
<1>10. ASSUME NEW new \in SwitchTo, WriteImplementation(new)
       PROVE  TypeOK'
  BY <1>10 DEF WriteImplementation, CreateSequence
<1> QED
  BY <1>1, <1>2, <1>3, <1>4, <1>5, <1>6, <1>7, <1>8, <1>9, <1>10
     DEF Next, Step

THEOREM TypeCorrect == Spec => []TypeOK
  BY TypeInit, TypeNext, PTL DEF Spec

-----------------------------------------------------------------------------
(* Who may have drawn what, and what an open transaction may believe.      *)

\* The holder of the row lock is open, its snapshot was current when it took
\* the lock, and the sequence is still no_gap.
HolderIsCurrent ==
  lock # NoRequest => /\ Active(lock)
                      /\ ~missed[lock]
                      /\ row.implementation = "no_gap"
                      /\ view[lock].implementation = "no_gap"

\* Only an open transaction has numbers that are not committed.
DrawnByActive == \A r \in Request : drawn[r] # {} => Active(r)

\* A snapshot that missed nothing is the committed row.
CurrentView ==
  \A r \in Request : Active(r) /\ ~missed[r] /\ lock # r => view[r] = row

\* Between its two statements _update_nogap holds the number it read.
LocalIsView ==
  \A r \in Request :
    phase[r] = "read" => /\ view[r].implementation = "no_gap"
                         /\ local[r] = view[r].number_next

\* Draws are told apart by their request and their rank in it, and a committed
\* draw belongs to a request that has ended.
DrawsNamed ==
  /\ \A r \in Request : \A x \in drawn[r] : x.req = r /\ x.call < calls[r]
  /\ \A x \in assigned : phase[x.req] = "done"

\* Numbers of a no_gap sequence are drawn under the lock.
DrawnUnderLock ==
  \A r \in Request :
    drawn[r] # {} /\ view[r].implementation = "no_gap" => lock = r

LockInv ==
  /\ TypeOK
  /\ HolderIsCurrent
  /\ DrawnByActive
  /\ CurrentView
  /\ LocalIsView
  /\ DrawsNamed
  /\ DrawnUnderLock
  /\ NoMixedImplementation

LEMMA LockInit == Init => LockInv
<1> SUFFICES ASSUME Init
             PROVE  LockInv
  OBVIOUS
<1>1. TypeOK
  BY TypeInit
<1> QED
  BY <1>1 DEF Init, LockInv, HolderIsCurrent, DrawnByActive, CurrentView, LocalIsView,
     DrawsNamed, DrawnUnderLock, NoMixedImplementation, Active

\* A rollback, by any of the ways a transaction fails, restores nothing else
\* and leaves nothing behind.
LEMMA LockRollback ==
  ASSUME LockInv, TypeOK', NEW r \in Request, Active(r), Rollback(r),
         NEW p \in {"idle", "failed"}, phase' = [phase EXCEPT ![r] = p]
  PROVE  LockInv'
<1> USE DEF LockInv, Active, Rollback, TypeOK
<1>1. drawn'[r] = {} /\ \A q \in Request \ {r} : drawn'[q] = drawn[q]
  OBVIOUS
<1>2. lock' # r /\ (lock' # NoRequest => lock' = lock)
  BY RequestAssumption
<1>3. HolderIsCurrent'
  BY <1>2 DEF HolderIsCurrent
<1>4. DrawnByActive'
  BY <1>1 DEF DrawnByActive
<1>5. CurrentView'
  BY DEF CurrentView
<1>6. LocalIsView'
  BY DEF LocalIsView
<1>7. DrawsNamed'
  BY <1>1 DEF DrawsNamed, Draw
<1>8. DrawnUnderLock'
  BY <1>1, RequestAssumption DEF DrawnUnderLock
<1>9. NoMixedImplementation'
  BY <1>1 DEF NoMixedImplementation
<1> QED
  BY <1>3, <1>4, <1>5, <1>6, <1>7, <1>8, <1>9

LEMMA LockNext == LockInv /\ [Next]_vars => LockInv'
<1> SUFFICES ASSUME LockInv, [Next]_vars
             PROVE  LockInv'
  OBVIOUS
<1>0. TypeOK'
  BY TypeNext DEF LockInv
<1> USE DEF LockInv, HolderIsCurrent, DrawnByActive, CurrentView, LocalIsView,
            DrawsNamed, DrawnUnderLock, NoMixedImplementation, Active
<1>1. CASE UNCHANGED vars
  BY <1>0, <1>1 DEF vars
<1>2. ASSUME NEW r \in Request, Begin(r)
      PROVE  LockInv'
  BY <1>0, <1>2, RequestAssumption DEF Begin, TypeOK, Row, Draw
<1>3. ASSUME NEW r \in Request, SelectNextval(r)
      PROVE  LockInv'
  BY <1>0, <1>3, RequestAssumption DEF SelectNextval, Take, TypeOK, Row, Draw
<1>4. ASSUME NEW r \in Request, NextvalUndefined(r)
      PROVE  LockInv'
  BY <1>0, <1>4, LockRollback DEF NextvalUndefined
<1>5. ASSUME NEW r \in Request, ReadNumberNext(r)
      PROVE  LockInv'
  BY <1>0, <1>5, RequestAssumption DEF ReadNumberNext, TypeOK, Row, Draw
<1>6. ASSUME NEW r \in Request, LockAndUpdate(r)
      PROVE  LockInv'
  BY <1>0, <1>6, RequestAssumption
     DEF LockAndUpdate, Take, LockGranted, TypeOK, Row, Draw
<1>7. ASSUME NEW r \in Request, Retry(r) \/ GiveUp(r)
      PROVE  LockInv'
  BY <1>0, <1>7, LockRollback DEF Retry, GiveUp
<1>8. ASSUME NEW r \in Request, Commit(r)
      PROVE  LockInv'
  <2> USE <1>8 DEF Commit, TypeOK
  <2>1. drawn'[r] = {} /\ \A q \in Request \ {r} : drawn'[q] = drawn[q]
    OBVIOUS
  <2>2. HolderIsCurrent'
    BY RequestAssumption
  <2>3. DrawnByActive'
    BY <2>1
  <2>4. CurrentView'
    BY RequestAssumption
  <2>5. LocalIsView'
    OBVIOUS
  <2>6. DrawsNamed'
    BY <2>1 DEF Draw
  <2>7. DrawnUnderLock'
    BY <2>1, RequestAssumption
  <2>8. NoMixedImplementation'
    BY <2>1, RequestAssumption DEF Row
  <2> QED
    BY <1>0, <2>2, <2>3, <2>4, <2>5, <2>6, <2>7, <2>8
<1>9. ASSUME NEW r \in Request, Abort(r)
      PROVE  LockInv'
  BY <1>0, <1>9, LockRollback DEF Abort
<1>10. ASSUME NEW new \in SwitchTo, WriteImplementation(new)
       PROVE  LockInv'
  <2> USE <1>10 DEF WriteImplementation, TypeOK
  <2>1. \A r \in Request : drawn[r] = {}
    BY SequenceAssumption, RequestAssumption
       DEF RowWritable, UsesPgSequence, Row, Implementation
  <2>2. lock' = NoRequest
    BY DEF RowWritable
  <2>3. DrawnByActive' /\ DrawsNamed' /\ DrawnUnderLock' /\ NoMixedImplementation'
    BY <2>1
  <2>4. HolderIsCurrent' /\ CurrentView' /\ LocalIsView'
    BY <2>2
  <2> QED
    BY <1>0, <2>3, <2>4
<1> QED
  BY <1>1, <1>2, <1>3, <1>4, <1>5, <1>6, <1>7, <1>8, <1>9, <1>10
     DEF Next, Step

LEMMA LockInvariant == Spec => []LockInv
  BY LockInit, LockNext, PTL DEF Spec

\* The row lock never outlives its transaction, however the transaction ends.
THEOREM LockSafety == Spec => []LockHeldByActive
<1>1. LockInv => LockHeldByActive
  BY DEF LockInv, HolderIsCurrent, LockHeldByActive
<1> QED
  BY <1>1, LockInvariant, PTL

\* The implementation never changes under a transaction that has drawn: a
\* switch waits for the row, or there is nothing it could have drawn.
THEOREM ImplementationStays == Spec => []NoMixedImplementation
<1>1. LockInv => NoMixedImplementation
  BY DEF LockInv
<1> QED
  BY <1>1, LockInvariant, PTL

-----------------------------------------------------------------------------
(* Uniqueness.  Every number drawn is below the next one to be drawn, as   *)
(* long as no administrator has turned a standard sequence into a no_gap   *)
(* one, which restarts from the number_next the row was created with.      *)

\* UniqueNumbers, whatever the implementation was.
Distinct == \A x, y \in Handed : x.number = y.number => x = y

\* A standard sequence: nextval is above everything that was drawn.
BelowNextval ==
  row.implementation = "standard" => \A x \in Handed : x.number < nextval

\* A no_gap sequence: number_next is above everything on a record, and the
\* lock holder's own number_next is also above what it has drawn itself.
BelowNumberNext ==
  row.implementation = "no_gap" =>
    /\ \A x \in assigned : x.number < row.number_next
    /\ \A r \in Request : \A x \in drawn[r] : x.number < view[r].number_next
    /\ \A r \in Request : lock = r => row.number_next <= view[r].number_next

BoundInv ==
  /\ LockInv
  /\ BelowNextval
  /\ BelowNumberNext
  /\ Distinct

LEMMA BoundInit == Init => BoundInv
  BY LockInit, RequestAssumption
     DEF Init, BoundInv, BelowNextval, BelowNumberNext, Distinct, Handed

\* Drawing a number above all the others keeps them distinct.
LEMMA TakeHanded ==
  ASSUME LockInv, NEW r \in Request, NEW n \in Nat, Take(r, n), assigned' = assigned
  PROVE  Handed' = Handed \cup {[req |-> r, call |-> calls[r], number |-> n]}
  BY DEF LockInv, TypeOK, Take, Handed

LEMMA TakeDistinct ==
  ASSUME LockInv, Distinct, NEW r \in Request, NEW n \in Nat, Take(r, n),
         assigned' = assigned, \A x \in Handed : x.number < n
  PROVE  Distinct'
<1>1. \A x \in Handed : x.number \in Nat
  BY DEF LockInv, TypeOK, Handed, Draw
<1> QED
  BY <1>1, TakeHanded DEF Distinct

\* A rollback hands nothing out and moves neither counter.
LEMMA BoundRollback ==
  ASSUME BoundInv, NEW r \in Request, Rollback(r)
  PROVE  BelowNextval' /\ BelowNumberNext' /\ Distinct'
<1> USE DEF BoundInv, LockInv, TypeOK, Rollback
<1>1. drawn'[r] = {} /\ \A q \in Request \ {r} : drawn'[q] = drawn[q]
  OBVIOUS
<1>2. Handed' \subseteq Handed
  BY <1>1 DEF Handed
<1>3. BelowNextval' /\ Distinct'
  BY <1>2 DEF BelowNextval, Distinct
<1>4. BelowNumberNext'
  BY <1>1, RequestAssumption DEF BelowNumberNext
<1> QED
  BY <1>3, <1>4

LEMMA BoundNext ==
  ASSUME "no_gap" \notin switched', BoundInv, [Next]_vars
  PROVE  BoundInv'
<1>0. LockInv'
  BY LockNext DEF BoundInv
<1> USE DEF BoundInv, BelowNextval, BelowNumberNext
<1>1. CASE UNCHANGED vars
  BY <1>0, <1>1 DEF vars, Distinct, Handed
<1>2. ASSUME NEW r \in Request, Begin(r)
      PROVE  BoundInv'
  <2> USE <1>2 DEF Begin, LockInv, TypeOK, HolderIsCurrent, DrawnByActive, Active
  <2>1. drawn[r] = {} /\ lock # r
    BY RequestAssumption
  <2>2. Handed' = Handed
    BY DEF Handed
  <2>3. Distinct' /\ BelowNextval'
    BY <2>2 DEF Distinct
  <2>4. BelowNumberNext'
    BY <2>1
  <2> QED
    BY <1>0, <2>3, <2>4
<1>3. ASSUME NEW r \in Request, SelectNextval(r)
      PROVE  BoundInv'
  <2> USE <1>3 DEF SelectNextval
  <2>1. nextval \in Nat /\ nextval' > nextval
    BY NumberAssumption DEF LockInv, TypeOK
  <2>2. Distinct'
    BY <2>1, TakeDistinct
  <2>3. \A x \in Handed : x.number < nextval'
    BY <2>1 DEF LockInv, TypeOK, Handed, Draw
  <2>4. BelowNextval'
    BY <2>1, <2>3, TakeHanded
  <2> QED
    BY <1>0, <2>2, <2>4
<1>4. ASSUME NEW r \in Request, NextvalUndefined(r)
      PROVE  BoundInv'
  BY <1>0, <1>4, BoundRollback DEF NextvalUndefined
<1>5. ASSUME NEW r \in Request, ReadNumberNext(r)
      PROVE  BoundInv'
  BY <1>0, <1>5 DEF ReadNumberNext, Distinct, Handed
<1>6. ASSUME NEW r \in Request, LockAndUpdate(r)
      PROVE  BoundInv'
  <2> USE <1>6 DEF LockAndUpdate, LockGranted, LockInv, TypeOK
  <2>1. local[r] = view[r].number_next /\ view[r].implementation = "no_gap"
    BY DEF LocalIsView
  <2>2. lock = r \/ (lock = NoRequest /\ view[r] = row)
    BY RequestAssumption DEF CurrentView, Active
  <2>3. row.implementation = "no_gap"
    BY <2>1, <2>2, RequestAssumption DEF HolderIsCurrent
  <2>4. \A q \in Request \ {r} : drawn[q] = {}
    BY <2>2, <2>3, RequestAssumption DEF DrawnUnderLock, NoMixedImplementation
  <2>5. CurrentNumber(r) = local[r] /\ row.number_next <= local[r] /\ local[r] \in Nat
    BY <2>1, <2>2, <2>3 DEF CurrentNumber, Row
  <2>6. \A x \in Handed : x.number < local[r]
    BY <2>1, <2>2, <2>3, <2>4, <2>5 DEF Handed, Draw, Row
  <2>7. Distinct'
    BY <2>5, <2>6, TakeDistinct
  <2>8. /\ view'[r].number_next = local[r] + Increment
        /\ \A q \in Request \ {r} : view'[q] = view[q]
    BY <2>5
  <2>9. /\ \A q \in Request \ {r} : drawn'[q] = {}
        /\ \A x \in drawn'[r] : x.number \in Nat /\ x.number <= local[r]
    BY <2>4, <2>5, <2>6 DEF Take, Handed, Draw
  <2>10. local[r] + Increment \in Nat /\ local[r] < local[r] + Increment
    BY <2>5, NumberAssumption
  <2>11. \A q \in Request : \A x \in drawn'[q] : x.number < view'[q].number_next
    BY <2>5, <2>8, <2>9, <2>10
  <2>12. row'.number_next <= view'[r].number_next
    BY <2>5, <2>8, <2>10 DEF Row
  <2>13. BelowNumberNext'
    BY <2>3, <2>11, <2>12, RequestAssumption
  <2> QED
    BY <1>0, <2>3, <2>7, <2>13
<1>7. ASSUME NEW r \in Request, Retry(r) \/ GiveUp(r)
      PROVE  BoundInv'
  BY <1>0, <1>7, BoundRollback DEF Retry, GiveUp
<1>8. ASSUME NEW r \in Request, Commit(r)
      PROVE  BoundInv'
  <2> USE <1>8 DEF Commit, LockInv, TypeOK
  <2>1. drawn'[r] = {} /\ \A q \in Request \ {r} : drawn'[q] = drawn[q]
    OBVIOUS
  <2>2. Handed' = Handed
    BY <2>1 DEF Handed
  <2>3. row'.implementation = row.implementation
    BY RequestAssumption DEF HolderIsCurrent
  <2>4. Distinct' /\ BelowNextval'
    BY <2>2, <2>3 DEF Distinct
  <2>5. ASSUME row.implementation = "no_gap"
        PROVE  lock = r
    BY <2>5 DEF DrawnUnderLock, NoMixedImplementation
  <2>6. BelowNumberNext'
    BY <2>1, <2>3, <2>5, RequestAssumption DEF Draw, Row
  <2> QED
    BY <1>0, <2>4, <2>6
<1>9. ASSUME NEW r \in Request, Abort(r)
      PROVE  BoundInv'
  BY <1>0, <1>9, BoundRollback DEF Abort
<1>10. ASSUME NEW new \in SwitchTo, WriteImplementation(new)
       PROVE  BoundInv'
  <2> USE <1>10 DEF WriteImplementation, RowWritable, CreateSequence, LockInv, TypeOK
  <2>1. new = "standard" /\ row.implementation = "no_gap"
    BY SequenceAssumption DEF Row, Implementation
  <2>2. \A r \in Request : drawn[r] = {}
    BY <2>1, RequestAssumption DEF DrawnUnderLock, NoMixedImplementation
  <2>3. Handed = assigned /\ Handed' = Handed
    BY <2>2 DEF Handed
  <2>4. row'.implementation = "standard" /\ nextval' = row.number_next
    BY <2>1 DEF Row
  <2>5. \A x \in Handed' : x.number < nextval'
    BY <2>1, <2>3, <2>4
  <2>6. BelowNextval' /\ BelowNumberNext'
    BY <2>4, <2>5
  <2>7. Distinct'
    BY <2>3 DEF Distinct
  <2> QED
    BY <1>0, <2>6, <2>7
<1> QED
  BY <1>1, <1>2, <1>3, <1>4, <1>5, <1>6, <1>7, <1>8, <1>9, <1>10
     DEF Next, Step

\* What is switched stays so.
LEMMA SwitchedGrows == [Next]_vars => switched \subseteq switched'
  BY DEF vars, Next, Step, Begin, SelectNextval, NextvalUndefined, ReadNumberNext, LockAndUpdate,
         Retry, GiveUp, Commit, Abort, Rollback, WriteImplementation

UniqueInv == LockInv /\ ("no_gap" \notin switched => BoundInv)

(* No two records, committed or about to be, carry the same number: under  *)
(* any interleaving of requests, rollbacks and retries, on a standard      *)
(* sequence, on a no_gap one, and on a no_gap one that becomes standard.   *)
THEOREM NumbersUnique == Spec => []UniqueNumbers
<1>1. UniqueInv /\ [Next]_vars => UniqueInv'
  <2> SUFFICES ASSUME UniqueInv, [Next]_vars
               PROVE  UniqueInv'
    OBVIOUS
  <2>1. LockInv'
    BY LockNext DEF UniqueInv
  <2>2. ASSUME "no_gap" \notin switched'
        PROVE  BoundInv'
    BY <2>2, SwitchedGrows, BoundNext DEF UniqueInv
  <2> QED
    BY <2>1, <2>2 DEF UniqueInv
<1>2. UniqueInv => UniqueNumbers
  BY DEF UniqueInv, BoundInv, UniqueNumbers, Distinct
<1>3. Init => UniqueInv
  BY BoundInit, LockInit DEF UniqueInv
<1> QED
  BY <1>1, <1>2, <1>3, PTL DEF Spec

-----------------------------------------------------------------------------
(* No gap.  The number about to be drawn, by anybody or by the holder of   *)
(* the lock, follows one that is on a record.                              *)

\* n is the first number, or follows one that is in the set S of draws.
Follows(n, S) == n = Start \/ \E y \in S : y.number + Increment = n

GapInv ==
  /\ BoundInv
  /\ row.implementation = "no_gap"
  /\ Follows(row.number_next, assigned)
  /\ \A x \in assigned : Follows(x.number, assigned)
  /\ \A r \in Request :
       /\ lock = r => Follows(view[r].number_next, assigned \cup drawn[r])
       /\ \A x \in drawn[r] : Follows(x.number, assigned \cup drawn[r])

LEMMA GapRollback ==
  ASSUME GapInv, NEW r \in Request, Rollback(r), BoundInv'
  PROVE  GapInv'
<1> USE DEF GapInv, BoundInv, LockInv, TypeOK, Rollback
<1>1. drawn'[r] = {} /\ \A q \in Request \ {r} : drawn'[q] = drawn[q]
  OBVIOUS
<1>2. lock' # r /\ (lock' \in Request => lock' = lock)
  BY RequestAssumption
<1> QED
  BY <1>1, <1>2

LEMMA GapNext ==
  ASSUME switched' = {}, GapInv, [Next]_vars
  PROVE  GapInv'
<1>0. BoundInv'
  BY BoundNext DEF GapInv
<1> USE DEF GapInv, BoundInv, LockInv, TypeOK
<1>1. CASE UNCHANGED vars
  BY <1>0, <1>1 DEF vars
<1>2. ASSUME NEW r \in Request, Begin(r)
      PROVE  GapInv'
  <2>1. lock # r
    BY <1>2, RequestAssumption DEF Begin, HolderIsCurrent, Active
  <2> QED
    BY <1>0, <1>2, <2>1 DEF Begin
<1>3. ASSUME NEW r \in Request, SelectNextval(r)
      PROVE  GapInv'
  BY <1>3 DEF SelectNextval
<1>4. ASSUME NEW r \in Request, NextvalUndefined(r)
      PROVE  GapInv'
  BY <1>0, <1>4, GapRollback DEF NextvalUndefined
<1>5. ASSUME NEW r \in Request, ReadNumberNext(r)
      PROVE  GapInv'
  BY <1>0, <1>5 DEF ReadNumberNext
<1>6. ASSUME NEW r \in Request, LockAndUpdate(r)
      PROVE  GapInv'
  <2> USE <1>6 DEF LockAndUpdate, LockGranted
  <2> DEFINE new == [req |-> r, call |-> calls[r], number |-> local[r]]
  <2>1. local[r] = view[r].number_next
    BY DEF LocalIsView
  <2>2. lock = r \/ (lock = NoRequest /\ view[r] = row)
    BY RequestAssumption DEF CurrentView, Active
  <2>3. CurrentNumber(r) = local[r] /\ local[r] \in Nat
    BY <2>1, <2>2 DEF CurrentNumber, Row
  <2>4. Follows(local[r], assigned \cup drawn[r])
    BY <2>1, <2>2 DEF Follows
  <2>5. /\ drawn'[r] = drawn[r] \cup {new}
        /\ \A q \in Request \ {r} : drawn'[q] = drawn[q]
    BY DEF Take
  <2>6. view'[r].number_next = new.number + Increment
    BY <2>3
  <2>7. Follows(view'[r].number_next, assigned \cup drawn'[r])
    BY <2>5, <2>6 DEF Follows
  <2>8. \A x \in drawn'[r] : Follows(x.number, assigned \cup drawn'[r])
    BY <2>4, <2>5 DEF Follows
  <2> QED
    BY <1>0, <2>5, <2>7, <2>8
<1>7. ASSUME NEW r \in Request, Retry(r) \/ GiveUp(r)
      PROVE  GapInv'
  BY <1>0, <1>7, GapRollback DEF Retry, GiveUp
<1>8. ASSUME NEW r \in Request, Commit(r)
      PROVE  GapInv'
  <2> USE <1>8 DEF Commit
  <2>1. lock = r
    BY DEF DrawnUnderLock, NoMixedImplementation
  <2>2. \A q \in Request : drawn'[q] = {}
    BY <2>1 DEF DrawnUnderLock, NoMixedImplementation
  <2>3. lock' = NoRequest /\ row' = view[r] /\ row'.implementation = "no_gap"
    BY <2>1 DEF NoMixedImplementation
  <2>4. /\ Follows(row'.number_next, assigned')
        /\ \A x \in assigned' : Follows(x.number, assigned')
    BY <2>1, <2>3 DEF Follows
  <2> QED
    BY <1>0, <2>2, <2>3, <2>4, RequestAssumption
<1>9. ASSUME NEW r \in Request, Abort(r)
      PROVE  GapInv'
  BY <1>0, <1>9, GapRollback DEF Abort
<1>10. ASSUME NEW new \in SwitchTo, WriteImplementation(new)
       PROVE  GapInv'
  BY <1>10 DEF WriteImplementation
<1> QED
  BY <1>1, <1>2, <1>3, <1>4, <1>5, <1>6, <1>7, <1>8, <1>9, <1>10
     DEF Next, Step

\* GapInv holds as long as the sequence is no_gap.
UnlessSwitched == InitialImpl = "no_gap" /\ switched = {} => GapInv

(* On a sequence that is no_gap from the start, every number before one    *)
(* that is on a record is on a record: what a rolled back or retried       *)
(* request had drawn is drawn again.                                       *)
THEOREM NumbersWithoutGap == Spec => []NoGap
<1>1. Init => UnlessSwitched
  BY BoundInit, RequestAssumption DEF Init, InitialRow, GapInv, Follows, UnlessSwitched
<1>2. UnlessSwitched /\ [Next]_vars => UnlessSwitched'
  BY GapNext, SwitchedGrows DEF UnlessSwitched
<1>3. UnlessSwitched => NoGap
  BY DEF UnlessSwitched, GapInv, Follows, NoGap
<1> QED
  BY <1>1, <1>2, <1>3, PTL DEF Spec

=============================================================================

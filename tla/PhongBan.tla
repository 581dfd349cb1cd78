------------------------------ MODULE PhongBan -------------------------------
(***************************************************************************)
(* Departments (phong_ban) with the stored number of their employees       *)
(* (nhan_vien), as concurrent calls change them (src/addons/nhan_su, and   *)
(* the ORM that has the number computed again).                            *)
(*                                                                         *)
(* A call works on the snapshot it takes when it starts.  It marks the     *)
(* departments its employees leave and enter, counts their employees as it *)
(* sees them, and updates those whose number is not what it was.  Calls    *)
(* that exchange employees leave the number, and the row, alone: another   *)
(* call may then count a department from other employees than there are by *)
(* the time it commits.                                                    *)
(*                                                                         *)
(* Both files of the addon define the class of departments; phong_ban.py   *)
(* is imported last and replaces the other.  Left out: the number of a     *)
(* department or an employee (IrSequence), and all fields no method reads. *)
(***************************************************************************)
EXTENDS Naturals, FiniteSets

CONSTANTS
  Request,      \* RPC requests
  NhanVien,     \* database ids of employees
  PhongBan,     \* and of departments; an id is never used again
  None,         \* the employee has no department
  NoRow,        \* there is no such record
  MaxCalls      \* bound: calls made, again or for the first time

ASSUME IdAssumption ==
  /\ IsFiniteSet(NhanVien) /\ NhanVien \cap PhongBan = {}
  /\ None \notin PhongBan /\ NoRow \notin PhongBan \cup Nat /\ None # NoRow
ASSUME BoundAssumption == MaxCalls \in Nat

VARIABLES
  db,           \* the committed records
  seen,         \* ids given out so far
  phase,        \* of each request
  mine,         \* the records as the open request sees them at its end
  written,      \* rows it updated, created or deleted
  missed,       \* rows changed by commits it cannot see
  calls

vars == <<db, seen, phase, mine, written, missed, calls>>

Id == NhanVien \cup PhongBan

\* phong_ban_id of the employees, so_luong_nhan_vien of the departments.
Database == [phong_ban_id : [NhanVien -> PhongBan \cup {None, NoRow}],
             so_luong     : [PhongBan -> Nat \cup {NoRow}]]

NoDb == [phong_ban_id |-> [n \in NhanVien |-> NoRow], so_luong |-> [p \in PhongBan |-> NoRow]]

TypeOK ==
  /\ db      \in Database
  /\ seen    \subseteq Id
  /\ phase   \in [Request -> {"idle", "open"}]
  /\ mine    \in [Request -> Database]
  /\ written \in [Request -> SUBSET Id]
  /\ missed  \in [Request -> SUBSET Id]
  /\ calls   \in 0..MaxCalls

Staff(d)       == {n \in NhanVien : d.phong_ban_id[n] # NoRow}
Departments(d) == {p \in PhongBan : d.so_luong[p] # NoRow}

\* nhan_vien_ids of a department
Members(d, p) == {n \in NhanVien : d.phong_ban_id[n] = p}

\* Some departments are set up, nobody is employed.
Init ==
  /\ \E P \in SUBSET PhongBan :
       /\ db   = [NoDb EXCEPT !.so_luong = [p \in PhongBan |-> IF p \in P THEN 0 ELSE NoRow]]
       /\ seen = P
  /\ phase   = [r \in Request |-> "idle"]
  /\ mine    = [r \in Request |-> NoDb]
  /\ written = [r \in Request |-> {}]
  /\ missed  = [r \in Request |-> {}]
  /\ calls   = 0

-----------------------------------------------------------------------------
(* Transactions *)

\* A call leaves the records d and has written the rows W.
Call(r, d, W) ==
  /\ phase[r] = "idle"
  /\ calls < MaxCalls
  /\ calls'   = calls + 1
  /\ phase'   = [phase EXCEPT ![r] = "open"]
  /\ mine'    = [mine EXCEPT ![r] = d]
  /\ written' = [written EXCEPT ![r] = W]
  /\ missed'  = [missed EXCEPT ![r] = {}]
  /\ UNCHANGED db

Merged(r) ==
  [phong_ban_id |-> [n \in NhanVien |->
     IF n \in written[r] THEN mine[r].phong_ban_id[n] ELSE db.phong_ban_id[n]],
   so_luong |-> [p \in PhongBan |->
     IF p \in written[r] THEN mine[r].so_luong[p] ELSE db.so_luong[p]]]

\* The foreign key of phong_ban_id
KeysHold(d) ==
  \A n \in NhanVien : d.phong_ban_id[n] \in Departments(d) \cup {None, NoRow}

\* Mutant of Committable: READ COMMITTED, an update of a row that was updated
\* meanwhile goes ahead.
Committable_ReadCommitted(r) ==
  /\ \A n \in written[r] \cap missed[r] \cap NhanVien : db.phong_ban_id[n] # NoRow
  /\ \A p \in written[r] \cap missed[r] \cap PhongBan : db.so_luong[p] # NoRow
  /\ KeysHold(Merged(r))

\* No row the call updates or deletes has been updated or deleted since.
Committable(r) ==
  /\ written[r] \cap missed[r] = {}
  /\ KeysHold(Merged(r))

Close(r) ==
  /\ phase'   = [phase EXCEPT ![r] = "idle"]
  /\ mine'    = [mine EXCEPT ![r] = NoDb]
  /\ written' = [written EXCEPT ![r] = {}]

Commit(r) ==
  /\ phase[r] = "open"
  /\ Committable(r)
  /\ Close(r)
  /\ db'     = Merged(r)
  /\ missed' = [q \in Request |-> IF q # r /\ phase[q] = "open"
                                   THEN missed[q] \cup written[r] ELSE {}]
  /\ UNCHANGED <<seen, calls>>

\* An error of the call, or a conflict: nothing is kept but the ids it used.
Rollback(r) ==
  /\ phase[r] = "open"
  /\ Close(r)
  /\ missed' = [missed EXCEPT ![r] = {}]
  /\ UNCHANGED <<db, seen, calls>>

-----------------------------------------------------------------------------
(* Employees *)

\* Mutant of Touched: modified is called after the write only.
Touched_After(d, new, N) == {new[n] : n \in N} \cap Departments(d)

\* The departments marked to be counted again: those the employees N are in
\* before the write, and those they are in after it.
Touched(d, new, N) ==
  ({d.phong_ban_id[n] : n \in N} \cup {new[n] : n \in N}) \cap Departments(d)

\* _compute_so_luong_nhan_vien on the departments P
Counted(d, P) ==
  [d EXCEPT !.so_luong =
     [p \in PhongBan |-> IF p \in P THEN Cardinality(Members(d, p)) ELSE d.so_luong[p]]]

\* The employees N are created, updated or deleted and are then where `new' has
\* them.  A counted department whose number is the same is updated only if the
\* call had not read it before.
WriteStaff(r, N, new) ==
  \E d \in {Counted([db EXCEPT !.phong_ban_id = new], Touched(db, new, N))} :
    \E same \in SUBSET {p \in Touched(db, new, N) : d.so_luong[p] = db.so_luong[p]} :
      Call(r, d, N \cup same \cup {p \in PhongBan : d.so_luong[p] # db.so_luong[p]})

NewEmployee(r, n, p) ==
  /\ n \notin seen
  /\ seen' = seen \cup {n}
  /\ WriteStaff(r, {n}, [db.phong_ban_id EXCEPT ![n] = p])

\* A save of the form, or an import that writes several employees in one call:
\* `to' has the department of each, be it a new one or not.
SaveEmployees(r, N, to) ==
  /\ N # {} /\ N \subseteq Staff(db)
  /\ WriteStaff(r, N, [n \in NhanVien |-> IF n \in N THEN to[n] ELSE db.phong_ban_id[n]])
  /\ UNCHANGED seen

DeleteEmployees(r, N) ==
  /\ N # {} /\ N \subseteq Staff(db)
  /\ WriteStaff(r, N, [n \in NhanVien |-> IF n \in N THEN NoRow ELSE db.phong_ban_id[n]])
  /\ UNCHANGED seen

-----------------------------------------------------------------------------
(* Departments *)

NewDepartment(r, p) ==
  /\ p \notin seen
  /\ seen' = seen \cup {p}
  /\ Call(r, [db EXCEPT !.so_luong[p] = 0], {p})

\* Its name or description.
SaveDepartment(r, p) ==
  /\ p \in Departments(db)
  /\ Call(r, db, {p})
  /\ UNCHANGED seen

\* Its employees stay (ON DELETE SET NULL).
DeleteDepartment(r, p) ==
  /\ p \in Departments(db)
  /\ Call(r, [phong_ban_id |-> [n \in NhanVien |-> IF n \in Members(db, p) THEN None
                                                  ELSE db.phong_ban_id[n]],
              so_luong     |-> [db.so_luong EXCEPT ![p] = NoRow]],
           Members(db, p) \cup {p})
  /\ UNCHANGED seen

-----------------------------------------------------------------------------
EmployeeCall(r) ==
  \/ \E n \in NhanVien, p \in Departments(db) \cup {None} : NewEmployee(r, n, p)
  \/ \E N \in SUBSET Staff(db) : \E to \in [N -> Departments(db) \cup {None}] :
       SaveEmployees(r, N, to)
  \/ \E N \in SUBSET Staff(db) : DeleteEmployees(r, N)

DepartmentCall(r) ==
  \E p \in PhongBan : NewDepartment(r, p) \/ SaveDepartment(r, p) \/ DeleteDepartment(r, p)

Next == \E r \in Request : EmployeeCall(r) \/ DepartmentCall(r) \/ Commit(r) \/ Rollback(r)

Spec == Init /\ [][Next]_vars

-----------------------------------------------------------------------------
(* Properties *)

\* The stored number is the total of the employees of a department, as its help
\* says (so_luong_nhan_vien), although each call counts them on its own
\* snapshot, and an exchange of employees leaves no mark on the row by which
\* another call could notice it.
HeadCountExact ==
  \A p \in Departments(db) : db.so_luong[p] = Cardinality(Members(db, p))
=============================================================================

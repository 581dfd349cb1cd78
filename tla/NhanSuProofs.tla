---------------------------- MODULE NhanSuProofs -----------------------------
(***************************************************************************)
(* Theorems about the part of the staff: PhongBan, their departments, and  *)
(* Dashboard, the page of figures.                                         *)
(*                                                                         *)
(* Those about PhongBan, for any employees, departments and requests, rest *)
(* on the lemma MergedCount: what a commit adds to a department is what    *)
(* its call added to the snapshot, be the employees others than those the  *)
(* call saw.                                                               *)
(*                                                                         *)
(* Those about Dashboard, for any tables, periods and bounds, rest on what *)
(* the requests and the histories under way carry: their answers may come  *)
(* in any order, so every one of them has to fit by itself.                *)
(***************************************************************************)
EXTENDS PhongBan, Dashboard, FiniteSetTheorems, TLAPS

-----------------------------------------------------------------------------
(* Departments                                                             *)

Heads(d, p) == Cardinality(Members(d, p))

\* Departments have the number of their employees, and employees are in
\* departments there are.
Sound(d) ==
  /\ KeysHold(d)
  /\ \A p \in Departments(d) : d.so_luong[p] = Heads(d, p)

\* v may be what the open request saw when it started: rows that no commit has
\* changed since are still so, and the request left alone what it has not written.
Snapshot(r, v) ==
  /\ Sound(v)
  /\ \A n \in NhanVien : /\ n \notin missed[r]  => db.phong_ban_id[n] = v.phong_ban_id[n]
                         /\ n \notin written[r] => mine[r].phong_ban_id[n] = v.phong_ban_id[n]
  /\ \A p \in PhongBan : /\ p \notin missed[r]  => db.so_luong[p] = v.so_luong[p]
                         /\ p \notin written[r] => mine[r].so_luong[p] = v.so_luong[p]

OpenInv ==
  \A r \in Request : phase[r] = "open" =>
    /\ Sound(mine[r]) /\ Departments(mine[r]) \subseteq seen
    /\ \E v \in Database : Snapshot(r, v)

Inv == TypeOK /\ Sound(db) /\ Departments(db) \subseteq seen /\ OpenInv

-----------------------------------------------------------------------------
(* Counting *)

LEMMA HeadsType == ASSUME NEW d, NEW p PROVE Heads(d, p) \in Nat
  BY FS_Subset, FS_CardinalityType, IdAssumption DEF Heads, Members

\* Two sound databases with the same number for a department have as many
\* employees in it.
LEMMA SameHeads ==
  ASSUME NEW d \in Database, Sound(d), NEW e \in Database, Sound(e),
         NEW p \in PhongBan, d.so_luong[p] = e.so_luong[p]
  PROVE  Heads(d, p) = Heads(e, p)
<1>1. CASE d.so_luong[p] # NoRow
  BY <1>1 DEF Sound, Departments
<1>2. CASE d.so_luong[p] = NoRow
  <2>1. Members(d, p) = {} /\ Members(e, p) = {}
    BY <1>2, IdAssumption DEF Sound, KeysHold, Members, Departments
  <2> QED  BY <2>1 DEF Heads
<1> QED  BY <1>1, <1>2

\* A set of employees is counted in two parts.
LEMMA Parts ==
  ASSUME NEW S \in SUBSET NhanVien, NEW E
  PROVE  /\ Cardinality(S \cap E) \in Nat /\ Cardinality(S \ E) \in Nat
         /\ Cardinality(S) = Cardinality(S \cap E) + Cardinality(S \ E)
<1>1. IsFiniteSet(S \cap E) /\ IsFiniteSet(S \ E)
  <2>1. S \cap E \in SUBSET NhanVien /\ S \ E \in SUBSET NhanVien
    OBVIOUS
  <2> QED  BY <2>1, FS_Subset, IdAssumption
<1>2. Cardinality(S \cap E) \in Nat /\ Cardinality(S \ E) \in Nat
  BY <1>1, FS_CardinalityType
<1>3. (S \cap E) \cup (S \ E) = S /\ (S \cap E) \cap (S \ E) = {}
  OBVIOUS
<1>4. Cardinality((S \cap E) \cup (S \ E))
        = Cardinality(S \cap E) + Cardinality(S \ E) - Cardinality((S \cap E) \cap (S \ E))
  BY <1>1, FS_Union
<1>5. Cardinality((S \cap E) \cap (S \ E)) = 0
  BY <1>3, FS_EmptySet
<1>6. Cardinality((S \cap E) \cup (S \ E)) = Cardinality(S)
  BY <1>3
<1> QED  BY <1>2, <1>4, <1>5, <1>6

\* Of the employees A of a department, and V that a call saw and left as M, its
\* commit leaves C if it wrote the rows E: the department gains what M has over V.
LEMMA MergedCount ==
  ASSUME NEW A \in SUBSET NhanVien, NEW V \in SUBSET NhanVien,
         NEW M \in SUBSET NhanVien, NEW C \in SUBSET NhanVien, NEW E,
         V \cap E = A \cap E, V \ E = M \ E, C \cap E = M \cap E, C \ E = A \ E
  PROVE  Cardinality(C) + Cardinality(V) = Cardinality(A) + Cardinality(M)
<1>1. /\ Cardinality(A \cap E) \in Nat /\ Cardinality(A \ E) \in Nat
      /\ Cardinality(A) = Cardinality(A \cap E) + Cardinality(A \ E)
  BY Parts
<1>2. /\ Cardinality(M \cap E) \in Nat /\ Cardinality(M \ E) \in Nat
      /\ Cardinality(M) = Cardinality(M \cap E) + Cardinality(M \ E)
  BY Parts
<1>3. Cardinality(C) = Cardinality(M \cap E) + Cardinality(A \ E)
  BY Parts
<1>4. Cardinality(V) = Cardinality(A \cap E) + Cardinality(M \ E)
  BY Parts
<1> QED  BY <1>1, <1>2, <1>3, <1>4

-----------------------------------------------------------------------------
(* Calls *)

\* A call that leaves the sound records d, and has written what is new in them.
LEMMA CallKeeps ==
  ASSUME Inv, NEW r \in Request, NEW d \in Database, Sound(d), NEW W \in SUBSET Id,
         \A n \in NhanVien : n \notin W => d.phong_ban_id[n] = db.phong_ban_id[n],
         \A p \in PhongBan : p \notin W => d.so_luong[p] = db.so_luong[p],
         Call(r, d, W), seen' \in SUBSET Id, seen \cup Departments(d) \subseteq seen'
  PROVE  Inv'
<1>1. TypeOK'
  BY BoundAssumption DEF Inv, TypeOK, Call
<1>2. Sound(db)' /\ Departments(db)' \subseteq seen'
  BY DEF Inv, Call, Sound, KeysHold, Departments, Heads, Members
<1>3. ASSUME NEW q \in Request, phase'[q] = "open"
      PROVE  /\ Sound(mine[q])' /\ Departments(mine[q])' \subseteq seen'
             /\ \E v \in Database : Snapshot(q, v)'
  <2>1. CASE q = r
    <3>1. /\ mine'[q] = d /\ written'[q] = W /\ missed'[q] = {} /\ db' = db
          /\ db \in Database /\ Sound(db)
      BY <2>1 DEF Inv, TypeOK, Call
    <3>2. Sound(mine[q])' /\ Departments(mine[q])' \subseteq seen'
      BY <3>1 DEF Sound, KeysHold, Departments, Heads, Members
    <3>3. Snapshot(q, db)'
      BY <3>1 DEF Snapshot, Sound, KeysHold, Departments, Heads, Members
    <3>4. \E v \in Database : Snapshot(q, v)'
      BY <3>1, <3>3
    <3> QED  BY <3>2, <3>4
  <2>2. CASE q # r
    <3>1. /\ mine'[q] = mine[q] /\ written'[q] = written[q] /\ missed'[q] = missed[q] /\ db' = db
          /\ phase[q] = "open"
      BY <1>3, <2>2 DEF Inv, TypeOK, Call
    <3> QED  BY <3>1 DEF Inv, OpenInv, Snapshot, Sound, KeysHold, Departments, Heads, Members
  <2> QED  BY <2>1, <2>2
<1> QED  BY <1>1, <1>2, <1>3 DEF Inv, OpenInv

\* Employees are written: departments that are not marked keep theirs.
LEMMA StaffKeeps ==
  ASSUME Inv, NEW r \in Request, NEW N \in SUBSET NhanVien,
         NEW new \in [NhanVien -> Departments(db) \cup {None, NoRow}],
         \A n \in NhanVien : n \notin N => new[n] = db.phong_ban_id[n],
         WriteStaff(r, N, new), seen' \in SUBSET Id, seen \subseteq seen'
  PROVE  Inv'
<1> DEFINE e == [db EXCEPT !.phong_ban_id = new]
           T == Touched(db, new, N)
           d == Counted(e, T)
<1>1. db \in Database /\ Sound(db)
  BY DEF Inv, TypeOK
<1>2. T \subseteq Departments(db) /\ Departments(db) \subseteq PhongBan
  BY DEF Touched, Departments
<1>3. /\ d = [phong_ban_id |-> new,
              so_luong |-> [p \in PhongBan |-> IF p \in T THEN Cardinality(Members(e, p))
                                                          ELSE db.so_luong[p]]]
      /\ \A p : Members(e, p) = {n \in NhanVien : new[n] = p} /\ Members(d, p) = Members(e, p)
  <2>1. e = [phong_ban_id |-> new, so_luong |-> db.so_luong]
    BY <1>1 DEF Database
  <2>2. e.phong_ban_id = new /\ e.so_luong = db.so_luong
    BY <2>1
  <2> HIDE DEF e, T
  <2>3. d = [phong_ban_id |-> new,
             so_luong |-> [p \in PhongBan |-> IF p \in T THEN Cardinality(Members(e, p))
                                                         ELSE db.so_luong[p]]]
    BY <2>1, <2>2 DEF Counted
  <2>4. d.phong_ban_id = new
    BY <2>3
  <2> HIDE DEF d
  <2> QED  BY <2>2, <2>3, <2>4 DEF Members
<1>4. \A p \in T : d.so_luong[p] = Heads(d, p) /\ d.so_luong[p] \in Nat
  BY <1>2, <1>3, HeadsType DEF Heads
<1> HIDE DEF d, T
<1>5. d \in Database
  <2>1. new \in [NhanVien -> PhongBan \cup {None, NoRow}]
    BY <1>2
  <2>2. \A p \in PhongBan : d.so_luong[p] \in Nat \cup {NoRow}
    BY <1>1, <1>3, <1>4 DEF Database
  <2> QED  BY <1>3, <2>1, <2>2 DEF Database
<1>6. Departments(d) = Departments(db)
  BY <1>2, <1>3, <1>4, IdAssumption DEF Departments
<1>7. \A p \in Departments(db) \ T : Members(d, p) = Members(db, p)
  <2> SUFFICES ASSUME NEW p \in Departments(db), p \notin T PROVE Members(d, p) = Members(db, p)
    OBVIOUS
  <2>1. \A n \in N : new[n] # p /\ db.phong_ban_id[n] # p
    BY DEF T, Touched
  <2> QED  BY <2>1, <1>3 DEF Members
<1>8. Sound(d)
  <2>1. KeysHold(d)
    BY <1>3, <1>6 DEF KeysHold
  <2>2. ASSUME NEW p \in Departments(d) PROVE d.so_luong[p] = Heads(d, p)
    <3>1. CASE p \in T
      BY <3>1, <1>4
    <3>2. CASE p \notin T
      <4>1. d.so_luong[p] = db.so_luong[p] /\ p \in Departments(db)
        BY <3>2, <1>2, <1>3, <1>6
      <4>2. db.so_luong[p] = Heads(db, p)
        BY <1>1, <4>1 DEF Sound
      <4> QED  BY <3>2, <1>7, <4>1, <4>2 DEF Heads
    <3> QED  BY <3>1, <3>2
  <2> QED  BY <2>1, <2>2 DEF Sound
<1>9. PICK same \in SUBSET {p \in T : d.so_luong[p] = db.so_luong[p]} :
        Call(r, d, N \cup same \cup {p \in PhongBan : d.so_luong[p] # db.so_luong[p]})
  BY DEF WriteStaff, d, T
<1> DEFINE W == N \cup same \cup {p \in PhongBan : d.so_luong[p] # db.so_luong[p]}
<1>10. W \in SUBSET Id
  BY <1>2 DEF Id
<1>11. \A n \in NhanVien : n \notin W => d.phong_ban_id[n] = db.phong_ban_id[n]
  BY <1>3
<1>12. \A p \in PhongBan : p \notin W => d.so_luong[p] = db.so_luong[p]
  OBVIOUS
<1>13. Call(r, d, W)
  BY <1>9
<1>14. seen \cup Departments(d) \subseteq seen'
  BY <1>6 DEF Inv
<1> HIDE DEF W
<1> QED  BY <1>5, <1>8, <1>10, <1>11, <1>12, <1>13, <1>14, CallKeeps

LEMMA EmployeeKeeps == ASSUME Inv, NEW r \in Request, EmployeeCall(r) PROVE Inv'
<1> DEFINE P == Departments(db) \cup {None, NoRow}
<1>1. db.phong_ban_id \in [NhanVien -> P]
  BY DEF Inv, TypeOK, Database, Sound, KeysHold
<1>2. seen \in SUBSET Id
  BY DEF Inv, TypeOK
<1>3. ASSUME NEW n \in NhanVien, NEW p \in Departments(db) \cup {None}, NewEmployee(r, n, p)
      PROVE  Inv'
  <2>1. [db.phong_ban_id EXCEPT ![n] = p] \in [NhanVien -> P]
    BY <1>1
  <2>2. seen' \in SUBSET Id /\ seen \subseteq seen'
    BY <1>2, <1>3 DEF NewEmployee, Id
  <2> QED  BY <1>1, <1>3, <2>1, <2>2, StaffKeeps DEF NewEmployee
<1>4. ASSUME NEW N \in SUBSET Staff(db), NEW to \in [N -> Departments(db) \cup {None}],
             SaveEmployees(r, N, to)
      PROVE  Inv'
  <2> DEFINE new == [n \in NhanVien |-> IF n \in N THEN to[n] ELSE db.phong_ban_id[n]]
  <2>1. new \in [NhanVien -> P] /\ N \in SUBSET NhanVien
    BY <1>1 DEF Staff
  <2>2. WriteStaff(r, N, new) /\ seen' \in SUBSET Id /\ seen \subseteq seen'
    BY <1>2, <1>4 DEF SaveEmployees
  <2>3. \A n \in NhanVien : n \notin N => new[n] = db.phong_ban_id[n]
    OBVIOUS
  <2> HIDE DEF new
  <2> QED  BY <2>1, <2>2, <2>3, StaffKeeps
<1>5. ASSUME NEW N \in SUBSET Staff(db), DeleteEmployees(r, N) PROVE Inv'
  <2> DEFINE new == [n \in NhanVien |-> IF n \in N THEN NoRow ELSE db.phong_ban_id[n]]
  <2>1. new \in [NhanVien -> P] /\ N \in SUBSET NhanVien
    BY <1>1 DEF Staff
  <2>2. WriteStaff(r, N, new) /\ seen' \in SUBSET Id /\ seen \subseteq seen'
    BY <1>2, <1>5 DEF DeleteEmployees
  <2>3. \A n \in NhanVien : n \notin N => new[n] = db.phong_ban_id[n]
    OBVIOUS
  <2> HIDE DEF new
  <2> QED  BY <2>1, <2>2, <2>3, StaffKeeps
<1> QED  BY <1>3, <1>4, <1>5 DEF EmployeeCall

LEMMA DepartmentKeeps == ASSUME Inv, NEW r \in Request, DepartmentCall(r) PROVE Inv'
<1>1. db \in Database /\ Sound(db) /\ Departments(db) \subseteq seen /\ seen \in SUBSET Id
  BY DEF Inv, TypeOK
<1>2. ASSUME NEW p \in PhongBan, NewDepartment(r, p) PROVE Inv'
  <2> DEFINE d == [db EXCEPT !.so_luong[p] = 0]
  <2>1. d = [phong_ban_id |-> db.phong_ban_id, so_luong |-> [db.so_luong EXCEPT ![p] = 0]]
    BY <1>1 DEF Database
  <2>2. db.so_luong[p] = NoRow /\ Members(db, p) = {}
    BY <1>1, <1>2, IdAssumption DEF NewDepartment, Departments, Sound, KeysHold, Members
  <2>3. d.phong_ban_id = db.phong_ban_id /\ d.so_luong = [db.so_luong EXCEPT ![p] = 0]
    BY <2>1
  <2>4. Call(r, d, {p}) /\ seen' = seen \cup {p}
    BY <1>2 DEF NewDepartment
  <2> HIDE DEF d
  <2>5. d \in Database
    BY <1>1, <2>1 DEF Database
  <2>6. Departments(d) = Departments(db) \cup {p}
    BY <1>1, <2>3, IdAssumption DEF Departments, Database
  <2>7. \A q : Members(d, q) = Members(db, q)
    BY <2>3 DEF Members
  <2>8. Heads(d, p) = 0
    BY <2>2, <2>7, FS_EmptySet DEF Heads
  <2>9. Sound(d)
    <3>1. KeysHold(d)
      BY <1>1, <2>3, <2>6 DEF Sound, KeysHold
    <3>2. \A q \in Departments(d) : d.so_luong[q] = Heads(d, q)
      BY <1>1, <2>3, <2>6, <2>7, <2>8 DEF Sound, Heads, Departments, Database
    <3> QED  BY <3>1, <3>2 DEF Sound
  <2>10. \A q \in PhongBan : q \notin {p} => d.so_luong[q] = db.so_luong[q]
    BY <1>1, <2>3 DEF Database
  <2>11. seen' \in SUBSET Id /\ seen \cup Departments(d) \subseteq seen' /\ {p} \in SUBSET Id
    BY <1>1, <2>4, <2>6 DEF Id
  <2> QED  BY <2>3, <2>4, <2>5, <2>9, <2>10, <2>11, CallKeeps
<1>3. ASSUME NEW p \in PhongBan, SaveDepartment(r, p) PROVE Inv'
  <2>1. Call(r, db, {p}) /\ seen' = seen /\ {p} \in SUBSET Id
    BY <1>3 DEF SaveDepartment, Id
  <2>2. seen' \in SUBSET Id /\ seen \cup Departments(db) \subseteq seen'
    BY <1>1, <2>1
  <2> QED  BY <1>1, <2>1, <2>2, CallKeeps
<1>4. ASSUME NEW p \in PhongBan, DeleteDepartment(r, p) PROVE Inv'
  <2> DEFINE M == Members(db, p)
             d == [phong_ban_id |-> [n \in NhanVien |-> IF n \in M THEN None
                                                        ELSE db.phong_ban_id[n]],
                   so_luong     |-> [db.so_luong EXCEPT ![p] = NoRow]]
  <2>1. Call(r, d, M \cup {p}) /\ seen' = seen
    BY <1>4 DEF DeleteDepartment
  <2>2. d.phong_ban_id = [n \in NhanVien |-> IF n \in M THEN None ELSE db.phong_ban_id[n]]
    OBVIOUS
  <2>3. d.so_luong = [db.so_luong EXCEPT ![p] = NoRow]
    OBVIOUS
  <2>4. d \in Database
    BY <1>1 DEF Database
  <2> HIDE DEF d
  <2>5. Departments(d) = Departments(db) \ {p}
    BY <1>1, <2>3 DEF Departments, Database
  <2>6. \A q \in PhongBan \ {p} : Members(d, q) = Members(db, q)
    BY <2>2, IdAssumption DEF Members
  <2>7. Sound(d)
    <3>1. KeysHold(d)
      BY <1>1, <2>2, <2>5 DEF Sound, KeysHold, Members
    <3>2. ASSUME NEW q \in Departments(d) PROVE d.so_luong[q] = Heads(d, q)
      <4>1. q \in PhongBan \ {p} /\ q \in Departments(db)
        BY <2>5 DEF Departments
      <4>2. d.so_luong[q] = db.so_luong[q]
        BY <1>1, <2>3, <4>1 DEF Database
      <4> QED  BY <1>1, <2>6, <4>1, <4>2 DEF Sound, Heads
    <3> QED  BY <3>1, <3>2 DEF Sound
  <2>8. \A n \in NhanVien : n \notin M \cup {p} => d.phong_ban_id[n] = db.phong_ban_id[n]
    BY <2>2
  <2>9. \A q \in PhongBan : q \notin M \cup {p} => d.so_luong[q] = db.so_luong[q]
    BY <1>1, <2>3 DEF Database
  <2>10. seen' \in SUBSET Id /\ seen \cup Departments(d) \subseteq seen' /\ M \cup {p} \in SUBSET Id
    BY <1>1, <2>1, <2>5 DEF Id, Members
  <2> QED  BY <2>1, <2>4, <2>7, <2>8, <2>9, <2>10, CallKeeps
<1> QED  BY <1>2, <1>3, <1>4 DEF DepartmentCall

-----------------------------------------------------------------------------
(* Transactions *)

LEMMA RollbackKeeps == ASSUME Inv, NEW r \in Request, Rollback(r) PROVE Inv'
<1>1. TypeOK'
  BY DEF Inv, TypeOK, Rollback, Close, NoDb, Database
<1>2. ASSUME NEW q \in Request, phase'[q] = "open"
      PROVE  /\ phase[q] = "open" /\ mine'[q] = mine[q]
             /\ written'[q] = written[q] /\ missed'[q] = missed[q]
  BY <1>2 DEF Inv, TypeOK, Rollback, Close
<1>3. db' = db /\ seen' = seen
  BY DEF Rollback
<1> QED  BY <1>1, <1>2, <1>3
         DEF Inv, OpenInv, Snapshot, Sound, KeysHold, Departments, Heads, Members

LEMMA CommitKeeps == ASSUME Inv, NEW r \in Request, Commit(r) PROVE Inv'
<1> DEFINE c == Merged(r)
           m == mine[r]
           W == written[r]
<1>1. PICK v \in Database : Snapshot(r, v)
  BY DEF Inv, OpenInv, Commit
<1>2. /\ db \in Database /\ Sound(db) /\ m \in Database /\ Sound(m) /\ v \in Database /\ Sound(v)
      /\ Departments(db) \subseteq seen /\ Departments(m) \subseteq seen
  BY <1>1 DEF Inv, OpenInv, TypeOK, Commit, Snapshot
<1>3. /\ c = [phong_ban_id |-> [n \in NhanVien |-> IF n \in W THEN m.phong_ban_id[n]
                                                           ELSE db.phong_ban_id[n]],
              so_luong |-> [p \in PhongBan |-> IF p \in W THEN m.so_luong[p] ELSE db.so_luong[p]]]
  BY DEF Merged
<1>4. /\ \A n \in NhanVien : c.phong_ban_id[n] = IF n \in W THEN m.phong_ban_id[n]
                                                         ELSE db.phong_ban_id[n]
      /\ \A p \in PhongBan : c.so_luong[p] = IF p \in W THEN m.so_luong[p] ELSE db.so_luong[p]
  BY <1>3
<1>5. c \in Database
  BY <1>2, <1>3 DEF Database
<1> HIDE DEF c
<1>6. /\ \A n \in NhanVien : /\ n \in W => db.phong_ban_id[n] = v.phong_ban_id[n]
                             /\ n \notin W => m.phong_ban_id[n] = v.phong_ban_id[n]
      /\ \A p \in PhongBan : /\ p \in W => db.so_luong[p] = v.so_luong[p]
                             /\ p \notin W => m.so_luong[p] = v.so_luong[p]
  BY <1>1 DEF Commit, Committable, Snapshot
<1>7. \A p : Heads(c, p) + Heads(v, p) = Heads(db, p) + Heads(m, p)
  <2> SUFFICES ASSUME NEW p PROVE Heads(c, p) + Heads(v, p) = Heads(db, p) + Heads(m, p)
    OBVIOUS
  <2>1. /\ Members(v, p) \cap W = Members(db, p) \cap W
        /\ Members(v, p) \ W = Members(m, p) \ W
        /\ Members(c, p) \cap W = Members(m, p) \cap W
        /\ Members(c, p) \ W = Members(db, p) \ W
    BY <1>4, <1>6 DEF Members
  <2>2. /\ Members(v, p) \in SUBSET NhanVien /\ Members(db, p) \in SUBSET NhanVien
        /\ Members(m, p) \in SUBSET NhanVien /\ Members(c, p) \in SUBSET NhanVien
    BY DEF Members
  <2> HIDE DEF m, W
  <2> QED  BY <2>1, <2>2, MergedCount DEF Heads
<1>8. Departments(c) \subseteq seen
  BY <1>2, <1>4 DEF Departments
<1>9. Sound(c)
  <2>1. KeysHold(c)
    BY DEF Commit, Committable, c
  <2>2. ASSUME NEW p \in Departments(c) PROVE c.so_luong[p] = Heads(c, p)
    <3>1. p \in PhongBan /\ c.so_luong[p] # NoRow
      BY DEF Departments
    <3>2. Heads(c, p) \in Nat /\ Heads(v, p) \in Nat /\ Heads(db, p) \in Nat /\ Heads(m, p) \in Nat
      BY HeadsType
    <3>3. CASE p \in W
      <4>1. Heads(db, p) = Heads(v, p)
        BY <1>2, <1>6, <3>1, <3>3, SameHeads
      <4>2. m.so_luong[p] = Heads(m, p) /\ c.so_luong[p] = m.so_luong[p]
        BY <1>2, <1>4, <3>1, <3>3 DEF Sound, Departments
      <4> QED  BY <1>7, <3>2, <4>1, <4>2
    <3>4. CASE p \notin W
      <4>1. Heads(m, p) = Heads(v, p)
        BY <1>2, <1>6, <3>1, <3>4, SameHeads
      <4>2. db.so_luong[p] = Heads(db, p) /\ c.so_luong[p] = db.so_luong[p]
        BY <1>2, <1>4, <3>1, <3>4 DEF Sound, Departments
      <4> QED  BY <1>7, <3>2, <4>1, <4>2
    <3> QED  BY <3>3, <3>4
  <2> QED  BY <2>1, <2>2 DEF Sound
<1>10. db' = c /\ seen' = seen
  BY DEF Commit, c
<1>11. TypeOK'
  <2>1. db' \in Database
    BY <1>5, <1>10
  <2> QED  BY <2>1 DEF Inv, TypeOK, Commit, Close, NoDb, Database
<1>12. ASSUME NEW q \in Request, phase'[q] = "open"
       PROVE  /\ Sound(mine[q])' /\ Departments(mine[q])' \subseteq seen'
              /\ \E u \in Database : Snapshot(q, u)'
  <2>1. /\ q # r /\ phase[q] = "open" /\ mine'[q] = mine[q] /\ written'[q] = written[q]
        /\ missed'[q] = missed[q] \cup W
    BY <1>12 DEF Inv, TypeOK, Commit, Close
  <2>2. PICK u \in Database : Snapshot(q, u)
    BY <2>1 DEF Inv, OpenInv
  <2>3. \A n \in NhanVien : n \notin missed'[q] => db'.phong_ban_id[n] = u.phong_ban_id[n]
    BY <1>4, <1>10, <2>1, <2>2 DEF Snapshot
  <2>4. \A p \in PhongBan : p \notin missed'[q] => db'.so_luong[p] = u.so_luong[p]
    BY <1>4, <1>10, <2>1, <2>2 DEF Snapshot
  <2>5. Snapshot(q, u)'
    BY <2>1, <2>2, <2>3, <2>4 DEF Snapshot, Sound, KeysHold, Departments, Heads, Members
  <2>6. Sound(mine[q])' /\ Departments(mine[q])' \subseteq seen'
    BY <1>10, <2>1 DEF Inv, OpenInv, Sound, KeysHold, Departments, Heads, Members
  <2> QED  BY <2>5, <2>6
<1>13. Sound(db)' /\ Departments(db)' \subseteq seen'
  BY <1>8, <1>9, <1>10 DEF Sound, KeysHold, Departments, Heads, Members
<1> QED  BY <1>11, <1>12, <1>13 DEF Inv, OpenInv

-----------------------------------------------------------------------------
LEMMA InvInit == Init => Inv
<1> SUFFICES ASSUME Init PROVE Inv
  OBVIOUS
<1>1. PICK P \in SUBSET PhongBan :
        /\ db = [NoDb EXCEPT !.so_luong = [p \in PhongBan |-> IF p \in P THEN 0 ELSE NoRow]]
        /\ seen = P
  BY DEF Init
<1>2. /\ db = [phong_ban_id |-> [n \in NhanVien |-> NoRow],
               so_luong |-> [p \in PhongBan |-> IF p \in P THEN 0 ELSE NoRow]]
  BY <1>1 DEF NoDb
<1>3. /\ db.phong_ban_id = [n \in NhanVien |-> NoRow]
      /\ db.so_luong = [p \in PhongBan |-> IF p \in P THEN 0 ELSE NoRow]
  BY <1>2
<1>4. Departments(db) = P
  BY <1>3, IdAssumption DEF Departments
<1>5. db \in Database
  BY <1>2 DEF Database
<1>6. TypeOK
  BY <1>1, <1>5, BoundAssumption DEF Init, TypeOK, NoDb, Database, Id
<1>7. \A p \in PhongBan : Members(db, p) = {}
  BY <1>3, IdAssumption DEF Members
<1>8. Sound(db)
  BY <1>3, <1>4, <1>7, FS_EmptySet DEF Sound, KeysHold, Heads
<1> QED  BY <1>1, <1>4, <1>6, <1>8 DEF Inv, OpenInv, Init

LEMMA InvNext == Inv /\ [Next]_vars => Inv'
<1> SUFFICES ASSUME Inv, [Next]_vars PROVE Inv'
  OBVIOUS
<1>1. ASSUME NEW r \in Request, EmployeeCall(r) PROVE Inv'
  BY <1>1, EmployeeKeeps
<1>2. ASSUME NEW r \in Request, DepartmentCall(r) PROVE Inv'
  BY <1>2, DepartmentKeeps
<1>3. ASSUME NEW r \in Request, Commit(r) PROVE Inv'
  BY <1>3, CommitKeeps
<1>4. ASSUME NEW r \in Request, Rollback(r) PROVE Inv'
  BY <1>4, RollbackKeeps
<1>5. CASE UNCHANGED vars
  BY <1>5 DEF vars, Inv, TypeOK, OpenInv, Snapshot, Sound, KeysHold, Departments, Heads, Members
<1> QED  BY <1>1, <1>2, <1>3, <1>4, <1>5 DEF Next

LEMMA InvHolds == Spec => []Inv
  BY InvInit, InvNext, PTL DEF Spec

-----------------------------------------------------------------------------
\* The rows of employees and departments keep their types, and so do the
\* records of every open call, for any number of them.
THEOREM TypeCorrect == Spec => []TypeOK
  BY InvHolds, PTL DEF Inv

\* so_luong_nhan_vien of every department is the number of its employees, for
\* any number of overlapping calls (phong_ban.py).
THEOREM HeadCount == Spec => []HeadCountExact
<1>1. Inv => HeadCountExact
  BY DEF Inv, Sound, Heads, HeadCountExact
<1> QED  BY <1>1, InvHolds, PTL

-----------------------------------------------------------------------------
(* The page of figures                                                     *)

\* What Act bounds; one suggestion waits at most.
ActsInv == Len(timer) <= 1 /\ asked + Len(timer) + sent <= MaxActs + 2

\* What a request has read is no older than the request, and is not from the
\* future either.
ReadInv ==
  \A n \in DOMAIN flight, t \in Table :
    /\ flight[n].since[t] <= table[t]
    /\ flight[n].read[t] # Unread =>
         flight[n].since[t] <= flight[n].read[t] /\ flight[n].read[t] <= table[t]

\* After a choice made at rest whatever is under way is for the period chosen.
PeriodInv ==
  ~disturbed =>
    /\ \A n \in DOMAIN flight : flight[n].period = Sent(perf)
    /\ timer # <<>> => timer[1].period = perf
    /\ AtRest /\ shown # Empty => shown.period = Sent(perf)

\* Every reply stands below its question.
Ordered(h) ==
  \A i \in 1 .. Len(h) : h[i].role = "ai" /\ h[i] # Greeting => i > 1 /\ h[i - 1] = User(h[i].of)

\* The histories that wait for a reply end with a question, and replies are in
\* order in them: any of them may be the chat again.
ChatInv ==
  /\ Ordered(chatHistory)
  /\ \A h \in chats : Ordered(h) /\ h # <<>> /\ \E m \in 1 .. sent : h[Len(h)] = User(m)

PageInv == PageTypeOK /\ ActsInv /\ ReadInv /\ PeriodInv /\ ChatInv

-----------------------------------------------------------------------------
\* The chat only names messages that were sent.
LEMMA MessagesStay ==
  ASSUME sent \in Nat, sent' \in Nat, sent <= sent'
  PROVE  Seq(Message) \subseteq Seq(Message')
<1>1. Message \subseteq Message'
  BY DEF Message, User, Reply, Greeting
<1>2. ASSUME NEW h \in Seq(Message) PROVE h \in Seq(Message')
  <2>1. Len(h) \in Nat /\ h \in [1 .. Len(h) -> Message]
    OBVIOUS
  <2>2. h \in [1 .. Len(h) -> Message']
    BY <1>1, <2>1
  <2> QED  BY <2>1, <2>2
<1> QED  BY <1>2

\* A message of the user below a chat keeps it in order, and so does the reply
\* to the last one.
LEMMA OrderedUser ==
  ASSUME NEW h \in Seq(Message), Ordered(h), NEW m
  PROVE  Ordered(Append(h, User(m)))
<1> DEFINE g == Append(h, User(m))
<1>1. Len(g) = Len(h) + 1 /\ Len(h) \in Nat /\ g[Len(h) + 1] = User(m)
  OBVIOUS
<1>2. \A i \in 1 .. Len(h) : g[i] = h[i]
  OBVIOUS
<1>3. User(m).role = "user"
  BY DEF User
<1> HIDE DEF g
<1>4. ASSUME NEW i \in 1 .. Len(g), g[i].role = "ai", g[i] # Greeting
      PROVE  i > 1 /\ g[i - 1] = User(g[i].of)
  <2>1. i \in 1 .. Len(h)
    BY <1>1, <1>3, <1>4
  <2>2. i > 1 /\ h[i - 1] = User(h[i].of)
    BY <1>2, <1>4, <2>1 DEF Ordered
  <2>3. i - 1 \in 1 .. Len(h)
    BY <1>1, <2>1, <2>2
  <2> QED  BY <1>2, <2>1, <2>2, <2>3
<1>5. Ordered(g)
  BY <1>4 DEF Ordered
<1> QED  BY <1>5 DEF g

LEMMA OrderedReply ==
  ASSUME NEW h \in Seq(Message), Ordered(h), h # <<>>, NEW m, h[Len(h)] = User(m)
  PROVE  Ordered(Append(h, Reply(m)))
<1> DEFINE g == Append(h, Reply(m))
<1>1. Len(g) = Len(h) + 1 /\ Len(h) \in Nat /\ Len(h) >= 1 /\ g[Len(h) + 1] = Reply(m)
  OBVIOUS
<1>2. \A i \in 1 .. Len(h) : g[i] = h[i]
  OBVIOUS
<1>3. Reply(m).of = m
  BY DEF Reply
<1> HIDE DEF g
<1>4. ASSUME NEW i \in 1 .. Len(g), g[i].role = "ai", g[i] # Greeting
      PROVE  i > 1 /\ g[i - 1] = User(g[i].of)
  <2>1. CASE i = Len(h) + 1
    BY <1>1, <1>2, <1>3, <2>1
  <2>2. CASE i # Len(h) + 1
    <3>1. i \in 1 .. Len(h)
      BY <1>1, <2>2
    <3>2. i > 1 /\ h[i - 1] = User(h[i].of)
      BY <1>2, <1>4, <3>1 DEF Ordered
    <3>3. i - 1 \in 1 .. Len(h)
      BY <1>1, <3>1, <3>2
    <3> QED  BY <1>2, <3>1, <3>2, <3>3
  <2> QED  BY <2>1, <2>2
<1>5. Ordered(g)
  BY <1>4 DEF Ordered
<1> QED  BY <1>5 DEF g

\* The period that is sent is a month, or none.
LEMMA SentType == ASSUME NEW p \in Period PROVE Sent(p) \in Month \cup {Initial}
  BY DEF Sent

\* The types of the requests and what they have read.
FlightType == DOMAIN flight \subseteq 0 .. asked /\ flight \in [DOMAIN flight -> Asked]

LEMMA EmptyType == Empty \in [period : Month \cup {Initial}, read : Figures]
  BY DEF Empty, Figures

\* A new question has read nothing yet.
LEMMA QuestionType ==
  ASSUME PageTypeOK, NEW p \in Period, NEW f \in BOOLEAN
  PROVE  /\ Question(p, f) \in Asked
         /\ Question(p, f).period = Sent(p)
         /\ Question(p, f).since = table
         /\ \A t \in Table : Question(p, f).read[t] = Unread
<1>1. Empty.read \in Figures /\ \A t \in Table : Empty.read[t] = Unread
  BY DEF Empty, Figures
<1>2. Question(p, f) = [period |-> Sent(p), fresh |-> f, since |-> table, read |-> Empty.read]
  BY DEF Question
<1> HIDE DEF Question
<1>3. table \in [Table -> Nat]
  BY DEF PageTypeOK
<1>4. Question(p, f) \in Asked
  BY <1>1, <1>2, <1>3, SentType DEF Asked
<1> QED  BY <1>1, <1>2, <1>4

LEMMA AskKeeps ==
  ASSUME PageTypeOK, ReadInv, NEW c \in [period : Period, fresh : BOOLEAN],
         Ask(c), table' = table
  PROVE  /\ FlightType' /\ ReadInv'
         /\ DOMAIN flight' = DOMAIN flight \cup {asked}
         /\ \A n \in DOMAIN flight' :
              flight'[n].period = Sent(c.period) \/ (n \in DOMAIN flight /\ flight'[n] = flight[n])
<1> DEFINE q == Question(c.period, c.fresh)
<1>1. /\ q \in Asked /\ q.period = Sent(c.period) /\ q.since = table
      /\ \A t \in Table : q.read[t] = Unread
  BY QuestionType
<1>2. asked \in Nat /\ asked' = asked + 1
  BY DEF Ask, PageTypeOK
<1>3. flight' = [n \in DOMAIN flight \cup {asked} |-> IF n = asked THEN q ELSE flight[n]]
  BY DEF Ask
<1> HIDE DEF q
<1>4. /\ DOMAIN flight' = DOMAIN flight \cup {asked}
      /\ \A n \in DOMAIN flight' : IF n = asked THEN flight'[n] = q
                                   ELSE n \in DOMAIN flight /\ flight'[n] = flight[n]
  BY <1>3
<1>5. FlightType'
  <2>1. DOMAIN flight' \subseteq 0 .. asked'
    BY <1>2, <1>4 DEF PageTypeOK
  <2>2. \A n \in DOMAIN flight' : flight'[n] \in Asked
    BY <1>1, <1>4 DEF PageTypeOK
  <2>3. flight' \in [DOMAIN flight' -> Asked]
    BY <1>3, <1>4, <2>2
  <2>4. Asked' = Asked
    BY DEF Asked, Figures
  <2> QED  BY <2>1, <2>3, <2>4 DEF FlightType
<1>6. ReadInv'
  <2> SUFFICES ASSUME NEW n \in DOMAIN flight', NEW t \in Table
               PROVE  /\ flight'[n].since[t] <= table[t]
                      /\ flight'[n].read[t] # Unread =>
                           flight'[n].since[t] <= flight'[n].read[t] /\ flight'[n].read[t] <= table[t]
    BY DEF ReadInv
  <2>1. CASE n = asked
    <3>1. flight'[n] = q
      BY <1>4, <2>1
    <3>2. table[t] \in Nat
      BY DEF PageTypeOK
    <3> QED  BY <1>1, <3>1, <3>2
  <2>2. CASE n # asked
    BY <1>4, <2>2 DEF ReadInv
  <2> QED  BY <2>1, <2>2
<1> QED  BY <1>1, <1>4, <1>5, <1>6

LEMMA LandKeeps ==
  ASSUME PageTypeOK, ReadInv, NEW n \in DOMAIN flight, Land(n)
  PROVE  /\ FlightType' /\ ReadInv'
         /\ DOMAIN flight' = DOMAIN flight \ {n}
         /\ \A k \in DOMAIN flight' : flight'[k] = flight[k]
<1>1. flight' = [k \in DOMAIN flight \ {n} |-> flight[k]] /\ asked' = asked /\ table' = table
  BY DEF Land
<1>2. DOMAIN flight' = DOMAIN flight \ {n} /\ \A k \in DOMAIN flight' : flight'[k] = flight[k]
  BY <1>1
<1>3. flight' \in [DOMAIN flight' -> Asked]
  BY <1>1, <1>2 DEF PageTypeOK
<1>4. FlightType'
  BY <1>1, <1>2, <1>3 DEF FlightType, PageTypeOK, Asked, Figures
<1>5. ReadInv'
  BY <1>1, <1>2 DEF ReadInv
<1> QED  BY <1>2, <1>4, <1>5

\* PageTypeOK with the requests apart.
LEMMA TypeParts ==
  PageTypeOK <=>
    /\ table       \in [Table -> Nat]
    /\ perf        \in Period
    /\ shown       \in [period : Month \cup {Initial}, read : Figures]
    /\ loading     \in BOOLEAN
    /\ chatHistory \in Seq(Message)
    /\ FlightType
    /\ asked       \in 2 .. MaxActs + 2
    /\ timer       \in Seq([period : Period, fresh : BOOLEAN])
    /\ chats       \subseteq Seq(Message)
    /\ sent        \in 0 .. MaxActs
    /\ disturbed   \in BOOLEAN
  BY DEF PageTypeOK, FlightType

-----------------------------------------------------------------------------
LEMMA PageInitial == ASSUME PageInit PROVE PageInv
<1>1. Initial \in Period /\ Sent(Initial) = Initial
  BY PeriodAssumption DEF Period, Sent
<1> DEFINE q == Question(Initial, TRUE)
<1>2. /\ q \in Asked /\ q.period = Initial /\ q.since = table
      /\ \A t \in Table : q.read[t] = Unread
  <2>1. Empty.read \in Figures /\ \A t \in Table : Empty.read[t] = Unread
    BY DEF Empty, Figures
  <2>2. q = [period |-> Initial, fresh |-> TRUE, since |-> table, read |-> Empty.read]
    BY <1>1 DEF Question
  <2>3. table \in [Table -> Nat]
    BY DEF PageInit
  <2> HIDE DEF q
  <2>4. q \in Asked
    BY <2>1, <2>2, <2>3 DEF Asked
  <2> QED  BY <2>1, <2>2, <2>4
<1>3. flight = [n \in 0 .. 1 |-> q]
  BY DEF PageInit
<1> HIDE DEF q
<1>4. DOMAIN flight = 0 .. 1 /\ \A n \in DOMAIN flight : flight[n] = q
  BY <1>3
<1>5. FlightType
  <2>1. flight \in [DOMAIN flight -> Asked]
    BY <1>2, <1>3, <1>4
  <2>2. asked = 2
    BY DEF PageInit
  <2> QED  BY <1>4, <2>1, <2>2 DEF FlightType
<1>6. PageTypeOK
  <2>1. shown \in [period : Month \cup {Initial}, read : Figures]
    BY EmptyType DEF PageInit
  <2>2. chatHistory \in Seq(Message) /\ timer \in Seq([period : Period, fresh : BOOLEAN])
    BY DEF PageInit
  <2>3. table \in [Table -> Nat] /\ asked \in 2 .. MaxActs + 2 /\ sent \in 0 .. MaxActs
    BY ActsAssumption DEF PageInit
  <2> QED  BY <1>1, <1>5, <2>1, <2>2, <2>3, TypeParts DEF PageInit
<1>7. ActsInv
  BY ActsAssumption DEF PageInit, ActsInv
<1>8. ReadInv
  <2>1. \A t \in Table : table[t] \in Nat
    BY DEF PageInit
  <2> QED  BY <1>2, <1>4, <2>1 DEF ReadInv
<1>9. PeriodInv
  BY <1>1, <1>2, <1>4 DEF PageInit, PeriodInv
<1>10. ChatInv
  BY DEF PageInit, ChatInv, Ordered
<1> QED  BY <1>6, <1>7, <1>8, <1>9, <1>10 DEF PageInv

\* A step that leaves chats and messages alone leaves their order alone.
LEMMA ChatStays ==
  ASSUME PageInv, UNCHANGED <<chatHistory, chats, sent>>
  PROVE  /\ chatHistory' \in Seq(Message') /\ chats' \subseteq Seq(Message') /\ ChatInv'
<1>1. Message' = Message
  BY DEF Message
<1> QED  BY <1>1 DEF PageInv, PageTypeOK, ChatInv, Ordered

\* A call of fetchRealData, of the render c.
LEMMA ChooseKeeps ==
  ASSUME PageInv, NEW period \in Month \cup Year, ChoosePeriod(period)
  PROVE  PageInv'
<1> DEFINE c == [Closure EXCEPT !.period = period]
<1>1. c \in [period : Period, fresh : BOOLEAN] /\ c.period = period
  BY DEF Closure, Period, PageInv, PageTypeOK
<1>2. Ask(c) /\ table' = table /\ perf' = period /\ disturbed' = ~AtRest
  BY DEF ChoosePeriod
<1>3. UNCHANGED <<shown, chatHistory, timer, chats, sent>> /\ Act
  BY DEF ChoosePeriod
<1> HIDE DEF c
<1>4. PageTypeOK /\ ReadInv
  BY DEF PageInv
<1>5. /\ FlightType' /\ ReadInv'
      /\ DOMAIN flight' = DOMAIN flight \cup {asked}
      /\ \A n \in DOMAIN flight' :
           flight'[n].period = Sent(c.period) \/ (n \in DOMAIN flight /\ flight'[n] = flight[n])
  BY <1>1, <1>2, <1>4, AskKeeps
<1>6. asked' = asked + 1 /\ loading' = TRUE
  BY <1>2 DEF Ask
<1>7. /\ asked \in 2 .. MaxActs + 2 /\ sent \in 0 .. MaxActs /\ Len(timer) \in Nat
      /\ MaxActs \in Nat /\ asked + Len(timer) + sent <= MaxActs + 2 /\ Len(timer) <= 1
  BY <1>4, ActsAssumption DEF PageTypeOK, PageInv, ActsInv
<1>8. asked' \in 2 .. MaxActs + 2 /\ ActsInv'
  BY <1>3, <1>6, <1>7 DEF Act, ActsInv
<1>9. PageTypeOK'
  <2>1. period \in Period /\ disturbed' \in BOOLEAN
    BY <1>2 DEF Period, AtRest
  <2> QED  BY <1>2, <1>3, <1>4, <1>5, <1>6, <1>8, <2>1, ChatStays DEF PageInv, PageTypeOK, FlightType, Figures, Period
<1>10. PeriodInv'
  <2> SUFFICES ASSUME AtRest
               PROVE  /\ \A n \in DOMAIN flight' : flight'[n].period = Sent(perf')
                      /\ timer' = <<>>
                      /\ ~AtRest'
    BY <1>2 DEF PeriodInv
  <2>1. DOMAIN flight = {} /\ timer = <<>>
    BY DEF AtRest
  <2> QED  BY <1>1, <1>2, <1>3, <1>5, <2>1 DEF AtRest
<1> QED  BY <1>3, <1>5, <1>8, <1>9, <1>10, ChatStays DEF PageInv

LEMMA TimeoutKeeps == ASSUME PageInv, Timeout PROVE PageInv'
<1>1. /\ timer \in Seq([period : Period, fresh : BOOLEAN]) /\ timer # <<>>
      /\ Ask(Head(timer)) /\ timer' = <<>>
      /\ UNCHANGED <<table, perf, shown, chatHistory, chats, sent, disturbed>>
  BY DEF Timeout, PageInv, PageTypeOK
<1>2. /\ Head(timer) = timer[1] /\ timer[1] \in [period : Period, fresh : BOOLEAN]
      /\ Len(timer) \in Nat /\ Len(timer) >= 1
  <2>1. Len(timer) \in Nat /\ Len(timer) >= 1
    BY <1>1
  <2>2. timer[1] \in [period : Period, fresh : BOOLEAN]
    <3>1. \A S : \A q \in Seq(S) : Len(q) >= 1 => q[1] \in S
      OBVIOUS
    <3> QED  BY <1>1, <2>1, <3>1
  <2> QED  BY <1>1, <2>1, <2>2
<1>3. PageTypeOK /\ ReadInv
  BY DEF PageInv
<1>4. /\ FlightType' /\ ReadInv'
      /\ DOMAIN flight' = DOMAIN flight \cup {asked}
      /\ \A n \in DOMAIN flight' :
           flight'[n].period = Sent(timer[1].period) \/ (n \in DOMAIN flight /\ flight'[n] = flight[n])
  BY <1>1, <1>2, <1>3, AskKeeps
<1>5. asked' = asked + 1 /\ loading' = TRUE
  BY <1>1 DEF Ask
<1>6. asked \in 2 .. MaxActs + 2 /\ sent \in 0 .. MaxActs /\ MaxActs \in Nat
  BY <1>3, ActsAssumption DEF PageTypeOK
<1>7. Len(timer') = 0 /\ timer' \in Seq([period : Period, fresh : BOOLEAN])
  <2>1. timer' = <<>>
    BY <1>1
  <2> QED  BY <2>1
<1>8. asked' \in 2 .. MaxActs + 2 /\ ActsInv'
  BY <1>1, <1>2, <1>5, <1>6, <1>7 DEF PageInv, ActsInv
<1>9. PageTypeOK'
  BY <1>1, <1>3, <1>4, <1>5, <1>7, <1>8, ChatStays DEF PageInv, PageTypeOK, FlightType, Figures, Period
<1>10. PeriodInv'
  <2> SUFFICES ASSUME ~disturbed
               PROVE  /\ \A n \in DOMAIN flight' : flight'[n].period = Sent(perf)
                      /\ ~AtRest'
    BY <1>1 DEF PeriodInv
  <2>1. timer[1].period = perf /\ \A n \in DOMAIN flight : flight[n].period = Sent(perf)
    BY <1>1 DEF PageInv, PeriodInv
  <2>2. asked \in DOMAIN flight'
    BY <1>4
  <2>3. ~AtRest'
    BY <2>2 DEF AtRest
  <2> QED  BY <1>4, <2>1, <2>3
<1> QED  BY <1>1, <1>4, <1>8, <1>9, <1>10, ChatStays DEF PageInv

LEMMA SuggestKeeps == ASSUME PageInv, Suggest PROVE PageInv'
<1>1. /\ Act /\ timer = <<>> /\ timer' = <<Closure>> /\ disturbed' = ~AtRest
      /\ UNCHANGED <<table, perf, shown, loading, chatHistory, flight, asked, chats, sent>>
  BY DEF Suggest
<1>2. Closure \in [period : Period, fresh : BOOLEAN] /\ Closure.period = perf
  BY DEF Closure, PageInv, PageTypeOK
<1>3. /\ timer' \in Seq([period : Period, fresh : BOOLEAN])
      /\ Len(timer') = 1 /\ timer'[1] = Closure /\ timer' # <<>>
  BY <1>1, <1>2
<1>4. FlightType'
  BY <1>1 DEF PageInv, PageTypeOK, FlightType, Asked, Figures
<1>5. ActsInv'
  <2>1. asked \in Nat /\ sent \in Nat /\ MaxActs \in Nat /\ Len(timer) = 0
    BY <1>1, ActsAssumption DEF PageInv, PageTypeOK
  <2> QED  BY <1>1, <1>3, <2>1 DEF Act, ActsInv
<1>6. disturbed' \in BOOLEAN
  BY <1>1 DEF AtRest
<1>7. PageTypeOK'
  BY <1>1, <1>3, <1>4, <1>6, ChatStays DEF PageInv, PageTypeOK, FlightType, Figures, Period
<1>8. PeriodInv'
  BY <1>1, <1>2, <1>3 DEF PeriodInv, AtRest
<1>9. ReadInv'
  BY <1>1 DEF PageInv, ReadInv
<1> QED  BY <1>1, <1>5, <1>7, <1>8, <1>9, ChatStays DEF PageInv

LEMMA ReadKeeps ==
  ASSUME PageInv, NEW n \in DOMAIN flight, NEW t \in Table, ReadTable(n, t)
  PROVE  PageInv'
<1>1. /\ flight[n].read[t] = Unread
      /\ flight' = [flight EXCEPT ![n].read[t] = table[t]]
      /\ UNCHANGED <<table, perf, shown, loading, chatHistory, asked, timer, chats, sent, disturbed>>
  BY DEF ReadTable
<1>2. flight \in [DOMAIN flight -> Asked] /\ table \in [Table -> Nat]
  BY DEF PageInv, PageTypeOK
<1>3. /\ DOMAIN flight' = DOMAIN flight
      /\ \A k \in DOMAIN flight : k # n => flight'[k] = flight[k]
      /\ flight'[n] = [flight[n] EXCEPT !.read[t] = table[t]]
  BY <1>1, <1>2
<1>4. flight[n] \in Asked
  BY <1>2
<1>5. /\ flight'[n] \in Asked
      /\ flight'[n].period = flight[n].period /\ flight'[n].since = flight[n].since
      /\ flight'[n].read = [flight[n].read EXCEPT ![t] = table[t]]
  <2>1. table[t] \in Nat \cup {Unread} /\ flight[n].read \in Figures
    BY <1>2, <1>4 DEF Asked
  <2>2. [flight[n].read EXCEPT ![t] = table[t]] \in Figures
    BY <2>1 DEF Figures
  <2>3. /\ flight'[n].period = flight[n].period /\ flight'[n].since = flight[n].since
        /\ flight'[n].fresh = flight[n].fresh
        /\ flight'[n].read = [flight[n].read EXCEPT ![t] = table[t]]
    BY <1>3, <1>4 DEF Asked
  <2>4. flight'[n] = [flight[n] EXCEPT !.read = [flight[n].read EXCEPT ![t] = table[t]]]
    BY <1>3, <1>4 DEF Asked
  <2>5. flight'[n] \in Asked
    BY <1>4, <2>2, <2>4 DEF Asked
  <2> QED  BY <2>3, <2>5
<1>6. \A u \in Table : flight'[n].read[u] = IF u = t THEN table[t] ELSE flight[n].read[u]
  BY <1>4, <1>5 DEF Asked, Figures
<1>7. FlightType'
  <2>1. flight' \in [DOMAIN flight' -> Asked]
    BY <1>1, <1>2, <1>3, <1>5
  <2> QED  BY <1>1, <1>3, <2>1 DEF FlightType, PageInv, PageTypeOK, Asked, Figures
<1>8. ReadInv'
  <2>1. flight[n].since[t] <= table[t] /\ table[t] \in Nat
    BY <1>2 DEF PageInv, ReadInv
  <2> SUFFICES ASSUME NEW k \in DOMAIN flight, NEW u \in Table
               PROVE  /\ flight'[k].since[u] <= table[u]
                      /\ flight'[k].read[u] # Unread =>
                           flight'[k].since[u] <= flight'[k].read[u] /\ flight'[k].read[u] <= table[u]
    BY <1>1, <1>3 DEF ReadInv
  <2>2. CASE k = n /\ u = t
    <3>1. flight'[k].since[u] = flight[n].since[t] /\ flight'[k].read[u] = table[t]
      BY <1>5, <1>6, <2>2
    <3>2. table[t] <= table[t]
      BY <2>1
    <3> QED  BY <2>1, <2>2, <3>1, <3>2
  <2>3. CASE k = n /\ u # t
    BY <1>5, <1>6, <2>3 DEF PageInv, ReadInv
  <2>4. CASE k # n
    BY <1>3, <2>4 DEF PageInv, ReadInv
  <2> QED  BY <2>2, <2>3, <2>4
<1>9. PageTypeOK'
  BY <1>1, <1>7, ChatStays DEF PageInv, PageTypeOK, FlightType, Figures, Period
<1>10. PeriodInv'
  BY <1>1, <1>3, <1>5 DEF PageInv, PeriodInv, AtRest
<1> QED  BY <1>1, <1>8, <1>9, <1>10, ChatStays DEF PageInv, ActsInv

\* The greeting is in order, and so is the chat that stays.
LEMMA GreetKeeps ==
  ASSUME PageInv, NEW n \in DOMAIN flight, Greet(n), UNCHANGED <<chats, sent>>
  PROVE  /\ chatHistory' \in Seq(Message') /\ chats' \subseteq Seq(Message') /\ ChatInv'
<1>1. Message' = Message
  BY DEF Message
<1>2. CASE chatHistory' = chatHistory
  BY <1>2, ChatStays
<1>3. CASE chatHistory' = <<Greeting>>
  <2>1. <<Greeting>> \in Seq(Message) /\ Len(<<Greeting>>) = 1 /\ <<Greeting>>[1] = Greeting
    BY DEF Message
  <2>2. Ordered(<<Greeting>>)
    BY <2>1 DEF Ordered
  <2> QED  BY <1>1, <1>3, <2>1, <2>2 DEF PageInv, PageTypeOK, ChatInv, Ordered
<1> QED  BY <1>2, <1>3 DEF Greet

LEMMA FinishKeeps == ASSUME PageInv, NEW n \in DOMAIN flight, Finish(n) PROVE PageInv'
<1>1. Land(n) /\ UNCHANGED <<table, perf, asked, timer, chats, sent>> /\ loading' = FALSE
  BY DEF Finish, Answer, AnswerError, NoAnswer, Land
<1>2. PageTypeOK /\ ReadInv
  BY DEF PageInv
<1>3. /\ FlightType' /\ ReadInv'
      /\ DOMAIN flight' = DOMAIN flight \ {n}
      /\ \A k \in DOMAIN flight' : flight'[k] = flight[k]
  BY <1>1, <1>2, LandKeeps
<1>4. flight[n] \in Asked
  BY <1>2 DEF PageTypeOK
<1>5. ChatInv' /\ chatHistory' \in Seq(Message') /\ chats' \subseteq Seq(Message')
  <2>1. CASE Greet(n)
    BY <1>1, <2>1, GreetKeeps
  <2>2. CASE NoAnswer(n)
    BY <1>1, <2>2, ChatStays DEF NoAnswer
  <2> QED  BY <2>1, <2>2 DEF Finish, Answer, AnswerError
<1>6. shown' \in [period : Month \cup {Initial}, read : Figures] /\ disturbed' \in BOOLEAN
  <2>1. CASE Answer(n)
    BY <1>2, <1>4, <2>1 DEF Answer, Asked, PageTypeOK
  <2>2. CASE AnswerError(n)
    BY <1>2, <2>2, EmptyType DEF AnswerError, PageTypeOK
  <2>3. CASE NoAnswer(n)
    BY <1>2, <2>3 DEF NoAnswer, PageTypeOK
  <2> QED  BY <2>1, <2>2, <2>3 DEF Finish
<1>7. PageTypeOK'
  BY <1>1, <1>2, <1>3, <1>5, <1>6 DEF PageTypeOK, FlightType, Figures, Period
<1>8. PeriodInv'
  <2>1. CASE Answer(n)
    <3>1. disturbed' = disturbed /\ shown'.period = flight[n].period
      BY <2>1 DEF Answer
    <3> QED  BY <1>1, <1>3, <3>1 DEF PageInv, PeriodInv
  <2>2. CASE AnswerError(n)
    <3>1. disturbed' = disturbed /\ shown' = Empty /\ Empty' = Empty
      BY <2>2 DEF AnswerError, Empty
    <3> QED  BY <1>1, <1>3, <3>1 DEF PageInv, PeriodInv
  <2>3. CASE NoAnswer(n)
    BY <2>3 DEF NoAnswer, PeriodInv
  <2> QED  BY <2>1, <2>2, <2>3 DEF Finish
<1> QED  BY <1>1, <1>3, <1>5, <1>7, <1>8 DEF PageInv, ActsInv

LEMMA SendKeeps == ASSUME PageInv, SendChat PROVE PageInv'
<1>1. /\ Act /\ sent' = sent + 1
      /\ chatHistory' = Append(chatHistory, User(sent')) /\ chats' = chats \cup {chatHistory'}
      /\ UNCHANGED <<table, perf, shown, loading, flight, asked, timer, disturbed>>
  BY DEF SendChat
<1>2. PageTypeOK /\ ActsInv /\ ChatInv
  BY DEF PageInv
<1>3. sent' \in 1 .. MaxActs /\ sent <= sent' /\ sent \in Nat /\ ActsInv'
  <2>1. /\ asked \in 2 .. MaxActs + 2 /\ sent \in 0 .. MaxActs /\ Len(timer) \in Nat /\ MaxActs \in Nat
    BY <1>2, ActsAssumption DEF PageTypeOK
  <2> QED  BY <1>1, <1>2, <2>1 DEF Act, ActsInv
<1>4. Seq(Message) \subseteq Seq(Message')
  BY <1>3, MessagesStay
<1>5. chatHistory \in Seq(Message) /\ chats \subseteq Seq(Message)
  BY <1>2 DEF PageTypeOK
<1>6. User(sent') \in Message'
  BY <1>3 DEF Message
<1>7. chatHistory' \in Seq(Message') /\ chats' \subseteq Seq(Message')
  BY <1>1, <1>4, <1>5, <1>6
<1>8. chatHistory' # <<>> /\ chatHistory'[Len(chatHistory')] = User(sent')
  BY <1>1, <1>5
<1>9. Ordered(chatHistory')
  BY <1>1, <1>2, <1>5, OrderedUser DEF ChatInv
<1>10. ChatInv'
  <2>1. \A h \in chats : \A m \in 1 .. sent : m \in 1 .. sent'
    BY <1>3
  <2>2. ASSUME NEW h \in chats'
        PROVE  Ordered(h) /\ h # <<>> /\ \E m \in 1 .. sent' : h[Len(h)] = User(m)
    <3>1. CASE h = chatHistory'
      <4>1. sent' \in 1 .. sent'
        BY <1>3
      <4> QED  BY <1>8, <1>9, <3>1, <4>1
    <3>2. CASE h \in chats
      BY <1>2, <2>1, <3>2 DEF ChatInv
    <3> QED  BY <1>1, <3>1, <3>2
  <2> QED  BY <1>9, <2>2 DEF ChatInv, Ordered, User, Greeting
<1>11. PageTypeOK'
  BY <1>1, <1>2, <1>3, <1>7 DEF PageTypeOK, Asked, Figures, Period
<1>12. ReadInv' /\ PeriodInv'
  BY <1>1 DEF PageInv, ReadInv, PeriodInv, AtRest
<1> QED  BY <1>3, <1>10, <1>11, <1>12 DEF PageInv

LEMMA ReplyKeeps ==
  ASSUME PageInv, NEW history \in chats, ReplyChat(history) \/ NoReply(history)
  PROVE  PageInv'
<1>1. /\ chats' = chats \ {history}
      /\ UNCHANGED <<table, perf, shown, loading, flight, asked, timer, sent, disturbed>>
  BY DEF ReplyChat, NoReply
<1>2. PageTypeOK /\ ChatInv /\ Message' = Message
  BY <1>1 DEF PageInv, Message
<1>3. chatHistory' \in Seq(Message') /\ Ordered(chatHistory')
  <2>1. CASE NoReply(history)
    BY <1>2, <2>1 DEF NoReply, ChatInv, PageTypeOK
  <2>2. CASE ReplyChat(history)
    <3>1. PICK m \in 1 .. sent : history[Len(history)] = User(m)
      BY <1>2 DEF ChatInv
    <3>2. chatHistory' = Append(history, Reply(m))
      BY <2>2, <3>1 DEF ReplyChat, User
    <3>3. history \in Seq(Message) /\ Ordered(history) /\ history # <<>>
      BY <1>2 DEF PageTypeOK, ChatInv
    <3>4. Reply(m) \in Message
      BY DEF Message
    <3>5. Append(history, Reply(m)) \in Seq(Message)
      BY <3>3, <3>4
    <3>6. Ordered(Append(history, Reply(m)))
      BY <3>1, <3>3, OrderedReply
    <3> QED  BY <1>2, <3>2, <3>5, <3>6
  <2> QED  BY <2>1, <2>2
<1>4. PageTypeOK'
  BY <1>1, <1>2, <1>3 DEF PageTypeOK, Asked, Figures, Period
<1>5. ChatInv'
  BY <1>1, <1>2, <1>3 DEF ChatInv, Ordered, User, Greeting
<1>6. ReadInv' /\ PeriodInv' /\ ActsInv'
  BY <1>1 DEF PageInv, ReadInv, PeriodInv, AtRest, ActsInv
<1> QED  BY <1>4, <1>5, <1>6 DEF PageInv

LEMMA ChangeKeeps == ASSUME PageInv, NEW t \in Table, Change(t) PROVE PageInv'
<1>1. /\ table' = [table EXCEPT ![t] = @ + 1]
      /\ UNCHANGED <<perf, shown, loading, chatHistory, flight, asked, timer, chats, sent, disturbed>>
  BY DEF Change
<1>2. PageTypeOK
  BY DEF PageInv
<1>3. table' \in [Table -> Nat] /\ \A u \in Table : table[u] \in Nat /\ table[u] <= table'[u]
  BY <1>1, <1>2 DEF PageTypeOK
<1>4. PageTypeOK'
  BY <1>1, <1>2, <1>3, ChatStays DEF PageInv, PageTypeOK, Asked, Figures, Period
<1>5. ReadInv'
  <2> SUFFICES ASSUME NEW n \in DOMAIN flight, NEW u \in Table
               PROVE  /\ flight[n].since[u] <= table'[u]
                      /\ flight[n].read[u] # Unread =>
                           flight[n].since[u] <= flight[n].read[u] /\ flight[n].read[u] <= table'[u]
    BY <1>1 DEF ReadInv
  <2>1. flight[n] \in Asked
    BY <1>2 DEF PageTypeOK
  <2>2. flight[n].since[u] \in Nat /\ (flight[n].read[u] # Unread => flight[n].read[u] \in Nat)
    BY <2>1 DEF Asked, Figures
  <2> QED  BY <1>3, <2>2 DEF PageInv, ReadInv
<1> QED  BY <1>1, <1>4, <1>5, ChatStays DEF PageInv, PeriodInv, AtRest, ActsInv

LEMMA PageInvNext == PageInv /\ [PageNext]_pageVars => PageInv'
<1> SUFFICES ASSUME PageInv, [PageNext]_pageVars PROVE PageInv'
  OBVIOUS
<1>1. CASE Suggest
  BY <1>1, SuggestKeeps
<1>2. CASE Timeout
  BY <1>2, TimeoutKeeps
<1>3. ASSUME NEW period \in Month \cup Year, ChoosePeriod(period) PROVE PageInv'
  BY <1>3, ChooseKeeps
<1>4. ASSUME NEW n \in DOMAIN flight, Finish(n) PROVE PageInv'
  BY <1>4, FinishKeeps
<1>5. ASSUME NEW n \in DOMAIN flight, NEW t \in Table, ReadTable(n, t) PROVE PageInv'
  BY <1>5, ReadKeeps
<1>6. CASE SendChat
  BY <1>6, SendKeeps
<1>7. ASSUME NEW history \in chats, ReplyChat(history) \/ NoReply(history) PROVE PageInv'
  BY <1>7, ReplyKeeps
<1>8. ASSUME NEW t \in Table, Change(t) PROVE PageInv'
  BY <1>8, ChangeKeeps
<1>9. CASE UNCHANGED pageVars
  BY <1>9, ChatStays
     DEF pageVars, PageInv, PageTypeOK, Asked, Figures, Period, ReadInv, PeriodInv, AtRest, ActsInv
<1> QED  BY <1>1, <1>2, <1>3, <1>4, <1>5, <1>6, <1>7, <1>8, <1>9 DEF PageNext

LEMMA PageInvHolds == PageSpec => []PageInv
  BY PageInitial, PageInvNext, PTL DEF PageSpec

-----------------------------------------------------------------------------
\* The page's state keeps its types: a year is never sent, replies are to
\* messages that were sent.
THEOREM PageTypeCorrect == PageSpec => []PageTypeOK
  BY PageInvHolds, PTL DEF PageInv

\* Where the filter shows a month, or no choice yet, a page at rest shows the
\* figures of that month, or of all time, if the choice was made at rest and
\* answered (Dashboard.jsx, the effect on perfMonth and perfYear).  A year is
\* outside: its figures are those of all time.
THEOREM FiguresFit == PageSpec => []ShownAsChosen
<1>1. PageInv => ShownAsChosen
  <2> SUFFICES ASSUME PageInv, Settled, perf \notin Year PROVE shown.period = perf
    BY DEF ShownAsChosen
  <2>1. shown.period = Sent(perf)
    BY DEF PageInv, PeriodInv, Settled
  <2>2. perf \in Month \cup {Initial}
    BY DEF PageInv, PageTypeOK, Period
  <2> QED  BY <2>1, <2>2 DEF Sent
<1> QED  BY <1>1, PageInvHolds, PTL

\* A reply of the chat stands right below its question, for any number of
\* messages and whichever histories they go on from (handleSendChat).
THEOREM RepliesInOrder == PageSpec => []RepliesFollowQuestions
<1>1. PageInv => RepliesFollowQuestions
  BY DEF PageInv, ChatInv, Ordered, RepliesFollowQuestions
<1> QED  BY <1>1, PageInvHolds, PTL

\* The figures of an answer are no older, of any table, than their question, for
\* any number of tables, requests and choices (server.js, callOdoo).
THEOREM FiguresInTime == PageSpec => FiguresFresh
<1> DEFINE Step ==
      shown' # shown /\ shown' # Empty =>
        \E n \in DOMAIN flight \ DOMAIN flight' :
          /\ shown'.read = flight[n].read
          /\ \A t \in Table : flight[n].since[t] <= shown'.read[t] /\ shown'.read[t] <= table[t]
<1>1. ASSUME PageInv, [PageNext]_pageVars PROVE [Step]_pageVars
  <2> SUFFICES ASSUME PageNext, shown' # shown, shown' # Empty PROVE Step
    BY <1>1
  <2>1. PICK n \in DOMAIN flight : Finish(n)
    BY DEF PageNext, Suggest, Timeout, ChoosePeriod, ReadTable, SendChat, ReplyChat, NoReply, Change
  <2>2. Answer(n)
    BY <2>1 DEF Finish, AnswerError, NoAnswer
  <2>3. /\ \A t \in Table : flight[n].read[t] # Unread
        /\ shown' = [period |-> flight[n].period, read |-> flight[n].read]
        /\ flight' = [k \in DOMAIN flight \ {n} |-> flight[k]]
    BY <2>2 DEF Answer, Land
  <2>4. n \in DOMAIN flight \ DOMAIN flight' /\ shown'.read = flight[n].read
    BY <2>3
  <2>5. \A t \in Table : flight[n].since[t] <= shown'.read[t] /\ shown'.read[t] <= table[t]
    BY <1>1, <2>3, <2>4 DEF PageInv, ReadInv
  <2> QED  BY <2>4, <2>5
<1> QED  BY <1>1, PageInvHolds, PTL DEF PageSpec, FiguresFresh
=============================================================================

--------------------------- MODULE HopDongProofs ----------------------------
(***************************************************************************)
(* Theorems about HopDong, for any customers, contracts, tickets and       *)
(* requests.  They rest on Unchanged: where no commit the request cannot   *)
(* see has updated a record, what the request sees of it is what its own   *)
(* commit would leave.  What a call checked on its snapshot is then true   *)
(* of what it commits.                                                     *)
(*                                                                         *)
(* That a call signs its customers whole also takes what it has written so *)
(* far (Signing), that whom it was called on it has moved or has yet to    *)
(* (AskedInv), and that the ids of its contracts are its own: another's    *)
(* commit could otherwise fill the row of a contract that is under way.    *)
(*                                                                         *)
(* That calls which overlap do what they would do one after the other      *)
(* takes, of every call, what it is by what it has written (Known): by     *)
(* then a commit does to the stored records what that call does alone.     *)
(***************************************************************************)
EXTENDS HopDong, FiniteSetTheorems, TLAPS

\* What the commit of columns W of the records d leaves of the record i.
Left(d, W, i) ==
  IF i \notin Rows(W) THEN db[i]
  ELSE IF db[i] = NoRow \/ <<i, "*">> \in W THEN d[i]
  ELSE [f \in DOMAIN db[i] |-> IF <<i, f>> \in W THEN d[i][f] ELSE db[i][f]]

Unchanged ==
  \A r \in Request : \A i \in Id \ missed[r] :
    phase[r] = "open" => Left(mine[r], written[r], i) = mine[r][i]

\* A request has customers to sign only while it is open and sees them.
TodoLive ==
  \A r \in Request : \A k \in todo[r] : phase[r] = "open" /\ mine[r][k] # NoRow

Valid(d) == \A h \in Live(d, HopDong) : DatesValid(d[h]) /\ ValueValid(d[h])

Announced(d, N) ==
  \A t \in Live(d, HoTro) : d[t].nhan_vien_id \in TaiKhoan => <<t, d[t].nhan_vien_id>> \in N

CallsInv ==
  \A r \in Request : Valid(mine[r]) /\ Announced(mine[r], told \cup notes[r])

Inv == TypeOK /\ Unchanged /\ TodoLive /\ CallsInv /\ ContractsValid /\ AssigneeTold

-----------------------------------------------------------------------------
\* A change of one record of a database.
LEMMA OneChanged ==
  ASSUME NEW d \in Database, NEW i \in Id, NEW x,
         i \in KhachHang => x \in KhachHangRow \cup {NoRow},
         i \in HopDong => x \in HopDongRow \cup {NoRow},
         i \in HoTro => x \in HoTroRow \cup {NoRow}
  PROVE  [d EXCEPT ![i] = x] \in Database
  BY DEF Database, Id

LEMMA NoDbFits == NoDb \in Database /\ Valid(NoDb) /\ \A N : Announced(NoDb, N)
  BY DEF NoDb, Database, Id, Valid, Live, Announced

LEMMA RowsOfColumn == ASSUME NEW S, NEW c PROVE Rows(S \X {c}) = S
<1>1. \A i \in S : <<i, c>> \in S \X {c} /\ <<i, c>>[1] = i
  OBVIOUS
<1>2. \A w \in S \X {c} : w[1] \in S
  OBVIOUS
<1> QED  BY <1>1, <1>2 DEF Rows

\* What a commit leaves, if it can be made at all.
LEMMA CommitLeaves ==
  ASSUME Inv, NEW r \in Request, phase[r] = "open", Committable(r)
  PROVE  /\ Merged(r) = [i \in Id |-> IF i \in Rows(written[r]) THEN mine[r][i] ELSE db[i]]
         /\ Merged(r) \in Database
<1>1. Merged(r) = [i \in Id |-> Left(mine[r], written[r], i)]
  BY DEF Merged, Left
<1>2. \A i \in Id : Left(mine[r], written[r], i) = IF i \in Rows(written[r]) THEN mine[r][i] ELSE db[i]
  BY DEF Inv, Unchanged, Committable, Left
<1>3. Merged(r) = [i \in Id |-> IF i \in Rows(written[r]) THEN mine[r][i] ELSE db[i]]
  BY <1>1, <1>2
<1>4. mine[r] \in Database /\ db \in Database
  BY DEF Inv, TypeOK
<1> DEFINE m == [i \in Id |-> IF i \in Rows(written[r]) THEN mine[r][i] ELSE db[i]]
<1>5. \A i \in Id : m[i] = mine[r][i] \/ m[i] = db[i]
  OBVIOUS
<1>6. m \in Database
  <2> HIDE DEF m
  <2>1. m = [i \in Id |-> m[i]]
    BY DEF m
  <2>2. \A i \in Id : mine[r][i] \in KhachHangRow \cup HopDongRow \cup HoTroRow \cup {NoRow}
    BY <1>4 DEF Database
  <2>3. \A i \in Id : db[i] \in KhachHangRow \cup HopDongRow \cup HoTroRow \cup {NoRow}
    BY <1>4 DEF Database
  <2>4. m \in [Id -> KhachHangRow \cup HopDongRow \cup HoTroRow \cup {NoRow}]
    BY <1>5, <2>1, <2>2, <2>3
  <2> QED  BY <1>4, <1>5, <2>4 DEF Database, Id
<1> QED  BY <1>3, <1>6

\* A call that starts with records that differ from the stored ones only where
\* it says, and that are as they should be, keeps the invariant.
LEMMA StartKeeps ==
  ASSUME Inv, NEW r \in Request, NEW d \in Database,
         NEW W \in SUBSET (Id \X Field), NEW N \in SUBSET (HoTro \X TaiKhoan),
         NEW K \in SUBSET KhachHang, Start(r, d, W, N, K), seen' \subseteq Id,
         \A i \in Id : Left(d, W, i) = d[i], \A k \in K : d[k] # NoRow,
         Valid(d), Announced(d, told \cup N)
  PROVE  Inv'
<1>1. /\ phase'[r] = "open" /\ todo'[r] = K /\ mine'[r] = d /\ written'[r] = W
      /\ notes'[r] = N /\ missed'[r] = {}
      /\ \A q \in Request \ {r} :
           /\ phase'[q] = phase[q] /\ todo'[q] = todo[q] /\ mine'[q] = mine[q]
           /\ written'[q] = written[q] /\ notes'[q] = notes[q] /\ missed'[q] = missed[q]
      /\ UNCHANGED <<db, told>>
  BY DEF Start, Inv, TypeOK
<1>2. TypeOK'
  BY BoundAssumption DEF Start, Inv, TypeOK
<1>3. Unchanged'
  BY <1>1 DEF Inv, Unchanged, Left
<1>4. TodoLive'
  BY <1>1 DEF Inv, TodoLive
<1>5. CallsInv'
  BY <1>1 DEF Inv, CallsInv, Valid, Announced, Live
<1>6. ContractsValid' /\ AssigneeTold'
  BY <1>1 DEF Inv, ContractsValid, AssigneeTold, Live, DatesValid, ValueValid
<1> QED  BY <1>2, <1>3, <1>4, <1>5, <1>6 DEF Inv

-----------------------------------------------------------------------------
\* The customers of Init are as the form makes them.
LEMMA InvInit == Init => Inv
<1> SUFFICES ASSUME Init PROVE Inv
  OBVIOUS
<1>1. PICK K \in SUBSET KhachHang : \E revenue \in [K -> GiaTri] :
        /\ db   = [i \in Id |->
                     IF i \in K THEN [giai_doan |-> "khac", doanh_thu_tiem_nang |-> revenue[i]]
                                ELSE NoRow]
        /\ seen = K
  BY DEF Init
<1>2. PICK revenue \in [K -> GiaTri] :
        /\ db   = [i \in Id |->
                     IF i \in K THEN [giai_doan |-> "khac", doanh_thu_tiem_nang |-> revenue[i]]
                                ELSE NoRow]
        /\ seen = K
  BY <1>1
<1>3. \A k \in K : [giai_doan |-> "khac", doanh_thu_tiem_nang |-> revenue[k]] \in KhachHangRow
  BY DEF KhachHangRow, GiaiDoan
<1>4. db \in Database
  BY <1>2, <1>3, IdAssumption DEF Database, Id
<1>5. TypeOK
  BY <1>2, <1>4, NoDbFits, BoundAssumption DEF Init, TypeOK, Id
<1>6. Live(db, HopDong) = {} /\ Live(db, HoTro) = {}
  BY <1>2, IdAssumption DEF Live, Id
<1>7. ContractsValid /\ AssigneeTold
  BY <1>6 DEF ContractsValid, AssigneeTold
<1>8. Unchanged /\ TodoLive /\ CallsInv
  BY NoDbFits DEF Init, Unchanged, TodoLive, CallsInv
<1> QED  BY <1>5, <1>7, <1>8 DEF Inv

\* The calls on a customer.
LEMMA CustomerKeeps ==
  ASSUME Inv, NEW r \in Request, CustomerCall(r)
  PROVE  Inv'
<1>0. db \in Database /\ seen \subseteq Id /\ Valid(db) /\ Announced(db, told)
  BY DEF Inv, TypeOK, ContractsValid, AssigneeTold, Valid, Announced
<1>1. ASSUME NEW k \in KhachHang, NEW x \in KhachHangRow, NewCustomer(r, k, x)
      PROVE  Inv'
  <2> DEFINE d == [db EXCEPT ![k] = x]
             W == {<<k, "*">>}
  <2>1. d \in Database
    BY <1>0, IdAssumption, OneChanged DEF Id
  <2>2. Start(r, d, W, {}, {}) /\ seen' \subseteq Id
    BY <1>0, <1>1 DEF NewCustomer, Id
  <2>3. \A i \in Id : Left(d, W, i) = d[i]
    BY <1>0 DEF Left, Rows, Database
  <2>4. Valid(d) /\ Announced(d, told \cup {})
    BY <1>0, IdAssumption DEF Valid, Announced, Live, Database
  <2>5. W \in SUBSET (Id \X Field)
    BY DEF Field, Id
  <2> HIDE DEF d, W
  <2> QED  BY <2>1, <2>2, <2>3, <2>4, <2>5, StartKeeps
<1>2. ASSUME NEW k \in KhachHang, NEW revenue \in GiaTri, SaveCustomer(r, k, revenue)
      PROVE  Inv'
  <2> DEFINE x == [db[k] EXCEPT !.doanh_thu_tiem_nang = revenue]
             d == [db EXCEPT ![k] = x]
             W == {<<k, "doanh_thu_tiem_nang">>}
  <2>0. db[k] \in KhachHangRow
    BY <1>0, <1>2 DEF SaveCustomer, Database
  <2>1. d \in Database
    BY <1>0, <2>0, IdAssumption, OneChanged DEF KhachHangRow, Id
  <2>2. Start(r, d, W, {}, {}) /\ seen' \subseteq Id
    BY <1>0, <1>2 DEF SaveCustomer
  <2>3. \A i \in Id : Left(d, W, i) = d[i]
    BY <1>0, <1>2, <2>0 DEF SaveCustomer, Left, Rows, Database, KhachHangRow
  <2>4. Valid(d) /\ Announced(d, told \cup {})
    BY <1>0, IdAssumption DEF Valid, Announced, Live, Database
  <2>5. W \in SUBSET (Id \X Field)
    BY DEF Field, Id
  <2> HIDE DEF d, W
  <2> QED  BY <2>1, <2>2, <2>3, <2>4, <2>5, StartKeeps
<1>3. ASSUME NEW K \in SUBSET KhachHang, NEW stage \in GiaiDoan, SetStage(r, K, stage)
      PROVE  Inv'
  <2> DEFINE d == [i \in Id |-> IF i \in K THEN [db[i] EXCEPT !.giai_doan = stage] ELSE db[i]]
             W == K \X {"giai_doan"}
  <2>0. \A k \in K : /\ db[k] # NoRow /\ db[k] \in KhachHangRow
                     /\ [db[k] EXCEPT !.giai_doan = stage] \in KhachHangRow
    BY <1>0, <1>3 DEF SetStage, Database, Live, KhachHangRow
  <2>1. d \in Database
    BY <1>0, <2>0, IdAssumption DEF Database, Id
  <2>2. Start(r, d, W, {}, {}) /\ seen' \subseteq Id
    BY <1>0, <1>3 DEF SetStage
  <2>3. \A i \in Id : Left(d, W, i) = d[i]
    <3> SUFFICES ASSUME NEW i \in Id PROVE Left(d, W, i) = d[i]
      OBVIOUS
    <3>1. Rows(W) = K
      BY RowsOfColumn
    <3>2. CASE i \notin K
      BY <3>1, <3>2 DEF Left
    <3>3. CASE i \in K
      BY <2>0, <3>1, <3>3 DEF Left, KhachHangRow
    <3> QED  BY <3>2, <3>3
  <2>4. Valid(d) /\ Announced(d, told \cup {})
    BY <1>0, IdAssumption DEF Valid, Announced, Live, Id
  <2>5. W \in SUBSET (Id \X Field)
    BY DEF Field, Id
  <2> HIDE DEF d, W
  <2> QED  BY <2>1, <2>2, <2>3, <2>4, <2>5, StartKeeps
<1>4. ASSUME NEW K \in SUBSET KhachHang, SetContract(r, K)
      PROVE  Inv'
  <2>1. Start(r, db, {}, {}, K) /\ seen' \subseteq Id /\ \A k \in K : db[k] # NoRow
    BY <1>0, <1>4 DEF SetContract, Live
  <2>2. \A i \in Id : Left(db, {}, i) = db[i]
    BY DEF Left, Rows
  <2> QED  BY <1>0, <2>1, <2>2, StartKeeps
<1>5. ASSUME NEW k \in KhachHang, NEW h \in HopDong, SignOne(r, k, h)
      PROVE  Inv'
  <2> DEFINE x == Signed(k, mine[r][k].doanh_thu_tiem_nang)
             y == [mine[r][k] EXCEPT !.giai_doan = "ky_hop_dong"]
             e == [mine[r] EXCEPT ![k] = y]
             d == [e EXCEPT ![h] = x]
             W == written[r] \cup {<<k, "giai_doan">>, <<h, "*">>}
  <2>0. /\ mine[r] \in Database /\ mine[r][k] \in KhachHangRow /\ k # h
        /\ \A j \in KhachHang : j # h
    BY <1>5, IdAssumption DEF Inv, TypeOK, TodoLive, SignOne, Database
  <2>1. x \in HopDongRow /\ DatesValid(x) /\ ValueValid(x) /\ y \in KhachHangRow
    BY <1>5, <2>0, NumberAssumption
       DEF SignOne, Signed, HopDongRow, KhachHangRow, DatesValid, ValueValid, GiaiDoan
  <2>2. e \in Database
    BY <2>0, <2>1, IdAssumption, OneChanged DEF Id
  <2>3. d \in Database
    BY <2>1, <2>2, IdAssumption, OneChanged DEF Id
  <2>4. /\ mine'[r] = d /\ written'[r] = W /\ todo'[r] = todo[r] \ {k}
        /\ \A q \in Request \ {r} :
             mine'[q] = mine[q] /\ written'[q] = written[q] /\ todo'[q] = todo[q]
        /\ UNCHANGED <<db, told, phase, notes, missed, calls>>
        /\ seen' = seen \cup {h}
    BY <1>5 DEF SignOne, Inv, TypeOK
  <2>5. d[h] = x /\ d[k] = y /\ \A i \in Id \ {k, h} : d[i] = mine[r][i]
    BY <2>0, <2>2 DEF Database, Id
  <2> HIDE DEF d, x, y
  <2>6. TypeOK'
    <3>1. W \in SUBSET (Id \X Field)
      BY DEF Inv, TypeOK, Id, Field
    <3> HIDE DEF W
    <3> QED  BY <1>5, <2>3, <2>4, <3>1 DEF SignOne, Inv, TypeOK, Id
  <2>7. Unchanged'
    <3>1. ASSUME NEW i \in Id \ missed[r]
          PROVE  Left(d, W, i) = d[i]
      <4>0. Left(mine[r], written[r], i) = mine[r][i]
        BY <1>5 DEF Inv, Unchanged, SignOne, TypeOK, TodoLive
      <4>1. Rows(W) = Rows(written[r]) \cup {k, h}
        <5>1. \A v \in W : v[1] \in Rows(written[r]) \cup {k, h}
          BY DEF Rows
        <5>2. \A v \in written[r] : v \in W
          OBVIOUS
        <5>3. <<k, "giai_doan">> \in W /\ <<h, "*">> \in W
          OBVIOUS
        <5>4. <<k, "giai_doan">>[1] = k /\ <<h, "*">>[1] = h
          OBVIOUS
        <5> HIDE DEF W
        <5> QED  BY <5>1, <5>2, <5>3, <5>4 DEF Rows
      <4>2. CASE i = h
        BY <4>1, <4>2 DEF Left
      <4>3. CASE i = k
        <5>1. CASE db[k] = NoRow \/ <<k, "*">> \in written[r]
          BY <4>1, <4>3, <5>1 DEF Left
        <5>2. CASE db[k] # NoRow /\ <<k, "*">> \notin written[r]
          <6>1. mine[r][k] = [f \in DOMAIN db[k] |->
                   IF <<k, f>> \in written[r] THEN mine[r][k][f] ELSE db[k][f]]
            <7>1. CASE k \in Rows(written[r])
              BY <4>0, <4>3, <5>2, <7>1 DEF Left
            <7>2. CASE k \notin Rows(written[r])
              <8>1. mine[r][k] = db[k]
                BY <4>0, <4>3, <7>2 DEF Left
              <8> QED  BY <2>0, <8>1 DEF KhachHangRow
            <7> QED  BY <7>1, <7>2
          <6>2. y = [f \in DOMAIN db[k] |-> IF <<k, f>> \in W THEN y[f] ELSE db[k][f]]
            BY <2>0, <2>1, <6>1 DEF y, KhachHangRow
          <6> QED  BY <2>0, <2>5, <4>1, <4>3, <5>2, <6>2 DEF Left
        <5> QED  BY <5>1, <5>2
      <4>4. CASE i # k /\ i # h
        BY <2>5, <4>0, <4>1, <4>4 DEF Left
      <4> QED  BY <4>2, <4>3, <4>4
    <3>2. missed' = missed
      BY <1>5 DEF SignOne
    <3> HIDE DEF W
    <3>3. \A q \in Request, i \in Id : q # r => Left(mine[q], written[q], i)' = Left(mine[q], written[q], i)
      BY <2>4 DEF Left
    <3> QED  BY <2>4, <3>1, <3>2, <3>3 DEF Inv, Unchanged, Left
  <2>8. TodoLive'
    BY <2>0, <2>4, <2>5 DEF Inv, TypeOK, TodoLive, Id
  <2>9. CallsInv'
    <3>1. Valid(d)
      BY <2>0, <2>1, <2>5, IdAssumption DEF Inv, CallsInv, Valid, Live, Id
    <3>2. Announced(d, told \cup notes[r])
      BY <2>0, <2>5, IdAssumption DEF Inv, CallsInv, Announced, Live, Id
    <3>3. notes' = notes /\ told' = told
      BY <2>4
    <3> QED  BY <2>4, <3>1, <3>2, <3>3 DEF Inv, CallsInv
  <2> QED  BY <2>4, <2>6, <2>7, <2>8, <2>9
              DEF Inv, ContractsValid, AssigneeTold, Live, DatesValid, ValueValid
<1>6. ASSUME NEW k \in KhachHang, DeleteCustomer(r, k)
      PROVE  Inv'
  <2> DEFINE C == Cascaded(k)
             d == [i \in Id |-> IF i \in C THEN NoRow ELSE db[i]]
             W == C \X {"*"}
  <2>0. C \subseteq Id
    BY DEF Cascaded, Live, Id
  <2>1. d \in Database
    BY <1>0 DEF Database, Id
  <2>2. Start(r, d, W, {}, {}) /\ seen' \subseteq Id
    BY <1>0, <1>6 DEF DeleteCustomer
  <2>3. \A i \in Id : Left(d, W, i) = d[i]
    <3>1. Rows(W) = C
      BY RowsOfColumn
    <3> HIDE DEF C
    <3> QED  BY <3>1 DEF Left
  <2>4. Valid(d) /\ Announced(d, told \cup {})
    BY <1>0, <2>0 DEF Valid, Announced, Live, Id
  <2>5. W \in SUBSET (Id \X Field)
    BY <2>0 DEF Field
  <2> HIDE DEF d, W
  <2> QED  BY <2>1, <2>2, <2>3, <2>4, <2>5, StartKeeps
<1> QED  BY <1>1, <1>2, <1>3, <1>4, <1>5, <1>6 DEF CustomerCall

\* The deletion of a contract or a ticket.
LEMMA DeleteRowKeeps ==
  ASSUME Inv, NEW r \in Request, NEW j \in HopDong \cup HoTro, DeleteRow(r, j)
  PROVE  Inv'
<1> DEFINE d == [db EXCEPT ![j] = NoRow]
           W == {<<j, "*">>}
<1>0. db \in Database /\ seen \subseteq Id /\ Valid(db) /\ Announced(db, told)
  BY DEF Inv, TypeOK, ContractsValid, AssigneeTold, Valid, Announced
<1>1. d \in Database
  BY <1>0, IdAssumption, OneChanged DEF Id
<1>2. Start(r, d, W, {}, {}) /\ seen' \subseteq Id
  BY <1>0 DEF DeleteRow
<1>3. \A i \in Id : Left(d, W, i) = d[i]
  BY <1>0 DEF Left, Rows, Database
<1>4. Valid(d) /\ Announced(d, told \cup {})
  BY <1>0 DEF Valid, Announced, Live, Database, Id
<1>5. W \in SUBSET (Id \X Field)
  BY DEF Field, Id
<1> HIDE DEF d, W
<1> QED  BY <1>1, <1>2, <1>3, <1>4, <1>5, StartKeeps

\* The calls on a contract.
LEMMA ContractKeeps ==
  ASSUME Inv, NEW r \in Request, ContractCall(r)
  PROVE  Inv'
<1>0. db \in Database /\ seen \subseteq Id /\ Valid(db) /\ Announced(db, told)
  BY DEF Inv, TypeOK, ContractsValid, AssigneeTold, Valid, Announced
<1>1. ASSUME NEW h \in HopDong, NEW x \in HopDongRow, NewContract(r, h, x)
      PROVE  Inv'
  <2> DEFINE d == [db EXCEPT ![h] = x]
             W == {<<h, "*">>}
  <2>1. d \in Database
    BY <1>0, IdAssumption, OneChanged DEF Id
  <2>2. Start(r, d, W, {}, {}) /\ seen' \subseteq Id
    BY <1>0, <1>1 DEF NewContract, Id
  <2>3. \A i \in Id : Left(d, W, i) = d[i]
    BY <1>0 DEF Left, Rows, Database
  <2>4. DatesValid(x) /\ ValueValid(x)
    BY <1>1 DEF NewContract, Validated, HopDongRow
  <2>5. Valid(d) /\ Announced(d, told \cup {})
    BY <1>0, <2>4, IdAssumption DEF Valid, Announced, Live, Database, Id
  <2>6. W \in SUBSET (Id \X Field)
    BY DEF Field, Id
  <2> HIDE DEF d, W
  <2> QED  BY <2>1, <2>2, <2>3, <2>5, <2>6, StartKeeps
<1>2. ASSUME NEW h \in HopDong, NEW new \in HopDongRow, NEW F \in Changes,
             SaveContract(r, h, F, new)
      PROVE  Inv'
  <2> DEFINE x == Overwritten(db[h], F, new)
             d == [db EXCEPT ![h] = x]
             W == {h} \X F
  <2>0. /\ db[h] # NoRow /\ db[h] \in HopDongRow /\ DatesValid(db[h]) /\ ValueValid(db[h])
        /\ F \subseteq {"khach_hang_id", "gia_tri_hop_dong", "ngay_bat_dau", "ngay_ket_thuc"}
    BY <1>0, <1>2, ChangesAssumption DEF SaveContract, Database, Valid, Live
  <2>1. /\ x \in HopDongRow
        /\ \A f \in DOMAIN db[h] : x[f] = IF f \in F THEN new[f] ELSE db[h][f]
        /\ x = [f \in DOMAIN db[h] |-> x[f]]
    BY <2>0 DEF Overwritten, HopDongRow
  <2>2. DatesValid(x) /\ ValueValid(x)
    BY <1>2, <2>0, <2>1 DEF SaveContract, Validated, DatesValid, ValueValid, HopDongRow
  <2>3. Start(r, d, W, {}, {}) /\ seen' \subseteq Id
    BY <1>0, <1>2 DEF SaveContract
  <2>4. W \in SUBSET (Id \X Field)
    BY <2>0 DEF Field, Id
  <2> HIDE DEF x
  <2>5. d \in Database
    BY <1>0, <2>1, IdAssumption, OneChanged DEF Id
  <2>6. d[h] = x /\ \A i \in Id \ {h} : d[i] = db[i]
    BY <1>0 DEF Database, Id
  <2> HIDE DEF d
  <2>7. \A i \in Id : Left(d, W, i) = d[i]
    <3>1. \A i \in Id \ {h} : i \notin Rows(W)
      BY DEF Rows
    <3>2. \A f \in DOMAIN db[h] : <<h, f>> \in W <=> f \in F
      OBVIOUS
    <3>3. x = [f \in DOMAIN db[h] |-> IF <<h, f>> \in W THEN x[f] ELSE db[h][f]]
      BY <2>1, <3>2
    <3>4. h \in Rows(W) \/ x = db[h]
      <4>1. CASE F = {}
        <5>1. x = [f \in DOMAIN db[h] |-> db[h][f]]
          BY <2>1, <4>1
        <5> QED  BY <2>0, <5>1 DEF HopDongRow
      <4>2. ASSUME NEW f \in F PROVE h \in Rows(W)
        <5>1. <<h, f>> \in W /\ <<h, f>>[1] = h
          OBVIOUS
        <5> QED  BY <5>1 DEF Rows
      <4> QED  BY <4>1, <4>2
    <3>5. <<h, "*">> \notin W
      BY <2>0
    <3> HIDE DEF W
    <3> QED  BY <2>0, <2>6, <3>1, <3>3, <3>4, <3>5 DEF Left
  <2>8. Valid(d) /\ Announced(d, told \cup {})
    BY <1>0, <2>2, <2>6, IdAssumption DEF Valid, Announced, Live, Id
  <2> HIDE DEF W
  <2> QED  BY <2>3, <2>4, <2>5, <2>7, <2>8, StartKeeps
<1>3. ASSUME NEW h \in HopDong, DeleteRow(r, h)
      PROVE  Inv'
  BY <1>3, DeleteRowKeeps
<1> QED  BY <1>1, <1>2, <1>3 DEF ContractCall

\* The calls on a ticket.
LEMMA TicketKeeps ==
  ASSUME Inv, NEW r \in Request, TicketCall(r)
  PROVE  Inv'
<1>0. db \in Database /\ seen \subseteq Id /\ Valid(db) /\ Announced(db, told)
  BY DEF Inv, TypeOK, ContractsValid, AssigneeTold, Valid, Announced
<1>1. ASSUME NEW t \in HoTro, NEW k \in KhachHang, NEW n \in NhanVien \cup {None},
             NewTicket(r, t, k, n)
      PROVE  Inv'
  <2> DEFINE x == [khach_hang_id |-> k, nhan_vien_id |-> n]
             d == [db EXCEPT ![t] = x]
             W == {<<t, "*">>}
             M == NewNotes(t, n)
  <2>1. d \in Database
    BY <1>0, IdAssumption, OneChanged DEF HoTroRow, Id
  <2>2. Start(r, d, W, M, {}) /\ seen' \subseteq Id
    BY <1>0, <1>1 DEF NewTicket, Id
  <2>3. \A i \in Id : Left(d, W, i) = d[i]
    BY <1>0 DEF Left, Rows, Database
  <2>4. M \in SUBSET (HoTro \X TaiKhoan) /\ (n \in TaiKhoan => <<t, n>> \in M)
    BY DEF NewNotes, Notes
  <2>5. d[t] = x /\ \A i \in Id \ {t} : d[i] = db[i]
    BY <1>0 DEF Database, Id
  <2>6. W \in SUBSET (Id \X Field)
    BY DEF Field, Id
  <2> HIDE DEF d, W, M
  <2>7. Valid(d) /\ Announced(d, told \cup M)
    BY <1>0, <2>4, <2>5, IdAssumption DEF Valid, Announced, Live, Id
  <2> QED  BY <2>1, <2>2, <2>3, <2>4, <2>6, <2>7, StartKeeps
<1>2. ASSUME NEW t \in HoTro, NEW k \in KhachHang, MoveTicket(r, t, k)
      PROVE  Inv'
  <2> DEFINE x == [db[t] EXCEPT !.khach_hang_id = k]
             d == [db EXCEPT ![t] = x]
             W == {<<t, "khach_hang_id">>}
  <2>0. db[t] \in HoTroRow
    BY <1>0, <1>2 DEF MoveTicket, Database
  <2>1. x \in HoTroRow /\ x.nhan_vien_id = db[t].nhan_vien_id
    BY <2>0 DEF HoTroRow
  <2>2. d \in Database
    BY <1>0, <2>1, IdAssumption, OneChanged DEF Id
  <2>3. Start(r, d, W, {}, {}) /\ seen' \subseteq Id
    BY <1>0, <1>2 DEF MoveTicket
  <2>4. \A i \in Id : Left(d, W, i) = d[i]
    BY <1>0, <1>2, <2>0 DEF MoveTicket, Left, Rows, Database, HoTroRow
  <2>5. d[t] = x /\ db[t] # NoRow /\ \A i \in Id \ {t} : d[i] = db[i]
    BY <1>0, <1>2 DEF MoveTicket, Database, Id
  <2>6. W \in SUBSET (Id \X Field)
    BY DEF Field, Id
  <2> HIDE DEF x, d, W
  <2>7. Valid(d) /\ Announced(d, told \cup {})
    BY <1>0, <2>1, <2>5, IdAssumption DEF Valid, Announced, Live, Id
  <2> QED  BY <2>2, <2>3, <2>4, <2>6, <2>7, StartKeeps
<1>3. ASSUME NEW T \in SUBSET HoTro, NEW n \in NhanVien \cup {None}, Assign(r, T, n)
      PROVE  Inv'
  <2> DEFINE d == [i \in Id |-> IF i \in T THEN [db[i] EXCEPT !.nhan_vien_id = n] ELSE db[i]]
             W == T \X {"nhan_vien_id"}
             M == Notes(T, n)
  <2>0. \A t \in T : /\ db[t] # NoRow /\ db[t] \in HoTroRow
                     /\ [db[t] EXCEPT !.nhan_vien_id = n] \in HoTroRow
                     /\ [db[t] EXCEPT !.nhan_vien_id = n].nhan_vien_id = n
    BY <1>0, <1>3 DEF Assign, Database, Live, HoTroRow
  <2>1. d \in Database
    BY <1>0, <2>0, IdAssumption DEF Database, Id
  <2>2. Start(r, d, W, M, {}) /\ seen' \subseteq Id
    BY <1>0, <1>3 DEF Assign
  <2>3. \A i \in Id : Left(d, W, i) = d[i]
    <3> SUFFICES ASSUME NEW i \in Id PROVE Left(d, W, i) = d[i]
      OBVIOUS
    <3>1. Rows(W) = T
      BY RowsOfColumn
    <3>2. CASE i \notin T
      BY <3>1, <3>2 DEF Left
    <3>3. CASE i \in T
      BY <2>0, <3>1, <3>3 DEF Left, HoTroRow
    <3> QED  BY <3>2, <3>3
  <2>4. M \in SUBSET (HoTro \X TaiKhoan)
        /\ (n \in TaiKhoan => \A t \in T : <<t, n>> \in M)
    BY DEF Notes
  <2>5. /\ \A t \in T : d[t].nhan_vien_id = n
        /\ \A i \in Id \ T : d[i] = db[i]
    BY <2>0, IdAssumption DEF Id
  <2>6. W \in SUBSET (Id \X Field)
    BY DEF Field, Id
  <2> HIDE DEF d, W, M
  <2>7. Valid(d) /\ Announced(d, told \cup M)
    BY <1>0, <2>4, <2>5, IdAssumption DEF Valid, Announced, Live, Id
  <2> QED  BY <2>1, <2>2, <2>3, <2>4, <2>6, <2>7, StartKeeps
<1>4. ASSUME NEW t \in HoTro, DeleteRow(r, t)
      PROVE  Inv'
  BY <1>4, DeleteRowKeeps
<1> QED  BY <1>1, <1>2, <1>3, <1>4 DEF TicketCall

-----------------------------------------------------------------------------
\* The end of a call that is undone.
LEMMA RollbackKeeps ==
  ASSUME Inv, NEW r \in Request, Rollback(r)
  PROVE  Inv'
<1>1. /\ phase'[r] = "idle" /\ todo'[r] = {} /\ mine'[r] = NoDb /\ written'[r] = {} /\ notes'[r] = {}
      /\ \A q \in Request \ {r} :
           /\ phase'[q] = phase[q] /\ todo'[q] = todo[q] /\ mine'[q] = mine[q]
           /\ written'[q] = written[q] /\ notes'[q] = notes[q] /\ missed'[q] = missed[q]
      /\ UNCHANGED <<db, seen, told, calls>>
  BY DEF Rollback, Close, Inv, TypeOK
<1>2. TypeOK'
  BY NoDbFits DEF Rollback, Close, Inv, TypeOK
<1>3. Unchanged'
  BY <1>1 DEF Inv, Unchanged, Left
<1>4. TodoLive'
  BY <1>1 DEF Inv, TodoLive
<1>5. CallsInv'
  BY <1>1, NoDbFits DEF Inv, CallsInv, Valid, Announced, Live
<1>6. ContractsValid' /\ AssigneeTold'
  BY <1>1 DEF Inv, ContractsValid, AssigneeTold, Live, DatesValid, ValueValid
<1> QED  BY <1>2, <1>3, <1>4, <1>5, <1>6 DEF Inv

\* The commit: each record is as the call sees it, or as it was.
LEMMA CommitKeeps ==
  ASSUME Inv, NEW r \in Request, Commit(r)
  PROVE  Inv'
<1>1. /\ phase'[r] = "idle" /\ todo'[r] = {} /\ mine'[r] = NoDb /\ written'[r] = {} /\ notes'[r] = {}
      /\ \A q \in Request \ {r} :
           /\ phase'[q] = phase[q] /\ todo'[q] = todo[q] /\ mine'[q] = mine[q]
           /\ written'[q] = written[q] /\ notes'[q] = notes[q]
      /\ UNCHANGED <<seen, calls>>
      /\ told' = told \cup notes[r]
  BY DEF Commit, Close, Inv, TypeOK
<1>2. /\ db' = [i \in Id |-> IF i \in Rows(written[r]) THEN mine[r][i] ELSE db[i]]
      /\ db' \in Database
  BY CommitLeaves DEF Commit
<1>3. Rows(written[r]) \subseteq Id
  BY DEF Inv, TypeOK, Rows
<1>4. \A q \in Request \ {r} : phase[q] = "open" => missed'[q] = missed[q] \cup Rows(written[r])
  BY DEF Commit
<1>5. TypeOK'
  <2>1. missed' \in [Request -> SUBSET Id]
    BY <1>3 DEF Commit, Inv, TypeOK
  <2>2. notes[r] \in SUBSET (HoTro \X TaiKhoan)
    BY DEF Inv, TypeOK
  <2> QED  BY <1>1, <1>2, <2>1, <2>2, NoDbFits DEF Commit, Close, Inv, TypeOK
<1>6. Unchanged'
  <2> SUFFICES ASSUME NEW q \in Request, NEW i \in Id \ missed'[q], phase'[q] = "open"
               PROVE  Left(mine[q], written[q], i)' = mine'[q][i]
    BY DEF Unchanged
  <2>1. q # r /\ phase[q] = "open"
    BY <1>1
  <2>2. i \notin missed[q] /\ i \notin Rows(written[r])
    BY <1>4, <2>1
  <2>3. db'[i] = db[i]
    BY <1>2, <2>2
  <2>4. Left(mine[q], written[q], i) = mine[q][i]
    BY <2>1, <2>2 DEF Inv, Unchanged
  <2> QED  BY <1>1, <2>1, <2>3, <2>4 DEF Left
<1>7. TodoLive'
  BY <1>1 DEF Inv, TodoLive
<1>8. CallsInv'
  <2> SUFFICES ASSUME NEW q \in Request
               PROVE  Valid(mine'[q]) /\ Announced(mine'[q], told' \cup notes'[q])
    BY DEF CallsInv, Valid, Announced, Live, DatesValid, ValueValid
  <2>1. CASE q = r
    BY <1>1, <2>1, NoDbFits
  <2>2. CASE q # r
    BY <1>1, <2>2 DEF Inv, CallsInv, Announced
  <2> QED  BY <2>1, <2>2
<1>9. \A i \in Id : db'[i] = mine[r][i] \/ db'[i] = db[i]
  BY <1>2
<1>10. ContractsValid'
  BY <1>9 DEF Inv, CallsInv, Valid, ContractsValid, Live, DatesValid, ValueValid, Id
<1>11. AssigneeTold'
  BY <1>1, <1>9 DEF Inv, CallsInv, Announced, AssigneeTold, Live, Id
<1> QED  BY <1>5, <1>6, <1>7, <1>8, <1>10, <1>11 DEF Inv

LEMMA InvNext == Inv /\ [Next]_vars => Inv'
<1> SUFFICES ASSUME Inv, [Next]_vars PROVE Inv'
  OBVIOUS
<1>1. ASSUME NEW r \in Request, CustomerCall(r) PROVE Inv'
  BY <1>1, CustomerKeeps
<1>2. ASSUME NEW r \in Request, ContractCall(r) PROVE Inv'
  BY <1>2, ContractKeeps
<1>3. ASSUME NEW r \in Request, TicketCall(r) PROVE Inv'
  BY <1>3, TicketKeeps
<1>4. ASSUME NEW r \in Request, Commit(r) PROVE Inv'
  BY <1>4, CommitKeeps
<1>5. ASSUME NEW r \in Request, Rollback(r) PROVE Inv'
  BY <1>5, RollbackKeeps
<1>6. CASE UNCHANGED vars
  BY <1>6 DEF vars, Inv, TypeOK, Unchanged, Left, TodoLive, CallsInv, Valid, Announced, Live,
              ContractsValid, AssigneeTold, DatesValid, ValueValid
<1> QED  BY <1>1, <1>2, <1>3, <1>4, <1>5, <1>6 DEF Next

LEMMA InvHolds == Spec => []Inv
  BY InvInit, InvNext, PTL DEF Spec

-----------------------------------------------------------------------------
(* Signing.  What a call of action_set_contract has written so far is one  *)
(* contract for each customer it has moved, and nothing else; no other     *)
(* call can have used their ids.                                           *)

\* The customers of which r wrote the stage, and the contracts it created
\* or deleted.
Staged(r) == {k \in KhachHang : <<k, "giai_doan">> \in written[r]}
Made(r)   == {h \in HopDong : <<h, "*">> \in written[r]}

\* Ids that are not given out yet are nowhere; a customer whose stage a call
\* wrote, or will, is there unless a commit the call cannot see deleted it.
FreshInv ==
  /\ \A i \in Id : db[i] # NoRow => i \in seen
  /\ \A r \in Request :
       /\ Rows(written[r]) \subseteq seen /\ todo[r] \subseteq seen
       /\ phase[r] = "open" \/ written[r] = {}
       /\ \A k \in (todo[r] \cup Staged(r)) \ missed[r] : db[k] # NoRow

\* The contract h is r's own: it is not stored, and no other call writes it.
Mine(r, h) == db[h] = NoRow /\ \A q \in Request \ {r} : h \notin Rows(written[q])

\* All that r has written are customers it moved and, for each, one contract of
\* the customer's revenue.
Signing(r) ==
  /\ written[r] \subseteq (KhachHang \X {"giai_doan"}) \cup (HopDong \X {"*"})
  /\ \A h \in Made(r) :
       Mine(r, h) /\ \E k \in Staged(r) : mine[r][h] = Signed(k, mine[r][k].doanh_thu_tiem_nang)
  /\ \A k \in Staged(r) :
       /\ k \notin todo[r] /\ mine[r][k].giai_doan = "ky_hop_dong"
       /\ \E h \in Made(r) : \A g \in Made(r) : mine[r][g].khach_hang_id = k <=> g = h

\* A call that has customers to sign, or wrote stages and contracts, signs.
Signs(r) == todo[r] # {} \/ (Staged(r) # {} /\ Made(r) # {})

SignInv == FreshInv /\ \A r \in Request : Signs(r) => Signing(r)

-----------------------------------------------------------------------------
LEMMA RowOf == ASSUME NEW W, NEW i, NEW f, <<i, f>> \in W PROVE i \in Rows(W)
<1>1. <<i, f>>[1] = i
  OBVIOUS
<1> QED  BY <1>1 DEF Rows

\* Where written and the rest of r stay, and its contracts stay unknown to
\* others, it goes on signing.
LEMMA SigningStays ==
  ASSUME NEW r \in Request, Signs(r)' , Signs(r) => Signing(r),
         written'[r] = written[r], todo'[r] = todo[r], mine'[r] = mine[r],
         \A h \in Made(r) : Mine(r, h) => Mine(r, h)'
  PROVE  Signing(r)'
<1>1. Staged(r)' = Staged(r) /\ Made(r)' = Made(r)
  BY DEF Staged, Made
<1>2. Signing(r)
  BY <1>1 DEF Signs
<1> QED  BY <1>1, <1>2 DEF Signing, Signed

LEMMA SignInit == Init => SignInv
<1> SUFFICES ASSUME Init PROVE SignInv
  OBVIOUS
<1>1. \A i \in Id : db[i] # NoRow => i \in seen
  <2>1. PICK K \in SUBSET KhachHang : \E revenue \in [K -> GiaTri] :
          /\ db   = [i \in Id |->
                       IF i \in K THEN [giai_doan |-> "khac", doanh_thu_tiem_nang |-> revenue[i]]
                                  ELSE NoRow]
          /\ seen = K
    BY DEF Init
  <2> QED  BY <2>1
<1>2. \A r \in Request : written[r] = {} /\ todo[r] = {}
  BY DEF Init
<1>3. \A r \in Request : Rows(written[r]) = {} /\ Staged(r) = {}
  BY <1>2 DEF Rows, Staged
<1> QED  BY <1>1, <1>2, <1>3 DEF SignInv, FreshInv, Signs

\* A call that starts: it writes rows that are there or new, and it does not
\* write both stages and whole rows.
LEMMA StartSigns ==
  ASSUME Inv, SignInv, NEW r \in Request, NEW d,
         NEW W \in SUBSET (Id \X Field), NEW N, NEW K \in SUBSET KhachHang, Start(r, d, W, N, K),
         seen \subseteq seen', Rows(W) \subseteq seen',
         \A i \in Rows(W) : db[i] # NoRow \/ i \notin seen,
         \A k \in K : db[k] # NoRow,
         \A k \in KhachHang : <<k, "giai_doan">> \in W => db[k] # NoRow,
         (\A k \in KhachHang : <<k, "giai_doan">> \notin W) \/ (\A h \in HopDong : <<h, "*">> \notin W),
         K = {} \/ W = {}
  PROVE  SignInv'
<1>1. /\ todo'[r] = K /\ written'[r] = W /\ missed'[r] = {} /\ phase'[r] = "open"
      /\ \A q \in Request \ {r} :
           /\ phase'[q] = phase[q] /\ todo'[q] = todo[q] /\ mine'[q] = mine[q]
           /\ written'[q] = written[q] /\ missed'[q] = missed[q]
      /\ db' = db
  BY DEF Start, Inv, TypeOK
<1>2. FreshInv'
  <2>1. \A i \in Id : db'[i] # NoRow => i \in seen'
    BY <1>1 DEF SignInv, FreshInv
  <2> SUFFICES ASSUME NEW q \in Request
               PROVE  /\ Rows(written'[q]) \subseteq seen' /\ todo'[q] \subseteq seen'
                      /\ phase'[q] = "open" \/ written'[q] = {}
                      /\ \A k \in (todo'[q] \cup Staged(q)') \ missed'[q] : db'[k] # NoRow
    BY <2>1 DEF FreshInv
  <2>2. CASE q = r
    <3>1. K \subseteq seen
      BY DEF SignInv, FreshInv, Id
    <3>2. \A k \in Staged(q)' : db[k] # NoRow
      BY <1>1, <2>2 DEF Staged
    <3> QED  BY <1>1, <2>2, <3>1, <3>2
  <2>3. CASE q # r
    <3>1. Staged(q)' = Staged(q)
      BY <1>1, <2>3 DEF Staged
    <3> QED  BY <1>1, <2>3, <3>1 DEF SignInv, FreshInv
  <2> QED  BY <2>2, <2>3
<1>3. ASSUME NEW q \in Request, Signs(q)' PROVE Signing(q)'
  <2>1. CASE q = r
    <3>1. W = {} /\ K # {}
      BY <1>1, <1>3, <2>1 DEF Signs, Staged, Made
    <3>2. Staged(q)' = {} /\ Made(q)' = {} /\ written'[q] = {}
      BY <1>1, <2>1, <3>1 DEF Staged, Made
    <3> QED  BY <3>2 DEF Signing
  <2>2. CASE q # r
    <3>1. ASSUME NEW h \in Made(q), Mine(q, h) PROVE Mine(q, h)'
      <4>1. h \in seen /\ h \in HopDong
        BY RowOf DEF SignInv, FreshInv, Made
      <4>2. db[h] = NoRow
        BY <3>1 DEF Mine
      <4>3. h \notin Rows(W)
        BY <4>1, <4>2
      <4>4. \A p \in Request \ {q} : h \notin Rows(written[p])
        BY <3>1 DEF Mine
      <4>5. \A p \in Request \ {q} : h \notin Rows(written'[p])
        BY <1>1, <4>3, <4>4
      <4> QED  BY <1>1, <4>2, <4>5 DEF Mine
    <3>2. Signs(q) => Signing(q)
      BY DEF SignInv
    <3> QED  BY <1>1, <1>3, <2>2, <3>1, <3>2, SigningStays
  <2> QED  BY <2>1, <2>2
<1> QED  BY <1>2, <1>3 DEF SignInv

LEMMA RowsOfOne == ASSUME NEW i, NEW f PROVE Rows({<<i, f>>}) = {i}
<1>1. <<i, f>>[1] = i
  OBVIOUS
<1> QED  BY <1>1 DEF Rows

\* A new row, whose id is not given out yet.
LEMMA NewSigns ==
  ASSUME Inv, SignInv, NEW r \in Request, NEW i \in Id, NEW d, NEW N,
         Start(r, d, {<<i, "*">>}, N, {}), i \notin seen, seen' = seen \cup {i}
  PROVE  SignInv'
<1> DEFINE W == {<<i, "*">>}
<1>1. Rows(W) = {i}
  BY RowsOfOne
<1>2. W \in SUBSET (Id \X Field) /\ \A k \in KhachHang : <<k, "giai_doan">> \notin W
  BY DEF Field
<1> HIDE DEF W
<1>3. \A j \in Rows(W) : db[j] # NoRow \/ j \notin seen
  BY <1>1
<1>4. Start(r, d, W, N, {})
  BY DEF W
<1> QED  BY <1>1, <1>2, <1>3, <1>4, StartSigns

\* A change of some columns or a deletion of rows that are there.
LEMMA ChangeSigns ==
  ASSUME Inv, SignInv, NEW r \in Request, NEW S \in SUBSET Id, NEW F \in SUBSET Field, NEW d, NEW N,
         Start(r, d, S \X F, N, {}), \A i \in S : db[i] # NoRow,
         "giai_doan" \notin F \/ "*" \notin F, seen' = seen
  PROVE  SignInv'
<1> DEFINE W == S \X F
<1>1. \A w \in W : w[1] \in S
  OBVIOUS
<1>2. Rows(W) \subseteq S
  BY <1>1 DEF Rows
<1>3. S \subseteq seen
  BY DEF SignInv, FreshInv
<1>4. W \in SUBSET (Id \X Field)
  OBVIOUS
<1>5. \A k \in KhachHang : <<k, "giai_doan">> \in W => db[k] # NoRow
  OBVIOUS
<1>6. (\A k \in KhachHang : <<k, "giai_doan">> \notin W) \/ (\A h \in HopDong : <<h, "*">> \notin W)
  OBVIOUS
<1>7. Start(r, d, W, N, {})
  OBVIOUS
<1> HIDE DEF W
<1> QED  BY <1>2, <1>3, <1>4, <1>5, <1>6, <1>7, StartSigns

LEMMA OneCell == ASSUME NEW i, NEW f PROVE {<<i, f>>} = {i} \X {f}
  OBVIOUS

LEMMA CustomerSigns ==
  ASSUME Inv, SignInv, NEW r \in Request, CustomerCall(r),
         ~\E k \in KhachHang, h \in HopDong : SignOne(r, k, h)
  PROVE  SignInv'
<1>1. ASSUME NEW k \in KhachHang, NEW x \in KhachHangRow, NewCustomer(r, k, x)
      PROVE  SignInv'
  BY <1>1, NewSigns DEF NewCustomer, Id
<1>2. ASSUME NEW k \in KhachHang, NEW revenue \in GiaTri, SaveCustomer(r, k, revenue)
      PROVE  SignInv'
  <2>1. {<<k, "doanh_thu_tiem_nang">>} = {k} \X {"doanh_thu_tiem_nang"}
    BY OneCell
  <2>2. {k} \in SUBSET Id /\ {"doanh_thu_tiem_nang"} \in SUBSET Field
    BY DEF Id, Field
  <2>3. Start(r, [db EXCEPT ![k].doanh_thu_tiem_nang = revenue], {k} \X {"doanh_thu_tiem_nang"}, {}, {})
    BY <1>2, <2>1 DEF SaveCustomer
  <2>4. db[k] # NoRow /\ seen' = seen
    BY <1>2 DEF SaveCustomer
  <2> QED  BY <2>2, <2>3, <2>4, ChangeSigns
<1>3. ASSUME NEW K \in SUBSET KhachHang, NEW stage \in GiaiDoan, SetStage(r, K, stage)
      PROVE  SignInv'
  <2>1. K \in SUBSET Id /\ {"giai_doan"} \in SUBSET Field /\ "*" \notin {"giai_doan"}
    BY DEF Id, Field
  <2>2. \A i \in K : db[i] # NoRow
    BY <1>3 DEF SetStage, Live
  <2> QED  BY <1>3, <2>1, <2>2, ChangeSigns DEF SetStage
<1>4. ASSUME NEW K \in SUBSET KhachHang, SetContract(r, K)
      PROVE  SignInv'
  <2>1. Start(r, db, {}, {}, K) /\ seen' = seen /\ \A k \in K : db[k] # NoRow
    BY <1>4 DEF SetContract, Live
  <2>2. Rows({}) = {}
    BY DEF Rows
  <2> QED  BY <2>1, <2>2, StartSigns
<1>5. ASSUME NEW k \in KhachHang, DeleteCustomer(r, k)
      PROVE  SignInv'
  <2>1. Cascaded(k) \in SUBSET Id /\ {"*"} \in SUBSET Field /\ \A i \in Cascaded(k) : db[i] # NoRow
    BY <1>5 DEF DeleteCustomer, Cascaded, Live, Id, Field
  <2> QED  BY <1>5, <2>1, ChangeSigns DEF DeleteCustomer
<1> QED  BY <1>1, <1>2, <1>3, <1>4, <1>5 DEF CustomerCall

LEMMA DeleteRowSigns ==
  ASSUME Inv, SignInv, NEW r \in Request, NEW i \in HopDong \cup HoTro, DeleteRow(r, i)
  PROVE  SignInv'
<1>1. {<<i, "*">>} = {i} \X {"*"}
  BY OneCell
<1>2. {i} \in SUBSET Id /\ {"*"} \in SUBSET Field
  BY DEF Id, Field
<1>3. Start(r, [db EXCEPT ![i] = NoRow], {i} \X {"*"}, {}, {})
  BY <1>1 DEF DeleteRow
<1>4. db[i] # NoRow /\ seen' = seen
  BY DEF DeleteRow
<1> QED  BY <1>2, <1>3, <1>4, ChangeSigns

LEMMA ContractSigns ==
  ASSUME Inv, SignInv, NEW r \in Request, ContractCall(r)
  PROVE  SignInv'
<1>1. ASSUME NEW h \in HopDong, NEW x \in HopDongRow, NewContract(r, h, x)
      PROVE  SignInv'
  BY <1>1, NewSigns DEF NewContract, Id
<1>2. ASSUME NEW h \in HopDong, NEW x \in HopDongRow, NEW F \in Changes, SaveContract(r, h, F, x)
      PROVE  SignInv'
  <2>1. {h} \in SUBSET Id /\ F \in SUBSET Field /\ "*" \notin F
    BY ChangesAssumption DEF Id, Field
  <2> QED  BY <1>2, <2>1, ChangeSigns DEF SaveContract
<1> QED  BY <1>1, <1>2, DeleteRowSigns DEF ContractCall

LEMMA TicketSigns ==
  ASSUME Inv, SignInv, NEW r \in Request, TicketCall(r)
  PROVE  SignInv'
<1>1. ASSUME NEW t \in HoTro, NEW k \in KhachHang, NEW n \in NhanVien \cup {None},
             NewTicket(r, t, k, n)
      PROVE  SignInv'
  BY <1>1, NewSigns DEF NewTicket, Id
<1>2. ASSUME NEW t \in HoTro, NEW k \in KhachHang, MoveTicket(r, t, k)
      PROVE  SignInv'
  <2>1. {<<t, "khach_hang_id">>} = {t} \X {"khach_hang_id"}
    BY OneCell
  <2>2. {t} \in SUBSET Id /\ {"khach_hang_id"} \in SUBSET Field
    BY DEF Id, Field
  <2>3. Start(r, [db EXCEPT ![t].khach_hang_id = k], {t} \X {"khach_hang_id"}, {}, {})
    BY <1>2, <2>1 DEF MoveTicket
  <2>4. db[t] # NoRow /\ seen' = seen
    BY <1>2 DEF MoveTicket
  <2> QED  BY <2>2, <2>3, <2>4, ChangeSigns
<1>3. ASSUME NEW T \in SUBSET HoTro, NEW n \in NhanVien \cup {None}, Assign(r, T, n)
      PROVE  SignInv'
  <2>1. T \in SUBSET Id /\ {"nhan_vien_id"} \in SUBSET Field /\ \A i \in T : db[i] # NoRow
    BY <1>3 DEF Assign, Live, Id, Field
  <2> QED  BY <1>3, <2>1, ChangeSigns DEF Assign
<1> QED  BY <1>1, <1>2, <1>3, DeleteRowSigns DEF TicketCall

-----------------------------------------------------------------------------
\* One turn of the loop: a customer gets its contract.
LEMMA SignOneSigns ==
  ASSUME Inv, SignInv, NEW r \in Request, NEW k \in KhachHang, NEW h \in HopDong, SignOne(r, k, h)
  PROVE  SignInv'
<1> DEFINE x == Signed(k, mine[r][k].doanh_thu_tiem_nang)
           y == [mine[r][k] EXCEPT !.giai_doan = "ky_hop_dong"]
<1>1. /\ mine[r] \in Database /\ mine[r][k] \in KhachHangRow /\ k # h /\ k \in todo[r]
      /\ \A j \in KhachHang : j # h
  BY IdAssumption DEF Inv, TypeOK, TodoLive, SignOne, Database
<1>2. /\ written'[r] = written[r] \cup {<<k, "giai_doan">>, <<h, "*">>}
      /\ todo'[r] = todo[r] \ {k}
      /\ mine'[r] = [mine[r] EXCEPT ![k] = y, ![h] = x]
      /\ \A q \in Request \ {r} :
           mine'[q] = mine[q] /\ written'[q] = written[q] /\ todo'[q] = todo[q]
      /\ db' = db /\ missed' = missed /\ seen' = seen \cup {h} /\ phase' = phase
      /\ phase[r] = "open"
  BY DEF SignOne, Inv, TypeOK, TodoLive
<1>3. /\ mine'[r][k] = y /\ mine'[r][h] = x
      /\ \A i \in Id : i # k /\ i # h => mine'[r][i] = mine[r][i]
  BY <1>1, <1>2 DEF Database, Id
<1>4. y.giai_doan = "ky_hop_dong" /\ y.doanh_thu_tiem_nang = mine[r][k].doanh_thu_tiem_nang /\ y \in KhachHangRow
  BY <1>1 DEF KhachHangRow, GiaiDoan
<1>5. mine'[r][k].giai_doan = "ky_hop_dong" /\ mine'[r][h].khach_hang_id = k
  BY <1>3, <1>4 DEF Signed
<1>6. mine'[r][h] = Signed(k, mine'[r][k].doanh_thu_tiem_nang)
  BY <1>3, <1>4
<1> HIDE DEF x, y
<1>7. /\ Rows(written'[r]) = Rows(written[r]) \cup {k, h}
      /\ Staged(r)' = Staged(r) \cup {k} /\ Made(r)' = Made(r) \cup {h}
  <2>1. <<k, "giai_doan">>[1] = k /\ <<h, "*">>[1] = h
    OBVIOUS
  <2>2. Rows(written'[r]) = Rows(written[r]) \cup {k, h}
    BY <1>2, <2>1 DEF Rows
  <2> QED  BY <1>1, <1>2, <2>2 DEF Staged, Made
<1>8. h \notin seen /\ \A q \in Request : Rows(written[q]) \subseteq seen
  BY DEF SignOne, SignInv, FreshInv
<1>9. FreshInv'
  <2>1. \A i \in Id : db'[i] # NoRow => i \in seen'
    BY <1>2 DEF SignInv, FreshInv
  <2>2. ASSUME NEW q \in Request
        PROVE  /\ Rows(written'[q]) \subseteq seen' /\ todo'[q] \subseteq seen'
               /\ phase'[q] = "open" \/ written'[q] = {}
               /\ \A j \in (todo'[q] \cup Staged(q)') \ missed'[q] : db'[j] # NoRow
    <3>1. CASE q = r
      <4>1. k \in seen
        BY <1>1 DEF SignInv, FreshInv
      <4>2. todo'[r] \cup Staged(r)' = todo[r] \cup Staged(r)
        BY <1>1, <1>2, <1>7
      <4> QED  BY <1>2, <1>7, <3>1, <4>1, <4>2 DEF SignInv, FreshInv
    <3>2. CASE q # r
      <4>1. Staged(q)' = Staged(q)
        BY <1>2, <3>2 DEF Staged
      <4> QED  BY <1>2, <3>2, <4>1 DEF SignInv, FreshInv
    <3> QED  BY <3>1, <3>2
  <2> QED  BY <2>1, <2>2 DEF FreshInv
<1>10. Signing(r)'
  <2>1. Signing(r)
    BY <1>1 DEF SignInv, Signs
  <2>2. written'[r] \subseteq (KhachHang \X {"giai_doan"}) \cup (HopDong \X {"*"})
    BY <1>2, <2>1 DEF Signing
  <2>3. \A g \in Made(r) : g # h /\ g # k /\ g \in Id
    BY <1>1, <1>8, RowOf, IdAssumption DEF Made, Id
  <2>4. \A j \in Staged(r) : j # k /\ j # h /\ j \in Id
    BY <1>1, <2>1 DEF Signing, Staged, Id
  <2>5. ASSUME NEW g \in Made(r)'
        PROVE  Mine(r, g)' /\ \E j \in Staged(r)' : mine'[r][g] = Signed(j, mine'[r][j].doanh_thu_tiem_nang)
    <3>1. CASE g = h
      <4>1. db[h] = NoRow
        BY <1>8 DEF SignInv, FreshInv, Id
      <4>2. \A q \in Request \ {r} : h \notin Rows(written'[q])
        BY <1>2, <1>8
      <4> QED  BY <1>2, <1>6, <1>7, <3>1, <4>1, <4>2 DEF Mine
    <3>2. CASE g # h
      <4>1. g \in Made(r)
        BY <1>7, <3>2
      <4>2. Mine(r, g)
        BY <2>1, <4>1 DEF Signing
      <4>3. PICK j \in Staged(r) : mine[r][g] = Signed(j, mine[r][j].doanh_thu_tiem_nang)
        BY <2>1, <4>1 DEF Signing
      <4>4. mine'[r][g] = mine[r][g] /\ mine'[r][j] = mine[r][j]
        BY <1>3, <2>3, <2>4, <4>1
      <4>5. Mine(r, g)'
        BY <1>2, <4>2 DEF Mine
      <4> QED  BY <1>7, <4>3, <4>4, <4>5
    <3> QED  BY <3>1, <3>2
  <2>6. \A g \in Made(r) : mine'[r][g] = mine[r][g] /\ mine'[r][g].khach_hang_id # k
    <3> SUFFICES ASSUME NEW g \in Made(r)
                 PROVE  mine'[r][g] = mine[r][g] /\ mine'[r][g].khach_hang_id # k
      OBVIOUS
    <3>1. mine'[r][g] = mine[r][g]
      BY <1>3, <2>3
    <3>2. PICK j \in Staged(r) : mine[r][g] = Signed(j, mine[r][j].doanh_thu_tiem_nang)
      BY <2>1 DEF Signing
    <3>3. mine[r][g].khach_hang_id = j
      BY <3>2 DEF Signed
    <3> QED  BY <2>4, <3>1, <3>3
  <2>7. ASSUME NEW j \in Staged(r)'
        PROVE  /\ j \notin todo'[r] /\ mine'[r][j].giai_doan = "ky_hop_dong"
               /\ \E g \in Made(r)' : \A f \in Made(r)' : mine'[r][f].khach_hang_id = j <=> f = g
    <3>1. CASE j = k
      <4>1. \A f \in Made(r)' : mine'[r][f].khach_hang_id = k <=> f = h
        BY <1>5, <1>7, <2>3, <2>6
      <4> QED  BY <1>2, <1>5, <1>7, <3>1, <4>1
    <3>2. CASE j # k
      <4>1. j \in Staged(r) /\ mine'[r][j] = mine[r][j]
        BY <1>3, <1>7, <2>4, <3>2
      <4>2. /\ j \notin todo[r] /\ mine[r][j].giai_doan = "ky_hop_dong"
            /\ \E g \in Made(r) : \A f \in Made(r) : mine[r][f].khach_hang_id = j <=> f = g
        BY <2>1, <4>1 DEF Signing
      <4>3. PICK g \in Made(r) : \A f \in Made(r) : mine[r][f].khach_hang_id = j <=> f = g
        BY <4>2
      <4>4. \A f \in Made(r)' : mine'[r][f].khach_hang_id = j <=> f = g
        BY <1>5, <1>7, <2>3, <2>6, <3>2, <4>3
      <4> QED  BY <1>2, <1>7, <4>1, <4>2, <4>4
    <3> QED  BY <3>1, <3>2
  <2> QED  BY <2>2, <2>5, <2>7 DEF Signing
<1>11. ASSUME NEW q \in Request, q # r, Signs(q)' PROVE Signing(q)'
  <2>1. ASSUME NEW g \in Made(q), Mine(q, g) PROVE Mine(q, g)'
    <3>1. g \in HopDong /\ g \in seen
      BY <1>8, RowOf DEF Made
    <3>2. g # k /\ g # h
      BY <1>1, <1>8, <3>1, IdAssumption
    <3>3. \A p \in Request \ {q} : g \notin Rows(written[p])
      BY <2>1 DEF Mine
    <3>4. \A p \in Request \ {q} : g \notin Rows(written'[p])
      BY <1>2, <1>7, <3>2, <3>3
    <3> QED  BY <1>2, <2>1, <3>4 DEF Mine
  <2>2. Signs(q) => Signing(q)
    BY DEF SignInv
  <2> QED  BY <1>2, <1>11, <2>1, <2>2, SigningStays
<1> QED  BY <1>9, <1>10, <1>11 DEF SignInv

\* The end of a call: another's contracts are not among its rows.
LEMMA CloseSigns ==
  ASSUME Inv, SignInv, NEW r \in Request, Commit(r) \/ Rollback(r)
  PROVE  SignInv'
<1>1. /\ written'[r] = {} /\ todo'[r] = {} /\ missed'[r] = {}
      /\ \A q \in Request \ {r} :
           /\ todo'[q] = todo[q] /\ mine'[q] = mine[q] /\ written'[q] = written[q]
      /\ seen' = seen
  BY DEF Commit, Rollback, Close, Inv, TypeOK
<1>2. \A i \in Id \ Rows(written[r]) : db'[i] = db[i]
  BY CommitLeaves DEF Commit, Rollback
<1>3. FreshInv'
  <2>1. ASSUME NEW i \in Id, db'[i] # NoRow PROVE i \in seen'
    BY <1>1, <1>2, <2>1 DEF SignInv, FreshInv
  <2>2. ASSUME NEW q \in Request
        PROVE  /\ Rows(written'[q]) \subseteq seen' /\ todo'[q] \subseteq seen'
               /\ phase'[q] = "open" \/ written'[q] = {}
               /\ \A k \in (todo'[q] \cup Staged(q)') \ missed'[q] : db'[k] # NoRow
    <3>1. CASE q = r
      BY <1>1, <3>1 DEF Rows, Staged
    <3>2. CASE q # r
      <4>1. Staged(q)' = Staged(q) /\ phase'[q] = phase[q]
        BY <1>1, <3>2 DEF Staged, Commit, Rollback, Close, Inv, TypeOK
      <4>2. ASSUME NEW k \in todo[q] \cup Staged(q), k \notin missed'[q] PROVE db'[k] # NoRow
        <5>1. phase[q] = "open"
          BY DEF Inv, TodoLive, SignInv, FreshInv, Staged
        <5>2. k \in Id
          BY DEF Inv, TypeOK, Staged, Id
        <5>3. CASE Commit(r)
          <6>1. missed'[q] = missed[q] \cup Rows(written[r])
            BY <3>2, <5>1, <5>3 DEF Commit
          <6> QED  BY <1>2, <4>2, <5>2, <6>1 DEF SignInv, FreshInv
        <5>4. CASE Rollback(r)
          <6>1. missed'[q] = missed[q] /\ db' = db
            BY <3>2, <5>4 DEF Rollback, Inv, TypeOK
          <6> QED  BY <4>2, <6>1 DEF SignInv, FreshInv
        <5> QED  BY <5>3, <5>4
      <4> QED  BY <1>1, <3>2, <4>1, <4>2 DEF SignInv, FreshInv
    <3> QED  BY <3>1, <3>2
  <2> QED  BY <2>1, <2>2 DEF FreshInv
<1>4. ASSUME NEW q \in Request, Signs(q)' PROVE Signing(q)'
  <2>1. q # r
    BY <1>1, <1>4 DEF Signs, Staged
  <2>2. ASSUME NEW h \in Made(q), Mine(q, h) PROVE Mine(q, h)'
    <3>1. h \in Id /\ h \notin Rows(written[r]) /\ db[h] = NoRow
      BY <2>1, <2>2 DEF Made, Mine, Id
    <3>2. \A p \in Request \ {q} : h \notin Rows(written'[p])
      BY <1>1, <2>2 DEF Mine, Rows
    <3> QED  BY <1>2, <3>1, <3>2 DEF Mine
  <2>3. Signs(q) => Signing(q)
    BY DEF SignInv
  <2> QED  BY <1>1, <1>4, <2>1, <2>2, <2>3, SigningStays
<1> QED  BY <1>3, <1>4 DEF SignInv

LEMMA SignNext == Inv /\ SignInv /\ [Next]_vars => SignInv'
<1> SUFFICES ASSUME Inv, SignInv, [Next]_vars PROVE SignInv'
  OBVIOUS
<1>1. ASSUME NEW r \in Request, CustomerCall(r) PROVE SignInv'
  BY <1>1, CustomerSigns, SignOneSigns
<1>2. ASSUME NEW r \in Request, ContractCall(r) PROVE SignInv'
  BY <1>2, ContractSigns
<1>3. ASSUME NEW r \in Request, TicketCall(r) PROVE SignInv'
  BY <1>3, TicketSigns
<1>4. ASSUME NEW r \in Request, Commit(r) \/ Rollback(r) PROVE SignInv'
  BY <1>4, CloseSigns
<1>5. CASE UNCHANGED vars
  <2>1. UNCHANGED <<db, seen, phase, todo, mine, written, missed>>
    BY <1>5 DEF vars
  <2>2. FreshInv'
    BY <2>1 DEF SignInv, FreshInv, Staged
  <2>3. ASSUME NEW r \in Request, Signs(r)' PROVE Signing(r)'
    <3>1. \A h \in Made(r) : Mine(r, h) => Mine(r, h)'
      BY <2>1 DEF Mine
    <3> QED  BY <2>1, <2>3, <3>1, SigningStays DEF SignInv
  <2> QED  BY <2>2, <2>3 DEF SignInv
<1> QED  BY <1>1, <1>2, <1>3, <1>4, <1>5 DEF Next

\* A customer an open call was to sign is still in its loop or has been moved by
\* it, and it moves none without creating a contract.
AskedInv ==
  \A r \in Request : asked[r] # {} =>
    asked[r] \subseteq todo[r] \cup Staged(r) /\ (Staged(r) # {} => Made(r) # {})

\* A call starts with customers to sign or with rows it has written.
LEMMA StartAsks ==
  ASSUME Inv, AskedInv, NEW r \in Request, NEW d, NEW W, NEW N, NEW K, Start(r, d, W, N, K),
         K = {} \/ W = {}
  PROVE  AskedInv'
<1>1. /\ asked'[r] = K /\ todo'[r] = K /\ written'[r] = W
      /\ \A q \in Request \ {r} :
           asked'[q] = asked[q] /\ todo'[q] = todo[q] /\ written'[q] = written[q]
  BY DEF Start, Inv, TypeOK
<1>2. ASSUME NEW q \in Request, asked'[q] # {}
      PROVE  asked'[q] \subseteq todo'[q] \cup Staged(q)' /\ (Staged(q)' # {} => Made(q)' # {})
  <2>1. CASE q = r
    <3>1. W = {}
      BY <1>1, <1>2, <2>1
    <3> QED  BY <1>1, <2>1, <3>1 DEF Staged
  <2>2. CASE q # r
    <3>1. Staged(q)' = Staged(q) /\ Made(q)' = Made(q)
      BY <1>1, <2>2 DEF Staged, Made
    <3> QED  BY <1>1, <1>2, <2>2, <3>1 DEF AskedInv
  <2> QED  BY <2>1, <2>2
<1> QED  BY <1>2 DEF AskedInv

LEMMA SignOneAsks ==
  ASSUME Inv, AskedInv, NEW r \in Request, NEW k \in KhachHang, NEW h \in HopDong, SignOne(r, k, h)
  PROVE  AskedInv'
<1>1. /\ asked' = asked /\ todo'[r] = todo[r] \ {k}
      /\ written'[r] = written[r] \cup {<<k, "giai_doan">>, <<h, "*">>}
      /\ \A q \in Request \ {r} : todo'[q] = todo[q] /\ written'[q] = written[q]
  BY DEF SignOne, Inv, TypeOK
<1>2. ASSUME NEW q \in Request, asked'[q] # {}
      PROVE  asked'[q] \subseteq todo'[q] \cup Staged(q)' /\ (Staged(q)' # {} => Made(q)' # {})
  <2>1. CASE q = r
    <3>1. Staged(r) \cup {k} \subseteq Staged(r)'
      BY <1>1 DEF Staged
    <3>2. h \in Made(r)'
      BY <1>1 DEF Made
    <3> QED  BY <1>1, <1>2, <2>1, <3>1, <3>2 DEF AskedInv
  <2>2. CASE q # r
    <3>1. Staged(q)' = Staged(q) /\ Made(q)' = Made(q)
      BY <1>1, <2>2 DEF Staged, Made
    <3> QED  BY <1>1, <1>2, <2>2, <3>1 DEF AskedInv
  <2> QED  BY <2>1, <2>2
<1> QED  BY <1>2 DEF AskedInv

LEMMA CloseAsks ==
  ASSUME Inv, AskedInv, NEW r \in Request, Commit(r) \/ Rollback(r)
  PROVE  AskedInv'
<1>1. /\ asked'[r] = {}
      /\ \A q \in Request \ {r} :
           asked'[q] = asked[q] /\ todo'[q] = todo[q] /\ written'[q] = written[q]
  BY DEF Commit, Rollback, Close, Inv, TypeOK
<1>2. \A q \in Request \ {r} : Staged(q)' = Staged(q) /\ Made(q)' = Made(q)
  BY <1>1 DEF Staged, Made
<1> QED  BY <1>1, <1>2 DEF AskedInv

LEMMA AskedNext == Inv /\ AskedInv /\ [Next]_vars => AskedInv'
<1> SUFFICES ASSUME Inv, AskedInv, [Next]_vars PROVE AskedInv'
  OBVIOUS
<1>1. ASSUME NEW r \in Request, CustomerCall(r) PROVE AskedInv'
  <2>1. ASSUME NEW k \in KhachHang, NEW h \in HopDong, SignOne(r, k, h) PROVE AskedInv'
    BY <2>1, SignOneAsks
  <2>2. ASSUME NEW K \in SUBSET KhachHang, SetContract(r, K) PROVE AskedInv'
    BY <2>2, StartAsks DEF SetContract
  <2>3. ASSUME NEW k \in KhachHang, NEW x \in KhachHangRow, NewCustomer(r, k, x) PROVE AskedInv'
    BY <2>3, StartAsks DEF NewCustomer
  <2>4. ASSUME NEW k \in KhachHang, NEW revenue \in GiaTri, SaveCustomer(r, k, revenue) PROVE AskedInv'
    BY <2>4, StartAsks DEF SaveCustomer
  <2>5. ASSUME NEW K \in SUBSET KhachHang, NEW stage \in GiaiDoan, SetStage(r, K, stage) PROVE AskedInv'
    BY <2>5, StartAsks DEF SetStage
  <2>6. ASSUME NEW k \in KhachHang, DeleteCustomer(r, k) PROVE AskedInv'
    BY <2>6, StartAsks DEF DeleteCustomer
  <2> QED  BY <1>1, <2>1, <2>2, <2>3, <2>4, <2>5, <2>6 DEF CustomerCall
<1>2. ASSUME NEW r \in Request, NEW i, DeleteRow(r, i) PROVE AskedInv'
  BY <1>2, StartAsks DEF DeleteRow
<1>3. ASSUME NEW r \in Request, ContractCall(r) PROVE AskedInv'
  <2>1. ASSUME NEW h, NEW x, NewContract(r, h, x) PROVE AskedInv'
    BY <2>1, StartAsks DEF NewContract
  <2>2. ASSUME NEW h, NEW x, NEW F, SaveContract(r, h, F, x) PROVE AskedInv'
    BY <2>2, StartAsks DEF SaveContract
  <2> QED  BY <1>2, <1>3, <2>1, <2>2 DEF ContractCall
<1>4. ASSUME NEW r \in Request, TicketCall(r) PROVE AskedInv'
  <2>1. ASSUME NEW t, NEW k, NEW n, NewTicket(r, t, k, n) PROVE AskedInv'
    BY <2>1, StartAsks DEF NewTicket
  <2>2. ASSUME NEW t, NEW k, MoveTicket(r, t, k) PROVE AskedInv'
    BY <2>2, StartAsks DEF MoveTicket
  <2>3. ASSUME NEW T, NEW n, Assign(r, T, n) PROVE AskedInv'
    BY <2>3, StartAsks DEF Assign
  <2> QED  BY <1>2, <1>4, <2>1, <2>2, <2>3 DEF TicketCall
<1>5. ASSUME NEW r \in Request, Commit(r) \/ Rollback(r) PROVE AskedInv'
  BY <1>5, CloseAsks
<1>6. CASE UNCHANGED vars
  BY <1>6 DEF vars, AskedInv, Staged, Made
<1> QED  BY <1>1, <1>3, <1>4, <1>5, <1>6 DEF Next

LEMMA AskedInit == Init => AskedInv
  BY DEF Init, AskedInv

LEMMA SignHolds == Spec => [](Inv /\ SignInv /\ AskedInv)
  BY InvInit, InvNext, SignInit, SignNext, AskedInit, AskedNext, PTL DEF Spec

\* A commit stores the rows the call wrote as the call sees them, if the keys
\* hold then.
LEMMA CommitStores ==
  ASSUME Inv, NEW r \in Request, Commit(r)
  PROVE  /\ db' = [i \in Id |-> IF i \in Rows(written[r]) THEN mine[r][i] ELSE db[i]]
         /\ KeysHold(db') /\ told' = told \cup notes[r]
         /\ phase[r] = "open" /\ todo[r] = {} /\ Rows(written[r]) \cap missed[r] = {}
         /\ db \in Database /\ mine[r] \in Database /\ Valid(mine[r])
<1>1. db' = [i \in Id |-> IF i \in Rows(written[r]) THEN mine[r][i] ELSE db[i]]
  BY CommitLeaves DEF Commit
<1>2. KeysHold(db')
  BY DEF Commit, Committable
<1> QED  BY <1>1, <1>2 DEF Commit, LoopOver, Committable, Inv, TypeOK, CallsInv

\* What a signing call commits of each customer and each contract.
LEMMA CommitSigns ==
  ASSUME Inv, SignInv, NEW r \in Request, Commit(r), Signs(r)
  PROVE  /\ Rows(written[r]) = Staged(r) \cup Made(r)
         /\ \A k \in Staged(r) :
              /\ db[k] \in KhachHangRow /\ db[k] # NoRow
              /\ mine[r][k] = [db[k] EXCEPT !.giai_doan = "ky_hop_dong"]
         /\ \A h \in Made(r) :
              /\ db[h] = NoRow /\ mine[r][h] \in HopDongRow
              /\ \E k \in Staged(r) : mine[r][h] = Signed(k, db[k].doanh_thu_tiem_nang)
<1>0. phase[r] = "open" /\ Rows(written[r]) \cap missed[r] = {} /\ db \in Database /\ mine[r] \in Database
  BY CommitStores
<1>1. Signing(r)
  BY DEF SignInv
<1>2. Rows(written[r]) = Staged(r) \cup Made(r)
  <2>1. ASSUME NEW w \in written[r] PROVE w[1] \in Staged(r) \cup Made(r)
    BY <1>1 DEF Signing, Staged, Made
  <2>2. \A i \in Staged(r) \cup Made(r) : i \in Rows(written[r])
    BY RowOf DEF Staged, Made
  <2> QED  BY <2>1, <2>2 DEF Rows
<1>3. ASSUME NEW k \in Staged(r)
      PROVE  /\ db[k] \in KhachHangRow /\ db[k] # NoRow
             /\ mine[r][k] = [db[k] EXCEPT !.giai_doan = "ky_hop_dong"]
             /\ mine[r][k].doanh_thu_tiem_nang = db[k].doanh_thu_tiem_nang
  <2>1. k \in Id /\ k \in KhachHang /\ k \in Rows(written[r]) /\ k \notin missed[r]
    BY <1>0, <1>2 DEF Staged, Id
  <2>2. db[k] # NoRow /\ db[k] \in KhachHangRow
    BY <1>0, <2>1 DEF SignInv, FreshInv, Database
  <2>3. \A f : <<k, f>> \in written[r] <=> f = "giai_doan"
    BY <1>1, <2>1, IdAssumption DEF Signing, Staged
  <2>4. mine[r][k] = Left(mine[r], written[r], k)
    BY <1>0, <2>1 DEF Inv, Unchanged
  <2>5. <<k, "*">> \notin written[r]
    BY <2>3
  <2>6. mine[r][k] = [f \in DOMAIN db[k] |-> IF <<k, f>> \in written[r] THEN mine[r][k][f] ELSE db[k][f]]
    BY <2>1, <2>2, <2>4, <2>5 DEF Left
  <2>7. mine[r][k] = [f \in DOMAIN db[k] |-> IF f = "giai_doan" THEN mine[r][k][f] ELSE db[k][f]]
    BY <2>3, <2>6
  <2>8. mine[r][k].giai_doan = "ky_hop_dong"
    BY <1>1 DEF Signing
  <2>9. mine[r][k] = [db[k] EXCEPT !.giai_doan = "ky_hop_dong"]
    BY <2>2, <2>7, <2>8 DEF KhachHangRow
  <2> QED  BY <2>2, <2>9 DEF KhachHangRow
<1>4. ASSUME NEW h \in Made(r)
      PROVE  /\ db[h] = NoRow /\ mine[r][h] \in HopDongRow
             /\ \E k \in Staged(r) : mine[r][h] = Signed(k, db[k].doanh_thu_tiem_nang)
  <2>1. Mine(r, h) /\ \E k \in Staged(r) : mine[r][h] = Signed(k, mine[r][k].doanh_thu_tiem_nang)
    BY <1>1 DEF Signing
  <2>2. PICK k \in Staged(r) : mine[r][h] = Signed(k, db[k].doanh_thu_tiem_nang)
    BY <1>3, <2>1
  <2>3. db[k].doanh_thu_tiem_nang \in GiaTri /\ k \in KhachHang
    BY <1>3 DEF KhachHangRow, Staged
  <2>4. mine[r][h] \in HopDongRow
    BY <2>2, <2>3, NumberAssumption DEF Signed, HopDongRow
  <2> QED  BY <2>1, <2>2, <2>4 DEF Mine
<1> QED  BY <1>2, <1>3, <1>4

\* What a commit of a signing call adds to the contracts of a customer is the
\* one it made for it.
LEMMA CommitSigned ==
  ASSUME Inv, SignInv, NEW r \in Request, Commit(r), Made(r) # {}, NEW k \in Staged(r)
  PROVE  /\ db'[k].giai_doan = "ky_hop_dong"
         /\ \E h \in HopDong :
              /\ Contracts(db', k) \ Contracts(db, k) = {h}
              /\ db'[h].gia_tri_hop_dong = db[k].doanh_thu_tiem_nang
<1>0. db' = [i \in Id |-> IF i \in Rows(written[r]) THEN mine[r][i] ELSE db[i]]
  BY CommitStores
<1>1. Signs(r) /\ Signing(r)
  BY DEF SignInv, Signs
<1>2. /\ Rows(written[r]) = Staged(r) \cup Made(r)
      /\ \A h \in Made(r) :
           /\ db[h] = NoRow /\ mine[r][h] \in HopDongRow
           /\ \E j \in Staged(r) : mine[r][h] = Signed(j, db[j].doanh_thu_tiem_nang)
  BY <1>1, CommitSigns
<1>3. Staged(r) \subseteq KhachHang /\ Made(r) \subseteq HopDong
  BY DEF Staged, Made
<1>4. db'[k] = mine[r][k] /\ mine[r][k].giai_doan = "ky_hop_dong"
  BY <1>0, <1>1, <1>2, <1>3 DEF Signing, Id
<1>5. PICK h \in Made(r) : \A g \in Made(r) : mine[r][g].khach_hang_id = k <=> g = h
  BY <1>1 DEF Signing
<1>6. ASSUME NEW g \in Made(r) PROVE db[g] = NoRow /\ db'[g] = mine[r][g] /\ db'[g] # NoRow
  BY <1>0, <1>2, <1>3, RowAssumption DEF Id
<1>7. \A g \in HopDong \ Made(r) : db'[g] = db[g]
  BY <1>0, <1>2, <1>3, IdAssumption DEF Id
<1>8. \A g \in HopDong : g \in Contracts(db', k) \ Contracts(db, k) <=> g = h
  <2> SUFFICES ASSUME NEW g \in HopDong
               PROVE  g \in Contracts(db', k) \ Contracts(db, k) <=> g = h
    OBVIOUS
  <2>1. CASE g \in Made(r)
    BY <1>5, <1>6, <2>1 DEF Contracts, Live
  <2>2. CASE g \notin Made(r)
    BY <1>7, <2>2 DEF Contracts, Live
  <2> QED  BY <2>1, <2>2
<1>9. db'[h].gia_tri_hop_dong = db[k].doanh_thu_tiem_nang
  <2>1. PICK j \in Staged(r) : mine[r][h] = Signed(j, db[j].doanh_thu_tiem_nang)
    BY <1>2
  <2>2. j = k
    BY <1>5, <2>1 DEF Signed
  <2> QED  BY <1>6, <2>1, <2>2 DEF Signed
<1>10. Contracts(db', k) \ Contracts(db, k) = {h} /\ h \in HopDong
  BY <1>3, <1>8 DEF Contracts, Live
<1> QED  BY <1>4, <1>9, <1>10

-----------------------------------------------------------------------------
(* Calls as if alone.  Of every call under way it is known what it is from *)
(* what it has written, and of the rows it has written what they were.     *)

There(r, S) == \A i \in S \ missed[r] : db[i] # NoRow

\* The row i is new, and known to r only.
Own(r, i) == Mine(r, i) /\ \A q \in Request \ {r} : i \notin todo[q]

\* A call that creates the row i.
Creates(r, i) ==
  /\ written[r] = {<<i, "*">>} /\ Own(r, i) /\ mine[r][i] # NoRow
  /\ \/ i \in KhachHang /\ notes[r] = {}
     \/ i \in HopDong /\ notes[r] = {}
     \/ i \in HoTro /\ notes[r] = NewNotes(i, mine[r][i].nhan_vien_id)

\* A call that changes the columns F of the rows S.
Edits(r, S, F) ==
  /\ written[r] = S \X F /\ There(r, S) /\ \A i \in S : mine[r][i] # NoRow
  /\ \/ F = {"doanh_thu_tiem_nang"} /\ notes[r] = {} /\ \E k \in KhachHang : S = {k}
     \/ /\ F = {"giai_doan"} /\ notes[r] = {} /\ S # {} /\ S \subseteq KhachHang
        /\ \E stage \in GiaiDoan : \A k \in S : mine[r][k].giai_doan = stage
     \/ F \in Changes /\ notes[r] = {} /\ \E h \in HopDong : S = {h}
     \/ F = {"khach_hang_id"} /\ notes[r] = {} /\ \E t \in HoTro : S = {t}
     \/ /\ F = {"nhan_vien_id"} /\ S # {} /\ S \subseteq HoTro
        /\ \E n \in NhanVien \cup {None} :
             notes[r] = Notes(S, n) /\ \A t \in S : mine[r][t].nhan_vien_id = n

\* A call that deletes a contract or a ticket, or a customer and its contracts.
Deletes(r, S) ==
  /\ written[r] = S \X {"*"} /\ There(r, S) /\ notes[r] = {} /\ \A i \in S : mine[r][i] = NoRow
  /\ \/ \E i \in HopDong \cup HoTro : S = {i}
     \/ \E k \in KhachHang \cap S :
          /\ S \ {k} \subseteq HopDong
          /\ \A h \in (S \ {k}) \ missed[r] : db[h].khach_hang_id = k

\* A call is one of these or signs.
Known(r) ==
  \/ /\ todo[r] = {}
     /\ \/ \E i \in Id : Creates(r, i)
        \/ \E S \in SUBSET Id, F \in SUBSET Field : Edits(r, S, F)
        \/ \E S \in SUBSET Id : Deletes(r, S)
  \/ Signs(r) /\ notes[r] = {}

KnownInv == \A r \in Request : phase[r] = "open" => Known(r)

-----------------------------------------------------------------------------
\* What is known of a call stays so while others work: rows no commit it cannot
\* see has changed are as they were, and its own rows stay its own.
LEMMA KnownStays ==
  ASSUME NEW r \in Request, Known(r),
         todo'[r] = todo[r], mine'[r] = mine[r], written'[r] = written[r], notes'[r] = notes[r],
         \A i \in Id \ missed'[r] : i \notin missed[r] /\ db'[i] = db[i],
         \A i \in Rows(written[r]) : Own(r, i) => Own(r, i)'
  PROVE  Known(r)'
<1>1. ASSUME NEW S \in SUBSET Id, There(r, S) PROVE There(r, S)'
  BY <1>1 DEF There
<1>2. ASSUME NEW i \in Id, Creates(r, i) PROVE Creates(r, i)'
  <2>1. <<i, "*">> \in written[r]
    BY <1>2 DEF Creates
  <2>2. Own(r, i)'
    BY <1>2, <2>1, RowOf DEF Creates
  <2> QED  BY <1>2, <2>2 DEF Creates, NewNotes, Notes
<1>3. ASSUME NEW S \in SUBSET Id, NEW F \in SUBSET Field, Edits(r, S, F) PROVE Edits(r, S, F)'
  <2>1. /\ There(r, S)' /\ written'[r] = S \X F /\ \A i \in S : mine'[r][i] # NoRow
        /\ notes'[r] = notes[r]
    BY <1>1, <1>3 DEF Edits
  <2>2. CASE notes[r] = {} /\ F = {"doanh_thu_tiem_nang"} /\ \E k \in KhachHang : S = {k}
    BY <2>1, <2>2 DEF Edits
  <2>3. CASE /\ F = {"giai_doan"} /\ notes[r] = {} /\ S # {} /\ S \subseteq KhachHang
             /\ \E stage \in GiaiDoan : \A k \in S : mine[r][k].giai_doan = stage
    BY <2>1, <2>3 DEF Edits
  <2>4. CASE F \in Changes /\ notes[r] = {} /\ \E h \in HopDong : S = {h}
    BY <2>1, <2>4 DEF Edits
  <2>5. CASE F = {"khach_hang_id"} /\ notes[r] = {} /\ \E t \in HoTro : S = {t}
    BY <2>1, <2>5 DEF Edits
  <2>6. CASE /\ F = {"nhan_vien_id"} /\ S # {} /\ S \subseteq HoTro
             /\ \E n \in NhanVien \cup {None} :
                  notes[r] = Notes(S, n) /\ \A t \in S : mine[r][t].nhan_vien_id = n
    BY <2>1, <2>6 DEF Edits, Notes
  <2> QED  BY <1>3, <2>2, <2>3, <2>4, <2>5, <2>6 DEF Edits
<1>4. ASSUME NEW S \in SUBSET Id, Deletes(r, S) PROVE Deletes(r, S)'
  <2>1. There(r, S)'
    BY <1>1, <1>4 DEF Deletes
  <2>2. \A k : \A h \in (S \ {k}) \ missed'[r] : h \in (S \ {k}) \ missed[r] /\ db'[h] = db[h]
    OBVIOUS
  <2> QED  BY <1>4, <2>1, <2>2 DEF Deletes
<1>5. Staged(r)' = Staged(r) /\ Made(r)' = Made(r)
  BY DEF Staged, Made
<1>6. Signs(r)' = Signs(r)
  BY <1>5 DEF Signs
<1> QED  BY <1>2, <1>3, <1>4, <1>6 DEF Known

\* Rows that are there or new are no row another call has made.
LEMMA OwnStays ==
  ASSUME SignInv, NEW r \in Request, NEW q \in Request, q # r, NEW W, NEW K,
         written'[r] = W, todo'[r] = K, db' = db,
         \A p \in Request \ {r} : written'[p] = written[p] /\ todo'[p] = todo[p],
         \A i \in Rows(W) : db[i] # NoRow \/ i \notin seen, \A k \in K : db[k] # NoRow,
         NEW i \in Rows(written[q]), Own(q, i)
  PROVE  Own(q, i)'
<1>1. i \in seen /\ db[i] = NoRow
  BY DEF SignInv, FreshInv, Own, Mine
<1>2. i \notin Rows(W) /\ i \notin K
  BY <1>1
<1>3. \A p \in Request \ {q} : i \notin Rows(written'[p]) /\ i \notin todo'[p]
  BY <1>2 DEF Own, Mine
<1> QED  BY <1>1, <1>3 DEF Own, Mine

LEMMA StartKnown ==
  ASSUME Inv, SignInv, KnownInv, NEW r \in Request, NEW d, NEW W, NEW N, NEW K,
         Start(r, d, W, N, K), \A i \in Rows(W) : db[i] # NoRow \/ i \notin seen,
         \A k \in K : db[k] # NoRow, Known(r)'
  PROVE  KnownInv'
<1>1. /\ written'[r] = W /\ todo'[r] = K /\ db' = db
      /\ \A q \in Request \ {r} :
           /\ phase'[q] = phase[q] /\ todo'[q] = todo[q] /\ mine'[q] = mine[q]
           /\ written'[q] = written[q] /\ notes'[q] = notes[q] /\ missed'[q] = missed[q]
  BY DEF Start, Inv, TypeOK
<1>2. ASSUME NEW q \in Request, q # r, phase'[q] = "open" PROVE Known(q)'
  <2>1. \A i \in Rows(written[q]) : Own(q, i) => Own(q, i)'
    BY <1>1, <1>2, OwnStays
  <2>2. Known(q)
    BY <1>1, <1>2 DEF KnownInv
  <2> QED  BY <1>1, <1>2, <2>1, <2>2, KnownStays
<1> QED  BY <1>2 DEF KnownInv

\* What r is after its start.
LEMMA Started ==
  ASSUME Inv, NEW r \in Request, NEW d, NEW W, NEW N, NEW K, Start(r, d, W, N, K)
  PROVE  /\ todo'[r] = K /\ mine'[r] = d /\ written'[r] = W /\ notes'[r] = N /\ missed'[r] = {}
         /\ db' = db /\ \A q \in Request \ {r} : written'[q] = written[q] /\ todo'[q] = todo[q]
  BY DEF Start, Inv, TypeOK

LEMMA CreateKnown ==
  ASSUME Inv, SignInv, KnownInv, NEW r \in Request, NEW i \in Id, NEW d, NEW N,
         Start(r, d, {<<i, "*">>}, N, {}), i \notin seen, d[i] # NoRow,
         \/ i \in KhachHang /\ N = {}
         \/ i \in HopDong /\ N = {}
         \/ i \in HoTro /\ N = NewNotes(i, d[i].nhan_vien_id)
  PROVE  KnownInv'
<1>1. /\ todo'[r] = {} /\ mine'[r] = d /\ written'[r] = {<<i, "*">>} /\ notes'[r] = N
      /\ db' = db /\ \A q \in Request \ {r} : written'[q] = written[q] /\ todo'[q] = todo[q]
  BY Started
<1>2. Own(r, i)'
  BY <1>1 DEF Own, Mine, SignInv, FreshInv
<1>3. Creates(r, i)'
  BY <1>1, <1>2 DEF Creates, NewNotes, Notes
<1>4. Known(r)'
  BY <1>1, <1>3 DEF Known
<1>5. Rows({<<i, "*">>}) = {i}
  BY RowsOfOne
<1>6. \A j \in Rows({<<i, "*">>}) : db[j] # NoRow \/ j \notin seen
  BY <1>5
<1> QED  BY <1>4, <1>6, StartKnown

LEMMA TableKnown ==
  ASSUME Inv, SignInv, KnownInv, NEW r \in Request, NEW S \in SUBSET Id, NEW F, NEW d, NEW N,
         Start(r, d, S \X F, N, {}), \A i \in S : db[i] # NoRow,
         (F \in SUBSET Field /\ Edits(r, S, F)') \/ (F = {"*"} /\ Deletes(r, S)')
  PROVE  KnownInv'
<1>1. todo'[r] = {}
  BY Started
<1>2. Known(r)'
  BY <1>1 DEF Known
<1>3. \A w \in S \X F : w[1] \in S
  OBVIOUS
<1>4. \A j \in Rows(S \X F) : db[j] # NoRow
  BY <1>3 DEF Rows
<1> QED  BY <1>2, <1>4, StartKnown

-----------------------------------------------------------------------------
LEMMA CustomerKnown ==
  ASSUME Inv, SignInv, KnownInv, NEW r \in Request, CustomerCall(r),
         ~\E k \in KhachHang, h \in HopDong : SignOne(r, k, h)
  PROVE  KnownInv'
<1>0. db \in Database
  BY DEF Inv, TypeOK
<1>1. ASSUME NEW k \in KhachHang, NEW x \in KhachHangRow, NewCustomer(r, k, x)
      PROVE  KnownInv'
  <2> DEFINE d == [db EXCEPT ![k] = x]
  <2>1. k \in Id /\ d[k] # NoRow
    BY <1>0, RowAssumption DEF Database, Id
  <2>2. Start(r, d, {<<k, "*">>}, {}, {}) /\ k \notin seen
    BY <1>1 DEF NewCustomer
  <2> HIDE DEF d
  <2> QED  BY <2>1, <2>2, CreateKnown
<1>2. ASSUME NEW k \in KhachHang, NEW revenue \in GiaTri, SaveCustomer(r, k, revenue)
      PROVE  KnownInv'
  <2> DEFINE d == [db EXCEPT ![k].doanh_thu_tiem_nang = revenue]
             F == {"doanh_thu_tiem_nang"}
  <2>1. Start(r, d, {k} \X F, {}, {}) /\ db[k] # NoRow
    BY <1>2, OneCell DEF SaveCustomer
  <2>0. d[k] # NoRow
    <3>1. k \in Id /\ db[k] \in KhachHangRow
      BY <1>0, <2>1 DEF Database, Id
    <3>2. [db[k] EXCEPT !.doanh_thu_tiem_nang = revenue] \in KhachHangRow
      BY <3>1 DEF KhachHangRow
    <3> QED  BY <1>0, <3>1, <3>2, RowAssumption DEF Database
  <2> HIDE DEF d
  <2>2. /\ written'[r] = {k} \X F /\ notes'[r] = {} /\ missed'[r] = {} /\ db' = db
        /\ mine'[r][k] # NoRow
    BY <2>0, <2>1, Started
  <2>3. There(r, {k})'
    BY <2>1, <2>2 DEF There
  <2>4. Edits(r, {k}, F)'
    BY <2>2, <2>3 DEF Edits
  <2>5. F \in SUBSET Field /\ {k} \in SUBSET Id
    BY DEF Field, Id
  <2> HIDE DEF F
  <2> QED  BY <2>1, <2>4, <2>5, TableKnown
<1>3. ASSUME NEW K \in SUBSET KhachHang, NEW stage \in GiaiDoan, SetStage(r, K, stage)
      PROVE  KnownInv'
  <2> DEFINE d == [i \in Id |-> IF i \in K THEN [db[i] EXCEPT !.giai_doan = stage] ELSE db[i]]
             F == {"giai_doan"}
  <2>1. Start(r, d, K \X F, {}, {}) /\ K # {} /\ \A k \in K : db[k] # NoRow
    BY <1>3 DEF SetStage, Live
  <2>2. \A k \in K : d[k].giai_doan = stage /\ d[k] # NoRow
    <3> SUFFICES ASSUME NEW k \in K PROVE d[k].giai_doan = stage /\ d[k] # NoRow
      OBVIOUS
    <3>1. db[k] \in KhachHangRow /\ k \in Id
      BY <1>0, <2>1 DEF Database, Id
    <3>2. d[k] \in KhachHangRow /\ d[k].giai_doan = stage
      BY <3>1 DEF KhachHangRow
    <3> QED  BY <3>2, RowAssumption
  <2> HIDE DEF d
  <2>3. written'[r] = K \X F /\ notes'[r] = {} /\ missed'[r] = {} /\ db' = db /\ mine'[r] = d
    BY <2>1, Started
  <2>4. There(r, K)'
    BY <2>1, <2>3 DEF There
  <2>5. \A k \in K : mine'[r][k].giai_doan = stage /\ mine'[r][k] # NoRow
    BY <2>2, <2>3
  <2>6. Edits(r, K, F)'
    BY <2>1, <2>3, <2>4, <2>5 DEF Edits
  <2>7. F \in SUBSET Field /\ K \in SUBSET Id
    BY DEF Field, Id
  <2> HIDE DEF F
  <2> QED  BY <2>1, <2>6, <2>7, TableKnown
<1>4. ASSUME NEW K \in SUBSET KhachHang, SetContract(r, K)
      PROVE  KnownInv'
  <2>1. Start(r, db, {}, {}, K) /\ K # {} /\ \A k \in K : db[k] # NoRow
    BY <1>4 DEF SetContract, Live
  <2>2. todo'[r] = K /\ notes'[r] = {}
    BY <2>1, Started
  <2>3. Known(r)'
    BY <2>1, <2>2 DEF Known, Signs
  <2>4. Rows({}) = {}
    BY DEF Rows
  <2> QED  BY <2>1, <2>3, <2>4, StartKnown
<1>5. ASSUME NEW k \in KhachHang, DeleteCustomer(r, k)
      PROVE  KnownInv'
  <2>1. PICK C \in SUBSET Id : C = Cascaded(k)
    BY DEF Cascaded, Live, Id
  <2> DEFINE d == [i \in Id |-> IF i \in C THEN NoRow ELSE db[i]]
  <2>2. Start(r, d, C \X {"*"}, {}, {})
    BY <1>5, <2>1 DEF DeleteCustomer
  <2>3. /\ k \in C /\ C \ {k} \subseteq HopDong
        /\ \A i \in C : db[i] # NoRow
        /\ \A h \in C \ {k} : db[h].khach_hang_id = k
    BY <1>5, <2>1 DEF DeleteCustomer, Cascaded, Live
  <2>4. \A i \in C : d[i] = NoRow
    OBVIOUS
  <2> HIDE DEF d
  <2>5. /\ written'[r] = C \X {"*"} /\ notes'[r] = {} /\ missed'[r] = {} /\ db' = db
        /\ \A i \in C : mine'[r][i] = NoRow
    BY <2>2, <2>4, Started
  <2>6. There(r, C)'
    BY <2>3, <2>5 DEF There
  <2>7. Deletes(r, C)'
    BY <2>3, <2>5, <2>6 DEF Deletes
  <2> QED  BY <2>2, <2>3, <2>7, TableKnown
<1> QED  BY <1>1, <1>2, <1>3, <1>4, <1>5 DEF CustomerCall

LEMMA DeleteRowKnown ==
  ASSUME Inv, SignInv, KnownInv, NEW r \in Request, NEW i \in HopDong \cup HoTro, DeleteRow(r, i)
  PROVE  KnownInv'
<1> DEFINE d == [db EXCEPT ![i] = NoRow]
<1>1. {<<i, "*">>} = {i} \X {"*"}
  BY OneCell
<1>2. Start(r, d, {i} \X {"*"}, {}, {}) /\ db[i] # NoRow
  BY <1>1 DEF DeleteRow
<1>3. {i} \in SUBSET Id /\ i \in Id
  BY DEF Id
<1>4. d[i] = NoRow
  BY <1>3 DEF Inv, TypeOK, Database
<1> HIDE DEF d
<1>5. /\ written'[r] = {i} \X {"*"} /\ notes'[r] = {} /\ missed'[r] = {} /\ db' = db
      /\ mine'[r][i] = NoRow
  BY <1>2, <1>4, Started
<1>6. There(r, {i})'
  BY <1>2, <1>5 DEF There
<1>7. Deletes(r, {i})'
  BY <1>5, <1>6 DEF Deletes
<1> QED  BY <1>2, <1>3, <1>7, TableKnown

LEMMA ContractKnown ==
  ASSUME Inv, SignInv, KnownInv, NEW r \in Request, ContractCall(r)
  PROVE  KnownInv'
<1>0. db \in Database
  BY DEF Inv, TypeOK
<1>1. ASSUME NEW h \in HopDong, NEW x \in HopDongRow, NewContract(r, h, x)
      PROVE  KnownInv'
  <2> DEFINE d == [db EXCEPT ![h] = x]
  <2>1. Start(r, d, {<<h, "*">>}, {}, {}) /\ h \notin seen
    BY <1>1 DEF NewContract
  <2>2. h \in Id /\ d[h] # NoRow
    BY <1>0, RowAssumption DEF Database, Id
  <2> HIDE DEF d
  <2> QED  BY <2>1, <2>2, CreateKnown
<1>2. ASSUME NEW h \in HopDong, NEW new \in HopDongRow, NEW F \in Changes, SaveContract(r, h, F, new)
      PROVE  KnownInv'
  <2> DEFINE d == [db EXCEPT ![h] = Overwritten(@, F, new)]
  <2>1. Start(r, d, {h} \X F, {}, {}) /\ db[h] # NoRow
    BY <1>2 DEF SaveContract
  <2>2. d[h] # NoRow
    <3>1. h \in Id /\ db[h] \in HopDongRow
      BY <1>0, <2>1 DEF Database, Id
    <3>2. Overwritten(db[h], F, new) \in HopDongRow
      BY <3>1 DEF Overwritten, HopDongRow
    <3> QED  BY <1>0, <3>1, <3>2, RowAssumption DEF Database
  <2>3. F \in SUBSET Field /\ {h} \in SUBSET Id
    BY ChangesAssumption DEF Field, Id
  <2> HIDE DEF d
  <2>4. /\ written'[r] = {h} \X F /\ notes'[r] = {} /\ missed'[r] = {} /\ db' = db
        /\ mine'[r][h] # NoRow
    BY <2>1, <2>2, Started
  <2>5. There(r, {h})'
    BY <2>1, <2>4 DEF There
  <2>6. Edits(r, {h}, F)'
    BY <2>4, <2>5 DEF Edits
  <2> QED  BY <2>1, <2>3, <2>6, TableKnown
<1> QED  BY <1>1, <1>2, DeleteRowKnown DEF ContractCall

LEMMA TicketKnown ==
  ASSUME Inv, SignInv, KnownInv, NEW r \in Request, TicketCall(r)
  PROVE  KnownInv'
<1>0. db \in Database
  BY DEF Inv, TypeOK
<1>1. ASSUME NEW t \in HoTro, NEW k \in KhachHang, NEW n \in NhanVien \cup {None}, NewTicket(r, t, k, n)
      PROVE  KnownInv'
  <2> DEFINE x == [khach_hang_id |-> k, nhan_vien_id |-> n]
             d == [db EXCEPT ![t] = x]
  <2>1. Start(r, d, {<<t, "*">>}, NewNotes(t, n), {}) /\ t \notin seen
    BY <1>1 DEF NewTicket
  <2>2. x \in HoTroRow /\ x.nhan_vien_id = n
    BY DEF HoTroRow
  <2>3. t \in Id /\ d[t] = x /\ x # NoRow
    BY <1>0, <2>2, RowAssumption DEF Database, Id
  <2> HIDE DEF d, x
  <2> QED  BY <2>1, <2>2, <2>3, CreateKnown
<1>2. ASSUME NEW t \in HoTro, NEW k \in KhachHang, MoveTicket(r, t, k)
      PROVE  KnownInv'
  <2> DEFINE d == [db EXCEPT ![t].khach_hang_id = k]
             F == {"khach_hang_id"}
  <2>1. Start(r, d, {t} \X F, {}, {}) /\ db[t] # NoRow
    BY <1>2, OneCell DEF MoveTicket
  <2>2. d[t] # NoRow
    <3>1. t \in Id /\ db[t] \in HoTroRow
      BY <1>0, <2>1 DEF Database, Id
    <3>2. [db[t] EXCEPT !.khach_hang_id = k] \in HoTroRow
      BY <3>1 DEF HoTroRow
    <3> QED  BY <1>0, <3>1, <3>2, RowAssumption DEF Database
  <2>3. F \in SUBSET Field /\ {t} \in SUBSET Id
    BY DEF Field, Id
  <2> HIDE DEF d
  <2>4. /\ written'[r] = {t} \X F /\ notes'[r] = {} /\ missed'[r] = {} /\ db' = db
        /\ mine'[r][t] # NoRow
    BY <2>1, <2>2, Started
  <2>5. There(r, {t})'
    BY <2>1, <2>4 DEF There
  <2>6. Edits(r, {t}, F)'
    BY <2>4, <2>5 DEF Edits
  <2> HIDE DEF F
  <2> QED  BY <2>1, <2>3, <2>6, TableKnown
<1>3. ASSUME NEW T \in SUBSET HoTro, NEW n \in NhanVien \cup {None}, Assign(r, T, n)
      PROVE  KnownInv'
  <2> DEFINE d == [i \in Id |-> IF i \in T THEN [db[i] EXCEPT !.nhan_vien_id = n] ELSE db[i]]
             F == {"nhan_vien_id"}
  <2>1. Start(r, d, T \X F, Notes(T, n), {}) /\ T # {} /\ \A t \in T : db[t] # NoRow
    BY <1>3 DEF Assign, Live
  <2>2. \A t \in T : d[t].nhan_vien_id = n /\ d[t] # NoRow
    <3> SUFFICES ASSUME NEW t \in T PROVE d[t].nhan_vien_id = n /\ d[t] # NoRow
      OBVIOUS
    <3>1. db[t] \in HoTroRow /\ t \in Id
      BY <1>0, <2>1 DEF Database, Id
    <3>2. d[t] \in HoTroRow /\ d[t].nhan_vien_id = n
      BY <3>1 DEF HoTroRow
    <3> QED  BY <3>2, RowAssumption
  <2> HIDE DEF d
  <2>3. written'[r] = T \X F /\ notes'[r] = Notes(T, n) /\ missed'[r] = {} /\ db' = db /\ mine'[r] = d
    BY <2>1, Started
  <2>4. There(r, T)'
    BY <2>1, <2>3 DEF There
  <2>5. \A t \in T : mine'[r][t].nhan_vien_id = n /\ mine'[r][t] # NoRow
    BY <2>2, <2>3
  <2>6. Edits(r, T, F)'
    BY <2>1, <2>3, <2>4, <2>5 DEF Edits, Notes
  <2>7. F \in SUBSET Field /\ T \in SUBSET Id
    BY DEF Field, Id
  <2> HIDE DEF F
  <2> QED  BY <2>1, <2>6, <2>7, TableKnown
<1> QED  BY <1>1, <1>2, <1>3, DeleteRowKnown DEF TicketCall

LEMMA SignOneKnown ==
  ASSUME Inv, SignInv, KnownInv, NEW r \in Request, NEW k \in KhachHang, NEW h \in HopDong,
         SignOne(r, k, h)
  PROVE  KnownInv'
<1>1. /\ k \in todo[r] /\ h \notin seen /\ phase[r] = "open" /\ k \in seen
      /\ written'[r] = written[r] \cup {<<k, "giai_doan">>, <<h, "*">>}
      /\ \A q \in Request \ {r} :
           todo'[q] = todo[q] /\ mine'[q] = mine[q] /\ written'[q] = written[q]
      /\ UNCHANGED <<db, phase, notes, missed>>
  BY DEF SignOne, Inv, TypeOK, TodoLive, SignInv, FreshInv
<1>2. Signs(r)' /\ notes'[r] = {}
  BY <1>1 DEF Signs, Staged, Made, KnownInv, Known
<1>3. Rows(written'[r]) = Rows(written[r]) \cup {k, h} /\ todo'[r] \subseteq todo[r]
  <2> DEFINE a == <<k, "giai_doan">>
             b == <<h, "*">>
  <2>1. a[1] = k /\ b[1] = h
    OBVIOUS
  <2>2. written'[r] = written[r] \cup {a, b}
    BY <1>1
  <2>3. todo'[r] \subseteq todo[r]
    BY DEF SignOne, Inv, TypeOK
  <2> HIDE DEF a, b
  <2> QED  BY <2>1, <2>2, <2>3 DEF Rows
<1>5. ASSUME NEW q \in Request, q # r, phase'[q] = "open" PROVE Known(q)'
  <2>1. ASSUME NEW i \in Rows(written[q]), Own(q, i) PROVE Own(q, i)'
    <3>1. i \in seen /\ i # h
      BY <1>1 DEF SignInv, FreshInv
    <3>2. i # k
      BY <1>1, <1>5, <2>1 DEF Own
    <3>3. \A p \in Request \ {q} : i \notin Rows(written[p]) /\ i \notin todo[p]
      BY <2>1 DEF Own, Mine
    <3>4. ASSUME NEW p \in Request, p # q PROVE i \notin Rows(written'[p]) /\ i \notin todo'[p]
      <4>1. CASE p = r
        BY <1>3, <3>1, <3>2, <3>3, <3>4, <4>1
      <4>2. CASE p # r
        BY <1>1, <3>3, <3>4, <4>2
      <4> QED  BY <4>1, <4>2
    <3> QED  BY <1>1, <2>1, <3>4 DEF Own, Mine
  <2>2. Known(q)
    BY <1>1, <1>5 DEF KnownInv
  <2> QED  BY <1>1, <1>5, <2>1, <2>2, KnownStays
<1> QED  BY <1>2, <1>5 DEF KnownInv, Known

LEMMA CloseKnown ==
  ASSUME Inv, SignInv, KnownInv, NEW r \in Request, Commit(r) \/ Rollback(r)
  PROVE  KnownInv'
<1>1. /\ phase'[r] = "idle" /\ written'[r] = {} /\ todo'[r] = {}
      /\ \A q \in Request \ {r} :
           /\ phase'[q] = phase[q] /\ todo'[q] = todo[q] /\ mine'[q] = mine[q]
           /\ written'[q] = written[q] /\ notes'[q] = notes[q]
  BY DEF Commit, Rollback, Close, Inv, TypeOK
<1>2. \A i \in Id \ Rows(written[r]) : db'[i] = db[i]
  BY CommitLeaves DEF Commit, Rollback
<1>3. ASSUME NEW q \in Request, q # r, phase'[q] = "open" PROVE Known(q)'
  <2>1. ASSUME NEW i \in Rows(written[q]), Own(q, i) PROVE Own(q, i)'
    <3>1. i \notin Rows(written[r]) /\ db[i] = NoRow /\ i \in Id
      BY <1>3, <2>1 DEF Own, Mine, SignInv, FreshInv, Inv, TypeOK
    <3>2. \A p \in Request \ {q} : i \notin Rows(written'[p]) /\ i \notin todo'[p]
      BY <1>1, <2>1 DEF Own, Mine, Rows
    <3> QED  BY <1>2, <3>1, <3>2 DEF Own, Mine
  <2>2. \A i \in Id \ missed'[q] : i \notin missed[q] /\ db'[i] = db[i]
    <3>1. CASE Commit(r)
      <4>1. missed'[q] = missed[q] \cup Rows(written[r])
        BY <1>1, <1>3, <3>1 DEF Commit
      <4> QED  BY <1>2, <4>1
    <3>2. CASE Rollback(r)
      BY <1>3, <3>2 DEF Rollback, Inv, TypeOK
    <3> QED  BY <3>1, <3>2
  <2>3. Known(q)
    BY <1>1, <1>3 DEF KnownInv
  <2> QED  BY <1>1, <1>3, <2>1, <2>2, <2>3, KnownStays
<1> QED  BY <1>1, <1>3 DEF KnownInv

LEMMA KnownInit == Init => KnownInv
  BY DEF Init, KnownInv

LEMMA KnownNext == Inv /\ SignInv /\ KnownInv /\ [Next]_vars => KnownInv'
<1> SUFFICES ASSUME Inv, SignInv, KnownInv, [Next]_vars PROVE KnownInv'
  OBVIOUS
<1>1. ASSUME NEW r \in Request, CustomerCall(r) PROVE KnownInv'
  BY <1>1, CustomerKnown, SignOneKnown
<1>2. ASSUME NEW r \in Request, ContractCall(r) PROVE KnownInv'
  BY <1>2, ContractKnown
<1>3. ASSUME NEW r \in Request, TicketCall(r) PROVE KnownInv'
  BY <1>3, TicketKnown
<1>4. ASSUME NEW r \in Request, Commit(r) \/ Rollback(r) PROVE KnownInv'
  BY <1>4, CloseKnown
<1>5. CASE UNCHANGED vars
  <2>1. UNCHANGED <<db, phase, todo, mine, written, notes, missed>>
    BY <1>5 DEF vars
  <2>2. ASSUME NEW r \in Request, phase'[r] = "open" PROVE Known(r)'
    <3>1. Known(r) /\ \A i : Own(r, i) => Own(r, i)'
      BY <2>1, <2>2 DEF KnownInv, Own, Mine
    <3> QED  BY <2>1, <3>1, KnownStays
  <2> QED  BY <2>2 DEF KnownInv
<1> QED  BY <1>1, <1>2, <1>3, <1>4, <1>5 DEF Next

LEMMA KnownHolds == Spec => [](Inv /\ SignInv /\ KnownInv)
  BY InvInit, InvNext, SignInit, SignNext, KnownInit, KnownNext, PTL DEF Spec

-----------------------------------------------------------------------------
\* A row of which the call wrote only the column f is, but for it, as stored.
LEMMA OneColumn ==
  ASSUME Inv, NEW r \in Request, phase[r] = "open", NEW S, NEW f, f # "*",
         written[r] = S \X {f}, NEW i \in S, i \in Id \ missed[r], db[i] # NoRow
  PROVE  mine[r][i] = [g \in DOMAIN db[i] |-> IF g = f THEN mine[r][i][f] ELSE db[i][g]]
<1>1. Left(mine[r], written[r], i) = mine[r][i]
  BY DEF Inv, Unchanged
<1>2. i \in Rows(written[r])
  BY RowsOfColumn
<1>3. <<i, "*">> \notin written[r] /\ \A g : <<i, g>> \in written[r] <=> g = f
  OBVIOUS
<1>4. mine[r][i] = [g \in DOMAIN db[i] |-> IF <<i, g>> \in written[r] THEN mine[r][i][g] ELSE db[i][g]]
  BY <1>1, <1>2, <1>3 DEF Left
<1> QED  BY <1>3, <1>4

LEMMA CommitCreates ==
  ASSUME Inv, NEW r \in Request, Commit(r), NEW i \in Id, Creates(r, i)
  PROVE  SerialNext
<1> DEFINE x == mine[r][i]
<1>0. /\ db' = [j \in Id |-> IF j \in Rows(written[r]) THEN mine[r][j] ELSE db[j]]
      /\ KeysHold(db') /\ told' = told \cup notes[r]
      /\ db \in Database /\ mine[r] \in Database /\ Valid(mine[r])
  BY CommitStores
<1>1. Rows(written[r]) = {i} /\ db[i] = NoRow /\ x # NoRow
  BY RowsOfOne DEF Creates, Own, Mine
<1>2. db' = [db EXCEPT ![i] = x]
  BY <1>0, <1>1 DEF Database
<1>3. db'[i] = x
  BY <1>0, <1>1
<1>4. CASE i \in KhachHang /\ notes[r] = {}
  <2>1. x \in KhachHangRow
    BY <1>0, <1>1, <1>4 DEF Database
  <2> HIDE DEF x
  <2>2. AddCustomer(i, x)
    BY <1>0, <1>1, <1>2, <1>4 DEF AddCustomer, Stores
  <2> QED  BY <1>4, <2>1, <2>2 DEF SerialNext, SerialCustomer
<1>5. CASE i \in HopDong /\ notes[r] = {}
  <2>1. x \in HopDongRow
    BY <1>0, <1>1, <1>5 DEF Database
  <2>2. Validated(x, DOMAIN x)
    BY <1>0, <1>1, <1>5 DEF Valid, Live, Validated
  <2>3. x.khach_hang_id \in KhachHang /\ x.khach_hang_id # i /\ x.khach_hang_id \in Id
    BY <1>5, <2>1, IdAssumption DEF HopDongRow, Id
  <2>4. db[x.khach_hang_id] # NoRow
    BY <1>0, <1>1, <1>3, <1>5, <2>3 DEF KeysHold, Live
  <2> HIDE DEF x
  <2>5. AddContract(i, x)
    BY <1>0, <1>1, <1>2, <1>5, <2>2, <2>4 DEF AddContract, Stores
  <2> QED  BY <1>5, <2>1, <2>5 DEF SerialNext, SerialContract
<1>6. CASE i \in HoTro /\ notes[r] = NewNotes(i, mine[r][i].nhan_vien_id)
  <2>1. x \in HoTroRow
    BY <1>0, <1>1, <1>6 DEF Database
  <2>2. x.khach_hang_id \in KhachHang /\ x.khach_hang_id # i /\ x.khach_hang_id \in Id
        /\ x.nhan_vien_id \in NhanVien \cup {None}
    BY <1>6, <2>1, IdAssumption DEF HoTroRow, Id
  <2>3. db[x.khach_hang_id] # NoRow
    BY <1>0, <1>1, <1>3, <1>6, <2>2 DEF KeysHold, Live
  <2>4. x = [khach_hang_id |-> x.khach_hang_id, nhan_vien_id |-> x.nhan_vien_id]
    BY <2>1 DEF HoTroRow
  <2>5. notes[r] = NewNotes(i, x.nhan_vien_id)
    BY <1>6
  <2> HIDE DEF x
  <2>6. AddTicket(i, x.khach_hang_id, x.nhan_vien_id)
    BY <1>0, <1>1, <1>2, <2>3, <2>4, <2>5 DEF AddTicket, Stores
  <2> QED  BY <1>6, <2>2, <2>6 DEF SerialNext, SerialTicket
<1> QED  BY <1>4, <1>5, <1>6 DEF Creates

LEMMA CommitDeletes ==
  ASSUME Inv, NEW r \in Request, Commit(r), NEW S \in SUBSET Id, Deletes(r, S)
  PROVE  SerialNext
<1>0. /\ db' = [j \in Id |-> IF j \in Rows(written[r]) THEN mine[r][j] ELSE db[j]]
      /\ KeysHold(db') /\ told' = told \cup notes[r]
      /\ Rows(written[r]) \cap missed[r] = {} /\ db \in Database
  BY CommitStores
<1>1. Rows(written[r]) = S
  BY RowsOfColumn DEF Deletes
<1>2. /\ \A i \in S : db[i] # NoRow
      /\ \A i \in S : mine[r][i] = NoRow
      /\ told' = told \cup {}
  BY <1>0, <1>1 DEF Deletes, There
<1>3. db' = [i \in Id |-> IF i \in S THEN NoRow ELSE db[i]]
  BY <1>0, <1>1, <1>2
<1>4. ASSUME NEW i \in HopDong \cup HoTro, S = {i} PROVE SerialNext
  <2>1. db' = [db EXCEPT ![i] = NoRow]
    BY <1>0, <1>3, <1>4 DEF Database
  <2>2. Remove(i)
    BY <1>2, <1>4, <2>1 DEF Remove, Stores
  <2> QED  BY <2>2 DEF SerialNext, SerialContract, SerialTicket
<1>5. ASSUME NEW k \in KhachHang \cap S, S \ {k} \subseteq HopDong,
             \A h \in (S \ {k}) \ missed[r] : db[h].khach_hang_id = k
      PROVE  SerialNext
  <2>1. \A h \in S \ {k} : db[h].khach_hang_id = k /\ db[h] # NoRow
    BY <1>0, <1>1, <1>2, <1>5
  <2>2. db'[k] = NoRow
    BY <1>3
  <2>3. ASSUME NEW i \in Live(db, HopDong \cup HoTro), db[i].khach_hang_id = k PROVE i \in S
    <3>1. CASE i \notin S
      <4>1. i \in Id /\ db'[i] = db[i] /\ db[i] # NoRow
        BY <1>3, <3>1 DEF Live, Id
      <4>2. i \in Live(db', HopDong \cup HoTro)
        BY <4>1 DEF Live
      <4>3. db'[db'[i].khach_hang_id] # NoRow
        BY <1>0, <4>2 DEF KeysHold
      <4> QED  BY <2>2, <2>3, <4>1, <4>3
    <3> QED  BY <3>1
  <2>4. S = Cascaded(k)
    <3>1. \A h \in Live(db, HopDong) : h \in Live(db, HopDong \cup HoTro)
      BY DEF Live
    <3>2. Cascaded(k) \subseteq S
      BY <2>3, <3>1 DEF Cascaded
    <3>3. S \subseteq Cascaded(k)
      BY <1>5, <2>1 DEF Cascaded, Live
    <3> QED  BY <3>2, <3>3
  <2>5. \A t \in Live(db, HoTro) : db[t].khach_hang_id # k
    <3>1. \A t \in Live(db, HoTro) : t \in Live(db, HopDong \cup HoTro) /\ t \notin S
      BY <1>5, IdAssumption DEF Live
    <3> QED  BY <2>3, <3>1
  <2>6. RemoveCustomer(k)
    BY <1>2, <1>3, <2>4, <2>5 DEF RemoveCustomer, Stores
  <2> QED  BY <2>6 DEF SerialNext, SerialCustomer
<1> QED  BY <1>4, <1>5 DEF Deletes

LEMMA CommitEdits ==
  ASSUME Inv, NEW r \in Request, Commit(r), NEW S \in SUBSET Id, NEW F, Edits(r, S, F)
  PROVE  SerialNext \/ UNCHANGED <<db, told>>
<1>0. /\ db' = [j \in Id |-> IF j \in Rows(written[r]) THEN mine[r][j] ELSE db[j]]
      /\ KeysHold(db') /\ told' = told \cup notes[r]
      /\ phase[r] = "open" /\ Rows(written[r]) \cap missed[r] = {}
      /\ db \in Database /\ mine[r] \in Database /\ Valid(mine[r])
  BY CommitStores
<1>1. written[r] = S \X F /\ \A i \in S : mine[r][i] # NoRow
  BY DEF Edits
<1>2. ASSUME NEW f, F = {f}, f # "*"
      PROVE  /\ Rows(written[r]) = S /\ \A i \in S : db[i] # NoRow
             /\ \A i \in S : mine[r][i] = [g \in DOMAIN db[i] |-> IF g = f THEN mine[r][i][f] ELSE db[i][g]]
  <2>1. Rows(written[r]) = S
    BY <1>1, <1>2, RowsOfColumn
  <2>2. \A i \in S : db[i] # NoRow /\ i \in Id \ missed[r]
    BY <1>0, <2>1 DEF Edits, There
  <2>3. written[r] = S \X {f}
    BY <1>1, <1>2
  <2>4. ASSUME NEW i \in S
        PROVE  mine[r][i] = [g \in DOMAIN db[i] |-> IF g = f THEN mine[r][i][f] ELSE db[i][g]]
    BY <1>0, <1>2, <2>2, <2>3, OneColumn
  <2> QED  BY <2>1, <2>2, <2>4
<1>3. ASSUME F = {"doanh_thu_tiem_nang"}, notes[r] = {}, NEW k \in KhachHang, S = {k}
      PROVE  SerialNext
  <2>1. /\ Rows(written[r]) = {k} /\ db[k] # NoRow /\ k \in Id
        /\ mine[r][k] = [g \in DOMAIN db[k] |-> IF g = "doanh_thu_tiem_nang" THEN mine[r][k]["doanh_thu_tiem_nang"] ELSE db[k][g]]
    BY <1>2, <1>3 DEF Id
  <2>2. db[k] \in KhachHangRow /\ mine[r][k] \in KhachHangRow
    BY <1>0, <1>1, <1>3, <2>1 DEF Database
  <2>3. mine[r][k].doanh_thu_tiem_nang \in GiaTri
    BY <2>2 DEF KhachHangRow
  <2>4. mine[r][k] = [db[k] EXCEPT !.doanh_thu_tiem_nang = mine[r][k].doanh_thu_tiem_nang]
    BY <2>1, <2>2 DEF KhachHangRow
  <2>5. db' = [db EXCEPT ![k] = mine[r][k]]
    BY <1>0, <2>1 DEF Database
  <2>6. SetRevenue(k, mine[r][k].doanh_thu_tiem_nang)
    BY <1>0, <1>3, <2>1, <2>4, <2>5 DEF SetRevenue, Stores
  <2> QED  BY <2>3, <2>6 DEF SerialNext, SerialCustomer
<1>4. ASSUME F = {"giai_doan"}, notes[r] = {}, S # {}, S \subseteq KhachHang,
             NEW stage \in GiaiDoan, \A k \in S : mine[r][k].giai_doan = stage
      PROVE  SerialNext
  <2>1. /\ Rows(written[r]) = S /\ \A k \in S : db[k] # NoRow
        /\ \A k \in S : mine[r][k] = [g \in DOMAIN db[k] |-> IF g = "giai_doan" THEN mine[r][k]["giai_doan"] ELSE db[k][g]]
    BY <1>2, <1>4
  <2>2. \A k \in S : mine[r][k] = [db[k] EXCEPT !.giai_doan = stage]
    <3> SUFFICES ASSUME NEW k \in S PROVE mine[r][k] = [db[k] EXCEPT !.giai_doan = stage]
      OBVIOUS
    <3>1. db[k] \in KhachHangRow
      BY <1>0, <1>4, <2>1 DEF Database
    <3> QED  BY <1>4, <2>1, <3>1 DEF KhachHangRow
  <2>3. db' = [i \in Id |-> IF i \in S THEN [db[i] EXCEPT !.giai_doan = stage] ELSE db[i]]
    BY <1>0, <2>1, <2>2
  <2>4. MoveTo(S, stage)
    BY <1>0, <1>4, <2>1, <2>3 DEF MoveTo, Stores, Live
  <2> QED  BY <1>4, <2>4 DEF SerialNext, SerialCustomer
<1>5. ASSUME F \in Changes, notes[r] = {}, NEW h \in HopDong, S = {h}
      PROVE  SerialNext \/ UNCHANGED <<db, told>>
  <2>1. CASE F = {}
    <3>1. Rows(written[r]) = {} /\ told' = told
      BY <1>0, <1>1, <1>5, <2>1 DEF Rows
    <3>2. db' = db
      BY <1>0, <3>1 DEF Database
    <3> QED  BY <3>1, <3>2
  <2>2. CASE F # {}
    <3> DEFINE x == mine[r][h]
    <3>1. Rows(written[r]) = {h}
      <4>1. PICK f \in F : <<h, f>> \in written[r]
        BY <1>1, <1>5, <2>2
      <4>2. \A w \in written[r] : w[1] = h
        BY <1>1, <1>5
      <4>3. h \in Rows(written[r])
        BY <4>1, RowOf
      <4> QED  BY <4>2, <4>3 DEF Rows
    <3>2. db[h] # NoRow /\ x # NoRow /\ h \in Id /\ h \notin missed[r]
      BY <1>0, <1>1, <1>5, <3>1 DEF Edits, There, Id
    <3>3. db[h] \in HopDongRow /\ x \in HopDongRow
      BY <1>0, <1>5, <3>2 DEF Database
    <3>4. x = Overwritten(db[h], F, x)
      <4>1. Left(mine[r], written[r], h) = x
        BY <1>0, <3>2 DEF Inv, Unchanged
      <4>2. \A f : <<h, f>> \in written[r] <=> f \in F
        BY <1>1, <1>5
      <4>3. "*" \notin F
        BY <1>5, ChangesAssumption
      <4> QED  BY <3>1, <3>2, <4>1, <4>2, <4>3 DEF Left, Overwritten
    <3>5. db' = [db EXCEPT ![h] = x] /\ db'[h] = x
      BY <1>0, <3>1, <3>2 DEF Database
    <3>6. x.khach_hang_id \in Id /\ x.khach_hang_id # h
      BY <3>3, IdAssumption DEF HopDongRow, Id
    <3>7. db[x.khach_hang_id] # NoRow
      BY <1>0, <3>1, <3>2, <3>5, <3>6 DEF KeysHold, Live
    <3>8. Validated(x, F)
      BY <1>0, <3>2 DEF Valid, Live, Validated
    <3> HIDE DEF x
    <3>9. EditContract(h, F, x)
      BY <1>0, <1>5, <3>2, <3>4, <3>5, <3>7, <3>8 DEF EditContract, Stores
    <3> QED  BY <1>5, <3>3, <3>9 DEF SerialNext, SerialContract
  <2> QED  BY <2>1, <2>2
<1>6. ASSUME F = {"khach_hang_id"}, notes[r] = {}, NEW t \in HoTro, S = {t}
      PROVE  SerialNext
  <2>1. /\ Rows(written[r]) = {t} /\ db[t] # NoRow /\ t \in Id
        /\ mine[r][t] = [g \in DOMAIN db[t] |-> IF g = "khach_hang_id" THEN mine[r][t]["khach_hang_id"] ELSE db[t][g]]
    <3>1. t \in S /\ t \in Id /\ "khach_hang_id" # "*"
      BY <1>6 DEF Id
    <3> QED  BY <1>2, <1>6, <3>1
  <2>2. db[t] \in HoTroRow /\ mine[r][t] \in HoTroRow /\ mine[r][t] # NoRow
    BY <1>0, <1>1, <1>6, <2>1 DEF Database
  <2>3. PICK k \in KhachHang : k = mine[r][t].khach_hang_id
    BY <2>2 DEF HoTroRow
  <2>4. mine[r][t] = [db[t] EXCEPT !.khach_hang_id = k]
    BY <2>1, <2>2, <2>3 DEF HoTroRow
  <2>5. db' = [db EXCEPT ![t] = mine[r][t]] /\ db'[t] = mine[r][t]
    BY <1>0, <2>1 DEF Database
  <2>6. db[k] # NoRow
    <3>1. k # t /\ k \in Id
      BY <1>6, IdAssumption DEF Id
    <3> QED  BY <1>0, <1>6, <2>1, <2>2, <2>3, <2>5, <3>1 DEF KeysHold, Live
  <2>7. ChangeCustomer(t, k)
    BY <1>0, <1>6, <2>1, <2>4, <2>5, <2>6 DEF ChangeCustomer, Stores
  <2> QED  BY <1>6, <2>3, <2>7 DEF SerialNext, SerialTicket
<1>7. ASSUME F = {"nhan_vien_id"}, S # {}, S \subseteq HoTro, NEW n \in NhanVien \cup {None},
             notes[r] = Notes(S, n), \A t \in S : mine[r][t].nhan_vien_id = n
      PROVE  SerialNext
  <2>1. /\ Rows(written[r]) = S /\ \A t \in S : db[t] # NoRow
        /\ \A t \in S : mine[r][t] = [g \in DOMAIN db[t] |-> IF g = "nhan_vien_id" THEN mine[r][t]["nhan_vien_id"] ELSE db[t][g]]
    BY <1>2, <1>7
  <2>2. \A t \in S : mine[r][t] = [db[t] EXCEPT !.nhan_vien_id = n]
    <3> SUFFICES ASSUME NEW t \in S PROVE mine[r][t] = [db[t] EXCEPT !.nhan_vien_id = n]
      OBVIOUS
    <3>1. db[t] \in HoTroRow
      BY <1>0, <1>7, <2>1 DEF Database
    <3> QED  BY <1>7, <2>1, <3>1 DEF HoTroRow
  <2>3. db' = [i \in Id |-> IF i \in S THEN [db[i] EXCEPT !.nhan_vien_id = n] ELSE db[i]]
    BY <1>0, <2>1, <2>2
  <2>4. Reassign(S, n)
    BY <1>0, <1>7, <2>1, <2>3 DEF Reassign, Stores, Live
  <2> QED  BY <1>7, <2>4 DEF SerialNext, SerialTicket
<1> QED  BY <1>3, <1>4, <1>5, <1>6, <1>7 DEF Edits

\* The whole call, at its commit.
LEMMA CommitSerial ==
  ASSUME Inv, SignInv, KnownInv, NEW r \in Request, Commit(r), Signs(r), notes[r] = {}
  PROVE  SerialNext
<1> DEFINE K == Staged(r)
           H == Made(r)
           customer == [h \in H |-> mine[r][h].khach_hang_id]
<1>0. /\ db' = [j \in Id |-> IF j \in Rows(written[r]) THEN mine[r][j] ELSE db[j]]
      /\ told' = told \cup notes[r] /\ todo[r] = {} /\ Valid(mine[r])
  BY CommitStores
<1>1. K # {} /\ H # {} /\ K \subseteq KhachHang /\ H \subseteq HopDong
  BY <1>0 DEF Signs, Staged, Made
<1>2. /\ Rows(written[r]) = K \cup H
      /\ \A k \in K : db[k] # NoRow /\ mine[r][k] = [db[k] EXCEPT !.giai_doan = "ky_hop_dong"]
      /\ \A h \in H : db[h] = NoRow /\ mine[r][h] \in HopDongRow
  BY CommitSigns
<1>3. ASSUME NEW h \in H
      PROVE  customer[h] \in K /\ mine[r][h] = Signed(customer[h], db[customer[h]].doanh_thu_tiem_nang)
  <2>1. PICK k \in K : mine[r][h] = Signed(k, db[k].doanh_thu_tiem_nang)
    BY CommitSigns
  <2>2. mine[r][h].khach_hang_id = k
    BY <2>1 DEF Signed
  <2> QED  BY <2>1, <2>2
<1>4. \A k \in K : \E h \in H : \A g \in H : customer[g] = k <=> g = h
  BY DEF SignInv, Signing
<1>5. ASSUME NEW k \in K PROVE ValueValid(Signed(k, db[k].doanh_thu_tiem_nang))
  <2>1. PICK h \in H : customer[h] = k
    BY <1>4
  <2>2. h \in Live(mine[r], HopDong)
    BY <1>1, <1>2, RowAssumption DEF Live
  <2> QED  BY <1>0, <1>3, <2>1, <2>2 DEF Valid
<1>6. customer \in [H -> K]
  BY <1>3
<1>7. \A i \in H : i \notin K
  BY <1>1, IdAssumption
<1> HIDE DEF K, H, customer
<1>8. db' = [i \in Id |->
               IF i \in K THEN [db[i] EXCEPT !.giai_doan = "ky_hop_dong"]
               ELSE IF i \in H THEN Signed(customer[i], db[customer[i]].doanh_thu_tiem_nang)
               ELSE db[i]]
  BY <1>0, <1>2, <1>3, <1>7
<1>9. Sign(K, H, customer)
  BY <1>0, <1>1, <1>2, <1>4, <1>5, <1>8 DEF Sign, Stores, Live
<1> QED  BY <1>1, <1>6, <1>9 DEF SerialNext, SerialCustomer

\* Only a commit shows, and it does what one call alone does.
LEMMA StepSerial ==
  ASSUME Inv, SignInv, KnownInv, [Next]_vars
  PROVE  [SerialNext]_<<db, told>>
<1>1. ASSUME NEW r \in Request, Commit(r) PROVE [SerialNext]_<<db, told>>
  <2>1. Known(r)
    BY <1>1 DEF KnownInv, Commit
  <2> QED  BY <1>1, <2>1, CommitCreates, CommitEdits, CommitDeletes, CommitSerial DEF Known
<1>2. ASSUME NEW r \in Request, CustomerCall(r) PROVE UNCHANGED <<db, told>>
  BY <1>2 DEF CustomerCall, NewCustomer, SaveCustomer, SetStage, SetContract, SignOne, DeleteCustomer, Start
<1>3. ASSUME NEW r \in Request, ContractCall(r) \/ TicketCall(r) PROVE UNCHANGED <<db, told>>
  BY <1>3 DEF ContractCall, TicketCall, NewContract, SaveContract, DeleteRow, NewTicket, MoveTicket,
              Assign, Start
<1>4. ASSUME NEW r \in Request, Rollback(r) PROVE UNCHANGED <<db, told>>
  BY <1>4 DEF Rollback
<1>5. CASE UNCHANGED vars
  BY <1>5 DEF vars
<1> QED  BY <1>1, <1>2, <1>3, <1>4, <1>5 DEF Next

-----------------------------------------------------------------------------
\* The rows of customers, contracts and tickets keep their types, and so do
\* the records of every open call, for any number of them.
THEOREM TypeCorrect == Spec => []TypeOK
  BY InvHolds, PTL DEF Inv

\* Every stored contract ends after it starts and has a positive value,
\* although its constraints are checked by single calls on their snapshots:
\* a save that overlaps fails on the row it updates (hop_dong.py).
THEOREM ContractsStayValid == Spec => []ContractsValid
  BY InvHolds, PTL DEF Inv

\* Whoever a stored ticket is assigned to and has a user was told of it by a
\* call that was kept (ho_tro.py).
THEOREM AssigneesTold == Spec => []AssigneeTold
  BY InvHolds, PTL DEF Inv

\* action_set_contract signs all the customers it was called on or none: if it
\* stores anything, each of them has one contract more, of the value its revenue
\* has when the call commits, for any number of customers, contracts and
\* overlapping calls (khach_hang.py).
THEOREM CustomersSigned == Spec => SignedWhole
<1>1. ASSUME [Next]_vars, NEW r \in Request, phase[r] = "open", phase'[r] = "idle", db' # db, Inv
      PROVE  Commit(r)
  <2>1. PICK q \in Request : Commit(q)
    <3>1. PICK q \in Request : CustomerCall(q) \/ ContractCall(q) \/ TicketCall(q) \/ Commit(q) \/ Rollback(q)
      BY <1>1 DEF Next, vars
    <3>2. ~CustomerCall(q)
      BY <1>1 DEF CustomerCall, NewCustomer, SaveCustomer, SetStage, SetContract, SignOne, DeleteCustomer, Start
    <3>3. ~ContractCall(q) /\ ~TicketCall(q)
      BY <1>1 DEF ContractCall, TicketCall, NewContract, SaveContract, DeleteRow, NewTicket, MoveTicket,
                  Assign, Start
    <3>4. ~Rollback(q)
      BY <1>1 DEF Rollback
    <3> QED  BY <3>1, <3>2, <3>3, <3>4
  <2>2. q = r
    BY <1>1, <2>1 DEF Commit, Close, Inv, TypeOK
  <2> QED  BY <2>1, <2>2
<1>2. ASSUME Inv, SignInv, AskedInv, [Next]_vars PROVE \A r \in Request : CommitsWhole(r)
  <2> SUFFICES ASSUME NEW r \in Request, phase[r] = "open", phase'[r] = "idle", db' # db,
                      asked[r] # {}, NEW k \in asked[r]
               PROVE  /\ db'[k].giai_doan = "ky_hop_dong"
                      /\ Cardinality(Contracts(db', k) \ Contracts(db, k)) = 1
                      /\ \A h \in Contracts(db', k) \ Contracts(db, k) :
                           db'[h].gia_tri_hop_dong = db[k].doanh_thu_tiem_nang
    BY DEF CommitsWhole
  <2>1. Commit(r)
    BY <1>1, <1>2
  <2>0. Made(r) # {} /\ k \in Staged(r)
    BY <1>2, <2>1 DEF AskedInv, Commit, LoopOver
  <2>2. PICK h \in HopDong :
          /\ Contracts(db', k) \ Contracts(db, k) = {h}
          /\ db'[h].gia_tri_hop_dong = db[k].doanh_thu_tiem_nang
    BY <1>2, <2>0, <2>1, CommitSigned
  <2>3. Cardinality({h}) = 1
    BY FS_Singleton
  <2> QED  BY <1>2, <2>0, <2>1, <2>2, <2>3, CommitSigned
<1> QED  BY <1>2, SignHolds, PTL DEF Spec, SignedWhole

\* However calls overlap, what is stored and told is what the same calls do one
\* after the other, in the order in which they commit: HopDong implements
\* HopDongSerial, for any number of requests and records.
THEOREM CallsSerial == Spec => SerialSpec
<1>1. Init => SerialInit
  BY DEF Init, SerialInit
<1> QED  BY <1>1, KnownHolds, StepSerial, PTL DEF Spec, SerialSpec
=============================================================================

---------------------------- MODULE HopDongSerial ----------------------------
(***************************************************************************)
(* Customers, their contracts and their support tickets, as calls that are *)
(* made one after the other change them (src/addons/khach_hang/models:     *)
(* khach_hang.py, hop_dong.py, ho_tro.py).  Each step is a whole call.     *)
(*                                                                         *)
(* This is what a user expects of a call.  HopDong is what becomes of it   *)
(* where calls overlap, and implements it.                                 *)
(***************************************************************************)
EXTENDS Naturals

CONSTANTS
  KhachHang,    \* database ids of customers,
  HopDong,      \* of contracts
  HoTro,        \* and of tickets; an id is never used again
  NhanVien,     \* employees a ticket may be assigned to
  TaiKhoan,     \* those of them that have a user
  GiaTri,       \* revenues and values of contracts
  Ngay,         \* days
  Today,        \* the day it is
  Changes,      \* bound: the sets of fields of a contract one save may change
  None,         \* the field is empty
  NoRow         \* there is no such record

ASSUME IdAssumption ==
  /\ KhachHang \cap HopDong = {} /\ KhachHang \cap HoTro = {} /\ HopDong \cap HoTro = {}
  /\ None \notin NhanVien \cup Ngay
ASSUME NumberAssumption ==
  GiaTri \subseteq Nat /\ Ngay \subseteq Nat /\ Today \in Ngay
ASSUME ChangesAssumption ==
  Changes \subseteq SUBSET {"khach_hang_id", "gia_tri_hop_dong", "ngay_bat_dau", "ngay_ket_thuc"}
ASSUME AccountAssumption == TaiKhoan \subseteq NhanVien

VARIABLES
  db,           \* the committed records
  told          \* employees told of a ticket, by committed calls

Id == KhachHang \cup HopDong \cup HoTro

\* No method tests a stage: those other than 'ky_hop_dong' are one here.
GiaiDoan == {"khac", "ky_hop_dong"}

KhachHangRow == [giai_doan : GiaiDoan, doanh_thu_tiem_nang : GiaTri]
HopDongRow   == [khach_hang_id : KhachHang, gia_tri_hop_dong : GiaTri,
                 ngay_bat_dau : Ngay, ngay_ket_thuc : Ngay \cup {None}]
HoTroRow     == [khach_hang_id : KhachHang, nhan_vien_id : NhanVien \cup {None}]

ASSUME RowAssumption == NoRow \notin KhachHangRow \cup HopDongRow \cup HoTroRow

Database == {d \in [Id -> KhachHangRow \cup HopDongRow \cup HoTroRow \cup {NoRow}] :
               /\ \A k \in KhachHang : d[k] \in KhachHangRow \cup {NoRow}
               /\ \A h \in HopDong : d[h] \in HopDongRow \cup {NoRow}
               /\ \A t \in HoTro : d[t] \in HoTroRow \cup {NoRow}}

Live(d, S) == {i \in S : d[i] # NoRow}

\* The foreign keys: every reference is to a customer that is there.
KeysHold(d) ==
  \A i \in Live(d, HopDong \cup HoTro) : d[d[i].khach_hang_id] # NoRow

-----------------------------------------------------------------------------
(* Constraints of a contract *)

\* _check_ngay_hop_dong
DatesValid(x) == x.ngay_ket_thuc # None => x.ngay_ket_thuc > x.ngay_bat_dau

\* _check_gia_tri
ValueValid(x) == x.gia_tri_hop_dong > 0

\* Mutant of Validated: the end is missing in @api.constrains of the dates.
Validated_StartOnly(x, F) ==
  /\ "ngay_bat_dau" \in F => DatesValid(x)
  /\ "gia_tri_hop_dong" \in F => ValueValid(x)

\* _validate_fields: the checks declared on one of the fields F a call wrote.
Validated(x, F) ==
  /\ F \cap {"ngay_bat_dau", "ngay_ket_thuc"} # {} => DatesValid(x)
  /\ "gia_tri_hop_dong" \in F => ValueValid(x)

-----------------------------------------------------------------------------
(* Customers *)

SerialInit ==
  /\ \E K \in SUBSET KhachHang : \E revenue \in [K -> GiaTri] :
       db = [i \in Id |->
               IF i \in K THEN [giai_doan |-> "khac", doanh_thu_tiem_nang |-> revenue[i]]
                          ELSE NoRow]
  /\ told = {}

\* A call stores the records d and tells N.
Stores(d, N) == db' = d /\ told' = told \cup N

\* The form of a new customer has the stage of the menu it is opened from.
AddCustomer(k, x) ==
  /\ db[k] = NoRow
  /\ Stores([db EXCEPT ![k] = x], {})

SetRevenue(k, revenue) ==
  /\ db[k] # NoRow
  /\ Stores([db EXCEPT ![k].doanh_thu_tiem_nang = revenue], {})

\* action_set_done, action_set_fail and the status bar.
MoveTo(K, stage) ==
  /\ K # {} /\ K \subseteq Live(db, KhachHang)
  /\ Stores([i \in Id |-> IF i \in K THEN [db[i] EXCEPT !.giai_doan = stage] ELSE db[i]], {})

\* The contract it makes.  It has no end: the onchange is one of the form.
Signed(k, revenue) ==
  [khach_hang_id |-> k, gia_tri_hop_dong |-> revenue,
   ngay_bat_dau |-> Today, ngay_ket_thuc |-> None]

\* action_set_contract on the customers K: each has one of the contracts H, if
\* all of them have a revenue.
Sign(K, H, customer) ==
  /\ K # {} /\ K \subseteq Live(db, KhachHang)
  /\ \A h \in H : db[h] = NoRow
  /\ \A k \in K : \E h \in H : \A g \in H : customer[g] = k <=> g = h
  /\ \A k \in K : ValueValid(Signed(k, db[k].doanh_thu_tiem_nang))
  /\ Stores([i \in Id |->
               IF i \in K THEN [db[i] EXCEPT !.giai_doan = "ky_hop_dong"]
               ELSE IF i \in H THEN Signed(customer[i], db[customer[i]].doanh_thu_tiem_nang)
               ELSE db[i]], {})

\* What goes with a customer (ondelete='cascade').
Cascaded(k) == {k} \cup {h \in Live(db, HopDong) : db[h].khach_hang_id = k}

\* A ticket keeps its customer: its reference is required, hence 'restrict'.
RemoveCustomer(k) ==
  /\ db[k] # NoRow
  /\ \A t \in Live(db, HoTro) : db[t].khach_hang_id # k
  /\ Stores([i \in Id |-> IF i \in Cascaded(k) THEN NoRow ELSE db[i]], {})

-----------------------------------------------------------------------------
(* Contracts and tickets *)

AddContract(h, x) ==
  /\ db[h] = NoRow
  /\ db[x.khach_hang_id] # NoRow
  /\ Validated(x, DOMAIN x)
  /\ Stores([db EXCEPT ![h] = x], {})

Overwritten(x, F, new) == [f \in DOMAIN x |-> IF f \in F THEN new[f] ELSE x[f]]

EditContract(h, F, new) ==
  /\ db[h] # NoRow
  /\ db[Overwritten(db[h], F, new).khach_hang_id] # NoRow
  /\ Validated(Overwritten(db[h], F, new), F)
  /\ Stores([db EXCEPT ![h] = Overwritten(@, F, new)], {})

Remove(i) ==
  /\ db[i] # NoRow
  /\ Stores([db EXCEPT ![i] = NoRow], {})

\* Mutant of Notes: whether the employee has a user is not asked.
Notes_Anyone(T, n) == T \X {n}

\* Whom a write of the assignee n on the tickets T tells: the user of the
\* employee, if there is one.
Notes(T, n) == IF n \in TaiKhoan THEN T \X {n} ELSE {}

\* Mutant of NewNotes: create is not overridden.
NewNotes_Create(t, n) == {}

\* create calls write once more with the assignee, to have him told.
NewNotes(t, n) == Notes({t}, n)

AddTicket(t, k, n) ==
  /\ db[t] = NoRow /\ db[k] # NoRow
  /\ Stores([db EXCEPT ![t] = [khach_hang_id |-> k, nhan_vien_id |-> n]], NewNotes(t, n))

Reassign(T, n) ==
  /\ T # {} /\ T \subseteq Live(db, HoTro)
  /\ Stores([i \in Id |-> IF i \in T THEN [db[i] EXCEPT !.nhan_vien_id = n] ELSE db[i]], Notes(T, n))

ChangeCustomer(t, k) ==
  /\ db[t] # NoRow /\ db[k] # NoRow
  /\ Stores([db EXCEPT ![t].khach_hang_id = k], {})

-----------------------------------------------------------------------------
SerialCustomer ==
  \/ \E k \in KhachHang, x \in KhachHangRow : AddCustomer(k, x)
  \/ \E k \in KhachHang, revenue \in GiaTri : SetRevenue(k, revenue)
  \/ \E K \in SUBSET KhachHang, stage \in GiaiDoan : MoveTo(K, stage)
  \/ \E K \in SUBSET KhachHang, H \in SUBSET HopDong : \E customer \in [H -> K] : Sign(K, H, customer)
  \/ \E k \in KhachHang : RemoveCustomer(k)

SerialContract ==
  \E h \in HopDong :
    \/ \E x \in HopDongRow : AddContract(h, x)
    \/ \E x \in HopDongRow : \E F \in Changes : EditContract(h, F, x)
    \/ Remove(h)

SerialTicket ==
  \/ \E t \in HoTro, k \in KhachHang :
       (\E n \in NhanVien \cup {None} : AddTicket(t, k, n)) \/ ChangeCustomer(t, k)
  \/ \E T \in SUBSET HoTro, n \in NhanVien \cup {None} : Reassign(T, n)
  \/ \E t \in HoTro : Remove(t)

SerialNext == SerialCustomer \/ SerialContract \/ SerialTicket

SerialSpec == SerialInit /\ [][SerialNext]_<<db, told>>
=============================================================================

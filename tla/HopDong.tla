------------------------------- MODULE HopDong -------------------------------
(***************************************************************************)
(* Customers, their contracts and their support tickets, as concurrent     *)
(* calls change them (src/addons/khach_hang/models: khach_hang.py,         *)
(* hop_dong.py, ho_tro.py).                                                *)
(*                                                                         *)
(* A call works on the snapshot it takes when it starts; what it updates   *)
(* are single columns of rows.  When it commits, a row that was updated    *)
(* since the snapshot fails it (REPEATABLE READ), and so does a reference  *)
(* the foreign keys refuse; it may then be made again.  The constraints of *)
(* a contract are checked in Python, by the call, on its snapshot, and     *)
(* only those declared on a field the call writes.                         *)
(*                                                                         *)
(* Left out: the numbers (IrSequence), texts, the two states a contract    *)
(* has (no method tests them), and the mail of a contract, which reads it. *)
(***************************************************************************)
EXTENDS HopDongSerial, FiniteSets

CONSTANTS
  Request,      \* RPC requests
  MaxCalls      \* bound: calls made, again or for the first time

ASSUME BoundAssumption == MaxCalls \in Nat

VARIABLES
  seen,         \* ids given out so far
  phase,        \* of each request
  todo,         \* customers an open request has yet to sign
  mine,         \* the records as the open request sees them
  written,      \* columns it updated, rows it created or deleted
  notes,        \* whom it told of which ticket
  missed,       \* records changed by commits it cannot see
  calls,
  asked         \* history: customers the open call was to sign

vars == <<db, seen, told, phase, todo, mine, written, notes, missed, calls, asked>>

Field  == {"giai_doan", "doanh_thu_tiem_nang", "khach_hang_id", "gia_tri_hop_dong",
           "ngay_bat_dau", "ngay_ket_thuc", "nhan_vien_id", "*"}

NoDb == [i \in Id |-> NoRow]

-----------------------------------------------------------------------------
(* Transactions *)

Init ==
  /\ \E K \in SUBSET KhachHang : \E revenue \in [K -> GiaTri] :
       /\ db   = [i \in Id |->
                    IF i \in K THEN [giai_doan |-> "khac", doanh_thu_tiem_nang |-> revenue[i]]
                               ELSE NoRow]
       /\ seen = K
  /\ told    = {}
  /\ phase   = [r \in Request |-> "idle"]
  /\ todo    = [r \in Request |-> {}]
  /\ mine    = [r \in Request |-> NoDb]
  /\ written = [r \in Request |-> {}]
  /\ notes   = [r \in Request |-> {}]
  /\ missed  = [r \in Request |-> {}]
  /\ calls   = 0
  /\ asked   = [r \in Request |-> {}]

\* A call starts: it sees the records d after its first statements, which
\* wrote W and told N, and has yet to sign the customers K.
Start(r, d, W, N, K) ==
  /\ phase[r] = "idle"
  /\ calls < MaxCalls
  /\ calls'   = calls + 1
  /\ phase'   = [phase EXCEPT ![r] = "open"]
  /\ todo'    = [todo EXCEPT ![r] = K]
  /\ asked'   = [asked EXCEPT ![r] = K]
  /\ mine'    = [mine EXCEPT ![r] = d]
  /\ written' = [written EXCEPT ![r] = W]
  /\ notes'   = [notes EXCEPT ![r] = N]
  /\ missed'  = [missed EXCEPT ![r] = {}]
  /\ UNCHANGED <<db, told>>

Rows(W) == {w[1] : w \in W}

\* An UPDATE sets the columns the call wrote, and leaves the others.
Merged(r) ==
  [i \in Id |->
     IF i \notin Rows(written[r]) THEN db[i]
     ELSE IF db[i] = NoRow \/ <<i, "*">> \in written[r] THEN mine[r][i]
     ELSE [f \in DOMAIN db[i] |-> IF <<i, f>> \in written[r] THEN mine[r][i][f] ELSE db[i][f]]]

\* Mutant of Committable: READ COMMITTED, an update waits and then goes ahead.
Committable_ReadCommitted(r) ==
  /\ \A i \in Rows(written[r]) : mine[r][i] # NoRow /\ i \in missed[r] => db[i] # NoRow
  /\ KeysHold(Merged(r))

\* No row the call updates or deletes has been updated or deleted since.
Committable(r) ==
  /\ Rows(written[r]) \cap missed[r] = {}
  /\ KeysHold(Merged(r))

Close(r) ==
  /\ phase'   = [phase EXCEPT ![r] = "idle"]
  /\ todo'    = [todo EXCEPT ![r] = {}]
  /\ asked'   = [asked EXCEPT ![r] = {}]
  /\ mine'    = [mine EXCEPT ![r] = NoDb]
  /\ written' = [written EXCEPT ![r] = {}]
  /\ notes'   = [notes EXCEPT ![r] = {}]

\* Mutant of LoopOver: a customer without revenue is passed over.
LoopOver_PassesOver(r) ==
  \A k \in todo[r] : ~ValueValid(Signed(k, mine[r][k].doanh_thu_tiem_nang))

\* `for rec in self' has come to its end.
LoopOver(r) == todo[r] = {}

Commit(r) ==
  /\ phase[r] = "open"
  /\ LoopOver(r)
  /\ Committable(r)
  /\ Close(r)
  /\ db'     = Merged(r)
  /\ told'   = told \cup notes[r]
  /\ missed' = [q \in Request |-> IF q # r /\ phase[q] = "open"
                                   THEN missed[q] \cup Rows(written[r]) ELSE {}]
  /\ UNCHANGED <<seen, calls>>

\* An error of the call, or a conflict: nothing is kept but the ids it used.
Rollback(r) ==
  /\ phase[r] = "open"
  /\ Close(r)
  /\ missed' = [missed EXCEPT ![r] = {}]
  /\ UNCHANGED <<db, seen, told, calls>>

-----------------------------------------------------------------------------
(* Customers *)

\* The form of a new customer has the stage of the menu it is opened from.
NewCustomer(r, k, x) ==
  /\ k \notin seen
  /\ seen' = seen \cup {k}
  /\ Start(r, [db EXCEPT ![k] = x], {<<k, "*">>}, {}, {})

SaveCustomer(r, k, revenue) ==
  /\ db[k] # NoRow
  /\ Start(r, [db EXCEPT ![k].doanh_thu_tiem_nang = revenue],
           {<<k, "doanh_thu_tiem_nang">>}, {}, {})
  /\ UNCHANGED seen

\* action_set_done, action_set_fail and the status bar: one write of the stage on
\* the customers K.
SetStage(r, K, stage) ==
  /\ K # {} /\ K \subseteq Live(db, KhachHang)
  /\ Start(r, [i \in Id |-> IF i \in K THEN [db[i] EXCEPT !.giai_doan = stage] ELSE db[i]],
           K \X {"giai_doan"}, {}, {})
  /\ UNCHANGED seen

\* action_set_contract on the customers K ...
SetContract(r, K) ==
  /\ K # {} /\ K \subseteq Live(db, KhachHang)
  /\ Start(r, db, {}, {}, K)
  /\ UNCHANGED seen

\* ... and one turn of its loop.  A customer without revenue raises: what the
\* turns before it did goes with the transaction.
SignOne(r, k, h) ==
  /\ k \in todo[r] /\ h \notin seen
  /\ ValueValid(Signed(k, mine[r][k].doanh_thu_tiem_nang))
  /\ seen'    = seen \cup {h}
  /\ todo'    = [todo EXCEPT ![r] = @ \ {k}]
  /\ mine'    = [mine EXCEPT ![r][k].giai_doan = "ky_hop_dong",
                             ![r][h] = Signed(k, mine[r][k].doanh_thu_tiem_nang)]
  /\ written' = [written EXCEPT ![r] = @ \cup {<<k, "giai_doan">>, <<h, "*">>}]
  /\ UNCHANGED <<db, told, phase, notes, missed, calls, asked>>

\* A ticket keeps its customer: its reference is required, hence 'restrict'.
DeleteCustomer(r, k) ==
  /\ db[k] # NoRow
  /\ \A t \in Live(db, HoTro) : db[t].khach_hang_id # k
  /\ Start(r, [i \in Id |-> IF i \in Cascaded(k) THEN NoRow ELSE db[i]],
           Cascaded(k) \X {"*"}, {}, {})
  /\ UNCHANGED seen

-----------------------------------------------------------------------------
(* Contracts and tickets in their forms *)

NewContract(r, h, x) ==
  /\ h \notin seen
  /\ db[x.khach_hang_id] # NoRow
  /\ Validated(x, DOMAIN x)
  /\ seen' = seen \cup {h}
  /\ Start(r, [db EXCEPT ![h] = x], {<<h, "*">>}, {}, {})

\* The form sends the fields F the user changed, or an onchange did.
SaveContract(r, h, F, new) ==
  /\ db[h] # NoRow
  /\ db[Overwritten(db[h], F, new).khach_hang_id] # NoRow
  /\ Validated(Overwritten(db[h], F, new), F)
  /\ Start(r, [db EXCEPT ![h] = Overwritten(@, F, new)], {h} \X F, {}, {})
  /\ UNCHANGED seen

DeleteRow(r, i) ==
  /\ db[i] # NoRow
  /\ Start(r, [db EXCEPT ![i] = NoRow], {<<i, "*">>}, {}, {})
  /\ UNCHANGED seen

NewTicket(r, t, k, n) ==
  /\ t \notin seen
  /\ db[k] # NoRow
  /\ seen' = seen \cup {t}
  /\ Start(r, [db EXCEPT ![t] = [khach_hang_id |-> k, nhan_vien_id |-> n]],
           {<<t, "*">>}, NewNotes(t, n), {})

\* One write on the tickets T of a new assignee, ...
Assign(r, T, n) ==
  /\ T # {} /\ T \subseteq Live(db, HoTro)
  /\ Start(r, [i \in Id |-> IF i \in T THEN [db[i] EXCEPT !.nhan_vien_id = n] ELSE db[i]],
           T \X {"nhan_vien_id"}, Notes(T, n), {})
  /\ UNCHANGED seen

\* ... or of another customer: nobody is told.
MoveTicket(r, t, k) ==
  /\ db[t] # NoRow /\ db[k] # NoRow
  /\ Start(r, [db EXCEPT ![t].khach_hang_id = k], {<<t, "khach_hang_id">>}, {}, {})
  /\ UNCHANGED seen

-----------------------------------------------------------------------------
CustomerCall(r) ==
  \/ \E k \in KhachHang, x \in KhachHangRow : NewCustomer(r, k, x)
  \/ \E k \in KhachHang, revenue \in GiaTri : SaveCustomer(r, k, revenue)
  \/ \E K \in SUBSET KhachHang, stage \in GiaiDoan : SetStage(r, K, stage)
  \/ \E K \in SUBSET KhachHang : SetContract(r, K)
  \/ \E k \in KhachHang, h \in HopDong : SignOne(r, k, h)
  \/ \E k \in KhachHang : DeleteCustomer(r, k)

ContractCall(r) ==
  \E h \in HopDong :
    \/ \E x \in HopDongRow : NewContract(r, h, x)
    \/ \E x \in HopDongRow : \E F \in Changes : SaveContract(r, h, F, x)
    \/ DeleteRow(r, h)

TicketCall(r) ==
  \/ \E t \in HoTro, k \in KhachHang :
       (\E n \in NhanVien \cup {None} : NewTicket(r, t, k, n)) \/ MoveTicket(r, t, k)
  \/ \E T \in SUBSET HoTro, n \in NhanVien \cup {None} : Assign(r, T, n)
  \/ \E t \in HoTro : DeleteRow(r, t)

Next ==
  \E r \in Request :
    CustomerCall(r) \/ ContractCall(r) \/ TicketCall(r) \/ Commit(r) \/ Rollback(r)

Spec == Init /\ [][Next]_vars

-----------------------------------------------------------------------------
(* Properties *)

TypeOK ==
  /\ db      \in Database
  /\ seen    \subseteq Id
  /\ told    \subseteq HoTro \X TaiKhoan
  /\ phase   \in [Request -> {"idle", "open"}]
  /\ todo    \in [Request -> SUBSET KhachHang]
  /\ mine    \in [Request -> Database]
  /\ written \in [Request -> SUBSET (Id \X Field)]
  /\ notes   \in [Request -> SUBSET (HoTro \X TaiKhoan)]
  /\ missed  \in [Request -> SUBSET Id]
  /\ calls   \in 0..MaxCalls
  /\ asked   \in [Request -> SUBSET KhachHang]

\* "Ngay ket thuc phai sau ngay bat dau", "Gia tri hop dong phai la so duong"
\* (hop_dong.py): the constraints look at one call's snapshot and one call's
\* fields, yet they hold of every stored contract, whoever else saves it.
ContractsValid ==
  \A h \in Live(db, HopDong) : DatesValid(db[h]) /\ ValueValid(db[h])

Contracts(d, k) == {h \in Live(d, HopDong) : d[h].khach_hang_id = k}

\* A call that was to sign customers and commits has signed every one of them:
\* each is in 'ky_hop_dong' and has one contract more, of the value its revenue
\* had right before the commit.
CommitsWhole(r) ==
  asked[r] # {} /\ phase[r] = "open" /\ phase'[r] = "idle" /\ db' # db =>
    \A k \in asked[r] :
      /\ db'[k].giai_doan = "ky_hop_dong"
      /\ Cardinality(Contracts(db', k) \ Contracts(db, k)) = 1
      /\ \A h \in Contracts(db', k) \ Contracts(db, k) :
           db'[h].gia_tri_hop_dong = db[k].doanh_thu_tiem_nang

\* action_set_contract signs all the customers it is called on or none
\* (khach_hang.py): if it stores anything it has signed each of them, and none was
\* passed over for want of revenue, although revenue, stage and contracts may
\* change while the call runs.
SignedWhole == [][\A r \in Request : CommitsWhole(r)]_vars

\* "Gui thong bao truc tiep vao hop thu Inbox cua nhan vien duoc gan"
\* (ho_tro.py): whoever a ticket is assigned to and has a user was told of it.
AssigneeTold ==
  \A t \in Live(db, HoTro) :
    db[t].nhan_vien_id \in TaiKhoan => <<t, db[t].nhan_vien_id>> \in told
=============================================================================

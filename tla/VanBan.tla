------------------------------- MODULE VanBan -------------------------------
(***************************************************************************)
(* The document register: model quan_ly_van_ban                            *)
(* (src/addons/quan_ly_van_ban/models/van_ban.py), as the server sees it.  *)
(*                                                                         *)
(* Every public method may be called on every document by any user of the  *)
(* model (security/ir.model.access.csv grants base.group_user all four     *)
(* rights) and none of them tests the state it leaves, except unlink.      *)
(* VanBanForms restricts the calls to those the forms offer.               *)
(*                                                                         *)
(* A call is one transaction on one row; two calls on a row conflict on it *)
(* and the second is made again (service/model.py), so a call is a step.   *)
(* Numbers come from IrSequence, of which only the outcome is kept here: a *)
(* number drawn is greater than all numbers drawn before it, and is not    *)
(* given back when the transaction fails.  Nobody types a number in: the   *)
(* forms show so_hieu read-only, and a client that writes it writes no     *)
(* number of the sequence.                                                 *)
(***************************************************************************)
EXTENDS Integers

CONSTANTS
  User,
  Numbered,     \* users in the company that owns the sequence van_ban.code
  Doc,          \* database ids of documents; an id is never used again
  Customer,
  NoCustomer,   \* khach_hang_id is False
  Moi,          \* so_hieu texts that are not numbers
  DuThao,
  DaHuy,
  MaxNumber,    \* bound: numbers drawn
  MaxNotified   \* bound: notifications of one document

Luong    == {"den", "di", "noi_bo"}
TrangThai == {"du_thao", "cho_duyet", "da_ky", "tiep_nhan", "dang_xu_ly", "hoan_tat",
              "huy"}

Text     == {Moi, DuThao, DaHuy}

\* The states unlink protects: signed or completed documents.
BanHanh  == {"da_ky", "hoan_tat"}

SoHieu   == Nat \cup Text
KhachHang == Customer \cup {NoCustomer}

Row == [luong : Luong, trang_thai : TrangThai, so_hieu : SoHieu, khach_hang : KhachHang]

ASSUME UserAssumption   == Numbered \subseteq User
ASSUME TextAssumption   == Text \cap Nat = {}
ASSUME AbsentAssumption == NoCustomer \notin Customer
ASSUME BoundAssumption  == MaxNumber \in Nat /\ MaxNotified \in Nat

VARIABLES
  seen,         \* ids given out so far
  docs,         \* ids of the rows in the table
  vb,           \* the rows
  next,         \* next number of the sequence
  notified,     \* how often everybody was notified of each document
  carried,      \* every <<number, document>> the table ever showed
  issued        \* documents that were ever signed or completed

vars == <<seen, docs, vb, next, notified, carried, issued>>

TypeOK ==
  /\ seen     \subseteq Doc
  /\ docs     \subseteq seen
  /\ vb       \in [Doc -> Row]
  /\ next     \in Nat
  /\ notified \in [Doc -> Nat]
  /\ carried  \subseteq Nat \X Doc
  /\ issued   \subseteq seen

DefaultRow == [luong |-> "den", trang_thai |-> "du_thao", so_hieu |-> Moi,
               khach_hang |-> NoCustomer]

Init ==
  /\ seen     = {}
  /\ docs     = {}
  /\ vb       = [d \in Doc |-> DefaultRow]
  /\ next     = 1
  /\ notified = [d \in Doc |-> 0]
  /\ carried  = {}
  /\ issued   = {}

-----------------------------------------------------------------------------
(* Helpers *)

\* next_by_code('van_ban.code') or 'Moi': the sequence has the company of the
\* user who installed the module, others find none.
NextByCode(u) == IF u \in Numbered THEN next ELSE Moi

\* Mutant of DrawFor: the number shown is the predicted one, not consumed.
DrawFor_Predict(u) ==
  /\ u \in Numbered => next <= MaxNumber
  /\ UNCHANGED next

\* The same call, and what it uses up.
DrawFor(u) ==
  /\ u \in Numbered => next <= MaxNumber
  /\ next' = IF u \in Numbered THEN next + 1 ELSE next

\* The row the table holds from now on, and what it shows to the world.
Store(d, new) ==
  /\ vb'      = [vb EXCEPT ![d] = new]
  /\ carried' = carried \cup (IF new.so_hieu \in Nat THEN {<<new.so_hieu, d>>} ELSE {})
  /\ issued'  = issued \cup (IF new.trang_thai \in BanHanh THEN {d} ELSE {})

\* The row old with the values given.
Update(old, vals) == [f \in DOMAIN old |-> IF f \in DOMAIN vals THEN vals[f] ELSE old[f]]

\* The test of the override: the flow is given as noi_bo, or is and is not given.
NoiBo(old, vals) ==
  IF "luong" \in DOMAIN vals THEN vals.luong = "noi_bo" ELSE old.luong = "noi_bo"

\* write: the override, which adds khach_hang_id = False to the values, and super.
Written(old, vals) ==
  IF NoiBo(old, vals) THEN [Update(old, vals) EXCEPT !.khach_hang = NoCustomer]
                      ELSE Update(old, vals)

Write(d, vals) == Store(d, Written(vb[d], vals))

-----------------------------------------------------------------------------
(* Operations.  Each is a method, called by user u on document d.          *)

\* What create makes of the values if they have a flow; a number is drawn in
\* all cases.
FirstState(luong) == IF luong = "di" THEN "du_thao" ELSE "tiep_nhan"

FirstNumber(u, luong) == IF luong = "di" THEN DuThao ELSE NextByCode(u)

Created(u, vals) ==
  IF "luong" \in DOMAIN vals
    THEN [Update(DefaultRow, vals) EXCEPT !.trang_thai = FirstState(vals.luong),
                                          !.so_hieu    = FirstNumber(u, vals.luong)]
    ELSE Update(DefaultRow, vals)

Create(u, d, vals) ==
  /\ d \notin seen
  /\ DrawFor(u)
  /\ Store(d, Created(u, vals))
  /\ seen' = seen \cup {d}
  /\ docs' = docs \cup {d}
  /\ UNCHANGED notified

\* create that fails after it drew: a required value is missing.
CreateFails(u) ==
  /\ u \in Numbered
  /\ next <= MaxNumber
  /\ next' = next + 1
  /\ UNCHANGED <<seen, docs, vb, notified, carried, issued>>

\* Mutant of ActionConfirm: the number is left to action_done, as it once was.
ActionConfirm_NumberLater(u, d) ==
  /\ d \in docs
  /\ DrawFor(u)
  /\ Write(d, [trang_thai |-> "cho_duyet"])
  /\ UNCHANGED <<seen, docs, notified>>

ActionConfirm(u, d) ==
  /\ d \in docs
  /\ DrawFor(u)
  /\ Write(d, [trang_thai |-> "cho_duyet", so_hieu |-> NextByCode(u)])
  /\ UNCHANGED <<seen, docs, notified>>

SetState(d, state) ==
  /\ d \in docs
  /\ Write(d, [trang_thai |-> state])
  /\ UNCHANGED <<seen, docs, next>>

ActionDone(d) == SetState(d, "da_ky") /\ UNCHANGED notified

\* Mutant of ActionXuLy: a state that is not in the selection.
ActionXuLy_Typo(d) == SetState(d, "xu_ly") /\ UNCHANGED notified

ActionXuLy(d) == SetState(d, "dang_xu_ly") /\ UNCHANGED notified

\* Completing an internal document posts a message to all other users.
Broadcast(u, d) == vb[d].luong = "noi_bo" /\ User # {u}

ActionHoanTat(u, d) ==
  /\ SetState(d, "hoan_tat")
  /\ Broadcast(u, d) => notified[d] < MaxNotified
  /\ notified' = [notified EXCEPT ![d] = @ + (IF Broadcast(u, d) THEN 1 ELSE 0)]

\* Mutant of ActionCancel: the number of a cancelled document stays on it.
ActionCancel_KeepsNumber(d) == SetState(d, "huy") /\ UNCHANGED notified

ActionCancel(d) ==
  /\ d \in docs
  /\ Write(d, [trang_thai |-> "huy", so_hieu |-> DaHuy])
  /\ UNCHANGED <<seen, docs, next, notified>>

\* write by a client: a form that is saved, an import, a call.
WriteFields(d, vals) ==
  /\ d \in docs
  /\ Write(d, vals)
  /\ UNCHANGED <<seen, docs, next, notified>>

\* Mutant of MayUnlink: only signed documents are protected.
MayUnlink_SignedOnly(d) == vb[d].trang_thai # "da_ky"

MayUnlink(d) == vb[d].trang_thai \notin BanHanh

Unlink(d) ==
  /\ d \in docs
  /\ MayUnlink(d)
  /\ docs' = docs \ {d}
  /\ UNCHANGED <<seen, vb, next, notified, carried, issued>>

\* The values clients give to write (a write of more is several of these) and
\* to create, where state and number only matter if there is no flow.
Values ==
  [luong : Luong] \cup [khach_hang : KhachHang] \cup [trang_thai : TrangThai]
    \cup [so_hieu : Text]

NewValues ==
  [luong : Luong, khach_hang : KhachHang]
    \cup [trang_thai : TrangThai, so_hieu : Text, khach_hang : KhachHang]

-----------------------------------------------------------------------------
(* The server alone: any user, any method, any document, any order.        *)
Next ==
  \/ \E u \in User :
       \/ CreateFails(u)
       \/ \E d \in Doc :
            \/ \E vals \in NewValues : Create(u, d, vals)
            \/ ActionConfirm(u, d)
            \/ ActionHoanTat(u, d)
  \/ \E d \in Doc :
       \/ ActionDone(d)
       \/ ActionXuLy(d)
       \/ ActionCancel(d)
       \/ \E vals \in Values : WriteFields(d, vals)
       \/ Unlink(d)

Spec == Init /\ [][Next]_vars

-----------------------------------------------------------------------------
(* Properties of the server alone *)

\* A number belongs to one document for ever: however documents are cancelled,
\* resubmitted and deleted, a number the register once showed for a document
\* is never shown for another one.
NumberForLife == \A x, y \in carried : x[1] = y[1] => x[2] = y[2]
=============================================================================

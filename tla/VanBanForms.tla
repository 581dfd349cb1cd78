----------------------------- MODULE VanBanForms -----------------------------
(***************************************************************************)
(* The document register behind its forms: src/addons/quan_ly_van_ban/     *)
(* views.  A user opens a document from a menu; the form keeps the state   *)
(* it was loaded with and shows the buttons of that state; pressing one    *)
(* calls the method of VanBan on the row as it is by then, and reloads.    *)
(*                                                                         *)
(* The menus `Van ban noi bo' and `Tat ca van ban' name no form, so they   *)
(* open the default one, the first by name: that of incoming documents.    *)
(***************************************************************************)
EXTENDS VanBan

CONSTANTS
  Menus,        \* the menus in use, a subset of Menu
  Stale         \* may a button be pressed on a form that is out of date?

Menu == {"den", "di", "noi_bo", "all"}

ASSUME MenuAssumption  == Menus \subseteq Menu
ASSUME StaleAssumption == Stale \in BOOLEAN

VARIABLE form   \* what each user's browser shows

fvars == <<vars, form>>

Closed == [view |-> "closed"]

FormTypeOK ==
  form \in [User -> {Closed} \cup
              [view : {"den", "di"}, doc : Doc, trang_thai : TrangThai]]

FormInit == Init /\ form = [u \in User |-> Closed]

-----------------------------------------------------------------------------
\* Mutant of ViewOf: a form of its own for each menu.
ViewOf_PerMenu(menu) == menu

\* The form a menu opens.
ViewOf(menu) == IF menu = "di" THEN "di" ELSE "den"

\* The documents a menu lists, and the flow of one it creates.
Lists(menu, d) == menu = "all" \/ vb[d].luong = menu
FlowOf(menu)   == IF menu = "all" THEN "den" ELSE menu

\* Mutant of Buttons: the incoming form hides no button in the last states.
Buttons_NoGuard(view, state) ==
  (IF view = "den"
     THEN (IF state = "tiep_nhan" THEN {"xu_ly"} ELSE {}) \cup
          (IF state \in {"dang_xu_ly", "hoan_tat"} THEN {"hoan_tat"} ELSE {})
     ELSE (IF state = "du_thao" THEN {"confirm"} ELSE {}) \cup
          (IF state = "cho_duyet" THEN {"done"} ELSE {}))
  \cup (IF state \notin {"hoan_tat", "huy"} THEN {"cancel"} ELSE {})

\* The buttons a form shows for a document in the given state.
Buttons(view, state) ==
  IF view = "den"
    THEN (IF state = "tiep_nhan"  THEN {"xu_ly"}    ELSE {}) \cup
         (IF state = "dang_xu_ly" THEN {"hoan_tat"} ELSE {}) \cup
         (IF state \notin {"hoan_tat", "huy"} THEN {"cancel"} ELSE {})
    ELSE (IF state = "du_thao"    THEN {"confirm"}  ELSE {}) \cup
         (IF state = "cho_duyet"  THEN {"done"}     ELSE {}) \cup
         (IF state \notin {"da_ky", "huy"} THEN {"cancel"} ELSE {})

Show(u, view, d, state) ==
  form' = [form EXCEPT ![u] = [view |-> view, doc |-> d, trang_thai |-> state]]

IsOpen(u)  == form[u].view # "closed"
Current(u) == form[u].doc \in docs /\ form[u].trang_thai = vb[form[u].doc].trang_thai
MayAct(u)  == Stale \/ Current(u)

-----------------------------------------------------------------------------
\* A new document: the customer is required unless the document is internal.
New(u, menu, d, kh) ==
  /\ menu \in Menus
  /\ kh = NoCustomer <=> FlowOf(menu) = "noi_bo"
  /\ Create(u, d, [luong |-> FlowOf(menu), khach_hang |-> kh])
  /\ Show(u, ViewOf(menu), d, FirstState(FlowOf(menu)))

Open(u, menu, d) ==
  /\ menu \in Menus
  /\ d \in docs
  /\ Lists(menu, d)
  /\ Show(u, ViewOf(menu), d, vb[d].trang_thai)
  /\ UNCHANGED vars

Call(u, d, button) ==
  \/ button = "confirm"  /\ ActionConfirm(u, d)
  \/ button = "done"     /\ ActionDone(d)
  \/ button = "xu_ly"    /\ ActionXuLy(d)
  \/ button = "hoan_tat" /\ ActionHoanTat(u, d)
  \/ button = "cancel"   /\ ActionCancel(d)

\* The button is called on the row as it is now; the form reloads the row.
Press(u, button) ==
  /\ IsOpen(u)
  /\ button \in Buttons(form[u].view, form[u].trang_thai)
  /\ MayAct(u)
  /\ Call(u, form[u].doc, button)
  /\ Show(u, form[u].view, form[u].doc, vb'[form[u].doc].trang_thai)

\* Edit and save the customer; the field is hidden on an internal document and
\* read-only on a completed one.
Save(u, kh) ==
  /\ IsOpen(u)
  /\ form[u].doc \in docs
  /\ vb[form[u].doc].luong # "noi_bo"
  /\ form[u].trang_thai # "hoan_tat"
  /\ MayAct(u)
  /\ WriteFields(form[u].doc, [khach_hang |-> kh])
  /\ Show(u, form[u].view, form[u].doc, vb[form[u].doc].trang_thai)

\* Action menu, Delete.
Delete(u) ==
  /\ IsOpen(u)
  /\ Unlink(form[u].doc)
  /\ form' = [form EXCEPT ![u] = Closed]

FormNext ==
  \E u \in User :
    \/ \E menu \in Menus, d \in Doc :
         \/ Open(u, menu, d)
         \/ \E kh \in KhachHang : New(u, menu, d, kh)
    \/ \E button \in {"confirm", "done", "xu_ly", "hoan_tat", "cancel"} : Press(u, button)
    \/ \E kh \in Customer : Save(u, kh)
    \/ Delete(u)
    \/ CreateFails(u) /\ UNCHANGED form

FormSpec == FormInit /\ [][FormNext]_fvars

-----------------------------------------------------------------------------
(* Properties *)

\* "Ma da co o buoc truoc" (action_done): a document that is signed or
\* completed shows a number of the sequence.
IssuedIsNumbered ==
  \A d \in docs : vb[d].trang_thai \in BanHanh => vb[d].so_hieu \in Nat

\* "Chan xoa van ban da ban hanh" (README.md): a document that was ever signed
\* or completed is still in the register.
IssuedNeverDeleted == issued \subseteq docs

\* Everybody else is told of a completed internal document once, and of no
\* other document.
NotifiedOnce ==
  \A d \in docs :
    notified[d] = IF /\ vb[d].luong = "noi_bo"
                     /\ vb[d].trang_thai = "hoan_tat" THEN 1 ELSE 0

\* The register of VanBanRegister: what a document is to whoever reads it.
NoNumber == Moi

Status == [d \in Doc |->
  CASE d \in docs /\ vb[d].trang_thai \in BanHanh -> "issued"
    [] d \in docs /\ vb[d].trang_thai = "huy"     -> "cancelled"
    [] d \in docs /\ vb[d].trang_thai \notin BanHanh \cup {"huy"} -> "open"
    [] d \in seen \ docs -> "deleted"
    [] OTHER             -> "none"]

Number == [d \in Doc |->
  IF d \in docs /\ vb[d].so_hieu \in Nat THEN vb[d].so_hieu ELSE NoNumber]

Given == {x[1] : x \in carried}

Register == INSTANCE VanBanRegister WITH
  status <- Status, number <- Number, given <- Given

\* With up-to-date forms, and without the menu of all documents, the register
\* keeps its promise.
KeepsRegister == Register!Spec
=============================================================================

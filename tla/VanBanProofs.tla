---------------------------- MODULE VanBanProofs ----------------------------
(***************************************************************************)
(* Theorems about the document register: first as the server sees it, then *)
(* behind its forms, which are shown to use the server as any client may   *)
(* (FormsUseTheServer) and, if they are up to date, to keep the register   *)
(* of VanBanRegister (FormsKeepRegister).                                  *)
(*                                                                         *)
(* NumberForLife is not inductive: a write of the flow or of a state shows *)
(* the number of the row once more, and a draw must find a number that was *)
(* never shown.  NumberInv adds that what a row shows was shown before for *)
(* that row, and that all numbers shown are below the next one.  FormInv,  *)
(* behind the forms, adds what a form that is open still says of its row:  *)
(* a button pressed on an old view is one the row's own state would show,  *)
(* or one the method refuses.                                              *)
(***************************************************************************)
EXTENDS VanBanForms, TLAPS

NumberBelow == \A x \in carried : x[1] < next
NumberShown == \A d \in Doc : vb[d].so_hieu \in Nat => <<vb[d].so_hieu, d>> \in carried

NumberInv == TypeOK /\ NumberForLife /\ NumberBelow /\ NumberShown

-----------------------------------------------------------------------------
\* Values that fit the fields they are for.
Fits(vals) ==
  /\ "luong" \in DOMAIN vals      => vals.luong \in Luong
  /\ "trang_thai" \in DOMAIN vals => vals.trang_thai \in TrangThai
  /\ "so_hieu" \in DOMAIN vals    => vals.so_hieu \in SoHieu
  /\ "khach_hang" \in DOMAIN vals => vals.khach_hang \in KhachHang

\* A row with new values of its fields is a row.
LEMMA UpdateRow ==
  ASSUME NEW old \in Row, NEW vals, Fits(vals)
  PROVE  /\ Update(old, vals) \in Row
         /\ Update(old, vals).luong = IF "luong" \in DOMAIN vals THEN vals.luong ELSE old.luong
         /\ Update(old, vals).trang_thai =
              IF "trang_thai" \in DOMAIN vals THEN vals.trang_thai ELSE old.trang_thai
         /\ Update(old, vals).so_hieu =
              IF "so_hieu" \in DOMAIN vals THEN vals.so_hieu ELSE old.so_hieu
<1>1. DOMAIN old = {"luong", "trang_thai", "so_hieu", "khach_hang"}
  BY DEF Row
<1>2. /\ old.luong \in Luong /\ old.trang_thai \in TrangThai /\ old.so_hieu \in SoHieu
      /\ old.khach_hang \in KhachHang
  BY DEF Row
<1> DEFINE new == Update(old, vals)
<1>3. /\ DOMAIN new = {"luong", "trang_thai", "so_hieu", "khach_hang"}
      /\ new = [f \in DOMAIN new |-> new[f]]
  BY <1>1 DEF Update
<1>4. /\ new.luong = IF "luong" \in DOMAIN vals THEN vals.luong ELSE old.luong
      /\ new.trang_thai = IF "trang_thai" \in DOMAIN vals THEN vals.trang_thai ELSE old.trang_thai
      /\ new.so_hieu = IF "so_hieu" \in DOMAIN vals THEN vals.so_hieu ELSE old.so_hieu
      /\ new.khach_hang = IF "khach_hang" \in DOMAIN vals THEN vals.khach_hang ELSE old.khach_hang
  BY <1>1 DEF Update
<1> HIDE DEF new
<1>5. /\ new.luong \in Luong /\ new.trang_thai \in TrangThai /\ new.so_hieu \in SoHieu
      /\ new.khach_hang \in KhachHang
  BY <1>2, <1>4 DEF Fits
<1>6. new \in Row
  BY <1>3, <1>5 DEF Row
<1> QED  BY <1>4, <1>6 DEF new

\* What write makes of them: it changes no flow, state or number of its own.
LEMMA WrittenRow ==
  ASSUME NEW old \in Row, NEW vals, Fits(vals)
  PROVE  /\ Written(old, vals) \in Row
         /\ Written(old, vals).luong = IF "luong" \in DOMAIN vals THEN vals.luong ELSE old.luong
         /\ Written(old, vals).trang_thai =
              IF "trang_thai" \in DOMAIN vals THEN vals.trang_thai ELSE old.trang_thai
         /\ Written(old, vals).so_hieu =
              IF "so_hieu" \in DOMAIN vals THEN vals.so_hieu ELSE old.so_hieu
<1> DEFINE new == Update(old, vals)
<1>1. new \in Row
  BY UpdateRow
<1>2. Written(old, vals) \in {new, [new EXCEPT !.khach_hang = NoCustomer]}
  BY DEF Written
<1> HIDE DEF new
<1>3. /\ Written(old, vals) \in Row
      /\ Written(old, vals).luong = new.luong
      /\ Written(old, vals).trang_thai = new.trang_thai
      /\ Written(old, vals).so_hieu = new.so_hieu
  BY <1>1, <1>2 DEF Row, KhachHang
<1> QED  BY <1>3, UpdateRow DEF new

\* The values clients give are values of the fields, and none is a number.
LEMMA ValuesFit ==
  ASSUME NEW vals \in Values \cup NewValues
  PROVE  Fits(vals) /\ ("so_hieu" \in DOMAIN vals => vals.so_hieu \notin Nat)
<1>1. Text \cap Nat = {} /\ Text \subseteq SoHieu
  BY TextAssumption DEF SoHieu
<1>2. CASE vals \in Values
  BY <1>1, <1>2 DEF Values, Fits
<1>3. CASE vals \in NewValues
  BY <1>1, <1>3 DEF NewValues, Fits
<1> QED  BY <1>2, <1>3

\* The number a user draws is the next one or none.
LEMMA DrawType ==
  ASSUME TypeOK, NEW u \in User, DrawFor(u)
  PROVE  /\ next' \in Nat
         /\ NextByCode(u) \in SoHieu
         /\ next <= next'
         /\ NextByCode(u) \in Nat => NextByCode(u) = next /\ next < next'
<1>1. next \in Nat
  BY DEF TypeOK
<1>2. Moi \notin Nat
  BY TextAssumption DEF Text
<1>3. CASE u \in Numbered
  BY <1>1, <1>3, SMT DEF DrawFor, NextByCode, SoHieu
<1>4. CASE u \notin Numbered
  BY <1>1, <1>2, <1>4, SMT DEF DrawFor, NextByCode, SoHieu, Text
<1> QED  BY <1>3, <1>4

\* Storing a row keeps the types of what it writes.
LEMMA StoreType ==
  ASSUME TypeOK, NEW d \in seen', NEW new \in Row, seen' \subseteq Doc, seen \subseteq seen',
         Store(d, new)
  PROVE  /\ vb' \in [Doc -> Row]
         /\ carried' \subseteq Nat \X Doc
         /\ issued' \subseteq seen'
<1>1. d \in Doc
  OBVIOUS
<1>2. vb' \in [Doc -> Row]
  BY <1>1 DEF Store, TypeOK
<1>3. carried' \subseteq Nat \X Doc
  BY <1>1 DEF Store, TypeOK
<1>4. issued' \subseteq seen'
  BY DEF Store, TypeOK
<1> QED  BY <1>2, <1>3, <1>4

\* Storing a row whose number is its old one, or the next one while next moves
\* on, or none, keeps the invariant on numbers.
LEMMA StoreNumber ==
  ASSUME NumberInv, NEW d \in Doc, NEW new \in Row, Store(d, new),
         next' \in Nat, next <= next',
         new.so_hieu \in Nat => \/ new.so_hieu = vb[d].so_hieu
                                \/ new.so_hieu = next /\ next < next'
  PROVE  (NumberForLife /\ NumberBelow /\ NumberShown)'
<1> USE DEF NumberInv
<1>1. next \in Nat /\ carried \subseteq Nat \X Doc /\ vb \in [Doc -> Row]
  BY DEF TypeOK
<1>2. CASE new.so_hieu \notin Nat
  <2>1. carried' = carried /\ vb' = [vb EXCEPT ![d] = new]
    BY <1>2 DEF Store
  <2>2. NumberForLife'
    BY <2>1 DEF NumberForLife
  <2>3. NumberBelow'
    BY <1>1, <2>1, SMT DEF NumberBelow
  <2>4. NumberShown'
    BY <1>1, <1>2, <2>1 DEF NumberShown
  <2> QED  BY <2>2, <2>3, <2>4
<1>3. CASE new.so_hieu \in Nat
  <2>1. carried' = carried \cup {<<new.so_hieu, d>>} /\ vb' = [vb EXCEPT ![d] = new]
    BY <1>3 DEF Store
  <2>2. CASE new.so_hieu = vb[d].so_hieu
    <3>1. carried' = carried
      BY <1>3, <2>1, <2>2 DEF NumberShown
    <3>2. NumberForLife'
      BY <3>1 DEF NumberForLife
    <3>3. NumberBelow'
      BY <1>1, <3>1, SMT DEF NumberBelow
    <3>4. NumberShown'
      BY <1>1, <2>1, <2>2, <3>1 DEF NumberShown
    <3> QED  BY <3>2, <3>3, <3>4
  <2>3. CASE new.so_hieu = next /\ next < next'
    <3>1. \A x \in carried : x[1] # next
      BY <1>1, SMT DEF NumberBelow
    <3>2. NumberForLife'
      BY <2>1, <2>3, <3>1 DEF NumberForLife
    <3>3. NumberBelow'
      BY <1>1, <2>1, <2>3, SMT DEF NumberBelow
    <3>4. NumberShown'
      BY <1>1, <2>1 DEF NumberShown
    <3> QED  BY <3>2, <3>3, <3>4
  <2> QED  BY <1>3, <2>2, <2>3
<1> QED  BY <1>2, <1>3

-----------------------------------------------------------------------------
\* What create stores is a row; a number on it is the one drawn.
LEMMA CreatedRow ==
  ASSUME NEW u \in User, NEW vals \in NewValues, NextByCode(u) \in SoHieu
  PROVE  /\ Created(u, vals) \in Row
         /\ "luong" \in DOMAIN vals =>
              /\ vals.luong \in Luong
              /\ Created(u, vals).luong = vals.luong
              /\ Created(u, vals).trang_thai = FirstState(vals.luong)
              /\ Created(u, vals).so_hieu = FirstNumber(u, vals.luong)
         /\ Created(u, vals).so_hieu \in Nat => Created(u, vals).so_hieu = NextByCode(u)
<1> DEFINE new == Update(DefaultRow, vals)
<1>t. Text \cap Nat = {} /\ Text \subseteq SoHieu /\ DuThao \in Text /\ Moi \in Text
  BY TextAssumption DEF SoHieu, Text
<1>1. DefaultRow \in Row /\ DefaultRow.so_hieu = Moi
  BY DEF DefaultRow, Row, Luong, TrangThai, SoHieu, Text, KhachHang
<1>2. Fits(vals) /\ ("so_hieu" \in DOMAIN vals => vals.so_hieu \notin Nat)
  BY ValuesFit
<1>3. /\ new \in Row
      /\ new.luong = IF "luong" \in DOMAIN vals THEN vals.luong ELSE DefaultRow.luong
      /\ new.so_hieu = IF "so_hieu" \in DOMAIN vals THEN vals.so_hieu ELSE DefaultRow.so_hieu
  BY <1>1, <1>2, UpdateRow
<1> HIDE DEF new
<1>4. CASE "luong" \in DOMAIN vals
  <2>1. vals.luong \in Luong
    BY <1>2, <1>4 DEF Fits
  <2>2. FirstState(vals.luong) \in TrangThai
    BY DEF FirstState, TrangThai
  <2>3. FirstNumber(u, vals.luong) \in {DuThao, NextByCode(u)}
    BY DEF FirstNumber
  <2>4. Created(u, vals) = [new EXCEPT !.trang_thai = FirstState(vals.luong),
                                       !.so_hieu    = FirstNumber(u, vals.luong)]
    BY <1>4 DEF Created, new
  <2>5. /\ Created(u, vals) \in Row
        /\ Created(u, vals).luong = vals.luong
        /\ Created(u, vals).trang_thai = FirstState(vals.luong)
        /\ Created(u, vals).so_hieu = FirstNumber(u, vals.luong)
    BY <1>3, <1>4, <1>t, <2>2, <2>3, <2>4 DEF Row
  <2> QED  BY <1>t, <2>1, <2>3, <2>5
<1>5. CASE "luong" \notin DOMAIN vals
  <2>1. Created(u, vals) = new
    BY <1>5 DEF Created, new
  <2> QED  BY <1>1, <1>2, <1>3, <1>5, <1>t, <2>1
<1> QED  BY <1>4, <1>5

LEMMA TypeInit == Init => TypeOK
<1> SUFFICES ASSUME Init PROVE TypeOK
  OBVIOUS
<1>1. DefaultRow \in Row
  BY DEF DefaultRow, Row, Luong, TrangThai, SoHieu, Text, KhachHang
<1> QED  BY <1>1 DEF Init, TypeOK

\* A write of a row keeps the types of what it changes.
LEMMA TypeWrite ==
  ASSUME TypeOK, NEW d \in docs, NEW vals, Fits(vals), Write(d, vals),
         UNCHANGED <<seen, docs>>
  PROVE  /\ seen' \subseteq Doc /\ docs' \subseteq seen'
         /\ vb' \in [Doc -> Row] /\ carried' \subseteq Nat \X Doc /\ issued' \subseteq seen'
<1>1. Written(vb[d], vals) \in Row
  BY WrittenRow DEF TypeOK
<1>2. Store(d, Written(vb[d], vals))
  BY DEF Write
<1>3. d \in seen' /\ seen' \subseteq Doc /\ seen \subseteq seen' /\ docs' \subseteq seen'
  BY DEF TypeOK
<1> QED  BY <1>1, <1>2, <1>3, StoreType

LEMMA TypeNext == TypeOK /\ [Next]_vars => TypeOK'
<1> SUFFICES ASSUME TypeOK, [Next]_vars PROVE TypeOK'
  OBVIOUS
<1>0. CASE UNCHANGED vars
  BY <1>0 DEF vars, TypeOK
<1>1. ASSUME NEW u \in User, CreateFails(u) PROVE TypeOK'
  <2>1. next' \in Nat
    BY <1>1, SMT DEF CreateFails, TypeOK
  <2>2. UNCHANGED <<seen, docs, vb, notified, carried, issued>>
    BY <1>1 DEF CreateFails
  <2> QED  BY <2>1, <2>2 DEF TypeOK
<1>2. ASSUME NEW u \in User, NEW d \in Doc, NEW vals \in NewValues, Create(u, d, vals)
      PROVE TypeOK'
  <2>1. next' \in Nat /\ NextByCode(u) \in SoHieu
    BY <1>2, DrawType DEF Create
  <2> DEFINE new == Created(u, vals)
  <2>2. new \in Row
    BY <2>1, CreatedRow
  <2>3. d \in seen' /\ seen' \subseteq Doc /\ seen \subseteq seen' /\ docs' \subseteq seen'
    BY <1>2 DEF Create, TypeOK
  <2>4. Store(d, new)
    BY <1>2 DEF Create
  <2> HIDE DEF new
  <2>5. vb' \in [Doc -> Row] /\ carried' \subseteq Nat \X Doc /\ issued' \subseteq seen'
    BY <2>2, <2>3, <2>4, StoreType
  <2>6. notified' \in [Doc -> Nat]
    BY <1>2 DEF Create, TypeOK
  <2> QED  BY <2>1, <2>3, <2>5, <2>6 DEF TypeOK
<1>3. ASSUME NEW u \in User, NEW d \in Doc, ActionConfirm(u, d) PROVE TypeOK'
  <2>1. next' \in Nat /\ NextByCode(u) \in SoHieu
    BY <1>3, DrawType DEF ActionConfirm
  <2> DEFINE vals == [trang_thai |-> "cho_duyet", so_hieu |-> NextByCode(u)]
  <2>2. Fits(vals)
    BY <2>1 DEF Fits, TrangThai
  <2>3. d \in docs /\ Write(d, vals) /\ UNCHANGED <<seen, docs, notified>>
    BY <1>3 DEF ActionConfirm
  <2> HIDE DEF vals
  <2>4. /\ seen' \subseteq Doc /\ docs' \subseteq seen'
        /\ vb' \in [Doc -> Row] /\ carried' \subseteq Nat \X Doc /\ issued' \subseteq seen'
    BY <2>2, <2>3, TypeWrite
  <2> QED  BY <2>1, <2>3, <2>4 DEF TypeOK
<1>4. ASSUME NEW d \in Doc, NEW state \in TrangThai, SetState(d, state),
             notified' \in [Doc -> Nat]
      PROVE TypeOK'
  <2> DEFINE vals == [trang_thai |-> state]
  <2>1. Fits(vals)
    BY DEF Fits
  <2>2. d \in docs /\ Write(d, vals) /\ UNCHANGED <<seen, docs, next>>
    BY <1>4 DEF SetState
  <2> HIDE DEF vals
  <2>3. /\ seen' \subseteq Doc /\ docs' \subseteq seen'
        /\ vb' \in [Doc -> Row] /\ carried' \subseteq Nat \X Doc /\ issued' \subseteq seen'
    BY <2>1, <2>2, TypeWrite
  <2> QED  BY <1>4, <2>2, <2>3 DEF TypeOK
<1>5. ASSUME NEW u \in User, NEW d \in Doc, ActionHoanTat(u, d) PROVE TypeOK'
  <2>1. notified' \in [Doc -> Nat]
    BY <1>5, SMT DEF ActionHoanTat, TypeOK
  <2> QED  BY <1>4, <1>5, <2>1 DEF ActionHoanTat, TrangThai
<1>6. ASSUME NEW d \in Doc, ActionDone(d) PROVE TypeOK'
  BY <1>4, <1>6 DEF ActionDone, TrangThai, TypeOK
<1>7. ASSUME NEW d \in Doc, ActionXuLy(d) PROVE TypeOK'
  BY <1>4, <1>7 DEF ActionXuLy, TrangThai, TypeOK
<1>8. ASSUME NEW d \in Doc, ActionCancel(d) PROVE TypeOK'
  <2> DEFINE vals == [trang_thai |-> "huy", so_hieu |-> DaHuy]
  <2>1. Fits(vals)
    BY DEF Fits, TrangThai, SoHieu, Text
  <2>2. d \in docs /\ Write(d, vals) /\ UNCHANGED <<seen, docs, next, notified>>
    BY <1>8 DEF ActionCancel
  <2> HIDE DEF vals
  <2>3. /\ seen' \subseteq Doc /\ docs' \subseteq seen'
        /\ vb' \in [Doc -> Row] /\ carried' \subseteq Nat \X Doc /\ issued' \subseteq seen'
    BY <2>1, <2>2, TypeWrite
  <2> QED  BY <2>2, <2>3 DEF TypeOK
<1>9. ASSUME NEW d \in Doc, NEW vals \in Values, WriteFields(d, vals) PROVE TypeOK'
  <2>1. Fits(vals)
    BY ValuesFit
  <2>2. d \in docs /\ Write(d, vals) /\ UNCHANGED <<seen, docs, next, notified>>
    BY <1>9 DEF WriteFields
  <2>3. /\ seen' \subseteq Doc /\ docs' \subseteq seen'
        /\ vb' \in [Doc -> Row] /\ carried' \subseteq Nat \X Doc /\ issued' \subseteq seen'
    BY <2>1, <2>2, TypeWrite
  <2> QED  BY <2>2, <2>3 DEF TypeOK
<1>10. ASSUME NEW d \in Doc, Unlink(d) PROVE TypeOK'
  BY <1>10 DEF Unlink, TypeOK
<1> QED
  BY <1>0, <1>1, <1>2, <1>3, <1>5, <1>6, <1>7, <1>8, <1>9, <1>10 DEF Next

\* Rows are rows of the model and numbers are numbers: every state, flow and
\* number a method stores is one of the fields' values (van_ban.py).
THEOREM TypeCorrect == Spec => []TypeOK
  BY TypeInit, TypeNext, PTL DEF Spec

-----------------------------------------------------------------------------
LEMMA NumberInit == Init => NumberInv
<1> SUFFICES ASSUME Init PROVE NumberInv
  OBVIOUS
<1>1. TypeOK
  BY TypeInit
<1>2. DefaultRow.so_hieu \notin Nat
  BY TextAssumption DEF DefaultRow, Text
<1>3. NumberShown
  BY <1>2 DEF Init, NumberShown
<1>4. NumberForLife /\ NumberBelow
  BY DEF Init, NumberForLife, NumberBelow
<1> QED  BY <1>1, <1>3, <1>4 DEF NumberInv

\* StoreNumber for a write, whose override leaves the number alone.
LEMMA WriteNumber ==
  ASSUME NumberInv, NEW d \in Doc, NEW vals, Fits(vals), Write(d, vals),
         next' \in Nat, next <= next',
         "so_hieu" \in DOMAIN vals /\ vals.so_hieu \in Nat =>
           vals.so_hieu = next /\ next < next'
  PROVE  (NumberForLife /\ NumberBelow /\ NumberShown)'
<1> DEFINE w == Written(vb[d], vals)
<1>1. /\ w \in Row
      /\ w.so_hieu = IF "so_hieu" \in DOMAIN vals THEN vals.so_hieu ELSE vb[d].so_hieu
  BY WrittenRow DEF NumberInv, TypeOK
<1>2. Store(d, w)
  BY DEF Write
<1> HIDE DEF w
<1> QED  BY <1>1, <1>2, StoreNumber

LEMMA NumberNext == NumberInv /\ [Next]_vars => NumberInv'
<1> SUFFICES ASSUME NumberInv, [Next]_vars
             PROVE  (NumberForLife /\ NumberBelow /\ NumberShown)'
  BY TypeNext DEF NumberInv
<1>t. TypeOK
  BY DEF NumberInv
<1>n. next \in Nat /\ next <= next
  BY <1>t, SMT DEF TypeOK
<1>0. CASE UNCHANGED vars
  BY <1>0 DEF vars, NumberInv, NumberForLife, NumberBelow, NumberShown
<1>1. ASSUME NEW u \in User, CreateFails(u)
      PROVE  (NumberForLife /\ NumberBelow /\ NumberShown)'
  <2>1. NumberForLife' /\ NumberShown'
    BY <1>1 DEF CreateFails, NumberInv, NumberForLife, NumberShown
  <2>2. NumberBelow'
    BY <1>1, <1>t, SMT DEF CreateFails, NumberInv, NumberBelow, TypeOK
  <2> QED  BY <2>1, <2>2
<1>2. ASSUME NEW u \in User, NEW d \in Doc, NEW vals \in NewValues, Create(u, d, vals)
      PROVE  (NumberForLife /\ NumberBelow /\ NumberShown)'
  <2> DEFINE new == Created(u, vals)
  <2>1. DrawFor(u) /\ Store(d, new)
    BY <1>2 DEF Create
  <2>2. /\ next' \in Nat /\ next <= next' /\ NextByCode(u) \in SoHieu
        /\ NextByCode(u) \in Nat => NextByCode(u) = next /\ next < next'
    BY <1>t, <2>1, DrawType
  <2>3. new \in Row /\ (new.so_hieu \in Nat => new.so_hieu = NextByCode(u))
    BY <2>2, CreatedRow
  <2> HIDE DEF new
  <2> QED  BY <2>1, <2>2, <2>3, StoreNumber
<1>3. ASSUME NEW u \in User, NEW d \in Doc, ActionConfirm(u, d)
      PROVE  (NumberForLife /\ NumberBelow /\ NumberShown)'
  <2> DEFINE vals == [trang_thai |-> "cho_duyet", so_hieu |-> NextByCode(u)]
  <2>1. DrawFor(u) /\ Write(d, vals)
    BY <1>3 DEF ActionConfirm
  <2>2. /\ next' \in Nat /\ next <= next' /\ NextByCode(u) \in SoHieu
        /\ NextByCode(u) \in Nat => NextByCode(u) = next /\ next < next'
    BY <1>t, <2>1, DrawType
  <2>3. Fits(vals) /\ vals.so_hieu = NextByCode(u)
    BY <2>2 DEF Fits, TrangThai
  <2> HIDE DEF vals
  <2> QED  BY <2>1, <2>2, <2>3, WriteNumber
<1>4. ASSUME NEW d \in Doc, NEW state \in TrangThai, SetState(d, state)
      PROVE  (NumberForLife /\ NumberBelow /\ NumberShown)'
  <2> DEFINE vals == [trang_thai |-> state]
  <2>1. Write(d, vals) /\ next' = next
    BY <1>4 DEF SetState
  <2>2. Fits(vals) /\ "so_hieu" \notin DOMAIN vals
    BY DEF Fits
  <2> HIDE DEF vals
  <2> QED  BY <1>n, <2>1, <2>2, WriteNumber
<1>5. ASSUME NEW u \in User, NEW d \in Doc, ActionHoanTat(u, d)
      PROVE  (NumberForLife /\ NumberBelow /\ NumberShown)'
  BY <1>4, <1>5 DEF ActionHoanTat, TrangThai
<1>6. ASSUME NEW d \in Doc, ActionDone(d)
      PROVE  (NumberForLife /\ NumberBelow /\ NumberShown)'
  BY <1>4, <1>6 DEF ActionDone, TrangThai
<1>7. ASSUME NEW d \in Doc, ActionXuLy(d)
      PROVE  (NumberForLife /\ NumberBelow /\ NumberShown)'
  BY <1>4, <1>7 DEF ActionXuLy, TrangThai
<1>8. ASSUME NEW d \in Doc, ActionCancel(d)
      PROVE  (NumberForLife /\ NumberBelow /\ NumberShown)'
  <2> DEFINE vals == [trang_thai |-> "huy", so_hieu |-> DaHuy]
  <2>1. Write(d, vals) /\ next' = next
    BY <1>8 DEF ActionCancel
  <2>2. Fits(vals) /\ vals.so_hieu = DaHuy
    BY DEF Fits, TrangThai, SoHieu, Text
  <2>3. vals.so_hieu \notin Nat
    BY <2>2, TextAssumption DEF Text
  <2> HIDE DEF vals
  <2> QED  BY <1>n, <2>1, <2>2, <2>3, WriteNumber
<1>9. ASSUME NEW d \in Doc, NEW vals \in Values, WriteFields(d, vals)
      PROVE  (NumberForLife /\ NumberBelow /\ NumberShown)'
  <2>1. Write(d, vals) /\ next' = next
    BY <1>9 DEF WriteFields
  <2>2. Fits(vals) /\ ("so_hieu" \in DOMAIN vals => vals.so_hieu \notin Nat)
    BY ValuesFit
  <2> QED  BY <1>n, <2>1, <2>2, WriteNumber
<1>10. ASSUME NEW d \in Doc, Unlink(d)
      PROVE  (NumberForLife /\ NumberBelow /\ NumberShown)'
  BY <1>10 DEF Unlink, NumberInv, NumberForLife, NumberBelow, NumberShown
<1> QED
  BY <1>0, <1>1, <1>2, <1>3, <1>5, <1>6, <1>7, <1>8, <1>9, <1>10 DEF Next

\* A number the register once showed for a document is never shown for another
\* one, whatever methods are called on which documents by whom (create,
\* action_confirm, action_cancel, write and unlink of van_ban.py).
THEOREM NumbersForLife == Spec => []NumberForLife
<1>1. NumberInv => NumberForLife
  BY DEF NumberInv
<1> QED  BY <1>1, NumberInit, NumberNext, PTL DEF Spec

-----------------------------------------------------------------------------
(* The register behind its forms.  A step of a form is a step of the       *)
(* server, so what holds of the server holds of the forms; the rest holds  *)
(* for forms that are up to date and show the buttons of their own flow.   *)

\* An open form shows a document of the register, in a form and a state there are.
LEMMA OpenForm ==
  ASSUME FormTypeOK, NEW u \in User, IsOpen(u)
  PROVE  form[u] \in [view : {"den", "di"}, doc : Doc, trang_thai : TrangThai]
<1>1. Closed.view = "closed"
  BY DEF Closed
<1> QED  BY <1>1 DEF FormTypeOK, IsOpen

\* Every step of a form is a step of the server, or none for it.
LEMMA FormStep == TypeOK /\ FormTypeOK /\ [FormNext]_fvars => [Next]_vars
<1> SUFFICES ASSUME TypeOK, FormTypeOK, [FormNext]_fvars PROVE Next \/ UNCHANGED vars
  OBVIOUS
<1>0. CASE UNCHANGED fvars
  BY <1>0 DEF fvars
<1>1. ASSUME NEW u \in User, NEW menu \in Menus, NEW d \in Doc, Open(u, menu, d)
      PROVE  UNCHANGED vars
  BY <1>1 DEF Open
<1>2. ASSUME NEW u \in User, NEW menu \in Menus, NEW d \in Doc,
             NEW kh \in KhachHang, New(u, menu, d, kh)
      PROVE  Next
  <2>1. FlowOf(menu) \in Luong
    BY MenuAssumption DEF Menu, FlowOf, Luong
  <2> DEFINE vals == [luong |-> FlowOf(menu), khach_hang |-> kh]
  <2>2. Create(u, d, vals)
    BY <1>2 DEF New
  <2>3. vals \in NewValues
    BY <2>1 DEF NewValues
  <2> HIDE DEF vals
  <2> QED  BY <2>2, <2>3 DEF Next
<1>3. ASSUME NEW u \in User, NEW button, Press(u, button) PROVE Next
  <2>1. form[u].doc \in Doc
    BY <1>3, OpenForm DEF Press
  <2>2. Call(u, form[u].doc, button)
    BY <1>3 DEF Press
  <2> QED  BY <2>1, <2>2 DEF Call, Next
<1>4. ASSUME NEW u \in User, NEW kh \in Customer, Save(u, kh) PROVE Next
  <2> DEFINE vals == [khach_hang |-> kh]
  <2>1. form[u].doc \in Doc
    BY <1>4, OpenForm DEF Save
  <2>2. WriteFields(form[u].doc, vals)
    BY <1>4 DEF Save
  <2>3. vals \in Values
    BY DEF Values, KhachHang
  <2> HIDE DEF vals
  <2> QED  BY <2>1, <2>2, <2>3 DEF Next
<1>5. ASSUME NEW u \in User, Delete(u) PROVE Next
  <2>1. form[u].doc \in Doc /\ Unlink(form[u].doc)
    BY <1>5, OpenForm DEF Delete
  <2> QED  BY <2>1 DEF Next
<1>6. ASSUME NEW u \in User, CreateFails(u) PROVE Next
  BY <1>6 DEF Next
<1> QED  BY <1>0, <1>1, <1>2, <1>3, <1>4, <1>5, <1>6 DEF FormNext

LEMMA FormTypeInit == FormInit => FormTypeOK
  BY DEF FormInit, FormTypeOK

LEMMA FormTypeNext == TypeOK /\ FormTypeOK /\ [FormNext]_fvars => FormTypeOK'
<1> SUFFICES ASSUME TypeOK, FormTypeOK, [FormNext]_fvars PROVE FormTypeOK'
  OBVIOUS
<1>t. TypeOK'
  BY FormStep, TypeNext
<1>0. CASE UNCHANGED fvars
  BY <1>0 DEF fvars, FormTypeOK
<1>s. ASSUME NEW u \in User, NEW view \in {"den", "di"}, NEW d \in Doc, NEW state \in TrangThai,
             Show(u, view, d, state)
      PROVE  FormTypeOK'
  BY <1>s DEF Show, FormTypeOK
<1>v. \A menu : ViewOf(menu) \in {"den", "di"}
  BY DEF ViewOf
<1>1. ASSUME NEW u \in User, NEW menu \in Menus, NEW d \in Doc, Open(u, menu, d)
      PROVE  FormTypeOK'
  <2>1. vb[d].trang_thai \in TrangThai
    BY DEF TypeOK, Row
  <2> QED  BY <1>1, <1>s, <1>v, <2>1 DEF Open
<1>2. ASSUME NEW u \in User, NEW menu \in Menus, NEW d \in Doc,
             NEW kh \in KhachHang, New(u, menu, d, kh)
      PROVE  FormTypeOK'
  <2>1. FirstState(FlowOf(menu)) \in TrangThai
    BY DEF FirstState, TrangThai
  <2> QED  BY <1>2, <1>s, <1>v, <2>1 DEF New
<1>3. ASSUME NEW u \in User, NEW button, Press(u, button) PROVE FormTypeOK'
  <2>1. form[u].doc \in Doc /\ form[u].view \in {"den", "di"}
    BY <1>3, OpenForm DEF Press
  <2>2. vb'[form[u].doc].trang_thai \in TrangThai
    BY <1>t, <2>1 DEF TypeOK, Row
  <2> QED  BY <1>3, <1>s, <2>1, <2>2 DEF Press
<1>4. ASSUME NEW u \in User, NEW kh \in Customer, Save(u, kh) PROVE FormTypeOK'
  <2>1. form[u].doc \in Doc /\ form[u].view \in {"den", "di"}
    BY <1>4, OpenForm DEF Save
  <2>2. vb[form[u].doc].trang_thai \in TrangThai
    BY <2>1 DEF TypeOK, Row
  <2> QED  BY <1>4, <1>s, <2>1, <2>2 DEF Save
<1>5. ASSUME NEW u \in User, Delete(u) PROVE FormTypeOK'
  BY <1>5 DEF Delete, FormTypeOK
<1>6. ASSUME UNCHANGED form PROVE FormTypeOK'
  BY <1>6 DEF FormTypeOK
<1> QED  BY <1>0, <1>1, <1>2, <1>3, <1>4, <1>5, <1>6 DEF FormNext

\* The forms use the server as any client may: what is proved of any client's
\* calls holds behind the forms too.
THEOREM FormsUseTheServer == FormSpec => Spec
<1>1. FormInit => Init /\ TypeOK /\ FormTypeOK
  BY TypeInit, FormTypeInit DEF FormInit
<1>2. TypeOK /\ FormTypeOK /\ [FormNext]_fvars => (TypeOK /\ FormTypeOK)'
  BY FormStep, FormTypeNext, TypeNext
<1> QED  BY <1>1, <1>2, FormStep, PTL DEF FormSpec, Spec

\* A browser shows forms and states there are, of documents there may be.
THEOREM FormsTypeCorrect == FormSpec => []FormTypeOK
<1>1. FormInit => TypeOK /\ FormTypeOK
  BY TypeInit, FormTypeInit DEF FormInit
<1>2. TypeOK /\ FormTypeOK /\ [FormNext]_fvars => (TypeOK /\ FormTypeOK)'
  BY FormStep, FormTypeNext, TypeNext
<1> QED  BY <1>1, <1>2, PTL DEF FormSpec

-----------------------------------------------------------------------------
(* What the forms add.  IssuedIsNumbered, IssuedNeverDeleted, NotifiedOnce *)
(* and the promise of VanBanRegister need one invariant: a document is in  *)
(* a state of its flow, and who looks at it has the form of that flow, so  *)
(* the buttons lead from each state to the next one.  They hold for forms  *)
(* that are up to date and the menus of the three flows.                   *)
UpToDate == ~Stale /\ "all" \notin Menus

FlowStates(luong) ==
  IF luong = "di" THEN {"du_thao", "cho_duyet", "da_ky", "huy"}
                  ELSE {"tiep_nhan", "dang_xu_ly", "hoan_tat", "huy"}

FlowInv == \A d \in docs : vb[d].trang_thai \in FlowStates(vb[d].luong)

ViewInv ==
  \A u \in User : IsOpen(u) =>
    form[u].doc \in seen /\ form[u].view = ViewOf(vb[form[u].doc].luong)

NumberedInv ==
  \A d \in docs : vb[d].trang_thai \notin {"du_thao", "huy"} => vb[d].so_hieu \in Nat

IssuedInv ==
  issued \subseteq docs /\ \A d \in issued : vb[d].trang_thai \in BanHanh

NotifiedInv == NotifiedOnce /\ \A d \in Doc \ seen : notified[d] = 0

FormInv ==
  /\ NumberInv /\ FormTypeOK /\ FlowInv /\ ViewInv /\ IssuedInv
  /\ Numbered = User => NumberedInv
  /\ (\A u \in User : User # {u}) => NotifiedInv

\* Of all rows, that of d alone changes, to one of the given flow, state and number.
Becomes(d, luong, state, number) ==
  /\ \A e \in Doc : e # d => vb'[e] = vb[e]
  /\ vb'[d].luong = luong /\ vb'[d].trang_thai = state /\ vb'[d].so_hieu = number
  /\ carried' = carried \cup (IF number \in Nat THEN {<<number, d>>} ELSE {})
  /\ issued'  = issued \cup (IF state \in BanHanh THEN {d} ELSE {})

LEMMA StoreBecomes ==
  ASSUME TypeOK, NEW d \in Doc, NEW new \in Row, Store(d, new)
  PROVE  Becomes(d, new.luong, new.trang_thai, new.so_hieu)
<1>1. vb \in [Doc -> Row] /\ vb' = [vb EXCEPT ![d] = new]
  BY DEF TypeOK, Store
<1>2. vb'[d] = new /\ \A e \in Doc : e # d => vb'[e] = vb[e]
  BY <1>1
<1> QED  BY <1>2 DEF Store, Becomes

LEMMA WriteBecomes ==
  ASSUME TypeOK, NEW d \in Doc, NEW vals, Fits(vals), Write(d, vals)
  PROVE  Becomes(d, IF "luong" \in DOMAIN vals THEN vals.luong ELSE vb[d].luong,
                    IF "trang_thai" \in DOMAIN vals THEN vals.trang_thai ELSE vb[d].trang_thai,
                    IF "so_hieu" \in DOMAIN vals THEN vals.so_hieu ELSE vb[d].so_hieu)
<1> DEFINE w == Written(vb[d], vals)
<1>1. /\ w \in Row
      /\ w.luong = IF "luong" \in DOMAIN vals THEN vals.luong ELSE vb[d].luong
      /\ w.trang_thai =
           IF "trang_thai" \in DOMAIN vals THEN vals.trang_thai ELSE vb[d].trang_thai
      /\ w.so_hieu = IF "so_hieu" \in DOMAIN vals THEN vals.so_hieu ELSE vb[d].so_hieu
  BY WrittenRow DEF TypeOK
<1>2. Store(d, w)
  BY DEF Write
<1>3. Becomes(d, w.luong, w.trang_thai, w.so_hieu)
  BY <1>1, <1>2, StoreBecomes
<1> QED  BY <1>1, <1>3

\* What each method makes of a row.
LEMMA ConfirmBecomes ==
  ASSUME TypeOK, NEW u \in User, NEW d \in Doc, ActionConfirm(u, d)
  PROVE  Becomes(d, vb[d].luong, "cho_duyet", NextByCode(u))
<1> DEFINE vals == [trang_thai |-> "cho_duyet", so_hieu |-> NextByCode(u)]
<1>1. NextByCode(u) \in SoHieu
  BY DrawType DEF ActionConfirm
<1>2. /\ Fits(vals) /\ DOMAIN vals = {"trang_thai", "so_hieu"}
      /\ vals.trang_thai = "cho_duyet" /\ vals.so_hieu = NextByCode(u)
  BY <1>1 DEF Fits, TrangThai
<1>3. Write(d, vals)
  BY DEF ActionConfirm
<1> HIDE DEF vals
<1> QED  BY <1>2, <1>3, WriteBecomes

LEMMA StateBecomes ==
  ASSUME TypeOK, NEW d \in Doc, NEW state \in TrangThai, SetState(d, state)
  PROVE  Becomes(d, vb[d].luong, state, vb[d].so_hieu)
<1> DEFINE vals == [trang_thai |-> state]
<1>1. Fits(vals) /\ DOMAIN vals = {"trang_thai"} /\ vals.trang_thai = state
  BY DEF Fits
<1>2. Write(d, vals)
  BY DEF SetState
<1> HIDE DEF vals
<1> QED  BY <1>1, <1>2, WriteBecomes

LEMMA CancelBecomes ==
  ASSUME TypeOK, NEW d \in Doc, ActionCancel(d)
  PROVE  Becomes(d, vb[d].luong, "huy", DaHuy)
<1> DEFINE vals == [trang_thai |-> "huy", so_hieu |-> DaHuy]
<1>1. /\ Fits(vals) /\ DOMAIN vals = {"trang_thai", "so_hieu"}
      /\ vals.trang_thai = "huy" /\ vals.so_hieu = DaHuy
  BY DEF Fits, TrangThai, SoHieu, Text
<1>2. Write(d, vals)
  BY DEF ActionCancel
<1> HIDE DEF vals
<1> QED  BY <1>1, <1>2, WriteBecomes

\* What the steps of the forms make of the documents.
LEMMA NewStep ==
  ASSUME TypeOK, NEW u \in User, NEW menu \in Menus, NEW d \in Doc,
         NEW kh \in KhachHang, New(u, menu, d, kh)
  PROVE  /\ FlowOf(menu) \in Luong
         /\ Becomes(d, FlowOf(menu), FirstState(FlowOf(menu)), FirstNumber(u, FlowOf(menu)))
<1> DEFINE luong == FlowOf(menu)
           vals  == [luong |-> luong, khach_hang |-> kh]
           new   == Created(u, vals)
<1>1. luong \in Luong
  BY MenuAssumption DEF Menu, FlowOf, Luong
<1>2. Create(u, d, vals)
  BY DEF New
<1> HIDE DEF luong
<1>3. vals \in NewValues /\ "luong" \in DOMAIN vals /\ vals.luong = luong
  BY <1>1 DEF NewValues
<1> HIDE DEF vals
<1>4. NextByCode(u) \in SoHieu
  BY <1>2, DrawType DEF Create
<1>5. /\ new \in Row
      /\ new.luong = luong /\ new.trang_thai = FirstState(luong)
      /\ new.so_hieu = FirstNumber(u, luong)
  BY <1>3, <1>4, CreatedRow
<1>6. Store(d, new)
  BY <1>2 DEF Create
<1> HIDE DEF new
<1>7. Becomes(d, luong, FirstState(luong), FirstNumber(u, luong))
  BY <1>5, <1>6, StoreBecomes
<1> QED  BY <1>1, <1>7 DEF luong

LEMMA SaveStep ==
  ASSUME TypeOK, FormTypeOK, NEW u \in User, NEW kh \in Customer, Save(u, kh)
  PROVE  /\ form[u].doc \in docs
         /\ Becomes(form[u].doc, vb[form[u].doc].luong, vb[form[u].doc].trang_thai,
                    vb[form[u].doc].so_hieu)
<1> DEFINE d    == form[u].doc
           vals == [khach_hang |-> kh]
<1>1. d \in Doc
  BY OpenForm DEF Save
<1>2. d \in docs /\ Write(d, vals)
  BY DEF Save, WriteFields
<1> HIDE DEF d
<1>3. Fits(vals) /\ DOMAIN vals = {"khach_hang"}
  BY DEF Fits, KhachHang
<1> HIDE DEF vals
<1>4. Becomes(d, vb[d].luong, vb[d].trang_thai, vb[d].so_hieu)
  BY <1>1, <1>2, <1>3, WriteBecomes
<1> QED  BY <1>2, <1>4 DEF d

\* A button leads from a state of the flow to the next one, or to its end.
Step(d, from, to) ==
  vb[d].trang_thai = from /\ Becomes(d, vb[d].luong, to, vb[d].so_hieu) /\ UNCHANGED next

LEMMA PressStep ==
  ASSUME FormInv, UpToDate, NEW u \in User, NEW button, Press(u, button)
  PROVE  LET d == form[u].doc IN
         /\ d \in docs
         /\ UNCHANGED <<seen, docs>>
         /\ \/ /\ vb[d].luong = "di" /\ vb[d].trang_thai = "du_thao"
               /\ DrawFor(u) /\ Becomes(d, "di", "cho_duyet", NextByCode(u))
               /\ UNCHANGED notified
            \/ vb[d].luong = "di" /\ Step(d, "cho_duyet", "da_ky") /\ UNCHANGED notified
            \/ vb[d].luong # "di" /\ Step(d, "tiep_nhan", "dang_xu_ly") /\ UNCHANGED notified
            \/ /\ vb[d].luong # "di" /\ Step(d, "dang_xu_ly", "hoan_tat")
               /\ notified' = [notified EXCEPT ![d] = @ + (IF Broadcast(u, d) THEN 1 ELSE 0)]
            \/ /\ vb[d].trang_thai \notin BanHanh \cup {"huy"}
               /\ Becomes(d, vb[d].luong, "huy", DaHuy) /\ UNCHANGED <<next, notified>>
<1> DEFINE d == form[u].doc
<1>t. TypeOK /\ FormTypeOK
  BY DEF FormInv, NumberInv
<1>1. d \in Doc /\ form[u].view \in {"den", "di"}
  BY <1>t, OpenForm DEF Press
<1>2. d \in docs /\ form[u].trang_thai = vb[d].trang_thai
  BY DEF Press, MayAct, Current, UpToDate
<1>3. form[u].view = ViewOf(vb[d].luong) /\ vb[d].trang_thai \in FlowStates(vb[d].luong)
  BY <1>2 DEF Press, FormInv, ViewInv, FlowInv
<1>4. button \in Buttons(ViewOf(vb[d].luong), vb[d].trang_thai) /\ Call(u, d, button)
  BY <1>2, <1>3 DEF Press
<1> HIDE DEF d
<1> USE <1>t, <1>1, <1>2
<1>5. CASE button = "confirm" /\ ActionConfirm(u, d)
  <2>1. vb[d].luong = "di" /\ vb[d].trang_thai = "du_thao"
    BY <1>4, <1>5 DEF Buttons, ViewOf
  <2>2. Becomes(d, "di", "cho_duyet", NextByCode(u))
    BY <1>5, <2>1, ConfirmBecomes
  <2> QED  BY <1>5, <2>1, <2>2 DEF ActionConfirm, d
<1>6. CASE button = "done" /\ ActionDone(d)
  <2>1. vb[d].luong = "di" /\ vb[d].trang_thai = "cho_duyet"
    BY <1>4, <1>6 DEF Buttons, ViewOf
  <2>2. SetState(d, "da_ky") /\ UNCHANGED notified
    BY <1>6 DEF ActionDone
  <2>3. Step(d, "cho_duyet", "da_ky") /\ UNCHANGED <<seen, docs>>
    BY <2>1, <2>2, StateBecomes DEF Step, SetState, TrangThai
  <2> QED  BY <2>1, <2>2, <2>3 DEF d
<1>7. CASE button = "xu_ly" /\ ActionXuLy(d)
  <2>1. vb[d].luong # "di" /\ vb[d].trang_thai = "tiep_nhan"
    BY <1>4, <1>7 DEF Buttons, ViewOf
  <2>2. SetState(d, "dang_xu_ly") /\ UNCHANGED notified
    BY <1>7 DEF ActionXuLy
  <2>3. Step(d, "tiep_nhan", "dang_xu_ly") /\ UNCHANGED <<seen, docs>>
    BY <2>1, <2>2, StateBecomes DEF Step, SetState, TrangThai
  <2> QED  BY <2>1, <2>2, <2>3 DEF d
<1>8. CASE button = "hoan_tat" /\ ActionHoanTat(u, d)
  <2>1. vb[d].luong # "di" /\ vb[d].trang_thai = "dang_xu_ly"
    BY <1>4, <1>8 DEF Buttons, ViewOf
  <2>2. /\ SetState(d, "hoan_tat")
        /\ notified' = [notified EXCEPT ![d] = @ + (IF Broadcast(u, d) THEN 1 ELSE 0)]
    BY <1>8 DEF ActionHoanTat
  <2>3. Step(d, "dang_xu_ly", "hoan_tat") /\ UNCHANGED <<seen, docs>>
    BY <2>1, <2>2, StateBecomes DEF Step, SetState, TrangThai
  <2> QED  BY <2>1, <2>2, <2>3 DEF d
<1>9. CASE button = "cancel" /\ ActionCancel(d)
  <2>1. vb[d].trang_thai \notin BanHanh \cup {"huy"}
    BY <1>3, <1>4, <1>9 DEF Buttons, ViewOf, FlowStates, BanHanh
  <2>2. Becomes(d, vb[d].luong, "huy", DaHuy) /\ UNCHANGED <<seen, docs, next, notified>>
    BY <1>9, CancelBecomes DEF ActionCancel
  <2> QED  BY <2>1, <2>2 DEF d
<1> QED  BY <1>4, <1>5, <1>6, <1>7, <1>8, <1>9 DEF Call

-----------------------------------------------------------------------------
LEMMA FormInvInit == FormInit => FormInv
<1> SUFFICES ASSUME FormInit PROVE FormInv
  OBVIOUS
<1>1. NumberInv /\ FormTypeOK
  BY NumberInit, FormTypeInit DEF FormInit
<1>2. FlowInv /\ NumberedInv /\ IssuedInv /\ NotifiedInv
  BY DEF FormInit, Init, FlowInv, NumberedInv, IssuedInv, NotifiedInv, NotifiedOnce
<1>3. ViewInv
  BY DEF FormInit, ViewInv, IsOpen, Closed
<1> QED  BY <1>1, <1>2, <1>3 DEF FormInv

\* What is left to show of a step; the rest is FormStep's.
FormGoal ==
  /\ FlowInv /\ ViewInv /\ IssuedInv
  /\ Numbered = User => NumberedInv
  /\ (\A u \in User : User # {u}) => NotifiedInv

\* The same documents in the same states; some form may show another of them.
LEMMA FormSame ==
  ASSUME FormInv, UNCHANGED <<seen, docs, vb, issued, notified>>, ViewInv'
  PROVE  FormGoal'
  BY DEF FormInv, FormGoal, FlowInv, IssuedInv, NumberedInv, NotifiedInv, NotifiedOnce

\* Other forms than that of u, and documents that keep their flow.
LEMMA OtherViews ==
  ASSUME FormInv, NEW u \in User, NEW f, form' = [form EXCEPT ![u] = f],
         seen \subseteq seen', \A d \in seen : vb'[d].luong = vb[d].luong,
         f.view # "closed" => f.doc \in seen' /\ f.view = ViewOf(vb'[f.doc].luong)
  PROVE  ViewInv'
<1> SUFFICES ASSUME NEW v \in User, IsOpen(v)'
             PROVE  form'[v].doc \in seen' /\ form'[v].view = ViewOf(vb'[form'[v].doc].luong)
  BY DEF ViewInv
<1>1. CASE v = u
  BY <1>1 DEF FormInv, FormTypeOK, IsOpen
<1>2. CASE v # u
  <2>1. form'[v] = form[v]
    BY <1>2
  <2>2. IsOpen(v)
    BY <2>1 DEF IsOpen
  <2> QED  BY <2>1, <2>2 DEF FormInv, ViewInv
<1> QED  BY <1>1, <1>2

LEMMA FormNew ==
  ASSUME FormInv, UpToDate, NEW u \in User, NEW menu \in Menus, NEW d \in Doc,
         NEW kh \in KhachHang, New(u, menu, d, kh)
  PROVE  FormGoal'
<1> DEFINE luong == FlowOf(menu)
<1>t. TypeOK /\ FormTypeOK
  BY DEF FormInv, NumberInv
<1>1. luong \in Luong /\ Becomes(d, luong, FirstState(luong), FirstNumber(u, luong))
  BY <1>t, NewStep
<1>2. luong = menu
  BY DEF UpToDate, FlowOf
<1>3. /\ d \notin seen /\ seen' = seen \cup {d} /\ docs' = docs \cup {d}
      /\ UNCHANGED notified /\ DrawFor(u)
      /\ Show(u, ViewOf(menu), d, FirstState(luong))
  BY DEF New, Create
<1>4. docs \subseteq seen /\ seen \subseteq Doc /\ issued \subseteq seen
  BY <1>t DEF TypeOK
<1> HIDE DEF luong
<1>5. FirstState(luong) \in FlowStates(luong) /\ FirstState(luong) \notin BanHanh
  BY <1>1 DEF FirstState, FlowStates, BanHanh, Luong
<1>6. FlowInv'
  BY <1>1, <1>3, <1>4, <1>5 DEF FormInv, FlowInv, Becomes
<1>7. IssuedInv'
  BY <1>1, <1>3, <1>4, <1>5 DEF FormInv, IssuedInv, Becomes
<1>8. ASSUME Numbered = User PROVE NumberedInv'
  <2>1. CASE luong = "di"
    BY <1>1, <1>3, <1>4, <1>8, <2>1 DEF FormInv, NumberedInv, Becomes, FirstState
  <2>2. CASE luong # "di"
    <3>1. FirstNumber(u, luong) = next /\ next \in Nat
      BY <1>1, <1>t, <1>8, <2>2 DEF FirstNumber, NextByCode, Luong, TypeOK
    <3> QED  BY <1>1, <1>3, <1>4, <1>8, <3>1 DEF FormInv, NumberedInv, Becomes
  <2> QED  BY <2>1, <2>2
<1>9. ASSUME NotifiedInv PROVE NotifiedInv'
  BY <1>1, <1>3, <1>4, <1>5, <1>9 DEF NotifiedInv, NotifiedOnce, Becomes, BanHanh
<1>10. ViewInv'
  <2> DEFINE f == [view |-> ViewOf(menu), doc |-> d, trang_thai |-> FirstState(luong)]
  <2>1. form' = [form EXCEPT ![u] = f]
    BY <1>3 DEF Show
  <2>2. f.doc \in seen' /\ f.view = ViewOf(vb'[f.doc].luong)
    BY <1>1, <1>2, <1>3 DEF Becomes
  <2>3. \A e \in seen : vb'[e].luong = vb[e].luong
    BY <1>1, <1>3, <1>4 DEF Becomes
  <2> HIDE DEF f
  <2> QED  BY <1>3, <2>1, <2>2, <2>3, OtherViews
<1> QED  BY <1>6, <1>7, <1>8, <1>9, <1>10 DEF FormGoal, FormInv

\* The form a user works in, after a step that keeps the flow of its document.
LEMMA OwnView ==
  ASSUME FormInv, NEW u \in User, IsOpen(u), UNCHANGED seen, NEW state, NEW number, NEW after,
         Becomes(form[u].doc, vb[form[u].doc].luong, state, number),
         Show(u, form[u].view, form[u].doc, after)
  PROVE  ViewInv'
<1> DEFINE f == [view |-> form[u].view, doc |-> form[u].doc, trang_thai |-> after]
<1>1. form' = [form EXCEPT ![u] = f]
  BY DEF Show
<1>2. seen \subseteq Doc
  BY DEF FormInv, NumberInv, TypeOK
<1>3. \A e \in seen : vb'[e].luong = vb[e].luong
  BY <1>2 DEF Becomes
<1>4. f.doc \in seen' /\ f.view = ViewOf(vb'[f.doc].luong)
  BY <1>3 DEF FormInv, ViewInv
<1> HIDE DEF f
<1> QED  BY <1>1, <1>3, <1>4, OtherViews

LEMMA FormPress ==
  ASSUME FormInv, UpToDate, NEW u \in User, NEW button, Press(u, button)
  PROVE  FormGoal'
<1> DEFINE d == form[u].doc
           after == vb'[form[u].doc].trang_thai
<1>t. TypeOK /\ FormTypeOK
  BY DEF FormInv, NumberInv
<1>s. IsOpen(u) /\ Show(u, form[u].view, form[u].doc, after)
  BY DEF Press
<1> HIDE DEF after
<1>d. d \in docs /\ UNCHANGED <<seen, docs>> /\ docs \subseteq Doc
  BY <1>t, PressStep DEF TypeOK
<1> USE <1>d DEF FormInv
<1>1. CASE /\ vb[d].luong = "di" /\ vb[d].trang_thai = "du_thao"
           /\ DrawFor(u) /\ Becomes(d, "di", "cho_duyet", NextByCode(u))
           /\ UNCHANGED notified
  <2>1. FlowInv'
    BY <1>1 DEF FlowInv, Becomes, FlowStates
  <2>2. IssuedInv'
    BY <1>1 DEF IssuedInv, Becomes, BanHanh
  <2>3. Numbered = User => NumberedInv'
    BY <1>1, <1>t DEF NumberedInv, Becomes, NextByCode, TypeOK
  <2>4. NotifiedInv => NotifiedInv'
    BY <1>1 DEF NotifiedInv, NotifiedOnce, Becomes
  <2>5. ViewInv'
    BY <1>1, <1>s, OwnView
  <2> QED  BY <2>1, <2>2, <2>3, <2>4, <2>5 DEF FormGoal
<1>2. CASE vb[d].luong = "di" /\ Step(d, "cho_duyet", "da_ky") /\ UNCHANGED notified
  <2>1. FlowInv'
    BY <1>2 DEF FlowInv, Step, Becomes, FlowStates
  <2>2. IssuedInv'
    BY <1>2 DEF IssuedInv, Step, Becomes, BanHanh
  <2>3. Numbered = User => NumberedInv'
    BY <1>2 DEF NumberedInv, Step, Becomes
  <2>4. NotifiedInv => NotifiedInv'
    BY <1>2 DEF NotifiedInv, NotifiedOnce, Step, Becomes
  <2>5. ViewInv'
    BY <1>2, <1>s, OwnView DEF Step
  <2> QED  BY <2>1, <2>2, <2>3, <2>4, <2>5 DEF FormGoal
<1>3. CASE vb[d].luong # "di" /\ Step(d, "tiep_nhan", "dang_xu_ly") /\ UNCHANGED notified
  <2>1. FlowInv'
    BY <1>3 DEF FlowInv, Step, Becomes, FlowStates
  <2>2. IssuedInv'
    BY <1>3 DEF IssuedInv, Step, Becomes, BanHanh
  <2>3. Numbered = User => NumberedInv'
    BY <1>3 DEF NumberedInv, Step, Becomes
  <2>4. NotifiedInv => NotifiedInv'
    BY <1>3 DEF NotifiedInv, NotifiedOnce, Step, Becomes
  <2>5. ViewInv'
    BY <1>3, <1>s, OwnView DEF Step
  <2> QED  BY <2>1, <2>2, <2>3, <2>4, <2>5 DEF FormGoal
<1>4. CASE /\ vb[d].luong # "di" /\ Step(d, "dang_xu_ly", "hoan_tat")
           /\ notified' = [notified EXCEPT ![d] = @ + (IF Broadcast(u, d) THEN 1 ELSE 0)]
  <2>1. FlowInv'
    BY <1>4 DEF FlowInv, Step, Becomes, FlowStates
  <2>2. IssuedInv'
    BY <1>4 DEF IssuedInv, Step, Becomes, BanHanh
  <2>3. Numbered = User => NumberedInv'
    BY <1>4 DEF NumberedInv, Step, Becomes
  <2>4. ASSUME \A v \in User : User # {v}, NotifiedInv PROVE NotifiedInv'
    <3>1. notified[d] = 0 /\ notified \in [Doc -> Nat]
      BY <1>4, <1>t, <2>4 DEF NotifiedInv, NotifiedOnce, Step, TypeOK
    <3>2. notified'[d] = IF vb[d].luong = "noi_bo" THEN 1 ELSE 0
      BY <1>4, <2>4, <3>1 DEF Broadcast
    <3>3. \A e \in Doc : e # d => notified'[e] = notified[e]
      BY <1>4, <3>1
    <3> QED  BY <1>4, <1>t, <2>4, <3>2, <3>3 DEF NotifiedInv, NotifiedOnce, Step, Becomes, TypeOK
  <2>5. ViewInv'
    BY <1>4, <1>s, OwnView DEF Step
  <2> QED  BY <2>1, <2>2, <2>3, <2>4, <2>5 DEF FormGoal
<1>5. CASE /\ vb[d].trang_thai \notin BanHanh \cup {"huy"}
           /\ Becomes(d, vb[d].luong, "huy", DaHuy) /\ UNCHANGED <<next, notified>>
  <2>1. FlowInv'
    BY <1>5 DEF FlowInv, Becomes, FlowStates
  <2>2. IssuedInv'
    BY <1>5 DEF IssuedInv, Becomes, BanHanh
  <2>3. Numbered = User => NumberedInv'
    BY <1>5 DEF NumberedInv, Becomes
  <2>4. NotifiedInv => NotifiedInv'
    BY <1>5 DEF NotifiedInv, NotifiedOnce, Becomes, BanHanh
  <2>5. ViewInv'
    BY <1>5, <1>s, OwnView
  <2> QED  BY <2>1, <2>2, <2>3, <2>4, <2>5 DEF FormGoal
<1> QED  BY <1>1, <1>2, <1>3, <1>4, <1>5, PressStep

LEMMA FormSave ==
  ASSUME FormInv, NEW u \in User, NEW kh \in Customer, Save(u, kh)
  PROVE  FormGoal'
<1> DEFINE d == form[u].doc
<1>t. TypeOK /\ FormTypeOK
  BY DEF FormInv, NumberInv
<1>1. /\ d \in docs /\ Becomes(d, vb[d].luong, vb[d].trang_thai, vb[d].so_hieu)
      /\ IsOpen(u) /\ Show(u, form[u].view, form[u].doc, vb[d].trang_thai)
      /\ UNCHANGED <<seen, docs, notified>> /\ docs \subseteq Doc
  BY <1>t, SaveStep DEF Save, WriteFields, TypeOK
<1>2. ViewInv'
  BY <1>1, OwnView
<1> HIDE DEF d
<1> USE <1>1 DEF FormInv
<1>3. FlowInv'
  BY DEF FlowInv, Becomes
<1>4. IssuedInv'
  <2>1. vb[d].trang_thai \in BanHanh => d \in docs
    BY <1>1
  <2> QED  BY <2>1 DEF IssuedInv, Becomes
<1>5. Numbered = User => NumberedInv'
  BY DEF NumberedInv, Becomes
<1>6. NotifiedInv => NotifiedInv'
  BY DEF NotifiedInv, NotifiedOnce, Becomes
<1> QED  BY <1>2, <1>3, <1>4, <1>5, <1>6 DEF FormGoal

LEMMA FormDelete ==
  ASSUME FormInv, NEW u \in User, Delete(u)
  PROVE  FormGoal'
<1>1. /\ form[u].doc \in docs /\ vb[form[u].doc].trang_thai \notin BanHanh
      /\ docs' = docs \ {form[u].doc} /\ UNCHANGED <<seen, vb, notified, issued>>
      /\ form' = [form EXCEPT ![u] = Closed]
  BY DEF Delete, Unlink, MayUnlink
<1>2. ViewInv'
  BY <1>1, OtherViews DEF Closed
<1>3. FlowInv' /\ IssuedInv'
  BY <1>1 DEF FormInv, FlowInv, IssuedInv
<1>4. /\ NumberedInv => NumberedInv'
      /\ NotifiedInv => NotifiedInv'
  BY <1>1 DEF NumberedInv, NotifiedInv, NotifiedOnce
<1> QED  BY <1>2, <1>3, <1>4 DEF FormGoal, FormInv

LEMMA FormInvNext == UpToDate /\ FormInv /\ [FormNext]_fvars => FormInv'
<1> SUFFICES ASSUME UpToDate, FormInv, [FormNext]_fvars PROVE FormInv'
  OBVIOUS
<1>t. NumberInv /\ TypeOK /\ FormTypeOK
  BY DEF FormInv, NumberInv
<1>n. NumberInv' /\ FormTypeOK'
  BY <1>t, FormStep, NumberNext, FormTypeNext
<1>0. ASSUME UNCHANGED fvars PROVE FormGoal'
  <2>1. ViewInv'
    BY <1>0 DEF fvars, vars, FormInv, ViewInv, IsOpen
  <2> QED  BY <1>0, <2>1, FormSame DEF fvars, vars
<1>1. ASSUME NEW u \in User, NEW menu \in Menus, NEW d \in Doc, Open(u, menu, d)
      PROVE  FormGoal'
  <2> DEFINE f == [view |-> ViewOf(menu), doc |-> d, trang_thai |-> vb[d].trang_thai]
  <2>1. UNCHANGED vars /\ form' = [form EXCEPT ![u] = f]
    BY <1>1 DEF Open, Show
  <2>2. f.doc \in seen' /\ f.view = ViewOf(vb'[f.doc].luong)
    BY <1>1, <1>t, <2>1 DEF Open, Lists, UpToDate, TypeOK, vars
  <2> HIDE DEF f
  <2>3. ViewInv'
    BY <2>1, <2>2, OtherViews DEF vars
  <2> QED  BY <2>1, <2>3, FormSame DEF vars
<1>2. ASSUME NEW u \in User, CreateFails(u), UNCHANGED form PROVE FormGoal'
  BY <1>2, FormSame DEF CreateFails, FormInv, ViewInv, IsOpen
<1> QED
  BY <1>n, <1>0, <1>1, <1>2, FormNew, FormPress, FormSave, FormDelete
     DEF FormNext, FormGoal, FormInv

LEMMA FormInvariant == ASSUME UpToDate PROVE FormSpec => []FormInv
  BY FormInvInit, FormInvNext, PTL DEF FormSpec

\* Behind up-to-date forms and the menus of the three flows, a document that
\* was ever signed or completed is never deleted: no button leads out of those
\* states (unlink of van_ban.py, the buttons of the two form views).
THEOREM IssuedStay ==
  ASSUME UpToDate PROVE FormSpec => []IssuedNeverDeleted
<1>1. FormInv => IssuedNeverDeleted
  BY DEF FormInv, IssuedInv, IssuedNeverDeleted
<1> QED  BY <1>1, FormInvariant, PTL

\* If all users find the sequence, what is signed or completed has a number:
\* whatever leads to action_done went through action_confirm (van_ban.py).
THEOREM IssuedHaveNumbers ==
  ASSUME UpToDate, Numbered = User PROVE FormSpec => []IssuedIsNumbered
<1>1. FormInv => IssuedIsNumbered
  BY DEF FormInv, NumberedInv, IssuedIsNumbered, BanHanh
<1> QED  BY <1>1, FormInvariant, PTL

\* Where there is somebody else to tell, an internal document is announced once,
\* when it is completed, and no other document is (action_hoan_tat of van_ban.py).
THEOREM AnnouncedOnce ==
  ASSUME UpToDate, \A u \in User : User # {u} PROVE FormSpec => []NotifiedOnce
<1>1. FormInv => NotifiedOnce
  BY DEF FormInv, NotifiedInv
<1> QED  BY <1>1, FormInvariant, PTL

-----------------------------------------------------------------------------
(* The forms implement VanBanRegister.                                     *)


\* What a reader of the register sees of a document, before and after a step.
StatusIs(d, st) ==
  \/ d \notin docs /\ d \notin seen /\ st = "none"
  \/ d \notin docs /\ d \in seen /\ st = "deleted"
  \/ d \in docs /\ vb[d].trang_thai \in BanHanh /\ st = "issued"
  \/ d \in docs /\ vb[d].trang_thai = "huy" /\ st = "cancelled"
  \/ d \in docs /\ vb[d].trang_thai \notin BanHanh \cup {"huy"} /\ st = "open"

NumberIs(d, n) ==
  IF d \in docs /\ vb[d].so_hieu \in Nat THEN n = vb[d].so_hieu ELSE n = NoNumber

LEMMA StatusOf == ASSUME NEW d \in Doc PROVE StatusIs(d, Status[d]) /\ StatusIs(d, Status[d])'
<1>1. "huy" \notin BanHanh
  BY DEF BanHanh
<1>2. StatusIs(d, Status[d])
  BY <1>1 DEF Status, StatusIs
<1>3. StatusIs(d, Status[d])'
  BY <1>1 DEF Status, StatusIs
<1> QED  BY <1>2, <1>3

LEMMA NumberOf == ASSUME NEW d \in Doc PROVE NumberIs(d, Number[d]) /\ NumberIs(d, Number[d])'
  BY DEF Number, NumberIs

LEMMA RegisterTypes ==
  /\ Status = [d \in Doc |-> Status[d]] /\ Status' = [d \in Doc |-> Status'[d]]
  /\ Number = [d \in Doc |-> Number[d]] /\ Number' = [d \in Doc |-> Number'[d]]
  BY DEF Status, Number

\* The document a step is about is the only one whose status and number change.
LEMMA OneDocument ==
  ASSUME NEW d \in Doc,
         \A e \in Doc : e # d => /\ vb'[e] = vb[e]
                                 /\ e \in seen' <=> e \in seen
                                 /\ e \in docs' <=> e \in docs
  PROVE  /\ Status' = [Status EXCEPT ![d] = Status'[d]]
         /\ Number' = [Number EXCEPT ![d] = Number'[d]]
<1>1. ASSUME NEW e \in Doc, e # d PROVE Status'[e] = Status[e]
  <2>1. /\ vb'[e] = vb[e]
        /\ e \in seen' <=> e \in seen
        /\ e \in docs' <=> e \in docs
    BY <1>1
  <2>2. StatusIs(e, Status[e]) /\ StatusIs(e, Status[e])'
    BY StatusOf
  <2>3. "huy" \notin BanHanh
    BY DEF BanHanh
  <2> QED  BY <2>1, <2>2, <2>3 DEF StatusIs
<1>2. ASSUME NEW e \in Doc, e # d PROVE Number'[e] = Number[e]
  BY <1>2, NumberOf DEF NumberIs
<1> QED  BY <1>1, <1>2, RegisterTypes

\* The numbers ever given are those the table ever showed.
LEMMA GivenGrows ==
  ASSUME NumberInv, NEW d, NEW luong, NEW state, NEW number, Becomes(d, luong, state, number)
  PROVE  Given' = Given \cup (IF number \in Nat THEN {number} ELSE {})
<1>1. CASE number \in Nat
  <2>1. carried' = carried \cup {<<number, d>>}
    BY <1>1 DEF Becomes
  <2>2. \A n : n \in Given' <=> \E x \in carried \cup {<<number, d>>} : n = x[1]
    BY <2>1 DEF Given
  <2>3. \A n : n \in Given <=> \E x \in carried : n = x[1]
    BY DEF Given
  <2>4. \A n : n \in Given' <=> n \in Given \/ n = number
    <3>1. <<number, d>>[1] = number
      OBVIOUS
    <3> QED  BY <2>2, <2>3, <3>1
  <2> QED  BY <1>1, <2>4
<1>2. CASE number \notin Nat
  <2>1. carried' = carried
    BY <1>2 DEF Becomes
  <2> QED  BY <1>2, <2>1 DEF Given
<1> QED  BY <1>1, <1>2

\* A number that is shown was given.
LEMMA ShownIsGiven ==
  ASSUME NumberInv, NEW d \in Doc, vb[d].so_hieu \in Nat
  PROVE  vb[d].so_hieu \in Given
<1>1. <<vb[d].so_hieu, d>> \in carried
  BY DEF NumberInv, NumberShown
<1> QED  BY <1>1 DEF Given

\* A drawn number is none, or one that was never given.
LEMMA DrawnIsNew ==
  ASSUME NumberInv, NEW u \in User, NEW number \in SoHieu,
         number \in Nat => number = NextByCode(u)
  PROVE  number \in Nat => number \notin Given
<1> SUFFICES ASSUME number \in Nat PROVE number \notin Given
  OBVIOUS
<1>1. number = next
  BY TextAssumption DEF NextByCode, Text
<1>2. \A x \in carried : x[1] < next /\ x[1] \in Nat
  BY DEF NumberInv, NumberBelow, TypeOK
<1> QED  BY <1>1, <1>2 DEF Given

\* One step of a document from its state and number to others, as the register sees it.
Seen(d, state, number) ==
  /\ Status' = [Status EXCEPT ![d] = Status'[d]]
  /\ Number' = [Number EXCEPT ![d] = Number'[d]]
  /\ Given' = Given \cup (IF number \in Nat THEN {number} ELSE {})
  /\ Status[d] = IF vb[d].trang_thai \in BanHanh THEN "issued"
                 ELSE IF vb[d].trang_thai = "huy" THEN "cancelled" ELSE "open"
  /\ Status'[d] = IF state \in BanHanh THEN "issued"
                  ELSE IF state = "huy" THEN "cancelled" ELSE "open"
  /\ Number[d] = IF vb[d].so_hieu \in Nat THEN vb[d].so_hieu ELSE NoNumber
  /\ Number'[d] = IF number \in Nat THEN number ELSE NoNumber

LEMMA DocumentStep ==
  ASSUME NumberInv, NEW d \in docs, UNCHANGED <<seen, docs>>, NEW state, NEW number \in SoHieu,
         Becomes(d, vb[d].luong, state, number)
  PROVE  Seen(d, state, number)
<1>t. d \in seen /\ d \in Doc
  BY DEF NumberInv, TypeOK
<1>1. /\ Status' = [Status EXCEPT ![d] = Status'[d]]
      /\ Number' = [Number EXCEPT ![d] = Number'[d]]
  BY <1>t, OneDocument DEF Becomes
<1>2. Given' = Given \cup (IF number \in Nat THEN {number} ELSE {})
  BY GivenGrows
<1>3. Status[d] = IF vb[d].trang_thai \in BanHanh THEN "issued"
                  ELSE IF vb[d].trang_thai = "huy" THEN "cancelled" ELSE "open"
  BY <1>t, StatusOf DEF StatusIs, BanHanh
<1>4. Status'[d] = IF state \in BanHanh THEN "issued"
                   ELSE IF state = "huy" THEN "cancelled" ELSE "open"
  BY <1>t, StatusOf DEF StatusIs, Becomes, BanHanh
<1>5. /\ Number[d] = IF vb[d].so_hieu \in Nat THEN vb[d].so_hieu ELSE NoNumber
      /\ Number'[d] = IF number \in Nat THEN number ELSE NoNumber
  BY <1>t, NumberOf DEF NumberIs, Becomes
<1> QED  BY <1>1, <1>2, <1>3, <1>4, <1>5 DEF Seen

RegisterSame == UNCHANGED <<Status, Number, Given>>

\* A step that leaves the status and the number as they are is no step of the register.
LEMMA SameDocument ==
  ASSUME NumberInv, NEW d \in docs, UNCHANGED <<seen, docs>>, NEW state,
         Becomes(d, vb[d].luong, state, vb[d].so_hieu),
         \/ state = vb[d].trang_thai
         \/ vb[d].trang_thai \notin BanHanh \cup {"huy"} /\ state \notin BanHanh \cup {"huy"}
  PROVE  RegisterSame
<1>1. d \in Doc /\ vb[d].so_hieu \in SoHieu
  BY DEF NumberInv, TypeOK, Row
<1>2. Seen(d, state, vb[d].so_hieu)
  BY <1>1, DocumentStep
<1>3. Status'[d] = Status[d] /\ Number'[d] = Number[d]
  BY <1>2 DEF Seen
<1>4. Status' = Status /\ Number' = Number
  BY <1>2, <1>3, RegisterTypes DEF Seen
<1>5. Given' = Given
  BY <1>1, <1>2, ShownIsGiven DEF Seen
<1> QED  BY <1>4, <1>5 DEF RegisterSame

LEMMA NewRefines ==
  ASSUME NumberInv, NEW u \in User, NEW menu \in Menus, NEW d \in Doc,
         NEW kh \in KhachHang, New(u, menu, d, kh)
  PROVE  Register!Register(d)
<1> DEFINE luong == FlowOf(menu)
           number == FirstNumber(u, luong)
<1>t. TypeOK
  BY DEF NumberInv
<1>1. luong \in Luong /\ Becomes(d, luong, FirstState(luong), number)
  BY <1>t, NewStep
<1>2. d \notin seen /\ seen' = seen \cup {d} /\ docs' = docs \cup {d} /\ DrawFor(u)
  BY DEF New, Create
<1> HIDE DEF luong
<1>3. number \in {NextByCode(u), DuThao} /\ number \in SoHieu
  BY <1>1, <1>2, <1>t, DrawType DEF FirstNumber, Luong, SoHieu, Text
<1>4. number \in Nat => number \notin Given
  BY <1>3, TextAssumption, DrawnIsNew DEF Text
<1> HIDE DEF number
<1>5. /\ Status' = [Status EXCEPT ![d] = Status'[d]]
      /\ Number' = [Number EXCEPT ![d] = Number'[d]]
  BY <1>1, <1>2, OneDocument DEF Becomes
<1>6. Status[d] = "none" /\ Status'[d] = "open"
  <2>1. Status[d] = "none"
    BY <1>2, <1>t, StatusOf DEF StatusIs, TypeOK
  <2>2. FirstState(luong) \notin {"da_ky", "hoan_tat", "huy"}
    BY DEF FirstState
  <2>3. Status'[d] = "open"
    BY <1>1, <1>2, <2>2, StatusOf DEF StatusIs, Becomes, BanHanh
  <2> QED  BY <2>1, <2>3
<1>7. Given' = Given \cup (IF number \in Nat THEN {number} ELSE {})
  BY <1>1, GivenGrows
<1>8. Number'[d] = IF number \in Nat THEN number ELSE NoNumber
  BY <1>1, <1>2, NumberOf DEF NumberIs, Becomes
<1>9. Register!Give(Number'[d])
  BY <1>4, <1>7, <1>8 DEF Register!Give
<1>10. Number' = [Number EXCEPT ![d] = Number'[d]]
  BY <1>5
<1> QED  BY <1>5, <1>6, <1>9, <1>10 DEF Register!Register

LEMMA PressRefines ==
  ASSUME FormInv, UpToDate, Numbered = User, NEW u \in User, NEW button, Press(u, button)
  PROVE  Register!Next \/ RegisterSame
<1> DEFINE d == form[u].doc
<1>t. NumberInv /\ TypeOK /\ FormTypeOK
  BY DEF FormInv, NumberInv
<1>1. d \in docs /\ UNCHANGED <<seen, docs>>
  BY PressStep
<1>2. d \in Doc /\ vb[d].so_hieu \in SoHieu
  BY <1>1, <1>t DEF TypeOK, Row
<1> USE <1>t, <1>1, <1>2
<1>3. CASE /\ vb[d].luong = "di" /\ vb[d].trang_thai = "du_thao"
           /\ DrawFor(u) /\ Becomes(d, "di", "cho_duyet", NextByCode(u))
  <2> DEFINE number == NextByCode(u)
  <2>1. number \in SoHieu /\ (number \in Nat => number \notin Given)
    BY <1>3, DrawType, DrawnIsNew
  <2> HIDE DEF number
  <2>2. Becomes(d, vb[d].luong, "cho_duyet", number)
    BY <1>3 DEF number
  <2>s. Seen(d, "cho_duyet", number)
    BY <2>1, <2>2, DocumentStep
  <2>3. /\ Status[d] = "open" /\ Status'[d] = "open"
        /\ Status' = [Status EXCEPT ![d] = Status'[d]]
        /\ Number' = [Number EXCEPT ![d] = Number'[d]]
        /\ Number'[d] = IF number \in Nat THEN number ELSE NoNumber
        /\ Given' = Given \cup (IF number \in Nat THEN {number} ELSE {})
    BY <1>3, <2>s DEF Seen, BanHanh
  <2>4. UNCHANGED Status
    BY <2>3, RegisterTypes
  <2>5. Register!Give(Number'[d])
    BY <2>1, <2>3, <2>4 DEF Register!Give
  <2> QED  BY <2>3, <2>4, <2>5 DEF Register!Renumber, Register!Next
<1>4. ASSUME Step(d, "cho_duyet", "da_ky") \/ Step(d, "dang_xu_ly", "hoan_tat")
      PROVE  Register!Issue(d)
  <2>1. PICK state \in BanHanh : /\ Becomes(d, vb[d].luong, state, vb[d].so_hieu)
                                 /\ vb[d].trang_thai \in {"cho_duyet", "dang_xu_ly"}
    BY <1>4 DEF Step, BanHanh
  <2>2. vb[d].so_hieu \in Nat
    BY <2>1 DEF FormInv, NumberedInv
  <2>s. Seen(d, state, vb[d].so_hieu)
    BY <2>1, DocumentStep
  <2>3. /\ Status[d] = "open" /\ Status'[d] = "issued"
        /\ Status' = [Status EXCEPT ![d] = Status'[d]]
        /\ Number' = [Number EXCEPT ![d] = Number'[d]]
        /\ Number[d] = vb[d].so_hieu /\ Number'[d] = vb[d].so_hieu
        /\ Given' = Given \cup {vb[d].so_hieu}
    BY <2>1, <2>2, <2>s DEF Seen, BanHanh
  <2>4. UNCHANGED <<Number, Given>>
    BY <2>2, <2>3, ShownIsGiven, RegisterTypes
  <2>5. Number[d] # NoNumber
    BY <2>2, <2>3, TextAssumption DEF NoNumber, Text
  <2> QED  BY <2>3, <2>4, <2>5 DEF Register!Issue
<1>5. ASSUME Step(d, "tiep_nhan", "dang_xu_ly") PROVE RegisterSame
  BY <1>5, SameDocument DEF Step, BanHanh
<1>6. ASSUME vb[d].trang_thai \notin BanHanh \cup {"huy"}, Becomes(d, vb[d].luong, "huy", DaHuy)
      PROVE  Register!Cancel(d)
  <2>1. DaHuy \in SoHieu /\ DaHuy \notin Nat
    BY TextAssumption DEF SoHieu, Text
  <2>s. Seen(d, "huy", DaHuy)
    BY <1>6, <2>1, DocumentStep
  <2>2. /\ Status[d] = "open" /\ Status'[d] = "cancelled"
        /\ Status' = [Status EXCEPT ![d] = Status'[d]]
        /\ Number' = [Number EXCEPT ![d] = Number'[d]]
        /\ Number'[d] = NoNumber /\ Given' = Given
    BY <1>6, <2>1, <2>s DEF Seen, BanHanh
  <2> QED  BY <2>2 DEF Register!Cancel
<1> QED  BY <1>3, <1>4, <1>5, <1>6, PressStep DEF Register!Next

LEMMA DeleteRefines ==
  ASSUME FormInv, NEW u \in User, Delete(u)
  PROVE  Register!Next
<1> DEFINE d == form[u].doc
<1>1. /\ d \in docs /\ d \in Doc /\ d \in seen /\ vb[d].trang_thai \notin BanHanh
      /\ docs' = docs \ {d} /\ UNCHANGED <<seen, vb, carried>>
  BY DEF Delete, Unlink, MayUnlink, FormInv, NumberInv, TypeOK
<1> HIDE DEF d
<1>2. /\ Status' = [Status EXCEPT ![d] = Status'[d]]
      /\ Number' = [Number EXCEPT ![d] = Number'[d]]
  BY <1>1, OneDocument
<1>3. Status[d] \in {"open", "cancelled"} /\ Status'[d] = "deleted"
  BY <1>1, StatusOf DEF StatusIs, BanHanh
<1>4. Number'[d] = NoNumber /\ Given' = Given
  BY <1>1, NumberOf DEF NumberIs, Given
<1> QED  BY <1>1, <1>2, <1>3, <1>4 DEF Register!Delete, Register!Next

LEMMA NothingSeen ==
  ASSUME UNCHANGED <<seen, docs, vb, carried>>
  PROVE  RegisterSame
  BY DEF RegisterSame, Status, Number, Given, Status, Number

LEMMA FormRefines ==
  ASSUME UpToDate, Numbered = User, FormInv, [FormNext]_fvars
  PROVE  Register!Next \/ RegisterSame
<1>t. NumberInv /\ TypeOK /\ FormTypeOK
  BY DEF FormInv, NumberInv
<1>0. CASE UNCHANGED fvars
  BY <1>0, NothingSeen DEF fvars, vars
<1>1. ASSUME NEW u \in User, NEW menu \in Menus, NEW d \in Doc, Open(u, menu, d)
      PROVE  RegisterSame
  BY <1>1, NothingSeen DEF Open, vars
<1>2. ASSUME NEW u \in User, NEW menu \in Menus, NEW d \in Doc,
             NEW kh \in KhachHang, New(u, menu, d, kh)
      PROVE  Register!Next
  BY <1>2, <1>t, NewRefines DEF Register!Next
<1>3. ASSUME NEW u \in User, NEW kh \in Customer, Save(u, kh) PROVE RegisterSame
  <2>1. UNCHANGED <<seen, docs>>
    BY <1>3 DEF Save, WriteFields
  <2> QED  BY <1>3, <1>t, <2>1, SaveStep, SameDocument
<1>4. ASSUME NEW u \in User, CreateFails(u) PROVE RegisterSame
  BY <1>4, NothingSeen DEF CreateFails
<1> QED
  BY <1>0, <1>1, <1>2, <1>3, <1>4, PressRefines, DeleteRefines DEF FormNext

\* The forms implement the register that VanBanRegister promises, if they are up
\* to date, the menus are those of the three flows and all users find the
\* sequence: numbers are given once, and what is issued stands.
THEOREM FormsKeepRegister ==
  ASSUME UpToDate, Numbered = User PROVE FormSpec => KeepsRegister
<1>1. FormInit => Register!Init
  <2> SUFFICES ASSUME FormInit PROVE Register!Init
    OBVIOUS
  <2>1. seen = {} /\ docs = {} /\ carried = {}
    BY DEF FormInit, Init
  <2>2. \A d \in Doc : Status[d] = "none" /\ Number[d] = NoNumber
    BY <2>1, StatusOf, NumberOf DEF StatusIs, NumberIs
  <2>3. Given = {}
    BY <2>1 DEF Given
  <2> QED  BY <2>2, <2>3, RegisterTypes DEF Register!Init
<1>2. FormInv /\ [FormNext]_fvars => [Register!Next]_(Register!vars)
  BY FormRefines DEF RegisterSame, Register!vars
<1> QED  BY <1>1, <1>2, FormInvariant, PTL DEF FormSpec, KeepsRegister, Register!Spec
=============================================================================

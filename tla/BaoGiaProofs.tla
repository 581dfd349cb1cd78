---------------------------- MODULE BaoGiaProofs ----------------------------
(***************************************************************************)
(* Theorems about a quotation, for any lines, amounts and requests.        *)
(*                                                                         *)
(* TotalsInv says that what is stored is what the code computes from the   *)
(* lines as they are; that this is what users filled in calls for is a     *)
(* matter of arithmetic.  MailedInv says that a request whose row has not  *)
(* been updated since its snapshot mailed the lines as they are.           *)
(***************************************************************************)
EXTENDS BaoGia, TLAPS

LinesComputed == \A l \in DOMAIN line : line[l].thanh_tien = LineTotal(line[l])
TotalsStored  == life # "deleted" => quote.tong = Totals(line, quote.thue)

TotalsInv == TypeOK /\ LinesComputed /\ TotalsStored

MailedInv ==
  /\ TypeOK
  /\ view = [r \in Request |-> view[r]]
  /\ \A r \in Request : phase[r] = "mailed" /\ ~missed[r] => view[r] = Snapshot

-----------------------------------------------------------------------------
\* An amount computed from typed inputs is an integer, and what remains of the
\* gross amount after the discount.
LEMMA Amount ==
  ASSUME NEW x, x.so_luong \in Int, x.don_gia \in Int, x.giam_gia \in Int
  PROVE  /\ LineTotal(x) \in Int
         /\ LineTotal(x) = x.so_luong * x.don_gia * (100 - x.giam_gia)
<1> DEFINE a == x.so_luong * x.don_gia
<1>1. a \in Int
  OBVIOUS
<1>2. \A p, q \in Int : p * (100 - q) = 100 * p - p * q
  OBVIOUS
<1>3. a * (100 - x.giam_gia) = 100 * a - a * x.giam_gia
  BY <1>1, <1>2
<1>4. 100 * x.so_luong * x.don_gia = 100 * a
  OBVIOUS
<1>5. LineTotal(x) = 100 * a - a * x.giam_gia
  BY <1>4 DEF LineTotal
<1> QED  BY <1>1, <1>3, <1>5

\* A row that a save writes is a row with its amount computed; where no total
\* depends on what was written, it is the row as it was.
LEMMA WrittenLine ==
  ASSUME NEW x \in LineRow, x.thanh_tien = LineTotal(x), NEW F \in Changes,
         NEW new \in Input, NEW price \in ListPrice
  PROVE  LET y == Recomputed(Overwritten(x, F, new, price), F)
         IN  /\ y \in LineRow
             /\ y.thanh_tien = LineTotal(y)
             /\ Touched(F) \cap TotalsDepends = {} => y = x
<1> DEFINE o == Overwritten(x, F, new, price)
           y == Recomputed(o, F)
<1>1. /\ o.so_luong \in SoLuong /\ o.don_gia \in DonGia /\ o.giam_gia \in GiamGia
      /\ o = [so_luong |-> o.so_luong, don_gia |-> o.don_gia, giam_gia |-> o.giam_gia,
              thanh_tien |-> o.thanh_tien]
  BY AmountAssumption DEF Overwritten, LineRow, Input
<1>2. CASE "thanh_tien" \in Touched(F)
  <2>1. y = [o EXCEPT !.thanh_tien = LineTotal(o)]
    BY <1>2 DEF Recomputed
  <2>2. LineTotal(o) \in Int
    BY <1>1, AmountAssumption, Amount
  <2> HIDE DEF o
  <2>3. y = [so_luong |-> o.so_luong, don_gia |-> o.don_gia, giam_gia |-> o.giam_gia,
             thanh_tien |-> LineTotal(o)]
    BY <1>1, <2>1
  <2> HIDE DEF y
  <2>4. LineTotal(y) = LineTotal(o)
    BY <2>3 DEF LineTotal
  <2>5. Touched(F) \cap TotalsDepends # {}
    BY <1>2 DEF TotalsDepends
  <2>6. y \in LineRow
    BY <1>1, <2>2, <2>3 DEF LineRow
  <2>7. y.thanh_tien = LineTotal(o)
    BY <2>3
  <2> QED  BY <2>4, <2>5, <2>6, <2>7 DEF y, o
<1>3. CASE "thanh_tien" \notin Touched(F)
  <2>1. "so_luong" \notin F /\ "don_gia" \notin F /\ "giam_gia" \notin F /\ "san_pham_mau" \notin F
    BY <1>3 DEF Touched, LineDepends
  <2>2. o = x
    BY <1>3, <2>1 DEF Overwritten, ComputesInfo, LineRow
  <2>3. y = x
    BY <1>3, <2>2 DEF Recomputed
  <2> QED  BY <2>3
<1> QED  BY <1>2, <1>3

-----------------------------------------------------------------------------
LEMMA TotalsInit == Init => TotalsInv
<1> SUFFICES ASSUME Init PROVE TotalsInv
  OBVIOUS
<1>1. line = NoLines /\ DOMAIN NoLines = {}
  BY DEF Init, NoLines
<1>2. TypeOK
  BY <1>1, ThueAssumption, TriesAssumption DEF Init, TypeOK, NoLines, TrangThai
<1>3. LinesComputed
  BY <1>1 DEF LinesComputed
<1>4. TotalsStored
  BY DEF Init, TotalsStored
<1> QED  BY <1>2, <1>3, <1>4 DEF TotalsInv

\* A save of typed, computed lines keeps the invariant.
LEMMA SavedTotals ==
  ASSUME TotalsInv, NEW rows, NEW thue \in Thue, NEW state \in TrangThai, Saved(rows, thue, state),
         DOMAIN rows \subseteq Line, rows \in [DOMAIN rows -> LineRow],
         \A l \in DOMAIN rows : rows[l].thanh_tien = LineTotal(rows[l])
  PROVE  TotalsInv'
<1>1. /\ line' = rows
      /\ quote' = [thue |-> thue, trang_thai |-> state, tong |-> Totals(rows, thue)]
      /\ missed' = Unseen
      /\ UNCHANGED <<life, phase, tries, view>>
  BY DEF Saved
<1>2. TypeOK'
  BY <1>1 DEF TotalsInv, TypeOK, Unseen
<1>3. LinesComputed'
  BY <1>1 DEF LinesComputed
<1>4. TotalsStored'
  BY <1>1 DEF TotalsStored
<1> QED  BY <1>2, <1>3, <1>4 DEF TotalsInv

\* Where a call ends, its own record stays typed.
LEMMA EndTyped ==
  ASSUME TypeOK, NEW r \in Request, End(r),
         missed' = [Unseen EXCEPT ![r] = FALSE] \/ missed' = [missed EXCEPT ![r] = FALSE]
  PROVE  /\ phase'  \in [Request -> {"idle", "mailed"}]
         /\ tries'  \in [Request -> 0 .. MaxTries]
         /\ missed' \in [Request -> BOOLEAN]
<1>1. phase' \in [Request -> {"idle", "mailed"}]
  BY DEF TypeOK, End
<1>2. tries' \in [Request -> 0 .. MaxTries]
  <2>1. tries' = [tries EXCEPT ![r] = 0] /\ tries \in [Request -> 0 .. MaxTries]
    BY DEF TypeOK, End
  <2>2. 0 \in 0 .. MaxTries
    BY TriesAssumption
  <2> QED  BY <2>1, <2>2
<1>3. missed' \in [Request -> BOOLEAN]
  BY DEF TypeOK, Unseen
<1> QED  BY <1>1, <1>2, <1>3

LEMMA TotalsNext == TotalsInv /\ [Next]_vars => TotalsInv'
<1> SUFFICES ASSUME TotalsInv, [Next]_vars PROVE TotalsInv'
  OBVIOUS
<1> USE DEF TotalsInv
<1>t. /\ TypeOK /\ DOMAIN line \subseteq Line /\ line \in [DOMAIN line -> LineRow]
      /\ quote.thue \in Thue /\ quote.trang_thai \in TrangThai
  BY DEF TypeOK
<1>1. CASE UNCHANGED vars
  BY <1>1 DEF vars, TypeOK, LinesComputed, TotalsStored
<1>2. ASSUME NEW l \in Line, NEW new \in Input, AddLine(l, new) PROVE TotalsInv'
  <2> DEFINE x == [so_luong |-> new.so_luong, don_gia |-> new.don_gia,
                   giam_gia |-> new.giam_gia, thanh_tien |-> LineTotal(new)]
             rows == [k \in DOMAIN line \cup {l} |-> IF k = l THEN x ELSE line[k]]
  <2>1. Saved(rows, quote.thue, quote.trang_thai)
    BY <1>2 DEF AddLine
  <2>2. LineTotal(new) \in Int
    BY AmountAssumption, Amount DEF Input
  <2>3. x \in LineRow
    BY <2>2 DEF LineRow, Input
  <2>4. x.thanh_tien = LineTotal(x)
    BY DEF LineTotal
  <2> HIDE DEF x
  <2>5. DOMAIN rows \subseteq Line /\ rows \in [DOMAIN rows -> LineRow]
    BY <1>t, <2>3
  <2>6. \A k \in DOMAIN rows : rows[k].thanh_tien = LineTotal(rows[k])
    BY <2>4 DEF LinesComputed
  <2> HIDE DEF rows
  <2> QED  BY <1>t, <2>1, <2>5, <2>6, SavedTotals
<1>3. ASSUME NEW l \in Line, NEW F \in Changes, NEW new \in Input, NEW price \in ListPrice,
             WriteLine(l, F, new, price)
      PROVE TotalsInv'
  <2> DEFINE x    == Recomputed(Overwritten(line[l], F, new, price), F)
             rows == [line EXCEPT ![l] = x]
  <2>1. l \in DOMAIN line
    BY <1>3 DEF WriteLine
  <2>2. line[l] \in LineRow /\ line[l].thanh_tien = LineTotal(line[l])
    BY <1>t, <2>1 DEF LinesComputed
  <2>3. /\ x \in LineRow /\ x.thanh_tien = LineTotal(x)
        /\ Touched(F) \cap TotalsDepends = {} => x = line[l]
    BY <2>2, WrittenLine
  <2>4. CASE Touched(F) \cap TotalsDepends # {}
    <3>1. Saved(rows, quote.thue, quote.trang_thai)
      BY <1>3, <2>4 DEF WriteLine
    <3> HIDE DEF x
    <3>2. DOMAIN rows \subseteq Line /\ rows \in [DOMAIN rows -> LineRow]
      BY <1>t, <2>3
    <3>3. \A k \in DOMAIN rows : rows[k].thanh_tien = LineTotal(rows[k])
      BY <1>t, <2>3 DEF LinesComputed
    <3> HIDE DEF rows
    <3> QED  BY <1>t, <3>1, <3>2, <3>3, SavedTotals
  <2>5. CASE Touched(F) \cap TotalsDepends = {}
    <3>1. /\ line' = rows /\ missed' = Unseen
          /\ UNCHANGED <<life, quote, phase, tries, view>>
      BY <1>3, <2>5 DEF WriteLine
    <3> HIDE DEF x
    <3>2. rows = line
      BY <1>t, <2>1, <2>3, <2>5
    <3> QED  BY <3>1, <3>2 DEF TypeOK, LinesComputed, TotalsStored, Unseen
  <2> QED  BY <2>4, <2>5
<1>4. ASSUME NEW l \in Line, DeleteLine(l) PROVE TotalsInv'
  <2> DEFINE rows == [k \in DOMAIN line \ {l} |-> line[k]]
  <2>1. Saved(rows, quote.thue, quote.trang_thai)
    BY <1>4 DEF DeleteLine
  <2>2. DOMAIN rows \subseteq Line /\ rows \in [DOMAIN rows -> LineRow]
    BY <1>t
  <2>3. \A k \in DOMAIN rows : rows[k].thanh_tien = LineTotal(rows[k])
    BY DEF LinesComputed
  <2> HIDE DEF rows
  <2> QED  BY <1>t, <2>1, <2>2, <2>3, SavedTotals
<1>5. ASSUME NEW thue \in Thue, WriteThue(thue) PROVE TotalsInv'
  BY <1>t, <1>5, SavedTotals DEF WriteThue, LinesComputed
<1>6. ASSUME NEW state \in Clicked, WriteTrangThai(state) PROVE TotalsInv'
  BY <1>6, ClickedAssumption DEF WriteTrangThai, TypeOK, LinesComputed, TotalsStored, Unseen
<1>7. CASE Create
  BY <1>7 DEF Create, TypeOK, LinesComputed, TotalsStored
<1>8. CASE Unlink
  <2>1. DOMAIN NoLines = {} /\ NoLines \in [{} -> LineRow]
    BY DEF NoLines
  <2> QED  BY <1>8, <2>1 DEF Unlink, TypeOK, LinesComputed, TotalsStored, Unseen
<1>9. ASSUME NEW r \in Request, NEW n \in 0 .. MaxTries, Mail(r, n) PROVE TotalsInv'
  BY <1>9 DEF Mail, TypeOK, LinesComputed, TotalsStored
<1>10. ASSUME NEW r \in Request, Begin(r) PROVE TotalsInv'
  BY <1>9, <1>10, TriesAssumption DEF Begin
<1>11. ASSUME NEW r \in Request, Commit(r) PROVE TotalsInv'
  <2>1. /\ quote' = [thue |-> quote.thue, trang_thai |-> "da_gui", tong |-> quote.tong]
        /\ UNCHANGED <<life, line>>
    BY <1>11 DEF Commit, TypeOK
  <2>2. TypeOK'
    BY <1>11, <2>1, EndTyped DEF Commit, TypeOK, TrangThai
  <2> QED  BY <2>1, <2>2 DEF LinesComputed, TotalsStored
<1>12. ASSUME NEW r \in Request, Retry(r) PROVE TotalsInv'
  <2>1. tries[r] + 1 \in 0 .. MaxTries
    BY <1>12, TriesAssumption DEF Retry, TypeOK
  <2> QED  BY <1>9, <1>12, <2>1 DEF Retry
<1>13. ASSUME NEW r \in Request, GiveUp(r) \/ Abort(r) PROVE TotalsInv'
  <2>1. UNCHANGED <<life, line, quote>>
    BY <1>13 DEF GiveUp, Abort
  <2>2. TypeOK'
    BY <1>13, <2>1, EndTyped DEF GiveUp, Abort, TypeOK
  <2> QED  BY <2>1, <2>2 DEF LinesComputed, TotalsStored
<1> QED
  BY <1>1, <1>2, <1>3, <1>4, <1>5, <1>6, <1>7, <1>8, <1>10, <1>11, <1>12, <1>13
  DEF Next, Save, Serve

\* The stored fields of a quotation keep their types (fields of BaoGia and
\* BaoGiaChiTiet), and the retry loop its bound.
THEOREM TypeCorrect == Spec => []TypeOK
<1>1. TotalsInv => TypeOK
  BY DEF TotalsInv
<1> QED  BY <1>1, TotalsInit, TotalsNext, PTL DEF Spec

\* What is stored with a quotation is what its lines call for, whatever forms
\* sent and in whatever order.
THEOREM TotalsCorrect == Spec => []TotalsFitLines
<1>1. TotalsInv => TotalsFitLines
  <2> SUFFICES ASSUME TotalsInv, life = "live" PROVE TotalsFitLines
    BY DEF TotalsFitLines
  <2> DEFINE amounts == [l \in DOMAIN line |-> line[l].thanh_tien]
             nets    == [l \in DOMAIN line |-> Net(l)]
             gross   == [l \in DOMAIN line |-> Gross(l)]
             grosses == [l \in DOMAIN line |-> 100 * line[l].so_luong * line[l].don_gia]
  <2>1. \A l \in DOMAIN line : line[l].thanh_tien = Net(l)
    <3> SUFFICES ASSUME NEW l \in DOMAIN line PROVE line[l].thanh_tien = Net(l)
      OBVIOUS
    <3>1. line[l] \in LineRow
      BY DEF TotalsInv, TypeOK
    <3>2. line[l].so_luong \in Int /\ line[l].don_gia \in Int /\ line[l].giam_gia \in Int
      BY <3>1, AmountAssumption DEF LineRow
    <3>3. line[l].thanh_tien = LineTotal(line[l])
      BY DEF TotalsInv, LinesComputed
    <3> QED  BY <3>2, <3>3, Amount DEF Net
  <2>2. amounts = nets
    BY <2>1
  <2>3. grosses = gross
    BY DEF Gross
  <2>4. quote.tong = Totals(line, quote.thue)
    BY DEF TotalsInv, TotalsStored
  <2>5. quote.tong = [tien_hang_chua_thue |-> SumFunction(nets),
                      giam_gia            |-> IF SumFunction(gross) > 0
                                              THEN <<SumFunction(gross) - SumFunction(nets),
                                                     SumFunction(gross)>>
                                              ELSE <<0, 0>>,
                      thue_vat_thanh_tien |-> SumFunction(nets) * quote.thue,
                      tong_tien           |-> 100 * SumFunction(nets)
                                              + SumFunction(nets) * quote.thue]
    BY <2>2, <2>3, <2>4, Zenon DEF Totals
  <2> HIDE DEF amounts, nets, gross, grosses
  <2>6. /\ quote.tong.tong_tien = 100 * SumFunction(nets) + SumFunction(nets) * quote.thue
        /\ quote.tong.tien_hang_chua_thue = SumFunction(nets)
        /\ quote.tong.thue_vat_thanh_tien = SumFunction(nets) * quote.thue
        /\ SumFunction(gross) > 0 =>
             quote.tong.giam_gia = <<SumFunction(gross) - SumFunction(nets), SumFunction(gross)>>
    BY <2>5
  <2> QED  BY <2>1, <2>6, Zenon DEF TotalsFitLines, nets, gross
<1> QED  BY <1>1, TotalsInit, TotalsNext, PTL DEF Spec

-----------------------------------------------------------------------------
\* A commit on the row makes every open request miss it.
LEMMA AllMissed ==
  ASSUME MailedInv, TypeOK', missed' = Unseen, UNCHANGED <<phase, view>>
  PROVE  MailedInv'
BY DEF MailedInv, Unseen

\* A request that (again) mails holds the lines as they are.
LEMMA MailFresh ==
  ASSUME MailedInv, TypeOK', NEW r \in Request, NEW n, Mail(r, n)
  PROVE  MailedInv'
<1>1. Snapshot' = Snapshot
  BY DEF Mail, Snapshot
<1>2. view' = [view EXCEPT ![r] = Snapshot] /\ view = [q \in Request |-> view[q]]
  BY DEF Mail, MailedInv
<1>3. ASSUME NEW q \in Request, phase'[q] = "mailed", ~missed'[q] PROVE view'[q] = Snapshot
  <2>1. CASE q = r
    BY <1>2, <2>1
  <2>2. CASE q # r
    <3>1. phase[q] = phase'[q] /\ missed[q] = missed'[q] /\ view'[q] = view[q]
      BY <1>2, <2>2 DEF Mail, MailedInv, TypeOK
    <3> QED  BY <1>3, <3>1 DEF MailedInv
  <2> QED  BY <2>1, <2>2
<1>4. view' = [q \in Request |-> view'[q]]
  BY <1>2
<1> QED  BY <1>1, <1>3, <1>4 DEF MailedInv

LEMMA MailedNext == MailedInv /\ TypeOK' /\ [Next]_vars => MailedInv'
<1> SUFFICES ASSUME MailedInv, TypeOK', [Next]_vars PROVE MailedInv'
  OBVIOUS
<1>1. CASE UNCHANGED vars
  BY <1>1 DEF vars, MailedInv, Snapshot
<1>2. CASE Save
  <2>1. CASE Create
    BY <2>1 DEF Create, MailedInv, Snapshot
  <2>2. CASE ~Create
    <3>1. missed' = Unseen /\ UNCHANGED <<phase, view>>
      BY <1>2, <2>2
      DEF Save, AddLine, WriteLine, DeleteLine, WriteThue, WriteTrangThai, Unlink, Saved
    <3> QED  BY <3>1, AllMissed
  <2> QED  BY <2>1, <2>2
<1>3. ASSUME NEW r \in Request, Begin(r) \/ Retry(r) PROVE MailedInv'
  <2>1. Mail(r, 0) \/ Mail(r, tries[r] + 1)
    BY <1>3 DEF Begin, Retry
  <2> QED  BY <2>1, MailFresh
<1>4. ASSUME NEW r \in Request, Commit(r) PROVE MailedInv'
  <2>1. \A q \in Request : ~(phase'[q] = "mailed" /\ ~missed'[q])
    BY <1>4 DEF Commit, End, MailedInv, TypeOK, Unseen
  <2>2. view' = [q \in Request |-> view'[q]]
    BY <1>4 DEF Commit, End, MailedInv
  <2> QED  BY <2>1, <2>2 DEF MailedInv
<1>5. ASSUME NEW r \in Request, GiveUp(r) \/ Abort(r) PROVE MailedInv'
  <2>1. Snapshot' = Snapshot
    BY <1>5 DEF GiveUp, Abort, Snapshot
  <2>2. /\ phase'  = [phase EXCEPT ![r] = "idle"]
        /\ missed' = [missed EXCEPT ![r] = FALSE]
        /\ view'   = [view EXCEPT ![r] = NoSnapshot]
        /\ view    = [q \in Request |-> view[q]]
    BY <1>5 DEF GiveUp, Abort, End, MailedInv
  <2>3. ASSUME NEW q \in Request, phase'[q] = "mailed", ~missed'[q] PROVE view'[q] = Snapshot
    <3>1. q # r
      BY <2>2, <2>3 DEF MailedInv, TypeOK
    <3>2. phase[q] = phase'[q] /\ missed[q] = missed'[q] /\ view'[q] = view[q]
      BY <2>2, <3>1 DEF MailedInv, TypeOK
    <3> QED  BY <2>3, <3>2 DEF MailedInv
  <2>4. view' = [q \in Request |-> view'[q]]
    BY <2>2
  <2> QED  BY <2>1, <2>3, <2>4 DEF MailedInv
<1> QED  BY <1>1, <1>2, <1>3, <1>4, <1>5 DEF Next, Serve

\* Only the commit of a call both ends it and marks the quotation as sent, and
\* it does not pass where the row was updated since the snapshot.
LEMMA MailedStep ==
  ASSUME MailedInv, [Next]_vars, NEW r \in Request,
         phase[r] = "mailed", phase'[r] = "idle",
         quote.trang_thai # "da_gui", quote'.trang_thai = "da_gui"
  PROVE  view[r] = [line |-> line', tong |-> quote'.tong]
<1>1. phase' # phase /\ quote' # quote
  OBVIOUS
<1>2. ~Save
  BY <1>1
  DEF Save, AddLine, WriteLine, DeleteLine, WriteThue, WriteTrangThai, Create, Unlink, Saved
<1>3. PICK q \in Request : Begin(q) \/ Serve(q) \/ Abort(q)
  BY <1>1, <1>2 DEF Next, vars
<1>4. Commit(q)
  BY <1>1, <1>3 DEF Serve, Begin, Retry, Mail, GiveUp, Abort
<1>5. q = r
  BY <1>4 DEF Commit, End, MailedInv, TypeOK
<1>6. ~missed[r]
  BY <1>4, <1>5 DEF Commit, Clash
<1>7. view[r] = Snapshot
  BY <1>6 DEF MailedInv
<1>8. line' = line /\ quote'.tong = quote.tong
  BY <1>4 DEF Commit, MailedInv, TypeOK
<1> QED  BY <1>7, <1>8 DEF Snapshot

\* action_gui_mail_bao_gia: what a call marks as sent, it has mailed.
THEOREM MailedCorrect == Spec => MailedAsMarked
<1>1. Init => MailedInv
  BY TotalsInit DEF Init, MailedInv, TotalsInv
<1>2. TotalsInv => TypeOK
  BY DEF TotalsInv
<1>3. MailedInv /\ [Next]_vars =>
        [\A r \in Request :
           /\ phase[r] = "mailed" /\ phase'[r] = "idle"
           /\ quote.trang_thai # "da_gui" /\ quote'.trang_thai = "da_gui"
           => view[r] = [line |-> line', tong |-> quote'.tong]]_vars
  BY MailedStep
<1> QED
  BY <1>1, <1>2, <1>3, TotalsInit, TotalsNext, MailedNext, PTL DEF Spec, MailedAsMarked
=============================================================================

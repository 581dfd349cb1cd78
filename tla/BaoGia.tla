------------------------------- MODULE BaoGia -------------------------------
(***************************************************************************)
(* One quotation: its lines, the totals stored with them, and its mail to  *)
(* the customer (src/addons/khach_hang/models/bao_gia.py).                 *)
(*                                                                         *)
(* Totals are stored computed fields: the ORM computes them again when a   *)
(* field they are declared to depend on is written.  action_gui_mail_      *)
(* bao_gia mails what the snapshot of its transaction holds and then       *)
(* writes the state.  A mail that is out does not come back, whatever      *)
(* becomes of the transaction; users save the form meanwhile.              *)
(*                                                                         *)
(* Amounts are exact: those of lines count hundredths, those with tax ten  *)
(* thousandths.  Lines have no form of their own: they are saved in the    *)
(* form of the quotation, and every such save updates the row of the       *)
(* quotation, if only its write_date.                                      *)
(***************************************************************************)
EXTENDS Integers, Functions

CONSTANTS
  Line,         \* lines the quotation may have
  SoLuong,      \* quantities
  DonGia,       \* prices
  GiamGia,      \* discounts, in percent
  Thue,         \* rates of tax, in percent
  ListPrice,    \* prices _compute_info knows for the products
  Changes,      \* bound: the sets of fields of a line one save may change
  Clicked,      \* bound: the states users choose in the status bar
  Request,      \* requests that may mail the quotation
  MaxTries      \* MAX_TRIES_ON_CONCURRENCY_FAILURE

\* The code sets no limits to amounts: they may be negative.
ASSUME AmountAssumption == /\ SoLuong \subseteq Int
                           /\ DonGia \subseteq Int
                           /\ GiamGia \subseteq Int
                           /\ Thue \subseteq Int
                           /\ ListPrice \subseteq DonGia
ASSUME ThueAssumption   == 10 \in Thue
ASSUME ChangeAssumption ==
  Changes \subseteq SUBSET {"san_pham_mau", "ten_hien_thi", "so_luong", "don_gia", "giam_gia"}
ASSUME TriesAssumption  == MaxTries \in Nat

TrangThai == {"du_thao", "da_gui", "chap_nhan", "tu_choi"}

ASSUME ClickedAssumption == Clicked \subseteq TrangThai

VARIABLES
  life,         \* whether the quotation exists
  line,         \* its lines
  quote,        \* its row: tax, stored totals, state
  phase,        \* of each request: idle, or mailed and not committed
  tries,        \* retries of each request
  view,         \* lines and row in the snapshot of each open request
  missed        \* the row was updated by a commit the request cannot see

vars == <<life, line, quote, phase, tries, view, missed>>

\* What a user fills in of a line, and what is computed from it.
Input   == [so_luong : SoLuong, don_gia : DonGia, giam_gia : GiamGia]
LineRow == [so_luong : SoLuong, don_gia : DonGia, giam_gia : GiamGia, thanh_tien : Int]

\* The stored totals are in quote.tong; TotalsFitLines says what they are.
TypeOK ==
  /\ life   \in {"new", "live", "deleted"}
  /\ DOMAIN line \subseteq Line
  /\ line   \in [DOMAIN line -> LineRow]
  /\ quote  = [thue |-> quote.thue, trang_thai |-> quote.trang_thai, tong |-> quote.tong]
  /\ quote.thue \in Thue
  /\ quote.trang_thai \in TrangThai
  /\ phase  \in [Request -> {"idle", "mailed"}]
  /\ tries  \in [Request -> 0 .. MaxTries]
  /\ missed \in [Request -> BOOLEAN]

-----------------------------------------------------------------------------
(* Computed fields *)

NoLines == [l \in {} |-> 0]

\* _compute_line_total
LineTotal(x) ==
  100 * x.so_luong * x.don_gia - x.so_luong * x.don_gia * x.giam_gia

\* _compute_totals.  The percentage is a fraction: what was taken off, and of
\* how much; nothing of nothing is no discount.
Totals(rows, thue) ==
  LET chua_giam == SumFunction([l \in DOMAIN rows |-> 100 * rows[l].so_luong * rows[l].don_gia])
      sau_giam  == SumFunction([l \in DOMAIN rows |-> rows[l].thanh_tien])
  IN  [tien_hang_chua_thue |-> sau_giam,
       giam_gia            |-> IF chua_giam > 0 THEN <<chua_giam - sau_giam, chua_giam>>
                                                ELSE <<0, 0>>,
       thue_vat_thanh_tien |-> sau_giam * thue,
       tong_tien           |-> 100 * sau_giam + sau_giam * thue]

\* @api.depends of _compute_line_total and, of the lines, _compute_totals.
LineDepends   == {"so_luong", "don_gia", "giam_gia"}
TotalsDepends == {"thanh_tien", "giam_gia", "so_luong", "don_gia"}

\* _compute_info computes name and price together from the product; a write
\* that gives one of the two protects both.
ComputesInfo(F) == "san_pham_mau" \in F /\ F \cap {"ten_hien_thi", "don_gia"} = {}

\* What a write triggers, directly or through what it triggers.
Touched(F) ==
  LET G == IF "san_pham_mau" \in F THEN F \cup {"don_gia"} ELSE F
  IN  IF G \cap LineDepends # {} THEN G \cup {"thanh_tien"} ELSE G

\* The form sends the fields F that changed, and with them the amount it shows
\* (force_save), computed from its own, perhaps outdated, values: new.
Overwritten(x, F, new, price) ==
  [so_luong   |-> IF "so_luong" \in F THEN new.so_luong ELSE x.so_luong,
   don_gia    |-> IF "don_gia" \in F THEN new.don_gia
                  ELSE IF ComputesInfo(F) THEN price ELSE x.don_gia,
   giam_gia   |-> IF "giam_gia" \in F THEN new.giam_gia ELSE x.giam_gia,
   thanh_tien |-> IF "thanh_tien" \in Touched(F) THEN LineTotal(new) ELSE x.thanh_tien]

\* Mutant of Recomputed: thanh_tien is not readonly, what the form sent is kept.
Recomputed_KeepsSent(x, F) == x

\* The ORM computes the amount again where the write touched what it depends on.
Recomputed(x, F) ==
  IF "thanh_tien" \in Touched(F) THEN [x EXCEPT !.thanh_tien = LineTotal(x)] ELSE x

\* A commit that updates the row: the open requests do not see it.
Unseen == [r \in Request |-> phase[r] = "mailed"]

-----------------------------------------------------------------------------
(* Saves of the form.  One that clashes with another transaction on the    *)
(* row is rolled back and made again, so each is one step.                 *)

Saved(rows, thue, trang_thai) ==
  /\ life = "live"
  /\ line'   = rows
  /\ quote'  = [thue |-> thue, trang_thai |-> trang_thai, tong |-> Totals(rows, thue)]
  /\ missed' = Unseen
  /\ UNCHANGED <<life, phase, tries, view>>

AddLine(l, new) ==
  /\ l \notin DOMAIN line
  /\ Saved([k \in DOMAIN line \cup {l} |->
              IF k = l THEN [so_luong |-> new.so_luong, don_gia |-> new.don_gia,
                             giam_gia |-> new.giam_gia, thanh_tien |-> LineTotal(new)]
                       ELSE line[k]],
           quote.thue, quote.trang_thai)

\* Where no total depends on what was written, the totals stay as they are.
WriteLine(l, F, new, price) ==
  /\ l \in DOMAIN line
  /\ LET x    == Recomputed(Overwritten(line[l], F, new, price), F)
         rows == [line EXCEPT ![l] = x]
     IN  IF Touched(F) \cap TotalsDepends # {}
         THEN Saved(rows, quote.thue, quote.trang_thai)
         ELSE /\ life = "live"
              /\ line'   = rows
              /\ missed' = Unseen
              /\ UNCHANGED <<life, quote, phase, tries, view>>

DeleteLine(l) ==
  /\ l \in DOMAIN line
  /\ Saved([k \in DOMAIN line \ {l} |-> line[k]], quote.thue, quote.trang_thai)

WriteThue(thue) ==
  /\ thue # quote.thue
  /\ Saved(line, thue, quote.trang_thai)

\* The status bar: any state from any other; no total depends on it.
WriteTrangThai(trang_thai) ==
  /\ trang_thai # quote.trang_thai
  /\ life = "live"
  /\ quote'  = [quote EXCEPT !.trang_thai = trang_thai]
  /\ missed' = Unseen
  /\ UNCHANGED <<life, line, phase, tries, view>>

Create ==
  /\ life = "new"
  /\ life' = "live"
  /\ UNCHANGED <<line, quote, phase, tries, view, missed>>

\* The lines go with it (cascade).
Unlink ==
  /\ life = "live"
  /\ life'   = "deleted"
  /\ line'   = NoLines
  /\ missed' = Unseen
  /\ UNCHANGED <<quote, phase, tries, view>>

-----------------------------------------------------------------------------
(* action_gui_mail_bao_gia                                                 *)

Snapshot == [line |-> line, tong |-> quote.tong]

NoSnapshot == [line |-> NoLines, tong |-> Totals(NoLines, 0)]

\* The snapshot is taken and mailed.  What the mail holds is in the snapshot,
\* whenever the mail goes out, so that is one step.
Mail(r, n) ==
  /\ phase'  = [phase EXCEPT ![r] = "mailed"]
  /\ tries'  = [tries EXCEPT ![r] = n]
  /\ view'   = [view EXCEPT ![r] = Snapshot]
  /\ missed' = [missed EXCEPT ![r] = FALSE]
  /\ UNCHANGED <<life, line, quote>>

End(r) ==
  /\ phase' = [phase EXCEPT ![r] = "idle"]
  /\ tries' = [tries EXCEPT ![r] = 0]
  /\ view'  = [view EXCEPT ![r] = NoSnapshot]

\* The form shows the button on a draft; the method does not ask.  It returns
\* with an error, and no change, where the customer has no address.
Begin(r) ==
  /\ phase[r] = "idle"
  /\ life = "live"
  /\ Mail(r, 0)

\* Mutant of Clash: READ COMMITTED, an UPDATE of a changed row succeeds.
Clash_ReadCommitted(r) == life # "live"

\* The UPDATE of a row changed or deleted since the snapshot fails.
Clash(r) == missed[r]

\* trang_thai is written and the transaction committed.
Commit(r) ==
  /\ phase[r] = "mailed"
  /\ ~Clash(r)
  /\ quote'  = [quote EXCEPT !.trang_thai = "da_gui"]
  /\ missed' = [Unseen EXCEPT ![r] = FALSE]
  /\ End(r)
  /\ UNCHANGED <<life, line>>

\* Mutant of Retry: the tries are not counted, or
Retry_Forever(r) ==
  /\ phase[r] = "mailed"
  /\ Clash(r)
  /\ life = "live"
  /\ Mail(r, 0)

\* one try too many is made.
Retry_OneMore(r) ==
  /\ phase[r] = "mailed"
  /\ Clash(r)
  /\ tries[r] <= MaxTries
  /\ life = "live"
  /\ Mail(r, tries[r] + 1)

\* The call is made again, on a new snapshot, and mails again ...
Retry(r) ==
  /\ phase[r] = "mailed"
  /\ Clash(r)
  /\ tries[r] < MaxTries
  /\ life = "live"
  /\ Mail(r, tries[r] + 1)

\* ... or ends with the error: too many tries, or the quotation is gone.
GiveUp(r) ==
  /\ phase[r] = "mailed"
  /\ Clash(r)
  /\ tries[r] = MaxTries \/ life # "live"
  /\ missed' = [missed EXCEPT ![r] = FALSE]
  /\ End(r)
  /\ UNCHANGED <<life, line, quote>>

\* Any other error, or the end of the worker, after the mail.
Abort(r) ==
  /\ phase[r] = "mailed"
  /\ missed' = [missed EXCEPT ![r] = FALSE]
  /\ End(r)
  /\ UNCHANGED <<life, line, quote>>

-----------------------------------------------------------------------------
Init ==
  /\ life   = "new"
  /\ line   = NoLines
  /\ quote  = [thue |-> 10, trang_thai |-> "du_thao", tong |-> Totals(NoLines, 10)]
  /\ phase  = [r \in Request |-> "idle"]
  /\ tries  = [r \in Request |-> 0]
  /\ view   = [r \in Request |-> NoSnapshot]
  /\ missed = [r \in Request |-> FALSE]

Save ==
  \/ \E l \in Line, new \in Input : AddLine(l, new)
  \/ \E l \in Line, F \in Changes, new \in Input, price \in ListPrice :
       WriteLine(l, F, new, price)
  \/ \E l \in Line : DeleteLine(l)
  \/ \E thue \in Thue : WriteThue(thue)
  \/ \E trang_thai \in Clicked : WriteTrangThai(trang_thai)
  \/ Create
  \/ Unlink

\* The steps a worker makes by itself once a call has begun.
Serve(r) == Commit(r) \/ Retry(r) \/ GiveUp(r)

Next == Save \/ \E r \in Request : Begin(r) \/ Serve(r) \/ Abort(r)

Spec == Init /\ [][Next]_vars

\* A worker thread goes on with the call it runs.
FairSpec == Spec /\ \A r \in Request : WF_vars(Serve(r))

-----------------------------------------------------------------------------
(* Properties *)

\* @api.depends and store=True: whatever a form sent, and however old it was,
\* each stored amount is the one its line and the quotation call for, computed
\* here from what users filled in.
Net(l)   == line[l].so_luong * line[l].don_gia * (100 - line[l].giam_gia)
Gross(l) == 100 * line[l].so_luong * line[l].don_gia

TotalsFitLines ==
  LET net   == SumFunction([l \in DOMAIN line |-> Net(l)])
      gross == SumFunction([l \in DOMAIN line |-> Gross(l)])
  IN  life = "live" =>
        /\ \A l \in DOMAIN line : line[l].thanh_tien = Net(l)
        /\ quote.tong.tong_tien = 100 * net + net * quote.thue
        /\ quote.tong.tien_hang_chua_thue = net
        /\ quote.tong.thue_vat_thanh_tien = net * quote.thue
        /\ gross > 0 => quote.tong.giam_gia = <<gross - net, gross>>

\* action_gui_mail_bao_gia: a call that marks the quotation as sent has mailed
\* the lines and totals it is marked with, though others save it meanwhile.
MailedAsMarked ==
  [][\A r \in Request :
       /\ phase[r] = "mailed" /\ phase'[r] = "idle"
       /\ quote.trang_thai # "da_gui" /\ quote'.trang_thai = "da_gui"
       => view[r] = [line |-> line', tong |-> quote'.tong]]_vars

\* The retry loop of service/model.py ends: a call is answered, though others
\* save the quotation each time it tries.
EveryCallAnswered == \A r \in Request : phase[r] # "idle" ~> phase[r] = "idle"
=============================================================================

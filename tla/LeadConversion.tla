--------------------------- MODULE LeadConversion ---------------------------
(***************************************************************************)
(* Leads that become customers: write on khach_hang_tiem_nang              *)
(* (src/addons/khach_hang/models/khach_hang_tn.py) and the customers it    *)
(* creates (khach_hang.py).                                                *)
(*                                                                         *)
(* A write of stage '3' goes through its leads one by one, searches the    *)
(* customers for the phone or the email of the lead, and creates one if it *)
(* finds none.  The search sees the snapshot of the transaction and what   *)
(* the transaction created itself; the insert conflicts with nothing, only *)
(* the rows of the leads do.  In the meantime other users create, edit and *)
(* delete customers and edit leads.                                        *)
(***************************************************************************)
EXTENDS Naturals

CONSTANTS
  Request,      \* RPC requests that may convert leads
  Lead,         \* leads in the table
  Customer,     \* database ids of customers; an id is never used again
  Phone, Email,
  None,         \* the field is empty
  NoLead,       \* a customer that was not made from a lead
  MaxEdits      \* bound: leads and customers edited or deleted by others

ASSUME NoneAssumption   == None \notin Phone \cup Email /\ Phone \cap Email = {}
ASSUME LeadAssumption   == NoLead \notin Lead
ASSUME EditAssumption   == MaxEdits \in Nat

VARIABLES
  lead,         \* the leads: contact and stage
  customer,     \* the customers
  seen,         \* ids of customers given out so far
  phase,        \* of each request
  recs,         \* leads each open request writes
  todo,         \* those it has not searched a customer for
  view,         \* customers in the snapshot of each open request
  made,         \* customers each open request created
  missed,       \* leads changed by a commit the request cannot see
  edits         \* how often others edited or deleted so far

vars == <<lead, customer, seen, phase, recs, todo, view, made, missed, edits>>

\* Every stage other than '3' is '1' here.
GiaiDoan == {"1", "3"}

LeadRow     == [dien_thoai : Phone \cup {None}, email : Email \cup {None},
                giai_doan : GiaiDoan]
CustomerRow == [id : Customer, phone : Phone \cup {None}, email : Email \cup {None},
                lead : Lead \cup {NoLead}]

TypeOK ==
  /\ lead     \in [Lead -> LeadRow]
  /\ customer \subseteq CustomerRow
  /\ seen     \subseteq Customer
  /\ phase    \in [Request -> {"idle", "open"}]
  /\ recs     \in [Request -> SUBSET Lead]
  /\ todo     \in [Request -> SUBSET Lead]
  /\ view     \in [Request -> SUBSET CustomerRow]
  /\ made     \in [Request -> SUBSET CustomerRow]
  /\ missed   \in [Request -> SUBSET Lead]
  /\ edits    \in 0..MaxEdits

\* A lead is created with its default stage and any contact.
Init ==
  /\ lead     \in [Lead -> [dien_thoai : Phone \cup {None}, email : Email \cup {None},
                            giai_doan : {"1"}]]
  /\ customer = {}
  /\ seen     = {}
  /\ phase    = [r \in Request |-> "idle"]
  /\ recs     = [r \in Request |-> {}]
  /\ todo     = [r \in Request |-> {}]
  /\ view     = [r \in Request |-> {}]
  /\ made     = [r \in Request |-> {}]
  /\ missed   = [r \in Request |-> {}]
  /\ edits    = 0

-----------------------------------------------------------------------------
(* The search *)

\* Mutant of Matches: the '|' of the domain is missing.
Matches_And(c, l) ==
  /\ l.dien_thoai # None \/ l.email # None
  /\ l.dien_thoai # None => c.phone = l.dien_thoai
  /\ l.email # None => c.email = l.email

\* ['|', ('phone', '=', l.dien_thoai), ('email', '=', l.email)], of which only
\* the contacts the lead has.
Matches(c, l) ==
  \/ l.dien_thoai # None /\ c.phone = l.dien_thoai
  \/ l.email # None /\ c.email = l.email

-----------------------------------------------------------------------------
(* write({'giai_doan': '3'}), or action_confirm_contract, on the leads L   *)

Begin(r, L) ==
  /\ phase[r] = "idle"
  /\ L # {}
  /\ phase'  = [phase EXCEPT ![r] = "open"]
  /\ recs'   = [recs EXCEPT ![r] = L]
  /\ todo'   = [todo EXCEPT ![r] = L]
  /\ view'   = [view EXCEPT ![r] = customer]
  /\ missed' = [missed EXCEPT ![r] = {}]
  /\ UNCHANGED <<lead, customer, seen, made, edits>>

Visible(r) == view[r] \cup made[r]

\* The contact of a lead is that of the snapshot; where it changed since, the
\* transaction cannot commit.
Found(r, l) == \E c \in Visible(r) : Matches(c, lead[l])

\* One turn of the loop that finds a customer ...
Known(r, l) ==
  /\ l \in todo[r]
  /\ Found(r, l)
  /\ todo' = [todo EXCEPT ![r] = @ \ {l}]
  /\ UNCHANGED <<lead, customer, seen, phase, recs, view, made, missed, edits>>

\* Mutant of CustomerOf: the email is stored as the phone.
CustomerOf_Swapped(l, c) ==
  [id |-> c, phone |-> lead[l].email, email |-> lead[l].dien_thoai, lead |-> l]

CustomerOf(l, c) ==
  [id |-> c, phone |-> lead[l].dien_thoai, email |-> lead[l].email, lead |-> l]

\* ... and one that finds none and creates it.
MakeCustomer(r, l, c) ==
  /\ l \in todo[r]
  /\ c \notin seen
  /\ ~Found(r, l)
  /\ todo' = [todo EXCEPT ![r] = @ \ {l}]
  /\ made' = [made EXCEPT ![r] = @ \cup {CustomerOf(l, c)}]
  /\ seen' = seen \cup {c}
  /\ UNCHANGED <<lead, customer, phase, recs, view, missed, edits>>

Close(r) ==
  /\ phase' = [phase EXCEPT ![r] = "idle"]
  /\ recs'  = [recs EXCEPT ![r] = {}]
  /\ todo'  = [todo EXCEPT ![r] = {}]
  /\ view'  = [view EXCEPT ![r] = {}]
  /\ made'  = [made EXCEPT ![r] = {}]

\* A commit that updated the leads L: open requests do not see it.
Updated(L) == [r \in Request |-> IF phase[r] = "open" THEN missed[r] \cup L ELSE {}]

\* Mutant of Committable: the row of the lead is not checked for conflicts.
Committable_Unchecked(r) == todo[r] = {}

\* The rows of the leads are still those of the snapshot.
Committable(r) == todo[r] = {} /\ recs[r] \cap missed[r] = {}

Commit(r) ==
  /\ phase[r] = "open"
  /\ Committable(r)
  /\ lead'     = [l \in Lead |-> IF l \in recs[r] THEN [lead[l] EXCEPT !.giai_doan = "3"]
                                                ELSE lead[l]]
  /\ customer' = customer \cup made[r]
  /\ missed'   = [Updated(recs[r]) EXCEPT ![r] = {}]
  /\ Close(r)
  /\ UNCHANGED <<seen, edits>>

\* The transaction fails: an error of its own, or a lead was updated since its
\* snapshot.  It may be made again, from a new snapshot.
Rollback(r) ==
  /\ phase[r] = "open"
  /\ missed' = [missed EXCEPT ![r] = {}]
  /\ Close(r)
  /\ UNCHANGED <<lead, customer, seen, edits>>

-----------------------------------------------------------------------------
(* What other users do, each in one transaction                            *)

Edit == edits < MaxEdits /\ edits' = edits + 1

NewCustomer(c, phone, email) ==
  /\ c \notin seen
  /\ seen'     = seen \cup {c}
  /\ customer' = customer \cup {[id |-> c, phone |-> phone, email |-> email,
                                 lead |-> NoLead]}
  /\ UNCHANGED <<lead, phase, recs, todo, view, made, missed, edits>>

EditCustomer(c, phone, email) ==
  /\ Edit
  /\ c \in customer
  /\ customer' = (customer \ {c}) \cup {[c EXCEPT !.phone = phone, !.email = email]}
  /\ UNCHANGED <<lead, seen, phase, recs, todo, view, made, missed>>

DeleteCustomer(c) ==
  /\ Edit
  /\ c \in customer
  /\ customer' = customer \ {c}
  /\ UNCHANGED <<lead, seen, phase, recs, todo, view, made, missed>>

\* A write of a contact, or of a stage other than '3'.
EditLead(l, new) ==
  /\ Edit
  /\ new.giai_doan # "3" \/ new.giai_doan = lead[l].giai_doan
  /\ lead'   = [lead EXCEPT ![l] = new]
  /\ missed' = Updated({l})
  /\ UNCHANGED <<customer, seen, phase, recs, todo, view, made>>

-----------------------------------------------------------------------------
Convert(r) ==
  \/ \E L \in SUBSET Lead : Begin(r, L)
  \/ \E l \in Lead : Known(r, l)
  \/ \E l \in Lead, c \in Customer : MakeCustomer(r, l, c)
  \/ Commit(r)
  \/ Rollback(r)

Others ==
  \/ \E phone \in Phone \cup {None}, email \in Email \cup {None} :
       \/ \E c \in Customer : NewCustomer(c, phone, email)
       \/ \E c \in customer : EditCustomer(c, phone, email)
  \/ \E c \in customer : DeleteCustomer(c)
  \/ \E l \in Lead, new \in LeadRow : EditLead(l, new)

Next == (\E r \in Request : Convert(r)) \/ Others

Spec == Init /\ [][Next]_vars

-----------------------------------------------------------------------------
(* Properties *)

SameContact(x, y) ==
  \/ x.phone = y.phone /\ x.phone # None
  \/ x.email = y.email /\ x.email # None

Contact(l) == [phone |-> l.dien_thoai, email |-> l.email]

\* "Kiem tra trung lap qua Dien thoai hoac Email" (write): a customer made from
\* a lead shares neither phone nor email with another one made in the same call,
\* or with one that was there when the transaction took its snapshot and still
\* is as it was.  What appears in between is not seen, and conflicts with nothing.
NoDuplicateMade ==
  [][\A r \in Request : \A x \in made[r] \cap (customer' \ customer) :
       \A y \in customer' \cap (view[r] \cup made[r]) : SameContact(x, y) => y = x]_vars

\* "Tu dong tao Khach hang chinh thuc khi giai doan chuyen thanh '3'": the
\* transaction that moves a lead to stage '3' has seen a customer with one of
\* the contacts the lead has then, or leaves one it made from the lead, even if
\* leads and customers change while it runs.
ConvertedHasCustomer ==
  [][\A l \in Lead :
       lead[l].giai_doan # "3" /\ lead'[l].giai_doan = "3" =>
         \E r \in Request :
           /\ l \in recs[r] /\ phase'[r] = "idle"
           /\ \/ \E c \in view[r] \cup made[r] : SameContact(Contact(lead'[l]), c)
              \/ \E c \in made[r] \cap customer' : c.lead = l]_vars
=============================================================================

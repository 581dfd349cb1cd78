------------------------ MODULE LeadConversionProofs ------------------------
(***************************************************************************)
(* Theorems about LeadConversion, for any number of requests, leads and    *)
(* customers.  Both properties are about a commit, and rest on what holds  *)
(* of a request while its loop goes on: Apart, what it made is apart from  *)
(* all it sees, and Settled, each lead it is done with has its customer.   *)
(***************************************************************************)
EXTENDS LeadConversion, TLAPS

-----------------------------------------------------------------------------
(* The leads and customers keep their types.                               *)
LEMMA TypeInit == Init => TypeOK
  BY EditAssumption DEF Init, TypeOK, LeadRow, GiaiDoan

LEMMA TypeNext == TypeOK /\ [Next]_vars => TypeOK'
<1> SUFFICES ASSUME TypeOK, [Next]_vars
             PROVE  TypeOK'
  OBVIOUS
<1> USE EditAssumption DEF TypeOK
<1>1. CASE UNCHANGED vars
  BY <1>1 DEF vars
<1>2. ASSUME NEW r \in Request, NEW L \in SUBSET Lead, Begin(r, L)
      PROVE  TypeOK'
  BY <1>2 DEF Begin
<1>3. ASSUME NEW r \in Request, NEW l \in Lead, Known(r, l)
      PROVE  TypeOK'
  BY <1>3 DEF Known
<1>4. ASSUME NEW r \in Request, NEW l \in Lead, NEW c \in Customer, MakeCustomer(r, l, c)
      PROVE  TypeOK'
  <2>1. CustomerOf(l, c) \in CustomerRow
    BY DEF CustomerOf, CustomerRow, LeadRow
  <2> QED
    BY <1>4, <2>1 DEF MakeCustomer
<1>5. ASSUME NEW r \in Request, Commit(r)
      PROVE  TypeOK'
  <2>1. \A l \in Lead : [lead[l] EXCEPT !.giai_doan = "3"] \in LeadRow
    BY DEF LeadRow, GiaiDoan
  <2> QED
    BY <1>5, <2>1 DEF Commit, Close, Updated
<1>6. ASSUME NEW r \in Request, Rollback(r)
      PROVE  TypeOK'
  BY <1>6 DEF Rollback, Close
<1>7. ASSUME NEW phone \in Phone \cup {None}, NEW email \in Email \cup {None},
             NEW c \in Customer, NewCustomer(c, phone, email)
      PROVE  TypeOK'
  BY <1>7 DEF NewCustomer, CustomerRow
<1>8. ASSUME NEW phone \in Phone \cup {None}, NEW email \in Email \cup {None},
             NEW c \in customer, EditCustomer(c, phone, email)
      PROVE  TypeOK'
  <2>1. c \in CustomerRow
    OBVIOUS
  <2>2. [c EXCEPT !.phone = phone, !.email = email] \in CustomerRow
    BY <2>1 DEF CustomerRow
  <2> QED
    BY <1>8, <2>2 DEF EditCustomer, Edit
<1>9. ASSUME NEW c \in customer, DeleteCustomer(c)
      PROVE  TypeOK'
  BY <1>9 DEF DeleteCustomer, Edit
<1>10. ASSUME NEW l \in Lead, NEW new \in LeadRow, EditLead(l, new)
       PROVE  TypeOK'
  BY <1>10 DEF EditLead, Edit, Updated
<1> QED
  BY <1>1, <1>2, <1>3, <1>4, <1>5, <1>6, <1>7, <1>8, <1>9, <1>10
     DEF Next, Convert, Others

THEOREM TypeCorrect == Spec => []TypeOK
  BY TypeInit, TypeNext, PTL DEF Spec

-----------------------------------------------------------------------------
(* What holds while the loop of a request goes on.                         *)

\* What a request made shares no contact with anything else it sees.
Apart ==
  \A r \in Request : \A x \in made[r], y \in view[r] \cup made[r] :
    SameContact(x, y) => y = x

\* A lead the loop is done with had a customer, or got one, with the contact
\* it still has: unless it was changed by a commit the request cannot see.
HasCustomer(r, l) ==
  \/ \E c \in view[r] \cup made[r] : SameContact(Contact(lead[l]), c)
  \/ \E c \in made[r] : c.lead = l

Settled ==
  \A r \in Request : \A l \in recs[r] \ (todo[r] \cup missed[r]) : HasCustomer(r, l)

\* A request that is not open has made nothing.
ClosedIsEmpty == \A r \in Request : phase[r] = "idle" => recs[r] = {} /\ todo[r] = {} /\ made[r] = {}

LoopInv == TypeOK /\ Apart /\ Settled /\ ClosedIsEmpty

LEMMA LoopInit == Init => LoopInv
  BY TypeInit DEF Init, LoopInv, Apart, Settled, ClosedIsEmpty

\* The search is for the customers with the contact of the lead.
LEMMA FoundIsSame ==
  ASSUME TypeOK, NEW r \in Request, NEW l \in Lead
  PROVE  Found(r, l) <=> \E c \in Visible(r) : SameContact(Contact(lead[l]), c)
  BY DEF TypeOK, LeadRow, Found, Matches, SameContact, Contact

LEMMA LoopNext == LoopInv /\ [Next]_vars => LoopInv'
<1> SUFFICES ASSUME LoopInv, [Next]_vars
             PROVE  LoopInv'
  OBVIOUS
<1>0. TypeOK /\ TypeOK'
  BY TypeNext DEF LoopInv
<1> USE DEF LoopInv, ClosedIsEmpty
<1>1. CASE UNCHANGED vars
  BY <1>0, <1>1 DEF vars, Apart, Settled, HasCustomer
<1>2. ASSUME NEW r \in Request, NEW L \in SUBSET Lead, Begin(r, L)
      PROVE  LoopInv'
  <2>1. Apart'
    BY <1>0, <1>2 DEF Begin, Apart, TypeOK
  <2>2. Settled'
    BY <1>0, <1>2 DEF Begin, Settled, HasCustomer, TypeOK
  <2>3. ClosedIsEmpty'
    BY <1>0, <1>2 DEF Begin, TypeOK
  <2> QED
    BY <1>0, <2>1, <2>2, <2>3
<1>3. ASSUME NEW r \in Request, NEW l \in Lead, Known(r, l)
      PROVE  LoopInv'
  <2>1. HasCustomer(r, l)
    BY <1>0, <1>3, FoundIsSame DEF Known, HasCustomer, Visible
  <2>2. Settled'
    BY <1>0, <1>3, <2>1 DEF Known, Settled, HasCustomer, TypeOK
  <2> QED
    BY <1>0, <1>3, <2>2 DEF Known, Apart
<1>4. ASSUME NEW r \in Request, NEW l \in Lead, NEW c \in Customer, MakeCustomer(r, l, c)
      PROVE  LoopInv'
  <2> DEFINE x == CustomerOf(l, c)
  <2>1. /\ made'[r] = made[r] \cup {x} /\ todo'[r] = todo[r] \ {l}
        /\ \A q \in Request \ {r} : made'[q] = made[q] /\ todo'[q] = todo[q]
        /\ UNCHANGED <<lead, phase, recs, view, missed>>
    BY <1>0, <1>4 DEF MakeCustomer, TypeOK
  <2>2. \A y \in view[r] \cup made[r] : ~SameContact(x, y) /\ ~SameContact(y, x)
    BY <1>0, <1>4, FoundIsSame DEF MakeCustomer, Visible, SameContact, Contact, CustomerOf
  <2>3. Apart'
    BY <2>1, <2>2 DEF Apart
  <2>4. /\ HasCustomer(r, l)'
        /\ \A q \in Request, k \in Lead : HasCustomer(q, k) => HasCustomer(q, k)'
    <3>1. x \in made'[r] /\ x.lead = l
      BY <2>1 DEF CustomerOf
    <3>2. \A q \in Request : made[q] \subseteq made'[q]
      BY <2>1
    <3>3. \A q \in Request, k \in Lead : HasCustomer(q, k) => HasCustomer(q, k)'
      BY <2>1, <3>2 DEF HasCustomer
    <3> QED
      BY <3>1, <3>3 DEF HasCustomer
  <2>5. Settled'
    BY <1>0, <2>1, <2>4 DEF Settled, TypeOK
  <2>6. ClosedIsEmpty'
    BY <1>0, <1>4, <2>1 DEF MakeCustomer, TypeOK
  <2> QED
    BY <1>0, <2>3, <2>5, <2>6
<1>5. ASSUME NEW r \in Request, Commit(r)
      PROVE  LoopInv'
  <2>1. /\ recs'[r] = {} /\ todo'[r] = {} /\ made'[r] = {} /\ phase'[r] = "idle"
        /\ \A q \in Request \ {r} :
             /\ recs'[q] = recs[q] /\ made'[q] = made[q] /\ todo'[q] = todo[q]
             /\ view'[q] = view[q] /\ phase'[q] = phase[q]
             /\ phase[q] = "open" => missed'[q] = missed[q] \cup recs[r]
        /\ \A l \in Lead \ recs[r] : lead'[l] = lead[l]
    BY <1>0, <1>5 DEF Commit, Close, Updated, TypeOK
  <2>2. Apart' /\ ClosedIsEmpty'
    BY <2>1 DEF Apart
  <2>3. Settled'
    BY <1>0, <2>1 DEF Settled, HasCustomer, TypeOK
  <2> QED
    BY <1>0, <2>2, <2>3
<1>6. ASSUME NEW r \in Request, Rollback(r)
      PROVE  LoopInv'
  <2>1. /\ recs'[r] = {} /\ todo'[r] = {} /\ made'[r] = {} /\ phase'[r] = "idle" /\ lead' = lead
        /\ \A q \in Request \ {r} :
             /\ recs'[q] = recs[q] /\ made'[q] = made[q] /\ todo'[q] = todo[q]
             /\ view'[q] = view[q] /\ phase'[q] = phase[q] /\ missed'[q] = missed[q]
    BY <1>0, <1>6 DEF Rollback, Close, TypeOK
  <2>2. Apart' /\ ClosedIsEmpty'
    BY <2>1 DEF Apart
  <2>3. Settled'
    BY <2>1 DEF Settled, HasCustomer
  <2> QED
    BY <1>0, <2>2, <2>3
<1>7. ASSUME UNCHANGED <<lead, phase, recs, todo, view, made, missed>>
      PROVE  LoopInv'
  BY <1>0, <1>7 DEF Apart, Settled, HasCustomer
<1>8. ASSUME NEW l \in Lead, NEW new \in LeadRow, EditLead(l, new)
      PROVE  LoopInv'
  <2>1. /\ \A q \in Request : phase[q] = "open" => missed'[q] = missed[q] \cup {l}
        /\ \A k \in Lead \ {l} : lead'[k] = lead[k]
        /\ UNCHANGED <<phase, recs, todo, view, made>>
    BY <1>0, <1>8 DEF EditLead, Updated, TypeOK
  <2>2. Settled'
    BY <1>0, <2>1 DEF Settled, HasCustomer, TypeOK
  <2> QED
    BY <1>0, <2>1, <2>2 DEF Apart
<1> QED
  BY <1>1, <1>2, <1>3, <1>4, <1>5, <1>6, <1>7, <1>8
     DEF Next, Convert, Others, NewCustomer, EditCustomer, DeleteCustomer

LEMMA LoopInvariant == Spec => []LoopInv
  BY LoopInit, LoopNext, PTL DEF Spec

-----------------------------------------------------------------------------
(* A customer made from a lead shares no contact with another one of its   *)
(* call, nor with one that its snapshot showed and that is still the same. *)
THEOREM NoDuplicates == Spec => NoDuplicateMade
<1>1. LoopInv => \A r \in Request : \A x \in made[r] \cap (customer' \ customer) :
                   \A y \in customer' \cap (view[r] \cup made[r]) : SameContact(x, y) => y = x
  BY DEF LoopInv, Apart
<1> QED
  BY <1>1, LoopInvariant, PTL DEF NoDuplicateMade

(* A lead that reaches stage '3' has a customer, whatever changed while    *)
(* the transaction ran.                                                    *)
THEOREM LeadsGetCustomers == Spec => ConvertedHasCustomer
<1> DEFINE Converted ==
      \A l \in Lead :
        lead[l].giai_doan # "3" /\ lead'[l].giai_doan = "3" =>
          \E r \in Request :
            /\ l \in recs[r] /\ phase'[r] = "idle"
            /\ \/ \E c \in view[r] \cup made[r] : SameContact(Contact(lead'[l]), c)
               \/ \E c \in made[r] \cap customer' : c.lead = l
<1>1. LoopInv /\ [Next]_vars => Converted
  <2> SUFFICES ASSUME LoopInv, [Next]_vars, NEW l \in Lead,
                      lead[l].giai_doan # "3", lead'[l].giai_doan = "3"
               PROVE  \E r \in Request :
                        /\ l \in recs[r] /\ phase'[r] = "idle"
                        /\ \/ \E c \in view[r] \cup made[r] : SameContact(Contact(lead'[l]), c)
                           \/ \E c \in made[r] \cap customer' : c.lead = l
    OBVIOUS
  <2> USE DEF LoopInv, TypeOK
  <2>1. \E r \in Request : Commit(r) /\ l \in recs[r]
    <3>1. lead' # lead
      OBVIOUS
    <3>2. ASSUME NEW k \in Lead, NEW new \in LeadRow, EditLead(k, new)
          PROVE  FALSE
      BY <3>2 DEF EditLead
    <3>3. PICK r \in Request : Commit(r)
      BY <3>1, <3>2 DEF Next, vars, Convert, Others, Begin, Known, MakeCustomer, Rollback,
         NewCustomer, EditCustomer, DeleteCustomer
    <3> QED
      BY <3>3 DEF Commit
  <2>2. PICK r \in Request : Commit(r) /\ l \in recs[r]
    BY <2>1
  <2>3. HasCustomer(r, l)
    BY <2>2 DEF Commit, Committable, Settled
  <2>4. phase'[r] = "idle" /\ made[r] \subseteq customer' /\ Contact(lead'[l]) = Contact(lead[l])
    BY <2>2 DEF Commit, Close, Contact, LeadRow
  <2> QED
    BY <2>2, <2>3, <2>4 DEF HasCustomer
<1> QED
  BY <1>1, LoopInvariant, PTL DEF ConvertedHasCustomer, Spec
=============================================================================

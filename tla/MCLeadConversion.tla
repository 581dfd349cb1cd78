-------------------------- MODULE MCLeadConversion ---------------------------
(* Instances of LeadConversion for TLC.                                    *)
EXTENDS LeadConversion, TLC

CONSTANTS r1, r2, l1, l2, c1, c2, p1, e1

TwoRequests  == {r1, r2}
TwoLeads     == {l1, l2}
TwoCustomers == {c1, c2}
OnePhone     == {p1}
OneEmail     == {e1}

Ids == Permutations(Customer) \cup Permutations(Lead) \cup Permutations(Request)
=============================================================================

\* Two requests convert two leads, in one call or in two, while other users
\* change the leads and create, edit and delete customers.
SPECIFICATION Spec
CONSTANTS
  r1 = r1
  r2 = r2
  l1 = l1
  l2 = l2
  c1 = c1
  c2 = c2
  p1 = p1
  e1 = e1
  Request <- TwoRequests
  Lead <- TwoLeads
  Customer <- TwoCustomers
  Phone <- OnePhone
  Email <- OneEmail
  None = None
  NoLead = NoLead
  MaxEdits = 1
SYMMETRY Ids
INVARIANTS
  TypeOK
PROPERTIES
  NoDuplicateMade
  ConvertedHasCustomer
CHECK_DEADLOCK FALSE

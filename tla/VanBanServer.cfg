\* The server alone: any method in any order, one of two users in the company of the sequence.
\* A customer changes neither state nor number of a document, so there is none here.
SPECIFICATION Spec
CONSTANTS
  u1 = u1
  u2 = u2
  d1 = d1
  d2 = d2
  User <- TwoUsers
  Numbered <- OneUser
  Doc <- TwoDocs
  Customer <- NoCustomers
  NoCustomer = NoCustomer
  Moi = Moi
  DuThao = DuThao
  DaHuy = DaHuy
  MaxNumber = 2
  MaxNotified = 1
SYMMETRY Documents
INVARIANTS
  TypeOK
  NumberForLife
CHECK_DEADLOCK FALSE

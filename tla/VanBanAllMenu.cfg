\* The menu of all documents opens a signed document in the form of incoming ones.
SPECIFICATION FormSpec
CONSTANTS
  u1 = u1
  u2 = u2
  d1 = d1
  d2 = d2
  c1 = c1
  User <- TwoUsers
  Numbered <- TwoUsers
  Doc <- TwoDocs
  Customer <- OneCustomer
  NoCustomer = NoCustomer
  Moi = Moi
  DuThao = DuThao
  DaHuy = DaHuy
  MaxNumber = 4
  MaxNotified = 2
  Menus <- AllMenus
  Stale = FALSE
INVARIANTS
  IssuedNeverDeleted
CHECK_DEADLOCK FALSE

\* Two users, up-to-date forms, the menus of the three flows.
SPECIFICATION FormSpec
CONSTANTS
  u1 = u1
  u2 = u2
  d1 = d1
  d2 = d2
  c1 = c1
  User <- TwoUsers
  Numbered <- TwoUsers
  Doc <- TwoDocs
  Customer <- OneCustomer
  NoCustomer = NoCustomer
  Moi = Moi
  DuThao = DuThao
  DaHuy = DaHuy
  MaxNumber = 4
  MaxNotified = 2
  Menus <- FlowMenus
  Stale = FALSE
INVARIANTS
  FormTypeOK
  IssuedIsNumbered
  IssuedNeverDeleted
  NotifiedOnce
PROPERTIES
  KeepsRegister
CHECK_DEADLOCK FALSE

\* One quotation that is edited while it is mailed.
SPECIFICATION FairSpec
CONSTANTS
  l1 = l1
  l2 = l2
  r1 = r1
  Line <- TwoLines
  SoLuong <- Quantities
  DonGia <- Prices
  GiamGia <- Discounts
  Thue <- Taxes
  ListPrice <- Listed
  Changes <- SomeChanges
  Clicked <- SomeStates
  Request <- OneRequest
  MaxTries = 1
INVARIANTS
  TypeOK
  TotalsFitLines
PROPERTIES
  MailedAsMarked
  EveryCallAnswered
CHECK_DEADLOCK FALSE

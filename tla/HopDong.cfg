\* Two users' calls on two customers, two contracts and a ticket, three calls at
\* most of which two at a time.  It stops where the calls are used up.
SPECIFICATION Spec
CONSTANTS
  r1 = r1
  r2 = r2
  k1 = k1
  k2 = k2
  h1 = h1
  h2 = h2
  t1 = t1
  n1 = n1
  n2 = n2
  Request <- TwoRequests
  KhachHang <- TwoCustomers
  HopDong <- TwoContracts
  HoTro <- OneTicket
  NhanVien <- TwoEmployees
  TaiKhoan <- OneUser
  GiaTri = {0, 1}
  Ngay = {1, 2}
  Today = 1
  Changes <- SomeChanges
  None = None
  NoRow = NoRow
  MaxCalls = 3
SYMMETRY Ids
INVARIANTS
  TypeOK
  ContractsValid
  AssigneeTold
PROPERTIES
  SignedWhole
  SerialSpec
CHECK_DEADLOCK FALSE

\* Two users' calls on two departments and three employees, two calls at a time.
\* It stops where the calls are used up.
SPECIFICATION Spec
CONSTANTS
  r1 = r1
  r2 = r2
  n1 = n1
  n2 = n2
  n3 = n3
  p1 = p1
  p2 = p2
  Request <- TwoRequests
  NhanVien <- ThreeEmployees
  PhongBan <- TwoDepartments
  None = None
  NoRow = NoRow
  MaxCalls = 4
SYMMETRY Ids
INVARIANTS
  HeadCountExact
CHECK_DEADLOCK FALSE

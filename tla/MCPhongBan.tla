----------------------------- MODULE MCPhongBan ------------------------------
(* Instances of PhongBan for TLC.                                          *)
EXTENDS PhongBan, TLC

CONSTANTS r1, r2, n1, n2, n3, p1, p2

TwoRequests    == {r1, r2}
ThreeEmployees == {n1, n2, n3}
TwoDepartments == {p1, p2}

Ids == Permutations(Request) \cup Permutations(NhanVien) \cup Permutations(PhongBan)
=============================================================================

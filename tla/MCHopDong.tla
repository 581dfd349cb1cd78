----------------------------- MODULE MCHopDong ------------------------------
(* Instances of HopDong for TLC.                                           *)
EXTENDS HopDong, TLC

CONSTANTS r1, r2, k1, k2, h1, h2, t1, n1, n2

TwoRequests  == {r1, r2}
TwoCustomers == {k1, k2}
TwoContracts == {h1, h2}
OneTicket    == {t1}
TwoEmployees == {n1, n2}
OneUser      == {n1}
SomeChanges  == {{"khach_hang_id"}, {"gia_tri_hop_dong"}, {"ngay_bat_dau"}, {"ngay_ket_thuc"},
                 {"ngay_bat_dau", "ngay_ket_thuc"}}

Ids == Permutations(Request) \cup Permutations(KhachHang) \cup Permutations(HopDong)
=============================================================================

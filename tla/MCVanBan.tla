------------------------------ MODULE MCVanBan ------------------------------
(* Instances of VanBan for TLC.                                            *)
EXTENDS VanBan, TLC

CONSTANTS u1, u2, d1, d2

TwoUsers    == {u1, u2}
OneUser     == {u1}
TwoDocs     == {d1, d2}
Documents   == Permutations(TwoDocs)
NoCustomers == {}
=============================================================================

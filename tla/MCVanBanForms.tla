--------------------------- MODULE MCVanBanForms ----------------------------
(* Instances of VanBanForms for TLC.                                       *)
EXTENDS VanBanForms

CONSTANTS u1, u2, d1, d2, c1

TwoUsers    == {u1, u2}
TwoDocs     == {d1, d2}
OneCustomer == {c1}

FlowMenus == {"den", "di", "noi_bo"}
AllMenus  == {"den", "di", "noi_bo", "all"}
=============================================================================

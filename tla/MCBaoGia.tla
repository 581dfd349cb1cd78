------------------------------ MODULE MCBaoGia -------------------------------
(* Instances of BaoGia for TLC.                                            *)
EXTENDS BaoGia

CONSTANTS l1, l2, r1

OneRequest  == {r1}
TwoLines    == {l1, l2}

\* The price of one product of the list is 2; another is entered by hand.
Prices      == {0, 2}
Listed      == {2}
Quantities  == {1, 3}
Discounts   == {0, 50}
Taxes       == {0, 10}

SomeChanges == {{"ten_hien_thi"}, {"san_pham_mau"}, {"san_pham_mau", "ten_hien_thi"},
                {"giam_gia"}, {"so_luong", "don_gia"}}
\* To the request, another call that commits is a user who chooses da_gui.
SomeStates  == {"du_thao", "da_gui"}
=============================================================================

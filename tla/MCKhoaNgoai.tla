---------------------------- MODULE MCKhoaNgoai -----------------------------
(* Instances of KhoaNgoai for TLC: the three addons and some of their      *)
(* references, one record of each table.                                   *)
EXTENDS KhoaNgoai

Modules == {"quan_ly_van_ban", "nhan_su", "khach_hang"}

ModuleDepends ==
  [m \in Modules |-> CASE m = "quan_ly_van_ban" -> {}
                       [] m = "nhan_su"         -> {"quan_ly_van_ban"}
                       [] m = "khach_hang"      -> {"nhan_su", "quan_ly_van_ban"}]

Tables == {"van_ban", "nhan_vien", "khach_hang", "bao_gia", "chi_tiet", "ho_tro"}

TableModule ==
  [t \in Tables |-> CASE t = "van_ban"   -> "quan_ly_van_ban"
                      [] t = "nhan_vien" -> "nhan_su"
                      [] OTHER           -> "khach_hang"]

\* <<model, comodel, ondelete>>
Fields ==
  {<<"van_ban", "khach_hang", "restrict">>, <<"khach_hang", "nhan_vien", "set null">>,
   <<"bao_gia", "khach_hang", "cascade">>, <<"chi_tiet", "bao_gia", "cascade">>,
   <<"ho_tro", "khach_hang", "restrict">>}

FieldFrom   == [f \in Fields |-> f[1]]
FieldTo     == [f \in Fields |-> f[2]]
FieldDelete == [f \in Fields |-> f[3]]

RowTable == [t \in Tables |-> t]
=============================================================================

---------------------------- MODULE MCDashboard -----------------------------
(* Instances of Dashboard for TLC.                                         *)
EXTENDS Dashboard

Tables   == {"khach_hang", "hop_dong"}
OneMonth == {"2025-01"}
OneYear  == {"2025"}
=============================================================================

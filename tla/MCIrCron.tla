------------------------------ MODULE MCIrCron ------------------------------
(* Instances of IrCron for TLC.                                            *)
EXTENDS IrCron

CONSTANTS w1, w2, j1, j2

TwoWorkers == {w1, w2}
TwoJobs    == {j1, j2}

\* j1 makes up for missed calls, j2 has no limit.
Intervals    == [j \in TwoJobs |-> IF j = j1 THEN 1 ELSE 2]
MakesUp      == {j1}
ByCode       == {j2}
Numbercalls  == [j \in TwoJobs |-> IF j = j1 THEN 2 ELSE -1]
=============================================================================

---------------------------- MODULE MCIrSequence ----------------------------
(* Instances of IrSequence for TLC.                                        *)
EXTENDS IrSequence, TLC

CONSTANTS r1, r2, r3

ThreeRequests == {r1, r2, r3}
Requests      == Permutations(ThreeRequests)

Both          == {"standard", "no_gap"}
=============================================================================

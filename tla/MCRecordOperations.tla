-------------------------- MODULE MCRecordOperations --------------------------
(* RecordOperations for TLC: three calls, of which any number may send the    *)
(* one confirmation, and two fields.                                        *)
EXTENDS RecordOperations, TLC

CONSTANTS c1, c2, c3, v, f, g

ThreeCalls == {c1, c2, c3}
OneConfirmation == {v}
TwoFields == {f, g}
Symmetric == Permutations(ThreeCalls) \cup Permutations(TwoFields)
=============================================================================

------------------------------ MODULE MCPreorder ------------------------------
(* Preorder for TLC: two requests under up to two tokens, for two slots and   *)
(* two rows of attempts.                                                    *)
EXTENDS Preorder, TLC

CONSTANTS c1, c2, t1, t2, s1, s2, w1, w2

TwoCalls == {c1, c2}
TwoTokens == {t1, t2}
TwoSlots == {s1, s2}
TwoWindows == {w1, w2}
=============================================================================

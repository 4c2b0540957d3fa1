-------------------------- MODULE MCPublicBooking --------------------------
(* PublicBooking for TLC: three submissions under up to two tokens, for    *)
(* two slots, counted in two rows of attempts.                             *)
EXTENDS PublicBooking

CONSTANTS c1, c2, c3, t1, t2, s1, s2, w1, w2

ThreeCalls == {c1, c2, c3}
TwoCalls == {c1, c2}
TwoTokens == {t1, t2}
TwoSlots == {s1, s2}
TwoWindows == {w1, w2}
OneToken == {t1}
OneSlot == {s1}
OneWindow == {w1}
=============================================================================

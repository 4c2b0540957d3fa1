---------------------------- MODULE MCAcquisition ----------------------------
\* One visitor with up to four requests and two sessions.
EXTENDS Acquisition, TLC
CONSTANTS r1, r2, r3, r4, t1, t2
FourRequests == {r1, r2, r3, r4}
TwoTokens == {t1, t2}
MCSymmetry == Permutations(FourRequests) \cup Permutations(TwoTokens)
===============================================================================

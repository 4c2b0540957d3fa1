--------------------------- MODULE MCAiAccounting ---------------------------
(* AiAccounting for TLC.  Budget: two executions race for limits that hold *)
(* one of their reservations, or two.  Attempts: one execution alone goes  *)
(* through every mixture of attempts, reports, overruns and lost calls.    *)
EXTENDS AiAccounting, TLC

CONSTANTS e1, e2

Two == {e1, e2}
One == {e1}
Limits(requests, tokens) ==
    [enabled |-> TRUE, requestLimit |-> requests, tokenLimit |-> tokens]
Off(row) == [row EXCEPT !.enabled = FALSE]
Tight == {Limits(2, 1), Limits(1, 3)}
OnOff == {Limits(1, 9), Off(Limits(1, 9))}
MCSymmetry == Permutations(Two)
=============================================================================

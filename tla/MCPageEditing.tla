----------------------------- MODULE MCPageEditing -----------------------------
(* PageEditing for TLC: Pages with one or two titles and two layouts. *)
EXTENDS PageEditing

CONSTANTS t1, t2, l1, l2

OneTitle == {t1}
TwoTitles == {t1, t2}
TwoLayouts == {l1, l2}
================================================================================

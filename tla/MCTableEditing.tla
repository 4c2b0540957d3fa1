---------------------------- MODULE MCTableEditing ----------------------------
\* A Table of one record with two cells.
EXTENDS TableEditing
CONSTANTS r1, a, b
OneRow == {r1}
TwoColumns == {a, b}
===============================================================================

---------------------------- MODULE MCTextEditor ----------------------------
\* A window of two rows of two columns; files with a full row, an empty line
\* and more rows than the window, and two that are too large.
EXTENDS TextEditor

A == 97
B == 66
Contents == {[fat |-> TRUE, data |-> <<A, A, NL, B>>], [fat |-> FALSE, data |-> <<A, NL, NL, A, A, B>>],
             [fat |-> TRUE, data |-> <<A, A, A, A, A, A>>]}
=============================================================================

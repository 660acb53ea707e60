---------------------------- MODULE MCLineEditor ----------------------------
\* A line of four characters, two lines of history, a command and its
\* extension, a file and a directory; the digit is the only word character.
EXTENDS LineEditor

Digit(c) == IF c = "1" THEN 1 ELSE -1
Known == {<<"1">>, <<"1", "!">>}
Entries(dir) == IF dir = <<>> THEN {[name |-> <<"1", "1">>, dir |-> FALSE], [name |-> <<"!">>, dir |-> TRUE]} ELSE {}
Before == {<<>>, << <<"1">> >>, << <<"1", " ">>, <<"!", "1">> >>}
Copied == {<<"!", "1">>}
=============================================================================

----------------------------- MODULE MCReadCache -----------------------------
(* A file of three lines, read in full, from its end, and in windows that     *)
(* leave a gap or cover each other; edits that put more lines than they take, *)
(* none, or change a line everywhere.                                         *)
EXTENDS ReadCache

Window(from, len) == [from |-> from, len |-> len]
Change(from, taken, put, all) == [from |-> from, taken |-> taken, put |-> put, all |-> all]

SomeWindows == {Full, Window(1, 1), Window(1, 3)}
SomeEdits == {Change(1, 1, 2, FALSE), Change(1, 1, 0, FALSE), Change(3, 1, 1, TRUE)}
=============================================================================

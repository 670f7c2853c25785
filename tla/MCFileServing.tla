---------------------------- MODULE MCFileServing ----------------------------
(* FileServing with two form uploads, one download and one listing; the     *)
(* sizes and the ranges meet at every boundary.                             *)
EXTENDS FileServing

CONSTANTS a, b, g

TwoForms == {a, b}
OneGet   == {g}
MCSize   == [v \in {a, b, Old, Resumed} |-> CASE v = a -> 2 [] v = b -> 1
                                              [] v = Old -> 3 [] OTHER -> 0]
Either   == {Old, None}

Bytes(x, y) == [unit |-> "bytes", list |-> FALSE, dash |-> TRUE, first |-> x, last |-> y]
MCRequests ==
  { [Bytes(Blank, Blank) EXCEPT !.unit = "none"],
    [Bytes(0, 0) EXCEPT !.unit = "other"],
    [Bytes(0, 0) EXCEPT !.list = TRUE],
    Bytes(Blank, 2), Bytes(1, Blank), Bytes(1, 1), Bytes(0, 2), Bytes(2, 1),
    Bytes(Blank, 0), Bytes(Garbage, 1) }
=============================================================================

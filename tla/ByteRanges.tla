------------------------------ MODULE ByteRanges ------------------------------
(***************************************************************************)
(* The Range header of a download (parse_range in files.rs).  A header is  *)
(* abstracted to what parse_range tells apart: its unit, whether it lists  *)
(* several ranges, whether it has a dash, and the two numbers around it.   *)
(***************************************************************************)
EXTENDS Naturals

CONSTANTS
  Blank,    \* a field with nothing in it
  Garbage   \* a field that is not a u64

ASSUME FieldAssumption == Blank \notin Nat /\ Garbage \notin Nat /\ Blank # Garbage

Fields  == Nat \cup {Blank, Garbage}

\* "none": no header, or one that is not text or has no "=".
Units   == {"none", "bytes", "other"}
Headers == [unit : Units, list : BOOLEAN, dash : BOOLEAN, first : Fields, last : Fields]

RangeSpec     == [kind : {"satisfiable", "unsatisfiable", "ignore"}, start : Nat, end : Nat]
Unsatisfiable == [kind |-> "unsatisfiable", start |-> 0, end |-> 0]
Ignore        == [kind |-> "ignore", start |-> 0, end |-> 0]
Satisfiable(a, b) == [kind |-> "satisfiable", start |-> a, end |-> b]

\* Mutant: more bytes than there are, asked for from the end.
SuffixUnclamped(n, size) == IF n = 0 THEN Unsatisfiable ELSE Satisfiable(size - n, size - 1)

\* The last bytes, as many as asked for or all of them.
Suffix(n, size) ==
  IF n = 0 THEN Unsatisfiable
           ELSE Satisfiable(IF n >= size THEN 0 ELSE size - n, size - 1)

\* Mutant: the end is compared with the size and not with the last position.
BoundedBySize(a, b, size) ==
  IF b < a \/ a >= size THEN Unsatisfiable
                        ELSE Satisfiable(a, IF b < size THEN b ELSE size)

Bounded(a, b, size) ==
  IF b < a \/ a >= size THEN Unsatisfiable
                        ELSE Satisfiable(a, IF b < size - 1 THEN b ELSE size - 1)

parse_range(h, size) ==
  CASE h.unit # "bytes"                            -> Ignore
    [] h.unit = "bytes" /\ (h.list \/ size = 0 \/ ~h.dash \/ Garbage \in {h.first, h.last})
                                                   -> Unsatisfiable
    [] OTHER -> CASE h.first = Blank /\ h.last = Blank -> Unsatisfiable
                  [] h.first = Blank /\ h.last # Blank -> Suffix(h.last, size)
                  [] h.first # Blank /\ h.last = Blank -> Bounded(h.first, size, size)
                  [] OTHER                             -> Bounded(h.first, h.last, size)

(* The reference: the positions of a file of this size that one range asks  *)
(* for, as the meaning of first-last, first- and -last has it.              *)
Wanted(h, size) ==
  {p \in 0 .. size - 1 :
     \/ h.first \in Nat /\ h.last \in Nat   /\ h.first <= p /\ p <= h.last
     \/ h.first \in Nat /\ h.last = Blank   /\ h.first <= p
     \/ h.first = Blank /\ h.last \in Nat   /\ size <= p + h.last}

\* A header that names one range of bytes.
OneRange(h) == h.unit = "bytes" /\ ~h.list /\ h.dash
=============================================================================

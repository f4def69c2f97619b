----------------------------- MODULE MCProgram -----------------------------
(* Small instances of Program: the rule lists of MCCutTree for one field. *)
EXTENDS Program, MCCutTree

(* Four rules of which the first takes up the low half of the segments of an equal-size
   cut.                                                                         *)
high_half ==
  {<<<<1, 9>>, <<1, 15>>, <<14, 14>>, <<12, 12>>>>, <<<<1, 9>>, <<11, 11>>, <<13, 14>>, <<1, 15>>>>}
lists_one ==
  lists_1d \cup lists_hi \cup {[i \in 1 .. 4 |-> [pri |-> i - 1, range |-> <<h[i]>>]] : h \in high_half}
=============================================================================

---------------------------- MODULE TreeFunction ----------------------------
(* The tables behind the internal bitmap's lookup: fast_lookup_init (mb_node.c) fills fct and
   pos2cidr before main, one turn of its inner loop at a time, and tree_function
   (mb_node.h) needs them to find the longest prefix.                           *)
EXTENDS EvenCut

VARIABLES i, j,        \* the loops of fast_lookup_init
          stride,      \* its copy of i, shifted as the inner loop goes
          fct,         \* per key without its last bit, the bits of its prefixes
          pos2cidr     \* per bit, the key bits it stands for

tables == <<i, j, stride, fct, pos2cidr>>

Strides == 0 .. 2^(STRIDE - 1) - 1
Positions == 0 .. 2^STRIDE - 2

FillInit ==
  /\ i = 0 /\ j = STRIDE - 1 /\ stride = 0
  /\ fct = [s \in Strides |-> {}]
  /\ pos2cidr = [p \in Positions |-> 0]

(* A slip: the stride is shifted before its first prefix is taken. *)
Position_Shifted == count_inl_bitmap(stride \div 2, j)

Position == count_inl_bitmap(stride, j)

Filling == i \in Strides

Fill ==
  /\ Filling
  /\ fct' = [fct EXCEPT ![i] = @ \cup {Position}]
  /\ pos2cidr' = [pos2cidr EXCEPT ![Position] = j + 1]
  /\ \/ j > 0 /\ j' = j - 1 /\ stride' = stride \div 2 /\ UNCHANGED i
     \/ j = 0 /\ j' = STRIDE - 1 /\ i' = i + 1 /\ stride' = i + 1

(* The lookup, by the highest bit that is both in the bitmap and in the key's row. *)
Lookup(bitmap, key) ==
  LET ret == fct[key \div 2] \cap bitmap
  IN IF ret = {} THEN [pos |-> -1, cidr |-> 0]
     ELSE [pos |-> Max(ret), cidr |-> pos2cidr[Max(ret)]]
=============================================================================

------------------------------- MODULE MCHeap -------------------------------
(* Six ranges, some with the same end; the array can grow to five. *)
EXTENDS Heap

MCEntries == 1 .. 6
MCKey == <<2, 1, 2, 3, 1, 4>>
=============================================================================

--------------------------- MODULE PriorityQueue ---------------------------
(* What a heap promises its caller (ccan/heap/heap.h): a set of entries from which
   a least one is taken.                                                        *)
EXTENDS Integers

CONSTANTS Entries,   \* the entries a caller may push
          key,       \* what the comparison function compares
          OK, ERR    \* results: heap_push's 0, and -1 or NULL

VARIABLES entries,   \* the entries in the queue
          ret        \* the result of the last call

Init == entries = {} /\ ret = OK

Least(x) == x \in entries /\ \A y \in entries : key[x] <= key[y]

Push(x) ==
  /\ x \notin entries
  /\ entries' = entries \cup {x}
  /\ ret' = OK

Pop(x) ==
  /\ Least(x)
  /\ entries' = entries \ {x}
  /\ ret' = x

(* The documented errors: heap_push returns -1 and keeps the queue; heap_pop may
   return NULL after it has extracted the root.                                 *)
Fail == ret' = ERR /\ UNCHANGED entries

Next == (\E x \in Entries : Push(x) \/ Pop(x)) \/ Fail

Spec == Init /\ [][Next]_<<entries, ret>>
=============================================================================

-------------------------------- MODULE Heap --------------------------------
(* The binary heap of ccan (ccan/heap/heap.c) that both sweeps keep their open
   ranges in.  One step is a call up to its loop, or one turn of the loop of __up
   or __down.                                                                   *)
EXTENDS Integers

CONSTANTS Entries,      \* what may be pushed: pointers to the elements of ranges
          key,          \* range1d.high, which aux_heap_less compares
          OK, ERR,      \* results: heap_push's 0, and -1 or NULL
          Room,         \* the largest array realloc can give
          HYSTERESIS    \* HEAP_MEM_HYSTERESIS (4096 in the code)

ASSUME HeapAssumption ==
  /\ Room \in Nat \ {0}
  /\ HYSTERESIS \in Nat \ {0}
  /\ key \in [Entries -> Int]

VARIABLES data,   \* the array, by index from 0; slots from len on are leftovers
          len, cap,
          call,   \* "none", or the loop that runs: "up" or "down"
          at,     \* the loop's index: j of __up, i of __down
          ret     \* the result of the last call

vars == <<data, len, cap, call, at, ret>>

less(a, b) == key[a] < key[b]

parent(j) == (j - 1) \div 2

swap(f, i, j) == [f EXCEPT ![i] = f[j], ![j] = f[i]]

Held == {data[k] : k \in 0 .. len - 1}

Init ==
  /\ data = [k \in 0 .. Room - 1 |-> ERR]
  /\ len = 0 /\ cap = 0
  /\ call = "none" /\ at = 0
  /\ ret = OK

(* A slip: the new entry is left at the end. *)
heap_push_Last(x) ==
  /\ call = "none" /\ x \notin Held
  /\ cap' = IF len = cap THEN cap + 1 ELSE cap
  /\ cap' <= Room
  /\ data' = [data EXCEPT ![len] = x]
  /\ len' = len + 1
  /\ ret' = OK
  /\ UNCHANGED <<call, at>>

(* A sweep pushes every element of ranges once, so x is not in the heap. *)
heap_push(x) ==
  /\ call = "none" /\ x \notin Held
  /\ cap' = IF len = cap THEN cap + 1 ELSE cap
  /\ cap' <= Room
  /\ data' = [data EXCEPT ![len] = x]
  /\ len' = len + 1
  /\ call' = "up" /\ at' = len
  /\ ret' = OK

PushFails ==
  /\ call = "none" /\ len = cap
  /\ ret' = ERR
  /\ UNCHANGED <<data, len, cap, call, at>>

(* __up *)
Rise ==
  /\ call = "up"
  /\ at > 0 /\ less(data[at], data[parent(at)])
  /\ data' = swap(data, parent(at), at)
  /\ at' = parent(at)
  /\ UNCHANGED <<len, cap, call, ret>>

(* A slip: the break is missing, and the loop only ends at the root. *)
Risen_NoBreak ==
  /\ call = "up"
  /\ ~(at > 0 /\ less(data[at], data[parent(at)]))
  /\ call' = (IF at = 0 THEN "none" ELSE call)
  /\ UNCHANGED <<data, len, cap, at, ret>>

Risen ==
  /\ call = "up"
  /\ ~(at > 0 /\ less(data[at], data[parent(at)]))
  /\ call' = "none" /\ at' = 0
  /\ UNCHANGED <<data, len, cap, ret>>

(* A slip: the last entry stays where it is and the root is only dropped. *)
heap_pop_Keep ==
  /\ call = "none" /\ len > 0
  /\ ret' = data[0]
  /\ len' = len - 1
  /\ call' = IF len' > 0 THEN "down" ELSE "none"
  /\ UNCHANGED <<data, cap, at>>

(* The callers check len first. *)
heap_pop ==
  /\ call = "none" /\ len > 0
  /\ ret' = data[0]
  /\ data' = swap(data, 0, len - 1)
  /\ len' = len - 1
  /\ call' = IF len' > 0 THEN "down" ELSE "none"
  /\ UNCHANGED <<cap, at>>

(* __down: the child to compare with, when there is one. *)
MinChild(i) ==
  LET l == 2 * i + 1
      r == l + 1
  IN IF r >= len \/ less(data[l], data[r]) THEN l ELSE r

Sinks(i) == 2 * i + 1 < len /\ less(data[MinChild(i)], data[i])

Sink ==
  /\ call = "down" /\ Sinks(at)
  /\ data' = swap(data, at, MinChild(at))
  /\ at' = MinChild(at)
  /\ UNCHANGED <<len, cap, call, ret>>

(* The loop of __down ends, and heap_pop gives memory back when enough is free; if
   realloc fails it returns NULL, although the root is gone.                    *)
Shrink == cap' = len /\ ret' = ret

ShrinkFails == cap' = cap /\ ret' = ERR

Sunk ==
  /\ call = "down" /\ ~Sinks(at)
  /\ call' = "none" /\ at' = 0
  /\ IF len = cap - HYSTERESIS THEN Shrink \/ ShrinkFails ELSE UNCHANGED <<cap, ret>>
  /\ UNCHANGED <<data, len>>

Next == (\E x \in Entries : heap_push(x)) \/ PushFails \/ Rise \/ Risen \/ heap_pop \/ Sink \/ Sunk

(* A call that has begun goes on to its end; calls need not be made. *)
Fairness == WF_vars(Rise \/ Risen \/ Sink \/ Sunk)

Spec == Init /\ [][Next]_vars /\ Fairness
-----------------------------------------------------------------------------
(* The fields have their types, and no slot beyond the allocation is in use. *)
TypeOK ==
  /\ data \in [0 .. Room - 1 -> Entries \cup {ERR}]
  /\ len \in 0 .. Room /\ cap \in 0 .. Room /\ len <= cap
  /\ \A k \in 0 .. len - 1 : data[k] \in Entries
  /\ call \in {"none", "up", "down"}
  /\ at \in 0 .. Room - 1
  /\ ret \in Entries \cup {OK, ERR}

(* What heap_peek returns between calls is a least entry: the sweeps close the open
   range that ends first.                                                       *)
PeekIsLeast ==
  call = "none" => \A k \in 0 .. len - 1 : key[data[0]] <= key[data[k]]

(* No entry is in two slots, so none is popped twice, whatever is swapped. *)
Distinct == \A j, k \in 0 .. len - 1 : data[j] = data[k] => j = k

(* The heap is a priority queue, with the errors heap.h documents: an entry stays
   until it is popped, and what is popped is least at that time.                *)
Queue == INSTANCE PriorityQueue WITH entries <- Held
IsQueue == Queue!Spec

(* __up and __down end. *)
CallsReturn == call # "none" ~> call = "none"
-----------------------------------------------------------------------------
(* What every step keeps.  Above(j): slot j's parent does not have the greater key.  While
   __up runs only the slot it is at may be out of order with its parent, while
   __down runs only its children may be; and in both the parent of that slot is in
   order with its children.                                                     *)
Above(j) == key[data[parent(j)]] <= key[data[j]]

Bridged == at > 0 => \A j \in 1 .. len - 1 : parent(j) = at => key[data[parent(at)]] <= key[data[j]]

HeapOrder ==
  /\ call = "none" => at = 0 /\ \A j \in 1 .. len - 1 : Above(j)
  /\ call = "up" => at < len /\ Bridged /\ \A j \in 1 .. len - 1 : j # at => Above(j)
  /\ call = "down" => at < len /\ Bridged /\ \A j \in 1 .. len - 1 : parent(j) # at => Above(j)

IInv == TypeOK /\ Distinct /\ HeapOrder
=============================================================================

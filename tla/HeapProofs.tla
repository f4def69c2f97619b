----------------------------- MODULE HeapProofs -----------------------------
(* The heap keeps its order for every set of entries, every comparison key, every
   array size and every hysteresis; so its root is least, and it implements the
   priority queue.                                                              *)
EXTENDS Heap, LeastNumbers, TLAPS

Slots == 0 .. Room - 1

(* A slot is the parent of at most two slots, both after it. *)
LEMMA ParentFacts ==
  ASSUME NEW j \in Nat, j > 0
  PROVE  /\ parent(j) \in Nat /\ parent(j) < j
         /\ j = 2 * parent(j) + 1 \/ j = 2 * parent(j) + 2
BY DEF parent

(* swap exchanges two slots and leaves the others. *)
LEMMA SwapFacts ==
  ASSUME data \in [Slots -> Entries \cup {ERR}], NEW i \in Slots, NEW j \in Slots
  PROVE  /\ swap(data, i, j) \in [Slots -> Entries \cup {ERR}]
         /\ swap(data, i, j)[i] = data[j]
         /\ swap(data, i, j)[j] = data[i]
         /\ \A k \in Slots : k # i /\ k # j => swap(data, i, j)[k] = data[k]
BY DEF swap

(* A swap below len keeps the set of entries, and keeps them distinct. *)
LEMMA SwapKeeps ==
  ASSUME TypeOK, Distinct, NEW i \in 0 .. len - 1, NEW j \in 0 .. len - 1,
         data' = swap(data, i, j), len' = len
  PROVE  /\ Held' = Held /\ Distinct'
         /\ data' \in [Slots -> Entries \cup {ERR}]
         /\ \A k \in 0 .. len - 1 : data'[k] \in Entries
<1>1. /\ data' \in [Slots -> Entries \cup {ERR}]
      /\ data'[i] = data[j] /\ data'[j] = data[i]
      /\ \A k \in Slots : k # i /\ k # j => data'[k] = data[k]
  <2>1. i \in Slots /\ j \in Slots /\ data \in [Slots -> Entries \cup {ERR}]
    BY HeapAssumption DEF TypeOK, Slots
  <2>. QED BY <2>1, SwapFacts
<1>2. \A k \in 0 .. len - 1 : k \in Slots
  BY HeapAssumption DEF TypeOK, Slots
<1>3. \A k \in 0 .. len - 1 : data[k] \in Entries
  BY DEF TypeOK
<1>4. \A k \in 0 .. len - 1 : data'[k] \in Entries
  BY <1>1, <1>2, <1>3
<1>5. Distinct'
  <2>. SUFFICES ASSUME NEW a \in 0 .. len - 1, NEW b \in 0 .. len - 1, data'[a] = data'[b]
                PROVE  a = b
    BY DEF Distinct
  <2>. QED BY <1>1, <1>2 DEF Distinct
<1>6. Held' = Held
  BY <1>1, <1>2 DEF Held
<1>. QED BY <1>1, <1>4, <1>5, <1>6

LEMMA InitIInv == Init => IInv
<1>. SUFFICES ASSUME Init PROVE IInv
  OBVIOUS
<1>1. TypeOK
  BY HeapAssumption DEF Init, TypeOK
<1>2. Distinct
  BY DEF Init, Distinct
<1>3. HeapOrder
  BY DEF Init, HeapOrder
<1>. QED BY <1>1, <1>2, <1>3 DEF IInv

LEMMA PushIInv ==
  ASSUME IInv, NEW x \in Entries, heap_push(x)
  PROVE  IInv' /\ Held' = Held \cup {x}
<1>. USE HeapAssumption
<1>1. /\ call = "none" /\ len \in Nat /\ len < Room /\ len' = len + 1
      /\ call' = "up" /\ at' = len /\ x \notin Held
  BY DEF IInv, TypeOK, heap_push
<1>2. /\ data' \in [0 .. Room - 1 -> Entries \cup {ERR}]
      /\ data'[len] = x
      /\ \A k \in 0 .. len - 1 : data'[k] = data[k]
  BY <1>1 DEF IInv, TypeOK, heap_push
<1>3. \A k \in 0 .. len : data'[k] \in Entries
  BY <1>1, <1>2 DEF IInv, TypeOK
<1>4. TypeOK'
  BY <1>1, <1>2, <1>3 DEF IInv, TypeOK, heap_push
<1>5. \A k \in 0 .. len - 1 : data[k] # x
  BY <1>1 DEF Held
<1>6. Distinct'
  <2>. SUFFICES ASSUME NEW a \in 0 .. len, NEW b \in 0 .. len, data'[a] = data'[b]
                PROVE  a = b
    BY <1>1 DEF Distinct
  <2>. QED BY <1>1, <1>2, <1>5 DEF IInv, Distinct
<1>7. HeapOrder'
  <2>1. ASSUME NEW j \in 1 .. len, j # len PROVE Above(j)'
    <3>1. parent(j) \in 0 .. len - 1 /\ j \in 0 .. len - 1 /\ j \in 1 .. len - 1
      BY <1>1, <2>1, ParentFacts
    <3>2. Above(j)
      BY <1>1, <3>1 DEF IInv, HeapOrder
    <3>. QED BY <3>1, <3>2, <1>2 DEF Above
  <2>2. ASSUME NEW j \in 1 .. len PROVE parent(j) # len
    BY <1>1, ParentFacts
  <2>. QED BY <1>1, <2>1, <2>2 DEF HeapOrder, Bridged
<1>8. Held' = Held \cup {x}
  BY <1>1, <1>2 DEF Held
<1>. QED BY <1>4, <1>6, <1>7, <1>8 DEF IInv

LEMMA PopIInv ==
  ASSUME IInv, heap_pop
  PROVE  IInv' /\ Held' = Held \ {data[0]} /\ data[0] \in Held
<1>. USE HeapAssumption
<1>1. /\ call = "none" /\ len \in Nat /\ len > 0 /\ len <= Room /\ len' = len - 1
      /\ at = 0 /\ at' = 0 /\ data' = swap(data, 0, len - 1)
      /\ call' = IF len' > 0 THEN "down" ELSE "none"
  BY DEF IInv, TypeOK, HeapOrder, heap_pop
<1>2. /\ data' \in [0 .. Room - 1 -> Entries \cup {ERR}]
      /\ data'[0] = data[len - 1] /\ data'[len - 1] = data[0]
      /\ \A k \in 0 .. Room - 1 : k # 0 /\ k # len - 1 => data'[k] = data[k]
  <2>1. 0 \in 0 .. Room - 1 /\ len - 1 \in 0 .. Room - 1
    BY <1>1
  <2>2. data \in [Slots -> Entries \cup {ERR}]
    BY DEF IInv, TypeOK, Slots
  <2>. QED BY <1>1, <2>1, <2>2, SwapFacts DEF Slots
<1>3. \A k \in 0 .. len - 1 : data[k] \in Entries
  BY DEF IInv, TypeOK
<1>4. \A k \in 0 .. len - 2 : data'[k] \in Entries
  BY <1>1, <1>2, <1>3
<1>5. TypeOK'
  <2>1. ret' \in Entries /\ cap' = cap
    BY <1>1, <1>3 DEF heap_pop
  <2>. QED BY <1>1, <1>2, <1>4, <2>1 DEF IInv, TypeOK
<1>6. Distinct'
  <2>. SUFFICES ASSUME NEW a \in 0 .. len - 2, NEW b \in 0 .. len - 2, data'[a] = data'[b]
                PROVE  a = b
    BY <1>1 DEF Distinct
  <2>. QED BY <1>1, <1>2 DEF IInv, Distinct
<1>7. HeapOrder'
  <2>1. ASSUME NEW j \in 1 .. len - 2, parent(j) # 0 PROVE Above(j)'
    <3>1. parent(j) \in 1 .. len - 2 /\ j \in 1 .. len - 1
      BY <1>1, <2>1, ParentFacts
    <3>2. Above(j)
      BY <1>1, <3>1 DEF IInv, HeapOrder
    <3>. QED BY <3>1, <3>2, <1>1, <1>2 DEF Above
  <2>. QED BY <1>1, <2>1 DEF HeapOrder, Bridged
<1>8. Held' = Held \ {data[0]}
  <2>1. \A k \in 1 .. len - 1 : data[k] # data[0]
    BY <1>1 DEF IInv, Distinct
  <2>2. ASSUME NEW v \in Held' PROVE v \in Held \ {data[0]}
    BY <1>1, <1>2, <2>1 DEF Held
  <2>3. ASSUME NEW v \in Held \ {data[0]} PROVE v \in Held'
    <3>1. PICK k \in 0 .. len - 1 : v = data[k]
      BY DEF Held
    <3>2. k # 0
      BY <3>1
    <3>3. CASE k = len - 1
      BY <1>1, <1>2, <3>1, <3>2, <3>3 DEF Held
    <3>4. CASE k # len - 1
      BY <1>1, <1>2, <3>1, <3>2, <3>4 DEF Held
    <3>. QED BY <3>3, <3>4
  <2>. QED BY <2>2, <2>3
<1>9. data[0] \in Held
  BY <1>1 DEF Held
<1>. QED BY <1>5, <1>6, <1>7, <1>8, <1>9 DEF IInv

LEMMA RiseIInv ==
  ASSUME IInv, Rise
  PROVE  IInv' /\ Held' = Held
<1>. USE HeapAssumption
<1>. DEFINE p == parent(at)
<1>1. /\ call = "up" /\ call' = "up" /\ len \in Nat /\ len <= Room /\ len' = len
      /\ at \in 1 .. len - 1 /\ at' = p /\ data' = swap(data, p, at)
      /\ key[data[at]] < key[data[p]]
  BY DEF IInv, TypeOK, HeapOrder, Rise, less
<1>2. p \in 0 .. len - 1 /\ p < at /\ p # at
  BY <1>1, ParentFacts
<1>3. TypeOK /\ Distinct
  BY DEF IInv
<1>4. /\ Held' = Held /\ Distinct'
      /\ data' \in [Slots -> Entries \cup {ERR}]
      /\ \A k \in 0 .. len - 1 : data'[k] \in Entries
  BY <1>1, <1>2, <1>3, SwapKeeps
<1>5. /\ data'[p] = data[at] /\ data'[at] = data[p]
      /\ \A k \in 0 .. len - 1 : k # p /\ k # at => data'[k] = data[k]
  <2>1. data \in [Slots -> Entries \cup {ERR}] /\ p \in Slots /\ at \in Slots
    BY <1>1, <1>2, <1>3 DEF TypeOK, Slots
  <2>2. \A k \in 0 .. len - 1 : k \in Slots
    BY <1>1 DEF Slots
  <2>. HIDE DEF p
  <2>. QED BY <1>1, <2>1, <2>2, SwapFacts
<1>6. TypeOK'
  BY <1>1, <1>2, <1>3, <1>4 DEF Rise, TypeOK, Slots
<1>7. \A k \in 0 .. len - 1 : key[data[k]] \in Int
  BY <1>3 DEF TypeOK
<1>8. /\ \A j \in 1 .. len - 1 : j # at => key[data[parent(j)]] <= key[data[j]]
      /\ \A j \in 1 .. len - 1 : parent(j) = at => key[data[p]] <= key[data[j]]
  BY <1>1 DEF IInv, HeapOrder, Bridged, Above
<1>. HIDE DEF p
<1>9. ASSUME NEW j \in 1 .. len - 1, j # p PROVE Above(j)'
  <2>1. parent(j) \in 0 .. len - 1 /\ j \in 0 .. len - 1
    BY ParentFacts, <1>1
  <2>2. CASE j = at
    BY <2>2, <1>1, <1>2, <1>5, <1>7 DEF Above, p
  <2>3. CASE parent(j) = at
    <3>1. j # at
      BY <2>3, <1>1, ParentFacts
    <3>. QED BY <2>1, <2>3, <3>1, <1>5, <1>8, <1>9 DEF Above
  <2>4. CASE j # at /\ parent(j) = p
    <3>1. key[data[p]] <= key[data[j]]
      BY <2>4, <1>8
    <3>2. key[data[at]] <= key[data[j]]
      BY <3>1, <2>1, <1>1, <1>2, <1>7
    <3>. QED BY <2>1, <2>4, <3>2, <1>5, <1>9 DEF Above
  <2>5. CASE j # at /\ parent(j) # at /\ parent(j) # p
    BY <2>1, <2>5, <1>5, <1>8, <1>9 DEF Above
  <2>. QED BY <2>2, <2>3, <2>4, <2>5
<1>10. ASSUME p > 0, NEW j \in 1 .. len - 1, parent(j) = p
       PROVE  key[data'[parent(p)]] <= key[data'[j]]
  <2>1. parent(p) \in 0 .. len - 1 /\ parent(p) < p /\ p \in 1 .. len - 1 /\ j \in 0 .. len - 1
    BY ParentFacts, <1>1, <1>2, <1>10
  <2>2. key[data[parent(p)]] <= key[data[p]] /\ data'[parent(p)] = data[parent(p)]
    BY <2>1, <1>1, <1>2, <1>5, <1>8
  <2>3. CASE j = at
    BY <2>1, <2>2, <2>3, <1>5
  <2>4. CASE j # at
    <3>1. key[data[p]] <= key[data[j]]
      BY <2>4, <1>8, <1>10
    <3>2. j # p
      BY <1>10, <1>1, ParentFacts
    <3>3. data'[j] = data[j]
      BY <3>2, <2>4, <2>1, <1>5
    <3>. QED BY <3>1, <3>3, <2>1, <2>2, <1>2, <1>7
  <2>. QED BY <2>3, <2>4
<1>11. HeapOrder'
  BY <1>1, <1>2, <1>9, <1>10 DEF HeapOrder, Bridged
<1>. QED BY <1>4, <1>6, <1>11 DEF IInv

(* The child __down compares with is a least child. *)
LEMMA MinChildFacts ==
  ASSUME TypeOK, NEW i \in Nat, 2 * i + 1 < len
  PROVE  /\ MinChild(i) \in 1 .. len - 1 /\ parent(MinChild(i)) = i
         /\ \A j \in 1 .. len - 1 : parent(j) = i => key[data[MinChild(i)]] <= key[data[j]]
<1>. USE HeapAssumption
<1>1. len \in Nat /\ \A k \in 0 .. len - 1 : key[data[k]] \in Int
  BY DEF TypeOK
<1>2. MinChild(i) \in {2 * i + 1, 2 * i + 2} /\ MinChild(i) < len
  BY <1>1 DEF MinChild
<1>3. parent(2 * i + 1) = i /\ parent(2 * i + 2) = i
  BY DEF parent
<1>4. ASSUME NEW j \in 1 .. len - 1, parent(j) = i
      PROVE  key[data[MinChild(i)]] <= key[data[j]]
  <2>1. j = 2 * i + 1 \/ j = 2 * i + 2
    BY <1>1, <1>4, ParentFacts
  <2>2. CASE 2 * i + 2 >= len
    <3>1. MinChild(i) = j
      BY <1>1, <1>2, <2>1, <2>2
    <3>. QED BY <3>1, <1>1
  <2>3. CASE 2 * i + 2 < len
    <3>1. key[data[2 * i + 1]] \in Int /\ key[data[2 * i + 2]] \in Int
      BY <1>1, <2>3
    <3>2. MinChild(i) = IF key[data[2 * i + 1]] < key[data[2 * i + 2]] THEN 2 * i + 1 ELSE 2 * i + 2
      BY <1>1, <2>3 DEF MinChild, less
    <3>. QED BY <2>1, <3>1, <3>2
  <2>. QED BY <2>2, <2>3, <1>1
<1>. QED BY <1>1, <1>2, <1>3, <1>4

LEMMA SinkIInv ==
  ASSUME IInv, Sink
  PROVE  IInv' /\ Held' = Held
<1>. USE HeapAssumption
<1>. DEFINE c == MinChild(at)
<1>1. /\ call = "down" /\ call' = "down" /\ len \in Nat /\ len <= Room /\ len' = len
      /\ at \in 0 .. len - 1 /\ at' = c /\ data' = swap(data, at, c)
      /\ 2 * at + 1 < len /\ key[data[c]] < key[data[at]]
  BY DEF IInv, TypeOK, HeapOrder, Sink, Sinks, less
<1>2. TypeOK /\ Distinct
  BY DEF IInv
<1>3. /\ c \in 1 .. len - 1 /\ parent(c) = at
      /\ \A j \in 1 .. len - 1 : parent(j) = at => key[data[c]] <= key[data[j]]
  BY <1>1, <1>2, MinChildFacts
<1>. HIDE DEF c
<1>4. at < c
  BY <1>3, ParentFacts
<1>5. /\ Held' = Held /\ Distinct'
      /\ data' \in [Slots -> Entries \cup {ERR}]
      /\ \A k \in 0 .. len - 1 : data'[k] \in Entries
  <2>1. c \in 0 .. len - 1
    BY <1>3
  <2>. QED BY <1>1, <1>2, <2>1, SwapKeeps
<1>6. /\ data'[c] = data[at] /\ data'[at] = data[c]
      /\ \A k \in 0 .. len - 1 : k # c /\ k # at => data'[k] = data[k]
  <2>1. data \in [Slots -> Entries \cup {ERR}] /\ c \in Slots /\ at \in Slots
    BY <1>1, <1>2, <1>3 DEF TypeOK, Slots
  <2>2. \A k \in 0 .. len - 1 : k \in Slots
    BY <1>1 DEF Slots
  <2>. QED BY <1>1, <2>1, <2>2, SwapFacts
<1>7. TypeOK'
  BY <1>1, <1>2, <1>3, <1>5 DEF Sink, TypeOK, Slots
<1>8. \A k \in 0 .. len - 1 : key[data[k]] \in Int
  BY <1>2 DEF TypeOK
<1>9. /\ \A j \in 1 .. len - 1 : parent(j) # at => key[data[parent(j)]] <= key[data[j]]
      /\ at > 0 => \A j \in 1 .. len - 1 : parent(j) = at => key[data[parent(at)]] <= key[data[j]]
  BY <1>1 DEF IInv, HeapOrder, Bridged, Above
<1>10. ASSUME NEW j \in 1 .. len - 1, parent(j) # c PROVE Above(j)'
  <2>1. parent(j) \in 0 .. len - 1 /\ parent(j) < j /\ j \in 0 .. len - 1
    BY ParentFacts, <1>1
  <2>2. CASE j = c
    BY <2>1, <2>2, <1>1, <1>3, <1>4, <1>6, <1>8 DEF Above
  <2>3. CASE j # c /\ parent(j) = at
    <3>1. data'[j] = data[j]
      BY <2>1, <2>3, <1>6
    <3>. QED BY <2>3, <3>1, <1>3, <1>6 DEF Above
  <2>4. CASE j = at
    <3>1. key[data[parent(at)]] <= key[data[c]]
      BY <2>4, <1>3, <1>9
    <3>2. data'[parent(at)] = data[parent(at)]
      BY <2>1, <2>4, <1>6, <1>10
    <3>. QED BY <2>4, <3>1, <3>2, <1>6 DEF Above
  <2>5. CASE j # c /\ j # at /\ parent(j) # at
    BY <2>1, <2>5, <1>6, <1>9, <1>10 DEF Above
  <2>. QED BY <2>2, <2>3, <2>4, <2>5
<1>11. ASSUME NEW j \in 1 .. len - 1, parent(j) = c
       PROVE  key[data'[parent(c)]] <= key[data'[j]]
  <2>1. j \in 0 .. len - 1 /\ c < j /\ parent(j) # at
    BY ParentFacts, <1>1, <1>3, <1>4, <1>11
  <2>2. key[data[c]] <= key[data[j]]
    BY <2>1, <1>9, <1>11
  <2>3. j # c /\ j # at
    BY <2>1, <1>1, <1>3, <1>4
  <2>4. data'[j] = data[j]
    BY <2>1, <2>3, <1>6
  <2>. QED BY <2>2, <2>4, <1>3, <1>6
<1>12. HeapOrder'
  BY <1>1, <1>3, <1>10, <1>11 DEF HeapOrder, Bridged
<1>. QED BY <1>5, <1>7, <1>12 DEF IInv

(* The steps that end a loop, and a failed push, move no entry. *)
LEMMA EndIInv ==
  ASSUME IInv, Risen \/ Sunk \/ PushFails
  PROVE  IInv' /\ Held' = Held /\ (ret' = ret \/ ret' = ERR)
<1>. USE HeapAssumption
<1>1. data' = data /\ len' = len /\ (ret' = ret \/ ret' = ERR)
  <2>1. CASE Risen
    BY <2>1 DEF Risen
  <2>2. CASE Sunk
    BY <2>2 DEF Sunk, Shrink, ShrinkFails
  <2>3. CASE PushFails
    BY <2>3 DEF PushFails
  <2>. QED BY <2>1, <2>2, <2>3
<1>2. Distinct' /\ Held' = Held
  BY <1>1 DEF IInv, Distinct, Held
<1>3. CASE Risen
  <2>1. call = "up" /\ call' = "none" /\ at' = 0 /\ cap' = cap /\ ret' = ret
    BY <1>3 DEF Risen
  <2>2. TypeOK'
    BY <1>1, <2>1 DEF IInv, TypeOK
  <2>3. at > 0 => Above(at)
    <3>1. at > 0 => parent(at) \in 0 .. len - 1 /\ at \in 0 .. len - 1
      BY <2>1, ParentFacts DEF IInv, TypeOK, HeapOrder
    <3>2. at > 0 => key[data[at]] \in Int /\ key[data[parent(at)]] \in Int
      BY <3>1 DEF IInv, TypeOK
    <3>. QED BY <1>3, <3>2 DEF Risen, less, Above
  <2>4. HeapOrder'
    BY <1>1, <2>1, <2>3 DEF IInv, HeapOrder, Above
  <2>. QED BY <1>1, <1>2, <2>2, <2>4 DEF IInv
<1>4. CASE Sunk
  <2>1. call = "down" /\ call' = "none" /\ at' = 0
    BY <1>4 DEF Sunk
  <2>2. TypeOK'
    <3>1. cap' = cap \/ cap' = len
      BY <1>4 DEF Sunk, Shrink, ShrinkFails
    <3>. QED BY <1>1, <2>1, <3>1 DEF IInv, TypeOK
  <2>3. ASSUME NEW j \in 1 .. len - 1, parent(j) = at PROVE Above(j)
    <3>0. at \in 0 .. len - 1 /\ len \in Nat
      BY <2>1 DEF IInv, TypeOK, HeapOrder
    <3>1. at \in Nat /\ 2 * at + 1 < len /\ j \in 0 .. len - 1
      BY <3>0, <2>3, ParentFacts
    <3>2. MinChild(at) \in 1 .. len - 1 /\ key[data[MinChild(at)]] <= key[data[j]]
      BY <3>1, <2>3, MinChildFacts DEF IInv
    <3>3. ~(key[data[MinChild(at)]] < key[data[at]])
      BY <1>4, <3>1 DEF Sunk, Sinks, less
    <3>4. key[data[at]] \in Int /\ key[data[MinChild(at)]] \in Int /\ key[data[j]] \in Int
      BY <3>0, <3>1, <3>2 DEF IInv, TypeOK
    <3>. QED BY <2>3, <3>2, <3>3, <3>4 DEF Above
  <2>4. HeapOrder'
    BY <1>1, <2>1, <2>3 DEF IInv, HeapOrder, Above
  <2>. QED BY <1>1, <1>2, <2>2, <2>4 DEF IInv
<1>5. CASE PushFails
  <2>1. cap' = cap /\ call' = call /\ at' = at
    BY <1>5 DEF PushFails
  <2>2. TypeOK'
    BY <1>1, <2>1 DEF IInv, TypeOK
  <2>3. HeapOrder'
    BY <1>1, <2>1 DEF IInv, HeapOrder, Bridged, Above
  <2>. QED BY <1>1, <1>2, <2>2, <2>3 DEF IInv
<1>. QED BY <1>3, <1>4, <1>5

(* Every step keeps the invariant. *)
LEMMA NextIInv == IInv /\ [Next]_vars => IInv'
<1>. SUFFICES ASSUME IInv, [Next]_vars PROVE IInv'
  OBVIOUS
<1>1. CASE \E x \in Entries : heap_push(x)
  BY <1>1, PushIInv
<1>2. CASE heap_pop
  BY <1>2, PopIInv
<1>3. CASE Rise
  BY <1>3, RiseIInv
<1>4. CASE Sink
  BY <1>4, SinkIInv
<1>5. CASE Risen \/ Sunk \/ PushFails
  BY <1>5, EndIInv
<1>6. CASE UNCHANGED vars
  BY <1>6 DEF vars, IInv, TypeOK, Distinct, HeapOrder, Bridged, Above
<1>. QED BY <1>1, <1>2, <1>3, <1>4, <1>5, <1>6 DEF Next

(* In an ordered heap no entry has a lesser key than the root: the first slot that had
   one would have a parent before it that has one too.                          *)
LEMMA RootIsLeast == IInv => PeekIsLeast
<1>. USE HeapAssumption
<1>. SUFFICES ASSUME IInv, call = "none" PROVE \A k \in 0 .. len - 1 : key[data[0]] <= key[data[k]]
  BY DEF PeekIsLeast
<1>. DEFINE S == {k \in 0 .. len - 1 : key[data[k]] < key[data[0]]}
<1>1. len \in Nat /\ \A k \in 0 .. len - 1 : key[data[k]] \in Int
  BY DEF IInv, TypeOK
<1>2. ASSUME S # {} PROVE FALSE
  <2>1. PICK k \in S : \A y \in S : k <= y
    <3>. HIDE DEF S
    <3>1. S \in SUBSET Nat
      BY <1>1 DEF S
    <3>. QED BY <3>1, <1>2, LeastNumber
  <2>2. k \in 1 .. len - 1
    BY <1>1, <2>1
  <2>3. parent(k) \in 0 .. len - 1 /\ parent(k) < k
    BY <1>1, <2>2, ParentFacts
  <2>4. key[data[parent(k)]] <= key[data[k]]
    BY <2>2 DEF IInv, HeapOrder, Above
  <2>5. parent(k) \in S
    BY <1>1, <2>1, <2>2, <2>3, <2>4
  <2>. QED BY <2>1, <2>2, <2>3, <2>5
<1>3. ASSUME NEW k \in 0 .. len - 1 PROVE key[data[0]] <= key[data[k]]
  <2>1. k \notin S
    BY <1>2
  <2>2. 0 \in 0 .. len - 1
    BY <1>1
  <2>. QED BY <1>1, <2>1, <2>2
<1>. QED BY <1>3

(* The array is only read and written where it holds entries, and what heap_peek returns
   between calls is a least entry.                                              *)
THEOREM HeapSafe == Spec => [](TypeOK /\ Distinct /\ PeekIsLeast)
<1>1. IInv => TypeOK /\ Distinct /\ PeekIsLeast
  BY RootIsLeast DEF IInv
<1>. QED BY InitIInv, NextIInv, <1>1, PTL DEF Spec

(* Every step of the heap is a step of the priority queue or leaves it alone. *)
LEMMA NextIsQueue ==
  ASSUME IInv, [Next]_vars
  PROVE  [Queue!Next]_<<Held, ret>>
<1>1. CASE \E x \in Entries : heap_push(x)
  <2>1. PICK x \in Entries : heap_push(x)
    BY <1>1
  <2>2. Held' = Held \cup {x} /\ x \notin Held /\ ret' = OK
    BY <2>1, PushIInv DEF heap_push
  <2>. QED BY <2>2 DEF Queue!Next, Queue!Push
<1>2. CASE heap_pop
  <2>1. data[0] \in Held /\ Held' = Held \ {data[0]} /\ ret' = data[0] /\ data[0] \in Entries
    BY <1>2, PopIInv, HeapAssumption DEF heap_pop, IInv, TypeOK
  <2>2. \A y \in Held : key[data[0]] <= key[y]
    BY <1>2, RootIsLeast DEF heap_pop, PeekIsLeast, Held
  <2>. QED BY <2>1, <2>2 DEF Queue!Next, Queue!Pop, Queue!Least
<1>3. CASE Rise
  BY <1>3, RiseIInv DEF Rise
<1>4. CASE Sink
  BY <1>4, SinkIInv DEF Sink
<1>5. CASE Risen \/ Sunk \/ PushFails
  BY <1>5, EndIInv DEF Queue!Next, Queue!Fail
<1>6. CASE UNCHANGED vars
  BY <1>6 DEF vars, Held
<1>. QED BY <1>1, <1>2, <1>3, <1>4, <1>5, <1>6 DEF Next

(* The heap of ccan implements the priority queue the sweeps use it as. *)
THEOREM HeapImplements == Spec => IsQueue
<1>1. Init => Queue!Init
  BY DEF Init, Queue!Init, Held
<1>. QED BY <1>1, InitIInv, NextIInv, NextIsQueue, PTL DEF Spec, IsQueue, Queue!Spec
=============================================================================

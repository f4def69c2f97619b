--------------------------- MODULE OptParseProofs ---------------------------
(* The place in a cluster of short options is kept right, and every call of parse_one uses
   something up, for every option table and every set of command lines.                                 *)
EXTENDS OptParse, LeastNumbers, SequenceTheorems

(* Taking an argument away leaves one argument less. *)
LEMMA ConsumeFacts ==
  ASSUME NEW args \in Seq(Arguments), NEW a \in 1 .. Len(args)
  PROVE  /\ consume_option(args, a) \in Seq(Arguments)
         /\ Len(consume_option(args, a)) = Len(args) - 1
<1>. DEFINE before == SubSeq(args, 1, a - 1)
            after  == SubSeq(args, a + 1, Len(args))
<1>1. before \in Seq(Arguments) /\ Len(before) = a - 1
  <2>1. \A i \in 1 .. a - 1 : args[i] \in Arguments
    OBVIOUS
  <2>. QED BY <2>1, SubSeqProperties
<1>2. after \in Seq(Arguments) /\ Len(after) = Len(args) - a
  <2>1. \A i \in a + 1 .. Len(args) : args[i] \in Arguments
    OBVIOUS
  <2>. QED BY <2>1, SubSeqProperties
<1>3. consume_option(args, a) = before \o after
  BY DEF consume_option, RemoveAt
<1>. HIDE DEF before, after
<1>4. before \o after \in Seq(Arguments) /\ Len(before \o after) = Len(before) + Len(after)
  BY <1>1, <1>2, ConcatProperties
<1>. QED BY <1>1, <1>2, <1>3, <1>4

(* The argument looked at is a place in argv, or one past its end. *)
LEMMA ArgType ==
  ASSUME argv \in Seq(Arguments)
  PROVE  Arg \in Nat \ {0}
<1>1. CASE posix
  BY <1>1 DEF Arg
<1>2. CASE ~posix
  <2>. DEFINE S == {a \in 1 .. Len(argv) + 1 : a > Len(argv) \/ argv[a].dashes > 0}
              first(a) == /\ a > Len(argv) \/ argv[a].dashes > 0
                          /\ \A b \in 1 .. a - 1 : argv[b].dashes = 0
  <2>1. PICK a \in S : \A b \in S : a <= b
    <3>1. Len(argv) + 1 \in S /\ S \in SUBSET Nat
      OBVIOUS
    <3>. QED BY <3>1, LeastNumber
  <2>2. \A b \in 1 .. a - 1 : argv[b].dashes = 0
    <3>. SUFFICES ASSUME NEW b \in 1 .. a - 1 PROVE argv[b].dashes = 0
      OBVIOUS
    <3>1. a \in 1 .. Len(argv) + 1 /\ b \in 1 .. Len(argv) /\ b < a
      OBVIOUS
    <3>2. b \notin S
      BY <2>1, <3>1
    <3>3. ~(argv[b].dashes > 0)
      BY <3>1, <3>2
    <3>4. argv[b] \in Arguments
      BY <3>1
    <3>5. argv[b].dashes \in 0 .. 2
      BY <3>4, OptAssumption, Zenon
    <3>. QED BY <3>3, <3>5
  <2>3. \E c \in 1 .. Len(argv) + 1 : first(c)
    BY <2>1, <2>2
  <2>4. Arg = CHOOSE c \in 1 .. Len(argv) + 1 : first(c)
    BY <1>2, Zenon DEF Arg
  <2>. HIDE DEF first
  <2>5. Arg \in 1 .. Len(argv) + 1
    BY <2>3, <2>4, Zenon
  <2>. QED BY <2>5
<1>. QED BY <1>1, <1>2

(* An argument that parse_one finds is one of the command line's. *)
LEMMA FoundType ==
  ASSUME argv \in Seq(Arguments), ~Stops
  PROVE  /\ Found(Arg) /\ Arg \in 1 .. Len(argv)
         /\ argv[Arg] \in Arguments
         /\ Len(argv[Arg].letters) \in Nat
<1>1. Found(Arg) /\ Arg \in Nat \ {0}
  BY ArgType DEF Stops
<1>2. Arg \in 1 .. Len(argv)
  BY <1>1 DEF Found
<1>3. argv[Arg] \in Arguments
  BY <1>2
<1>. QED BY <1>1, <1>2, <1>3, OptAssumption

(* What an option and its argument leave of the command line is shorter: when the argument
   is the next word there is one, since otherwise the option was misused.       *)
LEMMA ConsumedFacts ==
  ASSUME argv \in Seq(Arguments), ~Stops, ~Misused(argv[Arg], Arg)
  PROVE  /\ Consumed(argv[Arg], Arg) \in Seq(Arguments)
         /\ Len(Consumed(argv[Arg], Arg)) < Len(argv)
<1>. DEFINE x    == argv[Arg]
            rest == consume_option(argv, Arg)
            next == x.value = NULL /\ Swallowed(x) = <<>> /\ \E o \in Entries(x) : o.arg
<1>1. Arg \in 1 .. Len(argv)
  BY FoundType
<1>2. rest \in Seq(Arguments) /\ Len(rest) = Len(argv) - 1
  BY <1>1, ConsumeFacts
<1>3. CASE next
  <2>1. optarg(x, Arg) # NULL
    BY <1>3 DEF Misused
  <2>2. Arg < Len(argv)
    BY <1>3, <2>1 DEF optarg
  <2>3. Arg \in 1 .. Len(rest)
    BY <1>1, <1>2, <2>2
  <2>4. /\ consume_option(rest, Arg) \in Seq(Arguments)
        /\ Len(consume_option(rest, Arg)) = Len(rest) - 1
    BY <1>2, <2>3, ConsumeFacts
  <2>5. Consumed(x, Arg) = consume_option(rest, Arg)
    BY <1>3 DEF Consumed
  <2>. QED BY <1>2, <2>4, <2>5
<1>4. CASE ~next
  <2>1. Consumed(x, Arg) = rest
    BY <1>4 DEF Consumed
  <2>. QED BY <1>2, <2>1
<1>. QED BY <1>3, <1>4

(* A successful call keeps the invariant and uses something up. *)
LEMMA ParsedKeeps ==
  ASSUME OptInv, Parsed
  PROVE  OptInv' /\ UsesUp
<1>. DEFINE x == argv[Arg]
<1>1. PICK o \in Entries(x) :
        LET with == IF o.arg THEN optarg(x, Arg) ELSE NULL
        IN IF <<o.name, with>> \in Problems
           THEN /\ ret' = -1
                /\ offset' = IF o.arg /\ Swallowed(x) # <<>> THEN 0
                             ELSE IF x.dashes = 1 THEN offset + 1 ELSE offset
                /\ UNCHANGED argv
           ELSE /\ UNCHANGED ret
                /\ offset' = IF InCluster(x, o) THEN offset + 1 ELSE 0
                /\ argv' = IF InCluster(x, o) THEN argv ELSE Consumed(x, Arg)
  BY Zenon DEF Parsed
<1>2. ret = 1 /\ ~Stops /\ ~Misused(x, Arg) /\ posix' = posix
  BY DEF Parsed
<1>3. argv \in Seq(Arguments) /\ offset \in Nat
  BY DEF OptInv
<1>4. CASE ret' = -1 /\ argv' = argv /\ offset' \in Nat
  BY <1>3, <1>4 DEF OptInv, OffsetInCluster, UsesUp
<1>5. CASE ~InCluster(x, o) /\ ret' = ret /\ offset' = 0 /\ argv' = Consumed(x, Arg)
  <2>1. Consumed(x, Arg) \in Seq(Arguments) /\ Len(Consumed(x, Arg)) < Len(argv)
    BY <1>2, <1>3, ConsumedFacts
  <2>. QED BY <1>5, <2>1 DEF OptInv, OffsetInCluster, UsesUp
<1>6. CASE InCluster(x, o) /\ ret' = ret /\ offset' = offset + 1 /\ argv' = argv
  <2>1. Found(Arg) /\ Len(x.letters) \in Nat
    BY <1>2, <1>3, FoundType
  <2>2. x.dashes = 1 /\ SubSeq(x.letters, offset + 2, Len(x.letters)) # <<>>
    BY <1>6 DEF InCluster, Swallowed
  <2>3. offset + 1 < Len(x.letters)
    BY <1>3, <2>1, <2>2, SubSeqEmpty
  <2>4. Arg' = Arg
    BY <1>2, <1>6 DEF Arg
  <2>5. Found(Arg)' /\ (argv[Arg])' = x
    BY <1>6, <2>1, <2>4 DEF Found
  <2>6. OffsetInCluster'
    BY <1>6, <2>2, <2>3, <2>5 DEF OffsetInCluster
  <2>. QED BY <1>3, <1>6, <2>6 DEF OptInv, UsesUp
<1>. QED BY <1>1, <1>3, <1>4, <1>5, <1>6

(* Every call keeps the invariant, and one after which opt_parse goes on uses something up. *)
LEMMA OptStep ==
  ASSUME OptInv, [opt_parse]_options
  PROVE  OptInv' /\ [UsesUp]_options
<1>1. CASE AllDone
  <2>1. argv' \in Seq(Arguments)
    <3>1. CASE Found(Arg)
      <4>1. Arg \in 1 .. Len(argv)
        BY <3>1, ArgType DEF Found, OptInv
      <4>. QED BY <1>1, <3>1, <4>1, ConsumeFacts DEF AllDone, OptInv
    <3>2. CASE ~Found(Arg)
      BY <1>1, <3>2 DEF AllDone, OptInv
    <3>. QED BY <3>1, <3>2
  <2>. QED BY <1>1, <2>1 DEF AllDone, OptInv, OffsetInCluster, UsesUp
<1>2. CASE ParseError
  BY <1>2 DEF ParseError, OptInv, OffsetInCluster, UsesUp
<1>3. CASE Parsed
  BY <1>3, ParsedKeeps
<1>4. CASE UNCHANGED options
  BY <1>4 DEF options, OptInv, OffsetInCluster, Found, Arg
<1>. QED BY <1>1, <1>2, <1>3, <1>4 DEF opt_parse

(* The command line as main is given it satisfies the invariant. *)
LEMMA OptStart ==
  ASSUME OptInit
  PROVE  OptInv
<1>1. argv \in Seq(Arguments)
  BY OptAssumption DEF OptInit
<1>. QED BY <1>1 DEF OptInit, OptInv, OffsetInCluster

(* opt_parse finds the cluster it left in the middle again, at the letter it left it at, for
   every table, every command line and either setting of POSIXLY_CORRECT: the
   assertion in parse_one that a long option finds offset at 0 holds.           *)
THEOREM ClusterResumed == OptSpec => []OffsetInCluster
<1>1. OptInv => OffsetInCluster
  BY DEF OptInv
<1>. QED BY <1>1, OptStart, OptStep, PTL DEF OptSpec

(* Every call of parse_one that returns 1 leaves less to look at: the loop of opt_parse has
   a measure that falls, whatever the table and the command line.               *)
THEOREM OptProgress == OptSpec => [][UsesUp]_options
<1>. QED BY OptStart, OptStep, PTL DEF OptSpec
=============================================================================

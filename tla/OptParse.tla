------------------------------ MODULE OptParse ------------------------------
(* The command line (opt_parse and parse_one of ccan/opt), one call of parse_one per step.  An
   argument is its leading dashes (0, 1 or 2), what follows them (the letters of a cluster
   of short options, or one name) and what stands behind a "=".  main registers one short
   option with an argument, -f; the table here is a parameter.                  *)
EXTENDS Integers, Sequences, SequencesExt

CONSTANTS CommandLines,   \* argv without argv[0] and the final NULL
          Table,          \* opt_table: records with name, dashes and arg (OPT_HASARG)
          Problems,       \* <<name, optarg>>: what callbacks refuse
          NULL

Arguments == UNION {{c[k] : k \in DOMAIN c} : c \in CommandLines}

ASSUME OptAssumption ==
  /\ CommandLines \subseteq Seq(Arguments)
  /\ \A x \in Arguments : /\ x.dashes \in 0 .. 2
                          /\ x.letters \in Seq({x.letters[k] : k \in DOMAIN x.letters})

VARIABLES argv,      \* what is left of the command line
          posix,     \* POSIXLY_CORRECT is set
          offset,    \* letters of the current cluster that are done with
          calls,     \* the callbacks that were called, and their arguments
          ret,       \* what parse_one returned last
          given      \* the command line as it was given

options == <<argv, posix, offset, calls, ret, given>>

OptInit ==
  /\ given \in CommandLines /\ argv = given
  /\ posix \in BOOLEAN
  /\ offset = 0 /\ calls = <<>>
  /\ ret = 1

Terminator == [dashes |-> 2, letters |-> <<>>, value |-> NULL]
Text(letters) == [dashes |-> 0, letters |-> letters, value |-> NULL]

(* The argument parse_one looks at: the first with a dash, wherever the cluster it was in
   the middle of has to be found again.                                         *)
Arg ==
  IF posix THEN 1
  ELSE CHOOSE a \in 1 .. Len(argv) + 1 :
         /\ a > Len(argv) \/ argv[a].dashes > 0
         /\ \A b \in 1 .. a - 1 : argv[b].dashes = 0

Found(a) == a <= Len(argv) /\ argv[a].dashes > 0

consume_option(args, a) == RemoveAt(args, a)

(* The table's entry for the name or for the letter at offset. *)
Entries(x) ==
  {o \in Table : /\ o.dashes = x.dashes
                 /\ IF x.dashes = 2 THEN x.letters = <<o.name>>
                    ELSE offset < Len(x.letters) /\ x.letters[offset + 1] = o.name}

(* Letters after the one at offset. *)
Swallowed(x) == IF x.dashes = 1 THEN SubSeq(x.letters, offset + 2, Len(x.letters)) ELSE <<>>

optarg(x, a) ==
  IF x.value # NULL THEN x.value
  ELSE IF Swallowed(x) # <<>> THEN Text(Swallowed(x))
  ELSE IF a < Len(argv) THEN argv[a + 1] ELSE NULL

(* Nothing is left to look at, or "--", which is taken away. *)
Stops == Found(Arg) => argv[Arg] = Terminator

AllDone ==
  /\ ret = 1
  /\ Stops
  /\ argv' = IF Found(Arg) THEN consume_option(argv, Arg) ELSE argv
  /\ ret' = 0
  /\ UNCHANGED <<posix, offset, calls, given>>

(* Not in the table, a value where none is allowed, or none where one is needed. *)
Misused(x, a) ==
  \/ Entries(x) = {}
  \/ \E o \in Entries(x) : IF o.arg THEN optarg(x, a) = NULL ELSE x.value # NULL

ParseError ==
  /\ ret = 1 /\ ~Stops
  /\ Misused(argv[Arg], Arg)
  /\ ret' = -1
  /\ offset' = IF argv[Arg].dashes = 1 /\ Entries(argv[Arg]) # {} THEN offset + 1 ELSE offset
  /\ UNCHANGED <<argv, posix, calls, given>>

(* A slip: an argument in the next word stays on the command line. *)
Consumed_One(x, a) == consume_option(argv, a)

(* The option and, if it is a word of its own, its argument. *)
Consumed(x, a) ==
  LET rest == consume_option(argv, a)
      next == x.value = NULL /\ Swallowed(x) = <<>> /\ \E o \in Entries(x) : o.arg
  IN IF next THEN consume_option(rest, a) ELSE rest

(* A slip: a cluster is kept until its end was looked at. *)
InCluster_Longer(x, o) == ~o.arg /\ x.dashes = 1 /\ offset < Len(x.letters)

(* More letters of the cluster are to be looked at. *)
InCluster(x, o) == ~o.arg /\ Swallowed(x) # <<>>

Parsed ==
  /\ ret = 1 /\ ~Stops
  /\ ~Misused(argv[Arg], Arg)
  /\ \E x \in {argv[Arg]}, o \in Entries(argv[Arg]) :
       LET with == IF o.arg THEN optarg(x, Arg) ELSE NULL
       IN /\ calls' = Append(calls, <<o.name, with>>)
          /\ IF <<o.name, with>> \in Problems
             THEN /\ ret' = -1
                  /\ offset' = IF o.arg /\ Swallowed(x) # <<>> THEN 0
                               ELSE IF x.dashes = 1 THEN offset + 1 ELSE offset
                  /\ UNCHANGED argv
             ELSE /\ UNCHANGED ret
                  /\ offset' = IF InCluster(x, o) THEN offset + 1 ELSE 0
                  /\ argv' = IF InCluster(x, o) THEN argv ELSE Consumed(x, Arg)
  /\ UNCHANGED <<posix, given>>

(* opt_parse calls parse_one until it is done or fails. *)
opt_parse == AllDone \/ ParseError \/ Parsed

OptSpec == OptInit /\ [][opt_parse]_options
-----------------------------------------------------------------------------
(* A cluster that was left in the middle is what the next call looks at: the assertion that
   a long option finds offset at 0.                                             *)
OffsetInCluster ==
  ret = 1 /\ offset > 0 =>
    Found(Arg) /\ argv[Arg].dashes = 1 /\ offset < Len(argv[Arg].letters)

(* Every call of parse_one after which opt_parse goes on has taken an argument away or has
   gone one letter on in a cluster, so the loop in opt_parse cannot go round in place. *)
UsesUp ==
  ret' = 1 => \/ Len(argv') < Len(argv)
              \/ argv' = argv /\ offset' = offset + 1

(* The inductive invariant: what is left of the command line is made of its arguments. *)
OptInv == argv \in Seq(Arguments) /\ offset \in Nat /\ OffsetInCluster
=============================================================================

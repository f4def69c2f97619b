----------------------------- MODULE OptReading -----------------------------
(* What a command line means, to compare opt_parse with. *)
EXTENDS OptParse

(* What the command line means, read once from left to right: kept are the words passed by,
   done the calls made.                                                         *)
RECURSIVE Scan(_, _, _)
Scan(args, kept, done) ==
  LET x          == Head(args)
      stop(r, c) == [argv |-> kept \o args, calls |-> done \o c, ret |-> r]
      opts(l)    == {o \in Table : o.dashes = x.dashes /\ o.name = l}
      plain(l)   == x.value = NULL /\ <<l, NULL>> \notin Problems /\ \E o \in opts(l) : ~o.arg
      n          == SelectInSeq(x.letters, LAMBDA l : ~plain(l))
      flags      == [k \in 1 .. (IF n = 0 THEN Len(x.letters) ELSE n - 1) |-> <<x.letters[k], NULL>>]
      l          == x.letters[n]
      behind     == SubSeq(x.letters, n + 1, Len(x.letters))
      inline     == IF x.value # NULL THEN x.value ELSE Text(behind)
      within     == x.value # NULL \/ behind # <<>>
      given_to   == IF within THEN inline ELSE args[2]
      used       == IF within THEN 1 ELSE 2
      call       == Append(flags, <<l, given_to>>)
  IN IF args = <<>> THEN stop(0, <<>>)
     ELSE IF x.dashes = 0 THEN IF posix THEN stop(0, <<>>) ELSE Scan(Tail(args), Append(kept, x), done)
     ELSE IF x = Terminator THEN [stop(0, <<>>) EXCEPT !.argv = kept \o Tail(args)]
     ELSE IF x.letters = <<>> THEN stop(-1, <<>>)
     ELSE IF n = 0 THEN Scan(Tail(args), kept, done \o flags)
     ELSE IF opts(l) = {} \/ (x.value # NULL /\ \E o \in opts(l) : ~o.arg) THEN stop(-1, flags)
     ELSE IF \E o \in opts(l) : ~o.arg THEN stop(-1, Append(flags, <<l, NULL>>))
     ELSE IF Len(args) < used THEN stop(-1, flags)
     ELSE IF <<l, given_to>> \in Problems THEN stop(-1, call)
     ELSE Scan(SubSeq(args, used + 1, Len(args)), kept, done \o call)

(* Looking for the first dash again at every call, removing what is done with and resuming
   clusters by offset amounts to one reading from left to right: each option is taken
   once and in order, words that are not options stay in order, and an erroneous option
   is not removed (opt_parse in opt.h).                                         *)
ParsedAsRead == ret # 1 => [argv |-> argv, calls |-> calls, ret |-> ret] = Scan(given, <<>>, <<>>)
=============================================================================

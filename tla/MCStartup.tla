----------------------------- MODULE MCStartup ------------------------------
(* Command lines of up to three arguments from a pool with every form an argument takes,
   all files of up to eight tokens and those of nine that start with a filter, for filters
   of two fields and an array of two filters; the code has five fields and
   65535 filters.                                                               *)
EXTENDS Startup

Short(letters) == [dashes |-> 1, letters |-> letters, value |-> NULL]
Long(name, value) == [dashes |-> 2, letters |-> <<name>>, value |-> value]
word == Text(<<"word">>)
bad == Text(<<"bad">>)

table ==
  {[name |-> "f", dashes |-> 1, arg |-> TRUE],
   [name |-> "a", dashes |-> 1, arg |-> FALSE],
   [name |-> "e", dashes |-> 1, arg |-> FALSE],
   [name |-> "file", dashes |-> 2, arg |-> TRUE],
   [name |-> "all", dashes |-> 2, arg |-> FALSE]}
problems == {<<"f", bad>>, <<"file", bad>>, <<"e", NULL>>}
pool ==
  {word, bad, Terminator, Short(<<>>), Short(<<"a">>), Short(<<"f">>), Short(<<"a", "f">>),
   Short(<<"a", "a">>), Short(<<"f", "a">>), Short(<<"a", "e">>), Short(<<"a", "x">>),
   Long("file", NULL), Long("file", word), Long("all", NULL), Long("all", word), Long("x", NULL)}
lines == UNION {[1 .. n -> pool] : n \in 0 .. 3}

files == UNION {[1 .. n -> Tokens] : n \in 0 .. 8} \cup
         {<<"@", "field", "field">> \o f : f \in [1 .. 6 -> Tokens]}
=============================================================================

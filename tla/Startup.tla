------------------------------ MODULE Startup -------------------------------
(* main until it has its rules (main.c): the command line is parsed for the option -f, and
   the file it names is read.                                                   *)
EXTENDS OptReading, Loader, IPRange

VARIABLE at   \* "options", "open", "load", "cut" or "exit"

(* rule_file: the last -f counts. *)
filename ==
  LET named == SelectLastInSeq(calls, LAMBDA c : c[1] = "f")
  IN IF named = 0 THEN NULL ELSE calls[named][2]

StartInit == at = "options" /\ file = <<>> /\ Init /\ OptInit

Options == at = "options" /\ opt_parse /\ UNCHANGED <<vars, at>>

(* ReadFilterFile opens the file; the command line is not used again. *)
ReadFilterFile ==
  /\ at = "options" /\ ret = 0 /\ filename # NULL
  /\ at' = "open"
  /\ argv' = <<>> /\ calls' = <<>> /\ given' = <<>> /\ posix' = FALSE
  /\ UNCHANGED <<offset, ret, vars>>

(* What is in the file. *)
Contents ==
  /\ at = "open"
  /\ at' = "load"
  /\ file' \in Files
  /\ UNCHANGED <<options, pos, readable, feof, pc, validfilter, fields, line, filtArr>>

(* The options are wrong, there is no -f, or the file cannot be opened. *)
Quit ==
  /\ at = "options" /\ ret # 1
  /\ at' = "exit"
  /\ UNCHANGED <<options, vars>>

Load == at = "load" /\ Step /\ UNCHANGED <<options, at>>

Unreadable == at = "load" /\ ReadsFail /\ UNCHANGED <<options, at>>

(* The filters become the rule list as they are: cost as pri, the ranges, the number. *)
Copy ==
  /\ at = "load" /\ pc = "loaded"
  /\ at' = "cut"
  /\ UNCHANGED <<options, vars>>

main == Options \/ ReadFilterFile \/ Contents \/ Quit \/ Load \/ Copy

Started == at \in {"cut", "exit"} \/ pc \in {"exit", "overrun"}

(* Straight-line code of one thread, and a file whose reads may fail. *)
StartSpec == StartInit /\ [][main \/ Unreadable]_<<options, vars, at>> /\ WF_<<options, vars, at>>(main)
-----------------------------------------------------------------------------
(* For an address of four octets in their range and a prefix length that a word has,
   ReadIPRange makes the aligned block that holds the address: working octet by octet is
   the same as on the whole word, for every place the mask can end.  Nothing checks what
   was read: these lengths are the only ones for which it stays inside its array.  *)
RangeIsBlock ==
  at = "open" =>
    /\ \A trange \in Addresses, length \in 0 .. 4 * OCTET :
         ReadIPRange(trange, length) = Block(trange, length)
    /\ \A length \in 0 .. WORDS - 1 : InBounds(length) <=> length <= 4 * OCTET

(* If the file can be read, main gets its rules or gives up: every call of parse_one uses
   some of the command line up, and the loops of the loader end whatever the file ends
   with.  (Once reads fail, ReadFilter's loop waits for an end that never comes.)  *)
StartEnds == <>(Started \/ ~readable)
=============================================================================

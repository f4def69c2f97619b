------------------------------ MODULE IPRange -------------------------------
(* What ReadIPRange (utils.c) makes of an address and a mask that it has read: the range of
   addresses they stand for.  Octets have OCTET bits, words four times as many.  The numbers
   are used as they were read, whatever their size.                             *)
EXTENDS Integers

CONSTANT OCTET   \* bits of an octet (8 in the code)

ASSUME OctetAssumption == OCTET \in Nat \ {0}

WORDS == 2^(4 * OCTET)
Addresses == [0 .. 3 -> 0 .. 2^OCTET - 1]

(* The octets put together in an unsigned word: one that is too large carries into the next. *)
Joined(p) == (((p[0] * 2^OCTET + p[1]) * 2^OCTET + p[2]) * 2^OCTET + p[3]) % WORDS

(* A slip: the octet the mask ends in is left as it is. *)
Cleared_Whole(t, lit1, lit2) == [i \in 0 .. 3 |-> IF i > 3 - lit1 THEN 0 ELSE t[i]]

(* The whole octets below the mask are cleared or filled, then the low bits of the octet
   the mask ends in.                                                            *)
Cleared(t, lit1, lit2) ==
  [i \in 0 .. 3 |-> IF i > 3 - lit1 THEN 0
                    ELSE IF i = 3 - lit1 /\ lit2 # 0 THEN t[i] - (t[i] % 2^lit2) ELSE t[i]]

Filled(p, lit1, lit2) ==
  [i \in 0 .. 3 |-> IF i > 3 - lit1 THEN 2^OCTET - 1
                    ELSE IF i = 3 - lit1 /\ lit2 # 0 THEN p[i] - (p[i] % 2^lit2) + 2^lit2 - 1 ELSE p[i]]

(* The unsigned bits below the mask, which wrap for a length above that of a word. *)
Below(length) == (4 * OCTET - length) % WORDS

(* The octets that are written, 3 down to the one the mask ends in, are there. *)
InBounds(length) ==
  LET lit1 == Below(length) \div OCTET
  IN lit1 < 4 \/ (lit1 = 4 /\ Below(length) % OCTET = 0)

(* Defined for lengths that are InBounds; for others the loops write below ptrange. *)
ReadIPRange(trange, length) ==
  LET lit1 == Below(length) \div OCTET
      lit2 == Below(length) % OCTET
      low  == Cleared(trange, lit1, lit2)
  IN <<Joined(low), Joined(Filled(low, lit1, lit2))>>

(* The aligned block of addresses that share the first bits of trange. *)
Block(trange, length) ==
  LET size == 2^(4 * OCTET - length)
      low  == (Joined(trange) \div size) * size
  IN <<low, low + size - 1>>
=============================================================================

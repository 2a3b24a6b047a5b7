--------------------------- MODULE MCOutcomeExchange ---------------------------
(* Dicts of up to three keys, on their own or of up to two under a string: numbers of
   one, two and three digits, below zero and with a fraction, strings of digits and of
   a letter, and None.  The numbers are placed in tenths, 1e-05 next to zero. *)
EXTENDS OutcomeExchange

minus == -2
point == -1
e == 10
Chars == (minus..9) \cup {e, 11}
Places == {"root", "nested"}

Num(text, number) == [kind |-> "num", text |-> text, number |-> number]
Str(text) == [kind |-> "str", text |-> text, number |-> 0]
None == [kind |-> "none", text |-> <<11>>, number |-> 0]

Keys ==
  {Num(<<2>>, 20), Num(<<9>>, 90), Num(<<1, 0>>, 100), Num(<<1, 1>>, 110),
   Num(<<1, 0, 0>>, 1000), Num(<<minus, 1>>, -10), Num(<<minus, 2>>, -20),
   Num(<<0, point, 5>>, 5), Num(<<1, e, minus, 0, 5>>, 1),
   Str(<<2>>), Str(<<1, 0>>), Str(<<e>>), None}

Dicts(size) == {d \in UNION {[1..n -> Keys]: n \in 0..size}: IsInjective(d)}

Nested == Dicts(2)
Placed == {[at \in Places |-> IF at = "root" THEN d ELSE <<>>]: d \in Dicts(3)} \cup
          {[at \in Places |-> IF at = "root" THEN <<Str(<<e>>)>> ELSE d]: d \in Nested}

AllPayloads == [dicts: Placed, value: {"plain", "nan", "opaque"}]
PlainPayloads == [dicts: Placed, value: {"plain"}]
================================================================================

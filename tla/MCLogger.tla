------------------------------ MODULE MCLogger ------------------------------
(***************************************************************************)
(* Calls of logf for TLC: a character, a directive with its parameter or a *)
(* '%' that is none, and then a character, a number or a '%'.  The largest *)
(* number is the largest TLC has; it has as many digits as 2^32 - 1.       *)
(***************************************************************************)
EXTENDS Logger

Numbers == {0, 10, 48879, 2147483647}

Short ==
    { [format |-> << 97 >>, parameters |-> << >>],
      [format |-> << PERCENT >>, parameters |-> << >>] } \cup
    { [format |-> << PERCENT, U_ >>, parameters |-> << v >>] : v \in Numbers }

Pieces ==
    { [format |-> << PERCENT, S_ >>, parameters |-> << << 104, 105 >> >>],
      [format |-> << PERCENT, S_ >>, parameters |-> << << >> >>],
      [format |-> << PERCENT, C_ >>, parameters |-> << 99 >>] } \cup Short \cup
    { [format |-> << PERCENT, X_ >>, parameters |-> << v >>] : v \in Numbers }

Join(p, q) == [format |-> p.format \o q.format, parameters |-> p.parameters \o q.parameters]

AnyCall == {Join(p, q) : p \in Pieces, q \in Short}
=============================================================================

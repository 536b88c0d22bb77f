---------------------------- MODULE MCBlockMaker ----------------------------
(* Two users, and a payment to one of them: a reward covers two at the low  *)
(* price or one at the high price.                                          *)
EXTENDS BlockMaker

CONSTANTS u1, u2

Users == {u1, u2}

Payloads == {[limit |-> 1, value |-> 1, to |-> u2, data |-> FALSE]}

=============================================================================

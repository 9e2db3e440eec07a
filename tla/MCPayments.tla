----------------------------- MODULE MCPayments -----------------------------
(* The instance of Payments for its run: the second session pays for the    *)
(* same order again and a pending subscription with it, or for the          *)
(* subscription alone.                                                      *)
EXTENDS Payments

CONSTANTS o1, p1

OrderFirst ==
  <<{<<o1, None>>}, {<<o1, p1>>, <<None, p1>>}>>
=============================================================================

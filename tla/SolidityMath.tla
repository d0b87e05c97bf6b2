---------------------------- MODULE SolidityMath ----------------------------
(* The integer arithmetic the contracts are written in.  Unsigned division *)
(* is \div.  int256 division (SignedSafeMath.div) rounds toward zero, where *)
(* TLA+'s \div rounds toward minus infinity; the pools depend on it when a  *)
(* reserve is in excess and the top-up is negative.                         *)
EXTENDS Integers

\* int256 division by a positive divisor.
TruncDiv(a, b) == IF a >= 0 THEN a \div b ELSE -((-a) \div b)

\* The smaller and the greater of two amounts.
Lesser(a, b) == IF a > b THEN b ELSE a
Greater(a, b) == IF a > b THEN a ELSE b

Magnitude(a) == IF a >= 0 THEN a ELSE -a
=============================================================================

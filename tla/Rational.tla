------------------------------ MODULE Rational ------------------------------
(***************************************************************************)
(* The evaluator computes in C doubles.  The model computes exactly, in    *)
(* rationals [num, den] with den > 0.  Rounding is not modelled: for the  *)
(* short inputs the models enumerate, a double result is zero exactly     *)
(* when the rational one is, which is all the evaluator's tests look at.  *)
(***************************************************************************)
EXTENDS Integers

Rat(n) == [num |-> n, den |-> 1]

RAdd(a, b) == [num |-> a.num * b.den + b.num * a.den, den |-> a.den * b.den]
RSub(a, b) == [num |-> a.num * b.den - b.num * a.den, den |-> a.den * b.den]
RMul(a, b) == [num |-> a.num * b.num, den |-> a.den * b.den]
RNeg(a)    == [num |-> -a.num, den |-> a.den]
\* b is not zero
RDiv(a, b) == IF b.num > 0 THEN [num |-> a.num * b.den, den |-> a.den * b.num]
              ELSE [num |-> -(a.num * b.den), den |-> -(a.den * b.num)]

RIsZero(a)  == a.num = 0
REq(a, b)   == a.num * b.den = b.num * a.den
RLess(a, b) == a.num * b.den < b.num * a.den
RIsInt(a)   == a.num % a.den = 0
=============================================================================

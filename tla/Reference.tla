----------------------------- MODULE Reference -----------------------------
(***************************************************************************)
(* What an accepted expression means, per spec.md (sections 4.2, 4.5, 8),  *)
(* defined directly on the text and independently of either parser:       *)
(* + - and * / are left-associative, * / bind tighter than + -, unary     *)
(* minus applies to a factor, division by zero and the two function domain *)
(* errors, an unknown name or a wrong argument count give no value.        *)
(* The text is split at the LAST binary operator of the weakest level at  *)
(* parenthesis depth 0, which is left-associativity by construction.      *)
(* Only applied to text the parsers accept.                                *)
(***************************************************************************)
EXTENDS FunctionLibrary, Grammar, FiniteSetsExt, SequencesExt

RefVal(x) == [ok |-> TRUE, v |-> x]
RefNone   == [ok |-> FALSE]

\* Parenthesis depth in front of position i.
Depth(s, i) ==
    Cardinality({j \in 1..i - 1 : s[j] = "("}) - Cardinality({j \in 1..i - 1 : s[j] = ")"})

\* Positions of binary operators from ops at depth 0: an operator is binary
\* when it follows the end of an operand (a digit or a closing parenthesis).
BinaryAt(s, ops) ==
    {i \in 2..Len(s) : s[i] \in ops /\ Depth(s, i) = 0 /\ s[i - 1] \in Digits \cup {")"}}

RefApply(op, a, b) ==
    CASE ~a.ok \/ ~b.ok          -> RefNone
      [] op = "+"                -> RefVal(RAdd(a.v, b.v))
      [] op = "-"                -> RefVal(RSub(a.v, b.v))
      [] op = "*"                -> RefVal(RMul(a.v, b.v))
      [] op = "/" /\ RIsZero(b.v) -> RefNone
      [] op = "/"                -> RefVal(RDiv(a.v, b.v))

RefDigit == "0" :> 0 @@ "1" :> 1 @@ "2" :> 2 @@ "3" :> 3 @@ "4" :> 4 @@
            "5" :> 5 @@ "6" :> 6 @@ "7" :> 7 @@ "8" :> 8 @@ "9" :> 9

DecimalValue(s) == FoldLeft(LAMBDA acc, c : 10 * acc + RefDigit[c], 0, s)

\* The spec's functions (section 4.5): the trigonometric functions and their
\* inverses in radians, the degree variants converting the argument to, or
\* the result from, radians with pi; pi(x) is pi times x, sqrt and pow are
\* the library's, and vlength is the Euclidean distance between the points
\* (a1, a2) and (a3, a4).
RefPrimitive == (SIN :> "sin") @@ (COS :> "cos") @@ (TAN :> "tan") @@
                (ARCSIN :> "asin") @@ (ARCCOS :> "acos") @@ (ARCTAN :> "atan")

RefFunction(name, a) ==
    LET deg  == name \notin {SIN, COS, TAN, ARCSIN, ARCCOS, ARCTAN} /\ Last(name) = "d"
        base == IF deg THEN Front(name) ELSE name
    IN  CASE base \in {SIN, COS, TAN} ->
                MathValue(RefPrimitive[base], <<IF deg THEN RDiv(RMul(a[1], PI), Rat(180)) ELSE a[1]>>)
          [] base \in {ARCSIN, ARCCOS, ARCTAN} ->
                LET y == MathValue(RefPrimitive[base], <<a[1]>>)
                IN  IF deg THEN RDiv(RMul(y, Rat(180)), PI) ELSE y
          [] name = SQRT -> MathValue("sqrt", a)
          [] name = POW  -> MathValue("pow", a)
          [] name = PIF  -> RMul(PI, a[1])
          [] name = VLENGTH ->
                LET dx == RSub(a[3], a[1])
                    dy == RSub(a[4], a[2])
                IN  MathValue("sqrt", <<RAdd(RMul(dx, dx), RMul(dy, dy))>>)

\* The spec's function rules: exact arity, sqrt of a negative and pow of a
\* negative base with an exponent in (0,1) have no value.
RefCall(name, args) ==
    CASE \E k \in DOMAIN args : ~args[k].ok                            -> RefNone
      [] num_Of_Params_For_Function(name) # Len(args)                  -> RefNone
      [] name = SQRT /\ RLess(args[1].v, Rat(0))                       -> RefNone
      [] name = POW /\ RLess(args[1].v, Rat(0)) /\ RLess(Rat(0), args[2].v)
                    /\ RLess(args[2].v, Rat(1))                        -> RefNone
      [] OTHER -> RefVal(RefFunction(name, [k \in DOMAIN args |-> args[k].v]))

RECURSIVE RefExpression(_), RefTerm(_), RefFactor(_), SplitArgs(_)

\* The comma-separated pieces of an argument list at depth 0.
SplitArgs(s) ==
    LET commas == {i \in 1..Len(s) : s[i] = "," /\ Depth(s, i) = 0}
    IN  IF commas = {} THEN <<s>>
        ELSE <<SubSeq(s, 1, Min(commas) - 1)>> \o SplitArgs(SubSeq(s, Min(commas) + 1, Len(s)))

RefExpression(s) ==
    LET ops == BinaryAt(s, {"+", "-"})
    IN  IF ops = {} THEN RefTerm(s)
        ELSE RefApply(s[Max(ops)], RefExpression(SubSeq(s, 1, Max(ops) - 1)),
                                   RefTerm(SubSeq(s, Max(ops) + 1, Len(s))))

RefTerm(s) ==
    LET ops == BinaryAt(s, {"*", "/"})
    IN  IF ops = {} THEN RefFactor(s)
        ELSE RefApply(s[Max(ops)], RefTerm(SubSeq(s, 1, Max(ops) - 1)),
                                   RefFactor(SubSeq(s, Max(ops) + 1, Len(s))))

RefFactor(s) ==
    CASE s[1] = "-" -> LET f == RefFactor(Tail(s))
                       IN  IF f.ok THEN RefVal(RNeg(f.v)) ELSE RefNone
      [] s[1] = "(" -> RefExpression(SubSeq(s, 2, Len(s) - 1))
      [] s[1] \in Digits -> RefVal(Rat(DecimalValue(s)))
      [] s[1] \in Letters ->
            LET open == Min({i \in 1..Len(s) : s[i] = "("})
                args == SplitArgs(SubSeq(s, open + 1, Len(s) - 1))
            IN  RefCall(SubSeq(s, 1, open - 1),
                        [k \in DOMAIN args |-> RefExpression(args[k])])

=============================================================================

--------------------------- MODULE MC_Calculator ---------------------------
EXTENDS Calculator

\* Characters of the exhaustively enumerated inputs: two digits (one of
\* them zero), the four operators, parentheses, the letters of "pi", the
\* comma, and '&', which is in no production.
MCAlphabet == {"0", "2", "+", "-", "*", "/", "(", ")", "p", "i", ",", "&"}

\* Longer inputs: the examples of spec.md section 8 and inputs that reach
\* every function rule, argument lists and the domain checks.
MCSamples == {
    <<"5", "-", "4", "+", "1">>,
    <<"5", "/", "3", "/", "2">>,
    <<"8", "-", "2", "*", "3", "-", "1">>,
    <<"3", "/", "0">>,
    <<"5", "+">>,
    <<"5", "&", "3">>,
    <<"2", "/", "(", "1", "-", "1", ")">>,
    <<"-", "2", "-", "-", "2", "*", "3">>,
    <<"1", "2", "0", "/", "4", "/", "3">>,
    <<"s", "q", "r", "t", "(", "9", ")">>,
    <<"s", "q", "r", "t", "(", "0", "-", "4", ")">>,
    <<"p", "o", "w", "(", "2", ",", "3", ")">>,
    <<"p", "o", "w", "(", "0", "-", "2", ",", "2", ")">>,
    <<"p", "o", "w", "(", "0", "-", "2", ",", "1", "/", "2", ")">>,
    <<"p", "o", "w", "(", "1", ")">>,
    <<"f", "o", "o", "(", "1", ")">>,
    <<"p", "i", "(", "2", ",", "3", ")">>,
    <<"v", "l", "e", "n", "g", "t", "h", "(", "0", ",", "0", ",", "3", ",", "4", ")">>,
    <<"p", "o", "w", "(", "3", "-", "1", ",", "2", ")", "-", "1">>,
    <<"p", "o", "w", "(", "2", ",", "1", "/", "0", ")">>,
    <<"2", "/", "0", "+", "1">>,
    <<"v", "l", "e", "n", "g", "t", "h", "(", "1", ",", "1", ",", "4", ",", "5", ")">>,
    <<"s", "i", "n", "d", "(", "9", "0", ")">>,
    <<"a", "r", "c", "t", "a", "n", "d", "(", "1", ")">>,
    <<"p", "i", "(", "2", ")">>
}

\* For the liveness run, whose cost grows quickly with the length of a
\* behaviour: every input of up to three characters and two calls.
MCShortInputs == BoundedSeq(MCAlphabet, 3) \cup
                 {<<"p", "i", "(", "2", ")">>, <<"p", "i", "(", "2", ",", "0", ")">>}

MCInputs == BoundedSeq(MCAlphabet, 4) \cup MCSamples

\* libm: pow with a small natural exponent and sqrt of a small perfect
\* square are exact, and atan(1) is 3/4, so that PI is 3 (small enough for
\* the products of unreduced rationals to stay within TLC integers); every
\* other call gets an arbitrary value that still depends on the primitive
\* and its first argument.  Both the evaluator and the reference call these
\* primitives, so the checks do not depend on the values.
MCPrimitiveTag == "sin" :> 1 @@ "cos" :> 2 @@ "tan" :> 3 @@ "asin" :> 4 @@
                  "acos" :> 5 @@ "atan" :> 6 @@ "sqrt" :> 7 @@ "pow" :> 8

MCMathValue(f, args) ==
    CASE f = "pow" /\ RIsInt(args[2]) /\ args[2].num \in 0..4 ->
            [num |-> args[1].num ^ args[2].num, den |-> args[1].den ^ args[2].num]
      [] f = "sqrt" /\ \E r \in 0..9 : REq(args[1], Rat(r * r)) ->
            Rat(CHOOSE r \in 0..9 : REq(args[1], Rat(r * r)))
      [] f = "atan" /\ REq(args[1], Rat(1)) -> [num |-> 3, den |-> 4]
      [] OTHER -> RAdd(args[1], Rat(MCPrimitiveTag[f]))
=============================================================================

-------------------------- MODULE FunctionLibrary --------------------------
(***************************************************************************)
(* functions.c and value_From_Function (parse_tree.c): the named functions, *)
(* their parameter counts, the two domain checks and the wrapper each name *)
(* calls.  A name is the sequence of its characters.  The libm primitives *)
(* the wrappers call ("sin", "cos", "tan", "asin", "acos", "atan", "sqrt", *)
(* "pow") are the constant operator MathValue(primitive, args), over       *)
(* Rational values; what the wrappers do around them is modelled.          *)
(***************************************************************************)
EXTENDS Rational, Sequences

CONSTANT MathValue(_, _)

SIN     == <<"s", "i", "n">>
COS     == <<"c", "o", "s">>
TAN     == <<"t", "a", "n">>
SIND    == SIN \o <<"d">>
COSD    == COS \o <<"d">>
TAND    == TAN \o <<"d">>
ARCSIN  == <<"a", "r", "c">> \o SIN
ARCCOS  == <<"a", "r", "c">> \o COS
ARCTAN  == <<"a", "r", "c">> \o TAN
ARCSIND == ARCSIN \o <<"d">>
ARCCOSD == ARCCOS \o <<"d">>
ARCTAND == ARCTAN \o <<"d">>
SQRT    == <<"s", "q", "r", "t">>
POW     == <<"p", "o", "w">>
PIF     == <<"p", "i">>
VLENGTH == <<"v", "l", "e", "n", "g", "t", "h">>

\* num_Of_Params_For_Function: the parameter count, -1 for an unknown name.
num_Of_Params_For_Function(func) ==
    CASE func \in {SIN, COS, TAN, SIND, COSD, TAND, ARCSIN, ARCCOS, ARCTAN,
                   ARCSIND, ARCCOSD, ARCTAND, SQRT, PIF} -> 1
      [] func = POW -> 2
      [] func = VLENGTH -> 4
      [] OTHER -> -1

\* #define PI (4.0*atan(1.0)), evaluated at every use.
PI == RMul(Rat(4), MathValue("atan", <<Rat(1)>>))

\* Degrees to radians and back, in the code's order of operations.
ToRad(x)   == RDiv(RMul(x, PI), Rat(180))
ToDeg(y)   == RDiv(RMul(y, Rat(180)), PI)

func_sin(x)      == MathValue("sin", <<x>>)
func_cos(x)      == MathValue("cos", <<x>>)
func_tan(x)      == MathValue("tan", <<x>>)
func_sqrt(x)     == MathValue("sqrt", <<x>>)
func_pow(x, r)   == MathValue("pow", <<x, r>>)
func_sin_deg(x)  == func_sin(ToRad(x))
func_cos_deg(x)  == func_cos(ToRad(x))
func_tan_deg(x)  == func_tan(ToRad(x))
func_inv_sin(x)  == MathValue("asin", <<x>>)
func_inv_cos(x)  == MathValue("acos", <<x>>)
func_inv_tan(x)  == MathValue("atan", <<x>>)
func_inv_sind(x) == ToDeg(func_inv_sin(x))
func_inv_cosd(x) == ToDeg(func_inv_cos(x))
func_inv_tand(x) == ToDeg(func_inv_tan(x))
func_pi(x)       == RMul(PI, x)

\* Variant of vlength that pairs the coordinates as (x1, x2), (y1, y2).
VlengthPairedWrong(x1, y1, x2, y2) ==
    MathValue("sqrt", <<RAdd(MathValue("pow", <<RSub(y1, x1), Rat(2)>>),
                             MathValue("pow", <<RSub(y2, x2), Rat(2)>>))>>)

\* The length of the vector from (x1, y1) to (x2, y2).
func_vlength(x1, y1, x2, y2) ==
    MathValue("sqrt", <<RAdd(MathValue("pow", <<RSub(x2, x1), Rat(2)>>),
                             MathValue("pow", <<RSub(y2, y1), Rat(2)>>))>>)

\* The strcmp chain of value_From_Function: the wrapper of the matching
\* name on input[0..]; output stays 0 for a name that matches none (never
\* reached: the arity test comes first).
FunctionValue(func, input) ==
    CASE func = SIN     -> func_sin(input[1])
      [] func = COS     -> func_cos(input[1])
      [] func = TAN     -> func_tan(input[1])
      [] func = SIND    -> func_sin_deg(input[1])
      [] func = COSD    -> func_cos_deg(input[1])
      [] func = TAND    -> func_tan_deg(input[1])
      [] func = ARCSIN  -> func_inv_sin(input[1])
      [] func = ARCCOS  -> func_inv_cos(input[1])
      [] func = ARCTAN  -> func_inv_tan(input[1])
      [] func = ARCSIND -> func_inv_sind(input[1])
      [] func = ARCCOSD -> func_inv_cosd(input[1])
      [] func = ARCTAND -> func_inv_tand(input[1])
      [] func = SQRT    -> func_sqrt(input[1])
      [] func = POW     -> func_pow(input[1], input[2])
      [] func = PIF     -> func_pi(input[1])
      [] func = VLENGTH -> func_vlength(input[1], input[2], input[3], input[4])
      [] OTHER          -> Rat(0)

(***************************************************************************)
(* value_From_Function: NULL ([ok |-> FALSE]) for sqrt of a negative       *)
(* number and for pow of a negative base with an exponent strictly between *)
(* 0 and 1; otherwise the wrapper's value in a malloc'd double.            *)
(***************************************************************************)
value_From_Function(func, input) ==
    IF \/ func = SQRT /\ RLess(input[1], Rat(0))
       \/ func = POW /\ RLess(input[1], Rat(0))
                     /\ RLess(Rat(0), input[2]) /\ RLess(input[2], Rat(1))
    THEN [ok |-> FALSE]
    ELSE [ok |-> TRUE, v |-> FunctionValue(func, input)]
=============================================================================

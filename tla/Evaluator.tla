----------------------------- MODULE Evaluator -----------------------------
(***************************************************************************)
(* value_Of_Parse_Node and its helpers (parse_tree.c): the evaluation of a *)
(* left-child/right-sibling parse tree.  A result is [ok |-> TRUE, v] or   *)
(* NULL, written [ok |-> FALSE].                                           *)
(*                                                                         *)
(* Besides the '$' strings freed (freed), a result counts the heap blocks *)
(* malloc'd during the call that are still allocated when it returns      *)
(* (kept): the result doubles of nested calls, the copied function name   *)
(* and the parameter list.  The double a successful call returns is not   *)
(* counted, as its caller frees it; a call that returns NULL has leaked   *)
(* its own, which is counted.                                              *)
(***************************************************************************)
EXTENDS ParseTree, FunctionLibrary, TLC

Val(x, f, k) == [ok |-> TRUE, v |-> x, freed |-> f, kept |-> k]
NoVal(f, k)  == [ok |-> FALSE, freed |-> f, kept |-> k]

\* return NULL after a nested call: this call's output is leaked with
\* whatever the nested call leaked.
Abandon(r) == NoVal(r.freed, r.kept + 1)

\* if (leaf->category[2] == '$') free(leaf->category)
FreeIfMarked(leaf) == IF IsHeapCat(leaf.category) THEN <<leaf.at>> ELSE <<>>

\* get_val_From_Char: the digit's value, -1 for any other character.
get_val_From_Char(c) ==
    IF c \in Digits
    THEN ("0" :> 0 @@ "1" :> 1 @@ "2" :> 2 @@ "3" :> 3 @@ "4" :> 4 @@
          "5" :> 5 @@ "6" :> 6 @@ "7" :> 7 @@ "8" :> 8 @@ "9" :> 9)[c]
    ELSE -1

RECURSIVE value_Of_Parse_Node(_), ExpressionChain(_, _, _, _), GroupChain(_, _, _, _),
          NumberChain(_, _, _, _), value_Of_String_Parse_Node(_), PtailCount(_),
          ParamValues(_, _), StringFirstCharFreed(_), NumberChainKeepsDigit(_, _, _, _)

\* Variant without re-association: the operator is applied to the value of
\* the whole nested <expression>, which reads 5-4+1 as 5-(4+1).
ExpressionChainNested(acc, f, k, ptr) ==
    IF ptr = NULL THEN Val(acc, f, k) ELSE
    LET op == CatChar(ptr.left_most_child.category)
    IN  Let(value_Of_Parse_Node(ptr.left_most_child.right_Sibling), LAMBDA val2 :
        LET f2 == f \o val2.freed \o FreeIfMarked(ptr.left_most_child)
        IN  IF ~val2.ok THEN NoVal(f2, k + val2.kept + 1)
            ELSE Val(IF op = "+" THEN RAdd(acc, val2.v) ELSE RSub(acc, val2.v), f2,
                     k + val2.kept))

\* Variant that frees the operator's category without the '$' test.
ExpressionChainFreeAlways(acc, f, k, ptr) ==
    IF ptr = NULL THEN Val(acc, f, k) ELSE
    LET op      == CatChar(ptr.left_most_child.category)
        operand == ptr.left_most_child.right_Sibling.left_most_child
    IN  Let(value_Of_Parse_Node(operand), LAMBDA val2 :
        LET f2 == f \o val2.freed \o <<ptr.left_most_child.at>>
        IN  IF ~val2.ok THEN NoVal(f2, k + val2.kept + 1)
            ELSE ExpressionChain(IF op = "+" THEN RAdd(acc, val2.v) ELSE RSub(acc, val2.v),
                                 f2, k + val2.kept, operand.right_Sibling))

(***************************************************************************)
(* The loops of the <expression> and <group> cases.  ptr is the <etail>    *)
(* (<gtail>) of the current level; its operand is the <group> (<factor>)  *)
(* that starts the nested <expression> (<group>), and the next ptr is that *)
(* operand's right sibling: the chain is folded left to right into acc.    *)
(* f is what has been freed so far and k what is still allocated; the     *)
(* operator's '$' string is freed after its operand is evaluated, before  *)
(* the operand's failure is tested, and the operand's double after it.   *)
(***************************************************************************)
ExpressionChain(acc, f, k, ptr) ==
    IF ptr = NULL THEN Val(acc, f, k) ELSE
    LET op      == CatChar(ptr.left_most_child.category)
        operand == ptr.left_most_child.right_Sibling.left_most_child
    IN  Let(value_Of_Parse_Node(operand), LAMBDA val2 :
        LET f2 == f \o val2.freed \o FreeIfMarked(ptr.left_most_child)
        IN  IF ~val2.ok THEN NoVal(f2, k + val2.kept + 1)
            ELSE ExpressionChain(CASE op = "+" -> RAdd(acc, val2.v)
                                   [] op = "-" -> RSub(acc, val2.v)
                                   [] OTHER    -> acc,
                                 f2, k + val2.kept, operand.right_Sibling))

\* The division by zero is tested after free(locVal2): the NULL return
\* leaks only this call's output.
GroupChain(acc, f, k, ptr) ==
    IF ptr = NULL THEN Val(acc, f, k) ELSE
    LET op      == CatChar(ptr.left_most_child.category)
        operand == ptr.left_most_child.right_Sibling.left_most_child
    IN  Let(value_Of_Parse_Node(operand), LAMBDA val2 :
        LET f2 == f \o val2.freed \o FreeIfMarked(ptr.left_most_child)
        IN  CASE ~val2.ok                     -> NoVal(f2, k + val2.kept + 1)
              [] op = "/" /\ RIsZero(val2.v)  -> NoVal(f2, k + val2.kept + 1) \* DIVIDE BY ZERO
              [] op = "*" -> GroupChain(RMul(acc, val2.v), f2, k + val2.kept, operand.right_Sibling)
              [] op = "/" -> GroupChain(RDiv(acc, val2.v), f2, k + val2.kept, operand.right_Sibling)
              [] OTHER    -> GroupChain(acc, f2, k + val2.kept, operand.right_Sibling))

\* Variant in which the loop does not free(locVal2).
NumberChainKeepsDigit(acc, f, k, ptr) ==
    IF ptr = NULL THEN Val(acc, f, k) ELSE
    LET d == ptr.left_most_child.left_most_child
    IN  Let(value_Of_Parse_Node(d), LAMBDA dv :
            NumberChain(RAdd(RMul(acc, Rat(10)), dv.v), f \o dv.freed, k + dv.kept + 1,
                        d.right_Sibling))

\* The <number> loop: value = value*10 + digit along the <ntail> chain
\* (the digits' values are not tested for NULL), each digit's double freed.
NumberChain(acc, f, k, ptr) ==
    IF ptr = NULL THEN Val(acc, f, k) ELSE
    LET d == ptr.left_most_child.left_most_child
    IN  Let(value_Of_Parse_Node(d), LAMBDA dv :
            NumberChain(RAdd(RMul(acc, Rat(10)), dv.v), f \o dv.freed, k + dv.kept,
                        d.right_Sibling))

\* Variant that frees only the first character of the name.
StringFirstCharFreed(node) ==
    LET c == node.left_most_child.left_most_child
        rest == IF node.left_most_child.right_Sibling = NULL THEN [chars |-> <<>>]
                ELSE value_Of_String_Parse_Node(node.left_most_child.right_Sibling.left_most_child)
    IN  [chars |-> <<CatChar(c.category)>> \o rest.chars, freed |-> <<c.at>>]

\* value_Of_String_Parse_Node: the characters of a <string> chain; each
\* character's category is freed as it is copied.
value_Of_String_Parse_Node(node) ==
    LET c    == node.left_most_child.left_most_child
        rest == IF node.left_most_child.right_Sibling = NULL
                THEN [chars |-> <<>>, freed |-> <<>>]
                ELSE value_Of_String_Parse_Node(node.left_most_child.right_Sibling.left_most_child)
    IN  [chars |-> <<CatChar(c.category)>> \o rest.chars, freed |-> <<c.at>> \o rest.freed]

\* num_Of_Paramaters: 1 plus the length of the <ptail> chain.
PtailCount(ptr) ==
    IF ptr # NULL /\ ptr.category = "<ptail>"
    THEN 1 + PtailCount(ptr.left_most_child.right_Sibling.right_Sibling)
    ELSE 0

num_Of_Paramaters(node) ==
    CASE node.category # "<paramlist>"  -> 0
      [] node.left_most_child = NULL    -> 0
      [] OTHER -> 1 + PtailCount(node.left_most_child.right_Sibling.right_Sibling)

\* get_Values_From_Param_List: the values of k parameter expressions from
\* ptr on; NULL as soon as one has none.  After each value but the last,
\* the comma's '$' string is freed; each value's double is freed once
\* copied into the list.
ParamValues(ptr, k) ==
    IF k = 0 THEN [ok |-> TRUE, list |-> <<>>, freed |-> <<>>, kept |-> 0] ELSE
    Let(value_Of_Parse_Node(ptr), LAMBDA val1 :
        CASE ~val1.ok -> [ok |-> FALSE, list |-> <<>>, freed |-> val1.freed, kept |-> val1.kept]
          [] k = 1    -> [ok |-> TRUE, list |-> <<val1.v>>, freed |-> val1.freed,
                          kept |-> val1.kept]
          [] OTHER    ->
             Let(ParamValues(ptr.right_Sibling.left_most_child.right_Sibling, k - 1),
                 LAMBDA rest :
                    [ok    |-> rest.ok,
                     list  |-> <<val1.v>> \o rest.list,
                     freed |-> val1.freed \o FreeIfMarked(ptr.right_Sibling.left_most_child)
                               \o rest.freed,
                     kept  |-> val1.kept + rest.kept]))

get_Values_From_Param_List(node) ==
    ParamValues(node.left_most_child.right_Sibling, num_Of_Paramaters(node))

\* The parentheses of a successful call: left_paren is the first child of
\* the <paramlist>, right_paren follows the <expression> or the <ptail>;
\* both are freed when left_paren is a '$' string.
ParenFrees(paramlist) ==
    LET left_paren  == paramlist.left_most_child
        after       == left_paren.right_Sibling.right_Sibling
        right_paren == IF CatChar(after.category) # NUL   \* category[0] == '\\'
                       THEN after ELSE after.right_Sibling
    IN  IF IsHeapCat(left_paren.category) THEN <<left_paren.at, right_paren.at>> ELSE <<>>

(***************************************************************************)
(* value_Of_Parse_Node: a node without children has no value.  Otherwise  *)
(* the case for the node's category; the evaluator is only called on the  *)
(* six categories below.  The <digit> case frees its terminal's category  *)
(* without testing the '$'; the <factor> case frees none of '-', '(' and  *)
(* ')'.  The output double is malloc'd first, so every NULL return leaks  *)
(* it; a failing <function> also leaks the name and the parameter list    *)
(* (the list is leaked inside get_Values_From_Param_List when a parameter *)
(* has no value): three blocks.                                            *)
(***************************************************************************)
value_Of_Parse_Node(node) ==
    LET left   == node.left_most_child
        center == left.right_Sibling
    IN
    IF left = NULL THEN NoVal(<<>>, 1) ELSE
    CASE node.category = "<expression>" ->
            Let(value_Of_Parse_Node(left), LAMBDA val1 :
                IF ~val1.ok THEN Abandon(val1)
                ELSE ExpressionChain(val1.v, val1.freed, val1.kept, center))
      [] node.category = "<group>" ->
            Let(value_Of_Parse_Node(left), LAMBDA val1 :
                IF ~val1.ok THEN Abandon(val1)
                ELSE GroupChain(val1.v, val1.freed, val1.kept, center))
      [] node.category = "<factor>" ->
            LET neg   == CatChar(left.category) = "-"
                inner == IF CatChar(left.category) \in {"-", "("} THEN center ELSE left
            IN  Let(value_Of_Parse_Node(inner), LAMBDA val1 :
                    IF ~val1.ok THEN Abandon(val1)
                    ELSE Val(IF neg THEN RNeg(val1.v) ELSE val1.v, val1.freed, val1.kept))
      [] node.category = "<number>" ->
            Let(value_Of_Parse_Node(left), LAMBDA val1 :
                NumberChain(val1.v, val1.freed, val1.kept, center))
      [] node.category = "<digit>" ->
            Val(Rat(get_val_From_Char(CatChar(left.category))), <<left.at>>, 0)
      [] node.category = "<function>" ->
            LET func == value_Of_String_Parse_Node(left) IN
            Let(get_Values_From_Param_List(center), LAMBDA values :
                LET f1 == func.freed \o values.freed
                    k1 == values.kept + 3
                IN
                CASE ~values.ok -> NoVal(f1, k1)
                  [] num_Of_Params_For_Function(func.chars) # num_Of_Paramaters(center) -> NoVal(f1, k1)
                  [] OTHER ->
                       LET r == value_From_Function(func.chars, values.list)
                       IN  IF ~r.ok THEN NoVal(f1, k1)
                           ELSE Val(r.v, f1 \o ParenFrees(center), values.kept))

\* calculate_Value_From_Parse_Tree
calculate_Value_From_Parse_Tree(head) ==
    IF head = NULL THEN NoVal(<<>>, 0) ELSE value_Of_Parse_Node(head)

=============================================================================

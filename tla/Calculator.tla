---------------------------- MODULE Calculator ----------------------------
(***************************************************************************)
(* The two front ends and the evaluator together, as main.c uses them:     *)
(* the table parser runs on an input; when it returns, the recursive       *)
(* parser's result for the same input and the evaluator's value of the     *)
(* table parser's tree are compared with each other and with the meaning   *)
(* of the expression (Reference).                                          *)
(***************************************************************************)
EXTENDS TableParser, RecursiveParser, Evaluator, Reference

\* A tree with the '$' allocation markers taken out of its categories: the
\* recursive parser keeps operators and parentheses as static strings where
\* the table parser has malloc'd copies, which the evaluator reads alike.
RECURSIVE Unmarked(_)
Unmarked(t) ==
    IF t = NULL THEN NULL
    ELSE [category        |-> IF IsHeapCat(t.category) THEN TermCat(CatChar(t.category))
                              ELSE t.category,
          left_most_child |-> Unmarked(t.left_most_child),
          right_Sibling   |-> Unmarked(t.right_Sibling)]

SameResult(a, b) == a.ok = b.ok /\ (a.ok => REq(a.v, b.v))

-----------------------------------------------------------------------------

\* Strategy equivalence (spec section 8): whenever the table parser accepts
\* an input, the recursive-descent parser accepts it too and returns the
\* same tree; this relies on the table parser's trim removing exactly the
\* empty productions the recursive parser never builds.
StrategiesAgree ==
    pc = "accepted" =>
        /\ run_Recursive_Parser(input).tree # NULL
        /\ Unmarked(run_Recursive_Parser(input).tree) = Unmarked(tree)

\* The other half of strategy equivalence: an input the table parser
\* rejects is rejected by the recursive-descent parser as well.
RejectedByBoth ==
    pc = "rejected" => run_Recursive_Parser(input).tree = NULL

\* Re-association: the evaluator folds the right-nested <etail>/<gtail>
\* chains left to right, so the value of every accepted input (or its
\* failure: division by zero, function domain, arity) is that of the
\* left-associative reading with the usual precedence.
EvaluatesLeftAssociatively ==
    pc = "accepted" =>
        SameResult(calculate_Value_From_Parse_Tree(tree), RefExpression(input))

-----------------------------------------------------------------------------
(***************************************************************************)
(* Ownership of the '$' strings over one iteration of main's loop: the     *)
(* parse, then for a returned tree calculate_Value_From_Parse_Tree and     *)
(* free_Tree, which frees the nodes but none of their categories.          *)
(***************************************************************************)
TableFreed ==
    freed \o IF pc = "accepted" THEN calculate_Value_From_Parse_Tree(tree).freed ELSE <<>>

RecursiveRun == run_Recursive_Parser(input)

RecursiveFreed ==
    RecursiveRun.freed \o IF RecursiveRun.tree # NULL
                          THEN calculate_Value_From_Parse_Tree(RecursiveRun.tree).freed
                          ELSE <<>>

\* The frees of the two parsers' cleanup paths and of the evaluator's
\* opportunistic frees never overlap: over a whole iteration no '$' string
\* is freed twice, and nothing is freed that was not malloc'd (a static
\* literal such as "\\+" passed to free).
FreesAreSound ==
    /\ IsInjective(TableFreed) /\ Range(TableFreed) \subseteq allocated
    /\ pc # "loop" =>
          /\ IsInjective(RecursiveFreed)
          /\ Range(RecursiveFreed) \subseteq Range(RecursiveRun.alloc)

\* ParseFailure (spec section 7): a rejected parse has freed every '$'
\* string it malloc'd, including those of sub-derivations that had
\* succeeded several rules below the one that failed, and those of a tree
\* built before trailing input was found.
RejectedParseFreesAll ==
    /\ pc = "rejected" => Range(freed) = allocated
    /\ pc # "loop" /\ RecursiveRun.tree = NULL =>
          Range(RecursiveRun.freed) = Range(RecursiveRun.alloc)

\* A recursive-descent tree whose evaluation succeeds has all its '$'
\* strings (digits and the letters of function names) freed by the
\* evaluator, so the iteration leaks none.
RecursiveEvaluationFreesAll ==
    (pc # "loop" /\ RecursiveRun.tree # NULL
                /\ calculate_Value_From_Parse_Tree(RecursiveRun.tree).ok)
        => Range(RecursiveFreed) = Range(RecursiveRun.alloc)

\* The node frees of an iteration with the table parser: the trim's, then
\* main's free_Tree of the returned tree.
TableTreeFreed ==
    treeFreed \o IF pc = "accepted" THEN free_Tree(tree) ELSE <<>>

\* Node ownership (spec sections 3, 4.1 and 7): once the table parser returns,
\* every extended node it malloc'd has been freed exactly once (by the
\* rejection cleanup or by the conversion); and after an acceptance, every
\* left-child/right-sibling node is freed exactly once, either by the trim
\* that unlinks it or by main's free_Tree, so the trim never leaves a freed
\* node reachable and never drops a subtree it does not free.
TableNodesFreedOnce ==
    pc # "loop" =>
        /\ IsInjective(extFreed) /\ Range(extFreed) = 1..Len(nodes)
        /\ pc = "accepted" =>
              IsInjective(TableTreeFreed) /\ Range(TableTreeFreed) = 1..Len(nodes)

\* The same for the recursive-descent parser, whose failure paths free at
\* every level of the call stack (spec sections 4.1 and 7): every extended
\* node it malloc'd (nonterminal nodes and terminal leaves) is freed exactly
\* once, by the function whose node it is or an ancestor of it when a later
\* step fails, or by the conversion of a finished tree; a child that failed
\* was never attached, so no ancestor frees it again.  The nodes of a tree
\* built before trailing input was found, and of a returned tree once main
\* frees it, are freed once as well.
RecursiveNodesFreedOnce ==
    pc # "loop" => Let(RecursiveRun, LAMBDA r :
        LET treeNodes == r.treeFreed \o IF r.tree # NULL THEN free_Tree(r.tree) ELSE <<>>
        IN  /\ IsInjective(r.nalloc)
            /\ IsInjective(r.nfreed) /\ Range(r.nfreed) = Range(r.nalloc)
            /\ IsInjective(treeNodes) /\ Range(treeNodes) \subseteq Range(r.nalloc))

\* The heap blocks of an evaluation (spec section 3: a value is produced
\* per subtree and consumed by its parent, never shared): when the
\* evaluation of an accepted tree of either parser succeeds, every result
\* double of a nested call, every copied function name and every parameter
\* list has been freed, so the double main frees is the only one left.
EvaluationKeepsOnlyResult ==
    /\ pc = "accepted" =>
          Let(calculate_Value_From_Parse_Tree(tree), LAMBDA r : r.ok => r.kept = 0)
    /\ (pc # "loop" /\ RecursiveRun.tree # NULL) =>
          Let(calculate_Value_From_Parse_Tree(RecursiveRun.tree), LAMBDA r : r.ok => r.kept = 0)

\* The same when the evaluation fails: a NULL result (division by zero, a
\* domain or arity error) leaves no block of the evaluation allocated.
FailedEvaluationFreesBlocks ==
    pc = "accepted" =>
        Let(calculate_Value_From_Parse_Tree(tree), LAMBDA r : ~r.ok => r.kept = 0)

\* Destroying a tree frees every owned literal value (spec section 4.1):
\* after a table parse whose tree evaluates, nothing malloc'd is left.
TableEvaluationFreesAll ==
    (pc = "accepted" /\ calculate_Value_From_Parse_Tree(tree).ok)
        => Range(TableFreed) = allocated

\* The same after an evaluation that fails (division by zero, a function
\* error) on a tree of the recursive-descent parser for an input of the
\* language.
FailedEvaluationFreesAll ==
    (pc = "accepted" /\ RecursiveRun.tree # NULL
                    /\ ~calculate_Value_From_Parse_Tree(RecursiveRun.tree).ok)
        => Range(RecursiveFreed) = Range(RecursiveRun.alloc)

=============================================================================

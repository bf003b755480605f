---------------------------- MODULE TableParser ----------------------------
(***************************************************************************)
(* run_Table_Parser (table_parser.c): the LL(1) parse loop over an explicit *)
(* stack of category strings, building the extended tree top-down.  One    *)
(* step is one iteration of the while loop: pop, find_Parent, then either  *)
(* match a terminal or expand a nonterminal by the production table.       *)
(*                                                                         *)
(* The stack holds the popped strings; each entry also records, as a       *)
(* ghost field `node', the extended node created for it in the same        *)
(* iteration, which the code never stores but which find_Parent must find. *)
(***************************************************************************)
EXTENDS ParseTree, SequencesExt

CONSTANT Inputs     \* the input strings, as sequences of characters

VARIABLES
    input,   \* the text being parsed
    index,   \* index of look_ahead in input (look_ahead = input[index])
    stack,   \* Stack: top first, entries [sym, node]
    nodes,   \* the heap of Parse_Node_Extended, node 1 the root
    pc,      \* "loop" while the while loop runs, then "accepted"/"rejected"
    tree,    \* the returned Parse_Tree, NULL unless accepted
    allocated, \* identities of the '$' strings malloc'd so far
    freed,     \* identities passed to free(), in order
    extFreed,  \* ids of the extended nodes freed, in order
    treeFreed  \* ids of the left-child/right-sibling nodes freed by the trim

vars == <<input, index, stack, nodes, pc, tree, allocated, freed, extFreed, treeFreed>>

look_ahead == LA(input, index)

\* stack.c, with the linked list as a sequence whose head is the top.
stack_Empty(st)         == st = <<>>
pop_From_Stack(st)      == Tail(st)
push_To_Stack_Cat(e, st) == <<e>> \o st

\* The top of the stack and the node find_Parent returns for it.
current == Head(stack).sym
parent  == find_Parent(nodes, 1, current)

\* The terminal tests of the loop body (found, was_epsilon).
TerminalMatches ==
    \/ current = TermCat(look_ahead)
    \/ current = DigitClass /\ is_Symbol_Digit(look_ahead)
    \/ current = CharClass  /\ is_Symbol_Char(look_ahead)

Init ==
    /\ input \in Inputs
    /\ index = 1
    /\ stack = <<[sym |-> "<expression>", node |-> 1]>>
    /\ nodes = <<create_Extended_Node("<expression>")>>
    /\ pc = "loop"
    /\ tree = NULL
    /\ allocated = {}
    /\ freed = <<>>
    /\ extFreed = <<>>
    /\ treeFreed = <<>>

\* found && !was_epsilon: the leaf's category becomes the malloc'd "\\c$"
\* and look_ahead = input[++index].  parent is dereferenced: a NULL parent
\* would crash the program, and the model has no step for it.
MatchTerminal ==
    /\ pc = "loop" /\ ~stack_Empty(stack)
    /\ current # Empty
    /\ TerminalMatches
    /\ parent # 0
    /\ nodes' = [nodes EXCEPT ![parent].category = HeapCat(look_ahead),
                              ![parent].at = index]
    /\ allocated' = allocated \cup {index}
    /\ index' = index + 1
    /\ stack' = pop_From_Stack(stack)
    /\ UNCHANGED <<input, pc, tree, freed, extFreed, treeFreed>>

\* Variant in which look_ahead = input[++index] is not guarded by
\* was_epsilon, so popping the empty terminal also advances.
MatchEmptyAdvancing ==
    /\ pc = "loop" /\ ~stack_Empty(stack)
    /\ current = Empty
    /\ stack' = pop_From_Stack(stack)
    /\ index' = index + 1
    /\ UNCHANGED <<input, nodes, pc, tree, allocated, freed, extFreed, treeFreed>>

\* found && was_epsilon: the empty terminal is popped, nothing else changes.
MatchEmpty ==
    /\ pc = "loop" /\ ~stack_Empty(stack)
    /\ current = Empty
    /\ stack' = pop_From_Stack(stack)
    /\ UNCHANGED <<input, index, nodes, pc, tree, allocated, freed, extFreed, treeFreed>>

\* !found and a table entry: one child per right-hand-side symbol is added
\* to parent, in order, and the symbols are pushed so that the first is on
\* top.
Expand ==
    /\ pc = "loop" /\ ~stack_Empty(stack)
    /\ current # Empty
    /\ ~TerminalMatches
    /\ single_Line_Parse(current, look_ahead) # -1
    /\ parent # 0
    /\ LET rhs == rule_Num_To_List_Of_Strings[single_Line_Parse(current, look_ahead)]
           ids == [j \in 1..Len(rhs) |-> Len(nodes) + j]
       IN  /\ nodes' = [nodes EXCEPT ![parent].children = @ \o ids]
                       \o [j \in 1..Len(rhs) |-> create_Extended_Node(rhs[j])]
           \* pushed from the last symbol to the first
           /\ stack' = FoldRight(push_To_Stack_Cat,
                                 [j \in 1..Len(rhs) |-> [sym |-> rhs[j], node |-> ids[j]]],
                                 pop_From_Stack(stack))
    /\ UNCHANGED <<input, index, pc, tree, allocated, freed, extFreed, treeFreed>>

\* !found and rule == -1: the stack is freed, the '$' strings of the tree
\* are flushed and the tree freed, NULL returned.
NoRule ==
    /\ pc = "loop" /\ ~stack_Empty(stack)
    /\ current # Empty
    /\ ~TerminalMatches
    /\ single_Line_Parse(current, look_ahead) = -1
    /\ pc' = "rejected"
    /\ stack' = pop_From_Stack(stack)
    /\ \E root \in {ExtendedTree(nodes, 1)} :
          /\ freed' = freed \o flush_Chars_and_Digits(root)
          /\ extFreed' = free_Extended_Tree(root)
    /\ UNCHANGED <<input, index, nodes, tree, allocated, treeFreed>>

\* The loop ends with input left over: "INVALID CHARACTER ERROR"; the
\* same cleanup as above, NULL.
RejectTrailing ==
    /\ pc = "loop" /\ stack_Empty(stack)
    /\ look_ahead # NUL
    /\ pc' = "rejected"
    /\ \E root \in {ExtendedTree(nodes, 1)} :
          /\ freed' = freed \o flush_Chars_and_Digits(root)
          /\ extFreed' = free_Extended_Tree(root)
    /\ UNCHANGED <<input, index, stack, nodes, tree, allocated, treeFreed>>

\* The loop ends at the terminator: convert the extended tree to the
\* left-child/right-sibling form (which frees the extended tree), then trim
\* the empty productions.
Accept ==
    /\ pc = "loop" /\ stack_Empty(stack)
    /\ look_ahead = NUL
    /\ \E root \in {ExtendedTree(nodes, 1)} :
          /\ extFreed' = free_Extended_Tree(root)
          /\ \E t \in {trim_Parse_Tree(create_Parse_Tree_From_Extended_Nodes(root))} :
                /\ tree' = t.tree
                /\ treeFreed' = t.freed
    /\ pc' = "accepted"
    /\ UNCHANGED <<input, index, stack, nodes, allocated, freed>>

Next ==
    \/ MatchTerminal
    \/ MatchEmpty
    \/ Expand
    \/ NoRule
    \/ RejectTrailing
    \/ Accept

\* The parser is one sequential loop: while it has not returned, its next
\* iteration runs.
Spec == Init /\ [][Next]_vars /\ WF_vars(Next)

-----------------------------------------------------------------------------
(***************************************************************************)
(* Properties                                                              *)
(***************************************************************************)

\* Type invariant.  It includes that look_ahead = input[++index] never
\* moves past the terminator of the input string.
TypeOK ==
    /\ input \in Inputs
    /\ index \in 1..Len(input) + 1
    /\ \A k \in 1..Len(stack) : stack[k].node \in 1..Len(nodes)
    /\ \A n \in 1..Len(nodes) :
          \A k \in DOMAIN nodes[n].children : nodes[n].children[k] \in 2..Len(nodes)
    /\ pc \in {"loop", "accepted", "rejected"}
    /\ (tree = NULL) <=> (pc # "accepted")
    /\ allocated \subseteq 1..Len(input)
    /\ freed \in Seq(1..Len(input))
    /\ extFreed \in Seq(1..Len(nodes))
    /\ treeFreed \in Seq(1..Len(nodes))

\* find_Parent locates the node a popped symbol belongs to only by its
\* category (first childless node in depth-first order with that string).
\* Whenever a terminal or nonterminal is popped, the node it finds is the
\* very node that was created when the symbol was pushed, so matched
\* characters and expansions land at the right place in the tree.
ParentIsPushedNode ==
    (pc = "loop" /\ stack # <<>> /\ current # Empty) => parent = Head(stack).node

\* Every parse returns: the loop ends with a tree or with NULL.
ParseTerminates == <>(pc \in {"accepted", "rejected"})

=============================================================================

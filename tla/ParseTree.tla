----------------------------- MODULE ParseTree -----------------------------
(***************************************************************************)
(* The two tree forms of parse_tree.c.                                     *)
(*                                                                         *)
(* Parse_Node_Extended: a category and an ordered array of children.  The  *)
(* table parser keeps its extended nodes in a heap, modelled as a sequence *)
(* of records indexed by node number (the address); node 1 is the root.   *)
(* The recursive parser builds the same records nested directly.          *)
(*                                                                         *)
(* Parse_Node: the left-child/right-sibling form the evaluator walks, a    *)
(* record [category, left_most_child, right_Sibling] whose links are       *)
(* records or NULL.                                                        *)
(*                                                                         *)
(* A category is a char* that both node forms share.  The field `at' is    *)
(* the identity of that pointer where it matters: a string malloc'd while  *)
(* parsing (the '$'-marked terminals) has at = the input position it was  *)
(* made from; a static string literal has at = 0.                          *)
(*                                                                         *)
(* The field `id' is the identity of the node itself: for the table       *)
(* parser's extended nodes their address in the heap, and for a           *)
(* left-child/right-sibling node the address of the extended node it was *)
(* made from (one Parse_Node is malloc'd per extended node).  The         *)
(* recursive parser's nodes are not tracked and have id = 0.              *)
(***************************************************************************)
EXTENDS Grammar, SequencesExt

CONSTANT NULL

\* create_Extended_Node
create_Extended_Node(category) == [category |-> category, children |-> <<>>, at |-> 0, id |-> 0]

\* The value r of a recursive call, evaluated once and continued with K.
Let(r, K(_)) == CHOOSE x \in {K(y) : y \in {r}} : TRUE

(***************************************************************************)
(* find_Parent(root, category): the first node, in depth-first left-to-   *)
(* right order, that has no children and whose category equals the given  *)
(* one; 0 stands for NULL.                                                 *)
(***************************************************************************)
RECURSIVE find_Parent(_, _, _), FindInChildren(_, _, _),
          FindParentAnyNode(_, _, _), FindInFirstChild(_, _, _)

\* Variant without the child_count == 0 test: an already expanded node
\* with the popped category is returned.
FindParentAnyNode(nodes, n, category) ==
    IF nodes[n].category = category
    THEN n
    ELSE FindInChildren(nodes, nodes[n].children, category)

find_Parent(nodes, n, category) ==
    IF nodes[n].children = <<>> /\ nodes[n].category = category
    THEN n
    ELSE FindInChildren(nodes, nodes[n].children, category)

\* Variant of the loop that returns the first child's result even when
\* it is NULL.
FindInFirstChild(nodes, cs, category) ==
    IF cs = <<>> THEN 0 ELSE find_Parent(nodes, Head(cs), category)

FindInChildren(nodes, cs, category) ==
    IF cs = <<>> THEN 0
    ELSE LET found == find_Parent(nodes, Head(cs), category)
         IN  IF found # 0 THEN found ELSE FindInChildren(nodes, Tail(cs), category)

\* The heap of extended nodes viewed as nested records (the same tree the
\* recursive parser builds), from node n down.
RECURSIVE ExtendedTree(_, _)
ExtendedTree(nodes, n) ==
    [category |-> nodes[n].category,
     at       |-> nodes[n].at,
     id       |-> n,
     children |-> [i \in DOMAIN nodes[n].children |->
                      ExtendedTree(nodes, nodes[n].children[i])]]

(***************************************************************************)
(* create_Tree_At_Point(point, parent, child_Index): the left-child/right- *)
(* sibling node for point, which is child number i (1-based here) of      *)
(* parent; its right sibling is the next child of parent, its left-most   *)
(* child the first child of point.                                         *)
(***************************************************************************)
RECURSIVE create_Tree_At_Point(_, _, _)
create_Tree_At_Point(pt, par, i) == Let(<<pt, par>>, LAMBDA pp :
    LET point == pp[1]
        parent == pp[2]
    IN
    [category        |-> point.category,
     at              |-> point.at,
     id              |-> point.id,
     right_Sibling   |-> IF i < Len(parent.children)
                         THEN create_Tree_At_Point(parent.children[i + 1], parent, i + 1)
                         ELSE NULL,
     left_most_child |-> IF point.children # <<>>
                         THEN create_Tree_At_Point(point.children[1], point, 1)
                         ELSE NULL])

\* create_Parse_Tree_From_Extended_Nodes: the root hangs under the static
\* `empty' node, which has no children, so the root has no sibling.
create_Parse_Tree_From_Extended_Nodes(root) ==
    create_Tree_At_Point(root, create_Extended_Node(NULL), 1)

(***************************************************************************)
(* trim_Parse_Tree: a right sibling whose left-most child is the empty     *)
(* terminal is unlinked, and it and that child are freed; then the trim    *)
(* continues into the new right sibling and into the left-most child.     *)
(* The result is the trimmed tree and the ids of the nodes freed, in the   *)
(* order of the calls to free().                                           *)
(***************************************************************************)
RECURSIVE trim_Parse_Tree(_)

NoTrim == [tree |-> NULL, freed |-> <<>>]

\* The test of the if statement: rs is unlinked and freed.
DropsSibling(tree) ==
    LET rs == tree.right_Sibling
    IN  /\ rs # NULL
        /\ rs.left_most_child # NULL
        /\ rs.left_most_child.category = Empty

\* Variant that frees the unlinked sibling but not its empty-terminal child.
TrimKeepsEmptyLeaf(node) == Let(node, LAMBDA tree :
    LET rs    == tree.right_Sibling
        newRs == IF DropsSibling(tree) THEN rs.right_Sibling ELSE rs
    IN  Let(IF newRs # NULL THEN trim_Parse_Tree(newRs) ELSE NoTrim, LAMBDA r :
        Let(IF tree.left_most_child # NULL THEN trim_Parse_Tree(tree.left_most_child)
            ELSE NoTrim, LAMBDA l :
            [tree  |-> [tree EXCEPT !.right_Sibling = r.tree, !.left_most_child = l.tree],
             freed |-> (IF DropsSibling(tree) THEN <<rs.id>> ELSE <<>>)
                       \o r.freed \o l.freed])))

trim_Parse_Tree(node) == Let(node, LAMBDA tree :
    LET rs    == tree.right_Sibling
        newRs == IF DropsSibling(tree) THEN rs.right_Sibling ELSE rs
    IN  Let(IF newRs # NULL THEN trim_Parse_Tree(newRs) ELSE NoTrim, LAMBDA r :
        Let(IF tree.left_most_child # NULL THEN trim_Parse_Tree(tree.left_most_child)
            ELSE NoTrim, LAMBDA l :
            [tree  |-> [tree EXCEPT !.right_Sibling = r.tree, !.left_most_child = l.tree],
             freed |-> (IF DropsSibling(tree) THEN <<rs.left_most_child.id, rs.id>> ELSE <<>>)
                       \o r.freed \o l.freed])))

(***************************************************************************)
(* The node frees, as the sequences of the ids freed, in order.            *)
(***************************************************************************)
RECURSIVE free_Tree(_), free_Extended_Tree(_), FreeExtendedChildren(_),
          FreeTreeNoSibling(_)

\* Variant that does not follow the right sibling.
FreeTreeNoSibling(node) == Let(node, LAMBDA tree :
    (IF tree.left_most_child # NULL THEN free_Tree(tree.left_most_child) ELSE <<>>)
    \o <<tree.id>>)

\* free_Tree: the right sibling's subtree, the left-most child's, then the
\* node.
free_Tree(node) == Let(node, LAMBDA tree :
    (IF tree.right_Sibling # NULL THEN free_Tree(tree.right_Sibling) ELSE <<>>)
    \o (IF tree.left_most_child # NULL THEN free_Tree(tree.left_most_child) ELSE <<>>)
    \o <<tree.id>>)

\* free_Extended_Tree: every child's subtree in order, then the node (with
\* its children array).
free_Extended_Tree(tree) == FreeExtendedChildren(tree.children) \o <<tree.id>>

FreeExtendedChildren(cs) ==
    IF cs = <<>> THEN <<>>
    ELSE free_Extended_Tree(Head(cs)) \o FreeExtendedChildren(Tail(cs))

(***************************************************************************)
(* The frees of the '$' strings, as the sequence of the identities freed,  *)
(* in order.  flush_Chars_and_Digits frees every child whose category is a *)
(* '$' terminal and recurses into every other child; it never looks at the *)
(* node it is called on.                                                   *)
(***************************************************************************)
RECURSIVE flush_Chars_and_Digits(_), FlushChildren(_), FlushChildrenShallow(_)

\* Variant that frees the marked children but does not recurse.
FlushChildrenShallow(cs) ==
    IF cs = <<>> THEN <<>>
    ELSE (IF IsHeapCat(Head(cs).category) THEN <<Head(cs).at>> ELSE <<>>)
         \o FlushChildrenShallow(Tail(cs))

FlushChildren(cs) ==
    IF cs = <<>> THEN <<>>
    ELSE (IF IsHeapCat(Head(cs).category) THEN <<Head(cs).at>>
          ELSE flush_Chars_and_Digits(Head(cs)))
         \o FlushChildren(Tail(cs))

flush_Chars_and_Digits(tree) == FlushChildren(tree.children)

\* free_Table_Extra_Allocs: every node of a left-child/right-sibling tree
\* whose category[2] is '$', in preorder (for the categories that occur,
\* the same test as IsHeapCat).
RECURSIVE free_Table_Extra_Allocs(_)
free_Table_Extra_Allocs(tree) ==
    IF tree = NULL THEN <<>>
    ELSE (IF IsHeapCat(tree.category) THEN <<tree.at>> ELSE <<>>)
         \o free_Table_Extra_Allocs(tree.left_most_child)
         \o free_Table_Extra_Allocs(tree.right_Sibling)

=============================================================================

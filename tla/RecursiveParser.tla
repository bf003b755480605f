-------------------------- MODULE RecursiveParser --------------------------
(***************************************************************************)
(* recursive_parser.c: one operator per parsing function.  The global      *)
(* look_ahead pointer is threaded through as an index p into the input s:  *)
(* each operator returns [ok, pos, adds], where pos is where look_ahead    *)
(* stands when the function returns (also on failure) and adds is what the *)
(* function attached to its parent: <<node>> or, for a tail that took its *)
(* empty alternative, <<>>.  A failing function has freed its own node     *)
(* (flush_Chars_and_Digits, free_Extended_Tree) and attaches nothing.      *)
(* A result also records the '$' strings malloc'd (alloc) and freed       *)
(* (freed) during the call, as identities (see ParseTree), and the        *)
(* extended nodes malloc'd (nalloc) and freed (nfreed).  A nonterminal    *)
(* node's identity is its category with the position of look_ahead when   *)
(* it was created (the grammar has no left recursion and the parser never *)
(* backtracks, so no two nodes of one parse share both); a terminal leaf  *)
(* is named by its category and the node it is attached to.               *)
(* RecursiveNodesFreedOnce checks that the identities are distinct.       *)
(* Within one free_Extended_Tree the order of the frees is not kept.      *)
(***************************************************************************)
EXTENDS ParseTree

Ok(p, adds) == [ok |-> TRUE,  pos |-> p, adds |-> adds, alloc |-> <<>>, freed |-> <<>>,
                nalloc |-> <<>>, nfreed |-> <<>>]
Fail(p)     == [ok |-> FALSE, pos |-> p, adds |-> <<>>, alloc |-> <<>>, freed |-> <<>>,
                nalloc |-> <<>>, nfreed |-> <<>>]

\* if (f(node_extended) == 0) {flush...; free...; return 0;}: the result r
\* of a call is continued with K only if it succeeded.  When a later step
\* K of the same function fails, that function flushes its node, whose
\* children now include what r attached.  r is evaluated once.
AndThen(r, K(_)) ==
    CHOOSE x \in {IF ~y.ok THEN y
                  ELSE LET k == K(y) IN
                       [k EXCEPT !.alloc  = y.alloc \o @,
                                 !.freed  = y.freed \o @ \o
                                            (IF k.ok THEN <<>> ELSE FlushChildren(y.adds)),
                                 !.nalloc = y.nalloc \o @,
                                 !.nfreed = y.nfreed \o @ \o
                                            (IF k.ok THEN <<>> ELSE FreeExtendedChildren(y.adds))]
                  : y \in {r}} : TRUE

Node(category, p, children) ==
    [create_Extended_Node(category) EXCEPT !.id = <<category, p, category>>,
                                           !.children = children]

\* A terminal leaf of the node <<owner, p>>.
Leaf(category, owner, p) ==
    [create_Extended_Node(category) EXCEPT !.id = <<category, p, owner>>]

Ids(leaves) == [i \in DOMAIN leaves |-> leaves[i].id]

\* A function that creates its node <<category, p>> on entry, attaches the
\* terminal leaves pre to it and runs body r: when r fails, the node is
\* flushed and freed with those leaves (the children r attached are freed
\* by AndThen).
Own(category, p, pre, r) == Let(r, LAMBDA x :
    [x EXCEPT !.nalloc = <<<<category, p, category>>>> \o Ids(pre) \o @,
              !.nfreed = @ \o (IF x.ok THEN <<>> ELSE Ids(pre) \o <<<<category, p, category>>>>)])

\* A terminal leaf created after the body succeeded.
WithLeaf(r, leaf) == [r EXCEPT !.nalloc = @ \o <<leaf.id>>]

RECURSIVE expression(_, _), etial(_, _), group(_, _), gtail(_, _),
          factor(_, _), number(_, _), ntail(_, _), digit(_, _),
          sc_char(_, _), string(_, _), stail(_, _), function(_, _),
          paramlist(_, _), ptail(_, _), EtailOperatorLast(_, _),
          EtailLeaksNode(_, _)

\* <expression> -> <group> <etail>
expression(s, p) ==
    Own("<expression>", p, <<>>,
        IF LA(s, p) = NUL THEN Fail(p) ELSE
        AndThen(group(s, p), LAMBDA g :
        AndThen(etial(s, g.pos), LAMBDA t :
            Ok(t.pos, <<Node("<expression>", p, g.adds \o t.adds)>>))))

\* Variant in which the operator terminal is attached after the
\* <expression> it precedes.
EtailOperatorLast(s, p) ==
    IF LA(s, p) \in {"+", "-"}
    THEN LET op == Leaf(TermCat(LA(s, p)), "<etail>", p) IN
         Own("<etail>", p, <<op>>,
             AndThen(expression(s, p + 1), LAMBDA x :
                 Ok(x.pos, <<Node("<etail>", p, x.adds \o <<op>>)>>)))
    ELSE Ok(p, <<>>)

\* Variant that returns 0 without freeing its node and operator leaf.
EtailLeaksNode(s, p) ==
    IF LA(s, p) \in {"+", "-"}
    THEN LET op == Leaf(TermCat(LA(s, p)), "<etail>", p) IN
         Let(AndThen(expression(s, p + 1), LAMBDA x :
                 Ok(x.pos, <<Node("<etail>", p, <<op>> \o x.adds)>>)), LAMBDA r :
             [r EXCEPT !.nalloc = <<<<"<etail>", p, "<etail>">>, op.id>> \o @])
    ELSE Ok(p, <<>>)

\* <etail> -> + <expression> | - <expression> | empty
etial(s, p) ==
    IF LA(s, p) \in {"+", "-"}
    THEN LET op == Leaf(TermCat(LA(s, p)), "<etail>", p) IN
         Own("<etail>", p, <<op>>,
             AndThen(expression(s, p + 1), LAMBDA x :
                 Ok(x.pos, <<Node("<etail>", p, <<op>> \o x.adds)>>)))
    ELSE Ok(p, <<>>)

\* <group> -> <factor> <gtail>
group(s, p) ==
    Own("<group>", p, <<>>,
        IF LA(s, p) = NUL THEN Fail(p) ELSE
        AndThen(factor(s, p), LAMBDA f :
        AndThen(gtail(s, f.pos), LAMBDA t :
            Ok(t.pos, <<Node("<group>", p, f.adds \o t.adds)>>))))

\* <gtail> -> * <group> | / <group> | empty
gtail(s, p) ==
    IF LA(s, p) \in {"*", "/"}
    THEN LET op == Leaf(TermCat(LA(s, p)), "<gtail>", p) IN
         Own("<gtail>", p, <<op>>,
             AndThen(group(s, p + 1), LAMBDA x :
                 Ok(x.pos, <<Node("<gtail>", p, <<op>> \o x.adds)>>)))
    ELSE Ok(p, <<>>)

\* <factor> -> <number> | - <factor> | ( <expression> ) | <function>,
\* chosen by the lookahead.  A lookahead in none of the four classes
\* matches no branch, and the childless <factor> is still attached.  The
\* '-' and '(' leaves are attached before the call, the ')' leaf after.
factor(s, p) ==
    LET minus == Leaf(TermCat("-"), "<factor>", p)
        open  == Leaf(TermCat("("), "<factor>", p)
    IN
    IF LA(s, p) = NUL THEN Own("<factor>", p, <<>>, Fail(p)) ELSE
    CASE is_Symbol_Digit(LA(s, p)) ->
            Own("<factor>", p, <<>>,
                AndThen(number(s, p), LAMBDA x : Ok(x.pos, <<Node("<factor>", p, x.adds)>>)))
      [] LA(s, p) = "-" ->
            Own("<factor>", p, <<minus>>,
                AndThen(factor(s, p + 1), LAMBDA x :
                    Ok(x.pos, <<Node("<factor>", p, <<minus>> \o x.adds)>>)))
      [] LA(s, p) = "(" ->
            Own("<factor>", p, <<open>>,
                AndThen(expression(s, p + 1), LAMBDA x :
                    IF LA(s, x.pos) # ")" THEN Fail(x.pos)
                    ELSE LET close == Leaf(TermCat(")"), "<factor>", p) IN
                         WithLeaf(Ok(x.pos + 1, <<Node("<factor>", p, <<open>> \o x.adds
                                                          \o <<close>>)>>), close)))
      [] is_Symbol_Char(LA(s, p)) ->
            Own("<factor>", p, <<>>,
                AndThen(function(s, p), LAMBDA x : Ok(x.pos, <<Node("<factor>", p, x.adds)>>)))
      [] OTHER -> Own("<factor>", p, <<>>, Ok(p, <<Node("<factor>", p, <<>>)>>))

\* <number> -> <digit> <ntail>
number(s, p) ==
    Own("<number>", p, <<>>,
        IF LA(s, p) = NUL THEN Fail(p) ELSE
        AndThen(digit(s, p), LAMBDA d :
        AndThen(ntail(s, d.pos), LAMBDA t :
            Ok(t.pos, <<Node("<number>", p, d.adds \o t.adds)>>))))

\* <ntail> -> <number> | empty
ntail(s, p) ==
    IF is_Symbol_Digit(LA(s, p))
    THEN Own("<ntail>", p, <<>>,
             AndThen(number(s, p), LAMBDA x : Ok(x.pos, <<Node("<ntail>", p, x.adds)>>)))
    ELSE Ok(p, <<>>)

\* <digit> -> [0-9]: the terminal's category is a malloc'd "\\d$".
digit(s, p) ==
    Own("<digit>", p, <<>>,
        IF LA(s, p) = NUL \/ ~is_Symbol_Digit(LA(s, p)) THEN Fail(p)
        ELSE LET t == [Leaf(HeapCat(LA(s, p)), "<digit>", p) EXCEPT !.at = p] IN
             [WithLeaf(Ok(p + 1, <<Node("<digit>", p, <<t>>)>>), t) EXCEPT !.alloc = <<p>>])

\* <char> -> [a-z], with a malloc'd "\\c$" terminal.
sc_char(s, p) ==
    Own("<char>", p, <<>>,
        IF LA(s, p) = NUL \/ ~is_Symbol_Char(LA(s, p)) THEN Fail(p)
        ELSE LET t == [Leaf(HeapCat(LA(s, p)), "<char>", p) EXCEPT !.at = p] IN
             [WithLeaf(Ok(p + 1, <<Node("<char>", p, <<t>>)>>), t) EXCEPT !.alloc = <<p>>])

\* <string> -> <char> <stail>
string(s, p) ==
    Own("<string>", p, <<>>,
        IF LA(s, p) = NUL THEN Fail(p) ELSE
        AndThen(sc_char(s, p), LAMBDA c :
        AndThen(stail(s, c.pos), LAMBDA t :
            Ok(t.pos, <<Node("<string>", p, c.adds \o t.adds)>>))))

\* <stail> -> <string> | empty
stail(s, p) ==
    IF is_Symbol_Char(LA(s, p))
    THEN Own("<stail>", p, <<>>,
             AndThen(string(s, p), LAMBDA x : Ok(x.pos, <<Node("<stail>", p, x.adds)>>)))
    ELSE Ok(p, <<>>)

\* <function> -> <string> <paramlist>
function(s, p) ==
    Own("<function>", p, <<>>,
        IF LA(s, p) = NUL THEN Fail(p) ELSE
        AndThen(string(s, p), LAMBDA n :
        AndThen(paramlist(s, n.pos), LAMBDA l :
            Ok(l.pos, <<Node("<function>", p, n.adds \o l.adds)>>))))

\* <paramlist> -> ( <expression> <ptail> ): the '(' leaf is created after
\* the lookahead test, the ')' leaf after the whole body.
paramlist(s, p) ==
    LET open == Leaf(TermCat("("), "<paramlist>", p) IN
    IF LA(s, p) = NUL \/ LA(s, p) # "(" THEN Own("<paramlist>", p, <<>>, Fail(p)) ELSE
    Own("<paramlist>", p, <<open>>,
        AndThen(expression(s, p + 1), LAMBDA x :
        AndThen(ptail(s, x.pos), LAMBDA t :
            IF LA(s, t.pos) # ")" THEN Fail(t.pos)
            ELSE LET close == Leaf(TermCat(")"), "<paramlist>", p) IN
                 WithLeaf(Ok(t.pos + 1, <<Node("<paramlist>", p, <<open>> \o x.adds
                                                  \o t.adds \o <<close>>)>>), close))))

\* <ptail> -> , <expression> <ptail> | empty: look_ahead moves past ','
\* before the node is created.
ptail(s, p) ==
    IF LA(s, p) = ","
    THEN LET comma == Leaf(TermCat(","), "<ptail>", p + 1) IN
         Own("<ptail>", p + 1, <<comma>>,
             AndThen(expression(s, p + 1), LAMBDA x :
             AndThen(ptail(s, x.pos), LAMBDA t :
                 Ok(t.pos, <<Node("<ptail>", p + 1, <<comma>> \o x.adds \o t.adds)>>))))
    ELSE Ok(p, <<>>)

(***************************************************************************)
(* run_Recursive_Parser: parse <expression>; the tree is returned only if  *)
(* the parse succeeded and look_ahead stands on the terminator.  With      *)
(* input left over, the '$' strings of the built tree are freed            *)
(* (free_Table_Extra_Allocs), then its nodes (free_Tree), and NULL is     *)
(* returned.  The conversion frees the extended tree (nfreed); the        *)
(* left-child/right-sibling nodes it builds carry the same identities.   *)
(***************************************************************************)
run_Recursive_Parser(s) ==
    CHOOSE x \in {LET t == IF r.ok THEN create_Parse_Tree_From_Extended_Nodes(r.adds[1])
                          ELSE NULL
                      trailing == LA(s, r.pos) # NUL
                  IN  [tree      |-> IF trailing THEN NULL ELSE t,
                       alloc     |-> r.alloc,
                       freed     |-> r.freed \o IF trailing /\ t # NULL
                                               THEN free_Table_Extra_Allocs(t) ELSE <<>>,
                       nalloc    |-> r.nalloc,
                       nfreed    |-> r.nfreed \o IF r.ok THEN free_Extended_Tree(r.adds[1])
                                                ELSE <<>>,
                       treeFreed |-> IF trailing /\ t # NULL THEN free_Tree(t) ELSE <<>>]
                  : r \in {expression(s, 1)}} : TRUE

=============================================================================

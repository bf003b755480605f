---------------------------- MODULE LinkedStack ----------------------------
(***************************************************************************)
(* stack.c: a stack of category strings kept as a linked list of malloc'd *)
(* Stack_Node records (previous, next, cat) and a header (head, size).    *)
(* The client is run_Table_Parser: it creates the stack, pushes and pops  *)
(* (popping only while !stack_Empty), and at the end either calls         *)
(* free_Stack and free(stack) (a rejection) or, once the stack is empty,  *)
(* only free(stack) (an acceptance).                                       *)
(*                                                                         *)
(* The malloc'd nodes are the function heap from the addresses in use to  *)
(* their records; malloc picks any address not in use.  Addrs bounds the  *)
(* number of nodes alive at once, so pushes stop when it is exhausted.    *)
(***************************************************************************)
EXTENDS Naturals, Sequences, FiniteSets, TLC

CONSTANTS
    Cats,    \* the category strings pushed
    Addrs,   \* the addresses malloc may return
    NULL

VARIABLES
    heap,      \* the malloc'd Stack_Nodes: address -> [previous, next, cat]
    head,      \* s->head
    size,      \* s->size
    out,       \* the category the last pop_From_Stack returned
    released   \* free(stack) has been called

vars == <<heap, head, size, out, released>>

\* The list from address a on, following next.
RECURSIVE ListFrom(_)
ListFrom(a) == IF a = NULL THEN <<>> ELSE <<heap[a].cat>> \o ListFrom(heap[a].next)

\* The addresses on the list from a on.
RECURSIVE NodesFrom(_)
NodesFrom(a) == IF a = NULL THEN {} ELSE {a} \cup NodesFrom(heap[a].next)

\* stack_Empty
stack_Empty == size = 0

\* create_Stack: the header with an empty list.
Init ==
    /\ heap = <<>>          \* the empty function: nothing malloc'd
    /\ head = NULL
    /\ size = 0
    /\ out = "none"
    /\ released = FALSE

\* create_Node_Cat: a fresh node holding c, unlinked.
create_Node_Cat(c) == [previous |-> NULL, next |-> NULL, cat |-> c]

\* Variant that links the new node after the last one, not before the head.
PushAtTail(c) ==
    /\ ~released
    /\ \E a \in Addrs \ DOMAIN heap :
         IF head = NULL
         THEN /\ heap' = heap @@ (a :> create_Node_Cat(c))
              /\ head' = a
         ELSE LET tail == CHOOSE t \in NodesFrom(head) : heap[t].next = NULL
              IN  /\ heap' = [heap EXCEPT ![tail].next = a]
                             @@ (a :> [create_Node_Cat(c) EXCEPT !.previous = tail])
                  /\ head' = head
    /\ size' = size + 1
    /\ UNCHANGED <<out, released>>

\* push_To_Stack_Cat: new_Node->next = head, head->previous = new_Node,
\* head = new_Node, size++.
push_To_Stack_Cat(c) ==
    /\ ~released
    /\ \E a \in Addrs \ DOMAIN heap :
         LET new_Node == [create_Node_Cat(c) EXCEPT !.next = head]
             linked   == IF head # NULL THEN [heap EXCEPT ![head].previous = a] ELSE heap
         IN  /\ heap' = linked @@ (a :> new_Node)
             /\ head' = a
    /\ size' = size + 1
    /\ UNCHANGED <<out, released>>

\* Variant that returns the node instead of its category.
PopReturnsNode ==
    /\ ~released /\ ~stack_Empty
    /\ LET top == head
           rest == heap[top].next
           unlinked == IF rest # NULL THEN [heap EXCEPT ![rest].previous = NULL] ELSE heap
       IN  /\ heap' = [x \in DOMAIN heap \ {top} |-> unlinked[x]]
           /\ head' = rest
           /\ out' = top
    /\ size' = size - 1
    /\ UNCHANGED released

\* Variant that does not decrement size.
PopKeepsSize ==
    /\ ~released /\ ~stack_Empty
    /\ LET top == head
           rest == heap[top].next
           unlinked == IF rest # NULL THEN [heap EXCEPT ![rest].previous = NULL] ELSE heap
       IN  /\ heap' = [x \in DOMAIN heap \ {top} |-> unlinked[x]]
           /\ head' = rest
           /\ out' = heap[top].cat
    /\ UNCHANGED <<size, released>>

\* pop_From_Stack, called by the table parser only while !stack_Empty:
\* rest->previous = NULL, head = rest, the category is read, the node is
\* freed, size--.
pop_From_Stack ==
    /\ ~released /\ ~stack_Empty
    /\ LET top == head
           rest == heap[top].next
           unlinked == IF rest # NULL THEN [heap EXCEPT ![rest].previous = NULL] ELSE heap
       IN  /\ heap' = [x \in DOMAIN heap \ {top} |-> unlinked[x]]
           /\ head' = rest
           /\ out' = heap[top].cat
    /\ size' = size - 1
    /\ UNCHANGED released

\* Variant of the loop of free_Stack that frees the first node only.
FreeStackFirstOnly ==
    /\ ~released
    /\ heap' = [x \in DOMAIN heap \ {head} |-> heap[x]]
    /\ released' = TRUE
    /\ UNCHANGED <<head, size, out>>

\* A rejection: free_Stack frees every node from head on (head and size
\* are left as they are), then free(stack).
free_Stack ==
    /\ ~released
    /\ heap' = [x \in DOMAIN heap \ NodesFrom(head) |-> heap[x]]
    /\ released' = TRUE
    /\ UNCHANGED <<head, size, out>>

\* An acceptance: the loop ended with stack_Empty, only free(stack).
FreeHeader ==
    /\ ~released /\ stack_Empty
    /\ released' = TRUE
    /\ UNCHANGED <<heap, head, size, out>>

Next ==
    \/ \E c \in Cats : push_To_Stack_Cat(c)
    \/ pop_From_Stack
    \/ free_Stack
    \/ FreeHeader

Spec == Init /\ [][Next]_vars

-----------------------------------------------------------------------------
(***************************************************************************)
(* Properties                                                              *)
(***************************************************************************)

Node == [previous : Addrs \cup {NULL}, next : Addrs \cup {NULL}, cat : Cats]

\* Type invariant.
TypeOK ==
    /\ DOMAIN heap \subseteq Addrs
    /\ \A a \in DOMAIN heap : heap[a] \in Node
    /\ head \in Addrs \cup {NULL}
    /\ size \in 0..Cardinality(Addrs)
    /\ out \in Cats \cup {"none"}
    /\ released \in BOOLEAN

\* stack_Empty and the client's decision to pop read size, never the list:
\* while the stack is alive, size is the length of the list from head, so
\* a pop is never asked of a NULL head and the loop ends exactly when the
\* list is empty.
SizeIsLength == ~released => size = Len(ListFrom(head))

\* No Stack_Node is lost: while the stack is alive every malloc'd node is on
\* the list, and once it is released (by either of the table parser's two
\* exits) none is left.
NoLeak ==
    /\ ~released => DOMAIN heap = NodesFrom(head)
    /\ released => DOMAIN heap = {}

\* The linked list implements the sequence stack: the list read from head
\* is the abstract contents, and every push, pop and release is the
\* abstract one.
Abstract == INSTANCE SeqStack WITH stk <- IF released THEN <<>> ELSE ListFrom(head)

ImplementsSeqStack == Abstract!Spec

=============================================================================

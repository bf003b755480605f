----------------------------- MODULE SeqStack -----------------------------
(***************************************************************************)
(* What stack.c promises its one client, the table parser: a stack of     *)
(* category strings, top first.  Pop is only asked of a non-empty stack   *)
(* and yields its top; the stack ends its life when it is released.       *)
(***************************************************************************)
EXTENDS Sequences

CONSTANT Cats           \* the category strings that are pushed

VARIABLES
    stk,        \* the contents, top first
    out,        \* the category the last pop returned
    released    \* the stack has been released

vars == <<stk, out, released>>

Init == stk = <<>> /\ out = "none" /\ released = FALSE

Push(c) == ~released /\ stk' = <<c>> \o stk /\ UNCHANGED <<out, released>>

Pop == ~released /\ stk # <<>> /\ stk' = Tail(stk) /\ out' = Head(stk)
       /\ UNCHANGED released

Release == ~released /\ released' = TRUE /\ stk' = <<>> /\ UNCHANGED out

Next == (\E c \in Cats : Push(c)) \/ Pop \/ Release

Spec == Init /\ [][Next]_vars

=============================================================================

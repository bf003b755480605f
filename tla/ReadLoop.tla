----------------------------- MODULE ReadLoop -----------------------------
(***************************************************************************)
(* main (main.c): the choice of parser from argv, then the read loop.     *)
(* Each iteration reads one whitespace-delimited token with scanf("%s")   *)
(* into the buffer input[], stops at "exit" or "EXIT", and otherwise      *)
(* compiles the token: parse with the chosen parser, then evaluate and    *)
(* free the tree.  A compilation is one step here; what it does to a      *)
(* token is the subject of Calculator.                                    *)
(*                                                                         *)
(* The standard input is the finite sequence stream, read from position  *)
(* pos on.  scanf's result is                                              *)
(* not tested: at the end of the input it returns EOF and leaves input[]  *)
(* as it was.  If nothing was ever read, input[] is an uninitialised      *)
(* array, whose contents the build does not determine: any token.         *)
(***************************************************************************)
EXTENDS Naturals, Sequences

CONSTANTS
    MaxCompiled,  \* the length at which the history compiled stops growing
    Tokens,   \* the tokens a user can type, including "exit" and "EXIT"
    Streams,  \* the possible contents of the standard input
    Args,     \* the possible argv[1..], each argument given by its first character
    UNINIT    \* the contents of input[] before the first read

VARIABLES
    args,       \* argv[1..]
    stream,     \* the standard input
    pos,        \* the position of the next token scanf reads
    input,      \* the buffer input[2000]
    use_table,  \* 1: the table parser, 0: the recursive-descent parser
    pc,         \* "start", "read", "compile" or "done" (main has returned)
    compiled    \* history: the tokens compiled so far (the first MaxCompiled)

vars == <<args, stream, pos, input, use_table, pc, compiled>>

ExitWords == {"exit", "EXIT"}

Init ==
    /\ args \in Args
    /\ stream \in Streams
    /\ pos = 1
    /\ input = UNINIT
    /\ compiled = <<>>
    /\ use_table = 0
    /\ pc = "start"

\* The argc/argv tests: no argument prints the help and returns; one
\* argument starting with 't' or 'r' selects the parser, '?' prints the help
\* and goes on with the recursive-descent parser, any other returns, as do
\* two or more arguments.
ParseArgs ==
    /\ pc = "start"
    /\ IF Len(args) = 1 /\ args[1] \in {"t", "r", "?"}
       THEN /\ use_table' = IF args[1] = "t" THEN 1 ELSE 0
            /\ pc' = "read"
       ELSE /\ pc' = "done"
            /\ UNCHANGED use_table
    /\ UNCHANGED <<args, stream, pos, input, compiled>>

\* What scanf leaves in input[]: the next token, or at the end of the input
\* the buffer as it was.
NextToken ==
    IF pos <= Len(stream) THEN {stream[pos]}
    ELSE IF input = UNINIT THEN Tokens ELSE {input}

\* scanf("%s", input), then the strcmp tests.  At the end of the input the
\* buffer keeps the last token read.
Read ==
    /\ pc = "read"
    /\ \E tok \in NextToken :
         /\ input' = tok
         /\ pc' = IF tok \in ExitWords THEN "done" ELSE "compile"
    /\ pos' = IF pos <= Len(stream) THEN pos + 1 ELSE pos
    /\ UNCHANGED <<args, stream, use_table, compiled>>

\* Variant in which the loop breaks after compiling a token.
CompileThenBreak ==
    /\ pc = "compile"
    /\ pc' = "done"
    /\ compiled' = IF Len(compiled) < MaxCompiled THEN Append(compiled, input)
                   ELSE compiled
    /\ UNCHANGED <<args, stream, pos, input, use_table>>

\* "Compiling %s": run_Table_Parser or run_Recursive_Parser on input, and
\* for a tree calculate_Value_From_Parse_Tree, free_Tree and free(value).
\* Both parsers and the evaluator return (TableParser!ParseTerminates; the
\* recursive parser and the evaluator consume their input or tree).
Compile ==
    /\ pc = "compile"
    /\ pc' = "read"
    /\ compiled' = IF Len(compiled) < MaxCompiled THEN Append(compiled, input)
                   ELSE compiled
    /\ UNCHANGED <<args, stream, pos, input, use_table>>

Next == ParseArgs \/ Read \/ Compile

\* main is one sequential thread; scanf blocks only until input arrives,
\* and the stream is already all there.
Spec == Init /\ [][Next]_vars /\ WF_vars(Next)

-----------------------------------------------------------------------------
(***************************************************************************)
(* Properties                                                              *)
(***************************************************************************)

HasExit == \E i \in 1..Len(stream) : stream[i] \in ExitWords

\* The arguments select a parser, so main enters the loop.
Runs == Len(args) = 1 /\ args[1] \in {"t", "r", "?"}

\* The tokens of the input in front of its first exit word (all of them
\* when it has none).
BeforeExit ==
    LET exits == {i \in 1..Len(stream) : stream[i] \in ExitWords}
        first == IF exits = {} THEN Len(stream) + 1
                 ELSE CHOOSE i \in exits : \A j \in exits : i <= j
    IN  SubSeq(stream, 1, first - 1)

\* The help text's promise ("Calculator can be quit at anytime by typing
\* 'EXIT' or 'exit'"), over a whole session: when the loop runs on an input
\* that holds either word, main compiles every token in front of the first
\* one, each once and in the order typed, and then returns without
\* compiling the word itself or anything after it.
ExitEndsSession ==
    (Runs /\ HasExit) => <>(pc = "done" /\ compiled = BeforeExit)

\* main returns on every input stream: when the input ends without an exit
\* word, the loop still stops.
SessionEnds == <>(pc = "done")

=============================================================================

# TLA+ models of math_parser

The C program under `src/C-linking-tests/math_parser` reads arithmetic
expressions from a command line. It parses each one with one of two parsers
and evaluates the resulting parse tree. This directory models the parsers, the
evaluator, the stack and the read loop. It checks with TLC that the two
parsers agree with each other and with the meaning of an expression, and that
the heap memory they use is freed exactly once.

## Inventory

### Components

| Component | Source | State | Operations |
|---|---|---|---|
| Grammar and production table | `table_parser.c` (`single_Line_Parse`, `rule_Num_To_List_Of_Strings`), `parse_tree.c` (`is_Symbol_*`) | none (pure) | the rule for (category, lookahead), the right-hand side of a rule |
| Parse tree | `parse_tree.c`, `parse_tree.h` | extended nodes (a category and a child array), left-child/right-sibling nodes | `create_Extended_Node`, `add_Child_To_Extended_Node`, `find_Parent`, `create_Parse_Tree_From_Extended_Nodes`, `trim_Parse_Tree`, the frees |
| Stack | `stack.c` | a header (head, size) and a doubly linked list of malloc'd nodes holding category strings | create, push, pop, empty, free |
| Table parser | `table_parser.c` | input, look_ahead index, stack, extended tree | one loop iteration: pop, `find_Parent`, then match a terminal, pop the empty terminal, expand, or reject; after the loop, accept or reject trailing input |
| Recursive parser | `recursive_parser.c` | the global `look_ahead` pointer and the tree under construction | one function per nonterminal |
| Function library | `functions.c`, `parse_tree.c` (`value_From_Function`) | none | arity of a name, domain checks, libm calls |
| Evaluator | `parse_tree.c` | none (it frees '$' strings as it goes) | `value_Of_Parse_Node` and its chain loops, the parameter helpers |
| Read loop | `main.c` | argv, the parser choice, a 2000-byte buffer | dispatch on argv, read a token, exit test, parse, evaluate, print, free |
| Allocator smoke test | `basic/malloc_test.c` | — | unrelated to the parser |

### How the parts interact

- `main` chooses a parser and passes it the input string.
- Each parser returns a left-child/right-sibling `Parse_Tree`, or NULL.
- The table parser builds an extended tree. On acceptance it converts the tree to left-child/right-sibling form and trims the empty productions.
- The recursive parser builds the same extended form and converts it to the same left-child/right-sibling form. It does not need to trim, because it never attaches an empty production.
- `calculate_Value_From_Parse_Tree` walks the tree. It returns a value, or NULL on division by zero, a domain error, an unknown function or a wrong argument count.

### The hard behaviours

- **`find_Parent`.** The table parser never stores the node it created for a pushed symbol. Instead, `find_Parent` searches by the category string alone for the first childless node. This is correct only if the left-to-right order of pending leaves matches the order of the stack.
- **Re-association.** The grammar nests `+ -` and `* /` to the right. The evaluator must fold each chain left to right by following right-sibling pointers.
- **Two parsers, one language.** Both parsers must accept the same inputs. They differ at the boundary cases: the `<factor>` fallthrough and `<stail>` at the terminator.
- **Heap ownership.** Terminal strings marked with '$' are malloc'd and are freed in three places, on success and on failure paths.

### Properties wanted, per component

| Component | Property |
|---|---|
| Table parser | `find_Parent` returns the pushed node; `look_ahead` stays within the string; the loop terminates |
| Both parsers | the same accepted language and the same trees |
| Evaluator | the left-associative value, with failure exactly in the failure cases |
| Ownership | every '$' string is freed at most once and only if it was allocated; nothing is left after a rejection, or after evaluating a tree of the recursive parser |
| Stack | `size` is the length of the list; no node outlives the stack; the list behaves as a sequence stack |
| Node ownership | every extended and left-child/right-sibling node is freed exactly once |
| Result doubles | a successful evaluation leaves only the double it returns |
| Read loop | main returns when the input holds an exit word, and at the end of the input |

## Modules

| Module | Models |
|---|---|
| `Grammar` | Category strings, the character classes, `single_Line_Parse` as a CASE in the code's order, and the production table. `TermCat(c)` is `"\c"`, `HeapCat(c)` is the malloc'd `"\c$"`, `Empty` is `"\\"`. |
| `ParseTree` | Extended nodes as records. `find_Parent` over a heap (a sequence of nodes indexed by address). The conversion `create_Tree_At_Point` and `trim_Parse_Tree`. |
| `TableParser` | The state machine of `run_Table_Parser`. Its variables are `input`, `index` (look_ahead), `stack` (top first), `nodes` (the heap), `pc` and `tree`. Each action is one branch of a loop iteration: `MatchTerminal`, `MatchEmpty`, `Expand`, `NoRule`, `RejectTrailing` and `Accept`. Each stack entry carries a ghost field `node`, the node created for it, which is what `find_Parent` must find. The stack functions of `stack.c` are sequence operators. |
| `RecursiveParser` | Each parsing function is a recursive operator that takes the look_ahead index and returns `[ok, pos, adds]`, with the '$' strings and the extended nodes it malloc'd and freed. `Own` is the shape every function shares: create the node on entry and, on a failure return, flush and free it. `AndThen` is the step `if (f(node) == 0) {flush; free; return 0;}`. |
| `Rational` | Exact rationals, standing in for doubles. |
| `FunctionLibrary` | `num_Of_Params_For_Function`, `value_From_Function` (the domain checks and the strcmp dispatch, `FunctionValue`) and every wrapper of `functions.c`. The wrappers do the degree conversions through `PI`, which is `4*atan(1)`, and `func_vlength` composes `pow` and `sqrt`. Only the libm primitives (`sin`, `cos`, `tan`, `asin`, `acos`, `atan`, `sqrt`, `pow`) are the constant operator `MathValue`. `Reference` computes each function from the spec's description with the same primitives. So a wrapper that calls the wrong primitive, converts the wrong way, or pairs `vlength`'s coordinates wrongly shows up in `EvaluatesLeftAssociatively`. |
| `Evaluator` | `value_Of_Parse_Node` and its chain loops (`ExpressionChain`, `GroupChain`, `NumberChain`), and the parameter helpers. |
| `Reference` | The meaning of an accepted text according to spec.md, independent of both parsers. It splits at the last binary operator of the weakest level at depth 0. |
| `Calculator` | Composes the above. It runs the table parser as the behaviour, and compares the result with the recursive parser, the evaluator and the reference. |
| `MC_Calculator` | Definitions for TLC: the inputs and a concrete `MathValue` over the primitives. |
| `SeqStack` | The abstract stack that `stack.c` promises its client: a sequence, top first, with push, pop of a non-empty stack, and release. |
| `LinkedStack` | `stack.c` itself. `heap` maps the addresses in use to `Stack_Node` records `[previous, next, cat]`; `head` and `size` are the header. The actions are `push_To_Stack_Cat` (malloc at any free address), `pop_From_Stack`, `free_Stack` (a rejection) and `FreeHeader` (an acceptance, which only calls `free(stack)`). It is shown to implement `SeqStack` through `INSTANCE SeqStack WITH stk <- ...`, the list read from `head`. |
| `MC_LinkedStack` | Three addresses as model values and two categories. |
| `ReadLoop` | `main`: the argc/argv dispatch (`ParseArgs`), `scanf` with the exit test (`Read`) and one step per compiled token (`Compile`). The input is a finite sequence of abstract tokens. At the end of the input the buffer keeps its last token, as `scanf` leaves it; before any read it holds any token. |
| `MC_ReadLoop` | Two expression tokens besides the exit words, every input of up to three tokens, and six argument lists. |

**Ownership.** Every parse node carries a ghost field `at`. It is 0 for a static string literal. For a malloc'd `"\c$"` string it is the input position of the character, which names that allocation. The table parser records the positions it allocates in `allocated` and the ones it frees in the sequence `freed`. The recursive parser and the evaluator return the sequences of their allocations and frees with their results. A sequence, not a set, is kept so that a double free shows as a repeated element. `flush_Chars_and_Digits`, `free_Table_Extra_Allocs` and the frees inside `value_Of_Parse_Node` are modelled in the order the code does them, the operator of a chain being freed after its operand is evaluated and before the zero and NULL checks.

**Nodes.** Every node also carries a ghost field `id`. For the table parser's extended nodes it is the node's address in the heap; a left-child/right-sibling node inherits the id of the extended node it was made from. `free_Extended_Tree`, `trim_Parse_Tree` and `free_Tree` return the ids they free, in the code's order. `TableParser` records them in `extFreed` (the rejection cleanup or the conversion) and `treeFreed` (the trim); `Calculator` appends main's `free_Tree`. The recursive parser has no heap to index, so a nonterminal node's id is its category with the position of look_ahead when it was created, and a terminal leaf's id is its category with the node it hangs under. The grammar has no left recursion and the parser never backtracks, so these ids are distinct, and `RecursiveNodesFreedOnce` checks that they are. Its results list the nodes created (`nalloc`) and freed (`nfreed`). Within one `free_Extended_Tree` the model does not keep the order of the frees, which no property depends on.

**Result doubles.** Each evaluator result also has a count `kept`: the blocks malloc'd during the call and still allocated when it returns. These are the result doubles of nested calls, the copied function name and the parameter list. The double a successful call returns is not counted, because its caller frees it. A count is enough here because the code never frees these blocks twice. It frees them right after reading them, in the same loop iteration.

## Runs

| Run | Checks | Result |
|---|---|---|
| `table_frontier` | `TypeOK`, `ParentIsPushedNode` | pass |
| `table_terminates` | `ParseTerminates` under `WF_vars(Next)` | pass |
| `strategies_agree` | `StrategiesAgree` | pass |
| `left_assoc` | `EvaluatesLeftAssociatively` | pass |
| `rejected_by_both` | `RejectedByBoth` | violation |
| `ownership` | `FreesAreSound`, `RejectedParseFreesAll`, `RecursiveEvaluationFreesAll`, `TableNodesFreedOnce`, `EvaluationKeepsOnlyResult`, `RecursiveNodesFreedOnce` | pass |
| `table_tree_leaks` | `TableEvaluationFreesAll` | violation |
| `failed_eval_leaks` | `FailedEvaluationFreesAll` | violation |
| `linked_stack` | `TypeOK`, `SizeIsLength`, `NoLeak`, `ImplementsSeqStack` | pass |
| `failed_eval_blocks` | `FailedEvaluationFreesBlocks` | violation |
| `read_loop` | `ExitEndsSession` under `WF_vars(Next)` | pass |
| `read_loop_eof` | `SessionEnds` under `WF_vars(Next)` | violation |

- **`table_frontier`.** Every popped symbol's `find_Parent` is the node created when the symbol was pushed, and `look_ahead` never passes `'\0'`.
- **`table_terminates`.** Every table parse returns.
- **`strategies_agree`.** Every input the table parser accepts is also accepted by the recursive parser. The two trees are equal once the '$' markers are removed.
- **`left_assoc`.** The evaluator's value for every accepted input equals the reference value. This includes division by zero, nested zero divisors, the sqrt and pow domain errors, unknown names and wrong arity.
- **`rejected_by_both`.** The violation is at input `"/2"`; see the finding below.
- **`ownership`.** Over every input, both parsers and the evaluator never free a '$' string twice or one that was not allocated. Every rejection, of either parser, frees every string it allocated. Evaluating a tree built by the recursive parser frees every string of the tree, on success and on failure. Every node the table parser mallocs is freed exactly once (`TableNodesFreedOnce`). This holds for the extended nodes, on rejection and at the conversion, and for the left-child/right-sibling nodes, by the trim or by main's `free_Tree`. So the trim never leaves a freed node reachable and never drops a node it does not free. Every extended node and terminal leaf the recursive parser mallocs is freed exactly once as well (`RecursiveNodesFreedOnce`). A failure several rules deep frees, at each level, that level's node and the children it had attached. The child that failed has already freed itself and was never attached. The conversion frees a finished tree, and `free_Tree` frees the tree of an input with trailing characters.
- **`table_tree_leaks`.** Evaluating a tree of the table parser does not free every string. The violation is at `"-0"`; see the findings.
- **`failed_eval_leaks`.** A failed evaluation does not free the rest of the tree. The violation is at `"2/0+1"`; see the findings.
- **`ownership`, continued.** A successful evaluation of an accepted tree of either parser frees every nested result double, every function name and every parameter list.
- **`failed_eval_blocks`.** The violation is at `"3/0"`; see the findings.
- **`read_loop`.** When the arguments select a parser and the input holds `exit` or `EXIT`, `main` compiles exactly the tokens in front of the first exit word, each once and in the order typed, and then returns (`ExitEndsSession`). `ReadLoop` keeps the whole input in `stream` with scanf's read position `pos`, and the history variable `compiled` records each token that `Compile` takes. `compiled` stops growing at `MaxCompiled` = 4. That bound is above the two tokens that can come before an exit word in a three-token input, and it keeps the state space finite for inputs that have no exit word, which loop forever.
- **`read_loop_eof`.** The violation is an input without an exit word. Once it is consumed, `Read` and `Compile` repeat the last token for ever.
- **`linked_stack`.** Over every sequence of pushes and pops with at most three nodes alive, `size` equals the length of the list, every malloc'd node is on the list while the stack lives and none is left after either exit, and every step is a step of `SeqStack`.

Each property of a passing run has a mutant in `PROJECT.json`, and TLC finds each mutant violated:

| Mutant | Breaks |
|---|---|
| the empty terminal advances look_ahead | `TypeOK` |
| `find_Parent` without the childless test | `ParentIsPushedNode` |
| the child loop stops after the first child | `ParseTerminates` |
| the operator leaf is attached after the operand | `StrategiesAgree` |
| the chain is evaluated without re-association | `EvaluatesLeftAssociatively` |
| the chain frees its operator without the '$' test | `FreesAreSound` |
| `flush_Chars_and_Digits` does not recurse into children | `RejectedParseFreesAll` |
| `value_Of_String_Parse_Node` frees only the first character | `RecursiveEvaluationFreesAll` |
| `pop_From_Stack` returns the node, not its category | `TypeOK` (LinkedStack) |
| `pop_From_Stack` does not decrement `size` | `SizeIsLength` |
| `free_Stack` frees the first node only | `NoLeak` |
| `push_To_Stack_Cat` links the node at the tail | `ImplementsSeqStack` |
| the trim frees the unlinked sibling but not its empty-terminal child | `TableNodesFreedOnce` |
| the `<number>` loop does not free each digit's double | `EvaluationKeepsOnlyResult` |
| the loop breaks after compiling a token | `ExitEndsSession` |
| `func_vlength` pairs the coordinates as (x1, x2), (y1, y2) | `EvaluatesLeftAssociatively` |
| `etial` returns 0 without freeing its node and operator leaf | `RecursiveNodesFreedOnce` |

### Findings

`factor()` in `recursive_parser.c` (line 133) attaches a childless `<factor>` and reports success when the lookahead matches none of its four alternatives. As a result, the recursive parser accepts `"/2"`, `"+2"` and `"()"`. The table parser rejects these inputs. The read loop then prints the tree and its prefix form for them. The evaluator returns NULL, and `main` (`main.c`, line 65) prints no value and no error, where the table parser would report a parse error.

spec.md (sections 4.3, 4.4 and 8) says that both parsers accept the same language.

The `<factor>` case of `value_Of_Parse_Node` (`parse_tree.c`, line 330) evaluates the inner expression and never frees the '-', '(' and ')' leaves. The recursive parser builds these leaves from static literals, so nothing leaks there. The table parser makes them '$' strings, so each such tree leaks one or two strings per factor: `"-0"` leaks the '-', and `"(2)"` leaks both parentheses.

When an evaluation fails (`parse_tree.c`, line 312), the chain returns NULL at once and the strings of the tree not yet visited are never freed, and `main` frees only the nodes. For `"2/0+1"` the string of '1' leaks.

`value_Of_Parse_Node` (`parse_tree.c`, line 246) mallocs its output double before any test. It returns NULL without freeing it on every failure path: a childless node, a NULL operand, division by zero, or a function error. The `<function>` case also leaks the copied name and the parameter list. For `"3/0"` the failing `<group>` call leaks its output, and each enclosing call leaks one more. Spec section 3 says an evaluation value is consumed by its parent, and section 7 that a failure aborts the evaluation. Nothing frees the abandoned blocks.

`main` (`main.c`, line 46) never tests the result of `scanf`. At the end of the standard input, `scanf` returns EOF and leaves `input[]` as it was, so the loop compiles the last token again for ever. With an empty input it reads the uninitialised buffer. The help text names `exit`/`EXIT` as the way to quit. spec.md leaves the read loop out of scope, so this is a gap in the spec: nothing says what happens at end of input, for example when expressions are piped in.

### Bounds

- **Inputs (`MCInputs`).**
  - Every string of length at most 4 over `0 2 + - * / ( ) p i , &`. This includes an invalid character, and function names built from `p` and `i` (`pi` takes one argument, so `pi(2)` evaluates, while `p(0)` and `i(0)` are unknown functions).
  - 20 longer samples that exercise the cases short strings cannot reach:
    - chains with 3 operators (`8-2*3-1`, `5/3/2`, `120/4/3`);
    - `3/0` and `2/(1-1)`;
    - `sqrt` and `pow` on and off their domains;
    - arity errors, `vlength` with 4 arguments, and a nested call.
- **Inputs for the termination run (`MCShortInputs`).** Strings of length at most 3, plus two calls to `pi`. Liveness checking is much costlier on the long sample behaviours, and termination does not depend on them.
- **Stack (`MC_LinkedStack`).** Three addresses and two categories: enough for a list of three nodes, a pop from the middle of a sequence of pushes, and malloc reusing a freed address.
- **Read loop (`MC_ReadLoop`).** Inputs of up to three tokens over two expressions and the two exit words. This covers an exit word first, last or missing, both words, and the end of input after zero, one or two expressions. The six argument lists reach every branch of the argv tests.
- **`MathValue`.** Exact values for `pow` with an integer exponent from 0 to 4 and for `sqrt` of a perfect square. `atan(1)` is 3/4, so `PI` is 3. It only has to be non-zero, and a small value keeps the unreduced rationals of the degree conversions within TLC's integers. Every other primitive call gets a value that still depends on the primitive and the argument. The samples include `vlength(1,1,4,5)`, `sind(90)`, `arctand(1)` and `pi(2)`, so that the conversions and `vlength`'s argument order are exercised.

These bounds are enough because every table entry is reachable with length-4 strings. The samples reach the rest: chains of 3 operators, where re-association first differs from right association, and the zero and domain boundaries.

### Fairness

Each parser is a single sequential loop, and nothing else runs during it. Weak fairness of `Next` only says that the loop does not stop without returning.

`CHECK_DEADLOCK FALSE` is set because a parse really does stop once it has returned: the states with `pc` equal to accepted or rejected are final. `linked_stack` sets it too: after `free(stack)` the stack is gone and nothing more happens to it. So does `read_loop`, because `main` really does return.

`main` is one thread. Weak fairness of its `Next` says that it keeps taking steps while it can: reading, compiling and testing. The input is given whole, so `scanf` never waits for ever.

## Not modelled

- **Allocation failure.** No `malloc` or `realloc` returns NULL in the model. This leaves out the early return in `add_Child_To_Extended_Node`.
- **Printing.** `print_Stack`, `peek_Stack`, `print_Parse_Tree`, `print_Prefix_Transversal`, `print_Shpeal` and the messages of `main` do not change state.
- **Dead code.** `create_Parse_Tree` is marked deprecated and `funcExists` is unused. `create_Parse_Node` is called only by the conversion, whose node records it stands inside.
- **Doubles.** Values are exact rationals, so rounding is not covered.
- **libm.** The primitives that the wrappers call are the constant `MathValue`.
- **The token buffer.** Tokens are abstract, so the unbounded `scanf("%s")` into the 2000-byte `input[]` is listed as a hazard without a property. The printing is left out as well.
- **Recursion depth.**
- **The allocator smoke test in `basic/`.** It is unrelated to the parser.

## Plan for further work

Every state-changing function under `math_parser/` is now an action or an operator of some module. What is left is printing, dead code, and the header declarations. Two pieces of work could still be done:

1. The recursive parser as an explicit call-stack state machine, with the globals `look_ahead` and `head`, shown to refine the pure operators of `RecursiveParser`.
2. Token lengths in `ReadLoop`, to state the 2000-byte bound of `input[]`. This would need a run of its own for a violation. Overflowing the buffer is undefined behaviour that no contract describes.

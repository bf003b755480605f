---------------------------- MODULE MC_ReadLoop ----------------------------
EXTENDS ReadLoop

\* Two expressions besides the two exit words.
CONSTANTS e1, e2

MCTokens == {"exit", "EXIT", e1, e2}

\* Every input of at most three tokens.
MCStreams == UNION {[1..n -> MCTokens] : n \in 0..3}

\* No argument, each of the first characters main tests, another one, and
\* two arguments.
MCArgs == {<<>>, <<"t">>, <<"r">>, <<"?">>, <<"x">>, <<"t", "r">>}
=============================================================================

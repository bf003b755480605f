--------------------------- MODULE MC_LinkedStack ---------------------------
EXTENDS LinkedStack

\* Two distinct categories, so that order matters, and three addresses, so
\* that a push can reuse the address of a popped node and the list reaches
\* three nodes.
MCCats  == {"<expression>", "\\+"}
CONSTANTS a1, a2, a3
MCAddrs == {a1, a2, a3}
=============================================================================

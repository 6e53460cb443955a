------------------------------ MODULE MCBtree -------------------------------
EXTENDS Btree

\* Two tuples with a value of 2 fill a leaf, three without one, so that a half
\* of it can have a key twice; a value of 5 takes more than half of it.
MCTuples == {<<<<i>>, 2>> : i \in 2 .. 6} \cup {<<<<1>>, 0>>, <<<<4>>, 5>>}

\* Leaves of two tuples, whose halves have no key twice.
MCPairs == {<<<<i>>, 2>> : i \in 1 .. 6}
=============================================================================

------------------------------- MODULE MCScroll -----------------------------
EXTENDS Scroll, TLC

Leaf(n, k) == [name |-> n, items |-> k, subs |-> <<>>]
Inner      == [name |-> "c", items |-> 1, subs |-> <<Leaf("a", 1)>>]

Root(k, s)   == [name |-> "r", items |-> k, subs |-> s]

MCCategories == {Leaf("b", 2), Inner}
MCSources    == {Root(0, <<>>), Root(2, <<>>), Root(2, <<Inner>>), Root(2, <<Inner, Leaf("b", 2)>>)}
MCTrees      == MCSources \cup MCCategories \cup {Leaf("a", 1)}

MCViews == {[level |-> 1, subcats |-> FALSE], [level |-> 2, subcats |-> TRUE]}
MCSaved == {<<2, 2>>}
=============================================================================

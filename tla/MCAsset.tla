------------------------------- MODULE MCAsset ------------------------------
EXTENDS Asset, TLC

CONSTANTS r1, r2, w1, c1, cache, self

MCKind == [r \in {r1, r2} |-> "Read"] @@ [w \in {w1, c1} |-> "Write"]
MCKey  == [r \in {r1, r2} |-> cache] @@ [w \in {w1, c1} |-> self]
=============================================================================

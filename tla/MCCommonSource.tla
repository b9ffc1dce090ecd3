--------------------------- MODULE MCCommonSource ---------------------------
EXTENDS CommonSource, TLC

CONSTANTS l1, l2, d1, d2, w1, c1, self, asset, page1, page2, image, style

MCKind   == [r \in {l1, l2, d1, d2} |-> "Read"] @@ [w \in {w1, c1} |-> "Write"]
MCKey    == l1 :> asset @@ l2 :> asset @@ d1 :> page1 @@ d2 :> page2 
            @@ w1 :> self @@ c1 :> self
MCRefers == <<{image}, {image, style}>>
=============================================================================

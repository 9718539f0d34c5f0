---------------------------- MODULE MCVisualMap -----------------------------
(* Two views of three sites on both sides of the origin: in the second one  *)
(* sites change cells, one lies behind the camera, and patches grow to each  *)
(* of the search levels.                                                    *)
EXTENDS VisualMap, TLC

SomeSites == {-3, 5, 9}
Rays(ray) == [c \in Cells |-> IF c = 1 THEN ray ELSE <<>>]
SomeViews == {
    [px |-> (-3 :> 8 @@ 5 :> 14 @@ 9 :> 18), front |-> [s \in SomeSites |-> TRUE],
     dist |-> (-3 :> 1 @@ 5 :> 1 @@ 9 :> 2), growth |-> (-3 :> 1 @@ 5 :> 4 @@ 9 :> 50),
     rays |-> Rays(<<5, 9>>)],
    [px |-> (-3 :> 14 @@ 5 :> 14 @@ 9 :> 26), front |-> (-3 :> TRUE @@ 5 :> FALSE @@ 9 :> TRUE),
     dist |-> (-3 :> 1 @@ 5 :> 1 @@ 9 :> 2), growth |-> (-3 :> 9 @@ 5 :> 3 @@ 9 :> 13),
     rays |-> Rays(<<5>>)]}
SomeCentres == {9}
=============================================================================

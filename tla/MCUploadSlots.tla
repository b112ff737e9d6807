--------------------------- MODULE MCUploadSlots ---------------------------
(* A page with two components, one with two slots and one that may stay     *)
(* empty, with both steps; and a page without steps.                        *)
EXTENDS UploadSlots, TLC

CONSTANTS pa, pb, ca, cb, cc

OfPage == ca :> pa @@ cb :> pa @@ cc :> pb
Most == [x \in Components |-> IF x = ca THEN 2 ELSE 1]
Fewest == [x \in Components |-> IF x = cb THEN 0 ELSE 1]
Following == pa :> pb @@ pb :> None

\* One page and one component, which must have two files.
OnePage == ca :> pa
Two == ca :> 2
Last == pa :> None

Symmetry == Permutations(Tabs)
=============================================================================

---------------------------- MODULE MCSaveReturn ----------------------------
(* Browsers are interchangeable, and so are users. *)
EXTENDS SaveReturn, TLC

Symmetry == Permutations(Browsers) \cup Permutations(Users)
=============================================================================

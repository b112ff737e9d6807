-------------------------------- MODULE Lists --------------------------------
(* What is made of a list here and there. *)
EXTENDS Naturals, SequencesExt

\* The members of a list that belong to a set, in their order.
Only(list, set) ==
  LET kept[i \in 0..Len(list)] ==
        IF i = 0 THEN <<>>
        ELSE IF list[i] \in set THEN Append(kept[i - 1], list[i]) ELSE kept[i - 1]
  IN  kept[Len(list)]
=============================================================================

---------------------------- MODULE MCQxReplay ----------------------------
(* An instance of QxReplay for TLC: recovery and two entities of another   *)
(* kind in a table of two slots.  Checkpoints, sessions and the two other  *)
(* entities are interchangeable.                                           *)
EXTENDS QxReplay, TLC

KindOfDef == [k \in Keys |-> IF k = Recovery THEN "recovery" ELSE "provider"]

Symmetry ==
    Permutations(Checkpoints) \cup Permutations(Sessions)
        \cup Permutations(Keys \ {Recovery})
=============================================================================

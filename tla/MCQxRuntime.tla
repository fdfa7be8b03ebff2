---------------------------- MODULE MCQxRuntime ----------------------------
(* Small instances of QxRuntime for TLC.                                   *)
EXTENDS QxRuntimeInv, TLC

CONSTANTS t1, t2, w1, w2

SlotOfDef == [w \in Workers |-> IF w = w1 THEN 0 ELSE 1]
OwnerSlotDef == [t \in Tasks |-> IF t = t1 THEN 0 ELSE 1]
OneSlotDef == [t \in Tasks |-> 0]
PriorityDef == [t \in Tasks |-> IF t = t1 THEN "high" ELSE "low"]
=============================================================================

--------------------------- MODULE MCQxToolCall ---------------------------
(* A small instance of QxToolCall for TLC.  An int32 is four bits wide.    *)
(* The tokens of the task have a ceiling its charges cannot wrap around;   *)
(* its cost has none, and wraps around both ways.                          *)
EXTENDS QxToolCall, TLC

Vector(tokens, cost) == [d \in Dims |-> IF d = "tokens" THEN tokens ELSE cost]

BudgetDef == [t \in Tasks |-> Vector(4, 0)]

FixedDeltasDef ==
    [n \in {"admit", "dispatch", "capture", "barrier", "final"} |->
        CASE n \in {"admit", "dispatch"} -> {Vector(0, 1)}
          [] n = "capture" -> {Vector(0, 7), Vector(1, 7)}
          [] n \in {"barrier", "final"} -> {Vector(1, 7)}]

ToolDeltasDef == [t \in Tasks |-> {Vector(1, -7)}]

\* Sessions run the same code.
Symmetry == Permutations(Sessions)
=============================================================================

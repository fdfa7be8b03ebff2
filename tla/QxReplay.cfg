\* Two backends replay two checkpoints; recovery and two providers share a
\* statistics table of two slots with one reader.
CONSTANTS
    Keys = {rec, k1, k2}
    NoKey = NoKey
    StatKinds = {"recovery", "provider"}
    KindOf <- KindOfDef
    SlotCount = 2
    Readers = {r1}
    MaxReports = 1
    MaxResets = 1
    Checkpoints = {c1, c2}
    Sessions = {s1, s2}
    Recovery = rec
    MaxCalls = 3
SYMMETRY Symmetry
SPECIFICATION Spec
INVARIANTS
    TypeOK
    OneSlotPerEntity
    ShownWasReported
    OncePerBackend
    OnlyOverlapping
    ListedIsReplayed
    CommittedIsCounted

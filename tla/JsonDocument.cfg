SPECIFICATION DocSpec
CONSTANTS
    Samples <- SomeSamples
    Items <- SomeItems
    Names <- SomeNames
    PointerTexts <- SomePointers
    Edits <- SomeEdits
    Targets <- SomeTargets
    InBounds <- ThreeParts
    MaxIndex = 2
INVARIANT PatchesLeadThere
INVARIANT BinaryReadsBack
INVARIANT AccessAgrees
INVARIANT OrderIsTotal
PROPERTY FailureKeepsParts
PROPERTY EraseAndInsertTellWhere

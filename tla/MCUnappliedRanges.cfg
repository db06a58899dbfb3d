SPECIFICATION Spec
CONSTANTS
    MaxSeq = 7
    Slots = 2
    SpanSets <- AllSpans
INVARIANT SlotsLegal
PROPERTIES NothingForgotten KeepsCoverage

SPECIFICATION Spec
CONSTANTS
    IntMax = 2
    Ints <- SmallInts
    Strings = {"a", "b"}
    MaxEvents = 18
    Msgs <- ThreeMsgs
    Known <- SeenKnown
INVARIANTS TypeOK AcceptsMessages ReadsRight ThrowsOnlyAtErrors
CHECK_DEADLOCK FALSE

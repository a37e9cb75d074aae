SPECIFICATION Spec
CONSTANTS
    IntMax = 2
    Ints <- LargeInts
    Strings = {"a", "b"}
    MaxEvents = 18
    Msgs <- ThreeMsgs
    Known <- SeenKnown
PROPERTIES EveryObjectCounts
CHECK_DEADLOCK FALSE

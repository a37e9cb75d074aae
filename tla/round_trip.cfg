SPECIFICATION TripSpec
CONSTANTS
    IntMax = 7
    Ints <- IntSet
    Strings = {"a", "b"}
    MaxEvents = 60
    Msgs <- ThreeMsgs
    Known <- Unknown
    Texts <- SomeTexts
INVARIANTS TripTypeOK ReadsBack KeepsEntries TornFileSafe
CHECK_DEADLOCK FALSE

SPECIFICATION Spec
CONSTANTS
    Formats <- ShortFormats
INVARIANTS TypeOK FindsSpecs ThrowsOnlyAtBadFormat
CHECK_DEADLOCK FALSE

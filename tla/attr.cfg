SPECIFICATION Spec
CONSTANTS
    Sources <- ShortSources
INVARIANTS TypeOK FindsCleanComment AttrsRight
CHECK_DEADLOCK FALSE

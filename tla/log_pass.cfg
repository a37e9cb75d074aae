SPECIFICATION Spec
CONSTANTS
    log = "log"
    k1 = k1
    k2 = k2
    IntMax = 3
    Spelled <- Spellings
    Funcs = {"log", "other"}
    Structs <- StructSet
    Keys = {k1, k2}
    Programs <- SomePrograms
    MaxId = 2
INVARIANTS TypeOK AllMessagesLogged MisuseReported OnlyMisuseFails OtherwiseNoAborts
PROPERTIES ImplementsRegistry

SPECIFICATION Spec
CONSTANTS
    Data = {"a", "b"}
    INITIAL_CAP = 1
    MaxNodes = 4
INVARIANT WellFormed
PROPERTIES LookupsRight ImplementsSequence

SPECIFICATION Spec
CONSTANTS
    Functions <- MCFunctions
    Dictionaries <- MCDictionaries
    Names <- MCNames
    MaxCalls = 2
INVARIANTS
    StaticCallIsAbi
CHECK_DEADLOCK FALSE

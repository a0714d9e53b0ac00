SPECIFICATION Spec
CONSTANTS
    Functions <- MCFunctions
    Dictionaries <- MCDictionaries
    Names <- MCNames
    MaxCalls = 2
INVARIANTS
    CallIsAbi
CHECK_DEADLOCK FALSE

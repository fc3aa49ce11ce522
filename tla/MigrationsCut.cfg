SPECIFICATION Spec
CONSTANTS
    Script <- Scripts
    Needed <- StartUpTables
    Oldest = 29
    MaxCuts = 1
INVARIANTS SafeToRepeat

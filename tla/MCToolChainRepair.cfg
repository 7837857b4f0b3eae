SPECIFICATION Spec
CONSTANTS
    MaxCalls = 3
    MaxMessages = 6
INVARIANTS
    RequestWellFormed
    RepairKeepsWhatIsValid
PROPERTIES
    RequestsGrow
CHECK_DEADLOCK FALSE

SPECIFICATION Spec
CONSTANTS
    Inputs <- MCInputs
    Trainers = {"bilinear", "reference", "native"}
    None = None
INVARIANTS
    LeakFree
    WorkIsAsPlanned
PROPERTIES
    ImplementsTextbook
CHECK_DEADLOCK FALSE

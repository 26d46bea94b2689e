SPECIFICATION Spec
CONSTANTS
    NModels = 3
    NExamples = 2
    Caps = {0, 3}
    Limit = 5
    NoChoice = NoChoice
    Offers <- MCOffers
    Hashes <- MCHashes
    Probes <- MCProbes
INVARIANTS
    ExactSetIsComplete
    SelectionIsOptimal
    SelectionFitsBudget

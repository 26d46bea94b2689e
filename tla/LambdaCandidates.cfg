SPECIFICATION DerivationSpec
CONSTANTS
    NModels = 4
    NExamples = 1
    Caps = {0, 2, 3, 7}
    Offers <- MCOffers
    Hashes <- MCHashes
INVARIANTS
    SampleIsBottomHash
    LabelIsTruthful
    SearchKeepsBothEnds
    PreflightBoundsTheWork

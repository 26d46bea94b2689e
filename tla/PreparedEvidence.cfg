SPECIFICATION Spec
CONSTANTS
  Unhashed = Unhashed
  Foreign = Foreign
  None = None
  NoEncoder = NoEncoder
  Catalogue = {"code", "math", "list"}
  MaxNumericBytes = 700
  MaxStatisticScalars = 350
  MaxStatisticWork = 600
  MaxExecutionWork = 20500
  MaxExecutionBytes = 9400
  MaxArtifactScalars = 45
  MaxCalibratorPoints = 23
  MaxAssemblyObjects = 62300
  MaxArtifactBytes = 74000
  MaxAssemblyBytes = 293000
  MaxAssemblyWork = 2650
  KeyBytes <- MCKeyBytes
  NameBytes <- MCNameBytes
  Source <- MCSource
  Runs <- MCRuns
  Mixed <- MCMixed
  Ridges = {1, 10}
INVARIANTS
  PredictorIsOneLineage
  HeldOutTargetsUnseen
  RefusalIsWarranted
  DamagedInferenceRefused
CHECK_DEADLOCK FALSE

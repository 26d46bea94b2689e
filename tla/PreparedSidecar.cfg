SPECIFICATION SidecarSpec
CONSTANTS
  Limits <- MCLimits
  Pairs <- MCPairs
  Unset = Unset
INVARIANTS
  AnswersAreCanonical
  PreflightsAgree
  BlameIsRight

CONSTANTS
  Limit = 3
  NoQuery = NoQuery
  Models = {m1, m2}
  Prices <- MCPrices
  NQueries = 2
  MaxCalls = 2
SPECIFICATION Spec
INVARIANTS
  EvidenceConserved
  SharedLimitHolds
  OracleDominates
PROPERTIES
  ExhaustionIsFinal

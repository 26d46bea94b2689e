CONSTANTS
  N = 3
  MaxFaults = 3
SPECIFICATION ReaderSpec
INVARIANTS
  NeverTorn
  OldContentNeverLost
  OutcomeIsExact
  CleanOutcomeNoDebris
  AcceptedPairCoexisted
  SettledPairLoads
PROPERTIES
  EventuallyAnswered
  ImplementsContract

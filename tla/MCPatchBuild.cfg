CONSTANTS
  Requests <- MCRequests
SPECIFICATION Spec
INVARIANTS
  HandlesAreApart
  EveryControlIsReachedOnce
  ConnectionsAreWired
  PoweredByItsPreamp
  BuildsAsThePageExpects
CHECK_DEADLOCK FALSE

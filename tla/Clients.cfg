SPECIFICATION Spec
SYMMETRY Symmetry
CONSTANTS
  Calls = {a, b}
  Events = {e1}
  Pumps = {p1, p2}
  MaxEpoch = 3
  BindRounds = 2
  MaxReports = 1
  MayStop = TRUE
INVARIANT CallsOutliveReplacement
INVARIANT ReplacedAreReleased
INVARIANT SubscriptionsFollow
INVARIANT ReleasedOnPump

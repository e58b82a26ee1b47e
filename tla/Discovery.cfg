SPECIFICATION FairSpec
CONSTANTS
  Builds = {b1, b2}
  Typed = {b1}
  Absent = Absent
  Pumps = 2
  Revalidates = TRUE
  MaxChanges = 1
  MaxFaults = 0
  MaxUnavailable = 1
  MaxReplaced = 1
INVARIANT NeverStranded
INVARIANT FreshIsAfterLoss
INVARIANT EndsOnlyOnChange
PROPERTY Converges

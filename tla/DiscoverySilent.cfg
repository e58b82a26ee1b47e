SPECIFICATION Spec
CONSTANTS
  Builds = {b1, b2}
  Typed = {b1}
  Absent = Absent
  Pumps = 2
  Revalidates = TRUE
  MaxChanges = 1
  MaxFaults = 0
  MaxUnavailable = 1
  MaxReplaced = 0
INVARIANT NotSilentlyResumed

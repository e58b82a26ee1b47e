\* Once stopped, or when nothing changes, the publisher has nothing to do.
CHECK_DEADLOCK FALSE
SPECIFICATION FairSpec
CONSTANTS
  Contents = {v1, v2}
  Changers = {t1, t2}
  Pumps = {p1, p2}
  None = None
  MaxSwaps = 4
  MaxFailures = 1
INVARIANT NoLostChange
PROPERTY NeverBack
PROPERTY DocsFollow

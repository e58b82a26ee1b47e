SPECIFICATION SelfSpec
CONSTANTS
  Builds <- MCBuilds
  Honest <- MCHonest
  Configs <- MCConfigs
  Asked <- MCAsked
  Events <- MCEvents
  Given <- MCGiven
  None = None
  Absent = Absent
  Bad = Bad
  IntWidth = 24
  Loopback = {"127.0.0.1", "localhost", "::1"}
  Spaced = {"a b"}
  SelfName <- MCSelfName
  Written <- MCWritten
  Followed <- MCFollowed
  OtherViews <- MCOtherViews
  Sanitized <- MCSanitized
INVARIANT ExposureIsTheGate
INVARIANT HiddenLooksUnknown
INVARIANT GeneratedCallsAreAccepted
INVARIANT EveryRefResolves
INVARIANT NamesKeepApart
PROPERTY HonestIsServed
PROPERTY ArgumentsFit

SPECIFICATION ProfileSpec
CONSTANTS
  Base = 4
  Exact = 512
  Rounded <- MCRounded
  Truncated <- MCTruncated
  Brightnesses <- MCBrightnesses
  Times <- MCTimes
  Statuses <- MCStatuses
INVARIANTS
  ProfileTypeOK
  RoundTrip
  StatusIsCommand
  FailureSticks

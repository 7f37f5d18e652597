\* Two runs, the first one's issue gone, a failure at any point: the second
\* is reminded and closed in time all the same.
CONSTANTS
  NumRuns = 2
  Unreachable = {1}
  PingAfter = 1
  CloseAfter = 3
  MaxReplies = 2
  MaxFailures = 2
SPECIFICATION FairSpec
INVARIANTS OneReminder ClosedOnSchedule
PROPERTY NobodyWaitsForEver

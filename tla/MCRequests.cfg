SPECIFICATION FairSpec
CONSTANTS
  preview = preview
  picture = picture
  Streams = {preview, picture}
  NumRequests = 3
  MinInFlight = 2
  MaxInFlight = 3
  NumFlushes = 1
  Scenarios <- AllScenarios
INVARIANTS
    AnswersExact
    ThrottleExact
PROPERTIES
    FlushSettles
    Progress
CHECK_DEADLOCK FALSE

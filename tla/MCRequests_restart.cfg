SPECIFICATION Spec
CONSTANTS
  preview = preview
  picture = picture
  Streams = {preview, picture}
  Scenarios <- OnlyRestarting
  NumRequests = 3
  MinInFlight = 2
  MaxInFlight = 3
  NumFlushes = 1
INVARIANT WaitsForPendingRequests
CHECK_DEADLOCK FALSE

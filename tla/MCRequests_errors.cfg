SPECIFICATION Spec
CONSTANTS
  preview = preview
  picture = picture
  Streams = {preview, picture}
  Scenarios <- OnlyReprocessing
  NumRequests = 3
  MinInFlight = 2
  MaxInFlight = 3
  NumFlushes = 1
INVARIANT ErrorsGoToPendingRequests
CHECK_DEADLOCK FALSE

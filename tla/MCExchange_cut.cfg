\* The upstream breaks off in the middle of the response body.
CONSTANTS
  MaxBody = 4
  ChunkSize = 3
  MaxCapture = 2
  Requests <- MCRequests
SPECIFICATION Spec
INVARIANT FailureHasError

\* A client's path has an escape in it.
CONSTANTS
  MaxBody = 4
  ChunkSize = 3
  MaxCapture = 2
  Requests <- MCRequests
SPECIFICATION Spec
INVARIANT Transparent

\* ServeHTTP reads the captured request during the upload.
CONSTANTS
  MaxBody = 4
  ChunkSize = 3
  MaxCapture = 2
  Requests <- MCRequests
SPECIFICATION Spec
INVARIANT BytesAfterReading

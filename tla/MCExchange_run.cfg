\* Bodies of up to four bytes, reads of one to three, a capture limit of two.
CONSTANTS
  MaxBody = 4
  ChunkSize = 3
  MaxCapture = 2
  Requests <- MCRequests
SPECIFICATION Spec
INVARIANTS TypeOK ResponseShown RequestShown ClientGetsAll UpstreamSeesRequest ReplayRepeats PageCanReplay
PROPERTIES  EmitsOnce

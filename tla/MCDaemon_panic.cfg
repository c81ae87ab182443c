\* A TUI replay in progress when the daemon gets a signal.
CONSTANTS
  Requests = {r1}
  GrpcReplays = {g1}
  WebReplays = {}
  Watchers = {t1}
  Streams = {b1}
  Fanout = Fanout
  EventBuf = 1
  BufSize = 1
  Publishers <- MCPublishers
  Subscribers <- MCSubscribers
  MaxPublish <- MCMaxPublish
SPECIFICATION Safety
INVARIANTS ReplayReturns

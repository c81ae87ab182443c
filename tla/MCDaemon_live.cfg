\* A proxied request and a TUI replay, a TUI and a browser.
CONSTANTS
  Requests = {r1}
  GrpcReplays = {g1}
  WebReplays = {}
  Watchers = {t1}
  Streams = {b1}
  Fanout = Fanout
  EventBuf = 1
  BufSize = 1
  Publishers <- MCPublishers
  Subscribers <- MCSubscribers
  MaxPublish <- MCMaxPublish
SPECIFICATION Spec
PROPERTIES FanoutKeepsUp ViewerIsReleased SignalEnds

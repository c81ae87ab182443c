\* A proxied request, a replay of each kind, a TUI and a browser; both channels hold one event.
CONSTANTS
  Requests = {r1}
  GrpcReplays = {g1}
  WebReplays = {w1}
  Watchers = {t1}
  Streams = {b1}
  Fanout = Fanout
  EventBuf = 1
  BufSize = 1
  Publishers <- MCPublishers
  Subscribers <- MCSubscribers
  MaxPublish <- MCMaxPublish
SPECIFICATION Safety
INVARIANTS TypeOK EmittedOnce PanicOnlyAfterSignal FanoutDrains SubscriptionPerCall

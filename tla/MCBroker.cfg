\* Two concurrent publishers, two subscriptions, a channel that fills at once.
CONSTANTS
  Publishers = {p1, p2}
  Subscribers = {s1, s2}
  BufSize = 1
  MaxPublish = 2
  NoWriter = NoWriter
SPECIFICATION MCSpec
INVARIANTS TypeOK NoSendOnClosed MapIsLive FeedOrder
PROPERTIES FeedSafety CallsReturn FeedSpec

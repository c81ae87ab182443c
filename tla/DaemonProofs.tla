------------------------------ MODULE DaemonProofs ------------------------------
(***************************************************************************)
(* http-tapd from its first listener to its exit, for any number of calls  *)
(* and viewers and channels of any capacity.                               *)
(***************************************************************************)
EXTENDS Daemon, FiniteSetTheorems, FunctionTheorems, SequenceTheorems, TLAPS

(* An event is only offered after its publish has been counted.            *)
OffersAreCounted == due[Fanout] # {} => count[Fanout] > 0

(* Everything captured, in order: what the fan-out has published and what  *)
(* is still in the channel.                                                *)
Log == published \o events

(* The log has each event once, and those of the handlers that emitted.    *)
LogIsEmitted ==
  /\ \A i, j \in 1..Len(Log) : Log[i] = Log[j] => i = j
  /\ \A h \in Handlers : handler[h] = "emitted" <=> \E i \in 1..Len(Log) : Log[i] = h

(* The event channel is closed behind the proxy, and the proxy by a        *)
(* signal; the proxy is started once.                                      *)
ClosedBySignal ==
  /\ main \in {"listenGrpc", "listenWeb", "listenProxy"} => proxySrv = "none"
  /\ eventsClosed => proxySrv = "closed"
  /\ proxySrv = "closed" => ctxDone

(* The fan-out starts once, and ends on a channel that is closed and       *)
(* drained and with nobody left to offer the last event to.                *)
EndsDrained ==
  /\ main \in {"listenGrpc", "listenWeb"} => fan = "none"
  /\ fan = "ended" => eventsClosed /\ events = <<>> /\ due[Fanout] = {}

Typed == DaemonAssumption /\ FeedAssumption /\ TypeOK /\ OffersAreCounted

-------------------------------------------------------------------------------
(* The daemon and the feed *)

(* Every step of the daemon is a step of the feed or leaves it alone.      *)
LEMMA StepsOfFeed == DaemonAssumption /\ [Next]_vars => [FeedNext]_feedVars
<1> SUFFICES ASSUME DaemonAssumption, [Next]_vars PROVE [FeedNext]_feedVars
  OBVIOUS
<1> USE DEF FeedNext, DaemonAssumption
<1>1. CASE Signal \/ CloseProxy \/ ServeReturns
  BY <1>1 DEF Signal, CloseProxy, ServeReturns
<1>2. CASE MainStep
  BY <1>2 DEF MainStep, ListenGrpc, ListenWeb, ListenProxy, GracefulStop, GracefulStopReturns,
              Shutdown, ShutdownReturns, ShutdownTimesOut
<1>3. CASE FanoutStep
  BY <1>3 DEF FanoutStep, PublishNext, RangeEnds, PublishTo
<1>4. ASSUME NEW h \in Handlers, Accept(h) \/ Return(h) PROVE UNCHANGED feedVars
  BY <1>4 DEF Accept, Return, Emit, EmitPanics, ReturnError
<1>5. ASSUME NEW v \in Viewers, Open(v) \/ Sent(v) \/ SendRefused(v) \/ Disconnect(v)
      PROVE  UNCHANGED feedVars
  BY <1>5 DEF Open, Sent, SendRefused, Disconnect
<1>6. ASSUME NEW v \in Viewers, SessionStep(v) PROVE [FeedNext]_feedVars
  BY <1>6 DEF SessionStep, Subscribe, Receive, SendFails, SeesDone, Unsubscribe
<1>7. CASE Ended \/ UNCHANGED vars
  BY <1>7 DEF Ended, vars
<1> QED BY <1>1, <1>2, <1>3, <1>4, <1>5, <1>6, <1>7 DEF Next

(* The daemon runs the broker's feed as EventFeed says it may be run, with *)
(* the fan-out as its only publisher and one subscription per viewer: what *)
(* is proved of the broker's feeds holds of the viewers'.                  *)
THEOREM RunsTheFeed == Safety => FeedSafety
<1>1. Init => FeedInit
  BY DEF Init
<1>2. DaemonAssumption /\ [Next]_vars => [FeedNext]_feedVars
  BY StepsOfFeed
<1> QED BY <1>1, <1>2, DaemonAssumption, PTL DEF Safety, FeedSafety

(* Steps of the feed keep its types. *)
LEMMA FeedTypes ==
  /\ DaemonAssumption /\ FeedAssumption /\ FeedTypeOK /\ OffersAreCounted
  /\ [FeedNext]_feedVars
  => FeedTypeOK' /\ OffersAreCounted'
<1> SUFFICES ASSUME DaemonAssumption, FeedAssumption, FeedTypeOK, OffersAreCounted,
                    [FeedNext]_feedVars
             PROVE  FeedTypeOK' /\ OffersAreCounted'
  OBVIOUS
<1> USE DEF FeedTypeOK, OffersAreCounted, DaemonAssumption, FeedAssumption
<1>1. ASSUME NEW s \in Subscribers, Join(s) PROVE FeedTypeOK' /\ OffersAreCounted'
  BY <1>1 DEF Join
<1>2. ASSUME NEW s \in Subscribers, Leave(s) PROVE FeedTypeOK' /\ OffersAreCounted'
  BY <1>2 DEF Leave
<1>3. ASSUME NEW s \in Subscribers, Take(s) PROVE FeedTypeOK' /\ OffersAreCounted'
  <2>1. inbox[s] \in Seq(Event) /\ inbox[s] # <<>>
    BY <1>3 DEF Take
  <2>2. Head(inbox[s]) \in Event /\ Tail(inbox[s]) \in Seq(Event)
    BY <2>1
  <2>3. Append(delivered[s], Head(inbox[s])) \in Seq(Event)
    BY <2>2
  <2> QED BY <1>3, <2>2, <2>3 DEF Take
<1>4. CASE StartPublish(Fanout)
  BY <1>4 DEF StartPublish
<1>5. ASSUME NEW s \in Subscribers, Offer(Fanout, s) PROVE FeedTypeOK' /\ OffersAreCounted'
  <2>1. [pub |-> Fanout, seq |-> count[Fanout]] \in Event
    BY <1>5 DEF Offer, Event
  <2>2. Append(inbox[s], [pub |-> Fanout, seq |-> count[Fanout]]) \in Seq(Event)
    BY <2>1
  <2>3. inbox' \in [Subscribers -> Seq(Event)]
    BY <1>5, <2>2 DEF Offer
  <2> QED BY <1>5, <2>3 DEF Offer
<1>6. CASE UNCHANGED feedVars
  BY <1>6 DEF feedVars
<1> QED BY <1>1, <1>2, <1>3, <1>4, <1>5, <1>6 DEF FeedNext

-------------------------------------------------------------------------------
(* Types *)

(* What TypeOK says of the flags. *)
Flags ==
  /\ ctxDone \in BOOLEAN /\ eventsClosed \in BOOLEAN
  /\ connected \in [Viewers -> BOOLEAN]

(* What TypeOK says of everything but the flags and the feed. *)
OwnTypes ==
  /\ main \in {"listenGrpc", "listenWeb", "listenProxy", "serve", "stopGrpc", "graceful",
               "returning", "shutdown", "exited", "crashed"}
  /\ proxySrv \in {"none", "serving", "closed"}
  /\ grpcSrv \in {"none", "serving", "draining"}
  /\ webSrv \in {"none", "serving", "draining"}
  /\ events \in Seq(Handlers) /\ Len(events) <= EventBuf
  /\ fan \in {"none", "ranging", "ended"}
  /\ published \in Seq(Handlers) /\ Len(published) = count[Fanout]
  /\ handler \in [Handlers -> {"new", "working", "emitted", "dropped", "failed", "panicked"}]
  /\ session \in [Viewers -> {"new", "opened", "selecting", "sending", "leaving", "ended"}]

LEMMA InitTyped == DaemonAssumption /\ FeedAssumption /\ Init => Typed
<1> SUFFICES ASSUME DaemonAssumption, FeedAssumption, Init PROVE Typed
  OBVIOUS
<1>1. FeedTypeOK /\ OffersAreCounted
  BY DEF Init, FeedInit, FeedTypeOK, OffersAreCounted, DaemonAssumption, FeedAssumption
<1>2. OwnTypes
  BY DEF Init, OwnTypes, FeedInit, DaemonAssumption
<1>3. Flags
  BY Zenon DEF Init, Flags
<1> QED BY <1>1, <1>2, <1>3 DEF Typed, TypeOK, OwnTypes, Flags

(* Flags are only ever set to TRUE or FALSE.                               *)
LEMMA NextFlags == Flags /\ [Next]_vars => Flags'
<1> SUFFICES ASSUME Flags, [Next]_vars PROVE Flags'
  OBVIOUS
<1> USE DEF Flags, netVars, chanVars, fanVars, viewVars
<1>1. CASE Signal \/ CloseProxy \/ ServeReturns
  BY <1>1, Zenon DEF Signal, CloseProxy, ServeReturns
<1>2. CASE MainStep
  BY <1>2, Zenon DEF MainStep, ListenGrpc, ListenWeb, ListenProxy, GracefulStop,
       GracefulStopReturns, Shutdown, ShutdownReturns, ShutdownTimesOut
<1>3. CASE FanoutStep
  BY <1>3, Zenon DEF FanoutStep, PublishNext, RangeEnds, PublishTo
<1>4. ASSUME NEW h \in Handlers, Accept(h) \/ Return(h) PROVE Flags'
  BY <1>4, Zenon DEF Accept, Return, Emit, EmitPanics, ReturnError
<1>5. ASSUME NEW v \in Viewers, Disconnect(v) PROVE Flags'
  <2>1. connected' = [connected EXCEPT ![v] = FALSE] /\ UNCHANGED <<ctxDone, eventsClosed>>
    BY <1>5 DEF Disconnect
  <2>2. connected' \in [Viewers -> BOOLEAN]
    BY <2>1
  <2> QED BY <2>1, <2>2, Zenon
<1>6. ASSUME NEW v \in Viewers, Open(v) \/ Sent(v) \/ SendRefused(v) \/ SessionStep(v) PROVE Flags'
  BY <1>6, Zenon DEF Open, Sent, SendRefused, SessionStep, Subscribe, Receive, SendFails, SeesDone, Unsubscribe
<1>7. CASE Ended \/ UNCHANGED vars
  BY <1>7, Zenon DEF Ended, vars
<1> QED BY <1>1, <1>2, <1>3, <1>4, <1>5, <1>6, <1>7 DEF Next

LEMMA NextTyped == Typed /\ [Next]_vars => Typed'
<1> SUFFICES ASSUME Typed, [Next]_vars PROVE Typed'
  OBVIOUS
<1>1. FeedTypeOK' /\ OffersAreCounted'
  BY StepsOfFeed, FeedTypes DEF Typed, TypeOK
<1>2. OwnTypes'
  <2> OwnTypes /\ FeedTypeOK /\ DaemonAssumption
    BY DEF Typed, TypeOK, OwnTypes
  <2> USE DEF OwnTypes, feedVars, netVars, chanVars, fanVars, viewVars
  <2>1. CASE Signal \/ CloseProxy \/ ServeReturns
    BY <2>1 DEF Signal, CloseProxy, ServeReturns
  <2>2. CASE MainStep
    BY <2>2 DEF MainStep, ListenGrpc, ListenWeb, ListenProxy, GracefulStop, GracefulStopReturns,
                Shutdown, ShutdownReturns, ShutdownTimesOut
  <2>3. CASE PublishNext
    <3>1. events # <<>> /\ published' = Append(published, Head(events)) /\ events' = Tail(events)
      BY <2>3 DEF PublishNext
    <3>2. Head(events) \in Handlers /\ Tail(events) \in Seq(Handlers)
          /\ Len(Tail(events)) <= EventBuf
      BY <3>1 DEF DaemonAssumption
    <3>3. published' \in Seq(Handlers) /\ Len(published') = Len(published) + 1
      BY <3>1, <3>2
    <3>4. count'[Fanout] = count[Fanout] + 1
      BY <2>3 DEF PublishNext, StartPublish, FeedTypeOK, DaemonAssumption
    <3> QED BY <2>3, <3>1, <3>2, <3>3, <3>4 DEF PublishNext
  <2>4. CASE RangeEnds
    BY <2>4 DEF RangeEnds
  <2>5. ASSUME NEW v \in Viewers, PublishTo(v) PROVE OwnTypes'
    BY <2>5 DEF PublishTo, Offer
  <2>6. ASSUME NEW h \in Handlers, Emit(h) PROVE OwnTypes'
    <3>1. Append(events, h) \in Seq(Handlers) /\ Len(Append(events, h)) = Len(events) + 1
      OBVIOUS
    <3>2. EventBuf \in Nat /\ Len(events) \in Nat
      BY DEF DaemonAssumption
    <3>3. CASE Len(events) < EventBuf
      <4>1. events' = Append(events, h) /\ handler' = [handler EXCEPT ![h] = "emitted"]
        BY <2>6, <3>3 DEF Emit
      <4> QED BY <2>6, <3>1, <3>2, <3>3, <4>1 DEF Emit
    <3>4. CASE ~(Len(events) < EventBuf)
      <4>1. events' = events /\ handler' = [handler EXCEPT ![h] = "dropped"]
        BY <2>6, <3>4 DEF Emit
      <4> QED BY <2>6, <4>1 DEF Emit
    <3> QED BY <3>3, <3>4
  <2>7. ASSUME NEW h \in Handlers, Accept(h) \/ EmitPanics(h) \/ ReturnError(h) PROVE OwnTypes'
    BY <2>7 DEF Accept, EmitPanics, ReturnError
  <2>8. ASSUME NEW v \in Viewers, Open(v) \/ Sent(v) \/ SendRefused(v) \/ Disconnect(v)
        PROVE  OwnTypes'
    BY <2>8 DEF Open, Sent, SendRefused, Disconnect
  <2>9. ASSUME NEW v \in Viewers, SessionStep(v) PROVE OwnTypes'
    BY <2>9 DEF SessionStep, Subscribe, Receive, SendFails, SeesDone, Unsubscribe,
                Join, Take, Leave
  <2>10. CASE Ended \/ UNCHANGED vars
    BY <2>10 DEF Ended, vars
  <2> QED BY <2>1, <2>2, <2>3, <2>4, <2>5, <2>6, <2>7, <2>8, <2>9, <2>10
          DEF Next, FanoutStep, Return
<1>3. Flags'
  BY NextFlags DEF Typed, TypeOK, Flags
<1>4. DaemonAssumption' /\ FeedAssumption'
  BY DEF Typed, DaemonAssumption, FeedAssumption
<1> QED BY <1>1, <1>2, <1>3, <1>4, Zenon DEF Typed, TypeOK, OwnTypes, Flags

LEMMA AlwaysTyped == Safety => []Typed
<1>1. DaemonAssumption /\ FeedAssumption /\ Init => Typed
  BY InitTyped
<1> QED BY <1>1, NextTyped, DaemonAssumption, FeedAssumption, PTL DEF Safety

(* The state of the daemon stays well formed; in particular rp.events      *)
(* never holds more than its capacity, and the fan-out has published as    *)
(* many events as it has begun to publish.                                 *)
THEOREM TypeCorrect == Safety => []TypeOK
BY AlwaysTyped, PTL DEF Typed

-------------------------------------------------------------------------------
(* Subscriptions *)

LEMMA NextSubscriptions == Typed /\ SubscriptionPerCall /\ [Next]_vars => SubscriptionPerCall'
<1> SUFFICES ASSUME Typed, SubscriptionPerCall, [Next]_vars PROVE SubscriptionPerCall'
  OBVIOUS
<1> status \in [Viewers -> {"none", "open", "left"}]
    /\ session \in [Viewers -> {"new", "opened", "selecting", "sending", "leaving", "ended"}]
  BY DEF Typed, TypeOK, FeedTypeOK, DaemonAssumption
<1> USE DEF SubscriptionPerCall, feedVars, viewVars
<1>1. CASE Signal \/ CloseProxy \/ ServeReturns
  BY <1>1 DEF Signal, CloseProxy, ServeReturns
<1>2. CASE MainStep
  BY <1>2 DEF MainStep, ListenGrpc, ListenWeb, ListenProxy, GracefulStop, GracefulStopReturns,
              Shutdown, ShutdownReturns, ShutdownTimesOut
<1>3. CASE FanoutStep
  BY <1>3 DEF FanoutStep, PublishNext, RangeEnds, PublishTo, StartPublish, Offer
<1>4. ASSUME NEW h \in Handlers, Accept(h) \/ Return(h) PROVE SubscriptionPerCall'
  BY <1>4 DEF Accept, Return, Emit, EmitPanics, ReturnError
<1>5. ASSUME NEW v \in Viewers, Open(v) \/ Sent(v) \/ SendRefused(v) \/ Disconnect(v)
      PROVE  SubscriptionPerCall'
  BY <1>5 DEF Open, Sent, SendRefused, Disconnect
<1>6. ASSUME NEW v \in Viewers, Subscribe(v) PROVE SubscriptionPerCall'
  BY <1>6 DEF Subscribe, Join
<1>7. ASSUME NEW v \in Viewers, Unsubscribe(v) PROVE SubscriptionPerCall'
  BY <1>7 DEF Unsubscribe, Leave
<1>8. ASSUME NEW v \in Viewers, Receive(v) \/ SendFails(v) \/ SeesDone(v)
      PROVE  SubscriptionPerCall'
  BY <1>8 DEF Receive, SendFails, SeesDone, Take
<1>9. CASE Ended \/ UNCHANGED vars
  BY <1>9 DEF Ended, vars
<1> QED BY <1>1, <1>2, <1>3, <1>4, <1>5, <1>6, <1>7, <1>8, <1>9 DEF Next, SessionStep

(* Whatever ends a Watch or SSE call, it has a subscription exactly while  *)
(* it may receive, and leaves none behind.                                 *)
THEOREM NoSubscriptionOutlivesItsCall == Safety => []SubscriptionPerCall
<1>1. DaemonAssumption /\ Init => SubscriptionPerCall
  BY DEF Init, FeedInit, SubscriptionPerCall, DaemonAssumption
<1> QED BY <1>1, NextSubscriptions, AlwaysTyped, DaemonAssumption, PTL DEF Safety

-------------------------------------------------------------------------------
(* Signals and panics *)

LEMMA NextPanic ==
  ClosedBySignal /\ PanicOnlyAfterSignal /\ Typed /\ [Next]_vars
  => ClosedBySignal' /\ PanicOnlyAfterSignal'
<1> SUFFICES ASSUME ClosedBySignal, PanicOnlyAfterSignal, Typed, [Next]_vars
             PROVE  ClosedBySignal' /\ PanicOnlyAfterSignal'
  OBVIOUS
<1> handler \in [Handlers -> {"new", "working", "emitted", "dropped", "failed", "panicked"}]
  BY DEF Typed, TypeOK
<1> USE DEF ClosedBySignal, PanicOnlyAfterSignal, netVars, chanVars
<1>1. CASE Signal
  BY <1>1 DEF Signal
<1>2. CASE CloseProxy
  BY <1>2 DEF CloseProxy
<1>3. CASE ServeReturns
  BY <1>3 DEF ServeReturns
<1>4. CASE MainStep
  BY <1>4 DEF MainStep, ListenGrpc, ListenWeb, ListenProxy, GracefulStop, GracefulStopReturns,
              Shutdown, ShutdownReturns, ShutdownTimesOut
<1>5. CASE FanoutStep
  BY <1>5 DEF FanoutStep, PublishNext, RangeEnds, PublishTo
<1>6. ASSUME NEW h \in Handlers, Accept(h) \/ Emit(h) \/ ReturnError(h)
      PROVE  ClosedBySignal' /\ PanicOnlyAfterSignal'
  BY <1>6 DEF Accept, Emit, ReturnError
<1>7. ASSUME NEW h \in Handlers, EmitPanics(h)
      PROVE  ClosedBySignal' /\ PanicOnlyAfterSignal'
  BY <1>7 DEF EmitPanics
<1>8. ASSUME NEW v \in Viewers, Open(v) \/ SessionStep(v) \/ Sent(v) \/ SendRefused(v) \/ Disconnect(v)
      PROVE  ClosedBySignal' /\ PanicOnlyAfterSignal'
  BY <1>8 DEF Open, Sent, SendRefused, Disconnect, SessionStep, Subscribe, Receive, SendFails,
              SeesDone, Unsubscribe
<1>9. CASE Ended \/ UNCHANGED vars
  BY <1>9 DEF Ended, vars
<1> QED BY <1>1, <1>2, <1>3, <1>4, <1>5, <1>6, <1>7, <1>8, <1>9 DEF Next, Return

LEMMA AlwaysClosedBySignal == Safety => [](ClosedBySignal /\ PanicOnlyAfterSignal)
<1>1. Init => ClosedBySignal /\ PanicOnlyAfterSignal
  BY DEF Init, ClosedBySignal, PanicOnlyAfterSignal
<1> QED BY <1>1, NextPanic, AlwaysTyped, PTL DEF Safety

(* While nobody has signalled http-tapd to stop, no call sends on the      *)
(* closed event channel, also when Serve fails.                            *)
THEOREM NoPanicBeforeSignal == Safety => []PanicOnlyAfterSignal
BY AlwaysClosedBySignal, PTL

-------------------------------------------------------------------------------
(* The log *)

(* Publishing the head of the channel moves it within the log. *)
LEMMA HeadMoves ==
  ASSUME NEW S, NEW s \in Seq(S), NEW t \in Seq(S), t # <<>>
  PROVE  Append(s, Head(t)) \o Tail(t) = s \o t
<1>1. Head(t) \in S /\ Tail(t) \in Seq(S) /\ Len(Tail(t)) = Len(t) - 1
      /\ \A i \in 1..Len(Tail(t)) : Tail(t)[i] = t[i + 1]
  OBVIOUS
<1>2. Append(s, Head(t)) \in Seq(S) /\ Len(Append(s, Head(t))) = Len(s) + 1
  BY <1>1
<1>3. Append(s, Head(t)) \o Tail(t) \in Seq(S) /\ s \o t \in Seq(S)
  BY <1>1, <1>2
<1>4. Len(Append(s, Head(t)) \o Tail(t)) = Len(s \o t)
  BY <1>1, <1>2
<1>5. ASSUME NEW i \in 1..Len(s \o t)
      PROVE  (Append(s, Head(t)) \o Tail(t))[i] = (s \o t)[i]
  BY <1>1, <1>2
<1> QED BY <1>3, <1>4, <1>5, SeqEqual

(* A captured event goes to the end of the log. *)
LEMMA AppendMoves ==
  ASSUME NEW S, NEW s \in Seq(S), NEW t \in Seq(S), NEW e \in S
  PROVE  s \o Append(t, e) = Append(s \o t, e)
<1>1. s \o Append(t, e) \in Seq(S) /\ Append(s \o t, e) \in Seq(S)
  OBVIOUS
<1>2. Len(s \o Append(t, e)) = Len(Append(s \o t, e))
  OBVIOUS
<1>3. ASSUME NEW i \in 1..Len(s \o Append(t, e))
      PROVE  (s \o Append(t, e))[i] = Append(s \o t, e)[i]
  OBVIOUS
<1> QED BY <1>1, <1>2, <1>3, SeqEqual

(* The handler gets its event into rp.events.                              *)
Captures(h) ==
  /\ handler[h] = "working" /\ handler' = [handler EXCEPT ![h] = "emitted"]
  /\ Log' = Append(Log, h)

(* Handlers that come, fail, drop and panic: the same ones have emitted.   *)
SameEmitted == \A h \in Handlers : handler'[h] = "emitted" <=> handler[h] = "emitted"

(* The log grows by the event that is captured, and nothing else changes   *)
(* it: publishing and closing do not.                                      *)
LEMMA LogSteps ==
  Typed /\ [Next]_vars => (Log' = Log /\ SameEmitted) \/ \E h \in Handlers : Captures(h)
<1> SUFFICES ASSUME Typed, [Next]_vars
             PROVE  (Log' = Log /\ SameEmitted) \/ \E h \in Handlers : Captures(h)
  OBVIOUS
<1> events \in Seq(Handlers) /\ published \in Seq(Handlers)
    /\ handler \in [Handlers -> {"new", "working", "emitted", "dropped", "failed", "panicked"}]
  BY DEF Typed, TypeOK
<1> USE DEF Log, SameEmitted, chanVars, fanVars
<1>1. CASE Signal \/ CloseProxy \/ ServeReturns
  BY <1>1 DEF Signal, CloseProxy, ServeReturns
<1>2. CASE MainStep
  BY <1>2 DEF MainStep, ListenGrpc, ListenWeb, ListenProxy, GracefulStop, GracefulStopReturns,
              Shutdown, ShutdownReturns, ShutdownTimesOut
<1>3. CASE PublishNext
  BY <1>3, HeadMoves DEF PublishNext
<1>4. ASSUME NEW v \in Viewers, RangeEnds \/ PublishTo(v) PROVE Log' = Log /\ SameEmitted
  BY <1>4 DEF RangeEnds, PublishTo
<1>5. ASSUME NEW h \in Handlers, Emit(h)
      PROVE  (Log' = Log /\ SameEmitted) \/ Captures(h)
  <2>1. CASE Len(events) < EventBuf
    <3>1. events' = Append(events, h) /\ published' = published /\ handler[h] = "working"
          /\ handler' = [handler EXCEPT ![h] = "emitted"]
      BY <1>5, <2>1 DEF Emit
    <3> QED BY <3>1, AppendMoves DEF Captures
  <2>2. CASE ~(Len(events) < EventBuf)
    BY <1>5, <2>2 DEF Emit
  <2> QED BY <2>1, <2>2
<1>6. ASSUME NEW h \in Handlers, Accept(h) \/ EmitPanics(h) \/ ReturnError(h)
      PROVE  Log' = Log /\ SameEmitted
  BY <1>6 DEF Accept, EmitPanics, ReturnError
<1>7. ASSUME NEW v \in Viewers, Open(v) \/ SessionStep(v) \/ Sent(v) \/ SendRefused(v) \/ Disconnect(v)
      PROVE  Log' = Log /\ SameEmitted
  BY <1>7 DEF Open, Sent, SendRefused, Disconnect, SessionStep, Subscribe, Receive, SendFails,
              SeesDone, Unsubscribe
<1>8. CASE Ended \/ UNCHANGED vars
  BY <1>8 DEF Ended, vars
<1>9. CASE RangeEnds
  BY <1>9 DEF RangeEnds
<1> QED BY <1>1, <1>2, <1>3, <1>4, <1>5, <1>6, <1>7, <1>8, <1>9 DEF Next, FanoutStep, Return

LEMMA NextLog == Typed /\ LogIsEmitted /\ [Next]_vars => LogIsEmitted'
<1> SUFFICES ASSUME Typed, LogIsEmitted, [Next]_vars PROVE LogIsEmitted'
  OBVIOUS
<1>1. Log \in Seq(Handlers) /\ handler \in [Handlers -> {"new", "working", "emitted", "dropped", "failed", "panicked"}]
  BY DEF Typed, TypeOK, Log
<1>2. CASE Log' = Log /\ SameEmitted
  BY <1>2 DEF LogIsEmitted, SameEmitted
<1>3. ASSUME NEW h \in Handlers, Captures(h) PROVE LogIsEmitted'
  <2>1. \A i \in 1..Len(Log) : Log[i] # h
    BY <1>3 DEF Captures, LogIsEmitted
  <2>2. Len(Log') = Len(Log) + 1 /\ Log'[Len(Log) + 1] = h
        /\ \A i \in 1..Len(Log) : Log'[i] = Log[i]
    BY <1>1, <1>3 DEF Captures
  <2>3. \A i \in 1..Len(Log') : i = Len(Log) + 1 \/ i \in 1..Len(Log)
    BY <1>1, <2>2
  <2>4. \A i, j \in 1..Len(Log') : Log'[i] = Log'[j] => i = j
    BY <2>1, <2>2, <2>3 DEF LogIsEmitted
  <2>5. ASSUME NEW g \in Handlers
        PROVE  handler'[g] = "emitted" <=> \E i \in 1..Len(Log') : Log'[i] = g
    <3>1. CASE g = h
      <4>1. Len(Log) + 1 \in 1..Len(Log')
        BY <1>1, <2>2
      <4> QED BY <1>1, <1>3, <2>2, <3>1, <4>1 DEF Captures
    <3>2. CASE g # h
      <4>1. handler'[g] = handler[g]
        BY <1>1, <1>3, <3>2 DEF Captures
      <4>2. (\E i \in 1..Len(Log') : Log'[i] = g) <=> (\E i \in 1..Len(Log) : Log[i] = g)
        BY <1>1, <2>2, <2>3, <3>2
      <4> QED BY <4>1, <4>2 DEF LogIsEmitted
    <3> QED BY <3>1, <3>2
  <2> QED BY <2>4, <2>5 DEF LogIsEmitted
<1> QED BY <1>2, <1>3, LogSteps

LEMMA AlwaysLog == Safety => []LogIsEmitted
<1>1. Init => LogIsEmitted
  <2> SUFFICES ASSUME Init PROVE LogIsEmitted
    OBVIOUS
  <2>1. Log = <<>>
    BY DEF Init, Log
  <2> QED BY <2>1 DEF Init, LogIsEmitted
<1> QED BY <1>1, NextLog, AlwaysTyped, PTL DEF Safety

(* The channel and the published events are the two parts of the log. *)
LEMMA LogParts ==
  Typed => /\ Log \in Seq(Handlers) /\ Len(Log) = Len(published) + Len(events)
           /\ InChannel \cup Published = {Log[i] : i \in 1..Len(Log)}
<1> SUFFICES ASSUME Typed
             PROVE  /\ Log \in Seq(Handlers) /\ Len(Log) = Len(published) + Len(events)
                    /\ InChannel \cup Published = {Log[i] : i \in 1..Len(Log)}
  OBVIOUS
<1>1. events \in Seq(Handlers) /\ published \in Seq(Handlers)
  BY DEF Typed, TypeOK
<1>2. /\ Log \in Seq(Handlers) /\ Len(Log) = Len(published) + Len(events)
      /\ \A i \in 1..Len(published) : i \in 1..Len(Log) /\ Log[i] = published[i]
      /\ \A i \in 1..Len(events) :
           i + Len(published) \in 1..Len(Log) /\ Log[i + Len(published)] = events[i]
      /\ \A i \in 1..Len(Log) : i \notin 1..Len(published) =>
           i - Len(published) \in 1..Len(events) /\ Log[i] = events[i - Len(published)]
  BY <1>1 DEF Log
<1>3. InChannel \cup Published \subseteq {Log[i] : i \in 1..Len(Log)}
  <2>1. ASSUME NEW i \in 1..Len(events) PROVE events[i] \in {Log[j] : j \in 1..Len(Log)}
    BY <1>2
  <2>2. ASSUME NEW i \in 1..Len(published) PROVE published[i] \in {Log[j] : j \in 1..Len(Log)}
    BY <1>2
  <2> QED BY <2>1, <2>2 DEF InChannel, Published
<1>4. ASSUME NEW i \in 1..Len(Log) PROVE Log[i] \in InChannel \cup Published
  <2>1. CASE i \in 1..Len(published)
    BY <1>2, <2>1 DEF Published
  <2>2. CASE i \notin 1..Len(published)
    BY <1>2, <2>2 DEF InChannel
  <2> QED BY <2>1, <2>2
<1> QED BY <1>2, <1>3, <1>4

(* A sequence without repeats has as many elements as it is long. *)
LEMMA CountDistinct ==
  ASSUME NEW S, NEW s \in Seq(S), \A i, j \in 1..Len(s) : s[i] = s[j] => i = j
  PROVE  Cardinality({s[i] : i \in 1..Len(s)}) = Len(s)
<1> DEFINE T == {s[i] : i \in 1..Len(s)}
<1>1. s \in [1..Len(s) -> T] /\ Len(s) \in Nat
  OBVIOUS
<1>2. s \in Surjection(1..Len(s), T) /\ s \in Injection(1..Len(s), T)
  BY <1>1 DEF Surjection, Injection, IsInjective
<1>3. IsFiniteSet(1..Len(s)) /\ Cardinality(1..Len(s)) = Len(s)
  <2>1. 1 \in Int /\ Len(s) \in Int
    BY <1>1
  <2>2. Cardinality(1..Len(s)) = IF 1 > Len(s) THEN 0 ELSE Len(s) - 1 + 1
    BY <2>1, FS_Interval
  <2>3. IsFiniteSet(1..Len(s))
    BY <2>1, FS_Interval
  <2> QED BY <1>1, <2>2, <2>3
<1> QED BY <1>2, <1>3, FS_Surjection

(* Every event that a handler got into rp.events is in the channel or has  *)
(* been published, and once.                                               *)
THEOREM NothingLostOrRepeated == Safety => []EmittedOnce
<1>1. Typed /\ LogIsEmitted => EmittedOnce
  <2> SUFFICES ASSUME Typed, LogIsEmitted PROVE EmittedOnce
    OBVIOUS
  <2>1. {h \in Handlers : handler[h] = "emitted"} = {Log[i] : i \in 1..Len(Log)}
    BY LogParts DEF LogIsEmitted
  <2>2. Cardinality({Log[i] : i \in 1..Len(Log)}) = Len(Log)
    BY LogParts, CountDistinct DEF LogIsEmitted
  <2>3. Len(events) \in Nat /\ Len(published) \in Nat
    BY DEF Typed, TypeOK
  <2>4. {Log[i] : i \in 1..Len(Log)} = InChannel \cup Published
        /\ Len(Log) = Len(published) + Len(events)
    BY LogParts
  <2>5. Cardinality(InChannel \cup Published) = Len(events) + Len(published)
    <3>1. Cardinality(InChannel \cup Published) = Len(Log)
      BY <2>2, <2>4, Zenon
    <3> QED BY <2>3, <2>4, <3>1
  <2> QED BY <2>1, <2>4, <2>5, Zenon DEF EmittedOnce
<1> QED BY <1>1, AlwaysLog, AlwaysTyped, PTL

-------------------------------------------------------------------------------
(* The end of the fan-out *)

LEMMA NextDrained == Typed /\ EndsDrained /\ [Next]_vars => EndsDrained'
<1> SUFFICES ASSUME Typed, EndsDrained, [Next]_vars PROVE EndsDrained'
  OBVIOUS
<1> due \in [Publishers -> SUBSET Viewers] /\ Publishers = {Fanout}
  BY DEF Typed, TypeOK, FeedTypeOK, DaemonAssumption
<1> USE DEF EndsDrained, feedVars, chanVars, fanVars
<1>1. CASE Signal \/ CloseProxy
  BY <1>1 DEF Signal, CloseProxy
<1>2. CASE ServeReturns
  BY <1>2 DEF ServeReturns
<1>3. CASE MainStep
  BY <1>3 DEF MainStep, ListenGrpc, ListenWeb, ListenProxy, GracefulStop, GracefulStopReturns,
              Shutdown, ShutdownReturns, ShutdownTimesOut
<1>4. CASE PublishNext
  BY <1>4 DEF PublishNext
<1>5. CASE RangeEnds
  BY <1>5 DEF RangeEnds
<1>6. ASSUME NEW v \in Viewers, PublishTo(v) PROVE EndsDrained'
  BY <1>6 DEF PublishTo, Offer
<1>7. ASSUME NEW h \in Handlers, Accept(h) \/ Return(h) PROVE EndsDrained'
  BY <1>7 DEF Accept, Return, Emit, EmitPanics, ReturnError
<1>8. ASSUME NEW v \in Viewers, Open(v) \/ Sent(v) \/ SendRefused(v) \/ Disconnect(v)
      PROVE  EndsDrained'
  BY <1>8 DEF Open, Sent, SendRefused, Disconnect
<1>9. ASSUME NEW v \in Viewers, SessionStep(v) PROVE EndsDrained'
  BY <1>9 DEF SessionStep, Subscribe, Receive, SendFails, SeesDone, Unsubscribe, Join, Take, Leave
<1>10. CASE Ended \/ UNCHANGED vars
  BY <1>10 DEF Ended, vars
<1> QED BY <1>1, <1>2, <1>3, <1>4, <1>5, <1>6, <1>7, <1>8, <1>9, <1>10 DEF Next, FanoutStep

LEMMA AlwaysDrained == Safety => []EndsDrained
<1>1. Init => EndsDrained
  BY DEF Init, EndsDrained
<1> QED BY <1>1, NextDrained, AlwaysTyped, PTL DEF Safety

(* The fan-out ends when every captured event has been published and       *)
(* offered to everybody; closing rp.events loses none.                     *)
THEOREM ShutdownLosesNothing == Safety => []FanoutDrains
<1>1. Typed /\ EmittedOnce /\ EndsDrained => FanoutDrains
  <2> SUFFICES ASSUME Typed, EmittedOnce, EndsDrained, fan = "ended" PROVE FanoutDrains
    BY DEF FanoutDrains
  <2>1. InChannel = {}
    BY DEF EndsDrained, InChannel
  <2> QED BY <2>1 DEF EmittedOnce, EndsDrained, FanoutDrains
<1> QED BY <1>1, NothingLostOrRepeated, AlwaysDrained, AlwaysTyped, PTL

-------------------------------------------------------------------------------
(* The handlers of the daemon                                              *)

(* A handler that sends on the channel is done with its exchange, whether  *)
(* the event is queued, is dropped, or meets a closed channel.             *)
StageOf(h) ==
  CASE handler[h] = "new" -> "new"
    [] handler[h] = "working" -> "sent"
    [] handler[h] \in {"emitted", "dropped", "panicked"} -> "emitted"
    [] handler[h] = "failed" -> "failed"

(* Where the log has events of h. *)
Copies(h) == {i \in 1..Len(Log) : Log[i] = h}

(* What h has emitted, read off the log; an event that found the channel   *)
(* full or closed is not there.                                            *)
EventOf(h) ==
  [at |-> Copies(h), lost |-> IF handler[h] \in {"dropped", "panicked"} THEN 1 ELSE 0]

Nothing == [at |-> {}, lost |-> 0]

AsHandler(h) == INSTANCE Handler WITH stage <- StageOf(h), event <- EventOf(h), NoEvent <- Nothing

(* The log has an event of the handlers that have emitted, and the places  *)
(* it has them in only change with the handler.                            *)
LEMMA CopiesFollow ==
  ASSUME NEW h \in Handlers, Typed, LogIsEmitted, [Next]_vars
  PROVE  /\ Copies(h) = {} <=> handler[h] # "emitted"
         /\ Copies(h)' = {} <=> handler'[h] # "emitted"
         /\ handler'[h] = handler[h] => Copies(h)' = Copies(h)
<1>1. Copies(h) = {} <=> handler[h] # "emitted"
  BY DEF Copies, LogIsEmitted
<1>2. LogIsEmitted'
  BY NextLog
<1>3. Copies(h)' = {} <=> handler'[h] # "emitted"
  BY <1>2 DEF Copies, LogIsEmitted
<1>4. ASSUME handler'[h] = handler[h] PROVE Copies(h)' = Copies(h)
  <2>1. CASE Log' = Log
    BY <2>1 DEF Copies
  <2>2. ASSUME NEW g \in Handlers, Captures(g) PROVE Copies(h)' = Copies(h)
    <3>1. Log \in Seq(Handlers)
          /\ handler \in [Handlers -> {"new", "working", "emitted", "dropped", "failed", "panicked"}]
      BY DEF Typed, TypeOK, Log
    <3>2. g # h
      BY <1>4, <2>2, <3>1 DEF Captures
    <3>3. Len(Log') = Len(Log) + 1 /\ Log'[Len(Log) + 1] = g
          /\ \A i \in 1..Len(Log) : Log'[i] = Log[i]
      BY <2>2, <3>1 DEF Captures
    <3>4. \A i \in 1..Len(Log') : i = Len(Log) + 1 \/ i \in 1..Len(Log)
      BY <3>1, <3>3
    <3>5. \A i \in 1..Len(Log) : i \in 1..Len(Log')
      BY <3>1, <3>3
    <3> QED BY <3>2, <3>3, <3>4, <3>5 DEF Copies
  <2> QED BY <2>1, <2>2, LogSteps
<1> QED BY <1>1, <1>3, <1>4

LEMMA NextIsHandlerNext ==
  ASSUME NEW h \in Handlers
  PROVE  Typed /\ LogIsEmitted /\ [Next]_vars
           => [AsHandler(h)!HandlerNext]_<<StageOf(h), EventOf(h)>>
<1> SUFFICES ASSUME Typed, LogIsEmitted, [Next]_vars
             PROVE  \/ AsHandler(h)!HandlerNext
                    \/ UNCHANGED <<StageOf(h), EventOf(h)>>
  OBVIOUS
<1>0. handler \in [Handlers -> {"new", "working", "emitted", "dropped", "failed", "panicked"}]
  BY DEF Typed, TypeOK
<1>1. ASSUME handler'[h] = handler[h] PROVE UNCHANGED <<StageOf(h), EventOf(h)>>
  <2>1. StageOf(h)' = StageOf(h)
    BY <1>1 DEF StageOf
  <2>2. Copies(h)' = Copies(h)
    BY <1>1, CopiesFollow
  <2>3. EventOf(h)' = EventOf(h)
    BY <1>1, <2>2 DEF EventOf
  <2> QED BY <2>1, <2>3
<1>2. ASSUME NEW g \in Handlers \ {h}, Accept(g) \/ Return(g) PROVE handler'[h] = handler[h]
  BY <1>0, <1>2 DEF Accept, Return, Emit, EmitPanics, ReturnError
<1>a. ASSUME handler[h] \in {"new", "working", "failed"} PROVE EventOf(h) = Nothing
  <2>1. Copies(h) = {} /\ handler[h] \notin {"dropped", "panicked"}
    BY <1>a, CopiesFollow
  <2> QED BY <2>1 DEF EventOf, Nothing
<1>b. ASSUME handler'[h] \in {"new", "working", "failed"} PROVE EventOf(h)' = Nothing
  <2>1. Copies(h)' = {} /\ handler'[h] \notin {"dropped", "panicked"}
    BY <1>b, CopiesFollow
  <2> QED BY <2>1 DEF EventOf, Nothing
<1>3. CASE Accept(h)
  <2>1. handler[h] = "new" /\ handler'[h] = "working"
    BY <1>0, <1>3 DEF Accept
  <2>2. StageOf(h) = "new" /\ StageOf(h)' = "sent"
    BY <2>1 DEF StageOf
  <2>3. EventOf(h)' = EventOf(h)
    BY <1>a, <1>b, <2>1
  <2> QED BY <2>2, <2>3 DEF AsHandler!HandlerNext, AsHandler!Send
<1>4. CASE ReturnError(h)
  <2>1. handler[h] = "working" /\ handler'[h] = "failed"
    BY <1>0, <1>4 DEF ReturnError
  <2>2. StageOf(h) = "sent" /\ StageOf(h)' = "failed"
    BY <2>1 DEF StageOf
  <2>3. EventOf(h)' = EventOf(h)
    BY <1>a, <1>b, <2>1
  <2> QED BY <2>2, <2>3 DEF AsHandler!HandlerNext, AsHandler!Fail
<1>5. CASE Emit(h) \/ EmitPanics(h)
  <2>1. handler[h] = "working" /\ handler'[h] \in {"emitted", "dropped", "panicked"}
    BY <1>0, <1>5 DEF Emit, EmitPanics
  <2>2. StageOf(h) = "sent" /\ StageOf(h)' = "emitted"
    BY <2>1 DEF StageOf
  <2>3. EventOf(h)' # Nothing
    <3>1. CASE handler'[h] = "emitted"
      <4>1. Copies(h)' # {}
        BY <3>1, CopiesFollow
      <4>2. EventOf(h)'.at # {} /\ Nothing.at = {}
        BY <4>1 DEF EventOf, Nothing
      <4> QED BY <4>2
    <3>2. CASE handler'[h] \in {"dropped", "panicked"}
      <4>1. EventOf(h)'.lost = 1 /\ Nothing.lost = 0
        BY <3>2 DEF EventOf, Nothing
      <4> QED BY <4>1
    <3> QED BY <2>1, <3>1, <3>2
  <2> QED BY <2>2, <2>3 DEF AsHandler!HandlerNext, AsHandler!Emit
<1>6. CASE Signal \/ CloseProxy \/ ServeReturns
  BY <1>1, <1>6 DEF Signal, CloseProxy, ServeReturns
<1>7. CASE MainStep
  BY <1>1, <1>7 DEF MainStep, ListenGrpc, ListenWeb, ListenProxy, GracefulStop,
                    GracefulStopReturns, Shutdown, ShutdownReturns, ShutdownTimesOut
<1>8. CASE FanoutStep
  BY <1>1, <1>8 DEF FanoutStep, PublishNext, RangeEnds, PublishTo
<1>9. ASSUME NEW v \in Viewers,
             Open(v) \/ SessionStep(v) \/ Sent(v) \/ SendRefused(v) \/ Disconnect(v)
      PROVE  handler'[h] = handler[h]
  BY <1>9 DEF Open, SessionStep, Subscribe, Receive, SendFails, SeesDone, Unsubscribe,
              Sent, SendRefused, Disconnect
<1>10. CASE Ended \/ UNCHANGED vars
  BY <1>1, <1>10 DEF Ended, vars
<1> QED BY <1>1, <1>2, <1>3, <1>4, <1>5, <1>6, <1>7, <1>8, <1>9, <1>10 DEF Next, Return

(* Each handler of the daemon is a call as Handler.tla says, which         *)
(* ServeHTTP and Replay implement, with what it emits read off the queue   *)
(* and what the fan-out has published: it captures nothing before it is    *)
(* accepted, gets at most one event in, which stays where it is in the     *)
(* order of events, and nothing of it comes later; so its event can be     *)
(* known by it.                                                            *)
THEOREM HandlersEmitOnce ==
  \A h \in Handlers :
    Safety => AsHandler(h)!HandlerSpec /\ [](\A i, j \in Copies(h) : i = j)
<1> SUFFICES ASSUME NEW h \in Handlers
             PROVE  Safety => AsHandler(h)!HandlerSpec /\ [](\A i, j \in Copies(h) : i = j)
  OBVIOUS
<1>1. Init => AsHandler(h)!HandlerInit
  <2> SUFFICES ASSUME Init PROVE AsHandler(h)!HandlerInit
    OBVIOUS
  <2>1. handler[h] = "new" /\ Log = <<>>
    BY DEF Init, Log
  <2>2. Copies(h) = {}
    BY <2>1 DEF Copies
  <2>3. StageOf(h) = "new" /\ handler[h] \notin {"dropped", "panicked"}
    BY <2>1 DEF StageOf
  <2>4. EventOf(h) = Nothing
    BY <2>2, <2>3 DEF EventOf, Nothing
  <2> QED BY <2>3, <2>4 DEF AsHandler!HandlerInit
<1>2. Typed /\ LogIsEmitted /\ [Next]_vars
        => [AsHandler(h)!HandlerNext]_<<StageOf(h), EventOf(h)>>
  BY NextIsHandlerNext
<1>3. AsHandler(h)!HandlerInit /\ [][AsHandler(h)!HandlerNext]_<<StageOf(h), EventOf(h)>>
        => AsHandler(h)!HandlerSpec
  BY DEF AsHandler!HandlerSpec, AsHandler!handlerVars
<1>4. LogIsEmitted => \A i, j \in Copies(h) : i = j
  BY DEF LogIsEmitted, Copies
<1> QED BY <1>1, <1>2, <1>3, <1>4, AlwaysTyped, AlwaysLog, PTL DEF Safety

===============================================================================

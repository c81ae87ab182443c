-------------------------------- MODULE Daemon --------------------------------
(***************************************************************************)
(* http-tapd: the goroutines that cmd/http-tapd/main.go starts, around the *)
(* proxy's event channel and the broker.                                   *)
(*                                                                         *)
(*   ServeHTTP, Replay --> rp.events --> fan-out goroutine --> broker      *)
(*                                               --> Watch and SSE handlers *)
(*                                                                         *)
(* The broker is the abstract feed it implements (Broker refines           *)
(* EventFeed): one publisher, the fan-out goroutine, and one subscription  *)
(* per viewer.  An event is identified with the handler that captured it,  *)
(* since a handler emits at most one.                                      *)
(***************************************************************************)
EXTENDS EventFeed, FiniteSets

CONSTANTS
  Requests,     \* calls of ReverseProxy.ServeHTTP
  GrpcReplays,  \* calls of tapService.Replay
  WebReplays,   \* calls of Server.handleReplay that reach proxy.Replay
  Watchers,     \* calls of tapService.Watch
  Streams,      \* calls of Server.handleSSE
  Fanout,       \* the goroutine that ranges over p.Events()
  EventBuf      \* capacity of rp.events (256 in New)

Handlers == Requests \cup GrpcReplays \cup WebReplays
Viewers == Watchers \cup Streams

ASSUME DaemonAssumption ==
  /\ Publishers = {Fanout}
  /\ Subscribers = Viewers
  /\ EventBuf \in Nat \ {0}
  /\ IsFiniteSet(Handlers) /\ MaxPublish = Cardinality(Handlers)

VARIABLES
  main,          \* where run() is
  ctxDone,       \* the context of signal.NotifyContext is cancelled
  proxySrv,      \* rp.server: "none", "serving", "closed"
  grpcSrv,       \* grpcServer: "none", "serving", "draining"
  webSrv,        \* webSrv.httpServer: "none", "serving", "draining"
  events,        \* what rp.events holds
  eventsClosed,  \* rp.events is closed
  fan,           \* the fan-out goroutine: "none", "ranging", "ended"
  published,     \* handlers whose event the fan-out has published, in order
  handler,       \* handler[h]: where the call h is
  session,       \* session[v]: where the handler of viewer v is
  connected      \* connected[v]: the client of v has not gone away

netVars == <<ctxDone, proxySrv, grpcSrv, webSrv>>
chanVars == <<events, eventsClosed>>
fanVars == <<fan, published>>
viewVars == <<session, connected>>
vars == <<feedVars, main, netVars, chanVars, fanVars, handler, viewVars>>

Init ==
  /\ FeedInit
  /\ main = "listenGrpc"
  /\ ctxDone = FALSE
  /\ proxySrv = "none" /\ grpcSrv = "none" /\ webSrv = "none"
  /\ events = <<>> /\ eventsClosed = FALSE
  /\ fan = "none" /\ published = <<>>
  /\ handler = [h \in Handlers |-> "new"]
  /\ session = [v \in Viewers |-> "new"]
  /\ connected = [v \in Viewers |-> TRUE]

Running == main \notin {"exited", "crashed"}

-------------------------------------------------------------------------------
(* run() and the goroutines of ListenAndServe *)

(* The first signal cancels ctx; NotifyContext swallows the later ones.    *)
Signal ==
  /\ Running /\ ~ctxDone
  /\ ctxDone' = TRUE
  /\ UNCHANGED <<feedVars, main, proxySrv, grpcSrv, webSrv, chanVars, fanVars, handler, viewVars>>

ListenGrpc ==
  /\ main = "listenGrpc"
  /\ \/ main' = "listenWeb" /\ grpcSrv' = "serving"
     \/ main' = "exited" /\ grpcSrv' = grpcSrv
  /\ UNCHANGED <<feedVars, ctxDone, proxySrv, webSrv, chanVars, fanVars, handler, viewVars>>

(* The web server is optional.  Past it, run() starts the fan-out.         *)
ListenWeb ==
  /\ main = "listenWeb"
  /\ \/ main' = "listenProxy" /\ webSrv' \in {"none", "serving"} /\ fan' = "ranging"
     \/ main' = "exited" /\ webSrv' = webSrv /\ fan' = fan
  /\ UNCHANGED <<feedVars, ctxDone, proxySrv, grpcSrv, chanVars, published, handler, viewVars>>

(* On failure run() returns at once, through its deferred Shutdown.        *)
ListenProxy ==
  /\ main = "listenProxy"
  /\ \/ main' = "serve" /\ proxySrv' = "serving"
     \/ main' = "returning" /\ proxySrv' = proxySrv
  /\ UNCHANGED <<feedVars, ctxDone, grpcSrv, webSrv, chanVars, fanVars, handler, viewVars>>

(* go func() { <-ctx.Done(); rp.server.Close() }()                         *)
CloseProxy ==
  /\ Running
  /\ proxySrv = "serving" /\ ctxDone
  /\ proxySrv' = "closed"
  /\ UNCHANGED <<feedVars, main, ctxDone, grpcSrv, webSrv, chanVars, fanVars, handler, viewVars>>

(* close(rp.events) is deferred, and runs on the failure path as well. *)
ServeReturnsDeferClose ==
  /\ main = "serve"
  /\ main' = IF proxySrv = "closed" THEN "stopGrpc" ELSE "returning"
  /\ eventsClosed' = TRUE
  /\ UNCHANGED <<feedVars, netVars, events, fanVars, handler, viewVars>>

(* Serve returns ErrServerClosed and the event channel is closed, or it    *)
(* fails and the channel is left open.                                     *)
ServeReturns ==
  /\ main = "serve"
  /\ IF proxySrv = "closed"
     THEN main' = "stopGrpc" /\ eventsClosed' = TRUE
     ELSE main' = "returning" /\ eventsClosed' = eventsClosed
  /\ UNCHANGED <<feedVars, netVars, events, fanVars, handler, viewVars>>

GracefulStop ==
  /\ main = "stopGrpc"
  /\ main' = "graceful"
  /\ grpcSrv' = "draining"
  /\ UNCHANGED <<feedVars, ctxDone, proxySrv, webSrv, chanVars, fanVars, handler, viewVars>>

Active(hs) == \E h \in hs : handler[h] = "working"
Attached(vs) == \E v \in vs : session[v] \notin {"new", "ended"}

(* GracefulStop waits for the calls in progress, Watch included.           *)
GracefulStopReturns ==
  /\ main = "graceful"
  /\ ~Active(GrpcReplays) /\ ~Attached(Watchers)
  /\ main' = "returning"
  /\ UNCHANGED <<feedVars, netVars, chanVars, fanVars, handler, viewVars>>

(* The deferred webSrv.Shutdown: it waits until no call is in progress or  *)
(* five seconds have passed.  Without a web server run() just returns.     *)
Shutdown ==
  /\ main = "returning"
  /\ IF webSrv = "none"
     THEN main' = "exited" /\ webSrv' = webSrv
     ELSE main' = "shutdown" /\ webSrv' = "draining"
  /\ UNCHANGED <<feedVars, ctxDone, proxySrv, grpcSrv, chanVars, fanVars, handler, viewVars>>

ShutdownReturns ==
  /\ main = "shutdown"
  /\ ~Active(WebReplays) /\ ~Attached(Streams)
  /\ main' = "exited"
  /\ UNCHANGED <<feedVars, netVars, chanVars, fanVars, handler, viewVars>>

(* Shutdown is given a context that never expires. *)
ShutdownNoTimeout ==
  /\ main = "shutdown"
  /\ ~Active(WebReplays) /\ ~Attached(Streams)
  /\ main' = "exited"
  /\ UNCHANGED <<feedVars, netVars, chanVars, fanVars, handler, viewVars>>

ShutdownTimesOut ==
  /\ main = "shutdown"
  /\ Active(WebReplays) \/ Attached(Streams)
  /\ main' = "exited"
  /\ UNCHANGED <<feedVars, netVars, chanVars, fanVars, handler, viewVars>>

-------------------------------------------------------------------------------
(* The calls that capture an exchange *)

Serving(h) ==
  \/ h \in Requests /\ proxySrv = "serving"
  \/ h \in GrpcReplays /\ grpcSrv = "serving"
  \/ h \in WebReplays /\ webSrv = "serving"

Accept(h) ==
  /\ Running
  /\ handler[h] = "new" /\ Serving(h)
  /\ handler' = [handler EXCEPT ![h] = "working"]
  /\ UNCHANGED <<feedVars, main, netVars, chanVars, fanVars, viewVars>>

(* ServeHTTP returns without an event when it cannot build the upstream    *)
(* request; Replay also when the round trip or reading the answer fails.   *)
ReturnError(h) ==
  /\ Running
  /\ handler[h] = "working"
  /\ handler' = [handler EXCEPT ![h] = "failed"]
  /\ UNCHANGED <<feedVars, main, netVars, chanVars, fanVars, viewVars>>

(* One more event than the channel holds. *)
EmitOneMore(h) ==
  /\ Running
  /\ handler[h] = "working" /\ ~eventsClosed
  /\ IF Len(events) <= EventBuf
     THEN events' = Append(events, h) /\ handler' = [handler EXCEPT ![h] = "emitted"]
     ELSE events' = events /\ handler' = [handler EXCEPT ![h] = "dropped"]
  /\ UNCHANGED <<feedVars, main, netVars, eventsClosed, fanVars, viewVars>>

(* The full channel makes room by giving up its oldest event. *)
EmitDropOldest(h) ==
  /\ Running
  /\ handler[h] = "working" /\ ~eventsClosed
  /\ events' = IF Len(events) < EventBuf THEN Append(events, h) ELSE Append(Tail(events), h)
  /\ handler' = [handler EXCEPT ![h] = "emitted"]
  /\ UNCHANGED <<feedVars, main, netVars, eventsClosed, fanVars, viewVars>>

(* The select around rp.events <- ev, in emitEvent and in Replay: the      *)
(* event is sent, or dropped when the channel is full.                     *)
Emit(h) ==
  /\ Running
  /\ handler[h] = "working" /\ ~eventsClosed
  /\ IF Len(events) < EventBuf
     THEN events' = Append(events, h) /\ handler' = [handler EXCEPT ![h] = "emitted"]
     ELSE events' = events /\ handler' = [handler EXCEPT ![h] = "dropped"]
  /\ UNCHANGED <<feedVars, main, netVars, eventsClosed, fanVars, viewVars>>

(* The same select once the channel is closed: the send panics.  net/http  *)
(* recovers the panic of a handler, grpc does not and the process dies.    *)
EmitPanics(h) ==
  /\ Running
  /\ handler[h] = "working" /\ eventsClosed
  /\ handler' = [handler EXCEPT ![h] = "panicked"]
  /\ main' = IF h \in GrpcReplays THEN "crashed" ELSE main
  /\ UNCHANGED <<feedVars, netVars, chanVars, fanVars, viewVars>>

-------------------------------------------------------------------------------
(* The fan-out goroutine: for ev := range p.Events() { b.Publish(ev) }     *)

PublishNext ==
  /\ Running
  /\ fan = "ranging" /\ events # <<>>
  /\ StartPublish(Fanout)
  /\ published' = Append(published, Head(events))
  /\ events' = Tail(events)
  /\ UNCHANGED <<main, netVars, eventsClosed, fan, handler, viewVars>>

(* One subscriber is offered the event. *)
PublishTo(v) ==
  /\ Running
  /\ Offer(Fanout, v)
  /\ UNCHANGED <<main, netVars, chanVars, fanVars, handler, viewVars>>

(* The loop ends as soon as the channel is closed. *)
RangeEndsUndrained ==
  /\ Running
  /\ fan = "ranging" /\ eventsClosed /\ due[Fanout] = {}
  /\ fan' = "ended"
  /\ UNCHANGED <<feedVars, main, netVars, chanVars, published, handler, viewVars>>

(* The range over a closed channel ends when the channel is drained. *)
RangeEnds ==
  /\ Running
  /\ fan = "ranging" /\ eventsClosed /\ events = <<>> /\ due[Fanout] = {}
  /\ fan' = "ended"
  /\ UNCHANGED <<feedVars, main, netVars, chanVars, published, handler, viewVars>>

-------------------------------------------------------------------------------
(* Watch and handleSSE *)

(* The handler starts; handleSSE has flushed its headers, so the browser   *)
(* is told that the stream is open before it is subscribed.                *)
Open(v) ==
  /\ Running
  /\ session[v] = "new"
  /\ IF v \in Watchers THEN grpcSrv = "serving" ELSE webSrv = "serving"
  /\ session' = [session EXCEPT ![v] = "opened"]
  /\ UNCHANGED <<feedVars, main, netVars, chanVars, fanVars, handler, connected>>

Subscribe(v) ==
  /\ Running
  /\ session[v] = "opened"
  /\ Join(v)
  /\ session' = [session EXCEPT ![v] = "selecting"]
  /\ UNCHANGED <<main, netVars, chanVars, fanVars, handler, connected>>

(* case ev := <-ch: the event is taken and is being written to the client. *)
Receive(v) ==
  /\ Running
  /\ session[v] = "selecting"
  /\ Take(v)
  /\ session' = [session EXCEPT ![v] = "sending"]
  /\ UNCHANGED <<main, netVars, chanVars, fanVars, handler, connected>>

Sent(v) ==
  /\ Running
  /\ session[v] = "sending" /\ connected[v]
  /\ session' = [session EXCEPT ![v] = "selecting"]
  /\ UNCHANGED <<feedVars, main, netVars, chanVars, fanVars, handler, connected>>

(* Watch returns on the error without its deferred unsub. *)
SendFailsNoDefer(v) ==
  /\ Running
  /\ session[v] = "sending" /\ ~connected[v]
  /\ session' = [session EXCEPT ![v] = IF v \in Watchers THEN "ended" ELSE "selecting"]
  /\ UNCHANGED <<feedVars, main, netVars, chanVars, fanVars, handler, connected>>

(* Watch returns when stream.Send fails; handleSSE ignores a failed write. *)
SendFails(v) ==
  /\ Running
  /\ session[v] = "sending" /\ ~connected[v]
  /\ session' = [session EXCEPT ![v] = IF v \in Watchers THEN "leaving" ELSE "selecting"]
  /\ UNCHANGED <<feedVars, main, netVars, chanVars, fanVars, handler, connected>>

(* stream.Send fails with the client still there: gRPC cannot marshal an   *)
(* event with a string that is not UTF-8.                                  *)
SendRefused(v) ==
  /\ Running
  /\ v \in Watchers
  /\ session[v] = "sending" /\ connected[v]
  /\ session' = [session EXCEPT ![v] = "leaving"]
  /\ UNCHANGED <<feedVars, main, netVars, chanVars, fanVars, handler, connected>>

(* handleSSE has no ctx.Done case. *)
SeesDoneWatchOnly(v) ==
  /\ Running
  /\ v \in Watchers
  /\ session[v] = "selecting" /\ ~connected[v]
  /\ session' = [session EXCEPT ![v] = "leaving"]
  /\ UNCHANGED <<feedVars, main, netVars, chanVars, fanVars, handler, connected>>

(* case <-ctx.Done() *)
SeesDone(v) ==
  /\ Running
  /\ session[v] = "selecting" /\ ~connected[v]
  /\ session' = [session EXCEPT ![v] = "leaving"]
  /\ UNCHANGED <<feedVars, main, netVars, chanVars, fanVars, handler, connected>>

(* defer unsub() *)
Unsubscribe(v) ==
  /\ Running
  /\ session[v] = "leaving"
  /\ Leave(v)
  /\ session' = [session EXCEPT ![v] = "ended"]
  /\ UNCHANGED <<main, netVars, chanVars, fanVars, handler, connected>>

(* The client of a call in progress goes away. *)
Disconnect(v) ==
  /\ Running
  /\ session[v] \notin {"new", "ended"} /\ connected[v]
  /\ connected' = [connected EXCEPT ![v] = FALSE]
  /\ UNCHANGED <<feedVars, main, netVars, chanVars, fanVars, handler, session>>

-------------------------------------------------------------------------------
MainStep ==
  \/ ListenGrpc \/ ListenWeb \/ ListenProxy
  \/ GracefulStop \/ GracefulStopReturns
  \/ Shutdown \/ ShutdownReturns \/ ShutdownTimesOut

FanoutStep == PublishNext \/ RangeEnds \/ \E v \in Viewers : PublishTo(v)

Return(h) == Emit(h) \/ EmitPanics(h) \/ ReturnError(h)

SessionStep(v) == Subscribe(v) \/ Receive(v) \/ SendFails(v) \/ SeesDone(v) \/ Unsubscribe(v)

(* The process has ended. *)
Ended == ~Running /\ UNCHANGED vars

Next ==
  \/ Signal \/ CloseProxy \/ MainStep \/ ServeReturns \/ FanoutStep
  \/ \E h \in Handlers : Accept(h) \/ Return(h)
  \/ \E v \in Viewers : Open(v) \/ SessionStep(v) \/ Sent(v) \/ SendRefused(v) \/ Disconnect(v)
  \/ Ended

(* Goroutines that can run do run.  Nothing is promised of the outside:    *)
(* signals, calls, failures of Serve, clients that read or go away, and    *)
(* upstreams that answer.                                                  *)
Fairness ==
  /\ WF_vars(MainStep) /\ WF_vars(CloseProxy)
  /\ WF_vars(proxySrv = "closed" /\ ServeReturns)
  /\ WF_vars(FanoutStep)
  /\ \A v \in Viewers : WF_vars(SessionStep(v))

Safety == Init /\ [][Next]_vars
Spec == Safety /\ Fairness

-------------------------------------------------------------------------------
InChannel == {events[i] : i \in 1..Len(events)}
Published == {published[i] : i \in 1..Len(published)}

TypeOK ==
  /\ FeedTypeOK
  /\ main \in {"listenGrpc", "listenWeb", "listenProxy", "serve", "stopGrpc", "graceful",
               "returning", "shutdown", "exited", "crashed"}
  /\ ctxDone \in BOOLEAN /\ eventsClosed \in BOOLEAN
  /\ proxySrv \in {"none", "serving", "closed"}
  /\ grpcSrv \in {"none", "serving", "draining"}
  /\ webSrv \in {"none", "serving", "draining"}
  /\ events \in Seq(Handlers) /\ Len(events) <= EventBuf
  /\ fan \in {"none", "ranging", "ended"}
  /\ published \in Seq(Handlers) /\ Len(published) = count[Fanout]
  /\ handler \in [Handlers -> {"new", "working", "emitted", "dropped", "failed", "panicked"}]
  /\ session \in [Viewers -> {"new", "opened", "selecting", "sending", "leaving", "ended"}]
  /\ connected \in [Viewers -> BOOLEAN]

(* Every event that a handler got into rp.events is still there or has     *)
(* been published, and exactly once, whatever overlaps: other handlers,    *)
(* the close at shutdown, a full channel.                                  *)
EmittedOnce ==
  /\ {h \in Handlers : handler[h] = "emitted"} = InChannel \cup Published
  /\ Cardinality(InChannel \cup Published) = Len(events) + Len(published)

(* A capture is cut off by a panic, and the process dies of one, only      *)
(* after a signal: while the daemon is wanted no handler sends on the      *)
(* closed channel, not even when Serve fails under it.                     *)
PanicOnlyAfterSignal ==
  (main = "crashed" \/ \E h \in Handlers : handler[h] = "panicked") => ctxDone

(* Closing rp.events loses nothing it holds: the fan-out only ends when    *)
(* every event that was captured has been offered to the viewers.          *)
FanoutDrains ==
  fan = "ended" =>
    /\ \A h \in Handlers : handler[h] = "emitted" => h \in Published
    /\ due[Fanout] = {}

(* A subscription lives exactly as long as its call, on every way out of   *)
(* it: client gone while idle, during a send, or at shutdown.              *)
SubscriptionPerCall ==
  \A v \in Viewers :
    /\ status[v] = "open" <=> session[v] \in {"selecting", "sending", "leaving"}
    /\ status[v] = "left" <=> session[v] = "ended"

(* An event in rp.events gets published, and offered to every viewer,      *)
(* although no viewer ever reads its own: a stuck TUI or browser does not  *)
(* hold up the others.                                                     *)
FanoutKeepsUp ==
  \A h \in Handlers :
    h \in InChannel ~> ((h \in Published /\ due[Fanout] = {}) \/ ~Running)

(* A viewer whose client has gone away is unsubscribed, also when it was   *)
(* in the middle of a send and although handleSSE ignores write errors.    *)
ViewerIsReleased ==
  \A v \in Viewers :
    (session[v] # "new" /\ ~connected[v]) ~> (status[v] = "left" \/ ~Running)

(* What the clients do, as far as GracefulStop depends on it: no replay    *)
(* stays in progress for ever, and no TUI stays connected for ever.        *)
ReplaysReturn == []<>~Active(GrpcReplays)
WatchersLeave == \A v \in Watchers : []<>(session[v] \in {"new", "ended"} \/ ~connected[v])

(* Then a signal ends the process, whatever the browsers do: their streams *)
(* are cut after five seconds.                                             *)
SignalEnds == ReplaysReturn /\ WatchersLeave => (ctxDone ~> ~Running)

(* "GracefulStop gracefully stops the server" (server.go:46).              *)
GracefulStopCompletes == ReplaysReturn => (main = "graceful" ~> main # "graceful")

(* "Replay sends an HTTP request to the upstream server and returns the    *)
(* resulting event" (reverse_proxy.go:109): the call does not end the      *)
(* process.                                                                *)
ReplayReturns == main # "crashed"

=============================================================================

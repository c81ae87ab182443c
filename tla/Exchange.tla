------------------------------- MODULE Exchange -------------------------------
(***************************************************************************)
(* One exchange with the upstream: ReverseProxy.ServeHTTP for a client's   *)
(* request, or ReverseProxy.Replay under tapService.Replay or              *)
(* handleReplay, from its start to the event it emits.  A replay is that   *)
(* of the event a client's request has left, with nothing edited; one      *)
(* whose request has a flaw or no leading slash is written by hand.        *)
(*                                                                         *)
(* ServeHTTP runs beside the goroutine of http.Transport that uploads the  *)
(* request body: both hold reqCapture, and RoundTrip returns as soon as    *)
(* the response headers are in, with the upload still going on when the    *)
(* upstream answers early.  When RoundTrip returns an error the transport  *)
(* has waited for that goroutine.                                          *)
(*                                                                         *)
(* A body of n bytes is <<1, ..., n>>: a byte is its position.  What       *)
(* happens to the emitted event afterwards is in Daemon.                   *)
(***************************************************************************)
EXTENDS Upstream

CONSTANTS
  MaxBody,     \* bound: length of a body
  ChunkSize,   \* bytes one Read returns at most (32 KiB in the relay loop)
  MaxCapture,  \* MaxCaptureSize (64 KiB)
  Requests     \* bound: what is configured and requested, records
               \*   upstream  the URL of the upstream
               \*   uri, headers  of the client's request
               \*   text      its body is UTF-8 once it is decoded
               \*   expands   its body decodes to more than MaxCapture
               \*   envelope  length of a replay's JSON apart from the body
               \*   flaw      of a replay written by hand, or "none"
               \*   answer    the response headers of the upstream

ASSUME ExchangeAssumption ==
  /\ MaxBody \in Nat
  /\ ChunkSize \in Nat \ {0}
  /\ MaxCapture \in Nat \ {0}
  /\ Requests \subseteq [upstream : URL, uri : URL, headers : Header,
                         text : BOOLEAN, expands : BOOLEAN, envelope : Nat, flaw : STRING,
                         answer : Header]

VARIABLES
  kind,       \* "proxied", or a replay over "grpc" or "web"
  request,    \* the client's request, or that of the event replayed
  sent,       \* the request handed to the transport, or NoRequest
  reqLen,     \* length of the request body
  respLen,    \* length of the response body
  gzipped,    \* the bodies are gzip streams
  call,       \* where ServeHTTP or Replay is
  upload,     \* the upload: "idle", "reading", "storing", "done"
  chunk,      \* what its last Read returned
  reqRead,    \* bytes of the request body read so far
  reqCapture, \* reqCapture.buf
  answered,   \* the upstream has sent its response headers
  respRead,   \* bytes of the response body read so far
  respCapture,\* respCapture.buf, or respData in Replay
  respEnd,    \* "more" of the response body, "eof", or "error"
  unwritten,  \* the bytes the relay loop is about to write
  client,     \* "connected" or "gone"
  clientHeaders, \* the response headers written to the client
  clientGot,  \* the response body as the client has received it
  event       \* the emitted event, or NoEvent

reqVars == <<reqLen, upload, chunk, reqRead, reqCapture>>
respVars == <<respLen, gzipped, answered, respRead, respCapture, respEnd, unwritten>>
clientVars == <<client, clientHeaders, clientGot>>
routeVars == <<kind, request, sent>>
vars == <<routeVars, call, reqVars, respVars, clientVars, event>>

NoEvent == [status |-> "none"]
NoRequest == [url |-> "none"]
Client == "client"
Kinds == {"proxied", "grpc", "web"}
ByHand(r) == r.flaw # "none" \/ ~StartsWithSlash(r.uri.path)

Bytes(first, last) == [i \in 1..(last - first + 1) |-> first + i - 1]
Lesser(a, b) == IF a < b THEN a ELSE b

Init ==
  /\ kind \in Kinds /\ request \in Requests /\ sent = NoRequest
  /\ ByHand(request) => kind # "proxied"
  /\ request.flaw # "none" => kind = "web"
  /\ reqLen \in 0..MaxBody /\ respLen \in 0..MaxBody /\ gzipped \in BOOLEAN
  /\ call = "new" /\ upload = "idle"
  /\ chunk = <<>> /\ reqRead = 0 /\ reqCapture = <<>>
  /\ answered = FALSE /\ respRead = 0 /\ respCapture = <<>>
  /\ respEnd = "more" /\ unwritten = <<>>
  /\ client = "connected" /\ clientHeaders = NoHeaders /\ clientGot = <<>>
  /\ event = NoEvent

-------------------------------------------------------------------------------
(* CaptureReader *)

(* A chunk that does not fit is left out. *)
CapturedIfFits(buf, data) == IF Len(buf) + Len(data) <= MaxCapture THEN buf \o data ELSE buf

(* The whole chunk is kept as long as there is any room. *)
CapturedWholeChunk(buf, data) == IF Len(buf) < MaxCapture THEN buf \o data ELSE buf

(* cr.buf after a Read that returned data. *)
Captured(buf, data) == buf \o SubSeq(data, 1, Lesser(Len(data), MaxCapture - Len(buf)))

(* A slice header that is read while it is written: its pointer may be the *)
(* old one and its length the new one.                                     *)
Torn(buf, data) == buf \o [i \in 1..(Len(Captured(buf, data)) - Len(buf)) |-> 0]

(* What Bytes() may return to ServeHTTP. *)
CapturedRequests ==
  IF upload = "storing"
  THEN {reqCapture, Captured(reqCapture, chunk), Torn(reqCapture, chunk)}
  ELSE {reqCapture}

(* Shows what could be expanded of a stream that was cut. *)
DecompressGzipPartial(data, length) == [bytes |-> data, decoded |-> gzipped /\ data # <<>>]

(* DecompressGzip of what was captured of a body of that length: a whole   *)
(* stream is expanded, one that is cut or damaged is returned as it is.    *)
DecompressGzip(data, length) ==
  [bytes |-> data, decoded |-> gzipped /\ length > 0 /\ data = Bytes(1, length)]

-------------------------------------------------------------------------------
(* What is replayed *)

(* The event has what was sent on: outReq.Header, not r.Header.            *)
RecordedForwarded ==
  [uri |-> request.uri, headers |-> Forwarded(request.upstream, request, Client).headers,
   body |-> DecompressGzip(Bytes(1, Lesser(reqLen, MaxCapture)), reqLen)]

(* The request in the event a whole upload has left.                       *)
Recorded ==
  [uri |-> request.uri, headers |-> request.headers,
   body |-> DecompressGzip(Bytes(1, Lesser(reqLen, MaxCapture)), reqLen)]

Replayed ==
  IF kind = "web" THEN FromPage(Viewed(Recorded))
  ELSE FromTui(Viewed(Recorded), request.text /\ (gzipped => Recorded.body.decoded))

BodySize(body) == IF body.decoded /\ request.expands THEN MaxCapture + 1 ELSE Len(body.bytes)

(* handleReplay lets the request pass; nobody else looks at it.            *)
Passes == kind = "web" =>
  Valid(Replayed, request.flaw, request.envelope, BodySize(Replayed.body), MaxCapture)

-------------------------------------------------------------------------------
(* The transport's upload of the request body *)

UploadLen == IF kind = "proxied" THEN reqLen ELSE Len(Replayed.body.bytes)

UploadRead(n) ==
  /\ upload = "reading"
  /\ kind = "proxied" => call \notin {"returned", "panicked"}
  /\ n <= UploadLen - reqRead
  /\ chunk' = Bytes(reqRead + 1, reqRead + n)
  /\ reqRead' = reqRead + n
  /\ upload' = "storing"
  /\ UNCHANGED <<routeVars, call, reqLen, reqCapture, respVars, clientVars, event>>

(* The second half of CaptureReader.Read; Replay uploads from a plain      *)
(* bytes.Reader and captures nothing.                                      *)
UploadStore ==
  /\ upload = "storing"
  /\ reqCapture' = IF kind = "proxied" THEN Captured(reqCapture, chunk) ELSE reqCapture
  /\ chunk' = <<>>
  /\ upload' = "reading"
  /\ UNCHANGED <<routeVars, call, reqLen, reqRead, respVars, clientVars, event>>

(* The end of the body, or an error: of the client, of the upstream, or    *)
(* because net/http has closed the body of a handler that has returned.    *)
UploadEnds ==
  /\ upload = "reading"
  /\ upload' = "done"
  /\ UNCHANGED <<routeVars, call, reqLen, chunk, reqRead, reqCapture, respVars, clientVars, event>>

-------------------------------------------------------------------------------
(* ServeHTTP and Replay up to the response headers *)

(* handleReplay answers 400. *)
Reject ==
  /\ call = "new" /\ ~Passes
  /\ call' = "rejected"
  /\ UNCHANGED <<routeVars, reqVars, respVars, clientVars, event>>

(* http.NewRequestWithContext fails: no event. *)
BuildFails ==
  /\ call = "new" /\ Passes
  /\ call' = "returned"
  /\ UNCHANGED <<routeVars, reqVars, respVars, clientVars, event>>

RoundTrip ==
  /\ call = "new" /\ Passes
  /\ call' = "roundtrip"
  /\ sent' = IF kind = "proxied" THEN Forwarded(request.upstream, request, Client)
             ELSE Resent(request.upstream, Replayed)
  /\ upload' = "reading"
  /\ UNCHANGED <<kind, request, reqLen, chunk, reqRead, reqCapture, respVars, clientVars, event>>

(* The upstream may answer before it has read the whole request. *)
Answer ==
  /\ call = "roundtrip" /\ ~answered
  /\ answered' = TRUE
  /\ UNCHANGED <<routeVars, call, reqVars, respLen, gzipped, respRead, respCapture, respEnd, unwritten,
                 clientVars, event>>

(* ServeHTTP emits an event with the error and answers 502; Replay does    *)
(* not emit.                                                               *)
RoundTripFails ==
  /\ call = "roundtrip" /\ upload = "done"
  /\ call' = "returned"
  /\ event' = IF kind = "proxied"
              THEN [status |-> "badGateway", uri |-> request.uri, headers |-> request.headers,
                    answer |-> NoHeaders, error |-> TRUE, uploaded |-> TRUE,
                    req |-> DecompressGzip(reqCapture, reqLen), resp |-> DecompressGzip(<<>>, 0)]
              ELSE NoEvent
  /\ UNCHANGED <<routeVars, reqVars, respVars, clientVars>>

(* copyHeaders, removeHopByHop and WriteHeader on the client's response.  *)
WriteHeader ==
  clientHeaders' = IF kind = "proxied"
                   THEN removeHopByHop(copyHeaders(clientHeaders, request.answer))
                   ELSE clientHeaders


(* Emits an event as soon as there is a status to show. *)
RoundTripReturnsEmitting ==
  /\ call = "roundtrip" /\ answered
  /\ call' = "reading"
  /\ WriteHeader
  /\ event' = [status |-> "upstream"]
  /\ UNCHANGED <<routeVars, reqVars, respVars, client, clientGot>>

RoundTripReturns ==
  /\ call = "roundtrip" /\ answered
  /\ call' = "reading"
  /\ WriteHeader
  /\ UNCHANGED <<routeVars, reqVars, respVars, client, clientGot, event>>

-------------------------------------------------------------------------------
(* The response body *)

(* Looks at the error first and drops the bytes that came with it. *)
RelayErrorFirst(n, end) ==
  /\ kind = "proxied" /\ call = "reading"
  /\ n <= respLen - respRead
  /\ LET data == Bytes(respRead + 1, respRead + n) IN
       /\ respCapture' = Captured(respCapture, data)
       /\ unwritten' = IF end = "more" THEN data ELSE <<>>
  /\ respRead' = respRead + n
  /\ end = "eof" => respRead' = respLen
  /\ n = 0 => end # "more"
  /\ respEnd' = end
  /\ call' = IF end = "more" THEN "writing" ELSE "emitting"
  /\ UNCHANGED <<routeVars, reqVars, respLen, gzipped, answered, clientVars, event>>

(* A turn of the loop in ServeHTTP begins with a Read, which returns n     *)
(* bytes and maybe the end of the body or an error.                        *)
Relay(n, end) ==
  /\ kind = "proxied" /\ call = "reading"
  /\ n <= respLen - respRead
  /\ unwritten' = Bytes(respRead + 1, respRead + n)
  /\ respCapture' = Captured(respCapture, unwritten')
  /\ respRead' = respRead + n
  /\ end = "eof" => respRead' = respLen
  /\ n = 0 => end # "more"
  /\ respEnd' = end
  /\ call' = IF n > 0 THEN "writing" ELSE "emitting"
  /\ UNCHANGED <<routeVars, reqVars, respLen, gzipped, answered, clientVars, event>>

AfterWrite ==
  /\ call = "writing"
  /\ call' = IF respEnd = "more" THEN "reading" ELSE "emitting"
  /\ unwritten' = <<>>
  /\ UNCHANGED <<routeVars, reqVars, respLen, gzipped, answered, respRead, respCapture, respEnd,
                 client, clientHeaders, event>>

(* w.Write and Flush: they wait for the client to take the bytes.          *)
Write ==
  /\ client = "connected"
  /\ clientGot' = clientGot \o unwritten
  /\ AfterWrite

(* The error is ignored and the loop goes on.                              *)
WriteFails ==
  /\ client = "gone"
  /\ clientGot' = clientGot
  /\ AfterWrite

(* io.ReadAll on the limited body in Replay; on an error Replay returns    *)
(* without an event.                                                       *)
ReadAll ==
  /\ kind # "proxied" /\ call = "reading"
  /\ \/ /\ respRead' = Lesser(respLen, MaxCapture)
        /\ respCapture' = Bytes(1, respRead')
        /\ call' = "emitting"
        /\ respEnd' = "eof"
     \/ /\ call' = "returned"
        /\ respEnd' = "error"
        /\ UNCHANGED <<respRead, respCapture>>
  /\ UNCHANGED <<routeVars, reqVars, respLen, gzipped, answered, unwritten, clientVars, event>>

(* The event carries the status the client was given and an empty Error.   *)
(* A replay shows the path and the body it was given, as they are, and     *)
(* the headers it sent.                                                    *)
EmitEvent ==
  /\ call = "emitting"
  /\ call' = "returned"
  /\ \E req \in IF kind = "proxied"
                THEN {DecompressGzip(data, reqLen) : data \in CapturedRequests}
                ELSE {Replayed.body} :
       event' = [status |-> "upstream", error |-> FALSE, uploaded |-> upload = "done",
                 uri |-> request.uri, answer |-> request.answer,
                 headers |-> IF kind = "proxied" THEN request.headers ELSE sent.headers,
                 req |-> req, resp |-> DecompressGzip(respCapture, respLen)]
  /\ UNCHANGED <<routeVars, reqVars, respVars, clientVars>>

(* The torn slice is a nil pointer with a length: DecompressGzip faults,   *)
(* net/http recovers the handler and there is no event.                    *)
EmitFaults ==
  /\ call = "emitting" /\ kind = "proxied"
  /\ upload = "storing" /\ reqCapture = <<>>
  /\ call' = "panicked"
  /\ UNCHANGED <<routeVars, reqVars, respVars, clientVars, event>>

ClientLeaves ==
  /\ client = "connected" /\ call \notin {"rejected", "returned", "panicked"}
  /\ client' = "gone"
  /\ UNCHANGED <<routeVars, call, reqVars, respVars, clientHeaders, clientGot, event>>

-------------------------------------------------------------------------------
Upload == UploadStore \/ UploadEnds \/ \E n \in 1..ChunkSize : UploadRead(n)

Relays == \E n \in 0..ChunkSize, end \in {"more", "eof", "error"} : Relay(n, end)

(* The steps that wait for nobody. *)
Step == Reject \/ BuildFails \/ RoundTrip \/ RoundTripReturns \/ WriteFails \/ EmitEvent \/ EmitFaults

(* The call is over and so is its upload. *)
Ended ==
  /\ call \in {"rejected", "returned", "panicked"} /\ upload \in {"idle", "done"}
  /\ UNCHANGED vars

Next ==
  \/ Upload \/ Step \/ Relays \/ Write \/ ReadAll
  \/ RoundTripFails \/ Answer \/ ClientLeaves \/ Ended

(* The goroutine of the call runs.  Nothing is promised of the upload, of  *)
(* the upstream (http.Transport{} has no timeout) nor of a client that is  *)
(* there and does not read (http.Server has no WriteTimeout).              *)
Fairness == WF_vars(Step)

Spec == Init /\ [][Next]_vars /\ Fairness

-------------------------------------------------------------------------------
(* The exchange implements what the daemon takes a handler to be; a fault  *)
(* in it is recovered and is a failure like the others.                    *)
Stage ==
  CASE call = "new" -> "new"
    [] call \in {"roundtrip", "reading", "writing", "emitting"} -> "sent"
    [] call = "returned" /\ event # NoEvent -> "emitted"
    [] call \in {"rejected", "panicked"} \/ (call = "returned" /\ event = NoEvent) -> "failed"

AsHandler == INSTANCE Handler WITH stage <- Stage

(* Whatever way an exchange takes, with its upload still under way or its  *)
(* client gone, it emits at most one event, at its end, only of what it    *)
(* has sent to the upstream, and the upload does not change it any more    *)
(* (ServeHTTP and Replay).                                                 *)
EmitsOnce == AsHandler!HandlerSpec

Prefix(n) == Bytes(1, n)

TypeOK ==
  /\ kind \in Kinds /\ request \in Requests
  /\ (sent = NoRequest) = (call \in {"new", "rejected"} \/ (call = "returned" /\ upload = "idle"))
  /\ reqLen \in 0..MaxBody /\ respLen \in 0..MaxBody
  /\ gzipped \in BOOLEAN /\ answered \in BOOLEAN
  /\ respEnd \in {"more", "eof", "error"} /\ clientHeaders \in Header
  /\ call \in {"new", "rejected", "roundtrip", "reading", "writing", "emitting", "returned",
               "panicked"}
  /\ upload \in {"idle", "reading", "storing", "done"}
  /\ reqRead \in 0..reqLen /\ respRead \in 0..respLen
  /\ client \in {"connected", "gone"}
  /\ Len(reqCapture) <= MaxCapture /\ Len(respCapture) <= MaxCapture

(* What the event shows of the response is exactly the first MaxCapture    *)
(* bytes of what was read from the upstream, wherever the limit falls in a *)
(* chunk and however the exchange ended; it is shown decoded only when it  *)
(* is all of the body.                                                     *)
ResponseShown ==
  event # NoEvent =>
    /\ event.resp.bytes = Prefix(Lesser(respRead, MaxCapture))
    /\ event.resp.decoded => event.resp.bytes = Prefix(respLen)

(* What it shows of the request is what the transport read of the client's *)
(* body, up to the limit, provided the upload had ended by then; a body    *)
(* that is shown decoded is the whole body.                                *)
RequestShown ==
  (event # NoEvent /\ event.uploaded /\ kind = "proxied") =>
    /\ event.req.bytes = Prefix(Lesser(reqRead, MaxCapture))
    /\ event.req.decoded => event.req.bytes = Prefix(reqLen)

(* The client gets the upstream's bytes in order, and all of them unless   *)
(* it has left or the upstream broke off; the capture limit does not cut   *)
(* what it is sent.  Before them it gets every line of the upstream's      *)
(* end-to-end headers, and no hop-by-hop header.                           *)
ClientGetsAll ==
  /\ clientGot = Prefix(Len(clientGot))
  /\ (kind = "proxied" /\ call = "returned" /\ event.status = "upstream"
        /\ client = "connected" /\ respEnd # "error") => clientGot = Prefix(respLen)
  /\ (kind = "proxied" /\ clientGot # <<>>) =>
       \A k \in HeaderNames :
         clientHeaders[k] = IF k \in hopByHopHeaders THEN <<>> ELSE request.answer[k]

Members(h, k) == FlattenSeq(h[k])

(* A path under another, with one slash where they meet.                   *)
Under(base, path) ==
  (IF EndsWithSlash(base) THEN Front(base) ELSE base)
    \o (IF StartsWithSlash(path) THEN path ELSE <<Slash>> \o path)

(* Every request to the upstream, also a replay, is for the path that was  *)
(* asked for under the upstream's, as far as no escape is in it (see       *)
(* Transparent), with the query that was asked for if there is one.  A     *)
(* client's request keeps every line of its end-to-end headers and loses   *)
(* its hop-by-hop headers, and the client is the last in X-Forwarded-For,  *)
(* behind all that were in it if they were in one line (ServeHTTP).        *)
UpstreamSeesRequest ==
  sent # NoRequest =>
    LET path == request.uri.path
        forwardedFor == request.headers["X-Forwarded-For"]
    IN /\ (\A i \in DOMAIN path : path[i].level = 0) =>
            sent.url.path = Under(request.upstream.path, path)
       /\ sent.url.query = IF request.uri.query = <<>> THEN request.upstream.query
                          ELSE request.uri.query
       /\ kind = "proxied" =>
            /\ sent.headers["Connection"] = <<>>
            /\ \A k \in {"Accept", "Content-Encoding"} : sent.headers[k] = request.headers[k]
            /\ Last(Members(sent.headers, "X-Forwarded-For")) = Client
            /\ Len(forwardedFor) <= 1 =>
                 Members(sent.headers, "X-Forwarded-For")
                   = Members(request.headers, "X-Forwarded-For") \o <<Client>>

(* The unedited replay of an event, through either viewer, brings the      *)
(* upstream the members of every end-to-end header the client sent, with   *)
(* none added, and the same body if it fits the capture limit, is not      *)
(* expanded in the event, and is text or goes by the page.                 *)
ReplayRepeats ==
  (kind # "proxied" /\ sent # NoRequest) =>
    /\ \A k \in HeaderNames \ hopByHopHeaders :
         Members(sent.headers, k) = Members(request.headers, k)
    /\ (event # NoEvent /\ reqLen <= MaxCapture /\ ~gzipped /\ (request.text \/ kind = "web")) =>
         event.req = [bytes |-> Prefix(reqLen), decoded |-> FALSE, mangled |-> FALSE]

(* The page can replay an event whose path starts with a slash and whose   *)
(* body did not expand beyond the limit, also one whose body was cut       *)
(* exactly at the limit, provided its path and headers leave room for such *)
(* a body in the JSON that handleReplay reads.                             *)
PageCanReplay ==
  call = "rejected" =>
    \/ ByHand(request)
    \/ gzipped /\ request.expands
    \/ request.envelope + Base64(MaxCapture) > 2 * MaxCapture

(* Assumption on the upstream: it answers, and its body ends or breaks off. *)
UpstreamResponds == WF_vars(Answer) /\ WF_vars(Relays \/ ReadAll)

(* Assumption on the client: while it is there it reads what it is sent.   *)
ClientReads == WF_vars(Write)


(* "http-tapd is a transparent HTTP reverse proxy" (README.md:42): it asks *)
(* the upstream for the path the client has asked it for, under that of    *)
(* the upstream.                                                           *)
Transparent ==
  (kind = "proxied" /\ sent # NoRequest) =>
    sent.url.path = Under(request.upstream.path, request.uri.path)

(* An event has "Error string // Non-empty when the upstream request       *)
(* failed." (proxy.go:20): also when the upstream breaks off in the middle *)
(* of the body it sends to a client that is there.                         *)
FailureHasError ==
  (event # NoEvent /\ respEnd = "error" /\ client = "connected") => event.error

(* "The captured bytes are available via Bytes after reading is done"      *)
(* (body.go:10-11): ServeHTTP calls Bytes once the upload has ended.       *)
BytesAfterReading == (event # NoEvent /\ kind = "proxied") => event.uploaded

=============================================================================

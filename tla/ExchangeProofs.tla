----------------------------- MODULE ExchangeProofs -----------------------------
(***************************************************************************)
(* Proofs about Exchange, for bodies, chunks and capture limits of any     *)
(* size and for any configured upstream and any request.                   *)
(*                                                                         *)
(* The safety properties look at an exchange when it has sent something or *)
(* has emitted its event.  None of them is inductive: what is captured is  *)
(* right because of what had been captured before, and an event is right   *)
(* because nothing is read any more once it exists.  The inductive         *)
(* invariant says how far each of the two bodies has got:                  *)
(*   Routed       which request, if any, the transport was given, and that *)
(*                only a request that does not pass is rejected;           *)
(*   BodyUploaded the bytes read from the client are those captured, up to *)
(*                the limit, followed by the chunk still to be stored;     *)
(*   Headed       the client is given the upstream's headers before bytes; *)
(*   BodyRelayed  the bytes read from the upstream are those captured, up  *)
(*                to the limit, and those a client that stayed has got,    *)
(*                followed by those still to be written;                   *)
(*   EventKept    an event came last and shows what had been read.         *)
(***************************************************************************)
EXTENDS Exchange, UpstreamProofs

-------------------------------------------------------------------------------
(* Bytes *)

(* A run of bytes is a sequence of their positions. *)
LEMMA BytesProperties ==
  ASSUME NEW a \in Nat, NEW b \in Nat, a <= b
  PROVE  /\ Bytes(a + 1, b) \in Seq(Nat)
         /\ Len(Bytes(a + 1, b)) = b - a
         /\ \A i \in 1..(b - a) : Bytes(a + 1, b)[i] = a + i
<1>1. b - (a + 1) + 1 = b - a /\ b - a \in Nat /\ \A i \in 1..(b - a) : a + 1 + i - 1 = a + i /\ a + i \in Nat
  OBVIOUS
<1>2. Bytes(a + 1, b) = [i \in 1..(b - a) |-> a + i]
  BY <1>1 DEF Bytes
<1> QED BY <1>1, <1>2

LEMMA PrefixProperties ==
  ASSUME NEW n \in Nat
  PROVE  /\ Prefix(n) \in Seq(Nat)
         /\ Len(Prefix(n)) = n
         /\ \A i \in 1..n : Prefix(n)[i] = i
<1>1. n - 1 + 1 = n /\ \A i \in 1..n : 1 + i - 1 = i
  OBVIOUS
<1>2. Prefix(n) = [i \in 1..n |-> i]
  BY <1>1 DEF Prefix, Bytes
<1> QED BY <1>1, <1>2

LEMMA NoBytes == Prefix(0) = <<>> /\ \A n \in Nat : Bytes(n + 1, n) = <<>>
<1>1. Prefix(0) = <<>>
  BY PrefixProperties, EmptySeq
<1>2. ASSUME NEW n \in Nat PROVE Bytes(n + 1, n) = <<>>
  BY BytesProperties, EmptySeq
<1> QED BY <1>1, <1>2

(* Bytes that follow a prefix make a longer prefix. *)
LEMMA PrefixGrows ==
  ASSUME NEW a \in Nat, NEW b \in Nat, a <= b
  PROVE  Prefix(a) \o Bytes(a + 1, b) = Prefix(b)
<1> DEFINE p == Prefix(a)
           d == Bytes(a + 1, b)
           q == Prefix(b)
<1>1. p \in Seq(Nat) /\ Len(p) = a /\ \A i \in 1..a : p[i] = i
  BY PrefixProperties
<1>2. d \in Seq(Nat) /\ Len(d) = b - a /\ \A i \in 1..(b - a) : d[i] = a + i
  BY BytesProperties
<1>3. q \in Seq(Nat) /\ Len(q) = b /\ \A i \in 1..b : q[i] = i
  BY PrefixProperties
<1> HIDE DEF p, d, q
<1>4. p \o d \in Seq(Nat) /\ Len(p \o d) = Len(p) + Len(d)
      /\ \A i \in 1..(Len(p) + Len(d)) :
           (p \o d)[i] = IF i <= Len(p) THEN p[i] ELSE d[i - Len(p)]
  BY ONLY <1>1, <1>2, ConcatProperties
<1>5. Len(p \o d) = b
  BY <1>1, <1>2, <1>4
<1>6. ASSUME NEW i \in 1..b PROVE (p \o d)[i] = q[i]
  <2>1. (p \o d)[i] = IF i <= a THEN p[i] ELSE d[i - a]
    <3>1. i \in 1..(Len(p) + Len(d))
      BY <1>1, <1>2
    <3>2. (p \o d)[i] = IF i <= Len(p) THEN p[i] ELSE d[i - Len(p)]
      BY <3>1, <1>4
    <3> QED BY <3>2, <1>1
  <2>2. CASE i <= a
    BY <2>1, <2>2, <1>1, <1>3
  <2>3. CASE ~(i <= a)
    <3>1. i - a \in 1..(b - a) /\ a + (i - a) = i
      BY <2>3
    <3> QED BY <2>1, <2>3, <3>1, <1>2, <1>3
  <2> QED BY <2>2, <2>3
<1>7. p \o d = q
  <2>1. Len(p \o d) = Len(q) /\ \A i \in 1..Len(p \o d) : (p \o d)[i] = q[i]
    BY <1>3, <1>5, <1>6
  <2> QED BY ONLY <2>1, <1>3, <1>4, SeqEqual
<1> QED BY <1>7 DEF p, d, q

(* The start of a run of bytes. *)
LEMMA BytesCut ==
  ASSUME NEW a \in Nat, NEW b \in Nat, NEW n \in Nat, a + n <= b
  PROVE  SubSeq(Bytes(a + 1, b), 1, n) = Bytes(a + 1, a + n)
<1> DEFINE d == Bytes(a + 1, b)
           c == Bytes(a + 1, a + n)
<1>1. d \in Seq(Nat) /\ Len(d) = b - a /\ \A i \in 1..(b - a) : d[i] = a + i
  <2>1. a <= b
    OBVIOUS
  <2> QED BY <2>1, BytesProperties
<1>2. c \in Seq(Nat) /\ Len(c) = n /\ \A i \in 1..n : c[i] = a + i
  <2>1. a + n \in Nat /\ a <= a + n /\ (a + n) - a = n
    OBVIOUS
  <2>2. /\ c \in Seq(Nat) /\ Len(c) = (a + n) - a
        /\ \A i \in 1..((a + n) - a) : c[i] = a + i
    BY <2>1, BytesProperties
  <2> QED BY <2>1, <2>2
<1> HIDE DEF d, c
<1>3. \A i \in 1..n : i \in 1..(b - a) /\ d[i] = a + i /\ d[i] \in Nat
  BY <1>1
<1>4. SubSeq(d, 1, n) \in Seq(Nat)
      /\ Len(SubSeq(d, 1, n)) = (IF 1 <= n THEN n - 1 + 1 ELSE 0)
      /\ \A i \in 1..(n - 1 + 1) : SubSeq(d, 1, n)[i] = d[1 + i - 1]
  <2>1. 1 \in Int /\ n \in Int
    OBVIOUS
  <2>2. \A i \in 1..n : d[i] \in Nat
    BY <1>3
  <2> QED BY ONLY <2>1, <2>2, SubSeqProperties
<1>5. Len(SubSeq(d, 1, n)) = n
  <2>1. (IF 1 <= n THEN n - 1 + 1 ELSE 0) = n
    OBVIOUS
  <2> QED BY ONLY <2>1, <1>4
<1>6. \A i \in 1..n : SubSeq(d, 1, n)[i] = c[i]
  <2>1. n - 1 + 1 = n /\ \A i \in 1..n : 1 + i - 1 = i
    OBVIOUS
  <2> QED BY <2>1, <1>2, <1>3, <1>4
<1>7. SubSeq(d, 1, n) = c
  <2>1. Len(SubSeq(d, 1, n)) = Len(c) /\ \A i \in 1..Len(SubSeq(d, 1, n)) : SubSeq(d, 1, n)[i] = c[i]
    BY <1>2, <1>5, <1>6
  <2> QED BY ONLY <2>1, <1>2, <1>4, SeqEqual
<1> QED BY <1>7 DEF d, c

LEMMA LesserProperties ==
  ASSUME NEW a \in Nat, NEW b \in Nat
  PROVE  /\ Lesser(a, b) \in Nat
         /\ Lesser(a, b) <= a /\ Lesser(a, b) <= b
         /\ a <= b => Lesser(a, b) = a
         /\ b <= a => Lesser(a, b) = b
BY DEF Lesser

(* CaptureReader.Read, fed with what has been read so far, keeps the first *)
(* MaxCapture bytes, wherever the limit falls in the chunk.                *)
LEMMA CapturedIsPrefix ==
  ASSUME NEW a \in Nat, NEW b \in Nat, a <= b
  PROVE  Captured(Prefix(Lesser(a, MaxCapture)), Bytes(a + 1, b))
           = Prefix(Lesser(b, MaxCapture))
<1> DEFINE buf == Prefix(Lesser(a, MaxCapture))
           data == Bytes(a + 1, b)
<1>0. MaxCapture \in Nat
  BY ExchangeAssumption
<1>1. Len(buf) = Lesser(a, MaxCapture) /\ buf \in Seq(Nat)
  BY <1>0, LesserProperties, PrefixProperties
<1>2. Len(data) = b - a
  BY BytesProperties
<1> HIDE DEF buf, data
<1>3. Captured(buf, data) = buf \o SubSeq(data, 1, Lesser(b - a, MaxCapture - Lesser(a, MaxCapture)))
  BY <1>1, <1>2 DEF Captured
<1>4. CASE a >= MaxCapture
  <2>1. Lesser(a, MaxCapture) = MaxCapture /\ Lesser(b, MaxCapture) = MaxCapture
    BY <1>0, <1>4, LesserProperties
  <2>2. Lesser(b - a, MaxCapture - MaxCapture) = 0
    BY <1>0 DEF Lesser
  <2>3. SubSeq(data, 1, 0) = <<>>
    BY SubSeqEmpty
  <2>4. buf \o <<>> = buf
    BY <1>1, ConcatEmptySeq
  <2> QED BY <1>3, <2>1, <2>2, <2>3, <2>4 DEF buf, data
<1>5. CASE a < MaxCapture
  <2> DEFINE end == Lesser(b, MaxCapture)
  <2>1. Lesser(a, MaxCapture) = a
    BY <1>0, <1>5 DEF Lesser
  <2>2. end \in Nat /\ a <= end /\ end <= b /\ end - a \in Nat /\ a + (end - a) = end
    BY <1>0, <1>5 DEF Lesser
  <2>3. Lesser(b - a, MaxCapture - a) = end - a
    BY <1>0, <1>5 DEF Lesser
  <2> HIDE DEF end
  <2>4. SubSeq(data, 1, end - a) = Bytes(a + 1, a + (end - a))
    <3>1. a + (end - a) <= b
      BY <2>2
    <3> QED BY <3>1, <2>2, BytesCut DEF data
  <2>5. Prefix(a) \o Bytes(a + 1, end) = Prefix(end)
    BY <2>2, PrefixGrows
  <2> QED BY <1>3, <2>1, <2>2, <2>3, <2>4, <2>5 DEF buf, data, end
<1> QED BY <1>0, <1>4, <1>5

-------------------------------------------------------------------------------
SentRequest ==
  IF kind = "proxied" THEN Forwarded(request.upstream, request, Client)
  ELSE Resent(request.upstream, Replayed)

Routed ==
  /\ ByHand(request) => kind # "proxied"
  /\ call = "rejected" => ~Passes
  /\ call = "writing" => kind = "proxied"
  /\ sent # NoRequest => sent = SentRequest
  /\ sent = NoRequest <=> upload = "idle"
  /\ call \in {"new", "rejected"} => upload = "idle"
  /\ call \in {"roundtrip", "reading", "writing", "emitting", "panicked"} => upload # "idle"

BodyUploaded ==
  \E stored \in 0..reqRead :
    /\ upload # "storing" => stored = reqRead
    /\ chunk = Bytes(stored + 1, reqRead)
    /\ reqCapture = IF kind = "proxied" THEN Prefix(Lesser(stored, MaxCapture)) ELSE <<>>

Headed ==
  /\ call \in {"new", "rejected", "roundtrip"} => clientHeaders = NoHeaders /\ clientGot = <<>>
  /\ clientHeaders \in {NoHeaders, removeHopByHop(request.answer)}
  /\ (kind = "proxied" /\ (call \in {"reading", "writing"} \/ clientGot # <<>>))
       => clientHeaders = removeHopByHop(request.answer)

BodyRelayed ==
  /\ respCapture = Prefix(Lesser(respRead, MaxCapture))
  /\ call \in {"new", "rejected", "roundtrip"} => respRead = 0
  /\ call # "writing" => unwritten = <<>>
  /\ call \in {"new", "rejected", "roundtrip", "reading"} => respEnd = "more"
  /\ (call = "emitting" \/ event.status = "upstream") => respEnd # "more"
  /\ (kind = "proxied" /\ respEnd = "eof") => respRead = respLen
  /\ \E got \in Nat :
       /\ clientGot = Prefix(got)
       /\ (kind = "proxied" /\ client = "connected") =>
            got <= respRead /\ unwritten = Bytes(got + 1, respRead)

EventKept ==
  /\ event # NoEvent =>
       /\ call = "returned"
       /\ event.uploaded => upload = "done"
       /\ kind # "proxied" => event.req = Replayed.body
  /\ ResponseShown
  /\ RequestShown

Inv == TypeOK /\ Routed /\ BodyUploaded /\ Headed /\ BodyRelayed /\ EventKept

-------------------------------------------------------------------------------
(* What is replayed *)

(* A replay has the original's URL, the members of its headers and the     *)
(* bytes that were captured of its body, which are shown decoded only if   *)
(* they were a gzip stream.                                                *)
LEMMA ReplayedRequest ==
  /\ Replayed.uri = request.uri
  /\ Replayed.headers = unflattenHeaders(flattenHeaders(request.headers))
  /\ Replayed.body.bytes = Prefix(Lesser(reqLen, MaxCapture))
  /\ Replayed.body.decoded => gzipped
<1> DEFINE bytes == Prefix(Lesser(reqLen, MaxCapture))
           whole == reqLen > 0 /\ bytes = Prefix(reqLen)
<1>1. Recorded = [uri |-> request.uri, headers |-> request.headers,
                  body |-> [bytes |-> bytes, decoded |-> gzipped /\ whole]]
  BY DEF Recorded, DecompressGzip, Prefix
<1> HIDE DEF bytes, whole
<1>2. Viewed(Recorded) = [uri |-> request.uri, headers |-> flattenHeaders(request.headers),
                          body |-> [bytes |-> bytes, decoded |-> gzipped /\ whole]]
  BY <1>1 DEF Viewed
<1> DEFINE seen == Viewed(Recorded)
<1>3. /\ seen.uri = request.uri /\ seen.headers = flattenHeaders(request.headers)
      /\ seen.body.bytes = bytes
  BY <1>2
<1>4. seen.body.decoded => gzipped
  <2>1. seen.body.decoded = (gzipped /\ whole)
    BY <1>2
  <2> QED BY <2>1
<1> HIDE DEF seen
<1>5. ASSUME NEW text
      PROVE  \A r \in {FromPage(seen), FromTui(seen, text)} :
               /\ r.uri = seen.uri /\ r.headers = unflattenHeaders(seen.headers)
               /\ r.body.bytes = seen.body.bytes /\ r.body.decoded = seen.body.decoded
  BY DEF FromPage, FromTui
<1>6. PICK text : Replayed \in {FromPage(seen), FromTui(seen, text)}
  BY DEF Replayed, seen
<1>7. /\ Replayed.uri = seen.uri /\ Replayed.headers = unflattenHeaders(seen.headers)
      /\ Replayed.body.bytes = seen.body.bytes /\ Replayed.body.decoded = seen.body.decoded
  BY <1>5, <1>6
<1> QED BY <1>3, <1>4, <1>7 DEF bytes

-------------------------------------------------------------------------------
(* What an exchange was started with never changes. *)
LEMMA Fixed ==
  ASSUME [Next]_vars
  PROVE  /\ kind' = kind /\ request' = request
         /\ reqLen' = reqLen /\ respLen' = respLen /\ gzipped' = gzipped
<1> USE DEF vars, routeVars, reqVars, respVars, clientVars
<1>1. CASE Upload
  BY <1>1 DEF Upload, UploadStore, UploadEnds, UploadRead
<1>2. CASE Step
  BY <1>2 DEF Step, Reject, BuildFails, RoundTrip, RoundTripReturns, WriteFails, AfterWrite,
               EmitEvent, EmitFaults
<1>3. CASE Relays \/ Write
  BY <1>3 DEF Relays, Relay, Write, AfterWrite
<1>4. CASE ReadAll \/ RoundTripFails \/ Answer \/ ClientLeaves
  BY <1>4 DEF ReadAll, RoundTripFails, Answer, ClientLeaves
<1>5. CASE Ended \/ UNCHANGED vars
  BY <1>5 DEF Ended
<1> QED BY <1>1, <1>2, <1>3, <1>4, <1>5 DEF Next

(* Nor what is replayed, whether it passes, and what would be sent. *)
LEMMA FixedRequest ==
  ASSUME [Next]_vars
  PROVE  /\ Replayed' = Replayed /\ SentRequest' = SentRequest /\ UploadLen' = UploadLen
         /\ Passes' <=> Passes
<1> USE Fixed
<1>1. Recorded' = Recorded
  BY DEF Recorded, DecompressGzip
<1>2. Replayed' = Replayed
  BY <1>1 DEF Replayed
<1>3. SentRequest' = SentRequest /\ UploadLen' = UploadLen
  BY <1>2 DEF SentRequest, UploadLen
<1>4. Passes' <=> Passes
  BY <1>2 DEF Passes, BodySize
<1> QED BY <1>2, <1>3, <1>4

LEMMA SentIsRequest == SentRequest # NoRequest
<1>1. \A u, h : [url |-> u, headers |-> h] # [url |-> "none"]
  <2>1. \A u, h : DOMAIN [url |-> u, headers |-> h] = {"url", "headers"}
    OBVIOUS
  <2>2. DOMAIN [url |-> "none"] = {"url"}
    OBVIOUS
  <2>3. {"url", "headers"} # {"url"}
    OBVIOUS
  <2> QED BY <2>1, <2>2, <2>3
<1>2. \E u, h : SentRequest = [url |-> u, headers |-> h]
  BY DEF SentRequest, Forwarded, Resent
<1> QED BY <1>1, <1>2 DEF NoRequest

-------------------------------------------------------------------------------
(* The inductive invariant, part by part. *)

LEMMA RoutedStep == ASSUME Inv, [Next]_vars PROVE Routed'
<1> USE DEF vars, routeVars, reqVars, respVars, clientVars
<1>1. kind' = kind /\ request' = request /\ (Passes' <=> Passes) /\ SentRequest' = SentRequest
  BY Fixed, FixedRequest
<1>2. Routed
  BY DEF Inv
<1>3. (ByHand(request) => kind # "proxied")'
  BY <1>1, <1>2 DEF Routed, ByHand
<1>4. ASSUME sent' = sent, call' = call, upload' = upload PROVE Routed'
  BY <1>1, <1>2, <1>3, <1>4 DEF Routed
<1>5. CASE Upload
  <2>1. upload' # "idle" /\ upload # "idle" /\ sent' = sent /\ call' = call
    BY <1>5 DEF Upload, UploadStore, UploadEnds, UploadRead
  <2> QED BY <1>1, <1>2, <1>3, <2>1 DEF Routed
<1>6. CASE Reject
  BY <1>1, <1>2, <1>3, <1>6 DEF Routed, Reject
<1>7. CASE BuildFails
  BY <1>1, <1>2, <1>3, <1>7 DEF Routed, BuildFails
<1>8. CASE RoundTrip
  <2>1. sent' = SentRequest
    BY <1>8 DEF RoundTrip, SentRequest
  <2> QED BY <1>1, <1>2, <1>3, <1>8, <2>1, SentIsRequest DEF Routed, RoundTrip
<1>9. CASE \/ RoundTripReturns \/ EmitEvent \/ EmitFaults \/ Relays \/ Write \/ WriteFails
           \/ ReadAll \/ RoundTripFails
  <2>1. /\ sent' = sent /\ upload' = upload
        /\ call \in {"roundtrip", "reading", "writing", "emitting"}
        /\ call' \in {"reading", "writing", "emitting", "returned", "panicked"}
        /\ call' = "writing" => kind = "proxied"
    BY <1>9 DEF RoundTripReturns, EmitEvent, EmitFaults, Relays, Relay, Write, WriteFails, AfterWrite,
                ReadAll, RoundTripFails
  <2> QED BY <1>1, <1>2, <1>3, <2>1 DEF Routed
<1>10. CASE Answer \/ ClientLeaves \/ Ended \/ UNCHANGED vars
  BY <1>4, <1>10 DEF Answer, ClientLeaves, Ended
<1> QED BY <1>5, <1>6, <1>7, <1>8, <1>9, <1>10 DEF Next, Step

(* The types that the arithmetic below rests on. *)
LEMMA Numbers ==
  ASSUME TypeOK
  PROVE  /\ MaxCapture \in Nat /\ MaxCapture > 0 /\ ChunkSize \in Nat
         /\ reqLen \in Nat /\ respLen \in Nat
         /\ reqRead \in Nat /\ reqRead <= reqLen
         /\ respRead \in Nat /\ respRead <= respLen
BY ExchangeAssumption DEF TypeOK

(* The parts of every request, as the configuration and the client may     *)
(* choose them.                                                            *)
LEMMA RequestParts ==
  ASSUME TypeOK
  PROVE  /\ request.upstream.path \in Path /\ request.uri.path \in Path
         /\ request.headers \in Header /\ request.answer \in Header
         /\ request.envelope \in Nat
<1>1. request \in [upstream : URL, uri : URL, headers : Header,
                   text : BOOLEAN, expands : BOOLEAN, envelope : Nat, flaw : STRING,
                   answer : Header]
  BY ExchangeAssumption DEF TypeOK
<1>2. request.upstream \in URL /\ request.uri \in URL /\ request.headers \in Header
      /\ request.answer \in Header /\ request.envelope \in Nat
  BY <1>1
<1> QED BY <1>2 DEF URL, Path, Segment

LEMMA BodyUploadedStep == ASSUME Inv, [Next]_vars PROVE BodyUploaded'
<1> USE DEF vars, routeVars, reqVars, respVars, clientVars
<1>1. kind' = kind
  BY Fixed
<1>2. reqRead \in Nat /\ ChunkSize \in Nat /\ MaxCapture \in Nat
  BY Numbers DEF Inv
<1>3. PICK stored \in 0..reqRead :
        /\ upload # "storing" => stored = reqRead
        /\ chunk = Bytes(stored + 1, reqRead)
        /\ reqCapture = IF kind = "proxied" THEN Prefix(Lesser(stored, MaxCapture)) ELSE <<>>
  BY DEF Inv, BodyUploaded
<1>4. ASSUME UNCHANGED <<chunk, reqRead, reqCapture>>,
             upload' # "storing" => upload # "storing"
      PROVE  BodyUploaded'
  <2>1. stored \in 0..reqRead'
    BY <1>4
  <2>2. /\ upload' # "storing" => stored = reqRead'
        /\ chunk' = Bytes(stored + 1, reqRead')
        /\ reqCapture' = IF kind' = "proxied" THEN Prefix(Lesser(stored, MaxCapture)) ELSE <<>>
    BY <1>1, <1>3, <1>4
  <2> QED BY <2>1, <2>2 DEF BodyUploaded, Prefix, Bytes, Lesser
<1>5. CASE UploadStore
  <2>1. reqRead' = reqRead /\ upload' = "reading"
    BY <1>5 DEF UploadStore
  <2>2. chunk' = Bytes(reqRead + 1, reqRead)
    BY <1>2, <1>5, NoBytes DEF UploadStore
  <2>3. reqCapture' = IF kind = "proxied" THEN Prefix(Lesser(reqRead, MaxCapture)) ELSE <<>>
    <3>1. CASE kind = "proxied"
      <4>1. reqCapture' = Captured(Prefix(Lesser(stored, MaxCapture)), Bytes(stored + 1, reqRead))
        BY <1>3, <1>5, <3>1 DEF UploadStore
      <4>2. stored \in Nat /\ stored <= reqRead
        BY <1>2, <1>3
      <4> QED BY <1>2, <3>1, <4>1, <4>2, CapturedIsPrefix
    <3>2. CASE kind # "proxied"
      BY <1>3, <1>5, <3>2 DEF UploadStore
    <3> QED BY <3>1, <3>2
  <2>4. reqRead \in 0..reqRead'
    BY <1>2, <2>1
  <2> QED BY <1>1, <2>1, <2>2, <2>3, <2>4 DEF BodyUploaded, Prefix, Bytes, Lesser
<1>6. CASE \E n \in 1..ChunkSize : UploadRead(n)
  <2>1. PICK n \in 1..ChunkSize : UploadRead(n)
    BY <1>6
  <2>2. stored = reqRead
    BY <1>3, <2>1 DEF UploadRead
  <2>3. /\ upload' = "storing" /\ chunk' = Bytes(reqRead + 1, reqRead') /\ reqCapture' = reqCapture
    BY <2>1 DEF UploadRead
  <2>4. reqRead \in 0..reqRead'
    BY <1>2, <2>1 DEF UploadRead
  <2> QED BY <1>1, <1>3, <2>2, <2>3, <2>4 DEF BodyUploaded, Prefix, Bytes, Lesser
<1>7. CASE UploadEnds
  BY <1>4, <1>7 DEF UploadEnds
<1>8. CASE Step
  <2>1. CASE RoundTrip
    BY <1>4, <2>1 DEF RoundTrip, Inv, Routed
  <2>2. CASE EmitEvent
    <3>1. UNCHANGED reqVars
      BY <2>2 DEF EmitEvent
    <3> QED BY <1>4, <3>1
  <2>3. CASE Reject \/ BuildFails \/ RoundTripReturns \/ WriteFails \/ EmitFaults
    BY <1>4, <2>3 DEF Reject, BuildFails, RoundTripReturns, WriteFails, AfterWrite, EmitFaults
  <2> QED BY <1>8, <2>1, <2>2, <2>3 DEF Step
<1>9. CASE Relays \/ Write \/ ReadAll \/ RoundTripFails
  BY <1>4, <1>9 DEF Relays, Relay, Write, AfterWrite, ReadAll, RoundTripFails
<1>10. CASE Answer \/ ClientLeaves \/ Ended \/ UNCHANGED vars
  BY <1>4, <1>10 DEF Answer, ClientLeaves, Ended
<1> QED BY <1>5, <1>6, <1>7, <1>8, <1>9, <1>10 DEF Next, Upload

LEMMA HeadedStep == ASSUME Inv, [Next]_vars PROVE Headed'
<1> USE DEF vars, routeVars, reqVars, respVars, clientVars
<1>1. kind' = kind /\ request' = request
  BY Fixed
<1>2. Headed
  BY DEF Inv
<1>3. NoHeaders' = NoHeaders /\ removeHopByHop(request.answer)' = removeHopByHop(request.answer)
  BY <1>1 DEF NoHeaders, removeHopByHop
<1>4. ASSUME UNCHANGED <<clientHeaders, clientGot>>,
             call' \in {"new", "rejected", "roundtrip"} => call \in {"new", "rejected", "roundtrip"},
             call' \in {"reading", "writing"} => call \in {"reading", "writing"} \/ kind # "proxied"
      PROVE  Headed'
  BY <1>1, <1>2, <1>3, <1>4 DEF Headed
<1>5. CASE RoundTripReturns
  <2>1. /\ call = "roundtrip" /\ call' = "reading" /\ clientGot' = clientGot
        /\ clientHeaders' = IF kind = "proxied"
                            THEN removeHopByHop(copyHeaders(clientHeaders, request.answer))
                            ELSE clientHeaders
    BY <1>5 DEF RoundTripReturns, WriteHeader
  <2>2. clientHeaders = NoHeaders
    BY <1>2, <2>1 DEF Headed
  <2>3. request.answer \in Header
    BY RequestParts DEF Inv
  <2>4. copyHeaders(clientHeaders, request.answer) = request.answer
    BY <2>2, <2>3, CopyIsSame
  <2>5. clientHeaders' = IF kind = "proxied" THEN removeHopByHop(request.answer) ELSE NoHeaders
    BY <2>1, <2>2, <2>4
  <2>6. kind # "proxied" => clientGot' = <<>>
    BY <1>2, <2>1 DEF Headed
  <2> QED BY <1>1, <1>3, <2>1, <2>5, <2>6 DEF Headed
<1>6. CASE Write
  <2>1. /\ call = "writing" /\ call' \in {"reading", "emitting"} /\ clientHeaders' = clientHeaders
    BY <1>6 DEF Write, AfterWrite
  <2> QED BY <1>1, <1>2, <1>3, <2>1 DEF Headed
<1>7. CASE Upload \/ Answer \/ ClientLeaves \/ Ended \/ UNCHANGED vars
  <2>1. UNCHANGED <<clientHeaders, clientGot, call>>
    BY <1>7 DEF Upload, UploadStore, UploadEnds, UploadRead, Answer, ClientLeaves, Ended
  <2> QED BY <1>4, <2>1
<1>8. CASE Reject \/ BuildFails \/ RoundTrip
  <2>1. /\ UNCHANGED <<clientHeaders, clientGot>> /\ call = "new"
        /\ call' \in {"rejected", "returned", "roundtrip"}
    BY <1>8 DEF Reject, BuildFails, RoundTrip
  <2> QED BY <1>4, <2>1
<1>9. CASE \/ Relays \/ WriteFails \/ ReadAll \/ RoundTripFails \/ EmitEvent \/ EmitFaults
  <2>1. /\ UNCHANGED <<clientHeaders, clientGot>>
        /\ call' \in {"reading", "writing", "emitting", "returned", "panicked"}
        /\ call' \in {"reading", "writing"} => call \in {"reading", "writing"}
    BY <1>9 DEF Relays, Relay, WriteFails, AfterWrite, ReadAll, RoundTripFails, EmitEvent, EmitFaults
  <2> QED BY <1>4, <2>1
<1> QED BY <1>5, <1>6, <1>7, <1>8, <1>9 DEF Next, Step

LEMMA BodyRelayedStep == ASSUME Inv, [Next]_vars PROVE BodyRelayed'
<1> USE DEF vars, routeVars, reqVars, respVars, clientVars
<1>1. kind' = kind /\ respLen' = respLen
  BY Fixed
<1>2. respRead \in Nat /\ respLen \in Nat /\ respRead <= respLen /\ MaxCapture \in Nat
      /\ ChunkSize \in Nat
  BY Numbers DEF Inv
<1>3. BodyRelayed
  BY DEF Inv
<1>4. PICK got \in Nat :
        /\ clientGot = Prefix(got)
        /\ (kind = "proxied" /\ client = "connected") =>
             got <= respRead /\ unwritten = Bytes(got + 1, respRead)
  BY <1>3 DEF BodyRelayed
<1>5. event # NoEvent => call = "returned"
  BY DEF Inv, EventKept
<1>6. ASSUME UNCHANGED <<respRead, respCapture, clientGot, unwritten>>,
             client' = "connected" => client = "connected"
      PROVE  /\ (respCapture = Prefix(Lesser(respRead, MaxCapture)))'
             /\ (\E g \in Nat : /\ clientGot = Prefix(g)
                                /\ (kind = "proxied" /\ client = "connected") =>
                                     g <= respRead /\ unwritten = Bytes(g + 1, respRead))'
  <2>1. (respCapture = Prefix(Lesser(respRead, MaxCapture)))'
    BY <1>3, <1>6 DEF BodyRelayed, Prefix, Bytes, Lesser
  <2>2. /\ clientGot' = Prefix(got)
        /\ (kind' = "proxied" /\ client' = "connected") =>
             got <= respRead' /\ unwritten' = Bytes(got + 1, respRead')
    BY <1>1, <1>4, <1>6
  <2> QED BY <2>1, <2>2 DEF Prefix, Bytes
<1>7. CASE Upload \/ Answer \/ ClientLeaves \/ Ended \/ UNCHANGED vars
  <2>1. /\ UNCHANGED <<respRead, respCapture, clientGot, unwritten, call, respEnd, event>>
        /\ client' = "connected" => client = "connected"
    BY <1>7 DEF Upload, UploadStore, UploadEnds, UploadRead, Answer, ClientLeaves, Ended
  <2> QED BY <1>1, <1>3, <1>6, <2>1 DEF BodyRelayed
<1>8. CASE Reject \/ BuildFails \/ RoundTrip \/ RoundTripReturns
  <2>1. /\ UNCHANGED <<respRead, respCapture, clientGot, unwritten, client, respEnd, event>>
        /\ call \in {"new", "roundtrip"}
        /\ call' \in {"rejected", "returned", "roundtrip", "reading"}
    BY <1>8 DEF Reject, BuildFails, RoundTrip, RoundTripReturns
  <2>2. event.status # "upstream"
    BY <1>5, <2>1 DEF NoEvent
  <2> QED BY <1>1, <1>3, <1>6, <2>1, <2>2 DEF BodyRelayed
<1>9. CASE EmitEvent
  <2>1. UNCHANGED <<respRead, respCapture, clientGot, unwritten, client, respEnd>>
        /\ call = "emitting" /\ call' = "returned"
    BY <1>9 DEF EmitEvent
  <2> QED BY <1>1, <1>3, <1>6, <2>1 DEF BodyRelayed
<1>10. CASE EmitFaults
  <2>1. UNCHANGED <<respRead, respCapture, clientGot, unwritten, client, respEnd, event>>
        /\ call = "emitting" /\ call' = "panicked"
    BY <1>10 DEF EmitFaults
  <2> QED BY <1>1, <1>3, <1>6, <2>1 DEF BodyRelayed
<1>11. CASE RoundTripFails
  <2>1. UNCHANGED <<respRead, respCapture, clientGot, unwritten, client, respEnd>>
        /\ call = "roundtrip" /\ call' = "returned"
    BY <1>11 DEF RoundTripFails
  <2>2. event'.status # "upstream"
    BY <1>11 DEF RoundTripFails, NoEvent
  <2> QED BY <1>1, <1>3, <1>6, <2>1, <2>2 DEF BodyRelayed
<1>12. CASE ReadAll
  <2>1. /\ kind # "proxied" /\ call = "reading" /\ call' \in {"emitting", "returned"}
        /\ respEnd' \in {"eof", "error"} /\ UNCHANGED <<clientGot, unwritten, client, event>>
    BY <1>12 DEF ReadAll
  <2>2. respCapture' = Prefix(Lesser(respRead', MaxCapture))
    <3>1. CASE UNCHANGED <<respRead, respCapture>>
      BY <1>3, <3>1 DEF BodyRelayed
    <3>2. CASE respRead' = Lesser(respLen, MaxCapture) /\ respCapture' = Bytes(1, respRead')
      <4>1. Lesser(respRead', MaxCapture) = respRead'
        BY <1>2, <3>2 DEF Lesser
      <4> QED BY <3>2, <4>1 DEF Prefix
    <3> QED BY <1>12, <3>1, <3>2 DEF ReadAll
  <2>3. clientGot' = Prefix(got)
    BY <1>4, <2>1
  <2>4. unwritten' = <<>>
    BY <1>3, <2>1 DEF BodyRelayed
  <2> QED BY <1>1, <2>1, <2>2, <2>3, <2>4 DEF BodyRelayed, Prefix, Bytes, Lesser
<1>13. ASSUME got <= respRead, unwritten = Bytes(got + 1, respRead), unwritten = <<>>
       PROVE  got = respRead
  <2>1. Len(unwritten) = respRead - got
    BY <1>2, <1>13, BytesProperties
  <2>2. Len(unwritten) = 0
    BY <1>13
  <2> QED BY <1>2, <2>1, <2>2
<1>14. CASE Relays
  <2>1. PICK n \in 0..ChunkSize, end \in {"more", "eof", "error"} : Relay(n, end)
    BY <1>14 DEF Relays
  <2>2. /\ kind = "proxied" /\ call = "reading" /\ event' = event /\ client' = client
        /\ call' = (IF n > 0 THEN "writing" ELSE "emitting") /\ respEnd' = end
        /\ end = "eof" => respRead' = respLen
        /\ n = 0 => end # "more"
        /\ respRead' = respRead + n
        /\ unwritten' = Bytes(respRead + 1, respRead + n)
        /\ respCapture' = Captured(respCapture, Bytes(respRead + 1, respRead + n))
        /\ clientGot' = clientGot
    BY <2>1 DEF Relay
  <2>3. respRead' \in Nat /\ respRead <= respRead'
    BY <1>2, <2>2
  <2>4. respCapture' = Prefix(Lesser(respRead', MaxCapture))
    BY <1>2, <1>3, <2>2, <2>3, CapturedIsPrefix DEF BodyRelayed
  <2>5. /\ clientGot' = Prefix(got)
        /\ client' = "connected" => got <= respRead' /\ unwritten' = Bytes(got + 1, respRead')
    <3>1. client = "connected" => got = respRead
      BY <1>3, <1>4, <1>13, <2>2 DEF BodyRelayed
    <3> QED BY <1>4, <2>2, <2>3, <3>1
  <2>6. event'.status # "upstream"
    BY <1>5, <2>2 DEF NoEvent
  <2>7. call' # "writing" => unwritten' = <<>> /\ end # "more"
    <3>1. n \in Nat /\ (call' # "writing" => n = 0)
      BY <1>2, <2>2
    <3>2. n = 0 => unwritten' = Bytes(respRead + 1, respRead)
      BY <1>2, <2>2
    <3> QED BY <1>2, <2>2, <3>1, <3>2, NoBytes
  <2>8. call' \in {"writing", "emitting"}
    BY <2>2
  <2> QED BY <1>1, <2>2, <2>4, <2>5, <2>6, <2>7, <2>8 DEF BodyRelayed, Prefix, Bytes, Lesser
<1>15. CASE Write \/ WriteFails
  <2>1. /\ call = "writing" /\ call' = (IF respEnd = "more" THEN "reading" ELSE "emitting")
        /\ unwritten' = <<>> /\ UNCHANGED <<respRead, respCapture, respEnd, client, event>>
    BY <1>15 DEF Write, WriteFails, AfterWrite
  <2>2. respCapture' = Prefix(Lesser(respRead', MaxCapture))
    BY <1>3, <2>1 DEF BodyRelayed
  <2>3. ASSUME kind = "proxied", client = "connected"
        PROVE  clientGot' = Prefix(respRead') /\ unwritten' = Bytes(respRead' + 1, respRead')
    <3>1. clientGot' = Prefix(got) \o Bytes(got + 1, respRead)
      BY <1>4, <1>15, <2>3 DEF Write, WriteFails
    <3>2. clientGot' = Prefix(respRead)
      BY <1>2, <1>4, <2>3, <3>1, PrefixGrows
    <3> QED BY <1>2, <2>1, <3>2, NoBytes
  <2>4. \E g \in Nat : /\ clientGot' = Prefix(g)
                       /\ (kind = "proxied" /\ client' = "connected") =>
                            g <= respRead' /\ unwritten' = Bytes(g + 1, respRead')
    <3>1. CASE kind = "proxied" /\ client = "connected"
      BY <1>2, <2>1, <2>3, <3>1
    <3>2. CASE client # "connected"
      <4>1. clientGot' = Prefix(got)
        BY <1>4, <1>15, <3>2 DEF Write, WriteFails
      <4> QED BY <2>1, <3>2, <4>1
    <3>3. kind = "proxied"
      BY <2>1 DEF Inv, Routed
    <3> QED BY <3>1, <3>2, <3>3
  <2>5. event'.status # "upstream"
    BY <1>5, <2>1 DEF NoEvent
  <2> QED BY <1>1, <1>3, <2>1, <2>2, <2>4, <2>5 DEF BodyRelayed, Prefix, Bytes, Lesser
<1> QED BY <1>7, <1>8, <1>9, <1>10, <1>11, <1>12, <1>14, <1>15 DEF Next, Step

(* DecompressGzip keeps the bytes, and expands only the whole of a body. *)
LEMMA DecompressesWhole ==
  ASSUME NEW data, NEW length
  PROVE  /\ DecompressGzip(data, length).bytes = data
         /\ DecompressGzip(data, length).decoded => data = Prefix(length)
<1>1. DecompressGzip(data, length).bytes = data
  BY DEF DecompressGzip
<1>2. DecompressGzip(data, length).decoded = (gzipped /\ length > 0 /\ data = Bytes(1, length))
  BY DEF DecompressGzip
<1> QED BY <1>1, <1>2 DEF Prefix

LEMMA EventKeptStep == ASSUME Inv, [Next]_vars PROVE EventKept'
<1> USE DEF vars, routeVars, reqVars, respVars, clientVars
<1>1. kind' = kind /\ reqLen' = reqLen /\ respLen' = respLen /\ Replayed' = Replayed
  BY Fixed, FixedRequest
<1>2. EventKept /\ BodyRelayed
  BY DEF Inv
<1>3. ASSUME event' = event,
             call = "returned" =>
               /\ call' = call /\ respRead' = respRead
               /\ upload = "done" => upload' = "done" /\ reqRead' = reqRead
      PROVE  EventKept'
  <2>1. (event # NoEvent =>
           /\ call = "returned"
           /\ event.uploaded => upload = "done"
           /\ kind # "proxied" => event.req = Replayed.body)'
    BY <1>1, <1>2, <1>3 DEF EventKept, NoEvent
  <2>2. ResponseShown'
    BY <1>1, <1>2, <1>3 DEF EventKept, ResponseShown, NoEvent, Prefix, Bytes, Lesser
  <2>3. RequestShown'
    BY <1>1, <1>2, <1>3 DEF EventKept, RequestShown, NoEvent, Prefix, Bytes, Lesser
  <2> QED BY <2>1, <2>2, <2>3 DEF EventKept
<1>4. CASE EmitEvent
  <2>1. PICK req \in IF kind = "proxied" THEN {DecompressGzip(data, reqLen) : data \in CapturedRequests}
                     ELSE {Replayed.body} :
          event' = [status |-> "upstream", error |-> FALSE, uploaded |-> upload = "done",
                    uri |-> request.uri, answer |-> request.answer,
                    headers |-> IF kind = "proxied" THEN request.headers ELSE sent.headers,
                    req |-> req, resp |-> DecompressGzip(respCapture, respLen)]
    BY <1>4 DEF EmitEvent
  <2>2. /\ event'.uploaded = (upload = "done") /\ event'.req = req
        /\ event'.resp = DecompressGzip(respCapture, respLen)
    BY <2>1
  <2>3. /\ call' = "returned"
        /\ UNCHANGED <<upload, reqRead, respRead>>
    BY <1>4 DEF EmitEvent
  <2>4. (event # NoEvent =>
           /\ call = "returned"
           /\ event.uploaded => upload = "done"
           /\ kind # "proxied" => event.req = Replayed.body)'
    <3>1. kind # "proxied" => req = Replayed.body
      BY <2>1
    <3>2. event'.uploaded => upload' = "done"
      BY <2>2, <2>3
    <3> QED BY <1>1, <2>2, <2>3, <3>1, <3>2
  <2>5. ResponseShown'
    <3>1. respCapture = Prefix(Lesser(respRead', MaxCapture))
      BY <1>2, <2>3 DEF BodyRelayed
    <3>2. /\ event'.resp.bytes = respCapture
          /\ event'.resp.decoded => respCapture = Prefix(respLen)
      BY <2>2, DecompressesWhole
    <3> QED BY <1>1, <3>1, <3>2 DEF ResponseShown, Prefix, Bytes, Lesser
  <2>6. RequestShown'
    <3> SUFFICES ASSUME upload = "done", kind = "proxied"
                 PROVE  /\ event'.req.bytes = Prefix(Lesser(reqRead, MaxCapture))
                        /\ event'.req.decoded => event'.req.bytes = Prefix(reqLen)
      <4>1. event'.uploaded => upload = "done"
        BY <2>2
      <4> QED BY <1>1, <2>3, <4>1 DEF RequestShown, Prefix, Bytes, Lesser
    <3>1. req = DecompressGzip(reqCapture, reqLen)
      BY <2>1 DEF CapturedRequests
    <3>2. reqCapture = Prefix(Lesser(reqRead, MaxCapture))
      BY DEF Inv, BodyUploaded
    <3> QED BY <2>2, <3>1, <3>2, DecompressesWhole
  <2> QED BY <2>4, <2>5, <2>6 DEF EventKept
<1>5. CASE RoundTripFails
  <2>1. /\ call = "roundtrip" /\ upload = "done" /\ call' = "returned"
        /\ UNCHANGED <<upload, reqRead, respRead>>
    BY <1>5 DEF RoundTripFails
  <2>2. respRead = 0
    BY <1>2, <2>1 DEF BodyRelayed
  <2>3. CASE kind = "proxied"
    <3>1. event' = [status |-> "badGateway", uri |-> request.uri, headers |-> request.headers,
                    answer |-> NoHeaders, error |-> TRUE, uploaded |-> TRUE,
                    req |-> DecompressGzip(reqCapture, reqLen), resp |-> DecompressGzip(<<>>, 0)]
      BY <1>5, <2>3 DEF RoundTripFails
    <3>2. event'.req = DecompressGzip(reqCapture, reqLen) /\ event'.resp = DecompressGzip(<<>>, 0)
      BY <3>1
    <3>3. event'.resp.bytes = <<>> /\ ~event'.resp.decoded
      <4>1. DecompressGzip(<<>>, 0).bytes = <<>>
        BY DEF DecompressGzip
      <4>2. DecompressGzip(<<>>, 0).decoded = (gzipped /\ 0 > 0 /\ <<>> = Bytes(1, 0))
        BY DEF DecompressGzip
      <4>3. ~(0 > 0)
        OBVIOUS
      <4>4. ~DecompressGzip(<<>>, 0).decoded
        BY <4>2, <4>3, Zenon
      <4> QED BY <3>2, <4>1, <4>4
    <3>4. Prefix(Lesser(respRead', MaxCapture)) = <<>>
      BY <2>1, <2>2, NoBytes, Numbers DEF Lesser, Inv
    <3>5. ResponseShown'
      BY <3>3, <3>4 DEF ResponseShown, Prefix, Bytes, Lesser
    <3>6. reqCapture = Prefix(Lesser(reqRead, MaxCapture))
      BY <2>1, <2>3 DEF Inv, BodyUploaded
    <3>7. /\ event'.req.bytes = Prefix(Lesser(reqRead, MaxCapture))
          /\ event'.req.decoded => event'.req.bytes = Prefix(reqLen)
      BY <3>2, <3>6, DecompressesWhole
    <3>8. RequestShown'
      BY <1>1, <2>1, <3>7 DEF RequestShown, Prefix, Bytes, Lesser
    <3> QED BY <1>1, <2>1, <2>3, <3>5, <3>8 DEF EventKept
  <2>4. CASE kind # "proxied"
    <3>1. event' = NoEvent
      BY <1>5, <2>4 DEF RoundTripFails
    <3> QED BY <3>1 DEF EventKept, ResponseShown, RequestShown, NoEvent
  <2> QED BY <2>3, <2>4
<1>6. CASE Upload
  BY <1>3, <1>6 DEF Upload, UploadStore, UploadEnds, UploadRead
<1>7. CASE Reject \/ BuildFails \/ RoundTrip \/ RoundTripReturns \/ EmitFaults
  <2>1. event' = event /\ call # "returned"
    BY <1>7 DEF Reject, BuildFails, RoundTrip, RoundTripReturns, EmitFaults
  <2> QED BY <1>3, <2>1
<1>8. CASE Relays \/ Write \/ WriteFails \/ ReadAll
  <2>1. event' = event /\ call # "returned"
    BY <1>8 DEF Relays, Relay, Write, WriteFails, AfterWrite, ReadAll
  <2> QED BY <1>3, <2>1
<1>9. CASE Answer \/ ClientLeaves \/ Ended \/ UNCHANGED vars
  BY <1>3, <1>9 DEF Answer, ClientLeaves, Ended
<1> QED BY <1>4, <1>5, <1>6, <1>7, <1>8, <1>9 DEF Next, Step

LEMMA InitInv == ASSUME Init PROVE Inv
<1>1. TypeOK
  <2>1. /\ kind \in Kinds /\ request \in Requests
        /\ reqLen \in 0..MaxBody /\ respLen \in 0..MaxBody
        /\ gzipped \in BOOLEAN /\ answered \in BOOLEAN
        /\ respEnd \in {"more", "eof", "error"}
    BY DEF Init
  <2>2. (sent = NoRequest) = (call \in {"new", "rejected"} \/ (call = "returned" /\ upload = "idle"))
    BY DEF Init
  <2>3. /\ call = "new" /\ upload = "idle" /\ client = "connected"
        /\ reqRead \in 0..reqLen /\ respRead \in 0..respLen
        /\ Len(reqCapture) <= MaxCapture /\ Len(respCapture) <= MaxCapture
    BY ExchangeAssumption DEF Init
  <2>4. clientHeaders \in Header
    BY EmptyHeader DEF Init
  <2> QED BY <2>1, <2>2, <2>3, <2>4 DEF TypeOK
<1>2. Routed
  BY DEF Init, Routed
<1>3. MaxCapture \in Nat /\ Lesser(0, MaxCapture) = 0
  BY ExchangeAssumption DEF Lesser
<1>4. BodyUploaded
  <2>1. 0 \in 0..reqRead /\ reqRead = 0 /\ chunk = Bytes(0 + 1, reqRead)
    BY NoBytes DEF Init
  <2>2. reqCapture = Prefix(Lesser(0, MaxCapture))
    BY <1>3, NoBytes DEF Init
  <2>3. reqCapture = IF kind = "proxied" THEN Prefix(Lesser(0, MaxCapture)) ELSE <<>>
    BY <2>2 DEF Init
  <2> QED BY <2>1, <2>3 DEF BodyUploaded
<1>5. BodyRelayed
  <2>1. respCapture = Prefix(Lesser(respRead, MaxCapture))
    BY <1>3, NoBytes DEF Init
  <2>2. /\ respRead \in Nat /\ clientGot = Prefix(respRead)
        /\ respRead <= respRead /\ unwritten = Bytes(respRead + 1, respRead)
    BY NoBytes DEF Init
  <2>3. /\ event.status # "upstream" /\ call = "new" /\ respRead = 0 /\ respEnd = "more"
        /\ unwritten = <<>>
    BY DEF Init, NoEvent
  <2> QED BY <2>1, <2>2, <2>3 DEF BodyRelayed
<1>6. EventKept
  BY DEF Init, EventKept, ResponseShown, RequestShown
<1>7. Headed
  BY DEF Init, Headed
<1> QED BY <1>1, <1>2, <1>4, <1>5, <1>6, <1>7 DEF Inv

(* No capture is longer than its limit, and a call has sent something      *)
(* exactly when its upload has begun.                                      *)
LEMMA TypeStep ==
  ASSUME Inv, [Next]_vars, Routed', BodyUploaded', Headed', BodyRelayed'
  PROVE  TypeOK'
<1> USE DEF vars, routeVars, reqVars, respVars, clientVars
<1>1. TypeOK
  BY DEF Inv
<1>2. /\ reqLen' = reqLen /\ respLen' = respLen
      /\ kind' \in Kinds /\ request' \in Requests
      /\ reqLen' \in 0..MaxBody /\ respLen' \in 0..MaxBody
  BY <1>1, Fixed DEF TypeOK
<1>3. gzipped' \in BOOLEAN
  BY <1>1, Fixed DEF TypeOK
<1>4. /\ MaxCapture \in Nat /\ ChunkSize \in Nat /\ reqLen \in Nat /\ respLen \in Nat
      /\ reqRead \in Nat /\ reqRead <= reqLen /\ respRead \in Nat /\ respRead <= respLen
  BY <1>1, Numbers
<1>5. call' \in {"new", "rejected", "roundtrip", "reading", "writing", "emitting", "returned",
                "panicked"}
      /\ upload' \in {"idle", "reading", "storing", "done"}
      /\ client' \in {"connected", "gone"}
  <2>1. CASE Upload
    BY <1>1, <2>1 DEF TypeOK, Upload, UploadStore, UploadEnds, UploadRead
  <2>2. CASE Step
    BY <1>1, <2>2 DEF TypeOK, Step, Reject, BuildFails, RoundTrip, RoundTripReturns, WriteFails,
                      AfterWrite, EmitEvent, EmitFaults
  <2>3. CASE Relays \/ Write \/ ReadAll \/ RoundTripFails
    BY <1>1, <2>3 DEF TypeOK, Relays, Relay, Write, AfterWrite, ReadAll, RoundTripFails
  <2>4. CASE Answer \/ ClientLeaves \/ Ended \/ UNCHANGED vars
    BY <1>1, <2>4 DEF TypeOK, Answer, ClientLeaves, Ended
  <2> QED BY <2>1, <2>2, <2>3, <2>4 DEF Next
<1>6. (sent = NoRequest)'
        = (call \in {"new", "rejected"} \/ (call = "returned" /\ upload = "idle"))'
  BY <1>5 DEF Routed
<1>7. answered' \in BOOLEAN /\ respEnd' \in {"more", "eof", "error"}
  <2>0. answered \in BOOLEAN /\ respEnd \in {"more", "eof", "error"}
    BY <1>1 DEF TypeOK
  <2>1. CASE Relays
    <3>1. PICK n \in 0..ChunkSize, end \in {"more", "eof", "error"} : Relay(n, end)
      BY <2>1 DEF Relays
    <3>2. respEnd' = end /\ answered' = answered
      BY <3>1 DEF Relay
    <3> QED BY <2>0, <3>2
  <2>2. CASE ReadAll
    <3>1. answered' = answered /\ respEnd' \in {"eof", "error"}
      BY <2>2 DEF ReadAll
    <3> QED BY <2>0, <3>1
  <2>3. CASE Answer
    BY <2>0, <2>3 DEF Answer
  <2>4. CASE Upload \/ Step \/ Write \/ RoundTripFails \/ ClientLeaves \/ Ended \/ UNCHANGED vars
    <3>1. answered' = answered /\ respEnd' = respEnd
      BY <2>4 DEF Upload, UploadStore, UploadEnds, UploadRead, Step, Reject, BuildFails, RoundTrip,
                  RoundTripReturns, Write, WriteFails, AfterWrite, EmitEvent, EmitFaults,
                  RoundTripFails, ClientLeaves, Ended
    <3> QED BY <2>0, <3>1
  <2> QED BY <2>1, <2>2, <2>3, <2>4 DEF Next
<1>8. reqRead' \in 0..reqLen'
  <2>1. CASE \E n \in 1..ChunkSize : UploadRead(n)
    <3>1. PICK n \in 1..ChunkSize : UploadRead(n)
      BY <2>1
    <3>2. UploadLen \in Nat /\ UploadLen <= reqLen
      BY <1>4, ReplayedRequest, LesserProperties, PrefixProperties DEF UploadLen
    <3>3. reqRead' = reqRead + n /\ n <= UploadLen - reqRead
      BY <3>1 DEF UploadRead
    <3> QED BY <1>2, <1>4, <3>2, <3>3
  <2>2. CASE UploadStore \/ UploadEnds \/ Step \/ Relays \/ Write
    BY <1>2, <1>4, <2>2
       DEF UploadStore, UploadEnds, Step, Reject, BuildFails, RoundTrip, RoundTripReturns,
           WriteFails, AfterWrite, EmitEvent, EmitFaults, Relays, Relay, Write
  <2>3. CASE ReadAll \/ RoundTripFails \/ Answer \/ ClientLeaves \/ Ended \/ UNCHANGED vars
    BY <1>2, <1>4, <2>3 DEF ReadAll, RoundTripFails, Answer, ClientLeaves, Ended
  <2> QED BY <2>1, <2>2, <2>3 DEF Next, Upload
<1>9. respRead' \in 0..respLen'
  <2>1. CASE Relays
    <3>1. PICK n \in 0..ChunkSize, end \in {"more", "eof", "error"} : Relay(n, end)
      BY <2>1 DEF Relays
    <3>2. respRead' = respRead + n /\ n <= respLen - respRead
      BY <3>1 DEF Relay
    <3> QED BY <1>2, <1>4, <3>2
  <2>2. CASE ReadAll
    <3>1. respRead' = respRead \/ respRead' = Lesser(respLen, MaxCapture)
      BY <2>2 DEF ReadAll
    <3> QED BY <1>2, <1>4, <3>1, LesserProperties
  <2>3. CASE Upload \/ Step \/ Write
    <3>1. respRead' = respRead
      BY <2>3 DEF Upload, UploadStore, UploadEnds, UploadRead, Step, Reject, BuildFails, RoundTrip,
                  RoundTripReturns, Write, WriteFails, AfterWrite, EmitEvent, EmitFaults
    <3> QED BY <1>2, <1>4, <3>1
  <2>4. CASE RoundTripFails \/ Answer \/ ClientLeaves \/ Ended \/ UNCHANGED vars
    BY <1>2, <1>4, <2>4 DEF RoundTripFails, Answer, ClientLeaves, Ended
  <2> QED BY <2>1, <2>2, <2>3, <2>4 DEF Next
<1>10. Len(reqCapture') <= MaxCapture
  <2>1. PICK stored \in 0..reqRead' :
          reqCapture' = IF kind' = "proxied" THEN Prefix(Lesser(stored, MaxCapture)) ELSE <<>>
    BY DEF BodyUploaded, Prefix, Bytes, Lesser
  <2>2. stored \in Nat
    BY <1>8, <1>4
  <2>3. Len(Prefix(Lesser(stored, MaxCapture))) <= MaxCapture /\ Len(<<>>) <= MaxCapture
    BY <1>4, <2>2, LesserProperties, PrefixProperties
  <2> QED BY <2>1, <2>3
<1>11. Len(respCapture') <= MaxCapture
  <2>1. respCapture' = Prefix(Lesser(respRead', MaxCapture))
    BY DEF BodyRelayed, Prefix, Bytes, Lesser
  <2>2. respRead' \in Nat
    BY <1>9
  <2> QED BY <1>4, <2>1, <2>2, LesserProperties, PrefixProperties
<1>12. clientHeaders' \in Header
  <2>1. clientHeaders' \in {NoHeaders, removeHopByHop(request.answer)}
    <3>1. request' = request
      BY Fixed
    <3> QED BY <3>1 DEF Headed, NoHeaders, removeHopByHop
  <2>2. request.answer \in Header
    BY <1>1, RequestParts
  <2> QED BY <2>1, <2>2, EmptyHeader, WithoutHopByHop
<1> QED BY <1>2, <1>3, <1>5, <1>6, <1>7, <1>8, <1>9, <1>10, <1>11, <1>12 DEF TypeOK

(* The invariant holds of every exchange, proxied or replayed: each step of*)
(* ServeHTTP, Replay, the transport and the client keeps it.               *)
THEOREM AlwaysInv == Spec => []Inv
<1>1. Init => Inv
  BY InitInv
<1>2. Inv /\ [Next]_vars => Inv'
  <2> SUFFICES ASSUME Inv, [Next]_vars PROVE Inv'
    OBVIOUS
  <2>1. Routed' /\ BodyUploaded' /\ Headed' /\ BodyRelayed' /\ EventKept'
    BY RoutedStep, BodyUploadedStep, HeadedStep, BodyRelayedStep, EventKeptStep
  <2> QED BY <2>1, TypeStep DEF Inv
<1> QED BY <1>1, <1>2, PTL DEF Spec

-------------------------------------------------------------------------------
(* The states and the captures of an exchange stay well formed: the two    *)
(* captures within the limit CaptureReader and the relay loop were given,  *)
(* and a request handed to the transport exactly by a call that got so far.*)
THEOREM TypeCorrect == Spec => []TypeOK
<1>1. Inv => TypeOK
  BY DEF Inv
<1> QED BY <1>1, AlwaysInv, PTL

(* For bodies, chunks and limits of any size, every event shows exactly    *)
(* what was read of the response, up to the limit, and expands it only     *)
(* when it is whole (the relay loop of ServeHTTP, ReadAll in Replay).      *)
THEOREM EventShowsResponse == Spec => []ResponseShown
<1>1. Inv => ResponseShown
  BY DEF Inv, EventKept
<1> QED BY <1>1, AlwaysInv, PTL

(* The same of the request, read by the transport's goroutine through      *)
(* CaptureReader, in every event emitted after the upload has ended.       *)
THEOREM EventShowsRequest == Spec => []RequestShown
<1>1. Inv => RequestShown
  BY DEF Inv, EventKept
<1> QED BY <1>1, AlwaysInv, PTL

(* The relay loop gives a client the upstream's bytes in order, and one    *)
(* that stays gets all of them unless the upstream breaks off: capturing   *)
(* them costs it nothing.  They come under the upstream's headers without  *)
(* the hop-by-hop ones.                                                    *)
THEOREM ClientIsServed == Spec => []ClientGetsAll
<1>1. Inv => ClientGetsAll
  <2> SUFFICES ASSUME Inv PROVE ClientGetsAll
    OBVIOUS
  <2>1. PICK got \in Nat :
          /\ clientGot = Prefix(got)
          /\ (kind = "proxied" /\ client = "connected") =>
               got <= respRead /\ unwritten = Bytes(got + 1, respRead)
    BY DEF Inv, BodyRelayed
  <2>2. clientGot = Prefix(Len(clientGot))
    BY <2>1, PrefixProperties
  <2>3. ASSUME kind = "proxied", call = "returned", event.status = "upstream",
               client = "connected", respEnd # "error"
        PROVE  clientGot = Prefix(respLen)
    <3>1. respRead \in Nat /\ unwritten = <<>> /\ respRead = respLen
      BY <2>3, Numbers DEF Inv, BodyRelayed, TypeOK
    <3>2. Len(unwritten) = respRead - got /\ Len(unwritten) = 0
      BY <2>1, <2>3, <3>1, BytesProperties
    <3>3. got = respRead
      BY <2>1, <3>1, <3>2
    <3> QED BY <2>1, <3>1, <3>3
  <2>4. ASSUME kind = "proxied", clientGot # <<>>, NEW k \in HeaderNames
        PROVE  clientHeaders[k] = IF k \in hopByHopHeaders THEN <<>> ELSE request.answer[k]
    BY <2>4 DEF Inv, Headed, removeHopByHop
  <2> QED BY <2>2, <2>3, <2>4 DEF ClientGetsAll
<1> QED BY <1>1, AlwaysInv, PTL

(* What is sent has the URL that buildUpstreamURL makes of the request's.  *)
LEMMA SentURL ==
  ASSUME Inv, sent # NoRequest
  PROVE  sent.url = buildUpstreamURL(request.upstream, request.uri)
<1>1. sent = SentRequest
  BY DEF Inv, Routed
<1>2. CASE kind = "proxied"
  BY <1>1, <1>2 DEF SentRequest, Forwarded
<1>3. CASE kind # "proxied"
  BY <1>1, <1>3, ReplayedRequest DEF SentRequest, Resent
<1> QED BY <1>2, <1>3

(* For every upstream and every request, ServeHTTP and Replay ask for the  *)
(* path that was asked for under the upstream's, as long as it has no      *)
(* escape in it, and ServeHTTP passes on every line of the end-to-end      *)
(* headers and no hop-by-hop header, with the client in X-Forwarded-For.   *)
THEOREM RequestReachesUpstream == Spec => []UpstreamSeesRequest
<1>1. Inv => UpstreamSeesRequest
  <2> SUFFICES ASSUME Inv, sent # NoRequest
               PROVE  UpstreamSeesRequest
    BY DEF UpstreamSeesRequest
  <2> DEFINE path == request.uri.path
             lines == request.headers["X-Forwarded-For"]
  <2>1. request.upstream.path \in Path /\ path \in Path /\ request.headers \in Header
    BY RequestParts DEF Inv
  <2>2. ASSUME \A i \in DOMAIN path : path[i].level = 0
        PROVE  sent.url.path = Under(request.upstream.path, path)
    <3>1. Escaped(path) = path
      BY <2>1, <2>2, NothingToEscape
    <3>2. sent.url.path = singleJoiningSlash(request.upstream.path, path)
      BY <3>1, SentURL DEF buildUpstreamURL
    <3> QED BY <2>1, <3>2, OneSlash DEF Under
  <2>3. sent.url.query = IF request.uri.query = <<>> THEN request.upstream.query
                        ELSE request.uri.query
    BY SentURL DEF buildUpstreamURL
  <2>4. ASSUME kind = "proxied"
        PROVE  /\ sent.headers["Connection"] = <<>>
               /\ \A k \in {"Accept", "Content-Encoding"} : sent.headers[k] = request.headers[k]
               /\ Last(FlattenSeq(sent.headers["X-Forwarded-For"])) = Client
               /\ Len(lines) <= 1 =>
                    FlattenSeq(sent.headers["X-Forwarded-For"]) = FlattenSeq(lines) \o <<Client>>
    <3>1. sent.headers
            = ForwardedFor(removeHopByHop(copyHeaders(NoHeaders, request.headers)), Client)
      BY <2>4 DEF Inv, Routed, SentRequest, Forwarded
    <3> QED BY <2>1, <3>1, ForwardedHeaders
  <2> QED BY <2>2, <2>3, <2>4 DEF UpstreamSeesRequest, Members
<1> QED BY <1>1, AlwaysInv, PTL

(* An unedited replay, through either viewer, sends what the client sent:  *)
(* no member of an end-to-end header is lost or added, and a body within   *)
(* the limit that was not expanded is the original's.                      *)
THEOREM ReplayIsFaithful == Spec => []ReplayRepeats
<1>1. Inv => ReplayRepeats
  <2> SUFFICES ASSUME Inv, kind # "proxied", sent # NoRequest
               PROVE  ReplayRepeats
    BY DEF ReplayRepeats
  <2>1. sent = Resent(request.upstream, Replayed)
    BY DEF Inv, Routed, SentRequest
  <2>2. Replayed.headers = unflattenHeaders(flattenHeaders(request.headers))
    BY ReplayedRequest
  <2>4. \A k \in HeaderNames : Members(sent.headers, k) = Members(request.headers, k)
    <3>1. sent.headers = unflattenHeaders(flattenHeaders(request.headers))
      BY <2>1, <2>2, CopyUnflattened DEF Resent
    <3> QED BY <3>1, ViewerKeepsMembers DEF Members
  <2>5. ASSUME event # NoEvent, reqLen <= MaxCapture, ~gzipped, request.text \/ kind = "web"
        PROVE  event.req = [bytes |-> Prefix(reqLen), decoded |-> FALSE, mangled |-> FALSE]
    <3>1. event.req = Replayed.body
      BY <2>5 DEF Inv, EventKept
    <3>2. Bytes(1, Lesser(reqLen, MaxCapture)) = Prefix(reqLen)
      <4>1. reqLen \in Nat /\ MaxCapture \in Nat
        BY Numbers DEF Inv
      <4> QED BY <2>5, <4>1, LesserProperties DEF Prefix
    <3>3. Recorded.body = [bytes |-> Prefix(reqLen), decoded |-> FALSE]
      BY <2>5, <3>2 DEF Recorded, DecompressGzip
    <3>4. Viewed(Recorded).body = [bytes |-> Prefix(reqLen), decoded |-> FALSE]
      BY <3>3 DEF Viewed
    <3>5. CASE kind = "web"
      BY <3>1, <3>4, <3>5 DEF Replayed, FromPage
    <3>6. CASE kind # "web"
      <4> DEFINE text == request.text /\ (gzipped => Recorded.body.decoded)
      <4>1. text
        BY <2>5, <3>6
      <4> HIDE DEF text
      <4>2. (~text /\ Viewed(Recorded).body.bytes # <<>>) = FALSE
        BY <4>1
      <4>3. FromTui(Viewed(Recorded), text).body
              = [bytes |-> Viewed(Recorded).body.bytes, decoded |-> Viewed(Recorded).body.decoded,
                 mangled |-> ~text /\ Viewed(Recorded).body.bytes # <<>>]
        BY DEF FromTui
      <4>4. /\ Viewed(Recorded).body.bytes = Prefix(reqLen)
            /\ Viewed(Recorded).body.decoded = FALSE
        BY <3>4
      <4>5. FromTui(Viewed(Recorded), text).body
              = [bytes |-> Prefix(reqLen), decoded |-> FALSE, mangled |-> FALSE]
        BY <4>2, <4>3, <4>4, Zenon
      <4> QED BY <3>1, <3>6, <4>5 DEF Replayed, text
    <3> QED BY <3>5, <3>6
  <2> QED BY <2>4, <2>5 DEF ReplayRepeats
<1> QED BY <1>1, AlwaysInv, PTL

(* A longer body is longer in base64.                                      *)
LEMMA Base64Grows ==
  ASSUME NEW a \in Nat, NEW b \in Nat, a <= b
  PROVE  Base64(a) \in Nat /\ Base64(b) \in Nat /\ Base64(a) <= Base64(b)
<1>1. \A n \in Nat : (n + 2) \div 3 \in Nat
  OBVIOUS
<1>2. (a + 2) \div 3 <= (b + 2) \div 3
  OBVIOUS
<1>3. \A x, y \in Nat : x <= y => 4 * x \in Nat /\ 4 * y \in Nat /\ 4 * x <= 4 * y
  OBVIOUS
<1> QED BY <1>1, <1>2, <1>3 DEF Base64

(* handleReplay rejects a request that the page offers to replay only if   *)
(* it was shown expanded beyond the limit, or if its path and headers      *)
(* leave no room for a full body in what handleReplay reads: both limits   *)
(* let a body pass that was cut exactly at the limit.                      *)
THEOREM PageReplayPasses == Spec => []PageCanReplay
<1>1. Inv => PageCanReplay
  <2> SUFFICES ASSUME Inv, call = "rejected", ~ByHand(request), ~(gzipped /\ request.expands)
               PROVE  request.envelope + Base64(MaxCapture) > 2 * MaxCapture
    BY DEF PageCanReplay
  <2> DEFINE size == BodySize(Replayed.body)
  <2>1. ~Valid(Replayed, request.flaw, request.envelope, size, MaxCapture)
    BY DEF Inv, Routed, Passes
  <2>2. request.flaw = "none" /\ StartsWithSlash(Replayed.uri.path)
    BY ReplayedRequest DEF ByHand
  <2>3. reqLen \in Nat /\ MaxCapture \in Nat /\ request.envelope \in Nat
    BY Numbers, RequestParts DEF Inv
  <2>4. size \in Nat /\ size <= MaxCapture
    <3>1. Lesser(reqLen, MaxCapture) \in Nat /\ Lesser(reqLen, MaxCapture) <= MaxCapture
      BY <2>3, LesserProperties
    <3>2. Len(Replayed.body.bytes) = Lesser(reqLen, MaxCapture)
      BY <3>1, ReplayedRequest, PrefixProperties
    <3>3. size = Len(Replayed.body.bytes)
      BY ReplayedRequest DEF BodySize
    <3> QED BY <3>1, <3>2, <3>3
  <2> HIDE DEF size
  <2>5. ~(request.envelope + Base64(size) <= 2 * MaxCapture)
    BY <2>1, <2>2, <2>4 DEF Valid
  <2>6. Base64(size) \in Nat /\ Base64(MaxCapture) \in Nat /\ Base64(size) <= Base64(MaxCapture)
    BY <2>3, <2>4, Base64Grows
  <2> QED BY <2>3, <2>5, <2>6
<1> QED BY <1>1, AlwaysInv, PTL

-------------------------------------------------------------------------------
(* The exchange implements a handler.                                      *)

HandlerState == <<Stage, event>>

LEMMA StagesDiffer ==
  /\ call = "new" => Stage = "new"
  /\ call \in {"roundtrip", "reading", "writing", "emitting"} => Stage = "sent"
  /\ call = "returned" /\ event # NoEvent => Stage = "emitted"
  /\ call \in {"rejected", "panicked"} \/ (call = "returned" /\ event = NoEvent) => Stage = "failed"
<1> USE DEF Stage
<1>1. CASE call = "new"
  BY <1>1
<1>2. CASE call \in {"roundtrip", "reading", "writing", "emitting"}
  BY <1>2
<1>3. CASE call = "returned"
  BY <1>3
<1>4. CASE call \in {"rejected", "panicked"}
  BY <1>4
<1> QED BY <1>1, <1>2, <1>3, <1>4

(* What a call emits has a status, so it is an event.                      *)
LEMMA EmitsAnEvent ==
  ASSUME EmitEvent \/ (RoundTripFails /\ kind = "proxied")
  PROVE  event' # NoEvent
<1>1. event'.status \in {"upstream", "badGateway"}
  <2>1. CASE EmitEvent
    BY <2>1 DEF EmitEvent
  <2>2. CASE RoundTripFails /\ kind = "proxied"
    BY <2>2 DEF RoundTripFails
  <2> QED BY <2>1, <2>2
<1>2. NoEvent.status = "none"
  BY DEF NoEvent
<1> QED BY <1>1, <1>2

LEMMA InitIsHandlerInit == Init => AsHandler!HandlerInit
BY StagesDiffer DEF Init, AsHandler!HandlerInit

LEMMA NextIsHandlerNext == Inv /\ [Next]_vars => [AsHandler!HandlerNext]_HandlerState
<1> SUFFICES ASSUME Inv, [Next]_vars
             PROVE  AsHandler!HandlerNext \/ UNCHANGED HandlerState
  OBVIOUS
<1> USE DEF vars, routeVars, reqVars, respVars, clientVars
<1>1. /\ call' = "new" => Stage' = "new"
      /\ call' \in {"roundtrip", "reading", "writing", "emitting"} => Stage' = "sent"
      /\ call' = "returned" /\ event' # NoEvent => Stage' = "emitted"
      /\ call' \in {"rejected", "panicked"} \/ (call' = "returned" /\ event' = NoEvent)
           => Stage' = "failed"
  <2>1. NoEvent' = NoEvent
    BY DEF NoEvent
  <2>2. CASE call' = "new"
    BY <2>1, <2>2 DEF Stage
  <2>3. CASE call' \in {"roundtrip", "reading", "writing", "emitting"}
    BY <2>1, <2>3 DEF Stage
  <2>4. CASE call' = "returned"
    BY <2>1, <2>4 DEF Stage
  <2>5. CASE call' \in {"rejected", "panicked"}
    BY <2>1, <2>5 DEF Stage
  <2> QED BY <2>2, <2>3, <2>4, <2>5
<1>2. event # NoEvent => call = "returned"
  BY DEF Inv, EventKept
<1>3. CASE Upload \/ Answer \/ ClientLeaves \/ Ended \/ UNCHANGED vars
  <2>1. call' = call /\ event' = event
    BY <1>3 DEF Upload, UploadStore, UploadEnds, UploadRead, Answer, ClientLeaves, Ended
  <2>2. Stage' = Stage
    BY <2>1 DEF Stage, NoEvent
  <2> QED BY <2>1, <2>2 DEF HandlerState
<1>4. CASE RoundTrip
  <2>1. Stage = "new" /\ Stage' = "sent" /\ event' = event
    BY <1>1, <1>4, StagesDiffer DEF RoundTrip
  <2> QED BY <2>1 DEF AsHandler!HandlerNext, AsHandler!Send
<1>5. CASE Reject \/ BuildFails
  <2>1. /\ call = "new" /\ call' \in {"rejected", "returned"}
        /\ event' = event /\ event = NoEvent
    BY <1>2, <1>5 DEF Reject, BuildFails
  <2>2. Stage = "new" /\ Stage' = "failed"
    BY <1>1, <2>1, StagesDiffer
  <2> QED BY <2>1, <2>2 DEF AsHandler!HandlerNext, AsHandler!Fail
<1>6. CASE RoundTripReturns \/ Relays \/ Write \/ WriteFails
  <2>1. /\ call \in {"roundtrip", "reading", "writing"}
        /\ call' \in {"reading", "writing", "emitting"}
        /\ event' = event
    BY <1>6 DEF RoundTripReturns, Relays, Relay, Write, WriteFails, AfterWrite
  <2>2. Stage = "sent" /\ Stage' = "sent"
    BY <1>1, <2>1, StagesDiffer
  <2> QED BY <2>1, <2>2 DEF HandlerState
<1>7. CASE EmitEvent \/ (RoundTripFails /\ kind = "proxied")
  <2>1. call \in {"roundtrip", "emitting"} /\ call' = "returned" /\ event' # NoEvent
    BY <1>7, EmitsAnEvent DEF EmitEvent, RoundTripFails
  <2>2. Stage = "sent" /\ Stage' = "emitted"
    BY <1>1, <2>1, StagesDiffer
  <2> QED BY <2>1, <2>2 DEF AsHandler!HandlerNext, AsHandler!Emit
<1>8. CASE EmitFaults \/ (RoundTripFails /\ kind # "proxied")
  <2>1. /\ call \in {"roundtrip", "emitting"} /\ call' \in {"returned", "panicked"}
        /\ event' = event /\ event = NoEvent
    BY <1>2, <1>8 DEF EmitFaults, RoundTripFails
  <2>2. Stage = "sent" /\ Stage' = "failed"
    BY <1>1, <2>1, StagesDiffer
  <2> QED BY <2>1, <2>2 DEF AsHandler!HandlerNext, AsHandler!Fail
<1>9. CASE ReadAll
  <2>1. /\ call = "reading" /\ call' \in {"emitting", "returned"}
        /\ event' = event /\ event = NoEvent
    BY <1>2, <1>9 DEF ReadAll
  <2>2. Stage = "sent" /\ Stage' \in {"sent", "failed"}
    BY <1>1, <2>1, StagesDiffer
  <2> QED BY <2>1, <2>2 DEF HandlerState, AsHandler!HandlerNext, AsHandler!Fail
<1> QED BY <1>3, <1>4, <1>5, <1>6, <1>7, <1>8, <1>9 DEF Next, Step

(* ServeHTTP and Replay, with a goroutine that goes on uploading beside    *)
(* them and a client that may leave, are what the daemon takes a handler   *)
(* to be: one event at most, at the end, of an exchange that was sent,     *)
(* and nothing changes it any more.                                        *)
THEOREM ImplementsHandler == Spec => EmitsOnce
<1>1. AsHandler!HandlerInit /\ [][AsHandler!HandlerNext]_HandlerState => AsHandler!HandlerSpec
  BY DEF AsHandler!HandlerSpec, AsHandler!handlerVars, HandlerState
<1>2. Spec => AsHandler!HandlerInit /\ [][AsHandler!HandlerNext]_HandlerState
  BY AlwaysInv, InitIsHandlerInit, NextIsHandlerNext, PTL DEF Spec
<1> QED BY <1>1, <1>2, PTL DEF EmitsOnce

===============================================================================

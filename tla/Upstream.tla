------------------------------- MODULE Upstream -------------------------------
(***************************************************************************)
(* What a request becomes on its way to the upstream, and what a captured  *)
(* request becomes on its way through a viewer and back: the URL and the   *)
(* headers in proxy/reverse_proxy.go, the conversions in server/server.go  *)
(* and web/web.go and the JSON of "edit & resend" in tui/model.go.         *)
(*                                                                         *)
(* A path is the sequence of its slashes and names.  The level of a name   *)
(* says how often something in it has been percent-escaped (0: nothing in  *)
(* it needs that).  A query is <<>> when there is no "?", else <<text>>;   *)
(* it is passed on as it is.                                               *)
(*                                                                         *)
(* A header is the sequence of its lines and a line the sequence of its    *)
(* comma-separated members; an absent header is <<>>.  The flattened form  *)
(* that goes to the viewers has one line for each header that is there.    *)
(***************************************************************************)
EXTENDS Integers, Sequences, SequencesExt

Slash == [name |-> "/", level |-> 0]

(* Connection stands for the eight of the list. *)
hopByHopHeaders == {"Connection"}
HeaderNames == hopByHopHeaders \cup {"Accept", "Content-Encoding", "X-Forwarded-For"}
NoHeaders == [k \in HeaderNames |-> <<>>]

URL == [path : Seq([name : STRING, level : Nat]), query : Seq(STRING)]
Header == [HeaderNames -> Seq(Seq(STRING))]

StartsWithSlash(path) == path # <<>> /\ Head(path) = Slash
EndsWithSlash(path) == path # <<>> /\ Last(path) = Slash

-------------------------------------------------------------------------------
(* URL *)

singleJoiningSlash(a, b) ==
  CASE EndsWithSlash(a) /\ StartsWithSlash(b) -> a \o Tail(b)
    [] ~EndsWithSlash(a) /\ ~StartsWithSlash(b) -> a \o <<Slash>> \o b
    [] OTHER -> a \o b

(* url.URL.String of an escaped path that was put into Path: it is taken   *)
(* for a decoded one, and what needs it is escaped, percent signs too.     *)
Escaped(path) ==
  [i \in DOMAIN path |-> IF path[i].level > 0 THEN [path[i] EXCEPT !.level = @ + 1] ELSE path[i]]

(* The upstream's path was decoded by url.Parse in New and String escapes  *)
(* it again: it stays as configured.  The request's comes as it was sent.  *)
(* The upstream's own query is kept for a request without one.             *)
buildUpstreamURL(upstream, uri) ==
  [path |-> singleJoiningSlash(upstream.path, Escaped(uri.path)),
   query |-> IF uri.query = <<>> THEN upstream.query ELSE uri.query]

-------------------------------------------------------------------------------
(* Headers *)

(* dst.Set instead of dst.Add. *)
copyHeadersSet(dst, src) ==
  [k \in HeaderNames |-> IF src[k] = <<>> THEN dst[k] ELSE <<Last(src[k])>>]

copyHeaders(dst, src) == [k \in HeaderNames |-> dst[k] \o src[k]]

removeHopByHop(h) == [k \in HeaderNames |-> IF k \in hopByHopHeaders THEN <<>> ELSE h[k]]

(* http.Header.Get: the first line. *)
Get(h, k) == IF h[k] = <<>> THEN <<>> ELSE Head(h[k])

(* X-Forwarded-For in ServeHTTP: the client is put at the end of the first *)
(* line, which replaces all lines.                                         *)
ForwardedFor(h, ip) ==
  [h EXCEPT !["X-Forwarded-For"] = <<Append(Get(h, "X-Forwarded-For"), ip)>>]

(* The outgoing request of ServeHTTP and of Replay. *)
Forwarded(upstream, r, ip) ==
  [url |-> buildUpstreamURL(upstream, r.uri),
   headers |-> ForwardedFor(removeHopByHop(copyHeaders(NoHeaders, r.headers)), ip)]

Resent(upstream, r) ==
  [url |-> buildUpstreamURL(upstream, r.uri), headers |-> copyHeaders(NoHeaders, r.headers)]

-------------------------------------------------------------------------------
(* Through a viewer and back *)

flattenHeaders(h) == [k \in {n \in HeaderNames : h[n] # <<>>} |-> FlattenSeq(h[k])]

(* Set for every key of the map, also in handleReplay. *)
unflattenHeaders(m) == [k \in HeaderNames |-> IF k \in DOMAIN m THEN <<m[k]>> ELSE <<>>]

(* eventToProto and eventToJSON: what a viewer holds of an event's request.*)
Viewed(ev) == [uri |-> ev.uri, headers |-> flattenHeaders(ev.headers), body |-> ev.body]

(* editAndResend, nothing edited: the body goes through a JSON string,     *)
(* where bytes that are not UTF-8 are replaced.                            *)
FromTui(seen, text) ==
  [uri |-> seen.uri, headers |-> unflattenHeaders(seen.headers),
   body |-> [bytes |-> seen.body.bytes, decoded |-> seen.body.decoded,
             mangled |-> ~text /\ seen.body.bytes # <<>>]]

(* The page's replay: the body stays in base64. *)
FromPage(seen) ==
  [uri |-> seen.uri, headers |-> unflattenHeaders(seen.headers),
   body |-> [bytes |-> seen.body.bytes, decoded |-> seen.body.decoded, mangled |-> FALSE]]

(* The length of n bytes in base64. *)
Base64(n) == 4 * ((n + 2) \div 3)

(* The limit itself is too large. *)
ValidBelowLimit(r, flaw, envelope, size, limit) ==
  /\ flaw = "none"
  /\ envelope + Base64(size) <= 2 * limit
  /\ StartsWithSlash(r.uri.path)
  /\ size < limit

(* handleReplay goes on.  The JSON it reads has the body in base64 and an  *)
(* envelope: the method, the path and the headers.  It is read up to twice *)
(* the limit.  The flaw is "json", "method" or "base64".                   *)
Valid(r, flaw, envelope, size, limit) ==
  /\ flaw = "none"
  /\ envelope + Base64(size) <= 2 * limit
  /\ StartsWithSlash(r.uri.path)
  /\ size <= limit

=============================================================================

----------------------------- MODULE UpstreamProofs -----------------------------
(***************************************************************************)
(* What the operators of Upstream do to any path and any headers: the way  *)
(* of a request to the upstream first, then its way through a viewer and   *)
(* back.                                                                   *)
(***************************************************************************)
EXTENDS Upstream, SequenceTheorems, TLAPS

Segment == [name : STRING, level : Nat]
Path == Seq(Segment)

-------------------------------------------------------------------------------
(* URL *)

(* A sequence and the two ends of it. *)
LEMMA FrontAndLast ==
  ASSUME NEW S, NEW s \in Seq(S), s # <<>>
  PROVE  Front(s) \in Seq(S) /\ Front(s) \o <<Last(s)>> = s
<1>1. Len(s) \in Nat /\ Len(s) >= 1
  BY EmptySeq
<1>2. \A i \in 1..(Len(s) - 1) : s[i] \in S
  BY <1>1, ElementOfSeq
<1>3. SubSeq(s, 1, Len(s) - 1) \in Seq(S)
  <2>1. 1 \in Int /\ Len(s) - 1 \in Int
    BY <1>1
  <2> QED BY ONLY <2>1, <1>2, SubSeqProperties
<1>4. SubSeq(s, 1, Len(s)) = SubSeq(s, 1, Len(s) - 1) \o <<s[Len(s)]>>
  <2>1. 1 \in 1..Len(s) /\ Len(s) \in 1..Len(s)
    BY <1>1
  <2> QED BY <2>1, SubSeqRecursiveSecond
<1> QED BY <1>3, <1>4, SubSeqFull DEF Front, Last

LEMMA HeadAndTail ==
  ASSUME NEW S, NEW s \in Seq(S), s # <<>>
  PROVE  Tail(s) \in Seq(S) /\ <<Head(s)>> \o Tail(s) = s
<1>1. Len(s) \in Nat /\ Len(s) >= 1
  BY EmptySeq
<1>2. Tail(s) \in Seq(S) /\ Tail(s) = SubSeq(s, 2, Len(s))
  BY HeadTailProperties, TailIsSubSeq
<1>3. SubSeq(s, 1, Len(s)) = <<s[1]>> \o SubSeq(s, 1 + 1, Len(s))
  <2>1. 1 \in 1..Len(s) /\ Len(s) \in 1..Len(s)
    BY <1>1
  <2> QED BY <2>1, SubSeqRecursiveFirst
<1>4. SubSeq(s, 1, Len(s)) = s /\ s[1] = Head(s) /\ 1 + 1 = 2
  BY SubSeqFull
<1> QED BY <1>2, <1>3, <1>4

(* Where the paths meet there is one slash, whichever side brought it.     *)
LEMMA OneSlash ==
  ASSUME NEW base \in Path, NEW path \in Path
  PROVE  singleJoiningSlash(base, path)
           = (IF EndsWithSlash(base) THEN Front(base) ELSE base)
               \o (IF StartsWithSlash(path) THEN path ELSE <<Slash>> \o path)
<1> DEFINE S == Segment \cup {Slash}
<1>1. <<Slash>> \in Seq(S) /\ base \in Seq(S) /\ path \in Seq(S)
  <2>1. Segment \subseteq S /\ Slash \in S
    OBVIOUS
  <2>2. base \in Seq(S) /\ path \in Seq(S)
    BY <2>1, SeqMonotonic DEF Path
  <2> HIDE DEF S
  <2>3. <<Slash>> \in Seq(S)
    BY <2>1
  <2> QED BY <2>2, <2>3
<1> HIDE DEF S
<1>2. CASE ~EndsWithSlash(base) /\ StartsWithSlash(path)
  BY <1>2 DEF singleJoiningSlash
<1>3. CASE ~EndsWithSlash(base) /\ ~StartsWithSlash(path)
  <2>1. (base \o <<Slash>>) \o path = base \o (<<Slash>> \o path)
    BY <1>1, ConcatAssociative
  <2> QED BY <1>3, <2>1 DEF singleJoiningSlash
<1>4. CASE EndsWithSlash(base)
  <2> DEFINE front == Front(base)
  <2>1. front \in Seq(S) /\ front \o <<Slash>> = base
    BY <1>1, <1>4, FrontAndLast DEF EndsWithSlash
  <2> HIDE DEF front
  <2>2. CASE StartsWithSlash(path)
    <3> DEFINE rest == Tail(path)
    <3>1. rest \in Seq(S) /\ <<Slash>> \o rest = path
      BY <1>1, <2>2, HeadAndTail DEF StartsWithSlash
    <3> HIDE DEF rest
    <3>2. (front \o <<Slash>>) \o rest = front \o (<<Slash>> \o rest)
      <4>1. front \in Seq(S) /\ <<Slash>> \in Seq(S) /\ rest \in Seq(S)
        BY <1>1, <2>1, <3>1
      <4> QED BY ONLY <4>1, ConcatAssociative
    <3>3. base \o rest = front \o path
      BY <2>1, <3>1, <3>2
    <3> QED BY <1>4, <2>2, <3>3 DEF singleJoiningSlash, front, rest
  <2>3. CASE ~StartsWithSlash(path)
    <3>1. (front \o <<Slash>>) \o path = front \o (<<Slash>> \o path)
      BY <1>1, <2>1, ConcatAssociative
    <3>2. base \o path = front \o (<<Slash>> \o path)
      BY <2>1, <3>1
    <3> QED BY <1>4, <2>3, <3>2 DEF singleJoiningSlash, front
  <2> QED BY <2>2, <2>3
<1> QED BY <1>2, <1>3, <1>4

(* Without an escape in it a path is not changed by escaping.              *)
LEMMA NothingToEscape ==
  ASSUME NEW p \in Path, \A i \in DOMAIN p : p[i].level = 0
  PROVE  Escaped(p) = p
<1>1. \A i \in DOMAIN p : (IF p[i].level > 0 THEN [p[i] EXCEPT !.level = @ + 1] ELSE p[i]) = p[i]
  OBVIOUS
<1>2. p = [i \in DOMAIN p |-> p[i]]
  BY LenProperties DEF Path
<1> QED BY <1>1, <1>2 DEF Escaped

-------------------------------------------------------------------------------
(* Headers *)

(* Copied into an empty header, a header is what it was. *)
LEMMA CopyIsSame == ASSUME NEW h \in Header PROVE copyHeaders(NoHeaders, h) = h
<1>1. ASSUME NEW k \in HeaderNames PROVE NoHeaders[k] \o h[k] = h[k]
  <2>1. h[k] \in Seq(Seq(STRING)) /\ NoHeaders[k] = <<>>
    BY DEF Header, NoHeaders
  <2> QED BY <2>1, ConcatEmptySeq
<1>2. h = [k \in HeaderNames |-> h[k]]
  BY DEF Header
<1> QED BY <1>1, <1>2 DEF copyHeaders

LEMMA EmptyHeader == NoHeaders \in Header
<1>1. \A k \in HeaderNames : <<>> \in Seq(Seq(STRING))
  BY EmptySeq
<1> QED BY <1>1 DEF NoHeaders, Header

LEMMA WithoutHopByHop == ASSUME NEW h \in Header PROVE removeHopByHop(h) \in Header
<1>1. ASSUME NEW k \in HeaderNames
      PROVE  (IF k \in hopByHopHeaders THEN <<>> ELSE h[k]) \in Seq(Seq(STRING))
  <2>1. h[k] \in Seq(Seq(STRING)) /\ <<>> \in Seq(Seq(STRING))
    BY EmptySeq DEF Header
  <2> QED BY <2>1
<1>2. [k \in HeaderNames |-> IF k \in hopByHopHeaders THEN <<>> ELSE h[k]]
        \in [HeaderNames -> Seq(Seq(STRING))]
  BY <1>1
<1> QED BY <1>2 DEF removeHopByHop, Header

(* Also a header that came back from a viewer. *)
LEMMA CopyUnflattened ==
  ASSUME NEW m PROVE copyHeaders(NoHeaders, unflattenHeaders(m)) = unflattenHeaders(m)
<1>1. ASSUME NEW k \in HeaderNames
      PROVE  NoHeaders[k] \o unflattenHeaders(m)[k] = unflattenHeaders(m)[k]
  <2>1. NoHeaders[k] = <<>>
    BY DEF NoHeaders
  <2>2. unflattenHeaders(m)[k] = IF k \in DOMAIN m THEN <<m[k]>> ELSE <<>>
    BY DEF unflattenHeaders
  <2>3. <<m[k]>> \in Seq({m[k]}) /\ <<>> \in Seq({m[k]})
    OBVIOUS
  <2>4. unflattenHeaders(m)[k] \in Seq({m[k]})
    BY <2>2, <2>3
  <2> QED BY <2>1, <2>4, ConcatEmptySeq
<1>2. unflattenHeaders(m) = [k \in HeaderNames |-> unflattenHeaders(m)[k]]
  BY DEF unflattenHeaders
<1> QED BY <1>1, <1>2 DEF copyHeaders

(* The members of a header are those of its lines in turn: of one line, or *)
(* of no line.                                                             *)
LEMMA FlattenOne == ASSUME NEW s PROVE FlattenSeq(<<s>>) = s
<1> DEFINE f == [i \in 1..1 |-> s]
<1>1. f = [i \in 1..Len(<<s>>) |-> IF i = 1 THEN <<s>>[i] ELSE f[i-1] \o <<s>>[i]]
  OBVIOUS
<1> QED BY <1>1 DEF FlattenSeq

LEMMA FlattenNone == FlattenSeq(<<>>) = <<>>
BY DEF FlattenSeq

(* What a viewer has been shown of a header, sent back, has the members of *)
(* the original: the lines are joined, none is lost or added.              *)
LEMMA ViewerKeepsMembers ==
  ASSUME NEW h, NEW k \in HeaderNames
  PROVE  FlattenSeq(unflattenHeaders(flattenHeaders(h))[k]) = FlattenSeq(h[k])
<1>1. CASE h[k] = <<>>
  <2>1. k \notin DOMAIN flattenHeaders(h)
    BY <1>1 DEF flattenHeaders
  <2>2. unflattenHeaders(flattenHeaders(h))[k] = <<>>
    BY <2>1 DEF unflattenHeaders
  <2> QED BY <1>1, <2>2
<1>2. CASE h[k] # <<>>
  <2>1. k \in DOMAIN flattenHeaders(h) /\ flattenHeaders(h)[k] = FlattenSeq(h[k])
    BY <1>2 DEF flattenHeaders
  <2>2. unflattenHeaders(flattenHeaders(h))[k] = <<FlattenSeq(h[k])>>
    BY <2>1 DEF unflattenHeaders
  <2> QED BY <2>2, FlattenOne
<1> QED BY <1>1, <1>2

(* What Forwarded makes of the client's headers: end-to-end headers stay   *)
(* as they are, hop-by-hop headers go, and the client is put at the end of *)
(* X-Forwarded-For, behind all of it if it is one line at most.            *)
LEMMA ForwardedHeaders ==
  ASSUME NEW h \in Header, NEW ip, NEW out,
         out = ForwardedFor(removeHopByHop(copyHeaders(NoHeaders, h)), ip)
  PROVE  /\ out["Connection"] = <<>>
         /\ \A k \in {"Accept", "Content-Encoding"} : out[k] = h[k]
         /\ Last(FlattenSeq(out["X-Forwarded-For"])) = ip
         /\ Len(h["X-Forwarded-For"]) <= 1 =>
              FlattenSeq(out["X-Forwarded-For"]) = FlattenSeq(h["X-Forwarded-For"]) \o <<ip>>
<1> DEFINE kept == removeHopByHop(h)
           lines == h["X-Forwarded-For"]
           first == Get(kept, "X-Forwarded-For")
<1>1. out = [kept EXCEPT !["X-Forwarded-For"] = <<Append(first, ip)>>]
  BY CopyIsSame DEF ForwardedFor
<1>2. kept = [k \in HeaderNames |-> IF k = "Connection" THEN <<>> ELSE h[k]]
  BY DEF removeHopByHop, hopByHopHeaders
<1>3. {"Connection", "Accept", "Content-Encoding", "X-Forwarded-For"} = HeaderNames
  BY DEF HeaderNames, hopByHopHeaders
<1>4. first = IF lines = <<>> THEN <<>> ELSE Head(lines)
  BY <1>2, <1>3 DEF Get
<1>5. lines \in Seq(Seq(STRING))
  BY <1>3 DEF Header
<1>6. first \in Seq(STRING \cup {ip})
  <2>1. CASE lines = <<>>
    BY <2>1, <1>4, EmptySeq
  <2>2. CASE lines # <<>>
    <3>1. first \in Seq(STRING)
      BY <2>2, <1>5, <1>4, HeadTailProperties
    <3> QED BY <3>1, SeqMonotonic
  <2> QED BY <2>1, <2>2
<1>7. FlattenSeq(out["X-Forwarded-For"]) = Append(first, ip)
  <2>1. out["X-Forwarded-For"] = <<Append(first, ip)>>
    BY <1>1, <1>2, <1>3
  <2> QED BY <2>1, FlattenOne
<1>8. Last(Append(first, ip)) = ip
  BY <1>6, AppendProperties DEF Last
<1>9. ASSUME Len(lines) <= 1 PROVE first = FlattenSeq(lines)
  <2>1. CASE lines = <<>>
    BY <2>1, <1>4, FlattenNone
  <2>2. CASE lines # <<>>
    <3>1. Len(lines) = 1
      <4>1. Len(lines) \in Nat \ {0}
        BY <1>5, <2>2, EmptySeq
      <4>2. \A n \in Nat \ {0} : n <= 1 => n = 1
        OBVIOUS
      <4> QED BY <1>9, <4>1, <4>2, Zenon
    <3>2. lines = <<Head(lines)>>
      <4>1. <<lines[1]>> \in Seq(Seq(STRING)) /\ Len(<<lines[1]>>) = 1
        BY <1>5, <3>1, ElementOfSeq
      <4> QED BY <1>5, <3>1, <4>1, SeqEqual
    <3> QED BY <1>4, <2>2, <3>2, FlattenOne
  <2> QED BY <2>1, <2>2
<1>10. Append(first, ip) = first \o <<ip>>
  BY <1>6, AppendIsConcat
<1>11. out["Connection"] = <<>>
  BY <1>1, <1>2, <1>3
<1>12. \A k \in {"Accept", "Content-Encoding"} : out[k] = h[k]
  BY <1>1, <1>2, <1>3
<1> QED BY <1>7, <1>8, <1>9, <1>10, <1>11, <1>12

===============================================================================

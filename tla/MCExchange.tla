----------------------------- MODULE MCExchange -----------------------------
(* Requests and upstreams for TLC: every way the two paths can meet, escapes, a query of
   either side, repeated headers, and replays no viewer offers. *)
EXTENDS Exchange

Name(n) == [name |-> n, level |-> 0]
EscapedName(n) == [name |-> n, level |-> 1]
Answer1 == [NoHeaders EXCEPT !["Accept"] = <<<<"a">>, <<"b">>>>, !["Connection"] = <<<<"close">>>>]
Text == [text |-> TRUE, expands |-> FALSE, envelope |-> 0, flaw |-> "none", answer |-> Answer1]
Binary == [Text EXCEPT !.text = FALSE, !.expands = TRUE]

MCRequests == {
  Text @@ [upstream |-> [path |-> <<Slash, Name("api"), Slash>>, query |-> <<"key">>],
           uri |-> [path |-> <<Slash, EscapedName("a"), Slash, Name("b")>>, query |-> <<"q">>],
           headers |-> [NoHeaders EXCEPT !["Accept"] = <<<<"html">>, <<"text", "any">>>>,
                                         !["Connection"] = <<<<"close">>>>,
                                         !["X-Forwarded-For"] = <<<<"c1", "c2">>>>]],
  Binary @@ [upstream |-> [path |-> <<Slash, Name("api")>>, query |-> <<"key">>],
             uri |-> [path |-> <<Slash>>, query |-> <<>>],
             headers |-> [NoHeaders EXCEPT !["Content-Encoding"] = <<<<"gzip">>>>,
                                           !["X-Forwarded-For"] = <<<<"c1">>, <<"c2">>>>]],
  [Text EXCEPT !.envelope = 1]
    @@ [upstream |-> [path |-> <<Slash, EscapedName("api")>>, query |-> <<>>],
        uri |-> [path |-> <<Slash, Name("a"), Slash>>, query |-> <<>>],
        headers |-> [NoHeaders EXCEPT !["Accept"] = <<<<"html">>, <<"text">>>>]],
  Text @@ [upstream |-> [path |-> <<>>, query |-> <<>>],
           uri |-> [path |-> <<Name("a")>>, query |-> <<>>], headers |-> NoHeaders],
  [Text EXCEPT !.flaw = "base64"]
    @@ [upstream |-> [path |-> <<>>, query |-> <<>>],
        uri |-> [path |-> <<Slash>>, query |-> <<>>], headers |-> NoHeaders] }
=============================================================================

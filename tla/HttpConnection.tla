--------------------------- MODULE HttpConnection ---------------------------
(***************************************************************************)
(* One keep-alive TCP connection of http::HttpServer (src/HttpServer/HTTP):  *)
(* onMessage appends what TCP delivered to the connection's Buffer, runs   *)
(* HttpContext::parseRequest, answers 400 and shuts down on a syntax error *)
(* or an exception, and on kGotAll runs onRequest (handleRequest: the      *)
(* middleware chain, the router or a 404) and HttpContext::reset.  The     *)
(* client sends one of a set of request scripts, waiting for each response *)
(* unless it pipelines; TCP delivers the bytes in chunks of any size.      *)
(*                                                                          *)
(* Bytes are abstracted to tokens: a complete CRLF-terminated line (the    *)
(* request line, one header, the blank line) or one body byte.  findCRLF   *)
(* finds the first line token; body bytes before it belong to that line.   *)
(* Only the Content-Length and Connection headers are kept.  A handler is  *)
(* abstracted to the Connection decision it leaves in the response.        *)
(***************************************************************************)
EXTENDS Integers, Sequences

CONSTANTS
    Scripts,    \* the request scripts a client may send
    Routes,     \* the router's table: <<method, path>> -> the handler's close outcomes
    Pipelined,  \* the client sends a request before the previous answer
    LineBytes,  \* bytes of a line token (its text and CRLF)
    LenBits     \* width of HttpRequest::contentLength_ (uint64_t)

VARIABLES
    script,     \* the script this client sends
    out,        \* bytes of the current request the client has yet to write
    wire,       \* bytes sent by the client and not yet delivered
    buf,        \* the connection's input Buffer
    st,         \* HttpContext::state_
    req,        \* HttpContext::request_
    sent,       \* requests the client has sent
    handled,    \* requests that onRequest passed to handleRequest, in order
    answers,    \* responses that reached the client
    rejected,   \* a 400 Bad Request was sent
    shut        \* conn->shutdown() was called

vars == <<script, out, wire, buf, st, req, sent, handled, answers, rejected, shut>>

\* Token constructors; a header with an empty name is a line without ':'.
RL(r) == [t |-> "rl", m |-> r.m, v |-> r.v, path |-> r.path]
HD(h) == [t |-> IF h[1] = "" THEN "bad" ELSE "hd", k |-> h[1], v |-> h[2]]
Blank == [t |-> "blank"]
Byte == [t |-> "byte"]

\* The bytes a client writes for request r.
Tokens(r) ==
    <<RL(r)>> \o [i \in 1..Len(r.hdrs) |-> HD(r.hdrs[i])] \o <<Blank>>
              \o [i \in 1..r.body |-> Byte]

\* Header values: the text of a Content-Length, as std::stoi sees it (a
\* number, or text without leading digits), or any other header's value.
Num(n) == [s |-> "num", n |-> n]
NaN == [s |-> "text", n |-> 0]
Empty == [s |-> "empty", n |-> 0]

IsLine(t) == t.t # "byte"
Bytes(t) == IF IsLine(t) THEN LineBytes ELSE 1

\* A fresh HttpRequest: method kInvalid, version "Unknow", no headers,
\* contentLength_ 0, empty content_.
NoRequest == [method |-> "INVALID", version |-> "Unknow", path |-> "", clh |-> Empty,
              conn |-> "", cl |-> 0, body |-> 0]

States == {"line", "headers", "body"}

MaxLen == 2^LenBits

TypeOK ==
    /\ script \in Scripts
    /\ st \in States
    /\ sent \in 0..Len(script)
    /\ handled \in Seq([m : STRING, path : STRING, body : Nat, close : BOOLEAN])
    /\ answers \in 0..sent
    /\ rejected \in BOOLEAN
    /\ shut \in BOOLEAN
    /\ req.cl \in 0..(MaxLen - 1) /\ req.body \in Nat

\* onConnection: conn->setContext(HttpContext()).
Init ==
    /\ script \in Scripts
    /\ out = <<>>
    /\ wire = <<>>
    /\ buf = <<>>
    /\ st = "line"
    /\ req = NoRequest
    /\ sent = 0
    /\ handled = <<>>
    /\ answers = 0
    /\ rejected = FALSE
    /\ shut = FALSE
-----------------------------------------------------------------------------
(* HttpContext::parseRequest.                                               *)

\* buf->findCRLF(): the index of the first complete line, 0 if none.
FirstLine(b) ==
    IF \E i \in 1..Len(b) : IsLine(b[i])
    THEN CHOOSE i \in 1..Len(b) : IsLine(b[i]) /\ \A j \in 1..(i-1) : ~IsLine(b[j])
    ELSE 0

\* buf->retrieveUntil(crlf + 2).
Retrieve(b, i) == SubSeq(b, i + 1, Len(b))

\* Readable bytes of the buffer.
RECURSIVE Readable(_)
Readable(b) == IF b = <<>> THEN 0 ELSE Bytes(Head(b)) + Readable(Tail(b))

\* buf->retrieve(n): drop n bytes; a line cut in the middle loses its start
\* and is left as a line with no known meaning.
RECURSIVE Take(_, _)
Take(b, n) ==
    IF n = 0 \/ b = <<>> THEN b
    ELSE IF Bytes(Head(b)) <= n THEN Take(Tail(b), n - Bytes(Head(b)))
    ELSE <<[t |-> "junk"]>> \o Tail(b)

\* processRequestLine with setMethod: "METHOD SP path SP HTTP/1.x" where
\* the method is one HttpRequest knows and x is 0 or 1.
RequestLineOk(t) ==
    /\ t.t = "rl"
    /\ t.m \in {"GET", "POST", "HEAD", "PUT", "DELETE"}
    /\ t.v \in {"HTTP/1.0", "HTTP/1.1"}

SetLine(r, t) == [r EXCEPT !.method = t.m, !.version = t.v, !.path = t.path]

\* addHeader: headers_[field] = value (only the two headers the server reads).
AddHeader(r, t) ==
    CASE t.k = "Content-Length" -> [r EXCEPT !.clh = t.v]
      [] t.k = "Connection"     -> [r EXCEPT !.conn = t.v]
      [] OTHER                  -> r

Stop(p) == [p EXCEPT !.more = FALSE]
Fail(p) == [p EXCEPT !.ok = FALSE, !.more = FALSE]

\* std::stoi throws invalid_argument or out_of_range: the loop is left
\* where it is, before the blank line is retrieved.
Throw(p) == [p EXCEPT !.thrown = TRUE, !.more = FALSE]

\* The blank line ends the headers: POST and PUT need Content-Length, which
\* std::stoi converts and setContentLength stores in a uint64_t; a positive
\* length expects a body, anything else is complete.  p is the state before
\* the blank line is retrieved, q after.
EndOfHeaders(p, q) ==
    IF p.req.method \in {"POST", "PUT"}
    THEN LET cl == p.req.clh.n % MaxLen IN
         CASE p.req.clh = Empty     -> Fail(q)
           [] p.req.clh.s = "text"  -> Throw(p)
           [] cl > 0 -> [q EXCEPT !.req.cl = cl, !.st = "body"]
           [] OTHER  -> [q EXCEPT !.req.cl = 0, !.st = "all", !.more = FALSE]
    ELSE [q EXCEPT !.st = "all", !.more = FALSE]

\* kExpectRequestLine, the first line i: a bad request line stays in the
\* buffer.
StepLine(p, i) ==
    IF i = 0 THEN Stop(p)
    ELSE IF i = 1 /\ RequestLineOk(p.buf[1])
         THEN [p EXCEPT !.req = SetLine(p.req, p.buf[1]),
                        !.buf = Retrieve(p.buf, 1), !.st = "headers"]
         ELSE Fail(p)

StepHeader(p, i) ==
    IF i = 0 THEN Stop(p)
    ELSE LET t == p.buf[i]
             q == [p EXCEPT !.buf = Retrieve(p.buf, i)]
         IN CASE t.t = "hd" /\ i = 1     -> [q EXCEPT !.req = AddHeader(p.req, t)]
              [] t.t = "hd"              -> q
              [] t.t = "blank" /\ i = 1  -> EndOfHeaders(p, q)
              [] OTHER                   -> Fail(q)

\* kExpectBody: wait for Content-Length bytes, then take exactly those.
StepBody(p) ==
    IF Readable(p.buf) < p.req.cl THEN Stop(p)
    ELSE [p EXCEPT !.req.body = p.req.cl, !.buf = Take(p.buf, p.req.cl),
                   !.st = "all", !.more = FALSE]

\* One pass of parseRequest's while (hasMore) loop.
Step(p) ==
    CASE p.st = "line"    -> StepLine(p, FirstLine(p.buf))
      [] p.st = "headers" -> StepHeader(p, FirstLine(p.buf))
      [] p.st = "body"    -> StepBody(p)

RECURSIVE Parse(_)
Parse(p) == IF p.more THEN Parse(Step(p)) ELSE p
-----------------------------------------------------------------------------
(* HttpServer.                                                              *)

\* onRequest: close when "Connection: close", or HTTP/1.0 without
\* "Connection: Keep-Alive".
CloseOf(r) == r.conn = "close" \/ (r.version = "HTTP/1.0" /\ r.conn # "Keep-Alive")

\* CorsMiddleware::before throws its preflight HttpResponse for OPTIONS.
Preflight(r) == r.method = "OPTIONS"

\* Router::route: the handler or callback registered for the method and
\* path, and the Connection decision it may leave in the response
\* ("default" keeps onRequest's, as when the handler throws and
\* handleRequest answers 500).
Routed(r) == <<r.method, r.path>> \in DOMAIN Routes
Outcomes(r) == IF Routed(r) THEN Routes[<<r.method, r.path>>] ELSE {"default"}

\* handleRequest: closeConnection() of the response onRequest sends.  The
\* preflight response replaces it with a default HttpResponse (close true);
\* a path no route takes is a 404 that closes.
RespClose(r, o) ==
    CASE Preflight(r) -> TRUE
      [] ~Routed(r)   -> TRUE
      [] o = "keep"   -> FALSE
      [] o = "close"  -> TRUE
      [] OTHER        -> CloseOf(r)

\* HttpContext::reset swaps request_ with a fresh HttpRequest; swap()
\* exchanges method, version, path, parameters and headers only.
Reset(r) == [NoRequest EXCEPT !.cl = r.cl, !.body = r.body]

\* Mutant: onMessage handles the request but skips context->reset().
CompleteNoReset(p, o) ==
    /\ handled' = Append(handled, [m |-> p.req.method, path |-> p.req.path,
                                   body |-> p.req.body, close |-> CloseOf(p.req)])
    /\ answers' = IF shut THEN answers ELSE answers + 1
    /\ shut' = (shut \/ RespClose(p.req, o))
    /\ st' = p.st
    /\ req' = p.req

\* kGotAll: onRequest answers with the handler's response, shuts down when
\* it says close, and context->reset() follows.
Complete(p, o) ==
    /\ handled' = Append(handled, [m |-> p.req.method, path |-> p.req.path,
                                   body |-> p.req.body, close |-> CloseOf(p.req)])
    /\ answers' = IF shut THEN answers ELSE answers + 1
    /\ shut' = (shut \/ RespClose(p.req, o))
    /\ st' = "line"
    /\ req' = Reset(p.req)

\* TCP delivers the next k bytes-worth of tokens and onMessage runs.  A
\* syntax error or an exception sends "400 Bad Request" and shuts down;
\* after shutdown() muduo drops what is sent.
OnMessage(k) ==
    LET p == Parse([st |-> st, buf |-> buf \o SubSeq(wire, 1, k), req |-> req,
                    ok |-> TRUE, thrown |-> FALSE, more |-> TRUE])
    IN /\ wire' = SubSeq(wire, k + 1, Len(wire))
       /\ buf' = p.buf
       /\ rejected' = (rejected \/ ~p.ok \/ p.thrown)
       /\ IF p.st = "all" /\ ~p.thrown
          THEN \E o \in Outcomes(p.req) : Complete(p, o)
          ELSE /\ UNCHANGED handled
               /\ answers' = IF (~p.ok \/ p.thrown) /\ ~shut THEN answers + 1 ELSE answers
               /\ shut' = (shut \/ ~p.ok \/ p.thrown)
               /\ st' = p.st
               /\ req' = p.req
       /\ UNCHANGED <<script, sent, out>>

Deliver == \E k \in 1..Len(wire) : OnMessage(k)

\* What RFC 7230 makes of request r's connection options: close on a
\* "close" option, and for HTTP/1.0 unless "keep-alive" is given (option
\* names are case-insensitive).
HasHeader(r, k, vs) == \E i \in 1..Len(r.hdrs) : r.hdrs[i][1] = k /\ r.hdrs[i][2] \in vs
RfcClose(r) ==
    \/ HasHeader(r, "Connection", {"close", "Close"})
    \/ r.v = "HTTP/1.0" /\ ~HasHeader(r, "Connection", {"Keep-Alive", "keep-alive"})

\* The client starts its next request, after the previous answer unless it
\* pipelines, and not after the server closed or after a request of its
\* own that asked to close.
Send ==
    /\ sent < Len(script)
    /\ out = <<>>
    /\ Pipelined \/ answers = sent
    /\ ~shut
    /\ \A i \in 1..sent : ~RfcClose(script[i])
    /\ out' = Tokens(script[sent + 1])
    /\ sent' = sent + 1
    /\ UNCHANGED <<script, wire, buf, st, req, handled, answers, rejected, shut>>

\* One write() of the client puts the next k bytes of the request on the wire.
Write ==
    \E k \in 1..Len(out) :
        /\ wire' = wire \o SubSeq(out, 1, k)
        /\ out' = SubSeq(out, k + 1, Len(out))
        /\ UNCHANGED <<script, sent, buf, st, req, handled, answers, rejected, shut>>

Next == Send \/ Write \/ Deliver

\* The client finishes writing a request it began and TCP delivers what was
\* written; the client's next request is not forced.
Spec == Init /\ [][Next]_vars /\ WF_vars(Write) /\ WF_vars(Deliver)
-----------------------------------------------------------------------------
(* Properties.                                                              *)

\* A request the server must accept: every header line has a ':', and POST
\* and PUT carry a Content-Length that is a non-negative number.
WellFormed(r) ==
    /\ \A i \in 1..Len(r.hdrs) : r.hdrs[i][1] # ""
    /\ r.m \in {"POST", "PUT"} =>
        \E i \in 1..Len(r.hdrs) : r.hdrs[i][1] = "Content-Length"
                                 /\ r.hdrs[i][2].s = "num" /\ r.hdrs[i][2].n >= 0

\* The server handles r: its method is one setMethod knows (OPTIONS is not).
Accepted(r) == WellFormed(r) /\ r.m \in {"GET", "POST", "HEAD", "PUT", "DELETE"}

\* r carries a body: a POST or PUT with a positive Content-Length.
HasBody(r) == r.m \in {"POST", "PUT"} /\ r.body > 0

\* The handler's view h is request r: its method, path and connection
\* decision, and its body when it has one.
Matches(h, r) ==
    /\ h.m = r.m /\ h.path = r.path /\ h.close = RfcClose(r)
    /\ HasBody(r) => h.body = r.body

\* The first written request the server cannot accept, or sent + 1.
FirstRefused ==
    IF \E i \in 1..sent : ~Accepted(script[i])
    THEN CHOOSE i \in 1..sent : ~Accepted(script[i]) /\ \A j \in 1..(i - 1) : Accepted(script[j])
    ELSE sent + 1

=============================================================================

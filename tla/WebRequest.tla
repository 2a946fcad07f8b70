------------------------------- MODULE WebRequest ------------------------------
(***************************************************************************)
(* A request of ESPAsyncWebServer and its response.  The peer sends the    *)
(* request in packets cut anywhere; the response is written as the send    *)
(* buffer has room for it, on acknowledgements and on polls.  A byte of    *)
(* the response is its position, the line "100 Continue" is the byte 0.    *)
(***************************************************************************)
EXTENDS AsyncClient, Multipart, FiniteSetsExt

CONSTANTS
  HEAD,         \* bytes of the head of a response
  TEXT, FILE,   \* bytes of the content of a text and of a file
  Contents      \* contents of a file that is posted, all of a length

ASSUME WebRequestAssumption == /\ HEAD \in Nat \ {0} /\ TEXT \in Nat \ {0}
                               /\ FILE \in Nat \ {0}
                               /\ \A a, b \in Contents : Len(a) = Len(b)

Bytes(first, last) == [i \in 1..last - first + 1 |-> first + i - 1]

\* A multipart form: a field "a" and a file.
FormBody(content) ==
  <<"-", "-">> \o boundary \o <<"r", "n", "D", "r", "n", "r", "n", "a", "r", "n", "-", "-">>
  \o boundary \o <<"r", "n", "F", "r", "n", "T", "r", "n", "r", "n">> \o content
  \o <<"r", "n", "-", "-">> \o boundary \o <<"-", "-", "r", "n">>

\* The upload of a firmware, on the address of AsyncElegantOTA.
Posted(content) ==
  <<"POST", "update", "nl", "form", "nl", "multipart", "nl", "nl">> \o FormBody(content)

\* The lines of a request: its method, the names of its address, its query, and
\* a text for each other line, with its end; then the bytes of a posted form.
Requests ==
  {<<"GET", "", "?", "power", "&", "x", "nl", "host", "nl", "nl">>,
   <<"GET", "api", "history", "?", "power", "&", "x", "nl", "nl">>,
   <<"GET", "api", "get", "param", "?", "power", "&", "x", "nl", "nl">>,
   <<"POST", "api", "set", "nl", "length", "nl", "nl", "power", "&", "x">>,
   <<"POST", "graph.html", "nl", "expect", "nl", "length", "nl", "nl", "power", "&", "x">>,
   <<"nl">>}
  \cup {Posted(content) : content \in Contents}

\* Content-Length, in the requests that have a body.
ContentLength(header) ==
  CASE header = <<"length">> -> 3
    [] header = <<"form">>   -> Len(FormBody(CHOOSE content \in Contents : TRUE))
    [] OTHER                 -> 0

NoReply == [class |-> "none", size |-> 0]
Text == [class |-> "basic", size |-> TEXT]
Empty == [class |-> "basic", size |-> 0]

\* A file of LittleFS, and the text that is printed to a stream.
FileResponse == [class |-> "abstract", size |-> FILE]
StreamResponse == [class |-> "abstract", size |-> FILE]

Handler(method, uri, answer) == [method |-> method, uri |-> uri, answer |-> answer]

\* Any other address is redirected to "/".
NotFound == Handler("ANY", <<>>, "redirect")

Pages == <<Handler("ANY", <<"">>, "site"), Handler("ANY", <<"index.html">>, "site"),
           Handler("ANY", <<"graph.html">>, "file"), Handler("ANY", <<"maj.html">>, "redirect"),
           Handler("ANY", <<"DLconfig">>, "file")>>

Api == <<Handler("GET", <<"api", "action">>, "text"), Handler("GET", <<"api", "get">>, "data"),
         Handler("GET", <<"api", "set">>, "text")>>

History == Handler("GET", <<"api", "history">>, "history")

Update == Handler("POST", <<"update">>, "text")

Handlers == <<Update>> \o Pages \o Api \o <<History>>

NoResponse == [state |-> "none", head |-> <<>>, content |-> <<>>,
               length |-> 0, sent |-> 0, acked |-> 0, written |-> 0]

\* The client with a new request; file tells whether the files of LittleFS are
\* "there", "absent", or cannot be opened.
NewRequest(c, file) ==
  c @@ [parse |-> "start", temp |-> <<>>, expecting |-> FALSE,
        contentLength |-> 0, parsedLength |-> 0, params |-> <<>>,
        isMultipart |-> FALSE, form |-> NewForm,
        method |-> "ANY", url |-> <<>>, handler |-> NotFound, file |-> file,
        handled |-> 0, reply |-> NoReply, response |-> NoResponse]

Whole(c) == Bytes(1, HEAD + c.reply.size)

Finished(c) == c.response.state \in {"end", "none"}

\* request->client()->write, counted in _writtenLength.
Put(c, data) == [write(c, data) EXCEPT !.response.written = @ + Taken(c, data)]

Goto(c, state) == [c EXCEPT !.response.state = state]
--------------------------------------------------------------------------------
(* AsyncBasicResponse *)

\* All of it at once, the head and a part of the content, a part of the head,
\* or nothing yet.
BasicRespond(c) ==
  LET r == c.response
      room == space(c)
      out == r.head \o r.content
      Rest(n, length, sent) ==
        [Goto(Put(c, SubSeq(out, 1, n)), "content") EXCEPT
           !.response.content = SubSeq(out, n + 1, Len(out)),
           !.response.length = length, !.response.sent = sent]
  IN IF room >= HEAD + r.length THEN Goto(Put(c, out), "wait_ack")
     ELSE IF room > HEAD THEN Rest(room, r.length, room - HEAD)
     ELSE IF room > 0 /\ room < HEAD THEN Rest(room, r.length + HEAD - room, 0)
     ELSE Rest(0, r.length + HEAD, 0)

Settle(c) == IF c.response.acked >= c.response.written THEN Goto(c, "end") ELSE c

\* Mutant: the rest is taken to fit as soon as there is room.
Fits_Any(available, room) == room > 0

Fits(available, room) == room > available

BasicAck(c, len) ==
  LET d == [c EXCEPT !.response.acked = @ + len]
      r == d.response
      available == r.length - r.sent
      room == space(d)
  IN IF r.state = "wait_ack" THEN Settle(d)
     ELSE IF Fits(available, room)
     THEN [Goto(Put(d, SubSeq(r.content, 1, available)), "wait_ack") EXCEPT !.response.content = <<>>]
     ELSE [Put(d, SubSeq(r.content, 1, room)) EXCEPT
             !.response.content = SubSeq(r.content, room + 1, Len(r.content)),
             !.response.sent = @ + room]
--------------------------------------------------------------------------------
(* AsyncAbstractResponse: a file or a stream, of a known length *)

\* The content that fits behind the head; when its buffer cannot be
\* allocated the state is kept and the head has still to be sent.
Content(c, room) ==
  LET r == c.response
      n == Min({r.length - r.sent, room})
      d == [Put(c, r.head \o SubSeq(r.content, 1, n)) EXCEPT
              !.response.head = <<>>, !.response.sent = @ + n,
              !.response.content = SubSeq(r.content, n + 1, Len(r.content))]
  IN IF c.heap = "malloc" THEN c
     ELSE IF d.response.sent = r.length THEN Goto(d, "wait_ack") ELSE d

AbstractAck(c, len) ==
  LET d == [c EXCEPT !.response.acked = @ + len]
      r == d.response
      room == space(d)
  IN IF r.state = "headers" /\ room < Len(r.head)
     THEN [Put(d, SubSeq(r.head, 1, room)) EXCEPT
             !.response.head = SubSeq(r.head, room + 1, Len(r.head))]
     ELSE IF r.state = "headers" THEN Content(Goto(d, "content"), room - Len(r.head))
     ELSE IF r.state = "content" THEN Content(d, room)
     ELSE Settle(d)

_ack(c, len) == IF c.reply.class = "basic" THEN BasicAck(c, len) ELSE AbstractAck(c, len)
--------------------------------------------------------------------------------
(* AsyncWebServerRequest *)

\* A handler answers for its address and for what lies below it.
canHandle(h, c) ==
  /\ h.method \in {"ANY", c.method}
  /\ IsPrefix(h.uri, c.url)

\* The first one that can.
_attachHandler(c) ==
  LET able == {i \in DOMAIN Handlers : canHandle(Handlers[i], c)}
  IN [c EXCEPT !.handler = IF able = {} THEN NotFound ELSE Handlers[Min(able)]]

hasParam(c, name) == \E i \in DOMAIN c.params : c.params[i] = <<name>>

\* A file that is not there is a 404, one that cannot be opened a 500.
sendFile(c) == IF c.file = "there" THEN FileResponse ELSE Empty

Answer(c) ==
  CASE c.handler.answer = "file"    -> sendFile(c)
    [] c.handler.answer = "site"    -> IF c.file = "absent" THEN Text ELSE sendFile(c)
    [] c.handler.answer = "data"    -> IF hasParam(c, "configmaxpv") THEN sendFile(c) ELSE Text
    [] c.handler.answer = "history" -> IF hasParam(c, "power") THEN StreamResponse ELSE Text
    [] c.handler.answer = "text"    -> Text
    [] OTHER                        -> Empty

\* The handler sends its response.
send(c, reply) ==
  LET d == [c EXCEPT !.rxTimeout = FALSE, !.reply = reply,
                     !.response = [NoResponse EXCEPT !.state = "headers", !.head = Bytes(1, HEAD),
                                     !.content = Bytes(HEAD + 1, HEAD + reply.size),
                                     !.length = reply.size]]
  IN IF reply.class = "basic" THEN BasicRespond(d) ELSE AbstractAck(d, 0)

HandleRequest(c) == send([c EXCEPT !.parse = "end", !.handled = @ + 1], Answer(c))

_parseReqHeader(c) ==
  [c EXCEPT !.temp = <<>>,
            !.contentLength = @ + ContentLength(c.temp),
            !.isMultipart = @ \/ c.temp = <<"multipart">>,
            !.expecting = @ \/ c.temp = <<"expect">>]

\* The parameters of the query: what is between two "&", the last one if it
\* is not empty.
_addGetParams(query) ==
  LET Char(params, b) == IF b = "&" THEN Append(params, <<>>)
                         ELSE [params EXCEPT ![Len(params)] = Append(@, b)]
      all == FoldLeft(Char, <<(<<>>)>>, query)
  IN IF Last(all) = <<>> THEN Front(all) ELSE all

\* The method, the address and the query.
_parseReqHead(c) ==
  LET end == Len(c.temp) + 1
      marks == {i \in 1..Len(c.temp) : c.temp[i] = "?"}
      mark == Min(marks \cup {end})
  IN [c EXCEPT !.temp = <<>>, !.method = c.temp[1], !.url = SubSeq(c.temp, 2, mark - 1),
               !.params = _addGetParams(SubSeq(c.temp, mark + 1, end - 1))]

_parseLine(c) ==
  IF c.parse = "start"
  THEN IF c.temp = <<>> THEN close([c EXCEPT !.parse = "fail"])
       ELSE [_parseReqHead(c) EXCEPT !.parse = "headers"]
  ELSE IF c.temp # <<>> THEN _parseReqHeader(c)
  ELSE LET attached == _attachHandler(c)
           d == IF c.expecting THEN write(attached, <<0>>) ELSE attached
       IN IF d.contentLength > 0 THEN [d EXCEPT !.parse = "body"] ELSE HandleRequest(d)

_parsePlainPostChar(c, byte) ==
  LET d == IF byte = "&" THEN c ELSE [c EXCEPT !.temp = Append(@, byte)]
  IN IF byte = "&" \/ c.parsedLength = c.contentLength
     THEN [d EXCEPT !.params = Append(@, d.temp), !.temp = <<>>] ELSE d

\* A byte is parsed to the end before the next one.
Body(c, buf) ==
  LET Byte(e, i) ==
        IF c.isMultipart
        THEN [_parseMultipartPostByte(e, buf[i], i = Len(buf)) EXCEPT !.parsedLength = @ + 1]
        ELSE _parsePlainPostChar([e EXCEPT !.parsedLength = @ + 1], buf[i])
      Char(d, i) == CHOOSE e \in {Byte(f, i) : f \in {d}} : TRUE
      d == FoldLeft(Char, c, Bytes(1, Len(buf)))
  IN IF d.parsedLength = d.contentLength THEN HandleRequest(d) ELSE d

\* A packet: its lines, then the bytes of the body, and nothing after the end.
RECURSIVE _onData(_, _)
_onData(c, buf) ==
  IF c.parse \in {"start", "headers"}
  THEN LET ends == {i \in 1..Len(buf) : buf[i] = "nl"}
       IN IF ends = {} THEN [c EXCEPT !.temp = @ \o buf]
          ELSE LET i == Min(ends)
                   d == _parseLine([c EXCEPT !.temp = @ \o SubSeq(buf, 1, i - 1)])
               IN IF i < Len(buf) THEN _onData(d, SubSeq(buf, i + 1, Len(buf))) ELSE d
  ELSE IF c.parse = "body" THEN Body(c, buf)
  ELSE c

\* Mutant: a poll does not go on with the response.
_onPoll_Idle(c) == c

_onPoll(c) == IF canSend(c) /\ ~Finished(c) THEN _ack(c, 0) ELSE c

_onAck(c, len) == IF c.response.state = "none" THEN c
                  ELSE IF Finished(c) THEN [c EXCEPT !.response = NoResponse]
                  ELSE _ack(c, len)

_onTimeout(c) == close(c)
================================================================================

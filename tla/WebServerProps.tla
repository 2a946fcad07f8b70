---------------------------- MODULE WebServerProps -----------------------------
(* What the web server promises on a connection. *)
EXTENDS WebServer

\* Types; a client only has what it wrote and lwIP has not seen acknowledged,
\* and the polls stop counting at the time limits.
TypeOK ==
  /\ conn.lwip \in Pcbs /\ conn.closeError \in {"OK", "ABRT", "RST"}
  /\ conn.parse \in {"start", "headers", "body", "end", "fail"}
  /\ conn.response.state \in {"none", "headers", "content", "wait_ack", "end"}
  /\ conn.alive => conn.unacked = Len(conn.queue) /\ Len(conn.queue) <= conn.sndbuf
  /\ conn.sentAge \in 0..ACK_TIMEOUT /\ conn.rxAge \in 0..RX_TIMEOUT
  /\ peer \in {"alive", "closed", "gone"} /\ returned \in {"OK", "ABRT", "RST"}
  /\ faults \in 0..FAULTS /\ fed \in 0..Len(request)

\* The pointer lwIP holds is to a client that exists, and a client that exists
\* is one lwIP will call: none is used after it is deleted, none is lost.
\* (And the variables keep their types.)
Owned == /\ TypeOK
         /\ conn.callbacks = conn.alive
         /\ conn.alive <=> conn.lwip = "open"

\* A callback of a client returns ERR_ABRT, after which lwIP leaves the pcb
\* alone, if and only if the connection was aborted in it.
AbortReported == [][conn.alive => (returned' = "ABRT" <=> conn'.lwip = "aborted")]_vars

\* However the request is cut into packets, it is answered when its last byte
\* has come, once, by the handler of its address and method if there is one, with the
\* parameters of the query or of the form, and the files of a multipart form
\* byte for byte, unless memory ran out.
HandledOnce ==
  conn.alive /\ request # <<"nl">> =>
    /\ conn.handled = IF fed = Len(request) THEN 1 ELSE 0
    /\ \A h \in Range(Handlers) :
         conn.handled = 1 /\ h.method \in {"ANY", request[1]} /\ h.uri = conn.url => conn.handler = h
    /\ conn.handled = 1 /\ request \notin FormRequests => conn.params = <<<<"power">>, <<"x">>>>
    /\ \A content \in Contents :
         conn.handled = 1 /\ request = Posted(content) /\ faults = 0 =>
           conn.form.parts = <<<<"a">>, content>>

\* Unless memory ran out, what the peer has read and what lwIP still holds is
\* the response from its first byte on, and all of it once it is waited for.
InOrder ==
  conn.handled = 1 /\ faults = 0 /\ conn.lwip \in {"open", "closing"} =>
    LET continue == IF "expect" \in Range(request) THEN <<0>> ELSE <<>>
        sent == received \o conn.queue
    IN /\ IsPrefix(sent, continue \o Whole(conn))
       /\ conn.response.state \in {"wait_ack", "end"} => sent = continue \o Whole(conn)

\* A peer that stays and reads gets the whole response, unless memory ran out
\* or it was too slow.
Answered ==
  (conn.alive /\ conn.handled = 1) ~>
    \/ HEAD + conn.reply.size \in Range(received)
    \/ peer # "alive" \/ faults > 0 \/ timedOut

\* A peer that disappears while the server waits for it, for the rest of its
\* request or for an acknowledgement, does not keep its connection.
Released ==
  (conn.alive /\ peer = "gone" /\ (conn.handled = 0 \/ conn.unacked > 0)) ~> ~conn.alive
================================================================================

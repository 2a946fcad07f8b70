------------------------------- MODULE WebServer -------------------------------
(***************************************************************************)
(* The web server of MaxPV on one connection after the other: the          *)
(* callbacks of lwIP in any order, a peer that reads at its own pace,      *)
(* closes, resets or disappears at any time, and a heap that runs out.     *)
(***************************************************************************)
EXTENDS WebRequest

CONSTANTS
  SndBufs,      \* sizes of the send buffer of lwIP, in bytes
  FAULTS,       \* bound on the failed allocations of a connection
  PACKET        \* bound on the bytes of a packet that does not end the request

ASSUME WebServerAssumption ==
  SndBufs \subseteq Nat \ {0} /\ FAULTS \in Nat /\ PACKET \in Nat \ {0}

VARIABLES
  conn,         \* the connection: pcb, client, request, response
  peer,         \* "alive", "closed", or "gone" without a word
  request,      \* what the peer sends
  fed,          \* how much of it has arrived
  received,     \* the bytes the peer has read
  returned,     \* what the last callback returned to lwIP
  faults,       \* failed allocations of this connection
  timedOut      \* history: a poll gave the connection up

vars == <<conn, peer, request, fed, received, returned, faults, timedOut>>

\* lwIP alone: no client has been made.
NoClient(lwip) == [NewRequest(NewClient(1), "there") EXCEPT !.lwip = lwip, !.callbacks = FALSE,
                                                            !.alive = FALSE, !.pcb = FALSE]

Init ==
  /\ conn = NoClient("down") /\ peer = "alive" /\ request = <<>> /\ fed = 0 /\ received = <<>>
  /\ returned = "OK" /\ faults = 0 /\ timedOut = FALSE
--------------------------------------------------------------------------------
(* The callbacks of AsyncClient *)

\* The end of a callback: ERR_ABRT is returned once.
Return(client) ==
  \E c \in {client} :
    /\ returned' = getCallbackCloseError(c)
    /\ conn' = [(IF returned' = "ABRT" THEN setErrored(c) ELSE c) EXCEPT !.heap = "ok"]

_sent(c, len) ==
  LET d == [c EXCEPT !.rxAge = 0, !.unacked = @ - len, !.acked = @ + len]
      e == _onAck(setCloseError([d EXCEPT !.busy = FALSE], "OK"), d.acked)
  IN IF d.unacked > 0 THEN d
     ELSE IF e.alive THEN [e EXCEPT !.acked = 0] ELSE e

_recv(c, buf) ==
  IF buf = <<>> THEN _close(c)
  ELSE _onData(setCloseError([c EXCEPT !.rxAge = 0], "OK"), buf)

\* Mutant: an acknowledgement is waited for without an end.
AckTimeout_Never(c) == FALSE

AckTimeout(c) == c.busy /\ c.sentAge >= ACK_TIMEOUT

RxTimeout(c) == c.rxTimeout /\ c.rxAge >= RX_TIMEOUT

_poll(c) ==
  LET d == setCloseError(c, "OK")
  IN IF c.closePcb THEN _close([d EXCEPT !.closePcb = FALSE])
     ELSE IF AckTimeout(c) THEN _onTimeout([d EXCEPT !.busy = FALSE])
     ELSE IF RxTimeout(c) THEN _close(d)
     ELSE _onPoll(d)
--------------------------------------------------------------------------------
(* The steps *)

Open == conn.lwip = "open" /\ conn.callbacks

\* The connection as a callback finds it: an allocation may fail in it.
Called(heap) == [conn EXCEPT !.heap = heap]
Heap == {"ok"} \cup (IF faults < FAULTS THEN {"malloc", "write", "close"} ELSE {})
Fault(heap) == faults' = faults + (IF heap = "ok" THEN 0 ELSE 1)

\* lwIP is done with the connection and frees it.
Over == \/ conn.lwip \in {"aborted", "reset"}
        \/ conn.lwip = "closing" /\ (conn.queue = <<>> \/ peer # "alive")

Freed ==
  /\ Over /\ ~conn.alive
  /\ conn' = NoClient("none") /\ peer' = "alive" /\ request' = <<>> /\ fed' = 0
  /\ received' = <<>> /\ returned' = "OK" /\ faults' = 0 /\ timedOut' = FALSE

\* A multipart form is answered like the other requests: one way is enough.
FormRequests == {Posted(content) : content \in Contents}

\* AsyncServer::begin: without memory or a free port it returns without a word.
Begin ==
  /\ conn.lwip = "down"
  /\ \E listens \in BOOLEAN : conn' = IF listens THEN NoClient("none") ELSE conn
  /\ UNCHANGED <<peer, request, fed, received, returned, faults, timedOut>>

\* AsyncServer::_accept, and the request the server makes for the client.
Accept(sndbuf, wanted, file) ==
  /\ conn.lwip = "none"
  /\ wanted \in FormRequests => file = "there" /\ sndbuf = Max(SndBufs)
  /\ conn' = NewRequest(NewClient(sndbuf), file)
  /\ request' = wanted
  /\ UNCHANGED <<peer, fed, received, returned, faults, timedOut>>

\* tcp_close, and tcp_abort if it fails; a pcb that is closing stays so.
tcp_close(lwip, memory) == IF memory \/ lwip = "closing" THEN "closing" ELSE "aborted"

\* Without memory for the client the connection is closed, or else aborted; one that was
\* closed is then closed a second time, by the end of the function.
Refuse(memory) ==
  /\ conn.lwip = "none" /\ FAULTS > 0
  /\ LET first == tcp_close("open", memory)
         lwip == IF first = "closing" THEN tcp_close(first, memory) ELSE first
     IN /\ conn' = NoClient(lwip)
        /\ returned' = IF lwip = "aborted" THEN "ABRT" ELSE "OK"
  /\ faults' = 1
  /\ UNCHANGED <<peer, request, fed, received, timedOut>>

\* A packet of the request arrives, cut anywhere.
Deliver(n, heap) ==
  /\ Open /\ peer = "alive"
  /\ n <= PACKET \/ n = Len(request) - fed
  /\ Return(_recv(Called(heap), SubSeq(request, fed + 1, fed + n)))
  /\ fed' = fed + n
  /\ Fault(heap)
  /\ UNCHANGED <<peer, request, received, timedOut>>

\* The peer reads and acknowledges n bytes.
Acknowledge(n, heap) ==
  /\ peer = "alive" /\ n <= Len(conn.queue)
  /\ received' = received \o SubSeq(conn.queue, 1, n)
  /\ LET c == [Called(heap) EXCEPT !.queue = SubSeq(@, n + 1, Len(@))]
     IN IF Open THEN Return(_sent(c, n))
        ELSE conn' = [c EXCEPT !.heap = "ok"] /\ returned' = "OK"
  /\ Fault(heap)
  /\ UNCHANGED <<peer, request, fed, timedOut>>

\* Half a second has passed.
Poll(heap) ==
  /\ Open
  /\ LET c == [Called(heap) EXCEPT !.sentAge = Min({@ + 1, ACK_TIMEOUT}),
                                   !.rxAge = Min({@ + 1, RX_TIMEOUT})]
     IN /\ Return(_poll(c))
        /\ timedOut' = (timedOut \/ AckTimeout(c) \/ RxTimeout(c))
  /\ Fault(heap)
  /\ UNCHANGED <<peer, request, fed, received>>

\* The peer closes: a packet without data.
PeerCloses(heap) ==
  /\ Open /\ peer = "alive"
  /\ Return(_recv(Called(heap), <<>>))
  /\ peer' = "closed"
  /\ Fault(heap)
  /\ UNCHANGED <<request, fed, received, timedOut>>

\* The peer resets the connection: the error callback returns nothing.
PeerResets ==
  /\ Open /\ peer = "alive"
  /\ conn' = _error(conn)
  /\ peer' = "closed" /\ returned' = "OK"
  /\ UNCHANGED <<request, fed, received, faults, timedOut>>

\* The peer disappears: the Wifi, or the power of the phone.
PeerVanishes ==
  /\ peer = "alive" /\ conn.lwip \notin {"down", "none"}
  /\ peer' = "gone"
  /\ returned' = "OK"
  /\ UNCHANGED <<conn, request, fed, received, faults, timedOut>>

Next ==
  \/ \E sndbuf \in SndBufs, wanted \in Requests, file \in {"there", "absent", "unreadable"} :
       Accept(sndbuf, wanted, file)
  \/ \E memory \in BOOLEAN : Refuse(memory)
  \/ Begin
  \/ Freed
  \/ \E n \in 1..Len(request) - fed, heap \in Heap : Deliver(n, heap)
  \/ \E n \in 1..Len(conn.queue), heap \in Heap : Acknowledge(n, heap)
  \/ \E heap \in Heap : Poll(heap)
  \/ \E heap \in Heap : PeerCloses(heap)
  \/ PeerResets
  \/ PeerVanishes

\* lwIP goes on polling; a peer that stays reads what it is sent.
Reads == \E n \in 1..Len(conn.queue) : Acknowledge(n, "ok")
Spec == Init /\ [][Next]_vars /\ WF_vars(Poll("ok")) /\ WF_vars(Reads)
================================================================================

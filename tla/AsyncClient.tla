------------------------------ MODULE AsyncClient ------------------------------
(***************************************************************************)
(* One connection of ESPAsyncTCP: what the methods of AsyncClient do to    *)
(* the client, to the pcb lwIP keeps for it and to the objects that the    *)
(* discard callback deletes.  A callback of lwIP runs to its end before    *)
(* the next one; its methods are composed as functions of the connection   *)
(* c.  c.heap names the allocation that fails during the callback, if any. *)
(***************************************************************************)
EXTENDS Integers, Sequences

CONSTANTS
  ACK_TIMEOUT,  \* polls: the 5000 ms an acknowledgement may take
  RX_TIMEOUT    \* polls: the 3 s a request may pause

ASSUME AsyncClientAssumption == ACK_TIMEOUT \in Nat \ {0} /\ RX_TIMEOUT \in Nat \ {0}

\* What the network stack keeps of the connection: "none" before it, "open",
\* "closing" when tcp_close still sends what is queued, "aborted", "reset".
Pcbs == {"down", "none", "open", "closing", "aborted", "reset"}

NewClient(sndbuf) ==
  [lwip |-> "open", callbacks |-> TRUE, sndbuf |-> sndbuf, queue |-> <<>>,
   alive |-> TRUE, pcb |-> TRUE, closeError |-> "OK", errored |-> FALSE,
   busy |-> FALSE, closePcb |-> FALSE, unacked |-> 0, acked |-> 0,
   sentAge |-> 0, rxAge |-> 0, rxTimeout |-> TRUE, heap |-> "ok"]
--------------------------------------------------------------------------------
(* The error tracker: ERR_ABRT is returned to lwIP once. *)

setCloseError(c, e) == IF c.errored THEN c ELSE [c EXCEPT !.closeError = e]

setErrored(c) == [c EXCEPT !.errored = TRUE]

\* Mutant: a connection aborted during the callback is not told to lwIP.
getCallbackCloseError_Hidden(c) == IF c.closeError = "ABRT" THEN "OK" ELSE c.closeError

getCallbackCloseError(c) == IF c.errored THEN "OK" ELSE c.closeError
--------------------------------------------------------------------------------
(* Writing *)

space(c) == IF c.pcb /\ c.lwip = "open" THEN c.sndbuf - Len(c.queue) ELSE 0

canSend(c) == ~c.busy /\ space(c) > 0

\* add: the bytes tcp_write takes, as many as there is room for.
Taken(c, data) ==
  IF c.heap = "write" THEN 0
  ELSE IF Len(data) < space(c) THEN Len(data) ELSE space(c)

write(c, data) ==
  IF Taken(c, data) = 0 THEN c
  ELSE [c EXCEPT !.queue = @ \o SubSeq(data, 1, Taken(c, data)),
                 !.unacked = @ + Taken(c, data), !.busy = TRUE, !.sentAge = 0]
--------------------------------------------------------------------------------
(* Closing *)

abort(c) == setCloseError([c EXCEPT !.lwip = "aborted", !.pcb = FALSE, !.queue = <<>>], "ABRT")

\* close(false): the next poll closes.
close(c) == [c EXCEPT !.closePcb = TRUE]

\* The discard callback deletes the request, its response and the client.
Discard(c) == [c EXCEPT !.alive = FALSE]

\* Mutant: lwIP keeps its pointer to the client.
clearTcpCallbacks_Kept(c) == c

clearTcpCallbacks(c) == [c EXCEPT !.callbacks = FALSE]

_close(c) ==
  IF ~c.pcb THEN c
  ELSE LET cleared == clearTcpCallbacks(c)
           closed == IF c.heap = "close" THEN abort(cleared)
                     ELSE setCloseError([cleared EXCEPT !.lwip = "closing"], "OK")
       IN Discard([closed EXCEPT !.pcb = FALSE])

\* lwIP has freed the pcb before it calls the error callback.
_error(c) == Discard(setErrored(setCloseError(
               [c EXCEPT !.lwip = "reset", !.callbacks = FALSE, !.pcb = FALSE, !.queue = <<>>], "RST")))
================================================================================

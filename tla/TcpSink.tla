------------------------------ MODULE TcpSink ------------------------------
(***************************************************************************)
(* tcp_sink.go: TCPSink.Flush writes a length prefix and the payload to a  *)
(* connection that accepts the bytes in pieces.  A write deadline, or the  *)
(* loss of the connection, ends the write with an error after any number   *)
(* of bytes; what the kernel accepted before stays on the stream.          *)
(***************************************************************************)
EXTENDS Bytes

CONSTANTS
  MaxPayload,    \* math.MaxUint32, the largest length the prefix can carry
  HasDeadline    \* whether the context of a Flush carries a deadline

ASSUME TcpAssumption == MaxPayload \in Nat \ {0} /\ HasDeadline \in BOOLEAN

VARIABLES
  conn,          \* "up", or "down" after Close or the loss of the peer
  deadline,      \* whether a write deadline is set on the connection
  lbuf, payload, \* TCPSink.lbuf; the argument of the call in progress
  n,             \* bytes of the call that the connection has accepted
  fpc, ferr,     \* where the call is; whether it returns an error
  stream         \* everything the connection has accepted

tcpVars == <<conn, deadline, lbuf, payload, n, fpc, ferr, stream>>

TcpInit ==
  /\ conn = "up" /\ deadline = FALSE /\ lbuf = Zero /\ payload = << >> /\ n = 0
  /\ fpc = "idle" /\ ferr = FALSE /\ stream = << >>

\* Variant: no length is rejected.
TooLongNever(p) == FALSE

TooLong(p) == Len(p) > MaxPayload

Flush(p) ==
  /\ fpc = "idle"
  /\ deadline' = HasDeadline
  /\ payload' = p /\ n' = 0 /\ ferr' = TooLong(p)
  /\ lbuf' = IF TooLong(p) THEN lbuf ELSE Put(Len(p) % (MaxPayload + 1))
  /\ fpc' = IF TooLong(p) THEN "return" ELSE "write"
  /\ UNCHANGED <<conn, stream>>

Bufs == <<lbuf>> \o payload

\* The connection takes k more bytes; WriteTo returns once it has taken all.
Accept(k) ==
  /\ fpc = "write" /\ conn = "up" /\ k <= Len(Bufs) - n
  /\ stream' = stream \o SubSeq(Bufs, n + 1, n + k)
  /\ n' = n + k
  /\ fpc' = IF n + k = Len(Bufs) THEN "return" ELSE "write"
  /\ UNCHANGED <<conn, deadline, lbuf, payload, ferr>>

\* The deadline passes, or the connection is gone.
WriteFails ==
  /\ fpc = "write" /\ (deadline \/ conn = "down")
  /\ ferr' = TRUE
  /\ fpc' = "return"
  /\ UNCHANGED <<conn, deadline, lbuf, payload, n, stream>>

FlushReturns ==
  /\ fpc = "return"
  /\ deadline' = FALSE
  /\ fpc' = "idle"
  /\ UNCHANGED <<conn, lbuf, payload, n, ferr, stream>>

Close ==
  /\ conn = "up"
  /\ conn' = "down"
  /\ UNCHANGED <<deadline, lbuf, payload, n, fpc, ferr, stream>>

=============================================================================

------------------------------ MODULE Listener ------------------------------
(***************************************************************************)
(* The listening side of the network (core/network/listener.rs): for each  *)
(* accepted connection a read task, which cuts frames, keeps the           *)
(* connection's state to tag them with and reports them to the game, and a *)
(* write task, which writes to the socket what the game queues for it.     *)
(* All tasks run concurrently; the two channels are bounded.               *)
(*                                                                         *)
(* The write task can also shut the socket down when it is told to close;  *)
(* in the default build (no online-auth) nothing ever tells it, and the    *)
(* message is left out.  The bytes on the wire are whole frames [kind, z], *)
(* z telling whether the frame is in the compressed format.  Connection    *)
(* numbers are not reused.                                                 *)
(***************************************************************************)
EXTENDS Naturals, Sequences, FiniteSets

CONSTANTS
  Conns,      \* connections, by number
  InCap,      \* capacity of the inbound channel all read tasks share (1024)
  OutCap,     \* capacity of the outbound channel of a connection (256)
  SockCap     \* frames the buffers of a socket hold before a write has to wait

ASSUME InCapAssumption  == InCap \in Nat \ {0}
ASSUME OutCapAssumption == OutCap \in Nat \ {0}
ASSUME SockCapAssumption == SockCap \in Nat \ {0}

VARIABLES
  up,         \* up[c]: frames sent by the client and not yet cut by the read task
  down,       \* down[c]: frames written to the socket and not yet read by the client
  peer,       \* peer[c]: the client's end of the socket
  fin,        \* the connections whose server end has been shut down
  reader,     \* reader[c]: where the read task is
  writer,     \* writer[c]: where the write task is
  conn_states,\* conn_states[c]: the state the next frame of c is tagged with
  inflate,    \* inflate[c]: incoming frames are read in the compressed format
  inbound,    \* the inbound channel
  outbound,   \* the connections whose outbound sender is in the map
  out         \* out[c]: the outbound channel of c

lvars == <<up, down, peer, fin, reader, writer, conn_states, inflate, inbound,
           outbound, out>>

----------------------------------------------------------------------------
(* Protocol states and frames *)

States == {"Handshake", "Status", "Login", "Configuration", "Play"}

\* What clients send.  LoginAcknowledged and FinishConfiguration are one frame,
\* 0x03 with an empty body: the state it is read in tells them apart.
\* An intention comes with a valid forwarding signature of the proxy or directly.
StatusIntents == {"IntendStatus", "DirectStatus"}
LoginIntents  == {"IntendLogin", "DirectLogin"}
ClientKinds   == StatusIntents \cup LoginIntents \cup
                 {"StatusRequest", "Ping", "Hello", "Ack", "ClientInformation", "Move"}

Packet(c, s, k) == [type |-> "Packet", conn |-> c, state |-> s, kind |-> k]
Closed(c)       == [type |-> "Closed", conn |-> c]

Frame(k, z)        == [kind |-> k, z |-> z]
EnableCompression  == [kind |-> "EnableCompression", z |-> FALSE]

\* The tag of the frames that follow one of kind k read in state s.
NextTag(s, k) ==
  CASE s = "Handshake" /\ k \in StatusIntents   -> "Status"
    [] s = "Handshake" /\ k \in LoginIntents    -> "Login"
    [] s = "Login" /\ k = "Ack"                  -> "Configuration"
    [] s = "Configuration" /\ k = "Ack"          -> "Play"
    [] OTHER                                     -> s

----------------------------------------------------------------------------

LInit ==
  /\ up = [c \in Conns |-> <<>>]
  /\ down = [c \in Conns |-> <<>>]
  /\ peer = [c \in Conns |-> "absent"]
  /\ fin = {}
  /\ reader = [c \in Conns |-> "absent"]
  /\ writer = [c \in Conns |-> "absent"]
  /\ conn_states = [c \in Conns |-> "none"]
  /\ inflate = [c \in Conns |-> FALSE]
  /\ inbound = <<>>
  /\ outbound = {}
  /\ out = [c \in Conns |-> <<>>]

Accept(c) ==
  /\ reader[c] = "absent" /\ peer[c] # "absent"
  /\ outbound' = outbound \cup {c}
  /\ conn_states' = [conn_states EXCEPT ![c] = "Handshake"]
  /\ reader' = [reader EXCEPT ![c] = "reading"]
  /\ writer' = [writer EXCEPT ![c] = "running"]
  /\ UNCHANGED <<up, down, peer, fin, inflate, inbound, out>>

----------------------------------------------------------------------------
(* The read task *)

\* A frame read in the wrong format is not decoded, or decodes to nothing the
\* dispatcher knows.
Garbled(c) == Head(up[c]).z # inflate[c]

DropGarbled(c) ==
  /\ reader[c] = "reading"
  /\ up[c] # <<>> /\ Garbled(c)
  /\ up' = [up EXCEPT ![c] = Tail(@)]
  /\ UNCHANGED <<down, peer, fin, reader, writer, conn_states, inflate, inbound,
                 outbound, out>>

\* Mutant: the channel is taken for an unbounded one.
ProcessFrameUnbounded(c) ==
  /\ reader[c] = "reading"
  /\ up[c] # <<>> /\ ~Garbled(c)
  /\ conn_states' = [conn_states EXCEPT ![c] = NextTag(@, Head(up[c]).kind)]
  /\ inbound' = Append(inbound, Packet(c, conn_states[c], Head(up[c]).kind))
  /\ up' = [up EXCEPT ![c] = Tail(@)]
  /\ UNCHANGED <<down, peer, fin, reader, writer, inflate, outbound, out>>

\* Mutant: the game is told of the state the frame leads to.
ProcessFrameLateTag(c) ==
  /\ reader[c] = "reading"
  /\ up[c] # <<>> /\ ~Garbled(c)
  /\ LET k == Head(up[c]).kind
     IN  /\ conn_states' = [conn_states EXCEPT ![c] = NextTag(@, k)]
         /\ inbound' = IF Len(inbound) < InCap
                       THEN Append(inbound, Packet(c, NextTag(conn_states[c], k), k))
                       ELSE inbound
  /\ up' = [up EXCEPT ![c] = Tail(@)]
  /\ UNCHANGED <<down, peer, fin, reader, writer, inflate, outbound, out>>

\* The connection's state advances first; the frame itself is dropped when the
\* inbound channel is full.
ProcessFrame(c) ==
  /\ reader[c] = "reading"
  /\ up[c] # <<>> /\ ~Garbled(c)
  /\ LET k == Head(up[c]).kind
     IN  /\ conn_states' = [conn_states EXCEPT ![c] = NextTag(@, k)]
         /\ inbound' = IF Len(inbound) < InCap
                       THEN Append(inbound, Packet(c, conn_states[c], k))
                       ELSE inbound
  /\ up' = [up EXCEPT ![c] = Tail(@)]
  /\ UNCHANGED <<down, peer, fin, reader, writer, inflate, outbound, out>>

\* End of file once everything sent was read, or a read error.
ReadEnds(c) ==
  /\ reader[c] = "reading"
  /\ up[c] = <<>> /\ peer[c] = "closed"
  /\ reader' = [reader EXCEPT ![c] = "closing"]
  /\ UNCHANGED <<up, down, peer, fin, writer, conn_states, inflate, inbound,
                 outbound, out>>

\* Mutant: the report of the close does not wait for room.
TrySendClosed(c) ==
  /\ reader[c] = "closing"
  /\ inbound' = IF Len(inbound) < InCap THEN Append(inbound, Closed(c)) ELSE inbound
  /\ reader' = [reader EXCEPT ![c] = "unmapping"]
  /\ UNCHANGED <<up, down, peer, fin, writer, conn_states, inflate, outbound, out>>

\* The report of the close, unlike a frame, waits for room.
SendClosed(c) ==
  /\ reader[c] = "closing"
  /\ Len(inbound) < InCap
  /\ inbound' = Append(inbound, Closed(c))
  /\ reader' = [reader EXCEPT ![c] = "unmapping"]
  /\ UNCHANGED <<up, down, peer, fin, writer, conn_states, inflate, outbound, out>>

\* The two tables are locked one after the other.
RemoveOutbound(c) ==
  /\ reader[c] = "unmapping"
  /\ outbound' = outbound \ {c}
  /\ reader' = [reader EXCEPT ![c] = "aborting"]
  /\ UNCHANGED <<up, down, peer, fin, writer, conn_states, inflate, inbound, out>>

\* The write task is aborted, with what it had not written; both halves of the
\* socket are dropped.
AbortWriter(c) ==
  /\ reader[c] = "aborting"
  /\ conn_states' = [conn_states EXCEPT ![c] = "none"]
  /\ reader' = [reader EXCEPT ![c] = "done"]
  /\ writer' = [writer EXCEPT ![c] = "done"]
  /\ out' = [out EXCEPT ![c] = <<>>]
  /\ fin' = fin \cup {c}
  /\ UNCHANGED <<up, down, peer, inflate, inbound, outbound>>

----------------------------------------------------------------------------
(* The write task *)

\* A write waits for room in the buffers of the socket.
WriteFrame(c) ==
  /\ writer[c] = "running"
  /\ out[c] # <<>> /\ Head(out[c]) # EnableCompression
  /\ \/ /\ Len(down[c]) < SockCap
        /\ down' = IF peer[c] = "closed" THEN down
                   ELSE [down EXCEPT ![c] = Append(@, Head(out[c]))]
        /\ out' = [out EXCEPT ![c] = Tail(@)]
        /\ UNCHANGED <<writer, fin>>
     \/ /\ peer[c] = "closed"       \* a write error ends the task
        /\ writer' = [writer EXCEPT ![c] = "done"]
        /\ out' = [out EXCEPT ![c] = <<>>]
        /\ fin' = fin \cup {c}
        /\ UNCHANGED down
  /\ UNCHANGED <<up, peer, reader, conn_states, inflate, inbound, outbound>>

WriteEnableCompression(c) ==
  /\ writer[c] = "running"
  /\ out[c] # <<>> /\ Head(out[c]) = EnableCompression
  /\ inflate' = [inflate EXCEPT ![c] = TRUE]
  /\ out' = [out EXCEPT ![c] = Tail(@)]
  /\ UNCHANGED <<up, down, peer, fin, reader, writer, conn_states, inbound,
                 outbound>>

\* Its sender is gone from the map and the channel is empty.
WriterEnds(c) ==
  /\ writer[c] = "running"
  /\ out[c] = <<>> /\ c \notin outbound
  /\ writer' = [writer EXCEPT ![c] = "done"]
  /\ fin' = fin \cup {c}
  /\ UNCHANGED <<up, down, peer, reader, conn_states, inflate, inbound, outbound,
                 out>>

\* try_send of m to c when its channel holds q: what a full channel or an ended
\* task does not take is lost.
TrySend(c, q, m) ==
  IF c \in outbound /\ writer[c] = "running" /\ Len(q) < OutCap
  THEN Append(q, m) ELSE q

----------------------------------------------------------------------------

WriterStep(c) == WriteFrame(c) \/ WriteEnableCompression(c) \/ WriterEnds(c)
=============================================================================

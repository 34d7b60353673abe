--------------------------- MODULE MessageReassembly ---------------------------
(***************************************************************************)
(* How a message of the server gets back together.  It travels in web      *)
(* socket frames.  The web client (ILibWebClient_ProcessWebSocketData)     *)
(* collects them in a buffer of up to FragMax bytes and hands the message  *)
(* up whole (MoreDataToBeReceived) or, when it is larger, in pieces        *)
(* (Partial, then LastPartial); the agent (MeshServer_OnResponse) collects *)
(* those in a second buffer of up to PartMax bytes, and discards a message *)
(* that is still larger.                                                   *)
(*                                                                         *)
(* A buffer is the sequence of the bytes stored in it, with its allocated  *)
(* size.  A frame is a step: half a frame stays in the socket's buffer.    *)
(* Control frames (ping, pong) change nothing here; close is Disconnected. *)
(***************************************************************************)
EXTENDS Integers, Sequences, FiniteSetsExt

CONSTANTS Bytes,
          Payloads,            \* payloads of the frames a server may send
          FragFirst, FragMax,  \* size of the web client's buffer: 4096 to 65535
          PartFirst, PartMax,  \* size of the agent's buffer: 131072 to 64 MB
          MaxLen               \* bound: length of a message

ASSUME PayloadsAssumption == Payloads \subseteq Seq(Bytes)
ASSUME SizesAssumption ==
  /\ FragFirst \in Nat /\ FragMax \in Nat /\ 2 <= FragFirst /\ FragFirst <= FragMax
  /\ PartFirst \in Nat /\ PartMax \in Nat /\ 1 <= PartFirst /\ PartFirst <= PartMax
ASSUME MaxLenAssumption == MaxLen \in Nat

VARIABLES open,   \* a web socket is established
          ws,     \* ILibWebClient_WebSocketState: the buffer, its size, CouldNotAutoReassemble
          part,   \* controlChannelPartialBuffer, its size, controlChannelPartialOverflow
          at,     \* history: where the message is, "none", "inside" or "ended"
          sent,   \* history: the bytes of this message the server has sent
          got     \* history: what MeshServer_ProcessCommand was called with for it

vars == <<open, ws, part, at, sent, got>>

\* ILibWebClient_WebSocket_CreateState; MeshServer_ControlChannel_ResetPartial.
FreshState   == [buf |-> <<>>, size |-> FragFirst, unfit |-> FALSE]
ResetPartial == [buf |-> <<>>, size |-> 0, overflow |-> FALSE]

Init ==
  /\ open = FALSE
  /\ ws = FreshState /\ part = ResetPartial
  /\ at = "none" /\ sent = <<>> /\ got = <<>>

\* Sizes that doubling reaches from first, none above max, that hold need bytes.
Doublings(first, max, need) == {n \in need .. max : \E k \in 0 .. max : n = first * 2^k}

\* Mutant of Grown: an off-by-one that does not grow for the last byte.
GrownLess(size, first, max, need) ==
  IF need <= size + 1 /\ size > 0 THEN size
  ELSE LET fits == Doublings(first, max, need) IN IF fits = {} THEN max ELSE Min(fits)

\* The new size of a buffer of this size for need bytes: doubled while it is too small,
\* from the first size on, and max where doubling would go beyond it.
Grown(size, first, max, need) ==
  IF need <= size THEN size
  ELSE LET fits == Doublings(first, max, need) IN IF fits = {} THEN max ELSE Min(fits)

-----------------------------------------------------------------------------
(* The agent.                                                              *)

\* Mutant of Collect: only the piece that is too much is discarded, not those after it.
CollectAgain(p, data) ==
  IF Len(data) > PartMax - Len(p.buf) THEN [buf |-> <<>>, overflow |-> TRUE, size |-> 0]
  ELSE [buf |-> p.buf \o data, overflow |-> FALSE,
        size |-> Grown(p.size, PartFirst, PartMax, Len(p.buf) + Len(data))]

\* A piece of a message: MeshServer_ControlChannel_AppendPartial, or everything up to
\* the last piece is discarded.
Collect(p, data) ==
  IF p.overflow THEN p
  ELSE IF Len(data) > PartMax - Len(p.buf) THEN [buf |-> <<>>, overflow |-> TRUE, size |-> 0]
  ELSE [buf |-> p.buf \o data, overflow |-> FALSE,
        size |-> Grown(p.size, PartFirst, PartMax, Len(p.buf) + Len(data))]

\* MeshServer_ProcessCommand is called for the collected message, if there is one.
ProcessedOf(p) == IF Len(p.buf) >= 2 THEN <<p.buf>> ELSE <<>>

\* ReceiveStatus_Partial, _LastPartial and _MoreDataToBeReceived.
OnPartial(p, data) == part' = Collect(p, data) /\ got' = <<>>
OnLastPartial(p, data) == part' = ResetPartial /\ got' = ProcessedOf(Collect(p, data))
OnMoreData(data) == part' = part /\ got' = <<data>>

-----------------------------------------------------------------------------
(* The web client.                                                         *)

\* The server's side of a frame.
Sends(data, fin) ==
  /\ open
  /\ sent' = IF at = "inside" THEN sent \o data ELSE data
  /\ at' = IF fin THEN "ended" ELSE "inside"
  /\ Len(sent') <= MaxLen
  /\ UNCHANGED open

\* "We have an entire fragment, and we didn't save any of it yet".
ReceiveWhole(data) ==
  /\ Sends(data, TRUE)
  /\ ws.buf = <<>> /\ ~ws.unfit
  /\ OnMoreData(data)
  /\ UNCHANGED ws

\* The frame is not forwarded at once, and the buffer has grown to this size for it.
Kept(fin) == ~(fin /\ ws.buf = <<>> /\ ~ws.unfit)
NewSize(data) == Grown(ws.size, FragFirst, FragMax, Len(ws.buf) + Len(data))

\* There is room for the frame.
ReceiveFits(data, fin) ==
  /\ Sends(data, fin)
  /\ Kept(fin)
  /\ Len(ws.buf) + Len(data) <= NewSize(data)
  /\ IF ~fin
     THEN ws' = [ws EXCEPT !.buf = @ \o data, !.size = NewSize(data)]
     ELSE ws' = [ws EXCEPT !.buf = <<>>, !.size = NewSize(data), !.unfit = FALSE]
  /\ CASE ~fin -> part' = part /\ got' = <<>>
       [] fin /\ ~ws.unfit -> OnMoreData(ws.buf \o data)
       [] fin /\ ws.unfit -> OnLastPartial(part, ws.buf \o data)

\* "We are maxed out, so just send what we have as an unfinished fragment".
Flushed == IF ws.buf = <<>> THEN part ELSE Collect(part, ws.buf)

\* There is no room, and the frame goes to the front of the buffer.
ReceiveFlush(data, fin) ==
  /\ Sends(data, fin)
  /\ Kept(fin)
  /\ Len(ws.buf) + Len(data) > NewSize(data) /\ Len(data) <= NewSize(data)
  /\ ws' = [buf |-> IF fin THEN <<>> ELSE data, size |-> NewSize(data), unfit |-> ~fin]
  /\ IF fin THEN OnLastPartial(Flushed, data) ELSE part' = Flushed /\ got' = <<>>

\* "This frame by itself is larger than the reassembly buffer".
ReceiveDirect(data, fin) ==
  /\ Sends(data, fin)
  /\ Kept(fin)
  /\ Len(data) > NewSize(data)
  /\ ws' = [buf |-> <<>>, size |-> NewSize(data), unfit |-> ~fin]
  /\ IF fin THEN OnLastPartial(Flushed, data) ELSE OnPartial(Flushed, data)

-----------------------------------------------------------------------------
\* ReceiveStatus_Connection_Established, on a request with a state of its own.
Established ==
  /\ ~open /\ open' = TRUE
  /\ ws' = FreshState /\ part' = ResetPartial
  /\ UNCHANGED <<at, sent, got>>

\* Mutant of Disconnected: the overflow flag is left over.
DisconnectedKeeps ==
  /\ open /\ open' = FALSE
  /\ ws' = FreshState /\ part' = part
  /\ at' = "none" /\ sent' = <<>> /\ got' = <<>>

\* The web socket closes, inside a message or not: ReceiveStatus_Complete.
Disconnected ==
  /\ open /\ open' = FALSE
  /\ ws' = FreshState /\ part' = ResetPartial
  /\ at' = "none" /\ sent' = <<>> /\ got' = <<>>

Next ==
  \/ Established \/ Disconnected
  \/ \E data \in Payloads : ReceiveWhole(data)
  \/ \E data \in Payloads, fin \in BOOLEAN :
       ReceiveFits(data, fin) \/ ReceiveFlush(data, fin) \/ ReceiveDirect(data, fin)

Spec == Init /\ [][Next]_vars

-----------------------------------------------------------------------------
TypeOK ==
  /\ open \in BOOLEAN
  /\ ws \in [buf : Seq(Bytes), size : FragFirst .. FragMax, unfit : BOOLEAN]
  /\ part \in [buf : Seq(Bytes), size : 0 .. PartMax, overflow : BOOLEAN]
  /\ at \in {"none", "inside", "ended"}
  /\ sent \in Seq(Bytes)
  /\ got \in Seq(Seq(Bytes))

\* The agent processes every message exactly once, byte for byte as it was sent, and not
\* before its last frame; it leaves one out only when it is larger than the limit of a
\* reassembled message ("so the complete message can be processed once it is received").
WholeOrTooLarge ==
  IF at = "ended" THEN got = <<sent>> \/ (got = <<>> /\ Len(sent) > PartMax)
                  ELSE got = <<>>

\* Between two messages, and between two connections, nothing is left of the one before:
\* no buffered byte, and neither of the flags that say how it is to be handed on.
NothingLeft ==
  at # "inside" => /\ ws.buf = <<>> /\ ~ws.unfit
                   /\ part = ResetPartial

\* What the two buffers store fits the memory allocated for it, however they have grown.
BuffersFit ==
  /\ Len(ws.buf) <= ws.size
  /\ Len(part.buf) <= part.size

\* What is left of a message s: it is being discarded, or p and w hold all of it.
Holds(p, w, s) == IF p.overflow THEN Len(s) > PartMax /\ p.buf = <<>> ELSE s = p.buf \o w

\* The inductive form.  Inside a message the two buffers together hold what was sent of
\* it, unless it is being discarded; the agent has pieces only of a message that does
\* not fit the web client's buffer.
ReassemblyInv ==
  /\ TypeOK /\ WholeOrTooLarge /\ NothingLeft /\ BuffersFit
  /\ ~open => at = "none"
  /\ ~ws.unfit => part = ResetPartial
  /\ ws.unfit => Len(sent) > FragMax
  /\ at = "inside" => Holds(part, ws.buf, sent)
=============================================================================

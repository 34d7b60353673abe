-------------------------------- MODULE Sctp --------------------------------
(***************************************************************************)
(* The data transfer of the agent's SCTP (src/microstack/ILibWebRTC.c),    *)
(* which carries the WebRTC data channels: one direction of an             *)
(* association whose two ends run this code.  The sender keeps a queue of  *)
(* chunks that wait for credits (holding) and one of the chunks that wait  *)
(* for an acknowledgement (pending), a congestion window and one           *)
(* retransmission timer, T3-RTX; the receiver keeps the last contiguous    *)
(* TSN (intsn), the last TSN given to the application (userTSN) and the    *)
(* chunks it cannot deliver yet (the receive hold buffer), and the         *)
(* application may pause and resume it.  DTLS drops what is replayed or    *)
(* altered, so the network loses, delays and reorders, and a second copy   *)
(* of a chunk comes from a retransmission only.                            *)
(*                                                                         *)
(* Chunk n stands for the n-th DATA chunk; a packet holds one chunk.  Time *)
(* is not a number: what the code compares is whether a packet was sent    *)
(* after T3-RTX was started, and in which order (field "at").              *)
(***************************************************************************)
EXTENDS Integers, FiniteSets, Sequences, FiniteSetsExt, SequencesExt, TLC

CONSTANTS
  Chunks,      \* number of chunks the application sends
  ChunkLen,    \* ChunkLen[n]: bytes of user data in chunk n
  FirstTsn,    \* TSN of the first chunk, a random 32-bit number in the code
  TsnRange,    \* number of TSNs, 2^32 in the code
  MTU,         \* ILibRUDP_StartMTU
  MaxCredits,  \* ILibSCTP_MaxReceiverCredits, offered by both ends
  FastRetry,   \* ILibSCTP_FastRetry_GAP
  MaxCopies,   \* bound: copies of one chunk in flight
  MaxSacks,    \* bound: SACKs in flight
  MaxPauses    \* bound: calls of Pause by the receiving application

C == 1..Chunks

ASSUME SctpAssumption ==
  /\ Chunks \in Nat \ {0}
  /\ ChunkLen \in [C -> 1..1232]          \* SctpSendData cuts at 1232 bytes
  /\ TsnRange \in Nat /\ TsnRange % 65536 = 0 /\ TsnRange > Chunks
  /\ FirstTsn \in 0..(TsnRange - 1)
  /\ MTU \in Nat /\ MTU >= 1260           \* a full packet fits in one MTU
  /\ MaxCredits \in Nat /\ MaxCredits >= 1232
  /\ FastRetry \in 1..252
  /\ MaxCopies \in Nat \ {0} /\ MaxSacks \in Nat \ {0} /\ MaxPauses \in Nat

VARIABLES
  next,      \* next chunk the application sends (outtsn)
  snd,       \* the sender's half of the session
  data,      \* data[n]: copies of chunk n in flight
  sacks,     \* SACKs in flight
  rcv,       \* the receiver's half of the session
  got,       \* history: chunks 1..got were delivered, in this order
  flaws,     \* history: "repeat", "skip" when a delivery was not got + 1
  dropped,   \* history: chunks refused by a full hold buffer although next
  pauses     \* calls of Pause

hist == <<got, flaws, dropped>>

vars == <<next, snd, data, sacks, rcv, hist, pauses>>

-----------------------------------------------------------------------------
(* TSNs and sizes.  TSNs are compared as plain unsigned numbers.           *)

Tsn(n) == (FirstTsn + n - 1) % TsnRange

After(t) == (t + 1) % TsnRange

Lesser(a, b) == IF a < b THEN a ELSE b

Greater(a, b) == IF a < b THEN b ELSE a

\* User bytes rounded up by FOURBYTEBOUNDARY: PacketSize - (12 + 16).
Padded(n) == ((ChunkLen[n] + 3) \div 4) * 4

PacketSize(n) == 28 + Padded(n)

Bytes(chunks) ==
  LET sum[i \in 0..Len(chunks)] ==
        IF i = 0 THEN 0 ELSE sum[i - 1] + Padded(chunks[i])
  IN sum[Len(chunks)]

-----------------------------------------------------------------------------
(* The sender's session.  Gap counters: 0xFE a gap block acknowledged the  *)
(* packet, 0xFF it waits to be sent again.                                 *)

GapAcked == 254
Resend == 255

\* A packet of the pending queue.  at = 0: sent no later than T3-RTX was
\* started; otherwise its place in the order of later sends.
Packet(n, at) == [n |-> n, gap |-> 0, at |-> at]

Rank(pending) == Max({0} \cup {pending[i].at : i \in DOMAIN pending}) + 1

\* What a handler adds to the session while it runs: "since", T3-RTX was
\* (re)started; "out", the chunks handed to DTLS; "done", the loop has ended;
\* and the locals of the SACK handler.
Work(s) ==
  [pending |-> s.pending, holding |-> s.holding,
   receiverCredits |-> s.receiverCredits, senderCredits |-> s.senderCredits,
   cwnd |-> s.cwnd, ssthresh |-> s.ssthresh, partial |-> s.partial,
   exit |-> s.exit, t3 |-> s.t3,
   since |-> FALSE, out |-> {}, done |-> FALSE,
   fast |-> FALSE, last |-> 0, reset |-> FALSE, blk |-> 0]

\* Once T3-RTX was (re)started every packet was sent by then; otherwise the
\* places are counted anew.
Timed(w) ==
  LET places == {w.pending[i].at : i \in DOMAIN w.pending} \ {0}
      Place(p) == IF w.since \/ ~w.t3 THEN 0
                  ELSE Cardinality({x \in places : x <= p.at})
  IN [i \in DOMAIN w.pending |->
        [w.pending[i] EXCEPT !.at = Place(w.pending[i])]]

StartT3(s) == [s EXCEPT !.t3 = TRUE, !.since = TRUE]

StartT3IfOff(s) == IF s.t3 THEN s ELSE StartT3(s)

\* ILibStun_SendSctpPacket: what the step hands to DTLS.
SendSctpPacket(s, n) == [s EXCEPT !.out = @ \cup {n}]

\* The bound MaxCopies: a further copy is lost.
Transmit(chunks) ==
  [n \in C |-> IF n \in chunks THEN Lesser(data[n] + 1, MaxCopies) ELSE data[n]]

\* The handler leaves the sender in state w.
SenderIs(w) ==
  /\ snd' = [pending |-> Timed(w), holding |-> w.holding,
             receiverCredits |-> w.receiverCredits, senderCredits |-> w.senderCredits,
             cwnd |-> w.cwnd, ssthresh |-> w.ssthresh, partial |-> w.partial,
             exit |-> w.exit, t3 |-> w.t3]
  /\ data' = Transmit(w.out)

-----------------------------------------------------------------------------
(* Operations of the sender.                                               *)

\* Mutant: the congestion window is not asked.
SendWithoutWindow(n) ==
  IF snd.receiverCredits < ChunkLen[n] \/ snd.holding # <<>>
  THEN [Work(snd) EXCEPT !.holding = Append(@, n)]
  ELSE StartT3IfOff(SendSctpPacket(
         [Work(snd) EXCEPT !.pending = Append(@, Packet(n, Rank(snd.pending))),
                           !.receiverCredits = @ - ChunkLen[n],
                           !.senderCredits = @ - ChunkLen[n]], n))

SctpSendDataEx(n) ==
  LET len == ChunkLen[n]
  IN IF snd.receiverCredits < len \/ len > snd.senderCredits \/ snd.holding # <<>>
     THEN [Work(snd) EXCEPT !.holding = Append(@, n)]
     ELSE StartT3IfOff(SendSctpPacket(
            [Work(snd) EXCEPT !.pending = Append(@, Packet(n, Rank(snd.pending))),
                              !.receiverCredits = @ - len,
                              !.senderCredits = @ - len], n))

\* The application sends the next chunk.
SctpSendData ==
  /\ next <= Chunks
  /\ next' = next + 1
  /\ SenderIs(SctpSendDataEx(next))
  /\ UNCHANGED <<sacks, rcv, hist, pauses>>

\* One packet of the queue when T3-RTX expired; packets sent after place cut
\* have not been out for RTO yet, and the first of them ends the loop.
ResendOne(s, i, cut) ==
  LET p == s.pending[i] IN
  IF s.done \/ p.gap = GapAcked THEN s
  ELSE IF p.at > cut THEN [s EXCEPT !.done = TRUE]
  ELSE IF s.senderCredits >= PacketSize(p.n)
  THEN StartT3IfOff(SendSctpPacket(
         [s EXCEPT !.pending[i].gap = 0,
                   !.senderCredits = @ - PacketSize(p.n)], p.n))
  ELSE [s EXCEPT !.pending[i].gap = Resend]

\* The loop over the pending queue.
ResendAll(w, cut) ==
  LET run[i \in 0..Len(w.pending)] ==
        IF i = 0 THEN w ELSE ResendOne(run[i - 1], i, cut)
  IN run[Len(w.pending)]

Shrunk(s) == Greater(s.cwnd \div 2, 4 * MTU)

\* ILibStun_SctpResent, called by the poll timer, when T3-RTX has expired.
SctpResent ==
  /\ snd.t3 /\ snd.pending # <<>>
  /\ \E cut \in 0..(Rank(snd.pending) - 1) :
       LET w == [Work(snd) EXCEPT !.t3 = FALSE, !.senderCredits = MTU,
                                  !.ssthresh = Shrunk(snd), !.cwnd = MTU]
       IN SenderIs(ResendAll(w, cut))
  /\ UNCHANGED <<next, sacks, rcv, hist, pauses>>

\* A SACK leaves fast recovery when it reaches the exit point.
LeaveFastRecovery(s, cum) ==
  IF s.exit # 0 /\ cum >= s.exit THEN [s EXCEPT !.exit = 0] ELSE s

\* Mutant: one packet too many is taken for acknowledged.
AckedOneMore(pending, cum) ==
  Cardinality({i \in DOMAIN pending : Tsn(pending[i].n) <= cum + 1})

\* Packets at the head of the pending queue that the SACK acknowledges.
AckedCount(pending, cum) ==
  LET above == {i \in DOMAIN pending : Tsn(pending[i].n) > cum}
  IN IF above = {} THEN Len(pending)
     ELSE Min(above) - 1

ChunksOf(pending) == [i \in DOMAIN pending |-> pending[i].n]

\* The growth of the congestion window: slow start, or one MTU per window.
Grow(s, bytes, inFlight) ==
  IF /\ s.cwnd <= s.ssthresh /\ s.exit = 0
     /\ bytes # 0 /\ s.cwnd < MaxCredits
  THEN [s EXCEPT !.cwnd = @ + Lesser(bytes, MTU)]
  ELSE IF s.cwnd > s.ssthresh /\ s.partial >= s.cwnd /\ inFlight >= s.cwnd
  THEN [s EXCEPT !.cwnd = @ + MTU, !.partial = @ - (s.cwnd + MTU)]
  ELSE s

\* Clear all packets that are fully acknowledged.
Cumulative(s, cum) ==
  LET k     == AckedCount(s.pending, cum)
      bytes == Bytes(ChunksOf(SubSeq(s.pending, 1, k)))
      rest  == SubSeq(s.pending, k + 1, Len(s.pending))
      paid  == [s EXCEPT !.pending = rest,
                         !.receiverCredits = @ + bytes,
                         !.senderCredits =
                            IF k = 0 THEN @ ELSE Lesser(@ + bytes, s.cwnd)]
      timed == IF rest = <<>>
               THEN [paid EXCEPT !.senderCredits = s.cwnd, !.partial = 0,
                                 !.t3 = FALSE]
               ELSE IF k = 0 THEN paid
               ELSE StartT3([paid EXCEPT !.partial = @ + bytes])
  IN Grow(timed, bytes, Bytes(ChunksOf(s.pending)))

\* The gap counter of a packet below (missing) or in a gap block.
Counted(gap, missing) ==
  IF missing
  THEN IF gap < 253 THEN Lesser(gap + 1, 252) ELSE IF gap = GapAcked THEN 1 ELSE gap
  ELSE IF gap < 253 THEN GapAcked ELSE gap

\* The first fast retransmission outside fast recovery halves the window.
EnterFastRecovery(w) ==
  IF w.reset \/ w.exit # 0 THEN w
  ELSE [w EXCEPT !.ssthresh = Shrunk(w), !.cwnd = Shrunk(w),
                 !.senderCredits = Lesser(@, Shrunk(w)), !.partial = 0,
                 !.reset = TRUE]

\* The packet was reported missing FastRetry times: the first such packet of
\* a SACK is sent whatever the credits, the others when they allow it.
FastRetransmit(w, i, now) ==
  LET n == w.pending[i].n
      e == [EnterFastRecovery(w) EXCEPT !.pending[i].gap = Resend, !.last = Tsn(n)]
      sent == [SendSctpPacket(e, n) EXCEPT !.pending[i].at = now]
  IN IF ~w.fast
     THEN [(IF i = 1 THEN StartT3(sent) ELSE StartT3IfOff(sent)) EXCEPT !.fast = TRUE]
     ELSE IF e.senderCredits >= PacketSize(n)
     THEN StartT3IfOff([sent EXCEPT !.senderCredits = @ - Padded(n)])
     ELSE e

\* A packet marked for a later retransmission is sent when credits allow it.
ResendMarked(w, i, now) ==
  LET n == w.pending[i].n
  IN [SendSctpPacket(w, n) EXCEPT !.pending[i].at = now,
                                  !.senderCredits = @ - PacketSize(n)]

\* A TSN of a gap block as the sender reads it: an offset of 16 bits.
Wire(cum, t) == (cum + ((t - cum) % 65536)) % TsnRange

\* One packet met by the loop over the gap blocks; a block that ends below
\* the packet is left for good (blk: the first TSN of the present block).
GapOne(w, i, k, now) ==
  LET p    == w.pending[i]
      t    == Tsn(p.n)
      left == {b \in k.blocks : w.blk <= b.start /\ t <= Wire(k.cum, b.end)}
  IN IF left = {} THEN [w EXCEPT !.blk = TsnRange]
     ELSE LET b       == CHOOSE b \in left : \A d \in left : b.start <= d.start
              missing == t < Wire(k.cum, b.start)
              frt     == Counted(p.gap, missing)
              gain    == IF ~missing /\ p.gap < 253 THEN Padded(p.n) ELSE 0
              c       == [w EXCEPT !.blk = b.start, !.pending[i].gap = frt,
                                   !.senderCredits = @ + gain,
                                   !.partial = @ + gain]
          IN IF frt >= FastRetry /\ frt < 253 THEN FastRetransmit(c, i, now)
             ELSE IF frt = Resend /\ c.senderCredits >= PacketSize(p.n)
             THEN ResendMarked(c, i, now)
             ELSE c

\* The loop over the pending queue.
GapAll(w, k) ==
  LET now == Rank(w.pending)
      run[i \in 0..Len(w.pending)] ==
        IF i = 0 THEN w ELSE GapOne(run[i - 1], i, k, now)
  IN run[Len(w.pending)]

Gaps(s, k) ==
  LET w == GapAll(s, k)
  IN [w EXCEPT !.exit = IF w.last # 0 /\ @ = 0 THEN w.last ELSE @]

\* Mutant: a chunk that leaves the holding queue takes no receiver credits.
ReleaseForFree(s) ==
  IF s.holding = <<>> \/ Padded(s.holding[1]) > Lesser(s.receiverCredits, s.senderCredits)
  THEN s
  ELSE StartT3IfOff([s EXCEPT !.holding = Tail(@),
                              !.pending = Append(@, Packet(s.holding[1], Rank(@))),
                              !.senderCredits = @ - Padded(s.holding[1]),
                              !.out = @ \cup {s.holding[1]}])

\* Send what the holding queue has and the credits allow.
Release(s) ==
  LET Fits(k) == Bytes(SubSeq(s.holding, 1, k))
                   <= Lesser(s.receiverCredits, s.senderCredits)
      k     == CHOOSE m \in 0..Len(s.holding) :
                 /\ m = 0 \/ Fits(m)
                 /\ m = Len(s.holding) \/ ~Fits(m + 1)
      moved == SubSeq(s.holding, 1, k)
      now   == Rank(s.pending)
      r     == [s EXCEPT !.holding = SubSeq(@, k + 1, Len(@)),
                         !.pending = @ \o [i \in 1..k |-> Packet(moved[i], now)],
                         !.receiverCredits = @ - Bytes(moved),
                         !.senderCredits = @ - Bytes(moved),
                         !.out = @ \cup Range(moved)]
  IN IF k = 0 THEN s ELSE StartT3IfOff(r)

\* Mutant: the holding queue is looked at before the credits are given back.
SackReleasesFirst(k) ==
  Gaps(Cumulative(Release(LeaveFastRecovery(Work(snd), k.cum)), k.cum), k)

SackHandled(k) ==
  Release(Gaps(Cumulative(LeaveFastRecovery(Work(snd), k.cum), k.cum), k))

\* RCTP_CHUNK_TYPE_SACK.  The advertised window is not used.
ReceiveSack(k) ==
  /\ k \in sacks
  /\ sacks' = sacks \ {k}
  /\ SenderIs(SackHandled(k))
  /\ UNCHANGED <<next, rcv, hist, pauses>>

-----------------------------------------------------------------------------
(* The receiver.                                                           *)

\* The hold buffer counts the length field of a chunk (16 + user data) as it
\* stands in the packet, in network byte order.
HoldSize(n) == LET len == 16 + ChunkLen[n] IN (len % 256) * 256 + len \div 256

HoldUsed(held) == MapThenSumSet(HoldSize, held)

\* The head of the hold buffer, which is kept in the order of the TSNs.
FirstHeld(held) == CHOOSE n \in held : \A m \in held : Tsn(n) <= Tsn(m)

HoldFits(n) == HoldUsed(rcv.held) + HoldSize(n) <= MaxCredits

\* ILibStun_SctpAddSackChunk: one block per run of held chunks above userTSN.
SackOf(r) ==
  LET above     == {t \in {Tsn(n) : n \in r.held} : t > r.userTSN}
      IsRun(a, b) == /\ a <= b /\ a..b \subseteq above
                     /\ a - 1 \notin above /\ b + 1 \notin above
  IN [cum |-> r.intsn,
      blocks |-> {b \in [start : above, end : above] : IsRun(b.start, b.end)}]

\* The bound MaxSacks: a further SACK is lost.
SendSack(r) == IF Cardinality(sacks) < MaxSacks THEN sacks \cup {SackOf(r)} ELSE sacks

\* ILibStun_SctpProcessStreamData hands chunk n to the application: what the
\* history in w says then.
Deliver(w, n) ==
  IF n = w.got + 1 THEN [w EXCEPT !.got = n]
  ELSE [w EXCEPT !.flaws = @ \cup {IF n <= w.got THEN "repeat" ELSE "skip"}]

\* ILibSCTP_AddPacketToHoldingQueue: a chunk that does not fit is dropped, and
\* not acknowledged now.
AddPacketToHoldingQueue(n, r) ==
  /\ IF HoldFits(n)
     THEN LET h == [r EXCEPT !.held = @ \cup {n}]
          IN rcv' = h /\ sacks' = SendSack(h)
     ELSE rcv' = r /\ sacks' = sacks
  /\ dropped' = IF ~HoldFits(n) /\ r.intsn = Tsn(n) THEN dropped \cup {n} ELSE dropped
  /\ UNCHANGED <<got, flaws, pauses>>

\* The state of a loop of the receiver: its session and the history.
Receiving(r) ==
  [intsn |-> r.intsn, userTSN |-> r.userTSN, held |-> r.held, paused |-> r.paused,
   got |-> got, flaws |-> flaws, done |-> FALSE]

ReceiverIs(w) ==
  /\ rcv' = [intsn |-> w.intsn, userTSN |-> w.userTSN, held |-> w.held, paused |-> w.paused]
  /\ got' = w.got /\ flaws' = w.flaws /\ UNCHANGED dropped

\* The head of the hold buffer is handed up and removed if it is the next one
\* for the application.
ResumeOne(w) ==
  LET n == FirstHeld(w.held)
  IN IF w.held = {} \/ Tsn(n) # After(w.userTSN) THEN w
     ELSE Deliver([w EXCEPT !.userTSN = Tsn(n), !.held = @ \ {n}], n)

ResumeAll(w) ==
  LET run[i \in 0..Chunks] == IF i = 0 THEN w ELSE ResumeOne(run[i - 1])
  IN run[Chunks]

\* Mutant: the application's TSN does not follow the hold buffer.
PullOneIntsnOnly(w, i, stop) ==
  LET n      == FirstHeld(w.held)
      paused == w.paused \/ stop = i
  IN IF \/ w.done \/ w.held = {}
        \/ Tsn(n) > After(w.intsn) \/ Tsn(n) > After(w.userTSN)
     THEN w
     ELSE Deliver([w EXCEPT !.intsn = Tsn(n), !.held = @ \ {n},
                            !.paused = paused, !.done = paused], n)

\* The head of the hold buffer is handed up and removed, if it is not beyond
\* the next one, and both TSNs are set to it.  The i-th callback pauses if
\* stop = i; the flag is looked at after a callback.
PullOne(w, i, stop) ==
  LET n      == FirstHeld(w.held)
      paused == w.paused \/ stop = i
  IN IF \/ w.done \/ w.held = {}
        \/ Tsn(n) > After(w.intsn) \/ Tsn(n) > After(w.userTSN)
     THEN w
     ELSE Deliver([w EXCEPT !.intsn = Tsn(n), !.userTSN = Tsn(n), !.held = @ \ {n},
                            !.paused = paused, !.done = paused], n)

PullAll(w, stop) ==
  LET run[i \in 0..Chunks] == IF i = 0 THEN w ELSE PullOne(run[i - 1], i, stop)
  IN run[Chunks]

\* The chunk is the next one, and the application has seen the one before it.
\* intsn first moves over all that is held next to it and is acknowledged; then
\* the chunk and what follows on from it are delivered.  stop is the callback
\* in which the application pauses, if it does: 0 for the chunk itself, i for
\* the i-th chunk of the hold buffer.
DeliverNext(n, stop) ==
  LET took  == [rcv EXCEPT !.intsn = Tsn(n), !.userTSN = Tsn(n)]
      moved == [took EXCEPT !.intsn = ResumeAll(Receiving(took)).userTSN]
      w     == PullAll(Deliver([Receiving(moved) EXCEPT !.paused = stop = 0], n), stop)
  IN /\ sacks' = SendSack(moved)
     /\ ReceiverIs(w)
     /\ pauses' = IF w.paused THEN pauses + 1 ELSE pauses

\* No callback pauses.
NoStop == Chunks + 1

Stops == IF pauses < MaxPauses THEN 0..NoStop ELSE {NoStop}

\* Mutant: the application's TSN is not looked at.
MustHoldIfPaused(t) == rcv.paused

\* The application is paused, or its TSN has not caught up yet.
MustHold(t) == rcv.paused \/ rcv.userTSN < (t - 1) % TsnRange

\* Mutant: a chunk that was received before is not acknowledged again.
DuplicateUnanswered == UNCHANGED <<rcv, sacks, hist, pauses>>

\* Already received: acknowledge again.
Duplicate ==
  /\ sacks' = SendSack(rcv)
  /\ UNCHANGED <<rcv, hist, pauses>>

\* RCTP_CHUNK_TYPE_DATA.
ReceiveData(n) ==
  /\ data[n] > 0
  /\ data' = [data EXCEPT ![n] = @ - 1]
  /\ LET t        == Tsn(n)
         expected == After(rcv.intsn)
         took     == [rcv EXCEPT !.intsn = t]
     IN \/ /\ t = expected
           /\ MustHold(t)
           /\ AddPacketToHoldingQueue(n, took)
        \/ /\ t = expected
           /\ ~MustHold(t)
           /\ \E stop \in Stops : DeliverNext(n, stop)
        \/ /\ t > expected
           /\ AddPacketToHoldingQueue(n, rcv)
        \/ /\ t < expected
           /\ Duplicate
  /\ UNCHANGED <<next, snd>>

\* ILibSCTP_Pause, outside of a callback.
Pause ==
  /\ pauses < MaxPauses /\ ~rcv.paused
  /\ rcv' = [rcv EXCEPT !.paused = TRUE]
  /\ pauses' = pauses + 1
  /\ UNCHANGED <<next, snd, data, sacks, hist>>

\* ILibSCTP_Resume delivers what follows on from userTSN; a Pause made in a
\* callback does not stop it.
Resume ==
  /\ LET w == ResumeAll(Receiving([rcv EXCEPT !.paused = FALSE]))
     IN \E again \in IF w.held # rcv.held /\ pauses < MaxPauses THEN BOOLEAN ELSE {FALSE} :
          /\ ReceiverIs([w EXCEPT !.paused = again])
          /\ pauses' = IF again THEN pauses + 1 ELSE pauses
  /\ UNCHANGED <<next, snd, data, sacks>>

-----------------------------------------------------------------------------
(* The network.                                                            *)

LoseData(n) ==
  /\ data[n] > 0
  /\ data' = [data EXCEPT ![n] = @ - 1]
  /\ UNCHANGED <<next, snd, sacks, rcv, hist, pauses>>

LoseSack(k) ==
  /\ k \in sacks
  /\ sacks' = sacks \ {k}
  /\ UNCHANGED <<next, snd, data, rcv, hist, pauses>>

\* The session as ILibStun_CreateDtlsSession makes it.  The threshold is set on both ends by
\* ILibStun_DTLS_Success (line 5922), before the association is set up.
Init ==
  /\ next = 1
  /\ snd = [pending |-> <<>>, holding |-> <<>>, receiverCredits |-> MaxCredits,
            senderCredits |-> 4 * MTU, cwnd |-> 4 * MTU, ssthresh |-> 4 * MTU,
            partial |-> 0, exit |-> 0, t3 |-> FALSE]
  /\ data = [n \in C |-> 0]
  /\ sacks = {}
  /\ rcv = [intsn |-> (FirstTsn - 1) % TsnRange,
            userTSN |-> (FirstTsn - 1) % TsnRange, held |-> {}, paused |-> FALSE]
  /\ got = 0 /\ flaws = {} /\ dropped = {} /\ pauses = 0

Next ==
  \/ SctpSendData \/ SctpResent \/ Pause \/ Resume
  \/ \E n \in C : ReceiveData(n) \/ LoseData(n)
  \/ \E k \in sacks : ReceiveSack(k) \/ LoseSack(k)

Spec == Init /\ [][Next]_vars

\* The application sends all it has (WF), the poll timer SctpOnTimeout keeps
\* running while the session lives (WF), and what is sent again and again
\* arrives at some time (SF).  Each line is WF or SF written out, with the
\* action's guard in the place of ENABLED.
FairSpec ==
  /\ Spec
  /\ []<>(next > Chunks) \/ []<><<SctpSendData>>_vars
  /\ []<>(~snd.t3) \/ []<><<SctpResent>>_vars
  /\ \A n \in C : <>[](data[n] = 0) \/ []<><<ReceiveData(n)>>_vars
  /\ <>[](sacks = {}) \/ []<><<\E k \in sacks : ReceiveSack(k)>>_vars

-----------------------------------------------------------------------------
(* Properties.                                                             *)

Tsns == 0..(TsnRange - 1)

InFlight == Range(ChunksOf(snd.pending))

\* The shape of the state; credits never go below zero, although a
\* retransmission, a release and a send each take them from two counters.
TypeOK ==
  /\ next \in 1..(Chunks + 1)
  /\ snd \in [pending : Seq([n : C, gap : 0..255, at : 0..Chunks]), holding : Seq(C),
             receiverCredits : Nat, senderCredits : Nat, cwnd : Nat, ssthresh : Nat,
             partial : Int, exit : Tsns, t3 : BOOLEAN]
  /\ data \in [C -> 0..MaxCopies]
  /\ sacks \subseteq [cum : Tsns, blocks : SUBSET [start : Tsns, end : Tsns]]
  /\ rcv \in [intsn : Tsns, userTSN : Tsns, held : SUBSET C, paused : BOOLEAN]
  /\ got \in 0..Chunks /\ flaws \subseteq {"repeat", "skip"} /\ dropped \subseteq C
  /\ pauses \in 0..MaxPauses

\* The application never sees a chunk before all earlier ones: not across a
\* pause, a full hold buffer, a reordered or a repeated chunk.
NoSkip == "skip" \notin flaws

\* As long as the application has not paused, it gets every chunk once and in
\* order, and both TSNs stand at the last one it got, whatever was held, lost,
\* reordered or sent again.
ExactlyOnce ==
  pauses = 0 => /\ flaws = {} /\ rcv.userTSN = rcv.intsn
                /\ rcv.intsn = (FirstTsn + got - 1) % TsnRange

\* What the sender no longer keeps was delivered or is held by the receiver;
\* the one exception is a chunk that a paused receiver took for received
\* (intsn) and then had no room for.  A gap block is never taken back: a packet
\* marked as acknowledged by one is delivered or held.
NothingForgotten ==
  /\ \A n \in 1..(next - 1) :
       n <= got \/ n \in InFlight \cup Range(snd.holding) \cup rcv.held \cup dropped
  /\ \A i \in DOMAIN snd.pending :
       snd.pending[i].gap = GapAcked =>
         snd.pending[i].n <= got \/ snd.pending[i].n \in rcv.held
  /\ pauses = 0 => dropped = {}

\* The receiver's window is neither lost nor made up: what the sender may still
\* send and what is in flight make up the window (chunks of whole words).
WindowConserved == snd.receiverCredits + Bytes(ChunksOf(snd.pending)) = MaxCredits

\* Chunks that wait for credits always wait for the acknowledgement of
\* something in flight: nothing else would send them.
NoStuckSend == snd.holding # <<>> => snd.pending # <<>>

\* T3-RTX is turned off only once all data has been acknowledged, as the
\* comment in the SACK handler says.
TimerRuns == snd.pending # <<>> => snd.t3

\* All chunks reach an application that does not pause, unless T3-RTX is off
\* for good while data is unacknowledged: nothing else stops a transfer.
AllArrive ==
  <>(got = Chunks \/ pauses > 0) \/ <>[](snd.pending # <<>> /\ ~snd.t3)
=============================================================================

----------------------- MODULE MessageReassembly_proofs -----------------------
(***************************************************************************)
(* Proofs about MessageReassembly, for all messages and frames, and every  *)
(* size of the two buffers.                                                *)
(***************************************************************************)
EXTENDS MessageReassembly, SequenceTheorems, WellFoundedInduction, TLAPS

WsType   == [buf : Seq(Bytes), size : FragFirst .. FragMax, unfit : BOOLEAN]
PartType == [buf : Seq(Bytes), size : 0 .. PartMax, overflow : BOOLEAN]

\* The part of the current message that was sent before this frame.
SoFar == IF at = "inside" THEN sent ELSE <<>>

-----------------------------------------------------------------------------
\* A set of natural numbers that is not empty has a minimum.
LEMMA MinExists ==
  ASSUME NEW S \in SUBSET Nat, S # {}
  PROVE  Min(S) \in S
<1>1. PICK x \in S : \A y \in S : ~(<<y, x>> \in OpToRel(<, Nat))
  BY WFMin, NatLessThanWellFounded
<1>2. ASSUME NEW y \in S, y < x PROVE FALSE
  <2>1. <<y, x>> \in {ss \in Nat \X Nat : ss[1] < ss[2]}
    BY <1>2
  <2>2. {ss \in Nat \X Nat : ss[1] < ss[2]} = OpToRel(<, Nat)
    BY Zenon DEF OpToRel
  <2>3. QED
    BY <1>1, <2>1, <2>2, Zenon
<1>3. \E m \in S : \A y \in S : m =< y
  BY <1>2
<1>4. QED
  BY <1>3, Zenon DEF Min

\* A buffer that grows gets the room it needs, or all there may be, and never shrinks
\* below its first size.
LEMMA GrownBounds ==
  ASSUME NEW first \in Nat, NEW max \in Nat, first <= max,
         NEW low \in Nat, low <= first,
         NEW size \in low .. max, NEW need \in Nat
  PROVE  /\ Grown(size, first, max, need) \in low .. max
         /\ need <= max => need <= Grown(size, first, max, need)
         /\ need <= max \/ Grown(size, first, max, need) = max
<1> DEFINE fits == Doublings(first, max, need)
<1>1. CASE need <= size
  BY <1>1 DEF Grown
<1>2. CASE need > size /\ fits = {}
  BY <1>2 DEF Grown
<1>3. CASE need > size /\ fits # {}
  <2>1. fits \subseteq need .. max
    BY DEF Doublings
  <2>2. Min(fits) \in fits
    BY <1>3, <2>1, MinExists
  <2>3. Min(fits) \in need .. max
    BY <2>1, <2>2
  <2>4. Grown(size, first, max, need) = Min(fits)
    BY <1>3 DEF Grown
  <2>5. QED
    BY <1>3, <2>3, <2>4
<1>4. QED
  BY <1>1, <1>2, <1>3

-----------------------------------------------------------------------------
(* The agent's buffer.                                                     *)

\* A piece is stored within the memory allocated for it, or the message is discarded.
LEMMA CollectFits ==
  ASSUME NEW p \in PartType, Len(p.buf) <= p.size, NEW data \in Seq(Bytes)
  PROVE  /\ Collect(p, data) \in PartType
         /\ Len(Collect(p, data).buf) <= Collect(p, data).size
<1>1. CASE p.overflow
  BY <1>1 DEF Collect
<1>2. CASE ~p.overflow /\ Len(data) > PartMax - Len(p.buf)
  <2>1. Collect(p, data) = [buf |-> <<>>, size |-> 0, overflow |-> TRUE]
    BY <1>2 DEF Collect, ResetPartial
  <2>2. QED
    BY <2>1, SizesAssumption DEF PartType
<1>3. CASE ~p.overflow /\ ~(Len(data) > PartMax - Len(p.buf))
  <2> DEFINE need == Len(p.buf) + Len(data)
             q == [buf |-> p.buf \o data, overflow |-> FALSE,
                   size |-> Grown(p.size, PartFirst, PartMax, need)]
  <2>1. p.buf \in Seq(Bytes) /\ p.size \in 0 .. PartMax /\ p.overflow \in BOOLEAN
    BY DEF PartType
  <2>2. need \in Nat /\ need <= PartMax
    BY <1>3, <2>1, SizesAssumption
  <2> HIDE DEF need
  <2>a. PartFirst \in Nat /\ PartMax \in Nat /\ PartFirst <= PartMax /\ 0 \in Nat /\ 0 <= PartFirst
    BY SizesAssumption
  <2>3. /\ Grown(p.size, PartFirst, PartMax, need) \in 0 .. PartMax
        /\ need <= Grown(p.size, PartFirst, PartMax, need)
    BY <2>1, <2>2, <2>a, GrownBounds, Zenon
  <2>4. p.buf \o data \in Seq(Bytes) /\ Len(p.buf \o data) = need
    BY <2>1, ConcatProperties DEF need
  <2>5. Collect(p, data) = q
    BY <1>3 DEF Collect, need
  <2>7. q \in PartType
    BY <2>3, <2>4 DEF PartType
  <2>8. q.buf = p.buf \o data /\ q.size = Grown(p.size, PartFirst, PartMax, need)
    OBVIOUS
  <2>9. QED
    BY <2>3, <2>4, <2>5, <2>7, <2>8
<1>4. QED
  BY <1>1, <1>2, <1>3

\* Handing up the web client's bytes loses none of the message.
LEMMA CollectHolds ==
  ASSUME NEW p \in PartType, NEW w \in Seq(Bytes), NEW s \in Seq(Bytes), Holds(p, w, s)
  PROVE  Holds(Collect(p, w), <<>>, s)
<1>0. p.buf \in Seq(Bytes)
  BY DEF PartType
<1>1. CASE p.overflow
  BY <1>1 DEF Collect, Holds
<1>2. CASE ~p.overflow /\ Len(w) > PartMax - Len(p.buf)
  <2>1. Collect(p, w) = [buf |-> <<>>, size |-> 0, overflow |-> TRUE]
    BY <1>2 DEF Collect, ResetPartial
  <2>2. Len(s) = Len(p.buf) + Len(w)
    BY <1>0, <1>2, ConcatProperties DEF Holds
  <2>3. Len(s) > PartMax
    BY <1>0, <1>2, <2>2, SizesAssumption
  <2>4. QED
    BY <2>1, <2>3 DEF Holds
<1>3. CASE ~p.overflow /\ ~(Len(w) > PartMax - Len(p.buf))
  <2>1. Collect(p, w).buf = p.buf \o w /\ ~Collect(p, w).overflow
    BY <1>3 DEF Collect, PartType
  <2>2. s = p.buf \o w
    BY <1>3 DEF Holds
  <2>3. s \o <<>> = s
    BY ConcatEmptySeq
  <2>4. QED
    BY <2>1, <2>2, <2>3 DEF Holds
<1>4. QED
  BY <1>1, <1>2, <1>3

\* The empty sequence is a sequence of anything.
LEMMA EmptyIsSeq == ASSUME NEW S PROVE <<>> \in Seq(S)
OBVIOUS

\* Concatenation is associative.
LEMMA Assoc ==
  ASSUME NEW x \in Seq(Bytes), NEW y \in Seq(Bytes), NEW z \in Seq(Bytes)
  PROVE  (x \o y) \o z = x \o (y \o z)
OBVIOUS

\* A frame that is appended to the web client's buffer stays part of the message.
LEMMA ExtendHolds ==
  ASSUME NEW p \in PartType, NEW w \in Seq(Bytes), NEW s \in Seq(Bytes),
         NEW data \in Seq(Bytes), Holds(p, w, s)
  PROVE  Holds(p, w \o data, s \o data)
<1>0. p.buf \in Seq(Bytes)
  BY DEF PartType
<1>1. CASE p.overflow
  <2>1. Len(s \o data) = Len(s) + Len(data)
    BY ConcatProperties
  <2>2. Len(s \o data) > PartMax
    BY <1>1, <2>1, SizesAssumption DEF Holds
  <2>3. QED
    BY <1>1, <2>2 DEF Holds
<1>2. CASE ~p.overflow
  <2>1. s = p.buf \o w
    BY <1>2 DEF Holds
  <2>a. (p.buf \o w) \o data = p.buf \o (w \o data)
    BY <1>0, Assoc
  <2>2. s \o data = p.buf \o (w \o data)
    BY <2>1, <2>a, Zenon
  <2>3. QED
    BY <1>2, <2>2 DEF Holds
<1>3. QED
  BY <1>1, <1>2

\* The last piece: the agent processes the whole message, or has discarded it.
LEMMA LastHolds ==
  ASSUME NEW p \in PartType, NEW w \in Seq(Bytes), NEW s \in Seq(Bytes), Holds(p, w, s),
         Len(s) >= 2
  PROVE  LET g == ProcessedOf(Collect(p, w))
         IN  g \in Seq(Seq(Bytes)) /\ (g = <<s>> \/ (g = <<>> /\ Len(s) > PartMax))
<1>1. Holds(Collect(p, w), <<>>, s)
  BY CollectHolds
<1>2. CASE Collect(p, w).overflow
  <2>1. Collect(p, w).buf = <<>> /\ Len(s) > PartMax
    BY <1>1, <1>2 DEF Holds
  <2>2. QED
    BY <2>1 DEF ProcessedOf
<1>3. CASE ~Collect(p, w).overflow
  <2>1. s = Collect(p, w).buf \o <<>>
    BY <1>1, <1>3 DEF Holds
  <2>2. Collect(p, w).buf \in Seq(Bytes)
    <3>1. p.buf \in Seq(Bytes) /\ p.buf \o w \in Seq(Bytes)
      BY ConcatProperties DEF PartType
    <3>2. CASE p.overflow
      BY <1>3, <3>2 DEF Collect
    <3>3. CASE ~p.overflow
      BY <1>3, <3>1, <3>3 DEF Collect, PartType, ResetPartial
    <3>4. QED
      BY <3>2, <3>3
  <2>3. s = Collect(p, w).buf
    BY <2>1, <2>2, ConcatEmptySeq
  <2>4. QED
    BY <2>3 DEF ProcessedOf
<1>4. QED
  BY <1>2, <1>3

-----------------------------------------------------------------------------
(* The steps.                                                              *)

\* Before a frame, the buffers hold what was sent so far; with it, they hold that and
\* the frame.
LEMMA FrameFacts ==
  ASSUME ReassemblyInv, NEW data \in Payloads, NEW fin \in BOOLEAN, Sends(data, fin)
  PROVE  /\ data \in Seq(Bytes) /\ ws.buf \in Seq(Bytes) /\ part \in PartType
         /\ ws.size \in FragFirst .. FragMax
         /\ SoFar \in Seq(Bytes) /\ Holds(part, ws.buf, SoFar)
         /\ sent' = SoFar \o data /\ sent' \in Seq(Bytes)
         /\ Len(sent') >= Len(SoFar) + Len(data)
         /\ ws.buf \o data \in Seq(Bytes) /\ Len(ws.buf \o data) = Len(ws.buf) + Len(data)
         /\ Holds(part, ws.buf \o data, sent')
         /\ Len(SoFar) >= Len(ws.buf) \/ ws.unfit
         /\ ws.unfit => Len(SoFar) > FragMax
<1>1. data \in Seq(Bytes)
  BY PayloadsAssumption
<1>2. ws \in WsType /\ part \in PartType /\ sent \in Seq(Bytes)
  BY DEF ReassemblyInv, TypeOK, WsType, PartType
<1>3. ws.buf \in Seq(Bytes) /\ part.buf \in Seq(Bytes) /\ ws.size \in FragFirst .. FragMax
  BY <1>2 DEF WsType, PartType
<1>4. SoFar \in Seq(Bytes)
  BY <1>2 DEF SoFar
<1>5. sent' = SoFar \o data
  BY <1>1, ConcatEmptySeq DEF Sends, SoFar
<1>6. sent' \in Seq(Bytes) /\ Len(sent') = Len(SoFar) + Len(data)
  BY <1>1, <1>4, <1>5, ConcatProperties
<1>7. ws.buf \o data \in Seq(Bytes) /\ Len(ws.buf \o data) = Len(ws.buf) + Len(data)
  BY <1>1, <1>3, ConcatProperties
<1>8. Holds(part, ws.buf, SoFar)
  <2>1. CASE at = "inside"
    BY <2>1 DEF SoFar, ReassemblyInv
  <2>2. CASE at # "inside"
    <3>1. ws.buf = <<>> /\ part.buf = <<>> /\ ~part.overflow
      BY <2>2 DEF ReassemblyInv, NothingLeft, ResetPartial
    <3>2. SoFar = <<>>
      BY <2>2 DEF SoFar
    <3>3. QED
      BY <3>1, <3>2 DEF Holds
  <2>3. QED
    BY <2>1, <2>2
<1>9. Holds(part, ws.buf \o data, sent')
  BY <1>1, <1>2, <1>3, <1>4, <1>5, <1>8, ExtendHolds
<1>10. Len(SoFar) >= Len(ws.buf) \/ ws.unfit
  <2>1. SUFFICES ASSUME ~ws.unfit PROVE Len(SoFar) >= Len(ws.buf)
    OBVIOUS
  <2>2. part.buf = <<>> /\ ~part.overflow
    BY <2>1 DEF ReassemblyInv, ResetPartial
  <2>3. SoFar = <<>> \o ws.buf
    BY <1>8, <2>2 DEF Holds
  <2>4. QED
    BY <1>3, <2>3, ConcatEmptySeq
<1>11. ws.unfit => Len(SoFar) > FragMax
  BY DEF ReassemblyInv, NothingLeft, SoFar
<1>12. QED
  BY <1>1, <1>2, <1>3, <1>4, <1>5, <1>6, <1>7, <1>8, <1>9, <1>10, <1>11

\* The web client's buffer grows to what it needs, up to its limit.
LEMMA NewSizeBounds ==
  ASSUME ws.size \in FragFirst .. FragMax, NEW data \in Seq(Bytes), ws.buf \in Seq(Bytes)
  PROVE  /\ NewSize(data) \in FragFirst .. FragMax
         /\ Len(ws.buf) + Len(data) > NewSize(data) => NewSize(data) = FragMax
<1> DEFINE need == Len(ws.buf) + Len(data)
<1>1. /\ FragFirst \in Nat /\ FragMax \in Nat /\ FragFirst <= FragMax /\ FragFirst <= FragFirst
      /\ need \in Nat
  BY SizesAssumption
<1> HIDE DEF need
<1>2. ASSUME NEW size \in FragFirst .. FragMax
      PROVE  /\ Grown(size, FragFirst, FragMax, need) \in FragFirst .. FragMax
             /\ need <= FragMax => need <= Grown(size, FragFirst, FragMax, need)
             /\ need <= FragMax \/ Grown(size, FragFirst, FragMax, need) = FragMax
  <2>1. Grown(size, FragFirst, FragMax, need) \in FragFirst .. FragMax
    BY <1>1, <1>2, GrownBounds, Zenon
  <2>2. need <= FragMax => need <= Grown(size, FragFirst, FragMax, need)
    BY <1>1, <1>2, GrownBounds, Zenon
  <2>3. need <= FragMax \/ Grown(size, FragFirst, FragMax, need) = FragMax
    BY <1>1, <1>2, GrownBounds
  <2>4. QED
    BY <2>1, <2>2, <2>3
<1>3. NewSize(data) = Grown(ws.size, FragFirst, FragMax, need)
  BY DEF NewSize, need
<1>4. need > NewSize(data) => NewSize(data) = FragMax
  BY <1>1, <1>2, <1>3
<1>5. QED
  BY <1>2, <1>3, <1>4 DEF need

\* What the agent has after the web client handed up what it had buffered.
LEMMA FlushedFacts ==
  ASSUME part \in PartType, Len(part.buf) <= part.size, ws.buf \in Seq(Bytes),
         NEW s \in Seq(Bytes), Holds(part, ws.buf, s)
  PROVE  /\ Flushed \in PartType /\ Len(Flushed.buf) <= Flushed.size
         /\ Holds(Flushed, <<>>, s)
<1>1. CASE ws.buf = <<>>
  BY <1>1 DEF Flushed
<1>2. CASE ws.buf # <<>>
  <2>1. Flushed = Collect(part, ws.buf)
    BY <1>2 DEF Flushed
  <2>2. Collect(part, ws.buf) \in PartType
        /\ Len(Collect(part, ws.buf).buf) <= Collect(part, ws.buf).size
    BY CollectFits
  <2>3. QED
    BY <2>1, <2>2, CollectHolds
<1>3. QED
  BY <1>1, <1>2


\* A frame that ends a message: it is processed or was too large, and nothing is left.
LEMMA EndStep ==
  ASSUME ReassemblyInv, NEW size \in FragFirst .. FragMax,
         open' = TRUE, at' = "ended", sent' \in Seq(Bytes),
         ws' = [buf |-> <<>>, size |-> size, unfit |-> FALSE], part' = ResetPartial,
         got' \in Seq(Seq(Bytes)),
         got' = <<sent'>> \/ (got' = <<>> /\ Len(sent') > PartMax)
  PROVE  ReassemblyInv'
<1>1. ws' \in WsType /\ part' \in PartType
  BY SizesAssumption DEF WsType, PartType, ResetPartial
<1>2. TypeOK'
  BY <1>1, Zenon DEF TypeOK, WsType, PartType
<1>3. WholeOrTooLarge'
  BY DEF WholeOrTooLarge
<1>4. NothingLeft'
  BY DEF NothingLeft
<1>5. BuffersFit'
  BY SizesAssumption DEF BuffersFit, ResetPartial
<1>6. ~ws'.unfit
  OBVIOUS
<1>7. QED
  BY <1>2, <1>3, <1>4, <1>5, <1>6 DEF ReassemblyInv

\* A frame inside a message: the buffers hold all of it that was sent.
LEMMA InsideStep ==
  ASSUME ReassemblyInv, NEW w \in Seq(Bytes), NEW size \in FragFirst .. FragMax,
         NEW u \in BOOLEAN, Len(w) <= size,
         open' = TRUE, at' = "inside", sent' \in Seq(Bytes), got' = <<>>,
         ws' = [buf |-> w, size |-> size, unfit |-> u],
         part' \in PartType, Len(part'.buf) <= part'.size,
         ~u => part' = ResetPartial, u => Len(sent') > FragMax, Holds(part', w, sent')
  PROVE  ReassemblyInv'
<1>1. ws' \in WsType
  BY DEF WsType
<1>2. TypeOK'
  <2>1. got' \in Seq(Seq(Bytes))
    OBVIOUS
  <2>2. QED
    BY <1>1, <2>1, Zenon DEF TypeOK, WsType, PartType
<1>3. WholeOrTooLarge' /\ NothingLeft'
  BY DEF WholeOrTooLarge, NothingLeft
<1>4. BuffersFit'
  BY DEF BuffersFit
<1>5. Holds(part', ws'.buf, sent')
  OBVIOUS
<1>6. (~ws'.unfit => part' = ResetPartial) /\ (ws'.unfit => Len(sent') > FragMax)
  OBVIOUS
<1>7. Holds(part, ws.buf, sent)'
  BY <1>5 DEF Holds
<1>8. QED
  BY <1>2, <1>3, <1>4, <1>6, <1>7 DEF ReassemblyInv


-----------------------------------------------------------------------------
\* A frame that is a whole message.
LEMMA WholeStep ==
  ASSUME ReassemblyInv, NEW data \in Payloads, ReceiveWhole(data)
  PROVE  ReassemblyInv'
<1>1. Sends(data, TRUE) /\ at' = "ended"
  BY DEF ReceiveWhole, Sends
<1>2. sent' = SoFar \o data /\ sent' \in Seq(Bytes) /\ Holds(part, ws.buf \o data, sent')
      /\ data \in Seq(Bytes) /\ ws.size \in FragFirst .. FragMax
  BY <1>1, FrameFacts
<1>3. ws.buf = <<>> /\ ws.unfit = FALSE /\ ws' = ws
  BY DEF ReceiveWhole, ReassemblyInv, TypeOK
<1>4. ws' = [buf |-> <<>>, size |-> ws.size, unfit |-> FALSE]
  BY <1>3 DEF ReassemblyInv, TypeOK
<1>5. part = ResetPartial /\ part' = ResetPartial /\ got' = <<data>>
  BY <1>3 DEF ReassemblyInv, ReceiveWhole, OnMoreData
<1>6. sent' = data
  <2>1. sent' = <<>> \o (<<>> \o data)
    BY <1>2, <1>3, <1>5 DEF Holds, ResetPartial
  <2>2. QED
    BY <1>2, <2>1, ConcatEmptySeq
<1>7. got' \in Seq(Seq(Bytes)) /\ got' = <<sent'>>
  BY <1>2, <1>5, <1>6
<1>8. open' = TRUE
  BY <1>1 DEF Sends, ReassemblyInv, TypeOK
<1>9. QED
  BY <1>1, <1>2, <1>4, <1>5, <1>7, <1>8, EndStep

\* A frame for which the web client's buffer has room.
LEMMA FitsStep ==
  ASSUME ReassemblyInv, NEW data \in Payloads, NEW fin \in BOOLEAN, ReceiveFits(data, fin)
  PROVE  ReassemblyInv'
<1>1. Sends(data, fin) /\ Len(ws.buf) + Len(data) <= NewSize(data)
  BY DEF ReceiveFits
<1>2. /\ data \in Seq(Bytes) /\ ws.buf \in Seq(Bytes) /\ part \in PartType
      /\ ws.size \in FragFirst .. FragMax
      /\ sent' \in Seq(Bytes) /\ Holds(part, ws.buf \o data, sent')
      /\ ws.buf \o data \in Seq(Bytes) /\ Len(ws.buf \o data) = Len(ws.buf) + Len(data)
      /\ SoFar \in Seq(Bytes) /\ Len(sent') >= Len(SoFar) + Len(data)
      /\ ws.unfit => Len(SoFar) > FragMax
  BY <1>1, FrameFacts
<1>3. NewSize(data) \in FragFirst .. FragMax
  BY <1>2, NewSizeBounds
<1>4. open' = TRUE /\ ws.unfit \in BOOLEAN
  BY <1>1, Zenon DEF Sends, ReassemblyInv, TypeOK
<1>5. ws.unfit => Len(sent') > FragMax
  BY <1>2, SizesAssumption
<1>6. ws \in WsType
  BY DEF ReassemblyInv, TypeOK, WsType
<1>7. CASE ~fin
  <2>1. at' = "inside"
    BY <1>1, <1>7 DEF Sends
  <2>2. ws' = [buf |-> ws.buf \o data, size |-> NewSize(data), unfit |-> ws.unfit]
    BY <1>6, <1>7 DEF ReceiveFits, WsType
  <2>3. part' = part /\ got' = <<>>
    BY <1>7 DEF ReceiveFits
  <2>4. /\ part' \in PartType /\ Len(part'.buf) <= part'.size
        /\ ~ws.unfit => part' = ResetPartial
    BY <1>2, <2>3 DEF ReassemblyInv, BuffersFit
  <2>5. QED
    BY <1>1, <1>2, <1>3, <1>4, <1>5, <2>1, <2>2, <2>3, <2>4, InsideStep
<1>8. CASE fin
  <2>1. at' = "ended"
    BY <1>1, <1>8 DEF Sends
  <2>2. ws' = [buf |-> <<>>, size |-> NewSize(data), unfit |-> FALSE]
    BY <1>6, <1>8 DEF ReceiveFits, WsType
  <2>3. CASE ~ws.unfit
    <3>1. part = ResetPartial
      BY <2>3 DEF ReassemblyInv
    <3>2. part' = ResetPartial /\ got' = <<ws.buf \o data>>
      BY <1>8, <2>3, <3>1 DEF ReceiveFits, OnMoreData
    <3>3. sent' = <<>> \o (ws.buf \o data)
      BY <1>2, <3>1 DEF Holds, ResetPartial
    <3>4. sent' = ws.buf \o data
      BY <1>2, <3>3, ConcatEmptySeq
    <3>5. got' = <<sent'>> /\ got' \in Seq(Seq(Bytes))
      BY <1>2, <3>2, <3>4
    <3>6. QED
      BY <1>2, <1>3, <1>4, <2>1, <2>2, <3>2, <3>5, EndStep
  <2>4. CASE ws.unfit
    <3>1. part' = ResetPartial /\ got' = ProcessedOf(Collect(part, ws.buf \o data))
      BY <1>8, <2>4 DEF ReceiveFits, OnLastPartial
    <3>2. Len(sent') >= 2
      BY <1>2, <1>5, <2>4, SizesAssumption
    <3>3. got' \in Seq(Seq(Bytes)) /\ (got' = <<sent'>> \/ (got' = <<>> /\ Len(sent') > PartMax))
      BY <1>2, <3>1, <3>2, LastHolds
    <3>4. QED
      BY <1>2, <1>3, <1>4, <2>1, <2>2, <3>1, <3>3, EndStep
  <2>5. QED
    BY <2>3, <2>4
<1>9. QED
  BY <1>7, <1>8


\* A frame for which there is no room until the buffered ones are handed up.
LEMMA FlushStep ==
  ASSUME ReassemblyInv, NEW data \in Payloads, NEW fin \in BOOLEAN, ReceiveFlush(data, fin)
  PROVE  ReassemblyInv'
<1>1. Sends(data, fin) /\ Kept(fin) /\ Len(ws.buf) + Len(data) > NewSize(data)
  BY DEF ReceiveFlush
<1>2. /\ data \in Seq(Bytes) /\ ws.buf \in Seq(Bytes) /\ part \in PartType
      /\ ws.size \in FragFirst .. FragMax
      /\ SoFar \in Seq(Bytes) /\ Holds(part, ws.buf, SoFar)
      /\ sent' = SoFar \o data /\ sent' \in Seq(Bytes) /\ Len(sent') >= Len(SoFar) + Len(data)
      /\ Len(SoFar) >= Len(ws.buf) \/ ws.unfit
      /\ ws.unfit => Len(SoFar) > FragMax
  BY <1>1, FrameFacts
<1>3. NewSize(data) \in FragFirst .. FragMax /\ NewSize(data) = FragMax
  BY <1>1, <1>2, NewSizeBounds
<1>4. open' = TRUE /\ Len(part.buf) <= part.size
  BY <1>1 DEF Sends, ReassemblyInv, TypeOK, BuffersFit
<1>5. Len(sent') > FragMax
  BY <1>1, <1>2, <1>3, SizesAssumption
<1>6. Flushed \in PartType /\ Len(Flushed.buf) <= Flushed.size /\ Holds(Flushed, <<>>, SoFar)
  BY <1>2, <1>4, FlushedFacts
<1>7. Holds(Flushed, data, sent')
  <2>0. <<>> \in Seq(Bytes)
    BY EmptyIsSeq
  <2>1. Holds(Flushed, <<>> \o data, SoFar \o data)
    BY <1>2, <1>6, <2>0, ExtendHolds, Zenon
  <2>2. <<>> \o data = data
    BY <1>2, ConcatEmptySeq
  <2>3. QED
    BY <1>2, <2>1, <2>2
<1>8. CASE fin
  <2>1. at' = "ended" /\ ws' = [buf |-> <<>>, size |-> NewSize(data), unfit |-> FALSE]
    BY <1>1, <1>8 DEF Sends, ReceiveFlush
  <2>2. part' = ResetPartial /\ got' = ProcessedOf(Collect(Flushed, data))
    BY <1>8 DEF ReceiveFlush, OnLastPartial
  <2>3. Len(sent') >= 2
    BY <1>2, <1>5, SizesAssumption
  <2>4. got' \in Seq(Seq(Bytes)) /\ (got' = <<sent'>> \/ (got' = <<>> /\ Len(sent') > PartMax))
    BY <1>2, <1>6, <1>7, <2>2, <2>3, LastHolds
  <2>5. QED
    BY <1>2, <1>3, <1>4, <2>1, <2>2, <2>4, EndStep
<1>9. CASE ~fin
  <2>1. at' = "inside" /\ ws' = [buf |-> data, size |-> NewSize(data), unfit |-> TRUE]
    BY <1>1, <1>9 DEF Sends, ReceiveFlush
  <2>2. part' = Flushed /\ got' = <<>> /\ Len(data) <= NewSize(data)
    BY <1>9 DEF ReceiveFlush
  <2>3. /\ part' \in PartType /\ Len(part'.buf) <= part'.size /\ Holds(part', data, sent')
    BY <1>6, <1>7, <2>2
  <2>4. QED
    BY <1>2, <1>3, <1>4, <1>5, <2>1, <2>2, <2>3, InsideStep
<1>10. QED
  BY <1>8, <1>9

\* A frame larger than the whole buffer.
LEMMA DirectStep ==
  ASSUME ReassemblyInv, NEW data \in Payloads, NEW fin \in BOOLEAN, ReceiveDirect(data, fin)
  PROVE  ReassemblyInv'
<1>0. data \in Seq(Bytes) /\ ws.buf \in Seq(Bytes) /\ ws.size \in FragFirst .. FragMax
  BY FrameFacts DEF ReceiveDirect
<1>a. NewSize(data) \in Nat
  BY <1>0, NewSizeBounds, SizesAssumption
<1>1. Sends(data, fin) /\ Kept(fin) /\ Len(ws.buf) + Len(data) > NewSize(data)
  BY <1>0, <1>a DEF ReceiveDirect
<1>2. /\ data \in Seq(Bytes) /\ ws.buf \in Seq(Bytes) /\ part \in PartType
      /\ ws.size \in FragFirst .. FragMax
      /\ SoFar \in Seq(Bytes) /\ Holds(part, ws.buf, SoFar)
      /\ sent' = SoFar \o data /\ sent' \in Seq(Bytes) /\ Len(sent') >= Len(SoFar) + Len(data)
      /\ Len(SoFar) >= Len(ws.buf) \/ ws.unfit
      /\ ws.unfit => Len(SoFar) > FragMax
  BY <1>1, FrameFacts
<1>3. NewSize(data) \in FragFirst .. FragMax /\ NewSize(data) = FragMax
  BY <1>1, <1>2, NewSizeBounds
<1>4. open' = TRUE /\ Len(part.buf) <= part.size
  BY <1>1 DEF Sends, ReassemblyInv, TypeOK, BuffersFit
<1>5. Len(sent') > FragMax
  BY <1>1, <1>2, <1>3, SizesAssumption
<1>6. Flushed \in PartType /\ Len(Flushed.buf) <= Flushed.size /\ Holds(Flushed, <<>>, SoFar)
  BY <1>2, <1>4, FlushedFacts
<1>7. Holds(Flushed, data, sent')
  <2>0. <<>> \in Seq(Bytes)
    BY EmptyIsSeq
  <2>1. Holds(Flushed, <<>> \o data, SoFar \o data)
    BY <1>2, <1>6, <2>0, ExtendHolds, Zenon
  <2>2. <<>> \o data = data
    BY <1>2, ConcatEmptySeq
  <2>3. QED
    BY <1>2, <2>1, <2>2
<1>8. CASE fin
  <2>1. at' = "ended" /\ ws' = [buf |-> <<>>, size |-> NewSize(data), unfit |-> FALSE]
    BY <1>1, <1>8 DEF Sends, ReceiveDirect
  <2>2. part' = ResetPartial /\ got' = ProcessedOf(Collect(Flushed, data))
    BY <1>8 DEF ReceiveDirect, OnLastPartial
  <2>3. Len(sent') >= 2
    BY <1>2, <1>5, SizesAssumption
  <2>4. got' \in Seq(Seq(Bytes)) /\ (got' = <<sent'>> \/ (got' = <<>> /\ Len(sent') > PartMax))
    BY <1>2, <1>6, <1>7, <2>2, <2>3, LastHolds
  <2>5. QED
    BY <1>2, <1>3, <1>4, <2>1, <2>2, <2>4, EndStep
<1>9. CASE ~fin
  <2>1. at' = "inside" /\ ws' = [buf |-> <<>>, size |-> NewSize(data), unfit |-> TRUE]
    BY <1>1, <1>9 DEF Sends, ReceiveDirect
  <2>2. part' = Collect(Flushed, data) /\ got' = <<>>
    BY <1>9 DEF ReceiveDirect, OnPartial
  <2>3. part' \in PartType /\ Len(part'.buf) <= part'.size
    BY <1>2, <1>6, <2>2, CollectFits
  <2>4. Holds(part', <<>>, sent')
    BY <1>2, <1>6, <1>7, <2>2, CollectHolds
  <2>5. <<>> \in Seq(Bytes) /\ Len(<<>>) <= NewSize(data)
    BY <1>a
  <2>6. QED
    BY <1>2, <1>3, <1>4, <1>5, <2>1, <2>2, <2>3, <2>4, <2>5, InsideStep
<1>10. QED
  BY <1>8, <1>9

\* Nothing is buffered while there is no message: when the web socket is established,
\* and when it closes.
LEMMA IdleStep ==
  ASSUME ReassemblyInv, Established \/ Disconnected
  PROVE  ReassemblyInv'
<1>1. /\ ws' = [buf |-> <<>>, size |-> FragFirst, unfit |-> FALSE] /\ part' = ResetPartial
      /\ open' \in BOOLEAN
  BY DEF Established, Disconnected, FreshState
<1>2. ws' \in WsType /\ part' \in PartType
  BY <1>1, SizesAssumption DEF WsType, PartType, ResetPartial
<1>3. TypeOK'
  <2>1. at' \in {"none", "inside", "ended"} /\ sent' \in Seq(Bytes) /\ got' \in Seq(Seq(Bytes))
    BY EmptyIsSeq, Zenon DEF Established, Disconnected, ReassemblyInv, TypeOK
  <2>2. QED
    BY <1>1, <1>2, <2>1, Zenon DEF TypeOK, WsType, PartType
<1>4. WholeOrTooLarge'
  BY DEF Established, Disconnected, ReassemblyInv, WholeOrTooLarge
<1>5. NothingLeft' /\ BuffersFit' /\ ~ws'.unfit
  BY <1>1, SizesAssumption DEF NothingLeft, BuffersFit, ResetPartial
<1>6. at' = "none"
  BY DEF Established, Disconnected, ReassemblyInv
<1>7. QED
  BY <1>1, <1>3, <1>4, <1>5, <1>6 DEF ReassemblyInv


-----------------------------------------------------------------------------
\* The inductive invariant of the two buffers, of which all the others are part.
THEOREM ReassemblyInvariant == Spec => []ReassemblyInv
<1>1. Init => ReassemblyInv
  <2> SUFFICES ASSUME Init PROVE ReassemblyInv
    OBVIOUS
  <2>1. ws \in WsType /\ part \in PartType
    BY SizesAssumption DEF Init, FreshState, ResetPartial, WsType, PartType
  <2>2. TypeOK
    <3>1. open \in BOOLEAN /\ at \in {"none", "inside", "ended"} /\ sent \in Seq(Bytes)
          /\ got \in Seq(Seq(Bytes))
      BY EmptyIsSeq, Zenon DEF Init
    <3>2. QED
      BY <2>1, <3>1, Zenon DEF TypeOK, WsType, PartType
  <2>3. QED
    BY <2>2, SizesAssumption DEF Init, FreshState, ResetPartial, ReassemblyInv, WholeOrTooLarge,
       NothingLeft, BuffersFit
<1>2. ReassemblyInv /\ [Next]_vars => ReassemblyInv'
  <2> SUFFICES ASSUME ReassemblyInv, [Next]_vars PROVE ReassemblyInv'
    OBVIOUS
  <2>1. CASE Established \/ Disconnected
    BY <2>1, IdleStep
  <2>2. ASSUME NEW data \in Payloads, ReceiveWhole(data) PROVE ReassemblyInv'
    BY <2>2, WholeStep
  <2>3. ASSUME NEW data \in Payloads, NEW fin \in BOOLEAN, ReceiveFits(data, fin)
        PROVE  ReassemblyInv'
    BY <2>3, FitsStep
  <2>4. ASSUME NEW data \in Payloads, NEW fin \in BOOLEAN, ReceiveFlush(data, fin)
        PROVE  ReassemblyInv'
    BY <2>4, FlushStep
  <2>5. ASSUME NEW data \in Payloads, NEW fin \in BOOLEAN, ReceiveDirect(data, fin)
        PROVE  ReassemblyInv'
    BY <2>5, DirectStep
  <2>6. CASE UNCHANGED vars
    BY <2>6 DEF vars, ReassemblyInv, TypeOK, WholeOrTooLarge, NothingLeft, BuffersFit, Holds
  <2>7. QED
    BY <2>1, <2>2, <2>3, <2>4, <2>5, <2>6 DEF Next
<1>3. QED
  BY <1>1, <1>2, PTL DEF Spec

\* Every message is processed exactly once and byte for byte as it was sent, or is larger
\* than the limit (MeshServer_OnResponse, ILibWebClient_ProcessWebSocketData).
THEOREM MessagesIntact == Spec => []WholeOrTooLarge
<1>1. ReassemblyInv => WholeOrTooLarge
  BY DEF ReassemblyInv
<1>2. QED
  BY <1>1, ReassemblyInvariant, PTL

\* No write goes beyond the memory allocated for a buffer, and nothing of a message meets
\* the next one.
THEOREM BuffersCorrect == Spec => [](TypeOK /\ BuffersFit /\ NothingLeft)
<1>1. ReassemblyInv => TypeOK /\ BuffersFit /\ NothingLeft
  BY DEF ReassemblyInv
<1>2. QED
  BY <1>1, ReassemblyInvariant, PTL

=============================================================================

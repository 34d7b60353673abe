----------------------- MODULE SimpleDataStore_proofs -----------------------
(***************************************************************************)
(* Theorems about SimpleDataStore, for every set of keys and values, every *)
(* set of puts and files of any length.                                    *)
(***************************************************************************)
EXTENDS SimpleDataStore, FiniteSetTheorems, TLAPS

USE DEF Slots, Plain, Comp, Compressed

(***************************************************************************)
(* Type correctness, under every fault.                                    *)
(***************************************************************************)

\* Replaying any file builds a well-formed table.
LEMMA ReplayType ==
  ASSUME NEW f \in Seq(Record)
  PROVE  Replay(f) \in [Slots -> Entry]
<1> SUFFICES ASSUME NEW s \in Slots
             PROVE  Replay(f)[s] \in Entry
  BY DEF Replay
<1>1. CASE \E i \in 1 .. Len(f) : Live(f, s, i)
  <2> DEFINE i == CHOOSE i \in 1 .. Len(f) : Live(f, s, i)
  <2>1. i \in 1 .. Len(f) /\ Live(f, s, i)
    BY <1>1
  <2>2. f[i] \in Record /\ f[i].val # None
    BY <2>1 DEF Live
  <2>3. Replay(f)[s] = [off |-> i, hash |-> f[i].val]
    BY <1>1 DEF Replay
  <2> HIDE DEF i
  <2>4. f[i].val \in Values /\ i \in Nat \ {0}
    BY <2>1, <2>2 DEF Record
  <2> QED
    BY <2>3, <2>4 DEF Entry
<1>2. CASE ~ \E i \in 1 .. Len(f) : Live(f, s, i)
  BY <1>2 DEF Replay, Entry
<1> QED
  BY <1>1, <1>2

\* What a rebuild leaves in the file is a sequence of records.
LEMMA RebuiltType ==
  ASSUME NEW f \in Seq(Record), NEW g \in Rebuilt(f)
  PROVE  g \in Seq(Record)
<1>1. CASE Replay(f) = EmptyTable
  BY <1>1 DEF Rebuilt
<1>2. CASE Replay(f) # EmptyTable /\ \A i \in 1 .. Len(f) : Readable(f, i)
  BY <1>2 DEF Rebuilt, Repaired
<1>3. CASE Replay(f) # EmptyTable /\ ~ \A i \in 1 .. Len(f) : Readable(f, i)
  <2>1. PICK n \in 0 .. (Len(f) - 1) : g \in Cut(f, n)
    BY <1>3 DEF Rebuilt, Repaired
  <2>2. CASE n > 0
    <3>1. f[n] \in Record
      BY <2>2
    <3>2. Torn(f[n], "bad") \in Record
      BY <3>1 DEF Torn, Record
    <3> QED
      BY <2>1, <2>2, <3>2 DEF Cut
  <2>3. CASE n = 0
    BY <2>1, <2>3 DEF Cut
  <2> QED
    BY <2>2, <2>3
<1> QED
  BY <1>1, <1>2, <1>3

\* Every outcome of a write is a sequence of records.
LEMMA WritesType ==
  ASSUME NEW f \in Seq(Record), NEW r \in Record, NEW w \in Writes(f, r)
  PROVE  w.to \in Seq(Record)
<1>1. Torn(r, "head") \in Record /\ Torn(r, "value") \in Record
  BY DEF Torn, Record
<1>2. \/ w = [to |-> Append(f, r), ok |-> TRUE]
      \/ w = [to |-> f, ok |-> FALSE]
      \/ w = [to |-> f, ok |-> TRUE]
      \/ w = [to |-> Append(f, Torn(r, "head")), ok |-> TRUE]
      \/ w = [to |-> Append(f, Torn(r, "value")), ok |-> TRUE]
  BY DEF Writes
<1>3. Append(f, r) \in Seq(Record)
  OBVIOUS
<1>4. Append(f, Torn(r, "head")) \in Seq(Record) /\ Append(f, Torn(r, "value")) \in Seq(Record)
  BY <1>1
<1> QED
  BY <1>2, <1>3, <1>4

\* dirtySize stays within its cap.
LEMMA CapType == \A n \in Nat : Cap(n) \in 0 .. MinimumDirtySize
  BY BoundsAssumption DEF Cap

LEMMA SupersededSize ==
  ASSUME NEW f \in Seq(Record)
  PROVE  Cardinality(Superseded(f)) \in Nat
<1>1. IsFiniteSet(1 .. Len(f))
  BY FS_Interval
<1>2. IsFiniteSet(Superseded(f))
  BY <1>1, FS_Subset DEF Superseded
<1> QED
  BY <1>2, FS_CardinalityType

LEMMA RecType == \A s \in Slots, v \in Values \cup {None} : Rec(s, v) \in Record
  BY DEF Rec, Record

\* The call in progress names a slot and a value.
LEMMA OpType ==
  ASSUME op \in Ops, op.kind \in {"put", "delete"}
  PROVE  /\ op.slot \in Slots /\ op.slot[1] \in Keys
         /\ IF op.kind = "put" THEN op.val \in Values ELSE op.val = None
  BY DEF Ops, NoOp

\* What the table finds is a value, or nothing.
LEMMA FindType ==
  ASSUME NEW t \in [Slots -> Entry], NEW f, NEW k \in Keys
  PROVE  Find(t, f, k) \in Values \cup {None}
<1>1. t[Plain(k)].hash \in Values \cup {None} /\ t[Comp(k)].hash \in Values \cup {None}
  <2>1. t[Plain(k)] \in Entry /\ t[Comp(k)] \in Entry
    OBVIOUS
  <2>2. \A e \in Entry : e.hash \in Values \cup {None}
    BY DEF Entry, NoEntry
  <2> QED
    BY <2>1, <2>2
<1> QED
  BY <1>1 DEF Find, ReadAt

\* Every action keeps the state well typed, whatever goes wrong.
LEMMA TypeStep == TypeOK /\ [Next]_vars => TypeOK'
<1> SUFFICES ASSUME TypeOK, [Next]_vars PROVE TypeOK'
  OBVIOUS
<1> USE DEF TypeOK
<1>a. \A r \in Record : \A w \in FileWrites(r) : w.to \in Seq(Record)
  <2> TAKE r \in Record
  <2> TAKE w \in FileWrites(r)
  <2>1. CASE mode = "ro"
    <3>1. w = [to |-> file, ok |-> FALSE]
      BY <2>1 DEF FileWrites
    <3> QED
      BY <3>1
  <2>2. CASE mode # "ro"
    BY <2>2, WritesType DEF FileWrites
  <2> QED
    BY <2>1, <2>2
<1>b. NoOp \in Ops
  BY DEF Ops
<1>c. EmptyTable \in [Slots -> Entry] /\ EmptyCache \in [Slots -> Values \cup {None}]
  BY DEF EmptyTable, EmptyCache, Entry
<1>1. CASE Create
  <2>1. file' \in Seq(Record)
    BY <1>1, RebuiltType DEF Create
  <2>2. table' \in [Slots -> Entry]
    BY <1>1, ReplayType DEF Create
  <2>3. dirty' \in 0 .. MinimumDirtySize
    BY <1>1, SupersededSize, CapType DEF Create
  <2>4. \A k \in Keys : Find(table', file', k) \in Values \cup {None}
    BY <2>2, FindType
  <2>5. expect' \in [Keys -> SUBSET (Values \cup {None})]
    BY <1>1, <2>4 DEF Create
  <2> QED
    BY <1>1, <2>1, <2>2, <2>3, <2>5 DEF Create
<1>2. CASE Close
  <2>1. tmpHeld' \in BOOLEAN /\ reported' \in BOOLEAN
    BY <1>2 DEF Close
  <2>2. dirty' \in 0 .. MinimumDirtySize
    BY <1>2, BoundsAssumption DEF Close
  <2> QED
    BY <1>2, <1>c, <2>1, <2>2 DEF Close
<1>3. ASSUME NEW k \in Keys, NEW v \in Values, NEW c \in BOOLEAN, PutEx2(k, v, c)
      PROVE  TypeOK'
  <2>1. Op("put", <<k, c>>, v, {}) \in Ops
    BY DEF Op, Ops
  <2>2. cache' \in [Slots -> Values \cup {None}] /\ op' \in Ops
    BY <1>3, <2>1 DEF PutEx2
  <2>3. expect' \in [Keys -> SUBSET (Values \cup {None})]
    BY <1>3 DEF PutEx2
  <2> QED
    BY <1>3, <2>2, <2>3 DEF PutEx2
<1>4. CASE PutDeletePlain
  <2>1. op.slot[1] \in Keys
    BY <1>4, OpType DEF PutDeletePlain
  <2>2. Rec(Plain(op.slot[1]), None) \in Record
    BY <2>1, RecType
  <2>3. file' \in Seq(Record)
    BY <1>4, <1>a, <2>2 DEF PutDeletePlain
  <2>4. table' \in [Slots -> Entry]
    BY <1>4 DEF PutDeletePlain, Entry
  <2> QED
    BY <1>4, <2>3, <2>4 DEF PutDeletePlain
<1>5. CASE PutUnchanged
  <2>1. op.slot[1] \in Keys /\ op.val \in Values \cup {None}
    BY <1>5, OpType DEF PutUnchanged
  <2> QED
    BY <1>5, <1>b, <2>1 DEF PutUnchanged
<1>6. CASE PutWrite
  <2>1. op.slot \in Slots /\ op.slot[1] \in Keys /\ op.val \in Values
    BY <1>6, OpType DEF PutWrite
  <2>2. file' \in Seq(Record)
    BY <1>6, <1>a, <2>1, RecType DEF PutWrite
  <2>3. [off |-> Len(file) + 1, hash |-> op.val] \in Entry
    BY <1>6, <2>1 DEF PutWrite, Entry
  <2>4. table' \in [Slots -> Entry]
    BY <1>6, <2>1, <2>3 DEF PutWrite
  <2>5. dirty' \in 0 .. MinimumDirtySize
    BY <1>6, CapType, BoundsAssumption DEF PutWrite
  <2> QED
    BY <1>6, <1>b, <2>1, <2>2, <2>4, <2>5 DEF PutWrite
<1>7. CASE PutWriteError
  <2>1. op.slot \in Slots /\ op.slot[1] \in Keys /\ op.val \in Values \cup {None}
    BY <1>7, OpType DEF PutWriteError
  <2>2. table' \in [Slots -> Entry]
    BY <1>7, ReplayType DEF PutWriteError
  <2>3. dirty' \in 0 .. MinimumDirtySize
    <3> DEFINE m == IF table[op.slot] = NoEntry THEN 0 ELSE 1
    <3>1. dirty + m + Cardinality(Superseded(file)) \in Nat
      BY SupersededSize, BoundsAssumption
    <3>2. dirty' = Cap(dirty + m + Cardinality(Superseded(file)))
      BY <1>7 DEF PutWriteError
    <3> QED
      BY <3>1, <3>2, CapType
  <2>4. file' \in {file, <<>>} /\ mode' \in {"rw", "ro"}
    BY <1>7 DEF PutWriteError
  <2>5. reported' \in BOOLEAN /\ tmpHeld' \in BOOLEAN
    BY <1>7 DEF PutWriteError
  <2>6. expect' \in [Keys -> SUBSET (Values \cup {None})]
    BY <1>7, <2>1 DEF PutWriteError
  <2>7. cache' \in [Slots -> Values \cup {None}] /\ UNCHANGED <<tmp, ret>> /\ op' = NoOp
    BY <1>7, <2>1 DEF PutWriteError
  <2>8. file' \in Seq(Record)
    <3>1. <<>> \in Seq(Record)
      OBVIOUS
    <3> QED
      BY <2>4, <3>1
  <2> QED
    BY <1>b, <2>2, <2>3, <2>4, <2>5, <2>6, <2>7, <2>8
<1>8. ASSUME NEW k \in Keys, DeleteEx(k)
      PROVE  TypeOK'
  <2> DEFINE s == IF table[Plain(k)] # NoEntry THEN Plain(k) ELSE Comp(k)
  <2>1. s \in Slots /\ Op("delete", s, None, {}) \in Ops
    BY DEF Op, Ops
  <2>2. table' \in [Slots -> Entry] /\ op' \in Ops
    BY <1>8, <2>1 DEF DeleteEx, Entry
  <2>3. expect' \in [Keys -> SUBSET (Values \cup {None})]
    BY <1>8 DEF DeleteEx
  <2> QED
    BY <1>8, <2>2, <2>3 DEF DeleteEx
<1>9. CASE DeleteWrite
  <2>1. op.slot \in Slots /\ op.slot[1] \in Keys
    BY <1>9, OpType DEF DeleteWrite
  <2>2. file' \in Seq(Record) /\ reported' \in BOOLEAN
    BY <1>9, <1>a, <2>1, RecType DEF DeleteWrite
  <2> QED
    BY <1>9, <1>b, <2>1, <2>2 DEF DeleteWrite
<1>10. CASE CompactRefused
  BY <1>10 DEF CompactRefused
<1>11. CASE Compact
  <2>1. op' \in Ops
    BY <1>11 DEF Compact, Op, Ops
  <2> QED
    BY <1>11, <2>1 DEF Compact
<1>12. ASSUME NEW s \in Slots, CompactEntry(s)
       PROVE  TypeOK'
  <2> DEFINE copy == IF ReadAt(file, table[s], Compressed(s)) = None
                     THEN Torn(Rec(s, table[s].hash), "bad") ELSE Rec(s, table[s].hash)
  <2>1. table[s] \in Entry /\ table[s].hash \in Values \cup {None}
    BY DEF Entry, NoEntry
  <2>2. copy \in Record
    BY <2>1 DEF Torn, Rec, Record
  <2>3. PICK w \in Writes(tmp, copy) :
          IF w.ok
          THEN /\ tmp' = w.to
               /\ table' = [table EXCEPT ![s].off = Len(tmp) + 1]
               /\ op' = [op EXCEPT !.todo = @ \ {s}]
               /\ UNCHANGED <<ret, tmpHeld>>
          ELSE /\ op' = NoOp /\ ret' = "ok" /\ tmpHeld' = TRUE /\ tmp' = <<>>
               /\ UNCHANGED table
    BY <1>12 DEF CompactEntry
  <2>4. w.to \in Seq(Record)
    BY <2>2, WritesType
  <2>5. UNCHANGED <<file, mode, cache, dirty, expect, reported>> /\ op.kind = "compact"
    BY <1>12 DEF CompactEntry
  <2>6. CASE ~w.ok
    <3>1. tmpHeld' \in BOOLEAN
      BY <2>3, <2>6
    <3> QED
      BY <2>3, <2>5, <2>6, <3>1, <1>b
  <2>7. CASE w.ok
    <3> DEFINE C == [kind : {"compact", "spin"}, slot : {None}, val : {None}, todo : SUBSET Slots]
    <3>0. op \in C
      BY <2>5 DEF Ops, NoOp
    <3>1. op' \in Ops
      <4>1. op' \in C
        BY <2>3, <2>7, <3>0
      <4> QED
        BY <4>1 DEF Ops
    <3>2. table[s] # NoEntry
      BY <1>12, <2>1 DEF CompactEntry, BytesAt, NoEntry
    <3>3. [table[s] EXCEPT !.off = Len(tmp) + 1] \in Entry
      BY <2>1, <3>2 DEF Entry
    <3>4. table' \in [Slots -> Entry]
      BY <2>3, <2>7, <3>3
    <3> QED
      BY <2>3, <2>4, <2>5, <2>7, <3>1, <3>4
  <2> QED
    BY <2>6, <2>7
<1>13. ASSUME NEW s \in Slots, CompactSpin(s)
       PROVE  TypeOK'
  <2>1. op' \in Ops
    BY <1>13 DEF CompactSpin, Op, Ops
  <2> QED
    BY <1>13, <2>1 DEF CompactSpin
<1>14. CASE CompactSwap
  BY <1>14, <1>b DEF CompactSwap
<1>15. ASSUME Died, expect' = Interrupted, file' \in Seq(Record), UNCHANGED reported
       PROVE  TypeOK'
  <2>1. expect' \in [Keys -> SUBSET (Values \cup {None})]
    BY <1>15, OpType DEF Interrupted
  <2>2. tmpHeld' \in BOOLEAN /\ reported' \in BOOLEAN
    BY <1>15 DEF Died
  <2>3. dirty' \in 0 .. MinimumDirtySize
    BY <1>15, BoundsAssumption DEF Died
  <2> QED
    BY <1>15, <1>b, <1>c, <2>1, <2>2, <2>3 DEF Died
<1>16. CASE Crash
  BY <1>15, <1>16 DEF Crash
<1>17. CASE CrashInWrite
  <2>1. NextRecord \in Record
    BY <1>17, OpType, RecType DEF CrashInWrite, NextRecord
  <2>2. \A part \in {"head", "value"} : Torn(NextRecord, part) \in Record
    BY <2>1 DEF Torn, Record
  <2>3. file' \in Seq(Record)
    BY <1>17, <2>2 DEF CrashInWrite
  <2> QED
    BY <1>15, <1>17, <2>3 DEF CrashInWrite
<1>18. CASE UNCHANGED vars
  BY <1>18 DEF vars
<1>19. ASSUME NEW p \in Puts, PutEx2(p[1], p[2], p[3])
       PROVE  TypeOK'
  <2>1. p[1] \in Keys /\ p[2] \in Values /\ p[3] \in BOOLEAN
    BY PutsAssumption
  <2> QED
    BY <1>3, <1>19, <2>1
<1> QED
  BY <1>1, <1>2, <1>19, <1>4, <1>5, <1>6, <1>7, <1>8, <1>9, <1>10, <1>11, <1>12,
     <1>13, <1>14, <1>16, <1>17, <1>18 DEF Next

\* The store is well typed in every reachable state, under every combination of
\* crashes, torn, short and lost writes and failed renames (all actions of the store).
THEOREM TypeCorrect == Spec => []TypeOK
<1>1. Init => TypeOK
  <2> SUFFICES ASSUME Init PROVE TypeOK
    OBVIOUS
  <2>1. tmpHeld \in BOOLEAN /\ reported \in BOOLEAN
    BY DEF Init
  <2>2. dirty \in 0 .. MinimumDirtySize
    BY BoundsAssumption DEF Init
  <2>3. table \in [Slots -> Entry] /\ cache \in [Slots -> Values \cup {None}]
    BY DEF Init, EmptyTable, EmptyCache, Entry
  <2>4. op \in Ops
    BY DEF Init, Ops
  <2> QED
    BY <2>1, <2>2, <2>3, <2>4 DEF Init, TypeOK
<1>2. TypeOK /\ [Next]_vars => TypeOK'
  BY TypeStep
<1> QED
  BY <1>1, <1>2, PTL DEF Spec

(***************************************************************************)
(* The replay of a file.                                                   *)
(***************************************************************************)

\* A slot has at most one live record, and its table entry points at it.
LEMMA ReplayLive ==
  ASSUME NEW f \in Seq(Record), NEW s \in Slots, NEW i \in 1 .. Len(f), Live(f, s, i)
  PROVE  Replay(f)[s] = [off |-> i, hash |-> f[i].val]
<1> DEFINE j == CHOOSE j \in 1 .. Len(f) : Live(f, s, j)
<1>1. j \in 1 .. Len(f) /\ Live(f, s, j)
  OBVIOUS
<1>2. Replay(f)[s] = [off |-> j, hash |-> f[j].val]
  BY DEF Replay
<1> HIDE DEF j
<1>3. ~ (i < j) /\ ~ (j < i)
  BY <1>1 DEF Live, Newest
<1>4. i = j
  BY <1>1, <1>3
<1> QED
  BY <1>2, <1>4

LEMMA ReplayNone ==
  ASSUME NEW f \in Seq(Record), NEW s \in Slots, \A i \in 1 .. Len(f) : ~Live(f, s, i)
  PROVE  Replay(f)[s] = NoEntry
  BY DEF Replay

LEMMA ReplayEmpty == Replay(<<>>) = EmptyTable
  BY DEF Replay, EmptyTable

\* In a file of whole records every record is read, so the live record of a slot is
\* its last one, unless that one deletes the slot.
LEMMA CleanLive ==
  ASSUME NEW f \in Seq(Record), Clean(f), NEW s \in Slots, NEW i \in 1 .. Len(f)
  PROVE  Live(f, s, i) <=> /\ f[i].slot = s /\ f[i].val # None
                           /\ \A j \in (i + 1) .. Len(f) : f[j].slot # s
<1>1. \A j \in 1 .. Len(f) : ~Stops(f[j]) /\ ~Swallows(f[j])
  BY DEF Clean, Stops, Swallows
<1>2. \A j \in 1 .. Len(f) : Readable(f, j)
  BY <1>1 DEF Readable
<1> QED
  BY <1>2 DEF Live, Newest

\* Appending a whole record to a file of whole records sets the entry of its slot and
\* no other: this is what PutEx2 and DeleteEx do to the table in memory.
LEMMA AppendReplay ==
  ASSUME NEW f \in Seq(Record), Clean(f), NEW s \in Slots, NEW v \in Values \cup {None}
  PROVE  /\ Clean(Append(f, Rec(s, v)))
         /\ Replay(Append(f, Rec(s, v))) =
              [Replay(f) EXCEPT ![s] = IF v = None THEN NoEntry
                                       ELSE [off |-> Len(f) + 1, hash |-> v]]
<1> DEFINE g == Append(f, Rec(s, v))
           n == Len(f) + 1
<1>1. Rec(s, v) \in Record
  BY RecType
<1>2. /\ g \in Seq(Record) /\ Len(g) = n /\ g[n] = Rec(s, v)
      /\ \A i \in 1 .. Len(f) : g[i] = f[i]
  BY <1>1
<1> HIDE DEF g
<1>3. Clean(g)
  BY <1>2 DEF Clean, Rec
<1>4. g[n].slot = s /\ g[n].val = v
  BY <1>2 DEF Rec
<1>5. Replay(g)[s] = IF v = None THEN NoEntry ELSE [off |-> n, hash |-> v]
  <2>1. CASE v = None
    <3>1. \A i \in 1 .. Len(g) : ~Live(g, s, i)
      <4> SUFFICES ASSUME NEW i \in 1 .. Len(g), Live(g, s, i) PROVE FALSE
        OBVIOUS
      <4>1. /\ g[i].slot = s /\ g[i].val # None
            /\ \A j \in (i + 1) .. Len(g) : g[j].slot # s
        BY <1>2, <1>3, CleanLive
      <4>2. i # n
        BY <2>1, <4>1, <1>4
      <4>3. n \in (i + 1) .. Len(g)
        BY <4>2, <1>2
      <4> QED
        BY <4>1, <4>3, <1>4
    <3> QED
      BY <1>2, <2>1, <3>1, ReplayNone
  <2>2. CASE v # None
    <3>1. n \in 1 .. Len(g) /\ \A j \in (n + 1) .. Len(g) : FALSE
      BY <1>2
    <3>2. Live(g, s, n)
      BY <1>2, <1>3, <1>4, <2>2, <3>1, CleanLive
    <3> QED
      BY <1>2, <1>4, <2>2, <3>1, <3>2, ReplayLive
  <2> QED
    BY <2>1, <2>2
<1>6. ASSUME NEW t \in Slots, t # s
      PROVE  Replay(g)[t] = Replay(f)[t]
  <2>1. \A i \in 1 .. Len(f) : Live(g, t, i) <=> Live(f, t, i)
    <3> TAKE i \in 1 .. Len(f)
    <3>1. i \in 1 .. Len(g)
      BY <1>2
    <3>2. Live(f, t, i) <=> /\ f[i].slot = t /\ f[i].val # None
                            /\ \A j \in (i + 1) .. Len(f) : f[j].slot # t
      BY CleanLive
    <3>3. Live(g, t, i) <=> /\ g[i].slot = t /\ g[i].val # None
                            /\ \A j \in (i + 1) .. Len(g) : g[j].slot # t
      <4>1. g \in Seq(Record) /\ Clean(g)
        BY <1>2, <1>3
      <4> QED
        BY <3>1, <4>1, CleanLive
    <3>4. (\A j \in (i + 1) .. Len(g) : g[j].slot # t)
            <=> (\A j \in (i + 1) .. Len(f) : f[j].slot # t)
      <4>1. \A j \in (i + 1) .. Len(f) : j \in 1 .. Len(f) /\ j \in (i + 1) .. Len(g)
        BY <1>2
      <4>2. \A j \in (i + 1) .. Len(g) : j = n \/ j \in (i + 1) .. Len(f)
        <5>1. Len(g) = Len(f) + 1 /\ Len(f) \in Nat
          BY <1>2
        <5> QED
          BY <5>1
      <4> QED
        BY <1>2, <1>4, <1>6, <4>1, <4>2
    <3> QED
      BY <1>2, <3>2, <3>3, <3>4
  <2>2. ~Live(g, t, n)
    BY <1>4, <1>6 DEF Live
  <2>3. CASE \E i \in 1 .. Len(f) : Live(f, t, i)
    <3>1. PICK i \in 1 .. Len(f) : Live(f, t, i)
      BY <2>3
    <3>2. i \in 1 .. Len(g) /\ Live(g, t, i) /\ g[i] = f[i]
      BY <1>2, <2>1, <3>1
    <3>3. Replay(f)[t] = [off |-> i, hash |-> f[i].val]
      BY <3>1, ReplayLive
    <3>4. Replay(g)[t] = [off |-> i, hash |-> g[i].val]
      BY <1>2, <3>2, ReplayLive
    <3> QED
      BY <3>2, <3>3, <3>4
  <2>4. CASE \A i \in 1 .. Len(f) : ~Live(f, t, i)
    <3>1. \A i \in 1 .. Len(g) : ~Live(g, t, i)
      BY <1>2, <2>1, <2>2, <2>4
    <3> QED
      BY <1>2, <2>4, <3>1, ReplayNone
  <2> QED
    BY <2>3, <2>4
<1>7. Replay(f) = [t \in Slots |-> Replay(f)[t]] /\ Replay(g) = [t \in Slots |-> Replay(g)[t]]
  BY DEF Replay
<1> HIDE DEF n
<1>8. Replay(g) = [Replay(f) EXCEPT ![s] = IF v = None THEN NoEntry
                                           ELSE [off |-> n, hash |-> v]]
  BY <1>5, <1>6, <1>7
<1> QED
  BY <1>3, <1>8 DEF g, n

LEMMA AppendValue ==
  ASSUME NEW f \in Seq(Record), Clean(f), NEW s \in Slots, NEW v \in Values
  PROVE  /\ Clean(Append(f, Rec(s, v)))
         /\ Replay(Append(f, Rec(s, v))) =
              [Replay(f) EXCEPT ![s] = [off |-> Len(f) + 1, hash |-> v]]
<1>1. v \in Values \cup {None} /\ v # None
  BY ValuesAssumption
<1> QED
  BY <1>1, AppendReplay

\* A torn record at the end of a file of whole records is not replayed, and a rebuild
\* cuts off exactly that record.
LEMMA TornTailReplay ==
  ASSUME NEW f \in Seq(Record), TornTail(f), NEW g \in Repaired(f)
  PROVE  g \in Seq(Record) /\ Clean(g) /\ Replay(g) = Replay(f)
<1> DEFINE n == Len(f) - 1
<1>1. n \in Nat /\ n + 1 = Len(f)
  BY DEF TornTail
<1>2. \A i \in 1 .. n : ~Stops(f[i]) /\ ~Swallows(f[i])
  BY <1>1 DEF TornTail, Stops, Swallows
<1>3. \A i \in 1 .. n : Readable(f, i)
  BY <1>1, <1>2 DEF Readable
<1>4. ~Readable(f, n + 1)
  BY <1>1 DEF TornTail, Readable
<1>5. g = SubSeq(f, 1, n)
  <2>1. PICK m \in 0 .. (Len(f) - 1) : LastAccepted(f, m) /\ g \in Cut(f, m)
    BY <1>1, <1>4 DEF Repaired
  <2>2. m = n
    <3> SUFFICES ASSUME m # n PROVE FALSE
      OBVIOUS
    <3>1. m \in Nat /\ m <= n
      BY <2>1
    <3>2. m + 1 \in 1 .. n
      <4> HIDE DEF n
      <4> QED
        BY <1>1, <3>1
    <3> QED
      BY <1>3, <2>1, <3>2 DEF LastAccepted
  <2>3. ~ (n > 0 /\ Swallows(f[n]))
    BY <1>1, <1>2
  <2> QED
    BY <2>1, <2>2, <2>3 DEF Cut
<1>6. g \in Seq(Record) /\ Len(g) = n /\ \A i \in 1 .. n : g[i] = f[i]
  BY <1>1, <1>5
<1>7. Clean(g)
  BY <1>1, <1>6 DEF Clean, TornTail
<1> HIDE DEF n
<1>8. \A t \in Slots : \A i \in 1 .. n : Live(g, t, i) <=> Live(f, t, i)
  <2> TAKE t \in Slots
  <2> TAKE i \in 1 .. n
  <2>1. Live(g, t, i) <=> /\ g[i].slot = t /\ g[i].val # None
                          /\ \A j \in (i + 1) .. Len(g) : g[j].slot # t
    BY <1>6, <1>7, CleanLive
  <2>2. Live(f, t, i) <=> /\ f[i].slot = t /\ f[i].val # None
                          /\ \A j \in (i + 1) .. n : f[j].slot # t
    <3>1. \A j \in (i + 1) .. Len(f) : Readable(f, j) <=> j \in (i + 1) .. n
      BY <1>1, <1>3, <1>4
    <3>2. Readable(f, i)
      BY <1>3
    <3>3. \A j \in (i + 1) .. n : j \in (i + 1) .. Len(f)
      BY <1>1
    <3> QED
      BY <3>1, <3>2, <3>3 DEF Live, Newest
  <2>3. \A j \in (i + 1) .. n : g[j] = f[j]
    BY <1>1, <1>6
  <2> QED
    BY <1>6, <2>1, <2>2, <2>3
<1>9. \A t \in Slots : ~Live(f, t, n + 1)
  BY <1>4 DEF Live, Newest
<1>10. ASSUME NEW t \in Slots
       PROVE  Replay(g)[t] = Replay(f)[t]
  <2>1. CASE \E i \in 1 .. n : Live(f, t, i)
    <3>1. PICK i \in 1 .. n : Live(f, t, i)
      BY <2>1
    <3>2. i \in 1 .. Len(f) /\ i \in 1 .. Len(g) /\ Live(g, t, i) /\ g[i] = f[i]
      BY <1>1, <1>6, <1>8, <3>1
    <3>3. Replay(f)[t] = [off |-> i, hash |-> f[i].val]
      BY <3>1, <3>2, ReplayLive
    <3>4. Replay(g)[t] = [off |-> i, hash |-> g[i].val]
      BY <1>6, <3>2, ReplayLive
    <3> QED
      BY <3>2, <3>3, <3>4
  <2>2. CASE \A i \in 1 .. n : ~Live(f, t, i)
    <3>1. \A i \in 1 .. Len(f) : ~Live(f, t, i)
      BY <1>1, <1>9, <2>2
    <3>2. \A i \in 1 .. Len(g) : ~Live(g, t, i)
      BY <1>6, <1>8, <2>2
    <3> QED
      BY <1>6, <3>1, <3>2, ReplayNone
  <2> QED
    BY <2>1, <2>2
<1>11. Replay(f) = [t \in Slots |-> Replay(f)[t]] /\ Replay(g) = [t \in Slots |-> Replay(g)[t]]
  BY DEF Replay
<1>12. Replay(g) = Replay(f)
  BY <1>10, <1>11
<1> QED
  BY <1>6, <1>7, <1>12

\* A file of whole records is left alone by a rebuild that finds a key in it.
LEMMA CleanRepaired ==
  ASSUME NEW f \in Seq(Record), Clean(f)
  PROVE  Repaired(f) = {f}
<1>1. \A j \in 1 .. Len(f) : ~Stops(f[j]) /\ ~Swallows(f[j])
  BY DEF Clean, Stops, Swallows
<1>2. \A j \in 1 .. Len(f) : Readable(f, j)
  BY <1>1 DEF Readable
<1> QED
  BY <1>2 DEF Repaired

\* What a live entry points at in a file of whole records can be read back.
LEMMA EntryReads ==
  ASSUME NEW f \in Seq(Record), Clean(f), NEW s \in Slots, Replay(f)[s] # NoEntry
  PROVE  /\ BytesAt(f, Replay(f)[s])
         /\ Replay(f)[s].hash \in Values
         /\ ReadAt(f, Replay(f)[s], Compressed(s)) = Replay(f)[s].hash
<1>1. PICK i \in 1 .. Len(f) : Live(f, s, i)
  BY ReplayNone
<1>2. Replay(f)[s] = [off |-> i, hash |-> f[i].val]
  BY <1>1, ReplayLive
<1>3. f[i].slot = s /\ f[i].val # None /\ f[i].st = "whole" /\ f[i] \in Record
  BY <1>1 DEF Live, Clean
<1>4. f[i].val \in Values
  BY <1>3 DEF Record
<1> QED
  BY <1>2, <1>3, <1>4 DEF BytesAt, ReadAt

(***************************************************************************)
(* The table in memory is the replay of the file.                          *)
(***************************************************************************)

\* With no fault of the file system every write appends its record.
LEMMA SafeWrites ==
  ASSUME Faults \subseteq {"crash", "tear"}, NEW f, NEW r
  PROVE  Writes(f, r) = {[to |-> Append(f, r), ok |-> TRUE]}
  BY DEF Writes

LEMMA TableStep ==
  ASSUME Faults \subseteq {"crash", "tear"}
  PROVE  TypeOK /\ TableInv /\ [Next]_vars => TableInv'
<1> SUFFICES ASSUME TypeOK, TableInv, [Next]_vars PROVE TableInv'
  OBVIOUS
<1>a. file \in Seq(Record) /\ tmp \in Seq(Record) /\ op \in Ops /\ mode \in {"closed", "rw"}
  BY DEF TypeOK, TableInv
<1>b. \A f, r : Writes(f, r) = {[to |-> Append(f, r), ok |-> TRUE]}
  BY SafeWrites
<1>c. \A r : FileWrites(r) = {[to |-> Append(file, r), ok |-> TRUE]}
  BY <1>a, <1>b DEF FileWrites
<1>d. NoOp.kind = "idle"
  BY DEF NoOp
<1>1. CASE Create
  <2>1. mode = "closed" /\ op = NoOp /\ UNCHANGED op /\ mode' = "rw"
    BY <1>1 DEF Create, TableInv
  <2>2. Clean(file') /\ table' = Replay(file')
    <3>1. CASE Replay(file) = EmptyTable
      BY <1>1, <3>1, ReplayEmpty DEF Create, Rebuilt, Clean
    <3>2. CASE Replay(file) # EmptyTable /\ Clean(file)
      BY <1>1, <1>a, <3>2, CleanRepaired DEF Create, Rebuilt
    <3>3. CASE Replay(file) # EmptyTable /\ TornTail(file)
      BY <1>1, <1>a, <3>3, TornTailReplay DEF Create, Rebuilt
    <3> QED
      BY <2>1, <3>1, <3>2, <3>3 DEF TableInv
  <2> QED
    BY <1>d, <2>1, <2>2 DEF TableInv
<1>2. CASE Close
  BY <1>2, <1>d DEF Close, TableInv
<1>3. ASSUME NEW k, NEW v, NEW c, PutEx2(k, v, c)
      PROVE  TableInv'
  BY <1>3, <1>a, <1>d DEF PutEx2, TableInv, Op
<1>4. CASE PutDeletePlain
  <2>1. op.slot[1] \in Keys /\ op.kind = "put"
    BY <1>4, <1>a, OpType DEF PutDeletePlain
  <2>2. mode = "rw" /\ Clean(file) /\ table = Replay(file)
    BY <1>a, <1>d, <2>1 DEF TableInv
  <2>3. file' = Append(file, Rec(Plain(op.slot[1]), None))
    BY <1>4, <1>c DEF PutDeletePlain
  <2>4. Clean(file') /\ Replay(file') = [Replay(file) EXCEPT ![Plain(op.slot[1])] = NoEntry]
    BY <1>a, <2>1, <2>2, <2>3, AppendReplay
  <2> QED
    BY <1>4, <2>1, <2>2, <2>4 DEF PutDeletePlain, TableInv
<1>5. CASE PutUnchanged
  BY <1>5, <1>a, <1>d DEF PutUnchanged, TableInv
<1>6. CASE PutWrite
  <2>1. op.slot \in Slots /\ op.val \in Values /\ op.val # None /\ op.kind = "put"
    BY <1>6, <1>a, OpType, ValuesAssumption DEF PutWrite
  <2>2. mode = "rw" /\ Clean(file) /\ table = Replay(file)
    BY <1>a, <1>d, <2>1 DEF TableInv
  <2>3. file' = Append(file, Rec(op.slot, op.val))
    BY <1>6, <1>c DEF PutWrite
  <2>4. /\ Clean(file')
        /\ Replay(file') = [Replay(file) EXCEPT ![op.slot] = [off |-> Len(file) + 1, hash |-> op.val]]
    <3>1. /\ Clean(Append(file, Rec(op.slot, op.val)))
          /\ Replay(Append(file, Rec(op.slot, op.val))) =
               [Replay(file) EXCEPT ![op.slot] = [off |-> Len(file) + 1, hash |-> op.val]]
      BY <1>a, <2>1, <2>2, AppendValue
    <3> QED
      BY <2>3, <3>1
  <2> QED
    BY <1>6, <1>d, <2>2, <2>4 DEF PutWrite, TableInv
<1>7. CASE PutWriteError
  BY <1>7, <1>c DEF PutWriteError
<1>8. ASSUME NEW k \in Keys, DeleteEx(k)
      PROVE  TableInv'
  <2>1. mode = "rw" /\ op = NoOp /\ Clean(file) /\ table = Replay(file)
    BY <1>8, <1>a, <1>d DEF DeleteEx, TableInv
  <2> DEFINE s == IF table[Plain(k)] # NoEntry THEN Plain(k) ELSE Comp(k)
  <2>2. CASE table[s] = NoEntry
    BY <1>8, <1>d, <2>1, <2>2 DEF DeleteEx, TableInv
  <2>3. CASE table[s] # NoEntry
    <3>1. op' = Op("delete", s, None, {}) /\ table' = [table EXCEPT ![s] = NoEntry]
      BY <1>8, <2>3 DEF DeleteEx
    <3>2. op'.kind = "delete" /\ op'.slot = s
      BY <3>1 DEF Op
    <3> QED
      BY <1>8, <2>1, <3>1, <3>2 DEF DeleteEx, TableInv
  <2> QED
    BY <2>2, <2>3
<1>9. CASE DeleteWrite
  <2>1. op.slot \in Slots /\ op.kind = "delete"
    BY <1>9, <1>a, OpType DEF DeleteWrite
  <2>2. mode = "rw" /\ Clean(file) /\ table = [Replay(file) EXCEPT ![op.slot] = NoEntry]
    BY <1>a, <1>d, <2>1 DEF TableInv
  <2>3. file' = Append(file, Rec(op.slot, None))
    BY <1>9, <1>c DEF DeleteWrite
  <2>4. Clean(file') /\ Replay(file') = [Replay(file) EXCEPT ![op.slot] = NoEntry]
    BY <1>a, <2>1, <2>2, <2>3, AppendReplay
  <2> QED
    BY <1>9, <1>d, <2>2, <2>4 DEF DeleteWrite, TableInv
<1>10. CASE CompactRefused
  BY <1>10 DEF CompactRefused, TableInv
<1>11. CASE Compact
  <2>1. mode = "rw" /\ Clean(file) /\ table = Replay(file)
    BY <1>11, <1>a, <1>d DEF Compact, TableInv
  <2>2. op'.kind = "compact" /\ op'.todo = {s \in Slots : table[s] # NoEntry}
    BY <1>11 DEF Compact, Op
  <2>3. Clean(tmp') /\ Replay(tmp') = EmptyTable
    BY <1>11, ReplayEmpty DEF Compact, Clean
  <2>4. \A s \in Slots : EmptyTable[s] = NoEntry
    BY DEF EmptyTable
  <2> QED
    BY <1>11, <2>1, <2>2, <2>3, <2>4 DEF Compact, TableInv
<1>12. ASSUME NEW s \in Slots, CompactEntry(s)
       PROVE  TableInv'
  <2>1. op.kind = "compact" /\ s \in op.todo /\ mode = "rw" /\ UNCHANGED <<file, mode>>
    BY <1>12, <1>a, <1>d DEF CompactEntry, TableInv
  <2>2. Clean(file) /\ Clean(tmp) /\ table[s] = Replay(file)[s] /\ table[s] # NoEntry
    BY <2>1 DEF TableInv
  <2>3. table[s].hash \in Values /\ ReadAt(file, table[s], Compressed(s)) # None
    BY <1>a, <2>2, EntryReads, ValuesAssumption
  <2>4. /\ tmp' = Append(tmp, Rec(s, table[s].hash))
        /\ table' = [table EXCEPT ![s].off = Len(tmp) + 1]
        /\ op' = [op EXCEPT !.todo = @ \ {s}]
    BY <1>12, <1>b, <2>3 DEF CompactEntry
  <2>5. /\ Clean(tmp')
        /\ Replay(tmp') = [Replay(tmp) EXCEPT ![s] = [off |-> Len(tmp) + 1, hash |-> table[s].hash]]
    <3> DEFINE h == table[s].hash
    <3>1. h \in Values /\ tmp \in Seq(Record) /\ Clean(tmp)
      BY <1>a, <2>2, <2>3
    <3> HIDE DEF h
    <3>2. /\ Clean(Append(tmp, Rec(s, h)))
          /\ Replay(Append(tmp, Rec(s, h))) =
               [Replay(tmp) EXCEPT ![s] = [off |-> Len(tmp) + 1, hash |-> h]]
      BY <3>1, AppendValue
    <3> QED
      BY <2>4, <3>2 DEF h
  <2>6. op'.kind = "compact" /\ op'.todo = op.todo \ {s}
    BY <1>a, <2>1, <2>4 DEF Ops, NoOp
  <2>7. table[s] \in Entry /\ table \in [Slots -> Entry]
    BY DEF TypeOK
  <2>8. table'[s] = [off |-> Len(tmp) + 1, hash |-> table[s].hash]
    BY <2>2, <2>4, <2>7 DEF Entry
  <2>9. \A t \in Slots : IF t \in op'.todo THEN table'[t] = Replay(file')[t] /\ table'[t] # NoEntry
                                           ELSE table'[t] = Replay(tmp')[t]
    <3> TAKE t \in Slots
    <3>1. CASE t = s
      <4>1. Replay(tmp')[t] = [off |-> Len(tmp) + 1, hash |-> table[s].hash]
        BY <2>5, <3>1 DEF Replay
      <4> QED
        BY <2>6, <2>8, <3>1, <4>1
    <3>2. CASE t # s
      <4>1. table'[t] = table[t] /\ Replay(tmp')[t] = Replay(tmp)[t] /\ file' = file
        BY <2>1, <2>4, <2>5, <2>7, <3>2
      <4> QED
        BY <2>1, <2>6, <3>2, <4>1 DEF TableInv
    <3> QED
      BY <3>1, <3>2
  <2> QED
    BY <2>1, <2>2, <2>5, <2>6, <2>9 DEF TableInv
<1>13. ASSUME NEW s \in Slots, CompactSpin(s)
       PROVE  TableInv'
  <2>1. op.kind = "compact" /\ s \in op.todo /\ mode = "rw"
    BY <1>13, <1>a, <1>d DEF CompactSpin, TableInv
  <2>2. Clean(file) /\ table[s] = Replay(file)[s] /\ table[s] # NoEntry
    BY <2>1 DEF TableInv
  <2> QED
    BY <1>13, <1>a, <2>2, EntryReads DEF CompactSpin
<1>14. CASE CompactSwap
  <2>1. op.kind = "compact" /\ op.todo = {} /\ mode' = "rw" /\ file' = tmp /\ op' = NoOp
    BY <1>14 DEF CompactSwap
  <2>2. Clean(tmp) /\ \A s \in Slots : table[s] = Replay(tmp)[s]
    BY <2>1 DEF TableInv
  <2>3. table = Replay(tmp)
    BY <2>2 DEF TypeOK, Replay
  <2> QED
    BY <1>14, <1>d, <2>1, <2>2, <2>3 DEF CompactSwap, TableInv
<1>15. CASE Crash
  BY <1>15, <1>d DEF Crash, Died, TableInv
<1>16. CASE CrashInWrite
  <2>1. mode = "rw" /\ Clean(file) /\ op.kind \in {"put", "delete"}
    BY <1>16 DEF CrashInWrite, TableInv
  <2>2. PICK part \in {"head", "value"} :
          /\ IF part = "value" /\ Compressed(NextRecord.slot)
             THEN "tear_comp" \in Faults ELSE "tear" \in Faults
          /\ file' = Append(file, Torn(NextRecord, part))
    BY <1>16 DEF CrashInWrite
  <2>3. NextRecord \in Record
    BY <1>a, <2>1, OpType, RecType DEF NextRecord
  <2>4. Torn(NextRecord, part) \in Record /\ Stops(Torn(NextRecord, part))
    BY <2>2, <2>3 DEF Torn, Stops, Record
  <2>5. /\ Len(file') = Len(file) + 1 /\ file'[Len(file')] = Torn(NextRecord, part)
        /\ \A i \in 1 .. Len(file) : file'[i] = file[i]
    BY <1>a, <2>2, <2>4
  <2>6. TornTail(file')
    BY <1>a, <2>1, <2>4, <2>5 DEF TornTail, Clean
  <2> QED
    BY <1>16, <1>d, <2>6 DEF CrashInWrite, Died, TableInv
<1>17. CASE UNCHANGED vars
  BY <1>17 DEF vars, TableInv
<1> QED
  BY <1>1, <1>2, <1>3, <1>4, <1>5, <1>6, <1>7, <1>8, <1>9, <1>10, <1>11, <1>12,
     <1>13, <1>14, <1>15, <1>16, <1>17 DEF Next

\* In a store that only meets crashes and torn plain records, the table in memory is in
\* every state the one a restart would build from the file (RebuildKeyTable), and a
\* compaction never waits for bytes that are not there.  For every set of keys, values
\* and puts and a file of any length.
THEOREM TableCorrect ==
  ASSUME Faults \subseteq {"crash", "tear"}
  PROVE  Spec => [](TableIsReplay /\ CompactReturns)
<1>1. Init => TableInv
  BY DEF Init, TableInv, NoOp, Clean
<1>2. TypeOK /\ TableInv /\ [Next]_vars => TableInv'
  BY TableStep
<1>3. TypeOK /\ TableInv => TableIsReplay /\ CompactReturns
  BY DEF TypeOK, Ops, NoOp, TableInv, TableIsReplay, CompactReturns
<1> QED
  BY <1>1, <1>2, <1>3, TypeCorrect, PTL DEF Spec

(***************************************************************************)
(* Whose value a Get returns, under every fault.                           *)
(***************************************************************************)

\* Some caller puts v into slot s.
Own(s, v) == <<s[1], v, s[2]>> \in Puts

Lawful(f) == \A i \in 1 .. Len(f) : f[i].val # None => Own(f[i].slot, f[i].val)

\* Every value the store keeps, in the files, the table and the cache, was put into the
\* slot it is kept under, and what is being put or deleted is such a value.
OwnInv ==
  /\ Lawful(file) /\ Lawful(tmp)
  /\ \A s \in Slots : table[s] # NoEntry => Own(s, table[s].hash)
  /\ \A s \in Slots : cache[s] # None => Own(s, cache[s])
  /\ op.kind = "put" => Own(op.slot, op.val)
  /\ op.kind = "delete" => \E v \in Values : Own(op.slot, v)

\* Whatever a file has gone through, its replay enters only what its records say.
LEMMA ReplayLawful ==
  ASSUME NEW f \in Seq(Record), Lawful(f), NEW s \in Slots, Replay(f)[s] # NoEntry
  PROVE  Own(s, Replay(f)[s].hash)
<1>1. PICK i \in 1 .. Len(f) : Live(f, s, i)
  BY ReplayNone
<1>2. Replay(f)[s] = [off |-> i, hash |-> f[i].val]
  BY <1>1, ReplayLive
<1> QED
  BY <1>1, <1>2 DEF Live, Lawful

LEMMA AppendLawful ==
  ASSUME NEW f \in Seq(Record), Lawful(f), NEW r \in Record,
         r.val # None => Own(r.slot, r.val)
  PROVE  Lawful(Append(f, r))
<1>1. /\ Len(Append(f, r)) = Len(f) + 1 /\ Append(f, r)[Len(f) + 1] = r
      /\ \A i \in 1 .. Len(f) : Append(f, r)[i] = f[i]
  OBVIOUS
<1> QED
  BY <1>1 DEF Lawful

\* A torn record still names its slot and its value.
LEMMA TornLawful ==
  ASSUME NEW r \in Record, NEW part \in {"head", "value", "bad"}
  PROVE  Torn(r, part) \in Record /\ Torn(r, part).slot = r.slot /\ Torn(r, part).val = r.val
  BY DEF Torn, Record

LEMMA WritesLawful ==
  ASSUME NEW f \in Seq(Record), Lawful(f), NEW r \in Record,
         r.val # None => Own(r.slot, r.val), NEW w \in Writes(f, r)
  PROVE  Lawful(w.to)
<1>1. \/ w = [to |-> Append(f, r), ok |-> TRUE]
      \/ w = [to |-> f, ok |-> FALSE]
      \/ w = [to |-> f, ok |-> TRUE]
      \/ w = [to |-> Append(f, Torn(r, "head")), ok |-> TRUE]
      \/ w = [to |-> Append(f, Torn(r, "value")), ok |-> TRUE]
  BY DEF Writes
<1>2. Lawful(Append(f, r))
  BY AppendLawful
<1>3. Lawful(Append(f, Torn(r, "head"))) /\ Lawful(Append(f, Torn(r, "value")))
  BY TornLawful, AppendLawful
<1>4. w.to \in {f, Append(f, r), Append(f, Torn(r, "head")), Append(f, Torn(r, "value"))}
  BY <1>1
<1> QED
  BY <1>2, <1>3, <1>4

LEMMA RebuiltLawful ==
  ASSUME NEW f \in Seq(Record), Lawful(f), NEW g \in Rebuilt(f)
  PROVE  Lawful(g)
<1>1. CASE Replay(f) = EmptyTable
  BY <1>1 DEF Rebuilt, Lawful
<1>2. CASE Replay(f) # EmptyTable /\ \A i \in 1 .. Len(f) : Readable(f, i)
  BY <1>2 DEF Rebuilt, Repaired
<1>3. CASE Replay(f) # EmptyTable /\ ~ \A i \in 1 .. Len(f) : Readable(f, i)
  <2>1. PICK n \in 0 .. (Len(f) - 1) : g \in Cut(f, n)
    BY <1>3 DEF Rebuilt, Repaired
  <2>2. \A m \in 0 .. (Len(f) - 1) : SubSeq(f, 1, m) \in Seq(Record) /\ Lawful(SubSeq(f, 1, m))
    BY DEF Lawful
  <2>3. CASE n > 0
    <3>1. f[n] \in Record /\ n \in 1 .. Len(f) /\ n - 1 \in 0 .. (Len(f) - 1)
      BY <2>3
    <3>2. f[n].val # None => Own(f[n].slot, f[n].val)
      BY <3>1 DEF Lawful
    <3>3. Lawful(Append(SubSeq(f, 1, n - 1), Torn(f[n], "bad")))
      BY <2>2, <3>1, <3>2, TornLawful, AppendLawful
    <3> QED
      BY <2>1, <2>2, <3>3 DEF Cut
  <2>4. CASE n = 0
    <3>1. g = SubSeq(f, 1, n)
      BY <2>1, <2>4 DEF Cut
    <3> QED
      BY <2>2, <3>1
  <2> QED
    BY <2>3, <2>4
<1> QED
  BY <1>1, <1>2, <1>3

LEMMA OwnStep == TypeOK /\ OwnInv /\ [Next]_vars => OwnInv'
<1> SUFFICES ASSUME TypeOK, OwnInv, [Next]_vars PROVE OwnInv'
  OBVIOUS
<1>a. /\ file \in Seq(Record) /\ tmp \in Seq(Record) /\ op \in Ops
      /\ table \in [Slots -> Entry] /\ cache \in [Slots -> Values \cup {None}]
  BY DEF TypeOK
<1>b. NoOp.kind = "idle" /\ Lawful(<<>>)
  BY DEF NoOp, Lawful
<1>c. \A s \in Slots : EmptyTable[s] = NoEntry /\ EmptyCache[s] = None
  BY DEF EmptyTable, EmptyCache
<1>d. ASSUME NEW r \in Record, r.val # None => Own(r.slot, r.val), NEW w \in FileWrites(r)
      PROVE  Lawful(w.to)
  <2>1. CASE mode = "ro"
    <3>1. w = [to |-> file, ok |-> FALSE]
      BY <1>d, <2>1 DEF FileWrites
    <3> QED
      BY <3>1 DEF OwnInv
  <2>2. CASE mode # "ro"
    BY <1>a, <1>d, <2>2, WritesLawful DEF FileWrites, OwnInv
  <2> QED
    BY <2>1, <2>2
<1>e. \A s \in Slots, v \in Values \cup {None} : Rec(s, v) \in Record /\ Rec(s, v).slot = s /\ Rec(s, v).val = v
  BY DEF Rec, Record
<1>1. CASE Create
  <2>1. Lawful(file')
    BY <1>1, <1>a, RebuiltLawful DEF Create, OwnInv
  <2>2. \A s \in Slots : table'[s] # NoEntry => Own(s, table'[s].hash)
    BY <1>1, <1>a, ReplayLawful DEF Create, OwnInv
  <2> QED
    BY <1>1, <2>1, <2>2 DEF Create, OwnInv
<1>2. CASE Close
  BY <1>2, <1>c DEF Close, OwnInv
<1>3. ASSUME NEW p \in Puts, PutEx2(p[1], p[2], p[3])
      PROVE  OwnInv'
  <2>1. p[1] \in Keys /\ p[2] \in Values /\ p[3] \in BOOLEAN /\ p = <<p[1], p[2], p[3]>>
    BY PutsAssumption
  <2>2. Own(<<p[1], p[3]>>, p[2])
    BY <2>1 DEF Own
  <2>3. UNCHANGED <<file, tmp, table>>
    BY <1>3 DEF PutEx2
  <2>4. CASE mode = "null"
    <3>1. cache' = [cache EXCEPT ![<<p[1], p[3]>>] = p[2]] /\ op' = op
      BY <1>3, <2>4 DEF PutEx2
    <3>2. \A s \in Slots : cache'[s] # None => Own(s, cache'[s])
      BY <1>a, <2>1, <2>2, <3>1 DEF OwnInv
    <3> QED
      BY <2>3, <3>1, <3>2 DEF OwnInv
  <2>5. CASE mode # "null"
    <3>1. op' = Op("put", <<p[1], p[3]>>, p[2], {}) /\ cache' = cache
      BY <1>3, <2>5 DEF PutEx2
    <3>2. op'.kind = "put" /\ op'.slot = <<p[1], p[3]>> /\ op'.val = p[2]
      BY <3>1 DEF Op
    <3> QED
      BY <2>2, <2>3, <3>1, <3>2 DEF OwnInv
  <2> QED
    BY <2>4, <2>5
<1>4. CASE PutDeletePlain
  <2>1. op.slot[1] \in Keys
    BY <1>4, <1>a, OpType DEF PutDeletePlain
  <2>2. Lawful(file')
    <3> DEFINE r == Rec(Plain(op.slot[1]), None)
    <3>1. r \in Record /\ r.val = None
      BY <1>e, <2>1
    <3>2. PICK w \in FileWrites(r) : file' = w.to
      BY <1>4 DEF PutDeletePlain
    <3> HIDE DEF r
    <3> QED
      BY <1>d, <3>1, <3>2
  <2>3. \A s \in Slots : table'[s] # NoEntry => table'[s] = table[s]
    BY <1>4, <1>a DEF PutDeletePlain
  <2> QED
    BY <1>4, <2>2, <2>3 DEF PutDeletePlain, OwnInv
<1>5. CASE PutUnchanged
  BY <1>5, <1>b DEF PutUnchanged, OwnInv
<1>6. CASE PutWrite
  <2>1. op.slot \in Slots /\ op.val \in Values /\ Own(op.slot, op.val)
    BY <1>6, <1>a, OpType DEF PutWrite, OwnInv
  <2>2. Lawful(file')
    BY <1>6, <1>d, <1>e, <2>1 DEF PutWrite
  <2>3. \A s \in Slots : table'[s] # NoEntry => Own(s, table'[s].hash)
    BY <1>6, <1>a, <2>1 DEF PutWrite, OwnInv
  <2> QED
    BY <1>6, <1>b, <2>2, <2>3 DEF PutWrite, OwnInv
<1>7. CASE PutWriteError
  <2>1. op.slot \in Slots /\ op.val \in Values /\ Own(op.slot, op.val)
    BY <1>7, <1>a, OpType DEF PutWriteError, OwnInv
  <2>2. file' \in {file, <<>>}
    BY <1>7 DEF PutWriteError
  <2>3. \A s \in Slots : table'[s] # NoEntry => Own(s, table'[s].hash)
    BY <1>7, <1>a, ReplayLawful DEF PutWriteError, OwnInv
  <2>4. \A s \in Slots : cache'[s] # None => Own(s, cache'[s])
    BY <1>7, <1>a, <2>1 DEF PutWriteError, OwnInv
  <2>5. op' = NoOp /\ tmp' = tmp
    BY <1>7 DEF PutWriteError
  <2>6. Lawful(file')
    BY <1>b, <2>2 DEF OwnInv
  <2> QED
    BY <1>b, <2>3, <2>4, <2>5, <2>6 DEF OwnInv
<1>8. ASSUME NEW k \in Keys, DeleteEx(k)
      PROVE  OwnInv'
  <2> DEFINE s == IF table[Plain(k)] # NoEntry THEN Plain(k) ELSE Comp(k)
  <2>1. s \in Slots /\ UNCHANGED <<file, tmp, cache>>
    BY <1>8 DEF DeleteEx
  <2>2. CASE table[s] = NoEntry
    BY <1>8, <2>2 DEF DeleteEx, OwnInv
  <2>3. CASE table[s] # NoEntry
    <3>1. op' = Op("delete", s, None, {}) /\ table' = [table EXCEPT ![s] = NoEntry]
      BY <1>8, <2>3 DEF DeleteEx
    <3>2. op'.kind = "delete" /\ op'.slot = s
      BY <3>1 DEF Op
    <3>3. table[s].hash \in Values /\ Own(s, table[s].hash)
      BY <1>a, <2>1, <2>3 DEF Entry, OwnInv
    <3>4. \A t \in Slots : table'[t] # NoEntry => table'[t] = table[t]
      BY <1>a, <3>1
    <3> QED
      BY <2>1, <3>2, <3>3, <3>4 DEF OwnInv
  <2> QED
    BY <2>2, <2>3
<1>9. CASE DeleteWrite
  <2>1. op.slot \in Slots
    BY <1>9, <1>a, OpType DEF DeleteWrite
  <2>2. Lawful(file')
    BY <1>9, <1>d, <1>e, <2>1 DEF DeleteWrite
  <2> QED
    BY <1>9, <1>b, <2>2 DEF DeleteWrite, OwnInv
<1>10. CASE CompactRefused
  BY <1>10 DEF CompactRefused, OwnInv
<1>11. CASE Compact
  BY <1>11, <1>b DEF Compact, Op, OwnInv
<1>12. ASSUME NEW s \in Slots, CompactEntry(s)
       PROVE  OwnInv'
  <2> DEFINE copy == IF ReadAt(file, table[s], Compressed(s)) = None
                     THEN Torn(Rec(s, table[s].hash), "bad") ELSE Rec(s, table[s].hash)
  <2>1. table[s] # NoEntry /\ table[s] \in Entry
    BY <1>12, <1>a DEF CompactEntry, BytesAt, NoEntry
  <2>2. table[s].hash \in Values /\ Own(s, table[s].hash)
    BY <2>1 DEF Entry, OwnInv
  <2>3. copy \in Record /\ copy.slot = s /\ copy.val = table[s].hash
    BY <1>e, <2>2, TornLawful
  <2>4. UNCHANGED <<file, cache>> /\ op.kind = "compact"
    BY <1>12 DEF CompactEntry
  <2>5. PICK w \in Writes(tmp, copy) :
          IF w.ok
          THEN /\ tmp' = w.to
               /\ table' = [table EXCEPT ![s].off = Len(tmp) + 1]
               /\ op' = [op EXCEPT !.todo = @ \ {s}]
          ELSE op' = NoOp /\ tmp' = <<>> /\ table' = table
    BY <1>12 DEF CompactEntry
  <2> HIDE DEF copy
  <2>6. Lawful(tmp')
    <3>1. Lawful(w.to)
      BY <1>a, <2>2, <2>3, WritesLawful DEF OwnInv
    <3> QED
      BY <1>b, <2>5, <3>1
  <2>7. op'.kind \in {"compact", "idle"}
    <3>1. CASE w.ok
      BY <1>a, <2>4, <2>5, <3>1 DEF Ops, NoOp
    <3>2. CASE ~w.ok
      BY <1>b, <2>5, <3>2
    <3> QED
      BY <3>1, <3>2
  <2>8. \A t \in Slots : table'[t] # NoEntry => Own(t, table'[t].hash)
    <3>1. CASE w.ok
      <4>1. table'[s].hash = table[s].hash /\ \A t \in Slots \ {s} : table'[t] = table[t]
        BY <1>a, <2>1, <2>2, <2>5, <3>1 DEF Entry
      <4> QED
        BY <2>2, <4>1 DEF OwnInv
    <3>2. CASE ~w.ok
      BY <2>5, <3>2 DEF OwnInv
    <3> QED
      BY <3>1, <3>2
  <2> QED
    BY <2>4, <2>6, <2>7, <2>8 DEF OwnInv
<1>13. ASSUME NEW s \in Slots, CompactSpin(s)
       PROVE  OwnInv'
  BY <1>13 DEF CompactSpin, Op, OwnInv
<1>14. CASE CompactSwap
  <2>1. file' \in {file, tmp} /\ tmp' = <<>> /\ op' = NoOp /\ UNCHANGED <<table, cache>>
    BY <1>14 DEF CompactSwap
  <2>2. Lawful(file') /\ Lawful(tmp')
    BY <1>b, <2>1 DEF OwnInv
  <2> QED
    BY <1>b, <2>1, <2>2 DEF OwnInv
<1>15. CASE Crash
  BY <1>15, <1>b, <1>c DEF Crash, Died, OwnInv
<1>16. CASE CrashInWrite
  <2>1. PICK part \in {"head", "value"} : file' = Append(file, Torn(NextRecord, part))
    BY <1>16 DEF CrashInWrite
  <2>2. NextRecord \in Record /\ (NextRecord.val # None => Own(NextRecord.slot, NextRecord.val))
    <3>1. op.kind \in {"put", "delete"}
      BY <1>16 DEF CrashInWrite
    <3>2. CASE NextRecord = Rec(Plain(op.slot[1]), None)
      <4>1. Plain(op.slot[1]) \in Slots
        BY <1>a, <3>1, OpType
      <4> QED
        BY <1>e, <3>2, <4>1
    <3>3. CASE NextRecord = Rec(op.slot, op.val)
      BY <1>a, <1>e, <3>1, <3>3, OpType DEF OwnInv
    <3> QED
      BY <3>2, <3>3 DEF NextRecord
  <2>3. Lawful(file')
    BY <1>a, <2>1, <2>2, TornLawful, AppendLawful DEF OwnInv
  <2> QED
    BY <1>16, <1>b, <1>c, <2>3 DEF CrashInWrite, Died, OwnInv
<1>17. CASE UNCHANGED vars
  BY <1>17 DEF vars, OwnInv
<1> QED
  BY <1>1, <1>2, <1>3, <1>4, <1>5, <1>6, <1>7, <1>8, <1>9, <1>10, <1>11, <1>12,
     <1>13, <1>14, <1>15, <1>16, <1>17 DEF Next

\* Every value kept is one that was put into its slot, under every fault.
LEMMA OwnCorrect == Spec => []OwnInv
<1>1. Init => OwnInv
  <2> SUFFICES ASSUME Init PROVE OwnInv
    OBVIOUS
  <2>1. \A s \in Slots : table[s] = NoEntry /\ cache[s] = None
    BY DEF Init, EmptyTable, EmptyCache
  <2> QED
    BY <2>1 DEF Init, OwnInv, NoOp, Lawful
<1>2. TypeOK /\ OwnInv /\ [Next]_vars => OwnInv'
  BY OwnStep
<1> QED
  BY <1>1, <1>2, TypeCorrect, PTL DEF Spec

\* Whatever goes wrong (torn, short and lost writes, crashes, failed renames and
\* reopens, a file repaired by a rebuild), GetEx returns nothing or a value that a
\* caller put under the key it was asked for.
THEOREM ValuesAreOwn == Spec => []NoForeignValue
<1>1. TypeOK /\ OwnInv => NoForeignValue
  <2> SUFFICES ASSUME TypeOK, OwnInv, NEW k \in Keys, GetEx(k) # None
               PROVE  \E c \in BOOLEAN : <<k, GetEx(k), c>> \in Puts
    BY DEF NoForeignValue
  <2>1. GetEx(k) \in {cache[Plain(k)], cache[Comp(k)], Find(table, file, k)}
    BY DEF GetEx
  <2>2. \A s \in Slots : table[s] \in Entry
    BY DEF TypeOK
  <2>3. NoEntry.hash = None
    BY DEF NoEntry
  <2>4. GetEx(k) \in {cache[Plain(k)], cache[Comp(k)], table[Plain(k)].hash, table[Comp(k)].hash}
    BY <2>1 DEF Find, ReadAt
  <2>5. \E s \in {Plain(k), Comp(k)} : GetEx(k) = cache[s] \/ GetEx(k) = table[s].hash
    BY <2>4
  <2>6. Own(Plain(k), GetEx(k)) \/ Own(Comp(k), GetEx(k))
    BY <2>2, <2>3, <2>5 DEF OwnInv
  <2> QED
    BY <2>6 DEF Own
<1> QED
  BY <1>1, OwnCorrect, TypeCorrect, PTL

(***************************************************************************)
(* What the file holds, as a caller sees it.                               *)
(***************************************************************************)

\* What a table says of a key: the plain entry comes first.
Holds(t, k) == IF t[Plain(k)].hash # None THEN t[Plain(k)].hash ELSE t[Comp(k)].hash

\* An entry is absent exactly when it has no hash.
LEMMA EntryHash ==
  ASSUME NEW t \in [Slots -> Entry], NEW s \in Slots
  PROVE  /\ t[s] = NoEntry <=> t[s].hash = None
         /\ t[s].hash \in Values \cup {None}
  BY ValuesAssumption DEF Entry, NoEntry

\* A file that an open or a crashed store has: whole records, and perhaps a torn one.
Sound(f) == Clean(f) \/ TornTail(f)

\* A record that is cut off, after whole ones, is not replayed.
LEMMA TornAppend ==
  ASSUME NEW f \in Seq(Record), Clean(f), NEW r \in Record, Stops(r)
  PROVE  TornTail(Append(f, r)) /\ Replay(Append(f, r)) = Replay(f)
<1> DEFINE g == Append(f, r)
<1>1. /\ g \in Seq(Record) /\ Len(g) = Len(f) + 1 /\ g[Len(f) + 1] = r
      /\ \A i \in 1 .. Len(f) : g[i] = f[i]
  OBVIOUS
<1> HIDE DEF g
<1>2. TornTail(g)
  BY <1>1 DEF TornTail, Clean
<1>3. \A i \in 1 .. Len(f) : ~Stops(g[i]) /\ ~Swallows(g[i])
  BY <1>1 DEF Clean, Stops, Swallows
<1>4. \A i \in 1 .. Len(f) : Readable(g, i)
  BY <1>1, <1>3 DEF Readable
<1>5. ~Readable(g, Len(f) + 1)
  BY <1>1 DEF Readable
<1>6. LastAccepted(g, Len(f)) /\ Len(f) \in 0 .. (Len(g) - 1)
  BY <1>1, <1>4, <1>5 DEF LastAccepted
<1>7. SubSeq(g, 1, Len(f)) = f
  BY <1>1
<1>8. f \in Cut(g, Len(f))
  <2>1. ~ (Len(f) > 0 /\ Swallows(g[Len(f)]))
    BY <1>3
  <2> QED
    BY <1>7, <2>1 DEF Cut
<1>9. f \in Repaired(g)
  <2>1. ~ \A i \in 1 .. Len(g) : Readable(g, i)
    BY <1>1, <1>5
  <2> QED
    BY <1>6, <1>8, <2>1 DEF Repaired
<1>10. Replay(f) = Replay(g)
  BY <1>1, <1>2, <1>9, TornTailReplay
<1> QED
  BY <1>2, <1>10 DEF g

\* A live entry of a sound file points at a whole record of its slot.
LEMMA SoundReads ==
  ASSUME NEW f \in Seq(Record), Sound(f), NEW s \in Slots
  PROVE  ReadAt(f, Replay(f)[s], Compressed(s)) = Replay(f)[s].hash
<1>1. CASE \A i \in 1 .. Len(f) : ~Live(f, s, i)
  <2>1. Replay(f)[s] = NoEntry
    BY <1>1, ReplayNone
  <2> QED
    BY <2>1 DEF ReadAt, NoEntry
<1>2. ASSUME NEW i \in 1 .. Len(f), Live(f, s, i)
      PROVE  ReadAt(f, Replay(f)[s], Compressed(s)) = Replay(f)[s].hash
  <2>1. Replay(f)[s] = [off |-> i, hash |-> f[i].val]
    BY <1>2, ReplayLive
  <2>2. ~Stops(f[i]) /\ f[i].slot = s
    BY <1>2 DEF Live, Newest, Readable
  <2>3. f[i].st = "whole"
    BY <2>2 DEF Sound, Clean, TornTail
  <2> QED
    BY <2>1, <2>2, <2>3 DEF ReadAt
<1> QED
  BY <1>1, <1>2

\* So what a restart finds is what the replayed table says.
LEMMA SoundFind ==
  ASSUME NEW f \in Seq(Record), Sound(f), NEW k \in Keys
  PROVE  Find(Replay(f), f, k) = Holds(Replay(f), k)
<1>1. Plain(k) \in Slots /\ Comp(k) \in Slots /\ ~Compressed(Plain(k)) /\ Compressed(Comp(k))
  OBVIOUS
<1>2. Replay(f) \in [Slots -> Entry]
  BY ReplayType
<1>3. Replay(f)[Plain(k)] = NoEntry <=> Replay(f)[Plain(k)].hash = None
  BY <1>1, <1>2, EntryHash
<1>4. /\ ReadAt(f, Replay(f)[Plain(k)], FALSE) = Replay(f)[Plain(k)].hash
      /\ ReadAt(f, Replay(f)[Comp(k)], TRUE) = Replay(f)[Comp(k)].hash
  <2>1. Compressed(Plain(k)) = FALSE /\ Compressed(Comp(k)) = TRUE
    OBVIOUS
  <2> QED
    BY <1>1, <2>1, SoundReads
<1> QED
  BY <1>3, <1>4 DEF Find, Holds

\* A rebuild changes nothing that can be found.
LEMMA RebuiltFinds ==
  ASSUME NEW f \in Seq(Record), Sound(f), NEW g \in Rebuilt(f)
  PROVE  g \in Seq(Record) /\ Clean(g) /\ Replay(g) = Replay(f)
<1>1. CASE Replay(f) = EmptyTable
  BY <1>1, ReplayEmpty DEF Rebuilt, Clean
<1>2. CASE Replay(f) # EmptyTable /\ Clean(f)
  BY <1>2, CleanRepaired DEF Rebuilt
<1>3. CASE Replay(f) # EmptyTable /\ TornTail(f)
  BY <1>3, TornTailReplay DEF Rebuilt
<1> QED
  BY <1>1, <1>2, <1>3 DEF Sound

(***************************************************************************)
(* No acknowledged change is lost in silence.                              *)
(***************************************************************************)

\* Every key is stored in one form, plain or compressed.
OneFormPerKey == \A p, q \in Puts : p[1] = q[1] => p[3] = q[3]

\* The inductive form of LossReported, for stores that meet crashes, torn plain records
\* and short writes.  Each entry of an open store's table is that of the file, unless a
\* deletion failed or a compaction was abandoned (tmpHeld), which leaves entries that
\* point into .db.tmp; and as long as no error was reported the table and the file say
\* the same of every key, but for a deletion that is about to be written.
FileInv ==
  /\ mode \in {"closed", "rw", "ro"} /\ op.kind # "spin"
  /\ mode = "closed" => op = NoOp
  /\ IF mode = "closed" THEN Sound(file) ELSE Clean(file)
  /\ mode # "closed" /\ ~tmpHeld /\ op.kind # "compact" =>
       \A s \in Slots : table[s] \in {NoEntry, Replay(file)[s]}
  /\ op.kind = "delete" => table[op.slot] = NoEntry
  /\ op.kind = "compact" =>
       /\ ~tmpHeld /\ Clean(tmp)
       /\ \A s \in Slots : IF s \in op.todo THEN table[s] = Replay(file)[s] /\ table[s] # NoEntry
                                            ELSE table[s] = Replay(tmp)[s]
  /\ mode # "closed" /\ ~reported =>
       \A s \in Slots : table[s].hash = IF op.kind = "delete" /\ s = op.slot THEN None
                                        ELSE Replay(file)[s].hash
  /\ ~reported => \A k \in Keys : Holds(Replay(file), k) \in expect[k]

LEMMA SlotForms ==
  ASSUME NEW s \in Slots
  PROVE  /\ s[1] \in Keys
         /\ \/ s = Plain(s[1]) /\ s # Comp(s[1]) /\ s[2] = FALSE
            \/ s = Comp(s[1]) /\ s # Plain(s[1]) /\ s[2] = TRUE
<1>1. PICK k \in Keys, c \in BOOLEAN : s = <<k, c>>
  OBVIOUS
<1>2. s[1] = k /\ s[2] = c
  BY <1>1
<1>3. CASE c = TRUE
  BY <1>1, <1>2, <1>3
<1>4. CASE c = FALSE
  BY <1>1, <1>2, <1>4
<1> QED
  BY <1>3, <1>4

\* In a lawful file of such a store only one slot of a key has an entry.
LEMMA OtherSlotEmpty ==
  ASSUME OneFormPerKey, NEW t \in [Slots -> Entry],
         \A s \in Slots : t[s] # NoEntry => Own(s, t[s].hash),
         NEW s \in Slots, NEW v, Own(s, v)
  PROVE  /\ s = Comp(s[1]) => t[Plain(s[1])] = NoEntry
         /\ s = Plain(s[1]) => t[Comp(s[1])] = NoEntry
<1>1. s[1] \in Keys /\ Plain(s[1]) \in Slots /\ Comp(s[1]) \in Slots
  OBVIOUS
<1>2. \A h, x : <<s[1], h, TRUE>> \in Puts => <<s[1], x, FALSE>> \notin Puts
  <2> SUFFICES ASSUME NEW h, NEW x, <<s[1], h, TRUE>> \in Puts, <<s[1], x, FALSE>> \in Puts
               PROVE  FALSE
    OBVIOUS
  <2> DEFINE p == <<s[1], h, TRUE>>
             q == <<s[1], x, FALSE>>
  <2>1. p[1] = q[1] /\ p[3] = TRUE /\ q[3] = FALSE
    OBVIOUS
  <2>2. p[3] = q[3]
    BY <2>1 DEF OneFormPerKey
  <2> QED
    BY <2>1, <2>2
<1>3. s = Comp(s[1]) => s[2] = TRUE
  BY SlotForms
<1>4. s = Plain(s[1]) => s[2] = FALSE
  BY SlotForms
<1> QED
  BY <1>1, <1>2, <1>3, <1>4 DEF Own

\* When a put or a delete has reached the file, a Get of its key finds what it left.
LEMMA HoldsAfter ==
  ASSUME OneFormPerKey, NEW t \in [Slots -> Entry],
         \A s \in Slots : t[s] # NoEntry => Own(s, t[s].hash),
         NEW s \in Slots, NEW v \in Values, Own(s, v)
  PROVE  Holds(t, s[1]) = t[s].hash
<1>1. s[1] \in Keys /\ (s = Plain(s[1]) \/ s = Comp(s[1]))
  BY SlotForms
<1>2. NoEntry.hash = None
  BY DEF NoEntry
<1>3. CASE s = Plain(s[1])
  <2>1. t[Comp(s[1])] = NoEntry
    BY <1>3, OtherSlotEmpty
  <2> QED
    BY <1>2, <1>3, <2>1 DEF Holds
<1>4. CASE s = Comp(s[1])
  <2>1. t[Plain(s[1])] = NoEntry
    BY <1>4, OtherSlotEmpty
  <2> QED
    BY <1>2, <1>4, <2>1 DEF Holds
<1> QED
  BY <1>1, <1>3, <1>4

\* Two tables with the same hashes under a key say the same of it.
LEMMA HoldsSame ==
  ASSUME NEW t, NEW u, NEW k \in Keys,
         \A s \in Slots : s[1] = k => t[s].hash = u[s].hash
  PROVE  Holds(t, k) = Holds(u, k)
<1>1. t[Plain(k)].hash = u[Plain(k)].hash /\ t[Comp(k)].hash = u[Comp(k)].hash
  <2>1. Plain(k) \in Slots /\ Comp(k) \in Slots /\ Plain(k)[1] = k /\ Comp(k)[1] = k
    OBVIOUS
  <2> QED
    BY <2>1
<1> QED
  BY <1>1 DEF Holds

\* A write that is not short appends its record, one that is changes nothing.
LEMMA ShortWrites ==
  ASSUME Faults \subseteq {"crash", "tear", "short_write"}, NEW f, NEW r, NEW w \in Writes(f, r)
  PROVE  IF w.ok THEN w.to = Append(f, r) ELSE w.to = f
<1>1. w = [to |-> Append(f, r), ok |-> TRUE] \/ w = [to |-> f, ok |-> FALSE]
  BY DEF Writes
<1> QED
  BY <1>1

LEMMA FileStep ==
  ASSUME Faults \subseteq {"crash", "tear", "short_write"}, OneFormPerKey
  PROVE  TypeOK /\ OwnInv /\ FileInv /\ [Next]_vars => FileInv'
<1> SUFFICES ASSUME TypeOK, OwnInv, FileInv, [Next]_vars PROVE FileInv'
  OBVIOUS
<1>a. /\ file \in Seq(Record) /\ tmp \in Seq(Record) /\ op \in Ops
      /\ table \in [Slots -> Entry] /\ expect \in [Keys -> SUBSET (Values \cup {None})]
      /\ mode \in {"closed", "rw", "ro"} /\ tmpHeld \in BOOLEAN /\ reported \in BOOLEAN
  BY DEF TypeOK, FileInv
<1>b. NoOp.kind = "idle" /\ NoEntry.hash = None
  BY DEF NoOp, NoEntry
<1>c. \A r : \A w \in FileWrites(r) : IF w.ok THEN w.to = Append(file, r) /\ mode # "ro"
                                               ELSE w.to = file
  <2> TAKE r
  <2> TAKE w \in FileWrites(r)
  <2>1. CASE mode = "ro"
    <3>1. w = [to |-> file, ok |-> FALSE]
      BY <2>1 DEF FileWrites
    <3> QED
      BY <3>1
  <2>2. CASE mode # "ro"
    BY <2>2, ShortWrites DEF FileWrites
  <2> QED
    BY <2>1, <2>2
<1>d. /\ Replay(file) \in [Slots -> Entry]
      /\ \A s \in Slots : Replay(file)[s] # NoEntry => Own(s, Replay(file)[s].hash)
  BY <1>a, ReplayType, ReplayLawful DEF OwnInv
<1>e. /\ \A s \in Slots : table[s] = NoEntry <=> table[s].hash = None
      /\ \A s \in Slots : Replay(file)[s] = NoEntry <=> Replay(file)[s].hash = None
  BY <1>a, <1>d, EntryHash
<1>f. Replay(<<>>) = EmptyTable /\ Clean(<<>>) /\ \A s \in Slots : EmptyTable[s] = NoEntry
  BY ReplayEmpty DEF Clean, EmptyTable
<1>1. CASE Create
  <2>1. mode = "closed" /\ op = NoOp /\ op' = op /\ mode' = "rw" /\ Sound(file) /\ reported' = FALSE
    BY <1>1 DEF Create, FileInv
  <2>2. file' \in Seq(Record) /\ Clean(file') /\ Replay(file') = Replay(file) /\ table' = Replay(file)
    BY <1>1, <1>a, <2>1, RebuiltFinds DEF Create
  <2>3. ASSUME NEW k \in Keys PROVE Holds(Replay(file'), k) \in expect'[k]
    <3> DEFINE v == Find(table', file', k)
    <3>1. Sound(file')
      BY <2>2 DEF Sound
    <3>2. v = Holds(Replay(file'), k)
      BY <2>2, <2>3, <3>1, SoundFind
    <3>3. expect'[k] = IF v \in expect[k] \/ reported THEN {v} ELSE expect[k]
      BY <1>1, <2>3 DEF Create
    <3>4. ~reported => v \in expect[k]
      BY <2>2, <2>3, <3>2 DEF FileInv
    <3> HIDE DEF v
    <3> QED
      BY <3>2, <3>3, <3>4
  <2> QED
    BY <1>b, <2>1, <2>2, <2>3 DEF FileInv
<1>2. CASE Close
  BY <1>2, <1>b DEF Close, FileInv, Sound
<1>3. ASSUME NEW k, NEW v, NEW c, PutEx2(k, v, c)
      PROVE  FileInv'
  <2>1. op = NoOp /\ mode # "closed" /\ UNCHANGED <<file, tmp, tmpHeld, mode, table, reported>>
    BY <1>3 DEF PutEx2
  <2>2. op' = Op("put", <<k, c>>, v, {}) /\ expect' = expect
    BY <1>3, <1>a DEF PutEx2
  <2>3. op'.kind = "put"
    BY <2>2 DEF Op
  <2> QED
    BY <1>b, <2>1, <2>2, <2>3 DEF FileInv
<1>4. CASE PutDeletePlain
  <2>1. op.slot \in Slots /\ op.slot[1] \in Keys /\ op.kind = "put" /\ Own(op.slot, op.val)
    BY <1>4, <1>a, OpType DEF PutDeletePlain, OwnInv
  <2>2. op.slot = Comp(op.slot[1]) /\ table[Plain(op.slot[1])] # NoEntry
    <3>1. Compressed(op.slot) /\ table[Plain(op.slot[1])] # NoEntry
      BY <1>4 DEF PutDeletePlain, MustDeletePlain
    <3> QED
      BY <2>1, <3>1, SlotForms
  <2>3. \A s \in Slots : table[s] # NoEntry => Own(s, table[s].hash)
    BY DEF OwnInv
  <2> QED
    BY <1>a, <2>1, <2>2, <2>3, OtherSlotEmpty
<1>5. CASE PutUnchanged
  <2>1. op.slot \in Slots /\ op.slot[1] \in Keys /\ op.kind = "put" /\ Own(op.slot, op.val)
        /\ op.val \in Values
    BY <1>5, <1>a, OpType DEF PutUnchanged, OwnInv
  <2>2. mode # "closed" /\ table[op.slot].hash = op.val
    BY <1>5, <1>b, <2>1 DEF PutUnchanged, FileInv
  <2>3. UNCHANGED <<file, tmp, tmpHeld, mode, table, reported>> /\ op' = NoOp
        /\ expect' = [expect EXCEPT ![op.slot[1]] = {op.val}]
    BY <1>5 DEF PutUnchanged
  <2>4. ~reported => Holds(Replay(file), op.slot[1]) = op.val
    <3>1. ~reported => Replay(file)[op.slot].hash = op.val
      BY <2>1, <2>2 DEF FileInv
    <3>2. Holds(Replay(file), op.slot[1]) = Replay(file)[op.slot].hash
      BY <1>d, <2>1, HoldsAfter
    <3> QED
      BY <3>1, <3>2
  <2>5. ~reported' => \A k \in Keys : Holds(Replay(file'), k) \in expect'[k]
    BY <1>a, <2>3, <2>4 DEF FileInv
  <2> QED
    BY <1>b, <2>1, <2>2, <2>3, <2>5 DEF FileInv
<1>6. CASE PutWrite
  <2>1. op.slot \in Slots /\ op.slot[1] \in Keys /\ op.kind = "put" /\ Own(op.slot, op.val)
        /\ op.val \in Values
    BY <1>6, <1>a, OpType DEF PutWrite, OwnInv
  <2>2. mode # "closed" /\ Clean(file)
    BY <1>b, <2>1 DEF FileInv
  <2>3. file' = Append(file, Rec(op.slot, op.val))
    BY <1>6, <1>c DEF PutWrite
  <2> DEFINE e == [off |-> Len(file) + 1, hash |-> op.val]
  <2>4. Clean(file') /\ Replay(file') = [Replay(file) EXCEPT ![op.slot] = e]
    <3>1. /\ Clean(Append(file, Rec(op.slot, op.val)))
          /\ Replay(Append(file, Rec(op.slot, op.val))) =
               [Replay(file) EXCEPT ![op.slot] = [off |-> Len(file) + 1, hash |-> op.val]]
      <4>1. op.slot \in Slots /\ op.val \in Values /\ file \in Seq(Record) /\ Clean(file)
        BY <1>a, <2>1, <2>2
      <4> QED
        BY <4>1, AppendValue
    <3> QED
      BY <2>3, <3>1
  <2>5. /\ UNCHANGED <<tmp, tmpHeld, mode, reported>> /\ op' = NoOp
        /\ expect' = [expect EXCEPT ![op.slot[1]] = {op.val}]
        /\ table' = [table EXCEPT ![op.slot] = e]
    BY <1>6 DEF PutWrite
  <2>6. e.hash = op.val
    OBVIOUS
  <2> HIDE DEF e
  <2>7. \A s \in Slots : Replay(file')[s] = IF s = op.slot THEN e ELSE Replay(file)[s]
    BY <1>d, <2>4
  <2>8. \A s \in Slots : table'[s] = IF s = op.slot THEN e ELSE table[s]
    BY <1>a, <2>5
  <2>9. ~reported' => \A k \in Keys : Holds(Replay(file'), k) \in expect'[k]
    <3> SUFFICES ASSUME ~reported', NEW k \in Keys PROVE Holds(Replay(file'), k) \in expect'[k]
      OBVIOUS
    <3>1. CASE k = op.slot[1]
      <4>1. Replay(file') \in [Slots -> Entry] /\ \A s \in Slots : Replay(file')[s] # NoEntry => Own(s, Replay(file')[s].hash)
        <5>1. e \in Entry
          BY <1>a, <2>1 DEF e, Entry
        <5> QED
          BY <1>d, <2>1, <2>4, <2>6, <2>7, <5>1
      <4>2. Holds(Replay(file'), k) = Replay(file')[op.slot].hash
        BY <2>1, <3>1, <4>1, HoldsAfter
      <4> QED
        BY <1>a, <2>1, <2>5, <2>6, <2>7, <3>1, <4>2
    <3>2. CASE k # op.slot[1]
      <4>1. Holds(Replay(file'), k) = Holds(Replay(file), k)
        BY <2>7, <3>2, HoldsSame
      <4> QED
        BY <1>a, <2>5, <3>2, <4>1 DEF FileInv
    <3> QED
      BY <3>1, <3>2
  <2>10. ~reported' => \A s \in Slots : table'[s].hash = Replay(file')[s].hash
    BY <2>1, <2>2, <2>5, <2>7, <2>8 DEF FileInv
  <2>11. ~tmpHeld' => \A s \in Slots : table'[s] \in {NoEntry, Replay(file')[s]}
    BY <2>1, <2>2, <2>5, <2>7, <2>8 DEF FileInv
  <2> QED
    BY <1>b, <1>a, <2>2, <2>4, <2>5, <2>9, <2>10, <2>11 DEF FileInv
<1>7. CASE PutWriteError
  <2>1. op.kind = "put" /\ mode # "closed" /\ Clean(file)
    BY <1>7, <1>b DEF PutWriteError, FileInv
  <2>2. reported' = TRUE /\ op' = NoOp /\ table' = Replay(file) /\ mode' \in {"rw", "ro"}
    BY <1>7 DEF PutWriteError
  <2>3. file' = file \/ (file' = <<>> /\ Replay(file) = EmptyTable)
    BY <1>7 DEF PutWriteError
  <2>4. Clean(file') /\ Replay(file') = Replay(file)
    BY <1>f, <2>1, <2>3
  <2> QED
    BY <1>b, <2>2, <2>4 DEF FileInv
<1>8. ASSUME NEW k \in Keys, DeleteEx(k)
      PROVE  FileInv'
  <2>1. mode # "closed" /\ op = NoOp /\ UNCHANGED <<file, tmp, tmpHeld, mode, reported>>
    BY <1>8 DEF DeleteEx
  <2> DEFINE s == IF table[Plain(k)] # NoEntry THEN Plain(k) ELSE Comp(k)
  <2>2. s \in Slots /\ s[1] = k
    OBVIOUS
  <2>3. CASE table[s] = NoEntry
    <3>1. table' = table /\ op' = op /\ expect' = [expect EXCEPT ![k] = {None}]
      BY <1>8, <2>3 DEF DeleteEx
    <3>2. table[Plain(k)] = NoEntry /\ table[Comp(k)] = NoEntry
      BY <2>3
    <3>3. ~reported => Holds(Replay(file), k) = None
      <4>1. ~reported => Replay(file)[Plain(k)].hash = None /\ Replay(file)[Comp(k)].hash = None
        BY <1>b, <2>1, <3>2 DEF FileInv
      <4> QED
        BY <4>1 DEF Holds
    <3>4. ~reported' => \A j \in Keys : Holds(Replay(file'), j) \in expect'[j]
      BY <1>a, <2>1, <3>1, <3>3 DEF FileInv
    <3> QED
      BY <1>b, <2>1, <3>1, <3>4 DEF FileInv
  <2>4. CASE table[s] # NoEntry
    <3>1. op' = Op("delete", s, None, {}) /\ table' = [table EXCEPT ![s] = NoEntry] /\ expect' = expect
      BY <1>8, <2>4 DEF DeleteEx
    <3>2. op'.kind = "delete" /\ op'.slot = s
      BY <3>1 DEF Op
    <3> HIDE DEF s
    <3>3. \A t \in Slots : table'[t] = IF t = s THEN NoEntry ELSE table[t]
      BY <1>a, <2>2, <3>1
    <3> QED
      BY <1>b, <2>1, <2>2, <3>1, <3>2, <3>3 DEF FileInv
  <2> QED
    BY <2>3, <2>4
<1>9. CASE DeleteWrite
  <2>1. op.slot \in Slots /\ op.slot[1] \in Keys /\ op.kind = "delete"
    BY <1>9, <1>a, OpType DEF DeleteWrite
  <2>2. mode # "closed" /\ Clean(file)
    BY <1>b, <2>1 DEF FileInv
  <2>3. PICK w \in FileWrites(Rec(op.slot, None)) : file' = w.to /\ reported' = (reported \/ ~w.ok)
    BY <1>9 DEF DeleteWrite
  <2>4. /\ UNCHANGED <<tmp, tmpHeld, mode, table>> /\ op' = NoOp
        /\ expect' = [expect EXCEPT ![op.slot[1]] = {None}]
    BY <1>9 DEF DeleteWrite
  <2>5. CASE ~w.ok
    <3>1. file' = file /\ reported' = TRUE
      BY <1>c, <2>3, <2>5
    <3> QED
      BY <1>b, <2>1, <2>2, <2>4, <3>1 DEF FileInv
  <2>6. CASE w.ok
    <3>1. file' = Append(file, Rec(op.slot, None)) /\ reported' = reported
      BY <1>a, <1>c, <2>3, <2>6
    <3>2. Clean(file') /\ Replay(file') = [Replay(file) EXCEPT ![op.slot] = NoEntry]
      BY <1>a, <2>1, <2>2, <3>1, AppendReplay
    <3>3. \A s \in Slots : Replay(file')[s] = IF s = op.slot THEN NoEntry ELSE Replay(file)[s]
      BY <1>d, <3>2
    <3>4. PICK v \in Values : Own(op.slot, v)
      BY <2>1 DEF OwnInv
    <3>5. Holds(Replay(file'), op.slot[1]) = None
      <4>1. Replay(file') \in [Slots -> Entry] /\ \A s \in Slots : Replay(file')[s] # NoEntry => Own(s, Replay(file')[s].hash)
        BY <1>d, <3>2, <3>3 DEF Entry
      <4>2. Holds(Replay(file'), op.slot[1]) = Replay(file')[op.slot].hash
        BY <2>1, <3>4, <4>1, HoldsAfter
      <4> QED
        BY <1>b, <2>1, <3>3, <4>2
    <3>6. ASSUME NEW k \in Keys, k # op.slot[1]
          PROVE  Holds(Replay(file'), k) = Holds(Replay(file), k)
      BY <3>3, <3>6, HoldsSame
    <3>7. ~reported' => \A k \in Keys : Holds(Replay(file'), k) \in expect'[k]
      BY <1>a, <2>1, <2>4, <3>1, <3>5, <3>6 DEF FileInv
    <3>8. table[op.slot] = NoEntry
      BY <2>1 DEF FileInv
    <3>9. ~reported' => \A s \in Slots : table'[s].hash = Replay(file')[s].hash
      BY <1>b, <2>1, <2>2, <2>4, <3>1, <3>3, <3>8 DEF FileInv
    <3>10. ~tmpHeld' => \A s \in Slots : table'[s] \in {NoEntry, Replay(file')[s]}
      BY <2>1, <2>2, <2>4, <3>3, <3>8 DEF FileInv
    <3> QED
      BY <1>b, <2>1, <2>2, <2>4, <3>2, <3>7, <3>9, <3>10 DEF FileInv
  <2> QED
    BY <2>5, <2>6
<1>10. CASE CompactRefused
  BY <1>10 DEF CompactRefused, FileInv
<1>11. CASE Compact
  <2>1. mode # "closed" /\ ~tmpHeld /\ op = NoOp
    BY <1>11 DEF Compact
  <2>2. /\ UNCHANGED <<file, tmpHeld, mode, table, expect, reported>> /\ tmp' = <<>>
        /\ op' = Op("compact", None, None, {s \in Slots : table[s] # NoEntry})
    BY <1>11 DEF Compact
  <2>3. op'.kind = "compact" /\ op'.todo = {s \in Slots : table[s] # NoEntry}
    BY <2>2 DEF Op
  <2>4. \A s \in Slots : table[s] \in {NoEntry, Replay(file)[s]}
    BY <1>b, <2>1 DEF FileInv
  <2>5. Clean(tmp') /\ \A s \in Slots : Replay(tmp')[s] = NoEntry
    BY <1>f, <2>2
  <2>6. \A s \in Slots : IF s \in op'.todo THEN table'[s] = Replay(file')[s] /\ table'[s] # NoEntry
                                            ELSE table'[s] = Replay(tmp')[s]
    BY <2>2, <2>3, <2>4, <2>5
  <2> QED
    BY <1>b, <2>1, <2>2, <2>3, <2>5, <2>6 DEF FileInv
<1>12. ASSUME NEW s \in Slots, CompactEntry(s)
       PROVE  FileInv'
  <2>1. op.kind = "compact" /\ s \in op.todo /\ mode # "closed"
        /\ UNCHANGED <<file, mode, expect, reported>>
    BY <1>12, <1>b DEF CompactEntry, FileInv
  <2>2. Clean(file) /\ Clean(tmp) /\ table[s] = Replay(file)[s] /\ table[s] # NoEntry /\ ~tmpHeld
    BY <2>1 DEF FileInv
  <2>3. table[s].hash \in Values /\ ReadAt(file, table[s], Compressed(s)) # None
    BY <1>a, <2>2, EntryReads, ValuesAssumption
  <2>4. PICK w \in Writes(tmp, Rec(s, table[s].hash)) :
          IF w.ok
          THEN /\ tmp' = w.to
               /\ table' = [table EXCEPT ![s].off = Len(tmp) + 1]
               /\ op' = [op EXCEPT !.todo = @ \ {s}]
               /\ UNCHANGED tmpHeld
          ELSE op' = NoOp /\ tmpHeld' = TRUE /\ UNCHANGED table
    BY <1>12, <2>3 DEF CompactEntry
  <2>5. CASE ~w.ok
    BY <1>b, <2>1, <2>2, <2>4, <2>5 DEF FileInv
  <2>6. CASE w.ok
    <3> DEFINE h == table[s].hash
               e == [off |-> Len(tmp) + 1, hash |-> h]
    <3>1. tmp' = Append(tmp, Rec(s, h))
      BY <2>4, <2>6, ShortWrites
    <3>2. Clean(tmp') /\ Replay(tmp') = [Replay(tmp) EXCEPT ![s] = e]
      <4>1. h \in Values
        BY <2>3
      <4> HIDE DEF h
      <4>2. Clean(Append(tmp, Rec(s, h))) /\ Replay(Append(tmp, Rec(s, h))) = [Replay(tmp) EXCEPT ![s] = e]
        BY <1>a, <2>2, <4>1, AppendValue
      <4> QED
        BY <3>1, <4>2
    <3>3. op'.kind = "compact" /\ op'.todo = op.todo \ {s}
      BY <1>a, <2>1, <2>4, <2>6 DEF Ops, NoOp
    <3>4. table[s] \in Entry
      BY <1>a
    <3>5. table'[s] = e /\ \A t \in Slots \ {s} : table'[t] = table[t]
      BY <1>a, <2>2, <2>4, <2>6, <3>4 DEF Entry
    <3>6. e.hash = table[s].hash /\ Replay(tmp) \in [Slots -> Entry]
      BY <1>a, ReplayType
    <3> HIDE DEF e, h
    <3>7. \A t \in Slots : Replay(tmp')[t] = IF t = s THEN e ELSE Replay(tmp)[t]
      BY <3>2, <3>6
    <3>8. \A t \in Slots : IF t \in op'.todo THEN table'[t] = Replay(file')[t] /\ table'[t] # NoEntry
                                              ELSE table'[t] = Replay(tmp')[t]
      <4> TAKE t \in Slots
      <4>1. CASE t = s
        BY <3>3, <3>5, <3>7, <4>1
      <4>2. CASE t # s
        BY <2>1, <3>3, <3>5, <3>7, <4>2 DEF FileInv
      <4> QED
        BY <4>1, <4>2
    <3>9. ~reported' => \A t \in Slots : table'[t].hash = Replay(file')[t].hash
      BY <2>1, <3>5, <3>6 DEF FileInv
    <3> QED
      BY <2>1, <2>2, <2>4, <2>6, <3>2, <3>3, <3>8, <3>9 DEF FileInv
  <2> QED
    BY <2>5, <2>6
<1>13. ASSUME NEW s \in Slots, CompactSpin(s)
       PROVE  FileInv'
  <2>1. op.kind = "compact" /\ s \in op.todo /\ mode # "closed"
    BY <1>13, <1>b DEF CompactSpin, FileInv
  <2>2. Clean(file) /\ table[s] = Replay(file)[s] /\ table[s] # NoEntry
    BY <2>1 DEF FileInv
  <2> QED
    BY <1>13, <1>a, <2>2, EntryReads DEF CompactSpin
<1>14. CASE CompactSwap
  <2>1. op.kind = "compact" /\ op.todo = {} /\ mode' = "rw" /\ file' = tmp /\ op' = NoOp
        /\ UNCHANGED <<tmpHeld, table, expect, reported>>
    BY <1>14 DEF CompactSwap
  <2>2. Clean(tmp) /\ ~tmpHeld /\ mode # "closed" /\ \A s \in Slots : table[s] = Replay(tmp)[s]
    BY <1>b, <2>1 DEF FileInv
  <2>3. ~reported => \A s \in Slots : Replay(tmp)[s].hash = Replay(file)[s].hash
    BY <2>1, <2>2 DEF FileInv
  <2>4. ~reported => \A k \in Keys : Holds(Replay(tmp), k) = Holds(Replay(file), k)
    BY <2>3, HoldsSame
  <2>5. ~reported => \A k \in Keys : Holds(Replay(tmp), k) \in expect[k]
    BY <2>4 DEF FileInv
  <2> QED
    BY <1>b, <2>1, <2>2, <2>5 DEF FileInv
<1>15. \A k \in Keys : expect[k] \subseteq Interrupted[k]
  BY <1>a, OpType DEF Interrupted
<1>16. CASE Crash
  BY <1>15, <1>16, <1>b DEF Crash, Died, FileInv, Sound
<1>17. CASE CrashInWrite
  <2>1. mode = "rw" /\ Clean(file) /\ op.kind \in {"put", "delete"}
    BY <1>17 DEF CrashInWrite, FileInv
  <2>2. PICK part \in {"head", "value"} :
          /\ IF part = "value" /\ Compressed(NextRecord.slot)
             THEN "tear_comp" \in Faults ELSE "tear" \in Faults
          /\ file' = Append(file, Torn(NextRecord, part))
    BY <1>17 DEF CrashInWrite
  <2>3. NextRecord \in Record
    BY <1>a, <2>1, OpType, RecType DEF NextRecord
  <2>4. Torn(NextRecord, part) \in Record /\ Stops(Torn(NextRecord, part))
    BY <2>2, <2>3 DEF Torn, Stops, Record
  <2>5. TornTail(file') /\ Replay(file') = Replay(file)
    BY <1>a, <2>1, <2>2, <2>4, TornAppend
  <2> QED
    BY <1>15, <1>17, <1>b, <2>5 DEF CrashInWrite, Died, FileInv, Sound
<1>18. CASE UNCHANGED vars
  BY <1>18 DEF vars, FileInv
<1> QED
  BY <1>1, <1>2, <1>3, <1>4, <1>5, <1>6, <1>7, <1>8, <1>9, <1>10, <1>11, <1>12,
     <1>13, <1>14, <1>16, <1>17, <1>18 DEF Next

LEMMA FileCorrect ==
  ASSUME Faults \subseteq {"crash", "tear", "short_write"}, OneFormPerKey
  PROVE  Spec => []FileInv
<1>1. Init => FileInv
  <2> SUFFICES ASSUME Init PROVE FileInv
    OBVIOUS
  <2>1. file = <<>> /\ Replay(file) = EmptyTable /\ Clean(file)
    BY ReplayEmpty DEF Init, Clean
  <2>2. \A k \in Keys : Holds(Replay(file), k) = None
    <3>1. \A s \in Slots : Replay(file)[s].hash = None
      BY <2>1 DEF EmptyTable, NoEntry
    <3> QED
      BY <3>1 DEF Holds
  <2> QED
    BY <2>1, <2>2 DEF Init, FileInv, NoOp, Sound
<1>2. TypeOK /\ OwnInv /\ FileInv /\ [Next]_vars => FileInv'
  BY FileStep
<1> QED
  BY <1>1, <1>2, TypeCorrect, OwnCorrect, PTL DEF Spec

\* In a store whose keys are stored in one form each and that meets crashes, torn plain
\* records and short writes: as long as the write-error handler was not called, whatever
\* was acknowledged is in the file, and a compaction never waits for bytes that are not
\* there.
THEOREM LossCorrect ==
  ASSUME Faults \subseteq {"crash", "tear", "short_write"}, OneFormPerKey
  PROVE  Spec => [](LossReported /\ CompactReturns)
<1>1. TypeOK /\ FileInv => LossReported /\ CompactReturns
  <2> SUFFICES ASSUME TypeOK, FileInv PROVE LossReported /\ CompactReturns
    OBVIOUS
  <2>1. file \in Seq(Record) /\ Sound(file)
    BY DEF TypeOK, FileInv, Sound
  <2>2. \A k \in Keys : OnDisk(k) = Holds(Replay(file), k)
    BY <2>1, SoundFind DEF OnDisk
  <2> QED
    BY <2>2 DEF FileInv, LossReported, CompactReturns
<1> QED
  BY <1>1, FileCorrect, TypeCorrect, PTL

(***************************************************************************)
(* What a caller reads, and the map it sees.                               *)
(***************************************************************************)

\* Without write errors nothing goes to the cache, and the copies a compaction makes
\* are of the values the file holds.
CopyInv ==
  /\ cache = EmptyCache /\ reported = FALSE
  /\ op.kind = "compact" => \A s \in Slots : table[s].hash = Replay(file)[s].hash

LEMMA CopyStep ==
  ASSUME Faults \subseteq {"crash", "tear"}
  PROVE  TypeOK /\ TableInv /\ CopyInv /\ [Next]_vars => CopyInv'
<1> SUFFICES ASSUME TypeOK, TableInv, CopyInv, [Next]_vars PROVE CopyInv'
  OBVIOUS
<1>a. NoOp.kind = "idle" /\ mode \in {"closed", "rw"} /\ op \in Ops /\ table \in [Slots -> Entry]
  BY DEF NoOp, TableInv, TypeOK
<1>b. \A r : \A w \in FileWrites(r) : w.ok
  <2>1. \A f, r : Writes(f, r) = {[to |-> Append(f, r), ok |-> TRUE]}
    BY SafeWrites
  <2> QED
    BY <1>a, <2>1 DEF FileWrites
<1>1. CASE Create
  BY <1>1, <1>a DEF Create, CopyInv, TableInv
<1>11. CASE Close \/ CompactRefused \/ CompactSwap
  BY <1>11, <1>a DEF Close, CompactRefused, CompactSwap, CopyInv
<1>12. CASE Crash \/ CrashInWrite
  BY <1>12, <1>a DEF Crash, CrashInWrite, Died, CopyInv
<1>2. ASSUME NEW k, NEW v, NEW c, PutEx2(k, v, c) PROVE CopyInv'
  BY <1>2, <1>a DEF PutEx2, Op, CopyInv
<1>3. CASE PutDeletePlain \/ PutUnchanged \/ PutWrite
  <2>1. UNCHANGED <<cache, reported>> /\ op'.kind \in {"idle", "put"}
    BY <1>3, <1>a DEF PutDeletePlain, PutUnchanged, PutWrite
  <2> QED
    BY <2>1 DEF CopyInv
<1>4. CASE PutWriteError
  BY <1>4, <1>b DEF PutWriteError
<1>5. ASSUME NEW k \in Keys, DeleteEx(k) PROVE CopyInv'
  <2>1. UNCHANGED <<cache, reported>> /\ op'.kind \in {"idle", "delete"}
    <3>1. op' = NoOp \/ \E s : op' = Op("delete", s, None, {})
      BY <1>5 DEF DeleteEx
    <3>2. UNCHANGED <<cache, reported>>
      BY <1>5 DEF DeleteEx
    <3> QED
      BY <1>a, <3>1, <3>2 DEF Op
  <2> QED
    BY <2>1 DEF CopyInv
<1>6. CASE DeleteWrite
  BY <1>6, <1>a, <1>b DEF DeleteWrite, CopyInv
<1>7. CASE Compact
  <2>1. table = Replay(file) /\ UNCHANGED <<file, table, cache, reported>>
    BY <1>7, <1>a DEF Compact, TableInv
  <2> QED
    BY <2>1 DEF CopyInv
<1>8. ASSUME NEW s \in Slots, CompactEntry(s) PROVE CopyInv'
  <2>1. op.kind = "compact" /\ UNCHANGED <<file, cache, reported>>
    BY <1>8 DEF CompactEntry
  <2>2. table' = table \/ table' = [table EXCEPT ![s].off = Len(tmp) + 1]
    BY <1>8 DEF CompactEntry
  <2>3. table[s].off # 0
    BY <1>8 DEF CompactEntry, BytesAt
  <2>4. table[s] \in [off : Nat \ {0}, hash : Values]
    BY <1>a, <2>3 DEF Entry, NoEntry
  <2>5. \A t \in Slots : table'[t].hash = table[t].hash
    BY <1>a, <2>2, <2>4
  <2> QED
    BY <2>1, <2>5 DEF CopyInv
<1>9. ASSUME NEW s \in Slots, CompactSpin(s) PROVE CopyInv'
  BY <1>9 DEF CompactSpin, Op, CopyInv
<1>10. CASE UNCHANGED vars
  BY <1>10 DEF vars, CopyInv
<1> QED
  BY <1>1, <1>2, <1>3, <1>4, <1>5, <1>6, <1>7, <1>8, <1>9, <1>10,
     <1>11, <1>12 DEF Next

LEMMA CopyCorrect ==
  ASSUME Faults \subseteq {"crash", "tear"}
  PROVE  Spec => [](TableInv /\ CopyInv)
<1>1. Init => TableInv /\ CopyInv
  BY DEF Init, TableInv, CopyInv, NoOp, Clean
<1>2. TypeOK /\ TableInv /\ [Next]_vars => TableInv'
  BY TableStep
<1>3. TypeOK /\ TableInv /\ CopyInv /\ [Next]_vars => CopyInv'
  BY CopyStep
<1> QED
  BY <1>1, <1>2, <1>3, TypeCorrect, PTL DEF Spec

\* Then a Get, and a restart, find what the replayed file says.
LEMMA GetIsHolds ==
  ASSUME TypeOK, TableInv, CopyInv, NEW k \in Keys
  PROVE  /\ OnDisk(k) = Holds(Replay(file), k)
         /\ mode = "rw" /\ op.kind \in {"idle", "put"} => GetEx(k) = Holds(Replay(file), k)
<1>1. file \in Seq(Record) /\ Sound(file)
  BY DEF TypeOK, TableInv, Sound
<1>2. Find(Replay(file), file, k) = Holds(Replay(file), k)
  BY <1>1, SoundFind
<1>3. GetEx(k) = Find(table, file, k)
  BY DEF GetEx, CopyInv, EmptyCache
<1> QED
  BY <1>2, <1>3 DEF OnDisk, TableInv

\* In a store whose keys are stored in one form each and that meets crashes and torn
\* plain records, GetEx returns what the last acknowledged put or delete of the key left
\* there, after any number of compactions, crashes and restarts (PutEx2, DeleteEx, GetEx,
\* Compact and RebuildKeyTable); for every set of keys, values and puts.
THEOREM ReadsCorrect ==
  ASSUME Faults \subseteq {"crash", "tear"}, OneFormPerKey
  PROVE  Spec => []ReadYourWrites
<1>1. Spec => []FileInv
  BY FileCorrect
<1>2. TypeOK /\ TableInv /\ CopyInv /\ FileInv => ReadYourWrites
  <2> SUFFICES ASSUME TypeOK, TableInv, CopyInv, FileInv, Observable, NEW k \in Keys
               PROVE  GetEx(k) \in expect[k]
    BY DEF ReadYourWrites
  <2>1. mode = "rw" /\ op.kind = "idle"
    BY DEF Observable, TableInv, NoOp
  <2>2. GetEx(k) = Holds(Replay(file), k)
    BY <2>1, GetIsHolds
  <2> QED
    BY <2>2 DEF FileInv, CopyInv
<1> QED
  BY <1>1, <1>2, CopyCorrect, TypeCorrect, PTL

\* A step changes what the file holds under one key at most.
LEMMA OneKeyStep ==
  ASSUME Faults \subseteq {"crash", "tear"}, TypeOK, TableInv, CopyInv, [Next]_vars
  PROVE  \/ \A s \in Slots : Replay(file')[s].hash = Replay(file)[s].hash
         \/ \E k \in Keys : \A s \in Slots : s[1] # k => Replay(file')[s].hash = Replay(file)[s].hash
<1>a. file \in Seq(Record) /\ op \in Ops /\ mode \in {"closed", "rw"} /\ table \in [Slots -> Entry]
  BY DEF TypeOK, TableInv
<1>b. \A r : FileWrites(r) = {[to |-> Append(file, r), ok |-> TRUE]}
  <2>1. \A f, r : Writes(f, r) = {[to |-> Append(f, r), ok |-> TRUE]}
    BY SafeWrites
  <2> QED
    BY <1>a, <2>1 DEF FileWrites
<1>c. op.kind \in {"put", "delete"} => mode = "rw" /\ Clean(file)
  BY <1>a DEF TableInv, NoOp
<1>d. ASSUME NEW s \in Slots, NEW v \in Values \cup {None}, file' = Append(file, Rec(s, v)), Clean(file)
      PROVE  \E k \in Keys : \A t \in Slots : t[1] # k => Replay(file')[t].hash = Replay(file)[t].hash
  <2> DEFINE e == IF v = None THEN NoEntry ELSE [off |-> Len(file) + 1, hash |-> v]
  <2>1. Replay(file') = [Replay(file) EXCEPT ![s] = e]
    BY <1>a, <1>d, AppendReplay
  <2> HIDE DEF e
  <2>2. Replay(file) \in [Slots -> Entry]
    BY <1>a, ReplayType
  <2>3. s[1] \in Keys /\ \A t \in Slots : t[1] # s[1] => t # s
    OBVIOUS
  <2> QED
    BY <2>1, <2>2, <2>3
<1>1. CASE UNCHANGED file
  BY <1>1
<1>2. CASE Create
  <2>1. Sound(file) /\ file' \in Rebuilt(file)
    BY <1>2 DEF Create, TableInv, Sound
  <2> QED
    BY <1>a, <2>1, RebuiltFinds
<1>3. CASE PutDeletePlain
  <2>1. op.slot[1] \in Keys /\ op.kind = "put"
    BY <1>3, <1>a, OpType DEF PutDeletePlain
  <2>2. file' = Append(file, Rec(Plain(op.slot[1]), None))
    BY <1>3, <1>b DEF PutDeletePlain
  <2>3. Plain(op.slot[1]) \in Slots
    BY <2>1
  <2> QED
    BY <1>c, <1>d, <2>1, <2>2, <2>3
<1>4. CASE PutWrite
  <2>1. op.slot \in Slots /\ op.val \in Values /\ op.kind = "put"
    BY <1>4, <1>a, OpType DEF PutWrite
  <2>2. file' = Append(file, Rec(op.slot, op.val))
    BY <1>4, <1>b DEF PutWrite
  <2> QED
    BY <1>c, <1>d, <2>1, <2>2
<1>5. CASE PutWriteError
  BY <1>5, <1>b DEF PutWriteError
<1>6. CASE DeleteWrite
  <2>1. op.slot \in Slots /\ op.kind = "delete"
    BY <1>6, <1>a, OpType DEF DeleteWrite
  <2>2. file' = Append(file, Rec(op.slot, None))
    BY <1>6, <1>b DEF DeleteWrite
  <2> QED
    BY <1>c, <1>d, <2>1, <2>2
<1>7. CASE CompactSwap
  <2>1. op.kind = "compact" /\ op.todo = {} /\ file' = tmp
    BY <1>7 DEF CompactSwap
  <2>2. \A s \in Slots : table[s] = Replay(tmp)[s] /\ table[s].hash = Replay(file)[s].hash
    BY <2>1 DEF TableInv, CopyInv
  <2> QED
    BY <2>1, <2>2
<1>8. CASE CrashInWrite
  <2>1. mode = "rw" /\ Clean(file) /\ op.kind \in {"put", "delete"}
    BY <1>8 DEF CrashInWrite, TableInv
  <2>2. PICK part \in {"head", "value"} :
          /\ IF part = "value" /\ Compressed(NextRecord.slot)
             THEN "tear_comp" \in Faults ELSE "tear" \in Faults
          /\ file' = Append(file, Torn(NextRecord, part))
    BY <1>8 DEF CrashInWrite
  <2>3. NextRecord \in Record
    BY <1>a, <2>1, OpType, RecType DEF NextRecord
  <2>4. Torn(NextRecord, part) \in Record /\ Stops(Torn(NextRecord, part))
    BY <2>2, <2>3 DEF Torn, Stops, Record
  <2> QED
    BY <1>a, <2>1, <2>2, <2>4, TornAppend
<1>9. ASSUME NEW k, NEW v, NEW c, PutEx2(k, v, c) PROVE UNCHANGED file
  BY <1>9 DEF PutEx2
<1>10. ASSUME NEW k \in Keys, DeleteEx(k) PROVE UNCHANGED file
  BY <1>10 DEF DeleteEx
<1>11. ASSUME NEW s \in Slots, CompactEntry(s) \/ CompactSpin(s) PROVE UNCHANGED file
  BY <1>11 DEF CompactEntry, CompactSpin
<1>12. CASE Close \/ PutUnchanged \/ CompactRefused \/ Compact \/ Crash \/ UNCHANGED vars
  BY <1>1, <1>12 DEF Close, PutUnchanged, CompactRefused, Compact, Crash, vars
<1> QED
  BY <1>1, <1>2, <1>3, <1>4, <1>5, <1>6, <1>7, <1>8, <1>9, <1>10, <1>11, <1>12 DEF Next

LEMMA ViewIsHolds ==
  TypeOK /\ TableInv /\ CopyInv => View = [k \in Keys |-> Holds(Replay(file), k)]
<1> SUFFICES ASSUME TypeOK, TableInv, CopyInv
             PROVE  View = [k \in Keys |-> Holds(Replay(file), k)]
  OBVIOUS
<1>1. ASSUME NEW k \in Keys, ~(mode = "closed" \/ op.kind \in {"compact", "spin", "delete"})
      PROVE  GetEx(k) = Holds(Replay(file), k)
  <2>1. mode = "rw" /\ op.kind \in {"idle", "put"}
    BY <1>1 DEF TypeOK, TableInv, Ops, NoOp
  <2> QED
    BY <2>1, GetIsHolds
<1>2. \A k \in Keys : OnDisk(k) = Holds(Replay(file), k)
  BY GetIsHolds
<1> QED
  BY <1>1, <1>2 DEF View

\* What the refinement rests on.
MapInv == TypeOK /\ OwnInv /\ TableInv /\ CopyInv

LEMMA MapStep ==
  ASSUME Faults \subseteq {"crash", "tear"}
  PROVE  MapInv /\ MapInv' /\ [Next]_vars => [KV!Next]_View
<1>0. (TypeOK /\ TableInv /\ CopyInv => View = [k \in Keys |-> Holds(Replay(file), k)])'
  BY ViewIsHolds, PTL
<1> SUFFICES ASSUME TypeOK, OwnInv, TableInv, CopyInv, [Next]_vars,
                    TypeOK', OwnInv', TableInv', CopyInv'
             PROVE  [KV!Next]_View
  BY DEF MapInv
<1>1. View = [k \in Keys |-> Holds(Replay(file), k)]
  BY ViewIsHolds
<1>2. View' = [k \in Keys |-> Holds(Replay(file'), k)]
  BY <1>0
<1>3. CASE \A s \in Slots : Replay(file')[s].hash = Replay(file)[s].hash
  <2>1. \A k \in Keys : Holds(Replay(file'), k) = Holds(Replay(file), k)
    BY <1>3, HoldsSame
  <2> QED
    BY <1>1, <1>2, <2>1
<1>4. ASSUME NEW k \in Keys,
             \A s \in Slots : s[1] # k => Replay(file')[s].hash = Replay(file)[s].hash
      PROVE  KV!Next
  <2> DEFINE v == Holds(Replay(file'), k)
  <2>1. \A j \in Keys : j # k => Holds(Replay(file'), j) = Holds(Replay(file), j)
    BY <1>4, HoldsSame
  <2>2. View' = [View EXCEPT ![k] = v]
    BY <1>1, <1>2, <2>1
  <2>3. /\ Replay(file') \in [Slots -> Entry]
        /\ \A s \in Slots : Replay(file')[s] # NoEntry => Own(s, Replay(file')[s].hash)
    <3>1. file' \in Seq(Record) /\ Lawful(file')
      BY DEF TypeOK, OwnInv
    <3> QED
      BY <3>1, ReplayType, ReplayLawful
  <2>4. CASE v = None
    BY <2>2, <2>4 DEF KV!Next, KV!Delete
  <2>5. CASE v # None
    <3>1. Plain(k) \in Slots /\ Comp(k) \in Slots /\ NoEntry.hash = None
      BY DEF NoEntry
    <3>2. v = Replay(file')[Plain(k)].hash \/ v = Replay(file')[Comp(k)].hash
      BY DEF Holds
    <3>3. Own(Plain(k), v) \/ Own(Comp(k), v)
      BY <2>3, <2>5, <3>1, <3>2
    <3> HIDE DEF v
    <3>4. PICK c \in BOOLEAN : <<k, v, c>> \in Puts
      BY <3>3 DEF Own
    <3> DEFINE p == <<k, v, c>>
    <3>5. p \in Puts /\ p[1] = k /\ p[2] = v
      BY <3>4
    <3> HIDE DEF p
    <3> QED
      BY <2>2, <3>5 DEF KV!Next, KV!Put
  <2> QED
    BY <2>4, <2>5
<1> QED
  BY <1>3, <1>4, OneKeyStep

\* The agent's database implements the map from keys to values of KeyValueMap: whatever
\* the calls, compactions, crashes, torn plain records and restarts, each step leaves the
\* map as it is or changes one key, by a put that a caller makes or by a delete.
THEOREM StoreImplementsMap ==
  ASSUME Faults \subseteq {"crash", "tear"}
  PROVE  Spec => RefinesMap
<1>1. Init /\ MapInv => KV!Init
  <2> SUFFICES ASSUME Init, TypeOK, TableInv, CopyInv PROVE KV!Init
    BY DEF MapInv
  <2>1. View = [k \in Keys |-> Holds(Replay(file), k)]
    BY ViewIsHolds
  <2>2. Replay(file) = EmptyTable
    BY ReplayEmpty DEF Init
  <2>3. \A s \in Slots : Replay(file)[s].hash = None
    BY <2>2 DEF EmptyTable, NoEntry
  <2>4. \A k \in Keys : Holds(Replay(file), k) = None
    BY <2>3 DEF Holds
  <2> QED
    BY <2>1, <2>4 DEF KV!Init
<1>2. MapInv /\ MapInv' /\ [Next]_vars => [KV!Next]_View
  BY MapStep
<1>3. Spec => []MapInv
  BY TypeCorrect, OwnCorrect, CopyCorrect, PTL DEF MapInv
<1> QED
  BY <1>1, <1>2, <1>3, PTL DEF Spec, RefinesMap, KV!Spec
=============================================================================

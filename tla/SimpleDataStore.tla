--------------------------- MODULE SimpleDataStore ---------------------------
(***************************************************************************)
(* The agent's database, microstack/ILibSimpleDataStore.c: an append-only  *)
(* file of records, an in-memory table from keys to the newest record, and *)
(* a cache that receives what could not be written.  Every record carries  *)
(* the hash of its value; a record without a value deletes its key.  A     *)
(* compressed value lives under a key of its own, the key followed by its  *)
(* checksum, so that one user-level key has two slots.                     *)
(*                                                                         *)
(* The calls are split where the process can die between two changes of    *)
(* the file.  What stdio and the file system may do to a write is chosen   *)
(* by the constant Faults:                                                 *)
(*   "crash"       the process dies between two writes                     *)
(*   "tear"        it dies inside a write: the header, or the value of a   *)
(*                 plain record, is incomplete on disk                     *)
(*   "tear_comp"   it dies inside the value of a compressed record         *)
(*   "short_write" fwrite reports that it wrote less than it was given     *)
(*   "flush_loss"  fwrite takes the record into its buffer and the write   *)
(*                 done by fflush or fclose fails, which no caller checks  *)
(*   "rename", "reopen"  these two calls fail at the end of a compaction   *)
(***************************************************************************)
EXTENDS Integers, Sequences, FiniteSets

CONSTANTS Keys,             \* user-level keys
          Values,           \* non-empty values; a value stands for its hash
          None,             \* no value: an absent key, or a deleting record
          Puts,             \* the puts callers make: <<key, value, compressed>>
          Faults,           \* what may go wrong, see above
          MinimumDirtySize, \* ILibSimpleDataStore_ConfigCompact
          MaxLog            \* bound: no call starts when the file has this many records

FaultKinds == {"crash", "tear", "tear_comp", "short_write", "flush_loss", "rename", "reopen"}

ASSUME ValuesAssumption == None \notin Values
ASSUME PutsAssumption   == Puts \subseteq Keys \X Values \X BOOLEAN
ASSUME FaultsAssumption == Faults \subseteq FaultKinds
ASSUME BoundsAssumption == MinimumDirtySize \in Nat /\ MaxLog \in Nat

VARIABLES file,     \* the .db file, a sequence of records
          tmp,      \* the .db.tmp file, empty unless a compaction is writing it
          tmpHeld,  \* an abandoned compaction still holds the lock of .db.tmp
          mode,     \* dataFile: "closed", "rw", "ro" (reopened read-only) or "null"
          table,    \* keyTable
          cache,    \* cacheTable
          dirty,    \* dirtySize, which only matters up to MinimumDirtySize
          op,       \* the call in progress
          ret,      \* what the last Compact returned
          expect,   \* history: the values a Get of each key may return
          reported  \* history: ErrorHandler has been called since the store was opened

vars == <<file, tmp, tmpHeld, mode, table, cache, dirty, op, ret, expect, reported>>

-----------------------------------------------------------------------------
(* Records, slots and table entries.                                       *)

Slots == Keys \X BOOLEAN
Plain(k) == <<k, FALSE>>
Comp(k)  == <<k, TRUE>>
Compressed(s) == s[2]

\* st: "whole"; "head", the header or the key is cut off; "value", the value is
\* cut off; "bad", the length is right and the bytes are those of something else.
Record  == [slot : Slots, val : Values \cup {None}, st : {"whole", "head", "value", "bad"}]
NoEntry == [off |-> 0, hash |-> None]
Entry   == [off : Nat \ {0}, hash : Values] \cup {NoEntry}

EmptyTable == [s \in Slots |-> NoEntry]
EmptyCache == [s \in Slots |-> None]

Rec(s, v)     == [slot |-> s, val |-> v, st |-> "whole"]
Torn(r, part) == [r EXCEPT !.st = part]

NoOp == [kind |-> "idle", slot |-> None, val |-> None, todo |-> {}]
Op(kind, s, v, todo) == [kind |-> kind, slot |-> s, val |-> v, todo |-> todo]

-----------------------------------------------------------------------------
(* ReadNextRecord and the replay of the file by RebuildKeyTable.           *)

\* Mutant of Stops: a value that is cut off is not noticed.
StopsAtHeaders(r) == r.st = "head" \/ (r.st = "bad" /\ ~Compressed(r.slot))

\* The record makes ReadNextRecord return NULL: the replay ends before it.
Stops(r) == r.st = "head" \/ (r.st \in {"value", "bad"} /\ ~Compressed(r.slot))

\* A compressed record whose value is cut off is accepted on the strength of its
\* key alone, and the missing bytes are taken from whatever follows it.
Swallows(r) == r.st = "value" /\ Compressed(r.slot)

\* The replay reaches record i of f and accepts it.
Readable(f, i) == /\ \A j \in 1 .. i : ~Stops(f[j])
                  /\ \A j \in 1 .. (i - 1) : ~Swallows(f[j])

\* Record i is the last one the replay sees for its slot.
Newest(f, i) == /\ Readable(f, i)
                /\ \A j \in (i + 1) .. Len(f) : Readable(f, j) => f[j].slot # f[i].slot

Live(f, s, i) == f[i].slot = s /\ f[i].val # None /\ Newest(f, i)

\* The table that reading f from its start builds.
Replay(f) ==
  [s \in Slots |->
     IF \E i \in 1 .. Len(f) : Live(f, s, i)
     THEN LET i == CHOOSE i \in 1 .. Len(f) : Live(f, s, i)
          IN  [off |-> i, hash |-> f[i].val]
     ELSE NoEntry]

\* What replaying f adds to dirtySize: the values that a later record of the same
\* slot replaces or deletes (every value has size 1).
Superseded(f) == {i \in 1 .. Len(f) : Readable(f, i) /\ f[i].val # None /\ ~Newest(f, i)}
Cap(n) == IF n < MinimumDirtySize THEN n ELSE MinimumDirtySize

\* The file after a rebuild that found keys: what follows the last accepted record
\* is cut off, unless that record swallowed all of it.
Cut(f, n) == IF n > 0 /\ Swallows(f[n])
             THEN {f, Append(SubSeq(f, 1, n - 1), Torn(f[n], "bad"))}
             ELSE {SubSeq(f, 1, n)}

LastAccepted(f, n) == (\A i \in 1 .. n : Readable(f, i)) /\ ~Readable(f, n + 1)

\* Mutant of Repaired: the file is not truncated after its last good record.
NotRepaired(f) == {f}

Repaired(f) ==
  IF \A i \in 1 .. Len(f) : Readable(f, i) THEN {f}
  ELSE UNION {Cut(f, n) : n \in {m \in 0 .. (Len(f) - 1) : LastAccepted(f, m)}}

\* A store in which no key is found is taken for one in a legacy format, and is
\* rewritten by Compact, here from an empty table.
Rebuilt(f) == IF Replay(f) = EmptyTable THEN {<<>>} ELSE Repaired(f)

-----------------------------------------------------------------------------
(* GetEx.                                                                  *)

\* Mutant of ReadAt: the hash of the value is not checked.
ReadUnchecked(f, e, compressed) ==
  IF e.off \in 1 .. Len(f) THEN f[e.off].val ELSE None

\* The value bytes at an entry's offset, when they pass the hash check.
ReadAt(f, e, compressed) ==
  IF /\ e.off \in 1 .. Len(f)
     /\ f[e.off].st = "whole"
     /\ f[e.off].val = e.hash
     /\ Compressed(f[e.off].slot) = compressed
  THEN e.hash ELSE None

\* The table is asked for the plain slot first, and an entry found there is final.
Find(t, f, k) ==
  IF t[Plain(k)] # NoEntry THEN ReadAt(f, t[Plain(k)], FALSE)
                           ELSE ReadAt(f, t[Comp(k)], TRUE)

\* The cache comes before the table.
GetEx(k) ==
  IF cache[Plain(k)] # None THEN cache[Plain(k)]
  ELSE IF cache[Comp(k)] # None THEN cache[Comp(k)]
  ELSE Find(table, file, k)

\* What a restart would find.
OnDisk(k) == Find(Replay(file), file, k)

-----------------------------------------------------------------------------
(* WriteRecord: append a record, return its offset or 0.                   *)

\* The outcomes of appending r to f.  A write that fwrite reports as short is
\* undone; a write that only fflush sees failing is reported as done.
Writes(f, r) ==
  {[to |-> Append(f, r), ok |-> TRUE]}
  \cup (IF "short_write" \in Faults THEN {[to |-> f, ok |-> FALSE]} ELSE {})
  \cup (IF "flush_loss" \in Faults
        THEN {[to |-> f, ok |-> TRUE], [to |-> Append(f, Torn(r, "head")), ok |-> TRUE]}
             \cup (IF r.val = None THEN {}
                   ELSE {[to |-> Append(f, Torn(r, "value")), ok |-> TRUE]})
        ELSE {})

\* Every write through the stream reopened with "rb" is short.
FileWrites(r) == IF mode = "ro" THEN {[to |-> file, ok |-> FALSE]} ELSE Writes(file, r)

-----------------------------------------------------------------------------
Init ==
  /\ file = <<>> /\ tmp = <<>> /\ tmpHeld = FALSE
  /\ mode = "closed"
  /\ table = EmptyTable /\ cache = EmptyCache /\ dirty = 0
  /\ op = NoOp /\ ret = "none"
  /\ expect = [k \in Keys |-> {None}] /\ reported = FALSE

\* ILibSimpleDataStore_CreateEx2: open the file and rebuild the table.  At this
\* point minimumDirtySize is still 0, so the legacy path always compacts.
Create ==
  /\ mode = "closed"
  /\ mode' = "rw"
  /\ file' \in Rebuilt(file)
  /\ table' = Replay(file)
  /\ dirty' = Cap(Cardinality(Superseded(file)))
  /\ reported' = FALSE
  /\ expect' = [k \in Keys |-> LET v == Find(table', file', k)
                               IN  IF v \in expect[k] \/ reported THEN {v} ELSE expect[k]]
  /\ UNCHANGED <<tmp, tmpHeld, cache, op, ret>>

\* ILibSimpleDataStore_Close, the agent's orderly exit.
Close ==
  /\ mode \in {"rw", "ro"} /\ op = NoOp
  /\ mode' = "closed" /\ tmpHeld' = FALSE
  /\ table' = EmptyTable /\ cache' = EmptyCache /\ dirty' = 0 /\ ret' = "none"
  /\ UNCHANGED <<file, tmp, op, expect, reported>>

\* PutEx2 and PutCompressed begin.  A store without a file only has its cache.
PutEx2(k, v, c) ==
  /\ mode # "closed" /\ op = NoOp
  /\ Len(file) < MaxLog
  /\ ret' = "none"
  /\ IF mode = "null"
     THEN /\ cache' = [cache EXCEPT ![<<k, c>>] = v]
          /\ expect' = [expect EXCEPT ![k] = {v}]
          /\ UNCHANGED op
     ELSE /\ op' = Op("put", <<k, c>>, v, {})
          /\ UNCHANGED <<cache, expect>>
  /\ UNCHANGED <<file, tmp, tmpHeld, mode, table, dirty, reported>>

\* A compressed put first deletes the plain entry of its key; the result of that
\* write is not looked at.
MustDeletePlain == Compressed(op.slot) /\ table[Plain(op.slot[1])] # NoEntry

PutDeletePlain ==
  /\ op.kind = "put" /\ MustDeletePlain
  /\ \E w \in FileWrites(Rec(Plain(op.slot[1]), None)) : file' = w.to
  /\ table' = [table EXCEPT ![Plain(op.slot[1])] = NoEntry]
  /\ UNCHANGED <<tmp, tmpHeld, mode, cache, dirty, op, ret, expect, reported>>

\* The value already in the table is not written again.
PutUnchanged ==
  /\ op.kind = "put" /\ ~MustDeletePlain
  /\ table[op.slot] # NoEntry /\ table[op.slot].hash = op.val
  /\ op' = NoOp
  /\ expect' = [expect EXCEPT ![op.slot[1]] = {op.val}]
  /\ UNCHANGED <<file, tmp, tmpHeld, mode, table, cache, dirty, ret, reported>>

\* The record is appended and entered in the table.
PutWrite ==
  /\ op.kind = "put" /\ ~MustDeletePlain
  /\ table[op.slot] = NoEntry \/ table[op.slot].hash # op.val
  /\ \E w \in FileWrites(Rec(op.slot, op.val)) :
       /\ w.ok
       /\ file' = w.to
  /\ table' = [table EXCEPT ![op.slot] = [off |-> Len(file) + 1, hash |-> op.val]]
  /\ dirty' = IF table[op.slot] = NoEntry THEN dirty ELSE Cap(dirty + 1)
  /\ op' = NoOp
  /\ expect' = [expect EXCEPT ![op.slot[1]] = {op.val}]
  /\ UNCHANGED <<tmp, tmpHeld, mode, cache, ret, reported>>

\* The record could not be written: it goes to the cache, and the file is reopened
\* read-only and replayed (ReOpenReadOnly).  A replay that finds no key compacts,
\* if it may, which opens the file for writing again.
PutWriteError ==
  /\ op.kind = "put" /\ ~MustDeletePlain
  /\ table[op.slot] = NoEntry \/ table[op.slot].hash # op.val
  /\ \E w \in FileWrites(Rec(op.slot, op.val)) : ~w.ok
  /\ cache' = [cache EXCEPT ![op.slot] = op.val]
  /\ table' = Replay(file)
  /\ LET d == Cap(dirty + (IF table[op.slot] = NoEntry THEN 0 ELSE 1)
                        + Cardinality(Superseded(file)))
     IN  /\ dirty' = d
         /\ IF Replay(file) = EmptyTable /\ d >= MinimumDirtySize /\ ~tmpHeld
            THEN file' = <<>> /\ mode' = "rw"
            ELSE file' = file /\ mode' = "ro"
  /\ op' = NoOp
  /\ expect' = [expect EXCEPT ![op.slot[1]] = {op.val}]
  /\ reported' = TRUE
  /\ UNCHANGED <<tmp, tmpHeld, ret>>

-----------------------------------------------------------------------------
(* DeleteEx: the plain entry if there is one, else the compressed one.     *)

DeleteEx(k) ==
  /\ mode # "closed" /\ op = NoOp
  /\ Len(file) < MaxLog
  /\ ret' = "none"
  /\ LET s == IF table[Plain(k)] # NoEntry THEN Plain(k) ELSE Comp(k)
     IN  IF table[s] = NoEntry
         THEN /\ expect' = [expect EXCEPT ![k] = {None}]   \* returns 0
              /\ UNCHANGED <<table, op>>
         ELSE /\ mode # "null"
              /\ table' = [table EXCEPT ![s] = NoEntry]
              /\ op' = Op("delete", s, None, {})
              /\ UNCHANGED expect
  /\ UNCHANGED <<file, tmp, tmpHeld, mode, cache, dirty, reported>>

\* Mutant of DeleteWrite: a deletion that could not be written is not reported.
DeleteUnreported ==
  /\ op.kind = "delete"
  /\ \E w \in FileWrites(Rec(op.slot, None)) : file' = w.to
  /\ op' = NoOp
  /\ expect' = [expect EXCEPT ![op.slot[1]] = {None}]
  /\ UNCHANGED <<tmp, tmpHeld, mode, table, cache, dirty, ret, reported>>

DeleteWrite ==
  /\ op.kind = "delete"
  /\ \E w \in FileWrites(Rec(op.slot, None)) :
       /\ file' = w.to
       /\ reported' = (reported \/ ~w.ok)
  /\ op' = NoOp
  /\ expect' = [expect EXCEPT ![op.slot[1]] = {None}]
  /\ UNCHANGED <<tmp, tmpHeld, mode, table, cache, dirty, ret>>

-----------------------------------------------------------------------------
(* Compact: copy the newest records to .db.tmp and rename it over .db.     *)

CompactRefused ==
  /\ mode \in {"rw", "ro"} /\ op = NoOp
  /\ dirty < MinimumDirtySize \/ tmpHeld
  /\ ret' = "error"
  /\ UNCHANGED <<file, tmp, tmpHeld, mode, table, cache, dirty, op, expect, reported>>

Compact ==
  /\ mode \in {"rw", "ro"} /\ op = NoOp
  /\ dirty >= MinimumDirtySize /\ ~tmpHeld
  /\ tmp' = <<>>
  /\ op' = Op("compact", None, None, {s \in Slots : table[s] # NoEntry})
  /\ ret' = "none"
  /\ UNCHANGED <<file, tmpHeld, mode, table, cache, dirty, expect, reported>>

\* The bytes an entry points at exist; otherwise the copy loop reads nothing, for
\* ever: neither its counter nor its exit depends on a read of zero bytes.
BytesAt(f, e) == \/ e.off \in 1 .. Len(f) /\ f[e.off].st \in {"whole", "bad"}
                 \/ e.off \in 1 .. (Len(f) - 1)

\* Mutant of CompactEntry: the entry keeps its offset in the old file.
CompactKeepsOffset(s) ==
  /\ op.kind = "compact" /\ s \in op.todo
  /\ BytesAt(file, table[s])
  /\ tmp' = Append(tmp, Rec(s, table[s].hash))
  /\ op' = [op EXCEPT !.todo = @ \ {s}]
  /\ UNCHANGED <<file, tmpHeld, mode, table, cache, dirty, ret, expect, reported>>

\* Compact_EnumerateSink for one key, in whatever order the table has them.  The
\* bytes are copied unchecked, and the entry's offset moves at once.
CompactEntry(s) ==
  /\ op.kind = "compact" /\ s \in op.todo
  /\ BytesAt(file, table[s])
  /\ LET copy == IF ReadAt(file, table[s], Compressed(s)) = None
                 THEN Torn(Rec(s, table[s].hash), "bad") ELSE Rec(s, table[s].hash)
     IN  \E w \in Writes(tmp, copy) :
           /\ IF w.ok
              THEN /\ tmp' = w.to
                   /\ table' = [table EXCEPT ![s].off = Len(tmp) + 1]
                   /\ op' = [op EXCEPT !.todo = @ \ {s}]
                   /\ UNCHANGED <<ret, tmpHeld>>
              ELSE \* root->error: the rest is skipped and Compact returns 0
                   /\ op' = NoOp /\ ret' = "ok" /\ tmpHeld' = TRUE /\ tmp' = <<>>
                   /\ UNCHANGED table
  /\ UNCHANGED <<file, mode, cache, dirty, expect, reported>>

CompactSpin(s) ==
  /\ op.kind = "compact" /\ s \in op.todo
  /\ ~BytesAt(file, table[s])
  /\ op' = Op("spin", None, None, {})
  /\ UNCHANGED <<file, tmp, tmpHeld, mode, table, cache, dirty, ret, expect, reported>>

\* Mutant of CompactSwap: the copy is renamed before every key is in it.
CompactSwapEarly ==
  /\ op.kind = "compact"
  /\ file' = tmp /\ mode' = "rw" /\ ret' = "ok" /\ op' = NoOp /\ tmp' = <<>>
  /\ UNCHANGED <<tmpHeld, table, cache, dirty, expect, reported>>

\* Close both files, rename, reopen for writing.
CompactSwap ==
  /\ op.kind = "compact" /\ op.todo = {}
  /\ \E renamed \in IF "rename" \in Faults THEN BOOLEAN ELSE {TRUE} :
     \E opened \in IF "reopen" \in Faults THEN BOOLEAN ELSE {TRUE} :
       /\ file' = IF renamed THEN tmp ELSE file
       /\ mode' = IF opened THEN "rw" ELSE "null"
       /\ ret' = IF renamed /\ opened THEN "ok" ELSE "error"
  /\ op' = NoOp /\ tmp' = <<>>
  /\ UNCHANGED <<tmpHeld, table, cache, dirty, expect, reported>>

-----------------------------------------------------------------------------
(* The process dies.                                                       *)

\* A restart may show the old or the new value of a key whose call was cut short.
Interrupted == IF op.kind \in {"put", "delete"}
               THEN [expect EXCEPT ![op.slot[1]] = @ \cup {op.val}] ELSE expect

Died ==
  /\ mode' = "closed" /\ tmpHeld' = FALSE /\ tmp' = <<>>
  /\ table' = EmptyTable /\ cache' = EmptyCache /\ dirty' = 0
  /\ op' = NoOp /\ ret' = "none"

\* A store whose file could not be reopened dies on the next use of its NULL stream.
Crash ==
  /\ "crash" \in Faults \/ mode = "null"
  /\ mode # "closed"
  /\ Died
  /\ expect' = Interrupted
  /\ UNCHANGED <<file, reported>>

\* The record a put or a delete is about to write.
NextRecord == IF op.kind = "put" /\ MustDeletePlain THEN Rec(Plain(op.slot[1]), None)
                                                    ELSE Rec(op.slot, op.val)

CrashInWrite ==
  /\ mode = "rw" /\ op.kind \in {"put", "delete"}
  /\ \E part \in {"head", "value"} :
       /\ IF part = "value" /\ Compressed(NextRecord.slot)
          THEN "tear_comp" \in Faults ELSE "tear" \in Faults
       /\ part = "value" => NextRecord.val # None
       /\ file' = Append(file, Torn(NextRecord, part))
  /\ Died
  /\ expect' = Interrupted
  /\ UNCHANGED reported

-----------------------------------------------------------------------------
Next ==
  \/ Create \/ Close
  \/ \E p \in Puts : PutEx2(p[1], p[2], p[3])
  \/ PutDeletePlain \/ PutUnchanged \/ PutWrite \/ PutWriteError
  \/ \E k \in Keys : DeleteEx(k)
  \/ DeleteWrite
  \/ CompactRefused \/ Compact
  \/ \E s \in Slots : CompactEntry(s) \/ CompactSpin(s)
  \/ CompactSwap
  \/ Crash \/ CrashInWrite

Spec == Init /\ [][Next]_vars

-----------------------------------------------------------------------------
(* Properties.                                                             *)

Ops == {NoOp} \cup [kind : {"put"}, slot : Slots, val : Values, todo : {{}}]
              \cup [kind : {"delete"}, slot : Slots, val : {None}, todo : {{}}]
              \cup [kind : {"compact", "spin"}, slot : {None}, val : {None}, todo : SUBSET Slots]

TypeOK ==
  /\ file \in Seq(Record) /\ tmp \in Seq(Record) /\ tmpHeld \in BOOLEAN
  /\ mode \in {"closed", "rw", "ro", "null"}
  /\ table \in [Slots -> Entry]
  /\ cache \in [Slots -> Values \cup {None}]
  /\ dirty \in 0 .. MinimumDirtySize
  /\ op \in Ops /\ ret \in {"none", "ok", "error"}
  /\ expect \in [Keys -> SUBSET (Values \cup {None})] /\ reported \in BOOLEAN

\* A caller can observe the store: it is open and no call is in progress.
Observable == mode \in {"rw", "ro"} /\ op = NoOp

\* Get returns what the last acknowledged put or delete of the key left there, also
\* after compactions and after restarts, orderly or not; only a call that a crash
\* cut short may show its old or its new value (PutEx2, GetEx, RebuildKeyTable).
ReadYourWrites == Observable => \A k \in Keys : GetEx(k) \in expect[k]

\* While no call is changing it, the table in memory is the one that replaying the
\* file would build (the comment on RebuildKeyTable), so a restart changes nothing.
TableIsReplay ==
  mode \in {"rw", "ro"} /\ op.kind \notin {"compact", "delete"} => table = Replay(file)

Clean(f)    == \A i \in 1 .. Len(f) : f[i].st = "whole"
TornTail(f) == /\ Len(f) > 0 /\ Stops(f[Len(f)])
               /\ \A i \in 1 .. (Len(f) - 1) : f[i].st = "whole"

\* The inductive form of TableIsReplay, for stores that only meet crashes and torn
\* plain records: a closed file may end in one torn record, an open one has none; a
\* delete is ahead of the file by one record; and in a compaction the entries already
\* copied are those a replay of .db.tmp would build (Compact_EnumerateSink).
TableInv ==
  /\ mode \in {"closed", "rw"} /\ op.kind # "spin"
  /\ mode = "closed" => op = NoOp /\ (Clean(file) \/ TornTail(file))
  /\ mode = "rw" => Clean(file)
  /\ mode = "rw" /\ op.kind \in {"idle", "put"} => table = Replay(file)
  /\ op.kind = "delete" => table = [Replay(file) EXCEPT ![op.slot] = NoEntry]
  /\ op.kind = "compact" =>
       /\ Clean(tmp)
       /\ \A s \in Slots : IF s \in op.todo THEN table[s] = Replay(file)[s] /\ table[s] # NoEntry
                                            ELSE table[s] = Replay(tmp)[s]

\* As long as the write-error handler has not been called, whatever was acknowledged
\* is in the file: no acknowledged change is silently kept in memory only.
LossReported == Observable /\ ~reported => \A k \in Keys : OnDisk(k) \in expect[k]

\* Whatever goes wrong with the file, Get never returns a value that was not put
\* under the key it is asked for: every read is checked against the entry's hash.
NoForeignValue ==
  Observable => \A k \in Keys : GetEx(k) # None => \E c \in BOOLEAN : <<k, GetEx(k), c>> \in Puts

\* "Return 1 if we got an error, 0 if everything finished correctly": after a Compact
\* that returned 0 every entry of the table can still be read.
CompactReturnIsTrue ==
  Observable /\ ret = "ok" =>
    \A s \in Slots : table[s] # NoEntry => ReadAt(file, table[s], Compressed(s)) # None

\* Compact comes back: its copy loop never waits for bytes the file does not have.
CompactReturns == op.kind # "spin"

\* The store seen as a map from keys to values: in a compaction, and when closed, the
\* map is the one the file holds.
View == [k \in Keys |-> IF mode = "closed" \/ op.kind \in {"compact", "spin", "delete"}
                        THEN OnDisk(k) ELSE GetEx(k)]

KV == INSTANCE KeyValueMap WITH map <- View

\* Every step of the store, crashes, restarts and every step of a compaction included,
\* changes at most one key, by one of the puts callers make or by a delete.
RefinesMap == KV!Spec

=============================================================================

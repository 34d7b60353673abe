----------------------------- MODULE Timers_proofs -----------------------------
(***************************************************************************)
(* Proofs about the timers of the chain, for any number of timers, keys,   *)
(* nested loops and for any length of a second: TypeOK, FiresOnce,         *)
(* RemovalReaches and NoOversleep are invariants of Spec.                  *)
(***************************************************************************)
EXTENDS Timers, TLAPS, NaturalsInduction, WellFoundedInduction, SequenceTheorems

-----------------------------------------------------------------------------
(* The inductive invariants.                                               *)

Pcs == {"top", "drain", "test", "scan", "fire", "call", "pre", "sleep", "post", "destroy",
        "stopped"}

LoopFrame == [pc : Pcs, wait : Waits, tick : Nat, at : Nat, queue : SUBSET Timer,
              fires : SUBSET Timer, until : Nat, took : Nat, missed : SUBSET Timer]

\* The call of the other thread, and the room that the bounds leave for its timer.
OtherOK ==
  /\ \/ other = Idle
     \/ other \in [pc : {"defer"}, key : Keys, ms : Delays \cup {-1}]
     \/ other \in [pc : {"insert"}, key : Keys, ms : Delays]
     \/ other \in [pc : {"count"}, ms : {-1}, timer : Timer]
  /\ other.ms # -1 => adds < MaxAdds

\* A loop that runs another one inside it is in a callback or in a handler.
InnerOK == \A i \in 1 .. top : i # top => loops[i].pc \in {"call", "post"}

\* Timers are in a loop's queue only while it fires them.
BusyOK ==
  \A i \in 1 .. top :
    /\ loops[i].pc \notin {"fire", "call"} => loops[i].queue = {}
    /\ loops[i].pc # "call" => loops[i].fires = {}

\* ActiveList points to the queue of a loop that is inside ILibLifeTime_Check.
ActiveOK == active # 0 => loops[active].pc \in {"scan", "fire", "call"}

\* No loop has read the clock in the future.
AtOK == \A i \in 1 .. top : loops[i].at <= now

\* What is somewhere has been added.
KnownOK == \A p \in Places : \A t \in At(p) : t.id \in 1 .. adds

TypeInv == TypeOK /\ OtherOK /\ InnerOK /\ BusyOK /\ ActiveOK /\ AtOK /\ KnownOK

\* What is somewhere has not ended.
Pending == \A p \in Places : \A t \in At(p) : t.id \notin ended

\* No two timers have one id, and none is in two places.
Unique ==
  \A p, q \in Places : \A t \in At(p), u \in At(q) : t.id = u.id => t = u /\ p = q

\* What has not ended is somewhere.
Present == \A id \in (1 .. adds) \ ended : \E p \in Places : id \in Ids(At(p))

\* A removed timer is neither in the list nor in the queue that ActiveList points to.
Reached == \A p \in {0, active} : \A t \in At(p) : t.id \notin removed

PlaceInv == Pending /\ Unique /\ Present /\ Reached

\* The clock's reading is less than a second early or late.
TickOK == \A t \in list : t.tick < t.due + Second

\* NextTriggerTick is not later than any timer, except during the search and for a timer
\* that the other thread is putting in.
NextOK == loop.pc # "scan" => \A t \in list \ Uncounted : next # -1 /\ next <= t.tick

ClockOK ==
  \A i \in 1 .. top :
    /\ loops[i].pc \in {"test", "scan"} => loops[i].at = now
    /\ loops[i].pc \in {"test", "scan", "fire", "call"} => loops[i].at < loops[i].tick + Second
    /\ loops[i].pc \in {"fire", "call"} => \A t \in list : loops[i].at < t.due + 2 * Second

\* A loop that goes to sleep or sleeps, unless it will be woken.
SleepOK ==
  loop.pc \in {"pre", "sleep"} /\ ~pipe =>
    /\ \A t \in list : Hidden(t) \/ loop.until <= t.due + 3 * Second + loop.took
    /\ \/ loop.until <= now + Second
       \/ \A t \in list : Hidden(t) \/ loop.until < t.tick + Second + loop.took

TimeInv == TickOK /\ NextOK /\ ClockOK /\ SleepOK

-----------------------------------------------------------------------------
(* Naturals, the clock and NextTriggerTick.                                *)

\* Every non-empty set of naturals has a least element.
LEMMA Least ==
  ASSUME NEW S \in SUBSET Nat, S # {}
  PROVE  \E n \in S : \A m \in S : n <= m
<1> DEFINE R == OpToRel(<, Nat)
<1>1. IsWellFoundedOn(R, Nat)
  BY NatLessThanWellFounded
<1>2. \A m, n \in Nat : n < m => <<n, m>> \in R
  BY DEF OpToRel
<1> HIDE DEF R
<1>3. PICK n \in S : \A m \in S : ~(<<m, n>> \in R)
  BY <1>1, WFMin
<1>4. \A m \in S : ~(m < n)
  BY <1>2, <1>3
<1> QED
  BY <1>3, <1>4

\* A reading of the clock is within a second of the time.
LEMMA Reading ==
  ASSUME now \in Nat, NEW r \in ILibGetUptime
  PROVE  r \in Nat /\ r < now + Second /\ now < r + Second
<1> DEFINE q == (now \div Second) * Second
<1>1. Second \in Nat \ {0}
  BY TimersAssumption
<1>2. q \in Nat /\ q <= now /\ now < q + Second
  BY <1>1
<1>3. PICK x \in 0 .. (Second - 1) : r = q + x
  BY DEF ILibGetUptime
<1> HIDE DEF q
<1> QED
  BY <1>1, <1>2, <1>3

\* NextTriggerTick after the search is no later than any timer that is left, and is none
\* only if nothing is left.
LEMMA NextAfterSearch ==
  ASSUME NEW s \in SUBSET Timer, next \in Nat \cup {-1}
  PROVE  /\ NextOf(s) \in Nat \cup {-1}
         /\ \A t \in s : NextOf(s) # -1 /\ NextOf(s) <= t.tick
<1>1. NextTicks(s) \in SUBSET Nat
  BY DEF NextTicks, Timer
<1>2. CASE NextTicks(s) = {}
  <2>1. s = {}
    BY <1>2 DEF NextTicks
  <2> QED
    BY <1>2, <2>1 DEF NextOf
<1>3. CASE NextTicks(s) # {}
  <2>1. NextOf(s) \in NextTicks(s) /\ \A m \in NextTicks(s) : NextOf(s) <= m
    BY <1>1, <1>3, Least DEF NextOf
  <2>2. \A t \in s : t.tick \in NextTicks(s)
    BY DEF NextTicks
  <2> QED
    BY <1>1, <2>1, <2>2
<1> QED
  BY <1>2, <1>3

-----------------------------------------------------------------------------
(* How the loops change.                                                   *)

\* The innermost loop has become f and the others are as they were.
TopIs(f) ==
  /\ loops' \in Seq(LoopFrame) /\ top' = top /\ loops'[top] = f /\ loop' = f
  /\ \A i \in 1 .. top : i # top => loops'[i] = loops[i]

\* There is a loop, and it is a frame.
LEMMA LoopType ==
  ASSUME TypeOK
  PROVE  /\ loops \in Seq(LoopFrame) /\ top \in Nat \ {0} /\ loop \in LoopFrame
         /\ \A i \in 1 .. top : loops[i] \in LoopFrame
<1>1. loops \in Seq(LoopFrame)
  BY DEF TypeOK, LoopFrame, Pcs
<1>2. top \in Nat \ {0}
  BY <1>1 DEF TypeOK, top
<1> QED
  BY <1>1, <1>2 DEF loop, top

LEMMA TopChanged ==
  ASSUME TypeOK, NEW f \in LoopFrame, loops' = [loops EXCEPT ![top] = f]
  PROVE  TopIs(f)
BY LoopType DEF TopIs, top, loop

\* What a step of the innermost loop does to it.
LEMMA GotoTop ==
  ASSUME TypeOK, NEW p \in Pcs, Goto(p)
  PROVE  TopIs([loop EXCEPT !.pc = p])
<1>1. [loop EXCEPT !.pc = p] \in LoopFrame
  BY LoopType DEF LoopFrame
<1>2. loops' = [loops EXCEPT ![top] = [loop EXCEPT !.pc = p]]
  BY LoopType DEF Goto, loop
<1> QED
  BY <1>1, <1>2, TopChanged

LEMMA FrameType ==
  ASSUME NEW p \in Pcs, NEW w \in Waits
  PROVE  Frame(p, w) \in LoopFrame
BY DEF Frame, LoopFrame

LEMMA WakeTop ==
  ASSUME TypeOK, Wake \/ WakeByOther
  PROVE  TopIs(Frame("post", loop.wait))
<1>1. Frame("post", loop.wait) \in LoopFrame
  BY LoopType, FrameType DEF LoopFrame, Pcs
<1> QED
  BY <1>1, TopChanged DEF Wake, WakeByOther

LEMMA ReadClockTop ==
  ASSUME TypeOK, ReadClock
  PROVE  \E r \in ILibGetUptime : TopIs([loop EXCEPT !.pc = "test", !.tick = r, !.at = now])
<1>1. PICK r \in ILibGetUptime :
        loops' = [loops EXCEPT ![top].pc = "test", ![top].tick = r, ![top].at = now]
  BY DEF ReadClock
<1> DEFINE f == [loop EXCEPT !.pc = "test", !.tick = r, !.at = now]
<1>2. r \in Nat /\ now \in Nat
  BY Reading DEF TypeOK
<1>3. f \in LoopFrame
  BY <1>2, LoopType DEF LoopFrame, Pcs
<1>4. loops' = [loops EXCEPT ![top] = f]
  BY <1>1, LoopType DEF loop
<1> QED
  BY <1>3, <1>4, TopChanged

\* What a loop misses is a timer.
LEMMA MissedType ==
  ASSUME TypeInv
  PROVE  Missed \in SUBSET Timer /\ Uncounted \in SUBSET Timer
<1>1. CASE other.pc = "count"
  <2>1. other \in [pc : {"count"}, ms : {-1}, timer : Timer]
    BY <1>1 DEF TypeInv, OtherOK, Idle
  <2>2. other.timer \in Timer
    BY <2>1
  <2> QED
    BY <2>2 DEF Missed, Uncounted
<1>2. CASE other.pc # "count"
  BY <1>2 DEF Missed, Uncounted
<1> QED
  BY <1>1, <1>2

LEMMA SkipTop ==
  ASSUME TypeInv, Skip
  PROVE  TopIs([loop EXCEPT !.pc = "pre", !.took = 0, !.tick = 0, !.at = 0,
                            !.until = now + (next - loop.tick), !.missed = Missed])
<1> DEFINE f == [loop EXCEPT !.pc = "pre", !.took = 0, !.tick = 0, !.at = 0,
                             !.until = now + (next - loop.tick), !.missed = Missed]
<1>0. TypeOK
  BY DEF TypeInv
<1>1. loop.tick \in Nat /\ now + (next - loop.tick) \in Nat
  BY <1>0, LoopType DEF LoopFrame, TypeOK, Skip, Skips
<1>2. f \in LoopFrame
  BY <1>0, <1>1, LoopType, MissedType DEF LoopFrame, Pcs
<1>3. loops' = [loops EXCEPT ![top] = f]
  BY <1>0, LoopType DEF Skip, loop
<1> QED
  BY <1>0, <1>2, <1>3, TopChanged

LEMMA NoSkipTop ==
  ASSUME TypeOK, NoSkip
  PROVE  TopIs([loop EXCEPT !.pc = "scan", !.queue = {}])
<1> DEFINE f == [loop EXCEPT !.pc = "scan", !.queue = {}]
<1>1. f \in LoopFrame
  BY LoopType DEF LoopFrame, Pcs
<1>2. loops' = [loops EXCEPT ![top] = f]
  BY LoopType DEF NoSkip, loop
<1> QED
  BY <1>1, <1>2, TopChanged

LEMMA ScanTop ==
  ASSUME TypeOK, Scan
  PROVE  TopIs([loop EXCEPT !.pc = "fire", !.queue = {t \in list : Due(t, loop.tick)}])
<1> DEFINE f == [loop EXCEPT !.pc = "fire", !.queue = {t \in list : Due(t, loop.tick)}]
<1>1. {t \in list : Due(t, loop.tick)} \in SUBSET Timer
  BY DEF TypeOK
<1>2. f \in LoopFrame
  BY <1>1, LoopType DEF LoopFrame, Pcs
<1>3. loops' = [loops EXCEPT ![top] = f]
  BY LoopType DEF Scan, loop
<1> QED
  BY <1>2, <1>3, TopChanged

LEMMA FireTop ==
  ASSUME TypeOK, Fire
  PROVE  \E t \in loop.queue :
           TopIs([loop EXCEPT !.pc = "call", !.queue = loop.queue \ {t}, !.fires = {t}])
<1>1. PICK t \in loop.queue :
        loops' = [loops EXCEPT ![top].pc = "call", ![top].queue = @ \ {t}, ![top].fires = {t}]
  BY DEF Fire
<1> DEFINE f == [loop EXCEPT !.pc = "call", !.queue = loop.queue \ {t}, !.fires = {t}]
<1>2. loop.queue \ {t} \in SUBSET Timer /\ {t} \in SUBSET Timer
  BY LoopType DEF LoopFrame
<1>3. f \in LoopFrame
  BY <1>2, LoopType DEF LoopFrame, Pcs
<1>4. loops' = [loops EXCEPT ![top] = f]
  BY <1>1, LoopType DEF loop
<1> QED
  BY <1>3, <1>4, TopChanged

LEMMA ReturnTop ==
  ASSUME TypeOK, Return
  PROVE  TopIs([loop EXCEPT !.pc = "fire", !.fires = {}])
<1> DEFINE f == [loop EXCEPT !.pc = "fire", !.fires = {}]
<1>1. f \in LoopFrame
  BY LoopType DEF LoopFrame, Pcs
<1>2. loops' = [loops EXCEPT ![top] = f]
  BY LoopType DEF Return, loop
<1> QED
  BY <1>1, <1>2, TopChanged

LEMMA BlockTimeType ==
  ASSUME TypeOK
  PROVE  BlockTime(loop.wait) \in Nat
<1>1. Second \in Nat /\ Waits \subseteq Nat
  BY TimersAssumption
<1>2. loop.wait \in Nat /\ loop.tick \in Nat /\ next \in Nat \cup {-1}
  BY <1>1, LoopType DEF LoopFrame, TypeOK
<1> QED
  BY <1>1, <1>2 DEF BlockTime

LEMMA EndCheckTop ==
  ASSUME TypeInv, EndCheck
  PROVE  TopIs([loop EXCEPT !.pc = "pre", !.took = now - loop.at, !.tick = 0, !.at = 0,
                            !.until = now + BlockTime(loop.wait), !.missed = Missed])
<1> DEFINE f == [loop EXCEPT !.pc = "pre", !.took = now - loop.at, !.tick = 0, !.at = 0,
                             !.until = now + BlockTime(loop.wait), !.missed = Missed]
<1>0. TypeOK /\ AtOK
  BY DEF TypeInv
<1>1. loop.at \in Nat /\ loop.at <= now /\ now \in Nat
  BY <1>0, LoopType DEF LoopFrame, TypeOK, AtOK, loop
<1>2. now - loop.at \in Nat /\ now + BlockTime(loop.wait) \in Nat
  BY <1>0, <1>1, BlockTimeType
<1>3. f \in LoopFrame
  BY <1>0, <1>2, LoopType, MissedType DEF LoopFrame, Pcs
<1>4. loops' = [loops EXCEPT ![top] = f]
  BY <1>0, LoopType DEF EndCheck, loop
<1> QED
  BY <1>0, <1>3, <1>4, TopChanged

\* An inner loop begins, and ends.
LEMMA ContinueTop ==
  ASSUME TypeOK, NEW w \in Waits, Continue(w)
  PROVE  /\ loops' \in Seq(LoopFrame) /\ top' = top + 1 /\ loops'[top + 1] = Frame("drain", w)
         /\ \A i \in 1 .. top : loops'[i] = loops[i]
<1>1. Frame("drain", w) \in LoopFrame
  BY FrameType DEF Pcs
<1> QED
  BY <1>1, LoopType DEF Continue, top

LEMMA LeaveTop ==
  ASSUME TypeOK, LeaveContinue
  PROVE  /\ loops' \in Seq(LoopFrame) /\ top' = top - 1 /\ top > 1
         /\ \A i \in 1 .. top - 1 : loops'[i] = loops[i]
BY LoopType, SubSeqProperties DEF LeaveContinue, top

\* ILibLifeTime_Remove takes timers out of the queue that ActiveList points to.
LEMMA RemoveTop ==
  ASSUME TypeOK, NEW k, RemoveHere(k, loops)
  PROVE  /\ loops' \in Seq(LoopFrame) /\ top' = top
         /\ \A i \in 1 .. top :
              loops'[i] = IF i = active THEN [loops[i] EXCEPT !.queue = Without(loops[i].queue, k)]
                          ELSE loops[i]
<1>1. CASE active = 0
  BY <1>1, LoopType DEF RemoveHere, top
<1>2. CASE active # 0
  <2> DEFINE f == [loops[active] EXCEPT !.queue = Without(loops[active].queue, k)]
  <2>1. active \in 1 .. top
    BY <1>2, LoopType DEF TypeOK
  <2>2. loops[active] \in LoopFrame
    BY <2>1, LoopType
  <2>3. Without(loops[active].queue, k) \in SUBSET Timer
    BY <2>2 DEF Without, LoopFrame
  <2>4. f \in LoopFrame
    BY <2>2, <2>3 DEF LoopFrame
  <2>5. loops' = [loops EXCEPT ![active] = f]
    BY <1>2, <2>1 DEF RemoveHere
  <2> HIDE DEF f
  <2>6. loops' \in Seq(LoopFrame) /\ top' = top
        /\ \A i \in 1 .. top : loops'[i] = IF i = active THEN f ELSE loops[i]
    BY <2>1, <2>4, <2>5, LoopType DEF top
  <2> QED
    BY <2>6 DEF f
<1> QED
  BY <1>1, <1>2

-----------------------------------------------------------------------------
(* Where the timers are after a step.                                      *)

LEMMA PlacesType ==
  ASSUME TypeOK
  PROVE  /\ \A p \in Places : p \in Int /\ At(p) \in SUBSET Timer
         /\ 0 \in Places /\ top \in Places /\ -top \in Places /\ active \in Places
<1>1. \A p \in Places : p \in Int
  BY LoopType DEF Places
<1>2. \A p \in Places : At(p) \in SUBSET Timer
  <2> SUFFICES ASSUME NEW p \in Places PROVE At(p) \in SUBSET Timer
    OBVIOUS
  <2>1. CASE p = 0
    BY <2>1 DEF At, TypeOK
  <2>2. CASE p > 0
    <3>1. loops[p] \in LoopFrame
      BY <2>2, LoopType DEF Places
    <3> QED
      BY <2>2, <3>1, <1>1 DEF At, LoopFrame
  <2>3. CASE p < 0
    <3>1. loops[-p] \in LoopFrame
      BY <2>3, LoopType DEF Places
    <3> QED
      BY <2>3, <3>1, <1>1 DEF At, LoopFrame
  <2> QED
    BY <1>1, <2>1, <2>2, <2>3
<1> QED
  BY <1>1, <1>2, LoopType DEF Places, TypeOK

LEMMA TopPlaces ==
  ASSUME TypeOK, NEW f, TopIs(f)
  PROVE  /\ Places' = Places
         /\ \A p \in Places : At(p)' = IF p = 0 THEN list'
                                       ELSE IF p = top THEN f.queue
                                       ELSE IF p = -top THEN f.fires ELSE At(p)
<1>1. Places' = Places
  BY DEF Places, TopIs
<1>2. ASSUME NEW p \in Places
      PROVE  At(p)' = IF p = 0 THEN list'
                      ELSE IF p = top THEN f.queue
                      ELSE IF p = -top THEN f.fires ELSE At(p)
  <2>1. CASE p = 0
    BY <2>1 DEF At
  <2>2. CASE p > 0
    BY <2>2, LoopType DEF Places, TopIs, At
  <2>3. CASE p < 0
    BY <2>3, LoopType DEF Places, TopIs, At
  <2> QED
    BY <2>1, <2>2, <2>3, PlacesType
<1> QED
  BY <1>1, <1>2

LEMMA SamePlaces ==
  ASSUME TypeOK, UNCHANGED loops
  PROVE  /\ Places' = Places
         /\ \A p \in Places : At(p)' = IF p = 0 THEN list' ELSE At(p)
BY PlacesType DEF Places, At, top

LEMMA RemovePlaces ==
  ASSUME TypeOK, NEW k, RemoveHere(k, loops)
  PROVE  /\ Places' = Places
         /\ \A p \in Places : At(p)' = IF p = 0 THEN list'
                                       ELSE IF p = active THEN Without(At(p), k) ELSE At(p)
<1>1. Places' = Places
  BY RemoveTop DEF Places
<1>2. ASSUME NEW p \in Places
      PROVE  At(p)' = IF p = 0 THEN list'
                      ELSE IF p = active THEN Without(At(p), k) ELSE At(p)
  <2>1. CASE p = 0
    BY <2>1 DEF At
  <2>2. CASE p > 0
    <3>1. p \in 1 .. top /\ loops[p] \in LoopFrame
      BY <2>2, LoopType DEF Places
    <3>2. loops'[p].queue = IF p = active THEN Without(loops[p].queue, k) ELSE loops[p].queue
      <4> DEFINE q == Without(loops[p].queue, k)
      <4>1. loops'[p] = IF p = active THEN [loops[p] EXCEPT !.queue = q] ELSE loops[p]
        BY <3>1, RemoveTop
      <4> HIDE DEF q
      <4>2. [loops[p] EXCEPT !.queue = q].queue = q
        BY <3>1 DEF LoopFrame
      <4> QED
        BY <4>1, <4>2 DEF q
    <3>3. At(p) = loops[p].queue /\ At(p)' = loops'[p].queue
      BY <2>2, PlacesType DEF At
    <3> QED
      BY <2>2, <3>1, <3>2, <3>3
  <2>3. CASE p < 0
    <3>1. -p \in 1 .. top /\ loops[-p] \in LoopFrame
      BY <2>3, LoopType DEF Places
    <3>2. loops'[-p].fires = loops[-p].fires
      BY <3>1, RemoveTop DEF LoopFrame
    <3> QED
      BY <2>3, <3>1, <3>2, PlacesType DEF At, TypeOK
  <2> QED
    BY <2>1, <2>2, <2>3, PlacesType
<1> QED
  BY <1>1, <1>2

LEMMA ContinuePlaces ==
  ASSUME TypeOK, NEW w \in Waits, Continue(w)
  PROVE  /\ Places \subseteq Places'
         /\ \A p \in Places' : At(p)' = IF p \in Places THEN At(p) ELSE {}
<1>0. /\ Frame("drain", w).queue = {} /\ Frame("drain", w).fires = {}
      /\ loops'[top + 1] = Frame("drain", w)
      /\ \A i \in 1 .. top : loops'[i] = loops[i]
  BY ContinueTop DEF Frame
<1>1. Places' = -(top + 1) .. top + 1 /\ Places = -top .. top
  BY ContinueTop, LoopType DEF Places
<1>2. ASSUME NEW p \in Places' PROVE At(p)' = IF p \in Places THEN At(p) ELSE {}
  <2>1. CASE p = 0
    BY <2>1, <1>1, LoopType DEF At, Continue, shared
  <2>2. CASE p > 0
    <3>1. p = top + 1 => loops'[p].queue = {}
      BY <1>0
    <3>2. p \in 1 .. top \/ p = top + 1
      BY <2>2, <1>1, LoopType
    <3> QED
      <4>1. At(p)' = loops'[p].queue /\ At(p) = loops[p].queue
        BY <2>2 DEF At
      <4>2. p \in Places <=> p \in 1 .. top
        BY <2>2, <3>2, <1>1, LoopType
      <4> QED
        BY <4>1, <4>2, <3>1, <3>2, <1>0
  <2>3. CASE p < 0
    <3>1. -p = top + 1 => loops'[-p].fires = {}
      BY <1>0
    <3>2. -p \in 1 .. top \/ -p = top + 1
      BY <2>3, <1>1, LoopType
    <3> QED
      <4>1. At(p)' = loops'[-p].fires /\ At(p) = loops[-p].fires
        BY <2>3, <1>1, LoopType DEF At
      <4>2. p \in Places <=> -p \in 1 .. top
        BY <2>3, <3>2, <1>1, LoopType
      <4> QED
        BY <4>1, <4>2, <3>1, <3>2, <1>0
  <2> QED
    BY <2>1, <2>2, <2>3, <1>1, LoopType
<1> QED
  BY <1>1, <1>2, LoopType

LEMMA LeavePlaces ==
  ASSUME TypeOK, BusyOK, LeaveContinue
  PROVE  /\ Places' \subseteq Places
         /\ \A p \in Places' : At(p)' = At(p)
         /\ \A p \in Places \ Places' : At(p) = {}
<1>1. Places' = -(top - 1) .. top - 1 /\ Places = -top .. top
  BY LeaveTop, LoopType DEF Places
<1>2. ASSUME NEW p \in Places' PROVE At(p)' = At(p)
  BY <1>1, LoopType, LeaveTop DEF At, LeaveContinue, shared
<1>3. ASSUME NEW p \in Places \ Places' PROVE At(p) = {}
  <2>1. p = top \/ p = -top
    BY <1>1, LoopType
  <2>2. loops[top].queue = {} /\ loops[top].fires = {}
    BY LoopType DEF BusyOK, LeaveContinue, loop
  <2> QED
    BY <2>1, <2>2, LoopType DEF At
<1> QED
  BY <1>1, <1>2, <1>3, LoopType

-----------------------------------------------------------------------------
(* TypeInv is inductive.                                                   *)

\* A frame that the innermost loop may have become.
CalmTop(f) ==
  /\ f.pc \notin {"fire", "call"} => f.queue = {}
  /\ f.pc # "call" => f.fires = {}
  /\ f.at <= now
  /\ active' \in {0, active} \/ (active' = top /\ f.queue = {})
  /\ active' = top => f.pc \in {"scan", "fire", "call"}

\* Every timer stays where it is, and ActiveList comes to point to nothing new.
SameTimers ==
  /\ Places' = Places
  /\ \A p \in Places : At(p)' = At(p)
  /\ active' \in {0, active} \/ (active' = top /\ At(top) = {})
  /\ UNCHANGED <<list, adds, removed, ended>>

LEMMA TopFacts ==
  ASSUME TypeInv
  PROVE  /\ loop.pc \notin {"fire", "call"} => loop.queue = {}
         /\ loop.pc # "call" => loop.fires = {}
         /\ loop.at <= now /\ loop.at \in Nat /\ now \in Nat
         /\ active = top => loop.pc \in {"scan", "fire", "call"}
         /\ active \in 0 .. top
         /\ At(0) = list /\ At(top) = loop.queue /\ At(-top) = loop.fires
<1>1. TypeOK
  BY DEF TypeInv
<1>2. top \in Nat \ {0} /\ loop = loops[top] /\ loop \in LoopFrame
  BY <1>1, LoopType DEF loop
<1>3. /\ loop.pc \notin {"fire", "call"} => loop.queue = {}
      /\ loop.pc # "call" => loop.fires = {}
  BY <1>2 DEF TypeInv, BusyOK
<1>4. loop.at <= now /\ loop.at \in Nat /\ now \in Nat
  BY <1>2 DEF TypeInv, AtOK, LoopFrame, TypeOK
<1>5. active = top => loop.pc \in {"scan", "fire", "call"}
  BY <1>2 DEF TypeInv, ActiveOK
<1>6. active \in 0 .. top
  BY <1>1 DEF TypeOK
<1>7. At(0) = list /\ At(top) = loop.queue /\ At(-top) = loop.fires
  BY <1>2 DEF At
<1> QED
  BY <1>3, <1>4, <1>5, <1>6, <1>7

\* A step that changes the loops and little else.
LEMMA TypeKept ==
  ASSUME TypeOK, loops' \in Seq(LoopFrame), top' \in 1 .. use.depth, active' \in 0 .. top',
         use' = use, now' \in Nat, list' \subseteq Timer, next' \in Nat \cup {-1},
         deletes' \in Seq(Keys), pipe' \in BOOLEAN, stop' \in BOOLEAN,
         cont' \in {"inactive", "continue", "end"},
         adds' \in 0 .. MaxAdds, removed' \subseteq 1 .. adds', ended' \subseteq 1 .. adds'
  PROVE  TypeOK'
<1>1. loops' \in Seq([pc : {"top", "drain", "test", "scan", "fire", "call", "pre", "sleep",
                            "post", "destroy", "stopped"},
                      wait : Waits, tick : Nat, at : Nat, queue : SUBSET Timer,
                      fires : SUBSET Timer, until : Nat, took : Nat, missed : SUBSET Timer])
  BY DEF LoopFrame, Pcs
<1> QED
  BY <1>1 DEF TypeOK

LEMMA CalmFrames ==
  ASSUME TypeOK, InnerOK, BusyOK, ActiveOK, AtOK,
         NEW f, TopIs(f), CalmTop(f), now' = now
  PROVE  InnerOK' /\ BusyOK' /\ ActiveOK' /\ AtOK'
<1>1. InnerOK'
  BY LoopType DEF InnerOK, TopIs
<1>2. BusyOK'
  BY LoopType DEF BusyOK, TopIs, CalmTop
<1>3. ActiveOK'
  <2>1. active \in 0 .. top
    BY DEF TypeOK
  <2> QED
    BY <2>1, LoopType DEF ActiveOK, TopIs, CalmTop
<1>4. AtOK'
  BY LoopType DEF AtOK, TopIs, CalmTop
<1> QED
  BY <1>1, <1>2, <1>3, <1>4

\* Every timer that is somewhere was somewhere, or is the one that was added.
LEMMA KnownKept ==
  ASSUME KnownOK, adds \in Nat,
         \/ adds' = adds
         \/ adds' = adds + 1,
         \A p \in Places' : \A t \in At(p)' :
           \/ \E q \in Places : t \in At(q)
           \/ adds' = adds + 1 /\ t.id = adds + 1
  PROVE  KnownOK'
<1> SUFFICES ASSUME NEW p \in Places', NEW t \in At(p)' PROVE t.id \in 1 .. adds'
  BY DEF KnownOK
<1>1. CASE \E q \in Places : t \in At(q)
  <2>1. t.id \in 1 .. adds
    BY <1>1 DEF KnownOK
  <2> QED
    BY <2>1
<1> QED
  BY <1>1

\* Steps of the innermost loop that touch no timer.
LEMMA CalmStep ==
  ASSUME TypeInv, NEW f, TopIs(f), CalmTop(f), f.queue = loop.queue, f.fires = loop.fires,
         next' \in Nat \cup {-1}, pipe' \in BOOLEAN,
         cont' \in {"inactive", "continue", "end"},
         UNCHANGED <<use, now, list, deletes, stop, other, adds, removed, ended>>
  PROVE  TypeInv' /\ SameTimers
<1>1. TypeOK'
  <2>1. loops' \in Seq(LoopFrame) /\ top' = top /\ active' \in 0 .. top
    BY LoopType, TopFacts DEF TopIs, CalmTop, TypeInv
  <2>2. TypeOK
    BY DEF TypeInv
  <2>3. /\ top \in 1 .. use.depth /\ use' = use /\ now' \in Nat /\ list' \subseteq Timer
        /\ deletes' \in Seq(Keys) /\ stop' \in BOOLEAN
        /\ adds' \in 0 .. MaxAdds /\ removed' \subseteq 1 .. adds' /\ ended' \subseteq 1 .. adds'
    BY <2>2 DEF TypeOK
  <2> QED
    BY <2>1, <2>2, <2>3, TypeKept
<1>2. InnerOK' /\ BusyOK' /\ ActiveOK' /\ AtOK'
  BY CalmFrames DEF TypeInv
<1>3. OtherOK'
  BY DEF TypeInv, OtherOK, Idle
<1>4. Places' = Places /\ \A p \in Places : At(p)' = At(p)
  BY TopFacts, TopPlaces DEF TypeInv
<1>5. KnownOK'
  BY <1>4, KnownKept DEF TypeInv, TypeOK
<1>6. SameTimers
  BY <1>4, TopFacts DEF SameTimers, CalmTop
<1> QED
  BY <1>1, <1>2, <1>3, <1>5, <1>6 DEF TypeInv

LEMMA CalmSteps ==
  ASSUME TypeInv,
         \/ Round \/ LeaveChain \/ Sleep \/ Wake \/ WakeByOther \/ EndRound
         \/ ReadClock \/ Skip \/ NoSkip \/ EndCheck
  PROVE  TypeInv' /\ SameTimers
<1>0. TypeOK /\ AtOK
  BY DEF TypeInv
<1>1. CASE Round
  <2> DEFINE f == [loop EXCEPT !.pc = "drain"]
  <2>1. TopIs(f)
    BY <1>0, <1>1, GotoTop DEF Round, Pcs
  <2>2. f.queue = loop.queue /\ f.fires = loop.fires /\ f.at = loop.at /\ f.pc = "drain"
    BY <1>0, LoopType DEF LoopFrame
  <2>3. loop.pc = "top" /\ active' = active
    BY <1>1 DEF Round
  <2>4. CalmTop(f)
    BY <2>2, <2>3, TopFacts DEF CalmTop
  <2> HIDE DEF f
  <2>5. /\ next' \in Nat \cup {-1} /\ pipe' \in BOOLEAN
        /\ cont' \in {"inactive", "continue", "end"}
        /\ UNCHANGED <<use, now, list, deletes, stop, other, adds, removed, ended>>
    BY <1>0, <1>1 DEF Round, shared, TypeOK
  <2> QED
    BY <2>1, <2>2, <2>4, <2>5, CalmStep
<1>2. CASE LeaveChain
  <2> DEFINE f == [loop EXCEPT !.pc = "destroy"]
  <2>1. TopIs(f)
    BY <1>0, <1>2, GotoTop DEF LeaveChain, Pcs
  <2>2. f.queue = loop.queue /\ f.fires = loop.fires /\ f.at = loop.at /\ f.pc = "destroy"
    BY <1>0, LoopType DEF LoopFrame
  <2>3. loop.pc = "top" /\ active' = active
    BY <1>2 DEF LeaveChain
  <2>4. CalmTop(f)
    BY <2>2, <2>3, TopFacts DEF CalmTop
  <2> HIDE DEF f
  <2>5. /\ next' \in Nat \cup {-1} /\ pipe' \in BOOLEAN
        /\ cont' \in {"inactive", "continue", "end"}
        /\ UNCHANGED <<use, now, list, deletes, stop, other, adds, removed, ended>>
    BY <1>0, <1>2 DEF LeaveChain, shared, TypeOK
  <2> QED
    BY <2>1, <2>2, <2>4, <2>5, CalmStep
<1>3. CASE Sleep
  <2> DEFINE f == [loop EXCEPT !.pc = "sleep"]
  <2>1. TopIs(f)
    BY <1>0, <1>3, GotoTop DEF Sleep, Pcs
  <2>2. f.queue = loop.queue /\ f.fires = loop.fires /\ f.at = loop.at /\ f.pc = "sleep"
    BY <1>0, LoopType DEF LoopFrame
  <2>3. loop.pc = "pre" /\ active' = active
    BY <1>3 DEF Sleep
  <2>4. CalmTop(f)
    BY <2>2, <2>3, TopFacts DEF CalmTop
  <2> HIDE DEF f
  <2>5. /\ next' \in Nat \cup {-1} /\ pipe' \in BOOLEAN
        /\ cont' \in {"inactive", "continue", "end"}
        /\ UNCHANGED <<use, now, list, deletes, stop, other, adds, removed, ended>>
    BY <1>0, <1>3 DEF Sleep, shared, TypeOK
  <2> QED
    BY <2>1, <2>2, <2>4, <2>5, CalmStep
<1>4. CASE EndRound
  <2> DEFINE f == [loop EXCEPT !.pc = "top"]
  <2>1. TopIs(f)
    BY <1>0, <1>4, GotoTop DEF EndRound, Pcs
  <2>2. f.queue = loop.queue /\ f.fires = loop.fires /\ f.at = loop.at /\ f.pc = "top"
    BY <1>0, LoopType DEF LoopFrame
  <2>3. loop.pc = "post" /\ active' = active
    BY <1>4 DEF EndRound
  <2>4. CalmTop(f)
    BY <2>2, <2>3, TopFacts DEF CalmTop
  <2> HIDE DEF f
  <2>5. /\ next' \in Nat \cup {-1} /\ pipe' \in BOOLEAN
        /\ cont' \in {"inactive", "continue", "end"}
        /\ UNCHANGED <<use, now, list, deletes, stop, other, adds, removed, ended>>
    BY <1>0, <1>4 DEF EndRound, shared, TypeOK
  <2> QED
    BY <2>1, <2>2, <2>4, <2>5, CalmStep
<1>5. CASE Wake \/ WakeByOther
  <2> DEFINE f == Frame("post", loop.wait)
  <2>1. TopIs(f)
    BY <1>0, <1>5, WakeTop
  <2>2. f.queue = {} /\ f.fires = {} /\ f.at = 0 /\ f.pc = "post"
    BY DEF Frame
  <2>3. loop.queue = {} /\ loop.fires = {} /\ loop.pc = "sleep" /\ active' = active
    BY <1>5, TopFacts DEF Wake, WakeByOther
  <2>4. CalmTop(f)
    BY <2>2, <2>3, TopFacts DEF CalmTop
  <2> HIDE DEF f
  <2> QED
    BY <1>0, <1>5, <2>1, <2>2, <2>3, <2>4, CalmStep DEF Wake, WakeByOther, TypeOK
<1>6. CASE ReadClock
  <2>1. PICK r \in ILibGetUptime : TopIs([loop EXCEPT !.pc = "test", !.tick = r, !.at = now])
    BY <1>0, <1>6, ReadClockTop
  <2> DEFINE f == [loop EXCEPT !.pc = "test", !.tick = r, !.at = now]
  <2>2. f.queue = loop.queue /\ f.fires = loop.fires /\ f.at = now /\ f.pc = "test"
    BY <1>0, LoopType DEF LoopFrame
  <2>3. loop.queue = {} /\ loop.fires = {} /\ loop.pc = "drain" /\ active' = active
    BY <1>6, TopFacts DEF ReadClock
  <2>4. CalmTop(f)
    BY <2>2, <2>3, TopFacts DEF CalmTop
  <2> HIDE DEF f
  <2> QED
    BY <1>0, <1>6, <2>1, <2>2, <2>4, CalmStep DEF ReadClock, TypeOK, shared, f
<1>7. CASE Skip
  <2> DEFINE f == [loop EXCEPT !.pc = "pre", !.took = 0, !.tick = 0, !.at = 0,
                               !.until = now + (next - loop.tick), !.missed = Missed]
  <2>1. TopIs(f)
    BY <1>7, SkipTop
  <2>2. f.queue = loop.queue /\ f.fires = loop.fires /\ f.at = 0 /\ f.pc = "pre"
    BY <1>0, LoopType DEF LoopFrame
  <2>3. loop.queue = {} /\ loop.fires = {} /\ loop.pc = "test" /\ active' = active
    BY <1>7, TopFacts DEF Skip
  <2>4. CalmTop(f)
    BY <2>2, <2>3, TopFacts DEF CalmTop
  <2> HIDE DEF f
  <2> QED
    BY <1>0, <1>7, <2>1, <2>2, <2>4, CalmStep DEF Skip, TypeOK, shared
<1>8. CASE NoSkip
  <2> DEFINE f == [loop EXCEPT !.pc = "scan", !.queue = {}]
  <2>1. TopIs(f)
    BY <1>0, <1>8, NoSkipTop
  <2>2. f.queue = {} /\ f.fires = loop.fires /\ f.at = loop.at /\ f.pc = "scan"
    BY <1>0, LoopType DEF LoopFrame
  <2>3. loop.queue = {} /\ loop.fires = {} /\ loop.at <= now /\ active' = top
    BY <1>8, TopFacts DEF NoSkip
  <2>4. CalmTop(f)
    BY <2>2, <2>3 DEF CalmTop
  <2> HIDE DEF f
  <2> QED
    BY <1>0, <1>8, <2>1, <2>2, <2>3, <2>4, CalmStep DEF NoSkip, TypeOK
<1>9. CASE EndCheck
  <2> DEFINE f == [loop EXCEPT !.pc = "pre", !.took = now - loop.at, !.tick = 0, !.at = 0,
                               !.until = now + BlockTime(loop.wait), !.missed = Missed]
  <2>1. TopIs(f)
    BY <1>9, EndCheckTop
  <2>2. f.queue = loop.queue /\ f.fires = loop.fires /\ f.at = 0 /\ f.pc = "pre"
    BY <1>0, LoopType DEF LoopFrame
  <2>3. loop.queue = {} /\ loop.fires = {} /\ active' = 0
    BY <1>9, TopFacts DEF EndCheck
  <2>4. CalmTop(f)
    BY <2>2, <2>3, TopFacts, LoopType, <1>0 DEF CalmTop
  <2> HIDE DEF f
  <2> QED
    BY <1>0, <1>9, <2>1, <2>2, <2>3, <2>4, CalmStep DEF EndCheck, TypeOK, shared
<1> QED
  BY <1>1, <1>2, <1>3, <1>4, <1>5, <1>6, <1>7, <1>8, <1>9

\* The steps of the innermost loop that move or end timers.
LEMMA TypeSearch ==
  ASSUME TypeInv, Scan \/ Fire \/ Return \/ Destroy
  PROVE  TypeInv'
<1>0. TypeOK /\ KnownOK /\ InnerOK /\ BusyOK /\ ActiveOK /\ AtOK /\ OtherOK
  BY DEF TypeInv
<1>1. SUFFICES ASSUME NEW f, TopIs(f), CalmTop(f), list' \subseteq list,
                      f.queue \cup f.fires \subseteq list \cup loop.queue \cup loop.fires,
                      next' \in Nat \cup {-1}, deletes' \in Seq(Keys),
                      \E s \in SUBSET (list \cup loop.fires) :
                        removed' \subseteq removed \cup Ids(s) /\ ended' \subseteq ended \cup Ids(s),
                      UNCHANGED <<use, now, pipe, cont, stop, other, adds>>
               PROVE  TypeInv'
  <2>1. CASE Scan
    <3> DEFINE q == {t \in list : Due(t, loop.tick)}
               f == [loop EXCEPT !.pc = "fire", !.queue = q]
    <3>1. TopIs(f)
      BY <1>0, <2>1, ScanTop
    <3>2. /\ f.queue = q /\ f.fires = loop.fires /\ f.at = loop.at /\ f.pc = "fire"
          /\ q \subseteq list
      BY <1>0, LoopType DEF LoopFrame
    <3>3. loop.pc = "scan" /\ list' \subseteq list /\ active' = active
      BY <2>1 DEF Scan
    <3>4. next' \in Nat \cup {-1}
      <4>1. list' \in SUBSET Timer /\ next \in Nat \cup {-1}
        BY <1>0, <3>3 DEF TypeOK
      <4>2. next' = NextOf(list')
        BY <2>1 DEF Scan
      <4> QED
        BY <4>1, <4>2, NextAfterSearch
    <3>5. UNCHANGED <<use, now, deletes, pipe, cont, stop, other, adds, removed, ended>>
      BY <2>1 DEF Scan
    <3> HIDE DEF f, q
    <3>6. CalmTop(f)
      BY <3>2, <3>3, TopFacts DEF CalmTop
    <3>7. f.queue \cup f.fires \subseteq list \cup loop.queue \cup loop.fires
      BY <3>2
    <3>8. deletes' \in Seq(Keys)
      BY <1>0, <3>5 DEF TypeOK
    <3>9. \E s \in SUBSET (list \cup loop.fires) :
            removed' \subseteq removed \cup Ids(s) /\ ended' \subseteq ended \cup Ids(s)
      BY <3>5
    <3> QED
      BY <3>1, <3>3, <3>4, <3>5, <3>6, <3>7, <3>8, <3>9, <1>1
  <2>2. CASE Fire
    <3>1. PICK t \in loop.queue :
            TopIs([loop EXCEPT !.pc = "call", !.queue = loop.queue \ {t}, !.fires = {t}])
      BY <1>0, <2>2, FireTop
    <3> DEFINE f == [loop EXCEPT !.pc = "call", !.queue = loop.queue \ {t}, !.fires = {t}]
    <3>2. f.queue = loop.queue \ {t} /\ f.fires = {t} /\ f.at = loop.at /\ f.pc = "call"
      BY <1>0, LoopType DEF LoopFrame
    <3>3. UNCHANGED <<use, now, list, next, deletes, pipe, active, cont, stop, other, adds,
                      removed, ended>>
      BY <2>2 DEF Fire, shared
    <3>4. TopIs(f)
      BY <3>1
    <3> HIDE DEF f
    <3>5. CalmTop(f)
      BY <3>2, <3>3, TopFacts DEF CalmTop
    <3>6. f.queue \cup f.fires \subseteq list \cup loop.queue \cup loop.fires
      BY <3>2
    <3>7. next' \in Nat \cup {-1} /\ deletes' \in Seq(Keys)
      BY <1>0, <3>3 DEF TypeOK
    <3>8. \E s \in SUBSET (list \cup loop.fires) :
            removed' \subseteq removed \cup Ids(s) /\ ended' \subseteq ended \cup Ids(s)
      BY <3>3
    <3>9. list' \subseteq list
      BY <3>3
    <3> QED
      BY <3>3, <3>4, <3>5, <3>6, <3>7, <3>8, <3>9, <1>1
  <2>3. CASE Return
    <3> DEFINE f == [loop EXCEPT !.pc = "fire", !.fires = {}]
    <3>1. TopIs(f)
      BY <1>0, <2>3, ReturnTop
    <3>2. f.queue = loop.queue /\ f.fires = {} /\ f.at = loop.at /\ f.pc = "fire"
      BY <1>0, LoopType DEF LoopFrame
    <3>3. UNCHANGED <<use, now, list, next, deletes, pipe, active, cont, stop, other, adds,
                      removed>>
      BY <2>3 DEF Return, shared
    <3> HIDE DEF f
    <3>4. CalmTop(f)
      BY <3>2, <3>3, TopFacts DEF CalmTop
    <3>5. f.queue \cup f.fires \subseteq list \cup loop.queue \cup loop.fires
      BY <3>2
    <3>6. next' \in Nat \cup {-1} /\ deletes' \in Seq(Keys)
      BY <1>0, <3>3 DEF TypeOK
    <3>7. \E s \in SUBSET (list \cup loop.fires) :
            removed' \subseteq removed \cup Ids(s) /\ ended' \subseteq ended \cup Ids(s)
      BY <2>3 DEF Return
    <3>8. list' \subseteq list
      BY <3>3
    <3> QED
      BY <3>1, <3>3, <3>4, <3>5, <3>6, <3>7, <3>8, <1>1
  <2>4. CASE Destroy
    <3> DEFINE f == [loop EXCEPT !.pc = "stopped"]
    <3>1. TopIs(f)
      BY <1>0, <2>4, GotoTop DEF Destroy, Pcs
    <3>2. f.queue = loop.queue /\ f.fires = loop.fires /\ f.at = loop.at /\ f.pc = "stopped"
      BY <1>0, LoopType DEF LoopFrame
    <3>3. /\ UNCHANGED <<use, now, next, pipe, active, cont, stop, other, adds>>
          /\ loop.pc = "destroy" /\ list' \subseteq list
      BY <2>4 DEF Destroy
    <3> HIDE DEF f
    <3>4. CalmTop(f)
      BY <3>2, <3>3, TopFacts DEF CalmTop
    <3>5. f.queue \cup f.fires \subseteq list \cup loop.queue \cup loop.fires
      BY <3>2
    <3>6. next' \in Nat \cup {-1} /\ deletes' \in Seq(Keys)
      BY <1>0, <2>4 DEF TypeOK, Destroy
    <3>7. \E s \in SUBSET (list \cup loop.fires) :
            removed' \subseteq removed \cup Ids(s) /\ ended' \subseteq ended \cup Ids(s)
      BY <2>4 DEF Destroy
    <3> QED
      BY <3>1, <3>3, <3>4, <3>5, <3>6, <3>7, <1>1
  <2> QED
    BY <2>1, <2>2, <2>3, <2>4
<1>2. InnerOK' /\ BusyOK' /\ ActiveOK' /\ AtOK'
  BY <1>0, <1>1, CalmFrames
<1>3. OtherOK'
  BY <1>0, <1>1 DEF OtherOK, Idle
<1>4. KnownOK'
  <2>1. \A p \in Places' : \A t \in At(p)' : \E q \in Places : t \in At(q)
    BY <1>0, <1>1, TopFacts, TopPlaces, PlacesType
  <2> QED
    BY <2>1, <1>0, <1>1, KnownKept DEF TypeOK
<1>5. \A s \in SUBSET (list \cup loop.fires) : Ids(s) \subseteq 1 .. adds
  BY <1>0, TopFacts, PlacesType DEF KnownOK, Ids
<1>6. TypeOK'
  <2>1. loops' \in Seq(LoopFrame) /\ top' = top /\ active' \in 0 .. top
    BY <1>0, <1>1, LoopType, TopFacts DEF TopIs, CalmTop
  <2>2. removed' \subseteq 1 .. adds' /\ ended' \subseteq 1 .. adds'
    BY <1>0, <1>1, <1>5 DEF TypeOK
  <2>3. /\ top \in 1 .. use.depth /\ use' = use /\ now' \in Nat /\ list' \subseteq Timer
        /\ pipe' \in BOOLEAN /\ stop' \in BOOLEAN /\ cont' \in {"inactive", "continue", "end"}
        /\ adds' \in 0 .. MaxAdds
    BY <1>0, <1>1 DEF TypeOK
  <2> QED
    BY <1>0, <1>1, <2>1, <2>2, <2>3, TypeKept
<1> QED
  BY <1>2, <1>3, <1>4, <1>6 DEF TypeInv

\* An inner loop begins or ends.
LEMMA TypeNest ==
  ASSUME TypeInv, LeaveContinue \/ \E w \in Waits : Continue(w)
  PROVE  TypeInv'
<1>0. TypeOK /\ KnownOK /\ InnerOK /\ BusyOK /\ ActiveOK /\ AtOK /\ OtherOK
  BY DEF TypeInv
<1>1. CASE LeaveContinue
  <2>1. /\ loops' \in Seq(LoopFrame) /\ top' = top - 1 /\ top > 1 /\ top \in Nat
        /\ \A i \in 1 .. top - 1 : loops'[i] = loops[i]
    BY <1>0, <1>1, LeaveTop, LoopType
  <2>2. /\ UNCHANGED <<use, now, list, next, deletes, pipe, active, stop, other, adds, removed,
                       ended>>
        /\ cont' \in {"inactive", "continue", "end"} /\ loop.pc = "top"
    BY <1>0, <1>1 DEF LeaveContinue, shared, TypeOK
  <2>3. active \in 0 .. top - 1
    BY <2>1, <2>2, TopFacts
  <2>4. TypeOK'
    <3>1. /\ top' \in 1 .. use.depth /\ use' = use /\ now' \in Nat /\ list' \subseteq Timer
          /\ next' \in Nat \cup {-1} /\ deletes' \in Seq(Keys)
          /\ pipe' \in BOOLEAN /\ stop' \in BOOLEAN
          /\ adds' \in 0 .. MaxAdds /\ removed' \subseteq 1 .. adds' /\ ended' \subseteq 1 .. adds'
      <4>1. top \in 1 .. use.depth /\ use.depth \in Int
        BY <1>0, TimersAssumption DEF TypeOK
      <4> QED
        BY <4>1, <1>0, <2>1, <2>2 DEF TypeOK
    <3> QED
      BY <1>0, <3>1, <2>1, <2>2, <2>3, TypeKept
  <2>5. InnerOK' /\ BusyOK' /\ ActiveOK' /\ AtOK'
    <3>1. \A i \in 1 .. top' : i \in 1 .. top /\ i # top /\ loops'[i] = loops[i]
      BY <2>1
    <3>2. InnerOK' /\ BusyOK' /\ AtOK'
      BY <3>1, <2>2, <1>0 DEF InnerOK, BusyOK, AtOK
    <3>3. ActiveOK'
      BY <2>1, <2>2, <2>3, <1>0 DEF ActiveOK
    <3> QED
      BY <3>2, <3>3
  <2>6. OtherOK'
    BY <1>0, <2>2 DEF OtherOK, Idle
  <2>7. KnownOK'
    <3>1. \A p \in Places' : \A t \in At(p)' : \E q \in Places : t \in At(q)
      BY <1>0, <1>1, LeavePlaces
    <3> QED
      BY <3>1, <1>0, <2>2, KnownKept DEF TypeOK
  <2> QED
    BY <2>4, <2>5, <2>6, <2>7 DEF TypeInv
<1>2. ASSUME NEW w \in Waits, Continue(w)
      PROVE  TypeInv'
  <2>1. /\ loops' \in Seq(LoopFrame) /\ top' = top + 1 /\ top \in Nat \ {0}
        /\ loops'[top + 1] = Frame("drain", w)
        /\ \A i \in 1 .. top : loops'[i] = loops[i]
    BY <1>0, <1>2, ContinueTop, LoopType
  <2>2. /\ UNCHANGED <<use, now, list, next, deletes, pipe, active, stop, other, adds, removed,
                       ended>>
        /\ cont' \in {"inactive", "continue", "end"} /\ loop.pc \in {"call", "post"}
        /\ top < use.depth
    BY <1>0, <1>2 DEF Continue, shared, InScript
  <2>3. active \in 0 .. top
    BY TopFacts
  <2>4. TypeOK'
    <3>1. /\ top' \in 1 .. use.depth /\ use' = use /\ now' \in Nat /\ list' \subseteq Timer
          /\ next' \in Nat \cup {-1} /\ deletes' \in Seq(Keys)
          /\ pipe' \in BOOLEAN /\ stop' \in BOOLEAN
          /\ adds' \in 0 .. MaxAdds /\ removed' \subseteq 1 .. adds' /\ ended' \subseteq 1 .. adds'
      <4>1. use.depth \in Int
        BY <1>0, TimersAssumption DEF TypeOK
      <4> QED
        BY <4>1, <1>0, <2>1, <2>2 DEF TypeOK
    <3>2. active' \in 0 .. top'
      BY <2>1, <2>2, <2>3
    <3> QED
      BY <1>0, <3>1, <3>2, <2>1, <2>2, TypeKept
  <2>5. InnerOK' /\ BusyOK' /\ ActiveOK' /\ AtOK'
    <3>1. \A i \in 1 .. top' : i \in 1 .. top \/ (i = top + 1 /\ i = top')
      BY <2>1
    <3>2. InnerOK'
      BY <3>1, <2>1, <2>2, <1>0 DEF InnerOK, loop
    <3>3. BusyOK' /\ AtOK'
      <4>1. /\ loops'[top + 1].pc = "drain" /\ loops'[top + 1].queue = {}
            /\ loops'[top + 1].fires = {} /\ loops'[top + 1].at = 0 /\ now \in Nat /\ now' = now
        BY <2>1, <2>2, <1>0 DEF Frame, TypeOK
      <4> QED
        BY <3>1, <4>1, <2>1, <1>0 DEF BusyOK, AtOK
    <3>4. ActiveOK'
      BY <2>1, <2>2, <2>3, <1>0 DEF ActiveOK
    <3> QED
      BY <3>2, <3>3, <3>4
  <2>6. OtherOK'
    BY <1>0, <2>2 DEF OtherOK, Idle
  <2>7. KnownOK'
    <3>1. \A p \in Places' : \A t \in At(p)' : \E q \in Places : t \in At(q)
      BY <1>0, <1>2, ContinuePlaces
    <3> QED
      BY <3>1, <1>0, <2>2, KnownKept DEF TypeOK
  <2> QED
    BY <2>4, <2>5, <2>6, <2>7 DEF TypeInv
<1> QED
  BY <1>1, <1>2

\* A new timer is one, and has the id adds + 1.
LEMMA NewTimerType ==
  ASSUME TypeOK, adds < MaxAdds, NEW k \in Keys, NEW ms \in Delays, NEW r \in ILibGetUptime
  PROVE  /\ NewTimer(k, ms, r) \in Timer
         /\ NewTimer(k, ms, r).id = adds + 1
         /\ NewTimer(k, ms, r).due = now + ms
         /\ NewTimer(k, ms, r).tick < now + ms + Second
<1>1. /\ now \in Nat /\ ms \in Nat /\ r \in Nat /\ r < now + Second /\ adds \in Nat
      /\ MaxAdds \in Nat /\ Second \in Nat \ {0}
  BY TimersAssumption, Reading DEF TypeOK
<1>2. Tick(ms, r) \in Nat /\ Tick(ms, r) < now + ms + Second
  BY <1>1 DEF Tick
<1>3. adds + 1 \in 1 .. MaxAdds /\ now + ms \in Nat
  BY <1>1
<1> QED
  BY <1>2, <1>3 DEF NewTimer, Timer

\* The timers that a removal ends or wants are known ones.
LEMMA WantedKnown ==
  ASSUME TypeOK, KnownOK, NEW k
  PROVE  /\ Wanted(k) \subseteq 1 .. adds
         /\ Ids(Having(list, k)) \subseteq 1 .. adds
         /\ Ids(Having(ActiveQueue, k)) \subseteq 1 .. adds
<1>1. At(0) = list /\ 0 \in Places
  BY PlacesType DEF At
<1>2. \A i \in 1 .. top : i \in Places /\ At(i) = loops[i].queue
  BY LoopType DEF Places, At
<1>3. Ids(Having(list, k)) \subseteq 1 .. adds
  BY <1>1 DEF KnownOK, Ids, Having
<1>4. \A i \in 1 .. top : Ids(Having(loops[i].queue, k)) \subseteq 1 .. adds
  BY <1>2 DEF KnownOK, Ids, Having
<1>5. Wanted(k) \subseteq 1 .. adds
  BY <1>3, <1>4 DEF Wanted
<1>6. Ids(Having(ActiveQueue, k)) \subseteq 1 .. adds
  <2>1. CASE active = 0
    BY <2>1 DEF ActiveQueue, Ids, Having
  <2>2. CASE active # 0
    <3>1. active \in 1 .. top
      BY <2>2, LoopType DEF TypeOK
    <3> QED
      BY <2>2, <3>1, <1>4 DEF ActiveQueue
  <2> QED
    BY <2>1, <2>2
<1> QED
  BY <1>3, <1>5, <1>6

\* ILibLifeTime_Remove on the chain's thread, alone or before a new timer is put in.
LEMMA TypeRemove ==
  ASSUME TypeInv, NEW k, RemoveHere(k, loops), list' \subseteq Timer,
         list' \subseteq list \/ (adds' = adds + 1 /\ \E t \in Timer : t.id = adds + 1
                                                     /\ list' \subseteq list \cup {t}),
         adds' = adds \/ (adds' = adds + 1 /\ adds' \in 0 .. MaxAdds /\ OtherOK'),
         next' \in Nat \cup {-1}, pipe' \in BOOLEAN, deletes' \in Seq(Keys),
         UNCHANGED <<use, now, active, cont, stop, other>>
  PROVE  TypeInv'
<1>0. TypeOK /\ KnownOK /\ InnerOK /\ BusyOK /\ ActiveOK /\ AtOK /\ OtherOK
  BY DEF TypeInv
<1>1. /\ loops' \in Seq(LoopFrame) /\ top' = top
      /\ \A i \in 1 .. top :
           /\ loops'[i].pc = loops[i].pc /\ loops'[i].at = loops[i].at
           /\ loops'[i].fires = loops[i].fires /\ loops'[i].queue \subseteq loops[i].queue
  <2>1. \A i \in 1 .. top :
          loops'[i] = IF i = active THEN [loops[i] EXCEPT !.queue = Without(loops[i].queue, k)]
                      ELSE loops[i]
    BY <1>0, RemoveTop
  <2>2. ASSUME NEW i \in 1 .. top
        PROVE  /\ loops'[i].pc = loops[i].pc /\ loops'[i].at = loops[i].at
               /\ loops'[i].fires = loops[i].fires /\ loops'[i].queue \subseteq loops[i].queue
    <3> DEFINE q == Without(loops[i].queue, k)
    <3>1. q \subseteq loops[i].queue
      BY DEF Without
    <3>2. loops[i] \in LoopFrame
      BY <1>0, LoopType
    <3>3. loops'[i] = IF i = active THEN [loops[i] EXCEPT !.queue = q] ELSE loops[i]
      BY <2>1
    <3> HIDE DEF q
    <3> QED
      BY <3>1, <3>2, <3>3 DEF LoopFrame
  <2> QED
    BY <1>0, <2>2, RemoveTop
<1>2. InnerOK' /\ AtOK'
  BY <1>0, <1>1 DEF InnerOK, AtOK
<1>3. BusyOK'
  BY <1>0, <1>1 DEF BusyOK
<1>4. ActiveOK'
  <2>1. active \in 0 .. top /\ top \in Nat
    BY <1>0, LoopType DEF TypeOK
  <2> QED
    BY <2>1, <1>0, <1>1 DEF ActiveOK
<1>5. OtherOK'
  BY <1>0 DEF OtherOK, Idle
<1>6. KnownOK'
  <2>1. At(0) = list /\ 0 \in Places
    BY <1>0, PlacesType DEF At
  <2>2. \A p \in Places' : p \in Places /\ At(p)' \subseteq (IF p = 0 THEN list' ELSE At(p))
    BY <1>0, RemovePlaces DEF Without
  <2>3. \A p \in Places' : \A t \in At(p)' :
          \/ \E q \in Places : t \in At(q)
          \/ adds' = adds + 1 /\ t.id = adds + 1
    BY <2>1, <2>2
  <2> QED
    BY <2>3, <1>0, KnownKept DEF TypeOK
<1>7. TypeOK'
  <2>1. removed' \subseteq 1 .. adds' /\ ended' \subseteq 1 .. adds'
    <3>1. removed' \subseteq 1 .. adds /\ ended' \subseteq 1 .. adds
      BY <1>0, WantedKnown DEF RemoveHere, TypeOK
    <3> QED
      BY <3>1, <1>0 DEF TypeOK
  <2>2. /\ top' \in 1 .. use.depth /\ active' \in 0 .. top' /\ use' = use /\ now' \in Nat
        /\ stop' \in BOOLEAN /\ cont' \in {"inactive", "continue", "end"}
        /\ adds' \in 0 .. MaxAdds
    BY <1>0, <1>1 DEF TypeOK
  <2> QED
    BY <1>0, <1>1, <2>1, <2>2, TypeKept
<1> QED
  BY <1>2, <1>3, <1>4, <1>5, <1>6, <1>7 DEF TypeInv

LEMMA TypeAddRemove ==
  ASSUME TypeInv,
         \/ Drain
         \/ \E k \in Keys : Remove(k)
         \/ \E k \in Keys, ms \in Delays : Add(k, ms)
  PROVE  TypeInv'
<1>0. TypeOK /\ OtherOK
  BY DEF TypeInv
<1>1. CASE Drain
  <2>1. RemoveHere(Head(deletes), loops) /\ list' = Without(list, Head(deletes))
    BY <1>1 DEF Drain
  <2>2. deletes' \in Seq(Keys)
    BY <1>0, <1>1 DEF Drain, TypeOK
  <2>3. list' \subseteq list
    BY <2>1 DEF Without
  <2>4. /\ UNCHANGED <<use, now, active, cont, stop, other, adds>> /\ list' \subseteq Timer
        /\ next' \in Nat \cup {-1} /\ pipe' \in BOOLEAN
    BY <1>0, <1>1, <2>3 DEF Drain, TypeOK
  <2> QED
    BY <2>1, <2>2, <2>3, <2>4, TypeRemove
<1>2. ASSUME NEW k \in Keys, Remove(k) PROVE TypeInv'
  <2>1. RemoveHere(k, loops) /\ list' = Without(list, k)
    BY <1>2 DEF Remove
  <2>2. list' \subseteq list
    BY <2>1 DEF Without
  <2>3. /\ UNCHANGED <<use, now, active, cont, stop, other, adds>> /\ list' \subseteq Timer
        /\ next' \in Nat \cup {-1} /\ pipe' \in BOOLEAN /\ deletes' \in Seq(Keys)
    BY <1>0, <1>2, <2>2 DEF Remove, TypeOK
  <2> QED
    BY <2>1, <2>2, <2>3, TypeRemove
<1>3. ASSUME NEW k \in Keys, NEW ms \in Delays, Add(k, ms) PROVE TypeInv'
  <2>1. PICK r \in ILibGetUptime : /\ Insert(NewTimer(k, ms, r), Without(list, k))
                                    /\ Count(NewTimer(k, ms, r))
    BY <1>3 DEF Add
  <2> DEFINE t == NewTimer(k, ms, r)
  <2>2. adds + (IF other.ms # -1 THEN 1 ELSE 0) < MaxAdds /\ adds \in Nat /\ MaxAdds \in Nat
    BY <1>0, <1>3, TimersAssumption DEF Add, MayAdd, TypeOK
  <2>3. t \in Timer /\ t.id = adds + 1 /\ t.tick \in Nat
    BY <1>0, <2>2, NewTimerType DEF Timer
  <2> HIDE DEF t
  <2>4. list' \subseteq list \cup {t}
    BY <2>1 DEF t, Insert, Without
  <2>5. list' \subseteq Timer
    BY <2>3, <2>4, <1>0 DEF TypeOK
  <2>6. next' \in Nat \cup {-1}
    BY <1>0, <2>1, <2>3 DEF t, Count, TypeOK
  <2>7. pipe' \in BOOLEAN
    BY <2>1 DEF Insert
  <2>8. adds' = adds + 1 /\ adds' \in 0 .. MaxAdds /\ other' = other
    BY <1>3, <2>2 DEF Add
  <2>9. OtherOK'
    BY <1>0, <2>2, <2>8 DEF OtherOK, Idle
  <2>10. RemoveHere(k, loops) /\ deletes' \in Seq(Keys)
         /\ UNCHANGED <<use, now, active, cont, stop, other>>
    BY <1>0, <1>3 DEF Add, TypeOK
  <2>11. adds' = adds + 1 /\ \E u \in Timer : u.id = adds + 1 /\ list' \subseteq list \cup {u}
    BY <2>3, <2>4, <2>8
  <2> QED
    BY <2>5, <2>6, <2>7, <2>8, <2>9, <2>10, <2>11, TypeRemove
<1> QED
  BY <1>1, <1>2, <1>3

\* The steps that leave the loops alone.
LEMMA TypeLoopsSame ==
  ASSUME TypeInv, UNCHANGED <<use, active, loops, removed, ended>>, OtherOK',
         now' \in Nat, now <= now', list' \subseteq Timer,
         list' \subseteq list \/ (adds' = adds + 1 /\ \E t \in Timer : t.id = adds + 1
                                                     /\ list' \subseteq list \cup {t}),
         adds' = adds \/ (adds' = adds + 1 /\ adds' \in 0 .. MaxAdds),
         next' \in Nat \cup {-1}, pipe' \in BOOLEAN, stop' \in BOOLEAN, deletes' \in Seq(Keys),
         cont' \in {"inactive", "continue", "end"}
  PROVE  TypeInv'
<1>0. TypeOK /\ KnownOK /\ InnerOK /\ BusyOK /\ ActiveOK /\ AtOK /\ OtherOK
  BY DEF TypeInv
<1>1. top' = top /\ loops' = loops
  BY DEF top
<1>2. InnerOK' /\ BusyOK' /\ ActiveOK'
  BY <1>0, <1>1 DEF InnerOK, BusyOK, ActiveOK
<1>3. AtOK'
  <2>1. \A i \in 1 .. top : loops[i].at \in Nat /\ loops[i].at <= now
    BY <1>0, LoopType DEF AtOK, LoopFrame
  <2> QED
    <3>1. now \in Nat
      BY <1>0 DEF TypeOK
    <3>2. \A i \in 1 .. top : loops[i].at <= now'
      BY <2>1, <3>1
    <3> QED
      BY <3>2, <1>1 DEF AtOK
<1>4. KnownOK'
  <2>1. At(0) = list /\ 0 \in Places
    BY <1>0, PlacesType DEF At
  <2>2. \A p \in Places' : p \in Places /\ At(p)' = (IF p = 0 THEN list' ELSE At(p))
    BY <1>0, SamePlaces
  <2>3. \A p \in Places' : \A t \in At(p)' :
          \/ \E q \in Places : t \in At(q)
          \/ adds' = adds + 1 /\ t.id = adds + 1
    BY <2>1, <2>2
  <2> QED
    BY <2>3, <1>0, KnownKept DEF TypeOK
<1>5. TypeOK'
  <2>1. removed' \subseteq 1 .. adds' /\ ended' \subseteq 1 .. adds' /\ adds' \in 0 .. MaxAdds
    BY <1>0 DEF TypeOK
  <2>2. top' \in 1 .. use.depth /\ active' \in 0 .. top' /\ loops' \in Seq(LoopFrame)
    BY <1>0, <1>1, LoopType DEF TypeOK
  <2> QED
    BY <1>0, <2>1, <2>2, TypeKept
<1> QED
  BY <1>2, <1>3, <1>4, <1>5 DEF TypeInv

LEMMA TypeOthers ==
  ASSUME TypeInv,
         \/ EndContinue \/ ILibStopChain \/ OtherDefer \/ OtherInsert \/ OtherCount
         \/ TimePasses
         \/ \E k \in Keys : OtherRemove(k)
         \/ \E k \in Keys, ms \in Delays : OtherAdd(k, ms)
  PROVE  TypeInv'
<1>0. /\ TypeOK /\ OtherOK /\ adds \in Nat /\ MaxAdds \in Nat /\ now \in Nat
      /\ list \subseteq Timer /\ next \in Nat \cup {-1} /\ pipe \in BOOLEAN /\ stop \in BOOLEAN
      /\ cont \in {"inactive", "continue", "end"} /\ deletes \in Seq(Keys)
  BY TimersAssumption DEF TypeInv, TypeOK
<1>1. CASE EndContinue \/ ILibStopChain
  <2>1. /\ UNCHANGED <<use, now, list, next, deletes, active, loops, other, adds, removed, ended>>
        /\ pipe' \in BOOLEAN /\ stop' \in BOOLEAN /\ cont' \in {"inactive", "continue", "end"}
    BY <1>0, <1>1 DEF EndContinue, ILibStopChain
  <2>2. OtherOK'
    BY <1>0, <2>1 DEF OtherOK, Idle
  <2> QED
    BY <1>0, <2>1, <2>2, TypeLoopsSame
<1>2. CASE OtherDefer
  <2>1. /\ UNCHANGED <<use, now, list, next, active, loops, cont, stop, adds, removed, ended>>
        /\ pipe' \in BOOLEAN /\ other.pc = "defer"
        /\ deletes' = Append(deletes, other.key)
        /\ other' = IF other.ms = -1 THEN Idle ELSE Call("insert", other.key, other.ms)
    BY <1>2 DEF OtherDefer
  <2>2. other \in [pc : {"defer"}, key : Keys, ms : Delays \cup {-1}]
    BY <1>0, <2>1 DEF OtherOK, Idle
  <2>3. OtherOK'
    <3>1. CASE other.ms = -1
      BY <3>1, <2>1 DEF OtherOK, Idle
    <3>2. CASE other.ms # -1
      <4>1. other' = Call("insert", other.key, other.ms) /\ other.key \in Keys /\ other.ms \in Delays
        BY <3>2, <2>1, <2>2
      <4>2. adds < MaxAdds /\ adds' = adds
        BY <3>2, <1>0, <2>1 DEF OtherOK
      <4> QED
        BY <4>1, <4>2 DEF OtherOK, Call
    <3> QED
      BY <3>1, <3>2
  <2>4. deletes' \in Seq(Keys)
    BY <1>0, <2>1, <2>2
  <2> QED
    BY <1>0, <2>1, <2>3, <2>4, TypeLoopsSame
<1>3. CASE OtherInsert
  <2>1. PICK r \in ILibGetUptime :
          /\ Insert(NewTimer(other.key, other.ms, r), list)
          /\ other' = [pc |-> "count", ms |-> -1, timer |-> NewTimer(other.key, other.ms, r)]
    BY <1>3 DEF OtherInsert
  <2> DEFINE t == NewTimer(other.key, other.ms, r)
  <2>2. other \in [pc : {"insert"}, key : Keys, ms : Delays]
    BY <1>0, <1>3 DEF OtherOK, Idle, OtherInsert
  <2>3. other.key \in Keys /\ other.ms \in Delays /\ adds < MaxAdds
    <3>1. other.key \in Keys /\ other.ms \in Delays
      BY <2>2
    <3>2. other.ms # -1
      BY <3>1, TimersAssumption
    <3> QED
      BY <3>1, <3>2, <1>0 DEF OtherOK
  <2>4. t \in Timer /\ t.id = adds + 1 /\ t.tick \in Nat
    <3>1. t \in Timer /\ t.id = adds + 1
      BY <1>0, <2>3, NewTimerType
    <3> QED
      BY <3>1 DEF Timer
  <2> HIDE DEF t
  <2>5. list' = list \cup {t}
    BY <2>1 DEF t, Insert
  <2>6. next' \in Nat \cup {-1}
    BY <1>0, <1>3 DEF OtherInsert
  <2>7. pipe' \in BOOLEAN
    BY <2>1 DEF Insert
  <2>8. /\ adds' = adds + 1 /\ adds' \in 0 .. MaxAdds
        /\ UNCHANGED <<use, now, deletes, active, loops, cont, stop, removed, ended>>
    BY <1>0, <1>3, <2>3 DEF OtherInsert
  <2>9. OtherOK'
    <3>1. other' = [pc |-> "count", ms |-> -1, timer |-> t]
      BY <2>1 DEF t
    <3>2. other' \in [pc : {"count"}, ms : {-1}, timer : Timer] /\ other'.ms = -1
      BY <2>4, <3>1
    <3> QED
      BY <3>2 DEF OtherOK
  <2>10. list' \subseteq Timer
    BY <1>0, <2>4, <2>5
  <2>11. adds' = adds + 1 /\ \E u \in Timer : u.id = adds + 1 /\ list' \subseteq list \cup {u}
    BY <2>4, <2>5, <2>8
  <2> QED
    BY <1>0, <2>6, <2>7, <2>8, <2>9, <2>10, <2>11, TypeLoopsSame
<1>7. CASE OtherCount
  <2>1. /\ UNCHANGED <<use, now, list, deletes, pipe, active, loops, cont, stop, adds, removed, ended>>
        /\ Count(other.timer) /\ other.pc = "count" /\ other' = Idle
    BY <1>7 DEF OtherCount
  <2>2. other \in [pc : {"count"}, ms : {-1}, timer : Timer]
    BY <1>0, <2>1 DEF OtherOK, Idle
  <2>3. other.timer.tick \in Nat
    BY <2>2 DEF Timer
  <2>4. next' \in Nat \cup {-1}
    BY <1>0, <2>1, <2>3 DEF Count
  <2>5. OtherOK'
    BY <2>1 DEF OtherOK, Idle
  <2> QED
    BY <1>0, <2>1, <2>4, <2>5, TypeLoopsSame
<1>4. CASE TimePasses
  <2>1. /\ UNCHANGED <<use, list, next, deletes, pipe, active, loops, cont, stop, other, adds,
                       removed, ended>>
        /\ now' = now + 1
    BY <1>4 DEF TimePasses, shared
  <2>2. OtherOK'
    BY <1>0, <2>1 DEF OtherOK, Idle
  <2>3. now' \in Nat /\ now <= now'
    BY <1>0, <2>1
  <2> QED
    BY <1>0, <2>1, <2>2, <2>3, TypeLoopsSame
<1>5. ASSUME NEW k \in Keys, OtherRemove(k) PROVE TypeInv'
  <2>1. /\ UNCHANGED <<use, now, list, next, deletes, pipe, active, loops, cont, stop, adds,
                       removed, ended>>
        /\ other' = Call("defer", k, -1)
    BY <1>5 DEF OtherRemove, shared
  <2>2. OtherOK'
    BY <2>1 DEF OtherOK, Call
  <2> QED
    BY <1>0, <2>1, <2>2, TypeLoopsSame
<1>6. ASSUME NEW k \in Keys, NEW ms \in Delays, OtherAdd(k, ms) PROVE TypeInv'
  <2>1. /\ UNCHANGED <<use, now, list, next, deletes, pipe, active, loops, cont, stop, adds,
                       removed, ended>>
        /\ other' = Call("defer", k, ms) \/ other' = Call("insert", k, ms)
        /\ MayAdd
    BY <1>6 DEF OtherAdd, shared
  <2>2. adds < MaxAdds /\ adds' = adds
    BY <1>0, <2>1 DEF MayAdd
  <2>3. OtherOK'
    BY <2>1, <2>2 DEF OtherOK, Call
  <2> QED
    BY <1>0, <2>1, <2>3, TypeLoopsSame
<1> QED
  BY <1>1, <1>2, <1>3, <1>4, <1>5, <1>6, <1>7

LEMMA TypeInit == Init => TypeInv
<1> SUFFICES ASSUME Init PROVE TypeInv
  OBVIOUS
<1>1. PICK w \in Waits : loops = <<Frame("post", w)>>
  BY DEF Init
<1>2. Frame("post", w) \in LoopFrame
  BY FrameType DEF Pcs
<1>3. loops \in Seq(LoopFrame) /\ top = 1 /\ loops[1] = Frame("post", w)
  BY <1>1, <1>2 DEF top
<1>4. /\ loops[1].pc = "post" /\ loops[1].queue = {} /\ loops[1].fires = {}
      /\ loops[1].at = 0
  BY <1>3 DEF Frame
<1>5. TypeOK
  <2>1. use \in Settings /\ use.depth \in Nat \ {0}
    BY TimersAssumption DEF Init
  <2>2. loops \in Seq([pc : {"top", "drain", "test", "scan", "fire", "call", "pre", "sleep",
                             "post", "destroy", "stopped"},
                       wait : Waits, tick : Nat, at : Nat, queue : SUBSET Timer,
                       fires : SUBSET Timer, until : Nat, took : Nat, missed : SUBSET Timer])
    BY <1>3 DEF LoopFrame, Pcs
  <2>3. top \in 1 .. use.depth /\ adds \in 0 .. MaxAdds
    BY <1>3, <2>1, TimersAssumption DEF Init
  <2> QED
    <3>1. /\ now \in Nat /\ list \subseteq Timer /\ next \in Nat \cup {-1} /\ deletes \in Seq(Keys)
          /\ cont \in {"inactive", "continue", "end"}
      BY DEF Init
    <3>0. pipe \in BOOLEAN /\ stop \in BOOLEAN
      BY Zenon DEF Init
    <3>2. active \in 0 .. top /\ removed \subseteq 1 .. adds /\ ended \subseteq 1 .. adds
      BY <1>3 DEF Init
    <3> QED
      BY <2>1, <2>2, <2>3, <3>0, <3>1, <3>2 DEF TypeOK
<1>6. OtherOK
  BY DEF OtherOK, Init, Idle
<1>7. InnerOK /\ BusyOK /\ ActiveOK /\ AtOK
  BY <1>3, <1>4 DEF InnerOK, BusyOK, ActiveOK, AtOK, Init
<1>8. KnownOK
  <2>1. Places = -1 .. 1
    BY <1>3 DEF Places
  <2>2. \A p \in Places : p = 0 \/ p = 1 \/ -p = 1
    BY <2>1
  <2>3. \A p \in Places : At(p) = {}
    BY <2>1, <2>2, <1>4 DEF At, Init
  <2> QED
    BY <2>3 DEF KnownOK
<1> QED
  BY <1>5, <1>6, <1>7, <1>8 DEF TypeInv

LEMMA TypeStutter == TypeInv /\ UNCHANGED vars => TypeInv'
BY DEF TypeInv, vars, shared, TypeOK, OtherOK, InnerOK, BusyOK, ActiveOK, AtOK, KnownOK, Places,
       At, top, Idle

LEMMA TypeStep == TypeInv /\ [Next]_vars => TypeInv'
<1> SUFFICES ASSUME TypeInv, [Next]_vars PROVE TypeInv'
  OBVIOUS
<1>1. CASE UNCHANGED vars
  BY <1>1, TypeStutter
<1>2. CASE Next
  BY <1>2, CalmSteps, TypeSearch, TypeNest, TypeAddRemove, TypeOthers DEF Next, LoopStep
<1> QED
  BY <1>1, <1>2

\* The chain's variables keep their types; in particular ActiveList never points to the
\* queue of a loop of ILibChain_Continue that has ended, and no block time is negative.
THEOREM TypeCorrect == Spec => []TypeOK
<1>1. TypeInv => TypeOK
  BY DEF TypeInv
<1> QED
  BY <1>1, TypeInit, TypeStep, PTL DEF Spec

-----------------------------------------------------------------------------
(* PlaceInv is inductive.                                                  *)

\* What a step may do with the timers: it moves them, ends them and adds one.
Move ==
  /\ adds' = adds \/ (adds' = adds + 1 /\ \E q \in Places' : \E t \in At(q)' : t.id = adds + 1)
  /\ ended \subseteq ended'
  /\ ended' \subseteq 1 .. adds
  /\ \A p \in Places' : \A t \in At(p)' :
       \/ t.id \notin ended' /\ \E q \in Places : t \in At(q)
       \/ adds' = adds + 1 /\ t.id = adds + 1
  /\ \A p, q \in Places' : \A t \in At(p)' : t \in At(q)' => p = q
  /\ \A p, q \in Places' : \A t \in At(p)', u \in At(q)' :
       t.id = adds + 1 /\ u.id = adds + 1 => t = u
  /\ \A p \in Places : \A t \in At(p) : t.id \in ended' \/ \E q \in Places' : t \in At(q)'

LEMMA Moved ==
  ASSUME TypeInv, Pending, Unique, Present, Move
  PROVE  Pending' /\ Unique' /\ Present'
<1>0. KnownOK /\ adds \in Nat
  BY DEF TypeInv, TypeOK
<1>1. \A p \in Places : \A t \in At(p) : t.id # adds + 1
  <2>1. \A n \in 1 .. adds : n # adds + 1
    BY <1>0
  <2> QED
    BY <2>1, <1>0 DEF KnownOK
<1>2. Pending'
  <2>1. adds + 1 \notin ended'
    BY <1>0 DEF Move
  <2> QED
    BY <2>1 DEF Pending, Move
<1>3. Unique'
  <2> SUFFICES ASSUME NEW p \in Places', NEW q \in Places', NEW t \in At(p)', NEW u \in At(q)',
                      t.id = u.id
               PROVE  t = u /\ p = q
    BY DEF Unique
  <2>1. t = u
    <3>1. CASE t.id = adds + 1
      BY <3>1 DEF Move
    <3>2. CASE t.id # adds + 1
      <4>1. (\E x \in Places : t \in At(x)) /\ (\E y \in Places : u \in At(y))
        BY <3>2 DEF Move
      <4> QED
        BY <4>1 DEF Unique
    <3> QED
      BY <3>1, <3>2
  <2> QED
    BY <2>1 DEF Move
<1>4. Present'
  <2> SUFFICES ASSUME NEW id \in (1 .. adds') \ ended'
               PROVE  \E p \in Places' : \E t \in At(p)' : t.id = id
    BY DEF Present, Ids
  <2>1. CASE id = adds + 1
    <3>1. adds' # adds
      BY <2>1, <1>0
    <3> QED
      BY <2>1, <3>1 DEF Move
  <2>2. CASE id # adds + 1
    <3>1. id \in (1 .. adds) \ ended
      BY <2>2, <1>0 DEF Move
    <3>2. PICK p \in Places : \E t \in At(p) : t.id = id
      BY <3>1 DEF Present, Ids
    <3> QED
      BY <3>2 DEF Move
  <2> QED
    BY <2>1, <2>2
<1> QED
  BY <1>2, <1>3, <1>4

\* Steps in which every timer stays where it is.
LEMMA PlaceSame ==
  ASSUME TypeInv, PlaceInv, SameTimers
  PROVE  PlaceInv'
<1>0. TypeOK /\ Pending /\ Unique /\ Present /\ Reached /\ ended \subseteq 1 .. adds /\ adds \in Nat
  BY DEF TypeInv, PlaceInv, TypeOK
<1>1. Move
  <2>1. \A p \in Places : \A t \in At(p) : t.id # adds + 1
    <3>1. \A n \in 1 .. adds : n # adds + 1
      BY <1>0
    <3> QED
      BY <3>1 DEF TypeInv, KnownOK
  <2> QED
    BY <2>1, <1>0 DEF Move, SameTimers, Pending, Unique
<1>2. Reached'
  BY <1>0, PlacesType DEF Reached, SameTimers
<1> QED
  BY <1>0, <1>1, <1>2, Moved DEF PlaceInv

LEMMA ActivePlace == TypeOK => 0 \in Places /\ active \in Places
BY PlacesType

LEMMA PlaceNest ==
  ASSUME TypeInv, PlaceInv, LeaveContinue \/ \E w \in Waits : Continue(w)
  PROVE  PlaceInv'
<1>0. TypeOK /\ Pending /\ Unique /\ Present /\ Reached /\ ended \subseteq 1 .. adds /\ adds \in Nat
  BY DEF TypeInv, PlaceInv, TypeOK
<1>1. \A p \in Places : \A t \in At(p) : t.id # adds + 1
  <2>1. \A n \in 1 .. adds : n # adds + 1
    BY <1>0
  <2> QED
    BY <2>1 DEF TypeInv, KnownOK
<1>2. UNCHANGED <<adds, ended, removed, active>>
  BY DEF LeaveContinue, Continue
<1>3. /\ \A p \in Places' : At(p)' = IF p \in Places THEN At(p) ELSE {}
      /\ \A p \in Places : At(p) = IF p \in Places' THEN At(p)' ELSE {}
  <2>1. CASE LeaveContinue
    BY <1>0, <2>1, LeavePlaces DEF TypeInv
  <2>2. ASSUME NEW w \in Waits, Continue(w)
        PROVE  /\ \A p \in Places' : At(p)' = IF p \in Places THEN At(p) ELSE {}
               /\ \A p \in Places : At(p) = IF p \in Places' THEN At(p)' ELSE {}
    BY <1>0, <2>2, ContinuePlaces
  <2> QED
    BY <2>1, <2>2
<1>4. Move
  BY <1>0, <1>1, <1>2, <1>3 DEF Move, Pending, Unique
<1>5. Reached'
  <2>1. TypeInv'
    BY TypeNest
  <2>2. 0 \in Places' /\ active' \in Places' /\ 0 \in Places /\ active \in Places
    <3>1. (TypeOK => 0 \in Places /\ active \in Places)'
      BY ActivePlace, PTL
    <3> QED
      BY <3>1, <2>1, <1>0, PlacesType DEF TypeInv
  <2> QED
    BY <2>2, <1>0, <1>2, <1>3 DEF Reached
<1> QED
  BY <1>0, <1>4, <1>5, Moved DEF PlaceInv

\* The search: what is due moves to the queue of the innermost loop.
LEMMA PlaceScan ==
  ASSUME TypeInv, PlaceInv, Scan
  PROVE  PlaceInv'
<1>0. /\ TypeOK /\ Pending /\ Unique /\ Present /\ Reached /\ ended \subseteq 1 .. adds
      /\ adds \in Nat
  BY DEF TypeInv, PlaceInv, TypeOK
<1>1. \A p \in Places : \A t \in At(p) : t.id # adds + 1
  <2>1. \A n \in 1 .. adds : n # adds + 1
    BY <1>0
  <2> QED
    BY <2>1 DEF TypeInv, KnownOK
<1>2. UNCHANGED <<adds, ended, removed, active>> /\ loop.pc = "scan"
  BY DEF Scan
<1> DEFINE q == {t \in list : Due(t, loop.tick)}
           f == [loop EXCEPT !.pc = "fire", !.queue = q]
<1>3. /\ q \cup list' = list /\ q \cap list' = {}
      /\ f.queue = q /\ f.fires = {} /\ loop.queue = {}
  <2>1. q \cup list' = list /\ q \cap list' = {}
    BY DEF Scan
  <2>2. f.queue = q /\ f.fires = loop.fires
    BY <1>0, LoopType DEF LoopFrame
  <2> QED
    BY <2>1, <2>2, <1>2, TopFacts
<1>4. TopIs(f)
  BY <1>0, ScanTop
<1> HIDE DEF q, f
<1>n. PICK n \in Places : n = top
  BY <1>0, PlacesType
<1>5. /\ Places' = Places /\ 0 \in Places /\ n # 0 /\ active \in Places
      /\ At(0)' = list' /\ At(n)' = q /\ At(0) = list /\ At(n) = {}
      /\ \A p \in Places : p # 0 /\ p # n => At(p)' = At(p)
  <2>1. top \in Nat \ {0} /\ top # -top /\ -top # 0
    BY <1>0, LoopType
  <2>2. At(-top) = {} /\ At(top) = {} /\ At(0) = list
    BY <1>2, <1>3, TopFacts
  <2>3. /\ Places' = Places
        /\ \A p \in Places : At(p)' = IF p = 0 THEN list'
                                      ELSE IF p = top THEN f.queue
                                      ELSE IF p = -top THEN f.fires ELSE At(p)
    BY <1>0, <1>4, TopPlaces
  <2> QED
    BY <2>1, <2>2, <2>3, <1>0, <1>3, <1>n, PlacesType
<1>6. \A p \in Places : At(p)' \subseteq At(p) \cup list
  BY <1>3, <1>5
<1>7. Move
  <2>1. \A p \in Places' : \A t \in At(p)' : \E x \in Places : t \in At(x)
    BY <1>5, <1>6
  <2>2. \A x, y \in Places' : \A t \in At(x)' : t \in At(y)' => x = y
    <3> SUFFICES ASSUME NEW x \in Places, NEW y \in Places, NEW t \in At(x)', t \in At(y)',
                        x # y
                 PROVE  FALSE
      BY <1>5
    <3>1. (x = 0 \/ x = n) => t \in At(0)
      BY <1>3, <1>5
    <3>2. (y = 0 \/ y = n) => t \in At(0)
      BY <1>3, <1>5
    <3>3. ~(x \in {0, n} /\ y \in {0, n})
      BY <1>3, <1>5
    <3>4. (x \notin {0, n} => t \in At(x)) /\ (y \notin {0, n} => t \in At(y))
      BY <1>5
    <3> QED
      BY <3>1, <3>2, <3>3, <3>4, <1>0, <1>5 DEF Unique
  <2>3. \A p \in Places : \A t \in At(p) : \E x \in Places' : t \in At(x)'
    BY <1>3, <1>5
  <2> QED
    BY <1>0, <1>1, <1>2, <2>1, <2>2, <2>3 DEF Move, Pending
<1>8. Reached'
  BY <1>0, <1>2, <1>5, <1>6 DEF Reached
<1> QED
  BY <1>0, <1>7, <1>8, Moved DEF PlaceInv

\* The callback of a timer of the queue begins.
LEMMA PlaceFire ==
  ASSUME TypeInv, PlaceInv, Fire
  PROVE  PlaceInv'
<1>0. /\ TypeOK /\ Pending /\ Unique /\ Present /\ Reached /\ ended \subseteq 1 .. adds
      /\ adds \in Nat
  BY DEF TypeInv, PlaceInv, TypeOK
<1>1. \A p \in Places : \A t \in At(p) : t.id # adds + 1
  <2>1. \A n \in 1 .. adds : n # adds + 1
    BY <1>0
  <2> QED
    BY <2>1 DEF TypeInv, KnownOK
<1>2. UNCHANGED <<list, adds, ended, removed, active>> /\ loop.pc = "fire"
  BY DEF Fire, shared
<1>3. PICK e \in loop.queue :
        TopIs([loop EXCEPT !.pc = "call", !.queue = loop.queue \ {e}, !.fires = {e}])
  BY <1>0, FireTop
<1> DEFINE f == [loop EXCEPT !.pc = "call", !.queue = loop.queue \ {e}, !.fires = {e}]
<1>4. f.queue = loop.queue \ {e} /\ f.fires = {e} /\ TopIs(f)
  BY <1>0, <1>3, LoopType DEF LoopFrame
<1> HIDE DEF f
<1>n. PICK n \in Places : n = top
  BY <1>0, PlacesType
<1>m. PICK m \in Places : m = -top
  BY <1>0, PlacesType
<1>5. /\ Places' = Places /\ 0 \in Places /\ active \in Places
      /\ n # 0 /\ n # m /\ m # 0 /\ active # m
      /\ At(n)' = At(n) \ {e} /\ At(m)' = {e} /\ e \in At(n) /\ At(m) = {}
      /\ \A p \in Places : p # m /\ p # n => At(p)' = At(p)
  <2>1. top \in Nat \ {0} /\ top # -top /\ -top # 0
    BY <1>0, LoopType
  <2>2. At(-top) = {} /\ At(top) = loop.queue /\ At(0) = list
    BY <1>2, TopFacts
  <2>3. active # -top
    BY <2>1, TopFacts
  <2>4. /\ Places' = Places
        /\ \A p \in Places : At(p)' = IF p = 0 THEN list'
                                      ELSE IF p = top THEN f.queue
                                      ELSE IF p = -top THEN f.fires ELSE At(p)
    BY <1>0, <1>4, TopPlaces
  <2> QED
    BY <2>1, <2>2, <2>3, <2>4, <1>0, <1>2, <1>3, <1>4, <1>n, <1>m, PlacesType
<1>6. Move
  <2>1. \A p \in Places' : \A t \in At(p)' : \E x \in Places : t \in At(x)
    BY <1>5
  <2>2. \A x, y \in Places' : \A t \in At(x)' : t \in At(y)' => x = y
    <3> SUFFICES ASSUME NEW x \in Places, NEW y \in Places, NEW t \in At(x)', t \in At(y)',
                        x # y
                 PROVE  FALSE
      BY <1>5
    <3>1. (x # m => t \in At(x)) /\ (x = m => t = e)
      BY <1>5
    <3>2. (y # m => t \in At(y)) /\ (y = m => t = e)
      BY <1>5
    <3>3. CASE t = e
      <4>1. x = n \/ y = n
        BY <3>1, <3>2, <3>3, <1>0, <1>5 DEF Unique
      <4> QED
        BY <4>1, <3>3, <1>5
    <3>4. CASE t # e
      BY <3>1, <3>2, <3>4, <1>0, <1>5 DEF Unique
    <3> QED
      BY <3>3, <3>4
  <2>3. \A p \in Places : \A t \in At(p) : \E x \in Places' : t \in At(x)'
    BY <1>5
  <2> QED
    BY <1>0, <1>1, <1>2, <2>1, <2>2, <2>3 DEF Move, Pending
<1>7. Reached'
  <2>1. \A p \in Places : p # m => At(p)' \subseteq At(p)
    BY <1>5
  <2> QED
    BY <2>1, <1>0, <1>2, <1>5 DEF Reached
<1> QED
  BY <1>0, <1>6, <1>7, Moved DEF PlaceInv

\* The timers of one place, e, end there and the others stay where they are.
LEMMA PlaceEnd ==
  ASSUME TypeInv, PlaceInv, NEW e \in Places,
         Places' = Places, At(e)' = {}, \A p \in Places : p # e => At(p)' = At(p),
         UNCHANGED <<adds, active>>, ended' = ended \cup Ids(At(e)),
         removed' \subseteq removed \cup Ids(At(e))
  PROVE  PlaceInv'
<1>0. /\ TypeOK /\ Pending /\ Unique /\ Present /\ Reached /\ ended \subseteq 1 .. adds
      /\ adds \in Nat
  BY DEF TypeInv, PlaceInv, TypeOK
<1>1. \A p \in Places : \A t \in At(p) : t.id \in 1 .. adds /\ t.id # adds + 1
  <2>1. \A n \in 1 .. adds : n # adds + 1
    BY <1>0
  <2> QED
    BY <2>1 DEF TypeInv, KnownOK
<1>2. Ids(At(e)) \subseteq 1 .. adds
  BY <1>1 DEF Ids
<1>3. \A p \in Places : p # e => \A t \in At(p) : t.id \notin Ids(At(e))
  BY <1>0 DEF Unique, Ids
<1>4. Move
  <2>1. ended \subseteq ended' /\ ended' \subseteq 1 .. adds
    BY <1>0, <1>2
  <2>2. \A p \in Places' : \A t \in At(p)' : t.id \notin ended' /\ \E x \in Places : t \in At(x)
    BY <1>0, <1>3 DEF Pending
  <2>3. \A x, y \in Places' : \A t \in At(x)' : t \in At(y)' => x = y
    BY <1>0 DEF Unique
  <2>4. \A p \in Places : \A t \in At(p) : t.id \in ended' \/ \E x \in Places' : t \in At(x)'
    BY DEF Ids
  <2>5. \A x, y \in Places' : \A t \in At(x)', u \in At(y)' :
          t.id = adds + 1 /\ u.id = adds + 1 => t = u
    BY <1>1
  <2> QED
    BY <2>1, <2>2, <2>3, <2>4, <2>5 DEF Move
<1>5. Reached'
  <2>1. 0 \in Places /\ active \in Places
    BY <1>0, PlacesType
  <2> QED
    BY <2>1, <1>0, <1>3 DEF Reached
<1> QED
  BY <1>0, <1>4, <1>5, Moved DEF PlaceInv

LEMMA PlaceReturn ==
  ASSUME TypeInv, PlaceInv, Return \/ Destroy
  PROVE  PlaceInv'
<1>0. TypeOK
  BY DEF TypeInv
<1>1. top \in Nat \ {0} /\ top # -top /\ -top # 0
  BY <1>0, LoopType
<1>2. At(-top) = loop.fires /\ At(top) = loop.queue /\ At(0) = list
  BY TopFacts
<1>3. CASE Return
  <2> DEFINE f == [loop EXCEPT !.pc = "fire", !.fires = {}]
  <2>1. f.queue = loop.queue /\ f.fires = {}
    BY <1>0, LoopType DEF LoopFrame
  <2>2. TopIs(f)
    BY <1>0, <1>3, ReturnTop
  <2> HIDE DEF f
  <2>m. PICK m \in Places : m = -top
    BY <1>0, PlacesType
  <2>3. /\ UNCHANGED <<list, adds, active, removed>>
        /\ ended' = ended \cup Ids(At(m))
    BY <1>2, <1>3, <2>m DEF Return, shared
  <2>4. /\ Places' = Places /\ At(m)' = {}
        /\ \A p \in Places : p # m => At(p)' = At(p)
    BY <1>0, <1>1, <1>2, <2>1, <2>2, <2>3, <2>m, TopPlaces, PlacesType
  <2> QED
    BY <2>3, <2>4, PlaceEnd
<1>4. CASE Destroy
  <2> DEFINE f == [loop EXCEPT !.pc = "stopped"]
  <2>1. f.queue = loop.queue /\ f.fires = loop.fires
    BY <1>0, LoopType DEF LoopFrame
  <2>2. TopIs(f)
    BY <1>0, <1>4, GotoTop DEF Destroy, Pcs
  <2> HIDE DEF f
  <2>3. /\ UNCHANGED <<adds, active>> /\ list' = {}
        /\ ended' = ended \cup Ids(At(0)) /\ removed' \subseteq removed \cup Ids(At(0))
    BY <1>2, <1>4 DEF Destroy
  <2>4. /\ 0 \in Places /\ Places' = Places /\ At(0)' = {}
        /\ \A p \in Places : p # 0 => At(p)' = At(p)
    BY <1>0, <1>1, <1>2, <2>1, <2>2, <2>3, TopPlaces, PlacesType
  <2> QED
    BY <2>3, <2>4, PlaceEnd
<1> QED
  BY <1>3, <1>4

\* ILibLifeTime_Remove on the chain's thread, alone or before a new timer is put in.
LEMMA PlaceRemove ==
  ASSUME TypeInv, PlaceInv, NEW k, RemoveHere(k, loops), UNCHANGED active,
         \/ adds' = adds /\ list' = Without(list, k)
         \/ adds' = adds + 1 /\ \E t \in Timer : t.id = adds + 1
                                               /\ list' = Without(list, k) \cup {t}
  PROVE  PlaceInv'
<1>0. /\ TypeOK /\ Pending /\ Unique /\ Present /\ Reached
      /\ ended \subseteq 1 .. adds /\ removed \subseteq 1 .. adds /\ adds \in Nat /\ KnownOK
  BY DEF TypeInv, PlaceInv, TypeOK
<1>1. /\ \A p \in Places : \A t \in At(p) : t.id \in 1 .. adds /\ t.id # adds + 1
      /\ adds + 1 \notin 1 .. adds
  <2>1. \A n \in 1 .. adds : n # adds + 1
    BY <1>0
  <2> QED
    BY <2>1, <1>0 DEF KnownOK
<1>2. /\ Places' = Places /\ 0 \in Places /\ active \in Places /\ active' = active /\ At(0) = list
      /\ \A p \in Places : At(p)' = IF p = 0 THEN list'
                                    ELSE IF p = active THEN Without(At(p), k) ELSE At(p)
  BY <1>0, RemovePlaces, PlacesType, TopFacts
<1>3. /\ \A p \in {0, active} : \A t \in At(p) : t.key = k => t.id \in ended' /\ t.id \in removed'
      /\ \A id \in ended' \ ended : \E p \in {0, active} : \E t \in At(p) : t.id = id /\ t.key = k
      /\ ended \subseteq ended'
  <2>1. active # 0 => active \in 1 .. top /\ At(active) = ActiveQueue
    BY <1>0, LoopType, TopFacts DEF ActiveQueue, At
  <2>2. active # 0 => Ids(Having(ActiveQueue, k)) \subseteq Wanted(k)
    BY <2>1 DEF Wanted, ActiveQueue
  <2>3. Ids(Having(list, k)) \subseteq Wanted(k)
    BY DEF Wanted
  <2>4. active = 0 => Ids(Having(ActiveQueue, k)) = {}
    BY DEF ActiveQueue, Ids, Having
  <2>5. /\ ended' = ended \cup Ids(Having(list, k)) \cup Ids(Having(ActiveQueue, k))
        /\ removed' = removed \cup Wanted(k)
    BY DEF RemoveHere
  <2>6. /\ \A t \in list : t.key = k => t.id \in Ids(Having(list, k))
        /\ \A t \in ActiveQueue : t.key = k => t.id \in Ids(Having(ActiveQueue, k))
        /\ \A id \in Ids(Having(list, k)) : \E t \in list : t.id = id /\ t.key = k
        /\ \A id \in Ids(Having(ActiveQueue, k)) : \E t \in ActiveQueue : t.id = id /\ t.key = k
    BY DEF Ids, Having
  <2> QED
    BY <2>1, <2>2, <2>3, <2>4, <2>5, <2>6, <1>2
<1>4. /\ ended' \subseteq 1 .. adds
      /\ \A id \in removed' \ removed : \E p \in Places : \E t \in At(p) : t.id = id /\ t.key = k
      /\ removed' \subseteq 1 .. adds
  <2>1. ended' \subseteq 1 .. adds /\ removed' \subseteq 1 .. adds
    BY <1>0, WantedKnown DEF RemoveHere
  <2>2. \A i \in 1 .. top : i \in Places /\ At(i) = loops[i].queue
    BY <1>0, LoopType DEF Places, At
  <2>3. \A id \in Wanted(k) : \E p \in Places : \E t \in At(p) : t.id = id /\ t.key = k
    <3> SUFFICES ASSUME NEW id \in Wanted(k)
                 PROVE  \E p \in Places : \E t \in At(p) : t.id = id /\ t.key = k
      OBVIOUS
    <3>1. CASE id \in Ids(Having(list, k))
      BY <3>1, <1>2 DEF Ids, Having
    <3>2. CASE \E i \in 1 .. top : id \in Ids(Having(loops[i].queue, k))
      BY <3>2, <2>2 DEF Ids, Having
    <3> QED
      BY <3>1, <3>2 DEF Wanted
  <2> QED
    BY <2>1, <2>3 DEF RemoveHere
<1>5. \A p \in Places : \A t \in At(p) : t.id \in ended' => p \in {0, active} /\ t.key = k
  <2> SUFFICES ASSUME NEW p \in Places, NEW t \in At(p), t.id \in ended'
               PROVE  p \in {0, active} /\ t.key = k
    OBVIOUS
  <2>1. t.id \in ended' \ ended
    BY <1>0 DEF Pending
  <2>2. PICK q \in {0, active} : \E u \in At(q) : u.id = t.id /\ u.key = k
    BY <2>1, <1>3
  <2>3. q \in Places
    BY <1>2
  <2>4. PICK u \in At(q) : u.id = t.id /\ u.key = k
    BY <2>2
  <2>5. t = u /\ p = q
    BY <2>3, <2>4, <1>0 DEF Unique
  <2> QED
    BY <2>4, <2>5
<1>6. /\ \A p \in Places : \A t \in At(p)' :
           \/ t \in At(p) /\ (p \in {0, active} => t.key # k)
           \/ p = 0 /\ adds' = adds + 1 /\ t.id = adds + 1
      /\ \A p \in Places : \A t \in At(p) : t \in At(p)' \/ (p \in {0, active} /\ t.key = k)
      /\ \A t, u \in list' : t.id = adds + 1 /\ u.id = adds + 1 => t = u
  <2>1. \A S : \A t : t \in Without(S, k) <=> t \in S /\ t.key # k
    BY DEF Without
  <2> QED
    BY <2>1, <1>1, <1>2
<1>7. Move
  <2>1. adds' = adds \/ (adds' = adds + 1 /\ \E q \in Places' : \E t \in At(q)' : t.id = adds + 1)
    BY <1>2
  <2>2. \A p \in Places' : \A t \in At(p)' :
          \/ t.id \notin ended' /\ \E q \in Places : t \in At(q)
          \/ adds' = adds + 1 /\ t.id = adds + 1
    BY <1>2, <1>5, <1>6
  <2>3. \A p, q \in Places' : \A t \in At(p)' : t \in At(q)' => p = q
    BY <1>0, <1>1, <1>2, <1>6 DEF Unique
  <2>4. \A p, q \in Places' : \A t \in At(p)', u \in At(q)' :
          t.id = adds + 1 /\ u.id = adds + 1 => t = u
    BY <1>1, <1>2, <1>6
  <2>5. \A p \in Places : \A t \in At(p) : t.id \in ended' \/ \E q \in Places' : t \in At(q)'
    BY <1>2, <1>3, <1>6
  <2> QED
    BY <1>3, <1>4, <2>1, <2>2, <2>3, <2>4, <2>5 DEF Move
<1>8. Reached'
  <2> SUFFICES ASSUME NEW p \in {0, active}, NEW t \in At(p)', t.id \in removed'
               PROVE  FALSE
    BY <1>2 DEF Reached
  <2>1. t \in At(p) /\ t.key # k
    <3>1. p \in Places /\ t.id # adds + 1
      BY <1>1, <1>2, <1>4
    <3> QED
      BY <3>1, <1>6
  <2>2. t.id \notin removed
    BY <2>1, <1>0 DEF Reached
  <2>3. PICK q \in Places : \E u \in At(q) : u.id = t.id /\ u.key = k
    BY <2>2, <1>4
  <2> QED
    BY <2>1, <2>3, <1>0, <1>2 DEF Unique
<1> QED
  BY <1>0, <1>7, <1>8, Moved DEF PlaceInv

LEMMA PlaceAddRemove ==
  ASSUME TypeInv, PlaceInv,
         \/ Drain
         \/ \E k \in Keys : Remove(k)
         \/ \E k \in Keys, ms \in Delays : Add(k, ms)
  PROVE  PlaceInv'
<1>0. TypeOK
  BY DEF TypeInv
<1>1. CASE Drain
  <2>1. PICK k : k = Head(deletes)
    OBVIOUS
  <2> QED
    BY <1>1, <2>1, PlaceRemove DEF Drain
<1>2. ASSUME NEW k \in Keys, Remove(k) PROVE PlaceInv'
  BY <1>2, PlaceRemove DEF Remove
<1>3. ASSUME NEW k \in Keys, NEW ms \in Delays, Add(k, ms) PROVE PlaceInv'
  <2>1. PICK r \in ILibGetUptime : Insert(NewTimer(k, ms, r), Without(list, k))
    BY <1>3 DEF Add
  <2>2. adds < MaxAdds
    BY <1>0, <1>3, TimersAssumption DEF Add, MayAdd, TypeOK
  <2>3. NewTimer(k, ms, r) \in Timer /\ NewTimer(k, ms, r).id = adds + 1
    BY <1>0, <2>2, NewTimerType
  <2>4. adds' = adds + 1 /\ active' = active /\ RemoveHere(k, loops)
    BY <1>3 DEF Add
  <2>5. \E t \in Timer : t.id = adds + 1 /\ list' = Without(list, k) \cup {t}
    BY <2>1, <2>3 DEF Insert
  <2> QED
    BY <2>4, <2>5, PlaceRemove
<1> QED
  BY <1>1, <1>2, <1>3

\* The other thread puts a timer in.
LEMMA PlaceInsert ==
  ASSUME TypeInv, PlaceInv, OtherInsert
  PROVE  PlaceInv'
<1>0. /\ TypeOK /\ OtherOK /\ Pending /\ Unique /\ Present /\ Reached
      /\ ended \subseteq 1 .. adds /\ removed \subseteq 1 .. adds /\ adds \in Nat /\ KnownOK
  BY DEF TypeInv, PlaceInv, TypeOK
<1>1. PICK r \in ILibGetUptime : Insert(NewTimer(other.key, other.ms, r), list)
  BY DEF OtherInsert
<1>2. other.key \in Keys /\ other.ms \in Delays /\ adds < MaxAdds
  <2>1. other \in [pc : {"insert"}, key : Keys, ms : Delays]
    BY <1>0 DEF OtherOK, Idle, OtherInsert
  <2>2. other.key \in Keys /\ other.ms \in Delays
    BY <2>1
  <2>3. other.ms # -1
    BY <2>2, TimersAssumption
  <2> QED
    BY <2>2, <2>3, <1>0 DEF OtherOK
<1>3. PICK n : n = NewTimer(other.key, other.ms, r)
  OBVIOUS
<1>4. n.id = adds + 1 /\ list' = list \cup {n}
  BY <1>0, <1>1, <1>2, <1>3, NewTimerType DEF Insert
<1>5. UNCHANGED <<active, loops, removed, ended>> /\ adds' = adds + 1
  BY DEF OtherInsert
<1>6. /\ Places' = Places /\ 0 \in Places /\ active \in Places /\ At(0) = list
      /\ \A p \in Places : At(p)' = IF p = 0 THEN At(p) \cup {n} ELSE At(p)
  BY <1>0, <1>4, <1>5, SamePlaces, PlacesType, TopFacts
<1>7. /\ \A p \in Places : \A t \in At(p) : t.id # adds + 1
      /\ adds + 1 \notin 1 .. adds
  <2>1. \A i \in 1 .. adds : i # adds + 1
    BY <1>0
  <2> QED
    BY <2>1, <1>0 DEF KnownOK
<1>8. Move
  <2>1. \A p \in Places' : \A t \in At(p)' :
          \/ t.id \notin ended' /\ \E q \in Places : t \in At(q)
          \/ adds' = adds + 1 /\ t.id = adds + 1
    BY <1>0, <1>4, <1>5, <1>6 DEF Pending
  <2>2. \A p, q \in Places' : \A t \in At(p)' : t \in At(q)' => p = q
    BY <1>0, <1>4, <1>6, <1>7 DEF Unique
  <2>3. \A p, q \in Places' : \A t \in At(p)', u \in At(q)' :
          t.id = adds + 1 /\ u.id = adds + 1 => t = u
    BY <1>6, <1>7
  <2> QED
    BY <1>0, <1>4, <1>5, <1>6, <2>1, <2>2, <2>3 DEF Move
<1>9. Reached'
  BY <1>0, <1>4, <1>5, <1>6, <1>7 DEF Reached
<1> QED
  BY <1>0, <1>8, <1>9, Moved DEF PlaceInv

LEMMA PlaceInit == Init => PlaceInv
<1> SUFFICES ASSUME Init PROVE PlaceInv
  OBVIOUS
<1>1. PICK w \in Waits : loops = <<Frame("post", w)>>
  BY DEF Init
<1>2. top = 1 /\ loops[1].queue = {} /\ loops[1].fires = {}
  BY <1>1 DEF Frame, top
<1>3. Places = -1 .. 1
  BY <1>2 DEF Places
<1>4. \A p \in Places : p = 0 \/ p = 1 \/ -p = 1
  BY <1>3
<1>5. \A p \in Places : At(p) = {}
  BY <1>2, <1>3, <1>4 DEF At, Init
<1>6. 0 \in Places /\ active = 0 /\ adds = 0
  BY <1>3 DEF Init
<1> QED
  BY <1>5, <1>6 DEF PlaceInv, Pending, Unique, Present, Reached

LEMMA PlaceStep == TypeInv /\ PlaceInv /\ [Next]_vars => PlaceInv'
<1> SUFFICES ASSUME TypeInv, PlaceInv, [Next]_vars PROVE PlaceInv'
  OBVIOUS
<1>1. CASE UNCHANGED vars \/ EndContinue \/ ILibStopChain \/ OtherDefer \/ OtherCount
           \/ TimePasses
           \/ (\E k \in Keys : OtherRemove(k)) \/ (\E k \in Keys, ms \in Delays : OtherAdd(k, ms))
  <2>1. UNCHANGED <<list, active, loops, adds, removed, ended>>
    BY <1>1 DEF vars, shared, EndContinue, ILibStopChain, OtherDefer, OtherCount, TimePasses,
                OtherRemove, OtherAdd
  <2>2. SameTimers
    BY <2>1, SamePlaces, TopFacts DEF SameTimers, TypeInv
  <2> QED
    BY <2>2, PlaceSame
<1>2. CASE Next
  BY <1>1, <1>2, CalmSteps, PlaceSame, PlaceNest, PlaceScan, PlaceFire, PlaceReturn,
     PlaceAddRemove, PlaceInsert DEF Next, LoopStep
<1> QED
  BY <1>1, <1>2

\* A timer is never in two places and never lost; that is FiresOnce.
LEMMA OncePlaced == TypeInv /\ PlaceInv => FiresOnce
<1> SUFFICES ASSUME TypeInv, PlaceInv, NEW id \in 1 .. adds
             PROVE  IF id \in ended THEN PlacesOf(id) = {}
                    ELSE \E p \in Places : PlacesOf(id) = {p}
  BY DEF FiresOnce
<1>1. CASE id \in ended
  BY <1>1 DEF PlacesOf, Ids, PlaceInv, Pending
<1>2. CASE id \notin ended
  <2>1. PICK p \in Places : id \in Ids(At(p))
    BY <1>2 DEF PlaceInv, Present
  <2>2. \A q \in Places : id \in Ids(At(q)) => q = p
    BY <2>1 DEF PlaceInv, Unique, Ids
  <2> QED
    BY <1>2, <2>1, <2>2 DEF PlacesOf
<1> QED
  BY <1>1, <1>2

LEMMA ActiveReached == TypeInv /\ PlaceInv => RemovalReaches
<1> SUFFICES ASSUME TypeInv, PlaceInv, NEW i \in 1 .. top, i = active
             PROVE  removed \cap Ids(loops[i].queue) = {}
  BY DEF RemovalReaches
<1>1. At(active) = loops[i].queue
  BY LoopType DEF TypeInv, At
<1> QED
  BY <1>1 DEF PlaceInv, Reached, Ids

\* Every timer fires once or is destroyed once, and never both or neither, however
\* callbacks, nested loops and the other thread add and remove.
THEOREM OnceCorrect == Spec => []FiresOnce
BY TypeInit, TypeStep, PlaceInit, PlaceStep, OncePlaced, PTL DEF Spec

\* A removal on the chain's thread reaches every timer that is about to fire, but for the
\* queue of an outer loop that ActiveList does not point to any more.
THEOREM RemovalCorrect == Spec => []RemovalReaches
BY TypeInit, TypeStep, PlaceInit, PlaceStep, ActiveReached, PTL DEF Spec

-----------------------------------------------------------------------------
(* TimeInv is inductive.                                                   *)

\* What numbers are compared.
LEMMA TimeTypes ==
  ASSUME TypeOK
  PROVE  /\ now \in Nat /\ Second \in Nat \ {0} /\ next \in Nat \cup {-1} /\ top \in Nat \ {0}
         /\ \A t \in list : t.tick \in Nat /\ t.due \in Nat /\ t.id \in Nat
         /\ \A i \in 1 .. top : /\ loops[i].at \in Nat /\ loops[i].tick \in Nat
                                /\ loops[i].until \in Nat /\ loops[i].took \in Nat
                                /\ loops[i].wait \in Nat
         /\ /\ loop.at \in Nat /\ loop.tick \in Nat /\ loop.until \in Nat /\ loop.took \in Nat
            /\ loop.wait \in Nat
         /\ \A u \in loop.missed : u.tick \in Nat /\ u.id \in Nat
<1>1. Second \in Nat \ {0} /\ Waits \subseteq Nat
  BY TimersAssumption
<1>2. \A t \in list : t.tick \in Nat /\ t.due \in Nat /\ t.id \in Nat
  BY TimersAssumption DEF TypeOK, Timer
<1>3. \A f \in LoopFrame : /\ f.at \in Nat /\ f.tick \in Nat /\ f.until \in Nat /\ f.took \in Nat
                           /\ f.wait \in Nat
  BY <1>1 DEF LoopFrame
<1>4. \A f \in LoopFrame : \A u \in f.missed : u.tick \in Nat /\ u.id \in Nat
  BY TimersAssumption DEF LoopFrame, Timer
<1> QED
  BY <1>1, <1>2, <1>3, <1>4, LoopType DEF TypeOK

\* What is not yet counted changes only with the call of the other thread and with
\* NextTriggerTick.
LEMMA UncountedSame ==
  ASSUME UNCHANGED <<next, other>>
  PROVE  Uncounted' = Uncounted
BY DEF Uncounted, Sooner

\* NextTriggerTick is early enough for fewer timers.
LEMMA NextFewer ==
  ASSUME NextOK, loop.pc # "scan" \/ loop'.pc = "scan", list' \subseteq list, next' = next,
         Uncounted \subseteq Uncounted'
  PROVE  NextOK'
BY DEF NextOK

\* What ClockOK asks of a frame.
GoodClock(f) ==
  /\ f.pc \in {"test", "scan"} => f.at = now'
  /\ f.pc \in {"test", "scan", "fire", "call"} => f.at < f.tick + Second
  /\ f.pc \in {"fire", "call"} => \A t \in list' : f.at < t.due + 2 * Second

\* Loops keep what they know of the clock when timers are added now or are removed.
LEMMA ClockKept ==
  ASSUME TypeInv, ClockOK,
         \A i \in 1 .. top' :
           \/ i \in 1 .. top /\ /\ loops'[i].pc = loops[i].pc /\ loops'[i].at = loops[i].at
                                /\ loops'[i].tick = loops[i].tick
           \/ GoodClock(loops'[i]),
         now' = now \/ \A i \in 1 .. top' : loops'[i].pc \notin {"test", "scan"},
         \A t \in list' : t \in list \/ (t.due \in Nat /\ now <= t.due)
  PROVE  ClockOK'
<1>0. TypeOK
  BY DEF TypeInv
<1> SUFFICES ASSUME NEW i \in 1 .. top' PROVE GoodClock(loops'[i])
  BY DEF ClockOK, GoodClock
<1>1. CASE i \in 1 .. top /\ /\ loops'[i].pc = loops[i].pc /\ loops'[i].at = loops[i].at
                             /\ loops'[i].tick = loops[i].tick
  <2>1. loops[i].at <= now /\ loops[i].at \in Nat
    BY <1>0, <1>1, TimeTypes DEF TypeInv, AtOK
  <2>2. \A t \in list' : t \notin list => loops[i].at < t.due + 2 * Second
    BY <1>0, <2>1, TimeTypes
  <2> QED
    BY <1>1, <2>2 DEF ClockOK, GoodClock
<1> QED
  BY <1>1

\* Steps of the innermost loop to a place where it asks nothing of the clock.
LEMMA TimeIdle ==
  ASSUME TypeInv, TimeInv, NEW f, TopIs(f),
         f.pc \in {"top", "drain", "post", "destroy", "stopped", "sleep"},
         loop.pc # "scan", UNCHANGED <<now, next, other>>, list' \subseteq list,
         f.pc = "sleep" => /\ loop.pc = "pre" /\ pipe' = pipe
                           /\ f.until = loop.until /\ f.took = loop.took
                           /\ f.missed = loop.missed
  PROVE  TimeInv'
<1>1. TickOK' /\ NextOK'
  BY UncountedSame, NextFewer DEF TimeInv, TickOK
<1>2. ClockOK'
  <2>1. GoodClock(f)
    BY DEF GoodClock
  <2>2. \A i \in 1 .. top' : (i \in 1 .. top /\ loops'[i] = loops[i]) \/ GoodClock(loops'[i])
    BY <2>1 DEF TopIs
  <2> QED
    BY <2>2, ClockKept DEF TimeInv
<1>3. SleepOK'
  BY DEF TimeInv, SleepOK, Hidden, TopIs
<1> QED
  BY <1>1, <1>2, <1>3 DEF TimeInv

LEMMA TimeCalm ==
  ASSUME TypeInv, TimeInv, Round \/ LeaveChain \/ Sleep \/ Wake \/ WakeByOther \/ EndRound \/ Destroy
  PROVE  TimeInv'
<1>0. TypeOK
  BY DEF TypeInv
<1>1. \A p \in Pcs : [loop EXCEPT !.pc = p].pc = p
  BY <1>0, LoopType DEF LoopFrame
<1>2. CASE Round
  BY <1>0, <1>1, <1>2, GotoTop, TimeIdle DEF Round, Pcs, shared
<1>3. CASE LeaveChain
  BY <1>0, <1>1, <1>3, GotoTop, TimeIdle DEF LeaveChain, Pcs, shared
<1>4. CASE EndRound
  BY <1>0, <1>1, <1>4, GotoTop, TimeIdle DEF EndRound, Pcs, shared
<1>5. CASE Destroy
  <2>1. list' \subseteq list
    BY <1>5 DEF Destroy
  <2> QED
    BY <1>0, <1>1, <1>5, <2>1, GotoTop, TimeIdle DEF Destroy, Pcs
<1>6. CASE Sleep
  <2>1. /\ [loop EXCEPT !.pc = "sleep"].until = loop.until
        /\ [loop EXCEPT !.pc = "sleep"].took = loop.took
        /\ [loop EXCEPT !.pc = "sleep"].missed = loop.missed
    BY <1>0, LoopType DEF LoopFrame
  <2> QED
    BY <1>0, <1>1, <1>6, <2>1, GotoTop, TimeIdle DEF Sleep, Pcs, shared
<1>7. CASE Wake \/ WakeByOther
  <2>1. TopIs(Frame("post", loop.wait)) /\ Frame("post", loop.wait).pc = "post"
    BY <1>0, <1>7, WakeTop DEF Frame
  <2>2. loop.pc # "scan" /\ UNCHANGED <<now, next, other, list>>
    BY <1>7 DEF Wake, WakeByOther
  <2> QED
    BY <2>1, <2>2, TimeIdle
<1> QED
  BY <1>2, <1>3, <1>4, <1>5, <1>6, <1>7

LEMMA TimeRead ==
  ASSUME TypeInv, TimeInv, ReadClock \/ NoSkip
  PROVE  TimeInv'
<1>0. TypeOK
  BY DEF TypeInv
<1>1. CASE ReadClock
  <2>1. PICK r \in ILibGetUptime : TopIs([loop EXCEPT !.pc = "test", !.tick = r, !.at = now])
    BY <1>0, <1>1, ReadClockTop
  <2> DEFINE f == [loop EXCEPT !.pc = "test", !.tick = r, !.at = now]
  <2>2. f.pc = "test" /\ f.tick = r /\ f.at = now /\ TopIs(f)
    BY <1>0, <2>1, LoopType DEF LoopFrame
  <2> HIDE DEF f
  <2>3. UNCHANGED <<now, list, next, other>> /\ loop.pc = "drain"
    BY <1>1 DEF ReadClock, shared
  <2>4. r \in Nat /\ now < r + Second
    BY <1>0, Reading, TimeTypes
  <2>5. TickOK' /\ NextOK' /\ SleepOK'
    <3>1. NextOK'
      BY <2>3, UncountedSame, NextFewer DEF TimeInv
    <3> QED
      BY <2>2, <2>3, <3>1 DEF TimeInv, TickOK, SleepOK, TopIs
  <2>6. GoodClock(f)
    BY <2>2, <2>3, <2>4 DEF GoodClock
  <2>7. \A i \in 1 .. top' : (i \in 1 .. top /\ loops'[i] = loops[i]) \/ GoodClock(loops'[i])
    BY <2>2, <2>6 DEF TopIs
  <2>8. ClockOK'
    BY <2>3, <2>7, ClockKept DEF TimeInv
  <2> QED
    BY <2>5, <2>8 DEF TimeInv
<1>2. CASE NoSkip
  <2> DEFINE f == [loop EXCEPT !.pc = "scan", !.queue = {}]
  <2>1. TopIs(f)
    BY <1>0, <1>2, NoSkipTop
  <2>2. f.pc = "scan" /\ f.tick = loop.tick /\ f.at = loop.at
    BY <1>0, LoopType DEF LoopFrame
  <2> HIDE DEF f
  <2>3. UNCHANGED <<now, list>> /\ loop.pc = "test"
    BY <1>2 DEF NoSkip
  <2>4. loop.at = now /\ loop.at < loop.tick + Second
    BY <1>0, <2>3, LoopType DEF TimeInv, ClockOK, loop
  <2>5. TickOK' /\ NextOK' /\ SleepOK'
    BY <2>1, <2>2, <2>3 DEF TimeInv, TickOK, NextOK, SleepOK, TopIs
  <2>6. GoodClock(f)
    BY <2>2, <2>3, <2>4 DEF GoodClock
  <2>7. \A i \in 1 .. top' : (i \in 1 .. top /\ loops'[i] = loops[i]) \/ GoodClock(loops'[i])
    BY <2>1, <2>6 DEF TopIs
  <2>8. ClockOK'
    BY <2>3, <2>7, ClockKept DEF TimeInv
  <2> QED
    BY <2>5, <2>8 DEF TimeInv
<1> QED
  BY <1>1, <1>2

\* A timer that is not counted when the loop decides how long to sleep is missed, unless
\* the loop will be woken.
LEMMA MissedHidden ==
  ASSUME TypeOK, ~pipe, NEW t \in list, t \in Uncounted
  PROVE  \E u \in Missed : u.id <= t.id /\ u.tick <= t.tick
<1>1. t.id \in Nat /\ t.tick \in Nat
  BY TimeTypes
<1>2. t \in Missed
  BY DEF Missed
<1> QED
  BY <1>1, <1>2

\* The loop will sleep until the tick of NextTriggerTick.
LEMMA TimeSkip ==
  ASSUME TypeInv, TimeInv, Skip
  PROVE  TimeInv'
<1>0. TypeOK
  BY DEF TypeInv
<1> DEFINE f == [loop EXCEPT !.pc = "pre", !.took = 0, !.tick = 0, !.at = 0,
                             !.until = now + (next - loop.tick), !.missed = Missed]
<1>1. TopIs(f)
  BY SkipTop
<1>2. f.pc = "pre" /\ f.took = 0 /\ f.until = now + (next - loop.tick) /\ f.missed = Missed
  BY <1>0, LoopType DEF LoopFrame
<1> HIDE DEF f
<1>3. UNCHANGED <<now, list, next, pipe, other>> /\ loop.pc = "test" /\ next > 0
  BY DEF Skip, Skips, shared
<1>4. loop.at = now /\ loop.at < loop.tick + Second
  BY <1>0, <1>3, LoopType DEF TimeInv, ClockOK, loop
<1>5. TickOK' /\ NextOK'
  BY <1>3, UncountedSame, NextFewer DEF TimeInv, TickOK
<1>6. \A t \in list \ Uncounted : next <= t.tick /\ t.tick < t.due + Second
  BY <1>3 DEF TimeInv, NextOK, TickOK
<1>7. \A t \in list \ Uncounted : /\ f.until < t.tick + Second + f.took
                                  /\ f.until <= t.due + 3 * Second + f.took
  <2> SUFFICES ASSUME NEW t \in list \ Uncounted
               PROVE  /\ f.until < t.tick + Second + f.took
                      /\ f.until <= t.due + 3 * Second + f.took
    OBVIOUS
  <2>1. /\ now \in Nat /\ Second \in Nat \ {0} /\ next \in Nat \cup {-1} /\ loop.tick \in Nat
        /\ t.tick \in Nat /\ t.due \in Nat
    BY <1>0, TimeTypes
  <2>2. next <= t.tick /\ t.tick < t.due + Second
    BY <1>6
  <2>3. now < loop.tick + Second
    BY <1>4
  <2> QED
    BY <2>1, <2>2, <2>3, <1>2, <1>3
<1>8. SleepOK'
  <2>1. ~pipe => \A t \in list : t \in Uncounted => \E u \in f.missed : u.id <= t.id /\ u.tick <= t.tick
    BY <1>0, <1>2, MissedHidden
  <2> QED
    BY <1>1, <1>3, <1>7, <2>1 DEF SleepOK, Hidden, TopIs
<1>9. ClockOK'
  <2>1. GoodClock(f)
    BY <1>2 DEF GoodClock
  <2>2. \A i \in 1 .. top' : (i \in 1 .. top /\ loops'[i] = loops[i]) \/ GoodClock(loops'[i])
    BY <1>1, <2>1 DEF TopIs
  <2> QED
    BY <1>3, <2>2, ClockKept DEF TimeInv
<1> QED
  BY <1>5, <1>8, <1>9 DEF TimeInv

\* The loop will sleep for a second, or until the tick of NextTriggerTick.
LEMMA TimeEndCheck ==
  ASSUME TypeInv, TimeInv, EndCheck
  PROVE  TimeInv'
<1>0. TypeOK /\ AtOK
  BY DEF TypeInv
<1> DEFINE f == [loop EXCEPT !.pc = "pre", !.took = now - loop.at, !.tick = 0, !.at = 0,
                             !.until = now + BlockTime(loop.wait), !.missed = Missed]
<1>1. TopIs(f)
  BY EndCheckTop
<1>2. /\ f.pc = "pre" /\ f.took = now - loop.at /\ f.until = now + BlockTime(loop.wait)
      /\ f.missed = Missed
  BY <1>0, LoopType DEF LoopFrame
<1> HIDE DEF f
<1>3. UNCHANGED <<now, list, next, pipe, other>> /\ loop.pc = "fire"
  BY DEF EndCheck, shared
<1>4. /\ loop.at < loop.tick + Second
      /\ \A t \in list : loop.at < t.due + 2 * Second
  BY <1>0, <1>3, LoopType DEF TimeInv, ClockOK, loop
<1>5. TickOK' /\ NextOK'
  BY <1>3, UncountedSame, NextFewer DEF TimeInv, TickOK
<1>6. \A t \in list \ Uncounted : next # -1 /\ next <= t.tick /\ t.tick < t.due + Second
  BY <1>3 DEF TimeInv, NextOK, TickOK
<1>7. /\ now \in Nat /\ Second \in Nat \ {0} /\ next \in Nat \cup {-1} /\ loop.tick \in Nat
      /\ loop.at \in Nat /\ loop.wait \in Nat /\ loop.at <= now
  BY <1>0, TimeTypes, TopFacts
<1>8. BlockTime(loop.wait) <= Second \/ (next # -1 => BlockTime(loop.wait) <= next - loop.tick)
  BY <1>7 DEF BlockTime
<1>9. BlockTime(loop.wait) \in Nat
  BY <1>0, BlockTimeType
<1>10. ASSUME NEW t \in list \ Uncounted
       PROVE  /\ f.until <= now + Second \/ f.until < t.tick + Second + f.took
              /\ f.until <= t.due + 3 * Second + f.took
  <2>1. t.tick \in Nat /\ t.due \in Nat
    BY <1>0, TimeTypes
  <2>2. next # -1 /\ next <= t.tick /\ t.tick < t.due + Second
    BY <1>6
  <2>3. loop.at < t.due + 2 * Second
    BY <1>4
  <2>4. CASE BlockTime(loop.wait) <= Second
    BY <2>1, <2>3, <2>4, <1>2, <1>7, <1>9
  <2>5. CASE BlockTime(loop.wait) <= next - loop.tick
    <3>1. f.until <= now + (next - loop.tick)
      BY <2>5, <1>2, <1>7, <1>9
    <3>2. now + (next - loop.tick) < t.tick + Second + f.took
      BY <2>1, <2>2, <1>2, <1>4, <1>7
    <3> QED
      BY <3>1, <3>2, <2>1, <2>2, <1>2, <1>7, <1>9
  <2> QED
    BY <2>2, <2>4, <2>5, <1>8
<1>11. \/ f.until <= now + Second
       \/ \A t \in list \ Uncounted : f.until < t.tick + Second + f.took
  BY <1>10
<1>12. SleepOK'
  <2>1. ~pipe => \A t \in list : t \in Uncounted => \E u \in f.missed : u.id <= t.id /\ u.tick <= t.tick
    BY <1>0, <1>2, MissedHidden
  <2> QED
    BY <1>1, <1>3, <1>10, <1>11, <2>1 DEF SleepOK, Hidden, TopIs
<1>13. ClockOK'
  <2>1. GoodClock(f)
    BY <1>2 DEF GoodClock
  <2>2. \A i \in 1 .. top' : (i \in 1 .. top /\ loops'[i] = loops[i]) \/ GoodClock(loops'[i])
    BY <1>1, <2>1 DEF TopIs
  <2> QED
    BY <1>3, <2>2, ClockKept DEF TimeInv
<1> QED
  BY <1>5, <1>12, <1>13 DEF TimeInv

\* What the search leaves in the list is not due for less than two seconds.
LEMMA TimeScan ==
  ASSUME TypeInv, TimeInv, Scan
  PROVE  TimeInv'
<1>0. TypeOK
  BY DEF TypeInv
<1> DEFINE f == [loop EXCEPT !.pc = "fire", !.queue = {t \in list : Due(t, loop.tick)}]
<1>1. TopIs(f)
  BY <1>0, ScanTop
<1>2. f.pc = "fire" /\ f.at = loop.at /\ f.tick = loop.tick
  BY <1>0, LoopType DEF LoopFrame
<1> HIDE DEF f
<1>3. now' = now /\ loop.pc = "scan" /\ list' \subseteq list /\ next' = NextOf(list')
  BY DEF Scan
<1>4. loop.at < loop.tick + Second
  BY <1>0, <1>3, LoopType DEF TimeInv, ClockOK, loop
<1>5. TickOK'
  BY <1>3 DEF TimeInv, TickOK
<1>6. NextOK'
  <2>1. list' \in SUBSET Timer /\ next \in Nat \cup {-1}
    BY <1>0, <1>3 DEF TypeOK
  <2> QED
    BY <2>1, <1>3, NextAfterSearch DEF NextOK
<1>7. SleepOK'
  BY <1>1, <1>2 DEF SleepOK, TopIs
<1>8. GoodClock(f)
  <2>1. ASSUME NEW t \in list' PROVE loop.at < t.due + 2 * Second
    <3>1. t \in list /\ ~(t.tick < loop.tick)
      BY DEF Scan, Due
    <3>2. t.tick < t.due + Second
      BY <3>1 DEF TimeInv, TickOK
    <3> QED
      BY <3>1, <3>2, <1>0, <1>4, TimeTypes
  <2> QED
    BY <2>1, <1>2, <1>4 DEF GoodClock
<1>9. ClockOK'
  <2>1. \A i \in 1 .. top' : (i \in 1 .. top /\ loops'[i] = loops[i]) \/ GoodClock(loops'[i])
    BY <1>1, <1>8 DEF TopIs
  <2> QED
    BY <1>3, <2>1, ClockKept DEF TimeInv
<1> QED
  BY <1>5, <1>6, <1>7, <1>9 DEF TimeInv

LEMMA TimeFire ==
  ASSUME TypeInv, TimeInv, Fire \/ Return
  PROVE  TimeInv'
<1>0. TypeOK
  BY DEF TypeInv
<1>1. \E f : TopIs(f) /\ f.pc \in {"fire", "call"} /\ f.at = loop.at /\ f.tick = loop.tick
  <2>1. CASE Fire
    <3>1. PICK e \in loop.queue :
            TopIs([loop EXCEPT !.pc = "call", !.queue = loop.queue \ {e}, !.fires = {e}])
      BY <1>0, <2>1, FireTop
    <3> DEFINE f == [loop EXCEPT !.pc = "call", !.queue = loop.queue \ {e}, !.fires = {e}]
    <3>2. TopIs(f) /\ f.pc = "call" /\ f.at = loop.at /\ f.tick = loop.tick
      BY <1>0, <3>1, LoopType DEF LoopFrame
    <3> QED
      BY <3>2
  <2>2. CASE Return
    <3> DEFINE f == [loop EXCEPT !.pc = "fire", !.fires = {}]
    <3>1. TopIs(f)
      BY <1>0, <2>2, ReturnTop
    <3>2. f.pc = "fire" /\ f.at = loop.at /\ f.tick = loop.tick
      BY <1>0, LoopType DEF LoopFrame
    <3> QED
      BY <3>1, <3>2
  <2> QED
    BY <2>1, <2>2
<1>2. PICK f : TopIs(f) /\ f.pc \in {"fire", "call"} /\ f.at = loop.at /\ f.tick = loop.tick
  BY <1>1
<1>3. UNCHANGED <<now, list, next, other>> /\ loop.pc \in {"fire", "call"}
  BY DEF Fire, Return, shared
<1>4. GoodClock(loop)
  BY <1>0, <1>3, LoopType DEF TimeInv, ClockOK, GoodClock, loop
<1>5. GoodClock(f)
  BY <1>2, <1>3, <1>4 DEF GoodClock
<1>6. TickOK' /\ NextOK' /\ SleepOK'
  <2>1. NextOK'
    BY <1>3, UncountedSame, NextFewer DEF TimeInv
  <2> QED
    BY <1>2, <1>3, <2>1 DEF TimeInv, TickOK, SleepOK, TopIs
<1>7. ClockOK'
  <2>1. \A i \in 1 .. top' : (i \in 1 .. top /\ loops'[i] = loops[i]) \/ GoodClock(loops'[i])
    BY <1>2, <1>5 DEF TopIs
  <2> QED
    BY <1>3, <2>1, ClockKept DEF TimeInv
<1> QED
  BY <1>6, <1>7 DEF TimeInv

LEMMA TimeNest ==
  ASSUME TypeInv, TimeInv, LeaveContinue \/ \E w \in Waits : Continue(w)
  PROVE  TimeInv'
<1>0. TypeOK /\ InnerOK
  BY DEF TypeInv
<1>1. CASE LeaveContinue
  <2>1. /\ loops' \in Seq(LoopFrame) /\ top' = top - 1 /\ top > 1 /\ top \in Nat
        /\ \A i \in 1 .. top - 1 : loops'[i] = loops[i]
    BY <1>0, <1>1, LeaveTop, LoopType
  <2>2. UNCHANGED <<now, list, next, other>> /\ loop.pc = "top"
    BY <1>1 DEF LeaveContinue, shared
  <2>3. \A i \in 1 .. top' : i \in 1 .. top /\ loops'[i] = loops[i]
    BY <2>1
  <2>4. loop'.pc \in {"call", "post"}
    <3>1. top - 1 \in 1 .. top /\ top - 1 # top /\ loops'[top - 1] = loops[top - 1]
      BY <2>1
    <3>2. loop' = loops'[top - 1]
      BY <2>1 DEF loop
    <3> QED
      BY <3>1, <3>2, <1>0 DEF InnerOK
  <2>5. ClockOK'
    BY <2>2, <2>3, ClockKept DEF TimeInv
  <2>6. TickOK' /\ NextOK' /\ SleepOK'
    <3>1. NextOK'
      BY <2>2, UncountedSame, NextFewer DEF TimeInv
    <3> QED
      BY <2>2, <2>4, <3>1 DEF TimeInv, TickOK, SleepOK
  <2> QED
    BY <2>5, <2>6 DEF TimeInv
<1>2. ASSUME NEW w \in Waits, Continue(w) PROVE TimeInv'
  <2>1. /\ loops' \in Seq(LoopFrame) /\ top' = top + 1 /\ top \in Nat \ {0}
        /\ loops'[top + 1] = Frame("drain", w)
        /\ \A i \in 1 .. top : loops'[i] = loops[i]
    BY <1>0, <1>2, ContinueTop, LoopType
  <2>2. UNCHANGED <<now, list, next, other>> /\ loop.pc \in {"call", "post"}
    BY <1>2 DEF Continue, InScript, shared
  <2>3. loop' = Frame("drain", w) /\ Frame("drain", w).pc = "drain"
    BY <2>1 DEF loop, Frame
  <2>4. GoodClock(Frame("drain", w))
    BY <2>3 DEF GoodClock
  <2>5. \A i \in 1 .. top' : (i \in 1 .. top /\ loops'[i] = loops[i]) \/ GoodClock(loops'[i])
    BY <2>1, <2>4
  <2>6. ClockOK'
    BY <2>2, <2>5, ClockKept DEF TimeInv
  <2>7. TickOK' /\ NextOK' /\ SleepOK'
    <3>1. NextOK'
      BY <2>2, UncountedSame, NextFewer DEF TimeInv
    <3> QED
      BY <2>2, <2>3, <3>1 DEF TimeInv, TickOK, SleepOK
  <2> QED
    BY <2>6, <2>7 DEF TimeInv
<1> QED
  BY <1>1, <1>2

\* The loops are where they were.
SameClocks ==
  /\ top' = top
  /\ \A i \in 1 .. top : /\ loops'[i].pc = loops[i].pc /\ loops'[i].at = loops[i].at
                         /\ loops'[i].tick = loops[i].tick
  /\ loop'.pc = loop.pc /\ loop'.until = loop.until /\ loop'.took = loop.took
  /\ loop'.missed = loop.missed

LEMMA RemoveClocks ==
  ASSUME TypeOK, NEW k, RemoveHere(k, loops)
  PROVE  SameClocks
<1>1. /\ top' = top
      /\ \A i \in 1 .. top :
           loops'[i] = IF i = active THEN [loops[i] EXCEPT !.queue = Without(loops[i].queue, k)]
                       ELSE loops[i]
  BY RemoveTop
<1>2. ASSUME NEW i \in 1 .. top
      PROVE  /\ loops'[i].pc = loops[i].pc /\ loops'[i].at = loops[i].at
             /\ loops'[i].tick = loops[i].tick
             /\ loops'[i].until = loops[i].until /\ loops'[i].took = loops[i].took
             /\ loops'[i].missed = loops[i].missed
  <2> DEFINE q == Without(loops[i].queue, k)
  <2>1. loops'[i] = IF i = active THEN [loops[i] EXCEPT !.queue = q] ELSE loops[i]
    BY <1>1
  <2>2. loops[i] \in LoopFrame
    BY LoopType
  <2> HIDE DEF q
  <2> QED
    BY <2>1, <2>2 DEF LoopFrame
<1>3. top \in 1 .. top /\ loop = loops[top] /\ loop' = loops'[top]
  BY <1>1, LoopType DEF loop
<1> QED
  BY <1>1, <1>2, <1>3 DEF SameClocks

LEMMA LoopsClocks ==
  ASSUME UNCHANGED loops
  PROVE  SameClocks
BY DEF SameClocks, loop, top

\* Timers are removed, the chain is woken, or time passes while it sleeps.
LEMMA TimeFewer ==
  ASSUME TypeInv, TimeInv, SameClocks, list' \subseteq list, NextOK', ~pipe' => ~pipe,
         now' = now \/ (now' = now + 1 /\ loop.pc = "sleep")
  PROVE  TimeInv'
<1>0. TypeOK /\ InnerOK
  BY DEF TypeInv
<1>1. TickOK'
  BY DEF TimeInv, TickOK
<1>2. NextOK'
  OBVIOUS
<1>3. ClockOK'
  <2>1. now' = now \/ \A i \in 1 .. top' : loops'[i].pc \notin {"test", "scan"}
    <3>1. loop.pc = "sleep" => \A i \in 1 .. top : loops[i].pc \notin {"test", "scan"}
      BY <1>0 DEF InnerOK, loop
    <3> QED
      BY <3>1 DEF SameClocks
  <2>2. \A i \in 1 .. top' :
          i \in 1 .. top /\ /\ loops'[i].pc = loops[i].pc /\ loops'[i].at = loops[i].at
                            /\ loops'[i].tick = loops[i].tick
    BY DEF SameClocks
  <2> QED
    BY <2>1, <2>2, ClockKept DEF TimeInv
<1>4. SleepOK'
  <2> SUFFICES ASSUME loop'.pc \in {"pre", "sleep"}, ~pipe'
               PROVE  /\ \A t \in list' :
                           Hidden(t) \/ loop'.until <= t.due + 3 * Second + loop'.took
                      /\ \/ loop'.until <= now' + Second
                         \/ \A t \in list' :
                              Hidden(t) \/ loop'.until < t.tick + Second + loop'.took
    BY DEF SleepOK, Hidden, SameClocks
  <2>1. /\ \A t \in list : Hidden(t) \/ loop.until <= t.due + 3 * Second + loop.took
        /\ \/ loop.until <= now + Second
           \/ \A t \in list : Hidden(t) \/ loop.until < t.tick + Second + loop.took
    BY DEF TimeInv, SleepOK, SameClocks
  <2>2. loop.until <= now + Second => loop.until <= now' + Second
    BY <1>0, TimeTypes
  <2> QED
    BY <2>1, <2>2 DEF SameClocks
<1> QED
  BY <1>1, <1>2, <1>3, <1>4 DEF TimeInv

\* A timer that is put in, or was not counted, is counted.
LEMMA CountNext ==
  ASSUME TypeInv, TimeInv, SameClocks, NEW n \in Timer, Count(n), Uncounted \subseteq {n},
         list' \subseteq list \cup {n}
  PROVE  NextOK'
<1>0. TypeOK
  BY DEF TypeInv
<1>1. n.tick \in Nat /\ next \in Nat \cup {-1}
  BY <1>0, TimeTypes DEF Timer
<1>2. next' = IF next = -1 \/ n.tick < next THEN n.tick ELSE next
  BY DEF Count, Sooner
<1>3. next' # -1 /\ next' <= n.tick /\ (next # -1 => next' <= next)
  BY <1>1, <1>2
<1>4. ASSUME loop.pc # "scan", NEW t \in list, t # n PROVE next' <= t.tick
  <2>1. next # -1 /\ next <= t.tick /\ t.tick \in Nat
    BY <1>0, <1>4, TimeTypes DEF TimeInv, NextOK
  <2> QED
    BY <2>1, <1>1, <1>2
<1> QED
  BY <1>3, <1>4 DEF NextOK, SameClocks

\* A timer is put in: unless it is the new head, one before it bounds the sleep, or hides
\* it.
LEMMA TimeInsert ==
  ASSUME TypeInv, TimeInv, SameClocks, now' = now, NEW s \in SUBSET list, NextOK',
         NEW n \in Timer, n.id = adds + 1, now <= n.due, n.tick < n.due + Second, Insert(n, s)
  PROVE  TimeInv'
<1>0. TypeOK
  BY DEF TypeInv
<1>1. /\ now \in Nat /\ Second \in Nat \ {0} /\ next \in Nat \cup {-1} /\ loop.until \in Nat
      /\ loop.took \in Nat /\ n.tick \in Nat /\ n.due \in Nat /\ n.id \in Nat
  BY <1>0, TimeTypes, TimersAssumption DEF Timer
<1>2. list' = s \cup {n}
  BY DEF Insert
<1>3. TickOK'
  BY <1>2 DEF TimeInv, TickOK
<1>4. NextOK'
  OBVIOUS
<1>5. ClockOK'
  <2>1. \A i \in 1 .. top' :
          i \in 1 .. top /\ /\ loops'[i].pc = loops[i].pc /\ loops'[i].at = loops[i].at
                            /\ loops'[i].tick = loops[i].tick
    BY DEF SameClocks
  <2>2. \A t \in list' : t \in list \/ (t.due \in Nat /\ now <= t.due)
    BY <1>1, <1>2
  <2> QED
    BY <2>1, <2>2, ClockKept DEF TimeInv
<1>6. SleepOK'
  <2> SUFFICES ASSUME loop.pc \in {"pre", "sleep"}, ~pipe'
               PROVE  /\ \A t \in list' : Hidden(t) \/ loop.until <= t.due + 3 * Second + loop.took
                      /\ \/ loop.until <= now + Second
                         \/ \A t \in list' : Hidden(t) \/ loop.until < t.tick + Second + loop.took
    BY DEF SleepOK, Hidden, SameClocks
  <2>1. ~pipe /\ ~IsHead(n, list')
    BY DEF Insert
  <2>2. /\ \A t \in list : Hidden(t) \/ loop.until <= t.due + 3 * Second + loop.took
        /\ \/ loop.until <= now + Second
           \/ \A t \in list : Hidden(t) \/ loop.until < t.tick + Second + loop.took
    BY <2>1 DEF TimeInv, SleepOK
  <2>3. PICK u \in s : ~Before(n, u)
    BY <2>1, <1>2 DEF IsHead
  <2>4. u.tick \in Nat /\ u.tick <= n.tick /\ u.id \in Nat /\ u.id <= n.id
    <3>1. u.tick \in Nat /\ u.id \in Nat
      BY <1>0, TimeTypes
    <3>2. At(0) = list /\ 0 \in Places
      BY <1>0, TopFacts, PlacesType
    <3>3. u.id \in 1 .. adds /\ adds \in Nat
      BY <1>0, <3>2 DEF TypeInv, KnownOK, TypeOK
    <3> QED
      BY <3>1, <3>3, <2>3, <1>1 DEF Before
  <2>5. Hidden(u) => Hidden(n)
    <3>1. \A v \in loop.missed : v.tick \in Nat /\ v.id \in Nat
      BY <1>0, TimeTypes
    <3> QED
      BY <3>1, <2>4, <1>1 DEF Hidden
  <2>6. \/ loop.until <= now + Second
        \/ Hidden(n) \/ loop.until < n.tick + Second + loop.took
    BY <2>2, <2>4, <2>5, <1>1
  <2>7. Hidden(n) \/ loop.until <= n.due + 3 * Second + loop.took
    BY <2>6, <1>1
  <2> QED
    BY <2>2, <2>6, <2>7, <1>2
<1> QED
  BY <1>3, <1>4, <1>5, <1>6 DEF TimeInv

LEMMA TimeAddRemove ==
  ASSUME TypeInv, TimeInv,
         \/ Drain
         \/ \E k \in Keys : Remove(k)
         \/ \E k \in Keys, ms \in Delays : Add(k, ms)
         \/ OtherInsert \/ OtherCount
  PROVE  TimeInv'
<1>0. TypeOK /\ OtherOK
  BY DEF TypeInv
<1>1. CASE Drain
  <2>1. PICK k : k = Head(deletes)
    OBVIOUS
  <2>2. RemoveHere(k, loops) /\ list' = Without(list, k) /\ UNCHANGED <<now, next, pipe, other>>
    BY <1>1, <2>1 DEF Drain
  <2>3. SameClocks
    BY <1>0, <2>2, RemoveClocks
  <2>4. list' \subseteq list
    BY <2>2 DEF Without
  <2>5. pipe \in BOOLEAN
    BY <1>0 DEF TypeOK
  <2>6. NextOK'
    BY <2>2, <2>3, <2>4, UncountedSame, NextFewer DEF TimeInv, SameClocks
  <2> QED
    BY <2>2, <2>3, <2>4, <2>5, <2>6, TimeFewer
<1>2. ASSUME NEW k \in Keys, Remove(k) PROVE TimeInv'
  <2>1. RemoveHere(k, loops) /\ list' = Without(list, k) /\ UNCHANGED <<now, next, pipe, other>>
    BY <1>2 DEF Remove
  <2>2. SameClocks
    BY <1>0, <2>1, RemoveClocks
  <2>3. list' \subseteq list
    BY <2>1 DEF Without
  <2>4. pipe \in BOOLEAN
    BY <1>0 DEF TypeOK
  <2>5. NextOK'
    BY <2>1, <2>2, <2>3, UncountedSame, NextFewer DEF TimeInv, SameClocks
  <2> QED
    BY <2>1, <2>2, <2>3, <2>4, <2>5, TimeFewer
<1>3. ASSUME NEW k \in Keys, NEW ms \in Delays, Add(k, ms) PROVE TimeInv'
  <2>1. PICK r \in ILibGetUptime : /\ Insert(NewTimer(k, ms, r), Without(list, k))
                                    /\ Count(NewTimer(k, ms, r))
    BY <1>3 DEF Add
  <2>2. adds < MaxAdds
    BY <1>0, <1>3, TimersAssumption DEF Add, MayAdd, TypeOK
  <2>3. PICK n : n = NewTimer(k, ms, r)
    OBVIOUS
  <2>4. PICK s : s = Without(list, k)
    OBVIOUS
  <2>5. n \in Timer /\ n.id = adds + 1 /\ now <= n.due /\ n.tick < n.due + Second
    <3>1. n \in Timer /\ n.id = adds + 1 /\ n.due = now + ms /\ n.tick < now + ms + Second
      BY <1>0, <2>2, <2>3, NewTimerType
    <3>2. ms \in Nat /\ now \in Nat
      BY <1>0, TimersAssumption DEF TypeOK
    <3> QED
      BY <3>1, <3>2
  <2>6. Insert(n, s) /\ s \in SUBSET list
    BY <2>1, <2>3, <2>4 DEF Without
  <2>7. SameClocks /\ now' = now
    BY <1>0, <1>3, RemoveClocks DEF Add
  <2>8. NextOK'
    <3>1. Uncounted = {}
      BY <1>3 DEF Add, ListFree, Uncounted
    <3>2. list' \subseteq list \cup {n} /\ Count(n)
      BY <2>1, <2>3, <2>6 DEF Insert
    <3> QED
      BY <2>5, <2>7, <3>1, <3>2, CountNext
  <2> QED
    BY <2>5, <2>6, <2>7, <2>8, TimeInsert
<1>4. CASE OtherInsert
  <2>1. PICK r \in ILibGetUptime :
          /\ Insert(NewTimer(other.key, other.ms, r), list)
          /\ other' = [pc |-> "count", ms |-> -1, timer |-> NewTimer(other.key, other.ms, r)]
    BY <1>4 DEF OtherInsert
  <2>2. other.key \in Keys /\ other.ms \in Delays /\ adds < MaxAdds
    <3>1. other \in [pc : {"insert"}, key : Keys, ms : Delays]
      BY <1>0, <1>4 DEF OtherOK, Idle, OtherInsert
    <3>2. other.key \in Keys /\ other.ms \in Delays
      BY <3>1
    <3>3. other.ms # -1
      BY <3>2, TimersAssumption
    <3> QED
      BY <3>2, <3>3, <1>0 DEF OtherOK
  <2>3. PICK n : n = NewTimer(other.key, other.ms, r)
    OBVIOUS
  <2>4. PICK s : s = list
    OBVIOUS
  <2>5. n \in Timer /\ n.id = adds + 1 /\ now <= n.due /\ n.tick < n.due + Second
    <3>1. /\ n \in Timer /\ n.id = adds + 1 /\ n.due = now + other.ms
          /\ n.tick < now + other.ms + Second
      BY <1>0, <2>2, <2>3, NewTimerType
    <3>2. other.ms \in Nat /\ now \in Nat
      BY <1>0, <2>2, TimersAssumption DEF TypeOK
    <3> QED
      BY <3>1, <3>2
  <2>6. Insert(n, s) /\ s \in SUBSET list
    BY <2>1, <2>3, <2>4
  <2>7. SameClocks /\ now' = now
    BY <1>4, LoopsClocks DEF OtherInsert
  <2>8. NextOK'
    <3>1. Uncounted = {} /\ next' = next
      BY <1>4 DEF OtherInsert, Uncounted
    <3>2. list' = list \cup {n} /\ other'.pc = "count" /\ other'.timer = n
      BY <2>1, <2>3, <2>4 DEF Insert
    <3>3. Uncounted' = IF next = -1 \/ n.tick < next THEN {n} ELSE {}
      BY <3>1, <3>2 DEF Uncounted, Sooner
    <3>4. n.tick \in Nat /\ next \in Nat \cup {-1}
      BY <1>0, <2>5, TimeTypes DEF Timer
    <3>5. n \notin Uncounted' => next # -1 /\ next <= n.tick
      BY <3>3, <3>4
    <3> QED
      BY <2>7, <3>1, <3>2, <3>5 DEF TimeInv, NextOK, SameClocks
  <2> QED
    BY <2>5, <2>6, <2>7, <2>8, TimeInsert
<1>5. CASE OtherCount
  <2>1. /\ UNCHANGED <<now, list, pipe, loops>> /\ Count(other.timer) /\ other.pc = "count"
    BY <1>5 DEF OtherCount
  <2>2. other \in [pc : {"count"}, ms : {-1}, timer : Timer]
    BY <1>0, <2>1 DEF OtherOK, Idle
  <2>3. PICK n \in Timer : n = other.timer
    BY <2>2
  <2>4. SameClocks
    BY <2>1, LoopsClocks
  <2>5. Uncounted \subseteq {n} /\ Count(n)
    BY <2>1, <2>3 DEF Uncounted
  <2>6. NextOK'
    BY <2>1, <2>4, <2>5, CountNext
  <2>7. pipe \in BOOLEAN
    BY <1>0 DEF TypeOK
  <2> QED
    BY <2>1, <2>4, <2>6, <2>7, TimeFewer
<1> QED
  BY <1>1, <1>2, <1>3, <1>4, <1>5

LEMMA TimeOthers ==
  ASSUME TypeInv, TimeInv,
         \/ UNCHANGED vars \/ EndContinue \/ ILibStopChain \/ OtherDefer \/ TimePasses
         \/ \E k \in Keys : OtherRemove(k)
         \/ \E k \in Keys, ms \in Delays : OtherAdd(k, ms)
  PROVE  TimeInv'
<1>1. UNCHANGED <<loops, list, next>>
  BY DEF vars, shared, EndContinue, ILibStopChain, OtherDefer, TimePasses, OtherRemove, OtherAdd
<1>2. now' = now \/ (now' = now + 1 /\ loop.pc = "sleep")
  BY DEF vars, EndContinue, ILibStopChain, OtherDefer, TimePasses, OtherRemove, OtherAdd
<1>3. pipe' = pipe \/ pipe' = TRUE
  BY DEF vars, shared, EndContinue, ILibStopChain, OtherDefer, TimePasses, OtherRemove, OtherAdd
<1>4. pipe \in BOOLEAN
  BY DEF TypeInv, TypeOK
<1>5. ~pipe' => ~pipe
  BY <1>3, <1>4
<1>6. SameClocks
  BY <1>1, LoopsClocks
<1>7. Uncounted \subseteq Uncounted'
  <2>1. CASE other' = other
    BY <1>1, <2>1, UncountedSame
  <2>2. CASE other' # other
    <3>1. other.pc # "count"
      BY <2>2 DEF vars, EndContinue, ILibStopChain, OtherDefer, TimePasses, OtherRemove, OtherAdd,
                  MayCall, Idle
    <3> QED
      BY <3>1 DEF Uncounted
  <2> QED
    BY <2>1, <2>2
<1>8. NextOK'
  BY <1>1, <1>6, <1>7, NextFewer DEF TimeInv, SameClocks
<1> QED
  BY <1>1, <1>2, <1>5, <1>6, <1>8, TimeFewer

LEMMA TimeInit == Init => TimeInv
<1> SUFFICES ASSUME Init PROVE TimeInv
  OBVIOUS
<1>1. PICK w \in Waits : loops = <<Frame("post", w)>>
  BY DEF Init
<1>2. top = 1 /\ loops[1].pc = "post" /\ loop.pc = "post"
  BY <1>1 DEF Frame, top, loop
<1>3. list = {}
  BY DEF Init
<1> QED
  BY <1>2, <1>3 DEF TimeInv, TickOK, NextOK, ClockOK, SleepOK

LEMMA TimeStep == TypeInv /\ TimeInv /\ [Next]_vars => TimeInv'
<1> SUFFICES ASSUME TypeInv, TimeInv, [Next]_vars PROVE TimeInv'
  OBVIOUS
<1>1. CASE UNCHANGED vars
  BY <1>1, TimeOthers
<1>2. CASE Next
  BY <1>2, TimeCalm, TimeRead, TimeSkip, TimeEndCheck, TimeScan, TimeFire, TimeNest,
     TimeAddRemove, TimeOthers DEF Next, LoopStep
<1> QED
  BY <1>1, <1>2

\* A loop that sleeps and has not been woken looks at the list at most three seconds after
\* a timer is due, and the time that its callbacks took, unless the timer is hidden: its
\* wake-up came before NextTriggerTick was brought up to date, and was used up.
THEOREM SleepCorrect == Spec => []NoOversleep
<1>1. TimeInv => NoOversleep
  BY DEF TimeInv, SleepOK, NoOversleep
<1> QED
  BY <1>1, TypeInit, TypeStep, TimeInit, TimeStep, PTL DEF Spec
=============================================================================

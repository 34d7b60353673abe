-------------------------------- MODULE Timers --------------------------------
(***************************************************************************)
(* The timers of the chain, ILibLifeTime in microstack/ILibParsers.c, with *)
(* the loop that drives them (ILibStartChain), the loop that a callback    *)
(* may run inside it (ILibChain_Continue) and one thread that is not the   *)
(* chain's.  Steps are the parts of ILibLifeTime_Check, _Remove and _AddEx4 *)
(* between which the other of the two can come in.  The reads of           *)
(* NextTriggerTick in one test are one read.                               *)
(*                                                                         *)
(* Time is `now', in milliseconds.  What the code reads, ILibGetUptime, is *)
(* not that: on POSIX it adds the microseconds modulo 1000 to the seconds, *)
(* so the reading says the second and is arbitrary within it.  A second,   *)
(* 1000 ms in the code, is the constant Second here.                       *)
(***************************************************************************)
EXTENDS Integers, Sequences

CONSTANTS Keys,       \* data pointers, which name the timers
          Delays,     \* the ms that a timer is given
          Second,     \* ms per second
          Waits,      \* block times that the loop starts from (24 h, or that of a wait)
          Settings,   \* kinds of use: is there another thread, how deep do loops nest
          MaxAdds,    \* bound: timers added
          MaxDeletes, \* bound: removals deferred at a time
          MaxNow      \* bound: ms that pass

ASSUME TimersAssumption ==
  /\ Delays \subseteq Nat /\ Waits \subseteq Nat /\ Waits # {}
  /\ Second \in Nat \ {0}
  /\ Settings \subseteq [threaded : BOOLEAN, depth : Nat \ {0}]
  /\ MaxAdds \in Nat /\ MaxDeletes \in Nat /\ MaxNow \in Nat

VARIABLES use,        \* the kind of use in this behaviour
          now,
          list,       \* ObjectList: the timers in it, whose order is Before
          active,     \* ActiveList: the loop whose queue it points to, 0 for NULL
          next,       \* NextTriggerTick, -1 for none
          deletes,    \* DeleteList, a sequence of keys
          pipe,       \* the pipe of ILibForceUnBlockChain has something in it
          loops,      \* the main loop and those of ILibChain_Continue, innermost last
          cont,       \* continuationState
          stop,       \* TerminateFlag
          other,      \* the call under way on the other thread
          adds,       \* history: timers added so far
          removed,    \* history: those whose removal was asked for on the chain's thread
          ended       \* history: those that have fired or have been destroyed

shared == <<list, next, deletes, pipe>>
vars == <<use, now, shared, active, loops, cont, stop, other, adds, removed, ended>>

-----------------------------------------------------------------------------
(* What the steps are made of.                                             *)

\* What ILibGetUptime may return.
ILibGetUptime == {(now \div Second) * Second + x : x \in 0 .. (Second - 1)}

top  == Len(loops)
loop == loops[top]

\* The innermost loop goes on at pc p.
Goto(p) == loops' = [loops EXCEPT ![top].pc = p]

\* ExpirationTick: a timer without a delay has tick 0 and fires in the next round.
Tick(ms, reading) == IF ms = 0 THEN 0 ELSE reading + ms

\* Mutant of Without: nothing is taken out.
WithoutNone(s, k) == s

Ids(s) == {t.id : t \in s}
Without(s, k) == {t \in s : t.key # k}
Having(s, k)  == {t \in s : t.key = k}

\* The order of ObjectList, and of a queue, which is filled from it: a timer is put in
\* before the first that is later, so ticks rise and, of equal ticks, the older is first.
Before(t, u) == t.tick < u.tick \/ (t.tick = u.tick /\ t.id < u.id)
IsHead(t, s) == t \in s /\ \A u \in s : u = t \/ Before(t, u)

\* Mutant of Insert: the loop is not woken.
InsertUnwoken(t, s) ==
  /\ list' = s \cup {t}
  /\ UNCHANGED pipe

\* ILibLifeTime_AddEx4 with the lock of ObjectList: timer t goes into the list s, and a
\* new head wakes the loop.
Insert(t, s) ==
  /\ list' = s \cup {t}
  /\ pipe' = (pipe \/ IsHead(t, list'))

\* Then, still with the lock: "If this notification is sooner than the existing one,
\* replace it."
Sooner(t) == next = -1 \/ t.tick < next
Count(t)  == next' = IF Sooner(t) THEN t.tick ELSE next

\* A new timer: `due' is when it should fire.
NewTimer(k, ms, reading) ==
  [id |-> adds + 1, key |-> k, tick |-> Tick(ms, reading), due |-> now + ms]

\* The queue that ILibLifeTime_Remove looks into besides the list.
ActiveQueue == IF active = 0 THEN {} ELSE loops[active].queue

\* The timers that are pending under a key, wherever they are.
Wanted(k) == Ids(Having(list, k)) \cup UNION {Ids(Having(loops[i].queue, k)) : i \in 1 .. top}

\* Mutant of RemoveHere: ActiveList is not looked into.
RemoveHereListOnly(k, ls) ==
  /\ loops' = ls
  /\ removed' = removed \cup Wanted(k)
  /\ ended' = ended \cup Ids(Having(list, k))

\* The whole of ILibLifeTime_Remove(k) on the chain's thread, but for the list, which
\* its users set; ls are the loops as its caller leaves them.  Every timer of that key is
\* destroyed, whether it is in the list or in the queue that ActiveList points to.
RemoveHere(k, ls) ==
  /\ loops' = IF active = 0 THEN ls ELSE [ls EXCEPT ![active].queue = Without(@, k)]
  /\ removed' = removed \cup Wanted(k)
  /\ ended' = ended \cup Ids(Having(list, k)) \cup Ids(Having(ActiveQueue, k))

-----------------------------------------------------------------------------
(* What callbacks and handlers do, on the chain's thread.                  *)

\* Code of the agent is running: a timer's callback, or the handlers of the links after
\* the base timer, before (PreSelect) or after (PostSelect) the loop has slept, or while
\* the chain is destroyed.
InHandler == loop.pc \in {"call", "pre", "post", "destroy"}

\* Scripts run in timers' callbacks and in PostSelect handlers.
InScript == loop.pc \in {"call", "post"}

\* The bounds leave room for a timer, and for the one that the other thread is adding.
MayAdd == adds + (IF other.ms # -1 THEN 1 ELSE 0) < MaxAdds /\ now <= MaxNow

\* The other thread does not have the lock of ObjectList between two of its steps.
ListFree == other.pc # "count"

Add(k, ms) ==
  /\ InHandler /\ MayAdd /\ ListFree
  /\ RemoveHere(k, loops)
  /\ \E reading \in ILibGetUptime :
       LET t == NewTimer(k, ms, reading) IN Insert(t, Without(list, k)) /\ Count(t)
  /\ adds' = adds + 1
  /\ UNCHANGED <<use, now, active, deletes, cont, stop, other>>

Remove(k) ==
  /\ InHandler /\ ListFree
  /\ Wanted(k) # {}
  /\ RemoveHere(k, loops)
  /\ list' = Without(list, k)
  /\ UNCHANGED <<use, now, next, deletes, pipe, active, cont, stop, other, adds>>

\* A loop: `wait' is the block time it starts from, `until' when its select ends, `took'
\* how long the callbacks of the round have taken, `missed' the timer that `until' does
\* not take into account (history).
Frame(pc, w) == [pc |-> pc, wait |-> w, tick |-> 0, at |-> 0, queue |-> {}, fires |-> {},
                 until |-> 0, took |-> 0, missed |-> {}]

\* ILibChain_Continue: a callback waits for a process or for a promise.  The first round
\* of the inner loop begins.
Continue(w) ==
  /\ InScript /\ top < use.depth
  /\ cont # "continue" /\ ~stop
  /\ cont' = "continue"
  /\ loops' = Append(loops, Frame("drain", w))
  /\ UNCHANGED <<use, now, shared, active, stop, other, adds, removed, ended>>

\* ILibChain_EndContinue: what is waited for has happened.
EndContinue ==
  /\ InScript /\ cont = "continue"
  /\ cont' = "end" /\ pipe' = TRUE
  /\ UNCHANGED <<use, now, list, next, deletes, active, loops, stop, other, adds, removed, ended>>

ILibStopChain ==
  /\ InHandler /\ ~stop
  /\ stop' = TRUE /\ pipe' = TRUE
  /\ UNCHANGED <<use, now, list, next, deletes, active, loops, cont, other, adds, removed, ended>>

-----------------------------------------------------------------------------
(* The loops: ILibStartChain and ILibChain_Continue.                       *)

\* A round begins, the main loop's or an inner one's.
Round ==
  /\ loop.pc = "top" /\ ~stop
  /\ top = 1 \/ cont = "continue"
  /\ cont' = IF top = 1 /\ cont = "end" THEN "inactive" ELSE cont
  /\ Goto("drain")
  /\ UNCHANGED <<use, now, shared, active, stop, other, adds, removed, ended>>

\* An inner loop ends, because of the chain's end, EndContinue or its timeout, and its
\* caller goes on where it was.
LeaveContinue ==
  /\ loop.pc = "top" /\ top > 1
  /\ cont' = IF stop THEN cont ELSE "end"
  /\ loops' = SubSeq(loops, 1, top - 1)
  /\ UNCHANGED <<use, now, shared, active, stop, other, adds, removed, ended>>

\* The main loop ends: the other links are destroyed before the base timer.
LeaveChain ==
  /\ loop.pc = "top" /\ top = 1 /\ stop
  /\ Goto("destroy")
  /\ UNCHANGED <<use, now, shared, active, cont, stop, other, adds, removed, ended>>

\* ILibLifeTime_Destroy: what has not fired is destroyed.  It does not wait for other
\* threads, and the lists are freed: that they have ended their calls, and begin none any
\* more (MayCall), is an assumption on the program.
Destroy ==
  /\ loop.pc = "destroy" /\ other.pc = "idle"
  /\ Goto("stopped")
  /\ list' = {} /\ deletes' = <<>>
  /\ removed' = removed \cup Ids(list) /\ ended' = ended \cup Ids(list)
  /\ UNCHANGED <<use, now, next, pipe, active, cont, stop, other, adds>>

\* The handlers of the other links have run: the loop sleeps.
Sleep ==
  /\ loop.pc = "pre"
  /\ Goto("sleep")
  /\ UNCHANGED <<use, now, shared, active, cont, stop, other, adds, removed, ended>>

\* Mutant of Wake: select is not given the block time.
WakeByPipe ==
  /\ loop.pc = "sleep" /\ pipe
  /\ pipe' = FALSE
  /\ loops' = [loops EXCEPT ![top] = Frame("post", loop.wait)]
  /\ UNCHANGED <<use, now, list, next, deletes, active, cont, stop, other, adds, removed, ended>>

\* select returns, because its time is over or the pipe has something, and the pipe is
\* emptied.
Wake ==
  /\ loop.pc = "sleep" /\ (now >= loop.until \/ pipe)
  /\ pipe' = FALSE
  /\ loops' = [loops EXCEPT ![top] = Frame("post", loop.wait)]
  /\ UNCHANGED <<use, now, list, next, deletes, active, cont, stop, other, adds, removed, ended>>

\* ... or because something else happened.
WakeByOther ==
  /\ loop.pc = "sleep"
  /\ pipe' = FALSE
  /\ loops' = [loops EXCEPT ![top] = Frame("post", loop.wait)]
  /\ UNCHANGED <<use, now, list, next, deletes, active, cont, stop, other, adds, removed, ended>>

EndRound ==
  /\ loop.pc = "post"
  /\ Goto("top")
  /\ UNCHANGED <<use, now, shared, active, cont, stop, other, adds, removed, ended>>

-----------------------------------------------------------------------------
(* ILibLifeTime_Check, the PreSelect handler of the base timer.            *)

\* A deferred removal is done; the lock of DeleteList is held.
Drain ==
  /\ loop.pc = "drain" /\ deletes # <<>> /\ ListFree
  /\ deletes' = Tail(deletes)
  /\ RemoveHere(Head(deletes), loops)
  /\ list' = Without(list, Head(deletes))
  /\ UNCHANGED <<use, now, next, pipe, active, cont, stop, other, adds>>

\* All have been done, and the clock is read.
ReadClock ==
  /\ loop.pc = "drain" /\ deletes = <<>>
  /\ \E reading \in ILibGetUptime :
       loops' = [loops EXCEPT ![top].pc = "test", ![top].tick = reading, ![top].at = now]
  /\ UNCHANGED <<use, now, shared, active, cont, stop, other, adds, removed, ended>>

\* Nothing is due yet: "This will speed things up by skipping the timer check".
Skips == next > 0 /\ next > loop.tick /\ loop.wait > next - loop.tick

\* The timer that the other thread has put in but not yet counted, although it is sooner.
Uncounted == IF other.pc = "count" /\ Sooner(other.timer) THEN {other.timer} ELSE {}

\* The same, when the loop has emptied the pipe since and will not be woken for it.
Missed == IF pipe THEN {} ELSE Uncounted

\* NextTriggerTick is read without the lock of ObjectList, here and in EndCheck.
Skip ==
  /\ loop.pc = "test" /\ Skips
  /\ loops' = [loops EXCEPT ![top].pc = "pre", ![top].took = 0, ![top].tick = 0, ![top].at = 0,
                            ![top].until = now + (next - loop.tick), ![top].missed = Missed]
  /\ UNCHANGED <<use, now, shared, active, cont, stop, other, adds, removed, ended>>

\* The list will be searched, from a queue of this loop's own.
NoSkip ==
  /\ loop.pc = "test" /\ ~Skips
  /\ next' = -1 /\ active' = top
  /\ loops' = [loops EXCEPT ![top].pc = "scan", ![top].queue = {}]
  /\ UNCHANGED <<use, now, list, deletes, pipe, cont, stop, other, adds, removed, ended>>

\* A timer is due once its tick is over.
Due(t, tick) == t.tick = 0 \/ t.tick < tick

\* NextTriggerTick after the search: the least of what it was and of the ticks left.
NextTicks(s) == {t.tick : t \in s} \cup (IF next = -1 THEN {} ELSE {next})
NextOf(s) == IF NextTicks(s) = {} THEN -1
             ELSE CHOOSE n \in NextTicks(s) : \A m \in NextTicks(s) : n <= m

\* The search, under the lock of ObjectList: what is due moves to the queue.
Scan ==
  /\ loop.pc = "scan" /\ ListFree
  /\ list' = {t \in list : ~Due(t, loop.tick)}
  /\ next' = NextOf(list')
  /\ loops' = [loops EXCEPT ![top].pc = "fire",
                            ![top].queue = {t \in list : Due(t, loop.tick)}]
  /\ UNCHANGED <<use, now, deletes, pipe, active, cont, stop, other, adds, removed, ended>>

\* The next timer of the queue fires: its callback begins,
Fire ==
  /\ loop.pc = "fire"
  /\ \E t \in loop.queue :
       /\ IsHead(t, loop.queue)
       /\ loops' = [loops EXCEPT ![top].pc = "call", ![top].queue = @ \ {t},
                                 ![top].fires = {t}]
  /\ UNCHANGED <<use, now, shared, active, cont, stop, other, adds, removed, ended>>

\* and returns.
Return ==
  /\ loop.pc = "call"
  /\ loops' = [loops EXCEPT ![top].pc = "fire", ![top].fires = {}]
  /\ ended' = ended \cup Ids(loop.fires)
  /\ UNCHANGED <<use, now, shared, active, cont, stop, other, adds, removed>>

\* All have fired: how long the loop may sleep, which is a second or more.
BlockTime(w) ==
  IF next # -1 /\ w > next - loop.tick
  THEN LET delta == IF next - loop.tick < Second THEN Second ELSE next - loop.tick
       IN IF delta < w THEN delta ELSE w
  ELSE w

\* Mutant of EndCheck: ActiveList still points to the queue.
EndCheckKeepsQueue ==
  /\ loop.pc = "fire" /\ loop.queue = {}
  /\ Goto("pre")
  /\ UNCHANGED <<use, now, shared, active, cont, stop, other, adds, removed, ended>>

EndCheck ==
  /\ loop.pc = "fire" /\ loop.queue = {}
  /\ active' = 0
  /\ loops' = [loops EXCEPT ![top].pc = "pre", ![top].took = now - loop.at,
                            ![top].tick = 0, ![top].at = 0,
                            ![top].until = now + BlockTime(loop.wait), ![top].missed = Missed]
  /\ UNCHANGED <<use, now, shared, cont, stop, other, adds, removed, ended>>

-----------------------------------------------------------------------------
(* The other thread.                                                       *)

\* The call of the other thread: a removal has no ms, which is -1 here.
Call(pc, k, ms) == [pc |-> pc, key |-> k, ms |-> ms]
Idle == [pc |-> "idle", ms |-> -1]

MayCall == use.threaded /\ other = Idle /\ loop.pc # "stopped" /\ Len(deletes) < MaxDeletes

\* ILibLifeTime_Remove there looks for the key, in the list only, and if it is found
\* leaves the removal to the chain.
OtherRemove(k) ==
  /\ MayCall /\ Having(list, k) # {}
  /\ other' = Call("defer", k, -1)
  /\ UNCHANGED <<use, now, shared, active, loops, cont, stop, adds, removed, ended>>

\* ILibLifeTime_AddEx4 there begins with the same.
OtherAdd(k, ms) ==
  /\ MayCall /\ MayAdd
  /\ other' = Call(IF Having(list, k) = {} THEN "insert" ELSE "defer", k, ms)
  /\ UNCHANGED <<use, now, shared, active, loops, cont, stop, adds, removed, ended>>

\* The key goes to DeleteList, whose lock the chain holds while it empties it.
OtherDefer ==
  /\ other.pc = "defer" /\ loop.pc # "drain"
  /\ deletes' = Append(deletes, other.key) /\ pipe' = TRUE
  /\ other' = IF other.ms = -1 THEN Idle ELSE Call("insert", other.key, other.ms)
  /\ UNCHANGED <<use, now, list, next, active, loops, cont, stop, adds, removed, ended>>

\* It takes the lock of ObjectList, puts the timer in and wakes the loop.  (The clock is
\* read just before; an earlier reading would only make the timer sooner.)
OtherInsert ==
  /\ other.pc = "insert"
  /\ \E reading \in ILibGetUptime :
       LET t == NewTimer(other.key, other.ms, reading)
       IN  Insert(t, list) /\ other' = [pc |-> "count", ms |-> -1, timer |-> t]
  /\ adds' = adds + 1
  /\ UNCHANGED <<use, now, next, deletes, active, loops, cont, stop, removed, ended>>

\* It brings NextTriggerTick up to date and gives the lock back.
OtherCount ==
  /\ other.pc = "count"
  /\ Count(other.timer)
  /\ other' = Idle
  /\ UNCHANGED <<use, now, list, deletes, pipe, active, loops, cont, stop, adds, removed, ended>>

-----------------------------------------------------------------------------
\* Time passes while the innermost loop sleeps, up to the bound or as long as a timer has
\* a use for it.  An inner loop takes time even when it is woken at once.
TimePasses ==
  /\ loop.pc = "sleep" /\ now < loop.until
  /\ IF pipe THEN top > 1 /\ \E t \in list : now <= t.due + 2 * Second
             ELSE now < MaxNow \/ list # {}
  /\ now' = now + 1
  /\ UNCHANGED <<use, shared, active, loops, cont, stop, other, adds, removed, ended>>

Init ==
  /\ use \in Settings
  /\ now = 0
  /\ list = {} /\ active = 0 /\ next = 0 /\ deletes = <<>> /\ pipe = FALSE
  /\ \E w \in Waits : loops = <<Frame("post", w)>>
  /\ cont = "inactive" /\ stop = FALSE /\ other = Idle
  /\ adds = 0 /\ removed = {} /\ ended = {}

\* The loop's own steps, which it takes one after the other.
LoopStep ==
  \/ Round \/ LeaveContinue \/ LeaveChain \/ Destroy \/ Sleep \/ Wake \/ EndRound
  \/ Drain \/ ReadClock \/ Skip \/ NoSkip \/ Scan \/ Fire \/ Return \/ EndCheck

Next ==
  \/ LoopStep \/ WakeByOther
  \/ \E k \in Keys : Remove(k) \/ OtherRemove(k)
  \/ \E k \in Keys, ms \in Delays : Add(k, ms) \/ OtherAdd(k, ms)
  \/ \E w \in Waits : Continue(w)
  \/ EndContinue \/ ILibStopChain
  \/ OtherDefer \/ OtherInsert \/ OtherCount \/ TimePasses

Spec == Init /\ [][Next]_vars

\* The loop goes on, the other thread finishes its call, and time passes, however often
\* the loop is woken.
FairSpec ==
  /\ Spec
  /\ WF_vars(LoopStep) /\ SF_vars(TimePasses)
  /\ WF_vars(OtherDefer \/ OtherInsert \/ OtherCount)

-----------------------------------------------------------------------------
(* Properties.                                                             *)

Timer == [id : 1 .. MaxAdds, key : Keys, tick : Nat, due : Nat]

TypeOK ==
  /\ use \in Settings /\ now \in Nat
  /\ list \subseteq Timer /\ next \in Nat \cup {-1} /\ deletes \in Seq(Keys)
  /\ pipe \in BOOLEAN /\ stop \in BOOLEAN
  /\ cont \in {"inactive", "continue", "end"}
  /\ loops \in Seq([pc : {"top", "drain", "test", "scan", "fire", "call", "pre", "sleep",
                          "post", "destroy", "stopped"},
                    wait : Waits, tick : Nat, at : Nat, queue : SUBSET Timer, fires : SUBSET Timer,
                    until : Nat, took : Nat, missed : SUBSET Timer])
  /\ top \in 1 .. use.depth /\ active \in 0 .. top
  /\ adds \in 0 .. MaxAdds /\ removed \subseteq 1 .. adds /\ ended \subseteq 1 .. adds

\* The places of timers: the list is 0, a loop's queue is its number, and the timer that
\* a loop is calling is in a place of the negative number.
Places == 0 - top .. top
At(p) == IF p = 0 THEN list ELSE IF p > 0 THEN loops[p].queue ELSE loops[-p].fires
PlacesOf(id) == {p \in Places : id \in Ids(At(p))}

\* Every timer is in one place until it has fired or been destroyed, and then in none:
\* it fires at most once, is never fired and destroyed, and is never lost (it is freed
\* after its callback in ILibLifeTime_Check or after DestroyPtr in ILibLifeTime_Remove).
FiresOnce ==
  \A id \in 1 .. adds :
    IF id \in ended THEN PlacesOf(id) = {} ELSE \E p \in Places : PlacesOf(id) = {p}

\* A removal on the chain's thread also reaches timers that are about to fire: one that
\* escapes it is in the queue of a loop whose callback ran an inner loop, after which
\* ActiveList does not point to that queue any more.
RemovalReaches ==
  \A i \in 1 .. top : removed \cap Ids(loops[i].queue) # {} => i # active

\* The timer that the loop has missed, and those that went in behind it later, for which
\* the loop is not woken either.
Hidden(t) == \E u \in loop.missed : u.id <= t.id /\ u.tick <= t.tick

\* A loop that sleeps and has not been woken will look at the list in time for each of
\* its timers, give or take three seconds and the time that the callbacks of its last
\* round took (NextTriggerTick, ILibForceUnBlockChain).  One wake-up can be lost: when
\* the loop wakes and decides how long to sleep again after another thread has woken it
\* for a new timer and before that thread has brought NextTriggerTick up to date.
NoOversleep ==
  loop.pc = "sleep" /\ ~pipe =>
    \A t \in list : Hidden(t) \/ loop.until <= t.due + 3 * Second + loop.took

\* Every timer leaves the list, to fire or to be destroyed.
TimersLeave ==
  \A id \in 1 .. MaxAdds : id \in Ids(list) ~> id \notin Ids(list)
=============================================================================

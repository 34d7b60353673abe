----------------------------- MODULE Sctp_proofs -----------------------------
(***************************************************************************)
(* Proofs about the data transfer of SCTP, for any number of chunks of any *)
(* lengths, any window and any number of copies, SACKs and pauses.         *)
(***************************************************************************)
EXTENDS Sctp, TLAPS, NaturalsInduction, WellFoundedInduction, SequenceTheorems,
        FiniteSetTheorems

-----------------------------------------------------------------------------
(* Numbers.                                                                *)

\* Every non-empty set of naturals has a least element.
LEMMA Least ==
  ASSUME NEW S \in SUBSET Nat, S # {}
  PROVE  \E n \in S : \A m \in S : n <= m
<1> DEFINE R == OpToRel(<, Nat)
<1>1. IsWellFoundedOn(R, Nat)
  BY NatLessThanWellFounded
<1>2. \A m, n \in Nat : n < m => <<n, m>> \in R
  BY DEF OpToRel
<1> HIDE DEF R
<1>3. PICK n \in S : \A m \in S : ~(<<m, n>> \in R)
  BY <1>1, WFMin
<1>4. \A m \in S : ~(m < n)
  BY <1>2, <1>3
<1> QED
  BY <1>3, <1>4

\* Induction up to n, about a set of numbers.
LEMMA CountUp ==
  ASSUME NEW n \in Nat, NEW S, 0 \in S, \A i \in 1..n : i - 1 \in S => i \in S
  PROVE  \A i \in 0..n : i \in S
<1> DEFINE Bad == {i \in Nat : i <= n /\ i \notin S}
<1> SUFFICES ASSUME Bad # {} PROVE FALSE
  OBVIOUS
<1>1. PICK i \in Bad : \A m \in Bad : i <= m
  BY Least
<1>2. i \in 1..n
  BY <1>1
<1>3. i - 1 \in Nat /\ i - 1 <= n /\ i - 1 \notin Bad
  <2> HIDE DEF Bad
  <2> QED
    BY <1>1, <1>2
<1> QED
  BY <1>1, <1>2, <1>3

\* No TSN of the transfer wraps around.
NoWrap == FirstTsn >= 1 /\ FirstTsn + Chunks < TsnRange

\* The TSN of the last of the first g chunks.
LastTsn(g) == FirstTsn + g - 1

\* What the proofs use of SctpAssumption.
LEMMA Constants ==
  /\ Chunks \in Nat \ {0} /\ TsnRange \in Nat /\ TsnRange > 0 /\ FirstTsn \in Tsns
  /\ MaxPauses \in Nat /\ MaxCredits \in Nat /\ MTU \in Nat
BY SctpAssumption DEF Tsns

\* TSNs are numbers of their range.
LEMMA TsnType ==
  /\ \A n \in C : Tsn(n) \in Tsns
  /\ \A t \in Tsns : After(t) \in Tsns
<1>1. TsnRange \in Nat \ {0} /\ FirstTsn \in Int
  BY Constants DEF Tsns
<1>2. \A x \in Int : x % TsnRange \in Tsns
  BY <1>1 DEF Tsns
<1>3. \A n \in C : FirstTsn + n - 1 \in Int
  BY <1>1 DEF C
<1>4. \A t \in Tsns : t + 1 \in Int
  BY DEF Tsns
<1>5. \A n \in C : Tsn(n) \in Tsns
  BY <1>2, <1>3 DEF Tsn
<1>6. \A t \in Tsns : After(t) \in Tsns
  BY <1>2, <1>4 DEF After
<1> QED
  BY <1>5, <1>6

\* Without wrap-around TSNs are plain numbers.
LEMMA Plain ==
  ASSUME NoWrap
  PROVE  /\ \A n \in C : Tsn(n) = FirstTsn + n - 1
         /\ \A n \in C : (Tsn(n) - 1) % TsnRange = Tsn(n) - 1
         /\ \A t \in Tsns : t < TsnRange - 1 => After(t) = t + 1
         /\ \A n \in C : Tsn(n) < TsnRange - 1
         /\ (FirstTsn - 1) % TsnRange = FirstTsn - 1
<1>1. TsnRange \in Nat \ {0} /\ FirstTsn \in Nat /\ Chunks \in Nat
  BY Constants DEF Tsns
<1>2. \A x \in Tsns : x % TsnRange = x
  BY <1>1 DEF Tsns
<1>3. \A n \in C : FirstTsn + n - 1 \in Tsns /\ FirstTsn + n - 1 < TsnRange - 1
                   /\ (FirstTsn + n - 1) - 1 \in Tsns
  BY <1>1 DEF C, Tsns, NoWrap
<1>4. \A n \in C : Tsn(n) = FirstTsn + n - 1
  BY <1>2, <1>3 DEF Tsn
<1>5. \A t \in Tsns : t < TsnRange - 1 => t + 1 \in Tsns
  BY <1>1 DEF Tsns
<1>6. FirstTsn - 1 \in Tsns
  BY <1>1 DEF Tsns, NoWrap
<1>7. \A n \in C : (Tsn(n) - 1) % TsnRange = Tsn(n) - 1
  BY <1>2, <1>3, <1>4
<1>8. \A t \in Tsns : t < TsnRange - 1 => After(t) = t + 1
  BY <1>2, <1>5 DEF After
<1> QED
  BY <1>2, <1>3, <1>4, <1>6, <1>7, <1>8

-----------------------------------------------------------------------------
(* The loops of the receiver.                                              *)

\* The head of a hold buffer that is not empty.
LEMMA HeadOfHeld ==
  ASSUME NEW h \in SUBSET C, h # {}
  PROVE  FirstHeld(h) \in h /\ \A m \in h : Tsn(FirstHeld(h)) <= Tsn(m)
<1> DEFINE T == {Tsn(n) : n \in h}
<1>1. T \in SUBSET Nat /\ T # {}
  BY TsnType DEF Tsns
<1>2. PICK t \in T : \A u \in T : t <= u
  BY <1>1, Least
<1>3. \E n \in h : \A m \in h : Tsn(n) <= Tsn(m)
  BY <1>2
<1> QED
  BY <1>3 DEF FirstHeld

RType == [intsn : Tsns, userTSN : Tsns, held : SUBSET C, paused : BOOLEAN,
          got : 0..Chunks, flaws : SUBSET {"repeat", "skip"}, done : BOOLEAN]

\* A delivery changes the history only.
LEMMA DeliverType ==
  ASSUME NEW w \in RType, NEW n \in C
  PROVE  LET d == Deliver(w, n)
         IN /\ d \in RType
            /\ d.intsn = w.intsn /\ d.userTSN = w.userTSN /\ d.held = w.held
            /\ d.paused = w.paused /\ d.done = w.done
            /\ d.got = IF n = w.got + 1 THEN n ELSE w.got
            /\ d.flaws = IF n = w.got + 1 THEN w.flaws
                         ELSE w.flaws \cup {IF n <= w.got THEN "repeat" ELSE "skip"}
<1>1. n \in 0..Chunks /\ n \in Int /\ w.got \in Int
  BY Constants DEF C, RType
<1>2. CASE n = w.got + 1
  BY <1>1, <1>2 DEF Deliver, RType
<1>3. CASE n # w.got + 1
  BY <1>1, <1>3 DEF Deliver, RType
<1> QED
  BY <1>2, <1>3

\* What the history in r says, after w, of a delivery of chunk n.
Says(w, r, n) ==
  /\ r.got = IF n = w.got + 1 THEN n ELSE w.got
  /\ r.flaws = IF n = w.got + 1 THEN w.flaws
               ELSE w.flaws \cup {IF n <= w.got THEN "repeat" ELSE "skip"}

\* A step of Resume's loop hands up the head or leaves all as it is.
LEMMA ResumeOneIs ==
  ASSUME NEW w \in RType
  PROVE  LET r == ResumeOne(w)
         IN \/ r = w
            \/ \E n \in w.held :
                 /\ n \in C /\ Tsn(n) = After(w.userTSN)
                 /\ r \in RType /\ r.userTSN = Tsn(n) /\ r.held = w.held \ {n}
                 /\ r.intsn = w.intsn /\ r.paused = w.paused /\ r.done = w.done
                 /\ Says(w, r, n)
<1>1. CASE w.held = {} \/ Tsn(FirstHeld(w.held)) # After(w.userTSN)
  BY <1>1 DEF ResumeOne
<1>2. CASE ~(w.held = {} \/ Tsn(FirstHeld(w.held)) # After(w.userTSN))
  <2> DEFINE n == FirstHeld(w.held)
             v == [w EXCEPT !.userTSN = Tsn(n), !.held = @ \ {n}]
  <2>1. w.held \in SUBSET C /\ w.held # {}
    BY <1>2 DEF RType
  <2>2. n \in w.held /\ n \in C
    BY <2>1, HeadOfHeld
  <2>3. Tsn(n) \in Tsns /\ Tsn(n) = After(w.userTSN)
    BY <1>2, <2>2, TsnType
  <2>4. ResumeOne(w) = Deliver(v, n)
    BY <1>2 DEF ResumeOne
  <2> HIDE DEF n
  <2>5. /\ v \in RType /\ v.userTSN = Tsn(n) /\ v.held = w.held \ {n} /\ v.intsn = w.intsn
        /\ v.paused = w.paused /\ v.done = w.done /\ v.got = w.got /\ v.flaws = w.flaws
    BY <2>1, <2>3 DEF RType
  <2> HIDE DEF v
  <2>6. LET r == Deliver(v, n)
        IN /\ r \in RType /\ r.userTSN = Tsn(n) /\ r.held = w.held \ {n}
           /\ r.intsn = w.intsn /\ r.paused = w.paused /\ r.done = w.done
           /\ Says(w, r, n)
    BY <2>2, <2>5, DeliverType DEF Says
  <2> QED
    BY <2>2, <2>3, <2>4, <2>6
<1> QED
  BY <1>1, <1>2

\* The same for the loop that pulls chunks.
LEMMA PullOneIs ==
  ASSUME NEW w \in RType, NEW i, NEW stop
  PROVE  LET r == PullOne(w, i, stop)
         IN \/ /\ r = w
               /\ \/ w.done \/ w.held = {} \/ Tsn(FirstHeld(w.held)) > After(w.intsn)
                  \/ Tsn(FirstHeld(w.held)) > After(w.userTSN)
            \/ \E n \in w.held :
                 /\ n \in C /\ Tsn(n) <= After(w.userTSN) /\ \A m \in w.held : Tsn(n) <= Tsn(m)
                 /\ r \in RType /\ r.userTSN = Tsn(n) /\ r.held = w.held \ {n}
                 /\ r.intsn = Tsn(n) /\ (w.paused => r.paused) /\ r.done = r.paused
                 /\ r.paused => w.paused \/ stop = i
                 /\ Says(w, r, n)
<1> DEFINE n == FirstHeld(w.held)
           B == w.done \/ w.held = {} \/ Tsn(n) > After(w.intsn) \/ Tsn(n) > After(w.userTSN)
<1>1. CASE B
  BY <1>1 DEF PullOne
<1>2. CASE ~B
  <2>0. PICK p \in BOOLEAN : p = (w.paused \/ stop = i)
    OBVIOUS
  <2> DEFINE v == [w EXCEPT !.intsn = Tsn(n), !.userTSN = Tsn(n), !.held = @ \ {n},
                            !.paused = p, !.done = p]
  <2>1. w.held \in SUBSET C /\ w.held # {} /\ w.userTSN \in Tsns
    BY <1>2 DEF RType
  <2>2. n \in w.held /\ n \in C /\ \A m \in w.held : Tsn(n) <= Tsn(m)
    BY <2>1, HeadOfHeld
  <2>3. Tsn(n) \in Tsns /\ After(w.userTSN) \in Tsns
    BY <2>1, <2>2, TsnType
  <2>4. PullOne(w, i, stop) = Deliver(v, n)
    BY <1>2, <2>0 DEF PullOne
  <2>5. Tsn(n) <= After(w.userTSN)
    BY <1>2, <2>3 DEF Tsns
  <2>6. (w.paused => p) /\ (p => w.paused \/ stop = i)
    BY <2>0
  <2> HIDE DEF n
  <2>7. /\ v \in RType /\ v.userTSN = Tsn(n) /\ v.held = w.held \ {n} /\ v.intsn = Tsn(n)
        /\ v.paused = p /\ v.done = p /\ v.got = w.got /\ v.flaws = w.flaws
    BY <2>1, <2>3 DEF RType
  <2> HIDE DEF v
  <2> QED
    BY <2>2, <2>4, <2>5, <2>6, <2>7, DeliverType DEF Says
<1> QED
  BY <1>1, <1>2

\* The loops are iterations of their steps.
LEMMA ResumeRuns ==
  ASSUME NEW w
  PROVE  \E f : /\ f[0] = w
                /\ \A i \in 1..Chunks : f[i] = ResumeOne(f[i - 1])
                /\ ResumeAll(w) = f[Chunks]
<1> DEFINE D(f, n) == [i \in 0..n |-> IF i = 0 THEN w ELSE ResumeOne(f[i - 1])]
           S == {n \in Nat : \E f : f = D(f, n)}
<1>1. Chunks \in Nat
  BY Constants
<1>2. 0 \in S
  <2>1. [i \in 0..0 |-> w] = D([i \in 0..0 |-> w], 0)
    OBVIOUS
  <2> QED
    BY <2>1
<1>3. ASSUME NEW n \in 1..Chunks, n - 1 \in S PROVE n \in S
  <2>1. PICK f : f = D(f, n - 1)
    BY <1>3
  <2> DEFINE g == [i \in 0..n |-> IF i < n THEN f[i] ELSE ResumeOne(f[n - 1])]
  <2>2. n \in Nat /\ n # 0
    BY <1>1
  <2>3. ASSUME NEW i \in 0..n
        PROVE  g[i] = IF i = 0 THEN w ELSE ResumeOne(g[i - 1])
    <3>1. CASE i = n
      BY <3>1, <2>2
    <3>2. CASE i < n
      <4>1. f[i] = IF i = 0 THEN w ELSE ResumeOne(f[i - 1])
        BY <2>1, <2>2, <3>2
      <4> QED
        BY <4>1, <2>2, <3>2
    <3> QED
      BY <2>2, <3>1, <3>2
  <2>4. g = D(g, n)
    BY <2>3
  <2> QED
    BY <2>2, <2>4
<1>4. Chunks \in S
  <2> HIDE DEF S
  <2>1. \A i \in 0..Chunks : i \in S
    BY <1>1, <1>2, <1>3, CountUp
  <2> QED
    BY <1>1, <2>1
<1>5. PICK e : e = D(e, Chunks)
  BY <1>4
<1> DEFINE h == CHOOSE f : f = D(f, Chunks)
<1>6. ResumeAll(w) = h[Chunks]
  BY DEF ResumeAll
<1>7. h = D(h, Chunks)
  BY <1>5
<1> HIDE DEF h
<1>8. h[0] = w /\ \A i \in 1..Chunks : h[i] = ResumeOne(h[i - 1])
  BY <1>1, <1>7
<1> QED
  BY <1>6, <1>8

\* The same for PullAll.
LEMMA PullRuns ==
  ASSUME NEW w, NEW stop
  PROVE  \E f : /\ f[0] = w
                /\ \A i \in 1..Chunks : f[i] = PullOne(f[i - 1], i, stop)
                /\ PullAll(w, stop) = f[Chunks]
<1> DEFINE D(f, n) == [i \in 0..n |-> IF i = 0 THEN w ELSE PullOne(f[i - 1], i, stop)]
           S == {n \in Nat : \E f : f = D(f, n)}
<1>1. Chunks \in Nat
  BY Constants
<1>2. 0 \in S
  <2>1. [i \in 0..0 |-> w] = D([i \in 0..0 |-> w], 0)
    OBVIOUS
  <2> QED
    BY <2>1
<1>3. ASSUME NEW n \in 1..Chunks, n - 1 \in S PROVE n \in S
  <2>1. PICK f : f = D(f, n - 1)
    BY <1>3
  <2> DEFINE g == [i \in 0..n |-> IF i < n THEN f[i] ELSE PullOne(f[n - 1], n, stop)]
  <2>2. n \in Nat /\ n # 0
    BY <1>1
  <2>3. ASSUME NEW i \in 0..n
        PROVE  g[i] = IF i = 0 THEN w ELSE PullOne(g[i - 1], i, stop)
    <3>1. CASE i = n
      BY <3>1, <2>2
    <3>2. CASE i < n
      <4>1. f[i] = IF i = 0 THEN w ELSE PullOne(f[i - 1], i, stop)
        BY <2>1, <2>2, <3>2
      <4> QED
        BY <4>1, <2>2, <3>2
    <3> QED
      BY <2>2, <3>1, <3>2
  <2>4. g = D(g, n)
    BY <2>3
  <2> QED
    BY <2>2, <2>4
<1>4. Chunks \in S
  <2> HIDE DEF S
  <2>1. \A i \in 0..Chunks : i \in S
    BY <1>1, <1>2, <1>3, CountUp
  <2> QED
    BY <1>1, <2>1
<1>5. PICK e : e = D(e, Chunks)
  BY <1>4
<1> DEFINE h == CHOOSE f : f = D(f, Chunks)
<1>6. PullAll(w, stop) = h[Chunks]
  BY DEF PullAll
<1>7. h = D(h, Chunks)
  BY <1>5
<1> HIDE DEF h
<1>8. h[0] = w /\ \A i \in 1..Chunks : h[i] = PullOne(h[i - 1], i, stop)
  BY <1>1, <1>7
<1> QED
  BY <1>6, <1>8

\* What Resume's loop does to the session, whatever the history says: it moves userTSN
\* over chunks that are held, and hands up chunks that it takes from the hold buffer.
Moved(w, v) ==
  /\ v \in RType
  /\ v.intsn = w.intsn /\ v.paused = w.paused /\ v.done = w.done
  /\ v.held \subseteq w.held
  /\ v.userTSN >= w.userTSN /\ v.userTSN < TsnRange - 1
  /\ v.userTSN = w.userTSN \/ \E m \in w.held : v.userTSN = Tsn(m)
  /\ \A m \in C : w.userTSN < Tsn(m) /\ Tsn(m) <= v.userTSN => m \in w.held

\* The application's TSN is not beyond what was delivered, and nothing was skipped.
Behind(w) == w.userTSN <= LastTsn(w.got) /\ "skip" \notin w.flaws

\* Nothing is taken back, and what left the hold buffer was delivered.
Grown(w, v) ==
  /\ v.got >= w.got /\ v.held \subseteq w.held
  /\ \A n \in w.held \ v.held : n <= v.got

\* A delivery of a chunk that is at most the next one.
LEMMA DeliverBehind ==
  ASSUME NoWrap, NEW w \in RType, NEW r \in RType, NEW n \in C, Says(w, r, n),
         n <= w.got + 1, "skip" \notin w.flaws, r.userTSN = Tsn(n)
  PROVE  Behind(r) /\ r.got >= w.got /\ n <= r.got
<1>1. n \in Int /\ w.got \in Int /\ r.got \in Int /\ FirstTsn \in Int /\ r.userTSN \in Int
  BY Constants DEF C, RType, Tsns
<1>2. Tsn(n) = FirstTsn + n - 1
  BY Plain
<1>3. r.got >= w.got /\ n <= r.got
  BY <1>1 DEF Says
<1>4. "skip" \notin r.flaws
  <2>1. CASE n = w.got + 1
    BY <2>1 DEF Says
  <2>2. CASE n # w.got + 1
    <3>1. n <= w.got
      BY <1>1, <2>2
    <3> QED
      BY <2>2, <3>1 DEF Says
  <2> QED
    BY <2>1, <2>2
<1>5. r.userTSN <= LastTsn(r.got)
  BY <1>1, <1>2, <1>3 DEF LastTsn
<1> QED
  BY <1>3, <1>4, <1>5 DEF Behind

\* What has left the hold buffer was delivered, after one more delivery as well.
LEMMA GrownMore ==
  ASSUME NEW w \in RType, NEW v \in RType, NEW r \in RType, NEW n \in v.held,
         Grown(w, v), r.held = v.held \ {n}, r.got >= v.got, n <= r.got
  PROVE  Grown(w, r)
<1>1. v.got \in Int /\ r.got \in Int /\ w.got \in Int
  BY DEF RType
<1>2. r.got >= w.got /\ r.held \subseteq w.held
  BY <1>1 DEF Grown
<1>3. ASSUME NEW m \in w.held \ r.held PROVE m <= r.got
  <2>1. CASE m = n
    BY <2>1
  <2>2. CASE m # n
    <3>1. m <= v.got /\ m \in Int
      BY <2>2 DEF Grown, RType, C
    <3> QED
      BY <1>1, <3>1
  <2> QED
    BY <2>1, <2>2
<1> QED
  BY <1>2, <1>3 DEF Grown

\* One more step of Resume's loop.
LEMMA ResumeStep ==
  ASSUME NoWrap, NEW w \in RType, NEW v, Moved(w, v)
  PROVE  /\ Moved(w, ResumeOne(v))
         /\ Behind(v) /\ Grown(w, v) => Behind(ResumeOne(v)) /\ Grown(w, ResumeOne(v))
<1>0. v \in RType
  BY DEF Moved
<1>1. CASE ResumeOne(v) = v
  BY <1>1
<1>2. CASE ResumeOne(v) # v
  <2> DEFINE r == ResumeOne(v)
  <2>1. PICK n \in v.held :
           /\ n \in C /\ Tsn(n) = After(v.userTSN)
           /\ r \in RType /\ r.userTSN = Tsn(n) /\ r.held = v.held \ {n}
           /\ r.intsn = v.intsn /\ r.paused = v.paused /\ r.done = v.done
           /\ Says(v, r, n)
    BY <1>0, <1>2, ResumeOneIs
  <2>2. Tsn(n) = v.userTSN + 1 /\ Tsn(n) < TsnRange - 1 /\ Tsn(n) = FirstTsn + n - 1
    BY <1>0, <2>1, Plain DEF RType, Moved
  <2>n. n \in Int /\ FirstTsn \in Int /\ v.userTSN \in Int /\ v.got \in Int /\ w.userTSN \in Int
    BY <1>0, <2>1, Constants DEF C, RType, Tsns
  <2> HIDE DEF r
  <2>5. \A m \in C : Tsn(m) \in Int
    BY TsnType DEF Tsns
  <2>6. \A m \in C : Tsn(m) = Tsn(n) => m = n
    BY <2>n, <2>2, Plain DEF C
  <2>7. Moved(w, r)
    <3>1. ASSUME NEW m \in C, w.userTSN < Tsn(m), Tsn(m) <= r.userTSN PROVE m \in w.held
      <4>1. CASE Tsn(m) <= v.userTSN
        BY <3>1, <4>1 DEF Moved
      <4>2. CASE ~(Tsn(m) <= v.userTSN)
        <5>1. m = n
          BY <3>1, <4>2, <2>1, <2>2, <2>5, <2>6, <2>n
        <5> QED
          BY <5>1, <2>1 DEF Moved
      <4> QED
        BY <4>1, <4>2
    <3>2. n \in w.held
      BY <2>1 DEF Moved
    <3> QED
      BY <3>1, <3>2, <2>1, <2>2, <2>n DEF Moved
  <2>8. ASSUME Behind(v), Grown(w, v) PROVE Behind(r) /\ Grown(w, r)
    <3>1. n <= v.got + 1 /\ "skip" \notin v.flaws
      BY <2>8, <2>2, <2>n DEF Behind, LastTsn
    <3>2. Behind(r) /\ r.got >= v.got /\ n <= r.got
      BY <1>0, <2>1, <3>1, DeliverBehind
    <3> QED
      BY <1>0, <2>1, <2>8, <3>2, GrownMore
  <2> QED
    BY <2>7, <2>8 DEF r
<1> QED
  BY <1>1, <1>2

\* Resume's loop, and the loop that moves intsn.
LEMMA ResumeLoop ==
  ASSUME NoWrap, NEW w \in RType, w.userTSN < TsnRange - 1
  PROVE  /\ Moved(w, ResumeAll(w))
         /\ Behind(w) => Behind(ResumeAll(w)) /\ Grown(w, ResumeAll(w))
<1>1. PICK f : /\ f[0] = w
               /\ \A i \in 1..Chunks : f[i] = ResumeOne(f[i - 1])
               /\ ResumeAll(w) = f[Chunks]
  BY ResumeRuns
<1> DEFINE P(v) == Moved(w, v) /\ (Behind(w) => Behind(v) /\ Grown(w, v))
           S == {i \in 0..Chunks : P(f[i])}
<1>2. P(w)
  <2>1. w.userTSN \in Int /\ w.got \in Int
    BY DEF RType, Tsns
  <2>2. \A m \in C : Tsn(m) \in Int
    BY TsnType DEF Tsns
  <2>3. Moved(w, w)
    BY <2>1, <2>2 DEF Moved
  <2>4. Grown(w, w)
    BY <2>1 DEF Grown
  <2> QED
    BY <2>3, <2>4
<1>3. \A v : P(v) => P(ResumeOne(v))
  BY ResumeStep
<1> HIDE DEF P
<1>4. 0 \in S /\ \A i \in 1..Chunks : i - 1 \in S => i \in S
  BY <1>1, <1>2, <1>3, Constants
<1>5. Chunks \in S
  <2> HIDE DEF S
  <2> QED
    BY <1>4, CountUp, Constants
<1> QED
  BY <1>1, <1>5 DEF P

\* The same loops keep the type of their state, whether or not TSNs wrap around.
LEMMA ResumeType ==
  ASSUME NEW w \in RType
  PROVE  ResumeAll(w) \in RType
<1>1. PICK f : /\ f[0] = w
               /\ \A i \in 1..Chunks : f[i] = ResumeOne(f[i - 1])
               /\ ResumeAll(w) = f[Chunks]
  BY ResumeRuns
<1> DEFINE S == {i \in 0..Chunks : f[i] \in RType}
<1>2. ASSUME NEW v \in RType PROVE ResumeOne(v) \in RType
  BY ResumeOneIs
<1>3. 0 \in S /\ \A i \in 1..Chunks : i - 1 \in S => i \in S
  BY <1>1, <1>2, Constants
<1>4. Chunks \in S
  <2> HIDE DEF S
  <2> QED
    BY <1>3, CountUp, Constants
<1> QED
  BY <1>1, <1>4

\* The loop that pulls chunks keeps the types.
LEMMA PullType ==
  ASSUME NEW w \in RType, NEW stop
  PROVE  /\ PullAll(w, stop) \in RType
         /\ ~w.paused /\ stop = Chunks + 1 => ~PullAll(w, stop).paused
<1>1. PICK f : /\ f[0] = w
               /\ \A i \in 1..Chunks : f[i] = PullOne(f[i - 1], i, stop)
               /\ PullAll(w, stop) = f[Chunks]
  BY PullRuns
<1> DEFINE P(v) == v \in RType /\ (~w.paused /\ stop = Chunks + 1 => ~v.paused)
           S == {i \in 0..Chunks : P(f[i])}
<1>2. ASSUME NEW v, NEW i \in 1..Chunks, P(v) PROVE P(PullOne(v, i, stop))
  <2>1. v \in RType
    BY <1>2
  <2>2. i # Chunks + 1
    BY Constants
  <2>3. PullOne(v, i, stop) \in RType /\ (PullOne(v, i, stop).paused => v.paused \/ stop = i)
    BY <2>1, PullOneIs
  <2> QED
    BY <1>2, <2>2, <2>3
<1>3. P(w)
  OBVIOUS
<1> HIDE DEF P
<1>4. 0 \in S /\ \A i \in 1..Chunks : i - 1 \in S => i \in S
  BY <1>1, <1>2, <1>3, Constants
<1>5. Chunks \in S
  <2> HIDE DEF S
  <2> QED
    BY <1>4, CountUp, Constants
<1> QED
  BY <1>1, <1>5 DEF P

\* What the loop that pulls chunks keeps.
Kept(w, v) ==
  /\ v \in RType /\ v.userTSN < TsnRange - 1 /\ v.intsn < TsnRange - 1
  /\ v.intsn \in {w.intsn, v.userTSN} /\ (v.intsn = w.intsn \/ v.intsn >= FirstTsn)
  /\ w.paused => v.paused
  /\ Behind(v) /\ Grown(w, v)

\* As long as nobody paused: all was delivered once, what is held is above it, and intsn
\* is ahead of the application only if the next chunk is held.
Exact(w) ==
  /\ w.flaws = {} /\ w.userTSN = LastTsn(w.got) /\ ~w.done
  /\ \A n \in w.held : n > w.got
  /\ w.intsn # w.userTSN => w.intsn > w.userTSN /\ w.got + 1 \in w.held

\* One more step of the loop that pulls chunks keeps what Kept says.
LEMMA PullKept ==
  ASSUME NoWrap, NEW w \in RType, NEW v, Kept(w, v), NEW i, NEW stop
  PROVE  /\ Kept(w, PullOne(v, i, stop))
         /\ v.paused => PullOne(v, i, stop).paused
<1>0. v \in RType
  BY DEF Kept
<1>1. CASE PullOne(v, i, stop) = v
  BY <1>1
<1>2. CASE PullOne(v, i, stop) # v
  <2> DEFINE r == PullOne(v, i, stop)
  <2>1. PICK n \in v.held :
           /\ n \in C /\ Tsn(n) <= After(v.userTSN)
           /\ r \in RType /\ r.userTSN = Tsn(n) /\ r.held = v.held \ {n}
           /\ r.intsn = Tsn(n) /\ (v.paused => r.paused) /\ Says(v, r, n)
    BY <1>0, <1>2, PullOneIs
  <2>2. After(v.userTSN) = v.userTSN + 1 /\ Tsn(n) < TsnRange - 1 /\ Tsn(n) = FirstTsn + n - 1
    BY <1>0, <2>1, Plain DEF RType, Kept
  <2>n. n \in Int /\ FirstTsn \in Int /\ v.userTSN \in Int /\ v.got \in Int
    BY <1>0, <2>1, Constants DEF C, RType, Tsns
  <2> HIDE DEF r
  <2>3. n <= v.got + 1 /\ "skip" \notin v.flaws
    BY <2>1, <2>2, <2>n DEF Behind, LastTsn, Kept
  <2>4. Behind(r) /\ r.got >= v.got /\ n <= r.got
    BY <1>0, <2>1, <2>3, DeliverBehind
  <2>5. Grown(w, r)
    BY <1>0, <2>1, <2>4, GrownMore DEF Kept
  <2>6. w.paused => r.paused
    BY <2>1 DEF Kept
  <2>7. r.intsn >= FirstTsn
    BY <2>1, <2>2, <2>n DEF C
  <2> QED
    BY <2>1, <2>2, <2>4, <2>5, <2>6, <2>7 DEF Kept, r
<1> QED
  BY <1>1, <1>2

\* The same for Exact: after i steps i chunks were delivered, or the next one is not held.
LEMMA PullExact ==
  ASSUME NoWrap, NEW v \in RType, v.userTSN < TsnRange - 1, v.intsn < TsnRange - 1,
         Exact(v), NEW i \in 1..Chunks,
         v.got >= i - 1 \/ v.got + 1 \notin v.held, NEW stop,
         ~PullOne(v, i, stop).paused
  PROVE  LET r == PullOne(v, i, stop)
         IN Exact(r) /\ (r.got >= i \/ r.got + 1 \notin r.held)
<1> DEFINE n == FirstHeld(v.held)
           r == PullOne(v, i, stop)
<1>n. /\ FirstTsn \in Int /\ v.userTSN \in Int /\ v.intsn \in Int /\ v.got \in Int /\ i \in Int
      /\ \A m \in v.held : m \in C /\ m \in Int /\ Tsn(m) = FirstTsn + m - 1
  BY Constants, Plain DEF C, RType, Tsns
<1>a. After(v.userTSN) = v.userTSN + 1 /\ After(v.intsn) = v.intsn + 1
  BY Plain DEF RType
<1>h. v.held # {} => n \in v.held /\ \A m \in v.held : Tsn(n) <= Tsn(m)
  BY HeadOfHeld DEF RType
<1> HIDE DEF n, r
<1>1. CASE /\ r = v
           /\ \/ v.done \/ v.held = {} \/ Tsn(n) > After(v.intsn)
              \/ Tsn(n) > After(v.userTSN)
  <2>1. v.got + 1 \notin v.held
    <3> SUFFICES ASSUME v.got + 1 \in v.held PROVE FALSE
      OBVIOUS
    <3>1. n \in v.held /\ Tsn(n) <= Tsn(v.got + 1)
      BY <1>h
    <3>2. n = v.got + 1
      BY <1>n, <3>1 DEF Exact
    <3>3. Tsn(n) = v.userTSN + 1
      BY <1>n, <3>1, <3>2 DEF Exact, LastTsn
    <3>4. v.intsn >= v.userTSN
      BY <1>n DEF Exact
    <3> QED
      BY <1>1, <1>n, <1>a, <3>1, <3>3, <3>4 DEF Exact
  <2> QED
    BY <1>1, <2>1 DEF r
<1>2. ASSUME NEW k \in v.held,
             k \in C /\ Tsn(k) <= After(v.userTSN) /\ \A m \in v.held : Tsn(k) <= Tsn(m),
             r.userTSN = Tsn(k) /\ r.held = v.held \ {k},
             r.intsn = Tsn(k) /\ r.done = r.paused, Says(v, r, k)
      PROVE  Exact(r) /\ (r.got >= i \/ r.got + 1 \notin r.held)
  <2>1. k = v.got + 1
    BY <1>2, <1>n, <1>a DEF Exact, LastTsn
  <2>2. r.got = k /\ r.flaws = v.flaws
    BY <1>2, <2>1 DEF Says
  <2>3. ~r.paused
    BY DEF r
  <2>4. \A m \in r.held : m > r.got
    BY <1>2, <1>n, <2>2
  <2>5. r.userTSN = LastTsn(r.got)
    BY <1>2, <1>n, <2>2 DEF LastTsn
  <2>6. Exact(r)
    BY <1>2, <2>2, <2>3, <2>4, <2>5 DEF Exact
  <2>7. r.got >= i
    BY <1>2, <1>n, <2>1, <2>2
  <2> QED
    BY <2>6, <2>7
<1> QED
  BY <1>1, <1>2, PullOneIs DEF n, r

\* The loop that pulls chunks out of the hold buffer.
LEMMA PullLoop ==
  ASSUME NoWrap, NEW w \in RType, w.userTSN < TsnRange - 1, w.intsn < TsnRange - 1,
         Behind(w), NEW stop
  PROVE  LET r == PullAll(w, stop)
         IN /\ Kept(w, r)
            /\ Exact(w) /\ ~r.paused => /\ Exact(r) /\ r.intsn = r.userTSN
                                        /\ \A n \in r.held : n > r.got + 1
<1>1. PICK f : /\ f[0] = w
               /\ \A i \in 1..Chunks : f[i] = PullOne(f[i - 1], i, stop)
               /\ PullAll(w, stop) = f[Chunks]
  BY PullRuns
<1> DEFINE E(i, v) == Exact(w) /\ ~v.paused =>
                        Exact(v) /\ (v.got >= i \/ v.got + 1 \notin v.held)
           S == {i \in 0..Chunks : Kept(w, f[i]) /\ E(i, f[i])}
<1>2. Kept(w, w) /\ E(0, w)
  <2>1. w.userTSN \in Int /\ w.got \in Int /\ w.got >= 0
    BY DEF RType, Tsns
  <2>2. Grown(w, w)
    BY <2>1 DEF Grown
  <2> QED
    BY <2>1, <2>2 DEF Kept
<1>3. ASSUME NEW i \in 1..Chunks, NEW v, Kept(w, v), E(i - 1, v)
      PROVE  Kept(w, PullOne(v, i, stop)) /\ E(i, PullOne(v, i, stop))
  <2>1. Kept(w, PullOne(v, i, stop))
    BY <1>3, PullKept
  <2>2. ASSUME Exact(w), ~PullOne(v, i, stop).paused
        PROVE  LET r == PullOne(v, i, stop)
               IN Exact(r) /\ (r.got >= i \/ r.got + 1 \notin r.held)
    <3>0. v \in RType
      BY <1>3 DEF Kept
    <3>1. ~v.paused
      BY <1>3, <2>2, PullKept
    <3>2. Exact(v) /\ (v.got >= i - 1 \/ v.got + 1 \notin v.held)
      BY <1>3, <2>2, <3>1
    <3> QED
      BY <1>3, <2>2, <3>0, <3>1, <3>2, PullExact DEF Kept
  <2> QED
    BY <2>1, <2>2
<1> HIDE DEF E
<1>4. 0 \in S /\ \A i \in 1..Chunks : i - 1 \in S => i \in S
  BY <1>1, <1>2, <1>3, Constants
<1>5. Chunks \in S
  <2> HIDE DEF S
  <2> QED
    BY <1>4, CountUp, Constants
<1>6. Kept(w, f[Chunks]) /\ E(Chunks, f[Chunks])
  BY <1>5
<1> DEFINE r == f[Chunks]
<1>7. ASSUME Exact(w), ~r.paused
      PROVE  Exact(r) /\ r.intsn = r.userTSN /\ \A n \in r.held : n > r.got + 1
  <2>1. Exact(r) /\ (r.got >= Chunks \/ r.got + 1 \notin r.held)
    BY <1>6, <1>7 DEF E
  <2>2. r \in RType
    BY <1>6 DEF Kept
  <2> HIDE DEF r
  <2>3. r.held \subseteq C /\ r.got \in Int /\ \A n \in r.held : n \in Int /\ n <= Chunks
    BY <2>2 DEF RType, C
  <2>4. r.got + 1 \notin r.held
    BY <2>1, <2>3, Constants
  <2> QED
    BY <2>1, <2>3, <2>4 DEF Exact
<1> QED
  BY <1>1, <1>6, <1>7

-----------------------------------------------------------------------------
(* The receiver.                                                           *)

RcvType == [intsn : Tsns, userTSN : Tsns, held : SUBSET C, paused : BOOLEAN]

RcvOK ==
  /\ rcv \in RcvType /\ got \in 0..Chunks /\ flaws \subseteq {"repeat", "skip"}
  /\ dropped \subseteq C /\ pauses \in 0..MaxPauses

\* The state in which a loop of the receiver starts.
LEMMA ReceivingType ==
  ASSUME RcvOK, NEW r \in RcvType
  PROVE  LET w == Receiving(r)
         IN /\ w \in RType /\ w.intsn = r.intsn /\ w.userTSN = r.userTSN /\ w.held = r.held
            /\ w.paused = r.paused /\ w.got = got /\ w.flaws = flaws /\ ~w.done
BY DEF Receiving, RType, RcvType, RcvOK

\* The state in which the pulling starts, once chunk n was handed up.
Started(n, a, stop) ==
  Deliver([Receiving([rcv EXCEPT !.intsn = a, !.userTSN = Tsn(n)])
             EXCEPT !.paused = (stop = 0)], n)

\* Its session and what the history says then.
LEMMA StartedIs ==
  ASSUME RcvOK, NEW n \in C, NEW a \in Tsns, NEW stop
  PROVE  LET w == Started(n, a, stop)
         IN /\ w \in RType /\ w.intsn = a /\ w.userTSN = Tsn(n) /\ w.held = rcv.held
            /\ (w.paused <=> stop = 0) /\ ~w.done
            /\ Says([got |-> got, flaws |-> flaws], w, n)
<1> DEFINE r == [rcv EXCEPT !.intsn = a, !.userTSN = Tsn(n)]
           x == Receiving(r)
<1>1. PICK p \in BOOLEAN : p = (stop = 0)
  OBVIOUS
<1>2. Tsn(n) \in Tsns
  BY TsnType
<1>3. r \in RcvType /\ r.intsn = a /\ r.userTSN = Tsn(n) /\ r.held = rcv.held
  BY <1>2 DEF RcvOK, RcvType
<1> HIDE DEF r
<1>4. /\ x \in RType /\ x.intsn = a /\ x.userTSN = Tsn(n) /\ x.held = rcv.held
      /\ x.got = got /\ x.flaws = flaws /\ ~x.done
  BY <1>3, ReceivingType
<1> DEFINE y == [x EXCEPT !.paused = p]
<1> HIDE DEF x
<1>5. /\ y \in RType /\ y.intsn = a /\ y.userTSN = Tsn(n) /\ y.held = rcv.held
      /\ y.paused = p /\ y.got = got /\ y.flaws = flaws /\ ~y.done
  BY <1>4 DEF RType
<1>6. Started(n, a, stop) = Deliver(y, n)
  BY <1>1 DEF Started, y, x, r
<1> HIDE DEF y
<1>7. LET w == Deliver(y, n)
      IN /\ w \in RType /\ w.intsn = a /\ w.userTSN = Tsn(n) /\ w.held = rcv.held
         /\ w.paused = p /\ ~w.done
         /\ Says([got |-> got, flaws |-> flaws], w, n)
  BY <1>5, DeliverType DEF Says
<1> QED
  BY <1>1, <1>6, <1>7

\* Where intsn is moved to before chunk n is handed up.
MovedTo(n) ==
  ResumeAll(Receiving([rcv EXCEPT !.intsn = Tsn(n), !.userTSN = Tsn(n)])).userTSN

\* DeliverNext with its loops named.
LEMMA DeliverNextIs ==
  ASSUME RcvOK, NEW n \in C, NEW stop, DeliverNext(n, stop)
  PROVE  LET r == PullAll(Started(n, MovedTo(n), stop), stop)
         IN /\ MovedTo(n) \in Tsns /\ r \in RType
            /\ sacks' = SendSack([rcv EXCEPT !.intsn = MovedTo(n), !.userTSN = Tsn(n)])
            /\ rcv' = [intsn |-> r.intsn, userTSN |-> r.userTSN, held |-> r.held,
                       paused |-> r.paused]
            /\ got' = r.got /\ flaws' = r.flaws /\ dropped' = dropped
            /\ pauses' = IF r.paused THEN pauses + 1 ELSE pauses
<1> DEFINE took == [rcv EXCEPT !.intsn = Tsn(n), !.userTSN = Tsn(n)]
           a    == MovedTo(n)
<1>1. Tsn(n) \in Tsns
  BY TsnType
<1>2. took \in RcvType
  BY <1>1 DEF RcvOK, RcvType
<1>3. Receiving(took) \in RType
  BY <1>2, ReceivingType
<1>4. a \in Tsns
  BY <1>3, ResumeType DEF RType, MovedTo
<1>5. [took EXCEPT !.intsn = a] = [rcv EXCEPT !.intsn = a, !.userTSN = Tsn(n)]
  BY <1>1, <1>4 DEF RcvOK, RcvType
<1>6. Started(n, a, stop) \in RType
  BY <1>4, StartedIs
<1>7. PullAll(Started(n, a, stop), stop) \in RType
  BY <1>6, PullType
<1>8. a = ResumeAll(Receiving(took)).userTSN
  BY DEF MovedTo
<1> DEFINE moved == [took EXCEPT !.intsn = a]
<1>9. /\ sacks' = SendSack(moved)
      /\ LET r == PullAll(Deliver([Receiving(moved) EXCEPT !.paused = (stop = 0)], n), stop)
         IN ReceiverIs(r) /\ pauses' = IF r.paused THEN pauses + 1 ELSE pauses
  BY <1>8 DEF DeliverNext
<1>10. Deliver([Receiving(moved) EXCEPT !.paused = (stop = 0)], n) = Started(n, a, stop)
  BY <1>5 DEF Started
<1> QED
  BY <1>4, <1>5, <1>7, <1>9, <1>10 DEF ReceiverIs

\* Steps that are not the receiver's leave it alone and send no SACK.
LEMMA ReceiverSteps ==
  ASSUME [Next]_vars
  PROVE  \/ UNCHANGED <<rcv, got, flaws, dropped, pauses>> /\ sacks' \subseteq sacks
         \/ Pause \/ Resume \/ \E n \in C : ReceiveData(n)
<1>1. CASE UNCHANGED vars
  BY <1>1 DEF vars, hist
<1>2. CASE SctpSendData
  BY <1>2 DEF SctpSendData, hist
<1>3. CASE SctpResent
  BY <1>3 DEF SctpResent, hist
<1>4. CASE \E n \in C : LoseData(n)
  BY <1>4 DEF LoseData, hist
<1>5. CASE \E k \in sacks : LoseSack(k)
  BY <1>5 DEF LoseSack, hist
<1>6. CASE \E k \in sacks : ReceiveSack(k)
  BY <1>6 DEF ReceiveSack, hist
<1> QED
  BY <1>1, <1>2, <1>3, <1>4, <1>5, <1>6 DEF Next

\* The four ways of a DATA chunk.
LEMMA DataCases ==
  ASSUME RcvOK, NEW n \in C, ReceiveData(n)
  PROVE  \/ /\ Tsn(n) = After(rcv.intsn) /\ MustHold(Tsn(n))
            /\ AddPacketToHoldingQueue(n, [rcv EXCEPT !.intsn = Tsn(n)])
         \/ /\ Tsn(n) = After(rcv.intsn) /\ ~MustHold(Tsn(n))
            /\ \E stop \in Stops : DeliverNext(n, stop)
         \/ Tsn(n) > After(rcv.intsn) /\ AddPacketToHoldingQueue(n, rcv)
         \/ Tsn(n) < After(rcv.intsn) /\ Duplicate
BY DEF ReceiveData

\* What a chunk that is put into the hold buffer changes.
LEMMA HoldIs ==
  ASSUME RcvOK, NEW n \in C, NEW r \in RcvType, AddPacketToHoldingQueue(n, r)
  PROVE  /\ got' = got /\ flaws' = flaws /\ pauses' = pauses
         /\ rcv' \in RcvType /\ rcv'.intsn = r.intsn /\ rcv'.userTSN = r.userTSN
         /\ rcv'.paused = r.paused
         /\ \/ /\ rcv'.held = r.held \cup {n} /\ sacks' = SendSack(rcv') /\ dropped' = dropped
            \/ /\ rcv'.held = r.held /\ sacks' = sacks
               /\ dropped' = IF r.intsn = Tsn(n) THEN dropped \cup {n} ELSE dropped
<1> DEFINE h == [r EXCEPT !.held = @ \cup {n}]
<1>1. /\ h \in RcvType /\ h.intsn = r.intsn /\ h.userTSN = r.userTSN /\ h.paused = r.paused
      /\ h.held = r.held \cup {n}
  BY DEF RcvType
<1> HIDE DEF h
<1>2. CASE HoldFits(n)
  <2>1. rcv' = h /\ sacks' = SendSack(h) /\ dropped' = dropped
    BY <1>2 DEF AddPacketToHoldingQueue, h
  <2> QED
    BY <1>1, <2>1 DEF AddPacketToHoldingQueue
<1>3. CASE ~HoldFits(n)
  BY <1>3 DEF AddPacketToHoldingQueue
<1> QED
  BY <1>2, <1>3

\* What a resumed receiver is.
LEMMA ResumeIs ==
  ASSUME RcvOK, Resume
  PROVE  \E again \in BOOLEAN :
           LET w == Receiving([rcv EXCEPT !.paused = FALSE])
               r == ResumeAll(w)
           IN /\ w \in RType /\ w.userTSN = rcv.userTSN /\ w.intsn = rcv.intsn
              /\ w.held = rcv.held /\ w.got = got /\ w.flaws = flaws
              /\ r \in RType
              /\ rcv' = [intsn |-> r.intsn, userTSN |-> r.userTSN, held |-> r.held,
                         paused |-> again]
              /\ got' = r.got /\ flaws' = r.flaws /\ dropped' = dropped /\ sacks' = sacks
              /\ again => pauses < MaxPauses
              /\ pauses' = IF again THEN pauses + 1 ELSE pauses
<1> DEFINE x == [rcv EXCEPT !.paused = FALSE]
           w == Receiving(x)
           r == ResumeAll(w)
<1>1. x \in RcvType /\ x.intsn = rcv.intsn /\ x.userTSN = rcv.userTSN /\ x.held = rcv.held
  BY DEF RcvOK, RcvType
<1>2. PICK again \in IF r.held # rcv.held /\ pauses < MaxPauses THEN BOOLEAN ELSE {FALSE} :
        /\ ReceiverIs([r EXCEPT !.paused = again])
        /\ pauses' = IF again THEN pauses + 1 ELSE pauses
  BY DEF Resume
<1>s. sacks' = sacks
  BY DEF Resume
<1>b. again \in BOOLEAN /\ (again => pauses < MaxPauses)
  BY <1>2
<1> HIDE DEF x
<1>3. /\ w \in RType /\ w.userTSN = rcv.userTSN /\ w.intsn = rcv.intsn
      /\ w.held = rcv.held /\ w.got = got /\ w.flaws = flaws
  BY <1>1, ReceivingType
<1> HIDE DEF w
<1>4. r \in RType
  BY <1>3, ResumeType
<1> HIDE DEF r
<1> DEFINE y == [r EXCEPT !.paused = again]
<1>5. /\ y.intsn = r.intsn /\ y.userTSN = r.userTSN /\ y.held = r.held /\ y.got = r.got
      /\ y.flaws = r.flaws /\ y.paused = again
  BY <1>4 DEF RType
<1> HIDE DEF y
<1>6. /\ rcv' = [intsn |-> y.intsn, userTSN |-> y.userTSN, held |-> y.held, paused |-> y.paused]
      /\ got' = y.got /\ flaws' = y.flaws /\ dropped' = dropped
  BY <1>2 DEF ReceiverIs, y
<1> QED
  BY <1>2, <1>b, <1>s, <1>3, <1>4, <1>5, <1>6 DEF w, r, x

\* The receiver's part of TypeOK.
LEMMA RcvOKStep == RcvOK /\ [Next]_vars => RcvOK'
<1> SUFFICES ASSUME RcvOK, [Next]_vars PROVE RcvOK'
  OBVIOUS
<1>0. MaxPauses \in Nat /\ pauses \in Nat /\ pauses <= MaxPauses
  BY Constants DEF RcvOK
<1>1. CASE UNCHANGED <<rcv, got, flaws, dropped, pauses>>
  BY <1>1 DEF RcvOK
<1>2. CASE Pause
  <2>1. pauses' \in 0..MaxPauses
    BY <1>0, <1>2 DEF Pause
  <2>2. rcv' \in RcvType
    BY <1>2 DEF Pause, RcvOK, RcvType
  <2> QED
    BY <1>2, <2>1, <2>2 DEF Pause, hist, RcvOK
<1>3. CASE Resume
  <2>1. PICK again \in BOOLEAN, r \in RType :
           /\ rcv' = [intsn |-> r.intsn, userTSN |-> r.userTSN, held |-> r.held,
                      paused |-> again]
           /\ got' = r.got /\ flaws' = r.flaws /\ dropped' = dropped
           /\ again => pauses < MaxPauses
           /\ pauses' = IF again THEN pauses + 1 ELSE pauses
    BY <1>3, ResumeIs
  <2>2. pauses' \in 0..MaxPauses
    BY <1>0, <2>1
  <2> QED
    BY <2>1, <2>2 DEF RcvOK, RcvType, RType
<1>4. ASSUME NEW n \in C, ReceiveData(n) PROVE RcvOK'
  <2>1. Tsn(n) \in Tsns
    BY TsnType
  <2>2. ASSUME NEW r \in RcvType, AddPacketToHoldingQueue(n, r) PROVE RcvOK'
    <3>1. /\ got' = got /\ flaws' = flaws /\ pauses' = pauses /\ rcv' \in RcvType
          /\ dropped' \subseteq dropped \cup {n}
      BY <2>2, HoldIs
    <3> QED
      BY <3>1 DEF RcvOK
  <2>3. [rcv EXCEPT !.intsn = Tsn(n)] \in RcvType /\ rcv \in RcvType
    BY <2>1 DEF RcvOK, RcvType
  <2>4. ASSUME NEW stop \in Stops, DeliverNext(n, stop), ~MustHold(Tsn(n)) PROVE RcvOK'
    <3>1. PICK r \in RType :
             /\ r = PullAll(Started(n, MovedTo(n), stop), stop)
             /\ MovedTo(n) \in Tsns
             /\ rcv' = [intsn |-> r.intsn, userTSN |-> r.userTSN, held |-> r.held,
                        paused |-> r.paused]
             /\ got' = r.got /\ flaws' = r.flaws /\ dropped' = dropped
             /\ pauses' = IF r.paused THEN pauses + 1 ELSE pauses
      BY <2>4, DeliverNextIs
    <3>2. r.paused => pauses < MaxPauses
      <4> SUFFICES ASSUME ~(pauses < MaxPauses) PROVE ~r.paused
        OBVIOUS
      <4>1. stop = Chunks + 1 /\ stop # 0
        BY Constants DEF Stops, NoStop
      <4>2. Started(n, MovedTo(n), stop) \in RType /\ ~Started(n, MovedTo(n), stop).paused
        BY <3>1, <4>1, StartedIs
      <4> QED
        BY <3>1, <4>1, <4>2, PullType
    <3>3. pauses' \in 0..MaxPauses
      BY <1>0, <3>1, <3>2
    <3> QED
      BY <3>1, <3>3 DEF RcvOK, RcvType, RType
  <2>5. CASE Duplicate
    BY <2>5 DEF Duplicate, hist, RcvOK
  <2> QED
    BY <1>4, <2>2, <2>3, <2>4, <2>5, DataCases
<1> QED
  BY <1>1, <1>2, <1>3, <1>4, ReceiverSteps

\* The types hold at the start.
LEMMA RcvOKInit == Init => RcvOK
<1> SUFFICES ASSUME Init PROVE RcvOK
  OBVIOUS
<1>1. (FirstTsn - 1) % TsnRange \in Tsns
  BY Constants DEF Tsns
<1> QED
  BY <1>1, Constants DEF Init, RcvOK, RcvType

-----------------------------------------------------------------------------
(* NoSkip and ExactlyOnce.                                                 *)

\* The application's TSN is not beyond what was delivered.
OrderInv ==
  /\ rcv.userTSN <= LastTsn(got) /\ NoSkip
  /\ rcv.userTSN < TsnRange - 1 /\ rcv.intsn < TsnRange - 1

\* Until the application pauses: all was delivered once up to both TSNs, and the chunk
\* after them is not held.
OnceInv ==
  pauses = 0 => /\ ~rcv.paused /\ flaws = {} /\ dropped = {}
                /\ rcv.userTSN = LastTsn(got) /\ rcv.intsn = LastTsn(got)
                /\ \A n \in rcv.held : n > got + 1

\* What one step of the receiver does not take back.
Advances ==
  /\ got' >= got /\ dropped \subseteq dropped'
  /\ \A n \in rcv.held : n <= got' \/ n \in rcv.held'

\* The chunk that is taken is at most the next one for the application, and what the loops
\* make of it.
LEMMA DeliverNextDoes ==
  ASSUME NoWrap, RcvOK, OrderInv, NEW n \in C, NEW stop, DeliverNext(n, stop),
         Tsn(n) = After(rcv.intsn), ~MustHold(Tsn(n))
  PROVE  /\ OrderInv' /\ Advances /\ n <= got' /\ got' \in Int /\ dropped' = dropped
         /\ \E a \in Tsns :
              /\ FirstTsn <= a /\ a <= LastTsn(Chunks) /\ rcv'.intsn >= FirstTsn
              /\ sacks' = SendSack([rcv EXCEPT !.intsn = a, !.userTSN = Tsn(n)])
              /\ \A m \in C : Tsn(n) < Tsn(m) /\ Tsn(m) <= a => m \in rcv.held
              /\ rcv'.intsn \in {a, rcv'.userTSN}
         /\ OnceInv /\ pauses' = 0 =>
              /\ ~rcv'.paused /\ flaws' = {}
              /\ rcv'.userTSN = LastTsn(got') /\ rcv'.intsn = LastTsn(got')
              /\ \A m \in rcv'.held : m > got' + 1
<1> DEFINE a == MovedTo(n)
           w == Started(n, a, stop)
           r == PullAll(w, stop)
           x == Receiving([rcv EXCEPT !.intsn = Tsn(n), !.userTSN = Tsn(n)])
           h == [got |-> got, flaws |-> flaws]
<1>1. /\ a \in Tsns /\ r \in RType
      /\ sacks' = SendSack([rcv EXCEPT !.intsn = a, !.userTSN = Tsn(n)])
      /\ rcv' = [intsn |-> r.intsn, userTSN |-> r.userTSN, held |-> r.held,
                 paused |-> r.paused]
      /\ got' = r.got /\ flaws' = r.flaws /\ dropped' = dropped
      /\ pauses' = IF r.paused THEN pauses + 1 ELSE pauses
  BY DeliverNextIs
<1>2. /\ w \in RType /\ w.intsn = a /\ w.userTSN = Tsn(n) /\ w.held = rcv.held
      /\ (w.paused <=> stop = 0) /\ ~w.done /\ Says(h, w, n)
  BY <1>1, StartedIs
<1>3. /\ Tsn(n) = FirstTsn + n - 1 /\ Tsn(n) < TsnRange - 1 /\ Tsn(n) = rcv.intsn + 1
      /\ (Tsn(n) - 1) % TsnRange = Tsn(n) - 1 /\ Tsn(n) \in Tsns
  BY Plain, TsnType DEF RcvOK, RcvType, OrderInv
<1>4. x \in RType /\ x.userTSN = Tsn(n) /\ x.held = rcv.held
  <2>1. LET t == [rcv EXCEPT !.intsn = Tsn(n), !.userTSN = Tsn(n)]
        IN t \in RcvType /\ t.userTSN = Tsn(n) /\ t.held = rcv.held
    BY <1>3 DEF RcvOK, RcvType
  <2> QED
    BY <2>1, ReceivingType
<1>5. a = ResumeAll(x).userTSN
  BY DEF MovedTo
<1>n. /\ n \in Int /\ got \in Int /\ FirstTsn \in Int /\ rcv.userTSN \in Int /\ rcv.intsn \in Int
      /\ a \in Int /\ Tsn(n) \in Int /\ TsnRange \in Int
  BY <1>1, <1>3, Constants DEF C, RcvOK, RcvType, Tsns
<1> HIDE DEF a, w, r, x
<1>6. Moved(x, ResumeAll(x))
  BY <1>3, <1>4, ResumeLoop
<1>7. /\ a >= Tsn(n) /\ a < TsnRange - 1
      /\ \A m \in C : Tsn(n) < Tsn(m) /\ Tsn(m) <= a => m \in rcv.held
  BY <1>4, <1>5, <1>6 DEF Moved
<1>u. FirstTsn <= a /\ a <= LastTsn(Chunks)
  <2>1. a = Tsn(n) \/ \E m \in rcv.held : a = Tsn(m)
    BY <1>4, <1>5, <1>6 DEF Moved
  <2>2. PICK m \in C : a = Tsn(m)
    BY <2>1 DEF RcvOK, RcvType
  <2>3. Tsn(m) = FirstTsn + m - 1
    BY Plain
  <2> QED
    BY <1>n, <2>2, <2>3, Constants DEF C, LastTsn
<1>8. n <= got + 1
  <2>1. ~(rcv.userTSN < Tsn(n) - 1)
    BY <1>3 DEF MustHold
  <2> QED
    BY <1>3, <1>n, <2>1 DEF OrderInv, LastTsn
<1>9. Behind(w) /\ w.got >= got /\ n <= w.got
  <2>1. w.got \in Int /\ w.userTSN \in Int /\ w.got >= got /\ n <= w.got
    BY <1>2, <1>8, <1>n DEF Says, RType, Tsns
  <2>2. "skip" \notin w.flaws
    <3>1. "skip" \notin flaws
      BY DEF OrderInv, NoSkip
    <3>2. n # got + 1 => n <= got
      BY <1>8, <1>n
    <3> QED
      BY <1>2, <3>1, <3>2 DEF Says
  <2>3. w.userTSN <= LastTsn(w.got)
    BY <1>2, <1>3, <1>n, <2>1 DEF LastTsn
  <2> QED
    BY <2>1, <2>2, <2>3 DEF Behind
<1>10. /\ Kept(w, r)
       /\ Exact(w) /\ ~r.paused => /\ Exact(r) /\ r.intsn = r.userTSN
                                   /\ \A m \in r.held : m > r.got + 1
  <2>1. w.userTSN < TsnRange - 1 /\ w.intsn < TsnRange - 1
    BY <1>2, <1>3, <1>7
  <2> QED
    BY <1>2, <1>9, <2>1, PullLoop DEF r
<1>11. OrderInv'
  <2>1. /\ r.userTSN <= LastTsn(r.got) /\ "skip" \notin r.flaws
        /\ r.userTSN < TsnRange - 1 /\ r.intsn < TsnRange - 1
    BY <1>10 DEF Kept, Behind
  <2>2. rcv'.userTSN = r.userTSN /\ rcv'.intsn = r.intsn
    BY <1>1
  <2> QED
    BY <1>1, <2>1, <2>2 DEF OrderInv, NoSkip, LastTsn
<1>12. Advances /\ n <= got' /\ got' \in Int
  <2>1. r.got \in Int /\ w.got \in Int
    BY <1>1, <1>2 DEF RType
  <2>2. r.got >= w.got /\ \A m \in w.held : m <= r.got \/ m \in r.held
    BY <1>10 DEF Kept, Grown
  <2>3. got' >= got /\ n <= got'
    BY <1>1, <1>9, <1>n, <2>1, <2>2
  <2>4. \A m \in rcv.held : m <= got' \/ m \in rcv.held'
    BY <1>1, <1>2, <2>2
  <2> QED
    BY <1>1, <2>1, <2>3, <2>4 DEF Advances
<1>13. rcv'.intsn \in {a, rcv'.userTSN} /\ rcv'.intsn >= FirstTsn
  BY <1>1, <1>2, <1>u, <1>10 DEF Kept
<1>14. ASSUME OnceInv, pauses' = 0
       PROVE  /\ ~rcv'.paused /\ flaws' = {}
              /\ rcv'.userTSN = LastTsn(got') /\ rcv'.intsn = LastTsn(got')
              /\ \A m \in rcv'.held : m > got' + 1
  <2>1. pauses \in Nat
    BY DEF RcvOK
  <2>2. ~r.paused /\ pauses = 0
    BY <1>1, <1>14, <2>1
  <2>3. /\ flaws = {} /\ rcv.userTSN = LastTsn(got) /\ rcv.intsn = LastTsn(got)
        /\ \A m \in rcv.held : m > got + 1
    BY <1>14, <2>2 DEF OnceInv
  <2>4. n = got + 1
    BY <1>3, <1>n, <2>3 DEF LastTsn
  <2>5. w.got = n /\ w.flaws = {}
    BY <1>2, <2>3, <2>4 DEF Says
  <2>6. \A m \in w.held : m > w.got
    BY <1>2, <2>3, <2>4, <2>5
  <2>7. w.userTSN = LastTsn(w.got)
    BY <1>2, <1>3, <2>5 DEF LastTsn
  <2>8. ASSUME w.intsn # w.userTSN PROVE w.intsn > w.userTSN /\ w.got + 1 \in w.held
    <3>1. a > Tsn(n)
      BY <1>2, <1>7, <1>n, <2>8
    <3>2. n + 1 \in C
      <4>1. PICK m \in rcv.held : a = Tsn(m)
        BY <1>4, <1>5, <1>6, <1>n, <3>1 DEF Moved
      <4>2. m \in C /\ m \in Int /\ m <= Chunks /\ Tsn(m) = FirstTsn + m - 1
        BY Plain DEF RcvOK, RcvType, C
      <4>3. n < m
        BY <1>3, <1>n, <3>1, <4>1, <4>2
      <4> QED
        BY <1>n, <4>2, <4>3, Constants DEF C
    <3>3. Tsn(n + 1) = Tsn(n) + 1
      BY <1>3, <1>n, <3>2, Plain
    <3>4. n + 1 \in rcv.held
      BY <1>7, <1>n, <3>1, <3>2, <3>3
    <3> QED
      BY <1>2, <2>5, <3>1, <3>4
  <2>9. Exact(w)
    BY <1>2, <2>5, <2>6, <2>7, <2>8 DEF Exact
  <2>10. /\ Exact(r) /\ r.intsn = r.userTSN /\ \A m \in r.held : m > r.got + 1
    BY <1>10, <2>2, <2>9
  <2> QED
    BY <1>1, <2>2, <2>10 DEF Exact, LastTsn
<1> QED
  BY <1>1, <1>u, <1>7, <1>11, <1>12, <1>13, <1>14

\* Every step keeps OrderInv and takes nothing back.
LEMMA OrderStep ==
  ASSUME NoWrap, RcvOK, OrderInv, [Next]_vars
  PROVE  OrderInv' /\ Advances
<1>n. got \in Int /\ rcv.userTSN \in Int /\ rcv.intsn \in Int /\ \A m \in rcv.held : m \in Int
  BY DEF RcvOK, RcvType, Tsns, C
<1>1. ASSUME rcv'.userTSN = rcv.userTSN, rcv'.intsn < TsnRange - 1, got' = got, flaws' = flaws,
             rcv.held \subseteq rcv'.held, dropped \subseteq dropped'
      PROVE  OrderInv' /\ Advances
  <2>1. LastTsn(got)' = LastTsn(got)
    BY <1>1 DEF LastTsn
  <2> QED
    BY <1>1, <1>n, <2>1 DEF OrderInv, Advances, NoSkip
<1>2. CASE UNCHANGED <<rcv, got, flaws, dropped, pauses>>
  BY <1>1, <1>2 DEF OrderInv
<1>3. CASE Pause
  <2>1. rcv'.userTSN = rcv.userTSN /\ rcv'.intsn = rcv.intsn /\ rcv'.held = rcv.held
    BY <1>3 DEF Pause, RcvOK, RcvType
  <2> QED
    BY <1>1, <1>3, <2>1 DEF Pause, hist, OrderInv
<1>4. CASE Resume
  <2>1. PICK w \in RType, r \in RType, again \in BOOLEAN :
           /\ r = ResumeAll(w) /\ w.userTSN = rcv.userTSN /\ w.intsn = rcv.intsn
           /\ w.held = rcv.held /\ w.got = got /\ w.flaws = flaws
           /\ rcv' = [intsn |-> r.intsn, userTSN |-> r.userTSN, held |-> r.held,
                      paused |-> again]
           /\ got' = r.got /\ flaws' = r.flaws /\ dropped' = dropped
    BY <1>4, ResumeIs
  <2>2. Behind(w) /\ w.userTSN < TsnRange - 1
    BY <2>1 DEF OrderInv, Behind, NoSkip
  <2>3. Moved(w, r) /\ Behind(r) /\ Grown(w, r)
    BY <2>1, <2>2, ResumeLoop
  <2>4. rcv'.userTSN = r.userTSN /\ rcv'.intsn = w.intsn /\ rcv'.held = r.held
    BY <2>1, <2>3 DEF Moved
  <2>5. OrderInv'
    BY <2>1, <2>3, <2>4 DEF OrderInv, Behind, Moved, NoSkip, LastTsn
  <2>6. Advances
    BY <2>1, <2>3, <2>4 DEF Grown, Advances
  <2> QED
    BY <2>5, <2>6
<1>5. ASSUME NEW n \in C, ReceiveData(n) PROVE OrderInv' /\ Advances
  <2>1. Tsn(n) \in Tsns /\ Tsn(n) < TsnRange - 1
    BY Plain, TsnType
  <2>2. ASSUME NEW r \in RcvType, AddPacketToHoldingQueue(n, r), r.userTSN = rcv.userTSN,
               r.intsn < TsnRange - 1, r.held = rcv.held
        PROVE  OrderInv' /\ Advances
    <3>1. /\ got' = got /\ flaws' = flaws /\ rcv'.userTSN = r.userTSN /\ rcv'.intsn = r.intsn
          /\ rcv.held \subseteq rcv'.held /\ dropped \subseteq dropped'
      BY <2>2, HoldIs
    <3> QED
      BY <1>1, <2>2, <3>1
  <2>3. LET r == [rcv EXCEPT !.intsn = Tsn(n)]
        IN /\ r \in RcvType /\ r.userTSN = rcv.userTSN /\ r.intsn = Tsn(n)
           /\ r.held = rcv.held
    BY <2>1 DEF RcvOK, RcvType
  <2>4. CASE AddPacketToHoldingQueue(n, [rcv EXCEPT !.intsn = Tsn(n)])
    BY <2>1, <2>2, <2>3, <2>4
  <2>5. CASE AddPacketToHoldingQueue(n, rcv)
    BY <2>2, <2>5 DEF OrderInv, RcvOK
  <2>6. CASE Duplicate
    BY <1>1, <2>6 DEF Duplicate, hist, OrderInv
  <2> QED
    BY <1>5, <2>4, <2>5, <2>6, DataCases, DeliverNextDoes
<1> QED
  BY <1>2, <1>3, <1>4, <1>5, ReceiverSteps

\* Every step keeps OnceInv.
LEMMA OnceStep ==
  ASSUME NoWrap, RcvOK, OrderInv, OnceInv, [Next]_vars
  PROVE  OnceInv'
<1> SUFFICES ASSUME pauses' = 0
             PROVE  /\ ~rcv'.paused /\ flaws' = {} /\ dropped' = {}
                    /\ rcv'.userTSN = LastTsn(got') /\ rcv'.intsn = LastTsn(got')
                    /\ \A n \in rcv'.held : n > got' + 1
  BY DEF OnceInv, LastTsn
<1>n. /\ got \in Int /\ FirstTsn \in Int /\ rcv.userTSN \in Int /\ rcv.intsn \in Int
      /\ pauses \in Nat /\ rcv \in RcvType
  BY Constants DEF RcvOK, RcvType, Tsns
<1>a. After(rcv.intsn) = rcv.intsn + 1 /\ After(rcv.userTSN) = rcv.userTSN + 1
  BY Plain DEF RcvOK, RcvType, OrderInv
<1>1. CASE UNCHANGED <<rcv, got, flaws, dropped, pauses>>
  BY <1>1 DEF OnceInv
<1>2. CASE Pause
  BY <1>n, <1>2 DEF Pause
<1>3. CASE Resume
  <2>1. PICK w \in RType, r \in RType, again \in BOOLEAN :
           /\ r = ResumeAll(w) /\ w.userTSN = rcv.userTSN /\ w.intsn = rcv.intsn
           /\ w.held = rcv.held /\ w.got = got /\ w.flaws = flaws
           /\ rcv' = [intsn |-> r.intsn, userTSN |-> r.userTSN, held |-> r.held,
                      paused |-> again]
           /\ got' = r.got /\ flaws' = r.flaws /\ dropped' = dropped
           /\ pauses' = IF again THEN pauses + 1 ELSE pauses
    BY <1>3, ResumeIs
  <2>2. again = FALSE /\ pauses = 0
    BY <1>n, <2>1
  <2>3. /\ flaws = {} /\ dropped = {} /\ rcv.userTSN = LastTsn(got) /\ rcv.intsn = LastTsn(got)
        /\ \A n \in rcv.held : n > got + 1
    BY <2>2 DEF OnceInv
  <2>4. ResumeOne(w) = w
    <3>1. CASE w.held = {}
      BY <3>1 DEF ResumeOne
    <3>2. CASE w.held # {}
      <4> DEFINE n == FirstHeld(w.held)
      <4>1. n \in w.held /\ n \in C
        BY <3>2, HeadOfHeld DEF RType
      <4>2. Tsn(n) = FirstTsn + n - 1 /\ n \in Int /\ n > got + 1
        BY <2>1, <2>3, <4>1, Plain DEF C
      <4>3. Tsn(n) # After(w.userTSN)
        <5> HIDE DEF n
        <5> QED
          BY <1>n, <1>a, <2>1, <2>3, <4>2 DEF LastTsn
      <4> QED
        BY <4>3 DEF ResumeOne
    <3> QED
      BY <3>1, <3>2
  <2>5. r = w
    <3>1. PICK f : /\ f[0] = w
                   /\ \A i \in 1..Chunks : f[i] = ResumeOne(f[i - 1])
                   /\ ResumeAll(w) = f[Chunks]
      BY ResumeRuns
    <3> DEFINE S == {i \in 0..Chunks : f[i] = w}
    <3>2. 0 \in S /\ \A i \in 1..Chunks : i - 1 \in S => i \in S
      BY <2>4, <3>1, Constants
    <3>3. Chunks \in S
      <4> HIDE DEF S
      <4> QED
        BY <3>2, CountUp, Constants
    <3> QED
      BY <2>1, <3>1, <3>3
  <2> QED
    BY <2>1, <2>2, <2>3, <2>5
<1>4. ASSUME NEW n \in C, ReceiveData(n)
      PROVE  /\ ~rcv'.paused /\ flaws' = {} /\ dropped' = {}
             /\ rcv'.userTSN = LastTsn(got') /\ rcv'.intsn = LastTsn(got')
             /\ \A m \in rcv'.held : m > got' + 1
  <2>1. /\ Tsn(n) = FirstTsn + n - 1 /\ (Tsn(n) - 1) % TsnRange = Tsn(n) - 1
        /\ Tsn(n) \in Tsns /\ n \in Int
    BY Plain, TsnType DEF C
  <2>2. CASE Tsn(n) = After(rcv.intsn) /\ MustHold(Tsn(n))
             /\ AddPacketToHoldingQueue(n, [rcv EXCEPT !.intsn = Tsn(n)])
    <3>1. pauses = 0
      BY <2>2 DEF AddPacketToHoldingQueue
    <3>2. ~rcv.paused /\ rcv.userTSN = rcv.intsn
      BY <3>1 DEF OnceInv
    <3> QED
      BY <1>n, <1>a, <2>1, <2>2, <3>2 DEF MustHold
  <2>3. ASSUME NEW stop \in Stops, DeliverNext(n, stop),
               Tsn(n) = After(rcv.intsn), ~MustHold(Tsn(n))
        PROVE  /\ ~rcv'.paused /\ flaws' = {} /\ dropped' = {}
               /\ rcv'.userTSN = LastTsn(got') /\ rcv'.intsn = LastTsn(got')
               /\ \A m \in rcv'.held : m > got' + 1
    <3>1. /\ ~rcv'.paused /\ flaws' = {} /\ dropped' = dropped
          /\ rcv'.userTSN = LastTsn(got') /\ rcv'.intsn = LastTsn(got')
          /\ \A m \in rcv'.held : m > got' + 1
      BY <2>3, DeliverNextDoes
    <3>2. pauses = 0
      <4>1. pauses' \in {pauses, pauses + 1}
        BY <2>3, DeliverNextIs
      <4> QED
        BY <1>n, <4>1
    <3> QED
      BY <3>1, <3>2 DEF OnceInv
  <2>4. CASE Tsn(n) > After(rcv.intsn) /\ AddPacketToHoldingQueue(n, rcv)
    <3>1. pauses = 0
      BY <2>4 DEF AddPacketToHoldingQueue
    <3>2. n > got + 1
      BY <1>n, <1>a, <2>1, <2>4, <3>1 DEF OnceInv, LastTsn
    <3>3. rcv.intsn # Tsn(n)
      BY <1>n, <1>a, <2>1, <2>4
    <3>4. /\ got' = got /\ flaws' = flaws /\ rcv'.userTSN = rcv.userTSN
          /\ rcv'.intsn = rcv.intsn /\ rcv'.paused = rcv.paused
          /\ rcv'.held \subseteq rcv.held \cup {n} /\ dropped' = dropped
      BY <1>n, <2>4, <3>3, HoldIs
    <3> QED
      BY <3>1, <3>2, <3>4 DEF OnceInv
  <2>5. CASE Duplicate
    BY <2>5 DEF Duplicate, hist, OnceInv
  <2> QED
    BY <1>4, <2>2, <2>3, <2>4, <2>5, DataCases
<1> QED
  BY <1>1, <1>2, <1>3, <1>4, ReceiverSteps

ReceiverInv == RcvOK /\ OrderInv /\ OnceInv

\* The receiver's invariant holds at the start.
LEMMA ReceiverInit == NoWrap /\ Init => ReceiverInv
<1> SUFFICES ASSUME NoWrap, Init PROVE ReceiverInv
  OBVIOUS
<1>1. RcvOK
  BY RcvOKInit
<1>2. (FirstTsn - 1) % TsnRange = FirstTsn - 1
  BY Plain
<1>3. TsnRange \in Int /\ FirstTsn \in Int /\ Chunks \in Nat
  BY Constants DEF Tsns
<1>4. /\ rcv.userTSN = FirstTsn - 1 /\ rcv.intsn = FirstTsn - 1 /\ rcv.held = {}
      /\ ~rcv.paused /\ got = 0 /\ flaws = {} /\ dropped = {}
  BY <1>2 DEF Init
<1> QED
  BY <1>1, <1>3, <1>4 DEF ReceiverInv, OrderInv, OnceInv, NoSkip, LastTsn, NoWrap

\* Spec => []ReceiverInv, unless TSNs wrap around.
LEMMA ReceiverInvariant ==
  ASSUME NoWrap
  PROVE  Spec => []ReceiverInv
<1>1. Init => ReceiverInv
  BY ReceiverInit
<1>2. ReceiverInv /\ [Next]_vars => ReceiverInv'
  BY RcvOKStep, OrderStep, OnceStep DEF ReceiverInv
<1> QED
  BY <1>1, <1>2, PTL DEF Spec

\* The application never sees a chunk before all earlier ones: whatever is lost, reordered,
\* sent again or refused by a full hold buffer, however often it pauses and resumes, in
\* and outside of callbacks (ILibStun_ProcessSctpPacket, ILibSCTP_Resume).
THEOREM OrderCorrect ==
  ASSUME NoWrap
  PROVE  Spec => []NoSkip
<1>1. ReceiverInv => NoSkip
  BY DEF ReceiverInv, OrderInv
<1> QED
  BY <1>1, ReceiverInvariant, PTL

\* As long as the application has not paused it gets every chunk once and in order, and
\* both TSNs stand at the last one it got.
THEOREM OnceCorrect ==
  ASSUME NoWrap
  PROVE  Spec => []ExactlyOnce
<1>1. ReceiverInv => ExactlyOnce
  <2> SUFFICES ASSUME ReceiverInv, pauses = 0 PROVE ExactlyOnce
    BY DEF ExactlyOnce
  <2>1. flaws = {} /\ rcv.userTSN = LastTsn(got) /\ rcv.intsn = LastTsn(got) /\ rcv.intsn \in Tsns
    BY DEF ReceiverInv, OnceInv, RcvOK, RcvType
  <2>2. \A t \in Tsns : t % TsnRange = t
    BY Constants DEF Tsns
  <2> QED
    BY <2>1, <2>2 DEF ExactlyOnce, LastTsn
<1> QED
  BY <1>1, ReceiverInvariant, PTL

-----------------------------------------------------------------------------
(* Sizes, and the bytes of a queue.                                        *)

\* A padded chunk is not shorter than its data, and as long if that is of whole words.
LEMMA Sizes ==
  ASSUME NEW n \in C
  PROVE  /\ ChunkLen[n] \in Nat /\ Padded(n) \in Nat /\ PacketSize(n) \in Nat
         /\ ChunkLen[n] <= Padded(n) /\ Padded(n) <= 1232 /\ Padded(n) <= PacketSize(n)
         /\ ChunkLen[n] % 4 = 0 => Padded(n) = ChunkLen[n]
<1>1. ChunkLen[n] \in 1..1232
  BY SctpAssumption
<1> DEFINE x == ChunkLen[n]
           q == (x + 3) \div 4
<1>2. x \in 1..1232 /\ Padded(n) = q * 4
  BY <1>1 DEF Padded
<1> HIDE DEF x
<1>3. q \in Int /\ x + 3 = 4 * q + ((x + 3) % 4) /\ (x + 3) % 4 \in 0..3
  BY <1>2
<1>4. x % 4 = 0 => (x + 3) % 4 = 3
  BY <1>2
<1> HIDE DEF q
<1>5. q * 4 \in Nat /\ x <= q * 4 /\ q * 4 <= 1232
  BY <1>2, <1>3
<1>6. x % 4 = 0 => q * 4 = x
  BY <1>2, <1>3, <1>4
<1>7. PacketSize(n) = 28 + q * 4 /\ ChunkLen[n] = x
  BY <1>2 DEF PacketSize, x
<1> QED
  BY <1>2, <1>5, <1>6, <1>7

\* Bytes is the end of a running sum.
LEMMA BytesRuns ==
  ASSUME NEW s \in Seq(C)
  PROVE  \E f : /\ f[0] = 0
                /\ \A i \in 1..Len(s) : f[i] = f[i - 1] + Padded(s[i])
                /\ Bytes(s) = f[Len(s)]
<1> DEFINE D(f, n) == [i \in 0..n |-> IF i = 0 THEN 0 ELSE f[i - 1] + Padded(s[i])]
           S == {n \in Nat : \E f : f = D(f, n)}
<1>1. Len(s) \in Nat
  BY LenProperties
<1>2. 0 \in S
  <2>1. [i \in 0..0 |-> 0] = D([i \in 0..0 |-> 0], 0)
    OBVIOUS
  <2> QED
    BY <2>1
<1>3. ASSUME NEW n \in 1..Len(s), n - 1 \in S PROVE n \in S
  <2>1. PICK f : f = D(f, n - 1)
    BY <1>3
  <2> DEFINE g == [i \in 0..n |-> IF i < n THEN f[i] ELSE f[n - 1] + Padded(s[n])]
  <2>2. n \in Nat /\ n # 0
    BY <1>1
  <2>3. ASSUME NEW i \in 0..n
        PROVE  g[i] = IF i = 0 THEN 0 ELSE g[i - 1] + Padded(s[i])
    <3>1. CASE i = n
      BY <3>1, <2>2
    <3>2. CASE i < n
      <4>1. f[i] = IF i = 0 THEN 0 ELSE f[i - 1] + Padded(s[i])
        BY <2>1, <2>2, <3>2
      <4> QED
        BY <4>1, <2>2, <3>2
    <3> QED
      BY <2>2, <3>1, <3>2
  <2>4. g = D(g, n)
    BY <2>3
  <2> QED
    BY <2>2, <2>4
<1>4. Len(s) \in S
  <2> HIDE DEF S
  <2>1. \A i \in 0..Len(s) : i \in S
    BY <1>1, <1>2, <1>3, CountUp
  <2> QED
    BY <1>1, <2>1
<1>5. PICK e : e = D(e, Len(s))
  BY <1>4
<1> DEFINE h == CHOOSE f : f = D(f, Len(s))
<1>6. Bytes(s) = h[Len(s)]
  BY DEF Bytes
<1>7. h = D(h, Len(s))
  BY <1>5
<1> HIDE DEF h
<1>8. \A i \in 0..Len(s) : h[i] = IF i = 0 THEN 0 ELSE h[i - 1] + Padded(s[i])
  BY <1>7
<1>9. 0 \in 0..Len(s) /\ \A i \in 1..Len(s) : i \in 0..Len(s) /\ i # 0
  BY <1>1
<1> QED
  BY <1>6, <1>8, <1>9

\* The bytes of a queue, as the values of a function that adds them up.
LEMMA BytesSum ==
  ASSUME NEW s \in Seq(C)
  PROVE  \E f : /\ \A i \in 0..Len(s) : f[i] \in Nat
                /\ f[0] = 0 /\ \A i \in 1..Len(s) : f[i] = f[i - 1] + Padded(s[i])
                /\ Bytes(s) = f[Len(s)]
<1>1. PICK f : /\ f[0] = 0 /\ \A i \in 1..Len(s) : f[i] = f[i - 1] + Padded(s[i])
               /\ Bytes(s) = f[Len(s)]
  BY BytesRuns
<1> DEFINE S == {i \in 0..Len(s) : f[i] \in Nat}
<1>2. Len(s) \in Nat /\ \A i \in 1..Len(s) : s[i] \in C
  BY LenProperties
<1>3. \A i \in 1..Len(s) : Padded(s[i]) \in Nat
  BY <1>2, Sizes
<1>4. 0 \in S /\ \A i \in 1..Len(s) : i - 1 \in S => i \in S
  BY <1>1, <1>2, <1>3
<1>5. \A i \in 0..Len(s) : i \in S
  <2> HIDE DEF S
  <2> QED
    BY <1>2, <1>4, CountUp
<1> QED
  BY <1>1, <1>5

\* An empty queue has no bytes.
LEMMA BytesEmpty == Bytes(<<>>) = 0
<1>1. <<>> \in Seq(C) /\ Len(<<>>) = 0
  BY EmptySeq
<1> QED
  BY <1>1, BytesSum

\* A queue of one chunk.
LEMMA BytesOne == ASSUME NEW n \in C PROVE Bytes(<<n>>) = Padded(n)
<1>1. <<n>> \in Seq(C) /\ Len(<<n>>) = 1 /\ <<n>>[1] = n
  OBVIOUS
<1>2. PICK f : /\ \A i \in 0..1 : f[i] \in Nat
               /\ f[0] = 0 /\ \A i \in 1..1 : f[i] = f[i - 1] + Padded(<<n>>[i])
               /\ Bytes(<<n>>) = f[1]
  BY <1>1, BytesSum
<1>3. f[1] = f[0] + Padded(n)
  BY <1>1, <1>2
<1> QED
  BY <1>2, <1>3, Sizes

\* Bytes are a natural number.
LEMMA BytesType == ASSUME NEW s \in Seq(C) PROVE Bytes(s) \in Nat
<1>1. Len(s) \in 0..Len(s)
  BY LenProperties
<1> QED
  BY <1>1, BytesSum

\* The bytes of two queues one after the other.
LEMMA BytesConcat ==
  ASSUME NEW s \in Seq(C), NEW t \in Seq(C)
  PROVE  Bytes(s \o t) = Bytes(s) + Bytes(t)
<1> DEFINE u == s \o t
           a == Len(s)
           b == Len(t)
<1>1. a \in Nat /\ b \in Nat
  BY LenProperties
<1>2. /\ u \in Seq(C) /\ Len(u) = a + b
      /\ \A i \in 1..a : u[i] = s[i]
      /\ \A i \in 1..b : u[a + i] = t[i]
  <2>1. /\ u \in Seq(C) /\ Len(u) = a + b
        /\ \A i \in 1..(a + b) : u[i] = IF i <= a THEN s[i] ELSE t[i - a]
    BY ConcatProperties
  <2> HIDE DEF u, a, b
  <2>2. \A i \in 1..a : u[i] = s[i]
    BY <1>1, <2>1
  <2>3. ASSUME NEW i \in 1..b PROVE u[a + i] = t[i]
    <3>1. a + i \in 1..(a + b) /\ ~(a + i <= a) /\ (a + i) - a = i
      BY <1>1
    <3> QED
      BY <2>1, <3>1
  <2> QED
    BY <2>1, <2>2, <2>3
<1>3. PICK f : /\ \A i \in 0..(a + b) : f[i] \in Nat
               /\ f[0] = 0 /\ \A i \in 1..(a + b) : f[i] = f[i - 1] + Padded(u[i])
               /\ Bytes(u) = f[a + b]
  BY <1>2, BytesSum
<1>4. PICK g : /\ \A i \in 0..a : g[i] \in Nat
               /\ g[0] = 0 /\ \A i \in 1..a : g[i] = g[i - 1] + Padded(s[i])
               /\ Bytes(s) = g[a]
  BY BytesSum
<1>5. PICK h : /\ \A i \in 0..b : h[i] \in Nat
               /\ h[0] = 0 /\ \A i \in 1..b : h[i] = h[i - 1] + Padded(t[i])
               /\ Bytes(t) = h[b]
  BY BytesSum
<1> HIDE DEF u, a, b
<1>6. f[a] = g[a]
  <2> DEFINE S == {i \in 0..a : f[i] = g[i]}
  <2>1. ASSUME NEW i \in 1..a, i - 1 \in S PROVE i \in S
    <3>1. i \in 1..(a + b) /\ u[i] = s[i]
      <4>1. i \in 1..(a + b)
        BY <1>1
      <4> QED
        BY <1>2, <4>1
    <3>2. f[i] = f[i - 1] + Padded(u[i]) /\ g[i] = g[i - 1] + Padded(s[i])
      BY <1>3, <1>4, <3>1
    <3> QED
      BY <2>1, <3>1, <3>2
  <2>2. 0 \in S
    BY <1>1, <1>3, <1>4
  <2>3. \A i \in 0..a : i \in S
    <3> HIDE DEF S
    <3> QED
      BY <1>1, <2>1, <2>2, CountUp
  <2> QED
    BY <1>1, <2>3
<1>7. f[a + b] = f[a] + h[b]
  <2> DEFINE S == {i \in 0..b : f[a + i] = f[a] + h[i]}
  <2>1. ASSUME NEW i \in 1..b, i - 1 \in S PROVE i \in S
    <3>1. /\ a + i \in 1..(a + b) /\ u[a + i] = t[i] /\ (a + i) - 1 = a + (i - 1)
          /\ i - 1 \in 0..b /\ a + (i - 1) \in 0..(a + b) /\ a \in 0..(a + b)
      BY <1>1, <1>2
    <3>2. f[a + i] = f[a + (i - 1)] + Padded(t[i]) /\ h[i] = h[i - 1] + Padded(t[i])
      BY <1>3, <1>5, <3>1
    <3>3. Padded(t[i]) \in Nat
      <4>1. t[i] \in C
        BY LenProperties DEF b
      <4> QED
        BY <4>1, Sizes
    <3>4. f[a + (i - 1)] = f[a] + h[i - 1]
      BY <2>1
    <3>5. f[a] \in Nat /\ h[i - 1] \in Nat
      BY <1>3, <1>5, <3>1
    <3>6. f[a + i] = f[a] + h[i]
      BY <3>2, <3>3, <3>4, <3>5
    <3> QED
      BY <3>6
  <2>2. 0 \in S
    <3>1. a + 0 = a /\ a \in 0..(a + b) /\ 0 \in 0..b
      BY <1>1
    <3>2. f[a] \in Nat
      BY <1>3, <3>1
    <3> QED
      BY <1>5, <3>1, <3>2
  <2>3. \A i \in 0..b : i \in S
    <3> HIDE DEF S
    <3> QED
      BY <1>1, <2>1, <2>2, CountUp
  <2> QED
    BY <1>1, <2>3
<1> QED
  BY <1>3, <1>4, <1>5, <1>6, <1>7 DEF u

\* A queue is what its first k chunks and the others make up.
LEMMA BytesSplit ==
  ASSUME NEW s \in Seq(C), NEW k \in 0..Len(s)
  PROVE  /\ SubSeq(s, 1, k) \in Seq(C) /\ SubSeq(s, k + 1, Len(s)) \in Seq(C)
         /\ Bytes(s) = Bytes(SubSeq(s, 1, k)) + Bytes(SubSeq(s, k + 1, Len(s)))
<1>1. Len(s) \in Nat /\ \A i \in 1..Len(s) : s[i] \in C
  BY LenProperties
<1>2. SubSeq(s, 1, k) \in Seq(C) /\ SubSeq(s, k + 1, Len(s)) \in Seq(C)
  <2>1. k \in Int /\ k + 1 \in Int /\ \A i \in 1..k : s[i] \in C
    BY <1>1
  <2>2. \A i \in (k + 1)..Len(s) : s[i] \in C
    BY <1>1
  <2>3. SubSeq(s, 1, k) \in Seq(C)
    BY <2>1, SubSeqProperties
  <2>4. SubSeq(s, k + 1, Len(s)) \in Seq(C)
    BY <1>1, <2>1, <2>2, SubSeqProperties
  <2> QED
    BY <2>3, <2>4
<1>3. SubSeq(s, 1, k) \o SubSeq(s, k + 1, Len(s)) = s
  <2>1. 1 \in 1..(Len(s) + 1) /\ k \in (1 - 1)..Len(s) /\ Len(s) \in k..Len(s)
    BY <1>1
  <2>2. SubSeq(s, 1, k) \o SubSeq(s, k + 1, Len(s)) = SubSeq(s, 1, Len(s))
    BY <2>1, ConcatAdjacentSubSeq
  <2> QED
    BY <2>2, SubSeqFull
<1> QED
  BY <1>2, <1>3, BytesConcat

-----------------------------------------------------------------------------
(* The session of the sender while a handler runs.                         *)

SPacket == [n : C, gap : 0..255, at : Nat]

SType == [pending : Seq(SPacket), holding : Seq(C),
          receiverCredits : Nat, senderCredits : Nat, cwnd : Nat, ssthresh : Nat,
          partial : Int, exit : Tsns, t3 : BOOLEAN, since : BOOLEAN, out : SUBSET C,
          done : BOOLEAN, fast : BOOLEAN, last : Tsns, reset : BOOLEAN, blk : Nat]

\* The two queues hold the chunks as they were, and the window of the receiver is the same.
Same(w, v) ==
  /\ v \in SType /\ v.holding = w.holding /\ v.receiverCredits = w.receiverCredits
  /\ Len(v.pending) = Len(w.pending)
  /\ \A i \in 1..Len(w.pending) : v.pending[i].n = w.pending[i].n
  /\ w.cwnd >= MTU => v.cwnd >= MTU

\* Same is transitive.
LEMMA SameMore ==
  ASSUME NEW u, NEW v, NEW w, Same(u, v), Same(v, w)
  PROVE  Same(u, w)
BY DEF Same

\* The greatest place is a number.
LEMMA RankType ==
  ASSUME NEW q \in Seq(SPacket)
  PROVE  Rank(q) \in Nat
<1> DEFINE T == {0} \cup {q[i].at : i \in DOMAIN q}
           S == {m \in 0..Len(q) : \E x \in T : x \in Nat /\ \A i \in 1..m : q[i].at <= x}
<1>1. Len(q) \in Nat /\ DOMAIN q = 1..Len(q) /\ \A i \in 1..Len(q) : q[i].at \in Nat
  <2>1. \A i \in 1..Len(q) : q[i] \in SPacket
    BY LenProperties
  <2> QED
    BY <2>1, LenProperties DEF SPacket
<1>2. 0 \in S
  BY <1>1
<1>3. ASSUME NEW m \in 1..Len(q), m - 1 \in S PROVE m \in S
  <2>1. PICK x \in T : x \in Nat /\ \A i \in 1..(m - 1) : q[i].at <= x
    BY <1>3
  <2>2. q[m].at \in T /\ q[m].at \in Nat /\ m \in 0..Len(q)
    BY <1>1
  <2>3. \A i \in 1..m : i = m \/ i \in 1..(m - 1)
    BY <1>1
  <2> HIDE DEF T
  <2>4. CASE q[m].at <= x
    <3>1. \A i \in 1..m : q[i].at <= x
      BY <2>1, <2>3, <2>4
    <3> QED
      BY <2>1, <2>2, <3>1
  <2>5. CASE q[m].at > x
    <3>1. \A i \in 1..m : q[i].at <= q[m].at
      BY <1>1, <2>1, <2>2, <2>3, <2>5
    <3> QED
      BY <2>2, <3>1
  <2> QED
    BY <2>1, <2>2, <2>4, <2>5
<1>4. Len(q) \in S
  <2> HIDE DEF S
  <2>1. \A i \in 0..Len(q) : i \in S
    BY <1>1, <1>2, <1>3, CountUp
  <2> QED
    BY <1>1, <2>1
<1>5. PICK x \in T : x \in Nat /\ \A i \in 1..Len(q) : q[i].at <= x
  BY <1>4
<1>6. \E y \in T : \A z \in T : y >= z
  BY <1>1, <1>5
<1>7. Max(T) \in T
  <2> HIDE DEF T
  <2> QED
    BY <1>6 DEF Max
<1>8. T \subseteq Nat
  BY <1>1
<1> HIDE DEF T
<1>9. Rank(q) = Max(T) + 1
  BY DEF Rank, T
<1>10. Max(T) \in Nat
  BY <1>7, <1>8
<1> QED
  BY <1>9, <1>10

\* T3-RTX and what is handed to DTLS.
LEMMA StartT3Is ==
  ASSUME NEW w \in SType, NEW v, v = StartT3(w) \/ v = StartT3IfOff(w)
  PROVE  /\ Same(w, v) /\ v.pending = w.pending /\ v.senderCredits = w.senderCredits
         /\ v.cwnd = w.cwnd /\ v.t3
BY DEF StartT3, StartT3IfOff, SType, Same

\* Handing a packet to DTLS leaves queues and credits alone.
LEMMA SendIs ==
  ASSUME NEW w \in SType, NEW n \in C
  PROVE  LET v == SendSctpPacket(w, n)
         IN Same(w, v) /\ v.pending = w.pending /\ v.senderCredits = w.senderCredits
BY DEF SendSctpPacket, SType, Same

WithGap(w, i, g) == [w EXCEPT !.pending[i].gap = g]

\* Setting one gap counter.
LEMMA SetGap ==
  ASSUME NEW w \in SType, NEW i \in 1..Len(w.pending), NEW g \in 0..255
  PROVE  LET v == WithGap(w, i, g)
         IN /\ Same(w, v) /\ v.senderCredits = w.senderCredits
            /\ v.pending[i].gap = g
            /\ \A j \in 1..Len(w.pending) : j # i => v.pending[j] = w.pending[j]
<1> DEFINE p == [w.pending[i] EXCEPT !.gap = g]
           q == [w.pending EXCEPT ![i] = p]
           v == WithGap(w, i, g)
<1>1. w.pending \in Seq(SPacket) /\ w.pending[i] \in SPacket
  BY ElementOfSeq DEF SType
<1>2. p \in SPacket /\ p.n = w.pending[i].n /\ p.gap = g
  BY <1>1 DEF SPacket
<1> HIDE DEF p
<1>3. /\ q \in Seq(SPacket) /\ Len(q) = Len(w.pending)
      /\ \A j \in 1..Len(w.pending) : q[j] = IF j = i THEN p ELSE w.pending[j]
  BY <1>1, <1>2, ExceptSeq
<1>4. v = [w EXCEPT !.pending = q]
  BY DEF p, SType, WithGap
<1> HIDE DEF q
<1>5. /\ v \in SType /\ v.pending = q /\ v.holding = w.holding /\ v.cwnd = w.cwnd
      /\ v.receiverCredits = w.receiverCredits /\ v.senderCredits = w.senderCredits
  BY <1>3, <1>4 DEF SType
<1> HIDE DEF v
<1>6. Same(w, v)
  BY <1>2, <1>3, <1>5 DEF Same
<1> QED
  BY <1>2, <1>3, <1>5, <1>6 DEF v

\* Same is reflexive.
LEMMA SameRefl == ASSUME NEW w \in SType PROVE Same(w, w)
BY DEF Same

\* A packet is marked as acknowledged only if it was, or if its chunk is one of K.
Marks(w, v, K) ==
  \A i \in 1..Len(w.pending) :
    v.pending[i].gap = GapAcked => w.pending[i].gap = GapAcked \/ w.pending[i].n \in K

\* One packet of the loop of ILibStun_SctpResent.
LEMMA ResendOneIs ==
  ASSUME NEW w \in SType, NEW i \in 1..Len(w.pending), NEW cut
  PROVE  Same(w, ResendOne(w, i, cut)) /\ Marks(w, ResendOne(w, i, cut), {})
<1> DEFINE p == w.pending[i]
           v == ResendOne(w, i, cut)
<1>1. p \in SPacket /\ p.n \in C /\ p.gap \in 0..255
  <2>1. p \in SPacket
    BY ElementOfSeq DEF SType
  <2> QED
    BY <2>1 DEF SPacket
<1>2. PacketSize(p.n) \in Nat
  BY <1>1, Sizes
<1>3. CASE w.done \/ p.gap = GapAcked
  <2>1. v = w
    BY <1>3 DEF ResendOne
  <2> QED
    BY <2>1, SameRefl DEF Marks
<1>4. CASE ~(w.done \/ p.gap = GapAcked) /\ p.at > cut
  <2>1. v = [w EXCEPT !.done = TRUE]
    BY <1>4 DEF ResendOne
  <2>2. Same(w, v) /\ v.pending = w.pending
    BY <2>1 DEF Same, SType
  <2> QED
    BY <2>2 DEF Marks
<1>5. CASE ~(w.done \/ p.gap = GapAcked) /\ ~(p.at > cut) /\ w.senderCredits >= PacketSize(p.n)
  <2> DEFINE a == WithGap(w, i, 0)
             b == [a EXCEPT !.senderCredits = @ - PacketSize(p.n)]
             c == SendSctpPacket(b, p.n)
  <2>1. v = StartT3IfOff(c)
    <3>1. b = [w EXCEPT !.pending[i].gap = 0, !.senderCredits = @ - PacketSize(p.n)]
      BY DEF SType, WithGap
    <3> QED
      BY <1>5, <3>1 DEF ResendOne
  <2>2. /\ Same(w, a) /\ a.senderCredits = w.senderCredits /\ a.pending[i].gap = 0
        /\ \A j \in 1..Len(w.pending) : j # i => a.pending[j] = w.pending[j]
    <3>1. 0 \in 0..255
      OBVIOUS
    <3> QED
      BY <3>1, SetGap, Zenon
  <2> HIDE DEF a
  <2>3. a.senderCredits - PacketSize(p.n) \in Nat
    BY <1>2, <1>5, <2>2 DEF SType
  <2>4. Same(a, b) /\ b.pending = a.pending
    BY <2>2, <2>3 DEF Same, SType
  <2> HIDE DEF b
  <2>5. Same(b, c) /\ c.pending = b.pending
    BY <1>1, <2>4, SendIs DEF Same
  <2> HIDE DEF c
  <2>6. Same(c, v) /\ v.pending = c.pending
    BY <2>1, <2>5, StartT3Is DEF Same
  <2> HIDE DEF v
  <2>7. Same(w, v)
    BY <2>2, <2>4, <2>5, <2>6, SameMore
  <2>8. \A j \in 1..Len(w.pending) : v.pending[j].gap = GapAcked => w.pending[j].gap = GapAcked
    BY <2>2, <2>4, <2>5, <2>6 DEF GapAcked
  <2> QED
    BY <2>7, <2>8 DEF Marks, v
<1>6. CASE ~(w.done \/ p.gap = GapAcked) /\ ~(p.at > cut) /\ ~(w.senderCredits >= PacketSize(p.n))
  <2>1. v = WithGap(w, i, Resend)
    BY <1>6 DEF ResendOne, WithGap
  <2>2. Resend \in 0..255 /\ Resend # GapAcked
    BY DEF Resend, GapAcked
  <2>3. /\ Same(w, v) /\ v.pending[i].gap = Resend
        /\ \A j \in 1..Len(w.pending) : j # i => v.pending[j] = w.pending[j]
    <3> DEFINE a == WithGap(w, i, Resend)
    <3>1. /\ Same(w, a) /\ a.pending[i].gap = Resend
          /\ \A j \in 1..Len(w.pending) : j # i => a.pending[j] = w.pending[j]
      BY <2>2, SetGap, Zenon
    <3> QED
      BY <2>1, <3>1
  <2> QED
    BY <2>2, <2>3 DEF Marks
<1> QED
  BY <1>3, <1>4, <1>5, <1>6

\* The loop, packet by packet.
LEMMA ResendRuns ==
  ASSUME NEW w \in SType, NEW cut
  PROVE  \E f : /\ f[0] = w
                /\ \A i \in 1..Len(w.pending) : f[i] = ResendOne(f[i - 1], i, cut)
                /\ ResendAll(w, cut) = f[Len(w.pending)]
<1> DEFINE D(f, n) == [i \in 0..n |-> IF i = 0 THEN w ELSE ResendOne(f[i - 1], i, cut)]
           S == {n \in Nat : \E f : f = D(f, n)}
<1>1. Len(w.pending) \in Nat
  BY LenProperties DEF SType
<1>2. 0 \in S
  <2>1. [i \in 0..0 |-> w] = D([i \in 0..0 |-> w], 0)
    OBVIOUS
  <2> QED
    BY <2>1
<1>3. ASSUME NEW n \in 1..Len(w.pending), n - 1 \in S PROVE n \in S
  <2>1. PICK f : f = D(f, n - 1)
    BY <1>3
  <2> DEFINE g == [i \in 0..n |-> IF i < n THEN f[i] ELSE ResendOne(f[n - 1], n, cut)]
  <2>2. n \in Nat /\ n # 0
    BY <1>1
  <2>3. ASSUME NEW i \in 0..n
        PROVE  g[i] = IF i = 0 THEN w ELSE ResendOne(g[i - 1], i, cut)
    <3>1. CASE i = n
      BY <3>1, <2>2
    <3>2. CASE i < n
      <4>1. f[i] = IF i = 0 THEN w ELSE ResendOne(f[i - 1], i, cut)
        BY <2>1, <2>2, <3>2
      <4> QED
        BY <4>1, <2>2, <3>2
    <3> QED
      BY <2>2, <3>1, <3>2
  <2>4. g = D(g, n)
    BY <2>3
  <2> QED
    BY <2>2, <2>4
<1>4. Len(w.pending) \in S
  <2> HIDE DEF S
  <2>1. \A i \in 0..Len(w.pending) : i \in S
    BY <1>1, <1>2, <1>3, CountUp
  <2> QED
    BY <1>1, <2>1
<1>5. PICK e : e = D(e, Len(w.pending))
  BY <1>4
<1> DEFINE h == CHOOSE f : f = D(f, Len(w.pending))
<1>6. ResendAll(w, cut) = h[Len(w.pending)]
  BY DEF ResendAll
<1>7. h = D(h, Len(w.pending))
  BY <1>5
<1> HIDE DEF h
<1>8. \A i \in 0..Len(w.pending) : h[i] = IF i = 0 THEN w ELSE ResendOne(h[i - 1], i, cut)
  BY <1>7
<1>9. 0 \in 0..Len(w.pending) /\ \A i \in 1..Len(w.pending) : i \in 0..Len(w.pending) /\ i # 0
  BY <1>1
<1> QED
  BY <1>6, <1>8, <1>9

\* The loop of the timer leaves the chunks where they are and marks none as acknowledged.
LEMMA ResendAllIs ==
  ASSUME NEW w \in SType, NEW cut
  PROVE  Same(w, ResendAll(w, cut)) /\ Marks(w, ResendAll(w, cut), {})
<1>1. PICK f : /\ f[0] = w
               /\ \A i \in 1..Len(w.pending) : f[i] = ResendOne(f[i - 1], i, cut)
               /\ ResendAll(w, cut) = f[Len(w.pending)]
  BY ResendRuns
<1> DEFINE S == {i \in 0..Len(w.pending) : Same(w, f[i]) /\ Marks(w, f[i], {})}
<1>2. Len(w.pending) \in Nat
  BY LenProperties DEF SType
<1>3. 0 \in S
  BY <1>1, <1>2, SameRefl DEF Marks
<1>4. ASSUME NEW i \in 1..Len(w.pending), i - 1 \in S PROVE i \in S
  <2> DEFINE u == f[i - 1]
  <2>1. Same(w, u) /\ Marks(w, u, {}) /\ f[i] = ResendOne(u, i, cut)
    BY <1>1, <1>4
  <2>2. u \in SType /\ i \in 1..Len(u.pending)
    BY <2>1 DEF Same
  <2>3. Same(u, f[i]) /\ Marks(u, f[i], {})
    BY <2>1, <2>2, ResendOneIs
  <2> HIDE DEF u
  <2>4. Same(w, f[i])
    BY <2>1, <2>3, SameMore
  <2>5. Marks(w, f[i], {})
    BY <2>1, <2>3 DEF Marks, Same
  <2> QED
    BY <2>4, <2>5
<1>5. \A i \in 0..Len(w.pending) : i \in S
  <2> HIDE DEF S
  <2> QED
    BY <1>2, <1>3, <1>4, CountUp
<1> QED
  BY <1>1, <1>2, <1>5

\* The chunks are as they were, and no packet is newly marked as acknowledged.
Quiet(w, v) == Same(w, v) /\ Marks(w, v, {})

\* Quiet is transitive.
LEMMA QuietMore ==
  ASSUME NEW u, NEW v, NEW w, Quiet(u, v), Quiet(v, w)
  PROVE  Quiet(u, w)
<1>1. Same(u, w)
  BY SameMore DEF Quiet
<1> QED
  BY <1>1 DEF Quiet, Marks, Same

\* A change of other fields is quiet.
LEMMA QuietSame ==
  ASSUME NEW w, NEW v, Same(w, v), v.pending = w.pending
  PROVE  Quiet(w, v)
BY DEF Quiet, Marks

WithAt(w, i, a) == [w EXCEPT !.pending[i].at = a]

\* Setting one place.
LEMMA SetAt ==
  ASSUME NEW w \in SType, NEW i \in 1..Len(w.pending), NEW a \in Nat
  PROVE  LET v == WithAt(w, i, a)
         IN Quiet(w, v) /\ v.senderCredits = w.senderCredits
<1> DEFINE p == [w.pending[i] EXCEPT !.at = a]
           q == [w.pending EXCEPT ![i] = p]
           v == WithAt(w, i, a)
<1>1. w.pending \in Seq(SPacket) /\ w.pending[i] \in SPacket
  BY ElementOfSeq DEF SType
<1>2. p \in SPacket /\ p.n = w.pending[i].n /\ p.gap = w.pending[i].gap
  BY <1>1 DEF SPacket
<1> HIDE DEF p
<1>3. /\ q \in Seq(SPacket) /\ Len(q) = Len(w.pending)
      /\ \A j \in 1..Len(w.pending) : q[j] = IF j = i THEN p ELSE w.pending[j]
  BY <1>1, <1>2, ExceptSeq
<1>4. v = [w EXCEPT !.pending = q]
  BY DEF p, SType, WithAt
<1> HIDE DEF q
<1>5. /\ v \in SType /\ v.pending = q /\ v.holding = w.holding /\ v.cwnd = w.cwnd
      /\ v.receiverCredits = w.receiverCredits /\ v.senderCredits = w.senderCredits
  BY <1>3, <1>4 DEF SType
<1> HIDE DEF v
<1>6. Same(w, v)
  BY <1>2, <1>3, <1>5 DEF Same
<1>7. Marks(w, v, {})
  BY <1>2, <1>3, <1>5 DEF Marks
<1> QED
  BY <1>5, <1>6, <1>7 DEF v, Quiet

\* The halved window is at least four packets.
LEMMA ShrunkIs ==
  ASSUME NEW w \in SType
  PROVE  Shrunk(w) \in Nat /\ Shrunk(w) >= MTU
<1>1. w.cwnd \in Nat /\ MTU \in Nat
  BY Constants DEF SType
<1>2. w.cwnd \div 2 \in Nat
  BY <1>1
<1>3. 4 * MTU \in Nat /\ 4 * MTU >= MTU
  BY <1>1
<1> QED
  BY <1>1, <1>2, <1>3 DEF Shrunk, Greater

\* Entering fast recovery leaves the queues alone.
LEMMA EnterIs ==
  ASSUME NEW w \in SType
  PROVE  Quiet(w, EnterFastRecovery(w)) /\ EnterFastRecovery(w).pending = w.pending
<1> DEFINE v == EnterFastRecovery(w)
<1>1. CASE w.reset \/ w.exit # 0
  <2>1. v = w
    BY <1>1 DEF EnterFastRecovery
  <2> QED
    BY <2>1, SameRefl, QuietSame
<1>2. CASE ~(w.reset \/ w.exit # 0)
  <2>1. PICK h \in Nat : h = Shrunk(w) /\ h >= MTU
    BY ShrunkIs
  <2>2. PICK l \in Nat : l = Lesser(w.senderCredits, h)
    BY <2>1 DEF Lesser, SType
  <2>3. v = [w EXCEPT !.ssthresh = h, !.cwnd = h, !.senderCredits = l, !.partial = 0,
                      !.reset = TRUE]
    BY <1>2, <2>1, <2>2 DEF EnterFastRecovery
  <2> HIDE DEF v
  <2>4. Same(w, v) /\ v.pending = w.pending
    <3>1. v \in SType
      <4>0. PICK z \in Int : z = 0
        OBVIOUS
      <4> DEFINE a == [w EXCEPT !.ssthresh = h, !.cwnd = h, !.senderCredits = l]
                 b == [a EXCEPT !.partial = z]
      <4>1. a \in SType
        BY DEF SType
      <4> HIDE DEF a
      <4>2. b \in SType
        BY <4>1 DEF SType
      <4> HIDE DEF b
      <4>3. v = [b EXCEPT !.reset = TRUE]
        BY <2>3, <4>0 DEF a, b, SType
      <4> QED
        BY <4>2, <4>3 DEF SType
    <3>2. /\ v.pending = w.pending /\ v.holding = w.holding /\ v.cwnd = h
          /\ v.receiverCredits = w.receiverCredits
      BY <2>3 DEF SType
    <3> QED
      BY <2>1, <3>1, <3>2 DEF Same
  <2> QED
    BY <2>4, QuietSame DEF v
<1> QED
  BY <1>1, <1>2

\* A fast retransmission is quiet.
LEMMA FastRetransmitIs ==
  ASSUME NEW w \in SType, NEW i \in 1..Len(w.pending), NEW now \in Nat
  PROVE  Quiet(w, FastRetransmit(w, i, now))
<1> DEFINE n == w.pending[i].n
           x == EnterFastRecovery(w)
           y == WithGap(x, i, Resend)
           e == [EnterFastRecovery(w) EXCEPT !.pending[i].gap = Resend, !.last = Tsn(n)]
           d == SendSctpPacket(e, n)
           sent == [SendSctpPacket(e, n) EXCEPT !.pending[i].at = now]
           v == FastRetransmit(w, i, now)
<1>1. n \in C
  <2>1. w.pending[i] \in SPacket
    BY ElementOfSeq DEF SType
  <2> QED
    BY <2>1 DEF SPacket
<1>2. Quiet(w, x) /\ x \in SType /\ x.pending = w.pending
  BY EnterIs DEF Quiet, Same
<1>e. e = [y EXCEPT !.last = Tsn(n)]
  <2> HIDE DEF n
  <2> QED
    BY <1>2 DEF WithGap, SType
<1>v. v = IF ~w.fast
          THEN [(IF i = 1 THEN StartT3(sent) ELSE StartT3IfOff(sent)) EXCEPT !.fast = TRUE]
          ELSE IF e.senderCredits >= PacketSize(n)
          THEN StartT3IfOff([sent EXCEPT !.senderCredits = @ - Padded(n)])
          ELSE e
  BY DEF FastRetransmit
<1>p. Padded(n) \in Nat /\ PacketSize(n) \in Nat /\ Padded(n) <= PacketSize(n)
  BY <1>1, Sizes
<1>t. Tsn(n) \in Tsns
  BY <1>1, TsnType
<1>s. sent = WithAt(d, i, now)
  BY DEF WithAt
<1> HIDE DEF n, x, v, e, sent
<1>3. Quiet(x, y)
  <2>1. Resend \in 0..255 /\ Resend # GapAcked /\ i \in 1..Len(x.pending)
    BY <1>2 DEF Resend, GapAcked
  <2>2. /\ Same(x, y) /\ y.pending[i].gap = Resend
        /\ \A j \in 1..Len(x.pending) : j # i => y.pending[j] = x.pending[j]
    BY <1>2, <2>1, SetGap, Zenon
  <2> QED
    BY <2>1, <2>2 DEF Quiet, Marks
<1> HIDE DEF y
<1>4. Quiet(y, e) /\ e.pending = y.pending
  <2>1. Same(y, e) /\ e.pending = y.pending
    BY <1>e, <1>t, <1>3 DEF Quiet, Same, SType
  <2> QED
    BY <2>1, QuietSame
<1>5. Quiet(w, e)
  BY <1>2, <1>3, <1>4, QuietMore
<1>6. Quiet(e, d) /\ d.senderCredits = e.senderCredits /\ d \in SType
  <2>1. Same(e, d) /\ d.pending = e.pending /\ d.senderCredits = e.senderCredits
    BY <1>1, <1>5, SendIs DEF Quiet, Same
  <2> QED
    BY <2>1, QuietSame DEF Same
<1> HIDE DEF d
<1>7. Quiet(d, sent) /\ sent.senderCredits = d.senderCredits
  <2>1. i \in 1..Len(d.pending) /\ d \in SType
    BY <1>5, <1>6 DEF Quiet, Same
  <2>2. Quiet(d, WithAt(d, i, now)) /\ WithAt(d, i, now).senderCredits = d.senderCredits
    BY <2>1, SetAt, Zenon
  <2> QED
    BY <1>s, <2>2
<1>8. Quiet(w, sent) /\ sent.senderCredits = e.senderCredits /\ sent \in SType
  <2>1. Quiet(w, sent)
    BY <1>5, <1>6, <1>7, QuietMore
  <2> QED
    BY <2>1, <1>6, <1>7 DEF Quiet, Same
<1>9. CASE ~w.fast
  <2> DEFINE s == IF i = 1 THEN StartT3(sent) ELSE StartT3IfOff(sent)
  <2>1. Same(sent, s) /\ s.pending = sent.pending
    BY <1>8, StartT3Is
  <2>2. v = [s EXCEPT !.fast = TRUE]
    BY <1>9, <1>v
  <2> HIDE DEF s
  <2>3. Same(s, v) /\ v.pending = s.pending
    BY <2>1, <2>2 DEF Same, SType
  <2> QED
    BY <1>8, <2>1, <2>3, QuietSame, QuietMore DEF v
<1>10. CASE w.fast /\ e.senderCredits >= PacketSize(n)
  <2> DEFINE s == [sent EXCEPT !.senderCredits = @ - Padded(n)]
  <2>1. sent.senderCredits - Padded(n) \in Nat
    <3>1. sent.senderCredits \in Nat
      BY <1>8 DEF SType
    <3> QED
      BY <1>p, <1>8, <1>10, <3>1
  <2>2. Same(sent, s) /\ s.pending = sent.pending
    BY <1>8, <2>1 DEF Same, SType
  <2>3. v = StartT3IfOff(s)
    BY <1>10, <1>v
  <2> HIDE DEF s
  <2>4. Same(s, v) /\ v.pending = s.pending
    BY <2>2, <2>3, StartT3Is DEF Same
  <2> QED
    BY <1>8, <2>2, <2>4, QuietSame, QuietMore DEF v
<1>11. CASE w.fast /\ ~(e.senderCredits >= PacketSize(n))
  <2>1. v = e
    BY <1>11, <1>v
  <2> QED
    BY <1>5, <2>1 DEF v
<1> QED
  BY <1>9, <1>10, <1>11 DEF SType

\* So is the retransmission of a marked packet.
LEMMA ResendMarkedIs ==
  ASSUME NEW w \in SType, NEW i \in 1..Len(w.pending), NEW now \in Nat,
         w.senderCredits >= PacketSize(w.pending[i].n)
  PROVE  Quiet(w, ResendMarked(w, i, now))
<1> DEFINE n == w.pending[i].n
           d == SendSctpPacket(w, n)
           a == WithAt(d, i, now)
           v == ResendMarked(w, i, now)
<1>1. n \in C
  <2>1. w.pending[i] \in SPacket
    BY ElementOfSeq DEF SType
  <2> QED
    BY <2>1 DEF SPacket
<1>2. PacketSize(n) \in Nat /\ w.senderCredits >= PacketSize(n)
  BY <1>1, Sizes
<1>3. Same(w, d) /\ d.pending = w.pending /\ d.senderCredits = w.senderCredits /\ d \in SType
  BY <1>1, SendIs DEF Same
<1>4. v = [a EXCEPT !.senderCredits = @ - PacketSize(n)]
  <2>1. v = [d EXCEPT !.pending[i].at = now, !.senderCredits = @ - PacketSize(n)]
    BY DEF ResendMarked
  <2> HIDE DEF d, n, v
  <2> QED
    BY <1>3, <2>1 DEF WithAt, SType
<1> HIDE DEF n, d, v
<1>5. Quiet(d, a) /\ a.senderCredits = d.senderCredits
  <2>1. i \in 1..Len(d.pending) /\ d \in SType
    BY <1>3
  <2> QED
    BY <2>1, SetAt, Zenon
<1> HIDE DEF a
<1>6. a.senderCredits - PacketSize(n) \in Nat /\ a \in SType
  <2>1. a \in SType /\ w.senderCredits \in Nat
    BY <1>5 DEF SType, Quiet, Same
  <2> QED
    BY <1>2, <1>3, <1>5, <2>1
<1>7. Same(a, v) /\ v.pending = a.pending
  BY <1>4, <1>6 DEF Same, SType
<1>8. Quiet(w, v)
  BY <1>3, <1>5, <1>7, QuietSame, QuietMore
<1> QED
  BY <1>8 DEF v

Sack == [cum : Tsns, blocks : SUBSET [start : Tsns, end : Tsns]]

\* The chunks that the sender takes to be in a gap block of the SACK.
InBlocks(k) ==
  {n \in C : \E b \in k.blocks : Wire(k.cum, b.start) <= Tsn(n) /\ Tsn(n) <= Wire(k.cum, b.end)}

\* What is read from an offset is a TSN.
LEMMA WireType ==
  ASSUME NEW c \in Tsns, NEW t \in Tsns
  PROVE  Wire(c, t) \in Tsns
<1>1. TsnRange \in Nat \ {0} /\ c \in Int /\ t \in Int
  BY Constants DEF Tsns
<1>2. (t - c) % 65536 \in Nat
  BY <1>1
<1>3. PICK x \in Int : x = c + ((t - c) % 65536)
  BY <1>1, <1>2
<1>4. x % TsnRange \in Tsns
  BY <1>1, <1>3 DEF Tsns
<1> QED
  BY <1>3, <1>4 DEF Wire

\* A counter stays one, and does not reach the mark by being counted as missing.
LEMMA CountedIs ==
  ASSUME NEW g \in 0..255, NEW m \in BOOLEAN
  PROVE  Counted(g, m) \in 0..255 /\ (m => Counted(g, m) # GapAcked)
<1>1. CASE m
  BY <1>1 DEF Counted, Lesser, GapAcked
<1>2. CASE ~m
  BY <1>2 DEF Counted, GapAcked
<1> QED
  BY <1>1, <1>2

\* One packet of the loop over the gap blocks.
LEMMA GapOneIs ==
  ASSUME NEW w \in SType, NEW i \in 1..Len(w.pending), NEW k \in Sack, NEW now \in Nat
  PROVE  Same(w, GapOne(w, i, k, now)) /\ Marks(w, GapOne(w, i, k, now), InBlocks(k))
<1> DEFINE p    == w.pending[i]
           t    == Tsn(p.n)
           left == {b \in k.blocks : w.blk <= b.start /\ t <= Wire(k.cum, b.end)}
           v    == GapOne(w, i, k, now)
<1>1. p \in SPacket /\ p.n \in C /\ p.gap \in 0..255
  <2>1. p \in SPacket
    BY ElementOfSeq DEF SType
  <2> QED
    BY <2>1 DEF SPacket
<1>2. t \in Int /\ Padded(p.n) \in Nat /\ PacketSize(p.n) \in Nat
  BY <1>1, Sizes, TsnType DEF Tsns
<1>3. CASE left = {}
  <2>1. v = [w EXCEPT !.blk = TsnRange]
    BY <1>3 DEF GapOne
  <2>2. Same(w, v) /\ v.pending = w.pending
    <3>1. PICK z \in Nat : z = TsnRange
      BY Constants
    <3>2. v = [w EXCEPT !.blk = z]
      BY <2>1, <3>1
    <3> HIDE DEF v
    <3> QED
      BY <3>2 DEF Same, SType
  <2> QED
    BY <2>2 DEF Marks
<1>4. CASE left # {}
  <2> DEFINE b       == CHOOSE b \in left : \A d \in left : b.start <= d.start
             missing == t < Wire(k.cum, b.start)
             frt     == Counted(p.gap, missing)
             gain    == IF ~missing /\ p.gap < 253 THEN Padded(p.n) ELSE 0
             c       == [w EXCEPT !.blk = b.start, !.pending[i].gap = frt,
                                  !.senderCredits = @ + gain,
                                  !.partial = @ + gain]
  <2>1. v = IF frt >= FastRetry /\ frt < 253 THEN FastRetransmit(c, i, now)
            ELSE IF frt = Resend /\ c.senderCredits >= PacketSize(p.n)
            THEN ResendMarked(c, i, now)
            ELSE c
    BY <1>4 DEF GapOne
  <2>2. b \in left /\ b \in k.blocks /\ b.start \in Tsns /\ b.end \in Tsns /\ k.cum \in Tsns
    <3> DEFINE T == {d.start : d \in left}
    <3>1. \A d \in left : d.start \in Nat
      BY DEF Sack, Tsns
    <3>2. T \in SUBSET Nat /\ T # {}
      BY <1>4, <3>1
    <3>3. PICK x \in T : \A y \in T : x <= y
      BY <3>2, Least
    <3>4. \E d \in left : \A f \in left : d.start <= f.start
      BY <3>3
    <3>5. b \in left
      <4> HIDE DEF left
      <4> QED
        BY <3>4
    <3> HIDE DEF b
    <3> QED
      BY <3>5 DEF Sack
  <2> HIDE DEF b, v
  <2>3. missing \in BOOLEAN /\ gain \in Nat /\ b.start \in Nat
    BY <1>2, <2>2 DEF Tsns
  <2>4. ~missing => p.n \in InBlocks(k)
    <3>1. Wire(k.cum, b.start) \in Int /\ Wire(k.cum, b.end) \in Int
      <4>1. Wire(k.cum, b.start) \in Tsns /\ Wire(k.cum, b.end) \in Tsns
        BY <2>2, WireType
      <4> QED
        BY <4>1 DEF Tsns
    <3>2. t <= Wire(k.cum, b.end)
      BY <2>2
    <3> HIDE DEF left
    <3> QED
      BY <1>1, <1>2, <2>2, <3>1, <3>2 DEF InBlocks
  <2> HIDE DEF missing
  <2>5. frt \in 0..255 /\ (frt = GapAcked => p.n \in InBlocks(k))
    BY <1>1, <2>3, <2>4, CountedIs
  <2> DEFINE a == WithGap(w, i, frt)
  <2>6. c = [a EXCEPT !.blk = b.start, !.senderCredits = @ + gain, !.partial = @ + gain]
    <3> HIDE DEF frt, gain
    <3> QED
      BY DEF WithGap, SType
  <2> HIDE DEF gain, c, frt
  <2>7. /\ Same(w, a) /\ a.pending[i].gap = frt
        /\ \A j \in 1..Len(w.pending) : j # i => a.pending[j] = w.pending[j]
    BY <2>5, SetGap, Zenon
  <2> HIDE DEF a
  <2>8. Same(a, c) /\ c.pending = a.pending
    <3>1. a \in SType /\ a.senderCredits \in Nat /\ a.partial \in Int
      BY <2>7 DEF Same, SType
    <3>2. PICK x \in Nat, y \in Int : x = a.senderCredits + gain /\ y = a.partial + gain
      BY <2>3, <3>1
    <3>3. c = [a EXCEPT !.blk = b.start, !.senderCredits = x, !.partial = y]
      BY <2>6, <3>2
    <3> QED
      BY <2>3, <3>1, <3>3 DEF Same, SType
  <2>9. Same(w, c) /\ Marks(w, c, InBlocks(k))
    <3>1. Same(w, c)
      BY <2>7, <2>8, SameMore
    <3> QED
      BY <2>5, <2>7, <2>8, <3>1 DEF Marks
  <2>10. Quiet(c, v)
    <3>1. /\ c \in SType /\ i \in 1..Len(c.pending) /\ c.pending[i].n = p.n
      BY <2>9 DEF Same
    <3> HIDE DEF p
    <3>2. CASE frt >= FastRetry /\ frt < 253
      <4>1. v = FastRetransmit(c, i, now)
        BY <2>1, <3>2
      <4>2. Quiet(c, FastRetransmit(c, i, now))
        BY <3>1, FastRetransmitIs, Zenon
      <4> QED
        BY <4>1, <4>2
    <3>3. CASE ~(frt >= FastRetry /\ frt < 253) /\ frt = Resend
               /\ c.senderCredits >= PacketSize(p.n)
      <4>1. v = ResendMarked(c, i, now)
        BY <2>1, <3>3
      <4>2. c.senderCredits >= PacketSize(c.pending[i].n)
        BY <3>1, <3>3
      <4>3. Quiet(c, ResendMarked(c, i, now))
        BY <3>1, <4>2, ResendMarkedIs, Zenon
      <4> QED
        BY <4>1, <4>3
    <3>4. CASE ~(frt >= FastRetry /\ frt < 253)
               /\ ~(frt = Resend /\ c.senderCredits >= PacketSize(p.n))
      <4>1. v = c
        BY <2>1, <3>4
      <4> QED
        BY <3>1, <4>1, SameRefl, QuietSame
    <3> QED
      BY <3>2, <3>3, <3>4
  <2>11. Same(w, v)
    BY <2>9, <2>10, SameMore DEF Quiet
  <2>12. Marks(w, v, InBlocks(k))
    BY <2>9, <2>10 DEF Quiet, Marks, Same
  <2> QED
    BY <2>11, <2>12 DEF v
<1> QED
  BY <1>3, <1>4

\* The loop, packet by packet.
LEMMA GapRuns ==
  ASSUME NEW w \in SType, NEW k
  PROVE  \E f : /\ f[0] = w
                /\ \A i \in 1..Len(w.pending) : f[i] = GapOne(f[i - 1], i, k, Rank(w.pending))
                /\ GapAll(w, k) = f[Len(w.pending)]
<1> DEFINE D(f, n) == [i \in 0..n |-> IF i = 0 THEN w ELSE GapOne(f[i - 1], i, k, Rank(w.pending))]
           S == {n \in Nat : \E f : f = D(f, n)}
<1>1. Len(w.pending) \in Nat
  BY LenProperties DEF SType
<1>2. 0 \in S
  <2>1. [i \in 0..0 |-> w] = D([i \in 0..0 |-> w], 0)
    OBVIOUS
  <2> QED
    BY <2>1
<1>3. ASSUME NEW n \in 1..Len(w.pending), n - 1 \in S PROVE n \in S
  <2>1. PICK f : f = D(f, n - 1)
    BY <1>3
  <2> DEFINE g == [i \in 0..n |-> IF i < n THEN f[i] ELSE GapOne(f[n - 1], n, k, Rank(w.pending))]
  <2>2. n \in Nat /\ n # 0
    BY <1>1
  <2>3. ASSUME NEW i \in 0..n
        PROVE  g[i] = IF i = 0 THEN w ELSE GapOne(g[i - 1], i, k, Rank(w.pending))
    <3>1. CASE i = n
      BY <3>1, <2>2
    <3>2. CASE i < n
      <4>1. f[i] = IF i = 0 THEN w ELSE GapOne(f[i - 1], i, k, Rank(w.pending))
        BY <2>1, <2>2, <3>2
      <4> QED
        BY <4>1, <2>2, <3>2
    <3> QED
      BY <2>2, <3>1, <3>2
  <2>4. g = D(g, n)
    BY <2>3
  <2> QED
    BY <2>2, <2>4
<1>4. Len(w.pending) \in S
  <2> HIDE DEF S
  <2>1. \A i \in 0..Len(w.pending) : i \in S
    BY <1>1, <1>2, <1>3, CountUp
  <2> QED
    BY <1>1, <2>1
<1>5. PICK e : e = D(e, Len(w.pending))
  BY <1>4
<1> DEFINE h == CHOOSE f : f = D(f, Len(w.pending))
<1>6. GapAll(w, k) = h[Len(w.pending)]
  BY DEF GapAll
<1>7. h = D(h, Len(w.pending))
  BY <1>5
<1> HIDE DEF h
<1>8. \A i \in 0..Len(w.pending) :
        h[i] = IF i = 0 THEN w ELSE GapOne(h[i - 1], i, k, Rank(w.pending))
  BY <1>7
<1>9. 0 \in 0..Len(w.pending) /\ \A i \in 1..Len(w.pending) : i \in 0..Len(w.pending) /\ i # 0
  BY <1>1
<1> QED
  BY <1>6, <1>8, <1>9

\* The loop over the gap blocks marks only chunks of the blocks.
LEMMA GapAllIs ==
  ASSUME NEW w \in SType, NEW k \in Sack
  PROVE  Same(w, GapAll(w, k)) /\ Marks(w, GapAll(w, k), InBlocks(k))
<1> DEFINE now == Rank(w.pending)
           K   == InBlocks(k)
<1>1. PICK f : /\ f[0] = w
               /\ \A i \in 1..Len(w.pending) : f[i] = GapOne(f[i - 1], i, k, now)
               /\ GapAll(w, k) = f[Len(w.pending)]
  BY GapRuns
<1> DEFINE S == {i \in 0..Len(w.pending) : Same(w, f[i]) /\ Marks(w, f[i], K)}
<1>2. Len(w.pending) \in Nat /\ now \in Nat
  BY LenProperties, RankType DEF SType
<1> HIDE DEF now, K
<1>3. 0 \in S
  BY <1>1, <1>2, SameRefl DEF Marks
<1>4. ASSUME NEW i \in 1..Len(w.pending), i - 1 \in S PROVE i \in S
  <2> DEFINE u == f[i - 1]
  <2>1. Same(w, u) /\ Marks(w, u, K) /\ f[i] = GapOne(u, i, k, now)
    BY <1>1, <1>4
  <2>2. u \in SType /\ i \in 1..Len(u.pending)
    BY <2>1 DEF Same
  <2> HIDE DEF u
  <2>3. Same(u, f[i]) /\ Marks(u, f[i], K)
    <3>1. Same(u, GapOne(u, i, k, now)) /\ Marks(u, GapOne(u, i, k, now), InBlocks(k))
      BY <1>2, <2>2, GapOneIs, Zenon
    <3> QED
      BY <2>1, <3>1 DEF K
  <2>4. Same(w, f[i])
    BY <2>1, <2>3, SameMore
  <2>5. Marks(w, f[i], K)
    BY <2>1, <2>3 DEF Marks, Same
  <2> QED
    BY <2>4, <2>5
<1>5. \A i \in 0..Len(w.pending) : i \in S
  <2> HIDE DEF S
  <2> QED
    BY <1>2, <1>3, <1>4, CountUp
<1> QED
  BY <1>1, <1>2, <1>5 DEF K

\* So does all of the handling of gaps.
LEMMA GapsIs ==
  ASSUME NEW w \in SType, NEW k \in Sack
  PROVE  /\ Same(w, Gaps(w, k)) /\ Marks(w, Gaps(w, k), InBlocks(k))
         /\ w.pending = <<>> => Gaps(w, k).senderCredits = w.senderCredits
<1> DEFINE u == GapAll(w, k)
           v == Gaps(w, k)
<1>1. Same(w, u) /\ Marks(w, u, InBlocks(k))
  BY GapAllIs
<1>2. w.pending = <<>> => u = w
  <2>1. Len(<<>>) = 0
    OBVIOUS
  <2> QED
    BY <2>1, GapRuns
<1>3. PICK x \in Tsns : x = IF u.last # 0 /\ u.exit = 0 THEN u.last ELSE u.exit
  BY <1>1 DEF Same, SType
<1>4. v = [u EXCEPT !.exit = x]
  BY <1>3 DEF Gaps
<1> HIDE DEF u, v
<1>5. Same(u, v) /\ v.pending = u.pending /\ v.senderCredits = u.senderCredits
  BY <1>1, <1>4 DEF Same, SType
<1>6. Same(w, v) /\ Marks(w, v, InBlocks(k))
  <2>1. Same(w, v)
    BY <1>1, <1>5, SameMore
  <2> QED
    BY <1>1, <1>5, <2>1 DEF Marks
<1> QED
  BY <1>2, <1>5, <1>6 DEF v

\* The chunks of a queue of packets.
LEMMA ChunksOfIs ==
  ASSUME NEW q \in Seq(SPacket)
  PROVE  /\ ChunksOf(q) \in Seq(C) /\ Len(ChunksOf(q)) = Len(q)
         /\ \A i \in 1..Len(q) : ChunksOf(q)[i] = q[i].n
<1>1. Len(q) \in Nat /\ DOMAIN q = 1..Len(q) /\ \A i \in 1..Len(q) : q[i] \in SPacket
  BY LenProperties
<1>2. \A i \in 1..Len(q) : q[i].n \in C
  BY <1>1 DEF SPacket
<1>3. ChunksOf(q) = [i \in 1..Len(q) |-> q[i].n]
  BY <1>1 DEF ChunksOf
<1>4. ChunksOf(q) \in Seq(C)
  BY <1>1, <1>2, <1>3, IsASeq
<1> QED
  BY <1>1, <1>3, <1>4

\* Two queues of packets with the same chunks.
LEMMA SameChunks ==
  ASSUME NEW p \in Seq(SPacket), NEW q \in Seq(SPacket), Len(p) = Len(q),
         \A i \in 1..Len(q) : p[i].n = q[i].n
  PROVE  ChunksOf(p) = ChunksOf(q)
<1>1. Len(q) \in Nat /\ DOMAIN q = 1..Len(q) /\ DOMAIN p = 1..Len(q)
  BY LenProperties
<1> QED
  BY <1>1 DEF ChunksOf

\* What a SACK acknowledges: the packets up to the first one above its cumulative TSN.
LEMMA AckedCountIs ==
  ASSUME NEW q \in Seq(SPacket), NEW c \in Tsns
  PROVE  LET k == AckedCount(q, c)
         IN /\ k \in 0..Len(q) /\ \A i \in 1..k : Tsn(q[i].n) <= c
            /\ k < Len(q) => Tsn(q[k + 1].n) > c
<1> DEFINE above == {i \in DOMAIN q : Tsn(q[i].n) > c}
           k     == AckedCount(q, c)
<1>1. Len(q) \in Nat /\ DOMAIN q = 1..Len(q)
  BY LenProperties
<1>2. \A i \in 1..Len(q) : Tsn(q[i].n) \in Int
  <2>1. \A i \in 1..Len(q) : q[i] \in SPacket
    BY LenProperties
  <2>2. \A i \in 1..Len(q) : q[i].n \in C
    BY <2>1 DEF SPacket
  <2>3. \A i \in 1..Len(q) : Tsn(q[i].n) \in Tsns
    BY <2>2, TsnType
  <2> QED
    BY <2>3 DEF Tsns
<1>c. c \in Int
  BY DEF Tsns
<1>3. CASE above = {}
  <2>1. k = Len(q)
    BY <1>3 DEF AckedCount
  <2>2. \A i \in 1..Len(q) : Tsn(q[i].n) <= c
    BY <1>1, <1>2, <1>c, <1>3
  <2> HIDE DEF k
  <2> QED
    BY <1>1, <2>1, <2>2 DEF k
<1>4. CASE above # {}
  <2>1. above \in SUBSET Nat
    BY <1>1
  <2>2. PICK m \in above : \A j \in above : m <= j
    BY <1>4, <2>1, Least
  <2>3. Min(above) = m
    <3> HIDE DEF above
    <3>1. \A x \in above : (\A j \in above : x =< j) => x = m
      BY <2>1, <2>2
    <3> QED
      BY <2>2, <3>1 DEF Min
  <2>4. k = m - 1
    BY <1>4, <2>3 DEF AckedCount
  <2>5. m \in 1..Len(q) /\ Tsn(q[m].n) > c
    BY <1>1, <2>2
  <2>6. ASSUME NEW i \in 1..(m - 1) PROVE Tsn(q[i].n) <= c
    <3>1. i \in 1..Len(q) /\ i < m
      BY <1>1, <2>5
    <3>2. i \notin above
      <4> HIDE DEF above
      <4> QED
        BY <2>1, <2>2, <2>5, <3>1
    <3> QED
      BY <1>1, <1>2, <1>c, <3>1, <3>2
  <2> HIDE DEF k, above
  <2> QED
    BY <1>1, <2>4, <2>5, <2>6 DEF k
<1> QED
  BY <1>3, <1>4

\* The growth of the congestion window leaves queues and credits alone.
LEMMA GrowIs ==
  ASSUME NEW w \in SType, NEW x \in Nat, NEW y
  PROVE  Same(w, Grow(w, x, y)) /\ Grow(w, x, y).pending = w.pending
         /\ Grow(w, x, y).senderCredits = w.senderCredits
<1> DEFINE v == Grow(w, x, y)
<1>1. w.cwnd \in Nat /\ w.partial \in Int /\ MTU \in Nat
  BY Constants DEF SType
<1>2. PICK a \in Nat, b \in Nat, c \in Int :
        a = w.cwnd + Lesser(x, MTU) /\ b = w.cwnd + MTU /\ c = w.partial - (w.cwnd + MTU)
  BY <1>1 DEF Lesser
<1>3. \/ v = w
      \/ v = [w EXCEPT !.cwnd = a]
      \/ v = [w EXCEPT !.cwnd = b, !.partial = c]
  BY <1>2 DEF Grow
<1>4. a >= w.cwnd /\ b >= w.cwnd
  BY <1>1, <1>2 DEF Lesser
<1> HIDE DEF v
<1>5. CASE v = w
  BY <1>5, SameRefl DEF v
<1>6. CASE v = [w EXCEPT !.cwnd = a]
  <2>1. /\ v \in SType /\ v.holding = w.holding /\ v.receiverCredits = w.receiverCredits
        /\ v.pending = w.pending /\ v.senderCredits = w.senderCredits /\ v.cwnd = a
    BY <1>6 DEF SType
  <2> QED
    BY <1>1, <1>4, <2>1 DEF Same, v
<1>7. CASE v = [w EXCEPT !.cwnd = b, !.partial = c]
  <2>1. /\ v \in SType /\ v.holding = w.holding /\ v.receiverCredits = w.receiverCredits
        /\ v.pending = w.pending /\ v.senderCredits = w.senderCredits /\ v.cwnd = b
    BY <1>7 DEF SType
  <2> QED
    BY <1>1, <1>4, <2>1 DEF Same, v
<1> QED
  BY <1>3, <1>5, <1>6, <1>7

\* The packets that the cumulative TSN acknowledges leave the queue, and their bytes are
\* given back to the window.
LEMMA CumulativeIs ==
  ASSUME NEW w \in SType, NEW c \in Tsns
  PROVE  LET v == Cumulative(w, c)
             k == AckedCount(w.pending, c)
         IN /\ v \in SType /\ v.holding = w.holding
            /\ v.pending = SubSeq(w.pending, k + 1, Len(w.pending))
            /\ v.receiverCredits
                 = w.receiverCredits + Bytes(ChunksOf(SubSeq(w.pending, 1, k)))
            /\ w.cwnd >= MTU => v.cwnd >= MTU
            /\ w.cwnd >= MTU /\ v.pending = <<>> => v.senderCredits >= MTU
<1> DEFINE k     == AckedCount(w.pending, c)
           bytes == Bytes(ChunksOf(SubSeq(w.pending, 1, k)))
           rest  == SubSeq(w.pending, k + 1, Len(w.pending))
           paid  == [w EXCEPT !.pending = rest,
                              !.receiverCredits = @ + bytes,
                              !.senderCredits =
                                 IF k = 0 THEN @ ELSE Lesser(@ + bytes, w.cwnd)]
           timed == IF rest = <<>>
                    THEN [paid EXCEPT !.senderCredits = w.cwnd, !.partial = 0,
                                      !.t3 = FALSE]
                    ELSE IF k = 0 THEN paid
                    ELSE StartT3([paid EXCEPT !.partial = @ + bytes])
           v     == Cumulative(w, c)
<1>1. v = Grow(timed, bytes, Bytes(ChunksOf(w.pending)))
  BY DEF Cumulative
<1>2. /\ k \in 0..Len(w.pending) /\ Len(w.pending) \in Nat /\ w.pending \in Seq(SPacket)
      /\ \A i \in 1..Len(w.pending) : w.pending[i] \in SPacket
  BY AckedCountIs, LenProperties DEF SType
<1> HIDE DEF k
<1>3. rest \in Seq(SPacket) /\ SubSeq(w.pending, 1, k) \in Seq(SPacket)
  <2>1. k \in Int /\ k + 1 \in Int /\ \A i \in 1..k : w.pending[i] \in SPacket
    BY <1>2
  <2>2. \A i \in (k + 1)..Len(w.pending) : w.pending[i] \in SPacket
    BY <1>2
  <2>3. SubSeq(w.pending, 1, k) \in Seq(SPacket)
    BY <2>1, SubSeqProperties
  <2>4. rest \in Seq(SPacket)
    BY <1>2, <2>1, <2>2, SubSeqProperties
  <2> QED
    BY <2>3, <2>4
<1>4. bytes \in Nat
  BY <1>3, ChunksOfIs, BytesType
<1> HIDE DEF bytes, rest, v
<1>5. w.receiverCredits \in Nat /\ w.senderCredits \in Nat /\ w.cwnd \in Nat
  BY DEF SType
<1>6. PICK x \in Nat, y \in Nat :
        /\ x = w.receiverCredits + bytes
        /\ y = IF k = 0 THEN w.senderCredits ELSE Lesser(w.senderCredits + bytes, w.cwnd)
  BY <1>4, <1>5 DEF Lesser
<1>7. paid = [w EXCEPT !.pending = rest, !.receiverCredits = x, !.senderCredits = y]
  BY <1>6
<1> HIDE DEF paid
<1>8. /\ paid \in SType /\ paid.holding = w.holding /\ paid.pending = rest
      /\ paid.receiverCredits = x /\ paid.cwnd = w.cwnd
  BY <1>3, <1>6, <1>7 DEF SType
<1>9. /\ timed \in SType /\ timed.holding = w.holding /\ timed.pending = rest
      /\ timed.receiverCredits = x /\ timed.cwnd = w.cwnd
      /\ rest = <<>> => timed.senderCredits = w.cwnd
  <2>1. CASE rest = <<>>
    <3>1. PICK z \in Int : z = 0
      OBVIOUS
    <3>2. timed = [paid EXCEPT !.senderCredits = w.cwnd, !.partial = z, !.t3 = FALSE]
      BY <2>1, <3>1
    <3> HIDE DEF timed
    <3> QED
      BY <1>5, <1>8, <3>2 DEF SType
  <2>2. CASE rest # <<>> /\ k = 0
    <3>1. timed = paid
      BY <2>2
    <3> QED
      BY <1>8, <2>2, <3>1
  <2>3. CASE rest # <<>> /\ k # 0
    <3>1. PICK z \in Int : z = paid.partial + bytes
      BY <1>4, <1>8 DEF SType
    <3> DEFINE a == [paid EXCEPT !.partial = z]
    <3>2. timed = StartT3(a)
      BY <2>3, <3>1
    <3>3. /\ a \in SType /\ a.holding = w.holding /\ a.pending = rest
          /\ a.receiverCredits = x /\ a.cwnd = w.cwnd
      BY <1>8 DEF SType
    <3> HIDE DEF a, timed
    <3>4. Same(a, timed) /\ timed.pending = a.pending /\ timed.cwnd = a.cwnd
      BY <3>2, <3>3, StartT3Is
    <3> QED
      BY <2>3, <3>3, <3>4 DEF Same
  <2> QED
    BY <2>1, <2>2, <2>3
<1> HIDE DEF timed
<1>10. Same(timed, v) /\ v.pending = timed.pending /\ v.senderCredits = timed.senderCredits
  BY <1>1, <1>4, <1>9, GrowIs
<1>11. /\ v \in SType /\ v.holding = w.holding /\ v.pending = rest /\ v.receiverCredits = x
       /\ w.cwnd >= MTU => v.cwnd >= MTU
       /\ w.cwnd >= MTU /\ v.pending = <<>> => v.senderCredits >= MTU
  BY <1>9, <1>10 DEF Same
<1> QED
  BY <1>6, <1>11 DEF v, k, rest, bytes

\* Chunks move from the head of the holding queue to the end of the pending queue, as many
\* as the credits allow.
LEMMA ReleaseIs ==
  ASSUME NEW w \in SType
  PROVE  \E k \in 0..Len(w.holding) :
           LET v == Release(w)
               p == Len(w.pending)
           IN /\ v \in SType /\ v.holding = SubSeq(w.holding, k + 1, Len(w.holding))
              /\ Len(v.pending) = p + k
              /\ \A i \in 1..p : v.pending[i] = w.pending[i]
              /\ \A i \in 1..k : /\ v.pending[p + i].n = w.holding[i]
                                 /\ v.pending[p + i].gap = 0
              /\ v.receiverCredits = w.receiverCredits - Bytes(SubSeq(w.holding, 1, k))
              /\ v.cwnd = w.cwnd /\ (k = 0 => v = w)
              /\ \/ k # 0 \/ w.holding = <<>>
                 \/ Padded(w.holding[1]) > Lesser(w.receiverCredits, w.senderCredits)
<1> DEFINE N == Len(w.holding)
           q == Len(w.pending)
           credits == Lesser(w.receiverCredits, w.senderCredits)
           Fits(m) == Bytes(SubSeq(w.holding, 1, m)) <= credits
           k == CHOOSE m \in 0..N : (m = 0 \/ Fits(m)) /\ (m = N \/ ~Fits(m + 1))
           moved == SubSeq(w.holding, 1, k)
           now == Rank(w.pending)
           add == [i \in 1..k |-> Packet(moved[i], now)]
           r == [w EXCEPT !.holding = SubSeq(@, k + 1, Len(@)),
                          !.pending = @ \o add,
                          !.receiverCredits = @ - Bytes(moved),
                          !.senderCredits = @ - Bytes(moved),
                          !.out = @ \cup Range(moved)]
           v == Release(w)
<1>1. v = IF k = 0 THEN w ELSE StartT3IfOff(r)
  BY DEF Release
<1>2. /\ N \in Nat /\ q \in Nat /\ w.pending \in Seq(SPacket) /\ w.holding \in Seq(C)
      /\ now \in Nat /\ w.receiverCredits \in Nat /\ w.senderCredits \in Nat
      /\ \A i \in 1..N : w.holding[i] \in C
  BY LenProperties, RankType DEF SType
<1>3. k \in 0..N /\ (k = 0 \/ Fits(k)) /\ (k = N \/ ~Fits(k + 1))
  <2>1. \E m \in 0..N : (m = 0 \/ Fits(m)) /\ (m = N \/ ~Fits(m + 1))
    <3> DEFINE Bad == {m \in 0..(N - 1) : ~Fits(m + 1)}
    <3>1. CASE Bad = {}
      <4>1. CASE N = 0
        BY <4>1
      <4>2. CASE N # 0
        <5>1. N - 1 \in 0..(N - 1) /\ (N - 1) + 1 = N /\ N \in 0..N
          BY <1>2, <4>2
        <5> HIDE DEF Fits, N
        <5>2. Fits(N)
          BY <3>1, <5>1
        <5> QED
          BY <5>1, <5>2
      <4> QED
        BY <4>1, <4>2
    <3>2. CASE Bad # {}
      <4> HIDE DEF Fits, N
      <4>1. Bad \in SUBSET Nat
        BY <1>2
      <4>2. PICK m \in Bad : \A j \in Bad : m <= j
        BY <3>2, <4>1, Least
      <4>3. m \in 0..N /\ ~Fits(m + 1)
        BY <1>2, <4>2
      <4>4. m = 0 \/ Fits(m)
        <5> SUFFICES ASSUME m # 0 PROVE Fits(m)
          OBVIOUS
        <5>1. m - 1 \in 0..(N - 1) /\ (m - 1) + 1 = m /\ m - 1 < m /\ m \in Nat
          BY <1>2, <4>2
        <5>2. m - 1 \notin Bad
          <6> HIDE DEF Bad
          <6> QED
            BY <4>1, <4>2, <5>1
        <5> QED
          BY <5>1, <5>2
      <4> QED
        BY <4>3, <4>4
    <3> QED
      BY <3>1, <3>2
  <2> HIDE DEF Fits, N
  <2> QED
    BY <2>1
<1> HIDE DEF k
<1>4. /\ moved \in Seq(C) /\ SubSeq(w.holding, k + 1, N) \in Seq(C) /\ Len(moved) = k
      /\ \A i \in 1..k : moved[i] = w.holding[i] /\ moved[i] \in C
  <2>1. moved \in Seq(C) /\ SubSeq(w.holding, k + 1, N) \in Seq(C)
    BY <1>2, <1>3, BytesSplit
  <2>2. \A i \in 1..k : w.holding[i] \in C
    BY <1>2, <1>3
  <2>3. k \in Int /\ 1 \in Int
    BY <1>2, <1>3
  <2>4. /\ Len(moved) = IF 1 <= k THEN k - 1 + 1 ELSE 0
        /\ \A i \in 1..(k - 1 + 1) : moved[i] = w.holding[1 + i - 1]
    BY <2>2, <2>3, SubSeqProperties
  <2> HIDE DEF moved
  <2>5. Len(moved) = k /\ \A i \in 1..k : moved[i] = w.holding[i]
    <3>1. \A i \in 1..k : i \in 1..(k - 1 + 1) /\ 1 + i - 1 = i
      BY <2>3
    <3>2. Len(moved) = k
      BY <1>2, <1>3, <2>3, <2>4
    <3>3. \A i \in 1..k : moved[i] = w.holding[i]
      BY <2>4, <3>1
    <3> QED
      BY <3>2, <3>3
  <2> QED
    BY <2>1, <2>2, <2>5
<1>5. CASE k = 0
  <2>1. v = w
    BY <1>1, <1>5
  <2>2. SubSeq(w.holding, 1, N) = w.holding
    BY <1>2, SubSeqFull
  <2>3. moved = <<>>
    <3>1. 0 < 1 /\ 0 \in Int /\ 1 \in Int
      OBVIOUS
    <3> QED
      BY <1>5, <3>1, SubSeqEmpty
  <2>4. w.holding = <<>> \/ Padded(w.holding[1]) > credits
    <3> SUFFICES ASSUME w.holding # <<>> PROVE Padded(w.holding[1]) > credits
      OBVIOUS
    <3>1. N # 0
      BY <1>2, EmptySeq
    <3>2. ~(Bytes(SubSeq(w.holding, 1, 1)) <= credits)
      BY <1>3, <1>5, <3>1
    <3>3. SubSeq(w.holding, 1, 1) = <<w.holding[1]>> /\ w.holding[1] \in C
      <4>1. 1 \in 1..N /\ 1 \in 1..1
        BY <1>2, <3>1
      <4>2. w.holding[1] \in C
        BY <1>2, <4>1
      <4> HIDE DEF N
      <4>3. /\ SubSeq(w.holding, 1, 1) \in Seq(C)
            /\ Len(SubSeq(w.holding, 1, 1)) = IF 1 <= 1 THEN 1 - 1 + 1 ELSE 0
            /\ \A i \in 1..(1 - 1 + 1) : SubSeq(w.holding, 1, 1)[i] = w.holding[1 + i - 1]
        <5>1. \A i \in 1..1 : w.holding[i] \in C
          BY <4>2
        <5> QED
          BY <5>1, SubSeqProperties
      <4>4. SubSeq(w.holding, 1, 1) = <<w.holding[1]>>
        <5> DEFINE s == SubSeq(w.holding, 1, 1)
                   t == <<w.holding[1]>>
        <5>1. s \in Seq(C) /\ Len(s) = 1 /\ s[1] = w.holding[1]
          <6> HIDE DEF s
          <6> QED
            BY <4>3 DEF s
        <5>2. t \in Seq(C) /\ Len(t) = 1 /\ t[1] = w.holding[1]
          BY <4>2
        <5> HIDE DEF s, t
        <5>3. Len(s) = Len(t) /\ \A i \in 1..Len(s) : s[i] = t[i]
          BY <5>1, <5>2
        <5>4. s = t
          BY <5>1, <5>2, <5>3, SeqEqual
        <5> QED
          BY <5>4 DEF s, t
      <4> QED
        BY <4>2, <4>4
    <3>4. Bytes(<<w.holding[1]>>) = Padded(w.holding[1]) /\ Padded(w.holding[1]) \in Nat
      BY <3>3, BytesOne, Sizes
    <3>5. credits \in Nat
      BY <1>2 DEF Lesser
    <3>6. PICK x \in Nat : x = Bytes(SubSeq(w.holding, 1, 1)) /\ x = Padded(w.holding[1])
      BY <3>3, <3>4
    <3> HIDE DEF credits
    <3> QED
      BY <3>2, <3>5, <3>6
  <2> HIDE DEF moved, v, credits, Fits
  <2>5. /\ v \in SType /\ v.holding = SubSeq(w.holding, k + 1, N)
        /\ Len(v.pending) = q + k
        /\ \A i \in 1..q : v.pending[i] = w.pending[i]
        /\ \A i \in 1..k : /\ v.pending[q + i].n = w.holding[i]
                           /\ v.pending[q + i].gap = 0
        /\ v.receiverCredits = w.receiverCredits - Bytes(moved)
        /\ v.cwnd = w.cwnd /\ (k = 0 => v = w)
    BY <1>2, <1>5, <2>1, <2>2, <2>3, BytesEmpty
  <2> QED
    BY <1>3, <2>4, <2>5 DEF v, moved, credits
<1>6. CASE k # 0
  <2>1. PICK b \in Nat : b = Bytes(moved) /\ b <= w.receiverCredits /\ b <= w.senderCredits
    <3>1. Bytes(moved) \in Nat
      BY <1>4, BytesType
    <3>2. Bytes(moved) <= credits
      BY <1>3, <1>6
    <3>3. credits \in Nat /\ credits <= w.receiverCredits /\ credits <= w.senderCredits
      BY <1>2 DEF Lesser
    <3> HIDE DEF moved, credits
    <3> QED
      BY <1>2, <3>1, <3>2, <3>3
  <2>2. /\ add \in Seq(SPacket) /\ Len(add) = k
        /\ \A i \in 1..k : add[i].n = w.holding[i] /\ add[i].gap = 0
    <3>1. \A i \in 1..k : Packet(moved[i], now) \in SPacket
      BY <1>2, <1>4 DEF Packet, SPacket
    <3>2. k \in Nat
      BY <1>2, <1>3
    <3> HIDE DEF moved, now
    <3>3. add \in Seq(SPacket)
      BY <3>1, <3>2, IsASeq
    <3>4. \A i \in 1..k : add[i] = Packet(moved[i], now)
      OBVIOUS
    <3>5. Len(add) = k
      BY <3>2
    <3> HIDE DEF add
    <3> QED
      BY <1>4, <3>3, <3>4, <3>5 DEF Packet
  <2> HIDE DEF add
  <2> DEFINE pend == w.pending \o add
  <2>3. /\ pend \in Seq(SPacket) /\ Len(pend) = q + k
        /\ \A i \in 1..(q + k) : pend[i] = IF i <= q THEN w.pending[i] ELSE add[i - q]
    BY <1>2, <2>2, ConcatProperties
  <2>4. PICK o \in SUBSET C : o = w.out \cup Range(moved)
    <3>1. \A i \in 1..Len(moved) : moved[i] \in C
      BY <1>4
    <3>2. DOMAIN moved = 1..Len(moved)
      BY <1>4, LenProperties
    <3> HIDE DEF moved
    <3> QED
      BY <3>1, <3>2 DEF Range, SType
  <2>5. PICK h \in Seq(C) : h = SubSeq(w.holding, k + 1, N)
    BY <1>4
  <2>6. PICK x \in Nat, y \in Nat : x = w.receiverCredits - b /\ y = w.senderCredits - b
    BY <1>2, <2>1
  <2>7. r = [w EXCEPT !.holding = h, !.pending = pend, !.receiverCredits = x,
                      !.senderCredits = y, !.out = o]
    BY <2>1, <2>4, <2>5, <2>6 DEF SType
  <2>8. v = StartT3IfOff(r)
    BY <1>1, <1>6
  <2> HIDE DEF r, v, pend
  <2>9. /\ r \in SType /\ r.holding = h /\ r.pending = pend /\ r.receiverCredits = x
        /\ r.cwnd = w.cwnd
    BY <2>3, <2>7 DEF SType
  <2>10. /\ v \in SType /\ v.holding = h /\ v.pending = pend /\ v.receiverCredits = x
         /\ v.cwnd = w.cwnd
    BY <2>8, <2>9, StartT3Is DEF Same
  <2>11. \A i \in 1..q : pend[i] = w.pending[i]
    <3>1. \A i \in 1..q : i \in 1..(q + k) /\ i <= q
      BY <1>2, <1>3
    <3> QED
      BY <2>3, <3>1
  <2>12. \A i \in 1..k : pend[q + i].n = w.holding[i] /\ pend[q + i].gap = 0
    <3>1. \A i \in 1..k : q + i \in 1..(q + k) /\ ~(q + i <= q) /\ (q + i) - q = i
      BY <1>2, <1>3
    <3>2. \A i \in 1..k : pend[q + i] = add[i]
      BY <2>3, <3>1
    <3> QED
      BY <2>2, <3>2
  <2> HIDE DEF q, N, moved, credits
  <2>13. /\ v \in SType /\ v.holding = SubSeq(w.holding, k + 1, N)
         /\ Len(v.pending) = q + k
         /\ \A i \in 1..q : v.pending[i] = w.pending[i]
         /\ \A i \in 1..k : /\ v.pending[q + i].n = w.holding[i]
                            /\ v.pending[q + i].gap = 0
         /\ v.receiverCredits = w.receiverCredits - Bytes(moved)
         /\ v.cwnd = w.cwnd
    BY <2>1, <2>3, <2>5, <2>6, <2>10, <2>11, <2>12
  <2> QED
    BY <1>3, <1>6, <2>13 DEF v, moved, N, q
<1> QED
  BY <1>5, <1>6

-----------------------------------------------------------------------------
(* The sender between its steps.                                           *)

Pkt == [n : C, gap : 0..255, at : 0..Chunks]

SndType ==
  [pending : Seq(Pkt), holding : Seq(C),
   receiverCredits : Nat, senderCredits : Nat, cwnd : Nat, ssthresh : Nat,
   partial : Int, exit : Tsns, t3 : BOOLEAN]

\* How many of the first m chunks are in neither queue any more.
Gone(x, m) == m - Len(x.pending) - Len(x.holding)

\* The first m chunks went into the queues, which hold the last of them in order.
Lined(x, m) ==
  /\ Gone(x, m) \in Nat
  /\ \A i \in 1..Len(x.pending) : x.pending[i].n = Gone(x, m) + i
  /\ \A i \in 1..Len(x.holding) : x.holding[i] = m - Len(x.holding) + i

Load(x) == x.receiverCredits + Bytes(ChunksOf(x.pending))

\* All chunks are of whole words.
WholeWords == \A n \in C : ChunkLen[n] % 4 = 0

\* The window is never less than promised, and with nothing in flight there are credits
\* for a whole packet.
Credits(x) ==
  /\ Load(x) >= MaxCredits /\ (WholeWords => Load(x) = MaxCredits)
  /\ x.cwnd >= MTU
  /\ x.pending = <<>> => x.senderCredits >= MTU

\* The sender after a handler that ended with w.
SessionOf(w) ==
  [pending |-> Timed(w), holding |-> w.holding,
   receiverCredits |-> w.receiverCredits, senderCredits |-> w.senderCredits,
   cwnd |-> w.cwnd, ssthresh |-> w.ssthresh, partial |-> w.partial,
   exit |-> w.exit, t3 |-> w.t3]

\* Two sessions with the same queues and credits.
Alike(x, y) ==
  /\ Len(x.pending) = Len(y.pending) /\ x.holding = y.holding
  /\ \A i \in 1..Len(y.pending) : /\ x.pending[i].n = y.pending[i].n
                                  /\ x.pending[i].gap = y.pending[i].gap
  /\ x.receiverCredits = y.receiverCredits /\ x.senderCredits = y.senderCredits
  /\ x.cwnd = y.cwnd

\* A queue between steps is one inside a handler.
LEMMA PktIs == ASSUME NEW q \in Seq(Pkt) PROVE q \in Seq(SPacket)
<1>1. Pkt \subseteq SPacket
  <2>1. 0..Chunks \subseteq Nat
    OBVIOUS
  <2> QED
    BY <2>1 DEF Pkt, SPacket
<1> QED
  BY <1>1, SeqMonotonic

\* The session with which a handler starts.
LEMMA WorkType ==
  ASSUME NEW x \in SndType
  PROVE  Work(x) \in SType /\ Alike(Work(x), x)
<1>1. x.pending \in Seq(SPacket)
  BY PktIs DEF SndType
<1>2. PICK z \in Nat, t \in Tsns : z = 0 /\ t = 0
  BY Constants DEF Tsns
<1>3. Work(x) =
        [pending |-> x.pending, holding |-> x.holding,
         receiverCredits |-> x.receiverCredits, senderCredits |-> x.senderCredits,
         cwnd |-> x.cwnd, ssthresh |-> x.ssthresh, partial |-> x.partial,
         exit |-> x.exit, t3 |-> x.t3,
         since |-> FALSE, out |-> {}, done |-> FALSE,
         fast |-> FALSE, last |-> t, reset |-> FALSE, blk |-> z]
  BY <1>2 DEF Work
<1>4. Work(x) \in SType
  BY <1>1, <1>3 DEF SndType, SType
<1> QED
  BY <1>3, <1>4 DEF Alike

\* The places are counted anew: there are no more of them than packets.
LEMMA TimedIs ==
  ASSUME NEW w \in SType, Len(w.pending) <= Chunks
  PROVE  /\ Timed(w) \in Seq(Pkt) /\ Len(Timed(w)) = Len(w.pending)
         /\ \A i \in 1..Len(w.pending) : /\ Timed(w)[i].n = w.pending[i].n
                                         /\ Timed(w)[i].gap = w.pending[i].gap
<1> DEFINE N == Len(w.pending)
           ats == {w.pending[i].at : i \in DOMAIN w.pending}
           places == ats \ {0}
           upto(a) == {x \in places : x <= a}
           Place(p) == IF w.since \/ ~w.t3 THEN 0 ELSE Cardinality(upto(p.at))
           q == Timed(w)
<1>1. /\ w.pending \in Seq(SPacket) /\ N \in Nat /\ DOMAIN w.pending = 1..N
      /\ \A i \in 1..N : w.pending[i] \in SPacket
  BY LenProperties DEF SType
<1>2. IsFiniteSet(ats) /\ Cardinality(ats) <= N /\ Cardinality(ats) \in Nat
  <2>1. IsFiniteSet(1..N) /\ Cardinality(1..N) = N
    <3>1. 1 \in Int /\ N \in Int
      BY <1>1
    <3>2. IsFiniteSet(1..N) /\ Cardinality(1..N) = IF 1 > N THEN 0 ELSE N - 1 + 1
      BY <3>1, FS_Interval
    <3> HIDE DEF N
    <3> QED
      BY <1>1, <3>2
  <2> DEFINE f == [i \in 1..N |-> w.pending[i].at]
  <2>2. f \in Surjection(1..N, ats)
    BY <1>1 DEF Surjection
  <2> HIDE DEF f, ats, N
  <2>3. IsFiniteSet(ats) /\ Cardinality(ats) <= Cardinality(1..N)
    BY <2>1, <2>2, FS_Surjection
  <2> QED
    BY <2>1, <2>3, FS_CardinalityType
<1>3. \A a : Cardinality(upto(a)) \in 0..Chunks
  <2> SUFFICES ASSUME NEW a PROVE Cardinality(upto(a)) \in 0..Chunks
    OBVIOUS
  <2> DEFINE u == upto(a)
  <2>1. u \in SUBSET ats
    OBVIOUS
  <2> HIDE DEF u, ats
  <2>2. IsFiniteSet(u) /\ Cardinality(u) <= Cardinality(ats)
    BY <1>2, <2>1, FS_Subset
  <2>3. Cardinality(u) \in Nat
    BY <2>2, FS_CardinalityType
  <2> HIDE DEF N
  <2>4. Cardinality(u) \in 0..Chunks
    BY <1>1, <1>2, <2>2, <2>3, Constants DEF N
  <2> QED
    BY <2>4 DEF u, ats
<1>4. q = [i \in 1..N |-> [w.pending[i] EXCEPT !.at = Place(w.pending[i])]]
  BY <1>1 DEF Timed
<1> HIDE DEF upto
<1>5. \A p : Place(p) \in 0..Chunks
  BY <1>3, Constants
<1> HIDE DEF Place, q, N
<1> DEFINE e(i) == [w.pending[i] EXCEPT !.at = Place(w.pending[i])]
<1>6. ASSUME NEW i \in 1..N
      PROVE  e(i) \in Pkt /\ e(i).n = w.pending[i].n /\ e(i).gap = w.pending[i].gap
  <2>1. PICK p \in SPacket : p = w.pending[i]
    BY <1>1
  <2>2. PICK a \in 0..Chunks : a = Place(w.pending[i])
    BY <1>5
  <2>3. e(i) = [p EXCEPT !.at = a]
    BY <2>1, <2>2
  <2> HIDE DEF e
  <2> QED
    BY <2>1, <2>3 DEF SPacket, Pkt
<1>7. q = [i \in 1..N |-> e(i)]
  BY <1>4
<1> HIDE DEF e
<1>8. q \in Seq(Pkt)
  BY <1>1, <1>6, <1>7, IsASeq
<1>9. Len(q) = N /\ \A i \in 1..N : q[i] = e(i)
  BY <1>1, <1>7
<1> QED
  BY <1>6, <1>8, <1>9 DEF q, N

\* The session that a handler leaves.
LEMMA SenderIsType ==
  ASSUME NEW w \in SType, Len(w.pending) <= Chunks, SenderIs(w)
  PROVE  snd' \in SndType /\ Alike(snd', w) /\ data' = Transmit(w.out)
<1> DEFINE x == SessionOf(w)
<1>1. snd' = x /\ data' = Transmit(w.out)
  BY DEF SenderIs, SessionOf
<1>2. /\ Timed(w) \in Seq(Pkt) /\ Len(Timed(w)) = Len(w.pending)
      /\ \A i \in 1..Len(w.pending) : /\ Timed(w)[i].n = w.pending[i].n
                                      /\ Timed(w)[i].gap = w.pending[i].gap
  BY TimedIs
<1>3. x \in SndType
  BY <1>2 DEF SessionOf, SType, SndType
<1>4. Alike(x, w)
  BY <1>2 DEF SessionOf, Alike
<1> HIDE DEF x
<1>5. snd' \in SndType
  BY <1>1, <1>3
<1>6. Alike(snd', w)
  BY <1>1, <1>4
<1> QED
  BY <1>1, <1>5, <1>6

\* Sessions that are alike are lined and have credits alike.
LEMMA AlikeIs ==
  ASSUME NEW x, NEW y, Alike(x, y), x.pending \in Seq(SPacket), y.pending \in Seq(SPacket)
  PROVE  /\ \A m : Gone(x, m) = Gone(y, m)
         /\ \A m : Lined(y, m) => Lined(x, m)
         /\ Load(x) = Load(y) /\ (Credits(y) => Credits(x))
         /\ x.pending = <<>> <=> y.pending = <<>>
<1>1. \A m : Gone(x, m) = Gone(y, m)
  BY DEF Alike, Gone
<1>2. \A m : Lined(y, m) => Lined(x, m)
  BY <1>1 DEF Alike, Lined
<1>3. ChunksOf(x.pending) = ChunksOf(y.pending)
  BY SameChunks DEF Alike
<1>4. Load(x) = Load(y)
  BY <1>3 DEF Load, Alike
<1>5. x.pending = <<>> <=> y.pending = <<>>
  <2>1. \A s \in Seq(SPacket) : s = <<>> <=> Len(s) = 0
    BY EmptySeq
  <2> QED
    BY <2>1 DEF Alike
<1>6. Credits(y) => Credits(x)
  BY <1>4, <1>5 DEF Credits, Alike
<1> QED
  BY <1>1, <1>2, <1>4, <1>5, <1>6

\* A queue is empty when its length is 0.
LEMMA EmptyPending == \A s \in Seq(SPacket) : s = <<>> <=> Len(s) = 0
BY EmptySeq

\* Sessions with the same chunks are lined alike and have the same load.
LEMMA SameIs ==
  ASSUME NEW w \in SType, NEW v, Same(w, v)
  PROVE  /\ \A m : Gone(v, m) = Gone(w, m)
         /\ \A m : Lined(w, m) => Lined(v, m)
         /\ Load(v) = Load(w) /\ (v.pending = <<>> <=> w.pending = <<>>)
<1>1. w.pending \in Seq(SPacket) /\ v.pending \in Seq(SPacket)
  BY DEF Same, SType
<1>2. ChunksOf(v.pending) = ChunksOf(w.pending)
  BY <1>1, SameChunks DEF Same
<1>3. \A m : Gone(v, m) = Gone(w, m)
  BY DEF Same, Gone
<1>4. \A m : Lined(w, m) => Lined(v, m)
  BY <1>3 DEF Same, Lined
<1>5. v.pending = <<>> <=> w.pending = <<>>
  BY <1>1, EmptyPending DEF Same
<1>6. Load(v) = Load(w)
  BY <1>2 DEF Load, Same
<1> QED
  BY <1>3, <1>4, <1>5, <1>6

\* Packets leave the head of the queue, and their bytes go back to the window.
LEMMA CumulativeDoes ==
  ASSUME NEW w \in SType, NEW c \in Tsns, NEW m \in Nat, Lined(w, m), Credits(w)
  PROVE  LET v == Cumulative(w, c)
         IN /\ v \in SType /\ Lined(v, m) /\ Credits(v) /\ Gone(v, m) >= Gone(w, m)
            /\ \A n \in C : Gone(w, m) < n /\ n <= Gone(v, m) => Tsn(n) <= c
            /\ \A i \in 1..Len(v.pending) : \E j \in 1..Len(w.pending) : v.pending[i] = w.pending[j]
            /\ Len(v.pending) > 0 => Tsn(v.pending[1].n) > c
<1> DEFINE v == Cumulative(w, c)
           k == AckedCount(w.pending, c)
           P == Len(w.pending)
           H == Len(w.holding)
           rest == SubSeq(w.pending, k + 1, P)
           head == SubSeq(w.pending, 1, k)
<1>1. /\ v \in SType /\ v.holding = w.holding /\ v.pending = rest
      /\ v.receiverCredits = w.receiverCredits + Bytes(ChunksOf(head))
      /\ w.cwnd >= MTU => v.cwnd >= MTU
      /\ w.cwnd >= MTU /\ v.pending = <<>> => v.senderCredits >= MTU
  BY CumulativeIs
<1>2. /\ w.pending \in Seq(SPacket) /\ w.holding \in Seq(C) /\ P \in Nat /\ H \in Nat
      /\ w.receiverCredits \in Nat /\ \A i \in 1..P : w.pending[i] \in SPacket
  BY LenProperties DEF SType
<1>3. /\ k \in 0..P /\ \A i \in 1..k : Tsn(w.pending[i].n) <= c
      /\ k < P => Tsn(w.pending[k + 1].n) > c
  BY <1>2, AckedCountIs
<1> HIDE DEF k, v
<1>4. /\ rest \in Seq(SPacket) /\ head \in Seq(SPacket) /\ Len(rest) = P - k /\ Len(head) = k
      /\ \A i \in 1..(P - k) : rest[i] = w.pending[k + i]
      /\ \A i \in 1..k : head[i] = w.pending[i]
  <2>1. k \in Int /\ k + 1 \in Int /\ \A i \in 1..k : w.pending[i] \in SPacket
    BY <1>2, <1>3
  <2>2. \A i \in (k + 1)..P : w.pending[i] \in SPacket
    BY <1>2, <1>3
  <2>3. /\ head \in Seq(SPacket) /\ Len(head) = IF 1 <= k THEN k - 1 + 1 ELSE 0
        /\ \A i \in 1..(k - 1 + 1) : head[i] = w.pending[1 + i - 1]
    BY <2>1, SubSeqProperties
  <2>4. /\ rest \in Seq(SPacket) /\ Len(rest) = IF k + 1 <= P THEN P - (k + 1) + 1 ELSE 0
        /\ \A i \in 1..(P - (k + 1) + 1) : rest[i] = w.pending[(k + 1) + i - 1]
    BY <1>2, <2>1, <2>2, SubSeqProperties
  <2> HIDE DEF head, rest, P
  <2>5. Len(rest) = P - k /\ Len(head) = k
    BY <1>2, <1>3, <2>3, <2>4
  <2>6. \A i \in 1..(P - k) : rest[i] = w.pending[k + i]
    <3>1. \A i \in 1..(P - k) : i \in 1..(P - (k + 1) + 1) /\ (k + 1) + i - 1 = k + i
      BY <1>2, <1>3
    <3> QED
      BY <2>4, <3>1
  <2>7. \A i \in 1..k : head[i] = w.pending[i]
    <3>1. \A i \in 1..k : i \in 1..(k - 1 + 1) /\ 1 + i - 1 = i
      BY <1>2, <1>3
    <3> QED
      BY <2>3, <3>1
  <2> QED
    BY <2>3, <2>4, <2>5, <2>6, <2>7
<1>5. Load(v) = Load(w)
  <2> DEFINE s == ChunksOf(w.pending)
             a == ChunksOf(head)
             b == ChunksOf(rest)
  <2>1. /\ s \in Seq(C) /\ a \in Seq(C) /\ b \in Seq(C)
        /\ Len(s) = P /\ Len(a) = k /\ Len(b) = P - k
        /\ \A i \in 1..P : s[i] = w.pending[i].n
        /\ \A i \in 1..k : a[i] = head[i].n
        /\ \A i \in 1..(P - k) : b[i] = rest[i].n
    BY <1>2, <1>4, ChunksOfIs
  <2> HIDE DEF s, a, b, head, rest, P
  <2>2. /\ a \o b \in Seq(C) /\ Len(a \o b) = k + (P - k)
        /\ \A i \in 1..(k + (P - k)) : (a \o b)[i] = IF i <= k THEN a[i] ELSE b[i - k]
    <3>1. /\ a \o b \in Seq(C) /\ Len(a \o b) = Len(a) + Len(b)
          /\ \A i \in 1..(Len(a) + Len(b)) :
               (a \o b)[i] = IF i <= Len(a) THEN a[i] ELSE b[i - Len(a)]
      BY <2>1, ConcatProperties
    <3> QED
      BY <2>1, <3>1
  <2>3. Len(a \o b) = P
    BY <1>2, <1>3, <2>2
  <2>4. ASSUME NEW i \in 1..P PROVE (a \o b)[i] = s[i]
    <3>1. i \in 1..(k + (P - k)) /\ (i > k => i - k \in 1..(P - k) /\ k + (i - k) = i)
          /\ (i <= k => i \in 1..k) /\ (i > k \/ i <= k)
      BY <1>2, <1>3
    <3>2. (a \o b)[i] = IF i <= k THEN a[i] ELSE b[i - k]
      BY <2>2, <3>1
    <3>3. CASE i <= k
      <4>1. a[i] = head[i].n /\ head[i] = w.pending[i]
        BY <1>4, <2>1, <3>1, <3>3
      <4> QED
        BY <2>1, <3>2, <3>3, <4>1
    <3>4. CASE ~(i <= k)
      <4>1. b[i - k] = rest[i - k].n /\ rest[i - k] = w.pending[k + (i - k)]
        BY <1>4, <2>1, <3>1, <3>4
      <4>2. b[i - k] = w.pending[i].n
        BY <3>1, <3>4, <4>1
      <4> QED
        BY <2>1, <3>2, <3>4, <4>2
    <3> QED
      BY <3>3, <3>4
  <2>5. a \o b = s
    BY <2>1, <2>2, <2>3, <2>4, SeqEqual
  <2>6. Bytes(s) = Bytes(a) + Bytes(b) /\ Bytes(a) \in Nat /\ Bytes(b) \in Nat
    BY <2>1, <2>5, BytesConcat, BytesType
  <2>7. /\ Load(w) = w.receiverCredits + Bytes(s)
        /\ Load(v) = (w.receiverCredits + Bytes(a)) + Bytes(b)
    BY <1>1 DEF Load, s, a, b, rest, head, P
  <2> QED
    BY <1>2, <2>6, <2>7
<1>6. Credits(v)
  BY <1>1, <1>5 DEF Credits
<1>7. /\ Len(v.pending) = P - k /\ Len(v.holding) = H /\ v.holding = w.holding
      /\ \A i \in 1..(P - k) : v.pending[i] = w.pending[k + i]
  BY <1>1, <1>4
<1>8. Gone(v, m) = Gone(w, m) + k /\ Gone(w, m) = m - P - H /\ Gone(w, m) \in Nat
  <2>1. Gone(w, m) = m - P - H /\ Gone(v, m) = m - (P - k) - H /\ Gone(w, m) \in Nat
    BY <1>7 DEF Gone, Lined
  <2> HIDE DEF P, H
  <2> QED
    BY <1>2, <1>3, <2>1
<1> HIDE DEF P, H, rest, head
<1>9. \A i \in 1..P : w.pending[i].n = Gone(w, m) + i
  BY DEF Lined, P
<1>10. Lined(v, m)
  <2>1. Gone(v, m) \in Nat
    BY <1>3, <1>2, <1>8
  <2>2. ASSUME NEW i \in 1..(P - k) PROVE v.pending[i].n = Gone(v, m) + i
    <3>1. k + i \in 1..P
      BY <1>2, <1>3
    <3>2. v.pending[i].n = Gone(w, m) + (k + i)
      BY <1>7, <1>9, <3>1
    <3> QED
      BY <1>2, <1>3, <1>8, <3>2
  <2>3. \A i \in 1..Len(v.holding) : v.holding[i] = m - Len(v.holding) + i
    BY <1>7 DEF Lined, H
  <2> QED
    BY <1>7, <2>1, <2>2, <2>3 DEF Lined
<1>11. ASSUME NEW n \in C, Gone(w, m) < n, n <= Gone(v, m) PROVE Tsn(n) <= c
  <2>1. n - Gone(w, m) \in 1..k /\ n - Gone(w, m) \in 1..P
    BY <1>2, <1>3, <1>8, <1>11 DEF C
  <2>2. w.pending[n - Gone(w, m)].n = n
    <3>1. w.pending[n - Gone(w, m)].n = Gone(w, m) + (n - Gone(w, m))
      BY <1>9, <2>1
    <3> QED
      BY <1>8, <3>1 DEF C
  <2> QED
    BY <1>3, <2>1, <2>2
<1>12. \A i \in 1..Len(v.pending) : \E j \in 1..P : v.pending[i] = w.pending[j]
  <2>1. \A i \in 1..(P - k) : k + i \in 1..P
    BY <1>2, <1>3
  <2> QED
    BY <1>7, <2>1
<1>13. Len(v.pending) > 0 => Tsn(v.pending[1].n) > c
  <2> SUFFICES ASSUME Len(v.pending) > 0 PROVE Tsn(v.pending[1].n) > c
    OBVIOUS
  <2>1. k < P /\ 1 \in 1..(P - k)
    BY <1>2, <1>3, <1>7
  <2> QED
    BY <1>3, <1>7, <2>1
<1>14. Gone(v, m) >= Gone(w, m)
  BY <1>2, <1>3, <1>8
<1> QED
  BY <1>1, <1>6, <1>10, <1>11, <1>12, <1>13, <1>14 DEF v, P

\* A queue of packets with chunks added at its end.
LEMMA LoadMore ==
  ASSUME NEW p \in Seq(SPacket), NEW q \in Seq(SPacket), NEW s \in Seq(C),
         Len(q) = Len(p) + Len(s),
         \A i \in 1..Len(p) : q[i].n = p[i].n,
         \A i \in 1..Len(s) : q[Len(p) + i].n = s[i]
  PROVE  Bytes(ChunksOf(q)) = Bytes(ChunksOf(p)) + Bytes(s)
<1> DEFINE a == ChunksOf(p)
           b == ChunksOf(q)
           P == Len(p)
           S == Len(s)
<1>1. /\ a \in Seq(C) /\ b \in Seq(C) /\ Len(a) = P /\ Len(b) = P + S
      /\ \A i \in 1..P : a[i] = p[i].n
      /\ \A i \in 1..(P + S) : b[i] = q[i].n
  BY ChunksOfIs
<1>2. P \in Nat /\ S \in Nat
  BY LenProperties
<1>h. /\ \A i \in 1..P : q[i].n = p[i].n
      /\ \A i \in 1..S : q[P + i].n = s[i]
  OBVIOUS
<1> HIDE DEF a, b
<1>3. /\ a \o s \in Seq(C) /\ Len(a \o s) = P + S
      /\ \A i \in 1..(P + S) : (a \o s)[i] = IF i <= P THEN a[i] ELSE s[i - P]
  <2>1. /\ a \o s \in Seq(C) /\ Len(a \o s) = Len(a) + Len(s)
        /\ \A i \in 1..(Len(a) + Len(s)) : (a \o s)[i] = IF i <= Len(a) THEN a[i] ELSE s[i - Len(a)]
    BY <1>1, ConcatProperties
  <2> QED
    BY <1>1, <2>1
<1> HIDE DEF P, S
<1>4. ASSUME NEW i \in 1..(P + S) PROVE (a \o s)[i] = b[i]
  <2>1. /\ i <= P => i \in 1..P
        /\ i > P => i - P \in 1..S /\ P + (i - P) = i
        /\ i <= P \/ i > P
    BY <1>2
  <2>2. CASE i <= P
    <3>1. (a \o s)[i] = p[i].n /\ b[i] = q[i].n
      BY <1>1, <1>3, <2>1, <2>2
    <3> QED
      BY <1>h, <2>1, <2>2, <3>1
  <2>3. CASE ~(i <= P)
    <3>1. (a \o s)[i] = s[i - P] /\ b[i] = q[i].n
      BY <1>1, <1>3, <2>3
    <3>2. q[P + (i - P)].n = s[i - P]
      BY <1>h, <2>1, <2>3
    <3> QED
      BY <2>1, <2>3, <3>1, <3>2
  <2> QED
    BY <2>2, <2>3
<1>5. a \o s = b
  BY <1>1, <1>3, <1>4, SeqEqual
<1> QED
  BY <1>1, <1>5, BytesConcat DEF a, b

\* Chunks that waited follow those in flight; with nothing in flight the first one goes.
LEMMA ReleaseDoes ==
  ASSUME NEW w \in SType, NEW m \in Nat, Lined(w, m), Credits(w)
  PROVE  LET v == Release(w)
         IN /\ v \in SType /\ Lined(v, m) /\ Credits(v) /\ Gone(v, m) = Gone(w, m)
            /\ v.pending = <<>> => v.holding = <<>>
            /\ \A i \in 1..Len(v.pending) :
                 v.pending[i].gap = GapAcked =>
                   i \in 1..Len(w.pending) /\ v.pending[i] = w.pending[i]
<1> DEFINE v == Release(w)
           P == Len(w.pending)
           H == Len(w.holding)
<1>1. PICK k \in 0..H :
        /\ v \in SType /\ v.holding = SubSeq(w.holding, k + 1, H)
        /\ Len(v.pending) = P + k
        /\ \A i \in 1..P : v.pending[i] = w.pending[i]
        /\ \A i \in 1..k : /\ v.pending[P + i].n = w.holding[i]
                           /\ v.pending[P + i].gap = 0
        /\ v.receiverCredits = w.receiverCredits - Bytes(SubSeq(w.holding, 1, k))
        /\ v.cwnd = w.cwnd /\ (k = 0 => v = w)
        /\ \/ k # 0 \/ w.holding = <<>>
           \/ Padded(w.holding[1]) > Lesser(w.receiverCredits, w.senderCredits)
  BY ReleaseIs
<1>2. /\ P \in Nat /\ H \in Nat /\ w.pending \in Seq(SPacket) /\ w.holding \in Seq(C)
      /\ w.receiverCredits \in Nat /\ w.senderCredits \in Nat
      /\ \A i \in 1..H : w.holding[i] \in C
  BY LenProperties DEF SType
<1> HIDE DEF v
<1>3. /\ SubSeq(w.holding, 1, k) \in Seq(C) /\ Len(SubSeq(w.holding, 1, k)) = k
      /\ \A i \in 1..k : SubSeq(w.holding, 1, k)[i] = w.holding[i]
      /\ Len(v.holding) = H - k /\ \A i \in 1..(H - k) : v.holding[i] = w.holding[k + i]
  <2>1. k \in Int /\ k + 1 \in Int /\ H \in Int /\ \A i \in 1..k : w.holding[i] \in C
    BY <1>2
  <2>2. \A i \in (k + 1)..H : w.holding[i] \in C
    BY <1>2
  <2> DEFINE a == SubSeq(w.holding, 1, k)
             b == SubSeq(w.holding, k + 1, H)
  <2>3. /\ a \in Seq(C) /\ Len(a) = IF 1 <= k THEN k - 1 + 1 ELSE 0
        /\ \A i \in 1..(k - 1 + 1) : a[i] = w.holding[1 + i - 1]
    BY <2>1, SubSeqProperties
  <2>4. /\ b \in Seq(C) /\ Len(b) = IF k + 1 <= H THEN H - (k + 1) + 1 ELSE 0
        /\ \A i \in 1..(H - (k + 1) + 1) : b[i] = w.holding[(k + 1) + i - 1]
    BY <2>1, <2>2, SubSeqProperties
  <2>5. v.holding = b
    BY <1>1
  <2> HIDE DEF a, b, H
  <2>6. Len(a) = k /\ Len(b) = H - k
    BY <1>2, <2>3, <2>4
  <2>7. \A i \in 1..k : a[i] = w.holding[i]
    <3>1. \A i \in 1..k : i \in 1..(k - 1 + 1) /\ 1 + i - 1 = i
      BY <2>1
    <3> QED
      BY <2>3, <3>1
  <2>8. \A i \in 1..(H - k) : b[i] = w.holding[k + i]
    <3>1. \A i \in 1..(H - k) : i \in 1..(H - (k + 1) + 1) /\ (k + 1) + i - 1 = k + i
      BY <2>1
    <3> QED
      BY <2>4, <3>1
  <2> QED
    BY <2>3, <2>5, <2>6, <2>7, <2>8 DEF a
<1>4. Load(v) = Load(w)
  <2> DEFINE s == SubSeq(w.holding, 1, k)
  <2>1. s \in Seq(C) /\ Len(s) = k /\ \A i \in 1..k : s[i] = w.holding[i]
    BY <1>3
  <2>2. v.receiverCredits = w.receiverCredits - Bytes(s) /\ v.pending \in Seq(SPacket)
    BY <1>1 DEF SType
  <2> HIDE DEF s
  <2>3. Bytes(ChunksOf(v.pending)) = Bytes(ChunksOf(w.pending)) + Bytes(s)
    <3>1. Len(v.pending) = Len(w.pending) + Len(s)
      BY <1>1, <2>1
    <3>2. \A i \in 1..Len(w.pending) : v.pending[i].n = w.pending[i].n
      BY <1>1
    <3>3. \A i \in 1..Len(s) : v.pending[Len(w.pending) + i].n = s[i]
      BY <1>1, <2>1
    <3> QED
      BY <1>2, <2>1, <2>2, <3>1, <3>2, <3>3, LoadMore
  <2>4. Bytes(s) \in Nat /\ Bytes(ChunksOf(w.pending)) \in Nat
    BY <1>2, <2>1, ChunksOfIs, BytesType
  <2> QED
    BY <1>2, <2>2, <2>3, <2>4 DEF Load
<1> HIDE DEF P, H
<1>5. Gone(v, m) = Gone(w, m) /\ Gone(w, m) \in Nat /\ Gone(w, m) = m - P - H
  <2>1. Gone(w, m) = m - P - H /\ Gone(v, m) = m - (P + k) - (H - k) /\ Gone(w, m) \in Nat
    BY <1>1, <1>3 DEF Gone, Lined, P, H
  <2> QED
    BY <1>2, <2>1
<1>6. /\ \A i \in 1..P : w.pending[i].n = Gone(w, m) + i
      /\ \A i \in 1..H : w.holding[i] = m - H + i
  BY DEF Lined, P, H
<1>7. Lined(v, m)
  <2>1. ASSUME NEW i \in 1..(P + k) PROVE v.pending[i].n = Gone(v, m) + i
    <3>1. /\ i <= P => i \in 1..P
          /\ i > P => i - P \in 1..k /\ i - P \in 1..H /\ P + (i - P) = i
          /\ i <= P \/ i > P
      BY <1>2
    <3>2. CASE i <= P
      BY <1>1, <1>5, <1>6, <3>1, <3>2
    <3>3. CASE i > P
      <4>1. v.pending[P + (i - P)].n = w.holding[i - P] /\ w.holding[i - P] = m - H + (i - P)
        BY <1>1, <1>6, <3>1, <3>3
      <4>2. v.pending[i].n = m - H + (i - P)
        BY <3>1, <3>3, <4>1
      <4> QED
        BY <1>2, <1>5, <4>2
    <3> QED
      BY <3>1, <3>2, <3>3
  <2>2. ASSUME NEW i \in 1..(H - k) PROVE v.holding[i] = m - (H - k) + i
    <3>1. k + i \in 1..H
      BY <1>2
    <3>2. v.holding[i] = m - H + (k + i)
      BY <1>3, <1>6, <3>1
    <3> QED
      BY <1>2, <3>2
  <2> QED
    BY <1>1, <1>3, <1>5, <2>1, <2>2 DEF Lined
<1>8. v.pending = <<>> => k = 0 /\ w.pending = <<>> /\ w.holding = <<>> /\ v = w
  <2> SUFFICES ASSUME v.pending = <<>>
               PROVE  k = 0 /\ w.pending = <<>> /\ w.holding = <<>> /\ v = w
    OBVIOUS
  <2>1. P + k = 0
    BY <1>1 DEF P
  <2>2. P = 0 /\ k = 0
    BY <1>2, <2>1
  <2>3. w.pending = <<>> /\ v = w
    BY <1>1, <1>2, <2>2, EmptyPending DEF P
  <2>4. w.senderCredits >= MTU /\ w.receiverCredits >= MaxCredits
    <3>1. ChunksOf(<<>>) = <<>>
      BY DEF ChunksOf
    <3>2. Load(w) = w.receiverCredits
      BY <1>2, <2>3, <3>1, BytesEmpty DEF Load
    <3> QED
      BY <2>3, <3>2 DEF Credits
  <2>5. w.holding = <<>>
    <3> SUFFICES ASSUME w.holding # <<>> PROVE FALSE
      OBVIOUS
    <3>1. w.holding[1] \in C
      <4>1. H # 0
        BY <1>2, EmptySeq DEF H
      <4>2. 1 \in 1..H
        BY <1>2, <4>1
      <4> QED
        BY <1>2, <4>2
    <3>2. Padded(w.holding[1]) > Lesser(w.receiverCredits, w.senderCredits)
      BY <1>1, <2>2
    <3>3. Padded(w.holding[1]) \in Nat /\ Padded(w.holding[1]) <= 1232
      BY <3>1, Sizes
    <3>4. MTU \in Nat /\ MTU >= 1260 /\ MaxCredits \in Nat /\ MaxCredits >= 1232
      BY SctpAssumption
    <3> QED
      BY <1>2, <2>4, <3>2, <3>3, <3>4 DEF Lesser
  <2> QED
    BY <2>2, <2>3, <2>5
<1>9. Credits(v)
  BY <1>1, <1>4, <1>8 DEF Credits
<1>10. ASSUME NEW i \in 1..Len(v.pending), v.pending[i].gap = GapAcked
       PROVE  i \in 1..P /\ v.pending[i] = w.pending[i]
  <2>1. i \in 1..(P + k)
    BY <1>1
  <2>2. /\ i <= P => i \in 1..P
        /\ i > P => i - P \in 1..k /\ P + (i - P) = i
        /\ i <= P \/ i > P
    BY <1>2, <2>1
  <2>3. ~(i > P)
    <3> SUFFICES ASSUME i > P PROVE FALSE
      OBVIOUS
    <3>1. v.pending[P + (i - P)].gap = 0
      BY <1>1, <2>2
    <3> QED
      BY <1>10, <2>2, <3>1 DEF GapAcked
  <2> QED
    BY <1>1, <2>2, <2>3
<1> QED
  BY <1>1, <1>5, <1>7, <1>8, <1>9, <1>10 DEF v, P

\* What every handler of the sender keeps, from session x with m chunks to session v with mv.
Keeps(x, m, v, mv) ==
  /\ v \in SType /\ Lined(v, mv) /\ Credits(v) /\ Gone(v, mv) >= Gone(x, m)
  /\ v.pending = <<>> => v.holding = <<>>

\* The packets that v marks as acknowledged were marked in x, or are of K.
MarksFrom(x, v, K) ==
  \A i \in 1..Len(v.pending) : v.pending[i].gap = GapAcked =>
    \/ \E j \in 1..Len(x.pending) : /\ x.pending[j].n = v.pending[i].n
                                    /\ x.pending[j].gap = GapAcked
    \/ v.pending[i].n \in K

\* What a SACK does to the session.
LEMMA SackDoes ==
  ASSUME snd \in SndType, NEW m \in Nat, Lined(snd, m), Credits(snd), NEW k \in Sack
  PROVE  LET v == SackHandled(k)
         IN /\ Keeps(snd, m, v, m)
            /\ \A n \in C : Gone(snd, m) < n /\ n <= Gone(v, m) => Tsn(n) <= k.cum
            /\ NoWrap => MarksFrom(snd, v, {n \in InBlocks(k) : Tsn(n) > k.cum})
<1> DEFINE a == Work(snd)
           b == LeaveFastRecovery(a, k.cum)
           c == Cumulative(b, k.cum)
           d == Gaps(c, k)
           v == Release(d)
<1>0. v = SackHandled(k)
  BY DEF SackHandled
<1>k. k.cum \in Tsns
  BY DEF Sack
<1>1. a \in SType /\ Alike(a, snd)
  BY WorkType
<1>2. /\ Lined(a, m) /\ Credits(a) /\ Gone(a, m) = Gone(snd, m)
  <2>1. a.pending \in Seq(SPacket) /\ snd.pending \in Seq(SPacket)
    BY <1>1, PktIs DEF SType, SndType
  <2> QED
    BY <1>1, <2>1, AlikeIs
<1> HIDE DEF a
<1>3. Same(a, b) /\ b.pending = a.pending /\ b.senderCredits = a.senderCredits
  <2>1. PICK z \in Tsns : z = 0
    BY Constants DEF Tsns
  <2>2. b = a \/ b = [a EXCEPT !.exit = z]
    BY <2>1 DEF LeaveFastRecovery
  <2> HIDE DEF b
  <2>3. CASE b = a
    BY <1>1, <2>3, SameRefl
  <2>4. CASE b = [a EXCEPT !.exit = z]
    BY <1>1, <2>4 DEF Same, SType
  <2> QED
    BY <2>2, <2>3, <2>4
<1> HIDE DEF b
<1>4. b \in SType /\ Lined(b, m) /\ Credits(b) /\ Gone(b, m) = Gone(snd, m)
  BY <1>1, <1>2, <1>3, SameIs DEF Same, Credits
<1>5. /\ c \in SType /\ Lined(c, m) /\ Credits(c) /\ Gone(c, m) >= Gone(b, m)
      /\ \A n \in C : Gone(b, m) < n /\ n <= Gone(c, m) => Tsn(n) <= k.cum
      /\ \A i \in 1..Len(c.pending) : \E j \in 1..Len(b.pending) : c.pending[i] = b.pending[j]
      /\ Len(c.pending) > 0 => Tsn(c.pending[1].n) > k.cum
  BY <1>k, <1>4, CumulativeDoes
<1> HIDE DEF c
<1>6. /\ Same(c, d) /\ Marks(c, d, InBlocks(k))
      /\ c.pending = <<>> => d.senderCredits = c.senderCredits
  BY <1>5, GapsIs
<1> HIDE DEF d
<1>7. d \in SType /\ Lined(d, m) /\ Credits(d) /\ Gone(d, m) = Gone(c, m)
  BY <1>5, <1>6, SameIs DEF Same, Credits
<1>8. /\ v \in SType /\ Lined(v, m) /\ Credits(v) /\ Gone(v, m) = Gone(d, m)
      /\ v.pending = <<>> => v.holding = <<>>
      /\ \A i \in 1..Len(v.pending) :
           v.pending[i].gap = GapAcked => i \in 1..Len(d.pending) /\ v.pending[i] = d.pending[i]
  BY <1>7, ReleaseDoes
<1> HIDE DEF v
<1>9. Gone(v, m) = Gone(c, m) /\ Gone(b, m) = Gone(snd, m)
  BY <1>4, <1>7, <1>8
<1>10. Keeps(snd, m, v, m)
  BY <1>5, <1>8, <1>9 DEF Keeps
<1>11. \A n \in C : Gone(snd, m) < n /\ n <= Gone(v, m) => Tsn(n) <= k.cum
  BY <1>5, <1>9
<1>12. ASSUME NoWrap PROVE MarksFrom(snd, v, {n \in InBlocks(k) : Tsn(n) > k.cum})
  <2> SUFFICES ASSUME NEW i \in 1..Len(v.pending), v.pending[i].gap = GapAcked
               PROVE  \/ \E j \in 1..Len(snd.pending) : /\ snd.pending[j].n = v.pending[i].n
                                                        /\ snd.pending[j].gap = GapAcked
                      \/ v.pending[i].n \in {n \in InBlocks(k) : Tsn(n) > k.cum}
    BY DEF MarksFrom
  <2>1. i \in 1..Len(d.pending) /\ v.pending[i] = d.pending[i]
    BY <1>8
  <2>2. i \in 1..Len(c.pending) /\ d.pending[i].n = c.pending[i].n
    BY <1>6, <2>1 DEF Same
  <2>3. c.pending[i].gap = GapAcked \/ c.pending[i].n \in InBlocks(k)
    BY <1>6, <2>1, <2>2 DEF Marks
  <2>4. CASE c.pending[i].gap = GapAcked
    <3>1. PICK j \in 1..Len(b.pending) : c.pending[i] = b.pending[j]
      BY <1>5, <2>2
    <3>2. j \in 1..Len(a.pending) /\ b.pending[j] = a.pending[j]
      BY <1>3, <3>1
    <3>3. /\ j \in 1..Len(snd.pending) /\ a.pending[j].n = snd.pending[j].n
          /\ a.pending[j].gap = snd.pending[j].gap
      BY <1>1, <3>2 DEF Alike
    <3>4. snd.pending[j].n = v.pending[i].n /\ snd.pending[j].gap = GapAcked
      BY <2>1, <2>2, <2>4, <3>1, <3>2, <3>3
    <3> QED
      BY <3>3, <3>4
  <2>5. CASE c.pending[i].n \in InBlocks(k)
    <3> DEFINE n == c.pending[i].n
               f == c.pending[1].n
    <3>1. Len(c.pending) \in Nat /\ 1 \in 1..Len(c.pending)
      <4>1. Len(c.pending) \in Nat
        BY <1>5, LenProperties DEF SType
      <4> QED
        BY <2>2, <4>1
    <3>2. n = Gone(c, m) + i /\ f = Gone(c, m) + 1 /\ Gone(c, m) \in Nat
      BY <1>5, <2>2, <3>1 DEF Lined
    <3>3. n \in C /\ f \in C
      <4>1. n \in C
        BY <2>5 DEF InBlocks
      <4>2. c.pending[1] \in SPacket
        BY <1>5, <3>1, ElementOfSeq DEF SType
      <4> QED
        BY <4>1, <4>2 DEF SPacket
    <3>4. Tsn(f) > k.cum
      BY <1>5, <3>1
    <3> HIDE DEF n, f
    <3>5. Tsn(n) = FirstTsn + n - 1 /\ Tsn(f) = FirstTsn + f - 1
      BY <1>12, <3>3, Plain
    <3>6. Tsn(n) > k.cum
      <4>1. i \in Int /\ i >= 1 /\ k.cum \in Int /\ FirstTsn \in Int
        BY <1>k, <2>2, <3>1, Constants DEF Tsns
      <4>2. n \in Int /\ f \in Int /\ n >= f
        BY <3>2, <4>1
      <4> QED
        BY <3>4, <3>5, <4>1, <4>2
    <3> QED
      BY <2>1, <2>2, <2>5, <3>6 DEF n
  <2> QED
    BY <2>3, <2>4, <2>5
<1> QED
  BY <1>0, <1>10, <1>11, <1>12

\* T3-RTX changes the credits and no queue.
LEMMA ResentDoes ==
  ASSUME snd \in SndType, NEW m \in Nat, Lined(snd, m), Credits(snd), snd.pending # <<>>, NEW cut
  PROVE  LET w == [Work(snd) EXCEPT !.t3 = FALSE, !.senderCredits = MTU,
                                    !.ssthresh = Shrunk(snd), !.cwnd = MTU]
             v == ResendAll(w, cut)
         IN /\ Keeps(snd, m, v, m) /\ Gone(v, m) = Gone(snd, m)
            /\ MarksFrom(snd, v, {})
<1> DEFINE a == Work(snd)
           w == [a EXCEPT !.t3 = FALSE, !.senderCredits = MTU,
                          !.ssthresh = Shrunk(snd), !.cwnd = MTU]
           v == ResendAll(w, cut)
<1>1. a \in SType /\ Alike(a, snd)
  BY WorkType
<1>2. a.pending \in Seq(SPacket) /\ snd.pending \in Seq(SPacket)
  BY <1>1, PktIs DEF SType, SndType
<1>3. /\ Lined(a, m) /\ Credits(a) /\ Gone(a, m) = Gone(snd, m) /\ a.pending # <<>>
  BY <1>1, <1>2, AlikeIs
<1>4. PICK s \in Nat, u \in Nat : s = Shrunk(snd) /\ u = MTU
  <2>1. Shrunk(snd) = Shrunk(a)
    BY DEF Shrunk, Work
  <2> HIDE DEF a
  <2>2. Shrunk(a) \in Nat
    BY <1>1, ShrunkIs
  <2> QED
    BY <2>1, <2>2, Constants
<1>5. w = [a EXCEPT !.t3 = FALSE, !.senderCredits = u, !.ssthresh = s, !.cwnd = u]
  BY <1>4
<1> HIDE DEF a, w
<1>6. /\ w \in SType /\ w.pending = a.pending /\ w.holding = a.holding /\ w.cwnd = u
      /\ w.receiverCredits = a.receiverCredits
  BY <1>1, <1>5 DEF SType
<1>7. Same(a, w)
  BY <1>4, <1>6 DEF Same
<1>8. Same(w, v) /\ Marks(w, v, {})
  BY <1>6, ResendAllIs
<1> HIDE DEF v
<1>9. Same(a, v)
  BY <1>7, <1>8, SameMore
<1>10. v \in SType /\ Lined(v, m) /\ Gone(v, m) = Gone(a, m) /\ Load(v) = Load(a)
       /\ v.pending # <<>>
  BY <1>1, <1>3, <1>9, SameIs DEF Same
<1>11. v.cwnd >= MTU
  BY <1>4, <1>6, <1>8 DEF Same
<1>12. Credits(v)
  BY <1>3, <1>10, <1>11 DEF Credits
<1>13. Gone(v, m) \in Int
  BY <1>10 DEF Lined
<1>14. Keeps(snd, m, v, m) /\ Gone(v, m) = Gone(snd, m)
  BY <1>3, <1>10, <1>12, <1>13 DEF Keeps
<1>15. MarksFrom(snd, v, {})
  <2>1. Len(v.pending) = Len(snd.pending) /\ Len(w.pending) = Len(snd.pending)
    BY <1>1, <1>6, <1>9 DEF Same, Alike
  <2>2. \A i \in 1..Len(snd.pending) : /\ v.pending[i].n = snd.pending[i].n
                                       /\ w.pending[i].gap = snd.pending[i].gap
    BY <1>1, <1>6, <1>9 DEF Same, Alike
  <2> QED
    BY <1>8, <2>1, <2>2 DEF Marks, MarksFrom
<1> QED
  BY <1>14, <1>15 DEF v, w, a

\* A new chunk goes to the end of one of the queues: never to the holding queue alone.
LEMMA SendDoes ==
  ASSUME snd \in SndType, NEW n \in C, Lined(snd, n - 1), Credits(snd), NoStuckSend
  PROVE  LET v == SctpSendDataEx(n)
         IN /\ Keeps(snd, n - 1, v, n) /\ Gone(v, n) = Gone(snd, n - 1)
            /\ MarksFrom(snd, v, {})
<1> DEFINE a == Work(snd)
           P == Len(snd.pending)
           H == Len(snd.holding)
           len == ChunkLen[n]
           v == SctpSendDataEx(n)
           must == \/ snd.receiverCredits < len \/ len > snd.senderCredits \/ snd.holding # <<>>
           p == Packet(n, Rank(snd.pending))
<1>1. a \in SType /\ Alike(a, snd)
  BY WorkType
<1>2. /\ a.pending = snd.pending /\ a.holding = snd.holding /\ a.cwnd = snd.cwnd
      /\ a.receiverCredits = snd.receiverCredits /\ a.senderCredits = snd.senderCredits
  BY DEF Work
<1>v. v = IF must THEN [a EXCEPT !.holding = Append(@, n)]
          ELSE StartT3IfOff(SendSctpPacket(
                 [a EXCEPT !.pending = Append(@, p), !.receiverCredits = @ - len,
                           !.senderCredits = @ - len], n))
  BY DEF SctpSendDataEx
<1> HIDE DEF a, v
<1>3. /\ snd.pending \in Seq(SPacket) /\ snd.holding \in Seq(C) /\ P \in Nat /\ H \in Nat
      /\ snd.receiverCredits \in Nat /\ snd.senderCredits \in Nat
  <2>1. snd.pending \in Seq(SPacket) /\ snd.holding \in Seq(C)
    BY PktIs DEF SndType
  <2> QED
    BY <2>1, LenProperties DEF SndType
<1>4. n \in Nat /\ n >= 1
  BY DEF C
<1>5. len \in Nat /\ len <= Padded(n) /\ Padded(n) \in Nat /\ Padded(n) <= 1232
      /\ (len % 4 = 0 => Padded(n) = len)
  BY Sizes
<1>6. MTU \in Nat /\ MTU >= 1260 /\ MaxCredits \in Nat /\ MaxCredits >= 1232
  BY SctpAssumption
<1>7. Bytes(ChunksOf(snd.pending)) \in Nat
  BY <1>3, ChunksOfIs, BytesType
<1>8. /\ Gone(snd, n - 1) = (n - 1) - P - H /\ Gone(snd, n - 1) \in Nat
      /\ \A i \in 1..P : snd.pending[i].n = Gone(snd, n - 1) + i
      /\ \A i \in 1..H : snd.holding[i] = (n - 1) - H + i
  BY DEF Gone, Lined
<1>e. snd.holding = <<>> <=> H = 0
  BY <1>3, EmptySeq
<1> HIDE DEF len
<1>9. CASE must
  <2>1. snd.pending # <<>>
    <3> SUFFICES ASSUME snd.pending = <<>> PROVE FALSE
      OBVIOUS
    <3>1. snd.holding = <<>> /\ snd.senderCredits >= MTU
      BY DEF Credits, NoStuckSend
    <3>2. snd.receiverCredits >= MaxCredits
      <4>1. ChunksOf(<<>>) = <<>>
        BY DEF ChunksOf
      <4>2. Load(snd) = snd.receiverCredits
        BY <1>3, <4>1, BytesEmpty DEF Load
      <4> QED
        BY <4>2 DEF Credits
    <3> QED
      BY <1>3, <1>5, <1>6, <1>9, <3>1, <3>2
  <2> DEFINE h == Append(snd.holding, n)
  <2>2. /\ h \in Seq(C) /\ Len(h) = H + 1 /\ \A i \in 1..H : h[i] = snd.holding[i]
        /\ h[H + 1] = n
    BY <1>3, AppendProperties
  <2>3. v = [a EXCEPT !.holding = h]
    BY <1>v, <1>2, <1>9
  <2> HIDE DEF h, must
  <2>4. /\ v \in SType /\ v.pending = snd.pending /\ v.holding = h /\ v.cwnd = snd.cwnd
        /\ v.receiverCredits = snd.receiverCredits /\ v.senderCredits = snd.senderCredits
    BY <1>1, <1>2, <2>2, <2>3 DEF SType
  <2>5. Gone(v, n) = Gone(snd, n - 1)
    <3>1. Gone(v, n) = n - P - (H + 1)
      BY <2>2, <2>4 DEF Gone
    <3> HIDE DEF P, H
    <3> QED
      BY <1>3, <1>4, <1>8, <3>1
  <2>6. Lined(v, n)
    <3>1. ASSUME NEW i \in 1..(H + 1) PROVE h[i] = n - (H + 1) + i
      <4>1. i \in 1..H \/ i = H + 1
        BY <1>3
      <4> HIDE DEF H, P
      <4>2. CASE i \in 1..H
        <5>1. h[i] = (n - 1) - H + i
          <6>1. h[i] = snd.holding[i]
            BY <2>2, <4>2
          <6>2. snd.holding[i] = (n - 1) - H + i
            BY <1>8, <4>2
          <6> QED
            BY <6>1, <6>2
        <5> QED
          BY <1>3, <1>4, <5>1
      <4>3. CASE i = H + 1
        BY <1>3, <1>4, <2>2, <4>3
      <4> QED
        BY <4>1, <4>2, <4>3
    <3> QED
      BY <1>8, <2>2, <2>4, <2>5, <3>1 DEF Lined
  <2>7. Credits(v)
    BY <2>4 DEF Credits, Load
  <2>8. Keeps(snd, n - 1, v, n)
    BY <1>8, <2>1, <2>4, <2>5, <2>6, <2>7 DEF Keeps
  <2>9. MarksFrom(snd, v, {})
    BY <2>4 DEF MarksFrom
  <2> QED
    BY <2>5, <2>8, <2>9 DEF v
<1>10. CASE ~must
  <2>1. /\ snd.receiverCredits >= len /\ snd.senderCredits >= len /\ snd.holding = <<>> /\ H = 0
    BY <1>3, <1>5, <1>e, <1>10
  <2>2. PICK x \in Nat, y \in Nat : x = snd.receiverCredits - len /\ y = snd.senderCredits - len
    BY <1>3, <1>5, <2>1
  <2>3. p \in SPacket /\ p.n = n /\ p.gap = 0
    <3>1. Rank(snd.pending) \in Nat
      BY <1>3, RankType
    <3> QED
      BY <3>1 DEF Packet, SPacket
  <2> HIDE DEF p
  <2> DEFINE q == Append(snd.pending, p)
             r == [a EXCEPT !.pending = q, !.receiverCredits = x, !.senderCredits = y]
             s == SendSctpPacket(r, n)
  <2>4. /\ q \in Seq(SPacket) /\ Len(q) = P + 1 /\ \A i \in 1..P : q[i] = snd.pending[i]
        /\ q[P + 1] = p
    BY <1>3, <2>3, AppendProperties
  <2>5. v = StartT3IfOff(s)
    <3>1. [a EXCEPT !.pending = Append(@, p), !.receiverCredits = @ - len,
                    !.senderCredits = @ - len] = r
      BY <1>2, <2>2
    <3> HIDE DEF must, r
    <3> QED
      BY <1>v, <1>10, <3>1
  <2> HIDE DEF q, must
  <2>6. /\ r \in SType /\ r.pending = q /\ r.holding = <<>> /\ r.cwnd = snd.cwnd
        /\ r.receiverCredits = x
    BY <1>1, <1>2, <2>1, <2>4 DEF SType
  <2> HIDE DEF r
  <2>7. Same(r, s) /\ s.pending = r.pending /\ s \in SType
    BY <2>6, SendIs DEF Same
  <2> HIDE DEF s
  <2>8. Same(s, v) /\ v.pending = s.pending /\ v.cwnd = s.cwnd
    BY <2>5, <2>7, StartT3Is
  <2>c. v.cwnd >= MTU
    BY <2>6, <2>7, <2>8 DEF Same, Credits
  <2>9. /\ v \in SType /\ v.pending = q /\ v.holding = <<>> /\ v.receiverCredits = x
    BY <2>6, <2>7, <2>8 DEF Same
  <2>10. Len(v.holding) = 0
    BY <2>9
  <2>11. Gone(v, n) = Gone(snd, n - 1)
    <3>1. Gone(v, n) = n - (P + 1) - 0
      BY <2>4, <2>9, <2>10 DEF Gone
    <3> HIDE DEF P, H
    <3> QED
      BY <1>3, <1>4, <1>8, <2>1, <3>1
  <2>12. Lined(v, n)
    <3>1. ASSUME NEW i \in 1..(P + 1) PROVE q[i].n = Gone(v, n) + i
      <4>1. i \in 1..P \/ i = P + 1
        BY <1>3
      <4> HIDE DEF H, P
      <4>2. CASE i \in 1..P
        BY <1>8, <2>4, <2>11, <4>2
      <4>3. CASE i = P + 1
        BY <1>3, <1>4, <1>8, <2>1, <2>3, <2>4, <2>11, <4>3
      <4> QED
        BY <4>1, <4>2, <4>3
    <3> QED
      BY <1>8, <2>4, <2>9, <2>10, <2>11, <3>1 DEF Lined
  <2>13. v.pending # <<>>
    BY <1>3, <2>4, <2>9, EmptyPending
  <2>14. Bytes(ChunksOf(q)) = Bytes(ChunksOf(snd.pending)) + Padded(n)
    <3> DEFINE o == <<n>>
    <3>1. o \in Seq(C) /\ Len(o) = 1 /\ o[1] = n
      OBVIOUS
    <3>2. Len(q) = Len(snd.pending) + Len(o)
      BY <2>4, <3>1
    <3>3. \A i \in 1..Len(snd.pending) : q[i].n = snd.pending[i].n
      BY <2>4
    <3>4. \A i \in 1..Len(o) : q[Len(snd.pending) + i].n = o[i]
      BY <2>3, <2>4, <3>1
    <3>5. Bytes(o) = Padded(n)
      BY BytesOne
    <3> HIDE DEF o
    <3> QED
      BY <1>3, <2>4, <3>1, <3>2, <3>3, <3>4, <3>5, LoadMore
  <2>15. Credits(v)
    <3>1. Load(v) = x + (Bytes(ChunksOf(snd.pending)) + Padded(n))
      BY <2>9, <2>14 DEF Load
    <3>2. Load(snd) = snd.receiverCredits + Bytes(ChunksOf(snd.pending)) /\ Load(snd) >= MaxCredits
          /\ (WholeWords => Load(snd) = MaxCredits)
      BY DEF Load, Credits
    <3>3. WholeWords => Padded(n) = len
      BY <1>5 DEF WholeWords, len
    <3>4. Load(v) = Load(snd) + (Padded(n) - len)
      BY <1>3, <1>5, <1>7, <2>2, <3>1, <3>2
    <3>5. Load(snd) \in Int
      BY <1>3, <1>7, <3>2
    <3>6. Load(v) >= MaxCredits
      BY <1>5, <1>6, <3>2, <3>4, <3>5
    <3>7. WholeWords => Load(v) = MaxCredits
      BY <1>5, <1>6, <3>2, <3>3, <3>4, <3>5
    <3> QED
      BY <2>c, <2>13, <3>6, <3>7 DEF Credits
  <2>16. Keeps(snd, n - 1, v, n)
    BY <1>8, <2>9, <2>11, <2>12, <2>13, <2>15 DEF Keeps
  <2>17. MarksFrom(snd, v, {})
    <3> SUFFICES ASSUME NEW i \in 1..Len(v.pending), v.pending[i].gap = GapAcked
                 PROVE  \E j \in 1..Len(snd.pending) : /\ snd.pending[j].n = v.pending[i].n
                                                       /\ snd.pending[j].gap = GapAcked
      BY DEF MarksFrom
    <3>1. i \in 1..P \/ i = P + 1
      BY <1>3, <2>4, <2>9
    <3>2. i # P + 1
      BY <2>3, <2>4, <2>9 DEF GapAcked
    <3> QED
      BY <2>4, <2>9, <3>1, <3>2
  <2> QED
    BY <2>11, <2>16, <2>17 DEF v
<1> QED
  BY <1>9, <1>10

-----------------------------------------------------------------------------
(* TypeOK, WindowConserved and NoStuckSend.                                *)

\* The sender: its queues hold, in order, the last chunks sent, and the credits add up.
SenderInv ==
  /\ next \in 1..(Chunks + 1) /\ snd \in SndType /\ data \in [C -> 0..MaxCopies]
  /\ sacks \subseteq Sack
  /\ Lined(snd, next - 1) /\ Credits(snd) /\ NoStuckSend

\* Copies in flight stay within their bound.
LEMMA TransmitType ==
  ASSUME data \in [C -> 0..MaxCopies], NEW o
  PROVE  Transmit(o) \in [C -> 0..MaxCopies]
<1>1. MaxCopies \in Nat
  BY SctpAssumption
<1>2. \A n \in C : Lesser(data[n] + 1, MaxCopies) \in 0..MaxCopies
  BY <1>1 DEF Lesser
<1> QED
  BY <1>2 DEF Transmit

\* A SACK is one.
LEMMA SackOfType ==
  ASSUME NEW r \in RcvType
  PROVE  SackOf(r) \in Sack
<1> DEFINE above == {t \in {Tsn(n) : n \in r.held} : t > r.userTSN}
<1>1. above \subseteq Tsns
  <2>1. \A n \in r.held : n \in C
    BY DEF RcvType
  <2>2. \A n \in r.held : Tsn(n) \in Tsns
    BY <2>1, TsnType
  <2> QED
    BY <2>2
<1>2. /\ SackOf(r).cum = r.intsn /\ SackOf(r).blocks \subseteq [start : above, end : above]
      /\ SackOf(r) = [cum |-> SackOf(r).cum, blocks |-> SackOf(r).blocks]
  BY DEF SackOf
<1>3. [start : above, end : above] \subseteq [start : Tsns, end : Tsns]
  <2> HIDE DEF above
  <2> QED
    BY <1>1
<1>4. SackOf(r).cum \in Tsns /\ SackOf(r).blocks \in SUBSET [start : Tsns, end : Tsns]
  <2>1. r.intsn \in Tsns
    BY DEF RcvType
  <2> HIDE DEF above
  <2> QED
    BY <1>2, <1>3, <2>1
<1> QED
  BY <1>2, <1>4 DEF Sack

\* SACKs in flight stay well-formed.
LEMMA SacksType ==
  ASSUME RcvOK, sacks \subseteq Sack, [Next]_vars
  PROVE  sacks' \subseteq Sack
<1>1. \A r \in RcvType : SendSack(r) \subseteq Sack
  BY SackOfType DEF SendSack
<1>2. CASE sacks' \subseteq sacks
  BY <1>2
<1>3. CASE Pause
  BY <1>3 DEF Pause
<1>4. CASE Resume
  BY <1>4 DEF Resume
<1>5. ASSUME NEW n \in C, ReceiveData(n) PROVE sacks' \subseteq Sack
  <2>1. Tsn(n) \in Tsns
    BY TsnType
  <2>2. rcv \in RcvType /\ [rcv EXCEPT !.intsn = Tsn(n)] \in RcvType
    BY <2>1 DEF RcvOK, RcvType
  <2>3. ASSUME NEW r \in RcvType, AddPacketToHoldingQueue(n, r) PROVE sacks' \subseteq Sack
    BY <1>1, <2>3, HoldIs
  <2>4. ASSUME NEW stop, DeliverNext(n, stop) PROVE sacks' \subseteq Sack
    <3>1. PICK a \in Tsns : sacks' = SendSack([rcv EXCEPT !.intsn = a, !.userTSN = Tsn(n)])
      BY <2>4, DeliverNextIs
    <3>2. [rcv EXCEPT !.intsn = a, !.userTSN = Tsn(n)] \in RcvType
      BY <2>1, <3>1 DEF RcvOK, RcvType
    <3> QED
      BY <1>1, <3>1, <3>2
  <2>5. CASE Duplicate
    BY <1>1, <2>2, <2>5 DEF Duplicate
  <2> QED
    BY <1>5, <2>2, <2>3, <2>4, <2>5, DataCases
<1> QED
  BY <1>2, <1>3, <1>4, <1>5, ReceiverSteps

\* A handler of the sender ends with v, which keeps what Keeps says.
LEMMA SenderEnds ==
  ASSUME SenderInv, NEW v, NEW m \in 0..Chunks, SenderIs(v), Keeps(snd, next - 1, v, m)
  PROVE  /\ snd' \in SndType /\ data' \in [C -> 0..MaxCopies]
         /\ Lined(snd', m) /\ Credits(snd') /\ NoStuckSend' /\ Gone(snd', m) = Gone(v, m)
         /\ \A K : MarksFrom(snd, v, K) => MarksFrom(snd, snd', K)
<1>1. v \in SType /\ Lined(v, m) /\ Credits(v) /\ (v.pending = <<>> => v.holding = <<>>)
  BY DEF Keeps
<1>2. Len(v.pending) <= Chunks
  <2>1. /\ Len(v.pending) \in Nat /\ Len(v.holding) \in Nat
        /\ m - Len(v.pending) - Len(v.holding) \in Nat
    BY <1>1, LenProperties DEF SType, Lined, Gone
  <2> QED
    BY <2>1, Constants
<1>3. snd' \in SndType /\ Alike(snd', v) /\ data' = Transmit(v.out)
  BY <1>1, <1>2, SenderIsType
<1>4. data' \in [C -> 0..MaxCopies]
  BY <1>3, TransmitType DEF SenderInv
<1>5. PICK x \in SndType : x = snd'
  BY <1>3
<1>6. Alike(x, v) /\ x.pending \in Seq(SPacket) /\ v.pending \in Seq(SPacket)
  <2>1. x.pending \in Seq(Pkt) /\ v.pending \in Seq(SPacket)
    BY <1>1 DEF SndType, SType
  <2> QED
    BY <1>3, <1>5, <2>1, PktIs
<1>7. /\ Lined(x, m) /\ Credits(x) /\ Gone(x, m) = Gone(v, m)
      /\ x.pending = <<>> => x.holding = <<>>
  BY <1>1, <1>6, AlikeIs DEF Alike
<1>8. NoStuckSend'
  BY <1>5, <1>7 DEF NoStuckSend
<1>9. \A K : MarksFrom(snd, v, K) => MarksFrom(snd, x, K)
  BY <1>6 DEF MarksFrom, Alike
<1>10. /\ Lined(snd', m) /\ Credits(snd') /\ Gone(snd', m) = Gone(v, m)
       /\ \A K : MarksFrom(snd, v, K) => MarksFrom(snd, snd', K)
  BY <1>5, <1>7, <1>9
<1> QED
  BY <1>3, <1>4, <1>8, <1>10

\* Steps that are not the sender's leave it alone.
LEMMA SenderSteps ==
  ASSUME SenderInv, [Next]_vars
  PROVE  \/ /\ UNCHANGED <<next, snd>> /\ data' \in [C -> 0..MaxCopies]
         \/ SctpSendData \/ SctpResent \/ \E k \in sacks : ReceiveSack(k)
<1>1. MaxCopies \in Nat /\ data \in [C -> 0..MaxCopies]
  BY SctpAssumption DEF SenderInv
<1>2. ASSUME NEW n \in C, data[n] > 0 PROVE [data EXCEPT ![n] = @ - 1] \in [C -> 0..MaxCopies]
  <2>1. data[n] - 1 \in 0..MaxCopies
    BY <1>1, <1>2
  <2> QED
    BY <1>1, <2>1
<1>3. CASE UNCHANGED vars
  BY <1>1, <1>3 DEF vars
<1>4. CASE Pause \/ Resume
  BY <1>1, <1>4 DEF Pause, Resume
<1>5. ASSUME NEW n \in C, ReceiveData(n) \/ LoseData(n)
      PROVE  UNCHANGED <<next, snd>> /\ data' \in [C -> 0..MaxCopies]
  <2>1. data[n] > 0 /\ data' = [data EXCEPT ![n] = @ - 1] /\ UNCHANGED <<next, snd>>
    <3>1. CASE ReceiveData(n)
      BY <3>1 DEF ReceiveData
    <3>2. CASE LoseData(n)
      BY <3>2 DEF LoseData
    <3> QED
      BY <1>5, <3>1, <3>2
  <2> QED
    BY <1>2, <2>1
<1>6. CASE \E k \in sacks : LoseSack(k)
  BY <1>1, <1>6 DEF LoseSack
<1> QED
  BY <1>3, <1>4, <1>5, <1>6 DEF Next

\* What a step does to the queues: m chunks were sent before it, and the step acknowledges
\* and marks only what a SACK on its way says.
Settles ==
  /\ Gone(snd', next' - 1) >= Gone(snd, next - 1)
  /\ \/ Gone(snd', next' - 1) = Gone(snd, next - 1) /\ MarksFrom(snd, snd', {})
     \/ \E k \in sacks :
          /\ \A n \in C : Gone(snd, next - 1) < n /\ n <= Gone(snd', next' - 1) => Tsn(n) <= k.cum
          /\ NoWrap => MarksFrom(snd, snd', {n \in InBlocks(k) : Tsn(n) > k.cum})

\* Every step keeps SenderInv, and settles only what a SACK says.
LEMMA SenderStep ==
  ASSUME RcvOK, SenderInv, [Next]_vars
  PROVE  SenderInv' /\ Settles
<1> DEFINE m == next - 1
<1>1. /\ next \in 1..(Chunks + 1) /\ snd \in SndType /\ Lined(snd, m) /\ Credits(snd)
      /\ NoStuckSend /\ Chunks \in Nat /\ sacks' \subseteq Sack /\ sacks \subseteq Sack
  BY SacksType, Constants DEF SenderInv
<1>2. m \in 0..Chunks /\ m \in Nat
  BY <1>1
<1>3. CASE UNCHANGED <<next, snd>> /\ data' \in [C -> 0..MaxCopies]
  <2>1. SenderInv'
    BY <1>1, <1>3 DEF SenderInv, NoStuckSend
  <2>2. Gone(snd, m) \in Int
    BY <1>1 DEF Lined
  <2>3. Gone(snd', next' - 1) = Gone(snd, m)
    BY <1>3
  <2>4. MarksFrom(snd, snd', {})
    BY <1>3 DEF MarksFrom
  <2> QED
    BY <2>1, <2>2, <2>3, <2>4 DEF Settles
<1>4. CASE SctpSendData
  <2>1. next \in C /\ next' = next + 1 /\ SenderIs(SctpSendDataEx(next))
    BY <1>1, <1>4 DEF SctpSendData, C
  <2>2. PICK v : v = SctpSendDataEx(next)
    OBVIOUS
  <2>3. /\ Keeps(snd, next - 1, v, next) /\ Gone(v, next) = Gone(snd, next - 1)
        /\ MarksFrom(snd, v, {})
    BY <1>1, <2>1, <2>2, SendDoes
  <2>4. next \in 0..Chunks /\ SenderIs(v)
    BY <2>1, <2>2 DEF C
  <2>5. /\ snd' \in SndType /\ data' \in [C -> 0..MaxCopies]
        /\ Lined(snd', next) /\ Credits(snd') /\ NoStuckSend' /\ Gone(snd', next) = Gone(v, next)
        /\ MarksFrom(snd, snd', {})
    BY <2>3, <2>4, SenderEnds
  <2>6. next' \in 1..(Chunks + 1) /\ next' - 1 = next
    BY <1>1, <2>1, <2>4
  <2>7. SenderInv'
    BY <1>1, <2>5, <2>6 DEF SenderInv
  <2>8. Gone(snd, next - 1) \in Int
    BY <1>1 DEF Lined
  <2> QED
    BY <2>3, <2>5, <2>6, <2>7, <2>8 DEF Settles
<1>5. CASE SctpResent
  <2>1. PICK cut \in 0..(Rank(snd.pending) - 1) :
          LET w == [Work(snd) EXCEPT !.t3 = FALSE, !.senderCredits = MTU,
                                     !.ssthresh = Shrunk(snd), !.cwnd = MTU]
          IN SenderIs(ResendAll(w, cut))
    BY <1>5 DEF SctpResent
  <2>2. snd.pending # <<>> /\ next' = next
    BY <1>5 DEF SctpResent
  <2>3. PICK v : v = ResendAll([Work(snd) EXCEPT !.t3 = FALSE, !.senderCredits = MTU,
                                                 !.ssthresh = Shrunk(snd), !.cwnd = MTU], cut)
    OBVIOUS
  <2>4. Keeps(snd, m, v, m) /\ Gone(v, m) = Gone(snd, m) /\ MarksFrom(snd, v, {})
    BY <1>1, <1>2, <2>2, <2>3, ResentDoes
  <2>5. SenderIs(v)
    BY <2>1, <2>3
  <2>6. /\ snd' \in SndType /\ data' \in [C -> 0..MaxCopies]
        /\ Lined(snd', m) /\ Credits(snd') /\ NoStuckSend' /\ Gone(snd', m) = Gone(v, m)
        /\ MarksFrom(snd, snd', {})
    BY <1>2, <2>4, <2>5, SenderEnds
  <2>7. SenderInv'
    BY <1>1, <2>2, <2>6 DEF SenderInv
  <2>8. Gone(snd, m) \in Int
    BY <1>1 DEF Lined
  <2> QED
    BY <2>2, <2>4, <2>6, <2>7, <2>8 DEF Settles
<1>6. ASSUME NEW k \in sacks, ReceiveSack(k) PROVE SenderInv' /\ Settles
  <2>1. k \in Sack /\ next' = next
    BY <1>1, <1>6 DEF ReceiveSack
  <2>2. PICK v : v = SackHandled(k)
    OBVIOUS
  <2>3. SenderIs(v)
    BY <1>6, <2>2 DEF ReceiveSack
  <2>4. /\ Keeps(snd, m, v, m)
        /\ \A n \in C : Gone(snd, m) < n /\ n <= Gone(v, m) => Tsn(n) <= k.cum
        /\ NoWrap => MarksFrom(snd, v, {n \in InBlocks(k) : Tsn(n) > k.cum})
    BY <1>1, <1>2, <2>1, <2>2, SackDoes
  <2>5. /\ snd' \in SndType /\ data' \in [C -> 0..MaxCopies]
        /\ Lined(snd', m) /\ Credits(snd') /\ NoStuckSend' /\ Gone(snd', m) = Gone(v, m)
        /\ \A K : MarksFrom(snd, v, K) => MarksFrom(snd, snd', K)
    BY <1>2, <2>3, <2>4, SenderEnds
  <2>6. SenderInv'
    BY <1>1, <2>1, <2>5 DEF SenderInv
  <2>7. Gone(snd', next' - 1) >= Gone(snd, next - 1)
    BY <2>1, <2>4, <2>5 DEF Keeps
  <2>8. /\ \A n \in C : Gone(snd, next - 1) < n /\ n <= Gone(snd', next' - 1) => Tsn(n) <= k.cum
        /\ NoWrap => MarksFrom(snd, snd', {n \in InBlocks(k) : Tsn(n) > k.cum})
    BY <2>1, <2>4, <2>5
  <2> QED
    BY <2>6, <2>7, <2>8 DEF Settles
<1> QED
  BY <1>3, <1>4, <1>5, <1>6, SenderSteps

\* The sender's invariant holds at the start.
LEMMA SenderInit == Init => SenderInv
<1> SUFFICES ASSUME Init PROVE SenderInv
  OBVIOUS
<1>1. MTU \in Nat /\ MaxCredits \in Nat /\ Chunks \in Nat /\ MaxCopies \in Nat /\ MTU >= 1260
  BY SctpAssumption
<1>2. PICK x \in Nat, t \in Tsns, z \in Int : x = 4 * MTU /\ t = 0 /\ z = 0 /\ x >= MTU
  BY <1>1, Constants DEF Tsns
<1>3. snd = [pending |-> <<>>, holding |-> <<>>, receiverCredits |-> MaxCredits,
             senderCredits |-> x, cwnd |-> x, ssthresh |-> x,
             partial |-> z, exit |-> t, t3 |-> FALSE]
  BY <1>2 DEF Init
<1>4. <<>> \in Seq(Pkt) /\ <<>> \in Seq(C) /\ Len(<<>>) = 0
  BY EmptySeq
<1>5. /\ snd \in SndType /\ snd.pending = <<>> /\ snd.holding = <<>>
      /\ snd.receiverCredits = MaxCredits /\ snd.senderCredits = x /\ snd.cwnd = x
  BY <1>1, <1>3, <1>4 DEF SndType
<1>6. next = 1 /\ next \in 1..(Chunks + 1) /\ next - 1 = 0
  BY <1>1 DEF Init
<1>7. data \in [C -> 0..MaxCopies] /\ sacks \subseteq Sack
  BY <1>1 DEF Init
<1>8. Len(snd.pending) = 0 /\ Len(snd.holding) = 0
  BY <1>4, <1>5
<1>9. Lined(snd, next - 1)
  <2>1. Gone(snd, 0) = 0 - 0 - 0
    BY <1>8 DEF Gone
  <2>2. Gone(snd, 0) \in Nat
    BY <2>1
  <2> QED
    BY <1>6, <1>8, <2>2 DEF Lined
<1>10. Credits(snd)
  <2>1. ChunksOf(<<>>) = <<>>
    BY DEF ChunksOf
  <2>2. Load(snd) = MaxCredits
    BY <1>1, <1>5, <2>1, BytesEmpty DEF Load
  <2> QED
    BY <1>1, <1>2, <1>5, <2>2 DEF Credits
<1> QED
  BY <1>5, <1>6, <1>7, <1>9, <1>10 DEF SenderInv, NoStuckSend

\* Spec => [](RcvOK /\ SenderInv), wrapping TSNs included.
LEMMA SenderInvariant == Spec => [](RcvOK /\ SenderInv)
<1>1. Init => RcvOK /\ SenderInv
  BY RcvOKInit, SenderInit
<1>2. (RcvOK /\ SenderInv) /\ [Next]_vars => (RcvOK /\ SenderInv)'
  BY RcvOKStep, SenderStep
<1> QED
  BY <1>1, <1>2, PTL DEF Spec

\* The type invariant, for every first TSN, wrap-around included: no credit counter of the
\* sender goes below zero, no place or gap counter leaves its range.
THEOREM TypeCorrect == Spec => []TypeOK
<1>1. RcvOK /\ SenderInv => TypeOK
  BY DEF RcvOK, SenderInv, TypeOK, RcvType, SndType, Pkt, Sack
<1> QED
  BY <1>1, SenderInvariant, PTL

\* Chunks that wait for credits always wait for something in flight, whatever SACKs and
\* retransmissions do to the credits: with nothing in flight the window is whole, the
\* congestion window is at least one packet, and both let the first chunk go.
THEOREM NeverStuck == Spec => []NoStuckSend
<1>1. RcvOK /\ SenderInv => NoStuckSend
  BY DEF SenderInv
<1> QED
  BY <1>1, SenderInvariant, PTL

\* The receiver's window is neither lost nor made up by sends, SACKs, retransmissions and
\* releases, when all chunks are of whole words.
THEOREM WindowCorrect ==
  ASSUME WholeWords
  PROVE  Spec => []WindowConserved
<1>1. RcvOK /\ SenderInv => WindowConserved
  BY DEF SenderInv, Credits, Load, WindowConserved
<1> QED
  BY <1>1, SenderInvariant, PTL

\* Without that hypothesis the window only grows.
THEOREM WindowNeverShrinks ==
  Spec => [](snd.receiverCredits + Bytes(ChunksOf(snd.pending)) >= MaxCredits)
<1>1. RcvOK /\ SenderInv => snd.receiverCredits + Bytes(ChunksOf(snd.pending)) >= MaxCredits
  BY DEF SenderInv, Credits, Load
<1> QED
  BY <1>1, SenderInvariant, PTL

-----------------------------------------------------------------------------
(* NothingForgotten.                                                       *)

\* The transfer is short enough for the 16-bit offsets of the gap blocks.  A paused receiver
\* also reports blocks below its cumulative TSN: their offsets are read as 65536 more, which
\* must be beyond every chunk that can be in flight, however late the SACK is.
ShortOffsets == Chunks < 65536

\* TSNs of the transfer, and the one before it.
Spans(t) == t \in Int /\ FirstTsn - 1 <= t /\ t <= LastTsn(Chunks)

\* Bounds of the constants, as integers.
LEMMA Bounds ==
  ASSUME NoWrap
  PROVE  /\ FirstTsn \in Int /\ Chunks \in Int /\ TsnRange \in Int /\ FirstTsn >= 1
         /\ FirstTsn + Chunks < TsnRange /\ TsnRange >= 65536 /\ Chunks >= 1
<1>1. TsnRange \in Nat /\ TsnRange % 65536 = 0 /\ TsnRange > Chunks /\ Chunks \in Nat \ {0}
  BY SctpAssumption
<1>2. TsnRange >= 65536
  BY <1>1
<1> QED
  BY <1>1, <1>2, Constants DEF NoWrap, Tsns

\* Remainders of numbers within one period of the range.
LEMMA ModIs ==
  ASSUME NEW x \in Int, NEW y \in Nat, y > 0
  PROVE  /\ 0 <= x /\ x < y => x % y = x
         /\ y <= x /\ x < y + y => x % y = x - y
         /\ x < 0 /\ 0 <= x + y => x % y = x + y
OBVIOUS

\* An offset that is not negative is read as it was meant; one that is falls outside of
\* the transfer's TSNs, or below what was meant.
LEMMA WireIs ==
  ASSUME NoWrap, ShortOffsets, NEW c, NEW x, Spans(c), Spans(x)
  PROVE  /\ c <= x => Wire(c, x) = x
         /\ x < c => Wire(c, x) = IF x + 65536 < TsnRange THEN x + 65536
                                  ELSE x + 65536 - TsnRange
<1>0. /\ FirstTsn \in Int /\ Chunks \in Int /\ TsnRange \in Int /\ FirstTsn >= 1
      /\ FirstTsn + Chunks < TsnRange /\ TsnRange >= 65536 /\ Chunks >= 1 /\ Chunks < 65536
      /\ c \in Int /\ x \in Int /\ FirstTsn - 1 <= c /\ c <= FirstTsn + Chunks - 1
      /\ FirstTsn - 1 <= x /\ x <= FirstTsn + Chunks - 1
  BY Bounds DEF Spans, LastTsn, ShortOffsets
<1>1. TsnRange \in Nat /\ TsnRange > 0
  BY <1>0
<1>2. CASE c <= x
  <2>1. PICK d \in Int : d = x - c
    BY <1>0
  <2>2. 0 <= d /\ d < 65536
    BY <1>0, <1>2, <2>1
  <2>3. d % 65536 = d
    BY <2>2, ModIs
  <2>4. c + d = x
    BY <1>0, <2>1
  <2>5. x % TsnRange = x
    BY <1>0, <1>1, ModIs
  <2>6. Wire(c, x) = (c + d) % TsnRange
    BY <2>1, <2>3 DEF Wire
  <2> QED
    BY <1>0, <1>2, <2>4, <2>5, <2>6
<1>3. CASE x < c
  <2>1. PICK d \in Int : d = x - c
    BY <1>0
  <2>2. d < 0 /\ 0 <= d + 65536
    BY <1>0, <1>3, <2>1
  <2>3. d % 65536 = d + 65536
    BY <2>2, ModIs
  <2>4. PICK y \in Int : y = x + 65536
    BY <1>0
  <2>5. c + (d + 65536) = y
    BY <1>0, <2>1, <2>4
  <2>6. Wire(c, x) = y % TsnRange
    BY <2>1, <2>3, <2>5 DEF Wire
  <2>7. y >= 0 /\ y < TsnRange + TsnRange
    BY <1>0, <2>4
  <2>8. y % TsnRange = IF y < TsnRange THEN y ELSE y - TsnRange
    BY <1>0, <1>1, <2>7, ModIs
  <2> QED
    BY <1>0, <1>3, <2>4, <2>6, <2>8
<1> QED
  BY <1>0, <1>2, <1>3

\* A TSN above cum that the sender finds in a block is one of the block.
LEMMA InBlock ==
  ASSUME NoWrap, ShortOffsets, NEW c, NEW x, NEW y, NEW t,
         Spans(c), Spans(x), Spans(y), Spans(t), x >= FirstTsn, x <= y, t > c,
         Wire(c, x) <= t, t <= Wire(c, y)
  PROVE  x <= t /\ t <= y
<1>0. /\ FirstTsn \in Int /\ Chunks \in Int /\ TsnRange \in Int /\ FirstTsn >= 1
      /\ FirstTsn + Chunks < TsnRange /\ TsnRange >= 65536 /\ Chunks >= 1 /\ Chunks < 65536
      /\ c \in Int /\ x \in Int /\ y \in Int /\ t \in Int
      /\ t <= FirstTsn + Chunks - 1 /\ c <= FirstTsn + Chunks - 1
  BY Bounds DEF Spans, LastTsn, ShortOffsets
<1>1. CASE c <= y
  <2>1. Wire(c, y) = y
    BY <1>1, WireIs
  <2>2. c <= x => Wire(c, x) = x
    BY WireIs
  <2> QED
    BY <1>0, <1>1, <2>1, <2>2
<1>2. CASE y < c
  <2>1. x < c
    BY <1>0, <1>2
  <2>2. /\ Wire(c, x) = IF x + 65536 < TsnRange THEN x + 65536 ELSE x + 65536 - TsnRange
        /\ Wire(c, y) = IF y + 65536 < TsnRange THEN y + 65536 ELSE y + 65536 - TsnRange
    BY <1>2, <2>1, WireIs
  <2> QED
    BY <1>0, <1>2, <2>1, <2>2
<1> QED
  BY <1>0, <1>1, <1>2

\* What a SACK says is so: chunks up to cum are of S, those of its blocks are of F.
SackSafe(k, S, F) ==
  /\ Spans(k.cum)
  /\ \A n \in C : Tsn(n) <= k.cum => n \in S
  /\ \A b \in k.blocks :
       /\ Spans(b.start) /\ Spans(b.end) /\ FirstTsn <= b.start /\ b.start <= b.end
       /\ \A n \in C : b.start <= Tsn(n) /\ Tsn(n) <= b.end => n \in F

\* What a SACK says stays true when more has arrived.
LEMMA SackSafeMore ==
  ASSUME NEW S, NEW F, NEW S2, NEW F2, S \subseteq S2, F \subseteq F2, NEW k, SackSafe(k, S, F)
  PROVE  SackSafe(k, S2, F2)
BY DEF SackSafe

\* The TSN of a chunk is one of the transfer.
LEMMA TsnSpans == ASSUME NoWrap, NEW n \in C PROVE Spans(Tsn(n)) /\ FirstTsn <= Tsn(n)
<1>1. Tsn(n) = FirstTsn + n - 1
  BY Plain
<1> QED
  BY <1>1, Bounds DEF Spans, LastTsn, C

\* The sender marks nothing but what the blocks say.
LEMMA BlocksSafe ==
  ASSUME NoWrap, ShortOffsets, NEW S, NEW F, NEW k, SackSafe(k, S, F),
         NEW n \in InBlocks(k), Tsn(n) > k.cum
  PROVE  n \in F
<1>1. PICK b \in k.blocks : Wire(k.cum, b.start) <= Tsn(n) /\ Tsn(n) <= Wire(k.cum, b.end)
  BY DEF InBlocks
<1>2. n \in C
  BY DEF InBlocks
<1>3. /\ Spans(b.start) /\ Spans(b.end) /\ FirstTsn <= b.start /\ b.start <= b.end
      /\ b.start <= Tsn(n) /\ Tsn(n) <= b.end => n \in F
  BY <1>1, <1>2 DEF SackSafe
<1>4. Spans(k.cum) /\ Spans(Tsn(n))
  BY <1>2, TsnSpans DEF SackSafe
<1>5. b.start <= Tsn(n) /\ Tsn(n) <= b.end
  BY <1>1, <1>3, <1>4, InBlock
<1> QED
  BY <1>3, <1>5

\* The blocks of a SACK are runs of held chunks.
LEMMA SackOfSafe ==
  ASSUME NoWrap, NEW r \in RcvType, NEW S, NEW F, Spans(r.intsn),
         \A n \in C : Tsn(n) <= r.intsn => n \in S, r.held \subseteq F
  PROVE  SackSafe(SackOf(r), S, F)
<1> DEFINE k == SackOf(r)
           above == {t \in {Tsn(n) : n \in r.held} : t > r.userTSN}
<1>1. k.cum = r.intsn
  BY DEF SackOf
<1>2. ASSUME NEW b \in k.blocks
      PROVE  /\ b.start \in above /\ b.end \in above /\ b.start <= b.end
             /\ b.start..b.end \subseteq above
  BY <1>2 DEF SackOf
<1>3. r.held \subseteq C
  BY DEF RcvType
<1>4. \A t \in above : Spans(t) /\ FirstTsn <= t
  BY <1>3, TsnSpans
<1>5. ASSUME NEW n \in C, Tsn(n) \in above PROVE n \in r.held
  <2>1. PICK m \in r.held : Tsn(n) = Tsn(m)
    BY <1>5
  <2>2. m \in C
    BY <1>3
  <2>3. Tsn(n) = FirstTsn + n - 1 /\ Tsn(m) = FirstTsn + m - 1
    BY <2>2, Plain
  <2>n. n \in Int /\ m \in Int /\ FirstTsn \in Int
    BY <2>2, Bounds DEF C
  <2>4. n = m
    <3>1. FirstTsn + n - 1 = FirstTsn + m - 1
      BY <2>1, <2>3
    <3> QED
      BY <2>n, <3>1
  <2> QED
    BY <2>4
<1> HIDE DEF k, above
<1>6. ASSUME NEW b \in k.blocks
      PROVE  /\ Spans(b.start) /\ Spans(b.end) /\ FirstTsn <= b.start /\ b.start <= b.end
             /\ \A n \in C : b.start <= Tsn(n) /\ Tsn(n) <= b.end => n \in F
  <2>1. /\ b.start \in above /\ b.end \in above /\ b.start <= b.end
        /\ b.start..b.end \subseteq above
    BY <1>2
  <2>2. Spans(b.start) /\ Spans(b.end) /\ FirstTsn <= b.start
    BY <1>4, <2>1
  <2>3. ASSUME NEW n \in C, b.start <= Tsn(n), Tsn(n) <= b.end PROVE n \in F
    <3>1. Tsn(n) \in Int /\ b.start \in Int /\ b.end \in Int
      BY <2>2, TsnSpans DEF Spans
    <3>2. Tsn(n) \in b.start..b.end
      BY <2>3, <3>1
    <3> QED
      BY <1>5, <2>1, <3>2
  <2> QED
    BY <2>1, <2>2, <2>3
<1>7. SackSafe(k, S, F)
  BY <1>1, <1>6 DEF SackSafe
<1> QED
  BY <1>7 DEF k

\* The chunks that were delivered or are held, and those with the ones that a full hold
\* buffer refused after they were taken for received.
Arrived == {n \in C : n <= got \/ n \in rcv.held}

Accounted == Arrived \cup dropped

\* What the receiver, a SACK on its way and the sender take for received has arrived.
SafeInv ==
  /\ Spans(rcv.intsn) /\ \A n \in C : Tsn(n) <= rcv.intsn => n \in Accounted
  /\ \A k \in sacks : SackSafe(k, Accounted, Arrived)
  /\ \A n \in C : n <= Gone(snd, next - 1) => n \in Accounted
  /\ \A i \in 1..Len(snd.pending) : snd.pending[i].gap = GapAcked => snd.pending[i].n \in Arrived

\* SACKs in flight stay true, and one that is added is.
LEMMA SendSackSafe ==
  ASSUME NoWrap, NEW S, NEW F, \A k \in sacks : SackSafe(k, S, F),
         NEW r \in RcvType, Spans(r.intsn), \A n \in C : Tsn(n) <= r.intsn => n \in S,
         r.held \subseteq F
  PROVE  \A k \in SendSack(r) : SackSafe(k, S, F)
<1>1. SackSafe(SackOf(r), S, F)
  BY SackOfSafe
<1> QED
  BY <1>1 DEF SendSack

\* The receiver's part: S and F are what is accounted for and has arrived after the step.
LEMMA ReceiverSafe ==
  ASSUME NoWrap, RcvOK, OrderInv, SafeInv, [Next]_vars, NEW S, NEW F,
         S = Accounted', F = Arrived', Accounted \subseteq S, Arrived \subseteq F
  PROVE  /\ Spans(rcv'.intsn) /\ \A n \in C : Tsn(n) <= rcv'.intsn => n \in S
         /\ \A k \in sacks' : SackSafe(k, S, F)
<1>1. \A k \in sacks : SackSafe(k, S, F)
  BY SackSafeMore DEF SafeInv
<1>2. Spans(rcv.intsn) /\ \A n \in C : Tsn(n) <= rcv.intsn => n \in S
  BY DEF SafeInv
<1>3. rcv \in RcvType /\ rcv.held \subseteq C /\ rcv.held \subseteq F
  BY DEF RcvOK, RcvType, Arrived
<1>4. CASE UNCHANGED rcv /\ sacks' \subseteq sacks
  BY <1>1, <1>2, <1>4
<1>5. CASE Pause
  <2>1. rcv'.intsn = rcv.intsn /\ sacks' = sacks
    BY <1>3, <1>5 DEF Pause, RcvType
  <2> QED
    BY <1>1, <1>2, <2>1
<1>6. CASE Resume
  <2>1. PICK w \in RType, r \in RType, again \in BOOLEAN :
           /\ r = ResumeAll(w) /\ w.intsn = rcv.intsn /\ w.userTSN = rcv.userTSN
           /\ rcv' = [intsn |-> r.intsn, userTSN |-> r.userTSN, held |-> r.held,
                      paused |-> again]
           /\ sacks' = sacks
    BY <1>6, ResumeIs
  <2>2. Moved(w, r)
    BY <2>1, ResumeLoop DEF OrderInv
  <2>3. rcv'.intsn = rcv.intsn
    BY <2>1, <2>2 DEF Moved
  <2> QED
    BY <1>1, <1>2, <2>1, <2>3
<1>7. ASSUME NEW n \in C, ReceiveData(n)
      PROVE  /\ Spans(rcv'.intsn) /\ \A m \in C : Tsn(m) <= rcv'.intsn => m \in S
             /\ \A k \in sacks' : SackSafe(k, S, F)
  <2>1. /\ Tsn(n) \in Tsns /\ Spans(Tsn(n)) /\ FirstTsn \in Int /\ FirstTsn <= Tsn(n)
        /\ \A m \in C : m \in Int /\ Tsn(m) = FirstTsn + m - 1
    BY TsnType, TsnSpans, Plain, Bounds DEF C
  <2>2. ASSUME Tsn(n) = After(rcv.intsn)
        PROVE  \A m \in C : Tsn(m) <= Tsn(n) => m = n \/ m \in S
    <3>1. After(rcv.intsn) = rcv.intsn + 1 /\ rcv.intsn \in Int
      BY <1>3, Plain DEF RcvType, OrderInv, Tsns
    <3>2. ASSUME NEW m \in C, Tsn(m) <= Tsn(n), m # n PROVE Tsn(m) <= rcv.intsn
      BY <2>1, <2>2, <3>1, <3>2
    <3> QED
      BY <1>2, <3>2
  <2>3. ASSUME NEW r \in RcvType, AddPacketToHoldingQueue(n, r), Spans(r.intsn),
               r.held = rcv.held, \A m \in C : Tsn(m) <= r.intsn => m = n \/ m \in S,
               r.intsn = Tsn(n) \/ r = rcv
        PROVE  /\ Spans(rcv'.intsn) /\ \A m \in C : Tsn(m) <= rcv'.intsn => m \in S
               /\ \A k \in sacks' : SackSafe(k, S, F)
    <3>1. /\ rcv' \in RcvType /\ rcv'.intsn = r.intsn
          /\ \/ /\ rcv'.held = r.held \cup {n} /\ sacks' = SendSack(rcv')
             \/ /\ sacks' = sacks
                /\ dropped' = IF r.intsn = Tsn(n) THEN dropped \cup {n} ELSE dropped
      BY <2>3, HoldIs
    <3>2. n \in S \/ r = rcv
      BY <2>3, <3>1 DEF Accounted, Arrived
    <3>3. Spans(rcv'.intsn) /\ \A m \in C : Tsn(m) <= rcv'.intsn => m \in S
      BY <1>2, <2>3, <3>1, <3>2
    <3>4. PICK h \in RcvType : h = rcv'
      BY <3>1
    <3>5. h.held \subseteq F
      BY <3>4, <1>3 DEF Arrived, RcvType
    <3>6. \A k \in SendSack(h) : SackSafe(k, S, F)
      BY <1>1, <3>3, <3>4, <3>5, SendSackSafe
    <3> QED
      BY <1>1, <3>1, <3>3, <3>4, <3>6
  <2>4. CASE Tsn(n) = After(rcv.intsn) /\ AddPacketToHoldingQueue(n, [rcv EXCEPT !.intsn = Tsn(n)])
    <3>1. PICK r \in RcvType : r = [rcv EXCEPT !.intsn = Tsn(n)]
      BY <1>3, <2>1 DEF RcvType
    <3>2. r.intsn = Tsn(n) /\ r.held = rcv.held
      BY <1>3, <3>1 DEF RcvType
    <3> QED
      BY <2>1, <2>2, <2>3, <2>4, <3>1, <3>2
  <2>5. CASE AddPacketToHoldingQueue(n, rcv)
    BY <1>2, <1>3, <2>3, <2>5
  <2>6. CASE Duplicate
    <3>1. \A k \in SendSack(rcv) : SackSafe(k, S, F)
      BY <1>1, <1>2, <1>3, SendSackSafe
    <3> QED
      BY <1>2, <2>6, <3>1 DEF Duplicate
  <2>7. ASSUME NEW stop \in Stops, DeliverNext(n, stop), Tsn(n) = After(rcv.intsn),
               ~MustHold(Tsn(n))
        PROVE  /\ Spans(rcv'.intsn) /\ \A m \in C : Tsn(m) <= rcv'.intsn => m \in S
               /\ \A k \in sacks' : SackSafe(k, S, F)
    <3>1. PICK a \in Tsns :
            /\ FirstTsn <= a /\ a <= LastTsn(Chunks) /\ rcv'.intsn >= FirstTsn
            /\ sacks' = SendSack([rcv EXCEPT !.intsn = a, !.userTSN = Tsn(n)])
            /\ \A m \in C : Tsn(n) < Tsn(m) /\ Tsn(m) <= a => m \in rcv.held
            /\ rcv'.intsn \in {a, rcv'.userTSN}
      BY <2>7, DeliverNextDoes
    <3>2. OrderInv' /\ n <= got' /\ got' \in Int
      BY <2>7, DeliverNextDoes
    <3>3. Spans(a)
      BY <3>1, Bounds DEF Spans, Tsns
    <3>4. n \in S
      BY <3>2 DEF Accounted, Arrived
    <3>5. ASSUME NEW m \in C, Tsn(m) <= a PROVE m \in S
      <4>1. CASE Tsn(m) <= Tsn(n)
        BY <2>2, <2>7, <3>4, <4>1
      <4>2. CASE Tsn(n) < Tsn(m)
        <5>1. m \in rcv.held
          BY <3>1, <3>5, <4>2
        <5> QED
          BY <5>1 DEF Accounted, Arrived
      <4> QED
        BY <2>1, <4>1, <4>2
    <3>6. PICK r \in RcvType : r = [rcv EXCEPT !.intsn = a, !.userTSN = Tsn(n)]
      BY <1>3, <2>1 DEF RcvType
    <3>7. r.intsn = a /\ r.held = rcv.held
      BY <1>3, <3>6 DEF RcvType
    <3>8. \A k \in SendSack(r) : SackSafe(k, S, F)
      BY <1>1, <1>3, <3>3, <3>5, <3>7, SendSackSafe
    <3>9. CASE rcv'.intsn = rcv'.userTSN
      <4>1. rcv' \in RcvType /\ got' \in 0..Chunks
        BY RcvOKStep DEF RcvOK
      <4>2. PICK g \in 0..Chunks, u \in Tsns : g = got' /\ u = rcv'.userTSN
        BY <4>1 DEF RcvType
      <4>3. u <= LastTsn(g)
        BY <3>2, <4>2 DEF OrderInv, LastTsn
      <4>4. u \in Int /\ u <= FirstTsn + g - 1 /\ g <= Chunks /\ g \in Int /\ u >= FirstTsn
        BY <3>1, <3>9, <4>2, <4>3 DEF Tsns, LastTsn
      <4>5. Spans(u)
        BY <2>1, <4>4, Bounds DEF Spans, LastTsn
      <4>6. \A m \in C : Tsn(m) <= u => m <= g
        BY <2>1, <4>4
      <4>7. \A m \in C : m <= g => m \in S
        BY <4>2 DEF Accounted, Arrived
      <4> QED
        BY <3>1, <3>6, <3>8, <3>9, <4>2, <4>5, <4>6, <4>7
    <3>10. CASE rcv'.intsn = a
      BY <3>1, <3>3, <3>5, <3>6, <3>8, <3>10
    <3> QED
      BY <3>1, <3>9, <3>10
  <2> QED
    BY <1>7, <2>4, <2>5, <2>6, <2>7, DataCases
<1> QED
  BY <1>4, <1>5, <1>6, <1>7, ReceiverSteps

\* Every step keeps SafeInv.
LEMMA SafeStep ==
  ASSUME NoWrap, ShortOffsets, RcvOK, OrderInv, SenderInv, SafeInv, [Next]_vars
  PROVE  SafeInv'
<1>1. Advances /\ RcvOK'
  BY OrderStep, RcvOKStep
<1>2. PICK S, F, g, g2, x : /\ S = Accounted' /\ F = Arrived' /\ x = snd'
                            /\ g = Gone(snd, next - 1) /\ g2 = Gone(snd', next' - 1)
  OBVIOUS
<1>3. Arrived \subseteq F /\ Accounted \subseteq S
  <2>1. got \in Int /\ got' \in Int /\ got' >= got /\ \A n \in C : n \in Int
    BY <1>1 DEF RcvOK, C, Advances
  <2>2. Arrived \subseteq F
    BY <1>1, <1>2, <2>1 DEF Arrived, Advances
  <2> QED
    BY <1>1, <1>2, <2>2 DEF Accounted, Advances
<1>4. /\ Spans(rcv'.intsn) /\ \A n \in C : Tsn(n) <= rcv'.intsn => n \in S
      /\ \A k \in sacks' : SackSafe(k, S, F)
  BY <1>2, <1>3, ReceiverSafe
<1>5. Settles /\ SenderInv'
  BY SenderStep
<1>6. /\ g \in Int /\ g2 \in Int
      /\ \A n \in C : n <= g => n \in S
      /\ \A i \in 1..Len(snd.pending) : snd.pending[i].gap = GapAcked => snd.pending[i].n \in F
  <2>1. g \in Int /\ g2 \in Int
    BY <1>2, <1>5 DEF SenderInv, Lined
  <2> QED
    BY <1>2, <1>3, <2>1 DEF SafeInv
<1>7. /\ \A n \in C : n <= g2 => n \in S
      /\ \A i \in 1..Len(x.pending) : x.pending[i].gap = GapAcked => x.pending[i].n \in F
  <2>1. CASE g2 = g /\ MarksFrom(snd, x, {})
    <3>1. ASSUME NEW i \in 1..Len(x.pending), x.pending[i].gap = GapAcked
          PROVE  x.pending[i].n \in F
      <4>1. PICK j \in 1..Len(snd.pending) : /\ snd.pending[j].n = x.pending[i].n
                                             /\ snd.pending[j].gap = GapAcked
        BY <2>1, <3>1 DEF MarksFrom
      <4> QED
        BY <1>6, <4>1
    <3> QED
      BY <1>6, <2>1, <3>1
  <2>2. ASSUME NEW k \in sacks,
               \A n \in C : g < n /\ n <= g2 => Tsn(n) <= k.cum,
               MarksFrom(snd, x, {n \in InBlocks(k) : Tsn(n) > k.cum})
        PROVE  /\ \A n \in C : n <= g2 => n \in S
               /\ \A i \in 1..Len(x.pending) : x.pending[i].gap = GapAcked => x.pending[i].n \in F
    <3>1. SackSafe(k, S, F)
      BY <1>3, SackSafeMore DEF SafeInv
    <3>2. ASSUME NEW n \in C, n <= g2 PROVE n \in S
      <4>1. n \in Int
        BY DEF C
      <4>2. CASE n <= g
        BY <1>6, <4>2
      <4>3. CASE g < n
        BY <2>2, <3>1, <3>2, <4>3 DEF SackSafe
      <4> QED
        BY <1>6, <4>1, <4>2, <4>3
    <3>3. ASSUME NEW i \in 1..Len(x.pending), x.pending[i].gap = GapAcked
          PROVE  x.pending[i].n \in F
      <4>1. CASE x.pending[i].n \in {n \in InBlocks(k) : Tsn(n) > k.cum}
        BY <3>1, <4>1, BlocksSafe
      <4>2. CASE x.pending[i].n \notin {n \in InBlocks(k) : Tsn(n) > k.cum}
        <5>1. PICK j \in 1..Len(snd.pending) : /\ snd.pending[j].n = x.pending[i].n
                                               /\ snd.pending[j].gap = GapAcked
          BY <2>2, <3>3, <4>2 DEF MarksFrom
        <5> QED
          BY <1>6, <5>1
      <4> QED
        BY <4>1, <4>2
    <3> QED
      BY <3>2, <3>3
  <2>3. \/ g2 = g /\ MarksFrom(snd, x, {})
        \/ \E k \in sacks :
             /\ \A n \in C : g < n /\ n <= g2 => Tsn(n) <= k.cum
             /\ MarksFrom(snd, x, {n \in InBlocks(k) : Tsn(n) > k.cum})
    BY <1>2, <1>5 DEF Settles
  <2> QED
    BY <2>1, <2>2, <2>3
<1> QED
  BY <1>2, <1>4, <1>7 DEF SafeInv

\* SafeInv holds at the start.
LEMMA SafeInit == NoWrap /\ Init => SafeInv
<1> SUFFICES ASSUME NoWrap, Init PROVE SafeInv
  OBVIOUS
<1>1. rcv.intsn = FirstTsn - 1 /\ sacks = {} /\ snd.pending = <<>> /\ snd.holding = <<>> /\ next = 1
  BY Plain DEF Init
<1>2. Spans(FirstTsn - 1)
  BY Bounds DEF Spans, LastTsn
<1>3. ASSUME NEW n \in C PROVE ~(Tsn(n) <= FirstTsn - 1) /\ n \in Int /\ n >= 1
  BY TsnSpans, Bounds DEF Spans, C
<1>4. Len(snd.pending) = 0 /\ Len(snd.holding) = 0 /\ Gone(snd, next - 1) = 0
  <2>1. Len(snd.pending) = 0 /\ Len(snd.holding) = 0 /\ next - 1 = 0
    BY <1>1, EmptySeq
  <2>2. Gone(snd, next - 1) = 0 - 0 - 0
    BY <2>1 DEF Gone
  <2> QED
    BY <2>1, <2>2
<1> QED
  BY <1>1, <1>2, <1>3, <1>4 DEF SafeInv

\* The invariants imply NothingForgotten: what is in neither queue is gone.
LEMMA ForgetsNothing ==
  ASSUME RcvOK, OnceInv, SenderInv, SafeInv
  PROVE  NothingForgotten
<1> DEFINE m == next - 1
           P == Len(snd.pending)
           H == Len(snd.holding)
           G == Gone(snd, m)
<1>1. /\ snd.pending \in Seq(Pkt) /\ snd.holding \in Seq(C) /\ m \in 0..Chunks
      /\ Lined(snd, m) /\ Chunks \in Nat
  BY Constants DEF SenderInv, SndType
<1>2. /\ P \in Nat /\ H \in Nat /\ DOMAIN snd.pending = 1..P /\ DOMAIN snd.holding = 1..H
  BY <1>1, LenProperties
<1>3. G = m - P - H /\ G \in Nat
  BY <1>1 DEF Gone, Lined
<1>4. \A i \in 1..P : snd.pending[i].n = G + i
  BY <1>1 DEF Lined
<1>5. \A i \in 1..H : snd.holding[i] = m - H + i
  BY <1>1 DEF Lined
<1>6. \A i \in 1..P : snd.pending[i].n \in InFlight
  BY <1>2 DEF InFlight, ChunksOf, Range
<1>7. \A i \in 1..H : snd.holding[i] \in Range(snd.holding)
  BY <1>2 DEF Range
<1>8. ASSUME NEW n \in 1..m
      PROVE  n <= got \/ n \in InFlight \cup Range(snd.holding) \cup rcv.held \cup dropped
  <2>1. n \in C /\ n \in Int
    BY <1>1 DEF C
  <2>2. CASE n <= G
    BY <2>1, <2>2 DEF SafeInv, Accounted, Arrived
  <2> HIDE DEF P, H, G, m
  <2>3. CASE G < n /\ n <= G + P
    <3>1. PICK i \in Int : i = n - G
      BY <1>3, <2>1
    <3>2. i \in 1..P /\ G + i = n
      BY <1>2, <1>3, <2>1, <2>3, <3>1
    <3> QED
      BY <1>4, <1>6, <3>2
  <2>4. CASE G + P < n
    <3>1. PICK i \in Int : i = n - (m - H)
      BY <1>1, <1>2, <2>1
    <3>2. i \in 1..H /\ m - H + i = n
      BY <1>1, <1>2, <1>3, <2>1, <2>4, <3>1
    <3> QED
      BY <1>5, <1>7, <3>2
  <2> QED
    BY <1>2, <1>3, <2>1, <2>2, <2>3, <2>4
<1>9. \A i \in DOMAIN snd.pending :
        snd.pending[i].gap = GapAcked => snd.pending[i].n <= got \/ snd.pending[i].n \in rcv.held
  BY <1>2 DEF SafeInv, Arrived
<1>10. pauses = 0 => dropped = {}
  BY DEF OnceInv
<1> QED
  BY <1>8, <1>9, <1>10 DEF NothingForgotten

\* What the sender no longer keeps was delivered, is held by the receiver or was refused by
\* a full hold buffer after a pause, and a packet marked as acknowledged by a gap block was
\* delivered or is held: whatever SACKs were lost, delayed or overtaken, although they are
\* read with plain comparisons and 16-bit offsets from the cumulative TSN.
THEOREM NoneForgotten ==
  ASSUME NoWrap, ShortOffsets
  PROVE  Spec => []NothingForgotten
<1> DEFINE Inv == ReceiverInv /\ SenderInv /\ SafeInv
<1>1. Init => Inv
  BY SafeInit, SenderInit, ReceiverInit DEF ReceiverInv
<1>2. Inv /\ [Next]_vars => Inv'
  <2> SUFFICES ASSUME Inv, [Next]_vars PROVE Inv'
    OBVIOUS
  <2>1. ReceiverInv'
    BY RcvOKStep, OrderStep, OnceStep DEF ReceiverInv
  <2>2. SenderInv'
    BY SenderStep DEF ReceiverInv
  <2>3. SafeInv'
    BY SafeStep DEF ReceiverInv
  <2> QED
    BY <2>1, <2>2, <2>3
<1>3. Inv => NothingForgotten
  BY ForgetsNothing DEF ReceiverInv
<1> QED
  BY <1>1, <1>2, <1>3, PTL DEF Spec
=============================================================================

-------------------------- MODULE CoreModule_proofs --------------------------
(***************************************************************************)
(* Proofs about CoreModule, for every set of cores.                        *)
(***************************************************************************)
EXTENDS CoreModule, TLAPS

\* What a running agent looks like: the part of CoreInv that a handler can disturb, as
\* a fact about the next state of the variables.
Sound(d, e, t, h, v) ==
  /\ d \in Cores \cup {None} /\ v \in SUBSET Cores
  /\ d # None => d \in v
  /\ \/ d = None /\ e = <<>> /\ t = FALSE /\ h \in {"null", "stale"}
     \/ d # None /\ e = <<>> /\ t = TRUE /\ h \in {"null", "live"}
     \/ d # None /\ e = <<d>> /\ t = FALSE /\ h = "null"

\* An engine with no core and one with one core are sequences of cores.
LEMMA EngineIsSeq ==
  /\ <<>> \in Seq(Cores)
  /\ \A c \in Cores : <<c>> \in Seq(Cores)
OBVIOUS

\* While the agent runs, the invariant gives Sound ...
LEMMA InvIsSound ==
  ASSUME CoreInv, up
  PROVE  Sound(db, engine, timer, handle, verified)
BY CoresAssumption DEF CoreInv, TypeOK, RunsOrWaits, Sound

\* ... and Sound is all it takes, with the flags and a true answer to the server.
LEMMA SoundIsInv ==
  ASSUME up' = TRUE, local' \in BOOLEAN, restart' \in BOOLEAN,
         Sound(db', engine', timer', handle', verified'), local' => timer' = FALSE,
         restart' => handle' # "live", told' \in {db', "nothing", "local"}
  PROVE  CoreInv'
<1>1. engine' \in Seq(Cores)
  <2>1. engine' = <<>> \/ (db' \in Cores /\ engine' = <<db'>>)
    BY DEF Sound
  <2>2. QED
    BY <2>1, EngineIsSeq
<1>2. timer' \in BOOLEAN /\ handle' \in {"null", "live", "stale"}
      /\ db' \in Cores \cup {None} /\ verified' \in SUBSET Cores
  BY DEF Sound
<1>3. TypeOK'
  <2>1. told' \in Cores \cup {None, "nothing", "local"}
    BY <1>2
  <2>2. QED
    BY <1>1, <1>2, <2>1, Zenon DEF TypeOK
<1>4. RunsOrWaits'
  BY DEF Sound, RunsOrWaits
<1>5. RunsVerified'
  BY DEF Sound, RunsVerified
<1>6. ToldTruth'
  BY <1>2, CoresAssumption DEF ToldTruth
<1>7. /\ db' # None => db' \in verified'
      /\ handle' = "live" => timer' = TRUE
      /\ handle' = "stale" => db' = None
  BY DEF Sound
<1>8. QED
  BY <1>3, <1>4, <1>5, <1>6, <1>7, Zenon DEF CoreInv

-----------------------------------------------------------------------------
\* The inductive invariant of the core module, of which the others are part.
THEOREM CoreInvariant == Spec => []CoreInv
<1>1. Init => CoreInv
  <2> SUFFICES ASSUME Init PROVE CoreInv
    OBVIOUS
  <2>1. TypeOK
    BY EngineIsSeq DEF Init, TypeOK
  <2>2. RunsOrWaits /\ RunsVerified /\ ToldTruth
    BY CoresAssumption DEF Init, RunsOrWaits, RunsVerified, ToldTruth
  <2>3. QED
    BY <2>1, <2>2 DEF Init, CoreInv
<1>2. CoreInv /\ [Next]_vars => CoreInv'
  <2> SUFFICES ASSUME CoreInv, [Next]_vars PROVE CoreInv'
    OBVIOUS
  <2>0. /\ up => Sound(db, engine, timer, handle, verified)
        /\ restart => handle # "live"
        /\ told \in {db, "nothing", "local"}
        /\ local \in BOOLEAN /\ restart \in BOOLEAN /\ (local => timer = FALSE)
    <3>1. told \in {db, "nothing", "local"}
      BY DEF CoreInv, TypeOK, ToldTruth
    <3>2. local \in BOOLEAN /\ restart \in BOOLEAN /\ (local => timer = FALSE)
          /\ (restart => handle # "live")
      BY Zenon DEF CoreInv, TypeOK
    <3>3. QED
      BY <3>1, <3>2, InvIsSound
  <2>1. ASSUME NEW reset \in BOOLEAN, NEW noUpdate \in BOOLEAN, Start(reset, noUpdate)
        PROVE  CoreInv'
    <3>1. up' = TRUE /\ told' = "nothing" /\ restart' = FALSE
      BY <2>1 DEF Start, CoreInv, TypeOK
    <3>2. db' \in {db, None} /\ verified' = verified
      BY <2>1 DEF Start
    <3>3. db' \in Cores \cup {None} /\ verified' \in SUBSET Cores /\ (db' # None => db' \in verified')
      BY <3>2 DEF CoreInv, TypeOK
    <3>4. /\ local' \in BOOLEAN /\ (local' => timer' = FALSE)
          /\ Sound(db', engine', timer', handle', verified')
      BY <2>1, <3>3 DEF Start, Sound
    <3>5. QED
      BY <3>1, <3>4, SoundIsInv
  <2>2. CASE Exit
    <3>1. TypeOK'
      BY <2>2, EngineIsSeq DEF Exit, CoreInv, TypeOK
    <3>2. RunsOrWaits' /\ RunsVerified' /\ ToldTruth'
      BY <2>2, CoresAssumption DEF Exit, RunsOrWaits, RunsVerified, ToldTruth
    <3>3. QED
      BY <2>2, <3>1, <3>2 DEF Exit, CoreInv
  <2>3. CASE ServerTimeout
    <3>1. up
      BY <2>3 DEF ServerTimeout, CoreInv
    <3>2. Sound(db', engine', timer', handle', verified')
      BY <2>0, <2>3, <3>1 DEF ServerTimeout, Sound, Launch
    <3>3. QED
      BY <2>0, <2>3, <3>1, <3>2, SoundIsInv DEF ServerTimeout
  <2>4. CASE CoreOk
    <3>1. Sound(db', engine', timer', handle', verified')
      <4>0. Sound(db, engine, timer, handle, verified) /\ db' = db /\ verified' = verified
        BY <2>0, <2>4 DEF CoreOk
      <4>1. CASE handle = "null"
        BY <2>4, <4>0, <4>1 DEF CoreOk
      <4>2. CASE handle = "live"
        <5>1. timer' = FALSE /\ handle' = "null" /\ engine' = Launch(engine)
          BY <2>4, <4>2 DEF CoreOk
        <5>2. QED
          BY <4>0, <4>2, <5>1 DEF Sound, Launch
      <4>3. CASE handle = "stale"
        <5>1. handle' = "null" /\ engine' = Launch(engine)
          BY <2>4, <4>3 DEF CoreOk
        <5>2. timer = FALSE
          BY <4>0, <4>3 DEF Sound
        <5>3. timer' = FALSE
          BY <2>4, <4>3, <5>2 DEF CoreOk
        <5>4. QED
          BY <4>0, <4>3, <5>1, <5>3 DEF Sound, Launch
      <4>4. QED
        BY <4>0, <4>1, <4>2, <4>3 DEF Sound
    <3>2. /\ restart' => handle' # "live"
          /\ local' => timer' = FALSE
      BY <2>0, <2>4 DEF CoreOk
    <3>3. QED
      BY <2>0, <2>4, <3>1, <3>2, SoundIsInv DEF CoreOk
  <2>5. ASSUME NEW h \in Cores, SameCore(h) PROVE CoreInv'
    <3>1. Sound(db', engine', timer', handle', verified')
      BY <2>0, <2>5 DEF SameCore, Accepts
    <3>2. QED
      BY <2>0, <2>5, <3>1, SoundIsInv DEF SameCore, Accepts
  <2>6. ASSUME NEW h \in Cores, InflateError(h) PROVE CoreInv'
    <3>1. Sound(db', engine', timer', handle', verified')
      BY <2>0, <2>6 DEF InflateError, Accepts, Sound
    <3>2. QED
      BY <2>0, <2>6, <3>1, SoundIsInv DEF InflateError, Accepts
  <2>7. ASSUME NEW c \in Cores, NEW h \in Cores, HashMismatch(c, h) PROVE CoreInv'
    <3>1. Sound(db', engine', timer', handle', verified')
      BY <2>0, <2>7 DEF HashMismatch, Accepts, ScriptEngine_Stop, Sound
    <3>2. timer' = FALSE /\ handle' # "live" /\ told' = db'
      BY <2>0, <2>7 DEF HashMismatch, Accepts, ScriptEngine_Stop
    <3>3. QED
      BY <2>0, <2>7, <3>1, <3>2, SoundIsInv DEF HashMismatch, Accepts
  <2>8. ASSUME NEW c \in Cores, NEW h \in Cores, NewCore(c, h) PROVE CoreInv'
    <3>1. Sound(db', engine', timer', handle', verified')
      BY <2>0, <2>8, CoresAssumption DEF NewCore, Accepts, ScriptEngine_Stop, Sound
    <3>2. timer' = FALSE /\ handle' # "live" /\ told' = db'
      BY <2>0, <2>8 DEF NewCore, Accepts, ScriptEngine_Stop
    <3>3. QED
      BY <2>0, <2>8, <3>1, <3>2, SoundIsInv DEF NewCore, Accepts
  <2>9. CASE StopCore
    <3>1. Sound(db', engine', timer', handle', verified')
      BY <2>0, <2>9 DEF StopCore, Accepts, ScriptEngine_Stop, Sound
    <3>2. timer' = FALSE /\ handle' # "live" /\ told' = db'
      BY <2>0, <2>9 DEF StopCore, Accepts, ScriptEngine_Stop
    <3>3. QED
      BY <2>0, <2>9, <3>1, <3>2, SoundIsInv DEF StopCore, Accepts
  <2>10. CASE CoreModuleHash
    <3>1. Sound(db', engine', timer', handle', verified')
      BY <2>0, <2>10 DEF CoreModuleHash
    <3>2. QED
      BY <2>0, <2>10, <3>1, SoundIsInv DEF CoreModuleHash
  <2>11. CASE RestartCore
    <3>1. Sound(db', engine', timer', handle', verified')
      BY <2>0, <2>11 DEF RestartCore
    <3>2. handle' # "live"
      BY <2>0, <2>11 DEF RestartCore, Sound
    <3>3. QED
      BY <2>0, <2>11, <3>1, <3>2, SoundIsInv DEF RestartCore
  <2>12. CASE DumpCoreModuleEx
    <3>1. up
      BY <2>12 DEF DumpCoreModuleEx, CoreInv
    <3>2. /\ handle' = handle /\ handle # "live" /\ restart' = FALSE
          /\ timer' = FALSE /\ engine' = Launch(<<>>)
          /\ up' = up /\ db' = db /\ local' = local /\ verified' = verified /\ told' = told
      BY <2>0, <2>12 DEF DumpCoreModuleEx, ScriptEngine_Stop
    <3>3. Sound(db', engine', timer', handle', verified')
      BY <2>0, <3>1, <3>2 DEF Sound, Launch
    <3>4. QED
      BY <2>0, <3>1, <3>2, <3>3, SoundIsInv
  <2>13. CASE UNCHANGED vars
    BY <2>13 DEF vars, CoreInv, TypeOK, RunsOrWaits, RunsVerified, ToldTruth
  <2>14. QED
    BY <2>1, <2>2, <2>3, <2>4, <2>5, <2>6, <2>7, <2>8, <2>9, <2>10, <2>11, <2>12, <2>13 DEF Next
<1>3. QED
  BY <1>1, <1>2, PTL DEF Spec

\* Whatever order the server's messages, the 60 s timeout, a restart that the core asks
\* for and the end of the process come in: the stored core is launched once or is waited
\* for, only a core whose hash was right is ever launched, and the server was told what
\* is stored.
THEOREM CoreCorrect == Spec => [](RunsOrWaits /\ RunsVerified /\ ToldTruth)
<1>1. CoreInv => RunsOrWaits /\ RunsVerified /\ ToldTruth
  BY DEF CoreInv
<1>2. QED
  BY <1>1, CoreInvariant, PTL
=============================================================================

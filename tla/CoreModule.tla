------------------------------ MODULE CoreModule ------------------------------
(***************************************************************************)
(* The life of the core module, the script that the server sends to the    *)
(* agent, meshcore/agentcore.c: stored in the database, verified by its    *)
(* hash, launched in the script engine once the server has said that it is *)
(* good, or 60 s after the start when no server says anything.  Messages   *)
(* of the server, the timer, and a restart that the core itself asks for   *)
(* come in any order; each handler runs to its end on the chain's thread.  *)
(*                                                                         *)
(* A core is named by its hash.  The database keeps its promise            *)
(* (KeyValueMap); what it does when a write fails is in SimpleDataStore.   *)
(***************************************************************************)
EXTENDS Naturals, Sequences

CONSTANTS Cores, None    \* the cores a server may send; no core

ASSUME CoresAssumption ==
  /\ None \notin Cores
  /\ {"nothing", "local"} \cap (Cores \cup {None}) = {}

VARIABLES up,        \* the agent runs
          db,        \* "CoreModule" in the database
          local,     \* localScript: the server's cores are ignored
          engine,    \* history: the cores launched in the present script engine
          timer,     \* the 60 s timeout is pending in the present script engine
          handle,    \* coreTimeout: NULL, the timeout of this engine, or of a destroyed one
          restart,   \* dumpCoreModuleEx is queued
          verified,  \* history: cores whose bytes had the hash that the server said
          told       \* history: the core the server was last told of, since the start

vars == <<up, db, local, engine, timer, handle, restart, verified, told>>

\* Mutant of Launch: an empty core is not left out.
LaunchAlways(e) == Append(e, db)

\* Running the stored core in engine e.
Launch(e) == IF db = None THEN e ELSE Append(e, db)

\* ScriptEngine_Stop: the heap is destroyed, with its timeouts, and a new one made.  The
\* field coreTimeout is not touched, h is what it was.
ScriptEngine_Stop(e, h) ==
  /\ engine' = e
  /\ timer' = FALSE
  /\ handle' = IF h = "live" THEN "stale" ELSE h

Init ==
  /\ up = FALSE /\ db = None /\ local = FALSE /\ engine = <<>> /\ timer = FALSE
  /\ handle = "null" /\ restart = FALSE /\ verified = {} /\ told = "nothing"

\* MeshAgent_AgentMode.  A file ".corereset" removes the stored core.  A core that must
\* not be updated is launched; any other one waits for the server or for the timeout.
Start(reset, noUpdate) ==
  /\ ~up /\ up' = TRUE
  /\ db' = IF reset THEN None ELSE db
  /\ IF db' = None THEN local' = FALSE /\ engine' = <<>> /\ timer' = FALSE /\ handle' = "null"
     ELSE IF noUpdate
     THEN local' = TRUE /\ engine' = <<db'>> /\ timer' = FALSE /\ handle' = "null"
     ELSE local' = FALSE /\ engine' = <<>> /\ timer' = TRUE /\ handle' = "live"
  /\ UNCHANGED <<restart, verified, told>>

\* The agent ends or dies; only the database is kept.
Exit ==
  /\ up /\ up' = FALSE
  /\ local' = FALSE /\ engine' = <<>> /\ timer' = FALSE /\ handle' = "null"
  /\ restart' = FALSE /\ told' = "nothing"
  /\ UNCHANGED <<db, verified>>

\* Mutant of ServerTimeout: it does nothing once coreTimeout has been cleared.
ServerTimeoutIfHandle ==
  /\ timer /\ handle = "live"
  /\ timer' = FALSE /\ handle' = "null"
  /\ engine' = Launch(engine)
  /\ UNCHANGED <<up, db, local, restart, verified, told>>

\* MeshAgent_AgentMode_Core_ServerTimeout: "launching cached meshcore".
ServerTimeout ==
  /\ timer
  /\ timer' = FALSE /\ handle' = "null"
  /\ engine' = Launch(engine)
  /\ UNCHANGED <<up, db, local, restart, verified, told>>

\* Mutant of CoreOk: the timeout is not cancelled.
CoreOkKeepsTimer ==
  /\ up
  /\ IF handle = "null" THEN UNCHANGED <<engine, timer, handle>>
     ELSE /\ handle' = "null"
          /\ timer' = timer
          /\ engine' = Launch(engine)
  /\ UNCHANGED <<up, db, local, restart, verified, told>>

\* MeshCommand_CoreOk.  With a coreTimeout, it is cancelled and the core is launched;
\* without, "probably because the core is already running".  To cancel the timeout of a
\* destroyed engine is undefined: the agent dies (Exit) or nothing is cancelled.
CoreOk ==
  /\ up
  /\ IF handle = "null" THEN UNCHANGED <<engine, timer, handle>>
     ELSE /\ handle' = "null"
          /\ timer' = (timer /\ handle # "live")
          /\ engine' = Launch(engine)
  /\ UNCHANGED <<up, db, local, restart, verified, told>>

-----------------------------------------------------------------------------
(* MeshCommand_CoreModule: the server sends core c and says its hash is h. *)

Accepts == up /\ ~local

\* The core is stored already: the server is told so and nothing else happens.
SameCore(h) ==
  /\ Accepts /\ db = h
  /\ told' = h
  /\ UNCHANGED <<up, db, local, engine, timer, handle, restart, verified>>

\* A compressed core that cannot be inflated: coreTimeout has been cleared before.
InflateError(h) ==
  /\ Accepts /\ db # h
  /\ handle' = "null"
  /\ UNCHANGED <<up, db, local, engine, timer, restart, verified, told>>

\* "Something went wrong, clear the data store": c was stored, is deleted again, and the
\* running core is stopped.
HashMismatch(c, h) ==
  /\ Accepts /\ db # h /\ c # h
  /\ db' = None
  /\ ScriptEngine_Stop(<<>>, "null")
  /\ told' = None
  /\ UNCHANGED <<up, local, restart, verified>>

\* Mutant of NewCore: the new core is launched before its hash is known to be right.
NewCoreUnchecked(c, h) ==
  /\ Accepts /\ db # h
  /\ db' = c
  /\ ScriptEngine_Stop(<<c>>, "null")
  /\ verified' = IF c = h THEN verified \cup {c} ELSE verified
  /\ told' = c
  /\ UNCHANGED <<up, local, restart>>

\* A new core: stored, its hash checked, the engine restarted with it.
NewCore(c, h) ==
  /\ Accepts /\ db # h /\ c = h
  /\ db' = c
  /\ ScriptEngine_Stop(<<c>>, "null")
  /\ verified' = verified \cup {c}
  /\ told' = h
  /\ UNCHANGED <<up, local, restart>>

\* An empty core: "Server is telling us to stop running a core".
StopCore ==
  /\ Accepts
  /\ db' = None
  /\ ScriptEngine_Stop(<<>>, handle)
  /\ told' = None
  /\ UNCHANGED <<up, local, restart, verified>>

\* Mutant of CoreModuleHash: the answer says what has been launched so far.
CoreModuleHashOfEngine ==
  /\ up
  /\ told' = IF local THEN "local" ELSE IF engine = <<>> THEN None ELSE engine[1]
  /\ UNCHANGED <<up, db, local, engine, timer, handle, restart, verified>>

\* MeshCommand_CoreModuleHash: "Tell the server what core module we are running".
CoreModuleHash ==
  /\ up
  /\ told' = IF local THEN "local" ELSE db
  /\ UNCHANGED <<up, db, local, engine, timer, handle, restart, verified>>

-----------------------------------------------------------------------------
(* MeshAgent.restartCore, called by the core that runs.  A second call      *)
(* before the first is served would only serve it twice.                   *)

RestartCore ==
  /\ up /\ engine # <<>> /\ ~restart
  /\ local' = FALSE /\ restart' = TRUE
  /\ UNCHANGED <<up, db, engine, timer, handle, verified, told>>

\* ILibDuktape_MeshAgent_dumpCoreModuleEx, some time later.
DumpCoreModuleEx ==
  /\ restart /\ restart' = FALSE
  /\ ScriptEngine_Stop(Launch(<<>>), handle)
  /\ UNCHANGED <<up, db, local, verified, told>>

-----------------------------------------------------------------------------
Next ==
  \/ \E reset, noUpdate \in BOOLEAN : Start(reset, noUpdate)
  \/ Exit \/ ServerTimeout \/ CoreOk
  \/ \E h \in Cores : SameCore(h) \/ InflateError(h)
  \/ \E c, h \in Cores : HashMismatch(c, h) \/ NewCore(c, h)
  \/ StopCore \/ CoreModuleHash \/ RestartCore \/ DumpCoreModuleEx

Spec == Init /\ [][Next]_vars

\* A timeout of the script engine fires in the end, while the engine exists.
FairSpec == Spec /\ WF_vars(ServerTimeout)

-----------------------------------------------------------------------------
TypeOK ==
  /\ up \in BOOLEAN /\ local \in BOOLEAN /\ timer \in BOOLEAN /\ restart \in BOOLEAN
  /\ db \in Cores \cup {None}
  /\ engine \in Seq(Cores)
  /\ handle \in {"null", "live", "stale"}
  /\ verified \in SUBSET Cores
  /\ told \in Cores \cup {None, "nothing", "local"}

\* While the agent runs, the stored core is the one that was launched, once, in the
\* engine there is, or none was launched and the timeout that launches it is pending;
\* without a stored core, none runs ("If we stop the core", "launch the new one").
RunsOrWaits ==
  up => IF db = None THEN engine = <<>> /\ ~timer
                     ELSE engine = (IF timer THEN <<>> ELSE <<db>>)

\* Every core that was ever launched, also from the database after a restart of the
\* agent, is one whose bytes had the hash that the server said.
RunsVerified == \A i \in DOMAIN engine : engine[i] \in verified

\* What the server was last told is what is stored ("Create the server confirmation
\* message that we are running the new core").
ToldTruth == told \in Cores \cup {None} => told = db

\* The inductive form.  The stored core is verified, an agent that is down has nothing
\* pending, coreTimeout refers to a destroyed engine only when no core is stored, and a
\* restart is asked for by a core that runs, which coreTimeout does not wait for.
CoreInv ==
  /\ TypeOK /\ RunsOrWaits /\ RunsVerified /\ ToldTruth
  /\ db # None => db \in verified
  /\ ~up => /\ engine = <<>> /\ ~timer /\ handle = "null" /\ ~restart
            /\ told = "nothing" /\ ~local
  /\ handle = "live" => timer
  /\ handle = "stale" => db = None
  /\ local => ~timer
  /\ restart => handle # "live"

\* "We'll set a timeout, so if the server is unavailable, we'll run the core anyways."
EventuallyRuns == up /\ db # None ~> ~up \/ db = None \/ engine # <<>>
=============================================================================

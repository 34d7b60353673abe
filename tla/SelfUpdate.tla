------------------------------ MODULE SelfUpdate ------------------------------
(***************************************************************************)
(* The update of the agent by the server, meshcore/agentcore.c: the blocks *)
(* of a new executable are appended to the file ".update", its hash is     *)
(* checked, a zipped one is unzipped by a script (modules/update-helper.js)*)
(* and, when the chain has ended, the file takes the place of the          *)
(* executable.  The unzipping lives in the script engine of CoreModule:    *)
(* whatever stops the core stops it, so the two are composed here.         *)
(*                                                                         *)
(* A file is None or a sequence of pieces: blocks of an update, pieces of  *)
(* what it unzips to, or junk (part of a block, a hole, a cut-off copy).   *)
(***************************************************************************)
EXTENDS CoreModule, FiniteSets

CONSTANTS Updates,    \* the updates a server may have for this agent
          Zipped,     \* those that are zip files
          Old,        \* the executable that was installed first
          Junk,
          Faults,     \* "overlap": the server begins again while an update is unzipped;
                      \* "full": the disk is full when a script writes
          MaxJobs     \* bound: unzips at a time

ASSUME UpdatesAssumption ==
  /\ Zipped \subseteq Updates
  /\ Faults \subseteq {"overlap", "full"}
  /\ MaxJobs \in Nat \ {0}

VARIABLES exe,        \* the executable on disk
          upd,        \* the file ".update"
          unz,        \* the file ".update_unzipped"
          jobs,       \* the unzips under way in the present script engine
          srv,        \* the server on this connection: the update, the next block
          perform,    \* performSelfUpdate, set just before the chain is told to stop
          stage,      \* of the exchange, after the chain has ended
          service,    \* JSRunningAsService
          sound       \* history: what was installed first, and what the updates whose
                      \* hash was right are to be installed as

files == <<exe, upd, unz>>
uvars == <<files, jobs, srv, perform, stage, service, sound>>
allVars == <<vars, uvars>>

Blocks == 2    \* blocks of an update, and pieces of what it unzips to

Whole(u)    == [i \in 1 .. Blocks |-> <<u, i>>]
Unzipped(u) == [i \in 1 .. Blocks |-> <<u, Blocks + i>>]

\* What an update is installed as.
Installs(u) == IF u \in Zipped THEN Unzipped(u) ELSE Whole(u)

\* The server on a connection: the update it sends and the next block of it, Blocks + 1
\* when the end of it is next and 0 before the first and when nothing more will come.
Server(u, n) == [on |-> TRUE, u |-> u, next |-> n]
NoServer     == [on |-> FALSE, u |-> None, next |-> 0]
Asking       == Server(None, 0)

\* An unzip under way, with what its stream has written so far; not linked: the file it
\* writes to has been deleted meanwhile.
Job(n, u, pc, pos, linked) == [n |-> n, u |-> u, pc |-> pc, pos |-> pos, linked |-> linked]

-----------------------------------------------------------------------------
(* The download.                                                           *)

\* The control channel is established (see ControlChannel) or lost; it is not established
\* in the last round of the chain, in which messages may still be handled.
Connected ==
  /\ up /\ ~srv.on /\ ~perform
  /\ srv' = Asking
  /\ UNCHANGED <<vars, files, jobs, perform, stage, service, sound>>

Disconnected ==
  /\ srv.on
  /\ srv' = NoServer
  /\ UNCHANGED <<vars, files, jobs, perform, stage, service, sound>>

\* MeshCommand_AgentUpdate without a hash, from a server that has been told another hash
\* than its own (MeshCommand_AgentHash): the file is deleted.
AgentUpdate_Start(u) ==
  /\ up /\ srv = Asking /\ exe # Installs(u)
  /\ "overlap" \in Faults \/ (jobs = {} /\ ~perform)
  /\ upd' = None
  /\ srv' = Server(u, 1)
  /\ UNCHANGED <<vars, exe, unz, jobs, perform, stage, service, sound>>

Appended(f, pieces) == (IF f = None THEN <<>> ELSE f) \o pieces

\* What up to four calls of util_appendfile may leave in the file when the last of them
\* returns `ok': a short write leaves junk, and fclose may fail without being noticed.
Written(block, ok) ==
  {<<>>, <<Junk>>} \cup (IF ok THEN {<<block>>, <<Junk, block>>} ELSE {})

\* MeshCommand_AgentUpdateBlock: without an acknowledgement the server sends no more.
AgentUpdateBlock(ok) ==
  /\ up /\ srv.on /\ srv.next \in 1 .. Blocks
  /\ \E w \in Written(<<srv.u, srv.next>>, ok) : upd' = Appended(upd, w)
  /\ srv' = Server(srv.u, IF ok THEN srv.next + 1 ELSE 0)
  /\ UNCHANGED <<vars, exe, unz, jobs, perform, stage, service, sound>>

\* Mutant of HashOk: only the length is compared.
HashOkLength(u) == upd # None /\ Len(upd) = Blocks

\* The hash of ".update" is the one in the message.
HashOk(u) == upd = Whole(u)

AtEnd == up /\ srv.on /\ srv.next = Blocks + 1
Done  == Server(srv.u, 0)

\* MeshCommand_AgentUpdate with the hash, which is wrong: the file is deleted.
AgentUpdate_EndMismatch ==
  /\ AtEnd /\ ~HashOk(srv.u)
  /\ upd' = None
  /\ srv' = Done
  /\ UNCHANGED <<vars, exe, unz, jobs, perform, stage, service, sound>>

\* It is right, and the update is not zipped: MeshServer_selfupdate_continue, which stops
\* the chain.
AgentUpdate_End ==
  /\ AtEnd /\ HashOk(srv.u) /\ srv.u \notin Zipped
  /\ sound' = sound \cup {Installs(srv.u)}
  /\ perform' = TRUE
  /\ srv' = Done
  /\ UNCHANGED <<vars, files, jobs, stage, service>>

\* It is right, and the update is zipped: update-helper.start, in the script engine.
AgentUpdate_EndZip ==
  /\ AtEnd /\ HashOk(srv.u) /\ srv.u \in Zipped
  /\ Cardinality(jobs) < MaxJobs
  /\ sound' = sound \cup {Installs(srv.u)}
  /\ \E n \in 1 .. MaxJobs :
       /\ \A j \in jobs : j.n # n
       /\ jobs' = jobs \cup {Job(n, srv.u, "open", 0, FALSE)}
  /\ srv' = Done
  /\ UNCHANGED <<vars, files, perform, stage, service>>

-----------------------------------------------------------------------------
(* update-helper.js.                                                       *)

\* createWriteStream with "wb": an existing file is emptied, whoever writes to it.
UnzipOpen(j) ==
  /\ j.pc = "open"
  /\ unz' = <<>>
  /\ jobs' = (jobs \ {j}) \cup {Job(j.n, j.u, "write", j.pos, TRUE)}
  /\ UNCHANGED <<vars, exe, upd, srv, perform, stage, service, sound>>

\* What a script that writes x may leave: ILibDuktape_fs_writeStream_writeHandler takes
\* part of the bytes for all of them, and writeFileSync does not look at how many
\* ILibDuktape_fs_writeSync wrote.
Cut(x) == {x} \cup (IF "full" \in Faults THEN {Junk} ELSE {})

\* A piece is written where this stream is: a gap before it is a hole.
Put(f, p, x) ==
  [i \in 1 .. (IF p <= Len(f) THEN Len(f) ELSE p) |->
     IF i = p THEN x ELSE IF i <= Len(f) THEN f[i] ELSE Junk]

UnzipWrite(j) ==
  /\ j.pc = "write" /\ j.pos < Blocks
  /\ \E x \in Cut(Unzipped(j.u)[j.pos + 1]) :
       unz' = IF j.linked THEN Put(unz, j.pos + 1, x) ELSE unz
  /\ jobs' = (jobs \ {j}) \cup {Job(j.n, j.u, j.pc, j.pos + 1, j.linked)}
  /\ UNCHANGED <<vars, exe, upd, srv, perform, stage, service, sound>>

\* The zip file cannot be read, or the other file not written: the error is logged.
UnzipFails(j) ==
  /\ jobs' = jobs \ {j}
  /\ UNCHANGED <<vars, files, srv, perform, stage, service, sound>>

\* The stream is closed: ".update" is deleted, replaced by a copy, and the copied file is
\* deleted.  unlinkSync and copyFileSync throw when there is no file.
UnzipDone(j) ==
  /\ j.pc = "write" /\ j.pos = Blocks
  /\ \E copy \in {unz} \cup (IF "full" \in Faults THEN {<<Junk>>} ELSE {}) :
       upd' = IF upd = None \/ unz = None THEN None ELSE copy
  /\ IF upd # None /\ unz # None
     THEN /\ unz' = None
          /\ jobs' = {Job(k.n, k.u, k.pc, k.pos, FALSE) : k \in jobs \ {j}}
          /\ perform' = TRUE
     ELSE jobs' = jobs \ {j} /\ UNCHANGED <<unz, perform>>
  /\ UNCHANGED <<vars, exe, srv, stage, service, sound>>

-----------------------------------------------------------------------------
(* The exchange, at the end of MeshAgent_Start.                            *)

\* The chain has ended, after its present round.
ChainEnds ==
  /\ perform /\ Exit
  /\ stage' = IF service THEN "mv" ELSE "remove"
  /\ jobs' = {} /\ srv' = NoServer /\ perform' = FALSE
  /\ UNCHANGED <<files, service, sound>>

\* As a service: "mv", which is a rename; the service manager starts the agent again.
Exchange_mv ==
  /\ stage = "mv" /\ stage' = "none"
  /\ exe' = IF upd = None THEN exe ELSE upd
  /\ upd' = None
  /\ UNCHANGED <<vars, unz, jobs, srv, perform, service, sound>>

\* Otherwise: the executable is removed,
Exchange_remove ==
  /\ stage = "remove" /\ stage' = "cp"
  /\ exe' = None
  /\ UNCHANGED <<vars, upd, unz, jobs, srv, perform, service, sound>>

\* "cp" begins
Exchange_cp ==
  /\ stage = "cp" /\ stage' = "copying"
  /\ exe' = IF upd = None THEN None ELSE <<Junk>>
  /\ UNCHANGED <<vars, upd, unz, jobs, srv, perform, service, sound>>

\* and ends; execv starts the agent again.
Exchange_execv ==
  /\ stage = "copying" /\ stage' = "none"
  /\ exe' = upd
  /\ UNCHANGED <<vars, upd, unz, jobs, srv, perform, service, sound>>

\* Mutant of Die: what was written so far is taken for the update.
DieInstalls ==
  /\ up /\ Exit
  /\ exe' = IF upd = None THEN exe ELSE upd
  /\ jobs' = {} /\ srv' = NoServer /\ perform' = FALSE
  /\ UNCHANGED <<upd, unz, stage, service, sound>>

\* The process ends or is killed while it runs,
Die ==
  /\ up /\ Exit
  /\ jobs' = {} /\ srv' = NoServer /\ perform' = FALSE
  /\ UNCHANGED <<files, stage, service, sound>>

\* or in the exchange.
DieInExchange ==
  /\ stage # "none" /\ stage' = "none"
  /\ UNCHANGED <<vars, files, jobs, srv, perform, service, sound>>

\* The executable is started, as a service or by hand.
StartProcess(reset, noUpdate) ==
  /\ stage = "none" /\ exe \in sound
  /\ Start(reset, noUpdate)
  /\ service' \in BOOLEAN
  /\ UNCHANGED <<files, jobs, srv, perform, stage, sound>>

\* Without an executable that works somebody has to install one.
Reinstall ==
  /\ stage = "none" /\ ~up /\ exe \notin sound
  /\ exe' = Old
  /\ UNCHANGED <<vars, upd, unz, jobs, srv, perform, stage, service, sound>>

-----------------------------------------------------------------------------
(* The composition with the core.                                          *)

\* Handlers that leave the script engine alone.
CoreHandler ==
  /\ \/ ServerTimeout \/ CoreOk \/ CoreModuleHash \/ RestartCore
     \/ \E h \in Cores : SameCore(h) \/ InflateError(h)
  /\ UNCHANGED uvars

\* Handlers that replace the script engine, and end what runs in it.
CoreReplaced ==
  /\ \/ StopCore \/ DumpCoreModuleEx
     \/ \E c, h \in Cores : HashMismatch(c, h) \/ NewCore(c, h)
  /\ jobs' = {}
  /\ UNCHANGED <<files, srv, perform, stage, service, sound>>

UInit ==
  /\ Init
  /\ exe = Old /\ upd = None /\ unz = None /\ jobs = {} /\ srv = NoServer
  /\ perform = FALSE /\ stage = "none" /\ service \in BOOLEAN /\ sound = {Old}

UNext ==
  \/ \E reset, noUpdate \in BOOLEAN : StartProcess(reset, noUpdate)
  \/ Die \/ DieInExchange \/ Reinstall \/ CoreHandler \/ CoreReplaced
  \/ Connected \/ Disconnected
  \/ \E u \in Updates : AgentUpdate_Start(u)
  \/ \E ok \in BOOLEAN : AgentUpdateBlock(ok)
  \/ AgentUpdate_EndMismatch \/ AgentUpdate_End \/ AgentUpdate_EndZip
  \/ \E j \in jobs : UnzipOpen(j) \/ UnzipWrite(j) \/ UnzipFails(j) \/ UnzipDone(j)
  \/ ChainEnds \/ Exchange_mv \/ Exchange_remove \/ Exchange_cp \/ Exchange_execv

USpec == UInit /\ [][UNext]_allVars

\* The timeout of the core fires in the end, whatever the update does.
FairUSpec == USpec /\ WF_allVars(ServerTimeout /\ UNCHANGED uvars)

-----------------------------------------------------------------------------
Pieces == {Junk} \cup (Updates \X (1 .. 2 * Blocks))
Files  == {None, Old} \cup Seq(Pieces)

UTypeOK ==
  /\ TypeOK
  /\ {exe, upd, unz} \subseteq Files
  /\ \A j \in jobs : j \in [n : 1 .. MaxJobs, u : Zipped, pc : {"open", "write"},
                              pos : 0 .. Blocks, linked : BOOLEAN]
  /\ srv.on => srv.u \in Updates \cup {None} /\ srv.next \in 0 .. Blocks + 1
  /\ perform \in BOOLEAN /\ service \in BOOLEAN
  /\ stage \in {"none", "mv", "remove", "cp", "copying"}
  /\ sound \subseteq Files
  /\ perform \/ jobs # {} \/ srv.on => up

\* "Everything looks good, lets perform the update": from the moment the chain is told to
\* stop until the exchange is over, ".update" is all of an update whose hash was right,
\* unzipped if it was zipped.
UpdateConsistent == perform \/ stage # "none" => upd \in sound

\* The installed executable is the first one or all of an update whose hash was right,
\* while the agent runs and at any time when it is a service, a kill in the middle of the
\* update included; outside of a service it is missing while the new one is copied.
ExeSound == service \/ up => exe \in sound
=============================================================================

-------------------------- MODULE SelfUpdate_proofs --------------------------
(***************************************************************************)
(* Proofs about SelfUpdate, for every set of cores and updates: the update *)
(* leaves the core alone, and, as long as the server does not begin again  *)
(* while an update is unzipped and the disk is not full, what is installed *)
(* is what was verified.                                                   *)
(***************************************************************************)
EXTENDS SelfUpdate, CoreModule_proofs

\* A step of the agent with its update is a step of the core, or none.
LEMMA StepOfCore ==
  ASSUME [UNext]_allVars
  PROVE  [Next]_vars
<1>1. CASE UNCHANGED allVars
  BY <1>1 DEF allVars
<1>2. CASE \E reset, noUpdate \in BOOLEAN : StartProcess(reset, noUpdate)
  BY <1>2 DEF StartProcess, Next
<1>3. CASE Die \/ ChainEnds
  BY <1>3 DEF Die, ChainEnds, Next
<1>4. CASE CoreHandler
  BY <1>4 DEF CoreHandler, Next
<1>5. CASE CoreReplaced
  BY <1>5 DEF CoreReplaced, Next
<1>6. CASE \/ DieInExchange \/ Reinstall \/ Connected \/ Disconnected
           \/ Exchange_mv \/ Exchange_remove \/ Exchange_cp \/ Exchange_execv
  BY <1>6 DEF DieInExchange, Reinstall, Connected, Disconnected,
              Exchange_mv, Exchange_remove, Exchange_cp, Exchange_execv
<1>7. CASE \/ \E u \in Updates : AgentUpdate_Start(u)
           \/ \E ok \in BOOLEAN : AgentUpdateBlock(ok)
           \/ AgentUpdate_EndMismatch \/ AgentUpdate_End \/ AgentUpdate_EndZip
  BY <1>7 DEF AgentUpdate_Start, AgentUpdateBlock, AgentUpdate_EndMismatch,
              AgentUpdate_End, AgentUpdate_EndZip
<1>8. CASE \E j \in jobs : UnzipOpen(j) \/ UnzipWrite(j) \/ UnzipFails(j) \/ UnzipDone(j)
  BY <1>8 DEF UnzipOpen, UnzipWrite, UnzipFails, UnzipDone
<1>9. QED
  BY <1>1, <1>2, <1>3, <1>4, <1>5, <1>6, <1>7, <1>8 DEF UNext

\* The agent with its update implements the core module's specification: nothing the
\* download, the unzipping or the exchange does is seen by MeshServer_ProcessCommand's
\* handling of the core, other than as a start or an end of the process.
THEOREM UpdateImplementsCore == USpec => Spec
<1>1. UInit => Init
  BY DEF UInit
<1>2. [UNext]_allVars => [Next]_vars
  BY StepOfCore
<1>3. QED
  BY <1>1, <1>2, PTL DEF USpec, Spec

\* So the core's properties hold of the agent with its update.
THEOREM CoreCorrectWithUpdate == USpec => [](RunsOrWaits /\ RunsVerified /\ ToldTruth)
BY UpdateImplementsCore, CoreCorrect, PTL

-----------------------------------------------------------------------------
\* The unzip under way has written the first pieces of what its update unzips to.
JobOk(j) ==
  /\ j.pos \in 0 .. Blocks
  /\ Unzipped(j.u) \in sound
  /\ j.pc = "open" => j.pos = 0
  /\ j.pc = "write" => /\ j.linked = TRUE
                       /\ unz = [i \in 1 .. j.pos |-> <<j.u, Blocks + i>>]

\* The server sends blocks only while nothing is unzipped and no exchange is due.
DownloadAlone == srv.next # 0 => srv.on /\ jobs = {} /\ ~perform

\* At most one unzip, and no exchange before it is done.
OneJob ==
  /\ \A j, k \in jobs : j = k
  /\ jobs # {} => ~perform
  /\ \A j \in jobs : JobOk(j)

\* The exchange runs without the chain, and how is settled by the kind of process.
StagesApart ==
  /\ stage \in {"none", "mv", "remove", "cp", "copying"}
  /\ stage # "none" => ~up
  /\ stage = "mv" => service
  /\ stage \in {"remove", "cp", "copying"} => ~service
  /\ perform \/ jobs # {} \/ srv.on => up

\* The inductive invariant of the update.
UpdateInv ==
  DownloadAlone /\ OneJob /\ StagesApart /\ UpdateConsistent /\ ExeSound /\ Old \in sound

\* The steps of the core and of the process.
LEMMA InvProcess ==
  ASSUME UpdateInv,
         \/ \E reset, noUpdate \in BOOLEAN : StartProcess(reset, noUpdate)
         \/ Die \/ DieInExchange \/ Reinstall \/ ChainEnds
  PROVE  UpdateInv'
<1> USE DEF UpdateInv, DownloadAlone, OneJob, JobOk, StagesApart, UpdateConsistent, ExeSound
<1>1. CASE \E reset, noUpdate \in BOOLEAN : StartProcess(reset, noUpdate)
  BY <1>1 DEF StartProcess, Start, files
<1>2. CASE Die
  BY <1>2 DEF Die, Exit, files, NoServer
<1>3. CASE DieInExchange
  BY <1>3 DEF DieInExchange, files, vars
<1>4. CASE Reinstall
  BY <1>4 DEF Reinstall, vars
<1>5. CASE ChainEnds
  BY <1>5 DEF ChainEnds, Exit, files, NoServer
<1>6. QED
  BY <1>1, <1>2, <1>3, <1>4, <1>5

LEMMA InvCore ==
  ASSUME UpdateInv, CoreHandler \/ CoreReplaced
  PROVE  UpdateInv'
<1>1. up' = up
  <2>1. CASE CoreHandler
    BY <2>1 DEF CoreHandler, ServerTimeout, CoreOk, CoreModuleHash, RestartCore, SameCore,
                InflateError
  <2>2. CASE CoreReplaced
    BY <2>2 DEF CoreReplaced, StopCore, DumpCoreModuleEx, HashMismatch, NewCore
  <2>3. QED
    BY <2>1, <2>2
<1>2. /\ UNCHANGED <<files, srv, perform, stage, service, sound>>
      /\ jobs' = jobs \/ jobs' = {}
  BY DEF CoreHandler, CoreReplaced, uvars
<1>3. QED
  BY <1>1, <1>2 DEF UpdateInv, DownloadAlone, OneJob, JobOk, StagesApart, UpdateConsistent,
                    ExeSound, files

\* The steps of the exchange.
LEMMA InvExchange ==
  ASSUME UpdateInv, Exchange_mv \/ Exchange_remove \/ Exchange_cp \/ Exchange_execv
  PROVE  UpdateInv'
<1> USE DEF UpdateInv, DownloadAlone, OneJob, JobOk, StagesApart, UpdateConsistent, ExeSound
<1>1. CASE Exchange_mv
  BY <1>1 DEF Exchange_mv, vars
<1>2. CASE Exchange_remove
  BY <1>2 DEF Exchange_remove, vars
<1>3. CASE Exchange_cp
  BY <1>3 DEF Exchange_cp, vars
<1>4. CASE Exchange_execv
  BY <1>4 DEF Exchange_execv, vars
<1>5. QED
  BY <1>1, <1>2, <1>3, <1>4

\* The steps of the download.
LEMMA InvDownload ==
  ASSUME UpdateInv, "overlap" \notin Faults,
         \/ Connected \/ Disconnected
         \/ \E u \in Updates : AgentUpdate_Start(u)
         \/ \E ok \in BOOLEAN : AgentUpdateBlock(ok)
         \/ AgentUpdate_EndMismatch \/ AgentUpdate_End
  PROVE  UpdateInv'
<1> USE DEF UpdateInv, DownloadAlone, OneJob, JobOk, StagesApart, UpdateConsistent, ExeSound
<1>1. CASE Connected
  BY <1>1 DEF Connected, Asking, Server, vars, files
<1>2. CASE Disconnected
  BY <1>2 DEF Disconnected, NoServer, vars, files
<1>3. CASE \E u \in Updates : AgentUpdate_Start(u)
  BY <1>3 DEF AgentUpdate_Start, Server, vars
<1>4. CASE \E ok \in BOOLEAN : AgentUpdateBlock(ok)
  BY <1>4 DEF AgentUpdateBlock, Server, vars, Blocks
<1>5. CASE AgentUpdate_EndMismatch
  BY <1>5 DEF AgentUpdate_EndMismatch, AtEnd, Done, Server, vars, Blocks
<1>6. CASE AgentUpdate_End
  <2>1. upd \in sound'
    BY <1>6 DEF AgentUpdate_End, HashOk, Installs
  <2>2. jobs = {} /\ srv.on
    BY <1>6 DEF AgentUpdate_End, AtEnd, Blocks
  <2>3. QED
    BY <1>6, <2>1, <2>2 DEF AgentUpdate_End, Done, Server, AtEnd, vars, files
<1>7. QED
  BY <1>1, <1>2, <1>3, <1>4, <1>5, <1>6

\* The unzip begins: nothing else was under way.
LEMMA InvEndZip ==
  ASSUME UpdateInv, AgentUpdate_EndZip
  PROVE  UpdateInv'
<1> USE DEF UpdateInv, DownloadAlone, OneJob, JobOk, StagesApart, UpdateConsistent, ExeSound
<1>1. jobs = {} /\ ~perform /\ srv.on /\ up
  BY DEF AgentUpdate_EndZip, AtEnd, Blocks
<1>2. PICK n \in 1 .. MaxJobs : jobs' = {Job(n, srv.u, "open", 0, FALSE)}
  BY <1>1 DEF AgentUpdate_EndZip
<1>3. Unzipped(srv.u) \in sound'
  BY DEF AgentUpdate_EndZip, Installs
<1>4. OneJob'
  BY <1>1, <1>2, <1>3 DEF AgentUpdate_EndZip, Job, Blocks, Unzipped
<1>5. QED
  BY <1>1, <1>2, <1>4 DEF AgentUpdate_EndZip, Done, Server, vars, files

\* A piece written where the stream is makes the next prefix.
LEMMA PutNext ==
  ASSUME NEW u, NEW k \in 0 .. Blocks - 1, NEW f, f = [i \in 1 .. k |-> <<u, Blocks + i>>]
  PROVE  Put(f, k + 1, <<u, Blocks + (k + 1)>>) = [i \in 1 .. k + 1 |-> <<u, Blocks + i>>]
<1>1. Len(f) = k
  BY DEF Blocks
<1>2. Put(f, k + 1, <<u, Blocks + (k + 1)>>)
        = [i \in 1 .. k + 1 |-> IF i = k + 1 THEN <<u, Blocks + (k + 1)>>
                                ELSE IF i <= k THEN f[i] ELSE Junk]
  BY <1>1 DEF Put, Blocks
<1>3. \A i \in 1 .. k + 1 : (IF i = k + 1 THEN <<u, Blocks + (k + 1)>>
                              ELSE IF i <= k THEN f[i] ELSE Junk) = <<u, Blocks + i>>
  BY DEF Blocks
<1>4. QED
  BY <1>2, <1>3

\* One stream that has written the first pieces.
LEMMA OneWriter ==
  ASSUME NEW n, NEW u, NEW p \in 0 .. Blocks, Unzipped(u) \in sound', ~perform',
         jobs' = {Job(n, u, "write", p, TRUE)},
         unz' = [i \in 1 .. p |-> <<u, Blocks + i>>]
  PROVE  OneJob'
<1> DEFINE k == Job(n, u, "write", p, TRUE)
<1>1. k.u = u /\ k.pc = "write" /\ k.pos = p /\ k.linked = TRUE
  BY DEF Job
<1>2. jobs' = {k}
  OBVIOUS
<1> HIDE DEF k
<1>3. /\ k.pos \in 0 .. Blocks
      /\ Unzipped(k.u) \in sound'
      /\ k.pc # "open"
      /\ k.linked = TRUE
  BY <1>1
<1>4. unz' = [i \in 1 .. k.pos |-> <<k.u, Blocks + i>>]
  BY <1>1
<1>5. QED
  BY <1>2, <1>3, <1>4, Zenon DEF OneJob, JobOk

\* The steps of the unzip.
LEMMA InvUnzip ==
  ASSUME UpdateInv, "full" \notin Faults, NEW j \in jobs,
         UnzipOpen(j) \/ UnzipWrite(j) \/ UnzipFails(j) \/ UnzipDone(j)
  PROVE  UpdateInv'
<1> USE DEF UpdateInv, DownloadAlone, OneJob, JobOk, StagesApart, UpdateConsistent, ExeSound
<1>1. jobs = {j} /\ ~perform /\ up /\ stage = "none" /\ srv.next = 0 /\ JobOk(j)
  OBVIOUS
<1>2. CASE UnzipOpen(j)
  <2>1. jobs' = {Job(j.n, j.u, "write", 0, TRUE)}
    BY <1>1, <1>2 DEF UnzipOpen
  <2>2. unz' = [i \in 1 .. 0 |-> <<j.u, Blocks + i>>]
    BY <1>2 DEF UnzipOpen
  <2>3. OneJob'
    <3>1. Unzipped(j.u) \in sound' /\ ~perform' /\ 0 \in 0 .. Blocks
      BY <1>1, <1>2 DEF UnzipOpen, Blocks
    <3>2. QED
      BY <2>1, <2>2, <3>1, OneWriter
  <2>4. UNCHANGED <<up, exe, upd, srv, perform, stage, service, sound>>
    BY <1>2 DEF UnzipOpen, vars
  <2>5. DownloadAlone' /\ StagesApart' /\ UpdateConsistent' /\ ExeSound' /\ Old \in sound'
    BY <1>1, <2>4
  <2>6. QED
    BY <2>3, <2>5
<1>3. CASE UnzipWrite(j)
  <2>1. jobs' = {Job(j.n, j.u, "write", j.pos + 1, TRUE)}
    BY <1>1, <1>3 DEF UnzipWrite
  <2>2. j.pos \in 0 .. Blocks - 1
    BY <1>1, <1>3 DEF UnzipWrite, Blocks
  <2>3. unz' = Put(unz, j.pos + 1, <<j.u, Blocks + (j.pos + 1)>>)
    BY <1>1, <1>3, <2>2 DEF UnzipWrite, Cut, Unzipped, Blocks
  <2>4. unz' = [i \in 1 .. j.pos + 1 |-> <<j.u, Blocks + i>>]
    BY <1>1, <1>3, <2>2, <2>3, PutNext DEF UnzipWrite
  <2>5. OneJob'
    <3>1. Unzipped(j.u) \in sound' /\ ~perform' /\ j.pos + 1 \in 0 .. Blocks
      BY <1>1, <1>3, <2>2 DEF UnzipWrite, Blocks
    <3>2. QED
      BY <2>1, <2>4, <3>1, OneWriter
  <2>6. UNCHANGED <<up, exe, upd, srv, perform, stage, service, sound>>
    BY <1>3 DEF UnzipWrite, vars
  <2>7. DownloadAlone' /\ StagesApart' /\ UpdateConsistent' /\ ExeSound' /\ Old \in sound'
    BY <1>1, <2>6
  <2>8. QED
    BY <2>5, <2>7
<1>4. CASE UnzipFails(j)
  <2>1. jobs' = {}
    BY <1>1, <1>4 DEF UnzipFails
  <2>2. QED
    BY <1>1, <1>4, <2>1 DEF UnzipFails, vars, files
<1>5. CASE UnzipDone(j)
  <2>1. jobs' = {}
    BY <1>1, <1>5 DEF UnzipDone
  <2>2. unz = Unzipped(j.u)
    BY <1>1, <1>5 DEF UnzipDone, Unzipped
  <2>3. perform' => upd' \in sound'
    BY <1>1, <1>5, <2>2 DEF UnzipDone
  <2>4. QED
    BY <1>1, <1>5, <2>1, <2>3 DEF UnzipDone, vars
<1>6. QED
  BY <1>2, <1>3, <1>4, <1>5

\* The inductive invariant of the update, when the server does not begin again in the
\* middle of one and the disk is not full: AgentUpdate's blocks, hash, unzip and exchange
\* never overlap.
THEOREM UpdateInvariant ==
  ASSUME Faults = {}
  PROVE  USpec => []UpdateInv
<1>1. UInit => UpdateInv
  BY DEF UInit, Init, NoServer, UpdateInv, DownloadAlone, OneJob, JobOk, StagesApart,
         UpdateConsistent, ExeSound
<1>2. UpdateInv /\ [UNext]_allVars => UpdateInv'
  <2> SUFFICES ASSUME UpdateInv, [UNext]_allVars PROVE UpdateInv'
    OBVIOUS
  <2>1. CASE UNCHANGED allVars
    BY <2>1 DEF allVars, vars, uvars, files, UpdateInv, DownloadAlone, OneJob, JobOk,
                StagesApart, UpdateConsistent, ExeSound
  <2>2. CASE UNext
    BY <2>2, InvProcess, InvCore, InvExchange, InvDownload, InvEndZip, InvUnzip DEF UNext
  <2>3. QED
    BY <2>1, <2>2
<1>3. QED
  BY <1>1, <1>2, PTL DEF USpec

\* For every set of updates and however the process dies: when the exchange is due,
\* ".update" is all of an update whose hash was right (selfupdate_continue), and the
\* executable of a service, and of any agent that runs, is one that was verified.
THEOREM UpdateCorrect ==
  ASSUME Faults = {}
  PROVE  USpec => [](UpdateConsistent /\ ExeSound)
<1>1. UpdateInv => UpdateConsistent /\ ExeSound
  BY DEF UpdateInv
<1>2. QED
  BY <1>1, UpdateInvariant, PTL

-----------------------------------------------------------------------------
(* Types, whatever the faults.                                             *)

\* What the download and a script may leave in a file.
Content == {None} \cup Seq(Pieces)

Jobs == [n : 1 .. MaxJobs, u : Zipped, pc : {"open", "write"}, pos : 0 .. Blocks,
         linked : BOOLEAN]

JobsOK == \A j \in jobs : j \in Jobs /\ (j.linked = TRUE => unz \in Seq(Pieces))

SrvOK ==
  /\ srv \in [on : BOOLEAN, u : Updates \cup {None}, next : 0 .. Blocks + 1]
  /\ srv.next # 0 => srv.u \in Updates

\* The inductive invariant: a stream is linked to a file that is there, and the server
\* sends the blocks of an update.
FilesInv ==
  /\ exe \in Files /\ upd \in Content /\ unz \in Content /\ sound \subseteq Files
  /\ JobsOK /\ SrvOK
  /\ perform \in BOOLEAN /\ service \in BOOLEAN
  /\ stage \in {"none", "mv", "remove", "cp", "copying"}
  /\ perform \/ jobs # {} \/ srv.on => up

LEMMA InstallsType ==
  ASSUME NEW u \in Updates
  PROVE  /\ Whole(u) \in Seq(Pieces) /\ Unzipped(u) \in Seq(Pieces) /\ Installs(u) \in Files
<1>1. Whole(u) \in Seq(Pieces)
  BY DEF Whole, Pieces, Blocks
<1>2. Unzipped(u) \in Seq(Pieces)
  BY DEF Unzipped, Pieces, Blocks
<1> QED
  BY <1>1, <1>2 DEF Installs, Files

LEMMA PutType ==
  ASSUME NEW f \in Seq(Pieces), NEW p \in Nat \ {0}, NEW x \in Pieces
  PROVE  Put(f, p, x) \in Seq(Pieces)
<1>1. PICK n \in Nat : n = IF p <= Len(f) THEN Len(f) ELSE p
  OBVIOUS
<1>2. \A i \in 1 .. n : (IF i = p THEN x ELSE IF i <= Len(f) THEN f[i] ELSE Junk) \in Pieces
  BY <1>1 DEF Pieces
<1> QED
  BY <1>1, <1>2 DEF Put

LEMMA AppendedType ==
  ASSUME NEW f \in Content, NEW w \in Seq(Pieces)
  PROVE  Appended(f, w) \in Content
BY DEF Appended, Content

LEMMA ServerType ==
  ASSUME NEW u \in Updates \cup {None}, NEW n \in 0 .. Blocks + 1, n # 0 => u \in Updates,
         srv' = Server(u, n)
  PROVE  SrvOK'
BY DEF Server, SrvOK

LEMMA JobType ==
  ASSUME NEW n \in 1 .. MaxJobs, NEW u \in Zipped, NEW pc \in {"open", "write"},
         NEW pos \in 0 .. Blocks, NEW l \in BOOLEAN
  PROVE  /\ Job(n, u, pc, pos, l) \in Jobs
         /\ Job(n, u, pc, pos, l).linked = l
BY DEF Job, Jobs

\* The steps of the core, of the process and of the exchange.
LEMMA FilesProcess ==
  ASSUME FilesInv,
         \/ \E reset, noUpdate \in BOOLEAN : StartProcess(reset, noUpdate)
         \/ Die \/ DieInExchange \/ Reinstall \/ ChainEnds
         \/ CoreHandler \/ CoreReplaced
         \/ Exchange_mv \/ Exchange_remove \/ Exchange_cp \/ Exchange_execv
         \/ UNCHANGED allVars
  PROVE  FilesInv'
<1>0. NoServer \in [on : BOOLEAN, u : Updates \cup {None}, next : 0 .. Blocks + 1]
      /\ NoServer.next = 0 /\ NoServer.on = FALSE
  BY DEF NoServer, Blocks
<1>1. CASE \E reset, noUpdate \in BOOLEAN : StartProcess(reset, noUpdate)
  BY <1>1 DEF StartProcess, Start, files, FilesInv, JobsOK, SrvOK
<1>2. CASE Die \/ ChainEnds
  <2>1. /\ jobs' = {} /\ srv' = NoServer /\ perform' = FALSE
        /\ UNCHANGED <<exe, upd, unz, service, sound>>
        /\ stage' \in {"none", "mv", "remove", "cp", "copying"}
    BY <1>2 DEF Die, ChainEnds, files, FilesInv
  <2> QED
    BY <2>1, <1>0 DEF FilesInv, JobsOK, SrvOK
<1>3. CASE DieInExchange \/ UNCHANGED allVars
  BY <1>3 DEF DieInExchange, allVars, uvars, files, vars, FilesInv, JobsOK, SrvOK
<1>4. CASE Reinstall
  BY <1>4 DEF Reinstall, vars, FilesInv, JobsOK, SrvOK, Files
<1>5. CASE CoreHandler \/ CoreReplaced
  <2>1. up' = up
    <3>1. CASE CoreHandler
      BY <3>1 DEF CoreHandler, ServerTimeout, CoreOk, CoreModuleHash, RestartCore, SameCore,
                  InflateError
    <3>2. CASE CoreReplaced
      BY <3>2 DEF CoreReplaced, StopCore, DumpCoreModuleEx, HashMismatch, NewCore
    <3> QED
      BY <1>5, <3>1, <3>2
  <2>2. /\ UNCHANGED <<exe, upd, unz, srv, perform, stage, service, sound>>
        /\ jobs' = jobs \/ jobs' = {}
    BY <1>5 DEF CoreHandler, CoreReplaced, uvars, files
  <2> QED
    BY <2>1, <2>2 DEF FilesInv, JobsOK, SrvOK
<1>6. CASE Exchange_mv \/ Exchange_remove \/ Exchange_cp \/ Exchange_execv
  <2>1. Content \subseteq Files /\ None \in Content /\ <<Junk>> \in Content
    BY DEF Content, Files, Pieces
  <2>2. /\ exe' \in {exe, upd, None, <<Junk>>} /\ upd' \in {upd, None}
        /\ stage' \in {"none", "cp", "copying"}
        /\ UNCHANGED <<up, unz, jobs, srv, perform, service, sound>>
    BY <1>6 DEF Exchange_mv, Exchange_remove, Exchange_cp, Exchange_execv, vars
  <2> QED
    BY <2>1, <2>2 DEF FilesInv, JobsOK, SrvOK
<1> QED
  BY <1>1, <1>2, <1>3, <1>4, <1>5, <1>6

LEMMA FilesDownload ==
  ASSUME FilesInv,
         \/ Connected \/ Disconnected
         \/ \E u \in Updates : AgentUpdate_Start(u)
         \/ \E ok \in BOOLEAN : AgentUpdateBlock(ok)
         \/ AgentUpdate_EndMismatch \/ AgentUpdate_End \/ AgentUpdate_EndZip
  PROVE  FilesInv'
<1>0. /\ None \in Content /\ srv.u \in Updates \cup {None} /\ srv.next \in 0 .. Blocks + 1
      /\ (srv.next # 0 => srv.u \in Updates)
      /\ Blocks = 2
  BY DEF Content, FilesInv, SrvOK, Blocks
<1>1. CASE Connected
  <2>1. SrvOK'
    BY <1>0, <1>1, ServerType DEF Connected, Asking
  <2> QED
    BY <1>1, <2>1 DEF Connected, vars, files, FilesInv, JobsOK
<1>2. CASE Disconnected
  <2>1. SrvOK' /\ srv'.on = FALSE
    BY <1>0, <1>2 DEF Disconnected, NoServer, SrvOK
  <2> QED
    BY <1>2, <2>1 DEF Disconnected, vars, files, FilesInv, JobsOK
<1>3. ASSUME NEW u \in Updates, AgentUpdate_Start(u) PROVE FilesInv'
  <2>1. SrvOK'
    BY <1>0, <1>3, ServerType DEF AgentUpdate_Start
  <2> QED
    BY <1>0, <1>3, <2>1 DEF AgentUpdate_Start, vars, FilesInv, JobsOK
<1>4. ASSUME NEW ok \in BOOLEAN, AgentUpdateBlock(ok) PROVE FilesInv'
  <2>1. srv.next \in 1 .. Blocks /\ srv.u \in Updates /\ up
    BY <1>0, <1>4 DEF AgentUpdateBlock
  <2>2. SrvOK'
    <3>1. PICK n \in 0 .. Blocks + 1 : n = IF ok THEN srv.next + 1 ELSE 0
      BY <1>0, <2>1
    <3> QED
      BY <1>4, <2>1, <3>1, ServerType DEF AgentUpdateBlock
  <2>3. upd' \in Content
    <3>1. <<srv.u, srv.next>> \in Pieces /\ Junk \in Pieces
      BY <1>0, <2>1 DEF Pieces
    <3>2. Written(<<srv.u, srv.next>>, ok) \subseteq Seq(Pieces)
      <4>1. PICK b \in Pieces : b = <<srv.u, srv.next>>
        BY <3>1
      <4>2. /\ <<>> \in Seq(Pieces) /\ <<Junk>> \in Seq(Pieces) /\ <<b>> \in Seq(Pieces)
            /\ <<Junk, b>> \in Seq(Pieces)
        BY <3>1
      <4>3. Written(b, ok) \subseteq Seq(Pieces)
        BY <4>2 DEF Written
      <4> QED
        BY <4>1, <4>3
    <3>3. PICK w \in Written(<<srv.u, srv.next>>, ok) : upd' = Appended(upd, w)
      BY <1>4 DEF AgentUpdateBlock
    <3> QED
      BY <3>2, <3>3, AppendedType DEF FilesInv
  <2> QED
    BY <1>4, <2>1, <2>2, <2>3 DEF AgentUpdateBlock, vars, FilesInv, JobsOK
<1>5. CASE AgentUpdate_EndMismatch
  <2>1. SrvOK'
    BY <1>0, <1>5, ServerType DEF AgentUpdate_EndMismatch, Done
  <2> QED
    BY <1>0, <1>5, <2>1 DEF AgentUpdate_EndMismatch, AtEnd, vars, FilesInv, JobsOK
<1>6. CASE AgentUpdate_End
  <2>1. SrvOK'
    BY <1>0, <1>6, ServerType DEF AgentUpdate_End, Done
  <2>2. Installs(srv.u) \in Files
    BY <1>0, <1>6, InstallsType DEF AgentUpdate_End, AtEnd
  <2> QED
    BY <1>6, <2>1, <2>2 DEF AgentUpdate_End, AtEnd, vars, files, FilesInv, JobsOK
<1>7. CASE AgentUpdate_EndZip
  <2>1. SrvOK'
    BY <1>0, <1>7, ServerType DEF AgentUpdate_EndZip, Done
  <2>2. Installs(srv.u) \in Files /\ srv.u \in Zipped /\ up
    BY <1>0, <1>7, InstallsType DEF AgentUpdate_EndZip, AtEnd
  <2>3. PICK n \in 1 .. MaxJobs : jobs' = jobs \cup {Job(n, srv.u, "open", 0, FALSE)}
    BY <1>7 DEF AgentUpdate_EndZip
  <2>4. Job(n, srv.u, "open", 0, FALSE) \in Jobs /\ Job(n, srv.u, "open", 0, FALSE).linked = FALSE
    <3>1. "open" \in {"open", "write"} /\ 0 \in 0 .. Blocks /\ FALSE \in BOOLEAN
      BY <1>0
    <3> QED
      BY <2>2, <3>1, JobType
  <2>5. JobsOK'
    BY <2>3, <2>4, <1>7 DEF JobsOK, FilesInv, AgentUpdate_EndZip, files
  <2> QED
    BY <1>7, <2>1, <2>2, <2>5 DEF AgentUpdate_EndZip, vars, files, FilesInv
<1> QED
  BY <1>1, <1>2, <1>3, <1>4, <1>5, <1>6, <1>7

LEMMA FilesUnzip ==
  ASSUME FilesInv, NEW j \in jobs,
         UnzipOpen(j) \/ UnzipWrite(j) \/ UnzipFails(j) \/ UnzipDone(j)
  PROVE  FilesInv'
<1>0. /\ j \in Jobs /\ j.n \in 1 .. MaxJobs /\ j.u \in Zipped /\ j.pos \in 0 .. Blocks
      /\ j.pc \in {"open", "write"} /\ j.linked \in BOOLEAN /\ Blocks = 2 /\ up
  BY DEF FilesInv, JobsOK, Jobs, Blocks
<1>1. CASE UnzipOpen(j)
  <2>1. /\ Job(j.n, j.u, "write", j.pos, TRUE) \in Jobs
        /\ jobs' = (jobs \ {j}) \cup {Job(j.n, j.u, "write", j.pos, TRUE)}
        /\ unz' \in Seq(Pieces)
    <3>1. "write" \in {"open", "write"} /\ TRUE \in BOOLEAN
      OBVIOUS
    <3>2. unz' = <<>> /\ jobs' = (jobs \ {j}) \cup {Job(j.n, j.u, "write", j.pos, TRUE)}
      BY <1>1 DEF UnzipOpen
    <3>3. <<>> \in Seq(Pieces)
      OBVIOUS
    <3>4. Job(j.n, j.u, "write", j.pos, TRUE) \in Jobs
      BY <1>0, <3>1, JobType
    <3> QED
      BY <3>2, <3>3, <3>4
  <2>2. JobsOK'
    BY <2>1 DEF FilesInv, JobsOK
  <2> QED
    BY <1>0, <1>1, <2>1, <2>2 DEF UnzipOpen, vars, FilesInv, SrvOK, Content
<1>2. CASE UnzipWrite(j)
  <2>1. /\ Job(j.n, j.u, j.pc, j.pos + 1, j.linked) \in Jobs
        /\ Job(j.n, j.u, j.pc, j.pos + 1, j.linked).linked = j.linked
    <3>1. j.pos + 1 \in 0 .. Blocks
      BY <1>0, <1>2 DEF UnzipWrite
    <3> QED
      BY <3>1, <1>0, JobType
  <2>2. jobs' = (jobs \ {j}) \cup {Job(j.n, j.u, j.pc, j.pos + 1, j.linked)}
    BY <1>2 DEF UnzipWrite
  <2>3. PICK x \in Cut(Unzipped(j.u)[j.pos + 1]) :
          unz' = IF j.linked THEN Put(unz, j.pos + 1, x) ELSE unz
    BY <1>2 DEF UnzipWrite
  <2>4. x \in Pieces
    <3>1. j.u \in Updates
      BY <1>0, UpdatesAssumption
    <3>2. Unzipped(j.u)[j.pos + 1] \in Pieces
      BY <3>1, <1>0, <1>2, InstallsType DEF UnzipWrite, Unzipped
    <3> QED
      BY <3>2, <2>3 DEF Cut, Pieces
  <2>5. (unz \in Seq(Pieces) => unz' \in Seq(Pieces)) /\ unz' \in Content
    <3>1. CASE j.linked = TRUE
      <4>1. unz \in Seq(Pieces)
        BY <3>1 DEF FilesInv, JobsOK
      <4>2. Put(unz, j.pos + 1, x) \in Seq(Pieces)
        BY <4>1, <2>4, <1>0, PutType
      <4> QED
        BY <3>1, <4>2, <2>3 DEF Content
    <3>2. CASE j.linked = FALSE
      BY <3>2, <2>3 DEF FilesInv
    <3> QED
      BY <3>1, <3>2, <1>0
  <2>6. JobsOK'
    BY <2>1, <2>2, <2>5 DEF FilesInv, JobsOK
  <2> QED
    BY <1>0, <1>2, <2>5, <2>6 DEF UnzipWrite, vars, FilesInv, SrvOK
<1>3. CASE UnzipFails(j)
  <2>1. jobs' \subseteq jobs /\ UNCHANGED <<up, exe, upd, unz, srv, perform, stage, service, sound>>
    BY <1>3 DEF UnzipFails, vars, files
  <2> QED
    BY <1>0, <2>1 DEF FilesInv, JobsOK, SrvOK
<1>4. CASE UnzipDone(j)
  <2>1. UNCHANGED <<up, exe, srv, stage, service, sound>> /\ perform' \in BOOLEAN
    BY <1>4 DEF UnzipDone, vars, FilesInv
  <2>2. upd' \in Content
    <3>1. <<Junk>> \in Content /\ None \in Content
      BY DEF Content, Pieces
    <3> QED
      BY <3>1, <1>4 DEF UnzipDone, FilesInv
  <2>3. JobsOK' /\ unz' \in Content
    <3>1. CASE upd # None /\ unz # None
      <4>1. unz' = None /\ jobs' = {Job(k.n, k.u, k.pc, k.pos, FALSE) : k \in jobs \ {j}}
        BY <1>4, <3>1 DEF UnzipDone
      <4>2. \A k \in jobs : /\ Job(k.n, k.u, k.pc, k.pos, FALSE) \in Jobs
                            /\ Job(k.n, k.u, k.pc, k.pos, FALSE).linked = FALSE
        <5> SUFFICES ASSUME NEW k \in jobs
                     PROVE  /\ Job(k.n, k.u, k.pc, k.pos, FALSE) \in Jobs
                            /\ Job(k.n, k.u, k.pc, k.pos, FALSE).linked = FALSE
          OBVIOUS
        <5>1. /\ k.n \in 1 .. MaxJobs /\ k.u \in Zipped /\ k.pos \in 0 .. Blocks
              /\ k.pc \in {"open", "write"}
          BY DEF FilesInv, JobsOK, Jobs
        <5> QED
          BY <5>1, JobType
      <4> QED
        BY <4>1, <4>2 DEF JobsOK, Content
    <3>2. CASE ~(upd # None /\ unz # None)
      BY <1>4, <3>2 DEF UnzipDone, FilesInv, JobsOK
    <3> QED
      BY <3>1, <3>2
  <2> QED
    BY <1>0, <2>1, <2>2, <2>3 DEF FilesInv, SrvOK
<1> QED
  BY <1>1, <1>2, <1>3, <1>4

\* The files of the update, the server, the unzips and the stages of the exchange keep
\* their types, and nothing of the update is under way without the process, also when the
\* server begins again in the middle of an update and when the disk is full.
THEOREM UpdateTypes == USpec => []UTypeOK
<1>1. UInit => FilesInv
  <2> SUFFICES ASSUME UInit PROVE FilesInv
    OBVIOUS
  <2>1. SrvOK /\ srv.on = FALSE
    BY DEF UInit, NoServer, SrvOK, Blocks
  <2>2. JobsOK /\ exe \in Files /\ upd \in Content /\ unz \in Content /\ sound \subseteq Files
    BY DEF UInit, JobsOK, Files, Content
  <2>3. perform \in BOOLEAN /\ service \in BOOLEAN /\ stage = "none"
    BY Zenon DEF UInit
  <2> QED
    BY <2>1, <2>2, <2>3 DEF UInit, FilesInv
<1>2. FilesInv /\ [UNext]_allVars => FilesInv'
  BY FilesProcess, FilesDownload, FilesUnzip DEF UNext
<1>3. CoreInv /\ FilesInv => UTypeOK
  <2> SUFFICES ASSUME CoreInv, FilesInv PROVE UTypeOK
    OBVIOUS
  <2>1. TypeOK
    BY InvIsSound DEF CoreInv
  <2>2. {exe, upd, unz} \subseteq Files
    BY DEF FilesInv, Content, Files
  <2> QED
    BY <2>1, <2>2 DEF FilesInv, JobsOK, Jobs, SrvOK, UTypeOK
<1> QED
  BY <1>1, <1>2, <1>3, UpdateImplementsCore, CoreInvariant, PTL DEF USpec
=============================================================================

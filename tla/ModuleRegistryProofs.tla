------------------------ MODULE ModuleRegistryProofs ------------------------
(***************************************************************************)
(* Proofs about ModuleRegistry, for any number of versions, archives and   *)
(* client sessions.  A request meets at most one fault: with two, a failed *)
(* upload can fail to put artifact.json back as well.                      *)
(***************************************************************************)
EXTENDS ModuleRegistry, FiniteSetTheorems, WellFoundedInduction, TLAPS

-----------------------------------------------------------------------------
(* The inductive invariant: the server *)

(* artifact.json names an archive that is there.                           *)
Whole(d) == d.meta # None => d.meta \in d.archives

(* The directory as it is once artifact.json is put back.                  *)
Former == [dir[req.v] EXCEPT !.meta = undo.meta]

(* What was told to be published before the request is x, and is listed.   *)
Stands(v, x) == acked[v] # None => x = acked[v] /\ v \in index

(* A directory to which the upload can return: it serves what was served,  *)
(* and does not need an archive that the upload brought.                   *)
Retreat(d) ==
    /\ Whole(d)
    /\ undo.existed \/ d.meta # req.c
    /\ Served(d) = undo.was

(* artifact.json names the archive that is being uploaded.                 *)
Switched == dir[req.v].meta = req.c /\ req.c \in dir[req.v].archives

(* What an upload has done and what it can still undo, where it stands.    *)
UploadUnderway ==
    /\ pc \in UploadPCs => req.c \in Contents
    /\ pc \in UploadPCs \ {"dropOld"} => Stands(req.v, undo.was)
    /\ pc = "putMeta" => req.c \in dir[req.v].archives
    /\ pc \in {"putMeta", "dropArchive"} => Retreat(dir[req.v])
    /\ pc \in {"addIndex", "restoreMeta", "dropOld"} => Switched
    /\ pc = "restoreMeta" \/ (pc = "addIndex" /\ faults = 0) => Retreat(Former)
    /\ pc = "dropOld" => req.v \in index

(* A delete has the version staged until it is rolled back.                *)
DeleteUnderway ==
    /\ pc \in DeletePCs => dir[req.v] = NoDir
    /\ pc \in {"unindex", "rollback"} => Whole(staged) /\ Stands(req.v, Served(staged))

(* A request begins without faults, and restoring artifact.json is a       *)
(* reaction to the one fault there may be.                                 *)
Faults ==
    /\ pc \in {"idle", "putMeta"} => faults = 0
    /\ pc = "restoreMeta" => faults = MaxFaults

Server ==
    /\ \A v \in Versions : Whole(dir[v])
    /\ AckedStaysServed
    /\ UploadUnderway
    /\ DeleteUnderway
    /\ Faults

-----------------------------------------------------------------------------
(* The inductive invariant: the sessions *)

(* What is served now counts as served in the session.                     *)
Seen(s) == session[s].pc # "idle" => ServedNow \subseteq shown[s]

(* The file that session r was told of is among those that were served in  *)
(* it, S; or module.tar.gz was.                                            *)
Found(r, S) ==
    r.pc \in {"exists", "fetch"} =>
        IF r.file = None
        THEN <<r.v, None>> \in S \/ <<r.v, dir[r.v].legacy>> \in S
        ELSE <<r.v, r.file>> \in S

(* A version that was on offer all the time, in A, is not passed over: it  *)
(* is among those still to be tried, or the one being tried, which is      *)
(* newer than all that are left.                                           *)
Untried(r, A) ==
    r.latest =>
        /\ r.pc = "next" => \A o \in A : o[1] \in r.rest
        /\ r.pc \in {"deprecated", "meta", "exists"} =>
              /\ \A w \in r.rest : w <= r.v
              /\ \A o \in A : o[1] \in r.rest \cup {r.v}
        /\ r.pc = "exists" => \A o \in A : o[1] = r.v => o[2] = r.file

Client(s) ==
    /\ Seen(s)
    /\ Found(session[s], shown[s])
    /\ Untried(session[s], always[s])
    /\ always[s] \subseteq Offered

IInv == TypeOK /\ Server /\ \A s \in Sessions : Client(s)

-----------------------------------------------------------------------------
(* Directories *)

(* A directory whose artifact.json is right serves what that names, and    *)
(* without one module.tar.gz.                                              *)
LEMMA ServedWhole ==
    ASSUME NEW d \in Dirs, Whole(d)
    PROVE  Served(d) = IF d.meta = None THEN d.legacy ELSE d.meta
BY NoneAssumption DEF Served, Whole, Dirs, Files

(* What is served is an archive, or nothing.                               *)
LEMMA ServedType == ASSUME NEW d \in Dirs PROVE Served(d) \in Files
BY DEF Served, Dirs, Files

(* The empty directory is one, and serves nothing.                         *)
LEMMA NoDirServes ==
    /\ NoDir \in Dirs /\ Whole(NoDir) /\ Served(NoDir) = None
    /\ NoDir.legacy = None /\ NoDir.meta = None /\ NoDir.archives = {}
<1>1. NoDir \in Dirs /\ NoDir.legacy = None /\ NoDir.meta = None /\ NoDir.archives = {}
    BY DEF NoDir, Dirs, Files
<1>2. Whole(NoDir)
    BY <1>1 DEF Whole
<1> QED
    BY <1>1, <1>2, ServedWhole

(* Removing an empty directory changes nothing that a reader can tell.     *)
LEMMA PruneKeeps ==
    ASSUME NEW d \in Dirs
    PROVE  /\ Prune(d) \in Dirs /\ Prune(d).legacy = d.legacy
           /\ Prune(d).meta = d.meta /\ Prune(d).archives = d.archives
<1>1. CASE [d EXCEPT !.exists = FALSE] = NoDir
  <2>1. PICK e : e = [d EXCEPT !.exists = FALSE]
      OBVIOUS
  <2>2. e.legacy = d.legacy /\ e.meta = d.meta /\ e.archives = d.archives
      BY <2>1 DEF Dirs
  <2> QED
      BY <1>1, <2>1, <2>2, NoDirServes DEF Prune
<1>2. CASE [d EXCEPT !.exists = FALSE] # NoDir
    BY <1>2 DEF Prune
<1> QED
    BY <1>1, <1>2

-----------------------------------------------------------------------------
(* The types *)

HandlerTypes ==
    /\ dir \in [Versions -> Dirs]
    /\ index \subseteq Versions
    /\ up \in BOOLEAN
    /\ pc \in {"idle"} \cup UploadPCs \cup DeletePCs
    /\ req \in [v : Versions \cup {None}, c : Files]
    /\ undo \in [existed : BOOLEAN, meta : Files, was : Files]
    /\ staged \in Dirs
    /\ faults \in 0..MaxFaults
    /\ answer \in {"none", "ok", "error"}
    /\ acked \in [Versions -> Files]
    /\ pc # "idle" => up /\ req.v \in Versions

Records ==
    [pc : {"idle", "next", "deprecated", "meta", "exists", "fetch"},
     latest : BOOLEAN, rest : SUBSET Versions, v : Versions \cup {None}, file : Files]

SessionTypes ==
    /\ session \in [Sessions -> Records]
    /\ shown \in [Sessions -> SUBSET (Versions \X Files)]
    /\ always \in [Sessions -> SUBSET (Versions \X Files)]
    /\ \A s \in Sessions :
          session[s].pc \in {"deprecated", "meta", "exists", "fetch"}
              => session[s].v \in Versions

(* The type invariant speaks of the server and of the sessions.            *)
LEMMA TypeOKParts == (TypeOK <=> HandlerTypes /\ SessionTypes)
                     /\ (TypeOK' <=> HandlerTypes' /\ SessionTypes')
BY DEF TypeOK, HandlerTypes, SessionTypes, Records

-----------------------------------------------------------------------------
(* The sessions, while the server takes a step *)

(* No module.tar.gz appears or changes where something was served.         *)
LegacyStays ==
    \A v \in Versions :
        dir'[v].legacy = dir[v].legacy \/ Served(dir[v]) = None \/ Served(dir'[v]) = None

(* They go on as they are, and see what is served from then on.            *)
LEMMA WatchStep ==
    ASSUME IInv, Watch, LegacyStays, HandlerTypes'
    PROVE  SessionTypes' /\ \A s \in Sessions : Client(s)'
<1>1. SessionTypes /\ HandlerTypes
    BY TypeOKParts DEF IInv
<1>2. ServedNow' \subseteq Versions \X Files /\ Offered' \subseteq Versions \X Files
  <2>1. dir' \in [Versions -> Dirs] /\ index' \subseteq Versions
      BY DEF HandlerTypes
  <2>2. ServedNow' \subseteq Versions \X Files
      BY <2>1, ServedType DEF ServedNow
  <2>3. \A v \in Versions : dir'[v].meta \in Files
      BY <2>1 DEF Dirs
  <2> QED
      BY <2>1, <2>2, <2>3 DEF Offered
<1>3. SessionTypes'
    BY <1>1, <1>2 DEF SessionTypes, Watch
<1>4. ASSUME NEW s \in Sessions PROVE Client(s)'
  <2>1. PICK r : r = session[s]
      OBVIOUS
  <2>2. session'[s] = r /\ r \in Records
      BY <1>1, <2>1 DEF Watch, SessionTypes
  <2>3. r.pc # "idle" => shown[s] \subseteq shown'[s] /\ ServedNow' \subseteq shown'[s]
      BY <2>1 DEF Watch
  <2>4. always'[s] \subseteq always[s] /\ always'[s] \subseteq Offered'
      BY DEF Watch
  <2>5. Seen(s)'
      BY <2>2, <2>3 DEF Seen
  <2>6. Found(session[s], shown[s])'
    <3>1. SUFFICES ASSUME r.pc \in {"exists", "fetch"}
                   PROVE  IF r.file = None
                          THEN <<r.v, None>> \in shown'[s] \/ <<r.v, dir'[r.v].legacy>> \in shown'[s]
                          ELSE <<r.v, r.file>> \in shown'[s]
        BY <2>2 DEF Found
    <3>2. r.v \in Versions /\ shown[s] \subseteq shown'[s] /\ ServedNow' \subseteq shown'[s]
        BY <1>1, <2>1, <2>3, <3>1 DEF SessionTypes
    <3>3. ServedNow \subseteq shown[s]
        BY <2>1, <3>1 DEF IInv, Client, Seen
    <3>4. <<r.v, Served(dir[r.v])>> \in shown'[s] /\ <<r.v, Served(dir'[r.v])>> \in shown'[s]
        BY <3>2, <3>3 DEF ServedNow
    <3>5. IF r.file = None
          THEN <<r.v, None>> \in shown[s] \/ <<r.v, dir[r.v].legacy>> \in shown[s]
          ELSE <<r.v, r.file>> \in shown[s]
        BY <2>1, <3>1 DEF IInv, Client, Found
    <3>6. dir'[r.v].legacy = dir[r.v].legacy \/ Served(dir[r.v]) = None \/ Served(dir'[r.v]) = None
        BY <3>2 DEF LegacyStays
    <3> QED
        BY <3>2, <3>4, <3>5, <3>6
  <2>7. Untried(session[s], always[s])'
      BY <2>1, <2>2, <2>4 DEF IInv, Client, Untried
  <2> QED
      BY <2>4, <2>5, <2>6, <2>7 DEF Client
<1> QED
    BY <1>3, <1>4

(* So a step of the server keeps the invariant if it keeps the server's.   *)
LEMMA ServerStep ==
    ASSUME IInv, Watch, LegacyStays, HandlerTypes', Server'
    PROVE  IInv'
BY WatchStep, TypeOKParts DEF IInv

-----------------------------------------------------------------------------
(* Steps while no request is under way *)

(* A reader cannot tell the directories apart.                             *)
Same(d, e) == d.legacy = e.legacy /\ d.meta = e.meta /\ d.archives = e.archives

(* They serve the same.                                                    *)
LEMMA SameServes ==
    ASSUME NEW d, NEW e, Same(d, e)
    PROVE  Served(d) = Served(e) /\ (Whole(d) <=> Whole(e))
BY DEF Same, Served, Whole

(* A step that no reader can tell and that begins no request.              *)
LEMMA IdleStep ==
    ASSUME IInv, Watch, pc = "idle", UNCHANGED <<pc, req, undo, staged, faults, acked, index>>,
           HandlerTypes', \A v \in Versions : Same(dir'[v], dir[v])
    PROVE  IInv'
<1>1. \A v \in Versions : Served(dir'[v]) = Served(dir[v]) /\ (Whole(dir'[v]) <=> Whole(dir[v]))
    BY SameServes
<1>2. LegacyStays
    BY DEF LegacyStays, Same
<1>3. UploadUnderway' /\ DeleteUnderway' /\ Faults'
    BY DEF IInv, Server, UploadUnderway, DeleteUnderway, Faults, UploadPCs, DeletePCs
<1>4. AckedStaysServed' /\ \A v \in Versions : Whole(dir[v])'
    BY <1>1 DEF IInv, Server, AckedStaysServed
<1>5. Server'
    BY <1>3, <1>4 DEF Server
<1> QED
    BY <1>2, <1>5, ServerStep

(* A refused request changes nothing.                                      *)
LEMMA RefuseSound == ASSUME IInv, Refuse PROVE IInv'
<1>1. HandlerTypes
    BY TypeOKParts DEF IInv
<1>2. HandlerTypes'
    BY <1>1 DEF HandlerTypes, Refuse, disk
<1>3. \A v \in Versions : Same(dir'[v], dir[v])
    BY DEF Refuse, disk, Same
<1> QED
    BY <1>2, <1>3, IdleStep DEF Refuse, Free, disk

(* Nor does the start of the server.                                       *)
LEMMA StartSound == ASSUME IInv, Start PROVE IInv'
<1>1. HandlerTypes
    BY TypeOKParts DEF IInv
<1>2. HandlerTypes'
    BY <1>1 DEF HandlerTypes, Start, disk, handler
<1>3. \A v \in Versions : Same(dir'[v], dir[v])
    BY DEF Start, disk, Same
<1>4. pc = "idle"
    BY <1>1 DEF HandlerTypes, Start
<1> QED
    BY <1>2, <1>3, <1>4, IdleStep DEF Start, handler, disk

(* A directory is made and nothing is stored in it.                        *)
LEMMA StoreArchiveFailsSound == ASSUME IInv, NEW v \in Versions, StoreArchiveFails(v) PROVE IInv'
<1>1. HandlerTypes
    BY TypeOKParts DEF IInv
<1>2. PICK d : d = [dir[v] EXCEPT !.exists = TRUE]
    OBVIOUS
<1>3. d \in Dirs /\ Same(d, dir[v])
    BY <1>1, <1>2 DEF HandlerTypes, Dirs, Same
<1>4. dir' = [dir EXCEPT ![v] = d]
    BY <1>2 DEF StoreArchiveFails, Become
<1>5. HandlerTypes'
    BY <1>1, <1>3, <1>4 DEF HandlerTypes, StoreArchiveFails
<1>6. \A w \in Versions : Same(dir'[w], dir[w])
    BY <1>1, <1>3, <1>4 DEF HandlerTypes, Same
<1> QED
    BY <1>5, <1>6, IdleStep DEF StoreArchiveFails, Free

(* A deprecation does not change what is served.                           *)
LEMMA DeprecateSound ==
    ASSUME IInv, NEW v \in Versions, NEW ok \in BOOLEAN, Deprecate(v, ok) PROVE IInv'
<1>1. HandlerTypes
    BY TypeOKParts DEF IInv
<1>2. PICK b \in BOOLEAN : b = (ok \/ dir[v].deprecated)
    OBVIOUS
<1>3. PICK d : d = [dir[v] EXCEPT !.exists = TRUE, !.deprecated = b]
    OBVIOUS
<1>4. d \in Dirs /\ Same(d, dir[v])
    BY <1>1, <1>3 DEF HandlerTypes, Dirs, Same
<1>5. dir' = [dir EXCEPT ![v] = d]
    BY <1>2, <1>3 DEF Deprecate, Become
<1>6. HandlerTypes'
    BY <1>1, <1>4, <1>5 DEF HandlerTypes, Deprecate
<1>7. \A w \in Versions : Same(dir'[w], dir[w])
    BY <1>1, <1>4, <1>5 DEF HandlerTypes, Same
<1> QED
    BY <1>6, <1>7, IdleStep DEF Deprecate, Free

-----------------------------------------------------------------------------
(* Steps of a request *)

(* A request touches one version; the promise for it is suspended until    *)
(* the request ends, and must hold again then.                             *)
LEMMA RequestStep ==
    ASSUME IInv, NEW v \in Versions, pc = "idle" \/ req.v = v,
           NEW d \in Dirs, Whole(d), dir' = [dir EXCEPT ![v] = d],
           \A w \in Versions \ {v} : acked'[w] = acked[w] /\ (w \in index => w \in index'),
           (pc' # "idle" /\ req'.v = v) \/ Stands(v, Served(d))'
    PROVE  (\A w \in Versions : Whole(dir[w])') /\ AckedStaysServed'
<1>1. dir \in [Versions -> Dirs]
    BY TypeOKParts DEF IInv, HandlerTypes
<1>2. \A w \in Versions : dir'[w] = IF w = v THEN d ELSE dir[w]
    BY <1>1
<1>3. \A w \in Versions : Whole(dir[w])'
    BY <1>2 DEF IInv, Server, Whole
<1>4. AckedStaysServed'
    BY <1>2 DEF IInv, Server, AckedStaysServed, Stands
<1> QED
    BY <1>3, <1>4

(* Likewise the module.tar.gz of that version.                             *)
LEMMA LegacyStep ==
    ASSUME IInv, NEW v \in Versions, NEW d \in Dirs, dir' = [dir EXCEPT ![v] = d],
           d.legacy = dir[v].legacy \/ Served(dir[v]) = None \/ Served(d) = None
    PROVE  LegacyStays
<1>1. dir \in [Versions -> Dirs]
    BY TypeOKParts DEF IInv, HandlerTypes
<1>2. \A w \in Versions : dir'[w] = IF w = v THEN d ELSE dir[w]
    BY <1>1
<1> QED
    BY <1>2 DEF LegacyStays

(* A failed or a finished request leaves nothing behind in the process.    *)
LEMMA AnswerTypes ==
    ASSUME HandlerTypes, NEW a \in {"none", "ok", "error"}, Answer(a)
    PROVE  /\ pc' = "idle" /\ faults' = 0 /\ answer' \in {"none", "ok", "error"}
           /\ req' \in [v : Versions \cup {None}, c : Files]
           /\ undo' \in [existed : BOOLEAN, meta : Files, was : Files]
           /\ staged' \in Dirs /\ faults' \in 0..MaxFaults
BY FaultAssumption, NoDirServes DEF HandlerTypes, Answer, NoReq, NoUndo, Files

(* The archive is stored; what is served is as before.                     *)
LEMMA StoreArchiveSound ==
    ASSUME IInv, NEW v \in Versions, NEW c \in Contents, StoreArchive(v, c) PROVE IInv'
<1>1. HandlerTypes
    BY TypeOKParts DEF IInv
<1>2. PICK d : d = [dir[v] EXCEPT !.exists = TRUE, !.archives = dir[v].archives \cup {c}]
    OBVIOUS
<1>3. /\ d \in Dirs /\ d.meta = dir[v].meta /\ d.legacy = dir[v].legacy
      /\ d.archives = dir[v].archives \cup {c}
    BY <1>1, <1>2 DEF HandlerTypes, Dirs
<1>4. /\ dir' = [dir EXCEPT ![v] = d] /\ pc = "idle" /\ up /\ pc' = "putMeta"
      /\ req' = [v |-> v, c |-> c] /\ UNCHANGED <<index, up, staged, faults, acked>>
      /\ answer' = "none" /\ Watch
    BY <1>2 DEF StoreArchive, Become, Free, Take
<1>5. Whole(dir[v]) /\ dir[v] \in Dirs
    BY <1>1 DEF IInv, Server, HandlerTypes
<1>6. Whole(d) /\ Served(d) = Served(dir[v])
    BY <1>3, <1>5, ServedWhole DEF Whole
<1>7. PICK b \in BOOLEAN : b = (c \in dir[v].archives)
  <2>1. (c \in dir[v].archives) \in BOOLEAN
      OBVIOUS
  <2> QED
      BY <2>1, Zenon
<1>8. undo' = [existed |-> b, meta |-> None, was |-> Served(dir[v])]
    BY <1>7 DEF StoreArchive
<1>9. HandlerTypes'
  <2>1. Served(dir[v]) \in Files
      BY <1>5, ServedType
  <2>2. undo' \in [existed : BOOLEAN, meta : Files, was : Files]
      BY <1>8, <2>1 DEF Files
  <2>3. req' \in [v : Versions \cup {None}, c : Files] /\ req'.v \in Versions
      BY <1>4 DEF Files
  <2> QED
      BY <1>1, <1>3, <1>4, <2>2, <2>3 DEF HandlerTypes, UploadPCs
<1>10. dir'[v] = d /\ req'.v = v /\ req'.c = c /\ undo'.was = Served(dir[v])
    BY <1>1, <1>4, <1>8 DEF HandlerTypes
<1>11. undo'.existed <=> c \in dir[v].archives
    BY <1>7, <1>8
<1>12. (\A w \in Versions : Whole(dir[w])') /\ AckedStaysServed'
    BY <1>3, <1>4, <1>6, <1>10, RequestStep
<1>13. Stands(v, Served(dir[v]))
    BY <1>4 DEF IInv, Server, AckedStaysServed, Stands
<1>14. UploadUnderway'
  <2>1. Retreat(dir[req.v])'
    <3>1. undo'.existed \/ d.meta # c
        BY <1>3, <1>5, <1>11, NoneAssumption DEF Whole
    <3> QED
        BY <1>6, <1>10, <3>1 DEF Retreat
  <2>2. Stands(req.v, undo.was)'
      BY <1>4, <1>10, <1>13 DEF Stands
  <2> QED
      BY <1>3, <1>4, <1>10, <2>1, <2>2 DEF UploadUnderway, UploadPCs
<1>15. DeleteUnderway' /\ Faults'
    BY <1>4 DEF DeleteUnderway, DeletePCs, Faults, IInv, Server
<1>16. LegacyStays
    BY <1>3, <1>4, LegacyStep
<1> QED
    BY <1>4, <1>9, <1>12, <1>14, <1>15, <1>16, ServerStep DEF Server

(* artifact.json is switched to the archive that is there.                 *)
LEMMA PutMetaSound == ASSUME IInv, PutMeta PROVE IInv'
<1>1. HandlerTypes
    BY TypeOKParts DEF IInv
<1>2. PICK v : v = req.v
    OBVIOUS
<1>3. PICK c : c = req.c
    OBVIOUS
<1>4. pc = "putMeta" /\ v \in Versions /\ dir[v] \in Dirs
    BY <1>1, <1>2 DEF PutMeta, HandlerTypes
<1>5. c \in Contents /\ c \in dir[v].archives /\ Retreat(dir[v]) /\ Stands(v, undo.was) /\ faults = 0
    BY <1>2, <1>3, <1>4 DEF IInv, Server, UploadUnderway, UploadPCs, Faults
<1>6. PICK d : d = [dir[v] EXCEPT !.meta = c]
    OBVIOUS
<1>7. /\ d \in Dirs /\ d.meta = c /\ d.legacy = dir[v].legacy /\ d.archives = dir[v].archives
      /\ Whole(d)
    BY <1>4, <1>5, <1>6 DEF Dirs, Files, Whole
<1>8. /\ dir' = [dir EXCEPT ![v] = d] /\ pc' = "addIndex"
      /\ UNCHANGED <<index, req, staged, answer, up, acked>> /\ Watch
    BY <1>2, <1>3, <1>6 DEF PutMeta, Become, Goto
<1>9. PICK m \in Files : undo' = [undo EXCEPT !.meta = m] /\ faults' \in 0..MaxFaults
                         /\ (faults' = 0 => m = dir[v].meta)
  <2>1. PICK ok \in BOOLEAN : /\ (ok \/ MayFail) /\ Count(ok)
                              /\ undo' = [undo EXCEPT !.meta = IF ok THEN dir[v].meta ELSE None]
      BY <1>2 DEF PutMeta
  <2>2. CASE ok
    <3>1. faults' = faults /\ undo' = [undo EXCEPT !.meta = dir[v].meta]
        BY <2>1, <2>2 DEF Count
    <3> QED
        BY <1>1, <1>4, <3>1 DEF HandlerTypes, Dirs
  <2>3. CASE ~ok
    <3>1. faults' = 1 /\ undo' = [undo EXCEPT !.meta = None] /\ 0 < MaxFaults
        BY <1>5, <2>1, <2>3 DEF Count, MayFail
    <3> QED
        BY <3>1, FaultAssumption DEF Files
  <2> QED
      BY <2>2, <2>3
<1>10. /\ undo' \in [existed : BOOLEAN, meta : Files, was : Files]
       /\ undo'.meta = m /\ undo'.was = undo.was
    BY <1>1, <1>9 DEF HandlerTypes
<1>11. undo'.existed <=> undo.existed
    BY <1>1, <1>9 DEF HandlerTypes
<1>12. HandlerTypes'
    BY <1>1, <1>2, <1>4, <1>7, <1>8, <1>9, <1>10 DEF HandlerTypes, UploadPCs
<1>13. dir'[v] = d /\ req'.v = v /\ req'.c = c
    BY <1>1, <1>2, <1>3, <1>4, <1>8 DEF HandlerTypes
<1>14. (\A w \in Versions : Whole(dir[w])') /\ AckedStaysServed'
    BY <1>2, <1>4, <1>7, <1>8, <1>13, RequestStep
<1>15. UploadUnderway'
  <2>1. Stands(req.v, undo.was)'
      BY <1>5, <1>8, <1>10, <1>13 DEF Stands
  <2>2. ASSUME faults' = 0 PROVE Retreat(Former)'
    <3>1. PICK e : e = [d EXCEPT !.meta = m]
        OBVIOUS
    <3>2. e = Former' /\ m = dir[v].meta
        BY <1>9, <1>10, <1>13, <2>2, <3>1 DEF Former
    <3>3. /\ e \in Dirs /\ e.meta = dir[v].meta /\ e.legacy = dir[v].legacy
          /\ e.archives = dir[v].archives
        BY <1>4, <1>7, <3>1, <3>2 DEF Dirs
    <3>4. Served(e) = Served(dir[v]) /\ (Whole(e) <=> Whole(dir[v]))
        BY <3>3, SameServes DEF Same
    <3> QED
        BY <1>3, <1>5, <1>10, <1>11, <1>13, <3>2, <3>3, <3>4 DEF Retreat
  <2> QED
      BY <1>5, <1>7, <1>8, <1>13, <2>1, <2>2 DEF UploadUnderway, UploadPCs, Switched
<1>16. DeleteUnderway' /\ Faults'
    BY <1>8 DEF DeleteUnderway, DeletePCs, Faults
<1>17. LegacyStays
    BY <1>4, <1>7, <1>8, LegacyStep
<1> QED
    BY <1>8, <1>12, <1>14, <1>15, <1>16, <1>17, ServerStep DEF Server

(* A request goes on without touching the directory.                       *)
LEMMA HeldStep ==
    ASSUME IInv, Watch, HandlerTypes', pc # "idle", pc' # "idle", UNCHANGED <<dir, req, acked>>,
           \A w \in Versions \ {req.v} : w \in index => w \in index',
           UploadUnderway', DeleteUnderway', Faults'
    PROVE  IInv'
<1>1. LegacyStays
    BY DEF LegacyStays
<1>2. AckedStaysServed'
    BY DEF IInv, Server, AckedStaysServed
<1>3. \A v \in Versions : Whole(dir[v])'
    BY DEF IInv, Server, Whole
<1> QED
    BY <1>1, <1>2, <1>3, ServerStep DEF Server

(* artifact.json could not be written: the archive is to be withdrawn.     *)
LEMMA PutMetaFailsSound == ASSUME IInv, PutMetaFails PROVE IInv'
<1>1. HandlerTypes
    BY TypeOKParts DEF IInv
<1>2. /\ pc = "putMeta" /\ pc' = "dropArchive" /\ faults < MaxFaults /\ faults' = faults + 1
      /\ UNCHANGED <<dir, index, req, staged, answer, up, acked, undo>> /\ Watch
    BY DEF PutMetaFails, MayFail, Count, Goto, disk
<1>3. HandlerTypes'
    BY <1>1, <1>2, FaultAssumption DEF HandlerTypes, UploadPCs
<1>4. UploadUnderway'
    BY <1>2 DEF IInv, Server, UploadUnderway, UploadPCs, Stands, Retreat, Whole
<1>5. DeleteUnderway' /\ Faults'
    BY <1>2 DEF DeleteUnderway, DeletePCs, Faults
<1> QED
    BY <1>2, <1>3, <1>4, <1>5, HeldStep

(* The version is listed.                                                  *)
LEMMA AddIndexSound == ASSUME IInv, AddIndex PROVE IInv'
<1>1. HandlerTypes
    BY TypeOKParts DEF IInv
<1>2. /\ pc = "addIndex" /\ pc' = "dropOld" /\ index' = index \cup {req.v}
      /\ UNCHANGED <<dir, req, staged, answer, up, acked, undo, faults>> /\ Watch
    BY DEF AddIndex, Goto
<1>3. HandlerTypes'
    BY <1>1, <1>2 DEF HandlerTypes, UploadPCs
<1>4. UploadUnderway'
    BY <1>2 DEF IInv, Server, UploadUnderway, UploadPCs, Switched
<1>5. DeleteUnderway' /\ Faults'
    BY <1>2 DEF DeleteUnderway, DeletePCs, Faults
<1> QED
    BY <1>2, <1>3, <1>4, <1>5, HeldStep

(* It could not be: this is the one fault, and artifact.json as it was is  *)
(* remembered.                                                             *)
LEMMA AddIndexFailsSound == ASSUME MaxFaults <= 1, IInv, AddIndexFails PROVE IInv'
<1>1. HandlerTypes
    BY TypeOKParts DEF IInv
<1>2. /\ pc = "addIndex" /\ pc' = "restoreMeta" /\ faults < MaxFaults /\ faults' = faults + 1
      /\ UNCHANGED <<dir, index, req, staged, answer, up, acked, undo>> /\ Watch
    BY DEF AddIndexFails, MayFail, Count, Goto, disk
<1>3. faults = 0 /\ faults' = MaxFaults
    BY <1>1, <1>2, FaultAssumption DEF HandlerTypes
<1>4. HandlerTypes'
    BY <1>1, <1>2, <1>3, FaultAssumption DEF HandlerTypes, UploadPCs
<1>5. UploadUnderway'
    BY <1>2, <1>3 DEF IInv, Server, UploadUnderway, UploadPCs, Switched, Stands, Retreat, Former, Whole
<1>6. DeleteUnderway' /\ Faults'
    BY <1>2, <1>3 DEF DeleteUnderway, DeletePCs, Faults
<1> QED
    BY <1>2, <1>4, <1>5, <1>6, HeldStep

(* A request ends, with its version as promised.                           *)
LEMMA EndStep ==
    ASSUME IInv, NEW v \in Versions, req.v = v, Watch, HandlerTypes',
           NEW d \in Dirs, Whole(d), dir' = [dir EXCEPT ![v] = d],
           pc' = "idle", faults' = 0, index' = index,
           \A w \in Versions \ {v} : acked'[w] = acked[w],
           Stands(v, Served(d))',
           d.legacy = dir[v].legacy \/ Served(dir[v]) = None \/ Served(d) = None
    PROVE  IInv'
<1>1. (\A w \in Versions : Whole(dir[w])') /\ AckedStaysServed'
    BY RequestStep
<1>2. LegacyStays
    BY LegacyStep
<1>3. UploadUnderway' /\ DeleteUnderway' /\ Faults'
    BY DEF UploadUnderway, UploadPCs, DeleteUnderway, DeletePCs, Faults
<1> QED
    BY <1>1, <1>2, <1>3, ServerStep DEF Server

(* The replaced archive goes, the new one is served: 200 is the truth.     *)
LEMMA DropOldSound == ASSUME IInv, NEW ok \in BOOLEAN, DropOld(ok) PROVE IInv'
<1>1. HandlerTypes
    BY TypeOKParts DEF IInv
<1>2. PICK v : v = req.v
    OBVIOUS
<1>3. PICK c : c = req.c
    OBVIOUS
<1>4. pc = "dropOld" /\ v \in Versions /\ dir[v] \in Dirs
    BY <1>1, <1>2 DEF DropOld, HandlerTypes
<1>5. dir[v].meta = c /\ c \in dir[v].archives /\ v \in index /\ c \in Contents
    BY <1>2, <1>3, <1>4 DEF IInv, Server, UploadUnderway, UploadPCs, Switched
<1>6. PICK A \in SUBSET dir[v].archives :
          c \in A /\ dir' = [dir EXCEPT ![v] = [dir[v] EXCEPT !.archives = A]]
  <2>1. CASE ok
    <3>1. dir' = [dir EXCEPT ![v] = [dir[v] EXCEPT !.archives = dir[v].archives \ Replaced]]
        BY <1>2, <2>1 DEF DropOld, Become
    <3>2. c \in dir[v].archives \ Replaced
        BY <1>3, <1>5 DEF Replaced
    <3> QED
        BY <3>1, <3>2
  <2>2. CASE ~ok
    <3>1. dir' = [dir EXCEPT ![v] = dir[v]]
        BY <1>2, <2>2 DEF DropOld, Become
    <3>2. dir[v] = [dir[v] EXCEPT !.archives = dir[v].archives]
        BY <1>4 DEF Dirs
    <3> QED
        BY <1>5, <3>1, <3>2
  <2> QED
      BY <2>1, <2>2
<1>7. PICK d : d = [dir[v] EXCEPT !.archives = A]
    OBVIOUS
<1>8. d \in Dirs /\ d.meta = c /\ d.legacy = dir[v].legacy /\ d.archives = A
    BY <1>4, <1>5, <1>6, <1>7 DEF Dirs
<1>9. Whole(d) /\ Served(d) = c
    BY <1>5, <1>6, <1>8, ServedWhole, NoneAssumption DEF Whole
<1>10. /\ acked' = [acked EXCEPT ![v] = c] /\ UNCHANGED <<index, up>> /\ Watch /\ Answer("ok")
    BY <1>2, <1>3 DEF DropOld
<1>11. HandlerTypes'
    BY <1>1, <1>5, <1>6, <1>7, <1>8, <1>10, AnswerTypes DEF HandlerTypes, Files
<1>12. Stands(v, Served(d))' /\ \A w \in Versions \ {v} : acked'[w] = acked[w]
    BY <1>1, <1>4, <1>5, <1>9, <1>10 DEF HandlerTypes, Stands
<1>13. pc' = "idle" /\ faults' = 0 /\ dir' = [dir EXCEPT ![v] = d]
    BY <1>6, <1>7, <1>10 DEF Answer
<1> QED
    BY <1>2, <1>4, <1>8, <1>9, <1>10, <1>11, <1>12, <1>13, EndStep

(* artifact.json is put back; no further fault is left to prevent it.      *)
LEMMA RestoreMetaSound == ASSUME IInv, NEW ok \in BOOLEAN, RestoreMeta(ok) PROVE IInv'
<1>1. HandlerTypes
    BY TypeOKParts DEF IInv
<1>2. PICK v : v = req.v
    OBVIOUS
<1>3. pc = "restoreMeta" /\ v \in Versions /\ dir[v] \in Dirs /\ undo.meta \in Files
    BY <1>1, <1>2 DEF RestoreMeta, HandlerTypes
<1>4. faults = MaxFaults /\ Retreat(Former) /\ Stands(v, undo.was) /\ req.c \in Contents
    BY <1>2, <1>3 DEF IInv, Server, UploadUnderway, UploadPCs, Faults
<1>5. ok
    BY <1>4, FaultAssumption DEF RestoreMeta, MayFail
<1>6. PICK d : d = Former
    OBVIOUS
<1>7. d \in Dirs /\ d.legacy = dir[v].legacy
    BY <1>2, <1>3, <1>6 DEF Former, Dirs
<1>8. /\ dir' = [dir EXCEPT ![v] = d] /\ pc' = "dropArchive" /\ faults' = faults
      /\ UNCHANGED <<index, undo, req, staged, answer, up, acked>> /\ Watch
    BY <1>2, <1>5, <1>6 DEF RestoreMeta, Become, RestoredMeta, Former, Goto, Count
<1>9. HandlerTypes'
    BY <1>1, <1>3, <1>7, <1>8 DEF HandlerTypes, UploadPCs
<1>10. dir'[v] = d /\ req'.v = v
    BY <1>1, <1>2, <1>3, <1>8 DEF HandlerTypes
<1>11. Whole(d) /\ (undo.existed \/ d.meta # req.c) /\ Served(d) = undo.was
    BY <1>4, <1>6 DEF Retreat
<1>12. (\A w \in Versions : Whole(dir[w])') /\ AckedStaysServed'
    BY <1>2, <1>3, <1>7, <1>8, <1>10, <1>11, RequestStep
<1>13. UploadUnderway'
  <2>1. Retreat(dir[req.v])'
      BY <1>8, <1>10, <1>11 DEF Retreat
  <2>2. Stands(req.v, undo.was)'
      BY <1>4, <1>8, <1>10 DEF Stands
  <2> QED
      BY <1>4, <1>8, <2>1, <2>2 DEF UploadUnderway, UploadPCs
<1>14. DeleteUnderway' /\ Faults'
    BY <1>8 DEF DeleteUnderway, DeletePCs, Faults
<1>15. LegacyStays
    BY <1>3, <1>7, <1>8, LegacyStep
<1> QED
    BY <1>8, <1>9, <1>12, <1>13, <1>14, <1>15, ServerStep DEF Server

(* The archive is withdrawn unless it was there before, and what was       *)
(* served is served again.                                                 *)
LEMMA DropArchiveSound == ASSUME IInv, NEW ok \in BOOLEAN, DropArchive(ok) PROVE IInv'
<1>1. HandlerTypes
    BY TypeOKParts DEF IInv
<1>2. PICK v : v = req.v
    OBVIOUS
<1>3. PICK e : e = dir[v]
    OBVIOUS
<1>4. pc = "dropArchive" /\ v \in Versions /\ e \in Dirs
    BY <1>1, <1>2, <1>3 DEF DropArchive, HandlerTypes
<1>5. Retreat(e) /\ Stands(v, undo.was)
    BY <1>2, <1>3, <1>4 DEF IInv, Server, UploadUnderway, UploadPCs
<1>6. PICK d \in Dirs : /\ d.meta = e.meta /\ d.legacy = e.legacy /\ Whole(d)
                        /\ dir' = [dir EXCEPT ![v] = d]
  <2>1. CASE ok /\ Withdrawn # {}
    <3>1. PICK f : f = [e EXCEPT !.archives = e.archives \ Withdrawn]
        OBVIOUS
    <3>2. /\ f \in Dirs /\ f.meta = e.meta /\ f.legacy = e.legacy
          /\ f.archives = e.archives \ Withdrawn
        BY <1>4, <3>1 DEF Dirs
    <3>3. e.meta \notin Withdrawn
        BY <1>5, <2>1 DEF Retreat, Withdrawn
    <3>4. dir' = [dir EXCEPT ![v] = Prune(f)]
        BY <1>2, <1>3, <2>1, <3>1 DEF DropArchive, Become
    <3>5. /\ Prune(f) \in Dirs /\ Prune(f).legacy = f.legacy
          /\ Prune(f).meta = f.meta /\ Prune(f).archives = f.archives
        BY <3>2, PruneKeeps
    <3>6. Whole(Prune(f))
        BY <1>5, <3>2, <3>3, <3>5 DEF Retreat, Whole
    <3> QED
        BY <3>2, <3>4, <3>5, <3>6
  <2>2. CASE ~(ok /\ Withdrawn # {})
    <3>1. dir' = [dir EXCEPT ![v] = e]
        BY <1>2, <1>3, <2>2 DEF DropArchive, Become
    <3> QED
        BY <1>4, <1>5, <3>1 DEF Retreat
  <2> QED
      BY <2>1, <2>2
<1>7. Served(d) = undo.was
    BY <1>4, <1>5, <1>6, ServedWhole DEF Retreat
<1>8. UNCHANGED <<index, up, acked>> /\ Watch /\ Answer("error")
    BY DEF DropArchive
<1>9. HandlerTypes'
    BY <1>1, <1>6, <1>8, AnswerTypes DEF HandlerTypes
<1>10. Stands(v, Served(d))' /\ \A w \in Versions \ {v} : acked'[w] = acked[w]
    BY <1>5, <1>7, <1>8 DEF Stands
<1>11. pc' = "idle" /\ faults' = 0
    BY <1>8 DEF Answer
<1> QED
    BY <1>2, <1>3, <1>4, <1>6, <1>8, <1>9, <1>10, <1>11, EndStep

-----------------------------------------------------------------------------
(* Deletes *)

(* The version is moved aside as a whole.                                  *)
LEMMA StageDeleteSound == ASSUME IInv, NEW v \in Versions, StageDelete(v) PROVE IInv'
<1>1. HandlerTypes
    BY TypeOKParts DEF IInv
<1>2. /\ pc = "idle" /\ up /\ staged' = dir[v] /\ dir' = [dir EXCEPT ![v] = NoDir]
      /\ pc' = "unindex" /\ req' = [NoReq EXCEPT !.v = v] /\ answer' = "none"
      /\ UNCHANGED <<index, up, undo, faults, acked>> /\ Watch
    BY DEF StageDelete, Free, Become, Take
<1>3. req' \in [v : Versions \cup {None}, c : Files] /\ req'.v = v
    BY <1>2 DEF NoReq, Files
<1>4. HandlerTypes'
    BY <1>1, <1>2, <1>3, NoDirServes DEF HandlerTypes, DeletePCs
<1>5. dir'[v] = NoDir /\ dir[v] \in Dirs
    BY <1>1, <1>2 DEF HandlerTypes
<1>6. (\A w \in Versions : Whole(dir[w])') /\ AckedStaysServed'
    BY <1>2, <1>3, NoDirServes, RequestStep
<1>7. Whole(dir[v]) /\ Stands(v, Served(dir[v]))
    BY <1>2 DEF IInv, Server, AckedStaysServed, Stands
<1>8. DeleteUnderway'
  <2>1. Stands(req.v, Served(staged))'
      BY <1>2, <1>3, <1>7 DEF Stands
  <2> QED
      BY <1>2, <1>3, <1>5, <1>7, <2>1 DEF DeleteUnderway, Whole
<1>9. UploadUnderway' /\ Faults'
    BY <1>2 DEF UploadUnderway, UploadPCs, Faults
<1>10. LegacyStays
    BY <1>2, NoDirServes, LegacyStep
<1> QED
    BY <1>2, <1>4, <1>6, <1>8, <1>9, <1>10, ServerStep DEF Server

(* The version is taken off the index.                                     *)
LEMMA RemoveIndexSound == ASSUME IInv, RemoveIndex PROVE IInv'
<1>1. HandlerTypes
    BY TypeOKParts DEF IInv
<1>2. /\ pc = "unindex" /\ pc' = "commit" /\ index' = index \ {req.v}
      /\ UNCHANGED <<dir, req, staged, answer, up, acked, undo, faults>> /\ Watch
    BY DEF RemoveIndex, Goto
<1>3. HandlerTypes'
    BY <1>1, <1>2 DEF HandlerTypes, DeletePCs
<1>4. DeleteUnderway' /\ UploadUnderway' /\ Faults'
    BY <1>2 DEF IInv, Server, DeleteUnderway, DeletePCs, UploadUnderway, UploadPCs, Faults
<1> QED
    BY <1>2, <1>3, <1>4, HeldStep

(* It could not be: the version is to be put back.                         *)
LEMMA RemoveIndexFailsSound == ASSUME IInv, RemoveIndexFails PROVE IInv'
<1>1. HandlerTypes
    BY TypeOKParts DEF IInv
<1>2. /\ pc = "unindex" /\ pc' = "rollback" /\ faults < MaxFaults /\ faults' = faults + 1
      /\ UNCHANGED <<dir, index, req, staged, answer, up, acked, undo>> /\ Watch
    BY DEF RemoveIndexFails, MayFail, Count, Goto, disk
<1>3. HandlerTypes'
    BY <1>1, <1>2, FaultAssumption DEF HandlerTypes, DeletePCs
<1>4. DeleteUnderway' /\ UploadUnderway' /\ Faults'
    BY <1>2 DEF IInv, Server, DeleteUnderway, DeletePCs, UploadUnderway, UploadPCs, Faults,
                Stands, Whole
<1> QED
    BY <1>2, <1>3, <1>4, HeldStep

(* It is put back as a whole, or stays away as a whole.                    *)
LEMMA RollbackSound == ASSUME IInv, NEW ok \in BOOLEAN, Rollback(ok) PROVE IInv'
<1>1. HandlerTypes
    BY TypeOKParts DEF IInv
<1>2. PICK v : v = req.v
    OBVIOUS
<1>3. pc = "rollback" /\ v \in Versions /\ Watch /\ Answer("error") /\ UNCHANGED <<index, up>>
    BY <1>1, <1>2 DEF Rollback, HandlerTypes
<1>4. dir[v] = NoDir /\ Whole(staged) /\ Stands(v, Served(staged)) /\ staged \in Dirs
    BY <1>1, <1>2, <1>3 DEF IInv, Server, DeleteUnderway, DeletePCs, HandlerTypes
<1>5. PICK d \in Dirs : /\ Whole(d) /\ dir' = [dir EXCEPT ![v] = d]
                        /\ Stands(v, Served(d))' /\ acked' \in [Versions -> Files]
                        /\ \A w \in Versions \ {v} : acked'[w] = acked[w]
  <2>1. CASE ok
    <3>1. dir' = [dir EXCEPT ![v] = staged] /\ acked' = acked
        BY <1>2, <2>1 DEF Rollback, Become
    <3>2. PICK d \in Dirs : d = staged
        BY <1>4
    <3>3. Stands(v, Served(d))'
        BY <1>3, <1>4, <3>1, <3>2 DEF Stands
    <3> QED
        BY <1>1, <1>4, <3>1, <3>2, <3>3 DEF HandlerTypes
  <2>2. CASE ~ok
    <3>1. dir' = [dir EXCEPT ![v] = NoDir] /\ acked' = [acked EXCEPT ![v] = None]
        BY <1>2, <1>4, <2>2 DEF Rollback, Become
    <3>2. acked' \in [Versions -> Files] /\ acked'[v] = None
        BY <1>1, <1>3, <3>1 DEF HandlerTypes, Files
    <3>3. Stands(v, Served(NoDir))'
        BY <3>2 DEF Stands
    <3>4. \A w \in Versions \ {v} : acked'[w] = acked[w]
        BY <1>1, <3>1 DEF HandlerTypes
    <3> QED
        BY <3>1, <3>2, <3>3, <3>4, NoDirServes
  <2> QED
      BY <2>1, <2>2
<1>6. HandlerTypes'
    BY <1>1, <1>3, <1>5, AnswerTypes DEF HandlerTypes
<1>7. pc' = "idle" /\ faults' = 0 /\ Served(dir[v]) = None
    BY <1>3, <1>4, NoDirServes DEF Answer
<1> QED
    BY <1>2, <1>3, <1>5, <1>6, <1>7, EndStep

(* The version is gone.                                                    *)
LEMMA CommitSound == ASSUME IInv, NEW ok \in BOOLEAN, Commit(ok) PROVE IInv'
<1>1. HandlerTypes
    BY TypeOKParts DEF IInv
<1>2. PICK v : v = req.v
    OBVIOUS
<1>3. PICK a \in {"none", "ok", "error"} : a = IF ok THEN "ok" ELSE "error"
    OBVIOUS
<1>4. /\ pc = "commit" /\ v \in Versions /\ Watch /\ Answer(a) /\ UNCHANGED <<dir, index, up>>
      /\ acked' = [acked EXCEPT ![v] = None]
    BY <1>1, <1>2, <1>3 DEF Commit, HandlerTypes, disk
<1>5. PICK d \in Dirs : d = dir[v]
    BY <1>1, <1>4 DEF HandlerTypes
<1>6. dir' = [dir EXCEPT ![v] = d] /\ Whole(d)
    BY <1>1, <1>4, <1>5 DEF HandlerTypes, IInv, Server
<1>7. /\ acked' \in [Versions -> Files] /\ acked'[v] = None
      /\ \A w \in Versions \ {v} : acked'[w] = acked[w]
    BY <1>1, <1>4 DEF HandlerTypes, Files
<1>8. HandlerTypes'
    BY <1>1, <1>4, <1>7, AnswerTypes DEF HandlerTypes
<1>9. pc' = "idle" /\ faults' = 0 /\ Stands(v, Served(d))'
    BY <1>4, <1>7 DEF Answer, Stands
<1> QED
    BY <1>2, <1>4, <1>5, <1>6, <1>7, <1>8, <1>9, EndStep

-----------------------------------------------------------------------------
(* The server is killed *)

(* What is on disk serves what was promised, and the request under way     *)
(* loses its claim.  Only clients that were directed to an archive go on.  *)
LEMMA CrashSound == ASSUME IInv, Crash PROVE IInv'
<1>1. HandlerTypes /\ SessionTypes
    BY TypeOKParts DEF IInv
<1>2. Answer("none") /\ up' = FALSE /\ UNCHANGED <<dir, index>>
    BY DEF Crash, disk
<1>3. /\ acked' \in [Versions -> Files]
      /\ \A v \in Versions : acked'[v] = acked[v] \/ acked'[v] = None
      /\ \A v \in Versions : pc # "idle" /\ req.v = v => acked'[v] = None
  <2>1. CASE pc = "idle"
      BY <1>1, <2>1 DEF Crash, HandlerTypes
  <2>2. CASE pc # "idle"
      BY <1>1, <2>2 DEF Crash, HandlerTypes, Files
  <2> QED
      BY <2>1, <2>2
<1>4. HandlerTypes'
    BY <1>1, <1>2, <1>3, AnswerTypes DEF HandlerTypes
<1>5. pc' = "idle" /\ faults' = 0
    BY <1>2 DEF Answer
<1>6. Server'
  <2>1. \A v \in Versions : Whole(dir[v])'
      BY <1>2 DEF IInv, Server, Whole
  <2>2. AckedStaysServed'
      BY <1>2, <1>3 DEF IInv, Server, AckedStaysServed
  <2>3. UploadUnderway' /\ DeleteUnderway' /\ Faults'
      BY <1>5 DEF UploadUnderway, UploadPCs, DeleteUnderway, DeletePCs, Faults
  <2> QED
      BY <2>1, <2>2, <2>3 DEF Server
<1>7. Asleep \in Records /\ Asleep.pc = "idle" /\ ~Asleep.latest
    BY DEF Asleep, Records, Files
<1>8. /\ session' = [s \in Sessions |-> IF session[s].pc # "fetch" THEN Asleep ELSE session[s]]
      /\ shown' = [s \in Sessions |-> IF session[s].pc # "fetch" THEN {} ELSE shown[s]]
      /\ always' = [s \in Sessions |-> IF session[s].pc # "fetch" THEN {} ELSE always[s]]
    BY DEF Crash
<1>9. SessionTypes'
  <2>1. session' \in [Sessions -> Records]
      BY <1>1, <1>7, <1>8 DEF SessionTypes
  <2>2. shown' \in [Sessions -> SUBSET (Versions \X Files)]
      BY <1>1, <1>8 DEF SessionTypes
  <2>3. always' \in [Sessions -> SUBSET (Versions \X Files)]
      BY <1>1, <1>8 DEF SessionTypes
  <2> QED
      BY <1>1, <1>7, <1>8, <2>1, <2>2, <2>3 DEF SessionTypes
<1>10. ServedNow' = ServedNow /\ Offered' = Offered
    BY <1>2 DEF ServedNow, Offered
<1>11. ASSUME NEW s \in Sessions PROVE Client(s)'
  <2>1. CASE session[s].pc = "fetch"
    <3>1. session'[s] = session[s] /\ shown'[s] = shown[s] /\ always'[s] = always[s]
        BY <1>8, <2>1
    <3>2. Client(s)
        BY DEF IInv
    <3> QED
        BY <1>2, <1>10, <3>1, <3>2 DEF Client, Seen, Found, Untried
  <2>2. CASE session[s].pc # "fetch"
    <3>1. session'[s] = Asleep /\ shown'[s] = {} /\ always'[s] = {}
        BY <1>8, <2>2
    <3>2. Untried(session[s], always[s])'
        BY <1>7, <3>1 DEF Untried
    <3>3. Seen(s)' /\ Found(session[s], shown[s])'
        BY <1>7, <3>1 DEF Seen, Found
    <3> QED
        BY <3>1, <3>2, <3>3 DEF Client
  <2> QED
      BY <2>1, <2>2
<1> QED
    BY <1>4, <1>6, <1>9, <1>11, TypeOKParts DEF IInv

-----------------------------------------------------------------------------
(* The steps of a session *)

(* They change nothing on the server.                                      *)
LEMMA ServerKept ==
    ASSUME IInv, UNCHANGED mutation
    PROVE  HandlerTypes' /\ Server' /\ ServedNow' = ServedNow /\ Offered' = Offered
<1>1. UNCHANGED <<dir, index, up, pc, req, undo, staged, faults, answer, acked>>
    BY DEF mutation
<1>2. HandlerTypes'
    BY <1>1, TypeOKParts DEF IInv, HandlerTypes
<1>3. UploadUnderway'
    BY <1>1 DEF IInv, Server, UploadUnderway, Stands, Retreat, Former, Switched, Whole
<1>4. DeleteUnderway' /\ Faults'
    BY <1>1 DEF IInv, Server, DeleteUnderway, Stands, Whole, Faults
<1>5. AckedStaysServed' /\ \A v \in Versions : Whole(dir[v])'
    BY <1>1 DEF IInv, Server, AckedStaysServed, Whole
<1>6. ServedNow' = ServedNow /\ Offered' = Offered
    BY <1>1 DEF ServedNow, Offered
<1> QED
    BY <1>2, <1>3, <1>4, <1>5, <1>6 DEF Server

(* One session goes on; the others stay as they are.                       *)
LEMMA SessionStep ==
    ASSUME IInv, UNCHANGED mutation, NEW s \in Sessions, NEW r \in Records,
           NEW S \in SUBSET (Versions \X Files), NEW A \in SUBSET (Versions \X Files),
           session' = [session EXCEPT ![s] = r],
           shown' = [shown EXCEPT ![s] = S], always' = [always EXCEPT ![s] = A],
           r.pc \in {"deprecated", "meta", "exists", "fetch"} => r.v \in Versions,
           r.pc # "idle" => ServedNow \subseteq S,
           Found(r, S), Untried(r, A), A \subseteq Offered
    PROVE  IInv'
<1>1. HandlerTypes' /\ Server' /\ ServedNow' = ServedNow /\ Offered' = Offered /\ dir' = dir
    BY ServerKept DEF mutation
<1>2. SessionTypes
    BY TypeOKParts DEF IInv
<1>3. SessionTypes'
    BY <1>2 DEF SessionTypes
<1>4. ASSUME NEW q \in Sessions PROVE Client(q)'
  <2>1. CASE q = s
    <3>1. session'[q] = r /\ shown'[q] = S /\ always'[q] = A
        BY <1>2, <2>1 DEF SessionTypes
    <3>2. Found(session[q], shown[q])' /\ Untried(session[q], always[q])'
        BY <1>1, <3>1 DEF Found, Untried
    <3> QED
        BY <1>1, <3>1, <3>2 DEF Client, Seen
  <2>2. CASE q # s
    <3>1. session'[q] = session[q] /\ shown'[q] = shown[q] /\ always'[q] = always[q]
        BY <1>2, <2>2 DEF SessionTypes
    <3>2. Client(q)
        BY DEF IInv
    <3>3. Found(session[q], shown[q])' /\ Untried(session[q], always[q])'
        BY <1>1, <3>1, <3>2 DEF Client, Found, Untried
    <3> QED
        BY <1>1, <3>1, <3>2, <3>3 DEF Client, Seen
  <2> QED
      BY <2>1, <2>2
<1> QED
    BY <1>1, <1>3, <1>4, TypeOKParts DEF IInv

(* There is a newest version among any that are left to try.  (A smallest  *)
(* set of versions without one cannot exist.)                              *)
LEMMA NewestExists ==
    ASSUME NEW T \in SUBSET Versions, T # {}
    PROVE  \E m \in T : \A w \in T : w <= m
<1> DEFINE Bad == {U \in FiniteSubsetsOf(Versions) : U # {} /\ ~\E m \in U : \A w \in U : w <= m}
<1>1. SUFFICES ASSUME Bad # {} PROVE FALSE
  <2>1. T \in FiniteSubsetsOf(Versions)
      BY FS_Subset, VersionAssumption DEF FiniteSubsetsOf
  <2> QED
      BY <1>1, <2>1
<1>2. IsWellFoundedOn(StrictSubsetOrdering(Versions), FiniteSubsetsOf(Versions))
    BY FS_StrictSubsetOrderingWellFounded
<1>3. PICK U \in Bad : \A V \in Bad : ~(<<V, U>> \in StrictSubsetOrdering(Versions))
  <2>1. Bad \subseteq FiniteSubsetsOf(Versions)
      OBVIOUS
  <2> HIDE DEF Bad
  <2> QED
      BY <1>1, <1>2, <2>1, WFMin
<1>4. U \subseteq Versions /\ IsFiniteSet(U) /\ U # {}
    BY DEF FiniteSubsetsOf
<1>5. PICK x \in U : TRUE
    BY <1>4
<1>6. PICK V : V = U \ {x}
    OBVIOUS
<1>7. V \notin Bad
  <2>1. <<V, U>> \in StrictSubsetOrdering(Versions)
      BY <1>4, <1>5, <1>6 DEF StrictSubsetOrdering
  <2> QED
      BY <1>3, <2>1
<1>8. V \in FiniteSubsetsOf(Versions)
    BY <1>4, <1>6, FS_Subset DEF FiniteSubsetsOf
<1>9. V = {} \/ \E m \in V : \A w \in V : w <= m
    BY <1>7, <1>8
<1>10. \A w \in U : w \in Nat
    BY <1>4, VersionAssumption
<1>11. \E m \in U : \A w \in U : w <= m
    BY <1>5, <1>6, <1>9, <1>10
<1> QED
    BY <1>11

(* The candidate is the newest of those.                                   *)
LEMMA CandidateIsNewest ==
    ASSUME NEW T \in SUBSET Versions, T # {}
    PROVE  Candidate(T) \in T /\ \A w \in T : w <= Candidate(T)
<1>1. \E m \in T : \A w \in T : m >= w
    BY NewestExists, VersionAssumption
<1> QED
    BY <1>1 DEF Candidate, Max

(* A session reads a file of its own.                                      *)
LEMMA ReadStep ==
    ASSUME IInv, NEW s \in Sessions, NEW r \in Records, Read(s, r),
           session[s].pc # "idle",
           r.pc \in {"deprecated", "meta", "exists", "fetch"} => r.v \in Versions,
           Found(r, shown[s]), r.pc \notin {"idle", "fetch"} => Untried(r, always[s])
    PROVE  IInv'
<1>1. SessionTypes
    BY TypeOKParts DEF IInv
<1>2. ServedNow \subseteq shown[s] /\ always[s] \subseteq Offered
    BY DEF IInv, Client, Seen
<1>3. PICK S : S = IF r = Asleep THEN {} ELSE shown[s]
    OBVIOUS
<1>4. PICK A : A = IF r.pc \in {"idle", "fetch"} THEN {} ELSE always[s]
    OBVIOUS
<1>5. UNCHANGED mutation /\ session' = [session EXCEPT ![s] = r]
    BY DEF Read
<1>6. shown' = [shown EXCEPT ![s] = S] /\ S \in SUBSET (Versions \X Files)
  <2>1. CASE r = Asleep
      BY <1>3, <2>1 DEF Read
  <2>2. CASE r # Asleep
      BY <1>1, <1>3, <2>2 DEF Read, SessionTypes
  <2> QED
      BY <2>1, <2>2
<1>7. always' = [always EXCEPT ![s] = A] /\ A \in SUBSET (Versions \X Files)
  <2>1. CASE r.pc \in {"idle", "fetch"}
      BY <1>4, <2>1 DEF Read
  <2>2. CASE r.pc \notin {"idle", "fetch"}
      BY <1>1, <1>4, <2>2 DEF Read, SessionTypes
  <2> QED
      BY <2>1, <2>2
<1>8. (r.pc # "idle" => ServedNow \subseteq S) /\ A \subseteq Offered
    BY <1>2, <1>3, <1>4 DEF Asleep
<1>9. Found(r, S)
    BY <1>3 DEF Found, Asleep
<1>10. Untried(r, A)
    BY <1>4 DEF Untried
<1> QED
    BY <1>5, <1>6, <1>7, <1>8, <1>9, <1>10, SessionStep

(* A client asks: it sees what is served and on offer at that moment.      *)
LEMMA BeginStep ==
    ASSUME IInv, NEW s \in Sessions, NEW r \in Records, Begin(s, r),
           r.pc \in {"next", "meta"}, r.pc = "meta" => r.v \in Versions,
           Untried(r, Offered)
    PROVE  IInv'
<1>1. dir \in [Versions -> Dirs] /\ index \subseteq Versions
    BY TypeOKParts DEF IInv, HandlerTypes
<1>2. PICK S : S = ServedNow
    OBVIOUS
<1>3. PICK A : A = Offered
    OBVIOUS
<1>4. S \in SUBSET (Versions \X Files)
    BY <1>1, <1>2, ServedType DEF ServedNow
<1>5. A \in SUBSET (Versions \X Files)
  <2>1. \A v \in Versions : dir[v].meta \in Files
      BY <1>1 DEF Dirs
  <2> QED
      BY <1>1, <1>3, <2>1 DEF Offered
<1>6. Found(r, S)
    BY DEF Found
<1>7. /\ UNCHANGED mutation /\ session' = [session EXCEPT ![s] = r]
      /\ shown' = [shown EXCEPT ![s] = S] /\ always' = [always EXCEPT ![s] = A]
    BY <1>2, <1>3 DEF Begin
<1> QED
    BY <1>2, <1>3, <1>4, <1>5, <1>6, <1>7, SessionStep

(* For a given version, ...                                                *)
LEMMA AskVersionSound ==
    ASSUME IInv, NEW s \in Sessions, NEW v \in Versions, AskVersion(s, v) PROVE IInv'
<1>1. PICK r : r = [Asleep EXCEPT !.pc = "meta", !.v = v]
    OBVIOUS
<1>2. r \in Records /\ r.pc = "meta" /\ r.v = v /\ ~r.latest
    BY <1>1 DEF Asleep, Records, Files
<1>3. Untried(r, Offered)
    BY <1>2 DEF Untried
<1> QED
    BY <1>1, <1>2, <1>3, BeginStep DEF AskVersion

(* ... or for the latest, in an index that lists all that is on offer.     *)
LEMMA AskLatestSound == ASSUME IInv, NEW s \in Sessions, AskLatest(s) PROVE IInv'
<1>1. PICK r : r = [Asleep EXCEPT !.pc = "next", !.latest = TRUE, !.rest = index]
    OBVIOUS
<1>2. index \in SUBSET Versions
    BY TypeOKParts DEF IInv, HandlerTypes
<1>3. r \in Records /\ r.pc = "next" /\ r.rest = index
    BY <1>1, <1>2 DEF Asleep, Records, Files
<1>4. \A o \in Offered : o[1] \in index
    BY DEF Offered
<1>5. Untried(r, Offered)
    BY <1>3, <1>4 DEF Untried
<1> QED
    BY <1>1, <1>3, <1>5, BeginStep DEF AskLatest

(* A session that ends is sound.                                           *)
LEMMA SleepStep ==
    ASSUME IInv, NEW s \in Sessions, session[s].pc # "idle", Read(s, Asleep)
    PROVE  IInv'
<1>1. PICK r : r = Asleep
    OBVIOUS
<1>2. r \in Records /\ r.pc = "idle"
    BY <1>1 DEF Asleep, Records, Files
<1>3. Found(r, shown[s])
    BY <1>2 DEF Found
<1> QED
    BY <1>1, <1>2, <1>3, ReadStep

(* The newest version that is left is tried.                               *)
LEMMA NextCandidateSound == ASSUME IInv, NEW s \in Sessions, NextCandidate(s) PROVE IInv'
<1>1. PICK e : e = session[s]
    OBVIOUS
<1>2. e \in Records /\ e.pc = "next" /\ Untried(e, always[s])
    BY <1>1, TypeOKParts DEF IInv, SessionTypes, NextCandidate, Client
<1>3. CASE e.rest = {}
    BY <1>1, <1>2, <1>3, SleepStep DEF NextCandidate
<1>4. CASE e.rest # {}
  <2>1. PICK m : m = Candidate(e.rest)
      OBVIOUS
  <2>2. e.rest \in SUBSET Versions /\ m \in e.rest /\ \A w \in e.rest : w <= m
      BY <1>2, <1>4, <2>1, CandidateIsNewest DEF Records
  <2>3. PICK r : r = [e EXCEPT !.v = m, !.pc = "deprecated", !.rest = e.rest \ {m}]
      OBVIOUS
  <2>4. r \in Records /\ r.pc = "deprecated" /\ r.v = m /\ r.rest = e.rest \ {m}
      BY <1>2, <2>2, <2>3 DEF Records
  <2>5. r.latest <=> e.latest
      BY <1>2, <2>3 DEF Records
  <2>6. Read(s, r)
      BY <1>1, <1>4, <2>1, <2>3 DEF NextCandidate
  <2>7. Found(r, shown[s])
      BY <2>4 DEF Found
  <2>8. Untried(r, always[s])
      BY <1>2, <2>2, <2>4, <2>5 DEF Untried
  <2> QED
      BY <1>1, <1>2, <2>2, <2>4, <2>6, <2>7, <2>8, ReadStep
<1> QED
    BY <1>3, <1>4

(* What is on offer is not deprecated, and its file is there.              *)
LEMMA OfferedIs ==
    ASSUME IInv, NEW o \in Offered
    PROVE  ~dir[o[1]].deprecated /\ o[2] = dir[o[1]].meta /\ Present(o[1], o[2])
<1>1. dir \in [Versions -> Dirs] /\ index \subseteq Versions
    BY TypeOKParts DEF IInv, HandlerTypes
<1>2. PICK v \in index : o = <<v, dir[v].meta>> /\ ~dir[v].deprecated /\ Served(dir[v]) # None
    BY DEF Offered
<1>3. v \in Versions /\ dir[v] \in Dirs /\ Whole(dir[v])
    BY <1>1 DEF IInv, Server
<1>4. Present(v, dir[v].meta)
    BY <1>2, <1>3, ServedWhole DEF Present, Whole
<1> QED
    BY <1>2, <1>4

(* It is passed over if it is deprecated, so not if it is on offer.        *)
LEMMA ReadDeprecationSound == ASSUME IInv, NEW s \in Sessions, ReadDeprecation(s) PROVE IInv'
<1>1. PICK e : e = session[s]
    OBVIOUS
<1>2. /\ e \in Records /\ e.pc = "deprecated" /\ Untried(e, always[s]) /\ e.v \in Versions
      /\ always[s] \subseteq Offered
    BY <1>1, TypeOKParts DEF IInv, SessionTypes, ReadDeprecation, Client
<1>3. PICK p : p = IF dir[e.v].deprecated THEN "next" ELSE "meta"
    OBVIOUS
<1>4. PICK r : r = [e EXCEPT !.pc = p]
    OBVIOUS
<1>5. p \in {"next", "meta"} /\ (p = "next" => dir[e.v].deprecated)
    BY <1>3
<1>6. r \in Records /\ r.pc = p /\ r.v = e.v /\ r.rest = e.rest
    BY <1>2, <1>4, <1>5 DEF Records
<1>7. r.latest <=> e.latest
    BY <1>2, <1>4 DEF Records
<1>8. Read(s, r)
    BY <1>1, <1>3, <1>4 DEF ReadDeprecation
<1>9. Found(r, shown[s])
    BY <1>5, <1>6 DEF Found
<1>10. p = "next" => \A o \in always[s] : o[1] # e.v
    BY <1>2, <1>5, OfferedIs
<1>11. Untried(r, always[s])
    BY <1>2, <1>5, <1>6, <1>7, <1>10 DEF Untried
<1> QED
    BY <1>1, <1>2, <1>6, <1>8, <1>9, <1>11, ReadStep

(* The file that artifact.json names is what is served.                    *)
LEMMA ReadArtifactMetaSound == ASSUME IInv, NEW s \in Sessions, ReadArtifactMeta(s) PROVE IInv'
<1>1. PICK e : e = session[s]
    OBVIOUS
<1>2. /\ e \in Records /\ e.pc = "meta" /\ Untried(e, always[s]) /\ e.v \in Versions
      /\ always[s] \subseteq Offered /\ ServedNow \subseteq shown[s]
    BY <1>1, TypeOKParts DEF IInv, SessionTypes, ReadArtifactMeta, Client, Seen
<1>3. PICK f : f = dir[e.v].meta
    OBVIOUS
<1>4. dir[e.v] \in Dirs /\ Whole(dir[e.v])
    BY <1>2, TypeOKParts DEF IInv, HandlerTypes, Server
<1>5. PICK r : r = [e EXCEPT !.pc = "exists", !.file = f]
    OBVIOUS
<1>6. f \in Files
    BY <1>3, <1>4 DEF Dirs
<1>7. r \in Records /\ r.pc = "exists" /\ r.v = e.v /\ r.rest = e.rest /\ r.file = f
    BY <1>2, <1>5, <1>6 DEF Records
<1>8. r.latest <=> e.latest
    BY <1>2, <1>5 DEF Records
<1>9. Read(s, r)
    BY <1>1, <1>3, <1>5 DEF ReadArtifactMeta
<1>10. Found(r, shown[s])
  <2>1. <<e.v, Served(dir[e.v])>> \in shown[s]
      BY <1>2 DEF ServedNow
  <2> QED
      BY <1>3, <1>4, <1>7, <2>1, ServedWhole DEF Found
<1>11. \A o \in always[s] : o[1] = e.v => o[2] = f
    BY <1>2, <1>3, OfferedIs
<1>12. Untried(r, always[s])
    BY <1>2, <1>7, <1>8, <1>11 DEF Untried
<1> QED
    BY <1>1, <1>2, <1>7, <1>9, <1>10, <1>12, ReadStep

(* A client is directed to a file that is there, and a version whose file  *)
(* is missing was not on offer all the time.                               *)
LEMMA CheckExistsSound == ASSUME IInv, NEW s \in Sessions, CheckExists(s) PROVE IInv'
<1>1. PICK e : e = session[s]
    OBVIOUS
<1>2. /\ e \in Records /\ e.pc = "exists" /\ Untried(e, always[s]) /\ e.v \in Versions
      /\ always[s] \subseteq Offered /\ Found(e, shown[s])
    BY <1>1, TypeOKParts DEF IInv, SessionTypes, CheckExists, Client
<1>3. Read(s, Directed(e))
    BY <1>1 DEF CheckExists
<1>4. CASE Present(e.v, e.file)
  <2>1. PICK r : r = Direct(e.v, e.file)
      OBVIOUS
  <2>2. r \in Records /\ r.pc = "fetch" /\ r.v = e.v /\ r.file = e.file
      BY <1>2, <2>1 DEF Direct, Asleep, Records
  <2>3. Found(r, shown[s])
      BY <1>2, <2>2 DEF Found
  <2> QED
      BY <1>1, <1>2, <1>3, <1>4, <2>1, <2>2, <2>3, ReadStep DEF Directed
<1>5. CASE ~Present(e.v, e.file) /\ ~e.latest
    BY <1>1, <1>2, <1>3, <1>5, SleepStep DEF Directed
<1>6. CASE ~Present(e.v, e.file) /\ e.latest
  <2>1. PICK r : r = [e EXCEPT !.pc = "next", !.file = None]
      OBVIOUS
  <2>2. r \in Records /\ r.pc = "next" /\ r.rest = e.rest
      BY <1>2, <2>1 DEF Records, Files
  <2>3. Found(r, shown[s])
      BY <2>2 DEF Found
  <2>4. \A o \in always[s] : o[1] # e.v
      BY <1>2, <1>6, OfferedIs DEF Untried
  <2>5. Untried(r, always[s])
      BY <1>2, <1>6, <2>2, <2>4 DEF Untried
  <2> QED
      BY <1>1, <1>2, <1>3, <1>6, <2>1, <2>2, <2>3, <2>5, ReadStep DEF Directed
<1> QED
    BY <1>4, <1>5, <1>6

-----------------------------------------------------------------------------
(* The theorems *)

(* Versions of older servers are served as they are.                       *)
LEMMA Initially == Init => IInv
<1> SUFFICES ASSUME Init PROVE IInv
    OBVIOUS
<1>1. ASSUME NEW v \in Versions
      PROVE  dir[v] \in Dirs /\ dir[v].meta = None /\ (dir[v].legacy # None => dir[v].exists)
  <2>1. CASE dir[v] = NoDir
      BY <2>1, NoDirServes
  <2>2. CASE dir[v] # NoDir
    <3>1. PICK c \in Contents : dir[v] = [NoDir EXCEPT !.exists = TRUE, !.legacy = c]
        BY <2>2 DEF Init
    <3> QED
        BY <3>1 DEF NoDir, Dirs, Files
  <2> QED
      BY <2>1, <2>2
<1>2. dir \in [Versions -> Dirs]
    BY <1>1 DEF Init
<1>3. \A v \in Versions : Whole(dir[v]) /\ Served(dir[v]) = dir[v].legacy /\ dir[v].legacy \in Files
    BY <1>1, ServedWhole DEF Whole, Dirs
<1>4. /\ pc = "idle" /\ faults = 0 /\ index = {v \in Versions : dir[v].exists}
      /\ acked = [v \in Versions |-> dir[v].legacy]
    BY DEF Init
<1>5. HandlerTypes
  <2>1. req \in [v : Versions \cup {None}, c : Files]
      BY DEF Init, NoReq, Files
  <2>2. undo \in [existed : BOOLEAN, meta : Files, was : Files]
      BY DEF Init, NoUndo, Files
  <2>3. acked \in [Versions -> Files]
      BY <1>3, <1>4
  <2>4. staged \in Dirs /\ up \in BOOLEAN /\ answer = "none"
      BY NoDirServes DEF Init
  <2> QED
      BY <1>2, <1>4, <2>1, <2>2, <2>3, <2>4, FaultAssumption DEF HandlerTypes
<1>6. Server
  <2>1. AckedStaysServed
      BY <1>1, <1>3, <1>4 DEF AckedStaysServed
  <2>2. UploadUnderway /\ DeleteUnderway /\ Faults
      BY <1>4 DEF UploadUnderway, UploadPCs, DeleteUnderway, DeletePCs, Faults
  <2> QED
      BY <1>3, <2>1, <2>2 DEF Server
<1>7. Asleep \in Records /\ Asleep.pc = "idle" /\ ~Asleep.latest
    BY DEF Asleep, Records, Files
<1>8. SessionTypes
    BY <1>7 DEF SessionTypes, Init
<1>9. ASSUME NEW s \in Sessions PROVE Client(s)
  <2>1. session[s] = Asleep /\ shown[s] = {} /\ always[s] = {}
      BY DEF Init
  <2>2. Untried(session[s], always[s])
      BY <1>7, <2>1 DEF Untried
  <2>3. Seen(s) /\ Found(session[s], shown[s])
      BY <1>7, <2>1 DEF Seen, Found
  <2> QED
      BY <2>1, <2>2, <2>3 DEF Client
<1> QED
    BY <1>5, <1>6, <1>8, <1>9, TypeOKParts DEF IInv

(* Every step keeps the invariant.                                         *)
LEMMA NextSound == ASSUME MaxFaults <= 1 PROVE IInv /\ [Next]_vars => IInv'
<1> SUFFICES ASSUME IInv, [Next]_vars PROVE IInv'
    OBVIOUS
<1>1. CASE Upload
    BY <1>1, StoreArchiveSound, StoreArchiveFailsSound, PutMetaSound, PutMetaFailsSound,
       AddIndexSound, AddIndexFailsSound, DropOldSound, RestoreMetaSound, DropArchiveSound
       DEF Upload
<1>2. CASE Delete
    BY <1>2, StageDeleteSound, RemoveIndexSound, RemoveIndexFailsSound, RollbackSound,
       CommitSound DEF Delete
<1>3. ASSUME NEW s \in Sessions, Session(s) PROVE IInv'
  <2>1. CASE Fetch(s)
      BY <2>1, SleepStep DEF Fetch
  <2> QED
      BY <1>3, <2>1, AskVersionSound, AskLatestSound, NextCandidateSound,
         ReadDeprecationSound, ReadArtifactMetaSound, CheckExistsSound DEF Session
<1>4. CASE UNCHANGED vars
  <2>1. UNCHANGED mutation /\ UNCHANGED <<session, shown, always>>
      BY <1>4 DEF vars, mutation
  <2>2. HandlerTypes' /\ Server' /\ ServedNow' = ServedNow /\ Offered' = Offered /\ dir' = dir
      BY <2>1, ServerKept DEF mutation
  <2>3. SessionTypes'
      BY <2>1, TypeOKParts DEF IInv, SessionTypes
  <2>4. \A s \in Sessions : Client(s)'
      BY <2>1, <2>2 DEF IInv, Client, Seen, Found, Untried
  <2> QED
      BY <2>2, <2>3, <2>4, TypeOKParts DEF IInv
<1> QED
    BY <1>1, <1>2, <1>3, <1>4, RefuseSound, DeprecateSound, CrashSound, StartSound DEF Next

(* The invariant holds as long as a request meets at most one fault.       *)
THEOREM ModuleInvariant == ASSUME MaxFaults <= 1 PROVE Spec => []IInv
BY Initially, NextSound, PTL DEF Spec

(* Every variable keeps its type.                                          *)
THEOREM ModuleTypeCorrect == ASSUME MaxFaults <= 1 PROVE Spec => []TypeOK
<1>1. IInv => TypeOK
    BY DEF IInv
<1> QED
    BY <1>1, ModuleInvariant, PTL

(* What uploadModuleHandler answered 200 for, and what older servers       *)
(* stored, stays on offer through failed uploads, failed deletes and       *)
(* kills, until a later request for that version succeeds or is cut off.   *)
THEOREM AckedAlwaysStaysServed == ASSUME MaxFaults <= 1 PROVE Spec => []AckedStaysServed
<1>1. IInv => AckedStaysServed
    BY DEF IInv, Server
<1> QED
    BY <1>1, ModuleInvariant, PTL

(* However the requests of others come between the reads of a session, the *)
(* archive that fileDownloadHandler gives it was served for its version at *)
(* some moment of the session.                                             *)
THEOREM FetchedAlwaysWasServed == ASSUME MaxFaults <= 1 PROVE Spec => []FetchedWasServed
<1>1. IInv => FetchedWasServed
  <2> SUFFICES ASSUME IInv, NEW s \in Sessions, session[s].pc = "fetch"
               PROVE  \/ <<session[s].v, Opened(session[s])>> \in shown[s]
                      \/ session[s].file = None /\ <<session[s].v, None>> \in shown[s]
      BY DEF FetchedWasServed
  <2>1. Found(session[s], shown[s])
      BY DEF IInv, Client
  <2> QED
      BY <2>1 DEF Found, Opened
<1> QED
    BY <1>1, ModuleInvariant, PTL

(* moduleLatestDownloadHandler never settles for a version that is older   *)
(* than one that was on offer all the time, nor for none.                  *)
THEOREM LatestIsNeverStale == ASSUME MaxFaults <= 1 PROVE Spec => []LatestIsNotStale
<1>1. IInv => LatestIsNotStale
  <2> SUFFICES ASSUME IInv, NEW s \in Sessions, session[s].latest
               PROVE  /\ session[s].pc = "exists" => \A o \in always[s] : o[1] <= session[s].v
                      /\ session[s].pc = "next" /\ session[s].rest = {} => always[s] = {}
      BY DEF LatestIsNotStale
  <2>1. Untried(session[s], always[s])
      BY DEF IInv, Client
  <2>2. ASSUME session[s].pc = "exists", NEW o \in always[s] PROVE o[1] <= session[s].v
    <3>1. session[s].v \in Nat
        BY <2>2, VersionAssumption, TypeOKParts DEF IInv, SessionTypes
    <3> QED
        BY <2>1, <2>2, <3>1 DEF Untried
  <2> QED
      BY <2>1, <2>2 DEF Untried
<1> QED
    BY <1>1, ModuleInvariant, PTL

-----------------------------------------------------------------------------
(* The module as a catalog *)

Row(x) == [p \in {"module"} |-> x]
Cat == [v \in Versions |-> Row(Served(dir[v]))]

(* The request that the catalog sees, where the handler stands.            *)
Stage ==
    /\ pc = "idle" => Request = Published!Nobody
    /\ pc \in UploadPCs =>
          Request = Published!UploadOf(req.v, "module", req.c, Row(undo.was))
    /\ pc \in DeletePCs => Request = Published!DeleteOf(req.v, Row(Served(staged)))

(* It follows from where the handler stands.                               *)
LEMMA Stages == Stage /\ Stage'
<1>1. Stage
    BY DEF Stage, Request, Published!Nobody, Published!NoRow, Published!UploadOf,
           Published!DeleteOf, UploadPCs, DeletePCs, Row
<1>2. Stage'
    BY DEF Stage, Request, Published!Nobody, Published!NoRow, Published!UploadOf,
           Published!DeleteOf, UploadPCs, DeletePCs, Row
<1> QED
    BY <1>1, <1>2

(* A request is none, or an upload, or a delete.                           *)
LEMMA RequestKinds ==
    ASSUME NEW v, NEW c, NEW old
    PROVE  /\ Published!UploadOf(v, "module", c, old) # Published!Nobody
           /\ Published!DeleteOf(v, old) # Published!Nobody
           /\ Published!UploadOf(v, "module", c, old).kind = "upload"
           /\ Published!UploadOf(v, "module", c, old).v = v
           /\ Published!UploadOf(v, "module", c, old).old = old
           /\ Published!DeleteOf(v, old).kind = "delete"
           /\ Published!DeleteOf(v, old).v = v
           /\ Published!DeleteOf(v, old).old = old
BY DEF Published!UploadOf, Published!DeleteOf, Published!Nobody

(* What an upload and a delete aim at.                                     *)
LEMMA Aims ==
    ASSUME NEW v, NEW c, NEW x, NEW old
    PROVE  /\ Published!Done(Published!UploadOf(v, "module", c, Row(x))) = Row(c)
           /\ Published!Done(Published!DeleteOf(v, old)) = Row(None)
<1>1. Published!Done(Published!DeleteOf(v, old)) = Row(None)
    BY DEF Published!Done, Published!DeleteOf, Published!NoRow, Row
<1>2. [Row(x) EXCEPT !["module"] = c] = Row(c)
    BY DEF Row
<1> QED
    BY <1>1, <1>2 DEF Published!Done, Published!UploadOf

(* A change of one directory is a change of one row.                       *)
LEMMA CatChanges ==
    ASSUME dir \in [Versions -> Dirs], NEW v \in Versions, NEW d, dir' = [dir EXCEPT ![v] = d]
    PROVE  Cat' = [Cat EXCEPT ![v] = Row(Served(d))]
BY DEF Cat

(* The catalog's steps in these terms: a request begins, ...               *)
LEMMA CatalogBegins ==
    ASSUME Request = Published!Nobody, answer' = "none", NEW v \in Versions, NEW b,
           \/ b = Published!DeleteOf(v, Cat[v])
           \/ \E c \in Contents : b = Published!UploadOf(v, "module", c, Cat[v]),
           Request' = b,
           NEW row \in {b.old, Published!Done(b)}, Cat' = [Cat EXCEPT ![b.v] = row]
    PROVE  Published!Begin
<1>1. Cat = [w \in Versions |-> [p \in {"module"} |-> Served(dir[w])]]
    BY DEF Cat, Row
<1>2. b \in Published!Requests(v)
    BY <1>1 DEF Published!Requests
<1>3. Published!Shows(b)
    BY DEF Published!Shows, Cat, Row
<1> QED
    BY <1>2, <1>3 DEF Published!Begin

(* ... shows its target as it was or as it shall be, ...                   *)
LEMMA CatalogWorks ==
    ASSUME Request # Published!Nobody, UNCHANGED <<Request, answer>>,
           NEW row \in {Request.old, Published!Done(Request)},
           Cat' = [Cat EXCEPT ![Request.v] = row]
    PROVE  Published!Work
BY DEF Published!Work, Published!Shows, Cat, Row

(* ... succeeds, ...                                                       *)
LEMMA CatalogSucceeds ==
    ASSUME Request # Published!Nobody, Request' = Published!Nobody, answer' = "ok",
           Cat' = [Cat EXCEPT ![Request.v] = Published!Done(Request)]
    PROVE  Published!Succeed
BY DEF Published!Succeed, Cat, Row

(* ... or fails.                                                           *)
LEMMA CatalogFails ==
    ASSUME Request # Published!Nobody, Request' = Published!Nobody, answer' = "error",
           NEW row, Cat' = [Cat EXCEPT ![Request.v] = row],
           row = Request.old \/ (Request.kind # "upload" /\ row = Published!Done(Request))
    PROVE  Published!Fail
BY DEF Published!Fail, Published!Shows, Cat, Row

(* Steps that do not change what is published.                             *)
LEMMA CatalogStays ==
    ASSUME Cat' = Cat
    PROVE  /\ Request' = Published!Nobody /\ answer' = "none" => Published!Cut
           /\ Request = Published!Nobody /\ Request' = Request /\ answer' \in {"ok", "error"}
                 => Published!Other
           /\ Request' = Request /\ answer' = answer => UNCHANGED Published!vars
BY DEF Published!Cut, Published!Other, Published!vars, Cat, Row

(* Uploads of the module are uploads of the catalog: the archive is stored *)
(* without being shown, artifact.json shows it, 200 confirms it, and an    *)
(* error comes with what was shown before.                                 *)
LEMMA UploadRefines ==
    ASSUME MaxFaults <= 1, IInv, Upload
    PROVE  Published!Next \/ UNCHANGED Published!vars
<1>1. HandlerTypes /\ Server /\ UploadUnderway
    BY TypeOKParts DEF IInv, Server
<1>2. Stage /\ Stage'
    BY Stages
<1>3. PICK up0 : up0 = Published!UploadOf(req.v, "module", req.c, Row(undo.was))
    OBVIOUS
<1>4. /\ up0 # Published!Nobody /\ up0.kind = "upload" /\ up0.v = req.v
      /\ up0.old = Row(undo.was) /\ Published!Done(up0) = Row(req.c)
    BY <1>3, RequestKinds, Aims
<1>5. pc \in UploadPCs => Request = up0 /\ req.v \in Versions /\ dir[req.v] \in Dirs
    BY <1>1, <1>2, <1>3 DEF Stage, HandlerTypes, UploadPCs
<1>6. ASSUME NEW v \in Versions, NEW c \in Contents, StoreArchive(v, c) PROVE Published!Begin
  <2>1. PICK d : d = [dir[v] EXCEPT !.exists = TRUE, !.archives = dir[v].archives \cup {c}]
      OBVIOUS
  <2>2. /\ d \in Dirs /\ d.meta = dir[v].meta /\ d.legacy = dir[v].legacy
        /\ d.archives = dir[v].archives \cup {c} /\ dir[v] \in Dirs /\ Whole(dir[v])
      BY <1>1, <2>1 DEF HandlerTypes, Dirs, Server
  <2>3. Served(d) = Served(dir[v])
      BY <2>2, ServedWhole DEF Whole
  <2>4. /\ dir' = [dir EXCEPT ![v] = d] /\ pc = "idle" /\ pc' = "putMeta"
        /\ req' = [v |-> v, c |-> c] /\ answer' = "none" /\ undo'.was = Served(dir[v])
      BY <1>6, <2>1 DEF StoreArchive, Become, Free, Take
  <2>5. Cat' = [Cat EXCEPT ![v] = Row(Served(dir[v]))] /\ Cat[v] = Row(Served(dir[v]))
      BY <1>1, <2>3, <2>4, CatChanges DEF HandlerTypes, Cat
  <2>6. PICK b : b = Published!UploadOf(v, "module", c, Cat[v])
      OBVIOUS
  <2>7. Request' = b
      BY <1>2, <2>4, <2>5, <2>6 DEF Stage, UploadPCs
  <2>8. Request = Published!Nobody
      BY <1>2, <2>4 DEF Stage
  <2>9. b.v = v /\ b.old = Row(Served(dir[v]))
      BY <2>5, <2>6, RequestKinds
  <2> QED
      BY <2>4, <2>5, <2>6, <2>7, <2>8, <2>9, CatalogBegins
<1>7. ASSUME NEW v \in Versions, StoreArchiveFails(v) PROVE Published!Other
  <2>1. PICK d : d = [dir[v] EXCEPT !.exists = TRUE]
      OBVIOUS
  <2>2. Same(d, dir[v])
      BY <1>1, <2>1 DEF HandlerTypes, Dirs, Same
  <2>3. /\ dir' = [dir EXCEPT ![v] = d] /\ pc = "idle" /\ pc' = "idle" /\ answer' = "error"
      BY <1>7, <2>1 DEF StoreArchiveFails, Become, Free
  <2>4. Cat' = [Cat EXCEPT ![v] = Row(Served(dir[v]))]
      BY <1>1, <2>2, <2>3, CatChanges, SameServes DEF HandlerTypes
  <2>5. Cat' = Cat
      BY <2>4 DEF Cat
  <2> QED
      BY <1>2, <2>3, <2>5, CatalogStays DEF Stage
<1>8. CASE PutMeta
  <2>1. PICK d : d = [dir[req.v] EXCEPT !.meta = req.c]
      OBVIOUS
  <2>2. /\ pc = "putMeta" /\ pc' = "addIndex" /\ dir' = [dir EXCEPT ![req.v] = d]
        /\ UNCHANGED <<req, answer>>
      BY <1>8, <2>1 DEF PutMeta, Become, Goto
  <2>3. undo'.was = undo.was
      BY <1>1, <1>8 DEF PutMeta, HandlerTypes
  <2>4. d \in Dirs /\ d.meta = req.c /\ d.archives = dir[req.v].archives
        /\ req.c \in d.archives /\ req.c \in Contents
      BY <1>1, <1>5, <2>1, <2>2 DEF UploadUnderway, UploadPCs, Dirs, Files
  <2>5. Served(d) = req.c
      BY <2>4, ServedWhole, NoneAssumption DEF Whole
  <2>6. Cat' = [Cat EXCEPT ![req.v] = Row(req.c)]
      BY <1>1, <1>5, <2>2, <2>5, CatChanges DEF HandlerTypes, UploadPCs
  <2>7. Request = up0 /\ Request' = up0
      BY <1>2, <1>3, <2>2, <2>3 DEF Stage, UploadPCs
  <2> QED
      BY <1>4, <2>2, <2>6, <2>7, CatalogWorks DEF Published!Next
<1>9. CASE PutMetaFails \/ AddIndex \/ AddIndexFails
  <2>1. pc \in UploadPCs /\ pc' \in UploadPCs /\ UNCHANGED <<dir, req, undo, answer>>
      BY <1>9 DEF PutMetaFails, AddIndex, AddIndexFails, Goto, disk, UploadPCs
  <2>2. Request = up0 /\ Request' = up0 /\ Cat' = Cat
      BY <1>2, <1>3, <2>1 DEF Stage, Cat
  <2> QED
      BY <2>1, <2>2, CatalogStays
<1>10. ASSUME NEW ok \in BOOLEAN, DropOld(ok) PROVE Published!Succeed
  <2>1. pc = "dropOld" /\ pc' = "idle" /\ answer' = "ok"
      BY <1>10 DEF DropOld, Answer
  <2>2. PICK e : e = dir[req.v]
      OBVIOUS
  <2>3. /\ e \in Dirs /\ e.meta = req.c /\ req.c \in e.archives /\ req.v \in Versions
        /\ req.c \in Contents
      BY <1>1, <1>5, <2>1, <2>2 DEF UploadUnderway, UploadPCs, Switched
  <2>4. PICK d \in Dirs : dir' = [dir EXCEPT ![req.v] = d] /\ d.meta = req.c /\ req.c \in d.archives
    <3>1. CASE ok
      <4>1. PICK d : d = [e EXCEPT !.archives = e.archives \ Replaced]
          OBVIOUS
      <4>2. d \in Dirs /\ d.meta = req.c /\ req.c \in d.archives
          BY <2>3, <4>1 DEF Dirs, Replaced
      <4> QED
          BY <1>10, <2>2, <3>1, <4>1, <4>2 DEF DropOld, Become
    <3>2. CASE ~ok
        BY <1>10, <2>2, <2>3, <3>2 DEF DropOld, Become
    <3> QED
        BY <3>1, <3>2
  <2>5. Served(d) = req.c
      BY <2>3, <2>4, ServedWhole, NoneAssumption DEF Whole
  <2>6. Cat' = [Cat EXCEPT ![req.v] = Row(req.c)]
      BY <1>1, <2>3, <2>4, <2>5, CatChanges DEF HandlerTypes
  <2> QED
      BY <1>2, <1>4, <1>5, <2>1, <2>6, CatalogSucceeds DEF Stage, UploadPCs
<1>11. ASSUME NEW ok \in BOOLEAN, RestoreMeta(ok) PROVE Published!Work
  <2>1. pc = "restoreMeta" /\ faults = MaxFaults /\ Served(Former) = undo.was
      BY <1>1, <1>11 DEF RestoreMeta, Server, UploadUnderway, Faults, Retreat
  <2>2. ok
      BY <1>11, <2>1, FaultAssumption DEF RestoreMeta, MayFail
  <2>3. /\ pc' = "dropArchive" /\ UNCHANGED <<req, undo, answer>>
        /\ dir' = [dir EXCEPT ![req.v] = Former]
      BY <1>11, <2>2 DEF RestoreMeta, Goto, Become, Former, RestoredMeta
  <2>4. PICK d : d = Former
      OBVIOUS
  <2>5. Cat' = [Cat EXCEPT ![req.v] = Row(undo.was)]
      BY <1>1, <1>5, <2>1, <2>3, <2>4, CatChanges DEF HandlerTypes, UploadPCs
  <2>6. Request = up0 /\ Request' = up0
      BY <1>2, <1>3, <2>1, <2>3 DEF Stage, UploadPCs
  <2> QED
      BY <1>4, <2>3, <2>5, <2>6, CatalogWorks
<1>12. ASSUME NEW ok \in BOOLEAN, DropArchive(ok) PROVE Published!Fail
  <2>1. pc = "dropArchive" /\ pc' = "idle" /\ answer' = "error" /\ Retreat(dir[req.v])
      BY <1>1, <1>12 DEF DropArchive, Answer, UploadUnderway
  <2>2. PICK e : e = dir[req.v]
      OBVIOUS
  <2>3. e \in Dirs /\ req.v \in Versions /\ Retreat(e)
      BY <1>5, <2>1, <2>2 DEF UploadPCs
  <2>4. PICK d : dir' = [dir EXCEPT ![req.v] = d] /\ Served(d) = undo.was
    <3>1. CASE ok /\ Withdrawn # {}
      <4>1. PICK f : f = [e EXCEPT !.archives = e.archives \ Withdrawn]
          OBVIOUS
      <4>2. /\ f \in Dirs /\ f.meta = e.meta /\ f.legacy = e.legacy
            /\ f.archives = e.archives \ Withdrawn
          BY <2>3, <4>1 DEF Dirs
      <4>3. e.meta \notin Withdrawn
          BY <2>3, <3>1 DEF Retreat, Withdrawn
      <4>4. Whole(f) /\ Served(f) = Served(e)
          BY <2>3, <4>2, <4>3, ServedWhole DEF Retreat, Whole
      <4>5. Served(Prune(f)) = Served(f)
          BY <4>2, PruneKeeps, SameServes DEF Same
      <4>6. dir' = [dir EXCEPT ![req.v] = Prune(f)]
          BY <1>12, <2>2, <3>1, <4>1 DEF DropArchive, Become
      <4> QED
          BY <2>3, <4>4, <4>5, <4>6 DEF Retreat
    <3>2. CASE ~(ok /\ Withdrawn # {})
        BY <1>12, <2>2, <2>3, <3>2 DEF DropArchive, Become, Retreat
    <3> QED
        BY <3>1, <3>2
  <2>5. Cat' = [Cat EXCEPT ![req.v] = Row(undo.was)]
      BY <1>1, <2>3, <2>4, CatChanges DEF HandlerTypes
  <2> QED
      BY <1>2, <1>4, <1>5, <2>1, <2>5, CatalogFails DEF Stage, UploadPCs
<1> QED
    BY <1>6, <1>7, <1>8, <1>9, <1>10, <1>11, <1>12 DEF Upload, Published!Next

(* Deletes are deletes of the catalog: the version is hidden as a whole,   *)
(* and shown again as a whole when its entry cannot be taken off the       *)
(* index.                                                                  *)
LEMMA DeleteRefines ==
    ASSUME IInv, Delete
    PROVE  Published!Next \/ UNCHANGED Published!vars
<1>1. HandlerTypes /\ Server /\ DeleteUnderway
    BY TypeOKParts DEF IInv, Server
<1>2. Stage /\ Stage'
    BY Stages
<1>3. PICK del : del = Published!DeleteOf(req.v, Row(Served(staged)))
    OBVIOUS
<1>4. /\ del # Published!Nobody /\ del.kind = "delete" /\ del.v = req.v
      /\ del.old = Row(Served(staged)) /\ Published!Done(del) = Row(None)
    BY <1>3, RequestKinds, Aims
<1>5. pc \in DeletePCs => Request = del /\ req.v \in Versions /\ dir[req.v] = NoDir
    BY <1>1, <1>2, <1>3 DEF Stage, HandlerTypes, DeletePCs, DeleteUnderway
<1>6. ASSUME NEW v \in Versions, StageDelete(v) PROVE Published!Begin
  <2>1. /\ pc = "idle" /\ pc' = "unindex" /\ answer' = "none" /\ staged' = dir[v]
        /\ dir' = [dir EXCEPT ![v] = NoDir] /\ req'.v = v
      BY <1>6 DEF StageDelete, Free, Become, Take, NoReq
  <2>2. Cat' = [Cat EXCEPT ![v] = Row(None)] /\ Cat[v] = Row(Served(dir[v]))
      BY <1>1, <2>1, CatChanges, NoDirServes DEF HandlerTypes, Cat
  <2>3. PICK b : b = Published!DeleteOf(v, Cat[v])
      OBVIOUS
  <2>4. Request' = b /\ Request = Published!Nobody
      BY <1>2, <2>1, <2>2, <2>3 DEF Stage, DeletePCs
  <2>5. b.v = v /\ Published!Done(b) = Row(None)
      BY <2>3, RequestKinds, Aims
  <2> QED
      BY <2>1, <2>2, <2>3, <2>4, <2>5, CatalogBegins
<1>7. CASE RemoveIndex \/ RemoveIndexFails
  <2>1. pc \in DeletePCs /\ pc' \in DeletePCs /\ UNCHANGED <<dir, req, staged, answer>>
      BY <1>7 DEF RemoveIndex, RemoveIndexFails, Goto, disk, DeletePCs
  <2>2. Request = del /\ Request' = del /\ Cat' = Cat
      BY <1>2, <1>3, <2>1 DEF Stage, Cat
  <2> QED
      BY <2>1, <2>2, CatalogStays
<1>8. ASSUME NEW ok \in BOOLEAN, Rollback(ok) PROVE Published!Fail
  <2>1. pc = "rollback" /\ pc' = "idle" /\ answer' = "error"
      BY <1>8 DEF Rollback, Answer
  <2>2. PICK d \in {staged, NoDir} : dir' = [dir EXCEPT ![req.v] = d]
      BY <1>5, <1>8, <2>1 DEF Rollback, Become, DeletePCs
  <2>3. Cat' = [Cat EXCEPT ![req.v] = Row(Served(d))]
      BY <1>1, <1>5, <2>1, <2>2, CatChanges DEF HandlerTypes, DeletePCs
  <2>4. Row(Served(d)) = Row(Served(staged)) \/ Row(Served(d)) = Row(None)
      BY <2>2, NoDirServes
  <2> QED
      BY <1>2, <1>4, <1>5, <2>1, <2>3, <2>4, CatalogFails DEF Stage, DeletePCs
<1>9. ASSUME NEW ok \in BOOLEAN, Commit(ok) PROVE Published!Succeed \/ Published!Fail
  <2>1. pc = "commit" /\ pc' = "idle" /\ answer' \in {"ok", "error"} /\ dir' = dir
      BY <1>9 DEF Commit, Answer, disk
  <2>2. dir' = [dir EXCEPT ![req.v] = NoDir]
      BY <1>1, <1>5, <2>1 DEF HandlerTypes, DeletePCs
  <2>3. Cat' = [Cat EXCEPT ![req.v] = Row(None)]
    <3>1. req.v \in Versions /\ dir \in [Versions -> Dirs] /\ Served(NoDir) = None
        BY <1>1, <1>5, <2>1, NoDirServes DEF HandlerTypes, DeletePCs
    <3> QED
        BY <2>2, <3>1, CatChanges
  <2>4. Request = del /\ Request' = Published!Nobody
      BY <1>2, <1>5, <2>1 DEF Stage, DeletePCs
  <2>5. answer' = "ok" => Published!Succeed
      BY <1>4, <2>3, <2>4, CatalogSucceeds
  <2>6. answer' = "error" => Published!Fail
      BY <1>4, <2>3, <2>4, CatalogFails
  <2> QED
      BY <2>1, <2>5, <2>6
<1> QED
    BY <1>6, <1>7, <1>8, <1>9 DEF Delete, Published!Next

(* uploadModuleHandler, deleteModuleVersionHandler and                     *)
(* deprecateModuleHandler, with all their failures and with kills at any   *)
(* step, implement Catalog: what is published changes in one step, from    *)
(* what it was to what was asked for, and an error never comes with half   *)
(* of it.                                                                  *)
THEOREM ModuleAlwaysPublishesAtomically ==
    ASSUME MaxFaults <= 1 PROVE Spec => ModulePublishesAtomically
<1>1. Init => Published!Init
  <2> SUFFICES ASSUME Init PROVE Published!Init
      OBVIOUS
  <2>1. IInv /\ pc = "idle" /\ answer = "none"
      BY Initially DEF Init
  <2>2. Request = Published!Nobody
      BY <2>1, Stages DEF Stage
  <2>3. \A v \in Versions : Served(dir[v]) \in Files
      BY <2>1, TypeOKParts, ServedType DEF IInv, HandlerTypes
  <2> QED
      BY <2>1, <2>2, <2>3 DEF Published!Init, Files
<1>2. IInv /\ [Next]_vars => [Published!Next]_(Published!vars)
  <2> SUFFICES ASSUME IInv, [Next]_vars PROVE Published!Next \/ UNCHANGED Published!vars
      OBVIOUS
  <2>1. Stage /\ Stage' /\ HandlerTypes
      BY Stages, TypeOKParts DEF IInv
  <2>2. CASE Refuse
    <3>1. dir' = dir /\ pc = "idle" /\ pc' = "idle" /\ answer' = "error"
        BY <2>2 DEF Refuse, Free, disk
    <3>2. Cat' = Cat
        BY <3>1 DEF Cat
    <3> QED
        BY <2>1, <3>1, <3>2, CatalogStays DEF Stage, Published!Next
  <2>3. ASSUME NEW v \in Versions, NEW ok \in BOOLEAN, Deprecate(v, ok) PROVE Published!Other
    <3>1. PICK b \in BOOLEAN : b = (ok \/ dir[v].deprecated)
        OBVIOUS
    <3>2. PICK d : d = [dir[v] EXCEPT !.exists = TRUE, !.deprecated = b]
        OBVIOUS
    <3>3. Same(d, dir[v])
        BY <2>1, <3>2 DEF HandlerTypes, Dirs, Same
    <3>4. /\ dir' = [dir EXCEPT ![v] = d] /\ pc = "idle" /\ pc' = "idle"
          /\ answer' \in {"ok", "error"}
        BY <2>3, <3>1, <3>2 DEF Deprecate, Become, Free
    <3>5. Cat' = [Cat EXCEPT ![v] = Row(Served(dir[v]))]
      <4>1. Served(d) = Served(dir[v]) /\ dir \in [Versions -> Dirs]
          BY <2>1, <3>3, SameServes DEF HandlerTypes
      <4> QED
          BY <3>4, <4>1, CatChanges
    <3>6. Cat' = Cat
        BY <3>5 DEF Cat
    <3> QED
        BY <2>1, <3>4, <3>6, CatalogStays DEF Stage
  <2>4. CASE Crash
    <3>1. dir' = dir /\ pc' = "idle" /\ answer' = "none"
        BY <2>4 DEF Crash, Answer, disk
    <3>2. Cat' = Cat
        BY <3>1 DEF Cat
    <3> QED
        BY <2>1, <3>1, <3>2, CatalogStays DEF Stage, Published!Next
  <2>5. CASE Start \/ (\E s \in Sessions : Session(s)) \/ UNCHANGED vars
    <3>1. UNCHANGED <<dir, pc, req, undo, staged, answer>>
      <4>1. CASE Start
          BY <4>1 DEF Start, handler, disk
      <4>2. ASSUME NEW s \in Sessions, Session(s) PROVE UNCHANGED mutation
          BY <4>2 DEF Session, AskVersion, AskLatest, Begin, NextCandidate, ReadDeprecation,
                      ReadArtifactMeta, CheckExists, Fetch, Read
      <4>3. CASE UNCHANGED vars
          BY <4>3 DEF vars
      <4> QED
          BY <2>5, <4>1, <4>2, <4>3 DEF mutation
    <3>2. Cat' = Cat /\ Request' = Request
        BY <3>1 DEF Cat, Request
    <3> QED
        BY <3>1, <3>2, CatalogStays
  <2> QED
      BY <2>2, <2>3, <2>4, <2>5, UploadRefines, DeleteRefines DEF Next, Published!Next
<1> QED
    BY <1>1, <1>2, ModuleInvariant, PTL DEF Spec, ModulePublishesAtomically, Published!Spec
=============================================================================

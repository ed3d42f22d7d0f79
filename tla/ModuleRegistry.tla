--------------------------- MODULE ModuleRegistry ---------------------------
(***************************************************************************)
(* One module (namespace/name/provider) of the registry: the handlers that *)
(* change it, uploadModuleHandler, deleteModuleVersionHandler and          *)
(* deprecateModuleHandler of registry-server/api.go, and the client        *)
(* sessions that resolve a version, or the latest one, and then download   *)
(* its archive (main.go).  The handlers hold mutationMu; the sessions hold *)
(* nothing, and every file they read is a step of its own.                 *)
(*                                                                         *)
(* An archive is stored under the digest of its content and named by       *)
(* artifact.json.  Versions stored by older servers have no artifact.json  *)
(* and one archive called module.tar.gz, which no handler ever writes.     *)
(***************************************************************************)
EXTENDS Integers, FiniteSetsExt

CONSTANTS
    Versions,      \* versions in semantic order, as numbers
    Contents,      \* archives, told apart by their digest
    Sessions,      \* clients
    None,          \* no file, no content
    MaxFaults      \* steps of one request in which a storage call may fail

ASSUME VersionAssumption == Versions \subseteq Nat /\ IsFiniteSet(Versions)
ASSUME NoneAssumption == None \notin Contents \cup Nat
ASSUME FaultAssumption == MaxFaults \in Nat

VARIABLES
    (* on disk *)
    dir,           \* dir[v]: the version directory
    index,         \* versions listed in index.json
    (* in the process *)
    up,            \* the server is running
    pc,            \* the next storage call of the holder of mutationMu
    req,           \* its request: version and content
    undo,          \* what it remembers: existed, meta; history: was
    staged,        \* the tree behind rollback and commit of a delete
    faults,        \* steps of this request in which a call failed
    answer,        \* the class of the last answer
    session,       \* the clients
    (* history *)
    acked,         \* acked[v]: content a client was told is published
    shown,         \* shown[s]: <<v, c>> served at some time of the session, <<v, None>> if none
    always         \* always[s]: <<v, file>> on offer ever since the session began

disk     == <<dir, index>>
handler  == <<pc, req, undo, staged, faults, answer>>
mutation == <<dir, index, up, pc, req, undo, staged, faults, answer, acked>>
vars     == <<dir, index, up, pc, req, undo, staged, faults, answer, session,
              acked, shown, always>>

-----------------------------------------------------------------------------
Files == Contents \cup {None}

Dirs == [exists : BOOLEAN, archives : SUBSET Contents, meta : Files,
         legacy : Files, deprecated : BOOLEAN]

NoDir == [exists |-> FALSE, archives |-> {}, meta |-> None, legacy |-> None,
          deprecated |-> FALSE]

NoReq  == [v |-> None, c |-> None]
NoUndo == [existed |-> FALSE, meta |-> None, was |-> None]

UploadPCs == {"putMeta", "addIndex", "dropOld", "restoreMeta", "dropArchive"}
DeletePCs == {"unindex", "rollback", "commit"}

(* A session: where it stands, whether it wants the latest version, the    *)
(* versions it has still to try, the one it is trying, and the file it was *)
(* directed to (None stands for module.tar.gz).                            *)
Asleep == [pc |-> "idle", latest |-> FALSE, rest |-> {}, v |-> None, file |-> None]

(* The types of all variables.                                             *)
TypeOK ==
    /\ dir \in [Versions -> Dirs]
    /\ index \subseteq Versions
    /\ up \in BOOLEAN
    /\ pc \in {"idle"} \cup UploadPCs \cup DeletePCs
    /\ req \in [v : Versions \cup {None}, c : Files]
    /\ undo \in [existed : BOOLEAN, meta : Files, was : Files]
    /\ staged \in Dirs
    /\ faults \in 0..MaxFaults
    /\ answer \in {"none", "ok", "error"}
    /\ acked \in [Versions -> Files]
    /\ session \in [Sessions ->
          [pc : {"idle", "next", "deprecated", "meta", "exists", "fetch"},
           latest : BOOLEAN, rest : SUBSET Versions, v : Versions \cup {None},
           file : Files]]
    /\ shown \in [Sessions -> SUBSET (Versions \X Files)]
    /\ always \in [Sessions -> SUBSET (Versions \X Files)]
    /\ pc # "idle" => up /\ req.v \in Versions
    /\ \A s \in Sessions :
          session[s].pc \in {"deprecated", "meta", "exists", "fetch"}
              => session[s].v \in Versions

-----------------------------------------------------------------------------
(* What a reader that sees the whole directory at once is served.          *)
Served(d) ==
    CASE d.meta \in d.archives -> d.meta
      [] d.meta = None -> d.legacy
      [] OTHER -> None

(* Each version on offer, with the file that is offered.                   *)
Offered == {<<v, dir[v].meta>> :
              v \in {w \in index : ~dir[w].deprecated /\ Served(dir[w]) # None}}

ServedNow == {<<v, Served(dir[v])>> : v \in Versions}

(* History of the sessions under way, through any step of the server.      *)
Watch ==
    /\ session' = session
    /\ shown' = [s \in Sessions |->
          IF session[s].pc = "idle" THEN {} ELSE shown[s] \cup ServedNow']
    /\ always' = [s \in Sessions |->
          IF session[s].pc \in {"idle", "fetch"} THEN {} ELSE always[s] \cap Offered']

-----------------------------------------------------------------------------
(* The holder of mutationMu *)

(* Mutant: requests are served before the server has started.              *)
FreeEarly == pc = "idle"
Free == up /\ pc = "idle"
MayFail == faults < MaxFaults
Count(ok) == faults' = IF ok THEN faults ELSE faults + 1

Take(next, r) == pc' = next /\ req' = r /\ answer' = "none"

Goto(next) == pc' = next /\ UNCHANGED <<req, staged, answer, up, acked>>

Answer(a) ==
    /\ pc' = "idle" /\ answer' = a
    /\ req' = NoReq /\ undo' = NoUndo /\ staged' = NoDir /\ faults' = 0

Become(v, d) == dir' = [dir EXCEPT ![v] = d]

(* A request refused before it changed anything.                           *)
Refuse ==
    /\ Free
    /\ answer' = "error"
    /\ UNCHANGED <<disk, up, pc, req, undo, staged, faults, acked>>
    /\ Watch

-----------------------------------------------------------------------------
(* uploadModuleHandler *)

StoreArchive(v, c) ==
    /\ Free
    /\ Become(v, [dir[v] EXCEPT !.exists = TRUE, !.archives = dir[v].archives \cup {c}])
    /\ Take("putMeta", [v |-> v, c |-> c])
    /\ undo' = [existed |-> c \in dir[v].archives, meta |-> None, was |-> Served(dir[v])]
    /\ UNCHANGED <<index, up, staged, faults, acked>>
    /\ Watch

(* It fails after MkdirAll.                                                *)
StoreArchiveFails(v) ==
    /\ Free /\ MayFail
    /\ Become(v, [dir[v] EXCEPT !.exists = TRUE])
    /\ answer' = "error"
    /\ UNCHANGED <<index, up, pc, req, undo, staged, faults, acked>>
    /\ Watch

(* artifact.json is switched; a read of the old one that fails counts as   *)
(* "was not there".                                                        *)
PutMeta ==
    /\ pc = "putMeta"
    /\ \E ok \in BOOLEAN :
          /\ (ok \/ MayFail) /\ Count(ok)
          /\ undo' = [undo EXCEPT !.meta = IF ok THEN dir[req.v].meta ELSE None]
    /\ Become(req.v, [dir[req.v] EXCEPT !.meta = req.c])
    /\ Goto("addIndex")
    /\ UNCHANGED index
    /\ Watch

PutMetaFails ==
    /\ pc = "putMeta" /\ MayFail /\ Count(FALSE)
    /\ Goto("dropArchive")
    /\ UNCHANGED <<disk, undo>>
    /\ Watch

(* Mutant: the index is written without the versions it had.               *)
AddIndexAlone ==
    /\ pc = "addIndex"
    /\ index' = {req.v}
    /\ Goto("dropOld")
    /\ UNCHANGED <<dir, undo, faults>>
    /\ Watch

AddIndex ==
    /\ pc = "addIndex"
    /\ index' = index \cup {req.v}
    /\ Goto("dropOld")
    /\ UNCHANGED <<dir, undo, faults>>
    /\ Watch

AddIndexFails ==
    /\ pc = "addIndex" /\ MayFail /\ Count(FALSE)
    /\ Goto("restoreMeta")
    /\ UNCHANGED <<disk, undo>>
    /\ Watch

(* Mutant: the old archive is removed even if it is the new one.           *)
ReplacedAlways == {undo.meta} \ {None}
Replaced == {undo.meta} \ {None, req.c}

(* The replaced archive is removed (an error is ignored), 200 is answered. *)
DropOld(ok) ==
    /\ pc = "dropOld"
    /\ ok \/ (MayFail /\ Replaced # {})
    /\ Become(req.v, IF ok THEN [dir[req.v] EXCEPT !.archives = dir[req.v].archives \ Replaced]
                           ELSE dir[req.v])
    /\ acked' = [acked EXCEPT ![req.v] = req.c]
    /\ Answer("ok")
    /\ UNCHANGED <<index, up>>
    /\ Watch

(* Mutant: artifact.json is left as the failed upload wrote it.            *)
RestoredMetaKept == req.c
RestoredMeta == undo.meta

(* The index could not be written: artifact.json is put back or removed.   *)
RestoreMeta(ok) ==
    /\ pc = "restoreMeta" /\ (ok \/ MayFail) /\ Count(ok)
    /\ Become(req.v, IF ok THEN [dir[req.v] EXCEPT !.meta = RestoredMeta] ELSE dir[req.v])
    /\ Goto("dropArchive")
    /\ UNCHANGED <<index, undo>>
    /\ Watch

(* Delete removes the directory once nothing is left in it.                *)
Prune(d) == IF [d EXCEPT !.exists = FALSE] = NoDir THEN NoDir ELSE d

(* Mutant: the archive is removed even if it was there before.             *)
WithdrawnAlways == {req.c}
Withdrawn == IF undo.existed THEN {} ELSE {req.c}

DropArchive(ok) ==
    /\ pc = "dropArchive"
    /\ ok \/ (MayFail /\ Withdrawn # {})
    /\ Become(req.v, IF ok /\ Withdrawn # {}
                     THEN Prune([dir[req.v] EXCEPT !.archives = dir[req.v].archives \ Withdrawn])
                     ELSE dir[req.v])
    /\ Answer("error")
    /\ UNCHANGED <<index, up, acked>>
    /\ Watch

-----------------------------------------------------------------------------
(* deleteModuleVersionHandler and deprecateModuleHandler *)

StageDelete(v) ==
    /\ Free
    /\ dir[v].exists
    /\ staged' = dir[v]
    /\ Become(v, NoDir)
    /\ Take("unindex", [NoReq EXCEPT !.v = v])
    /\ UNCHANGED <<index, up, undo, faults, acked>>
    /\ Watch

RemoveIndex ==
    /\ pc = "unindex"
    /\ index' = index \ {req.v}
    /\ Goto("commit")
    /\ UNCHANGED <<dir, undo, faults>>
    /\ Watch

RemoveIndexFails ==
    /\ pc = "unindex" /\ MayFail /\ Count(FALSE)
    /\ Goto("rollback")
    /\ UNCHANGED <<disk, undo>>
    /\ Watch

Rollback(ok) ==
    /\ pc = "rollback" /\ (ok \/ MayFail)
    /\ Become(req.v, IF ok THEN staged ELSE dir[req.v])
    /\ acked' = IF ok THEN acked ELSE [acked EXCEPT ![req.v] = None]
    /\ Answer("error")
    /\ UNCHANGED <<index, up>>
    /\ Watch

(* The staged tree is removed, or stays behind under a name no session     *)
(* asks for.                                                               *)
Commit(ok) ==
    /\ pc = "commit" /\ (ok \/ MayFail)
    /\ acked' = [acked EXCEPT ![req.v] = None]
    /\ Answer(IF ok THEN "ok" ELSE "error")
    /\ UNCHANGED <<disk, up>>
    /\ Watch

Deprecate(v, ok) ==
    /\ Free
    /\ v \in index
    /\ ok \/ MayFail
    /\ Become(v, [dir[v] EXCEPT !.exists = TRUE, !.deprecated = ok \/ dir[v].deprecated])
    /\ answer' = IF ok THEN "ok" ELSE "error"
    /\ UNCHANGED <<index, up, pc, req, undo, staged, faults, acked>>
    /\ Watch

-----------------------------------------------------------------------------
(* Crash and start *)

(* The process is killed: the requests under way are never answered.  A    *)
(* client that was directed to an archive may still fetch it after the     *)
(* next start.                                                             *)
Crash ==
    LET cut == {s \in Sessions : session[s].pc # "fetch"} IN
    /\ up
    /\ up' = FALSE
    /\ Answer("none")
    /\ acked' = IF pc = "idle" THEN acked ELSE [acked EXCEPT ![req.v] = None]
    /\ session' = [s \in Sessions |-> IF s \in cut THEN Asleep ELSE session[s]]
    /\ shown' = [s \in Sessions |-> IF s \in cut THEN {} ELSE shown[s]]
    /\ always' = [s \in Sessions |-> IF s \in cut THEN {} ELSE always[s]]
    /\ UNCHANGED disk

Start ==
    /\ ~up
    /\ up' = TRUE
    /\ UNCHANGED <<disk, handler, acked>>
    /\ Watch

-----------------------------------------------------------------------------
(* Sessions *)

(* One file is read for s; nothing else happens.  The version is settled   *)
(* when the client is directed to its archive, and with the last answer    *)
(* the session ends.                                                       *)
Read(s, r) ==
    /\ session' = [session EXCEPT ![s] = r]
    /\ shown' = IF r = Asleep THEN [shown EXCEPT ![s] = {}] ELSE shown
    /\ always' = IF r.pc \in {"idle", "fetch"} THEN [always EXCEPT ![s] = {}] ELSE always
    /\ UNCHANGED mutation

Begin(s, r) ==
    /\ up
    /\ session[s].pc = "idle"
    /\ session' = [session EXCEPT ![s] = r]
    /\ shown' = [shown EXCEPT ![s] = ServedNow]
    /\ always' = [always EXCEPT ![s] = Offered]
    /\ UNCHANGED mutation

(* moduleDownloadHandler *)
AskVersion(s, v) == Begin(s, [Asleep EXCEPT !.pc = "meta", !.v = v])

(* moduleLatestDownloadHandler reads the index ...                         *)
AskLatest(s) == Begin(s, [Asleep EXCEPT !.pc = "next", !.latest = TRUE, !.rest = index])

(* Mutant: the oldest version comes first.                                 *)
CandidateOldest(rest) == Min(rest)
Candidate(rest) == Max(rest)

(* ... and tries its versions, the newest first.                           *)
NextCandidate(s) ==
    LET r == session[s] IN
    /\ r.pc = "next"
    /\ Read(s, IF r.rest = {} THEN Asleep
               ELSE [r EXCEPT !.v = Candidate(r.rest), !.pc = "deprecated",
                              !.rest = r.rest \ {Candidate(r.rest)}])

ReadDeprecation(s) ==
    LET r == session[s] IN
    /\ r.pc = "deprecated"
    /\ Read(s, [r EXCEPT !.pc = IF dir[r.v].deprecated THEN "next" ELSE "meta"])

(* moduleArtifactKey: without an artifact.json it is module.tar.gz, ...    *)
ReadArtifactMeta(s) ==
    LET r == session[s] IN
    /\ r.pc = "meta"
    /\ Read(s, [r EXCEPT !.pc = "exists", !.file = dir[r.v].meta])

Present(v, f) == IF f = None THEN dir[v].legacy # None ELSE f \in dir[v].archives

Direct(v, f) == [Asleep EXCEPT !.pc = "fetch", !.v = v, !.file = f]

(* Mutant: an archive that is gone gives way to module.tar.gz.             *)
DirectedLegacy(r) ==
    IF Present(r.v, r.file) THEN Direct(r.v, r.file)
    ELSE IF Present(r.v, None) THEN Direct(r.v, None)
    ELSE Asleep

(* ... and must exist.  The client is directed to it, or told there is no  *)
(* such module, or the next version is tried.                              *)
Directed(r) ==
    IF Present(r.v, r.file) THEN Direct(r.v, r.file)
    ELSE IF r.latest THEN [r EXCEPT !.pc = "next", !.file = None]
    ELSE Asleep

CheckExists(s) ==
    /\ session[s].pc = "exists"
    /\ Read(s, Directed(session[s]))

(* What opening the file gives.                                            *)
Opened(r) == IF r.file = None THEN dir[r.v].legacy ELSE r.file

(* fileDownloadHandler: the archive is opened, or gone by now.             *)
Fetch(s) ==
    /\ up
    /\ session[s].pc = "fetch"
    /\ Read(s, Asleep)

-----------------------------------------------------------------------------
(* The store may hold versions of older servers.                           *)
Init ==
    /\ dir \in [Versions -> {NoDir} \cup {[NoDir EXCEPT !.exists = TRUE, !.legacy = c] :
                                             c \in Contents}]
    /\ index = {v \in Versions : dir[v].exists}
    /\ up = FALSE /\ pc = "idle" /\ req = NoReq /\ undo = NoUndo /\ staged = NoDir
    /\ faults = 0 /\ answer = "none"
    /\ session = [s \in Sessions |-> Asleep]
    /\ acked = [v \in Versions |-> dir[v].legacy]
    /\ shown = [s \in Sessions |-> {}]
    /\ always = [s \in Sessions |-> {}]

Upload ==
    \/ \E v \in Versions, c \in Contents : StoreArchive(v, c)
    \/ \E v \in Versions : StoreArchiveFails(v)
    \/ PutMeta \/ PutMetaFails \/ AddIndex \/ AddIndexFails
    \/ \E ok \in BOOLEAN : DropOld(ok) \/ RestoreMeta(ok) \/ DropArchive(ok)

Delete ==
    \/ \E v \in Versions : StageDelete(v)
    \/ RemoveIndex \/ RemoveIndexFails
    \/ \E ok \in BOOLEAN : Rollback(ok) \/ Commit(ok)

Session(s) ==
    \/ \E v \in Versions : AskVersion(s, v)
    \/ AskLatest(s) \/ NextCandidate(s) \/ ReadDeprecation(s)
    \/ ReadArtifactMeta(s) \/ CheckExists(s) \/ Fetch(s)

Next ==
    \/ Refuse \/ Upload \/ Delete
    \/ \E v \in Versions, ok \in BOOLEAN : Deprecate(v, ok)
    \/ Crash \/ Start
    \/ \E s \in Sessions : Session(s)

Spec == Init /\ [][Next]_vars

-----------------------------------------------------------------------------
(* Properties *)

(* What a client was told is published, and what older servers stored,     *)
(* stays on offer until a later request for that version succeeds or is    *)
(* cut off: through failed uploads, failed deletes and kills.              *)
AckedStaysServed ==
    \A v \in Versions :
        acked[v] # None /\ ~(pc # "idle" /\ req.v = v) =>
            Served(dir[v]) = acked[v] /\ v \in index

(* Whatever mutations a session meets between its reads, the archive it    *)
(* ends up with was served for its version at some moment of the session.  *)
(* One case is excepted: while a delete has the version staged there is no *)
(* artifact.json, which moduleArtifactKey takes for an older server's      *)
(* version, and once the delete is rolled back module.tar.gz is found even *)
(* if it was superseded long ago.                                          *)
FetchedWasServed ==
    \A s \in Sessions :
        LET r == session[s] IN
        r.pc = "fetch" /\ Present(r.v, r.file) =>
            \/ <<r.v, Opened(r)>> \in shown[s]
            \/ r.file = None /\ <<r.v, None>> \in shown[s]

(* Asking for the latest version never ends with one that is older than a  *)
(* version whose archive was on offer all the time, nor with none if there *)
(* was one, whatever is uploaded, deleted and deprecated meanwhile.  (A    *)
(* version whose archive is replaced between two reads is passed over.)    *)
LatestIsNotStale ==
    \A s \in Sessions :
        LET r == session[s] IN
        r.latest =>
            /\ r.pc = "exists" /\ Present(r.v, r.file) => \A o \in always[s] : o[1] <= r.v
            /\ r.pc = "next" /\ r.rest = {} => always[s] = {}

-----------------------------------------------------------------------------
(* The module as a catalog with one row per version.                       *)
Request ==
    CASE pc \in UploadPCs ->
           [kind |-> "upload", v |-> req.v, p |-> "module", c |-> req.c,
            old |-> [p \in {"module"} |-> undo.was]]
      [] pc \in DeletePCs ->
           [kind |-> "delete", v |-> req.v, p |-> None, c |-> None,
            old |-> [p \in {"module"} |-> Served(staged)]]
      [] OTHER ->
           [kind |-> "none", v |-> None, p |-> None, c |-> None,
            old |-> [p \in {"module"} |-> None]]

Published == INSTANCE Catalog
             WITH cat <- [v \in Versions |-> [p \in {"module"} |-> Served(dir[v])]],
                  busy <- Request, Platforms <- {"module"}

(* Uploads and deletes of module versions keep the promise of Catalog: an  *)
(* upload over a version, also one of an older server, shows the old       *)
(* archive or the new one, and a failed one ends with the old.             *)
ModulePublishesAtomically == Published!Spec
=============================================================================

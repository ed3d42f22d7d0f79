-------------------------- MODULE ProviderRegistry --------------------------
(***************************************************************************)
(* The publication state of one provider (one namespace/name) and the      *)
(* handlers that change it: upload, delete and deprecate of                *)
(* registry-server/api.go, the checksum rebuild of signing.go that the     *)
(* upload and the start of the server share, and the garbage collection    *)
(* of storage.go.                                                          *)
(*                                                                         *)
(* Every handler holds mutationMu from its first to its last storage call, *)
(* so at most one is under way; `pc' says where it stands.  One step of    *)
(* the model is one storage call that changes a file, together with the    *)
(* reads that precede it.  Between any two steps the process may be        *)
(* killed, and the calls of up to MaxFaults steps of a request may fail.   *)
(*                                                                         *)
(* Files are modelled by what they name.  An artifact is <<p, c>>: the     *)
(* content-addressed name holds the platform and the digest of c.  The     *)
(* checksum list is the set of artifacts it names (it is never written     *)
(* empty, so {} is a missing file), a signature is the list it signs.      *)
(***************************************************************************)
EXTENDS Naturals

CONSTANTS
    Versions,      \* versions of the provider
    Platforms,     \* <os>_<arch> pairs
    Contents,      \* archives a client may upload, told apart by their digest
    None,          \* no metadata file
    MaxFaults      \* steps of one request in which storage calls may fail

ASSUME NoneAssumption == None \notin Contents
ASSUME FaultAssumption == MaxFaults \in Nat

VARIABLES
    (* on disk *)
    dir,           \* dir[v]: the version directory
    index,         \* versions listed in index.json
    trash,         \* versions with a left-over .trash-<version>-* directory
    (* in the process *)
    phase,         \* "down", "starting" (main before it listens) or "up"
    todo,          \* versions the rebuild at the start has still to visit
    pc,            \* the next storage call of the holder of mutationMu
    req,           \* its request: version, platform, content
    undo,          \* what it remembers for restorePublication (existed, meta,
                   \* sums, sig); history: was the new list clean and the old
                   \* one wholly read, what the metadata was
    staged,        \* the tree behind rollback and commit of a delete
    faults,        \* storage calls that failed during this request
    answer,        \* the class of the last answer: 200 or an error
    (* history: what the answers given so far promise *)
    acked,         \* acked[v][p]: content a client was told is published
    suspect,       \* versions whose checksum list may be out of date
    litter         \* versions that may hold artifacts nobody names

disk    == <<dir, index, trash>>
process == <<phase, todo, pc, req, undo, staged, faults, answer>>
history == <<acked, suspect, litter>>
vars    == <<dir, index, trash, phase, todo, pc, req, undo, staged, faults,
             answer, acked, suspect, litter>>

-----------------------------------------------------------------------------
(* Types *)

Artifacts == Platforms \X Contents
MetaFiles == [Platforms -> Contents \cup {None}]

(* A version directory.  `tmp' holds the complete temporary files          *)
(* .tmp-<os>_<arch>.json that a killed Put leaves behind; other left-over  *)
(* temporary files are never read back.                                    *)
Dirs == [exists     : BOOLEAN,
         zips       : SUBSET Artifacts,
         meta       : MetaFiles,
         tmp        : MetaFiles,
         sums       : SUBSET Artifacts,
         sig        : SUBSET Artifacts,
         deprecated : BOOLEAN]

NoFiles == [p \in Platforms |-> None]

NoDir == [exists |-> FALSE, zips |-> {}, meta |-> NoFiles, tmp |-> NoFiles,
          sums |-> {}, sig |-> {}, deprecated |-> FALSE]

Undos == [existed : BOOLEAN, meta : Contents \cup {None},
          sums : SUBSET Artifacts, sig : SUBSET Artifacts,
          clean : BOOLEAN, whole : BOOLEAN, was : Contents \cup {None}]

NoReq  == [v |-> None, p |-> None, c |-> None]
NoUndo == [existed |-> FALSE, meta |-> None, sums |-> {}, sig |-> {},
           clean |-> TRUE, whole |-> TRUE, was |-> None]

UploadPCs  == {"putMeta", "putSums", "putSig", "addIndex", "dropOld",
               "restoreMeta", "restoreSums", "restoreSig", "dropZip"}
DeletePCs  == {"unindex", "rollback", "commit"}
StartupPCs == {"bootSig"}
PCs == {"idle"} \cup UploadPCs \cup DeletePCs \cup StartupPCs

(* The type of every variable, and which fields of a request are set at    *)
(* which point of a handler.                                               *)
TypeOK ==
    /\ dir \in [Versions -> Dirs]
    /\ index \subseteq Versions
    /\ trash \subseteq Versions
    /\ phase \in {"down", "starting", "up"}
    /\ todo \subseteq Versions
    /\ pc \in PCs
    /\ req \in [v : Versions \cup {None}, p : Platforms \cup {None},
                c : Contents \cup {None}]
    /\ undo \in Undos
    /\ staged \in Dirs
    /\ faults \in 0..MaxFaults
    /\ answer \in {"none", "ok", "error"}
    /\ acked \in [Versions -> MetaFiles]
    /\ suspect \subseteq Versions
    /\ litter \subseteq Versions
    /\ pc # "idle" => req.v \in Versions
    /\ pc \in UploadPCs => req.p \in Platforms /\ req.c \in Contents
    /\ pc \in UploadPCs \cup DeletePCs => phase = "up"
    /\ pc \in StartupPCs => phase = "starting"

-----------------------------------------------------------------------------
(* Storage calls *)

(* The calls of one more step may fail; such a step is counted.            *)
MayFail == faults < MaxFaults
Count(ok) == faults' = IF ok THEN faults ELSE faults + 1

(* An artifact is stored (MkdirAll first), artifacts are removed.          *)
WithZip(d, a) == [d EXCEPT !.exists = TRUE, !.zips = d.zips \cup {a}]
WithoutZips(d, as) == [d EXCEPT !.zips = d.zips \ as]

(* Delete removes the directory once nothing is left in it.                *)
Prune(d) == IF [d EXCEPT !.exists = FALSE] = NoDir THEN NoDir ELSE d

(* Put on the metadata of platform p.  Its temporary file has a fixed name *)
(* so the rename also consumes what an earlier killed Put left.            *)
PutMetaFile(d, p, c) == [d EXCEPT !.meta[p] = c, !.tmp[p] = None]

(* The directories a failed Put of that metadata leaves: it fails before   *)
(* it opens the temporary file, or removes it.                             *)
FailedPut(d, p) == {d, [d EXCEPT !.tmp[p] = None]}

(* The metadata GetProviderPlatforms finds for platform p.  It reads every *)
(* *.json in the order of the names, in which .tmp-* comes first, keeps    *)
(* the first one per platform and skips a file it cannot read.             *)
MetadataFound(d, p, lost) ==
    IF d.tmp[p] # None /\ <<p, "tmp">> \notin lost THEN d.tmp[p]
    ELSE IF <<p, "meta">> \notin lost THEN d.meta[p]
    ELSE None

(* Mutant: a file that cannot be read is used as if it had been.           *)
EntriesUnchecked(d, lost) == {<<p, MetadataFound(d, p, lost)>> : p \in Platforms}

(* Mutant: the artifact of every platform ever stored is listed.           *)
EntriesStored(d, lost) == d.zips

(* The lines rebuildProviderChecksums writes: the platforms found whose    *)
(* artifact exists.                                                        *)
Entries(d, lost) == {a \in d.zips : MetadataFound(d, a[1], lost) = a[2]}

(* The metadata files there are to read.                                   *)
JsonFiles(d) == {<<p, "tmp">> : p \in {q \in Platforms : d.tmp[q] # None}}
                    \cup {<<p, "meta">> : p \in {q \in Platforms : d.meta[q] # None}}

(* The list covers what the metadata files say: no read failed and no      *)
(* left-over temporary file took part.                                     *)
Clean(d, lost) == lost = {} /\ d.tmp = NoFiles

-----------------------------------------------------------------------------
(* The holder of mutationMu *)

Free == phase = "up" /\ pc = "idle"

(* A handler takes the lock; the answer is still open.                     *)
Take(next, r) ==
    /\ pc' = next
    /\ req' = r
    /\ answer' = "none"

(* It goes on to its next storage call ...                                 *)
Goto(next) ==
    /\ pc' = next
    /\ UNCHANGED <<req, staged, answer>>

(* ... or answers and unlocks: its locals are gone.                        *)
Answer(a) ==
    /\ pc' = "idle"
    /\ answer' = a
    /\ req' = NoReq
    /\ undo' = NoUndo
    /\ staged' = NoDir
    /\ faults' = 0

(* A request refused before it changed anything: a bad body or archive, an *)
(* upload over the limit, a delete or deprecation of an unknown version.   *)
Refuse ==
    /\ Free
    /\ answer' = "error"
    /\ UNCHANGED <<disk, history, phase, todo, pc, req, undo, staged, faults>>

-----------------------------------------------------------------------------
(* uploadProviderHandler *)

(* PutStreamImmutable: the archive goes to its content-addressed name      *)
(* unless it is there already.                                             *)
StoreArtifact(v, p, c) ==
    /\ Free
    /\ dir' = [dir EXCEPT ![v] = WithZip(dir[v], <<p, c>>)]
    /\ Take("putMeta", [v |-> v, p |-> p, c |-> c])
    /\ undo' = [NoUndo EXCEPT !.existed = <<p, c>> \in dir[v].zips,
                              !.was = dir[v].meta[p]]
    /\ UNCHANGED <<index, trash, phase, todo, staged, faults, history>>

(* It fails after MkdirAll: the archive is not stored.                     *)
StoreArtifactFails(v) ==
    /\ Free /\ MayFail
    /\ dir' = [dir EXCEPT ![v].exists = TRUE]
    /\ answer' = "error"
    /\ UNCHANGED <<index, trash, phase, todo, pc, req, undo, staged, faults, history>>

(* The metadata is switched to the new artifact; what it was is kept for   *)
(* restorePublication.  A read that fails counts as "was not there".       *)
PutMeta ==
    /\ pc = "putMeta"
    /\ \E ok \in BOOLEAN :
          /\ (ok \/ MayFail) /\ Count(ok)
          /\ undo' = [undo EXCEPT !.meta = IF ok THEN dir[req.v].meta[req.p] ELSE None]
          /\ litter' = IF ok THEN litter ELSE litter \cup {req.v}
    /\ dir' = [dir EXCEPT ![req.v] = PutMetaFile(dir[req.v], req.p, req.c)]
    /\ Goto("putSums")
    /\ UNCHANGED <<index, trash, phase, todo, acked, suspect>>

PutMetaFails ==
    /\ pc = "putMeta" /\ MayFail /\ Count(FALSE)
    /\ \E d \in FailedPut(dir[req.v], req.p) : dir' = [dir EXCEPT ![req.v] = d]
    /\ Goto("dropZip")
    /\ UNCHANGED <<index, trash, phase, todo, undo, history>>

(* The list and the signature there are to read ...                        *)
Signed(d) == (IF d.sums # {} THEN {"sums"} ELSE {})
                 \cup (IF d.sig # {} THEN {"sig"} ELSE {})

(* ... and what of them restorePublication would put back.                 *)
Remember(u, d, lostPrev) ==
    [u EXCEPT !.sums  = IF "sums" \in lostPrev THEN {} ELSE d.sums,
              !.sig   = IF "sig" \in lostPrev THEN {} ELSE d.sig,
              !.whole = lostPrev = {}]

(* rebuildProviderChecksums: first the list ...                            *)
PutSums ==
    /\ pc = "putSums"
    /\ \E lost \in SUBSET JsonFiles(dir[req.v]), lostPrev \in SUBSET Signed(dir[req.v]) :
          LET d == dir[req.v]
              entries == Entries(d, lost)
              ok == lost = {} /\ lostPrev = {}
          IN  /\ (ok \/ MayFail) /\ Count(ok)
              /\ undo' = [Remember(undo, d, lostPrev) EXCEPT !.clean = Clean(d, lost)]
              /\ \/ /\ entries # {}
                    /\ dir' = [dir EXCEPT ![req.v].sums = entries]
                    /\ Goto("putSig")
                 \/ /\ entries = {}
                    /\ dir' = dir
                    /\ Goto("restoreMeta")
    /\ UNCHANGED <<index, trash, phase, todo, history>>

PutSumsFails ==
    /\ pc = "putSums" /\ MayFail /\ Count(FALSE)
    /\ \E lostPrev \in SUBSET Signed(dir[req.v]) :
          undo' = Remember(undo, dir[req.v], lostPrev)
    /\ Goto("restoreMeta")
    /\ UNCHANGED <<disk, phase, todo, history>>

(* ... then its signature.                                                 *)
PutSig ==
    /\ pc = "putSig"
    /\ dir' = [dir EXCEPT ![req.v].sig = dir[req.v].sums]
    /\ Goto("addIndex")
    /\ UNCHANGED <<index, trash, phase, todo, undo, faults, history>>

PutSigFails ==
    /\ pc = "putSig" /\ MayFail /\ Count(FALSE)
    /\ Goto("restoreMeta")
    /\ UNCHANGED <<disk, phase, todo, undo, history>>

(* AddProviderVersion *)
AddIndex ==
    /\ pc = "addIndex"
    /\ index' = index \cup {req.v}
    /\ Goto("dropOld")
    /\ UNCHANGED <<dir, trash, phase, todo, undo, faults, history>>

(* The index is always read, and written if the version is new to it.      *)
AddIndexFails ==
    /\ pc = "addIndex" /\ MayFail /\ Count(FALSE)
    /\ Goto("restoreMeta")
    /\ UNCHANGED <<disk, phase, todo, undo, history>>

(* Mutant: the replaced artifact is forgotten.                             *)
ReplacedKept == {}

(* Mutant: it is removed even if the new one has the same name.            *)
ReplacedAlways == {<<req.p, old>> : old \in {undo.meta} \ {None}}

(* The artifact the upload replaced, if it has another name.               *)
Replaced == {<<req.p, old>> : old \in {undo.meta} \ {None, req.c}}

(* The replaced artifact is removed, the client told 200.                  *)
DropOld(ok) ==
    /\ pc = "dropOld"
    /\ ok \/ (MayFail /\ Replaced # {})
    /\ dir' = IF ok THEN [dir EXCEPT ![req.v] = WithoutZips(dir[req.v], Replaced)] ELSE dir
    /\ acked' = [acked EXCEPT ![req.v][req.p] = req.c]
    /\ suspect' = IF undo.clean THEN suspect \ {req.v} ELSE suspect \cup {req.v}
    /\ litter' = IF ok THEN litter ELSE litter \cup {req.v}
    /\ Answer("ok")
    /\ UNCHANGED <<index, trash, phase, todo>>

(* Mutant: the metadata is removed instead of put back.                    *)
RestoredMetaRemoved == None

(* restorePublication puts back what was there, or removes what was not;   *)
(* it ignores every error.                                                 *)
RestoredMeta == undo.meta

RestoreMeta ==
    /\ pc = "restoreMeta"
    /\ Count(TRUE)
    /\ dir' = [dir EXCEPT ![req.v] =
                IF RestoredMeta # None THEN PutMetaFile(dir[req.v], req.p, RestoredMeta)
                                       ELSE [dir[req.v] EXCEPT !.meta[req.p] = None]]
    /\ Goto("restoreSums")
    /\ UNCHANGED <<index, trash, phase, todo, undo, history>>

RestoreMetaFails ==
    /\ pc = "restoreMeta" /\ MayFail /\ Count(FALSE)
    /\ \E d \in FailedPut(dir[req.v], req.p) :
          dir' = IF RestoredMeta # None THEN [dir EXCEPT ![req.v] = d] ELSE dir
    /\ Goto("restoreSums")
    /\ UNCHANGED <<index, trash, phase, todo, undo, history>>

(* Mutant: the list is removed instead of put back.                        *)
RestoredSumsRemoved == {}
RestoredSums == undo.sums

RestoreSums(ok) ==
    /\ pc = "restoreSums" /\ (ok \/ MayFail) /\ Count(ok)
    /\ dir' = IF ok THEN [dir EXCEPT ![req.v].sums = RestoredSums] ELSE dir
    /\ Goto("restoreSig")
    /\ UNCHANGED <<index, trash, phase, todo, undo, history>>

(* Mutant: the signature of the list that was withdrawn stays.             *)
RestoredSigKept == dir[req.v].sig
RestoredSig == undo.sig

RestoreSig(ok) ==
    /\ pc = "restoreSig" /\ (ok \/ MayFail) /\ Count(ok)
    /\ dir' = IF ok THEN [dir EXCEPT ![req.v].sig = RestoredSig] ELSE dir
    /\ Goto("dropZip")
    /\ UNCHANGED <<index, trash, phase, todo, undo, history>>

(* Mutant: the artifact is removed even if it was there before.            *)
WithdrawnAlways == {<<req.p, req.c>>}

(* The artifact a failed upload takes back: only one it has stored itself. *)
Withdrawn == IF undo.existed THEN {} ELSE {<<req.p, req.c>>}

DropZip(ok) ==
    /\ pc = "dropZip"
    /\ ok \/ (MayFail /\ Withdrawn # {})
    /\ dir' = IF ok /\ Withdrawn # {}
               THEN [dir EXCEPT ![req.v] = Prune(WithoutZips(dir[req.v], Withdrawn))]
               ELSE dir
    /\ litter' = IF ok THEN litter ELSE litter \cup {req.v}
    /\ suspect' = IF undo.whole THEN suspect ELSE suspect \cup {req.v}
    /\ Answer("error")
    /\ UNCHANGED <<index, trash, phase, todo, acked>>

-----------------------------------------------------------------------------
(* deleteProviderVersionHandler *)

(* StageDeleteTree: the directory is renamed to .trash-<version>-*.        *)
StageDelete(v) ==
    /\ Free
    /\ dir[v].exists
    /\ staged' = dir[v]
    /\ dir' = [dir EXCEPT ![v] = NoDir]
    /\ Take("unindex", [NoReq EXCEPT !.v = v])
    /\ UNCHANGED <<index, trash, phase, todo, undo, faults, history>>

(* RemoveProviderVersion reads the index and always writes it.             *)
RemoveIndex ==
    /\ pc = "unindex"
    /\ index' = index \ {req.v}
    /\ Goto("commit")
    /\ UNCHANGED <<dir, trash, phase, todo, undo, faults, history>>

RemoveIndexFails ==
    /\ pc = "unindex" /\ MayFail /\ Count(FALSE)
    /\ Goto("rollback")
    /\ UNCHANGED <<disk, phase, todo, undo, history>>

(* Nothing promised about version v any more.                              *)
Forget(v) == acked' = [acked EXCEPT ![v] = NoFiles]

Rollback(ok) ==
    /\ pc = "rollback" /\ (ok \/ MayFail)
    /\ dir' = IF ok THEN [dir EXCEPT ![req.v] = staged] ELSE dir
    /\ trash' = IF ok THEN trash ELSE trash \cup {req.v}
    /\ IF ok THEN UNCHANGED acked ELSE Forget(req.v)
    /\ Answer("error")
    /\ UNCHANGED <<index, phase, todo, suspect, litter>>

(* RemoveAll of the staged tree; the version is gone either way.           *)
Commit(ok) ==
    /\ pc = "commit" /\ (ok \/ MayFail)
    /\ trash' = IF ok THEN trash ELSE trash \cup {req.v}
    /\ Forget(req.v)
    /\ suspect' = suspect \ {req.v}
    /\ litter' = litter \ {req.v}
    /\ Answer(IF ok THEN "ok" ELSE "error")
    /\ UNCHANGED <<dir, index, phase, todo>>

-----------------------------------------------------------------------------
(* deprecateProviderHandler *)

(* The version must be in the index; its directory is created if it is not *)
(* there.                                                                  *)
Deprecate(v, ok) ==
    /\ Free
    /\ v \in index
    /\ ok \/ MayFail
    /\ dir' = [dir EXCEPT ![v] = [dir[v] EXCEPT
                !.exists = TRUE, !.deprecated = ok \/ dir[v].deprecated]]
    /\ answer' = IF ok THEN "ok" ELSE "error"
    /\ UNCHANGED <<index, trash, phase, todo, pc, req, undo, staged, faults, history>>

(* GarbageCollect, from its ticker (which takes no lock) or from gcHandler: *)
(* a left-over temporary file has become old enough.                       *)
CollectGarbage(v, p) ==
    /\ phase = "up"
    /\ dir[v].tmp[p] # None
    /\ dir' = [dir EXCEPT ![v].tmp[p] = None]
    /\ UNCHANGED <<index, trash, process, history>>

-----------------------------------------------------------------------------
(* Crash and start *)

(* The metadata file a Put is writing at this point, if any.               *)
BeingPut ==
    CASE pc = "putMeta" -> req.c
      [] pc = "restoreMeta" -> undo.meta
      [] OTHER -> None

(* The process is killed.  A Put of metadata that is under way leaves the  *)
(* temporary file as it was, or useless, or complete.  The answer to the   *)
(* request is never sent, so nothing is promised about its target.         *)
Crash ==
    /\ phase # "down"
    /\ phase' = "down"
    /\ todo' = {}
    /\ IF BeingPut # None
       THEN \E t \in {dir[req.v].tmp[req.p], None, BeingPut} :
              dir' = [dir EXCEPT ![req.v].tmp[req.p] = t]
       ELSE UNCHANGED dir
    /\ trash' = IF pc \in DeletePCs THEN trash \cup {req.v} ELSE trash
    /\ acked' = CASE pc \in UploadPCs -> [acked EXCEPT ![req.v][req.p] = None]
                  [] pc \in DeletePCs -> [acked EXCEPT ![req.v] = NoFiles]
                  [] OTHER -> acked
    /\ suspect' = IF pc = "idle" THEN suspect ELSE suspect \cup {req.v}
    /\ litter' = IF pc \in UploadPCs THEN litter \cup {req.v} ELSE litter
    /\ Answer("none")
    /\ UNCHANGED index

(* main: before it listens, the server rebuilds the checksum list of every *)
(* version directory it finds.                                             *)
Start ==
    /\ phase = "down"
    /\ phase' = "starting"
    /\ todo' = {v \in Versions : dir[v].exists}
    /\ UNCHANGED <<disk, history, pc, req, undo, staged, faults, answer>>

RebuildSums(v) ==
    /\ phase = "starting" /\ pc = "idle"
    /\ v \in todo
    /\ \E lost \in SUBSET JsonFiles(dir[v]) :
          /\ (lost = {} \/ MayFail) /\ Count(lost = {})
          /\ Entries(dir[v], lost) # {}
          /\ dir' = [dir EXCEPT ![v].sums = Entries(dir[v], lost)]
          /\ undo' = [undo EXCEPT !.clean = Clean(dir[v], lost)]
          /\ suspect' = IF Clean(dir[v], lost) THEN suspect ELSE suspect \cup {v}
    /\ Take("bootSig", [NoReq EXCEPT !.v = v])
    /\ UNCHANGED <<index, trash, phase, todo, staged, acked, litter>>

(* No artifact is found, or a call fails: the start goes on.               *)
RebuildSumsFails(v) ==
    /\ phase = "starting" /\ pc = "idle"
    /\ v \in todo
    /\ MayFail \/ Entries(dir[v], {}) = {}
    /\ todo' = todo \ {v}
    /\ UNCHANGED <<disk, history, phase, pc, req, undo, staged, faults, answer>>

RebuildSig(ok) ==
    /\ pc = "bootSig" /\ (ok \/ MayFail)
    /\ dir' = IF ok THEN [dir EXCEPT ![req.v].sig = dir[req.v].sums] ELSE dir
    /\ suspect' = IF ok /\ undo.clean THEN suspect \ {req.v} ELSE suspect
    /\ todo' = todo \ {req.v}
    /\ Answer("none")
    /\ UNCHANGED <<index, trash, phase, acked, litter>>

(* ListenAndServe *)
Listen ==
    /\ phase = "starting" /\ pc = "idle" /\ todo = {}
    /\ phase' = "up"
    /\ UNCHANGED <<disk, history, todo, pc, req, undo, staged, faults, answer>>

-----------------------------------------------------------------------------
Init ==
    /\ dir = [v \in Versions |-> NoDir]
    /\ index = {} /\ trash = {}
    /\ phase = "down" /\ todo = {}
    /\ pc = "idle" /\ req = NoReq /\ undo = NoUndo /\ staged = NoDir
    /\ faults = 0 /\ answer = "none"
    /\ acked = [v \in Versions |-> NoFiles]
    /\ suspect = {} /\ litter = {}

Upload ==
    \/ \E v \in Versions, p \in Platforms, c \in Contents : StoreArtifact(v, p, c)
    \/ \E v \in Versions : StoreArtifactFails(v)
    \/ PutMeta \/ PutMetaFails
    \/ PutSums \/ PutSumsFails
    \/ PutSig \/ PutSigFails
    \/ AddIndex \/ AddIndexFails
    \/ \E ok \in BOOLEAN : DropOld(ok)

Restore ==
    \/ RestoreMeta \/ RestoreMetaFails
    \/ \E ok \in BOOLEAN : RestoreSums(ok) \/ RestoreSig(ok) \/ DropZip(ok)

Delete ==
    \/ \E v \in Versions : StageDelete(v)
    \/ RemoveIndex \/ RemoveIndexFails
    \/ \E ok \in BOOLEAN : Rollback(ok) \/ Commit(ok)

Startup ==
    \/ Start \/ Listen
    \/ \E v \in Versions : RebuildSums(v) \/ RebuildSumsFails(v)
    \/ \E ok \in BOOLEAN : RebuildSig(ok)

Next ==
    \/ Refuse \/ Upload \/ Restore \/ Delete
    \/ \E v \in Versions, ok \in BOOLEAN : Deprecate(v, ok)
    \/ \E v \in Versions, p \in Platforms : CollectGarbage(v, p)
    \/ Crash \/ Startup

Spec == Init /\ [][Next]_vars

-----------------------------------------------------------------------------
(* Properties *)

(* A platform's metadata never names an artifact that is not stored: not   *)
(* while an upload switches it, not while one is taken back, not after a   *)
(* kill at any point of either.  It needs at most one failed write per     *)
(* request: restorePublication ignores its own errors.                     *)
MetadataNamesArtifact ==
    \A v \in Versions, p \in Platforms :
        dir[v].meta[p] # None => <<p, dir[v].meta[p]>> \in dir[v].zips

(* The version a mutation is working on, which readers may see half done.  *)
Target == IF pc = "idle" THEN {} ELSE {req.v}

Named(d) == {<<p, d.meta[p]>> : p \in {q \in Platforms : d.meta[q] # None}}

(* While the server answers, the checksum list of every version no request *)
(* is working on names exactly the published artifacts, and the signature  *)
(* is that of this very list.  Only a kill inside a mutation, a failed     *)
(* read or a failed rebuild at the start makes an exception (suspect).     *)
ChecksumsMatchMetadata ==
    phase = "up" =>
        \A v \in Versions \ (Target \cup suspect) :
            /\ dir[v].sums = Named(dir[v])
            /\ dir[v].sig = dir[v].sums

(* What a client was told is published stays published and listed, through *)
(* kills, restarts, and failed uploads of the same or another platform,    *)
(* until a later request for the same target succeeds or is cut off.       *)
AckedStaysPublished ==
    \A v \in Versions \ Target, p \in Platforms :
        acked[v][p] # None =>
            /\ dir[v].meta[p] = acked[v][p]
            /\ <<p, acked[v][p]>> \in dir[v].zips
            /\ v \in index

(* A failed or a replacing upload leaves no artifact behind that nobody    *)
(* names, unless it was killed or its clean-up failed (litter).            *)
NoOrphanArtifacts ==
    \A v \in Versions \ (Target \cup litter) : dir[v].zips \subseteq Named(dir[v])

(* When nothing is under way, what the metadata publishes is in the signed *)
(* checksum list: the rebuild at the start repairs what a kill cut off.    *)
PublishedIsListed ==
    Free => \A v \in Versions : Named(dir[v]) \subseteq dir[v].sums \cap dir[v].sig

-----------------------------------------------------------------------------
(* The promise of Catalog, kept by the files                               *)

(* The content published for each platform of a directory: the metadata    *)
(* names it and its artifact is there.  The mirror offers just that ...    *)
Visible(d) == [p \in Platforms |->
                  IF <<p, d.meta[p]>> \in d.zips THEN d.meta[p] ELSE None]

(* ... and providerDownloadHandler what also has a list and a signature.   *)
Downloadable(d) == [p \in Platforms |->
                       IF d.sums # {} /\ d.sig # {} THEN Visible(d)[p] ELSE None]

(* However many calls fail on the way, a 200 for an upload is true: the    *)
(* content can be downloaded, its version is listed, and the signature is  *)
(* that of the checksum list.                                              *)
OkMeansPublished ==
    [][pc = "dropOld" /\ answer' = "ok" =>
          LET d == dir'[req.v] IN
          /\ Downloadable(d)[req.p] = req.c
          /\ req.v \in index'
          /\ d.sig = d.sums]_vars

Touches(v, p) ==
    \/ pc \in UploadPCs /\ req.v = v /\ req.p = p
    \/ pc \in DeletePCs /\ req.v = v

(* An upload is being taken back that found no list or no signature of     *)
(* version v before its own, or could not read it (then undo.whole is      *)
(* FALSE): restorePublication removes those there are.                     *)
NothingToPutBack(v) ==
    /\ pc \in {"restoreSums", "restoreSig"} /\ req.v = v
    /\ undo.sums = {} \/ undo.sig = {}

(* However many calls fail, what is published for a platform or version    *)
(* does not change by a request that is not about it, nor by anything      *)
(* else; and it stays downloadable.  All platforms of a version share list *)
(* and signature, so there is one exception: a failed upload takes them    *)
(* from the other platforms if it has none to put back.                    *)
FailuresStayLocal ==
    [][\A v \in Versions, p \in Platforms :
          ~Touches(v, p) /\ ~Touches(v, p)' =>
              /\ Visible(dir'[v])[p] = Visible(dir[v])[p]
              /\ Downloadable(dir[v])[p] # None /\ ~NothingToPutBack(v) =>
                    Downloadable(dir'[v])[p] = Downloadable(dir[v])[p]]_vars

(* The request as Catalog sees it.                                         *)
Request ==
    CASE pc \in UploadPCs ->
           [kind |-> "upload", v |-> req.v, p |-> req.p, c |-> req.c,
            old |-> [Visible(dir[req.v]) EXCEPT ![req.p] = undo.was]]
      [] pc \in DeletePCs ->
           [kind |-> "delete", v |-> req.v, p |-> None, c |-> None,
            old |-> Visible(staged)]
      [] OTHER ->
           [kind |-> "none", v |-> None, p |-> None, c |-> None, old |-> NoFiles]

Published == INSTANCE Catalog
             WITH cat <- [v \in Versions |-> Visible(dir[v])], busy <- Request

(* Uploads and deletes are atomic for whoever reads the metadata and then  *)
(* the artifact: they see the version as it was or as it shall be, a 200   *)
(* answer means the latter and a failed upload the former, also when any   *)
(* one storage call fails or the server is killed at any point.            *)
PublishesAtomically == Published!Spec
=============================================================================

----------------------- MODULE ProviderRegistryProofs -----------------------
(***************************************************************************)
(* Proofs about ProviderRegistry, for every set of versions, platforms and *)
(* contents: first that metadata names what is stored and what was         *)
(* acknowledged stays, then what holds of the answers however many storage *)
(* calls fail, the checksum lists and the left-over artifacts, and that    *)
(* the files keep the promise of Catalog.                                  *)
(***************************************************************************)
EXTENDS ProviderRegistry, TLAPS

-----------------------------------------------------------------------------
(* What the operators on a version directory preserve *)

(* The missing directory, the empty request locals: all are well typed.    *)
LEMMA NoFilesType == NoFiles \in MetaFiles
BY DEF NoFiles, MetaFiles

(* So is the directory of a version that has none.                         *)
LEMMA NoDirType == NoDir \in Dirs
BY NoFilesType DEF NoDir, Dirs

(* Put on a metadata file keeps the directory well typed, and changes      *)
(* nothing but the metadata and the temporary file of its platform.        *)
LEMMA PutMetaFileType ==
    ASSUME NEW d \in Dirs, NEW p \in Platforms, NEW c \in Contents \cup {None}
    PROVE  PutMetaFile(d, p, c) \in Dirs
BY DEF PutMetaFile, Dirs, MetaFiles

(* A failed Put leaves a directory behind that is well typed.              *)
LEMMA FailedPutType ==
    ASSUME NEW d \in Dirs, NEW p \in Platforms, NEW e \in FailedPut(d, p)
    PROVE  e \in Dirs
BY DEF FailedPut, Dirs, MetaFiles

(* What an upload remembers for its rollback is well typed.                *)
LEMMA RememberType ==
    ASSUME NEW u \in Undos, NEW d \in Dirs, NEW lostPrev
    PROVE  Remember(u, d, lostPrev) \in Undos
BY DEF Remember, Undos, Dirs

(* Storing an artifact keeps the directory well typed.                     *)
LEMMA WithZipType ==
    ASSUME NEW d \in Dirs, NEW a \in Artifacts
    PROVE  WithZip(d, a) \in Dirs
BY DEF WithZip, Dirs

(* Removing artifacts does.                                                *)
LEMMA WithoutZipsType ==
    ASSUME NEW d \in Dirs, NEW as
    PROVE  WithoutZips(d, as) \in Dirs
BY DEF WithoutZips, Dirs

(* Removing a directory that has become empty does.                        *)
LEMMA PruneType ==
    ASSUME NEW d \in Dirs
    PROVE  Prune(d) \in Dirs
BY NoDirType DEF Prune

(* The rebuilt checksum list names artifacts, whatever reads failed.       *)
LEMMA EntriesType ==
    ASSUME NEW d \in Dirs, NEW lost
    PROVE  Entries(d, lost) \in SUBSET Artifacts
BY DEF Entries, Dirs

(* A handler that answers leaves its locals empty.                         *)
LEMMA AnswerType ==
    ASSUME NEW a \in {"none", "ok", "error"}, Answer(a)
    PROVE  /\ pc' = "idle"
           /\ answer' \in {"none", "ok", "error"}
           /\ req' \in [v : Versions \cup {None}, p : Platforms \cup {None},
                        c : Contents \cup {None}]
           /\ undo' \in Undos
           /\ staged' \in Dirs
           /\ faults' \in 0..MaxFaults
BY NoDirType, FaultAssumption DEF Answer, NoReq, NoUndo, Undos
-----------------------------------------------------------------------------
(* Type correctness *)

(* Every step of every handler, of the start and of a kill keeps the types.*)
LEMMA TypeOKStep == TypeOK /\ [Next]_vars => TypeOK'
<1> SUFFICES ASSUME TypeOK, [Next]_vars PROVE TypeOK'
    OBVIOUS
<1> USE FaultAssumption, NoneAssumption DEF TypeOK, Undos, PCs, UploadPCs, DeletePCs, StartupPCs
<1>1. ASSUME Refuse PROVE TypeOK'
    BY <1>1 DEF Refuse, Free, disk, history
<1>2. ASSUME NEW v \in Versions, NEW p \in Platforms, NEW c \in Contents, StoreArtifact(v, p, c) PROVE TypeOK'
  <2>1. dir' \in [Versions -> Dirs]
      BY <1>2, WithZipType DEF StoreArtifact, Artifacts
  <2>2. undo' \in Undos
      <3>1. dir[v].meta[p] \in Contents \cup {None}
          BY DEF Dirs, MetaFiles
      <3>2. undo' = [existed |-> <<p, c>> \in dir[v].zips, meta |-> None,
                     sums |-> {}, sig |-> {}, clean |-> TRUE, whole |-> TRUE,
                     was |-> dir[v].meta[p]]
          BY <1>2 DEF StoreArtifact, NoUndo
      <3> QED
          BY <3>1, <3>2
  <2> QED
      BY <1>2, <2>1, <2>2 DEF StoreArtifact, Free, Take, history
<1>3. ASSUME NEW v \in Versions, StoreArtifactFails(v) PROVE TypeOK'
  <2>1. dir' \in [Versions -> Dirs]
      BY <1>3 DEF StoreArtifactFails, Dirs
  <2> QED
      BY <1>3, <2>1 DEF StoreArtifactFails, Free, history
<1>4. ASSUME PutMeta PROVE TypeOK'
  <2>1. dir' \in [Versions -> Dirs]
      BY <1>4, PutMetaFileType DEF PutMeta
  <2>2. undo' \in Undos
      <3>1. dir[req.v].meta[req.p] \in Contents \cup {None}
          BY <1>4 DEF PutMeta, Dirs, MetaFiles
      <3> QED
          BY <1>4, <3>1 DEF PutMeta
  <2> QED
      BY <1>4, <2>1, <2>2 DEF PutMeta, MayFail, Count, Goto
<1>5. ASSUME PutMetaFails PROVE TypeOK'
    BY <1>5, FailedPutType DEF PutMetaFails, MayFail, Count, Goto, history
<1>6. ASSUME PutSums PROVE TypeOK'
  <2>1. dir' \in [Versions -> Dirs]
      <3>1. CASE dir' = dir
          BY <3>1
      <3>2. ASSUME NEW s \in SUBSET Artifacts, dir' = [dir EXCEPT ![req.v].sums = s]
            PROVE  dir' \in [Versions -> Dirs]
          BY <1>6, <3>2 DEF PutSums, Dirs
      <3> QED
          <4>1. dir' = dir \/ \E lost : dir' = [dir EXCEPT ![req.v].sums = Entries(dir[req.v], lost)]
              BY <1>6 DEF PutSums
          <4>2. dir[req.v] \in Dirs
              BY <1>6 DEF PutSums
          <4> QED
              BY <4>1, <4>2, <3>1, <3>2, EntriesType
  <2>2. undo' \in Undos
      <3>1. dir[req.v] \in Dirs
          BY <1>6 DEF PutSums
      <3>2. PICK lost, lostPrev :
                undo' = [Remember(undo, dir[req.v], lostPrev) EXCEPT !.clean = Clean(dir[req.v], lost)]
          BY <1>6 DEF PutSums
      <3>3. Remember(undo, dir[req.v], lostPrev) \in Undos
          BY <3>1, RememberType
      <3> QED
          BY <3>2, <3>3 DEF Clean
  <2>3. faults' \in 0..MaxFaults
      BY <1>6 DEF PutSums, MayFail, Count
  <2>4. pc = "putSums" /\ pc' \in {"putSig", "restoreMeta"} /\ UNCHANGED <<req, staged, answer>>
      BY <1>6 DEF PutSums, Goto
  <2>5. UNCHANGED <<index, trash, phase, todo, acked, suspect, litter>>
      BY <1>6 DEF PutSums, history
  <2> QED
      BY <2>1, <2>2, <2>3, <2>4, <2>5
<1>7. ASSUME PutSumsFails PROVE TypeOK'
  <2>1. undo' \in Undos
      BY <1>7, RememberType DEF PutSumsFails
  <2> QED
      BY <1>7, <2>1 DEF PutSumsFails, MayFail, Count, Goto, disk, history
<1>8. ASSUME PutSig PROVE TypeOK'
    BY <1>8 DEF PutSig, Goto, Dirs, history
<1>9. ASSUME PutSigFails PROVE TypeOK'
    BY <1>9 DEF PutSigFails, MayFail, Count, Goto, disk, history
<1>10. ASSUME AddIndex PROVE TypeOK'
    BY <1>10 DEF AddIndex, Goto, history
<1>11. ASSUME AddIndexFails PROVE TypeOK'
    BY <1>11 DEF AddIndexFails, MayFail, Count, Goto, disk, history
<1>12. ASSUME NEW ok \in BOOLEAN, DropOld(ok) PROVE TypeOK'
    BY <1>12, AnswerType, WithoutZipsType DEF DropOld, MetaFiles
<1>13. ASSUME RestoreMeta PROVE TypeOK'
  <2>1. req.v \in Versions /\ req.p \in Platforms /\ dir[req.v] \in Dirs
      BY <1>13 DEF RestoreMeta
  <2>2. undo.meta \in Contents \cup {None}
      OBVIOUS
  <2>3. [dir[req.v] EXCEPT !.meta[req.p] = None] \in Dirs
      BY <2>1 DEF Dirs, MetaFiles
  <2>4. PutMetaFile(dir[req.v], req.p, undo.meta) \in Dirs
      BY <2>1, <2>2, PutMetaFileType
  <2>5. dir' \in [Versions -> Dirs]
      BY <1>13, <2>1, <2>3, <2>4 DEF RestoreMeta, RestoredMeta
  <2> QED
      BY <1>13, <2>5 DEF RestoreMeta, Count, Goto, history
<1>14. ASSUME RestoreMetaFails PROVE TypeOK'
    BY <1>14, FailedPutType DEF RestoreMetaFails, MayFail, Count, Goto, history
<1>15. ASSUME NEW ok \in BOOLEAN, RestoreSums(ok) PROVE TypeOK'
    BY <1>15 DEF RestoreSums, RestoredSums, MayFail, Count, Goto, Dirs, history
<1>16. ASSUME NEW ok \in BOOLEAN, RestoreSig(ok) PROVE TypeOK'
    BY <1>16 DEF RestoreSig, RestoredSig, MayFail, Count, Goto, Dirs, history
<1>17. ASSUME NEW ok \in BOOLEAN, DropZip(ok) PROVE TypeOK'
  <2>1. dir' \in [Versions -> Dirs]
      BY <1>17, WithoutZipsType, PruneType DEF DropZip
  <2> QED
      BY <1>17, <2>1, AnswerType DEF DropZip
<1>18. ASSUME NEW v \in Versions, StageDelete(v) PROVE TypeOK'
    BY <1>18, NoDirType DEF StageDelete, Free, Take, NoReq, history
<1>19. ASSUME RemoveIndex PROVE TypeOK'
    BY <1>19 DEF RemoveIndex, Goto, history
<1>20. ASSUME RemoveIndexFails PROVE TypeOK'
    BY <1>20 DEF RemoveIndexFails, MayFail, Count, Goto, disk, history
<1>21. ASSUME NEW ok \in BOOLEAN, Rollback(ok) PROVE TypeOK'
    BY <1>21, AnswerType, NoFilesType DEF Rollback, Forget
<1>22. ASSUME NEW ok \in BOOLEAN, Commit(ok) PROVE TypeOK'
    BY <1>22, AnswerType, NoFilesType DEF Commit, Forget
<1>23. ASSUME NEW v \in Versions, NEW ok \in BOOLEAN, Deprecate(v, ok) PROVE TypeOK'
  <2>1. dir' \in [Versions -> Dirs]
      BY <1>23 DEF Deprecate, Dirs
  <2> QED
      BY <1>23, <2>1 DEF Deprecate, Free, history
<1>24. ASSUME NEW v \in Versions, NEW p \in Platforms, CollectGarbage(v, p) PROVE TypeOK'
  <2>1. dir' \in [Versions -> Dirs]
      BY <1>24 DEF CollectGarbage, Dirs, MetaFiles
  <2> QED
      BY <1>24, <2>1 DEF CollectGarbage, process, history
<1>25. ASSUME Crash PROVE TypeOK'
  <2>1. dir' \in [Versions -> Dirs]
      <3>1. ASSUME BeingPut # None,
                   NEW t \in {dir[req.v].tmp[req.p], None, BeingPut},
                   dir' = [dir EXCEPT ![req.v].tmp[req.p] = t]
            PROVE  dir' \in [Versions -> Dirs]
          <4>1. req.v \in Versions /\ req.p \in Platforms
              BY <3>1 DEF BeingPut
          <4>2. BeingPut \in Contents \cup {None}
              BY DEF BeingPut
          <4>3. t \in Contents \cup {None}
              BY <3>1, <4>1, <4>2 DEF Dirs, MetaFiles
          <4> QED
              BY <3>1, <4>1, <4>3 DEF Dirs, MetaFiles
      <3> QED
          BY <1>25, <3>1 DEF Crash
  <2>2. acked' \in [Versions -> MetaFiles]
      BY <1>25, NoFilesType DEF Crash, MetaFiles
  <2> QED
      BY <1>25, <2>1, <2>2, AnswerType DEF Crash
<1>26. ASSUME Start PROVE TypeOK'
    BY <1>26 DEF Start, disk, history
<1>27. ASSUME NEW v \in Versions, RebuildSums(v) PROVE TypeOK'
  <2>1. PICK s \in SUBSET Artifacts : dir' = [dir EXCEPT ![v].sums = s]
      BY <1>27, EntriesType DEF RebuildSums
  <2>2. dir' \in [Versions -> Dirs]
      BY <2>1 DEF Dirs
  <2>3. undo' \in Undos
      BY <1>27 DEF RebuildSums, Clean
  <2> QED
      BY <1>27, <2>2, <2>3 DEF RebuildSums, MayFail, Count, Take, NoReq
<1>28. ASSUME NEW v \in Versions, RebuildSumsFails(v) PROVE TypeOK'
    BY <1>28 DEF RebuildSumsFails, disk, history
<1>29. ASSUME NEW ok \in BOOLEAN, RebuildSig(ok) PROVE TypeOK'
    BY <1>29, AnswerType DEF RebuildSig, Dirs
<1>30. ASSUME Listen PROVE TypeOK'
    BY <1>30 DEF Listen, disk, history
<1>31. CASE UNCHANGED vars
    BY <1>31 DEF vars
<1> QED
    BY <1>1, <1>2, <1>3, <1>4, <1>5, <1>6, <1>7, <1>8, <1>9, <1>10, <1>11, <1>12, <1>13, <1>14, <1>15, <1>16, <1>17, <1>18, <1>19, <1>20, <1>21, <1>22, <1>23, <1>24, <1>25, <1>26, <1>27, <1>28, <1>29, <1>30, <1>31
    DEF Next, Upload, Restore, Delete, Startup

(* Every variable keeps its type, and a request is filled in as far as its *)
(* handler has come.                                                       *)
THEOREM TypeCorrect == Spec => []TypeOK
<1>1. Init => TypeOK
    BY NoDirType, NoFilesType, FaultAssumption
    DEF Init, TypeOK, PCs, UploadPCs, DeletePCs, StartupPCs, NoReq, NoUndo, Undos
<1> QED
    BY <1>1, TypeOKStep, PTL DEF Spec
-----------------------------------------------------------------------------
(* The inductive invariant behind MetadataNamesArtifact and                *)
(* AckedStaysPublished.  Both speak of the files only; they survive the    *)
(* next step because of what the handler under way still remembers.        *)

(* Every metadata file of directory d names a stored artifact.             *)
Sound(d) == \A p \in Platforms : d.meta[p] # None => <<p, d.meta[p]>> \in d.zips

(* Platform p of version v has in d what its clients were told.            *)
Kept(v, p, d) == acked[v][p] # None => d.meta[p] = acked[v][p]

Listed(v) == (\E p \in Platforms : acked[v][p] # None) => v \in index

(* The points of an upload at which the metadata names the new artifact,   *)
(* and those at which it is what it was.                                   *)
Switched   == {"putSums", "putSig", "addIndex", "dropOld", "restoreMeta"}
Unswitched == {"putMeta", "restoreSums", "restoreSig", "dropZip"}
Undoing    == {"restoreMeta", "restoreSums", "restoreSig", "dropZip"}

(* An upload: the artifact it stored and the one it replaces are there as  *)
(* long as it can still switch between them; it takes back its artifact    *)
(* only if nothing named it before.                                        *)
UploadSound ==
    LET d == dir[req.v] IN
    /\ pc \in Switched \cup {"putMeta"} => <<req.p, req.c>> \in d.zips
    /\ pc \in Switched =>
         /\ d.meta[req.p] = req.c
         /\ undo.meta # None => <<req.p, undo.meta>> \in d.zips
         /\ undo.meta = req.c => undo.existed
    /\ pc = "dropOld" => req.v \in index
    /\ pc \in Unswitched => (d.meta[req.p] = req.c => undo.existed)

(* It undoes its work only after a failure; with at most one failure per   *)
(* request nothing goes wrong on the way back.                             *)
UndoesAfterFailure ==
    /\ pc \in Undoing => faults # 0
    /\ pc = "putSums" => dir[req.v].tmp[req.p] = None

(* What it would put back is what was there before.                        *)
UploadRemembers ==
    /\ pc \in Unswitched => dir[req.v].meta[req.p] = undo.was
    /\ pc \in Switched /\ (faults = 0 \/ pc = "restoreMeta") => undo.meta = undo.was

(* The promises made so far, and where they are kept meanwhile.            *)
PromisesKept ==
    /\ \A v \in Versions :
         (pc \in UploadPCs \cup DeletePCs => v # req.v) =>
             Listed(v) /\ \A p \in Platforms : Kept(v, p, dir[v])
    /\ pc \in UploadPCs =>
         /\ Listed(req.v)
         /\ \A p \in Platforms \ {req.p} : Kept(req.v, p, dir[req.v])
         /\ acked[req.v][req.p] # None => undo.was = acked[req.v][req.p]
    /\ pc \in DeletePCs =>
         /\ pc # "commit" => Listed(req.v)
         /\ \A p \in Platforms : Kept(req.v, p, staged)

IInv ==
    /\ TypeOK
    /\ \A v \in Versions : Sound(dir[v])
    /\ pc \in DeletePCs => Sound(staged)
    /\ pc \in UploadPCs => UploadSound /\ UndoesAfterFailure /\ UploadRemembers
    /\ PromisesKept

(* The steps that leave every name, every promise and the handler alone:   *)
(* they keep the whole invariant.                                          *)
LEMMA QuietStep ==
    ASSUME IInv, TypeOK',
           \A w \in Versions : dir'[w].meta = dir[w].meta /\ dir'[w].zips = dir[w].zips,
           \A w \in Versions, q \in Platforms : dir[w].tmp[q] = None => dir'[w].tmp[q] = None,
           pc' = pc, UNCHANGED <<req, undo, staged, faults, index, acked>>
    PROVE  IInv'
<1> USE DEF IInv
<1>1. \A v \in Versions : Sound(dir[v])'
    BY DEF Sound
<1>2. (pc \in DeletePCs => Sound(staged))'
    BY DEF Sound
<1>3. pc \in UploadPCs => req.v \in Versions /\ req.p \in Platforms
    BY DEF TypeOK, PCs, UploadPCs
<1>4. (pc \in UploadPCs => UploadSound /\ UndoesAfterFailure /\ UploadRemembers)'
    BY <1>3 DEF UploadSound, UndoesAfterFailure, UploadRemembers
<1>5. PromisesKept'
    BY <1>3 DEF PromisesKept, Kept, Listed
<1> QED
    BY <1>1, <1>2, <1>4, <1>5

(* A step inside an upload touches one platform of one version; what it    *)
(* has to show is about that platform alone.                               *)
LEMMA UploadStep ==
    ASSUME IInv, TypeOK',
           pc \in UploadPCs, pc' \in UploadPCs,
           req' = req, acked' = acked, index \subseteq index', undo'.was = undo.was,
           \A w \in Versions \ {req.v} : dir'[w] = dir[w],
           \A q \in Platforms \ {req.p} : dir'[req.v].meta[q] = dir[req.v].meta[q],
           Sound(dir'[req.v]),
           (UploadSound /\ UndoesAfterFailure /\ UploadRemembers)'
    PROVE  IInv'
<1> USE DEF IInv
<1>1. req.v \in Versions /\ req.p \in Platforms
    BY DEF TypeOK, PCs, UploadPCs
<1>2. pc \notin DeletePCs /\ pc' \notin DeletePCs
    BY DEF UploadPCs, DeletePCs
<1>3. \A v \in Versions : Sound(dir[v])'
    BY <1>1 DEF Sound
<1>4. PromisesKept'
    BY <1>1, <1>2 DEF PromisesKept, Kept, Listed
<1> QED
    BY <1>2, <1>3, <1>4

(* The types a step of an upload relies on.                                *)
LEMMA UploadTypes ==
    ASSUME TypeOK, pc \in UploadPCs
    PROVE  /\ req.v \in Versions /\ req.p \in Platforms
           /\ req.c \in Contents /\ req.c # None
           /\ dir[req.v] \in Dirs
           /\ dir[req.v].meta \in MetaFiles /\ dir[req.v].tmp \in MetaFiles
BY NoneAssumption DEF TypeOK, PCs, UploadPCs, Dirs


(* Delete's clean-up of an empty directory loses no name.                  *)
LEMMA PruneKeeps ==
    ASSUME NEW d \in Dirs
    PROVE  Prune(d).meta = d.meta /\ Prune(d).zips = d.zips
<1>1. [d EXCEPT !.exists = FALSE].meta = d.meta /\ [d EXCEPT !.exists = FALSE].zips = d.zips
    BY DEF Dirs
<1> QED
    BY <1>1 DEF Prune

(* A step of the rebuild at the start changes checksum lists only.         *)
LEMMA RebuildStep ==
    ASSUME IInv, TypeOK', pc \in {"idle", "bootSig"}, pc' \in {"idle", "bootSig"},
           \A w \in Versions : dir'[w].meta = dir[w].meta /\ dir'[w].zips = dir[w].zips,
           UNCHANGED <<index, acked>>
    PROVE  IInv'
<1> pc \notin UploadPCs \cup DeletePCs /\ pc' \notin UploadPCs \cup DeletePCs
    BY DEF UploadPCs, DeletePCs
<1>1. \A v \in Versions : Sound(dir[v])'
    BY DEF Sound, IInv
<1>2. PromisesKept'
    BY DEF PromisesKept, Kept, Listed, IInv
<1> QED
    BY <1>1, <1>2 DEF IInv

(* With at most one failing step per request, every step keeps IInv.       *)
LEMMA IInvStep == ASSUME MaxFaults <= 1 PROVE IInv /\ [Next]_vars => IInv'
<1> SUFFICES ASSUME IInv, [Next]_vars PROVE IInv'
    OBVIOUS
<1> TypeOK /\ TypeOK'
    BY TypeOKStep DEF IInv
<1> USE FaultAssumption, NoneAssumption
<1>1. ASSUME Refuse PROVE IInv'
  <2>1. \A w \in Versions :
           /\ dir'[w].meta = dir[w].meta /\ dir'[w].zips = dir[w].zips
           /\ \A q \in Platforms : dir[w].tmp[q] = None => dir'[w].tmp[q] = None
      BY <1>1 DEF Refuse, Free, disk, history, TypeOK
  <2>2. pc' = pc /\ UNCHANGED <<req, undo, staged, faults, index, acked>>
      BY <1>1 DEF Refuse, Free, disk, history
  <2> QED
      BY <2>1, <2>2, QuietStep
<1>2. ASSUME NEW v \in Versions, StoreArtifactFails(v) PROVE IInv'
  <2>1. \A w \in Versions :
           /\ dir'[w].meta = dir[w].meta /\ dir'[w].zips = dir[w].zips
           /\ \A q \in Platforms : dir[w].tmp[q] = None => dir'[w].tmp[q] = None
      BY <1>2 DEF StoreArtifactFails, Dirs, history, TypeOK
  <2>2. pc' = pc /\ UNCHANGED <<req, undo, staged, faults, index, acked>>
      BY <1>2 DEF StoreArtifactFails, Dirs, history
  <2> QED
      BY <2>1, <2>2, QuietStep
<1>3. ASSUME NEW v \in Versions, NEW ok \in BOOLEAN, Deprecate(v, ok) PROVE IInv'
  <2>1. \A w \in Versions :
           /\ dir'[w].meta = dir[w].meta /\ dir'[w].zips = dir[w].zips
           /\ \A q \in Platforms : dir[w].tmp[q] = None => dir'[w].tmp[q] = None
      BY <1>3 DEF Deprecate, Dirs, history, TypeOK
  <2>2. pc' = pc /\ UNCHANGED <<req, undo, staged, faults, index, acked>>
      BY <1>3 DEF Deprecate, Dirs, history
  <2> QED
      BY <2>1, <2>2, QuietStep
<1>4. ASSUME NEW v \in Versions, NEW p \in Platforms, CollectGarbage(v, p) PROVE IInv'
  <2>1. \A w \in Versions :
           /\ dir'[w].meta = dir[w].meta /\ dir'[w].zips = dir[w].zips
           /\ \A q \in Platforms : dir[w].tmp[q] = None => dir'[w].tmp[q] = None
      BY <1>4 DEF CollectGarbage, Dirs, MetaFiles, process, history, TypeOK
  <2>2. pc' = pc /\ UNCHANGED <<req, undo, staged, faults, index, acked>>
      BY <1>4 DEF CollectGarbage, Dirs, MetaFiles, process, history
  <2> QED
      BY <2>1, <2>2, QuietStep
<1>5. ASSUME Start PROVE IInv'
  <2>1. \A w \in Versions :
           /\ dir'[w].meta = dir[w].meta /\ dir'[w].zips = dir[w].zips
           /\ \A q \in Platforms : dir[w].tmp[q] = None => dir'[w].tmp[q] = None
      BY <1>5 DEF Start, disk, history, TypeOK
  <2>2. pc' = pc /\ UNCHANGED <<req, undo, staged, faults, index, acked>>
      BY <1>5 DEF Start, disk, history
  <2> QED
      BY <2>1, <2>2, QuietStep
<1>6. ASSUME NEW v \in Versions, RebuildSumsFails(v) PROVE IInv'
  <2>1. \A w \in Versions :
           /\ dir'[w].meta = dir[w].meta /\ dir'[w].zips = dir[w].zips
           /\ \A q \in Platforms : dir[w].tmp[q] = None => dir'[w].tmp[q] = None
      BY <1>6 DEF RebuildSumsFails, disk, history, TypeOK
  <2>2. pc' = pc /\ UNCHANGED <<req, undo, staged, faults, index, acked>>
      BY <1>6 DEF RebuildSumsFails, disk, history
  <2> QED
      BY <2>1, <2>2, QuietStep
<1>7. ASSUME Listen PROVE IInv'
  <2>1. \A w \in Versions :
           /\ dir'[w].meta = dir[w].meta /\ dir'[w].zips = dir[w].zips
           /\ \A q \in Platforms : dir[w].tmp[q] = None => dir'[w].tmp[q] = None
      BY <1>7 DEF Listen, disk, history, TypeOK
  <2>2. pc' = pc /\ UNCHANGED <<req, undo, staged, faults, index, acked>>
      BY <1>7 DEF Listen, disk, history
  <2> QED
      BY <2>1, <2>2, QuietStep
<1>8. ASSUME UNCHANGED vars PROVE IInv'
  <2>1. \A w \in Versions :
           /\ dir'[w].meta = dir[w].meta /\ dir'[w].zips = dir[w].zips
           /\ \A q \in Platforms : dir[w].tmp[q] = None => dir'[w].tmp[q] = None
      BY <1>8 DEF vars, TypeOK
  <2>2. pc' = pc /\ UNCHANGED <<req, undo, staged, faults, index, acked>>
      BY <1>8 DEF vars
  <2> QED
      BY <2>1, <2>2, QuietStep
<1>9. ASSUME PutMeta PROVE IInv'
  <2> pc = "putMeta" /\ pc \in UploadPCs
      BY <1>9 DEF PutMeta, UploadPCs
  <2>1. /\ pc' \in {"putSums"}
        /\ UNCHANGED <<req, acked, trash>> /\ index \subseteq index' /\ undo'.was = undo.was
        /\ \A w \in Versions \ {req.v} : dir'[w] = dir[w]
      BY <1>9, UploadTypes DEF PutMeta, Goto, history, disk, TypeOK, Undos, Remember
  <2>2. /\ dir'[req.v].meta = [dir[req.v].meta EXCEPT ![req.p] = req.c]
        /\ dir'[req.v].meta[req.p] = req.c
        /\ dir'[req.v].tmp[req.p] = None
        /\ dir'[req.v].zips = dir[req.v].zips
        /\ undo'.existed = undo.existed
        /\ undo'.meta \in {dir[req.v].meta[req.p], None}
        /\ faults' = 0 => undo'.meta = dir[req.v].meta[req.p]
      BY <1>9, UploadTypes DEF PutMeta, history, disk, TypeOK, Dirs, MetaFiles, Undos, Count, MayFail, Remember, PutMetaFile
  <2>3. UploadSound /\ UndoesAfterFailure /\ UploadRemembers /\ Sound(dir[req.v])
      BY UploadTypes DEF IInv
  <2>4. Sound(dir'[req.v])
      BY <2>1, <2>2, <2>3, UploadTypes DEF Sound, UploadSound, Switched, Unswitched
  <2>5. UploadSound'
      BY <2>1, <2>2, <2>3, UploadTypes DEF UploadSound, Sound, UploadRemembers, Switched, Unswitched
  <2>6. UndoesAfterFailure'
      BY <2>1, <2>2, <2>3, UploadTypes DEF UndoesAfterFailure, Undoing
  <2>7. UploadRemembers'
      BY <2>1, <2>2, <2>3, UploadTypes DEF UploadRemembers, UndoesAfterFailure, Switched, Unswitched, Undoing
  <2> QED
      BY <2>1, <2>2, <2>4, <2>5, <2>6, <2>7, UploadStep DEF UploadPCs
<1>10. ASSUME PutMetaFails PROVE IInv'
  <2> pc = "putMeta" /\ pc \in UploadPCs
      BY <1>10 DEF PutMetaFails, UploadPCs
  <2>1. /\ pc' \in {"dropZip"}
        /\ UNCHANGED <<req, acked, trash>> /\ index \subseteq index' /\ undo'.was = undo.was
        /\ \A w \in Versions \ {req.v} : dir'[w] = dir[w]
      BY <1>10, UploadTypes DEF PutMetaFails, Goto, history, disk, TypeOK, Undos, Remember
  <2>2. /\ dir'[req.v].meta = dir[req.v].meta /\ dir'[req.v].zips = dir[req.v].zips
        /\ undo' = undo /\ faults' # 0
      BY <1>10, UploadTypes DEF PutMetaFails, history, disk, TypeOK, Dirs, MetaFiles, Undos, Count, MayFail, Remember, FailedPut
  <2>3. UploadSound /\ UndoesAfterFailure /\ UploadRemembers /\ Sound(dir[req.v])
      BY UploadTypes DEF IInv
  <2>4. Sound(dir'[req.v])
      BY <2>1, <2>2, <2>3, UploadTypes DEF Sound, UploadSound, Switched, Unswitched
  <2>5. UploadSound'
      BY <2>1, <2>2, <2>3, UploadTypes DEF UploadSound, Sound, UploadRemembers, Switched, Unswitched
  <2>6. UndoesAfterFailure'
      BY <2>1, <2>2, <2>3, UploadTypes DEF UndoesAfterFailure, Undoing
  <2>7. UploadRemembers'
      BY <2>1, <2>2, <2>3, UploadTypes DEF UploadRemembers, UndoesAfterFailure, Switched, Unswitched, Undoing
  <2> QED
      BY <2>1, <2>2, <2>4, <2>5, <2>6, <2>7, UploadStep DEF UploadPCs
<1>11. ASSUME PutSumsFails PROVE IInv'
  <2> pc = "putSums" /\ pc \in UploadPCs
      BY <1>11 DEF PutSumsFails, UploadPCs
  <2>1. /\ pc' \in {"restoreMeta"}
        /\ UNCHANGED <<req, acked, trash>> /\ index \subseteq index' /\ undo'.was = undo.was
        /\ \A w \in Versions \ {req.v} : dir'[w] = dir[w]
      BY <1>11, UploadTypes DEF PutSumsFails, Goto, history, disk, TypeOK, Undos, Remember
  <2>2. /\ dir'[req.v].meta = dir[req.v].meta /\ dir'[req.v].zips = dir[req.v].zips
        /\ undo'.meta = undo.meta /\ undo'.existed = undo.existed /\ faults = 0 /\ faults' # 0
    <3>1. undo'.meta = undo.meta /\ undo'.existed = undo.existed
        <4>1. PICK lostPrev : undo' = Remember(undo, dir[req.v], lostPrev)
            BY <1>11 DEF PutSumsFails
        <4> QED
            BY <4>1 DEF Remember, TypeOK, Undos
    <3>2. dir' = dir /\ faults = 0 /\ faults' # 0
        BY <1>11 DEF PutSumsFails, disk, MayFail, Count, TypeOK
    <3> QED
        BY <3>1, <3>2
  <2>3. UploadSound /\ UndoesAfterFailure /\ UploadRemembers /\ Sound(dir[req.v])
      BY UploadTypes DEF IInv
  <2>4. Sound(dir'[req.v])
      BY <2>1, <2>2, <2>3, UploadTypes DEF Sound, UploadSound, Switched, Unswitched
  <2>5. UploadSound'
      BY <2>1, <2>2, <2>3, UploadTypes DEF UploadSound, Sound, UploadRemembers, Switched, Unswitched
  <2>6. UndoesAfterFailure'
      BY <2>1, <2>2, <2>3, UploadTypes DEF UndoesAfterFailure, Undoing
  <2>7. UploadRemembers'
      BY <2>1, <2>2, <2>3, UploadTypes DEF UploadRemembers, UndoesAfterFailure, Switched, Unswitched, Undoing
  <2> QED
      BY <2>1, <2>2, <2>4, <2>5, <2>6, <2>7, UploadStep DEF UploadPCs
<1>12. ASSUME PutSig PROVE IInv'
  <2> pc = "putSig" /\ pc \in UploadPCs
      BY <1>12 DEF PutSig, UploadPCs
  <2>1. /\ pc' \in {"addIndex"}
        /\ UNCHANGED <<req, acked, trash>> /\ index \subseteq index' /\ undo'.was = undo.was
        /\ \A w \in Versions \ {req.v} : dir'[w] = dir[w]
      BY <1>12, UploadTypes DEF PutSig, Goto, history, disk, TypeOK, Undos, Remember
  <2>2. /\ dir'[req.v].meta = dir[req.v].meta /\ dir'[req.v].zips = dir[req.v].zips
        /\ undo' = undo /\ faults' = faults
      BY <1>12, UploadTypes DEF PutSig, history, disk, TypeOK, Dirs, MetaFiles, Undos, Count, MayFail, Remember
  <2>3. UploadSound /\ UndoesAfterFailure /\ UploadRemembers /\ Sound(dir[req.v])
      BY UploadTypes DEF IInv
  <2>4. Sound(dir'[req.v])
      BY <2>1, <2>2, <2>3, UploadTypes DEF Sound, UploadSound, Switched, Unswitched
  <2>5. UploadSound'
      BY <2>1, <2>2, <2>3, UploadTypes DEF UploadSound, Sound, UploadRemembers, Switched, Unswitched
  <2>6. UndoesAfterFailure'
      BY <2>1, <2>2, <2>3, UploadTypes DEF UndoesAfterFailure, Undoing
  <2>7. UploadRemembers'
      BY <2>1, <2>2, <2>3, UploadTypes DEF UploadRemembers, UndoesAfterFailure, Switched, Unswitched, Undoing
  <2> QED
      BY <2>1, <2>2, <2>4, <2>5, <2>6, <2>7, UploadStep DEF UploadPCs
<1>13. ASSUME PutSigFails PROVE IInv'
  <2> pc = "putSig" /\ pc \in UploadPCs
      BY <1>13 DEF PutSigFails, UploadPCs
  <2>1. /\ pc' \in {"restoreMeta"}
        /\ UNCHANGED <<req, acked, trash>> /\ index \subseteq index' /\ undo'.was = undo.was
        /\ \A w \in Versions \ {req.v} : dir'[w] = dir[w]
      BY <1>13, UploadTypes DEF PutSigFails, Goto, history, disk, TypeOK, Undos, Remember
  <2>2. /\ dir'[req.v].meta = dir[req.v].meta /\ dir'[req.v].zips = dir[req.v].zips
        /\ undo' = undo /\ faults = 0 /\ faults' # 0
      BY <1>13, UploadTypes DEF PutSigFails, history, disk, TypeOK, Dirs, MetaFiles, Undos, Count, MayFail, Remember
  <2>3. UploadSound /\ UndoesAfterFailure /\ UploadRemembers /\ Sound(dir[req.v])
      BY UploadTypes DEF IInv
  <2>4. Sound(dir'[req.v])
      BY <2>1, <2>2, <2>3, UploadTypes DEF Sound, UploadSound, Switched, Unswitched
  <2>5. UploadSound'
      BY <2>1, <2>2, <2>3, UploadTypes DEF UploadSound, Sound, UploadRemembers, Switched, Unswitched
  <2>6. UndoesAfterFailure'
      BY <2>1, <2>2, <2>3, UploadTypes DEF UndoesAfterFailure, Undoing
  <2>7. UploadRemembers'
      BY <2>1, <2>2, <2>3, UploadTypes DEF UploadRemembers, UndoesAfterFailure, Switched, Unswitched, Undoing
  <2> QED
      BY <2>1, <2>2, <2>4, <2>5, <2>6, <2>7, UploadStep DEF UploadPCs
<1>14. ASSUME AddIndex PROVE IInv'
  <2> pc = "addIndex" /\ pc \in UploadPCs
      BY <1>14 DEF AddIndex, UploadPCs
  <2>1. /\ pc' \in {"dropOld"}
        /\ UNCHANGED <<req, acked, trash>> /\ index \subseteq index' /\ undo'.was = undo.was
        /\ \A w \in Versions \ {req.v} : dir'[w] = dir[w]
      BY <1>14, UploadTypes DEF AddIndex, Goto, history, disk, TypeOK, Undos, Remember
  <2>2. /\ dir'[req.v].meta = dir[req.v].meta /\ dir'[req.v].zips = dir[req.v].zips
        /\ undo' = undo /\ faults' = faults /\ req.v \in index'
      BY <1>14, UploadTypes DEF AddIndex, history, disk, TypeOK, Dirs, MetaFiles, Undos, Count, MayFail, Remember
  <2>3. UploadSound /\ UndoesAfterFailure /\ UploadRemembers /\ Sound(dir[req.v])
      BY UploadTypes DEF IInv
  <2>4. Sound(dir'[req.v])
      BY <2>1, <2>2, <2>3, UploadTypes DEF Sound, UploadSound, Switched, Unswitched
  <2>5. UploadSound'
      BY <2>1, <2>2, <2>3, UploadTypes DEF UploadSound, Sound, UploadRemembers, Switched, Unswitched
  <2>6. UndoesAfterFailure'
      BY <2>1, <2>2, <2>3, UploadTypes DEF UndoesAfterFailure, Undoing
  <2>7. UploadRemembers'
      BY <2>1, <2>2, <2>3, UploadTypes DEF UploadRemembers, UndoesAfterFailure, Switched, Unswitched, Undoing
  <2> QED
      BY <2>1, <2>2, <2>4, <2>5, <2>6, <2>7, UploadStep DEF UploadPCs
<1>15. ASSUME AddIndexFails PROVE IInv'
  <2> pc = "addIndex" /\ pc \in UploadPCs
      BY <1>15 DEF AddIndexFails, UploadPCs
  <2>1. /\ pc' \in {"restoreMeta"}
        /\ UNCHANGED <<req, acked, trash>> /\ index \subseteq index' /\ undo'.was = undo.was
        /\ \A w \in Versions \ {req.v} : dir'[w] = dir[w]
      BY <1>15, UploadTypes DEF AddIndexFails, Goto, history, disk, TypeOK, Undos, Remember
  <2>2. /\ dir'[req.v].meta = dir[req.v].meta /\ dir'[req.v].zips = dir[req.v].zips
        /\ undo' = undo /\ faults = 0 /\ faults' # 0
      BY <1>15, UploadTypes DEF AddIndexFails, history, disk, TypeOK, Dirs, MetaFiles, Undos, Count, MayFail, Remember
  <2>3. UploadSound /\ UndoesAfterFailure /\ UploadRemembers /\ Sound(dir[req.v])
      BY UploadTypes DEF IInv
  <2>4. Sound(dir'[req.v])
      BY <2>1, <2>2, <2>3, UploadTypes DEF Sound, UploadSound, Switched, Unswitched
  <2>5. UploadSound'
      BY <2>1, <2>2, <2>3, UploadTypes DEF UploadSound, Sound, UploadRemembers, Switched, Unswitched
  <2>6. UndoesAfterFailure'
      BY <2>1, <2>2, <2>3, UploadTypes DEF UndoesAfterFailure, Undoing
  <2>7. UploadRemembers'
      BY <2>1, <2>2, <2>3, UploadTypes DEF UploadRemembers, UndoesAfterFailure, Switched, Unswitched, Undoing
  <2> QED
      BY <2>1, <2>2, <2>4, <2>5, <2>6, <2>7, UploadStep DEF UploadPCs
<1>16. ASSUME RestoreMeta PROVE IInv'
  <2> pc = "restoreMeta" /\ pc \in UploadPCs
      BY <1>16 DEF RestoreMeta, UploadPCs
  <2>1. /\ pc' \in {"restoreSums"}
        /\ UNCHANGED <<req, acked, trash>> /\ index \subseteq index' /\ undo'.was = undo.was
        /\ \A w \in Versions \ {req.v} : dir'[w] = dir[w]
      BY <1>16, UploadTypes DEF RestoreMeta, Goto, history, disk, TypeOK, Undos, Remember
  <2>2. /\ dir'[req.v].meta = [dir[req.v].meta EXCEPT ![req.p] = undo.meta]
        /\ dir'[req.v].meta[req.p] = undo.meta
        /\ dir'[req.v].zips = dir[req.v].zips
        /\ undo' = undo /\ faults' = faults
      BY <1>16, UploadTypes DEF RestoreMeta, history, disk, TypeOK, Dirs, MetaFiles, Undos, Count, MayFail, Remember, RestoredMeta, PutMetaFile
  <2>3. UploadSound /\ UndoesAfterFailure /\ UploadRemembers /\ Sound(dir[req.v])
      BY UploadTypes DEF IInv
  <2>4. Sound(dir'[req.v])
      BY <2>1, <2>2, <2>3, UploadTypes DEF Sound, UploadSound, Switched, Unswitched
  <2>5. UploadSound'
      BY <2>1, <2>2, <2>3, UploadTypes DEF UploadSound, Sound, UploadRemembers, Switched, Unswitched
  <2>6. UndoesAfterFailure'
      BY <2>1, <2>2, <2>3, UploadTypes DEF UndoesAfterFailure, Undoing
  <2>7. UploadRemembers'
      BY <2>1, <2>2, <2>3, UploadTypes DEF UploadRemembers, UndoesAfterFailure, Switched, Unswitched, Undoing
  <2> QED
      BY <2>1, <2>2, <2>4, <2>5, <2>6, <2>7, UploadStep DEF UploadPCs
<1>17. ASSUME NEW ok \in BOOLEAN, RestoreSums(ok) PROVE IInv'
  <2> pc = "restoreSums" /\ pc \in UploadPCs
      BY <1>17 DEF RestoreSums, RestoredSums, UploadPCs
  <2>1. /\ pc' \in {"restoreSig"}
        /\ UNCHANGED <<req, acked, trash>> /\ index \subseteq index' /\ undo'.was = undo.was
        /\ \A w \in Versions \ {req.v} : dir'[w] = dir[w]
      BY <1>17, UploadTypes DEF RestoreSums, RestoredSums, Goto, history, disk, TypeOK, Undos, Remember
  <2>2. /\ dir'[req.v].meta = dir[req.v].meta /\ dir'[req.v].zips = dir[req.v].zips
        /\ undo' = undo /\ faults' # 0
      BY <1>17, UploadTypes DEF RestoreSums, RestoredSums, history, disk, TypeOK, Dirs, MetaFiles, Undos, Count, MayFail, Remember, IInv, UndoesAfterFailure, Undoing, UploadPCs
  <2>3. UploadSound /\ UndoesAfterFailure /\ UploadRemembers /\ Sound(dir[req.v])
      BY UploadTypes DEF IInv
  <2>4. Sound(dir'[req.v])
      BY <2>1, <2>2, <2>3, UploadTypes DEF Sound, UploadSound, Switched, Unswitched
  <2>5. UploadSound'
      BY <2>1, <2>2, <2>3, UploadTypes DEF UploadSound, Sound, UploadRemembers, Switched, Unswitched
  <2>6. UndoesAfterFailure'
      BY <2>1, <2>2, <2>3, UploadTypes DEF UndoesAfterFailure, Undoing
  <2>7. UploadRemembers'
      BY <2>1, <2>2, <2>3, UploadTypes DEF UploadRemembers, UndoesAfterFailure, Switched, Unswitched, Undoing
  <2> QED
      BY <2>1, <2>2, <2>4, <2>5, <2>6, <2>7, UploadStep DEF UploadPCs
<1>18. ASSUME NEW ok \in BOOLEAN, RestoreSig(ok) PROVE IInv'
  <2> pc = "restoreSig" /\ pc \in UploadPCs
      BY <1>18 DEF RestoreSig, UploadPCs
  <2>1. /\ pc' \in {"dropZip"}
        /\ UNCHANGED <<req, acked, trash>> /\ index \subseteq index' /\ undo'.was = undo.was
        /\ \A w \in Versions \ {req.v} : dir'[w] = dir[w]
      BY <1>18, UploadTypes DEF RestoreSig, Goto, history, disk, TypeOK, Undos, Remember
  <2>2. /\ dir'[req.v].meta = dir[req.v].meta /\ dir'[req.v].zips = dir[req.v].zips
        /\ undo' = undo /\ faults' # 0
      BY <1>18, UploadTypes DEF RestoreSig, history, disk, TypeOK, Dirs, MetaFiles, Undos, Count, MayFail, Remember, IInv, UndoesAfterFailure, Undoing, UploadPCs
  <2>3. UploadSound /\ UndoesAfterFailure /\ UploadRemembers /\ Sound(dir[req.v])
      BY UploadTypes DEF IInv
  <2>4. Sound(dir'[req.v])
      BY <2>1, <2>2, <2>3, UploadTypes DEF Sound, UploadSound, Switched, Unswitched
  <2>5. UploadSound'
      BY <2>1, <2>2, <2>3, UploadTypes DEF UploadSound, Sound, UploadRemembers, Switched, Unswitched
  <2>6. UndoesAfterFailure'
      BY <2>1, <2>2, <2>3, UploadTypes DEF UndoesAfterFailure, Undoing
  <2>7. UploadRemembers'
      BY <2>1, <2>2, <2>3, UploadTypes DEF UploadRemembers, UndoesAfterFailure, Switched, Unswitched, Undoing
  <2> QED
      BY <2>1, <2>2, <2>4, <2>5, <2>6, <2>7, UploadStep DEF UploadPCs
<1>19. ASSUME PutSums PROVE IInv'
  <2> pc = "putSums" /\ pc \in UploadPCs
      BY <1>19 DEF PutSums, UploadPCs
  <2>1. UploadSound /\ UndoesAfterFailure /\ UploadRemembers /\ Sound(dir[req.v])
      BY UploadTypes DEF IInv
  <2>2. PICK lost, lostPrev :
           LET ok == lost = {} /\ lostPrev = {} IN
           /\ (ok \/ MayFail) /\ Count(ok)
           /\ undo' = [Remember(undo, dir[req.v], lostPrev) EXCEPT !.clean = Clean(dir[req.v], lost)]
           /\ \/ pc' = "putSig" /\ dir' = [dir EXCEPT ![req.v].sums = Entries(dir[req.v], lost)]
              \/ pc' = "restoreMeta" /\ dir' = dir /\ Entries(dir[req.v], lost) = {}
      BY <1>19 DEF PutSums, Goto
  <2>3. <<req.p, req.c>> \in Entries(dir[req.v], {})
      BY <2>1, UploadTypes DEF Entries, MetadataFound, UploadSound, UndoesAfterFailure, Switched
  <2>4. /\ pc' \in {"putSig", "restoreMeta"}
        /\ pc' = "restoreMeta" => faults = 0 /\ faults' # 0
        /\ faults' = 0 => faults = 0
    <3>1. CASE lost = {} /\ lostPrev = {}
        BY <2>2, <2>3, <3>1 DEF Count
    <3>2. CASE ~(lost = {} /\ lostPrev = {})
        <4>1. faults < MaxFaults /\ faults' = faults + 1
            BY <2>2, <3>2 DEF Count, MayFail
        <4>2. faults = 0 /\ faults' = 1
            BY <4>1 DEF TypeOK
        <4> QED
            BY <2>2, <4>2
    <3> QED
        BY <3>1, <3>2
  <2>5. /\ dir'[req.v].meta = dir[req.v].meta /\ dir'[req.v].zips = dir[req.v].zips
        /\ \A w \in Versions \ {req.v} : dir'[w] = dir[w]
      BY <2>2, UploadTypes DEF TypeOK, Dirs
  <2>6. undo'.meta = undo.meta /\ undo'.existed = undo.existed /\ undo'.was = undo.was
      BY <2>2 DEF Remember, TypeOK, Undos
  <2>7. UNCHANGED <<req, acked, index>>
      BY <1>19 DEF PutSums, Goto, history
  <2>8. Sound(dir'[req.v])
      BY <2>1, <2>5 DEF Sound
  <2>9. (UploadSound /\ UndoesAfterFailure /\ UploadRemembers)'
      BY <2>1, <2>4, <2>5, <2>6, <2>7
      DEF UploadSound, UndoesAfterFailure, UploadRemembers, Switched, Unswitched, Undoing
  <2> QED
      BY <2>4, <2>5, <2>6, <2>7, <2>8, <2>9, UploadStep DEF UploadPCs
<1>20. ASSUME RestoreMetaFails PROVE IInv'
  <2>1. pc = "restoreMeta" /\ pc \in UploadPCs /\ MayFail
      BY <1>20 DEF RestoreMetaFails, UploadPCs
  <2> QED
      BY <2>1 DEF IInv, UndoesAfterFailure, Undoing, MayFail, TypeOK
<1>21. ASSUME NEW v \in Versions, NEW p \in Platforms, NEW c \in Contents, StoreArtifact(v, p, c)
      PROVE  IInv'
  <2>1. /\ pc = "idle" /\ pc' = "putMeta" /\ req' = [v |-> v, p |-> p, c |-> c]
        /\ UNCHANGED <<acked, index>>
      BY <1>21 DEF StoreArtifact, Free, Take, history
  <2>2. /\ \A w \in Versions \ {v} : dir'[w] = dir[w]
        /\ dir'[v].meta = dir[v].meta /\ dir'[v].zips = dir[v].zips \cup {<<p, c>>}
      BY <1>21 DEF StoreArtifact, WithZip, TypeOK, Dirs
  <2>3. undo'.existed = (<<p, c>> \in dir[v].zips) /\ undo'.was = dir[v].meta[p]
      BY <1>21 DEF StoreArtifact, NoUndo
  <2>4. \A w \in Versions : Sound(dir[w])
      BY DEF IInv
  <2>5. \A w \in Versions : Sound(dir[w])'
      BY <2>2, <2>4 DEF Sound
  <2>6. (UploadSound /\ UndoesAfterFailure /\ UploadRemembers)'
      BY <2>1, <2>2, <2>3, <2>4
      DEF UploadSound, UndoesAfterFailure, UploadRemembers, Sound, Switched, Unswitched, Undoing
  <2>7. PromisesKept'
      BY <2>1, <2>2, <2>3 DEF IInv, PromisesKept, Kept, Listed, UploadPCs, DeletePCs
  <2> QED
      BY <2>1, <2>5, <2>6, <2>7 DEF IInv, DeletePCs
<1>22. ASSUME NEW ok \in BOOLEAN, DropOld(ok) PROVE IInv'
  <2> pc = "dropOld" /\ pc \in UploadPCs
      BY <1>22 DEF DropOld, UploadPCs
  <2>1. UploadSound /\ Sound(dir[req.v])
      BY UploadTypes DEF IInv
  <2>2. /\ pc' = "idle" /\ UNCHANGED index
        /\ acked' = [acked EXCEPT ![req.v][req.p] = req.c]
      BY <1>22 DEF DropOld, Answer
  <2>3. /\ \A w \in Versions \ {req.v} : dir'[w] = dir[w]
        /\ dir'[req.v].meta = dir[req.v].meta
        /\ \A a \in dir[req.v].zips : a # <<req.p, undo.meta>> \/ undo.meta = req.c => a \in dir'[req.v].zips
      BY <1>22, UploadTypes DEF DropOld, WithoutZips, Replaced, TypeOK, Dirs
  <2>4. \A w \in Versions : Sound(dir[w])'
    <3>1. Sound(dir'[req.v])
        BY <2>1, <2>3, UploadTypes DEF Sound, UploadSound, Switched
    <3> QED
        BY <2>3, <3>1 DEF IInv, Sound
  <2>5. PromisesKept'
    <3>1. \A w \in Versions \ {req.v} : Listed(w)' /\ \A q \in Platforms : Kept(w, q, dir[w])'
        BY <2>2, <2>3 DEF IInv, PromisesKept, Kept, Listed, TypeOK
    <3>2. ASSUME NEW w \in Versions, w = req.v PROVE Listed(w)' /\ \A q \in Platforms : Kept(w, q, dir[w])'
        <4>1. w \in index'
            BY <2>1, <2>2, <3>2 DEF UploadSound
        <4>2. acked'[w][req.p] = req.c /\ \A q \in Platforms \ {req.p} : acked'[w][q] = acked[w][q]
            BY <2>2, <3>2, UploadTypes DEF TypeOK, MetaFiles
        <4>3. dir'[w].meta[req.p] = req.c
            BY <2>1, <2>3, <3>2 DEF UploadSound, Switched
        <4> QED
            BY <2>3, <3>2, <4>1, <4>2, <4>3 DEF IInv, PromisesKept, Kept, Listed
    <3>4. \A w \in Versions : Listed(w)' /\ \A q \in Platforms : Kept(w, q, dir[w])'
        BY <3>1, <3>2
    <3> QED
        BY <2>2, <3>4 DEF PromisesKept, UploadPCs, DeletePCs
  <2> QED
      BY <2>2, <2>4, <2>5 DEF IInv, UploadPCs, DeletePCs
<1>23. ASSUME NEW ok \in BOOLEAN, DropZip(ok) PROVE IInv'
  <2> pc = "dropZip" /\ pc \in UploadPCs
      BY <1>23 DEF DropZip, UploadPCs
  <2>1. UploadSound /\ UploadRemembers /\ Sound(dir[req.v])
      BY UploadTypes DEF IInv
  <2>2. pc' = "idle" /\ UNCHANGED <<index, acked>>
      BY <1>23 DEF DropZip, Answer
  <2>3. /\ \A w \in Versions \ {req.v} : dir'[w] = dir[w]
        /\ dir'[req.v].meta = dir[req.v].meta
        /\ \A a \in dir[req.v].zips : a # <<req.p, req.c>> \/ undo.existed => a \in dir'[req.v].zips
    <3> DEFINE e == WithoutZips(dir[req.v], Withdrawn)
    <3>1. e \in Dirs /\ e.meta = dir[req.v].meta /\ e.zips = dir[req.v].zips \ Withdrawn
        BY UploadTypes, WithoutZipsType DEF WithoutZips, Dirs
    <3>2. Prune(e).meta = e.meta /\ Prune(e).zips = e.zips
        BY <3>1, PruneKeeps
    <3>3. dir' = dir \/ dir' = [dir EXCEPT ![req.v] = Prune(e)]
        BY <1>23 DEF DropZip
    <3> QED
        BY <3>1, <3>2, <3>3, UploadTypes DEF Withdrawn, TypeOK
  <2>4. \A w \in Versions : Sound(dir[w])'
    <3>1. Sound(dir'[req.v])
        BY <2>1, <2>3, UploadTypes DEF Sound, UploadSound, Unswitched
    <3> QED
        BY <2>3, <3>1 DEF IInv, Sound
  <2>5. PromisesKept'
    <3>1. \A w \in Versions \ {req.v} : Listed(w)' /\ \A q \in Platforms : Kept(w, q, dir[w])'
        BY <2>2, <2>3 DEF IInv, PromisesKept, Kept, Listed
    <3>2. ASSUME NEW w \in Versions, w = req.v PROVE Listed(w)' /\ \A q \in Platforms : Kept(w, q, dir[w])'
        BY <2>1, <2>2, <2>3, <3>2, UploadTypes DEF IInv, PromisesKept, Kept, Listed, UploadRemembers, Unswitched
    <3>3. \A w \in Versions : Listed(w)' /\ \A q \in Platforms : Kept(w, q, dir[w])'
        BY <3>1, <3>2
    <3> QED
        BY <2>2, <3>3 DEF PromisesKept, UploadPCs, DeletePCs
  <2> QED
      BY <2>2, <2>4, <2>5 DEF IInv, UploadPCs, DeletePCs
<1>24. ASSUME NEW v \in Versions, StageDelete(v) PROVE IInv'
  <2>1. /\ pc = "idle" /\ pc' = "unindex" /\ req'.v = v
        /\ staged' = dir[v] /\ dir' = [dir EXCEPT ![v] = NoDir]
        /\ UNCHANGED <<acked, index>>
      BY <1>24 DEF StageDelete, Free, Take, NoReq, history
  <2>2. Sound(NoDir)
      BY DEF Sound, NoDir, NoFiles
  <2>3. (\A w \in Versions : Sound(dir[w])') /\ Sound(staged)'
      BY <2>1, <2>2 DEF IInv, Sound, TypeOK
  <2>4. PromisesKept'
      BY <2>1 DEF IInv, PromisesKept, Kept, Listed, UploadPCs, DeletePCs, TypeOK
  <2> QED
      BY <2>1, <2>3, <2>4 DEF IInv, UploadPCs
<1>25. ASSUME RemoveIndex \/ RemoveIndexFails PROVE IInv'
  <2>1. /\ pc = "unindex" /\ pc' \in {"commit", "rollback"}
        /\ UNCHANGED <<dir, staged, acked, req>>
        /\ pc' = "rollback" => index' = index
        /\ index' = index \/ index' = index \ {req.v}
      BY <1>25 DEF RemoveIndex, RemoveIndexFails, Goto, disk, history
  <2>2. (\A w \in Versions : Sound(dir[w])') /\ Sound(staged)'
      BY <2>1 DEF IInv, Sound, DeletePCs
  <2>3. PromisesKept'
      BY <2>1 DEF IInv, PromisesKept, Kept, Listed, UploadPCs, DeletePCs
  <2> QED
      BY <2>1, <2>2, <2>3 DEF IInv, UploadPCs
<1>26. ASSUME NEW ok \in BOOLEAN, Rollback(ok) \/ Commit(ok) PROVE IInv'
  <2>1. /\ pc \in DeletePCs /\ pc' = "idle" /\ req.v \in Versions /\ UNCHANGED index
      BY <1>26 DEF Rollback, Commit, Answer, DeletePCs, TypeOK
  <2>2. \/ /\ dir' = [dir EXCEPT ![req.v] = staged]
           /\ acked' = acked /\ pc = "rollback"
        \/ /\ dir' = dir
           /\ acked' = [acked EXCEPT ![req.v] = NoFiles]
      BY <1>26 DEF Rollback, Commit, Forget
  <2>3. \A w \in Versions : Sound(dir[w])'
      BY <2>1, <2>2 DEF IInv, Sound, TypeOK
  <2>4. PromisesKept'
      BY <2>1, <2>2 DEF IInv, PromisesKept, Kept, Listed, UploadPCs, DeletePCs, TypeOK, NoFiles
  <2> QED
      BY <2>1, <2>3, <2>4 DEF IInv, UploadPCs, DeletePCs
<1>27. ASSUME Crash PROVE IInv'
  <2>1. pc' = "idle" /\ UNCHANGED index
      BY <1>27 DEF Crash, Answer
  <2>2. \A w \in Versions : dir'[w].meta = dir[w].meta /\ dir'[w].zips = dir[w].zips
      BY <1>27 DEF Crash, TypeOK, Dirs
  <2>3. \A w \in Versions, q \in Platforms :
           \/ acked'[w][q] = None
           \/ /\ acked'[w][q] = acked[w][q]
              /\ pc \in DeletePCs => w # req.v
              /\ pc \in UploadPCs => w # req.v \/ q # req.p
    <3>1. CASE pc \in UploadPCs
        BY <1>27, <3>1 DEF Crash, TypeOK, MetaFiles, UploadPCs, DeletePCs
    <3>2. CASE pc \in DeletePCs
        BY <1>27, <3>2 DEF Crash, TypeOK, NoFiles, UploadPCs, DeletePCs
    <3>3. CASE pc \notin UploadPCs \cup DeletePCs
        BY <1>27, <3>3 DEF Crash
    <3> QED
        BY <3>1, <3>2, <3>3
  <2>4. \A w \in Versions : Sound(dir[w])'
      BY <2>2 DEF IInv, Sound
  <2>5. \A w \in Versions : Listed(w)' /\ \A q \in Platforms : Kept(w, q, dir[w])'
      BY <2>1, <2>2, <2>3 DEF IInv, PromisesKept, Kept, Listed
  <2> QED
      BY <2>1, <2>4, <2>5 DEF IInv, PromisesKept, UploadPCs, DeletePCs
<1>28. ASSUME NEW v \in Versions, RebuildSums(v) PROVE IInv'
  <2>1. PICK e : dir' = [dir EXCEPT ![v].sums = e]
      BY <1>28 DEF RebuildSums
  <2>2. \A w \in Versions : dir'[w].meta = dir[w].meta /\ dir'[w].zips = dir[w].zips
      BY <2>1 DEF TypeOK, Dirs
  <2> QED
      BY <1>28, <2>2, RebuildStep DEF RebuildSums, Take
<1>29. ASSUME NEW ok \in BOOLEAN, RebuildSig(ok) PROVE IInv'
  <2>1. \A w \in Versions : dir'[w].meta = dir[w].meta /\ dir'[w].zips = dir[w].zips
      BY <1>29 DEF RebuildSig, TypeOK, Dirs
  <2> QED
      BY <1>29, <2>1, RebuildStep DEF RebuildSig, Answer
<1> QED
    BY <1>1, <1>2, <1>3, <1>4, <1>5, <1>6, <1>7, <1>8, <1>9, <1>10, <1>11, <1>12, <1>13, <1>14, <1>15, <1>16, <1>17, <1>18, <1>19, <1>20, <1>21, <1>22, <1>23, <1>24, <1>25, <1>26, <1>27, <1>28, <1>29
    DEF Next, Upload, Restore, Delete, Startup

(* The invariant holds of every behaviour.                                 *)
LEMMA IInvHolds == ASSUME MaxFaults <= 1 PROVE Spec => []IInv
<1>1. Init => IInv
  <2> SUFFICES ASSUME Init PROVE IInv
      OBVIOUS
  <2>1. TypeOK
      BY NoDirType, NoFilesType, FaultAssumption
      DEF Init, TypeOK, PCs, UploadPCs, DeletePCs, StartupPCs, NoReq, NoUndo, Undos
  <2>2. \A v \in Versions : Sound(dir[v])
      BY DEF Init, Sound, NoDir, NoFiles
  <2>3. PromisesKept
      BY DEF Init, PromisesKept, Kept, Listed, NoFiles, UploadPCs, DeletePCs
  <2> QED
      BY <2>1, <2>2, <2>3 DEF Init, IInv, UploadPCs, DeletePCs
<1> QED
    BY <1>1, IInvStep, PTL DEF Spec

(* Whatever is killed and whichever single storage call of a request       *)
(* fails, no platform metadata ever names an artifact that is not stored.  *)
THEOREM MetadataAlwaysNamesArtifact ==
    ASSUME MaxFaults <= 1 PROVE Spec => []MetadataNamesArtifact
<1>1. IInv => MetadataNamesArtifact
    BY DEF IInv, Sound, MetadataNamesArtifact
<1> QED
    BY <1>1, IInvHolds, PTL

(* Under the same assumption, what a client was told is published stays    *)
(* published and listed until a later request for the same target succeeds *)
(* or is cut off.                                                          *)
THEOREM AckedAlwaysStaysPublished ==
    ASSUME MaxFaults <= 1 PROVE Spec => []AckedStaysPublished
<1>1. IInv => AckedStaysPublished
  <2> SUFFICES ASSUME IInv, NEW v \in Versions \ Target, NEW p \in Platforms, acked[v][p] # None
               PROVE  /\ dir[v].meta[p] = acked[v][p]
                      /\ <<p, acked[v][p]>> \in dir[v].zips
                      /\ v \in index
      BY DEF AckedStaysPublished
  <2>1. pc \in UploadPCs \cup DeletePCs => v # req.v
      BY DEF Target, UploadPCs, DeletePCs
  <2> QED
      BY <2>1 DEF IInv, PromisesKept, Kept, Listed, Sound
<1> QED
    BY <1>1, IInvHolds, PTL

-----------------------------------------------------------------------------
(* However many calls fail *)

(* What an upload that has met no failure it had to undo has achieved.     *)
Achieved ==
    LET d == dir[req.v] IN
    /\ pc \in {"putMeta", "putSums", "putSig", "addIndex", "dropOld"} => <<req.p, req.c>> \in d.zips
    /\ pc \in {"putSums", "putSig", "addIndex", "dropOld"} => d.meta[req.p] = req.c
    /\ pc \in {"putSig", "addIndex", "dropOld"} => d.sums # {}
    /\ pc \in {"addIndex", "dropOld"} => d.sig = d.sums
    /\ pc = "dropOld" => req.v \in index

-----------------------------------------------------------------------------
(* The inductive invariant behind NoOrphanArtifacts and                    *)
(* ChecksumsMatchMetadata, on top of IInv                                  *)

(* The artifacts that metadata m names.                                    *)
NamedBy(m) == {<<p, m[p]>> : p \in {q \in Platforms : m[q] # None}}

(* Directory d has the signed checksum list of metadata m.                 *)
Matches(d, m) == d.sums = NamedBy(m) /\ d.sig = d.sums

(* The metadata of the target as it was before the upload.                 *)
Before == [dir[req.v].meta EXCEPT ![req.p] = undo.was]

(* Nothing but the artifact an upload would take back, or the one it is to *)
(* replace, is without a name; and it takes back none that had one.        *)
UploadTidy ==
    LET d == dir[req.v] IN
    req.v \notin litter =>
        /\ pc \in Unswitched =>
              /\ d.zips \subseteq NamedBy(d.meta) \cup {<<req.p, req.c>>}
              /\ undo.existed => d.meta[req.p] = req.c
        /\ pc \in Switched =>
              /\ d.zips \subseteq NamedBy(d.meta) \cup {<<req.p, undo.meta>>}
              /\ undo.existed => undo.meta = req.c

(* The list on disk or the one remembered is that of the metadata as it    *)
(* was; a new one made from clean reads is that of the metadata as it is.  *)
UploadLists ==
    LET d == dir[req.v] IN
    /\ req.v \notin suspect =>
          /\ pc \in {"putMeta", "putSums"} \/ (pc = "dropZip" /\ undo.whole) => Matches(d, Before)
          /\ pc \in (UploadPCs \ {"putMeta", "putSums", "dropZip"}) /\ undo.whole =>
                undo.sums = NamedBy(Before) /\ undo.sig = undo.sums
          /\ pc = "restoreSig" /\ undo.whole => d.sums = undo.sums
    /\ pc \in {"putSig", "addIndex", "dropOld"} /\ undo.clean => d.sums = NamedBy(d.meta)

(* A deleted version is empty, and what is staged is in order if it was.   *)
DeleteTidy ==
    /\ dir[req.v].zips = {} /\ Matches(dir[req.v], dir[req.v].meta)
    /\ req.v \notin litter => staged.zips \subseteq NamedBy(staged.meta)
    /\ req.v \notin suspect => Matches(staged, staged.meta)

(* Every version that no upload is working on is in order.                 *)
InOrder ==
    \A v \in Versions : ~(pc \in UploadPCs /\ v = req.v) =>
        /\ v \notin litter => dir[v].zips \subseteq NamedBy(dir[v].meta)
        /\ v \notin suspect => Matches(dir[v], dir[v].meta)

Order ==
    /\ InOrder
    /\ pc \in UploadPCs => UploadTidy /\ UploadLists
    /\ pc \in DeletePCs => DeleteTidy
    /\ pc = "bootSig" /\ undo.clean => dir[req.v].sums = NamedBy(dir[req.v].meta)

-----------------------------------------------------------------------------
(* What the steps do to the files *)

(* The directory of w keeps everything that readers look at.               *)
Keeps(w) ==
    /\ dir'[w].meta = dir[w].meta /\ dir'[w].zips = dir[w].zips
    /\ dir'[w].sums = dir[w].sums /\ dir'[w].sig = dir[w].sig

(* Steps outside of any request.                                           *)
LEMMA IdleEffect ==
    ASSUME TypeOK,
           \/ Refuse \/ Start \/ Listen \/ UNCHANGED vars
           \/ \E v \in Versions : StoreArtifactFails(v) \/ RebuildSumsFails(v)
           \/ \E v \in Versions, ok \in BOOLEAN : Deprecate(v, ok)
           \/ \E v \in Versions, p \in Platforms : CollectGarbage(v, p)
    PROVE  /\ \A w \in Versions : Keeps(w)
           /\ UNCHANGED <<pc, req, undo, staged, faults, index, acked, suspect, litter>>
<1>1. CASE Refuse \/ Start \/ Listen \/ UNCHANGED vars
    BY <1>1 DEF Refuse, Start, Listen, vars, disk, history, Keeps
<1>2. ASSUME NEW v \in Versions, StoreArtifactFails(v)
      PROVE  /\ \A w \in Versions : Keeps(w)
             /\ UNCHANGED <<pc, req, undo, staged, faults, index, acked, suspect, litter>>
    BY <1>2 DEF StoreArtifactFails, history, Keeps, TypeOK, Dirs
<1>3. ASSUME NEW v \in Versions, RebuildSumsFails(v)
      PROVE  /\ \A w \in Versions : Keeps(w)
             /\ UNCHANGED <<pc, req, undo, staged, faults, index, acked, suspect, litter>>
    BY <1>3 DEF RebuildSumsFails, disk, history, Keeps
<1>4. ASSUME NEW v \in Versions, NEW ok \in BOOLEAN, Deprecate(v, ok)
      PROVE  /\ \A w \in Versions : Keeps(w)
             /\ UNCHANGED <<pc, req, undo, staged, faults, index, acked, suspect, litter>>
    BY <1>4 DEF Deprecate, history, Keeps, TypeOK, Dirs
<1>5. ASSUME NEW v \in Versions, NEW p \in Platforms, CollectGarbage(v, p)
      PROVE  /\ \A w \in Versions : Keeps(w)
             /\ UNCHANGED <<pc, req, undo, staged, faults, index, acked, suspect, litter>>
    BY <1>5 DEF CollectGarbage, history, process, Keeps, TypeOK, Dirs
<1> QED
    BY <1>1, <1>2, <1>3, <1>4, <1>5

(* Steps of a request that only move it on, or lose a temporary file.      *)
LEMMA MoveEffect ==
    ASSUME TypeOK, PutMetaFails \/ PutSumsFails \/ PutSigFails \/ AddIndex \/ AddIndexFails
                   \/ RestoreMetaFails \/ RemoveIndex \/ RemoveIndexFails
    PROVE  /\ \A w \in Versions : Keeps(w)
           /\ UNCHANGED <<req, staged, answer, acked, suspect, litter>>
           /\ undo'.existed = undo.existed /\ undo'.meta = undo.meta /\ undo'.was = undo.was
<1>1. CASE PutSigFails \/ AddIndex \/ AddIndexFails \/ RemoveIndex \/ RemoveIndexFails
    BY <1>1 DEF PutSigFails, AddIndex, AddIndexFails, RemoveIndex, RemoveIndexFails, Goto,
                disk, history, Keeps
<1>2. CASE PutSumsFails
  <2>1. PICK L : undo' = Remember(undo, dir[req.v], L)
      BY <1>2 DEF PutSumsFails
  <2>2. undo'.meta = undo.meta /\ undo'.was = undo.was /\ undo'.existed = undo.existed
      BY <2>1 DEF Remember, TypeOK, Undos
  <2> QED
      BY <1>2, <2>2 DEF PutSumsFails, Goto, disk, history, Keeps
<1>3. CASE PutMetaFails \/ RestoreMetaFails
  <2>1. pc \in UploadPCs
      BY <1>3 DEF PutMetaFails, RestoreMetaFails, UploadPCs
  <2>2. req.v \in Versions /\ dir[req.v] \in Dirs
      BY <2>1, UploadTypes
  <2>3. ASSUME NEW d \in FailedPut(dir[req.v], req.p)
        PROVE  /\ d.meta = dir[req.v].meta /\ d.zips = dir[req.v].zips
               /\ d.sums = dir[req.v].sums /\ d.sig = dir[req.v].sig
      BY <2>2 DEF FailedPut, Dirs
  <2>4. PICK d \in FailedPut(dir[req.v], req.p) : dir' = [dir EXCEPT ![req.v] = d] \/ dir' = dir
      BY <1>3 DEF PutMetaFails, RestoreMetaFails
  <2>5. \A w \in Versions : Keeps(w)
      BY <2>2, <2>3, <2>4 DEF Keeps, TypeOK
  <2> QED
      BY <1>3, <2>5 DEF PutMetaFails, RestoreMetaFails, Goto, history
<1> QED
    BY <1>1, <1>2, <1>3

(* The archive is stored.                                                  *)
LEMMA StoreArtifactEffect ==
    ASSUME TypeOK, NEW v \in Versions, NEW p \in Platforms, NEW c \in Contents,
           StoreArtifact(v, p, c)
    PROVE  /\ \A w \in Versions \ {v} : dir'[w] = dir[w]
           /\ dir'[v].meta = dir[v].meta /\ dir'[v].sums = dir[v].sums /\ dir'[v].sig = dir[v].sig
           /\ dir'[v].zips = dir[v].zips \cup {<<p, c>>}
           /\ pc = "idle" /\ pc' = "putMeta" /\ req'.v = v /\ req'.p = p /\ req'.c = c
           /\ undo'.was = dir[v].meta[p] /\ (undo'.existed <=> <<p, c>> \in dir[v].zips)
           /\ UNCHANGED <<acked, suspect, litter, index>> /\ answer' = "none"
<1>1. /\ dir' = [dir EXCEPT ![v] = WithZip(dir[v], <<p, c>>)] /\ pc = "idle" /\ pc' = "putMeta"
      /\ req'.v = v /\ req'.p = p /\ req'.c = c /\ UNCHANGED <<acked, suspect, litter, index>>
      /\ answer' = "none"
    BY DEF StoreArtifact, Free, Take, history
<1>2. \A w \in Versions : dir'[w] = IF w = v THEN WithZip(dir[v], <<p, c>>) ELSE dir[w]
    BY <1>1 DEF TypeOK
<1>3. /\ WithZip(dir[v], <<p, c>>).meta = dir[v].meta /\ WithZip(dir[v], <<p, c>>).sums = dir[v].sums
      /\ WithZip(dir[v], <<p, c>>).sig = dir[v].sig
      /\ WithZip(dir[v], <<p, c>>).zips = dir[v].zips \cup {<<p, c>>}
    BY DEF WithZip, TypeOK, Dirs
<1>4. undo'.was = dir[v].meta[p]
    BY DEF StoreArtifact, NoUndo
<1>5. undo'.existed <=> <<p, c>> \in dir[v].zips
    BY DEF StoreArtifact, NoUndo
<1> QED
    BY <1>1, <1>2, <1>3, <1>4, <1>5

(* The metadata of one platform is switched, or put back.                  *)
LEMMA PutMetaEffect ==
    ASSUME TypeOK, PutMeta \/ RestoreMeta
    PROVE  /\ \A w \in Versions \ {req.v} : dir'[w] = dir[w]
           /\ dir'[req.v].meta = [dir[req.v].meta EXCEPT
                                    ![req.p] = IF pc = "putMeta" THEN req.c ELSE undo.meta]
           /\ dir'[req.v].zips = dir[req.v].zips
           /\ dir'[req.v].sums = dir[req.v].sums /\ dir'[req.v].sig = dir[req.v].sig
           /\ UNCHANGED <<req, staged, answer, acked, suspect, index>>
<1>1. pc \in {"putMeta", "restoreMeta"}
    BY DEF PutMeta, RestoreMeta
<1>2. pc \in UploadPCs
    BY <1>1 DEF UploadPCs
<1>3. req.v \in Versions /\ req.p \in Platforms /\ dir[req.v] \in Dirs /\ dir[req.v].meta \in MetaFiles
    BY <1>2, UploadTypes
<1>4. ASSUME NEW x \in Contents \cup {None}, NEW d \in {PutMetaFile(dir[req.v], req.p, x),
                                                        [dir[req.v] EXCEPT !.meta[req.p] = x]}
      PROVE  /\ d.meta = [dir[req.v].meta EXCEPT ![req.p] = x] /\ d.zips = dir[req.v].zips
             /\ d.sums = dir[req.v].sums /\ d.sig = dir[req.v].sig
    BY <1>3 DEF PutMetaFile, Dirs
<1>5. PICK x : x = IF pc = "putMeta" THEN req.c ELSE undo.meta
    OBVIOUS
<1>6. x \in Contents \cup {None}
    BY <1>2, <1>5, UploadTypes DEF TypeOK, Undos
<1>7. PICK d \in {PutMetaFile(dir[req.v], req.p, x), [dir[req.v] EXCEPT !.meta[req.p] = x]} :
          dir' = [dir EXCEPT ![req.v] = d]
    BY <1>5 DEF PutMeta, RestoreMeta, RestoredMeta
<1>8. UNCHANGED <<req, staged, answer, acked, suspect, index>>
    BY DEF PutMeta, RestoreMeta, Goto, history
<1>9. \A w \in Versions : dir'[w] = IF w = req.v THEN d ELSE dir[w]
    BY <1>3, <1>7 DEF TypeOK
<1>10. /\ d.meta = [dir[req.v].meta EXCEPT ![req.p] = x] /\ d.zips = dir[req.v].zips
       /\ d.sums = dir[req.v].sums /\ d.sig = dir[req.v].sig
    BY <1>4, <1>6
<1>11. dir'[req.v] = d /\ \A w \in Versions \ {req.v} : dir'[w] = dir[w]
    BY <1>3, <1>9
<1> QED
    BY <1>5, <1>8, <1>10, <1>11

(* The checksum list or its signature is written.                          *)
LEMMA ListEffect ==
    ASSUME TypeOK, \/ PutSums \/ PutSig
                   \/ \E ok \in BOOLEAN : RestoreSums(ok) \/ RestoreSig(ok) \/ RebuildSig(ok)
                   \/ \E v \in Versions : RebuildSums(v)
    PROVE  /\ \A w \in Versions : dir'[w].meta = dir[w].meta /\ dir'[w].zips = dir[w].zips
           /\ UNCHANGED <<acked, litter, index>>
           /\ \E v \in Versions : \A w \in Versions \ {v} : dir'[w] = dir[w]
<1>1. ASSUME NEW v \in Versions, NEW x \in SUBSET Artifacts, NEW f, f \in [Versions -> Dirs],
             f = dir \/ f = [dir EXCEPT ![v].sums = x] \/ f = [dir EXCEPT ![v].sig = x]
      PROVE  /\ \A w \in Versions : f[w].meta = dir[w].meta /\ f[w].zips = dir[w].zips
             /\ \A w \in Versions \ {v} : f[w] = dir[w]
    BY <1>1 DEF TypeOK, Dirs
<1>2. dir \in [Versions -> Dirs]
    BY DEF TypeOK
<1>3. UNCHANGED <<acked, litter, index>>
    BY DEF PutSums, PutSig, RestoreSums, RestoredSums, RestoreSig, RebuildSums, RebuildSig, history
<1>4. PICK v \in Versions, x \in SUBSET Artifacts :
          dir' = dir \/ dir' = [dir EXCEPT ![v].sums = x] \/ dir' = [dir EXCEPT ![v].sig = x]
  <2>1. \A w \in Versions : /\ dir[w].sums \in SUBSET Artifacts
                            /\ \A lost : Entries(dir[w], lost) \in SUBSET Artifacts
      BY <1>2 DEF Dirs, Entries
  <2>2. undo.sums \in SUBSET Artifacts /\ undo.sig \in SUBSET Artifacts
      BY DEF TypeOK, Undos
  <2>3. pc \in PCs \ {"idle"} => req.v \in Versions
      BY DEF TypeOK
  <2>4. CASE PutSums
    <3>1. req.v \in Versions
        BY <2>3, <2>4 DEF PutSums, PCs, UploadPCs
    <3>2. PICK lost : dir' = dir \/ dir' = [dir EXCEPT ![req.v].sums = Entries(dir[req.v], lost)]
        BY <2>4 DEF PutSums
    <3> QED
        BY <2>1, <3>1, <3>2
  <2>5. CASE PutSig
      BY <2>1, <2>3, <2>5 DEF PutSig, PCs, UploadPCs
  <2>6. ASSUME NEW ok \in BOOLEAN, RestoreSums(ok) \/ RestoreSig(ok) \/ RebuildSig(ok)
        PROVE  /\ req.v \in Versions
               /\ \/ dir' = dir \/ dir' = [dir EXCEPT ![req.v].sums = undo.sums]
                  \/ dir' = [dir EXCEPT ![req.v].sig = undo.sig]
                  \/ dir' = [dir EXCEPT ![req.v].sig = dir[req.v].sums]
      BY <2>3, <2>6 DEF RestoreSums, RestoredSums, RestoreSig, RestoredSig, RebuildSig, PCs, UploadPCs, StartupPCs
  <2>7. ASSUME NEW v \in Versions, RebuildSums(v)
        PROVE  \E lost : dir' = [dir EXCEPT ![v].sums = Entries(dir[v], lost)]
      BY <2>7 DEF RebuildSums
  <2> QED
      BY <2>1, <2>2, <2>4, <2>5, <2>6, <2>7
<1>5. dir' \in [Versions -> Dirs]
    BY <1>2, <1>4 DEF Dirs
<1> QED
    BY <1>1, <1>3, <1>4, <1>5

(* Artifacts of the upload's own platform are removed at its end.          *)
LEMMA DropEffect ==
    ASSUME TypeOK, NEW ok \in BOOLEAN, DropOld(ok) \/ DropZip(ok)
    PROVE  /\ \A w \in Versions \ {req.v} : dir'[w] = dir[w]
           /\ \A w \in Versions : /\ dir'[w].meta = dir[w].meta
                                  /\ dir'[w].sums = dir[w].sums /\ dir'[w].sig = dir[w].sig
           /\ dir'[req.v].zips = dir[req.v].zips \
                  (IF ~ok THEN {} ELSE IF pc = "dropOld" THEN Replaced ELSE Withdrawn)
<1>1. pc \in {"dropOld", "dropZip"}
    BY DEF DropOld, DropZip
<1>2. pc \in UploadPCs
    BY <1>1 DEF UploadPCs
<1>3. PICK v : v = req.v
    OBVIOUS
<1>4. PICK e : e = dir[v]
    OBVIOUS
<1>5. v \in Versions /\ e \in Dirs /\ dir \in [Versions -> Dirs]
    BY <1>2, <1>3, <1>4, UploadTypes DEF TypeOK
<1>6. PICK Z : Z = IF ~ok THEN {} ELSE IF pc = "dropOld" THEN Replaced ELSE Withdrawn
    OBVIOUS
<1>7. PICK f : f = WithoutZips(e, Z)
    OBVIOUS
<1>8. f \in Dirs /\ f.meta = e.meta /\ f.sums = e.sums /\ f.sig = e.sig /\ f.zips = e.zips \ Z
    BY <1>5, <1>7 DEF WithoutZips, Dirs
<1>9. Z = {} => f = e
    BY <1>5, <1>7 DEF WithoutZips, Dirs
<1>10. /\ Prune(f).meta = f.meta /\ Prune(f).sums = f.sums /\ Prune(f).sig = f.sig
       /\ Prune(f).zips = f.zips
  <2>1. PICK g : g = [f EXCEPT !.exists = FALSE]
      OBVIOUS
  <2>2. g.meta = f.meta /\ g.sums = f.sums /\ g.sig = f.sig /\ g.zips = f.zips
      BY <1>8, <2>1 DEF Dirs
  <2> QED
      BY <2>1, <2>2 DEF Prune
<1>11. dir' = [dir EXCEPT ![v] = f] \/ dir' = [dir EXCEPT ![v] = Prune(f)] \/ (dir' = dir /\ Z = {})
    BY <1>3, <1>4, <1>6, <1>7 DEF DropOld, DropZip
<1>12. \E g \in {f, Prune(f)} : dir'[v] = g /\ \A w \in Versions \ {v} : dir'[w] = dir[w]
    BY <1>4, <1>5, <1>9, <1>11
<1> QED
    BY <1>3, <1>4, <1>5, <1>6, <1>8, <1>10, <1>12

(* A delete moves the directory as a whole.                                *)
LEMMA StageDeleteEffect ==
    ASSUME TypeOK, NEW v \in Versions, StageDelete(v)
    PROVE  /\ \A w \in Versions \ {v} : dir'[w] = dir[w]
           /\ dir'[v] = NoDir /\ staged' = dir[v] /\ req'.v = v
           /\ pc = "idle" /\ pc' = "unindex" /\ answer' = "none"
           /\ UNCHANGED <<acked, suspect, litter, index, undo>>
BY DEF StageDelete, Free, Take, TypeOK, NoReq, history

(* Its end puts it back, or leaves the version as it is.                   *)
LEMMA DeleteEndEffect ==
    ASSUME TypeOK, NEW ok \in BOOLEAN, Rollback(ok) \/ Commit(ok)
    PROVE  /\ \A w \in Versions \ {req.v} : dir'[w] = dir[w]
           /\ dir'[req.v] = IF pc = "rollback" /\ ok THEN staged ELSE dir[req.v]
           /\ pc \in {"rollback", "commit"} /\ pc' = "idle" /\ req.v \in Versions
           /\ pc = "rollback" => answer' = "error" /\ UNCHANGED <<suspect, litter>>
           /\ pc = "commit" => /\ answer' \in {"ok", "error"}
                               /\ suspect' = suspect \ {req.v} /\ litter' = litter \ {req.v}
<1>1. pc \in {"rollback", "commit"} /\ pc' = "idle"
    BY DEF Rollback, Commit, Answer
<1>2. req.v \in Versions
    BY <1>1 DEF TypeOK
<1> QED
    BY <1>1, <1>2 DEF Rollback, Commit, Answer, TypeOK

(* A kill may leave a temporary file, and nothing else.                    *)
LEMMA CrashEffect ==
    ASSUME TypeOK, Crash
    PROVE  /\ \A w \in Versions : Keeps(w)
           /\ pc' = "idle" /\ answer' = "none" /\ index' = index
           /\ suspect' = (IF pc = "idle" THEN suspect ELSE suspect \cup {req.v})
           /\ litter' = (IF pc \in UploadPCs THEN litter \cup {req.v} ELSE litter)
<1>1. CASE BeingPut = None
    BY <1>1 DEF Crash, Answer, Keeps
<1>2. CASE BeingPut # None
  <2>1. pc \in UploadPCs
      BY <1>2 DEF BeingPut, UploadPCs
  <2>2. req.v \in Versions /\ req.p \in Platforms /\ dir[req.v] \in Dirs
      BY <2>1, UploadTypes
  <2>3. PICK t : dir' = [dir EXCEPT ![req.v].tmp[req.p] = t]
      BY <1>2 DEF Crash
  <2>4. \A w \in Versions : Keeps(w)
      BY <2>2, <2>3 DEF Keeps, TypeOK, Dirs
  <2> QED
      BY <2>4 DEF Crash, Answer
<1> QED
    BY <1>1, <1>2

-----------------------------------------------------------------------------
(* No request reaches beyond its target *)

(* What a reader gets depends on the metadata and the artifacts of the     *)
(* platform.                                                               *)
LEMMA VisibleAt ==
    ASSUME NEW d, NEW e, NEW p \in Platforms, e.meta[p] = d.meta[p],
           (<<p, d.meta[p]>> \in e.zips) <=> (<<p, d.meta[p]>> \in d.zips)
    PROVE  Visible(e)[p] = Visible(d)[p]
BY DEF Visible

(* In particular, if nothing of either changes.                            *)
LEMMA VisibleKept ==
    ASSUME \A w \in Versions : dir'[w].meta = dir[w].meta /\ dir'[w].zips = dir[w].zips
    PROVE  \A w \in Versions : Visible(dir'[w]) = Visible(dir[w])
BY DEF Visible

(* The frame of every step: what is published for a platform that no       *)
(* request is about does not change, whatever fails.                       *)
LEMMA FrameStep ==
    ASSUME TypeOK, [Next]_vars, NEW v \in Versions, NEW p \in Platforms,
           ~Touches(v, p), ~Touches(v, p)'
    PROVE  Visible(dir'[v])[p] = Visible(dir[v])[p]
<1>1. CASE \/ Refuse \/ Start \/ Listen \/ UNCHANGED vars
           \/ \E w \in Versions : StoreArtifactFails(w) \/ RebuildSumsFails(w)
           \/ \E w \in Versions, ok \in BOOLEAN : Deprecate(w, ok)
           \/ \E w \in Versions, q \in Platforms : CollectGarbage(w, q)
    BY <1>1, IdleEffect, VisibleKept DEF Keeps
<1>2. CASE PutMetaFails \/ PutSumsFails \/ PutSigFails \/ AddIndex \/ AddIndexFails
           \/ RestoreMetaFails \/ RemoveIndex \/ RemoveIndexFails
    BY <1>2, MoveEffect, VisibleKept DEF Keeps
<1>3. CASE \/ PutSums \/ PutSig
           \/ \E ok \in BOOLEAN : RestoreSums(ok) \/ RestoreSig(ok) \/ RebuildSig(ok)
           \/ \E w \in Versions : RebuildSums(w)
    BY <1>3, ListEffect, VisibleKept
<1>4. CASE Crash
    BY <1>4, CrashEffect, VisibleKept DEF Keeps
<1>5. ASSUME NEW w \in Versions, NEW q \in Platforms, NEW c \in Contents, StoreArtifact(w, q, c)
      PROVE  Visible(dir'[v])[p] = Visible(dir[v])[p]
  <2>1. /\ \A u \in Versions \ {w} : dir'[u] = dir[u]
        /\ dir'[w].meta = dir[w].meta /\ dir'[w].zips = dir[w].zips \cup {<<q, c>>}
        /\ pc' = "putMeta" /\ req'.v = w /\ req'.p = q
      BY <1>5, StoreArtifactEffect
  <2>2. w # v \/ q # p
      BY <2>1 DEF Touches, UploadPCs
  <2>3. CASE w # v
      BY <2>1, <2>3
  <2>4. CASE w = v /\ q # p
    <3>1. (<<p, dir[v].meta[p]>> \in dir'[v].zips) <=> (<<p, dir[v].meta[p]>> \in dir[v].zips)
        BY <2>1, <2>4
    <3> QED
        BY <2>1, <2>4, <3>1, VisibleAt
  <2> QED
      BY <2>2, <2>3, <2>4
<1>6. CASE PutMeta \/ RestoreMeta
  <2>1. pc \in UploadPCs
      BY <1>6 DEF PutMeta, RestoreMeta, UploadPCs
  <2>2. req.v # v \/ req.p # p
      BY <2>1 DEF Touches
  <2>3. CASE req.v # v
      BY <1>6, <2>3, PutMetaEffect
  <2>4. CASE req.v = v /\ req.p # p
    <3>1. dir[v].meta \in MetaFiles
        BY <2>1, <2>4, UploadTypes
    <3>2. dir'[v].meta[p] = dir[v].meta[p] /\ dir'[v].zips = dir[v].zips
        BY <1>6, <2>4, <3>1, PutMetaEffect DEF MetaFiles
    <3> QED
        BY <3>2, VisibleAt
  <2> QED
      BY <2>2, <2>3, <2>4
<1>7. ASSUME NEW ok \in BOOLEAN, DropOld(ok) \/ DropZip(ok)
      PROVE  Visible(dir'[v])[p] = Visible(dir[v])[p]
  <2>1. pc \in UploadPCs
      BY <1>7 DEF DropOld, DropZip, UploadPCs
  <2>2. req.v # v \/ req.p # p
      BY <2>1 DEF Touches
  <2>3. CASE req.v # v
      BY <1>7, <2>3, DropEffect
  <2>4. CASE req.v = v /\ req.p # p
    <3>1. PICK Z : Z = IF ~ok THEN {} ELSE IF pc = "dropOld" THEN Replaced ELSE Withdrawn
        OBVIOUS
    <3>2. dir'[v].meta = dir[v].meta /\ dir'[v].zips = dir[v].zips \ Z
        BY <1>7, <2>4, <3>1, DropEffect
    <3>3. \A x : <<p, x>> \notin Z
        BY <2>4, <3>1 DEF Replaced, Withdrawn
    <3> QED
        BY <3>2, <3>3, VisibleAt
  <2> QED
      BY <2>2, <2>3, <2>4
<1>8. ASSUME NEW w \in Versions, StageDelete(w) PROVE Visible(dir'[v])[p] = Visible(dir[v])[p]
    BY <1>8, StageDeleteEffect DEF Touches, DeletePCs
<1>9. ASSUME NEW ok \in BOOLEAN, Rollback(ok) \/ Commit(ok)
      PROVE  Visible(dir'[v])[p] = Visible(dir[v])[p]
    BY <1>9, DeleteEndEffect DEF Touches, DeletePCs
<1> QED
    BY <1>1, <1>2, <1>3, <1>4, <1>5, <1>6, <1>7, <1>8, <1>9
    DEF Next, Upload, Restore, Delete, Startup

(* A directory has a list and a signature.                                 *)
HasList(d) == d.sums # {} /\ d.sig # {}

(* They stay: only an upload that is taken back and has none to put back   *)
(* removes them, and a delete, which is about every platform.              *)
LEMMA ListStays ==
    ASSUME TypeOK, [Next]_vars, NEW v \in Versions, HasList(dir[v]), ~NothingToPutBack(v),
           pc \in DeletePCs => req.v # v, pc' \in DeletePCs => req'.v # v
    PROVE  HasList(dir'[v])
<1>1. dir \in [Versions -> Dirs] /\ (pc # "idle" => req.v \in Versions)
    BY DEF TypeOK
<1>2. ASSUME dir'[v].sums = dir[v].sums, dir'[v].sig = dir[v].sig PROVE HasList(dir'[v])
    BY <1>2 DEF HasList
<1>3. CASE \/ Refuse \/ Start \/ Listen \/ UNCHANGED vars
           \/ \E w \in Versions : StoreArtifactFails(w) \/ RebuildSumsFails(w)
           \/ \E w \in Versions, ok \in BOOLEAN : Deprecate(w, ok)
           \/ \E w \in Versions, q \in Platforms : CollectGarbage(w, q)
    BY <1>2, <1>3, IdleEffect DEF Keeps
<1>4. CASE PutMetaFails \/ PutSumsFails \/ PutSigFails \/ AddIndex \/ AddIndexFails
           \/ RestoreMetaFails \/ RemoveIndex \/ RemoveIndexFails
    BY <1>2, <1>4, MoveEffect DEF Keeps
<1>5. CASE Crash
    BY <1>2, <1>5, CrashEffect DEF Keeps
<1>6. ASSUME NEW w \in Versions, NEW q \in Platforms, NEW c \in Contents, StoreArtifact(w, q, c)
      PROVE  HasList(dir'[v])
    BY <1>2, <1>6, StoreArtifactEffect
<1>7. CASE PutMeta \/ RestoreMeta
    BY <1>2, <1>7, PutMetaEffect
<1>8. ASSUME NEW ok \in BOOLEAN, DropOld(ok) \/ DropZip(ok) PROVE HasList(dir'[v])
    BY <1>2, <1>8, DropEffect
<1>9. ASSUME NEW w \in Versions, StageDelete(w) PROVE HasList(dir'[v])
    BY <1>2, <1>9, StageDeleteEffect DEF DeletePCs
<1>10. ASSUME NEW ok \in BOOLEAN, Rollback(ok) \/ Commit(ok) PROVE HasList(dir'[v])
  <2>1. pc \in DeletePCs
      BY <1>10 DEF Rollback, Commit, DeletePCs
  <2> QED
      BY <1>2, <1>10, <2>1, DeleteEndEffect
<1>11. CASE PutSums \/ \E w \in Versions : RebuildSums(w)
  <2>1. PICK w, E : /\ w \in Versions /\ E # {}
                    /\ dir' = dir \/ dir' = [dir EXCEPT ![w].sums = E]
    <3>1. CASE PutSums
      <4>1. req.v \in Versions
          BY <1>1, <3>1 DEF PutSums
      <4> QED
          BY <3>1, <4>1 DEF PutSums
    <3>2. CASE \E w \in Versions : RebuildSums(w)
        BY <3>2 DEF RebuildSums
    <3> QED
        BY <1>11, <3>1, <3>2
  <2> QED
      BY <1>1, <2>1 DEF HasList, Dirs
<1>12. CASE PutSig \/ \E ok \in BOOLEAN : RebuildSig(ok)
  <2>1. pc # "idle"
      BY <1>12 DEF PutSig, RebuildSig
  <2>2. dir' = dir \/ dir' = [dir EXCEPT ![req.v].sig = dir[req.v].sums]
      BY <1>12 DEF PutSig, RebuildSig
  <2> QED
      BY <1>1, <2>1, <2>2 DEF HasList, Dirs
<1>13. ASSUME NEW ok \in BOOLEAN, RestoreSums(ok) \/ RestoreSig(ok) PROVE HasList(dir'[v])
  <2>1. pc \in {"restoreSums", "restoreSig"}
      BY <1>13 DEF RestoreSums, RestoreSig
  <2>2. \/ dir' = dir
        \/ dir' = [dir EXCEPT ![req.v].sums = undo.sums]
        \/ dir' = [dir EXCEPT ![req.v].sig = undo.sig]
      BY <1>13 DEF RestoreSums, RestoredSums, RestoreSig, RestoredSig
  <2>3. req.v = v => undo.sums # {} /\ undo.sig # {}
      BY <2>1 DEF NothingToPutBack
  <2> QED
      BY <1>1, <2>1, <2>2, <2>3 DEF HasList, Dirs
<1> QED
    BY <1>3, <1>4, <1>5, <1>6, <1>7, <1>8, <1>9, <1>10, <1>11, <1>12, <1>13
    DEF Next, Upload, Restore, Delete, Startup

(* However many storage calls fail, no handler changes what is published   *)
(* for a platform or version that it is not about, or keeps it from being  *)
(* downloaded, and neither does the start, the garbage collection or a     *)
(* kill; but a failed upload that could not read list and signature, or    *)
(* found none, leaves the other platforms of its version without.          *)
THEOREM FailuresAlwaysStayLocal == Spec => FailuresStayLocal
<1>1. ASSUME TypeOK, [Next]_vars, NEW v \in Versions, NEW p \in Platforms,
             ~Touches(v, p), ~Touches(v, p)'
      PROVE  /\ Visible(dir'[v])[p] = Visible(dir[v])[p]
             /\ Downloadable(dir[v])[p] # None /\ ~NothingToPutBack(v) =>
                   Downloadable(dir'[v])[p] = Downloadable(dir[v])[p]
  <2>1. Visible(dir'[v])[p] = Visible(dir[v])[p]
      BY <1>1, FrameStep
  <2>2. ASSUME Downloadable(dir[v])[p] # None, ~NothingToPutBack(v)
        PROVE  Downloadable(dir'[v])[p] = Downloadable(dir[v])[p]
    <3>1. HasList(dir[v])
        BY <2>2 DEF Downloadable, HasList
    <3>2. (pc \in DeletePCs => req.v # v) /\ (pc' \in DeletePCs => req'.v # v)
        BY <1>1 DEF Touches
    <3>3. HasList(dir'[v])
        BY <1>1, <2>2, <3>1, <3>2, ListStays
    <3> QED
        BY <2>1, <3>1, <3>3 DEF Downloadable, HasList
  <2> QED
      BY <2>1, <2>2
<1>2. TypeOK /\ [Next]_vars =>
        [\A v \in Versions, p \in Platforms :
            ~Touches(v, p) /\ ~Touches(v, p)' =>
                /\ Visible(dir'[v])[p] = Visible(dir[v])[p]
                /\ Downloadable(dir[v])[p] # None /\ ~NothingToPutBack(v) =>
                      Downloadable(dir'[v])[p] = Downloadable(dir[v])[p]]_vars
    BY <1>1
<1> QED
    BY <1>2, TypeCorrect, PTL DEF Spec, FailuresStayLocal

-----------------------------------------------------------------------------
(* A 200 is true *)

(* Each write of an upload adds to what the earlier ones have achieved.    *)
LEMMA AchievedStep == TypeOK /\ Achieved /\ [Next]_vars => Achieved'
<1> SUFFICES ASSUME TypeOK, Achieved, [Next]_vars PROVE Achieved'
    OBVIOUS
<1> DEFINE Busy == {"putMeta", "putSums", "putSig", "addIndex", "dropOld"}
<1>1. ASSUME pc' \notin Busy PROVE Achieved'
    BY <1>1 DEF Achieved
<1>2. pc \in Busy => pc \in UploadPCs /\ req.v \in Versions /\ req.p \in Platforms
                     /\ dir[req.v] \in Dirs /\ dir[req.v].meta \in MetaFiles
    BY UploadTypes DEF UploadPCs
<1>3. CASE \/ Refuse \/ Start \/ Listen \/ UNCHANGED vars
           \/ \E w \in Versions : StoreArtifactFails(w) \/ RebuildSumsFails(w)
           \/ \E w \in Versions, ok \in BOOLEAN : Deprecate(w, ok)
           \/ \E w \in Versions, q \in Platforms : CollectGarbage(w, q)
  <2>1. (\A w \in Versions : Keeps(w)) /\ UNCHANGED <<pc, req, index>>
      BY <1>3, IdleEffect
  <2> QED
      BY <1>1, <1>2, <2>1 DEF Achieved, Keeps
<1>4. ASSUME NEW v \in Versions, NEW p \in Platforms, NEW c \in Contents, StoreArtifact(v, p, c)
      PROVE  Achieved'
  <2>1. pc' = "putMeta" /\ req'.v = v /\ req'.p = p /\ req'.c = c /\ <<p, c>> \in dir'[v].zips
      BY <1>4, StoreArtifactEffect
  <2> QED
      BY <2>1 DEF Achieved
<1>5. CASE PutMeta
  <2>1. pc = "putMeta" /\ pc' = "putSums"
      BY <1>5 DEF PutMeta, Goto
  <2>2. /\ dir'[req.v].meta = [dir[req.v].meta EXCEPT ![req.p] = req.c]
        /\ dir'[req.v].zips = dir[req.v].zips /\ req' = req
      BY <1>5, <2>1, PutMetaEffect
  <2>3. dir'[req.v].meta[req.p] = req.c
      BY <1>2, <2>1, <2>2 DEF MetaFiles
  <2> QED
      BY <2>1, <2>2, <2>3 DEF Achieved
<1>6. CASE PutSums
  <2>1. pc = "putSums" /\ req' = req
      BY <1>6 DEF PutSums, Goto
  <2>2. dir'[req.v].meta = dir[req.v].meta /\ dir'[req.v].zips = dir[req.v].zips
      BY <1>2, <1>6, <2>1, ListEffect
  <2>3. CASE pc' \in Busy
    <3>1. PICK E : E # {} /\ dir' = [dir EXCEPT ![req.v].sums = E] /\ pc' = "putSig"
        BY <1>6, <2>3 DEF PutSums, Goto
    <3>2. dir'[req.v].sums = E
        BY <1>2, <2>1, <3>1 DEF TypeOK, Dirs
    <3> QED
        BY <2>1, <2>2, <3>1, <3>2 DEF Achieved
  <2> QED
      BY <1>1, <2>3
<1>7. CASE PutSig
  <2>1. /\ pc = "putSig" /\ req' = req /\ pc' = "addIndex"
        /\ dir' = [dir EXCEPT ![req.v].sig = dir[req.v].sums]
      BY <1>7 DEF PutSig, Goto
  <2>2. dir'[req.v].meta = dir[req.v].meta /\ dir'[req.v].zips = dir[req.v].zips
      BY <1>2, <1>7, <2>1, ListEffect
  <2>3. dir'[req.v].sig = dir[req.v].sums /\ dir'[req.v].sums = dir[req.v].sums
      BY <1>2, <2>1 DEF TypeOK, Dirs
  <2> QED
      BY <2>1, <2>2, <2>3 DEF Achieved
<1>8. CASE AddIndex
  <2>1. pc = "addIndex" /\ pc' = "dropOld" /\ index' = index \cup {req.v} /\ req' = req /\ dir' = dir
      BY <1>8 DEF AddIndex, Goto
  <2> QED
      BY <2>1 DEF Achieved
<1>9. CASE \/ PutMetaFails \/ PutSumsFails \/ PutSigFails \/ AddIndexFails \/ Restore \/ Crash
           \/ \E ok \in BOOLEAN : DropOld(ok) \/ Rollback(ok) \/ Commit(ok) \/ RebuildSig(ok)
           \/ \E v \in Versions : StageDelete(v) \/ RebuildSums(v)
           \/ RemoveIndex \/ RemoveIndexFails
  <2>1. pc' \notin Busy
      BY <1>9 DEF PutMetaFails, PutSumsFails, PutSigFails, AddIndexFails, Restore, RestoreMeta,
                  RestoreMetaFails, RestoreSums, RestoredSums, RestoreSig, DropZip, Crash, DropOld, Rollback,
                  Commit, RebuildSig, StageDelete, RebuildSums, RemoveIndex, RemoveIndexFails,
                  Goto, Take, Answer
  <2> QED
      BY <1>1, <2>1
<1> QED
    BY <1>3, <1>4, <1>5, <1>6, <1>7, <1>8, <1>9 DEF Next, Upload, Delete, Startup

(* However many storage calls fail on the way, when uploadProviderHandler  *)
(* answers 200 the content can be downloaded, its version is listed and    *)
(* the signature is that of the checksum list.                             *)
THEOREM OkAlwaysMeansPublished == Spec => OkMeansPublished
<1>1. Init => Achieved
    BY DEF Init, Achieved
<1>2. ASSUME TypeOK, Achieved, Next, pc = "dropOld", answer' = "ok"
      PROVE  LET d == dir'[req.v] IN
             /\ Downloadable(d)[req.p] = req.c
             /\ req.v \in index'
             /\ d.sig = d.sums
  <2>1. /\ req.v \in Versions /\ req.p \in Platforms /\ dir[req.v].meta[req.p] = req.c
        /\ <<req.p, req.c>> \in dir[req.v].zips /\ dir[req.v].sums # {}
        /\ dir[req.v].sig = dir[req.v].sums /\ req.v \in index
      BY <1>2, UploadTypes DEF Achieved, UploadPCs
  <2>2. SUFFICES /\ dir'[req.v].meta = dir[req.v].meta /\ dir'[req.v].sums = dir[req.v].sums
                 /\ dir'[req.v].sig = dir[req.v].sig /\ index' = index
                 /\ <<req.p, req.c>> \in dir'[req.v].zips
      BY <2>1 DEF Downloadable, Visible
  <2>3. ASSUME NEW ok \in BOOLEAN, DropOld(ok)
        PROVE  /\ dir'[req.v].meta = dir[req.v].meta /\ dir'[req.v].sums = dir[req.v].sums
               /\ dir'[req.v].sig = dir[req.v].sig /\ index' = index
               /\ <<req.p, req.c>> \in dir'[req.v].zips
    <3>1. <<req.p, req.c>> \notin Replaced /\ <<req.p, req.c>> \notin {}
        BY DEF Replaced
    <3>2. index' = index
        BY <2>3 DEF DropOld
    <3>3. dir'[req.v].zips = dir[req.v].zips \ (IF ~ok THEN {} ELSE Replaced)
        BY <1>2, <2>3, DropEffect
    <3> QED
        BY <1>2, <2>1, <2>3, <3>1, <3>2, <3>3, DropEffect
  <2>4. CASE \E w \in Versions, q \in Platforms : CollectGarbage(w, q)
    <3>1. Keeps(req.v) /\ index' = index
        BY <1>2, <2>1, <2>4, IdleEffect
    <3> QED
        BY <2>1, <3>1 DEF Keeps
  <2>5. (\E ok \in BOOLEAN : DropOld(ok)) \/ (\E w \in Versions, q \in Platforms : CollectGarbage(w, q))
    <3>1. ~Refuse /\ ~Crash /\ ~Restore /\ ~Delete /\ ~(\E v \in Versions, ok \in BOOLEAN : Deprecate(v, ok))
        BY <1>2 DEF Refuse, Crash, Restore, Delete, Deprecate, Free, Answer, RestoreMeta,
                    RestoreMetaFails, RestoreSums, RestoredSums, RestoreSig, DropZip, StageDelete, RemoveIndex,
                    RemoveIndexFails, Rollback, Commit
    <3>2. ~Startup
      <4>1. phase = "up"
          BY <1>2 DEF TypeOK, UploadPCs
      <4> QED
          BY <1>2, <4>1 DEF Startup, Start, Listen, RebuildSums, RebuildSumsFails, RebuildSig
    <3>3. Upload => \E ok \in BOOLEAN : DropOld(ok)
        BY <1>2 DEF Upload, StoreArtifact, StoreArtifactFails, Free, PutMeta, PutMetaFails, PutSums,
                    PutSumsFails, PutSig, PutSigFails, AddIndex, AddIndexFails
    <3> QED
        BY <1>2, <3>1, <3>2, <3>3 DEF Next
  <2> QED
      BY <2>3, <2>4, <2>5
<1>3. TypeOK /\ Achieved /\ [Next]_vars =>
        [pc = "dropOld" /\ answer' = "ok" =>
            LET d == dir'[req.v] IN
            /\ Downloadable(d)[req.p] = req.c
            /\ req.v \in index'
            /\ d.sig = d.sums]_vars
    BY <1>2
<1> QED
    BY <1>1, <1>3, AchievedStep, TypeCorrect, PTL DEF Spec, OkMeansPublished

-----------------------------------------------------------------------------
(* Names and lists in order *)

(* What it means to be named.                                              *)
LEMMA NamedByHas ==
    ASSUME NEW m, NEW p \in Platforms, NEW x
    PROVE  <<p, x>> \in NamedBy(m) <=> m[p] = x /\ x # None
BY DEF NamedBy

(* Metadata that is not there names nothing.                               *)
LEMMA NothingNamed == NamedBy(NoFiles) = {}
BY DEF NamedBy, NoFiles

(* When the metadata of one platform is switched, the artifact it named is *)
(* left without a name and the one it names now is no longer.              *)
LEMMA NamedSwitched ==
    ASSUME NEW m \in MetaFiles, NEW p \in Platforms, NEW x \in Contents \cup {None},
           NEW Z \in SUBSET Artifacts, Z \subseteq NamedBy(m) \cup {<<p, x>>},
           NEW n, n = [m EXCEPT ![p] = x]
    PROVE  Z \subseteq NamedBy(n) \cup {<<p, m[p]>>}
<1> SUFFICES ASSUME NEW a \in Z PROVE a \in NamedBy(n) \cup {<<p, m[p]>>}
    OBVIOUS
<1>0. PICK q \in Platforms, y \in Contents : a = <<q, y>>
    BY DEF Artifacts
<1>1. y # None
    BY NoneAssumption
<1>2. m[q] = y \/ (q = p /\ y = x)
    BY <1>0, NamedByHas
<1>3. CASE q = p
  <2>1. n[q] = x
      BY <1>3 DEF MetaFiles
  <2>2. y = x => <<q, y>> \in NamedBy(n)
      BY <1>1, <2>1, NamedByHas
  <2> QED
      BY <1>0, <1>2, <1>3, <2>2
<1>4. CASE q # p
  <2>1. n[q] = m[q]
      BY <1>4 DEF MetaFiles
  <2> QED
      BY <1>0, <1>1, <1>2, <1>4, <2>1, NamedByHas
<1> QED
    BY <1>3, <1>4

(* Without an artifact that has lost its name, all that are left have one. *)
LEMMA NamedCleared ==
    ASSUME NEW m, NEW p \in Platforms, NEW x, NEW Z \in SUBSET Artifacts, NEW W,
           Z \subseteq NamedBy(m) \cup {<<p, x>>},
           x = None \/ m[p] = x \/ <<p, x>> \in W
    PROVE  (Z \ W) \subseteq NamedBy(m)
<1> SUFFICES ASSUME NEW q \in Platforms, NEW y \in Contents, <<q, y>> \in Z, <<q, y>> \notin W
             PROVE  <<q, y>> \in NamedBy(m)
    BY DEF Artifacts
<1>1. y # None
    BY NoneAssumption
<1>2. CASE <<q, y>> = <<p, x>>
    BY <1>1, <1>2, NamedByHas
<1> QED
    BY <1>2

(* A rebuild from clean reads of a directory whose metadata names stored   *)
(* artifacts lists exactly those.                                          *)
LEMMA CleanEntries ==
    ASSUME NEW d \in Dirs, NEW lost, Sound(d), Clean(d, lost)
    PROVE  Entries(d, lost) = NamedBy(d.meta)
<1>1. \A p \in Platforms : MetadataFound(d, p, lost) = d.meta[p]
    BY DEF Clean, MetadataFound, NoFiles
<1>2. \A p \in Platforms, x \in Contents : <<p, x>> \in d.zips /\ d.meta[p] = x <=> <<p, x>> \in NamedBy(d.meta)
    BY NamedByHas, NoneAssumption DEF Sound
<1>3. d.zips \subseteq Artifacts /\ NamedBy(d.meta) \subseteq Artifacts
    BY DEF Dirs, MetaFiles, NamedBy, Artifacts
<1>4. \A p \in Platforms, x \in Contents : <<p, x>> \in Entries(d, lost) <=> <<p, x>> \in d.zips /\ d.meta[p] = x
    BY <1>1 DEF Entries
<1>5. Entries(d, lost) \subseteq Artifacts
    BY <1>3 DEF Entries
<1> QED
    BY <1>2, <1>3, <1>4, <1>5 DEF Artifacts

(* Steps that keep the files readers look at and the request under way     *)
(* keep the order.                                                         *)
LEMMA QuietOrder ==
    ASSUME TypeOK, Order, \A w \in Versions : Keeps(w),
           UNCHANGED <<pc, req, undo, staged, suspect, litter>>
    PROVE  Order'
<1>1. pc \in UploadPCs \cup DeletePCs \cup {"bootSig"} => req.v \in Versions
    BY DEF TypeOK, UploadPCs, DeletePCs
<1>2. InOrder'
    BY DEF Order, InOrder, Keeps, Matches
<1>3. pc \in UploadPCs => UploadTidy'
    BY <1>1 DEF Order, UploadTidy, Keeps
<1>4. pc \in UploadPCs => UploadLists'
    BY <1>1 DEF Order, UploadLists, Keeps, Matches, Before
<1>5. pc \in DeletePCs => DeleteTidy'
    BY <1>1 DEF Order, DeleteTidy, Keeps, Matches
<1> QED
    BY <1>1, <1>2, <1>3, <1>4, <1>5 DEF Order, Keeps

(* A step of an upload that goes on: only its target is concerned.         *)
LEMMA UploadOrder ==
    ASSUME TypeOK, Order, pc \in UploadPCs, pc' \in UploadPCs, req' = req,
           \A w \in Versions \ {req.v} : /\ Keeps(w)
                                         /\ w \in litter => w \in litter'
                                         /\ w \in suspect => w \in suspect',
           UploadTidy', UploadLists'
    PROVE  Order'
<1>1. InOrder'
    BY DEF Order, InOrder, Keeps, Matches
<1> QED
    BY <1>1 DEF Order, UploadPCs, DeletePCs

(* A step that ends a request, or is outside of any, and leaves one        *)
(* version in order.                                                       *)
LEMMA EndOrder ==
    ASSUME TypeOK, Order, pc' = "idle", NEW v \in Versions, pc \in UploadPCs => v = req.v,
           \A w \in Versions \ {v} : /\ Keeps(w)
                                     /\ w \in litter => w \in litter'
                                     /\ w \in suspect => w \in suspect',
           v \notin litter' => dir'[v].zips \subseteq NamedBy(dir'[v].meta),
           v \notin suspect' => Matches(dir'[v], dir'[v].meta)
    PROVE  Order'
<1>1. ASSUME NEW w \in Versions, w # v
      PROVE  /\ w \notin litter' => dir'[w].zips \subseteq NamedBy(dir'[w].meta)
             /\ w \notin suspect' => Matches(dir'[w], dir'[w].meta)
    BY <1>1 DEF Order, InOrder, Keeps, Matches
<1>2. InOrder'
    BY <1>1 DEF InOrder
<1> QED
    BY <1>2 DEF Order, UploadPCs, DeletePCs

(* An upload stores its archive in a version that is in order.             *)
LEMMA StoreArtifactOrder ==
    ASSUME TypeOK, Order, NEW v \in Versions, NEW p \in Platforms, NEW c \in Contents,
           StoreArtifact(v, p, c)
    PROVE  Order'
<1>1. /\ \A w \in Versions \ {v} : dir'[w] = dir[w]
      /\ dir'[v].meta = dir[v].meta /\ dir'[v].sums = dir[v].sums /\ dir'[v].sig = dir[v].sig
      /\ dir'[v].zips = dir[v].zips \cup {<<p, c>>}
      /\ pc = "idle" /\ pc' = "putMeta" /\ req'.v = v /\ req'.p = p /\ req'.c = c
      /\ undo'.was = dir[v].meta[p] /\ (undo'.existed <=> <<p, c>> \in dir[v].zips)
      /\ suspect' = suspect /\ litter' = litter
    BY StoreArtifactEffect
<1>2. dir[v].meta \in MetaFiles
    BY DEF TypeOK, Dirs
<1>3. \A w \in Versions : /\ w \notin litter => dir[w].zips \subseteq NamedBy(dir[w].meta)
                          /\ w \notin suspect => Matches(dir[w], dir[w].meta)
    BY <1>1 DEF Order, InOrder, UploadPCs
<1>4. Before' = dir[v].meta
    BY <1>1, <1>2 DEF Before, MetaFiles
<1>5. UploadTidy'
  <2>1. v \notin litter /\ undo'.existed => dir[v].meta[p] = c
      BY <1>1, <1>3, NamedByHas
  <2> QED
      BY <1>1, <1>3, <2>1 DEF UploadTidy, Switched
<1>6. UploadLists'
    BY <1>1, <1>3, <1>4 DEF UploadLists, Matches
<1>7. InOrder'
    BY <1>1, <1>3 DEF InOrder, UploadPCs
<1> QED
    BY <1>1, <1>5, <1>6, <1>7 DEF Order, UploadPCs, DeletePCs

(* The metadata is switched to the new artifact.                           *)
LEMMA PutMetaOrder ==
    ASSUME IInv, Order, PutMeta
    PROVE  Order'
<1>1. TypeOK /\ pc = "putMeta" /\ pc' = "putSums" /\ pc \in UploadPCs /\ pc' \in UploadPCs
    BY DEF IInv, PutMeta, Goto, UploadPCs
<1>2. /\ req.v \in Versions /\ req.p \in Platforms /\ req.c \in Contents
      /\ dir[req.v].meta \in MetaFiles /\ dir[req.v].zips \in SUBSET Artifacts
    BY <1>1, UploadTypes DEF Dirs
<1>3. /\ \A w \in Versions \ {req.v} : dir'[w] = dir[w]
      /\ dir'[req.v].meta = [dir[req.v].meta EXCEPT ![req.p] = req.c]
      /\ dir'[req.v].zips = dir[req.v].zips
      /\ dir'[req.v].sums = dir[req.v].sums /\ dir'[req.v].sig = dir[req.v].sig
      /\ req' = req /\ suspect' = suspect
    BY <1>1, PutMetaEffect
<1>4. undo'.was = undo.was /\ undo'.existed = undo.existed
    BY DEF PutMeta, IInv, TypeOK, Undos
<1>5. req.v \notin litter' => req.v \notin litter /\ undo'.meta = dir[req.v].meta[req.p]
    BY DEF PutMeta, IInv, TypeOK, Undos
<1>6. \A w \in Versions \ {req.v} : w \in litter => w \in litter'
    BY DEF PutMeta
<1>7. Before' = Before
    BY <1>2, <1>3, <1>4 DEF Before, MetaFiles
<1>8. UploadTidy'
  <2> SUFFICES ASSUME req.v \notin litter'
               PROVE  /\ dir'[req.v].zips \subseteq NamedBy(dir'[req.v].meta) \cup {<<req.p, undo'.meta>>}
                      /\ undo'.existed => undo'.meta = req.c
      BY <1>1, <1>3 DEF UploadTidy, Unswitched
  <2>1. /\ dir[req.v].zips \subseteq NamedBy(dir[req.v].meta) \cup {<<req.p, req.c>>}
        /\ undo.existed => dir[req.v].meta[req.p] = req.c
      BY <1>1, <1>5 DEF Order, UploadTidy, Unswitched
  <2>2. dir[req.v].zips \subseteq NamedBy(dir'[req.v].meta) \cup {<<req.p, dir[req.v].meta[req.p]>>}
      BY <1>2, <1>3, <2>1, NamedSwitched
  <2> QED
      BY <1>3, <1>4, <1>5, <2>1, <2>2
<1>9. UploadLists'
    BY <1>1, <1>3, <1>7 DEF Order, UploadLists, Matches
<1> QED
    BY <1>1, <1>3, <1>6, <1>8, <1>9, UploadOrder DEF Keeps

(* Or put back.                                                            *)
LEMMA RestoreMetaOrder ==
    ASSUME IInv, Order, RestoreMeta
    PROVE  Order'
<1>1. TypeOK /\ pc = "restoreMeta" /\ pc' = "restoreSums" /\ pc \in UploadPCs /\ pc' \in UploadPCs
    BY DEF IInv, RestoreMeta, Goto, UploadPCs
<1>2. /\ req.v \in Versions /\ req.p \in Platforms /\ undo.meta \in Contents \cup {None}
      /\ dir[req.v].meta \in MetaFiles /\ dir[req.v].zips \in SUBSET Artifacts
    BY <1>1, UploadTypes DEF TypeOK, Undos, Dirs
<1>3. /\ \A w \in Versions \ {req.v} : dir'[w] = dir[w]
      /\ dir'[req.v].meta = [dir[req.v].meta EXCEPT ![req.p] = undo.meta]
      /\ dir'[req.v].zips = dir[req.v].zips
      /\ dir'[req.v].sums = dir[req.v].sums /\ dir'[req.v].sig = dir[req.v].sig
      /\ req' = req /\ suspect' = suspect
    BY <1>1, PutMetaEffect
<1>4. undo' = undo /\ litter' = litter
    BY DEF RestoreMeta, history
<1>5. Before' = Before
    BY <1>2, <1>3, <1>4 DEF Before, MetaFiles
<1>6. dir[req.v].meta[req.p] = req.c
    BY <1>1 DEF IInv, UploadSound, Switched
<1>7. UploadTidy'
  <2> SUFFICES ASSUME req.v \notin litter
               PROVE  /\ dir'[req.v].zips \subseteq NamedBy(dir'[req.v].meta) \cup {<<req.p, req.c>>}
                      /\ undo.existed => dir'[req.v].meta[req.p] = req.c
      BY <1>1, <1>3, <1>4 DEF UploadTidy, Switched
  <2>1. /\ dir[req.v].zips \subseteq NamedBy(dir[req.v].meta) \cup {<<req.p, undo.meta>>}
        /\ undo.existed => undo.meta = req.c
      BY <1>1 DEF Order, UploadTidy, Switched
  <2>2. dir[req.v].zips \subseteq NamedBy(dir'[req.v].meta) \cup {<<req.p, dir[req.v].meta[req.p]>>}
    <3>1. PICK m, n, Z, x, p : /\ m = dir[req.v].meta /\ n = dir'[req.v].meta /\ Z = dir[req.v].zips
                               /\ x = undo.meta /\ p = req.p
        OBVIOUS
    <3>2. /\ m \in MetaFiles /\ p \in Platforms /\ x \in Contents \cup {None}
          /\ Z \in SUBSET Artifacts /\ Z \subseteq NamedBy(m) \cup {<<p, x>>}
          /\ n = [m EXCEPT ![p] = x]
        BY <1>2, <1>3, <2>1, <3>1
    <3>3. Z \subseteq NamedBy(n) \cup {<<p, m[p]>>}
        BY <3>2, NamedSwitched
    <3> QED
        BY <3>1, <3>3
  <2>3. dir'[req.v].meta[req.p] = undo.meta
      BY <1>2, <1>3 DEF MetaFiles
  <2> QED
      BY <1>3, <1>6, <2>1, <2>2, <2>3
<1>8. UploadLists'
    BY <1>1, <1>3, <1>4, <1>5 DEF Order, UploadLists, UploadPCs
<1> QED
    BY <1>1, <1>3, <1>4, <1>7, <1>8, UploadOrder DEF Keeps

(* The handler moves on with what it remembers.                            *)
LEMMA MoveOrder ==
    ASSUME IInv, Order, PutMetaFails \/ PutSigFails \/ AddIndex \/ AddIndexFails
    PROVE  Order'
<1>1. TypeOK /\ pc \in {"putMeta", "putSig", "addIndex"} /\ req' = req /\ undo' = undo
    BY DEF IInv, PutMetaFails, PutSigFails, AddIndex, AddIndexFails, Goto
<1>2. pc' = CASE PutMetaFails -> "dropZip" [] AddIndex -> "dropOld" [] OTHER -> "restoreMeta"
    BY DEF PutMetaFails, PutSigFails, AddIndex, AddIndexFails, Goto
<1>3. (PutMetaFails <=> pc = "putMeta") /\ (AddIndex => pc = "addIndex")
    BY DEF PutMetaFails, PutSigFails, AddIndex, AddIndexFails
<1>4. pc \in UploadPCs /\ pc' \in UploadPCs
    BY <1>1, <1>2 DEF UploadPCs
<1>5. req.v \in Versions
    BY <1>1, <1>4, UploadTypes
<1>6. (\A w \in Versions : Keeps(w)) /\ suspect' = suspect /\ litter' = litter
    BY <1>1, MoveEffect
<1>7. /\ pc' \in Unswitched <=> pc \in Unswitched
      /\ pc' \in Switched <=> pc \in Switched
    BY <1>1, <1>2, <1>3 DEF Switched, Unswitched
<1>8. UploadTidy'
    BY <1>1, <1>4, <1>5, <1>6, <1>7 DEF Order, UploadTidy, Keeps
<1>9. Before' = Before
    BY <1>1, <1>5, <1>6 DEF Before, Keeps
<1>10. /\ dir'[req.v].meta = dir[req.v].meta /\ dir'[req.v].sums = dir[req.v].sums
       /\ dir'[req.v].sig = dir[req.v].sig
    BY <1>5, <1>6 DEF Keeps
<1>11. UploadLists
    BY <1>4 DEF Order
<1>12. UploadLists'
  <2>1. CASE PutMetaFails
      BY <1>1, <1>2, <1>3, <1>6, <1>9, <1>10, <1>11, <2>1 DEF UploadLists, Matches
  <2>2. CASE ~PutMetaFails
    <3>1. pc \in {"putSig", "addIndex"} /\ pc' \in {"restoreMeta", "dropOld"}
        BY <1>1, <1>2, <1>3, <2>2
    <3> QED
        BY <1>1, <1>6, <1>9, <1>10, <1>11, <3>1 DEF UploadLists, UploadPCs
  <2> QED
      BY <2>1, <2>2
<1> QED
    BY <1>1, <1>4, <1>6, <1>8, <1>12, UploadOrder

(* The list and its signature are remembered as they were, unless a read   *)
(* of them failed.                                                         *)
LEMMA RememberFields ==
    ASSUME TypeOK, NEW d, NEW L
    PROVE  /\ Remember(undo, d, L).sums = (IF "sums" \in L THEN {} ELSE d.sums)
           /\ Remember(undo, d, L).sig = (IF "sig" \in L THEN {} ELSE d.sig)
           /\ Remember(undo, d, L).whole <=> L = {}
           /\ Remember(undo, d, L).was = undo.was
           /\ Remember(undo, d, L).meta = undo.meta
           /\ Remember(undo, d, L).existed = undo.existed
<1>1. /\ Remember(undo, d, L).sums = (IF "sums" \in L THEN {} ELSE d.sums)
      /\ Remember(undo, d, L).sig = (IF "sig" \in L THEN {} ELSE d.sig)
      /\ Remember(undo, d, L).was = undo.was
      /\ Remember(undo, d, L).meta = undo.meta
      /\ Remember(undo, d, L).existed = undo.existed
    BY DEF Remember, TypeOK, Undos
<1>2. Remember(undo, d, L).whole <=> L = {}
    BY DEF Remember, TypeOK, Undos
<1> QED
    BY <1>1, <1>2

(* The rebuild of the list, or its failure, from an order that an upload   *)
(* has kept so far.                                                        *)
LEMMA PutSumsOrder ==
    ASSUME IInv, Order, PutSums \/ PutSumsFails
    PROVE  Order'
<1>1. TypeOK /\ pc = "putSums" /\ pc \in UploadPCs /\ req' = req /\ suspect' = suspect /\ litter' = litter
    BY DEF IInv, PutSums, PutSumsFails, Goto, history, UploadPCs
<1>2. pc' \in {"putSig", "restoreMeta"} /\ pc' \in UploadPCs
    BY DEF PutSums, PutSumsFails, Goto, UploadPCs
<1>3. PICK v : v = req.v
    OBVIOUS
<1>4. PICK d : d = dir[v]
    OBVIOUS
<1>5. v \in Versions /\ d \in Dirs /\ Sound(d) /\ dir \in [Versions -> Dirs]
    BY <1>1, <1>3, <1>4, UploadTypes DEF IInv, TypeOK
<1>6. PICK L, lost, R : /\ R = Remember(undo, d, L)
                        /\ \/ undo' = [R EXCEPT !.clean = Clean(d, lost)]
                           \/ undo' = R /\ pc' = "restoreMeta"
                        /\ \/ dir' = dir /\ pc' = "restoreMeta"
                           \/ /\ dir' = [dir EXCEPT ![v].sums = Entries(d, lost)]
                              /\ undo' = [R EXCEPT !.clean = Clean(d, lost)]
  <2>1. CASE PutSums
      BY <1>3, <1>4, <2>1 DEF PutSums, Goto
  <2>2. CASE PutSumsFails
      BY <1>3, <1>4, <2>2 DEF PutSumsFails, Goto, disk
  <2> QED
      BY <2>1, <2>2
<1>7. R \in Undos
    BY <1>1, <1>5, <1>6, RememberType DEF TypeOK
<1>8. /\ undo'.sums = R.sums /\ undo'.sig = R.sig /\ undo'.was = R.was /\ undo'.meta = R.meta
      /\ undo'.existed = R.existed
    BY <1>6, <1>7 DEF Undos
<1>9. undo'.whole <=> R.whole
    BY <1>6, <1>7 DEF Undos
<1>10. /\ \A w \in Versions \ {v} : dir'[w] = dir[w]
       /\ dir'[v].meta = d.meta /\ dir'[v].zips = d.zips
    BY <1>4, <1>5, <1>6 DEF Dirs
<1>11. pc' = "putSig" /\ undo'.clean => dir'[v].sums = NamedBy(d.meta)
  <2> SUFFICES ASSUME pc' = "putSig", undo'.clean PROVE dir'[v].sums = NamedBy(d.meta)
      OBVIOUS
  <2>1. dir' = [dir EXCEPT ![v].sums = Entries(d, lost)] /\ undo' = [R EXCEPT !.clean = Clean(d, lost)]
      BY <1>6
  <2>2. Clean(d, lost)
      BY <1>7, <2>1 DEF Undos
  <2>3. dir'[v].sums = Entries(d, lost)
      BY <1>4, <1>5, <2>1 DEF Dirs
  <2> QED
      BY <1>5, <2>2, <2>3, CleanEntries
<1>12. Before' = Before
    BY <1>1, <1>3, <1>4, <1>6, <1>8, <1>10, RememberFields DEF Before
<1>13. UploadTidy'
  <2>1. UploadTidy
      BY <1>1 DEF Order
  <2>2. undo'.meta = undo.meta /\ undo'.existed = undo.existed
      BY <1>1, <1>6, <1>8, RememberFields
  <2>3. pc \in Switched /\ pc' \in Switched /\ pc' \notin Unswitched
      BY <1>1, <1>2 DEF Switched, Unswitched
  <2> QED
      BY <1>1, <1>3, <1>4, <1>10, <2>1, <2>2, <2>3 DEF UploadTidy
<1>14. UploadLists'
  <2>1. v \notin suspect => d.sums = NamedBy(Before) /\ d.sig = d.sums
      BY <1>1, <1>3, <1>4 DEF Order, UploadLists, Matches
  <2>2. undo'.whole => undo'.sums = d.sums /\ undo'.sig = d.sig
      BY <1>1, <1>6, <1>8, <1>9, RememberFields
  <2> QED
      BY <1>1, <1>2, <1>3, <1>10, <1>11, <1>12, <2>1, <2>2 DEF UploadLists
<1> QED
    BY <1>1, <1>2, <1>3, <1>10, <1>13, <1>14, UploadOrder DEF Keeps

(* The list is signed, or the list and signature are put back: after one   *)
(* failure no second call fails.                                           *)
LEMMA SignOrder ==
    ASSUME MaxFaults <= 1, IInv, Order,
           PutSig \/ \E ok \in BOOLEAN : RestoreSums(ok) \/ RestoreSig(ok)
    PROVE  Order'
<1>1. TypeOK /\ pc \in {"putSig", "restoreSums", "restoreSig"} /\ pc \in UploadPCs
    BY DEF IInv, PutSig, RestoreSums, RestoredSums, RestoreSig, UploadPCs
<1>2. /\ req' = req /\ undo' = undo /\ suspect' = suspect /\ litter' = litter
    BY DEF PutSig, RestoreSums, RestoredSums, RestoreSig, Goto, history
<1>3. ~MayFail \/ PutSig
  <2>1. pc # "putSig" => faults # 0
      BY <1>1 DEF IInv, UndoesAfterFailure, Undoing
  <2>2. pc = "putSig" => PutSig
      BY DEF RestoreSums, RestoredSums, RestoreSig
  <2>3. faults # 0 => ~MayFail
      BY FaultAssumption DEF MayFail, IInv, TypeOK
  <2> QED
      BY <2>1, <2>2, <2>3
<1>4. /\ pc' = CASE pc = "putSig" -> "addIndex" [] pc = "restoreSums" -> "restoreSig"
                 [] pc = "restoreSig" -> "dropZip"
      /\ pc = "putSig" => dir' = [dir EXCEPT ![req.v].sig = dir[req.v].sums]
      /\ pc = "restoreSums" => dir' = [dir EXCEPT ![req.v].sums = undo.sums]
      /\ pc = "restoreSig" => dir' = [dir EXCEPT ![req.v].sig = undo.sig]
    BY <1>3 DEF PutSig, RestoreSums, RestoredSums, RestoreSig, RestoredSig, Goto
<1>5. pc' \in UploadPCs
    BY <1>1, <1>4 DEF UploadPCs
<1>6. req.v \in Versions /\ dir[req.v] \in Dirs /\ dir \in [Versions -> Dirs]
    BY <1>1, UploadTypes DEF TypeOK
<1>7. \A w \in Versions \ {req.v} : dir'[w] = dir[w]
    BY <1>1, <1>4, <1>6
<1>8. /\ dir'[req.v].meta = dir[req.v].meta /\ dir'[req.v].zips = dir[req.v].zips
      /\ dir'[req.v].sums = IF pc = "restoreSums" THEN undo.sums ELSE dir[req.v].sums
      /\ pc = "restoreSig" => dir'[req.v].sig = undo.sig
    BY <1>1, <1>4, <1>6 DEF Dirs
<1>9. /\ pc' \in Unswitched <=> pc \in Unswitched
      /\ pc' \in Switched <=> pc \in Switched
    BY <1>1, <1>4 DEF Switched, Unswitched
<1>10. UploadTidy'
    BY <1>1, <1>2, <1>8, <1>9 DEF Order, UploadTidy
<1>11. Before' = Before
    BY <1>2, <1>8 DEF Before
<1>12. UploadLists
    BY <1>1 DEF Order
<1>13. UploadLists'
  <2>1. CASE pc = "putSig"
      BY <1>2, <1>4, <1>8, <1>11, <1>12, <2>1 DEF UploadLists, UploadPCs
  <2>2. CASE pc = "restoreSums"
      BY <1>2, <1>4, <1>8, <1>11, <1>12, <2>2 DEF UploadLists, UploadPCs
  <2>3. CASE pc = "restoreSig"
      BY <1>2, <1>4, <1>8, <1>11, <1>12, <2>3 DEF UploadLists, UploadPCs, Matches
  <2> QED
      BY <1>1, <2>1, <2>2, <2>3
<1> QED
    BY <1>1, <1>2, <1>5, <1>7, <1>10, <1>13, UploadOrder DEF Keeps

(* An upload ends: the replaced artifact goes and the new list is that of  *)
(* the metadata ...                                                        *)
LEMMA DropOldOrder ==
    ASSUME IInv, Achieved, Order, NEW ok \in BOOLEAN, DropOld(ok)
    PROVE  Order'
<1>1. TypeOK /\ pc = "dropOld" /\ pc' = "idle" /\ pc \in UploadPCs
    BY DEF IInv, DropOld, Answer, UploadPCs
<1>2. /\ req.v \in Versions /\ req.p \in Platforms /\ dir[req.v].zips \in SUBSET Artifacts
    BY <1>1, UploadTypes DEF Dirs
<1>3. /\ \A w \in Versions \ {req.v} : dir'[w] = dir[w]
      /\ dir'[req.v].meta = dir[req.v].meta
      /\ dir'[req.v].sums = dir[req.v].sums /\ dir'[req.v].sig = dir[req.v].sig
      /\ ok => dir'[req.v].zips = dir[req.v].zips \ Replaced
    BY <1>1, <1>2, DropEffect
<1>4. /\ req.v \notin litter' => ok /\ req.v \notin litter
      /\ req.v \notin suspect' => undo.clean
      /\ \A w \in Versions \ {req.v} : /\ w \in litter => w \in litter'
                                       /\ w \in suspect => w \in suspect'
    BY DEF DropOld
<1>5. dir[req.v].meta[req.p] = req.c /\ dir[req.v].sig = dir[req.v].sums
    BY <1>1 DEF Achieved
<1>6. req.v \notin litter' => dir'[req.v].zips \subseteq NamedBy(dir'[req.v].meta)
  <2> SUFFICES ASSUME req.v \notin litter' PROVE dir'[req.v].zips \subseteq NamedBy(dir'[req.v].meta)
      OBVIOUS
  <2>1. dir[req.v].zips \subseteq NamedBy(dir[req.v].meta) \cup {<<req.p, undo.meta>>}
      BY <1>1, <1>4 DEF Order, UploadTidy, Switched
  <2>2. undo.meta = None \/ dir[req.v].meta[req.p] = undo.meta \/ <<req.p, undo.meta>> \in Replaced
      BY <1>5 DEF Replaced
  <2>3. PICK m, p, x, Z, W : /\ m = dir[req.v].meta /\ p = req.p /\ x = undo.meta
                             /\ Z = dir[req.v].zips /\ W = Replaced
      OBVIOUS
  <2>4. (Z \ W) \subseteq NamedBy(m)
    <3>1. /\ p \in Platforms /\ Z \in SUBSET Artifacts /\ Z \subseteq NamedBy(m) \cup {<<p, x>>}
          /\ x = None \/ m[p] = x \/ <<p, x>> \in W
        BY <1>2, <2>1, <2>2, <2>3
    <3> QED
        BY <3>1, NamedCleared
  <2> QED
      BY <1>3, <1>4, <2>3, <2>4
<1>7. req.v \notin suspect' => Matches(dir'[req.v], dir'[req.v].meta)
    BY <1>1, <1>3, <1>4, <1>5 DEF Order, UploadLists, Matches
<1> QED
    BY <1>1, <1>2, <1>3, <1>4, <1>6, <1>7, EndOrder DEF Keeps

(* ... or it has failed, its own artifact goes and the old list is back.   *)
LEMMA DropZipOrder ==
    ASSUME IInv, Order, NEW ok \in BOOLEAN, DropZip(ok)
    PROVE  Order'
<1>1. TypeOK /\ pc = "dropZip" /\ pc' = "idle" /\ pc \in UploadPCs
    BY DEF IInv, DropZip, Answer, UploadPCs
<1>2. /\ req.v \in Versions /\ req.p \in Platforms /\ dir[req.v].zips \in SUBSET Artifacts
      /\ dir[req.v].meta \in MetaFiles
    BY <1>1, UploadTypes DEF Dirs
<1>3. /\ \A w \in Versions \ {req.v} : dir'[w] = dir[w]
      /\ dir'[req.v].meta = dir[req.v].meta
      /\ dir'[req.v].sums = dir[req.v].sums /\ dir'[req.v].sig = dir[req.v].sig
      /\ ok => dir'[req.v].zips = dir[req.v].zips \ Withdrawn
    BY <1>1, <1>2, DropEffect
<1>4. /\ req.v \notin litter' => ok /\ req.v \notin litter
      /\ req.v \notin suspect' => undo.whole /\ req.v \notin suspect
      /\ \A w \in Versions \ {req.v} : /\ w \in litter => w \in litter'
                                       /\ w \in suspect => w \in suspect'
    BY DEF DropZip
<1>5. dir[req.v].meta[req.p] = undo.was
    BY <1>1 DEF IInv, UploadRemembers, Unswitched
<1>6. req.v \notin litter' => dir'[req.v].zips \subseteq NamedBy(dir'[req.v].meta)
  <2> SUFFICES ASSUME req.v \notin litter' PROVE dir'[req.v].zips \subseteq NamedBy(dir'[req.v].meta)
      OBVIOUS
  <2>1. /\ dir[req.v].zips \subseteq NamedBy(dir[req.v].meta) \cup {<<req.p, req.c>>}
        /\ undo.existed => dir[req.v].meta[req.p] = req.c
      BY <1>1, <1>4 DEF Order, UploadTidy, Unswitched
  <2>2. dir[req.v].meta[req.p] = req.c \/ <<req.p, req.c>> \in Withdrawn
      BY <2>1 DEF Withdrawn
  <2>3. PICK m, p, x, Z, W : /\ m = dir[req.v].meta /\ p = req.p /\ x = req.c
                             /\ Z = dir[req.v].zips /\ W = Withdrawn
      OBVIOUS
  <2>4. (Z \ W) \subseteq NamedBy(m)
    <3>1. /\ p \in Platforms /\ Z \in SUBSET Artifacts /\ Z \subseteq NamedBy(m) \cup {<<p, x>>}
          /\ x = None \/ m[p] = x \/ <<p, x>> \in W
        BY <1>2, <2>1, <2>2, <2>3
    <3> QED
        BY <3>1, NamedCleared
  <2> QED
      BY <1>3, <1>4, <2>3, <2>4
<1>7. Before = dir[req.v].meta
    BY <1>2, <1>5 DEF Before, MetaFiles
<1>8. req.v \notin suspect' => Matches(dir'[req.v], dir'[req.v].meta)
    BY <1>1, <1>3, <1>4, <1>7 DEF Order, UploadLists, Matches
<1> QED
    BY <1>1, <1>2, <1>3, <1>4, <1>6, <1>8, EndOrder DEF Keeps

(* A missing directory is in order.                                        *)
LEMMA NoDirInOrder == NoDir.zips = {} /\ Matches(NoDir, NoDir.meta)
BY NothingNamed DEF NoDir, Matches

(* A delete takes a version away.                                          *)
LEMMA StageDeleteOrder ==
    ASSUME TypeOK, Order, NEW v \in Versions, StageDelete(v)
    PROVE  Order'
<1>1. /\ \A w \in Versions \ {v} : dir'[w] = dir[w]
      /\ dir'[v] = NoDir /\ staged' = dir[v] /\ req'.v = v
      /\ pc = "idle" /\ pc' = "unindex" /\ suspect' = suspect /\ litter' = litter
    BY StageDeleteEffect
<1>2. \A w \in Versions : /\ w \notin litter => dir[w].zips \subseteq NamedBy(dir[w].meta)
                          /\ w \notin suspect => Matches(dir[w], dir[w].meta)
    BY <1>1 DEF Order, InOrder, UploadPCs
<1>3. dir'[v].zips = {} /\ Matches(dir'[v], dir'[v].meta)
    BY <1>1, NoDirInOrder
<1>4. \A w \in Versions : /\ w \notin litter' => dir'[w].zips \subseteq NamedBy(dir'[w].meta)
                          /\ w \notin suspect' => Matches(dir'[w], dir'[w].meta)
    BY <1>1, <1>2, <1>3
<1>5. InOrder'
    BY <1>4 DEF InOrder
<1>6. DeleteTidy'
    BY <1>1, <1>2, <1>3 DEF DeleteTidy
<1> QED
    BY <1>1, <1>5, <1>6 DEF Order, UploadPCs, DeletePCs

(* It goes on with the index ...                                           *)
LEMMA RemoveIndexOrder ==
    ASSUME TypeOK, Order, RemoveIndex \/ RemoveIndexFails
    PROVE  Order'
<1>1. /\ dir' = dir /\ pc = "unindex" /\ pc' \in {"commit", "rollback"}
      /\ UNCHANGED <<req, staged, suspect, litter>>
    BY DEF RemoveIndex, RemoveIndexFails, Goto, disk, history
<1>2. InOrder'
    BY <1>1 DEF Order, InOrder, UploadPCs
<1>3. DeleteTidy'
    BY <1>1 DEF Order, DeleteTidy, DeletePCs
<1> QED
    BY <1>1, <1>2, <1>3 DEF Order, UploadPCs

(* ... and ends with all or nothing.                                       *)
LEMMA DeleteEndOrder ==
    ASSUME TypeOK, Order, NEW ok \in BOOLEAN, Rollback(ok) \/ Commit(ok)
    PROVE  Order'
<1>1. /\ \A w \in Versions \ {req.v} : dir'[w] = dir[w]
      /\ dir'[req.v] = IF pc = "rollback" /\ ok THEN staged ELSE dir[req.v]
      /\ pc \in {"rollback", "commit"} /\ pc' = "idle" /\ req.v \in Versions
      /\ pc = "rollback" => suspect' = suspect /\ litter' = litter
      /\ pc = "commit" => suspect' = suspect \ {req.v} /\ litter' = litter \ {req.v}
    BY DeleteEndEffect
<1>2. DeleteTidy
    BY <1>1 DEF Order, DeletePCs
<1>3. /\ req.v \notin litter' => dir'[req.v].zips \subseteq NamedBy(dir'[req.v].meta)
      /\ req.v \notin suspect' => Matches(dir'[req.v], dir'[req.v].meta)
    BY <1>1, <1>2 DEF DeleteTidy
<1> QED
    BY <1>1, <1>3, EndOrder DEF UploadPCs, Keeps

(* A kill inside a request gives up its target and nothing else.           *)
LEMMA CrashOrder == ASSUME TypeOK, Order, Crash PROVE Order'
<1>1. /\ \A w \in Versions : Keeps(w)
      /\ pc' = "idle"
      /\ suspect' = (IF pc = "idle" THEN suspect ELSE suspect \cup {req.v})
      /\ litter' = (IF pc \in UploadPCs THEN litter \cup {req.v} ELSE litter)
    BY CrashEffect
<1>2. InOrder'
  <2> SUFFICES ASSUME NEW w \in Versions
               PROVE  /\ w \notin litter' => dir'[w].zips \subseteq NamedBy(dir'[w].meta)
                      /\ w \notin suspect' => Matches(dir'[w], dir'[w].meta)
      BY DEF InOrder
  <2>1. pc \in UploadPCs /\ w = req.v => w \in litter' /\ w \in suspect'
      BY <1>1 DEF UploadPCs
  <2>2. (w \notin litter' => w \notin litter) /\ (w \notin suspect' => w \notin suspect)
      BY <1>1
  <2>3. Keeps(w)
      BY <1>1
  <2> QED
      BY <2>1, <2>2, <2>3 DEF Order, InOrder, Keeps, Matches
<1> QED
    BY <1>1, <1>2 DEF Order, UploadPCs, DeletePCs

(* The rebuild at the start writes the list of the metadata, if its reads  *)
(* were clean, and no other version is concerned.                          *)
LEMMA RebuildSumsOrder ==
    ASSUME IInv, Order, NEW v \in Versions, RebuildSums(v)
    PROVE  Order'
<1>1. /\ TypeOK /\ pc = "idle" /\ pc' = "bootSig" /\ req'.v = v /\ litter' = litter
    BY DEF IInv, RebuildSums, Take, NoReq
<1>2. PICK d : d = dir[v]
    OBVIOUS
<1>3. PICK lost : /\ dir' = [dir EXCEPT ![v].sums = Entries(d, lost)]
                  /\ undo' = [undo EXCEPT !.clean = Clean(d, lost)]
                  /\ suspect' = IF Clean(d, lost) THEN suspect ELSE suspect \cup {v}
    BY <1>2 DEF RebuildSums
<1>4. d \in Dirs /\ Sound(d)
    BY <1>1, <1>2 DEF IInv, TypeOK
<1>5. undo'.clean <=> Clean(d, lost)
    BY <1>1, <1>3 DEF TypeOK, Undos
<1>6. /\ \A w \in Versions \ {v} : dir'[w] = dir[w]
      /\ dir'[v].meta = d.meta /\ dir'[v].zips = d.zips /\ dir'[v].sig = d.sig
      /\ dir'[v].sums = Entries(d, lost)
    BY <1>1, <1>2, <1>3 DEF TypeOK, Dirs
<1>7. Clean(d, lost) => dir'[v].sums = NamedBy(d.meta)
    BY <1>4, <1>6, CleanEntries
<1>8. \A w \in Versions : /\ w \notin litter => dir[w].zips \subseteq NamedBy(dir[w].meta)
                          /\ w \notin suspect => Matches(dir[w], dir[w].meta)
    BY <1>1 DEF Order, InOrder, UploadPCs
<1>9. ASSUME NEW w \in Versions
      PROVE  /\ w \notin litter' => dir'[w].zips \subseteq NamedBy(dir'[w].meta)
             /\ w \notin suspect' => Matches(dir'[w], dir'[w].meta)
  <2>1. CASE w = v
      BY <1>1, <1>2, <1>3, <1>6, <1>7, <1>8, <2>1 DEF Matches
  <2>2. CASE w # v
      BY <1>1, <1>3, <1>6, <1>8, <2>2
  <2> QED
      BY <2>1, <2>2
<1>10. InOrder'
    BY <1>9 DEF InOrder
<1> QED
    BY <1>1, <1>5, <1>6, <1>7, <1>10 DEF Order, UploadPCs, DeletePCs

(* It signs that list, or leaves the old signature.                        *)
LEMMA RebuildSigOrder ==
    ASSUME TypeOK, Order, NEW ok \in BOOLEAN, RebuildSig(ok)
    PROVE  Order'
<1>1. /\ pc = "bootSig" /\ pc' = "idle" /\ req.v \in Versions /\ litter' = litter
      /\ dir' = IF ok THEN [dir EXCEPT ![req.v].sig = dir[req.v].sums] ELSE dir
      /\ suspect' = IF ok /\ undo.clean THEN suspect \ {req.v} ELSE suspect
    BY DEF RebuildSig, Answer, TypeOK
<1>2. /\ \A w \in Versions \ {req.v} : dir'[w] = dir[w]
      /\ dir'[req.v].meta = dir[req.v].meta /\ dir'[req.v].zips = dir[req.v].zips
      /\ dir'[req.v].sums = dir[req.v].sums
      /\ dir'[req.v].sig = IF ok THEN dir[req.v].sums ELSE dir[req.v].sig
    BY <1>1 DEF TypeOK, Dirs
<1>3. /\ req.v \notin litter => dir[req.v].zips \subseteq NamedBy(dir[req.v].meta)
      /\ req.v \notin suspect => Matches(dir[req.v], dir[req.v].meta)
      /\ undo.clean => dir[req.v].sums = NamedBy(dir[req.v].meta)
    BY <1>1 DEF Order, InOrder, UploadPCs
<1>4. /\ req.v \notin litter' => dir'[req.v].zips \subseteq NamedBy(dir'[req.v].meta)
      /\ req.v \notin suspect' => Matches(dir'[req.v], dir'[req.v].meta)
    BY <1>1, <1>2, <1>3 DEF Matches
<1>5. \A w \in Versions \ {req.v} : w \in suspect => w \in suspect'
    BY <1>1
<1> QED
    BY <1>1, <1>2, <1>4, <1>5, EndOrder DEF UploadPCs, Keeps

(* Every step keeps the order.                                             *)
LEMMA OrderStep ==
    ASSUME MaxFaults <= 1 PROVE IInv /\ Achieved /\ Order /\ [Next]_vars => Order'
<1> SUFFICES ASSUME IInv, Achieved, Order, [Next]_vars PROVE Order'
    OBVIOUS
<1>1. TypeOK
    BY DEF IInv
<1>2. CASE \/ Refuse \/ Start \/ Listen \/ UNCHANGED vars
           \/ \E w \in Versions : StoreArtifactFails(w) \/ RebuildSumsFails(w)
           \/ \E w \in Versions, ok \in BOOLEAN : Deprecate(w, ok)
           \/ \E w \in Versions, q \in Platforms : CollectGarbage(w, q)
    BY <1>1, <1>2, IdleEffect, QuietOrder
<1>3. ~RestoreMetaFails
  <2>1. RestoreMetaFails => pc = "restoreMeta" /\ pc \in UploadPCs /\ MayFail
      BY DEF RestoreMetaFails, UploadPCs
  <2> QED
      BY <2>1, FaultAssumption DEF IInv, UndoesAfterFailure, Undoing, MayFail, TypeOK
<1> QED
    BY <1>1, <1>2, <1>3, StoreArtifactOrder, PutMetaOrder, RestoreMetaOrder, MoveOrder, PutSumsOrder,
       SignOrder, DropOldOrder, DropZipOrder, StageDeleteOrder, RemoveIndexOrder, DeleteEndOrder,
       CrashOrder, RebuildSumsOrder, RebuildSigOrder
    DEF Next, Upload, Restore, Delete, Startup

(* What Order needs is there in every behaviour.                           *)
LEMMA OrderHolds == ASSUME MaxFaults <= 1 PROVE Spec => [](IInv /\ Order)
<1>1. Init => Achieved
    BY DEF Init, Achieved
<1>2. Init => Order
    BY NoDirInOrder DEF Init, Order, InOrder, UploadPCs, DeletePCs
<1>3. IInv => TypeOK
    BY DEF IInv
<1> QED
    BY <1>1, <1>2, <1>3, AchievedStep, OrderStep, IInvHolds, PTL DEF Spec

(* Whatever is killed and whichever single storage call of a request       *)
(* fails, an upload that fails or replaces leaves no artifact behind that  *)
(* no metadata names, unless it was killed or its clean-up failed.         *)
THEOREM NeverOrphansArtifacts ==
    ASSUME MaxFaults <= 1 PROVE Spec => []NoOrphanArtifacts
<1>1. Order => NoOrphanArtifacts
    BY DEF Order, InOrder, NoOrphanArtifacts, Target, Named, NamedBy, UploadPCs
<1> QED
    BY <1>1, OrderHolds, PTL

(* Under the same assumption, the checksum list of every version at rest   *)
(* names exactly what its metadata publishes and is the list its signature *)
(* signs, unless a kill or a failed read has made the version suspect.     *)
THEOREM ChecksumsAlwaysMatchMetadata ==
    ASSUME MaxFaults <= 1 PROVE Spec => []ChecksumsMatchMetadata
<1>1. Order => ChecksumsMatchMetadata
    BY DEF Order, InOrder, ChecksumsMatchMetadata, Target, Named, NamedBy, Matches, UploadPCs
<1> QED
    BY <1>1, OrderHolds, PTL

-----------------------------------------------------------------------------
(* The files as a catalog *)

Cat == [v \in Versions |-> Visible(dir[v])]

(* Readers of a sound directory get what its metadata says.                *)
LEMMA Shown ==
    ASSUME NEW d \in Dirs, Sound(d)
    PROVE  Visible(d) = d.meta
<1>1. d.meta \in [Platforms -> Contents \cup {None}]
    BY DEF Dirs, MetaFiles
<1>2. \A p \in Platforms : Visible(d)[p] = d.meta[p]
    BY DEF Visible, Sound
<1>3. Visible(d) = [p \in Platforms |-> Visible(d)[p]]
    BY DEF Visible
<1> QED
    BY <1>1, <1>2, <1>3

(* So the catalog is the metadata, before and after every step.            *)
LEMMA CatIsMeta ==
    ASSUME IInv, IInv'
    PROVE  /\ Cat = [v \in Versions |-> dir[v].meta]
           /\ Cat' = [v \in Versions |-> dir'[v].meta]
           /\ \A v \in Versions : Visible(dir[v]) = dir[v].meta /\ Visible(dir'[v]) = dir'[v].meta
<1>1. \A v \in Versions : dir[v] \in Dirs /\ Sound(dir[v]) /\ dir'[v] \in Dirs /\ Sound(dir'[v])
    BY DEF IInv, TypeOK, Sound
<1>2. \A v \in Versions : Visible(dir[v]) = dir[v].meta /\ Visible(dir'[v]) = dir'[v].meta
    BY <1>1, Shown
<1> QED
    BY <1>2 DEF Cat

(* The request that the catalog sees, where the handler stands.            *)
Stage ==
    /\ pc \notin UploadPCs \cup DeletePCs => Request = Published!Nobody
    /\ pc \in UploadPCs => Request = Published!UploadOf(req.v, req.p, req.c, Before)
    /\ pc \in DeletePCs => Request = Published!DeleteOf(req.v, staged.meta)

(* It follows from where the handler stands.                               *)
LEMMA Stages == ASSUME IInv, IInv' PROVE Stage /\ Stage'
<1>1. pc \in UploadPCs => Visible(dir[req.v]) = dir[req.v].meta
    BY CatIsMeta, UploadTypes DEF IInv
<1>2. pc' \in UploadPCs => Visible(dir'[req'.v]) = dir'[req'.v].meta
  <2>1. pc' \in UploadPCs => req'.v \in Versions
      BY DEF IInv, TypeOK, UploadPCs
  <2> QED
      BY <2>1, CatIsMeta
<1>3. pc \in DeletePCs => Visible(staged) = staged.meta
    BY Shown DEF IInv, TypeOK
<1>4. pc' \in DeletePCs => Visible(staged') = staged'.meta
  <2>1. pc' \in DeletePCs => staged' \in Dirs /\ Sound(staged')
      BY DEF IInv, TypeOK, Sound
  <2> QED
      BY <2>1, Shown
<1>5. UploadPCs \cap DeletePCs = {}
    BY DEF UploadPCs, DeletePCs
<1>6. Stage
    BY <1>1, <1>3, <1>5 DEF Stage, Request, Before, NoFiles, Published!Nobody, Published!NoRow,
                            Published!UploadOf, Published!DeleteOf
<1>7. Stage'
    BY <1>2, <1>4, <1>5 DEF Stage, Request, Before, NoFiles, Published!Nobody, Published!NoRow,
                            Published!UploadOf, Published!DeleteOf
<1> QED
    BY <1>6, <1>7

(* A request is none, or an upload, or a delete.                           *)
LEMMA RequestKinds ==
    ASSUME NEW v, NEW p, NEW c, NEW old
    PROVE  /\ Published!UploadOf(v, p, c, old) # Published!Nobody
           /\ Published!DeleteOf(v, old) # Published!Nobody
           /\ Published!UploadOf(v, p, c, old).kind = "upload"
           /\ Published!UploadOf(v, p, c, old).v = v
           /\ Published!UploadOf(v, p, c, old).old = old
           /\ Published!DeleteOf(v, old).kind = "delete"
           /\ Published!DeleteOf(v, old).v = v
           /\ Published!DeleteOf(v, old).old = old
BY DEF Published!UploadOf, Published!DeleteOf, Published!Nobody

(* What an upload and a delete aim at.                                     *)
LEMMA Aims ==
    ASSUME NEW v, NEW p, NEW c, NEW old
    PROVE  /\ Published!Done(Published!UploadOf(v, p, c, old)) = [old EXCEPT ![p] = c]
           /\ Published!Done(Published!DeleteOf(v, old)) = NoFiles
<1>1. Published!Done(Published!DeleteOf(v, old)) = NoFiles
    BY DEF Published!Done, Published!DeleteOf, Published!NoRow, NoFiles
<1>2. Published!Done(Published!UploadOf(v, p, c, old)) = [old EXCEPT ![p] = c]
    BY DEF Published!Done, Published!UploadOf
<1> QED
    BY <1>1, <1>2

(* The catalog's steps in these terms: a request begins, ...               *)
LEMMA CatalogBegins ==
    ASSUME Request = Published!Nobody, answer' = "none", NEW v \in Versions, NEW b,
           \/ b = Published!DeleteOf(v, Cat[v])
           \/ \E p \in Platforms, c \in Contents : b = Published!UploadOf(v, p, c, Cat[v]),
           Request' = b,
           NEW row \in {b.old, Published!Done(b)}, Cat' = [Cat EXCEPT ![b.v] = row]
    PROVE  Published!Begin
<1>1. b \in Published!Requests(v)
    BY DEF Published!Requests, Cat
<1>2. Published!Shows(b)
    BY DEF Published!Shows, Cat
<1> QED
    BY <1>1, <1>2 DEF Published!Begin

(* ... shows its target as it was or as it shall be, ...                   *)
LEMMA CatalogWorks ==
    ASSUME Request # Published!Nobody, UNCHANGED <<Request, answer>>,
           NEW row \in {Request.old, Published!Done(Request)},
           Cat' = [Cat EXCEPT ![Request.v] = row]
    PROVE  Published!Work
BY DEF Published!Work, Published!Shows, Cat

(* ... succeeds, ...                                                       *)
LEMMA CatalogSucceeds ==
    ASSUME Request # Published!Nobody, Request' = Published!Nobody, answer' = "ok",
           Cat' = [Cat EXCEPT ![Request.v] = Published!Done(Request)]
    PROVE  Published!Succeed
BY DEF Published!Succeed, Cat

(* ... or fails.                                                           *)
LEMMA CatalogFails ==
    ASSUME Request # Published!Nobody, Request' = Published!Nobody, answer' = "error",
           NEW row, Cat' = [Cat EXCEPT ![Request.v] = row],
           row = Request.old \/ (Request.kind # "upload" /\ row = Published!Done(Request))
    PROVE  Published!Fail
BY DEF Published!Fail, Published!Shows, Cat

(* Steps that do not change what is published.                             *)
LEMMA CatalogStays ==
    ASSUME Cat' = Cat
    PROVE  /\ Request' = Published!Nobody /\ answer' = "none" => Published!Cut
           /\ Request = Published!Nobody /\ Request' = Request /\ answer' \in {"ok", "error"}
                 => Published!Other
           /\ Request' = Request /\ answer' = answer => UNCHANGED Published!vars
BY DEF Published!Cut, Published!Other, Published!vars, Cat

(* A change of the metadata of one version is a change of one row.         *)
LEMMA CatChanges ==
    ASSUME IInv, IInv', NEW v \in Versions,
           \A w \in Versions \ {v} : dir'[w].meta = dir[w].meta
    PROVE  /\ Cat' = [Cat EXCEPT ![v] = dir'[v].meta]
           /\ Cat[v] = dir[v].meta
           /\ dir'[v].meta = dir[v].meta => Cat' = Cat
BY CatIsMeta

(* The steps of an upload between its first and its last, and the rest of  *)
(* the requests that keep all metadata.                                    *)
LEMMA StutterRefines ==
    ASSUME IInv, IInv', \A w \in Versions : dir'[w].meta = dir[w].meta,
           UNCHANGED <<req, staged, answer>>,
           \/ pc \in UploadPCs /\ pc' \in UploadPCs /\ undo'.was = undo.was
           \/ pc \in DeletePCs /\ pc' \in DeletePCs
           \/ pc \notin UploadPCs \cup DeletePCs /\ pc' \notin UploadPCs \cup DeletePCs
    PROVE  UNCHANGED Published!vars
<1>1. Stage /\ Stage'
    BY Stages
<1>2. Cat' = Cat
    BY CatIsMeta
<1>3. Request' = Request
  <2>1. CASE pc \in UploadPCs /\ pc' \in UploadPCs /\ undo'.was = undo.was
    <3>1. req.v \in Versions
        BY <2>1, UploadTypes DEF IInv
    <3>2. Before' = Before
        BY <2>1, <3>1 DEF Before
    <3> QED
        BY <1>1, <2>1, <3>2 DEF Stage
  <2>2. CASE pc \in DeletePCs /\ pc' \in DeletePCs
      BY <1>1, <2>2 DEF Stage
  <2>3. CASE pc \notin UploadPCs \cup DeletePCs /\ pc' \notin UploadPCs \cup DeletePCs
      BY <1>1, <2>3 DEF Stage
  <2> QED
      BY <2>1, <2>2, <2>3
<1> QED
    BY <1>2, <1>3, CatalogStays

(* Steps outside of any request.                                           *)
LEMMA IdleRefines ==
    ASSUME IInv, IInv',
           \/ Refuse \/ Start \/ Listen \/ UNCHANGED vars
           \/ \E v \in Versions : StoreArtifactFails(v) \/ RebuildSumsFails(v)
           \/ \E v \in Versions, ok \in BOOLEAN : Deprecate(v, ok)
           \/ \E v \in Versions, p \in Platforms : CollectGarbage(v, p)
    PROVE  Published!Other \/ UNCHANGED Published!vars
<1>1. (\A w \in Versions : dir'[w].meta = dir[w].meta) /\ UNCHANGED <<pc, req, undo, staged>>
    BY IdleEffect DEF IInv, Keeps
<1>2. Stage /\ Stage' /\ Cat' = Cat
    BY <1>1, Stages, CatIsMeta
<1>3. CASE answer' = answer
    BY <1>1, <1>3, StutterRefines
<1>4. CASE answer' # answer
  <2>1. pc = "idle" /\ answer' \in {"ok", "error"}
      BY <1>4 DEF Refuse, Start, Listen, vars, StoreArtifactFails, RebuildSumsFails, Deprecate,
                  CollectGarbage, Free, process
  <2> QED
      BY <1>1, <1>2, <2>1, CatalogStays DEF Stage, UploadPCs, DeletePCs
<1> QED
    BY <1>3, <1>4

(* The kill of the server, and the rebuild at its start.                   *)
LEMMA CutRefines ==
    ASSUME IInv, IInv', \/ Crash \/ \E v \in Versions : RebuildSums(v)
                        \/ \E ok \in BOOLEAN : RebuildSig(ok)
    PROVE  Published!Cut
<1>1. \A w \in Versions : dir'[w].meta = dir[w].meta
    BY CrashEffect, ListEffect DEF IInv, Keeps
<1>2. pc' \in {"idle", "bootSig"} /\ answer' = "none"
    BY DEF Crash, RebuildSums, RebuildSig, Answer, Take
<1>3. Stage' /\ Cat' = Cat
    BY <1>1, Stages, CatIsMeta
<1> QED
    BY <1>2, <1>3, CatalogStays DEF Stage, UploadPCs, DeletePCs

(* An upload begins.                                                       *)
LEMMA StoreArtifactRefines ==
    ASSUME IInv, IInv', NEW v \in Versions, NEW p \in Platforms, NEW c \in Contents,
           StoreArtifact(v, p, c)
    PROVE  Published!Begin
<1>1. /\ \A w \in Versions : dir'[w].meta = dir[w].meta
      /\ pc = "idle" /\ pc' = "putMeta" /\ req'.v = v /\ req'.p = p /\ req'.c = c
      /\ undo'.was = dir[v].meta[p] /\ answer' = "none"
    BY StoreArtifactEffect DEF IInv
<1>2. Cat' = [Cat EXCEPT ![v] = dir[v].meta] /\ Cat[v] = dir[v].meta
    BY <1>1, CatChanges
<1>3. dir[v].meta \in MetaFiles
    BY DEF IInv, TypeOK, Dirs
<1>4. Before' = dir[v].meta
    BY <1>1, <1>3 DEF Before, MetaFiles
<1>5. PICK b : b = Published!UploadOf(v, p, c, Cat[v])
    OBVIOUS
<1>6. Request = Published!Nobody /\ Request' = b
    BY <1>1, <1>2, <1>4, <1>5, Stages DEF Stage, UploadPCs, DeletePCs
<1>7. b.v = v /\ b.old = dir[v].meta
    BY <1>2, <1>5, RequestKinds
<1> QED
    BY <1>1, <1>2, <1>5, <1>6, <1>7, CatalogBegins

(* It shows what was asked for, or what was before; and ends with the one  *)
(* or the other.                                                           *)
LEMMA UploadRefines ==
    ASSUME IInv, IInv', PutMeta \/ RestoreMeta \/ \E ok \in BOOLEAN : DropOld(ok) \/ DropZip(ok)
    PROVE  Published!Work \/ Published!Succeed \/ Published!Fail
<1>1. TypeOK /\ pc \in {"putMeta", "restoreMeta", "dropOld", "dropZip"} /\ pc \in UploadPCs
    BY DEF IInv, PutMeta, RestoreMeta, DropOld, DropZip, UploadPCs
<1>2. PICK v, p, c, m, old : /\ v = req.v /\ p = req.p /\ c = req.c /\ m = dir[req.v].meta
                             /\ old = Before
    OBVIOUS
<1>3. /\ v \in Versions /\ p \in Platforms /\ m \in MetaFiles /\ old = [m EXCEPT ![p] = undo.was]
    BY <1>1, <1>2, UploadTypes DEF Before
<1>4. PICK b : b = Published!UploadOf(v, p, c, old)
    OBVIOUS
<1>5. /\ b # Published!Nobody /\ b.kind = "upload" /\ b.v = v /\ b.old = old
      /\ Published!Done(b) = [old EXCEPT ![p] = c]
    BY <1>4, RequestKinds, Aims
<1>6. Request = b
    BY <1>1, <1>2, <1>4, Stages DEF Stage
<1>7. [old EXCEPT ![p] = c] = [m EXCEPT ![p] = c]
    BY <1>3 DEF MetaFiles
<1>8. ASSUME \A w \in Versions \ {v} : dir'[w].meta = dir[w].meta,
             NEW row, dir'[v].meta = row
      PROVE  Cat' = [Cat EXCEPT ![v] = row]
    BY <1>3, <1>8, CatChanges
<1>9. UploadSound /\ UploadRemembers
    BY <1>1 DEF IInv
<1>10. CASE PutMeta \/ RestoreMeta
  <2>1. /\ \A w \in Versions \ {v} : dir'[w].meta = dir[w].meta
        /\ dir'[v].meta = [m EXCEPT ![p] = IF pc = "putMeta" THEN c ELSE undo.meta]
        /\ req' = req /\ answer' = answer
      BY <1>1, <1>2, <1>10, PutMetaEffect
  <2>2. pc = "restoreMeta" => undo.meta = undo.was
      BY <1>9 DEF UploadRemembers, Switched
  <2>3. pc' \in UploadPCs /\ pc \in {"putMeta", "restoreMeta"}
      BY <1>10 DEF PutMeta, RestoreMeta, Goto, UploadPCs
  <2>4. undo'.was = undo.was
      BY <1>1, <1>10 DEF PutMeta, RestoreMeta, TypeOK, Undos
  <2>5. Before' = old
      BY <1>2, <1>3, <2>1, <2>4 DEF Before, MetaFiles
  <2>6. Request' = b
      BY <1>2, <1>4, <2>1, <2>3, <2>5, Stages DEF Stage
  <2>7. PICK row \in {b.old, Published!Done(b)} : dir'[v].meta = row
      BY <1>3, <1>5, <1>7, <2>1, <2>2, <2>3
  <2>8. Cat' = [Cat EXCEPT ![v] = row]
      BY <1>8, <2>1, <2>7
  <2> QED
      BY <1>5, <1>6, <2>1, <2>6, <2>8, CatalogWorks
<1>11. ASSUME NEW ok \in BOOLEAN, DropOld(ok) \/ DropZip(ok)
       PROVE  Published!Succeed \/ Published!Fail
  <2>1. /\ \A w \in Versions \ {v} : dir'[w].meta = dir[w].meta
        /\ dir'[v].meta = m
      BY <1>1, <1>2, <1>3, <1>11, DropEffect
  <2>2. /\ pc \in {"dropOld", "dropZip"} /\ pc' = "idle"
        /\ answer' = IF pc = "dropOld" THEN "ok" ELSE "error"
      BY <1>11 DEF DropOld, DropZip, Answer
  <2>3. Request' = Published!Nobody
      BY <2>2, Stages DEF Stage, UploadPCs, DeletePCs
  <2>4. Cat' = [Cat EXCEPT ![v] = m]
      BY <1>8, <2>1
  <2>5. CASE pc = "dropOld"
    <3>1. m[p] = c
        BY <1>2, <1>9, <2>5 DEF UploadSound, Switched
    <3>2. m = Published!Done(b)
        BY <1>3, <1>5, <1>7, <3>1 DEF MetaFiles
    <3> QED
        BY <1>5, <1>6, <2>2, <2>3, <2>4, <2>5, <3>2, CatalogSucceeds
  <2>6. CASE pc = "dropZip"
    <3>1. m[p] = undo.was
        BY <1>2, <1>9, <2>6 DEF UploadRemembers, Unswitched
    <3>2. m = b.old
        BY <1>3, <1>5, <3>1 DEF MetaFiles
    <3> QED
        BY <1>5, <1>6, <2>2, <2>3, <2>4, <2>6, <3>2, CatalogFails
  <2> QED
      BY <2>2, <2>5, <2>6
<1> QED
    BY <1>10, <1>11

(* A delete begins by hiding the version as a whole ...                    *)
LEMMA StageDeleteRefines ==
    ASSUME IInv, IInv', NEW v \in Versions, StageDelete(v)
    PROVE  Published!Begin
<1>1. /\ \A w \in Versions \ {v} : dir'[w] = dir[w]
      /\ dir'[v] = NoDir /\ staged' = dir[v] /\ req'.v = v
      /\ pc = "idle" /\ pc' = "unindex" /\ answer' = "none"
    BY StageDeleteEffect DEF IInv
<1>2. Cat' = [Cat EXCEPT ![v] = NoFiles] /\ Cat[v] = dir[v].meta
  <2>1. dir'[v].meta = NoFiles
      BY <1>1 DEF NoDir
  <2> QED
      BY <1>1, <2>1, CatChanges
<1>3. PICK b : b = Published!DeleteOf(v, Cat[v])
    OBVIOUS
<1>4. Request = Published!Nobody /\ Request' = b
    BY <1>1, <1>2, <1>3, Stages DEF Stage, UploadPCs, DeletePCs
<1>5. b.v = v /\ Published!Done(b) = NoFiles
    BY <1>3, RequestKinds, Aims
<1> QED
    BY <1>1, <1>2, <1>3, <1>4, <1>5, CatalogBegins

(* ... and ends with it hidden, or shown again as a whole.                 *)
LEMMA DeleteEndRefines ==
    ASSUME IInv, IInv', Order, NEW ok \in BOOLEAN, Rollback(ok) \/ Commit(ok)
    PROVE  Published!Succeed \/ Published!Fail
<1>1. /\ \A w \in Versions \ {req.v} : dir'[w] = dir[w]
      /\ dir'[req.v] = IF pc = "rollback" /\ ok THEN staged ELSE dir[req.v]
      /\ pc \in {"rollback", "commit"} /\ pc' = "idle" /\ req.v \in Versions
      /\ pc = "rollback" => answer' = "error"
      /\ pc = "commit" => answer' \in {"ok", "error"}
    BY DeleteEndEffect DEF IInv
<1>2. pc \in DeletePCs
    BY <1>1 DEF DeletePCs
<1>3. dir[req.v].meta = NoFiles
  <2>1. dir[req.v].zips = {} /\ Sound(dir[req.v]) /\ dir[req.v].meta \in MetaFiles
      BY <1>1, <1>2 DEF Order, DeleteTidy, IInv, TypeOK, Dirs
  <2>2. \A p \in Platforms : dir[req.v].meta[p] = None
      BY <2>1 DEF Sound
  <2> QED
      BY <2>1, <2>2 DEF MetaFiles, NoFiles
<1>4. PICK v, old : v = req.v /\ old = staged.meta
    OBVIOUS
<1>5. PICK b : b = Published!DeleteOf(v, old)
    OBVIOUS
<1>6. Request = b /\ Request' = Published!Nobody
    BY <1>1, <1>2, <1>4, <1>5, Stages DEF Stage, UploadPCs, DeletePCs
<1>7. /\ b # Published!Nobody /\ b.kind = "delete" /\ b.v = v /\ b.old = old
      /\ Published!Done(b) = NoFiles
    BY <1>5, RequestKinds, Aims
<1>8. PICK row : row = dir'[v].meta
    OBVIOUS
<1>9. Cat' = [Cat EXCEPT ![v] = row]
    BY <1>1, <1>4, <1>8, CatChanges
<1>10. CASE pc = "commit"
  <2>1. row = NoFiles
      BY <1>1, <1>3, <1>4, <1>8, <1>10
  <2>2. answer' = "ok" => Published!Succeed
      BY <1>6, <1>7, <1>9, <2>1, CatalogSucceeds
  <2>3. answer' = "error" => Published!Fail
      BY <1>6, <1>7, <1>9, <2>1, CatalogFails
  <2> QED
      BY <1>1, <1>10, <2>2, <2>3
<1>11. CASE pc = "rollback"
  <2>1. row = old \/ row = NoFiles
      BY <1>1, <1>3, <1>4, <1>8
  <2> QED
      BY <1>1, <1>6, <1>7, <1>9, <1>11, <2>1, CatalogFails
<1> QED
    BY <1>1, <1>10, <1>11

(* uploadProviderHandler, deleteProviderVersionHandler and                 *)
(* deprecateProviderHandler, the start and the garbage collection, with    *)
(* kills at any step and any one storage call of a request failing,        *)
(* implement Catalog: what is published of a version changes in one step,  *)
(* a 200 comes with what was asked for, a failed upload with what was.     *)
THEOREM AlwaysPublishesAtomically ==
    ASSUME MaxFaults <= 1 PROVE Spec => PublishesAtomically
<1>1. Init => Published!Init
  <2> SUFFICES ASSUME Init PROVE Published!Init
      OBVIOUS
  <2>1. \A v \in Versions : Visible(dir[v]) \in [Platforms -> Contents \cup {None}]
      BY DEF Init, Visible, NoDir, NoFiles
  <2>2. Request = Published!Nobody
      BY DEF Init, Request, UploadPCs, DeletePCs, Published!Nobody, Published!NoRow, NoFiles
  <2> QED
      BY <2>1, <2>2 DEF Init, Published!Init
<1>2. IInv /\ Order /\ IInv' /\ [Next]_vars => [Published!Next]_(Published!vars)
  <2> SUFFICES ASSUME IInv, Order, IInv', [Next]_vars
               PROVE  Published!Next \/ UNCHANGED Published!vars
      OBVIOUS
  <2>1. CASE \/ PutMetaFails \/ PutSumsFails \/ PutSigFails \/ AddIndex \/ AddIndexFails
             \/ RestoreMetaFails \/ RemoveIndex \/ RemoveIndexFails
    <3>1. /\ \A w \in Versions : dir'[w].meta = dir[w].meta
          /\ UNCHANGED <<req, staged, answer>> /\ undo'.was = undo.was
        BY <2>1, MoveEffect DEF IInv, Keeps
    <3>2. \/ pc \in UploadPCs /\ pc' \in UploadPCs
          \/ pc \in DeletePCs /\ pc' \in DeletePCs
        BY <2>1 DEF PutMetaFails, PutSumsFails, PutSigFails, AddIndex, AddIndexFails,
                    RestoreMetaFails, RemoveIndex, RemoveIndexFails, Goto, UploadPCs, DeletePCs
    <3> QED
        BY <3>1, <3>2, StutterRefines
  <2>2. CASE PutSums \/ PutSig \/ \E ok \in BOOLEAN : RestoreSums(ok) \/ RestoreSig(ok)
    <3>1. \A w \in Versions : dir'[w].meta = dir[w].meta
        BY <2>2, ListEffect DEF IInv
    <3>2. pc \in UploadPCs /\ pc' \in UploadPCs /\ UNCHANGED <<req, staged, answer>>
        BY <2>2 DEF PutSums, PutSig, RestoreSums, RestoredSums, RestoreSig, Goto, UploadPCs
    <3>3. undo'.was = undo.was
      <4>1. CASE PutSums
        <5>1. PICK L, x : undo' = [Remember(undo, dir[req.v], L) EXCEPT !.clean = x]
            BY <4>1 DEF PutSums
        <5> QED
            BY <5>1 DEF Remember, IInv, TypeOK, Undos
      <4>2. CASE ~PutSums
          BY <2>2, <4>2 DEF PutSig, RestoreSums, RestoredSums, RestoreSig
      <4> QED
          BY <4>1, <4>2
    <3> QED
        BY <3>1, <3>2, <3>3, StutterRefines
  <2> QED
      BY <2>1, <2>2, IdleRefines, CutRefines, StoreArtifactRefines, UploadRefines,
         StageDeleteRefines, DeleteEndRefines
      DEF Next, Upload, Restore, Delete, Startup, Published!Next
<1> QED
    BY <1>1, <1>2, OrderHolds, PTL DEF Spec, PublishesAtomically, Published!Spec
=============================================================================

------------------------ MODULE ProviderSessionProofs ------------------------
(***************************************************************************)
(* Proofs about ProviderSession: what clients install was published, and   *)
(* undisturbed clients succeed, for every number of clients, versions,     *)
(* platforms and contents.                                                 *)
(***************************************************************************)
EXTENDS ProviderSession, ProviderRegistryProofs

-----------------------------------------------------------------------------
(* What the registry owes its readers, on top of IInv and Order *)

(* Only a version that a kill has made suspect holds a complete temporary  *)
(* metadata file, which GetProviderPlatforms would prefer.                 *)
NoLeftovers ==
    /\ \A v \in Versions : v \notin suspect => dir[v].tmp = NoFiles
    /\ pc \in DeletePCs => /\ dir[req.v].tmp = NoFiles
                           /\ req.v \notin suspect => staged.tmp = NoFiles
    /\ pc \in {"putSig", "addIndex", "dropOld", "bootSig"} /\ undo.clean =>
          dir[req.v].tmp = NoFiles

(* While an upload replaces the list and the signature of a version that   *)
(* had them, there always are a list and a signature to read.              *)
AlwaysSigned ==
    pc \in UploadPCs \ {"putMeta", "putSums"} /\ req.v \notin suspect /\ undo.whole /\ NamedBy(Before) # {}
        => dir[req.v].sums # {} /\ dir[req.v].sig # {}

Registry == IInv /\ Achieved /\ Order /\ NoLeftovers /\ AlwaysSigned

-----------------------------------------------------------------------------
(* Where a session stands *)

(* It is at read j of request i of a client of kind k.                     *)
Place(k, i, j) == i \in 1..Len(Requests[k]) /\ j \in 1..Len(Requests[k][i])

OnItsWay(e) == Place(e.kind, e.request, e.step)

At(e) == Requests[e.kind][e.request][e.step]

(* The handler has read the metadata file and told the client its content. *)
ToldBy(k, i, j) ==
    \/ k = "pull" /\ (i > 1 \/ j > 1)
    \/ k = "terraform" /\ (i > 2 \/ (i = 2 /\ j > 1))
    \/ k = "mirror" /\ (i > 2 \/ (i = 2 /\ j > 5))

Told(e) == ToldBy(e.kind, e.request, e.step)

SessionRecords ==
    [state : {"idle", "installed", "failed"} \cup Active, kind : Kinds,
     v : Versions \cup {None}, p : Platforms \cup {None}, request : Nat, step : Nat,
     listed : SUBSET BOOLEAN, content : Contents \cup {None}, sums : SUBSET Artifacts, trusted : BOOLEAN,
     bytes : Contents \cup {None}, seen : SUBSET (Contents \cup {None}), calm : BOOLEAN]

(* What a client is told, receives and installs has been published since   *)
(* it began.                                                               *)
Faithful(e) ==
    /\ e.state \in Active =>
          /\ e.v \in Versions /\ e.p \in Platforms
          /\ Visible(dir[e.v])[e.p] \in e.seen
          /\ e.state = "reading" => OnItsWay(e)
          /\ (e.state = "reading" => Told(e)) => e.content \in e.seen \ {None}
    /\ e.state = "received" => e.bytes \in {e.content, None}
    /\ e.state = "verified" => e.bytes = e.content
    /\ e.state = "installed" => e.bytes \in e.seen \ {None}

(* A calm session has got what was promised so far.                        *)
Calm(e) ==
    e.calm =>
        /\ e.state \in Active
        /\ acked[e.v][e.p] # None
        /\ ~Disturbed(e.kind, e.v, e.p)
        /\ (e.state = "reading" => Told(e) \/ At(e) = "artifact") => e.content = acked[e.v][e.p]
        /\ e.state = "reading" /\ At(e) = "platforms" => e.listed = {TRUE}
        /\ e.state = "reading" /\ At(e) = "getSignature" => e.sums = dir[e.v].sums
        /\ e.kind = "terraform" /\ (e.state = "reading" => At(e) = "getArchive") => e.trusted
        /\ e.state # "reading" => e.bytes = e.content

SessionInv ==
    /\ Registry
    /\ session \in [Sessions -> SessionRecords]
    /\ \A s \in Sessions : Faithful(session[s]) /\ Calm(session[s])

-----------------------------------------------------------------------------
(* The registry keeps what it owes *)

(* Only a kill leaves a temporary metadata file, and only a rollback       *)
(* brings one back.                                                        *)
LEMMA TmpStep ==
    ASSUME TypeOK, [Next]_vars, ~Crash, ~\E ok \in BOOLEAN : Rollback(ok),
           NEW w \in Versions, dir[w].tmp = NoFiles
    PROVE  dir'[w].tmp = NoFiles
<1>1. dir \in [Versions -> Dirs] /\ (pc # "idle" => req.v \in Versions)
    BY DEF TypeOK
<1>2. ASSUME NEW v \in Versions, NEW d, d.tmp = dir[v].tmp, dir' = [dir EXCEPT ![v] = d]
      PROVE  dir'[w].tmp = NoFiles
    BY <1>1, <1>2
<1>3. CASE Refuse \/ Start \/ Listen \/ UNCHANGED vars \/ PutSumsFails \/ PutSigFails \/ AddIndex
           \/ AddIndexFails \/ RemoveIndex \/ RemoveIndexFails
           \/ (\E v \in Versions : RebuildSumsFails(v)) \/ (\E ok \in BOOLEAN : Commit(ok))
  <2>1. dir' = dir
      BY <1>3 DEF Refuse, Start, Listen, vars, PutSumsFails, PutSigFails, AddIndex, AddIndexFails,
                  RemoveIndex, RemoveIndexFails, RebuildSumsFails, Commit, disk
  <2> QED
      BY <2>1
<1>4. ASSUME NEW v \in Versions, NEW p \in Platforms, NEW c \in Contents, StoreArtifact(v, p, c)
      PROVE  dir'[w].tmp = NoFiles
  <2>1. WithZip(dir[v], <<p, c>>).tmp = dir[v].tmp
      BY <1>1 DEF WithZip, Dirs
  <2> QED
      BY <1>2, <1>4, <2>1 DEF StoreArtifact
<1>5. ASSUME NEW v \in Versions, \/ StoreArtifactFails(v) \/ RebuildSums(v)
                                 \/ \E ok \in BOOLEAN : Deprecate(v, ok)
      PROVE  dir'[w].tmp = NoFiles
  <2>1. CASE StoreArtifactFails(v)
      BY <1>1, <2>1 DEF StoreArtifactFails, Dirs
  <2>2. CASE RebuildSums(v)
    <3>1. PICK E : dir' = [dir EXCEPT ![v].sums = E]
        BY <2>2 DEF RebuildSums
    <3> QED
        BY <1>1, <3>1 DEF Dirs
  <2>3. ASSUME NEW ok \in BOOLEAN, Deprecate(v, ok) PROVE dir'[w].tmp = NoFiles
    <3>1. PICK x : dir' = [dir EXCEPT ![v] = [dir[v] EXCEPT !.exists = TRUE, !.deprecated = x]]
        BY <2>3 DEF Deprecate
    <3> QED
        BY <1>1, <3>1 DEF Dirs
  <2> QED
      BY <1>5, <2>1, <2>2, <2>3
<1>6. CASE PutMeta \/ RestoreMeta \/ PutMetaFails \/ RestoreMetaFails
  <2>1. pc \in UploadPCs
      BY <1>6 DEF PutMeta, RestoreMeta, PutMetaFails, RestoreMetaFails, UploadPCs
  <2>2. req.v \in Versions /\ req.p \in Platforms /\ dir[req.v] \in Dirs /\ dir[req.v].tmp \in MetaFiles
      BY <2>1, UploadTypes
  <2>3. PICK d : /\ dir' = [dir EXCEPT ![req.v] = d] \/ dir' = dir
                 /\ d.tmp = dir[req.v].tmp \/ d.tmp = [dir[req.v].tmp EXCEPT ![req.p] = None]
    <3>1. ASSUME NEW x, NEW d \in {PutMetaFile(dir[req.v], req.p, x), [dir[req.v] EXCEPT !.meta[req.p] = x]}
                                 \cup FailedPut(dir[req.v], req.p)
          PROVE  d.tmp = dir[req.v].tmp \/ d.tmp = [dir[req.v].tmp EXCEPT ![req.p] = None]
        BY <2>2 DEF PutMetaFile, FailedPut, Dirs
    <3>2. \E x : \E d \in {PutMetaFile(dir[req.v], req.p, x), [dir[req.v] EXCEPT !.meta[req.p] = x]}
                            \cup FailedPut(dir[req.v], req.p) :
              dir' = [dir EXCEPT ![req.v] = d] \/ dir' = dir
        BY <1>6 DEF PutMeta, RestoreMeta, RestoredMeta, PutMetaFails, RestoreMetaFails
    <3> QED
        BY <3>1, <3>2
  <2>4. [NoFiles EXCEPT ![req.p] = None] = NoFiles
      BY <2>2 DEF NoFiles
  <2> QED
      BY <1>1, <2>2, <2>3, <2>4
<1>7. CASE PutSums \/ PutSig \/ \E ok \in BOOLEAN : RestoreSums(ok) \/ RestoreSig(ok) \/ RebuildSig(ok)
  <2>1. pc # "idle"
      BY <1>7 DEF PutSums, PutSig, RestoreSums, RestoredSums, RestoreSig, RebuildSig
  <2>2. PICK x : dir' = dir \/ dir' = [dir EXCEPT ![req.v].sums = x] \/ dir' = [dir EXCEPT ![req.v].sig = x]
    <3>1. CASE PutSums
        BY <3>1 DEF PutSums
    <3>2. CASE ~PutSums
        BY <1>7, <3>2 DEF PutSig, RestoreSums, RestoredSums, RestoreSig, RestoredSig, RebuildSig
    <3> QED
        BY <3>1, <3>2
  <2> QED
      BY <1>1, <2>1, <2>2 DEF Dirs
<1>8. ASSUME NEW ok \in BOOLEAN, DropOld(ok) \/ DropZip(ok) PROVE dir'[w].tmp = NoFiles
  <2>1. pc # "idle"
      BY <1>8 DEF DropOld, DropZip
  <2>2. PICK f, Z : /\ f = WithoutZips(dir[req.v], Z)
                    /\ dir' \in {dir, [dir EXCEPT ![req.v] = f], [dir EXCEPT ![req.v] = Prune(f)]}
      BY <1>8 DEF DropOld, DropZip
  <2>3. f \in Dirs /\ f.tmp = dir[req.v].tmp
      BY <1>1, <2>1, <2>2 DEF WithoutZips, Dirs
  <2>4. Prune(f).tmp = f.tmp
    <3>1. PICK g : g = [f EXCEPT !.exists = FALSE]
        OBVIOUS
    <3>2. g.tmp = f.tmp
        BY <2>3, <3>1 DEF Dirs
    <3> QED
        BY <3>1, <3>2 DEF Prune
  <2> QED
      BY <1>1, <2>1, <2>2, <2>3, <2>4
<1>9. ASSUME NEW v \in Versions, StageDelete(v) PROVE dir'[w].tmp = NoFiles
  <2>1. NoDir.tmp = NoFiles
      BY DEF NoDir
  <2> QED
      BY <1>1, <1>9, <2>1 DEF StageDelete
<1>10. ASSUME NEW v \in Versions, NEW p \in Platforms, CollectGarbage(v, p)
       PROVE  dir'[w].tmp = NoFiles
    BY <1>1, <1>10 DEF CollectGarbage, Dirs, MetaFiles, NoFiles
<1> QED
    BY <1>3, <1>4, <1>5, <1>6, <1>7, <1>8, <1>9, <1>10 DEF Next, Upload, Restore, Delete, Startup

(* How a step may change where the handler stands and what is suspect.     *)
LEMMA HandlerMoves ==
    ASSUME TypeOK, [Next]_vars, ~Crash
    PROVE  /\ pc' \in DeletePCs => \/ \E v \in Versions : StageDelete(v)
                                   \/ pc \in DeletePCs /\ UNCHANGED <<req, staged, suspect>>
           /\ pc' \in {"putSig", "addIndex", "dropOld", "bootSig"} =>
                 \/ PutSums \/ \E v \in Versions : RebuildSums(v)
                 \/ /\ pc \in {"putSig", "addIndex", "dropOld", "bootSig"}
                    /\ UNCHANGED <<req, undo>>
           /\ \A w \in suspect \ suspect' :
                 /\ w = req.v
                 /\ pc = "commit" \/ (pc \in {"dropOld", "bootSig"} /\ undo.clean)
<1> USE DEF DeletePCs
<1>1. CASE \/ Refuse \/ Start \/ Listen \/ UNCHANGED vars
           \/ \E v \in Versions : StoreArtifactFails(v) \/ RebuildSumsFails(v)
           \/ \E v \in Versions, ok \in BOOLEAN : Deprecate(v, ok)
           \/ \E v \in Versions, p \in Platforms : CollectGarbage(v, p)
  <2>1. UNCHANGED <<pc, req, undo, staged, suspect>>
      BY <1>1, IdleEffect
  <2> QED
      BY <2>1
<1>2. CASE PutMetaFails \/ PutSumsFails \/ PutSigFails \/ AddIndex \/ AddIndexFails
           \/ RestoreMetaFails \/ RemoveIndex \/ RemoveIndexFails \/ PutMeta \/ PutSig \/ RestoreMeta
    BY <1>2 DEF PutMetaFails, PutSumsFails, PutSigFails, AddIndex, AddIndexFails, RestoreMetaFails,
                RemoveIndex, RemoveIndexFails, PutMeta, PutSig, RestoreMeta, Goto, history
<1>3. CASE PutSums \/ \E v \in Versions : RebuildSums(v)
  <2>1. pc' \in {"putSig", "restoreMeta", "bootSig"} /\ suspect \subseteq suspect'
      BY <1>3 DEF PutSums, RebuildSums, Goto, Take, history
  <2> QED
      BY <1>3, <2>1
<1>4. CASE \E ok \in BOOLEAN : RestoreSums(ok) \/ RestoreSig(ok) \/ DropOld(ok) \/ DropZip(ok)
                               \/ Rollback(ok) \/ Commit(ok) \/ RebuildSig(ok)
    BY <1>4 DEF RestoreSums, RestoredSums, RestoreSig, DropOld, DropZip, Rollback, Commit, RebuildSig, Goto,
                Answer, history
<1>5. CASE \E v \in Versions, p \in Platforms, c \in Contents : StoreArtifact(v, p, c)
    BY <1>5 DEF StoreArtifact, Take, history
<1>6. CASE \E v \in Versions : StageDelete(v)
    BY <1>6 DEF StageDelete, Take, history
<1> QED
    BY <1>1, <1>2, <1>3, <1>4, <1>5, <1>6 DEF Next, Upload, Restore, Delete, Startup

(* Every step keeps temporary files out of the versions that are not       *)
(* suspect.                                                                *)
LEMMA NoLeftoversStep ==
    ASSUME TypeOK, NoLeftovers, [Next]_vars
    PROVE  NoLeftovers'
<1>1. CASE Crash
  <2>1. pc' = "idle" /\ suspect' = (IF pc = "idle" THEN suspect ELSE suspect \cup {req.v})
      BY <1>1, CrashEffect
  <2>2. \A w \in Versions : dir'[w] = dir[w] \/ (pc # "idle" /\ w = req.v)
    <3>1. CASE BeingPut = None
        BY <1>1, <3>1 DEF Crash
    <3>2. CASE BeingPut # None
      <4>1. pc # "idle"
          BY <3>2 DEF BeingPut
      <4>2. PICK t : dir' = [dir EXCEPT ![req.v].tmp[req.p] = t]
          BY <1>1, <3>2 DEF Crash
      <4> QED
          BY <4>1, <4>2 DEF TypeOK
    <3> QED
        BY <3>1, <3>2
  <2>3. \A w \in Versions : w \notin suspect' => w \notin suspect /\ dir'[w] = dir[w]
      BY <2>1, <2>2
  <2> QED
      BY <2>1, <2>3 DEF NoLeftovers, DeletePCs
<1>2. CASE \E ok \in BOOLEAN : Rollback(ok)
  <2>1. PICK ok \in BOOLEAN : Rollback(ok)
      BY <1>2
  <2>2. pc = "rollback" /\ pc' = "idle" /\ suspect' = suspect /\ req.v \in Versions
      BY <2>1, DeleteEndEffect DEF Rollback
  <2>3. /\ \A w \in Versions \ {req.v} : dir'[w] = dir[w]
        /\ dir'[req.v] \in {staged, dir[req.v]}
      BY <2>1, DeleteEndEffect
  <2> QED
      BY <2>2, <2>3 DEF NoLeftovers, DeletePCs
<1>3. CASE ~Crash /\ ~\E ok \in BOOLEAN : Rollback(ok)
  <2>1. \A w \in Versions : dir[w].tmp = NoFiles => dir'[w].tmp = NoFiles
      BY <1>3, TmpStep
  <2>2. \A v \in Versions : v \notin suspect' => dir'[v].tmp = NoFiles
    <3> SUFFICES ASSUME NEW v \in Versions, v \notin suspect' PROVE dir[v].tmp = NoFiles
        BY <2>1
    <3>1. CASE v \notin suspect
        BY <3>1 DEF NoLeftovers
    <3>2. CASE v \in suspect
      <4>1. v = req.v /\ (pc = "commit" \/ (pc \in {"dropOld", "bootSig"} /\ undo.clean))
          BY <1>3, <3>2, HandlerMoves
      <4> QED
          BY <4>1 DEF NoLeftovers, DeletePCs
    <3> QED
        BY <3>1, <3>2
  <2>3. pc' \in DeletePCs => /\ dir'[req'.v].tmp = NoFiles
                             /\ req'.v \notin suspect' => staged'.tmp = NoFiles
    <3> SUFFICES ASSUME pc' \in DeletePCs
                 PROVE  /\ dir'[req'.v].tmp = NoFiles
                        /\ req'.v \notin suspect' => staged'.tmp = NoFiles
        OBVIOUS
    <3>1. ASSUME NEW v \in Versions, StageDelete(v)
          PROVE  /\ dir'[req'.v].tmp = NoFiles
                 /\ req'.v \notin suspect' => staged'.tmp = NoFiles
      <4>1. dir'[v] = NoDir /\ staged' = dir[v] /\ req'.v = v /\ suspect' = suspect
          BY <3>1, StageDeleteEffect
      <4> QED
          BY <4>1 DEF NoLeftovers, NoDir
    <3>2. CASE pc \in DeletePCs /\ UNCHANGED <<req, staged, suspect>>
      <4>1. req.v \in Versions
          BY <3>2 DEF TypeOK, DeletePCs
      <4> QED
          BY <2>1, <3>2, <4>1 DEF NoLeftovers
    <3> QED
        BY <1>3, <3>1, <3>2, HandlerMoves
  <2>4. pc' \in {"putSig", "addIndex", "dropOld", "bootSig"} /\ undo'.clean => dir'[req'.v].tmp = NoFiles
    <3> SUFFICES ASSUME pc' \in {"putSig", "addIndex", "dropOld", "bootSig"}, undo'.clean
                 PROVE  dir'[req'.v].tmp = NoFiles
        OBVIOUS
    <3>1. CASE PutSums
      <4>1. PICK L, lost : /\ undo' = [Remember(undo, dir[req.v], L) EXCEPT !.clean = Clean(dir[req.v], lost)]
          BY <3>1 DEF PutSums
      <4>2. pc = "putSums" /\ req' = req /\ pc \in UploadPCs
          BY <3>1 DEF PutSums, Goto, UploadPCs
      <4>3. dir[req.v] \in Dirs /\ req.v \in Versions
          BY <4>2, UploadTypes
      <4>4. Remember(undo, dir[req.v], L) \in Undos
          BY <4>3, RememberType DEF TypeOK
      <4>5. Clean(dir[req.v], lost)
          BY <4>1, <4>4 DEF Undos
      <4> QED
          BY <2>1, <4>2, <4>3, <4>5 DEF Clean
    <3>2. ASSUME NEW v \in Versions, RebuildSums(v) PROVE dir'[req'.v].tmp = NoFiles
      <4>1. PICK lost : undo' = [undo EXCEPT !.clean = Clean(dir[v], lost)]
          BY <3>2 DEF RebuildSums
      <4>2. Clean(dir[v], lost)
          BY <4>1 DEF TypeOK, Undos
      <4>3. req'.v = v
          BY <3>2 DEF RebuildSums, Take, NoReq
      <4> QED
          BY <2>1, <4>2, <4>3 DEF Clean
    <3>3. CASE pc \in {"putSig", "addIndex", "dropOld", "bootSig"} /\ UNCHANGED <<req, undo>>
      <4>1. req.v \in Versions
          BY <3>3 DEF TypeOK
      <4> QED
          BY <2>1, <3>3, <4>1 DEF NoLeftovers
    <3> QED
        BY <1>3, <3>1, <3>2, <3>3, HandlerMoves
  <2> QED
      BY <2>2, <2>3, <2>4 DEF NoLeftovers
<1> QED
    BY <1>1, <1>2, <1>3

(* Every step of an upload leaves a list and a signature to read, if there *)
(* were before.                                                            *)
LEMMA AlwaysSignedStep ==
    ASSUME IInv, Order, AlwaysSigned, [Next]_vars
    PROVE  AlwaysSigned'
<1> DEFINE Late == UploadPCs \ {"putMeta", "putSums"}
<1> SUFFICES ASSUME pc' \in Late, req'.v \notin suspect', undo'.whole, NamedBy(Before') # {}
             PROVE  dir'[req'.v].sums # {} /\ dir'[req'.v].sig # {}
    BY DEF AlwaysSigned
<1>1. TypeOK
    BY DEF IInv
<1>2. pc \in UploadPCs => /\ req.v \in Versions /\ req.p \in Platforms
                          /\ dir[req.v] \in Dirs /\ dir[req.v].meta \in MetaFiles
    BY <1>1, UploadTypes
<1>3. CASE \/ Refuse \/ Start \/ Listen \/ UNCHANGED vars
           \/ \E v \in Versions : StoreArtifactFails(v) \/ RebuildSumsFails(v)
           \/ \E v \in Versions, ok \in BOOLEAN : Deprecate(v, ok)
           \/ \E v \in Versions, p \in Platforms : CollectGarbage(v, p)
  <2>1. (\A w \in Versions : Keeps(w)) /\ UNCHANGED <<pc, req, undo, suspect>>
      BY <1>1, <1>3, IdleEffect
  <2>2. req.v \in Versions
      BY <1>2, <2>1
  <2>3. Before' = Before
      BY <2>1, <2>2 DEF Before, Keeps
  <2> QED
      BY <2>1, <2>2, <2>3 DEF AlwaysSigned, Keeps
<1>4. CASE PutMetaFails \/ PutSumsFails \/ PutSigFails \/ AddIndex \/ AddIndexFails \/ RestoreMetaFails
  <2>1. /\ \A w \in Versions : Keeps(w)
        /\ UNCHANGED <<req, suspect>> /\ undo'.was = undo.was
      BY <1>1, <1>4, MoveEffect
  <2>2. pc \in UploadPCs /\ (pc \notin {"putMeta", "putSums"} => undo' = undo)
      BY <1>4 DEF PutMetaFails, PutSumsFails, PutSigFails, AddIndex, AddIndexFails, RestoreMetaFails,
                  UploadPCs
  <2>3. Before' = Before
      BY <1>2, <2>1, <2>2 DEF Before, Keeps
  <2>4. pc \in {"putMeta", "putSums"} => Matches(dir[req.v], Before)
      BY <2>1, <2>2 DEF Order, UploadLists
  <2>5. dir[req.v].sums # {} /\ dir[req.v].sig # {}
      BY <2>1, <2>2, <2>3, <2>4 DEF AlwaysSigned, Matches
  <2> QED
      BY <1>2, <2>1, <2>2, <2>5 DEF Keeps
<1>5. CASE PutSums
  <2>1. pc = "putSums" /\ pc \in UploadPCs /\ req' = req /\ suspect' = suspect
      BY <1>5 DEF PutSums, Goto, history, UploadPCs
  <2>2. undo'.was = undo.was
    <3>1. PICK L, x : undo' = [Remember(undo, dir[req.v], L) EXCEPT !.clean = x]
        BY <1>5 DEF PutSums
    <3> QED
        BY <1>1, <3>1 DEF Remember, TypeOK, Undos
  <2>3. PICK E : dir' = dir \/ (E # {} /\ dir' = [dir EXCEPT ![req.v].sums = E])
      BY <1>5 DEF PutSums
  <2>4. /\ dir'[req.v].sums = dir[req.v].sums \/ dir'[req.v].sums # {}
        /\ dir'[req.v].sig = dir[req.v].sig /\ dir'[req.v].meta = dir[req.v].meta
      BY <1>1, <1>2, <2>1, <2>3 DEF TypeOK, Dirs
  <2>5. Before' = Before
      BY <2>1, <2>2, <2>4 DEF Before
  <2>6. Matches(dir[req.v], Before)
      BY <2>1 DEF Order, UploadLists
  <2> QED
      BY <2>1, <2>4, <2>5, <2>6 DEF Matches
<1>6. CASE PutSig \/ RestoreMeta \/ \E ok \in BOOLEAN : RestoreSums(ok) \/ RestoreSig(ok)
  <2>1. /\ pc \in Late /\ pc \in UploadPCs /\ req' = req /\ undo' = undo /\ suspect' = suspect
      BY <1>6 DEF PutSig, RestoreMeta, RestoreSums, RestoredSums, RestoreSig, Goto, history, UploadPCs
  <2>2. /\ Before' = Before
        /\ dir'[req.v].sums \in {dir[req.v].sums, undo.sums}
        /\ dir'[req.v].sig \in {dir[req.v].sig, dir[req.v].sums, undo.sig}
    <3>1. CASE RestoreMeta
      <4>1. /\ dir'[req.v].meta = [dir[req.v].meta EXCEPT ![req.p] = IF pc = "putMeta" THEN req.c ELSE undo.meta]
            /\ dir'[req.v].sums = dir[req.v].sums /\ dir'[req.v].sig = dir[req.v].sig
          BY <1>1, <3>1, PutMetaEffect
      <4> QED
          BY <1>2, <2>1, <4>1 DEF Before, MetaFiles
    <3>2. CASE ~RestoreMeta
      <4>1. \/ dir' = dir \/ dir' = [dir EXCEPT ![req.v].sums = undo.sums]
            \/ dir' = [dir EXCEPT ![req.v].sig = undo.sig]
            \/ dir' = [dir EXCEPT ![req.v].sig = dir[req.v].sums]
          BY <1>6, <3>2 DEF PutSig, RestoreSums, RestoredSums, RestoreSig, RestoredSig
      <4>2. /\ dir'[req.v].meta = dir[req.v].meta
            /\ dir'[req.v].sums \in {dir[req.v].sums, undo.sums}
            /\ dir'[req.v].sig \in {dir[req.v].sig, dir[req.v].sums, undo.sig}
          BY <1>1, <1>2, <2>1, <4>1 DEF TypeOK, Dirs
      <4> QED
          BY <2>1, <4>2 DEF Before
    <3> QED
        BY <3>1, <3>2
  <2>3. dir[req.v].sums # {} /\ dir[req.v].sig # {}
      BY <2>1, <2>2 DEF AlwaysSigned
  <2>4. pc # "dropZip"
      BY <1>6 DEF PutSig, RestoreMeta, RestoreSums, RestoredSums, RestoreSig
  <2>5. undo.sums # {} /\ undo.sig # {}
      BY <2>1, <2>2, <2>4 DEF Order, UploadLists
  <2> QED
      BY <2>1, <2>2, <2>3, <2>5
<1>7. ~(\/ \E v \in Versions, p \in Platforms, c \in Contents : StoreArtifact(v, p, c)
        \/ PutMeta \/ Delete \/ Crash
        \/ \E v \in Versions : RebuildSums(v)
        \/ \E ok \in BOOLEAN : DropOld(ok) \/ DropZip(ok) \/ RebuildSig(ok))
    BY DEF StoreArtifact, PutMeta, Delete, StageDelete, RemoveIndex, RemoveIndexFails, Rollback,
           Commit, Crash, RebuildSums, DropOld, DropZip, RebuildSig, Goto, Take, Answer, UploadPCs
<1> QED
    BY <1>3, <1>4, <1>5, <1>6, <1>7 DEF Next, Upload, Restore, Delete, Startup

(* So the registry keeps all of it.                                        *)
LEMMA RegistryStep ==
    ASSUME MaxFaults <= 1 PROVE Registry /\ [Next]_vars => Registry'
<1>1. IInv => TypeOK
    BY DEF IInv
<1> QED
    BY <1>1, IInvStep, AchievedStep, OrderStep, NoLeftoversStep, AlwaysSignedStep DEF Registry

(* It begins with it.                                                      *)
LEMMA RegistryBegins == Init => Registry
<1> SUFFICES ASSUME Init PROVE Registry
    OBVIOUS
<1>1. IInv
  <2>1. TypeOK
      BY NoDirType, NoFilesType, FaultAssumption
      DEF Init, TypeOK, PCs, UploadPCs, DeletePCs, StartupPCs, NoReq, NoUndo, Undos
  <2>2. \A v \in Versions : Sound(dir[v])
      BY DEF Init, Sound, NoDir, NoFiles
  <2>3. PromisesKept
      BY DEF Init, PromisesKept, Kept, Listed, NoFiles, UploadPCs, DeletePCs
  <2> QED
      BY <2>1, <2>2, <2>3 DEF Init, IInv, UploadPCs, DeletePCs
<1>2. Achieved
    BY DEF Init, Achieved
<1>3. Order
    BY NoDirInOrder DEF Init, Order, InOrder, UploadPCs, DeletePCs
<1>4. NoLeftovers
    BY DEF Init, NoLeftovers, NoDir, DeletePCs
<1>5. AlwaysSigned
    BY DEF Init, AlwaysSigned, UploadPCs
<1> QED
    BY <1>1, <1>2, <1>3, <1>4, <1>5 DEF Registry

-----------------------------------------------------------------------------
(* What an undisturbed reader finds *)

(* Whatever requests for other targets are doing, what a client was told   *)
(* is published is in the index, the metadata, the artifacts; there are a  *)
(* list and a signature; and if no request is working on the version, they *)
(* belong together and name the artifact.                                  *)
LEMMA ReaderFinds ==
    ASSUME Registry, NEW k, NEW v \in Versions, NEW p \in Platforms,
           acked[v][p] # None, ~Disturbed(k, v, p)
    PROVE  /\ v \in index
           /\ dir[v].meta[p] = acked[v][p]
           /\ <<p, acked[v][p]>> \in dir[v].zips
           /\ MetadataFound(dir[v], p, {}) = acked[v][p] /\ ~BeingWritten(v, p)
           /\ k # "pull" => ~dir[v].deprecated
           /\ dir[v].sums # {} /\ dir[v].sig # {}
           /\ k = "terraform" => dir[v].sig = dir[v].sums /\ <<p, acked[v][p]>> \in dir[v].sums
<1>1. IInv /\ Order /\ NoLeftovers /\ AlwaysSigned /\ TypeOK
    BY DEF Registry, IInv
<1>2. phase = "up" /\ v \notin suspect /\ (k # "pull" => ~dir[v].deprecated)
    BY DEF Disturbed
<1>3. ~Touches(v, p)
    BY DEF Disturbed, Target, Touches, UploadPCs, DeletePCs
<1>4. (k = "terraform" => v \notin Target) /\ (v \in Target => undo.whole)
    BY DEF Disturbed
<1>5. dir[v].meta[p] = acked[v][p] /\ v \in index
  <2>1. CASE pc \in UploadPCs \cup DeletePCs => v # req.v
      BY <1>1, <2>1 DEF IInv, PromisesKept, Kept, Listed
  <2>2. CASE pc \in UploadPCs /\ v = req.v
    <3>1. p # req.p
        BY <1>3, <2>2 DEF Touches
    <3> QED
        BY <1>1, <2>2, <3>1 DEF IInv, PromisesKept, Kept, Listed
  <2>3. ~(pc \in DeletePCs /\ v = req.v)
      BY <1>3 DEF Touches
  <2> QED
      BY <2>1, <2>2, <2>3
<1>6. <<p, acked[v][p]>> \in dir[v].zips
    BY <1>1, <1>5 DEF IInv, Sound
<1>7. MetadataFound(dir[v], p, {}) = acked[v][p] /\ ~BeingWritten(v, p)
  <2>1. ~BeingWritten(v, p)
      BY <1>3 DEF BeingWritten, BeingPut, Touches, UploadPCs
  <2> QED
      BY <1>1, <1>2, <1>5, <2>1 DEF NoLeftovers, MetadataFound, NoFiles
<1>8. <<p, acked[v][p]>> \in NamedBy(dir[v].meta)
    BY <1>5, NamedByHas
<1>9. CASE ~(pc \in UploadPCs /\ v = req.v)
  <2>1. Matches(dir[v], dir[v].meta)
      BY <1>1, <1>2, <1>9 DEF Order, InOrder
  <2> QED
      BY <1>2, <1>5, <1>6, <1>7, <1>8, <2>1 DEF Matches
<1>10. CASE pc \in UploadPCs /\ v = req.v
  <2>1. v \in Target /\ p # req.p
      BY <1>3, <1>10 DEF Target, UploadPCs, Touches
  <2>2. undo.whole /\ k # "terraform"
      BY <1>4, <2>1
  <2>3. dir[v].meta \in MetaFiles
      BY <1>1, <1>10, UploadTypes
  <2>4. Before[p] = acked[v][p]
      BY <1>5, <1>10, <2>1, <2>3 DEF Before, MetaFiles
  <2>5. NamedBy(Before) # {}
      BY <2>4, NamedByHas
  <2>6. dir[v].sums # {} /\ dir[v].sig # {}
    <3>1. CASE pc \in {"putMeta", "putSums"}
      <4>1. Matches(dir[v], Before)
          BY <1>1, <1>2, <1>10, <3>1 DEF Order, UploadLists
      <4> QED
          BY <2>5, <4>1 DEF Matches
    <3>2. CASE pc \notin {"putMeta", "putSums"}
        BY <1>1, <1>2, <1>10, <2>2, <2>5, <3>2 DEF AlwaysSigned
    <3> QED
        BY <3>1, <3>2
  <2> QED
      BY <1>2, <1>5, <1>6, <1>7, <2>2, <2>6
<1> QED
    BY <1>9, <1>10

(* What a reader may be after is not changed by a step that neither        *)
(* follows nor leads to a request for it.                                  *)
LEMMA CalmStep ==
    ASSUME Registry, [Next]_vars, NEW k, NEW v \in Versions, NEW p \in Platforms,
           ~Disturbed(k, v, p), ~Disturbed(k, v, p)'
    PROVE  /\ acked'[v][p] = acked[v][p]
           /\ k = "terraform" => dir'[v].sums = dir[v].sums
<1>1. TypeOK
    BY DEF Registry, IInv
<1>2. /\ phase = "up" /\ phase' = "up" /\ ~Touches(v, p) /\ ~Touches(v, p)'
      /\ k = "terraform" => v \notin Target /\ v \notin Target'
    BY DEF Disturbed, Target, Touches, UploadPCs, DeletePCs
<1>3. acked'[v][p] = acked[v][p]
  <2>1. ~Crash
      BY <1>2 DEF Crash
  <2>2. ASSUME NEW ok \in BOOLEAN, DropOld(ok) PROVE acked'[v][p] = acked[v][p]
    <3>1. acked' = [acked EXCEPT ![req.v][req.p] = req.c] /\ pc \in UploadPCs
        BY <2>2 DEF DropOld, UploadPCs
    <3>2. v # req.v \/ p # req.p
        BY <1>2, <3>1 DEF Touches
    <3> QED
        BY <1>1, <3>1, <3>2 DEF TypeOK, MetaFiles
  <2>3. ASSUME NEW ok \in BOOLEAN, Rollback(ok) \/ Commit(ok) PROVE acked'[v][p] = acked[v][p]
    <3>1. acked' = acked \/ acked' = [acked EXCEPT ![req.v] = NoFiles]
        BY <2>3 DEF Rollback, Commit, Forget
    <3>2. pc \in DeletePCs
        BY <2>3 DEF Rollback, Commit, DeletePCs
    <3>3. v # req.v
        BY <1>2, <3>2 DEF Touches
    <3> QED
        BY <1>1, <3>1, <3>3 DEF TypeOK
  <2>4. CASE \/ Refuse \/ Restore \/ Startup
             \/ \E w \in Versions, ok \in BOOLEAN : Deprecate(w, ok)
             \/ \E w \in Versions, q \in Platforms : CollectGarbage(w, q)
             \/ \E w \in Versions, q \in Platforms, c \in Contents : StoreArtifact(w, q, c)
             \/ \E w \in Versions : StoreArtifactFails(w)
             \/ PutMeta \/ PutMetaFails \/ PutSums \/ PutSumsFails \/ PutSig \/ PutSigFails
             \/ AddIndex \/ AddIndexFails
             \/ \E w \in Versions : StageDelete(w)
             \/ RemoveIndex \/ RemoveIndexFails \/ UNCHANGED vars
    <3>1. acked' = acked
        BY <2>4 DEF Refuse, Restore, RestoreMeta, RestoreMetaFails, RestoreSums, RestoredSums, RestoreSig, DropZip,
                    Startup, Start, Listen, RebuildSums, RebuildSumsFails, RebuildSig, Deprecate,
                    CollectGarbage, StoreArtifact, StoreArtifactFails, PutMeta, PutMetaFails, PutSums,
                    PutSumsFails, PutSig, PutSigFails, AddIndex, AddIndexFails, StageDelete,
                    RemoveIndex, RemoveIndexFails, vars, history
    <3> QED
        BY <3>1
  <2> QED
      BY <2>1, <2>2, <2>3, <2>4 DEF Next, Upload, Delete
<1>4. ASSUME v \notin Target, v \notin Target' PROVE dir'[v].sums = dir[v].sums
  <2>1. CASE \/ Refuse \/ Start \/ Listen \/ UNCHANGED vars
             \/ \E w \in Versions : StoreArtifactFails(w) \/ RebuildSumsFails(w)
             \/ \E w \in Versions, ok \in BOOLEAN : Deprecate(w, ok)
             \/ \E w \in Versions, q \in Platforms : CollectGarbage(w, q)
      BY <1>1, <2>1, IdleEffect DEF Keeps
  <2>2. CASE PutMetaFails \/ PutSumsFails \/ PutSigFails \/ AddIndex \/ AddIndexFails
             \/ RestoreMetaFails \/ RemoveIndex \/ RemoveIndexFails
      BY <1>1, <2>2, MoveEffect DEF Keeps
  <2>3. CASE PutMeta \/ RestoreMeta
    <3>1. pc # "idle"
        BY <2>3 DEF PutMeta, RestoreMeta
    <3> QED
        BY <1>1, <1>4, <2>3, <3>1, PutMetaEffect DEF Target
  <2>4. CASE PutSums \/ PutSig \/ \E ok \in BOOLEAN : RestoreSums(ok) \/ RestoreSig(ok) \/ RebuildSig(ok)
    <3>1. pc # "idle" /\ req.v \in Versions
        BY <1>1, <2>4 DEF PutSums, PutSig, RestoreSums, RestoredSums, RestoreSig, RebuildSig, TypeOK
    <3>2. v # req.v
        BY <1>4, <3>1 DEF Target
    <3>3. PICK x : dir' = dir \/ dir' = [dir EXCEPT ![req.v].sums = x] \/ dir' = [dir EXCEPT ![req.v].sig = x]
      <4>1. CASE PutSums
          BY <4>1 DEF PutSums
      <4>2. CASE ~PutSums
          BY <2>4, <4>2 DEF PutSig, RestoreSums, RestoredSums, RestoreSig, RestoredSig, RebuildSig
      <4> QED
          BY <4>1, <4>2
    <3> QED
        BY <1>1, <3>2, <3>3 DEF TypeOK
  <2>5. ASSUME NEW ok \in BOOLEAN, DropOld(ok) \/ DropZip(ok) PROVE dir'[v].sums = dir[v].sums
      BY <1>1, <2>5, DropEffect
  <2>6. ASSUME NEW w \in Versions, RebuildSums(w) PROVE dir'[v].sums = dir[v].sums
      BY <1>2, <2>6 DEF RebuildSums
  <2>7. ASSUME NEW w \in Versions, NEW q \in Platforms, NEW c \in Contents, StoreArtifact(w, q, c)
        PROVE  dir'[v].sums = dir[v].sums
      BY <1>1, <2>7, StoreArtifactEffect
  <2>8. ASSUME NEW w \in Versions, StageDelete(w) PROVE dir'[v].sums = dir[v].sums
    <3>1. (\A u \in Versions \ {w} : dir'[u] = dir[u]) /\ req'.v = w /\ pc' = "unindex"
        BY <1>1, <2>8, StageDeleteEffect
    <3> QED
        BY <1>4, <3>1 DEF Target
  <2>9. ASSUME NEW ok \in BOOLEAN, Rollback(ok) \/ Commit(ok) PROVE dir'[v].sums = dir[v].sums
    <3>1. (\A u \in Versions \ {req.v} : dir'[u] = dir[u]) /\ pc # "idle"
        BY <1>1, <2>9, DeleteEndEffect
    <3> QED
        BY <1>4, <3>1 DEF Target
  <2>10. CASE Crash
      BY <1>1, <2>10, CrashEffect DEF Keeps
  <2> QED
      BY <2>1, <2>2, <2>3, <2>4, <2>5, <2>6, <2>7, <2>8, <2>9, <2>10
      DEF Next, Upload, Restore, Delete, Startup
<1> QED
    BY <1>2, <1>3, <1>4

-----------------------------------------------------------------------------
(* The way of a session *)

(* The requests of each kind of client ...                                 *)
LEMMA RequestTable ==
    /\ Kinds = {"terraform", "mirror", "pull"}
    /\ Len(Requests["terraform"]) = 5 /\ Len(Requests["mirror"]) = 3 /\ Len(Requests["pull"]) = 2
    /\ Requests["terraform"][1] = providerVersions
    /\ Requests["terraform"][2] = providerDownload
    /\ Requests["terraform"][3] = fileDownload("getChecksums")
    /\ Requests["terraform"][4] = fileDownload("getSignature")
    /\ Requests["terraform"][5] = fileDownload("getArchive")
    /\ Requests["mirror"][1] = mirrorIndex
    /\ Requests["mirror"][2] = mirrorVersion
    /\ Requests["mirror"][3] = fileDownload("getArchive")
    /\ Requests["pull"][1] = providerDownload
    /\ Requests["pull"][2] = fileDownload("getArchive")
BY DEF Requests, Kinds

(* ... and the reads of each handler.                                      *)
LEMMA ReadTable ==
    /\ Len(providerVersions) = 5
    /\ providerVersions[1] = "index" /\ providerVersions[2] = "deprecation"
    /\ providerVersions[3] = "names" /\ providerVersions[4] = "platforms"
    /\ providerVersions[5] = "artifact"
    /\ Len(providerDownload) = 4
    /\ providerDownload[1] = "metadata" /\ providerDownload[2] = "artifact"
    /\ providerDownload[3] = "checksums" /\ providerDownload[4] = "signature"
    /\ mirrorIndex = providerVersions
    /\ Len(mirrorVersion) = 6
    /\ mirrorVersion[1] = "index" /\ mirrorVersion[2] = "deprecation"
    /\ mirrorVersion[3] = "names" /\ mirrorVersion[4] = "platforms"
    /\ mirrorVersion[5] = "metadata" /\ mirrorVersion[6] = "artifact"
    /\ \A f : Len(fileDownload(f)) = 1 /\ fileDownload(f)[1] = f
BY DEF providerVersions, providerDownload, mirrorIndex, mirrorVersion, fileDownload

(* Only the lists of versions start with the index and have five reads.    *)
LEMMA ListHandlers ==
    /\ providerDownload \notin {providerVersions, mirrorIndex}
    /\ mirrorVersion \notin {providerVersions, mirrorIndex}
    /\ \A f : fileDownload(f) \notin {providerVersions, mirrorIndex}
BY ReadTable

(* Where a session can be, request by request.                             *)
LEMMA Places ==
    ASSUME NEW k \in Kinds, NEW i, NEW j, Place(k, i, j)
    PROVE  \/ k \in {"terraform", "mirror"} /\ i = 1 /\ Requests[k][i] = providerVersions /\ j \in {1, 2, 3, 4, 5}
           \/ k = "terraform" /\ i = 2 /\ Requests[k][i] = providerDownload /\ j \in {1, 2, 3, 4}
           \/ k = "terraform" /\ i = 3 /\ j = 1 /\ Requests[k][i] = fileDownload("getChecksums")
           \/ k = "terraform" /\ i = 4 /\ j = 1 /\ Requests[k][i] = fileDownload("getSignature")
           \/ k = "terraform" /\ i = 5 /\ j = 1 /\ Requests[k][i] = fileDownload("getArchive")
           \/ k = "mirror" /\ i = 2 /\ Requests[k][i] = mirrorVersion /\ j \in {1, 2, 3, 4, 5, 6}
           \/ k = "mirror" /\ i = 3 /\ j = 1 /\ Requests[k][i] = fileDownload("getArchive")
           \/ k = "pull" /\ i = 1 /\ Requests[k][i] = providerDownload /\ j \in {1, 2, 3, 4}
           \/ k = "pull" /\ i = 2 /\ j = 1 /\ Requests[k][i] = fileDownload("getArchive")
<1>1. PICK n : n = Len(Requests[k][i])
    OBVIOUS
<1>2. i \in 1..Len(Requests[k]) /\ j \in 1..n
    BY <1>1 DEF Place
<1>3. \/ k = "terraform" /\ i \in {1, 2, 3, 4, 5}
      \/ k = "mirror" /\ i \in {1, 2, 3}
      \/ k = "pull" /\ i \in {1, 2}
  <2>1. CASE k = "terraform"
      BY <1>2, <2>1, RequestTable
  <2>2. CASE k = "mirror"
      BY <1>2, <2>2, RequestTable
  <2>3. CASE k = "pull"
      BY <1>2, <2>3, RequestTable
  <2> QED
      BY <2>1, <2>2, <2>3, RequestTable
<1>4. ASSUME NEW f, Requests[k][i] = fileDownload(f) PROVE j = 1
  <2>1. n = 1
      BY <1>1, <1>4, ReadTable
  <2> QED
      BY <1>2, <2>1
<1>5. ASSUME Requests[k][i] = providerDownload PROVE j \in {1, 2, 3, 4}
  <2>1. n = 4
      BY <1>1, <1>5, ReadTable
  <2> QED
      BY <1>2, <2>1
<1>6. ASSUME Requests[k][i] = mirrorVersion PROVE j \in {1, 2, 3, 4, 5, 6}
  <2>1. n = 6
      BY <1>1, <1>6, ReadTable
  <2> QED
      BY <1>2, <2>1
<1>10. ASSUME Requests[k][i] = providerVersions PROVE j \in {1, 2, 3, 4, 5}
  <2>1. n = 5
      BY <1>1, <1>10, ReadTable
  <2> QED
      BY <1>2, <2>1
<1>7. CASE k = "terraform" /\ i \in {1, 2, 3, 4, 5}
  <2>1. CASE i = 1
      BY <1>7, <1>10, <2>1, RequestTable
  <2>2. CASE i = 2
      BY <1>5, <1>7, <2>2, RequestTable
  <2>3. CASE i = 3
      BY <1>4, <1>7, <2>3, RequestTable
  <2>4. CASE i = 4
      BY <1>4, <1>7, <2>4, RequestTable
  <2>5. CASE i = 5
      BY <1>4, <1>7, <2>5, RequestTable
  <2> QED
      BY <1>7, <2>1, <2>2, <2>3, <2>4, <2>5
<1>8. CASE k = "mirror" /\ i \in {1, 2, 3}
  <2>1. CASE i = 1
      BY <1>8, <1>10, <2>1, RequestTable, ReadTable
  <2>2. CASE i = 2
      BY <1>6, <1>8, <2>2, RequestTable
  <2>3. CASE i = 3
      BY <1>4, <1>8, <2>3, RequestTable
  <2> QED
      BY <1>8, <2>1, <2>2, <2>3
<1>9. CASE k = "pull" /\ i \in {1, 2}
  <2>1. CASE i = 1
      BY <1>5, <1>9, <2>1, RequestTable
  <2>2. CASE i = 2
      BY <1>4, <1>9, <2>2, RequestTable
  <2> QED
      BY <1>9, <2>1, <2>2
<1> QED
    BY <1>3, <1>7, <1>8, <1>9
(* What is known at each read.                                             *)
LEMMA Reads ==
    ASSUME NEW k \in Kinds, NEW i, NEW j, Place(k, i, j), NEW r, r = Requests[k][i][j]
    PROVE  /\ r \in {"checksums", "signature", "getChecksums", "getSignature", "getArchive"}
                 => ToldBy(k, i, j)
           /\ r = "metadata" => ~ToldBy(k, i, j)
           /\ r = "deprecation" => k # "pull"
           /\ r \in {"getChecksums", "getSignature"} => k = "terraform"
           /\ r \in {"names", "platforms", "index", "deprecation"} => ~ToldBy(k, i, j)
<1> USE DEF ToldBy
<1>1. CASE k \in {"terraform", "mirror"} /\ i = 1 /\ Requests[k][i] = providerVersions /\ j \in {1, 2, 3, 4, 5}
    BY <1>1, ReadTable
<1>2. CASE k = "terraform" /\ i = 2 /\ Requests[k][i] = providerDownload /\ j \in {1, 2, 3, 4}
    BY <1>2, ReadTable
<1>3. CASE k = "terraform" /\ i \in {3, 4, 5} /\ j = 1 /\ r \in {"getChecksums", "getSignature", "getArchive"}
    BY <1>3
<1>4. CASE k = "mirror" /\ i = 2 /\ Requests[k][i] = mirrorVersion /\ j \in {1, 2, 3, 4, 5, 6}
    BY <1>4, ReadTable
<1>5. CASE k = "pull" /\ i = 1 /\ Requests[k][i] = providerDownload /\ j \in {1, 2, 3, 4}
    BY <1>5, ReadTable
<1>6. CASE k \in {"mirror", "pull"} /\ i \in {2, 3} /\ (k = "mirror" => i = 3) /\ r = "getArchive"
    BY <1>6
<1>7. \A f : Requests[k][i] = fileDownload(f) /\ j = 1 => r = f
    BY ReadTable
<1> QED
    BY <1>1, <1>2, <1>3, <1>4, <1>5, <1>6, <1>7, Places

(* The next read of a session: a content that the client is told or that   *)
(* is looked for has just been read.                                       *)
LEMMA NextPlace ==
    ASSUME NEW k \in Kinds, NEW i, NEW j, Place(k, i, j), NEW r, r = Requests[k][i][j],
           r # "getArchive", NEW m, NEW n, NEW t, t = Requests[k][m][n],
           IF j < Len(Requests[k][i]) THEN m = i /\ n = j + 1 ELSE m = i + 1 /\ n = 1
    PROVE  /\ Place(k, m, n)
           /\ ToldBy(k, m, n) => /\ ToldBy(k, i, j) \/ r = "metadata"
                                 /\ Requests[k][i] \notin {providerVersions, mirrorIndex}
           /\ t = "platforms" => r = "names"
           /\ t = "artifact" => r \in {"platforms", "metadata"} /\ m = i
           /\ t = "getSignature" => r = "getChecksums"
           /\ t = "getArchive" /\ k = "terraform" => r = "getSignature"
<1> USE DEF Place, ToldBy
<1>1. CASE k \in {"terraform", "mirror"} /\ i = 1 /\ Requests[k][i] = providerVersions /\ j \in {1, 2, 3, 4, 5}
  <2>1. CASE j < 5
    <3>1. m = 1 /\ n = j + 1 /\ n \in {2, 3, 4, 5}
        BY <1>1, <2>1, ReadTable
    <3>2. /\ t = providerVersions[n] /\ r = providerVersions[j]
          /\ n \in 1..Len(providerVersions) /\ m \in 1..Len(Requests[k])
        BY <1>1, <3>1, ReadTable, RequestTable
    <3> QED
        BY <1>1, <2>1, <3>1, <3>2, ReadTable
  <2>2. CASE j = 5
    <3>1. m = 2 /\ n = 1
        BY <1>1, <2>2, ReadTable
    <3>2. t \in {"metadata", "index"} /\ n \in 1..Len(Requests[k][m]) /\ m \in 1..Len(Requests[k])
        BY <1>1, <3>1, ReadTable, RequestTable
    <3> QED
        BY <1>1, <2>2, <3>1, <3>2
  <2> QED
      BY <1>1, <2>1, <2>2
<1>2. CASE k \in {"terraform", "pull"} /\ (k = "terraform" => i = 2) /\ (k = "pull" => i = 1)
           /\ Requests[k][i] = providerDownload /\ j \in {1, 2, 3, 4}
  <2>1. CASE j < 4
    <3>1. m = i /\ n = j + 1 /\ n \in {2, 3, 4}
        BY <1>2, <2>1, ReadTable
    <3>2. /\ t = providerDownload[n] /\ r = providerDownload[j]
          /\ n \in 1..Len(providerDownload) /\ m \in 1..Len(Requests[k])
        BY <1>2, <3>1, ReadTable, RequestTable
    <3>3. Requests[k][i] \notin {providerVersions, mirrorIndex}
        BY <1>2, ListHandlers
    <3> QED
        BY <1>2, <2>1, <3>1, <3>2, <3>3, ReadTable
  <2>2. CASE j = 4
    <3>1. m = i + 1 /\ n = 1
        BY <1>2, <2>2, ReadTable
    <3>2. CASE k = "terraform"
      <4>1. m = 3 /\ n = 1
          BY <1>2, <3>1, <3>2
      <4>2. Requests[k][m] = fileDownload("getChecksums") /\ m \in 1..Len(Requests[k])
          BY <3>2, <4>1, RequestTable
      <4>3. t = "getChecksums" /\ n \in 1..Len(Requests[k][m])
          BY <4>1, <4>2, ReadTable
      <4>4. Requests[k][i] \notin {providerVersions, mirrorIndex}
          BY <1>2, ListHandlers
      <4> QED
          BY <1>2, <2>2, <3>2, <4>1, <4>2, <4>3, <4>4
    <3>3. CASE k = "pull"
      <4>1. m = 2 /\ n = 1
          BY <1>2, <3>1, <3>3
      <4>2. Requests[k][m] = fileDownload("getArchive") /\ m \in 1..Len(Requests[k])
          BY <3>3, <4>1, RequestTable
      <4>3. t = "getArchive" /\ n \in 1..Len(Requests[k][m])
          BY <4>1, <4>2, ReadTable
      <4>4. Requests[k][i] \notin {providerVersions, mirrorIndex}
          BY <1>2, ListHandlers
      <4> QED
          BY <1>2, <2>2, <3>3, <4>1, <4>2, <4>3, <4>4
    <3> QED
        BY <1>2, <3>2, <3>3
  <2> QED
      BY <1>2, <2>1, <2>2
<1>3. CASE k = "mirror" /\ i = 2 /\ Requests[k][i] = mirrorVersion /\ j \in {1, 2, 3, 4, 5, 6}
  <2>0. Requests[k][i] \notin {providerVersions, mirrorIndex}
      BY <1>3, ListHandlers
  <2>1. CASE j < 6
    <3>1. m = 2 /\ n = j + 1 /\ n \in {2, 3, 4, 5, 6}
        BY <1>3, <2>1, ReadTable
    <3>2. /\ t = mirrorVersion[n] /\ r = mirrorVersion[j]
          /\ n \in 1..Len(mirrorVersion) /\ m \in 1..Len(Requests[k])
        BY <1>3, <3>1, ReadTable, RequestTable
    <3> QED
        BY <1>3, <2>0, <2>1, <3>1, <3>2, ReadTable
  <2>2. CASE j = 6
    <3>1. m = 3 /\ n = 1
        BY <1>3, <2>2, ReadTable
    <3>2. Requests[k][m] = fileDownload("getArchive") /\ m \in 1..Len(Requests[k])
        BY <1>3, <3>1, RequestTable
    <3>3. t = "getArchive" /\ n \in 1..Len(Requests[k][m])
        BY <3>1, <3>2, ReadTable
    <3> QED
        BY <1>3, <2>0, <2>2, <3>1, <3>2, <3>3
  <2> QED
      BY <1>3, <2>1, <2>2
<1>4. CASE k = "terraform" /\ i \in {3, 4} /\ j = 1
           /\ Requests[k][i] = fileDownload(IF i = 3 THEN "getChecksums" ELSE "getSignature")
  <2>1. Len(Requests[k][i]) = 1 /\ r = IF i = 3 THEN "getChecksums" ELSE "getSignature"
      BY <1>4, ReadTable
  <2>2. m = i + 1 /\ n = 1 /\ m \in {4, 5} /\ (m = 4 <=> i = 3)
      BY <1>4, <2>1
  <2>3. Requests[k][m] = fileDownload(IF m = 4 THEN "getSignature" ELSE "getArchive")
      BY <1>4, <2>2, RequestTable
  <2>4. Len(Requests[k][m]) = 1 /\ t = IF m = 4 THEN "getSignature" ELSE "getArchive"
      BY <2>2, <2>3, ReadTable
  <2>5. Requests[k][i] \notin {providerVersions, mirrorIndex} /\ m \in 1..Len(Requests[k])
      BY <1>4, <2>2, ListHandlers, RequestTable
  <2> QED
      BY <1>4, <2>1, <2>2, <2>4, <2>5
<1>5. ~(Requests[k][i] = fileDownload("getArchive") /\ j = 1)
    BY ReadTable
<1> QED
    BY <1>1, <1>2, <1>3, <1>4, <1>5, Places

(* What a session does not lose between two reads.                         *)
LEMMA Continues ==
    ASSUME NEW e \in SessionRecords, NEW f, f = Continued(e)
    PROVE  /\ f \in SessionRecords
           /\ f.state = e.state /\ f.kind = e.kind /\ f.v = e.v /\ f.p = e.p /\ f.sums = e.sums
           /\ f.bytes = e.bytes /\ f.seen = e.seen /\ f.trusted = e.trusted /\ f.calm = e.calm
           /\ f.listed = e.listed
           /\ IF e.step < Len(Requests[e.kind][e.request])
              THEN f.request = e.request /\ f.step = e.step + 1
              ELSE f.request = e.request + 1 /\ f.step = 1
           /\ f.request = e.request \/ Requests[e.kind][e.request] \notin {providerVersions, mirrorIndex}
                 => f.content = e.content
<1>1. PICK c, h : /\ h = Requests[e.kind][e.request]
                  /\ c = IF h \in {providerVersions, mirrorIndex} THEN None ELSE e.content
    OBVIOUS
<1>2. c \in Contents \cup {None} /\ e.step + 1 \in Nat /\ e.request + 1 \in Nat /\ e.request # e.request + 1
    BY <1>1 DEF SessionRecords
<1>3. CASE e.step < Len(h)
  <2>1. f = [e EXCEPT !.step = e.step + 1]
      BY <1>1, <1>3 DEF Continued
  <2>2. f \in SessionRecords
      BY <1>2, <2>1 DEF SessionRecords
  <2>3. /\ f.state = e.state /\ f.kind = e.kind /\ f.v = e.v /\ f.p = e.p /\ f.sums = e.sums
        /\ f.bytes = e.bytes /\ f.seen = e.seen /\ f.trusted = e.trusted /\ f.calm = e.calm
        /\ f.listed = e.listed
      BY <2>1 DEF SessionRecords
  <2>4. f.request = e.request /\ f.step = e.step + 1 /\ f.content = e.content
      BY <2>1 DEF SessionRecords
  <2> QED
      BY <1>1, <1>3, <2>2, <2>3, <2>4
<1>4. CASE ~(e.step < Len(h))
  <2>1. f = [e EXCEPT !.request = e.request + 1, !.step = 1, !.content = c]
      BY <1>1, <1>4 DEF Continued
  <2>2. f \in SessionRecords
    <3>1. PICK m, n, a, b : /\ m = e.request + 1 /\ a = [e EXCEPT !.request = m] /\ n = 1
                            /\ b = [a EXCEPT !.step = n] /\ f = [b EXCEPT !.content = c]
        BY <2>1
    <3>2. a \in SessionRecords
        BY <1>2, <3>1 DEF SessionRecords
    <3>3. n \in Nat /\ b = [a EXCEPT !.step = n]
        BY <3>1
    <3>4. b \in SessionRecords
        BY <3>2, <3>3 DEF SessionRecords
    <3> QED
        BY <1>2, <3>1, <3>4 DEF SessionRecords
  <2>3. /\ f.state = e.state /\ f.kind = e.kind /\ f.v = e.v /\ f.p = e.p /\ f.sums = e.sums
        /\ f.bytes = e.bytes /\ f.seen = e.seen /\ f.trusted = e.trusted /\ f.calm = e.calm
        /\ f.listed = e.listed
      BY <2>1 DEF SessionRecords
  <2>4. f.request = e.request + 1 /\ f.step = 1 /\ f.content = c
      BY <2>1 DEF SessionRecords
  <2> QED
      BY <1>1, <1>2, <1>4, <2>2, <2>3, <2>4
<1> QED
    BY <1>3, <1>4

(* A session that has failed owes nothing, unless it was calm.             *)
LEMMA Fails ==
    ASSUME NEW e \in SessionRecords, NEW f, f \in {Failed(e), [Failed(e) EXCEPT !.calm = FALSE]}
    PROVE  /\ f \in SessionRecords /\ Faithful(f)
           /\ ~e.calm \/ f # Failed(e) => Calm(f)
<1>1. NoSession \in SessionRecords
    BY RequestTable DEF NoSession, SessionRecords
<1>2. f \in SessionRecords /\ f.state = "failed"
    BY <1>1 DEF Failed, SessionRecords, NoSession
<1>3. ~e.calm \/ f # Failed(e) => ~f.calm
  <2>1. CASE f = Failed(e)
    <3>1. f.calm = e.calm
        BY <2>1 DEF Failed, NoSession
    <3> QED
        BY <2>1, <3>1
  <2>2. CASE f = [Failed(e) EXCEPT !.calm = FALSE]
    <3>1. f.calm = FALSE
        BY <2>2 DEF Failed, NoSession
    <3> QED
        BY <3>1
  <2> QED
      BY <2>1, <2>2
<1>4. Faithful(f)
    BY <1>2 DEF Faithful, Active
<1> QED
    BY <1>2, <1>3, <1>4 DEF Calm

-----------------------------------------------------------------------------
(* The steps of a session *)

(* What the metadata file says is what readers get.                        *)
LEMMA MetadataIsVisible ==
    ASSUME Registry, NEW v \in Versions, NEW p \in Platforms
    PROVE  dir[v].meta[p] = Visible(dir[v])[p]
<1>1. dir[v] \in Dirs /\ Sound(dir[v])
    BY DEF Registry, IInv, TypeOK
<1> QED
    BY <1>1, Shown

(* A read that finds what it looks for, and changes the session from e to  *)
(* g by what it has learnt, keeps the session faithful ...                 *)
LEMMA ReadFaithful ==
    ASSUME Registry, NEW e \in SessionRecords, NEW g \in SessionRecords, NEW f, f = Continued(g),
           e.state = "reading", Faithful(e), At(e) # "getArchive",
           g.state = e.state, g.kind = e.kind, g.v = e.v, g.p = e.p, g.request = e.request,
           g.step = e.step, g.seen = e.seen,
           At(e) \notin {"metadata", "platforms"} => g.content = e.content,
           At(e) = "metadata" => g.content = dir[e.v].meta[e.p] /\ g.content # None
    PROVE  f \in SessionRecords /\ Faithful(f)
<1>1. PICK k, i, j, m, n, r, t :
          /\ k = e.kind /\ i = e.request /\ j = e.step /\ m = f.request /\ n = f.step
          /\ r = Requests[k][i][j] /\ t = Requests[k][m][n]
    OBVIOUS
<1>2. /\ f \in SessionRecords /\ f.state = "reading" /\ f.v = e.v /\ f.p = e.p /\ f.seen = e.seen
      /\ f.kind = k
      /\ IF j < Len(Requests[k][i]) THEN m = i /\ n = j + 1 ELSE m = i + 1 /\ n = 1
      /\ m = i \/ Requests[k][i] \notin {providerVersions, mirrorIndex} => f.content = g.content
    BY <1>1, Continues
<1>3. k \in Kinds /\ Place(k, i, j) /\ r # "getArchive" /\ At(e) = r
    BY <1>1 DEF SessionRecords, Faithful, Active, OnItsWay, At
<1>4. /\ Place(k, m, n)
      /\ ToldBy(k, m, n) => /\ ToldBy(k, i, j) \/ r = "metadata"
                            /\ Requests[k][i] \notin {providerVersions, mirrorIndex}
    BY <1>1, <1>2, <1>3, NextPlace
<1>5. r \in {"metadata", "platforms"} => ~ToldBy(k, i, j)
    BY <1>1, <1>3, Reads
<1>6. /\ e.v \in Versions /\ e.p \in Platforms /\ Visible(dir[e.v])[e.p] \in e.seen
      /\ ToldBy(k, i, j) => e.content \in e.seen \ {None}
    BY <1>1 DEF Faithful, Active, Told
<1>7. r = "metadata" => g.content \in e.seen \ {None}
    BY <1>3, <1>6, MetadataIsVisible
<1>8. ToldBy(k, m, n) => f.content \in e.seen \ {None}
    BY <1>2, <1>3, <1>4, <1>5, <1>6, <1>7
<1>9. OnItsWay(f) /\ (Told(f) => f.content \in f.seen \ {None})
    BY <1>1, <1>2, <1>4, <1>8 DEF OnItsWay, Told
<1> QED
    BY <1>2, <1>6, <1>9 DEF Faithful, Active

(* ... and calm, and a calm session finds what it looks for.               *)
LEMMA ReadCalm ==
    ASSUME Registry, NEW e \in SessionRecords, NEW g \in SessionRecords, NEW f, f = Continued(g),
           e.state = "reading", Faithful(e), Calm(e), At(e) # "getArchive",
           g.state = e.state, g.kind = e.kind, g.v = e.v, g.p = e.p, g.request = e.request,
           g.step = e.step, g.calm = e.calm,
           At(e) \notin {"metadata", "platforms"} => g.content = e.content,
           At(e) = "metadata" => g.content = dir[e.v].meta[e.p],
           At(e) = "names" /\ e.calm => g.listed = {TRUE},
           At(e) = "platforms" /\ e.calm => g.content = MetadataFound(dir[e.v], e.p, {}),
           At(e) = "getChecksums" => g.sums = dir[e.v].sums,
           At(e) = "getSignature" => (dir[e.v].sig = e.sums /\ <<e.p, e.content>> \in e.sums => g.trusted)
    PROVE  Calm(f)
<1> SUFFICES ASSUME f.calm PROVE Calm(f)
    BY DEF Calm
<1>1. PICK k, i, j, m, n, r, t, v, p :
          /\ k = e.kind /\ i = e.request /\ j = e.step /\ m = f.request /\ n = f.step
          /\ r = Requests[k][i][j] /\ t = Requests[k][m][n] /\ v = e.v /\ p = e.p
    OBVIOUS
<1>2. /\ f.state = "reading" /\ f.v = v /\ f.p = p
      /\ f.kind = k /\ f.sums = g.sums /\ f.listed = g.listed
      /\ IF j < Len(Requests[k][i]) THEN m = i /\ n = j + 1 ELSE m = i + 1 /\ n = 1
      /\ m = i \/ Requests[k][i] \notin {providerVersions, mirrorIndex} => f.content = g.content
    BY <1>1, Continues
<1>3. f.calm = e.calm /\ f.trusted = g.trusted
    BY <1>1, Continues
<1>4. /\ k \in Kinds /\ Place(k, i, j) /\ r # "getArchive" /\ At(e) = r
      /\ v \in Versions /\ p \in Platforms
    BY <1>1 DEF SessionRecords, Faithful, Active, OnItsWay, At
<1>5. /\ acked[v][p] # None /\ ~Disturbed(k, v, p)
      /\ ToldBy(k, i, j) \/ r = "artifact" => e.content = acked[v][p]
      /\ r = "getSignature" => e.sums = dir[v].sums
    BY <1>1, <1>3, <1>4 DEF Calm, Told
<1>6. /\ dir[v].meta[p] = acked[v][p]
      /\ MetadataFound(dir[v], p, {}) = acked[v][p]
      /\ k = "terraform" => dir[v].sig = dir[v].sums /\ <<p, acked[v][p]>> \in dir[v].sums
    BY <1>4, <1>5, ReaderFinds
<1>7. /\ ToldBy(k, m, n) => /\ ToldBy(k, i, j) \/ r = "metadata"
                            /\ Requests[k][i] \notin {providerVersions, mirrorIndex}
      /\ t = "platforms" => r = "names"
      /\ t = "artifact" => r \in {"platforms", "metadata"} /\ m = i
      /\ t = "getSignature" => r = "getChecksums"
      /\ t = "getArchive" /\ k = "terraform" => r = "getSignature"
    BY <1>1, <1>2, <1>4, NextPlace
<1>8. /\ r \in {"metadata", "platforms"} => ~ToldBy(k, i, j)
      /\ r = "getSignature" => ToldBy(k, i, j)
    BY <1>1, <1>4, Reads
<1>9. r \in {"metadata", "platforms"} \/ ToldBy(k, i, j) => g.content = acked[v][p]
    BY <1>1, <1>3, <1>4, <1>5, <1>6, <1>8
<1>10. ToldBy(k, m, n) \/ t = "artifact" => f.content = acked[v][p]
    BY <1>2, <1>7, <1>9
<1>11. t = "getSignature" => f.sums = dir[v].sums
    BY <1>1, <1>2, <1>4, <1>7
<1>12. t = "getArchive" /\ k = "terraform" => f.trusted
  <2>1. r = "getSignature" /\ k = "terraform" => g.trusted
      BY <1>1, <1>4, <1>5, <1>6, <1>8
  <2> QED
      BY <1>3, <1>7, <2>1
<1>13. At(f) = t /\ (Told(f) <=> ToldBy(k, m, n))
    BY <1>1, <1>2 DEF At, Told
<1>14. t = "platforms" => f.listed = {TRUE}
    BY <1>2, <1>3, <1>4, <1>7
<1> QED
    BY <1>2, <1>5, <1>10, <1>11, <1>12, <1>13, <1>14 DEF Calm, Active

(* Steps of the sessions that the registry does not notice.                *)
LEMMA OnlySessions ==
    ASSUME MaxFaults <= 1, SessionInv, UNCHANGED vars, session' \in [Sessions -> SessionRecords],
           \A s \in Sessions : \E e : e = session'[s] /\ Faithful(e) /\ Calm(e)
    PROVE  SessionInv'
<1>1. Registry'
    BY RegistryStep DEF SessionInv
<1>2. ASSUME NEW e, Faithful(e) PROVE Faithful(e)'
    BY <1>2 DEF Faithful, vars, Visible, OnItsWay, Told
<1>3. ASSUME NEW e, Calm(e) PROVE Calm(e)'
    BY <1>3 DEF Calm, vars, Disturbed, Target, Touches, Told, At
<1>4. ASSUME NEW s \in Sessions PROVE Faithful(session[s])' /\ Calm(session[s])'
  <2>1. PICK e : e = session'[s] /\ Faithful(e) /\ Calm(e)
      OBVIOUS
  <2>2. Faithful(e)' /\ Calm(e)'
      BY <1>2, <1>3, <2>1
  <2>3. Faithful(session[s])'
      BY <2>1, <2>2
  <2>4. Calm(session[s])'
      BY <2>1, <2>2
  <2> QED
      BY <2>3, <2>4
<1> QED
    BY <1>1, <1>4 DEF SessionInv

(* A step of one session.                                                  *)
LEMMA OneSession ==
    ASSUME MaxFaults <= 1, SessionInv, NEW s \in Sessions, UNCHANGED vars,
           NEW f \in SessionRecords, Faithful(f), Calm(f), session' = [session EXCEPT ![s] = f]
    PROVE  SessionInv'
<1>1. session \in [Sessions -> SessionRecords] /\ session' \in [Sessions -> SessionRecords]
    BY DEF SessionInv
<1>2. ASSUME NEW u \in Sessions PROVE \E e : e = session'[u] /\ Faithful(e) /\ Calm(e)
  <2>1. PICK e : e = session'[u]
      OBVIOUS
  <2>2. CASE u = s
      BY <1>1, <2>1, <2>2
  <2>3. CASE u # s
    <3>1. e = session[u]
        BY <1>1, <2>1, <2>3
    <3> QED
        BY <2>1, <3>1 DEF SessionInv
  <2> QED
      BY <2>2, <2>3
<1> QED
    BY <1>1, <1>2, OnlySessions

(* What a session e may become by what it learns from the read it is at.   *)
Learns(e, g) ==
    /\ g \in SessionRecords
    /\ g.state = e.state /\ g.kind = e.kind /\ g.v = e.v /\ g.p = e.p /\ g.request = e.request
    /\ g.step = e.step /\ g.seen = e.seen /\ g.calm = e.calm
    /\ At(e) \notin {"metadata", "platforms"} => g.content = e.content
    /\ At(e) = "metadata" => g.content = dir[e.v].meta[e.p]
    /\ At(e) = "names" /\ e.calm => g.listed = {TRUE}
    /\ At(e) = "platforms" /\ e.calm => g.content = MetadataFound(dir[e.v], e.p, {})
    /\ At(e) = "getChecksums" => g.sums = dir[e.v].sums
    /\ At(e) = "getSignature" => (dir[e.v].sig = e.sums /\ <<e.p, e.content>> \in e.sums => g.trusted)

(* Every read but that of the archive.                                     *)
LEMMA ReadStep ==
    ASSUME MaxFaults <= 1, SessionInv, NEW s \in Sessions, NEW r, r # "getArchive", NEW found \in BOOLEAN,
           NEW g, Read(s, r, found, g), Learns(session[s], g),
           r = "metadata" /\ found => g.content # None,
           session[s].calm => found
    PROVE  SessionInv'
<1>1. PICK e : e = session[s]
    OBVIOUS
<1>2. Registry /\ e \in SessionRecords /\ Faithful(e) /\ Calm(e)
    BY <1>1 DEF SessionInv
<1>3. e.state = "reading" /\ At(e) = r /\ UNCHANGED vars
    BY <1>1 DEF Read, Reading, At
<1>4. CASE found
  <2>1. PICK f : f = Continued(g)
      OBVIOUS
  <2>2. session' = [session EXCEPT ![s] = f]
      BY <1>4, <2>1 DEF Read
  <2>3. f \in SessionRecords /\ Faithful(f)
      BY <1>1, <1>2, <1>3, <1>4, <2>1, ReadFaithful DEF Learns
  <2>4. Calm(f)
      BY <1>1, <1>2, <1>3, <2>1, ReadCalm DEF Learns
  <2> QED
      BY <1>3, <2>2, <2>3, <2>4, OneSession
<1>5. CASE ~found
  <2>1. PICK f : f = Failed(e)
      OBVIOUS
  <2>2. session' = [session EXCEPT ![s] = f]
      BY <1>1, <1>5, <2>1 DEF Read
  <2>3. ~e.calm
      BY <1>1, <1>5
  <2>4. f \in SessionRecords /\ Faithful(f) /\ Calm(f)
      BY <1>2, <2>1, <2>3, Fails
  <2> QED
      BY <1>3, <2>2, <2>4, OneSession
<1> QED
    BY <1>4, <1>5

(* What a calm session finds at the read it is at.                         *)
LEMMA CalmReader ==
    ASSUME SessionInv, NEW s \in Sessions, NEW e, e = session[s], e.state = "reading", e.calm
    PROVE  /\ e.v \in index
           /\ dir[e.v].meta[e.p] # None
           /\ MetadataFound(dir[e.v], e.p, {}) # None /\ ~BeingWritten(e.v, e.p)
           /\ At(e) = "platforms" => e.listed = {TRUE}
           /\ At(e) = "deprecation" => ~dir[e.v].deprecated
           /\ At(e) \in {"artifact", "getArchive"} => <<e.p, e.content>> \in dir[e.v].zips
           /\ dir[e.v].sums # {} /\ dir[e.v].sig # {}
<1>1. Registry /\ e \in SessionRecords /\ Faithful(e) /\ Calm(e)
    BY DEF SessionInv
<1>2. PICK k, i, j, r, v, p :
          /\ k = e.kind /\ i = e.request /\ j = e.step /\ r = Requests[k][i][j] /\ v = e.v /\ p = e.p
    OBVIOUS
<1>3. k \in Kinds /\ Place(k, i, j) /\ At(e) = r /\ v \in Versions /\ p \in Platforms
    BY <1>1, <1>2 DEF SessionRecords, Faithful, Active, OnItsWay, At
<1>4. /\ acked[v][p] # None /\ ~Disturbed(k, v, p)
      /\ ToldBy(k, i, j) \/ r = "artifact" => e.content = acked[v][p]
    BY <1>1, <1>2, <1>3 DEF Calm, Told
<1>5. /\ v \in index /\ dir[v].meta[p] = acked[v][p] /\ <<p, acked[v][p]>> \in dir[v].zips
      /\ MetadataFound(dir[v], p, {}) = acked[v][p] /\ ~BeingWritten(v, p)
      /\ k # "pull" => ~dir[v].deprecated
      /\ dir[v].sums # {} /\ dir[v].sig # {}
    BY <1>1, <1>3, <1>4, ReaderFinds
<1>6. (r = "deprecation" => k # "pull") /\ (r = "getArchive" => ToldBy(k, i, j))
    BY <1>2, <1>3, Reads
<1>7. At(e) = "platforms" => e.listed = {TRUE}
    BY <1>1 DEF Calm
<1> QED
    BY <1>2, <1>3, <1>4, <1>5, <1>6, <1>7

(* The reads that only check that something is there.                      *)
LEMMA ChecksStep ==
    ASSUME MaxFaults <= 1, SessionInv, NEW s \in Sessions,
           ReadIndex(s) \/ ReadDeprecation(s) \/ CheckArtifact(s) \/ CheckChecksums(s) \/ CheckSignature(s)
    PROVE  SessionInv'
<1>1. PICK e : e = session[s]
    OBVIOUS
<1>2. e \in SessionRecords /\ (e.state = "reading" => e.v \in Versions)
    BY <1>1 DEF SessionInv, Faithful, Active
<1>3. ASSUME NEW r \in {"index", "deprecation", "artifact", "checksums", "signature"},
             NEW found \in BOOLEAN, Read(s, r, found, e), e.calm => found
      PROVE  SessionInv'
  <2>1. At(e) = r
      BY <1>1, <1>3 DEF Read, Reading, At
  <2>2. Learns(e, e)
      BY <1>2, <2>1 DEF Learns
  <2> QED
      BY <1>1, <1>3, <2>2, ReadStep
<1>4. ASSUME NEW r, NEW found, Read(s, r, found, e) PROVE e.state = "reading" /\ At(e) = r
    BY <1>1, <1>4 DEF Read, Reading, At
<1>5. CASE ReadIndex(s)
  <2>1. Read(s, "index", e.v \in index, e)
      BY <1>1, <1>5 DEF ReadIndex
  <2>2. e.calm => e.v \in index
      BY <1>1, <1>4, <2>1, CalmReader
  <2>3. PICK b : b \in BOOLEAN /\ b = (e.v \in index)
    <3>1. (e.v \in index) \in BOOLEAN
        OBVIOUS
    <3> QED
        BY <3>1, Zenon
  <2>4. Read(s, "index", b, e)
      BY <2>1, <2>3, Zenon
  <2>5. e.calm => b
      BY <2>2, <2>3
  <2> QED
      BY <1>3, <2>3, <2>4, <2>5
<1>6. CASE ReadDeprecation(s)
  <2>1. Read(s, "deprecation", ~dir[e.v].deprecated, e)
      BY <1>1, <1>6 DEF ReadDeprecation, Dir
  <2>2. e.calm => ~dir[e.v].deprecated
      BY <1>1, <1>4, <2>1, CalmReader
  <2> QED
      BY <1>3, <2>1, <2>2
<1>7. CASE CheckArtifact(s)
  <2>1. Read(s, "artifact", <<e.p, e.content>> \in dir[e.v].zips, e)
      BY <1>1, <1>7 DEF CheckArtifact, Dir, Artifact
  <2>2. e.calm => <<e.p, e.content>> \in dir[e.v].zips
      BY <1>1, <1>4, <2>1, CalmReader
  <2>3. PICK b : b \in BOOLEAN /\ b = (<<e.p, e.content>> \in dir[e.v].zips)
    <3>1. (<<e.p, e.content>> \in dir[e.v].zips) \in BOOLEAN
        OBVIOUS
    <3> QED
        BY <3>1, Zenon
  <2>4. Read(s, "artifact", b, e)
      BY <2>1, <2>3, Zenon
  <2>5. e.calm => b
      BY <2>2, <2>3
  <2> QED
      BY <1>3, <2>3, <2>4, <2>5
<1>8. CASE CheckChecksums(s)
  <2>1. Read(s, "checksums", dir[e.v].sums # {}, e)
      BY <1>1, <1>8 DEF CheckChecksums, Dir
  <2>2. e.calm => dir[e.v].sums # {}
      BY <1>1, <1>4, <2>1, CalmReader
  <2> QED
      BY <1>3, <2>1, <2>2
<1>9. CASE CheckSignature(s)
  <2>1. Read(s, "signature", dir[e.v].sig # {}, e)
      BY <1>1, <1>9 DEF CheckSignature, Dir
  <2>2. e.calm => dir[e.v].sig # {}
      BY <1>1, <1>4, <2>1, CalmReader
  <2> QED
      BY <1>3, <2>1, <2>2
<1> QED
    BY <1>5, <1>6, <1>7, <1>8, <1>9

(* The walk of the directory.                                              *)
LEMMA NamesStep ==
    ASSUME MaxFaults <= 1, SessionInv, NEW s \in Sessions, ReadNames(s)
    PROVE  SessionInv'
<1>1. PICK e, L : /\ e = session[s]
                  /\ L = {MetadataFound(dir[e.v], e.p, {}) # None}
                             \cup {x \in {TRUE} : BeingWritten(e.v, e.p)}
    OBVIOUS
<1>2. PICK g : g = [e EXCEPT !.listed = L]
    OBVIOUS
<1>3. Read(s, "names", TRUE, g)
    BY <1>1, <1>2 DEF ReadNames
<1>4. e.state = "reading" /\ At(e) = "names" /\ e \in SessionRecords
    BY <1>1, <1>3 DEF Read, Reading, At, SessionInv
<1>5. L \in SUBSET BOOLEAN
    BY <1>1
<1>6. g \in SessionRecords /\ g.listed = L
    BY <1>2, <1>4, <1>5 DEF SessionRecords
<1>7. /\ g.state = e.state /\ g.kind = e.kind /\ g.v = e.v /\ g.p = e.p /\ g.request = e.request
      /\ g.step = e.step /\ g.seen = e.seen /\ g.content = e.content /\ g.calm = e.calm
    BY <1>2, <1>4 DEF SessionRecords
<1>8. e.calm => L = {TRUE}
    BY <1>1, <1>4, CalmReader
<1>9. Learns(e, g)
    BY <1>4, <1>6, <1>7, <1>8 DEF Learns
<1> QED
    BY <1>1, <1>3, <1>9, ReadStep

(* The reads of the metadata.                                              *)
LEMMA ContentStep ==
    ASSUME MaxFaults <= 1, SessionInv, NEW s \in Sessions, ReadPlatforms(s) \/ ReadMetadata(s)
    PROVE  SessionInv'
<1>1. PICK e : e = session[s]
    OBVIOUS
<1>2. e.state = "reading"
    BY <1>1 DEF ReadPlatforms, ReadMetadata, Read, Reading
<1>3. /\ e \in SessionRecords /\ e.v \in Versions /\ e.p \in Platforms /\ dir[e.v] \in Dirs
      /\ BeingPut \in Contents \cup {None}
    BY <1>1, <1>2 DEF SessionInv, Faithful, Active, Registry, IInv, TypeOK, BeingPut, UploadPCs, Undos
<1>4. ASSUME NEW r \in {"platforms", "metadata"}, NEW c \in Contents \cup {None}, NEW L \in SUBSET BOOLEAN,
             r = "metadata" => c = dir[e.v].meta[e.p],
             At(e) = "platforms" /\ e.calm => c = MetadataFound(dir[e.v], e.p, {}),
             NEW g, g = [e EXCEPT !.content = c, !.listed = L], Read(s, r, c # None, g)
      PROVE  SessionInv'
  <2>1. PICK h : h = [e EXCEPT !.content = c] /\ g = [h EXCEPT !.listed = L]
      BY <1>4
  <2>2. At(e) = r /\ h \in SessionRecords
    <3>1. At(e) = r
        BY <1>1, <1>4 DEF Read, Reading, At
    <3>2. h \in SessionRecords
        BY <1>3, <2>1 DEF SessionRecords
    <3> QED
        BY <3>1, <3>2
  <2>3. g \in SessionRecords
      BY <1>4, <2>1, <2>2 DEF SessionRecords
  <2>4. /\ g.state = e.state /\ g.kind = e.kind /\ g.v = e.v /\ g.p = e.p /\ g.request = e.request
        /\ g.step = e.step /\ g.seen = e.seen /\ g.calm = e.calm /\ g.content = c
      BY <1>3, <1>4 DEF SessionRecords
  <2>5. Learns(e, g)
      BY <1>4, <2>2, <2>3, <2>4 DEF Learns
  <2>6. e.calm => c # None
      BY <1>1, <1>2, <1>4, <2>2, CalmReader
  <2>7. (c # None) \in BOOLEAN
      OBVIOUS
  <2> QED
      BY <1>1, <1>4, <2>2, <2>4, <2>5, <2>6, <2>7, ReadStep
<1>5. CASE ReadPlatforms(s)
  <2>1. PICK c \in Candidates(e) :
             Read(s, "platforms", c # None, [e EXCEPT !.content = c, !.listed = {}])
      BY <1>1, <1>5 DEF ReadPlatforms
  <2>2. PICK L, g : L = {} /\ g = [e EXCEPT !.content = c, !.listed = L]
      OBVIOUS
  <2>3. Read(s, "platforms", c # None, g) /\ L \in SUBSET BOOLEAN
      BY <2>1, <2>2
  <2>4. MetadataFound(dir[e.v], e.p, {}) \in Contents \cup {None} /\ dir[e.v].meta[e.p] \in Contents \cup {None}
      BY <1>3 DEF MetadataFound, Dirs, MetaFiles
  <2>5. c \in Contents \cup {None}
      BY <1>3, <2>1, <2>4 DEF Candidates
  <2>6. ASSUME At(e) = "platforms" /\ e.calm PROVE c = MetadataFound(dir[e.v], e.p, {})
    <3>1. e.listed = {TRUE} /\ ~BeingWritten(e.v, e.p)
        BY <1>1, <1>2, <2>6, CalmReader
    <3> QED
        BY <2>1, <3>1 DEF Candidates
  <2> QED
      BY <1>4, <2>2, <2>3, <2>5, <2>6
<1>6. CASE ReadMetadata(s)
  <2>1. PICK c, L, g : c = dir[e.v].meta[e.p] /\ L = e.listed /\ g = [e EXCEPT !.content = c, !.listed = L]
      OBVIOUS
  <2>2. c \in Contents \cup {None} /\ L \in SUBSET BOOLEAN
      BY <1>3, <2>1 DEF Dirs, MetaFiles, SessionRecords
  <2>3. g = [e EXCEPT !.content = c]
      BY <1>3, <2>1 DEF SessionRecords
  <2>4. Read(s, "metadata", c # None, g) /\ At(e) = "metadata"
      BY <1>1, <1>6, <2>1, <2>3 DEF ReadMetadata, Metadata, Dir, Read, Reading, At
  <2> QED
      BY <1>4, <2>1, <2>2, <2>4
<1> QED
    BY <1>5, <1>6

(* The list and the signature that Terraform fetches.                      *)
LEMMA FetchStep ==
    ASSUME MaxFaults <= 1, SessionInv, NEW s \in Sessions, GetChecksums(s) \/ GetSignature(s)
    PROVE  SessionInv'
<1>1. PICK e : e = session[s]
    OBVIOUS
<1>2. e.state = "reading"
    BY <1>1 DEF GetChecksums, GetSignature, Read, Reading
<1>3. e \in SessionRecords /\ e.v \in Versions /\ e.p \in Platforms /\ dir[e.v] \in Dirs
    BY <1>1, <1>2 DEF SessionInv, Faithful, Active, Registry, IInv, TypeOK
<1>4. CASE GetChecksums(s)
  <2>1. PICK x, g : x = dir[e.v].sums /\ g = [e EXCEPT !.sums = x]
      OBVIOUS
  <2>2. Read(s, "getChecksums", x # {}, g)
      BY <1>1, <1>4, <2>1 DEF GetChecksums, Dir
  <2>3. x \in SUBSET Artifacts
      BY <1>3, <2>1 DEF Dirs
  <2>4. g \in SessionRecords /\ g.sums = x
      BY <1>3, <2>1, <2>3 DEF SessionRecords
  <2>5. /\ g.state = e.state /\ g.kind = e.kind /\ g.v = e.v /\ g.p = e.p /\ g.request = e.request
        /\ g.step = e.step /\ g.seen = e.seen /\ g.content = e.content /\ g.calm = e.calm
      BY <1>3, <2>1 DEF SessionRecords
  <2>6. At(e) = "getChecksums"
      BY <1>1, <2>2 DEF Read, Reading, At
  <2>7. Learns(e, g)
      BY <2>1, <2>4, <2>5, <2>6 DEF Learns
  <2>8. (x # {}) \in BOOLEAN /\ (e.calm => x # {})
      BY <1>1, <1>2, <2>1, CalmReader
  <2> QED
      BY <1>1, <2>2, <2>7, <2>8, ReadStep
<1>5. CASE GetSignature(s)
  <2>1. PICK x, b, g : /\ x = dir[e.v].sig /\ b \in BOOLEAN
                       /\ b = (x = e.sums /\ <<e.p, e.content>> \in e.sums)
                       /\ g = [e EXCEPT !.sums = {}, !.trusted = b]
      OBVIOUS
  <2>2. Read(s, "getSignature", x # {}, g)
      BY <1>1, <1>5, <2>1 DEF GetSignature, Dir, Artifact
  <2>3. g \in SessionRecords
    <3>1. PICK y, h : y = {} /\ h = [e EXCEPT !.sums = y] /\ g = [h EXCEPT !.trusted = b]
        BY <2>1
    <3>2. y \in SUBSET Artifacts
        BY <3>1
    <3>3. h \in SessionRecords
        BY <1>3, <3>1, <3>2 DEF SessionRecords
    <3> QED
        BY <2>1, <3>1, <3>3 DEF SessionRecords
  <2>4. /\ g.state = e.state /\ g.kind = e.kind /\ g.v = e.v /\ g.p = e.p /\ g.request = e.request
        /\ g.step = e.step /\ g.seen = e.seen /\ g.content = e.content /\ g.calm = e.calm
      BY <1>3, <2>1 DEF SessionRecords
  <2>5. g.trusted = b
      BY <1>3, <2>1 DEF SessionRecords
  <2>6. At(e) = "getSignature"
      BY <1>1, <2>2 DEF Read, Reading, At
  <2>7. dir[e.v].sig = e.sums /\ <<e.p, e.content>> \in e.sums => g.trusted
      BY <2>1, <2>5
  <2>8. Learns(e, g)
      BY <2>3, <2>4, <2>6, <2>7 DEF Learns
  <2>9. (x # {}) \in BOOLEAN /\ (e.calm => x # {})
      BY <1>1, <1>2, <2>1, CalmReader
  <2> QED
      BY <1>1, <2>2, <2>8, <2>9, ReadStep
<1> QED
    BY <1>4, <1>5

(* A client begins.                                                        *)
LEMMA BeginStep ==
    ASSUME MaxFaults <= 1, SessionInv, NEW s \in Sessions, NEW k \in Kinds, NEW v \in Versions,
           NEW p \in Platforms, Begin(s, k, v, p)
    PROVE  SessionInv'
<1>1. Registry /\ dir[v] \in Dirs
    BY DEF SessionInv, Registry, IInv, TypeOK
<1>2. PICK c, S : c = Visible(dir[v])[p] /\ S = {c}
    OBVIOUS
<1>3. c \in Contents \cup {None} /\ S \in SUBSET (Contents \cup {None})
    BY <1>1, <1>2 DEF Visible, Dirs, MetaFiles
<1>4. PICK b : b \in BOOLEAN /\ b = (acked[v][p] # None /\ ~Disturbed(k, v, p))
  <2>1. (acked[v][p] # None /\ ~Disturbed(k, v, p)) \in BOOLEAN
      OBVIOUS
  <2> QED
      BY <2>1, Zenon
<1>5. PICK f : f = [NoSession EXCEPT !.state = "reading", !.kind = k, !.v = v, !.p = p, !.seen = S, !.calm = b]
    OBVIOUS
<1>6. session' = [session EXCEPT ![s] = f] /\ UNCHANGED vars
  <2>1. f = [NoSession EXCEPT !.state = "reading", !.kind = k, !.v = v, !.p = p,
                              !.seen = {Visible(dir[v])[p]},
                              !.calm = acked[v][p] # None /\ ~Disturbed(k, v, p)]
      BY <1>2, <1>4, <1>5, Zenon
  <2> QED
      BY <2>1 DEF Begin
<1>7. f = [state |-> "reading", kind |-> k, v |-> v, p |-> p, request |-> 1, step |-> 1,
           listed |-> {}, content |-> None, sums |-> {}, trusted |-> FALSE, bytes |-> None, seen |-> S,
           calm |-> b]
    BY <1>5 DEF NoSession
<1>8. f \in SessionRecords
    BY <1>3, <1>4, <1>7 DEF SessionRecords, Active
<1>9. /\ f.state = "reading" /\ f.kind = k /\ f.v = v /\ f.p = p /\ f.request = 1 /\ f.step = 1
      /\ f.seen = S
    BY <1>7
<1>10. f.calm = b
    BY <1>7
<1>11. Place(k, 1, 1) /\ ~ToldBy(k, 1, 1) /\ Requests[k][1][1] \in {"index", "metadata"}
  <2>1. CASE k \in {"terraform", "mirror"}
    <3>1. Requests[k][1] = providerVersions /\ 1 \in 1..Len(Requests[k])
        BY <2>1, RequestTable, ReadTable
    <3> QED
        BY <2>1, <3>1, ReadTable DEF Place, ToldBy
  <2>2. CASE k = "pull"
    <3>1. Requests[k][1] = providerDownload /\ 1 \in 1..Len(Requests[k])
        BY <2>2, RequestTable
    <3> QED
        BY <2>2, <3>1, ReadTable DEF Place, ToldBy
  <2> QED
      BY <2>1, <2>2, RequestTable
<1>12. OnItsWay(f) /\ ~Told(f) /\ At(f) \in {"index", "metadata"}
    BY <1>9, <1>11 DEF OnItsWay, Told, At
<1>13. Faithful(f)
    BY <1>2, <1>9, <1>12 DEF Faithful, Active
<1>14. f.calm => acked[v][p] # None /\ ~Disturbed(k, v, p)
    BY <1>4, <1>10
<1>15. Calm(f)
    BY <1>9, <1>12, <1>14 DEF Calm, Active
<1> QED
    BY <1>6, <1>8, <1>13, <1>15, OneSession

(* The archive arrives, whole or not, or is gone.                          *)
LEMMA GetArchiveStep ==
    ASSUME MaxFaults <= 1, SessionInv, NEW s \in Sessions, NEW whole \in BOOLEAN, GetArchive(s, whole)
    PROVE  SessionInv'
<1>1. PICK e : e = session[s]
    OBVIOUS
<1>2. Registry /\ e \in SessionRecords /\ Faithful(e) /\ Calm(e)
    BY <1>1 DEF SessionInv
<1>3. e.state = "reading" /\ At(e) = "getArchive" /\ UNCHANGED vars
    BY <1>1 DEF GetArchive, Reading, At
<1>4. e.kind \in Kinds /\ Place(e.kind, e.request, e.step) /\ e.v \in Versions /\ e.p \in Platforms
    BY <1>2, <1>3 DEF SessionRecords, Faithful, Active, OnItsWay
<1>5. Told(e)
  <2>1. PICK k, i, j : k = e.kind /\ i = e.request /\ j = e.step
      OBVIOUS
  <2>2. k \in Kinds /\ Place(k, i, j) /\ Requests[k][i][j] = "getArchive"
      BY <1>3, <1>4, <2>1 DEF At
  <2>3. ToldBy(k, i, j)
      BY <2>2, Reads
  <2> QED
      BY <2>1, <2>3 DEF Told
<1>6. CASE <<e.p, e.content>> \in dir[e.v].zips
  <2>1. PICK b : b \in BOOLEAN /\ b = (e.calm /\ whole)
    <3>1. (e.calm /\ whole) \in BOOLEAN
        OBVIOUS
    <3> QED
        BY <3>1, Zenon
  <2>2. PICK c : c = IF whole THEN e.content ELSE None
      OBVIOUS
  <2>3. PICK f : f = [e EXCEPT !.state = "received", !.bytes = c, !.calm = b]
      OBVIOUS
  <2>4. session' = [session EXCEPT ![s] = f]
    <3>1. f = [e EXCEPT !.state = "received", !.bytes = IF whole THEN e.content ELSE None,
                        !.calm = e.calm /\ whole]
        BY <2>1, <2>2, <2>3, Zenon
    <3> QED
        BY <1>1, <1>6, <3>1 DEF GetArchive, Artifact, Dir
  <2>5. c \in Contents \cup {None} /\ c \in {e.content, None}
      BY <1>2, <2>2 DEF SessionRecords
  <2>6. f \in SessionRecords
    <3>1. PICK x, g, h : x = "received" /\ g = [e EXCEPT !.state = x] /\ h = [g EXCEPT !.bytes = c]
                         /\ f = [h EXCEPT !.calm = b]
        BY <2>3
    <3>2. x \in {"idle", "installed", "failed"} \cup Active /\ g = [e EXCEPT !.state = x]
        BY <3>1 DEF Active
    <3>3. g \in SessionRecords
        BY <1>2, <3>2 DEF SessionRecords
    <3>4. c \in Contents \cup {None} /\ h = [g EXCEPT !.bytes = c]
        BY <2>5, <3>1
    <3>5. h \in SessionRecords
        BY <3>3, <3>4 DEF SessionRecords
    <3>6. b \in BOOLEAN /\ f = [h EXCEPT !.calm = b]
        BY <2>1, <3>1
    <3> QED
        BY <3>5, <3>6 DEF SessionRecords
  <2>7. /\ f.state = "received" /\ f.kind = e.kind /\ f.v = e.v /\ f.p = e.p /\ f.content = e.content
        /\ f.bytes = c /\ f.seen = e.seen
      BY <1>2, <2>3 DEF SessionRecords
  <2>8. f.calm = b /\ f.trusted = e.trusted
      BY <1>2, <2>3 DEF SessionRecords
  <2>9. Faithful(f)
      BY <1>2, <1>3, <1>5, <2>5, <2>7 DEF Faithful, Active
  <2>10. Calm(f)
    <3> SUFFICES ASSUME f.calm PROVE Calm(f)
        BY DEF Calm
    <3>1. e.calm /\ whole
      <4>1. f.calm = (e.calm /\ whole)
          BY <2>1, <2>8, Zenon
      <4> QED
          BY <4>1
    <3>2. c = e.content
        BY <2>2, <3>1
    <3>3. /\ acked[e.v][e.p] # None /\ ~Disturbed(e.kind, e.v, e.p) /\ e.content = acked[e.v][e.p]
          /\ e.kind = "terraform" => e.trusted
        BY <1>2, <1>3, <1>5, <3>1 DEF Calm
    <3>4. e.kind = "terraform" => f.trusted
        BY <2>8, <3>3
    <3> QED
        BY <2>7, <3>2, <3>3, <3>4 DEF Calm, Active
  <2> QED
      BY <1>3, <2>4, <2>6, <2>9, <2>10, OneSession
<1>7. CASE ~(<<e.p, e.content>> \in dir[e.v].zips)
  <2>1. PICK f : f = Failed(e)
      OBVIOUS
  <2>2. session' = [session EXCEPT ![s] = f]
      BY <1>1, <1>7, <2>1 DEF GetArchive, Artifact, Dir
  <2>3. ~e.calm
      BY <1>1, <1>3, <1>7, CalmReader
  <2>4. f \in SessionRecords /\ Faithful(f) /\ Calm(f)
      BY <1>2, <2>1, <2>3, Fails
  <2> QED
      BY <1>3, <2>2, <2>4, OneSession
<1> QED
    BY <1>6, <1>7

(* The client checks what it has received, puts it in its place, or gives  *)
(* up.                                                                     *)
LEMMA ClientStep ==
    ASSUME MaxFaults <= 1, SessionInv, NEW s \in Sessions, Verify(s) \/ Save(s) \/ GiveUp(s)
    PROVE  SessionInv'
<1>1. PICK e : e = session[s]
    OBVIOUS
<1>2. Registry /\ e \in SessionRecords /\ Faithful(e) /\ Calm(e)
    BY <1>1 DEF SessionInv
<1>3. UNCHANGED vars
    BY DEF Verify, Save, GiveUp
<1>4. CASE Verify(s) /\ Verified(s)
  <2>1. PICK f : f = [e EXCEPT !.state = "verified"]
      OBVIOUS
  <2>2. session' = [session EXCEPT ![s] = f] /\ e.state = "received"
      BY <1>1, <1>4, <2>1 DEF Verify
  <2>3. f \in SessionRecords
    <3>1. PICK x : x = "verified"
        OBVIOUS
    <3>2. x \in {"idle", "installed", "failed"} \cup Active /\ f = [e EXCEPT !.state = x]
        BY <2>1, <3>1 DEF Active
    <3> QED
        BY <1>2, <3>2 DEF SessionRecords
  <2>4. /\ f.state = "verified" /\ f.kind = e.kind /\ f.v = e.v /\ f.p = e.p /\ f.content = e.content
        /\ f.bytes = e.bytes /\ f.seen = e.seen
      BY <1>2, <2>1 DEF SessionRecords
  <2>5. f.calm = e.calm /\ f.trusted = e.trusted
      BY <1>2, <2>1 DEF SessionRecords
  <2>6. e.bytes = e.content
      BY <1>1, <1>4 DEF Verified
  <2>7. Faithful(f)
      BY <1>2, <2>2, <2>4, <2>6 DEF Faithful, Active
  <2>8. Calm(f)
    <3> SUFFICES ASSUME f.calm PROVE Calm(f)
        BY DEF Calm
    <3>1. /\ acked[e.v][e.p] # None /\ ~Disturbed(e.kind, e.v, e.p) /\ e.content = acked[e.v][e.p]
          /\ e.kind = "terraform" => e.trusted
        BY <1>2, <2>2, <2>5 DEF Calm
    <3>2. e.kind = "terraform" => f.trusted
        BY <2>5, <3>1
    <3> QED
        BY <2>4, <2>6, <3>1, <3>2 DEF Calm, Active
  <2> QED
      BY <1>3, <2>2, <2>3, <2>7, <2>8, OneSession
<1>5. CASE Verify(s) /\ ~Verified(s)
  <2>1. PICK f : f = Failed(e)
      OBVIOUS
  <2>2. session' = [session EXCEPT ![s] = f] /\ e.state = "received"
      BY <1>1, <1>5, <2>1 DEF Verify
  <2>3. e.calm => e.bytes = e.content /\ (e.kind = "terraform" => e.trusted)
      BY <1>2, <2>2 DEF Calm
  <2>4. ~e.calm
      BY <1>1, <1>5, <2>3 DEF Verified
  <2>5. f \in SessionRecords /\ Faithful(f) /\ Calm(f)
      BY <1>2, <2>1, <2>4, Fails
  <2> QED
      BY <1>3, <2>2, <2>5, OneSession
<1>6. CASE Save(s)
  <2>1. PICK S, f : /\ S = e.seen \cap {e.bytes}
                    /\ f = [NoSession EXCEPT !.state = "installed", !.bytes = e.bytes, !.seen = S]
      OBVIOUS
  <2>2. session' = [session EXCEPT ![s] = f] /\ e.state = "verified"
      BY <1>1, <1>6, <2>1 DEF Save
  <2>3. S \in SUBSET (Contents \cup {None}) /\ e.bytes \in Contents \cup {None}
      BY <1>2, <2>1 DEF SessionRecords
  <2>4. e.bytes \in S \ {None}
      BY <1>2, <2>1, <2>2 DEF Faithful, Active
  <2>5. f = [state |-> "installed", kind |-> "pull", v |-> None, p |-> None, request |-> 1, step |-> 1,
             listed |-> {}, content |-> None, sums |-> {}, trusted |-> FALSE, bytes |-> e.bytes, seen |-> S,
             calm |-> FALSE]
      BY <2>1 DEF NoSession
  <2>6. f \in SessionRecords
      BY <2>3, <2>5, RequestTable DEF SessionRecords
  <2>7. f.state = "installed" /\ f.bytes = e.bytes /\ f.seen = S
      BY <2>5
  <2>8. ~f.calm
      BY <2>5
  <2>9. Faithful(f)
      BY <2>4, <2>7 DEF Faithful, Active
  <2>10. Calm(f)
      BY <2>8 DEF Calm
  <2> QED
      BY <1>3, <2>2, <2>6, <2>9, <2>10, OneSession
<1>7. CASE GiveUp(s)
  <2>1. PICK f : f = [Failed(e) EXCEPT !.calm = FALSE]
      OBVIOUS
  <2>2. session' = [session EXCEPT ![s] = f]
      BY <1>1, <1>7, <2>1 DEF GiveUp
  <2>3. ~f.calm
      BY <2>1 DEF Failed, NoSession
  <2>4. f \in SessionRecords /\ Faithful(f)
      BY <1>2, <2>1, Fails
  <2>5. Calm(f)
      BY <2>3 DEF Calm
  <2> QED
      BY <1>3, <2>2, <2>4, <2>5, OneSession
<1> QED
    BY <1>4, <1>5, <1>6, <1>7

-----------------------------------------------------------------------------
(* A step of the registry beside the sessions *)

(* It leaves the sessions that are over alone ...                          *)
LEMMA OverStays ==
    ASSUME NEW f, f.state \notin Active, Faithful(f), ~f.calm
    PROVE  Faithful(f)' /\ Calm(f)'
<1>1. Faithful(f)'
    BY DEF Faithful, Active
<1> QED
    BY <1>1 DEF Calm

(* ... and the others go on with what they had.                            *)
LEMMA GoesOn ==
    ASSUME Registry, Registry', [Next]_vars, NEW e \in SessionRecords, e.state \in Active,
           Faithful(e), Calm(e), NEW k, NEW v, NEW p, k = e.kind, v = e.v, p = e.p,
           NEW S, S = e.seen \cup {Visible(dir'[v])[p]},
           NEW b \in BOOLEAN, b => e.calm /\ ~Disturbed(k, v, p)',
           NEW f, f = [e EXCEPT !.seen = S, !.calm = b]
    PROVE  f \in SessionRecords /\ Faithful(f)' /\ Calm(f)'
<1>1. v \in Versions /\ p \in Platforms
    BY DEF Faithful
<1>2. S \in SUBSET (Contents \cup {None})
  <2>1. dir'[v] \in Dirs
      BY <1>1 DEF Registry, IInv, TypeOK
  <2>2. Visible(dir'[v])[p] \in Contents \cup {None}
      BY <1>1, <2>1 DEF Visible, Dirs, MetaFiles
  <2> QED
      BY <2>2 DEF SessionRecords
<1>3. f \in SessionRecords
  <2>1. PICK g : g = [e EXCEPT !.seen = S] /\ f = [g EXCEPT !.calm = b]
      OBVIOUS
  <2>2. g \in SessionRecords
      BY <1>2, <2>1 DEF SessionRecords
  <2> QED
      BY <2>1, <2>2 DEF SessionRecords
<1>4. /\ f.state = e.state /\ f.kind = k /\ f.v = v /\ f.p = p /\ f.request = e.request
      /\ f.step = e.step /\ f.content = e.content /\ f.sums = e.sums /\ f.bytes = e.bytes /\ f.seen = S
    BY DEF SessionRecords
<1>5. f.trusted = e.trusted /\ f.calm = b /\ f.listed = e.listed
    BY DEF SessionRecords
<1>6. OnItsWay(f) = OnItsWay(e) /\ At(f) = At(e) /\ Told(f) = Told(e)
    BY <1>4 DEF OnItsWay, At, Told
<1>7. Faithful(f)'
  <2>1. Visible(dir'[v])[p] \in S /\ e.seen \subseteq S
      OBVIOUS
  <2>2. /\ e.state = "reading" => OnItsWay(f)
        /\ (e.state = "reading" => Told(f)) => e.content \in S \ {None}
        /\ e.state = "received" => e.bytes \in {e.content, None}
        /\ e.state = "verified" => e.bytes = e.content
        /\ e.state # "installed"
      BY <1>6, <2>1 DEF Faithful, Active
  <2>3. OnItsWay(f)' = OnItsWay(f) /\ Told(f)' = Told(f)
      BY DEF OnItsWay, Told
  <2> QED
      BY <1>1, <1>4, <2>1, <2>2, <2>3 DEF Faithful
<1>8. Calm(f)'
  <2> SUFFICES ASSUME b PROVE Calm(f)'
      BY <1>5 DEF Calm
  <2>1. ~Disturbed(k, v, p)' /\ e.calm
      OBVIOUS
  <2>2. /\ acked[v][p] # None /\ ~Disturbed(k, v, p)
        /\ (e.state = "reading" => Told(e) \/ At(e) = "artifact") => e.content = acked[v][p]
        /\ e.state = "reading" /\ At(e) = "getSignature" => e.sums = dir[v].sums
        /\ e.state = "reading" /\ At(e) = "platforms" => f.listed = {TRUE}
        /\ e.state # "reading" => e.bytes = e.content
      BY <1>5, <2>1 DEF Calm
  <2>3. k = "terraform" /\ (e.state = "reading" => At(e) = "getArchive") => e.trusted
      BY <2>1 DEF Calm
  <2>4. acked'[v][p] = acked[v][p] /\ (k = "terraform" => dir'[v].sums = dir[v].sums)
      BY <1>1, <2>1, <2>2, CalmStep
  <2>5. e.state = "reading" /\ At(e) = "getSignature" => k = "terraform"
    <3>1. PICK i, j : i = e.request /\ j = e.step
        OBVIOUS
    <3>2. e.state = "reading" => k \in Kinds /\ Place(k, i, j)
        BY <3>1 DEF Faithful, OnItsWay, SessionRecords
    <3> QED
        BY <3>1, <3>2, Reads DEF At
  <2>6. At(f)' = At(f) /\ Told(f)' = Told(f)
      BY DEF At, Told
  <2>7. Disturbed(f.kind, f.v, f.p)' = Disturbed(k, v, p)'
      BY <1>4
  <2>8. k = "terraform" /\ (e.state = "reading" => At(e) = "getArchive") => f.trusted
      BY <1>5, <2>3
  <2>9. (f.state = "reading" => Told(f)' \/ At(f)' = "artifact") => f.content = acked'[f.v][f.p]
    <3>1. (e.state = "reading" => Told(e) \/ At(e) = "artifact") => e.content = acked'[v][p]
        BY <2>2, <2>4
    <3>2. (Told(f)' <=> Told(e)) /\ At(f)' = At(e)
        BY <1>6, <2>6
    <3> QED
        BY <1>4, <3>1, <3>2
  <2>11. f.state = "reading" /\ At(f)' = "platforms" => f.listed = {TRUE}
      BY <1>4, <1>6, <2>2, <2>6
  <2>12. f.state = "reading" /\ At(f)' = "getSignature" => f.sums = dir'[f.v].sums
      BY <1>4, <1>6, <2>2, <2>4, <2>5, <2>6
  <2>13. f.kind = "terraform" /\ (f.state = "reading" => At(f)' = "getArchive") => f.trusted
      BY <1>4, <1>6, <2>6, <2>8
  <2>14. f.state # "reading" => f.bytes = f.content
      BY <1>4, <2>2
  <2>15. f.state \in Active /\ acked'[f.v][f.p] # None /\ ~Disturbed(f.kind, f.v, f.p)'
      BY <1>4, <2>1, <2>2, <2>4, <2>7
  <2> QED
      BY <2>9, <2>11, <2>12, <2>13, <2>14, <2>15 DEF Calm
<1> QED
    BY <1>3, <1>7, <1>8

(* A session whose walk may have ended early expects nothing any more.     *)
LEMMA WalkEnds ==
    ASSUME NEW e \in SessionRecords, NEW d, d = WalkMayEnd(e), Faithful(e)
    PROVE  /\ d \in SessionRecords /\ Faithful(d) /\ Calm(d)
           /\ d.state = e.state /\ d.kind = e.kind /\ d.v = e.v /\ d.p = e.p /\ d.seen = e.seen
<1>1. PICK L, b, g : /\ L = e.listed \cup {FALSE} /\ b = FALSE /\ g = [e EXCEPT !.listed = L]
                     /\ d = [g EXCEPT !.calm = b]
    BY DEF WalkMayEnd
<1>2. L \in SUBSET BOOLEAN /\ b \in BOOLEAN
    BY <1>1 DEF SessionRecords
<1>3. g \in SessionRecords
    BY <1>1, <1>2 DEF SessionRecords
<1>4. d \in SessionRecords
    BY <1>1, <1>2, <1>3 DEF SessionRecords
<1>5. /\ d.state = e.state /\ d.kind = e.kind /\ d.v = e.v /\ d.p = e.p /\ d.seen = e.seen
      /\ d.request = e.request /\ d.step = e.step /\ d.content = e.content /\ d.bytes = e.bytes
    BY <1>1 DEF SessionRecords
<1>6. ~d.calm
    BY <1>1, <1>3 DEF SessionRecords
<1>7. OnItsWay(d) = OnItsWay(e) /\ Told(d) = Told(e)
    BY <1>5 DEF OnItsWay, Told
<1>8. Faithful(d)
    BY <1>5, <1>7 DEF Faithful
<1> QED
    BY <1>4, <1>5, <1>6, <1>8 DEF Calm

(* The garbage collection is noticed by the sessions that walk.            *)
LEMMA SweepStep ==
    ASSUME MaxFaults <= 1, SessionInv, NEW v \in Versions, Sweep(v)
    PROVE  SessionInv'
<1>1. UNCHANGED vars
    BY DEF Sweep
<1>2. ASSUME NEW s \in Sessions
      PROVE  session'[s] \in SessionRecords /\ \E f : f = session'[s] /\ Faithful(f) /\ Calm(f)
  <2>1. PICK e, f : e = session[s] /\ f = session'[s]
      OBVIOUS
  <2>2. e \in SessionRecords /\ Faithful(e) /\ Calm(e)
      BY <2>1 DEF SessionInv
  <2>3. f = IF Walks(s, v) THEN WalkMayEnd(e) ELSE e
      BY <2>1 DEF Sweep
  <2>4. f \in SessionRecords /\ Faithful(f) /\ Calm(f)
      BY <2>2, <2>3, WalkEnds
  <2> QED
      BY <2>1, <2>4
<1>3. session' \in [Sessions -> SessionRecords]
  <2>1. session' = [s \in Sessions |-> session'[s]]
      BY DEF Sweep
  <2> QED
      BY <1>2, <2>1
<1> QED
    BY <1>1, <1>2, <1>3, OnlySessions

(* So every step of the registry keeps what the sessions rely on.          *)
LEMMA MutateStep ==
    ASSUME MaxFaults <= 1, SessionInv, Mutate
    PROVE  SessionInv'
<1>1. Registry /\ Next /\ session \in [Sessions -> SessionRecords]
    BY DEF SessionInv, Mutate
<1>2. Registry'
    BY <1>1, RegistryStep
<1>3. ASSUME NEW s \in Sessions
      PROVE  session'[s] \in SessionRecords /\ Faithful(session[s])' /\ Calm(session[s])'
  <2>1. PICK e, d, f, k, v, p :
             /\ e = session[s] /\ f = session'[s] /\ k = e.kind /\ v = e.v /\ p = e.p
             /\ d = IF Walks(s, e.v) /\ Vanishes(e.v) THEN WalkMayEnd(e) ELSE e
      OBVIOUS
  <2>2. e \in SessionRecords /\ Faithful(e) /\ Calm(e)
      BY <1>1, <2>1 DEF SessionInv
  <2>3. f = IF e.state \notin Active THEN e
            ELSE IF phase' # "up" /\ e.step > 1 THEN [Failed(e) EXCEPT !.calm = FALSE]
            ELSE [d EXCEPT !.seen = e.seen \cup {Visible(dir'[e.v])[e.p]},
                           !.calm = /\ @
                                    /\ \A kk \in {e.kind}, vv \in {e.v}, pp \in {e.p} :
                                          ~Disturbed(kk, vv, pp)']
      BY <2>1 DEF Mutate
  <2>4. f \in SessionRecords /\ Faithful(f)' /\ Calm(f)'
    <3>1. CASE e.state \notin Active
      <4>1. f = e /\ ~e.calm
          BY <2>2, <2>3, <3>1 DEF Calm
      <4> QED
          BY <2>2, <3>1, <4>1, OverStays
    <3>2. CASE e.state \in Active /\ phase' # "up" /\ e.step > 1
      <4>1. f = [Failed(e) EXCEPT !.calm = FALSE]
          BY <2>3, <3>2
      <4>2. f \in SessionRecords /\ Faithful(f)
          BY <2>2, <4>1, Fails
      <4>3. f.state \notin Active
          BY <4>1 DEF Failed, NoSession, Active
      <4>4. ~f.calm
          BY <4>1 DEF Failed, NoSession
      <4> QED
          BY <4>2, <4>3, <4>4, OverStays
    <3>3. CASE e.state \in Active /\ ~(phase' # "up" /\ e.step > 1)
      <4>1. /\ d \in SessionRecords /\ Faithful(d) /\ Calm(d) /\ d.state = e.state
            /\ d.kind = k /\ d.v = v /\ d.p = p /\ d.seen = e.seen
          BY <2>1, <2>2, WalkEnds
      <4>2. PICK S, b : /\ S = e.seen \cup {Visible(dir'[v])[p]}
                        /\ b = (/\ d.calm
                                /\ \A kk \in {e.kind}, vv \in {e.v}, pp \in {e.p} :
                                      ~Disturbed(kk, vv, pp)')
          OBVIOUS
      <4>3. b \in BOOLEAN
          BY <4>2
      <4>4. f = [d EXCEPT !.seen = S, !.calm = b]
        <5>1. f = [d EXCEPT !.seen = e.seen \cup {Visible(dir'[e.v])[e.p]},
                            !.calm = /\ d.calm
                                     /\ \A kk \in {e.kind}, vv \in {e.v}, pp \in {e.p} :
                                           ~Disturbed(kk, vv, pp)']
            BY <2>3, <3>3, Zenon
        <5> QED
            BY <2>1, <4>2, <5>1, Zenon
      <4>5. b => d.calm /\ ~Disturbed(k, v, p)'
          BY <2>1, <4>2
      <4>6. /\ S = d.seen \cup {Visible(dir'[v])[p]} /\ k = d.kind /\ v = d.v /\ p = d.p
            /\ d.state \in Active /\ [Next]_vars /\ Registry
          BY <1>1, <2>1, <3>3, <4>1, <4>2
      <4> QED
          BY <1>2, <4>1, <4>3, <4>4, <4>5, <4>6, GoesOn
    <3> QED
        BY <3>1, <3>2, <3>3
  <2>5. Faithful(session[s])'
      BY <2>1, <2>4
  <2>6. Calm(session[s])'
      BY <2>1, <2>4
  <2> QED
      BY <2>1, <2>4, <2>5, <2>6
<1>4. session' \in [Sessions -> SessionRecords]
  <2>1. session' = [s \in Sessions |-> session'[s]]
      BY DEF Mutate
  <2> QED
      BY <1>3, <2>1
<1> QED
    BY <1>2, <1>3, <1>4 DEF SessionInv

-----------------------------------------------------------------------------
(* The theorems *)

(* The registry's promises and every session's expectations hold from the  *)
(* first step on, whatever the clients and the mutations do.               *)
THEOREM SessionInvariant == ASSUME MaxFaults <= 1 PROVE SessionSpec => []SessionInv
<1>1. SessionInit => SessionInv
  <2> SUFFICES ASSUME SessionInit PROVE SessionInv
      OBVIOUS
  <2>1. Registry
      BY RegistryBegins DEF SessionInit
  <2>2. NoSession \in SessionRecords /\ Faithful(NoSession) /\ Calm(NoSession)
    <3>1. NoSession \in SessionRecords
        BY RequestTable DEF NoSession, SessionRecords
    <3>2. NoSession.state = "idle" /\ ~NoSession.calm
        BY DEF NoSession
    <3> QED
        BY <3>1, <3>2 DEF Faithful, Calm, Active
  <2> QED
      BY <2>1, <2>2 DEF SessionInit, SessionInv
<1>2. SessionInv /\ [SessionNext]_sessionVars => SessionInv'
  <2> SUFFICES ASSUME SessionInv, [SessionNext]_sessionVars PROVE SessionInv'
      OBVIOUS
  <2>1. CASE Mutate
      BY <2>1, MutateStep
  <2>2. ASSUME NEW s \in Sessions, SessionStep(s) PROVE SessionInv'
      BY <2>2, BeginStep, ChecksStep, NamesStep, ContentStep, FetchStep, GetArchiveStep, ClientStep
      DEF SessionStep
  <2>3. CASE UNCHANGED sessionVars
    <3>1. UNCHANGED vars /\ session' = session
        BY <2>3 DEF sessionVars
    <3>2. \A s \in Sessions : \E e : e = session'[s] /\ Faithful(e) /\ Calm(e)
        BY <3>1 DEF SessionInv
    <3> QED
        BY <3>1, <3>2, OnlySessions DEF SessionInv
  <2>4. ASSUME NEW v \in Versions, Sweep(v) PROVE SessionInv'
      BY <2>4, SweepStep
  <2> QED
      BY <2>1, <2>2, <2>3, <2>4 DEF SessionNext
<1> QED
    BY <1>1, <1>2, PTL DEF SessionSpec

(* Whatever a terraform or tfreg client installs through the handlers of   *)
(* main.go was published for its target at some moment of its session.     *)
THEOREM AlwaysInstallsWhatWasPublished ==
    ASSUME MaxFaults <= 1 PROVE SessionSpec => []InstallsWhatWasPublished
<1>1. SessionInv => InstallsWhatWasPublished
    BY DEF SessionInv, Faithful, InstallsWhatWasPublished
<1> QED
    BY <1>1, SessionInvariant, PTL

(* A client that nothing in Disturbed meets, and that no file goes from    *)
(* under while a handler walks its version's directory (WalkMayEnd), gets  *)
(* the version that an upload was answered 200 for.                        *)
THEOREM CalmSessionsAlwaysSucceed ==
    ASSUME MaxFaults <= 1 PROVE SessionSpec => []CalmSessionsSucceed
<1>1. SessionInv => CalmSessionsSucceed
    BY DEF SessionInv, Calm, Active, CalmSessionsSucceed
<1> QED
    BY <1>1, SessionInvariant, PTL
=============================================================================

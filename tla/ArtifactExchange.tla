-------------------------- MODULE ArtifactExchange --------------------------
(***************************************************************************)
(* The commands of tfreg that move artifacts: publish, push, delete (to    *)
(* the Terraform registry), publish --oci-ref (then to an OCI repository)  *)
(* and import (from an OCI repository to the registry): cmd/tfreg.         *)
(*                                                                         *)
(* A command is one process that makes one request after the other.  It    *)
(* may fail, time out or be killed at any of them and is then run again by *)
(* hand; several may run at once.  A request whose client is gone may      *)
(* still be carried out, late.                                             *)
(*                                                                         *)
(* The registry is seen from outside, as the artifact it serves for every  *)
(* identity (ProviderRegistry and ModuleRegistry show that a request takes *)
(* effect wholly or not at all).  The OCI repository is external: a store  *)
(* of blobs and manifests named by their digests, and of tags.  A digest   *)
(* is the content itself.                                                  *)
(***************************************************************************)
EXTENDS Integers, Sequences, FiniteSets

CONSTANTS
    Processes,     \* slots for running commands
    MaxRuns,       \* bound: commands that are run, retries included
    Ids,           \* identities: [kind, version, platform]
    Contents,      \* archives
    Fits,          \* Fits[id]: those the server's validation accepts for id
    SizeOf,        \* their sizes
    MaxBytes,      \* --max-download-mb
    Tags,          \* tags of the OCI repository
    Foreign,       \* manifests that other tools put into the repository
    Damaged,       \* bytes that are no archive: cut short or corrupted
    None

Bytes == Contents \cup {Damaged}

ASSUME IdsAssumption ==
    \A id \in Ids : id.kind \in {"provider", "module"} /\ Fits[id] \subseteq Contents
ASSUME SizesAssumption == MaxBytes \in Nat /\ SizeOf \in [Bytes -> Nat]
ASSUME RunsAssumption == MaxRuns \in Nat
ASSUME DamagedAssumption == Damaged \notin Contents
ASSUME ForeignAssumption ==
    \A m \in Foreign : \A i \in DOMAIN m.layers : m.layers[i].bytes \in Bytes

VARIABLES
    registry,      \* registry[id]: the artifact served
    blobs,         \* the OCI repository: layers,
    manifests,     \* manifests
    tags,          \* and what the tags name
    orphans,       \* requests the registry still has, whose clients are gone
    proc,          \* proc[p]: a running command
    runs,          \* commands run so far
    offered,       \* history: <<id, content>> handed to publish or push
    accepted       \* history: <<id, content>> the registry has taken

vars == <<registry, blobs, manifests, tags, orphans, proc, runs, offered, accepted>>

-----------------------------------------------------------------------------
(* packOCIArtifact: the manifest of an artifact, identity and layer.       *)
packOCIArtifact(id, bytes) ==
    [media |-> "image", artifact |-> "terraform", id |-> id,
     layers |-> <<[type |-> id.kind, bytes |-> bytes, size |-> SizeOf[bytes]]>>]

(* metadataFromOCIManifest: the layer is of the kind the annotations name, *)
(* and the identity complete and valid (it is None if it is not).          *)
metadataFromOCIManifest(m) == m.id \in Ids /\ m.layers[1].type = m.id.kind

(* unpackOCIArtifact, up to the download of the layer.                     *)
Acceptable(m) ==
    /\ m.media = "image"
    /\ m.artifact = "terraform"
    /\ Len(m.layers) = 1
    /\ metadataFromOCIManifest(m)
    /\ m.layers[1].size <= MaxBytes

(* at: where the command is; tag: its --oci-ref; manifest, id, bytes: what *)
(* it has so far; ok: the answer.  History: nobody else has touched its    *)
(* identity or its tag.                                                    *)
Idle == [at |-> "idle", cmd |-> None, tag |-> None, id |-> None, bytes |-> None,
         manifest |-> None, ok |-> FALSE, calm |-> TRUE]

Ended == {"idle", "done"}

(* The types of the variables; only publish gets as far as the repository, *)
(* and every request has an identity.                                      *)
TypeOK ==
    /\ registry \in [Ids -> Contents \cup {None}]
    /\ blobs \subseteq Bytes
    /\ tags \in [Tags -> manifests \cup {None}]
    /\ orphans \subseteq {"put", "delete"} \X Ids \X (Bytes \cup {None})
    /\ runs \in 0..MaxRuns
    /\ \A p \in Processes :
          /\ proc[p].at \in Ended \cup {"bundle", "send", "sent", "answered", "layer",
                                        "manifest", "tag", "resolve", "fetch", "unpack"}
          /\ proc[p].at \in {"sent", "answered"} => proc[p].id \in Ids
          /\ proc[p].at \in {"layer", "manifest", "tag"} => proc[p].cmd = "publish"

-----------------------------------------------------------------------------
(* Nothing is left of a command that has failed but what it did outside.   *)
Goto(p, next) == IF next = "failed" THEN Idle ELSE [proc[p] EXCEPT !.at = next]

(* A command goes on.                                                      *)
Step(p, new) == proc' = [proc EXCEPT ![p] = new]

(* The same, when what it does shows: commands that are about one of these *)
(* identities, or about this tag, are not alone.                           *)
StepSeen(p, new, ids, t) ==
    proc' = [q \in Processes |->
        IF q = p THEN new
        ELSE [proc[q] EXCEPT !.calm = @ /\ proc[q].id \notin ids /\ proc[q].tag \notin t]]

Local   == UNCHANGED <<registry, blobs, manifests, tags, orphans, accepted>>
Outside == UNCHANGED <<blobs, manifests, tags, runs, offered>>

(* The command line is read; each command starts with nothing.             *)
Start(p, cmd, id, t) ==
    /\ proc[p].at \in Ended
    /\ runs < MaxRuns
    /\ runs' = runs + 1
    /\ Step(p, [Idle EXCEPT !.cmd = cmd, !.id = id, !.tag = t,
                            !.at = CASE cmd = "import" -> "resolve"
                                     [] cmd = "delete" -> "send"
                                     [] OTHER          -> "bundle"])
    /\ Local /\ UNCHANGED offered

(* publish builds and bundles the source, push takes a file that is there. *)
(* A bundle holds times, so that two are never alike, and what is made of  *)
(* the source need not pass the server's checks.                           *)
Bundle(p, c) ==
    /\ proc[p].at = "bundle"
    /\ Step(p, [Goto(p, "send") EXCEPT !.bytes = c])
    /\ offered' = offered \cup {<<proc[p].id, c>>}
    /\ Local /\ UNCHANGED runs

(* uploadFile: the file is read while it is sent.  When it cannot be read  *)
(* to its end the multipart body is still closed in good order.            *)
Send(p, whole) ==
    /\ proc[p].at = "send"
    /\ Step(p, [Goto(p, "sent") EXCEPT !.ok = whole])
    /\ Local /\ UNCHANGED <<runs, offered>>

Request(p) ==
    IF proc[p].cmd = "delete" THEN <<"delete", proc[p].id, None>>
    ELSE <<"put", proc[p].id, IF proc[p].ok THEN proc[p].bytes ELSE Damaged>>

(* Mutant: the server does not look into the archive.                      *)
ValidUnread(request) == TRUE

(* validateProviderArchive and validateModuleArchive                       *)
Valid(request) == request[1] = "put" => request[3] \in Fits[request[2]]

(* A delete takes every platform of the version along.                     *)
Affected(request) ==
    IF request[1] = "put" THEN {request[2]}
    ELSE {id \in Ids : id.kind = request[2].kind /\ id.version = request[2].version}

Effect(request) ==
    /\ registry' = [id \in Ids |-> IF id \in Affected(request) THEN request[3] ELSE registry[id]]
    /\ accepted' = IF request[1] = "put" THEN accepted \cup {<<request[2], request[3]>>}
                                         ELSE accepted

(* The registry carries a request out and answers.                         *)
Serve(p) ==
    /\ proc[p].at = "sent"
    /\ Valid(Request(p))
    /\ Effect(Request(p))
    /\ StepSeen(p, [Goto(p, "answered") EXCEPT !.ok = TRUE], Affected(Request(p)), {})
    /\ UNCHANGED orphans /\ Outside

(* It refuses it, because of the archive, the key, the rate, an outage...  *)
Refuse(p) ==
    /\ proc[p].at = "sent"
    /\ Step(p, [Goto(p, "answered") EXCEPT !.ok = FALSE])
    /\ Local /\ UNCHANGED <<runs, offered>>

(* It carries out one that nobody waits for any more.                      *)
ServeOrphan(request) ==
    /\ orphans' = orphans \ {request}
    /\ Effect(request)
    /\ proc' = [q \in Processes |->
          [proc[q] EXCEPT !.calm = @ /\ proc[q].id \notin Affected(request)]]
    /\ Outside

AfterUpload(p) == IF proc[p].cmd = "publish" /\ proc[p].tag # None THEN "layer" ELSE "done"

(* Mutant: publish copies to the OCI repository whatever the registry says. *)
uploadArtifactUnread(p) ==
    /\ proc[p].at = "answered"
    /\ Step(p, Goto(p, IF proc[p].ok \/ AfterUpload(p) = "layer" THEN AfterUpload(p) ELSE "failed"))
    /\ Local /\ UNCHANGED <<runs, offered>>

(* uploadArtifact and printResponse look at the status; only then does     *)
(* publish turn to the OCI repository.                                     *)
uploadArtifact(p) ==
    /\ proc[p].at = "answered"
    /\ Step(p, Goto(p, IF proc[p].ok THEN AfterUpload(p) ELSE "failed"))
    /\ Local /\ UNCHANGED <<runs, offered>>

-----------------------------------------------------------------------------
(* pushOCIArtifact: layer, manifest, tag.                                  *)

Repository == UNCHANGED <<registry, orphans, runs, offered, accepted>>

PushLayer(p) ==
    /\ proc[p].at = "layer"
    /\ blobs' = blobs \cup {proc[p].bytes}
    /\ Step(p, Goto(p, "manifest"))
    /\ UNCHANGED <<manifests, tags>> /\ Repository

PushManifest(p) ==
    /\ proc[p].at = "manifest"
    /\ LET m == packOCIArtifact(proc[p].id, proc[p].bytes)
       IN  manifests' = manifests \cup {m} /\ Step(p, [Goto(p, "tag") EXCEPT !.manifest = m])
    /\ UNCHANGED <<blobs, tags>> /\ Repository

Tag(p) ==
    /\ proc[p].at = "tag"
    /\ tags' = [tags EXCEPT ![proc[p].tag] = proc[p].manifest]
    /\ StepSeen(p, [Goto(p, "done") EXCEPT !.manifest = None], {}, {proc[p].tag})
    /\ UNCHANGED <<blobs, manifests>> /\ Repository

(* Mutant: a failing layer does not keep the manifest from being pushed.   *)
AfterOCIErrorGoOn(at) == CASE at = "layer" -> "manifest" [] OTHER -> "failed"

(* Mutant: once the registry has the artifact, the copy is best effort.    *)
AfterOCIErrorDone(at) == "done"

(* Every error on the way ends the command.                                *)
AfterOCIError(at) == "failed"

(* A push that fails may have been carried out all the same.               *)
PushFails(p, carriedOut) ==
    /\ proc[p].at \in {"layer", "manifest", "tag"}
    /\ LET m == packOCIArtifact(proc[p].id, proc[p].bytes)
           done(at) == carriedOut /\ proc[p].at = at
       IN  /\ blobs' = IF done("layer") THEN blobs \cup {proc[p].bytes} ELSE blobs
           /\ manifests' = IF done("manifest") THEN manifests \cup {m} ELSE manifests
           /\ tags' = IF done("tag") THEN [tags EXCEPT ![proc[p].tag] = m] ELSE tags
           /\ StepSeen(p, Goto(p, AfterOCIError(proc[p].at)), {},
                       IF done("tag") THEN {proc[p].tag} ELSE {})
    /\ Repository

(* Another tool copies a manifest with its layers and tags it.             *)
ForeignPush(m, t) ==
    /\ manifests' = manifests \cup {m}
    /\ blobs' = blobs \cup {m.layers[i].bytes : i \in DOMAIN m.layers}
    /\ tags' = [tags EXCEPT ![t] = m]
    /\ proc' = [q \in Processes |-> [proc[q] EXCEPT !.calm = @ /\ proc[q].tag # t]]
    /\ Repository

-----------------------------------------------------------------------------
(* importOCIArtifact *)

(* repo.Resolve: the reference is looked up once, a tag or a digest.       *)
Resolve(p, m) ==
    /\ proc[p].at = "resolve"
    /\ m \in IF proc[p].tag = None THEN manifests ELSE {tags[proc[p].tag]}
    /\ Step(p, [Goto(p, "fetch") EXCEPT !.manifest = m])
    /\ Local /\ UNCHANGED <<runs, offered>>

(* fetchDescriptor, and the checks: another body than the one that was     *)
(* resolved is refused by its digest, and so is a manifest not acceptable. *)
FetchManifest(p) ==
    /\ proc[p].at = "fetch"
    /\ Acceptable(proc[p].manifest)
    /\ Step(p, [Goto(p, "unpack") EXCEPT !.id = proc[p].manifest.id])
    /\ Local /\ UNCHANGED <<runs, offered>>

(* Mutant: the layer is looked up through the tag again.                   *)
LayerByTag(p) ==
    IF proc[p].tag = None THEN proc[p].manifest.layers[1] ELSE tags[proc[p].tag].layers[1]

Layer(p) == proc[p].manifest.layers[1]

(* Mutant: the digest of the layer is not verified.                        *)
IntactUnverified(layer, got) == SizeOf[got] = layer.size /\ SizeOf[got] <= MaxBytes

(* The bytes that arrive against the descriptor: size, limit, digest.      *)
Intact(layer, got) == SizeOf[got] = layer.size /\ SizeOf[got] <= MaxBytes /\ got = layer.bytes

FetchLayer(p, got) ==
    /\ proc[p].at = "unpack"
    /\ Layer(p).bytes \in blobs
    /\ Step(p, IF Intact(Layer(p), got)
               THEN [Goto(p, "send") EXCEPT !.bytes = got, !.manifest = None, !.tag = None]
               ELSE Goto(p, "failed"))
    /\ Local /\ UNCHANGED <<runs, offered>>

-----------------------------------------------------------------------------
(* An error, a timeout, or the end of the process.  A request that was     *)
(* sent remains with the registry, which may carry it out if it is valid.  *)
GiveUp(p) ==
    /\ proc[p].at \notin Ended
    /\ orphans' = orphans \cup {r \in {Request(p)} : proc[p].at = "sent" /\ Valid(r)}
    /\ Step(p, Goto(p, "failed"))
    /\ UNCHANGED <<registry, blobs, manifests, tags, runs, offered, accepted>>

Init ==
    /\ registry = [id \in Ids |-> None]
    /\ blobs = {} /\ manifests = {}
    /\ tags = [t \in Tags |-> None]
    /\ orphans = {}
    /\ proc = [p \in Processes |-> Idle]
    /\ runs = 0
    /\ offered = {} /\ accepted = {}

ProcessStep(p) ==
    \/ \E id \in Ids, t \in Tags \cup {None} : Start(p, "publish", id, t)
    \/ \E id \in Ids, cmd \in {"push", "delete"} : Start(p, cmd, id, None)
    \/ \E t \in Tags \cup {None} : Start(p, "import", None, t)
    \/ \E c \in Contents : Bundle(p, c)
    \/ \E whole \in BOOLEAN : Send(p, whole)
    \/ Serve(p) \/ Refuse(p) \/ uploadArtifact(p)
    \/ PushLayer(p) \/ PushManifest(p) \/ Tag(p)
    \/ \E carriedOut \in BOOLEAN : PushFails(p, carriedOut)
    \/ \E m \in manifests : Resolve(p, m)
    \/ FetchManifest(p)
    \/ \E got \in Bytes : FetchLayer(p, got)
    \/ GiveUp(p)

Next ==
    \/ \E p \in Processes : ProcessStep(p)
    \/ \E request \in orphans : ServeOrphan(request)
    \/ \E m \in Foreign, t \in Tags : ForeignPush(m, t)

Spec == Init /\ [][Next]_vars

-----------------------------------------------------------------------------
(* Properties *)

(* What an identity may stand for: what its owner handed to publish or     *)
(* push, and the layers of acceptable manifests that name it.              *)
Described ==
    offered \cup {<<m.id, m.layers[1].bytes>> : m \in {n \in manifests : Acceptable(n)}}

(* The registry never serves an artifact under an identity that nobody     *)
(* gave it, nor a damaged one, and an import sends what its manifest       *)
(* describes: tags that move and transfers that fail between the requests  *)
(* of an import do not mix the identity of one artifact with the bytes of  *)
(* another.                                                                *)
ServedAsDescribed ==
    /\ \A id \in Ids : registry[id] # None => <<id, registry[id]>> \in Described
    /\ \A p \in Processes : proc[p].at = "sent" /\ proc[p].cmd # "delete" =>
          <<proc[p].id, proc[p].bytes>> \in Described

(* Whatever a tag names is there to be imported: a command that fails or   *)
(* is killed on the way, and commands that race for the tag, never leave a *)
(* tag on a manifest without its layer.                                    *)
TagsAreWhole ==
    \A t \in Tags : tags[t] # None =>
        \A i \in DOMAIN tags[t].layers : tags[t].layers[i].bytes \in blobs

(* A copy that publish has put into the OCI repository was accepted by the *)
(* registry first, so that the repository never holds an artifact from     *)
(* this tool that the registry has refused.                                *)
CopiesWereAccepted ==
    \A m \in manifests \ Foreign : <<m.id, m.layers[1].bytes>> \in accepted

(* A command that reports success, on an identity and a tag that nobody    *)
(* else has touched meanwhile, has done all of it: the registry serves the *)
(* exact bytes and, with --oci-ref, the tag names a copy of them, whatever *)
(* earlier attempts left behind ("retry the command after repairing either *)
(* destination", README).                                                  *)
SuccessMeansBoth ==
    \A p \in Processes : proc[p].at = "done" /\ proc[p].calm =>
        IF proc[p].cmd = "delete" THEN registry[proc[p].id] = None
        ELSE /\ registry[proc[p].id] = proc[p].bytes
             /\ proc[p].cmd = "publish" /\ proc[p].tag # None =>
                   tags[proc[p].tag] = packOCIArtifact(proc[p].id, proc[p].bytes)
=============================================================================

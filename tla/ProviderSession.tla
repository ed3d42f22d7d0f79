--------------------------- MODULE ProviderSession ---------------------------
(***************************************************************************)
(* Clients that install a provider while its versions are published,       *)
(* replaced, deprecated and deleted: `terraform init' through the registry *)
(* protocol or through the network mirror (handlers of                     *)
(* registry-server/main.go) and `tfreg pull provider' (cmd/tfreg/main.go). *)
(*                                                                         *)
(* The handlers take no lock and a session is made of several requests, so *)
(* every file a session reads is a step of its own, which may fall between *)
(* any two storage calls of a mutation of ProviderRegistry.  A reading is  *)
(* projected to the version and the platform the client is after.          *)
(***************************************************************************)
EXTENDS ProviderRegistry, Sequences

CONSTANT Sessions     \* clients

VARIABLE session      \* session[s]: what client s is doing and has read so far

sessionVars == <<vars, session>>

-----------------------------------------------------------------------------
(* The reads of each handler, in their order.  The list of the platforms   *)
(* takes two: the names in the version directory ("names"), then the       *)
(* metadata files among them ("platforms").                                *)

providerVersions == <<"index", "deprecation", "names", "platforms", "artifact">>
providerDownload == <<"metadata", "artifact", "checksums", "signature">>
mirrorIndex      == <<"index", "deprecation", "names", "platforms", "artifact">>
mirrorVersion    == <<"index", "deprecation", "names", "platforms", "metadata", "artifact">>
fileDownload(f)  == <<f>>

(* The requests of each kind of client, in their order.                    *)
Requests ==
    [terraform |-> <<providerVersions, providerDownload, fileDownload("getChecksums"),
                     fileDownload("getSignature"), fileDownload("getArchive")>>,
     mirror    |-> <<mirrorIndex, mirrorVersion, fileDownload("getArchive")>>,
     pull      |-> <<providerDownload, fileDownload("getArchive")>>]

Kinds == DOMAIN Requests

(* A session is at read `step' of request `request'.  `listed' is whether  *)
(* the walk of the directory has met metadata of the platform (both: it    *)
(* may have), `content' what the metadata named, `bytes' what was received *)
(* (None: not the archive), `trusted' that the list names the archive and  *)
(* the signature is its own.                                               *)
(* History: the contents published for the target since the session began, *)
(* and whether nothing has disturbed it.                                   *)
NoSession == [state |-> "idle", kind |-> "pull", v |-> None, p |-> None,
              request |-> 1, step |-> 1, listed |-> {}, content |-> None, sums |-> {},
              trusted |-> FALSE, bytes |-> None, seen |-> {}, calm |-> FALSE]

(* The sessions that may fail: in an outage, on a version whose list may   *)
(* be out of date or that is deprecated, beside an upload that could not   *)
(* read the list it may have to put back, and beside a request that works  *)
(* on their target.  List and signature have fixed names, so an upload for *)
(* any platform of the version disturbs the client that fetches them.      *)
Disturbed(k, v, p) ==
    \/ phase # "up"
    \/ v \in suspect
    \/ v \in Target /\ ~undo.whole
    \/ dir[v].deprecated /\ k # "pull"
    \/ IF k = "terraform" THEN v \in Target ELSE Touches(v, p)

Active == {"reading", "received", "verified"}

(* It has failed; what it had read is gone.                                *)
Failed(e) == [NoSession EXCEPT !.state = "failed", !.calm = e.calm]

Begin(s, k, v, p) ==
    /\ phase = "up"
    /\ session[s].state \notin Active
    /\ session' = [session EXCEPT ![s] =
          [NoSession EXCEPT !.state = "reading", !.kind = k, !.v = v, !.p = p,
                            !.seen = {Visible(dir[v])[p]},
                            !.calm = acked[v][p] # None /\ ~Disturbed(k, v, p)]]
    /\ UNCHANGED vars

-----------------------------------------------------------------------------
(* One read *)

Reading(s, read) ==
    /\ phase = "up"
    /\ session[s].state = "reading"
    /\ Requests[session[s].kind][session[s].request][session[s].step] = read

(* The session after it: the next read of the handler, or the next         *)
(* request.  A list of versions tells the client no content.               *)
Continued(e) ==
    LET handler == Requests[e.kind][e.request] IN
    IF e.step < Len(handler) THEN [e EXCEPT !.step = e.step + 1]
    ELSE [e EXCEPT !.request = e.request + 1, !.step = 1,
                   !.content = IF handler \in {providerVersions, mirrorIndex}
                               THEN None ELSE e.content]

(* What the handler looks for is there, and the session goes on with what  *)
(* it has learnt; or the client is answered 404 or 500 and gives up.       *)
Read(s, read, found, learnt) ==
    /\ Reading(s, read)
    /\ session' = [session EXCEPT ![s] =
          IF found THEN Continued(learnt) ELSE Failed(session[s])]
    /\ UNCHANGED vars

Dir(s) == dir[session[s].v]
Artifact(s) == <<session[s].p, session[s].content>>

ReadIndex(s) == Read(s, "index", session[s].v \in index, session[s])

ReadDeprecation(s) == Read(s, "deprecation", ~Dir(s).deprecated, session[s])

(* A Put of this metadata is under way; its temporary file has a name that *)
(* counts as metadata.                                                     *)
BeingWritten(v, p) == BeingPut # None /\ req.v = v /\ req.p = p

(* GetProviderPlatforms: List reads the names of the directory and then    *)
(* looks at the file of each ...                                           *)
ReadNames(s) ==
    LET e == session[s] IN
    Read(s, "names", TRUE,
         [e EXCEPT !.listed = {MetadataFound(dir[e.v], e.p, {}) # None}
                                  \cup {x \in {TRUE} : BeingWritten(e.v, e.p)}])

(* What the read of the files listed may yield: what MetadataFound says    *)
(* or, while the temporary file is written, its new content or nothing of  *)
(* it; and nothing if the walk did not meet the platform's metadata.       *)
Candidates(e) ==
    (IF TRUE \notin e.listed THEN {}
     ELSE {MetadataFound(dir[e.v], e.p, {})}
              \cup IF BeingWritten(e.v, e.p) THEN {BeingPut, dir[e.v].meta[e.p]} ELSE {})
        \cup {c \in {None} : FALSE \in e.listed}

(* ... then the files listed are read.                                     *)
ReadPlatforms(s) ==
    \E c \in Candidates(session[s]) :
        Read(s, "platforms", c # None, [session[s] EXCEPT !.content = c, !.listed = {}])

(* This step of the registry takes a file away from directory v: the       *)
(* temporary file of a Put is renamed or removed, an artifact, metadata,   *)
(* list or signature is removed, or all of them.  The temporary file of an *)
(* archive lies elsewhere and that of the index in the directory above.    *)
Vanishes(v) ==
    \/ pc \in UploadPCs \ {"addIndex"} /\ req.v = v /\ pc' # pc
    \/ \E ok \in BOOLEAN : Deprecate(v, ok)
    \/ StageDelete(v)
    \/ \E p \in Platforms : CollectGarbage(v, p)

(* If the walk has read the name and not yet looked at the file, it ends   *)
(* there; List takes the error for an empty directory and returns the      *)
(* files it has met so far, which may be none.                             *)
WalkMayEnd(e) == [e EXCEPT !.listed = e.listed \cup {FALSE}, !.calm = FALSE]

Walks(s, v) == Reading(s, "platforms") /\ session[s].v = v

(* GarbageCollect removes a temporary file of the list, the signature or   *)
(* the deprecation, of those a kill may have left in any directory.        *)
Sweep(v) ==
    /\ phase = "up"
    /\ session' = [s \in Sessions |->
                      IF Walks(s, v) THEN WalkMayEnd(session[s]) ELSE session[s]]
    /\ UNCHANGED vars

(* The file <os>_<arch>.json itself.                                       *)
Metadata(s) == Dir(s).meta[session[s].p]

ReadMetadata(s) ==
    Read(s, "metadata", Metadata(s) # None, [session[s] EXCEPT !.content = Metadata(s)])

CheckArtifact(s) == Read(s, "artifact", Artifact(s) \in Dir(s).zips, session[s])

CheckChecksums(s) == Read(s, "checksums", Dir(s).sums # {}, session[s])

CheckSignature(s) == Read(s, "signature", Dir(s).sig # {}, session[s])

GetChecksums(s) ==
    Read(s, "getChecksums", Dir(s).sums # {}, [session[s] EXCEPT !.sums = Dir(s).sums])

GetSignature(s) ==
    Read(s, "getSignature", Dir(s).sig # {},
         [session[s] EXCEPT !.sums = {},
                            !.trusted = /\ Dir(s).sig = session[s].sums
                                        /\ Artifact(s) \in session[s].sums])

(* The archive is opened and sent; a removal does not reach an open file.  *)
(* It arrives whole, or not as it was sent.                                *)
GetArchive(s, whole) ==
    /\ Reading(s, "getArchive")
    /\ session' = [session EXCEPT ![s] =
          IF Artifact(s) \in Dir(s).zips
          THEN [session[s] EXCEPT !.state = "received",
                                  !.bytes = IF whole THEN session[s].content ELSE None,
                                  !.calm = session[s].calm /\ whole]
          ELSE Failed(session[s])]
    /\ UNCHANGED vars

-----------------------------------------------------------------------------
(* The client *)

(* Mutant: tfreg does not compare the digest.                              *)
VerifiedUnread(s) == session[s].kind = "terraform" => session[s].trusted

(* The digest is compared with that of the metadata; Terraform also needs  *)
(* it in a list with a good signature.                                     *)
Verified(s) ==
    /\ session[s].bytes = session[s].content
    /\ session[s].kind = "terraform" => session[s].trusted

Verify(s) ==
    /\ session[s].state = "received"
    /\ session' = [session EXCEPT ![s] =
          IF Verified(s) THEN [session[s] EXCEPT !.state = "verified"] ELSE Failed(session[s])]
    /\ UNCHANGED vars

(* The temporary file takes its place.                                     *)
Save(s) ==
    /\ session[s].state = "verified"
    /\ session' = [session EXCEPT ![s] =
          [NoSession EXCEPT !.state = "installed", !.bytes = session[s].bytes,
                            !.seen = session[s].seen \cap {session[s].bytes}]]
    /\ UNCHANGED vars

(* The server does not answer, a call of the client fails, or the client   *)
(* is stopped: the temporary file never takes its place.                   *)
GiveUp(s) ==
    /\ session[s].state \in Active
    /\ session' = [session EXCEPT ![s] = [Failed(session[s]) EXCEPT !.calm = FALSE]]
    /\ UNCHANGED vars

-----------------------------------------------------------------------------
(* A step of the registry, as the sessions notice it; a crash cuts off the *)
(* handlers that are at work.                                              *)
Mutate ==
    /\ Next
    /\ session' = [s \in Sessions |->
          LET e == session[s] IN
          IF e.state \notin Active THEN e
          ELSE IF phase' # "up" /\ e.step > 1 THEN [Failed(e) EXCEPT !.calm = FALSE]
          ELSE [(IF Walks(s, e.v) /\ Vanishes(e.v) THEN WalkMayEnd(e) ELSE e) EXCEPT
                  !.seen  = e.seen \cup {Visible(dir'[e.v])[e.p]},
                  !.calm  = /\ @
                            /\ \A k \in {e.kind}, v \in {e.v}, p \in {e.p} :
                                  ~Disturbed(k, v, p)']]

SessionStep(s) ==
    \/ \E k \in Kinds, v \in Versions, p \in Platforms : Begin(s, k, v, p)
    \/ ReadIndex(s) \/ ReadDeprecation(s) \/ ReadNames(s) \/ ReadPlatforms(s)
    \/ ReadMetadata(s)
    \/ CheckArtifact(s) \/ CheckChecksums(s) \/ CheckSignature(s)
    \/ GetChecksums(s) \/ GetSignature(s)
    \/ \E whole \in BOOLEAN : GetArchive(s, whole)
    \/ Verify(s) \/ Save(s) \/ GiveUp(s)

SessionInit == Init /\ session = [s \in Sessions |-> NoSession]

SessionNext ==
    \/ Mutate
    \/ \E v \in Versions : Sweep(v)
    \/ \E s \in Sessions : SessionStep(s)

SessionSpec == SessionInit /\ [][SessionNext]_sessionVars

-----------------------------------------------------------------------------
(* Properties *)

(* What a client installs is a whole archive that was published for this   *)
(* version and platform at some moment of its session: never one that was  *)
(* gone before it began, that a failed upload took back unseen, that a     *)
(* killed upload left behind, or that was damaged on the way.              *)
InstallsWhatWasPublished ==
    \A s \in Sessions :
        session[s].state = "installed" =>
            session[s].bytes \in session[s].seen \ {None}

(* A client gets a version it was told is published: all the reads of its  *)
(* session succeed, and what they return passes its checks, unless one of  *)
(* the things named by Disturbed happens meanwhile, or a file goes from    *)
(* the version's directory while a handler walks it (WalkMayEnd): then the *)
(* client may be told 404.  So an upload for another platform of the       *)
(* version disturbs the mirror in no other place, and tfreg nowhere.       *)
CalmSessionsSucceed ==
    \A s \in Sessions : session[s].calm => session[s].state # "failed"
=============================================================================

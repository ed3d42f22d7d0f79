----------------------- MODULE ArtifactExchangeProofs -----------------------
(***************************************************************************)
(* Proofs about ArtifactExchange, for any number of processes, commands,   *)
(* identities, archives, tags and manifests of other tools.                *)
(***************************************************************************)
EXTENDS ArtifactExchange, TLAPS

-----------------------------------------------------------------------------
(* The inductive invariant *)

Places ==
    Ended \cup {"bundle", "send", "sent", "answered", "layer", "manifest", "tag",
                "resolve", "fetch", "unpack"}

Commands ==
    [at : Places,
     cmd : {"publish", "push", "delete", "import", None},
     tag : Tags \cup {None}, id : Ids \cup {None}, bytes : Bytes \cup {None},
     manifest : manifests \cup {None}, ok : BOOLEAN, calm : BOOLEAN]

(* What a command has made sure of by the time it is where it is.          *)
Assured(e) ==
    /\ e.at \in {"bundle", "send", "sent", "answered", "layer", "manifest", "tag", "done"} =>
          e.id \in Ids
    /\ e.at \in {"send", "sent", "answered"} /\ e.cmd # "delete" =>
          <<e.id, e.bytes>> \in Described
    /\ e.at = "answered" /\ e.ok /\ e.cmd # "delete" => <<e.id, e.bytes>> \in accepted
    /\ e.at \in {"layer", "manifest", "tag"} =>
          e.cmd = "publish" /\ e.tag \in Tags /\ <<e.id, e.bytes>> \in accepted
    /\ e.at \in {"manifest", "tag"} => e.bytes \in blobs
    /\ e.at = "tag" =>
          e.manifest = packOCIArtifact(e.id, e.bytes) /\ e.manifest \in manifests
    /\ e.at \in {"fetch", "unpack"} => e.manifest \in manifests
    /\ e.at = "unpack" => Acceptable(e.manifest) /\ e.id = e.manifest.id

(* What holds outside, once it has its answer, as long as it is alone.     *)
Undisturbed(e) ==
    e.calm /\ ((e.at = "answered" /\ e.ok) \/ e.at \in {"layer", "manifest", "tag", "done"}) =>
        /\ registry[e.id] = IF e.cmd = "delete" THEN None ELSE e.bytes
        /\ e.at = "done" /\ e.cmd = "publish" /\ e.tag # None =>
              tags[e.tag] = packOCIArtifact(e.id, e.bytes)

(* A request left with the registry is one that was right to send.         *)
Proper(r) ==
    /\ r[1] = "put" => r[3] \in Fits[r[2]] /\ <<r[2], r[3]>> \in Described
    /\ r[1] = "delete" => r[3] = None

Types ==
    /\ registry \in [Ids -> Contents \cup {None}]
    /\ blobs \subseteq Bytes
    /\ tags \in [Tags -> manifests \cup {None}]
    /\ orphans \subseteq {"put", "delete"} \X Ids \X (Bytes \cup {None})
    /\ runs \in 0..MaxRuns
    /\ accepted \subseteq Ids \X Contents
    /\ proc \in [Processes -> Commands]

Served == \A id \in Ids : registry[id] # None => <<id, registry[id]>> \in Described

OrphansProper == \A r \in orphans : Proper(r)

IInv ==
    /\ Types
    /\ \A p \in Processes : Assured(proc[p])
    /\ \A p \in Processes : Undisturbed(proc[p])
    /\ OrphansProper
    /\ Served
    /\ TagsAreWhole
    /\ CopiesWereAccepted

-----------------------------------------------------------------------------
(* The operators *)

(* The manifest of an artifact names it, and has one layer: the artifact.  *)
LEMMA Packed ==
    ASSUME NEW id, NEW bytes
    PROVE  LET m == packOCIArtifact(id, bytes) IN
           m.id = id /\ m.layers[1].bytes = bytes /\ DOMAIN m.layers = {1}
BY DEF packOCIArtifact

(* What is described stays described.                                      *)
LEMMA DescribedGrows ==
    ASSUME offered \subseteq offered', manifests \subseteq manifests'
    PROVE  Described \subseteq Described'
BY DEF Described, Acceptable, metadataFromOCIManifest

(* So does what a command is assured of, when nothing is taken back.       *)
LEMMA AssuredGrows ==
    ASSUME NEW e, Assured(e), offered \subseteq offered', manifests \subseteq manifests',
           accepted \subseteq accepted', blobs \subseteq blobs'
    PROVE  Assured(e)'
<1>1. Described \subseteq Described'
    BY DescribedGrows
<1> QED
    BY <1>1 DEF Assured, Acceptable, metadataFromOCIManifest

(* The fields of a command.                                                *)
LEMMA Fields ==
    ASSUME NEW e \in Commands
    PROVE  /\ e.at \in Places
           /\ e.tag \in Tags \cup {None}
           /\ e.id \in Ids \cup {None}
           /\ e.bytes \in Bytes \cup {None}
           /\ e.manifest \in manifests \cup {None}
           /\ e.ok \in BOOLEAN
BY DEF Commands

(* A command with other fields.                                            *)
Updated(e, a, t, i, b, m, o) ==
    [e EXCEPT !.at = a, !.tag = t, !.id = i, !.bytes = b, !.manifest = m, !.ok = o]

(* It is a command again,                                                  *)
LEMMA UpdatedIs ==
    ASSUME NEW e \in Commands, NEW a \in Places, NEW t \in Tags \cup {None},
           NEW i \in Ids \cup {None}, NEW b \in Bytes \cup {None},
           NEW m \in manifests' \cup {None}, NEW o \in BOOLEAN, NEW n,
           n = Updated(e, a, t, i, b, m, o)
    PROVE  n \in Commands'
BY DEF Commands, Updated

(* with these fields,                                                      *)
LEMMA UpdatedFields ==
    ASSUME NEW e \in Commands, NEW a, NEW t, NEW i, NEW b, NEW m, NEW o \in BOOLEAN, NEW n,
           n = Updated(e, a, t, i, b, m, o)
    PROVE  n.at = a /\ n.cmd = e.cmd /\ n.tag = t /\ n.id = i /\ n.bytes = b /\ n.manifest = m
BY DEF Commands, Updated

(* this answer, and as calm as before.                                     *)
LEMMA UpdatedAnswer ==
    ASSUME NEW e \in Commands, NEW a, NEW t, NEW i, NEW b, NEW m, NEW o \in BOOLEAN, NEW n,
           n = Updated(e, a, t, i, b, m, o)
    PROVE  (n.ok <=> o) /\ (n.calm <=> e.calm)
<1>1. n.ok = o /\ n.calm = e.calm
    BY DEF Commands, Updated
<1> QED
    BY <1>1

(* The updates that the steps make.                                        *)
LEMMA Updates ==
    ASSUME NEW e \in Commands, NEW a, NEW t, NEW i, NEW b, NEW m
    PROVE  /\ [e EXCEPT !.at = a] = Updated(e, a, e.tag, e.id, e.bytes, e.manifest, e.ok)
           /\ [e EXCEPT !.at = a, !.manifest = m]
                 = Updated(e, a, e.tag, e.id, e.bytes, m, e.ok)
           /\ [e EXCEPT !.at = a, !.id = i]
                 = Updated(e, a, e.tag, i, e.bytes, e.manifest, e.ok)
           /\ [e EXCEPT !.at = a, !.bytes = b, !.manifest = m, !.tag = t]
                 = Updated(e, a, t, e.id, b, m, e.ok)
<1>1. [e EXCEPT !.at = a] = Updated(e, a, e.tag, e.id, e.bytes, e.manifest, e.ok)
    BY DEF Commands, Updated
<1>2. [e EXCEPT !.at = a, !.manifest = m] = Updated(e, a, e.tag, e.id, e.bytes, m, e.ok)
    BY DEF Commands, Updated
<1>3. [e EXCEPT !.at = a, !.id = i] = Updated(e, a, e.tag, i, e.bytes, e.manifest, e.ok)
    BY DEF Commands, Updated
<1>4. [e EXCEPT !.at = a, !.bytes = b, !.manifest = m, !.tag = t]
        = Updated(e, a, t, e.id, b, m, e.ok)
    BY DEF Commands, Updated
<1> QED
    BY <1>1, <1>2, <1>3, <1>4

(* The one that an answer makes.                                           *)
LEMMA Answers ==
    ASSUME NEW e \in Commands, NEW a, NEW o \in BOOLEAN
    PROVE  [e EXCEPT !.at = a, !.ok = o]
             = Updated(e, a, e.tag, e.id, e.bytes, e.manifest, o)
BY DEF Commands, Updated

(* A command that is not alone any more.                                   *)
Shaken(e) == [e EXCEPT !.calm = FALSE]

(* Nothing else about it changes.                                          *)
LEMMA ShakenFields ==
    ASSUME NEW e \in Commands
    PROVE  LET n == Shaken(e) IN
           /\ n \in Commands
           /\ n.at = e.at /\ n.cmd = e.cmd /\ n.tag = e.tag /\ n.id = e.id /\ n.bytes = e.bytes
           /\ n.manifest = e.manifest
           /\ n.ok <=> e.ok
           /\ ~n.calm
<1> DEFINE n == Shaken(e)
<1>1. n \in Commands
    BY DEF Commands, Shaken
<1>2. /\ n.at = e.at /\ n.cmd = e.cmd /\ n.tag = e.tag /\ n.id = e.id /\ n.bytes = e.bytes
      /\ n.manifest = e.manifest
    BY DEF Commands, Shaken
<1>3. n.ok <=> e.ok
    BY DEF Commands, Shaken
<1>4. ~n.calm
    BY DEF Commands, Shaken
<1> QED
    BY <1>1, <1>2, <1>3, <1>4

(* A process that makes a step is the only one that changes.               *)
LEMMA StepChanges ==
    ASSUME NEW p \in Processes, NEW new, proc \in [Processes -> Commands],
           manifests \subseteq manifests', new \in Commands', Step(p, new)
    PROVE  /\ proc' \in [Processes -> Commands']
           /\ proc'[p] = new
           /\ \A q \in Processes \ {p} : proc'[q] = proc[q]
<1>1. Commands \subseteq Commands'
    BY DEF Commands
<1> QED
    BY <1>1 DEF Step

(* A command that is not stepped loses its calm, or nothing concerns it.   *)
LEMMA ShakenChanges ==
    ASSUME NEW q, NEW ids, NEW t, proc[q] \in Commands, manifests \subseteq manifests',
           proc'[q] = [proc[q] EXCEPT !.calm = @ /\ proc[q].id \notin ids /\ proc[q].tag \notin t]
    PROVE  /\ proc'[q] \in Commands'
           /\ \/ proc'[q] = Shaken(proc[q])
              \/ proc'[q] = proc[q] /\ proc[q].id \notin ids /\ proc[q].tag \notin t
<1>1. Commands \subseteq Commands'
    BY DEF Commands
<1>2. CASE proc[q].calm /\ proc[q].id \notin ids /\ proc[q].tag \notin t
  <2>1. proc'[q] = [proc[q] EXCEPT !.calm = proc[q].calm]
      BY <1>2
  <2>2. proc'[q] = proc[q]
      BY <1>2, <2>1 DEF Commands
  <2> QED
      BY <1>1, <1>2, <2>2
<1>3. CASE ~(proc[q].calm /\ proc[q].id \notin ids /\ proc[q].tag \notin t)
  <2>1. proc'[q] = Shaken(proc[q])
      BY <1>3 DEF Shaken
  <2> QED
      BY <1>1, <2>1, ShakenFields
<1> QED
    BY <1>2, <1>3

(* All but the process that makes the step.                                *)
LEMMA StepSeenChanges ==
    ASSUME NEW p \in Processes, NEW new, NEW ids, NEW t, proc \in [Processes -> Commands],
           manifests \subseteq manifests', new \in Commands', StepSeen(p, new, ids, t)
    PROVE  /\ proc' \in [Processes -> Commands']
           /\ proc'[p] = new
           /\ \A q \in Processes \ {p} :
                 \/ proc'[q] = Shaken(proc[q])
                 \/ proc'[q] = proc[q] /\ proc[q].id \notin ids /\ proc[q].tag \notin t
<1>1. /\ proc' = [q \in Processes |-> proc'[q]]
      /\ proc'[p] = new
    BY DEF StepSeen
<1>2. ASSUME NEW q \in Processes \ {p}
      PROVE  /\ proc'[q] \in Commands'
             /\ \/ proc'[q] = Shaken(proc[q])
                \/ proc'[q] = proc[q] /\ proc[q].id \notin ids /\ proc[q].tag \notin t
  <2>1. proc[q] \in Commands
      OBVIOUS
  <2>2. proc'[q] = [proc[q] EXCEPT !.calm = @ /\ proc[q].id \notin ids /\ proc[q].tag \notin t]
      BY DEF StepSeen
  <2> QED
      BY <2>1, <2>2, ShakenChanges
<1> QED
    BY <1>1, <1>2

-----------------------------------------------------------------------------
(* The steps *)

(* A step of a command that changes nothing outside keeps the invariant if *)
(* the command is sound afterwards.                                        *)
LEMMA LocalStep ==
    ASSUME IInv, NEW p \in Processes, NEW new, Step(p, new), Local,
           offered \subseteq offered', runs' \in 0..MaxRuns,
           new \in Commands', Assured(new)', Undisturbed(new)'
    PROVE  IInv'
<1>1. UNCHANGED <<registry, blobs, manifests, tags, orphans, accepted>>
    BY DEF Local
<1>2. Described \subseteq Described'
    BY <1>1, DescribedGrows
<1>3. /\ proc' \in [Processes -> Commands']
      /\ proc'[p] = new
      /\ \A q \in Processes \ {p} : proc'[q] = proc[q]
    BY <1>1, StepChanges DEF IInv, Types
<1>4. Types'
    BY <1>1, <1>3 DEF IInv, Types
<1>5. \A q \in Processes : Assured(proc[q])'
    BY <1>1, <1>3, AssuredGrows DEF IInv
<1>6. \A q \in Processes : Undisturbed(proc[q])'
    BY <1>1, <1>3 DEF IInv, Undisturbed
<1>7. OrphansProper' /\ Served'
    BY <1>1, <1>2 DEF IInv, OrphansProper, Proper, Served
<1>8. TagsAreWhole' /\ CopiesWereAccepted'
    BY <1>1 DEF IInv, TagsAreWhole, CopiesWereAccepted
<1> QED
    BY <1>4, <1>5, <1>6, <1>7, <1>8 DEF IInv

(* A command that fails is idle, which asks for nothing.                   *)
LEMMA IdleSound == Idle \in Commands' /\ Assured(Idle)' /\ Undisturbed(Idle)'
BY DEF Idle, Commands, Places, Ended, Assured, Undisturbed

(* A request of a command: what it carries is what the command is about,   *)
(* or damaged.                                                             *)
LEMMA RequestProper ==
    ASSUME IInv, NEW p \in Processes, proc[p].at = "sent"
    PROVE  /\ Request(p) \in {"put", "delete"} \X Ids \X (Bytes \cup {None})
           /\ Request(p)[2] = proc[p].id
           /\ Request(p)[1] = "delete" <=> proc[p].cmd = "delete"
           /\ Valid(Request(p)) => Proper(Request(p))
           /\ Valid(Request(p)) /\ proc[p].cmd # "delete" => Request(p)[3] = proc[p].bytes
<1>1. proc[p] \in Commands /\ Assured(proc[p])
    BY DEF IInv, Types
<1>2. proc[p].id \in Ids /\ (proc[p].cmd # "delete" => <<proc[p].id, proc[p].bytes>> \in Described)
    BY <1>1 DEF Assured
<1>3. proc[p].id \in Ids => Fits[proc[p].id] \subseteq Contents
    BY IdsAssumption
<1>4. CASE proc[p].cmd = "delete"
    BY <1>2, <1>4 DEF Request, Valid, Proper
<1>5. CASE proc[p].cmd # "delete"
  <2>1. Request(p) = <<"put", proc[p].id, IF proc[p].ok THEN proc[p].bytes ELSE Damaged>>
      BY <1>5 DEF Request
  <2>2. Valid(Request(p)) => proc[p].ok
      BY <1>2, <1>3, <2>1, DamagedAssumption DEF Valid
  <2>3. proc[p].bytes \in Bytes \cup {None}
      BY <1>1 DEF Commands
  <2> QED
      BY <1>2, <1>5, <2>1, <2>2, <2>3 DEF Valid, Proper, Bytes
<1> QED
    BY <1>4, <1>5

(* What the effect of a proper request leaves in the registry.             *)
LEMMA EffectSound ==
    ASSUME IInv, NEW r \in {"put", "delete"} \X Ids \X (Bytes \cup {None}),
           Proper(r), Effect(r), UNCHANGED <<offered, manifests>>
    PROVE  /\ registry' \in [Ids -> Contents \cup {None}]
           /\ accepted' \subseteq Ids \X Contents
           /\ accepted \subseteq accepted'
           /\ r[1] = "put" => <<r[2], r[3]>> \in accepted'
           /\ Served'
           /\ r[2] \in Affected(r)
           /\ \A id \in Affected(r) : registry'[id] = r[3]
           /\ \A id \in Ids \ Affected(r) : registry'[id] = registry[id]
<1>1. r[1] \in {"put", "delete"} /\ r[2] \in Ids
    OBVIOUS
<1>2. r[1] = "put" => r[3] \in Contents
    BY <1>1, IdsAssumption DEF Proper
<1>3. Affected(r) \subseteq Ids /\ r[2] \in Affected(r) /\ (r[1] = "put" => Affected(r) = {r[2]})
    BY <1>1 DEF Affected
<1>4. Described' = Described
    BY DEF Described, Acceptable, metadataFromOCIManifest
<1>5. registry' = [id \in Ids |-> IF id \in Affected(r) THEN r[3] ELSE registry[id]]
    BY DEF Effect
<1>6. registry \in [Ids -> Contents \cup {None}] /\ accepted \subseteq Ids \X Contents /\ Served
    BY DEF IInv, Types
<1>7. registry' \in [Ids -> Contents \cup {None}]
    BY <1>1, <1>2, <1>5, <1>6 DEF Proper
<1>8. /\ accepted' \subseteq Ids \X Contents
      /\ accepted \subseteq accepted'
      /\ r[1] = "put" => <<r[2], r[3]>> \in accepted'
    BY <1>1, <1>2, <1>6 DEF Effect
<1>9. Served'
    BY <1>1, <1>3, <1>4, <1>5, <1>6 DEF Served, Proper
<1> QED
    BY <1>3, <1>5, <1>7, <1>8, <1>9

(* The command line leads to a request, a bundle or a reference.           *)
LEMMA StartSound ==
    ASSUME IInv, NEW p \in Processes, NEW cmd \in {"publish", "push", "delete", "import"},
           NEW id \in Ids \cup {None}, NEW t \in Tags \cup {None},
           cmd # "import" => id \in Ids, Start(p, cmd, id, t)
    PROVE  IInv'
<1>1. PICK new : new = [Idle EXCEPT !.cmd = cmd, !.id = id, !.tag = t,
                                    !.at = CASE cmd = "import" -> "resolve"
                                             [] cmd = "delete" -> "send"
                                             [] OTHER          -> "bundle"]
    OBVIOUS
<1>2. Step(p, new) /\ Local /\ offered' = offered /\ runs' = runs + 1 /\ runs < MaxRuns
    BY <1>1 DEF Start
<1>3. /\ new.at \in {"resolve", "send", "bundle"} /\ new.cmd = cmd /\ new.id = id /\ new.tag = t
      /\ new.at = "send" <=> cmd = "delete"
      /\ new.at = "resolve" <=> cmd = "import"
    BY <1>1 DEF Idle
<1>4. new \in Commands'
    BY <1>1 DEF Idle, Commands, Places, Ended
<1>5. Assured(new)' /\ Undisturbed(new)'
    BY <1>3 DEF Assured, Undisturbed
<1>6. runs' \in 0..MaxRuns
    BY <1>2, RunsAssumption DEF IInv, Types
<1> QED
    BY <1>2, <1>4, <1>5, <1>6, LocalStep

(* The bundle is what its owner offers.                                    *)
LEMMA BundleSound ==
    ASSUME IInv, NEW p \in Processes, NEW c \in Contents, Bundle(p, c)
    PROVE  IInv'
<1>1. PICK e : e = proc[p]
    OBVIOUS
<1>2. PICK new : new = [e EXCEPT !.at = "send", !.bytes = c]
    OBVIOUS
<1>3. /\ e.at = "bundle" /\ Step(p, new) /\ Local /\ runs' = runs
      /\ offered' = offered \cup {<<e.id, c>>}
    BY <1>1, <1>2 DEF Bundle, Goto
<1>4. e \in Commands /\ Assured(e) /\ runs \in 0..MaxRuns
    BY <1>1 DEF IInv, Types
<1>5. new \in Commands'
    BY <1>2, <1>3, <1>4 DEF Commands, Places, Bytes, Local
<1>6. /\ new.at = "send" /\ new.bytes = c /\ new.id = e.id
    BY <1>2, <1>4 DEF Commands
<1>7. <<new.id, new.bytes>> \in Described' /\ new.id \in Ids
    BY <1>3, <1>4, <1>6 DEF Described, Assured
<1>8. Assured(new)' /\ Undisturbed(new)'
    BY <1>6, <1>7 DEF Assured, Undisturbed
<1> QED
    BY <1>3, <1>4, <1>5, <1>8, LocalStep

(* Sending changes neither identity nor bytes.                             *)
LEMMA SendSound ==
    ASSUME IInv, NEW p \in Processes, NEW whole \in BOOLEAN, Send(p, whole)
    PROVE  IInv'
<1>1. PICK e : e = proc[p]
    OBVIOUS
<1>2. PICK new : new = Updated(e, "sent", e.tag, e.id, e.bytes, e.manifest, whole)
    OBVIOUS
<1>3. e \in Commands /\ Assured(e) /\ runs \in 0..MaxRuns
    BY <1>1 DEF IInv, Types
<1>4. e.at = "send" /\ Step(p, new) /\ Local /\ runs' = runs /\ offered' = offered
    BY <1>1, <1>2, <1>3, Answers DEF Send, Goto
<1>5. "sent" \in Places /\ manifests' = manifests
    BY <1>4 DEF Places, Local
<1>6. new \in Commands'
    BY <1>2, <1>3, <1>5, Fields, UpdatedIs
<1>7. new.at = "sent" /\ new.bytes = e.bytes /\ new.id = e.id /\ new.cmd = e.cmd
    BY <1>2, <1>3, UpdatedFields
<1>8. Described \subseteq Described'
    BY <1>4, DescribedGrows DEF Local
<1>9. Assured(new)' /\ Undisturbed(new)'
    BY <1>3, <1>4, <1>7, <1>8 DEF Assured, Undisturbed
<1> QED
    BY <1>3, <1>4, <1>6, <1>9, LocalStep

(* A refusal leaves the command without a good answer.                     *)
LEMMA RefuseSound ==
    ASSUME IInv, NEW p \in Processes, Refuse(p)
    PROVE  IInv'
<1>1. PICK e : e = proc[p]
    OBVIOUS
<1>2. PICK new : new = Updated(e, "answered", e.tag, e.id, e.bytes, e.manifest, FALSE)
    OBVIOUS
<1>3. e \in Commands /\ Assured(e) /\ runs \in 0..MaxRuns /\ FALSE \in BOOLEAN
    BY <1>1 DEF IInv, Types
<1>4. e.at = "sent" /\ Step(p, new) /\ Local /\ runs' = runs /\ offered' = offered
    BY <1>1, <1>2, <1>3, Answers DEF Refuse, Goto
<1>5. "answered" \in Places /\ manifests' = manifests
    BY <1>4 DEF Places, Local
<1>6. new \in Commands'
    BY <1>2, <1>3, <1>5, Fields, UpdatedIs
<1>7. new.at = "answered" /\ new.bytes = e.bytes /\ new.id = e.id /\ new.cmd = e.cmd
    BY <1>2, <1>3 DEF Updated, Commands
<1>8. ~new.ok
    BY <1>2, <1>3, UpdatedAnswer
<1>9. Described \subseteq Described'
    BY <1>4, DescribedGrows DEF Local
<1>10. Assured(new)' /\ Undisturbed(new)'
    BY <1>3, <1>4, <1>7, <1>8, <1>9 DEF Assured, Undisturbed
<1> QED
    BY <1>3, <1>4, <1>6, <1>10, LocalStep

(* Only a good answer leads on to the repository or to success.            *)
LEMMA uploadArtifactSound ==
    ASSUME IInv, NEW p \in Processes, uploadArtifact(p)
    PROVE  IInv'
<1>1. PICK e : e = proc[p]
    OBVIOUS
<1>2. e.at = "answered" /\ Local /\ runs' = runs /\ offered' = offered
    BY <1>1 DEF uploadArtifact
<1>3. e \in Commands /\ Assured(e) /\ Undisturbed(e) /\ runs \in 0..MaxRuns
    BY <1>1 DEF IInv, Types
<1>4. CASE ~e.ok
  <2>1. Step(p, Idle)
      BY <1>1, <1>4 DEF uploadArtifact, Goto
  <2> QED
      BY <1>2, <1>3, <2>1, IdleSound, LocalStep
<1>5. CASE e.ok
  <2>1. PICK next : next = AfterUpload(p)
      OBVIOUS
  <2>2. PICK new : new = Updated(e, next, e.tag, e.id, e.bytes, e.manifest, e.ok)
      OBVIOUS
  <2>3. /\ next \in {"layer", "done"}
        /\ next = "layer" => e.cmd = "publish" /\ e.tag # None
        /\ next = "done" => ~(e.cmd = "publish" /\ e.tag # None)
      BY <1>1, <2>1 DEF AfterUpload
  <2>4. Step(p, new)
    <3>1. Step(p, [e EXCEPT !.at = next])
        BY <1>1, <1>5, <2>1, <2>3 DEF uploadArtifact, Goto
    <3> QED
        BY <1>3, <2>2, <3>1, Updates
  <2>5. UNCHANGED <<registry, tags, accepted, manifests>>
      BY <1>2 DEF Local
  <2>6. next \in Places /\ e.tag \in Tags \cup {None} /\ e.ok \in BOOLEAN
      BY <1>3, <2>3, Fields DEF Places, Ended
  <2>7. new \in Commands'
      BY <1>3, <2>2, <2>5, <2>6 DEF Updated, Commands
  <2>8. /\ new.at = next /\ new.bytes = e.bytes /\ new.id = e.id
        /\ new.cmd = e.cmd /\ new.tag = e.tag
      BY <1>3, <2>2 DEF Updated, Commands
  <2>9. new.calm <=> e.calm
      BY ONLY <1>3, <2>2, <2>6, UpdatedAnswer
  <2>10. Assured(new)'
      BY <1>2, <1>3, <1>5, <2>3, <2>5, <2>6, <2>8 DEF Assured
  <2>11. Undisturbed(new)'
      BY <1>2, <1>3, <1>5, <2>3, <2>5, <2>8, <2>9 DEF Undisturbed
  <2> QED
      BY <1>2, <1>3, <2>4, <2>7, <2>10, <2>11, LocalStep
<1> QED
    BY <1>4, <1>5

-----------------------------------------------------------------------------
(* Steps that show outside *)

(* The commands that a step does not concern.                              *)
Unconcerned(q) ==
    \/ proc'[q] = Shaken(proc[q])
    \/ /\ proc'[q] = proc[q]
       /\ proc[q].id \in Ids => registry'[proc[q].id] = registry[proc[q].id]
       /\ proc[q].tag \in Tags => tags'[proc[q].tag] = tags[proc[q].tag]

(* The others keep what they are assured of, and lose their calm if their  *)
(* identity or their tag is touched.                                       *)
LEMMA OutsideStep ==
    ASSUME IInv, NEW P \in SUBSET Processes, Types',
           offered \subseteq offered', manifests \subseteq manifests',
           accepted \subseteq accepted', blobs \subseteq blobs',
           \A q \in P : Assured(proc[q])' /\ Undisturbed(proc[q])',
           \A q \in Processes \ P : Unconcerned(q),
           OrphansProper', Served', TagsAreWhole', CopiesWereAccepted'
    PROVE  IInv'
<1>1. ASSUME NEW q \in Processes \ P
      PROVE  Assured(proc[q])' /\ Undisturbed(proc[q])'
  <2>1. PICK e : e = proc[q]
      OBVIOUS
  <2>2. PICK n : n = proc'[q]
      OBVIOUS
  <2>3. e \in Commands /\ Assured(e) /\ Undisturbed(e)
      BY <2>1 DEF IInv, Types
  <2>4. Assured(e)'
      BY <2>3, AssuredGrows
  <2>5. CASE n = Shaken(e)
    <3>1. /\ n.at = e.at /\ n.cmd = e.cmd /\ n.tag = e.tag /\ n.id = e.id /\ n.bytes = e.bytes
          /\ n.manifest = e.manifest
        BY <2>3, <2>5, ShakenFields
    <3>2. ~n.calm /\ (n.ok <=> e.ok)
        BY <2>3, <2>5, ShakenFields
    <3>3. Assured(n)' /\ Undisturbed(n)'
        BY <2>4, <3>1, <3>2 DEF Assured, Undisturbed
    <3> QED
        BY <2>2, <3>3 DEF Assured, Undisturbed
  <2>6. CASE /\ n = e
             /\ e.id \in Ids => registry'[e.id] = registry[e.id]
             /\ e.tag \in Tags => tags'[e.tag] = tags[e.tag]
    <3>1. e.tag # None => e.tag \in Tags
        BY <2>3, Fields
    <3>2. Undisturbed(e)'
        BY <2>3, <2>6, <3>1 DEF Undisturbed, Assured
    <3> QED
        BY <2>2, <2>4, <2>6, <3>2 DEF Assured, Undisturbed
  <2> QED
      BY <1>1, <2>1, <2>2, <2>5, <2>6 DEF Unconcerned
<1> QED
    BY <1>1 DEF IInv

(* The registry serves what was described, and tells the command so.       *)
LEMMA ServeSound ==
    ASSUME IInv, NEW p \in Processes, Serve(p)
    PROVE  IInv'
<1>1. PICK e : e = proc[p]
    OBVIOUS
<1>2. PICK r : r = Request(p)
    OBVIOUS
<1>3. PICK new : new = [e EXCEPT !.at = "answered", !.ok = TRUE]
    OBVIOUS
<1>4. /\ e.at = "sent" /\ Valid(r) /\ Effect(r) /\ StepSeen(p, new, Affected(r), {})
      /\ UNCHANGED <<orphans, blobs, manifests, tags, runs, offered>>
    BY <1>1, <1>2, <1>3 DEF Serve, Goto, Outside
<1>5. e \in Commands /\ Assured(e)
    BY <1>1 DEF IInv, Types
<1>6. /\ r \in {"put", "delete"} \X Ids \X (Bytes \cup {None}) /\ Proper(r) /\ r[2] = e.id
      /\ r[1] = "delete" <=> e.cmd = "delete"
      /\ e.cmd # "delete" => r[3] = e.bytes
    BY <1>1, <1>2, <1>4, RequestProper
<1>7. /\ registry' \in [Ids -> Contents \cup {None}]
      /\ accepted' \subseteq Ids \X Contents
      /\ accepted \subseteq accepted'
      /\ r[1] = "put" => <<r[2], r[3]>> \in accepted'
      /\ Served'
      /\ r[2] \in Affected(r)
      /\ \A id \in Affected(r) : registry'[id] = r[3]
      /\ \A id \in Ids \ Affected(r) : registry'[id] = registry[id]
    BY <1>4, <1>6, EffectSound
<1>8. new \in Commands'
    BY <1>3, <1>4, <1>5 DEF Commands, Places
<1>9. /\ new.at = "answered" /\ new.bytes = e.bytes /\ new.id = e.id /\ new.cmd = e.cmd
    BY <1>3, <1>5 DEF Commands
<1>10. /\ proc' \in [Processes -> Commands']
       /\ proc'[p] = new
       /\ \A q \in Processes \ {p} :
             \/ proc'[q] = Shaken(proc[q])
             \/ proc'[q] = proc[q] /\ proc[q].id \notin Affected(r)
    BY <1>4, <1>8, StepSeenChanges DEF IInv, Types
<1>11. Types'
    BY <1>4, <1>7, <1>10 DEF IInv, Types
<1>12. Described' = Described
    BY <1>4 DEF Described, Acceptable, metadataFromOCIManifest
<1>13. r[1] \in {"put", "delete"} /\ r[2] \in Ids /\ (r[1] = "delete" => r[3] = None)
    BY <1>6 DEF Proper
<1>14. Assured(new)'
    BY <1>4, <1>5, <1>6, <1>7, <1>9, <1>12, <1>13 DEF Assured
<1>15. Undisturbed(new)'
    BY <1>6, <1>7, <1>9, <1>13 DEF Undisturbed
<1>16. \A q \in {p} : Assured(proc[q])' /\ Undisturbed(proc[q])'
    BY <1>10, <1>14, <1>15 DEF Assured, Undisturbed
<1>17. \A q \in Processes \ {p} : Unconcerned(q)
    BY <1>4, <1>7, <1>10 DEF Unconcerned
<1>18. OrphansProper' /\ TagsAreWhole' /\ CopiesWereAccepted'
    BY <1>4, <1>7, <1>12 DEF IInv, OrphansProper, Proper, TagsAreWhole, CopiesWereAccepted
<1>19. {p} \in SUBSET Processes /\ offered \subseteq offered' /\ blobs \subseteq blobs'
       /\ manifests \subseteq manifests'
    BY <1>4
<1> QED
    BY <1>7, <1>11, <1>16, <1>17, <1>18, <1>19, OutsideStep

(* A request that nobody waits for serves what was described, too.         *)
LEMMA ServeOrphanSound ==
    ASSUME IInv, NEW r \in orphans, ServeOrphan(r)
    PROVE  IInv'
<1>1. /\ orphans' = orphans \ {r} /\ Effect(r)
      /\ UNCHANGED <<blobs, manifests, tags, runs, offered>>
      /\ proc' = [q \in Processes |->
            [proc[q] EXCEPT !.calm = @ /\ proc[q].id \notin Affected(r)]]
    BY DEF ServeOrphan, Outside
<1>2. r \in {"put", "delete"} \X Ids \X (Bytes \cup {None}) /\ Proper(r)
    BY DEF IInv, OrphansProper, Types
<1>3. /\ registry' \in [Ids -> Contents \cup {None}]
      /\ accepted' \subseteq Ids \X Contents
      /\ accepted \subseteq accepted'
      /\ Served'
      /\ \A id \in Ids \ Affected(r) : registry'[id] = registry[id]
    BY <1>1, <1>2, EffectSound
<1>4. /\ proc' \in [Processes -> Commands']
      /\ \A q \in Processes :
            \/ proc'[q] = Shaken(proc[q])
            \/ proc'[q] = proc[q] /\ proc[q].id \notin Affected(r)
  <2>1. ASSUME NEW q \in Processes
        PROVE  /\ proc'[q] \in Commands'
               /\ \/ proc'[q] = Shaken(proc[q])
                  \/ proc'[q] = proc[q] /\ proc[q].id \notin Affected(r)
    <3> PICK t : t = {}
        OBVIOUS
    <3>1. proc[q] \in Commands
        BY DEF IInv, Types
    <3>2. proc'[q] = [proc[q] EXCEPT !.calm = @ /\ proc[q].id \notin Affected(r)
                                                /\ proc[q].tag \notin t]
        BY <1>1
    <3> QED
        BY <1>1, <3>1, <3>2, ShakenChanges
  <2> QED
      BY <1>1, <2>1
<1>5. Types'
    BY <1>1, <1>3, <1>4 DEF IInv, Types
<1>6. Described' = Described
    BY <1>1 DEF Described, Acceptable, metadataFromOCIManifest
<1>7. \A q \in Processes : Unconcerned(q)
    BY <1>1, <1>3, <1>4 DEF Unconcerned
<1>8. OrphansProper' /\ TagsAreWhole' /\ CopiesWereAccepted'
    BY <1>1, <1>3, <1>6 DEF IInv, OrphansProper, Proper, TagsAreWhole, CopiesWereAccepted
<1>9. /\ {} \in SUBSET Processes /\ offered \subseteq offered' /\ blobs \subseteq blobs'
      /\ manifests \subseteq manifests'
      /\ \A q \in {} : Assured(proc[q])' /\ Undisturbed(proc[q])'
      /\ \A q \in Processes \ {} : Unconcerned(q)
    BY <1>1, <1>7
<1> QED
    BY <1>3, <1>5, <1>8, <1>9, OutsideStep

(* A step in the repository.                                               *)
LEMMA RepositoryStep ==
    ASSUME IInv, NEW P \in SUBSET Processes, Repository,
           manifests \subseteq manifests', blobs \subseteq blobs', blobs' \subseteq Bytes,
           tags' \in [Tags -> manifests' \cup {None}],
           proc' \in [Processes -> Commands'],
           \A q \in P : Assured(proc[q])' /\ Undisturbed(proc[q])',
           \A q \in Processes \ P : Unconcerned(q),
           TagsAreWhole', CopiesWereAccepted'
    PROVE  IInv'
<1>1. UNCHANGED <<registry, orphans, runs, offered, accepted>>
    BY DEF Repository
<1>2. Described \subseteq Described'
    BY <1>1, DescribedGrows
<1>3. Types'
    BY <1>1 DEF IInv, Types
<1>4. OrphansProper' /\ Served'
    BY <1>1, <1>2 DEF IInv, OrphansProper, Proper, Served
<1>5. offered \subseteq offered' /\ accepted \subseteq accepted'
    BY <1>1
<1> QED
    BY <1>3, <1>4, <1>5, OutsideStep

(* A push that leaves the tags alone concerns no other command.            *)
LEMMA PushStep ==
    ASSUME IInv, NEW p \in Processes, NEW new, Step(p, new) \/ StepSeen(p, new, {}, {}),
           Repository, tags' = tags,
           manifests \subseteq manifests', blobs \subseteq blobs', blobs' \subseteq Bytes,
           new \in Commands', Assured(new)', Undisturbed(new)', CopiesWereAccepted'
    PROVE  IInv'
<1>1. /\ proc' \in [Processes -> Commands']
      /\ proc'[p] = new
      /\ \A q \in Processes \ {p} : proc'[q] = Shaken(proc[q]) \/ proc'[q] = proc[q]
  <2>1. CASE Step(p, new)
      BY <2>1, StepChanges DEF IInv, Types
  <2>2. CASE StepSeen(p, new, {}, {})
      BY <2>2, StepSeenChanges DEF IInv, Types
  <2> QED
      BY <2>1, <2>2
<1>2. \A q \in {p} : Assured(proc[q])' /\ Undisturbed(proc[q])'
    BY <1>1 DEF Assured, Undisturbed
<1>3. \A q \in Processes \ {p} : Unconcerned(q)
    BY <1>1 DEF Unconcerned, Repository
<1>4. TagsAreWhole'
    BY DEF IInv, TagsAreWhole
<1>5. {p} \in SUBSET Processes /\ tags' \in [Tags -> manifests' \cup {None}]
    BY DEF IInv, Types
<1> QED
    BY <1>1, <1>2, <1>3, <1>4, <1>5, RepositoryStep

(* One that moves a tag concerns the commands that use the tag.            *)
LEMMA TagStep ==
    ASSUME IInv, NEW p \in Processes, NEW new, NEW ids, NEW t \in Tags, NEW m \in manifests,
           StepSeen(p, new, ids, {t}), Repository, UNCHANGED <<blobs, manifests>>,
           tags' = [tags EXCEPT ![t] = m],
           \A i \in DOMAIN m.layers : m.layers[i].bytes \in blobs,
           new \in Commands', Assured(new)', Undisturbed(new)'
    PROVE  IInv'
<1>1. /\ proc' \in [Processes -> Commands']
      /\ proc'[p] = new
      /\ \A q \in Processes \ {p} :
            \/ proc'[q] = Shaken(proc[q])
            \/ proc'[q] = proc[q] /\ proc[q].tag # t
    BY StepSeenChanges DEF IInv, Types
<1>2. \A q \in {p} : Assured(proc[q])' /\ Undisturbed(proc[q])'
    BY <1>1 DEF Assured, Undisturbed
<1>3. tags' \in [Tags -> manifests' \cup {None}] /\ tags'[t] = m
      /\ \A s \in Tags : s # t => tags'[s] = tags[s]
    BY DEF IInv, Types
<1>4. \A q \in Processes \ {p} : Unconcerned(q)
    BY <1>1, <1>3 DEF Unconcerned, Repository
<1>5. TagsAreWhole'
    BY <1>3 DEF IInv, TagsAreWhole
<1>6. CopiesWereAccepted'
    BY DEF IInv, CopiesWereAccepted, Repository
<1>7. {p} \in SUBSET Processes /\ blobs' \subseteq Bytes
    BY DEF IInv, Types
<1> QED
    BY <1>1, <1>2, <1>3, <1>4, <1>5, <1>6, <1>7, RepositoryStep

(* The layer is there before the manifest.                                 *)
LEMMA PushLayerSound ==
    ASSUME IInv, NEW p \in Processes, PushLayer(p)
    PROVE  IInv'
<1>1. PICK e : e = proc[p]
    OBVIOUS
<1>2. PICK new : new = [e EXCEPT !.at = "manifest"]
    OBVIOUS
<1>3. /\ e.at = "layer" /\ Step(p, new) /\ Repository
      /\ blobs' = blobs \cup {e.bytes} /\ manifests' = manifests /\ tags' = tags
    BY <1>1, <1>2 DEF PushLayer, Goto
<1>4. e \in Commands /\ Assured(e) /\ Undisturbed(e)
    BY <1>1 DEF IInv, Types
<1>5. new \in Commands'
    BY <1>2, <1>3, <1>4 DEF Commands, Places
<1>6. /\ new.at = "manifest" /\ new.bytes = e.bytes /\ new.id = e.id
      /\ new.cmd = e.cmd /\ new.tag = e.tag
    BY <1>2, <1>4 DEF Commands
<1>7. new.calm <=> e.calm
    BY <1>2, <1>4 DEF Commands
<1>8. registry' = registry /\ accepted' = accepted
    BY <1>3 DEF Repository
<1>9. Assured(new)'
    BY <1>3, <1>4, <1>6, <1>8 DEF Assured
<1>10. Undisturbed(new)'
    BY <1>3, <1>4, <1>6, <1>7, <1>8 DEF Undisturbed
<1>11. blobs' \subseteq Bytes
    BY <1>3, <1>4 DEF IInv, Types, Assured, Bytes
<1>12. CopiesWereAccepted'
    BY <1>3, <1>8 DEF IInv, CopiesWereAccepted
<1> QED
    BY <1>3, <1>5, <1>9, <1>10, <1>11, <1>12, PushStep

(* The manifest that is pushed describes an artifact that was accepted.    *)
LEMMA PushManifestSound ==
    ASSUME IInv, NEW p \in Processes, PushManifest(p)
    PROVE  IInv'
<1>1. PICK e : e = proc[p]
    OBVIOUS
<1>2. PICK m : m = packOCIArtifact(e.id, e.bytes)
    OBVIOUS
<1>3. PICK new : new = [e EXCEPT !.at = "tag", !.manifest = m]
    OBVIOUS
<1>4. /\ e.at = "manifest" /\ Step(p, new) /\ Repository
      /\ blobs' = blobs /\ manifests' = manifests \cup {m} /\ tags' = tags
    BY <1>1, <1>2, <1>3 DEF PushManifest, Goto
<1>5. e \in Commands /\ Assured(e) /\ Undisturbed(e)
    BY <1>1 DEF IInv, Types
<1>6. new \in Commands'
    BY <1>3, <1>4, <1>5 DEF Commands, Places
<1>7. /\ new.at = "tag" /\ new.bytes = e.bytes /\ new.id = e.id
      /\ new.cmd = e.cmd /\ new.tag = e.tag /\ new.manifest = m
    BY <1>3, <1>5 DEF Commands
<1>8. new.calm <=> e.calm
    BY <1>3, <1>5 DEF Commands
<1>9. registry' = registry /\ accepted' = accepted
    BY <1>4 DEF Repository
<1>10. Assured(new)'
    BY <1>2, <1>4, <1>5, <1>7, <1>9 DEF Assured, packOCIArtifact
<1>11. Undisturbed(new)'
    BY <1>4, <1>5, <1>7, <1>8, <1>9 DEF Undisturbed
<1>12. blobs' \subseteq Bytes
    BY <1>4 DEF IInv, Types
<1>13. CopiesWereAccepted'
  <2>1. <<m.id, m.layers[1].bytes>> \in accepted
      BY <1>2, <1>4, <1>5, Packed DEF Assured
  <2> QED
      BY <1>4, <1>9, <2>1 DEF IInv, CopiesWereAccepted
<1> QED
    BY <1>4, <1>6, <1>10, <1>11, <1>12, <1>13, PushStep

(* The tag is set when all of the artifact is there.                       *)
LEMMA TagSound ==
    ASSUME IInv, NEW p \in Processes, Tag(p)
    PROVE  IInv'
<1>1. PICK e : e = proc[p]
    OBVIOUS
<1>2. PICK new : new = [e EXCEPT !.at = "done", !.manifest = None]
    OBVIOUS
<1>3. /\ e.at = "tag" /\ StepSeen(p, new, {}, {e.tag}) /\ Repository
      /\ UNCHANGED <<blobs, manifests>> /\ tags' = [tags EXCEPT ![e.tag] = e.manifest]
    BY <1>1, <1>2 DEF Tag, Goto
<1>4. e \in Commands /\ Assured(e) /\ Undisturbed(e)
    BY <1>1 DEF IInv, Types
<1>5. new \in Commands'
    BY <1>2, <1>3, <1>4 DEF Commands, Places, Ended
<1>6. /\ new.at = "done" /\ new.bytes = e.bytes /\ new.id = e.id
      /\ new.cmd = e.cmd /\ new.tag = e.tag
    BY <1>2, <1>4 DEF Commands
<1>7. new.calm <=> e.calm
    BY <1>2, <1>4 DEF Commands
<1>8. registry' = registry
    BY <1>3 DEF Repository
<1>9. /\ e.tag \in Tags /\ e.manifest \in manifests /\ e.bytes \in blobs /\ e.id \in Ids
      /\ e.manifest = packOCIArtifact(e.id, e.bytes)
    BY <1>3, <1>4 DEF Assured
<1>10. tags'[e.tag] = e.manifest
    BY <1>3, <1>9 DEF IInv, Types
<1>11. Assured(new)'
    BY <1>6, <1>9 DEF Assured
<1>12. Undisturbed(new)'
    BY <1>3, <1>4, <1>6, <1>7, <1>8, <1>9, <1>10 DEF Undisturbed, packOCIArtifact
<1>13. \A i \in DOMAIN e.manifest.layers : e.manifest.layers[i].bytes \in blobs
    BY <1>9, Packed
<1> QED
    BY <1>3, <1>5, <1>9, <1>11, <1>12, <1>13, TagStep

(* A push that fails, carried out or not, leaves nothing that is not whole. *)
LEMMA PushFailsSound ==
    ASSUME IInv, NEW p \in Processes, NEW carriedOut \in BOOLEAN, PushFails(p, carriedOut)
    PROVE  IInv'
<1>1. PICK e : e = proc[p]
    OBVIOUS
<1>2. PICK m : m = packOCIArtifact(e.id, e.bytes)
    OBVIOUS
<1>3. e \in Commands /\ Assured(e)
    BY <1>1 DEF IInv, Types
<1>4. e.at \in {"layer", "manifest", "tag"} /\ Repository
    BY <1>1 DEF PushFails
<1>5. Goto(p, AfterOCIError(proc[p].at)) = Idle
    BY DEF Goto, AfterOCIError
<1>6. blobs \subseteq Bytes /\ <<e.id, e.bytes>> \in accepted /\ accepted \subseteq Ids \X Contents
    BY <1>3, <1>4 DEF IInv, Types, Assured
<1>7. registry' = registry /\ accepted' = accepted
    BY <1>4 DEF Repository
<1>8. Idle \in Commands' /\ Assured(Idle)' /\ Undisturbed(Idle)'
    BY IdleSound
<1>9. PICK new : new = Idle
    OBVIOUS
<1>10. new \in Commands' /\ Assured(new)' /\ Undisturbed(new)'
    BY <1>8, <1>9 DEF Idle, Commands, Assured, Undisturbed
<1>11. CASE carriedOut /\ e.at = "tag"
  <2>1. /\ e.tag \in Tags /\ m \in manifests /\ e.bytes \in blobs
      BY <1>2, <1>3, <1>11 DEF Assured
  <2>2. /\ UNCHANGED <<blobs, manifests>> /\ tags' = [tags EXCEPT ![e.tag] = m]
        /\ StepSeen(p, new, {}, {e.tag})
      BY <1>1, <1>2, <1>5, <1>9, <1>11 DEF PushFails
  <2>3. \A i \in DOMAIN m.layers : m.layers[i].bytes \in blobs
      BY <1>2, <2>1, Packed
  <2> QED
      BY <1>4, <1>10, <2>1, <2>2, <2>3, TagStep
<1>12. CASE ~(carriedOut /\ e.at = "tag")
  <2>1. tags' = tags /\ StepSeen(p, new, {}, {})
      BY <1>1, <1>5, <1>9, <1>12 DEF PushFails
  <2>2. /\ manifests' = manifests \/ manifests' = manifests \cup {m}
        /\ blobs' = blobs \/ blobs' = blobs \cup {e.bytes}
      BY <1>1, <1>2 DEF PushFails
  <2>3. blobs' \subseteq Bytes
      BY <1>6, <2>2 DEF Bytes
  <2>4. <<m.id, m.layers[1].bytes>> \in accepted
      BY <1>2, <1>6, Packed
  <2>5. CopiesWereAccepted'
      BY <1>7, <2>2, <2>4 DEF IInv, CopiesWereAccepted
  <2> QED
      BY <1>4, <1>10, <2>1, <2>2, <2>3, <2>5, PushStep
<1> QED
    BY <1>11, <1>12

(* Other tools copy their manifests whole.                                 *)
LEMMA ForeignPushSound ==
    ASSUME IInv, NEW m \in Foreign, NEW t \in Tags, ForeignPush(m, t)
    PROVE  IInv'
<1>1. /\ manifests' = manifests \cup {m} /\ tags' = [tags EXCEPT ![t] = m] /\ Repository
      /\ blobs' = blobs \cup {m.layers[i].bytes : i \in DOMAIN m.layers}
      /\ proc' = [q \in Processes |-> [proc[q] EXCEPT !.calm = @ /\ proc[q].tag # t]]
    BY DEF ForeignPush
<1>2. ASSUME NEW q \in Processes
      PROVE  /\ proc'[q] \in Commands'
             /\ \/ proc'[q] = Shaken(proc[q])
                \/ proc'[q] = proc[q] /\ proc[q].tag # t
  <2> PICK ids : ids = {}
      OBVIOUS
  <2> PICK ts : ts = {t}
      OBVIOUS
  <2>1. proc[q] \in Commands
      BY DEF IInv, Types
  <2>2. proc'[q] = [proc[q] EXCEPT !.calm = @ /\ proc[q].id \notin ids /\ proc[q].tag \notin ts]
      BY <1>1
  <2> QED
      BY <1>1, <2>1, <2>2, ShakenChanges
<1>3. proc' \in [Processes -> Commands']
    BY <1>1, <1>2
<1>4. /\ tags' \in [Tags -> manifests' \cup {None}] /\ tags'[t] = m
      /\ \A s \in Tags : s # t => tags'[s] = tags[s]
    BY <1>1 DEF IInv, Types
<1>5. \A q \in Processes \ {} : Unconcerned(q)
    BY <1>1, <1>2, <1>4 DEF Unconcerned, Repository
<1>6. TagsAreWhole'
    BY <1>1, <1>4 DEF IInv, TagsAreWhole
<1>7. CopiesWereAccepted'
    BY <1>1 DEF IInv, CopiesWereAccepted, Repository
<1>8. blobs' \subseteq Bytes
    BY <1>1, ForeignAssumption DEF IInv, Types
<1>9. /\ {} \in SUBSET Processes /\ manifests \subseteq manifests' /\ blobs \subseteq blobs'
      /\ \A q \in {} : Assured(proc[q])' /\ Undisturbed(proc[q])'
    BY <1>1
<1> QED
    BY <1>1, <1>3, <1>4, <1>5, <1>6, <1>7, <1>8, <1>9, RepositoryStep

-----------------------------------------------------------------------------
(* The steps of import *)

(* Resolve finds a manifest that is in the repository.                     *)
LEMMA ResolveSound ==
    ASSUME IInv, NEW p \in Processes, NEW m \in manifests, Resolve(p, m)
    PROVE  IInv'
<1>1. PICK e : e = proc[p]
    OBVIOUS
<1>2. PICK new : new = [e EXCEPT !.at = "fetch", !.manifest = m]
    OBVIOUS
<1>3. e.at = "resolve" /\ Step(p, new) /\ Local /\ runs' = runs /\ offered' = offered
    BY <1>1, <1>2 DEF Resolve, Goto
<1>4. e \in Commands /\ runs \in 0..MaxRuns
    BY <1>1 DEF IInv, Types
<1>5. new \in Commands'
    BY <1>2, <1>3, <1>4 DEF Commands, Places, Local
<1>6. new.at = "fetch" /\ new.manifest = m
    BY <1>2, <1>4 DEF Commands
<1>7. Assured(new)' /\ Undisturbed(new)'
    BY <1>3, <1>6 DEF Assured, Undisturbed, Local
<1> QED
    BY <1>3, <1>4, <1>5, <1>7, LocalStep

(* FetchManifest takes the identity from that manifest.                    *)
LEMMA FetchManifestSound ==
    ASSUME IInv, NEW p \in Processes, FetchManifest(p)
    PROVE  IInv'
<1>1. PICK e : e = proc[p]
    OBVIOUS
<1>2. PICK new : new = [e EXCEPT !.at = "unpack", !.id = e.manifest.id]
    OBVIOUS
<1>3. /\ e.at = "fetch" /\ Step(p, new) /\ Local /\ runs' = runs /\ offered' = offered
      /\ Acceptable(e.manifest)
    BY <1>1, <1>2 DEF FetchManifest, Goto
<1>4. e \in Commands /\ Assured(e) /\ runs \in 0..MaxRuns
    BY <1>1 DEF IInv, Types
<1>5. e.manifest.id \in Ids
    BY <1>3 DEF Acceptable, metadataFromOCIManifest
<1>6. new \in Commands'
    BY <1>2, <1>3, <1>4, <1>5 DEF Commands, Places, Local
<1>7. new.at = "unpack" /\ new.manifest = e.manifest /\ new.id = e.manifest.id
    BY <1>2, <1>4 DEF Commands
<1>8. Assured(new)'
    BY <1>3, <1>4, <1>7 DEF Assured, Local, Acceptable, metadataFromOCIManifest
<1>9. Undisturbed(new)'
    BY <1>7 DEF Undisturbed
<1> QED
    BY <1>3, <1>4, <1>6, <1>8, <1>9, LocalStep

(* What is sent on is what the manifest, resolved once, describes.         *)
LEMMA FetchLayerSound ==
    ASSUME IInv, NEW p \in Processes, NEW got \in Bytes, FetchLayer(p, got)
    PROVE  IInv'
<1>1. PICK e : e = proc[p]
    OBVIOUS
<1>2. /\ e.at = "unpack" /\ Local /\ runs' = runs /\ offered' = offered
    BY <1>1 DEF FetchLayer
<1>3. e \in Commands /\ Assured(e) /\ runs \in 0..MaxRuns
    BY <1>1 DEF IInv, Types
<1>4. CASE Intact(Layer(p), got)
  <2>1. PICK new : new = [e EXCEPT !.at = "send", !.bytes = got, !.manifest = None, !.tag = None]
      OBVIOUS
  <2>2. Step(p, new) /\ got = e.manifest.layers[1].bytes
      BY <1>1, <1>4, <2>1 DEF FetchLayer, Goto, Intact, Layer
  <2>3. new \in Commands'
      BY <1>2, <1>3, <2>1 DEF Commands, Places, Local
  <2>4. new.at = "send" /\ new.bytes = got /\ new.id = e.id
      BY <1>3, <2>1 DEF Commands
  <2>5. e.manifest \in manifests' /\ Acceptable(e.manifest)' /\ e.id = e.manifest.id /\ e.id \in Ids
      BY <1>2, <1>3 DEF Assured, Local, Acceptable, metadataFromOCIManifest
  <2>6. <<e.id, got>> \in Described'
      BY <2>2, <2>5 DEF Described
  <2>7. Assured(new)' /\ Undisturbed(new)'
      BY <2>4, <2>5, <2>6 DEF Assured, Undisturbed
  <2> QED
      BY <1>2, <1>3, <2>2, <2>3, <2>7, LocalStep
<1>5. CASE ~Intact(Layer(p), got)
  <2>1. Step(p, Idle)
      BY <1>5 DEF FetchLayer, Goto
  <2> QED
      BY <1>2, <1>3, <2>1, IdleSound, LocalStep
<1> QED
    BY <1>4, <1>5

(* What a command leaves with the registry when it goes is proper.         *)
LEMMA GiveUpSound ==
    ASSUME IInv, NEW p \in Processes, GiveUp(p)
    PROVE  IInv'
<1>1. PICK new : new = Idle
    OBVIOUS
<1>2. /\ orphans' = orphans \cup {r \in {Request(p)} : proc[p].at = "sent" /\ Valid(r)}
      /\ Step(p, new)
      /\ UNCHANGED <<registry, blobs, manifests, tags, runs, offered, accepted>>
    BY <1>1 DEF GiveUp, Goto
<1>3. Idle \in Commands' /\ Assured(Idle)' /\ Undisturbed(Idle)'
    BY IdleSound
<1>4. new \in Commands' /\ Assured(new)' /\ Undisturbed(new)'
    BY <1>1, <1>3 DEF Idle, Commands, Assured, Undisturbed
<1>5. /\ proc' \in [Processes -> Commands']
      /\ proc'[p] = new
      /\ \A q \in Processes \ {p} : proc'[q] = proc[q]
    BY <1>2, <1>4, StepChanges DEF IInv, Types
<1>6. \A q \in {p} : Assured(proc[q])' /\ Undisturbed(proc[q])'
    BY <1>4, <1>5 DEF Assured, Undisturbed
<1>7. \A q \in Processes \ {p} : Unconcerned(q)
    BY <1>2, <1>5 DEF Unconcerned
<1>8. \A r \in orphans' \ orphans :
         r \in {"put", "delete"} \X Ids \X (Bytes \cup {None}) /\ Proper(r)
    BY <1>2, RequestProper
<1>9. Types'
    BY <1>2, <1>5, <1>8 DEF IInv, Types
<1>10. Described' = Described
    BY <1>2 DEF Described, Acceptable, metadataFromOCIManifest
<1>11. OrphansProper'
    BY <1>8, <1>10 DEF IInv, OrphansProper, Proper
<1>12. Served' /\ TagsAreWhole' /\ CopiesWereAccepted'
    BY <1>2, <1>10 DEF IInv, Served, TagsAreWhole, CopiesWereAccepted
<1>13. /\ {p} \in SUBSET Processes /\ offered \subseteq offered' /\ blobs \subseteq blobs'
       /\ manifests \subseteq manifests' /\ accepted \subseteq accepted'
    BY <1>2
<1> QED
    BY <1>6, <1>7, <1>9, <1>11, <1>12, <1>13, OutsideStep

-----------------------------------------------------------------------------
(* The theorems *)

(* Nothing has happened yet.                                               *)
LEMMA Initially == Init => IInv
<1> SUFFICES ASSUME Init PROVE IInv
    OBVIOUS
<1>1. proc \in [Processes -> Commands]
    BY DEF Init, Idle, Commands, Places, Ended
<1>2. Types
    BY <1>1, RunsAssumption DEF Init, Types
<1>3. \A p \in Processes : Assured(proc[p]) /\ Undisturbed(proc[p])
    BY DEF Init, Idle, Assured, Undisturbed
<1>4. OrphansProper /\ Served /\ TagsAreWhole /\ CopiesWereAccepted
    BY DEF Init, OrphansProper, Served, TagsAreWhole, CopiesWereAccepted
<1> QED
    BY <1>2, <1>3, <1>4 DEF IInv

(* Every step of a command keeps the invariant,                            *)
LEMMA ProcessStepSound ==
    ASSUME IInv, NEW p \in Processes, ProcessStep(p)
    PROVE  IInv'
<1>1. ASSUME NEW id \in Ids, NEW t \in Tags \cup {None}, Start(p, "publish", id, t)
      PROVE  IInv'
    BY <1>1, StartSound
<1>2. ASSUME NEW id \in Ids, NEW cmd \in {"push", "delete"}, Start(p, cmd, id, None)
      PROVE  IInv'
    BY <1>2, StartSound
<1>3. ASSUME NEW t \in Tags \cup {None}, Start(p, "import", None, t)
      PROVE  IInv'
    BY <1>3, StartSound
<1>4. CASE Serve(p) \/ Refuse(p) \/ uploadArtifact(p) \/ GiveUp(p)
    BY <1>4, ServeSound, RefuseSound, uploadArtifactSound, GiveUpSound
<1>5. CASE PushLayer(p) \/ PushManifest(p) \/ Tag(p) \/ FetchManifest(p)
    BY <1>5, PushLayerSound, PushManifestSound, TagSound, FetchManifestSound
<1> QED
    BY <1>1, <1>2, <1>3, <1>4, <1>5, BundleSound, SendSound, PushFailsSound, ResolveSound,
       FetchLayerSound DEF ProcessStep

(* and so does everything else that happens.                               *)
LEMMA NextSound == IInv /\ [Next]_vars => IInv'
<1> SUFFICES ASSUME IInv, [Next]_vars PROVE IInv'
    OBVIOUS
<1>1. CASE UNCHANGED vars
    BY <1>1 DEF vars, IInv, Types, Commands, Places, Assured, Undisturbed, OrphansProper, Proper,
       Served, TagsAreWhole, CopiesWereAccepted, Described, Acceptable, metadataFromOCIManifest
<1> QED
    BY <1>1, ProcessStepSound, ServeOrphanSound, ForeignPushSound DEF Next

(* The inductive invariant holds throughout.                               *)
THEOREM ExchangeInvariant == Spec => []IInv
BY Initially, NextSound, PTL DEF Spec

(* The variables keep their types; only publish gets to the repository.    *)
THEOREM ExchangeTypeCorrect == Spec => []TypeOK
<1>1. IInv => TypeOK
  <2> SUFFICES ASSUME IInv PROVE TypeOK
      OBVIOUS
  <2>1. \A p \in Processes : proc[p].at \in Places /\ Assured(proc[p])
      BY Fields DEF IInv, Types
  <2> QED
      BY <2>1 DEF IInv, Types, TypeOK, Assured, Places
<1> QED
    BY <1>1, ExchangeInvariant, PTL

(* The registry serves under an identity only what its owner offered or an *)
(* acceptable manifest describes, and import sends nothing else.           *)
THEOREM AlwaysServedAsDescribed == Spec => []ServedAsDescribed
<1>1. IInv => ServedAsDescribed
    BY DEF IInv, Served, Assured, ServedAsDescribed
<1> QED
    BY <1>1, ExchangeInvariant, PTL

(* No tag ever names a manifest without its layers.                        *)
THEOREM TagsAlwaysWhole == Spec => []TagsAreWhole
<1>1. IInv => TagsAreWhole
    BY DEF IInv
<1> QED
    BY <1>1, ExchangeInvariant, PTL

(* publish copies nothing that the registry has not accepted.              *)
THEOREM CopiesAlwaysAccepted == Spec => []CopiesWereAccepted
<1>1. IInv => CopiesWereAccepted
    BY DEF IInv
<1> QED
    BY <1>1, ExchangeInvariant, PTL

(* A command that reports success, undisturbed, has done all of it.        *)
THEOREM SuccessAlwaysMeansBoth == Spec => []SuccessMeansBoth
<1>1. IInv => SuccessMeansBoth
    BY DEF IInv, Undisturbed, SuccessMeansBoth
<1> QED
    BY <1>1, ExchangeInvariant, PTL
=============================================================================

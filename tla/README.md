# terraform-registry: verification project

TLA+ modules that model the registry server and its client `tfreg`, TLC
configurations that check them on small instances, and TLAPS proofs of the
main results for every instance. `PROJECT.json` maps every modelling
definition to the source lines it stands for and lists the hazards the
properties are for.

Run from this directory: `tlc -workers 2 -config MCPlatforms.cfg
MCProviderRegistry` (and likewise for the other `.cfg` files),
`tlapm ProviderRegistryProofs.tla` (and likewise for the other seven modules
whose names end in `Proofs`).

## 1. The system

### Components and their state

| Component | Source | State | Operations |
|---|---|---|---|
| Provider publication | `api.go`, `signing.go`, `storage.go` | per version directory: archives, `<os>_<arch>.json`, `SHA256SUMS`, `.sig`, `metadata.json`; `index.json` per provider | upload, delete, deprecate, rebuild of checksums at an upload and at the start |
| Module publication | `api.go`, `main.go` | per version: archive, `artifact.json`, `metadata.json`; index | upload, delete, deprecate, latest |
| Storage | `storage.go` | the file tree, one mutex per path | Put, PutStreamImmutable, StageDeleteTree, Delete, index updates, GarbageCollect |
| Signing | `signing.go` | the OpenPGP key | Sign, rebuild of one or all checksum lists |
| API keys | `auth.go` | `keys.json`, the loaded table, `lastMod` | create, hot reload, migrate plaintext keys, HasPermission |
| Rate limiter | `middleware.go` | a token bucket per client | allow, cleanup |
| Protocol and mirror | `main.go`, `validation.go` | none; reads the files without a lock | versions, download metadata, mirror, file download |
| Semantic versions | `semver.go` | none | parse, compare, sort, latest |
| Archive validation | `archive_validation.go` | none | limits, path rules, binary names |
| Request handling, audit log, metrics | `main.go`, `middleware.go`, `metrics.go` | requests under way, the holder of `mutationMu`, log, counters | middleware chain, lock, body, audit, answer, shutdown |
| UI, random keys | `ui.go`, `crypto.go` | none | none that a decision depends on |
| `tfreg` client | `cmd/tfreg/` | local files, an OCI repository | pull, upload, publish, OCI push, import |

### How they interact

All mutations of provider and module publication hold one mutex,
`mutationMu`, from their first to their last storage call, so they never
interleave with each other. They do interleave with readers, which take no
lock; with the hourly garbage collection, which takes none either; and with
the end of the process at any point. A mutation is a series of file calls each
of which is atomic by itself (write to a temporary file, rename), so the hard
part is the series: which prefix of it readers can see, what a call that fails
leaves behind, and what a kill leaves for the next start. The start of the
server rebuilds every checksum list before it listens.

A management request passes the metrics counter, the rate limiter, the audit
log and the key store, in this order. The key store has no lock around the
reload of a changed file: requests reload it concurrently while an operator may
replace it. A changing handler takes `mutationMu` before it reads the request
body, so a client decides how long the others wait.

Clients make several requests and keep nothing on the server between them.
Terraform and `tfreg pull` read three to eleven files, one after the other;
`tfreg publish` changes the registry first and an OCI repository second, and is
run again by hand when either fails.

### What makes each component correct

* Publication: metadata never names a missing archive; the signed checksum
  list covers what is published; what was acknowledged stays; a request takes
  effect wholly or not at all; nothing is left behind.
* API keys: a request is decided by a configuration that was in force while
  it ran; a broken file never takes the keys away; the server never undoes a
  rotation.
* Rate limiter: it is a token bucket, whatever is forgotten in between.
* Readers: what a client installs was published while it asked, and a client
  that nothing disturbs gets what it was told is published.
* Request handling: nobody waits for ever but behind a client that has stalled,
  readers wait for nobody, an answered request is in the audit log, and a
  shutdown ends.
* Versions: comparison is a total order on precedence, latest is its maximum.
* Client: identities and bytes are never mixed up, a tag never names half an
  artifact, and a command that reports success has done all of it.

## 2. Modules

### ProviderRegistry

One provider with a set of versions, platforms and archive contents. `dir[v]`
is the version directory, `index` the index file, `trash` the versions with a
left-over `.trash-*` tree. Files are what they name: an archive is a pair of
platform and content (its name holds both), a checksum list the set of
archives it names, a signature the list it signs.

`pc` is the next storage call of the handler that holds `mutationMu`, and
`req`, `undo`, `staged` are its locals. One action is one storage call that
changes a file, with the reads before it.

| Code | Actions |
|---|---|
| `uploadProviderHandler` | `StoreArtifact`, `PutMeta`, `PutSums`, `PutSig`, `AddIndex`, `DropOld`, each with its failing form |
| `restorePublication` and the early clean-up | `RestoreMeta`, `RestoreSums`, `RestoreSig`, `DropZip` |
| `deleteProviderVersionHandler` | `StageDelete`, `RemoveIndex`, `Rollback`, `Commit` |
| `deprecateProviderHandler` | `Deprecate` |
| every early return with an error | `Refuse` |
| `GarbageCollect` (ticker and handler) | `CollectGarbage` |
| kill, forced shutdown | `Crash` |
| `main`, `rebuildAllProviderChecksums` | `Start`, `RebuildSums`, `RebuildSig`, `Listen` |

In the calls of up to `MaxFaults` steps of one request something may fail:
writes, and reads too, whose errors the code takes for "was not there" (the
previous metadata, list and signature) or skips (another platform's metadata).

`acked`, `suspect`, `litter`, and the fields `clean`, `whole`, `was` of `undo`
are history: no action's guard or effect on the files reads them. `acked` is
what clients were told. `suspect` holds the versions whose checksum list may
be out of date because of a kill inside a mutation, a read that failed or a
left-over temporary file; `litter` those where a kill or a failed clean-up may
have left archives. They say precisely where a property makes an exception.

### Catalog

What the mutations promise, without files: a catalog of published content, one
request at a time, whose target is seen as it was or as it shall be. A 200
means the latter; a failed upload means the former; a failed delete leaves the
whole version or none of it; a kill leaves one of the two.
`ProviderRegistry!PublishesAtomically` states that the files implement it: the
catalog shows the content of a platform if its metadata names a stored archive
(`Visible`, which is what the mirror offers). `providerDownloadHandler` also
requires a checksum list and a signature (`Downloadable`); `OkMeansPublished`
and `FailuresStayLocal` are about that.

### KeyStore

The key file, the table loaded from it, and goroutines that stand between two
of their file calls: `Stat`, `Compare`, `ReadFile`, `WriteMigrated`,
`Install`, `Look`. `Main` loads the file first and creates it if needed; a
request that is denied validates its key a second time, for the log, as
`authMiddleware` does. `auditMiddleware` validates any key that comes with a
request to the management API, public or not, before that: a request of its own
that needs no more than to read. `Rotate` is the operator's `mv`. A configuration is the
permission of each key, whether it has plaintext keys, and whether it passes
the checks of `reload`.

`overlap` and `unseen` are history about the last rotation: it fell between
the read and the installation of some reload, or did not raise the
modification time. These are the two cases in which the code does load the
wrong keys, and the properties except them.

### RateLimiter and TokenBucket

`allow` and `cleanup` over a clock, with tokens counted in units of 1/window so
that the refill is exact. `TokenBucket` is the promise: buckets that are never
forgotten and are refilled at every tick. `IsTokenBucket` is the refinement.
`since` and `granted` are history: requests counted from any chosen moment.

### ModuleRegistry

One module, with the handlers of `mutationMu` as in `ProviderRegistry` (here
`StoreArchive`, `PutMeta`, `AddIndex`, `DropOld`, the rollback `RestoreMeta`,
`DropArchive`, then `StageDelete` to `Commit`, and `Deprecate`) and the clients
that read meanwhile. `dir[v]` has the stored archives, what `artifact.json`
names (`meta`) and the `module.tar.gz` of an older server (`legacy`), which
`Init` may hold and no handler writes.

| Code | Actions |
|---|---|
| `moduleDownloadHandler` | `AskVersion`, then `moduleArtifactKey` |
| `moduleLatestDownloadHandler` | `AskLatest`, `NextCandidate`, `ReadDeprecation`, then `moduleArtifactKey` |
| `moduleArtifactKey` | `ReadArtifactMeta`, `CheckExists` |
| `fileDownloadHandler` | `Fetch` |

Each is one read of one file, so a mutation can fall between any two of them.
`shown` and `always` are history: what was served at some moment of a session,
and what was on offer at all of them. The module implements `Catalog` too, with
one row per version (`ModulePublishesAtomically`).

### VersionIndex

`semver.go` and the index file kept with it. A version is split at its
separators; identifiers keep their characters, because the properties are about
how digits, letters and hyphens are told apart and ordered. `index` is the file
and `Listed` what `getIndex` makes of it; `arrived` is history, the same
versions in the order in which they were added.

| Code | Definitions |
|---|---|
| `parseSemanticVersion`, `validIdentifiers`, `numericIdentifier` | `validVersion`, `validIdentifiers`, `numericIdentifier`, `Value` |
| `compareSemver` | `compareSemver`, with `ComparePre`, `CompareIdentifiers`, `CompareText`; its loops are `FirstDifference` |
| `sortSemanticVersions` | `sortSemanticVersions`, with `Sorted` for what `sort.SliceStable` makes of the less function |
| `addVersionToIndex` | `AddVersion` |
| `removeVersionFromIndex` | `RemoveVersion`, with `WithoutVersion` for its loop |

Sorting and filtering are described by their result: `InOrder` is the one
arrangement of the chosen positions that a total order allows. That there is
one is proved, not assumed. The reference (`Precedes`, `Grammatical`) is
written from the SemVer 2.0.0 rules, with numbers of any size.

### ProviderSession

Extends `ProviderRegistry` with clients that read while it works. `session[s]`
is the read that comes next in `Requests[kind]`, which lists the requests of
each kind of client and the files each handler reads, in the order of the code;
`listed`, `content`, `sums`, `trusted` and `bytes` are what handler and client
have learnt.

| Code | Actions |
|---|---|
| `providerVersionsHandler`, `networkMirrorIndexHandler` | `ReadIndex`, `ReadDeprecation`, `ReadNames`, `ReadPlatforms`, `CheckArtifact` |
| `providerDownloadHandler` | `ReadMetadata`, `CheckArtifact`, `CheckChecksums`, `CheckSignature` |
| `networkMirrorVersionHandler` | the reads of the index, then `ReadMetadata`, `CheckArtifact` |
| `fileDownloadHandler` | `GetChecksums`, `GetSignature`, `GetArchive` |
| `downloadFileWithChecksum`, Terraform's own checks | `Verify`, `Save`, `GiveUp` |
| any step of the registry | `Mutate` |
| `GarbageCollect`, temporary files nothing else depends on | `Sweep` |

`GetProviderPlatforms` is two reads. `ReadNames` is the list of the names in the
version directory, `ReadPlatforms` the reading of the files listed. In between
`filepath.Walk` looks at every name; if its file has gone by then, the walk
ends, and `Store.List` returns the files met so far without an error. `Vanishes`
names the steps that take a file away: the temporary file of a `Put` that is
renamed or removed, also for another platform, an artifact or a list that is
removed, a deprecation, a delete, the garbage collection. `WalkMayEnd` is what
they mean for a walk under way: `listed`, whether the walk has met the metadata
of the client's platform, may be false from then on. `Candidates` are the
contents the read may yield, those of a temporary file that is being written
among them.

A handler that does not find what it looks for ends the session with an error.
`seen` and `calm` are history: what was published for the target since the
session began, and that nothing named by `Disturbed` has happened. `Disturbed`
is the list of the occasions on which a client may be turned away: an outage,
a version whose list may be out of date, an upload that could not read the list
it may have to put back, a request at work on the client's own target. An
upload for another platform is on the list only for Terraform, which fetches
checksum list and signature from fixed names. It disturbs the mirror as well,
but only while the mirror walks the directory: then the client may be answered
404 for a version that is published. `calm` ends there (`WalkMayEnd`), so that
`CalmSessionsSucceed` excepts exactly this window, in which the code does fail.

### RequestLifecycle

Who waits for whom. `request[r]` is where a request stands between the layers
of the middleware, `holder` the holder of `mutationMu`; what the handlers do
meanwhile is the matter of the other modules.

| Code | Actions |
|---|---|
| `metricsMiddleware` | `Arrive`, `Count` |
| `RateLimiter.Middleware` | `Limit` |
| `auditMiddleware`, `AuditLog.Log` | `Authorise`, `Audit` |
| `authMiddleware`, `routeValidationMiddleware` | `Authorise` |
| `mutationMu.Lock`, the deferred `Unlock` | `Lock`, `Released` |
| `multipartUploadPart` and the reading of the file, body of a deprecation | `BodyArrives`, `BodyFails` |
| the rest of the handler | `Work` |
| `main` after SIGTERM | `Signal`, `Stop`, `ForcedStop` |

The upload handlers do set a read deadline, but `metricsResponseWriter` hides
the connection from `http.NewResponseController`, and the error is ignored. The
model therefore has no deadline on a body, and the requests of `Stalling` may
keep theirs open for ever.

### ArtifactExchange

The commands of `tfreg` as processes between a registry, seen from outside, and
an OCI repository.

| Code | Actions |
|---|---|
| `publishProviderArtifact`, `publishModuleArtifact`, `push`, `delete` | `Start`, `Bundle`, `Send`, `uploadArtifact` |
| `uploadFile` | `Send`, with a file that cannot be read to its end |
| the registry | `Serve`, `Refuse`, `ServeOrphan` |
| `packOCIArtifact`, `pushOCIArtifact` | `PushLayer`, `PushManifest`, `Tag`, `PushFails` |
| `importOCIArtifact`, `unpackOCIArtifact`, `fetchDescriptor` | `Resolve`, `FetchManifest`, `FetchLayer` |
| errors, timeouts, kills | `GiveUp` |
| other tools (external) | `ForeignPush` |

A command that ends while its request is with the registry leaves it in
`orphans`, to be carried out at any later time or never. `offered`, `accepted`
and `calm` are history.

## 3. Runs

| Run | Instance | Checks | Shows |
|---|---|---|---|
| `platforms` | 1 version, 2 platforms, 2 contents, 1 failing step | `TypeOK`, `MetadataNamesArtifact`, `ChecksumsMatchMetadata`, `NoOrphanArtifacts`, `AckedStaysPublished`, `PublishesAtomically` | the files of a version agree, and replacing an archive is atomic |
| `faults` | 1 version, 2 platforms, 1 content, 3 failing steps | `OkMeansPublished`, `FailuresStayLocal` | what still holds when rollbacks fail too: other platforms stay published and downloadable |
| `interrupted_put` | 1 version, 1 platform, 2 contents, no failing step | `PublishedIsListed` | violated |
| `key_store` | 1 key, 2 requests, 2 configurations, 2 ticks | `TypeOK`, `ServesAcceptedKeys`, `DecidedByCurrentKeys`, `RotationSurvives` | concurrent reloads and migrations |
| `hot_reload` | 2 keys, 1 request, 2 ticks | `HotReloads` | violated |
| `module_fetch` | 1 version, 3 contents, 1 client, 1 failing step | `TypeOK`, `FetchedWasServed`, `AckedStaysServed`, `ModulePublishesAtomically` | a client gets what was served while it asked |
| `module_latest` | 2 versions, 2 contents, 1 client, no failing step | `LatestIsNotStale`, `AckedStaysServed` | versions that share the index do not harm each other; the latest version is searched read by read |
| `versions_sorted` | 17 versions and 7 other strings, 3 listed | `TypeOK`, `ListedByPrecedence`, `TiesByArrival`, `AcceptsSemVer` | the index is in SemVer order |
| `rate_limiter` | 2 clients, rate 2, window 3, 8 ticks | `TypeOK`, `BurstBound`, `IsTokenBucket` | cleanup and late refill are invisible |
| `session` | 1 version, 2 platforms, 2 contents (see below), 1 client, 1 failing step | `InstallsWhatWasPublished`, `CalmSessionsSucceed` | readers without a lock beside mutations, rollbacks, kills and restarts |
| `request_lifecycle` | 3 requests of mixed kinds, 1 that may stall | `TypeOK`, `AnsweredIsAudited`, `CleanStopFinishesAll`, `RequestsEnd`, `ReadersNeverWait`, `ShutdownEnds` | the lock, the audit log and the shutdown |
| `exchange` | 2 processes, 3 commands, 2 identities, 2 contents, 1 tag, 2 foreign manifests | `TypeOK`, `ServedAsDescribed`, `TagsAreWhole`, `CopiesWereAccepted`, `SuccessMeansBoth` | publish, import and delete that fail, race and are repeated |

Why these bounds are enough to be interesting. An upload touches one platform
of one version; a second platform is needed for what a rebuild does to its
neighbours, a second content for a replacement (uploading the same content
twice is the case in which the archive exists already). A second version is
needed for the shared index only, which both kinds of publication update with
the same code; `module_latest` has two. Any number of requests, kills and restarts follow each
other; nothing counts them. One failing step per request is the largest bound
under which nothing acknowledged is lost (section 5); `faults`
lets three steps fail, so that each call of a rollback can. Two requests
are the fewest that reload at the same time; a rotation, a refused file and a
plaintext file are all within two configurations and the default one. Three
contents are needed for an archive of an older server that was replaced, and
replaced again while a client asks; two versions for "latest" to have a choice.
Three listed versions suffice for an order to fail to be transitive, and 20 as
the largest number leaves two digits to compare wrongly. The
clock of `rate_limiter` runs beyond two windows, so that clients are forgotten
and come back.

In `platforms` the constraint `Bounded` keeps a version directory at three
archives: those of both platforms and a third, which replaces one of them or
is what a kill has left. A state with all four is still checked, but nothing
follows it.

`session` joins two instances, because their product is too large: the
constraint `Bounded` keeps to the archives of one platform (which then replace
each other under the client, with failing calls, kills and what they leave) or
to those with one content (two platforms that share list and signature, with
failing calls, and kills between two mutations). A version may pass from one to
the other when it is deleted. Its view leaves out what neither a step nor a
property of the sessions depends on from there: `trash`, `litter`, the last
answer, what a session has seen beyond the contents it may get, and, once a
session has begun, what was acknowledged before. The latter matters where a
session begins; sessions change nothing on the server, so every state of the
server is also met with an idle client and with all sessions that begin there.

In `exchange`, three runs are two that race and a retry, or a publish, an
import and a delete. Two identities of one version are what a delete takes
along; two contents are two bundles of one source.

In `request_lifecycle` one request may stall, one waits behind it for the lock
or reads a list, one is a delete or needs no lock.

Deadlock is checked in every run but `request_lifecycle`, in which the server
exits. Symmetry is used for platforms, contents, requests, clients and
processes, none of which an action tells apart; not in `request_lifecycle`,
which has temporal properties.

### Fairness

`request_lifecycle` checks liveness under the conjuncts of `Fairness`:

* weak fairness of the steps of a handler and its middleware: goroutines are
  scheduled, file calls return;
* strong fairness of `Lock`: between two of its chances others may take the
  lock, but a `sync.Mutex` hands itself to a waiter that has waited for a
  millisecond;
* weak fairness of the end of a body, only for clients that do not stall:
  `tfreg` gives up after the ten minutes of its `http.Client`, a connection
  that breaks ends the body with an error;
* weak fairness of the end of a drain: with the last request, or with the
  context of 30 seconds.

No request has to arrive and no signal has to come. `RequestsEnd` excepts the
time in which a stalled client holds the lock, since nothing in the code takes
it from there. The other runs check safety and refinement and assume none.

### Where code and documentation disagree

* `interrupted_put`: the temporary file of a metadata `Put` ends in `.json`,
  and `GetProviderPlatforms` reads it before the published one. After a kill
  inside `Put`, the rebuild at the start signs a list that omits the published
  archive. `storage.go` calls all writes atomic.
* `hot_reload`: a rotation between the read and the Stat of one reload is
  recorded as loaded. `README.md` says the keys hot-reload when the file
  changes.

## 4. Proofs

Eight modules hold the proofs, one for each module with a specification of code;
they prove every property of the passing runs but liveness. All theorems hold
for every set of versions, platforms,
contents, keys, clients, processes and requests; nothing is bounded but what
the column "for" names.

| Module | Theorem | States | For |
|---|---|---|---|
| `ProviderRegistryProofs` | `TypeCorrect` | `TypeOK` | any failures |
| | `MetadataAlwaysNamesArtifact` | `MetadataNamesArtifact` | one failing step |
| | `AckedAlwaysStaysPublished` | `AckedStaysPublished` | one failing step |
| | `FailuresAlwaysStayLocal` | `FailuresStayLocal` | any failures |
| | `OkAlwaysMeansPublished` | `OkMeansPublished` | any failures |
| | `NeverOrphansArtifacts` | `NoOrphanArtifacts` | one failing step |
| | `ChecksumsAlwaysMatchMetadata` | `ChecksumsMatchMetadata` | one failing step |
| | `AlwaysPublishesAtomically` | `PublishesAtomically` (refines `Catalog`) | one failing step |
| `ProviderSessionProofs` | `AlwaysInstallsWhatWasPublished` | `InstallsWhatWasPublished` | one failing step |
| | `CalmSessionsAlwaysSucceed` | `CalmSessionsSucceed` | one failing step |
| `ModuleRegistryProofs` | `ModuleTypeCorrect` | `TypeOK` | one failing step |
| | `AckedAlwaysStaysServed` | `AckedStaysServed` | one failing step |
| | `FetchedAlwaysWasServed` | `FetchedWasServed` | one failing step |
| | `LatestIsNeverStale` | `LatestIsNotStale` | one failing step |
| | `ModuleAlwaysPublishesAtomically` | `ModulePublishesAtomically` (refines `Catalog`) | one failing step |
| `KeyStoreProofs` | `KeyStoreTypeCorrect` | `TypeOK` | all instances |
| | `AlwaysServesAcceptedKeys` | `ServesAcceptedKeys` | all instances |
| | `AlwaysDecidedByCurrentKeys` | `DecidedByCurrentKeys` | all instances |
| | `RotationAlwaysSurvives` | `RotationSurvives` | all instances |
| `RequestLifecycleProofs` | `LifecycleTypeCorrect` | `TypeOK` | all instances |
| | `AnsweredAlwaysAudited` | `AnsweredIsAudited` | all instances |
| | `CleanStopAlwaysFinishesAll` | `CleanStopFinishesAll` | all instances |
| `ArtifactExchangeProofs` | `ExchangeTypeCorrect` | `TypeOK` | all instances |
| | `AlwaysServedAsDescribed` | `ServedAsDescribed` | all instances |
| | `TagsAlwaysWhole` | `TagsAreWhole` | all instances |
| | `CopiesAlwaysAccepted` | `CopiesWereAccepted` | all instances |
| | `SuccessAlwaysMeansBoth` | `SuccessMeansBoth` | all instances |
| `VersionIndexProofs` | `SortIsStable` | what `sortSemanticVersions` returns | all instances |
| | `IndexTypeCorrect` | `TypeOK` | all instances |
| | `AlwaysListedByPrecedence` | `ListedByPrecedence` | all instances |
| | `TiesAlwaysByArrival` | `TiesByArrival` | all instances |
| | `AlwaysAcceptsSemVer` | `AcceptsSemVer` | all instances |
| `RateLimiterProofs` | `LimiterTypeCorrect` | `TypeOK` | all instances |
| | `BurstAlwaysBounded` | `BurstBound` | all instances |
| | `LimiterIsTokenBucket` | `IsTokenBucket` (refines `TokenBucket`) | all instances |

"One failing step" is the hypothesis `MaxFaults <= 1` of a theorem: storage
calls fail in at most one step of a request. It is not a convenience: with two,
a rollback can fail as well and the code loses what it has acknowledged
(section 5), so the inductive invariants below do not hold.

### The arguments

`ProviderRegistryProofs`, first part. Neither `MetadataNamesArtifact` nor
`AckedStaysPublished` is inductive: both speak of files only, and survive the next step because of what the handler under way still
remembers. `IInv` adds, by the point an upload has reached: while the metadata
may still go either way, the new archive and the replaced one are both stored
(`UploadSound`); an upload that finds its content named already has also found
its archive stored, so it will not take it back; an upload on its way back has
spent its one failure, so the restoring calls succeed (`UndoesAfterFailure`);
what it remembers is what was there (`UploadRemembers`); and the promises about
the target are kept in `undo` or `staged` meanwhile (`PromisesKept`).

`ProviderRegistryProofs`, second part. `FailuresStayLocal` needs only the types: one
lemma per storage call says which files it may touch (`IdleEffect` to
`CrashEffect`). That others stay downloadable is `ListStays`: list and signature
are never written empty, and only `RestoreSums` and `RestoreSig` remove them,
when there is nothing to put back. `OkMeansPublished` needs `Achieved`, what an upload has done by
the point it has reached, which no failure can undo because a failing call
leaves the way to the 200. For lists and orphans, `Order` says what each
version has between mutations (`InOrder`) and in the middle of an upload or a
delete: what there is to tidy up (`UploadTidy`, `DeleteTidy`) and which list is
in place, the old or the new (`UploadLists`). The refinement maps the catalog
to the metadata, which by soundness is what readers get (`CatIsMeta`); then
every action of the files is one action of `Catalog` or a stutter. The content
of a platform changes in `PutMeta`, `RestoreMeta`, `StageDelete` and
`Rollback` alone, the answer in the last call.

`ProviderSessionProofs`. What the registry owes a reader at every moment is
`Registry`: the invariants above, no complete temporary metadata file outside
suspect versions (`NoLeftovers`), and always some list and some signature while
an upload replaces them (`AlwaysSigned`). `ReaderFinds` draws from it what an
undisturbed reader finds in each file, whatever requests for other targets are
doing; `CalmStep` that a step which neither follows nor leads to a request for
the target changes nothing of that. A session is described by the read it is at:
`Faithful` (the content it was told has been published since it began) and
`Calm` (what it has learnt is what was acknowledged). `NextPlace` walks the
tables of requests once and for all, so that one lemma covers the ten reads. A
calm session whose directory is being walked has its platform on the list, since
every step that could end the walk ends the calm (`WalkEnds`).

`ModuleRegistryProofs`. `Server` is the analogue of `IInv` of the providers;
`Client(s)` relates what a session has read to what was served since it began.
For "latest", a version that was on offer all the time is still to be tried or
is being tried (`Untried`). The set of versions is assumed to be finite, so
that the search has a largest candidate at every turn.

`KeyStoreProofs`. The difficulty is goroutines that hold an old read. `Coherent`
says that what a reload has read grants what the file grants, unless a rotation
overlapped; `Table`, that the table is not behind the file unless the times say
so; `Current`, that a request with no excuse is therefore on its way to a
decision by a configuration of its own lifetime.

`RequestLifecycleProofs`. `EntriesSoFar` says how many entries a request has in
the log at each layer; `Accounts`, that the counters differ by the requests in
flight, which takes cardinalities of finite sets.

`ArtifactExchangeProofs`. `Assured` says what a command has made sure of by the
time it is where it is, `Undisturbed` what holds outside while nobody else
touches its target, `OrphansProper` that a request left behind was right to
send.

`RateLimiterProofs`. `Balance`: what is left plus what was granted is covered by
one full bucket and the refills since. The heart of the refinement is
`LevelAfterCleanup`: two windows away fill any bucket (`TwoWindowsFill`).

`VersionIndexProofs`. The invariant is short: besides the types, versions that
compare equal are in the file in the order of their arrival (`InArrival`; the
rest of the file may be in any order, since an older server may have written
it). The work is in the operators.

* `compareSemver` is a total preorder (`VersionsOrdered`): its value changes
  sign with its arguments, and it is transitive across numbers, texts, numbers
  too large to be numbers, prefixes and missing parts. All its loops are
  `FirstDifference`, so transitivity is argued once (`DifferenceComposes`).
* A total order on a finite set of positions has an arrangement
  (`ArrangementExists`: put each position where the count of those before it
  says), hence the `CHOOSE` of `InOrder` finds one; from this `SortIsStable`,
  `RemovesOnly`, and that both keep `InArrival`.
* The comparison finds exactly the precedence of SemVer: where one version
  precedes another it says so (`PrecedenceIsFound`, for versions that fit into
  uint64), and where neither does, they differ in the build part only
  (`EqualPrecedenceIsFound`). The second needs that digits without a leading
  zero spell a number in one way only (`ValueInjective`).
* `ValidIsGrammatical`: the parser accepts the grammar of SemVer, up to uint64.

Inductions over sequences, which the provers cannot take from the library, are
done by the least counterexample: `LeastNumber` says that a set of natural
numbers has a least element, and each proof then refutes the least position at
which a claim fails (`ValuesDefined`, `SameEnds`, `FirstDiffering`).

TLC checked every inductive invariant on small instances before it was proved.

### Assumptions

On the constants, named in the modules that declare them and evaluated by TLC in
every run: markers are none of the things they stand beside (`NoneAssumption`,
`DamagedAssumption`, `NobodyAssumption`, `NameAssumption`); bounds are natural
numbers (`FaultAssumption`, `RunsAssumption`, `SizesAssumption`, the
`TimeAssumption`s); rate and window are positive (`RateAssumption`,
`WindowAssumption`); version strings are split into sequences of identifiers
(`TextsAssumption`), the largest uint64 and the bound on the index are natural
numbers (`UintAssumption`, `BoundAssumption`); versions of a module are numbers, finitely many
(`VersionAssumption`); configurations, identities, foreign manifests and what
requests ask for have the right shape (`ConfigAssumption`, `IdsAssumption`,
`ForeignAssumption`, `AsksAssumption`, `StallingAssumption`).

### Only model-checked

* Liveness under fairness (`RequestsEnd`, `ReadersNeverWait`, `ShutdownEnds`),
  which the prover does not support.
* `PublishedIsListed` and `HotReloads`, which the code violates.

## 5. Limits of the models

* Two failures in one upload may lose what was acknowledged: `restorePublication`
  ignores its own errors, so that a failed restore of the metadata is followed
  by the removal of the archive the metadata names. The properties of
  publication are stated for one failing step per request, except
  `OkMeansPublished` and `FailuresStayLocal`.
* The staged tree of an interrupted delete stays, and the scan behind the
  management list shows its name as a version. `trash` records it; no reader
  that installs anything looks at it.
* A kill ends the process; the machine does not lose power. What the file
  system would do with renames that were never synced is not modelled.
* The removal of a temporary file after a failed `Put` always succeeds, and an
  incomplete temporary file does not parse.
* One failing step may cover several reads, as one burst of I/O errors.
* Rebuilding the checksums inside a left-over `.trash-*` tree has no effect
  anyone reads and is left out.
* In `ModuleRegistry` reads of the sessions do not fail, versions are numbers in
  their order (`VersionIndex` is about that order), and left-over temporary
  files and `.trash-*` trees, which no session reads, are left out. Two cases in
  which a session is ill served are excepted by name: `module.tar.gz` is handed
  out while a delete is rolled back, and a version whose archive is replaced
  between two reads is passed over as latest.
* Pre-release numbers beyond uint64 are compared as text by the code, against
  the rules of SemVer; `ListedByPrecedence` excepts the versions that have one.
* `compareSemver` on invalid strings is left out: none reaches an index, and
  the names of left-over trees, which scans sort too, come before every version.
* Request bodies are accepted or refused; why is not modelled. The rules for
  archives are checks of one archive, without state; what an archive is
  accepted for is `Fits` in `ArtifactExchange`.
* A failed upload that could not read the list or the signature before its own,
  or found none, removes them in its rollback: then the downloads of every
  platform of the version answer 500 until the next rebuild.
  `FailuresStayLocal` excepts this by name (`NothingToPutBack`), and the
  sessions count as disturbed.
* A walk of a version directory may end early beside a write to the same
  version. `ProviderSession` models this for the readers; for the rebuild of a
  checksum list, which holds `mutationMu`, only the garbage collection could do
  it, and that is not modelled. Which other platforms are missing from a list
  cut short is not told, since a session is about one. Any step of the garbage
  collection may end a walk, whether or not a kill has left a file for it.
* One foreign manifest of `exchange` coincides with one `tfreg` makes;
  `CopiesWereAccepted` is about the others.
* The audit log is a set: that no entry is made twice is not shown.
* A session asks for one version and one platform, and its readings are
  projected to them; reads of the sessions do not fail by themselves.
* An answer is sent when the handlers have returned: those that change anything
  fit into the buffer of the HTTP server. The audit log is written without
  errors, and requests refused by the rate limiter are not in it.
* A digest is the content it is of. The annotation `created` of a manifest is
  left out. To the commands of `tfreg` a request to the registry is one step,
  which `PublishesAtomically` and `ModulePublishesAtomically` justify.
* The name of a platform is its storage key `<os>_<arch>`.
* A signature is the list it signs; the signing key does not change.
* In the rate limiter the two clock readings of one `allow` are one, float64
  is exact, and the window is positive.

## 6. Not modelled, and the plan

Not modelled: path resolution and the locks per path of `storage.go` (every
caller that writes holds `mutationMu`, and the garbage collection skips files
younger than an hour); the rules of `archive_validation.go` and
`validation.go`, stateless checks of one input; OpenPGP; the web pages; the
text of log lines, metrics and JSON; flags and output of `tfreg`.

1. Done: `ProviderRegistry` with `Catalog`, `KeyStore`, `RateLimiter` with
   `TokenBucket`.
2. Done: `ModuleRegistry` with its client sessions, `VersionIndex`.
3. Done: `ProviderSession`, `RequestLifecycle`, `ArtifactExchange`.
4. Done: proofs of every safety property, action property and refinement of the
   passing runs.
5. Open: what remains of the publication properties when more than one step of a
   request fails; the rules for archives as operators against a reference
   definition.

------------------------------ MODULE KeyStore ------------------------------
(***************************************************************************)
(* The API keys of the registry (registry-server/auth.go): a key file that *)
(* operators replace while the server runs, the table the server loads     *)
(* from it, and the requests that reload the table when they find the file *)
(* changed and are then allowed or denied by it.                           *)
(*                                                                         *)
(* No lock is held from the Stat that finds the file changed to the end of *)
(* the reload, so several requests reload at once and an operator's `mv'   *)
(* may fall between any two of their file calls.  A step is one file call, *)
(* or the section under ks.mu that installs or reads the table.            *)
(*                                                                         *)
(* A configuration is the permission it grants each key ("off" for a key   *)
(* that is disabled or absent), whether it still holds plaintext keys, and *)
(* whether reload accepts it: it parses, its hashes and permissions are    *)
(* valid and no hash occurs twice.                                         *)
(***************************************************************************)
EXTENDS Naturals

CONSTANTS
    Keys,          \* API keys clients present
    Requests,      \* concurrent management requests
    Main,          \* the goroutine of main, which loads the file first
    Configs,       \* configurations an operator may install
    DefaultConfig, \* the configuration createDefaultFile writes
    Missing,       \* no key file, no table
    MaxTime        \* bound on the clock that stamps files

Grants == {"off", "read", "write", "admin"}
Needs  == {"read", "write", "admin"}

AllConfigs == [grant : [Keys -> Grants], plain : BOOLEAN, ok : BOOLEAN]

(* Mutant: a file that disables every key is accepted.                     *)
LoadableUnchecked(c) == c.ok

(* What reload accepts: at least one key is enabled.                       *)
Loadable(c) == c.ok /\ \E k \in Keys : c.grant[k] # "off"

ASSUME ConfigAssumption ==
    /\ Configs \subseteq AllConfigs
    /\ DefaultConfig \in AllConfigs
    /\ Loadable(DefaultConfig) /\ ~DefaultConfig.plain
ASSUME NameAssumption == Main \notin Requests /\ Missing \notin AllConfigs
ASSUME TimeAssumption == MaxTime \in Nat \ {0}

VARIABLES
    file,       \* the key file: its configuration and modification time
    now,        \* the clock
    phase,      \* "down", "starting" or "up"
    keys,       \* the configuration the loaded table comes from
    lastMod,    \* ks.lastMod, 0 before the first load
    thread,     \* the goroutines
    (* history *)
    rotated,    \* the configuration the operator installed last
    overlap,    \* that was while a reload had read but not yet installed
    unseen,     \* it did not raise the modification time
    since       \* since[t]: what was in the file since request t arrived

vars == <<file, now, phase, keys, lastMod, thread, rotated, overlap, unseen, since>>

Threads == Requests \cup {Main}

-----------------------------------------------------------------------------
(* A goroutine: where it stands, the key and permission it is about, the   *)
(* modification time it saw, the configuration it has read, the outcome of *)
(* HasPermission; history: whether it may be decided by other keys.        *)
PCs == {"idle", "create", "stat", "compare", "read", "migrate", "install", "look"}

Idle == [pc |-> "idle", key |-> Missing, need |-> "read", mtime |-> 0,
         cfg |-> Missing, verdict |-> "open", excused |-> TRUE]

TypeOK ==
    /\ file \in [cfg : AllConfigs \cup {Missing}, mtime : 0..MaxTime]
    /\ now \in 1..MaxTime
    /\ phase \in {"down", "starting", "up"}
    /\ keys \in AllConfigs \cup {Missing}
    /\ lastMod \in 0..MaxTime
    /\ thread \in [Threads -> [pc : PCs, key : Keys \cup {Missing}, need : Needs,
                               mtime : 0..MaxTime, cfg : AllConfigs \cup {Missing},
                               verdict : {"open", "allowed", "denied"},
                               excused : BOOLEAN]]
    /\ rotated \in AllConfigs \cup {Missing}
    /\ overlap \in BOOLEAN /\ unseen \in BOOLEAN
    /\ since \in [Requests -> SUBSET AllConfigs]
    /\ \A t \in Requests : thread[t].pc # "idle" => phase = "up" /\ thread[t].key \in Keys

-----------------------------------------------------------------------------
(* The server, once and for all of its goroutines                          *)

Server == <<phase, keys, lastMod>>
History == <<rotated, overlap, unseen, since>>

Goto(t, next) == thread' = [thread EXCEPT ![t].pc = next]

(* After reload, main listens; a request goes on to look up its key.       *)
Done(t) == IF t = Main THEN "idle" ELSE "look"

(* A call of t fails: main gives up, a request goes on with the old table. *)
GiveUp(t) ==
    /\ thread' = [thread EXCEPT ![t].pc = Done(t), ![t].excused = TRUE]
    /\ phase' = IF t = Main THEN "down" ELSE phase
    /\ UNCHANGED <<file, now, keys, lastMod, History>>

(* Mutant: a file that is not accepted is replaced as well.                *)
NeedsDefaultAlso == file.cfg = Missing \/ ~Loadable(file.cfg)

(* NewKeyStore: the file is created if it is not there ...                 *)
NeedsDefault == file.cfg = Missing

Start ==
    /\ phase = "down"
    /\ phase' = "starting"
    /\ Goto(Main, IF NeedsDefault THEN "create" ELSE "read")
    /\ UNCHANGED <<file, now, keys, lastMod, History>>

CreateDefault ==
    /\ thread[Main].pc = "create"
    /\ file' = [cfg |-> DefaultConfig, mtime |-> now]
    /\ Goto(Main, "read")
    /\ UNCHANGED <<now, Server, History>>

CreateDefaultFails ==
    /\ thread[Main].pc = "create"
    /\ GiveUp(Main)

(* ... and loaded.  reload: ReadFile and the checks on what it read.       *)
ReadFile(t) ==
    /\ thread[t].pc = "read"
    /\ file.cfg # Missing /\ Loadable(file.cfg)
    /\ thread' = [thread EXCEPT ![t].cfg = file.cfg,
                                ![t].pc = IF file.cfg.plain THEN "migrate" ELSE "install"]
    /\ UNCHANGED <<file, now, Server, History>>

(* It cannot be read, or not be accepted.                                  *)
ReadFileFails(t) ==
    /\ thread[t].pc = "read"
    /\ GiveUp(t)

(* Plaintext keys give way to their hashes, in the file too ...            *)
Migrated(c) == [c EXCEPT !.plain = FALSE]

WriteMigrated(t) ==
    /\ thread[t].pc = "migrate"
    /\ file' = [cfg |-> Migrated(thread[t].cfg), mtime |-> now]
    /\ thread' = [thread EXCEPT ![t].cfg = Migrated(thread[t].cfg), ![t].pc = "install"]
    /\ UNCHANGED <<now, Server, History>>

(* ... or the reload fails.                                                *)
WriteMigratedFails(t) ==
    /\ thread[t].pc = "migrate"
    /\ GiveUp(t)

(* The table is installed under ks.mu, and lastMod taken from a Stat after *)
(* the read; it stays as it was if that fails.                             *)
Install(t, ok) ==
    /\ thread[t].pc = "install"
    /\ keys' = thread[t].cfg
    /\ lastMod' = IF ok THEN file.mtime ELSE lastMod
    /\ phase' = "up"
    /\ thread' = [thread EXCEPT ![t].cfg = Missing, ![t].pc = Done(t)]
    /\ UNCHANGED <<file, now, History>>

-----------------------------------------------------------------------------
(* authMiddleware *)

(* Mutant: the server listens as soon as there is a key file, before it    *)
(* has loaded it.                                                          *)
ListeningEarly == phase # "down" /\ file.cfg # Missing
Listening == phase = "up"

(* A request presents a key.  Before authMiddleware looks it up for the    *)
(* permission the request needs, auditMiddleware has validated it for the  *)
(* log, and it does so for public requests too: a validation by itself is  *)
(* a request that needs to read, as any valid key may.  Without a key none *)
(* of them goes to the key store.                                          *)
Arrive(t, k, need) ==
    /\ Listening
    /\ thread[t].pc = "idle"
    /\ thread' = [thread EXCEPT ![t] =
          [Idle EXCEPT !.pc = "stat", !.key = k, !.need = need,
                       !.excused = overlap \/ unseen \/ ~Loadable(file.cfg)]]
    /\ since' = [since EXCEPT ![t] = {file.cfg}]
    /\ UNCHANGED <<file, now, Server, rotated, overlap, unseen>>

(* maybeReload: Stat without the lock, then the comparison under it.       *)
Stat(t) ==
    /\ thread[t].pc = "stat"
    /\ thread' = [thread EXCEPT ![t].pc = "compare", ![t].mtime = file.mtime]
    /\ UNCHANGED <<file, now, Server, History>>

StatFails(t) ==
    /\ thread[t].pc = "stat"
    /\ GiveUp(t)

(* Mutant: the file is only reloaded once per process.                     *)
NeedsReloadOnce(t) == lastMod = 0
NeedsReload(t) == thread[t].mtime > lastMod

Compare(t) ==
    /\ thread[t].pc = "compare"
    /\ thread' = [thread EXCEPT ![t].pc = IF NeedsReload(t) THEN "read" ELSE "look",
                                ![t].mtime = 0]
    /\ UNCHANGED <<file, now, Server, History>>

(* HasPermission *)
Allows(c, k, need) ==
    /\ c.grant[k] # "off"
    /\ CASE need = "read"  -> TRUE
         [] need = "write" -> c.grant[k] \in {"write", "admin"}
         [] need = "admin" -> c.grant[k] = "admin"

(* The key is looked up in the table.  A request that is denied validates  *)
(* its key once more, for the log, and may so reload the table again.      *)
Look(t) ==
    LET r == thread[t]
        verdict == IF r.verdict # "open" THEN r.verdict
                   ELSE IF Allows(keys, r.key, r.need) THEN "allowed" ELSE "denied"
        again == r.verdict = "open" /\ verdict = "denied"
    IN  /\ r.pc = "look"
        /\ thread' = [thread EXCEPT ![t].verdict = verdict,
                                    ![t].pc = IF again THEN "stat" ELSE "idle"]
        /\ UNCHANGED <<file, now, Server, History>>

-----------------------------------------------------------------------------
(* The operator, the clock, the end of the process *)

Reloading(t) == thread[t].pc \in {"create", "migrate", "install"}

(* The file is replaced by `mv'; the new one may bring an older time along *)
(* (a restored copy).                                                      *)
Rotate(c, m) ==
    /\ m \in 1..now
    /\ file' = [cfg |-> c, mtime |-> m]
    /\ rotated' = c
    /\ overlap' = \E t \in Threads : Reloading(t)
    /\ unseen' = (m <= lastMod \/ m <= file.mtime)
    /\ thread' = [t \in Threads |->
          [thread[t] EXCEPT !.excused = \/ thread[t].excused
                                        \/ overlap' \/ unseen' \/ ~Loadable(c)]]
    /\ since' = [t \in Requests |->
          IF thread[t].verdict = "open" THEN since[t] \cup {c} ELSE since[t]]
    /\ UNCHANGED <<now, Server>>

Tick ==
    /\ now < MaxTime
    /\ now' = now + 1
    /\ UNCHANGED <<file, Server, thread, History>>

(* The process ends; what the file says now is what is to be kept.         *)
Stop ==
    /\ phase # "down"
    /\ phase' = "down"
    /\ keys' = Missing
    /\ lastMod' = 0
    /\ thread' = [t \in Threads |-> Idle]
    /\ rotated' = IF overlap THEN file.cfg ELSE rotated
    /\ overlap' = FALSE /\ unseen' = FALSE
    /\ since' = [t \in Requests |-> {}]
    /\ UNCHANGED <<file, now>>

-----------------------------------------------------------------------------
Init ==
    /\ file = [cfg |-> Missing, mtime |-> 0]
    /\ now = 1
    /\ phase = "down" /\ keys = Missing /\ lastMod = 0
    /\ thread = [t \in Threads |-> Idle]
    /\ rotated = Missing /\ overlap = FALSE /\ unseen = FALSE
    /\ since = [t \in Requests |-> {}]

Reload(t) ==
    \/ ReadFile(t) \/ ReadFileFails(t)
    \/ WriteMigrated(t) \/ WriteMigratedFails(t)
    \/ \E ok \in BOOLEAN : Install(t, ok)

Next ==
    \/ Start \/ CreateDefault \/ CreateDefaultFails
    \/ \E t \in Threads : Reload(t)
    \/ \E t \in Requests :
          \/ \E k \in Keys, need \in Needs : Arrive(t, k, need)
          \/ Stat(t) \/ StatFails(t) \/ Compare(t) \/ Look(t)
    \/ \E c \in Configs, m \in 1..MaxTime : Rotate(c, m)
    \/ Tick \/ Stop

Spec == Init /\ [][Next]_vars

-----------------------------------------------------------------------------
(* Properties *)

(* A reload that fails, or a file that must not be accepted, never takes   *)
(* the keys away: while the server answers, its table is one that reload   *)
(* accepted as a whole, and holds no plaintext key.                        *)
ServesAcceptedKeys ==
    phase = "up" => /\ keys.ok /\ ~keys.plain
                    /\ \E k \in Keys : keys.grant[k] # "off"

Level(g) == CASE g = "off" -> 0 [] g = "read" -> 1 [] g = "write" -> 2 [] g = "admin" -> 3

(* Every request is allowed or denied as one of the configurations that    *)
(* were in the file since it arrived says, with the order read < write <   *)
(* admin of the README.  The exceptions are a request whose own file calls *)
(* fail, a file that is not accepted, a rotation that overlaps a reload    *)
(* and one that does not raise the modification time.                      *)
DecidedByCurrentKeys ==
    \A t \in Requests :
        LET r == thread[t] IN
        r.verdict # "open" /\ ~r.excused =>
            \E c \in since[t] :
                (r.verdict = "allowed") = (Level(c.grant[r.key]) >= Level(r.need))

(* The migration of plaintext keys never undoes a rotation, unless the two *)
(* overlap: the file grants what the operator installed last.              *)
RotationSurvives ==
    rotated # Missing /\ ~overlap => file.cfg.grant = rotated.grant

(* README.md says the keys hot-reload when the file changes: once the      *)
(* server takes the table to be up to date, it is, if the last rotation    *)
(* brought a newer modification time.                                      *)
HotReloads ==
    LET settled == \A t \in Threads : thread[t].pc \in {"idle", "look"} IN
    phase = "up" /\ settled /\ ~unseen /\ lastMod = file.mtime /\ Loadable(file.cfg)
        => keys.grant = file.cfg.grant
=============================================================================

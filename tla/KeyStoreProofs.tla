--------------------------- MODULE KeyStoreProofs ---------------------------
(***************************************************************************)
(* Proofs about KeyStore, for any number of keys, concurrent requests,     *)
(* configurations and clock ticks.                                         *)
(***************************************************************************)
EXTENDS KeyStore, TLAPS

-----------------------------------------------------------------------------
(* The inductive invariant *)

Goroutines ==
    [pc : PCs, key : Keys \cup {Missing}, need : Needs, mtime : 0..MaxTime,
     cfg : AllConfigs \cup {Missing}, verdict : {"open", "allowed", "denied"},
     excused : BOOLEAN]

Types ==
    /\ file \in [cfg : AllConfigs \cup {Missing}, mtime : 0..MaxTime]
    /\ now \in 1..MaxTime
    /\ phase \in {"down", "starting", "up"}
    /\ keys \in AllConfigs \cup {Missing}
    /\ lastMod \in 0..MaxTime
    /\ thread \in [Threads -> Goroutines]
    /\ rotated \in AllConfigs \cup {Missing}
    /\ overlap \in BOOLEAN /\ unseen \in BOOLEAN
    /\ since \in [Requests -> SUBSET AllConfigs]

(* Nothing is stamped later than now, and a file that was there remains.   *)
Stamps ==
    /\ file.mtime <= now
    /\ phase = "up" \/ rotated # Missing => file.cfg # Missing

(* Main runs only before the server is up, requests only while it is; what *)
(* either has read is acceptable.                                          *)
Sane(t, r) ==
    /\ t = Main /\ r.pc # "idle" =>
          phase = "starting" /\ r.pc \in {"create", "read", "migrate", "install"}
    /\ t # Main /\ r.pc # "idle" =>
          phase = "up" /\ r.key \in Keys /\ r.pc # "create"
    /\ r.pc \in {"migrate", "install"} =>
          file.cfg # Missing /\ r.cfg \in AllConfigs /\ Loadable(r.cfg)
    /\ r.pc = "install" => ~r.cfg.plain

(* No rotation came between, unless it was seen to overlap.                *)
Coherent(r) ==
    ~overlap =>
        /\ r.pc = "create" => rotated = Missing
        /\ r.pc \in {"migrate", "install"} => r.cfg.grant = file.cfg.grant

(* What is loaded is acceptable, and not behind the file if the times do   *)
(* not say so.                                                             *)
Table ==
    phase = "up" =>
        /\ keys \in AllConfigs /\ Loadable(keys) /\ ~keys.plain
        /\ ~overlap /\ ~unseen /\ file.mtime <= lastMod => keys.grant = file.cfg.grant

(* One of the configurations c grants what d does.                         *)
Among(d, C) == \E c \in C : c.grant = d.grant

(* A request with no excuse is to be decided by the file of now, and once  *)
(* it needs no reload the table is one of those it may be decided by.      *)
Current(r, C) ==
    r.pc # "idle" /\ ~r.excused /\ r.verdict = "open" =>
        /\ ~overlap /\ ~unseen /\ Loadable(file.cfg) /\ Among(file.cfg, C)
        /\ r.pc = "look" \/ (r.pc = "compare" /\ r.mtime <= lastMod) => Among(keys, C)

(* One that is decided was decided by one of those.                        *)
Decided(r, C) ==
    ~r.excused /\ r.verdict # "open" =>
        \E c \in C : (r.verdict = "allowed") = (Level(c.grant[r.key]) >= Level(r.need))

IInv ==
    /\ Types
    /\ Stamps
    /\ \A t \in Threads : Sane(t, thread[t]) /\ Coherent(thread[t])
    /\ Table
    /\ RotationSurvives
    /\ \A t \in Requests : Current(thread[t], since[t]) /\ Decided(thread[t], since[t])

-----------------------------------------------------------------------------
(* A goroutine goes on *)

(* It is the only one that changes.                                        *)
Moves(t, new) == thread' = [thread EXCEPT ![t] = new]

(* The others stay as they are.                                            *)
LEMMA MovesChanges ==
    ASSUME NEW t \in Threads, NEW new \in Goroutines, thread \in [Threads -> Goroutines],
           Moves(t, new)
    PROVE  /\ thread' \in [Threads -> Goroutines]
           /\ thread'[t] = new
           /\ \A q \in Threads \ {t} : thread'[q] = thread[q]
BY DEF Moves

(* A step that changes nothing else keeps the invariant if the goroutine   *)
(* is sound afterwards.                                                    *)
LEMMA QuietStep ==
    ASSUME IInv, NEW t \in Threads, NEW new \in Goroutines, Moves(t, new),
           UNCHANGED <<file, now, Server, History>>,
           Sane(t, new), Coherent(new),
           t \in Requests => Current(new, since[t]) /\ Decided(new, since[t])
    PROVE  IInv'
<1>1. UNCHANGED <<file, now, phase, keys, lastMod, rotated, overlap, unseen, since>>
    BY DEF Server, History
<1>2. /\ thread' \in [Threads -> Goroutines]
      /\ thread'[t] = new
      /\ \A q \in Threads \ {t} : thread'[q] = thread[q]
    BY MovesChanges DEF IInv, Types
<1>3. Types'
    BY <1>1, <1>2 DEF IInv, Types
<1>4. Stamps' /\ Table' /\ RotationSurvives'
    BY <1>1 DEF IInv, Stamps, Table, RotationSurvives, Loadable
<1>5. \A q \in Threads : Sane(q, thread[q])' /\ Coherent(thread[q])'
    BY <1>1, <1>2 DEF IInv, Sane, Coherent, Loadable
<1>6. \A q \in Requests : Current(thread[q], since[q])' /\ Decided(thread[q], since[q])'
    BY <1>1, <1>2 DEF IInv, Current, Decided, Among, Loadable, Threads
<1> QED
    BY <1>3, <1>4, <1>5, <1>6 DEF IInv

(* reload reads a configuration that it accepts.                           *)
LEMMA ReadFileSound ==
    ASSUME IInv, NEW t \in Threads, ReadFile(t)
    PROVE  IInv'
<1>1. PICK r : r = thread[t]
    OBVIOUS
<1>2. r \in Goroutines /\ Sane(t, r) /\ file.cfg \in AllConfigs \cup {Missing}
    BY <1>1 DEF IInv, Types
<1>3. PICK new : new = [r EXCEPT !.cfg = file.cfg,
                                 !.pc = IF file.cfg.plain THEN "migrate" ELSE "install"]
    OBVIOUS
<1>4. /\ r.pc = "read" /\ file.cfg \in AllConfigs /\ Loadable(file.cfg) /\ Moves(t, new)
      /\ UNCHANGED <<file, now, Server, History>>
    BY <1>1, <1>2, <1>3 DEF ReadFile, Moves, IInv, Types
<1>5. new \in Goroutines
    BY <1>2, <1>3 DEF Goroutines, PCs
<1>6. /\ new.cfg = file.cfg /\ new.pc \in {"migrate", "install"} /\ new.key = r.key
      /\ new.pc = "install" => ~file.cfg.plain
    BY <1>2, <1>3 DEF Goroutines
<1>7. file.cfg # Missing
    BY <1>4, NameAssumption
<1>8. Sane(t, new) /\ Coherent(new)
    BY <1>2, <1>4, <1>6, <1>7 DEF Sane, Coherent
<1>9. new.verdict = r.verdict /\ new.need = r.need
    BY <1>2, <1>3 DEF Goroutines
<1>10. new.excused <=> r.excused
    BY <1>2, <1>3 DEF Goroutines
<1>11. t \in Requests => Current(new, since[t]) /\ Decided(new, since[t])
    BY <1>1, <1>4, <1>6, <1>9, <1>10 DEF IInv, Current, Decided
<1> QED
    BY <1>4, <1>5, <1>8, <1>11, QuietStep

(* A request whose call fails is excused.                                  *)
LEMMA RequestGivesUp ==
    ASSUME IInv, NEW t \in Requests, thread[t].pc # "idle", GiveUp(t)
    PROVE  IInv'
<1>1. PICK r : r = thread[t]
    OBVIOUS
<1>2. t \in Threads /\ t # Main
    BY NameAssumption DEF Threads
<1>3. r \in Goroutines /\ Sane(t, r) /\ Decided(r, since[t])
    BY <1>1, <1>2 DEF IInv, Types
<1>4. PICK new : new = [r EXCEPT !.pc = "look", !.excused = TRUE]
    OBVIOUS
<1>5. Moves(t, new) /\ UNCHANGED <<file, now, Server, History>>
    BY <1>1, <1>2, <1>3, <1>4 DEF GiveUp, Done, Moves, IInv, Types, Server
<1>6. new \in Goroutines
    BY <1>3, <1>4 DEF Goroutines, PCs
<1>7. new.pc = "look" /\ new.key = r.key
    BY <1>3, <1>4 DEF Goroutines
<1>8. new.excused
    BY <1>3, <1>4 DEF Goroutines
<1>9. Sane(t, new) /\ Coherent(new)
    BY <1>1, <1>2, <1>3, <1>7 DEF Sane, Coherent
<1>10. Current(new, since[t]) /\ Decided(new, since[t])
    BY <1>8 DEF Current, Decided
<1> QED
    BY <1>2, <1>5, <1>6, <1>9, <1>10, QuietStep

(* Stat: if the file looks older than the table, the table is not behind.  *)
LEMMA StatSound ==
    ASSUME IInv, NEW t \in Requests, Stat(t)
    PROVE  IInv'
<1>1. PICK r : r = thread[t]
    OBVIOUS
<1>2. t \in Threads /\ t # Main
    BY NameAssumption DEF Threads
<1>3. r \in Goroutines /\ Sane(t, r) /\ Current(r, since[t]) /\ Decided(r, since[t])
    BY <1>1, <1>2 DEF IInv, Types
<1>4. PICK new : new = [r EXCEPT !.pc = "compare", !.mtime = file.mtime]
    OBVIOUS
<1>5. r.pc = "stat" /\ Moves(t, new) /\ UNCHANGED <<file, now, Server, History>>
    BY <1>1, <1>2, <1>3, <1>4 DEF Stat, Moves, IInv, Types
<1>6. new \in Goroutines
    BY <1>3, <1>4 DEF Goroutines, PCs, IInv, Types
<1>7. /\ new.pc = "compare" /\ new.key = r.key /\ new.mtime = file.mtime
      /\ new.verdict = r.verdict /\ new.need = r.need
    BY <1>3, <1>4 DEF Goroutines
<1>8. new.excused <=> r.excused
    BY <1>3, <1>4 DEF Goroutines
<1>9. Sane(t, new) /\ Coherent(new)
    BY <1>2, <1>3, <1>5, <1>7 DEF Sane, Coherent
<1>10. phase = "up"
    BY <1>2, <1>3, <1>5 DEF Sane
<1>11. Current(new, since[t])
    BY <1>3, <1>5, <1>7, <1>8, <1>10 DEF Current, IInv, Table, Among
<1>12. Decided(new, since[t])
    BY <1>3, <1>7, <1>8 DEF Decided
<1> QED
    BY <1>2, <1>5, <1>6, <1>9, <1>11, <1>12, QuietStep

(* A request that needs no reload may be decided by the table.             *)
LEMMA CompareSound ==
    ASSUME IInv, NEW t \in Requests, Compare(t)
    PROVE  IInv'
<1>1. PICK r : r = thread[t]
    OBVIOUS
<1>2. t \in Threads /\ t # Main
    BY NameAssumption DEF Threads
<1>3. r \in Goroutines /\ Sane(t, r) /\ Current(r, since[t]) /\ Decided(r, since[t])
    BY <1>1, <1>2 DEF IInv, Types
<1>4. PICK new : new = [r EXCEPT !.pc = IF NeedsReload(t) THEN "read" ELSE "look", !.mtime = 0]
    OBVIOUS
<1>5. r.pc = "compare" /\ Moves(t, new) /\ UNCHANGED <<file, now, Server, History>>
    BY <1>1, <1>2, <1>3, <1>4 DEF Compare, Moves, IInv, Types
<1>6. new \in Goroutines
  <2>1. 0 \in 0..MaxTime
      BY TimeAssumption
  <2> QED
      BY <1>3, <1>4, <2>1 DEF Goroutines, PCs
<1>7. /\ new.pc \in {"read", "look"} /\ new.key = r.key
      /\ new.verdict = r.verdict /\ new.need = r.need
      /\ new.pc = "look" <=> ~NeedsReload(t)
    BY <1>3, <1>4 DEF Goroutines
<1>8. new.excused <=> r.excused
    BY <1>3, <1>4 DEF Goroutines
<1>9. ~NeedsReload(t) => r.mtime <= lastMod
    BY <1>1, <1>3 DEF NeedsReload, Goroutines, IInv, Types
<1>10. Sane(t, new) /\ Coherent(new)
    BY <1>2, <1>3, <1>5, <1>7 DEF Sane, Coherent
<1>11. Current(new, since[t])
    BY <1>3, <1>5, <1>7, <1>8, <1>9 DEF Current
<1>12. Decided(new, since[t])
    BY <1>3, <1>7, <1>8 DEF Decided
<1> QED
    BY <1>2, <1>5, <1>6, <1>10, <1>11, <1>12, QuietStep

(* HasPermission is the order read < write < admin.                        *)
LEMMA AllowsIsLevel ==
    ASSUME NEW c \in AllConfigs, NEW k \in Keys, NEW need \in Needs
    PROVE  Allows(c, k, need) <=> Level(c.grant[k]) >= Level(need)
<1>1. c.grant[k] \in Grants
    BY DEF AllConfigs
<1>2. PICK g \in Grants : g = c.grant[k]
    BY <1>1
<1>3. Level("off") = 0 /\ Level("read") = 1 /\ Level("write") = 2 /\ Level("admin") = 3
    BY DEF Level
<1>4. CASE need = "read"
  <2>1. Allows(c, k, need) <=> g # "off"
      BY <1>2, <1>4 DEF Allows
  <2>2. Level(g) >= Level(need) <=> g # "off"
      BY <1>3, <1>4 DEF Grants
  <2> QED
      BY <1>2, <2>1, <2>2
<1>5. CASE need = "write"
  <2>1. Allows(c, k, need) <=> g \in {"write", "admin"}
      BY <1>2, <1>5 DEF Allows
  <2>2. Level(g) >= Level(need) <=> g \in {"write", "admin"}
      BY <1>3, <1>5 DEF Grants
  <2> QED
      BY <1>2, <2>1, <2>2
<1>6. CASE need = "admin"
  <2>1. Allows(c, k, need) <=> g = "admin"
      BY <1>2, <1>6 DEF Allows
  <2>2. Level(g) >= Level(need) <=> g = "admin"
      BY <1>3, <1>6 DEF Grants
  <2> QED
      BY <1>2, <2>1, <2>2
<1> QED
    BY <1>4, <1>5, <1>6 DEF Needs

(* The table decides, once.                                                *)
LEMMA LookSound ==
    ASSUME IInv, NEW t \in Requests, Look(t)
    PROVE  IInv'
<1>1. PICK r : r = thread[t]
    OBVIOUS
<1>2. t \in Threads /\ t # Main
    BY NameAssumption DEF Threads
<1>3. /\ r \in Goroutines /\ Sane(t, r) /\ Current(r, since[t]) /\ Decided(r, since[t])
      /\ since[t] \subseteq AllConfigs
    BY <1>1, <1>2 DEF IInv, Types
<1>4. PICK v : v = IF r.verdict # "open" THEN r.verdict
                   ELSE IF Allows(keys, r.key, r.need) THEN "allowed" ELSE "denied"
    OBVIOUS
<1>5. PICK next : next = IF r.verdict = "open" /\ v = "denied" THEN "stat" ELSE "idle"
    OBVIOUS
<1>6. PICK new : new = [r EXCEPT !.verdict = v, !.pc = next]
    OBVIOUS
<1>7. r.pc = "look" /\ Moves(t, new) /\ UNCHANGED <<file, now, Server, History>>
    BY <1>1, <1>2, <1>3, <1>4, <1>5, <1>6 DEF Look, Moves, IInv, Types
<1>8. v \in {"allowed", "denied"} /\ next \in {"stat", "idle"}
    BY <1>3, <1>4, <1>5 DEF Goroutines
<1>9. new \in Goroutines
    BY <1>3, <1>6, <1>8 DEF Goroutines, PCs
<1>10. new.pc = next /\ new.verdict = v /\ new.key = r.key /\ new.need = r.need
    BY <1>3, <1>6 DEF Goroutines
<1>11. new.excused <=> r.excused
    BY <1>3, <1>6 DEF Goroutines
<1>12. phase = "up" /\ r.key \in Keys /\ r.need \in Needs
    BY <1>2, <1>3, <1>7 DEF Sane, Goroutines
<1>13. Sane(t, new) /\ Coherent(new)
    BY <1>2, <1>8, <1>10, <1>12 DEF Sane, Coherent
<1>14. Current(new, since[t])
    BY <1>8, <1>10 DEF Current
<1>15. Decided(new, since[t])
  <2>1. CASE r.verdict # "open"
      BY <1>3, <1>4, <1>10, <1>11, <2>1 DEF Decided
  <2>2. CASE r.verdict = "open" /\ ~r.excused
    <3>1. PICK c \in since[t] : c.grant = keys.grant
        BY <1>3, <1>7, <2>2 DEF Current, Among
    <3>2. Allows(c, r.key, r.need) <=> Level(c.grant[r.key]) >= Level(r.need)
        BY <1>3, <1>12, AllowsIsLevel
    <3>3. v = "allowed" <=> Allows(c, r.key, r.need)
        BY <1>4, <2>2, <3>1 DEF Allows
    <3>4. (v = "allowed") = (Level(c.grant[r.key]) >= Level(r.need))
        BY <3>2, <3>3
    <3> QED
        BY <1>10, <3>4 DEF Decided
  <2>3. CASE r.excused
      BY <1>11, <2>3 DEF Decided
  <2> QED
      BY <2>1, <2>2, <2>3
<1> QED
    BY <1>2, <1>7, <1>9, <1>13, <1>14, <1>15, QuietStep

-----------------------------------------------------------------------------
(* The first load *)

(* Until the server is up only main runs.                                  *)
LEMMA BootStep ==
    ASSUME IInv, NEW new \in Goroutines, Moves(Main, new), phase # "up",
           phase' \in {"down", "starting"}, UNCHANGED <<now, keys, lastMod, History>>,
           file' \in [cfg : AllConfigs \cup {Missing}, mtime : 0..MaxTime], Stamps',
           RotationSurvives', Sane(Main, new)', Coherent(new)'
    PROVE  IInv'
<1>1. UNCHANGED <<rotated, overlap, unseen, since>>
    BY DEF History
<1>2. /\ Main \in Threads /\ Requests \subseteq Threads
      /\ \A t \in Threads : t # Main <=> t \in Requests
    BY NameAssumption DEF Threads
<1>3. /\ thread' \in [Threads -> Goroutines]
      /\ thread'[Main] = new
      /\ \A q \in Threads \ {Main} : thread'[q] = thread[q]
    BY <1>2, MovesChanges DEF IInv, Types
<1>4. Types'
    BY <1>1, <1>3 DEF IInv, Types
<1>5. Table'
    BY DEF Table
<1>6. \A t \in Requests : thread'[t] = thread[t] /\ thread[t].pc = "idle"
    BY <1>2, <1>3 DEF IInv, Sane
<1>7. \A t \in Threads : Sane(t, thread[t])' /\ Coherent(thread[t])'
    BY <1>2, <1>3, <1>6 DEF Sane, Coherent
<1>8. \A t \in Requests : Current(thread[t], since[t])' /\ Decided(thread[t], since[t])'
    BY <1>1, <1>6 DEF IInv, Current, Decided
<1> QED
    BY <1>4, <1>5, <1>7, <1>8 DEF IInv

(* main creates a file only if there is none.                              *)
LEMMA StartSound ==
    ASSUME IInv, Start
    PROVE  IInv'
<1>1. PICK r : r = thread[Main]
    OBVIOUS
<1>2. Main \in Threads
    BY DEF Threads
<1>3. r \in Goroutines
    BY <1>1, <1>2 DEF IInv, Types
<1>4. PICK next : next = IF NeedsDefault THEN "create" ELSE "read"
    OBVIOUS
<1>5. PICK new : new = [r EXCEPT !.pc = next]
    OBVIOUS
<1>6. /\ phase = "down" /\ phase' = "starting" /\ Moves(Main, new)
      /\ UNCHANGED <<file, now, keys, lastMod, History>>
    BY <1>1, <1>2, <1>3, <1>4, <1>5 DEF Start, Goto, Moves, IInv, Types
<1>7. new \in Goroutines /\ new.pc = next
    BY <1>3, <1>4, <1>5 DEF Goroutines, PCs
<1>8. next \in {"create", "read"} /\ (next = "create" => file.cfg = Missing)
    BY <1>4 DEF NeedsDefault
<1>9. UNCHANGED <<rotated, overlap, unseen, since>>
    BY <1>6 DEF History
<1>10. Sane(Main, new)' /\ Coherent(new)'
    BY <1>6, <1>7, <1>8, <1>9 DEF IInv, Stamps, Sane, Coherent
<1>11. Stamps' /\ RotationSurvives'
    BY <1>6, <1>9 DEF IInv, Stamps, RotationSurvives
<1>12. file' \in [cfg : AllConfigs \cup {Missing}, mtime : 0..MaxTime]
    BY <1>6 DEF IInv, Types
<1> QED
    BY <1>6, <1>7, <1>10, <1>11, <1>12, BootStep

(* The default file is written only where no operator's file was.          *)
LEMMA CreateDefaultSound ==
    ASSUME IInv, CreateDefault
    PROVE  IInv'
<1>1. PICK r : r = thread[Main]
    OBVIOUS
<1>2. Main \in Threads
    BY DEF Threads
<1>3. r \in Goroutines /\ Sane(Main, r) /\ Coherent(r)
    BY <1>1, <1>2 DEF IInv, Types
<1>4. PICK new : new = [r EXCEPT !.pc = "read"]
    OBVIOUS
<1>5. /\ r.pc = "create" /\ file' = [cfg |-> DefaultConfig, mtime |-> now] /\ Moves(Main, new)
      /\ UNCHANGED <<now, phase, keys, lastMod, History>>
    BY <1>1, <1>2, <1>3, <1>4 DEF CreateDefault, Goto, Moves, Server, IInv, Types
<1>6. new \in Goroutines /\ new.pc = "read"
    BY <1>3, <1>4 DEF Goroutines, PCs
<1>7. UNCHANGED <<rotated, overlap, unseen, since>>
    BY <1>5 DEF History
<1>8. phase = "starting"
    BY <1>3, <1>5 DEF Sane
<1>9. Sane(Main, new)' /\ Coherent(new)'
    BY <1>5, <1>6, <1>8 DEF Sane, Coherent
<1>10. /\ file' \in [cfg : AllConfigs \cup {Missing}, mtime : 0..MaxTime]
       /\ file'.cfg # Missing /\ file'.mtime = now /\ now \in Nat
    BY <1>5, ConfigAssumption, NameAssumption DEF IInv, Types
<1>11. Stamps' /\ RotationSurvives'
    BY <1>3, <1>5, <1>7, <1>10 DEF Coherent, Stamps, RotationSurvives
<1> QED
    BY <1>5, <1>6, <1>8, <1>9, <1>10, <1>11, BootStep

(* Without a table the server does not come up.                            *)
LEMMA MainGivesUp ==
    ASSUME IInv, thread[Main].pc # "idle", GiveUp(Main)
    PROVE  IInv'
<1>1. PICK r : r = thread[Main]
    OBVIOUS
<1>2. Main \in Threads
    BY DEF Threads
<1>3. r \in Goroutines /\ Sane(Main, r)
    BY <1>1, <1>2 DEF IInv, Types
<1>4. PICK new : new = [r EXCEPT !.pc = "idle", !.excused = TRUE]
    OBVIOUS
<1>5. /\ phase' = "down" /\ Moves(Main, new) /\ UNCHANGED <<file, now, keys, lastMod, History>>
    BY <1>1, <1>2, <1>3, <1>4 DEF GiveUp, Done, Moves, IInv, Types
<1>6. new \in Goroutines
    BY <1>3, <1>4 DEF Goroutines, PCs
<1>7. new.pc = "idle"
    BY <1>3, <1>4 DEF Goroutines
<1>8. UNCHANGED <<rotated, overlap, unseen, since>>
    BY <1>5 DEF History
<1>9. phase = "starting"
    BY <1>1, <1>3 DEF Sane
<1>10. Sane(Main, new)' /\ Coherent(new)'
    BY <1>7 DEF Sane, Coherent
<1>11. Stamps' /\ RotationSurvives'
    BY <1>5, <1>8 DEF IInv, Stamps, RotationSurvives
<1>12. file' \in [cfg : AllConfigs \cup {Missing}, mtime : 0..MaxTime]
    BY <1>5 DEF IInv, Types
<1> QED
    BY <1>5, <1>6, <1>9, <1>10, <1>11, <1>12, BootStep

-----------------------------------------------------------------------------
(* The rest of a reload *)

(* The migration changes how the keys are stored, not what they grant.     *)
LEMMA MigratedGrants ==
    ASSUME NEW c \in AllConfigs, Loadable(c)
    PROVE  /\ Migrated(c) \in AllConfigs /\ Migrated(c).grant = c.grant /\ Migrated(c) # Missing
           /\ Loadable(Migrated(c))
           /\ ~Migrated(c).plain
<1>1. Migrated(c) \in AllConfigs /\ Migrated(c).grant = c.grant
    BY DEF Migrated, AllConfigs
<1>2. Migrated(c).ok = c.ok
    BY DEF Migrated, AllConfigs
<1>3. ~Migrated(c).plain
    BY DEF Migrated, AllConfigs
<1>4. Loadable(Migrated(c))
    BY <1>1, <1>2 DEF Loadable
<1> QED
    BY <1>1, <1>3, <1>4, NameAssumption

(* So nothing the operator has installed is lost by it.                    *)
LEMMA WriteMigratedSound ==
    ASSUME IInv, NEW t \in Threads, WriteMigrated(t)
    PROVE  IInv'
<1>1. PICK r : r = thread[t]
    OBVIOUS
<1>2. /\ r \in Goroutines /\ Sane(t, r) /\ Coherent(r) /\ Requests \subseteq Threads
      /\ t \in Requests => Current(r, since[t]) /\ Decided(r, since[t])
    BY <1>1 DEF IInv, Types, Threads
<1>3. PICK c : c = Migrated(r.cfg)
    OBVIOUS
<1>4. PICK new : new = [r EXCEPT !.cfg = c, !.pc = "install"]
    OBVIOUS
<1>5. /\ r.pc = "migrate" /\ file' = [cfg |-> c, mtime |-> now] /\ Moves(t, new)
      /\ UNCHANGED <<now, phase, keys, lastMod, rotated, overlap, unseen, since>>
    BY <1>1, <1>2, <1>3, <1>4 DEF WriteMigrated, Moves, Server, History, IInv, Types
<1>6. /\ c \in AllConfigs /\ Loadable(c) /\ ~c.plain /\ c # Missing /\ c.grant = r.cfg.grant
      /\ file.cfg # Missing
    BY <1>2, <1>3, <1>5, MigratedGrants DEF Sane
<1>7. ~overlap => c.grant = file.cfg.grant
    BY <1>2, <1>5, <1>6 DEF Coherent
<1>8. new \in Goroutines
    BY <1>2, <1>4, <1>6 DEF Goroutines, PCs
<1>9. /\ new.pc = "install" /\ new.cfg = c /\ new.key = r.key /\ new.need = r.need
      /\ new.verdict = r.verdict
    BY <1>2, <1>4 DEF Goroutines
<1>10. new.excused <=> r.excused
    BY <1>2, <1>4 DEF Goroutines
<1>11. /\ thread' \in [Threads -> Goroutines]
       /\ thread'[t] = new
       /\ \A q \in Threads \ {t} : thread'[q] = thread[q]
    BY <1>5, <1>8, MovesChanges DEF IInv, Types
<1>12. file'.cfg = c /\ file'.mtime = now /\ file.mtime <= now
    BY <1>5 DEF IInv, Stamps
<1>13. now \in 1..MaxTime /\ MaxTime \in Nat /\ file.mtime \in Nat /\ lastMod \in Nat
    BY TimeAssumption DEF IInv, Types
<1>14. Types'
  <2>1. file' \in [cfg : AllConfigs \cup {Missing}, mtime : 0..MaxTime]
      BY <1>5, <1>6, <1>13
  <2> QED
      BY <1>5, <1>11, <2>1 DEF IInv, Types
<1>15. Stamps' /\ RotationSurvives'
    BY <1>5, <1>6, <1>7, <1>12, <1>13 DEF IInv, Stamps, RotationSurvives
<1>16. Table'
  <2>1. now <= lastMod => file.mtime <= lastMod
      BY <1>12, <1>13
  <2> QED
      BY <1>5, <1>7, <1>12, <2>1 DEF IInv, Table, Loadable
<1>17. \A q \in Threads : Sane(q, thread[q])' /\ Coherent(thread[q])'
  <2>1. Sane(t, new)' /\ Coherent(new)'
      BY <1>2, <1>5, <1>6, <1>9, <1>12 DEF Sane, Coherent, Loadable
  <2>2. ASSUME NEW q \in Threads \ {t} PROVE Sane(q, thread[q])' /\ Coherent(thread[q])'
    <3>1. thread'[q] = thread[q] /\ Sane(q, thread[q]) /\ Coherent(thread[q])
        BY <1>11 DEF IInv
    <3> QED
        BY <1>5, <1>6, <1>7, <1>12, <3>1 DEF Sane, Coherent, Loadable
  <2> QED
      BY <1>11, <2>1, <2>2 DEF Sane, Coherent, Loadable
<1>18. \A q \in Requests : Current(thread[q], since[q])' /\ Decided(thread[q], since[q])'
  <2>1. ASSUME NEW q \in Requests PROVE Current(thread[q], since[q])'
    <3>1. Current(thread[q], since[q])
        BY DEF IInv
    <3>2. CASE q = t
        BY <1>1, <1>2, <1>5, <1>6, <1>7, <1>9, <1>10, <1>11, <1>12, <3>2
           DEF Current, Among, Loadable
    <3>3. CASE q # t
        BY <1>2, <1>5, <1>6, <1>7, <1>11, <1>12, <3>1, <3>3 DEF Current, Among, Loadable
    <3> QED
        BY <3>2, <3>3
  <2>2. ASSUME NEW q \in Requests PROVE Decided(thread[q], since[q])'
    <3>1. Decided(thread[q], since[q])
        BY DEF IInv
    <3> QED
        BY <1>1, <1>2, <1>5, <1>9, <1>10, <1>11, <3>1 DEF Decided
  <2> QED
      BY <2>1, <2>2
<1> QED
    BY <1>14, <1>15, <1>16, <1>17, <1>18 DEF IInv

(* The table that is installed is the file's, unless a rotation overlaps.  *)
LEMMA InstallSound ==
    ASSUME IInv, NEW t \in Threads, NEW ok \in BOOLEAN, Install(t, ok)
    PROVE  IInv'
<1>1. PICK r : r = thread[t]
    OBVIOUS
<1>2. /\ r \in Goroutines /\ Sane(t, r) /\ Coherent(r) /\ Requests \subseteq Threads
      /\ \A q \in Threads : q # Main <=> q \in Requests
    BY <1>1, NameAssumption DEF IInv, Types, Threads
<1>3. PICK new : new = [r EXCEPT !.cfg = Missing, !.pc = Done(t)]
    OBVIOUS
<1>4. /\ r.pc = "install" /\ keys' = r.cfg /\ phase' = "up" /\ Moves(t, new)
      /\ lastMod' \in {lastMod, file.mtime}
      /\ UNCHANGED <<file, now, rotated, overlap, unseen, since>>
    BY <1>1, <1>2, <1>3 DEF Install, Moves, Server, History, IInv, Types
<1>5. r.cfg \in AllConfigs /\ Loadable(r.cfg) /\ ~r.cfg.plain /\ file.cfg # Missing
    BY <1>2, <1>4 DEF Sane
<1>6. ~overlap => keys'.grant = file.cfg.grant
    BY <1>2, <1>4 DEF Coherent
<1>7. new \in Goroutines
    BY <1>2, <1>3 DEF Goroutines, PCs, Done
<1>8. /\ new.pc = Done(t) /\ new.key = r.key /\ new.need = r.need /\ new.verdict = r.verdict
    BY <1>2, <1>3 DEF Goroutines
<1>9. new.excused <=> r.excused
    BY <1>2, <1>3 DEF Goroutines
<1>10. /\ thread' \in [Threads -> Goroutines]
       /\ thread'[t] = new
       /\ \A q \in Threads \ {t} : thread'[q] = thread[q]
    BY <1>4, <1>7, MovesChanges DEF IInv, Types
<1>11. Types'
    BY <1>4, <1>5, <1>10 DEF IInv, Types
<1>12. Stamps' /\ RotationSurvives'
    BY <1>4, <1>5 DEF IInv, Stamps, RotationSurvives
<1>13. Table'
    BY <1>4, <1>5, <1>6 DEF Table, Loadable
<1>14. \A q \in Threads : Sane(q, thread[q])' /\ Coherent(thread[q])'
  <2>1. Sane(t, new)' /\ Coherent(new)'
      BY <1>2, <1>4, <1>5, <1>8 DEF Sane, Coherent, Loadable, Done
  <2>2. ASSUME NEW q \in Threads \ {t} PROVE Sane(q, thread[q])' /\ Coherent(thread[q])'
    <3>1. thread'[q] = thread[q] /\ Sane(q, thread[q]) /\ Coherent(thread[q])
        BY <1>10 DEF IInv
    <3>2. q = Main => thread[q].pc = "idle"
        BY <1>2, <1>4, <3>1 DEF Sane
    <3> QED
        BY <1>2, <1>4, <3>1, <3>2 DEF Sane, Coherent, Loadable
  <2> QED
      BY <1>10, <2>1, <2>2 DEF Sane, Coherent, Loadable
<1>15. \A q \in Requests : Current(thread[q], since[q])' /\ Decided(thread[q], since[q])'
  <2>1. ASSUME NEW q \in Requests PROVE Current(thread[q], since[q])'
    <3>1. Current(thread[q], since[q])
        BY DEF IInv
    <3>2. CASE q = t
        BY <1>1, <1>4, <1>6, <1>8, <1>9, <1>10, <3>1, <3>2 DEF Current, Among, Loadable
    <3>3. CASE q # t
        BY <1>2, <1>4, <1>6, <1>10, <3>1, <3>3 DEF Current, Among, Loadable
    <3> QED
        BY <3>2, <3>3
  <2>2. ASSUME NEW q \in Requests PROVE Decided(thread[q], since[q])'
    <3>1. Decided(thread[q], since[q])
        BY DEF IInv
    <3> QED
        BY <1>1, <1>2, <1>4, <1>8, <1>9, <1>10, <3>1 DEF Decided
  <2> QED
      BY <2>1, <2>2
<1> QED
    BY <1>11, <1>12, <1>13, <1>14, <1>15 DEF IInv

-----------------------------------------------------------------------------
(* Arrivals, the operator, the clock and the end of the process *)

(* A request may be decided by what the file says when it arrives.         *)
LEMMA ArriveSound ==
    ASSUME IInv, NEW t \in Requests, NEW k \in Keys, NEW need \in Needs, Arrive(t, k, need)
    PROVE  IInv'
<1>1. PICK late \in BOOLEAN : late = (overlap \/ unseen \/ ~Loadable(file.cfg))
    OBVIOUS
<1>2. t \in Threads /\ t # Main /\ Requests \subseteq Threads /\ Main \in Threads
    BY NameAssumption DEF Threads
<1>3. PICK new : new = [Idle EXCEPT !.pc = "stat", !.key = k, !.need = need, !.excused = late]
    OBVIOUS
<1>4. /\ phase = "up" /\ Moves(t, new) /\ since' = [since EXCEPT ![t] = {file.cfg}]
      /\ UNCHANGED <<file, now, phase, keys, lastMod, rotated, overlap, unseen>>
    BY <1>1, <1>3 DEF Arrive, Listening, Moves, Server
<1>5. new \in Goroutines
  <2>1. 0 \in 0..MaxTime
      BY TimeAssumption
  <2> QED
      BY <1>3, <2>1 DEF Idle, Goroutines, PCs, Needs
<1>6. new.pc = "stat" /\ new.key = k /\ new.verdict = "open"
    BY <1>3 DEF Idle
<1>7. new.excused <=> late
    BY <1>3 DEF Idle
<1>8. file.cfg \in AllConfigs
    BY <1>4 DEF IInv, Types, Stamps
<1>9. /\ thread' \in [Threads -> Goroutines]
      /\ thread'[t] = new
      /\ \A q \in Threads \ {t} : thread'[q] = thread[q]
    BY <1>2, <1>4, <1>5, MovesChanges DEF IInv, Types
<1>10. /\ since' \in [Requests -> SUBSET AllConfigs]
       /\ since'[t] = {file.cfg}
       /\ \A q \in Requests \ {t} : since'[q] = since[q]
    BY <1>4, <1>8 DEF IInv, Types
<1>11. Types'
    BY <1>4, <1>9, <1>10 DEF IInv, Types
<1>12. Stamps' /\ Table' /\ RotationSurvives'
    BY <1>4 DEF IInv, Stamps, Table, RotationSurvives, Loadable
<1>13. \A q \in Threads : Sane(q, thread[q])' /\ Coherent(thread[q])'
  <2>1. Sane(t, new)' /\ Coherent(new)'
      BY <1>2, <1>4, <1>6 DEF Sane, Coherent
  <2> QED
      BY <1>4, <1>9, <2>1 DEF IInv, Sane, Coherent, Loadable
<1>14. \A q \in Requests : Current(thread[q], since[q])' /\ Decided(thread[q], since[q])'
  <2>1. Current(thread[t], since[t])' /\ Decided(thread[t], since[t])'
      BY <1>1, <1>4, <1>6, <1>7, <1>9, <1>10 DEF Current, Decided, Among, Loadable
  <2>2. ASSUME NEW q \in Requests \ {t}
        PROVE  Current(thread[q], since[q])' /\ Decided(thread[q], since[q])'
      BY <1>2, <1>4, <1>9, <1>10 DEF IInv, Current, Decided, Among, Loadable
  <2> QED
      BY <2>1, <2>2
<1> QED
    BY <1>11, <1>12, <1>13, <1>14 DEF IInv

(* A rotation that overlaps a reload, that the times hide, or that brings  *)
(* a file not accepted excuses the requests under way; any other is one of *)
(* the configurations they may be decided by.                              *)
LEMMA RotateSound ==
    ASSUME IInv, NEW c \in Configs, NEW m \in 1..MaxTime, Rotate(c, m)
    PROVE  IInv'
<1>1. /\ m <= now /\ file' = [cfg |-> c, mtime |-> m] /\ rotated' = c
      /\ overlap' = \E t \in Threads : Reloading(t)
      /\ unseen' = (m <= lastMod \/ m <= file.mtime)
      /\ UNCHANGED <<now, phase, keys, lastMod>>
    BY DEF Rotate, Server, IInv, Types
<1>2. c \in AllConfigs /\ c # Missing /\ Requests \subseteq Threads
    BY ConfigAssumption, NameAssumption DEF Threads
<1>3. PICK late \in BOOLEAN : late = (overlap' \/ unseen' \/ ~Loadable(c))
    OBVIOUS
<1>4. ASSUME NEW t \in Threads
      PROVE  /\ thread'[t] \in Goroutines
             /\ thread'[t].pc = thread[t].pc /\ thread'[t].key = thread[t].key
             /\ thread'[t].need = thread[t].need /\ thread'[t].verdict = thread[t].verdict
             /\ thread'[t].cfg = thread[t].cfg /\ thread'[t].mtime = thread[t].mtime
             /\ thread'[t].excused <=> thread[t].excused \/ late
  <2>1. PICK r \in Goroutines : r = thread[t]
      BY DEF IInv, Types
  <2>2. PICK x \in BOOLEAN : x = (thread[t].excused \/ overlap' \/ unseen' \/ ~Loadable(c))
      OBVIOUS
  <2>3. PICK n : n = [r EXCEPT !.excused = x]
      OBVIOUS
  <2>4. thread'[t] = n
      BY <2>1, <2>2, <2>3 DEF Rotate
  <2>5. n \in Goroutines
      BY <2>3 DEF Goroutines
  <2>6. /\ n.pc = r.pc /\ n.key = r.key /\ n.need = r.need /\ n.verdict = r.verdict
        /\ n.cfg = r.cfg /\ n.mtime = r.mtime
      BY <2>3 DEF Goroutines
  <2>7. n.excused <=> x
      BY <2>3 DEF Goroutines
  <2>8. x <=> thread[t].excused \/ late
      BY <1>3, <2>2
  <2> QED
      BY <2>1, <2>4, <2>5, <2>6, <2>7, <2>8
<1>5. thread' \in [Threads -> Goroutines]
  <2>1. thread' = [t \in Threads |-> thread'[t]]
      BY DEF Rotate
  <2> QED
      BY <1>4, <2>1
<1>6. \A t \in Requests :
         since'[t] = IF thread[t].verdict = "open" THEN since[t] \cup {c} ELSE since[t]
    BY DEF Rotate
<1>7. since' \in [Requests -> SUBSET AllConfigs]
  <2>1. since' = [t \in Requests |-> since'[t]]
      BY DEF Rotate
  <2> QED
      BY <1>2, <1>6, <2>1 DEF IInv, Types
<1>8. file'.cfg = c /\ file'.mtime = m
    BY <1>1
<1>9. overlap' \in BOOLEAN /\ unseen' \in BOOLEAN
    BY <1>1
<1>10. file' \in [cfg : AllConfigs \cup {Missing}, mtime : 0..MaxTime]
    BY <1>1, <1>2, TimeAssumption
<1>11. Types'
    BY <1>1, <1>2, <1>5, <1>7, <1>9, <1>10 DEF IInv, Types
<1>12. Stamps' /\ RotationSurvives'
    BY <1>1, <1>2, <1>8 DEF IInv, Stamps, RotationSurvives
<1>13. m \in Nat /\ lastMod \in Nat
    BY TimeAssumption DEF IInv, Types
<1>14. Table'
    BY <1>1, <1>8, <1>13 DEF IInv, Table, Loadable
<1>15. \A t \in Threads : Sane(t, thread[t])' /\ Coherent(thread[t])'
  <2> SUFFICES ASSUME NEW t \in Threads PROVE Sane(t, thread[t])' /\ Coherent(thread[t])'
      OBVIOUS
  <2>1. Sane(t, thread[t])
      BY DEF IInv
  <2>2. Sane(t, thread[t])'
      BY <1>1, <1>2, <1>4, <1>8, <2>1 DEF Sane, Loadable
  <2>3. ~overlap' => thread[t].pc \notin {"create", "migrate", "install"}
      BY <1>1 DEF Reloading
  <2>4. Coherent(thread[t])'
      BY <1>4, <2>3 DEF Coherent
  <2> QED
      BY <2>2, <2>4
<1>16. \A t \in Requests : Current(thread[t], since[t])' /\ Decided(thread[t], since[t])'
  <2> SUFFICES ASSUME NEW t \in Requests
               PROVE  Current(thread[t], since[t])' /\ Decided(thread[t], since[t])'
      OBVIOUS
  <2>1. t \in Threads /\ Current(thread[t], since[t]) /\ Decided(thread[t], since[t])
      BY <1>2 DEF IInv
  <2>2. /\ thread'[t].pc = thread[t].pc /\ thread'[t].key = thread[t].key
        /\ thread'[t].need = thread[t].need /\ thread'[t].verdict = thread[t].verdict
        /\ thread'[t].mtime = thread[t].mtime
        /\ ~thread'[t].excused => ~thread[t].excused /\ ~late
      BY <1>4, <2>1
  <2>3. /\ ~late => ~overlap' /\ ~unseen' /\ Loadable(c)
        /\ thread[t].verdict = "open" => since'[t] = since[t] \cup {c}
        /\ thread[t].verdict # "open" => since'[t] = since[t]
      BY <1>3, <1>6
  <2>4. Current(thread[t], since[t])'
      BY <1>1, <1>8, <2>1, <2>2, <2>3 DEF Current, Among, Loadable
  <2>5. Decided(thread[t], since[t])'
      BY <2>1, <2>2, <2>3 DEF Decided
  <2> QED
      BY <2>4, <2>5
<1> QED
    BY <1>11, <1>12, <1>14, <1>15, <1>16 DEF IInv

(* Time changes nothing.                                                   *)
LEMMA TickSound ==
    ASSUME IInv, Tick
    PROVE  IInv'
<1>1. /\ now' = now + 1 /\ now < MaxTime
      /\ UNCHANGED <<file, phase, keys, lastMod, thread, rotated, overlap, unseen, since>>
    BY DEF Tick, Server, History
<1>2. now \in 1..MaxTime /\ MaxTime \in Nat /\ file.mtime \in Nat
    BY TimeAssumption DEF IInv, Types
<1>3. now' \in 1..MaxTime /\ (file.mtime <= now => file.mtime <= now')
    BY <1>1, <1>2
<1>4. Types' /\ Stamps'
    BY <1>1, <1>3 DEF IInv, Types, Stamps
<1>5. Table' /\ RotationSurvives'
    BY <1>1 DEF IInv, Table, RotationSurvives, Loadable
<1>6. \A t \in Threads : Sane(t, thread[t])' /\ Coherent(thread[t])'
    BY <1>1 DEF IInv, Sane, Coherent, Loadable
<1>7. \A t \in Requests : Current(thread[t], since[t])' /\ Decided(thread[t], since[t])'
    BY <1>1 DEF IInv, Current, Decided, Among, Loadable
<1> QED
    BY <1>4, <1>5, <1>6, <1>7 DEF IInv

(* The goroutine that has nothing to do.                                   *)
LEMMA IdleFields ==
    /\ Idle \in Goroutines
    /\ Idle.pc = "idle" /\ Idle.verdict = "open"
    /\ Idle.excused
<1>1. 0 \in 0..MaxTime
    BY TimeAssumption
<1>2. Idle \in Goroutines
    BY <1>1 DEF Idle, Goroutines, PCs, Needs
<1>3. Idle.pc = "idle" /\ Idle.verdict = "open"
    BY DEF Idle
<1>4. Idle.excused
    BY DEF Idle
<1> QED
    BY <1>2, <1>3, <1>4

(* A new process starts from the file alone.                               *)
LEMMA StopSound ==
    ASSUME IInv, Stop
    PROVE  IInv'
<1>1. /\ phase' = "down" /\ keys' = Missing /\ lastMod' = 0 /\ file' = file /\ now' = now
      /\ rotated' = IF overlap THEN file.cfg ELSE rotated
      /\ ~overlap' /\ overlap' \in BOOLEAN /\ unseen' \in BOOLEAN
      /\ since' = [t \in Requests |-> {}]
      /\ thread' = [t \in Threads |-> Idle]
    BY DEF Stop
<1>2. \A t \in Threads : thread'[t] = Idle
    BY <1>1
<1>3. Types'
  <2>1. 0 \in 0..MaxTime
      BY TimeAssumption
  <2>2. thread' \in [Threads -> Goroutines]
      BY <1>1, IdleFields
  <2> QED
      BY <1>1, <2>1, <2>2 DEF IInv, Types
<1>4. Stamps' /\ Table' /\ RotationSurvives'
    BY <1>1 DEF IInv, Stamps, Table, RotationSurvives
<1>5. \A t \in Threads : Sane(t, thread[t])' /\ Coherent(thread[t])'
    BY <1>2, IdleFields DEF Sane, Coherent
<1>6. \A t \in Requests : Current(thread[t], since[t])' /\ Decided(thread[t], since[t])'
    BY <1>2, IdleFields DEF Current, Decided, Threads
<1> QED
    BY <1>3, <1>4, <1>5, <1>6 DEF IInv

-----------------------------------------------------------------------------
(* The theorems *)

(* There is no file and no server yet.                                     *)
LEMMA Initially == Init => IInv
<1> SUFFICES ASSUME Init PROVE IInv
    OBVIOUS
<1>1. \A t \in Threads : thread[t] = Idle
    BY DEF Init
<1>2. Types
  <2>1. 0 \in 0..MaxTime /\ 1 \in 1..MaxTime
      BY TimeAssumption
  <2>2. thread \in [Threads -> Goroutines]
      BY IdleFields DEF Init
  <2>3. file \in [cfg : AllConfigs \cup {Missing}, mtime : 0..MaxTime]
      BY <2>1 DEF Init
  <2> QED
      BY <2>1, <2>2, <2>3 DEF Init, Types
<1>3. Stamps /\ Table /\ RotationSurvives
    BY DEF Init, Stamps, Table, RotationSurvives
<1>4. \A t \in Threads : Sane(t, thread[t]) /\ Coherent(thread[t])
    BY <1>1, IdleFields DEF Sane, Coherent
<1>5. \A t \in Requests : Current(thread[t], since[t]) /\ Decided(thread[t], since[t])
    BY <1>1, IdleFields DEF Current, Decided, Threads
<1> QED
    BY <1>2, <1>3, <1>4, <1>5 DEF IInv

(* Every step keeps the invariant.                                         *)
LEMMA NextSound == IInv /\ [Next]_vars => IInv'
<1> SUFFICES ASSUME IInv, [Next]_vars PROVE IInv'
    OBVIOUS
<1>1. ASSUME NEW t \in Threads, thread[t].pc # "idle", GiveUp(t) PROVE IInv'
    BY <1>1, RequestGivesUp, MainGivesUp DEF Threads
<1>2. CASE Start \/ CreateDefault \/ CreateDefaultFails
  <2>1. CASE CreateDefaultFails
      BY <1>1, <2>1 DEF CreateDefaultFails, Threads
  <2> QED
      BY <1>2, <2>1, StartSound, CreateDefaultSound
<1>3. ASSUME NEW t \in Threads, Reload(t) PROVE IInv'
  <2>1. CASE ReadFileFails(t)
      BY <1>1, <2>1 DEF ReadFileFails
  <2>2. CASE WriteMigratedFails(t)
      BY <1>1, <2>2 DEF WriteMigratedFails
  <2> QED
      BY <1>3, <2>1, <2>2, ReadFileSound, WriteMigratedSound, InstallSound DEF Reload
<1>4. ASSUME NEW t \in Requests,
             \/ \E k \in Keys, need \in Needs : Arrive(t, k, need)
             \/ Stat(t) \/ StatFails(t) \/ Compare(t) \/ Look(t)
      PROVE  IInv'
  <2>1. CASE StatFails(t)
      BY <1>1, <2>1 DEF StatFails, Threads
  <2> QED
      BY <1>4, <2>1, ArriveSound, StatSound, CompareSound, LookSound
<1>5. CASE UNCHANGED vars
  <2>1. UNCHANGED <<file, now, phase, keys, lastMod, thread, rotated, overlap, unseen, since>>
      BY <1>5 DEF vars
  <2>2. Types' /\ Stamps' /\ Table' /\ RotationSurvives'
      BY <2>1 DEF IInv, Types, Stamps, Table, RotationSurvives, Loadable
  <2>3. \A t \in Threads : Sane(t, thread[t])' /\ Coherent(thread[t])'
      BY <2>1 DEF IInv, Sane, Coherent, Loadable
  <2>4. \A t \in Requests : Current(thread[t], since[t])' /\ Decided(thread[t], since[t])'
      BY <2>1 DEF IInv, Current, Decided, Among, Loadable
  <2> QED
      BY <2>2, <2>3, <2>4 DEF IInv
<1> QED
    BY <1>2, <1>3, <1>4, <1>5, RotateSound, TickSound, StopSound DEF Next

(* The inductive invariant holds throughout.                               *)
THEOREM KeyStoreInvariant == Spec => []IInv
BY Initially, NextSound, PTL DEF Spec

(* The variables keep their types, and requests run only while the server  *)
(* is up.                                                                  *)
THEOREM KeyStoreTypeCorrect == Spec => []TypeOK
<1>1. IInv => TypeOK
  <2> SUFFICES ASSUME IInv PROVE TypeOK
      OBVIOUS
  <2>1. \A t \in Requests : thread[t].pc # "idle" => phase = "up" /\ thread[t].key \in Keys
      BY NameAssumption DEF IInv, Sane, Threads
  <2> QED
      BY <2>1 DEF IInv, Types, TypeOK, Goroutines
<1> QED
    BY <1>1, KeyStoreInvariant, PTL

(* While the server answers, its table is one that reload accepted whole.  *)
THEOREM AlwaysServesAcceptedKeys == Spec => []ServesAcceptedKeys
<1>1. IInv => ServesAcceptedKeys
    BY DEF IInv, Table, Loadable, ServesAcceptedKeys
<1> QED
    BY <1>1, KeyStoreInvariant, PTL

(* Every request without an excuse is decided by a configuration that was  *)
(* in the file since it arrived.                                           *)
THEOREM AlwaysDecidedByCurrentKeys == Spec => []DecidedByCurrentKeys
<1>1. IInv => DecidedByCurrentKeys
    BY DEF IInv, Decided, DecidedByCurrentKeys
<1> QED
    BY <1>1, KeyStoreInvariant, PTL

(* The migration of plaintext keys undoes no rotation it does not overlap. *)
THEOREM RotationAlwaysSurvives == Spec => []RotationSurvives
<1>1. IInv => RotationSurvives
    BY DEF IInv
<1> QED
    BY <1>1, KeyStoreInvariant, PTL
=============================================================================

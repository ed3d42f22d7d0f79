----------------------- MODULE RequestLifecycleProofs -----------------------
(***************************************************************************)
(* Proofs about RequestLifecycle, for every set of requests, whatever each *)
(* of them may ask for and however many of the clients stall.              *)
(***************************************************************************)
EXTENDS RequestLifecycle, FiniteSetTheorems, TLAPS

-----------------------------------------------------------------------------
(* Types, and the exclusion by mutationMu *)

(* Every step of a handler and of the shutdown keeps the types, and the    *)
(* lock is taken from nobody and by one at a time.                         *)
LEMMA TypeOKStep == TypeOK /\ [Next]_vars => TypeOK'
<1> SUFFICES ASSUME TypeOK, [Next]_vars PROVE TypeOK'
    OBVIOUS
<1> USE AsksAssumption, NobodyAssumption
    DEF TypeOK, Kinds, Pending, Ended, Statuses, Managed, Locking, Running, At, Goto,
        Return, Quiet
<1>1. ASSUME NEW r \in Requests, NEW kind \in Asks[r], Arrive(r, kind) PROVE TypeOK'
  <2>1. kind \in Kinds
      OBVIOUS
  <2>2. counts' \in [total : Nat, ok : Nat, err : Nat]
      BY <1>1 DEF Arrive
  <2>3. request' \in [Requests -> [at : Pending \cup Ended \cup {"unsent", "cut"},
                                   kind : Kinds, status : Statuses]]
    <3>1. \A q \in Requests \ {r} : request'[q] = request[q]
        BY <1>1 DEF Arrive
    <3>2. request'[r] = [request[r] EXCEPT !.at = "limit", !.kind = kind]
        BY <1>1 DEF Arrive
    <3>3. request' = [q \in Requests |-> request'[q]]
        BY <1>1 DEF Arrive
    <3>4. request'[r] \in [at : Pending \cup Ended \cup {"unsent", "cut"},
                           kind : Kinds, status : Statuses]
        BY <2>1, <3>2
    <3> QED
        BY <3>1, <3>3, <3>4
  <2> QED
      BY <1>1, <2>2, <2>3 DEF Arrive
<1>2. ASSUME NEW r \in Requests, NEW allowed \in BOOLEAN, Limit(r, allowed) PROVE TypeOK'
    BY <1>2 DEF Limit
<1>3. ASSUME NEW r \in Requests, NEW allowed \in BOOLEAN, Authorise(r, allowed) PROVE TypeOK'
    BY <1>3 DEF Authorise, Handler
<1>4. ASSUME NEW r \in Requests, Lock(r) PROVE TypeOK'
    BY <1>4 DEF Lock, AfterLock
<1>5. ASSUME NEW r \in Requests, BodyArrives(r) PROVE TypeOK'
    BY <1>5 DEF BodyArrives
<1>6. ASSUME NEW r \in Requests, BodyFails(r) PROVE TypeOK'
    BY <1>6 DEF BodyFails, Released
<1>7. ASSUME NEW r \in Requests, NEW status \in {"ok", "error"}, Work(r, status) PROVE TypeOK'
  <2>1. request' \in [Requests -> [at : Pending \cup Ended \cup {"unsent", "cut"},
                                   kind : Kinds, status : Statuses]]
    <3>1. \A q \in Requests \ {r} : request'[q] = request[q]
        BY <1>7 DEF Work
    <3>2. \/ request'[r] = [at |-> "audit", kind |-> request[r].kind, status |-> status]
          \/ request'[r] = [at |-> "count", kind |-> request[r].kind, status |-> status]
        BY <1>7 DEF Work
    <3>3. request' = [q \in Requests |-> request'[q]]
        BY <1>7 DEF Work
    <3> QED
        BY <3>1, <3>2, <3>3
  <2>2. request'[r].at \in {"audit", "count"} /\ \A q \in Requests \ {r} : request'[q] = request[q]
      BY <1>7 DEF Work
  <2>3. holder' = IF holder = r THEN Nobody ELSE holder
      BY <1>7 DEF Work
  <2> QED
      BY <1>7, <2>1, <2>2, <2>3 DEF Work
<1>8. ASSUME NEW r \in Requests, Audit(r) PROVE TypeOK'
    BY <1>8 DEF Audit
<1>9. ASSUME NEW r \in Requests, NEW late \in BOOLEAN, Count(r, late) PROVE TypeOK'
    BY <1>9 DEF Count
<1>10. CASE Signal
    BY <1>10 DEF Signal
<1>11. CASE Stop
    BY <1>11 DEF Stop
<1>12. CASE ForcedStop
    BY <1>12 DEF ForcedStop, Deadline, InFlight
<1>13. CASE UNCHANGED vars
    BY <1>13 DEF vars
<1> QED
    BY <1>1, <1>2, <1>3, <1>4, <1>5, <1>6, <1>7, <1>8, <1>9, <1>10, <1>11, <1>12, <1>13
    DEF Next, ServerStep, BodyEnds

(* A changing handler at work always holds mutationMu, so that the modules *)
(* about the storage may take mutations one at a time.                     *)
THEOREM LifecycleTypeCorrect == Spec => []TypeOK
<1>1. Init => TypeOK
  <2>1. Unsent \in [at : Pending \cup Ended \cup {"unsent", "cut"},
                    kind : Kinds, status : Statuses]
      BY DEF Unsent, Kinds, Statuses
  <2>2. Unsent.at = "unsent"
      BY DEF Unsent
  <2>3. [total |-> 0, ok |-> 0, err |-> 0] \in [total : Nat, ok : Nat, err : Nat]
      OBVIOUS
  <2> QED
      BY <2>1, <2>2, <2>3 DEF Init, TypeOK
<1> QED
    BY <1>1, TypeOKStep, PTL DEF Spec

-----------------------------------------------------------------------------
(* The audit log *)

Entries(r) == {e \in log : e[1] = r}

(* Up to the audit a request has no entry; after it, the one with its      *)
(* status, unless the rate limiter has sent it past the audit.             *)
EntriesSoFar ==
    \A r \in Requests :
        /\ request[r].at \in {"unsent", "limit", "authorise", "lock", "body", "work", "audit"} =>
              Entries(r) = {}
        /\ request[r].at = "audit" => request[r].status # "limited"
        /\ request[r].at \in {"count", "answered"} /\ request[r].kind \in Managed =>
              Entries(r) = IF request[r].status = "limited" THEN {}
                                                            ELSE {<<r, request[r].status>>}

(* The steps that write no entry: each moves one request on at most.       *)
LEMMA EntriesSoFarStep == TypeOK /\ EntriesSoFar /\ [Next]_vars => EntriesSoFar'
<1> SUFFICES ASSUME TypeOK, EntriesSoFar, [Next]_vars PROVE EntriesSoFar'
    OBVIOUS
<1> USE DEF TypeOK, EntriesSoFar, Entries, Kinds, Managed, Locking, Running, At, Goto, Return, Quiet
<1>1. ASSUME NEW r \in Requests, NEW kind \in Asks[r], Arrive(r, kind) PROVE EntriesSoFar'
    BY <1>1 DEF Arrive
<1>2. ASSUME NEW r \in Requests, NEW allowed \in BOOLEAN, Limit(r, allowed) PROVE EntriesSoFar'
    BY <1>2 DEF Limit
<1>3. ASSUME NEW r \in Requests, NEW allowed \in BOOLEAN, Authorise(r, allowed) PROVE EntriesSoFar'
    BY <1>3 DEF Authorise, Handler
<1>4. ASSUME NEW r \in Requests, Lock(r) PROVE EntriesSoFar'
    BY <1>4 DEF Lock, AfterLock
<1>5. ASSUME NEW r \in Requests, BodyArrives(r) PROVE EntriesSoFar'
    BY <1>5 DEF BodyArrives
<1>6. ASSUME NEW r \in Requests, BodyFails(r) PROVE EntriesSoFar'
    BY <1>6 DEF BodyFails
<1>7. ASSUME NEW r \in Requests, NEW status \in {"ok", "error"}, Work(r, status) PROVE EntriesSoFar'
    BY <1>7 DEF Work
<1>8. ASSUME NEW r \in Requests, Audit(r) PROVE EntriesSoFar'
  <2>1. Entries(r)' = {<<r, request[r].status>>}
      BY <1>8 DEF Audit
  <2>2. \A q \in Requests \ {r} : Entries(q)' = Entries(q) /\ request'[q] = request[q]
      BY <1>8 DEF Audit
  <2>3. request'[r] = [request[r] EXCEPT !.at = "count"] /\ request[r].status # "limited"
      BY <1>8 DEF Audit
  <2> QED
      BY <2>1, <2>2, <2>3
<1>9. ASSUME NEW r \in Requests, NEW late \in BOOLEAN, Count(r, late) PROVE EntriesSoFar'
    BY <1>9 DEF Count
<1>10. CASE Signal
    BY <1>10 DEF Signal
<1>11. CASE Stop
    BY <1>11 DEF Stop
<1>12. CASE ForcedStop
    BY <1>12 DEF ForcedStop, InFlight, Pending
<1>13. CASE UNCHANGED vars
    BY <1>13 DEF vars
<1> QED
    BY <1>1, <1>2, <1>3, <1>4, <1>5, <1>6, <1>7, <1>8, <1>9, <1>10, <1>11, <1>12, <1>13
    DEF Next, ServerStep, BodyEnds

(* A client of the management API that has its answer is in the audit log, *)
(* with its status and no other (auditMiddleware writes before the answer  *)
(* leaves the server), unless the rate limiter turned it away.             *)
THEOREM AnsweredAlwaysAudited == Spec => []AnsweredIsAudited
<1>1. Init => EntriesSoFar
    BY DEF Init, EntriesSoFar, Entries, Unsent
<1>2. EntriesSoFar => AnsweredIsAudited
    BY DEF EntriesSoFar, AnsweredIsAudited, Entries
<1> QED
    BY <1>1, <1>2, EntriesSoFarStep, LifecycleTypeCorrect, PTL DEF Spec

-----------------------------------------------------------------------------
(* The shutdown *)

(* While the server runs, no request is cut off and the counters differ by *)
(* the requests under way; a clean stop has none of these left.            *)
Accounts ==
    /\ phase # "exited" =>
          /\ ~clean
          /\ \A r \in Requests : request[r].at # "cut"
          /\ IsFiniteSet(InFlight)
          /\ counts.total = counts.ok + counts.err + Cardinality(InFlight)
    /\ CleanStopFinishesAll

(* Every step but an arrival and the count at the end leaves the requests  *)
(* under way and the counters alone.                                       *)
LEMMA AccountsStep == TypeOK /\ Accounts /\ [Next]_vars => Accounts'
<1> SUFFICES ASSUME TypeOK, Accounts, [Next]_vars PROVE Accounts'
    OBVIOUS
<1> USE DEF TypeOK, Accounts, Kinds, Managed, Locking, Running, At, Goto, Return, Quiet
<1>a. ASSUME phase # "exited", UNCHANGED <<phase, clean, counts>>, InFlight' = InFlight,
             \A r \in Requests : request'[r].at # "cut"
      PROVE  Accounts'
    BY <1>a DEF CleanStopFinishesAll
<1>1. ASSUME NEW r \in Requests, NEW kind \in Asks[r], Arrive(r, kind) PROVE Accounts'
  <2>1. InFlight' = InFlight \cup {r} /\ r \notin InFlight
      BY <1>1 DEF Arrive, InFlight, Pending
  <2>2. IsFiniteSet(InFlight') /\ Cardinality(InFlight') = Cardinality(InFlight) + 1
      BY <1>1, <2>1, FS_AddElement DEF Arrive
  <2>3. Cardinality(InFlight) \in Nat
      BY <1>1, FS_CardinalityType DEF Arrive
  <2>4. counts'.total = counts.total + 1 /\ counts'.ok = counts.ok /\ counts'.err = counts.err
      BY <1>1 DEF Arrive
  <2>5. /\ phase' = "up" /\ phase = "up" /\ ~clean'
        /\ \A q \in Requests : request'[q].at # "cut"
      BY <1>1 DEF Arrive
  <2> QED
      BY <2>2, <2>3, <2>4, <2>5 DEF CleanStopFinishesAll
<1>2. ASSUME NEW r \in Requests, NEW allowed \in BOOLEAN, Limit(r, allowed) PROVE Accounts'
    BY <1>2, <1>a DEF Limit, InFlight, Pending
<1>3. ASSUME NEW r \in Requests, NEW allowed \in BOOLEAN, Authorise(r, allowed) PROVE Accounts'
    BY <1>3, <1>a DEF Authorise, Handler, InFlight, Pending
<1>4. ASSUME NEW r \in Requests, Lock(r) PROVE Accounts'
    BY <1>4, <1>a DEF Lock, AfterLock, InFlight, Pending
<1>5. ASSUME NEW r \in Requests, BodyArrives(r) PROVE Accounts'
    BY <1>5, <1>a DEF BodyArrives, InFlight, Pending
<1>6. ASSUME NEW r \in Requests, BodyFails(r) PROVE Accounts'
    BY <1>6, <1>a DEF BodyFails, InFlight, Pending
<1>7. ASSUME NEW r \in Requests, NEW status \in {"ok", "error"}, Work(r, status) PROVE Accounts'
    BY <1>7, <1>a DEF Work, InFlight, Pending
<1>8. ASSUME NEW r \in Requests, Audit(r) PROVE Accounts'
    BY <1>8, <1>a DEF Audit, InFlight, Pending
<1>9. ASSUME NEW r \in Requests, NEW late \in BOOLEAN, Count(r, late) PROVE Accounts'
  <2>1. InFlight' = InFlight \ {r} /\ r \in InFlight
      BY <1>9 DEF Count, InFlight, Pending
  <2>2. IsFiniteSet(InFlight') /\ Cardinality(InFlight') = Cardinality(InFlight) - 1
      BY <1>9, <2>1, FS_RemoveElement DEF Count
  <2>3. Cardinality(InFlight) \in Nat
      BY <1>9, FS_CardinalityType DEF Count
  <2>4. /\ counts'.total = counts.total
        /\ \/ counts'.ok = counts.ok + 1 /\ counts'.err = counts.err
           \/ counts'.ok = counts.ok /\ counts'.err = counts.err + 1
      BY <1>9 DEF Count
  <2>5. /\ phase' = phase /\ phase # "exited" /\ ~clean'
        /\ \A q \in Requests : request'[q].at # "cut"
      BY <1>9 DEF Count
  <2> QED
      BY <2>2, <2>3, <2>4, <2>5 DEF CleanStopFinishesAll
<1>10. CASE Signal
    BY <1>10 DEF Signal, InFlight, CleanStopFinishesAll
<1>11. CASE Stop
  <2>1. Cardinality(InFlight) = 0
      BY <1>11, FS_EmptySet DEF Stop, Drained
  <2>2. \A r \in Requests : request[r].at \in Ended \cup {"unsent"}
      BY <1>11 DEF Stop, Drained, InFlight, Pending, Ended
  <2> QED
      BY <1>11, <2>1, <2>2 DEF Stop, CleanStopFinishesAll
<1>12. CASE ForcedStop
    BY <1>12 DEF ForcedStop, Deadline, CleanStopFinishesAll
<1>13. CASE UNCHANGED vars
    BY <1>13 DEF vars, InFlight, CleanStopFinishesAll
<1> QED
    BY <1>1, <1>2, <1>3, <1>4, <1>5, <1>6, <1>7, <1>8, <1>9, <1>10, <1>11, <1>12, <1>13
    DEF Next, ServerStep, BodyEnds

(* A server that reports a clean stop has finished every request that it   *)
(* accepted, and its counters add up, for any number of requests.          *)
THEOREM CleanStopAlwaysFinishesAll == Spec => []CleanStopFinishesAll
<1>1. Init => Accounts
  <2> SUFFICES ASSUME Init PROVE Accounts
      OBVIOUS
  <2>1. InFlight = {}
      BY DEF Init, InFlight, Unsent, Pending
  <2> QED
      BY <2>1, FS_EmptySet DEF Init, Accounts, Unsent, CleanStopFinishesAll
<1>2. Accounts => CleanStopFinishesAll
    BY DEF Accounts
<1> QED
    BY <1>1, <1>2, AccountsStep, LifecycleTypeCorrect, PTL DEF Spec
=============================================================================

-------------------------- MODULE RequestLifecycle --------------------------
(***************************************************************************)
(* The way of a request through the server: the middleware chain of        *)
(* registry-server/main.go (metrics, rate limit, audit, authorisation),    *)
(* the lock mutationMu that every changing handler takes, before it reads  *)
(* the body, and the shutdown of the server.                               *)
(*                                                                         *)
(* What the handlers do to the storage is the matter of the other modules; *)
(* here it is who waits for whom.  The rate limiter and the key store      *)
(* decide either way.                                                      *)
(*                                                                         *)
(* uploadProviderHandler and uploadModuleHandler set a read deadline, but  *)
(* the writer they get is wrapped by metricsResponseWriter, which has no   *)
(* Unwrap: the call returns an error that is ignored, and the server has   *)
(* no ReadTimeout.  A body therefore ends when its client ends it.         *)
(***************************************************************************)
EXTENDS Naturals, FiniteSets

CONSTANTS
    Requests,     \* the requests clients send
    Asks,         \* Asks[r]: the kinds of request that r may be
    Stalling,     \* those whose client may stop sending, and never give up
    Nobody        \* nobody holds the lock

Kinds == {"public", "list", "upload", "deprecate", "delete"}

ASSUME AsksAssumption == Asks \in [Requests -> SUBSET Kinds]
ASSUME StallingAssumption == Stalling \subseteq Requests
ASSUME NobodyAssumption == Nobody \notin Requests

VARIABLES
    phase,        \* "up", "draining" (srv.Shutdown) or "exited"
    clean,        \* the server stopped cleanly
    request,      \* request[r]: what is asked, where it stands, its status
    holder,       \* the request that holds mutationMu
    log,          \* entries of the audit log
    counts        \* the metrics: all requests, the good and the bad answers

vars == <<phase, clean, request, holder, log, counts>>

-----------------------------------------------------------------------------
(* Requests under /api/v1; those that take the lock (a garbage collection  *)
(* on demand does as a delete does).                                       *)
Managed == Kinds \ {"public"}
(* Mutant: the handlers that only list take the lock as well.              *)
LockingList == Kinds \ {"public"}
Locking == {"upload", "deprecate", "delete"}

Pending == {"limit", "authorise", "lock", "body", "work", "audit", "count"}
Ended == {"answered", "lost"}
Statuses == {"none", "ok", "error", "limited"}

Unsent == [at |-> "unsent", kind |-> "public", status |-> "none"]

InFlight == {r \in Requests : request[r].at \in Pending}

(* The types of the variables, and the exclusion that the modules of the   *)
(* storage rely on: a changing handler at work holds mutationMu.           *)
TypeOK ==
    /\ phase \in {"up", "draining", "exited"}
    /\ clean \in BOOLEAN
    /\ request \in [Requests -> [at : Pending \cup Ended \cup {"unsent", "cut"},
                                 kind : Kinds, status : Statuses]]
    /\ holder \in Requests \cup {Nobody}
    /\ log \subseteq Requests \X Statuses
    /\ counts \in [total : Nat, ok : Nat, err : Nat]
    /\ \A r \in Requests :
          request[r].at \in {"body", "work"} /\ request[r].kind \in Locking => holder = r

-----------------------------------------------------------------------------
Running == phase # "exited"

At(r, here) == Running /\ request[r].at = here

Goto(r, next) == request' = [request EXCEPT ![r].at = next]

(* The handlers return with a status, to the middleware that called them.  *)
Return(r, next, status) ==
    request' = [request EXCEPT ![r].at = next, ![r].status = status]

Quiet == UNCHANGED <<phase, clean, holder, log, counts>>

(* metricsMiddleware counts the request before anything else.              *)
Arrive(r, kind) ==
    /\ phase = "up"
    /\ request[r].at = "unsent"
    /\ request' = [request EXCEPT ![r].at = "limit", ![r].kind = kind]
    /\ counts' = [counts EXCEPT !.total = counts.total + 1]
    /\ UNCHANGED <<phase, clean, holder, log>>

(* RateLimiter.Middleware stands before the audit log.                     *)
Limit(r, allowed) ==
    /\ At(r, "limit")
    /\ IF allowed
       THEN Goto(r, IF request[r].kind \in Managed THEN "authorise" ELSE "work")
       ELSE Return(r, "count", "limited")
    /\ Quiet

(* Where the handler begins.                                               *)
Handler(r) == IF request[r].kind \in Locking THEN "lock" ELSE "work"

(* Mutant: authMiddleware stands before auditMiddleware.                   *)
AuthoriseUnlogged(r, allowed) ==
    /\ At(r, "authorise")
    /\ IF allowed THEN Goto(r, Handler(r)) ELSE Return(r, "count", "error")
    /\ Quiet

(* auditMiddleware goes on to authMiddleware and routeValidationMiddleware. *)
Authorise(r, allowed) ==
    /\ At(r, "authorise")
    /\ IF allowed THEN Goto(r, Handler(r)) ELSE Return(r, "audit", "error")
    /\ Quiet

(* An upload reads its body under the lock, a deprecation too, if it finds *)
(* the version.                                                            *)
AfterLock(r) ==
    CASE request[r].kind = "upload"    -> {"body"}
      [] request[r].kind = "deprecate" -> {"body", "work"}
      [] OTHER                         -> {"work"}

(* Mutant: only the handlers with a body take the lock of a holder into    *)
(* account.                                                                *)
LockShared(r) ==
    /\ At(r, "lock")
    /\ holder = Nobody \/ request[r].kind = "delete"
    /\ holder' = r
    /\ \E next \in AfterLock(r) : Goto(r, next)
    /\ UNCHANGED <<phase, clean, log, counts>>

Lock(r) ==
    /\ At(r, "lock")
    /\ holder = Nobody
    /\ holder' = r
    /\ \E next \in AfterLock(r) : Goto(r, next)
    /\ UNCHANGED <<phase, clean, log, counts>>

(* Mutant: an early return forgets the lock.                               *)
ReleasedLate(r) == holder

(* defer mutationMu.Unlock()                                               *)
Released(r) == IF holder = r THEN Nobody ELSE holder

(* The body has arrived; a deprecation takes what there is of it.          *)
BodyArrives(r) ==
    /\ At(r, "body")
    /\ Goto(r, "work")
    /\ Quiet

(* The client is gone or sends too much.                                   *)
BodyFails(r) ==
    /\ At(r, "body")
    /\ IF request[r].kind = "upload"
       THEN Return(r, "audit", "error") /\ holder' = Released(r)
       ELSE Goto(r, "work") /\ UNCHANGED holder
    /\ UNCHANGED <<phase, clean, log, counts>>

Work(r, status) ==
    /\ At(r, "work")
    /\ Return(r, IF request[r].kind \in Managed THEN "audit" ELSE "count", status)
    /\ holder' = IF holder = r THEN Nobody ELSE holder
    /\ UNCHANGED <<phase, clean, log, counts>>

(* AuditLog.Log, when the handler has returned.                            *)
Audit(r) ==
    /\ At(r, "audit")
    /\ log' = log \cup {<<r, request[r].status>>}
    /\ Goto(r, "count")
    /\ UNCHANGED <<phase, clean, holder, counts>>

(* metricsMiddleware counts the status; then the answer, which was held in *)
(* a buffer, is sent, or cannot be: WriteTimeout has passed by now.        *)
Count(r, late) ==
    /\ At(r, "count")
    /\ counts' = IF request[r].status = "ok" THEN [counts EXCEPT !.ok = counts.ok + 1]
                                             ELSE [counts EXCEPT !.err = counts.err + 1]
    /\ Goto(r, IF late THEN "lost" ELSE "answered")
    /\ UNCHANGED <<phase, clean, holder, log>>

-----------------------------------------------------------------------------
(* SIGTERM or SIGINT: the listener is closed.                              *)
Signal ==
    /\ phase = "up"
    /\ phase' = "draining"
    /\ UNCHANGED <<clean, request, holder, log, counts>>

(* Mutant: only the holder of the lock is waited for.                      *)
DrainedLock == holder = Nobody

(* srv.Shutdown waits until no connection has a request.                   *)
Drained == InFlight = {}

Stop ==
    /\ phase = "draining" /\ Drained
    /\ phase' = "exited"
    /\ clean' = TRUE
    /\ UNCHANGED <<request, holder, log, counts>>

(* Mutant: Shutdown gets a context without a deadline.                     *)
DeadlineNever == FALSE

(* 30 seconds have passed: os.Exit cuts off whatever is under way.         *)
Deadline == phase = "draining" /\ ~Drained

ForcedStop ==
    /\ Deadline
    /\ phase' = "exited"
    /\ request' = [r \in Requests |->
          IF r \in InFlight THEN [request[r] EXCEPT !.at = "cut"] ELSE request[r]]
    /\ holder' = Nobody
    /\ UNCHANGED <<clean, log, counts>>

-----------------------------------------------------------------------------
Init ==
    /\ phase = "up" /\ clean = FALSE
    /\ request = [r \in Requests |-> Unsent]
    /\ holder = Nobody
    /\ log = {}
    /\ counts = [total |-> 0, ok |-> 0, err |-> 0]

(* The steps that the server takes by itself once it can.                  *)
ServerStep(r) ==
    \/ \E allowed \in BOOLEAN : Limit(r, allowed) \/ Authorise(r, allowed)
    \/ \E status \in {"ok", "error"} : Work(r, status)
    \/ Audit(r)
    \/ \E late \in BOOLEAN : Count(r, late)

BodyEnds(r) == BodyArrives(r) \/ BodyFails(r)

Next ==
    \/ \E r \in Requests :
          \/ \E kind \in Asks[r] : Arrive(r, kind)
          \/ ServerStep(r) \/ Lock(r) \/ BodyEnds(r)
    \/ Signal \/ Stop \/ ForcedStop

(* Goroutines are scheduled; a sync.Mutex hands itself to a waiter that    *)
(* has waited for a millisecond; a client that does not stall finishes or  *)
(* gives up (tfreg after the ten minutes of its http.Client); the drain    *)
(* ends with the last request or with its context.                         *)
Fairness ==
    /\ \A r \in Requests : WF_vars(ServerStep(r)) /\ SF_vars(Lock(r))
    /\ \A r \in Requests \ Stalling : WF_vars(BodyEnds(r))
    /\ WF_vars(Stop \/ ForcedStop)

Spec == Init /\ [][Next]_vars /\ Fairness

-----------------------------------------------------------------------------
(* Properties *)

(* A client of the management API that gets an answer finds its request in *)
(* the audit log with the status it was given and no other, however        *)
(* requests interleave and even if the server is cut off right after.      *)
(* Requests refused by the rate limiter are the exception: they do not get *)
(* so far.  (The log is a set: an entry made twice would not be told.)     *)
AnsweredIsAudited ==
    \A r \in Requests :
        request[r].at = "answered" /\ request[r].kind \in Managed =>
            {e \in log : e[1] = r} =
                IF request[r].status = "limited" THEN {} ELSE {<<r, request[r].status>>}

(* A server that says it stopped cleanly has finished every request it had *)
(* accepted: none is cut off, and the counters add up to the requests.     *)
CleanStopFinishesAll ==
    clean => /\ \A r \in Requests : request[r].at \in Ended \cup {"unsent"}
             /\ counts.total = counts.ok + counts.err

StalledUpload == \E s \in Stalling : holder = s /\ request[s].at = "body"

(* Every request comes to its end, however many wait for the lock, unless  *)
(* the server stops first or a client that has stalled holds the lock:     *)
(* nothing takes it away from such a client.                               *)
RequestsEnd ==
    \A r \in Requests :
        r \in InFlight ~> (r \notin InFlight \/ StalledUpload)

(* What Terraform and the mirror ask for, and the lists of the management  *)
(* API, never wait for a mutation, not even for one that has stalled.      *)
ReadersNeverWait ==
    \A r \in Requests :
        (r \in InFlight /\ request[r].kind \in {"public", "list"}) ~> r \notin InFlight

(* A server that is told to stop does stop, stalled clients or not.        *)
ShutdownEnds == phase = "draining" ~> phase = "exited"
=============================================================================

---------------------------- MODULE RateLimiter ----------------------------
(***************************************************************************)
(* The per-client rate limiter of registry-server/middleware.go: buckets   *)
(* that are created at a client's first request, refilled only when the    *)
(* client comes back, and forgotten by a cleanup loop.                     *)
(*                                                                         *)
(* Tokens are counted in units of 1/Window, so that the refill of          *)
(* elapsed * rate / window tokens is a whole number of them; the rounding  *)
(* of float64 is left out.  rl.mu makes allow and cleanup single steps.    *)
(***************************************************************************)
EXTENDS Naturals

CONSTANTS
    Clients,     \* client addresses
    Rate,        \* rl.rate: tokens per window, and the size of a bucket
    Window,      \* rl.window, in ticks of the clock
    MaxTime      \* bound on the clock

(* main replaces a rate that is not positive.  It accepts a window of any  *)
(* sign; what follows is about windows that are positive.                  *)
ASSUME RateAssumption == Rate \in Nat \ {0}
ASSUME WindowAssumption == Window \in Nat \ {0}
ASSUME TimeAssumption == MaxTime \in Nat

VARIABLES
    now,         \* the clock
    visitors,    \* clients with an entry in rl.visitors
    tokens,      \* v.tokens, in units of 1/Window
    lastSeen,    \* v.lastSeen
    allowed,     \* what allow returned last
    (* history *)
    since,       \* since[ip]: the time from which requests are counted
    granted      \* granted[ip]: requests let pass since then

vars == <<now, visitors, tokens, lastSeen, allowed, since, granted>>

Capacity == Rate * Window

TypeOK ==
    /\ now \in 0..MaxTime
    /\ visitors \subseteq Clients
    /\ tokens \in [Clients -> 0..Capacity]
    /\ lastSeen \in [Clients -> 0..MaxTime]
    /\ allowed \in [Clients -> BOOLEAN]
    /\ since \in [Clients -> 0..MaxTime]
    /\ granted \in [Clients -> Nat]
    /\ \A ip \in Clients : lastSeen[ip] <= now /\ since[ip] <= now
    /\ \A ip \in Clients \ visitors : tokens[ip] = 0 /\ lastSeen[ip] = 0

-----------------------------------------------------------------------------
Elapsed(ip) == now - lastSeen[ip]

(* Mutant: the bucket may grow past its size.                              *)
RefilledUncapped(ip) == tokens[ip] + Elapsed(ip) * Rate

(* The tokens of a known client after the refill.                          *)
Refilled(ip) ==
    LET n == tokens[ip] + Elapsed(ip) * Rate
    IN  IF n > Capacity THEN Capacity ELSE n

(* allow stores what is left and answers.                                  *)
Leave(ip, n, ok) ==
    /\ tokens' = [tokens EXCEPT ![ip] = n]
    /\ lastSeen' = [lastSeen EXCEPT ![ip] = now]
    /\ allowed' = [allowed EXCEPT ![ip] = ok]
    /\ granted' = IF ok THEN [granted EXCEPT ![ip] = granted[ip] + 1] ELSE granted
    /\ UNCHANGED <<now, since>>

AllowNew(ip) ==
    /\ ip \notin visitors
    /\ visitors' = visitors \cup {ip}
    /\ Leave(ip, Capacity - Window, TRUE)

AllowKnown(ip) ==
    /\ ip \in visitors
    /\ Refilled(ip) >= Window
    /\ Leave(ip, Refilled(ip) - Window, TRUE)
    /\ UNCHANGED visitors

(* A request that is refused keeps the refill and costs nothing.           *)
Refuse(ip) ==
    /\ ip \in visitors
    /\ Refilled(ip) < Window
    /\ Leave(ip, Refilled(ip), FALSE)
    /\ UNCHANGED visitors

(* Mutant: a client is forgotten after half a window.                      *)
StaleEarly(ip) == Elapsed(ip) * 2 > Window

Stale(ip) == Elapsed(ip) > 2 * Window

(* The loop that forgets every client that has been away long enough.      *)
Cleanup ==
    LET gone == {ip \in visitors : Stale(ip)} IN
    /\ gone # {}
    /\ visitors' = visitors \ gone
    /\ tokens' = [ip \in Clients |-> IF ip \in gone THEN 0 ELSE tokens[ip]]
    /\ lastSeen' = [ip \in Clients |-> IF ip \in gone THEN 0 ELSE lastSeen[ip]]
    /\ UNCHANGED <<now, allowed, since, granted>>

Tick ==
    /\ now < MaxTime
    /\ now' = now + 1
    /\ UNCHANGED <<visitors, tokens, lastSeen, allowed, since, granted>>

(* History: the requests of a client are counted from any moment on.       *)
Observe(ip) ==
    /\ since' = [since EXCEPT ![ip] = now]
    /\ granted' = [granted EXCEPT ![ip] = 0]
    /\ UNCHANGED <<now, visitors, tokens, lastSeen, allowed>>

Init ==
    /\ now = 0
    /\ visitors = {}
    /\ tokens = [ip \in Clients |-> 0]
    /\ lastSeen = [ip \in Clients |-> 0]
    /\ allowed = [ip \in Clients |-> TRUE]
    /\ since = [ip \in Clients |-> 0]
    /\ granted = [ip \in Clients |-> 0]

Next ==
    \/ \E ip \in Clients : AllowNew(ip) \/ AllowKnown(ip) \/ Refuse(ip) \/ Observe(ip)
    \/ Cleanup \/ Tick

Spec == Init /\ [][Next]_vars

-----------------------------------------------------------------------------
(* Properties *)

(* From whatever moment one counts, a client gets at most Rate requests    *)
(* plus Rate for every window that has passed, however its requests, its   *)
(* pauses and the cleanup fall.                                            *)
BurstBound ==
    \A ip \in Clients : granted[ip] * Window <= Capacity + (now - since[ip]) * Rate

(* What is in the bucket of a client, whether or not it has an entry.      *)
Level(ip) == IF ip \in visitors THEN Refilled(ip) ELSE Capacity

Bucket == INSTANCE TokenBucket
          WITH level <- [ip \in Clients |-> Level(ip)], Cost <- Window

(* Refilling late and forgetting idle clients cannot be told from buckets  *)
(* that are never forgotten and gain tokens with every tick: a client that *)
(* is cleaned up had a full bucket, and one that is refused an empty one.  *)
IsTokenBucket == Bucket!Spec
=============================================================================

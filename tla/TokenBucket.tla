---------------------------- MODULE TokenBucket ----------------------------
(***************************************************************************)
(* What the rate limiter promises: every client has a bucket that is full  *)
(* at first, gains Rate units with every tick of the clock up to Capacity, *)
(* and gives Cost units to each request it lets pass.                      *)
(***************************************************************************)
EXTENDS Naturals

CONSTANTS Clients, Rate, Capacity, Cost

VARIABLES
    level,     \* level[ip]: what is in the bucket
    allowed    \* allowed[ip]: was the last request let pass

vars == <<level, allowed>>

Init ==
    /\ level = [ip \in Clients |-> Capacity]
    /\ allowed = [ip \in Clients |-> TRUE]

Refilled(n) == IF n + Rate > Capacity THEN Capacity ELSE n + Rate

Refill ==
    /\ level' = [ip \in Clients |-> Refilled(level[ip])]
    /\ UNCHANGED allowed

Pass(ip) ==
    /\ level[ip] >= Cost
    /\ level' = [level EXCEPT ![ip] = level[ip] - Cost]
    /\ allowed' = [allowed EXCEPT ![ip] = TRUE]

Deny(ip) ==
    /\ level[ip] < Cost
    /\ allowed' = [allowed EXCEPT ![ip] = FALSE]
    /\ UNCHANGED level

Next == Refill \/ \E ip \in Clients : Pass(ip) \/ Deny(ip)

Spec == Init /\ [][Next]_vars
=============================================================================

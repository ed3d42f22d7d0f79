------------------------- MODULE RateLimiterProofs -------------------------
(***************************************************************************)
(* For every rate, window and set of clients: the rate limiter is a token  *)
(* bucket, and no client gets more than the bucket allows over any span of *)
(* time.  Both rest on the fact that a client away for two windows has a   *)
(* full bucket.                                                            *)
(***************************************************************************)
EXTENDS RateLimiter, TLAPS

-----------------------------------------------------------------------------
(* Arithmetic *)

(* Capacity holds at least the cost of one request.                        *)
LEMMA CapacityType == Capacity \in Nat /\ Window <= Capacity
<1>1. \A r, w \in Nat \ {0} : r * w \in Nat /\ w <= r * w
  OBVIOUS
<1> QED  BY <1>1, RateAssumption, WindowAssumption DEF Capacity

(* One more tick is worth Rate units.                                      *)
LEMMA OneMoreTick == \A e \in Nat : /\ e * Rate \in Nat
                                    /\ (e + 1) * Rate = e * Rate + Rate
<1>1. \A r, e \in Nat : e * r \in Nat /\ (e + 1) * r = e * r + r
  OBVIOUS
<1> QED  BY <1>1, RateAssumption

(* One more request costs Window units.                                    *)
LEMMA OneMoreRequest == \A g \in Nat : /\ g * Window \in Nat
                                       /\ (g + 1) * Window = g * Window + Window
<1>1. \A w, g \in Nat : g * w \in Nat /\ (g + 1) * w = g * w + w
  OBVIOUS
<1> QED  BY <1>1, WindowAssumption

(* Two windows away from the registry fill any bucket.                     *)
LEMMA TwoWindowsFill == \A e \in Nat : e > 2 * Window => e * Rate >= Capacity
<1>1. \A r, w, e \in Nat : e >= w => e * r >= r * w
  OBVIOUS
<1>2. \A e \in Nat : e > 2 * Window => e >= Window
  BY WindowAssumption
<1> QED  BY <1>1, <1>2, RateAssumption, WindowAssumption DEF Capacity

-----------------------------------------------------------------------------
(* Types *)

(* The refilled bucket is between empty and full.                          *)
LEMMA RefilledType ==
    ASSUME TypeOK, NEW ip \in Clients
    PROVE  /\ Elapsed(ip) \in Nat
           /\ Elapsed(ip) * Rate \in Nat
           /\ Refilled(ip) \in 0..Capacity
<1>1. Elapsed(ip) \in Nat
  BY TimeAssumption DEF TypeOK, Elapsed
<1>2. Elapsed(ip) * Rate \in Nat
  BY <1>1, OneMoreTick
<1>3. tokens[ip] \in 0..Capacity
  BY DEF TypeOK
<1> QED  BY <1>1, <1>2, <1>3, CapacityType DEF Refilled

(* Every request, cleanup and tick keeps the types.                        *)
LEMMA TypeOKStep == TypeOK /\ [Next]_vars => TypeOK'
<1> SUFFICES ASSUME TypeOK, [Next]_vars PROVE TypeOK'
  OBVIOUS
<1> USE RateAssumption, WindowAssumption, TimeAssumption, CapacityType
<1>1. ASSUME NEW ip \in Clients, AllowNew(ip) PROVE TypeOK'
  <2>1. Capacity - Window \in 0..Capacity
    OBVIOUS
  <2> QED  BY <1>1, <2>1 DEF AllowNew, Leave, TypeOK
<1>2. ASSUME NEW ip \in Clients, AllowKnown(ip) PROVE TypeOK'
  <2>1. Refilled(ip) - Window \in 0..Capacity
    BY <1>2, RefilledType DEF AllowKnown
  <2> QED  BY <1>2, <2>1 DEF AllowKnown, Leave, TypeOK
<1>3. ASSUME NEW ip \in Clients, Refuse(ip) PROVE TypeOK'
  <2>1. Refilled(ip) \in 0..Capacity
    BY RefilledType
  <2> QED  BY <1>3, <2>1 DEF Refuse, Leave, TypeOK
<1>4. ASSUME NEW ip \in Clients, Observe(ip) PROVE TypeOK'
  BY <1>4 DEF Observe, TypeOK
<1>5. CASE Cleanup
  BY <1>5 DEF Cleanup, TypeOK
<1>6. CASE Tick
  BY <1>6 DEF Tick, TypeOK
<1>7. CASE UNCHANGED vars
  BY <1>7 DEF vars, TypeOK
<1> QED  BY <1>1, <1>2, <1>3, <1>4, <1>5, <1>6, <1>7 DEF Next

(* The initial state is well typed.                                        *)
LEMMA TypeOKInit == Init => TypeOK
BY CapacityType, TimeAssumption DEF Init, TypeOK

(* The types hold throughout: no bucket overflows or runs into debt, and   *)
(* no recorded time lies in the future.                                    *)
THEOREM LimiterTypeCorrect == Spec => []TypeOK
<1> QED  BY TypeOKInit, TypeOKStep, PTL DEF Spec

-----------------------------------------------------------------------------
(* The bucket behind the entry *)

(* A request leaves the level the bucket had, less its cost.               *)
LEMMA LevelAfterRequest ==
    ASSUME TypeOK, NEW ip \in Clients,
           AllowNew(ip) \/ AllowKnown(ip) \/ Refuse(ip)
    PROVE  /\ \A other \in Clients \ {ip} : Level(other)' = Level(other)
           /\ \/ /\ Level(ip) >= Window
                 /\ Level(ip)' = Level(ip) - Window
                 /\ allowed' = [allowed EXCEPT ![ip] = TRUE]
                 /\ granted' = [granted EXCEPT ![ip] = granted[ip] + 1]
              \/ /\ Level(ip) < Window
                 /\ Level(ip)' = Level(ip)
                 /\ allowed' = [allowed EXCEPT ![ip] = FALSE]
                 /\ granted' = granted
<1> USE RateAssumption, WindowAssumption, TimeAssumption, CapacityType
<1>1. PICK n \in 0..Capacity, ok \in BOOLEAN :
        /\ Leave(ip, n, ok)
        /\ visitors' = visitors \cup {ip}
        /\ \/ ok /\ Level(ip) >= Window /\ n = Level(ip) - Window
           \/ ~ok /\ Level(ip) < Window /\ n = Level(ip)
  <2>1. CASE AllowNew(ip)
    <3>1. Capacity - Window \in 0..Capacity
      OBVIOUS
    <3> QED  BY <2>1, <3>1 DEF AllowNew, Level
  <2>2. CASE AllowKnown(ip)
    <3>1. Refilled(ip) - Window \in 0..Capacity
      BY <2>2, RefilledType DEF AllowKnown
    <3>2. visitors' = visitors \cup {ip}
      BY <2>2 DEF AllowKnown
    <3> QED  BY <2>2, <3>1, <3>2 DEF AllowKnown, Level
  <2>3. CASE Refuse(ip)
    <3>1. Refilled(ip) \in 0..Capacity
      BY RefilledType
    <3>2. visitors' = visitors \cup {ip}
      BY <2>3 DEF Refuse
    <3> QED  BY <2>3, <3>1, <3>2 DEF Refuse, Level
  <2> QED  BY <2>1, <2>2, <2>3
<1>2. \A other \in Clients \ {ip} : Level(other)' = Level(other)
  BY <1>1 DEF Leave, Level, Refilled, Elapsed, TypeOK
<1>3. Level(ip)' = n
  <2>1. tokens'[ip] = n /\ lastSeen'[ip] = now /\ now' = now /\ ip \in visitors'
    BY <1>1 DEF Leave, TypeOK
  <2>2. now - now = 0 /\ 0 * Rate = 0
    BY DEF TypeOK
  <2>3. Elapsed(ip)' * Rate = 0
    BY <2>1, <2>2 DEF Elapsed
  <2> QED  BY <2>1, <2>3 DEF Level, Refilled
<1> QED  BY <1>1, <1>2, <1>3 DEF Leave

(* Forgetting idle clients changes no level.                               *)
LEMMA LevelAfterCleanup ==
    ASSUME TypeOK, Cleanup, NEW ip \in Clients
    PROVE  Level(ip)' = Level(ip)
<1> USE RateAssumption, WindowAssumption, TimeAssumption, CapacityType
<1>1. CASE ip \in visitors /\ Stale(ip)
  <2>1. Elapsed(ip) * Rate >= Capacity
    BY <1>1, RefilledType, TwoWindowsFill DEF Stale
  <2>2. tokens[ip] \in Nat
    BY DEF TypeOK
  <2>3. Refilled(ip) = Capacity
    BY <2>1, <2>2, RefilledType DEF Refilled
  <2>4. ip \notin visitors'
    BY <1>1 DEF Cleanup
  <2> QED  BY <1>1, <2>3, <2>4 DEF Level
<1>2. CASE ~(ip \in visitors /\ Stale(ip))
  BY <1>2 DEF Cleanup, Level, Refilled, Elapsed, Stale
<1> QED  BY <1>1, <1>2

(* A tick adds Rate to every level, up to the capacity.                    *)
LEMMA LevelAfterTick ==
    ASSUME TypeOK, Tick, NEW ip \in Clients
    PROVE  Level(ip)' = IF Level(ip) + Rate > Capacity THEN Capacity ELSE Level(ip) + Rate
<1> USE RateAssumption, WindowAssumption, TimeAssumption, CapacityType
<1>1. Elapsed(ip)' = Elapsed(ip) + 1
  BY DEF Tick, Elapsed, TypeOK
<1>2. Elapsed(ip)' * Rate = Elapsed(ip) * Rate + Rate
  BY <1>1, RefilledType, OneMoreTick
<1>3. tokens[ip] \in Nat /\ tokens' = tokens /\ visitors' = visitors
  BY DEF Tick, TypeOK
<1> QED  BY <1>2, <1>3, RefilledType DEF Level, Refilled

-----------------------------------------------------------------------------
(* The bound on bursts *)

(* What has been granted and what is left came from the bucket that was    *)
(* there at first and from the refills since.  BurstBound by itself does   *)
(* not say that the bucket pays for what it grants.                        *)
Balance ==
    \A ip \in Clients :
        Level(ip) + granted[ip] * Window <= Capacity + (now - since[ip]) * Rate

(* The level of a bucket is a number between zero and its capacity.        *)
LEMMA LevelType == ASSUME TypeOK, NEW ip \in Clients PROVE Level(ip) \in 0..Capacity
BY RefilledType, CapacityType DEF Level

(* The balance is kept.                                                    *)
LEMMA BalanceStep == TypeOK /\ TypeOK' /\ Balance /\ [Next]_vars => Balance'
<1> SUFFICES ASSUME TypeOK, TypeOK', Balance, [Next]_vars, NEW ip \in Clients
             PROVE  (Level(ip) + granted[ip] * Window
                        <= Capacity + (now - since[ip]) * Rate)'
  BY DEF Balance, Capacity
<1> USE RateAssumption, WindowAssumption, TimeAssumption, CapacityType
<1>1. /\ granted[ip] \in Nat /\ granted[ip] * Window \in Nat
      /\ now - since[ip] \in Nat /\ (now - since[ip]) * Rate \in Nat
      /\ Level(ip) \in 0..Capacity
      /\ Level(ip) + granted[ip] * Window <= Capacity + (now - since[ip]) * Rate
  <2>1. granted[ip] \in Nat /\ now - since[ip] \in Nat
    BY DEF TypeOK
  <2> QED  BY <2>1, OneMoreTick, OneMoreRequest, LevelType DEF Balance
<1>2. ASSUME NEW who \in Clients, AllowNew(who) \/ AllowKnown(who) \/ Refuse(who)
      PROVE  (Level(ip) + granted[ip] * Window
                 <= Capacity + (now - since[ip]) * Rate)'
  <2>1. now' = now /\ since' = since
    BY <1>2 DEF AllowNew, AllowKnown, Refuse, Leave
  <2>2. CASE who # ip
    <3>1. Level(ip)' = Level(ip)
      BY <1>2, <2>2, LevelAfterRequest
    <3>2. granted'[ip] = granted[ip]
      BY <1>2, <2>2, LevelAfterRequest DEF TypeOK
    <3> QED  BY <1>1, <2>1, <3>1, <3>2 DEF Capacity
  <2>3. CASE who = ip
    <3>1. \/ /\ Level(ip)' = Level(ip) - Window
             /\ granted'[ip] = granted[ip] + 1
          \/ Level(ip)' = Level(ip) /\ granted'[ip] = granted[ip]
      BY <1>2, <2>3, LevelAfterRequest DEF TypeOK
    <3>2. (granted[ip] + 1) * Window = granted[ip] * Window + Window
      BY <1>1, OneMoreRequest
    <3>3. Level(ip)' + granted'[ip] * Window = Level(ip) + granted[ip] * Window
      BY <1>1, <3>1, <3>2
    <3> QED  BY <1>1, <2>1, <3>3 DEF Capacity
  <2> QED  BY <2>2, <2>3
<1>3. ASSUME NEW who \in Clients, Observe(who)
      PROVE  (Level(ip) + granted[ip] * Window
                 <= Capacity + (now - since[ip]) * Rate)'
  <2>1. Level(ip)' = Level(ip) /\ now' = now
    BY <1>3 DEF Observe, Level, Refilled, Elapsed, Capacity
  <2>2. CASE who # ip
    <3>1. granted'[ip] = granted[ip] /\ since'[ip] = since[ip]
      BY <1>3, <2>2 DEF Observe, TypeOK
    <3> QED  BY <1>1, <2>1, <3>1 DEF Capacity
  <2>3. CASE who = ip
    <3>1. granted'[ip] = 0 /\ since'[ip] = now
      BY <1>3, <2>3 DEF Observe, TypeOK
    <3>2. 0 * Window = 0 /\ now - now = 0 /\ 0 * Rate = 0
      BY DEF TypeOK
    <3> QED  BY <1>1, <2>1, <3>1, <3>2 DEF Capacity
  <2> QED  BY <2>2, <2>3
<1>4. CASE Cleanup
  <2>1. now' = now /\ since' = since /\ granted' = granted
    BY <1>4 DEF Cleanup
  <2> QED  BY <1>1, <1>4, <2>1, LevelAfterCleanup DEF Capacity
<1>5. CASE Tick
  <2>1. now' = now + 1 /\ since' = since /\ granted' = granted
    BY <1>5 DEF Tick
  <2>2. now' - since'[ip] = (now - since[ip]) + 1
    BY <2>1 DEF TypeOK
  <2>3. (now' - since'[ip]) * Rate = (now - since[ip]) * Rate + Rate
    BY <1>1, <2>2, OneMoreTick
  <2>4. Level(ip)' <= Level(ip) + Rate
    BY <1>1, <1>5, LevelAfterTick
  <2>5. Level(ip)' \in Nat
    BY <1>1, <1>5, LevelAfterTick
  <2> QED  BY <1>1, <2>1, <2>3, <2>4, <2>5 DEF Capacity
<1>6. CASE UNCHANGED vars
  BY <1>1, <1>6 DEF vars, Level, Refilled, Elapsed, Capacity
<1> QED  BY <1>2, <1>3, <1>4, <1>5, <1>6 DEF Next

(* From whatever moment one counts, no client gets more than a full bucket *)
(* and the refills since: at most 2 * Rate requests in any one window.     *)
THEOREM BurstAlwaysBounded == Spec => []BurstBound
<1>1. Init => Balance
  <2> SUFFICES ASSUME Init, NEW ip \in Clients
               PROVE  Level(ip) + granted[ip] * Window
                         <= Capacity + (now - since[ip]) * Rate
    BY DEF Balance
  <2>1. Level(ip) = Capacity /\ granted[ip] = 0 /\ now - since[ip] = 0
    BY DEF Init, Level
  <2>2. 0 * Window = 0 /\ 0 * Rate = 0
    BY RateAssumption, WindowAssumption
  <2> QED  BY <2>1, <2>2, CapacityType
<1>2. TypeOK /\ Balance => BurstBound
  <2> SUFFICES ASSUME TypeOK, Balance, NEW ip \in Clients
               PROVE  granted[ip] * Window <= Capacity + (now - since[ip]) * Rate
    BY DEF BurstBound
  <2>1. granted[ip] \in Nat /\ now - since[ip] \in Nat
    BY TimeAssumption DEF TypeOK
  <2>2. granted[ip] * Window \in Nat /\ (now - since[ip]) * Rate \in Nat
    BY <2>1, OneMoreTick, OneMoreRequest
  <2> QED  BY <2>2, LevelType, CapacityType DEF Balance
<1> QED  BY <1>1, <1>2, BalanceStep, LimiterTypeCorrect, PTL DEF Spec

-----------------------------------------------------------------------------
(* The refinement *)

(* The map with late refills and a cleanup loop implements the buckets of  *)
(* TokenBucket: no client can tell the two apart by what it is answered.   *)
THEOREM LimiterIsTokenBucket == Spec => IsTokenBucket
<1>1. Init => Bucket!Init
  BY DEF Init, Bucket!Init, Level
<1>2. TypeOK /\ [Next]_vars => [Bucket!Next]_(Bucket!vars)
  <2> SUFFICES ASSUME TypeOK, [Next]_vars PROVE [Bucket!Next]_(Bucket!vars)
    OBVIOUS
  <2> DEFINE level == [ip \in Clients |-> Level(ip)]
  <2>1. ASSUME NEW ip \in Clients, AllowNew(ip) \/ AllowKnown(ip) \/ Refuse(ip)
        PROVE  Bucket!Next
    <3>1. CASE Level(ip) >= Window
      <4>1. /\ Level(ip)' = Level(ip) - Window
            /\ \A other \in Clients \ {ip} : Level(other)' = Level(other)
        BY <2>1, <3>1, LevelAfterRequest, LevelType, WindowAssumption, CapacityType
      <4>2. \A i \in Clients : Level(i)' = IF i = ip THEN Level(ip) - Window ELSE Level(i)
        BY <4>1
      <4>3. level' = [level EXCEPT ![ip] = level[ip] - Window]
        BY <4>2, Zenon
      <4>4. allowed' = [allowed EXCEPT ![ip] = TRUE]
        BY <2>1, <3>1, LevelAfterRequest, LevelType, WindowAssumption, CapacityType
      <4> QED  BY <3>1, <4>3, <4>4 DEF Bucket!Next, Bucket!Pass
    <3>2. CASE ~(Level(ip) >= Window)
      <4>1. Level(ip) < Window
        BY <3>2, LevelType, WindowAssumption, CapacityType
      <4>2. level' = level
        BY <2>1, <3>2, LevelAfterRequest, LevelType, WindowAssumption, CapacityType
      <4>3. allowed' = [allowed EXCEPT ![ip] = FALSE]
        BY <2>1, <3>2, LevelAfterRequest, LevelType, WindowAssumption, CapacityType
      <4> QED  BY <4>1, <4>2, <4>3 DEF Bucket!Next, Bucket!Deny
    <3> QED  BY <3>1, <3>2
  <2>2. ASSUME NEW ip \in Clients, Observe(ip) PROVE UNCHANGED Bucket!vars
    BY <2>2 DEF Observe, Bucket!vars, Level, Refilled, Elapsed, Capacity
  <2>3. CASE Cleanup
    <3>1. level' = level
      BY <2>3, LevelAfterCleanup
    <3> QED  BY <2>3, <3>1 DEF Cleanup, Bucket!vars
  <2>4. CASE Tick
    <3>1. level' = [ip \in Clients |-> Bucket!Refilled(level[ip])]
      BY <2>4, LevelAfterTick DEF Bucket!Refilled
    <3> QED  BY <2>4, <3>1 DEF Tick, Bucket!Next, Bucket!Refill
  <2>5. CASE UNCHANGED vars
    BY <2>5 DEF vars, Bucket!vars, Level, Refilled, Elapsed, Capacity
  <2> QED  BY <2>1, <2>2, <2>3, <2>4, <2>5 DEF Next
<1> QED  BY <1>1, <1>2, LimiterTypeCorrect, PTL DEF Spec, IsTokenBucket, Bucket!Spec
=============================================================================

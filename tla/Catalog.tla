------------------------------ MODULE Catalog ------------------------------
(***************************************************************************)
(* What the registry promises of its mutations, without the files that     *)
(* carry it.  The catalog says which content is published for each version *)
(* and platform.  One request works on it at a time.  While it does,       *)
(* readers may see its target as it was or as it shall be and nothing      *)
(* else; a request answered 200 leaves it as it shall be, a failed upload  *)
(* leaves it as it was, a failed delete leaves either the whole version or *)
(* nothing of it, and a request that is cut off leaves one of the two.     *)
(***************************************************************************)
CONSTANTS Versions, Platforms, Contents, None

VARIABLES
    cat,       \* cat[v][p]: the content published, or None
    busy,      \* the request under way
    answer     \* the class of the last answer

vars == <<cat, busy, answer>>

NoRow == [p \in Platforms |-> None]

UploadOf(v, p, c, old) == [kind |-> "upload", v |-> v, p |-> p, c |-> c, old |-> old]
DeleteOf(v, old) == [kind |-> "delete", v |-> v, p |-> None, c |-> None, old |-> old]
Nobody == [kind |-> "none", v |-> None, p |-> None, c |-> None, old |-> NoRow]

(* The row of the target once request b has succeeded.                     *)
Done(b) == IF b.kind = "upload" THEN [b.old EXCEPT ![b.p] = b.c] ELSE NoRow

-----------------------------------------------------------------------------
Init ==
    /\ cat \in [Versions -> [Platforms -> Contents \cup {None}]]
    /\ busy = Nobody
    /\ answer = "none"

(* The target of b is seen as it was or as it shall be.                    *)
Shows(b) == \E row \in {b.old, Done(b)} : cat' = [cat EXCEPT ![b.v] = row]

Requests(v) ==
    {DeleteOf(v, cat[v])}
    \cup {UploadOf(v, p, c, cat[v]) : p \in Platforms, c \in Contents}

Begin ==
    /\ busy = Nobody
    /\ answer' = "none"
    /\ \E v \in Versions : \E b \in Requests(v) : busy' = b /\ Shows(b)

Work ==
    /\ busy # Nobody
    /\ Shows(busy)
    /\ UNCHANGED <<busy, answer>>

Succeed ==
    /\ busy # Nobody
    /\ cat' = [cat EXCEPT ![busy.v] = Done(busy)]
    /\ busy' = Nobody
    /\ answer' = "ok"

Fail ==
    /\ busy # Nobody
    /\ IF busy.kind = "upload" THEN cat' = [cat EXCEPT ![busy.v] = busy.old]
                               ELSE Shows(busy)
    /\ busy' = Nobody
    /\ answer' = "error"

(* The server is killed.                                                   *)
Cut ==
    /\ busy' = Nobody
    /\ answer' = "none"
    /\ UNCHANGED cat

(* A request that is refused, or that publishes nothing.                   *)
Other ==
    /\ busy = Nobody
    /\ answer' \in {"ok", "error"}
    /\ UNCHANGED <<cat, busy>>

Next == Begin \/ Work \/ Succeed \/ Fail \/ Cut \/ Other

Spec == Init /\ [][Next]_vars
=============================================================================

------------------------- MODULE MCProviderSession -------------------------
(* A small instance of ProviderSession for TLC. *)
EXTENDS ProviderSession, TLC

CONSTANTS v1, p1, p2, c1, c2, s1

OneVersion   == {v1}
TwoPlatforms == {p1, p2}
TwoContents  == {c1, c2}
OneSession   == {s1}

(* The bound: archives of one platform, or archives with one content while *)
(* no kill inside a mutation has left its traces.                          *)
Stored == UNION {dir[v].zips : v \in Versions}

Bounded ==
    \/ \A a, b \in Stored : a[1] = b[1]
    \/ (\A a, b \in Stored : a[2] = b[2]) /\ suspect = {}

(* The metadata has told the client which archive to get.                  *)
Told(e) ==
    LET toCome == Requests[e.kind] IN
    \A i \in e.request..Len(toCome) : \A j \in DOMAIN toCome[i] :
        toCome[i][j] = "metadata" => i = e.request /\ j < e.step

(* What matters from now on.  No step depends on trash, litter or the last *)
(* answer, and no property of the sessions speaks of them.  Of what a      *)
(* session has seen the contents matter, and once it is told which one it  *)
(* is to get, that one.  What was acknowledged matters where a session     *)
(* begins; since sessions change nothing on the server, each state of the  *)
(* server is also reached while they are idle, with all beginnings there.  *)
Seen(e) == IF Told(e) THEN e.seen \cap {e.content} ELSE e.seen \ {None}

Promised == IF \A s \in Sessions : session[s].state = "idle" THEN acked ELSE NoFiles

View == <<dir, index, phase, todo, pc, req, [undo EXCEPT !.was = None], staged,
          faults, suspect, Promised,
          [s \in Sessions |-> [session[s] EXCEPT !.seen = Seen(session[s])]]>>

Symmetry == Permutations(Platforms) \cup Permutations(Contents)
=============================================================================

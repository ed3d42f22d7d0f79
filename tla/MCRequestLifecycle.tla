------------------------ MODULE MCRequestLifecycle ------------------------
(* A small instance of RequestLifecycle for TLC. *)
EXTENDS RequestLifecycle, TLC

CONSTANTS r1, r2, r3

ThreeRequests == {r1, r2, r3}
OneStalls     == {r1}

(* Two requests that may hold the lock for their body, two that may wait   *)
(* behind them, two that need no lock.                                     *)
MixedAsks == r1 :> {"upload", "deprecate"}
             @@ r2 :> {"upload", "list"}
             @@ r3 :> {"delete", "public"}
=============================================================================

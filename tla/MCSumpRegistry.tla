---------------------------- MODULE MCSumpRegistry ----------------------------
(* SumpRegistry for model checking: three paths to one namespace and one   *)
(* to another.                                                             *)
EXTENDS SumpRegistry, TLC

CONSTANTS b1, b2, b3, b4, u1, u2

UuidOfBdevs == b1 :> u1 @@ b2 :> u1 @@ b3 :> u1 @@ b4 :> u2

(* The three paths to one namespace are alike, and so are the threads. *)
Symmetry == Permutations({b1, b2, b3}) \cup Permutations(Threads)
===============================================================================

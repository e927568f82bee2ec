---------------------------- MODULE MCScheduler ----------------------------
(***************************************************************************)
(* Instances of the scheduler for TLC.  Lengths are in tokens; the bounds  *)
(* are explained in README.md.                                             *)
(***************************************************************************)
EXTENDS SchedulerInvariant, TLC

\* Three requests that together have as many tokens as two pages of four,
\* and need three such pages.
InputShort  == 1 :> 2 @@ 2 :> 1 @@ 3 :> 1
OutputShort == 1 :> 1 @@ 2 :> 2 @@ 3 :> 1

\* Two requests, the first of two chunks; together they need four pages of two.
Input2  == 1 :> 2 @@ 2 :> 1
Output2 == 1 :> 2 @@ 2 :> 3

\* b1 resizes the pool to two pages, b2 leaves the KV pool as it is.
Rebuilds2  == "b1" :> 2 @@ "b2" :> 0
Rebuilds1  == "b1" :> 2
NoRebuilds == [b \in {} |-> 0]

Symmetry == Permutations(Pages) \cup Permutations(Slots)

=============================================================================

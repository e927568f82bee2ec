--------------------------- MODULE MCServeManager ---------------------------
(* ServeManager on small instances. *)
EXTENDS ServeManagerInvariant, TLC

\* Processes are interchangeable, and so are models and callers.
Symmetry ==
    Permutations(Gens) \cup Permutations(Models) \cup Permutations(Callers)
=============================================================================

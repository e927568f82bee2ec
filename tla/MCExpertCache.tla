--------------------------- MODULE MCExpertCache ---------------------------
(***************************************************************************)
(* Instance of ExpertCache: three layers of two experts, so that the third *)
(* layer takes over the half of the first; six slots, so that two are above*)
(* the double buffer; a rebuild to three, too few for overlap.             *)
(***************************************************************************)
EXTENDS ExpertCacheInvariant

MCSizes == {3, 6}
MCRoutings == {[l \in 0 .. 2 |-> {0, 1}], [l \in 0 .. 2 |-> {l % 2}]}
=============================================================================

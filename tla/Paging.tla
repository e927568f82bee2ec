-------------------------------- MODULE Paging --------------------------------
(***************************************************************************)
(* Token sequences cut into pages: the arithmetic shared by PrefixStore    *)
(* and PrefixCache (align_down and div_ceil of freetoken/utils).           *)
(***************************************************************************)
EXTENDS Integers, Sequences, FiniteSets

CONSTANT PageSize   \* tokens per page

ASSUME PageSizeAssumption == PageSize \in Nat \ {0}

FullPages(s) == Len(s) \div PageSize
AllPages(s) == (Len(s) + PageSize - 1) \div PageSize

(* The tokens of s up to the end of its i-th page.                         *)
UpTo(s, i) == SubSeq(s, 1, IF i * PageSize <= Len(s) THEN i * PageSize
                                                     ELSE Len(s))

(* The sum of the values of f, none of which is negative.                  *)
Tally(f) == Cardinality(UNION {{x} \X (1 .. f[x]) : x \in DOMAIN f})
===============================================================================

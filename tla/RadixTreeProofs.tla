--------------------------- MODULE RadixTreeProofs ---------------------------
(***************************************************************************)
(* Lemmas about the operations of RadixTree, for every page size, every    *)
(* set of tokens T and every tree: what a walk finds, that a split changes *)
(* neither the map nor the counters, what locks, an insertion and an       *)
(* eviction change.  They are what PrefixCacheProofs is built from.        *)
(***************************************************************************)
EXTENDS RadixTree, FiniteSetTheorems, SequenceTheorems, TLAPS

-----------------------------------------------------------------------------
(* Division by the page size, and sequences cut at page ends.              *)

LEMMA DivFact ==
    ASSUME NEW n \in Nat
    PROVE  /\ n \div PageSize \in Nat
           /\ (n \div PageSize) * PageSize <= n
           /\ n < (n \div PageSize) * PageSize + PageSize
  BY PageSizeAssumption, SMTT(30)

LEMMA DivMul ==
    ASSUME NEW i \in Nat
    PROVE  (i * PageSize) \div PageSize = i
  BY PageSizeAssumption, SMTT(30)

LEMMA MulMonotonic ==
    ASSUME NEW i \in Nat, NEW j \in Nat
    PROVE  /\ i * PageSize \in Nat
           /\ i <= j <=> i * PageSize <= j * PageSize
           /\ i * PageSize = j * PageSize => i = j
  BY PageSizeAssumption, SMTT(30)

LEMMA FullPagesFact ==
    ASSUME NEW T, NEW s \in Seq(T), NEW i \in Nat
    PROVE  /\ FullPages(s) \in Nat
           /\ AllPages(s) \in Nat
           /\ FullPages(s) <= AllPages(s)
           /\ FullPages(s) * PageSize <= Len(s)
           /\ i <= FullPages(s) <=> i * PageSize <= Len(s)
           /\ Len(s) = FullPages(s) * PageSize => AllPages(s) = FullPages(s)
  <1>1. Len(s) \in Nat /\ Len(s) + PageSize - 1 \in Nat
    BY PageSizeAssumption, LenProperties
  <1>2. /\ FullPages(s) \in Nat
        /\ FullPages(s) * PageSize <= Len(s)
        /\ Len(s) < FullPages(s) * PageSize + PageSize
    BY <1>1, DivFact DEF FullPages
  <1>3. /\ AllPages(s) \in Nat
        /\ AllPages(s) * PageSize <= Len(s) + PageSize - 1
        /\ Len(s) + PageSize - 1 < AllPages(s) * PageSize + PageSize
    BY <1>1, DivFact DEF AllPages
  <1>4. FullPages(s) <= AllPages(s)
    BY <1>1, <1>2, <1>3, PageSizeAssumption, SMTT(30)
  <1>5. i <= FullPages(s) <=> i * PageSize <= Len(s)
    BY <1>1, <1>2, PageSizeAssumption, SMTT(30)
  <1>6. Len(s) = FullPages(s) * PageSize => AllPages(s) = FullPages(s)
    BY <1>1, <1>2, <1>3, PageSizeAssumption, SMTT(30)
  <1> QED BY <1>2, <1>3, <1>4, <1>5, <1>6

-----------------------------------------------------------------------------
(* Token sequences cut at page ends.                                       *)

LEMMA SubSeqFact ==
    ASSUME NEW T, NEW s \in Seq(T), NEW n \in Nat, n <= Len(s)
    PROVE  /\ SubSeq(s, 1, n) \in Seq(T)
           /\ Len(SubSeq(s, 1, n)) = n
           /\ \A k \in 1 .. n : SubSeq(s, 1, n)[k] = s[k]
  BY SMTT(30)

LEMMA UpToFact ==
    ASSUME NEW T, NEW s \in Seq(T), NEW i \in Nat
    PROVE  /\ UpTo(s, i) \in Seq(T)
           /\ i <= FullPages(s) => /\ UpTo(s, i) = SubSeq(s, 1, i * PageSize)
                                  /\ Len(UpTo(s, i)) = i * PageSize
                                  /\ FullPages(UpTo(s, i)) = i
  <1>1. Len(s) \in Nat /\ i * PageSize \in Nat
    BY LenProperties, MulMonotonic
  <1>2. UpTo(s, i) \in Seq(T)
    BY <1>1, SubSeqFact DEF UpTo
  <1>3. ASSUME i <= FullPages(s)
        PROVE  /\ UpTo(s, i) = SubSeq(s, 1, i * PageSize)
               /\ Len(UpTo(s, i)) = i * PageSize
               /\ FullPages(UpTo(s, i)) = i
    <2>1. i * PageSize <= Len(s)
      BY <1>3, FullPagesFact
    <2>2. UpTo(s, i) = SubSeq(s, 1, i * PageSize)
      BY <2>1 DEF UpTo
    <2>3. Len(UpTo(s, i)) = i * PageSize
      BY <1>1, <2>1, <2>2, SubSeqFact
    <2> QED BY <2>2, <2>3, DivMul DEF FullPages
  <1> QED BY <1>2, <1>3

LEMMA SubSeqSubSeq ==
    ASSUME NEW T, NEW s \in Seq(T), NEW m \in Nat, NEW n \in Nat,
           n <= m, m <= Len(s)
    PROVE  SubSeq(SubSeq(s, 1, m), 1, n) = SubSeq(s, 1, n)
  BY SMTT(30)

LEMMA UpToUpTo ==
    ASSUME NEW T, NEW s \in Seq(T), NEW i \in Nat, NEW j \in Nat,
           j <= i, i <= FullPages(s)
    PROVE  UpTo(UpTo(s, i), j) = UpTo(s, j)
  <1>1. j <= FullPages(s)
    BY FullPagesFact
  <1>2. /\ UpTo(s, i) \in Seq(T) /\ FullPages(UpTo(s, i)) = i
        /\ UpTo(s, i) = SubSeq(s, 1, i * PageSize)
        /\ UpTo(s, j) = SubSeq(s, 1, j * PageSize)
    BY <1>1, UpToFact
  <1>3. UpTo(UpTo(s, i), j) = SubSeq(SubSeq(s, 1, i * PageSize), 1, j * PageSize)
    BY <1>2, UpToFact
  <1>4. /\ i * PageSize \in Nat /\ j * PageSize \in Nat
        /\ j * PageSize <= i * PageSize /\ i * PageSize <= Len(s)
    BY FullPagesFact, MulMonotonic
  <1> QED BY <1>2, <1>3, <1>4, SubSeqSubSeq

LEMMA EmptyFact ==
    ASSUME NEW T
    PROVE  /\ << >> \in Seq(T)
           /\ FullPages(<< >>) = 0 /\ AllPages(<< >>) = 0
           /\ Len(<< >>) = FullPages(<< >>) * PageSize
  <1>1. << >> \in Seq(T) /\ Len(<< >>) = 0
    OBVIOUS
  <1>2. 0 \div PageSize = 0 /\ 0 * PageSize = 0
    BY DivMul, PageSizeAssumption, SMTT(30)
  <1>3. FullPages(<< >>) = 0
    BY <1>1, <1>2 DEF FullPages
  <1> QED BY <1>1, <1>2, <1>3, FullPagesFact

-----------------------------------------------------------------------------
(* Prefixes.                                                               *)

LEMMA PrefixFact ==
    ASSUME NEW T, NEW a \in Seq(T), NEW b \in Seq(T)
    PROVE  /\ Len(a) \in Nat /\ Len(b) \in Nat
           /\ IsPrefix(a, b) <=> /\ Len(a) <= Len(b)
                                 /\ \A i \in 1 .. Len(a) : a[i] = b[i]
           /\ a = b <=> /\ Len(a) = Len(b)
                        /\ \A i \in 1 .. Len(a) : a[i] = b[i]
  <1>1. Len(a) \in Nat /\ Len(b) \in Nat
    BY LenProperties
  <1>2. a = b <=> Len(a) = Len(b) /\ \A i \in 1 .. Len(a) : a[i] = b[i]
    BY SeqEqual
  <1>3. SubSeq(a, 1, Len(a)) = a
    BY <1>1, SubSeqFact, SeqEqual
  <1>4. ASSUME Len(a) <= Len(b)
        PROVE  a = SubSeq(b, 1, Len(a)) <=> \A i \in 1 .. Len(a) : a[i] = b[i]
    <2>1. /\ SubSeq(b, 1, Len(a)) \in Seq(T)
          /\ Len(SubSeq(b, 1, Len(a))) = Len(a)
          /\ \A k \in 1 .. Len(a) : SubSeq(b, 1, Len(a))[k] = b[k]
      BY <1>1, <1>4, SubSeqFact
    <2> QED BY <2>1, SeqEqual
  <1> QED BY <1>1, <1>2, <1>3, <1>4 DEF IsPrefix

LEMMA PrefixRefl ==
    ASSUME NEW T, NEW a \in Seq(T)
    PROVE  IsPrefix(a, a)
  BY PrefixFact

LEMMA PrefixTrans ==
    ASSUME NEW T, NEW a \in Seq(T), NEW b \in Seq(T), NEW c \in Seq(T),
           IsPrefix(a, b), IsPrefix(b, c)
    PROVE  IsPrefix(a, c)
  <1>1. /\ Len(a) \in Nat /\ Len(b) \in Nat /\ Len(c) \in Nat
        /\ Len(a) <= Len(b) /\ Len(b) <= Len(c)
        /\ \A i \in 1 .. Len(a) : a[i] = b[i]
        /\ \A i \in 1 .. Len(b) : b[i] = c[i]
    BY PrefixFact
  <1>2. Len(a) <= Len(c) /\ \A i \in 1 .. Len(a) : a[i] = c[i]
    BY <1>1
  <1> QED BY <1>2, PrefixFact

LEMMA PrefixLen ==
    ASSUME NEW T, NEW a \in Seq(T), NEW b \in Seq(T), IsPrefix(a, b)
    PROVE  /\ Len(a) \in Nat /\ Len(b) \in Nat
           /\ Len(a) <= Len(b)
           /\ Len(a) = Len(b) <=> a = b
  BY PrefixFact

LEMMA PrefixAntisym ==
    ASSUME NEW T, NEW a \in Seq(T), NEW b \in Seq(T),
           IsPrefix(a, b), IsPrefix(b, a)
    PROVE  a = b
  BY PrefixLen

(* The prefixes of one sequence are a chain.                               *)
LEMMA PrefixChain ==
    ASSUME NEW T, NEW a \in Seq(T), NEW b \in Seq(T), NEW c \in Seq(T),
           IsPrefix(a, c), IsPrefix(b, c), Len(a) <= Len(b)
    PROVE  IsPrefix(a, b)
  <1>1. /\ Len(a) \in Nat /\ Len(b) \in Nat
        /\ \A i \in 1 .. Len(a) : a[i] = c[i]
        /\ \A i \in 1 .. Len(b) : b[i] = c[i]
    BY PrefixFact
  <1>2. \A i \in 1 .. Len(a) : a[i] = b[i]
    BY <1>1
  <1> QED BY <1>2, PrefixFact

LEMMA EmptyPrefix ==
    ASSUME NEW T, NEW a \in Seq(T)
    PROVE  /\ << >> \in Seq(T) /\ Whole(<< >>)
           /\ IsPrefix(<< >>, a)
           /\ IsPrefix(a, << >>) => a = << >>
           /\ FullPages(a) = 0 /\ Whole(a) => a = << >>
  <1>1. << >> \in Seq(T) /\ Len(<< >>) = 0 /\ Whole(<< >>)
    BY EmptyFact DEF Whole
  <1>2. FullPages(a) = 0 /\ Whole(a) => a = << >>
    <2>1. 0 * PageSize = 0
      BY PageSizeAssumption, SMTT(30)
    <2> QED BY <2>1, EmptySeq DEF Whole
  <1>3. IsPrefix(<< >>, a)
    <2>1. PICK e \in Seq(T) : e = << >>
      BY <1>1
    <2>2. Len(a) \in Nat /\ Len(e) = 0
      BY <1>1, <2>1, LenProperties
    <2>3. Len(e) <= Len(a) /\ \A i \in 1 .. Len(e) : e[i] = a[i]
      BY <2>2
    <2>4. IsPrefix(e, a)
      BY <2>3, PrefixFact
    <2> QED BY <2>1, <2>4
  <1>4. IsPrefix(a, << >>) => a = << >>
    BY <1>1, <1>3, PrefixAntisym
  <1> QED BY <1>1, <1>2, <1>3, <1>4

(* The whole prefixes of s are its UpTo(s, i), and i tells them apart.     *)
LEMMA UpToPrefix ==
    ASSUME NEW T, NEW s \in Seq(T), NEW i \in Nat, i <= FullPages(s)
    PROVE  /\ UpTo(s, i) \in Seq(T)
           /\ IsPrefix(UpTo(s, i), s)
           /\ Whole(UpTo(s, i))
           /\ FullPages(UpTo(s, i)) = i
           /\ Len(UpTo(s, i)) = i * PageSize
           /\ i = 0 <=> UpTo(s, i) = << >>
  <1>1. /\ UpTo(s, i) \in Seq(T)
        /\ UpTo(s, i) = SubSeq(s, 1, i * PageSize)
        /\ Len(UpTo(s, i)) = i * PageSize
        /\ FullPages(UpTo(s, i)) = i
    BY UpToFact
  <1>2. i * PageSize \in Nat /\ i * PageSize <= Len(s)
    BY MulMonotonic, FullPagesFact
  <1>3. \A k \in 1 .. i * PageSize : UpTo(s, i)[k] = s[k]
    BY <1>1, <1>2, SubSeqFact
  <1>4. IsPrefix(UpTo(s, i), s)
    BY <1>1, <1>2, <1>3, PrefixFact
  <1>5. i = 0 <=> UpTo(s, i) = << >>
    BY <1>1, EmptyPrefix, EmptyFact DEF Whole
  <1> QED BY <1>1, <1>4, <1>5 DEF Whole

LEMMA WholePrefix ==
    ASSUME NEW T, NEW s \in Seq(T), NEW k \in Seq(T), Whole(k), IsPrefix(k, s)
    PROVE  /\ FullPages(k) \in Nat
           /\ FullPages(k) <= FullPages(s)
           /\ k = UpTo(s, FullPages(k))
  <1>1. FullPages(k) \in Nat /\ Len(k) <= Len(s) /\ Len(k) \in Nat
    BY FullPagesFact, PrefixFact
  <1>2. FullPages(k) <= FullPages(s)
    BY <1>1, FullPagesFact DEF Whole
  <1>3. UpTo(s, FullPages(k)) \in Seq(T) /\ IsPrefix(UpTo(s, FullPages(k)), s)
        /\ Len(UpTo(s, FullPages(k))) = Len(k)
    BY <1>1, <1>2, UpToPrefix DEF Whole
  <1>4. IsPrefix(k, UpTo(s, FullPages(k)))
    BY <1>1, <1>3, PrefixChain
  <1> QED BY <1>1, <1>2, <1>3, <1>4, PrefixLen

(* Whole sequences are ordered by their pages as by their lengths.         *)
LEMMA WholeOrder ==
    ASSUME NEW T, NEW a \in Seq(T), NEW b \in Seq(T), Whole(a), Whole(b)
    PROVE  /\ FullPages(a) \in Nat /\ FullPages(b) \in Nat
           /\ Len(a) \in Nat /\ Len(b) \in Nat
           /\ FullPages(a) <= FullPages(b) <=> Len(a) <= Len(b)
           /\ FullPages(a) = FullPages(b) <=> Len(a) = Len(b)
  <1>1. /\ FullPages(a) \in Nat /\ FullPages(b) \in Nat
        /\ Len(a) \in Nat /\ Len(b) \in Nat
    BY FullPagesFact, LenProperties
  <1> QED BY <1>1, MulMonotonic DEF Whole

(* The shape the proofs use: among the whole prefixes of a sequence.       *)
LEMMA WholeChain ==
    ASSUME NEW T, NEW a \in Seq(T), NEW b \in Seq(T), NEW c \in Seq(T),
           Whole(a), Whole(b), IsPrefix(a, c), IsPrefix(b, c)
    PROVE  /\ IsPrefix(a, b) <=> FullPages(a) <= FullPages(b)
           /\ a = b <=> FullPages(a) = FullPages(b)
           /\ IsStrictPrefix(a, b) <=> FullPages(a) < FullPages(b)
  <1>1. /\ FullPages(a) \in Nat /\ FullPages(b) \in Nat
        /\ Len(a) \in Nat /\ Len(b) \in Nat
        /\ FullPages(a) <= FullPages(b) <=> Len(a) <= Len(b)
        /\ FullPages(a) = FullPages(b) <=> Len(a) = Len(b)
    BY WholeOrder
  <1>2. IsPrefix(a, b) <=> Len(a) <= Len(b)
    BY PrefixChain, PrefixFact
  <1>3. a = b <=> Len(a) = Len(b)
    <2>1. Len(a) = Len(b) => IsPrefix(a, b)
      BY <1>1, <1>2
    <2> QED BY <2>1, PrefixLen
  <1> QED BY <1>1, <1>2, <1>3 DEF IsStrictPrefix

-----------------------------------------------------------------------------
(* Finite sets and sums.                                                   *)

(* A set of numbers that has 0, an upper bound, and with a number all that *)
(* are below it, has a greatest element: otherwise the successor would be  *)
(* an injection of the set into itself that misses 0.                      *)
LEMMA Greatest ==
    ASSUME NEW N \in Nat, NEW I \in SUBSET (0 .. N), 0 \in I,
           \A i \in I : \A j \in 0 .. i : j \in I
    PROVE  \E i \in I : \A j \in I : j <= i
  <1> SUFFICES ASSUME \A i \in I : \E j \in I : ~ (j <= i)
               PROVE  FALSE
    OBVIOUS
  <1>1. IsFiniteSet(I)
    BY FS_BoundedSetOfNaturals
  <1>2. \A i \in I : i + 1 \in I
    <2> TAKE i \in I
    <2>1. PICK j \in I : ~ (j <= i)
      OBVIOUS
    <2>2. i + 1 \in 0 .. j
      BY <2>1
    <2> QED BY <2>2
  <1> DEFINE f == [i \in I |-> i + 1]
  <1>3. f \in Injection(I, I)
    <2>1. f \in [I -> I]
      BY <1>2
    <2>2. \A i, j \in I : f[i] = f[j] => i = j
      <3> TAKE i, j \in I
      <3>1. i \in Nat /\ j \in Nat /\ f[i] = i + 1 /\ f[j] = j + 1
        OBVIOUS
      <3> QED BY <3>1
    <2> HIDE DEF f
    <2>3. DOMAIN f = I
      BY <2>1
    <2> QED BY <2>1, <2>2, <2>3 DEF Injection, IsInjective
  <1>4. f \in Surjection(I, I)
    BY <1>1, <1>3, FS_Injection
  <1>5. PICK i \in I : f[i] = 0
    BY <1>4 DEF Surjection
  <1> QED BY <1>5

LEMMA CardinalNat ==
    ASSUME NEW S, IsFiniteSet(S)
    PROVE  Cardinality(S) \in Nat
  BY FS_CardinalityType

LEMMA DisjointUnion ==
    ASSUME NEW A, NEW B, IsFiniteSet(A), IsFiniteSet(B), A \cap B = {}
    PROVE  /\ IsFiniteSet(A \cup B)
           /\ Cardinality(A \cup B) = Cardinality(A) + Cardinality(B)
  <1>1. /\ IsFiniteSet(A \cup B)
        /\ Cardinality(A \cup B) = Cardinality(A) + Cardinality(B) - 0
    BY FS_Union, FS_EmptySet
  <1>2. Cardinality(A) \in Nat /\ Cardinality(B) \in Nat
    BY CardinalNat
  <1> QED BY <1>1, <1>2

(* The pairs that Tally counts.                                            *)
Column(f, x) == {x} \X (1 .. f[x])
Columns(f) == UNION {Column(f, x) : x \in DOMAIN f}

LEMMA TallyDef == \A f : Tally(f) = Cardinality(Columns(f))
  BY DEF Tally, Columns, Column

LEMMA ColumnFact ==
    ASSUME NEW f, NEW x, f[x] \in Nat
    PROVE  /\ IsFiniteSet(Column(f, x))
           /\ Cardinality(Column(f, x)) = f[x]
  <1> PICK n \in Nat : n = f[x]
    OBVIOUS
  <1>1. IsFiniteSet(1 .. n) /\ Cardinality(1 .. n) = n
    <2>0. n \in Nat
      OBVIOUS
    <2>1. 1 \in Int /\ n \in Int
      OBVIOUS
    <2>2. /\ IsFiniteSet(1 .. n)
          /\ Cardinality(1 .. n) = IF 1 > n THEN 0 ELSE n - 1 + 1
      BY ONLY <2>1, FS_Interval
    <2>3. n \in Nat => (IF 1 > n THEN 0 ELSE n - 1 + 1) = n
      OBVIOUS
    <2> QED BY <2>0, <2>2, <2>3
  <1> DEFINE g == [i \in 1 .. n |-> <<x, i>>]
  <1>2. g \in Bijection(1 .. n, {x} \X (1 .. n))
    BY DEF Bijection, Injection, Surjection, IsInjective
  <1>3. ExistsBijection(1 .. n, {x} \X (1 .. n))
    BY <1>2 DEF ExistsBijection
  <1> QED BY <1>1, <1>3, FS_Bijection DEF Column

LEMMA ColumnsFinite ==
    ASSUME NEW D, IsFiniteSet(D), NEW f \in [D -> Nat]
    PROVE  IsFiniteSet(Columns(f))
  <1> DEFINE g == [x \in D |-> Column(f, x)]
             S == {Column(f, x) : x \in D}
  <1>1. g \in Surjection(D, S)
    BY DEF Surjection
  <1>2. IsFiniteSet(S)
    BY <1>1, FS_Surjection
  <1>3. \A A \in S : IsFiniteSet(A)
    BY ColumnFact
  <1> QED BY <1>2, <1>3, FS_UNION DEF Columns

LEMMA TallyNat ==
    ASSUME NEW D, IsFiniteSet(D), NEW f \in [D -> Nat]
    PROVE  Tally(f) \in Nat
  BY ColumnsFinite, CardinalNat, TallyDef

LEMMA TallyEmpty == \A f : DOMAIN f = {} => Tally(f) = 0
  BY TallyDef, FS_EmptySet DEF Columns

(* The sum over two disjoint parts of a domain.                            *)
LEMMA TallyUnion ==
    ASSUME NEW A, NEW B, IsFiniteSet(A), IsFiniteSet(B), A \cap B = {},
           NEW f \in [A \cup B -> Nat],
           NEW g, g = [x \in A |-> f[x]], NEW h, h = [x \in B |-> f[x]]
    PROVE  Tally(f) = Tally(g) + Tally(h)
  <1>1. g \in [A -> Nat] /\ h \in [B -> Nat]
    OBVIOUS
  <1>2. IsFiniteSet(Columns(g)) /\ IsFiniteSet(Columns(h))
    BY <1>1, ColumnsFinite
  <1>3. Columns(f) = Columns(g) \cup Columns(h)
    BY <1>1 DEF Columns, Column
  <1>4. Columns(g) \cap Columns(h) = {}
    BY <1>1 DEF Columns, Column
  <1> QED BY <1>2, <1>3, <1>4, DisjointUnion, TallyDef

LEMMA TallyOne ==
    ASSUME NEW x, NEW f, DOMAIN f = {x}, f[x] \in Nat
    PROVE  Tally(f) = f[x]
  <1>1. Columns(f) = Column(f, x)
    BY DEF Columns
  <1> QED BY <1>1, ColumnFact, TallyDef

(* One element taken out of the sum.                                       *)
LEMMA TallyAt ==
    ASSUME NEW D, IsFiniteSet(D), NEW x \in D, NEW f \in [D -> Nat],
           NEW g, g = [y \in D \ {x} |-> f[y]]
    PROVE  /\ Tally(g) \in Nat /\ f[x] \in Nat
           /\ Tally(f) = f[x] + Tally(g)
  <1>1. IsFiniteSet(D \ {x}) /\ IsFiniteSet({x})
    BY FS_Difference, FS_Singleton
  <1>2. D = {x} \cup (D \ {x}) /\ {x} \cap (D \ {x}) = {}
    OBVIOUS
  <1>3. PICK h : h = [y \in {x} |-> f[y]]
    OBVIOUS
  <1>4. f \in [{x} \cup (D \ {x}) -> Nat]
    BY <1>2
  <1>5. Tally(f) = Tally(h) + Tally(g)
    BY <1>1, <1>2, <1>3, <1>4, TallyUnion
  <1>6. Tally(h) = f[x]
    <2>1. DOMAIN h = {x} /\ h[x] = f[x] /\ h[x] \in Nat
      BY <1>3
    <2> QED BY <2>1, TallyOne
  <1>7. Tally(g) \in Nat
    <2>1. g \in [D \ {x} -> Nat]
      OBVIOUS
    <2> QED BY <1>1, <2>1, TallyNat
  <1> QED BY <1>5, <1>6, <1>7

(* A sum is monotonic, and adds up.                                        *)
LEMMA TallyMonotonic ==
    ASSUME NEW D, IsFiniteSet(D), NEW C \in SUBSET D,
           NEW f \in [C -> Nat], NEW g \in [D -> Nat],
           \A x \in C : f[x] <= g[x]
    PROVE  Tally(f) <= Tally(g)
  <1>1. IsFiniteSet(Columns(g))
    BY ColumnsFinite
  <1>2. Columns(f) \subseteq Columns(g)
    <2> SUFFICES ASSUME NEW x \in C PROVE Column(f, x) \subseteq Column(g, x)
      BY DEF Columns
    <2>1. f[x] \in Nat /\ g[x] \in Nat /\ f[x] <= g[x]
      OBVIOUS
    <2>2. 1 .. f[x] \subseteq 1 .. g[x]
      BY <2>1
    <2> QED BY <2>2 DEF Column
  <1> QED BY <1>1, <1>2, FS_Subset, TallyDef

(* The cells of the columns of f, one by one.                              *)
LEMMA ColumnsAre ==
    ASSUME NEW D, NEW f \in [D -> Nat], NEW e
    PROVE  e \in Columns(f) <=> \E x \in D : \E i \in 1 .. f[x] : e = <<x, i>>
  BY DEF Columns, Column

(* Two sums that fit in a third one, element by element.                   *)
LEMMA TallyPlus ==
    ASSUME NEW D, IsFiniteSet(D), NEW f \in [D -> Nat], NEW g \in [D -> Nat],
           NEW h \in [D -> Nat], \A x \in D : f[x] + g[x] <= h[x]
    PROVE  Tally(f) + Tally(g) <= Tally(h)
  <1>1. /\ \A e : e \in Columns(f) <=> \E x \in D : \E i \in 1 .. f[x] : e = <<x, i>>
        /\ \A e : e \in Columns(g) <=> \E x \in D : \E i \in 1 .. g[x] : e = <<x, i>>
        /\ \A e : e \in Columns(h) <=> \E x \in D : \E i \in 1 .. h[x] : e = <<x, i>>
    BY ColumnsAre
  <1>2. IsFiniteSet(Columns(f)) /\ IsFiniteSet(Columns(g)) /\ IsFiniteSet(Columns(h))
    BY ColumnsFinite
  <1>3. PICK above : above = Columns(h) \ Columns(f)
    OBVIOUS
  <1>4. PICK lift : lift = [e \in Columns(g) |-> <<e[1], f[e[1]] + e[2]>>]
    OBVIOUS
  <1>5. \A x \in D : f[x] \in Nat /\ g[x] \in Nat /\ h[x] \in Nat /\ f[x] + g[x] <= h[x]
    OBVIOUS
  <1>6. Columns(f) \subseteq Columns(h)
    <2> SUFFICES ASSUME NEW x \in D, NEW i \in 1 .. f[x] PROVE <<x, i>> \in Columns(h)
      BY <1>1
    <2>1. i \in 1 .. h[x]
      BY <1>5
    <2> QED BY <1>1, <2>1
  <1>7. \A x \in D : \A i \in 1 .. g[x] : lift[<<x, i>>] = <<x, f[x] + i>>
    BY <1>1, <1>4
  <1>8. ASSUME NEW x \in D, NEW i \in 1 .. g[x] PROVE <<x, f[x] + i>> \in above
    <2>1. f[x] + i \in 1 .. h[x] /\ f[x] + i \notin 1 .. f[x]
      BY <1>5
    <2> QED BY <1>1, <1>3, <2>1
  <1>9. lift \in Injection(Columns(g), above)
    <2>1. lift \in [Columns(g) -> above]
      <3>1. \A e \in Columns(g) : lift[e] \in above
        BY <1>1, <1>7, <1>8
      <3> QED BY <1>4, <3>1
    <2>2. ASSUME NEW x \in D, NEW i \in 1 .. g[x], NEW y \in D, NEW j \in 1 .. g[y],
                 lift[<<x, i>>] = lift[<<y, j>>]
          PROVE  <<x, i>> = <<y, j>>
      <3>1. <<x, f[x] + i>> = <<y, f[y] + j>>
        BY <1>7, <2>2
      <3>2. x = y /\ f[x] + i = f[y] + j
        BY <3>1
      <3> QED BY <1>5, <3>2
    <2>3. \A a, b \in Columns(g) : lift[a] = lift[b] => a = b
      BY <1>1, <2>2
    <2> QED BY <2>1, <2>3 DEF Injection, IsInjective
  <1>10. IsFiniteSet(above) /\ above \cap Columns(f) = {}
         /\ Columns(h) = above \cup Columns(f)
    BY <1>2, <1>3, <1>6, FS_Difference
  <1>11. Cardinality(Columns(g)) <= Cardinality(above)
    BY <1>9, <1>10, FS_Injection
  <1>12. Cardinality(Columns(h)) = Cardinality(above) + Cardinality(Columns(f))
    BY <1>2, <1>10, DisjointUnion
  <1>13. /\ Cardinality(Columns(f)) \in Nat /\ Cardinality(Columns(g)) \in Nat
         /\ Cardinality(above) \in Nat
    BY <1>2, <1>10, CardinalNat
  <1> QED BY <1>11, <1>12, <1>13, TallyDef

(* A sum of pages, in tokens.                                              *)
LEMMA TallyScale ==
    ASSUME NEW D, IsFiniteSet(D), NEW f \in [D -> Nat], NEW g \in [D -> Nat],
           \A x \in D : f[x] * PageSize <= g[x]
    PROVE  Tally(f) * PageSize <= Tally(g)
  <1>1. /\ \A e : e \in Columns(f) <=> \E x \in D : \E i \in 1 .. f[x] : e = <<x, i>>
        /\ \A e : e \in Columns(g) <=> \E x \in D : \E i \in 1 .. g[x] : e = <<x, i>>
    BY ColumnsAre
  <1>2. IsFiniteSet(Columns(f)) /\ IsFiniteSet(Columns(g))
    BY ColumnsFinite
  <1>3. PICK S : S = Columns(f) \X (1 .. PageSize)
    OBVIOUS
  <1>4. PICK spread : spread = [c \in S |-> <<c[1][1], (c[1][2] - 1) * PageSize + c[2]>>]
    OBVIOUS
  <1>5. \A x \in D : f[x] \in Nat /\ g[x] \in Nat /\ f[x] * PageSize <= g[x]
    OBVIOUS
  <1>6. \A c : c \in S <=> \E x \in D : \E i \in 1 .. f[x] : \E r \in 1 .. PageSize :
                             c = <<<<x, i>>, r>>
    BY <1>1, <1>3
  <1>7. \A x \in D : \A i \in 1 .. f[x] : \A r \in 1 .. PageSize :
           spread[<<<<x, i>>, r>>] = <<x, (i - 1) * PageSize + r>>
    BY <1>4, <1>6
  <1>8. ASSUME NEW x \in D, NEW i \in 1 .. f[x], NEW r \in 1 .. PageSize
        PROVE  (i - 1) * PageSize + r \in 1 .. g[x]
    <2>1. PICK n \in Nat : n = f[x]
      BY <1>5
    <2>2. PICK m \in Nat : m = g[x]
      BY <1>5
    <2>3. n * PageSize <= m /\ i \in 1 .. n
      BY <1>5, <2>1, <2>2
    <2>4. (i - 1) * PageSize + r \in 1 .. m
      BY ONLY <2>3, n \in Nat, m \in Nat, r \in 1 .. PageSize, PageSizeAssumption, SMTT(30)
    <2> QED BY <2>2, <2>4
  <1>9. spread \in Injection(S, Columns(g))
    <2>1. \A c \in S : spread[c] \in Columns(g)
      BY <1>1, <1>6, <1>7, <1>8
    <2>2. ASSUME NEW x \in D, NEW i \in 1 .. f[x], NEW r \in 1 .. PageSize,
                 NEW y \in D, NEW j \in 1 .. f[y], NEW s \in 1 .. PageSize,
                 x = y, (i - 1) * PageSize + r = (j - 1) * PageSize + s
          PROVE  i = j /\ r = s
      <3>3. i \in Int /\ j \in Int
        BY <1>5
      <3> QED BY ONLY <2>2, <3>3, r \in 1 .. PageSize, s \in 1 .. PageSize,
                      PageSizeAssumption, SMTT(30)
    <2>3. \A a, b \in S : spread[a] = spread[b] => a = b
      <3> SUFFICES ASSUME NEW a \in S, NEW b \in S, spread[a] = spread[b]
                   PROVE  a = b
        OBVIOUS
      <3>1. PICK x \in D : \E i \in 1 .. f[x] : \E r \in 1 .. PageSize : a = <<<<x, i>>, r>>
        BY <1>6
      <3>2. PICK i \in 1 .. f[x], r \in 1 .. PageSize : a = <<<<x, i>>, r>>
        BY <3>1
      <3>3. PICK y \in D : \E j \in 1 .. f[y] : \E s \in 1 .. PageSize : b = <<<<y, j>>, s>>
        BY <1>6
      <3>4. PICK j \in 1 .. f[y], s \in 1 .. PageSize : b = <<<<y, j>>, s>>
        BY <3>3
      <3>5. spread[<<<<x, i>>, r>>] = spread[<<<<y, j>>, s>>]
        BY <3>2, <3>4, Zenon
      <3>6. <<x, (i - 1) * PageSize + r>> = <<y, (j - 1) * PageSize + s>>
        <4>1. spread[<<<<x, i>>, r>>] = <<x, (i - 1) * PageSize + r>>
          BY <1>7
        <4>2. spread[<<<<y, j>>, s>>] = <<y, (j - 1) * PageSize + s>>
          BY <1>7
        <4> QED BY ONLY <3>5, <4>1, <4>2, Zenon
      <3>7. x = y /\ (i - 1) * PageSize + r = (j - 1) * PageSize + s
        BY ONLY <3>6
      <3>8. i = j /\ r = s
        BY <2>2, <3>7
      <3> QED BY ONLY <3>2, <3>4, <3>7, <3>8
    <2>4. spread \in [S -> Columns(g)]
      BY <1>4, <2>1
    <2> QED BY ONLY <2>3, <2>4 DEF Injection, IsInjective
  <1>10. Cardinality(S) <= Cardinality(Columns(g))
    BY <1>2, <1>9, FS_Injection
  <1>11. Cardinality(S) = Cardinality(Columns(f)) * PageSize
    <2>1. 1 \in Int /\ PageSize \in Int /\ ~ (1 > PageSize)
      BY PageSizeAssumption
    <2>2. IsFiniteSet(1 .. PageSize)
          /\ Cardinality(1 .. PageSize) = IF 1 > PageSize THEN 0 ELSE PageSize - 1 + 1
      BY <2>1, FS_Interval
    <2>3. Cardinality(1 .. PageSize) = PageSize
      BY <2>1, <2>2
    <2> QED BY <1>2, <1>3, <2>2, <2>3, FS_Product
  <1> QED BY <1>10, <1>11, TallyDef

-----------------------------------------------------------------------------
(* What a tree is: names, parents, and the map it stands for.              *)

Page(t, n, i) == t.nodes[n].pages[i]

LEMMA NameFact ==
    ASSUME NEW T, NEW P, NEW t, WellFormed(t, T, P), NEW n \in Names(t)
    PROVE  /\ n \in Seq(T) /\ Whole(n) /\ n # << >>
           /\ Len(n) \in Nat /\ FullPages(n) \in Nat \ {0}
           /\ t.nodes[n] \in [pages : Seq(P), ref : Nat]
           /\ t.nodes[n].pages \in Seq(P) /\ t.nodes[n].ref \in Nat
           /\ Len(t.nodes[n].pages) \in Nat
  <1>1. n \in Seq(T) /\ Whole(n) /\ n # << >>
    BY DEF WellFormed
  <1>2. t.nodes[n] \in [pages : Seq(P), ref : Nat]
    BY DEF WellFormed, Names
  <1>3. t.nodes[n].pages \in Seq(P) /\ t.nodes[n].ref \in Nat
    BY <1>2
  <1>4. Len(t.nodes[n].pages) \in Nat
    BY <1>3, LenProperties
  <1>5. Len(n) \in Nat /\ FullPages(n) \in Nat
    BY <1>1, LenProperties, FullPagesFact
  <1>6. FullPages(n) # 0
    BY <1>1, EmptyPrefix
  <1> QED BY <1>1, <1>2, <1>3, <1>4, <1>5, <1>6

LEMMA RootOrName ==
    ASSUME NEW T, NEW P, NEW t, WellFormed(t, T, P),
           NEW n \in Names(t) \cup {<< >>}
    PROVE  /\ n \in Seq(T) /\ Whole(n)
           /\ Len(n) \in Nat /\ FullPages(n) \in Nat
  <1>1. n \in Seq(T) /\ Whole(n)
    <2>1. << >> \in Seq(T) /\ Whole(<< >>)
      BY EmptyFact DEF Whole
    <2>2. CASE n \in Names(t)
      BY <2>2, NameFact
    <2> QED BY <2>1, <2>2
  <1> QED BY <1>1, LenProperties, FullPagesFact

LEMMA ParentIs ==
    ASSUME NEW T, NEW P, NEW t, WellFormed(t, T, P),
           NEW n \in Names(t), NEW m, IsParent(t, m, n)
    PROVE  Parent(t, n) = m
  <1> DEFINE S == {<< >>} \cup {x \in Names(t) : IsStrictPrefix(x, n)}
             Top(s) == s \in S /\ \A r \in S : Len(r) <= Len(s)
  <1>1. \A r \in S : r \in Seq(T)
    BY RootOrName
  <1>2. m \in S
    BY DEF IsParent
  <1>3. \A r \in S : IsPrefix(r, m)
    BY <1>1, <1>2, EmptyPrefix DEF IsParent
  <1>4. \A r \in S : Len(r) \in Nat /\ Len(r) <= Len(m)
    BY <1>1, <1>2, <1>3, PrefixLen
  <1>5. Top(m)
    BY <1>2, <1>4
  <1>6. ASSUME NEW s, Top(s) PROVE s = m
    <2>1. s \in S /\ Len(m) <= Len(s) /\ Len(s) <= Len(m)
          /\ Len(s) \in Nat /\ Len(m) \in Nat
      BY <1>2, <1>4, <1>6
    <2>2. Len(s) = Len(m)
      BY ONLY <2>1
    <2> QED BY <1>1, <1>2, <1>3, <2>1, <2>2, PrefixLen
  <1>7. Parent(t, n) = CHOOSE s : Top(s)
    BY DEF Parent, Longest
  <1> HIDE DEF Top
  <1> QED BY <1>5, <1>6, <1>7

LEMMA ParentFact ==
    ASSUME NEW T, NEW P, NEW t, WellFormed(t, T, P), Segmented(t),
           NEW n \in Names(t)
    PROVE  /\ IsParent(t, Parent(t, n), n)
           /\ Parent(t, n) \in Names(t) \cup {<< >>}
           /\ Parent(t, n) \in Seq(T) /\ Whole(Parent(t, n))
           /\ FullPages(Parent(t, n)) \in Nat
           /\ FullPages(Parent(t, n)) < FullPages(n)
           /\ Len(t.nodes[n].pages) = FullPages(n) - FullPages(Parent(t, n))
  <1>1. PICK m : /\ IsParent(t, m, n)
                 /\ Len(t.nodes[n].pages) = FullPages(n) - FullPages(m)
    BY DEF Segmented, IsParent
  <1>2. Parent(t, n) = m
    BY <1>1, ParentIs
  <1>3. m \in Names(t) \cup {<< >>} /\ IsStrictPrefix(m, n)
    BY <1>1 DEF IsParent
  <1>4. m \in Seq(T) /\ Whole(m) /\ FullPages(m) \in Nat
    BY <1>3, RootOrName
  <1>5. n \in Seq(T) /\ Whole(n)
    BY NameFact
  <1>6. FullPages(m) < FullPages(n)
    <2>1. IsPrefix(m, n) /\ IsPrefix(n, n)
      BY <1>3, <1>5, PrefixRefl DEF IsStrictPrefix
    <2> QED BY <1>3, <1>4, <1>5, <2>1, WholeChain
  <1> QED BY <1>1, <1>2, <1>3, <1>4, <1>6

LEMMA KeyFact ==
    ASSUME NEW T, NEW P, NEW t, WellFormed(t, T, P), NEW k
    PROVE  k \in Keys(t) <=> /\ k \in Seq(T) /\ Whole(k) /\ k # << >>
                             /\ \E n \in Names(t) : IsPrefix(k, n)
  <1>1. ASSUME k \in Keys(t)
        PROVE  /\ k \in Seq(T) /\ Whole(k) /\ k # << >>
               /\ \E n \in Names(t) : IsPrefix(k, n)
    <2>1. PICK n \in Names(t) : \E i \in 1 .. FullPages(n) : k = UpTo(n, i)
      BY <1>1 DEF Keys
    <2>2. PICK i \in 1 .. FullPages(n) : k = UpTo(n, i)
      BY <2>1
    <2>3. n \in Seq(T) /\ FullPages(n) \in Nat
      BY NameFact
    <2>4. i \in Nat /\ i <= FullPages(n) /\ i # 0
      BY <2>3
    <2> QED BY <2>2, <2>3, <2>4, UpToPrefix
  <1>2. ASSUME k \in Seq(T), Whole(k), k # << >>,
               NEW n \in Names(t), IsPrefix(k, n)
        PROVE  k \in Keys(t)
    <2>1. n \in Seq(T) /\ FullPages(n) \in Nat
      BY NameFact
    <2>2. /\ FullPages(k) \in Nat /\ FullPages(k) <= FullPages(n)
          /\ k = UpTo(n, FullPages(k))
      BY <1>2, <2>1, WholePrefix
    <2>3. FullPages(k) # 0
      BY <1>2, EmptyPrefix
    <2>4. FullPages(k) \in 1 .. FullPages(n)
      BY <2>1, <2>2, <2>3
    <2> QED BY <2>2, <2>4 DEF Keys
  <1> QED BY <1>1, <1>2

LEMMA NamesAreKeys ==
    ASSUME NEW T, NEW P, NEW t, WellFormed(t, T, P)
    PROVE  Names(t) \subseteq Keys(t)
  BY NameFact, PrefixRefl, KeyFact

(* A key ends in the segment of exactly one node, the least that has it.   *)
LEMMA LeastFact ==
    ASSUME NEW T, NEW P, NEW t, IsTree(t, T, P), NEW k \in Keys(t)
    PROVE  \E n \in Names(t) :
             /\ IsLeast(t, k, n) /\ IsPrefix(k, n)
             /\ FullPages(Parent(t, n)) < FullPages(k)
             /\ FullPages(k) <= FullPages(n)
             /\ \A x \in Names(t) :
                  IsPrefix(k, x) /\ FullPages(k) > FullPages(Parent(t, x))
                     => x = n
  <1>1. WellFormed(t, T, P) /\ Segmented(t) /\ Branching(t)
    BY DEF IsTree
  <1>2. PICK n : IsLeast(t, k, n)
    BY <1>1 DEF Branching, IsLeast
  <1>3. /\ n \in Names(t) /\ IsPrefix(k, n)
        /\ \A x \in Names(t) : IsPrefix(k, x) => IsPrefix(n, x)
    BY <1>2 DEF IsLeast
  <1>4. k \in Seq(T) /\ Whole(k) /\ k # << >> /\ FullPages(k) \in Nat
    BY <1>1, KeyFact, FullPagesFact
  <1>5. n \in Seq(T) /\ Whole(n)
    BY <1>1, <1>3, NameFact
  <1>6. FullPages(k) <= FullPages(n)
    BY <1>3, <1>4, <1>5, WholePrefix
  <1>7. FullPages(Parent(t, n)) < FullPages(k)
    <2> DEFINE m == Parent(t, n)
    <2>1. /\ m \in Names(t) \cup {<< >>} /\ m \in Seq(T) /\ Whole(m)
          /\ FullPages(m) \in Nat /\ IsStrictPrefix(m, n)
      BY <1>1, <1>3, ParentFact DEF IsParent
    <2> HIDE DEF m
    <2> SUFFICES ASSUME FullPages(k) <= FullPages(m) PROVE FALSE
      BY <1>4, <2>1 DEF m
    <2>2. IsPrefix(k, m)
      BY <1>3, <1>4, <1>5, <2>1, WholeChain DEF IsStrictPrefix
    <2>3. m # << >>
      BY <1>4, <2>2, EmptyPrefix
    <2>4. IsPrefix(n, m) /\ IsPrefix(m, n) /\ m # n
      BY <1>3, <2>1, <2>2, <2>3 DEF IsStrictPrefix
    <2> QED BY <1>5, <2>1, <2>4, PrefixAntisym
  <1>8. ASSUME NEW x \in Names(t), IsPrefix(k, x),
               FullPages(k) > FullPages(Parent(t, x)), x # n
        PROVE  FALSE
    <2> DEFINE m == Parent(t, x)
    <2>1. /\ IsParent(t, m, x) /\ m \in Seq(T) /\ Whole(m)
          /\ FullPages(m) \in Nat
      BY <1>1, ParentFact
    <2> HIDE DEF m
    <2>2. IsStrictPrefix(n, x)
      BY <1>3, <1>8 DEF IsStrictPrefix
    <2>3. IsPrefix(n, m)
      BY <1>3, <2>1, <2>2 DEF IsParent
    <2>4. FullPages(n) \in Nat /\ FullPages(n) <= FullPages(m)
      BY <1>5, <2>1, <2>3, WholePrefix
    <2> QED BY <1>4, <1>6, <1>8, <2>1, <2>4 DEF m
  <1> QED BY <1>2, <1>3, <1>6, <1>7, <1>8

LEMMA LeastUnique ==
    ASSUME NEW T, NEW P, NEW t, WellFormed(t, T, P), NEW k,
           NEW m, IsLeast(t, k, m), NEW n, IsLeast(t, k, n)
    PROVE  m = n
  <1>1. /\ m \in Names(t) /\ n \in Names(t)
        /\ IsPrefix(m, n) /\ IsPrefix(n, m)
    BY DEF IsLeast
  <1> QED BY <1>1, NameFact, PrefixAntisym

(* The map at a key: the page of the key's node at the key's offset.       *)
LEMMA EntryAt ==
    ASSUME NEW T, NEW P, NEW t, IsTree(t, T, P), NEW k \in Keys(t),
           NEW n \in Names(t), IsPrefix(k, n),
           FullPages(k) > FullPages(Parent(t, n))
    PROVE  /\ FullPages(k) - FullPages(Parent(t, n)) \in 1 .. Len(t.nodes[n].pages)
           /\ EntriesOf(t)[k] = Page(t, n, FullPages(k) - FullPages(Parent(t, n)))
           /\ EntriesOf(t)[k] \in P
  <1>1. WellFormed(t, T, P) /\ Segmented(t)
    BY DEF IsTree
  <1>2. PICK m \in Names(t) :
          /\ IsPrefix(k, m)
          /\ FullPages(Parent(t, m)) < FullPages(k)
          /\ FullPages(k) <= FullPages(m)
          /\ \A x \in Names(t) :
               IsPrefix(k, x) /\ FullPages(k) > FullPages(Parent(t, x)) => x = m
    BY LeastFact
  <1>3. m = n
    BY <1>2
  <1> DEFINE start == [x \in Names(t) |-> FullPages(Parent(t, x))]
             Home(x) == x \in Names(t) /\ IsPrefix(k, x) /\ FullPages(k) > start[x]
             c == CHOOSE x : Home(x)
  <1>4. EntriesOf(t)[k] = t.nodes[c].pages[FullPages(k) - start[c]]
    BY DEF EntriesOf
  <1>5. Home(n)
    OBVIOUS
  <1>6. \A x : Home(x) => x = n
    <2>1. \A x : Home(x) => /\ x \in Names(t) /\ IsPrefix(k, x)
                            /\ FullPages(k) > FullPages(Parent(t, x))
      OBVIOUS
    <2> HIDE DEF Home
    <2>2. \A x : Home(x) => x = m
      BY <2>1, <1>2
    <2> QED BY <2>2, <1>3
  <1> HIDE DEF Home
  <1>7. c = n
    BY <1>5, <1>6
  <1> HIDE DEF c
  <1>8. EntriesOf(t)[k] = Page(t, n, FullPages(k) - FullPages(Parent(t, n)))
    BY <1>4, <1>7 DEF Page
  <1>9. k \in Seq(T) /\ FullPages(k) \in Nat
    BY <1>1, KeyFact, FullPagesFact
  <1>10. PICK p \in Nat : p = FullPages(Parent(t, n))
    BY <1>1, ParentFact
  <1>11. PICK q \in Nat : q = FullPages(n)
    BY <1>1, NameFact
  <1>12. /\ Len(t.nodes[n].pages) = q - p
         /\ t.nodes[n].pages \in Seq(P)
    BY <1>1, <1>10, <1>11, ParentFact, NameFact
  <1>13. FullPages(k) - p \in 1 .. q - p
    BY <1>2, <1>3, <1>9, <1>10, <1>11
  <1>14. t.nodes[n].pages[FullPages(k) - p] \in P
    BY <1>12, <1>13, ElementOfSeq
  <1> QED BY <1>8, <1>10, <1>12, <1>13, <1>14 DEF Page

LEMMA EntriesType ==
    ASSUME NEW T, NEW P, NEW t, IsTree(t, T, P)
    PROVE  EntriesOf(t) \in [Keys(t) -> P]
  <1>1. \A k \in Keys(t) : EntriesOf(t)[k] \in P
    BY LeastFact, EntryAt
  <1>2. EntriesOf(t) = [k \in Keys(t) |-> EntriesOf(t)[k]]
    BY DEF EntriesOf
  <1> QED BY <1>1, <1>2

(* Two trees with the same keys and the same page at each.                 *)
LEMMA EntriesEqual ==
    ASSUME NEW t, NEW f, DOMAIN f = Keys(t), f = [k \in DOMAIN f |-> f[k]],
           \A k \in Keys(t) : EntriesOf(t)[k] = f[k]
    PROVE  EntriesOf(t) = f
  <1>1. EntriesOf(t) = [k \in Keys(t) |-> EntriesOf(t)[k]]
    BY DEF EntriesOf
  <1> QED BY <1>1

(* Each page of a node is the map's at one key, whose least node it is.    *)
LEMMA CellFact ==
    ASSUME NEW T, NEW P, NEW t, IsTree(t, T, P),
           NEW n \in Names(t), NEW i \in 1 .. Len(t.nodes[n].pages),
           NEW k, k = UpTo(n, FullPages(Parent(t, n)) + i)
    PROVE  /\ k \in Keys(t) /\ IsPrefix(k, n)
           /\ FullPages(k) = FullPages(Parent(t, n)) + i
           /\ EntriesOf(t)[k] = Page(t, n, i)
           /\ Page(t, n, i) \in P
  <1>1. WellFormed(t, T, P) /\ Segmented(t)
    BY DEF IsTree
  <1>2. PICK p \in Nat : p = FullPages(Parent(t, n))
    BY <1>1, ParentFact
  <1>3. PICK q \in Nat : q = FullPages(n)
    BY <1>1, NameFact
  <1>4. Len(t.nodes[n].pages) = q - p /\ n \in Seq(T)
    BY <1>1, <1>2, <1>3, ParentFact, NameFact
  <1>5. i \in Nat /\ p + i \in Nat /\ p + i # 0 /\ p + i <= q /\ p + i > p
        /\ p + i - p = i
    BY <1>2, <1>3, <1>4
  <1>6. k = UpTo(n, p + i)
    BY <1>2
  <1>7. /\ k \in Seq(T) /\ IsPrefix(k, n) /\ Whole(k) /\ k # << >>
        /\ FullPages(k) = p + i
    BY <1>3, <1>4, <1>5, <1>6, UpToPrefix
  <1>8. k \in Keys(t)
    BY <1>1, <1>7, KeyFact
  <1>9. /\ EntriesOf(t)[k] = Page(t, n, FullPages(k) - FullPages(Parent(t, n)))
        /\ EntriesOf(t)[k] \in P
    BY <1>2, <1>5, <1>7, <1>8, EntryAt
  <1> QED BY <1>2, <1>5, <1>7, <1>8, <1>9

(* get_matched_indices reads the map along a path.                         *)
LEMMA MatchedFact ==
    ASSUME NEW T, NEW P, NEW t, IsTree(t, T, P),
           NEW n \in Names(t) \cup {<< >>}
    PROVE  /\ MatchedIndices(t, n)
                = [i \in 1 .. FullPages(n) |-> EntriesOf(t)[UpTo(n, i)]]
           /\ \A i \in 1 .. FullPages(n) : UpTo(n, i) \in Keys(t)
           /\ MatchedIndices(t, n) \in Seq(P)
           /\ Len(MatchedIndices(t, n)) = FullPages(n)
  <1>1. WellFormed(t, T, P) /\ Segmented(t)
    BY DEF IsTree
  <1>2. n \in Seq(T) /\ Whole(n) /\ FullPages(n) \in Nat
    BY <1>1, RootOrName
  <1>3. ASSUME NEW i \in 1 .. FullPages(n)
        PROVE  /\ UpTo(n, i) \in Keys(t)
               /\ EntriesOf(t)[UpTo(n, i)] \in P
               /\ LET m == NodeAt(t, n, i)
                  IN t.nodes[m].pages[i - FullPages(Parent(t, m))]
                       = EntriesOf(t)[UpTo(n, i)]
    <2>1. i \in Nat /\ i <= FullPages(n) /\ i # 0
      BY <1>2
    <2>2. PICK k : k = UpTo(n, i)
      OBVIOUS
    <2>3. /\ k \in Seq(T) /\ IsPrefix(k, n) /\ Whole(k)
          /\ FullPages(k) = i /\ k # << >>
      BY <1>2, <2>1, <2>2, UpToPrefix
    <2>4. n \in Names(t)
      BY <2>3, EmptyPrefix
    <2>5. k \in Keys(t)
      BY <1>1, <2>3, <2>4, KeyFact
    <2>6. PICK m \in Names(t) :
            /\ IsLeast(t, k, m) /\ IsPrefix(k, m)
            /\ FullPages(Parent(t, m)) < FullPages(k)
            /\ FullPages(k) <= FullPages(m)
            /\ \A x \in Names(t) :
                 IsPrefix(k, x) /\ FullPages(k) > FullPages(Parent(t, x)) => x = m
      BY <2>5, LeastFact
    <2> DEFINE Here(x) == /\ x \in PathTo(t, n)
                          /\ i \in FullPages(Parent(t, x)) + 1 .. FullPages(x)
    <2>7. Here(m)
      <3>1. IsPrefix(m, n)
        BY <2>3, <2>4, <2>6 DEF IsLeast
      <3>2. FullPages(Parent(t, m)) \in Nat /\ FullPages(m) \in Nat
        BY <1>1, ParentFact, NameFact
      <3>3. i \in FullPages(Parent(t, m)) + 1 .. FullPages(m)
        BY <2>1, <2>3, <2>6, <3>2
      <3> QED BY <3>1, <3>3 DEF PathTo
    <2>8. ASSUME NEW x, Here(x) PROVE x = m
      <3>1. x \in Names(t) /\ IsPrefix(x, n)
        BY <2>8 DEF PathTo
      <3>2. /\ FullPages(Parent(t, x)) \in Nat /\ FullPages(x) \in Nat
            /\ x \in Seq(T) /\ Whole(x)
        BY <1>1, <3>1, ParentFact, NameFact
      <3>3. FullPages(Parent(t, x)) < i /\ i <= FullPages(x)
        BY <2>1, <2>8, <3>2
      <3>4. IsPrefix(k, x)
        BY <1>2, <2>3, <3>1, <3>2, <3>3, WholeChain
      <3> QED BY <2>3, <2>6, <3>1, <3>2, <3>3, <3>4
    <2>9. NodeAt(t, n, i) = CHOOSE x : Here(x)
      BY DEF NodeAt
    <2> HIDE DEF Here
    <2>10. NodeAt(t, n, i) = m
      BY <2>7, <2>8, <2>9
    <2>11. /\ EntriesOf(t)[k] = Page(t, m, FullPages(k) - FullPages(Parent(t, m)))
           /\ EntriesOf(t)[k] \in P
      BY <2>5, <2>6, EntryAt
    <2> QED BY <2>2, <2>3, <2>5, <2>10, <2>11 DEF Page
  <1>4. MatchedIndices(t, n) = [i \in 1 .. FullPages(n) |-> EntriesOf(t)[UpTo(n, i)]]
    BY <1>3 DEF MatchedIndices
  <1>5. [i \in 1 .. FullPages(n) |-> EntriesOf(t)[UpTo(n, i)]] \in Seq(P)
    BY <1>2, <1>3
  <1>6. Len([i \in 1 .. FullPages(n) |-> EntriesOf(t)[UpTo(n, i)]]) = FullPages(n)
    BY <1>2
  <1> QED BY <1>3, <1>4, <1>5, <1>6

-----------------------------------------------------------------------------
(* The walk: as many pages of s as the map has.                            *)

LEMMA WalkEndFact ==
    ASSUME NEW T, NEW P, NEW t, WellFormed(t, T, P), NEW s \in Seq(T)
    PROVE  \E j \in Nat :
             /\ j <= FullPages(s)
             /\ WalkEnd(t, s) = UpTo(s, j)
             /\ j = 0 \/ UpTo(s, j) \in Keys(t)
             /\ \A i \in Nat : i # 0 /\ i <= FullPages(s) =>
                                 (UpTo(s, i) \in Keys(t) <=> i <= j)
  <1> PICK N \in Nat : N = FullPages(s)
    BY FullPagesFact
  <1> DEFINE Cached(i) == \E n \in Names(t) : IsPrefix(UpTo(s, i), n)
             I == {i \in 0 .. N : i = 0 \/ Cached(i)}
             S == {UpTo(s, i) : i \in I}
             Top(x) == x \in S /\ \A r \in S : Len(r) <= Len(x)
  <1>1. \A i \in Nat : i <= N =>
          /\ UpTo(s, i) \in Seq(T) /\ Whole(UpTo(s, i))
          /\ IsPrefix(UpTo(s, i), s) /\ FullPages(UpTo(s, i)) = i
          /\ i = 0 <=> UpTo(s, i) = << >>
    BY UpToPrefix
  <1>2. \A i \in 1 .. N : Cached(i) <=> UpTo(s, i) \in Keys(t)
    <2> SUFFICES ASSUME NEW i \in 1 .. N
                 PROVE  Cached(i) <=> UpTo(s, i) \in Keys(t)
      OBVIOUS
    <2>1. i \in Nat /\ i <= N /\ i # 0
      OBVIOUS
    <2> QED BY <1>1, <2>1, KeyFact
  <1>3. \A i \in I : \A j \in 0 .. i : j \in I
    <2> SUFFICES ASSUME NEW i \in I, NEW j \in 0 .. i, j # 0 PROVE j \in I
      OBVIOUS
    <2>1. i \in Nat /\ j \in Nat /\ j <= i /\ i <= N /\ j <= N /\ i # 0
      OBVIOUS
    <2>2. PICK n \in Names(t) : IsPrefix(UpTo(s, i), n)
      BY <2>1
    <2>3. IsPrefix(UpTo(s, j), UpTo(s, i))
      BY <1>1, <2>1, WholeChain
    <2>4. IsPrefix(UpTo(s, j), n)
      BY <1>1, <2>1, <2>2, <2>3, NameFact, PrefixTrans
    <2> QED BY <2>1, <2>4
  <1>4. I \in SUBSET (0 .. N) /\ 0 \in I
    OBVIOUS
  <1>5. PICK j \in I : \A i \in I : i <= j
    <2> HIDE DEF I
    <2> QED BY <1>3, <1>4, Greatest
  <1>6. j \in Nat /\ j <= N
    OBVIOUS
  <1>7. ASSUME NEW i \in I PROVE IsPrefix(UpTo(s, i), UpTo(s, j))
    <2>1. i \in Nat /\ i <= N /\ i <= j
      BY <1>5
    <2> QED BY <1>1, <1>6, <2>1, WholeChain
  <1>8. Top(UpTo(s, j))
    <2>1. \A r \in S : Len(r) <= Len(UpTo(s, j))
      <3> TAKE r \in S
      <3>1. PICK i \in I : r = UpTo(s, i)
        OBVIOUS
      <3>2. UpTo(s, i) \in Seq(T) /\ UpTo(s, j) \in Seq(T)
        BY <1>1, <1>6
      <3> QED BY <1>7, <3>1, <3>2, PrefixLen
    <2> QED BY <2>1
  <1>9. ASSUME NEW x, Top(x) PROVE x = UpTo(s, j)
    <2>1. PICK i \in I : x = UpTo(s, i)
      BY <1>9
    <2>2. UpTo(s, i) \in Seq(T) /\ UpTo(s, j) \in Seq(T)
      BY <1>1, <1>6
    <2>3. /\ Len(x) <= Len(UpTo(s, j)) /\ Len(UpTo(s, j)) <= Len(x)
          /\ Len(x) \in Nat /\ Len(UpTo(s, j)) \in Nat
      BY <1>8, <1>9, <2>1, <2>2, LenProperties
    <2> QED BY <1>7, <2>1, <2>2, <2>3, PrefixLen
  <1>10. WalkEnd(t, s) = CHOOSE x : Top(x)
    BY DEF WalkEnd, Longest
  <1>11. WalkEnd(t, s) = UpTo(s, j)
    <2> HIDE DEF Top
    <2> QED BY <1>8, <1>9, <1>10
  <1>12. j = 0 \/ UpTo(s, j) \in Keys(t)
    BY <1>2, <1>6
  <1>13. \A i \in Nat : i # 0 /\ i <= N => (UpTo(s, i) \in Keys(t) <=> i <= j)
    <2> SUFFICES ASSUME NEW i \in Nat, i # 0, i <= N
                 PROVE  UpTo(s, i) \in Keys(t) <=> i <= j
      OBVIOUS
    <2>1. i \in 1 .. N
      OBVIOUS
    <2>2. i <= j => i \in I
      <3>1. i <= j => i \in 0 .. j
        BY <1>6
      <3> QED BY <3>1, <1>3
    <2>3. i \in I <=> UpTo(s, i) \in Keys(t)
      BY <1>2, <2>1
    <2> QED BY <1>5, <2>2, <2>3
  <1> QED BY <1>6, <1>11, <1>12, <1>13

-----------------------------------------------------------------------------
(* split_at.                                                               *)

LEMMA BelowFact ==
    ASSUME NEW T, NEW P, NEW t, IsTree(t, T, P),
           NEW m \in Keys(t), m \notin Names(t)
    PROVE  /\ Below(t, m) \in Names(t)
           /\ IsLeast(t, m, Below(t, m))
           /\ IsStrictPrefix(m, Below(t, m))
           /\ FullPages(Parent(t, Below(t, m))) < FullPages(m)
           /\ FullPages(m) < FullPages(Below(t, m))
  <1>1. WellFormed(t, T, P) /\ Segmented(t)
    BY DEF IsTree
  <1>2. PICK n \in Names(t) :
          /\ IsLeast(t, m, n) /\ IsPrefix(m, n)
          /\ FullPages(Parent(t, n)) < FullPages(m)
          /\ FullPages(m) <= FullPages(n)
          /\ \A x \in Names(t) :
               IsPrefix(m, x) /\ FullPages(m) > FullPages(Parent(t, x)) => x = n
    BY LeastFact
  <1>3. m \in Seq(T) /\ Whole(m) /\ m # << >>
    BY <1>1, KeyFact
  <1> DEFINE Home(x) == /\ x \in Names(t) /\ IsStrictPrefix(m, x)
                        /\ IsPrefix(Parent(t, x), m)
  <1>4. ASSUME NEW x \in Names(t)
        PROVE  /\ x \in Seq(T) /\ Whole(x)
               /\ Parent(t, x) \in Seq(T) /\ Whole(Parent(t, x))
               /\ Parent(t, x) # m
               /\ IsPrefix(Parent(t, x), x)
    BY <1>1, <1>3, NameFact, ParentFact DEF IsParent, IsStrictPrefix
  <1>5. Home(n)
    <2>1. IsStrictPrefix(m, n)
      BY <1>2 DEF IsStrictPrefix
    <2>2. FullPages(Parent(t, n)) \in Nat /\ FullPages(m) \in Nat
      BY <1>3, <1>4, FullPagesFact
    <2>3. IsPrefix(Parent(t, n), m)
      BY <1>2, <1>3, <1>4, <2>2, WholeChain
    <2> QED BY <2>1, <2>3
  <1>6. ASSUME NEW x, Home(x) PROVE x = n
    <2>1. x \in Names(t) /\ IsPrefix(m, x) /\ IsPrefix(Parent(t, x), m)
      BY <1>6 DEF IsStrictPrefix
    <2>2. IsStrictPrefix(Parent(t, x), m)
      BY <1>4, <2>1 DEF IsStrictPrefix
    <2>3. FullPages(Parent(t, x)) < FullPages(m)
      BY <1>3, <1>4, <2>1, <2>2, WholeChain
    <2>4. FullPages(Parent(t, x)) \in Nat /\ FullPages(m) \in Nat
      BY <1>3, <1>4, <2>1, FullPagesFact
    <2> QED BY <1>2, <2>1, <2>3, <2>4
  <1>7. Below(t, m) = CHOOSE x : Home(x)
    BY DEF Below
  <1>8. Below(t, m) = n
    <2> HIDE DEF Home
    <2> QED BY <1>5, <1>6, <1>7
  <1>9. FullPages(m) < FullPages(n) /\ IsStrictPrefix(m, n)
    <2>1. IsStrictPrefix(m, n) /\ IsPrefix(m, n) /\ IsPrefix(n, n)
      BY <1>2, <1>4, <1>5, PrefixRefl
    <2> QED BY <1>2, <1>3, <1>4, <2>1, WholeChain
  <1> QED BY <1>2, <1>8, <1>9

(* The node values after a split, s having k pages of the old node n.      *)
LEMMA SplitNodes ==
    ASSUME NEW T, NEW P, NEW t, IsTree(t, T, P),
           NEW m \in Keys(t), m \notin Names(t),
           NEW n, n = Below(t, m), NEW d, d = SplitAt(t, m),
           NEW k, k = FullPages(m) - FullPages(Parent(t, n)),
           NEW l, l = Len(t.nodes[n].pages)
    PROVE  /\ d = [nodes |-> d.nodes, evictable |-> t.evictable,
                   protected |-> t.protected]
           /\ Names(d) = Names(t) \cup {m} /\ n \in Names(t) /\ m # n
           /\ k \in Nat \ {0} /\ l \in Nat /\ k < l
           /\ l - k = FullPages(n) - FullPages(m)
           /\ d.nodes \in [Names(d) -> [pages : Seq(P), ref : Nat]]
           /\ \A x \in Names(t) \ {n} : d.nodes[x] = t.nodes[x]
           /\ d.nodes[m].ref = t.nodes[n].ref /\ d.nodes[n].ref = t.nodes[n].ref
           /\ Len(d.nodes[m].pages) = k
           /\ \A i \in 1 .. k : Page(d, m, i) = Page(t, n, i)
           /\ Len(d.nodes[n].pages) = l - k
           /\ \A i \in 1 .. l - k : Page(d, n, i) = Page(t, n, i + k)
  <1>1. WellFormed(t, T, P) /\ Segmented(t)
    BY DEF IsTree
  <1>2. /\ n \in Names(t) /\ m # n
        /\ FullPages(Parent(t, n)) < FullPages(m) /\ FullPages(m) < FullPages(n)
    BY BelowFact DEF IsStrictPrefix
  <1>3. m # << >> /\ FullPages(m) \in Nat
    BY <1>1, KeyFact, FullPagesFact
  <1>4. /\ FullPages(Parent(t, n)) \in Nat /\ FullPages(n) \in Nat
        /\ l = FullPages(n) - FullPages(Parent(t, n))
    BY <1>1, <1>2, ParentFact, NameFact
  <1>5. k \in Nat \ {0} /\ l \in Nat /\ k < l /\ l - k = FullPages(n) - FullPages(m)
    BY <1>2, <1>3, <1>4
  <1>6. PICK e \in [pages : Seq(P), ref : Nat] : e = t.nodes[n]
    BY <1>1, <1>2, NameFact
  <1> DEFINE head == [e EXCEPT !.pages = SubSeq(@, 1, k)]
             tail == [e EXCEPT !.pages = SubSeq(@, k + 1, Len(@))]
  <1>7. e.pages \in Seq(P) /\ Len(e.pages) = l
    BY <1>6
  <1>8. /\ SubSeq(e.pages, 1, k) \in Seq(P)
        /\ Len(SubSeq(e.pages, 1, k)) = k
        /\ \A i \in 1 .. k : SubSeq(e.pages, 1, k)[i] = e.pages[i]
    BY <1>5, <1>7, SubSeqFact
  <1>9. /\ SubSeq(e.pages, k + 1, l) \in Seq(P)
        /\ Len(SubSeq(e.pages, k + 1, l)) = l - k
        /\ \A i \in 1 .. l - k : SubSeq(e.pages, k + 1, l)[i] = e.pages[i + k]
    <2>1. PICK q \in Seq(P) : q = e.pages
      BY <1>7
    <2>2. Len(q) = l
      BY <1>7, <2>1
    <2>3. /\ SubSeq(q, k + 1, l) \in Seq(P)
          /\ Len(SubSeq(q, k + 1, l)) = l - k
          /\ \A i \in 1 .. l - k : SubSeq(q, k + 1, l)[i] = q[i + k]
      BY ONLY <1>5, <2>2, SMTT(30)
    <2> QED BY <2>1, <2>3
  <1>10. /\ head \in [pages : Seq(P), ref : Nat] /\ head.ref = e.ref
         /\ head.pages = SubSeq(e.pages, 1, k)
    BY <1>6, <1>8
  <1>11. /\ tail \in [pages : Seq(P), ref : Nat] /\ tail.ref = e.ref
         /\ tail.pages = SubSeq(e.pages, k + 1, l)
    BY <1>6, <1>7, <1>9
  <1>12. d = [t EXCEPT !.nodes =
                [x \in Names(t) \cup {m} |->
                   CASE x = m -> head [] x = n -> tail [] OTHER -> t.nodes[x]]]
    BY <1>3, <1>6 DEF SplitAt
  <1>13. t = [nodes |-> t.nodes, evictable |-> t.evictable,
              protected |-> t.protected]
    BY <1>1 DEF WellFormed
  <1> HIDE DEF head, tail
  <1>14. /\ d = [nodes |-> d.nodes, evictable |-> t.evictable,
                 protected |-> t.protected]
         /\ d.nodes = [x \in Names(t) \cup {m} |->
                         CASE x = m -> head [] x = n -> tail
                           [] OTHER -> t.nodes[x]]
    BY <1>12, <1>13
  <1>15. DOMAIN d.nodes = Names(t) \cup {m}
    BY <1>14
  <1>16. d.nodes[m] = head
    BY <1>2, <1>14
  <1>17. d.nodes[n] = tail
    BY <1>2, <1>14
  <1>18. ASSUME NEW x \in Names(t) \ {n} PROVE d.nodes[x] = t.nodes[x]
    BY <1>2, <1>14, x # m, x # n
  <1>19. \A x \in Names(d) : d.nodes[x] \in [pages : Seq(P), ref : Nat]
    <2>1. ASSUME NEW x \in Names(d) PROVE d.nodes[x] \in [pages : Seq(P), ref : Nat]
      <3>1. CASE x = m
        BY <3>1, <1>10, <1>16
      <3>2. CASE x = n
        BY <3>2, <1>11, <1>17
      <3>3. CASE x # m /\ x # n
        <4>1. x \in Names(t) \ {n}
          BY <3>3, <1>15, <2>1 DEF Names
        <4> QED BY <1>1, <1>18, <4>1, NameFact
      <3> QED BY <3>1, <3>2, <3>3
    <2> QED BY <2>1
  <1>20. d.nodes \in [Names(d) -> [pages : Seq(P), ref : Nat]]
    BY <1>14, <1>15, <1>19 DEF Names
  <1>21. /\ Len(d.nodes[m].pages) = k
         /\ \A i \in 1 .. k : Page(d, m, i) = Page(t, n, i)
    <2>1. /\ d.nodes[m].pages = SubSeq(e.pages, 1, k)
          /\ t.nodes[n].pages = e.pages
      BY <1>6, <1>10, <1>16
    <2>2. Len(d.nodes[m].pages) = k
      BY <1>8, <2>1
    <2>3. \A i \in 1 .. k : d.nodes[m].pages[i] = t.nodes[n].pages[i]
      BY <1>8, <2>1
    <2> QED BY <2>2, <2>3 DEF Page
  <1>22. /\ Len(d.nodes[n].pages) = l - k
         /\ \A i \in 1 .. l - k : Page(d, n, i) = Page(t, n, i + k)
    <2>1. /\ d.nodes[n].pages = SubSeq(e.pages, k + 1, l)
          /\ t.nodes[n].pages = e.pages
      BY <1>6, <1>11, <1>17
    <2>2. Len(d.nodes[n].pages) = l - k
      BY <1>9, <2>1
    <2>3. \A i \in 1 .. l - k : d.nodes[n].pages[i] = t.nodes[n].pages[i + k]
      BY <1>9, <2>1
    <2> QED BY <2>2, <2>3 DEF Page
  <1>23. d.nodes[m].ref = t.nodes[n].ref /\ d.nodes[n].ref = t.nodes[n].ref
    BY <1>6, <1>10, <1>11, <1>16, <1>17
  <1>24. Names(d) = Names(t) \cup {m}
    BY <1>15 DEF Names
  <1> QED BY <1>2, <1>5, <1>14, <1>18, <1>20, <1>21, <1>22, <1>23, <1>24

LEMMA SplitTree ==
    ASSUME NEW T, NEW P, NEW t, IsTree(t, T, P),
           NEW m \in Keys(t), m \notin Names(t), NEW d, d = SplitAt(t, m)
    PROVE  IsTree(d, T, P) /\ EntriesOf(d) = EntriesOf(t)
  <1>1. WellFormed(t, T, P) /\ Segmented(t) /\ Branching(t)
    BY DEF IsTree
  <1>2. PICK n : n = Below(t, m)
    OBVIOUS
  <1>3. PICK p : p = Parent(t, n)
    OBVIOUS
  <1>4. PICK k : k = FullPages(m) - FullPages(p)
    OBVIOUS
  <1>5. PICK l : l = Len(t.nodes[n].pages)
    OBVIOUS
  <1>6. /\ d = [nodes |-> d.nodes, evictable |-> t.evictable,
                protected |-> t.protected]
        /\ Names(d) = Names(t) \cup {m} /\ n \in Names(t) /\ m # n
        /\ k \in Nat \ {0} /\ l \in Nat /\ k < l
        /\ l - k = FullPages(n) - FullPages(m)
        /\ d.nodes \in [Names(d) -> [pages : Seq(P), ref : Nat]]
        /\ \A x \in Names(t) \ {n} : d.nodes[x] = t.nodes[x]
        /\ Len(d.nodes[m].pages) = k
        /\ \A i \in 1 .. k : Page(d, m, i) = Page(t, n, i)
        /\ Len(d.nodes[n].pages) = l - k
        /\ \A i \in 1 .. l - k : Page(d, n, i) = Page(t, n, i + k)
    BY <1>2, <1>3, <1>4, <1>5, SplitNodes
  <1>7. /\ m \in Seq(T) /\ Whole(m) /\ m # << >> /\ FullPages(m) \in Nat
    BY <1>1, KeyFact, FullPagesFact
  <1>8. /\ n \in Names(t) /\ IsLeast(t, m, n) /\ IsStrictPrefix(m, n) /\ IsPrefix(m, n)
        /\ FullPages(p) < FullPages(m) /\ FullPages(m) < FullPages(n)
    BY <1>2, <1>3, BelowFact DEF IsStrictPrefix
  <1>9. /\ n \in Seq(T) /\ Whole(n) /\ FullPages(n) \in Nat
    BY <1>1, <1>8, NameFact
  <1>10. /\ IsParent(t, p, n) /\ p \in Names(t) \cup {<< >>}
         /\ p \in Seq(T) /\ Whole(p) /\ FullPages(p) \in Nat
         /\ IsPrefix(p, n)
    BY <1>1, <1>3, <1>8, ParentFact DEF IsParent, IsStrictPrefix
  <1>11. \A x \in Names(t) : IsPrefix(m, x) => IsPrefix(n, x)
    BY <1>8 DEF IsLeast
  <1>12. WellFormed(d, T, P)
    <2>1. IsFiniteSet(Names(d))
      BY <1>1, <1>6, FS_AddElement DEF WellFormed
    <2>2. /\ Names(d) \subseteq Seq(T) \ {<< >>}
          /\ \A x \in Names(d) : Whole(x)
      BY <1>1, <1>6, <1>7 DEF WellFormed
    <2>3. d = [nodes |-> d.nodes, evictable |-> d.evictable, protected |-> d.protected]
      <3>1. d.evictable = t.evictable /\ d.protected = t.protected
        BY <1>6
      <3> QED BY <1>6, <3>1
    <2> QED BY <1>6, <2>1, <2>2, <2>3 DEF WellFormed
  <1>13. IsPrefix(p, m) /\ IsStrictPrefix(p, m)
    BY <1>7, <1>8, <1>9, <1>10, WholeChain
  <1>14. IsParent(d, p, m)
    <2>1. ASSUME NEW x \in Names(d), IsStrictPrefix(x, m) PROVE IsPrefix(x, p)
      <3>1. x \in Names(t) /\ x \in Seq(T) /\ IsPrefix(x, m) /\ x # m
        BY <1>1, <1>6, <2>1, NameFact DEF IsStrictPrefix
      <3>2. IsPrefix(x, n)
        BY <1>7, <1>8, <1>9, <3>1, PrefixTrans
      <3>3. x # n
        BY <1>7, <1>8, <3>1, PrefixAntisym
      <3> QED BY <1>10, <3>1, <3>2, <3>3 DEF IsParent, IsStrictPrefix
    <2> QED BY <1>6, <1>10, <1>13, <2>1 DEF IsParent
  <1>15. IsParent(d, m, n)
    <2>1. ASSUME NEW x \in Names(d), IsStrictPrefix(x, n) PROVE IsPrefix(x, m)
      <3>1. CASE x = m
        BY <3>1, <1>7, PrefixRefl
      <3>2. CASE x \in Names(t)
        <4>1. IsPrefix(x, p) /\ x \in Seq(T)
          BY <1>1, <1>10, <2>1, <3>2, NameFact DEF IsParent
        <4> QED BY <1>7, <1>10, <1>13, <4>1, PrefixTrans
      <3> QED BY <1>6, <3>1, <3>2
    <2> QED BY <1>6, <1>8, <2>1 DEF IsParent
  <1>16. ASSUME NEW x \in Names(t), x # n PROVE IsParent(d, Parent(t, x), x)
    <2>1. PICK q : q = Parent(t, x)
      OBVIOUS
    <2>2. /\ IsParent(t, q, x) /\ q \in Seq(T)
          /\ q \in Names(t) \cup {<< >>} /\ IsStrictPrefix(q, x)
          /\ \A y \in Names(t) : IsStrictPrefix(y, x) => IsPrefix(y, q)
      BY <1>1, <2>1, ParentFact DEF IsParent
    <2>3. ASSUME IsStrictPrefix(m, x) PROVE IsPrefix(m, q)
      <3>1. IsStrictPrefix(n, x)
        BY <1>11, <1>16, <2>3 DEF IsStrictPrefix
      <3>2. IsPrefix(n, q)
        BY <1>8, <2>2, <3>1
      <3> QED BY <1>7, <1>8, <1>9, <2>2, <3>2, PrefixTrans
    <2> QED BY <1>6, <2>1, <2>2, <2>3 DEF IsParent
  <1>17. /\ Parent(d, m) = p /\ Parent(d, n) = m
         /\ \A x \in Names(t) : x # n => Parent(d, x) = Parent(t, x)
    BY <1>6, <1>12, <1>14, <1>15, <1>16, ParentIs
  <1>18. Segmented(d)
    <2>1. ASSUME NEW x \in Names(d)
          PROVE  \E q : /\ IsParent(d, q, x)
                        /\ Len(d.nodes[x].pages) = FullPages(x) - FullPages(q)
      <3>1. CASE x = m
        BY <1>4, <1>6, <1>14, <3>1
      <3>2. CASE x = n
        BY <1>6, <1>15, <3>2
      <3>3. CASE x # m /\ x # n
        <4>1. x \in Names(t) /\ d.nodes[x] = t.nodes[x]
          BY <1>6, <3>3
        <4>2. Len(t.nodes[x].pages) = FullPages(x) - FullPages(Parent(t, x))
          BY <1>1, <4>1, ParentFact
        <4> QED BY <1>16, <3>3, <4>1, <4>2
      <3> QED BY <3>1, <3>2, <3>3
    <2> QED BY <2>1 DEF Segmented, IsParent
  <1>19. Keys(d) = Keys(t)
    <2>1. ASSUME NEW x, x \in Keys(d) PROVE x \in Keys(t)
      <3>1. /\ x \in Seq(T) /\ Whole(x) /\ x # << >>
            /\ \E y \in Names(d) : IsPrefix(x, y)
        BY <1>12, <2>1, KeyFact
      <3>2. IsPrefix(x, m) => IsPrefix(x, n)
        BY <1>7, <1>8, <1>9, <3>1, PrefixTrans
      <3>3. \E y \in Names(t) : IsPrefix(x, y)
        BY <1>6, <1>8, <3>1, <3>2
      <3> QED BY <1>1, <3>1, <3>3, KeyFact
    <2>2. ASSUME NEW x, x \in Keys(t) PROVE x \in Keys(d)
      <3>1. /\ x \in Seq(T) /\ Whole(x) /\ x # << >>
            /\ \E y \in Names(d) : IsPrefix(x, y)
        BY <1>1, <1>6, <2>2, KeyFact
      <3> QED BY <1>12, <3>1, KeyFact
    <2> QED BY <2>1, <2>2
  <1>20. Branching(d)
    <2> SUFFICES ASSUME NEW x \in Keys(d) PROVE \E y : IsLeast(d, x, y)
      BY DEF Branching, IsLeast
    <2>1. PICK y : IsLeast(t, x, y)
      BY <1>1, <1>19 DEF Branching, IsLeast
    <2>2. /\ x \in Seq(T) /\ Whole(x) /\ x # << >>
      BY <1>12, KeyFact
    <2>3. /\ y \in Names(t) /\ IsPrefix(x, y) /\ y \in Seq(T) /\ Whole(y)
          /\ \A z \in Names(t) : IsPrefix(x, z) => IsPrefix(y, z)
      BY <1>1, <2>1, NameFact DEF IsLeast
    <2>4. CASE ~ IsPrefix(x, m) \/ IsPrefix(y, m)
      BY <1>6, <2>3, <2>4 DEF IsLeast
    <2>5. CASE IsPrefix(x, m) /\ ~ IsPrefix(y, m)
      <3>1. IsPrefix(x, n)
        BY <1>7, <1>8, <1>9, <2>2, <2>5, PrefixTrans
      <3>2. IsPrefix(y, n)
        BY <1>8, <2>3, <3>1
      <3>3. IsPrefix(m, y)
        <4>1. FullPages(y) \in Nat /\ FullPages(m) \in Nat
          BY <2>3, <1>7, FullPagesFact
        <4> QED BY <1>7, <1>8, <1>9, <2>3, <2>5, <3>2, <4>1, WholeChain
      <3>4. \A z \in Names(t) : IsPrefix(x, z) => IsPrefix(m, z)
        <4> SUFFICES ASSUME NEW z \in Names(t), IsPrefix(x, z)
                     PROVE  IsPrefix(m, z)
          OBVIOUS
        <4>1. IsPrefix(y, z) /\ z \in Seq(T)
          BY <1>1, <2>3, NameFact
        <4> QED BY <1>7, <2>3, <3>3, <4>1, PrefixTrans
      <3>5. IsPrefix(m, m)
        BY <1>7, PrefixRefl
      <3> QED BY <1>6, <2>5, <3>4, <3>5 DEF IsLeast
    <2> QED BY <2>4, <2>5
  <1>21. IsTree(d, T, P)
    BY <1>12, <1>18, <1>20 DEF IsTree
  <1>22. ASSUME NEW x \in Keys(t) PROVE EntriesOf(d)[x] = EntriesOf(t)[x]
    <2>1. PICK y \in Names(t) : /\ IsPrefix(x, y)
                                /\ FullPages(Parent(t, y)) < FullPages(x)
                                /\ FullPages(x) <= FullPages(y)
      BY LeastFact
    <2>2. /\ x \in Seq(T) /\ Whole(x) /\ FullPages(x) \in Nat
          /\ FullPages(Parent(t, y)) \in Nat
      BY <1>1, KeyFact, FullPagesFact, ParentFact
    <2>3. PICK i : i = FullPages(x) - FullPages(Parent(t, y))
      OBVIOUS
    <2>4. /\ i \in 1 .. Len(t.nodes[y].pages)
          /\ EntriesOf(t)[x] = Page(t, y, i)
      <3>1. FullPages(x) > FullPages(Parent(t, y))
        BY <2>1, <2>2
      <3> QED BY <2>1, <2>3, <3>1, EntryAt
    <2>5. CASE y # n
      <3>1. y \in Names(d) /\ Parent(d, y) = Parent(t, y)
        BY <1>6, <1>17, <2>5
      <3>2. FullPages(x) > FullPages(Parent(d, y))
        BY <2>1, <2>2, <3>1
      <3>3. EntriesOf(d)[x] = Page(d, y, i)
        BY <1>19, <1>21, <2>1, <2>3, <3>1, <3>2, EntryAt
      <3>4. Page(d, y, i) = Page(t, y, i)
        BY <1>6, <2>5 DEF Page
      <3> QED BY <2>4, <3>3, <3>4
    <2>6. CASE y = n /\ FullPages(x) <= FullPages(m)
      <3>1. IsPrefix(x, m)
        BY <1>7, <1>8, <1>9, <2>1, <2>2, <2>6, WholeChain
      <3>2. FullPages(x) > FullPages(Parent(d, m)) /\ m \in Names(d)
        BY <1>3, <1>6, <1>17, <2>1, <2>2, <2>6
      <3>3. EntriesOf(d)[x] = Page(d, m, i)
        BY <1>3, <1>17, <1>19, <1>21, <2>3, <2>6, <3>1, <3>2, EntryAt
      <3>4. i \in 1 .. k
        BY <1>3, <1>4, <1>7, <1>10, <2>1, <2>2, <2>3, <2>6
      <3> QED BY <1>6, <2>4, <2>6, <3>3, <3>4
    <2>7. CASE y = n /\ FullPages(x) > FullPages(m)
      <3>1. FullPages(x) > FullPages(Parent(d, n)) /\ n \in Names(d)
        BY <1>6, <1>17, <2>7
      <3>2. PICK j : j = FullPages(x) - FullPages(m)
        OBVIOUS
      <3>3. EntriesOf(d)[x] = Page(d, n, j)
        BY <1>17, <1>19, <1>21, <2>1, <2>7, <3>1, <3>2, EntryAt
      <3>4. i = j + k
        BY <1>3, <1>4, <1>7, <1>10, <2>2, <2>3, <2>7, <3>2
      <3>5. j \in 1 .. l - k
        BY <1>6, <1>7, <1>9, <2>1, <2>2, <2>7, <3>2
      <3>6. Page(d, n, j) = Page(t, n, j + k)
        BY <1>6, <3>5
      <3> QED BY <2>4, <2>7, <3>3, <3>4, <3>6
    <2> QED BY <2>2, <1>7, <2>5, <2>6, <2>7
  <1>23. EntriesOf(d) = EntriesOf(t)
    <2>1. /\ DOMAIN EntriesOf(t) = Keys(t)
          /\ EntriesOf(t) = [x \in DOMAIN EntriesOf(t) |-> EntriesOf(t)[x]]
      BY EntriesType
    <2> QED BY <1>19, <1>22, <2>1, EntriesEqual
  <1> QED BY <1>21, <1>23

-----------------------------------------------------------------------------
(* The lengths of sets of nodes.                                           *)

Size(t, S) == Tally([n \in S |-> Len(t.nodes[n].pages)])

LEMMA SizeNat ==
    ASSUME NEW T, NEW P, NEW t, WellFormed(t, T, P), NEW S \in SUBSET Names(t)
    PROVE  /\ IsFiniteSet(S)
           /\ [n \in S |-> Len(t.nodes[n].pages)] \in [S -> Nat]
           /\ Size(t, S) \in Nat /\ TotalLength(t, S) \in Nat
           /\ TotalLength(t, S) = Size(t, S) * PageSize
  <1>1. IsFiniteSet(S)
    BY FS_Subset DEF WellFormed
  <1>2. [n \in S |-> Len(t.nodes[n].pages)] \in [S -> Nat]
    BY NameFact
  <1>3. Size(t, S) \in Nat
    BY <1>1, <1>2, TallyNat DEF Size
  <1>4. TotalLength(t, S) = Size(t, S) * PageSize
    BY DEF TotalLength, Size
  <1> QED BY <1>1, <1>2, <1>3, <1>4, MulMonotonic

LEMMA SizeEmpty == \A t : Size(t, {}) = 0 /\ TotalLength(t, {}) = 0
  <1>1. \A t : Size(t, {}) = 0
    BY TallyEmpty DEF Size
  <1>2. 0 * PageSize = 0
    BY PageSizeAssumption, SMTT(30)
  <1> QED BY <1>1, <1>2 DEF TotalLength, Size

LEMMA SizeUnion ==
    ASSUME NEW T, NEW P, NEW t, WellFormed(t, T, P),
           NEW A \in SUBSET Names(t), NEW B \in SUBSET Names(t), A \cap B = {}
    PROVE  /\ Size(t, A \cup B) = Size(t, A) + Size(t, B)
           /\ TotalLength(t, A \cup B) = TotalLength(t, A) + TotalLength(t, B)
  <1>1. PICK f : f = [n \in A \cup B |-> Len(t.nodes[n].pages)]
    OBVIOUS
  <1>2. PICK g : g = [n \in A |-> Len(t.nodes[n].pages)]
    OBVIOUS
  <1>3. PICK h : h = [n \in B |-> Len(t.nodes[n].pages)]
    OBVIOUS
  <1>4. g = [n \in A |-> f[n]] /\ h = [n \in B |-> f[n]]
    BY <1>1, <1>2, <1>3
  <1>5. /\ IsFiniteSet(A) /\ IsFiniteSet(B) /\ f \in [A \cup B -> Nat]
    BY <1>1, SizeNat
  <1>6. Tally(f) = Tally(g) + Tally(h)
    BY <1>4, <1>5, TallyUnion
  <1>7. Size(t, A \cup B) = Size(t, A) + Size(t, B)
    BY <1>1, <1>2, <1>3, <1>6 DEF Size
  <1>8. PICK a \in Nat : a = Size(t, A)
    BY SizeNat
  <1>9. PICK b \in Nat : b = Size(t, B)
    BY SizeNat
  <1>10. (a + b) * PageSize = a * PageSize + b * PageSize
    BY PageSizeAssumption, SMTT(30)
  <1> QED BY <1>7, <1>8, <1>9, <1>10, SizeNat

LEMMA SizeOne ==
    ASSUME NEW T, NEW P, NEW t, WellFormed(t, T, P), NEW n \in Names(t)
    PROVE  Size(t, {n}) = Len(t.nodes[n].pages)
  <1>1. PICK f : f = [x \in {n} |-> Len(t.nodes[x].pages)]
    OBVIOUS
  <1>2. DOMAIN f = {n} /\ f[n] = Len(t.nodes[n].pages) /\ f[n] \in Nat
    BY <1>1, NameFact
  <1> QED BY <1>1, <1>2, TallyOne DEF Size

LEMMA SizeSame ==
    ASSUME NEW t, NEW d, NEW S,
           \A n \in S : Len(d.nodes[n].pages) = Len(t.nodes[n].pages)
    PROVE  Size(d, S) = Size(t, S) /\ TotalLength(d, S) = TotalLength(t, S)
  <1>1. [n \in S |-> Len(d.nodes[n].pages)] = [n \in S |-> Len(t.nodes[n].pages)]
    OBVIOUS
  <1> QED BY <1>1 DEF Size, TotalLength

LEMMA SizeMonotonic ==
    ASSUME NEW T, NEW P, NEW t, WellFormed(t, T, P),
           NEW A \in SUBSET Names(t), NEW B \in SUBSET A
    PROVE  TotalLength(t, B) <= TotalLength(t, A) /\ Size(t, B) <= Size(t, A)
  <1>1. A = B \cup (A \ B) /\ B \cap (A \ B) = {}
    OBVIOUS
  <1>2. Size(t, A) = Size(t, B) + Size(t, A \ B)
        /\ TotalLength(t, A) = TotalLength(t, B) + TotalLength(t, A \ B)
    <2>1. /\ Size(t, B \cup (A \ B)) = Size(t, B) + Size(t, A \ B)
          /\ TotalLength(t, B \cup (A \ B)) = TotalLength(t, B) + TotalLength(t, A \ B)
      BY SizeUnion
    <2> QED BY <1>1, <2>1
  <1>3. /\ Size(t, B) \in Nat /\ Size(t, A \ B) \in Nat
        /\ TotalLength(t, B) \in Nat /\ TotalLength(t, A \ B) \in Nat
    BY SizeNat
  <1> QED BY <1>2, <1>3

(* A split moves pages inside a set that has the old node and the new one. *)
LEMMA SplitSize ==
    ASSUME NEW T, NEW P, NEW t, IsTree(t, T, P),
           NEW m \in Keys(t), m \notin Names(t), NEW d, d = SplitAt(t, m),
           NEW S \in SUBSET Names(t), Below(t, m) \in S
    PROVE  TotalLength(d, S \cup {m}) = TotalLength(t, S)
  <1>1. WellFormed(t, T, P) /\ WellFormed(d, T, P)
    BY SplitTree DEF IsTree
  <1>2. PICK n : n = Below(t, m)
    OBVIOUS
  <1>3. PICK k : k = FullPages(m) - FullPages(Parent(t, n))
    OBVIOUS
  <1>4. PICK l : l = Len(t.nodes[n].pages)
    OBVIOUS
  <1>5. /\ Names(d) = Names(t) \cup {m} /\ n \in Names(t) /\ m # n
        /\ k \in Nat \ {0} /\ l \in Nat /\ k < l
        /\ \A x \in Names(t) \ {n} : d.nodes[x] = t.nodes[x]
        /\ Len(d.nodes[m].pages) = k
        /\ Len(d.nodes[n].pages) = l - k
    BY <1>2, <1>3, <1>4, SplitNodes
  <1>6. n \in S
    BY <1>2
  <1>7. TotalLength(d, S \cup {m}) = TotalLength(t, S)
    <2>1. PICK R : R = S \ {n}
      OBVIOUS
    <2>2. R \in SUBSET Names(t) /\ R \in SUBSET Names(d) /\ n \notin R
      BY <1>5, <2>1
    <2>3. Size(d, R) = Size(t, R)
      <3>1. \A x \in R : Len(d.nodes[x].pages) = Len(t.nodes[x].pages)
        BY <1>5, <2>2
      <3> QED BY <3>1, SizeSame
    <2>4. Size(t, S) = Size(t, R) + l
      <3>1. S = R \cup {n} /\ R \cap {n} = {}
        BY <1>6, <2>1
      <3>2. Size(t, R \cup {n}) = Size(t, R) + Size(t, {n})
        BY <1>1, <1>5, <2>2, <3>1, SizeUnion
      <3> QED BY <1>1, <1>4, <1>5, <3>1, <3>2, SizeOne
    <2>5. Size(d, S \cup {m}) = Size(d, R) + ((l - k) + k)
      <3>1. PICK B : B = {n} \cup {m}
        OBVIOUS
      <3>2. S \cup {m} = R \cup B /\ R \cap B = {} /\ {n} \cap {m} = {}
            /\ B \in SUBSET Names(d)
        BY <1>5, <1>6, <2>1, <3>1
      <3>3. Size(d, R \cup B) = Size(d, R) + Size(d, B)
        BY <1>1, <2>2, <3>2, SizeUnion
      <3>4. Size(d, {n} \cup {m}) = Size(d, {n}) + Size(d, {m})
        BY <1>1, <1>5, <3>2, SizeUnion
      <3>5. Size(d, {n}) = l - k /\ Size(d, {m}) = k
        BY <1>1, <1>5, SizeOne
      <3> QED BY <3>1, <3>2, <3>3, <3>4, <3>5
    <2>6. (l - k) + k = l
      BY <1>5
    <2>7. Size(d, S \cup {m}) = Size(t, S)
      BY <2>3, <2>4, <2>5, <2>6
    <2> QED BY <2>7 DEF Size, TotalLength
  <1> QED BY <1>7

LEMMA SplitAccounted ==
    ASSUME NEW T, NEW P, NEW t, IsTree(t, T, P),
           NEW U, NEW h, Accounted(t, U, h),
           NEW m \in Keys(t), m \notin Names(t), NEW d, d = SplitAt(t, m)
    PROVE  Accounted(d, U, h)
  <1>1. WellFormed(t, T, P) /\ WellFormed(d, T, P)
    BY SplitTree DEF IsTree
  <1>2. PICK n : n = Below(t, m)
    OBVIOUS
  <1>3. /\ d = [nodes |-> d.nodes, evictable |-> t.evictable,
                protected |-> t.protected]
        /\ Names(d) = Names(t) \cup {m} /\ n \in Names(t) /\ m # n
        /\ \A x \in Names(t) \ {n} : d.nodes[x] = t.nodes[x]
        /\ d.nodes[m].ref = t.nodes[n].ref /\ d.nodes[n].ref = t.nodes[n].ref
    <2>1. PICK k : k = FullPages(m) - FullPages(Parent(t, n))
      OBVIOUS
    <2>2. PICK l : l = Len(t.nodes[n].pages)
      OBVIOUS
    <2> QED BY <1>2, <2>1, <2>2, SplitNodes
  <1>4. d.evictable = t.evictable /\ d.protected = t.protected
    BY <1>3
  <1>5. \A x \in Names(t) : d.nodes[x].ref = t.nodes[x].ref
    BY <1>3
  <1>6. PICK A : A = Evictable(t)
    OBVIOUS
  <1>7. PICK B : B = Names(t) \ Evictable(t)
    OBVIOUS
  <1>8. A \in SUBSET Names(t) /\ B \in SUBSET Names(t)
    BY <1>6, <1>7 DEF Evictable
  <1>9. t.evictable = TotalLength(t, A) /\ t.protected = TotalLength(t, B)
    BY <1>6, <1>7 DEF Accounted, CountersExact
  <1>10. ASSUME t.nodes[n].ref = 0 PROVE CountersExact(d)
    <2>1. n \in A /\ n \notin B
      BY <1>3, <1>6, <1>7, <1>10 DEF Evictable
    <2>2. Evictable(d) = A \cup {m} /\ Names(d) \ Evictable(d) = B
      BY <1>3, <1>5, <1>6, <1>7, <1>10 DEF Evictable
    <2>3. TotalLength(d, A \cup {m}) = TotalLength(t, A)
      BY <1>2, <1>8, <2>1, SplitSize
    <2>4. TotalLength(d, B) = TotalLength(t, B)
      <3>1. \A x \in B : Len(d.nodes[x].pages) = Len(t.nodes[x].pages)
        BY <1>3, <1>8, <2>1
      <3> QED BY <3>1, SizeSame
    <2> QED BY <1>4, <1>9, <2>2, <2>3, <2>4 DEF CountersExact
  <1>11. ASSUME t.nodes[n].ref # 0 PROVE CountersExact(d)
    <2>1. n \notin A /\ n \in B
      BY <1>3, <1>6, <1>7, <1>11 DEF Evictable
    <2>2. Evictable(d) = A /\ Names(d) \ Evictable(d) = B \cup {m}
      BY <1>3, <1>5, <1>6, <1>7, <1>11 DEF Evictable
    <2>3. TotalLength(d, A) = TotalLength(t, A)
      <3>1. \A x \in A : Len(d.nodes[x].pages) = Len(t.nodes[x].pages)
        BY <1>3, <1>8, <2>1
      <3> QED BY <3>1, SizeSame
    <2>4. TotalLength(d, B \cup {m}) = TotalLength(t, B)
      BY <1>2, <1>8, <2>1, SplitSize
    <2> QED BY <1>4, <1>9, <2>2, <2>3, <2>4 DEF CountersExact
  <1>12. \A u \in U : h[u] \in Names(t) \cup {<< >>}
    BY DEF Accounted
  <1>13. RefsExact(d, U, h)
    <2>1. Users(m, U, h) = Users(n, U, h)
      <3>1. /\ IsLeast(t, m, n) /\ IsPrefix(m, n)
            /\ m \in Seq(T) /\ m # << >> /\ n \in Seq(T)
        BY <1>1, <1>2, <1>3, BelowFact, KeyFact, NameFact DEF IsLeast
      <3>2. ASSUME NEW u \in U PROVE IsPrefix(m, h[u]) <=> IsPrefix(n, h[u])
        <4>1. h[u] \in Seq(T)
          BY <1>1, <1>12, RootOrName
        <4>2. IsPrefix(n, h[u]) => IsPrefix(m, h[u])
          BY <3>1, <4>1, PrefixTrans
        <4>3. IsPrefix(m, h[u]) => h[u] \in Names(t)
          BY <1>12, <3>1, EmptyPrefix
        <4> QED BY <3>1, <4>2, <4>3 DEF IsLeast
      <3> QED BY <3>2 DEF Users
    <2>2. \A x \in Names(t) : t.nodes[x].ref = Cardinality(Users(x, U, h))
      BY DEF Accounted, RefsExact
    <2>3. ASSUME NEW x \in Names(d)
          PROVE  d.nodes[x].ref = Cardinality(Users(x, U, h))
      BY <1>3, <1>5, <2>1, <2>2
    <2> QED BY <2>3 DEF RefsExact
  <1>14. \A u \in U : h[u] \in Names(d) \cup {<< >>}
    BY <1>3, <1>12
  <1> QED BY <1>10, <1>11, <1>13, <1>14 DEF Accounted

(* split_at where the walk ends, whether or not a node ends there.         *)
LEMMA SplitFact ==
    ASSUME NEW T, NEW P, NEW t, IsTree(t, T, P),
           NEW U, NEW h, Accounted(t, U, h),
           NEW m \in Keys(t) \cup {<< >>}, NEW d, d = SplitAt(t, m)
    PROVE  /\ IsTree(d, T, P) /\ EntriesOf(d) = EntriesOf(t)
           /\ Accounted(d, U, h)
           /\ m \in Names(d) \cup {<< >>}
           /\ d.evictable = t.evictable
  <1>1. CASE m = << >> \/ m \in Names(t)
    BY <1>1 DEF SplitAt
  <1>2. CASE m # << >> /\ m \notin Names(t)
    <2>1. m \in Keys(t)
      BY <1>2
    <2>2. IsTree(d, T, P) /\ EntriesOf(d) = EntriesOf(t)
      BY <1>2, <2>1, SplitTree
    <2>3. Accounted(d, U, h)
      BY <1>2, <2>1, SplitAccounted
    <2>4. m \in Names(d) /\ d.evictable = t.evictable
      <3>1. PICK n : n = Below(t, m)
        OBVIOUS
      <3>2. PICK k : k = FullPages(m) - FullPages(Parent(t, n))
        OBVIOUS
      <3>3. PICK l : l = Len(t.nodes[n].pages)
        OBVIOUS
      <3>4. /\ d = [nodes |-> d.nodes, evictable |-> t.evictable,
                    protected |-> t.protected]
            /\ Names(d) = Names(t) \cup {m}
        BY <1>2, <2>1, <3>1, <3>2, <3>3, SplitNodes
      <3>5. d.evictable = t.evictable
        BY <3>4
      <3> QED BY <3>4, <3>5
    <2> QED BY <2>2, <2>3, <2>4
  <1> QED BY <1>1, <1>2

-----------------------------------------------------------------------------
(* Reference counts: lock_handle changes neither names nor pages.          *)

SameSizes(d, t) ==
    \A S \in SUBSET Names(t) : TotalLength(d, S) = TotalLength(t, S)
RefsMoved(d, t, path, e) ==
    /\ \A n \in Names(t) \ path : d.nodes[n].ref = t.nodes[n].ref
    /\ \A n \in path : d.nodes[n].ref = t.nodes[n].ref + e

Relinked(t, path, e, a, b) ==
    [nodes |-> WithRefs(t, path, e), evictable |-> a, protected |-> b]

LEMMA SamePages ==
    ASSUME NEW T, NEW P, NEW t, IsTree(t, T, P), NEW d, WellFormed(d, T, P),
           Names(d) = Names(t),
           \A n \in Names(t) : d.nodes[n].pages = t.nodes[n].pages
    PROVE  /\ IsTree(d, T, P) /\ EntriesOf(d) = EntriesOf(t)
           /\ SameSizes(d, t)
  <1>1. \A n : Parent(d, n) = Parent(t, n)
    BY DEF Parent
  <1>2. Keys(d) = Keys(t)
    BY DEF Keys
  <1>3. Segmented(d)
    BY DEF IsTree, Segmented, IsParent
  <1>4. Branching(d)
    BY <1>2 DEF IsTree, Branching, IsLeast
  <1>5. ASSUME NEW S \in SUBSET Names(t)
        PROVE  TotalLength(d, S) = TotalLength(t, S)
    <2>1. \A n \in S : Len(d.nodes[n].pages) = Len(t.nodes[n].pages)
      OBVIOUS
    <2> QED BY <2>1, SizeSame
  <1>6. IsTree(d, T, P)
    BY <1>3, <1>4 DEF IsTree
  <1>7. ASSUME NEW k \in Keys(t) PROVE EntriesOf(d)[k] = EntriesOf(t)[k]
    <2>1. PICK n \in Names(t) : /\ IsPrefix(k, n)
                                /\ FullPages(Parent(t, n)) < FullPages(k)
      BY LeastFact
    <2>2. FullPages(k) > FullPages(Parent(t, n))
      <3>1. k \in Seq(T) /\ FullPages(k) \in Nat /\ FullPages(Parent(t, n)) \in Nat
        BY KeyFact, FullPagesFact, ParentFact DEF IsTree
      <3> QED BY <2>1, <3>1
    <2>3. PICK i : i = FullPages(k) - FullPages(Parent(t, n))
      OBVIOUS
    <2>4. EntriesOf(t)[k] = Page(t, n, i)
      BY <2>1, <2>2, <2>3, EntryAt
    <2>5. EntriesOf(d)[k] = Page(d, n, i)
      BY <1>1, <1>2, <1>6, <2>1, <2>2, <2>3, EntryAt
    <2> QED BY <2>4, <2>5 DEF Page
  <1>8. EntriesOf(d) = EntriesOf(t)
    <2>1. /\ DOMAIN EntriesOf(t) = Keys(t)
          /\ EntriesOf(t) = [x \in DOMAIN EntriesOf(t) |-> EntriesOf(t)[x]]
      BY EntriesType
    <2> QED BY <1>2, <1>7, <2>1, EntriesEqual
  <1> QED BY <1>5, <1>6, <1>8 DEF SameSizes

LEMMA WithRefsFact ==
    ASSUME NEW T, NEW P, NEW t, IsTree(t, T, P), NEW path \in SUBSET Names(t),
           NEW e \in Int, \A n \in path : t.nodes[n].ref + e \in Nat,
           NEW a, NEW b,
           NEW d, d = Relinked(t, path, e, a, b)
    PROVE  /\ IsTree(d, T, P) /\ EntriesOf(d) = EntriesOf(t)
           /\ Names(d) = Names(t)
           /\ SameSizes(d, t) /\ RefsMoved(d, t, path, e)
           /\ d.evictable = a /\ d.protected = b
  <1>1. WellFormed(t, T, P)
    BY DEF IsTree
  <1>2. PICK w : w = WithRefs(t, path, e)
    OBVIOUS
  <1>3. d = [nodes |-> w, evictable |-> a, protected |-> b]
    BY <1>2 DEF Relinked
  <1>4. d.nodes = w /\ d.evictable = a /\ d.protected = b
    BY ONLY <1>3
  <1>5. /\ DOMAIN w = Names(t) /\ w = [n \in Names(t) |-> w[n]]
        /\ \A n \in path : w[n] = [t.nodes[n] EXCEPT !.ref = @ + e]
        /\ \A n \in Names(t) \ path : w[n] = t.nodes[n]
    BY <1>2 DEF WithRefs
  <1>6. ASSUME NEW n \in path
        PROVE  /\ w[n] \in [pages : Seq(P), ref : Nat]
               /\ w[n].pages = t.nodes[n].pages
               /\ w[n].ref = t.nodes[n].ref + e
    <2>1. PICK r \in [pages : Seq(P), ref : Nat] : r = t.nodes[n]
      BY <1>1, NameFact
    <2>2. w[n] = [r EXCEPT !.ref = @ + e] /\ r.ref + e \in Nat
      BY <1>5, <2>1
    <2> QED BY <2>1, <2>2
  <1>7. ASSUME NEW n \in Names(t)
        PROVE  /\ w[n] \in [pages : Seq(P), ref : Nat]
               /\ w[n].pages = t.nodes[n].pages
    <2>1. CASE n \in path
      BY <1>6, <2>1
    <2>2. CASE n \notin path
      BY <1>1, <1>5, <2>2, NameFact
    <2> QED BY <2>1, <2>2
  <1>8. Names(d) = Names(t)
    BY <1>4, <1>5 DEF Names
  <1>9. WellFormed(d, T, P)
    <2>1. d.nodes \in [Names(d) -> [pages : Seq(P), ref : Nat]]
      BY <1>4, <1>5, <1>7, <1>8
    <2>2. d = [nodes |-> d.nodes, evictable |-> d.evictable, protected |-> d.protected]
      BY <1>3, <1>4
    <2> QED BY <1>1, <1>8, <2>1, <2>2 DEF WellFormed
  <1>10. \A n \in Names(t) : d.nodes[n].pages = t.nodes[n].pages
    BY <1>4, <1>7
  <1>11. IsTree(d, T, P) /\ EntriesOf(d) = EntriesOf(t) /\ SameSizes(d, t)
    BY ONLY IsTree(t, T, P), <1>8, <1>9, <1>10, SamePages
  <1>12. RefsMoved(d, t, path, e)
    BY <1>4, <1>5, <1>6 DEF RefsMoved
  <1> QED BY <1>4, <1>8, <1>11, <1>12

Agree(U, g, h) == \A v \in U : g[v] = h[v]
SameMap(d, t) == Names(d) = Names(t) /\ EntriesOf(d) = EntriesOf(t)
PathAt(t, x, ref) == {n \in PathTo(t, x) : t.nodes[n].ref = ref}
LockSize(t, d, x) == d.evictable = t.evictable - TotalLength(t, PathAt(t, x, 0))
UnlockSize(t, d, x) == d.evictable = t.evictable + TotalLength(t, PathAt(t, x, 1))

(* lock_handle(unlock = False): one more user of the node x.               *)
LEMMA LockFact ==
    ASSUME NEW T, NEW P, NEW t, IsTree(t, T, P),
           NEW U, NEW h, Accounted(t, U, h), IsFiniteSet(U),
           NEW x \in Names(t) \cup {<< >>}, NEW u, u \notin U,
           NEW g, g[u] = x, Agree(U, g, h),
           NEW d, d = Lock(t, x)
    PROVE  /\ IsTree(d, T, P) /\ SameMap(d, t)
           /\ Accounted(d, U \cup {u}, g)
           /\ LockSize(t, d, x)
  <1>0. \A v \in U : g[v] = h[v]
    BY DEF Agree
  <1>1. WellFormed(t, T, P)
    BY DEF IsTree
  <1>2. PICK path \in SUBSET Names(t) : path = PathTo(t, x)
    BY DEF PathTo
  <1>3. PICK Z : Z = {n \in path : t.nodes[n].ref = 0}
    OBVIOUS
  <1>4. PICK size : size = TotalLength(t, Z)
    OBVIOUS
  <1>5. d = [t EXCEPT !.nodes = WithRefs(t, path, 1),
                      !.evictable = @ - size, !.protected = @ + size]
    BY <1>2, <1>3, <1>4 DEF Lock
  <1>6. \A n \in Names(t) : t.nodes[n].ref \in Nat
    BY <1>1, NameFact
  <1>7. /\ IsTree(d, T, P) /\ EntriesOf(d) = EntriesOf(t)
        /\ Names(d) = Names(t)
        /\ \A S \in SUBSET Names(t) : TotalLength(d, S) = TotalLength(t, S)
        /\ d.evictable = t.evictable - size /\ d.protected = t.protected + size
        /\ \A n \in Names(t) \ path : d.nodes[n].ref = t.nodes[n].ref
        /\ \A n \in path : d.nodes[n].ref = t.nodes[n].ref + 1
    <2>1. PICK a : a = t.evictable - size
      OBVIOUS
    <2>2. PICK b : b = t.protected + size
      OBVIOUS
    <2>3. PICK e \in Int : e = 1
      OBVIOUS
    <2>4. d = Relinked(t, path, e, a, b)
      <3>1. t = [nodes |-> t.nodes, evictable |-> t.evictable,
                 protected |-> t.protected]
        BY <1>1 DEF WellFormed
      <3> QED BY <1>5, <2>1, <2>2, <2>3, <3>1 DEF Relinked
    <2>5. \A n \in path : t.nodes[n].ref + e \in Nat
      BY <1>6, <2>3
    <2>6. /\ IsTree(d, T, P) /\ EntriesOf(d) = EntriesOf(t)
          /\ Names(d) = Names(t) /\ SameSizes(d, t) /\ RefsMoved(d, t, path, e)
          /\ d.evictable = a /\ d.protected = b
      BY ONLY IsTree(t, T, P), path \in SUBSET Names(t), e \in Int,
              <2>4, <2>5, WithRefsFact
    <2> QED BY <2>1, <2>2, <2>3, <2>6 DEF SameSizes, RefsMoved
  <1>8. PICK A : A = Evictable(t)
    OBVIOUS
  <1>9. PICK B : B = Names(t) \ A
    OBVIOUS
  <1>10. /\ A \in SUBSET Names(t) /\ B \in SUBSET Names(t)
         /\ Z \in SUBSET A /\ Z \in SUBSET Names(t)
         /\ A \ Z \in SUBSET Names(t)
    BY <1>3, <1>8, <1>9 DEF Evictable
  <1>11. Evictable(d) = A \ Z /\ Names(d) \ Evictable(d) = B \cup Z
    <2>1. ASSUME NEW n \in Names(t)
          PROVE  d.nodes[n].ref = 0 <=> n \in A /\ n \notin Z
      <3>1. CASE n \in path
        <4>1. d.nodes[n].ref = t.nodes[n].ref + 1 /\ t.nodes[n].ref \in Nat
          BY <1>6, <1>7, <3>1
        <4>2. d.nodes[n].ref # 0
          BY <4>1
        <4> QED BY <1>3, <1>8, <3>1, <4>2 DEF Evictable
      <3>2. CASE n \notin path
        BY <1>3, <1>7, <1>8, <3>2 DEF Evictable
      <3> QED BY <3>1, <3>2
    <2>2. Evictable(d) = A \ Z
      BY <1>7, <1>10, <2>1 DEF Evictable
    <2> QED BY <1>7, <1>9, <1>10, <2>2
  <1>12. t.evictable = TotalLength(t, A) /\ t.protected = TotalLength(t, B)
    BY <1>8, <1>9 DEF Accounted, CountersExact
  <1>13. CountersExact(d)
    <2>1. PICK az \in Nat : az = TotalLength(t, A \ Z)
      BY <1>1, <1>10, SizeNat
    <2>2. PICK z \in Nat : z = TotalLength(t, Z)
      BY <1>1, <1>10, SizeNat
    <2>3. TotalLength(t, (A \ Z) \cup Z) = az + z
      <3>1. (A \ Z) \cap Z = {}
        OBVIOUS
      <3>2. TotalLength(t, (A \ Z) \cup Z) = TotalLength(t, A \ Z) + TotalLength(t, Z)
        BY ONLY <1>1, <1>10, <3>1, SizeUnion
      <3> QED BY <2>1, <2>2, <3>2
    <2>4. (A \ Z) \cup Z = A
      BY <1>10
    <2>5. TotalLength(t, B \cup Z) = TotalLength(t, B) + TotalLength(t, Z)
      <3>1. B \cap Z = {}
        BY <1>9, <1>10
      <3> QED BY <1>1, <1>10, <3>1, SizeUnion
    <2>6. d.evictable = az
      <3>1. t.evictable = az + z
        BY <1>12, <2>3, <2>4
      <3>2. d.evictable = az + z - z
        BY <1>4, <1>7, <2>2, <3>1
      <3> QED BY <3>2
    <2>7. d.evictable = TotalLength(d, A \ Z)
      BY <1>7, <1>10, <2>1, <2>6
    <2>8. d.protected = TotalLength(d, B \cup Z)
      <3>1. B \cup Z \in SUBSET Names(t)
        BY <1>10
      <3> QED BY <1>4, <1>7, <1>12, <2>5, <3>1
    <2> QED BY <1>11, <2>7, <2>8 DEF CountersExact
  <1>14. RefsExact(d, U \cup {u}, g)
    <2>1. ASSUME NEW n \in Names(t)
          PROVE  d.nodes[n].ref = Cardinality(Users(n, U \cup {u}, g))
      <3>1. PICK C : C = Users(n, U, h)
        OBVIOUS
      <3>2. t.nodes[n].ref = Cardinality(C)
        BY <3>1 DEF Accounted, RefsExact
      <3>3. IsFiniteSet(C) /\ u \notin C
        <4>1. C \in SUBSET U
          BY <3>1 DEF Users
        <4> QED BY <4>1, FS_Subset
      <3>4. CASE n \in path
        <4>1. Users(n, U \cup {u}, g) = C \cup {u}
          BY <1>0, <1>2, <3>1, <3>4 DEF Users, PathTo
        <4>2. Cardinality(C \cup {u}) = Cardinality(C) + 1
          BY <3>3, FS_AddElement
        <4> QED BY <1>7, <3>2, <3>4, <4>1, <4>2
      <3>5. CASE n \notin path
        <4>1. Users(n, U \cup {u}, g) = C
          BY <1>0, <1>2, <3>1, <3>5 DEF Users, PathTo
        <4> QED BY <1>7, <3>2, <3>5, <4>1
      <3> QED BY <3>4, <3>5
    <2> QED BY <1>7, <2>1 DEF RefsExact
  <1>15. \A v \in U \cup {u} : g[v] \in Names(d) \cup {<< >>}
    <2>1. \A v \in U : g[v] = h[v]
      BY DEF Agree
    <2> QED BY <1>7, <2>1 DEF Accounted
  <1>16. Accounted(d, U \cup {u}, g)
    BY <1>13, <1>14, <1>15 DEF Accounted
  <1>17. LockSize(t, d, x)
    BY <1>2, <1>3, <1>4, <1>7 DEF LockSize, PathAt
  <1> QED BY <1>7, <1>16, <1>17 DEF SameMap

(* lock_handle(unlock = True): u gives up its node.                        *)
LEMMA UnlockFact ==
    ASSUME NEW T, NEW P, NEW t, IsTree(t, T, P),
           NEW U, NEW h, Accounted(t, U, h), IsFiniteSet(U),
           NEW u \in U, NEW x, x = h[u],
           NEW g, Agree(U \ {u}, g, h),
           NEW d, d = Unlock(t, x)
    PROVE  /\ IsTree(d, T, P) /\ SameMap(d, t)
           /\ Accounted(d, U \ {u}, g)
           /\ UnlockSize(t, d, x)
           /\ RefsMoved(d, t, PathTo(t, x), -1)
  <1>0. \A v \in U \ {u} : g[v] = h[v]
    BY DEF Agree
  <1>1. WellFormed(t, T, P)
    BY DEF IsTree
  <1>2. PICK path \in SUBSET Names(t) : path = PathTo(t, x)
    BY DEF PathTo
  <1>3. PICK Z : Z = {n \in path : t.nodes[n].ref = 1}
    OBVIOUS
  <1>4. PICK size : size = TotalLength(t, Z)
    OBVIOUS
  <1>5. d = [t EXCEPT !.nodes = WithRefs(t, path, -1),
                      !.evictable = @ + size, !.protected = @ - size]
    BY <1>2, <1>3, <1>4 DEF Unlock
  <1>6. \A n \in Names(t) : t.nodes[n].ref \in Nat
    BY <1>1, NameFact
  <1>7. \A n \in path : t.nodes[n].ref - 1 \in Nat
    <2> TAKE n \in path
    <2>1. PICK C : C = Users(n, U, h)
      OBVIOUS
    <2>2. C \in SUBSET U /\ u \in C
      BY <1>2, <2>1 DEF Users, PathTo
    <2>3. IsFiniteSet(C) /\ Cardinality(C) # 0 /\ Cardinality(C) \in Nat
      BY <2>2, FS_Subset, FS_EmptySet, CardinalNat
    <2>4. t.nodes[n].ref = Cardinality(C)
      BY <2>1 DEF Accounted, RefsExact
    <2> QED BY <2>3, <2>4
  <1>8. /\ IsTree(d, T, P) /\ EntriesOf(d) = EntriesOf(t)
        /\ Names(d) = Names(t)
        /\ \A S \in SUBSET Names(t) : TotalLength(d, S) = TotalLength(t, S)
        /\ d.evictable = t.evictable + size /\ d.protected = t.protected - size
        /\ \A n \in Names(t) \ path : d.nodes[n].ref = t.nodes[n].ref
        /\ \A n \in path : d.nodes[n].ref = t.nodes[n].ref - 1
    <2>1. PICK a : a = t.evictable + size
      OBVIOUS
    <2>2. PICK b : b = t.protected - size
      OBVIOUS
    <2>3. PICK e \in Int : e = -1
      OBVIOUS
    <2>4. d = Relinked(t, path, e, a, b)
      <3>1. t = [nodes |-> t.nodes, evictable |-> t.evictable,
                 protected |-> t.protected]
        BY <1>1 DEF WellFormed
      <3> QED BY <1>5, <2>1, <2>2, <2>3, <3>1 DEF Relinked
    <2>5. \A n \in path : t.nodes[n].ref + e \in Nat
      BY <1>6, <1>7, <2>3
    <2>6. /\ IsTree(d, T, P) /\ EntriesOf(d) = EntriesOf(t)
          /\ Names(d) = Names(t) /\ SameSizes(d, t) /\ RefsMoved(d, t, path, e)
          /\ d.evictable = a /\ d.protected = b
      BY ONLY IsTree(t, T, P), path \in SUBSET Names(t), e \in Int,
              <2>4, <2>5, WithRefsFact
    <2>7. \A n \in path : t.nodes[n].ref + e = t.nodes[n].ref - 1
      BY <1>6, <2>3
    <2> QED BY <2>1, <2>2, <2>6, <2>7 DEF SameSizes, RefsMoved
  <1>9. PICK A : A = Evictable(t)
    OBVIOUS
  <1>10. PICK B : B = Names(t) \ A
    OBVIOUS
  <1>11. /\ A \in SUBSET Names(t) /\ B \in SUBSET Names(t)
         /\ Z \in SUBSET B /\ Z \in SUBSET Names(t)
         /\ B \ Z \in SUBSET Names(t)
    BY <1>3, <1>9, <1>10 DEF Evictable
  <1>12. Evictable(d) = A \cup Z /\ Names(d) \ Evictable(d) = B \ Z
    <2>1. ASSUME NEW n \in Names(t)
          PROVE  d.nodes[n].ref = 0 <=> n \in A \/ n \in Z
      <3>1. CASE n \in path
        <4>1. d.nodes[n].ref = t.nodes[n].ref - 1 /\ t.nodes[n].ref \in Nat
              /\ t.nodes[n].ref - 1 \in Nat
          BY <1>6, <1>7, <1>8, <3>1
        <4>2. d.nodes[n].ref = 0 <=> t.nodes[n].ref = 1
          BY <4>1
        <4>3. t.nodes[n].ref # 0
          BY <4>1
        <4> QED BY <1>3, <1>9, <3>1, <4>2, <4>3 DEF Evictable
      <3>2. CASE n \notin path
        BY <1>3, <1>8, <1>9, <3>2 DEF Evictable
      <3> QED BY <3>1, <3>2
    <2>2. Evictable(d) = A \cup Z
      BY <1>8, <1>11, <2>1 DEF Evictable
    <2> QED BY <1>8, <1>10, <1>11, <2>2
  <1>13. t.evictable = TotalLength(t, A) /\ t.protected = TotalLength(t, B)
    BY <1>9, <1>10 DEF Accounted, CountersExact
  <1>14. CountersExact(d)
    <2>1. PICK bz \in Nat : bz = TotalLength(t, B \ Z)
      BY <1>1, <1>11, SizeNat
    <2>2. PICK z \in Nat : z = TotalLength(t, Z)
      BY <1>1, <1>11, SizeNat
    <2>3. TotalLength(t, (B \ Z) \cup Z) = bz + z
      <3>1. (B \ Z) \cap Z = {}
        OBVIOUS
      <3>2. TotalLength(t, (B \ Z) \cup Z) = TotalLength(t, B \ Z) + TotalLength(t, Z)
        BY <1>1, <1>11, <3>1, SizeUnion
      <3> QED BY <2>1, <2>2, <3>2
    <2>4. (B \ Z) \cup Z = B
      BY <1>11
    <2>5. TotalLength(t, A \cup Z) = TotalLength(t, A) + TotalLength(t, Z)
      <3>1. A \cap Z = {}
        BY <1>10, <1>11
      <3> QED BY <1>1, <1>11, <3>1, SizeUnion
    <2>6. d.protected = bz
      <3>1. t.protected = bz + z
        BY <1>13, <2>3, <2>4
      <3>2. d.protected = bz + z - z
        BY <1>4, <1>8, <2>2, <3>1
      <3> QED BY <3>2
    <2>7. d.protected = TotalLength(d, B \ Z)
      BY <1>8, <1>11, <2>1, <2>6
    <2>8. d.evictable = TotalLength(d, A \cup Z)
      <3>1. A \cup Z \in SUBSET Names(t)
        BY <1>11
      <3> QED BY <1>4, <1>8, <1>13, <2>5, <3>1
    <2> QED BY <1>12, <2>7, <2>8 DEF CountersExact
  <1>15. RefsExact(d, U \ {u}, g)
    <2>1. ASSUME NEW n \in Names(t)
          PROVE  d.nodes[n].ref = Cardinality(Users(n, U \ {u}, g))
      <3>1. PICK C : C = Users(n, U, h)
        OBVIOUS
      <3>2. t.nodes[n].ref = Cardinality(C)
        BY <3>1 DEF Accounted, RefsExact
      <3>3. IsFiniteSet(C)
        <4>1. C \in SUBSET U
          BY <3>1 DEF Users
        <4> QED BY <4>1, FS_Subset
      <3>4. Users(n, U \ {u}, g) = C \ {u}
        BY <1>0, <3>1 DEF Users
      <3>5. u \in C <=> n \in path
        BY <1>2, <3>1 DEF Users, PathTo
      <3>6. Cardinality(C \ {u}) = IF u \in C THEN Cardinality(C) - 1
                                              ELSE Cardinality(C)
        BY <3>3, FS_RemoveElement
      <3> QED BY <1>8, <3>2, <3>4, <3>5, <3>6
    <2> QED BY <1>8, <2>1 DEF RefsExact
  <1>16. \A v \in U \ {u} : g[v] \in Names(d) \cup {<< >>}
    <2>1. \A v \in U \ {u} : g[v] = h[v]
      BY DEF Agree
    <2> QED BY <1>8, <2>1 DEF Accounted
  <1>17. Accounted(d, U \ {u}, g)
    BY <1>14, <1>15, <1>16 DEF Accounted
  <1>18. UnlockSize(t, d, x)
    BY <1>2, <1>3, <1>4, <1>8 DEF UnlockSize, PathAt
  <1>19. RefsMoved(d, t, PathTo(t, x), -1)
    BY <1>2, <1>8 DEF RefsMoved
  <1> QED BY <1>8, <1>17, <1>18, <1>19 DEF SameMap

-----------------------------------------------------------------------------
(* insert_prefix hangs a leaf of new pages under the node of the walk.     *)
Leaf(pages) == [pages |-> pages, ref |-> 0]
WithLeaf(t, key, pages, e) ==
    [nodes |-> [x \in Names(t) \cup {key} |-> IF x = key THEN Leaf(pages)
                                                        ELSE t.nodes[x]],
     evictable |-> e, protected |-> t.protected]
NewOf(key, m) == {UpTo(key, i) : i \in FullPages(m) + 1 .. FullPages(key)}
IsNew(t, key, m) ==
    \A i \in FullPages(m) + 1 .. FullPages(key) : UpTo(key, i) \notin Keys(t)

LEMMA LeafNodes ==
    ASSUME NEW T, NEW P, NEW t, WellFormed(t, T, P), NEW key, key \notin Names(t),
           NEW pages \in Seq(P), NEW e, NEW d, d = WithLeaf(t, key, pages, e)
    PROVE  /\ d = [nodes |-> d.nodes, evictable |-> e, protected |-> t.protected]
           /\ Names(d) = Names(t) \cup {key}
           /\ d.nodes \in [Names(d) -> [pages : Seq(P), ref : Nat]]
           /\ \A x \in Names(t) : d.nodes[x] = t.nodes[x]
           /\ d.nodes[key].pages = pages /\ d.nodes[key].ref = 0
  <1>1. PICK w : w = [x \in Names(t) \cup {key} |-> IF x = key THEN Leaf(pages)
                                                           ELSE t.nodes[x]]
    OBVIOUS
  <1>2. d = [nodes |-> w, evictable |-> e, protected |-> t.protected]
    BY <1>1 DEF WithLeaf
  <1>3. d.nodes = w
    BY ONLY <1>2
  <1>4. /\ DOMAIN w = Names(t) \cup {key}
        /\ w = [x \in Names(t) \cup {key} |-> w[x]]
        /\ w[key] = Leaf(pages)
        /\ \A x \in Names(t) : w[x] = t.nodes[x]
    BY <1>1
  <1>5. Leaf(pages) \in [pages : Seq(P), ref : Nat] /\ Leaf(pages).pages = pages
        /\ Leaf(pages).ref = 0
    BY DEF Leaf
  <1>6. w \in [Names(t) \cup {key} -> [pages : Seq(P), ref : Nat]]
    BY <1>4, <1>5, NameFact
  <1> QED BY <1>2, <1>3, <1>4, <1>5, <1>6 DEF Names

LEMMA LeafTree ==
    ASSUME NEW T, NEW P, NEW t, IsTree(t, T, P),
           NEW m \in Names(t) \cup {<< >>},
           NEW key \in Seq(T), Whole(key), IsStrictPrefix(m, key),
           IsNew(t, key, m),
           NEW pages \in Seq(P), Len(pages) = FullPages(key) - FullPages(m),
           NEW e, NEW d, d = WithLeaf(t, key, pages, e)
    PROVE  /\ IsTree(d, T, P) /\ key \notin Names(t)
           /\ Keys(d) = Keys(t) \cup NewOf(key, m)
           /\ \A k \in Keys(t) : EntriesOf(d)[k] = EntriesOf(t)[k]
           /\ \A i \in FullPages(m) + 1 .. FullPages(key) :
                 EntriesOf(d)[UpTo(key, i)] = pages[i - FullPages(m)]
           /\ \A x \in Names(t) : ~ IsPrefix(key, x)
  <1>1. WellFormed(t, T, P) /\ Segmented(t) /\ Branching(t)
    BY DEF IsTree
  <1>2. /\ m \in Seq(T) /\ Whole(m) /\ FullPages(m) \in Nat
        /\ FullPages(key) \in Nat /\ IsPrefix(m, key) /\ m # key
        /\ FullPages(m) < FullPages(key) /\ key # << >> /\ IsPrefix(key, key)
    <2>1. /\ m \in Seq(T) /\ Whole(m) /\ FullPages(m) \in Nat
          /\ FullPages(key) \in Nat /\ IsPrefix(m, key) /\ m # key
      BY <1>1, RootOrName, FullPagesFact DEF IsStrictPrefix
    <2>2. IsPrefix(key, key)
      BY PrefixRefl
    <2>3. FullPages(m) < FullPages(key)
      BY <2>1, <2>2, WholeChain
    <2>4. key # << >>
      BY <2>1, EmptyPrefix
    <2> QED BY <2>1, <2>2, <2>3, <2>4
  <1>3. ASSUME NEW k \in Seq(T), Whole(k), IsPrefix(k, key),
               FullPages(m) < FullPages(k)
        PROVE  /\ k \notin Keys(t) /\ k # << >>
               /\ \A x \in Names(t) : ~ IsPrefix(k, x)
               /\ FullPages(k) \in FullPages(m) + 1 .. FullPages(key)
               /\ k = UpTo(key, FullPages(k))
    <2>1. /\ FullPages(k) \in Nat /\ FullPages(k) <= FullPages(key)
          /\ k = UpTo(key, FullPages(k))
      BY <1>3, WholePrefix
    <2>2. FullPages(k) \in FullPages(m) + 1 .. FullPages(key)
      BY <1>2, <1>3, <2>1
    <2>3. k \notin Keys(t)
      BY <2>1, <2>2 DEF IsNew
    <2>4. k # << >>
      BY <1>2, <1>3, EmptyFact
    <2> QED BY <1>1, <1>3, <2>1, <2>2, <2>3, <2>4, KeyFact
  <1>4. /\ key \notin Names(t) /\ \A x \in Names(t) : ~ IsPrefix(key, x)
    BY <1>1, <1>2, <1>3, NamesAreKeys
  <1>5. /\ d = [nodes |-> d.nodes, evictable |-> e, protected |-> t.protected]
        /\ Names(d) = Names(t) \cup {key}
        /\ d.nodes \in [Names(d) -> [pages : Seq(P), ref : Nat]]
        /\ \A x \in Names(t) : d.nodes[x] = t.nodes[x]
        /\ d.nodes[key].pages = pages
    BY <1>1, <1>4, LeafNodes
  <1>6. WellFormed(d, T, P)
    <2>0. IsFiniteSet(Names(t))
      BY <1>1 DEF WellFormed
    <2>1. IsFiniteSet(Names(d))
      BY ONLY <1>5, <2>0, FS_AddElement
    <2>2. /\ Names(d) \subseteq Seq(T) \ {<< >>}
          /\ \A x \in Names(d) : Whole(x)
      BY <1>1, <1>2, <1>5 DEF WellFormed
    <2>3. d.evictable = e /\ d.protected = t.protected
      BY <1>5
    <2>4. d = [nodes |-> d.nodes, evictable |-> d.evictable, protected |-> d.protected]
      BY <1>5, <2>3
    <2> QED BY <1>5, <2>1, <2>2, <2>4 DEF WellFormed
  <1>7. IsParent(d, m, key)
    <2>1. ASSUME NEW x \in Names(d), IsStrictPrefix(x, key) PROVE IsPrefix(x, m)
      <3>1. x \in Names(t) /\ x \in Seq(T) /\ Whole(x) /\ IsPrefix(x, key)
            /\ FullPages(x) \in Nat
        BY <1>1, <1>5, <2>1, NameFact DEF IsStrictPrefix
      <3>2. FullPages(x) <= FullPages(m)
        BY <1>1, <1>2, <1>3, <3>1, NamesAreKeys
      <3> QED BY <1>2, <3>1, <3>2, WholeChain
    <2> QED BY <1>5, <2>1 DEF IsParent
  <1>8. ASSUME NEW x \in Names(t) PROVE IsParent(d, Parent(t, x), x)
    <2>1. IsParent(t, Parent(t, x), x)
      BY <1>1, ParentFact
    <2>2. ~ IsStrictPrefix(key, x)
      BY <1>4 DEF IsStrictPrefix
    <2> QED BY <1>5, <2>1, <2>2 DEF IsParent
  <1>9. Parent(d, key) = m /\ \A x \in Names(t) : Parent(d, x) = Parent(t, x)
    BY <1>5, <1>6, <1>7, <1>8, ParentIs
  <1>10. Segmented(d)
    <2>1. ASSUME NEW x \in Names(d)
          PROVE  \E q : /\ IsParent(d, q, x)
                        /\ Len(d.nodes[x].pages) = FullPages(x) - FullPages(q)
      <3>1. CASE x = key
        BY <1>5, <1>7, <3>1
      <3>2. CASE x # key
        <4>1. x \in Names(t) /\ d.nodes[x] = t.nodes[x]
          BY <1>5, <3>2
        <4>2. Len(t.nodes[x].pages) = FullPages(x) - FullPages(Parent(t, x))
          BY <1>1, <4>1, ParentFact
        <4> QED BY <1>8, <4>1, <4>2
      <3> QED BY <3>1, <3>2
    <2> QED BY <2>1 DEF Segmented, IsParent
  <1>11. ASSUME NEW i \in FullPages(m) + 1 .. FullPages(key), NEW k, k = UpTo(key, i)
         PROVE  /\ k \in Seq(T) /\ Whole(k) /\ IsPrefix(k, key) /\ FullPages(k) = i
                /\ FullPages(m) < FullPages(k) /\ k # << >>
                /\ \A x \in Names(t) : ~ IsPrefix(k, x)
    <2>1. i \in Nat /\ i <= FullPages(key) /\ FullPages(m) < i
      BY <1>2
    <2>2. /\ k \in Seq(T) /\ Whole(k) /\ IsPrefix(k, key) /\ FullPages(k) = i
      BY <1>11, <2>1, UpToPrefix
    <2> QED BY <1>3, <2>1, <2>2
  <1>12. ASSUME NEW k \in Keys(t), IsPrefix(k, key)
         PROVE  IsPrefix(k, m)
    <2>1. k \in Seq(T) /\ Whole(k)
      BY <1>1, KeyFact
    <2>2. FullPages(k) \in Nat /\ FullPages(k) <= FullPages(m)
      BY <1>2, <1>3, <1>12, <2>1, FullPagesFact
    <2> QED BY <1>2, <1>12, <2>1, <2>2, WholeChain
  <1>13. Keys(d) = Keys(t) \cup NewOf(key, m)
    <2>1. ASSUME NEW x, x \in Keys(d) PROVE x \in Keys(t) \cup NewOf(key, m)
      <3>1. /\ x \in Seq(T) /\ Whole(x) /\ x # << >>
            /\ \E y \in Names(d) : IsPrefix(x, y)
        BY <1>6, <2>1, KeyFact
      <3>2. CASE \E y \in Names(t) : IsPrefix(x, y)
        BY <1>1, <3>1, <3>2, KeyFact
      <3>3. CASE ~ \E y \in Names(t) : IsPrefix(x, y)
        <4>1. IsPrefix(x, key)
          BY <1>5, <3>1, <3>3
        <4>2. FullPages(m) < FullPages(x)
          <5>1. ASSUME FullPages(x) <= FullPages(m) PROVE FALSE
            <6>1. IsPrefix(x, m)
              BY <1>2, <3>1, <4>1, <5>1, WholeChain
            <6> QED BY <3>1, <3>3, <6>1, EmptyPrefix
          <5> QED BY <1>2, <3>1, <5>1, FullPagesFact
        <4> QED BY <1>3, <3>1, <4>1, <4>2 DEF NewOf
      <3> QED BY <3>2, <3>3
    <2>2. ASSUME NEW x, x \in Keys(t) PROVE x \in Keys(d)
      <3>1. /\ x \in Seq(T) /\ Whole(x) /\ x # << >>
            /\ \E y \in Names(d) : IsPrefix(x, y)
        BY <1>1, <1>5, <2>2, KeyFact
      <3> QED BY <1>6, <3>1, KeyFact
    <2>3. ASSUME NEW x, x \in NewOf(key, m) PROVE x \in Keys(d)
      <3>1. x \in Seq(T) /\ Whole(x) /\ IsPrefix(x, key) /\ x # << >>
        BY <1>11, <2>3 DEF NewOf
      <3> QED BY <1>5, <1>6, <3>1, KeyFact
    <2> QED BY <2>1, <2>2, <2>3
  <1>14. Branching(d)
    <2> SUFFICES ASSUME NEW k \in Keys(d) PROVE \E y : IsLeast(d, k, y)
      BY DEF Branching, IsLeast
    <2>1. CASE k \in Keys(t)
      <3>1. PICK y : IsLeast(t, k, y)
        BY <1>1, <2>1 DEF Branching, IsLeast
      <3>2. y \in Names(t) /\ y \in Seq(T) /\ k \in Seq(T) /\ k # << >>
        BY <1>1, <2>1, <3>1, NameFact, KeyFact DEF IsLeast
      <3>3. ASSUME IsPrefix(k, key) PROVE IsPrefix(y, key)
        <4>1. IsPrefix(k, m)
          BY <1>12, <2>1, <3>3
        <4>2. m \in Names(t)
          BY <3>2, <4>1, EmptyPrefix
        <4>3. IsPrefix(y, m)
          BY <3>1, <4>1, <4>2 DEF IsLeast
        <4> QED BY <1>2, <3>2, <4>3, PrefixTrans
      <3> QED BY <1>5, <3>1, <3>3 DEF IsLeast
    <2>2. CASE k \in NewOf(key, m)
      <3>1. IsPrefix(k, key) /\ \A x \in Names(t) : ~ IsPrefix(k, x)
        BY <1>11, <2>2 DEF NewOf
      <3> QED BY <1>2, <1>5, <3>1 DEF IsLeast
    <2> QED BY <1>13, <2>1, <2>2
  <1>15. IsTree(d, T, P)
    BY <1>6, <1>10, <1>14 DEF IsTree
  <1>16. ASSUME NEW k \in Keys(t) PROVE EntriesOf(d)[k] = EntriesOf(t)[k]
    <2>1. PICK n \in Names(t) : /\ IsPrefix(k, n)
                                /\ FullPages(Parent(t, n)) < FullPages(k)
      BY LeastFact
    <2>2. FullPages(k) > FullPages(Parent(t, n))
      BY <1>1, <2>1, KeyFact, FullPagesFact, ParentFact
    <2>3. PICK i : i = FullPages(k) - FullPages(Parent(t, n))
      OBVIOUS
    <2>4. EntriesOf(t)[k] = Page(t, n, i)
      BY <2>1, <2>2, <2>3, EntryAt
    <2>5. /\ k \in Keys(d) /\ n \in Names(d)
          /\ FullPages(k) > FullPages(Parent(d, n))
          /\ i = FullPages(k) - FullPages(Parent(d, n))
      BY <1>5, <1>9, <1>13, <2>2, <2>3
    <2>6. EntriesOf(d)[k] = Page(d, n, i)
      BY <1>15, <2>1, <2>5, EntryAt
    <2> QED BY <1>5, <2>4, <2>6 DEF Page
  <1>17. ASSUME NEW i \in FullPages(m) + 1 .. FullPages(key)
         PROVE  EntriesOf(d)[UpTo(key, i)] = pages[i - FullPages(m)]
    <2>1. PICK k : k = UpTo(key, i)
      OBVIOUS
    <2>2. /\ IsPrefix(k, key) /\ FullPages(k) = i
      BY <1>11, <2>1
    <2>3. k \in Keys(d) /\ key \in Names(d)
      BY <1>5, <1>13, <2>1 DEF NewOf
    <2>4. FullPages(k) > FullPages(Parent(d, key))
      BY <1>2, <1>9, <2>2
    <2>5. EntriesOf(d)[k] = Page(d, key, FullPages(k) - FullPages(Parent(d, key)))
      BY <1>15, <2>2, <2>3, <2>4, EntryAt
    <2> QED BY <1>5, <1>9, <2>1, <2>2, <2>5 DEF Page
  <1> QED BY <1>4, <1>13, <1>15, <1>16, <1>17

LEMMA LeafAccounted ==
    ASSUME NEW T, NEW P, NEW t, IsTree(t, T, P),
           NEW U, NEW h, Accounted(t, U, h),
           NEW m \in Names(t) \cup {<< >>},
           NEW key \in Seq(T), Whole(key), IsStrictPrefix(m, key),
           IsNew(t, key, m),
           NEW pages \in Seq(P), Len(pages) = FullPages(key) - FullPages(m),
           NEW d, d = WithLeaf(t, key, pages, t.evictable + Len(key) - Len(m))
    PROVE  Accounted(d, U, h)
  <1>1. WellFormed(t, T, P)
    BY DEF IsTree
  <1>2. /\ IsTree(d, T, P) /\ key \notin Names(t)
        /\ \A x \in Names(t) : ~ IsPrefix(key, x)
    BY LeafTree
  <1>3. WellFormed(d, T, P)
    BY <1>2 DEF IsTree
  <1>4. PICK e : e = t.evictable + Len(key) - Len(m)
    OBVIOUS
  <1>5. /\ d = [nodes |-> d.nodes, evictable |-> e, protected |-> t.protected]
        /\ Names(d) = Names(t) \cup {key}
        /\ \A x \in Names(t) : d.nodes[x] = t.nodes[x]
        /\ d.nodes[key].pages = pages /\ d.nodes[key].ref = 0
    BY <1>1, <1>2, <1>4, LeafNodes
  <1>6. d.evictable = e /\ d.protected = t.protected
    BY <1>5
  <1>7. PICK A : A = Evictable(t)
    OBVIOUS
  <1>8. A \in SUBSET Names(t) /\ A \in SUBSET Names(d) /\ A \cap {key} = {}
    BY <1>2, <1>5, <1>7 DEF Evictable
  <1>9. Evictable(d) = A \cup {key} /\ Names(d) \ Evictable(d) = Names(t) \ A
    BY <1>2, <1>5, <1>7 DEF Evictable
  <1>10. TotalLength(d, Names(t) \ A) = TotalLength(t, Names(t) \ A)
         /\ TotalLength(d, A) = TotalLength(t, A)
    <2>1. \A x \in Names(t) : Len(d.nodes[x].pages) = Len(t.nodes[x].pages)
      BY <1>5
    <2>2. \A x \in Names(t) \ A : Len(d.nodes[x].pages) = Len(t.nodes[x].pages)
      BY <2>1
    <2>3. \A x \in A : Len(d.nodes[x].pages) = Len(t.nodes[x].pages)
      BY <1>8, <2>1
    <2>4. TotalLength(d, Names(t) \ A) = TotalLength(t, Names(t) \ A)
      BY ONLY <2>2, SizeSame
    <2>5. TotalLength(d, A) = TotalLength(t, A)
      BY ONLY <2>3, SizeSame
    <2> QED BY <2>4, <2>5
  <1>11. TotalLength(d, {key}) = Len(key) - Len(m)
    <2>1. /\ m \in Seq(T) /\ Whole(m) /\ FullPages(m) \in Nat
      BY <1>1, RootOrName
    <2>2. FullPages(key) \in Nat
      BY FullPagesFact
    <2>3. Size(d, {key}) = FullPages(key) - FullPages(m)
      BY <1>3, <1>5, SizeOne
    <2>4. TotalLength(d, {key}) = (FullPages(key) - FullPages(m)) * PageSize
      BY <2>3 DEF TotalLength, Size
    <2>5. PICK a \in Nat : a = FullPages(key)
      BY <2>2
    <2>6. PICK b \in Nat : b = FullPages(m)
      BY <2>1
    <2>7. (a - b) * PageSize = a * PageSize - b * PageSize
      BY PageSizeAssumption, SMT
    <2> QED BY <2>1, <2>4, <2>5, <2>6, <2>7 DEF Whole
  <1>12. TotalLength(d, A \cup {key}) = TotalLength(d, A) + TotalLength(d, {key})
    <2>1. {key} \in SUBSET Names(d)
      BY <1>5
    <2> QED BY ONLY <1>3, <1>8, <2>1, SizeUnion
  <1>13. t.evictable = TotalLength(t, A) /\ t.protected = TotalLength(t, Names(t) \ A)
    BY <1>7 DEF Accounted, CountersExact
  <1>14. Len(key) \in Nat /\ Len(m) \in Nat /\ TotalLength(t, A) \in Nat
    BY <1>1, <1>8, RootOrName, PrefixRefl, PrefixLen, SizeNat
  <1>15. CountersExact(d)
    BY <1>4, <1>6, <1>9, <1>10, <1>11, <1>12, <1>13, <1>14 DEF CountersExact
  <1>16. \A u \in U : h[u] \in Names(t) \cup {<< >>}
    BY DEF Accounted
  <1>17. RefsExact(d, U, h)
    <2>1. Users(key, U, h) = {}
      <3>1. key # << >>
        BY <1>1, RootOrName, EmptyPrefix DEF IsStrictPrefix
      <3> QED BY <1>2, <1>16, <3>1, EmptyPrefix DEF Users
    <2>2. Cardinality(Users(key, U, h)) = 0
      BY <2>1, FS_EmptySet
    <2>3. \A x \in Names(t) : t.nodes[x].ref = Cardinality(Users(x, U, h))
      BY DEF Accounted, RefsExact
    <2>4. ASSUME NEW x \in Names(d)
          PROVE  d.nodes[x].ref = Cardinality(Users(x, U, h))
      <3>1. CASE x = key
        BY <1>5, <2>2, <3>1
      <3>2. CASE x \in Names(t)
        BY <1>5, <2>3, <3>2
      <3> QED BY <1>5, <3>1, <3>2
    <2> QED BY <2>4 DEF RefsExact
  <1> QED BY <1>5, <1>15, <1>16, <1>17 DEF Accounted
(* SubSeq(s, a + 1, b): the part of a list past its first a elements.      *)
LEMMA SliceFact ==
    ASSUME NEW P, NEW s \in Seq(P), NEW a \in Nat, NEW b \in Nat,
           a <= b, b <= Len(s), NEW w, w = SubSeq(s, a + 1, b)
    PROVE  /\ w \in Seq(P) /\ Len(w) = b - a
           /\ \A i \in 1 .. b - a : w[i] = s[i + a]
           /\ \A i \in a + 1 .. b : w[i - a] = s[i]
  <1>1. /\ w \in Seq(P) /\ Len(w) = b - a
        /\ \A i \in 1 .. b - a : w[i] = s[i + a]
    BY SMTT(30)
  <1>2. ASSUME NEW i \in a + 1 .. b PROVE w[i - a] = s[i]
    <2>1. i - a \in 1 .. b - a /\ (i - a) + a = i
      OBVIOUS
    <2> QED BY <1>1, <2>1
  <1> QED BY <1>1, <1>2

(* insert_prefix: the first j pages of s are cached, and it enters the     *)
(* caller's pages for the others.                                          *)
LEMMA InsertFact ==
    ASSUME NEW T, NEW P, NEW t, IsTree(t, T, P),
           NEW U, NEW h, Accounted(t, U, h),
           NEW s \in Seq(T), NEW pages \in Seq(P), FullPages(s) <= Len(pages),
           NEW r, r = InsertPrefix(t, s, pages),
           NEW d, d = r.tree, NEW j, j = FullPages(WalkEnd(t, s))
    PROVE  /\ IsTree(d, T, P) /\ Accounted(d, U, h)
           /\ r.node = UpTo(s, FullPages(s)) /\ r.node \in Names(d) \cup {<< >>}
           /\ j \in Nat /\ j <= FullPages(s)
           /\ r.prefixLen \div PageSize = j
           /\ \A i \in 1 .. FullPages(s) : UpTo(s, i) \in Keys(t) <=> i <= j
           /\ Keys(d) = Keys(t) \cup {UpTo(s, i) : i \in 1 .. FullPages(s)}
           /\ \A k \in Keys(t) : EntriesOf(d)[k] = EntriesOf(t)[k]
           /\ \A i \in j + 1 .. FullPages(s) :
                 EntriesOf(d)[UpTo(s, i)] = pages[i]
           /\ d.evictable = t.evictable + (FullPages(s) - j) * PageSize
  <1>1. WellFormed(t, T, P) /\ FullPages(s) \in Nat
    BY FullPagesFact DEF IsTree
  <1>2. PICK m : m = WalkEnd(t, s)
    OBVIOUS
  <1>3. PICK l : l = FullPages(s)
    OBVIOUS
  <1>4. PICK key : key = UpTo(s, l)
    OBVIOUS
  <1>5. PICK walked : walked = SplitAt(t, m)
    OBVIOUS
  <1>6. /\ j \in Nat /\ j <= l /\ m = UpTo(s, j)
        /\ j = 0 \/ m \in Keys(t)
        /\ \A i \in 1 .. l : UpTo(s, i) \in Keys(t) <=> i <= j
    <2>1. PICK i \in Nat : /\ i <= l /\ m = UpTo(s, i)
                           /\ i = 0 \/ m \in Keys(t)
                           /\ \A x \in Nat : x # 0 /\ x <= l =>
                                 (UpTo(s, x) \in Keys(t) <=> x <= i)
      BY <1>1, <1>2, <1>3, WalkEndFact
    <2>2. FullPages(m) = i
      BY <1>1, <1>3, <2>1, UpToPrefix
    <2> QED BY <1>1, <1>2, <1>3, <2>1, <2>2
  <1>7. /\ m \in Seq(T) /\ IsPrefix(m, s) /\ Whole(m) /\ FullPages(m) = j
        /\ Len(m) = j * PageSize
        /\ j = 0 <=> m = << >>
        /\ key \in Seq(T) /\ IsPrefix(key, s) /\ Whole(key) /\ FullPages(key) = l
        /\ Len(key) = l * PageSize
    BY <1>1, <1>3, <1>4, <1>6, UpToPrefix
  <1>8. m \in Keys(t) \cup {<< >>}
    BY <1>6, <1>7
  <1>9. /\ IsTree(walked, T, P) /\ EntriesOf(walked) = EntriesOf(t)
        /\ Accounted(walked, U, h) /\ m \in Names(walked) \cup {<< >>}
        /\ walked.evictable = t.evictable
    BY <1>5, <1>8, SplitFact
  <1>10. Keys(walked) = Keys(t)
    <2>1. DOMAIN EntriesOf(t) = Keys(t)
      BY EntriesType
    <2>2. DOMAIN EntriesOf(walked) = Keys(walked)
      BY ONLY <1>9, EntriesType
    <2> QED BY <1>9, <2>1, <2>2
  <1>11. Len(m) \div PageSize = j
    BY <1>6, <1>7, DivMul
  <1>12. PICK leaf : leaf = SubSeq(pages, j + 1, l)
    OBVIOUS
  <1>13. PICK e : e = WithLeaf(walked, key, leaf, walked.evictable + Len(key) - Len(m))
    OBVIOUS
  <1>14. r = [prefixLen |-> Len(m), node |-> key,
              tree |-> IF m = key THEN walked ELSE e]
    <2>1. /\ walked = [nodes |-> walked.nodes, evictable |-> walked.evictable,
                       protected |-> walked.protected]
      BY <1>9 DEF IsTree, WellFormed
    <2>2. PICK w : w = [x \in Names(walked) \cup {key} |->
                          IF x = key THEN Leaf(leaf) ELSE walked.nodes[x]]
      OBVIOUS
    <2>3. PICK a : a = walked.evictable + Len(key) - Len(m)
      OBVIOUS
    <2>4. e = [nodes |-> w, evictable |-> a, protected |-> walked.protected]
      BY <1>13, <2>2, <2>3 DEF WithLeaf
    <2>5. [walked EXCEPT !.nodes = w, !.evictable = a] = e
      <3>1. PICK x : x = walked.nodes
        OBVIOUS
      <3>2. PICK y : y = walked.evictable
        OBVIOUS
      <3>3. PICK z : z = walked.protected
        OBVIOUS
      <3>4. /\ walked = [nodes |-> x, evictable |-> y, protected |-> z]
            /\ e = [nodes |-> w, evictable |-> a, protected |-> z]
        BY <2>1, <2>4, <3>1, <3>2, <3>3
      <3>5. PICK q : q = [walked EXCEPT !.nodes = w]
        OBVIOUS
      <3>6. q = [nodes |-> w, evictable |-> y, protected |-> z]
        BY ONLY <3>4, <3>5
      <3>7. [q EXCEPT !.evictable = a] = [nodes |-> w, evictable |-> a, protected |-> z]
        BY ONLY <3>6
      <3>8. [q EXCEPT !.evictable = a] = [walked EXCEPT !.nodes = w, !.evictable = a]
        BY ONLY <3>5
      <3> QED BY <3>4, <3>7, <3>8
    <2>6. r = [prefixLen |-> Len(m), node |-> key,
               tree |-> IF m = key THEN walked
                        ELSE [walked EXCEPT !.nodes = w, !.evictable = a]]
      BY <1>2, <1>3, <1>4, <1>5, <1>7, <1>12, <2>2, <2>3 DEF InsertPrefix, Leaf
    <2> QED BY <2>5, <2>6
  <1>15. /\ r.prefixLen = Len(m) /\ r.node = key
         /\ d = IF m = key THEN walked ELSE e
    BY ONLY <1>14, d = r.tree
  <1>16. m = key <=> j = l
    BY <1>4, <1>6, <1>7
  <1>17. CASE j = l
    <2>1. d = walked
      BY <1>15, <1>16, <1>17
    <2>2. r.node \in Names(d) \cup {<< >>}
      BY <1>9, <1>15, <1>16, <1>17, <2>1
    <2>3. Keys(d) = Keys(t) \cup {UpTo(s, i) : i \in 1 .. l}
      BY <1>6, <1>10, <1>17, <2>1
    <2>4. d.evictable = t.evictable + (l - j) * PageSize
      <3>1. (l - j) * PageSize = 0
        BY <1>1, <1>3, <1>17, PageSizeAssumption, SMT
      <3>2. t.evictable \in Nat
        <4>1. Evictable(t) \in SUBSET Names(t)
          BY DEF Evictable
        <4> QED BY <1>1, <4>1, SizeNat DEF Accounted, CountersExact
      <3> QED BY <1>9, <2>1, <3>1, <3>2
    <2>5. \A i \in j + 1 .. l : FALSE
      BY <1>1, <1>3, <1>6, <1>17
    <2> QED BY <1>3, <1>4, <1>6, <1>9, <1>11, <1>15, <2>1, <2>2, <2>3, <2>4, <2>5
  <1>18. CASE j # l
    <2>1. d = e /\ m # key /\ j < l /\ l \in Nat /\ j \in Nat
      BY <1>1, <1>3, <1>6, <1>15, <1>16, <1>18
    <2>2. /\ leaf \in Seq(P) /\ Len(leaf) = l - j
          /\ \A i \in j + 1 .. l : leaf[i - j] = pages[i]
      BY <1>3, <1>6, <1>12, <2>1, SliceFact
    <2>3. \A i \in 0 .. l : UpTo(key, i) = UpTo(s, i)
      <3>1. ASSUME NEW i \in 0 .. l PROVE UpTo(key, i) = UpTo(s, i)
        <4>1. i \in Nat /\ i <= l /\ l \in Nat /\ l <= FullPages(s)
          BY <1>1, <1>3
        <4> QED BY <1>4, <4>1, UpToUpTo
      <3> QED BY <3>1
    <2>4. IsNew(walked, key, m)
      <3>1. ASSUME NEW i \in j + 1 .. l PROVE UpTo(key, i) \notin Keys(t)
        <4>1. i \in 0 .. l /\ i \in 1 .. l /\ ~ (i <= j)
          BY <2>1
        <4> QED BY <1>6, <2>3, <4>1
      <3> QED BY <1>7, <1>10, <3>1 DEF IsNew
    <2>5. IsStrictPrefix(m, key)
      <3>1. IsPrefix(m, key)
        BY <1>7, <2>1, WholeChain
      <3> QED BY <2>1, <3>1 DEF IsStrictPrefix
    <2>6. Len(leaf) = FullPages(key) - FullPages(m)
      BY <1>7, <2>2
    <2>7. PICK c : c = walked.evictable + Len(key) - Len(m)
      OBVIOUS
    <2>8. /\ IsTree(e, T, P) /\ key \notin Names(walked)
          /\ Keys(e) = Keys(walked) \cup NewOf(key, m)
          /\ \A k \in Keys(walked) : EntriesOf(e)[k] = EntriesOf(walked)[k]
          /\ \A i \in FullPages(m) + 1 .. FullPages(key) :
                EntriesOf(e)[UpTo(key, i)] = leaf[i - FullPages(m)]
      BY ONLY <1>7, <1>9, <1>13, <2>2, <2>4, <2>5, <2>6, <2>7, LeafTree
    <2>9. Accounted(e, U, h)
      BY ONLY <1>7, <1>9, <1>13, <2>2, <2>4, <2>5, <2>6, <2>7, LeafAccounted
    <2>10. Names(e) = Names(walked) \cup {key} /\ e.evictable = c
      <3>1. WellFormed(walked, T, P)
        BY <1>9 DEF IsTree
      <3>2. e = WithLeaf(walked, key, leaf, c)
        BY <1>13, <2>7
      <3>3. /\ e = [nodes |-> e.nodes, evictable |-> c,
                    protected |-> walked.protected]
            /\ Names(e) = Names(walked) \cup {key}
        BY ONLY <2>2, <2>8, <3>1, <3>2, LeafNodes
      <3> QED BY ONLY <3>3
    <2>11. d.evictable = t.evictable + (l - j) * PageSize
      <3>1. (l - j) * PageSize = l * PageSize - j * PageSize
        BY <2>1, PageSizeAssumption, SMT
      <3>2. t.evictable \in Nat
        <4>1. Evictable(t) \in SUBSET Names(t)
          BY DEF Evictable
        <4> QED BY <1>1, <4>1, SizeNat DEF Accounted, CountersExact
      <3>3. l * PageSize \in Nat /\ j * PageSize \in Nat
        BY <2>1, MulMonotonic
      <3>4. d.evictable = t.evictable + l * PageSize - j * PageSize
        BY ONLY <1>7, <1>9, <2>1, <2>7, <2>10
      <3> QED BY <3>1, <3>2, <3>3, <3>4
    <2>12. Keys(d) = Keys(t) \cup {UpTo(s, i) : i \in 1 .. l}
      <3>1. NewOf(key, m) = {UpTo(s, i) : i \in j + 1 .. l}
        <4>1. \A i \in j + 1 .. l : UpTo(key, i) = UpTo(s, i)
          BY <2>1, <2>3
        <4> QED BY <1>7, <4>1 DEF NewOf
      <3>2. \A i \in 1 .. l : i \in j + 1 .. l \/ UpTo(s, i) \in Keys(t)
        BY <1>6, <2>1
      <3>3. \A i \in j + 1 .. l : i \in 1 .. l
        BY <2>1
      <3> QED BY <1>10, <2>1, <2>8, <3>1, <3>2, <3>3
    <2>13. ASSUME NEW i \in j + 1 .. l PROVE EntriesOf(d)[UpTo(s, i)] = pages[i]
      <3>1. i \in 0 .. l /\ i \in FullPages(m) + 1 .. FullPages(key)
        BY <1>7, <2>1
      <3> QED BY <1>7, <2>1, <2>2, <2>3, <2>8, <3>1
    <2>14. \A k \in Keys(t) : EntriesOf(d)[k] = EntriesOf(t)[k]
      BY <1>9, <1>10, <2>1, <2>8
    <2> QED BY <1>3, <1>4, <1>6, <1>11, <1>15, <2>1, <2>8, <2>9, <2>10, <2>11,
               <2>12, <2>13, <2>14
  <1> QED BY <1>17, <1>18

-----------------------------------------------------------------------------
(* evict: the unlocked nodes of E go, each with all nodes below it.        *)

LEMMA EvictNodes ==
    ASSUME NEW T, NEW P, NEW t, WellFormed(t, T, P), NEW E \in SUBSET Names(t),
           NEW d, d = Evict(t, E)
    PROVE  /\ WellFormed(d, T, P) /\ Names(d) = Names(t) \ E
           /\ d.evictable = t.evictable - TotalLength(t, E)
           /\ d.protected = t.protected
           /\ \A x \in Names(d) : d.nodes[x] = t.nodes[x]
  <1>1. PICK w : w = [n \in Names(t) \ E |-> t.nodes[n]]
    OBVIOUS
  <1>2. PICK a : a = t.evictable - TotalLength(t, E)
    OBVIOUS
  <1>3. t = [nodes |-> t.nodes, evictable |-> t.evictable, protected |-> t.protected]
    BY DEF WellFormed
  <1>4. d = [t EXCEPT !.nodes = w, !.evictable = a]
    BY <1>1, <1>2 DEF Evict
  <1>5. d = [nodes |-> w, evictable |-> a, protected |-> t.protected]
    <2>1. PICK x : x = t.nodes
      OBVIOUS
    <2>2. PICK y : y = t.evictable
      OBVIOUS
    <2>3. PICK z : z = t.protected
      OBVIOUS
    <2>4. t = [nodes |-> x, evictable |-> y, protected |-> z]
      BY <1>3, <2>1, <2>2, <2>3
    <2>5. PICK q : q = [t EXCEPT !.nodes = w]
      OBVIOUS
    <2>6. q = [nodes |-> w, evictable |-> y, protected |-> z]
      BY ONLY <2>4, <2>5
    <2>7. [q EXCEPT !.evictable = a] = [nodes |-> w, evictable |-> a, protected |-> z]
      BY ONLY <2>6
    <2>8. [q EXCEPT !.evictable = a] = [t EXCEPT !.nodes = w, !.evictable = a]
      BY ONLY <2>5
    <2>9. d = [nodes |-> w, evictable |-> a, protected |-> z]
      BY ONLY <1>4, <2>7, <2>8
    <2> QED BY <2>3, <2>9
  <1>6. d.nodes = w /\ d.evictable = a /\ d.protected = t.protected
    BY ONLY <1>5
  <1>7. Names(d) = Names(t) \ E /\ \A x \in Names(d) : d.nodes[x] = t.nodes[x]
    BY <1>1, <1>6 DEF Names
  <1>8. WellFormed(d, T, P)
    <2>1. IsFiniteSet(Names(t))
      BY DEF WellFormed
    <2>2. IsFiniteSet(Names(d))
      BY ONLY <1>7, <2>1, FS_Subset
    <2>3. d = [nodes |-> d.nodes, evictable |-> d.evictable, protected |-> d.protected]
      BY ONLY <1>5, <1>6
    <2>4. d.nodes \in [Names(d) -> [pages : Seq(P), ref : Nat]]
      <3>1. w \in [Names(t) \ E -> [pages : Seq(P), ref : Nat]]
        BY <1>1, NameFact
      <3> QED BY <1>6, <1>7, <3>1
    <2> QED BY <1>7, <2>2, <2>3, <2>4 DEF WellFormed
  <1> QED BY <1>2, <1>6, <1>7, <1>8

PagesAt(t, E) == UNION {ToSet(t.nodes[n].pages) : n \in E}

LEMMA EvictTree ==
    ASSUME NEW T, NEW P, NEW t, IsTree(t, T, P), NEW E \in SUBSET Names(t),
           LeavesFirst(t, E), NEW d, d = Evict(t, E)
    PROVE  /\ IsTree(d, T, P) /\ Keys(d) \subseteq Keys(t)
           /\ \A k \in Keys(d) : EntriesOf(d)[k] = EntriesOf(t)[k]
           /\ PagesAt(t, E) = {EntriesOf(t)[k] : k \in Keys(t) \ Keys(d)}
  <1>1. WellFormed(t, T, P) /\ Segmented(t) /\ Branching(t)
    BY DEF IsTree
  <1>2. /\ WellFormed(d, T, P) /\ Names(d) = Names(t) \ E
        /\ \A x \in Names(d) : d.nodes[x] = t.nodes[x]
    BY <1>1, EvictNodes
  <1>3. \A n \in Names(t), x \in Names(d) : IsPrefix(n, x) => n \in Names(d)
    BY <1>2 DEF LeavesFirst
  <1>4. ASSUME NEW x \in Names(d)
        PROVE  IsParent(d, Parent(t, x), x)
    <2>1. IsParent(t, Parent(t, x), x)
      BY <1>1, <1>2, ParentFact
    <2>2. IsPrefix(Parent(t, x), x) /\ Parent(t, x) \in Names(t) \cup {<< >>}
      BY <2>1 DEF IsParent, IsStrictPrefix
    <2>3. Parent(t, x) \in Names(d) \cup {<< >>}
      BY <1>3, <2>2
    <2> QED BY <1>2, <2>1, <2>3 DEF IsParent
  <1>5. \A x \in Names(d) : Parent(d, x) = Parent(t, x)
    BY <1>2, <1>4, ParentIs
  <1>6. Segmented(d)
    <2>1. ASSUME NEW x \in Names(d)
          PROVE  \E q : /\ IsParent(d, q, x)
                        /\ Len(d.nodes[x].pages) = FullPages(x) - FullPages(q)
      <3>1. Len(t.nodes[x].pages) = FullPages(x) - FullPages(Parent(t, x))
        BY <1>1, <1>2, ParentFact
      <3> QED BY <1>2, <1>4, <3>1
    <2> QED BY <2>1 DEF Segmented, IsParent
  <1>7. Keys(d) \subseteq Keys(t)
    BY <1>2 DEF Keys
  <1>8. Branching(d)
    <2> SUFFICES ASSUME NEW k \in Keys(d) PROVE \E y : IsLeast(d, k, y)
      BY DEF Branching, IsLeast
    <2>1. PICK y : IsLeast(t, k, y)
      BY <1>1, <1>7 DEF Branching, IsLeast
    <2>2. PICK x \in Names(d) : IsPrefix(k, x)
      BY <1>2, KeyFact
    <2>3. y \in Names(d)
      BY <1>2, <1>3, <2>1, <2>2 DEF IsLeast
    <2> QED BY <1>2, <2>1, <2>3 DEF IsLeast
  <1>9. IsTree(d, T, P)
    BY <1>2, <1>6, <1>8 DEF IsTree
  <1>10. ASSUME NEW k \in Keys(d) PROVE EntriesOf(d)[k] = EntriesOf(t)[k]
    <2>1. PICK n \in Names(d) : /\ IsPrefix(k, n)
                                /\ FullPages(Parent(d, n)) < FullPages(k)
      BY <1>9, LeastFact
    <2>2. FullPages(k) > FullPages(Parent(d, n))
      <3>1. /\ FullPages(k) \in Nat /\ FullPages(Parent(d, n)) \in Nat
        BY <1>2, <1>6, KeyFact, FullPagesFact, ParentFact
      <3> QED BY <2>1, <3>1
    <2>3. PICK i : i = FullPages(k) - FullPages(Parent(d, n))
      OBVIOUS
    <2>4. EntriesOf(d)[k] = Page(d, n, i)
      BY <1>9, <2>1, <2>2, <2>3, EntryAt
    <2>5. /\ k \in Keys(t) /\ n \in Names(t)
          /\ FullPages(k) > FullPages(Parent(t, n))
          /\ i = FullPages(k) - FullPages(Parent(t, n))
      BY <1>2, <1>5, <1>7, <2>2, <2>3
    <2>6. EntriesOf(t)[k] = Page(t, n, i)
      BY <2>1, <2>5, EntryAt
    <2> QED BY <1>2, <2>4, <2>6 DEF Page
  <1>11. ASSUME NEW k \in Keys(t) \ Keys(d)
         PROVE  EntriesOf(t)[k] \in PagesAt(t, E)
    <2>1. PICK n \in Names(t) : /\ IsPrefix(k, n)
                                /\ FullPages(Parent(t, n)) < FullPages(k)
      BY LeastFact
    <2>2. /\ k \in Seq(T) /\ Whole(k) /\ k # << >>
          /\ FullPages(k) \in Nat /\ FullPages(Parent(t, n)) \in Nat
      BY <1>1, KeyFact, FullPagesFact, ParentFact
    <2>3. n \in E
      BY <1>2, <2>1, <2>2, KeyFact
    <2>4. PICK i : i = FullPages(k) - FullPages(Parent(t, n))
      OBVIOUS
    <2>5. i \in 1 .. Len(t.nodes[n].pages) /\ EntriesOf(t)[k] = Page(t, n, i)
      <3>1. FullPages(k) > FullPages(Parent(t, n))
        BY <2>1, <2>2
      <3> QED BY <2>1, <2>4, <3>1, EntryAt
    <2>6. Page(t, n, i) \in ToSet(t.nodes[n].pages)
      <3>1. DOMAIN t.nodes[n].pages = 1 .. Len(t.nodes[n].pages)
        BY <1>1, NameFact
      <3> QED BY <2>5, <3>1 DEF Page, ToSet
    <2> QED BY <2>3, <2>5, <2>6 DEF PagesAt
  <1>12. ASSUME NEW p \in PagesAt(t, E)
         PROVE  \E k \in Keys(t) \ Keys(d) : p = EntriesOf(t)[k]
    <2>1. PICK n \in E : p \in ToSet(t.nodes[n].pages)
      BY DEF PagesAt
    <2>2. PICK i \in 1 .. Len(t.nodes[n].pages) : p = Page(t, n, i)
      <3>1. DOMAIN t.nodes[n].pages = 1 .. Len(t.nodes[n].pages)
        BY <1>1, NameFact
      <3> QED BY <2>1, <3>1 DEF Page, ToSet
    <2>3. PICK k : k = UpTo(n, FullPages(Parent(t, n)) + i)
      OBVIOUS
    <2>4. /\ k \in Keys(t) /\ IsPrefix(k, n)
          /\ FullPages(k) = FullPages(Parent(t, n)) + i
          /\ EntriesOf(t)[k] = p
      BY <2>2, <2>3, CellFact
    <2>5. FullPages(k) > FullPages(Parent(t, n))
      <3>1. FullPages(Parent(t, n)) \in Nat
        BY <1>1, ParentFact
      <3> QED BY <2>4, <3>1
    <2>6. IsLeast(t, k, n)
      BY <2>4, <2>5, LeastFact
    <2>7. k \notin Keys(d)
      <3>1. ASSUME k \in Keys(d) PROVE FALSE
        <4>1. PICK x \in Names(d) : IsPrefix(k, x)
          BY <1>2, <3>1, KeyFact
        <4>2. n \in Names(d)
          BY <1>2, <1>3, <2>6, <4>1 DEF IsLeast
        <4> QED BY <1>2, <4>2
      <3> QED BY <3>1
    <2> QED BY <2>4, <2>7
  <1>13. PagesAt(t, E) = {EntriesOf(t)[k] : k \in Keys(t) \ Keys(d)}
    BY <1>11, <1>12
  <1> QED BY <1>7, <1>9, <1>10, <1>13

LEMMA EvictAccounted ==
    ASSUME NEW T, NEW P, NEW t, IsTree(t, T, P),
           NEW U, NEW h, Accounted(t, U, h), IsFiniteSet(U),
           NEW E \in SUBSET Evictable(t), NEW d, d = Evict(t, E)
    PROVE  /\ Accounted(d, U, h) /\ E \in SUBSET Names(t)
           /\ d.evictable = t.evictable - TotalLength(t, E)
  <1>1. WellFormed(t, T, P)
    BY DEF IsTree
  <1>2. E \in SUBSET Names(t) /\ \A n \in E : t.nodes[n].ref = 0
    BY DEF Evictable
  <1>3. /\ WellFormed(d, T, P) /\ Names(d) = Names(t) \ E
        /\ d.evictable = t.evictable - TotalLength(t, E)
        /\ d.protected = t.protected
        /\ \A x \in Names(d) : d.nodes[x] = t.nodes[x]
    BY <1>1, <1>2, EvictNodes
  <1>4. \A x \in Names(t) : t.nodes[x].ref = Cardinality(Users(x, U, h))
    BY DEF Accounted, RefsExact
  <1>5. RefsExact(d, U, h)
    BY <1>3, <1>4 DEF RefsExact
  <1>6. ASSUME NEW u \in U PROVE h[u] \in Names(d) \cup {<< >>}
    <2>1. h[u] \in Names(t) \cup {<< >>}
      BY DEF Accounted
    <2>2. ASSUME h[u] \in E PROVE FALSE
      <3>1. Cardinality(Users(h[u], U, h)) = 0
        BY <1>2, <1>4, <2>2
      <3>2. IsFiniteSet(Users(h[u], U, h))
        <4>1. Users(h[u], U, h) \in SUBSET U
          BY DEF Users
        <4> QED BY <4>1, FS_Subset
      <3>3. Users(h[u], U, h) = {}
        BY ONLY <3>1, <3>2, FS_EmptySet
      <3>4. h[u] \in Seq(T)
        BY <1>1, <2>1, RootOrName
      <3>5. IsPrefix(h[u], h[u])
        BY <3>4, PrefixRefl
      <3> QED BY <3>3, <3>5 DEF Users
    <2> QED BY <1>3, <2>1, <2>2
  <1>7. PICK A : A = Evictable(t) \ E
    OBVIOUS
  <1>8. PICK B : B = Names(t) \ Evictable(t)
    OBVIOUS
  <1>9. /\ A \in SUBSET Names(t) /\ B \in SUBSET Names(t) /\ A \cap E = {}
        /\ A \cup E = Evictable(t) /\ B \in SUBSET Names(d) /\ A \in SUBSET Names(d)
        /\ Evictable(d) = A /\ Names(d) \ Evictable(d) = B
    BY <1>2, <1>3, <1>7, <1>8 DEF Evictable
  <1>10. TotalLength(t, A \cup E) = TotalLength(t, A) + TotalLength(t, E)
    BY ONLY <1>1, <1>2, <1>9, SizeUnion
  <1>11. TotalLength(d, A) = TotalLength(t, A) /\ TotalLength(d, B) = TotalLength(t, B)
    <2>1. \A x \in A : Len(d.nodes[x].pages) = Len(t.nodes[x].pages)
      BY <1>3, <1>9
    <2>2. \A x \in B : Len(d.nodes[x].pages) = Len(t.nodes[x].pages)
      BY <1>3, <1>9
    <2>3. TotalLength(d, A) = TotalLength(t, A)
      BY ONLY <2>1, SizeSame
    <2>4. TotalLength(d, B) = TotalLength(t, B)
      BY ONLY <2>2, SizeSame
    <2> QED BY <2>3, <2>4
  <1>12. TotalLength(t, A) \in Nat /\ TotalLength(t, E) \in Nat
    BY <1>1, <1>2, <1>9, SizeNat
  <1>13. t.evictable = TotalLength(t, A \cup E) /\ t.protected = TotalLength(t, B)
    BY <1>8, <1>9 DEF Accounted, CountersExact
  <1>14. CountersExact(d)
    <2>1. d.evictable = TotalLength(t, A)
      BY ONLY <1>3, <1>10, <1>12, <1>13
    <2>2. d.evictable = TotalLength(d, A) /\ d.protected = TotalLength(d, B)
      BY ONLY <1>3, <1>11, <1>13, <2>1
    <2> QED BY <1>9, <2>2 DEF CountersExact
  <1> QED BY <1>2, <1>3, <1>5, <1>6, <1>14 DEF Accounted

-----------------------------------------------------------------------------
(* The pages evicted, in a list.                                           *)

UpToRank(S, p) == {q \in S : q <= p}

LEMMA RankFact ==
    ASSUME NEW S \in SUBSET Nat, IsFiniteSet(S), NEW n, n = Cardinality(S)
    PROVE  /\ n \in Nat
           /\ \A p \in S : Cardinality(UpToRank(S, p)) \in 1 .. n
           /\ \A p, q \in S : Cardinality(UpToRank(S, p)) = Cardinality(UpToRank(S, q))
                                => p = q
           /\ \A i \in 1 .. n : \E p \in S : Cardinality(UpToRank(S, p)) = i
  <1>1. n \in Nat
    BY CardinalNat
  <1>2. ASSUME NEW p \in S
        PROVE  IsFiniteSet(UpToRank(S, p)) /\ Cardinality(UpToRank(S, p)) \in 1 .. n
    <2>1. UpToRank(S, p) \in SUBSET S /\ p \in UpToRank(S, p)
      BY DEF UpToRank
    <2>2. IsFiniteSet(UpToRank(S, p)) /\ Cardinality(UpToRank(S, p)) <= n
      BY ONLY <2>1, IsFiniteSet(S), n = Cardinality(S), FS_Subset
    <2>3. Cardinality(UpToRank(S, p)) \in Nat
      BY <2>2, CardinalNat
    <2>4. Cardinality(UpToRank(S, p)) # 0
      BY <2>1, <2>2, FS_EmptySet
    <2> QED BY <1>1, <2>2, <2>3, <2>4
  <1>3. ASSUME NEW p \in S, NEW q \in S, p < q
        PROVE  Cardinality(UpToRank(S, p)) # Cardinality(UpToRank(S, q))
    <2>1. /\ UpToRank(S, p) \in SUBSET UpToRank(S, q)
          /\ q \in UpToRank(S, q) /\ q \notin UpToRank(S, p)
      <3>1. /\ p \in Nat /\ q \in Nat /\ q <= q /\ ~ (q <= p)
            /\ \A r \in S : r \in Nat /\ (r <= p => r <= q)
        BY <1>3
      <3> QED BY <3>1 DEF UpToRank
    <2>2. IsFiniteSet(UpToRank(S, q))
      BY <1>2
    <2> QED BY <2>1, <2>2, FS_Subset
  <1>4. ASSUME NEW p \in S, NEW q \in S,
               Cardinality(UpToRank(S, p)) = Cardinality(UpToRank(S, q))
        PROVE  p = q
    <2>1. p \in Nat /\ q \in Nat /\ ~ (p < q) /\ ~ (q < p)
      BY <1>3, <1>4
    <2> QED BY <2>1
  <1>5. PICK f : f = [p \in S |-> Cardinality(UpToRank(S, p))]
    OBVIOUS
  <1>6. f \in Injection(S, 1 .. n)
    <2>1. f \in [S -> 1 .. n]
      BY <1>2, <1>5
    <2>2. IsInjective(f)
      BY <1>4, <1>5 DEF IsInjective
    <2> QED BY <2>1, <2>2 DEF Injection
  <1>7. IsFiniteSet(1 .. n) /\ Cardinality(1 .. n) = n
    <2>1. 1 \in Int /\ n \in Int
      BY <1>1
    <2>2. IsFiniteSet(1 .. n) /\ Cardinality(1 .. n) = IF 1 > n THEN 0 ELSE n - 1 + 1
      BY <2>1, FS_Interval
    <2> QED BY <1>1, <2>2
  <1>8. f \in Surjection(S, 1 .. n)
    BY <1>6, <1>7, FS_Injection
  <1>9. \A i \in 1 .. n : \E p \in S : f[p] = i
    BY <1>8 DEF Surjection
  <1> QED BY <1>1, <1>2, <1>4, <1>5, <1>9

LEMMA EvictedFact ==
    ASSUME NEW P \in SUBSET Nat, NEW t, NEW E, PagesAt(t, E) \subseteq P,
           IsFiniteSet(P), NEW l, l = EvictedIndices(t, E)
    PROVE  /\ l \in Seq(P) /\ IsInjective(l) /\ ToSet(l) = PagesAt(t, E)
           /\ Len(l) = Cardinality(PagesAt(t, E))
  <1>1. PICK S : S = PagesAt(t, E)
    OBVIOUS
  <1>2. S \in SUBSET P /\ S \in SUBSET Nat /\ IsFiniteSet(S)
    BY <1>1, FS_Subset
  <1>3. PICK n : n = Cardinality(S)
    OBVIOUS
  <1>4. /\ n \in Nat
        /\ \A p \in S : Cardinality(UpToRank(S, p)) \in 1 .. n
        /\ \A p, q \in S : Cardinality(UpToRank(S, p)) = Cardinality(UpToRank(S, q))
                             => p = q
        /\ \A i \in 1 .. n : \E p \in S : Cardinality(UpToRank(S, p)) = i
    BY ONLY <1>2, <1>3, RankFact
  <1>5. l = [i \in 1 .. n |-> CHOOSE p \in S : Cardinality(UpToRank(S, p)) = i]
    BY <1>1, <1>3 DEF EvictedIndices, PagesAt, UpToRank
  <1>6. \A i \in 1 .. n : l[i] \in S /\ Cardinality(UpToRank(S, l[i])) = i
    BY <1>4, <1>5
  <1>7. l \in [1 .. n -> S] /\ DOMAIN l = 1 .. n
    BY <1>5, <1>6
  <1>8. l \in Seq(P) /\ Len(l) = n
    <2>1. l \in [1 .. n -> P]
      BY ONLY <1>2, <1>7
    <2> QED BY ONLY <1>4, <1>7, <2>1, LenProperties
  <1>9. IsInjective(l)
    BY <1>6, <1>7 DEF IsInjective
  <1>10. ToSet(l) = S
    <2>1. ToSet(l) \subseteq S
      BY <1>6, <1>7 DEF ToSet
    <2>2. ASSUME NEW p \in S PROVE p \in ToSet(l)
      <3>1. PICK i \in 1 .. n : Cardinality(UpToRank(S, p)) = i
        BY <1>4
      <3>2. l[i] = p
        BY <1>4, <1>6, <3>1
      <3> QED BY <1>7, <3>2 DEF ToSet
    <2> QED BY <2>1, <2>2
  <1> QED BY <1>1, <1>3, <1>8, <1>9, <1>10

(* With no page twice in the tree they are as many as the nodes are long.  *)
LEMMA EvictedLength ==
    ASSUME NEW T, NEW P, NEW t, IsTree(t, T, P), NEW E \in SUBSET Names(t),
           \A k, l \in Keys(t) : EntriesOf(t)[k] = EntriesOf(t)[l] => k = l
    PROVE  /\ IsFiniteSet(PagesAt(t, E))
           /\ Cardinality(PagesAt(t, E)) = Size(t, E)
  <1>1. WellFormed(t, T, P)
    BY DEF IsTree
  <1>2. PICK f : f = [n \in E |-> Len(t.nodes[n].pages)]
    OBVIOUS
  <1>3. IsFiniteSet(E) /\ f \in [E -> Nat]
    BY <1>1, <1>2, SizeNat
  <1>4. IsFiniteSet(Columns(f))
    BY <1>3, ColumnsFinite
  <1>5. \A c : c \in Columns(f) <=> /\ c = <<c[1], c[2]>> /\ c[1] \in E
                                    /\ c[2] \in 1 .. Len(t.nodes[c[1]].pages)
    BY <1>2 DEF Columns, Column
  <1>6. PICK g : g = [c \in Columns(f) |-> Page(t, c[1], c[2])]
    OBVIOUS
  <1>7. ASSUME NEW n \in E
        PROVE  ToSet(t.nodes[n].pages) = {Page(t, n, i) : i \in 1 .. Len(t.nodes[n].pages)}
    <2>1. DOMAIN t.nodes[n].pages = 1 .. Len(t.nodes[n].pages)
      BY <1>1, NameFact
    <2> QED BY <2>1 DEF ToSet, Page
  <1>8. g \in Surjection(Columns(f), PagesAt(t, E))
    <2>1. ASSUME NEW c \in Columns(f) PROVE g[c] \in PagesAt(t, E)
      <3>1. c[1] \in E /\ c[2] \in 1 .. Len(t.nodes[c[1]].pages)
        BY <1>5
      <3> QED BY <1>6, <1>7, <3>1 DEF PagesAt
    <2>2. ASSUME NEW p \in PagesAt(t, E) PROVE \E c \in Columns(f) : g[c] = p
      <3>1. PICK n \in E : p \in ToSet(t.nodes[n].pages)
        BY DEF PagesAt
      <3>2. PICK i \in 1 .. Len(t.nodes[n].pages) : p = Page(t, n, i)
        BY <1>7, <3>1
      <3>3. <<n, i>> \in Columns(f)
        BY <1>5, <3>2
      <3>4. g[<<n, i>>] = p
        BY <1>6, <3>2, <3>3
      <3> QED BY <3>3, <3>4
    <2>3. g \in [Columns(f) -> PagesAt(t, E)]
      BY <1>6, <2>1
    <2> QED BY <2>2, <2>3 DEF Surjection
  <1>9. ASSUME NEW c \in Columns(f), NEW e \in Columns(f), g[c] = g[e]
        PROVE  c = e
    <2>1. PICK n : n = c[1]
      OBVIOUS
    <2>2. PICK i : i = c[2]
      OBVIOUS
    <2>3. PICK m : m = e[1]
      OBVIOUS
    <2>4. PICK j : j = e[2]
      OBVIOUS
    <2>5. /\ c = <<n, i>> /\ n \in Names(t) /\ i \in 1 .. Len(t.nodes[n].pages)
          /\ e = <<m, j>> /\ m \in Names(t) /\ j \in 1 .. Len(t.nodes[m].pages)
      BY <1>5, <2>1, <2>2, <2>3, <2>4
    <2>6. PICK k : k = UpTo(n, FullPages(Parent(t, n)) + i)
      OBVIOUS
    <2>7. PICK l : l = UpTo(m, FullPages(Parent(t, m)) + j)
      OBVIOUS
    <2>8. /\ k \in Keys(t) /\ IsPrefix(k, n)
          /\ FullPages(k) = FullPages(Parent(t, n)) + i
          /\ EntriesOf(t)[k] = Page(t, n, i)
      BY ONLY IsTree(t, T, P), <2>5, <2>6, CellFact
    <2>9. /\ l \in Keys(t) /\ IsPrefix(l, m)
          /\ FullPages(l) = FullPages(Parent(t, m)) + j
          /\ EntriesOf(t)[l] = Page(t, m, j)
      BY ONLY IsTree(t, T, P), <2>5, <2>7, CellFact
    <2>10. k = l
      <3>1. Page(t, n, i) = Page(t, m, j)
        BY <1>6, <1>9, <2>1, <2>2, <2>3, <2>4
      <3> QED BY <2>8, <2>9, <3>1
    <2>11. /\ FullPages(Parent(t, n)) \in Nat /\ FullPages(Parent(t, m)) \in Nat
           /\ i \in Nat \ {0} /\ j \in Nat \ {0}
      <3>1. Len(t.nodes[n].pages) \in Nat /\ Len(t.nodes[m].pages) \in Nat
        BY <1>1, <2>5, NameFact
      <3> QED BY <2>5, <3>1, ParentFact DEF IsTree
    <2>12. n = m
      <3>1. /\ FullPages(k) > FullPages(Parent(t, n))
            /\ FullPages(k) > FullPages(Parent(t, m))
        BY <2>8, <2>9, <2>10, <2>11
      <3> QED BY <2>5, <2>8, <2>9, <2>10, <3>1, LeastFact
    <2> QED BY <2>5, <2>8, <2>9, <2>10, <2>11, <2>12
  <1>10. IsInjective(g)
    <2>1. DOMAIN g = Columns(f)
      BY <1>6
    <2> QED BY <1>9, <2>1 DEF IsInjective
  <1>11. g \in Injection(Columns(f), PagesAt(t, E))
    BY <1>8, <1>10 DEF Surjection, Injection
  <1>12. /\ IsFiniteSet(PagesAt(t, E))
         /\ Cardinality(PagesAt(t, E)) = Cardinality(Columns(f))
    BY ONLY <1>4, <1>8, <1>11, FS_Surjection
  <1>13. Size(t, E) = Cardinality(Columns(f))
    BY <1>2, TallyDef DEF Size
  <1> QED BY <1>12, <1>13

-----------------------------------------------------------------------------
(* The nodes between h and a node n below it are as long together as n is  *)
(* longer than h.                                                          *)
LEMMA PathLength ==
    ASSUME NEW T, NEW P, NEW t, IsTree(t, T, P),
           NEW n \in Names(t) \cup {<< >>}, NEW h \in Names(t) \cup {<< >>},
           IsPrefix(h, n), NEW S \in SUBSET Names(t),
           \A x \in S : IsPrefix(x, n) /\ ~ IsPrefix(x, h)
    PROVE  /\ FullPages(h) \in Nat /\ FullPages(n) \in Nat
           /\ FullPages(h) <= FullPages(n)
           /\ Size(t, S) <= FullPages(n) - FullPages(h)
  <1>1. WellFormed(t, T, P)
    BY DEF IsTree
  <1>2. /\ n \in Seq(T) /\ Whole(n) /\ FullPages(n) \in Nat
        /\ h \in Seq(T) /\ Whole(h) /\ FullPages(h) \in Nat
    BY <1>1, RootOrName
  <1>3. IsPrefix(n, n)
    BY <1>2, PrefixRefl
  <1>4. FullPages(h) <= FullPages(n)
    BY <1>2, <1>3, WholeChain
  <1>5. ASSUME NEW x \in S
        PROVE  /\ x \in Names(t) /\ x \in Seq(T) /\ Whole(x) /\ FullPages(x) \in Nat
               /\ IsPrefix(x, n) /\ FullPages(x) <= FullPages(n)
               /\ FullPages(Parent(t, x)) \in Nat
               /\ FullPages(h) <= FullPages(Parent(t, x))
               /\ Len(t.nodes[x].pages) = FullPages(x) - FullPages(Parent(t, x))
    <2>1. /\ x \in Names(t) /\ x \in Seq(T) /\ Whole(x) /\ FullPages(x) \in Nat
          /\ IsPrefix(x, n) /\ ~ IsPrefix(x, h)
      BY <1>1, NameFact
    <2>2. FullPages(x) <= FullPages(n) /\ FullPages(h) < FullPages(x)
      BY <1>2, <1>3, <2>1, WholeChain
    <2>3. IsStrictPrefix(h, x)
      BY <1>2, <2>1, <2>2, WholeChain
    <2>4. PICK p : p = Parent(t, x)
      OBVIOUS
    <2>5. /\ IsParent(t, p, x) /\ p \in Seq(T) /\ Whole(p) /\ FullPages(p) \in Nat
          /\ Len(t.nodes[x].pages) = FullPages(x) - FullPages(p)
      BY <1>1, <2>1, <2>4, ParentFact DEF IsTree
    <2>6. IsPrefix(h, p)
      <3>1. CASE h \in Names(t)
        BY <2>3, <2>5, <3>1 DEF IsParent
      <3>2. CASE h = << >>
        BY <2>5, <3>2, EmptyPrefix
      <3> QED BY <3>1, <3>2
    <2>7. IsPrefix(p, p)
      BY <2>5, PrefixRefl
    <2>8. FullPages(h) <= FullPages(p)
      BY <1>2, <2>5, <2>6, <2>7, WholeChain
    <2> QED BY <2>1, <2>2, <2>4, <2>5, <2>8
  <1>6. PICK f : f = [x \in S |-> Len(t.nodes[x].pages)]
    OBVIOUS
  <1>7. IsFiniteSet(S) /\ f \in [S -> Nat]
    BY <1>1, <1>6, SizeNat
  <1>8. \A c : c \in Columns(f) <=> /\ c = <<c[1], c[2]>> /\ c[1] \in S
                                    /\ c[2] \in 1 .. Len(t.nodes[c[1]].pages)
    BY <1>6 DEF Columns, Column
  <1>9. PICK l \in Nat : l = FullPages(n) - FullPages(h)
    BY <1>2, <1>4
  <1>10. PICK g : g = [c \in Columns(f) |->
                          FullPages(Parent(t, c[1])) + c[2] - FullPages(h)]
    OBVIOUS
  <1>11. ASSUME NEW c \in Columns(f) PROVE g[c] \in 1 .. l
    <2>1. c[1] \in S /\ c[2] \in 1 .. Len(t.nodes[c[1]].pages)
      BY <1>8
    <2>2. PICK x \in S : x = c[1]
      BY <2>1
    <2>3. PICK i \in 1 .. Len(t.nodes[x].pages) : i = c[2]
      BY <2>1, <2>2
    <2>4. g[c] = FullPages(Parent(t, x)) + i - FullPages(h)
      BY <1>10, <2>2, <2>3
    <2>5. PICK p \in Nat : p = FullPages(Parent(t, x))
      BY <1>5
    <2>6. i \in 1 .. FullPages(x) - p /\ FullPages(x) \in Nat
          /\ FullPages(x) <= FullPages(n) /\ FullPages(h) <= p
      BY <1>5, <2>3, <2>5
    <2> QED BY <1>2, <1>9, <2>4, <2>5, <2>6
  <1>12. ASSUME NEW c \in Columns(f), NEW e \in Columns(f), g[c] = g[e]
         PROVE  c = e
    <2>1. PICK x : x = c[1]
      OBVIOUS
    <2>2. PICK i : i = c[2]
      OBVIOUS
    <2>3. PICK y : y = e[1]
      OBVIOUS
    <2>4. PICK j : j = e[2]
      OBVIOUS
    <2>5. /\ c = <<x, i>> /\ x \in S /\ i \in 1 .. Len(t.nodes[x].pages)
          /\ e = <<y, j>> /\ y \in S /\ j \in 1 .. Len(t.nodes[y].pages)
      BY <1>8, <2>1, <2>2, <2>3, <2>4
    <2>6. /\ x \in Names(t) /\ IsPrefix(x, n) /\ x \in Seq(T)
          /\ y \in Names(t) /\ IsPrefix(y, n) /\ y \in Seq(T)
          /\ Len(t.nodes[x].pages) = FullPages(x) - FullPages(Parent(t, x))
          /\ Len(t.nodes[y].pages) = FullPages(y) - FullPages(Parent(t, y))
          /\ FullPages(Parent(t, x)) \in Nat /\ FullPages(Parent(t, y)) \in Nat
          /\ FullPages(x) \in Nat /\ FullPages(y) \in Nat
      BY <1>5, <2>5
    <2>7. FullPages(Parent(t, x)) + i = FullPages(Parent(t, y)) + j
      <3>1. /\ g[c] = FullPages(Parent(t, x)) + i - FullPages(h)
            /\ g[e] = FullPages(Parent(t, y)) + j - FullPages(h)
        BY <1>10, <2>1, <2>2, <2>3, <2>4
      <3>2. i \in Int /\ j \in Int
        BY <2>5, <2>6
      <3>3. PICK a \in Nat : a = FullPages(Parent(t, x))
        BY <2>6
      <3>4. PICK b \in Nat : b = FullPages(Parent(t, y))
        BY <2>6
      <3>5. PICK z \in Nat : z = FullPages(h)
        BY <1>2
      <3>6. a + i - z = b + j - z
        BY <1>12, <3>1, <3>3, <3>4, <3>5
      <3>7. a + i = b + j
        <4>1. PICK v \in Int : v = i
          BY <3>2
        <4>2. PICK w \in Int : w = j
          BY <3>2
        <4>3. a + v - z = b + w - z
          BY <3>6, <4>1, <4>2
        <4>4. a + v = b + w
          BY ONLY a \in Nat, b \in Nat, z \in Nat, v \in Int, w \in Int, <4>3
        <4> QED BY <4>1, <4>2, <4>4
      <3> QED BY <3>3, <3>4, <3>7
    <2>8. PICK k : k = UpTo(x, FullPages(Parent(t, x)) + i)
      OBVIOUS
    <2>9. PICK l1 : l1 = UpTo(y, FullPages(Parent(t, y)) + j)
      OBVIOUS
    <2>10. /\ k \in Keys(t) /\ IsPrefix(k, x)
           /\ FullPages(k) = FullPages(Parent(t, x)) + i
      BY ONLY IsTree(t, T, P), <2>5, <2>6, <2>8, CellFact
    <2>11. /\ l1 \in Keys(t) /\ IsPrefix(l1, y)
           /\ FullPages(l1) = FullPages(Parent(t, y)) + j
      BY ONLY IsTree(t, T, P), <2>5, <2>6, <2>9, CellFact
    <2>12. k \in Seq(T) /\ Whole(k) /\ l1 \in Seq(T) /\ Whole(l1)
      BY <1>1, <2>10, <2>11, KeyFact
    <2>13. IsPrefix(k, n) /\ IsPrefix(l1, n)
      BY <1>2, <2>6, <2>10, <2>11, <2>12, PrefixTrans
    <2>14. k = l1
      BY <1>2, <2>7, <2>10, <2>11, <2>12, <2>13, WholeChain
    <2>15. i \in Nat \ {0} /\ j \in Nat \ {0}
      BY <2>5, <2>6
    <2>16. x = y
      <3>1. /\ FullPages(k) > FullPages(Parent(t, x))
            /\ FullPages(k) > FullPages(Parent(t, y))
        BY <2>6, <2>7, <2>10, <2>15
      <3> QED BY <2>6, <2>10, <2>11, <2>14, <3>1, LeastFact
    <2> QED BY <2>5, <2>6, <2>7, <2>15, <2>16
  <1>13. g \in Injection(Columns(f), 1 .. l)
    <2>1. g \in [Columns(f) -> 1 .. l]
      BY <1>10, <1>11
    <2>2. DOMAIN g = Columns(f)
      BY <1>10
    <2>3. IsInjective(g)
      BY <1>12, <2>2 DEF IsInjective
    <2> QED BY <2>1, <2>3 DEF Injection
  <1>14. IsFiniteSet(1 .. l) /\ Cardinality(1 .. l) = l
    <2>1. 1 \in Int /\ l \in Int
      OBVIOUS
    <2>2. IsFiniteSet(1 .. l) /\ Cardinality(1 .. l) = IF 1 > l THEN 0 ELSE l - 1 + 1
      BY <2>1, FS_Interval
    <2> QED BY <2>2
  <1>15. Cardinality(Columns(f)) <= l
    BY <1>13, <1>14, FS_Injection
  <1> QED BY <1>2, <1>4, <1>6, <1>9, <1>15, TallyDef DEF Size

-----------------------------------------------------------------------------
(* A list dealt out in slices: x gets f[x] places from o[x] + 1 on.        *)
Slices(D, f, o) ==
    /\ \A x \in D : o[x] + f[x] <= Tally(f)
    /\ \A x, y \in D : x # y => o[x] + f[x] <= o[y] \/ o[y] + f[y] <= o[x]
InSlice(D, f, o, k) == \E x \in D : \E i \in 1 .. f[x] : k = o[x] + i

LEMMA SlicesFact ==
    ASSUME NEW D, IsFiniteSet(D), NEW f \in [D -> Nat], NEW o \in [D -> Nat],
           Slices(D, f, o), NEW k \in 1 .. Tally(f)
    PROVE  InSlice(D, f, o, k)
  <1>0. PICK n : n = Tally(f)
    OBVIOUS
  <1>10. /\ \A x \in D : o[x] + f[x] <= n
         /\ \A x, y \in D : x # y => o[x] + f[x] <= o[y] \/ o[y] + f[y] <= o[x]
         /\ k \in 1 .. n
    BY <1>0 DEF Slices
  <1>1. n \in Nat /\ n = Cardinality(Columns(f))
    BY <1>0, TallyNat, TallyDef
  <1>2. \A c : c \in Columns(f) <=> /\ c = <<c[1], c[2]>> /\ c[1] \in D
                                    /\ c[2] \in 1 .. f[c[1]]
    BY DEF Columns, Column
  <1>3. PICK g : g = [c \in Columns(f) |-> o[c[1]] + c[2]]
    OBVIOUS
  <1>4. ASSUME NEW c \in Columns(f) PROVE g[c] \in 1 .. n
    <2>1. PICK x \in D : x = c[1]
      BY <1>2
    <2>2. PICK i \in 1 .. f[x] : i = c[2]
      BY <1>2, <2>1
    <2>3. f[x] \in Nat /\ o[x] \in Nat /\ g[c] = o[x] + i /\ o[x] + f[x] <= n
      BY <1>10, <1>3, <2>1, <2>2
    <2> QED BY <1>1, <2>2, <2>3
  <1>5. ASSUME NEW c \in Columns(f), NEW e \in Columns(f), g[c] = g[e]
        PROVE  c = e
    <2>1. PICK x \in D : x = c[1]
      BY <1>2
    <2>2. PICK i \in 1 .. f[x] : i = c[2]
      BY <1>2, <2>1
    <2>3. PICK y \in D : y = e[1]
      BY <1>2
    <2>4. PICK j \in 1 .. f[y] : j = e[2]
      BY <1>2, <2>3
    <2>5. c = <<x, i>> /\ e = <<y, j>>
      BY <1>2, <2>1, <2>2, <2>3, <2>4
    <2>6. o[x] + i = o[y] + j
      BY <1>3, <1>5, <2>1, <2>2, <2>3, <2>4
    <2>7. f[x] \in Nat /\ o[x] \in Nat /\ f[y] \in Nat /\ o[y] \in Nat
      OBVIOUS
    <2>8. x = y
      <3>1. ~ (o[x] + f[x] <= o[y]) /\ ~ (o[y] + f[y] <= o[x])
        BY <2>2, <2>4, <2>6, <2>7
      <3> QED BY <1>10, <3>1
    <2> QED BY <2>2, <2>4, <2>5, <2>6, <2>7, <2>8
  <1>6. g \in Injection(Columns(f), 1 .. n)
    <2>1. g \in [Columns(f) -> 1 .. n]
      BY <1>3, <1>4
    <2>2. DOMAIN g = Columns(f)
      BY <1>3
    <2>3. IsInjective(g)
      BY <1>5, <2>2 DEF IsInjective
    <2> QED BY <2>1, <2>3 DEF Injection
  <1>7. IsFiniteSet(1 .. n) /\ Cardinality(1 .. n) = n
    <2>1. 1 \in Int /\ n \in Int
      BY <1>1
    <2>2. IsFiniteSet(1 .. n) /\ Cardinality(1 .. n) = IF 1 > n THEN 0 ELSE n - 1 + 1
      BY <2>1, FS_Interval
    <2> QED BY <1>1, <2>2
  <1>8. g \in Surjection(Columns(f), 1 .. n)
    BY <1>1, <1>6, <1>7, FS_Injection
  <1>9. PICK c \in Columns(f) : g[c] = k
    BY <1>10, <1>8 DEF Surjection
  <1> QED BY <1>2, <1>3, <1>9 DEF InSlice

LEMMA SetToSeqFact ==
    ASSUME NEW S, IsFiniteSet(S), NEW l, l = SetToSeq(S)
    PROVE  /\ DOMAIN l = 1 .. Cardinality(S) /\ Cardinality(S) \in Nat
           /\ \A i \in DOMAIN l : l[i] \in S
           /\ \A i, j \in DOMAIN l : l[i] = l[j] => i = j
           /\ \A x \in S : \E i \in DOMAIN l : l[i] = x
  <1>1. PICK n \in Nat : n = Cardinality(S)
    BY CardinalNat
  <1>2. ExistsBijection(1 .. n, S)
    BY <1>1, FS_CardinalityType
  <1>3. \E f \in [1 .. n -> S] : IsInjective(f)
    BY <1>2 DEF ExistsBijection, Bijection, Injection
  <1>4. l \in [1 .. n -> S] /\ IsInjective(l)
    BY <1>1, <1>3 DEF SetToSeq
  <1>5. IsFiniteSet(1 .. n) /\ Cardinality(1 .. n) = n
    <2>1. 1 \in Int /\ n \in Int
      OBVIOUS
    <2>2. IsFiniteSet(1 .. n) /\ Cardinality(1 .. n) = IF 1 > n THEN 0 ELSE n - 1 + 1
      BY <2>1, FS_Interval
    <2> QED BY <2>2
  <1>6. l \in Injection(1 .. n, S)
    BY <1>4 DEF Injection
  <1>7. l \in Surjection(1 .. n, S)
    BY <1>1, <1>5, <1>6, FS_Injection
  <1> QED BY <1>1, <1>4, <1>7 DEF IsInjective, Surjection

==============================================================================

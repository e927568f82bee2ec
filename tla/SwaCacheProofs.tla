--------------------------- MODULE SwaCacheProofs ---------------------------
(***************************************************************************)
(* The counters and the locks of both currencies of SwaCache are exact, for*)
(* any requests, texts, window, pools and tree: IInv is inductive and      *)
(* implies SwaAccountsExact.  The full currency comes from the lemmas of   *)
(* RadixTreeProofs about Core(t), the tree without its window fields.      *)
(***************************************************************************)
EXTENDS SwaCacheInvariant, RadixTreeProofs

LEMMA OnePage == PageSize = 1 /\ Window \in Nat \ {0}
  BY SwaAssumption

LEMMA PagesAreTokens ==
    ASSUME NEW T, NEW s \in Seq(T)
    PROVE  Len(s) \in Nat /\ FullPages(s) = Len(s) /\ Whole(s)
<1>1. Len(s) \in Nat
  BY LenProperties
<1>2. Len(s) \div 1 = Len(s)
  BY <1>1, SMTT(30)
<1> QED
  BY <1>1, <1>2, OnePage DEF FullPages, Whole

-----------------------------------------------------------------------------
(* The tree without its window fields.                                     *)

LEMMA CoreFact ==
    ASSUME NEW t
    PROVE  /\ Names(Core(t)) = Names(t)
           /\ Core(t).evictable = t.evictable /\ Core(t).protected = t.protected
           /\ \A n \in Names(t) : /\ Core(t).nodes[n].pages = t.nodes[n].pages
                                  /\ Core(t).nodes[n].ref = t.nodes[n].ref
           /\ \A n : Parent(Core(t), n) = Parent(t, n)
           /\ \A n : PathTo(Core(t), n) = PathTo(t, n)
           /\ Keys(Core(t)) = Keys(t)
           /\ \A m : Below(Core(t), m) = Below(t, m)
           /\ \A S \in SUBSET Names(t) : TotalLength(Core(t), S) = TotalLength(t, S)
<1>1. Names(Core(t)) = Names(t)
  BY DEF Core, Names
<1>2. \A n \in Names(t) : /\ Core(t).nodes[n].pages = t.nodes[n].pages
                          /\ Core(t).nodes[n].ref = t.nodes[n].ref
  BY DEF Core
<1>3. Core(t).evictable = t.evictable /\ Core(t).protected = t.protected
  BY DEF Core
<1>4. \A n : Parent(Core(t), n) = Parent(t, n)
  BY <1>1 DEF Parent
<1>5. \A n : PathTo(Core(t), n) = PathTo(t, n)
  BY <1>1 DEF PathTo
<1>6. Keys(Core(t)) = Keys(t)
  BY <1>1 DEF Keys
<1>7. \A m : Below(Core(t), m) = Below(t, m)
  BY <1>1, <1>4 DEF Below
<1>8. \A S \in SUBSET Names(t) : TotalLength(Core(t), S) = TotalLength(t, S)
  BY <1>2, SizeSame
<1> QED
  BY <1>1, <1>2, <1>3, <1>4, <1>5, <1>6, <1>7, <1>8

(* Sums over the nodes of such a tree.                                     *)
LEMMA TotalFact ==
    ASSUME NEW T, NEW P, NEW t, IsTree(Core(t), T, P), NEW S \in SUBSET Names(t)
    PROVE  /\ IsFiniteSet(S)
           /\ TotalLength(t, S) \in Nat
           /\ \A n \in S : TotalLength(t, S) >= 1
           /\ TotalLength(t, {}) = 0
<1>1. WellFormed(Core(t), T, P) /\ Segmented(Core(t))
  BY DEF IsTree
<1>2. S \in SUBSET Names(Core(t)) /\ TotalLength(Core(t), S) = TotalLength(t, S)
  BY CoreFact
<1>3. IsFiniteSet(S) /\ TotalLength(t, S) \in Nat
  BY <1>1, <1>2, SizeNat
<1>4. ASSUME NEW n \in S PROVE TotalLength(t, S) >= 1
  <2>1. n \in Names(Core(t)) /\ {n} \in SUBSET S
    BY <1>2
  <2>2. /\ FullPages(Parent(Core(t), n)) \in Nat
        /\ FullPages(Parent(Core(t), n)) < FullPages(n)
        /\ Len(Core(t).nodes[n].pages) = FullPages(n) - FullPages(Parent(Core(t), n))
    BY <1>1, <2>1, ParentFact
  <2>3. Len(Core(t).nodes[n].pages) \in Nat /\ FullPages(n) \in Nat
    BY <1>1, <2>1, NameFact
  <2>4. Size(Core(t), {n}) = Len(Core(t).nodes[n].pages)
    BY <1>1, <2>1, SizeOne
  <2>5. Size(Core(t), {n}) <= Size(Core(t), S)
    BY <1>1, <1>2, <2>1, SizeMonotonic
  <2>6. Size(Core(t), S) \in Nat /\ TotalLength(t, S) = Size(Core(t), S) * PageSize
    BY <1>1, <1>2, SizeNat
  <2> QED
    BY <2>2, <2>3, <2>4, <2>5, <2>6, OnePage
<1> QED
  BY <1>3, <1>4, SizeEmpty

LEMMA TotalUnion ==
    ASSUME NEW T, NEW P, NEW t, IsTree(Core(t), T, P),
           NEW A \in SUBSET Names(t), NEW B \in SUBSET Names(t), A \cap B = {}
    PROVE  TotalLength(t, A \cup B) = TotalLength(t, A) + TotalLength(t, B)
<1>1. WellFormed(Core(t), T, P) /\ A \cup B \in SUBSET Names(t)
  BY DEF IsTree
<1>2. A \in SUBSET Names(Core(t)) /\ B \in SUBSET Names(Core(t))
  BY CoreFact
<1>3. TotalLength(Core(t), A \cup B) = TotalLength(Core(t), A) + TotalLength(Core(t), B)
  BY <1>1, <1>2, SizeUnion
<1> QED
  BY <1>1, <1>3, CoreFact

LEMMA TotalMonotonic ==
    ASSUME NEW T, NEW P, NEW t, IsTree(Core(t), T, P),
           NEW A \in SUBSET Names(t), NEW B \in SUBSET A
    PROVE  TotalLength(t, B) <= TotalLength(t, A)
<1>1. WellFormed(Core(t), T, P) /\ B \in SUBSET Names(t)
  BY DEF IsTree
<1>2. A \in SUBSET Names(Core(t))
  BY CoreFact
<1>3. TotalLength(Core(t), B) <= TotalLength(Core(t), A)
  BY <1>1, <1>2, SizeMonotonic
<1> QED
  BY <1>1, <1>3, CoreFact

(* Names, their parents and their segments, in tokens.                     *)
LEMMA NodeFact ==
    ASSUME NEW T, NEW P, NEW t, IsTree(Core(t), T, P), NEW n \in Names(t)
    PROVE  /\ n \in Seq(T) /\ n # << >> /\ Len(n) \in Nat \ {0}
           /\ Parent(t, n) \in Names(t) \cup {<< >>} /\ Parent(t, n) \in Seq(T)
           /\ IsParent(Core(t), Parent(t, n), n)
           /\ t.nodes[n].pages \in Seq(P) /\ t.nodes[n].ref \in Nat
<1>1. WellFormed(Core(t), T, P) /\ Segmented(Core(t)) /\ n \in Names(Core(t))
  BY CoreFact DEF IsTree
<1>2. /\ n \in Seq(T) /\ n # << >> /\ FullPages(n) \in Nat \ {0}
      /\ Core(t).nodes[n].pages \in Seq(P) /\ Core(t).nodes[n].ref \in Nat
  BY <1>1, NameFact
<1>3. /\ IsParent(Core(t), Parent(Core(t), n), n)
      /\ Parent(Core(t), n) \in Names(Core(t)) \cup {<< >>}
      /\ Parent(Core(t), n) \in Seq(T)
  BY <1>1, ParentFact
<1>4. Parent(Core(t), n) = Parent(t, n) /\ Names(Core(t)) = Names(t)
      /\ Core(t).nodes[n].pages = t.nodes[n].pages /\ Core(t).nodes[n].ref = t.nodes[n].ref
  BY CoreFact
<1>5. FullPages(n) = Len(n)
  BY <1>2, PagesAreTokens
<1> QED
  BY <1>2, <1>3, <1>4, <1>5

LEMMA NodeLengths ==
    ASSUME NEW T, NEW P, NEW t, IsTree(Core(t), T, P), NEW n \in Names(t)
    PROVE  /\ Start(t, n) \in Nat /\ Start(t, n) < Len(n)
           /\ NodeLength(t, n) = Len(n) - Start(t, n)
<1>1. WellFormed(Core(t), T, P) /\ Segmented(Core(t)) /\ n \in Names(Core(t))
  BY CoreFact DEF IsTree
<1>2. /\ FullPages(Parent(Core(t), n)) < FullPages(n)
      /\ Len(Core(t).nodes[n].pages) = FullPages(n) - FullPages(Parent(Core(t), n))
  BY <1>1, ParentFact
<1>3. n \in Seq(T) /\ Parent(t, n) \in Seq(T)
  BY NodeFact
<1>4. Parent(Core(t), n) = Parent(t, n) /\ Core(t).nodes[n].pages = t.nodes[n].pages
  BY CoreFact
<1>5. /\ FullPages(n) = Len(n) /\ FullPages(Parent(t, n)) = Start(t, n)
      /\ Len(n) \in Nat /\ Start(t, n) \in Nat
  BY <1>3, PagesAreTokens DEF Start
<1>6. Len(t.nodes[n].pages) = Len(n) - Start(t, n)
  BY <1>2, <1>4, <1>5
<1> QED
  BY <1>2, <1>4, <1>5, <1>6, OnePage DEF NodeLength

LEMMA NodeTotal ==
    ASSUME NEW T, NEW P, NEW t, IsTree(Core(t), T, P), NEW n \in Names(t)
    PROVE  TotalLength(t, {n}) = NodeLength(t, n)
<1>1. WellFormed(Core(t), T, P) /\ n \in Names(Core(t))
  BY CoreFact DEF IsTree
<1>2. /\ Core(t).nodes[n].pages = t.nodes[n].pages
      /\ TotalLength(Core(t), {n}) = TotalLength(t, {n})
  BY CoreFact
<1>3. Len(t.nodes[n].pages) \in Nat
  BY NodeFact, LenProperties
<1>4. /\ Size(Core(t), {n}) = Len(Core(t).nodes[n].pages)
      /\ TotalLength(Core(t), {n}) = Size(Core(t), {n}) * PageSize
  BY <1>1, SizeOne, SizeNat
<1> QED
  BY <1>2, <1>3, <1>4, OnePage DEF NodeLength

-----------------------------------------------------------------------------
(* Splitting a node.                                                       *)

LEMMA BelowNode ==
    ASSUME NEW T, NEW P, NEW t, IsTree(Core(t), T, P),
           NEW m \in Keys(t), m \notin Names(t)
    PROVE  \E n \in Names(t) :
             /\ n = Below(t, m) /\ m # n /\ m # << >> /\ m \in Seq(T)
             /\ IsLeast(Core(t), m, n) /\ IsPrefix(m, n)
             /\ Len(m) \in Nat /\ Start(t, n) < Len(m) /\ Len(m) < Len(n)
             /\ FullPages(m) - FullPages(Parent(t, n)) = Len(m) - Start(t, n)
<1>1. m \in Keys(Core(t)) /\ m \notin Names(Core(t))
  BY CoreFact
<1>2. PICK n : n = Below(Core(t), m)
  OBVIOUS
<1>3. /\ n \in Names(Core(t)) /\ IsLeast(Core(t), m, n) /\ IsStrictPrefix(m, n)
      /\ FullPages(Parent(Core(t), n)) < FullPages(m)
      /\ FullPages(m) < FullPages(n)
  BY <1>1, <1>2, BelowFact
<1>4. n \in Names(t) /\ n = Below(t, m) /\ Parent(Core(t), n) = Parent(t, n)
  BY <1>2, <1>3, CoreFact
<1>5. m \in Seq(T) /\ m # << >>
  <2>1. WellFormed(Core(t), T, P)
    BY DEF IsTree
  <2> QED
    BY <1>1, <2>1, KeyFact
<1>6. n \in Seq(T) /\ Parent(t, n) \in Seq(T)
  BY <1>4, NodeFact
<1>7. /\ FullPages(m) = Len(m) /\ FullPages(n) = Len(n)
      /\ FullPages(Parent(t, n)) = Len(Parent(t, n)) /\ Len(m) \in Nat
  BY <1>5, <1>6, PagesAreTokens
<1> QED
  BY <1>3, <1>4, <1>5, <1>7 DEF IsStrictPrefix, Start

SwaNode(P) == [pages : Seq(P), ref : Nat, swaRef : Nat, tombstone : BOOLEAN, uuid : Nat]

(* The two halves of a node split at m.                                    *)
LEMMA SplitNode ==
    ASSUME NEW T, NEW P, NEW t, SwaTyped(t, P), IsTree(Core(t), T, P),
           NEW m \in Keys(t), m \notin Names(t), NEW d, d = Split(t, m)
    PROVE  \E n \in Names(t) :
             /\ n = Below(t, m) /\ m # n /\ m # << >> /\ m \in Seq(T)
             /\ SwaTyped(d, P) /\ Core(d) = SplitAt(Core(t), m)
             /\ Names(d) = Names(t) \cup {m}
             /\ IsLeast(Core(t), m, n) /\ IsPrefix(m, n)
             /\ Start(t, n) < Len(m) /\ Len(m) < Len(n)
             /\ \A x \in Names(t) \ {n} : d.nodes[x] = t.nodes[x]
             /\ \A x \in {m, n} : /\ d.nodes[x].ref = t.nodes[n].ref
                                   /\ d.nodes[x].swaRef = t.nodes[n].swaRef
                                   /\ d.nodes[x].tombstone = t.nodes[n].tombstone
             /\ d.nodes[m].uuid = t.nodes[n].uuid /\ d.nodes[n].uuid = 0
             /\ d.swaEvictable = t.swaEvictable /\ d.swaProtected = t.swaProtected
<1>1. PICK n \in Names(t) :
             /\ n = Below(t, m) /\ m # n /\ m # << >> /\ m \in Seq(T)
             /\ IsLeast(Core(t), m, n) /\ IsPrefix(m, n)
             /\ Len(m) \in Nat /\ Start(t, n) < Len(m) /\ Len(m) < Len(n)
             /\ FullPages(m) - FullPages(Parent(t, n)) = Len(m) - Start(t, n)
  BY BelowNode
<1>2. PICK k : k = FullPages(m) - FullPages(Parent(t, n))
  OBVIOUS
<1>3. PICK old : old = t.nodes[n]
  OBVIOUS
<1>4. PICK l : l = Len(old.pages)
  OBVIOUS
<1>5. old.pages \in Seq(P) /\ l \in Nat /\ k \in 1 .. l - 1
  <2>1. /\ old.pages \in Seq(P) /\ l = NodeLength(t, n)
        /\ NodeLength(t, n) = Len(n) - Start(t, n)
        /\ Len(n) \in Nat /\ Start(t, n) \in Nat
    <3>1. t.nodes[n].pages \in Seq(P) /\ Len(n) \in Nat
      BY NodeFact
    <3>2. Len(t.nodes[n].pages) = NodeLength(t, n)
      BY <3>1, LenProperties, OnePage DEF NodeLength
    <3>3. NodeLength(t, n) = Len(n) - Start(t, n) /\ Start(t, n) \in Nat
      BY NodeLengths
    <3> QED
      BY <1>3, <1>4, <3>1, <3>2, <3>3
  <2> QED
    BY <1>1, <1>2, <2>1
<1>6. PICK a \in Seq(P) : a = SubSeq(old.pages, 1, k)
  <2>1. k \in Nat /\ k <= Len(old.pages)
    BY <1>4, <1>5
  <2>2. SubSeq(old.pages, 1, k) \in Seq(P)
    BY <1>5, <2>1, SubSeqFact
  <2> QED
    BY <2>2
<1>7. PICK b \in Seq(P) : b = SubSeq(old.pages, k + 1, Len(old.pages))
  <2>1. k \in Nat /\ k <= Len(old.pages) /\ l \in Nat /\ l <= Len(old.pages) /\ k <= l
    BY <1>4, <1>5
  <2>2. SubSeq(old.pages, k + 1, l) \in Seq(P)
    BY <1>5, <2>1, SliceFact
  <2> QED
    BY <1>4, <2>2
<1>8. t.nodes \in [Names(t) -> SwaNode(P)]
  BY DEF SwaTyped, SwaNode
<1>9. old \in SwaNode(P)
  BY <1>3, <1>8
<1>10. PICK c : c = SplitAt(t, m)
  OBVIOUS
<1>11. c.nodes = [x \in Names(t) \cup {m} |->
                   CASE x = m -> [old EXCEPT !.pages = a]
                     [] x = n -> [old EXCEPT !.pages = b]
                     [] OTHER -> t.nodes[x]]
       /\ c.evictable = t.evictable /\ c.protected = t.protected
       /\ c.swaEvictable = t.swaEvictable /\ c.swaProtected = t.swaProtected
       /\ c = [nodes |-> c.nodes, evictable |-> t.evictable, protected |-> t.protected,
               swaEvictable |-> t.swaEvictable, swaProtected |-> t.swaProtected]
  BY <1>1, <1>2, <1>3, <1>6, <1>7, <1>10 DEF SplitAt, SwaTyped
<1>12. /\ d.nodes = [c.nodes EXCEPT ![n].uuid = 0]
       /\ d.evictable = t.evictable /\ d.protected = t.protected
       /\ d.swaEvictable = t.swaEvictable /\ d.swaProtected = t.swaProtected
       /\ d = [nodes |-> d.nodes, evictable |-> d.evictable, protected |-> d.protected,
               swaEvictable |-> d.swaEvictable, swaProtected |-> d.swaProtected]
  <2>1. d = [c EXCEPT !.nodes[n].uuid = 0]
    BY <1>1, <1>10 DEF Split
  <2> QED
    BY <1>11, <2>1
<1>13. /\ DOMAIN d.nodes = Names(t) \cup {m}
       /\ d.nodes = [x \in DOMAIN d.nodes |-> d.nodes[x]]
       /\ d.nodes[m] = [old EXCEPT !.pages = a]
       /\ d.nodes[n] = [old EXCEPT !.pages = b, !.uuid = 0]
       /\ \A x \in Names(t) \ {n} : d.nodes[x] = t.nodes[x]
  <2>1. DOMAIN c.nodes = Names(t) \cup {m} /\ c.nodes[m] = [old EXCEPT !.pages = a]
        /\ c.nodes[n] = [old EXCEPT !.pages = b]
        /\ \A x \in Names(t) \ {n} : c.nodes[x] = t.nodes[x]
    BY <1>1, <1>11
  <2> QED
    BY <1>1, <1>12, <2>1
<1> HIDE DEF SwaNode
<1>14. /\ d.nodes[m] \in SwaNode(P) /\ d.nodes[n] \in SwaNode(P)
       /\ d.nodes[m].pages = a /\ d.nodes[n].pages = b
       /\ d.nodes[m].uuid = old.uuid /\ d.nodes[n].uuid = 0
       /\ \A x \in {m, n} : /\ d.nodes[x].ref = old.ref /\ d.nodes[x].swaRef = old.swaRef
                             /\ d.nodes[x].tombstone = old.tombstone
  <2>1. old.pages \in Seq(P) /\ old.ref \in Nat /\ old.swaRef \in Nat
        /\ old.tombstone \in BOOLEAN /\ old.uuid \in Nat
        /\ old = [pages |-> old.pages, ref |-> old.ref, swaRef |-> old.swaRef,
                 tombstone |-> old.tombstone, uuid |-> old.uuid]
    BY <1>9 DEF SwaNode
  <2>2. /\ d.nodes[m] = [pages |-> a, ref |-> old.ref, swaRef |-> old.swaRef,
                         tombstone |-> old.tombstone, uuid |-> old.uuid]
        /\ d.nodes[n] = [pages |-> b, ref |-> old.ref, swaRef |-> old.swaRef,
                         tombstone |-> old.tombstone, uuid |-> 0]
    BY <1>13, <2>1
  <2> QED
    BY <2>1, <2>2 DEF SwaNode
<1>15. SwaTyped(d, P)
  <2>1. ASSUME NEW x \in DOMAIN d.nodes PROVE d.nodes[x] \in SwaNode(P)
    <3>1. x = m \/ x = n \/ x \in Names(t) \ {n}
      BY <1>13
    <3> QED
      BY <1>8, <1>13, <1>14, <3>1
  <2>2. d.nodes \in [DOMAIN d.nodes -> SwaNode(P)]
    BY <1>13, <2>1
  <2> QED
    BY <1>12, <2>2 DEF SwaTyped, SwaNode, Names
<1>16. Core(d) = SplitAt(Core(t), m)
  <2>1. PICK e : e = Core(t)
    OBVIOUS
  <2>2. /\ Names(e) = Names(t) /\ Below(e, m) = n /\ Parent(e, n) = Parent(t, n)
        /\ e.evictable = t.evictable /\ e.protected = t.protected
        /\ e = [nodes |-> e.nodes, evictable |-> e.evictable, protected |-> e.protected]
        /\ e.nodes[n] = [pages |-> old.pages, ref |-> old.ref]
        /\ \A x \in Names(t) : e.nodes[x] = [pages |-> t.nodes[x].pages, ref |-> t.nodes[x].ref]
    <3>1. /\ Names(e) = Names(t) /\ Below(e, m) = n /\ Parent(e, n) = Parent(t, n)
      BY <1>1, <2>1, CoreFact
    <3> QED
      BY <1>3, <2>1, <3>1 DEF Core
  <2>3. PICK s : s = SplitAt(e, m)
    OBVIOUS
  <2>4. s = [nodes |-> [x \in Names(t) \cup {m} |->
                   CASE x = m -> [pages |-> a, ref |-> old.ref]
                     [] x = n -> [pages |-> b, ref |-> old.ref]
                     [] OTHER -> [pages |-> t.nodes[x].pages, ref |-> t.nodes[x].ref]],
             evictable |-> t.evictable, protected |-> t.protected]
    <3>1. FullPages(m) - FullPages(Parent(e, n)) = k /\ m # << >> /\ m \notin Names(e)
      BY <1>1, <1>2, <2>2
    <3>2. s = [e EXCEPT !.nodes =
               [x \in Names(t) \cup {m} |->
                  CASE x = m -> [e.nodes[n] EXCEPT !.pages = SubSeq(@, 1, k)]
                    [] x = n -> [e.nodes[n] EXCEPT !.pages = SubSeq(@, k + 1, Len(@))]
                    [] OTHER -> e.nodes[x]]]
      BY <2>2, <2>3, <3>1 DEF SplitAt
    <3>3. /\ [e.nodes[n] EXCEPT !.pages = SubSeq(@, 1, k)] = [pages |-> a, ref |-> old.ref]
          /\ [e.nodes[n] EXCEPT !.pages = SubSeq(@, k + 1, Len(@))]
               = [pages |-> b, ref |-> old.ref]
      <4>1. PICK x : x = e.nodes[n]
        OBVIOUS
      <4>2. PICK q : q = old.pages
        OBVIOUS
      <4>3. x = [pages |-> q, ref |-> old.ref] /\ x.pages = q
        BY <2>2, <4>1, <4>2
      <4>4. a = SubSeq(q, 1, k) /\ b = SubSeq(q, k + 1, Len(q))
        BY <1>6, <1>7, <4>2
      <4>5. /\ [x EXCEPT !.pages = a] = [pages |-> a, ref |-> old.ref]
            /\ [x EXCEPT !.pages = b] = [pages |-> b, ref |-> old.ref]
        BY <4>3
      <4>6. a = SubSeq(x.pages, 1, k) /\ b = SubSeq(x.pages, k + 1, Len(x.pages))
        BY <4>3, <4>4
      <4> QED
        BY <4>1, <4>5, <4>6, Zenon
    <3>4. [x \in Names(t) \cup {m} |->
                  CASE x = m -> [e.nodes[n] EXCEPT !.pages = SubSeq(@, 1, k)]
                    [] x = n -> [e.nodes[n] EXCEPT !.pages = SubSeq(@, k + 1, Len(@))]
                    [] OTHER -> e.nodes[x]]
          = [x \in Names(t) \cup {m} |->
                   CASE x = m -> [pages |-> a, ref |-> old.ref]
                     [] x = n -> [pages |-> b, ref |-> old.ref]
                     [] OTHER -> [pages |-> t.nodes[x].pages, ref |-> t.nodes[x].ref]]
      BY <2>2, <3>3
    <3> QED
      BY <2>2, <3>2, <3>4
  <2>5. [x \in Names(t) \cup {m} |->
                   CASE x = m -> [pages |-> a, ref |-> old.ref]
                     [] x = n -> [pages |-> b, ref |-> old.ref]
                     [] OTHER -> [pages |-> t.nodes[x].pages, ref |-> t.nodes[x].ref]]
        = [x \in Names(d) |-> [pages |-> d.nodes[x].pages, ref |-> d.nodes[x].ref]]
    <3>1. Names(d) = Names(t) \cup {m} /\ m \notin Names(t)
      BY <1>13 DEF Names
    <3> QED
      BY <1>1, <1>13, <1>14, <3>1
  <2> QED
    BY <1>12, <2>1, <2>3, <2>4, <2>5 DEF Core
<1>17. Names(d) = Names(t) \cup {m}
  BY <1>13 DEF Names
<1> QED
  BY <1>1, <1>3, <1>12, <1>13, <1>14, <1>15, <1>16, <1>17

LEMMA SplitTotal ==
    ASSUME NEW T, NEW P, NEW t, SwaTyped(t, P), IsTree(Core(t), T, P),
           NEW m \in Keys(t), m \notin Names(t), NEW d, d = Split(t, m),
           NEW S \in SUBSET Names(t)
    PROVE  /\ IsTree(Core(d), T, P)
           /\ Below(t, m) \in S => TotalLength(d, S \cup {m}) = TotalLength(t, S)
           /\ Below(t, m) \notin S => TotalLength(d, S) = TotalLength(t, S)
<1>1. PICK n \in Names(t) :
             /\ n = Below(t, m) /\ Core(d) = SplitAt(Core(t), m)
             /\ Names(d) = Names(t) \cup {m}
             /\ \A x \in Names(t) \ {n} : d.nodes[x] = t.nodes[x]
  BY SplitNode
<1>2. /\ m \in Keys(Core(t)) /\ m \notin Names(Core(t)) /\ Below(Core(t), m) = n
      /\ S \in SUBSET Names(Core(t))
  BY <1>1, CoreFact
<1>3. IsTree(Core(d), T, P)
  BY <1>1, <1>2, SplitTree
<1>4. ASSUME n \in S PROVE TotalLength(d, S \cup {m}) = TotalLength(t, S)
  <2>1. TotalLength(Core(d), S \cup {m}) = TotalLength(Core(t), S)
    BY <1>1, <1>2, <1>4, SplitSize
  <2>2. S \cup {m} \in SUBSET Names(d)
    BY <1>1
  <2>3. TotalLength(Core(d), S \cup {m}) = TotalLength(d, S \cup {m})
    BY <2>2, CoreFact
  <2>4. TotalLength(Core(t), S) = TotalLength(t, S)
    BY CoreFact
  <2> QED
    BY <2>1, <2>3, <2>4
<1>5. ASSUME n \notin S PROVE TotalLength(d, S) = TotalLength(t, S)
  <2>1. \A x \in S : Len(d.nodes[x].pages) = Len(t.nodes[x].pages)
    BY <1>1, <1>5
  <2> QED
    BY <2>1, SizeSame
<1> QED
  BY <1>1, <1>3, <1>4, <1>5

-----------------------------------------------------------------------------
(* Paths.                                                                  *)

LEMMA PathFact ==
    ASSUME NEW T, NEW P, NEW t, IsTree(Core(t), T, P), NEW x \in Seq(T),
           NEW a \in PathTo(t, x), NEW b \in PathTo(t, x)
    PROVE  /\ a \in Names(t) /\ a \in Seq(T) /\ b \in Names(t) /\ b \in Seq(T)
           /\ IsPrefix(a, x) /\ IsPrefix(b, x)
           /\ Len(a) \in Nat \ {0} /\ Len(b) \in Nat \ {0}
           /\ IsPrefix(a, b) <=> Len(a) <= Len(b)
           /\ a = b <=> Len(a) = Len(b)
<1>1. a \in Names(t) /\ b \in Names(t) /\ IsPrefix(a, x) /\ IsPrefix(b, x)
  BY DEF PathTo
<1>2. a \in Seq(T) /\ b \in Seq(T) /\ Len(a) \in Nat \ {0} /\ Len(b) \in Nat \ {0}
  BY <1>1, NodeFact
<1>3. IsPrefix(a, b) <=> Len(a) <= Len(b)
  BY <1>1, <1>2, PrefixChain, PrefixLen
<1>4. a = b <=> Len(a) = Len(b)
  BY <1>1, <1>2, <1>3, PrefixLen
<1> QED
  BY <1>1, <1>2, <1>3, <1>4

LEMMA BeforeFact ==
    ASSUME NEW T, NEW P, NEW t, IsTree(Core(t), T, P), NEW n \in Names(t),
           NEW b \in Names(t), IsPrefix(b, n), b # n
    PROVE  Len(b) <= Start(t, n)
<1>1. PICK p : p = Parent(t, n)
  OBVIOUS
<1>2. IsParent(Core(t), p, n) /\ p \in Seq(T) /\ b \in Seq(T)
  BY <1>1, NodeFact
<1>3. IsPrefix(b, p)
  BY <1>2, CoreFact DEF IsParent, IsStrictPrefix
<1>4. Len(b) <= Len(p)
  BY <1>2, <1>3, PrefixLen
<1> QED
  BY <1>1, <1>4 DEF Start

LEMMA RootOrNode ==
    ASSUME NEW T, NEW P, NEW t, IsTree(Core(t), T, P), NEW x \in Names(t) \cup {<< >>}
    PROVE  x \in Seq(T) /\ Len(x) \in Nat
<1>1. << >> \in Seq(T)
  BY EmptyFact
<1>2. x \in Seq(T)
  BY <1>1, NodeFact
<1> QED
  BY <1>2, LenProperties

(* The nodes above and below a split.                                      *)
LEMMA SplitPath ==
    ASSUME NEW T, NEW P, NEW t, SwaTyped(t, P), IsTree(Core(t), T, P),
           NEW m \in Keys(t), m \notin Names(t), NEW d, d = Split(t, m),
           NEW n, n = Below(t, m), NEW x \in Names(t) \cup {<< >>}
    PROVE  /\ n \in PathTo(t, x) => PathTo(d, x) = PathTo(t, x) \cup {m}
           /\ n \notin PathTo(t, x) => PathTo(d, x) = PathTo(t, x)
           /\ n \in PathTo(t, x) =>
                 /\ Len(m) < Len(n)
                 /\ \A y \in PathTo(t, x) \ {n} : Len(y) < Len(m) \/ Len(y) > Len(n)
<1>1. /\ n \in Names(t) /\ m # << >> /\ m \in Seq(T)
      /\ Names(d) = Names(t) \cup {m}
      /\ IsLeast(Core(t), m, n) /\ IsPrefix(m, n)
      /\ Start(t, n) < Len(m) /\ Len(m) < Len(n)
  BY SplitNode
<1>2. n \in Seq(T) /\ x \in Seq(T) /\ Len(m) \in Nat /\ Len(n) \in Nat
  BY <1>1, NodeFact, RootOrNode, LenProperties
<1>3. ASSUME IsPrefix(m, x) PROVE IsPrefix(n, x)
  <2>1. x # << >>
    BY <1>1, <1>3, EmptyPrefix
  <2>2. x \in Names(Core(t))
    BY <2>1, CoreFact
  <2> QED
    BY <1>1, <1>3, <2>2 DEF IsLeast
<1>4. IsPrefix(n, x) => IsPrefix(m, x)
  BY <1>1, <1>2, PrefixTrans
<1>5. n \in PathTo(t, x) => PathTo(d, x) = PathTo(t, x) \cup {m}
  BY <1>1, <1>4 DEF PathTo
<1>6. n \notin PathTo(t, x) => PathTo(d, x) = PathTo(t, x)
  BY <1>1, <1>3 DEF PathTo
<1>7. ASSUME n \in PathTo(t, x), NEW y \in PathTo(t, x) \ {n}
      PROVE  Len(y) < Len(m) \/ Len(y) > Len(n)
  <2>1. /\ y \in Names(t) /\ Len(y) \in Nat /\ IsPrefix(y, n) <=> Len(y) <= Len(n)
    BY <1>2, <1>7, PathFact
  <2>2. CASE Len(y) <= Len(n)
    <3>1. Len(y) <= Start(t, n)
      BY <1>1, <1>7, <2>1, <2>2, BeforeFact
    <3>2. Start(t, n) \in Nat
      BY <1>1, NodeLengths
    <3> QED
      BY <1>1, <1>2, <2>1, <3>1, <3>2
  <2> QED
    BY <1>2, <2>1, <2>2
<1> QED
  BY <1>1, <1>5, <1>6, <1>7

(* A split changes what a window is made of, not how far it reaches: the   *)
(* mark of the node goes to the half nearer the root.                      *)
LEMMA SplitWindow ==
    ASSUME NEW T, NEW P, NEW t, SwaTyped(t, P), IsTree(Core(t), T, P),
           NEW m \in Keys(t), m \notin Names(t), NEW d, d = Split(t, m),
           NEW n, n = Below(t, m), NEW hd, hd.node \in Names(t) \cup {<< >>}
    PROVE  /\ \A y \in Names(t) : y \in WindowOf(d, hd) <=> y \in WindowOf(t, hd)
           /\ m \in WindowOf(d, hd) <=> n \in WindowOf(t, hd)
           /\ HandleMarked(t, hd) => HandleMarked(d, hd)
<1>1. /\ n \in Names(t) /\ m # n /\ Names(d) = Names(t) \cup {m}
      /\ \A y \in Names(t) \ {n} : d.nodes[y] = t.nodes[y]
      /\ d.nodes[m].uuid = t.nodes[n].uuid /\ d.nodes[n].uuid = 0
      /\ d.nodes[m].tombstone = t.nodes[n].tombstone
      /\ d.nodes[n].tombstone = t.nodes[n].tombstone
      /\ m # << >>
  BY SplitNode
<1>2. PICK x \in Names(t) \cup {<< >>} : x = hd.node
  OBVIOUS
<1>3. PICK id : id = hd.uuid
  OBVIOUS
<1>4. PICK Q : Q = PathTo(t, x)
  OBVIOUS
<1>5. /\ n \in Q => PathTo(d, x) = Q \cup {m}
      /\ n \notin Q => PathTo(d, x) = Q
      /\ n \in Q => /\ Len(m) < Len(n)
                    /\ \A y \in Q \ {n} : Len(y) < Len(m) \/ Len(y) > Len(n)
  BY <1>4, SplitPath
<1>6. Q \subseteq Names(t) /\ \A y \in Q : Len(y) \in Nat
  <2>1. Q \subseteq Names(t)
    BY <1>4 DEF PathTo
  <2> QED
    BY <2>1, NodeFact
<1>7. Len(m) \in Nat
  BY SplitNode, LenProperties
<1>8. PICK M : M = MarkedBy(t, hd)
  OBVIOUS
<1>9. M = {b \in Q : id # 0 /\ t.nodes[b].uuid = id}
  BY <1>2, <1>3, <1>4, <1>8 DEF MarkedBy
<1>10. MarkedBy(d, hd) = IF n \in M THEN (M \ {n}) \cup {m} ELSE M
  <2>1. MarkedBy(d, hd) = {b \in PathTo(d, x) : id # 0 /\ d.nodes[b].uuid = id}
    BY <1>2, <1>3 DEF MarkedBy
  <2>2. ASSUME n \notin Q PROVE MarkedBy(d, hd) = M
    BY <1>1, <1>5, <1>6, <1>9, <2>1, <2>2
  <2>3. ASSUME n \in Q
        PROVE  MarkedBy(d, hd) = IF n \in M THEN (M \ {n}) \cup {m} ELSE M
    <3>1. m \notin Q
      BY <1>6
    <3>2. MarkedBy(d, hd) = {b \in Q \cup {m} : id # 0 /\ d.nodes[b].uuid = id}
      BY <1>5, <2>1, <2>3
    <3> QED
      BY <1>1, <1>6, <1>9, <2>3, <3>1, <3>2
  <2> QED
    BY <1>9, <2>2, <2>3
<1>11. \A y : y \in WindowOf(t, hd) <=>
                 y \in Q /\ ~ t.nodes[y].tombstone /\ \A b \in M : Len(y) >= Len(b)
  BY <1>2, <1>4, <1>8 DEF WindowOf, Live
<1>12. \A y : y \in WindowOf(d, hd) <=>
                 /\ y \in PathTo(d, x) /\ ~ d.nodes[y].tombstone
                 /\ \A b \in MarkedBy(d, hd) : Len(y) >= Len(b)
  BY <1>2 DEF WindowOf, Live
<1>13. M \subseteq Q
  BY <1>9
<1>14. ASSUME NEW y \in Q
       PROVE  (\A b \in M : Len(y) >= Len(b)) <=> \A b \in MarkedBy(d, hd) : Len(y) >= Len(b)
  <2>1. CASE n \notin M
    BY <1>10, <2>1
  <2>2. CASE n \in M
    <3>1. Len(y) >= Len(n) <=> Len(y) >= Len(m)
      BY <1>5, <1>6, <1>7, <1>13, <1>14, <2>2
    <3> QED
      BY <1>10, <2>2, <3>1
  <2> QED
    BY <2>1, <2>2
<1>15. ASSUME n \in Q
       PROVE  (\A b \in M : Len(n) >= Len(b)) <=> \A b \in MarkedBy(d, hd) : Len(m) >= Len(b)
  <2>1. \A b \in Q \ {n} : Len(n) >= Len(b) <=> Len(m) >= Len(b)
    BY <1>5, <1>6, <1>7, <1>15
  <2>2. Len(n) >= Len(n) /\ Len(m) >= Len(m)
    BY <1>6, <1>7, <1>15
  <2> QED
    BY <1>10, <1>13, <2>1, <2>2
<1>16. ASSUME NEW y \in Names(t) PROVE y \in WindowOf(d, hd) <=> y \in WindowOf(t, hd)
  <2>1. y \in PathTo(d, x) <=> y \in Q
    BY <1>5, <1>16
  <2>2. d.nodes[y].tombstone <=> t.nodes[y].tombstone
    BY <1>1
  <2> QED
    BY <1>11, <1>12, <1>14, <2>1, <2>2
<1>17. m \in WindowOf(d, hd) <=> n \in WindowOf(t, hd)
  <2>1. m \in PathTo(d, x) <=> n \in Q
    BY <1>5, <1>6
  <2> QED
    BY <1>1, <1>11, <1>12, <1>15, <2>1
<1>18. ASSUME HandleMarked(t, hd) PROVE HandleMarked(d, hd)
  <2>1. hd.node # << >> => Live(d, hd.node)
    BY <1>1, <1>18 DEF HandleMarked, Live
  <2>2. id # 0 => MarkedBy(d, hd) # {}
    BY <1>3, <1>8, <1>10, <1>18 DEF HandleMarked
  <2> QED
    BY <1>3, <2>1, <2>2 DEF HandleMarked
<1> QED
  BY <1>16, <1>17, <1>18

LEMMA HandleNode ==
    ASSUME NEW T, NEW P, NEW t, NEW U, NEW h, TreeOK(t, T, P, U, h),
           U \subseteq DOMAIN h, NEW u \in U
    PROVE  h[u].node \in Names(t) \cup {<< >>}
<1>1. NodesOf(h)[u] = h[u].node
  BY DEF NodesOf
<1>2. NodesOf(h)[u] \in Names(Core(t)) \cup {<< >>}
  BY DEF TreeOK, Accounted
<1> QED
  BY <1>1, <1>2, CoreFact

LiveAt(t, S, locked) == {n \in S : Live(t, n) /\ (t.nodes[n].swaRef > 0 <=> locked)}

LEMMA SwaCountersAre ==
    ASSUME NEW P, NEW t, SwaTyped(t, P)
    PROVE  SwaCountersExact(t) <=>
             /\ t.swaEvictable = TotalLength(t, LiveAt(t, Names(t), FALSE))
             /\ t.swaProtected = TotalLength(t, LiveAt(t, Names(t), TRUE))
<1>1. \A n \in Names(t) : t.nodes[n].swaRef \in Nat
  BY DEF SwaTyped
<1>2. LiveAt(t, Names(t), FALSE) = {n \in Names(t) : Live(t, n) /\ t.nodes[n].swaRef = 0}
  BY <1>1 DEF LiveAt
<1>3. LiveAt(t, Names(t), TRUE) = {n \in Names(t) : Live(t, n) /\ t.nodes[n].swaRef > 0}
  BY DEF LiveAt
<1> QED
  BY <1>2, <1>3 DEF SwaCountersExact

(* A split keeps everything exact.                                         *)
LEMMA SplitKeeps ==
    ASSUME NEW T, NEW P, NEW t, NEW U, NEW h, TreeOK(t, T, P, U, h),
           U \subseteq DOMAIN h,
           NEW m \in Keys(t) \cup {<< >>}, NEW d, d = Split(t, m)
    PROVE  TreeOK(d, T, P, U, h) /\ m \in Names(d) \cup {<< >>}
<1>1. CASE m = << >> \/ m \in Names(t)
  BY <1>1 DEF Split
<1>2. CASE m # << >> /\ m \notin Names(t)
  <2>1. /\ SwaTyped(t, P) /\ IsTree(Core(t), T, P) /\ m \in Keys(t) /\ m \notin Names(t)
        /\ WindowsExact(t, U, h) /\ Accounted(Core(t), U, NodesOf(h))
    BY <1>2 DEF TreeOK
  <2>2. PICK n \in Names(t) :
             /\ n = Below(t, m) /\ m # n /\ m # << >> /\ m \in Seq(T)
             /\ SwaTyped(d, P) /\ Core(d) = SplitAt(Core(t), m)
             /\ Names(d) = Names(t) \cup {m}
             /\ IsLeast(Core(t), m, n) /\ IsPrefix(m, n)
             /\ \A x \in Names(t) \ {n} : d.nodes[x] = t.nodes[x]
             /\ \A x \in {m, n} : /\ d.nodes[x].ref = t.nodes[n].ref
                                   /\ d.nodes[x].swaRef = t.nodes[n].swaRef
                                   /\ d.nodes[x].tombstone = t.nodes[n].tombstone
             /\ d.nodes[m].uuid = t.nodes[n].uuid /\ d.nodes[n].uuid = 0
             /\ d.swaEvictable = t.swaEvictable /\ d.swaProtected = t.swaProtected
    BY <2>1, SplitNode
  <2>3. IsTree(Core(d), T, P) /\ Accounted(Core(d), U, NodesOf(h))
    <3>1. m \in Keys(Core(t)) \cup {<< >>}
      BY <2>1, CoreFact
    <3> QED
      BY <2>1, <2>2, <3>1, SplitFact
  <2>4. ASSUME NEW u \in U
        PROVE  /\ HandleMarked(d, h[u])
               /\ \A y \in Names(t) : y \in WindowOf(d, h[u]) <=> y \in WindowOf(t, h[u])
               /\ m \in WindowOf(d, h[u]) <=> n \in WindowOf(t, h[u])
    <3>1. h[u].node \in Names(t) \cup {<< >>} /\ HandleMarked(t, h[u])
      BY <2>1, HandleNode DEF WindowsExact
    <3> QED
      BY <2>1, <2>2, <3>1, SplitWindow
  <2>5. MarksDiffer(d)
    <3>1. MarksDiffer(t)
      BY <2>1 DEF WindowsExact
    <3> QED
      BY <2>2, <3>1 DEF MarksDiffer
  <2>6. SwaRefsExact(d, U, h)
    <3>1. SwaRefsExact(t, U, h)
      BY <2>1 DEF WindowsExact
    <3>2. ASSUME NEW y \in Names(t)
          PROVE  d.nodes[y].swaRef = Cardinality(WindowUsers(d, y, U, h))
      <4>1. WindowUsers(d, y, U, h) = WindowUsers(t, y, U, h)
        BY <2>4, <3>2 DEF WindowUsers
      <4> QED
        BY <2>2, <3>1, <4>1 DEF SwaRefsExact
    <3>3. d.nodes[m].swaRef = Cardinality(WindowUsers(d, m, U, h))
      <4>1. WindowUsers(d, m, U, h) = WindowUsers(t, n, U, h)
        BY <2>4 DEF WindowUsers
      <4> QED
        BY <2>2, <3>1, <4>1 DEF SwaRefsExact
    <3> QED
      BY <2>2, <3>2, <3>3 DEF SwaRefsExact
  <2>7. SwaCountersExact(d)
    <3>1. ASSUME NEW locked \in BOOLEAN
          PROVE  TotalLength(d, LiveAt(d, Names(d), locked))
                   = TotalLength(t, LiveAt(t, Names(t), locked))
      <4>1. PICK S \in SUBSET Names(t) : S = LiveAt(t, Names(t), locked)
        BY DEF LiveAt
      <4>2. LiveAt(d, Names(d), locked) = IF n \in S THEN S \cup {m} ELSE S
        <5>1. \A y \in Names(t) : y \in LiveAt(d, Names(d), locked) <=> y \in S
          BY <2>2, <4>1 DEF LiveAt, Live
        <5>2. m \in LiveAt(d, Names(d), locked) <=> n \in S
          BY <2>2, <4>1 DEF LiveAt, Live
        <5>3. LiveAt(d, Names(d), locked) \subseteq Names(t) \cup {m}
          BY <2>2 DEF LiveAt
        <5> QED
          BY <2>1, <5>1, <5>2, <5>3
      <4>3. /\ n \in S => TotalLength(d, S \cup {m}) = TotalLength(t, S)
            /\ n \notin S => TotalLength(d, S) = TotalLength(t, S)
        BY <2>1, <2>2, SplitTotal
      <4> QED
        BY <4>1, <4>2, <4>3, Zenon
    <3>2. SwaCountersExact(t)
      BY <2>1 DEF WindowsExact
    <3> QED
      BY <2>1, <2>2, <3>1, <3>2, SwaCountersAre
  <2>8. LeavesLive(d)
    <3>1. LeavesLive(t)
      BY <2>1 DEF WindowsExact
    <3>2. ~ IsLeaf(d, m)
      BY <2>2 DEF IsLeaf, IsStrictPrefix
    <3>3. ASSUME NEW y \in Names(t), FreeLeaf(d, y) PROVE Live(d, y)
      <4>1. IsLeaf(t, y)
        BY <2>2, <3>3 DEF FreeLeaf, IsLeaf
      <4>2. d.nodes[y].ref = t.nodes[y].ref /\ (Live(d, y) <=> Live(t, y))
        BY <2>2, <3>3 DEF Live
      <4> QED
        BY <3>1, <3>3, <4>1, <4>2 DEF FreeLeaf, LeavesLive
    <3> QED
      BY <2>2, <3>2, <3>3 DEF LeavesLive, FreeLeaf
  <2> QED
    BY <2>2, <2>3, <2>4, <2>5, <2>6, <2>7, <2>8 DEF TreeOK, WindowsExact
<1> QED
  BY <1>1, <1>2

-----------------------------------------------------------------------------
(* Matching.                                                               *)

LEMMA LongestFact ==
    ASSUME NEW T, NEW S \in SUBSET Seq(T), S # {}, NEW N \in Nat,
           \A s \in S : Len(s) <= N
    PROVE  Longest(S) \in S /\ \A r \in S : Len(r) <= Len(Longest(S))
<1>1. \A s \in S : Len(s) \in Nat
  BY LenProperties
<1>2. PICK I : I = {i \in 0 .. N : \E s \in S : i <= Len(s)}
  OBVIOUS
<1>3. PICK g \in I : \A j \in I : j <= g
  <2>1. I \in SUBSET (0 .. N) /\ 0 \in I
    BY <1>1, <1>2
  <2>2. \A i \in I : \A j \in 0 .. i : j \in I
    BY <1>1, <1>2
  <2> QED
    BY <2>1, <2>2, Greatest
<1>4. PICK s \in S : g <= Len(s)
  BY <1>2, <1>3
<1>5. \A r \in S : Len(r) \in I
  BY <1>1, <1>2
<1>6. \A r \in S : Len(r) <= Len(s)
  <2> TAKE r \in S
  <2>1. Len(r) \in Nat /\ Len(s) \in Nat /\ g \in Nat
    BY <1>1, <1>2
  <2>2. Len(r) <= g
    BY <1>3, <1>5
  <2> QED
    BY <1>4, <2>1, <2>2
<1>7. \E x : x \in S /\ \A r \in S : Len(r) <= Len(x)
  BY <1>6
<1> QED
  BY <1>7, Zenon DEF Longest

LEMMA WalkFact ==
    ASSUME NEW T, NEW P, NEW t, IsTree(Core(t), T, P), NEW s \in Seq(T)
    PROVE  /\ WalkEnd(t, s) \in Keys(t) \cup {<< >>}
           /\ WalkEnd(t, s) \in Seq(T) /\ IsPrefix(WalkEnd(t, s), s)
           /\ \A i \in 1 .. Len(s) : SubSeq(s, 1, i) \in Keys(t) <=> i <= Len(WalkEnd(t, s))
<1>1. WellFormed(Core(t), T, P)
  BY DEF IsTree
<1>2. WalkEnd(Core(t), s) = WalkEnd(t, s)
  <2>1. Names(Core(t)) = Names(t)
    BY CoreFact
  <2> QED
    BY <2>1, Zenon DEF WalkEnd
<1>3. PICK j \in Nat :
             /\ j <= FullPages(s)
             /\ WalkEnd(t, s) = UpTo(s, j)
             /\ j = 0 \/ UpTo(s, j) \in Keys(Core(t))
             /\ \A i \in Nat : i # 0 /\ i <= FullPages(s) =>
                                 (UpTo(s, i) \in Keys(Core(t)) <=> i <= j)
  BY <1>1, <1>2, WalkEndFact
<1>4. FullPages(s) = Len(s) /\ Len(s) \in Nat
  BY PagesAreTokens
<1>5. \A i \in Nat : i <= Len(s) =>
         /\ UpTo(s, i) = SubSeq(s, 1, i) /\ UpTo(s, i) \in Seq(T)
         /\ Len(UpTo(s, i)) = i /\ IsPrefix(UpTo(s, i), s)
         /\ i = 0 <=> UpTo(s, i) = << >>
  <2> SUFFICES ASSUME NEW i \in Nat, i <= Len(s)
               PROVE  /\ UpTo(s, i) = SubSeq(s, 1, i) /\ UpTo(s, i) \in Seq(T)
                      /\ Len(UpTo(s, i)) = i /\ IsPrefix(UpTo(s, i), s)
                      /\ i = 0 <=> UpTo(s, i) = << >>
    OBVIOUS
  <2>1. i * PageSize = i
    BY OnePage
  <2>2. UpTo(s, i) = SubSeq(s, 1, i)
    BY <2>1 DEF UpTo
  <2>3. /\ UpTo(s, i) \in Seq(T) /\ IsPrefix(UpTo(s, i), s)
        /\ Len(UpTo(s, i)) = i * PageSize /\ i = 0 <=> UpTo(s, i) = << >>
    BY <1>4, UpToPrefix
  <2> QED
    BY <2>1, <2>2, <2>3
<1>6. Keys(Core(t)) = Keys(t)
  BY CoreFact
<1>7. Len(WalkEnd(t, s)) = j /\ WalkEnd(t, s) \in Seq(T) /\ IsPrefix(WalkEnd(t, s), s)
  BY <1>3, <1>4, <1>5
<1>8. WalkEnd(t, s) \in Keys(t) \cup {<< >>}
  BY <1>3, <1>4, <1>5, <1>6
<1>9. ASSUME NEW i \in 1 .. Len(s) PROVE SubSeq(s, 1, i) \in Keys(t) <=> i <= j
  <2>1. i \in Nat /\ i # 0 /\ i <= Len(s)
    BY <1>4
  <2>2. UpTo(s, i) \in Keys(t) <=> i <= j
    BY <1>3, <1>4, <1>6, <2>1
  <2> QED
    BY <1>5, <2>1, <2>2
<1> QED
  BY <1>7, <1>8, <1>9

(* What a match finds is live, if it is not the root.                      *)
LEMMA DeepestFact ==
    ASSUME NEW T, NEW P, NEW t, IsTree(Core(t), T, P), NEW e \in Seq(T),
           NEW x, x = Deepest(t, e).node
    PROVE  /\ x \in Names(t) \cup {<< >>} /\ x \in Seq(T) /\ IsPrefix(x, e)
           /\ x # << >> => Live(t, x)
<1>1. PICK S : S = {<< >>} \cup {b \in PathTo(t, e) : Reusable(t, b)}
  OBVIOUS
<1>2. << >> \in Seq(T) /\ IsPrefix(<< >>, e) /\ Len(e) \in Nat
  BY EmptyPrefix, LenProperties
<1>3. \A b \in S : b \in Seq(T) /\ b \in Names(t) \cup {<< >>} /\ IsPrefix(b, e)
  BY <1>1, <1>2, NodeFact DEF PathTo
<1>4. \A b \in S : Len(b) <= Len(e)
  BY <1>3, PrefixLen
<1>5. x = Longest(S)
  BY <1>1 DEF Deepest
<1>6. x \in S
  <2>1. S \in SUBSET Seq(T) /\ S # {}
    BY <1>1, <1>3
  <2> QED
    BY <1>2, <1>4, <1>5, <2>1, LongestFact
<1>7. ASSUME x # << >> PROVE Live(t, x)
  <2>1. x \in PathTo(t, e) /\ Reusable(t, x) /\ x \in Names(t) /\ x \in Seq(T)
    BY <1>1, <1>3, <1>6, <1>7
  <2>2. SUFFICES ASSUME ~ Live(t, x) PROVE FALSE
    OBVIOUS
  <2>3. PICK D : D = {n \in PathTo(t, x) : ~ Live(t, n)}
    OBVIOUS
  <2>4. x \in PathTo(t, x)
    BY <2>1, PrefixRefl DEF PathTo
  <2>5. x \in D
    BY <2>2, <2>3, <2>4
  <2>6. LiveAfter(t, x, Longest(D)) >= Window
    BY <2>1, <2>3, <2>5 DEF Reusable
  <2>7. \A b \in D : b \in Seq(T) /\ b \in PathTo(t, x) /\ Len(b) <= Len(x)
    BY <2>1, <2>3, <2>4, PathFact
  <2>8. Longest(D) \in D /\ Len(x) <= Len(Longest(D))
    <3>1. D \in SUBSET Seq(T) /\ Len(x) \in Nat
      BY <2>1, <2>7, LenProperties
    <3> QED
      BY <2>5, <2>7, <3>1, LongestFact
  <2>9. {m \in PathTo(t, x) : Live(t, m) /\ Len(m) > Len(Longest(D))} = {}
    <3>1. \A m \in PathTo(t, x) : Len(m) <= Len(x) /\ Len(m) \in Nat
      BY <2>1, <2>4, PathFact, PrefixLen
    <3>2. Len(Longest(D)) \in Nat /\ Len(x) \in Nat
      BY <2>1, <2>7, <2>8, LenProperties
    <3> QED
      BY <2>8, <3>1, <3>2
  <2>10. LiveAfter(t, x, Longest(D)) = 0
    BY <2>9, SizeEmpty DEF LiveAfter
  <2> QED
    BY <2>6, <2>10, OnePage
<1> QED
  BY <1>3, <1>6, <1>7

LEMMA MatchFact ==
    ASSUME NEW T, NEW P, NEW t, NEW U, NEW h, TreeOK(t, T, P, U, h),
           U \subseteq DOMAIN h, NEW s \in Seq(T), NEW r, r = Match(t, s)
    PROVE  /\ TreeOK(r.tree, T, P, U, h)
           /\ r.node \in Names(r.tree) \cup {<< >>} /\ r.node \in Seq(T)
           /\ IsPrefix(r.node, s)
           /\ r.node # << >> => Live(r.tree, r.node)
<1>1. PICK e : e = WalkEnd(t, s)
  OBVIOUS
<1>2. PICK d : d = Split(t, e)
  OBVIOUS
<1>3. r.tree = d /\ r.node = Deepest(d, e).node
  BY <1>1, <1>2 DEF Match, MatchAt, Deepest
<1>4. e \in Keys(t) \cup {<< >>} /\ e \in Seq(T) /\ IsPrefix(e, s)
  BY <1>1, WalkFact DEF TreeOK
<1>5. TreeOK(d, T, P, U, h)
  BY <1>2, <1>4, SplitKeeps
<1>6. /\ r.node \in Names(d) \cup {<< >>} /\ r.node \in Seq(T) /\ IsPrefix(r.node, e)
      /\ r.node # << >> => Live(d, r.node)
  BY <1>3, <1>4, <1>5, DeepestFact DEF TreeOK
<1>7. IsPrefix(r.node, s)
  BY <1>4, <1>6, PrefixTrans
<1> QED
  BY <1>3, <1>5, <1>6, <1>7

-----------------------------------------------------------------------------
(* Locking.                                                                *)

LEMMA TotalMoved ==
    ASSUME NEW T, NEW P, NEW t, IsTree(Core(t), T, P),
           NEW A \in SUBSET Names(t), NEW B \in SUBSET Names(t), NEW W \in SUBSET A,
           W \cap B = {}
    PROVE  /\ TotalLength(t, A \ W) = TotalLength(t, A) - TotalLength(t, W)
           /\ TotalLength(t, B \cup W) = TotalLength(t, B) + TotalLength(t, W)
<1>1. A \ W \in SUBSET Names(t) /\ W \in SUBSET Names(t) /\ (A \ W) \cap W = {}
      /\ (A \ W) \cup W = A /\ B \cap W = {}
  OBVIOUS
<1>2. TotalLength(t, (A \ W) \cup W) = TotalLength(t, A \ W) + TotalLength(t, W)
  BY <1>1, TotalUnion
<1>3. TotalLength(t, B \cup W) = TotalLength(t, B) + TotalLength(t, W)
  BY <1>1, TotalUnion
<1>4. TotalLength(t, A \ W) \in Nat /\ TotalLength(t, W) \in Nat
  BY <1>1, TotalFact
<1>5. PICK C : C = A \ W
  OBVIOUS
<1>6. TotalLength(t, A) = TotalLength(t, C) + TotalLength(t, W)
  BY <1>1, <1>2, <1>5, Zenon
<1>7. TotalLength(t, C) \in Nat
  BY <1>4, <1>5, Zenon
<1>8. TotalLength(t, C) = TotalLength(t, A) - TotalLength(t, W)
  BY <1>4, <1>6, <1>7
<1> QED
  BY <1>3, <1>5, <1>8, Zenon

LivePath(t, x) == {n \in PathTo(t, x) : Live(t, n)}
WindowAt(t, x) == {n \in PathTo(t, x) : Live(t, n) /\ LiveAfter(t, x, n) < Window}
EndsAt(t, x) ==
    {n \in WindowAt(t, x) : LiveAfter(t, x, n) + NodeLength(t, n) >= Window}

LEMMA LiveAfterFact ==
    ASSUME NEW T, NEW P, NEW t, IsTree(Core(t), T, P), NEW x \in Seq(T), NEW a
    PROVE  /\ LiveAfter(t, x, a) \in Nat
           /\ (\A b \in LivePath(t, x) : ~ (Len(b) > Len(a))) => LiveAfter(t, x, a) = 0
<1>1. PICK S : S = {m \in PathTo(t, x) : Live(t, m) /\ Len(m) > Len(a)}
  OBVIOUS
<1>2. S \in SUBSET Names(t) /\ LiveAfter(t, x, a) = TotalLength(t, S)
  BY <1>1 DEF PathTo, LiveAfter
<1>3. LiveAfter(t, x, a) \in Nat
  BY <1>2, TotalFact
<1>4. (\A b \in LivePath(t, x) : ~ (Len(b) > Len(a))) => S = {}
  BY <1>1 DEF LivePath
<1> QED
  BY <1>2, <1>3, <1>4, SizeEmpty

LEMMA LiveAfterStep ==
    ASSUME NEW T, NEW P, NEW t, IsTree(Core(t), T, P), NEW x \in Seq(T),
           NEW a \in LivePath(t, x), NEW b \in LivePath(t, x), Len(a) < Len(b)
    PROVE  /\ NodeLength(t, b) \in Nat
           /\ LiveAfter(t, x, b) + NodeLength(t, b) <= LiveAfter(t, x, a)
           /\ (\A c \in LivePath(t, x) : Len(c) > Len(a) => Len(c) >= Len(b)) =>
                 LiveAfter(t, x, b) + NodeLength(t, b) = LiveAfter(t, x, a)
<1>1. PICK A : A = {m \in PathTo(t, x) : Live(t, m) /\ Len(m) > Len(a)}
  OBVIOUS
<1>2. PICK B : B = {m \in PathTo(t, x) : Live(t, m) /\ Len(m) > Len(b)}
  OBVIOUS
<1>3. \A m, n \in LivePath(t, x) :
         /\ m \in Names(t) /\ Len(m) \in Nat /\ Len(n) \in Nat
         /\ m = n <=> Len(m) = Len(n)
  BY PathFact DEF LivePath
<1>4. B \cup {b} \in SUBSET A /\ b \notin B /\ A \in SUBSET Names(t)
  BY <1>1, <1>2, <1>3 DEF LivePath
<1>5. TotalLength(t, B \cup {b}) = TotalLength(t, B) + TotalLength(t, {b})
  <2>1. B \in SUBSET Names(t) /\ {b} \in SUBSET Names(t) /\ B \cap {b} = {}
    BY <1>4
  <2> QED
    BY <2>1, TotalUnion
<1>6. TotalLength(t, {b}) = NodeLength(t, b) /\ TotalLength(t, {b}) \in Nat
  <2>1. b \in Names(t) /\ {b} \in SUBSET Names(t)
    BY <1>3
  <2> QED
    BY <2>1, NodeTotal, TotalFact
<1>7. TotalLength(t, B \cup {b}) <= TotalLength(t, A)
  BY <1>4, TotalMonotonic
<1>8. LiveAfter(t, x, a) = TotalLength(t, A) /\ LiveAfter(t, x, b) = TotalLength(t, B)
  BY <1>1, <1>2 DEF LiveAfter
<1>9. ASSUME \A c \in LivePath(t, x) : Len(c) > Len(a) => Len(c) >= Len(b)
      PROVE  A = B \cup {b}
  <2>1. ASSUME NEW c \in A PROVE c \in B \/ c = b
    <3>1. c \in LivePath(t, x) /\ Len(c) > Len(a)
      BY <1>1, <2>1 DEF LivePath
    <3>2. Len(c) >= Len(b) /\ Len(c) \in Nat /\ Len(b) \in Nat
          /\ (c = b <=> Len(c) = Len(b))
      BY <1>3, <1>9, <3>1
    <3> QED
      BY <1>2, <3>1, <3>2 DEF LivePath
  <2> QED
    BY <1>4, <2>1
<1> QED
  BY <1>5, <1>6, <1>7, <1>8, <1>9

LEMMA Smallest ==
    ASSUME NEW I \in SUBSET Nat, NEW N \in I
    PROVE  \E i \in I : \A j \in I : i <= j
<1>1. PICK J : J = {k \in 0 .. N : \A j \in I : k <= j}
  OBVIOUS
<1>2. PICK i \in J : \A j \in J : j <= i
  <2>1. N \in Nat /\ J \in SUBSET (0 .. N) /\ 0 \in J
    BY <1>1
  <2>2. \A k \in J : \A j \in 0 .. k : j \in J
    BY <1>1
  <2> QED
    BY <2>1, <2>2, Greatest
<1>3. i \in Nat /\ i <= N /\ \A j \in I : i <= j
  BY <1>1, <1>2
<1>4. i \in I
  <2>1. SUFFICES ASSUME i \notin I PROVE FALSE
    OBVIOUS
  <2>2. \A j \in I : i + 1 <= j
    BY <1>3, <2>1
  <2>3. i + 1 \in 0 .. N
    BY <1>3, <2>2
  <2>4. i + 1 \in J
    BY <1>1, <2>2, <2>3
  <2> QED
    BY <1>2, <1>3, <2>4
<1> QED
  BY <1>3, <1>4

(* The locked end of a path: down from the node where it covers a window,  *)
(* or all that is live if there is no such node.                           *)
LEMMA WindowShape ==
    ASSUME NEW T, NEW P, NEW t, IsTree(Core(t), T, P), NEW x \in Seq(T)
    PROVE  \/ EndsAt(t, x) = {} /\ WindowAt(t, x) = LivePath(t, x)
           \/ \E e \in LivePath(t, x) :
                /\ EndsAt(t, x) = {e}
                /\ WindowAt(t, x) = {n \in LivePath(t, x) : Len(n) >= Len(e)}
<1>1. \A m, n \in LivePath(t, x) :
         /\ m \in Seq(T) /\ IsPrefix(m, x) /\ Len(m) \in Nat /\ Len(n) \in Nat
         /\ m = n <=> Len(m) = Len(n)
  BY PathFact DEF LivePath
<1>2. \A n : n \in WindowAt(t, x) <=> n \in LivePath(t, x) /\ LiveAfter(t, x, n) < Window
  BY DEF WindowAt, LivePath
<1>3. \A n : n \in EndsAt(t, x) <=> /\ n \in WindowAt(t, x)
                                    /\ LiveAfter(t, x, n) + NodeLength(t, n) >= Window
  BY DEF EndsAt
<1>4. \A n : LiveAfter(t, x, n) \in Nat
  BY LiveAfterFact
<1>5. \A n \in LivePath(t, x) : NodeLength(t, n) \in Nat
  <2> TAKE n \in LivePath(t, x)
  <2>1. n \in Names(t)
    BY DEF LivePath, PathTo
  <2>2. /\ Start(t, n) \in Nat /\ Start(t, n) < Len(n)
        /\ NodeLength(t, n) = Len(n) - Start(t, n)
    BY <2>1, NodeLengths
  <2> QED
    BY <1>1, <2>2
<1>6. \A a, b \in LivePath(t, x) : Len(a) < Len(b) =>
         LiveAfter(t, x, b) + NodeLength(t, b) <= LiveAfter(t, x, a)
  BY LiveAfterStep
<1>7. Window \in Nat /\ Window > 0
  BY OnePage
<1>8. ASSUME NEW e \in EndsAt(t, x)
      PROVE  /\ e \in LivePath(t, x) /\ EndsAt(t, x) = {e}
             /\ WindowAt(t, x) = {n \in LivePath(t, x) : Len(n) >= Len(e)}
  <2>1. /\ e \in LivePath(t, x) /\ LiveAfter(t, x, e) < Window
        /\ LiveAfter(t, x, e) + NodeLength(t, e) >= Window
    BY <1>2, <1>3, <1>8
  <2>2. ASSUME NEW n \in LivePath(t, x), Len(n) < Len(e) PROVE n \notin WindowAt(t, x)
    <3>1. LiveAfter(t, x, e) + NodeLength(t, e) <= LiveAfter(t, x, n)
      BY <1>6, <2>1, <2>2
    <3> QED
      BY <1>2, <1>4, <1>5, <1>7, <2>1, <3>1
  <2>3. ASSUME NEW n \in LivePath(t, x), Len(n) > Len(e)
        PROVE  n \in WindowAt(t, x) /\ n \notin EndsAt(t, x)
    <3>1. LiveAfter(t, x, n) + NodeLength(t, n) <= LiveAfter(t, x, e)
      BY <1>1, <1>6, <2>1, <2>3
    <3> QED
      BY <1>2, <1>3, <1>4, <1>5, <1>7, <2>1, <3>1
  <2>4. \A n \in LivePath(t, x) : Len(n) < Len(e) \/ Len(n) > Len(e) \/ n = e
    BY <1>1, <2>1
  <2>5. EndsAt(t, x) = {e}
    BY <1>2, <1>3, <1>8, <2>2, <2>3, <2>4
  <2>6. \A n \in LivePath(t, x) : n \in WindowAt(t, x) <=> Len(n) >= Len(e)
    BY <1>1, <1>3, <1>8, <2>1, <2>2, <2>3, <2>4
  <2> QED
    BY <1>2, <2>1, <2>5, <2>6
<1>9. ASSUME EndsAt(t, x) = {} PROVE WindowAt(t, x) = LivePath(t, x)
  <2>1. SUFFICES ASSUME NEW z \in LivePath(t, x), z \notin WindowAt(t, x) PROVE FALSE
    BY <1>2
  <2>2. PICK D : D = LivePath(t, x) \ WindowAt(t, x)
    OBVIOUS
  <2>3. PICK n \in D : \A r \in D : Len(r) <= Len(n)
    <3>1. D \in SUBSET Seq(T) /\ D # {} /\ Len(x) \in Nat
      BY <1>1, <2>1, <2>2, LenProperties
    <3>2. \A r \in D : Len(r) <= Len(x)
      BY <1>1, <2>2, PrefixLen
    <3>3. Longest(D) \in D /\ \A r \in D : Len(r) <= Len(Longest(D))
      BY <3>1, <3>2, LongestFact
    <3> QED
      BY <3>3
  <2>4. n \in LivePath(t, x) /\ LiveAfter(t, x, n) >= Window
    BY <1>2, <1>4, <1>7, <2>2, <2>3
  <2>5. PICK I : I = {i \in Nat : \E c \in LivePath(t, x) : Len(c) > Len(n) /\ i = Len(c)}
    OBVIOUS
  <2>6. I # {}
    <3>1. PICK c \in LivePath(t, x) : Len(c) > Len(n)
      BY <1>4, <1>7, <2>4, LiveAfterFact
    <3> QED
      BY <1>1, <2>5, <3>1
  <2>7. PICK i \in I : \A j \in I : i <= j
    <3>1. I \in SUBSET Nat
      BY <2>5
    <3> QED
      BY <2>6, <3>1, Smallest
  <2>8. PICK e \in LivePath(t, x) : Len(e) > Len(n) /\ i = Len(e)
    BY <2>5, <2>7
  <2>9. \A c \in LivePath(t, x) : Len(c) > Len(n) => Len(c) >= Len(e)
    BY <1>1, <2>5, <2>7, <2>8
  <2>10. LiveAfter(t, x, e) + NodeLength(t, e) = LiveAfter(t, x, n)
    BY <1>1, <2>4, <2>8, <2>9, LiveAfterStep
  <2>11. e \in WindowAt(t, x)
    BY <1>1, <2>2, <2>3, <2>8
  <2> QED
    BY <1>3, <1>9, <2>4, <2>10, <2>11
<1> QED
  BY <1>8, <1>9

LEMMA FreshFact ==
    ASSUME NEW t, IsFiniteSet(Names(t)), NEW i, i = FreshUuid(t)
    PROVE  i \in Nat /\ i # 0 /\ \A n \in Names(t) : t.nodes[n].uuid # i
<1>1. PICK c : c = Cardinality(Names(t))
  OBVIOUS
<1>2. c \in Nat
  BY <1>1, CardinalNat
<1>3. \E j \in 1 .. c + 1 : \A n \in Names(t) : t.nodes[n].uuid # j
  <2>1. SUFFICES ASSUME \A j \in 1 .. c + 1 : \E n \in Names(t) : t.nodes[n].uuid = j
                 PROVE  FALSE
    OBVIOUS
  <2>2. PICK f : f = [j \in 1 .. c + 1 |-> CHOOSE n \in Names(t) : t.nodes[n].uuid = j]
    OBVIOUS
  <2>3. \A j \in 1 .. c + 1 : f[j] \in Names(t) /\ t.nodes[f[j]].uuid = j
    BY <2>1, <2>2
  <2>4. f \in [1 .. c + 1 -> Names(t)]
    BY <2>2, <2>3
  <2>5. IsFiniteSet(1 .. c + 1) /\ Cardinality(1 .. c + 1) = c + 1
    BY <1>2, FS_Interval
  <2>6. Cardinality(Names(t)) < Cardinality(1 .. c + 1)
    BY <1>1, <1>2, <2>5
  <2>7. \E j, k \in 1 .. c + 1 : j # k /\ f[j] = f[k]
    BY <2>4, <2>5, <2>6, FS_PigeonHole
  <2> QED
    BY <2>3, <2>7
<1>4. i \in 1 .. c + 1 /\ \A n \in Names(t) : t.nodes[n].uuid # i
  BY <1>1, <1>3 DEF FreshUuid
<1> QED
  BY <1>2, <1>4

LEMMA MarkIs ==
    ASSUME NEW v \in Nat, NEW S
    PROVE  /\ S = {} => Max({0} \cup S) = 0
           /\ S = {v} => Max({0} \cup S) = v
<1>1. CASE S = {}
  <2>1. {0} \cup S = {0}
    BY <1>1
  <2>2. Max({0}) = 0
    BY DEF Max
  <2> QED
    BY <1>1, <2>1, <2>2
<1>2. CASE S = {v}
  <2>1. PICK A : A = {0} \cup S
    OBVIOUS
  <2>2. v \in A /\ \A y \in A : v >= y
    BY <1>2, <2>1
  <2>3. Max(A) \in A /\ \A y \in A : Max(A) >= y
    BY <2>2 DEF Max
  <2> QED
    BY <1>2, <2>1, <2>2, <2>3
<1> QED
  BY <1>1, <1>2

(* The nodes of d are those of t, with other locks and marks.              *)
Renoted(d, t, P, path, e, W, k, E, id) ==
    /\ SwaTyped(d, P) /\ Names(d) = Names(t)
    /\ Core(d) = Relinked(Core(t), path, e, d.evictable, d.protected)
    /\ \A n \in Names(t) :
         /\ d.nodes[n].pages = t.nodes[n].pages
         /\ d.nodes[n].tombstone = t.nodes[n].tombstone
         /\ d.nodes[n].ref = IF n \in path THEN t.nodes[n].ref + e ELSE t.nodes[n].ref
         /\ d.nodes[n].swaRef = IF n \in W THEN t.nodes[n].swaRef + k ELSE t.nodes[n].swaRef
         /\ d.nodes[n].uuid = IF n \in E THEN id ELSE t.nodes[n].uuid

MarkAll(D, refs, E, id) == [n \in D |-> IF n \in E THEN [refs[n] EXCEPT !.uuid = id] ELSE refs[n]]

LEMMA RenoteNodes ==
    ASSUME NEW P, NEW t, SwaTyped(t, P), NEW path \in SUBSET Names(t), NEW e \in Int,
           NEW W \in SUBSET Names(t), NEW k \in Int, NEW E \in SUBSET Names(t), NEW id \in Nat,
           \A n \in path : t.nodes[n].ref + e \in Nat,
           \A n \in W : t.nodes[n].swaRef + k \in Nat,
           NEW l, l.nodes = WithRefs(t, path, e),
           NEW refs, refs = WithSwaRefs(l, W, k),
           NEW nodes, nodes = MarkAll(Names(l), refs, E, id),
           NEW a, NEW b, NEW c, NEW p,
           NEW d, d = [nodes |-> nodes, evictable |-> a, protected |-> b,
                       swaEvictable |-> c, swaProtected |-> p]
    PROVE  /\ Renoted(d, t, P, path, e, W, k, E, id)
           /\ d.evictable = a /\ d.protected = b /\ d.swaEvictable = c /\ d.swaProtected = p
<1>1. t.nodes \in [Names(t) -> SwaNode(P)]
  BY DEF SwaTyped, SwaNode
<1>3. Names(l) = Names(t)
  <2>1. Names(l) = DOMAIN WithRefs(t, path, e)
    BY Zenon DEF Names
  <2> QED
    BY <2>1 DEF WithRefs
<1>4. d.nodes = nodes /\ d.evictable = a /\ d.protected = b
      /\ d.swaEvictable = c /\ d.swaProtected = p
  OBVIOUS
<1>5. Names(d) = Names(t) /\ nodes = [n \in Names(t) |-> nodes[n]]
  <2>1. DOMAIN nodes = Names(t) /\ nodes = [n \in Names(t) |-> nodes[n]]
    BY <1>3 DEF MarkAll
  <2> QED
    BY <1>4, <2>1 DEF Names
<1>6. ASSUME NEW n \in Names(t)
      PROVE  /\ d.nodes[n] \in SwaNode(P)
             /\ d.nodes[n].pages = t.nodes[n].pages
             /\ d.nodes[n].tombstone = t.nodes[n].tombstone
             /\ d.nodes[n].ref = IF n \in path THEN t.nodes[n].ref + e ELSE t.nodes[n].ref
             /\ d.nodes[n].swaRef = IF n \in W THEN t.nodes[n].swaRef + k ELSE t.nodes[n].swaRef
             /\ d.nodes[n].uuid = IF n \in E THEN id ELSE t.nodes[n].uuid
  <2>1. PICK old : old = t.nodes[n]
    OBVIOUS
  <2>10. /\ old.pages \in Seq(P) /\ old.ref \in Nat /\ old.swaRef \in Nat
         /\ old.tombstone \in BOOLEAN /\ old.uuid \in Nat
         /\ old = [pages |-> old.pages, ref |-> old.ref, swaRef |-> old.swaRef,
                   tombstone |-> old.tombstone, uuid |-> old.uuid]
    <3>1. old \in SwaNode(P)
      BY <1>1, <2>1
    <3> QED
      BY <3>1 DEF SwaNode
  <2>2. old = [pages |-> old.pages, ref |-> old.ref, swaRef |-> old.swaRef,
               tombstone |-> old.tombstone, uuid |-> old.uuid]
    BY <2>10
  <2>3. PICK f : f = l.nodes[n]
    OBVIOUS
  <2>4. f = [pages |-> old.pages, ref |-> IF n \in path THEN old.ref + e ELSE old.ref,
             swaRef |-> old.swaRef, tombstone |-> old.tombstone, uuid |-> old.uuid]
    <3>1. f = IF n \in path THEN [old EXCEPT !.ref = @ + e] ELSE old
      BY <2>1, <2>3 DEF WithRefs
    <3> QED
      BY <2>2, <3>1
  <2>5. PICK g : g = refs[n]
    OBVIOUS
  <2>6. g = IF n \in W THEN [f EXCEPT !.swaRef = @ + k] ELSE f
    BY <1>3, <2>3, <2>5 DEF WithSwaRefs
  <2>7. d.nodes[n] = IF n \in E THEN [g EXCEPT !.uuid = id] ELSE g
    <3>1. nodes[n] = IF n \in E THEN [g EXCEPT !.uuid = id] ELSE g
      BY <1>3, <2>5 DEF MarkAll
    <3> QED
      BY <1>4, <3>1
  <2>8. g = [pages |-> old.pages, ref |-> IF n \in path THEN old.ref + e ELSE old.ref,
             swaRef |-> IF n \in W THEN old.swaRef + k ELSE old.swaRef,
             tombstone |-> old.tombstone, uuid |-> old.uuid]
    BY <2>4, <2>6
  <2>9. PICK r \in Nat : r = IF n \in path THEN old.ref + e ELSE old.ref
    <3>1. old.ref \in Nat
      BY <2>10
    <3> QED
      BY <2>1, <3>1
  <2>11. PICK q \in Nat : q = IF n \in W THEN old.swaRef + k ELSE old.swaRef
    BY <2>1, <2>10
  <2>12. PICK i \in Nat : i = IF n \in E THEN id ELSE old.uuid
    BY <2>10
  <2>13. PICK v : v = d.nodes[n]
    OBVIOUS
  <2>14. v = [pages |-> old.pages, ref |-> r, swaRef |-> q,
              tombstone |-> old.tombstone, uuid |-> i]
    BY <2>7, <2>8, <2>9, <2>11, <2>12, <2>13
  <2>15. v \in SwaNode(P)
    BY <2>10, <2>14 DEF SwaNode
  <2>16. v.pages = old.pages /\ v.ref = r /\ v.swaRef = q /\ v.tombstone = old.tombstone
         /\ v.uuid = i
    BY <2>14
  <2> QED
    BY <2>1, <2>9, <2>11, <2>12, <2>13, <2>15, <2>16
<1>7. SwaTyped(d, P)
  <2>3. d.nodes \in [Names(d) -> SwaNode(P)]
    BY <1>4, <1>5, <1>6
  <2> QED
    BY <1>4, <2>3 DEF SwaTyped, SwaNode
<1>8. Core(d) = Relinked(Core(t), path, e, a, b)
  <2>1. PICK f : f = Core(t)
    OBVIOUS
  <2>2. f.nodes = [n \in Names(t) |-> [pages |-> t.nodes[n].pages, ref |-> t.nodes[n].ref]]
        /\ Names(f) = Names(t)
    BY <2>1, CoreFact DEF Core
  <2>3. \A n \in Names(t) :
          IF n \in path THEN [f.nodes[n] EXCEPT !.ref = @ + e] = [pages |-> d.nodes[n].pages, ref |-> d.nodes[n].ref]
          ELSE f.nodes[n] = [pages |-> d.nodes[n].pages, ref |-> d.nodes[n].ref]
    <3> TAKE n \in Names(t)
    <3>1. f.nodes[n] = [pages |-> t.nodes[n].pages, ref |-> t.nodes[n].ref]
      BY <2>2
    <3>2. d.nodes[n].pages = t.nodes[n].pages
          /\ d.nodes[n].ref = IF n \in path THEN t.nodes[n].ref + e ELSE t.nodes[n].ref
      BY <1>6
    <3> QED
      BY <3>1, <3>2
  <2>4. WithRefs(f, path, e)
          = [n \in Names(t) |-> [pages |-> d.nodes[n].pages, ref |-> d.nodes[n].ref]]
    BY <2>2, <2>3 DEF WithRefs
  <2>5. Core(d) = [nodes |-> WithRefs(f, path, e), evictable |-> a, protected |-> b]
    BY <1>4, <1>5, <2>4 DEF Core
  <2> QED
    BY <2>1, <2>5 DEF Relinked
<1> QED
  BY <1>4, <1>5, <1>6, <1>7, <1>8 DEF Renoted

LEMMA CoreRelinked ==
    ASSUME NEW P, NEW t, SwaTyped(t, P), NEW d, NEW W, NEW k, NEW E, NEW id, NEW x,
           Renoted(d, t, P, PathTo(t, x), k, W, k, E, id)
    PROVE  /\ k = 1 /\ d.evictable = t.evictable - TotalLength(t, PathAt(t, x, 0))
                    /\ d.protected = t.protected + TotalLength(t, PathAt(t, x, 0))
                => Core(d) = Lock(Core(t), x)
           /\ k = -1 /\ d.evictable = t.evictable + TotalLength(t, PathAt(t, x, 1))
                     /\ d.protected = t.protected - TotalLength(t, PathAt(t, x, 1))
                => Core(d) = Unlock(Core(t), x)
<1>1. PICK f : f = Core(t)
  OBVIOUS
<1>2. /\ PathTo(f, x) = PathTo(t, x) /\ f.evictable = t.evictable /\ f.protected = t.protected
      /\ f = [nodes |-> f.nodes, evictable |-> f.evictable, protected |-> f.protected]
  BY <1>1, CoreFact DEF Core
<1>3. ASSUME NEW i
      PROVE  TotalLength(f, {n \in PathTo(f, x) : f.nodes[n].ref = i})
               = TotalLength(t, PathAt(t, x, i))
  <2>1. \A n \in PathTo(t, x) : f.nodes[n].ref = t.nodes[n].ref
    BY <1>1, CoreFact DEF PathTo
  <2>2. {n \in PathTo(f, x) : f.nodes[n].ref = i} = PathAt(t, x, i)
    BY <1>2, <2>1 DEF PathAt
  <2>3. PathAt(t, x, i) \in SUBSET Names(t)
    BY DEF PathAt, PathTo
  <2> QED
    BY <1>1, <2>2, <2>3, CoreFact
<1>4. Core(d) = [nodes |-> WithRefs(f, PathTo(t, x), k), evictable |-> d.evictable,
                 protected |-> d.protected]
  BY <1>1 DEF Renoted, Relinked
<1>5. PICK a : a = TotalLength(t, PathAt(t, x, 0))
  OBVIOUS
<1>6. PICK b : b = TotalLength(t, PathAt(t, x, 1))
  OBVIOUS
<1>7. PICK up : up = WithRefs(f, PathTo(t, x), 1)
  OBVIOUS
<1>8. PICK down : down = WithRefs(f, PathTo(t, x), -1)
  OBVIOUS
<1>9. Lock(f, x) = [f EXCEPT !.nodes = up, !.evictable = @ - a, !.protected = @ + a]
  <2>1. TotalLength(f, {n \in PathTo(f, x) : f.nodes[n].ref = 0}) = a
    BY <1>3, <1>5, Zenon
  <2> QED
    BY <1>2, <1>7, <2>1, Zenon DEF Lock
<1>10. Unlock(f, x) = [f EXCEPT !.nodes = down, !.evictable = @ + b, !.protected = @ - b]
  <2>1. TotalLength(f, {n \in PathTo(f, x) : f.nodes[n].ref = 1}) = b
    BY <1>3, <1>6, Zenon
  <2> QED
    BY <1>2, <1>8, <2>1, Zenon DEF Unlock
<1>11. Lock(f, x) = [nodes |-> up, evictable |-> t.evictable - a, protected |-> t.protected + a]
  BY <1>2, <1>9
<1>12. Unlock(f, x) = [nodes |-> down, evictable |-> t.evictable + b,
                       protected |-> t.protected - b]
  BY <1>2, <1>10
<1> QED
  BY <1>1, <1>4, <1>5, <1>6, <1>7, <1>8, <1>11, <1>12

WindowSize(t, W, k) == TotalLength(t, {n \in W : t.nodes[n].swaRef = k})

(* What inc_lock does to the nodes.                                        *)
LEMMA IncNodes ==
    ASSUME NEW T, NEW P, NEW t, SwaTyped(t, P), IsTree(Core(t), T, P),
           NEW x \in Names(t) \cup {<< >>}, NEW r, r = IncLock(t, x),
           NEW d, d = r.tree, NEW W, W = WindowAt(t, x), NEW E, E = EndsAt(t, x),
           NEW id, id = r.handle.uuid
    PROVE  /\ r.handle = [node |-> x, uuid |-> id] /\ id \in Nat
           /\ Renoted(d, t, P, PathTo(t, x), 1, W, 1, E, id)
           /\ Core(d) = Lock(Core(t), x)
           /\ d.swaEvictable = t.swaEvictable - WindowSize(t, W, 0)
           /\ d.swaProtected = t.swaProtected + WindowSize(t, W, 0)
           /\ E = {} => id = 0
           /\ \A e \in Names(t) : E = {e} =>
                 /\ id # 0
                 /\ IF t.nodes[e].uuid # 0 THEN id = t.nodes[e].uuid
                    ELSE \A n \in Names(t) : t.nodes[n].uuid # id
<1>1. PICK l : l = Lock(t, x)
  OBVIOUS
<1>2. PICK a : a = TotalLength(t, PathAt(t, x, 0))
  OBVIOUS
<1>3. /\ l.nodes = WithRefs(t, PathTo(t, x), 1)
      /\ l = [nodes |-> l.nodes, evictable |-> t.evictable - a, protected |-> t.protected + a,
              swaEvictable |-> t.swaEvictable, swaProtected |-> t.swaProtected]
  <2>1. PICK up : up = WithRefs(t, PathTo(t, x), 1)
    OBVIOUS
  <2>2. l = [t EXCEPT !.nodes = up, !.evictable = @ - a, !.protected = @ + a]
    BY <1>1, <1>2, <2>1, Zenon DEF Lock, PathAt
  <2>3. t = [nodes |-> t.nodes, evictable |-> t.evictable, protected |-> t.protected,
             swaEvictable |-> t.swaEvictable, swaProtected |-> t.swaProtected]
    BY DEF SwaTyped
  <2>4. l = [nodes |-> up, evictable |-> t.evictable - a, protected |-> t.protected + a,
              swaEvictable |-> t.swaEvictable, swaProtected |-> t.swaProtected]
    BY <2>2, <2>3
  <2> QED
    BY <2>1, <2>4
<1>4. Names(l) = Names(t)
      /\ \A n \in Names(t) : l.nodes[n].swaRef = t.nodes[n].swaRef
                             /\ l.nodes[n].uuid = t.nodes[n].uuid
                             /\ l.nodes[n].pages = t.nodes[n].pages
  <2>1. Names(l) = Names(t)
    BY <1>3 DEF Names, WithRefs
  <2>2. ASSUME NEW n \in Names(t)
        PROVE  /\ l.nodes[n].swaRef = t.nodes[n].swaRef /\ l.nodes[n].uuid = t.nodes[n].uuid
               /\ l.nodes[n].pages = t.nodes[n].pages
    <3>1. PICK old : old = t.nodes[n]
      OBVIOUS
    <3>2. old = [pages |-> old.pages, ref |-> old.ref, swaRef |-> old.swaRef,
                 tombstone |-> old.tombstone, uuid |-> old.uuid]
      BY <3>1 DEF SwaTyped
    <3>3. l.nodes[n] = IF n \in PathTo(t, x) THEN [old EXCEPT !.ref = @ + 1] ELSE old
      BY <1>3, <3>1 DEF WithRefs
    <3>4. PICK f : f = l.nodes[n]
      OBVIOUS
    <3>5. f.swaRef = old.swaRef /\ f.uuid = old.uuid /\ f.pages = old.pages
      BY <3>2, <3>3, <3>4
    <3> QED
      BY <3>1, <3>4, <3>5
  <2> QED
    BY <2>1, <2>2
<1>5. W \in SUBSET Names(t) /\ E \in SUBSET W /\ PathTo(t, x) \in SUBSET Names(t)
  BY DEF WindowAt, EndsAt, PathTo
<1>6. r = LockWindow(l, x, W, E)
  <2>1. W = {n \in PathTo(t, x) : Live(t, n) /\ LiveAfter(t, x, n) < Window}
    BY DEF WindowAt
  <2>2. E = {n \in W : LiveAfter(t, x, n) + NodeLength(t, n) >= Window}
    BY DEF EndsAt
  <2> QED
    BY <1>1, <2>1, <2>2, Zenon DEF IncLock
<1>7. PICK size : size = WindowSize(t, W, 0)
  OBVIOUS
<1>8. TotalLength(l, {n \in W : l.nodes[n].swaRef = 0}) = size
  <2>1. {n \in W : l.nodes[n].swaRef = 0} = {n \in W : t.nodes[n].swaRef = 0}
    BY <1>4, <1>5
  <2>2. PICK S : S = {n \in W : t.nodes[n].swaRef = 0}
    OBVIOUS
  <2>3. \A n \in S : Len(l.nodes[n].pages) = Len(t.nodes[n].pages)
    BY <1>4, <1>5, <2>2
  <2>4. TotalLength(l, S) = TotalLength(t, S)
    BY <2>3, SizeSame
  <2> QED
    BY <1>7, <2>1, <2>2, <2>4, Zenon DEF WindowSize
<1>9. PICK F : F = {IF l.nodes[n].uuid # 0 THEN l.nodes[n].uuid ELSE FreshUuid(l) : n \in E}
  OBVIOUS
<1>10. PICK i : i = Max({0} \cup F)
  OBVIOUS
<1>11. PICK refs : refs = WithSwaRefs(l, W, 1)
  OBVIOUS
<1>12. PICK nodes : nodes = MarkAll(Names(l), refs, E, i)
  OBVIOUS
<1>13. r = [tree |-> [l EXCEPT !.nodes = nodes, !.swaEvictable = @ - size,
                               !.swaProtected = @ + size],
            handle |-> [node |-> x, uuid |-> i]]
  BY <1>6, <1>8, <1>9, <1>10, <1>11, <1>12, Zenon DEF LockWindow, MarkAll
<1>14. /\ r.handle = [node |-> x, uuid |-> id] /\ id = i
       /\ d = [nodes |-> nodes, evictable |-> t.evictable - a, protected |-> t.protected + a,
               swaEvictable |-> t.swaEvictable - size, swaProtected |-> t.swaProtected + size]
  <2>1. PICK g : g = [l EXCEPT !.nodes = nodes, !.swaEvictable = @ - size,
                              !.swaProtected = @ + size]
    OBVIOUS
  <2>2. r = [tree |-> g, handle |-> [node |-> x, uuid |-> i]]
    BY <1>13, <2>1, Zenon
  <2>3. d = g /\ r.handle = [node |-> x, uuid |-> i] /\ id = i
    BY <2>2
  <2>4. PICK m : m = l.nodes
    OBVIOUS
  <2>5. l = [nodes |-> m, evictable |-> t.evictable - a, protected |-> t.protected + a,
              swaEvictable |-> t.swaEvictable, swaProtected |-> t.swaProtected]
    BY <1>3, <2>4, Zenon
  <2>6. g = [nodes |-> nodes, evictable |-> t.evictable - a, protected |-> t.protected + a,
               swaEvictable |-> t.swaEvictable - size, swaProtected |-> t.swaProtected + size]
    BY <2>1, <2>5
  <2> QED
    BY <2>3, <2>6
<1>15. FreshUuid(l) \in Nat /\ FreshUuid(l) # 0
       /\ \A n \in Names(t) : t.nodes[n].uuid # FreshUuid(l)
  <2>1. IsFiniteSet(Names(t))
    BY TotalFact
  <2>2. IsFiniteSet(Names(l))
    BY <1>4, <2>1
  <2>3. FreshUuid(l) \in Nat /\ FreshUuid(l) # 0
        /\ \A n \in Names(l) : l.nodes[n].uuid # FreshUuid(l)
    BY <2>2, FreshFact
  <2> QED
    BY <1>4, <2>3
<1>16. x \in Seq(T)
  BY RootOrNode
<1>17. \/ E = {} /\ id = 0
       \/ \E e \in Names(t) : /\ E = {e} /\ id \in Nat /\ id # 0
             /\ IF t.nodes[e].uuid # 0 THEN id = t.nodes[e].uuid
                ELSE \A n \in Names(t) : t.nodes[n].uuid # id
  <2>1. CASE E = {}
    <3>1. F = {}
      BY <1>9, <2>1
    <3> QED
      BY <1>10, <1>14, <2>1, <3>1, MarkIs
  <2>2. ASSUME NEW e \in LivePath(t, x), E = {e}
        PROVE  /\ e \in Names(t) /\ id \in Nat /\ id # 0
               /\ IF t.nodes[e].uuid # 0 THEN id = t.nodes[e].uuid
                  ELSE \A n \in Names(t) : t.nodes[n].uuid # id
    <3>1. e \in Names(t) /\ t.nodes[e].uuid \in Nat
      BY DEF LivePath, PathTo, SwaTyped
    <3>2. PICK v \in Nat : v = IF t.nodes[e].uuid # 0 THEN t.nodes[e].uuid ELSE FreshUuid(l)
      BY <1>15, <3>1
    <3>3. F = {v}
      <4>1. F = {IF l.nodes[e].uuid # 0 THEN l.nodes[e].uuid ELSE FreshUuid(l)}
        BY <1>9, <2>2
      <4> QED
        BY <1>4, <3>1, <3>2, <4>1
    <3>4. id = v
      BY <1>10, <1>14, <3>3, MarkIs
    <3> QED
      BY <1>15, <3>1, <3>2, <3>4
  <2>3. E = {} \/ \E e \in LivePath(t, x) : E = {e}
    BY <1>16, WindowShape
  <2> QED
    BY <2>1, <2>2, <2>3
<1>18. id \in Nat
  BY <1>17
<1>19. /\ Renoted(d, t, P, PathTo(t, x), 1, W, 1, E, id)
       /\ d.evictable = t.evictable - a /\ d.protected = t.protected + a
       /\ d.swaEvictable = t.swaEvictable - size /\ d.swaProtected = t.swaProtected + size
  <2>1. \A n \in Names(t) : t.nodes[n].ref + 1 \in Nat /\ t.nodes[n].swaRef + 1 \in Nat
    BY DEF SwaTyped
  <2>2. E \in SUBSET Names(t) /\ 1 \in Int
    BY <1>5
  <2>3. \A n \in PathTo(t, x) : t.nodes[n].ref + 1 \in Nat
    BY <1>5, <2>1
  <2>4. \A n \in W : t.nodes[n].swaRef + 1 \in Nat
    BY <1>5, <2>1
  <2>5. nodes = MarkAll(Names(l), refs, E, id)
    BY <1>12, <1>14
  <2>6. l.nodes = WithRefs(t, PathTo(t, x), 1)
    BY <1>3, Zenon
  <2> QED
    BY <1>5, <1>11, <1>14, <1>18, <2>2, <2>3, <2>4, <2>5, <2>6, RenoteNodes
<1>20. Core(d) = Lock(Core(t), x)
  BY <1>2, <1>19, CoreRelinked
<1>21. \A e \in Names(t) : E = {e} =>
                 /\ id # 0
                 /\ IF t.nodes[e].uuid # 0 THEN id = t.nodes[e].uuid
                    ELSE \A n \in Names(t) : t.nodes[n].uuid # id
  <2> TAKE e \in Names(t)
  <2> HAVE E = {e}
  <2>1. PICK c \in Names(t) : /\ E = {c} /\ id # 0
             /\ IF t.nodes[c].uuid # 0 THEN id = t.nodes[c].uuid
                ELSE \A n \in Names(t) : t.nodes[n].uuid # id
    BY <1>17
  <2>2. c = e
    BY <2>1
  <2> QED
    BY <2>1, <2>2
<1>22. E = {} => id = 0
  BY <1>17
<1> QED
  BY <1>7, <1>14, <1>18, <1>19, <1>20, <1>21, <1>22

(* A handle keeps its window where its path, its marks and the live nodes  *)
(* of its window are kept and nothing on the path is revived.              *)
LEMMA WindowKept ==
    ASSUME NEW t, NEW d, NEW hd, PathTo(d, hd.node) = PathTo(t, hd.node),
           \A n \in PathTo(t, hd.node) : hd.uuid # 0 =>
                 (d.nodes[n].uuid = hd.uuid <=> t.nodes[n].uuid = hd.uuid),
           \A n \in PathTo(t, hd.node) : Live(d, n) => Live(t, n),
           \A n \in WindowOf(t, hd) : Live(d, n)
    PROVE  /\ MarkedBy(d, hd) = MarkedBy(t, hd) /\ WindowOf(d, hd) = WindowOf(t, hd)
           /\ HandleMarked(t, hd) /\ (hd.node # << >> => Live(d, hd.node))
                 => HandleMarked(d, hd)
<1>1. MarkedBy(d, hd) = MarkedBy(t, hd)
  BY DEF MarkedBy
<1>2. WindowOf(d, hd) = WindowOf(t, hd)
  <2>1. ASSUME NEW n \in WindowOf(d, hd) PROVE n \in WindowOf(t, hd)
    BY <1>1, <2>1 DEF WindowOf
  <2>2. ASSUME NEW n \in WindowOf(t, hd) PROVE n \in WindowOf(d, hd)
    BY <1>1, <2>2 DEF WindowOf
  <2> QED
    BY <2>1, <2>2
<1> QED
  BY <1>1, <1>2 DEF HandleMarked

LEMMA OwnNode ==
    ASSUME NEW T, NEW P, NEW t, IsTree(Core(t), T, P), NEW hd,
           hd.node \in Names(t), HandleMarked(t, hd)
    PROVE  hd.node \in WindowOf(t, hd)
<1>1. PICK x : x = hd.node
  OBVIOUS
<1>2. x \in Seq(T) /\ x # << >> /\ x \in Names(t)
  BY <1>1, NodeFact
<1>3. x \in PathTo(t, x)
  BY <1>2, PrefixRefl DEF PathTo
<1>4. \A b \in PathTo(t, x) : Len(x) >= Len(b)
  <2> TAKE b \in PathTo(t, x)
  <2>1. IsPrefix(b, x) /\ b \in Seq(T)
    BY <1>2, PathFact
  <2>2. Len(b) <= Len(x) /\ Len(b) \in Nat /\ Len(x) \in Nat
    BY <1>2, <2>1, PrefixLen
  <2> QED
    BY <2>2
<1>5. Live(t, x)
  BY <1>1, <1>2 DEF HandleMarked
<1> QED
  BY <1>1, <1>3, <1>4, <1>5 DEF WindowOf, MarkedBy

LEMMA CountersMoved ==
    ASSUME NEW T, NEW P, NEW t, IsTree(Core(t), T, P), SwaTyped(t, P), SwaCountersExact(t),
           NEW d, NEW path, NEW e, NEW W \in SUBSET Names(t), NEW k, NEW E, NEW id,
           Renoted(d, t, P, path, e, W, k, E, id),
           \A n \in W : Live(t, n),
           \/ /\ k = 1
              /\ d.swaEvictable = t.swaEvictable - WindowSize(t, W, 0)
              /\ d.swaProtected = t.swaProtected + WindowSize(t, W, 0)
           \/ /\ k = -1 /\ \A n \in W : t.nodes[n].swaRef > 0
              /\ d.swaEvictable = t.swaEvictable + WindowSize(t, W, 1)
              /\ d.swaProtected = t.swaProtected - WindowSize(t, W, 1)
    PROVE  SwaCountersExact(d)
<1>1. PICK N : N = Names(t)
  OBVIOUS
<1>2. Names(d) = N /\ SwaTyped(d, P)
      /\ \A n \in N : /\ Len(d.nodes[n].pages) = Len(t.nodes[n].pages)
                      /\ (Live(d, n) <=> Live(t, n)) /\ t.nodes[n].swaRef \in Nat
                      /\ d.nodes[n].swaRef = IF n \in W THEN t.nodes[n].swaRef + k
                                                        ELSE t.nodes[n].swaRef
  BY <1>1 DEF Renoted, Live, SwaTyped
<1>3. PICK A \in SUBSET N : A = LiveAt(t, N, FALSE)
  BY DEF LiveAt
<1>4. PICK B \in SUBSET N : B = LiveAt(t, N, TRUE)
  BY DEF LiveAt
<1>5. t.swaEvictable = TotalLength(t, A) /\ t.swaProtected = TotalLength(t, B)
  BY <1>1, <1>3, <1>4, SwaCountersAre
<1>6. \A n \in N : /\ n \in A <=> Live(t, n) /\ t.nodes[n].swaRef = 0
                   /\ n \in B <=> Live(t, n) /\ t.nodes[n].swaRef > 0
  BY <1>2, <1>3, <1>4 DEF LiveAt
<1>7. PICK C \in SUBSET N : C = LiveAt(d, N, FALSE)
  BY DEF LiveAt
<1>8. PICK D \in SUBSET N : D = LiveAt(d, N, TRUE)
  BY DEF LiveAt
<1>9. \A n \in N : /\ n \in C <=> Live(t, n) /\ ~ (d.nodes[n].swaRef > 0)
                   /\ n \in D <=> Live(t, n) /\ d.nodes[n].swaRef > 0
  BY <1>2, <1>7, <1>8 DEF LiveAt
<1>10. \A S \in SUBSET N : TotalLength(d, S) = TotalLength(t, S)
  BY <1>2, SizeSame
<1>11. SUFFICES d.swaEvictable = TotalLength(t, C) /\ d.swaProtected = TotalLength(t, D)
  BY <1>2, <1>7, <1>8, <1>10, SwaCountersAre
<1>12. CASE /\ k = 1
            /\ d.swaEvictable = t.swaEvictable - WindowSize(t, W, 0)
            /\ d.swaProtected = t.swaProtected + WindowSize(t, W, 0)
  <2>1. PICK V : V = {n \in W : t.nodes[n].swaRef = 0}
    OBVIOUS
  <2>2. V \in SUBSET A /\ V \cap B = {}
    BY <1>1, <1>6, <2>1
  <2>3. C = A \ V
    <3>1. ASSUME NEW n \in N PROVE n \in C <=> n \in A /\ n \notin V
      <4>1. n \in V <=> n \in W /\ t.nodes[n].swaRef = 0
        BY <2>1
      <4>2. d.nodes[n].swaRef = IF n \in W THEN t.nodes[n].swaRef + 1 ELSE t.nodes[n].swaRef
        BY <1>2, <1>12
      <4>3. ~ (d.nodes[n].swaRef > 0) <=> t.nodes[n].swaRef = 0 /\ n \notin W
        BY <1>2, <4>2
      <4> QED
        BY <1>6, <1>9, <4>1, <4>3
    <3> QED
      BY <3>1
  <2>4. D = B \cup V
    <3>1. \A n \in N : n \in D <=> n \in B \/ n \in V
      BY <1>2, <1>6, <1>9, <1>12, <2>1
    <3> QED
      BY <1>1, <2>1, <3>1
  <2>5. /\ TotalLength(t, A \ V) = TotalLength(t, A) - TotalLength(t, V)
        /\ TotalLength(t, B \cup V) = TotalLength(t, B) + TotalLength(t, V)
    BY <1>1, <2>2, TotalMoved
  <2>6. WindowSize(t, W, 0) = TotalLength(t, V)
    BY <2>1 DEF WindowSize
  <2> QED
    BY <1>5, <1>12, <2>3, <2>4, <2>5, <2>6, Zenon
<1>13. CASE /\ k = -1 /\ \A n \in W : t.nodes[n].swaRef > 0
            /\ d.swaEvictable = t.swaEvictable + WindowSize(t, W, 1)
            /\ d.swaProtected = t.swaProtected - WindowSize(t, W, 1)
  <2>1. PICK V : V = {n \in W : t.nodes[n].swaRef = 1}
    OBVIOUS
  <2>2. V \in SUBSET B /\ V \cap A = {}
    BY <1>1, <1>6, <2>1
  <2>3. C = A \cup V
    <3>1. \A n \in N : n \in C <=> n \in A \/ n \in V
      BY <1>2, <1>6, <1>9, <1>13, <2>1
    <3> QED
      BY <1>1, <2>1, <3>1
  <2>4. D = B \ V
    <3>1. \A n \in N : n \in D <=> n \in B /\ n \notin V
      BY <1>2, <1>6, <1>9, <1>13, <2>1
    <3> QED
      BY <3>1
  <2>5. /\ TotalLength(t, B \ V) = TotalLength(t, B) - TotalLength(t, V)
        /\ TotalLength(t, A \cup V) = TotalLength(t, A) + TotalLength(t, V)
    BY <1>1, <2>2, TotalMoved
  <2>6. WindowSize(t, W, 1) = TotalLength(t, V)
    BY <2>1 DEF WindowSize
  <2> QED
    BY <1>5, <1>13, <2>3, <2>4, <2>5, <2>6, Zenon
<1> QED
  BY <1>12, <1>13

LEMMA UsersFinite ==
    ASSUME NEW U, IsFiniteSet(U), NEW t, NEW n, NEW h
    PROVE  /\ IsFiniteSet(WindowUsers(t, n, U, h))
           /\ Cardinality(WindowUsers(t, n, U, h)) \in Nat
<1>1. WindowUsers(t, n, U, h) \in SUBSET U
  BY DEF WindowUsers
<1>2. IsFiniteSet(WindowUsers(t, n, U, h))
  BY <1>1, FS_Subset
<1> QED
  BY <1>2, CardinalNat

(* inc_lock makes the handle it returns one of those that hold the tree.   *)
LEMMA IncLockFact ==
    ASSUME NEW T, NEW P, NEW t, NEW U, NEW h, TreeOK(t, T, P, U, h),
           U \subseteq DOMAIN h, IsFiniteSet(U), NEW u, u \notin U,
           NEW x \in Names(t) \cup {<< >>}, x # << >> => Live(t, x),
           NEW r, r = IncLock(t, x),
           NEW g, Agree(U, g, h), g[u] = r.handle, U \cup {u} \subseteq DOMAIN g
    PROVE  /\ TreeOK(r.tree, T, P, U \cup {u}, g)
           /\ r.handle.node = x /\ r.handle.uuid \in Nat
           /\ r.handle = [node |-> r.handle.node, uuid |-> r.handle.uuid]
<1>1. /\ SwaTyped(t, P) /\ IsTree(Core(t), T, P) /\ Accounted(Core(t), U, NodesOf(h))
      /\ \A v \in U : HandleMarked(t, h[v])
      /\ MarksDiffer(t) /\ SwaRefsExact(t, U, h) /\ SwaCountersExact(t) /\ LeavesLive(t)
  BY DEF TreeOK, WindowsExact
<1>2. PICK W : W = WindowAt(t, x)
  OBVIOUS
<1>3. PICK E : E = EndsAt(t, x)
  OBVIOUS
<1>4. PICK id : id = r.handle.uuid
  OBVIOUS
<1>5. PICK d : d = r.tree
  OBVIOUS
<1>6. /\ r.handle = [node |-> x, uuid |-> id] /\ id \in Nat
      /\ Renoted(d, t, P, PathTo(t, x), 1, W, 1, E, id)
      /\ Core(d) = Lock(Core(t), x)
      /\ d.swaEvictable = t.swaEvictable - WindowSize(t, W, 0)
      /\ d.swaProtected = t.swaProtected + WindowSize(t, W, 0)
      /\ E = {} => id = 0
      /\ \A e \in Names(t) : E = {e} =>
                 /\ id # 0
                 /\ IF t.nodes[e].uuid # 0 THEN id = t.nodes[e].uuid
                    ELSE \A n \in Names(t) : t.nodes[n].uuid # id
  BY <1>1, <1>2, <1>3, <1>4, <1>5, IncNodes
<1>7. r.handle.node = x
  BY <1>6
<1>8. x \in Seq(T) /\ Len(x) \in Nat
  BY <1>1, RootOrNode
<1>9. \/ E = {} /\ W = LivePath(t, x)
      \/ \E e \in LivePath(t, x) :
            E = {e} /\ W = {n \in LivePath(t, x) : Len(n) >= Len(e)}
  BY <1>1, <1>2, <1>3, <1>8, WindowShape
<1>10. W \in SUBSET LivePath(t, x) /\ LivePath(t, x) \in SUBSET Names(t)
  BY <1>9 DEF LivePath, PathTo
<1>11. /\ SwaTyped(d, P) /\ Names(d) = Names(t)
       /\ \A n \in Names(t) :
            /\ Live(d, n) <=> Live(t, n)
            /\ d.nodes[n].uuid = IF n \in E THEN id ELSE t.nodes[n].uuid
            /\ d.nodes[n].swaRef = IF n \in W THEN t.nodes[n].swaRef + 1
                                              ELSE t.nodes[n].swaRef
            /\ t.nodes[n].swaRef \in Nat /\ t.nodes[n].uuid \in Nat
            /\ t.nodes[n].ref \in Nat /\ d.nodes[n].ref \in Nat
            /\ d.nodes[n].ref = IF n \in PathTo(t, x) THEN t.nodes[n].ref + 1
                                                      ELSE t.nodes[n].ref
  BY <1>1, <1>6 DEF Renoted, Live, SwaTyped
<1>12. IsTree(Core(d), T, P) /\ Accounted(Core(d), U \cup {u}, NodesOf(g))
  <2>1. NodesOf(g)[u] = x
    BY <1>7 DEF NodesOf
  <2>2. Agree(U, NodesOf(g), NodesOf(h))
    BY DEF Agree, NodesOf
  <2>3. x \in Names(Core(t)) \cup {<< >>}
    BY CoreFact
  <2> QED
    BY <1>1, <1>6, <2>1, <2>2, <2>3, LockFact
<1>13. MarksDiffer(d)
  <2>1. \A a, b \in Names(t) : t.nodes[a].uuid # 0 /\ t.nodes[a].uuid = t.nodes[b].uuid => a = b
    BY <1>1 DEF MarksDiffer
  <2>2. SUFFICES ASSUME NEW a \in Names(t), NEW b \in Names(t),
                        d.nodes[a].uuid # 0, d.nodes[a].uuid = d.nodes[b].uuid
                 PROVE  a = b
    BY <1>11 DEF MarksDiffer
  <2>3. CASE E = {}
    BY <1>11, <2>1, <2>2, <2>3
  <2>4. CASE \E e \in LivePath(t, x) : E = {e}
    <3>1. PICK e \in Names(t) : E = {e}
      BY <1>10, <2>4
    <3>2. IF t.nodes[e].uuid # 0 THEN id = t.nodes[e].uuid
          ELSE \A n \in Names(t) : t.nodes[n].uuid # id
      BY <1>6, <3>1
    <3>3. /\ d.nodes[a].uuid = IF a = e THEN id ELSE t.nodes[a].uuid
          /\ d.nodes[b].uuid = IF b = e THEN id ELSE t.nodes[b].uuid
      BY <1>11, <3>1
    <3> QED
      BY <2>1, <2>2, <3>2, <3>3
  <2> QED
    BY <1>9, <2>3, <2>4
<1>14. ASSUME NEW v \in U
       PROVE  HandleMarked(d, g[v]) /\ WindowOf(d, g[v]) = WindowOf(t, h[v])
  <2>1. PICK hd : hd = h[v]
    OBVIOUS
  <2>2. g[v] = hd /\ HandleMarked(t, hd) /\ hd.node \in Names(t) \cup {<< >>}
    BY <1>1, <2>1, HandleNode DEF Agree
  <2>3. PathTo(d, hd.node) = PathTo(t, hd.node)
    BY <1>11 DEF PathTo
  <2>4. ASSUME hd.uuid # 0, NEW n \in PathTo(t, hd.node)
        PROVE  d.nodes[n].uuid = hd.uuid <=> t.nodes[n].uuid = hd.uuid
    <3>1. PICK b \in Names(t) : t.nodes[b].uuid = hd.uuid
      BY <2>2, <2>4 DEF HandleMarked, MarkedBy, PathTo
    <3>2. n \in Names(t) /\ d.nodes[n].uuid = IF n \in E THEN id ELSE t.nodes[n].uuid
      BY <1>11 DEF PathTo
    <3>3. CASE n \notin E
      BY <3>2, <3>3
    <3>4. CASE n \in E
      <4>1. E = {n}
        BY <1>9, <3>4
      <4>2. IF t.nodes[n].uuid # 0 THEN id = t.nodes[n].uuid
            ELSE \A m \in Names(t) : t.nodes[m].uuid # id
        BY <1>6, <3>2, <4>1
      <4> QED
        BY <2>4, <3>1, <3>2, <3>4, <4>2
    <3> QED
      BY <3>3, <3>4
  <2>5. \A n \in PathTo(t, hd.node) : Live(d, n) => Live(t, n)
    BY <1>11 DEF PathTo
  <2>6. \A n \in WindowOf(t, hd) : Live(d, n)
    BY <1>11 DEF WindowOf, PathTo
  <2>7. hd.node # << >> => Live(d, hd.node)
    BY <1>11, <2>2 DEF HandleMarked
  <2>8. WindowOf(d, hd) = WindowOf(t, hd) /\ HandleMarked(d, hd)
    BY <2>2, <2>3, <2>4, <2>5, <2>6, <2>7, WindowKept
  <2> QED
    BY <2>1, <2>2, <2>8
<1>15. HandleMarked(d, g[u]) /\ WindowOf(d, g[u]) = W
  <2>1. PICK hd : hd = r.handle
    OBVIOUS
  <2>2. g[u] = hd /\ hd.node = x /\ hd.uuid = id
    BY <1>4, <1>7, <2>1
  <2>3. PathTo(d, x) = PathTo(t, x) /\ PathTo(t, x) \in SUBSET Names(t)
    BY <1>11 DEF PathTo
  <2>4. x # << >> => Live(d, x)
    BY <1>11
  <2>5. \A n \in PathTo(t, x) : n \in LivePath(t, x) <=> Live(d, n)
    BY <1>11, <2>3 DEF LivePath
  <2>6. CASE E = {} /\ W = LivePath(t, x)
    <3>1. MarkedBy(d, hd) = {} /\ id = 0
      BY <1>6, <2>2, <2>6 DEF MarkedBy
    <3>2. WindowOf(d, hd) = LivePath(t, x)
      BY <2>2, <2>3, <2>5, <3>1 DEF WindowOf, LivePath
    <3> QED
      BY <2>2, <2>4, <2>6, <3>1, <3>2 DEF HandleMarked
  <2>7. CASE \E e \in LivePath(t, x) :
               E = {e} /\ W = {n \in LivePath(t, x) : Len(n) >= Len(e)}
    <3>1. PICK e \in LivePath(t, x) :
               E = {e} /\ W = {n \in LivePath(t, x) : Len(n) >= Len(e)}
      BY <2>7
    <3>2. e \in PathTo(t, x) /\ e \in Names(t) /\ d.nodes[e].uuid = id /\ id # 0
      BY <1>6, <1>10, <1>11, <3>1 DEF LivePath
    <3>3. MarkedBy(d, hd) = {e}
      <4>1. e \in MarkedBy(d, hd)
        BY <2>2, <2>3, <3>2 DEF MarkedBy
      <4>2. \A b \in MarkedBy(d, hd) : b \in Names(d) /\ d.nodes[b].uuid = id
        BY <2>2 DEF MarkedBy, PathTo
      <4>3. \A b \in MarkedBy(d, hd) : b = e
        BY <1>11, <1>13, <3>2, <4>2 DEF MarksDiffer
      <4> QED
        BY <4>1, <4>3
    <3>4. WindowOf(d, hd) = {n \in LivePath(t, x) : Len(n) >= Len(e)}
      BY <2>2, <2>3, <2>5, <3>3 DEF WindowOf, LivePath
    <3> QED
      BY <2>2, <2>4, <3>1, <3>3, <3>4 DEF HandleMarked
  <2> QED
    BY <1>9, <2>6, <2>7
<1>16. SwaRefsExact(d, U \cup {u}, g)
  <2>1. SUFFICES ASSUME NEW n \in Names(t)
                 PROVE  d.nodes[n].swaRef = Cardinality(WindowUsers(d, n, U \cup {u}, g))
    BY <1>11 DEF SwaRefsExact
  <2>2. PICK A : A = WindowUsers(t, n, U, h)
    OBVIOUS
  <2>3. WindowUsers(d, n, U \cup {u}, g) = IF n \in W THEN A \cup {u} ELSE A
    BY <1>14, <1>15, <2>2 DEF WindowUsers
  <2>4. IsFiniteSet(A) /\ u \notin A /\ Cardinality(A) \in Nat
    <3>1. IsFiniteSet(A) /\ Cardinality(A) \in Nat
      BY <2>2, UsersFinite
    <3>2. u \notin A
      BY <2>2 DEF WindowUsers
    <3> QED
      BY <3>1, <3>2
  <2>5. Cardinality(A \cup {u}) = Cardinality(A) + 1
    BY <2>4, FS_AddElement
  <2>6. t.nodes[n].swaRef = Cardinality(A)
    BY <1>1, <2>2 DEF SwaRefsExact
  <2>7. d.nodes[n].swaRef = IF n \in W THEN t.nodes[n].swaRef + 1 ELSE t.nodes[n].swaRef
    BY <1>11
  <2> QED
    BY <2>3, <2>5, <2>6, <2>7
<1>17. SwaCountersExact(d)
  <2>1. W \in SUBSET Names(t) /\ \A n \in W : Live(t, n)
    BY <1>10 DEF LivePath
  <2> QED
    BY <1>1, <1>6, <2>1, CountersMoved
<1>18. LeavesLive(d)
  <2>1. ASSUME NEW n \in Names(t), FreeLeaf(d, n) PROVE Live(d, n)
    <3>1. IsLeaf(t, n) /\ d.nodes[n].ref = 0
      BY <1>11, <2>1 DEF FreeLeaf, IsLeaf
    <3>2. t.nodes[n].ref = 0
      BY <1>11, <3>1
    <3> QED
      BY <1>1, <1>11, <3>1, <3>2 DEF LeavesLive, FreeLeaf
  <2> QED
    BY <1>11, <2>1 DEF LeavesLive
<1>19. \A v \in U \cup {u} : HandleMarked(d, g[v])
  BY <1>14, <1>15
<1>20. TreeOK(d, T, P, U \cup {u}, g)
  BY <1>11, <1>12, <1>13, <1>16, <1>17, <1>18, <1>19 DEF TreeOK, WindowsExact
<1> QED
  BY <1>4, <1>5, <1>6, <1>7, <1>20

(* What dec_lock does to the nodes.                                        *)
LEMMA DecNodes ==
    ASSUME NEW T, NEW P, NEW t, SwaTyped(t, P), IsTree(Core(t), T, P),
           NEW hd, NEW x, x = hd.node, NEW W, W = WindowOf(t, hd),
           \A n \in PathTo(t, x) : t.nodes[n].ref > 0,
           \A n \in W : t.nodes[n].swaRef > 0,
           NEW d, d = DecLock(t, hd)
    PROVE  /\ Renoted(d, t, P, PathTo(t, x), -1, W, -1, {}, 0)
           /\ Core(d) = Unlock(Core(t), x)
           /\ d.swaEvictable = t.swaEvictable + WindowSize(t, W, 1)
           /\ d.swaProtected = t.swaProtected - WindowSize(t, W, 1)
<1>1. PICK l : l = Unlock(t, x)
  OBVIOUS
<1>2. PICK a : a = TotalLength(t, PathAt(t, x, 1))
  OBVIOUS
<1>3. /\ l.nodes = WithRefs(t, PathTo(t, x), -1)
      /\ l = [nodes |-> l.nodes, evictable |-> t.evictable + a, protected |-> t.protected - a,
              swaEvictable |-> t.swaEvictable, swaProtected |-> t.swaProtected]
  <2>1. PICK up : up = WithRefs(t, PathTo(t, x), -1)
    OBVIOUS
  <2>2. l = [t EXCEPT !.nodes = up, !.evictable = @ + a, !.protected = @ - a]
    BY <1>1, <1>2, <2>1, Zenon DEF Unlock, PathAt
  <2>3. t = [nodes |-> t.nodes, evictable |-> t.evictable, protected |-> t.protected,
             swaEvictable |-> t.swaEvictable, swaProtected |-> t.swaProtected]
    BY DEF SwaTyped
  <2>4. l = [nodes |-> up, evictable |-> t.evictable + a, protected |-> t.protected - a,
              swaEvictable |-> t.swaEvictable, swaProtected |-> t.swaProtected]
    BY <2>2, <2>3
  <2> QED
    BY <2>1, <2>4
<1>4. Names(l) = Names(t)
      /\ \A n \in Names(t) : l.nodes[n].swaRef = t.nodes[n].swaRef
                             /\ l.nodes[n].pages = t.nodes[n].pages
  <2>1. Names(l) = Names(t)
    BY <1>3 DEF Names, WithRefs
  <2>2. ASSUME NEW n \in Names(t)
        PROVE  l.nodes[n].swaRef = t.nodes[n].swaRef /\ l.nodes[n].pages = t.nodes[n].pages
    <3>1. PICK old : old = t.nodes[n]
      OBVIOUS
    <3>2. old = [pages |-> old.pages, ref |-> old.ref, swaRef |-> old.swaRef,
                 tombstone |-> old.tombstone, uuid |-> old.uuid]
      BY <3>1 DEF SwaTyped
    <3>3. l.nodes[n] = IF n \in PathTo(t, x) THEN [old EXCEPT !.ref = @ + (-1)] ELSE old
      BY <1>3, <3>1 DEF WithRefs
    <3>4. PICK f : f = l.nodes[n]
      OBVIOUS
    <3>5. f.swaRef = old.swaRef /\ f.pages = old.pages
      BY <3>2, <3>3, <3>4
    <3> QED
      BY <3>1, <3>4, <3>5
  <2> QED
    BY <2>1, <2>2
<1>5. W \in SUBSET Names(t) /\ PathTo(t, x) \in SUBSET Names(t)
  BY DEF WindowOf, PathTo
<1>6. d = UnlockWindow(l, W)
  <2>1. {n \in PathTo(t, x) : hd.uuid # 0 /\ t.nodes[n].uuid = hd.uuid} = MarkedBy(t, hd)
    BY DEF MarkedBy
  <2>2. PICK M : M = MarkedBy(t, hd)
    OBVIOUS
  <2>3. {n \in PathTo(t, x) : /\ Live(t, n) /\ t.nodes[n].swaRef > 0
                              /\ \A b \in M : Len(n) >= Len(b)} = W
    BY <2>2 DEF WindowOf
  <2> QED
    BY <1>1, <2>1, <2>2, <2>3, Zenon DEF DecLock
<1>7. PICK size : size = WindowSize(t, W, 1)
  OBVIOUS
<1>8. TotalLength(l, {n \in W : l.nodes[n].swaRef = 1}) = size
  <2>1. {n \in W : l.nodes[n].swaRef = 1} = {n \in W : t.nodes[n].swaRef = 1}
    BY <1>4, <1>5
  <2>2. PICK S : S = {n \in W : t.nodes[n].swaRef = 1}
    OBVIOUS
  <2>3. \A n \in S : Len(l.nodes[n].pages) = Len(t.nodes[n].pages)
    BY <1>4, <1>5, <2>2
  <2>4. TotalLength(l, S) = TotalLength(t, S)
    BY <2>3, SizeSame
  <2> QED
    BY <1>7, <2>1, <2>2, <2>4, Zenon DEF WindowSize
<1>9. PICK refs : refs = WithSwaRefs(l, W, -1)
  OBVIOUS
<1>10. refs = MarkAll(Names(l), refs, {}, 0)
  BY <1>9 DEF WithSwaRefs, MarkAll
<1>11. d = [l EXCEPT !.nodes = refs, !.swaEvictable = @ + size, !.swaProtected = @ - size]
  BY <1>6, <1>8, <1>9, Zenon DEF UnlockWindow
<1>12. d = [nodes |-> refs, evictable |-> t.evictable + a, protected |-> t.protected - a,
            swaEvictable |-> t.swaEvictable + size, swaProtected |-> t.swaProtected - size]
  <2>1. PICK m : m = l.nodes
    OBVIOUS
  <2>2. l = [nodes |-> m, evictable |-> t.evictable + a, protected |-> t.protected - a,
              swaEvictable |-> t.swaEvictable, swaProtected |-> t.swaProtected]
    BY <1>3, <2>1, Zenon
  <2> QED
    BY <1>11, <2>2
<1>13. /\ Renoted(d, t, P, PathTo(t, x), -1, W, -1, {}, 0)
       /\ d.evictable = t.evictable + a /\ d.protected = t.protected - a
       /\ d.swaEvictable = t.swaEvictable + size /\ d.swaProtected = t.swaProtected - size
  <2>1. \A n \in Names(t) : t.nodes[n].ref \in Nat /\ t.nodes[n].swaRef \in Nat
    BY DEF SwaTyped
  <2>2. {} \in SUBSET Names(t) /\ -1 \in Int /\ 0 \in Nat
    OBVIOUS
  <2>3. \A n \in PathTo(t, x) : t.nodes[n].ref + (-1) \in Nat
    BY <1>5, <2>1
  <2>4. \A n \in W : t.nodes[n].swaRef + (-1) \in Nat
    BY <1>5, <2>1
  <2>5. l.nodes = WithRefs(t, PathTo(t, x), -1)
    BY <1>3, Zenon
  <2> QED
    BY <1>5, <1>9, <1>10, <1>12, <2>2, <2>3, <2>4, <2>5, RenoteNodes
<1>14. Core(d) = Unlock(Core(t), x)
  BY <1>2, <1>13, CoreRelinked
<1> QED
  BY <1>7, <1>13, <1>14

(* dec_lock takes a handle from those that hold the tree.                  *)
LEMMA DecLockFact ==
    ASSUME NEW T, NEW P, NEW t, NEW U, NEW h, TreeOK(t, T, P, U, h),
           U \subseteq DOMAIN h, IsFiniteSet(U), NEW u \in U,
           NEW g, Agree(U \ {u}, g, h), U \ {u} \subseteq DOMAIN g,
           NEW d, d = DecLock(t, h[u])
    PROVE  TreeOK(d, T, P, U \ {u}, g)
<1>1. /\ SwaTyped(t, P) /\ IsTree(Core(t), T, P) /\ Accounted(Core(t), U, NodesOf(h))
      /\ \A v \in U : HandleMarked(t, h[v])
      /\ MarksDiffer(t) /\ SwaRefsExact(t, U, h) /\ SwaCountersExact(t) /\ LeavesLive(t)
  BY DEF TreeOK, WindowsExact
<1>2. PICK hd : hd = h[u]
  OBVIOUS
<1>3. PICK x : x = hd.node
  OBVIOUS
<1>4. x \in Names(t) \cup {<< >>} /\ x \in Seq(T) /\ HandleMarked(t, hd)
  BY <1>1, <1>2, <1>3, HandleNode, RootOrNode
<1>5. PICK W : W = WindowOf(t, hd)
  OBVIOUS
<1>6. W \in SUBSET PathTo(t, x) /\ PathTo(t, x) \in SUBSET Names(t) /\ \A n \in W : Live(t, n)
  BY <1>3, <1>5 DEF WindowOf, PathTo
<1>7. \A n \in PathTo(t, x) : t.nodes[n].ref > 0
  <2> TAKE n \in PathTo(t, x)
  <2>1. PICK A : A = Users(n, U, NodesOf(h))
    OBVIOUS
  <2>2. u \in A /\ A \in SUBSET U
    BY <1>2, <1>3, <2>1 DEF Users, NodesOf, PathTo
  <2>3. IsFiniteSet(A)
    BY <2>2, FS_Subset
  <2>4. Cardinality(A) \in Nat /\ Cardinality(A) # 0
    BY <2>2, <2>3, CardinalNat, FS_EmptySet
  <2>5. Core(t).nodes[n].ref = Cardinality(A)
    BY <1>1, <1>6, <2>1, CoreFact DEF Accounted, RefsExact
  <2>6. t.nodes[n].ref = Cardinality(A)
    BY <1>6, <2>5, CoreFact
  <2> QED
    BY <2>4, <2>6
<1>8. \A n \in W : t.nodes[n].swaRef > 0
  <2> TAKE n \in W
  <2>1. PICK A : A = WindowUsers(t, n, U, h)
    OBVIOUS
  <2>2. u \in A
    BY <1>2, <1>5, <2>1 DEF WindowUsers
  <2>3. IsFiniteSet(A) /\ Cardinality(A) \in Nat
    BY <2>1, UsersFinite
  <2>4. Cardinality(A) # 0
    BY <2>2, <2>3, FS_EmptySet
  <2>5. t.nodes[n].swaRef = Cardinality(A)
    BY <1>1, <1>6, <2>1 DEF SwaRefsExact
  <2> QED
    BY <2>3, <2>4, <2>5
<1>9. /\ Renoted(d, t, P, PathTo(t, x), -1, W, -1, {}, 0)
      /\ Core(d) = Unlock(Core(t), x)
      /\ d.swaEvictable = t.swaEvictable + WindowSize(t, W, 1)
      /\ d.swaProtected = t.swaProtected - WindowSize(t, W, 1)
  BY <1>1, <1>2, <1>3, <1>5, <1>7, <1>8, DecNodes
<1>10. /\ SwaTyped(d, P) /\ Names(d) = Names(t)
       /\ \A n \in Names(t) :
            /\ Live(d, n) <=> Live(t, n)
            /\ d.nodes[n].uuid = t.nodes[n].uuid
            /\ d.nodes[n].swaRef = IF n \in W THEN t.nodes[n].swaRef - 1
                                              ELSE t.nodes[n].swaRef
            /\ t.nodes[n].swaRef \in Nat
            /\ n \notin PathTo(t, x) => d.nodes[n].ref = t.nodes[n].ref
  BY <1>1, <1>9 DEF Renoted, Live, SwaTyped
<1>11. IsTree(Core(d), T, P) /\ Accounted(Core(d), U \ {u}, NodesOf(g))
  <2>1. NodesOf(h)[u] = x
    BY <1>2, <1>3 DEF NodesOf
  <2>2. Agree(U \ {u}, NodesOf(g), NodesOf(h))
    BY DEF Agree, NodesOf
  <2> QED
    BY <1>1, <1>9, <2>1, <2>2, UnlockFact
<1>12. MarksDiffer(d)
  BY <1>1, <1>10 DEF MarksDiffer
<1>13. ASSUME NEW v \in U \ {u}
       PROVE  HandleMarked(d, g[v]) /\ WindowOf(d, g[v]) = WindowOf(t, h[v])
  <2>1. PICK hv : hv = h[v]
    OBVIOUS
  <2>2. g[v] = hv /\ HandleMarked(t, hv) /\ hv.node \in Names(t) \cup {<< >>}
    BY <1>1, <2>1, HandleNode DEF Agree
  <2>3. PathTo(d, hv.node) = PathTo(t, hv.node)
    BY <1>10 DEF PathTo
  <2>4. \A n \in PathTo(t, hv.node) : d.nodes[n].uuid = hv.uuid <=> t.nodes[n].uuid = hv.uuid
    BY <1>10 DEF PathTo
  <2>5. \A n \in PathTo(t, hv.node) : Live(d, n) => Live(t, n)
    BY <1>10 DEF PathTo
  <2>6. \A n \in WindowOf(t, hv) : Live(d, n)
    BY <1>10 DEF WindowOf, PathTo
  <2>7. hv.node # << >> => Live(d, hv.node)
    BY <1>10, <2>2 DEF HandleMarked
  <2>8. WindowOf(d, hv) = WindowOf(t, hv) /\ HandleMarked(d, hv)
    BY <2>2, <2>3, <2>4, <2>5, <2>6, <2>7, WindowKept
  <2> QED
    BY <2>1, <2>2, <2>8
<1>14. SwaRefsExact(d, U \ {u}, g)
  <2>1. SUFFICES ASSUME NEW n \in Names(t)
                 PROVE  d.nodes[n].swaRef = Cardinality(WindowUsers(d, n, U \ {u}, g))
    BY <1>10 DEF SwaRefsExact
  <2>2. PICK A : A = WindowUsers(t, n, U, h)
    OBVIOUS
  <2>3. WindowUsers(d, n, U \ {u}, g) = A \ {u} /\ (u \in A <=> n \in W)
    BY <1>2, <1>5, <1>13, <2>2 DEF WindowUsers
  <2>4. IsFiniteSet(A) /\ Cardinality(A) \in Nat
    BY <2>2, UsersFinite
  <2>5. u \in A => Cardinality(A \ {u}) = Cardinality(A) - 1
    BY <2>4, FS_RemoveElement
  <2>6. u \notin A => A \ {u} = A
    OBVIOUS
  <2>7. t.nodes[n].swaRef = Cardinality(A)
    BY <1>1, <2>2 DEF SwaRefsExact
  <2>8. d.nodes[n].swaRef = IF n \in W THEN t.nodes[n].swaRef - 1 ELSE t.nodes[n].swaRef
    BY <1>10
  <2> QED
    BY <2>3, <2>5, <2>6, <2>7, <2>8
<1>15. SwaCountersExact(d)
  <2>1. W \in SUBSET Names(t)
    BY <1>6
  <2> QED
    BY <1>1, <1>6, <1>8, <1>9, <2>1, CountersMoved
<1>16. LeavesLive(d)
  <2>1. ASSUME NEW n \in Names(t), FreeLeaf(d, n) PROVE Live(d, n)
    <3>1. IsLeaf(t, n) /\ d.nodes[n].ref = 0
      BY <1>10, <2>1 DEF FreeLeaf, IsLeaf
    <3>2. CASE n \notin PathTo(t, x)
      BY <1>1, <1>10, <3>1, <3>2 DEF LeavesLive, FreeLeaf
    <3>3. CASE n \in PathTo(t, x)
      <4>1. IsPrefix(n, x) /\ n # << >>
        BY <1>1, <3>3, NodeFact DEF PathTo
      <4>2. n = x
        <5>1. CASE x = << >>
          <6>1. n \in Seq(T)
            BY <1>1, NodeFact
          <6> QED
            BY <4>1, <5>1, <6>1, EmptyPrefix
        <5>2. CASE x \in Names(t)
          BY <3>1, <4>1, <5>2 DEF IsLeaf, IsStrictPrefix
        <5> QED
          BY <1>4, <5>1, <5>2
      <4> QED
        BY <1>3, <1>4, <1>10, <4>1, <4>2 DEF HandleMarked
    <3> QED
      BY <3>2, <3>3
  <2> QED
    BY <1>10, <2>1 DEF LeavesLive
<1>17. \A v \in U \ {u} : HandleMarked(d, g[v])
  BY <1>13
<1> QED
  BY <1>10, <1>11, <1>12, <1>14, <1>15, <1>16, <1>17 DEF TreeOK, WindowsExact

-----------------------------------------------------------------------------
(* Inserting.                                                              *)

LEMMA HeldPath ==
    ASSUME NEW T, NEW P, NEW t, NEW U, NEW h, TreeOK(t, T, P, U, h),
           U \subseteq DOMAIN h, IsFiniteSet(U), NEW v \in U,
           NEW n \in PathTo(t, h[v].node)
    PROVE  n \in Names(t) /\ t.nodes[n].ref \in Nat /\ t.nodes[n].ref > 0
<1>1. n \in Names(t)
  BY DEF PathTo
<1>2. PICK A : A = Users(n, U, NodesOf(h))
  OBVIOUS
<1>3. v \in A /\ A \in SUBSET U
  BY <1>2 DEF Users, NodesOf, PathTo
<1>4. IsFiniteSet(A)
  BY <1>3, FS_Subset
<1>5. Cardinality(A) \in Nat /\ Cardinality(A) # 0
  BY <1>3, <1>4, CardinalNat, FS_EmptySet
<1>6. Core(t).nodes[n].ref = Cardinality(A)
  BY <1>1, <1>2, CoreFact DEF TreeOK, Accounted, RefsExact
<1>7. t.nodes[n].ref = Cardinality(A)
  BY <1>1, <1>6, CoreFact
<1> QED
  BY <1>1, <1>5, <1>7

(* Other pages of the same number leave a tree a tree.                     *)
LEMMA SameLengths ==
    ASSUME NEW T, NEW P, NEW t, IsTree(t, T, P), NEW U, NEW h, Accounted(t, U, h),
           NEW d, WellFormed(d, T, P), Names(d) = Names(t),
           \A n \in Names(t) : /\ Len(d.nodes[n].pages) = Len(t.nodes[n].pages)
                               /\ d.nodes[n].ref = t.nodes[n].ref,
           d.evictable = t.evictable, d.protected = t.protected
    PROVE  IsTree(d, T, P) /\ Accounted(d, U, h)
<1>1. \A m, n : IsParent(d, m, n) <=> IsParent(t, m, n)
  BY DEF IsParent
<1>2. Segmented(d)
  <2>1. Segmented(t)
    BY DEF IsTree
  <2> QED
    BY <1>1, <2>1 DEF Segmented
<1>3. Branching(d)
  <2>1. Branching(t) /\ Keys(d) = Keys(t)
    BY DEF IsTree, Keys
  <2>2. \A k, n : IsLeast(d, k, n) <=> IsLeast(t, k, n)
    BY DEF IsLeast
  <2> QED
    BY <2>1, <2>2 DEF Branching
<1>4. \A S \in SUBSET Names(t) : TotalLength(d, S) = TotalLength(t, S)
  BY SizeSame
<1>5. Evictable(d) = Evictable(t) /\ Evictable(t) \in SUBSET Names(t)
  BY DEF Evictable
<1>6. CountersExact(d)
  <2>1. CountersExact(t)
    BY DEF Accounted
  <2> QED
    BY <1>4, <1>5, <2>1 DEF CountersExact
<1>7. RefsExact(d, U, h)
  BY DEF Accounted, RefsExact
<1> QED
  BY <1>2, <1>3, <1>6, <1>7 DEF IsTree, Accounted

(* The nodes revived are held by nobody, and take slots of their own.      *)
LEMMA ReviveFact ==
    ASSUME NEW T, NEW P, NEW t, NEW U, NEW h, TreeOK(t, T, P, U, h),
           U \subseteq DOMAIN h, IsFiniteSet(U), NEW past,
           NEW R \in SUBSET Names(t), \A n \in R : Unheld(t, n),
           NEW slots \in Seq(P), \A n \in R : Len(n) <= Len(slots),
           NEW d, d = Reconciled(t, past, R, slots).tree
    PROVE  TreeOK(d, T, P, U, h) /\ Names(d) = Names(t)
<1>1. /\ SwaTyped(t, P) /\ IsTree(Core(t), T, P) /\ Accounted(Core(t), U, NodesOf(h))
      /\ \A v \in U : HandleMarked(t, h[v])
      /\ MarksDiffer(t) /\ SwaRefsExact(t, U, h) /\ SwaCountersExact(t) /\ LeavesLive(t)
  BY DEF TreeOK, WindowsExact
<1>2. PICK size : size = TotalLength(t, R)
  OBVIOUS
<1>3. PICK nodes : nodes = [n \in Names(t) |->
         IF n \in R THEN [t.nodes[n] EXCEPT !.pages = SubSeq(slots, Start(t, n) + 1, Len(n)),
                                            !.tombstone = FALSE]
                    ELSE t.nodes[n]]
  OBVIOUS
<1>4. d = [t EXCEPT !.nodes = nodes, !.swaEvictable = @ + size]
  BY <1>2, <1>3 DEF Reconciled
<1>5. d = [nodes |-> nodes, evictable |-> t.evictable, protected |-> t.protected,
           swaEvictable |-> t.swaEvictable + size, swaProtected |-> t.swaProtected]
  <2>1. t = [nodes |-> t.nodes, evictable |-> t.evictable, protected |-> t.protected,
             swaEvictable |-> t.swaEvictable, swaProtected |-> t.swaProtected]
    BY <1>1 DEF SwaTyped
  <2> QED
    BY <1>4, <2>1
<1>6. /\ d.nodes = nodes /\ d.evictable = t.evictable /\ d.protected = t.protected
      /\ d.swaEvictable = t.swaEvictable + size /\ d.swaProtected = t.swaProtected
  BY <1>5
<1>7. Names(d) = Names(t) /\ nodes = [n \in Names(t) |-> nodes[n]]
  <2>1. DOMAIN nodes = Names(t) /\ nodes = [n \in Names(t) |-> nodes[n]]
    BY <1>3
  <2> QED
    BY <1>6, <2>1 DEF Names
<1>8. ASSUME NEW n \in Names(t)
      PROVE  /\ d.nodes[n] \in SwaNode(P)
             /\ Len(d.nodes[n].pages) = Len(t.nodes[n].pages)
             /\ d.nodes[n].ref = t.nodes[n].ref /\ d.nodes[n].swaRef = t.nodes[n].swaRef
             /\ d.nodes[n].uuid = t.nodes[n].uuid
             /\ Live(d, n) <=> Live(t, n) \/ n \in R
             /\ t.nodes[n].swaRef \in Nat
  <2>1. PICK old : old = t.nodes[n]
    OBVIOUS
  <2>2. /\ old.pages \in Seq(P) /\ old.ref \in Nat /\ old.swaRef \in Nat
        /\ old.tombstone \in BOOLEAN /\ old.uuid \in Nat
        /\ old = [pages |-> old.pages, ref |-> old.ref, swaRef |-> old.swaRef,
                  tombstone |-> old.tombstone, uuid |-> old.uuid]
    BY <1>1, <2>1 DEF SwaTyped
  <2>3. PICK v : v = d.nodes[n]
    OBVIOUS
  <2>4. CASE n \notin R
    <3>1. v = old
      BY <1>3, <1>6, <2>1, <2>3, <2>4
    <3> QED
      BY <2>1, <2>2, <2>3, <2>4, <3>1 DEF SwaNode, Live
  <2>5. CASE n \in R
    <3>1. PICK w : w = SubSeq(slots, Start(t, n) + 1, Len(n))
      OBVIOUS
    <3>2. v = [old EXCEPT !.pages = w, !.tombstone = FALSE]
      BY <1>3, <1>6, <2>1, <2>3, <2>5, <3>1
    <3>3. /\ Start(t, n) \in Nat /\ Start(t, n) <= Len(n) /\ Len(n) \in Nat
          /\ NodeLength(t, n) = Len(n) - Start(t, n)
      <4>1. /\ Start(t, n) \in Nat /\ Start(t, n) < Len(n)
            /\ NodeLength(t, n) = Len(n) - Start(t, n)
        BY <1>1, NodeLengths
      <4>2. Len(n) \in Nat
        BY <1>1, NodeFact
      <4> QED
        BY <4>1, <4>2
    <3>4. w \in Seq(P) /\ Len(w) = Len(n) - Start(t, n)
      BY <2>5, <3>1, <3>3, SliceFact
    <3>5. Len(old.pages) = NodeLength(t, n)
      <4>1. Len(t.nodes[n].pages) \in Nat
        BY <1>1, NodeFact, LenProperties
      <4> QED
        BY <2>1, <4>1, OnePage DEF NodeLength
    <3>6. v = [pages |-> w, ref |-> old.ref, swaRef |-> old.swaRef,
               tombstone |-> FALSE, uuid |-> old.uuid]
      BY <2>2, <3>2
    <3>7. /\ v \in SwaNode(P) /\ v.pages = w /\ v.ref = old.ref /\ v.swaRef = old.swaRef
          /\ v.uuid = old.uuid /\ v.tombstone = FALSE
      BY <2>2, <3>4, <3>6 DEF SwaNode
    <3>8. Len(w) = Len(old.pages)
      BY <3>3, <3>4, <3>5
    <3> QED
      BY <2>1, <2>2, <2>3, <2>5, <3>7, <3>8 DEF Live
  <2> QED
    BY <2>4, <2>5
<1>9. SwaTyped(d, P)
  <2>1. d.nodes \in [Names(d) -> SwaNode(P)]
    BY <1>6, <1>7, <1>8
  <2> QED
    BY <1>5, <1>6, <2>1 DEF SwaTyped, SwaNode
<1>10. IsTree(Core(d), T, P) /\ Accounted(Core(d), U, NodesOf(h))
  <2>1. WellFormed(Core(t), T, P)
    BY <1>1 DEF IsTree
  <2>2. /\ Names(Core(d)) = Names(Core(t)) /\ Names(Core(t)) = Names(t)
        /\ Core(d).evictable = Core(t).evictable /\ Core(d).protected = Core(t).protected
    BY <1>6, <1>7, CoreFact
  <2>3. \A n \in Names(t) : Core(d).nodes[n] = [pages |-> d.nodes[n].pages, ref |-> d.nodes[n].ref]
    BY <1>7 DEF Core
  <2>4. \A n \in Names(t) : /\ Len(Core(d).nodes[n].pages) = Len(Core(t).nodes[n].pages)
                            /\ Core(d).nodes[n].ref = Core(t).nodes[n].ref
    <3> TAKE n \in Names(t)
    <3>1. /\ Core(d).nodes[n].pages = d.nodes[n].pages /\ Core(d).nodes[n].ref = d.nodes[n].ref
          /\ Core(t).nodes[n].pages = t.nodes[n].pages /\ Core(t).nodes[n].ref = t.nodes[n].ref
      BY <1>7, CoreFact
    <3>2. Len(d.nodes[n].pages) = Len(t.nodes[n].pages) /\ d.nodes[n].ref = t.nodes[n].ref
      BY <1>8
    <3> QED
      BY <3>1, <3>2, Zenon
  <2>5. WellFormed(Core(d), T, P)
    <3>1. \A n \in Names(t) : d.nodes[n].pages \in Seq(P) /\ d.nodes[n].ref \in Nat
      BY <1>8 DEF SwaNode
    <3>2. Core(d).nodes \in [Names(t) -> [pages : Seq(P), ref : Nat]]
      BY <1>7, <3>1 DEF Core
    <3>3. Core(d) = [nodes |-> Core(d).nodes, evictable |-> Core(d).evictable,
                     protected |-> Core(d).protected]
      BY DEF Core
    <3> QED
      BY <2>1, <2>2, <3>2, <3>3 DEF WellFormed
  <2> QED
    BY <1>1, <2>2, <2>4, <2>5, SameLengths
<1>11. MarksDiffer(d)
  BY <1>1, <1>7, <1>8 DEF MarksDiffer
<1>12. ASSUME NEW v \in U
       PROVE  /\ HandleMarked(d, h[v]) /\ WindowOf(d, h[v]) = WindowOf(t, h[v])
  <2>1. PICK hv : hv = h[v]
    OBVIOUS
  <2>2. HandleMarked(t, hv) /\ hv.node \in Names(t) \cup {<< >>}
    BY <1>1, <2>1, HandleNode
  <2>3. \A n \in PathTo(t, hv.node) : n \in Names(t) /\ n \notin R
    <3> TAKE n \in PathTo(t, hv.node)
    <3>1. n \in Names(t) /\ t.nodes[n].ref > 0
      BY <2>1, HeldPath
    <3> QED
      BY <3>1 DEF Unheld
  <2>4. PathTo(d, hv.node) = PathTo(t, hv.node)
    BY <1>7 DEF PathTo
  <2>5. \A n \in PathTo(t, hv.node) : hv.uuid # 0 =>
           (d.nodes[n].uuid = hv.uuid <=> t.nodes[n].uuid = hv.uuid)
    BY <1>8, <2>3
  <2>6. \A n \in PathTo(t, hv.node) : Live(d, n) => Live(t, n)
    BY <1>8, <2>3
  <2>7. \A n \in WindowOf(t, hv) : Live(d, n)
    BY <1>8 DEF WindowOf, PathTo
  <2>8. hv.node # << >> => Live(d, hv.node)
    BY <1>8, <2>2 DEF HandleMarked
  <2>9. WindowOf(d, hv) = WindowOf(t, hv) /\ HandleMarked(d, hv)
    BY <2>2, <2>4, <2>5, <2>6, <2>7, <2>8, WindowKept
  <2> QED
    BY <2>1, <2>9
<1>13. \A n \in Names(t) : WindowUsers(d, n, U, h) = WindowUsers(t, n, U, h)
  BY <1>12 DEF WindowUsers
<1>14. SwaRefsExact(d, U, h)
  BY <1>1, <1>7, <1>8, <1>13 DEF SwaRefsExact
<1>15. \A n \in R : ~ Live(t, n) /\ t.nodes[n].swaRef = 0
  <2> TAKE n \in R
  <2>1. ~ Live(t, n) /\ n \in Names(t)
    BY DEF Unheld
  <2>2. WindowUsers(t, n, U, h) = {}
    BY <2>1 DEF WindowUsers, WindowOf
  <2>3. t.nodes[n].swaRef = Cardinality({})
    BY <1>1, <2>1, <2>2 DEF SwaRefsExact
  <2> QED
    BY <2>1, <2>3, FS_EmptySet
<1>16. SwaCountersExact(d)
  <2>1. PICK N : N = Names(t)
    OBVIOUS
  <2>2. PICK A \in SUBSET N : A = LiveAt(t, N, FALSE)
    BY DEF LiveAt
  <2>3. PICK B \in SUBSET N : B = LiveAt(t, N, TRUE)
    BY DEF LiveAt
  <2>4. LiveAt(d, N, FALSE) = A \cup R /\ A \cap R = {} /\ LiveAt(d, N, TRUE) = B
    <3>1. \A n \in N : /\ n \in LiveAt(d, N, FALSE) <=> n \in A \/ n \in R
                       /\ n \in LiveAt(d, N, TRUE) <=> n \in B
                       /\ n \in A => n \notin R
      BY <1>8, <1>15, <2>1, <2>2, <2>3 DEF LiveAt
    <3>2. LiveAt(d, N, FALSE) \in SUBSET N /\ LiveAt(d, N, TRUE) \in SUBSET N
      BY DEF LiveAt
    <3> QED
      BY <2>1, <3>1, <3>2
  <2>5. TotalLength(t, A \cup R) = TotalLength(t, A) + TotalLength(t, R)
    BY <1>1, <2>1, <2>4, TotalUnion
  <2>6. TotalLength(d, A \cup R) = TotalLength(t, A \cup R) /\ TotalLength(d, B) = TotalLength(t, B)
    <3>1. \A n \in N : Len(d.nodes[n].pages) = Len(t.nodes[n].pages)
      BY <1>8, <2>1
    <3>2. \A n \in A \cup R : Len(d.nodes[n].pages) = Len(t.nodes[n].pages)
      BY <2>1, <3>1
    <3> QED
      BY <3>1, <3>2, SizeSame
  <2>7. t.swaEvictable = TotalLength(t, A) /\ t.swaProtected = TotalLength(t, B)
    BY <1>1, <2>1, <2>2, <2>3, SwaCountersAre
  <2>8. d.swaEvictable = TotalLength(d, LiveAt(d, N, FALSE))
    BY <1>2, <1>6, <2>4, <2>5, <2>6, <2>7, Zenon
  <2>9. d.swaProtected = TotalLength(d, LiveAt(d, N, TRUE))
    BY <1>6, <2>4, <2>6, <2>7, Zenon
  <2> QED
    <3>1. SwaCountersExact(d) <=>
             /\ d.swaEvictable = TotalLength(d, LiveAt(d, Names(d), FALSE))
             /\ d.swaProtected = TotalLength(d, LiveAt(d, Names(d), TRUE))
      BY <1>9, SwaCountersAre, Zenon
    <3> QED
      BY <1>7, <2>1, <2>8, <2>9, <3>1, Zenon
<1>17. LeavesLive(d)
  <2>1. ASSUME NEW n \in Names(t), FreeLeaf(d, n) PROVE Live(d, n)
    <3>1. FreeLeaf(t, n)
      BY <1>7, <1>8, <2>1 DEF FreeLeaf, IsLeaf
    <3> QED
      BY <1>1, <1>8, <3>1 DEF LeavesLive
  <2> QED
    BY <1>7, <2>1 DEF LeavesLive
<1> QED
  BY <1>7, <1>9, <1>10, <1>11, <1>12, <1>14, <1>16, <1>17 DEF TreeOK, WindowsExact

(* TreeOK, but for the leaf that is still to come below a tombstone.       *)
TreeButLeaves(t, toks, pages, users, h) ==
    /\ SwaTyped(t, pages) /\ IsTree(Core(t), toks, pages)
    /\ Accounted(Core(t), users, NodesOf(h))
    /\ \A u \in users : HandleMarked(t, h[u])
    /\ MarksDiffer(t) /\ SwaRefsExact(t, users, h) /\ SwaCountersExact(t)

NewKeys(t, m, n) == \A i \in Len(m) + 1 .. Len(n) : SubSeq(n, 1, i) \notin Keys(t)

(* A node added to the core of a tree.                                     *)
LEMMA AddCore ==
    ASSUME NEW T, NEW P, NEW t, IsTree(Core(t), T, P),
           NEW U, NEW g, Accounted(Core(t), U, g),
           NEW m \in Names(t) \cup {<< >>}, NEW n \in Seq(T), IsStrictPrefix(m, n),
           NewKeys(t, m, n),
           NEW pages \in Seq(P), Len(pages) = Len(n) - Len(m),
           NEW d, d = WithLeaf(Core(t), n, pages, t.evictable + Len(n) - Len(m))
    PROVE  /\ IsTree(d, T, P) /\ Accounted(d, U, g) /\ n \notin Names(t)
           /\ \A i \in 1 .. Len(m) : SubSeq(n, 1, i) \in Keys(d) <=> SubSeq(n, 1, i) \in Keys(t)
           /\ \A k \in Keys(d) : k \in Keys(t) \/ IsPrefix(k, n)
           /\ \A x \in Names(t) : ~ IsPrefix(n, x)
           /\ n # << >> /\ Len(m) \in Nat /\ Len(n) \in Nat /\ Len(m) < Len(n)
<1>1. m \in Seq(T) /\ Len(m) \in Nat
  BY RootOrNode
<1>2. /\ FullPages(n) = Len(n) /\ Whole(n) /\ Len(n) \in Nat /\ FullPages(m) = Len(m)
      /\ IsPrefix(m, n) /\ m # n
  BY <1>1, PagesAreTokens DEF IsStrictPrefix
<1>3. Len(m) < Len(n)
  <2>1. Len(m) <= Len(n) /\ (Len(m) = Len(n) <=> m = n)
    BY <1>1, <1>2, PrefixLen
  <2> QED
    BY <1>1, <1>2, <2>1
<1>4. \A i \in Nat : i <= Len(n) => UpTo(n, i) = SubSeq(n, 1, i)
  <2> SUFFICES ASSUME NEW i \in Nat, i <= Len(n) PROVE UpTo(n, i) = SubSeq(n, 1, i)
    OBVIOUS
  <2>1. i * PageSize = i
    BY OnePage
  <2> QED
    BY <2>1 DEF UpTo
<1>5. PICK f : f = Core(t)
  OBVIOUS
<1>6. Names(f) = Names(t) /\ Keys(f) = Keys(t) /\ f.evictable = t.evictable
  BY <1>5, CoreFact
<1>7. IsNew(f, n, m)
  <2>1. \A i \in Len(m) + 1 .. Len(n) : UpTo(n, i) \notin Keys(f)
    <3> TAKE i \in Len(m) + 1 .. Len(n)
    <3>1. i \in Nat /\ i <= Len(n)
      BY <1>1, <1>2
    <3>2. UpTo(n, i) = SubSeq(n, 1, i)
      BY <1>4, <3>1
    <3>3. SubSeq(n, 1, i) \notin Keys(t)
      BY DEF NewKeys
    <3> QED
      BY <1>6, <3>2, <3>3, Zenon
  <2> QED
    BY <1>2, <2>1 DEF IsNew
<1>8. /\ m \in Names(f) \cup {<< >>} /\ Len(pages) = FullPages(n) - FullPages(m)
      /\ d = WithLeaf(f, n, pages, f.evictable + Len(n) - Len(m))
      /\ IsTree(f, T, P) /\ Accounted(f, U, g)
  BY <1>2, <1>5, <1>6
<1>9. /\ IsTree(d, T, P) /\ n \notin Names(f)
      /\ Keys(d) = Keys(f) \cup NewOf(n, m)
      /\ \A x \in Names(f) : ~ IsPrefix(n, x)
  <2>1. PICK e : e = f.evictable + Len(n) - Len(m)
    OBVIOUS
  <2>2. d = WithLeaf(f, n, pages, e)
    BY <1>8, <2>1
  <2> QED
    BY <1>2, <1>7, <1>8, <2>2, LeafTree
<1>10. Accounted(d, U, g)
  BY <1>2, <1>7, <1>8, LeafAccounted
<1>11. \A k \in NewOf(n, m) : IsPrefix(k, n) /\ Len(k) \in Nat /\ Len(k) > Len(m)
  <2> TAKE k \in NewOf(n, m)
  <2>1. PICK i \in Len(m) + 1 .. Len(n) : k = UpTo(n, i)
    BY <1>2 DEF NewOf
  <2>2. i \in Nat /\ i <= FullPages(n) /\ i > Len(m)
    BY <1>1, <1>2, <2>1
  <2>3. IsPrefix(k, n) /\ Len(k) = i * PageSize
    BY <2>1, <2>2, UpToPrefix
  <2> QED
    BY <2>2, <2>3, OnePage
<1>12. \A i \in 1 .. Len(m) : SubSeq(n, 1, i) \in Keys(d) <=> SubSeq(n, 1, i) \in Keys(t)
  <2> TAKE i \in 1 .. Len(m)
  <2>1. i \in Nat /\ i <= Len(m) /\ i <= Len(n)
    BY <1>1, <1>2, <1>3
  <2>2. PICK k : k = SubSeq(n, 1, i)
    OBVIOUS
  <2>3. Len(k) = i
    BY <2>1, <2>2, SubSeqFact
  <2>4. k \notin NewOf(n, m)
    BY <1>1, <1>11, <2>1, <2>3
  <2> QED
    BY <1>6, <1>9, <2>2, <2>4
<1>13. n # << >>
  <2>1. Len(<< >>) = 0
    BY EmptySeq
  <2> QED
    BY <1>1, <1>3, <2>1
<1> QED
  BY <1>1, <1>2, <1>3, <1>6, <1>9, <1>10, <1>11, <1>12, <1>13

(* Where a child can be added, and the slots it takes.                     *)
Addable(t, T, P, U, h, m, n, slots) ==
    /\ TreeButLeaves(t, T, P, U, h) /\ U \subseteq DOMAIN h
    /\ m \in Names(t) \cup {<< >>} /\ n \in Seq(T) /\ IsStrictPrefix(m, n)
    /\ NewKeys(t, m, n)
    /\ slots \in Seq(P) /\ Len(n) <= Len(slots)

LEMMA AddChildFact ==
    ASSUME NEW T, NEW P, NEW t, NEW U, NEW h, NEW m, NEW n, NEW slots,
           Addable(t, T, P, U, h, m, n, slots), NEW tombstone \in BOOLEAN,
           NEW d, d = AddChild(t, m, n, slots, tombstone)
    PROVE  /\ TreeButLeaves(d, T, P, U, h)
           /\ Names(d) = Names(t) \cup {n} /\ n \notin Names(t)
           /\ \A x \in Names(t) : d.nodes[x] = t.nodes[x]
           /\ Live(d, n) <=> ~ tombstone
           /\ \A k \in Keys(d) : k \in Keys(t) \/ IsPrefix(k, n)
           /\ IsPrefix(m, n) /\ m # n
<1>0. /\ TreeButLeaves(t, T, P, U, h) /\ U \subseteq DOMAIN h
      /\ m \in Names(t) \cup {<< >>} /\ n \in Seq(T) /\ IsStrictPrefix(m, n)
      /\ NewKeys(t, m, n)
      /\ slots \in Seq(P) /\ Len(n) <= Len(slots)
  BY DEF Addable
<1> USE <1>0
<1>1. /\ SwaTyped(t, P) /\ IsTree(Core(t), T, P) /\ Accounted(Core(t), U, NodesOf(h))
      /\ \A v \in U : HandleMarked(t, h[v])
      /\ MarksDiffer(t) /\ SwaRefsExact(t, U, h) /\ SwaCountersExact(t)
  BY DEF TreeButLeaves
<1>2. m \in Seq(T) /\ Len(m) \in Nat /\ Len(n) \in Nat /\ Len(m) <= Len(n)
      /\ IsPrefix(m, n) /\ m # n
  <2>1. m \in Seq(T) /\ IsPrefix(m, n) /\ m # n
    BY <1>1, RootOrNode DEF IsStrictPrefix
  <2> QED
    BY <2>1, PrefixLen
<1>3. PICK pages : pages = SubSeq(slots, Len(m) + 1, Len(n))
  OBVIOUS
<1>4. pages \in Seq(P) /\ Len(pages) = Len(n) - Len(m)
  BY <1>2, <1>3, SliceFact
<1>5. PICK c : c = WithLeaf(Core(t), n, pages, t.evictable + Len(n) - Len(m))
  OBVIOUS
<1>6. /\ IsTree(c, T, P) /\ Accounted(c, U, NodesOf(h)) /\ n \notin Names(t)
      /\ \A k \in Keys(c) : k \in Keys(t) \/ IsPrefix(k, n)
      /\ \A x \in Names(t) : ~ IsPrefix(n, x)
      /\ n # << >> /\ Len(m) < Len(n)
  BY <1>1, <1>4, <1>5, AddCore
<1>7. /\ SwaTyped(d, P) /\ Names(d) = Names(t) \cup {n} /\ Core(d) = c
      /\ \A x \in Names(t) : d.nodes[x] = t.nodes[x]
      /\ d.nodes[n].pages = pages /\ d.nodes[n].ref = 0 /\ d.nodes[n].swaRef = 0
      /\ d.nodes[n].uuid = 0 /\ (Live(d, n) <=> ~ tombstone)
      /\ tombstone => d.swaEvictable = t.swaEvictable
      /\ ~ tombstone => d.swaEvictable = t.swaEvictable + Len(n) - Len(m)
      /\ d.swaProtected = t.swaProtected
  <2>1. PICK new : new = [pages |-> pages, ref |-> 0, swaRef |-> 0, tombstone |-> tombstone,
                          uuid |-> 0]
    OBVIOUS
  <2>2. PICK nodes : nodes = [x \in Names(t) \cup {n} |-> IF x = n THEN new ELSE t.nodes[x]]
    OBVIOUS
  <2>3. PICK e : e = t.evictable + Len(n) - Len(m)
    OBVIOUS
  <2>4. PICK swa : swa = IF tombstone THEN t.swaEvictable ELSE t.swaEvictable + Len(n) - Len(m)
    OBVIOUS
  <2>5. d = [nodes |-> nodes, evictable |-> e, protected |-> t.protected,
             swaEvictable |-> swa, swaProtected |-> t.swaProtected]
    <3>1. d = [t EXCEPT !.nodes = nodes, !.evictable = @ + Len(n) - Len(m),
                        !.swaEvictable = IF tombstone THEN @ ELSE @ + Len(n) - Len(m)]
      BY <1>3, <2>1, <2>2, Zenon DEF AddChild
    <3>2. t = [nodes |-> t.nodes, evictable |-> t.evictable, protected |-> t.protected,
               swaEvictable |-> t.swaEvictable, swaProtected |-> t.swaProtected]
      BY <1>1 DEF SwaTyped
    <3> QED
      BY <2>3, <2>4, <3>1, <3>2
  <2>6. /\ d.nodes = nodes /\ d.evictable = e /\ d.protected = t.protected
        /\ d.swaEvictable = swa /\ d.swaProtected = t.swaProtected
    BY <2>5
  <2>7. /\ DOMAIN nodes = Names(t) \cup {n} /\ nodes = [x \in DOMAIN nodes |-> nodes[x]]
        /\ \A x \in Names(t) : nodes[x] = t.nodes[x]
        /\ nodes[n] = new
    BY <1>6, <2>2
  <2>8. /\ new \in SwaNode(P) /\ new.pages = pages /\ new.ref = 0 /\ new.swaRef = 0
        /\ new.uuid = 0 /\ new.tombstone = tombstone
    BY <1>4, <2>1 DEF SwaNode
  <2>9. Names(d) = Names(t) \cup {n}
    BY <2>6, <2>7 DEF Names
  <2>10. SwaTyped(d, P)
    <3>1. \A x \in Names(t) : t.nodes[x] \in SwaNode(P)
      BY <1>1 DEF SwaTyped, SwaNode
    <3>2. \A x \in Names(d) : d.nodes[x] \in SwaNode(P)
      BY <2>6, <2>7, <2>8, <2>9, <3>1
    <3>3. d.nodes = [x \in Names(d) |-> d.nodes[x]]
      BY <2>6, <2>7, <2>9, Zenon
    <3>4. d.nodes \in [Names(d) -> SwaNode(P)]
      BY <3>2, <3>3
    <3> QED
      BY <2>5, <2>6, <3>4 DEF SwaTyped, SwaNode
  <2>11. Core(d) = WithLeaf(Core(t), n, pages, e)
    <3>1. /\ Names(Core(t)) = Names(t) /\ Core(t).protected = t.protected
          /\ \A x \in Names(t) : Core(t).nodes[x] = [pages |-> t.nodes[x].pages, ref |-> t.nodes[x].ref]
      BY CoreFact DEF Core
    <3>2. [x \in Names(d) |-> [pages |-> d.nodes[x].pages, ref |-> d.nodes[x].ref]]
            = [x \in Names(t) \cup {n} |-> IF x = n THEN Leaf(pages) ELSE Core(t).nodes[x]]
      <4>1. \A x \in Names(t) \cup {n} :
              [pages |-> d.nodes[x].pages, ref |-> d.nodes[x].ref]
                = IF x = n THEN Leaf(pages) ELSE Core(t).nodes[x]
        BY <2>6, <2>7, <2>8, <3>1 DEF Leaf
      <4> QED
        BY <2>9, <4>1
    <3> QED
      BY <2>6, <3>1, <3>2 DEF Core, WithLeaf
  <2> QED
    BY <1>5, <2>3, <2>4, <2>6, <2>7, <2>8, <2>9, <2>10, <2>11 DEF Live
<1>8. IsTree(Core(d), T, P) /\ Accounted(Core(d), U, NodesOf(h)) /\ Keys(Core(d)) = Keys(d)
  BY <1>6, <1>7, CoreFact
<1>9. \A k \in Keys(d) : k \in Keys(t) \/ IsPrefix(k, n)
  BY <1>6, <1>7, <1>8, Zenon
<1>10. MarksDiffer(d)
  BY <1>1, <1>7 DEF MarksDiffer
<1>11. ASSUME NEW v \in U
       PROVE  /\ HandleMarked(d, h[v]) /\ WindowOf(d, h[v]) = WindowOf(t, h[v])
              /\ n \notin WindowOf(d, h[v])
  <2>1. PICK hv : hv = h[v]
    OBVIOUS
  <2>2. HandleMarked(t, hv) /\ hv.node \in Names(t) \cup {<< >>}
    <3>1. NodesOf(h)[v] \in Names(Core(t)) \cup {<< >>}
      BY <1>1 DEF Accounted
    <3> QED
      BY <1>1, <2>1, <3>1, CoreFact DEF NodesOf
  <2>3. ~ IsPrefix(n, hv.node)
    BY <1>6, <2>2, EmptyPrefix
  <2>4. PathTo(d, hv.node) = PathTo(t, hv.node)
    BY <1>7, <2>3 DEF PathTo
  <2>5. \A x \in PathTo(t, hv.node) : x \in Names(t) /\ d.nodes[x] = t.nodes[x]
    BY <1>7 DEF PathTo
  <2>6. \A x \in PathTo(t, hv.node) : hv.uuid # 0 =>
           (d.nodes[x].uuid = hv.uuid <=> t.nodes[x].uuid = hv.uuid)
    BY <2>5
  <2>7. \A x \in PathTo(t, hv.node) : Live(d, x) => Live(t, x)
    BY <2>5 DEF Live
  <2>8. \A x \in WindowOf(t, hv) : Live(d, x)
    BY <2>5 DEF WindowOf, Live
  <2>9. hv.node # << >> => Live(d, hv.node)
    BY <1>7, <2>2 DEF HandleMarked, Live
  <2>10. WindowOf(d, hv) = WindowOf(t, hv) /\ HandleMarked(d, hv)
    BY <2>2, <2>4, <2>6, <2>7, <2>8, <2>9, WindowKept
  <2>11. n \notin WindowOf(d, hv)
    BY <2>3 DEF WindowOf, PathTo
  <2> QED
    BY <2>1, <2>10, <2>11
<1>12. SwaRefsExact(d, U, h)
  <2>1. \A x \in Names(t) : WindowUsers(d, x, U, h) = WindowUsers(t, x, U, h)
    BY <1>11 DEF WindowUsers
  <2>2. WindowUsers(d, n, U, h) = {}
    BY <1>11 DEF WindowUsers
  <2>3. Cardinality(WindowUsers(d, n, U, h)) = 0
    BY <2>2, FS_EmptySet
  <2> QED
    BY <1>1, <1>7, <2>1, <2>3 DEF SwaRefsExact
<1>13. SwaCountersExact(d)
  <2>1. PICK N : N = Names(t)
    OBVIOUS
  <2>2. PICK A \in SUBSET N : A = LiveAt(t, N, FALSE)
    BY DEF LiveAt
  <2>3. PICK B \in SUBSET N : B = LiveAt(t, N, TRUE)
    BY DEF LiveAt
  <2>4. \A x \in N : (Live(d, x) <=> Live(t, x)) /\ d.nodes[x].swaRef = t.nodes[x].swaRef
    BY <1>7, <2>1 DEF Live
  <2>5. LiveAt(d, N \cup {n}, TRUE) = B
    <3>1. \A x \in N : x \in LiveAt(d, N \cup {n}, TRUE) <=> x \in B
      BY <2>3, <2>4 DEF LiveAt
    <3>2. n \notin LiveAt(d, N \cup {n}, TRUE)
      BY <1>7 DEF LiveAt
    <3> QED
      BY <3>1, <3>2 DEF LiveAt
  <2>6. LiveAt(d, N \cup {n}, FALSE) = IF tombstone THEN A ELSE A \cup {n}
    <3>1. \A x \in N : x \in LiveAt(d, N \cup {n}, FALSE) <=> x \in A
      BY <2>2, <2>4 DEF LiveAt
    <3>2. n \in LiveAt(d, N \cup {n}, FALSE) <=> ~ tombstone
      BY <1>7 DEF LiveAt
    <3>3. n \notin A
      BY <1>6, <2>1, <2>2
    <3> QED
      BY <3>1, <3>2, <3>3 DEF LiveAt
  <2>7. t.swaEvictable = TotalLength(t, A) /\ t.swaProtected = TotalLength(t, B)
    BY <1>1, <2>1, <2>2, <2>3, SwaCountersAre
  <2>8. TotalLength(d, A) = TotalLength(t, A) /\ TotalLength(d, B) = TotalLength(t, B)
    <3>1. \A S \in SUBSET N : \A x \in S : Len(d.nodes[x].pages) = Len(t.nodes[x].pages)
      BY <1>7, <2>1
    <3> QED
      BY <3>1, SizeSame
  <2>9. A \in SUBSET Names(d) /\ {n} \in SUBSET Names(d) /\ A \cap {n} = {} /\ n \in Names(d)
    BY <1>6, <1>7, <2>1, <2>2
  <2>10. TotalLength(d, A \cup {n}) = TotalLength(d, A) + TotalLength(d, {n})
    BY <1>8, <2>9, TotalUnion
  <2>11. TotalLength(d, {n}) = Len(n) - Len(m)
    <3>1. TotalLength(d, {n}) = NodeLength(d, n)
      BY <1>8, <2>9, NodeTotal
    <3> QED
      BY <1>2, <1>4, <1>7, <3>1, OnePage DEF NodeLength
  <2>12. TotalLength(t, A) \in Nat
    BY <1>1, <2>1, TotalFact
  <2>13. PICK e : e = TotalLength(d, LiveAt(d, N \cup {n}, FALSE))
    OBVIOUS
  <2>14. d.swaEvictable = e
    <3>1. CASE tombstone
      <4>1. e = TotalLength(d, A)
        BY <2>6, <2>13, <3>1, Zenon
      <4> QED
        BY <1>7, <2>7, <2>8, <3>1, <4>1
    <3>2. CASE ~ tombstone
      <4>1. e = TotalLength(d, A) + TotalLength(d, {n})
        BY <2>6, <2>10, <2>13, <3>2, Zenon
      <4>2. e = TotalLength(t, A) + (Len(n) - Len(m))
        BY <2>8, <2>11, <4>1, Zenon
      <4>3. d.swaEvictable = TotalLength(t, A) + Len(n) - Len(m)
        BY <1>7, <2>7, <3>2, Zenon
      <4> QED
        BY <1>2, <2>12, <4>2, <4>3
    <3> QED
      BY <3>1, <3>2
  <2>15. d.swaProtected = TotalLength(d, LiveAt(d, N \cup {n}, TRUE))
    BY <1>7, <2>5, <2>7, <2>8, Zenon
  <2>16. SwaCountersExact(d) <=>
           /\ d.swaEvictable = TotalLength(d, LiveAt(d, Names(d), FALSE))
           /\ d.swaProtected = TotalLength(d, LiveAt(d, Names(d), TRUE))
    BY <1>7, SwaCountersAre, Zenon
  <2> QED
    BY <1>7, <2>1, <2>13, <2>14, <2>15, <2>16, Zenon
<1>14. Live(d, n) <=> ~ tombstone
  BY <1>7
<1>15. \A v \in U : HandleMarked(d, h[v])
  BY <1>11
<1>16. TreeButLeaves(d, T, P, U, h)
  BY <1>7, <1>8, <1>10, <1>12, <1>13, <1>15 DEF TreeButLeaves
<1> QED
  BY <1>2, <1>6, <1>7, <1>9, <1>14, <1>16

LEMMA HeadFact ==
    ASSUME NEW T, NEW s \in Seq(T), NEW i \in Nat, i <= Len(s)
    PROVE  /\ SubSeq(s, 1, i) \in Seq(T) /\ Len(SubSeq(s, 1, i)) = i
           /\ IsPrefix(SubSeq(s, 1, i), s)
<1>1. PICK k : k = SubSeq(s, 1, i)
  OBVIOUS
<1>2. k \in Seq(T) /\ Len(k) = i /\ \A j \in 1 .. i : k[j] = s[j]
  BY <1>1, SubSeqFact
<1>3. IsPrefix(k, s)
  BY <1>2, PrefixFact
<1> QED
  BY <1>1, <1>2, <1>3

LEMMA PairFact ==
    ASSUME NEW a \in Int, NEW b \in Int
    PROVE  /\ Max({a, b}) = IF a >= b THEN a ELSE b
           /\ Min({a, b}) = IF a <= b THEN a ELSE b
<1>1. \E x \in {a, b} : \A y \in {a, b} : x >= y
  OBVIOUS
<1>2. \E x \in {a, b} : \A y \in {a, b} : x <= y
  OBVIOUS
<1> QED
  BY <1>1, <1>2 DEF Max, Min

(* The suffix ends in a live leaf, so the tombstone before it has a child. *)
LEMMA WithSuffixFact ==
    ASSUME NEW T, NEW P, NEW t, NEW U, NEW h, TreeOK(t, T, P, U, h),
           U \subseteq DOMAIN h, NEW s \in Seq(T), NEW end \in Names(t) \cup {<< >>},
           IsPrefix(end, s), NewKeys(t, end, s),
           NEW slots \in Seq(P), Len(s) <= Len(slots), NEW lost \in Int,
           NEW d, d = WithSuffix(t, s, end, slots, lost)
    PROVE  TreeOK(d, T, P, U, h)
<1>1. CASE end = s
  BY <1>1 DEF WithSuffix
<1>2. CASE end # s
  <2>1. TreeButLeaves(t, T, P, U, h) /\ LeavesLive(t) /\ IsTree(Core(t), T, P)
    BY DEF TreeOK, WindowsExact, TreeButLeaves
  <2>2. PICK e : e = Len(end)
    OBVIOUS
  <2>3. PICK l : l = Len(s)
    OBVIOUS
  <2>4. end \in Seq(T) /\ e \in Nat /\ l \in Nat /\ e < l
    <3>1. end \in Seq(T)
      BY <2>1, RootOrNode
    <3> QED
      BY <1>2, <2>2, <2>3, <3>1, PrefixLen
  <2>5. PICK dead : dead = Min({Max({lost, e}), l - 1})
    OBVIOUS
  <2>6. dead \in Nat /\ e <= dead /\ dead < l
    <3>1. PICK x : x = Max({lost, e})
      OBVIOUS
    <3>2. x \in Int /\ x >= e
      BY <2>4, <3>1, PairFact
    <3>3. PICK y \in Int : y = l - 1
      BY <2>4
    <3>4. dead = Min({x, y})
      BY <2>5, <3>1, <3>3
    <3>5. dead = IF x <= y THEN x ELSE y
      BY <3>2, <3>4, PairFact
    <3> QED
      BY <2>4, <3>2, <3>3, <3>5
  <2>7. PICK head : head = SubSeq(s, 1, dead)
    OBVIOUS
  <2>8. head \in Seq(T) /\ Len(head) = dead /\ IsPrefix(head, s) /\ head # s /\ IsPrefix(end, head)
    <3>1. head \in Seq(T) /\ Len(head) = dead /\ IsPrefix(head, s)
      BY <2>3, <2>4, <2>6, <2>7, HeadFact
    <3>2. IsPrefix(end, head)
      BY <2>2, <2>4, <2>6, <3>1, PrefixChain
    <3> QED
      BY <2>3, <2>4, <2>6, <3>1, <3>2
  <2>9. PICK w : w = IF dead = e THEN t ELSE AddChild(t, end, head, slots, TRUE)
    OBVIOUS
  <2>10. d = AddChild(w, head, s, slots, FALSE)
    <3>1. d = AddChild(IF dead = Len(end) THEN t ELSE AddChild(t, end, head, slots, TRUE),
                       head, s, slots, FALSE)
      BY <1>2, <2>2, <2>3, <2>5, <2>7, Zenon DEF WithSuffix
    <3> QED
      BY <2>2, <2>9, <3>1, Zenon
  <2>11. /\ TreeButLeaves(w, T, P, U, h) /\ head \in Names(w) \cup {<< >>}
         /\ Names(t) \subseteq Names(w) /\ Names(w) \subseteq Names(t) \cup {head}
         /\ \A x \in Names(t) : w.nodes[x] = t.nodes[x]
         /\ NewKeys(w, head, s)
    <3>1. CASE dead = e
      <4>1. head = end /\ w = t
        BY <2>2, <2>4, <2>8, <2>9, <3>1, PrefixLen
      <4> QED
        BY <2>1, <4>1
    <3>2. CASE dead # e
      <4>1. IsStrictPrefix(end, head)
        BY <2>2, <2>8, <3>2 DEF IsStrictPrefix
      <4>2. NewKeys(t, end, head)
        <5>1. ASSUME NEW i \in Len(end) + 1 .. Len(head)
              PROVE  SubSeq(head, 1, i) \notin Keys(t)
          <6>1. i \in Nat /\ i <= dead /\ dead <= Len(s) /\ i \in Len(end) + 1 .. Len(s)
            BY <2>2, <2>3, <2>4, <2>6, <2>8, <5>1
          <6>2. SubSeq(head, 1, i) = SubSeq(s, 1, i)
            BY <2>6, <2>7, <6>1, SubSeqSubSeq
          <6>3. SubSeq(s, 1, i) \notin Keys(t)
            BY <6>1 DEF NewKeys
          <6> QED
            BY <6>2, <6>3, Zenon
        <5> QED
          BY <5>1 DEF NewKeys
      <4>3. Len(head) <= Len(slots)
        <5>1. Len(slots) \in Nat
          BY LenProperties
        <5> QED
          BY <2>3, <2>4, <2>6, <2>8, <5>1
      <4>4. PICK tombstone \in BOOLEAN : w = AddChild(t, end, head, slots, tombstone)
        BY <2>9, <3>2, Zenon
      <4>5. /\ TreeButLeaves(w, T, P, U, h) /\ Names(w) = Names(t) \cup {head}
            /\ \A x \in Names(t) : w.nodes[x] = t.nodes[x]
            /\ \A k \in Keys(w) : k \in Keys(t) \/ IsPrefix(k, head)
        <5>1. Addable(t, T, P, U, h, end, head, slots)
          BY <2>1, <2>8, <4>1, <4>2, <4>3 DEF Addable
        <5> QED
          BY ONLY tombstone \in BOOLEAN, <4>4, <5>1, AddChildFact
      <4>6. NewKeys(w, head, s)
        <5>1. ASSUME NEW i \in Len(head) + 1 .. Len(s)
              PROVE  SubSeq(s, 1, i) \notin Keys(w)
          <6>1. i \in Nat /\ i > dead /\ i <= Len(s) /\ i \in Len(end) + 1 .. Len(s)
            BY <2>2, <2>3, <2>4, <2>6, <2>8, <5>1
          <6>2. PICK k : k = SubSeq(s, 1, i)
            OBVIOUS
          <6>3. k \in Seq(T) /\ Len(k) = i
            BY <6>1, <6>2, HeadFact
          <6>4. ~ IsPrefix(k, head)
            BY <2>6, <2>8, <6>1, <6>3, PrefixLen
          <6>5. k \notin Keys(t)
            BY <6>1, <6>2 DEF NewKeys
          <6> QED
            BY <4>5, <6>2, <6>4, <6>5
        <5> QED
          BY <5>1 DEF NewKeys
      <4> QED
        BY <4>5, <4>6
    <3> QED
      BY <3>1, <3>2
  <2>12. IsStrictPrefix(head, s)
    BY <2>8 DEF IsStrictPrefix
  <2>13. /\ TreeButLeaves(d, T, P, U, h) /\ Names(d) = Names(w) \cup {s}
         /\ \A x \in Names(w) : d.nodes[x] = w.nodes[x]
         /\ Live(d, s)
    <3>1. PICK no \in BOOLEAN : ~ no /\ d = AddChild(w, head, s, slots, no)
      BY <2>10, Zenon
    <3>2. Addable(w, T, P, U, h, head, s, slots)
      BY <2>11, <2>12 DEF Addable
    <3> QED
      BY ONLY no \in BOOLEAN, <3>1, <3>2, AddChildFact
  <2>14. LeavesLive(d)
    <3>1. ASSUME NEW n \in Names(d), FreeLeaf(d, n) PROVE Live(d, n)
      <4>1. n # head
        BY <2>12, <2>13, <3>1 DEF FreeLeaf, IsLeaf
      <4>2. CASE n = s
        BY <2>13, <4>2
      <4>3. CASE n # s
        <5>1. n \in Names(t) /\ d.nodes[n] = t.nodes[n]
          BY <2>11, <2>13, <3>1, <4>1, <4>3
        <5>2. IsLeaf(t, n)
          BY <2>11, <2>13, <3>1 DEF FreeLeaf, IsLeaf
        <5>3. FreeLeaf(t, n)
          BY <3>1, <5>1, <5>2 DEF FreeLeaf
        <5> QED
          BY <2>1, <5>1, <5>3 DEF LeavesLive, Live
      <4> QED
        BY <4>2, <4>3
    <3> QED
      BY <3>1 DEF LeavesLive
  <2> QED
    BY <2>13, <2>14 DEF TreeOK, WindowsExact, TreeButLeaves
<1> QED
  BY <1>1, <1>2

LEMMA SplitKeys ==
    ASSUME NEW T, NEW P, NEW t, NEW U, NEW h, TreeOK(t, T, P, U, h),
           NEW m \in Keys(t) \cup {<< >>}, NEW d, d = Split(t, m)
    PROVE  Keys(d) = Keys(t) /\ Names(t) \subseteq Names(d)
<1>1. SwaTyped(t, P) /\ IsTree(Core(t), T, P)
  BY DEF TreeOK
<1>2. CASE m = << >> \/ m \in Names(t)
  BY <1>2 DEF Split
<1>3. CASE ~ (m = << >> \/ m \in Names(t))
  <2>1. m \in Keys(t) /\ m \notin Names(t)
    BY <1>3
  <2>2. Core(d) = SplitAt(Core(t), m) /\ Names(d) = Names(t) \cup {m}
    BY <1>1, <2>1, SplitNode
  <2>3. PICK c : c = Core(t)
    OBVIOUS
  <2>4. PICK e : e = Core(d)
    OBVIOUS
  <2>5. Keys(c) = Keys(t) /\ Names(c) = Names(t) /\ Keys(e) = Keys(d)
    BY <2>3, <2>4, CoreFact
  <2>6. IsTree(c, T, P) /\ e = SplitAt(c, m) /\ m \in Keys(c) /\ m \notin Names(c)
    BY <1>1, <2>1, <2>2, <2>3, <2>4, <2>5
  <2>7. IsTree(e, T, P) /\ EntriesOf(e) = EntriesOf(c)
    BY <2>6, SplitTree
  <2>8. DOMAIN EntriesOf(e) = Keys(e) /\ DOMAIN EntriesOf(c) = Keys(c)
    BY <2>6, <2>7, EntriesType
  <2> QED
    BY <2>2, <2>5, <2>7, <2>8
<1> QED
  BY <1>2, <1>3

LEMMA CutAtGoneFact ==
    ASSUME NEW T, NEW P, NEW t, NEW U, NEW h, TreeOK(t, T, P, U, h),
           U \subseteq DOMAIN h, NEW s \in Seq(T), NEW end \in Names(t) \cup {<< >>},
           IsPrefix(end, s), NEW lost \in Int, NEW from,
           NEW d, d = CutAtGone(t, s, end, lost, from)
    PROVE  TreeOK(d, T, P, U, h) /\ Keys(d) = Keys(t) /\ Names(t) \subseteq Names(d)
<1>1. IsTree(Core(t), T, P)
  BY DEF TreeOK
<1>2. CASE \A n \in PathTo(t, end) :
             ~ (Len(n) > from /\ Unheld(t, n) /\ lost \in Start(t, n) + 1 .. Len(n) - 1)
  BY <1>2 DEF CutAtGone
<1>3. ASSUME NEW n \in PathTo(t, end),
             Len(n) > from /\ Unheld(t, n) /\ lost \in Start(t, n) + 1 .. Len(n) - 1
      PROVE  TreeOK(d, T, P, U, h) /\ Keys(d) = Keys(t) /\ Names(t) \subseteq Names(d)
  <2>1. d = Split(t, SubSeq(s, 1, lost))
    BY <1>3 DEF CutAtGone
  <2>2. n \in Names(t) /\ n \in Seq(T) /\ IsPrefix(n, end) /\ end \in Seq(T)
    BY <1>1, NodeFact, RootOrNode DEF PathTo
  <2>3. IsPrefix(n, s) /\ Len(n) \in Nat /\ Len(n) <= Len(s) /\ Len(s) \in Nat
    <3>1. IsPrefix(n, s)
      BY <2>2, PrefixTrans
    <3> QED
      BY <2>2, <3>1, PrefixLen
  <2>4. Start(t, n) \in Nat
    BY <1>1, <2>2, NodeLengths
  <2>5. lost \in Nat /\ lost >= 1 /\ lost <= Len(n) /\ lost <= Len(s)
    BY <1>3, <2>3, <2>4
  <2>6. PICK m : m = SubSeq(s, 1, lost)
    OBVIOUS
  <2>7. m \in Seq(T) /\ Len(m) = lost /\ IsPrefix(m, s)
    BY <2>5, <2>6, HeadFact
  <2>8. IsPrefix(m, n)
    BY <2>2, <2>3, <2>5, <2>7, PrefixChain
  <2>9. Whole(m) /\ m # << >>
    <3>1. Len(<< >>) = 0
      BY EmptySeq
    <3> QED
      BY <2>5, <2>7, <3>1, PagesAreTokens
  <2>10. m \in Keys(t)
    <3>1. PICK c : c = Core(t)
      OBVIOUS
    <3>2. WellFormed(c, T, P) /\ Names(c) = Names(t) /\ Keys(c) = Keys(t)
      BY <1>1, <3>1, CoreFact DEF IsTree
    <3>3. m \in Keys(c)
      BY <2>2, <2>7, <2>8, <2>9, <3>2, KeyFact
    <3> QED
      BY <3>2, <3>3
  <2>11. m \in Keys(t) \cup {<< >>} /\ d = Split(t, m)
    BY <2>1, <2>6, <2>10
  <2>12. TreeOK(d, T, P, U, h)
    BY <2>11, SplitKeeps
  <2> QED
    BY <2>11, <2>12, SplitKeys
<1> QED
  BY <1>2, <1>3

LEMMA SlotsOfFact ==
    ASSUME NEW T, NEW P, NEW t, IsTree(Core(t), T, P), NEW S \in SUBSET Names(t)
    PROVE  SlotsOf(t, S) \in SUBSET P
<1>1. ASSUME NEW n \in S PROVE ToSet(t.nodes[n].pages) \in SUBSET P
  <2>1. t.nodes[n].pages \in Seq(P)
    BY NodeFact
  <2> QED
    BY <2>1 DEF ToSet
<1> QED
  BY <1>1 DEF SlotsOf

(* The slots freed are of the tree or of the row.                          *)
LEMMA FreedFact ==
    ASSUME NEW T, NEW P, NEW t, IsTree(Core(t), T, P), NEW past \in SUBSET Names(t),
           NEW R \in SUBSET past, NEW slots \in Seq(P),
           \A n \in past : Len(n) <= Len(slots)
    PROVE  Reconciled(t, past, R, slots).freed \in SUBSET P
<1>1. Reconciled(t, past, R, slots).freed
        = SlotsOf(t, R) \cup UNION {ToSet(SubSeq(slots, Start(t, n) + 1, Len(n))) : n \in past \ R}
  BY DEF Reconciled
<1>2. SlotsOf(t, R) \in SUBSET P
  BY SlotsOfFact
<1>3. ASSUME NEW n \in past PROVE ToSet(SubSeq(slots, Start(t, n) + 1, Len(n))) \in SUBSET P
  <2>1. Start(t, n) \in Nat /\ Start(t, n) <= Len(n) /\ Len(n) \in Nat
    <3>1. Start(t, n) \in Nat /\ Start(t, n) < Len(n) /\ Len(n) \in Nat
      BY NodeLengths, NodeFact
    <3> QED
      BY <3>1
  <2>2. SubSeq(slots, Start(t, n) + 1, Len(n)) \in Seq(P)
    BY <2>1, SliceFact
  <2> QED
    BY <2>2 DEF ToSet
<1> QED
  BY <1>1, <1>2, <1>3

(* The whole of _insert.                                                   *)
LEMMA SwaInsertFact ==
    ASSUME NEW T, NEW P, NEW t, NEW U, NEW h, TreeOK(t, T, P, U, h),
           U \subseteq DOMAIN h, IsFiniteSet(U), NEW s \in Seq(T),
           NEW slots \in Seq(P), Len(s) <= Len(slots), NEW lost \in Int, NEW from,
           NEW r, r = Insert(t, s, slots, lost, from), NEW d, d = r.tree
    PROVE  TreeOK(d, T, P, U, h) /\ r.freed \in SUBSET P
<1>1. IsTree(Core(t), T, P)
  BY DEF TreeOK
<1>2. PICK end : end = WalkEnd(t, s)
  OBVIOUS
<1>3. /\ end \in Keys(t) \cup {<< >>} /\ end \in Seq(T) /\ IsPrefix(end, s)
      /\ \A i \in 1 .. Len(s) : SubSeq(s, 1, i) \in Keys(t) <=> i <= Len(end)
  BY <1>1, <1>2, WalkFact
<1>4. PICK a : a = Split(t, end)
  OBVIOUS
<1>5. TreeOK(a, T, P, U, h) /\ end \in Names(a) \cup {<< >>}
  BY <1>3, <1>4, SplitKeeps
<1>6. Keys(a) = Keys(t)
  BY <1>3, <1>4, SplitKeys
<1>7. PICK b : b = CutAtGone(a, s, end, lost, from)
  OBVIOUS
<1>8. TreeOK(b, T, P, U, h) /\ Keys(b) = Keys(a) /\ end \in Names(b) \cup {<< >>}
  <2>1. TreeOK(b, T, P, U, h) /\ Keys(b) = Keys(a) /\ Names(a) \subseteq Names(b)
    BY <1>3, <1>5, <1>7, CutAtGoneFact
  <2> QED
    BY <1>5, <2>1
<1>9. PICK R : R = Revived(b, end, lost, from)
  OBVIOUS
<1>10. PICK past : past = Past(b, end, from)
  OBVIOUS
<1>11. PICK c : c = Reconciled(b, past, R, slots).tree
  OBVIOUS
<1>12. /\ d = WithSuffix(c, s, end, slots, lost)
       /\ r.freed = Reconciled(b, past, R, slots).freed
  <2>1. r = InsertBelow(t, s, end, slots, lost, from)
    BY <1>2 DEF Insert
  <2>2. r = InsertFrom(b, s, end, slots, lost, from)
    BY <1>4, <1>7, <2>1, Zenon DEF InsertBelow
  <2>3. PICK q : q = Reconciled(b, past, R, slots)
    OBVIOUS
  <2>4. r = [freed |-> q.freed, tree |-> WithSuffix(q.tree, s, end, slots, lost)]
    BY <1>9, <1>10, <2>2, <2>3, Zenon DEF InsertFrom
  <2>5. d = WithSuffix(q.tree, s, end, slots, lost) /\ r.freed = q.freed
    BY <2>4
  <2> QED
    BY <1>11, <2>3, <2>5, Zenon
<1>13. \A n \in past : n \in Names(b) /\ Len(n) <= Len(slots)
  <2> TAKE n \in past
  <2>1. n \in PathTo(b, end)
    BY <1>10 DEF Past
  <2>2. IsTree(Core(b), T, P)
    BY <1>8 DEF TreeOK
  <2>3. n \in Names(b) /\ n \in Seq(T) /\ IsPrefix(n, end)
    BY <2>1, <2>2, NodeFact DEF PathTo
  <2>4. /\ Len(n) \in Nat /\ Len(end) \in Nat /\ Len(s) \in Nat
        /\ Len(n) <= Len(end) /\ Len(end) <= Len(s)
    BY <1>3, <2>3, PrefixLen
  <2>5. Len(slots) \in Nat
    BY LenProperties
  <2> QED
    BY <2>3, <2>4, <2>5
<1>14. R \in SUBSET past /\ \A n \in R : Unheld(b, n)
  BY <1>9, <1>10 DEF Revived
<1>15. TreeOK(c, T, P, U, h) /\ Names(c) = Names(b)
  <2>1. R \in SUBSET Names(b) /\ \A n \in R : Len(n) <= Len(slots)
    BY <1>13, <1>14
  <2> QED
    BY <1>8, <1>11, <1>14, <2>1, ReviveFact
<1>16. Keys(c) = Keys(t)
  <2>1. Keys(c) = Keys(b)
    BY <1>15 DEF Keys
  <2> QED
    BY <1>6, <1>8, <2>1
<1>17. NewKeys(c, end, s)
  <2>1. ASSUME NEW i \in Len(end) + 1 .. Len(s)
        PROVE  SubSeq(s, 1, i) \notin Keys(c)
    <3>1. Len(end) \in Nat /\ Len(s) \in Nat
      BY <1>3, LenProperties
    <3>2. i \in 1 .. Len(s) /\ ~ (i <= Len(end))
      BY <2>1, <3>1
    <3> QED
      BY <1>3, <1>16, <3>2
  <2> QED
    BY <2>1 DEF NewKeys
<1>18. end \in Names(c) \cup {<< >>}
  BY <1>8, <1>15
<1>19. r.freed \in SUBSET P
  <2>1. past \in SUBSET Names(b) /\ IsTree(Core(b), T, P)
    BY <1>8, <1>13 DEF TreeOK
  <2>2. Reconciled(b, past, R, slots).freed \in SUBSET P
    BY <1>13, <1>14, <2>1, FreedFact
  <2> QED
    BY <1>12, <2>2, Zenon
<1>20. TreeOK(d, T, P, U, h)
  BY <1>3, <1>12, <1>15, <1>17, <1>18, WithSuffixFact
<1> QED
  BY <1>19, <1>20

(* The nodes in a handle's window carry a window lock.                     *)
LEMMA HeldWindow ==
    ASSUME NEW T, NEW P, NEW t, NEW U, NEW h, TreeOK(t, T, P, U, h),
           U \subseteq DOMAIN h, IsFiniteSet(U), NEW v \in U,
           NEW n \in WindowOf(t, h[v])
    PROVE  n \in Names(t) /\ t.nodes[n].swaRef # 0
<1>1. n \in Names(t)
  BY DEF WindowOf, PathTo
<1>2. v \in WindowUsers(t, n, U, h) /\ WindowUsers(t, n, U, h) \in SUBSET U
  BY DEF WindowUsers
<1>3. IsFiniteSet(WindowUsers(t, n, U, h))
  BY <1>2, FS_Subset
<1>4. Cardinality(WindowUsers(t, n, U, h)) # 0
  BY <1>2, <1>3, FS_EmptySet
<1>5. t.nodes[n].swaRef = Cardinality(WindowUsers(t, n, U, h))
  BY <1>1 DEF TreeOK, WindowsExact, SwaRefsExact
<1> QED
  BY <1>1, <1>4, <1>5

(* Who holds a node's window holds the node.                               *)
LEMMA FreeWindow ==
    ASSUME NEW T, NEW P, NEW t, NEW U, NEW h, TreeOK(t, T, P, U, h),
           U \subseteq DOMAIN h, IsFiniteSet(U), NEW n \in Names(t), t.nodes[n].ref = 0
    PROVE  t.nodes[n].swaRef = 0 /\ \A v \in U : n \notin PathTo(t, h[v].node)
<1>1. ASSUME NEW v \in U PROVE n \notin PathTo(t, h[v].node)
  BY HeldPath
<1>2. WindowUsers(t, n, U, h) = {}
  BY <1>1 DEF WindowUsers, WindowOf
<1>3. t.nodes[n].swaRef = Cardinality({})
  BY <1>2 DEF TreeOK, WindowsExact, SwaRefsExact
<1> QED
  BY <1>1, <1>3, FS_EmptySet

(* Window slots are freed of nodes with no window lock, that are no leaves *)
(* anybody could evict.                                                    *)
LEMMA TombstonedFact ==
    ASSUME NEW T, NEW P, NEW t, NEW U, NEW h, TreeOK(t, T, P, U, h),
           U \subseteq DOMAIN h, IsFiniteSet(U), NEW S \in SUBSET Names(t),
           \A n \in S : Live(t, n) /\ t.nodes[n].swaRef = 0 /\ ~ FreeLeaf(t, n),
           NEW d, d = Tombstoned(t, S)
    PROVE  TreeOK(d, T, P, U, h) /\ Names(d) = Names(t)
<1>1. /\ SwaTyped(t, P) /\ IsTree(Core(t), T, P) /\ Accounted(Core(t), U, NodesOf(h))
      /\ \A v \in U : HandleMarked(t, h[v])
      /\ MarksDiffer(t) /\ SwaRefsExact(t, U, h) /\ SwaCountersExact(t) /\ LeavesLive(t)
  BY DEF TreeOK, WindowsExact
<1>2. PICK size : size = TotalLength(t, S)
  OBVIOUS
<1>3. PICK nodes : nodes = [n \in Names(t) |->
         IF n \in S THEN [t.nodes[n] EXCEPT !.tombstone = TRUE] ELSE t.nodes[n]]
  OBVIOUS
<1>4. d = [t EXCEPT !.nodes = nodes, !.swaEvictable = @ - size]
  <2>1. {n \in S : Live(t, n)} = S
    OBVIOUS
  <2>2. LiveLength(t, S) = size
    BY <1>2, <2>1 DEF LiveLength
  <2> QED
    BY <1>3, <2>2, Zenon DEF Tombstoned
<1>5. d = [nodes |-> nodes, evictable |-> t.evictable, protected |-> t.protected,
           swaEvictable |-> t.swaEvictable - size, swaProtected |-> t.swaProtected]
  <2>1. t = [nodes |-> t.nodes, evictable |-> t.evictable, protected |-> t.protected,
             swaEvictable |-> t.swaEvictable, swaProtected |-> t.swaProtected]
    BY <1>1 DEF SwaTyped
  <2> QED
    BY <1>4, <2>1
<1>6. /\ d.nodes = nodes /\ d.evictable = t.evictable /\ d.protected = t.protected
      /\ d.swaEvictable = t.swaEvictable - size /\ d.swaProtected = t.swaProtected
  BY <1>5
<1>7. Names(d) = Names(t) /\ nodes = [n \in Names(t) |-> nodes[n]]
  <2>1. DOMAIN nodes = Names(t) /\ nodes = [n \in Names(t) |-> nodes[n]]
    BY <1>3
  <2> QED
    BY <1>6, <2>1 DEF Names
<1>8. ASSUME NEW n \in Names(t)
      PROVE  /\ d.nodes[n] \in SwaNode(P)
             /\ d.nodes[n].pages = t.nodes[n].pages
             /\ d.nodes[n].ref = t.nodes[n].ref /\ d.nodes[n].swaRef = t.nodes[n].swaRef
             /\ d.nodes[n].uuid = t.nodes[n].uuid
             /\ Live(d, n) <=> Live(t, n) /\ n \notin S
             /\ t.nodes[n].swaRef \in Nat
  <2>1. PICK old : old = t.nodes[n]
    OBVIOUS
  <2>2. /\ old.pages \in Seq(P) /\ old.ref \in Nat /\ old.swaRef \in Nat
        /\ old.tombstone \in BOOLEAN /\ old.uuid \in Nat
        /\ old = [pages |-> old.pages, ref |-> old.ref, swaRef |-> old.swaRef,
                  tombstone |-> old.tombstone, uuid |-> old.uuid]
    BY <1>1, <2>1 DEF SwaTyped
  <2>3. PICK v : v = d.nodes[n]
    OBVIOUS
  <2>4. CASE n \notin S
    <3>1. v = old
      BY <1>3, <1>6, <2>1, <2>3, <2>4
    <3> QED
      BY <2>1, <2>2, <2>3, <2>4, <3>1 DEF SwaNode, Live
  <2>5. CASE n \in S
    <3>1. v = [old EXCEPT !.tombstone = TRUE]
      BY <1>3, <1>6, <2>1, <2>3, <2>5
    <3>2. v = [pages |-> old.pages, ref |-> old.ref, swaRef |-> old.swaRef,
               tombstone |-> TRUE, uuid |-> old.uuid]
      BY <2>2, <3>1
    <3>3. /\ v \in SwaNode(P) /\ v.pages = old.pages /\ v.ref = old.ref
          /\ v.swaRef = old.swaRef /\ v.uuid = old.uuid /\ v.tombstone = TRUE
      BY <2>2, <3>2 DEF SwaNode
    <3> QED
      BY <2>1, <2>2, <2>3, <2>5, <3>3 DEF Live
  <2> QED
    BY <2>4, <2>5
<1>9. SwaTyped(d, P)
  <2>1. d.nodes \in [Names(d) -> SwaNode(P)]
    BY <1>6, <1>7, <1>8
  <2> QED
    BY <1>5, <1>6, <2>1 DEF SwaTyped, SwaNode
<1>10. IsTree(Core(d), T, P) /\ Accounted(Core(d), U, NodesOf(h))
  <2>1. \A n \in Names(t) : [pages |-> d.nodes[n].pages, ref |-> d.nodes[n].ref]
                              = [pages |-> t.nodes[n].pages, ref |-> t.nodes[n].ref]
    BY <1>8
  <2>2. [n \in Names(d) |-> [pages |-> d.nodes[n].pages, ref |-> d.nodes[n].ref]]
          = [n \in Names(t) |-> [pages |-> t.nodes[n].pages, ref |-> t.nodes[n].ref]]
    BY <1>7, <2>1
  <2>3. Core(d) = Core(t)
    BY <1>6, <2>2 DEF Core
  <2> QED
    BY <1>1, <2>3
<1>11. MarksDiffer(d)
  BY <1>1, <1>7, <1>8 DEF MarksDiffer
<1>12. ASSUME NEW v \in U
       PROVE  /\ HandleMarked(d, h[v]) /\ WindowOf(d, h[v]) = WindowOf(t, h[v])
  <2>1. PICK hv : hv = h[v]
    OBVIOUS
  <2>2. HandleMarked(t, hv) /\ hv.node \in Names(t) \cup {<< >>}
    BY <1>1, <2>1, HandleNode
  <2>3. \A n \in WindowOf(t, hv) : n \in Names(t) /\ n \notin S
    <3> TAKE n \in WindowOf(t, hv)
    <3>1. n \in Names(t) /\ t.nodes[n].swaRef # 0
      BY <2>1, HeldWindow
    <3> QED
      BY <3>1
  <2>4. PathTo(d, hv.node) = PathTo(t, hv.node)
    BY <1>7 DEF PathTo
  <2>5. \A n \in PathTo(t, hv.node) : hv.uuid # 0 =>
           (d.nodes[n].uuid = hv.uuid <=> t.nodes[n].uuid = hv.uuid)
    BY <1>8 DEF PathTo
  <2>6. \A n \in PathTo(t, hv.node) : Live(d, n) => Live(t, n)
    BY <1>8 DEF PathTo
  <2>7. \A n \in WindowOf(t, hv) : Live(d, n)
    BY <1>8, <2>3 DEF WindowOf
  <2>8. hv.node # << >> => Live(d, hv.node)
    BY <1>1, <2>2, <2>7, OwnNode
  <2>9. WindowOf(d, hv) = WindowOf(t, hv) /\ HandleMarked(d, hv)
    BY <2>2, <2>4, <2>5, <2>6, <2>7, <2>8, WindowKept
  <2> QED
    BY <2>1, <2>9
<1>13. \A n \in Names(t) : WindowUsers(d, n, U, h) = WindowUsers(t, n, U, h)
  BY <1>12 DEF WindowUsers
<1>14. SwaRefsExact(d, U, h)
  BY <1>1, <1>7, <1>8, <1>13 DEF SwaRefsExact
<1>15. SwaCountersExact(d)
  <2>1. PICK N : N = Names(t)
    OBVIOUS
  <2>2. PICK A \in SUBSET N : A = LiveAt(t, N, FALSE)
    BY DEF LiveAt
  <2>3. PICK B \in SUBSET N : B = LiveAt(t, N, TRUE)
    BY DEF LiveAt
  <2>4. LiveAt(d, N, FALSE) = A \ S /\ S \in SUBSET A /\ LiveAt(d, N, TRUE) = B
    <3>1. \A n \in N : /\ n \in LiveAt(d, N, FALSE) <=> n \in A /\ n \notin S
                       /\ n \in LiveAt(d, N, TRUE) <=> n \in B
                       /\ n \in S => n \in A
      BY <1>8, <2>1, <2>2, <2>3 DEF LiveAt
    <3>2. LiveAt(d, N, FALSE) \in SUBSET N /\ LiveAt(d, N, TRUE) \in SUBSET N
      BY DEF LiveAt
    <3> QED
      BY <2>1, <3>1, <3>2
  <2>5. TotalLength(t, A \ S) = TotalLength(t, A) - TotalLength(t, S)
    <3>1. {} \in SUBSET Names(t) /\ S \cap {} = {}
      OBVIOUS
    <3> QED
      BY <1>1, <2>1, <2>4, <3>1, TotalMoved
  <2>6. TotalLength(d, A \ S) = TotalLength(t, A \ S) /\ TotalLength(d, B) = TotalLength(t, B)
    <3>1. \A n \in N : Len(d.nodes[n].pages) = Len(t.nodes[n].pages)
      BY <1>8, <2>1
    <3>2. \A n \in A \ S : Len(d.nodes[n].pages) = Len(t.nodes[n].pages)
      BY <2>1, <3>1
    <3> QED
      BY <3>1, <3>2, SizeSame
  <2>7. t.swaEvictable = TotalLength(t, A) /\ t.swaProtected = TotalLength(t, B)
    BY <1>1, <2>1, <2>2, <2>3, SwaCountersAre
  <2>8. d.swaEvictable = TotalLength(d, LiveAt(d, N, FALSE))
    BY <1>2, <1>6, <2>4, <2>5, <2>6, <2>7, Zenon
  <2>9. d.swaProtected = TotalLength(d, LiveAt(d, N, TRUE))
    BY <1>6, <2>4, <2>6, <2>7, Zenon
  <2> QED
    <3>1. SwaCountersExact(d) <=>
             /\ d.swaEvictable = TotalLength(d, LiveAt(d, Names(d), FALSE))
             /\ d.swaProtected = TotalLength(d, LiveAt(d, Names(d), TRUE))
      BY <1>9, SwaCountersAre, Zenon
    <3> QED
      BY <1>7, <2>1, <2>8, <2>9, <3>1, Zenon
<1>16. LeavesLive(d)
  <2>1. ASSUME NEW n \in Names(t), FreeLeaf(d, n) PROVE Live(d, n)
    <3>1. FreeLeaf(t, n)
      BY <1>7, <1>8, <2>1 DEF FreeLeaf, IsLeaf
    <3> QED
      BY <1>1, <1>8, <3>1 DEF LeavesLive
  <2> QED
    BY <1>7, <2>1 DEF LeavesLive
<1> QED
  BY <1>7, <1>9, <1>10, <1>11, <1>12, <1>14, <1>15, <1>16 DEF TreeOK, WindowsExact

(* What a leaf takes with it: a chain of its path that nobody holds.       *)
LEMMA UnlinkedFact ==
    ASSUME NEW T, NEW P, NEW t, IsTree(Core(t), T, P), NEW n \in Names(t), FreeLeaf(t, n),
           NEW S, S = Unlinked(t, n)
    PROVE  /\ S \in SUBSET Names(t) /\ \A x \in S : t.nodes[x].ref = 0
           /\ \A x \in S : \A m \in Names(t) : IsPrefix(x, m) => m \in S
           /\ \A x \in Names(t) \ S : Unheld(t, x) =>
                 \E m \in Names(t) \ S : IsStrictPrefix(x, m) \/ (x = m /\ IsLeaf(t, x))
<1>1. PICK above : above = PathTo(t, n) \ {n}
  OBVIOUS
<1>2. PICK path : path = PathTo(t, n)
  OBVIOUS
<1> DEFINE Exposed(a) == Unheld(t, a) /\ \A m \in Names(t) : IsPrefix(a, m) => m \in path
<1>3. S = {n} \cup {a \in above : \A b \in above : Len(b) >= Len(a) => Exposed(b)}
  BY <1>1, <1>2, Zenon DEF Unlinked
<1>4. n \in Seq(T) /\ IsLeaf(t, n) /\ t.nodes[n].ref = 0
  BY NodeFact DEF FreeLeaf
<1>5. \A a \in above : /\ a \in Names(t) /\ a \in Seq(T) /\ IsPrefix(a, n) /\ a # n
                       /\ a \in path /\ Len(a) \in Nat
  BY <1>1, <1>2, <1>4, NodeFact DEF PathTo
<1>6. n \in path /\ path \in SUBSET Names(t) /\ path = above \cup {n}
  BY <1>1, <1>2, <1>4, PrefixRefl DEF PathTo
<1>7. \A a \in S : a # n => /\ a \in above /\ Exposed(a)
                            /\ \A b \in above : Len(b) >= Len(a) => Exposed(b)
  BY <1>3, <1>5
<1>8. S \in SUBSET Names(t) /\ \A x \in S : t.nodes[x].ref = 0
  BY <1>3, <1>4, <1>5, <1>7 DEF Unheld
<1>9. ASSUME NEW x \in S, NEW m \in Names(t), IsPrefix(x, m) PROVE m \in S
  <2>1. CASE x = n
    <3>1. m = n
      BY <1>4, <1>9, <2>1 DEF IsLeaf, IsStrictPrefix
    <3> QED
      BY <1>3, <3>1
  <2>2. CASE x # n
    <3>1. m \in path /\ x \in above
      BY <1>7, <1>9, <2>2
    <3>2. CASE m = n
      BY <1>3, <3>2
    <3>3. CASE m # n
      <4>1. m \in above
        BY <1>6, <3>1, <3>3
      <4>2. Len(x) <= Len(m)
        BY <1>5, <1>9, <3>1, <4>1, PrefixLen
      <4>3. \A b \in above : Len(b) >= Len(m) => Exposed(b)
        <5> SUFFICES ASSUME NEW b \in above, Len(b) >= Len(m) PROVE Exposed(b)
          OBVIOUS
        <5>1. Len(b) >= Len(x)
          BY <1>5, <3>1, <4>1, <4>2
        <5> QED
          BY <1>7, <2>2, <5>1
      <4> QED
        BY <1>3, <4>1, <4>3
    <3> QED
      BY <3>2, <3>3
  <2> QED
    BY <2>1, <2>2
<1>10. ASSUME NEW x \in Names(t) \ S, Unheld(t, x),
              \A m \in Names(t) \ S : ~ IsStrictPrefix(x, m), ~ IsLeaf(t, x)
       PROVE  FALSE
  <2>1. x \in Seq(T)
    BY NodeFact
  <2>2. PICK m \in Names(t) : IsStrictPrefix(x, m)
    BY <1>10 DEF IsLeaf
  <2>3. m \in S /\ m \in Seq(T) /\ IsPrefix(x, m)
    BY <1>10, <2>2, NodeFact DEF IsStrictPrefix
  <2>4. \A k \in S : k \in path
    BY <1>3, <1>5, <1>6
  <2>5. IsPrefix(x, n)
    <3>1. IsPrefix(m, n)
      BY <1>2, <2>3, <2>4 DEF PathTo
    <3> QED
      BY <1>4, <2>1, <2>3, <3>1, PrefixTrans
  <2>6. x \in path /\ x # n /\ x \in above
    BY <1>2, <1>3, <1>6, <2>5 DEF PathTo
  <2>7. Exposed(x)
    <3>1. ASSUME NEW k \in Names(t), IsPrefix(x, k) PROVE k \in path
      BY <1>10, <2>4, <2>6, <3>1 DEF IsStrictPrefix
    <3> QED
      BY <1>10, <3>1
  <2>8. ASSUME NEW b \in above, Len(b) >= Len(x) PROVE Exposed(b)
    <3>1. CASE b = x
      BY <2>7, <3>1
    <3>2. CASE b # x
      <4>1. IsPrefix(x, b)
        BY <1>4, <1>5, <2>1, <2>5, <2>8, PrefixChain
      <4>2. b \in S
        BY <1>5, <1>10, <3>2, <4>1 DEF IsStrictPrefix
      <4> QED
        BY <1>5, <1>7, <4>2
    <3> QED
      BY <3>1, <3>2
  <2>9. x \in S
    BY <1>3, <2>6, <2>8
  <2> QED
    BY <2>9
<1>11. \A x \in S : \A m \in Names(t) : IsPrefix(x, m) => m \in S
  BY <1>9
<1>12. \A x \in Names(t) \ S : Unheld(t, x) =>
          \E m \in Names(t) \ S : IsStrictPrefix(x, m) \/ (x = m /\ IsLeaf(t, x))
  BY <1>10
<1> QED
  BY <1>8, <1>11, <1>12

(* A leaf that nobody holds leaves both pools.                             *)
LEMMA EvictLeafFact ==
    ASSUME NEW T, NEW P, NEW t, NEW U, NEW h, TreeOK(t, T, P, U, h),
           U \subseteq DOMAIN h, IsFiniteSet(U), NEW n \in FullVictims(t),
           NEW d, d = EvictLeaf(t, n).tree
    PROVE  TreeOK(d, T, P, U, h)
<1>1. /\ SwaTyped(t, P) /\ IsTree(Core(t), T, P) /\ Accounted(Core(t), U, NodesOf(h))
      /\ \A v \in U : HandleMarked(t, h[v])
      /\ MarksDiffer(t) /\ SwaRefsExact(t, U, h) /\ SwaCountersExact(t) /\ LeavesLive(t)
  BY DEF TreeOK, WindowsExact
<1>2. PICK S : S = Unlinked(t, n)
  OBVIOUS
<1>3. /\ S \in SUBSET Names(t) /\ \A x \in S : t.nodes[x].ref = 0
      /\ \A x \in S : \A m \in Names(t) : IsPrefix(x, m) => m \in S
      /\ \A x \in Names(t) \ S : Unheld(t, x) =>
            \E m \in Names(t) \ S : IsStrictPrefix(x, m) \/ (x = m /\ IsLeaf(t, x))
  <2>1. n \in Names(t) /\ FreeLeaf(t, n)
    BY DEF FullVictims
  <2> QED
    BY <1>1, <1>2, <2>1, UnlinkedFact
<1>4. PICK L : L = {x \in S : Live(t, x)}
  OBVIOUS
<1>5. PICK nodes : nodes = [x \in Names(t) \ S |-> t.nodes[x]]
  OBVIOUS
<1>6. PICK a : a = t.evictable - TotalLength(t, S)
  OBVIOUS
<1>7. PICK c : c = t.swaEvictable - TotalLength(t, L)
  OBVIOUS
<1>8. d = [nodes |-> nodes, evictable |-> a, protected |-> t.protected,
           swaEvictable |-> c, swaProtected |-> t.swaProtected]
  <2>1. d = WithoutNodes(t, S)
    BY <1>2 DEF EvictLeaf
  <2>2. LiveLength(t, S) = TotalLength(t, L)
    BY <1>4 DEF LiveLength
  <2>3. d = [t EXCEPT !.nodes = nodes, !.evictable = @ - TotalLength(t, S),
                      !.swaEvictable = @ - TotalLength(t, L)]
    BY <1>5, <2>1, <2>2, Zenon DEF WithoutNodes
  <2>4. t = [nodes |-> t.nodes, evictable |-> t.evictable, protected |-> t.protected,
             swaEvictable |-> t.swaEvictable, swaProtected |-> t.swaProtected]
    BY <1>1 DEF SwaTyped
  <2> QED
    BY <1>6, <1>7, <2>3, <2>4
<1>9. /\ d.nodes = nodes /\ d.evictable = a /\ d.protected = t.protected
      /\ d.swaEvictable = c /\ d.swaProtected = t.swaProtected
  BY <1>8
<1>10. /\ Names(d) = Names(t) \ S /\ nodes = [x \in Names(d) |-> nodes[x]]
       /\ \A x \in Names(d) : d.nodes[x] = t.nodes[x]
  <2>1. /\ DOMAIN nodes = Names(t) \ S /\ nodes = [x \in DOMAIN nodes |-> nodes[x]]
        /\ \A x \in Names(t) \ S : nodes[x] = t.nodes[x]
    BY <1>5
  <2> QED
    BY <1>9, <2>1 DEF Names
<1>11. SwaTyped(d, P)
  <2>1. \A x \in Names(t) : t.nodes[x] \in SwaNode(P)
    BY <1>1 DEF SwaTyped, SwaNode
  <2>2. \A x \in Names(d) : d.nodes[x] \in SwaNode(P)
    BY <1>10, <2>1
  <2>3. d.nodes \in [Names(d) -> SwaNode(P)]
    BY <1>9, <1>10, <2>2
  <2> QED
    BY <1>8, <1>9, <2>3 DEF SwaTyped, SwaNode
<1>12. PICK f : f = Core(t)
  OBVIOUS
<1>13. Core(d) = Evict(f, S)
  <2>1. /\ Names(f) = Names(t) /\ f.evictable = t.evictable /\ f.protected = t.protected
        /\ \A x \in Names(t) : f.nodes[x] = [pages |-> t.nodes[x].pages, ref |-> t.nodes[x].ref]
        /\ f = [nodes |-> f.nodes, evictable |-> f.evictable, protected |-> f.protected]
    BY <1>12, CoreFact DEF Core
  <2>2. PICK q : q = TotalLength(f, S)
    OBVIOUS
  <2>3. q = TotalLength(t, S)
    BY <1>3, <1>12, <2>2, CoreFact
  <2>4. PICK m : m = [x \in Names(f) \ S |-> f.nodes[x]]
    OBVIOUS
  <2>5. Evict(f, S) = [f EXCEPT !.nodes = m, !.evictable = @ - q]
    BY <2>2, <2>4, Zenon DEF Evict
  <2>6. Evict(f, S) = [nodes |-> m, evictable |-> f.evictable - q, protected |-> f.protected]
    BY <2>1, <2>5
  <2>7. m = [x \in Names(d) |-> [pages |-> d.nodes[x].pages, ref |-> d.nodes[x].ref]]
    BY <1>10, <2>1, <2>4
  <2>8. Core(d) = [nodes |-> m, evictable |-> a, protected |-> t.protected]
    BY <1>9, <2>7, Zenon DEF Core
  <2> QED
    BY <1>6, <2>1, <2>3, <2>6, <2>8, Zenon
<1>14. /\ IsTree(Core(d), T, P) /\ Accounted(Core(d), U, NodesOf(h))
  <2>1. /\ Names(f) = Names(t) /\ IsTree(f, T, P) /\ Accounted(f, U, NodesOf(h))
        /\ \A x \in Names(t) : f.nodes[x].ref = t.nodes[x].ref
    BY <1>1, <1>12, CoreFact
  <2>2. S \in SUBSET Evictable(f)
    BY <1>3, <2>1 DEF Evictable
  <2>3. LeavesFirst(f, S)
    BY <1>3, <2>1 DEF LeavesFirst
  <2>4. IsTree(Core(d), T, P)
    BY <1>3, <1>13, <2>1, <2>3, EvictTree
  <2>5. Accounted(Core(d), U, NodesOf(h))
    BY <1>13, <2>1, <2>2, EvictAccounted
  <2> QED
    BY <2>4, <2>5
<1>15. MarksDiffer(d)
  BY <1>1, <1>10 DEF MarksDiffer
<1>16. ASSUME NEW v \in U
       PROVE  /\ HandleMarked(d, h[v]) /\ WindowOf(d, h[v]) = WindowOf(t, h[v])
  <2>1. PICK hv : hv = h[v]
    OBVIOUS
  <2>2. HandleMarked(t, hv) /\ hv.node \in Names(t) \cup {<< >>}
    BY <1>1, <2>1, HandleNode
  <2>3. \A x \in PathTo(t, hv.node) : x \in Names(d) /\ d.nodes[x] = t.nodes[x]
    <3> TAKE x \in PathTo(t, hv.node)
    <3>1. x \in Names(t) /\ t.nodes[x].ref > 0
      BY <2>1, HeldPath
    <3> QED
      BY <1>3, <1>10, <3>1
  <2>4. PathTo(d, hv.node) = PathTo(t, hv.node)
    BY <1>10, <2>3 DEF PathTo
  <2>5. \A x \in PathTo(t, hv.node) : hv.uuid # 0 =>
           (d.nodes[x].uuid = hv.uuid <=> t.nodes[x].uuid = hv.uuid)
    BY <2>3
  <2>6. \A x \in PathTo(t, hv.node) : Live(d, x) => Live(t, x)
    BY <2>3 DEF Live
  <2>7. \A x \in WindowOf(t, hv) : Live(d, x)
    BY <2>3 DEF WindowOf, Live
  <2>8. hv.node # << >> => Live(d, hv.node)
    <3>1. ASSUME hv.node # << >> PROVE Live(d, hv.node)
      <4>1. hv.node \in Names(t) /\ hv.node \in Seq(T)
        BY <1>1, <2>2, <3>1, NodeFact
      <4>2. hv.node \in PathTo(t, hv.node)
        BY <4>1, PrefixRefl DEF PathTo
      <4> QED
        BY <2>2, <2>3, <3>1, <4>2 DEF HandleMarked, Live
    <3> QED
      BY <3>1
  <2>9. /\ WindowOf(d, hv) = WindowOf(t, hv)
        /\ HandleMarked(t, hv) /\ (hv.node # << >> => Live(d, hv.node)) => HandleMarked(d, hv)
    BY <2>4, <2>5, <2>6, <2>7, WindowKept
  <2> QED
    BY <2>1, <2>2, <2>8, <2>9
<1>17. \A x \in Names(d) : WindowUsers(d, x, U, h) = WindowUsers(t, x, U, h)
  BY <1>16 DEF WindowUsers
<1>18. SwaRefsExact(d, U, h)
  BY <1>1, <1>10, <1>17 DEF SwaRefsExact
<1>19. SwaCountersExact(d)
  <2>1. PICK N : N = Names(t)
    OBVIOUS
  <2>2. PICK A \in SUBSET N : A = LiveAt(t, N, FALSE)
    BY DEF LiveAt
  <2>3. PICK B \in SUBSET N : B = LiveAt(t, N, TRUE)
    BY DEF LiveAt
  <2>4. \A x \in S : t.nodes[x].swaRef = 0
    BY <1>3, FreeWindow
  <2>5. PICK M : M = Names(d)
    OBVIOUS
  <2>6. LiveAt(d, M, FALSE) = A \ L /\ L \in SUBSET A /\ LiveAt(d, M, TRUE) = B
    <3>1. \A x \in N : /\ x \in M <=> x \notin S
                       /\ x \in M => d.nodes[x] = t.nodes[x]
                       /\ x \in L <=> x \in S /\ Live(t, x)
      BY <1>3, <1>4, <1>10, <2>1, <2>5
    <3>2. L \in SUBSET A
      BY <1>3, <1>4, <2>1, <2>2, <2>4 DEF LiveAt
    <3>3. M \in SUBSET N
      BY <1>10, <2>1, <2>5
    <3>4. \A x \in N : /\ x \in LiveAt(d, M, FALSE) <=> x \in A /\ x \notin L
                       /\ x \in LiveAt(d, M, TRUE) <=> x \in B
      BY <2>2, <2>3, <2>4, <3>1 DEF LiveAt, Live
    <3>5. LiveAt(d, M, FALSE) \in SUBSET N /\ LiveAt(d, M, TRUE) \in SUBSET N
      BY <3>3 DEF LiveAt
    <3> QED
      BY <3>2, <3>4, <3>5
  <2>7. TotalLength(t, A \ L) = TotalLength(t, A) - TotalLength(t, L)
    <3>1. {} \in SUBSET Names(t) /\ L \cap {} = {}
      OBVIOUS
    <3> QED
      BY <1>1, <2>1, <2>6, <3>1, TotalMoved
  <2>8. TotalLength(d, A \ L) = TotalLength(t, A \ L) /\ TotalLength(d, B) = TotalLength(t, B)
    <3>1. A \ L \in SUBSET M /\ B \in SUBSET M
      BY <2>6 DEF LiveAt
    <3>2. \A x \in M : Len(d.nodes[x].pages) = Len(t.nodes[x].pages)
      BY <1>10, <2>5
    <3>3. \A x \in A \ L : Len(d.nodes[x].pages) = Len(t.nodes[x].pages)
      BY <3>1, <3>2
    <3>4. \A x \in B : Len(d.nodes[x].pages) = Len(t.nodes[x].pages)
      BY <3>1, <3>2
    <3> QED
      BY <3>3, <3>4, SizeSame
  <2>9. t.swaEvictable = TotalLength(t, A) /\ t.swaProtected = TotalLength(t, B)
    BY <1>1, <2>1, <2>2, <2>3, SwaCountersAre
  <2>10. d.swaEvictable = TotalLength(d, LiveAt(d, M, FALSE))
    BY <1>7, <1>9, <2>6, <2>7, <2>8, <2>9, Zenon
  <2>11. d.swaProtected = TotalLength(d, LiveAt(d, M, TRUE))
    BY <1>9, <2>6, <2>8, <2>9, Zenon
  <2>12. SwaCountersExact(d) <=>
           /\ d.swaEvictable = TotalLength(d, LiveAt(d, Names(d), FALSE))
           /\ d.swaProtected = TotalLength(d, LiveAt(d, Names(d), TRUE))
    BY <1>11, SwaCountersAre, Zenon
  <2> QED
    BY <2>5, <2>10, <2>11, <2>12, Zenon
<1>20. LeavesLive(d)
  <2>1. ASSUME NEW x \in Names(d), FreeLeaf(d, x), ~ Live(d, x) PROVE FALSE
    <3>1. x \in Names(t) \ S /\ d.nodes[x] = t.nodes[x]
      BY <1>10, <2>1
    <3>2. Unheld(t, x)
      BY <2>1, <3>1 DEF FreeLeaf, Unheld, Live
    <3>3. PICK m \in Names(t) \ S : IsStrictPrefix(x, m) \/ (x = m /\ IsLeaf(t, x))
      BY <1>3, <3>1, <3>2
    <3>4. ~ IsStrictPrefix(x, m)
      BY <1>10, <2>1 DEF FreeLeaf, IsLeaf
    <3>5. FreeLeaf(t, x)
      BY <3>2, <3>3, <3>4 DEF FreeLeaf, Unheld
    <3> QED
      BY <1>1, <3>1, <3>2, <3>5 DEF LeavesLive, Unheld
  <2> QED
    BY <2>1 DEF LeavesLive
<1> QED
  BY <1>11, <1>14, <1>15, <1>16, <1>18, <1>19, <1>20 DEF TreeOK, WindowsExact

LEMMA EvictWindowFact ==
    ASSUME NEW T, NEW P, NEW t, NEW U, NEW h, TreeOK(t, T, P, U, h),
           U \subseteq DOMAIN h, IsFiniteSet(U), NEW n \in SwaVictims(t),
           NEW d, d = EvictWindow(t, n).tree
    PROVE  TreeOK(d, T, P, U, h)
<1>1. n \in Names(t) /\ Live(t, n) /\ t.nodes[n].swaRef = 0
  BY DEF SwaVictims
<1>2. CASE FreeLeaf(t, n)
  <2>1. n \in FullVictims(t)
    BY <1>1, <1>2 DEF FullVictims
  <2>2. d = EvictLeaf(t, n).tree
    BY <1>2 DEF EvictWindow
  <2> QED
    BY <2>1, <2>2, EvictLeafFact
<1>3. CASE ~ FreeLeaf(t, n)
  <2>1. d = Tombstoned(t, {n})
    BY <1>3 DEF EvictWindow
  <2>2. PICK S : S = {n}
    OBVIOUS
  <2>3. S \in SUBSET Names(t)
    BY <1>1, <2>2
  <2>4. \A x \in S : Live(t, x) /\ t.nodes[x].swaRef = 0 /\ ~ FreeLeaf(t, x)
    BY <1>1, <1>3, <2>2
  <2>5. d = Tombstoned(t, S)
    BY <2>1, <2>2
  <2> QED
    BY <2>3, <2>4, <2>5, TombstonedFact
<1> QED
  BY <1>2, <1>3

LEMMA TrimHeadFact ==
    ASSUME NEW T, NEW P, NEW t, NEW U, NEW h, TreeOK(t, T, P, U, h),
           U \subseteq DOMAIN h, IsFiniteSet(U), NEW s \in Seq(T),
           NEW k \in Nat, k <= Len(s),
           NEW d, d = TrimHead(t, s, k).tree
    PROVE  TreeOK(d, T, P, U, h)
<1>1. PICK head : head = SubSeq(s, 1, k)
  OBVIOUS
<1>2. PICK cut : cut = Match(t, head).tree
  OBVIOUS
<1>3. PICK S : S = {n \in PathTo(cut, head) : /\ Live(cut, n) /\ cut.nodes[n].swaRef = 0
                                              /\ ~ IsLeaf(cut, n)}
  OBVIOUS
<1>4. TrimHead(t, s, k) = [tree |-> Tombstoned(cut, S), swa |-> SlotsOf(cut, S)]
  BY <1>1, <1>2, <1>3, Zenon DEF TrimHead
<1>5. d = Tombstoned(cut, S)
  BY <1>4
<1>6. TreeOK(cut, T, P, U, h)
  <2>1. head \in Seq(T)
    BY <1>1, HeadFact
  <2> QED
    BY <1>2, <2>1, MatchFact
<1>7. S \in SUBSET Names(cut)
  BY <1>3 DEF PathTo
<1>8. \A n \in S : Live(cut, n) /\ cut.nodes[n].swaRef = 0 /\ ~ FreeLeaf(cut, n)
  BY <1>3 DEF FreeLeaf
<1> QED
  BY <1>5, <1>6, <1>7, <1>8, TombstonedFact

-----------------------------------------------------------------------------
(* The cache manager: requests, pools and batches.                         *)

LEMMA SlotsFact == IsFiniteSet(Slots) /\ Slots \in SUBSET Nat
<1>1. 1 \in Int /\ NumSlots \in Int
  BY SwaCacheAssumption
<1>2. IsFiniteSet(1 .. NumSlots)
  BY <1>1, FS_Interval
<1> QED
  BY <1>1, <1>2 DEF Slots

LEMMA ActiveFact == Active \in SUBSET Uids /\ IsFiniteSet(Active)
<1>1. Active \in SUBSET Uids
  BY DEF Active
<1> QED
  BY <1>1, SwaCacheAssumption, FS_Subset

LEMMA TextFact ==
    ASSUME NEW u \in Uids
    PROVE  /\ Text[u] \in Seq(Tokens) /\ Len(Text[u]) \in Nat
           /\ PromptLen[u] \in Nat \ {0} /\ PromptLen[u] <= Len(Text[u])
<1>1. Text[u] \in Seq(Tokens) /\ PromptLen[u] \in 1 .. Len(Text[u])
  BY SwaCacheAssumption
<1>2. Len(Text[u]) \in Nat
  BY <1>1, LenProperties
<1> QED
  BY <1>1, <1>2

LEMMA RequestFact ==
    ASSUME TypeOK, Progress, NEW u \in Uids
    PROVE  /\ cached[u] \in Nat /\ gone[u] \in Int /\ cached[u] <= Len(Text[u])
           /\ handle[u].node \in Seq(Tokens) /\ Held(u) \in Nat
           /\ row[u] \in Seq(Slots) /\ Len(row[u]) = cached[u]
<1>1. handle[u] \in Handles
  BY DEF TypeOK
<1>2. handle[u].node \in Seq(Tokens)
  BY <1>1 DEF Handles
<1>3. Len(handle[u].node) \in Nat
  BY <1>2, LenProperties
<1> QED
  BY <1>2, <1>3 DEF TypeOK, Progress, Held

LEMMA FreeSwaFact ==
    ASSUME IsFiniteSet(mapped), swaFree \in Nat, NEW S, FreeSwa(S)
    PROVE  IsFiniteSet(mapped') /\ swaFree' \in Nat
<1>1. mapped' = mapped \ S /\ swaFree' = swaFree + Cardinality(S \cap mapped)
  BY DEF FreeSwa
<1>2. IsFiniteSet(S \cap mapped) /\ IsFiniteSet(mapped \ S)
  BY FS_Subset
<1>3. Cardinality(S \cap mapped) \in Nat
  BY <1>2, CardinalNat
<1> QED
  BY <1>1, <1>2, <1>3

LEMMA SwaEvictableFact ==
    ASSUME NEW T, NEW P, NEW t, NEW U, NEW h, TreeOK(t, T, P, U, h)
    PROVE  t.swaEvictable \in Nat
<1>1. SwaTyped(t, P) /\ IsTree(Core(t), T, P) /\ SwaCountersExact(t)
  BY DEF TreeOK, WindowsExact
<1>2. PICK S \in SUBSET Names(t) : t.swaEvictable = TotalLength(t, S)
  <2>1. {n \in Names(t) : Live(t, n) /\ t.nodes[n].swaRef = 0} \in SUBSET Names(t)
    OBVIOUS
  <2> QED
    BY <1>1, <2>1 DEF SwaCountersExact
<1> QED
  BY <1>1, <1>2, TotalFact

LEMMA ChunkEndFact ==
    ASSUME NEW u \in Uids, NEW from \in Nat, from <= PromptLen[u], swaFree \in Nat,
           NEW t, t.swaEvictable \in Nat, NEW reclaim \in Nat,
           NEW e, e = ChunkEnd(u, from, t, reclaim)
    PROVE  e \in Nat /\ from <= e /\ e <= PromptLen[u]
<1>1. PromptLen[u] \in Nat /\ PrefillBudget \in Nat
  BY TextFact, SwaCacheAssumption
<1>2. PICK a \in Nat : a = PromptLen[u] - from
  BY <1>1
<1>3. PICK b \in Nat : b = SwaAvailable(t) + reclaim
  BY DEF SwaAvailable
<1>4. PICK c \in Nat : c = PrefillBudget
  BY <1>1
<1>5. PICK k : k = Min({c, a, b})
  OBVIOUS
<1>6. k \in Nat /\ k <= a
  <2>1. \E x \in {c, a, b} : \A y \in {c, a, b} : x <= y
    OBVIOUS
  <2>2. k \in {c, a, b} /\ \A y \in {c, a, b} : k <= y
    BY <1>5, <2>1 DEF Min
  <2> QED
    BY <2>2
<1>7. e = from + k
  BY <1>2, <1>3, <1>4, <1>5, Zenon DEF ChunkEnd
<1> QED
  BY <1>1, <1>2, <1>6, <1>7

(* The slots a match finds are those of the core of the tree.              *)
LEMMA MatchedOf ==
    ASSUME NEW T, NEW P, NEW t, IsTree(Core(t), T, P), NEW n \in Names(t) \cup {<< >>},
           NEW l, l = MatchedIndices(t, n)
    PROVE  l \in Seq(P) /\ Len(l) = Len(n)
<1>1. PICK c : c = Core(t)
  OBVIOUS
<1>2. /\ IsTree(c, T, P) /\ Names(c) = Names(t)
      /\ \A x \in Names(t) : c.nodes[x].pages = t.nodes[x].pages
      /\ \A x : Parent(c, x) = Parent(t, x)
      /\ \A x : PathTo(c, x) = PathTo(t, x)
  BY <1>1, CoreFact
<1>3. n \in Seq(T) /\ FullPages(n) = Len(n) /\ Len(n) \in Nat
  <2>1. n \in Seq(T)
    BY RootOrNode
  <2> QED
    BY <2>1, PagesAreTokens
<1>4. PICK w : w = MatchedIndices(c, n)
  OBVIOUS
<1>5. /\ w \in Seq(P) /\ Len(w) = FullPages(n)
      /\ \A i \in 1 .. FullPages(n) : UpTo(n, i) \in Keys(c)
  BY <1>2, <1>4, MatchedFact
<1>6. ASSUME NEW i \in 1 .. FullPages(n)
      PROVE  NodeAt(t, n, i) = NodeAt(c, n, i) /\ NodeAt(c, n, i) \in Names(t)
  <2>1. NodeAt(t, n, i) = NodeAt(c, n, i)
    BY <1>2 DEF NodeAt
  <2>2. PICK k : k = UpTo(n, i)
    OBVIOUS
  <2>3. i \in Nat /\ i <= FullPages(n) /\ k \in Keys(c)
    BY <1>3, <1>5, <2>2
  <2>4. IsPrefix(k, n) /\ FullPages(k) = i /\ k # << >>
    BY <1>3, <2>2, <2>3, UpToPrefix
  <2>5. PICK x \in Names(c) : /\ IsLeast(c, k, x)
                              /\ FullPages(Parent(c, x)) < FullPages(k)
                              /\ FullPages(k) <= FullPages(x)
    BY <1>2, <2>3, LeastFact
  <2>6. x \in PathTo(c, n)
    <3>1. n # << >>
      BY <1>3, <2>3, EmptySeq
    <3>2. n \in Names(c)
      BY <1>2, <3>1
    <3> QED
      BY <2>4, <2>5, <3>2 DEF IsLeast, PathTo
  <2>7. i \in FullPages(Parent(c, x)) + 1 .. FullPages(x)
    <3>1. x \in Seq(T) /\ Parent(c, x) \in Seq(T)
      BY <1>2, <2>5, NodeFact
    <3>2. FullPages(x) \in Nat /\ FullPages(Parent(c, x)) \in Nat
      BY <3>1, PagesAreTokens
    <3> QED
      BY <2>3, <2>4, <2>5, <3>2
  <2>8. NodeAt(c, n, i) \in PathTo(c, n)
    BY <2>6, <2>7 DEF NodeAt
  <2> QED
    BY <1>2, <2>1, <2>8 DEF PathTo
<1>7. l = w
  <2>1. l = [i \in 1 .. FullPages(n) |->
               t.nodes[NodeAt(t, n, i)].pages[i - FullPages(Parent(t, NodeAt(t, n, i)))]]
    BY DEF MatchedIndices
  <2>2. w = [i \in 1 .. FullPages(n) |->
               c.nodes[NodeAt(c, n, i)].pages[i - FullPages(Parent(c, NodeAt(c, n, i)))]]
    BY <1>4 DEF MatchedIndices
  <2>3. ASSUME NEW i \in 1 .. FullPages(n)
        PROVE  t.nodes[NodeAt(t, n, i)].pages[i - FullPages(Parent(t, NodeAt(t, n, i)))]
                 = c.nodes[NodeAt(c, n, i)].pages[i - FullPages(Parent(c, NodeAt(c, n, i)))]
    <3>1. PICK x \in Names(t) : x = NodeAt(c, n, i)
      BY <1>6
    <3>2. NodeAt(t, n, i) = x
      BY <1>6, <3>1
    <3>3. c.nodes[x].pages = t.nodes[x].pages /\ Parent(c, x) = Parent(t, x)
      BY <1>2
    <3> QED
      BY <3>1, <3>2, <3>3, Zenon
  <2> QED
    BY <2>1, <2>2, <2>3
<1> QED
  BY <1>3, <1>5, <1>7

(* IInv implies the property.                                              *)
LEMMA AccountsFromIInv == ASSUME IInv PROVE SwaAccountsExact
<1>1. PICK t : t = tree
  OBVIOUS
<1>2. PICK U : U = Active
  OBVIOUS
<1>3. PICK h : h = handle
  OBVIOUS
<1>4. TreeOK(t, Tokens, Slots, U, h) /\ IsFiniteSet(U)
  BY <1>1, <1>2, <1>3, ActiveFact DEF IInv
<1>5. U \subseteq DOMAIN h
  BY <1>2, <1>3, ActiveFact DEF IInv, TypeOK
<1>6. /\ SwaTyped(t, Slots) /\ IsTree(Core(t), Tokens, Slots)
      /\ Accounted(Core(t), U, NodesOf(h))
      /\ SwaRefsExact(t, U, h) /\ SwaCountersExact(t) /\ LeavesLive(t)
  BY <1>4 DEF TreeOK, WindowsExact
<1>7. PICK N : N = Names(t)
  OBVIOUS
<1>8. /\ t.evictable = TotalLength(t, {n \in N : t.nodes[n].ref = 0})
      /\ t.protected = TotalLength(t, {n \in N : t.nodes[n].ref > 0})
  <2>1. PICK c : c = Core(t)
    OBVIOUS
  <2>2. /\ Names(c) = N /\ c.evictable = t.evictable /\ c.protected = t.protected
        /\ \A n \in N : c.nodes[n].ref = t.nodes[n].ref
        /\ \A S \in SUBSET N : TotalLength(c, S) = TotalLength(t, S)
    BY <1>7, <2>1, CoreFact
  <2>3. CountersExact(c)
    BY <1>6, <2>1 DEF Accounted
  <2>4. c.evictable = TotalLength(c, Evictable(c)) /\ c.protected = TotalLength(c, N \ Evictable(c))
    BY <2>2, <2>3 DEF CountersExact
  <2>5. \A n \in N : t.nodes[n].ref \in Nat
    BY <1>6, <1>7, NodeFact
  <2>6. PICK A \in SUBSET N : A = {n \in N : t.nodes[n].ref = 0}
    OBVIOUS
  <2>7. PICK B \in SUBSET N : B = {n \in N : t.nodes[n].ref > 0}
    OBVIOUS
  <2>8. Evictable(c) = A /\ N \ Evictable(c) = B
    BY <2>2, <2>5, <2>6, <2>7 DEF Evictable
  <2>9. t.evictable = TotalLength(t, A) /\ t.protected = TotalLength(t, B)
    BY <2>2, <2>4, <2>8
  <2> QED
    BY <2>6, <2>7, <2>9, Zenon
<1>9. /\ t.swaEvictable = TotalLength(t, {n \in {m \in N : Live(t, m)} : t.nodes[n].swaRef = 0})
      /\ t.swaProtected = TotalLength(t, {n \in {m \in N : Live(t, m)} : t.nodes[n].swaRef > 0})
  <2>1. /\ {n \in {m \in N : Live(t, m)} : t.nodes[n].swaRef = 0}
              = {n \in N : Live(t, n) /\ t.nodes[n].swaRef = 0}
        /\ {n \in {m \in N : Live(t, m)} : t.nodes[n].swaRef > 0}
              = {n \in N : Live(t, n) /\ t.nodes[n].swaRef > 0}
    OBVIOUS
  <2> QED
    BY <1>6, <1>7, <2>1 DEF SwaCountersExact
<1>10. ASSUME NEW n \in N
       PROVE  /\ t.nodes[n].ref = Cardinality({u \in U : IsPrefix(n, h[u].node)})
              /\ t.nodes[n].swaRef \in 0 .. t.nodes[n].ref
              /\ n \notin {m \in N : Live(t, m)} => t.nodes[n].swaRef = 0 /\ ~ FreeLeaf(t, n)
  <2>1. PICK A : A = {u \in U : IsPrefix(n, h[u].node)}
    OBVIOUS
  <2>2. PICK B : B = WindowUsers(t, n, U, h)
    OBVIOUS
  <2>3. t.nodes[n].swaRef = Cardinality(B)
    BY <1>6, <1>7, <2>2 DEF SwaRefsExact
  <2>4. t.nodes[n].ref = Cardinality(A)
    <3>1. Users(n, U, NodesOf(h)) = A
      BY <1>5, <2>1 DEF Users, NodesOf
    <3>2. Core(t).nodes[n].ref = Cardinality(Users(n, U, NodesOf(h)))
      BY <1>6, <1>7, CoreFact DEF Accounted, RefsExact
    <3>3. Core(t).nodes[n].ref = t.nodes[n].ref
      BY <1>7, CoreFact
    <3> QED
      BY <3>1, <3>2, <3>3
  <2>5. IsFiniteSet(A) /\ B \in SUBSET A
    <3>1. A \in SUBSET U
      BY <2>1
    <3>2. B \in SUBSET A
      BY <2>1, <2>2 DEF WindowUsers, WindowOf, PathTo
    <3> QED
      BY <1>4, <3>1, <3>2, FS_Subset
  <2>6. Cardinality(A) \in Nat /\ Cardinality(B) \in Nat /\ Cardinality(B) <= Cardinality(A)
    BY <2>5, FS_Subset, FS_CardinalityType
  <2>7. ASSUME ~ Live(t, n) PROVE t.nodes[n].swaRef = 0 /\ ~ FreeLeaf(t, n)
    <3>1. B = {}
      BY <2>2, <2>7 DEF WindowUsers, WindowOf
    <3>2. Cardinality(B) = 0
      BY <3>1, FS_EmptySet
    <3>3. ~ FreeLeaf(t, n)
      BY <1>6, <1>7, <2>7 DEF LeavesLive
    <3> QED
      BY <2>3, <3>2, <3>3
  <2> QED
    BY <2>1, <2>3, <2>4, <2>6, <2>7
<1>11. /\ tree.evictable = TotalLength(tree, {n \in Names(tree) : tree.nodes[n].ref = 0})
       /\ tree.protected = TotalLength(tree, {n \in Names(tree) : tree.nodes[n].ref > 0})
  BY <1>1, <1>7, <1>8, Zenon
<1>12. /\ tree.swaEvictable = TotalLength(tree,
              {n \in {m \in Names(tree) : Live(tree, m)} : tree.nodes[n].swaRef = 0})
       /\ tree.swaProtected = TotalLength(tree,
              {n \in {m \in Names(tree) : Live(tree, m)} : tree.nodes[n].swaRef > 0})
  BY <1>1, <1>7, <1>9, Zenon
<1>13. \A n \in Names(tree) :
         /\ tree.nodes[n].ref = Cardinality({u \in Active : IsPrefix(n, handle[u].node)})
         /\ tree.nodes[n].swaRef \in 0 .. tree.nodes[n].ref
         /\ n \notin {m \in Names(tree) : Live(tree, m)} =>
               tree.nodes[n].swaRef = 0 /\ ~ FreeLeaf(tree, n)
  <2> TAKE n \in Names(tree)
  <2>1. n \in N
    BY <1>1, <1>7, Zenon
  <2>2. /\ t.nodes[n].ref = Cardinality({u \in U : IsPrefix(n, h[u].node)})
        /\ t.nodes[n].swaRef \in 0 .. t.nodes[n].ref
        /\ n \notin {m \in N : Live(t, m)} => t.nodes[n].swaRef = 0 /\ ~ FreeLeaf(t, n)
    BY <1>10, <2>1
  <2> QED
    BY <1>1, <1>2, <1>3, <1>7, <2>2, Zenon
<1> QED
  BY <1>11, <1>12, <1>13, Zenon DEF SwaAccountsExact

LEMMA InitIInv == Init => IInv
<1> SUFFICES ASSUME Init PROVE IInv
  OBVIOUS
<1>1. \A T : << >> \in Seq(T) /\ Len(<< >>) = 0
  BY EmptySeq
<1>2. Active = {}
  BY DEF Init, Active
<1>3. TypeOK
  <2>1. NoHandle \in Handles
    BY <1>1 DEF NoHandle, Handles
  <2>2. handle \in [Uids -> Handles] /\ row \in [Uids -> Seq(Slots)]
    BY <1>1, <2>1 DEF Init
  <2>3. free \in SUBSET Slots /\ IsFiniteSet(mapped) /\ swaFree \in Nat /\ todo \in SUBSET Active
    BY SwaCacheAssumption, FS_EmptySet DEF Init
  <2>4. /\ status \in [Uids -> {"new", "active", "done"}]
        /\ cached \in [Uids -> Nat] /\ gone \in [Uids -> Int]
    BY DEF Init
  <2> QED
    BY <2>2, <2>3, <2>4 DEF TypeOK
<1>4. Progress
  <2>1. \A u \in Uids : Len(row[u]) = cached[u] /\ cached[u] <= Len(Text[u])
    BY <1>1, TextFact DEF Init
  <2>2. batch = << >> /\ todo = {}
    BY DEF Init
  <2>3. DOMAIN batch = {} /\ batch = [u \in DOMAIN batch |-> batch[u]]
    BY <2>2
  <2>4. Running = {}
    BY <1>2 DEF Running
  <2> QED
    BY <1>2, <2>1, <2>2, <2>3, <2>4 DEF Progress
<1>5. TreeOK(tree, Tokens, Slots, Active, handle)
  <2>1. PICK t : t = EmptySwaTree
    OBVIOUS
  <2>2. PICK h : h = handle
    OBVIOUS
  <2>3. PICK nothing : nothing = << >>
    OBVIOUS
  <2>4. t = [nodes |-> nothing, evictable |-> 0, protected |-> 0,
             swaEvictable |-> 0, swaProtected |-> 0]
    BY <2>1, <2>3, Zenon DEF EmptySwaTree
  <2>5. /\ t.nodes = nothing /\ t.evictable = 0 /\ t.protected = 0
        /\ t.swaEvictable = 0 /\ t.swaProtected = 0
    BY <2>4
  <2>6. Names(t) = {} /\ nothing = [n \in {} |-> nothing[n]]
    BY <2>3, <2>5 DEF Names
  <2>7. SwaTyped(t, Slots)
    <3>1. t.nodes \in [Names(t) -> SwaNode(Slots)]
      BY <2>5, <2>6
    <3> QED
      BY <2>4, <2>5, <3>1 DEF SwaTyped, SwaNode
  <2>8. PICK c : c = Core(t)
    OBVIOUS
  <2>9. Names(c) = {} /\ c.evictable = 0 /\ c.protected = 0
    BY <2>5, <2>6, <2>8, CoreFact
  <2>10. IsTree(c, Tokens, Slots)
    <3>1. c = [nodes |-> c.nodes, evictable |-> c.evictable, protected |-> c.protected]
      BY <2>8 DEF Core
    <3>2. IsFiniteSet(Names(c))
      BY <2>9, FS_EmptySet
    <3>3. c.nodes = [n \in Names(t) |-> [pages |-> t.nodes[n].pages, ref |-> t.nodes[n].ref]]
      BY <2>8 DEF Core
    <3>4. c.nodes \in [Names(c) -> [pages : Seq(Slots), ref : Nat]]
      BY <2>6, <2>9, <3>3
    <3>5. WellFormed(c, Tokens, Slots)
      BY <2>9, <3>1, <3>2, <3>4 DEF WellFormed
    <3>6. Keys(c) = {}
      BY <2>9 DEF Keys
    <3> QED
      BY <2>9, <3>5, <3>6 DEF IsTree, Segmented, Branching
  <2>11. Evictable(c) = {} /\ Names(c) \ Evictable(c) = {}
    BY <2>9 DEF Evictable
  <2>12. Accounted(c, {}, NodesOf(h))
    BY <2>9, <2>11, SizeEmpty DEF Accounted, CountersExact, RefsExact
  <2>13. SwaCountersExact(t)
    <3>1. LiveAt(t, Names(t), FALSE) = {} /\ LiveAt(t, Names(t), TRUE) = {}
      BY <2>6 DEF LiveAt
    <3>2. SwaCountersExact(t) <=>
            /\ t.swaEvictable = TotalLength(t, LiveAt(t, Names(t), FALSE))
            /\ t.swaProtected = TotalLength(t, LiveAt(t, Names(t), TRUE))
      BY <2>7, SwaCountersAre, Zenon
    <3>3. TotalLength(t, {}) = 0
      BY SizeEmpty
    <3> QED
      BY <2>5, <3>1, <3>2, <3>3, Zenon
  <2>14. WindowsExact(t, {}, h)
    BY <2>6, <2>13 DEF WindowsExact, MarksDiffer, SwaRefsExact, LeavesLive
  <2>15. TreeOK(t, Tokens, Slots, {}, h)
    BY <2>7, <2>8, <2>10, <2>12, <2>14, Zenon DEF TreeOK
  <2>16. tree = t
    BY <2>1 DEF Init
  <2> QED
    BY <1>2, <2>2, <2>15, <2>16, Zenon
<1> QED
  BY <1>3, <1>4, <1>5 DEF IInv

LEMMA HandleFact == ASSUME TypeOK PROVE Active \subseteq DOMAIN handle
  BY ActiveFact DEF TypeOK

LEMMA MatchReqFact ==
    ASSUME IInv, NEW u \in Uids, NEW r, r = MatchReq(u)
    PROVE  /\ TreeOK(r.tree, Tokens, Slots, Active, handle)
           /\ r.node \in Names(r.tree) \cup {<< >>} /\ r.node \in Seq(Tokens)
           /\ Len(r.node) \in Nat /\ Len(r.node) < PromptLen[u]
           /\ r.node # << >> => Live(r.tree, r.node)
<1>1. TreeOK(tree, Tokens, Slots, Active, handle) /\ Active \subseteq DOMAIN handle
  BY HandleFact DEF IInv
<1>2. PICK s : s = Take(Text[u], PromptLen[u] - 1)
  OBVIOUS
<1>3. s \in Seq(Tokens) /\ Len(s) = PromptLen[u] - 1 /\ PromptLen[u] \in Nat
  BY <1>2, TextFact, HeadFact DEF Take
<1>4. r = Match(tree, s)
  BY <1>2 DEF MatchReq
<1>5. /\ TreeOK(r.tree, Tokens, Slots, Active, handle)
      /\ r.node \in Names(r.tree) \cup {<< >>} /\ r.node \in Seq(Tokens)
      /\ IsPrefix(r.node, s)
      /\ r.node # << >> => Live(r.tree, r.node)
  BY <1>1, <1>3, <1>4, MatchFact
<1>6. Len(r.node) \in Nat /\ Len(r.node) <= Len(s)
  BY <1>3, <1>5, PrefixLen
<1> QED
  BY <1>3, <1>5, <1>6

LEMMA IncHandle ==
    ASSUME NEW T, NEW P, NEW t, NEW U, NEW h, TreeOK(t, T, P, U, h),
           NEW x \in Names(t) \cup {<< >>}, NEW r, r = IncLock(t, x)
    PROVE  \E i \in Nat : r.handle = [node |-> x, uuid |-> i]
<1>1. SwaTyped(t, P) /\ IsTree(Core(t), T, P)
  BY DEF TreeOK
<1>2. PICK W : W = WindowAt(t, x)
  OBVIOUS
<1>3. PICK E : E = EndsAt(t, x)
  OBVIOUS
<1>4. PICK i : i = r.handle.uuid
  OBVIOUS
<1>5. r.handle = [node |-> x, uuid |-> i] /\ i \in Nat
  BY <1>1, <1>2, <1>3, <1>4, IncNodes
<1> QED
  BY <1>5

LEMMA LockedFact ==
    ASSUME IInv, NEW u \in Uids, u \notin Active, NEW l, l = Locked(u),
           NEW g, Agree(Active, g, handle), g[u] = l.handle, Active \cup {u} \subseteq DOMAIN g
    PROVE  /\ TreeOK(l.tree, Tokens, Slots, Active \cup {u}, g)
           /\ l.handle \in Handles /\ l.handle.node = MatchReq(u).node
<1>1. PICK r : r = MatchReq(u)
  OBVIOUS
<1>2. PICK U : U = Active
  OBVIOUS
<1>3. PICK h : h = handle
  OBVIOUS
<1>4. /\ TreeOK(r.tree, Tokens, Slots, U, h)
      /\ r.node \in Names(r.tree) \cup {<< >>} /\ r.node \in Seq(Tokens)
      /\ r.node # << >> => Live(r.tree, r.node)
  BY <1>1, <1>2, <1>3, MatchReqFact
<1>5. /\ U \subseteq DOMAIN h /\ IsFiniteSet(U) /\ u \notin U /\ Agree(U, g, h)
      /\ U \cup {u} \subseteq DOMAIN g
  BY <1>2, <1>3, HandleFact, ActiveFact DEF IInv
<1>6. PICK t : t = r.tree
  OBVIOUS
<1>7. PICK x : x = r.node
  OBVIOUS
<1>8. /\ TreeOK(t, Tokens, Slots, U, h) /\ x \in Names(t) \cup {<< >>}
      /\ x # << >> => Live(t, x)
      /\ l = IncLock(t, x) /\ x \in Seq(Tokens)
  BY <1>1, <1>4, <1>6, <1>7 DEF Locked
<1>9. TreeOK(l.tree, Tokens, Slots, U \cup {u}, g)
  <2>1. g[u] = l.handle
    OBVIOUS
  <2> QED
    BY ONLY <1>5, <1>8, <2>1, IncLockFact
<1>10. PICK i \in Nat : l.handle = [node |-> x, uuid |-> i]
  BY ONLY <1>8, IncHandle
<1>11. l.handle \in Handles /\ l.handle.node = x
  BY <1>8, <1>10 DEF Handles
<1> QED
  BY <1>1, <1>2, <1>7, <1>9, <1>11

LEMMA RunningFact ==
    ASSUME IInv, NEW u \in Running
    PROVE  u \in Active /\ u \in Uids /\ ~ (cached[u] < PromptLen[u])
  BY ActiveFact DEF Running, Chunked

LEMMA AdmitIInv ==
    ASSUME IInv, NEW u \in Uids, Admit(u)
    PROVE  IInv'
<1>1. /\ TypeOK /\ Progress /\ TreeOK(tree, Tokens, Slots, Active, handle)
  BY DEF IInv
<1>2. /\ batch = << >> /\ todo = {} /\ status[u] = "new"
      /\ tree' = Locked(u).tree
      /\ handle' = [handle EXCEPT ![u] = Locked(u).handle]
      /\ row' = [row EXCEPT ![u] = MatchedIndices(tree', MatchReq(u).node)]
      /\ cached' = [cached EXCEPT ![u] = Len(MatchReq(u).node)]
      /\ batch' = [v \in {u} |-> ChunkEnd(u, Len(MatchReq(u).node), tree', 0)]
      /\ status' = [status EXCEPT ![u] = "active"]
      /\ UNCHANGED <<free, mapped, swaFree, todo, gone>>
  BY DEF Admit, CanTry, Scheduling
<1>3. u \notin Active /\ Active' = Active \cup {u}
  BY <1>1, <1>2 DEF Active, TypeOK
<1>4. PICK n : n = MatchReq(u).node
  OBVIOUS
<1>5. n \in Seq(Tokens) /\ Len(n) \in Nat /\ Len(n) < PromptLen[u]
  BY <1>4, MatchReqFact
<1>6. PICK l : l = Locked(u)
  OBVIOUS
<1>7. PICK g : g = handle'
  OBVIOUS
<1>8. g[u] = l.handle /\ Agree(Active, g, handle) /\ Active \cup {u} \subseteq DOMAIN g
  BY <1>1, <1>2, <1>3, <1>6, <1>7, ActiveFact DEF TypeOK, Agree
<1>9. /\ TreeOK(l.tree, Tokens, Slots, Active \cup {u}, g)
      /\ l.handle \in Handles /\ l.handle.node = n
  BY <1>3, <1>4, <1>6, <1>8, LockedFact
<1>10. PICK d : d = tree'
  OBVIOUS
<1>11. TreeOK(d, Tokens, Slots, Active', g)
  BY <1>2, <1>3, <1>6, <1>9, <1>10, Zenon
<1>12. PICK w : w = MatchedIndices(d, n)
  OBVIOUS
<1>13. w \in Seq(Slots) /\ Len(w) = Len(n)
  <2>1. PICK U : U = Active \cup {u}
    OBVIOUS
  <2>2. u \in U /\ U \subseteq DOMAIN g /\ TreeOK(d, Tokens, Slots, U, g)
    BY <1>3, <1>8, <1>11, <2>1
  <2>3. g[u].node \in Names(d) \cup {<< >>}
    BY ONLY <2>2, HandleNode
  <2>4. n \in Names(d) \cup {<< >>} /\ IsTree(Core(d), Tokens, Slots)
    BY <1>8, <1>9, <2>2, <2>3 DEF TreeOK
  <2> QED
    BY ONLY <1>12, <2>4, MatchedOf
<1>14. PICK e : e = ChunkEnd(u, Len(n), d, 0)
  OBVIOUS
<1>15. e \in Nat /\ Len(n) <= e /\ e <= PromptLen[u]
  <2>1. d.swaEvictable \in Nat
    BY ONLY <1>11, SwaEvictableFact
  <2>2. swaFree \in Nat /\ 0 \in Nat /\ Len(n) <= PromptLen[u]
    BY <1>1, <1>5, TextFact DEF TypeOK
  <2>3. PICK from \in Nat : from = Len(n)
    BY <1>5
  <2> QED
    BY <1>14, <2>1, <2>2, <2>3, ChunkEndFact
<1>16. /\ handle' = [handle EXCEPT ![u] = l.handle] /\ row' = [row EXCEPT ![u] = w]
       /\ cached' = [cached EXCEPT ![u] = Len(n)] /\ batch' = [v \in {u} |-> e]
  BY <1>2, <1>4, <1>6, <1>10, <1>12, <1>14, Zenon
<1>17. TypeOK'
  <2>1. /\ status' \in [Uids -> {"new", "active", "done"}] /\ cached' \in [Uids -> Nat]
        /\ handle' \in [Uids -> Handles] /\ row' \in [Uids -> Seq(Slots)]
    BY <1>1, <1>2, <1>5, <1>9, <1>13, <1>16 DEF TypeOK
  <2>2. gone' = gone /\ free' = free /\ mapped' = mapped /\ swaFree' = swaFree /\ todo' = {}
    BY <1>2
  <2> QED
    BY <1>1, <2>1, <2>2 DEF TypeOK
<1>18. Progress'
  <2>1. \A v \in Uids : Len(row'[v]) = cached'[v] /\ cached'[v] <= Len(Text[v])
    <3> TAKE v \in Uids
    <3>1. CASE v = u
      <4>1. row'[v] = w /\ cached'[v] = Len(n)
        BY <1>1, <1>16, <3>1 DEF TypeOK
      <4> QED
        BY <1>5, <1>13, <3>1, <4>1, TextFact
    <3>2. CASE v # u
      <4>1. row'[v] = row[v] /\ cached'[v] = cached[v]
        BY <1>1, <1>16, <3>2 DEF TypeOK
      <4> QED
        BY <1>1, <4>1 DEF Progress
    <3> QED
      BY <3>1, <3>2
  <2>2. DOMAIN batch' = {u} /\ batch' = [v \in DOMAIN batch' |-> batch'[v]] /\ batch'[u] = e
    BY <1>16
  <2>3. todo' = {}
    BY <1>2
  <2>4. cached'[u] = Len(n)
    BY <1>1, <1>16 DEF TypeOK
  <2>5. \A v \in DOMAIN batch' : /\ batch'[v] \in Nat /\ cached'[v] <= batch'[v]
                                 /\ batch'[v] <= Len(Text[v])
    BY <1>15, <2>2, <2>4, TextFact
  <2>6. ASSUME NEW v \in Running' PROVE CanDecode(v)'
    <3>1. v \in Active' /\ ~ (cached'[v] < PromptLen[v])
      BY <2>6 DEF Running, Chunked
    <3>2. v # u
      BY <1>5, <2>4, <3>1
    <3>3. v \in Active /\ v \in Uids /\ cached'[v] = cached[v]
      BY <1>1, <1>3, <1>16, <3>1, <3>2, ActiveFact DEF TypeOK
    <3>4. v \in Running \ todo
      BY <1>2, <3>1, <3>3 DEF Running, Chunked
    <3> QED
      BY <1>1, <3>3, <3>4 DEF Progress, CanDecode
  <2>7. DOMAIN batch' \subseteq Active'
    BY <1>3, <2>2
  <2> QED
    BY <2>1, <2>2, <2>3, <2>5, <2>6, <2>7 DEF Progress
<1> QED
  BY <1>7, <1>10, <1>11, <1>17, <1>18 DEF IInv

LEMMA PoolStep ==
    ASSUME IInv, UNCHANGED <<loopVars, reqVars>>, free' \in SUBSET Slots,
           IsFiniteSet(mapped'), swaFree' \in Nat,
           TreeOK(tree', Tokens, Slots, Active, handle)
    PROVE  IInv'
<1>1. /\ batch' = batch /\ todo' = todo /\ status' = status /\ cached' = cached
      /\ handle' = handle /\ row' = row /\ gone' = gone
  BY DEF loopVars, reqVars
<1>2. TypeOK /\ Progress
  BY DEF IInv
<1>3. Active' = Active /\ Running' = Running
  BY <1>1 DEF Active, Running, Chunked
<1>4. TypeOK'
  BY <1>1, <1>2, <1>3 DEF TypeOK
<1>5. Progress'
  BY <1>1, <1>2, <1>3 DEF Progress, CanDecode
<1>6. PICK d : d = tree'
  OBVIOUS
<1>7. TreeOK(d, Tokens, Slots, Active', handle')
  BY <1>1, <1>3, <1>6, Zenon
<1> QED
  BY <1>4, <1>5, <1>6, <1>7 DEF IInv

LEMMA BatchStep ==
    ASSUME IInv, todo = {},
           UNCHANGED <<tree, free, todo, status, cached, handle, row>>,
           IsFiniteSet(mapped'), swaFree' \in Nat, gone' \in [Uids -> Int],
           batch' = [u \in DOMAIN batch' |-> batch'[u]], DOMAIN batch' \subseteq Active,
           \A u \in DOMAIN batch' : /\ batch'[u] \in Nat /\ cached[u] <= batch'[u]
                                    /\ batch'[u] <= Len(Text[u])
    PROVE  IInv'
<1>1. /\ tree' = tree /\ free' = free /\ todo' = {} /\ status' = status /\ cached' = cached
      /\ handle' = handle /\ row' = row /\ todo = {}
  OBVIOUS
<1>2. TypeOK /\ Progress /\ TreeOK(tree, Tokens, Slots, Active, handle)
  BY DEF IInv
<1>3. Active' = Active /\ Running' = Running
  BY <1>1 DEF Active, Running, Chunked
<1>4. TypeOK'
  BY <1>1, <1>2, <1>3 DEF TypeOK
<1>5. Progress'
  <2>1. \A u \in Uids : Len(row'[u]) = cached'[u] /\ cached'[u] <= Len(Text[u])
    BY <1>1, <1>2 DEF Progress
  <2>2. \A u \in Running' \ todo' : CanDecode(u)'
    BY <1>1, <1>2, <1>3 DEF Progress, CanDecode
  <2> QED
    BY <1>1, <1>3, <2>1, <2>2 DEF Progress
<1>6. TreeOK(tree', Tokens, Slots, Active', handle')
  BY <1>1, <1>2, <1>3, Zenon
<1> QED
  BY <1>4, <1>5, <1>6 DEF IInv

LEMMA RefuseIInv ==
    ASSUME IInv, NEW u \in Uids, Refuse(u)
    PROVE  IInv'
<1>1. /\ status[u] = "new" /\ UNCHANGED <<free, mapped, swaFree, loopVars, reqVars>>
      /\ \/ tree' = MatchReq(u).tree
         \/ tree' = DecLock(Locked(u).tree, Locked(u).handle)
  BY DEF Refuse, CanTry
<1>2. /\ free' \in SUBSET Slots /\ IsFiniteSet(mapped') /\ swaFree' \in Nat
      /\ UNCHANGED <<loopVars, reqVars>>
  BY <1>1 DEF IInv, TypeOK
<1>3. CASE tree' = MatchReq(u).tree
  <2>1. TreeOK(tree', Tokens, Slots, Active, handle)
    BY <1>3, MatchReqFact
  <2> QED
    BY <1>2, <2>1, PoolStep
<1>4. CASE tree' = DecLock(Locked(u).tree, Locked(u).handle)
  <2>1. PICK l : l = Locked(u)
    OBVIOUS
  <2>2. u \notin Active
    BY <1>1 DEF Active
  <2>3. PICK h : h = handle
    OBVIOUS
  <2>4. PICK g : g = [h EXCEPT ![u] = l.handle]
    OBVIOUS
  <2>5. PICK A : A = Active
    OBVIOUS
  <2>6. /\ A \in SUBSET Uids /\ IsFiniteSet(A) /\ u \notin A /\ DOMAIN h = Uids
    BY <2>2, <2>3, <2>5, ActiveFact DEF IInv, TypeOK
  <2>7. /\ g[u] = l.handle /\ Agree(A, g, h) /\ Agree(A, h, g)
        /\ A \cup {u} \subseteq DOMAIN g /\ A \subseteq DOMAIN h
    BY <2>4, <2>6 DEF Agree
  <2>8. TreeOK(l.tree, Tokens, Slots, A \cup {u}, g)
    BY <2>1, <2>2, <2>3, <2>5, <2>7, LockedFact
  <2>9. PICK t : t = l.tree
    OBVIOUS
  <2>10. PICK U : U = A \cup {u}
    OBVIOUS
  <2>11. u \in U /\ U \ {u} = A /\ U \subseteq DOMAIN g
    BY <2>6, <2>7, <2>10
  <2>12. IsFiniteSet(U)
    BY <2>6, <2>10, FS_AddElement
  <2>13. PICK d : d = DecLock(t, g[u])
    OBVIOUS
  <2>14. TreeOK(t, Tokens, Slots, U, g) /\ Agree(U \ {u}, h, g) /\ U \ {u} \subseteq DOMAIN h
    BY <2>7, <2>8, <2>9, <2>10, <2>11
  <2>15. TreeOK(d, Tokens, Slots, U \ {u}, h)
    BY ONLY <2>11, <2>12, <2>13, <2>14, DecLockFact
  <2>16. tree' = d
    BY <1>4, <2>1, <2>7, <2>9, <2>13, Zenon
  <2>17. TreeOK(tree', Tokens, Slots, Active, handle)
    BY <2>3, <2>5, <2>11, <2>15, <2>16, Zenon
  <2> QED
    BY <1>2, <2>17, PoolStep
<1> QED
  BY <1>1, <1>3, <1>4

LEMMA OwnFact ==
    ASSUME TypeOK, Progress, NEW u \in Uids, NEW k \in Int, k <= cached[u]
    PROVE  Cardinality(Own(u, k)) \in Nat
<1>1. PICK r \in Seq(Slots) : r = row[u]
  BY RequestFact
<1>2. PICK a : a = Max({gone[u], Held(u)})
  OBVIOUS
<1>3. a \in Nat /\ k <= Len(r) /\ Len(r) \in Nat
  BY <1>1, <1>2, RequestFact, PairFact
<1>4. PICK w : w = SubSeq(r, a + 1, k)
  OBVIOUS
<1>5. w \in Seq(Slots)
  <2>1. CASE a <= k
    BY <1>3, <1>4, <2>1, SliceFact
  <2>2. CASE ~ (a <= k)
    <3>1. w = << >>
      BY <1>3, <1>4, <2>2, SubSeqEmpty
    <3> QED
      BY <3>1, EmptySeq
  <2> QED
    BY <2>1, <2>2
<1>6. ToSet(w) \in SUBSET Slots
  BY <1>5 DEF ToSet
<1>7. IsFiniteSet(ToSet(w))
  BY <1>6, SlotsFact, FS_Subset
<1>8. Own(u, k) = ToSet(w)
  BY <1>1, <1>2, <1>4, Zenon DEF Own
<1> QED
  BY <1>7, <1>8, CardinalNat

LEMMA ContinueIInv ==
    ASSUME IInv, NEW u \in Uids, Continue(u)
    PROVE  IInv'
<1>1. TypeOK /\ Progress /\ TreeOK(tree, Tokens, Slots, Active, handle)
  BY DEF IInv
<1>2. PICK k : k = cached[u] - Window - 1
  OBVIOUS
<1>3. PICK e : e = ChunkEnd(u, cached[u], tree, Cardinality(Own(u, k)))
  OBVIOUS
<1>4. /\ todo = {} /\ u \in Chunked /\ batch' = [v \in {u} |-> e] /\ FreeSwa(Own(u, k))
      /\ gone' = [gone EXCEPT ![u] = IF Own(u, k) = {} THEN @ ELSE k]
      /\ UNCHANGED <<tree, free, todo, status, cached, handle, row>>
  BY <1>2, <1>3 DEF Continue, Scheduling
<1>5. cached[u] \in Nat /\ u \in Active /\ cached[u] <= PromptLen[u]
  BY <1>1, <1>4, TextFact DEF Chunked, TypeOK
<1>6. k \in Int /\ k <= cached[u]
  BY <1>2, <1>5, OnePage
<1>7. e \in Nat /\ cached[u] <= e /\ e <= PromptLen[u]
  <2>1. PICK m \in Nat : m = Cardinality(Own(u, k))
    BY <1>1, <1>6, OwnFact
  <2>2. PICK c \in Nat : c = cached[u]
    BY <1>5
  <2>3. e = ChunkEnd(u, c, tree, m)
    BY <1>3, <2>1, <2>2
  <2>4. tree.swaEvictable \in Nat /\ swaFree \in Nat /\ c <= PromptLen[u]
    BY <1>1, <1>5, <2>2, SwaEvictableFact DEF TypeOK
  <2>5. e \in Nat /\ c <= e /\ e <= PromptLen[u]
    BY ONLY u \in Uids, c \in Nat, m \in Nat, <2>3, <2>4, ChunkEndFact
  <2> QED
    BY <2>2, <2>5
<1>8. IsFiniteSet(mapped') /\ swaFree' \in Nat
  BY <1>1, <1>4, FreeSwaFact DEF TypeOK
<1>9. gone' \in [Uids -> Int]
  BY <1>1, <1>4, <1>6 DEF TypeOK
<1>10. /\ DOMAIN batch' = {u} /\ batch' = [v \in DOMAIN batch' |-> batch'[v]] /\ batch'[u] = e
  BY <1>4
<1>11. \A v \in DOMAIN batch' : /\ batch'[v] \in Nat /\ cached[v] <= batch'[v]
                                /\ batch'[v] <= Len(Text[v])
  BY <1>7, <1>10, TextFact
<1> QED
  BY <1>4, <1>5, <1>8, <1>9, <1>10, <1>11, BatchStep

LEMMA BeginDecodeIInv ==
    ASSUME IInv, NEW due \in BOOLEAN, BeginDecode(due)
    PROVE  IInv'
<1>1. TypeOK /\ Progress
  BY DEF IInv
<1>2. /\ todo = {} /\ batch' = [u \in Running |-> cached[u] + 1]
      /\ UNCHANGED <<tree, free, todo, status, cached, handle, row>>
      /\ \/ /\ FreeSwa(UNION {OutOfWindow(u) : u \in Running})
            /\ gone' = [u \in Uids |->
                          IF u \in Running /\ OutOfWindow(u) # {}
                          THEN cached[u] - Window - 1 ELSE gone[u]]
         \/ UNCHANGED <<mapped, swaFree, gone>>
  BY DEF BeginDecode, Scheduling
<1>3. IsFiniteSet(mapped') /\ swaFree' \in Nat
  BY <1>1, <1>2, FreeSwaFact DEF TypeOK
<1>4. gone' \in [Uids -> Int]
  <2>1. \A u \in Uids : cached[u] - Window - 1 \in Int /\ gone[u] \in Int
    BY <1>1, OnePage DEF TypeOK
  <2> QED
    BY <1>1, <1>2, <2>1 DEF TypeOK
<1>5. DOMAIN batch' = Running /\ batch' = [u \in DOMAIN batch' |-> batch'[u]]
  BY <1>2
<1>6. Running \subseteq Active
  BY DEF Running
<1>7. \A u \in DOMAIN batch' : /\ batch'[u] \in Nat /\ cached[u] <= batch'[u]
                               /\ batch'[u] <= Len(Text[u])
  <2> TAKE u \in DOMAIN batch'
  <2>1. u \in Running /\ u \in Uids /\ batch'[u] = cached[u] + 1
    BY <1>2, <1>5, <1>6, ActiveFact
  <2>2. CanDecode(u)
    BY <1>1, <1>2, <2>1 DEF Progress
  <2>3. cached[u] \in Nat /\ Len(Text[u]) \in Nat
    BY <1>1, <2>1, TextFact DEF TypeOK
  <2> QED
    BY <2>1, <2>2, <2>3 DEF CanDecode
<1> QED
  BY <1>2, <1>3, <1>4, <1>5, <1>6, <1>7, BatchStep

LEMMA EvictLeafSlots ==
    ASSUME NEW T, NEW P, NEW t, IsTree(Core(t), T, P), NEW n \in FullVictims(t)
    PROVE  EvictLeaf(t, n).full \in SUBSET P
<1>1. n \in Names(t) /\ FreeLeaf(t, n)
  BY DEF FullVictims
<1>2. Unlinked(t, n) \in SUBSET Names(t)
  BY <1>1, UnlinkedFact
<1>3. EvictLeaf(t, n).full = SlotsOf(t, Unlinked(t, n))
  BY DEF EvictLeaf
<1> QED
  BY <1>2, <1>3, SlotsOfFact

LEMMA EvictIInv ==
    ASSUME IInv, NEW n, EvictFull(n) \/ EvictSwa(n)
    PROVE  IInv'
<1>1. PICK t : t = tree
  OBVIOUS
<1>2. PICK U : U = Active
  OBVIOUS
<1>3. PICK h : h = handle
  OBVIOUS
<1>4. /\ TreeOK(t, Tokens, Slots, U, h) /\ U \subseteq DOMAIN h /\ IsFiniteSet(U)
      /\ IsTree(Core(t), Tokens, Slots)
  BY <1>1, <1>2, <1>3, HandleFact, ActiveFact DEF IInv, TreeOK
<1>5. free \in SUBSET Slots /\ IsFiniteSet(mapped) /\ swaFree \in Nat
  BY DEF IInv, TypeOK
<1>6. \E e : /\ tree' = e.tree /\ free' = free \cup e.full /\ FreeSwa(e.swa)
             /\ TreeOK(e.tree, Tokens, Slots, U, h) /\ e.full \in SUBSET Slots
  <2>1. CASE EvictFull(n)
    <3>1. PICK e : e = EvictLeaf(t, n)
      OBVIOUS
    <3>2. n \in FullVictims(t) /\ tree' = e.tree /\ free' = free \cup e.full /\ FreeSwa(e.swa)
      BY <1>1, <2>1, <3>1 DEF EvictFull
    <3>3. TreeOK(e.tree, Tokens, Slots, U, h)
      BY ONLY <1>4, <3>1, <3>2, EvictLeafFact
    <3>4. e.full \in SUBSET Slots
      BY ONLY <1>4, <3>1, <3>2, EvictLeafSlots
    <3> QED
      BY <3>2, <3>3, <3>4
  <2>2. CASE EvictSwa(n)
    <3>1. PICK e : e = EvictWindow(t, n)
      OBVIOUS
    <3>2. n \in SwaVictims(t) /\ tree' = e.tree /\ free' = free \cup e.full /\ FreeSwa(e.swa)
      BY <1>1, <2>2, <3>1 DEF EvictSwa
    <3>3. TreeOK(e.tree, Tokens, Slots, U, h)
      BY ONLY <1>4, <3>1, <3>2, EvictWindowFact
    <3>4. e.full \in SUBSET Slots
      <4>1. CASE FreeLeaf(t, n)
        <5>1. e = EvictLeaf(t, n) /\ n \in FullVictims(t)
          BY <3>1, <3>2, <4>1 DEF EvictWindow, SwaVictims, FullVictims
        <5> QED
          BY ONLY <1>4, <5>1, EvictLeafSlots
      <4>2. CASE ~ FreeLeaf(t, n)
        <5>1. e.full = {}
          BY <3>1, <4>2 DEF EvictWindow
        <5> QED
          BY <5>1
      <4> QED
        BY <4>1, <4>2
    <3> QED
      BY <3>2, <3>3, <3>4
  <2> QED
    BY <2>1, <2>2
<1>7. PICK e : /\ tree' = e.tree /\ free' = free \cup e.full /\ FreeSwa(e.swa)
               /\ TreeOK(e.tree, Tokens, Slots, U, h) /\ e.full \in SUBSET Slots
  BY <1>6
<1>8. IsFiniteSet(mapped') /\ swaFree' \in Nat
  BY <1>5, <1>7, FreeSwaFact
<1>9. UNCHANGED <<loopVars, reqVars>>
  BY DEF EvictFull, EvictSwa
<1>10. free' \in SUBSET Slots
  BY <1>5, <1>7
<1>11. TreeOK(tree', Tokens, Slots, Active, handle)
  BY <1>2, <1>3, <1>7, Zenon
<1> QED
  BY <1>8, <1>9, <1>10, <1>11, PoolStep

(* What a batch takes, and in which order.                                 *)
LEMMA GrowsFact ==
    ASSUME TypeOK, Progress, NEW u \in DOMAIN batch
    PROVE  Grows(u) \in Nat /\ batch[u] = cached[u] + Grows(u) /\ u \in Uids
<1>1. u \in Uids
  BY ActiveFact DEF Progress
<1>2. batch[u] \in Nat /\ cached[u] \in Nat /\ cached[u] <= batch[u]
  BY <1>1 DEF TypeOK, Progress
<1> QED
  BY <1>1, <1>2 DEF Grows

LEMMA SumGrowsFact ==
    ASSUME TypeOK, Progress, NEW D, D \subseteq DOMAIN batch, NEW S \in SUBSET D
    PROVE  /\ IsFiniteSet(D) /\ IsFiniteSet(S)
           /\ [u \in S |-> Grows(u)] \in [S -> Nat]
           /\ SumGrows(S) \in Nat /\ SumGrows(D) \in Nat /\ SumGrows(S) <= SumGrows(D)
<1>1. D \in SUBSET Active
  BY DEF Progress
<1>2. IsFiniteSet(D) /\ IsFiniteSet(S)
  BY <1>1, ActiveFact, FS_Subset
<1>3. \A u \in D : Grows(u) \in Nat
  BY GrowsFact
<1>4. PICK f : f = [u \in S |-> Grows(u)]
  OBVIOUS
<1>5. PICK g : g = [u \in D |-> Grows(u)]
  OBVIOUS
<1>6. f \in [S -> Nat] /\ g \in [D -> Nat] /\ \A u \in S : f[u] <= g[u]
  BY <1>3, <1>4, <1>5
<1>7. Tally(f) \in Nat /\ Tally(g) \in Nat
  BY <1>2, <1>6, TallyNat
<1>8. Tally(f) <= Tally(g)
  BY <1>2, <1>6, TallyMonotonic
<1> QED
  BY <1>2, <1>4, <1>5, <1>6, <1>7, <1>8 DEF SumGrows

LEMMA SumMore ==
    ASSUME TypeOK, Progress, NEW S, S \subseteq DOMAIN batch, NEW u \in DOMAIN batch, u \notin S
    PROVE  /\ SumGrows(S) \in Nat /\ Grows(u) \in Nat
           /\ SumGrows(S) + Grows(u) <= Needed
<1>1. PICK D : D = S \cup {u}
  OBVIOUS
<1>2. D \subseteq DOMAIN batch /\ u \in D /\ D \ {u} = S
  BY <1>1
<1>3. PICK f : f = [v \in D |-> Grows(v)]
  OBVIOUS
<1>4. PICK g : g = [v \in D \ {u} |-> f[v]]
  OBVIOUS
<1>5. IsFiniteSet(D) /\ f \in [D -> Nat] /\ SumGrows(D) \in Nat
  BY <1>2, <1>3, SumGrowsFact
<1>6. Tally(g) \in Nat /\ f[u] \in Nat /\ Tally(f) = f[u] + Tally(g)
  BY <1>2, <1>4, <1>5, TallyAt
<1>7. g = [v \in S |-> Grows(v)] /\ f[u] = Grows(u)
  BY <1>2, <1>3, <1>4
<1>8. SumGrows(D) = Grows(u) + SumGrows(S) /\ SumGrows(S) \in Nat /\ Grows(u) \in Nat
  BY <1>3, <1>6, <1>7 DEF SumGrows
<1>9. SumGrows(D) <= SumGrows(DOMAIN batch)
  <2>1. PICK B : B = DOMAIN batch
    OBVIOUS
  <2>2. D \in SUBSET B /\ B \subseteq DOMAIN batch
    BY <1>2, <2>1
  <2>3. SumGrows(D) <= SumGrows(B)
    BY <2>2, SumGrowsFact
  <2> QED
    BY <2>1, <2>3
<1>10. SumGrows(DOMAIN batch) \in Nat
  BY SumGrowsFact
<1> QED
  BY <1>8, <1>9, <1>10 DEF Needed

LEMMA FunctionSeq ==
    ASSUME NEW S, NEW n \in Nat, NEW f \in [1 .. n -> S]
    PROVE  f \in Seq(S) /\ Len(f) = n
OBVIOUS

(* The slots taken are the least free ones, in their order.                *)
LEMMA TakenFact ==
    ASSUME NEW S \in SUBSET Slots, NEW k \in Nat, k <= Cardinality(S),
           NEW l, l = [i \in 1 .. k |-> CHOOSE s \in S : Cardinality({r \in S : r <= s}) = i]
    PROVE  l \in Seq(Slots) /\ Len(l) = k
<1>1. S \in SUBSET Nat /\ IsFiniteSet(S)
  BY SlotsFact, FS_Subset
<1>2. PICK n \in Nat : n = Cardinality(S)
  BY <1>1, CardinalNat
<1>3. ASSUME NEW i \in 1 .. k PROVE l[i] \in Slots
  <2>1. i \in 1 .. n
    BY <1>2
  <2>2. \E p \in S : Cardinality(UpToRank(S, p)) = i
    BY <1>1, <1>2, <2>1, RankFact
  <2>3. \E p \in S : Cardinality({r \in S : r <= p}) = i
    BY <2>2, Zenon DEF UpToRank
  <2>4. l[i] \in S
    BY <2>3
  <2> QED
    BY <2>4
<1>4. l \in [1 .. k -> Slots]
  BY <1>3
<1> QED
  BY <1>4, FunctionSeq

LEMMA ForwardIInv == ASSUME IInv, Forward PROVE IInv'
<1>1. TypeOK /\ Progress /\ TreeOK(tree, Tokens, Slots, Active, handle)
  BY DEF IInv
<1>2. PICK D : D = DOMAIN batch
  OBVIOUS
<1>3. PICK k \in Nat : k = Needed
  <2>1. Needed \in Nat
    BY <1>1, SumGrowsFact DEF Needed
  <2> QED
    BY <2>1
<1>4. PICK list : list = [i \in 1 .. k |->
                            CHOOSE s \in free : Cardinality({r \in free : r <= s}) = i]
  OBVIOUS
<1>5. PICK order : order = SetToSeq(D)
  OBVIOUS
<1>6. PICK before : before = [u \in D |-> {v \in D : \E i, j \in DOMAIN order :
                                              i < j /\ order[i] = v /\ order[j] = u}]
  OBVIOUS
<1>7. PICK got : got = [u \in D |-> SubSeq(list, SumGrows(before[u]) + 1,
                                           SumGrows(before[u]) + Grows(u))]
  OBVIOUS
<1>8. /\ batch # << >> /\ Cardinality(free) >= k /\ swaFree >= k
      /\ free' = free \ ToSet(list) /\ mapped' = mapped \cup ToSet(list)
      /\ swaFree' = swaFree - k
      /\ cached' = [u \in Uids |-> IF u \in D THEN batch[u] ELSE cached[u]]
      /\ todo' = D /\ batch' = << >>
      /\ UNCHANGED <<tree, status, handle, gone>>
  BY <1>2, <1>3, <1>4 DEF Forward
<1>9. row' = [u \in Uids |-> IF u \in D THEN row[u] \o got[u] ELSE row[u]]
  <2>1. row' = [u \in Uids |->
                  IF u \in D
                  THEN row[u] \o SubSeq(list,
                         SumGrows({v \in D : \E i, j \in DOMAIN order :
                                     i < j /\ order[i] = v /\ order[j] = u}) + 1,
                         SumGrows({v \in D : \E i, j \in DOMAIN order :
                                     i < j /\ order[i] = v /\ order[j] = u}) + Grows(u))
                  ELSE row[u]]
    BY <1>2, <1>3, <1>4, <1>5, Zenon DEF Forward
  <2>2. \A u \in D : got[u] = SubSeq(list,
                         SumGrows({v \in D : \E i, j \in DOMAIN order :
                                     i < j /\ order[i] = v /\ order[j] = u}) + 1,
                         SumGrows({v \in D : \E i, j \in DOMAIN order :
                                     i < j /\ order[i] = v /\ order[j] = u}) + Grows(u))
    BY <1>6, <1>7, Zenon
  <2> QED
    BY <2>1, <2>2
<1>10. list \in Seq(Slots) /\ Len(list) = k
  <2>1. free \in SUBSET Slots /\ k <= Cardinality(free)
    <3>1. free \in SUBSET Slots
      BY <1>1 DEF TypeOK
    <3>2. IsFiniteSet(free)
      BY <3>1, SlotsFact, FS_Subset
    <3>3. Cardinality(free) \in Nat
      BY <3>2, CardinalNat
    <3> QED
      BY <1>8, <3>1, <3>3
  <2> QED
    BY <1>4, <2>1, TakenFact
<1>11. D \in SUBSET Uids /\ D \in SUBSET Active /\ IsFiniteSet(D) /\ todo = {}
  <2>1. D \in SUBSET Active /\ todo = {}
    BY <1>1, <1>2, <1>8 DEF Progress
  <2> QED
    BY <2>1, ActiveFact, FS_Subset
<1>12. ASSUME NEW u \in D
       PROVE  /\ batch[u] \in Nat /\ batch[u] <= Len(Text[u])
              /\ row'[u] \in Seq(Slots) /\ Len(row'[u]) = batch[u]
  <2>1. PICK S : S = before[u]
    OBVIOUS
  <2>2. S \subseteq D
    BY <1>6, <2>1
  <2>3. u \notin S
    <3>1. \A i, j \in DOMAIN order : order[i] = order[j] => i = j
      BY <1>5, <1>11, SetToSeqFact
    <3>2. DOMAIN order = 1 .. Cardinality(D) /\ Cardinality(D) \in Nat
      BY <1>5, <1>11, SetToSeqFact
    <3> QED
      BY <1>6, <2>1, <3>1, <3>2
  <2>4. SumGrows(S) \in Nat /\ Grows(u) \in Nat /\ SumGrows(S) + Grows(u) <= k
    BY <1>1, <1>2, <1>3, <2>2, <2>3, SumMore
  <2>5. PICK a \in Nat : a = SumGrows(S)
    BY <2>4
  <2>6. PICK m \in Nat : m = Grows(u)
    BY <2>4
  <2>7. PICK b \in Nat : b = a + m
    OBVIOUS
  <2>8. PICK w : w = SubSeq(list, a + 1, b)
    OBVIOUS
  <2>9. w \in Seq(Slots) /\ Len(w) = m
    <3>1. a <= b /\ b <= Len(list)
      BY <1>10, <2>4, <2>5, <2>6, <2>7
    <3>2. w \in Seq(Slots) /\ Len(w) = b - a
      BY <1>10, <2>8, <3>1, SliceFact
    <3> QED
      BY <2>7, <3>2
  <2>10. got[u] = w
    BY <1>7, <2>1, <2>5, <2>6, <2>7, <2>8
  <2>11. PICK r \in Seq(Slots) : r = row[u]
    BY <1>1, <1>11, RequestFact
  <2>12. Len(r) = cached[u] /\ cached[u] \in Nat
    BY <1>1, <1>11, <2>11, RequestFact
  <2>13. row'[u] = r \o w
    BY <1>9, <1>11, <2>10, <2>11
  <2>14. r \o w \in Seq(Slots) /\ Len(r \o w) = Len(r) + m
    BY <2>9, ConcatProperties
  <2>15. batch[u] = cached[u] + m
    BY <1>1, <1>2, <2>6, GrowsFact
  <2>16. batch[u] <= Len(Text[u])
    BY <1>1, <1>2 DEF Progress
  <2> QED
    BY <2>12, <2>13, <2>14, <2>15, <2>16
<1>13. \A u \in Uids \ D : row'[u] = row[u] /\ cached'[u] = cached[u]
  BY <1>8, <1>9
<1>14. \A u \in D : cached'[u] = batch[u]
  BY <1>8, <1>11
<1>15. Active' = Active
  BY <1>8 DEF Active
<1>16. TypeOK'
  <2>1. row' \in [Uids -> Seq(Slots)]
    <3>1. \A u \in Uids : row'[u] \in Seq(Slots)
      BY <1>1, <1>12, <1>13 DEF TypeOK
    <3> QED
      BY <1>9, <3>1
  <2>2. cached' \in [Uids -> Nat]
    <3>1. \A u \in Uids : cached'[u] \in Nat
      BY <1>1, <1>12, <1>13, <1>14 DEF TypeOK
    <3> QED
      BY <1>8, <3>1
  <2>3. free' \in SUBSET Slots
    BY <1>1, <1>8 DEF TypeOK
  <2>4. IsFiniteSet(mapped')
    <3>1. ToSet(list) \in SUBSET Slots
      BY <1>10 DEF ToSet
    <3>2. IsFiniteSet(ToSet(list))
      BY <3>1, SlotsFact, FS_Subset
    <3>3. IsFiniteSet(mapped \cup ToSet(list))
      BY <1>1, <3>2, FS_Union DEF TypeOK
    <3> QED
      BY <1>8, <3>3
  <2>5. swaFree' \in Nat
    BY <1>1, <1>8 DEF TypeOK
  <2> QED
    BY <1>1, <1>8, <1>11, <1>15, <2>1, <2>2, <2>3, <2>4, <2>5 DEF TypeOK
<1>17. Progress'
  <2>1. \A u \in Uids : Len(row'[u]) = cached'[u] /\ cached'[u] <= Len(Text[u])
    BY <1>1, <1>12, <1>13, <1>14 DEF Progress
  <2>2. DOMAIN batch' = {} /\ batch' = [u \in DOMAIN batch' |-> batch'[u]]
    BY <1>8
  <2>3. ASSUME NEW u \in Running' \ todo' PROVE CanDecode(u)'
    <3>1. u \in Active /\ u \notin D /\ ~ (cached'[u] < PromptLen[u])
      BY <1>8, <1>15, <2>3 DEF Running, Chunked
    <3>2. u \in Uids /\ cached'[u] = cached[u]
      BY <1>13, <3>1, ActiveFact
    <3>3. u \in Running \ todo
      BY <1>11, <3>1, <3>2 DEF Running, Chunked
    <3> QED
      BY <1>1, <3>2, <3>3 DEF Progress, CanDecode
  <2> QED
    BY <1>8, <2>1, <2>2, <2>3 DEF Progress
<1>18. TreeOK(tree', Tokens, Slots, Active', handle')
  BY <1>1, <1>8, <1>15, Zenon
<1> QED
  BY <1>16, <1>17, <1>18 DEF IInv

(* What a request has computed, inserted with its row; and its lock taken  *)
(* back.                                                                   *)
LEMMA ComputedFact ==
    ASSUME TypeOK, Progress, NEW u \in Uids
    PROVE  /\ Computed(u) \in Seq(Tokens) /\ Len(Computed(u)) = cached[u]
           /\ Len(Computed(u)) \in Nat /\ Len(Computed(u)) <= Len(row[u])
           /\ row[u] \in Seq(Slots) /\ gone[u] \in Int
<1>1. /\ cached[u] \in Nat /\ gone[u] \in Int /\ cached[u] <= Len(Text[u])
      /\ row[u] \in Seq(Slots) /\ Len(row[u]) = cached[u]
  BY RequestFact
<1>2. Computed(u) = SubSeq(Text[u], 1, cached[u])
  BY DEF Computed, Take
<1>3. Computed(u) \in Seq(Tokens) /\ Len(Computed(u)) = cached[u]
  BY <1>1, <1>2, TextFact, HeadFact
<1> QED
  BY <1>1, <1>3

LEMMA UnlockedFact ==
    ASSUME IInv, NEW u \in Active,
           NEW g, Agree(Active \ {u}, g, handle), Active \ {u} \subseteq DOMAIN g,
           NEW d, d = Unlocked(u)
    PROVE  /\ TreeOK(d, Tokens, Slots, Active \ {u}, g)
           /\ Inserted(u).freed \in SUBSET Slots
<1>1. PICK t : t = tree
  OBVIOUS
<1>2. PICK U : U = Active
  OBVIOUS
<1>3. PICK h : h = handle
  OBVIOUS
<1>4. u \in Uids /\ TypeOK /\ Progress
  BY ActiveFact DEF IInv
<1>5. /\ TreeOK(t, Tokens, Slots, U, h) /\ U \subseteq DOMAIN h /\ IsFiniteSet(U)
      /\ u \in U /\ Agree(U \ {u}, g, h) /\ U \ {u} \subseteq DOMAIN g
  BY <1>1, <1>2, <1>3, HandleFact, ActiveFact DEF IInv
<1>6. PICK s : s = Computed(u)
  OBVIOUS
<1>7. PICK w : w = row[u]
  OBVIOUS
<1>8. PICK a : a = gone[u]
  OBVIOUS
<1>9. PICK from : from = Held(u)
  OBVIOUS
<1>10. s \in Seq(Tokens) /\ w \in Seq(Slots) /\ Len(s) <= Len(w) /\ a \in Int
  BY <1>4, <1>6, <1>7, <1>8, ComputedFact
<1>11. PICK r : r = Insert(t, s, w, a, from)
  OBVIOUS
<1>12. Inserted(u) = r
  BY <1>1, <1>6, <1>7, <1>8, <1>9, <1>11 DEF Inserted
<1>13. PICK e : e = r.tree
  OBVIOUS
<1>14. TreeOK(e, Tokens, Slots, U, h) /\ r.freed \in SUBSET Slots
  BY ONLY <1>5, <1>10, <1>11, <1>13, SwaInsertFact
<1>15. d = DecLock(e, h[u])
  BY <1>3, <1>12, <1>13 DEF Unlocked
<1>16. TreeOK(d, Tokens, Slots, U \ {u}, g)
  BY ONLY <1>5, <1>14, <1>15, DecLockFact
<1> QED
  BY <1>2, <1>12, <1>14, <1>16

(* Where the retained window begins, and the split there.                  *)
LEMMA KeepFromFact ==
    ASSUME NEW n \in Nat
    PROVE  KeepFrom(n) \in Int /\ KeepFrom(n) <= n
  BY OnePage, SwaCacheAssumption DEF KeepFrom

LEMMA SplitBeforeFact ==
    ASSUME NEW T, NEW P, NEW t, NEW U, NEW h, TreeOK(t, T, P, U, h), U \subseteq DOMAIN h,
           NEW s \in Seq(T), NEW n \in Int, n <= Len(s),
           NEW d, d = SplitBefore(t, s, n)
    PROVE  TreeOK(d, T, P, U, h)
<1>1. CASE n > 0
  <2>1. PICK k \in Nat : k = n
    BY <1>1
  <2>2. PICK w : w = Take(s, k)
    OBVIOUS
  <2>3. w \in Seq(T)
    BY <2>1, <2>2, HeadFact DEF Take
  <2>4. PICK r : r = Match(t, w)
    OBVIOUS
  <2>5. d = r.tree
    BY <1>1, <2>1, <2>2, <2>4 DEF SplitBefore
  <2>6. TreeOK(r.tree, T, P, U, h)
    BY <2>3, <2>4, MatchFact
  <2> QED
    BY <2>5, <2>6
<1>2. CASE ~ (n > 0)
  BY <1>2 DEF SplitBefore
<1> QED
  BY <1>1, <1>2

LEMMA TrimmedFact ==
    ASSUME IInv, NEW u \in Active,
           NEW g, Agree(Active \ {u}, g, handle), Active \ {u} \subseteq DOMAIN g,
           NEW d, d = Trimmed(u).tree
    PROVE  TreeOK(d, Tokens, Slots, Active \ {u}, g)
<1>1. u \in Uids /\ TypeOK /\ Progress
  BY ActiveFact DEF IInv
<1>2. PICK U : U = Active \ {u}
  OBVIOUS
<1>3. U \subseteq DOMAIN g /\ IsFiniteSet(U)
  BY <1>2, ActiveFact, FS_Subset
<1>4. PICK t : t = Unlocked(u)
  OBVIOUS
<1>5. TreeOK(t, Tokens, Slots, U, g)
  BY <1>2, <1>4, UnlockedFact
<1>6. PICK s \in Seq(Tokens) : s = Text[u]
  BY <1>1, TextFact
<1>7. PICK a \in Nat : a = cached[u] /\ a <= Len(s)
  BY <1>1, <1>6, RequestFact
<1>8. PICK b \in Nat : b = PromptLen[u]
  BY <1>1, TextFact
<1>9. PICK p : p = Min({a, b})
  OBVIOUS
<1>10. p \in Nat /\ p <= a
  <2>1. a \in Int /\ b \in Int
    OBVIOUS
  <2>2. Min({a, b}) = IF a <= b THEN a ELSE b
    BY ONLY <2>1, PairFact
  <2> QED
    BY <1>9, <2>2
<1>11. PICK k : k = KeepFrom(p)
  OBVIOUS
<1>12. k \in Int /\ k <= p
  BY <1>10, <1>11, KeepFromFact
<1>13. Len(s) \in Nat
  BY LenProperties
<1>14. PICK trim : trim = IF k > 0 THEN TrimHead(t, s, k) ELSE [tree |-> t, swa |-> {}]
  OBVIOUS
<1>15. PICK e : e = trim.tree
  OBVIOUS
<1>16. TreeOK(e, Tokens, Slots, U, g)
  <2>1. CASE k > 0
    <3>1. PICK j \in Nat : j = k
      BY <1>12, <2>1
    <3>2. j <= Len(s) /\ e = TrimHead(t, s, j).tree
      BY <1>7, <1>10, <1>12, <1>13, <1>14, <1>15, <2>1, <3>1
    <3> QED
      BY ONLY <1>3, <1>5, s \in Seq(Tokens), j \in Nat, <3>2, TrimHeadFact
  <2>2. CASE ~ (k > 0)
    <3>1. e = t
      BY <1>14, <1>15, <2>2
    <3> QED
      BY <1>5, <3>1
  <2> QED
    BY <2>1, <2>2
<1>17. d = SplitBefore(e, s, p)
  BY <1>4, <1>6, <1>7, <1>8, <1>9, <1>11, <1>14, <1>15, Zenon DEF Trimmed
<1>18. TreeOK(d, Tokens, Slots, U, g)
  <2>1. p \in Int /\ p <= Len(s)
    BY <1>7, <1>10, <1>13
  <2> QED
    BY ONLY <1>3, <1>16, <1>17, s \in Seq(Tokens), <2>1, SplitBeforeFact
<1> QED
  BY <1>2, <1>18

LEMMA FinishIInv ==
    ASSUME IInv, NEW u \in Active, Finish(u),
           batch = << >>, batch' = batch, todo' = todo \ {u}
    PROVE  IInv'
<1>1. TypeOK /\ Progress /\ u \in Uids
  BY ActiveFact DEF IInv
<1>2. /\ tree' = Trimmed(u).tree /\ free' = free \cup Inserted(u).freed
      /\ FreeSwa(Inserted(u).freed \cup Trimmed(u).swa)
      /\ status' = [status EXCEPT ![u] = "done"] /\ cached' = [cached EXCEPT ![u] = 0]
      /\ handle' = [handle EXCEPT ![u] = NoHandle] /\ row' = [row EXCEPT ![u] = << >>]
      /\ gone' = [gone EXCEPT ![u] = 0]
  BY DEF Finish
<1>3. Active' = Active \ {u}
  BY <1>1, <1>2 DEF Active, TypeOK
<1>4. /\ cached'[u] = 0 /\ row'[u] = << >>
      /\ \A v \in Uids \ {u} : cached'[v] = cached[v] /\ row'[v] = row[v] /\ handle'[v] = handle[v]
  BY <1>1, <1>2 DEF TypeOK
<1>5. << >> \in Seq(Slots) /\ Len(<< >>) = 0 /\ << >> \in Seq(Tokens)
  BY EmptySeq
<1>6. PICK g : g = handle'
  OBVIOUS
<1>7. DOMAIN g = Uids /\ Agree(Active \ {u}, g, handle) /\ Active \ {u} \subseteq DOMAIN g
  BY <1>1, <1>2, <1>4, <1>6, ActiveFact DEF Agree, TypeOK
<1>8. PICK d : d = Trimmed(u).tree
  OBVIOUS
<1>9. TreeOK(d, Tokens, Slots, Active \ {u}, g)
  BY <1>7, <1>8, TrimmedFact
<1>10. Inserted(u).freed \in SUBSET Slots
  BY <1>7, UnlockedFact
<1>11. TypeOK'
  <2>1. NoHandle \in Handles
    BY <1>5 DEF NoHandle, Handles
  <2>2. /\ status' \in [Uids -> {"new", "active", "done"}] /\ cached' \in [Uids -> Nat]
        /\ gone' \in [Uids -> Int] /\ handle' \in [Uids -> Handles]
        /\ row' \in [Uids -> Seq(Slots)]
    BY <1>1, <1>2, <1>5, <2>1 DEF TypeOK
  <2>3. free' \in SUBSET Slots
    BY <1>1, <1>2, <1>10 DEF TypeOK
  <2>4. IsFiniteSet(mapped') /\ swaFree' \in Nat
    BY <1>1, <1>2, FreeSwaFact DEF TypeOK
  <2>5. todo' \in SUBSET Active'
    BY <1>1, <1>3 DEF TypeOK
  <2> QED
    BY <2>2, <2>3, <2>4, <2>5 DEF TypeOK
<1>12. Progress'
  <2>1. \A v \in Uids : Len(row'[v]) = cached'[v] /\ cached'[v] <= Len(Text[v])
    <3> TAKE v \in Uids
    <3>1. CASE v = u
      BY <1>4, <1>5, <3>1, TextFact
    <3>2. CASE v # u
      BY <1>1, <1>4, <3>2 DEF Progress
    <3> QED
      BY <3>1, <3>2
  <2>2. /\ DOMAIN batch' = {} /\ batch' = [v \in DOMAIN batch' |-> batch'[v]]
        /\ batch' = << >>
    OBVIOUS
  <2>3. ASSUME NEW v \in Running' \ todo' PROVE CanDecode(v)'
    <3>1. v \in Active /\ v # u /\ v \notin todo /\ ~ (cached'[v] < PromptLen[v])
      BY <1>3, <2>3 DEF Running, Chunked
    <3>2. v \in Uids /\ cached'[v] = cached[v]
      BY <1>4, <3>1, ActiveFact
    <3>3. v \in Running \ todo
      BY <3>1, <3>2 DEF Running, Chunked
    <3> QED
      BY <1>1, <3>2, <3>3 DEF Progress, CanDecode
  <2> QED
    BY <2>1, <2>2, <2>3 DEF Progress
<1>13. TreeOK(tree', Tokens, Slots, Active', handle')
  BY <1>2, <1>3, <1>6, <1>8, <1>9, Zenon
<1> QED
  BY <1>11, <1>12, <1>13 DEF IInv

(* A committed request holds the node a last match finds; its row is that  *)
(* node's slots and what is left of its own.                               *)
LEMMA RematchedFact ==
    ASSUME IInv, NEW u \in Active,
           NEW g, Agree(Active \ {u}, g, handle), Active \ {u} \subseteq DOMAIN g,
           NEW m, m = Rematched(u)
    PROVE  /\ TreeOK(m.tree, Tokens, Slots, Active \ {u}, g)
           /\ m.node \in Names(m.tree) \cup {<< >>} /\ m.node \in Seq(Tokens)
           /\ m.node # << >> => Live(m.tree, m.node)
           /\ Len(m.node) \in Nat /\ Len(m.node) <= cached[u]
<1>1. u \in Uids /\ TypeOK /\ Progress
  BY ActiveFact DEF IInv
<1>2. PICK U : U = Active \ {u}
  OBVIOUS
<1>3. U \subseteq DOMAIN g
  BY <1>2
<1>4. PICK t : t = Unlocked(u)
  OBVIOUS
<1>5. TreeOK(t, Tokens, Slots, U, g)
  BY <1>2, <1>4, UnlockedFact
<1>6. PICK w \in Seq(Tokens) : w = Text[u]
  BY <1>1, TextFact
<1>7. PICK a \in Nat : a = cached[u] /\ a <= Len(w)
  BY <1>1, <1>6, RequestFact
<1>8. PICK k \in Int : k = KeepFrom(a) /\ k <= a
  BY KeepFromFact
<1>9. k <= Len(w)
  <2>1. Len(w) \in Nat
    BY LenProperties
  <2> QED
    BY <1>7, <1>8, <2>1
<1>10. PICK e : e = SplitBefore(t, w, k)
  OBVIOUS
<1>11. TreeOK(e, Tokens, Slots, U, g)
  BY ONLY <1>3, <1>5, w \in Seq(Tokens), k \in Int, <1>9, <1>10, SplitBeforeFact
<1>12. PICK s : s = Computed(u)
  OBVIOUS
<1>13. s \in Seq(Tokens) /\ Len(s) = cached[u]
  BY <1>1, <1>12, ComputedFact
<1>14. m = Match(e, s)
  BY <1>4, <1>6, <1>7, <1>8, <1>10, <1>12 DEF Rematched
<1>15. /\ TreeOK(m.tree, Tokens, Slots, U, g)
       /\ m.node \in Names(m.tree) \cup {<< >>} /\ m.node \in Seq(Tokens)
       /\ IsPrefix(m.node, s)
       /\ m.node # << >> => Live(m.tree, m.node)
  BY ONLY <1>3, <1>11, <1>13, <1>14, MatchFact
<1>16. Len(m.node) \in Nat /\ Len(m.node) <= Len(s)
  BY ONLY <1>13, <1>15, PrefixLen
<1> QED
  BY <1>2, <1>13, <1>15, <1>16

LEMMA RepointedFact ==
    ASSUME NEW T, NEW P, NEW t, IsTree(Core(t), T, P), NEW n \in Names(t) \cup {<< >>},
           NEW r \in Seq(P), Len(n) \in Nat, Len(n) <= Len(r),
           NEW l, l = MatchedIndices(t, n), NEW y, y = Drop(r, Len(n))
    PROVE  l \o y \in Seq(P) /\ Len(l \o y) = Len(r)
<1>2. l \in Seq(P) /\ Len(l) = Len(n)
  BY MatchedOf
<1>3. PICK a \in Nat : a = Len(n)
  OBVIOUS
<1>4. PICK b \in Nat : b = Len(r)
  BY LenProperties
<1>5. PICK z : z = SubSeq(r, a + 1, b)
  OBVIOUS
<1>6. z \in Seq(P) /\ Len(z) = b - a
  BY <1>3, <1>4, <1>5, SliceFact
<1>7. y = z
  BY <1>3, <1>4, <1>5 DEF Drop
<1>8. l \o z \in Seq(P) /\ Len(l \o z) = Len(l) + Len(z)
  BY ONLY <1>2, <1>6, ConcatProperties
<1> QED
  BY <1>2, <1>3, <1>4, <1>6, <1>7, <1>8

LEMMA CommitIInv ==
    ASSUME IInv, NEW u \in Active, CanDecode(u), Commit(u),
           batch = << >>, batch' = batch, todo' = todo \ {u}
    PROVE  IInv'
<1>1. TypeOK /\ Progress /\ u \in Uids
  BY ActiveFact DEF IInv
<1>2. PICK m : m = Rematched(u)
  OBVIOUS
<1>3. PICK l : l = IncLock(m.tree, m.node)
  OBVIOUS
<1>4. PICK w : w = Repointed(u, m)
  OBVIOUS
<1>5. /\ tree' = l.tree /\ handle' = [handle EXCEPT ![u] = l.handle]
      /\ row' = [row EXCEPT ![u] = w]
      /\ free' = free \cup Inserted(u).freed /\ FreeSwa(Inserted(u).freed)
      /\ UNCHANGED <<status, cached, gone>>
  BY <1>2, <1>3, <1>4 DEF Commit
<1>6. Active' = Active
  BY <1>5 DEF Active
<1>7. PICK g : g = handle'
  OBVIOUS
<1>8. DOMAIN g = Uids /\ g[u] = l.handle /\ Agree(Active \ {u}, g, handle)
  BY <1>1, <1>5, <1>7, ActiveFact DEF Agree, TypeOK
<1>9. PICK U : U = Active \ {u}
  OBVIOUS
<1>10. /\ U \subseteq DOMAIN g /\ IsFiniteSet(U) /\ u \notin U /\ U \cup {u} = Active
       /\ Active \subseteq DOMAIN g
  BY <1>8, <1>9, ActiveFact, FS_Subset
<1>11. /\ TreeOK(m.tree, Tokens, Slots, U, g)
       /\ m.node \in Names(m.tree) \cup {<< >>} /\ m.node \in Seq(Tokens)
       /\ m.node # << >> => Live(m.tree, m.node)
       /\ Len(m.node) \in Nat /\ Len(m.node) <= cached[u]
  BY <1>2, <1>8, <1>9, <1>10, RematchedFact
<1>12. Inserted(u).freed \in SUBSET Slots
  BY <1>8, <1>9, <1>10, UnlockedFact
<1>13. PICK t : t = m.tree
  OBVIOUS
<1>14. PICK x : x = m.node
  OBVIOUS
<1>15. /\ TreeOK(t, Tokens, Slots, U, g) /\ x \in Names(t) \cup {<< >>}
       /\ x # << >> => Live(t, x)
       /\ l = IncLock(t, x) /\ x \in Seq(Tokens) /\ Len(x) \in Nat /\ Len(x) <= cached[u]
  BY <1>3, <1>11, <1>13, <1>14
<1>16. PICK d : d = l.tree
  OBVIOUS
<1>17. TreeOK(d, Tokens, Slots, Active, g)
  <2>1. Agree(U, g, g) /\ U \cup {u} \subseteq DOMAIN g /\ g[u] = l.handle
    BY <1>8, <1>10 DEF Agree
  <2>2. TreeOK(l.tree, Tokens, Slots, U \cup {u}, g)
    BY ONLY <1>10, <1>15, <2>1, IncLockFact
  <2> QED
    BY <1>10, <1>16, <2>2, Zenon
<1>18. PICK i \in Nat : l.handle = [node |-> x, uuid |-> i]
  BY ONLY <1>15, IncHandle
<1>19. w \in Seq(Slots) /\ Len(w) = cached[u]
  <2>1. PICK r \in Seq(Slots) : r = row[u]
    BY <1>1, RequestFact
  <2>2. Len(r) = cached[u] /\ cached[u] \in Nat
    BY <1>1, <2>1, RequestFact
  <2>3. PICK a : a = MatchedIndices(t, x)
    OBVIOUS
  <2>4. PICK y : y = Drop(r, Len(x))
    OBVIOUS
  <2>5. w = a \o y
    BY <1>4, <1>13, <1>14, <2>1, <2>3, <2>4 DEF Repointed
  <2>6. IsTree(Core(t), Tokens, Slots)
    BY <1>15 DEF TreeOK
  <2>7. Len(x) <= Len(r) /\ Len(x) \in Nat /\ x \in Names(t) \cup {<< >>}
    BY <1>15, <2>2
  <2>8. a \o y \in Seq(Slots) /\ Len(a \o y) = Len(r)
    BY ONLY r \in Seq(Slots), <2>3, <2>4, <2>6, <2>7, RepointedFact
  <2> QED
    BY <2>2, <2>5, <2>8
<1>20. TypeOK'
  <2>1. l.handle \in Handles
    BY <1>15, <1>18 DEF Handles
  <2>2. handle' \in [Uids -> Handles] /\ row' \in [Uids -> Seq(Slots)]
    BY <1>1, <1>5, <1>19, <2>1 DEF TypeOK
  <2>3. free' \in SUBSET Slots
    BY <1>1, <1>5, <1>12 DEF TypeOK
  <2>4. IsFiniteSet(mapped') /\ swaFree' \in Nat
    BY <1>1, <1>5, FreeSwaFact DEF TypeOK
  <2>5. todo' \in SUBSET Active'
    BY <1>1, <1>6 DEF TypeOK
  <2> QED
    BY <1>1, <1>5, <2>2, <2>3, <2>4, <2>5 DEF TypeOK
<1>21. Progress'
  <2>1. \A v \in Uids : Len(row'[v]) = cached'[v] /\ cached'[v] <= Len(Text[v])
    <3> TAKE v \in Uids
    <3>1. row'[v] = IF v = u THEN w ELSE row[v]
      BY <1>1, <1>5 DEF TypeOK
    <3> QED
      BY <1>1, <1>5, <1>19, <3>1 DEF Progress
  <2>2. /\ DOMAIN batch' = {} /\ batch' = [v \in DOMAIN batch' |-> batch'[v]]
        /\ batch' = << >>
    OBVIOUS
  <2>3. ASSUME NEW v \in Running' \ todo' PROVE CanDecode(v)'
    <3>1. v \in Running /\ (v = u \/ v \notin todo) /\ cached' = cached
      BY <1>5, <1>6, <2>3 DEF Running, Chunked
    <3>2. CanDecode(v)
      BY <1>1, <3>1 DEF Progress
    <3> QED
      BY <3>1, <3>2 DEF CanDecode
  <2> QED
    BY <2>1, <2>2, <2>3 DEF Progress
<1>22. TreeOK(tree', Tokens, Slots, Active', handle')
  BY <1>5, <1>6, <1>7, <1>16, <1>17, Zenon
<1> QED
  BY <1>20, <1>21, <1>22 DEF IInv

(* A drain that leaves the pools and the request as they are.              *)
LEMMA KeptIInv ==
    ASSUME IInv, NEW u \in Active, u \in Running => CanDecode(u),
           UNCHANGED <<poolVars, reqVars>>,
           batch = << >>, batch' = batch, todo' = todo \ {u}
    PROVE  IInv'
<1>1. TypeOK /\ Progress /\ TreeOK(tree, Tokens, Slots, Active, handle)
  BY DEF IInv
<1>2. /\ tree' = tree /\ free' = free /\ mapped' = mapped /\ swaFree' = swaFree
      /\ status' = status /\ cached' = cached /\ handle' = handle /\ row' = row /\ gone' = gone
  BY DEF poolVars, reqVars
<1>3. Active' = Active /\ Running' = Running
  BY <1>2 DEF Active, Running, Chunked
<1>4. TypeOK'
  BY <1>1, <1>2, <1>3 DEF TypeOK
<1>5. Progress'
  <2>1. /\ DOMAIN batch' = {} /\ batch' = [v \in DOMAIN batch' |-> batch'[v]]
        /\ batch' = << >>
    OBVIOUS
  <2>2. \A v \in Running' \ todo' : CanDecode(v)'
    BY <1>1, <1>2, <1>3 DEF Progress, CanDecode
  <2> QED
    BY <1>1, <1>2, <2>1, <2>2 DEF Progress
<1>6. TreeOK(tree', Tokens, Slots, Active', handle')
  BY <1>1, <1>2, <1>3, Zenon
<1> QED
  BY <1>4, <1>5, <1>6 DEF IInv

LEMMA DrainIInv ==
    ASSUME IInv, NEW u \in Uids, Drain(u)
    PROVE  IInv'
<1>1. /\ u \in todo /\ todo' = todo \ {u} /\ batch' = batch
      /\ \/ u \in Chunked /\ UNCHANGED <<poolVars, reqVars>>
         \/ u \in Running /\ Finish(u)
         \/ u \in Running /\ CanDecode(u) /\ Commit(u)
         \/ u \in Running /\ CanDecode(u) /\ UNCHANGED <<poolVars, reqVars>>
  BY DEF Drain
<1>2. batch = << >> /\ u \in Active
  BY <1>1 DEF IInv, TypeOK, Progress
<1>3. CASE u \in Chunked /\ UNCHANGED <<poolVars, reqVars>>
  <2>1. u \notin Running
    BY <1>3 DEF Running
  <2> QED
    BY <1>1, <1>2, <1>3, <2>1, KeptIInv
<1>4. CASE u \in Running /\ Finish(u)
  BY <1>1, <1>2, <1>4, FinishIInv
<1>5. CASE u \in Running /\ CanDecode(u) /\ Commit(u)
  BY <1>1, <1>2, <1>5, CommitIInv
<1>6. CASE u \in Running /\ CanDecode(u) /\ UNCHANGED <<poolVars, reqVars>>
  BY <1>1, <1>2, <1>6, KeptIInv
<1> QED
  BY <1>1, <1>3, <1>4, <1>5, <1>6

LEMMA AbortIInv ==
    ASSUME IInv, NEW u \in Uids, Abort(u)
    PROVE  IInv'
<1>1. batch = << >> /\ todo = {} /\ u \in Active /\ Finish(u) /\ batch' = batch /\ todo' = todo
  BY DEF Abort, Scheduling, loopVars
<1>2. todo' = todo \ {u}
  BY <1>1
<1> QED
  BY <1>1, <1>2, FinishIInv

-----------------------------------------------------------------------------
(* IInv is preserved by every step.                                        *)
LEMMA NextIInv == IInv /\ [Next]_vars => IInv'
<1> SUFFICES ASSUME IInv, [Next]_vars PROVE IInv'
  OBVIOUS
<1>1. ASSUME NEW u \in Uids, Admit(u) PROVE IInv'
  BY <1>1, AdmitIInv
<1>2. ASSUME NEW u \in Uids, Refuse(u) PROVE IInv'
  BY <1>2, RefuseIInv
<1>3. ASSUME NEW u \in Uids, Continue(u) PROVE IInv'
  BY <1>3, ContinueIInv
<1>4. ASSUME NEW u \in Uids, Drain(u) PROVE IInv'
  BY <1>4, DrainIInv
<1>5. ASSUME NEW u \in Uids, Abort(u) PROVE IInv'
  BY <1>5, AbortIInv
<1>6. ASSUME NEW due \in BOOLEAN, BeginDecode(due) PROVE IInv'
  BY <1>6, BeginDecodeIInv
<1>7. ASSUME NEW n, EvictFull(n) \/ EvictSwa(n) PROVE IInv'
  BY <1>7, EvictIInv
<1>8. CASE Forward
  BY <1>8, ForwardIInv
<1>9. CASE UNCHANGED vars
  <2>1. /\ UNCHANGED <<loopVars, reqVars>> /\ tree' = tree /\ free' = free
        /\ mapped' = mapped /\ swaFree' = swaFree
    BY <1>9 DEF vars, poolVars
  <2>2. /\ free' \in SUBSET Slots /\ IsFiniteSet(mapped') /\ swaFree' \in Nat
        /\ TreeOK(tree', Tokens, Slots, Active, handle)
    BY <2>1 DEF IInv, TypeOK
  <2> QED
    BY <2>1, <2>2, PoolStep
<1> QED
  BY <1>1, <1>2, <1>3, <1>4, <1>5, <1>6, <1>7, <1>8, <1>9 DEF Next

(* The tree is a radix tree whose full locks are the handles' paths and    *)
(* whose window locks are the trailing windows their marks delimit, under  *)
(* every admission, split, revival, lock, eviction and drain of            *)
(* CacheManager and SWARadixCache.                                         *)
THEOREM SwaInvariance == Spec => []IInv
<1>1. Init => IInv
  BY InitIInv
<1>2. IInv /\ [Next]_vars => IInv'
  BY NextIInv
<1> QED
  BY <1>1, <1>2, PTL DEF Spec

(* The counters admission and eviction trust are exact in both currencies, *)
(* a node's reference count is the number of requests below it, its window *)
(* lock never more than that, and no unlocked leaf is a tombstone.         *)
THEOREM SwaAccountsHold == Spec => []SwaAccountsExact
<1>1. IInv => SwaAccountsExact
  BY AccountsFromIInv
<1> QED
  BY <1>1, SwaInvariance, PTL
=============================================================================

-------------------------- MODULE PrefixStoreProofs --------------------------
(***************************************************************************)
(* Proofs about PrefixStore: its inductive invariant IInv, for every set   *)
(* of requests, every pool and every page size.                            *)
(***************************************************************************)
EXTENDS PrefixStore, TLAPS, SequenceTheorems

-----------------------------------------------------------------------------
(* Division by the page size.                                              *)

LEMMA DivFact ==
    ASSUME NEW n \in Nat
    PROVE  /\ n \div PageSize \in Nat
           /\ (n \div PageSize) * PageSize <= n
           /\ n < (n \div PageSize) * PageSize + PageSize
  BY PageSizeAssumption, SMTT(30)

LEMMA DivMul ==
    ASSUME NEW i \in Nat
    PROVE  (i * PageSize) \div PageSize = i
  BY PageSizeAssumption, SMTT(30)

LEMMA MulMonotonic ==
    ASSUME NEW i \in Nat, NEW j \in Nat
    PROVE  /\ i * PageSize \in Nat
           /\ i <= j <=> i * PageSize <= j * PageSize
           /\ i * PageSize = j * PageSize => i = j
  BY PageSizeAssumption, SMTT(30)

LEMMA FullPagesFact ==
    ASSUME NEW T, NEW s \in Seq(T), NEW i \in Nat
    PROVE  /\ FullPages(s) \in Nat
           /\ AllPages(s) \in Nat
           /\ FullPages(s) <= AllPages(s)
           /\ FullPages(s) * PageSize <= Len(s)
           /\ i <= FullPages(s) <=> i * PageSize <= Len(s)
           /\ Len(s) = FullPages(s) * PageSize => AllPages(s) = FullPages(s)
  <1>1. Len(s) \in Nat /\ Len(s) + PageSize - 1 \in Nat
    BY PageSizeAssumption, LenProperties
  <1>2. /\ FullPages(s) \in Nat
        /\ FullPages(s) * PageSize <= Len(s)
        /\ Len(s) < FullPages(s) * PageSize + PageSize
    BY <1>1, DivFact DEF FullPages
  <1>3. /\ AllPages(s) \in Nat
        /\ AllPages(s) * PageSize <= Len(s) + PageSize - 1
        /\ Len(s) + PageSize - 1 < AllPages(s) * PageSize + PageSize
    BY <1>1, DivFact DEF AllPages
  <1>4. FullPages(s) <= AllPages(s)
    BY <1>1, <1>2, <1>3, PageSizeAssumption, SMTT(30)
  <1>5. i <= FullPages(s) <=> i * PageSize <= Len(s)
    BY <1>1, <1>2, PageSizeAssumption, SMTT(30)
  <1>6. Len(s) = FullPages(s) * PageSize => AllPages(s) = FullPages(s)
    BY <1>1, <1>2, <1>3, PageSizeAssumption, SMTT(30)
  <1> QED BY <1>2, <1>3, <1>4, <1>5, <1>6

-----------------------------------------------------------------------------
(* Token sequences cut at page ends.                                       *)

LEMMA SubSeqFact ==
    ASSUME NEW T, NEW s \in Seq(T), NEW n \in Nat, n <= Len(s)
    PROVE  /\ SubSeq(s, 1, n) \in Seq(T)
           /\ Len(SubSeq(s, 1, n)) = n
           /\ \A k \in 1 .. n : SubSeq(s, 1, n)[k] = s[k]
  BY SMTT(30)

LEMMA UpToFact ==
    ASSUME NEW T, NEW s \in Seq(T), NEW i \in Nat
    PROVE  /\ UpTo(s, i) \in Seq(T)
           /\ i <= FullPages(s) => /\ UpTo(s, i) = SubSeq(s, 1, i * PageSize)
                                  /\ Len(UpTo(s, i)) = i * PageSize
                                  /\ FullPages(UpTo(s, i)) = i
  <1>1. Len(s) \in Nat /\ i * PageSize \in Nat
    BY LenProperties, MulMonotonic
  <1>2. UpTo(s, i) \in Seq(T)
    BY <1>1, SubSeqFact DEF UpTo
  <1>3. ASSUME i <= FullPages(s)
        PROVE  /\ UpTo(s, i) = SubSeq(s, 1, i * PageSize)
               /\ Len(UpTo(s, i)) = i * PageSize
               /\ FullPages(UpTo(s, i)) = i
    <2>1. i * PageSize <= Len(s)
      BY <1>3, FullPagesFact
    <2>2. UpTo(s, i) = SubSeq(s, 1, i * PageSize)
      BY <2>1 DEF UpTo
    <2>3. Len(UpTo(s, i)) = i * PageSize
      BY <1>1, <2>1, <2>2, SubSeqFact
    <2> QED BY <2>2, <2>3, DivMul DEF FullPages
  <1> QED BY <1>2, <1>3

LEMMA SubSeqSubSeq ==
    ASSUME NEW T, NEW s \in Seq(T), NEW m \in Nat, NEW n \in Nat,
           n <= m, m <= Len(s)
    PROVE  SubSeq(SubSeq(s, 1, m), 1, n) = SubSeq(s, 1, n)
  BY SMTT(30)

LEMMA UpToUpTo ==
    ASSUME NEW T, NEW s \in Seq(T), NEW i \in Nat, NEW j \in Nat,
           j <= i, i <= FullPages(s)
    PROVE  UpTo(UpTo(s, i), j) = UpTo(s, j)
  <1>1. j <= FullPages(s)
    BY FullPagesFact
  <1>2. /\ UpTo(s, i) \in Seq(T) /\ FullPages(UpTo(s, i)) = i
        /\ UpTo(s, i) = SubSeq(s, 1, i * PageSize)
        /\ UpTo(s, j) = SubSeq(s, 1, j * PageSize)
    BY <1>1, UpToFact
  <1>3. UpTo(UpTo(s, i), j) = SubSeq(SubSeq(s, 1, i * PageSize), 1, j * PageSize)
    BY <1>2, UpToFact
  <1>4. /\ i * PageSize \in Nat /\ j * PageSize \in Nat
        /\ j * PageSize <= i * PageSize /\ i * PageSize <= Len(s)
    BY FullPagesFact, MulMonotonic
  <1> QED BY <1>2, <1>3, <1>4, SubSeqSubSeq

(* A text that grows keeps its full pages.                                 *)
LEMMA UpToStable ==
    ASSUME NEW T, NEW s \in Seq(T), NEW t \in Seq(T),
           Len(s) <= Len(t), s = SubSeq(t, 1, Len(s)),
           NEW i \in Nat, i <= FullPages(s)
    PROVE  /\ i <= FullPages(t)
           /\ UpTo(t, i) = UpTo(s, i)
  <1>1. /\ i * PageSize \in Nat /\ i * PageSize <= Len(s)
        /\ Len(s) \in Nat /\ Len(t) \in Nat
    BY FullPagesFact, MulMonotonic, LenProperties
  <1>2. i <= FullPages(t)
    <2>1. i * PageSize <= Len(t)
      BY <1>1
    <2> QED BY <2>1, FullPagesFact
  <1>3. SubSeq(SubSeq(t, 1, Len(s)), 1, i * PageSize) = SubSeq(t, 1, i * PageSize)
    BY <1>1, SubSeqSubSeq
  <1>4. /\ UpTo(s, i) = SubSeq(s, 1, i * PageSize)
        /\ UpTo(t, i) = SubSeq(t, 1, i * PageSize)
    BY <1>2, UpToFact
  <1> QED BY <1>2, <1>3, <1>4

LEMMA EmptyFact ==
    ASSUME NEW T
    PROVE  /\ << >> \in Seq(T)
           /\ FullPages(<< >>) = 0 /\ AllPages(<< >>) = 0
           /\ Len(<< >>) = FullPages(<< >>) * PageSize
  <1>1. << >> \in Seq(T) /\ Len(<< >>) = 0
    OBVIOUS
  <1>2. 0 \div PageSize = 0 /\ 0 * PageSize = 0
    BY DivMul, PageSizeAssumption, SMTT(30)
  <1>3. FullPages(<< >>) = 0
    BY <1>1, <1>2 DEF FullPages
  <1> QED BY <1>1, <1>2, <1>3, FullPagesFact

-----------------------------------------------------------------------------
(* The invariant holds initially, and a stuttering step keeps it.          *)

LEMMA InitIInv == Init => IInv
  <1> SUFFICES ASSUME Init PROVE IInv
    OBVIOUS
  <1>1. \A T : << >> \in Seq(T)
    OBVIOUS
  <1>2. FullPages(<< >>) = 0 /\ AllPages(<< >>) = 0 /\ Len(<< >>) = 0
    BY EmptyFact
  <1>3. DOMAIN entry = {}
    BY DEF Init
  <1>4. entry \in [DOMAIN entry -> Pages]
    BY <1>3, SMT DEF Init
  <1>5. TypeOK
    BY <1>1, <1>3, <1>4 DEF Init, TypeOK
  <1>6. Shape
    BY <1>2 DEF Init, Shape
  <1>7. MapClosed /\ MapHoldsKeys
    BY <1>3 DEF MapClosed, PrefixClosed, MapHoldsKeys
  <1>8. HeldInMap
    BY DEF Init, HeldInMap
  <1>9. \A u \in Uids : Own(u) = {}
    BY <1>2 DEF Init, Own
  <1>10. NoPageTwice /\ NoPageLost /\ OwnHoldsText
    BY <1>3, <1>9 DEF Init, NoPageTwice, NoPageLost, OwnHoldsText
  <1> QED BY <1>5, <1>6, <1>7, <1>8, <1>10 DEF IInv

LEMMA StutterIInv == IInv /\ UNCHANGED vars => IInv'
  BY DEF vars, IInv, TypeOK, Shape, MapClosed, PrefixClosed, HeldInMap,
         NoPageTwice, NoPageLost, MapHoldsKeys, OwnHoldsText, Own

LEMMA EndDrainIInv == IInv /\ EndDrain => IInv'
  <1> SUFFICES ASSUME IInv, EndDrain PROVE IInv'
    OBVIOUS
  <1> USE DEF IInv
  <1>1. TypeOK'
    BY DEF EndDrain, TypeOK
  <1>2. Shape' /\ MapClosed' /\ HeldInMap' /\ MapHoldsKeys' /\ OwnHoldsText'
    BY DEF EndDrain, Shape, MapClosed, PrefixClosed, HeldInMap, MapHoldsKeys,
           OwnHoldsText, Own
  <1>3. NoPageTwice' /\ NoPageLost'
    BY DEF EndDrain, NoPageTwice, NoPageLost, Own
  <1> QED BY <1>1, <1>2, <1>3

-----------------------------------------------------------------------------
(* Facts of one state.                                                     *)

LEMMA StateFacts ==
    ASSUME IInv, NEW u \in Uids
    PROVE  /\ text[u] \in Seq(Tokens) /\ row[u] \in Seq(Pages)
           /\ held[u] \in Nat /\ FullPages(text[u]) \in Nat
           /\ held[u] <= FullPages(text[u])
           /\ FullPages(text[u]) <= Len(row[u])
           /\ Len(row[u]) \in Nat /\ Len(row[u]) = AllPages(text[u])
           /\ \A i \in 1 .. Len(row[u]) : row[u][i] \in Pages
           /\ Own(u) \subseteq 1 .. Len(row[u])
  <1>1. text[u] \in Seq(Tokens) /\ row[u] \in Seq(Pages) /\ held[u] \in Nat
    BY DEF IInv, TypeOK
  <1>2. FullPages(text[u]) \in Nat /\ FullPages(text[u]) <= AllPages(text[u])
    BY <1>1, FullPagesFact
  <1>3. held[u] <= FullPages(text[u]) /\ Len(row[u]) = AllPages(text[u])
    BY DEF IInv, Shape
  <1>4. Len(row[u]) \in Nat /\ \A i \in 1 .. Len(row[u]) : row[u][i] \in Pages
    BY <1>1, ElementOfSeq, LenProperties
  <1>5. Own(u) \subseteq 1 .. Len(row[u])
    BY <1>1, <1>4 DEF Own
  <1> QED BY <1>1, <1>2, <1>3, <1>4, <1>5

(* A request that holds no row has no pages.                               *)
LEMMA InactiveFact ==
    ASSUME IInv, NEW u \in Uids, u \notin active
    PROVE  text[u] = << >> /\ held[u] = 0 /\ Len(row[u]) = 0 /\ Own(u) = {}
  <1>1. text[u] = << >> /\ held[u] = 0
    BY DEF IInv, Shape
  <1>2. Len(row[u]) = 0
    BY <1>1, EmptyFact DEF IInv, Shape
  <1> QED BY <1>1, <1>2 DEF Own

-----------------------------------------------------------------------------
(* A request starts: its row is the map's, it owns nothing.                *)

LEMMA BeginIInv ==
    ASSUME IInv, NEW u \in Uids, NEW s \in DOMAIN entry \cup {<< >>}, Begin(u, s)
    PROVE  IInv'
  <1>1. s \in Seq(Tokens) /\ Len(s) = FullPages(s) * PageSize
    BY EmptyFact DEF IInv, TypeOK, MapClosed
  <1>2. FullPages(s) \in Nat /\ AllPages(s) = FullPages(s)
    BY <1>1, FullPagesFact
  <1>3. \A i \in 1 .. FullPages(s) : UpTo(s, i) \in DOMAIN entry
    BY EmptyFact DEF IInv, MapClosed, PrefixClosed
  <1> DEFINE ps == PagesOf(entry, s)
  <1>4. /\ ps \in Seq(Pages) /\ Len(ps) = FullPages(s)
        /\ \A i \in 1 .. FullPages(s) : ps[i] = entry[UpTo(s, i)]
    <2>1. ps \in [1 .. FullPages(s) -> Pages]
      BY <1>3 DEF PagesOf, IInv, TypeOK
    <2>2. ps \in Seq(Pages) /\ Len(ps) = FullPages(s)
      BY <2>1, <1>2
    <2> QED BY <2>2 DEF PagesOf
  <1> HIDE DEF ps
  <1>5. /\ u \notin active /\ active' = active \cup {u}
        /\ text' = [text EXCEPT ![u] = s] /\ row' = [row EXCEPT ![u] = ps]
        /\ held' = [held EXCEPT ![u] = FullPages(s)]
        /\ UNCHANGED <<free, deferred, content, entry>>
    BY DEF Begin, ps
  <1>6. TypeOK'
    BY <1>1, <1>2, <1>4, <1>5 DEF IInv, TypeOK
  <1>7. /\ text'[u] = s /\ row'[u] = ps /\ held'[u] = FullPages(s)
        /\ \A v \in Uids \ {u} : /\ text'[v] = text[v] /\ row'[v] = row[v]
                                 /\ held'[v] = held[v]
    BY <1>5 DEF IInv, TypeOK
  <1>8. Shape'
    BY <1>2, <1>4, <1>5, <1>7 DEF IInv, Shape
  <1>9. MapClosed' /\ MapHoldsKeys'
    BY <1>5 DEF IInv, MapClosed, PrefixClosed, MapHoldsKeys
  <1>10. HeldInMap'
    BY <1>3, <1>4, <1>5, <1>7 DEF IInv, TypeOK, HeldInMap
  <1>11. /\ Own(u) = {} /\ Own(u)' = {}
         /\ \A v \in Uids \ {u} : Own(v)' = Own(v)
    BY <1>2, <1>4, <1>5, <1>7, InactiveFact DEF Own
  <1>12. NoPageTwice'
    <2>1. \A v, w \in Uids : \A i \in Own(v)', j \in Own(w)' :
             row'[v][i] = row'[w][j] => v = w /\ i = j
      BY <1>7, <1>11 DEF IInv, NoPageTwice
    <2>2. \A v \in Uids : \A i \in Own(v)' :
             /\ row'[v][i] \notin free' \cup deferred'
             /\ \A k \in DOMAIN entry' : row'[v][i] # entry'[k]
      BY <1>5, <1>7, <1>11 DEF IInv, NoPageTwice
    <2> QED BY <1>5, <2>1, <2>2 DEF IInv, NoPageTwice
  <1>13. NoPageLost' /\ OwnHoldsText'
    BY <1>5, <1>7, <1>11 DEF IInv, NoPageLost, OwnHoldsText
  <1> QED BY <1>6, <1>8, <1>9, <1>10, <1>12, <1>13 DEF IInv

-----------------------------------------------------------------------------
(* A text enters the map.                                                  *)

LEMMA InsertFact ==
    ASSUME IInv, NEW u \in active,
           NEW E, E = Insert(entry, u),
           NEW D, D = Duplicate(u, DOMAIN entry)
    PROVE  /\ DOMAIN E \subseteq Seq(Tokens) /\ E \in [DOMAIN E -> Pages]
           /\ DOMAIN entry \subseteq DOMAIN E
           /\ \A k \in DOMAIN entry : E[k] = entry[k]
           /\ D \subseteq Unheld(u)
           /\ \A i \in D : UpTo(text[u], i) \in DOMAIN entry
           /\ \A i \in Unheld(u) : UpTo(text[u], i) \in DOMAIN E
           /\ \A i \in Unheld(u) \ D : E[UpTo(text[u], i)] = row[u][i]
           /\ \A k \in DOMAIN E \ DOMAIN entry : \E i \in Unheld(u) \ D :
                 k = UpTo(text[u], i) /\ E[k] = row[u][i]
           /\ Unheld(u) \subseteq Own(u)
  <1>0. u \in Uids
    BY DEF IInv, TypeOK
  <1>1. /\ text[u] \in Seq(Tokens) /\ held[u] \in Nat
        /\ FullPages(text[u]) \in Nat /\ FullPages(text[u]) <= Len(row[u])
        /\ Len(row[u]) \in Nat
        /\ \A i \in 1 .. Len(row[u]) : row[u][i] \in Pages
    BY <1>0, StateFacts
  <1>2. /\ Unheld(u) \subseteq Own(u) /\ D \subseteq Unheld(u)
        /\ Unheld(u) \subseteq 1 .. FullPages(text[u])
    BY <1>1 DEF Unheld, Own, Duplicate
  <1>3. \A i \in Unheld(u) : UpTo(text[u], i) \in DOMAIN entry <=> i \in D
    BY DEF Duplicate
  <1>4. \A i \in Unheld(u) : /\ UpTo(text[u], i) \in Seq(Tokens)
                             /\ FullPages(UpTo(text[u], i)) = i
                             /\ row[u][i] \in Pages
    <2> SUFFICES ASSUME NEW i \in Unheld(u)
                 PROVE  /\ UpTo(text[u], i) \in Seq(Tokens)
                        /\ FullPages(UpTo(text[u], i)) = i
                        /\ row[u][i] \in Pages
      OBVIOUS
    <2>1. i \in Nat /\ i <= FullPages(text[u]) /\ i \in 1 .. Len(row[u])
      BY <1>1, <1>2
    <2> QED BY <1>1, <2>1, UpToFact
  <1> DEFINE N == NewKeys(u, DOMAIN entry)
  <1>5. N = {UpTo(text[u], i) : i \in Unheld(u) \ D}
    BY <1>3 DEF NewKeys
  <1> HIDE DEF N
  <1>6. E = [k \in DOMAIN entry \cup N |->
               IF k \in DOMAIN entry THEN entry[k] ELSE row[u][FullPages(k)]]
    BY DEF Insert, N
  <1>7. DOMAIN E = DOMAIN entry \cup N /\ N \cap DOMAIN entry = {}
    BY <1>6 DEF N, NewKeys
  <1>8. \A k \in DOMAIN entry : E[k] = entry[k]
    BY <1>6
  <1>9. \A i \in Unheld(u) \ D : /\ UpTo(text[u], i) \in DOMAIN E
                                 /\ E[UpTo(text[u], i)] = row[u][i]
    BY <1>3, <1>4, <1>5, <1>6
  <1>10. \A i \in D : UpTo(text[u], i) \in DOMAIN entry
    BY <1>2, <1>3
  <1>11. \A k \in N : \E i \in Unheld(u) \ D :
            k = UpTo(text[u], i) /\ E[k] = row[u][i]
    BY <1>5, <1>9
  <1>12. DOMAIN E \subseteq Seq(Tokens)
    BY <1>4, <1>5, <1>7 DEF IInv, TypeOK
  <1>13. \A k \in DOMAIN E : E[k] \in Pages
    BY <1>4, <1>7, <1>8, <1>11 DEF IInv, TypeOK
  <1>14. E \in [DOMAIN E -> Pages]
    BY <1>6, <1>13
  <1> QED BY <1>2, <1>7, <1>8, <1>9, <1>10, <1>11, <1>12, <1>14

(* The larger map is closed, has no page twice and holds its keys.         *)
LEMMA InsertInvariant ==
    ASSUME IInv, NEW u \in active, NEW E, E = Insert(entry, u)
    PROVE  /\ \A k \in DOMAIN E : Len(k) = FullPages(k) * PageSize
           /\ PrefixClosed(DOMAIN E)
           /\ \A k, l \in DOMAIN E : E[k] = E[l] => k = l
           /\ \A k \in DOMAIN E : E[k] \notin free \cup deferred
           /\ \A k \in DOMAIN E : content[E[k]] = k
           /\ \A k \in DOMAIN E : \A v \in Uids : \A i \in Own(v) :
                 row[v][i] = E[k] =>
                    v = u /\ i \in Unheld(u) \ Duplicate(u, DOMAIN entry)
  <1> DEFINE D == Duplicate(u, DOMAIN entry)
  <1>0. u \in Uids
    BY DEF IInv, TypeOK
  <1>1. /\ DOMAIN entry \subseteq DOMAIN E
        /\ \A k \in DOMAIN entry : E[k] = entry[k]
        /\ \A i \in Unheld(u) : UpTo(text[u], i) \in DOMAIN E
        /\ \A k \in DOMAIN E \ DOMAIN entry : \E i \in Unheld(u) \ D :
              k = UpTo(text[u], i) /\ E[k] = row[u][i]
        /\ Unheld(u) \subseteq Own(u)
    BY InsertFact
  <1> HIDE DEF D
  <1>2. /\ text[u] \in Seq(Tokens) /\ held[u] \in Nat
        /\ FullPages(text[u]) \in Nat
        /\ Unheld(u) \subseteq 1 .. FullPages(text[u])
    BY <1>0, StateFacts DEF Unheld
  <1>3. \A k \in DOMAIN E : Len(k) = FullPages(k) * PageSize
    <2>1. ASSUME NEW i \in Unheld(u)
          PROVE  Len(UpTo(text[u], i)) = FullPages(UpTo(text[u], i)) * PageSize
      BY <1>2, UpToFact
    <2> QED BY <1>1, <2>1 DEF IInv, MapClosed
  <1>4. PrefixClosed(DOMAIN E)
    <2> SUFFICES ASSUME NEW k \in DOMAIN E, NEW j \in 1 .. FullPages(k)
                 PROVE  UpTo(k, j) \in DOMAIN E
      BY DEF PrefixClosed
    <2>1. CASE k \in DOMAIN entry
      BY <1>1, <2>1 DEF IInv, MapClosed, PrefixClosed
    <2>2. CASE k \notin DOMAIN entry
      <3>1. PICK i \in Unheld(u) : k = UpTo(text[u], i)
        BY <1>1, <2>2
      <3>2. i \in Nat /\ i <= FullPages(text[u]) /\ FullPages(k) = i /\ j \in 1 .. i
        BY <1>2, <3>1, UpToFact
      <3>3. UpTo(k, j) = UpTo(text[u], j)
        BY <1>2, <3>1, <3>2, UpToUpTo
      <3>4. CASE j <= held[u]
        BY <1>1, <1>2, <3>2, <3>3, <3>4 DEF IInv, HeldInMap
      <3>5. CASE ~ (j <= held[u])
        <4>1. j \in Unheld(u)
          BY <1>2, <3>2, <3>5 DEF Unheld
        <4> QED BY <1>1, <3>3, <4>1
      <3> QED BY <3>4, <3>5
    <2> QED BY <2>1, <2>2
  <1>5. \A k, l \in DOMAIN E : E[k] = E[l] => k = l
    <2> SUFFICES ASSUME NEW k \in DOMAIN E, NEW l \in DOMAIN E, E[k] = E[l]
                 PROVE  k = l
      OBVIOUS
    <2>1. CASE k \in DOMAIN entry /\ l \in DOMAIN entry
      BY <1>1, <2>1 DEF IInv, NoPageTwice
    <2>2. CASE k \in DOMAIN entry /\ l \notin DOMAIN entry
      BY <1>0, <1>1, <2>2 DEF IInv, NoPageTwice
    <2>3. CASE k \notin DOMAIN entry /\ l \in DOMAIN entry
      BY <1>0, <1>1, <2>3 DEF IInv, NoPageTwice
    <2>4. CASE k \notin DOMAIN entry /\ l \notin DOMAIN entry
      <3>1. PICK i \in Unheld(u), j \in Unheld(u) :
               /\ k = UpTo(text[u], i) /\ E[k] = row[u][i]
               /\ l = UpTo(text[u], j) /\ E[l] = row[u][j]
        BY <1>1, <2>4
      <3>2. i = j
        BY <1>0, <1>1, <3>1 DEF IInv, NoPageTwice
      <3> QED BY <3>1, <3>2
    <2> QED BY <2>1, <2>2, <2>3, <2>4
  <1>6. \A k \in DOMAIN E : E[k] \notin free \cup deferred
    BY <1>0, <1>1 DEF IInv, NoPageTwice
  <1>7. \A k \in DOMAIN E : content[E[k]] = k
    BY <1>0, <1>1 DEF IInv, MapHoldsKeys, OwnHoldsText
  <1>8. ASSUME NEW k \in DOMAIN E, NEW v \in Uids, NEW i \in Own(v),
               row[v][i] = E[k]
        PROVE  v = u /\ i \in Unheld(u) \ D
    <2>1. k \notin DOMAIN entry
      BY <1>1, <1>8 DEF IInv, NoPageTwice
    <2>2. PICK j \in Unheld(u) \ D : E[k] = row[u][j]
      BY <1>1, <2>1
    <2>3. v = u /\ i = j
      BY <1>0, <1>1, <1>8, <2>2 DEF IInv, NoPageTwice
    <2> QED BY <2>2, <2>3
  <1> QED BY <1>3, <1>4, <1>5, <1>6, <1>7, <1>8 DEF D

-----------------------------------------------------------------------------
(* Commit: the full pages of u are the map's, its duplicates deferred.     *)

LEMMA CommitIInv ==
    ASSUME IInv, NEW u \in Uids, Commit(u)
    PROVE  IInv'
  <1> DEFINE E == Insert(entry, u)
             D == Duplicate(u, DOMAIN entry)
             R == Repointed(entry, u)
             F == FullPages(text[u])
  <1>1. /\ u \in active
        /\ UNCHANGED <<active, text, free, content>>
        /\ held' = [held EXCEPT ![u] = F]
        /\ deferred' = deferred \cup {row[u][i] : i \in D}
        /\ row' = [row EXCEPT ![u] = R]
        /\ entry' = E
    BY DEF Commit
  <1>2. /\ DOMAIN E \subseteq Seq(Tokens) /\ E \in [DOMAIN E -> Pages]
        /\ DOMAIN entry \subseteq DOMAIN E
        /\ \A k \in DOMAIN entry : E[k] = entry[k]
        /\ D \subseteq Unheld(u)
        /\ \A i \in D : UpTo(text[u], i) \in DOMAIN entry
        /\ \A i \in Unheld(u) : UpTo(text[u], i) \in DOMAIN E
        /\ \A i \in Unheld(u) \ D : E[UpTo(text[u], i)] = row[u][i]
        /\ Unheld(u) \subseteq Own(u)
    BY <1>1, InsertFact
  <1>3. /\ \A k \in DOMAIN E : Len(k) = FullPages(k) * PageSize
        /\ PrefixClosed(DOMAIN E)
        /\ \A k, l \in DOMAIN E : E[k] = E[l] => k = l
        /\ \A k \in DOMAIN E : E[k] \notin free \cup deferred
        /\ \A k \in DOMAIN E : content[E[k]] = k
        /\ \A k \in DOMAIN E : \A v \in Uids : \A i \in Own(v) :
              row[v][i] = E[k] => v = u /\ i \in Unheld(u) \ D
    BY <1>1, InsertInvariant
  <1>4. /\ text[u] \in Seq(Tokens) /\ row[u] \in Seq(Pages)
        /\ held[u] \in Nat /\ F \in Nat /\ held[u] <= F /\ F <= Len(row[u])
        /\ Len(row[u]) \in Nat
        /\ \A i \in 1 .. Len(row[u]) : row[u][i] \in Pages
    BY StateFacts
  <1>5. Unheld(u) = held[u] + 1 .. F
    BY DEF Unheld
  <1>6. R = [i \in 1 .. Len(row[u]) |->
               IF i \in D THEN entry[UpTo(text[u], i)] ELSE row[u][i]]
    BY DEF Repointed
  <1> HIDE DEF E, D, R, F
  <1>7. \A i \in D : entry[UpTo(text[u], i)] \in Pages
    BY <1>2 DEF IInv, TypeOK
  <1>8. R \in Seq(Pages) /\ Len(R) = Len(row[u])
    <2>1. R \in [1 .. Len(row[u]) -> Pages]
      BY <1>4, <1>6, <1>7
    <2> QED BY <1>4, <2>1
  <1>9. TypeOK'
    <2>1. {row[u][i] : i \in D} \subseteq Pages
      BY <1>2, <1>4, <1>5
    <2> QED BY <1>1, <1>2, <1>4, <1>8, <2>1 DEF IInv, TypeOK
  <1>10. /\ held'[u] = F /\ row'[u] = R
         /\ \A v \in Uids \ {u} : row'[v] = row[v] /\ held'[v] = held[v]
    BY <1>1 DEF IInv, TypeOK
  <1>11. Shape'
    <2> SUFFICES ASSUME NEW v \in Uids
                 PROVE  /\ held'[v] <= FullPages(text[v])
                        /\ Len(row'[v]) = AllPages(text[v])
                        /\ v \notin active => text[v] = << >> /\ held'[v] = 0
      BY <1>1 DEF Shape
    <2>1. CASE v = u
      BY <1>1, <1>4, <1>8, <1>10, <2>1 DEF IInv, Shape, F
    <2>2. CASE v # u
      BY <1>10, <2>2 DEF IInv, Shape
    <2> QED BY <2>1, <2>2
  <1>12. MapClosed' /\ MapHoldsKeys'
    BY <1>1, <1>3 DEF MapClosed, PrefixClosed, MapHoldsKeys
  <1>13. HeldInMap'
    <2> SUFFICES ASSUME NEW v \in active, NEW i \in 1 .. held'[v]
                 PROVE  /\ UpTo(text[v], i) \in DOMAIN E
                        /\ row'[v][i] = E[UpTo(text[v], i)]
      BY <1>1 DEF HeldInMap
    <2>0. v \in Uids
      BY DEF IInv, TypeOK
    <2>1. CASE v # u
      BY <1>2, <1>10, <2>0, <2>1 DEF IInv, HeldInMap
    <2>2. CASE v = u /\ i \in Unheld(u)
      <3>1. row'[u][i] = IF i \in D THEN entry[UpTo(text[u], i)] ELSE row[u][i]
        BY <1>4, <1>5, <1>6, <1>10, <2>2
      <3> QED BY <1>2, <2>2, <3>1
    <2>3. CASE v = u /\ i \notin Unheld(u)
      <3>1. i \in 1 .. held[u] /\ i \in 1 .. Len(row[u]) /\ i \notin D
        BY <1>2, <1>4, <1>5, <1>10, <2>3
      <3>2. row'[u][i] = row[u][i]
        BY <1>6, <1>10, <3>1
      <3> QED BY <1>2, <2>3, <3>1, <3>2 DEF IInv, HeldInMap
    <2> QED BY <2>1, <2>2, <2>3
  <1>14. /\ \A v \in Uids \ {u} : Own(v)' = Own(v)
         /\ Own(u)' = Own(u) \ Unheld(u)
    BY <1>4, <1>5, <1>8, <1>10 DEF Own
  <1>15. \A v \in Uids : \A i \in Own(v)' : row'[v][i] = row[v][i]
    <2> SUFFICES ASSUME NEW i \in Own(u)' PROVE row'[u][i] = row[u][i]
      BY <1>10, <1>14
    <2>1. i \in 1 .. Len(row[u]) /\ i \notin D
      BY <1>2, <1>4, <1>14 DEF Own
    <2> QED BY <1>6, <1>10, <2>1
  <1>16. \A v \in Uids : Own(v)' \subseteq Own(v)
    BY <1>14
  <1>17. NoPageTwice'
    <2>1. \A v, w \in Uids : \A i \in Own(v)', j \in Own(w)' :
             row'[v][i] = row'[w][j] => v = w /\ i = j
      BY <1>15, <1>16 DEF IInv, NoPageTwice
    <2>2. ASSUME NEW v \in Uids, NEW i \in Own(v)'
          PROVE  row'[v][i] \notin free' \cup deferred'
      <3>1. i \in Own(v) /\ (v = u => i \notin D)
        BY <1>2, <1>14
      <3>2. \A j \in D : row[v][i] # row[u][j]
        BY <1>2, <3>1 DEF IInv, NoPageTwice
      <3> QED BY <1>1, <1>15, <3>1, <3>2 DEF IInv, NoPageTwice
    <2>3. ASSUME NEW v \in Uids, NEW i \in Own(v)', NEW k \in DOMAIN E
          PROVE  row'[v][i] # E[k]
      BY <1>3, <1>14, <1>15, <1>16
    <2>4. ASSUME NEW k \in DOMAIN E PROVE E[k] \notin free' \cup deferred'
      <3>1. \A j \in D : E[k] # row[u][j]
        BY <1>2, <1>3
      <3> QED BY <1>1, <1>3, <3>1
    <2>5. free' \cap deferred' = {}
      <3>1. \A j \in D : row[u][j] \notin free
        BY <1>2 DEF IInv, NoPageTwice
      <3> QED BY <1>1, <3>1 DEF IInv, NoPageTwice
    <2> QED BY <1>1, <1>3, <2>1, <2>2, <2>3, <2>4, <2>5 DEF NoPageTwice
  <1>18. NoPageLost'
    <2> SUFFICES ASSUME NEW p \in Pages
                 PROVE  \/ p \in free' \cup deferred'
                        \/ \E k \in DOMAIN E : p = E[k]
                        \/ \E v \in Uids : \E i \in Own(v)' : p = row'[v][i]
      BY <1>1 DEF NoPageLost
    <2>1. CASE p \in free \cup deferred
      BY <1>1, <2>1
    <2>2. CASE \E k \in DOMAIN entry : p = entry[k]
      BY <1>2, <2>2
    <2>3. ASSUME NEW v \in Uids, NEW i \in Own(v), p = row[v][i]
          PROVE  \/ p \in free' \cup deferred'
                 \/ \E k \in DOMAIN E : p = E[k]
                 \/ \E w \in Uids : \E j \in Own(w)' : p = row'[w][j]
      <3>1. CASE v = u /\ i \in D
        BY <1>1, <2>3, <3>1
      <3>2. CASE v = u /\ i \in Unheld(u) \ D
        BY <1>2, <2>3, <3>2
      <3>3. CASE i \in Own(v)'
        BY <1>15, <2>3, <3>3
      <3> QED BY <1>14, <3>1, <3>2, <3>3
    <2> QED BY <2>1, <2>2, <2>3 DEF IInv, NoPageLost
  <1>19. OwnHoldsText'
    BY <1>1, <1>15, <1>16 DEF IInv, OwnHoldsText
  <1> QED BY <1>9, <1>11, <1>12, <1>13, <1>17, <1>18, <1>19 DEF IInv

-----------------------------------------------------------------------------
(* A request ends: it keeps nothing.                                       *)

LEMMA RetireIInv ==
    ASSUME IInv, NEW u \in Uids, RetireNow(u) \/ RetireInDrain(u)
    PROVE  IInv'
  <1> DEFINE E == Insert(entry, u)
             D == Duplicate(u, DOMAIN entry)
             L == Leftover(u)
  <1>1. /\ u \in active /\ active' = active \ {u}
        /\ text' = [text EXCEPT ![u] = << >>]
        /\ row' = [row EXCEPT ![u] = << >>]
        /\ held' = [held EXCEPT ![u] = 0]
        /\ entry' = E
        /\ UNCHANGED content
        /\ \/ free' = free \cup L /\ deferred' = deferred
           \/ deferred' = deferred \cup L /\ free' = free
    BY DEF RetireNow, RetireInDrain, Retire
  <1>2. /\ DOMAIN E \subseteq Seq(Tokens) /\ E \in [DOMAIN E -> Pages]
        /\ DOMAIN entry \subseteq DOMAIN E
        /\ \A k \in DOMAIN entry : E[k] = entry[k]
        /\ D \subseteq Unheld(u)
        /\ \A i \in Unheld(u) : UpTo(text[u], i) \in DOMAIN E
        /\ \A i \in Unheld(u) \ D : E[UpTo(text[u], i)] = row[u][i]
        /\ Unheld(u) \subseteq Own(u)
    BY <1>1, InsertFact
  <1>3. /\ \A k \in DOMAIN E : Len(k) = FullPages(k) * PageSize
        /\ PrefixClosed(DOMAIN E)
        /\ \A k, l \in DOMAIN E : E[k] = E[l] => k = l
        /\ \A k \in DOMAIN E : E[k] \notin free \cup deferred
        /\ \A k \in DOMAIN E : content[E[k]] = k
        /\ \A k \in DOMAIN E : \A v \in Uids : \A i \in Own(v) :
              row[v][i] = E[k] => v = u /\ i \in Unheld(u) \ D
    BY <1>1, InsertInvariant
  <1>4. /\ held[u] \in Nat /\ FullPages(text[u]) \in Nat
        /\ held[u] <= FullPages(text[u]) /\ FullPages(text[u]) <= Len(row[u])
        /\ Len(row[u]) \in Nat
        /\ \A i \in 1 .. Len(row[u]) : row[u][i] \in Pages
    BY StateFacts
  <1> DEFINE G == D \cup (Own(u) \ Unheld(u))
  <1>5. L = {row[u][i] : i \in G}
    BY <1>4 DEF Leftover, Own, Unheld
  <1> HIDE DEF E, D, L, G
  <1>6. G \subseteq Own(u) /\ G \cap (Unheld(u) \ D) = {}
    BY <1>2 DEF G
  <1>7. L \subseteq Pages
    BY <1>4, <1>5, <1>6 DEF Own
  <1>8. << >> \in Seq(Tokens) /\ << >> \in Seq(Pages)
    OBVIOUS
  <1>9. TypeOK'
    <2>1. free' \subseteq Pages /\ deferred' \subseteq Pages
      BY <1>1, <1>7 DEF IInv, TypeOK
    <2> QED BY <1>1, <1>2, <1>8, <2>1 DEF IInv, TypeOK
  <1>10. /\ text'[u] = << >> /\ held'[u] = 0 /\ row'[u] = << >>
         /\ \A v \in Uids \ {u} : /\ row'[v] = row[v] /\ held'[v] = held[v]
                                  /\ text'[v] = text[v]
    BY <1>1 DEF IInv, TypeOK
  <1>11. Shape'
    BY <1>1, <1>10, EmptyFact DEF IInv, Shape
  <1>12. MapClosed' /\ MapHoldsKeys'
    BY <1>1, <1>3 DEF MapClosed, PrefixClosed, MapHoldsKeys
  <1>13. HeldInMap'
    BY <1>1, <1>2, <1>10 DEF IInv, TypeOK, HeldInMap
  <1>14. Own(u)' = {} /\ \A v \in Uids \ {u} : Own(v)' = Own(v)
    BY <1>10, EmptyFact DEF Own
  <1>15. \A p \in L : /\ p \notin free \cup deferred
                      /\ \A k \in DOMAIN E : p # E[k]
                      /\ \A v \in Uids \ {u} : \A i \in Own(v) : p # row[v][i]
    <2> SUFFICES ASSUME NEW j \in G
                 PROVE  /\ row[u][j] \notin free \cup deferred
                        /\ \A k \in DOMAIN E : row[u][j] # E[k]
                        /\ \A v \in Uids \ {u} : \A i \in Own(v) :
                              row[u][j] # row[v][i]
      BY <1>5
    <2> QED BY <1>3, <1>6 DEF IInv, NoPageTwice
  <1>16. NoPageTwice'
    <2>1. \A v, w \in Uids : \A i \in Own(v)', j \in Own(w)' :
             row'[v][i] = row'[w][j] => v = w /\ i = j
      BY <1>10, <1>14 DEF IInv, NoPageTwice
    <2>2. ASSUME NEW v \in Uids, NEW i \in Own(v)'
          PROVE  /\ row'[v][i] \notin free' \cup deferred'
                 /\ \A k \in DOMAIN E : row'[v][i] # E[k]
      <3>1. v # u /\ i \in Own(v) /\ row'[v][i] = row[v][i]
        BY <1>10, <1>14
      <3>2. row[v][i] \notin free \cup deferred \cup L
        BY <1>15, <3>1 DEF IInv, NoPageTwice
      <3> QED BY <1>1, <1>3, <3>1, <3>2
    <2>3. \A k \in DOMAIN E : E[k] \notin free' \cup deferred'
      BY <1>1, <1>3, <1>15
    <2>4. free' \cap deferred' = {}
      BY <1>1, <1>15 DEF IInv, NoPageTwice
    <2> QED BY <1>1, <1>3, <2>1, <2>2, <2>3, <2>4 DEF NoPageTwice
  <1>17. NoPageLost'
    <2> SUFFICES ASSUME NEW p \in Pages
                 PROVE  \/ p \in free' \cup deferred'
                        \/ \E k \in DOMAIN E : p = E[k]
                        \/ \E v \in Uids : \E i \in Own(v)' : p = row'[v][i]
      BY <1>1 DEF NoPageLost
    <2>1. CASE p \in free \cup deferred
      BY <1>1, <2>1
    <2>2. CASE \E k \in DOMAIN entry : p = entry[k]
      BY <1>2, <2>2
    <2>3. ASSUME NEW v \in Uids, NEW i \in Own(v), p = row[v][i]
          PROVE  \/ p \in free' \cup deferred'
                 \/ \E k \in DOMAIN E : p = E[k]
                 \/ \E w \in Uids : \E j \in Own(w)' : p = row'[w][j]
      <3>1. CASE v # u
        BY <1>10, <1>14, <2>3, <3>1
      <3>2. CASE v = u /\ i \in G
        BY <1>1, <1>5, <2>3, <3>2
      <3>3. CASE v = u /\ i \in Unheld(u) \ D
        BY <1>2, <2>3, <3>3
      <3> QED BY <2>3, <3>1, <3>2, <3>3 DEF G
    <2> QED BY <2>1, <2>2, <2>3 DEF IInv, NoPageLost
  <1>18. OwnHoldsText'
    BY <1>1, <1>10, <1>14 DEF IInv, OwnHoldsText
  <1> QED BY <1>9, <1>11, <1>12, <1>13, <1>16, <1>17, <1>18 DEF IInv

-----------------------------------------------------------------------------
(* A forward: what is written is written into pages the request owns, and  *)
(* an evicted page is in no row.                                           *)

LEMMA ForwardRows ==
    ASSUME IInv, Forward, NEW u \in Uids
    PROVE  /\ text'[u] \in Seq(Tokens) /\ row'[u] \in Seq(Pages)
           /\ Len(row'[u]) = AllPages(text'[u])
           /\ FullPages(text[u]) <= FullPages(text'[u])
           /\ \A i \in 1 .. FullPages(text[u]) : UpTo(text'[u], i) = UpTo(text[u], i)
           /\ \A i \in 1 .. Len(row[u]) : row'[u][i] = row[u][i]
           /\ Own(u)' = Own(u) \cup Grown(u)
           /\ Own(u) \cap Grown(u) = {}
           /\ Written(u) \subseteq Own(u)'
           /\ \A i \in Own(u) \ Written(u) : i \in 1 .. FullPages(text[u])
  <1>1. /\ text[u] \in Seq(Tokens) /\ row[u] \in Seq(Pages)
        /\ held[u] \in Nat /\ FullPages(text[u]) \in Nat
        /\ held[u] <= FullPages(text[u]) /\ FullPages(text[u]) <= Len(row[u])
        /\ Len(row[u]) \in Nat
    BY StateFacts
  <1>2. /\ text'[u] \in Seq(Tokens) /\ row'[u] \in Seq(Pages)
        /\ Len(row'[u]) = AllPages(text'[u]) /\ Len(row[u]) <= Len(row'[u])
        /\ row[u] = SubSeq(row'[u], 1, Len(row[u]))
        /\ Len(text[u]) <= Len(text'[u])
        /\ text[u] = SubSeq(text'[u], 1, Len(text[u]))
        /\ held' = held
    BY DEF Forward, Allocate, Compute
  <1>3. Len(row'[u]) \in Nat /\ FullPages(text'[u]) \in Nat
    BY <1>2, LenProperties, FullPagesFact
  <1>4. \A i \in Nat : i <= FullPages(text[u]) =>
           i <= FullPages(text'[u]) /\ UpTo(text'[u], i) = UpTo(text[u], i)
    BY <1>1, <1>2, UpToStable
  <1>5. FullPages(text[u]) <= FullPages(text'[u])
    BY <1>1, <1>4
  <1>6. \A i \in 1 .. FullPages(text[u]) : UpTo(text'[u], i) = UpTo(text[u], i)
    BY <1>1, <1>4
  <1>7. \A i \in 1 .. Len(row[u]) : row'[u][i] = row[u][i]
    BY <1>1, <1>2, <1>3, SubSeqFact
  <1>8. Own(u)' = held[u] + 1 .. Len(row'[u])
    BY <1>2 DEF Own
  <1>9. /\ Own(u)' = Own(u) \cup Grown(u) /\ Own(u) \cap Grown(u) = {}
        /\ Written(u) \subseteq Own(u)'
        /\ \A i \in Own(u) \ Written(u) : i \in 1 .. FullPages(text[u])
    BY <1>1, <1>2, <1>3, <1>8 DEF Own, Grown, Written
  <1> QED BY <1>2, <1>5, <1>6, <1>7, <1>9

LEMMA ForwardPages ==
    ASSUME IInv, Forward
    PROVE  NoPageTwice' /\ NoPageLost'
  <1> DEFINE keys == DOMAIN entry'
             gone == PagesWithout(entry, keys)
             pool == free \cup gone
  <1>1. /\ keys \subseteq DOMAIN entry /\ \A k \in keys : entry'[k] = entry[k]
        /\ deferred' = deferred
    BY DEF Forward, Evict, Restriction
  <1>2. gone = {entry[k] : k \in DOMAIN entry \ keys}
    BY DEF PagesWithout
  <1>3. /\ \A u \in Uids : \A i \in Grown(u) : row'[u][i] \in pool
        /\ \A u, v \in Uids : \A i \in Grown(u), j \in Grown(v) :
              row'[u][i] = row'[v][j] => u = v /\ i = j
        /\ free' = pool \ UNION {{row'[u][i] : i \in Grown(u)} : u \in Uids}
    BY DEF Forward, Allocate
  <1> HIDE DEF keys, gone
  <1>4. /\ \A u \in Uids : /\ Own(u)' = Own(u) \cup Grown(u)
                          /\ \A i \in Own(u) : row'[u][i] = row[u][i]
    BY ForwardRows, StateFacts
  <1>5. /\ \A u \in Uids : \A i \in Own(u) : row[u][i] \notin pool
        /\ \A k \in keys : entry[k] \notin pool
        /\ pool \cap deferred = {}
    BY <1>1, <1>2 DEF IInv, NoPageTwice
  <1>6. NoPageTwice'
    <2>1. ASSUME NEW u \in Uids, NEW v \in Uids,
                 NEW i \in Own(u)', NEW j \in Own(v)', row'[u][i] = row'[v][j]
          PROVE  u = v /\ i = j
      <3>1. CASE i \in Own(u) /\ j \in Own(v)
        BY <1>4, <2>1, <3>1 DEF IInv, NoPageTwice
      <3>2. CASE i \in Grown(u) /\ j \in Own(v)
        BY <1>3, <1>4, <1>5, <2>1, <3>2
      <3>3. CASE i \in Own(u) /\ j \in Grown(v)
        BY <1>3, <1>4, <1>5, <2>1, <3>3
      <3>4. CASE i \in Grown(u) /\ j \in Grown(v)
        BY <1>3, <2>1, <3>4
      <3> QED BY <1>4, <3>1, <3>2, <3>3, <3>4
    <2>2. ASSUME NEW u \in Uids, NEW i \in Own(u)'
          PROVE  /\ row'[u][i] \notin free' \cup deferred'
                 /\ \A k \in keys : row'[u][i] # entry'[k]
      <3>1. CASE i \in Own(u)
        BY <1>1, <1>3, <1>4, <1>5, <3>1 DEF IInv, NoPageTwice
      <3>2. CASE i \in Grown(u)
        BY <1>1, <1>3, <1>5, <3>2
      <3> QED BY <1>4, <3>1, <3>2
    <2>3. \A k, l \in keys : entry'[k] = entry'[l] => k = l
      BY <1>1 DEF IInv, NoPageTwice
    <2>4. \A k \in keys : entry'[k] \notin free' \cup deferred'
      BY <1>1, <1>3, <1>5 DEF IInv, NoPageTwice
    <2>5. free' \cap deferred' = {}
      BY <1>1, <1>3, <1>5
    <2> QED BY <2>1, <2>2, <2>3, <2>4, <2>5 DEF NoPageTwice, keys
  <1>7. NoPageLost'
    <2> SUFFICES ASSUME NEW p \in Pages
                 PROVE  \/ p \in free' \cup deferred'
                        \/ \E k \in keys : p = entry'[k]
                        \/ \E u \in Uids : \E i \in Own(u)' : p = row'[u][i]
      BY DEF NoPageLost, keys
    <2>1. CASE p \in pool
      BY <1>3, <1>4, <2>1
    <2>2. CASE p \in deferred
      BY <1>1, <2>2
    <2>3. CASE \E k \in DOMAIN entry : p = entry[k]
      BY <1>1, <1>2, <2>1, <2>3
    <2>4. CASE \E u \in Uids : \E i \in Own(u) : p = row[u][i]
      BY <1>4, <2>4
    <2> QED BY <2>1, <2>2, <2>3, <2>4 DEF IInv, NoPageLost
  <1> QED BY <1>6, <1>7

LEMMA ForwardIInv ==
    ASSUME IInv, Forward
    PROVE  IInv'
  <1> DEFINE keys == DOMAIN entry'
  <1>1. /\ keys \subseteq DOMAIN entry /\ \A k \in keys : entry'[k] = entry[k]
        /\ Locked \subseteq keys /\ PrefixClosed(keys)
        /\ entry' = [k \in keys |-> entry[k]]
        /\ UNCHANGED <<active, held, deferred>>
    BY DEF Forward, Evict, Restriction
  <1>2. /\ text' \in [Uids -> Seq(Tokens)] /\ row' \in [Uids -> Seq(Pages)]
        /\ content' \in [Pages -> Seq(Tokens)]
        /\ free' \subseteq free \cup PagesWithout(entry, keys)
    BY DEF Forward, Allocate, Compute
  <1>3. NoPageTwice' /\ NoPageLost'
    BY ForwardPages
  <1>4. /\ \A u \in Uids : u \notin active => text'[u] = text[u]
        /\ \A u \in Uids : \A i \in Written(u) :
              content'[row'[u][i]] = UpTo(text'[u], i)
        /\ \A p \in Pages :
             \/ content'[p] = content[p]
             \/ \E u \in Uids : \E i \in Written(u) : p = row'[u][i]
    BY DEF Forward, Compute
  <1>5. TypeOK'
    <2>1. PagesWithout(entry, keys) \subseteq Pages
      BY DEF PagesWithout, IInv, TypeOK
    <2>2. entry' \in [keys -> Pages]
      BY <1>1 DEF IInv, TypeOK
    <2> QED BY <1>1, <1>2, <2>1, <2>2 DEF IInv, TypeOK
  <1> HIDE DEF keys
  <1>6. Shape'
    <2> SUFFICES ASSUME NEW u \in Uids
                 PROVE  /\ held[u] <= FullPages(text'[u])
                        /\ Len(row'[u]) = AllPages(text'[u])
                        /\ u \notin active => text'[u] = << >> /\ held[u] = 0
      BY <1>1 DEF Shape
    <2>1. /\ Len(row'[u]) = AllPages(text'[u]) /\ text'[u] \in Seq(Tokens)
          /\ FullPages(text[u]) <= FullPages(text'[u])
      BY ForwardRows
    <2>2. /\ held[u] \in Nat /\ FullPages(text[u]) \in Nat
          /\ held[u] <= FullPages(text[u])
      BY StateFacts
    <2>3. FullPages(text'[u]) \in Nat
      BY <2>1, FullPagesFact
    <2>4. held[u] <= FullPages(text'[u])
      BY <2>1, <2>2, <2>3
    <2> QED BY <1>4, <2>1, <2>4, InactiveFact
  <1>7. MapClosed'
    BY <1>1 DEF IInv, MapClosed, PrefixClosed, keys
  <1>8. HeldInMap'
    <2> SUFFICES ASSUME NEW u \in active, NEW i \in 1 .. held[u]
                 PROVE  /\ UpTo(text'[u], i) \in keys
                        /\ row'[u][i] = entry'[UpTo(text'[u], i)]
      BY <1>1 DEF HeldInMap, keys
    <2>1. u \in Uids
      BY DEF IInv, TypeOK
    <2>2. i \in 1 .. FullPages(text[u]) /\ i \in 1 .. Len(row[u])
      BY <2>1, StateFacts
    <2>3. UpTo(text'[u], i) = UpTo(text[u], i) /\ row'[u][i] = row[u][i]
      BY <2>1, <2>2, ForwardRows
    <2>4. UpTo(text[u], i) \in keys
      BY <1>1 DEF Locked
    <2> QED BY <1>1, <2>3, <2>4 DEF IInv, HeldInMap
  <1>9. MapHoldsKeys'
    <2> SUFFICES ASSUME NEW k \in keys PROVE content'[entry[k]] = k
      BY <1>1 DEF MapHoldsKeys, keys
    <2>1. entry[k] \in Pages /\ content[entry[k]] = k
      BY <1>1 DEF IInv, TypeOK, MapHoldsKeys
    <2>2. \A u \in Uids : \A i \in Written(u) : row'[u][i] # entry[k]
      BY <1>1, <1>3, ForwardRows DEF NoPageTwice, keys
    <2> QED BY <1>4, <2>1, <2>2
  <1>10. OwnHoldsText'
    <2> SUFFICES ASSUME NEW u \in Uids, NEW i \in Own(u)'
                 PROVE  content'[row'[u][i]] = UpTo(text'[u], i)
      BY DEF OwnHoldsText
    <2>1. CASE i \in Written(u)
      BY <1>4, <2>1
    <2>2. CASE i \notin Written(u)
      <3>1. i \in Own(u) /\ i \in 1 .. FullPages(text[u])
        <4>1. Grown(u) \subseteq Written(u)
          <5>1. /\ FullPages(text[u]) \in Nat /\ Len(row[u]) \in Nat
                /\ FullPages(text[u]) <= Len(row[u])
            BY StateFacts
          <5>2. row'[u] \in Seq(Pages) /\ Len(row'[u]) \in Nat
            BY ForwardRows, LenProperties
          <5> QED BY <5>1, <5>2 DEF Grown, Written
        <4> QED BY <2>2, <4>1, ForwardRows
      <3>2. i \in 1 .. Len(row[u]) /\ row[u][i] \in Pages
        BY <3>1, StateFacts
      <3>3. row'[u][i] = row[u][i] /\ UpTo(text'[u], i) = UpTo(text[u], i)
        BY <3>1, <3>2, ForwardRows
      <3>4. \A v \in Uids : \A j \in Written(v) : row'[v][j] # row'[u][i]
        BY <1>3, <2>2, ForwardRows DEF NoPageTwice
      <3>5. content'[row[u][i]] = content[row[u][i]]
        BY <1>4, <3>2, <3>3, <3>4
      <3> QED BY <3>1, <3>3, <3>5 DEF IInv, OwnHoldsText
    <2> QED BY <2>1, <2>2
  <1> QED BY <1>3, <1>5, <1>6, <1>7, <1>8, <1>9, <1>10 DEF IInv

-----------------------------------------------------------------------------
(* The theorems.                                                           *)

LEMMA NextIInv == IInv /\ [Next]_vars => IInv'
  <1> SUFFICES ASSUME IInv, [Next]_vars PROVE IInv'
    OBVIOUS
  <1>1. ASSUME NEW u \in Uids, NEW s \in DOMAIN entry \cup {<< >>}, Begin(u, s)
        PROVE  IInv'
    BY <1>1, BeginIInv
  <1>2. ASSUME NEW u \in Uids, Commit(u) PROVE IInv'
    BY <1>2, CommitIInv
  <1>3. ASSUME NEW u \in Uids, RetireNow(u) \/ RetireInDrain(u) PROVE IInv'
    BY <1>3, RetireIInv
  <1>4. CASE Forward
    BY <1>4, ForwardIInv
  <1>5. CASE EndDrain
    BY <1>5, EndDrainIInv
  <1>6. CASE UNCHANGED vars
    BY <1>6, StutterIInv
  <1> QED BY <1>1, <1>2, <1>3, <1>4, <1>5, <1>6 DEF Next

(* The inductive invariant: evictions, commits and frees deferred or not   *)
(* keep the pool partitioned, the map closed under prefixes and every page *)
(* true to the text it stands for.                                         *)
THEOREM Invariance == Spec => []IInv
  <1>1. Init => IInv
    BY InitIInv
  <1>2. IInv /\ [Next]_vars => IInv'
    BY NextIInv
  <1> QED BY <1>1, <1>2, PTL DEF Spec

(* Every variable keeps its type.                                          *)
THEOREM TypeCorrect == Spec => []TypeOK
  <1>1. IInv => TypeOK
    BY DEF IInv
  <1> QED BY <1>1, Invariance, PTL

(* No page of the pool is in two places and none is lost, whatever is      *)
(* evicted, deferred or shared (CacheManager.check_integrity).             *)
THEOREM PoolPartitioned == Spec => [](NoPageTwice /\ NoPageLost)
  <1>1. IInv => NoPageTwice /\ NoPageLost
    BY DEF IInv
  <1> QED BY <1>1, Invariance, PTL

(* What attention reads through the row of a request is the KV of that     *)
(* request's own tokens: own pages, matched pages, re-pointed pages.       *)
THEOREM RowsCorrect == Spec => []RowsHoldOwnText
  <1>1. ASSUME IInv PROVE RowsHoldOwnText
    <2> SUFFICES ASSUME NEW u \in active, NEW i \in 1 .. Len(row[u])
                 PROVE  content[row[u][i]] = UpTo(text[u], i)
      BY DEF RowsHoldOwnText
    <2>1. u \in Uids /\ held[u] \in Nat /\ Len(row[u]) \in Nat
      BY <1>1, StateFacts DEF IInv, TypeOK
    <2>2. CASE i \in 1 .. held[u]
      BY <1>1, <2>2 DEF IInv, HeldInMap, MapHoldsKeys
    <2>3. CASE i \in Own(u)
      BY <1>1, <2>1, <2>3 DEF IInv, OwnHoldsText
    <2> QED BY <2>1, <2>2, <2>3 DEF Own
  <1> QED BY <1>1, Invariance, PTL
===============================================================================

-------------------------- MODULE PrefixCacheProofs --------------------------
(***************************************************************************)
(* Proofs about PrefixCache: its inductive invariant, that the tree and    *)
(* the pool implement PrefixStore, and that the pages admission reserves   *)
(* suffice, for every set of requests, pool and page size.                 *)
(***************************************************************************)
EXTENDS PrefixCacheInvariant, RadixTreeProofs

(* The state that PrefixStore sees.                                        *)
TextMap == [u \in Uids |-> IF u \in Active THEN Take(ids[u], cached[u]) ELSE << >>]
HeldMap == [u \in Uids |-> FullPages(handle[u])]
FreeSet == ToSet(free)
DeferredSet == ToSet(deferred)

SP == INSTANCE PrefixStoreProofs WITH
    active <- Active, text <- TextMap, held <- HeldMap, entry <- Entries,
    free <- FreeSet, deferred <- DeferredSet

LEMMA SameOps ==
    /\ \A s : SP!FullPages(s) = FullPages(s) /\ SP!AllPages(s) = AllPages(s)
    /\ \A s, i : SP!UpTo(s, i) = UpTo(s, i)
  BY DEF SP!FullPages, SP!AllPages, SP!UpTo, FullPages, AllPages, UpTo

LEMMA PagesFact == IsFiniteSet(Pages) /\ Pages \in SUBSET Nat
  <1>1. 0 \in Int /\ NumPages - 1 \in Int
    BY SizesAssumption
  <1>2. IsFiniteSet(0 .. NumPages - 1)
    BY <1>1, FS_Interval
  <1> QED BY <1>1, <1>2 DEF Pages

(* Take(s, n), the first n tokens of s.                                    *)
LEMMA TakeFact ==
    ASSUME NEW T, NEW s \in Seq(T), NEW n \in Nat, n <= Len(s)
    PROVE  /\ Take(s, n) \in Seq(T) /\ Len(Take(s, n)) = n
           /\ AllPages(Take(s, n)) = DivCeil(n)
           /\ FullPages(Take(s, n)) = n \div PageSize
           /\ IsPrefix(Take(s, n), s)
  <1>1. Take(s, n) \in Seq(T) /\ Len(Take(s, n)) = n
        /\ \A k \in 1 .. n : Take(s, n)[k] = s[k]
    BY SubSeqFact DEF Take
  <1>2. IsPrefix(Take(s, n), s)
    BY <1>1, PrefixFact
  <1> QED BY <1>1, <1>2 DEF AllPages, FullPages, DivCeil

LEMMA InitIInv == Init => IInv
  <1> SUFFICES ASSUME Init PROVE IInv
    OBVIOUS
  <1>1. \A T : << >> \in Seq(T)
    OBVIOUS
  <1>2. TypeOK
    <2>1. free \in Seq(Pages)
      <3>1. free = [i \in 1 .. NumPages |-> i - 1] /\ NumPages \in Nat
        BY SizesAssumption DEF Init
      <3>2. \A i \in 1 .. NumPages : i - 1 \in Pages
        BY SizesAssumption DEF Pages
      <3> QED BY <3>1, <3>2
    <2>2. NoBatch \in Batches
      BY DEF NoBatch, Batches
    <2>3. /\ deferred \in Seq(Pages)
          /\ handle \in [Uids -> Seq(Tokens)] /\ row \in [Uids -> Seq(Pages)]
          /\ content \in [Pages -> Seq(Tokens)]
      BY <1>1 DEF Init
    <2>4. ids \in [Uids -> Seq(Tokens)]
      BY PromptAssumption DEF Init
    <2>5. status \in [Uids -> {"new", "active", "done"}]
          /\ phase \in {"sched", "drain", "oom", "encoder"}
      BY DEF Init
    <2>6. cached \in [Uids -> Nat] /\ device \in [Uids -> Nat]
      BY DEF Init
    <2> QED BY <2>1, <2>2, <2>3, <2>4, <2>5, <2>6 DEF TypeOK, Init
  <1>3. Active = {}
    BY DEF Init, Active
  <1>4. TreeOK
    <2>1. tree = [nodes |-> << >>, evictable |-> 0, protected |-> 0]
      BY DEF Init, EmptyTree
    <2>2. tree.nodes = << >> /\ tree.evictable = 0 /\ tree.protected = 0
      BY ONLY <2>1
    <2>3. Names(tree) = {}
      BY <2>2 DEF Names
    <2>4. WellFormed(tree, Tokens, Pages)
      <3>1. tree = [nodes |-> tree.nodes, evictable |-> tree.evictable,
                    protected |-> tree.protected]
        BY ONLY <2>1, <2>2
      <3>2. IsFiniteSet(Names(tree))
        BY <2>3, FS_EmptySet
      <3>3. tree.nodes \in [Names(tree) -> [pages : Seq(Pages), ref : Nat]]
        BY <2>2, <2>3, SMT
      <3> QED BY <2>3, <3>1, <3>2, <3>3 DEF WellFormed
    <2>5. Keys(tree) = {}
      BY <2>3 DEF Keys
    <2>6. IsTree(tree, Tokens, Pages)
      BY <2>3, <2>4, <2>5 DEF IsTree, Segmented, Branching
    <2>7. Evictable(tree) = {} /\ Names(tree) \ Evictable(tree) = {}
      BY <2>3 DEF Evictable
    <2>8. Accounted(tree, Active, handle)
      BY <1>3, <2>2, <2>3, <2>7, SizeEmpty DEF Accounted, CountersExact, RefsExact
    <2> QED BY <2>6, <2>8 DEF TreeOK
  <1>5. LengthsOK
    <2>1. \A u \in Uids : /\ ids[u] = Prompt[u] /\ cached[u] = 0 /\ device[u] = 0
                          /\ Len(ids[u]) \in Nat
      BY PromptAssumption, LenProperties DEF Init
    <2> QED BY <2>1 DEF LengthsOK, InputLen
  <1>6. RowsOK
    BY <1>3 DEF RowsOK, Init
  <1>7. BatchesOK
    BY <1>3 DEF BatchesOK, Init, NoBatch
  <1>8. ListsOK
    <2>1. IsInjective(free)
      <3>1. free = [i \in 1 .. NumPages |-> i - 1] /\ NumPages \in Nat
        BY SizesAssumption DEF Init
      <3> QED BY <3>1 DEF IsInjective
    <2>2. IsInjective(deferred)
      BY DEF Init, IsInjective
    <2> QED BY <2>1, <2>2 DEF ListsOK
  <1> QED BY <1>2, <1>4, <1>5, <1>6, <1>7, <1>8 DEF IInv
-----------------------------------------------------------------------------
(* Requests.                                                               *)

LEMMA ReqFact ==
    ASSUME TypeOK, LengthsOK, NEW u \in Uids
    PROVE  /\ cached[u] \in Nat /\ device[u] \in Nat
           /\ ids[u] \in Seq(Tokens) /\ Len(ids[u]) \in Nat
           /\ cached[u] <= device[u] /\ device[u] <= Len(ids[u])
           /\ Computed(u) \in Seq(Tokens) /\ Len(Computed(u)) = cached[u]
           /\ AllPages(Computed(u)) = DivCeil(cached[u])
           /\ FullPages(Computed(u)) = cached[u] \div PageSize
           /\ handle[u] \in Seq(Tokens) /\ row[u] \in Seq(Pages)
           /\ Len(row[u]) \in Nat
           /\ InputLen(u) \in Nat /\ InputLen(u) <= Len(ids[u])
           /\ Prompt[u] \in Seq(Tokens)
  <1>1. /\ cached[u] \in Nat /\ device[u] \in Nat
        /\ ids[u] \in Seq(Tokens)
        /\ handle[u] \in Seq(Tokens) /\ row[u] \in Seq(Pages)
    BY DEF TypeOK
  <1>2. Len(ids[u]) \in Nat /\ Len(row[u]) \in Nat
    BY <1>1, LenProperties
  <1>3. cached[u] <= device[u] /\ device[u] <= Len(ids[u]) /\ InputLen(u) <= Len(ids[u])
    BY DEF LengthsOK
  <1>4. cached[u] <= Len(ids[u])
    BY <1>1, <1>2, <1>3
  <1>5. Prompt[u] \in Seq(Tokens) /\ InputLen(u) \in Nat
    BY PromptAssumption, LenProperties DEF InputLen
  <1> QED BY <1>1, <1>2, <1>3, <1>4, <1>5, TakeFact DEF Computed

LEMMA HandleFact ==
    ASSUME TypeOK, LengthsOK, TreeOK, RowsOK, NEW u \in Active
    PROVE  /\ u \in Uids /\ handle[u] \in Names(tree) \cup {<< >>}
           /\ handle[u] \in Seq(Tokens) /\ Whole(handle[u])
           /\ FullPages(handle[u]) \in Nat
           /\ FullPages(handle[u]) <= FullPages(Computed(u))
           /\ handle[u] = UpTo(Computed(u), FullPages(handle[u]))
           /\ IsPrefix(handle[u], Computed(u))
           /\ Len(row[u]) = AllPages(Computed(u))
           /\ FullPages(Computed(u)) \in Nat /\ AllPages(Computed(u)) \in Nat
           /\ FullPages(Computed(u)) <= Len(row[u])
  <1>1. u \in Uids
    BY DEF Active
  <1>2. handle[u] \in Names(tree) \cup {<< >>} /\ WellFormed(tree, Tokens, Pages)
    BY DEF TreeOK, Accounted, IsTree
  <1>3. handle[u] \in Seq(Tokens) /\ Whole(handle[u]) /\ FullPages(handle[u]) \in Nat
    BY <1>2, RootOrName
  <1>4. /\ IsPrefix(handle[u], Computed(u)) /\ Len(row[u]) = AllPages(Computed(u))
    BY DEF RowsOK
  <1>5. Computed(u) \in Seq(Tokens)
    BY <1>1, ReqFact
  <1>6. /\ FullPages(handle[u]) <= FullPages(Computed(u))
        /\ handle[u] = UpTo(Computed(u), FullPages(handle[u]))
    BY <1>3, <1>4, <1>5, WholePrefix
  <1>7. /\ FullPages(Computed(u)) \in Nat /\ AllPages(Computed(u)) \in Nat
        /\ FullPages(Computed(u)) <= AllPages(Computed(u))
    BY <1>5, FullPagesFact
  <1> QED BY <1>1, <1>2, <1>3, <1>4, <1>6, <1>7

LEMMA ActiveFinite == Active \in SUBSET Uids /\ IsFiniteSet(Active)
  <1>1. Active \in SUBSET Uids
    BY DEF Active
  <1> QED BY <1>1, UidsAssumption, FS_Subset

-----------------------------------------------------------------------------
(* A chunk ends past its start, at the latest with the prompt.             *)

LEMMA ChunkEndFact ==
    ASSUME NEW u \in Uids, NEW lo \in Nat, NEW end \in Nat, lo <= end
    PROVE  /\ ChunkEnd(Items[u], lo, end) \in Nat
           /\ lo <= ChunkEnd(Items[u], lo, end)
           /\ ChunkEnd(Items[u], lo, end) <= end
  <1>1. \A s \in CutBy(Items[u], end) : s[1] \in Nat /\ s[1] < end
    BY SpansAssumption DEF CutBy
  <1>2. CASE \E s \in CutBy(Items[u], end) : lo < s[1]
    <2>1. PICK B : B = {s[1] : s \in CutBy(Items[u], end)}
      OBVIOUS
    <2>2. \E n \in B : lo < n
      BY <1>2, <2>1
    <2>3. \A n \in B : n \in Nat /\ n < end
      BY <1>1, <2>1
    <2>4. PICK m : m = CHOOSE n \in B : lo < n
      OBVIOUS
    <2>5. m \in B /\ lo < m
      BY <2>2, <2>4
    <2>6. ChunkEnd(Items[u], lo, end) = m
      BY <1>2, <2>1, <2>4 DEF ChunkEnd
    <2> QED BY <2>3, <2>5, <2>6
  <1>3. CASE ~ \E s \in CutBy(Items[u], end) : lo < s[1]
    BY <1>3 DEF ChunkEnd
  <1> QED BY <1>2, <1>3

LEMMA TokenBudgetInt == ASSUME TypeOK, LengthsOK PROVE TokenBudget \in Int
  <1>1. PICK R : R = ongoing.reqs
    OBVIOUS
  <1>2. R \in SUBSET Uids /\ IsFiniteSet(R)
    BY <1>1, UidsAssumption, FS_Subset DEF TypeOK, Batches
  <1>3. PICK f : f = [u \in R |-> device[u] - cached[u]]
    OBVIOUS
  <1>4. f \in [R -> Nat]
    <2>1. ASSUME NEW u \in R PROVE device[u] - cached[u] \in Nat
      BY <1>2, ReqFact
    <2> QED BY <1>3, <2>1
  <1>5. Tally(f) \in Nat
    BY <1>2, <1>4, TallyNat
  <1>6. TokenBudget = PrefillBudget - Tally(f)
    BY <1>1, <1>3 DEF TokenBudget
  <1> QED BY <1>5, <1>6, SizesAssumption

LEMMA EndFact ==
    ASSUME TypeOK, LengthsOK, NEW u \in Uids, NEW c \in Nat, c <= InputLen(u),
           TokenBudget > 0
    PROVE  /\ EndOfChunk(u, c) \in Nat
           /\ c <= EndOfChunk(u, c) /\ EndOfChunk(u, c) <= InputLen(u)
  <1>1. PICK b \in Nat : b = TokenBudget
    BY TokenBudgetInt
  <1>2. InputLen(u) \in Nat
    BY ReqFact
  <1>3. CASE InputLen(u) - c <= b
    BY <1>1, <1>2, <1>3 DEF EndOfChunk
  <1>4. CASE ~ (InputLen(u) - c <= b)
    <2>1. c + b \in Nat /\ c <= c + b /\ c + b <= InputLen(u)
      BY <1>2, <1>4
    <2>2. PICK e : e = ChunkEnd(Items[u], c, c + b)
      OBVIOUS
    <2>3. e \in Nat /\ c <= e /\ e <= c + b
      BY <2>1, <2>2, ChunkEndFact
    <2>4. EndOfChunk(u, c) = IF KeepWhole THEN e ELSE c + b
      BY <1>1, <1>4, <2>2 DEF EndOfChunk
    <2> QED BY <1>2, <2>1, <2>3, <2>4
  <1> QED BY <1>3, <1>4

(* _add_one_req leaves a batch of the same kind.                           *)
LEMMA AddOneReqFact ==
    ASSUME TypeOK, LengthsOK, BatchesOK, phase = "sched",
           NEW u \in Uids, u \notin ongoing.reqs,
           NEW c \in Nat, c <= InputLen(u), cached'[u] = c,
           TokenBudget > 0, AddOneReq(u, c)
    PROVE  /\ ongoing' \in Batches /\ ongoing'.reqs = ongoing.reqs \cup {u}
           /\ ongoing'.chunked \subseteq ongoing'.reqs
           /\ device' \in [Uids -> Nat]
           /\ \A v \in Uids \ {u} : device'[v] = device[v]
           /\ c <= device'[u] /\ device'[u] <= InputLen(u)
           /\ \A v \in ongoing'.reqs :
                /\ device'[v] <= InputLen(v)
                /\ v \in ongoing'.chunked <=> device'[v] < InputLen(v)
  <1>1. PICK e : e = EndOfChunk(u, c)
    OBVIOUS
  <1>2. e \in Nat /\ c <= e /\ e <= InputLen(u)
    BY <1>1, EndFact
  <1>3. device' = [device EXCEPT ![u] = e]
    BY <1>1 DEF AddOneReq
  <1>4. /\ device' \in [Uids -> Nat] /\ device'[u] = e
        /\ \A v \in Uids \ {u} : device'[v] = device[v]
    BY <1>2, <1>3 DEF TypeOK
  <1>5. PICK C : C = IF e < InputLen(u) THEN ongoing.chunked \cup {u} ELSE ongoing.chunked
    OBVIOUS
  <1>6. ongoing' = [reqs |-> ongoing.reqs \cup {u}, chunked |-> C, prefill |-> TRUE]
    BY <1>1, <1>5 DEF AddOneReq
  <1>7. ongoing'.reqs = ongoing.reqs \cup {u} /\ ongoing'.chunked = C
    BY ONLY <1>6
  <1>8. /\ ongoing.reqs \in SUBSET Uids /\ ongoing.chunked \subseteq ongoing.reqs
        /\ \A v \in ongoing.reqs :
             /\ device[v] <= InputLen(v)
             /\ v \in ongoing.chunked <=> device[v] < InputLen(v)
    BY DEF TypeOK, BatchesOK, Batches
  <1>9. C \in SUBSET (ongoing.reqs \cup {u})
    BY <1>5, <1>8
  <1>10. ongoing' \in Batches
    BY <1>6, <1>8, <1>9 DEF Batches
  <1>11. ASSUME NEW v \in ongoing'.reqs
         PROVE  /\ device'[v] <= InputLen(v)
                /\ v \in ongoing'.chunked <=> device'[v] < InputLen(v)
    <2>1. CASE v = u
      BY <1>2, <1>4, <1>5, <1>7, <1>8, <2>1
    <2>2. CASE v # u
      <3>1. v \in ongoing.reqs /\ v \in Uids
        BY <1>7, <1>8, <2>2
      <3> QED BY <1>4, <1>5, <1>7, <1>8, <2>2, <3>1
    <2> QED BY <2>1, <2>2
  <1> QED BY <1>2, <1>4, <1>7, <1>9, <1>10, <1>11

LEMMA ContinueIInv ==
    ASSUME IInv, NEW u \in Uids, Continue(u)
    PROVE  IInv' /\ UNCHANGED SP!vars
  <1>1. /\ TypeOK /\ TreeOK /\ LengthsOK /\ RowsOK /\ BatchesOK /\ ListsOK
    BY DEF IInv
  <1>2. /\ phase = "sched" /\ u \in Active /\ u \notin ongoing.reqs
        /\ cached[u] < InputLen(u) /\ TokenBudget > 0 /\ AddOneReq(u, cached[u])
        /\ UNCHANGED <<phase, tree, free, deferred, running, last, todo, finishedReqs,
                       newFinished, status, aborted, cached, ids, handle, row, content>>
    BY DEF Continue, Chunked, poolVars
  <1>3. /\ cached[u] \in Nat /\ InputLen(u) \in Nat /\ cached[u] <= InputLen(u)
        /\ cached'[u] = cached[u] /\ InputLen(u) <= Len(ids[u]) /\ Len(ids[u]) \in Nat
    BY <1>1, <1>2, ReqFact
  <1>4. /\ ongoing' \in Batches /\ ongoing'.reqs = ongoing.reqs \cup {u}
        /\ ongoing'.chunked \subseteq ongoing'.reqs
        /\ device' \in [Uids -> Nat]
        /\ \A v \in Uids \ {u} : device'[v] = device[v]
        /\ cached[u] <= device'[u] /\ device'[u] <= InputLen(u)
        /\ \A v \in ongoing'.reqs :
             /\ device'[v] <= InputLen(v)
             /\ v \in ongoing'.chunked <=> device'[v] < InputLen(v)
    BY <1>1, <1>2, <1>3, AddOneReqFact
  <1>5. TypeOK'
    BY <1>1, <1>2, <1>4 DEF TypeOK
  <1>6. Active' = Active
    BY <1>2 DEF Active
  <1>7. TreeOK'
    BY <1>1, <1>2, <1>6 DEF TreeOK
  <1>8. LengthsOK'
    <2>1. device'[u] \in Nat /\ device'[u] <= Len(ids[u])
      BY <1>3, <1>4
    <2> QED BY <1>1, <1>2, <1>3, <1>4, <2>1 DEF LengthsOK
  <1>9. RowsOK'
    BY <1>1, <1>2, <1>6 DEF RowsOK, Computed
  <1>10. BatchesOK'
    BY <1>1, <1>2, <1>4, <1>6 DEF BatchesOK
  <1>11. ListsOK'
    BY <1>1, <1>2 DEF ListsOK
  <1>12. UNCHANGED SP!vars
    BY <1>2, <1>6 DEF SP!vars, TextMap, HeldMap, Entries, FreeSet, DeferredSet
  <1> QED BY <1>5, <1>7, <1>8, <1>9, <1>10, <1>11, <1>12 DEF IInv

-----------------------------------------------------------------------------
(* Admission.                                                              *)

LEMMA MatchReqFact ==
    ASSUME TypeOK, TreeOK, LengthsOK, NEW u \in Uids,
           NEW r, r = MatchReq(u), NEW m, m = r.node, NEW t, t = r.tree
    PROVE  /\ IsTree(t, Tokens, Pages) /\ EntriesOf(t) = EntriesOf(tree)
           /\ Accounted(t, Active, handle)
           /\ m \in Names(t) \cup {<< >>} /\ m \in Keys(tree) \cup {<< >>}
           /\ t.evictable = tree.evictable
           /\ m \in Seq(Tokens) /\ Whole(m) /\ IsPrefix(m, Prompt[u])
           /\ Len(m) \in Nat /\ Len(m) <= InputLen(u)
           /\ m = Take(Prompt[u], Len(m))
           /\ FullPages(m) = Len(m) \div PageSize /\ FullPages(m) \in Nat
  <1>1. IsTree(tree, Tokens, Pages) /\ Accounted(tree, Active, handle)
    BY DEF TreeOK
  <1>2. PICK s : s = Take(Prompt[u], InputLen(u) - 1)
    OBVIOUS
  <1>3. Prompt[u] \in Seq(Tokens) /\ InputLen(u) \in Nat /\ InputLen(u) = Len(Prompt[u])
    BY ReqFact DEF InputLen
  <1>4. s \in Seq(Tokens) /\ IsPrefix(s, Prompt[u])
    <2>1. CASE InputLen(u) = 0
      <3>1. s = << >>
        BY <1>2, <1>3, <2>1 DEF Take
      <3> QED BY <1>3, <3>1, EmptyPrefix
    <2>2. CASE InputLen(u) # 0
      <3>1. InputLen(u) - 1 \in Nat /\ InputLen(u) - 1 <= Len(Prompt[u])
        BY <1>3, <2>2
      <3> QED BY <1>2, <1>3, <3>1, TakeFact
    <2> QED BY <2>1, <2>2
  <1>5. r = [node |-> WalkEnd(tree, s), tree |-> SplitAt(tree, WalkEnd(tree, s))]
    BY <1>2 DEF MatchReq, MatchPrefix
  <1>6. m = WalkEnd(tree, s) /\ t = SplitAt(tree, m)
    BY <1>5
  <1>7. PICK j \in Nat : /\ j <= FullPages(s) /\ m = UpTo(s, j)
                         /\ j = 0 \/ m \in Keys(tree)
    BY <1>1, <1>4, <1>6, WalkEndFact DEF IsTree
  <1>8. /\ m \in Seq(Tokens) /\ Whole(m) /\ IsPrefix(m, s)
        /\ j = 0 <=> m = << >>
    BY <1>4, <1>7, UpToPrefix
  <1>9. m \in Keys(tree) \cup {<< >>}
    BY <1>7, <1>8
  <1>10. IsPrefix(m, Prompt[u])
    BY <1>3, <1>4, <1>8, PrefixTrans
  <1>11. Len(m) \in Nat /\ Len(m) <= InputLen(u)
    BY <1>3, <1>8, <1>10, PrefixLen
  <1>12. m = Take(Prompt[u], Len(m))
    BY <1>3, <1>8, <1>10, <1>11, PrefixFact, TakeFact, SubSeqFact DEF Take
  <1>13. FullPages(m) = Len(m) \div PageSize /\ FullPages(m) \in Nat
    BY <1>8, FullPagesFact DEF FullPages
  <1>14. /\ IsTree(t, Tokens, Pages) /\ EntriesOf(t) = EntriesOf(tree)
         /\ Accounted(t, Active, handle)
         /\ m \in Names(t) \cup {<< >>} /\ t.evictable = tree.evictable
    BY ONLY <1>1, <1>6, <1>9, SplitFact
  <1> QED BY <1>8, <1>9, <1>10, <1>11, <1>12, <1>13, <1>14

LEMMA RefuseIInv ==
    ASSUME IInv, NEW u \in Uids, Refuse(u)
    PROVE  IInv' /\ UNCHANGED SP!vars
  <1>1. /\ TypeOK /\ TreeOK /\ LengthsOK /\ RowsOK /\ BatchesOK /\ ListsOK
    BY DEF IInv
  <1>2. PICK r : r = MatchReq(u)
    OBVIOUS
  <1>3. PICK t : t = r.tree
    OBVIOUS
  <1>4. PICK m : m = r.node
    OBVIOUS
  <1>5. /\ IsTree(t, Tokens, Pages) /\ EntriesOf(t) = EntriesOf(tree)
        /\ Accounted(t, Active, handle)
    BY <1>1, <1>2, <1>3, <1>4, MatchReqFact
  <1>6. /\ tree' = t
        /\ UNCHANGED <<phase, free, deferred, running, last, ongoing, todo,
                       finishedReqs, newFinished, status, aborted, cached,
                       device, ids, handle, row, content>>
    BY <1>2, <1>3 DEF Refuse, batchVars, reqVars
  <1>7. Active' = Active
    BY <1>6 DEF Active
  <1>8. TypeOK' /\ LengthsOK' /\ RowsOK' /\ BatchesOK' /\ ListsOK'
    BY <1>1, <1>6, <1>7 DEF TypeOK, LengthsOK, RowsOK, Computed, BatchesOK, ListsOK
  <1>9. TreeOK'
    BY <1>5, <1>6, <1>7 DEF TreeOK
  <1>10. Entries' = Entries
    BY <1>5, <1>6 DEF Entries
  <1>11. UNCHANGED SP!vars
    BY <1>6, <1>7, <1>10 DEF SP!vars, TextMap, HeldMap, FreeSet, DeferredSet
  <1> QED BY <1>8, <1>9, <1>11 DEF IInv

LEMMA BeginStep ==
    ASSUME NEW u \in Uids, NEW s \in DOMAIN Entries \cup {<< >>}, u \notin Active,
           Active' = Active \cup {u}, TextMap' = [TextMap EXCEPT ![u] = s],
           row' = [row EXCEPT ![u] = [i \in 1 .. FullPages(s) |-> Entries[UpTo(s, i)]]],
           HeldMap' = [HeldMap EXCEPT ![u] = FullPages(s)],
           UNCHANGED <<FreeSet, DeferredSet, content, Entries>>
    PROVE  SP!Next
  <1>1. SP!Begin(u, s)
    BY SameOps DEF SP!Begin, SP!PagesOf
  <1> QED BY <1>1 DEF SP!Next

LEMMA AdmitIInv ==
    ASSUME IInv, NEW u \in Uids, Admit(u)
    PROVE  IInv' /\ SP!Next
  <1>1. /\ TypeOK /\ TreeOK /\ LengthsOK /\ RowsOK /\ BatchesOK /\ ListsOK
    BY DEF IInv
  <1>2. PICK r : r = MatchReq(u)
    OBVIOUS
  <1>3. PICK t : t = r.tree
    OBVIOUS
  <1>4. PICK m : m = r.node
    OBVIOUS
  <1>5. /\ IsTree(t, Tokens, Pages) /\ EntriesOf(t) = EntriesOf(tree)
        /\ Accounted(t, Active, handle)
        /\ m \in Names(t) \cup {<< >>} /\ m \in Keys(tree) \cup {<< >>}
        /\ m \in Seq(Tokens) /\ Whole(m) /\ IsPrefix(m, Prompt[u])
        /\ Len(m) \in Nat /\ Len(m) <= InputLen(u)
        /\ m = Take(Prompt[u], Len(m))
        /\ FullPages(m) \in Nat
    BY <1>1, <1>2, <1>3, <1>4, MatchReqFact
  <1>6. /\ phase = "sched" /\ status[u] = "new" /\ TokenBudget > 0
        /\ tree' = Lock(t, m) /\ handle' = [handle EXCEPT ![u] = m]
        /\ row' = [row EXCEPT ![u] = MatchedIndices(tree', handle'[u])]
        /\ cached' = [cached EXCEPT ![u] = Len(handle'[u])]
        /\ status' = [status EXCEPT ![u] = "active"]
        /\ AddOneReq(u, Len(handle'[u]))
        /\ UNCHANGED <<phase, free, deferred, running, last, todo, finishedReqs,
                       newFinished, aborted, ids, content>>
    BY <1>2, <1>3, <1>4 DEF Admit, CanTry, Locked
  <1>7. u \notin Active /\ Active' = Active \cup {u}
    BY <1>1, <1>6 DEF Active, TypeOK
  <1>8. handle'[u] = m /\ \A v \in Uids \ {u} : handle'[v] = handle[v]
    BY <1>1, <1>6 DEF TypeOK
  <1>9. PICK d : d = tree'
    OBVIOUS
  <1>10. d = Lock(t, m)
    BY <1>6, <1>9
  <1>11. PICK g : g = handle'
    OBVIOUS
  <1>12. g[u] = m /\ \A v \in Active : g[v] = handle[v]
    BY <1>7, <1>8, <1>11, ActiveFinite
  <1>13. PICK U : U = Active
    OBVIOUS
  <1>14. /\ IsTree(d, Tokens, Pages) /\ EntriesOf(d) = EntriesOf(t)
         /\ Accounted(d, Active \cup {u}, g) /\ Names(d) = Names(t)
    <2>1. PICK h : h = handle
      OBVIOUS
    <2>2. Accounted(t, U, h)
      BY <1>5, <1>13, <2>1
    <2>3. IsTree(t, Tokens, Pages) /\ m \in Names(t) \cup {<< >>}
      BY <1>5
    <2>4. IsFiniteSet(U) /\ u \notin U
      BY <1>7, <1>13, ActiveFinite
    <2>5. g[u] = m
      BY <1>12
    <2>6. Agree(U, g, h)
      BY <1>12, <1>13, <2>1 DEF Agree
    <2>7. /\ IsTree(d, Tokens, Pages) /\ SameMap(d, t)
          /\ Accounted(d, U \cup {u}, g)
      BY ONLY <1>10, <2>2, <2>3, <2>4, <2>5, <2>6, LockFact
    <2> QED BY <1>13, <2>7 DEF SameMap
  <1>15. TreeOK'
    BY <1>7, <1>9, <1>11, <1>14 DEF TreeOK
  <1>16. Entries' = Entries
    BY <1>5, <1>9, <1>14 DEF Entries
  <1>17. DOMAIN Entries = Keys(tree)
    BY <1>1, EntriesType DEF TreeOK, Entries
  <1>18. PICK w : w = MatchedIndices(d, m)
    OBVIOUS
  <1>19. /\ w = [i \in 1 .. FullPages(m) |-> EntriesOf(d)[UpTo(m, i)]]
         /\ w \in Seq(Pages) /\ Len(w) = FullPages(m)
    <2>1. m \in Names(d) \cup {<< >>}
      BY <1>5, <1>14
    <2> QED BY ONLY <1>14, <1>18, <2>1, MatchedFact
  <1>20. row' = [row EXCEPT ![u] = w]
    BY <1>6, <1>8, <1>9, <1>18
  <1>21. cached' = [cached EXCEPT ![u] = Len(m)]
    BY <1>6, <1>8
  <1>22. cached'[u] = Len(m)
    BY <1>1, <1>21 DEF TypeOK
  <1>23. u \notin ongoing.reqs
    BY <1>1, <1>6, <1>7 DEF BatchesOK
  <1>24. AddOneReq(u, Len(m))
    BY <1>6, <1>8
  <1>25. /\ ongoing' \in Batches /\ ongoing'.reqs = ongoing.reqs \cup {u}
         /\ ongoing'.chunked \subseteq ongoing'.reqs
         /\ device' \in [Uids -> Nat]
         /\ \A v \in Uids \ {u} : device'[v] = device[v]
         /\ Len(m) <= device'[u] /\ device'[u] <= InputLen(u)
         /\ \A v \in ongoing'.reqs :
              /\ device'[v] <= InputLen(v)
              /\ v \in ongoing'.chunked <=> device'[v] < InputLen(v)
    BY <1>1, <1>5, <1>6, <1>22, <1>23, <1>24, AddOneReqFact
  <1>26. TypeOK'
    <2>1. row' \in [Uids -> Seq(Pages)]
      BY <1>1, <1>19, <1>20 DEF TypeOK
    <2>2. cached' \in [Uids -> Nat]
      BY <1>1, <1>5, <1>21 DEF TypeOK
    <2>3. handle' \in [Uids -> Seq(Tokens)]
      BY <1>1, <1>5, <1>6 DEF TypeOK
    <2>4. status' \in [Uids -> {"new", "active", "done"}]
      BY <1>1, <1>6 DEF TypeOK
    <2> QED BY <1>1, <1>6, <1>25, <2>1, <2>2, <2>3, <2>4 DEF TypeOK
  <1>27. LengthsOK'
    <2> SUFFICES ASSUME NEW v \in Uids
                 PROVE  /\ cached'[v] <= device'[v] /\ device'[v] <= Len(ids[v])
                        /\ InputLen(v) <= Len(ids[v])
                        /\ status'[v] = "new" => ids[v] = Prompt[v]
      BY <1>6 DEF LengthsOK
    <2>1. CASE v = u
      <3>1. ids[u] = Prompt[u] /\ InputLen(u) = Len(ids[u])
        BY <1>1, <1>6 DEF LengthsOK, InputLen
      <3>2. status'[u] = "active"
        BY <1>1, <1>6 DEF TypeOK
      <3> QED BY <1>22, <1>25, <2>1, <3>1, <3>2, ReqFact, <1>1
    <2>2. CASE v # u
      <3>1. cached'[v] = cached[v] /\ status'[v] = status[v] /\ device'[v] = device[v]
        BY <1>1, <1>6, <1>21, <1>25, <2>2 DEF TypeOK
      <3> QED BY <1>1, <3>1 DEF LengthsOK
    <2> QED BY <2>1, <2>2
  <1>28. /\ \A v \in Uids \ {u} : row'[v] = row[v] /\ cached'[v] = cached[v]
         /\ row'[u] = w
    BY <1>1, <1>20, <1>21 DEF TypeOK
  <1>29. Take(ids'[u], cached'[u]) = m
    BY <1>1, <1>5, <1>6, <1>22 DEF LengthsOK
  <1>30. RowsOK'
    <2>1. ASSUME NEW v \in Active'
          PROVE  /\ IsPrefix(handle'[v], Take(ids'[v], cached'[v]))
                 /\ Len(row'[v]) = AllPages(Take(ids'[v], cached'[v]))
      <3>1. CASE v = u
        <4>1. IsPrefix(m, m) /\ AllPages(m) = FullPages(m)
          BY <1>5, PrefixRefl, FullPagesFact DEF Whole
        <4> QED BY <1>8, <1>19, <1>28, <1>29, <3>1, <4>1
      <3>2. CASE v # u
        <4>1. v \in Active /\ v \in Uids
          BY <1>7, <3>2, ActiveFinite
        <4> QED BY <1>1, <1>6, <1>8, <1>28, <3>2, <4>1 DEF RowsOK, Computed
      <3> QED BY <3>1, <3>2
    <2>2. ASSUME NEW v \in Uids \ Active'
          PROVE  handle'[v] = << >> /\ row'[v] = << >>
      <3>1. v # u /\ v \in Uids \ Active
        BY <1>7
      <3> QED BY <1>1, <1>8, <1>28, <3>1 DEF RowsOK
    <2> QED BY <2>1, <2>2 DEF RowsOK, Computed
  <1>31. BatchesOK'
    BY <1>1, <1>6, <1>7, <1>25 DEF BatchesOK
  <1>32. ListsOK'
    BY <1>1, <1>6 DEF ListsOK
  <1>33. TextMap' = [TextMap EXCEPT ![u] = m]
    <2>1. ASSUME NEW v \in Uids
          PROVE  (IF v \in Active' THEN Take(ids'[v], cached'[v]) ELSE << >>)
                   = IF v = u THEN m ELSE TextMap[v]
      <3>1. CASE v = u
        BY <1>7, <1>29, <3>1
      <3>2. CASE v # u
        BY <1>6, <1>7, <1>28, <3>2 DEF TextMap
      <3> QED BY <3>1, <3>2
    <2> QED BY <2>1 DEF TextMap
  <1>34. HeldMap' = [HeldMap EXCEPT ![u] = FullPages(m)]
    BY <1>8 DEF HeldMap
  <1>35. UNCHANGED <<FreeSet, DeferredSet, content, Entries>>
    BY <1>6, <1>16 DEF FreeSet, DeferredSet
  <1>36. row' = [row EXCEPT ![u] = [i \in 1 .. FullPages(m) |-> Entries[UpTo(m, i)]]]
    BY <1>5, <1>14, <1>19, <1>20 DEF Entries
  <1>37. SP!Next
    BY <1>5, <1>7, <1>17, <1>33, <1>34, <1>35, <1>36, BeginStep
  <1> QED BY <1>15, <1>26, <1>27, <1>30, <1>31, <1>32, <1>37 DEF IInv

-----------------------------------------------------------------------------
(* The end of a drain.                                                     *)

LEMMA ConcatAt ==
    ASSUME NEW P, NEW a \in Seq(P), NEW b \in Seq(P), NEW c, c = a \o b
    PROVE  /\ c \in Seq(P) /\ Len(c) = Len(a) + Len(b)
           /\ Len(a) \in Nat /\ Len(b) \in Nat
           /\ \A i \in 1 .. Len(a) : i \in 1 .. Len(c) /\ c[i] = a[i]
           /\ \A i \in 1 .. Len(b) : Len(a) + i \in 1 .. Len(c) /\ c[Len(a) + i] = b[i]
           /\ \A i \in Len(a) + 1 .. Len(c) : i - Len(a) \in 1 .. Len(b) /\ c[i] = b[i - Len(a)]
           /\ \A i \in 1 .. Len(c) : i \in 1 .. Len(a) \/ i \in Len(a) + 1 .. Len(c)
  <1>1. Len(a) \in Nat /\ Len(b) \in Nat /\ DOMAIN a = 1 .. Len(a) /\ DOMAIN b = 1 .. Len(b)
    BY LenProperties
  <1>2. c \in Seq(P) /\ Len(c) = Len(a) + Len(b) /\ DOMAIN c = 1 .. Len(c)
    BY ConcatProperties, LenProperties
  <1>3. \A i \in 1 .. Len(c) : c[i] = IF i <= Len(a) THEN a[i] ELSE b[i - Len(a)]
    BY ConcatProperties
  <1>4. \A i \in 1 .. Len(a) : i \in 1 .. Len(c) /\ c[i] = a[i]
    BY <1>1, <1>2, <1>3
  <1>5. \A i \in 1 .. Len(b) : Len(a) + i \in 1 .. Len(c) /\ c[Len(a) + i] = b[i]
    <2> TAKE i \in 1 .. Len(b)
    <2>1. Len(a) + i \in 1 .. Len(c) /\ ~ (Len(a) + i <= Len(a)) /\ Len(a) + i - Len(a) = i
      BY <1>1, <1>2
    <2> QED BY <1>3, <2>1
  <1>6. \A i \in Len(a) + 1 .. Len(c) : i - Len(a) \in 1 .. Len(b) /\ c[i] = b[i - Len(a)]
    <2> TAKE i \in Len(a) + 1 .. Len(c)
    <2>1. i \in 1 .. Len(c) /\ ~ (i <= Len(a)) /\ i - Len(a) \in 1 .. Len(b)
      BY <1>1, <1>2
    <2> QED BY <1>3, <2>1
  <1>7. \A i \in 1 .. Len(c) : i \in 1 .. Len(a) \/ i \in Len(a) + 1 .. Len(c)
    BY <1>1, <1>2
  <1> QED BY <1>1, <1>2, <1>4, <1>5, <1>6, <1>7

LEMMA ConcatFact ==
    ASSUME NEW P, NEW a \in Seq(P), NEW b \in Seq(P)
    PROVE  /\ a \o b \in Seq(P) /\ Len(a \o b) = Len(a) + Len(b)
           /\ ToSet(a \o b) = ToSet(a) \cup ToSet(b)
  <1>0. PICK c : c = a \o b
    OBVIOUS
  <1>1. Len(a) \in Nat /\ Len(b) \in Nat /\ DOMAIN a = 1 .. Len(a) /\ DOMAIN b = 1 .. Len(b)
    BY LenProperties
  <1>2. c \in Seq(P) /\ Len(c) = Len(a) + Len(b) /\ DOMAIN c = 1 .. Len(c)
    BY <1>0, ConcatProperties, LenProperties
  <1>4. /\ \A i \in 1 .. Len(a) : i \in 1 .. Len(c) /\ c[i] = a[i]
        /\ \A i \in 1 .. Len(b) : Len(a) + i \in 1 .. Len(c) /\ c[Len(a) + i] = b[i]
        /\ \A i \in Len(a) + 1 .. Len(c) : i - Len(a) \in 1 .. Len(b) /\ c[i] = b[i - Len(a)]
        /\ \A i \in 1 .. Len(c) : i \in 1 .. Len(a) \/ i \in Len(a) + 1 .. Len(c)
    BY <1>0, ConcatAt
  <1>8. ToSet(c) = ToSet(a) \cup ToSet(b)
    <2>1. ASSUME NEW p, p \in ToSet(c) PROVE p \in ToSet(a) \cup ToSet(b)
      <3>1. PICK i \in 1 .. Len(c) : p = c[i]
        BY <1>2, <2>1 DEF ToSet
      <3> QED BY <1>1, <1>4, <3>1 DEF ToSet
    <2>2. ASSUME NEW p, p \in ToSet(a) PROVE p \in ToSet(c)
      BY <1>1, <1>2, <1>4, <2>2 DEF ToSet
    <2>3. ASSUME NEW p, p \in ToSet(b) PROVE p \in ToSet(c)
      BY <1>1, <1>2, <1>4, <2>3 DEF ToSet
    <2> QED BY <2>1, <2>2, <2>3
  <1> QED BY <1>0, <1>2, <1>8

LEMMA ConcatInjective ==
    ASSUME NEW P, NEW a \in Seq(P), NEW b \in Seq(P),
           IsInjective(a), IsInjective(b), ToSet(a) \cap ToSet(b) = {}
    PROVE  IsInjective(a \o b)
  <1>0. PICK c : c = a \o b
    OBVIOUS
  <1>1. Len(a) \in Nat /\ Len(b) \in Nat /\ DOMAIN a = 1 .. Len(a) /\ DOMAIN b = 1 .. Len(b)
    BY LenProperties
  <1>2. DOMAIN c = 1 .. Len(c)
    BY <1>0, ConcatProperties, LenProperties
  <1>3. /\ \A i \in 1 .. Len(a) : c[i] = a[i]
        /\ \A i \in Len(a) + 1 .. Len(c) : i - Len(a) \in 1 .. Len(b) /\ c[i] = b[i - Len(a)]
        /\ \A i \in 1 .. Len(c) : i \in 1 .. Len(a) \/ i \in Len(a) + 1 .. Len(c)
    BY <1>0, ConcatAt
  <1> SUFFICES ASSUME NEW i \in 1 .. Len(c), NEW j \in 1 .. Len(c), c[i] = c[j]
               PROVE  i = j
    BY <1>0, <1>2 DEF IsInjective
  <1>4. CASE i \in 1 .. Len(a) /\ j \in 1 .. Len(a)
    BY <1>1, <1>3, <1>4 DEF IsInjective
  <1>5. CASE i \in 1 .. Len(a) /\ j \in Len(a) + 1 .. Len(c)
    <2>1. c[i] \in ToSet(a)
      BY <1>1, <1>3, <1>5 DEF ToSet
    <2>2. c[j] \in ToSet(b)
      BY <1>1, <1>3, <1>5 DEF ToSet
    <2> QED BY <2>1, <2>2
  <1>6. CASE i \in Len(a) + 1 .. Len(c) /\ j \in 1 .. Len(a)
    <2>1. c[j] \in ToSet(a)
      BY <1>1, <1>3, <1>6 DEF ToSet
    <2>2. c[i] \in ToSet(b)
      BY <1>1, <1>3, <1>6 DEF ToSet
    <2> QED BY <2>1, <2>2
  <1>7. CASE i \in Len(a) + 1 .. Len(c) /\ j \in Len(a) + 1 .. Len(c)
    <2>1. PICK k \in 1 .. Len(b) : k = i - Len(a) /\ c[i] = b[k]
      BY <1>3, <1>7
    <2>2. PICK l \in 1 .. Len(b) : l = j - Len(a) /\ c[j] = b[l]
      BY <1>3, <1>7
    <2>3. k = l
      BY ONLY <1>1, <2>1, <2>2, c[i] = c[j], IsInjective(b) DEF IsInjective
    <2> QED BY <1>1, <1>7, <2>1, <2>2, <2>3
  <1> QED BY <1>3, <1>4, <1>5, <1>6, <1>7

LEMMA EndDrainStep ==
    ASSUME FreeSet' = FreeSet \cup DeferredSet, DeferredSet' = {},
           UNCHANGED <<Active, TextMap, row, HeldMap, Entries, content>>
    PROVE  SP!Next
  BY DEF SP!Next, SP!EndDrain

LEMMA EndDrainIInv ==
    ASSUME IInv, SP!IInv, EndDrain
    PROVE  IInv' /\ SP!Next
  <1>1. /\ TypeOK /\ TreeOK /\ LengthsOK /\ RowsOK /\ BatchesOK /\ ListsOK
    BY DEF IInv
  <1>2. /\ phase = "drain" /\ phase' = "sched"
        /\ free' = free \o deferred /\ deferred' = << >>
        /\ finishedReqs' = newFinished
        /\ last' = (IF Overlap THEN ongoing ELSE NoBatch) /\ ongoing' = NoBatch
        /\ UNCHANGED <<tree, running, todo, newFinished, status, aborted, cached,
                       device, ids, handle, row, content>>
    BY DEF EndDrain, reqVars
  <1>3. free \in Seq(Pages) /\ deferred \in Seq(Pages)
    BY <1>1 DEF TypeOK
  <1>4. /\ free' \in Seq(Pages) /\ ToSet(free') = ToSet(free) \cup ToSet(deferred)
    BY <1>2, <1>3, ConcatFact
  <1>5. << >> \in Seq(Pages) /\ ToSet(<< >>) = {} /\ IsInjective(<< >>)
    BY DEF ToSet, IsInjective
  <1>6. ToSet(free) \cap ToSet(deferred) = {}
    BY DEF SP!IInv, SP!NoPageTwice, FreeSet, DeferredSet
  <1>7. Active' = Active
    BY <1>2 DEF Active
  <1>8. NoBatch \in Batches /\ NoBatch.reqs = {} /\ NoBatch.chunked = {}
    BY DEF NoBatch, Batches
  <1>9. TypeOK'
    BY <1>1, <1>2, <1>4, <1>5, <1>8 DEF TypeOK
  <1>10. TreeOK' /\ LengthsOK' /\ RowsOK'
    BY <1>1, <1>2, <1>7 DEF TreeOK, LengthsOK, RowsOK, Computed
  <1>11. BatchesOK'
    BY <1>1, <1>2, <1>7, <1>8 DEF BatchesOK
  <1>12. ListsOK'
    <2>1. IsInjective(free) /\ IsInjective(deferred)
      BY <1>1 DEF ListsOK
    <2>2. IsInjective(free')
      BY <1>2, <1>3, <1>6, <2>1, ConcatInjective
    <2> QED BY <1>2, <1>5, <2>2 DEF ListsOK
  <1>13. FreeSet' = FreeSet \cup DeferredSet /\ DeferredSet' = {}
    BY <1>2, <1>4, <1>5 DEF FreeSet, DeferredSet
  <1>14. UNCHANGED <<Active, TextMap, row, HeldMap, Entries, content>>
    BY <1>2, <1>7 DEF TextMap, HeldMap, Entries
  <1>15. SP!Next
    BY <1>13, <1>14, EndDrainStep
  <1> QED BY <1>9, <1>10, <1>11, <1>12, <1>15 DEF IInv

-----------------------------------------------------------------------------
(* insert_prefix and the unlock that follows it, in a drain or an abort.   *)

At(s, I) == {s[i] : i \in I}
OneToOne(s, I) == \A i, k \in I : s[i] = s[k] => i = k

LEMMA SegmentFact ==
    ASSUME NEW P, NEW s \in Seq(P), NEW a \in Nat, NEW b \in Nat,
           a <= b, b <= Len(s)
    PROVE  /\ SubSeq(s, a + 1, b) \in Seq(P) /\ Len(SubSeq(s, a + 1, b)) = b - a
           /\ ToSet(SubSeq(s, a + 1, b)) = At(s, a + 1 .. b)
  <1>1. PICK w : w = SubSeq(s, a + 1, b)
    OBVIOUS
  <1>2. /\ w \in Seq(P) /\ Len(w) = b - a
        /\ \A i \in 1 .. b - a : w[i] = s[i + a]
        /\ \A i \in a + 1 .. b : w[i - a] = s[i]
    BY <1>1, SliceFact
  <1>3. DOMAIN w = 1 .. b - a
    BY <1>2, LenProperties
  <1>4. ASSUME NEW p, p \in ToSet(w) PROVE p \in {s[i] : i \in a + 1 .. b}
    <2>1. PICK i \in 1 .. b - a : p = w[i]
      BY <1>3, <1>4 DEF ToSet
    <2>2. i + a \in a + 1 .. b
      OBVIOUS
    <2> QED BY <1>2, <2>1, <2>2
  <1>5. ASSUME NEW i \in a + 1 .. b PROVE s[i] \in ToSet(w)
    <2>1. i - a \in 1 .. b - a
      OBVIOUS
    <2> QED BY <1>2, <1>3, <2>1 DEF ToSet
  <1>6. ToSet(w) = At(s, a + 1 .. b)
    BY <1>4, <1>5 DEF At
  <1> QED BY <1>1, <1>2, <1>6

LEMMA SegmentInjective ==
    ASSUME NEW P, NEW s \in Seq(P), NEW a \in Nat, NEW b \in Nat,
           a <= b, b <= Len(s), OneToOne(s, a + 1 .. b)
    PROVE  IsInjective(SubSeq(s, a + 1, b))
  <1>1. PICK w : w = SubSeq(s, a + 1, b)
    OBVIOUS
  <1>2. /\ w \in Seq(P) /\ Len(w) = b - a
        /\ \A i \in 1 .. b - a : w[i] = s[i + a]
    BY <1>1, SliceFact
  <1>3. DOMAIN w = 1 .. b - a
    BY <1>2, LenProperties
  <1>4. ASSUME NEW i \in 1 .. b - a, NEW k \in 1 .. b - a, w[i] = w[k]
        PROVE  i = k
    <2>1. i + a \in a + 1 .. b /\ k + a \in a + 1 .. b
      OBVIOUS
    <2>2. s[i + a] = s[k + a]
      BY <1>2, <1>4
    <2>3. i + a = k + a
      BY <2>1, <2>2 DEF OneToOne
    <2> QED BY <2>3
  <1>5. IsInjective(w)
    BY <1>3, <1>4 DEF IsInjective
  <1> QED BY <1>1, <1>5

(* How PrefixStore sees an active request.                                 *)
LEMMA ViewFact ==
    ASSUME NEW u \in Active
    PROVE  /\ TextMap[u] = Computed(u) /\ HeldMap[u] = FullPages(handle[u])
           /\ SP!Own(u) = FullPages(handle[u]) + 1 .. Len(row[u])
           /\ SP!Unheld(u) = FullPages(handle[u]) + 1 .. FullPages(Computed(u))
  <1>1. u \in Uids
    BY ActiveFinite
  <1>2. TextMap[u] = Computed(u) /\ HeldMap[u] = FullPages(handle[u])
    BY <1>1 DEF TextMap, HeldMap, Computed
  <1> QED BY <1>2, SameOps DEF SP!Own, SP!Unheld

LEMMA InsertedFact ==
    ASSUME TypeOK, TreeOK, LengthsOK, RowsOK, NEW u \in Active,
           NEW s, s = Computed(u), NEW q, q = FullPages(handle[u]),
           NEW f, f = FullPages(s), NEW j, j = FullPages(WalkEnd(tree, s)),
           NEW d, d = Inserted(u).tree, NEW n, n = Inserted(u).node
    PROVE  /\ IsTree(d, Tokens, Pages) /\ Accounted(d, Active, handle)
           /\ n = UpTo(s, f) /\ n \in Names(d) \cup {<< >>}
           /\ q \in Nat /\ j \in Nat /\ f \in Nat /\ Len(row[u]) \in Nat
           /\ q <= j /\ j <= f /\ f <= Len(row[u])
           /\ Inserted(u).prefixLen \div PageSize = j
           /\ \A i \in 1 .. f : UpTo(s, i) \in Keys(tree) <=> i <= j
           /\ Keys(d) = Keys(tree) \cup {UpTo(s, i) : i \in 1 .. f}
           /\ \A k \in Keys(tree) : EntriesOf(d)[k] = EntriesOf(tree)[k]
           /\ \A i \in j + 1 .. f : EntriesOf(d)[UpTo(s, i)] = row[u][i]
           /\ d.evictable = tree.evictable + (f - j) * PageSize
  <1>1. /\ u \in Uids /\ s \in Seq(Tokens) /\ row[u] \in Seq(Pages)
        /\ q \in Nat /\ f \in Nat /\ q <= f /\ f <= Len(row[u])
        /\ handle[u] \in Names(tree) \cup {<< >>}
        /\ handle[u] = UpTo(s, q) /\ Len(row[u]) \in Nat
    BY ActiveFinite, HandleFact, ReqFact
  <1>2. PICK r : r = Inserted(u)
    OBVIOUS
  <1>3. PICK t : t = tree
    OBVIOUS
  <1>4. PICK pages \in Seq(Pages) : pages = row[u]
    BY <1>1
  <1>5. r = InsertPrefix(t, s, pages)
    BY <1>2, <1>3, <1>4 DEF Inserted, Computed
  <1>6. PICK U : U = Active
    OBVIOUS
  <1>7. PICK h : h = handle
    OBVIOUS
  <1>8. IsTree(t, Tokens, Pages) /\ Accounted(t, U, h)
    BY <1>3, <1>6, <1>7 DEF TreeOK
  <1>9. d = r.tree /\ n = r.node /\ f = FullPages(s) /\ j = FullPages(WalkEnd(t, s))
    BY <1>2, <1>3
  <1>10. FullPages(s) <= Len(pages)
    BY <1>1, <1>4
  <1>11. s \in Seq(Tokens)
    BY <1>1
  <1>12. /\ IsTree(d, Tokens, Pages) /\ Accounted(d, U, h)
         /\ r.node = UpTo(s, FullPages(s)) /\ r.node \in Names(d) \cup {<< >>}
         /\ j \in Nat /\ j <= FullPages(s)
         /\ r.prefixLen \div PageSize = j
         /\ \A i \in 1 .. FullPages(s) : UpTo(s, i) \in Keys(t) <=> i <= j
         /\ Keys(d) = Keys(t) \cup {UpTo(s, i) : i \in 1 .. FullPages(s)}
         /\ \A k \in Keys(t) : EntriesOf(d)[k] = EntriesOf(t)[k]
         /\ \A i \in j + 1 .. FullPages(s) : EntriesOf(d)[UpTo(s, i)] = pages[i]
         /\ d.evictable = t.evictable + (FullPages(s) - j) * PageSize
    BY ONLY <1>4, <1>5, <1>8, <1>9, <1>10, <1>11, InsertFact
  <1>13. q <= j
    <2>1. CASE q = 0
      BY <1>12, <2>1
    <2>2. CASE q # 0
      <3>1. UpTo(s, q) # << >>
        BY <1>1, <2>2, UpToPrefix
      <3>2. UpTo(s, q) \in Keys(t)
        BY <1>1, <1>3, <1>8, <3>1, NamesAreKeys DEF IsTree
      <3> QED BY <1>1, <1>9, <1>12, <2>2, <3>2
    <2> QED BY <2>1, <2>2
  <1> QED BY <1>1, <1>2, <1>3, <1>4, <1>6, <1>7, <1>9, <1>12, <1>13

LEMMA UnlockedFact ==
    ASSUME TypeOK, TreeOK, LengthsOK, RowsOK, NEW u \in Active,
           NEW d, d = Inserted(u).tree, NEW x, x = Unlocked(u),
           NEW g, Agree(Active \ {u}, g, handle)
    PROVE  /\ IsTree(x, Tokens, Pages) /\ SameMap(x, d)
           /\ Accounted(x, Active \ {u}, g)
           /\ UnlockSize(d, x, handle[u])
           /\ RefsMoved(x, d, PathTo(d, handle[u]), -1)
  <1>1. PICK U : U = Active
    OBVIOUS
  <1>2. PICK h : h = handle
    OBVIOUS
  <1>3. IsTree(d, Tokens, Pages) /\ Accounted(d, U, h)
    BY <1>1, <1>2, InsertedFact
  <1>4. PICK y : y = h[u]
    OBVIOUS
  <1>5. x = Unlock(d, y)
    BY <1>2, <1>4 DEF Unlocked
  <1>6. IsFiniteSet(U) /\ u \in U
    BY <1>1, ActiveFinite
  <1>7. Agree(U \ {u}, g, h)
    BY <1>1, <1>2
  <1>8. /\ IsTree(x, Tokens, Pages) /\ SameMap(x, d)
        /\ Accounted(x, U \ {u}, g)
        /\ UnlockSize(d, x, y)
        /\ RefsMoved(x, d, PathTo(d, y), -1)
    BY ONLY <1>3, <1>4, <1>5, <1>6, <1>7, UnlockFact
  <1> QED BY <1>1, <1>2, <1>4, <1>8

(* The map that the tree then stands for is that of PrefixStore.           *)
LEMMA InsertedMap ==
    ASSUME TypeOK, TreeOK, LengthsOK, RowsOK, NEW u \in Active,
           NEW d, d = Inserted(u).tree
    PROVE  EntriesOf(d) = SP!Insert(Entries, u)
  <1>1. PICK s : s = Computed(u)
    OBVIOUS
  <1>2. PICK q : q = FullPages(handle[u])
    OBVIOUS
  <1>3. PICK f : f = FullPages(s)
    OBVIOUS
  <1>4. PICK j : j = FullPages(WalkEnd(tree, s))
    OBVIOUS
  <1>5. /\ IsTree(d, Tokens, Pages)
        /\ q \in Nat /\ j \in Nat /\ f \in Nat /\ q <= j /\ j <= f
        /\ \A i \in 1 .. f : UpTo(s, i) \in Keys(tree) <=> i <= j
        /\ Keys(d) = Keys(tree) \cup {UpTo(s, i) : i \in 1 .. f}
        /\ \A k \in Keys(tree) : EntriesOf(d)[k] = EntriesOf(tree)[k]
        /\ \A i \in j + 1 .. f : EntriesOf(d)[UpTo(s, i)] = row[u][i]
    BY <1>1, <1>2, <1>3, <1>4, InsertedFact
  <1>6. s \in Seq(Tokens)
    BY <1>1, ActiveFinite, ReqFact
  <1>7. DOMAIN Entries = Keys(tree) /\ Entries = EntriesOf(tree)
    BY EntriesType DEF TreeOK, Entries
  <1>8. TextMap[u] = s /\ SP!Unheld(u) = q + 1 .. f
    BY <1>1, <1>2, <1>3, ViewFact
  <1>9. SP!NewKeys(u, Keys(tree)) = {UpTo(s, i) : i \in q + 1 .. f} \ Keys(tree)
    BY <1>8, SameOps DEF SP!NewKeys
  <1>10. Keys(d) = Keys(tree) \cup SP!NewKeys(u, Keys(tree))
    <2>1. ASSUME NEW i \in 1 .. f, UpTo(s, i) \notin Keys(tree)
          PROVE  i \in q + 1 .. f
      BY <1>5, <2>1
    <2>2. q + 1 .. f \subseteq 1 .. f
      BY <1>5
    <2> QED BY <1>5, <1>9, <2>1, <2>2
  <1>11. PICK F : F = SP!Insert(Entries, u)
    OBVIOUS
  <1>12. F = [k \in Keys(d) |-> IF k \in Keys(tree) THEN EntriesOf(tree)[k]
                                                   ELSE row[u][FullPages(k)]]
    BY <1>7, <1>10, <1>11, SameOps DEF SP!Insert
  <1>13. ASSUME NEW k \in Keys(d) PROVE EntriesOf(d)[k] = F[k]
    <2>1. CASE k \in Keys(tree)
      BY <1>5, <1>12, <2>1
    <2>2. CASE k \notin Keys(tree)
      <3>1. PICK i \in 1 .. f : k = UpTo(s, i)
        BY <1>5, <2>2
      <3>2. i \in j + 1 .. f
        BY <1>5, <2>2, <3>1
      <3>3. FullPages(k) = i
        BY <1>3, <1>5, <1>6, <3>1, UpToFact
      <3> QED BY <1>5, <1>12, <2>2, <3>1, <3>2, <3>3
    <2> QED BY <2>1, <2>2
  <1>14. DOMAIN F = Keys(d) /\ F = [k \in DOMAIN F |-> F[k]]
    BY <1>12
  <1>15. EntriesOf(d) = F
    BY ONLY <1>13, <1>14, EntriesEqual
  <1> QED BY <1>11, <1>15

(* The pages given back are those of PrefixStore.                          *)
LEMMA DuplicatesFact ==
    ASSUME TypeOK, TreeOK, LengthsOK, RowsOK, SP!IInv, NEW u \in Active,
           NEW q, q = FullPages(handle[u]), NEW f, f = FullPages(Computed(u)),
           NEW j, j = FullPages(WalkEnd(tree, Computed(u)))
    PROVE  /\ q \in Nat /\ j \in Nat /\ f \in Nat /\ Len(row[u]) \in Nat
           /\ q <= j /\ j <= f /\ f <= Len(row[u])
           /\ SP!Duplicate(u, DOMAIN Entries) = q + 1 .. j
           /\ Duplicates(u) = SubSeq(row[u], q + 1, j)
           /\ PaddedTail(u) = SubSeq(row[u], f + 1, Len(row[u]))
           /\ OneToOne(row[u], q + 1 .. Len(row[u]))
  <1>1. PICK s : s = Computed(u)
    OBVIOUS
  <1>2. PICK n : n = Inserted(u).node
    OBVIOUS
  <1>3. /\ n = UpTo(s, f)
        /\ q \in Nat /\ j \in Nat /\ f \in Nat /\ Len(row[u]) \in Nat
        /\ q <= j /\ j <= f /\ f <= Len(row[u])
        /\ Inserted(u).prefixLen \div PageSize = j
        /\ \A i \in 1 .. f : UpTo(s, i) \in Keys(tree) <=> i <= j
    BY <1>1, <1>2, InsertedFact
  <1>4. s \in Seq(Tokens)
    BY <1>1, ActiveFinite, ReqFact
  <1>5. DOMAIN Entries = Keys(tree)
    BY EntriesType DEF TreeOK, Entries
  <1>6. TextMap[u] = s /\ SP!Unheld(u) = q + 1 .. f /\ SP!Own(u) = q + 1 .. Len(row[u])
    BY <1>1, ViewFact
  <1>7. SP!Duplicate(u, DOMAIN Entries) = q + 1 .. j
    <2>1. SP!Duplicate(u, Keys(tree)) = {i \in q + 1 .. f : UpTo(s, i) \in Keys(tree)}
      BY <1>6, SameOps DEF SP!Duplicate
    <2>2. \A i \in q + 1 .. f : i \in 1 .. f /\ (i <= j <=> i \in q + 1 .. j)
      BY <1>3
    <2>3. q + 1 .. j \subseteq q + 1 .. f
      BY <1>3
    <2> QED BY <1>3, <1>5, <2>1, <2>2, <2>3
  <1>8. Duplicates(u) = SubSeq(row[u], q + 1, j)
    BY <1>3 DEF Duplicates
  <1>9. FullPages(n) = f
    BY <1>1, <1>3, <1>4, UpToFact
  <1>10. PaddedTail(u) = SubSeq(row[u], f + 1, Len(row[u]))
    BY <1>2, <1>9 DEF PaddedTail, Drop
  <1>11. OneToOne(row[u], q + 1 .. Len(row[u]))
    <2>1. \A x, y \in Uids : \A i \in SP!Own(x), k \in SP!Own(y) :
            row[x][i] = row[y][k] => x = y /\ i = k
      BY DEF SP!IInv, SP!NoPageTwice
    <2>2. u \in Uids
      BY ActiveFinite
    <2>3. \A i, k \in SP!Own(u) : row[u][i] = row[u][k] => i = k
      BY ONLY <2>1, <2>2
    <2> QED BY <1>6, <2>3 DEF OneToOne
  <1> QED BY <1>3, <1>7, <1>8, <1>10, <1>11

LEMMA FreedFact ==
    ASSUME TypeOK, TreeOK, LengthsOK, RowsOK, SP!IInv, NEW u \in Active
    PROVE  /\ Freed(u) \in Seq(Pages) /\ IsInjective(Freed(u))
           /\ ToSet(Freed(u)) = SP!Leftover(u)
  <1>1. PICK q : q = FullPages(handle[u])
    OBVIOUS
  <1>2. PICK f : f = FullPages(Computed(u))
    OBVIOUS
  <1>3. PICK j : j = FullPages(WalkEnd(tree, Computed(u)))
    OBVIOUS
  <1>4. PICK w : w = row[u]
    OBVIOUS
  <1>5. PICK l : l = Len(w)
    OBVIOUS
  <1>6. /\ q \in Nat /\ j \in Nat /\ f \in Nat /\ l \in Nat
        /\ q <= j /\ j <= f /\ f <= l
        /\ SP!Duplicate(u, DOMAIN Entries) = q + 1 .. j
        /\ Duplicates(u) = SubSeq(w, q + 1, j)
        /\ PaddedTail(u) = SubSeq(w, f + 1, l)
        /\ OneToOne(w, q + 1 .. l)
    BY <1>1, <1>2, <1>3, <1>4, <1>5, DuplicatesFact
  <1>7. w \in Seq(Pages) /\ j <= l
    BY <1>4, <1>6, ActiveFinite, ReqFact
  <1>8. PICK a : a = SubSeq(w, q + 1, j)
    OBVIOUS
  <1>9. PICK b : b = SubSeq(w, f + 1, l)
    OBVIOUS
  <1>10. a \in Seq(Pages) /\ ToSet(a) = At(w, q + 1 .. j)
    <2>1. j <= Len(w)
      BY <1>5, <1>7
    <2> QED BY <1>6, <1>7, <1>8, <2>1, SegmentFact
  <1>11. b \in Seq(Pages) /\ ToSet(b) = At(w, f + 1 .. l)
    <2>1. l <= Len(w)
      BY <1>5, <1>6
    <2> QED BY <1>6, <1>7, <1>9, <2>1, SegmentFact
  <1>12. /\ q + 1 .. j \subseteq q + 1 .. l /\ f + 1 .. l \subseteq q + 1 .. l
         /\ (q + 1 .. j) \cap (f + 1 .. l) = {}
    BY <1>6
  <1>13. IsInjective(a)
    <2>1. OneToOne(w, q + 1 .. j)
      BY <1>6, <1>12 DEF OneToOne
    <2>2. j <= Len(w)
      BY <1>5, <1>7
    <2> QED BY <1>6, <1>7, <1>8, <2>1, <2>2, SegmentInjective
  <1>14. IsInjective(b)
    <2>1. OneToOne(w, f + 1 .. l)
      BY <1>6, <1>12 DEF OneToOne
    <2>2. l <= Len(w)
      BY <1>5, <1>6
    <2> QED BY <1>6, <1>7, <1>9, <2>1, <2>2, SegmentInjective
  <1>15. ToSet(a) \cap ToSet(b) = {}
    <2>1. ASSUME NEW i \in q + 1 .. j, NEW k \in f + 1 .. l, w[i] = w[k] PROVE FALSE
      BY <1>6, <1>12, <2>1 DEF OneToOne
    <2> QED BY <1>10, <1>11, <2>1 DEF At
  <1>16. Freed(u) = a \o b
    BY <1>6, <1>8, <1>9 DEF Freed
  <1>17. /\ a \o b \in Seq(Pages) /\ ToSet(a \o b) = ToSet(a) \cup ToSet(b)
    BY <1>10, <1>11, ConcatFact
  <1>18. IsInjective(a \o b)
    BY <1>10, <1>11, <1>13, <1>14, <1>15, ConcatInjective
  <1>19. SP!Leftover(u) = {w[i] : i \in (q + 1 .. j) \cup (f + 1 .. l)}
    <2>1. SP!FullPages(TextMap[u]) = f
      BY <1>2, ViewFact, SameOps
    <2>2. SP!Leftover(u) = {row[u][i] : i \in SP!Duplicate(u, DOMAIN Entries)
                                        \cup (SP!FullPages(TextMap[u]) + 1 .. Len(row[u]))}
      BY DEF SP!Leftover
    <2>3. SP!Leftover(u) = {w[i] : i \in SP!Duplicate(u, DOMAIN Entries) \cup (f + 1 .. l)}
      BY <1>4, <1>5, <2>1, <2>2
    <2>4. SP!Duplicate(u, DOMAIN Entries) = q + 1 .. j
      BY <1>6
    <2> QED BY ONLY <2>3, <2>4
  <1>20. ToSet(a) \cup ToSet(b) = SP!Leftover(u)
    BY <1>10, <1>11, <1>19 DEF At
  <1> QED BY <1>16, <1>17, <1>18, <1>20

LEMMA LeftoverOwned ==
    ASSUME TypeOK, TreeOK, LengthsOK, RowsOK, SP!IInv, NEW u \in Active
    PROVE  /\ FreeSet \cap SP!Leftover(u) = {}
           /\ DeferredSet \cap SP!Leftover(u) = {}
  <1>1. PICK q : q = FullPages(handle[u])
    OBVIOUS
  <1>2. PICK f : f = FullPages(Computed(u))
    OBVIOUS
  <1>3. PICK j : j = FullPages(WalkEnd(tree, Computed(u)))
    OBVIOUS
  <1>4. PICK l : l = Len(row[u])
    OBVIOUS
  <1>5. /\ q \in Nat /\ j \in Nat /\ f \in Nat /\ l \in Nat
        /\ q <= j /\ j <= f /\ f <= l
        /\ SP!Duplicate(u, DOMAIN Entries) = q + 1 .. j
    BY <1>1, <1>2, <1>3, <1>4, DuplicatesFact
  <1>6. SP!FullPages(TextMap[u]) = f /\ SP!Own(u) = q + 1 .. l
    BY <1>1, <1>2, <1>4, ViewFact, SameOps
  <1>7. (q + 1 .. j) \cup (f + 1 .. l) \subseteq q + 1 .. l
    BY <1>5
  <1>8. \A i \in SP!Own(u) : row[u][i] \notin FreeSet \cup DeferredSet
    BY ActiveFinite DEF SP!IInv, SP!NoPageTwice
  <1>9. SP!Leftover(u) = {row[u][i] : i \in SP!Duplicate(u, DOMAIN Entries)
                                      \cup (SP!FullPages(TextMap[u]) + 1 .. Len(row[u]))}
    BY DEF SP!Leftover
  <1>10. \A p \in SP!Leftover(u) : \E i \in SP!Own(u) : p = row[u][i]
    BY <1>4, <1>5, <1>6, <1>7, <1>9
  <1> QED BY <1>8, <1>10

-----------------------------------------------------------------------------
(* The end of a request, in a drain or on an abort.                        *)

LEMMA RetireInDrainStep ==
    ASSUME NEW u \in Uids, u \in Active, Active' = Active \ {u},
           TextMap' = [TextMap EXCEPT ![u] = << >>],
           row' = [row EXCEPT ![u] = << >>], HeldMap' = [HeldMap EXCEPT ![u] = 0],
           Entries' = SP!Insert(Entries, u), content' = content,
           DeferredSet' = DeferredSet \cup SP!Leftover(u), FreeSet' = FreeSet
    PROVE  SP!Next
  BY DEF SP!Next, SP!RetireInDrain, SP!Retire

LEMMA RetireNowStep ==
    ASSUME NEW u \in Uids, u \in Active, Active' = Active \ {u},
           TextMap' = [TextMap EXCEPT ![u] = << >>],
           row' = [row EXCEPT ![u] = << >>], HeldMap' = [HeldMap EXCEPT ![u] = 0],
           Entries' = SP!Insert(Entries, u), content' = content,
           FreeSet' = FreeSet \cup SP!Leftover(u), DeferredSet' = DeferredSet
    PROVE  SP!Next
  BY DEF SP!Next, SP!RetireNow, SP!Retire

LEMMA FinishFact ==
    ASSUME TypeOK, TreeOK, LengthsOK, RowsOK, NEW u \in Active, Finish(u),
           UNCHANGED <<ids, cached, device>>
    PROVE  /\ TreeOK' /\ LengthsOK' /\ RowsOK'
           /\ status' \in [Uids -> {"new", "active", "done"}]
           /\ handle' \in [Uids -> Seq(Tokens)] /\ row' \in [Uids -> Seq(Pages)]
           /\ Active' = Active \ {u}
           /\ TextMap' = [TextMap EXCEPT ![u] = << >>]
           /\ row' = [row EXCEPT ![u] = << >>]
           /\ HeldMap' = [HeldMap EXCEPT ![u] = 0]
           /\ Entries' = SP!Insert(Entries, u)
  <1>1. /\ tree' = Unlocked(u) /\ row' = [row EXCEPT ![u] = << >>]
        /\ handle' = [handle EXCEPT ![u] = << >>]
        /\ status' = [status EXCEPT ![u] = "done"]
    BY DEF Finish
  <1>2. u \in Uids /\ \A T : << >> \in Seq(T)
    BY ActiveFinite
  <1>3. /\ status' \in [Uids -> {"new", "active", "done"}]
        /\ handle' \in [Uids -> Seq(Tokens)] /\ row' \in [Uids -> Seq(Pages)]
    BY <1>1, <1>2 DEF TypeOK
  <1>4. /\ \A v \in Uids \ {u} : /\ handle'[v] = handle[v] /\ row'[v] = row[v]
                                 /\ status'[v] = status[v]
        /\ handle'[u] = << >> /\ row'[u] = << >> /\ status'[u] = "done"
    BY <1>1, <1>2 DEF TypeOK
  <1>5. Active' = Active \ {u}
    BY <1>2, <1>4 DEF Active
  <1>6. PICK d : d = Inserted(u).tree
    OBVIOUS
  <1>7. PICK x : x = tree'
    OBVIOUS
  <1>8. x = Unlocked(u)
    BY <1>1, <1>7
  <1>9. PICK g : g = handle'
    OBVIOUS
  <1>10. Agree(Active \ {u}, g, handle)
    BY <1>4, <1>9, ActiveFinite DEF Agree
  <1>11. /\ IsTree(x, Tokens, Pages) /\ SameMap(x, d)
         /\ Accounted(x, Active \ {u}, g)
    BY <1>6, <1>8, <1>10, UnlockedFact
  <1>12. TreeOK'
    BY <1>5, <1>7, <1>9, <1>11 DEF TreeOK
  <1>13. Entries' = SP!Insert(Entries, u)
    <2>1. EntriesOf(d) = SP!Insert(Entries, u)
      BY <1>6, InsertedMap
    <2> QED BY <1>7, <1>11, <2>1 DEF Entries, SameMap
  <1>14. LengthsOK'
    <2>1. \A v \in Uids : status'[v] = "new" => status[v] = "new"
      BY <1>4
    <2> QED BY <2>1 DEF LengthsOK
  <1>15. RowsOK'
    <2>1. \A v \in Active \ {u} : v \in Uids \ {u}
      BY ActiveFinite
    <2>2. \A v \in Uids \ (Active \ {u}) : v = u \/ v \in (Uids \ Active) \ {u}
      OBVIOUS
    <2> QED BY <1>2, <1>4, <1>5, <2>1, <2>2 DEF RowsOK, Computed
  <1>16. TextMap' = [TextMap EXCEPT ![u] = << >>]
    BY <1>2, <1>5 DEF TextMap
  <1>17. HeldMap' = [HeldMap EXCEPT ![u] = 0]
    BY <1>2, <1>4, EmptyFact DEF HeldMap
  <1> QED BY <1>1, <1>3, <1>5, <1>12, <1>13, <1>14, <1>15, <1>16, <1>17

LEMMA AbortIInv ==
    ASSUME IInv, SP!IInv, NEW u \in Uids, Abort(u)
    PROVE  IInv' /\ (SP!Next \/ UNCHANGED SP!vars)
  <1>1. /\ TypeOK /\ TreeOK /\ LengthsOK /\ RowsOK /\ BatchesOK /\ ListsOK
    BY DEF IInv
  <1>2. /\ phase = "sched" /\ ongoing = NoBatch
        /\ u \in Chunked \cup running /\ running' = running \ {u}
        /\ UNCHANGED <<phase, deferred, last, ongoing, todo, finishedReqs,
                       newFinished, cached, device, ids, content>>
    BY DEF Abort
  <1>3. u \in Active
    BY <1>1, <1>2 DEF Chunked, BatchesOK
  <1>4. NoBatch.reqs = {} /\ NoBatch.chunked = {}
    BY DEF NoBatch
  <1>5. CASE u \in last.reqs
    <2>1. aborted' = aborted \cup {u} /\ UNCHANGED <<tree, free, status, handle, row>>
      BY <1>5 DEF Abort
    <2>2. Active' = Active
      BY <2>1 DEF Active
    <2>3. TypeOK' /\ TreeOK' /\ LengthsOK' /\ RowsOK' /\ ListsOK'
      BY <1>1, <1>2, <2>1, <2>2
         DEF TypeOK, TreeOK, LengthsOK, RowsOK, Computed, ListsOK
    <2>4. BatchesOK'
      BY <1>1, <1>2, <1>4, <2>1, <2>2 DEF BatchesOK
    <2>5. UNCHANGED SP!vars
      BY <1>2, <2>1, <2>2 DEF SP!vars, TextMap, HeldMap, Entries, FreeSet, DeferredSet
    <2> QED BY <2>3, <2>4, <2>5 DEF IInv
  <1>6. CASE u \notin last.reqs
    <2>1. Finish(u) /\ free' = free \o Freed(u) /\ aborted' = aborted
      BY <1>6 DEF Abort
    <2>2. /\ TreeOK' /\ LengthsOK' /\ RowsOK'
          /\ status' \in [Uids -> {"new", "active", "done"}]
          /\ handle' \in [Uids -> Seq(Tokens)] /\ row' \in [Uids -> Seq(Pages)]
          /\ Active' = Active \ {u}
          /\ TextMap' = [TextMap EXCEPT ![u] = << >>]
          /\ row' = [row EXCEPT ![u] = << >>]
          /\ HeldMap' = [HeldMap EXCEPT ![u] = 0]
          /\ Entries' = SP!Insert(Entries, u)
      BY <1>1, <1>2, <1>3, <2>1, FinishFact
    <2>3. /\ Freed(u) \in Seq(Pages) /\ IsInjective(Freed(u))
          /\ ToSet(Freed(u)) = SP!Leftover(u)
      BY <1>1, <1>3, FreedFact
    <2>4. free \in Seq(Pages) /\ IsInjective(free)
      BY <1>1 DEF TypeOK, ListsOK
    <2>5. free' \in Seq(Pages) /\ ToSet(free') = ToSet(free) \cup SP!Leftover(u)
      BY <2>1, <2>3, <2>4, ConcatFact
    <2>6. ToSet(free) \cap ToSet(Freed(u)) = {}
      BY <1>1, <1>3, <2>3, LeftoverOwned DEF FreeSet
    <2>7. IsInjective(free')
      BY <2>1, <2>3, <2>4, <2>6, ConcatInjective
    <2>8. TypeOK'
      BY <1>1, <1>2, <2>1, <2>2, <2>5 DEF TypeOK
    <2>9. BatchesOK'
      BY <1>1, <1>2, <1>4, <1>6, <2>1, <2>2 DEF BatchesOK
    <2>10. ListsOK'
      BY <1>1, <1>2, <2>7 DEF ListsOK
    <2>11. FreeSet' = FreeSet \cup SP!Leftover(u) /\ DeferredSet' = DeferredSet
      BY <1>2, <2>5 DEF FreeSet, DeferredSet
    <2>12. SP!Next
      BY <1>2, <1>3, <2>2, <2>11, RetireNowStep
    <2> QED BY <2>2, <2>8, <2>9, <2>10, <2>12 DEF IInv
  <1> QED BY <1>5, <1>6

-----------------------------------------------------------------------------
(* A request goes on: its text enters the tree, its row is re-pointed.     *)

LEMMA RepointedFact ==
    ASSUME TypeOK, TreeOK, LengthsOK, RowsOK, SP!IInv, NEW u \in Active
    PROVE  /\ Repointed(u, Unlocked(u)) = SP!Repointed(Entries, u)
           /\ Repointed(u, Unlocked(u)) \in Seq(Pages)
           /\ Len(Repointed(u, Unlocked(u))) = Len(row[u])
  <1>1. PICK s : s = Computed(u)
    OBVIOUS
  <1>2. PICK q : q = FullPages(handle[u])
    OBVIOUS
  <1>3. PICK f : f = FullPages(s)
    OBVIOUS
  <1>4. PICK j : j = FullPages(WalkEnd(tree, s))
    OBVIOUS
  <1>5. PICK d : d = Inserted(u).tree
    OBVIOUS
  <1>6. PICK n : n = Inserted(u).node
    OBVIOUS
  <1>7. PICK l : l = Len(row[u])
    OBVIOUS
  <1>8. /\ n = UpTo(s, f) /\ n \in Names(d) \cup {<< >>}
        /\ q \in Nat /\ j \in Nat /\ f \in Nat /\ l \in Nat
        /\ q <= j /\ j <= f /\ f <= l
        /\ Inserted(u).prefixLen \div PageSize = j
        /\ \A i \in 1 .. f : UpTo(s, i) \in Keys(tree) <=> i <= j
        /\ \A k \in Keys(tree) : EntriesOf(d)[k] = EntriesOf(tree)[k]
    BY <1>1, <1>2, <1>3, <1>4, <1>5, <1>6, <1>7, InsertedFact
  <1>9. PICK x : x = Unlocked(u)
    OBVIOUS
  <1>10. Agree(Active \ {u}, handle, handle)
    BY DEF Agree
  <1>11. IsTree(x, Tokens, Pages) /\ SameMap(x, d)
    BY <1>5, <1>9, <1>10, UnlockedFact
  <1>12. n \in Names(x) \cup {<< >>} /\ EntriesOf(x) = EntriesOf(d)
    BY <1>8, <1>11 DEF SameMap
  <1>13. s \in Seq(Tokens) /\ row[u] \in Seq(Pages) /\ u \in Uids
    BY <1>1, ActiveFinite, ReqFact
  <1>14. FullPages(n) = f
    BY <1>3, <1>8, <1>13, UpToFact
  <1>15. PICK M : M = MatchedIndices(x, n)
    OBVIOUS
  <1>16. /\ M = [i \in 1 .. f |-> EntriesOf(x)[UpTo(n, i)]]
         /\ M \in Seq(Pages) /\ Len(M) = f
    BY <1>11, <1>12, <1>14, <1>15, MatchedFact
  <1>17. ASSUME NEW i \in 1 .. j PROVE M[i] = Entries[UpTo(s, i)]
    <2>1. i \in 1 .. f /\ i \in Nat /\ i <= f
      BY <1>8
    <2>2. UpTo(n, i) = UpTo(s, i)
      BY <1>3, <1>8, <1>13, <2>1, UpToUpTo
    <2>3. UpTo(s, i) \in Keys(tree)
      BY <1>8, <2>1
    <2> QED BY <1>8, <1>12, <1>16, <2>1, <2>2, <2>3 DEF Entries
  <1>18. PICK a : a = Take(M, j)
    OBVIOUS
  <1>19. a \in Seq(Pages) /\ Len(a) = j /\ \A i \in 1 .. j : a[i] = M[i]
    BY <1>8, <1>16, <1>18, SubSeqFact DEF Take
  <1>20. PICK b : b = SubSeq(row[u], j + 1, l)
    OBVIOUS
  <1>21. /\ b \in Seq(Pages) /\ Len(b) = l - j
         /\ \A i \in j + 1 .. l : b[i - j] = row[u][i]
    <2>1. j <= l /\ l <= Len(row[u])
      BY <1>7, <1>8
    <2> QED BY <1>8, <1>13, <1>20, <2>1, SliceFact
  <1>22. PICK c : c = a \o b
    OBVIOUS
  <1>23. /\ c \in Seq(Pages) /\ Len(c) = Len(a) + Len(b)
         /\ \A i \in 1 .. Len(a) : c[i] = a[i]
         /\ \A i \in Len(a) + 1 .. Len(c) : c[i] = b[i - Len(a)]
    <2>1. a \in Seq(Pages) /\ b \in Seq(Pages) /\ Len(a) \in Nat /\ Len(b) \in Nat
      BY <1>19, <1>21, LenProperties
    <2>2. c \in Seq(Pages) /\ Len(c) = Len(a) + Len(b)
      BY <1>22, <2>1, ConcatFact
    <2>3. \A i \in 1 .. Len(a) + Len(b) : c[i] = IF i <= Len(a) THEN a[i] ELSE b[i - Len(a)]
      BY <1>22, <2>1, ConcatProperties
    <2>4. \A i \in 1 .. Len(a) : i \in 1 .. Len(a) + Len(b) /\ i <= Len(a)
      BY <2>1
    <2>5. \A i \in Len(a) + 1 .. Len(a) + Len(b) :
             i \in 1 .. Len(a) + Len(b) /\ ~ (i <= Len(a))
      BY <2>1
    <2> QED BY <2>2, <2>3, <2>4, <2>5
  <1>24. Len(c) = l /\ DOMAIN c = 1 .. l /\ c = [i \in 1 .. l |-> c[i]]
    BY <1>8, <1>19, <1>21, <1>23, LenProperties
  <1>25. Repointed(u, Unlocked(u)) = c
    BY <1>6, <1>7, <1>8, <1>9, <1>15, <1>18, <1>20, <1>22 DEF Repointed, Drop
  <1>26. TextMap[u] = s /\ HeldMap[u] = q
    BY <1>1, <1>2, ViewFact
  <1>27. SP!Duplicate(u, DOMAIN Entries) = q + 1 .. j
    BY <1>1, <1>2, <1>3, <1>4, DuplicatesFact
  <1>28. PICK F : F = SP!Repointed(Entries, u)
    OBVIOUS
  <1>29. F = [i \in 1 .. l |-> IF i \in q + 1 .. j THEN Entries[UpTo(s, i)]
                                                  ELSE row[u][i]]
    BY <1>7, <1>26, <1>27, <1>28, SameOps DEF SP!Repointed
  <1>30. ASSUME NEW i \in 1 .. q PROVE row[u][i] = Entries[UpTo(s, i)]
    <2>1. \A k \in 1 .. HeldMap[u] : row[u][k] = Entries[UpTo(TextMap[u], k)]
      BY SameOps DEF SP!IInv, SP!HeldInMap
    <2> QED BY <1>26, <2>1
  <1>31. ASSUME NEW i \in 1 .. l PROVE c[i] = F[i]
    <2>1. CASE i \in 1 .. j
      <3>1. c[i] = Entries[UpTo(s, i)]
        BY <1>17, <1>19, <1>23, <2>1
      <3>2. i \in q + 1 .. j \/ i \in 1 .. q
        BY <1>8, <2>1
      <3>3. i \in 1 .. q => i \notin q + 1 .. j
        BY <1>8
      <3> QED BY <1>29, <1>30, <3>1, <3>2, <3>3
    <2>2. CASE i \notin 1 .. j
      <3>1. i \in j + 1 .. l /\ i \notin q + 1 .. j
        BY <1>8, <2>2
      <3> QED BY <1>19, <1>21, <1>23, <1>24, <1>29, <3>1
    <2> QED BY <2>1, <2>2
  <1>32. c = F
    <2>1. F = [i \in 1 .. l |-> F[i]]
      BY <1>29
    <2> QED BY ONLY <1>24, <1>31, <2>1
  <1> QED BY <1>7, <1>23, <1>24, <1>25, <1>28, <1>32

LEMMA CommitStep ==
    ASSUME NEW u \in Uids, u \in Active,
           HeldMap' = [HeldMap EXCEPT ![u] = FullPages(TextMap[u])],
           DeferredSet' = DeferredSet \cup At(row[u], SP!Duplicate(u, DOMAIN Entries)),
           row' = [row EXCEPT ![u] = SP!Repointed(Entries, u)],
           Entries' = SP!Insert(Entries, u),
           UNCHANGED <<Active, TextMap, FreeSet, content>>
    PROVE  SP!Next
  <1>1. SP!Commit(u)
    BY SameOps DEF SP!Commit, At
  <1> QED BY <1>1 DEF SP!Next

LEMMA CommitFact ==
    ASSUME TypeOK, TreeOK, LengthsOK, RowsOK, SP!IInv, NEW u \in Active, Commit(u),
           UNCHANGED <<ids, cached, device, status>>
    PROVE  /\ TreeOK' /\ RowsOK'
           /\ handle' \in [Uids -> Seq(Tokens)] /\ row' \in [Uids -> Seq(Pages)]
           /\ deferred' = deferred \o Duplicates(u)
           /\ row' = [row EXCEPT ![u] = SP!Repointed(Entries, u)]
           /\ HeldMap' = [HeldMap EXCEPT ![u] = FullPages(TextMap[u])]
           /\ Entries' = SP!Insert(Entries, u)
           /\ UNCHANGED <<Active, TextMap>>
  <1>1. PICK s : s = Computed(u)
    OBVIOUS
  <1>2. PICK f : f = FullPages(s)
    OBVIOUS
  <1>3. PICK d : d = Inserted(u).tree
    OBVIOUS
  <1>4. PICK n : n = Inserted(u).node
    OBVIOUS
  <1>5. PICK x : x = Unlocked(u)
    OBVIOUS
  <1>6. PICK c : c = Repointed(u, x)
    OBVIOUS
  <1>7. /\ tree' = Lock(x, n) /\ deferred' = deferred \o Duplicates(u)
        /\ row' = [row EXCEPT ![u] = c] /\ handle' = [handle EXCEPT ![u] = n]
    BY <1>4, <1>5, <1>6 DEF Commit, LazyFreed
  <1>8. /\ c = SP!Repointed(Entries, u) /\ c \in Seq(Pages) /\ Len(c) = Len(row[u])
    BY <1>5, <1>6, RepointedFact
  <1>9. n = UpTo(s, f) /\ n \in Names(d) \cup {<< >>} /\ f \in Nat
    BY <1>1, <1>2, <1>3, <1>4, InsertedFact
  <1>10. u \in Uids /\ s \in Seq(Tokens)
    BY <1>1, ActiveFinite, ReqFact
  <1>11. n \in Seq(Tokens) /\ IsPrefix(n, s) /\ FullPages(n) = f
    BY <1>2, <1>9, <1>10, UpToPrefix
  <1>12. handle' \in [Uids -> Seq(Tokens)] /\ row' \in [Uids -> Seq(Pages)]
    BY <1>7, <1>8, <1>11 DEF TypeOK
  <1>13. /\ \A v \in Uids \ {u} : handle'[v] = handle[v] /\ row'[v] = row[v]
         /\ handle'[u] = n /\ row'[u] = c
    BY <1>7, <1>10 DEF TypeOK
  <1>14. Active' = Active
    BY DEF Active
  <1>15. PICK g : g = handle'
    OBVIOUS
  <1>16. PICK h : h = handle
    OBVIOUS
  <1>17. PICK U : U = Active \ {u}
    OBVIOUS
  <1>18. PICK y : y = tree'
    OBVIOUS
  <1>19. y = Lock(x, n)
    BY <1>7, <1>18
  <1>20. /\ IsTree(x, Tokens, Pages) /\ SameMap(x, d) /\ Accounted(x, U, h)
    <2>1. Agree(Active \ {u}, handle, handle)
      BY DEF Agree
    <2>2. /\ IsTree(x, Tokens, Pages) /\ SameMap(x, d)
          /\ Accounted(x, Active \ {u}, handle)
      BY <1>3, <1>5, <2>1, UnlockedFact
    <2> QED BY <1>16, <1>17, <2>2
  <1>21. n \in Names(x) \cup {<< >>}
    BY <1>9, <1>20 DEF SameMap
  <1>22. IsFiniteSet(U) /\ u \notin U
    <2>1. U \in SUBSET Active
      BY <1>17
    <2>2. IsFiniteSet(U)
      BY <2>1, ActiveFinite, FS_Subset
    <2> QED BY <1>17, <2>2
  <1>23. g[u] = n /\ Agree(U, g, h)
    BY <1>13, <1>15, <1>16, <1>17, ActiveFinite DEF Agree
  <1>24. IsTree(y, Tokens, Pages) /\ SameMap(y, x) /\ Accounted(y, U \cup {u}, g)
    BY ONLY <1>19, <1>20, <1>21, <1>22, <1>23, LockFact
  <1>25. U \cup {u} = Active
    BY <1>17
  <1>26. TreeOK'
    BY <1>14, <1>15, <1>18, <1>24, <1>25 DEF TreeOK
  <1>27. Entries' = SP!Insert(Entries, u)
    <2>1. EntriesOf(d) = SP!Insert(Entries, u)
      BY <1>3, InsertedMap
    <2> QED BY <1>18, <1>20, <1>24, <2>1 DEF Entries, SameMap
  <1>28. RowsOK'
    <2>1. ASSUME NEW v \in Active
          PROVE  /\ IsPrefix(handle'[v], Computed(v))
                 /\ Len(row'[v]) = AllPages(Computed(v))
      <3>1. CASE v = u
        <4>1. Len(row[u]) = AllPages(Computed(u))
          BY DEF RowsOK
        <4> QED BY <1>1, <1>8, <1>11, <1>13, <3>1, <4>1
      <3>2. CASE v # u
        <4>1. v \in Uids
          BY ActiveFinite
        <4> QED BY <1>13, <3>2, <4>1 DEF RowsOK
      <3> QED BY <3>1, <3>2
    <2>2. ASSUME NEW v \in Uids \ Active
          PROVE  handle'[v] = << >> /\ row'[v] = << >>
      BY <1>13 DEF RowsOK
    <2> QED BY <1>14, <2>1, <2>2 DEF RowsOK, Computed
  <1>29. TextMap' = TextMap
    BY <1>14 DEF TextMap
  <1>30. HeldMap' = [HeldMap EXCEPT ![u] = FullPages(TextMap[u])]
    <2>1. TextMap[u] = s
      BY <1>1, ViewFact
    <2> QED BY <1>2, <1>10, <1>11, <1>13, <2>1 DEF HeldMap
  <1> QED BY <1>7, <1>8, <1>12, <1>14, <1>26, <1>27, <1>28, <1>29, <1>30

-----------------------------------------------------------------------------
(* One request of a drain.                                                 *)

LEMMA DrainNothingIInv ==
    ASSUME IInv, NEW u \in Uids, phase = "drain", u \in todo, Done(u),
           DrainNothing(u),
           UNCHANGED <<phase, last, ongoing, finishedReqs, aborted, cached,
                       device, ids, content>>
    PROVE  IInv' /\ UNCHANGED SP!vars
  <1>1. /\ TypeOK /\ TreeOK /\ LengthsOK /\ RowsOK /\ BatchesOK /\ ListsOK
    BY DEF IInv
  <1>2. todo' = todo \ {u}
        /\ UNCHANGED <<tree, free, deferred, status, handle, row, running, newFinished>>
    BY DEF Done, DrainNothing, poolVars
  <1>3. Active' = Active
    BY <1>2 DEF Active
  <1>4. TypeOK' /\ TreeOK' /\ LengthsOK' /\ RowsOK' /\ ListsOK'
    BY <1>1, <1>2, <1>3 DEF TypeOK, TreeOK, LengthsOK, RowsOK, Computed, ListsOK
  <1>5. BatchesOK'
    BY <1>1, <1>2, <1>3 DEF BatchesOK
  <1>6. UNCHANGED SP!vars
    BY <1>2, <1>3 DEF SP!vars, TextMap, HeldMap, Entries, FreeSet, DeferredSet
  <1> QED BY <1>4, <1>5, <1>6 DEF IInv

LEMMA DrainFinishIInv ==
    ASSUME IInv, SP!IInv, NEW u \in Uids, phase = "drain", u \in todo, Done(u),
           DrainFinish(u),
           UNCHANGED <<phase, last, ongoing, finishedReqs, aborted, cached,
                       device, ids, content>>
    PROVE  IInv' /\ (SP!Next \/ UNCHANGED SP!vars)
  <1>1. /\ TypeOK /\ TreeOK /\ LengthsOK /\ RowsOK /\ BatchesOK /\ ListsOK
    BY DEF IInv
  <1>2. /\ todo' = todo \ {u} /\ free' = free /\ running' = running \ {u}
        /\ u \in aborted \/ u \notin last.chunked
        /\ newFinished' = IF u \in last.chunked THEN newFinished
                                                ELSE newFinished \cup {u}
    BY DEF Done, DrainFinish
  <1>3. newFinished' \subseteq Uids /\ newFinished \subseteq newFinished'
        /\ u \in newFinished' \cup aborted
    BY <1>1, <1>2 DEF TypeOK
  <1>4. CASE u \notin Active
    <2>1. UNCHANGED <<tree, deferred, status, handle, row>>
      BY <1>4 DEF DrainFinish, Active
    <2>2. Active' = Active
      BY <2>1 DEF Active
    <2>3. TypeOK' /\ TreeOK' /\ LengthsOK' /\ RowsOK' /\ ListsOK'
      BY <1>1, <1>2, <1>3, <2>1, <2>2
         DEF TypeOK, TreeOK, LengthsOK, RowsOK, Computed, ListsOK
    <2>4. BatchesOK'
      BY <1>1, <1>2, <1>3, <2>2 DEF BatchesOK
    <2>5. UNCHANGED SP!vars
      BY <1>2, <2>1, <2>2 DEF SP!vars, TextMap, HeldMap, Entries, FreeSet, DeferredSet
    <2> QED BY <2>3, <2>4, <2>5 DEF IInv
  <1>5. CASE u \in Active
    <2>1. Finish(u) /\ deferred' = deferred \o Freed(u)
      BY <1>5 DEF DrainFinish, Active
    <2>2. /\ TreeOK' /\ LengthsOK' /\ RowsOK'
          /\ status' \in [Uids -> {"new", "active", "done"}]
          /\ handle' \in [Uids -> Seq(Tokens)] /\ row' \in [Uids -> Seq(Pages)]
          /\ Active' = Active \ {u}
          /\ TextMap' = [TextMap EXCEPT ![u] = << >>]
          /\ row' = [row EXCEPT ![u] = << >>]
          /\ HeldMap' = [HeldMap EXCEPT ![u] = 0]
          /\ Entries' = SP!Insert(Entries, u)
      BY <1>1, <1>2, <1>5, <2>1, FinishFact
    <2>3. /\ Freed(u) \in Seq(Pages) /\ IsInjective(Freed(u))
          /\ ToSet(Freed(u)) = SP!Leftover(u)
      BY <1>1, <1>5, FreedFact
    <2>4. deferred \in Seq(Pages) /\ IsInjective(deferred)
      BY <1>1 DEF TypeOK, ListsOK
    <2>5. deferred' \in Seq(Pages) /\ ToSet(deferred') = ToSet(deferred) \cup SP!Leftover(u)
      BY <2>1, <2>3, <2>4, ConcatFact
    <2>6. ToSet(deferred) \cap ToSet(Freed(u)) = {}
      BY <1>1, <1>5, <2>3, LeftoverOwned DEF DeferredSet
    <2>7. IsInjective(deferred')
      BY <2>1, <2>3, <2>4, <2>6, ConcatInjective
    <2>8. TypeOK'
      BY <1>1, <1>2, <1>3, <2>1, <2>2, <2>5 DEF TypeOK
    <2>9. BatchesOK'
      BY <1>1, <1>2, <1>3, <2>2 DEF BatchesOK
    <2>10. ListsOK'
      BY <1>1, <1>2, <2>7 DEF ListsOK
    <2>11. DeferredSet' = DeferredSet \cup SP!Leftover(u) /\ FreeSet' = FreeSet
      BY <1>2, <2>5 DEF FreeSet, DeferredSet
    <2>12. SP!Next
      BY <1>5, <2>2, <2>11, RetireInDrainStep
    <2> QED BY <2>2, <2>8, <2>9, <2>10, <2>12 DEF IInv
  <1> QED BY <1>4, <1>5

(* The duplicates of a committed prefix were the request's own pages.      *)
LEMMA DuplicatesFreed ==
    ASSUME TypeOK, TreeOK, LengthsOK, RowsOK, SP!IInv, NEW u \in Active
    PROVE  /\ Duplicates(u) \in Seq(Pages) /\ IsInjective(Duplicates(u))
           /\ ToSet(Duplicates(u)) = At(row[u], SP!Duplicate(u, DOMAIN Entries))
           /\ DeferredSet \cap ToSet(Duplicates(u)) = {}
  <1>1. PICK q : q = FullPages(handle[u])
    OBVIOUS
  <1>2. PICK f : f = FullPages(Computed(u))
    OBVIOUS
  <1>3. PICK j : j = FullPages(WalkEnd(tree, Computed(u)))
    OBVIOUS
  <1>4. PICK w : w = row[u]
    OBVIOUS
  <1>5. /\ q \in Nat /\ j \in Nat /\ f \in Nat /\ Len(w) \in Nat
        /\ q <= j /\ j <= f /\ f <= Len(w)
        /\ SP!Duplicate(u, DOMAIN Entries) = q + 1 .. j
        /\ Duplicates(u) = SubSeq(w, q + 1, j)
        /\ OneToOne(w, q + 1 .. Len(w))
    BY <1>1, <1>2, <1>3, <1>4, DuplicatesFact
  <1>6. w \in Seq(Pages) /\ j <= Len(w) /\ q + 1 .. j \subseteq q + 1 .. Len(w)
    BY <1>4, <1>5, ActiveFinite, ReqFact
  <1>7. PICK a : a = SubSeq(w, q + 1, j)
    OBVIOUS
  <1>8. a \in Seq(Pages) /\ ToSet(a) = At(w, q + 1 .. j)
    BY <1>5, <1>6, <1>7, SegmentFact
  <1>9. IsInjective(a)
    <2>1. OneToOne(w, q + 1 .. j)
      BY <1>5, <1>6 DEF OneToOne
    <2> QED BY <1>5, <1>6, <1>7, <2>1, SegmentInjective
  <1>10. DeferredSet \cap ToSet(a) = {}
    <2>1. \A i \in SP!Own(u) : row[u][i] \notin FreeSet \cup DeferredSet
      BY ActiveFinite DEF SP!IInv, SP!NoPageTwice
    <2>2. SP!Own(u) = q + 1 .. Len(w)
      BY <1>1, <1>4, ViewFact
    <2> QED BY <1>4, <1>6, <1>8, <2>1, <2>2 DEF At
  <1> QED BY <1>4, <1>5, <1>7, <1>8, <1>9, <1>10

LEMMA DrainGoOnIInv ==
    ASSUME IInv, SP!IInv, NEW u \in Uids, phase = "drain", u \in todo, Done(u),
           DrainGoOn(u),
           UNCHANGED <<phase, last, ongoing, finishedReqs, aborted, cached,
                       device, ids, content>>
    PROVE  IInv' /\ (SP!Next \/ UNCHANGED SP!vars)
  <1>1. /\ TypeOK /\ TreeOK /\ LengthsOK /\ RowsOK /\ BatchesOK /\ ListsOK
    BY DEF IInv
  <1>2. /\ todo' = todo \ {u} /\ u \notin aborted \cup finishedReqs
        /\ UNCHANGED <<free, status, running, newFinished>>
    BY DEF Done, DrainGoOn
  <1>3. u \in Active
    BY <1>1, <1>2 DEF BatchesOK
  <1>4. Active' = Active
    BY <1>2 DEF Active
  <1>5. BatchesOK' /\ LengthsOK'
    BY <1>1, <1>2, <1>4 DEF BatchesOK, LengthsOK
  <1>6. CASE ~ last.prefill
    <2>1. UNCHANGED <<tree, deferred, handle, row>>
      BY <1>6 DEF DrainGoOn
    <2>2. TypeOK' /\ TreeOK' /\ RowsOK' /\ ListsOK'
      BY <1>1, <1>2, <1>4, <2>1 DEF TypeOK, TreeOK, RowsOK, Computed, ListsOK
    <2>3. UNCHANGED SP!vars
      BY <1>2, <1>4, <2>1 DEF SP!vars, TextMap, HeldMap, Entries, FreeSet, DeferredSet
    <2> QED BY <1>5, <2>2, <2>3 DEF IInv
  <1>7. CASE last.prefill
    <2>1. Commit(u)
      BY <1>7 DEF DrainGoOn
    <2>2. /\ TreeOK' /\ RowsOK'
          /\ handle' \in [Uids -> Seq(Tokens)] /\ row' \in [Uids -> Seq(Pages)]
          /\ deferred' = deferred \o Duplicates(u)
          /\ row' = [row EXCEPT ![u] = SP!Repointed(Entries, u)]
          /\ HeldMap' = [HeldMap EXCEPT ![u] = FullPages(TextMap[u])]
          /\ Entries' = SP!Insert(Entries, u)
          /\ UNCHANGED <<Active, TextMap>>
      BY <1>1, <1>2, <1>3, <2>1, CommitFact
    <2>3. /\ Duplicates(u) \in Seq(Pages) /\ IsInjective(Duplicates(u))
          /\ ToSet(Duplicates(u)) = At(row[u], SP!Duplicate(u, DOMAIN Entries))
          /\ DeferredSet \cap ToSet(Duplicates(u)) = {}
      BY <1>1, <1>3, DuplicatesFreed
    <2>4. deferred \in Seq(Pages) /\ IsInjective(deferred)
      BY <1>1 DEF TypeOK, ListsOK
    <2>5. deferred' \in Seq(Pages) /\ ToSet(deferred') = ToSet(deferred) \cup ToSet(Duplicates(u))
      BY <2>2, <2>3, <2>4, ConcatFact
    <2>6. ToSet(deferred) \cap ToSet(Duplicates(u)) = {}
      BY <2>3 DEF DeferredSet
    <2>7. IsInjective(deferred')
      BY <2>2, <2>3, <2>4, <2>6, ConcatInjective
    <2>8. TypeOK'
      BY <1>1, <1>2, <2>2, <2>5 DEF TypeOK
    <2>9. ListsOK'
      BY <1>1, <1>2, <2>7 DEF ListsOK
    <2>10. /\ DeferredSet' = DeferredSet \cup At(row[u], SP!Duplicate(u, DOMAIN Entries))
           /\ FreeSet' = FreeSet
      BY <1>2, <2>3, <2>5 DEF FreeSet, DeferredSet
    <2>11. SP!Next
      BY <1>3, <2>2, <2>10, CommitStep
    <2> QED BY <1>5, <2>2, <2>8, <2>9, <2>11 DEF IInv
  <1> QED BY <1>6, <1>7

LEMMA DrainIInv ==
    ASSUME IInv, SP!IInv, NEW u \in Uids, Drain(u)
    PROVE  IInv' /\ (SP!Next \/ UNCHANGED SP!vars)
  <1>1. /\ phase = "drain" /\ u \in todo /\ Done(u)
        /\ DrainNothing(u) \/ DrainFinish(u) \/ DrainGoOn(u)
        /\ UNCHANGED <<phase, last, ongoing, finishedReqs, aborted, cached,
                       device, ids, content>>
    BY DEF Drain
  <1> QED BY <1>1, DrainNothingIInv, DrainFinishIInv, DrainGoOnIInv

-----------------------------------------------------------------------------
(* The launch of a batch: the pages it takes.                              *)

LEMMA DivCeilFact ==
    ASSUME NEW a \in Nat, NEW b \in Nat, a <= b
    PROVE  /\ DivCeil(a) \in Nat /\ DivCeil(b) \in Nat
           /\ DivCeil(a) <= DivCeil(b)
           /\ DivCeil(b) - DivCeil(a) \in Nat
           /\ DivCeil(a) <= a
  <1>1. PICK x \in Nat : x = a + PageSize - 1
    BY PageSizeAssumption
  <1>2. PICK y \in Nat : y = b + PageSize - 1
    BY PageSizeAssumption
  <1>3. PICK m : m = x \div PageSize
    OBVIOUS
  <1>4. PICK n : n = y \div PageSize
    OBVIOUS
  <1>5. m \in Nat /\ m * PageSize <= x /\ x < m * PageSize + PageSize
    BY <1>3, DivFact
  <1>6. n \in Nat /\ n * PageSize <= y /\ y < n * PageSize + PageSize
    BY <1>4, DivFact
  <1>7. x <= y
    BY <1>1, <1>2, PageSizeAssumption
  <1>8. m <= n
    BY <1>5, <1>6, <1>7, PageSizeAssumption, SMTT(30)
  <1>9. m <= a
    BY <1>1, <1>5, PageSizeAssumption, SMTT(30)
  <1>10. DivCeil(a) = m /\ DivCeil(b) = n
    BY <1>1, <1>2, <1>3, <1>4 DEF DivCeil
  <1> QED BY <1>5, <1>6, <1>8, <1>9, <1>10

LEMMA BatchFact ==
    ASSUME TypeOK, BatchesOK, phase = "sched", NEW b, b = Batch
    PROVE  /\ b \in Batches /\ b.reqs \in SUBSET Active
           /\ b.reqs \in SUBSET Uids /\ IsFiniteSet(b.reqs)
           /\ b.chunked \subseteq b.reqs
           /\ \A u \in b.chunked : device[u] < InputLen(u)
  <1>1. /\ ongoing \in Batches /\ running \subseteq Active
        /\ ongoing.reqs \subseteq Active /\ ongoing.chunked \subseteq ongoing.reqs
        /\ \A u \in ongoing.reqs : u \in ongoing.chunked <=> device[u] < InputLen(u)
    BY DEF TypeOK, BatchesOK
  <1>2. b \in Batches /\ b.reqs \in SUBSET Active /\ b.chunked \subseteq b.reqs
        /\ \A u \in b.chunked : device[u] < InputLen(u)
    <2>1. CASE ongoing.prefill
      <3>1. b = ongoing
        BY <2>1 DEF Batch
      <3> QED BY <1>1, <3>1
    <2>2. CASE ~ ongoing.prefill
      <3>1. b = [NoBatch EXCEPT !.reqs = running]
        BY <2>2 DEF Batch
      <3>2. b = [reqs |-> running, chunked |-> {}, prefill |-> FALSE]
        BY <3>1 DEF NoBatch
      <3>3. b.reqs = running /\ b.chunked = {}
        BY ONLY <3>2
      <3>4. b \in Batches
        BY <1>1, <3>2, ActiveFinite DEF Batches
      <3> QED BY <1>1, <3>3, <3>4
    <2> QED BY <2>1, <2>2
  <1>3. b.reqs \in SUBSET Uids
    BY <1>2, ActiveFinite
  <1>4. IsFiniteSet(b.reqs)
    BY <1>2, ActiveFinite, FS_Subset
  <1> QED BY <1>2, <1>3, <1>4

(* The pages a request takes bring its row to what it will have computed.  *)
LEMMA NeededFact ==
    ASSUME TypeOK, LengthsOK, NEW us \in SUBSET Uids, NEW S \in SUBSET us
    PROVE  /\ IsFiniteSet(us) /\ IsFiniteSet(S)
           /\ [u \in S |-> NeededPages(u)] \in [S -> Nat]
           /\ Needed(S) \in Nat /\ Needed(us) \in Nat /\ Needed(S) <= Needed(us)
  <1>1. IsFiniteSet(us) /\ IsFiniteSet(S) /\ S \in SUBSET Uids
    BY UidsAssumption, FS_Subset
  <1>2. ASSUME NEW u \in Uids PROVE NeededPages(u) \in Nat
    BY ReqFact, DivCeilFact DEF NeededPages
  <1>3. PICK f : f = [u \in S |-> NeededPages(u)]
    OBVIOUS
  <1>4. PICK g : g = [u \in us |-> NeededPages(u)]
    OBVIOUS
  <1>5. f \in [S -> Nat] /\ g \in [us -> Nat] /\ \A u \in S : f[u] <= g[u]
    BY <1>1, <1>2, <1>3, <1>4
  <1>6. Tally(f) \in Nat /\ Tally(g) \in Nat
    BY <1>1, <1>5, TallyNat
  <1>7. Tally(f) <= Tally(g)
    BY <1>1, <1>5, TallyMonotonic
  <1> QED BY <1>1, <1>3, <1>4, <1>5, <1>6, <1>7 DEF Needed

(* The tree and the list of pages an allocation takes from.                *)
Pool(t, f) ==
    /\ IsTree(t, Tokens, Pages) /\ Accounted(t, Active, handle)
    /\ Keys(t) \subseteq Keys(tree)
    /\ \A k \in Keys(t) : EntriesOf(t)[k] = Entries[k]
    /\ f \in Seq(Pages) /\ IsInjective(f)
    /\ ToSet(f) = FreeSet \cup SP!PagesWithout(Entries, Keys(t))
    /\ Needed(Batch.reqs) <= Len(f)
    /\ t.evictable + Len(f) * PageSize = tree.evictable + Len(free) * PageSize

LEMMA PoolFact ==
    ASSUME TypeOK, TreeOK, LengthsOK, BatchesOK, ListsOK, SP!IInv, phase = "sched",
           AllocatePaged
    PROVE  \E t, f : Pool(t, f) /\ Allocate(Batch.reqs, t, f)
  <1>1. PICK N \in Nat : N = Needed(Batch.reqs)
    BY BatchFact, NeededFact
  <1>2. PICK L \in Nat : L = Len(free)
    BY LenProperties DEF TypeOK
  <1>3. free \in Seq(Pages) /\ IsInjective(free)
    BY DEF TypeOK, ListsOK
  <1>4. Shortage = (N - L) * PageSize
    BY <1>1, <1>2 DEF Shortage
  <1>5. /\ IsTree(tree, Tokens, Pages) /\ Accounted(tree, Active, handle)
        /\ WellFormed(tree, Tokens, Pages) /\ tree.evictable \in Nat
    <2>1. IsTree(tree, Tokens, Pages) /\ Accounted(tree, Active, handle)
          /\ WellFormed(tree, Tokens, Pages)
      BY DEF TreeOK, IsTree
    <2>2. tree.evictable = TotalLength(tree, Evictable(tree))
          /\ Evictable(tree) \in SUBSET Names(tree)
      BY <2>1 DEF Accounted, CountersExact, Evictable
    <2> QED BY <2>1, <2>2, SizeNat
  <1>6. DOMAIN Entries = Keys(tree) /\ Entries = EntriesOf(tree)
    BY <1>5, EntriesType DEF Entries
  <1>7. CASE Shortage <= 0
    <2>1. N <= L
      BY <1>4, <1>7, PageSizeAssumption, SMTT(30)
    <2>2. SP!PagesWithout(Entries, Keys(tree)) = {}
      BY <1>6 DEF SP!PagesWithout
    <2>3. Pool(tree, free)
      BY <1>1, <1>2, <1>3, <1>5, <1>6, <2>1, <2>2 DEF Pool, FreeSet
    <2> QED BY <1>7, <2>3 DEF AllocatePaged
  <1>8. CASE ~ (Shortage <= 0)
    <2>1. PICK E \in EvictionSets(tree, Shortage) :
             Allocate(Batch.reqs, Evict(tree, E), free \o EvictedIndices(tree, E))
      BY <1>8 DEF AllocatePaged
    <2>2. PICK t : t = tree
      OBVIOUS
    <2>3. PICK d : d = Evict(t, E)
      OBVIOUS
    <2>4. PICK l : l = EvictedIndices(t, E)
      OBVIOUS
    <2>5. /\ E \in SUBSET Evictable(t) /\ E \in SUBSET Names(t) /\ LeavesFirst(t, E)
          /\ TotalLength(t, E) >= Shortage
      BY <2>1, <2>2 DEF EvictionSets, Evictable
    <2>6. IsTree(t, Tokens, Pages)
      BY <1>5, <2>2
    <2>7. /\ IsTree(d, Tokens, Pages) /\ Keys(d) \subseteq Keys(t)
          /\ \A k \in Keys(d) : EntriesOf(d)[k] = EntriesOf(t)[k]
          /\ PagesAt(t, E) = {EntriesOf(t)[k] : k \in Keys(t) \ Keys(d)}
      BY <2>3, <2>5, <2>6, EvictTree
    <2>8. PICK U : U = Active
      OBVIOUS
    <2>9. PICK h : h = handle
      OBVIOUS
    <2>10. Accounted(t, U, h) /\ IsFiniteSet(U)
      BY <1>5, <2>2, <2>8, <2>9, ActiveFinite
    <2>11. Accounted(d, U, h)
      BY <2>3, <2>5, <2>6, <2>10, EvictAccounted
    <2>12. d.evictable = t.evictable - TotalLength(t, E)
      BY <2>3, <2>5, <2>6, EvictNodes DEF IsTree
    <2>13. SP!PagesWithout(Entries, Keys(d)) = PagesAt(t, E)
      BY <1>6, <2>2, <2>7 DEF SP!PagesWithout
    <2>14. PagesAt(t, E) \subseteq Pages
      <3>1. EntriesOf(t) \in [Keys(t) -> Pages]
        BY <2>6, EntriesType
      <3> QED BY <2>7, <3>1
    <2>15. /\ l \in Seq(Pages) /\ IsInjective(l) /\ ToSet(l) = PagesAt(t, E)
           /\ Len(l) = Cardinality(PagesAt(t, E))
      BY <2>4, <2>14, PagesFact, EvictedFact
    <2>16. /\ \A k, m \in DOMAIN Entries : Entries[k] = Entries[m] => k = m
           /\ \A k \in DOMAIN Entries : Entries[k] \notin FreeSet \cup DeferredSet
      BY DEF SP!IInv, SP!NoPageTwice
    <2>17. Cardinality(PagesAt(t, E)) = Size(t, E)
      <3>1. \A k, m \in Keys(t) : EntriesOf(t)[k] = EntriesOf(t)[m] => k = m
        BY <1>6, <2>2, <2>16
      <3> QED BY <2>5, <2>6, <3>1, EvictedLength
    <2>18. PICK s \in Nat : s = Size(t, E) /\ TotalLength(t, E) = s * PageSize
      BY <1>5, <2>2, <2>5, SizeNat
    <2>19. ToSet(free) \cap ToSet(l) = {}
      BY <1>6, <2>2, <2>7, <2>15, <2>16 DEF FreeSet
    <2>20. /\ free \o l \in Seq(Pages) /\ Len(free \o l) = Len(free) + Len(l)
           /\ ToSet(free \o l) = ToSet(free) \cup ToSet(l)
      BY <1>3, <2>15, ConcatFact
    <2>21. IsInjective(free \o l)
      BY <1>3, <2>15, <2>19, ConcatInjective
    <2>22. Len(free \o l) = L + s
      BY <1>2, <2>15, <2>17, <2>18, <2>20
    <2>23. N <= L + s
      <3>1. s * PageSize >= (N - L) * PageSize
        BY <1>4, <2>5, <2>18
      <3>2. s \in Nat /\ N \in Nat /\ L \in Nat
        BY <2>18
      <3> QED BY ONLY <3>1, <3>2, PageSizeAssumption, SMTT(30)
    <2>24. d.evictable + Len(free \o l) * PageSize
             = tree.evictable + Len(free) * PageSize
      <3>1. PICK e \in Nat : e = tree.evictable
        BY <1>5
      <3>2. d.evictable = e - s * PageSize
        BY <2>2, <2>12, <2>18, <3>1
      <3>3. e - s * PageSize + (L + s) * PageSize = e + L * PageSize
        BY ONLY e \in Nat, s \in Nat, L \in Nat, PageSizeAssumption, SMTT(30)
      <3> QED BY <1>2, <2>22, <3>1, <3>2, <3>3
    <2>25. Pool(d, free \o l)
      <3>1. IsTree(d, Tokens, Pages) /\ Accounted(d, Active, handle)
        BY <2>7, <2>8, <2>9, <2>11
      <3>2. Keys(d) \subseteq Keys(tree) /\ \A k \in Keys(d) : EntriesOf(d)[k] = Entries[k]
        BY <1>6, <2>2, <2>7
      <3>3. ToSet(free \o l) = FreeSet \cup SP!PagesWithout(Entries, Keys(d))
        BY <2>13, <2>15, <2>20 DEF FreeSet
      <3>4. Needed(Batch.reqs) <= Len(free \o l)
        BY <1>1, <2>22, <2>23
      <3> QED BY <2>20, <2>21, <2>24, <3>1, <3>2, <3>3, <3>4 DEF Pool
    <2> QED BY <2>1, <2>2, <2>3, <2>4, <2>25
  <1> QED BY <1>7, <1>8

(* The requests of a batch that take their pages before u, and how many    *)
(* pages they take.                                                        *)
Ahead(us, u) ==
    {v \in us : \E i, j \in DOMAIN SetToSeq(us) :
        i < j /\ SetToSeq(us)[i] = v /\ SetToSeq(us)[j] = u}
Offset(us, u) == Needed(Ahead(us, u))

LEMMA AheadFact ==
    ASSUME NEW us, IsFiniteSet(us), NEW u \in us, NEW v \in us
    PROVE  /\ Ahead(us, u) \in SUBSET us /\ u \notin Ahead(us, u)
           /\ u # v => \/ Ahead(us, u) \cup {u} \subseteq Ahead(us, v)
                       \/ Ahead(us, v) \cup {v} \subseteq Ahead(us, u)
  <1>1. PICK l : l = SetToSeq(us)
    OBVIOUS
  <1>2. PICK n \in Nat : n = Cardinality(us)
    BY <1>1, SetToSeqFact
  <1>3. /\ DOMAIN l = 1 .. n
        /\ \A i, j \in DOMAIN l : l[i] = l[j] => i = j
        /\ \A x \in us : \E i \in DOMAIN l : l[i] = x
    BY <1>1, <1>2, SetToSeqFact
  <1>4. PICK a \in 1 .. n : l[a] = u
    BY <1>3
  <1>5. PICK b \in 1 .. n : l[b] = v
    BY <1>3
  <1>6. \A w : w \in Ahead(us, u) <=> w \in us /\ \E i \in 1 .. n : i < a /\ l[i] = w
    BY <1>1, <1>3, <1>4 DEF Ahead
  <1>7. \A w : w \in Ahead(us, v) <=> w \in us /\ \E i \in 1 .. n : i < b /\ l[i] = w
    BY <1>1, <1>3, <1>5 DEF Ahead
  <1>8. u \notin Ahead(us, u)
    BY <1>3, <1>4, <1>6
  <1>9. CASE a < b
    BY <1>4, <1>6, <1>7, <1>8, <1>9
  <1>10. CASE b < a
    BY <1>5, <1>6, <1>7, <1>8, <1>10
  <1>11. CASE a = b
    BY <1>4, <1>5, <1>6, <1>8, <1>11
  <1> QED BY <1>9, <1>10, <1>11

LEMMA NeededMore ==
    ASSUME TypeOK, LengthsOK, NEW S \in SUBSET Uids, NEW u \in Uids, u \notin S
    PROVE  /\ NeededPages(u) \in Nat /\ Needed(S) \in Nat
           /\ Needed(S \cup {u}) = Needed(S) + NeededPages(u)
  <1>1. PICK D : D = S \cup {u}
    OBVIOUS
  <1>2. D \in SUBSET Uids /\ u \in D /\ D \ {u} = S
    BY <1>1
  <1>3. PICK f : f = [v \in D |-> NeededPages(v)]
    OBVIOUS
  <1>4. PICK g : g = [v \in D \ {u} |-> f[v]]
    OBVIOUS
  <1>5. IsFiniteSet(D) /\ f \in [D -> Nat] /\ Needed(S) \in Nat
    BY <1>2, <1>3, NeededFact
  <1>6. Tally(g) \in Nat /\ f[u] \in Nat /\ Tally(f) = f[u] + Tally(g)
    BY <1>2, <1>4, <1>5, TallyAt
  <1>7. g = [v \in S |-> NeededPages(v)] /\ f[u] = NeededPages(u)
    BY <1>2, <1>3, <1>4
  <1> QED BY <1>1, <1>3, <1>5, <1>6, <1>7 DEF Needed

LEMMA OffsetFact ==
    ASSUME TypeOK, LengthsOK, NEW us \in SUBSET Uids, NEW u \in us, NEW v \in us
    PROVE  /\ Offset(us, u) \in Nat /\ NeededPages(u) \in Nat
           /\ Offset(us, u) + NeededPages(u) <= Needed(us)
           /\ u # v => \/ Offset(us, u) + NeededPages(u) <= Offset(us, v)
                       \/ Offset(us, v) + NeededPages(v) <= Offset(us, u)
  <1>1. IsFiniteSet(us)
    BY NeededFact
  <1>2. ASSUME NEW w \in us, NEW B \in SUBSET us, Ahead(us, w) \cup {w} \subseteq B
        PROVE  /\ Offset(us, w) \in Nat /\ NeededPages(w) \in Nat
               /\ Offset(us, w) + NeededPages(w) <= Needed(B)
    <2>1. PICK A : A = Ahead(us, w)
      OBVIOUS
    <2>2. A \in SUBSET Uids /\ w \in Uids /\ w \notin A
      BY <1>1, <2>1, AheadFact
    <2>3. /\ NeededPages(w) \in Nat /\ Needed(A) \in Nat
          /\ Needed(A \cup {w}) = Needed(A) + NeededPages(w)
      BY <2>2, NeededMore
    <2>4. Needed(A \cup {w}) <= Needed(B)
      <3>1. PICK C : C = A \cup {w}
        OBVIOUS
      <3>2. C \in SUBSET B /\ B \in SUBSET Uids
        BY <1>2, <2>1, <3>1
      <3> QED BY <3>1, <3>2, NeededFact
    <2> QED BY <2>1, <2>3, <2>4 DEF Offset
  <1>3. /\ Offset(us, u) \in Nat /\ NeededPages(u) \in Nat
        /\ Offset(us, u) + NeededPages(u) <= Needed(us)
    BY <1>1, <1>2, AheadFact
  <1>4. ASSUME u # v
        PROVE  \/ Offset(us, u) + NeededPages(u) <= Offset(us, v)
               \/ Offset(us, v) + NeededPages(v) <= Offset(us, u)
    <2>1. Ahead(us, u) \in SUBSET us /\ Ahead(us, v) \in SUBSET us
      BY <1>1, AheadFact
    <2>2. CASE Ahead(us, u) \cup {u} \subseteq Ahead(us, v)
      BY <1>2, <2>1, <2>2 DEF Offset
    <2>3. CASE Ahead(us, v) \cup {v} \subseteq Ahead(us, u)
      BY <1>2, <2>1, <2>3 DEF Offset
    <2> QED BY <1>1, <1>4, <2>2, <2>3, AheadFact
  <1> QED BY <1>3, <1>4
(* _allocate hands out disjoint slices of the list from its head; a row    *)
(* grows by its slice.                                                     *)
Cell(us, u, i) == Offset(us, u) + i - Len(row[u])
Given == UNION {{row'[u][i] : i \in SP!Grown(u)} : u \in Uids}

LEMMA RowsGrow ==
    ASSUME TypeOK, LengthsOK, NEW us \in SUBSET Uids, NEW t, NEW f \in Seq(Pages),
           Needed(us) <= Len(f), Allocate(us, t, f)
    PROVE  /\ row' \in [Uids -> Seq(Pages)]
           /\ \A u \in Uids \ us : row'[u] = row[u] /\ SP!Grown(u) = {}
           /\ \A u \in us : Len(row'[u]) = Len(row[u]) + NeededPages(u)
           /\ \A u \in us : \A i \in 1 .. Len(row[u]) : row'[u][i] = row[u][i]
           /\ \A u \in us : \A i \in SP!Grown(u) :
                /\ i - Len(row[u]) \in 1 .. NeededPages(u)
                /\ Cell(us, u, i) \in 1 .. Needed(us)
                /\ row'[u][i] = f[Cell(us, u, i)]
  <1>1. row' = [u \in Uids |->
                  IF u \in us
                  THEN row[u] \o SubSeq(f, Offset(us, u) + 1, Offset(us, u) + NeededPages(u))
                  ELSE row[u]]
    BY DEF Allocate, Offset, Ahead
  <1>2. PICK N \in Nat : N = Needed(us)
    BY NeededFact
  <1>3. Len(f) \in Nat /\ N <= Len(f)
    BY <1>2, LenProperties
  <1>4. ASSUME NEW u \in us
        PROVE  /\ row'[u] \in Seq(Pages)
               /\ Len(row'[u]) = Len(row[u]) + NeededPages(u)
               /\ \A i \in 1 .. Len(row[u]) : row'[u][i] = row[u][i]
               /\ \A i \in SP!Grown(u) :
                    /\ i - Len(row[u]) \in 1 .. NeededPages(u)
                    /\ Cell(us, u, i) \in 1 .. Needed(us)
                    /\ row'[u][i] = f[Cell(us, u, i)]
    <2>1. PICK o \in Nat : o = Offset(us, u)
      BY OffsetFact
    <2>2. PICK n \in Nat : n = NeededPages(u)
      BY OffsetFact
    <2>3. o + n <= N
      BY <1>2, <2>1, <2>2, OffsetFact
    <2>4. PICK w : w = SubSeq(f, o + 1, o + n)
      OBVIOUS
    <2>5. /\ w \in Seq(Pages) /\ Len(w) = n
          /\ \A i \in 1 .. n : w[i] = f[i + o]
      <3>1. o + n \in Nat /\ o <= o + n /\ o + n <= Len(f) /\ (o + n) - o = n
        BY <1>3, <2>3
      <3>2. PICK b : b = o + n
        OBVIOUS
      <3>3. /\ w \in Seq(Pages) /\ Len(w) = b - o
            /\ \A i \in 1 .. b - o : w[i] = f[i + o]
        BY <2>4, <3>1, <3>2, SliceFact
      <3> QED BY <3>1, <3>2, <3>3
    <2>6. PICK r \in Seq(Pages) : r = row[u]
      BY DEF TypeOK
    <2>7. PICK c : c = r \o w
      OBVIOUS
    <2>8. row'[u] = c
      BY <1>1, <2>1, <2>2, <2>4, <2>6, <2>7
    <2>9. PICK L \in Nat : L = Len(r)
      BY LenProperties
    <2>10. /\ c \in Seq(Pages) /\ Len(c) = L + n
           /\ \A i \in 1 .. L : c[i] = r[i]
           /\ \A i \in L + 1 .. Len(c) : i - L \in 1 .. n /\ c[i] = w[i - L]
      <3>0. r \in Seq(Pages) /\ w \in Seq(Pages) /\ Len(r) = L /\ Len(w) = n
        BY <2>5, <2>6, <2>9
      <3>1. c \in Seq(Pages) /\ Len(c) = Len(r) + Len(w)
        BY ONLY <3>0, <2>7, ConcatProperties
      <3>2. \A i \in 1 .. Len(c) : c[i] = IF i <= Len(r) THEN r[i] ELSE w[i - Len(r)]
        BY ONLY <3>0, <2>7, ConcatProperties
      <3> QED BY ONLY <3>0, <3>1, <3>2, L \in Nat, n \in Nat
    <2>11. SP!Grown(u) = L + 1 .. Len(c)
      BY <2>6, <2>8, <2>9 DEF SP!Grown
    <2>12. ASSUME NEW i \in SP!Grown(u)
           PROVE  /\ i - L \in 1 .. n /\ Cell(us, u, i) \in 1 .. N
                  /\ c[i] = f[Cell(us, u, i)]
      <3>1. i - L \in 1 .. n /\ c[i] = w[i - L] /\ i \in Nat
        BY <2>10, <2>11
      <3>2. Cell(us, u, i) = (i - L) + o
        BY <2>1, <2>6, <2>9, <3>1 DEF Cell
      <3>3. (i - L) + o \in 1 .. N
        BY ONLY <3>1, <2>3, L \in Nat, o \in Nat, n \in Nat, N \in Nat
      <3> QED BY <2>5, <3>1, <3>2, <3>3
    <2> QED BY <1>2, <2>2, <2>6, <2>8, <2>9, <2>10, <2>12
  <1>5. ASSUME NEW u \in Uids \ us
        PROVE  /\ row'[u] = row[u] /\ SP!Grown(u) = {} /\ row'[u] \in Seq(Pages)
    <2>1. row'[u] = row[u]
      BY <1>1
    <2>2. row[u] \in Seq(Pages) /\ Len(row[u]) \in Nat
      BY ReqFact
    <2> QED BY <2>1, <2>2 DEF SP!Grown
  <1>6. row' \in [Uids -> Seq(Pages)]
    BY <1>1, <1>4, <1>5
  <1> QED BY <1>4, <1>5, <1>6

LEMMA CellsDiffer ==
    ASSUME TypeOK, LengthsOK, NEW us \in SUBSET Uids,
           NEW u \in us, NEW i \in Int, i - Len(row[u]) \in 1 .. NeededPages(u),
           NEW v \in us, NEW j \in Int, j - Len(row[v]) \in 1 .. NeededPages(v),
           Cell(us, u, i) = Cell(us, v, j)
    PROVE  u = v /\ i = j
  <1>1. PICK a \in Nat : a = Offset(us, u)
    BY OffsetFact
  <1>2. PICK b \in Nat : b = Offset(us, v)
    BY OffsetFact
  <1>3. PICK m \in Nat : m = NeededPages(u)
    BY OffsetFact
  <1>4. PICK n \in Nat : n = NeededPages(v)
    BY OffsetFact
  <1>5. PICK k \in Nat : k = Len(row[u])
    BY ReqFact
  <1>6. PICK l \in Nat : l = Len(row[v])
    BY ReqFact
  <1>7. a + i - k = b + j - l /\ i - k \in 1 .. m /\ j - l \in 1 .. n
    BY <1>1, <1>2, <1>3, <1>4, <1>5, <1>6 DEF Cell
  <1>8. u # v => a + m <= b \/ b + n <= a
    BY <1>1, <1>2, <1>3, <1>4, OffsetFact
  <1>9. u = v
    BY ONLY <1>7, <1>8, a \in Nat, b \in Nat, m \in Nat, n \in Nat, k \in Nat,
            l \in Nat, i \in Int, j \in Int
  <1>10. a = b /\ k = l
    BY <1>1, <1>2, <1>5, <1>6, <1>9
  <1> QED BY <1>7, <1>9, <1>10

LEMMA AllocFact ==
    ASSUME TypeOK, LengthsOK, NEW us \in SUBSET Uids, NEW t, NEW f \in Seq(Pages),
           IsInjective(f), Needed(us) <= Len(f), Allocate(us, t, f)
    PROVE  /\ \A u, v \in Uids : \A i \in SP!Grown(u), j \in SP!Grown(v) :
                row'[u][i] = row'[v][j] => u = v /\ i = j
           /\ \A u \in Uids : \A i \in SP!Grown(u) : row'[u][i] \in ToSet(f)
           /\ free' \in Seq(Pages) /\ IsInjective(free')
           /\ Len(free') = Len(f) - Needed(us)
           /\ ToSet(free') = ToSet(f) \ Given
  <1>1. PICK N \in Nat : N = Needed(us)
    BY NeededFact
  <1>2. PICK L \in Nat : L = Len(f)
    BY LenProperties
  <1>3. DOMAIN f = 1 .. L /\ N <= L /\ \A i, j \in 1 .. L : f[i] = f[j] => i = j
    BY <1>1, <1>2, LenProperties DEF IsInjective
  <1>4. /\ \A u \in Uids \ us : SP!Grown(u) = {}
        /\ \A u \in us : \A i \in SP!Grown(u) :
             /\ i - Len(row[u]) \in 1 .. NeededPages(u)
             /\ Cell(us, u, i) \in 1 .. N
             /\ row'[u][i] = f[Cell(us, u, i)]
    BY <1>1, RowsGrow
  <1>5. \A u \in Uids : SP!Grown(u) \subseteq Int
    <2> TAKE u \in Uids
    <2>1. row' \in [Uids -> Seq(Pages)]
      BY RowsGrow
    <2>2. Len(row[u]) \in Nat /\ Len(row'[u]) \in Nat
      BY <2>1, ReqFact, LenProperties
    <2> QED BY <2>2 DEF SP!Grown
  <1>6. ASSUME NEW u \in Uids, NEW v \in Uids, NEW i \in SP!Grown(u), NEW j \in SP!Grown(v),
               row'[u][i] = row'[v][j]
        PROVE  u = v /\ i = j
    <2>1. u \in us /\ v \in us /\ i \in Int /\ j \in Int
      BY <1>4, <1>5
    <2>2. Cell(us, u, i) = Cell(us, v, j)
      BY <1>1, <1>3, <1>4, <2>1, <1>6
    <2>3. /\ i - Len(row[u]) \in 1 .. NeededPages(u)
          /\ j - Len(row[v]) \in 1 .. NeededPages(v)
      BY <1>4, <2>1
    <2> QED BY <2>1, <2>2, <2>3, CellsDiffer
  <1>7. ASSUME NEW u \in Uids, NEW i \in SP!Grown(u)
        PROVE  \E k \in 1 .. N : row'[u][i] = f[k]
    BY <1>4
  <1>8. free' = SubSeq(f, N + 1, L)
    BY <1>1, <1>2 DEF Allocate, Drop
  <1>9. PICK g : g = free'
    OBVIOUS
  <1>10. /\ g \in Seq(Pages) /\ Len(g) = L - N
         /\ \A k \in 1 .. L - N : g[k] = f[k + N]
         /\ \A k \in N + 1 .. L : g[k - N] = f[k]
    BY <1>2, <1>3, <1>8, <1>9, SliceFact
  <1>11. DOMAIN g = 1 .. L - N
    BY <1>10, LenProperties
  <1>12. IsInjective(g)
    <2>1. ASSUME NEW k \in 1 .. L - N, NEW l \in 1 .. L - N, g[k] = g[l]
          PROVE  k = l
      <3>1. k + N \in 1 .. L /\ l + N \in 1 .. L /\ f[k + N] = f[l + N]
        BY <1>3, <1>10, <2>1
      <3>2. k + N = l + N
        BY <1>3, <3>1
      <3> QED BY <3>2
    <2> QED BY <1>11, <2>1 DEF IsInjective
  <1>13. \A p : p \in ToSet(g) <=> \E k \in N + 1 .. L : p = f[k]
    <2> TAKE p
    <2>1. ASSUME p \in ToSet(g) PROVE \E k \in N + 1 .. L : p = f[k]
      <3>1. PICK k \in 1 .. L - N : p = g[k]
        BY <1>11, <2>1 DEF ToSet
      <3>2. k + N \in N + 1 .. L
        BY <1>3
      <3> QED BY <1>10, <3>1, <3>2
    <2>2. ASSUME NEW k \in N + 1 .. L, p = f[k] PROVE p \in ToSet(g)
      <3>1. k - N \in 1 .. L - N /\ g[k - N] = p
        BY <1>3, <1>10, <2>2
      <3> QED BY <1>11, <3>1 DEF ToSet
    <2> QED BY <2>1, <2>2
  <1>14. \A p : p \in ToSet(f) <=> \E k \in 1 .. L : p = f[k]
    BY <1>3 DEF ToSet
  <1>15. ASSUME NEW k \in 1 .. N PROVE f[k] \in Given
    <2>1. IsFiniteSet(us)
      BY NeededFact
    <2>2. PICK n : n = [u \in us |-> NeededPages(u)]
      OBVIOUS
    <2>3. PICK o : o = [u \in us |-> Offset(us, u)]
      OBVIOUS
    <2>4. n \in [us -> Nat] /\ o \in [us -> Nat] /\ N = Tally(n)
      BY <1>1, <2>2, <2>3, OffsetFact DEF Needed
    <2>5. \A u \in us : o[u] + n[u] <= N
      BY <1>1, <2>2, <2>3, OffsetFact
    <2>6. \A u, v \in us : u # v => o[u] + n[u] <= o[v] \/ o[v] + n[v] <= o[u]
      BY <2>2, <2>3, OffsetFact
    <2>16. Slices(us, n, o) /\ k \in 1 .. Tally(n)
      BY <2>4, <2>5, <2>6 DEF Slices
    <2>7. \E u \in us : \E i \in 1 .. n[u] : k = o[u] + i
      <3>1. InSlice(us, n, o, k)
        BY ONLY <2>1, <2>4, <2>16, SlicesFact
      <3> QED BY <3>1 DEF InSlice
    <2>8. PICK u \in us : \E i \in 1 .. n[u] : k = o[u] + i
      BY <2>7
    <2>15. PICK i \in 1 .. n[u] : k = o[u] + i
      BY <2>8
    <2>9. n[u] = NeededPages(u) /\ n[u] \in Nat /\ o[u] = Offset(us, u) /\ o[u] \in Nat
      BY <2>2, <2>3, <2>4
    <2>10. PICK l \in Nat : l = Len(row[u])
      BY ReqFact
    <2>11. Len(row'[u]) = l + n[u]
      BY <2>9, <2>10, RowsGrow
    <2>12. l + i \in SP!Grown(u)
      BY <2>9, <2>10, <2>11 DEF SP!Grown
    <2>13. Cell(us, u, l + i) = k
      BY <2>15, <2>9, <2>10 DEF Cell
    <2>14. row'[u][l + i] = f[k]
      BY <1>4, <2>12, <2>13
    <2> QED BY <2>12, <2>14 DEF Given
  <1>16. ToSet(g) = ToSet(f) \ Given
    <2>1. ASSUME NEW k \in N + 1 .. L PROVE f[k] \notin Given /\ f[k] \in ToSet(f)
      <3>1. k \in 1 .. L
        BY <1>1
      <3>2. \A l \in 1 .. N : f[l] # f[k]
        BY <1>3, <3>1
      <3> QED BY <1>7, <1>14, <3>1, <3>2 DEF Given
    <2>2. \A k \in 1 .. L : k \in 1 .. N \/ k \in N + 1 .. L
      BY <1>3
    <2> QED BY <1>13, <1>14, <1>15, <2>1, <2>2
  <1>17. \A u \in Uids : \A i \in SP!Grown(u) : row'[u][i] \in ToSet(f)
    BY <1>3, <1>7, <1>14
  <1> QED BY <1>1, <1>2, <1>6, <1>9, <1>10, <1>12, <1>16, <1>17

-----------------------------------------------------------------------------
(* The forward and what is written when it has been launched.              *)

LEMMA CompleteFact ==
    ASSUME IInv, phase = "sched", NEW us, us = Batch.reqs, CompleteOne(Batch),
           status' = status
    PROVE  /\ cached' \in [Uids -> Nat] /\ device' \in [Uids -> Nat]
           /\ ids' \in [Uids -> Seq(Tokens)] /\ running' \subseteq Active
           /\ LengthsOK' /\ Active' = Active
           /\ TextMap' \in [Uids -> Seq(Tokens)]
           /\ \A u \in us : TextMap'[u] = Take(ids[u], device[u])
           /\ \A u \in Uids \ us : TextMap'[u] = TextMap[u]
           /\ \A u \in Uids : cached'[u] = IF u \in us THEN device[u] ELSE cached[u]
           /\ \A u \in Active : Take(ids'[u], cached'[u]) = TextMap'[u]
  <1>1. TypeOK /\ LengthsOK /\ BatchesOK
    BY DEF IInv
  <1>2. PICK b : b = Batch
    OBVIOUS
  <1>3. /\ b \in Batches /\ us = b.reqs /\ us \in SUBSET Active /\ us \in SUBSET Uids
        /\ b.chunked \subseteq us /\ \A u \in b.chunked : device[u] < InputLen(u)
    BY <1>1, <1>2, BatchFact
  <1>4. PICK C : C = b.chunked
    OBVIOUS
  <1>5. /\ cached' = [u \in Uids |-> IF u \in us THEN device[u] ELSE cached[u]]
        /\ device' = [u \in Uids |-> IF u \in us THEN device[u] + 1 ELSE device[u]]
        /\ \E token \in [us \ C -> Tokens] :
             ids' = [u \in Uids |-> IF u \in us \ C THEN Append(ids[u], token[u])
                                                    ELSE ids[u]]
        /\ running' \subseteq running \cup us
    BY <1>2, <1>3, <1>4 DEF CompleteOne
  <1>6. PICK token \in [us \ C -> Tokens] :
          ids' = [u \in Uids |-> IF u \in us \ C THEN Append(ids[u], token[u])
                                                 ELSE ids[u]]
    BY <1>5
  <1>7. Active' = Active
    BY DEF Active
  <1>8. ASSUME NEW u \in Uids
        PROVE  /\ cached[u] \in Nat /\ device[u] \in Nat /\ ids[u] \in Seq(Tokens)
               /\ Len(ids[u]) \in Nat /\ InputLen(u) \in Nat
               /\ cached[u] <= device[u] /\ device[u] <= Len(ids[u])
               /\ InputLen(u) <= Len(ids[u])
               /\ status[u] = "new" => ids[u] = Prompt[u]
    BY <1>1, ReqFact DEF LengthsOK
  <1>9. ASSUME NEW u \in Uids
        PROVE  /\ ids'[u] \in Seq(Tokens) /\ Len(ids'[u]) \in Nat
               /\ Len(ids[u]) <= Len(ids'[u])
               /\ u \notin us => ids'[u] = ids[u]
               /\ u \in us \ C => Len(ids'[u]) = Len(ids[u]) + 1
               /\ \A i \in 1 .. Len(ids[u]) : ids'[u][i] = ids[u][i]
    <2>1. CASE u \in us \ C
      <3>1. ids'[u] = Append(ids[u], token[u]) /\ token[u] \in Tokens
        BY <1>6, <2>1
      <3>2. /\ ids'[u] \in Seq(Tokens) /\ Len(ids'[u]) = Len(ids[u]) + 1
            /\ \A i \in 1 .. Len(ids[u]) : ids'[u][i] = ids[u][i]
        BY <1>8, <3>1, AppendProperties
      <3> QED BY <1>8, <2>1, <3>2
    <2>2. CASE u \notin us \ C
      BY <1>6, <1>8, <2>2
    <2> QED BY <2>1, <2>2
  <1>10. ASSUME NEW u \in Uids, NEW n \in Nat, n <= Len(ids[u])
         PROVE  Take(ids'[u], n) = Take(ids[u], n)
    <2>1. ids[u] \in Seq(Tokens) /\ ids'[u] \in Seq(Tokens) /\ n <= Len(ids'[u])
      BY <1>8, <1>9, <1>10
    <2>2. PICK s : s = ids'[u]
      OBVIOUS
    <2>3. PICK r : r = ids[u]
      OBVIOUS
    <2>4. /\ SubSeq(s, 1, n) \in Seq(Tokens) /\ Len(SubSeq(s, 1, n)) = n
          /\ \A k \in 1 .. n : SubSeq(s, 1, n)[k] = s[k]
      BY <2>1, <2>2, SubSeqFact
    <2>5. /\ SubSeq(r, 1, n) \in Seq(Tokens) /\ Len(SubSeq(r, 1, n)) = n
          /\ \A k \in 1 .. n : SubSeq(r, 1, n)[k] = r[k]
      BY <1>10, <2>1, <2>3, SubSeqFact
    <2>6. \A k \in 1 .. n : s[k] = r[k]
      BY <1>8, <1>9, <1>10, <2>2, <2>3
    <2>7. SubSeq(s, 1, n) = SubSeq(r, 1, n)
      BY ONLY <2>4, <2>5, <2>6, PrefixFact
    <2> QED BY <2>2, <2>3, <2>7 DEF Take
  <1>11. ASSUME NEW u \in Uids
         PROVE  /\ cached'[u] <= device'[u] /\ device'[u] <= Len(ids'[u])
                /\ InputLen(u) <= Len(ids'[u])
                /\ status'[u] = "new" => ids'[u] = Prompt[u]
    <2>1. CASE u \in us
      <3>1. cached'[u] = device[u] /\ device'[u] = device[u] + 1
        BY <1>5, <2>1
      <3>2. device[u] + 1 <= Len(ids'[u])
        BY <1>3, <1>4, <1>8, <1>9, <2>1
      <3>3. status[u] = "active"
        BY <1>3, <2>1 DEF Active
      <3> QED BY <1>8, <1>9, <3>1, <3>2, <3>3
    <2>2. CASE u \notin us
      <3>1. cached'[u] = cached[u] /\ device'[u] = device[u] /\ ids'[u] = ids[u]
        BY <1>5, <1>9, <2>2
      <3> QED BY <1>8, <3>1
    <2> QED BY <2>1, <2>2
  <1>12. /\ cached' \in [Uids -> Nat] /\ device' \in [Uids -> Nat]
    BY <1>5, <1>8
  <1>13. ids' \in [Uids -> Seq(Tokens)]
    BY <1>6, <1>9
  <1>14. ASSUME NEW u \in Uids
         PROVE  /\ TextMap'[u] \in Seq(Tokens)
                /\ u \in Active => Take(ids'[u], cached'[u]) = TextMap'[u]
                /\ u \in us => TextMap'[u] = Take(ids[u], device[u])
                /\ u \notin us => TextMap'[u] = TextMap[u]
    <2>1. TextMap'[u] = IF u \in Active THEN Take(ids'[u], cached'[u]) ELSE << >>
      BY <1>7 DEF TextMap
    <2>2. CASE u \in us
      <3>1. u \in Active /\ cached'[u] = device[u]
        BY <1>3, <1>5, <2>2
      <3>2. TextMap'[u] = Take(ids[u], device[u])
        BY <1>8, <1>10, <2>1, <3>1
      <3> QED BY <1>8, <2>1, <2>2, <3>1, <3>2, TakeFact
    <2>3. CASE u \notin us /\ u \in Active
      <3>1. cached'[u] = cached[u] /\ ids'[u] = ids[u]
        BY <1>5, <1>9, <2>3
      <3>2. TextMap[u] = Take(ids[u], cached[u]) /\ cached[u] <= Len(ids[u])
        BY <1>8, <2>3 DEF TextMap
      <3> QED BY <1>8, <2>1, <2>3, <3>1, <3>2, TakeFact
    <2>4. CASE u \notin Active
      <3>1. u \notin us /\ TextMap[u] = << >> /\ TextMap'[u] = << >>
        BY <1>3, <2>1, <2>4 DEF TextMap
      <3> QED BY <2>4, <3>1, EmptyFact
    <2> QED BY <2>2, <2>3, <2>4
  <1>15. TextMap' \in [Uids -> Seq(Tokens)]
    <2>1. TextMap' = [u \in Uids |-> TextMap'[u]]
      BY DEF TextMap
    <2> QED BY <1>14, <2>1
  <1>16. LengthsOK'
    BY <1>11 DEF LengthsOK
  <1>17. running' \subseteq Active
    BY <1>1, <1>3, <1>5 DEF BatchesOK
  <1> QED BY <1>3, <1>5, <1>7, <1>12, <1>13, <1>14, <1>15, <1>16, <1>17, ActiveFinite

(* What a successful launch does to the pool and the requests.             *)
Forwarded(us, t, f) ==
    /\ phase = "sched" /\ us = Batch.reqs
    /\ Pool(t, f) /\ Allocate(us, t, f) /\ Compute(us) /\ CompleteOne(Batch)
    /\ status' = status /\ handle' = handle /\ deferred' = deferred

LEMMA ForwardedRows ==
    ASSUME IInv, NEW us, NEW t, NEW f, Forwarded(us, t, f)
    PROVE  /\ us \in SUBSET Active /\ us \in SUBSET Uids
           /\ row' \in [Uids -> Seq(Pages)]
           /\ \A u \in Uids : /\ row[u] \in Seq(Pages) /\ Len(row[u]) \in Nat
                              /\ Len(row'[u]) \in Nat /\ Len(row[u]) <= Len(row'[u])
                              /\ \A i \in 1 .. Len(row[u]) : row'[u][i] = row[u][i]
                              /\ Len(row'[u]) = AllPages(TextMap'[u])
           /\ \A u \in Uids \ us : row'[u] = row[u]
  <1>1. TypeOK /\ LengthsOK /\ BatchesOK /\ RowsOK
    BY DEF IInv
  <1>2. /\ phase = "sched" /\ us = Batch.reqs /\ CompleteOne(Batch) /\ status' = status
        /\ Allocate(us, t, f) /\ f \in Seq(Pages) /\ Needed(us) <= Len(f)
    BY DEF Forwarded, Pool
  <1>3. us \in SUBSET Active /\ us \in SUBSET Uids
    BY <1>1, <1>2, BatchFact
  <1>4. /\ row' \in [Uids -> Seq(Pages)]
        /\ \A u \in Uids \ us : row'[u] = row[u]
        /\ \A u \in us : Len(row'[u]) = Len(row[u]) + NeededPages(u)
        /\ \A u \in us : \A i \in 1 .. Len(row[u]) : row'[u][i] = row[u][i]
    BY <1>1, <1>2, <1>3, RowsGrow
  <1>5. /\ \A u \in us : TextMap'[u] = Take(ids[u], device[u])
        /\ \A u \in Uids \ us : TextMap'[u] = TextMap[u]
    BY <1>2, CompleteFact
  <1>6. ASSUME NEW u \in Uids
        PROVE  /\ row[u] \in Seq(Pages) /\ Len(row[u]) \in Nat
               /\ Len(row'[u]) \in Nat /\ Len(row[u]) <= Len(row'[u])
               /\ \A i \in 1 .. Len(row[u]) : row'[u][i] = row[u][i]
               /\ Len(row'[u]) = AllPages(TextMap'[u])
    <2>1. /\ row[u] \in Seq(Pages) /\ Len(row[u]) \in Nat
          /\ row'[u] \in Seq(Pages) /\ Len(row'[u]) \in Nat
      BY <1>1, <1>4, ReqFact, LenProperties
    <2>2. CASE u \in us
      <3>1. Len(row[u]) = DivCeil(cached[u])
        BY <1>1, <1>3, <2>2, ReqFact DEF RowsOK
      <3>2. /\ DivCeil(cached[u]) \in Nat /\ DivCeil(device[u]) \in Nat
            /\ DivCeil(cached[u]) <= DivCeil(device[u])
        BY <1>1, ReqFact, DivCeilFact
      <3>3. Len(row'[u]) = DivCeil(device[u])
        BY <1>4, <2>2, <3>1, <3>2 DEF NeededPages
      <3>4. AllPages(TextMap'[u]) = DivCeil(device[u])
        BY <1>1, <1>5, <2>2, ReqFact, TakeFact
      <3> QED BY <1>4, <2>1, <2>2, <3>1, <3>2, <3>3, <3>4
    <2>3. CASE u \notin us
      <3>1. row'[u] = row[u] /\ TextMap'[u] = TextMap[u]
        BY <1>4, <1>5, <2>3
      <3>2. Len(row[u]) = AllPages(TextMap[u])
        <4>1. CASE u \in Active
          BY <1>1, <4>1 DEF RowsOK, TextMap, Computed
        <4>2. CASE u \notin Active
          <5>1. row[u] = << >> /\ TextMap[u] = << >>
            BY <1>1, <4>2 DEF RowsOK, TextMap
          <5> QED BY <5>1, EmptyFact
        <4> QED BY <4>1, <4>2
      <3> QED BY <2>1, <3>1, <3>2
    <2> QED BY <2>2, <2>3
  <1> QED BY <1>3, <1>4, <1>6

LEMMA WritersDiffer ==
    ASSUME IInv, SP!IInv, NEW us, NEW t, NEW f, Forwarded(us, t, f),
           NEW u \in Uids, NEW v \in Uids,
           NEW i \in SP!Own(u) \cup SP!Grown(u), NEW j \in SP!Own(v) \cup SP!Grown(v),
           row'[u][i] = row'[v][j]
    PROVE  u = v /\ i = j
  <1>1. TypeOK /\ LengthsOK /\ BatchesOK /\ RowsOK
    BY DEF IInv
  <1>2. /\ Allocate(us, t, f) /\ f \in Seq(Pages) /\ Needed(us) <= Len(f)
        /\ IsInjective(f)
        /\ ToSet(f) = FreeSet \cup SP!PagesWithout(Entries, Keys(t))
    BY DEF Forwarded, Pool
  <1>3. us \in SUBSET Uids
    BY ForwardedRows
  <1>4. /\ \A x, y \in Uids : \A k \in SP!Grown(x), l \in SP!Grown(y) :
              row'[x][k] = row'[y][l] => x = y /\ k = l
        /\ \A x \in Uids : \A k \in SP!Grown(x) : row'[x][k] \in ToSet(f)
    BY <1>1, <1>2, <1>3, AllocFact
  <1>5. /\ \A x, y \in Uids : \A k \in SP!Own(x), l \in SP!Own(y) :
              row[x][k] = row[y][l] => x = y /\ k = l
        /\ \A x \in Uids : \A k \in SP!Own(x) :
             /\ row[x][k] \notin FreeSet \cup DeferredSet
             /\ \A e \in DOMAIN Entries : row[x][k] # Entries[e]
    BY DEF SP!IInv, SP!NoPageTwice
  <1>6. \A x \in Uids : \A k \in SP!Own(x) : row'[x][k] = row[x][k]
    <2> TAKE x \in Uids
    <2> TAKE k \in SP!Own(x)
    <2>1. Len(row[x]) \in Nat /\ \A l \in 1 .. Len(row[x]) : row'[x][l] = row[x][l]
      BY ForwardedRows
    <2>2. HeldMap[x] \in Nat
      <3>1. handle[x] \in Seq(Tokens)
        BY <1>1, ReqFact
      <3> QED BY <3>1, FullPagesFact DEF HeldMap
    <2>3. k \in 1 .. Len(row[x])
      BY <2>1, <2>2 DEF SP!Own
    <2> QED BY <2>1, <2>3
  <1>7. \A x \in Uids : \A k \in SP!Own(x) : row'[x][k] \notin ToSet(f)
    BY <1>2, <1>5, <1>6 DEF SP!PagesWithout
  <1>8. CASE i \in SP!Own(u) /\ j \in SP!Own(v)
    BY <1>5, <1>6, <1>8
  <1>9. CASE i \in SP!Grown(u) /\ j \in SP!Grown(v)
    BY <1>4, <1>9
  <1>10. CASE i \in SP!Own(u) /\ j \in SP!Grown(v)
    BY <1>4, <1>7, <1>10
  <1>11. CASE i \in SP!Grown(u) /\ j \in SP!Own(v)
    BY <1>4, <1>7, <1>11
  <1> QED BY <1>8, <1>9, <1>10, <1>11

(* A forward writes only what its requests own, each page by one request.  *)
LEMMA WrittenFact ==
    ASSUME IInv, NEW us, NEW t, NEW f, Forwarded(us, t, f), NEW u \in Uids
    PROVE  /\ SP!Written(u) \subseteq SP!Own(u) \cup SP!Grown(u)
           /\ SP!Written(u) \subseteq 1 .. Len(row'[u])
           /\ u \in us => SP!Written(u) = cached[u] \div PageSize + 1 .. Len(row'[u])
           /\ u \in us => FullPages(TextMap[u]) = cached[u] \div PageSize
           /\ u \notin us => SP!Written(u) \subseteq SP!Own(u)
           /\ u \notin Active => SP!Written(u) = {}
  <1>1. TypeOK /\ LengthsOK /\ TreeOK /\ RowsOK
    BY DEF IInv
  <1>2. /\ Len(row[u]) \in Nat /\ Len(row'[u]) \in Nat /\ Len(row[u]) <= Len(row'[u])
        /\ us \in SUBSET Active
        /\ u \notin us => row'[u] = row[u]
    BY ForwardedRows
  <1>3. SP!Written(u) = FullPages(TextMap[u]) + 1 .. Len(row'[u])
    BY SameOps DEF SP!Written
  <1>4. SP!Grown(u) = Len(row[u]) + 1 .. Len(row'[u])
    BY DEF SP!Grown
  <1>5. CASE u \in Active
    <2>1. SP!Own(u) = FullPages(handle[u]) + 1 .. Len(row[u]) /\ TextMap[u] = Computed(u)
      BY <1>5, ViewFact
    <2>2. /\ FullPages(handle[u]) \in Nat /\ FullPages(Computed(u)) \in Nat
          /\ FullPages(handle[u]) <= FullPages(Computed(u))
      BY <1>1, <1>5, HandleFact
    <2>3. FullPages(Computed(u)) = cached[u] \div PageSize
      BY <1>1, ReqFact
    <2>4. PICK p \in Nat : p = FullPages(Computed(u))
      BY <2>2
    <2>5. PICK q \in Nat : q = FullPages(handle[u]) /\ q <= p
      BY <2>2, <2>4
    <2>6. PICK m \in Nat : m = Len(row[u])
      BY <1>2
    <2>7. PICK n \in Nat : n = Len(row'[u]) /\ m <= n
      BY <1>2, <2>6
    <2>8. SP!Written(u) = p + 1 .. n /\ SP!Own(u) = q + 1 .. m /\ SP!Grown(u) = m + 1 .. n
      BY <1>3, <1>4, <2>1, <2>4, <2>5, <2>6, <2>7
    <2>9. p + 1 .. n \subseteq (q + 1 .. m) \cup (m + 1 .. n) /\ p + 1 .. n \subseteq 1 .. n
      BY ONLY p \in Nat, q \in Nat, m \in Nat, n \in Nat, <2>5, <2>7
    <2>10. u \notin us => m = n
      BY <1>2, <2>6, <2>7
    <2>11. u \notin us => p + 1 .. n \subseteq q + 1 .. m
      BY ONLY p \in Nat, q \in Nat, m \in Nat, n \in Nat, <2>5, <2>7, <2>10
    <2> QED BY <1>3, <1>5, <2>1, <2>3, <2>7, <2>8, <2>9, <2>11
  <1>6. CASE u \notin Active
    <2>1. row[u] = << >> /\ TextMap[u] = << >>
      BY <1>1, <1>6 DEF RowsOK, TextMap
    <2>2. Len(row'[u]) = 0 /\ FullPages(TextMap[u]) = 0 /\ u \notin us
      BY <1>2, <1>6, <2>1, EmptyFact
    <2>3. SP!Written(u) = {}
      BY <1>3, <2>2
    <2> QED BY <2>2, <2>3
  <1> QED BY <1>5, <1>6

LEMMA ContentFact ==
    ASSUME IInv, SP!IInv, NEW us, NEW t, NEW f, Forwarded(us, t, f)
    PROVE  /\ content' \in [Pages -> Seq(Tokens)]
           /\ \A u \in Uids : \A i \in SP!Written(u) :
                content'[row'[u][i]] = UpTo(TextMap'[u], i)
           /\ \A p \in Pages :
                \/ content'[p] = content[p]
                \/ \E u \in Uids : \E i \in SP!Written(u) : p = row'[u][i]
  <1>1. TypeOK /\ LengthsOK /\ BatchesOK /\ RowsOK
    BY DEF IInv
  <1>2. us \in SUBSET Active /\ us \in SUBSET Uids /\ row' \in [Uids -> Seq(Pages)]
    BY ForwardedRows
  <1>3. /\ \A u \in us : TextMap'[u] = Take(ids[u], device[u])
        /\ \A u \in Uids \ us : TextMap'[u] = TextMap[u]
        /\ TextMap' \in [Uids -> Seq(Tokens)]
    BY CompleteFact DEF Forwarded
  <1>4. ASSUME NEW u \in Uids
        PROVE  /\ SP!Written(u) \subseteq SP!Own(u) \cup SP!Grown(u)
               /\ SP!Written(u) \subseteq 1 .. Len(row'[u])
               /\ u \in us => SP!Written(u) = cached[u] \div PageSize + 1 .. Len(row'[u])
               /\ u \notin us => SP!Written(u) \subseteq SP!Own(u)
    BY WrittenFact
  <1>5. ASSUME NEW u \in Uids, NEW v \in Uids, NEW i \in SP!Written(u),
               NEW j \in SP!Written(v), row'[u][i] = row'[v][j]
        PROVE  u = v /\ i = j
    <2>1. i \in SP!Own(u) \cup SP!Grown(u) /\ j \in SP!Own(v) \cup SP!Grown(v)
      BY <1>4
    <2> QED BY <1>5, <2>1, WritersDiffer
  <1>6. PICK W : W = [p \in Pages |-> {u \in us : Writes(u, p) # {}}]
    OBVIOUS
  <1>7. content' = [p \in Pages |->
            IF W[p] = {} THEN content[p]
            ELSE UpTo(Take(ids[CHOOSE u \in W[p] : TRUE], device[CHOOSE u \in W[p] : TRUE]),
                      CHOOSE i \in Writes(CHOOSE u \in W[p] : TRUE, p) : TRUE)]
    BY <1>6 DEF Forwarded, Compute
  <1>8. ASSUME NEW u \in us, NEW p PROVE Writes(u, p) = {i \in SP!Written(u) : row'[u][i] = p}
    BY <1>2, <1>4 DEF Writes
  <1>9. ASSUME NEW p \in Pages, W[p] = {}
        PROVE  content'[p] = content[p]
    BY <1>7, <1>9
  <1>10. ASSUME NEW u \in us, NEW i \in SP!Written(u)
         PROVE  /\ row'[u][i] \in Pages
                /\ content'[row'[u][i]] = UpTo(TextMap'[u], i)
    <2>1. row'[u][i] \in Pages
      BY <1>2, <1>4, ElementOfSeq
    <2>2. PICK p \in Pages : p = row'[u][i]
      BY <2>1
    <2>3. i \in Writes(u, p)
      BY <1>8, <2>2
    <2>4. PICK v : v = CHOOSE x \in W[p] : TRUE
      OBVIOUS
    <2>5. W[p] # {} /\ W[p] = {x \in us : Writes(x, p) # {}}
      BY <1>6, <2>3
    <2>6. v \in us /\ Writes(v, p) # {}
      BY <2>4, <2>5
    <2>7. PICK j : j = CHOOSE x \in Writes(v, p) : TRUE
      OBVIOUS
    <2>8. j \in SP!Written(v) /\ row'[v][j] = p
      BY <1>8, <2>6, <2>7
    <2>9. u = v /\ i = j
      BY <1>2, <1>5, <2>2, <2>6, <2>8
    <2>10. content'[p] = UpTo(Take(ids[v], device[v]), j)
      BY <1>7, <2>4, <2>5, <2>7
    <2> QED BY <1>3, <2>1, <2>2, <2>9, <2>10
  <1>11. ASSUME NEW u \in Uids \ us, NEW i \in SP!Written(u)
         PROVE  content'[row'[u][i]] = UpTo(TextMap'[u], i)
    <2>1. row'[u][i] \in Pages
      BY <1>2, <1>4, ElementOfSeq
    <2>2. PICK p \in Pages : p = row'[u][i]
      BY <2>1
    <2>3. W[p] = {}
      <3>1. ASSUME NEW v \in W[p] PROVE FALSE
        <4>1. v \in us /\ Writes(v, p) # {}
          BY <1>6, <3>1
        <4>2. PICK j : j \in SP!Written(v) /\ row'[v][j] = p
          BY <1>8, <4>1
        <4> QED BY <1>2, <1>5, <2>2, <4>1, <4>2
      <3> QED BY <3>1
    <2>4. content'[p] = content[p]
      BY <1>9, <2>3
    <2>5. i \in SP!Own(u) /\ row'[u] = row[u] /\ TextMap'[u] = TextMap[u]
      BY <1>3, <1>4, ForwardedRows
    <2>6. content[row[u][i]] = UpTo(TextMap[u], i)
      <3>1. \A x \in Uids : \A k \in SP!Own(x) : content[row[x][k]] = UpTo(TextMap[x], k)
        BY SameOps DEF SP!IInv, SP!OwnHoldsText
      <3> QED BY <2>5, <3>1
    <2> QED BY <2>2, <2>4, <2>5, <2>6
  <1>12. ASSUME NEW p \in Pages, W[p] # {}
         PROVE  \E u \in us : \E i \in SP!Written(u) : p = row'[u][i]
    BY <1>6, <1>8, <1>12
  <1>13. ASSUME NEW p \in Pages PROVE content'[p] \in Seq(Tokens)
    <2>1. CASE W[p] = {}
      BY <1>1, <1>9, <2>1 DEF TypeOK
    <2>2. CASE W[p] # {}
      <3>1. PICK u \in us : \E i \in SP!Written(u) : p = row'[u][i]
        BY <1>12, <2>2
      <3>2. PICK i \in SP!Written(u) : p = row'[u][i]
        BY <3>1
      <3>3. content'[p] = UpTo(TextMap'[u], i)
        BY <1>10, <3>2
      <3>4. i \in Nat /\ TextMap'[u] \in Seq(Tokens)
        BY <1>2, <1>3, <1>4
      <3> QED BY <3>3, <3>4, UpToFact
    <2> QED BY <2>1, <2>2
  <1>14. content' \in [Pages -> Seq(Tokens)]
    BY <1>7, <1>13
  <1>15. \A u \in Uids : \A i \in SP!Written(u) :
                content'[row'[u][i]] = UpTo(TextMap'[u], i)
    BY <1>10, <1>11
  <1>16. \A p \in Pages :
                \/ content'[p] = content[p]
                \/ \E u \in Uids : \E i \in SP!Written(u) : p = row'[u][i]
    BY <1>2, <1>9, <1>12
  <1> QED BY <1>14, <1>15, <1>16

LEMMA KeysClosed ==
    ASSUME NEW t, WellFormed(t, Tokens, Pages), NEW k \in Keys(t),
           NEW i \in 1 .. FullPages(k)
    PROVE  UpTo(k, i) \in Keys(t)
  <1>1. k \in Seq(Tokens) /\ \E n \in Names(t) : IsPrefix(k, n)
    BY KeyFact
  <1>2. PICK n \in Names(t) : IsPrefix(k, n)
    BY <1>1
  <1>3. FullPages(k) \in Nat /\ i \in Nat /\ i <= FullPages(k) /\ i # 0
    BY <1>1, FullPagesFact
  <1>4. /\ UpTo(k, i) \in Seq(Tokens) /\ IsPrefix(UpTo(k, i), k)
        /\ Whole(UpTo(k, i)) /\ UpTo(k, i) # << >>
    BY <1>1, <1>3, UpToPrefix
  <1>5. n \in Seq(Tokens)
    BY NameFact
  <1>6. IsPrefix(UpTo(k, i), n)
    BY <1>1, <1>2, <1>4, <1>5, PrefixTrans
  <1> QED BY <1>4, <1>6, KeyFact

(* What a request has locked stays in the tree.                            *)
LEMMA LockedKept ==
    ASSUME IInv, NEW t, NEW f, Pool(t, f)
    PROVE  SP!Locked \subseteq Keys(t)
  <1>1. TypeOK /\ LengthsOK /\ TreeOK /\ RowsOK
    BY DEF IInv
  <1>2. WellFormed(t, Tokens, Pages) /\ \A u \in Active : handle[u] \in Names(t) \cup {<< >>}
    BY DEF Pool, Accounted, IsTree
  <1>3. ASSUME NEW u \in Active, NEW i \in 1 .. HeldMap[u]
        PROVE  UpTo(TextMap[u], i) \in Keys(t)
    <2>1. TextMap[u] = Computed(u) /\ HeldMap[u] = FullPages(handle[u])
      BY ViewFact
    <2>2. /\ u \in Uids /\ handle[u] \in Seq(Tokens)
          /\ FullPages(handle[u]) \in Nat
          /\ FullPages(handle[u]) <= FullPages(Computed(u))
          /\ handle[u] = UpTo(Computed(u), FullPages(handle[u]))
      BY <1>1, HandleFact
    <2>3. i \in Nat /\ i <= FullPages(handle[u]) /\ i # 0 /\ i \in 1 .. FullPages(handle[u])
      BY <2>1, <2>2
    <2>4. Computed(u) \in Seq(Tokens)
      BY <1>1, <2>2, ReqFact
    <2>5. UpTo(Computed(u), i) = UpTo(handle[u], i)
      <3>1. PICK q : q = FullPages(handle[u])
        OBVIOUS
      <3>2. UpTo(UpTo(Computed(u), q), i) = UpTo(Computed(u), i)
        BY <2>2, <2>3, <2>4, <3>1, UpToUpTo
      <3> QED BY <2>2, <3>1, <3>2
    <2>6. handle[u] # << >>
      BY <2>3, EmptyFact
    <2>7. handle[u] \in Keys(t)
      BY <1>2, <2>6, NamesAreKeys
    <2>8. UpTo(handle[u], i) \in Keys(t)
      BY <1>2, <2>3, <2>7, KeysClosed
    <2> QED BY <2>1, <2>5, <2>8
  <1> QED BY <1>3, SameOps DEF SP!Locked

LEMMA ForwardedIInv ==
    ASSUME IInv, SP!IInv, NEW us, NEW t, NEW f, Forwarded(us, t, f), tree' = t
    PROVE  /\ SP!Forward /\ TreeOK' /\ RowsOK' /\ LengthsOK' /\ ListsOK'
           /\ free' \in Seq(Pages) /\ row' \in [Uids -> Seq(Pages)]
           /\ content' \in [Pages -> Seq(Tokens)]
  <1>1. TypeOK /\ LengthsOK /\ BatchesOK /\ RowsOK /\ TreeOK /\ ListsOK
    BY DEF IInv
  <1>2. /\ IsTree(t, Tokens, Pages) /\ Accounted(t, Active, handle)
        /\ Keys(t) \subseteq Keys(tree)
        /\ \A k \in Keys(t) : EntriesOf(t)[k] = Entries[k]
        /\ f \in Seq(Pages) /\ IsInjective(f) /\ Needed(us) <= Len(f)
        /\ ToSet(f) = FreeSet \cup SP!PagesWithout(Entries, Keys(t))
        /\ Allocate(us, t, f) /\ status' = status /\ handle' = handle
        /\ deferred' = deferred
    BY DEF Forwarded, Pool
  <1>3. /\ us \in SUBSET Active /\ us \in SUBSET Uids
        /\ row' \in [Uids -> Seq(Pages)]
        /\ \A u \in Uids : /\ row[u] \in Seq(Pages) /\ Len(row[u]) \in Nat
                           /\ Len(row'[u]) \in Nat /\ Len(row[u]) <= Len(row'[u])
                           /\ \A i \in 1 .. Len(row[u]) : row'[u][i] = row[u][i]
                           /\ Len(row'[u]) = AllPages(TextMap'[u])
        /\ \A u \in Uids \ us : row'[u] = row[u]
    BY ForwardedRows
  <1>4. /\ LengthsOK' /\ Active' = Active /\ TextMap' \in [Uids -> Seq(Tokens)]
        /\ \A u \in us : TextMap'[u] = Take(ids[u], device[u])
        /\ \A u \in Uids \ us : TextMap'[u] = TextMap[u]
        /\ \A u \in Active : Take(ids'[u], cached'[u]) = TextMap'[u]
    BY CompleteFact DEF Forwarded
  <1>5. /\ \A u, v \in Uids : \A i \in SP!Grown(u), j \in SP!Grown(v) :
              row'[u][i] = row'[v][j] => u = v /\ i = j
        /\ \A u \in Uids : \A i \in SP!Grown(u) : row'[u][i] \in ToSet(f)
        /\ free' \in Seq(Pages) /\ IsInjective(free')
        /\ ToSet(free') = ToSet(f) \ Given
    BY <1>1, <1>2, <1>3, AllocFact
  <1>6. /\ content' \in [Pages -> Seq(Tokens)]
        /\ \A u \in Uids : \A i \in SP!Written(u) :
             content'[row'[u][i]] = UpTo(TextMap'[u], i)
        /\ \A p \in Pages :
             \/ content'[p] = content[p]
             \/ \E u \in Uids : \E i \in SP!Written(u) : p = row'[u][i]
    BY ContentFact
  <1>7. TreeOK'
    BY <1>2, <1>4 DEF TreeOK
  <1>8. ListsOK'
    BY <1>1, <1>2, <1>5 DEF ListsOK
  <1>9. Entries' = EntriesOf(t) /\ DOMAIN Entries' = Keys(t)
        /\ Entries' = [k \in DOMAIN Entries' |-> Entries'[k]]
    <2>1. Entries' = EntriesOf(t)
      BY DEF Entries
    <2>2. EntriesOf(t) \in [Keys(t) -> Pages]
      BY <1>2, EntriesType
    <2> QED BY <2>1, <2>2
  <1>10. DOMAIN Entries = Keys(tree)
    <2>1. EntriesOf(tree) \in [Keys(tree) -> Pages]
      BY <1>1, EntriesType DEF TreeOK
    <2> QED BY <2>1 DEF Entries
  <1>11. ASSUME NEW u \in Uids
         PROVE  /\ Len(TextMap[u]) <= Len(TextMap'[u])
                /\ TextMap[u] = SubSeq(TextMap'[u], 1, Len(TextMap[u]))
                /\ u \notin Active => TextMap'[u] = TextMap[u]
    <2>1. TextMap[u] \in Seq(Tokens) /\ Len(TextMap[u]) \in Nat
      <3>1. CASE u \in Active
        BY <1>1, <3>1, ReqFact DEF TextMap, Computed
      <3>2. CASE u \notin Active
        BY <3>2, EmptyFact DEF TextMap
      <3> QED BY <3>1, <3>2
    <2>2. CASE u \in us
      <3>1. /\ TextMap'[u] = SubSeq(ids[u], 1, device[u]) /\ u \in Active
            /\ TextMap[u] = SubSeq(ids[u], 1, cached[u])
        BY <1>3, <1>4, <2>2 DEF TextMap, Take
      <3>2. /\ cached[u] \in Nat /\ device[u] \in Nat /\ ids[u] \in Seq(Tokens)
            /\ cached[u] <= device[u] /\ device[u] <= Len(ids[u])
            /\ Len(ids[u]) \in Nat /\ cached[u] <= Len(ids[u])
        BY <1>1, ReqFact
      <3>3. Len(TextMap[u]) = cached[u] /\ Len(TextMap'[u]) = device[u]
        BY <3>1, <3>2, SubSeqFact
      <3>4. SubSeq(SubSeq(ids[u], 1, device[u]), 1, cached[u]) = SubSeq(ids[u], 1, cached[u])
        BY <3>2, SubSeqSubSeq
      <3> QED BY <3>1, <3>2, <3>3, <3>4
    <2>3. CASE u \notin us
      <3>1. TextMap'[u] = TextMap[u]
        BY <1>4, <2>3
      <3>2. TextMap[u] = SubSeq(TextMap[u], 1, Len(TextMap[u]))
        <4>1. PICK s : s = TextMap[u]
          OBVIOUS
        <4>2. s \in Seq(Tokens) /\ Len(s) \in Nat
          BY <2>1, <4>1
        <4>3. SubSeq(s, 1, Len(s)) = s
          BY ONLY <4>2
        <4> QED BY <4>1, <4>3
      <3> QED BY <2>1, <3>1, <3>2
    <2> QED BY <1>3, <2>2, <2>3
  <1>12. SP!Evict(DOMAIN Entries')
    <2>1. SP!PrefixClosed(Keys(t))
      BY <1>2, KeysClosed, SameOps DEF SP!PrefixClosed, IsTree
    <2>2. SP!Locked \subseteq Keys(t)
      BY <1>2, LockedKept DEF Forwarded
    <2>3. Entries' = SP!Restriction(Entries, Keys(t))
      BY <1>2, <1>9 DEF SP!Restriction
    <2> QED BY <1>2, <1>9, <1>10, <2>1, <2>2, <2>3 DEF SP!Evict
  <1>13. SP!Allocate(FreeSet \cup SP!PagesWithout(Entries, DOMAIN Entries'))
    <2>1. ASSUME NEW u \in Uids
          PROVE  /\ Len(row'[u]) = SP!AllPages(TextMap'[u])
                 /\ Len(row[u]) <= Len(row'[u])
                 /\ row[u] = SubSeq(row'[u], 1, Len(row[u]))
                 /\ \A i \in SP!Grown(u) : row'[u][i] \in ToSet(f)
      <3>1. PICK r \in Seq(Pages) : r = row'[u]
        BY <1>3
      <3>2. PICK s \in Seq(Pages) : s = row[u]
        BY <1>3
      <3>3. Len(s) \in Nat /\ Len(s) <= Len(r) /\ \A i \in 1 .. Len(s) : r[i] = s[i]
        BY <1>3, <3>1, <3>2
      <3>4. /\ SubSeq(r, 1, Len(s)) \in Seq(Pages) /\ Len(SubSeq(r, 1, Len(s))) = Len(s)
            /\ \A k \in 1 .. Len(s) : SubSeq(r, 1, Len(s))[k] = r[k]
        BY <3>1, <3>3, SubSeqFact
      <3>5. s = SubSeq(r, 1, Len(s))
        BY ONLY <3>2, <3>3, <3>4, PrefixFact
      <3> QED BY <1>3, <1>5, <3>1, <3>2, <3>5, SameOps
    <2>2. FreeSet' = ToSet(f) \ UNION {{row'[u][i] : i \in SP!Grown(u)} : u \in Uids}
      BY <1>5 DEF FreeSet, Given
    <2>3. ToSet(f) = FreeSet \cup SP!PagesWithout(Entries, DOMAIN Entries')
      BY <1>2, <1>9
    <2>4. SP!Allocate(ToSet(f))
      BY <1>3, <1>5, <2>1, <2>2 DEF SP!Allocate
    <2> QED BY <2>3, <2>4
  <1>14. SP!Compute
    BY <1>4, <1>6, <1>11, SameOps DEF SP!Compute
  <1>15. UNCHANGED <<Active, HeldMap, DeferredSet>>
    BY <1>2, <1>4 DEF HeldMap, DeferredSet
  <1>16. SP!Forward
    BY <1>12, <1>13, <1>14, <1>15 DEF SP!Forward
  <1>17. RowsOK'
    <2>1. ASSUME NEW u \in Active
          PROVE  /\ IsPrefix(handle[u], TextMap'[u])
                 /\ Len(row'[u]) = AllPages(TextMap'[u])
      <3>1. /\ u \in Uids /\ handle[u] \in Seq(Tokens) /\ IsPrefix(handle[u], Computed(u))
        BY <1>1, HandleFact
      <3>2. TextMap[u] = Computed(u) /\ Computed(u) \in Seq(Tokens) /\ Len(Computed(u)) \in Nat
        BY <1>1, <3>1, ReqFact, ViewFact
      <3>3. PICK s \in Seq(Tokens) : s = TextMap'[u]
        BY <1>4, <3>1
      <3>4. PICK r \in Seq(Tokens) : r = TextMap[u]
        BY <3>2
      <3>5. Len(r) \in Nat /\ Len(r) <= Len(s) /\ r = SubSeq(s, 1, Len(r))
        BY <1>11, <3>1, <3>2, <3>3, <3>4
      <3>6. \A k \in 1 .. Len(r) : SubSeq(s, 1, Len(r))[k] = s[k]
        BY <3>3, <3>5, SubSeqFact
      <3>7. IsPrefix(r, s)
        BY ONLY <3>3, <3>4, <3>5, <3>6, PrefixFact
      <3>8. IsPrefix(handle[u], s)
        BY <3>1, <3>2, <3>3, <3>4, <3>7, PrefixTrans
      <3> QED BY <1>3, <3>1, <3>3, <3>8
    <2>2. \A u \in Uids \ Active : handle[u] = << >> /\ row'[u] = << >>
      BY <1>1, <1>3 DEF RowsOK
    <2> QED BY <1>2, <1>4, <2>1, <2>2 DEF RowsOK, Computed
  <1> QED BY <1>3, <1>4, <1>5, <1>6, <1>7, <1>8, <1>16, <1>17

LEMMA LaunchIInv ==
    ASSUME IInv, SP!IInv, Launch
    PROVE  IInv' /\ (SP!Next \/ UNCHANGED SP!vars)
  <1>1. TypeOK /\ LengthsOK /\ BatchesOK /\ RowsOK /\ TreeOK /\ ListsOK
    BY DEF IInv
  <1>2. phase = "sched"
    BY DEF Launch
  <1>3. ASSUME phase' \in {"oom", "encoder"},
               UNCHANGED <<poolVars, batchVars, reqVars, content, mmVars>>
        PROVE  IInv' /\ (SP!Next \/ UNCHANGED SP!vars)
    <2>1. UNCHANGED <<tree, free, deferred, running, last, ongoing, todo,
                      finishedReqs, newFinished, status, aborted, cached, device,
                      ids, handle, row, content>>
      BY <1>3 DEF poolVars, batchVars, reqVars
    <2>2. Active' = Active
      BY <2>1 DEF Active
    <2>3. TypeOK'
      BY <1>1, <1>3, <2>1 DEF TypeOK
    <2>4. TreeOK' /\ LengthsOK' /\ RowsOK' /\ ListsOK'
      BY <1>1, <2>1, <2>2 DEF TreeOK, LengthsOK, RowsOK, Computed, ListsOK
    <2>5. BatchesOK'
      BY <1>1, <1>3, <2>1, <2>2 DEF BatchesOK
    <2>6. UNCHANGED SP!vars
      BY <2>1, <2>2 DEF SP!vars, TextMap, HeldMap, Entries, FreeSet, DeferredSet
    <2> QED BY <2>3, <2>4, <2>5, <2>6 DEF IInv
  <1>4. ASSUME /\ phase' = "drain" /\ AllocatePaged
               /\ Compute(Batch.reqs) /\ CompleteOne(Batch)
               /\ ongoing' = IF Batch.reqs = {} THEN NoBatch ELSE Batch
               /\ last' = IF Overlap THEN last ELSE ongoing'
               /\ todo' = last'.reqs /\ newFinished' = {}
               /\ UNCHANGED <<deferred, finishedReqs, status, aborted, handle>>
        PROVE  IInv' /\ (SP!Next \/ UNCHANGED SP!vars)
    <2>1. PICK t, f : Pool(t, f) /\ Allocate(Batch.reqs, t, f)
      BY <1>1, <1>2, <1>4, PoolFact
    <2>2. PICK us : us = Batch.reqs
      OBVIOUS
    <2>3. Forwarded(us, t, f) /\ tree' = t
      BY <1>2, <1>4, <2>1, <2>2 DEF Forwarded, Allocate
    <2>4. /\ SP!Forward /\ TreeOK' /\ RowsOK' /\ LengthsOK' /\ ListsOK'
          /\ free' \in Seq(Pages) /\ row' \in [Uids -> Seq(Pages)]
          /\ content' \in [Pages -> Seq(Tokens)]
      BY <2>3, ForwardedIInv
    <2>5. /\ cached' \in [Uids -> Nat] /\ device' \in [Uids -> Nat]
          /\ ids' \in [Uids -> Seq(Tokens)] /\ running' \subseteq Active
          /\ Active' = Active
      BY <1>2, <1>4, <2>2, CompleteFact
    <2>6. /\ Batch \in Batches /\ us \in SUBSET Active
      BY <1>1, <1>2, <2>2, BatchFact
    <2>7. NoBatch \in Batches /\ NoBatch.reqs = {}
      BY DEF NoBatch, Batches
    <2>8. ongoing' \in Batches /\ ongoing'.reqs \subseteq Active
      BY <1>4, <2>2, <2>6, <2>7
    <2>9. last' \in Batches /\ last'.reqs \subseteq Active \cup finishedReqs \cup aborted
      BY <1>1, <1>2, <1>4, <2>8 DEF BatchesOK, TypeOK
    <2>10. TypeOK'
      <3>1. last'.reqs \subseteq Uids
        BY <2>9 DEF Batches
      <3>2. running' \subseteq Uids
        BY <2>5, ActiveFinite
      <3> QED BY <1>1, <1>4, <2>4, <2>5, <2>8, <2>9, <3>1, <3>2 DEF TypeOK
    <2>11. BatchesOK'
      BY <1>4, <2>5, <2>8, <2>9 DEF BatchesOK
    <2>12. SP!Next
      BY <2>4 DEF SP!Next
    <2> QED BY <2>4, <2>10, <2>11, <2>12 DEF IInv
  <1> QED BY <1>3, <1>4 DEF Launch

-----------------------------------------------------------------------------
(* The theorems of the whole.                                              *)

LEMMA StutterBoth == ASSUME IInv, UNCHANGED vars PROVE IInv' /\ UNCHANGED SP!vars
  <1>1. UNCHANGED <<phase, tree, free, deferred, running, last, ongoing, todo,
                    finishedReqs, newFinished, status, aborted, cached, device,
                    ids, handle, row, content>>
    BY DEF vars, poolVars, batchVars, reqVars
  <1>2. Active' = Active
    BY <1>1 DEF Active
  <1>3. TypeOK' /\ TreeOK' /\ LengthsOK' /\ RowsOK' /\ BatchesOK' /\ ListsOK'
    BY <1>1, <1>2 DEF IInv, TypeOK, TreeOK, LengthsOK, RowsOK, Computed, BatchesOK, ListsOK
  <1>4. UNCHANGED SP!vars
    BY <1>1, <1>2 DEF SP!vars, TextMap, HeldMap, Entries, FreeSet, DeferredSet
  <1> QED BY <1>3, <1>4 DEF IInv

LEMMA NextImplements ==
    ASSUME IInv, SP!IInv, [Next]_vars
    PROVE  IInv' /\ SP!IInv' /\ [SP!Next]_(SP!vars)
  <1>1. IInv' /\ (SP!Next \/ UNCHANGED SP!vars)
    <2>1. ASSUME NEW u \in Uids, Continue(u)
          PROVE  IInv' /\ (SP!Next \/ UNCHANGED SP!vars)
      BY <2>1, ContinueIInv
    <2>2. ASSUME NEW u \in Uids, Admit(u)
          PROVE  IInv' /\ (SP!Next \/ UNCHANGED SP!vars)
      BY <2>2, AdmitIInv
    <2>3. ASSUME NEW u \in Uids, Refuse(u)
          PROVE  IInv' /\ (SP!Next \/ UNCHANGED SP!vars)
      BY <2>3, RefuseIInv
    <2>4. ASSUME NEW u \in Uids, Drain(u)
          PROVE  IInv' /\ (SP!Next \/ UNCHANGED SP!vars)
      BY <2>4, DrainIInv
    <2>5. ASSUME NEW u \in Uids, Abort(u)
          PROVE  IInv' /\ (SP!Next \/ UNCHANGED SP!vars)
      BY <2>5, AbortIInv
    <2>6. CASE Launch
      BY <2>6, LaunchIInv
    <2>7. CASE EndDrain
      BY <2>7, EndDrainIInv
    <2>8. CASE UNCHANGED vars
      BY <2>8, StutterBoth
    <2>9. CASE Idle
      BY <2>9, StutterBoth DEF Idle
    <2> QED BY <2>1, <2>2, <2>3, <2>4, <2>5, <2>6, <2>7, <2>8, <2>9 DEF Next
  <1>2. [SP!Next]_(SP!vars)
    BY <1>1
  <1>3. SP!IInv'
    BY <1>2, SP!NextIInv, PageSizeAssumption
  <1> QED BY <1>1, <1>2, <1>3

LEMMA InitImplements == ASSUME Init PROVE SP!Init /\ SP!IInv
  <1>1. Active = {}
    BY DEF Init, Active
  <1>2. TextMap = [u \in Uids |-> << >>]
    BY <1>1 DEF TextMap
  <1>3. HeldMap = [u \in Uids |-> 0]
    BY EmptyFact DEF Init, HeldMap
  <1>4. Entries = << >>
    <2>1. tree.nodes = << >>
      BY DEF Init, EmptyTree
    <2>2. Keys(tree) = {}
      BY <2>1 DEF Keys, Names
    <2>3. PICK e : e = Entries
      OBVIOUS
    <2>4. DOMAIN e = {} /\ e = [k \in {} |-> e[k]]
      BY <2>2, <2>3 DEF Entries, EntriesOf
    <2> QED BY <2>3, <2>4, SMT
  <1>5. FreeSet = Pages
    <2>1. free = [i \in 1 .. NumPages |-> i - 1] /\ NumPages \in Nat
      BY SizesAssumption DEF Init
    <2>2. \A p \in Pages : p + 1 \in 1 .. NumPages /\ free[p + 1] = p
      BY <2>1 DEF Pages
    <2>3. \A i \in 1 .. NumPages : free[i] \in Pages
      BY <2>1 DEF Pages
    <2>4. DOMAIN free = 1 .. NumPages
      BY <2>1
    <2> QED BY <2>2, <2>3, <2>4 DEF FreeSet, ToSet
  <1>6. DeferredSet = {}
    BY DEF Init, DeferredSet, ToSet
  <1>7. SP!Init
    BY <1>1, <1>2, <1>3, <1>4, <1>5, <1>6 DEF SP!Init, Init
  <1> QED BY <1>7, SP!InitIInv, PageSizeAssumption

(* The inductive invariant of the cache, with that of the store it         *)
(* implements: match, lock, split, insert, unlock, evict, allocate and the *)
(* deferred frees keep the tree, its counters, the handles and the rows.   *)
THEOREM Invariance == Spec => [](IInv /\ SP!IInv)
  <1>1. Init => IInv /\ SP!IInv
    BY InitIInv, InitImplements
  <1>2. IInv /\ SP!IInv /\ [Next]_vars => IInv' /\ SP!IInv'
    BY NextImplements
  <1> QED BY <1>1, <1>2, PTL DEF Spec

LEMMA SpecSP == Spec => SP!Spec
  <1>1. Init => IInv /\ SP!IInv /\ SP!Init
    BY InitIInv, InitImplements
  <1>2. IInv /\ SP!IInv /\ [Next]_vars => IInv' /\ SP!IInv' /\ [SP!Next]_(SP!vars)
    BY NextImplements
  <1> QED BY <1>1, <1>2, PTL DEF Spec, SP!Spec

LEMMA StoreInit == SP!Init <=> Store!Init
  BY DEF SP!Init, Store!Init, TextMap, HeldMap, FreeSet, DeferredSet

LEMMA StoreVars ==
    /\ SP!vars = Store!vars
    /\ SP!vars' = Store!vars'
  BY DEF SP!vars, Store!vars, TextMap, HeldMap, FreeSet, DeferredSet

LEMMA StoreNext == SP!Next <=> Store!Next
  <1>1. ASSUME NEW u \in Uids PROVE SP!Commit(u) <=> Store!Commit(u)
    BY DEF SP!Commit, Store!Commit, SP!Insert, Store!Insert, SP!Repointed,
           Store!Repointed, SP!Duplicate, Store!Duplicate, SP!NewKeys,
           Store!NewKeys, SP!Unheld, Store!Unheld, TextMap, HeldMap, FreeSet,
           DeferredSet, SP!UpTo, Store!UpTo, SP!FullPages, Store!FullPages
  <1>2. ASSUME NEW u \in Uids, NEW s PROVE SP!Begin(u, s) <=> Store!Begin(u, s)
    BY DEF SP!Begin, Store!Begin, SP!PagesOf, Store!PagesOf, TextMap, HeldMap,
           FreeSet, DeferredSet, SP!UpTo, Store!UpTo, SP!FullPages, Store!FullPages
  <1>3. SP!Forward <=> Store!Forward
    BY DEF SP!Forward, Store!Forward, SP!Evict, Store!Evict, SP!Restriction,
           Store!Restriction, SP!Locked, Store!Locked, SP!PrefixClosed,
           Store!PrefixClosed, SP!Allocate, Store!Allocate, SP!PagesWithout,
           Store!PagesWithout, SP!Grown, Store!Grown, SP!Written, Store!Written,
           SP!Compute, Store!Compute, TextMap, HeldMap, FreeSet, DeferredSet,
           SP!UpTo, Store!UpTo, SP!FullPages, Store!FullPages, SP!AllPages,
           Store!AllPages
  <1>4. ASSUME NEW u \in Uids
        PROVE  SP!RetireNow(u) \/ SP!RetireInDrain(u)
                 <=> Store!RetireNow(u) \/ Store!RetireInDrain(u)
    BY DEF SP!RetireNow, Store!RetireNow, SP!RetireInDrain, Store!RetireInDrain,
           SP!Retire, Store!Retire, SP!Leftover, Store!Leftover, SP!Insert,
           Store!Insert, SP!Duplicate, Store!Duplicate, SP!NewKeys, Store!NewKeys,
           SP!Unheld, Store!Unheld, TextMap, HeldMap, FreeSet, DeferredSet,
           SP!UpTo, Store!UpTo, SP!FullPages, Store!FullPages
  <1>5. SP!EndDrain <=> Store!EndDrain
    BY DEF SP!EndDrain, Store!EndDrain, TextMap, HeldMap, FreeSet, DeferredSet
  <1> QED BY <1>1, <1>2, <1>3, <1>4, <1>5 DEF SP!Next, Store!Next

(* The radix tree, with its splits, reference counts and lists of pages,   *)
(* implements the map and the pool of PrefixStore.                         *)
THEOREM Implements == Spec => ImplementsStore
  <1>1. [SP!Next]_(SP!vars) <=> [Store!Next]_(Store!vars)
    <2>1. UNCHANGED SP!vars <=> UNCHANGED Store!vars
      BY StoreVars
    <2> QED BY <2>1, StoreNext
  <1>2. SP!Spec <=> Store!Spec
    BY <1>1, StoreInit, PTL DEF SP!Spec, Store!Spec
  <1> QED BY <1>2, SpecSP, PTL DEF ImplementsStore

(* The counters are those of the tree and a node's references are the      *)
(* handles below it, through every split, lock and eviction.               *)
THEOREM TreeAccounted == Spec => []TreeAccountsExact
  <1>1. IInv => TreeAccountsExact
    BY DEF IInv, TreeOK, Accounted, TreeAccountsExact
  <1> QED BY <1>1, Invariance, PTL

(* What attention reads through the row of a running request is the KV of  *)
(* its own tokens, computed, matched or re-pointed to.                     *)
THEOREM RowsCorrect == Spec => []RowsHoldOwnTokens
  <1>1. ASSUME IInv, SP!RowsHoldOwnText PROVE RowsHoldOwnTokens
    <2> SUFFICES ASSUME NEW u \in Active, NEW i \in DOMAIN row[u]
                 PROVE  content[row[u][i]] = UpTo(Take(ids[u], cached[u]), i)
      BY DEF RowsHoldOwnTokens
    <2>1. row[u] \in Seq(Pages)
      BY <1>1, ActiveFinite DEF IInv, TypeOK
    <2>2. i \in 1 .. Len(row[u])
      BY <2>1, LenProperties
    <2>3. \A v \in Active : \A j \in 1 .. Len(row[v]) :
             content[row[v][j]] = UpTo(TextMap[v], j)
      BY <1>1, SameOps DEF SP!RowsHoldOwnText
    <2>4. TextMap[u] = Take(ids[u], cached[u])
      BY ActiveFinite DEF TextMap
    <2> QED BY <2>2, <2>3, <2>4
  <1>2. SP!Spec => []SP!RowsHoldOwnText
    BY SP!RowsCorrect, PageSizeAssumption
  <1> QED BY <1>1, <1>2, SpecSP, Invariance, PTL

-----------------------------------------------------------------------------
(* Images are kept whole.                                                  *)

LEMMA TokenBudgetBound == ASSUME TypeOK, LengthsOK PROVE TokenBudget <= PrefillBudget
  <1>1. PICK R : R = ongoing.reqs
    OBVIOUS
  <1>2. R \in SUBSET Uids /\ IsFiniteSet(R)
    BY <1>1, UidsAssumption, FS_Subset DEF TypeOK, Batches
  <1>3. PICK f : f = [u \in R |-> device[u] - cached[u]]
    OBVIOUS
  <1>4. f \in [R -> Nat]
    <2>1. ASSUME NEW u \in R PROVE device[u] - cached[u] \in Nat
      BY <1>2, ReqFact
    <2> QED BY <1>3, <2>1
  <1>5. Tally(f) \in Nat
    BY <1>2, <1>4, TallyNat
  <1>6. TokenBudget = PrefillBudget - Tally(f)
    BY <1>1, <1>3 DEF TokenBudget
  <1> QED BY <1>5, <1>6, SizesAssumption

(* No image is cut where a chunk has been pulled back to.                  *)
LEMMA PulledBack ==
    ASSUME NEW u \in Uids, NEW end \in Nat, NEW s \in CutBy(Items[u], end)
    PROVE  CutBy(Items[u], s[1]) = {}
  <1>1. PICK S : S = UNION {item.spans : item \in Items[u]}
    OBVIOUS
  <1>2. /\ S \subseteq Nat \X Nat
        /\ \A x, y \in S : x = y \/ x[2] <= y[1] \/ y[2] <= x[1]
    BY <1>1, SpansAssumption
  <1>3. s \in S /\ s[1] < end /\ end < s[2]
    BY <1>1 DEF CutBy
  <1>4. ASSUME NEW x \in CutBy(Items[u], s[1]) PROVE FALSE
    <2>1. x \in S /\ x[1] < s[1] /\ s[1] < x[2]
      BY <1>1, <1>4 DEF CutBy
    <2>2. x[1] \in Nat /\ x[2] \in Nat /\ s[1] \in Nat /\ s[2] \in Nat
      BY <1>2, <1>3, <2>1
    <2>3. x # s
      BY <2>1, <2>2
    <2> QED BY <1>2, <1>3, <2>1, <2>2, <2>3
  <1> QED BY <1>4

LEMMA WholeChunk ==
    ASSUME TypeOK, LengthsOK, NEW u \in Uids, NEW c \in Nat, TokenBudget > 0,
           c <= InputLen(u),
           KeepWhole, ~ WaitsForImage(u, c), EndOfChunk(u, c) < InputLen(u),
           NEW s \in CutBy(Items[u], EndOfChunk(u, c))
    PROVE  s[2] - c > PrefillBudget
  <1>1. PICK b \in Nat : b = TokenBudget
    BY TokenBudgetInt
  <1>2. InputLen(u) \in Nat /\ PrefillBudget \in Nat /\ b <= PrefillBudget
    BY <1>1, ReqFact, SizesAssumption, TokenBudgetBound
  <1>3. PICK e : e = EndOfChunk(u, c)
    OBVIOUS
  <1>4. e \in Nat /\ s \in CutBy(Items[u], e)
    BY <1>3, EndFact
  <1>5. s[1] \in Nat /\ s[2] \in Nat /\ s[1] < e /\ e < s[2]
    BY <1>4, SpansAssumption DEF CutBy
  <1>6. CASE b < PrefillBudget
    <2>1. ~ (s[2] - c <= PrefillBudget)
      BY <1>1, <1>6 DEF WaitsForImage
    <2> QED BY <1>2, <1>5, <2>1
  <1>7. CASE ~ (b < PrefillBudget)
    <2>1. e = ChunkEnd(Items[u], c, c + b)
      <3>1. ~ (InputLen(u) - c <= b)
        <4>1. ASSUME InputLen(u) - c <= b PROVE FALSE
          <5>1. e = InputLen(u)
            BY <1>1, <1>3, <4>1 DEF EndOfChunk
          <5> QED BY <1>2, <1>3, <5>1
        <4> QED BY <4>1
      <3>2. KeepWhole
        OBVIOUS
      <3> QED BY <1>1, <1>3, <3>1, <3>2 DEF EndOfChunk
    <2>2. PICK n \in Nat : n = c + b
      BY <1>1
    <2>3. ~ \E x \in CutBy(Items[u], n) : c < x[1]
      <3>1. ASSUME \E x \in CutBy(Items[u], n) : c < x[1] PROVE FALSE
        <4>1. PICK B : B = {x[1] : x \in CutBy(Items[u], n)}
          OBVIOUS
        <4>2. e = CHOOSE m \in B : c < m
          BY <2>1, <2>2, <3>1, <4>1 DEF ChunkEnd
        <4>3. e \in B
          BY <3>1, <4>1, <4>2
        <4>4. PICK x \in CutBy(Items[u], n) : e = x[1]
          BY <4>1, <4>3
        <4> QED BY <1>4, <2>2, <4>4, PulledBack
      <3> QED BY <3>1
    <2>4. e = n
      BY <2>1, <2>2, <2>3 DEF ChunkEnd
    <2> QED BY <1>1, <1>2, <1>5, <1>7, <2>2, <2>4
  <1> QED BY <1>6, <1>7

LEMMA AddOneWhole ==
    ASSUME TypeOK, LengthsOK, ImagesWhole, phase = "sched",
           NEW u \in Uids, u \notin ongoing.reqs, ongoing.chunked \subseteq ongoing.reqs,
           NEW c \in Nat, c <= InputLen(u), cached'[u] = c,
           \A v \in Uids \ {u} : cached'[v] = cached[v],
           TokenBudget > 0, ~ WaitsForImage(u, c), AddOneReq(u, c)
    PROVE  ImagesWhole'
  <1>1. PICK e : e = EndOfChunk(u, c)
    OBVIOUS
  <1>2. device' = [device EXCEPT ![u] = e]
    BY <1>1 DEF AddOneReq
  <1>3. device'[u] = e /\ \A v \in Uids \ {u} : device'[v] = device[v]
    BY <1>2 DEF TypeOK
  <1>4. PICK C : C = IF e < InputLen(u) THEN ongoing.chunked \cup {u} ELSE ongoing.chunked
    OBVIOUS
  <1>5. ongoing' = [reqs |-> ongoing.reqs \cup {u}, chunked |-> C, prefill |-> TRUE]
    BY <1>1, <1>4 DEF AddOneReq
  <1>6. ongoing'.chunked = C
    BY ONLY <1>5
  <1>7. ASSUME KeepWhole, NEW v \in C, NEW s \in CutBy(Items[v], device'[v])
        PROVE  s[2] - cached'[v] > PrefillBudget
    <2>1. CASE v = u
      <3>1. e < InputLen(u)
        BY <1>4, <2>1
      <3> QED BY <1>1, <1>3, <1>7, <2>1, <3>1, WholeChunk
    <2>2. CASE v # u
      <3>1. v \in ongoing.chunked /\ v \in Uids
        BY <1>4, <2>2 DEF TypeOK, Batches
      <3> QED BY <1>3, <1>7, <2>2, <3>1 DEF ImagesWhole
    <2> QED BY <2>1, <2>2
  <1> QED BY <1>6, <1>7 DEF ImagesWhole

LEMMA NextWhole == ASSUME IInv, ImagesWhole, [Next]_vars PROVE ImagesWhole'
  <1>1. TypeOK /\ LengthsOK /\ BatchesOK /\ TreeOK
    BY DEF IInv
  <1>2. ASSUME NEW u \in Uids, Continue(u) PROVE ImagesWhole'
    <2>1. /\ phase = "sched" /\ u \notin ongoing.reqs /\ TokenBudget > 0
          /\ cached[u] < InputLen(u) /\ ~ WaitsForImage(u, cached[u])
          /\ AddOneReq(u, cached[u]) /\ cached' = cached
      BY <1>2 DEF Continue, Chunked
    <2>2. cached[u] \in Nat /\ InputLen(u) \in Nat /\ cached[u] <= InputLen(u)
      BY <1>1, <2>1, ReqFact
    <2>3. ongoing.chunked \subseteq ongoing.reqs
      BY <1>1, <2>1 DEF BatchesOK
    <2> QED BY <1>1, <2>1, <2>2, <2>3, AddOneWhole
  <1>3. ASSUME NEW u \in Uids, Admit(u) PROVE ImagesWhole'
    <2>1. PICK m : m = MatchReq(u).node
      OBVIOUS
    <2>2. Len(m) \in Nat /\ Len(m) <= InputLen(u)
      BY <1>1, <2>1, MatchReqFact
    <2>3. /\ phase = "sched" /\ TokenBudget > 0 /\ status[u] = "new"
          /\ ~ WaitsForImage(u, Len(m)) /\ handle'[u] = m
          /\ cached' = [cached EXCEPT ![u] = Len(handle'[u])]
          /\ AddOneReq(u, Len(handle'[u]))
      BY <1>1, <1>3, <2>1 DEF Admit, CanTry, Refused, TypeOK
    <2>4. AddOneReq(u, Len(m)) /\ cached'[u] = Len(m)
          /\ \A v \in Uids \ {u} : cached'[v] = cached[v]
      BY <1>1, <2>3 DEF TypeOK
    <2>5. ongoing.chunked \subseteq ongoing.reqs /\ u \notin ongoing.reqs
      BY <1>1, <2>3 DEF BatchesOK, Active
    <2> QED BY <1>1, <2>2, <2>3, <2>4, <2>5, AddOneWhole
  <1>4. ASSUME NEW u \in Uids, Refuse(u) \/ Drain(u) \/ Abort(u) PROVE ImagesWhole'
    BY <1>4 DEF Refuse, Drain, Abort, ImagesWhole, batchVars, reqVars, NoBatch
  <1>5. CASE Launch
    BY <1>5 DEF Launch, ImagesWhole
  <1>6. CASE EndDrain
    BY <1>6 DEF EndDrain, ImagesWhole, NoBatch
  <1>7. CASE UNCHANGED vars
    BY <1>7 DEF vars, batchVars, reqVars, ImagesWhole
  <1>8. CASE Idle
    BY <1>8 DEF Idle, vars, batchVars, reqVars, ImagesWhole
  <1> QED BY <1>2, <1>3, <1>4, <1>5, <1>6, <1>7, <1>8 DEF Next

(* A chunk ends inside an image only if the rest of the image is more than *)
(* a whole pass can take.                                                  *)
THEOREM ImagesKeptWhole == Spec => []ImagesWhole
  <1>1. Init => ImagesWhole
    BY DEF Init, NoBatch, ImagesWhole
  <1>2. IInv /\ ImagesWhole /\ [Next]_vars => ImagesWhole'
    BY NextWhole
  <1> QED BY <1>1, <1>2, Invariance, PTL DEF Spec

-----------------------------------------------------------------------------
(* The places of a page, counted.                                          *)

LEMMA TimesFact ==
    ASSUME NEW P, NEW s \in Seq(P), IsInjective(s), NEW p
    PROVE  /\ Times(s, p) \in Nat
           /\ p \in ToSet(s) => Times(s, p) = 1
           /\ p \notin ToSet(s) => Times(s, p) = 0
  <1>1. PICK D : D = {i \in DOMAIN s : s[i] = p}
    OBVIOUS
  <1>2. Times(s, p) = Cardinality(D)
    BY <1>1 DEF Times
  <1>3. CASE p \in ToSet(s)
    <2>1. PICK k \in DOMAIN s : s[k] = p
      BY <1>3 DEF ToSet
    <2>2. D = {k}
      BY <1>1, <2>1 DEF IsInjective
    <2>3. Cardinality(D) = 1
      BY <2>2, FS_Singleton
    <2> QED BY <1>2, <1>3, <2>3
  <1>4. CASE p \notin ToSet(s)
    <2>1. D = {}
      BY <1>1, <1>4 DEF ToSet
    <2>2. Cardinality(D) = 0
      BY <2>1, FS_EmptySet
    <2> QED BY <1>2, <1>4, <2>2
  <1> QED BY <1>3, <1>4

LEMMA TallyZero ==
    ASSUME NEW f, \A x \in DOMAIN f : f[x] = 0
    PROVE  Tally(f) = 0
  <1>1. Columns(f) = {}
    BY DEF Columns, Column
  <1>2. Cardinality(Columns(f)) = 0
    BY <1>1, FS_EmptySet
  <1> QED BY <1>2, TallyDef

LEMMA TallyUnit ==
    ASSUME NEW D, IsFiniteSet(D), NEW f \in [D -> Nat], NEW x \in D, f[x] = 1,
           \A y \in D : y # x => f[y] = 0
    PROVE  Tally(f) = 1
  <1>1. PICK g : g = [y \in D \ {x} |-> f[y]]
    OBVIOUS
  <1>2. Tally(f) = f[x] + Tally(g)
    BY <1>1, TallyAt
  <1>3. Tally(g) = 0
    <2>1. \A y \in DOMAIN g : g[y] = 0
      BY <1>1
    <2> QED BY <2>1, TallyZero
  <1> QED BY <1>2, <1>3

(* A page is in one node at most, once: where its key ends.                *)
LEMMA NodePlaces ==
    ASSUME NEW t, IsTree(t, Tokens, Pages), NEW p,
           \A k, l \in Keys(t) : EntriesOf(t)[k] = EntriesOf(t)[l] => k = l,
           NEW f, f = [n \in Names(t) |-> Times(t.nodes[n].pages, p)]
    PROVE  /\ (\E k \in Keys(t) : p = EntriesOf(t)[k]) => Tally(f) = 1
           /\ ~ (\E k \in Keys(t) : p = EntriesOf(t)[k]) => Tally(f) = 0
  <1>1. WellFormed(t, Tokens, Pages) /\ Segmented(t) /\ IsFiniteSet(Names(t))
    BY DEF IsTree, WellFormed
  <1>2. ASSUME NEW n \in Names(t)
        PROVE  /\ t.nodes[n].pages \in Seq(Pages)
               /\ DOMAIN t.nodes[n].pages = 1 .. Len(t.nodes[n].pages)
               /\ FullPages(Parent(t, n)) \in Nat
    BY <1>1, NameFact, ParentFact, LenProperties
  <1>3. ASSUME NEW n \in Names(t), NEW i \in 1 .. Len(t.nodes[n].pages)
        PROVE  \E k \in Keys(t) : /\ IsPrefix(k, n)
                                  /\ FullPages(k) = FullPages(Parent(t, n)) + i
                                  /\ EntriesOf(t)[k] = t.nodes[n].pages[i]
    <2>1. PICK k : k = UpTo(n, FullPages(Parent(t, n)) + i)
      OBVIOUS
    <2>2. /\ k \in Keys(t) /\ IsPrefix(k, n)
          /\ FullPages(k) = FullPages(Parent(t, n)) + i
          /\ EntriesOf(t)[k] = Page(t, n, i)
      BY <2>1, CellFact
    <2> QED BY <2>2 DEF Page
  <1>4. ASSUME NEW n \in Names(t), NEW m \in Names(t),
               NEW i \in 1 .. Len(t.nodes[n].pages), NEW j \in 1 .. Len(t.nodes[m].pages),
               t.nodes[n].pages[i] = t.nodes[m].pages[j]
        PROVE  n = m /\ i = j
    <2>1. PICK k \in Keys(t) : /\ IsPrefix(k, n)
                               /\ FullPages(k) = FullPages(Parent(t, n)) + i
                               /\ EntriesOf(t)[k] = t.nodes[n].pages[i]
      BY <1>3
    <2>2. PICK l \in Keys(t) : /\ IsPrefix(l, m)
                               /\ FullPages(l) = FullPages(Parent(t, m)) + j
                               /\ EntriesOf(t)[l] = t.nodes[m].pages[j]
      BY <1>3
    <2>3. k = l
      BY <1>4, <2>1, <2>2
    <2>4. FullPages(k) > FullPages(Parent(t, n)) /\ FullPages(k) > FullPages(Parent(t, m))
      BY <1>2, <2>1, <2>2, <2>3
    <2>5. PICK x : \A y \in Names(t) :
                  IsPrefix(k, y) /\ FullPages(k) > FullPages(Parent(t, y)) => y = x
      BY LeastFact
    <2>6. n = m
      BY <2>1, <2>2, <2>3, <2>4, <2>5
    <2> QED BY <1>2, <2>1, <2>2, <2>3, <2>6
  <1>5. ASSUME NEW n \in Names(t)
        PROVE  /\ IsInjective(t.nodes[n].pages)
               /\ f[n] \in Nat
               /\ p \in ToSet(t.nodes[n].pages) => f[n] = 1
               /\ p \notin ToSet(t.nodes[n].pages) => f[n] = 0
               /\ p \in ToSet(t.nodes[n].pages)
                    <=> \E i \in 1 .. Len(t.nodes[n].pages) : p = t.nodes[n].pages[i]
    <2>1. IsInjective(t.nodes[n].pages)
      BY <1>2, <1>4 DEF IsInjective
    <2>2. PICK s \in Seq(Pages) : s = t.nodes[n].pages
      BY <1>2
    <2>3. /\ Times(s, p) \in Nat
          /\ p \in ToSet(s) => Times(s, p) = 1
          /\ p \notin ToSet(s) => Times(s, p) = 0
      BY <2>1, <2>2, TimesFact
    <2>4. f[n] = Times(s, p)
      BY <2>2
    <2> QED BY <1>2, <2>1, <2>2, <2>3, <2>4 DEF ToSet
  <1>6. f \in [Names(t) -> Nat] /\ DOMAIN f = Names(t)
    BY <1>5
  <1>7. ASSUME NEW k \in Keys(t), p = EntriesOf(t)[k] PROVE Tally(f) = 1
    <2>1. PICK n \in Names(t) : IsPrefix(k, n) /\ FullPages(Parent(t, n)) < FullPages(k)
      BY LeastFact
    <2>2. k \in Seq(Tokens) /\ FullPages(k) \in Nat
      BY <1>1, KeyFact, FullPagesFact
    <2>3. PICK i \in 1 .. Len(t.nodes[n].pages) : p = t.nodes[n].pages[i]
      <3>1. FullPages(k) > FullPages(Parent(t, n))
        BY <1>2, <2>1, <2>2
      <3>2. /\ FullPages(k) - FullPages(Parent(t, n)) \in 1 .. Len(t.nodes[n].pages)
            /\ EntriesOf(t)[k] = Page(t, n, FullPages(k) - FullPages(Parent(t, n)))
        BY <2>1, <3>1, EntryAt
      <3> QED BY <1>7, <3>2 DEF Page
    <2>4. f[n] = 1
      BY <1>5, <2>3
    <2>5. \A m \in Names(t) : m # n => f[m] = 0
      BY <1>4, <1>5, <2>3
    <2> QED BY <1>1, <1>6, <2>4, <2>5, TallyUnit
  <1>8. ASSUME ~ \E k \in Keys(t) : p = EntriesOf(t)[k] PROVE Tally(f) = 0
    <2>1. \A n \in Names(t) : f[n] = 0
      BY <1>3, <1>5, <1>8
    <2> QED BY <1>6, <2>1, TallyZero
  <1> QED BY <1>7, <1>8

LEMMA OwnFact ==
    ASSUME TypeOK, TreeOK, LengthsOK, RowsOK, SP!IInv, NEW u \in Uids
    PROVE  /\ OwnPages(u) \in Seq(Pages) /\ IsInjective(OwnPages(u))
           /\ ToSet(OwnPages(u)) = At(row[u], SP!Own(u))
  <1>1. PICK q : q = FullPages(handle[u])
    OBVIOUS
  <1>2. row[u] \in Seq(Pages) /\ Len(row[u]) \in Nat /\ handle[u] \in Seq(Tokens)
    BY ReqFact
  <1>3. q \in Nat /\ q <= Len(row[u])
    <2>1. CASE u \in Active
      BY <1>1, <1>2, <2>1, HandleFact
    <2>2. CASE u \notin Active
      <3>1. handle[u] = << >>
        BY <2>2 DEF RowsOK
      <3> QED BY <1>1, <1>2, <3>1, EmptyFact
    <2> QED BY <2>1, <2>2
  <1>4. PICK L \in Nat : L = Len(row[u])
    BY <1>2
  <1>5. PICK r \in Seq(Pages) : r = row[u]
    BY <1>2
  <1>6. SP!Own(u) = q + 1 .. L
    BY <1>1, <1>4 DEF SP!Own, HeldMap
  <1>7. OwnPages(u) = SubSeq(r, q + 1, L)
    BY <1>1, <1>4, <1>5 DEF OwnPages, Drop
  <1>8. OneToOne(r, q + 1 .. L)
    <2>1. \A x, y \in Uids : \A i \in SP!Own(x), j \in SP!Own(y) :
             row[x][i] = row[y][j] => x = y /\ i = j
      BY DEF SP!IInv, SP!NoPageTwice
    <2> QED BY <1>5, <1>6, <2>1 DEF OneToOne
  <1>9. q <= L /\ L <= Len(r)
    BY <1>3, <1>4, <1>5
  <1>10. /\ SubSeq(r, q + 1, L) \in Seq(Pages)
         /\ ToSet(SubSeq(r, q + 1, L)) = At(r, q + 1 .. L)
    BY <1>3, <1>9, SegmentFact
  <1>11. IsInjective(SubSeq(r, q + 1, L))
    BY <1>3, <1>8, <1>9, SegmentInjective
  <1> QED BY <1>5, <1>6, <1>7, <1>10, <1>11

LEMMA RowPlaces ==
    ASSUME TypeOK, TreeOK, LengthsOK, RowsOK, SP!IInv, NEW p,
           NEW f, f = [u \in Uids |-> Times(OwnPages(u), p)]
    PROVE  /\ (\E u \in Uids : \E i \in SP!Own(u) : p = row[u][i]) => Tally(f) = 1
           /\ ~ (\E u \in Uids : \E i \in SP!Own(u) : p = row[u][i]) => Tally(f) = 0
  <1>1. ASSUME NEW u \in Uids
        PROVE  /\ f[u] \in Nat
               /\ (\E i \in SP!Own(u) : p = row[u][i]) => f[u] = 1
               /\ ~ (\E i \in SP!Own(u) : p = row[u][i]) => f[u] = 0
    <2>1. PICK s : s = OwnPages(u)
      OBVIOUS
    <2>2. s \in Seq(Pages) /\ IsInjective(s) /\ ToSet(s) = At(row[u], SP!Own(u))
      BY <2>1, OwnFact
    <2>3. /\ Times(s, p) \in Nat
          /\ p \in ToSet(s) => Times(s, p) = 1
          /\ p \notin ToSet(s) => Times(s, p) = 0
      BY <2>2, TimesFact
    <2>4. f[u] = Times(s, p)
      BY <2>1
    <2>5. p \in ToSet(s) <=> \E i \in SP!Own(u) : p = row[u][i]
      BY <2>2 DEF At
    <2> QED BY <2>3, <2>4, <2>5
  <1>2. f \in [Uids -> Nat] /\ DOMAIN f = Uids
    BY <1>1
  <1>3. \A x, y \in Uids : \A i \in SP!Own(x), j \in SP!Own(y) :
           row[x][i] = row[y][j] => x = y /\ i = j
    BY DEF SP!IInv, SP!NoPageTwice
  <1>4. ASSUME NEW u \in Uids, NEW i \in SP!Own(u), p = row[u][i]
        PROVE  Tally(f) = 1
    <2>1. f[u] = 1
      BY <1>1, <1>4
    <2>2. \A v \in Uids : v # u => f[v] = 0
      BY <1>1, <1>3, <1>4
    <2> QED BY <1>2, <2>1, <2>2, UidsAssumption, TallyUnit
  <1>5. ASSUME ~ \E u \in Uids : \E i \in SP!Own(u) : p = row[u][i]
        PROVE  Tally(f) = 0
    <2>1. \A u \in DOMAIN f : f[u] = 0
      BY <1>1, <1>2, <1>5
    <2> QED BY <2>1, TallyZero
  <1> QED BY <1>4, <1>5

LEMMA OnePlace ==
    ASSUME IInv, SP!IInv, NEW p \in Pages
    PROVE  Places(p) = 1
  <1>1. TypeOK /\ TreeOK /\ LengthsOK /\ RowsOK /\ ListsOK
    BY DEF IInv
  <1>2. PICK f : f = [n \in Names(tree) |-> Times(tree.nodes[n].pages, p)]
    OBVIOUS
  <1>3. PICK g : g = [u \in Uids |-> Times(OwnPages(u), p)]
    OBVIOUS
  <1>4. Places(p) = Times(free, p) + Times(deferred, p) + Tally(f) + Tally(g)
    BY <1>2, <1>3 DEF Places
  <1>5. /\ p \in FreeSet => Times(free, p) = 1
        /\ p \notin FreeSet => Times(free, p) = 0
    BY <1>1, TimesFact DEF TypeOK, ListsOK, FreeSet
  <1>6. /\ p \in DeferredSet => Times(deferred, p) = 1
        /\ p \notin DeferredSet => Times(deferred, p) = 0
    BY <1>1, TimesFact DEF TypeOK, ListsOK, DeferredSet
  <1>7. IsTree(tree, Tokens, Pages) /\ DOMAIN Entries = Keys(tree) /\ Entries = EntriesOf(tree)
    BY <1>1, EntriesType DEF TreeOK, Entries
  <1>8. /\ \A k, l \in Keys(tree) : Entries[k] = Entries[l] => k = l
        /\ \A u \in Uids : \A i \in SP!Own(u) :
             /\ row[u][i] \notin FreeSet \cup DeferredSet
             /\ \A k \in Keys(tree) : row[u][i] # Entries[k]
        /\ \A k \in Keys(tree) : Entries[k] \notin FreeSet \cup DeferredSet
        /\ FreeSet \cap DeferredSet = {}
        /\ \/ p \in FreeSet \cup DeferredSet
           \/ \E k \in Keys(tree) : p = Entries[k]
           \/ \E u \in Uids : \E i \in SP!Own(u) : p = row[u][i]
    BY <1>7 DEF SP!IInv, SP!NoPageTwice, SP!NoPageLost
  <1>9. /\ (\E k \in Keys(tree) : p = Entries[k]) => Tally(f) = 1
        /\ ~ (\E k \in Keys(tree) : p = Entries[k]) => Tally(f) = 0
    BY <1>2, <1>7, <1>8, NodePlaces
  <1>10. /\ (\E u \in Uids : \E i \in SP!Own(u) : p = row[u][i]) => Tally(g) = 1
         /\ ~ (\E u \in Uids : \E i \in SP!Own(u) : p = row[u][i]) => Tally(g) = 0
    BY <1>1, <1>3, RowPlaces
  <1>11. CASE p \in FreeSet
    <2>1. p \notin DeferredSet /\ ~ (\E k \in Keys(tree) : p = Entries[k])
          /\ ~ (\E u \in Uids : \E i \in SP!Own(u) : p = row[u][i])
      BY <1>8, <1>11
    <2> QED BY <1>4, <1>5, <1>6, <1>9, <1>10, <1>11, <2>1
  <1>12. CASE p \in DeferredSet
    <2>1. p \notin FreeSet /\ ~ (\E k \in Keys(tree) : p = Entries[k])
          /\ ~ (\E u \in Uids : \E i \in SP!Own(u) : p = row[u][i])
      BY <1>8, <1>12
    <2> QED BY <1>4, <1>5, <1>6, <1>9, <1>10, <1>12, <2>1
  <1>13. CASE \E k \in Keys(tree) : p = Entries[k]
    <2>1. p \notin FreeSet /\ p \notin DeferredSet
          /\ ~ (\E u \in Uids : \E i \in SP!Own(u) : p = row[u][i])
      BY <1>8, <1>13
    <2> QED BY <1>4, <1>5, <1>6, <1>9, <1>10, <1>13, <2>1
  <1>14. CASE \E u \in Uids : \E i \in SP!Own(u) : p = row[u][i]
    <2>1. p \notin FreeSet /\ p \notin DeferredSet
          /\ ~ (\E k \in Keys(tree) : p = Entries[k])
      BY <1>8, <1>14
    <2> QED BY <1>4, <1>5, <1>6, <1>9, <1>10, <1>14, <2>1
  <1> QED BY <1>8, <1>11, <1>12, <1>13, <1>14

(* Every page is in exactly one place, counted as check_integrity would,   *)
(* at every step: once free, deferred, in one node or owned by one row.    *)
THEOREM PagesInOnePlace == Spec => []EachPageInOnePlace
  <1>1. IInv /\ SP!IInv => EachPageInOnePlace
    BY OnePlace DEF EachPageInOnePlace
  <1> QED BY <1>1, Invariance, PTL

-----------------------------------------------------------------------------
(* Admission reserves enough.                                              *)

(* The pages reserved, and the tokens there is room for.                   *)
Reserved == Tally([u \in Pending |-> Reserve(u)])
Room == tree.evictable + (Len(free) + Len(deferred)) * PageSize

LEMMA CeilFact ==
    ASSUME NEW a \in Nat
    PROVE  /\ DivCeil(a) \in Nat
           /\ a <= DivCeil(a) * PageSize
           /\ DivCeil(a) * PageSize <= a + PageSize - 1
  <1>1. PICK x \in Nat : x = a + PageSize - 1
    BY PageSizeAssumption
  <1>2. PICK m : m = x \div PageSize
    OBVIOUS
  <1>3. m \in Nat /\ m * PageSize <= x /\ x < m * PageSize + PageSize
    BY <1>2, DivFact
  <1>4. DivCeil(a) = m
    BY <1>1, <1>2 DEF DivCeil
  <1>5. PICK k \in Nat : k = m * PageSize
    BY <1>3, PageSizeAssumption
  <1>6. a <= k /\ k <= a + PageSize - 1
    BY <1>1, <1>3, <1>5, PageSizeAssumption
  <1> QED BY <1>3, <1>4, <1>5, <1>6

LEMMA RoomFact ==
    ASSUME TypeOK, TreeOK
    PROVE  /\ tree.evictable \in Nat /\ Len(free) \in Nat /\ Len(deferred) \in Nat
           /\ Room \in Nat
  <1>1. tree.evictable \in Nat
    <2>1. tree.evictable = TotalLength(tree, Evictable(tree))
          /\ Evictable(tree) \in SUBSET Names(tree)
          /\ WellFormed(tree, Tokens, Pages)
      BY DEF TreeOK, IsTree, Accounted, CountersExact, Evictable
    <2> QED BY <2>1, SizeNat
  <1>2. Len(free) \in Nat /\ Len(deferred) \in Nat
    BY LenProperties DEF TypeOK
  <1> QED BY <1>1, <1>2, PageSizeAssumption DEF Room

(* Who is pending has not reached its last token.                          *)
LEMMA PendingFact ==
    ASSUME TypeOK, LengthsOK, BatchesOK, PendingOK, NEW u \in Pending
    PROVE  /\ u \in Uids /\ MaxDeviceLen(u) \in Nat /\ cached[u] \in Nat
           /\ u \in running => /\ cached[u] <= MaxDeviceLen(u) - 1
                               /\ MaxDeviceLen(u) - 1 \in Nat
           /\ u \notin running => cached[u] <= MaxDeviceLen(u)
           /\ Reserve(u) \in Nat
  <1>1. u \in Uids
    BY ActiveFinite DEF Pending, Chunked, TypeOK, Batches
  <1>2. /\ cached[u] \in Nat /\ device[u] \in Nat /\ cached[u] <= device[u]
        /\ InputLen(u) \in Nat
    BY <1>1, ReqFact
  <1>3. MaxDeviceLen(u) \in Nat /\ InputLen(u) <= MaxDeviceLen(u)
    BY <1>1, <1>2, OutputLenAssumption DEF MaxDeviceLen
  <1>4. CASE u \in running
    <2>1. device[u] = cached[u] + 1 /\ device[u] < MaxDeviceLen(u)
      BY <1>4 DEF PendingOK
    <2>2. PICK m : m = MaxDeviceLen(u) - 1
      OBVIOUS
    <2>3. m \in Nat /\ cached[u] <= m
      BY <1>2, <1>3, <2>1, <2>2
    <2>4. DivCeil(m) - DivCeil(cached[u]) \in Nat
      BY <1>2, <2>3, DivCeilFact
    <2>5. Reserve(u) = DivCeil(m) - DivCeil(cached[u])
      BY <1>4, <2>2 DEF Reserve
    <2> QED BY <1>1, <1>2, <1>3, <1>4, <2>2, <2>3, <2>4, <2>5
  <1>5. CASE u \notin running
    <2>1. cached[u] <= InputLen(u)
      <3>1. CASE u \in Chunked
        BY <1>2, <3>1 DEF Chunked
      <3>2. CASE phase = "sched" /\ u \in ongoing.reqs
        <4>1. device[u] <= InputLen(u)
          BY <3>2 DEF BatchesOK
        <4> QED BY <1>2, <4>1
      <3> QED BY <1>5, <3>1, <3>2 DEF Pending
    <2>2. cached[u] <= MaxDeviceLen(u)
      BY <1>2, <1>3, <2>1
    <2>3. DivCeil(MaxDeviceLen(u)) - DivCeil(cached[u]) \in Nat
      BY <1>2, <1>3, <2>2, DivCeilFact
    <2>4. Reserve(u) = DivCeil(MaxDeviceLen(u)) - DivCeil(cached[u])
      BY <1>5 DEF Reserve
    <2> QED BY <1>1, <1>2, <1>3, <1>5, <2>2, <2>3, <2>4
  <1> QED BY <1>4, <1>5

LEMMA PendingSum ==
    ASSUME TypeOK, LengthsOK, BatchesOK, PendingOK
    PROVE  /\ Pending \in SUBSET Uids /\ IsFiniteSet(Pending)
           /\ [u \in Pending |-> Reserve(u)] \in [Pending -> Nat]
           /\ Reserved \in Nat
  <1>1. Pending \in SUBSET Uids /\ \A u \in Pending : Reserve(u) \in Nat
    BY PendingFact
  <1>2. IsFiniteSet(Pending)
    BY <1>1, UidsAssumption, FS_Subset
  <1>3. PICK f : f = [u \in Pending |-> Reserve(u)]
    OBVIOUS
  <1>4. f \in [Pending -> Nat]
    BY <1>1, <1>3
  <1>5. Tally(f) \in Nat
    BY <1>2, <1>4, TallyNat
  <1> QED BY <1>1, <1>2, <1>3, <1>4, <1>5 DEF Reserved

(* A step that computes nothing: who stays pending reserves what it did.   *)
LEMMA EnoughKept ==
    ASSUME TypeOK, TreeOK, LengthsOK, BatchesOK, PendingOK, Enough,
           Pending' \subseteq Pending,
           \A u \in Pending' : u \in running <=> u \in running',
           cached' = cached, Room' \in Nat, Room <= Room'
    PROVE  Enough'
  <1>1. PICK C : C = Pending'
    OBVIOUS
  <1>2. PICK D : D = Pending
    OBVIOUS
  <1>3. PICK f : f = [u \in C |-> Reserve(u)]
    OBVIOUS
  <1>4. PICK g : g = [u \in D |-> Reserve(u)]
    OBVIOUS
  <1>5. IsFiniteSet(D) /\ C \in SUBSET D /\ g \in [D -> Nat] /\ Reserved \in Nat
        /\ Reserved = Tally(g)
    BY <1>1, <1>2, <1>4, PendingSum DEF Reserved
  <1>6. f \in [C -> Nat] /\ \A u \in C : f[u] <= g[u]
    BY <1>3, <1>4, <1>5
  <1>7. Tally(f) <= Tally(g)
    BY <1>5, <1>6, TallyMonotonic
  <1>8. IsFiniteSet(C)
    BY <1>5, FS_Subset
  <1>9. Tally(f) \in Nat
    BY <1>6, <1>8, TallyNat
  <1>10. \A u \in C : Reserve(u)' = Reserve(u)
    BY <1>1 DEF Reserve, MaxDeviceLen, InputLen, DivCeil
  <1>11. Reserved' = Tally(f)
    BY <1>1, <1>3, <1>10 DEF Reserved
  <1>12. Reserved * PageSize <= Room
    BY DEF Enough, Reserved, Room
  <1>13. PICK a \in Nat : a = Tally(f)
    BY <1>9
  <1>14. PICK b \in Nat : b = Reserved
    BY <1>5
  <1>15. a <= b
    BY <1>5, <1>7, <1>13, <1>14
  <1>16. a * PageSize <= b * PageSize
    BY <1>15, MulMonotonic
  <1>17. Room \in Nat
    BY RoomFact
  <1>18. a * PageSize \in Nat /\ b * PageSize \in Nat
    BY MulMonotonic
  <1>19. Reserved' * PageSize <= Room'
    BY <1>11, <1>12, <1>13, <1>14, <1>16, <1>17, <1>18
  <1> QED BY <1>19 DEF Enough, Reserved, Room

(* The steps that only build the batch, or do nothing.                     *)
LEMMA ContinueBudget ==
    ASSUME IInv, BudgetInv, NEW u \in Uids, Continue(u)
    PROVE  BudgetInv'
  <1>1. TypeOK /\ TreeOK /\ LengthsOK /\ BatchesOK /\ PendingOK /\ Enough
    BY DEF IInv, BudgetInv
  <1>2. /\ phase = "sched" /\ phase' = "sched" /\ u \in Chunked \ ongoing.reqs
        /\ UNCHANGED <<tree, free, deferred, running, status, aborted, cached>>
        /\ AddOneReq(u, cached[u])
    BY DEF Continue, poolVars
  <1>3. ongoing'.reqs = ongoing.reqs \cup {u}
    BY <1>2 DEF AddOneReq
  <1>4. u \notin running /\ u \notin aborted
    <2>1. cached[u] \in Nat /\ InputLen(u) \in Nat
      BY <1>1, ReqFact
    <2> QED BY <1>1, <1>2, <2>1 DEF PendingOK, Chunked
  <1>5. \A v \in Uids \ {u} : device'[v] = device[v]
    BY <1>1, <1>2 DEF AddOneReq, TypeOK
  <1>6. PendingOK'
    <2>1. running \subseteq Uids
      BY <1>1 DEF TypeOK
    <2> QED BY <1>1, <1>2, <1>3, <1>4, <1>5, <2>1
               DEF PendingOK, MaxDeviceLen, InputLen
  <1>7. Pending' = Pending
    <2>1. Chunked' = Chunked
      BY <1>2 DEF Chunked, Active, InputLen
    <2> QED BY <1>2, <1>3, <2>1 DEF Pending
  <1>8. Room' = Room /\ Room \in Nat
    BY <1>1, <1>2, RoomFact DEF Room
  <1>9. Enough'
    BY <1>1, <1>2, <1>7, <1>8, EnoughKept
  <1> QED BY <1>6, <1>9 DEF BudgetInv

LEMMA RefuseBudget ==
    ASSUME IInv, BudgetInv, NEW u \in Uids, Refuse(u)
    PROVE  BudgetInv'
  <1>1. TypeOK /\ TreeOK /\ LengthsOK /\ BatchesOK /\ PendingOK /\ Enough
    BY DEF IInv, BudgetInv
  <1>2. /\ UNCHANGED <<phase, free, deferred, running, ongoing, status, aborted,
                       cached, device>>
        /\ tree' = MatchReq(u).tree
    BY DEF Refuse, batchVars, reqVars
  <1>3. tree'.evictable = tree.evictable
    <2>1. PICK r : r = MatchReq(u)
      OBVIOUS
    <2>2. r.tree.evictable = tree.evictable
      BY <1>1, <2>1, MatchReqFact
    <2> QED BY <1>2, <2>1, <2>2
  <1>4. Room' = Room /\ Room \in Nat
    BY <1>1, <1>2, <1>3, RoomFact DEF Room
  <1>5. PendingOK'
    BY <1>1, <1>2 DEF PendingOK, MaxDeviceLen, InputLen
  <1>6. Pending' = Pending
    BY <1>2 DEF Pending, Chunked, Active, InputLen
  <1>7. Enough'
    BY <1>1, <1>2, <1>4, <1>6, EnoughKept
  <1> QED BY <1>5, <1>7 DEF BudgetInv

LEMMA StutterBudget ==
    ASSUME IInv, BudgetInv, UNCHANGED vars
    PROVE  BudgetInv'
  <1>1. TypeOK /\ TreeOK /\ LengthsOK /\ BatchesOK /\ PendingOK /\ Enough
    BY DEF IInv, BudgetInv
  <1>2. UNCHANGED <<phase, tree, free, deferred, running, ongoing, status, aborted,
                    cached, device>>
    BY DEF vars, poolVars, batchVars, reqVars
  <1>3. Room' = Room /\ Room \in Nat
    BY <1>1, <1>2, RoomFact DEF Room
  <1>4. PendingOK'
    BY <1>1, <1>2 DEF PendingOK, MaxDeviceLen, InputLen
  <1>5. Pending' = Pending
    BY <1>2 DEF Pending, Chunked, Active, InputLen
  <1>6. Enough'
    BY <1>1, <1>2, <1>3, <1>5, EnoughKept
  <1> QED BY <1>4, <1>6 DEF BudgetInv

(* What was deferred is free: there is as much room as before.             *)
LEMMA EndDrainBudget ==
    ASSUME IInv, BudgetInv, EndDrain
    PROVE  BudgetInv'
  <1>1. TypeOK /\ TreeOK /\ LengthsOK /\ BatchesOK /\ PendingOK /\ Enough
    BY DEF IInv, BudgetInv
  <1>2. /\ phase = "drain" /\ phase' = "sched" /\ ongoing' = NoBatch
        /\ free' = free \o deferred /\ deferred' = << >>
        /\ UNCHANGED <<tree, running, status, aborted, cached, device>>
    BY DEF EndDrain, reqVars
  <1>3. NoBatch.reqs = {}
    BY DEF NoBatch
  <1>4. Len(free') = Len(free) + Len(deferred) /\ Len(deferred') = 0
        /\ Len(free) \in Nat /\ Len(deferred) \in Nat
    <2>1. free \in Seq(Pages) /\ deferred \in Seq(Pages)
      BY <1>1 DEF TypeOK
    <2>2. Len(free \o deferred) = Len(free) + Len(deferred)
      BY <2>1, ConcatFact
    <2> QED BY <1>2, <2>1, <2>2, LenProperties
  <1>5. Room' = Room /\ Room \in Nat
    BY <1>1, <1>2, <1>4, RoomFact DEF Room
  <1>6. PendingOK'
    BY <1>1, <1>2, <1>3 DEF PendingOK, MaxDeviceLen, InputLen
  <1>7. Pending' = Pending
    BY <1>2, <1>3 DEF Pending, Chunked, Active, InputLen
  <1>8. Enough'
    BY <1>1, <1>2, <1>5, <1>7, EnoughKept
  <1> QED BY <1>6, <1>8 DEF BudgetInv

RoomIsNat == Room \in Nat /\ tree.evictable \in Nat
LEMMA RoomNext == TypeOK' /\ TreeOK' => RoomIsNat'
  <1>1. TypeOK /\ TreeOK => RoomIsNat
    BY RoomFact DEF RoomIsNat
  <1> QED BY <1>1, PTL

(* Pages in tokens: what admission counts is no less than it reserves.      *)
LEMMA ReservedSizeFact ==
    ASSUME TypeOK, LengthsOK, BatchesOK, PendingOK, phase = "sched",
           NEW R, R = running, NEW O, O = ongoing.reqs,
           NEW f, f = [v \in R |-> Reserve(v)], NEW g, g = [v \in O |-> Reserve(v)]
    PROVE  /\ f \in [R -> Nat] /\ g \in [O -> Nat]
           /\ Tally(f) \in Nat /\ Tally(g) \in Nat /\ ReservedSize \in Nat
           /\ (Tally(f) + Tally(g)) * PageSize <= ReservedSize
  <1>1. R \in SUBSET Pending /\ O \in SUBSET Pending /\ R \cap O = {}
    BY DEF Pending, PendingOK
  <1>2. IsFiniteSet(R) /\ IsFiniteSet(O)
    BY <1>1, PendingSum, FS_Subset
  <1>3. f \in [R -> Nat] /\ g \in [O -> Nat]
    BY <1>1, PendingFact
  <1>4. PICK x : x = [v \in R |-> MaxDeviceLen(v) - device[v] + PageSize - 1]
    OBVIOUS
  <1>5. PICK y : y = [v \in O |-> Cost(v, cached[v])]
    OBVIOUS
  <1>6. ASSUME NEW v \in R
        PROVE  MaxDeviceLen(v) - device[v] + PageSize - 1 \in Nat
               /\ Reserve(v) * PageSize <= MaxDeviceLen(v) - device[v] + PageSize - 1
    <2>1. PICK m : m = MaxDeviceLen(v) - 1
      OBVIOUS
    <2>2. PICK c \in Nat : c = cached[v]
      BY <1>1, PendingFact
    <2>3. m \in Nat /\ c <= m /\ MaxDeviceLen(v) = m + 1
      BY <1>1, <2>1, <2>2, PendingFact
    <2>4. device[v] = c + 1
      BY <2>2 DEF PendingOK
    <2>5. Reserve(v) = DivCeil(m) - DivCeil(c)
      BY <2>1, <2>2 DEF Reserve
    <2>6. PICK a \in Nat : a = DivCeil(m) /\ a * PageSize <= m + PageSize - 1
      BY <2>3, CeilFact
    <2>7. PICK b \in Nat : b = DivCeil(c) /\ c <= b * PageSize
      BY CeilFact
    <2>8. (a - b) * PageSize <= m - c + PageSize - 1
      BY ONLY <2>3, <2>6, <2>7, a \in Nat, b \in Nat, c \in Nat, PageSizeAssumption, SMTT(30)
    <2>9. MaxDeviceLen(v) - device[v] + PageSize - 1 = m - c + PageSize - 1
      BY <2>3, <2>4, PageSizeAssumption
    <2>10. m - c + PageSize - 1 \in Nat
      BY <2>3, PageSizeAssumption
    <2> QED BY <2>5, <2>6, <2>7, <2>8, <2>9, <2>10
  <1>7. ASSUME NEW v \in O
        PROVE  Cost(v, cached[v]) \in Nat /\ Reserve(v) * PageSize <= Cost(v, cached[v])
    <2>1. v \in Pending /\ v \notin running
      BY <1>1
    <2>2. PICK r \in Nat : r = Reserve(v)
      BY <2>1, PendingFact
    <2>3. r = DivCeil(MaxDeviceLen(v)) - DivCeil(cached[v])
      BY <2>1, <2>2 DEF Reserve
    <2>4. Cost(v, cached[v]) = r * PageSize
      BY <2>3 DEF Cost, KvReservationSize
    <2>5. r * PageSize \in Nat
      BY MulMonotonic
    <2> QED BY <2>2, <2>4, <2>5
  <1>8. x \in [R -> Nat] /\ \A v \in R : f[v] * PageSize <= x[v]
    BY <1>4, <1>6
  <1>9. y \in [O -> Nat] /\ \A v \in O : g[v] * PageSize <= y[v]
    BY <1>5, <1>7
  <1>10. PICK a \in Nat : a = Tally(f)
    BY <1>2, <1>3, TallyNat
  <1>11. PICK b \in Nat : b = Tally(g)
    BY <1>2, <1>3, TallyNat
  <1>12. PICK c \in Nat : c = Tally(x)
    BY <1>2, <1>8, TallyNat
  <1>13. PICK d \in Nat : d = Tally(y)
    BY <1>2, <1>9, TallyNat
  <1>14. a * PageSize <= c
    BY <1>2, <1>3, <1>8, <1>10, <1>12, TallyScale
  <1>15. b * PageSize <= d
    BY <1>2, <1>3, <1>9, <1>11, <1>13, TallyScale
  <1>16. ReservedSize = c + d
    BY <1>4, <1>5, <1>12, <1>13 DEF ReservedSize
  <1>17. (a + b) * PageSize <= c + d
    BY ONLY <1>14, <1>15, a \in Nat, b \in Nat, c \in Nat, d \in Nat,
            PageSizeAssumption, SMTT(30)
  <1> QED BY <1>3, <1>10, <1>11, <1>16, <1>17

(* The test that follows the lock is what keeps the promise.               *)
LEMMA AdmitBudget ==
    ASSUME IInv, BudgetInv, IInv', NEW u \in Uids, Admit(u)
    PROVE  BudgetInv'
  <1>1. TypeOK /\ TreeOK /\ LengthsOK /\ BatchesOK /\ PendingOK /\ Enough
        /\ TypeOK' /\ TreeOK' /\ LengthsOK' /\ BatchesOK'
    BY DEF IInv, BudgetInv
  <1>2. PICK c : c = Len(MatchReq(u).node)
    OBVIOUS
  <1>3. /\ phase = "sched" /\ phase' = "sched" /\ status[u] = "new"
        /\ Chunked \subseteq ongoing.reqs
        /\ ~ TooBig(u, Locked(u)) /\ tree' = Locked(u)
        /\ cached' = [cached EXCEPT ![u] = c]
        /\ status' = [status EXCEPT ![u] = "active"]
        /\ AddOneReq(u, c)
        /\ UNCHANGED <<free, deferred, running, aborted>>
    <2>1. /\ CanTry(u) /\ ~ Refused(u) /\ tree' = Locked(u)
          /\ handle' = [handle EXCEPT ![u] = MatchReq(u).node]
          /\ cached' = [cached EXCEPT ![u] = Len(handle'[u])]
          /\ status' = [status EXCEPT ![u] = "active"]
          /\ AddOneReq(u, Len(handle'[u]))
          /\ UNCHANGED <<phase, free, deferred, running, aborted>>
      BY DEF Admit
    <2>2. handle'[u] = MatchReq(u).node
      BY <1>1, <2>1 DEF TypeOK
    <2>3. Len(handle'[u]) = c
      BY <1>2, <2>2
    <2>4. ~ TooBig(u, Locked(u))
      BY <2>1 DEF Refused
    <2>5. phase = "sched" /\ status[u] = "new" /\ Chunked \subseteq ongoing.reqs
      BY <2>1 DEF CanTry
    <2> QED BY <2>1, <2>3, <2>4, <2>5
  <1>4. c \in Nat
    BY <1>1, <1>2, MatchReqFact
  <1>5. u \notin Active /\ u \notin running /\ u \notin ongoing.reqs /\ u \notin aborted
    <2>1. u \notin Active
      BY <1>3 DEF Active
    <2> QED BY <1>1, <1>3, <2>1 DEF BatchesOK, PendingOK
  <1>6. ongoing'.reqs = ongoing.reqs \cup {u}
    BY <1>3 DEF AddOneReq
  <1>7. /\ \A v \in Uids \ {u} : /\ device'[v] = device[v] /\ cached'[v] = cached[v]
                                 /\ status'[v] = status[v]
        /\ cached'[u] = c /\ status'[u] = "active"
    BY <1>1, <1>3 DEF AddOneReq, TypeOK
  <1>8. running \in SUBSET Uids /\ ongoing.reqs \in SUBSET Uids
    BY <1>1 DEF TypeOK, Batches
  <1>9. PendingOK'
    <2>1. aborted \subseteq Uids
      BY <1>1 DEF TypeOK
    <2>2. \A v \in aborted : status'[v] # "new"
      BY <1>1, <1>5, <1>7, <2>1 DEF PendingOK
    <2> QED BY <1>1, <1>3, <1>5, <1>6, <1>7, <1>8, <2>2
               DEF PendingOK, MaxDeviceLen, InputLen
  <1>10. PICK R : R = running
    OBVIOUS
  <1>11. PICK O : O = ongoing.reqs
    OBVIOUS
  <1>12. PICK W : W = O \cup {u}
    OBVIOUS
  <1>13. Pending' = R \cup W
    <2>1. Chunked' \subseteq Chunked \cup {u}
      BY <1>3, <1>7 DEF Chunked, Active, InputLen
    <2> QED BY <1>3, <1>6, <1>10, <1>11, <1>12, <2>1 DEF Pending
  <1>14. \A v \in R \cup O : Reserve(v)' = Reserve(v)
    BY <1>3, <1>5, <1>7, <1>8, <1>10, <1>11 DEF Reserve, MaxDeviceLen, InputLen, DivCeil
  <1>15. PICK e \in Nat : e = Reserve(u)' /\ e * PageSize = Cost(u, c)
    <2>1. InputLen(u) \in Nat /\ c <= InputLen(u)
      <3>1. InputLen(u) \in Nat
        BY <1>1, ReqFact
      <3>2. PICK r : r = MatchReq(u)
        OBVIOUS
      <3>3. Len(r.node) <= InputLen(u)
        BY <1>1, <3>2, MatchReqFact
      <3> QED BY <1>2, <3>1, <3>2, <3>3
    <2>2. MaxDeviceLen(u) \in Nat /\ c <= MaxDeviceLen(u)
      BY <1>4, <2>1, OutputLenAssumption DEF MaxDeviceLen
    <2>3. DivCeil(MaxDeviceLen(u)) - DivCeil(c) \in Nat
      BY <1>4, <2>2, DivCeilFact
    <2>4. Reserve(u)' = DivCeil(MaxDeviceLen(u)) - DivCeil(c)
      BY <1>3, <1>5, <1>7 DEF Reserve, MaxDeviceLen, InputLen, DivCeil
    <2> QED BY <2>3, <2>4 DEF Cost, KvReservationSize
  <1>16. PICK f : f = [v \in R |-> Reserve(v)]
    OBVIOUS
  <1>17. PICK g : g = [v \in O |-> Reserve(v)]
    OBVIOUS
  <1>18. /\ f \in [R -> Nat] /\ g \in [O -> Nat]
         /\ Tally(f) \in Nat /\ Tally(g) \in Nat /\ ReservedSize \in Nat
         /\ (Tally(f) + Tally(g)) * PageSize <= ReservedSize
    BY <1>1, <1>3, <1>10, <1>11, <1>16, <1>17, ReservedSizeFact
  <1>19. PICK w : w = [v \in W |-> Reserve(v)']
    OBVIOUS
  <1>20. PICK a : a = [v \in R \cup W |-> Reserve(v)']
    OBVIOUS
  <1>21. IsFiniteSet(R) /\ IsFiniteSet(O) /\ IsFiniteSet(W) /\ R \cap W = {}
    <2>1. IsFiniteSet(R) /\ IsFiniteSet(O) /\ IsFiniteSet(W)
      <3>1. W \in SUBSET Uids
        BY <1>8, <1>11, <1>12
      <3> QED BY <1>8, <1>10, <1>11, <3>1, UidsAssumption, FS_Subset
    <2>2. R \cap O = {}
      BY <1>1, <1>3, <1>10, <1>11 DEF PendingOK
    <2> QED BY <1>5, <1>10, <1>12, <2>1, <2>2
  <1>22. w \in [W -> Nat] /\ w[u] = e /\ g = [v \in W \ {u} |-> w[v]]
    <2>1. \A v \in O : w[v] = g[v] /\ g[v] \in Nat
      BY <1>12, <1>14, <1>17, <1>18, <1>19
    <2>2. w[u] = e /\ W \ {u} = O
      BY <1>5, <1>11, <1>12, <1>15, <1>19
    <2> QED BY <1>12, <1>15, <1>17, <1>19, <2>1, <2>2
  <1>23. Tally(w) = e + Tally(g)
    <2>1. u \in W /\ Tally(w) = w[u] + Tally(g)
      BY ONLY <1>12, <1>21, <1>22, TallyAt
    <2> QED BY <1>22, <2>1
  <1>24. a \in [R \cup W -> Nat] /\ f = [v \in R |-> a[v]] /\ w = [v \in W |-> a[v]]
    <2>1. \A v \in R : a[v] = f[v] /\ f[v] \in Nat
      BY <1>14, <1>16, <1>18, <1>20
    <2>2. \A v \in W : a[v] = w[v] /\ w[v] \in Nat
      BY <1>19, <1>20, <1>22
    <2> QED BY <1>16, <1>19, <1>20, <2>1, <2>2
  <1>25. Tally(a) = Tally(f) + Tally(w)
    BY <1>21, <1>24, TallyUnion
  <1>26. Reserved' = Tally(a)
    BY <1>13, <1>20 DEF Reserved
  <1>27. Cost(u, c) + ReservedSize <= tree'.evictable + Len(free) * PageSize
    <2>1. ~ (Cost(u, c) + ReservedSize > tree'.evictable + Len(free) * PageSize)
      BY <1>2, <1>3 DEF TooBig, AvailableSize
    <2>2. Len(free) \in Nat /\ tree'.evictable \in Nat
      BY <1>1, RoomFact, RoomNext DEF RoomIsNat
    <2>3. PICK k \in Nat : k = Len(free) * PageSize
      BY <2>2, PageSizeAssumption
    <2>4. PICK l \in Nat : l = Cost(u, c)
      BY <1>15, PageSizeAssumption
    <2> QED BY <1>18, <2>1, <2>2, <2>3, <2>4
  <1>28. Room' = tree'.evictable + Len(free) * PageSize
    <2>1. deferred = << >> /\ Len(deferred) = 0 /\ Len(free) \in Nat
      BY <1>1, <1>3, RoomFact DEF PendingOK
    <2>2. Len(free) + Len(deferred) = Len(free)
      BY <2>1
    <2> QED BY <1>3, <2>2 DEF Room
  <1>29. Reserved' * PageSize <= Room'
    <2>1. PICK x \in Nat : x = Tally(f) + Tally(g)
      BY <1>18
    <2>2. PICK s \in Nat : s = ReservedSize
      BY <1>18
    <2>3. PICK r \in Nat : r = Room'
      BY <1>1, RoomNext DEF RoomIsNat
    <2>4. x * PageSize <= s /\ e * PageSize + s <= r
      BY <1>15, <1>18, <1>27, <1>28, <2>1, <2>2, <2>3
    <2>5. Reserved' = e + x
      BY <1>18, <1>23, <1>25, <1>26, <2>1
    <2>6. (e + x) * PageSize <= r
      BY ONLY <2>4, e \in Nat, x \in Nat, s \in Nat, r \in Nat, PageSizeAssumption, SMTT(30)
    <2> QED BY <2>3, <2>5, <2>6
  <1>30. Enough'
    BY <1>29 DEF Enough, Reserved, Room
  <1> QED BY <1>9, <1>30 DEF BudgetInv

(* What a node is long depends on the names of the tree alone.             *)
LEMMA SameNamesSize ==
    ASSUME NEW T, NEW P, NEW t, IsTree(t, T, P), NEW d, IsTree(d, T, P),
           Names(d) = Names(t), NEW S \in SUBSET Names(t)
    PROVE  TotalLength(d, S) = TotalLength(t, S)
  <1>1. WellFormed(t, T, P) /\ Segmented(t) /\ WellFormed(d, T, P) /\ Segmented(d)
    BY DEF IsTree
  <1>2. \A n : Parent(d, n) = Parent(t, n)
    BY DEF Parent
  <1>3. ASSUME NEW n \in S PROVE Len(d.nodes[n].pages) = Len(t.nodes[n].pages)
    <2>1. Len(t.nodes[n].pages) = FullPages(n) - FullPages(Parent(t, n))
      BY <1>1, ParentFact
    <2>2. Len(d.nodes[n].pages) = FullPages(n) - FullPages(Parent(d, n))
      BY <1>1, ParentFact
    <2> QED BY <1>2, <2>1, <2>2
  <1> QED BY <1>3, SizeSame

(* To end a request only makes more of the tree evictable.                 *)
LEMMA FinishRoom ==
    ASSUME TypeOK, TreeOK, LengthsOK, RowsOK, NEW u \in Active
    PROVE  Unlocked(u).evictable \in Nat /\ tree.evictable <= Unlocked(u).evictable
  <1>1. PICK d : d = Inserted(u).tree
    OBVIOUS
  <1>2. PICK x : x = Unlocked(u)
    OBVIOUS
  <1>3. PICK f : f = FullPages(Computed(u))
    OBVIOUS
  <1>4. PICK j : j = FullPages(WalkEnd(tree, Computed(u)))
    OBVIOUS
  <1>5. /\ IsTree(d, Tokens, Pages) /\ j \in Nat /\ f \in Nat /\ j <= f
        /\ d.evictable = tree.evictable + (f - j) * PageSize
    BY <1>1, <1>3, <1>4, InsertedFact
  <1>6. UnlockSize(d, x, handle[u])
    <2>1. Agree(Active \ {u}, handle, handle)
      BY DEF Agree
    <2> QED BY <1>1, <1>2, <2>1, UnlockedFact
  <1>7. PICK A : A = PathAt(d, handle[u], 1)
    OBVIOUS
  <1>8. A \in SUBSET Names(d)
    BY <1>7 DEF PathAt, PathTo
  <1>9. PICK a \in Nat : a = TotalLength(d, A)
    BY <1>5, <1>8, SizeNat DEF IsTree
  <1>10. x.evictable = d.evictable + a
    BY <1>6, <1>7, <1>9 DEF UnlockSize
  <1>11. PICK e \in Nat : e = tree.evictable
    BY RoomFact
  <1>12. PICK k \in Nat : k = f - j
    BY <1>5
  <1>13. k * PageSize \in Nat
    BY MulMonotonic
  <1>14. x.evictable = e + k * PageSize + a
    BY <1>5, <1>10, <1>11, <1>12
  <1> QED BY <1>2, <1>11, <1>13, <1>14

(* A commit takes from what is evictable no more than it will free.        *)
LEMMA CommitRoom ==
    ASSUME TypeOK, TreeOK, LengthsOK, RowsOK, SP!IInv, NEW u \in Active,
           NEW y, y = Lock(Unlocked(u), Inserted(u).node), y.evictable \in Nat
    PROVE  /\ Len(Duplicates(u)) \in Nat
           /\ tree.evictable <= y.evictable + Len(Duplicates(u)) * PageSize
  <1>1. PICK s : s = Computed(u)
    OBVIOUS
  <1>2. PICK q : q = FullPages(handle[u])
    OBVIOUS
  <1>3. PICK f : f = FullPages(s)
    OBVIOUS
  <1>4. PICK j : j = FullPages(WalkEnd(tree, s))
    OBVIOUS
  <1>5. PICK d : d = Inserted(u).tree
    OBVIOUS
  <1>6. PICK n : n = Inserted(u).node
    OBVIOUS
  <1>7. PICK x : x = Unlocked(u)
    OBVIOUS
  <1>8. PICK h : h = handle[u]
    OBVIOUS
  <1>9. /\ IsTree(d, Tokens, Pages) /\ Accounted(d, Active, handle)
        /\ n = UpTo(s, f) /\ n \in Names(d) \cup {<< >>}
        /\ q \in Nat /\ j \in Nat /\ f \in Nat /\ Len(row[u]) \in Nat
        /\ q <= j /\ j <= f /\ f <= Len(row[u])
        /\ d.evictable = tree.evictable + (f - j) * PageSize
    BY <1>1, <1>2, <1>3, <1>4, <1>5, <1>6, InsertedFact
  <1>10. WellFormed(d, Tokens, Pages)
    BY <1>9 DEF IsTree
  <1>11. /\ IsTree(x, Tokens, Pages) /\ SameMap(x, d)
         /\ Accounted(x, Active \ {u}, handle)
         /\ UnlockSize(d, x, h) /\ RefsMoved(x, d, PathTo(d, h), -1)
    <2>1. Agree(Active \ {u}, handle, handle)
      BY DEF Agree
    <2> QED BY <1>5, <1>7, <1>8, <2>1, UnlockedFact
  <1>12. Names(x) = Names(d) /\ WellFormed(x, Tokens, Pages)
    BY <1>11 DEF SameMap, IsTree
  <1>13. h \in Names(x) \cup {<< >>} /\ n \in Names(x) \cup {<< >>}
    BY <1>8, <1>9, <1>12 DEF Accounted
  <1>14. /\ s \in Seq(Tokens) /\ h \in Seq(Tokens) /\ n \in Seq(Tokens)
         /\ IsPrefix(h, s) /\ Whole(h) /\ IsPrefix(n, s) /\ Whole(n)
         /\ FullPages(n) = f /\ FullPages(h) = q
    <2>1. s \in Seq(Tokens)
      BY <1>1, ActiveFinite, ReqFact
    <2>2. h \in Seq(Tokens) /\ IsPrefix(h, s) /\ Whole(h)
      BY <1>1, <1>8, HandleFact
    <2> QED BY <1>2, <1>3, <1>8, <1>9, <2>1, <2>2, UpToPrefix
  <1>15. IsPrefix(h, n)
    BY <1>9, <1>14, WholeChain
  <1>16. LockSize(x, y, n)
    <2>1. PICK U : U = Active \ {u}
      OBVIOUS
    <2>2. PICK g : g = [v \in Active |-> IF v = u THEN n ELSE handle[v]]
      OBVIOUS
    <2>3. IsFiniteSet(U) /\ u \notin U
      <3>1. U \in SUBSET Active
        BY <2>1
      <3> QED BY <2>1, <3>1, ActiveFinite, FS_Subset
    <2>4. g[u] = n /\ Agree(U, g, handle)
      BY <2>1, <2>2 DEF Agree
    <2>5. IsTree(x, Tokens, Pages) /\ Accounted(x, U, handle) /\ y = Lock(x, n)
      BY <1>6, <1>7, <1>11, <2>1
    <2>6. PICK k : k = handle
      OBVIOUS
    <2>7. Accounted(x, U, k) /\ Agree(U, g, k)
      BY <2>4, <2>5, <2>6
    <2> QED BY ONLY <1>13, <2>3, <2>4, <2>5, <2>7, LockFact
  <1>17. PICK A : A = PathAt(d, h, 1)
    OBVIOUS
  <1>18. PICK B : B = PathAt(x, n, 0)
    OBVIOUS
  <1>19. PICK C : C = {m \in B : IsPrefix(m, h)}
    OBVIOUS
  <1>20. PICK D : D = B \ C
    OBVIOUS
  <1>21. /\ A \in SUBSET Names(d) /\ B \in SUBSET Names(d)
         /\ C \in SUBSET Names(x) /\ D \in SUBSET Names(x) /\ C \in SUBSET Names(d)
         /\ C \cap D = {} /\ C \cup D = B
    BY <1>12, <1>17, <1>18, <1>19, <1>20 DEF PathAt, PathTo
  <1>22. C \in SUBSET A
    <2> SUFFICES ASSUME NEW m \in C PROVE m \in A
      OBVIOUS
    <2>1. m \in Names(d) /\ IsPrefix(m, h) /\ x.nodes[m].ref = 0
      BY <1>12, <1>18, <1>19 DEF PathAt, PathTo
    <2>2. m \in PathTo(d, h)
      BY <2>1 DEF PathTo
    <2>3. x.nodes[m].ref = d.nodes[m].ref + (-1)
      BY <1>11, <2>2 DEF RefsMoved
    <2>4. d.nodes[m].ref \in Nat
      BY <1>10, <2>1, NameFact
    <2>5. d.nodes[m].ref = 1
      BY <2>1, <2>3, <2>4
    <2> QED BY <1>17, <2>2, <2>5 DEF PathAt
  <1>23. PICK a \in Nat : a = TotalLength(d, A)
    BY <1>10, <1>21, SizeNat
  <1>24. PICK c \in Nat : c = TotalLength(d, C)
    BY <1>10, <1>21, SizeNat
  <1>25. c <= a
    BY <1>10, <1>21, <1>22, <1>23, <1>24, SizeMonotonic
  <1>26. TotalLength(x, C) = c
    BY <1>9, <1>11, <1>12, <1>21, <1>24, SameNamesSize
  <1>27. PICK z \in Nat : z = Size(x, D) /\ TotalLength(x, D) = z * PageSize
    BY <1>12, <1>21, SizeNat
  <1>28. z <= f - q
    <2>1. \A m \in D : IsPrefix(m, n) /\ ~ IsPrefix(m, h)
      BY <1>18, <1>19, <1>20 DEF PathAt, PathTo
    <2>2. Size(x, D) <= FullPages(n) - FullPages(h)
      BY <1>11, <1>13, <1>15, <1>21, <2>1, PathLength
    <2> QED BY <1>14, <1>27, <2>2
  <1>29. TotalLength(x, B) = c + z * PageSize
    <2>1. TotalLength(x, C \cup D) = TotalLength(x, C) + TotalLength(x, D)
      BY ONLY <1>12, <1>21, SizeUnion
    <2> QED BY <1>21, <1>26, <1>27, <2>1
  <1>30. PICK e \in Nat : e = tree.evictable
    BY RoomFact
  <1>31. x.evictable = e + (f - j) * PageSize + a
    BY <1>9, <1>11, <1>17, <1>23, <1>30 DEF UnlockSize
  <1>32. y.evictable = (e + (f - j) * PageSize + a) - (c + z * PageSize)
    <2>1. y.evictable = x.evictable - TotalLength(x, B)
      BY <1>16, <1>18 DEF LockSize
    <2>2. PICK w : w = TotalLength(x, B)
      OBVIOUS
    <2>3. PICK v : v = x.evictable
      OBVIOUS
    <2>4. y.evictable = v - w
      BY <2>1, <2>2, <2>3
    <2>5. w = c + z * PageSize
      BY <1>29, <2>2
    <2>6. v = e + (f - j) * PageSize + a
      BY <1>31, <2>3
    <2>7. y.evictable = v - (c + z * PageSize)
      BY ONLY <2>4, <2>5
    <2> QED BY ONLY <2>6, <2>7
  <1>33. Len(Duplicates(u)) = j - q
    <2>1. Duplicates(u) = SubSeq(row[u], q + 1, j) /\ q <= j /\ j <= Len(row[u])
      <3>1. f = FullPages(Computed(u)) /\ j = FullPages(WalkEnd(tree, Computed(u)))
        BY <1>1, <1>3, <1>4
      <3>2. Duplicates(u) = SubSeq(row[u], q + 1, j)
        BY <1>2, <3>1, DuplicatesFact
      <3> QED BY <1>9, <3>2
    <2>2. row[u] \in Seq(Pages)
      BY ActiveFinite, ReqFact
    <2>3. Len(SubSeq(row[u], q + 1, j)) = j - q
      BY <1>9, <2>1, <2>2, SegmentFact
    <2> QED BY <2>1, <2>3
  <1>34. e <= ((e + (f - j) * PageSize + a) - (c + z * PageSize)) + (j - q) * PageSize
    BY ONLY <1>25, <1>28, e \in Nat, a \in Nat, c \in Nat, z \in Nat,
            <1>9, PageSizeAssumption, SMTT(30)
  <1> QED BY <1>9, <1>30, <1>32, <1>33, <1>34

(* A request that ends gives back all it holds.                            *)
LEMMA FreedLength ==
    ASSUME TypeOK, TreeOK, LengthsOK, RowsOK, SP!IInv, NEW u \in Active,
           NEW s \in Seq(Pages)
    PROVE  Len(s \o Freed(u)) \in Nat /\ Len(s) \in Nat
           /\ Len(s) <= Len(s \o Freed(u))
  <1>1. PICK f : f = Freed(u)
    OBVIOUS
  <1>2. f \in Seq(Pages)
    BY <1>1, FreedFact
  <1>3. Len(f) \in Nat /\ Len(s) \in Nat
    BY <1>2, LenProperties
  <1>4. Len(s \o f) = Len(s) + Len(f)
    BY <1>2, ConcatFact
  <1> QED BY <1>1, <1>3, <1>4

LEMMA RoomGrows ==
    ASSUME TypeOK, TreeOK, NEW t, NEW a \in Nat, NEW b \in Nat,
           t.evictable \in Nat, tree.evictable <= t.evictable,
           Len(free) <= a, Len(deferred) <= b
    PROVE  /\ t.evictable + (a + b) * PageSize \in Nat
           /\ Room <= t.evictable + (a + b) * PageSize
  <1>1. PICK e \in Nat : e = tree.evictable
    BY RoomFact
  <1>2. PICK f \in Nat : f = Len(free)
    BY RoomFact
  <1>3. PICK d \in Nat : d = Len(deferred)
    BY RoomFact
  <1>4. PICK x \in Nat : x = t.evictable
    OBVIOUS
  <1>5. e <= x /\ f + d <= a + b /\ f + d \in Nat /\ a + b \in Nat
    BY <1>1, <1>2, <1>3, <1>4
  <1>6. (f + d) * PageSize <= (a + b) * PageSize
        /\ (f + d) * PageSize \in Nat /\ (a + b) * PageSize \in Nat
    BY <1>5, MulMonotonic
  <1>7. Room = e + (f + d) * PageSize
    BY <1>1, <1>2, <1>3 DEF Room
  <1> QED BY <1>4, <1>5, <1>6, <1>7

LEMMA AbortBudget ==
    ASSUME IInv, SP!IInv, BudgetInv, NEW u \in Uids, Abort(u)
    PROVE  BudgetInv'
  <1>1. TypeOK /\ TreeOK /\ LengthsOK /\ RowsOK /\ BatchesOK /\ PendingOK /\ Enough
    BY DEF IInv, BudgetInv
  <1>2. /\ phase = "sched" /\ phase' = "sched" /\ ongoing = NoBatch
        /\ u \in Chunked \cup running /\ running' = running \ {u}
        /\ UNCHANGED <<deferred, ongoing, cached, device>>
    BY DEF Abort
  <1>3. u \in Active /\ u \in Uids
    BY <1>1, <1>2 DEF Chunked, BatchesOK
  <1>4. NoBatch.reqs = {}
    BY DEF NoBatch
  <1>5. /\ status' \in [Uids -> {"new", "active", "done"}]
        /\ Active' \subseteq Active
        /\ \A v \in Uids : status'[v] = "new" => status[v] = "new"
        /\ aborted' \subseteq aborted \cup {u} /\ aborted \subseteq aborted'
        /\ u \notin Active' \ aborted'
        /\ Room' \in Nat /\ Room <= Room'
    <2>1. CASE u \in last.reqs
      <3>1. aborted' = aborted \cup {u} /\ UNCHANGED <<tree, free, status>>
        BY <2>1 DEF Abort
      <3>2. Active' = Active
        BY <3>1 DEF Active
      <3>3. Room' = Room /\ Room \in Nat
        BY <1>1, <1>2, <3>1, RoomFact DEF Room
      <3> QED BY <1>1, <3>1, <3>2, <3>3 DEF TypeOK
    <2>2. CASE u \notin last.reqs
      <3>1. /\ tree' = Unlocked(u) /\ status' = [status EXCEPT ![u] = "done"]
            /\ free' = free \o Freed(u) /\ aborted' = aborted
        BY <2>2 DEF Abort, Finish
      <3>2. Active' = Active \ {u}
        BY <1>1, <3>1 DEF Active, TypeOK
      <3>3. PICK t : t = tree'
        OBVIOUS
      <3>4. t.evictable \in Nat /\ tree.evictable <= t.evictable
        BY <1>1, <1>3, <3>1, <3>3, FinishRoom
      <3>5. PICK a : a = Len(free')
        OBVIOUS
      <3>6. a \in Nat /\ Len(free) <= a
        <4>1. free \in Seq(Pages)
          BY <1>1 DEF TypeOK
        <4> QED BY <1>1, <1>3, <3>1, <3>5, <4>1, FreedLength
      <3>7. PICK b \in Nat : b = Len(deferred)
        BY <1>1, RoomFact
      <3>8. Len(deferred) <= b
        BY <3>7
      <3>9. t.evictable + (a + b) * PageSize \in Nat
            /\ Room <= t.evictable + (a + b) * PageSize
        BY ONLY <1>1, <3>4, <3>6, <3>7, <3>8, RoomGrows
      <3>10. Room' = t.evictable + (a + b) * PageSize
        BY <1>2, <3>3, <3>5, <3>7 DEF Room
      <3> QED BY <1>1, <3>1, <3>2, <3>9, <3>10 DEF TypeOK
    <2> QED BY <2>1, <2>2
  <1>6. PendingOK'
    <2>1. u \in Active => status[u] # "new"
      BY DEF Active
    <2>2. \A v \in aborted' : status'[v] # "new"
      BY <1>1, <1>3, <1>5, <2>1 DEF PendingOK, TypeOK
    <2> QED BY <1>1, <1>2, <1>4, <2>2 DEF PendingOK, MaxDeviceLen, InputLen
  <1>7. Chunked' \subseteq Chunked \ {u}
    BY <1>2, <1>5 DEF Chunked, InputLen
  <1>8. Pending' \subseteq Pending /\ u \notin Pending'
    BY <1>2, <1>4, <1>7 DEF Pending
  <1>9. \A v \in Pending' : v \in running <=> v \in running'
    BY <1>2, <1>8
  <1>10. cached' = cached /\ Room' \in Nat /\ Room <= Room'
    BY <1>2, <1>5
  <1>11. Enough'
    BY ONLY <1>1, <1>8, <1>9, <1>10, EnoughKept
  <1> QED BY <1>6, <1>11 DEF BudgetInv

(* The drain of a request: nothing, its end, or its commit.                *)
LEMMA DrainBudget ==
    ASSUME IInv, SP!IInv, BudgetInv, IInv', NEW u \in Uids, Drain(u)
    PROVE  BudgetInv'
  <1>1. TypeOK /\ TreeOK /\ LengthsOK /\ RowsOK /\ BatchesOK /\ PendingOK /\ Enough
        /\ TypeOK' /\ TreeOK'
    BY DEF IInv, BudgetInv
  <1>2. /\ phase = "drain" /\ phase' = "drain" /\ u \in todo
        /\ UNCHANGED <<ongoing, aborted, cached, device>>
        /\ DrainNothing(u) \/ DrainFinish(u) \/ DrainGoOn(u)
    BY DEF Drain
  <1>3. /\ free' = free /\ running' \subseteq running
        /\ \A v \in Uids : v # u => (v \in running' <=> v \in running)
        /\ status' \in [Uids -> {"new", "active", "done"}]
        /\ Active' \subseteq Active
        /\ \A v \in Uids : status'[v] = "new" => status[v] = "new"
        /\ u \in Active' => (u \in running' <=> u \in running)
        /\ Room' \in Nat /\ Room <= Room'
    <2>1. CASE DrainNothing(u)
      <3>1. UNCHANGED <<tree, free, deferred, status, running>>
        BY <2>1 DEF DrainNothing, poolVars
      <3>2. Active' = Active
        BY <3>1 DEF Active
      <3>3. Room' = Room /\ Room \in Nat
        BY <1>1, <3>1, RoomFact DEF Room
      <3> QED BY <1>1, <3>1, <3>2, <3>3 DEF TypeOK
    <2>2. CASE DrainFinish(u) /\ u \notin Active
      <3>1. UNCHANGED <<tree, free, deferred, status>> /\ running' = running \ {u}
        BY <2>2 DEF DrainFinish, Active
      <3>2. Active' = Active
        BY <3>1 DEF Active
      <3>3. Room' = Room /\ Room \in Nat
        BY <1>1, <3>1, RoomFact DEF Room
      <3>4. /\ running' \subseteq running
            /\ \A v \in Uids : v # u => (v \in running' <=> v \in running)
        BY <3>1
      <3>5. status' \in [Uids -> {"new", "active", "done"}]
        BY <1>1, <3>1 DEF TypeOK
      <3>6. Active' \subseteq Active /\ u \notin Active'
        BY <2>2, <3>2
      <3> QED BY ONLY <3>1, <3>3, <3>4, <3>5, <3>6
    <2>3. CASE DrainFinish(u) /\ u \in Active
      <3>1. /\ tree' = Unlocked(u) /\ status' = [status EXCEPT ![u] = "done"]
            /\ deferred' = deferred \o Freed(u) /\ free' = free
            /\ running' = running \ {u}
        BY <2>3 DEF DrainFinish, Finish, Active
      <3>2. Active' = Active \ {u}
        BY <1>1, <3>1 DEF Active, TypeOK
      <3>3. PICK t : t = tree'
        OBVIOUS
      <3>4. t.evictable \in Nat /\ tree.evictable <= t.evictable
        BY <1>1, <2>3, <3>1, <3>3, FinishRoom
      <3>5. PICK b : b = Len(deferred')
        OBVIOUS
      <3>6. b \in Nat /\ Len(deferred) <= b
        <4>1. deferred \in Seq(Pages)
          BY <1>1 DEF TypeOK
        <4> QED BY <1>1, <2>3, <3>1, <3>5, <4>1, FreedLength
      <3>7. PICK a \in Nat : a = Len(free)
        BY <1>1, RoomFact
      <3>8. Len(free) <= a
        BY <3>7
      <3>9. t.evictable + (a + b) * PageSize \in Nat
            /\ Room <= t.evictable + (a + b) * PageSize
        BY ONLY <1>1, <3>4, <3>6, <3>7, <3>8, RoomGrows
      <3>10. Room' = t.evictable + (a + b) * PageSize
        BY <3>1, <3>3, <3>5, <3>7 DEF Room
      <3> QED BY <1>1, <3>1, <3>2, <3>9, <3>10 DEF TypeOK
    <2>4. CASE DrainGoOn(u) /\ ~ last.prefill
      <3>1. UNCHANGED <<tree, free, deferred, status, running>>
        BY <2>4 DEF DrainGoOn
      <3>2. Active' = Active
        BY <3>1 DEF Active
      <3>3. Room' = Room /\ Room \in Nat
        BY <1>1, <3>1, RoomFact DEF Room
      <3> QED BY <1>1, <3>1, <3>2, <3>3 DEF TypeOK
    <2>5. CASE DrainGoOn(u) /\ last.prefill
      <3>1. /\ tree' = Lock(Unlocked(u), Inserted(u).node)
            /\ deferred' = deferred \o Duplicates(u)
            /\ UNCHANGED <<free, status, running>>
        BY <2>5 DEF DrainGoOn, Commit, LazyFreed
      <3>2. Active' = Active
        BY <3>1 DEF Active
      <3>3. u \in Active
        BY <1>1, <1>2, <2>5 DEF DrainGoOn, BatchesOK
      <3>4. Room' \in Nat /\ tree'.evictable \in Nat
        BY <1>1, RoomNext DEF RoomIsNat
      <3>5. PICK y : y = tree'
        OBVIOUS
      <3>6. PICK g : g = Duplicates(u)
        OBVIOUS
      <3>7. g \in Seq(Pages)
        BY <1>1, <3>3, <3>6, DuplicatesFreed
      <3>8. y = Lock(Unlocked(u), Inserted(u).node) /\ y.evictable \in Nat
        BY <3>1, <3>4, <3>5
      <3>9. Len(g) \in Nat /\ tree.evictable <= y.evictable + Len(g) * PageSize
        BY <1>1, <3>3, <3>6, <3>8, CommitRoom
      <3>10. Len(deferred') = Len(deferred) + Len(g)
        <4>1. deferred \in Seq(Pages)
          BY <1>1 DEF TypeOK
        <4>2. Len(deferred \o g) = Len(deferred) + Len(g)
          BY <3>7, <4>1, ConcatFact
        <4> QED BY <3>1, <3>6, <4>2
      <3>11. PICK d \in Nat : d = Len(deferred)
        BY <1>1, RoomFact
      <3>12. PICK f \in Nat : f = Len(free)
        BY <1>1, RoomFact
      <3>13. PICK e \in Nat : e = tree.evictable
        BY <1>1, RoomFact
      <3>14. PICK w \in Nat : w = y.evictable
        BY <3>8
      <3>15. PICK l \in Nat : l = Len(g)
        BY <3>9
      <3>16. e <= w + l * PageSize
        BY <3>9, <3>13, <3>14, <3>15
      <3>17. Room = e + (f + d) * PageSize
        BY <3>11, <3>12, <3>13 DEF Room
      <3>18. Room' = w + (f + (d + l)) * PageSize
        BY <3>1, <3>5, <3>10, <3>11, <3>12, <3>14, <3>15 DEF Room
      <3>19. e + (f + d) * PageSize <= w + (f + (d + l)) * PageSize
        BY ONLY <3>16, e \in Nat, w \in Nat, f \in Nat, d \in Nat, l \in Nat,
                PageSizeAssumption, SMTT(30)
      <3>20. Room <= Room'
        BY <3>17, <3>18, <3>19
      <3> QED BY <1>1, <3>1, <3>2, <3>4, <3>20 DEF TypeOK
    <2> QED BY <1>2, <2>1, <2>2, <2>3, <2>4, <2>5
  <1>4. PendingOK'
    <2>1. aborted \subseteq Uids
      BY <1>1 DEF TypeOK
    <2>2. \A v \in aborted : status'[v] # "new"
      BY <1>1, <1>3, <2>1 DEF PendingOK
    <2> QED BY <1>1, <1>2, <1>3, <2>2 DEF PendingOK, MaxDeviceLen, InputLen
  <1>5. Chunked' \subseteq Chunked
    BY <1>2, <1>3 DEF Chunked, InputLen
  <1>6. Pending' \subseteq Pending
    BY <1>2, <1>3, <1>5 DEF Pending
  <1>7. \A v \in Pending' : v \in running <=> v \in running'
    <2> SUFFICES ASSUME NEW v \in Pending' PROVE v \in running <=> v \in running'
      OBVIOUS
    <2>1. v \in running' \/ v \in Active'
      BY <1>2 DEF Pending, Chunked
    <2>2. v \in Uids
      BY <1>1, <1>6, PendingFact
    <2> QED BY <1>3, <2>1, <2>2
  <1>8. cached' = cached /\ Room' \in Nat /\ Room <= Room'
    BY <1>2, <1>3
  <1>9. Enough'
    BY ONLY <1>1, <1>6, <1>7, <1>8, EnoughKept
  <1> QED BY <1>4, <1>9 DEF BudgetInv

(* The launch: a batch takes pages that were reserved for its requests.    *)
LEMMA BatchPending ==
    ASSUME TypeOK, LengthsOK, BatchesOK, PendingOK, phase = "sched",
           NEW b, b = Batch, NEW u \in b.reqs
    PROVE  /\ u \in Pending /\ u \in Uids
           /\ u \in running => /\ device[u] = cached[u] + 1
                               /\ device[u] < MaxDeviceLen(u)
                               /\ InputLen(u) <= cached[u]
                               /\ u \notin b.chunked
           /\ u \notin running => /\ device[u] <= InputLen(u)
                                  /\ u \in b.chunked <=> device[u] < InputLen(u)
           /\ NeededPages(u) \in Nat /\ NeededPages(u) <= Reserve(u)
  <1>1. /\ u \in Pending
        /\ u \in running => /\ device[u] = cached[u] + 1
                            /\ device[u] < MaxDeviceLen(u)
                            /\ InputLen(u) <= cached[u]
                            /\ u \notin b.chunked
        /\ u \notin running => /\ device[u] <= InputLen(u)
                               /\ u \in b.chunked <=> device[u] < InputLen(u)
    <2>1. CASE ongoing.prefill
      <3>1. b = ongoing
        BY <2>1 DEF Batch
      <3>2. u \in ongoing.reqs /\ u \notin running
        BY <3>1 DEF PendingOK
      <3> QED BY <3>1, <3>2 DEF Pending, BatchesOK
    <2>2. CASE ~ ongoing.prefill
      <3>1. b = [NoBatch EXCEPT !.reqs = running]
        BY <2>2 DEF Batch
      <3>2. b = [reqs |-> running, chunked |-> {}, prefill |-> FALSE]
        BY <3>1 DEF NoBatch
      <3>3. b.reqs = running /\ b.chunked = {}
        BY ONLY <3>2
      <3> QED BY <3>3 DEF Pending, PendingOK
    <2> QED BY <2>1, <2>2
  <1>2. /\ u \in Uids /\ MaxDeviceLen(u) \in Nat /\ cached[u] \in Nat
    BY <1>1, PendingFact
  <1>3. /\ device[u] \in Nat /\ cached[u] <= device[u] /\ InputLen(u) \in Nat
    BY <1>2, ReqFact
  <1>4. InputLen(u) <= MaxDeviceLen(u)
    BY <1>2, <1>3, OutputLenAssumption DEF MaxDeviceLen
  <1>5. PICK c : c = cached[u]
    OBVIOUS
  <1>6. PICK d : d = device[u]
    OBVIOUS
  <1>7. PICK m : m = IF u \in running THEN MaxDeviceLen(u) - 1 ELSE MaxDeviceLen(u)
    OBVIOUS
  <1>8. m \in Nat /\ d \in Nat /\ c \in Nat /\ c <= d /\ d <= m
    BY <1>1, <1>2, <1>3, <1>4, <1>5, <1>6, <1>7
  <1>9. DivCeil(d) - DivCeil(c) \in Nat /\ DivCeil(c) \in Nat /\ DivCeil(d) \in Nat
    BY <1>8, DivCeilFact
  <1>10. DivCeil(d) <= DivCeil(m) /\ DivCeil(m) \in Nat
    BY <1>8, DivCeilFact
  <1>11. NeededPages(u) = DivCeil(d) - DivCeil(c)
    BY <1>5, <1>6 DEF NeededPages
  <1>12. Reserve(u) = DivCeil(m) - DivCeil(c)
    BY <1>5, <1>7 DEF Reserve
  <1>13. DivCeil(d) - DivCeil(c) <= DivCeil(m) - DivCeil(c)
    BY <1>9, <1>10
  <1> QED BY <1>1, <1>2, <1>9, <1>11, <1>12, <1>13

(* evict finds enough to take.                                             *)
LEMMA NeverShort ==
    ASSUME IInv, BudgetInv, phase = "sched"
    PROVE  ~ (Shortage > 0 /\ Shortage > tree.evictable)
  <1>1. TypeOK /\ TreeOK /\ LengthsOK /\ BatchesOK /\ PendingOK /\ Enough
    BY DEF IInv, BudgetInv
  <1>2. PICK b : b = Batch
    OBVIOUS
  <1>3. PICK us : us = b.reqs
    OBVIOUS
  <1>4. PICK D : D = Pending
    OBVIOUS
  <1>5. PICK f : f = [u \in us |-> NeededPages(u)]
    OBVIOUS
  <1>6. PICK g : g = [u \in D |-> Reserve(u)]
    OBVIOUS
  <1>7. us \in SUBSET Uids
    BY <1>1, <1>2, <1>3, BatchFact
  <1>8. \A u \in us : u \in D /\ NeededPages(u) \in Nat /\ NeededPages(u) <= Reserve(u)
    BY <1>1, <1>2, <1>3, <1>4, BatchPending
  <1>9. IsFiniteSet(D) /\ g \in [D -> Nat] /\ Reserved = Tally(g) /\ Reserved \in Nat
    BY <1>1, <1>4, <1>6, PendingSum DEF Reserved
  <1>10. us \in SUBSET D /\ f \in [us -> Nat] /\ \A u \in us : f[u] <= g[u]
    BY <1>5, <1>6, <1>8
  <1>11. Tally(f) <= Tally(g)
    BY <1>9, <1>10, TallyMonotonic
  <1>12. PICK n \in Nat : n = Needed(us)
    BY <1>1, <1>7, NeededFact
  <1>13. PICK r \in Nat : r = Reserved
    BY <1>9
  <1>14. n <= r
    BY <1>5, <1>9, <1>11, <1>12, <1>13 DEF Needed
  <1>15. PICK e \in Nat : e = tree.evictable
    BY <1>1, RoomFact
  <1>16. PICK l \in Nat : l = Len(free)
    BY <1>1, RoomFact
  <1>17. Len(deferred) = 0
    BY <1>1 DEF PendingOK
  <1>18. l + Len(deferred) = l
    BY <1>17
  <1>19. r * PageSize <= e + l * PageSize
    BY <1>1, <1>13, <1>15, <1>16, <1>18 DEF Enough, Reserved
  <1>20. Shortage = (n - l) * PageSize
    BY <1>2, <1>3, <1>12, <1>16 DEF Shortage
  <1>21. (n - l) * PageSize <= e /\ (n - l) * PageSize \in Int
    BY ONLY <1>14, <1>19, n \in Nat, r \in Nat, e \in Nat, l \in Nat,
            PageSizeAssumption, SMTT(30)
  <1> QED BY <1>15, <1>20, <1>21

ReservesNat == \A u \in Pending : Reserve(u) \in Nat
LEMMA ReservesNext ==
    TypeOK' /\ LengthsOK' /\ BatchesOK' /\ PendingOK' => ReservesNat'
  <1>1. TypeOK /\ LengthsOK /\ BatchesOK /\ PendingOK => ReservesNat
    BY PendingFact DEF ReservesNat
  <1> QED BY <1>1, PTL

(* A forward: what its requests took is no longer reserved for them.       *)
LEMMA ForwardPending ==
    ASSUME IInv, BudgetInv, phase = "sched", phase' = "drain",
           NEW us, us = Batch.reqs, CompleteOne(Batch),
           UNCHANGED <<status, aborted>>
    PROVE  /\ PendingOK' /\ Pending' \subseteq Pending
           /\ \A u \in Uids \ us : cached'[u] = cached[u]
           /\ \A u \in us : cached'[u] = device[u]
           /\ \A u \in Pending : u \in running' => u \in running \/ u \in us
           /\ \A u \in Pending' : u \in running => u \in running'
  <1>1. TypeOK /\ TreeOK /\ LengthsOK /\ BatchesOK /\ PendingOK /\ Enough
    BY DEF IInv, BudgetInv
  <1>2. PICK b : b = Batch
    OBVIOUS
  <1>3. PICK C : C = b.chunked
    OBVIOUS
  <1>4. us = b.reqs /\ us \in SUBSET Uids /\ C \subseteq us
    BY <1>1, <1>2, <1>3, BatchFact
  <1>5. /\ cached' = [u \in Uids |-> IF u \in us THEN device[u] ELSE cached[u]]
        /\ device' = [u \in Uids |-> IF u \in us THEN device[u] + 1 ELSE device[u]]
        /\ running' = {u \in running \cup (us \ C) : MaxDeviceLen(u) > device'[u]}
    BY <1>2, <1>3, <1>4 DEF CompleteOne
  <1>6. running \in SUBSET Uids
    BY <1>1 DEF TypeOK
  <1>7. ASSUME NEW u \in us
        PROVE  /\ u \in Pending /\ u \in Uids
               /\ u \in running => /\ device[u] = cached[u] + 1
                                   /\ device[u] < MaxDeviceLen(u)
                                   /\ InputLen(u) <= cached[u]
                                   /\ u \notin C
               /\ u \notin running => /\ device[u] <= InputLen(u)
                                      /\ u \in C <=> device[u] < InputLen(u)
    BY <1>1, <1>2, <1>3, <1>4, BatchPending
  <1>8. ASSUME NEW u \in Uids
        PROVE  /\ cached[u] \in Nat /\ device[u] \in Nat /\ InputLen(u) \in Nat
               /\ MaxDeviceLen(u) \in Nat
    <2>1. cached[u] \in Nat /\ device[u] \in Nat /\ InputLen(u) \in Nat
      BY <1>1, ReqFact
    <2> QED BY <2>1, OutputLenAssumption DEF MaxDeviceLen
  <1>9. ASSUME NEW u \in running'
        PROVE  /\ device'[u] = cached'[u] + 1
               /\ device'[u] < MaxDeviceLen(u)
               /\ InputLen(u) <= cached'[u]
    <2>1. u \in Uids /\ MaxDeviceLen(u) > device'[u] /\ u \in running \cup (us \ C)
      BY <1>4, <1>5, <1>6
    <2>2. CASE u \in us
      <3>1. cached'[u] = device[u] /\ device'[u] = device[u] + 1
        BY <1>5, <2>1, <2>2
      <3>2. InputLen(u) <= device[u]
        <4>1. CASE u \in running
          BY <1>7, <1>8, <2>1, <2>2, <4>1
        <4>2. CASE u \notin running
          BY <1>7, <1>8, <2>1, <2>2, <4>2
        <4> QED BY <4>1, <4>2
      <3> QED BY <1>8, <2>1, <3>1, <3>2
    <2>3. CASE u \notin us
      <3>1. cached'[u] = cached[u] /\ device'[u] = device[u] /\ u \in running
        BY <1>5, <2>1, <2>3
      <3> QED BY <1>1, <3>1 DEF PendingOK
    <2> QED BY <2>2, <2>3
  <1>10. PendingOK'
    BY <1>1, <1>9 DEF PendingOK, MaxDeviceLen, InputLen
  <1>11. Chunked' \subseteq Pending
    <2> SUFFICES ASSUME NEW u \in Chunked' PROVE u \in Pending
      OBVIOUS
    <2>1. u \in Active \ aborted /\ cached'[u] < InputLen(u) /\ u \in Uids
      BY DEF Chunked, Active, InputLen
    <2>2. CASE u \in us
      BY <1>7, <2>2
    <2>3. CASE u \notin us
      <3>1. cached'[u] = cached[u]
        BY <1>5, <2>1, <2>3
      <3>2. u \in Chunked
        BY <2>1, <3>1 DEF Chunked
      <3> QED BY <3>2 DEF Pending
    <2> QED BY <2>2, <2>3
  <1>12. running' \subseteq Pending
    BY <1>5, <1>7 DEF Pending
  <1>13. Pending' = running' \cup Chunked'
    BY DEF Pending
  <1>14. ASSUME NEW u \in Pending', u \in running PROVE u \in running'
    <2>1. u \in Uids
      BY <1>6, <1>14
    <2>2. CASE u \in us
      <3>1. InputLen(u) <= cached[u] /\ device[u] = cached[u] + 1
        BY <1>7, <1>14, <2>2
      <3>2. cached'[u] = device[u]
        BY <1>5, <2>1, <2>2
      <3>3. ~ (cached'[u] < InputLen(u))
        BY <1>8, <2>1, <3>1, <3>2
      <3>4. u \notin Chunked'
        BY <3>3 DEF Chunked, InputLen
      <3> QED BY <1>13, <3>4
    <2>3. CASE u \notin us
      <3>1. device'[u] = device[u] /\ device[u] < MaxDeviceLen(u)
        BY <1>1, <1>5, <1>14, <2>1, <2>3 DEF PendingOK
      <3> QED BY <1>5, <1>8, <1>14, <2>1, <3>1
    <2> QED BY <2>2, <2>3
  <1>15. /\ \A u \in Uids \ us : cached'[u] = cached[u]
         /\ \A u \in us : cached'[u] = device[u]
    BY <1>4, <1>5
  <1>16. \A u \in Pending : u \in running' => u \in running \/ u \in us
    BY <1>5
  <1> QED BY <1>10, <1>11, <1>12, <1>13, <1>14, <1>15, <1>16

LEMMA ForwardReserve ==
    ASSUME IInv, BudgetInv, IInv', phase = "sched", phase' = "drain",
           NEW us, us = Batch.reqs, CompleteOne(Batch),
           UNCHANGED <<status, aborted>>
    PROVE  /\ Reserved' \in Nat /\ Needed(us) \in Nat /\ Reserved \in Nat
           /\ Reserved' + Needed(us) <= Reserved
  <1>1. TypeOK /\ TreeOK /\ LengthsOK /\ BatchesOK /\ PendingOK /\ Enough
        /\ TypeOK' /\ LengthsOK' /\ BatchesOK'
    BY DEF IInv, BudgetInv
  <1>2. /\ PendingOK' /\ Pending' \subseteq Pending
        /\ \A u \in Uids \ us : cached'[u] = cached[u]
        /\ \A u \in us : cached'[u] = device[u]
        /\ \A u \in Pending : u \in running' => u \in running \/ u \in us
        /\ \A u \in Pending' : u \in running => u \in running'
    BY ForwardPending
  <1>3. ReservesNat'
    BY <1>1, <1>2, ReservesNext
  <1>4. PICK D : D = Pending
    OBVIOUS
  <1>5. PICK E : E = Pending'
    OBVIOUS
  <1>6. PICK h : h = [u \in D |-> Reserve(u)]
    OBVIOUS
  <1>7. PICK r : r = [u \in E |-> Reserve(u)']
    OBVIOUS
  <1>8. PICK n : n = [u \in us |-> NeededPages(u)]
    OBVIOUS
  <1>9. PICK f : f = [u \in D |-> IF u \in E THEN r[u] ELSE 0]
    OBVIOUS
  <1>10. PICK g : g = [u \in D |-> IF u \in us THEN n[u] ELSE 0]
    OBVIOUS
  <1>11. /\ D \in SUBSET Uids /\ IsFiniteSet(D) /\ h \in [D -> Nat]
         /\ Reserved \in Nat /\ Reserved = Tally(h)
    BY <1>1, <1>4, <1>6, PendingSum DEF Reserved
  <1>12. ASSUME NEW u \in us
         PROVE  u \in D /\ NeededPages(u) \in Nat /\ NeededPages(u) <= Reserve(u)
    BY <1>1, <1>4, BatchPending
  <1>13. us \in SUBSET D /\ n \in [us -> Nat]
    BY <1>8, <1>12
  <1>14. E \in SUBSET D /\ r \in [E -> Nat]
    BY <1>2, <1>3, <1>4, <1>5, <1>7 DEF ReservesNat
  <1>15. f \in [D -> Nat] /\ g \in [D -> Nat]
    BY <1>9, <1>10, <1>13, <1>14
  <1>16. ASSUME NEW u \in D PROVE f[u] + g[u] <= h[u]
    <2>1. PICK m : m = IF u \in running THEN MaxDeviceLen(u) - 1 ELSE MaxDeviceLen(u)
      OBVIOUS
    <2>2. m \in Nat /\ cached[u] \in Nat /\ cached[u] <= m /\ MaxDeviceLen(u) \in Nat
          /\ u \in Uids
      BY <1>1, <1>4, <2>1, PendingFact
    <2>3. PICK x \in Nat : x = DivCeil(m)
      BY <2>2, CeilFact
    <2>4. PICK c \in Nat : c = DivCeil(cached[u])
      BY <2>2, CeilFact
    <2>5. h[u] = x - c
      BY <1>6, <2>1, <2>3, <2>4 DEF Reserve
    <2>6. CASE u \in E
      <3>1. PICK k : k = IF u \in running' THEN MaxDeviceLen(u) - 1 ELSE MaxDeviceLen(u)
        OBVIOUS
      <3>2. r[u] = DivCeil(k) - DivCeil(cached'[u])
        BY <1>7, <2>6, <3>1 DEF Reserve, MaxDeviceLen, InputLen, DivCeil
      <3>3. u \in running => u \in running'
        BY <1>2, <1>5, <2>6
      <3>4. CASE u \in us
        <4>1. u \in running' => MaxDeviceLen(u) - 1 \in Nat
          <5>1. ASSUME u \in running' PROVE MaxDeviceLen(u) - 1 \in Nat
            <6>1. device'[u] < MaxDeviceLen(u) /\ device'[u] \in Nat
              <7>1. device'[u] < MaxDeviceLen(u)
                BY <1>2, <5>1 DEF PendingOK, MaxDeviceLen, InputLen
              <7>2. device'[u] \in Nat
                BY <1>1, <2>2 DEF TypeOK
              <7> QED BY <7>1, <7>2
            <6> QED BY <2>2, <6>1
          <5> QED BY <5>1
        <4>2. k \in Nat /\ k <= m
          BY <2>1, <2>2, <3>1, <3>3, <4>1
        <4>3. PICK y \in Nat : y = DivCeil(k) /\ y <= x
          BY <2>2, <2>3, <4>2, DivCeilFact
        <4>4. PICK d \in Nat : d = DivCeil(device[u])
          <5>1. device[u] \in Nat
            BY <1>1, <2>2 DEF TypeOK
          <5> QED BY <5>1, CeilFact
        <4>5. f[u] = y - d
          BY <1>2, <1>9, <2>6, <3>2, <3>4, <4>3, <4>4
        <4>6. g[u] = d - c
          BY <1>8, <1>10, <2>4, <3>4, <4>4 DEF NeededPages
        <4> QED BY <2>5, <4>3, <4>4, <4>5, <4>6
      <3>5. CASE u \notin us
        <4>1. k = m /\ cached'[u] = cached[u] /\ g[u] = 0
          BY <1>2, <1>4, <1>10, <2>1, <2>2, <3>1, <3>3, <3>5
        <4> QED BY <1>9, <2>3, <2>4, <2>5, <2>6, <3>2, <4>1
      <3> QED BY <3>4, <3>5
    <2>7. CASE u \notin E
      <3>1. f[u] = 0 /\ h[u] \in Nat
        BY <1>9, <1>11, <2>7
      <3>2. CASE u \in us
        <4>1. g[u] = NeededPages(u) /\ h[u] = Reserve(u)
          BY <1>6, <1>8, <1>10, <3>2
        <4> QED BY <1>12, <3>1, <3>2, <4>1
      <3>3. CASE u \notin us
        <4>1. g[u] = 0
          BY <1>10, <3>3
        <4> QED BY <3>1, <4>1
      <3> QED BY <3>2, <3>3
    <2> QED BY <2>6, <2>7
  <1>17. Tally(f) + Tally(g) <= Tally(h)
    BY <1>11, <1>15, <1>16, TallyPlus
  <1>18. IsFiniteSet(E) /\ IsFiniteSet(us)
    BY <1>11, <1>13, <1>14, FS_Subset
  <1>19. Tally(r) \in Nat /\ Tally(n) \in Nat /\ Tally(f) \in Nat /\ Tally(g) \in Nat
    BY <1>11, <1>13, <1>14, <1>15, <1>18, TallyNat
  <1>20. Tally(r) <= Tally(f)
    <2>1. \A u \in E : r[u] <= f[u]
      BY <1>9, <1>14
    <2> QED BY <1>11, <1>14, <1>15, <2>1, TallyMonotonic
  <1>21. Tally(n) <= Tally(g)
    <2>1. \A u \in us : n[u] <= g[u]
      BY <1>10, <1>13
    <2> QED BY <1>11, <1>13, <1>15, <2>1, TallyMonotonic
  <1>22. Reserved' = Tally(r) /\ Needed(us) = Tally(n)
    BY <1>5, <1>7, <1>8 DEF Reserved, Needed
  <1> QED BY <1>11, <1>17, <1>19, <1>20, <1>21, <1>22

LEMMA LaunchBudget ==
    ASSUME IInv, SP!IInv, BudgetInv, IInv', Launch
    PROVE  BudgetInv'
  <1>1. TypeOK /\ TreeOK /\ LengthsOK /\ BatchesOK /\ ListsOK /\ PendingOK /\ Enough
        /\ TypeOK' /\ TreeOK' /\ LengthsOK' /\ BatchesOK'
    BY DEF IInv, BudgetInv
  <1>2. phase = "sched"
    BY DEF Launch
  <1>3. ~ (Shortage > 0 /\ Shortage > tree.evictable)
    BY <1>2, NeverShort
  <1>4. ASSUME phase' = "encoder",
               UNCHANGED <<poolVars, batchVars, reqVars, content, mmVars>>
        PROVE  BudgetInv'
    <2>1. UNCHANGED <<tree, free, deferred, running, ongoing, status, aborted,
                      cached, device>>
      BY <1>4 DEF poolVars, batchVars, reqVars
    <2>2. Room' = Room /\ Room \in Nat
      BY <1>1, <2>1, RoomFact DEF Room
    <2>3. PendingOK'
      BY <1>1, <1>4, <2>1 DEF PendingOK, MaxDeviceLen, InputLen
    <2>4. Chunked' = Chunked
      BY <2>1 DEF Chunked, Active, InputLen
    <2>5. Pending' \subseteq Pending
      BY <1>4, <2>1, <2>4 DEF Pending
    <2>6. /\ \A v \in Pending' : v \in running <=> v \in running'
          /\ cached' = cached /\ Room' \in Nat /\ Room <= Room'
      BY <2>1, <2>2
    <2>7. Enough'
      BY ONLY <1>1, <2>5, <2>6, EnoughKept
    <2> QED BY <2>3, <2>7 DEF BudgetInv
  <1>5. ASSUME phase' = "drain", AllocatePaged, CompleteOne(Batch),
               UNCHANGED <<deferred, status, aborted>>
        PROVE  BudgetInv'
    <2>1. PICK us : us = Batch.reqs
      OBVIOUS
    <2>2. PICK t, f : Pool(t, f) /\ Allocate(us, t, f)
      BY <1>1, <1>2, <1>5, <2>1, PoolFact
    <2>3. us \in SUBSET Uids
      BY <1>1, <1>2, <2>1, BatchFact
    <2>4. /\ f \in Seq(Pages) /\ IsInjective(f) /\ Needed(us) <= Len(f)
          /\ t.evictable + Len(f) * PageSize = tree.evictable + Len(free) * PageSize
      BY <2>1, <2>2 DEF Pool
    <2>5. Len(free') = Len(f) - Needed(us)
      BY ONLY <1>1, <2>2, <2>3, <2>4, AllocFact
    <2>6. tree' = t
      BY <2>2 DEF Allocate
    <2>7. PendingOK'
      BY <1>2, <1>5, <2>1, ForwardPending
    <2>8. /\ Reserved' \in Nat /\ Needed(us) \in Nat /\ Reserved \in Nat
          /\ Reserved' + Needed(us) <= Reserved
      BY <1>2, <1>5, <2>1, ForwardReserve
    <2>9. PICK l \in Nat : l = Len(f)
      BY <2>4, LenProperties
    <2>10. PICK n \in Nat : n = Needed(us)
      BY <2>8
    <2>11. PICK a \in Nat : a = Reserved
      BY <2>8
    <2>12. PICK b \in Nat : b = Reserved'
      BY <2>8
    <2>13. PICK e \in Nat : e = tree.evictable
      BY <1>1, RoomFact
    <2>14. PICK k \in Nat : k = Len(free)
      BY <1>1, RoomFact
    <2>15. PICK x \in Nat : x = t.evictable
      BY <1>1, <2>6, RoomNext DEF RoomIsNat
    <2>16. Len(deferred) = 0 /\ Len(deferred') = 0
      BY <1>1, <1>2, <1>5 DEF PendingOK
    <2>17. k + Len(deferred) = k /\ Len(free') + Len(deferred') = l - n
      BY <2>5, <2>9, <2>10, <2>14, <2>16
    <2>18. a * PageSize <= e + k * PageSize
      BY <1>1, <2>11, <2>13, <2>14, <2>17 DEF Enough, Reserved
    <2>19. x + l * PageSize = e + k * PageSize /\ b + n <= a /\ n <= l
      BY <2>4, <2>8, <2>9, <2>10, <2>11, <2>12, <2>13, <2>14, <2>15
    <2>20. b * PageSize <= x + (l - n) * PageSize
      BY ONLY <2>18, <2>19, a \in Nat, b \in Nat, e \in Nat, k \in Nat, l \in Nat,
              n \in Nat, x \in Nat, PageSizeAssumption, SMTT(30)
    <2>21. Room' = x + (l - n) * PageSize
      BY <2>6, <2>15, <2>17 DEF Room
    <2>22. Reserved' * PageSize <= Room'
      BY <2>12, <2>20, <2>21
    <2>23. Enough'
      BY <2>22 DEF Enough, Reserved, Room
    <2> QED BY <2>7, <2>23 DEF BudgetInv
  <1>6. \/ phase' = "oom" /\ Shortage > 0 /\ Shortage > tree.evictable
        \/ /\ phase' = "encoder"
           /\ UNCHANGED <<poolVars, batchVars, reqVars, content, mmVars>>
        \/ /\ phase' = "drain" /\ AllocatePaged /\ CompleteOne(Batch)
           /\ UNCHANGED <<deferred, status, aborted>>
    BY DEF Launch
  <1> QED BY <1>3, <1>4, <1>5, <1>6

LEMMA InitBudget == ASSUME Init, IInv PROVE BudgetInv
  <1>1. TypeOK /\ TreeOK /\ LengthsOK /\ BatchesOK
    BY DEF IInv
  <1>2. /\ phase = "sched" /\ running = {} /\ ongoing = NoBatch /\ aborted = {}
        /\ deferred = << >> /\ status = [u \in Uids |-> "new"]
    BY DEF Init
  <1>3. NoBatch.reqs = {}
    BY DEF NoBatch
  <1>4. PendingOK
    BY <1>2, <1>3 DEF PendingOK
  <1>5. Pending = {}
    <2>1. Active = {}
      BY <1>2 DEF Active
    <2> QED BY <1>2, <1>3, <2>1 DEF Pending, Chunked
  <1>6. PICK f : f = [u \in Pending |-> Reserve(u)]
    OBVIOUS
  <1>7. DOMAIN f = {}
    BY <1>5, <1>6
  <1>8. Tally(f) = 0
    BY <1>7, TallyEmpty
  <1>9. Room \in Nat
    BY <1>1, RoomFact
  <1>10. 0 * PageSize <= Room
    BY <1>9, PageSizeAssumption
  <1>11. Enough
    BY <1>6, <1>8, <1>10 DEF Enough, Room
  <1> QED BY <1>4, <1>11 DEF BudgetInv

LEMMA NextBudget ==
    ASSUME IInv, SP!IInv, BudgetInv, [Next]_vars
    PROVE  BudgetInv'
  <1>1. IInv'
    BY NextImplements
  <1>2. ASSUME NEW u \in Uids, Continue(u) PROVE BudgetInv'
    BY <1>2, ContinueBudget
  <1>3. ASSUME NEW u \in Uids, Admit(u) PROVE BudgetInv'
    BY <1>1, <1>3, AdmitBudget
  <1>4. ASSUME NEW u \in Uids, Refuse(u) PROVE BudgetInv'
    BY <1>4, RefuseBudget
  <1>5. ASSUME NEW u \in Uids, Drain(u) PROVE BudgetInv'
    BY <1>1, <1>5, DrainBudget
  <1>6. ASSUME NEW u \in Uids, Abort(u) PROVE BudgetInv'
    BY <1>6, AbortBudget
  <1>7. CASE Launch
    BY <1>1, <1>7, LaunchBudget
  <1>8. CASE EndDrain
    BY <1>8, EndDrainBudget
  <1>9. CASE UNCHANGED vars
    BY <1>9, StutterBudget
  <1>10. CASE Idle
    BY <1>10, StutterBudget DEF Idle
  <1> QED BY <1>2, <1>3, <1>4, <1>5, <1>6, <1>7, <1>8, <1>9, <1>10 DEF Next

LEMMA BudgetHolds == Spec => [](IInv /\ BudgetInv)
  <1>1. Init => IInv /\ SP!IInv
    BY InitIInv, InitImplements
  <1>2. Init => IInv /\ SP!IInv /\ BudgetInv
    BY <1>1, InitBudget
  <1>3. IInv /\ SP!IInv /\ BudgetInv /\ [Next]_vars
          => IInv' /\ SP!IInv' /\ BudgetInv'
    BY NextImplements, NextBudget
  <1> QED BY <1>2, <1>3, PTL DEF Spec

(* What admission reserved is there whenever a forward takes it: the       *)
(* assertions of evict and of _allocate never fail, for any number of      *)
(* requests, any pool and any page size, although matches, locks, commits, *)
(* evictions and the deferred frees move pages between the test and the    *)
(* forward.                                                                *)
THEOREM EvictionEnough == Spec => []EvictionSuffices
  <1>1. BudgetInv => EvictionSuffices
    BY DEF BudgetInv, PendingOK, EvictionSuffices
  <1> QED BY <1>1, BudgetHolds, PTL

-----------------------------------------------------------------------------
(* The image claims.  A ledger says how many rows each request has still   *)
(* to gather of each image; Exact says that the encoder cache agrees with  *)
(* one.  The lemmas say what an operation of the cache makes of it.        *)

AllHashes == UNION {Hashes(u) : u \in Uids}
Ledgers == [AllHashes -> [Uids -> Nat]]

(* A ledger D has D[h][u] rows of image h for request u.                   *)
Gathered(rows, h, u) == IF <<u, h>> \in DOMAIN rows THEN rows[<<u, h>>] ELSE 0
Holding(D, h) == {u \in DOMAIN D[h] : D[h][u] > 0}
Says(r, f) == r = [u \in DOMAIN r |-> r[u]] /\ \A u \in DOMAIN r : r[u] = f[u]
Exact(c, D) ==
    /\ DOMAIN c = {h \in DOMAIN D : Holding(D, h) # {}}
    /\ \A h \in DOMAIN c : /\ DOMAIN c[h].remaining = Holding(D, h)
                           /\ Says(c[h].remaining, D[h])

LEMMA LedgerFact ==
    ASSUME NEW D \in Ledgers
    PROVE  /\ DOMAIN D = AllHashes
           /\ \A h \in AllHashes : /\ DOMAIN D[h] = Uids /\ Holding(D, h) \subseteq Uids
                                   /\ \A u \in Uids : D[h][u] \in Nat
                                   /\ \A u \in Uids : u \in Holding(D, h) <=> D[h][u] > 0
  BY DEF Ledgers, Holding

LEMMA ExactFact ==
    ASSUME NEW D \in Ledgers, NEW c, Exact(c, D)
    PROVE  /\ DOMAIN c \subseteq AllHashes
           /\ \A h \in AllHashes : h \in DOMAIN c <=> Holding(D, h) # {}
           /\ \A h \in DOMAIN c : /\ DOMAIN c[h].remaining = Holding(D, h)
                                   /\ Says(c[h].remaining, D[h])
  BY LedgerFact DEF Exact

LEMMA ExactClaim ==
    ASSUME NEW D \in Ledgers, NEW c, Exact(c, D),
           NEW h \in AllHashes, NEW u \in Uids
    PROVE  /\ Claim(c, h, u) = D[h][u]
           /\ D[h][u] > 0 => /\ h \in DOMAIN c
                             /\ u \in DOMAIN c[h].remaining
                             /\ c[h].remaining[u] = D[h][u]
  <1>1. D[h][u] \in Nat /\ (u \in Holding(D, h) <=> D[h][u] > 0)
    BY LedgerFact
  <1>3. CASE D[h][u] > 0
    <2>1. u \in Holding(D, h)
      BY <1>1, <1>3
    <2>2. h \in DOMAIN c /\ u \in DOMAIN c[h].remaining
      BY <2>1, ExactFact
    <2>3. c[h].remaining[u] = D[h][u]
      <3>1. Says(c[h].remaining, D[h])
        BY <2>2, ExactFact
      <3> QED BY <2>2, <3>1 DEF Says
    <2> QED BY <2>2, <2>3 DEF Claim
  <1>4. CASE ~ (D[h][u] > 0)
    <2>1. D[h][u] = 0
      BY <1>1, <1>4
    <2>2. u \notin Holding(D, h)
      BY <1>1, <1>4
    <2>3. ASSUME h \in DOMAIN c PROVE u \notin DOMAIN c[h].remaining
      BY <2>2, <2>3, ExactFact
    <2> QED BY <1>4, <2>1, <2>3 DEF Claim
  <1> QED BY <1>3, <1>4

(* The same entries, claim by claim.                                       *)
LEMMA ExactIntro ==
    ASSUME NEW D \in Ledgers, NEW c,
           \A h \in DOMAIN c :
             /\ h \in AllHashes /\ DOMAIN c[h].remaining = Holding(D, h)
             /\ Holding(D, h) # {}
             /\ Says(c[h].remaining, D[h]),
           \A h \in AllHashes, u \in Uids : D[h][u] > 0 => h \in DOMAIN c
    PROVE  Exact(c, D)
  <1>1. \A h \in AllHashes : h \in DOMAIN c <=> Holding(D, h) # {}
    BY LedgerFact
  <1>2. DOMAIN c = {h \in DOMAIN D : Holding(D, h) # {}}
    BY <1>1, LedgerFact
  <1> QED BY <1>2 DEF Exact

(* Embeddings come and no claim moves.                                     *)
LEMMA ExactPut ==
    ASSUME NEW D, NEW c, Exact(c, D), NEW hashes
    PROVE  /\ Exact(Put(c, hashes), D)
           /\ \A h : HasEmbedding(Put(c, hashes), h) <=>
                       h \in DOMAIN c /\ (c[h].stored \/ h \in hashes)
  <1> DEFINE d == Put(c, hashes)
  <1>1. DOMAIN d = DOMAIN c
        /\ \A h \in DOMAIN c : /\ d[h].stored = (c[h].stored \/ h \in hashes)
                               /\ d[h].remaining = c[h].remaining
    BY DEF Put
  <1> QED BY <1>1 DEF Exact, HasEmbedding

(* A request without a claim claims the rows of its images.                *)
LEMMA ExactRegister ==
    ASSUME NEW D \in Ledgers, NEW c, Exact(c, D),
           NEW u \in Uids, \A h \in AllHashes : D[h][u] = 0,
           NEW R \in SUBSET AllHashes, NEW rows \in [R -> Nat],
           NEW E \in Ledgers,
           \A h \in AllHashes, v \in Uids :
               E[h][v] = IF v = u /\ h \in R THEN rows[h] ELSE D[h][v]
    PROVE  /\ Exact(Register(c, u, rows), E)
           /\ \A h \in DOMAIN c : HasEmbedding(c, h) => HasEmbedding(Register(c, u, rows), h)
  <1> DEFINE d == Register(c, u, rows)
             K == {h \in R : rows[h] > 0}
             P(h) == {u} \cup (IF h \in DOMAIN c THEN DOMAIN c[h].remaining ELSE {})
  <1>1. /\ DOMAIN d = DOMAIN c \cup K
        /\ \A h \in DOMAIN d : h \notin K => d[h] = c[h]
        /\ \A h \in K : /\ d[h].stored = HasEmbedding(c, h)
                        /\ d[h].remaining = [v \in P(h) |->
                             Claim(c, h, v) + (IF v = u THEN rows[h] ELSE 0)]
    BY DEF Register
  <1> HIDE DEF d
  <1>2. \A h \in DOMAIN c : /\ h \in AllHashes /\ DOMAIN c[h].remaining = Holding(D, h)
                           /\ Says(c[h].remaining, D[h]) /\ Holding(D, h) # {}
    BY ExactFact
  <1>3. \A h \in AllHashes :
          /\ Holding(D, h) \subseteq Uids /\ Holding(E, h) \subseteq Uids
          /\ \A v \in Uids : /\ v \in Holding(D, h) <=> D[h][v] > 0
                            /\ v \in Holding(E, h) <=> E[h][v] > 0
    BY LedgerFact
  <1>4. K \subseteq AllHashes /\ \A h \in R : rows[h] \in Nat
    OBVIOUS
  <1>5. ASSUME NEW h \in DOMAIN d
        PROVE  /\ h \in AllHashes /\ DOMAIN d[h].remaining = Holding(E, h)
               /\ Holding(E, h) # {} /\ Says(d[h].remaining, E[h])
    <2>1. h \in AllHashes
      BY <1>1, <1>2, <1>4
    <2>2. CASE h \in K
      <3>1. PICK S : S = P(h)
        OBVIOUS
      <3>2. PICK r : r = d[h].remaining
        OBVIOUS
      <3>3. r = [v \in S |-> Claim(c, h, v) + (IF v = u THEN rows[h] ELSE 0)]
        BY <1>1, <2>2, <3>1, <3>2
      <3>4. ASSUME NEW v \in Uids
            PROVE  Claim(c, h, v) = D[h][v] /\ D[h][v] \in Nat
        BY <2>1, <3>4, ExactClaim, LedgerFact
      <3>5. ASSUME NEW v \in Uids
            PROVE  v \in S <=> v = u \/ D[h][v] > 0
        <4>1. h \in DOMAIN c <=> Holding(D, h) # {}
          BY <2>1, ExactFact
        <4>2. v \in Holding(D, h) <=> D[h][v] > 0
          BY <2>1, LedgerFact
        <4>3. CASE h \in DOMAIN c
          <5>1. S = {u} \cup Holding(D, h)
            BY <1>2, <3>1, <4>3
          <5> QED BY <4>2, <5>1
        <4>4. CASE h \notin DOMAIN c
          <5>1. S = {u} /\ v \notin Holding(D, h)
            BY <3>1, <4>1, <4>4
          <5> QED BY <4>2, <5>1
        <4> QED BY <4>3, <4>4
      <3>6. S \subseteq Uids
        BY <1>2, <1>3, <2>1, <3>1
      <3>7. rows[h] \in Nat /\ rows[h] > 0 /\ h \in R
        BY <1>4, <2>2
      <3>8. ASSUME NEW v \in Uids
            PROVE  /\ E[h][v] = IF v = u THEN rows[h] ELSE D[h][v]
                   /\ v \in S => Claim(c, h, v) + (IF v = u THEN rows[h] ELSE 0) = E[h][v]
        BY <2>1, <3>4, <3>7
      <3>9. ASSUME NEW v \in Uids PROVE v \in S <=> E[h][v] > 0
        BY <3>5, <3>7, <3>8
      <3>10. S = Holding(E, h) /\ u \in S
        <4>1. Holding(E, h) \subseteq Uids
              /\ \A v \in Uids : v \in Holding(E, h) <=> E[h][v] > 0
          BY <2>1, LedgerFact
        <4>2. u \in S
          BY <3>1
        <4> QED BY <3>6, <3>9, <4>1, <4>2
      <3>11. DOMAIN r = S /\ \A v \in S : r[v] = E[h][v]
        BY <3>3, <3>6, <3>8
      <3>12. r = [v \in DOMAIN r |-> r[v]]
        BY ONLY <3>3
      <3>13. Says(r, E[h])
        BY <3>11, <3>12 DEF Says
      <3> QED BY <2>1, <3>2, <3>10, <3>11, <3>13
    <2>3. CASE h \notin K
      <3>1. h \in DOMAIN c /\ d[h] = c[h]
        BY <1>1, <2>3
      <3>2. ASSUME NEW v \in Uids PROVE E[h][v] = D[h][v]
        <4>1. CASE v = u /\ h \in R
          <5>1. rows[h] \in Nat /\ ~ (rows[h] > 0)
            BY <1>4, <2>3, <4>1
          <5> QED BY <2>1, <4>1, <5>1
        <4>2. CASE ~ (v = u /\ h \in R)
          BY <2>1, <4>2
        <4> QED BY <4>1, <4>2
      <3>3. Holding(E, h) = Holding(D, h)
        <4>1. /\ Holding(D, h) \subseteq Uids /\ Holding(E, h) \subseteq Uids
              /\ \A v \in Uids : /\ v \in Holding(D, h) <=> D[h][v] > 0
                                /\ v \in Holding(E, h) <=> E[h][v] > 0
          BY <2>1, LedgerFact
        <4>2. \A v \in Uids : E[h][v] = D[h][v]
          BY <3>2
        <4>3. \A v \in Uids : v \in Holding(E, h) <=> v \in Holding(D, h)
          <5>1. ASSUME NEW v \in Uids
                PROVE  v \in Holding(E, h) <=> v \in Holding(D, h)
            <6>1. /\ v \in Holding(D, h) <=> D[h][v] > 0
                  /\ v \in Holding(E, h) <=> E[h][v] > 0
              BY <2>1, LedgerFact
            <6>2. E[h][v] = D[h][v]
              BY <4>2
            <6> QED BY ONLY <6>1, <6>2
          <5> QED BY <5>1
        <4> QED BY ONLY <4>1, <4>3
      <3>4. Holding(D, h) \subseteq Uids
        BY <1>3, <2>1
      <3>5. Says(c[h].remaining, E[h])
        BY <1>2, <3>1, <3>2, <3>4 DEF Says
      <3> QED BY <1>2, <2>1, <3>1, <3>3, <3>5
    <2> QED BY <2>2, <2>3
  <1>6. ASSUME NEW h \in AllHashes, NEW v \in Uids, E[h][v] > 0 PROVE h \in DOMAIN d
    <2>1. CASE v = u /\ h \in R
      BY <1>1, <1>6, <2>1
    <2>2. CASE ~ (v = u /\ h \in R)
      <3>1. D[h][v] > 0
        BY <1>6, <2>2
      <3> QED BY <1>1, <3>1, ExactClaim
    <2> QED BY <2>1, <2>2
  <1>7. Exact(d, E)
    BY <1>5, <1>6, ExactIntro
  <1>8. ASSUME NEW h \in DOMAIN c, HasEmbedding(c, h) PROVE HasEmbedding(d, h)
    BY <1>1, <1>8 DEF HasEmbedding
  <1> QED BY <1>7, <1>8 DEF d

(* Claims that go down, an entry going with its last holder.               *)
LEMMA ExactSettled ==
    ASSUME NEW D \in Ledgers, NEW c, Exact(c, D),
           NEW E \in Ledgers, \A h \in AllHashes, v \in Uids : E[h][v] <= D[h][v],
           NEW d, DOMAIN d \subseteq DOMAIN c,
           \A h \in DOMAIN c :
              h \in DOMAIN d <=> \E v \in DOMAIN c[h].remaining : E[h][v] > 0,
           \A h \in DOMAIN d :
              /\ DOMAIN d[h].remaining \subseteq DOMAIN c[h].remaining
              /\ \A v \in DOMAIN c[h].remaining :
                    v \in DOMAIN d[h].remaining <=> E[h][v] > 0
              /\ Says(d[h].remaining, E[h])
    PROVE  Exact(d, E)
  <1>1. \A h \in DOMAIN c : h \in AllHashes /\ DOMAIN c[h].remaining = Holding(D, h)
    BY ExactFact
  <1>2. \A h \in AllHashes :
          /\ Holding(D, h) \subseteq Uids /\ Holding(E, h) \subseteq Uids
          /\ \A v \in Uids : /\ v \in Holding(D, h) <=> D[h][v] > 0
                            /\ v \in Holding(E, h) <=> E[h][v] > 0
    BY LedgerFact
  <1>3. ASSUME NEW h \in AllHashes, NEW v \in Uids, E[h][v] > 0
        PROVE  h \in DOMAIN c /\ v \in DOMAIN c[h].remaining
    <2>1. D[h][v] \in Nat /\ E[h][v] \in Nat /\ E[h][v] <= D[h][v]
      BY LedgerFact
    <2>2. D[h][v] > 0
      BY <1>3, <2>1
    <2> QED BY <2>2, ExactClaim
  <1>4. ASSUME NEW h \in DOMAIN d
        PROVE  /\ h \in AllHashes /\ DOMAIN d[h].remaining = Holding(E, h)
               /\ Holding(E, h) # {} /\ Says(d[h].remaining, E[h])
    <2>1. h \in DOMAIN c /\ h \in AllHashes
      BY <1>1
    <2>2. Holding(D, h) \subseteq Uids
      BY <1>2, <2>1
    <2>3. DOMAIN c[h].remaining = Holding(D, h) /\ Holding(E, h) \subseteq Uids
          /\ \A v \in Uids : v \in Holding(E, h) <=> E[h][v] > 0
      BY <1>1, <2>1, LedgerFact
    <2>4. \A v \in Uids : E[h][v] > 0 => v \in Holding(D, h)
      BY <1>3, <2>1, <2>3
    <2>5. DOMAIN d[h].remaining \subseteq Holding(D, h)
          /\ \A v \in Holding(D, h) : v \in DOMAIN d[h].remaining <=> E[h][v] > 0
      BY <2>3
    <2>6. DOMAIN d[h].remaining = Holding(E, h)
      BY ONLY <2>2, <2>3, <2>4, <2>5
    <2>7. PICK v \in DOMAIN c[h].remaining : E[h][v] > 0
      BY <2>1
    <2>8. Holding(E, h) # {}
      BY <2>2, <2>3, <2>7
    <2> QED BY <2>1, <2>6, <2>8
  <1>5. ASSUME NEW h \in AllHashes, NEW u \in Uids, E[h][u] > 0 PROVE h \in DOMAIN d
    BY <1>3, <1>5
  <1> QED BY <1>4, <1>5, ExactIntro

(* Each claim goes down by what is gathered of it.                         *)
LEMMA ExactConsume ==
    ASSUME NEW D \in Ledgers, NEW c, Exact(c, D),
           NEW rows, \A w \in DOMAIN rows : rows[w] \in Nat,
           NEW E \in Ledgers,
           \A h \in AllHashes, v \in Uids : E[h][v] = D[h][v] - Gathered(rows, h, v)
    PROVE  /\ Exact(Consume(c, rows), E)
           /\ \A h \in DOMAIN Consume(c, rows) :
                 HasEmbedding(c, h) => HasEmbedding(Consume(c, rows), h)
  <1> DEFINE d == Consume(c, rows)
             L(h, v) == c[h].remaining[v] - Gathered(rows, h, v)
  <1>1. /\ DOMAIN d = {h \in DOMAIN c :
                         {u \in DOMAIN c[h].remaining : L(h, u) > 0} # {}}
        /\ \A h \in DOMAIN d :
             /\ d[h].stored = c[h].stored
             /\ d[h].remaining = [u \in {v \in DOMAIN c[h].remaining : L(h, v) > 0} |->
                                    L(h, u)]
    BY DEF Consume, Settled, Gathered
  <1> HIDE DEF d
  <1>2. ASSUME NEW h \in DOMAIN c
        PROVE  h \in AllHashes /\ \A v \in DOMAIN c[h].remaining : v \in Uids /\ L(h, v) = E[h][v]
    <2>1. h \in AllHashes /\ DOMAIN c[h].remaining = Holding(D, h) /\ Says(c[h].remaining, D[h])
      BY ExactFact
    <2>2. Holding(D, h) \subseteq Uids
      BY <2>1, LedgerFact
    <2>3. ASSUME NEW v \in DOMAIN c[h].remaining PROVE v \in Uids /\ L(h, v) = E[h][v]
      <3>1. v \in Uids
        BY <2>1, <2>2
      <3>2. c[h].remaining[v] = D[h][v]
        BY <2>1 DEF Says
      <3> QED BY <2>1, <3>1, <3>2
    <2> QED BY <2>1, <2>3
  <1> HIDE DEF L
  <1>3. /\ DOMAIN d \subseteq DOMAIN c
        /\ \A h \in DOMAIN c :
              h \in DOMAIN d <=> \E v \in DOMAIN c[h].remaining : E[h][v] > 0
    BY <1>1, <1>2
  <1>4. ASSUME NEW h \in DOMAIN d
        PROVE  /\ DOMAIN d[h].remaining \subseteq DOMAIN c[h].remaining
               /\ \A v \in DOMAIN c[h].remaining :
                     v \in DOMAIN d[h].remaining <=> E[h][v] > 0
               /\ Says(d[h].remaining, E[h])
    <2>1. h \in DOMAIN c
      BY <1>1
    <2>2. PICK S : S = {v \in DOMAIN c[h].remaining : L(h, v) > 0}
      OBVIOUS
    <2>3. PICK r : r = d[h].remaining
      OBVIOUS
    <2>4. r = [v \in S |-> L(h, v)]
      BY <1>1, <2>2, <2>3
    <2>5. S = {v \in DOMAIN c[h].remaining : E[h][v] > 0}
      BY <1>2, <2>1, <2>2
    <2>6. DOMAIN r = S /\ \A v \in S : r[v] = L(h, v)
      BY ONLY <2>4
    <2>7. \A v \in S : r[v] = E[h][v]
      BY <1>2, <2>1, <2>2, <2>6
    <2>8. r = [v \in DOMAIN r |-> r[v]]
      BY ONLY <2>4
    <2> QED BY <2>3, <2>5, <2>6, <2>7, <2>8 DEF Says
  <1>5. \A h \in AllHashes, v \in Uids : E[h][v] <= D[h][v]
    <2>1. ASSUME NEW h \in AllHashes, NEW v \in Uids PROVE E[h][v] <= D[h][v]
      <3>1. Gathered(rows, h, v) \in Nat /\ D[h][v] \in Nat
        BY LedgerFact DEF Gathered
      <3>2. E[h][v] = D[h][v] - Gathered(rows, h, v)
        OBVIOUS
      <3> QED BY <3>1, <3>2
    <2> QED BY <2>1
  <1>6. Exact(d, E)
    BY <1>3, <1>4, <1>5, ExactSettled
  <1>7. \A h \in DOMAIN d : HasEmbedding(c, h) => HasEmbedding(d, h)
    BY <1>1 DEF HasEmbedding
  <1> QED BY <1>6, <1>7 DEF d

(* A request gives up its claims.                                          *)
LEMMA ExactRelease ==
    ASSUME NEW D \in Ledgers, NEW c, Exact(c, D),
           NEW u \in Uids, NEW hashes,
           NEW E \in Ledgers,
           \A h \in AllHashes, v \in Uids :
               E[h][v] = IF v = u /\ h \in hashes THEN 0 ELSE D[h][v]
    PROVE  /\ Exact(Release(c, u, hashes), E)
           /\ \A h \in DOMAIN Release(c, u, hashes) :
                 HasEmbedding(c, h) => HasEmbedding(Release(c, u, hashes), h)
  <1> DEFINE d == Release(c, u, hashes)
             L(h, v) == IF v = u /\ h \in hashes THEN 0 ELSE c[h].remaining[v]
  <1>1. /\ DOMAIN d = {h \in DOMAIN c :
                         {v \in DOMAIN c[h].remaining : L(h, v) > 0} # {}}
        /\ \A h \in DOMAIN d :
             /\ d[h].stored = c[h].stored
             /\ d[h].remaining = [w \in {v \in DOMAIN c[h].remaining : L(h, v) > 0} |->
                                    L(h, w)]
    BY DEF Release, Settled
  <1> HIDE DEF d
  <1>2. ASSUME NEW h \in DOMAIN c
        PROVE  h \in AllHashes /\ \A v \in DOMAIN c[h].remaining : v \in Uids /\ L(h, v) = E[h][v]
    <2>1. h \in AllHashes /\ DOMAIN c[h].remaining = Holding(D, h) /\ Says(c[h].remaining, D[h])
      BY ExactFact
    <2>2. Holding(D, h) \subseteq Uids
      BY <2>1, LedgerFact
    <2>3. ASSUME NEW v \in DOMAIN c[h].remaining PROVE v \in Uids /\ L(h, v) = E[h][v]
      <3>1. v \in Uids
        BY <2>1, <2>2
      <3>2. c[h].remaining[v] = D[h][v]
        BY <2>1 DEF Says
      <3> QED BY <2>1, <3>1, <3>2
    <2> QED BY <2>1, <2>3
  <1> HIDE DEF L
  <1>3. /\ DOMAIN d \subseteq DOMAIN c
        /\ \A h \in DOMAIN c :
              h \in DOMAIN d <=> \E v \in DOMAIN c[h].remaining : E[h][v] > 0
    BY <1>1, <1>2
  <1>4. ASSUME NEW h \in DOMAIN d
        PROVE  /\ DOMAIN d[h].remaining \subseteq DOMAIN c[h].remaining
               /\ \A v \in DOMAIN c[h].remaining :
                     v \in DOMAIN d[h].remaining <=> E[h][v] > 0
               /\ Says(d[h].remaining, E[h])
    <2>1. h \in DOMAIN c
      BY <1>1
    <2>2. PICK S : S = {v \in DOMAIN c[h].remaining : L(h, v) > 0}
      OBVIOUS
    <2>3. PICK r : r = d[h].remaining
      OBVIOUS
    <2>4. r = [v \in S |-> L(h, v)]
      BY <1>1, <2>2, <2>3
    <2>5. S = {v \in DOMAIN c[h].remaining : E[h][v] > 0}
      BY <1>2, <2>1, <2>2
    <2>6. DOMAIN r = S /\ \A v \in S : r[v] = L(h, v)
      BY ONLY <2>4
    <2>7. \A v \in S : r[v] = E[h][v]
      BY <1>2, <2>1, <2>2, <2>6
    <2>8. r = [v \in DOMAIN r |-> r[v]]
      BY ONLY <2>4
    <2> QED BY <2>3, <2>5, <2>6, <2>7, <2>8 DEF Says
  <1>5. \A h \in AllHashes, v \in Uids : E[h][v] <= D[h][v]
    <2>1. ASSUME NEW h \in AllHashes, NEW v \in Uids PROVE E[h][v] <= D[h][v]
      <3>1. D[h][v] \in Nat
        BY LedgerFact
      <3> QED BY <3>1
    <2> QED BY <2>1
  <1>6. Exact(d, E)
    BY <1>3, <1>4, <1>5, ExactSettled
  <1>7. \A h \in DOMAIN d : HasEmbedding(c, h) => HasEmbedding(d, h)
    BY <1>1 DEF HasEmbedding
  <1> QED BY <1>6, <1>7 DEF d

-----------------------------------------------------------------------------
(* The rows of an image: those of a chunk and those after it.              *)

LEMMA PositionsFact ==
    ASSUME NEW u \in Uids, NEW h
    PROVE  /\ IsFiniteSet(Positions(ImagesOf(u, h)))
           /\ \A p \in Positions(ImagesOf(u, h)) : p \in Nat /\ p < InputLen(u)
           /\ h \notin Hashes(u) => Positions(ImagesOf(u, h)) = {}
  <1>1. InputLen(u) \in Nat
    BY PromptAssumption, LenProperties DEF InputLen
  <1>2. ASSUME NEW p \in Positions(ImagesOf(u, h))
        PROVE  p \in Nat /\ p < InputLen(u) /\ h \in Hashes(u)
    <2>1. PICK item \in Items[u] : /\ item.hash = h
                                   /\ \E s \in item.spans : p \in s[1] .. s[2] - 1
      BY DEF Positions, ImagesOf
    <2>2. PICK s \in item.spans : p \in s[1] .. s[2] - 1
      BY <2>1
    <2>3. s[1] \in Nat /\ s[2] \in Nat /\ s[2] <= InputLen(u)
      BY SpansAssumption DEF InputLen
    <2> QED BY <1>1, <2>1, <2>2, <2>3 DEF Hashes
  <1>3. Positions(ImagesOf(u, h)) \subseteq 0 .. InputLen(u)
    BY <1>1, <1>2
  <1>4. IsFiniteSet(0 .. InputLen(u))
    BY <1>1, FS_Interval
  <1> QED BY <1>2, <1>3, <1>4, FS_Subset

LEMMA RowsFact ==
    ASSUME NEW u \in Uids, NEW h, NEW lo \in Nat, NEW hi \in Nat, lo <= hi
    PROVE  LET I == ImagesOf(u, h)
           IN /\ RowsAfter(I, lo) \in Nat /\ RowsIn(I, lo, hi) \in Nat
              /\ RowsAfter(I, hi) \in Nat
              /\ RowsAfter(I, lo) = RowsIn(I, lo, hi) + RowsAfter(I, hi)
              /\ InputLen(u) <= lo \/ h \notin Hashes(u) => RowsAfter(I, lo) = 0
  <1>1. PICK P : P = Positions(ImagesOf(u, h))
    OBVIOUS
  <1>2. IsFiniteSet(P) /\ \A p \in P : p \in Nat /\ p < InputLen(u)
    BY <1>1, PositionsFact
  <1>3. PICK A : A = {p \in P : lo <= p}
    OBVIOUS
  <1>4. PICK B : B = P \cap lo .. hi - 1
    OBVIOUS
  <1>5. PICK C : C = {p \in P : hi <= p}
    OBVIOUS
  <1>6. A \subseteq P /\ B \subseteq P /\ C \subseteq P
    BY <1>3, <1>4, <1>5
  <1>7. IsFiniteSet(A) /\ IsFiniteSet(B) /\ IsFiniteSet(C)
    BY <1>2, <1>6, FS_Subset
  <1>8. A = B \cup C /\ B \cap C = {}
    BY <1>2, <1>3, <1>4, <1>5
  <1>9. Cardinality(B \cup C) = Cardinality(B) + Cardinality(C)
    BY <1>7, <1>8, DisjointUnion
  <1>10. Cardinality(A) \in Nat /\ Cardinality(B) \in Nat /\ Cardinality(C) \in Nat
    BY <1>7, FS_CardinalityType
  <1>11. Cardinality({}) = 0
    BY FS_EmptySet
  <1>12. Cardinality(A) = Cardinality(B) + Cardinality(C)
    BY <1>8, <1>9
  <1>13. ASSUME InputLen(u) <= lo \/ h \notin Hashes(u) PROVE A = {}
    <2>1. CASE h \notin Hashes(u)
      BY <1>1, <1>3, <2>1, PositionsFact
    <2>2. CASE InputLen(u) <= lo
      <3>1. InputLen(u) \in Nat
        BY PromptAssumption, LenProperties DEF InputLen
      <3> QED BY <1>2, <1>3, <2>2, <3>1
    <2> QED BY <1>13, <2>1, <2>2
  <1>14. /\ RowsAfter(ImagesOf(u, h), lo) = Cardinality(A)
         /\ RowsIn(ImagesOf(u, h), lo, hi) = Cardinality(B)
         /\ RowsAfter(ImagesOf(u, h), hi) = Cardinality(C)
    BY <1>1, <1>3, <1>4, <1>5 DEF RowsAfter, RowsIn
  <1> QED BY <1>10, <1>11, <1>12, <1>13, <1>14

OwedMap == [h \in AllHashes |-> [u \in Uids |-> Owed(u, h)]]

OwedOK ==
    /\ OwedMap \in Ledgers
    /\ \A h \in AllHashes, u \in Uids : OwedMap[h][u] = Owed(u, h)
    /\ \A u \in Uids : \A h \in AllHashes :
         /\ Owed(u, h) \in Nat
         /\ h \notin Hashes(u) => Owed(u, h) = 0
         /\ InputLen(u) <= cached[u] => Owed(u, h) = 0

LEMMA OwedFact ==
    ASSUME TypeOK
    PROVE  OwedOK /\ \A u \in Uids : Hashes(u) \subseteq AllHashes
  <1>1. ASSUME NEW u \in Uids, NEW h
        PROVE  /\ Owed(u, h) \in Nat
               /\ h \notin Hashes(u) => Owed(u, h) = 0
               /\ InputLen(u) <= cached[u] => Owed(u, h) = 0
    <2>1. cached[u] \in Nat /\ cached[u] <= cached[u]
      BY DEF TypeOK
    <2> QED BY <2>1, RowsFact DEF Owed
  <1>2. OwedMap \in Ledgers
    BY <1>1 DEF OwedMap, Ledgers
  <1>3. \A h \in AllHashes, u \in Uids : OwedMap[h][u] = Owed(u, h)
    BY DEF OwedMap
  <1> QED BY <1>1, <1>2, <1>3 DEF AllHashes, OwedOK

ClaimsOK == ClaimsExact <=> phase # "encoder" /\ Exact(encoder, OwedMap)

LEMMA ClaimsFact == ASSUME TypeOK PROVE ClaimsOK
  <1>1. /\ OwedMap \in Ledgers
        /\ \A h \in AllHashes, u \in Uids : OwedMap[h][u] = Owed(u, h)
    BY OwedFact DEF OwedOK
  <1> DEFINE Owing(h) == {u \in Uids : Owed(u, h) > 0}
  <1>2. ASSUME NEW h \in AllHashes PROVE Holding(OwedMap, h) = Owing(h)
    BY <1>1, LedgerFact
  <1>3. DOMAIN OwedMap = AllHashes
    BY <1>1, LedgerFact
  <1>4. ASSUME NEW h \in AllHashes, NEW r
        PROVE  (DOMAIN r = Owing(h) /\ Says(r, OwedMap[h]))
                 <=> (r = [u \in Owing(h) |-> Owed(u, h)])
    <2>1. PICK S : S = Owing(h)
      OBVIOUS
    <2>2. S \subseteq Uids /\ \A u \in S : OwedMap[h][u] = Owed(u, h)
      BY <1>1, <2>1
    <2>3. ASSUME DOMAIN r = S, Says(r, OwedMap[h])
          PROVE  r = [u \in S |-> Owed(u, h)]
      BY <2>2, <2>3 DEF Says
    <2>4. ASSUME r = [u \in S |-> Owed(u, h)]
          PROVE  DOMAIN r = S /\ Says(r, OwedMap[h])
      BY <2>2, <2>4 DEF Says
    <2> QED BY <2>1, <2>3, <2>4
  <1>5. ASSUME ClaimsExact PROVE phase # "encoder" /\ Exact(encoder, OwedMap)
    <2>1. /\ phase # "encoder"
          /\ DOMAIN encoder = {h \in AllHashes : Owing(h) # {}}
          /\ \A h \in DOMAIN encoder : encoder[h].remaining = [u \in Owing(h) |-> Owed(u, h)]
      BY <1>5 DEF ClaimsExact, AllHashes
    <2> HIDE DEF Owing
    <2>2. DOMAIN encoder = {h \in DOMAIN OwedMap : Holding(OwedMap, h) # {}}
      BY <1>2, <1>3, <2>1
    <2>3. ASSUME NEW h \in DOMAIN encoder
          PROVE  /\ DOMAIN encoder[h].remaining = Holding(OwedMap, h)
                 /\ Says(encoder[h].remaining, OwedMap[h])
      <3>1. h \in AllHashes /\ encoder[h].remaining = [u \in Owing(h) |-> Owed(u, h)]
        BY <2>1
      <3>2. DOMAIN encoder[h].remaining = Owing(h) /\ Says(encoder[h].remaining, OwedMap[h])
        BY <1>4, <3>1
      <3> QED BY <1>2, <3>1, <3>2
    <2> QED BY <2>1, <2>2, <2>3 DEF Exact
  <1>6. ASSUME phase # "encoder", Exact(encoder, OwedMap) PROVE ClaimsExact
    <2>1. /\ DOMAIN encoder = {h \in DOMAIN OwedMap : Holding(OwedMap, h) # {}}
          /\ \A h \in DOMAIN encoder : /\ DOMAIN encoder[h].remaining = Holding(OwedMap, h)
                                       /\ Says(encoder[h].remaining, OwedMap[h])
      BY <1>6 DEF Exact
    <2> HIDE DEF Owing
    <2>2. DOMAIN encoder = {h \in AllHashes : Owing(h) # {}}
      BY <1>2, <1>3, <2>1
    <2>3. ASSUME NEW h \in DOMAIN encoder
          PROVE  encoder[h].remaining = [u \in Owing(h) |-> Owed(u, h)]
      <3>1. h \in AllHashes
        BY <2>2
      <3>2. DOMAIN encoder[h].remaining = Owing(h) /\ Says(encoder[h].remaining, OwedMap[h])
        BY <1>2, <2>1, <3>1
      <3> QED BY <1>4, <3>1, <3>2
    <2> USE DEF Owing
    <2> QED BY <1>6, <2>2, <2>3 DEF ClaimsExact, AllHashes
  <1> QED BY <1>5, <1>6 DEF ClaimsOK

LEMMA ClaimsNext == TypeOK' => OwedOK' /\ ClaimsOK'
  <1>1. TypeOK => OwedOK /\ ClaimsOK
    BY OwedFact, ClaimsFact
  <1> QED BY <1>1, PTL

(* Nothing of the images moves.                                            *)
LEMMA ClaimsKept ==
    ASSUME TypeOK, TypeOK', ClaimsInv, encoder' = encoder, features' = features,
           phase' # "encoder",
           \A u \in Uids : status'[u] = "new" => status[u] = "new",
           \A u \in Uids : \A h \in AllHashes : Owed(u, h)' = Owed(u, h),
           LaunchedOK'
    PROVE  ClaimsInv'
  <1>1. \A u \in Uids : Hashes(u) \subseteq AllHashes
    BY OwedFact
  <1>2. OwedMap' = OwedMap
    BY DEF OwedMap, AllHashes, Hashes
  <1>3. Exact(encoder, OwedMap)
    BY ClaimsFact DEF ClaimsInv, ClaimsOK
  <1>4. ClaimsOK'
    BY ClaimsNext
  <1>5. ClaimsExact'
    BY <1>2, <1>3, <1>4 DEF ClaimsOK, Exact, Says, Holding
  <1>6. ASSUME NEW u \in Uids, NEW h \in Hashes(u),
               status'[u] = "new" \/ Owed(u, h)' > 0
        PROVE  \/ <<u, h>> \in features'
               \/ status'[u] # "new" /\ HasEmbedding(encoder, h)'
    <2>1. status[u] = "new" \/ Owed(u, h) > 0
      BY <1>1, <1>6
    <2>2. <<u, h>> \in features \/ (status[u] # "new" /\ HasEmbedding(encoder, h))
      BY <2>1 DEF ClaimsInv, FeaturesKept
    <2> QED BY <2>2 DEF HasEmbedding
  <1>7. FeaturesKept'
    BY <1>6 DEF FeaturesKept
  <1> QED BY <1>5, <1>7 DEF ClaimsInv

(* Continue, Refuse and stuttering.                                        *)
LEMMA ContinueClaims ==
    ASSUME IInv, IInv', ClaimsInv, NEW u \in Uids, Continue(u)
    PROVE  ClaimsInv'
  <1>1. TypeOK /\ TypeOK' /\ BatchesOK /\ LaunchedOK /\ phase # "encoder"
    BY DEF IInv, ClaimsInv, ClaimsExact
  <1>2. /\ phase = "sched" /\ phase' = phase /\ last' = last /\ todo' = todo
        /\ status' = status /\ aborted' = aborted /\ cached' = cached
        /\ encoder' = encoder /\ features' = features
        /\ ongoing'.reqs = ongoing.reqs \cup {u} /\ status[u] = "active"
    BY DEF Continue, AddOneReq, mmVars, Chunked, Active
  <1>3. \A v \in Uids : \A h \in AllHashes : Owed(v, h)' = Owed(v, h)
    BY <1>2 DEF Owed, Active, ImagesOf
  <1>4. LaunchedOK'
    BY <1>1, <1>2 DEF LaunchedOK, PromptDone, InputLen
  <1> QED BY <1>1, <1>2, <1>3, <1>4, ClaimsKept

LEMMA SameClaims ==
    ASSUME IInv, IInv', ClaimsInv,
           UNCHANGED <<phase, last, ongoing, todo, status, aborted, cached, mmVars>>
    PROVE  ClaimsInv'
  <1>1. TypeOK /\ TypeOK' /\ LaunchedOK /\ phase # "encoder"
    BY DEF IInv, ClaimsInv, ClaimsExact
  <1>2. \A v \in Uids : \A h \in AllHashes : Owed(v, h)' = Owed(v, h)
    BY DEF Owed, Active, ImagesOf
  <1>3. LaunchedOK'
    BY <1>1 DEF LaunchedOK, PromptDone, InputLen
  <1>4. encoder' = encoder /\ features' = features
    BY DEF mmVars
  <1> QED BY <1>1, <1>2, <1>3, <1>4, ClaimsKept

LEMMA EndDrainClaims ==
    ASSUME IInv, IInv', ClaimsInv, EndDrain
    PROVE  ClaimsInv'
  <1>1. TypeOK /\ TypeOK' /\ LaunchedOK
    BY DEF IInv, ClaimsInv
  <1>2. /\ phase = "drain" /\ phase' = "sched" /\ todo = {} /\ todo' = todo
        /\ ongoing' = NoBatch /\ (last' = ongoing \/ last' = NoBatch)
        /\ status' = status /\ aborted' = aborted /\ cached' = cached
        /\ encoder' = encoder /\ features' = features
    BY DEF EndDrain, reqVars, mmVars
  <1>3. \A v \in Uids : \A h \in AllHashes : Owed(v, h)' = Owed(v, h)
    BY <1>2 DEF Owed, Active, ImagesOf
  <1>4. NoBatch.reqs = {}
    BY DEF NoBatch
  <1>5. LaunchedOK'
    BY <1>1, <1>2, <1>4 DEF LaunchedOK, PromptDone, InputLen
  <1> QED BY <1>1, <1>2, <1>3, <1>5, ClaimsKept

(* Whoever finishes in a drain has its prompt done or was aborted.         *)
LEMMA DrainClaims ==
    ASSUME IInv, IInv', ClaimsInv, NEW u \in Uids, Drain(u)
    PROVE  ClaimsInv'
  <1>1. TypeOK /\ TypeOK' /\ LaunchedOK
    BY DEF IInv, ClaimsInv
  <1>2. /\ phase = "drain" /\ phase' = phase /\ todo' \subseteq todo /\ u \in todo
        /\ ongoing' = ongoing /\ last' = last
        /\ aborted' = aborted /\ cached' = cached
        /\ encoder' = encoder /\ features' = features
    BY DEF Drain, Done, mmVars
  <1>3. \/ status' = status
        \/ /\ status' = [status EXCEPT ![u] = "done"]
           /\ u \in aborted \/ u \notin last.chunked
    BY DEF Drain, DrainNothing, DrainFinish, DrainGoOn, Finish
  <1>4. ASSUME NEW v \in Uids
        PROVE  /\ status'[v] = status[v] \/ status'[v] = "done"
               /\ v # u => status'[v] = status[v]
    BY <1>1, <1>3 DEF TypeOK
  <1>5. ASSUME NEW v \in Uids, NEW h \in AllHashes
        PROVE  Owed(v, h)' = Owed(v, h)
    <2>1. v \in Active' => v \in Active
      BY <1>4 DEF Active
    <2>2. CASE status'[v] = status[v]
      BY <1>2, <2>2 DEF Owed, Active, ImagesOf
    <2>3. CASE status'[v] # status[v]
      <3>1. v = u /\ status'[u] = "done" /\ (u \in aborted \/ u \notin last.chunked)
        BY <1>3, <1>4, <2>3
      <3>2. Owed(v, h)' = 0
        BY <3>1 DEF Owed, Active
      <3>3. Owed(v, h) = 0
        <4>1. CASE v \in aborted
          BY <4>1 DEF Owed
        <4>2. CASE v \notin aborted
          <5>1. InputLen(v) <= cached[v]
            BY <1>1, <1>2, <3>1, <4>2 DEF LaunchedOK, PromptDone
          <5> QED BY <1>1, <5>1, OwedFact DEF OwedOK
        <4> QED BY <4>1, <4>2
      <3> QED BY <3>2, <3>3
    <2> QED BY <2>2, <2>3
  <1>6. LaunchedOK'
    <2>1. \A v \in last.reqs \cup ongoing.reqs : v \in Uids
      BY <1>1 DEF TypeOK, Batches
    <2> QED BY <1>1, <1>2, <1>4, <2>1 DEF LaunchedOK, PromptDone, InputLen
  <1> QED BY <1>1, <1>2, <1>4, <1>5, <1>6, ClaimsKept

(* An abort owes nothing any more, in flight or not.                       *)
LEMMA AbortClaims ==
    ASSUME IInv, IInv', ClaimsInv, NEW u \in Uids, Abort(u)
    PROVE  ClaimsInv'
  <1>1. TypeOK /\ TypeOK' /\ LaunchedOK /\ BatchesOK /\ phase # "encoder"
    BY DEF IInv, ClaimsInv, ClaimsExact
  <1>2. /\ phase = "sched" /\ phase' = phase /\ ongoing = NoBatch /\ ongoing' = ongoing
        /\ last' = last /\ todo' = todo /\ cached' = cached /\ features' = features
        /\ encoder' = Release(encoder, u, Hashes(u)) /\ u \in Active
    BY <1>1 DEF Abort, Released, Chunked, BatchesOK
  <1>3. \/ status' = status /\ aborted' = aborted \cup {u}
        \/ status' = [status EXCEPT ![u] = "done"] /\ aborted' = aborted
    BY DEF Abort, Finish
  <1>4. ASSUME NEW v \in Uids
        PROVE  /\ status'[v] = "new" <=> status[v] = "new"
               /\ v # u => (v \in (Active \ aborted)' <=> v \in Active \ aborted)
               /\ v = u => v \notin (Active \ aborted)'
    BY <1>1, <1>2, <1>3 DEF TypeOK, Active
  <1>5. \A v \in Uids \ {u} : \A h \in AllHashes : Owed(v, h)' = Owed(v, h)
    BY <1>2, <1>4 DEF Owed, ImagesOf
  <1>6. \A h \in AllHashes : Owed(u, h)' = 0
    BY <1>4 DEF Owed
  <1>7. OwedOK /\ OwedOK' /\ ClaimsOK /\ ClaimsOK'
    BY <1>1, OwedFact, ClaimsFact, ClaimsNext
  <1>8. OwedMap \in Ledgers /\ OwedMap' \in Ledgers
    BY <1>7 DEF OwedOK, Ledgers, AllHashes, Hashes
  <1>9. ASSUME NEW h \in AllHashes, NEW v \in Uids
        PROVE  OwedMap'[h][v] = IF v = u /\ h \in Hashes(u) THEN 0 ELSE OwedMap[h][v]
    <2>1. OwedMap[h][v] = Owed(v, h) /\ OwedMap'[h][v] = Owed(v, h)'
      BY <1>7 DEF OwedOK, AllHashes, Hashes
    <2>2. CASE v = u
      <3>1. Owed(v, h)' = 0
        BY <1>6, <2>2
      <3>2. h \notin Hashes(u) => Owed(v, h) = 0
        BY <1>7, <2>2 DEF OwedOK
      <3> QED BY <2>1, <2>2, <3>1, <3>2
    <2>3. CASE v # u
      BY <1>5, <2>1, <2>3
    <2> QED BY <2>2, <2>3
  <1>10. Exact(encoder, OwedMap)
    BY <1>7 DEF ClaimsOK, ClaimsInv
  <1>11. PICK E : E = OwedMap'
    OBVIOUS
  <1>12. PICK d : d = Release(encoder, u, Hashes(u))
    OBVIOUS
  <1>13. E \in Ledgers /\ \A h \in AllHashes, v \in Uids :
           E[h][v] = IF v = u /\ h \in Hashes(u) THEN 0 ELSE OwedMap[h][v]
    BY <1>8, <1>9, <1>11
  <1>14. /\ Exact(d, E)
         /\ \A h \in DOMAIN d : HasEmbedding(encoder, h) => HasEmbedding(d, h)
    BY <1>8, <1>10, <1>12, <1>13, ExactRelease
  <1>15. ClaimsExact'
    BY <1>1, <1>2, <1>7, <1>11, <1>12, <1>14 DEF ClaimsOK, Exact, Says, Holding
  <1>16. ASSUME NEW v \in Uids, NEW h \in Hashes(v),
                status'[v] = "new" \/ Owed(v, h)' > 0
         PROVE  \/ <<v, h>> \in features'
                \/ status'[v] # "new" /\ HasEmbedding(encoder, h)'
    <2>1. h \in AllHashes
      BY DEF AllHashes
    <2>2. status[v] = "new" \/ Owed(v, h) > 0
      BY <1>4, <1>5, <1>6, <1>16, <2>1
    <2>3. <<v, h>> \in features \/ (status[v] # "new" /\ HasEmbedding(encoder, h))
      BY <2>2 DEF ClaimsInv, FeaturesKept
    <2>4. CASE <<v, h>> \in features
      BY <1>2, <2>4
    <2>5. CASE status[v] # "new" /\ HasEmbedding(encoder, h)
      <3>1. Owed(v, h)' > 0
        BY <1>4, <1>16, <2>5
      <3>2. E[h][v] = Owed(v, h)'
        BY <1>7, <1>11, <2>1 DEF OwedOK, AllHashes, Hashes
      <3>3. h \in DOMAIN d
        BY <1>13, <1>14, <2>1, <3>1, <3>2, ExactClaim
      <3>4. HasEmbedding(encoder', h)
        BY <1>2, <1>12, <1>14, <2>5, <3>3
      <3> QED BY <1>4, <2>5, <3>4 DEF HasEmbedding
    <2> QED BY <2>3, <2>4, <2>5
  <1>17. FeaturesKept'
    BY <1>16 DEF FeaturesKept, Hashes
  <1>18. LaunchedOK'
    <2>1. \A v \in last.reqs \cup ongoing.reqs : v \in Uids
      BY <1>1 DEF TypeOK, Batches
    <2>2. aborted \subseteq aborted'
      BY <1>3
    <2> QED BY <1>1, <1>2, <1>4, <2>1, <2>2 DEF LaunchedOK, PromptDone, InputLen
  <1> QED BY <1>15, <1>17, <1>18 DEF ClaimsInv

(* Nothing was owed before the admission; everything past the match is.    *)
LEMMA AdmitClaims ==
    ASSUME IInv, IInv', PendingOK, ClaimsInv, NEW u \in Uids, Admit(u)
    PROVE  ClaimsInv'
  <1>1. TypeOK /\ TypeOK' /\ LaunchedOK /\ BatchesOK /\ phase # "encoder"
    BY DEF IInv, ClaimsInv, ClaimsExact
  <1>2. /\ phase = "sched" /\ phase' = phase /\ status[u] = "new"
        /\ ongoing'.reqs = ongoing.reqs \cup {u}
        /\ last' = last /\ todo' = todo /\ aborted' = aborted
        /\ cached' = [cached EXCEPT ![u] = Len(handle'[u])]
        /\ status' = [status EXCEPT ![u] = "active"]
        /\ encoder' = Claimed(u) /\ features' = features
    BY DEF Admit, CanTry, AddOneReq
  <1>3. u \notin aborted /\ u \notin last.reqs /\ u \notin Active
    BY <1>1, <1>2 DEF PendingOK, LaunchedOK, Active
  <1>4. ASSUME NEW v \in Uids
        PROVE  /\ v # u => status'[v] = status[v] /\ cached'[v] = cached[v]
                           /\ (v \in Active' <=> v \in Active)
               /\ v = u => status'[v] = "active" /\ v \in Active'
    BY <1>1, <1>2 DEF TypeOK, Active
  <1>5. \A v \in Uids \ {u} : \A h \in AllHashes : Owed(v, h)' = Owed(v, h)
    BY <1>2, <1>4 DEF Owed, ImagesOf
  <1>6. \A h \in AllHashes : /\ Owed(u, h)' = RowsAfter(ImagesOf(u, h), cached'[u])
                             /\ Owed(u, h) = 0
    BY <1>2, <1>3, <1>4 DEF Owed, ImagesOf
  <1>7. OwedOK /\ OwedOK' /\ ClaimsOK /\ ClaimsOK' /\ Hashes(u) \subseteq AllHashes
    BY <1>1, OwedFact, ClaimsFact, ClaimsNext
  <1>8. OwedMap \in Ledgers /\ OwedMap' \in Ledgers
    BY <1>7 DEF OwedOK, Ledgers, AllHashes, Hashes
  <1>9. PICK rows : rows = [h \in Hashes(u) |-> RowsAfter(ImagesOf(u, h), cached'[u])]
    OBVIOUS
  <1>10. ASSUME NEW h \in AllHashes
         PROVE  /\ Owed(u, h)' \in Nat
                /\ h \in Hashes(u) => rows[h] = Owed(u, h)'
                /\ h \notin Hashes(u) => Owed(u, h)' = 0
    <2>1. Owed(u, h)' \in Nat /\ (h \notin Hashes(u) => Owed(u, h)' = 0)
      BY <1>7 DEF OwedOK, AllHashes, Hashes
    <2>2. h \in Hashes(u) => rows[h] = RowsAfter(ImagesOf(u, h), cached'[u])
      BY <1>9
    <2> QED BY <1>6, <2>1, <2>2
  <1>11. rows \in [Hashes(u) -> Nat]
    BY <1>7, <1>9, <1>10
  <1>12. PICK E : E = OwedMap'
    OBVIOUS
  <1>13. ASSUME NEW h \in AllHashes, NEW v \in Uids
         PROVE  /\ E[h][v] = IF v = u /\ h \in Hashes(u) THEN rows[h] ELSE OwedMap[h][v]
                /\ E[h][v] = Owed(v, h)' /\ OwedMap[h][v] = Owed(v, h)
    <2>1. OwedMap[h][v] = Owed(v, h) /\ E[h][v] = Owed(v, h)'
      BY <1>7, <1>12 DEF OwedOK, AllHashes, Hashes
    <2>2. CASE v = u
      BY <1>6, <1>10, <2>1, <2>2
    <2>3. CASE v # u
      BY <1>5, <2>1, <2>3
    <2> QED BY <2>1, <2>2, <2>3
  <1>14. Exact(encoder, OwedMap) /\ E \in Ledgers
    BY <1>7, <1>8, <1>12 DEF ClaimsOK, ClaimsInv
  <1>15. PICK d : d = Register(encoder, u, rows)
    OBVIOUS
  <1>16. encoder' = d
    BY <1>2, <1>9, <1>15 DEF Claimed, FirstRow
  <1>17. /\ Exact(d, E)
         /\ \A h \in DOMAIN encoder : HasEmbedding(encoder, h) => HasEmbedding(d, h)
    <2>1. \A h \in AllHashes : OwedMap[h][u] = 0
      BY <1>6, <1>13
    <2>2. \A h \in AllHashes, v \in Uids :
            E[h][v] = IF v = u /\ h \in Hashes(u) THEN rows[h] ELSE OwedMap[h][v]
      BY <1>13
    <2> QED BY <1>7, <1>8, <1>11, <1>14, <1>15, <2>1, <2>2, ExactRegister
  <1>18. ClaimsExact'
    BY <1>1, <1>2, <1>7, <1>12, <1>16, <1>17 DEF ClaimsOK, Exact, Says, Holding
  <1>19. ASSUME NEW v \in Uids, NEW h \in Hashes(v),
                status'[v] = "new" \/ Owed(v, h)' > 0
         PROVE  \/ <<v, h>> \in features'
                \/ status'[v] # "new" /\ HasEmbedding(encoder, h)'
    <2>1. h \in AllHashes
      BY DEF AllHashes
    <2>2. CASE v = u
      BY <1>2, <2>2 DEF ClaimsInv, FeaturesKept
    <2>3. CASE v # u
      <3>1. status[v] = "new" \/ Owed(v, h) > 0
        BY <1>4, <1>5, <1>19, <2>1, <2>3
      <3>2. <<v, h>> \in features \/ (status[v] # "new" /\ HasEmbedding(encoder, h))
        BY <3>1 DEF ClaimsInv, FeaturesKept
      <3>3. HasEmbedding(encoder, h) => HasEmbedding(encoder, h)'
        BY <1>16, <1>17 DEF HasEmbedding
      <3> QED BY <1>2, <1>4, <2>3, <3>2, <3>3
    <2> QED BY <2>2, <2>3
  <1>20. FeaturesKept'
    BY <1>19 DEF FeaturesKept, Hashes
  <1>21. LaunchedOK'
    <2>1. last.reqs \subseteq Uids /\ ongoing.reqs \subseteq Uids
      BY <1>1 DEF TypeOK, Batches
    <2>2. \A v \in last'.reqs \cup ongoing'.reqs : status'[v] # "new"
      BY <1>1, <1>2, <1>4, <2>1 DEF LaunchedOK
    <2>3. PromptDone(last)'
      BY <1>1, <1>2, <1>3, <1>4, <2>1 DEF LaunchedOK, PromptDone, InputLen
    <2> QED BY <1>1, <1>2, <2>2, <2>3 DEF LaunchedOK
  <1> QED BY <1>18, <1>20, <1>21 DEF ClaimsInv

-----------------------------------------------------------------------------
(* The forward.  What a chunk gathers is part of what its request claims,  *)
(* and the rest is claimed after it.                                       *)

LEMMA GatherFact ==
    ASSUME IInv, PendingOK, phase = "sched", NEW us, us = Batch.reqs,
           NEW u \in us, NEW h \in AllHashes
    PROVE  /\ u \in Active /\ RowsToGather(<<u, h>>) \in Nat
           /\ RowsAfter(ImagesOf(u, h), device[u]) \in Nat
           /\ h \notin Hashes(u) => RowsToGather(<<u, h>>) = 0
           /\ u \in aborted => RowsToGather(<<u, h>>) = 0
           /\ u \notin aborted =>
                Owed(u, h) = RowsToGather(<<u, h>>)
                               + RowsAfter(ImagesOf(u, h), device[u])
  <1>1. TypeOK /\ LengthsOK /\ BatchesOK
    BY DEF IInv
  <1>2. u \in Active /\ u \in Uids
    BY <1>1, BatchFact, ActiveFinite
  <1>3. cached[u] \in Nat /\ device[u] \in Nat /\ cached[u] <= device[u]
    BY <1>1, <1>2, ReqFact
  <1>4. RowsToGather(<<u, h>>) = RowsIn(ImagesOf(u, h), cached[u], device[u])
    BY DEF RowsToGather
  <1>5. LET I == ImagesOf(u, h)
        IN /\ RowsAfter(I, cached[u]) \in Nat /\ RowsIn(I, cached[u], device[u]) \in Nat
           /\ RowsAfter(I, device[u]) \in Nat
           /\ RowsAfter(I, cached[u]) = RowsIn(I, cached[u], device[u])
                                          + RowsAfter(I, device[u])
           /\ InputLen(u) <= cached[u] \/ h \notin Hashes(u)
                => RowsAfter(I, cached[u]) = 0
    BY <1>2, <1>3, RowsFact
  <1>6. ASSUME InputLen(u) <= cached[u] \/ h \notin Hashes(u)
        PROVE  RowsToGather(<<u, h>>) = 0
    BY <1>4, <1>5, <1>6
  <1>7. ASSUME u \in aborted PROVE InputLen(u) <= cached[u]
    <2>1. u \notin ongoing.reqs
      BY <1>7 DEF PendingOK
    <2>2. u \in running
      BY <2>1 DEF Batch, NoBatch
    <2> QED BY <2>2 DEF PendingOK
  <1> QED BY <1>2, <1>4, <1>5, <1>6, <1>7 DEF Owed

(* Whatever a batch gathers is claimed, and encoded or encodable.          *)
LEMMA EncoderRuns ==
    ASSUME IInv, PendingOK, ClaimsInv, phase = "sched", NEW us, us = Batch.reqs
    PROVE  ~ EncoderFails(us)
  <1>1. TypeOK /\ BatchesOK /\ phase # "encoder"
    BY DEF IInv, ClaimsInv, ClaimsExact
  <1>2. us \subseteq Uids
    BY <1>1, BatchFact
  <1>3. ClaimsOK /\ OwedOK /\ Exact(encoder, OwedMap)
    BY <1>1, OwedFact, ClaimsFact DEF ClaimsOK, ClaimsInv
  <1>4. ASSUME NEW w \in Gathers(us)
        PROVE  /\ w \in Jobs(us) => w \in features
               /\ w[2] \in DOMAIN encoder
               /\ w[1] \in DOMAIN encoder[w[2]].remaining
               /\ ~ (encoder[w[2]].remaining[w[1]] < RowsToGather(w))
    <2>1. PICK u \in us : w \in {u} \X Hashes(u)
      BY DEF Gathers
    <2>2. PICK h \in Hashes(u) : w = <<u, h>>
      BY <2>1
    <2>3. RowsToGather(<<u, h>>) > 0
      BY <2>2 DEF Gathers
    <2>4. h \in AllHashes /\ u \in Uids
      BY <1>2 DEF AllHashes
    <2>5. /\ u \in Active /\ RowsToGather(<<u, h>>) \in Nat
          /\ RowsAfter(ImagesOf(u, h), device[u]) \in Nat
          /\ u \in aborted => RowsToGather(<<u, h>>) = 0
          /\ u \notin aborted =>
                Owed(u, h) = RowsToGather(<<u, h>>)
                               + RowsAfter(ImagesOf(u, h), device[u])
      BY <2>4, GatherFact
    <2>6. Owed(u, h) \in Nat /\ Owed(u, h) > 0 /\ Owed(u, h) >= RowsToGather(<<u, h>>)
      BY <2>3, <2>5
    <2>7. OwedMap \in Ledgers /\ OwedMap[h][u] = Owed(u, h)
      BY <1>3, <2>4 DEF OwedOK
    <2>8. /\ h \in DOMAIN encoder /\ u \in DOMAIN encoder[h].remaining
          /\ encoder[h].remaining[u] = Owed(u, h)
      BY <1>3, <2>4, <2>6, <2>7, ExactClaim
    <2>9. ~ (encoder[h].remaining[u] < RowsToGather(<<u, h>>))
      BY <2>5, <2>6, <2>8
    <2>10. w \in Jobs(us) => w \in features
      BY <2>2, <2>4, <2>6 DEF ClaimsInv, FeaturesKept, Jobs
    <2> QED BY <2>2, <2>8, <2>9, <2>10
  <1> QED BY <1>4 DEF EncoderFails, Jobs

LEMMA ForwardClaims ==
    ASSUME IInv, IInv', PendingOK, ClaimsInv, phase = "sched", NEW us, us = Batch.reqs,
           phase' = "drain", RunEncoder(us), CompleteOne(Batch), status' = status,
           aborted' = aborted,
           ongoing' = IF us = {} THEN NoBatch ELSE Batch,
           last' = IF Overlap THEN last ELSE ongoing', todo' = last'.reqs
    PROVE  ClaimsInv'
  <1>1. TypeOK /\ TypeOK' /\ LengthsOK /\ BatchesOK /\ LaunchedOK
    BY DEF IInv, ClaimsInv
  <1>2. us \subseteq Active /\ us \subseteq Uids /\ Active' = Active
    BY <1>1, BatchFact, ActiveFinite DEF Active
  <1>3. \A u \in Uids : cached'[u] = IF u \in us THEN device[u] ELSE cached[u]
    BY CompleteFact
  <1>4. OwedOK /\ OwedOK' /\ ClaimsOK /\ ClaimsOK' /\ \A u \in Uids : Hashes(u) \subseteq AllHashes
    BY <1>1, OwedFact, ClaimsFact, ClaimsNext
  <1>5. OwedMap \in Ledgers /\ OwedMap' \in Ledgers
    BY <1>4 DEF OwedOK, Ledgers, AllHashes, Hashes
  <1>6. PICK rows : rows = [w \in Gathers(us) |-> RowsToGather(w)]
    OBVIOUS
  <1>7. ASSUME NEW u \in us, NEW h \in AllHashes
        PROVE  Gathered(rows, h, u) = RowsToGather(<<u, h>>)
    <2>1. RowsToGather(<<u, h>>) \in Nat
          /\ (h \notin Hashes(u) => RowsToGather(<<u, h>>) = 0)
      BY GatherFact
    <2>2. <<u, h>> \in Gathers(us) <=> h \in Hashes(u) /\ RowsToGather(<<u, h>>) > 0
      BY DEF Gathers
    <2> QED BY <1>6, <2>1, <2>2 DEF Gathered
  <1>8. ASSUME NEW u \in Uids \ us, NEW h \in AllHashes
        PROVE  Gathered(rows, h, u) = 0
    <2>1. <<u, h>> \notin Gathers(us)
      BY DEF Gathers
    <2> QED BY <1>6, <2>1 DEF Gathered
  <1>9. ASSUME NEW h \in AllHashes, NEW u \in Uids
        PROVE  /\ Owed(u, h)' = Owed(u, h) - Gathered(rows, h, u)
               /\ Owed(u, h)' > 0 => Owed(u, h) > 0
    <2>1. CASE u \in us
      <3>1. /\ RowsToGather(<<u, h>>) \in Nat
            /\ RowsAfter(ImagesOf(u, h), device[u]) \in Nat
            /\ u \in aborted => RowsToGather(<<u, h>>) = 0
            /\ u \notin aborted =>
                 Owed(u, h) = RowsToGather(<<u, h>>)
                                + RowsAfter(ImagesOf(u, h), device[u])
        BY <2>1, GatherFact
      <3>2. Owed(u, h)' = IF u \in aborted THEN 0
                          ELSE RowsAfter(ImagesOf(u, h), device[u])
        BY <1>2, <1>3, <2>1 DEF Owed, ImagesOf
      <3>3. u \in aborted => Owed(u, h) = 0
        BY DEF Owed
      <3> QED BY <1>7, <2>1, <3>1, <3>2, <3>3
    <2>2. CASE u \notin us
      <3>1. Owed(u, h)' = Owed(u, h)
        BY <1>2, <1>3, <2>2 DEF Owed, ImagesOf
      <3>2. Owed(u, h) \in Nat
        BY <1>4 DEF OwedOK
      <3> QED BY <1>8, <2>2, <3>1, <3>2
    <2> QED BY <2>1, <2>2
  <1>10. PICK E : E = OwedMap'
    OBVIOUS
  <1>11. ASSUME NEW h \in AllHashes, NEW u \in Uids
         PROVE  /\ E[h][u] = OwedMap[h][u] - Gathered(rows, h, u)
                /\ E[h][u] = Owed(u, h)'
    <2>1. OwedMap[h][u] = Owed(u, h) /\ E[h][u] = Owed(u, h)'
      BY <1>4, <1>10 DEF OwedOK, AllHashes, Hashes
    <2> QED BY <1>9, <2>1
  <1>12. PICK P : P = Put(encoder, {w[2] : w \in Jobs(us)})
    OBVIOUS
  <1>13. PICK d : d = Consume(P, rows)
    OBVIOUS
  <1>14. encoder' = d /\ features' = features \ Jobs(us)
    BY <1>6, <1>12, <1>13 DEF RunEncoder
  <1>15. /\ Exact(P, OwedMap)
         /\ \A h : HasEmbedding(P, h) <=>
              h \in DOMAIN encoder
                /\ (encoder[h].stored \/ h \in {w[2] : w \in Jobs(us)})
    BY <1>4, <1>12, ExactPut DEF ClaimsOK, ClaimsInv
  <1>16. E \in Ledgers /\ \A w \in DOMAIN rows : rows[w] \in Nat
    <2>1. ASSUME NEW w \in Gathers(us) PROVE RowsToGather(w) \in Nat
      <3>1. PICK u \in us : w \in {u} \X Hashes(u)
        BY DEF Gathers
      <3>2. PICK h \in Hashes(u) : w = <<u, h>>
        BY <3>1
      <3>3. h \in AllHashes
        BY <1>2, <1>4
      <3> QED BY <3>2, <3>3, GatherFact
    <2> QED BY <1>5, <1>6, <1>10, <2>1
  <1>17. /\ Exact(d, E)
         /\ \A h \in DOMAIN d : HasEmbedding(P, h) => HasEmbedding(d, h)
    <2>1. \A h \in AllHashes, u \in Uids : E[h][u] = OwedMap[h][u] - Gathered(rows, h, u)
      BY <1>11
    <2> QED BY <1>5, <1>13, <1>15, <1>16, <2>1, ExactConsume
  <1>18. ClaimsExact'
    BY <1>4, <1>10, <1>14, <1>17 DEF ClaimsOK, Exact, Says, Holding
  <1>19. ASSUME NEW u \in Uids, NEW h \in Hashes(u),
                status'[u] = "new" \/ Owed(u, h)' > 0
         PROVE  \/ <<u, h>> \in features'
                \/ status'[u] # "new" /\ HasEmbedding(encoder, h)'
    <2>1. h \in AllHashes
      BY <1>4
    <2>2. status[u] = "new" \/ Owed(u, h) > 0
      BY <1>9, <1>19, <2>1
    <2>3. <<u, h>> \in features \/ (status[u] # "new" /\ HasEmbedding(encoder, h))
      BY <2>2 DEF ClaimsInv, FeaturesKept
    <2>4. ASSUME Owed(u, h)' > 0
          PROVE  /\ h \in DOMAIN d /\ h \in DOMAIN encoder
                 /\ (encoder[h].stored \/ h \in {w[2] : w \in Jobs(us)})
                      => HasEmbedding(encoder, h)'
      <3>1. h \in DOMAIN d
        BY <1>11, <1>16, <1>17, <2>1, <2>4, ExactClaim
      <3>2. Owed(u, h) > 0 /\ OwedMap[h][u] = Owed(u, h)
        BY <1>4, <1>9, <2>1, <2>4 DEF OwedOK
      <3>3. Exact(encoder, OwedMap)
        BY <1>4 DEF ClaimsOK, ClaimsInv
      <3>4. h \in DOMAIN encoder
        BY <1>5, <2>1, <3>2, <3>3, ExactClaim
      <3>5. HasEmbedding(d, h) => HasEmbedding(encoder, h)'
        BY <1>14 DEF HasEmbedding
      <3> QED BY <1>15, <1>17, <3>1, <3>4, <3>5
    <2>5. CASE <<u, h>> \in features \ Jobs(us)
      BY <1>14, <2>5
    <2>6. CASE <<u, h>> \in Jobs(us)
      <3>1. u \in us
        BY <2>6 DEF Jobs, Gathers
      <3>2. status'[u] # "new"
        BY <1>2, <3>1 DEF Active
      <3>3. h \in {w[2] : w \in Jobs(us)}
        BY <2>6
      <3> QED BY <1>19, <2>4, <3>2, <3>3
    <2>7. CASE status[u] # "new" /\ HasEmbedding(encoder, h)
      <3>1. Owed(u, h)' > 0
        BY <1>19, <2>7
      <3> QED BY <2>4, <2>7, <3>1 DEF HasEmbedding
    <2> QED BY <2>3, <2>5, <2>6, <2>7
  <1>20. FeaturesKept'
    BY <1>19 DEF FeaturesKept, Hashes
  <1>21. LaunchedOK'
    <2>1. PICK b : b = Batch
      OBVIOUS
    <2>2. \A u \in b.reqs : u \in Active /\ u \in Uids
      BY <1>2, <2>1
    <2>3. ASSUME NEW u \in b.reqs \ b.chunked PROVE InputLen(u) <= device[u]
      <3>1. device[u] \in Nat /\ cached[u] \in Nat /\ cached[u] <= device[u]
            /\ InputLen(u) \in Nat
        BY <1>1, <2>2, ReqFact
      <3>2. CASE ongoing.prefill
        <4>1. b = ongoing
          BY <2>1, <3>2 DEF Batch
        <4>2. ~ (device[u] < InputLen(u))
          BY <1>1, <4>1 DEF BatchesOK
        <4> QED BY <3>1, <4>2
      <3>3. CASE ~ ongoing.prefill
        <4>1. u \in running
          BY <2>1, <3>3 DEF Batch, NoBatch
        <4>2. InputLen(u) <= cached[u]
          BY <4>1 DEF PendingOK
        <4> QED BY <3>1, <4>2
      <3> QED BY <3>2, <3>3
    <2>4. last.reqs \subseteq Uids
      BY <1>1 DEF TypeOK, Batches
    <2>5. \A u \in Uids : cached[u] \in Nat /\ device[u] \in Nat /\ cached[u] <= device[u]
                          /\ InputLen(u) \in Nat
      BY <1>1, ReqFact
    <2>6. NoBatch.reqs = {}
      BY DEF NoBatch
    <2>7. PromptDone(ongoing)'
      <3>1. ASSUME NEW u \in ongoing'.reqs \ (ongoing'.chunked \cup aborted')
            PROVE  InputLen(u) <= cached'[u]
        <4>1. ongoing' = b
          BY <2>1, <2>6, <3>1
        <4> QED BY <1>3, <2>1, <2>2, <2>3, <3>1, <4>1
      <3> QED BY <3>1 DEF PromptDone, InputLen
    <2>8. PromptDone(last)'
      <3>1. CASE ~ Overlap
        BY <2>7, <3>1 DEF PromptDone, InputLen
      <3>2. CASE Overlap
        <4>1. ASSUME NEW u \in last.reqs \ (last.chunked \cup aborted)
              PROVE  InputLen(u) <= cached'[u]
          <5>1. InputLen(u) <= cached[u]
            BY <1>1 DEF LaunchedOK, PromptDone
          <5>2. cached'[u] = device[u] \/ cached'[u] = cached[u]
            BY <1>3, <2>4
          <5> QED BY <2>4, <2>5, <5>1, <5>2
        <4> QED BY <3>2, <4>1 DEF PromptDone, InputLen
      <3> QED BY <3>1, <3>2
    <2>9. \A u \in last'.reqs \cup ongoing'.reqs : status'[u] # "new"
      <3>1. \A u \in ongoing'.reqs : status'[u] # "new"
        BY <2>1, <2>2, <2>6 DEF Active
      <3> QED BY <1>1, <3>1 DEF LaunchedOK
    <2> QED BY <2>7, <2>8, <2>9 DEF LaunchedOK
  <1> QED BY <1>18, <1>20, <1>21 DEF ClaimsInv

LEMMA InitClaims == ASSUME Init, IInv PROVE ClaimsInv
  <1>1. /\ TypeOK /\ phase = "sched" /\ encoder = NoEntries
        /\ features = UNION {{u} \X Hashes(u) : u \in Uids}
        /\ status = [u \in Uids |-> "new"] /\ last = NoBatch /\ ongoing = NoBatch
        /\ todo = {}
    BY DEF Init, IInv
  <1>2. Active = {}
    BY <1>1 DEF Active
  <1>3. \A u \in Uids : \A h : Owed(u, h) = 0
    BY <1>2 DEF Owed
  <1>4. OwedOK /\ ClaimsOK
    BY <1>1, OwedFact, ClaimsFact
  <1>5. DOMAIN encoder = {}
    BY <1>1 DEF NoEntries
  <1>6. \A h \in AllHashes : Holding(OwedMap, h) = {}
    <2>1. ASSUME NEW h \in AllHashes, NEW u \in Holding(OwedMap, h) PROVE FALSE
      <3>1. OwedMap \in Ledgers
        BY <1>4 DEF OwedOK
      <3>2. u \in Uids
        BY <3>1, LedgerFact
      <3>3. OwedMap[h][u] > 0
        BY <3>1, <3>2, LedgerFact
      <3> QED BY <1>3, <1>4, <3>2, <3>3 DEF OwedOK
    <2> QED BY <2>1
  <1>7. DOMAIN OwedMap = AllHashes
    BY DEF OwedMap
  <1>8. Exact(encoder, OwedMap)
    BY <1>5, <1>6, <1>7 DEF Exact
  <1>9. ClaimsExact
    BY <1>1, <1>4, <1>8 DEF ClaimsOK
  <1>10. FeaturesKept
    BY <1>1, <1>3 DEF FeaturesKept
  <1>11. LaunchedOK
    BY <1>1 DEF LaunchedOK, PromptDone, NoBatch
  <1> QED BY <1>9, <1>10, <1>11 DEF ClaimsInv

LEMMA NextClaims ==
    ASSUME IInv, IInv', BudgetInv, BudgetInv', ClaimsInv, [Next]_vars
    PROVE  ClaimsInv'
  <1>1. PendingOK /\ phase' # "oom"
    BY DEF BudgetInv, PendingOK
  <1>2. ASSUME NEW u \in Uids, Continue(u) PROVE ClaimsInv'
    BY <1>2, ContinueClaims
  <1>3. ASSUME NEW u \in Uids, Admit(u) PROVE ClaimsInv'
    BY <1>1, <1>3, AdmitClaims
  <1>4. ASSUME NEW u \in Uids, Refuse(u) PROVE ClaimsInv'
    BY <1>4, SameClaims DEF Refuse, batchVars, reqVars
  <1>5. ASSUME NEW u \in Uids, Drain(u) PROVE ClaimsInv'
    BY <1>5, DrainClaims
  <1>6. ASSUME NEW u \in Uids, Abort(u) PROVE ClaimsInv'
    BY <1>6, AbortClaims
  <1>7. CASE Launch
    <2>1. PICK us : us = Batch.reqs
      OBVIOUS
    <2>2. phase = "sched"
      BY <1>7 DEF Launch
    <2>3. ~ EncoderFails(us)
      BY <1>1, <2>1, <2>2, EncoderRuns
    <2>4. /\ phase' = "drain" /\ RunEncoder(us) /\ CompleteOne(Batch) /\ status' = status
          /\ aborted' = aborted
          /\ ongoing' = IF us = {} THEN NoBatch ELSE Batch
          /\ last' = IF Overlap THEN last ELSE ongoing'
          /\ todo' = last'.reqs
      BY <1>1, <1>7, <2>1, <2>3 DEF Launch
    <2> QED BY <1>1, <2>1, <2>2, <2>4, ForwardClaims
  <1>8. CASE EndDrain
    BY <1>8, EndDrainClaims
  <1>9. CASE UNCHANGED vars
    BY <1>9, SameClaims DEF vars, batchVars, reqVars
  <1>10. CASE Idle
    BY <1>10, SameClaims DEF Idle, vars, batchVars, reqVars
  <1> QED BY <1>2, <1>3, <1>4, <1>5, <1>6, <1>7, <1>8, <1>9, <1>10 DEF Next

(* No gather of an image finds its embedding gone or its claim too small,  *)
(* and no entry outlives its last claim: the encoder cache agrees with     *)
(* what the running requests have still to gather, for any prompts, images *)
(* and chunks, in both loops.                                              *)
THEOREM ClaimsHold == Spec => []ClaimsExact
  <1>1. Init => ClaimsInv
    BY InitIInv, InitClaims
  <1>2. IInv /\ IInv' /\ BudgetInv /\ BudgetInv' /\ ClaimsInv /\ [Next]_vars
          => ClaimsInv'
    BY NextClaims
  <1>3. ClaimsInv => ClaimsExact
    BY DEF ClaimsInv
  <1> QED BY <1>1, <1>2, <1>3, BudgetHolds, PTL DEF Spec
==============================================================================

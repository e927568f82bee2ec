------------------------------ MODULE RadixTree ------------------------------
(***************************************************************************)
(* The operations of RadixPrefixCache (kvcache/radix_cache.py) as          *)
(* functions of a tree [nodes, evictable, protected].                      *)
(*                                                                         *)
(* A node is named by its token sequence from the root to its end.  A      *)
(* split leaves the old node object the same end, so a name is as stable   *)
(* as the object a handle points at.  nodes maps a name to the pages of    *)
(* the node's own segment and its reference count.  The parent of a node   *)
(* is its longest proper prefix in the tree; the root is << >>, never      *)
(* stored, never evicted.  Timestamps are left out: an eviction may take   *)
(* the unlocked leaves in any order.                                       *)
(***************************************************************************)
EXTENDS Paging, FiniteSets, FiniteSetsExt, SequencesExt

EmptyTree == [nodes |-> << >>, evictable |-> 0, protected |-> 0]

Names(t) == DOMAIN t.nodes

Longest(S) == CHOOSE s \in S : \A r \in S : Len(r) <= Len(s)

Parent(t, n) == Longest({<< >>} \cup {m \in Names(t) : IsStrictPrefix(m, n)})

(* RadixTreeNode.length, in tokens, and the length of several nodes.       *)
NodeLength(t, n) == Len(t.nodes[n].pages) * PageSize
TotalLength(t, S) == Tally([n \in S |-> Len(t.nodes[n].pages)]) * PageSize

(* The nodes from a node up to the root, and get_matched_indices: their    *)
(* pages, from the root on.                                                *)
PathTo(t, n) == {m \in Names(t) : IsPrefix(m, n)}
NodeAt(t, n, i) ==
    CHOOSE m \in PathTo(t, n) : i \in FullPages(Parent(t, m)) + 1 .. FullPages(m)
MatchedIndices(t, n) ==
    [i \in 1 .. FullPages(n) |->
        LET m == NodeAt(t, n, i)
        IN t.nodes[m].pages[i - FullPages(Parent(t, m))]]

-----------------------------------------------------------------------------
(* lock_handle: every node of the path gains or loses a reference; the     *)
(* counters move the nodes that become locked or unlocked.                 *)
WithRefs(t, path, d) ==
    [n \in Names(t) |-> IF n \in path THEN [t.nodes[n] EXCEPT !.ref = @ + d]
                                      ELSE t.nodes[n]]

Lock(t, h) ==
    LET size == TotalLength(t, {n \in PathTo(t, h) : t.nodes[n].ref = 0})
    IN [t EXCEPT !.nodes = WithRefs(t, PathTo(t, h), 1),
                 !.evictable = @ - size,
                 !.protected = @ + size]

Unlock(t, h) ==
    LET size == TotalLength(t, {n \in PathTo(t, h) : t.nodes[n].ref = 1})
    IN [t EXCEPT !.nodes = WithRefs(t, PathTo(t, h), -1),
                 !.evictable = @ + size,
                 !.protected = @ - size]

-----------------------------------------------------------------------------
(* _tree_walk finds the longest cached prefix of s, in whole pages ...     *)
WalkEnd(t, s) ==
    Longest({UpTo(s, i) : i \in
        {i \in 0 .. FullPages(s) :
            i = 0 \/ \E n \in Names(t) : IsPrefix(UpTo(s, i), n)}})

(* ... and splits the node it ends in (split_at): the new prefix node gets *)
(* the head of the pages and a copy of the reference count.                *)
Below(t, m) == CHOOSE n \in Names(t) : IsStrictPrefix(m, n) /\ IsPrefix(Parent(t, n), m)

SplitUnlocked(t, m) ==          \* mutant: the prefix node starts unlocked
    IF m = << >> \/ m \in Names(t) THEN t
    ELSE LET n == Below(t, m)
             k == FullPages(m) - FullPages(Parent(t, n))
             old == t.nodes[n]
         IN [t EXCEPT !.nodes =
               [x \in Names(t) \cup {m} |->
                  CASE x = m -> [pages |-> SubSeq(old.pages, 1, k), ref |-> 0]
                    [] x = n -> [old EXCEPT !.pages = SubSeq(@, k + 1, Len(@))]
                    [] OTHER -> t.nodes[x]]]

SplitAt(t, m) ==
    IF m = << >> \/ m \in Names(t) THEN t
    ELSE LET n == Below(t, m)
             k == FullPages(m) - FullPages(Parent(t, n))
         IN [t EXCEPT !.nodes =
               [x \in Names(t) \cup {m} |->
                  CASE x = m -> [t.nodes[n] EXCEPT !.pages = SubSeq(@, 1, k)]
                    [] x = n -> [t.nodes[n] EXCEPT !.pages = SubSeq(@, k + 1, Len(@))]
                    [] OTHER -> t.nodes[x]]]

(* match_prefix: the node matched, and the tree after the walk.            *)
MatchPrefix(t, s) ==
    LET m == WalkEnd(t, s) IN [node |-> m, tree |-> SplitAt(t, m)]

(* insert_prefix: what the tree does not have of s, cut to whole pages,    *)
(* becomes one unlocked leaf with the caller's pages.                      *)
InsertPrefix(t, s, pages) ==
    LET m == WalkEnd(t, s)
        key == UpTo(s, FullPages(s))
        walked == SplitAt(t, m)
        leaf == [pages |-> SubSeq(pages, FullPages(m) + 1, FullPages(key)),
                 ref |-> 0]
    IN [prefixLen |-> Len(m),
        node |-> key,
        tree |-> IF m = key THEN walked
                 ELSE [walked EXCEPT
                         !.nodes = [x \in Names(walked) \cup {key} |->
                                      IF x = key THEN leaf
                                                 ELSE walked.nodes[x]],
                         !.evictable = @ + Len(key) - Len(m)]]

-----------------------------------------------------------------------------
(* evict: unlocked leaves go one by one, a parent becoming a leaf when its *)
(* last child has gone, until size tokens are gathered.                    *)
LeavesFirst(t, E) ==
    \A n \in E : \A m \in Names(t) : IsPrefix(n, m) => m \in E

AnyNode(t) == Names(t)          \* mutant: reference counts are ignored
Evictable(t) == {n \in Names(t) : t.nodes[n].ref = 0}

EvictionSets(t, size) ==
    {E \in SUBSET Evictable(t) :
        /\ LeavesFirst(t, E)
        /\ TotalLength(t, E) >= size
        /\ \E n \in E : /\ LeavesFirst(t, E \ {n})
                        /\ TotalLength(t, E \ {n}) < size}

Evict(t, E) ==
    [t EXCEPT !.nodes = [n \in Names(t) \ E |-> t.nodes[n]],
              !.evictable = @ - TotalLength(t, E)]

(* The pages of the nodes evicted; by number, as the order of the evictions*)
(* is open.                                                                *)
EvictedIndices(t, E) ==
    LET pages == UNION {ToSet(t.nodes[n].pages) : n \in E}
    IN [i \in 1 .. Cardinality(pages) |->
           CHOOSE p \in pages : Cardinality({q \in pages : q <= p}) = i]

-----------------------------------------------------------------------------
(* What every operation keeps.                                             *)

(* The map from whole prefixes to pages that the tree stands for.          *)
Keys(t) == UNION {{UpTo(n, i) : i \in 1 .. FullPages(n)} : n \in Names(t)}
EntriesOf(t) ==
    LET start == [n \in Names(t) |-> FullPages(Parent(t, n))]
    IN [k \in Keys(t) |->
          LET n == CHOOSE n \in Names(t) :
                      IsPrefix(k, n) /\ FullPages(k) > start[n]
          IN t.nodes[n].pages[FullPages(k) - start[n]]]

(* m is the parent of n: the longest name, or the root, that n extends.    *)
IsParent(t, m, n) ==
    /\ m \in Names(t) \cup {<< >>} /\ IsStrictPrefix(m, n)
    /\ \A x \in Names(t) : IsStrictPrefix(x, n) => IsPrefix(x, m)

(* Tokens toks and pages pages; a name is a whole number of pages.         *)
Whole(s) == Len(s) = FullPages(s) * PageSize
WellFormed(t, toks, pages) ==
    /\ t = [nodes |-> t.nodes, evictable |-> t.evictable, protected |-> t.protected]
    /\ IsFiniteSet(Names(t))
    /\ Names(t) \subseteq Seq(toks) \ {<< >>}
    /\ t.nodes \in [Names(t) -> [pages : Seq(pages), ref : Nat]]
    /\ \A n \in Names(t) : Whole(n)

(* Every node has a parent, and as many pages as it is longer than it.     *)
Segmented(t) ==
    \A n \in Names(t) : \E m \in Names(t) \cup {<< >>} :
        /\ IsParent(t, m, n)
        /\ Len(t.nodes[n].pages) = FullPages(n) - FullPages(m)

(* Two nodes with a page of tokens in common part at a node: of those that *)
(* extend a cached prefix, one is a prefix of all others.                  *)
IsLeast(t, k, n) ==
    /\ n \in Names(t) /\ IsPrefix(k, n)
    /\ \A m \in Names(t) : IsPrefix(k, m) => IsPrefix(n, m)
Branching(t) == \A k \in Keys(t) : \E n \in Names(t) : IsLeast(t, k, n)

IsTree(t, toks, pages) == /\ WellFormed(t, toks, pages)
                          /\ Segmented(t) /\ Branching(t)

(* The counters are the lengths of the unlocked and of the locked nodes,   *)
(* and a node is referenced by the handles below it, h[u] for u in users.  *)
CountersExact(t) ==
    /\ t.evictable = TotalLength(t, Evictable(t))
    /\ t.protected = TotalLength(t, Names(t) \ Evictable(t))
Users(n, users, h) == {u \in users : IsPrefix(n, h[u])}
RefsExact(t, users, h) ==
    \A n \in Names(t) : t.nodes[n].ref = Cardinality(Users(n, users, h))
Accounted(t, users, h) ==
    /\ \A u \in users : h[u] \in Names(t) \cup {<< >>}
    /\ CountersExact(t) /\ RefsExact(t, users, h)
===============================================================================

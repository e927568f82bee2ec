-------------------------- MODULE SwaCacheInvariant --------------------------
(***************************************************************************)
(* The inductive invariant behind SwaAccountsExact.  The full currency is  *)
(* that of RadixTree: TreeOK says that the tree without its window fields  *)
(* is a radix tree accounted for by the handles.  The window currency needs*)
(* to know which nodes a handle locked: those WindowOf finds in the tree as*)
(* it is now, whatever was split, revived or freed since.                  *)
(***************************************************************************)
EXTENDS SwaCache

(* The tree as RadixTree knows it.                                         *)
Core(t) == [nodes     |-> [n \in Names(t) |-> [pages |-> t.nodes[n].pages,
                                               ref   |-> t.nodes[n].ref]],
            evictable |-> t.evictable,
            protected |-> t.protected]

NodesOf(h) == [u \in DOMAIN h |-> h[u].node]

(* What dec_lock would unlock of a handle's path: the live nodes down from *)
(* the one that carries its mark, or from the root if it has none.         *)
MarkedBy(t, hd) == {b \in PathTo(t, hd.node) : hd.uuid # 0 /\ t.nodes[b].uuid = hd.uuid}
WindowOf(t, hd) == {n \in PathTo(t, hd.node) :
                       Live(t, n) /\ \A b \in MarkedBy(t, hd) : Len(n) >= Len(b)}
WindowUsers(t, n, users, h) == {u \in users : n \in WindowOf(t, h[u])}

-----------------------------------------------------------------------------
(* The nodes of a tree whose windows the handles h[u], u in users, lock.   *)
SwaTyped(t, pages) ==
    /\ t = [nodes |-> t.nodes, evictable |-> t.evictable, protected |-> t.protected,
            swaEvictable |-> t.swaEvictable, swaProtected |-> t.swaProtected]
    /\ t.nodes \in [Names(t) -> [pages : Seq(pages), ref : Nat, swaRef : Nat,
                                 tombstone : BOOLEAN, uuid : Nat]]

(* The node of a handle is live, and its mark is on its path; no two nodes *)
(* have the same mark.                                                     *)
HandleMarked(t, hd) ==
    /\ hd.node # << >> => Live(t, hd.node)
    /\ hd.uuid # 0 => MarkedBy(t, hd) # {}
MarksDiffer(t) ==
    \A a, b \in Names(t) :
        t.nodes[a].uuid # 0 /\ t.nodes[a].uuid = t.nodes[b].uuid => a = b

(* The window lock of a node counts the handles with it in their window.   *)
SwaRefsExact(t, users, h) ==
    \A n \in Names(t) : t.nodes[n].swaRef = Cardinality(WindowUsers(t, n, users, h))

SwaCountersExact(t) ==
    /\ t.swaEvictable = TotalLength(t, {n \in Names(t) : Live(t, n) /\ t.nodes[n].swaRef = 0})
    /\ t.swaProtected = TotalLength(t, {n \in Names(t) : Live(t, n) /\ t.nodes[n].swaRef > 0})

LeavesLive(t) == \A n \in Names(t) : FreeLeaf(t, n) => Live(t, n)

WindowsExact(t, users, h) ==
    /\ \A u \in users : HandleMarked(t, h[u])
    /\ MarksDiffer(t)
    /\ SwaRefsExact(t, users, h)
    /\ SwaCountersExact(t)
    /\ LeavesLive(t)

TreeOK(t, toks, pages, users, h) ==
    /\ SwaTyped(t, pages)
    /\ IsTree(Core(t), toks, pages)
    /\ Accounted(Core(t), users, NodesOf(h))
    /\ WindowsExact(t, users, h)

-----------------------------------------------------------------------------
Handles == [node : Seq(Tokens), uuid : Nat]

TypeOK ==
    /\ status \in [Uids -> {"new", "active", "done"}]
    /\ cached \in [Uids -> Nat] /\ gone \in [Uids -> Int]
    /\ handle \in [Uids -> Handles]
    /\ row \in [Uids -> Seq(Slots)]
    /\ free \in SUBSET Slots /\ IsFiniteSet(mapped) /\ swaFree \in Nat
    /\ todo \in SUBSET Active

(* A row is as long as what is computed, and both are within the text; a   *)
(* batch takes its requests further within it.                             *)
Progress ==
    /\ \A u \in Uids : Len(row[u]) = cached[u] /\ cached[u] <= Len(Text[u])
    /\ batch = [u \in DOMAIN batch |-> batch[u]] /\ DOMAIN batch \subseteq Active
    /\ \A u \in DOMAIN batch :
          batch[u] \in Nat /\ cached[u] <= batch[u] /\ batch[u] <= Len(Text[u])
    /\ batch # << >> => todo = {}
    /\ \A u \in Running \ todo : CanDecode(u)

IInv == TypeOK /\ Progress /\ TreeOK(tree, Tokens, Slots, Active, handle)
=============================================================================

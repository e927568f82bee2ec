------------------------------- MODULE SwaTree -------------------------------
(***************************************************************************)
(* The operations of SWARadixCache (kvcache/swa_radix_cache.py): the radix *)
(* tree of RadixTree with a second currency.  The KV that the sliding      *)
(* window layers need of a node's tokens may be freed while its full KV    *)
(* stays (a tombstone), and has a lock of its own (swaRef) that pins only  *)
(* the trailing window of a handle, down to the node marked with its uuid. *)
(*                                                                         *)
(* Pages are of one token.  Timestamps are left out, so the evictions name *)
(* their victim; a uuid is any number no node carries (0: none).           *)
(***************************************************************************)
EXTENDS RadixTree

CONSTANT Window     \* sliding_window_size

ASSUME SwaAssumption == PageSize = 1 /\ Window \in Nat \ {0}

EmptySwaTree == [nodes |-> << >>, evictable |-> 0, protected |-> 0,
                 swaEvictable |-> 0, swaProtected |-> 0]

Live(t, n) == ~ t.nodes[n].tombstone
IsLeaf(t, n) == \A m \in Names(t) : ~ IsStrictPrefix(n, m)
Start(t, n) == Len(Parent(t, n))
SlotsOf(t, S) == UNION {ToSet(t.nodes[n].pages) : n \in S}

(* The live tokens of the path to h that come after its node n.            *)
LiveAfter(t, h, n) ==
    TotalLength(t, {m \in PathTo(t, h) : Live(t, m) /\ Len(m) > Len(n)})

-----------------------------------------------------------------------------
(* split_at: both halves keep the locks and the tombstone; the uuid goes to*)
(* the half nearer the root.                                               *)
SplitKeepsUuid(t, m) ==         \* mutant: the uuid stays with the other half
    IF m = << >> \/ m \in Names(t) THEN t
    ELSE [SplitAt(t, m) EXCEPT !.nodes[m].uuid = 0]

Split(t, m) ==
    IF m = << >> \/ m \in Names(t) THEN t
    ELSE [SplitAt(t, m) EXCEPT !.nodes[Below(t, m)].uuid = 0]

(* match_prefix: of the nodes walked, the deepest with a whole window live *)
(* behind it, or no tombstone at all.                                      *)
Reusable(t, b) ==
    LET tombs == {n \in PathTo(t, b) : ~ Live(t, n)}
    IN tombs = {} \/ LiveAfter(t, b, Longest(tombs)) >= Window

Deepest(t, end) ==
    [node |-> Longest({<< >>} \cup {b \in PathTo(t, end) : Reusable(t, b)}), tree |-> t]
MatchAt(t, end) == Deepest(Split(t, end), end)
Match(t, s) == MatchAt(t, WalkEnd(t, s))

-----------------------------------------------------------------------------
(* insert: the nodes on the way that reach past from, the length the       *)
(* request had reused, are reconciled with its slots.  A tombstone nobody  *)
(* holds is revived from gone on, the length below which the request has   *)
(* freed its own window KV: it adopts the request's slots.  Everywhere else*)
(* the tree's slots stand and those of the request are freed.              *)
Unheld(t, n) == ~ Live(t, n) /\ t.nodes[n].ref = 0

(* Branch 2: gone falls inside such a tombstone, which is split there.      *)
CutAtGone(t, s, end, gone, from) ==
    IF \E n \in PathTo(t, end) :
          Len(n) > from /\ Unheld(t, n) /\ gone \in Start(t, n) + 1 .. Len(n) - 1
    THEN Split(t, SubSeq(s, 1, gone)) ELSE t

Past(t, end, from) == {n \in PathTo(t, end) : Len(n) > from}
RevivedHeld(t, end, gone, from) ==  \* mutant: readers of the old slots forgotten
    {n \in Past(t, end, from) : ~ Live(t, n) /\ Start(t, n) >= gone}
Revived(t, end, gone, from) ==
    {n \in Past(t, end, from) : Unheld(t, n) /\ Start(t, n) >= gone}

Reconciled(t, past, revived, slots) ==
    LET Seg(n) == SubSeq(slots, Start(t, n) + 1, Len(n))
    IN [freed |-> SlotsOf(t, revived) \cup UNION {ToSet(Seg(n)) : n \in past \ revived},
        tree  |-> [t EXCEPT
            !.nodes = [n \in Names(t) |->
                IF n \in revived THEN [t.nodes[n] EXCEPT !.pages = Seg(n), !.tombstone = FALSE]
                                 ELSE t.nodes[n]],
            !.swaEvictable = @ + TotalLength(t, revived)]]

(* The suffix: a tombstone as far as gone, then a leaf that is never empty. *)
AddChild(t, m, n, slots, tombstone) ==
    [t EXCEPT !.nodes = [x \in Names(t) \cup {n} |->
                  IF x = n THEN [pages |-> SubSeq(slots, Len(m) + 1, Len(n)), ref |-> 0,
                                 swaRef |-> 0, tombstone |-> tombstone, uuid |-> 0]
                  ELSE t.nodes[x]],
              !.evictable = @ + Len(n) - Len(m),
              !.swaEvictable = IF tombstone THEN @ ELSE @ + Len(n) - Len(m)]

WithSuffix(t, s, end, slots, gone) ==
    LET dead == Min({Max({gone, Len(end)}), Len(s) - 1})
        head == SubSeq(s, 1, dead)
        walked == IF dead = Len(end) THEN t ELSE AddChild(t, end, head, slots, TRUE)
    IN IF end = s THEN t ELSE AddChild(walked, head, s, slots, FALSE)

InsertFrom(t, s, end, slots, gone, from) ==
    LET r == Reconciled(t, Past(t, end, from), Revived(t, end, gone, from), slots)
    IN [freed |-> r.freed, tree |-> WithSuffix(r.tree, s, end, slots, gone)]

InsertBelow(t, s, end, slots, gone, from) ==
    InsertFrom(CutAtGone(Split(t, end), s, end, gone, from), s, end, slots, gone, from)

Insert(t, s, slots, gone, from) == InsertBelow(t, s, WalkEnd(t, s), slots, gone, from)

-----------------------------------------------------------------------------
(* inc_lock: the full lock of every node of the path, the window lock of   *)
(* the live nodes at its end until they cover a window.  The node where    *)
(* they do is marked, and the mark is the handle's.                        *)
WithSwaRefs(t, S, d) ==
    [n \in Names(t) |-> IF n \in S THEN [t.nodes[n] EXCEPT !.swaRef = @ + d]
                                   ELSE t.nodes[n]]

FreshUuid(t) == CHOOSE i \in 1 .. Cardinality(Names(t)) + 1 :
                   \A n \in Names(t) : t.nodes[n].uuid # i

LockWindow(t, h, window, ends) ==
    LET size == TotalLength(t, {n \in window : t.nodes[n].swaRef = 0})
        uuid == Max({0} \cup {IF t.nodes[n].uuid # 0 THEN t.nodes[n].uuid ELSE FreshUuid(t) :
                                 n \in ends})
        refs == WithSwaRefs(t, window, 1)
    IN [tree |-> [t EXCEPT !.nodes = [n \in Names(t) |->
                               IF n \in ends THEN [refs[n] EXCEPT !.uuid = uuid] ELSE refs[n]],
                           !.swaEvictable = @ - size, !.swaProtected = @ + size],
        handle |-> [node |-> h, uuid |-> uuid]]

IncLock(t, h) ==
    LET window == {n \in PathTo(t, h) : Live(t, n) /\ LiveAfter(t, h, n) < Window}
        ends   == {n \in window : LiveAfter(t, h, n) + NodeLength(t, n) >= Window}
    IN LockWindow(Lock(t, h), h, window, ends)

(* dec_lock: the window locks go up to the node that carries the mark.     *)
UnlockWindow(t, window) ==
    LET size == TotalLength(t, {n \in window : t.nodes[n].swaRef = 1})
    IN [t EXCEPT !.nodes = WithSwaRefs(t, window, -1),
                 !.swaEvictable = @ + size, !.swaProtected = @ - size]

DecLock(t, handle) ==
    LET marked == {n \in PathTo(t, handle.node) :
                      handle.uuid # 0 /\ t.nodes[n].uuid = handle.uuid}
        window == {n \in PathTo(t, handle.node) :
                      /\ Live(t, n) /\ t.nodes[n].swaRef > 0
                      /\ \A b \in marked : Len(n) >= Len(b)}
    IN UnlockWindow(Unlock(t, handle.node), window)

-----------------------------------------------------------------------------
(* Eviction, one victim at a time.  A leaf goes from both pools, and with  *)
(* it the tombstones above that it leaves without child and lock.          *)
Unlinked(t, n) ==
    LET above == PathTo(t, n) \ {n}
        Exposed(a) == Unheld(t, a) /\ \A m \in Names(t) : IsPrefix(a, m) => m \in PathTo(t, n)
    IN {n} \cup {a \in above : \A b \in above : Len(b) >= Len(a) => Exposed(b)}

LiveLength(t, S) == TotalLength(t, {n \in S : Live(t, n)})

WithoutNodes(t, S) ==
    [t EXCEPT !.nodes = [n \in Names(t) \ S |-> t.nodes[n]],
              !.evictable = @ - TotalLength(t, S),
              !.swaEvictable = @ - LiveLength(t, S)]

Tombstoned(t, S) ==
    [t EXCEPT !.nodes = [n \in Names(t) |-> IF n \in S THEN [t.nodes[n] EXCEPT !.tombstone = TRUE]
                                                       ELSE t.nodes[n]],
              !.swaEvictable = @ - LiveLength(t, S)]

FreeLeaf(t, n) == IsLeaf(t, n) /\ t.nodes[n].ref = 0

(* evict_full and evict_swa: the victims of the next round of their loops, *)
(* the tree without one, and the slots it gives back to each pool.         *)
FullVictims(t) == {n \in Names(t) : FreeLeaf(t, n)}
SwaVictims(t) == {n \in Names(t) : Live(t, n) /\ t.nodes[n].swaRef = 0}

EvictLeaf(t, n) ==
    [tree |-> WithoutNodes(t, Unlinked(t, n)),
     full |-> SlotsOf(t, Unlinked(t, n)),
     swa  |-> IF Live(t, n) THEN SlotsOf(t, {n}) ELSE {}]

EvictWindow(t, n) ==
    IF FreeLeaf(t, n) THEN EvictLeaf(t, n)
    ELSE [tree |-> Tombstoned(t, {n}), full |-> {}, swa |-> SlotsOf(t, {n})]

(* trim_head_swa: the window KV of the inner nodes below keepFrom that are *)
(* not locked.                                                             *)
TrimHead(t, s, keepFrom) ==
    LET head == SubSeq(s, 1, keepFrom)
        cut  == Match(t, head).tree
        S    == {n \in PathTo(cut, head) : /\ Live(cut, n) /\ cut.nodes[n].swaRef = 0
                                           /\ ~ IsLeaf(cut, n)}
    IN [tree |-> Tombstoned(cut, S), swa |-> SlotsOf(cut, S)]
=============================================================================

------------------------------ MODULE SwaCache ------------------------------
(***************************************************************************)
(* The CacheManager of a sliding-window model (scheduler/cache.py with     *)
(* is_swa) over SwaTree, driven by the loop without overlap.  Every token  *)
(* has a slot of the full pool and, while a window layer may still read it,*)
(* one of the smaller window pool: full_to_swa maps the one to the other,  *)
(* and is kept as the set of full slots that have a window slot.           *)
(*                                                                         *)
(* Abstractions.  A prefill batch holds one request; there is a table slot *)
(* for every request; a request's sampled tokens are fixed.  free_slots is *)
(* a set of which the least are taken.  The tool-call anchor is left out.  *)
(* Where the code raises for want of slots (alloc_swa, an empty chunk) the *)
(* model stops.                                                            *)
(***************************************************************************)
EXTENDS SwaTree

CONSTANTS
    Uids,           \* requests
    Text,           \* [Uids -> Seq(token)]: the prompt and the output
    PromptLen,      \* [Uids -> Nat]
    PrefillBudget,  \* prompt tokens per prefill batch
    NumSlots,       \* tokens of the full pool
    NumSwaSlots,    \* tokens of the window pool, without the sentinel
    RetainGap       \* _SWA_RETAIN_GAP

Tokens == UNION {ToSet(Text[u]) : u \in Uids}

ASSUME SwaCacheAssumption ==
    /\ IsFiniteSet(Uids)
    /\ Text \in [Uids -> Seq(Tokens)]
    /\ \A u \in Uids : PromptLen[u] \in 1 .. Len(Text[u])
    /\ PrefillBudget \in Nat /\ RetainGap \in Nat
    /\ NumSlots \in Nat /\ NumSwaSlots \in Nat

VARIABLES
    tree,           \* the SWARadixCache
    free,           \* free_slots
    mapped,         \* full slots with a window slot (full_to_swa > 0)
    swaFree,        \* length of _swa_free
    batch,          \* batch[u]: where the forward being prepared takes u
    todo,           \* requests of the batch still to drain
    status,         \* status[u]: "new", "active" or "done"
    cached,         \* req.cached_len
    handle,         \* req.cache_handle
    row,            \* the page-table row up to what is allocated
    gone            \* req.swa_evicted_seqlen

poolVars == <<tree, free, mapped, swaFree>>
loopVars == <<batch, todo>>
reqVars  == <<status, cached, handle, row, gone>>
vars == <<poolVars, loopVars, reqVars>>

Slots == 1 .. NumSlots
NoHandle == [node |-> << >>, uuid |-> 0]

Active  == {u \in Uids : status[u] = "active"}
Chunked == {u \in Active : cached[u] < PromptLen[u]}
Running == Active \ Chunked
CanDecode(u) == cached[u] + 1 < Len(Text[u])     \* device_len is cached_len + 1

Take(s, n) == SubSeq(s, 1, n)
Drop(s, n) == SubSeq(s, n + 1, Len(s))
Held(u) == Len(handle[u].node)                   \* cache_handle.cached_len

Init ==
    /\ tree = EmptySwaTree /\ free = Slots /\ mapped = {} /\ swaFree = NumSwaSlots
    /\ batch = << >> /\ todo = {}
    /\ status = [u \in Uids |-> "new"] /\ cached = [u \in Uids |-> 0]
    /\ handle = [u \in Uids |-> NoHandle] /\ row = [u \in Uids |-> << >>]
    /\ gone = [u \in Uids |-> 0]

(* free_swa: slots without a window slot are passed over.                  *)
FreeSwa(S) ==
    /\ mapped' = mapped \ S
    /\ swaFree' = swaFree + Cardinality(S \cap mapped)

Scheduling == batch = << >> /\ todo = {}

-----------------------------------------------------------------------------
(* Admission (PrefillAdder).                                               *)

MatchReq(u) == Match(tree, Take(Text[u], PromptLen[u] - 1))
Locked(u) == IncLock(MatchReq(u).tree, MatchReq(u).node)

(* The reserved tokens are those the running requests may still ask for.   *)
TooBig(u, t) ==
    Len(Text[u]) - Len(MatchReq(u).node)
      + MapThenSumSet(LAMBDA v : Len(Text[v]) - cached[v] - 1, Running)
      > t.evictable + Cardinality(free)

SwaAvailable(t) == swaFree + t.swaEvictable

(* A seat in the window pool: what the first chunk, or one window, needs.  *)
NoSeat(u) ==
    SwaAvailable(Locked(u).tree) <
        Min({PromptLen[u] - Len(MatchReq(u).node), Window}) + 1

(* _add_one_req: the prompt up to the token budget and to the window slots *)
(* there are, with those u itself is about to give back.                   *)
ChunkEnd(u, from, t, reclaim) ==
    from + Min({PrefillBudget, PromptLen[u] - from, SwaAvailable(t) + reclaim})

CanTry(u) == Scheduling /\ Chunked = {} /\ status[u] = "new"

Admit(u) ==
    /\ CanTry(u)
    /\ ~ TooBig(u, MatchReq(u).tree) /\ ~ TooBig(u, Locked(u).tree) /\ ~ NoSeat(u)
    /\ LET n == MatchReq(u).node
       IN /\ tree' = Locked(u).tree
          /\ handle' = [handle EXCEPT ![u] = Locked(u).handle]
          /\ row' = [row EXCEPT ![u] = MatchedIndices(tree', n)]
          /\ cached' = [cached EXCEPT ![u] = Len(n)]
          /\ batch' = [v \in {u} |-> ChunkEnd(u, Len(n), tree', 0)]
    /\ status' = [status EXCEPT ![u] = "active"]
    /\ UNCHANGED <<free, mapped, swaFree, todo, gone>>

(* The match has split the tree; a lock taken back leaves its mark.        *)
Refuse(u) ==
    /\ CanTry(u)
    /\ \/ TooBig(u, MatchReq(u).tree) /\ tree' = MatchReq(u).tree
       \/ /\ ~ TooBig(u, MatchReq(u).tree)
          /\ TooBig(u, Locked(u).tree) \/ NoSeat(u)
          /\ tree' = DecLock(Locked(u).tree, Locked(u).handle)
    /\ tree' # tree
    /\ UNCHANGED <<free, mapped, swaFree, loopVars, reqVars>>

-----------------------------------------------------------------------------
(* _prepare_batch: window slots are given back before new ones are taken.  *)

OwnOrReused(u, upTo) ==         \* mutant: the reused prefix is not spared
    ToSet(SubSeq(row[u], gone[u] + 1, upTo))
Own(u, upTo) == ToSet(SubSeq(row[u], Max({gone[u], Held(u)}) + 1, upTo))

(* The next chunk (free_swa_out_of_window_extend).                         *)
Continue(u) ==
    /\ Scheduling /\ u \in Chunked
    /\ LET upTo == cached[u] - Window - 1
           end  == ChunkEnd(u, cached[u], tree, Cardinality(Own(u, upTo)))
       IN /\ end > cached[u]
          /\ batch' = [v \in {u} |-> end]
          /\ FreeSwa(Own(u, upTo))
          /\ gone' = [gone EXCEPT ![u] = IF Own(u, upTo) = {} THEN @ ELSE upTo]
    /\ UNCHANGED <<tree, free, todo, status, cached, handle, row>>

(* A decode step (maybe_free_swa_out_of_window): every so many forwards,   *)
(* and never in the first step after the prefill.                          *)
OutOfWindow(u) ==
    IF cached[u] = PromptLen[u] THEN {} ELSE Own(u, cached[u] - Window - 1)

BeginDecode(due) ==
    /\ Scheduling /\ Chunked = {} /\ Running # {}
    /\ batch' = [u \in Running |-> cached[u] + 1]
    /\ IF due
       THEN /\ FreeSwa(UNION {OutOfWindow(u) : u \in Running})
            /\ gone' = [u \in Uids |->
                          IF u \in Running /\ OutOfWindow(u) # {}
                          THEN cached[u] - Window - 1 ELSE gone[u]]
       ELSE UNCHANGED <<mapped, swaFree, gone>>
    /\ UNCHANGED <<tree, free, todo, status, cached, handle, row>>

-----------------------------------------------------------------------------
(* allocate_paged: evict full leaves while slots are short, then window KV *)
(* while window slots are (ensure_swa_slots).                              *)

Grows(u) == batch[u] - cached[u]
SumGrows(us) == Tally([u \in us |-> Grows(u)])
Needed == SumGrows(DOMAIN batch)

EvictFull(n) ==
    /\ Cardinality(free) < Needed /\ n \in FullVictims(tree)
    /\ LET e == EvictLeaf(tree, n)
       IN tree' = e.tree /\ free' = free \cup e.full /\ FreeSwa(e.swa)
    /\ UNCHANGED <<loopVars, reqVars>>

EvictSwa(n) ==
    /\ Cardinality(free) >= Needed /\ swaFree < Needed /\ n \in SwaVictims(tree)
    /\ LET e == EvictWindow(tree, n)
       IN tree' = e.tree /\ free' = free \cup e.full /\ FreeSwa(e.swa)
    /\ UNCHANGED <<loopVars, reqVars>>

(* The slots are taken and the forward runs.                               *)
Forward ==
    /\ batch # << >> /\ Cardinality(free) >= Needed /\ swaFree >= Needed
    /\ LET list  == [i \in 1 .. Needed |->
                        CHOOSE s \in free : Cardinality({r \in free : r <= s}) = i]
           order == SetToSeq(DOMAIN batch)
           Before(u) == {v \in DOMAIN batch : \E i, j \in DOMAIN order :
                            i < j /\ order[i] = v /\ order[j] = u}
           Got(u) == SubSeq(list, SumGrows(Before(u)) + 1,
                            SumGrows(Before(u)) + Grows(u))
       IN /\ free' = free \ ToSet(list)
          /\ mapped' = mapped \cup ToSet(list)
          /\ row' = [u \in Uids |-> IF u \in DOMAIN batch THEN row[u] \o Got(u) ELSE row[u]]
    /\ swaFree' = swaFree - Needed
    /\ cached' = [u \in Uids |-> IF u \in DOMAIN batch THEN batch[u] ELSE cached[u]]
    /\ todo' = DOMAIN batch
    /\ batch' = << >>
    /\ UNCHANGED <<tree, status, handle, gone>>

-----------------------------------------------------------------------------
(* _cache_req_swa, and the drain that calls it.                            *)

Computed(u) == Take(Text[u], cached[u])
Inserted(u) == Insert(tree, Computed(u), row[u], gone[u], Held(u))
Unlocked(u) == DecLock(Inserted(u).tree, handle[u])

(* Where the retained window before position n begins.                     *)
KeepFrom(n) == n - Window - RetainGap
SplitBefore(t, s, n) == IF n > 0 THEN Match(t, Take(s, n)).tree ELSE t

(* finished = FALSE: the row is pointed at what a match finds, and that is *)
(* locked.                                                                 *)
Rematched(u) ==
    Match(SplitBefore(Unlocked(u), Text[u], KeepFrom(cached[u])), Computed(u))
Repointed(u, m) == MatchedIndices(m.tree, m.node) \o Drop(row[u], Len(m.node))

Commit(u) ==
    LET m == Rematched(u)
        l == IncLock(m.tree, m.node)
    IN /\ tree' = l.tree
       /\ handle' = [handle EXCEPT ![u] = l.handle]
       /\ row' = [row EXCEPT ![u] = Repointed(u, m)]
       /\ free' = free \cup Inserted(u).freed
       /\ FreeSwa(Inserted(u).freed)
       /\ UNCHANGED <<status, cached, gone>>

(* finished = TRUE: the head of the prompt gives up its window KV, the last*)
(* match only splits.  A prompt still in chunks ends where they do.        *)
Trimmed(u) ==
    LET p == Min({cached[u], PromptLen[u]})
        trim == IF KeepFrom(p) > 0 THEN TrimHead(Unlocked(u), Text[u], KeepFrom(p))
                                   ELSE [tree |-> Unlocked(u), swa |-> {}]
    IN [tree |-> SplitBefore(trim.tree, Text[u], p), swa |-> trim.swa]

Finish(u) ==
    /\ tree' = Trimmed(u).tree
    /\ free' = free \cup Inserted(u).freed
    /\ FreeSwa(Inserted(u).freed \cup Trimmed(u).swa)
    /\ status' = [status EXCEPT ![u] = "done"]
    /\ cached' = [cached EXCEPT ![u] = 0]
    /\ handle' = [handle EXCEPT ![u] = NoHandle]
    /\ row' = [row EXCEPT ![u] = << >>]
    /\ gone' = [gone EXCEPT ![u] = 0]

(* An intermediate chunk is not committed; a prefill is; a decode step only*)
(* when it ends the request (an end of sequence may end it at any length). *)
Drain(u) ==
    /\ u \in todo
    /\ todo' = todo \ {u}
    /\ \/ u \in Chunked /\ UNCHANGED <<poolVars, reqVars>>
       \/ u \in Running /\ Finish(u)
       \/ u \in Running /\ CanDecode(u) /\ cached[u] = PromptLen[u] /\ Commit(u)
       \/ u \in Running /\ CanDecode(u) /\ cached[u] > PromptLen[u]
          /\ UNCHANGED <<poolVars, reqVars>>
    /\ UNCHANGED batch

(* An abort message between two iterations.                                *)
Abort(u) == Scheduling /\ u \in Active /\ Finish(u) /\ UNCHANGED loopVars

Next ==
    \/ \E u \in Uids : Admit(u) \/ Refuse(u) \/ Continue(u) \/ Drain(u) \/ Abort(u)
    \/ \E due \in BOOLEAN : BeginDecode(due)
    \/ \E n \in Names(tree) : batch # << >> /\ (EvictFull(n) \/ EvictSwa(n))
    \/ Forward

Spec == Init /\ [][Next]_vars

-----------------------------------------------------------------------------
(* Properties.                                                             *)

(* The counters admission trusts are those of the tree; a node is held by  *)
(* exactly the requests below it, its window lock by no more than those,   *)
(* and a tombstone has none; an unlocked leaf is never a tombstone.        *)
SwaAccountsExact ==
    LET N == Names(tree)
        Ref(n) == tree.nodes[n].ref
        SwaRef(n) == tree.nodes[n].swaRef
        live == {n \in N : Live(tree, n)}
    IN /\ tree.evictable = TotalLength(tree, {n \in N : Ref(n) = 0})
       /\ tree.protected = TotalLength(tree, {n \in N : Ref(n) > 0})
       /\ tree.swaEvictable = TotalLength(tree, {n \in live : SwaRef(n) = 0})
       /\ tree.swaProtected = TotalLength(tree, {n \in live : SwaRef(n) > 0})
       /\ \A n \in N :
            /\ Ref(n) = Cardinality({u \in Active : IsPrefix(n, handle[u].node)})
            /\ SwaRef(n) \in 0 .. Ref(n)
            /\ n \notin live => SwaRef(n) = 0 /\ ~ FreeLeaf(tree, n)

(* Every slot is in one place: free, in one node, or in the part of one row*)
(* past its handle; window slots are exactly those of live nodes and of the*)
(* rows' own parts not yet given back, and none of them leaks.             *)
OwnPart(u) == Drop(row[u], Held(u))
SlotsConserved ==
    /\ \A s \in Slots :
         (IF s \in free THEN 1 ELSE 0)
           + Cardinality({n \in Names(tree) : s \in ToSet(tree.nodes[n].pages)})
           + Cardinality({u \in Active : s \in ToSet(OwnPart(u))}) = 1
    /\ mapped = SlotsOf(tree, {n \in Names(tree) : Live(tree, n)})
                  \cup UNION {ToSet(Drop(row[u], Max({gone[u], Held(u)}))) : u \in Active}
    /\ swaFree + Cardinality(mapped) = NumSwaSlots

(* _cache_req_swa: "the re-matched slots are live".  What the next forward *)
(* of a running request reads is there: no slot of its row is free, and the*)
(* positions of its trailing window still have their window slots.         *)
RowsLive ==
    \A u \in Active :
        /\ ToSet(row[u]) \cap free = {}
        /\ \A i \in Max({1, cached[u] - Window + 1}) .. cached[u] : row[u][i] \in mapped
=============================================================================

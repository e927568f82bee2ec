----------------------------- MODULE PrefixStore -----------------------------
(***************************************************************************)
(* What the prefix cache and its page pool promise, without the tree.      *)
(*                                                                         *)
(* The cache is a map from token prefixes, a whole number of pages long,   *)
(* to the page that holds the KV of the last PageSize tokens of the        *)
(* prefix.  A request holds a locked prefix of its own text in the map and *)
(* owns the pages of the rest of its row.  Every page of the pool is in    *)
(* exactly one place: free, deferred until the end of a drain, in the map, *)
(* or owned by one request.  PrefixCache, the radix tree with reference    *)
(* counts and node splits, is shown to implement this module, and          *)
(* PrefixStoreProofs proves its invariant for every pool and every page    *)
(* size.                                                                   *)
(***************************************************************************)
EXTENDS Paging

CONSTANTS
    Uids,       \* requests
    Tokens,     \* token ids
    Pages       \* pages of the pool

VARIABLES
    active,     \* requests that hold a page-table row
    text,       \* text[u]: the tokens of u whose KV has been computed
    row,        \* row[u]: the pages of its row, in order
    held,       \* held[u]: how many leading pages of the row are the map's
    entry,      \* the map, a partial function from prefixes to pages
    free,       \* pages an allocation may take
    deferred,   \* pages freed in a drain that has not ended
    content     \* content[p]: the tokens page p was last written for

vars == <<active, text, row, held, entry, free, deferred, content>>

-----------------------------------------------------------------------------
(* The prefixes some active request has locked.                            *)
Locked == UNION {{UpTo(text[u], i) : i \in 1 .. held[u]} : u \in active}

(* Every leading page of a cached prefix is cached.                        *)
PrefixClosed(keys) ==
    \A k \in keys : \A i \in 1 .. FullPages(k) : UpTo(k, i) \in keys

Init ==
    /\ active = {}
    /\ text = [u \in Uids |-> << >>]
    /\ row = [u \in Uids |-> << >>]
    /\ held = [u \in Uids |-> 0]
    /\ entry = << >>
    /\ free = Pages
    /\ deferred = {}
    /\ content = [p \in Pages |-> << >>]

-----------------------------------------------------------------------------
(* A request starts from a cached prefix s: its row is the map's pages.    *)
PagesOf(map, s) == [i \in 1 .. FullPages(s) |-> map[UpTo(s, i)]]

Begin(u, s) ==
    /\ u \notin active
    /\ active' = active \cup {u}
    /\ text' = [text EXCEPT ![u] = s]
    /\ row' = [row EXCEPT ![u] = PagesOf(entry, s)]
    /\ held' = [held EXCEPT ![u] = FullPages(s)]
    /\ UNCHANGED <<free, deferred, content, entry>>

(* A forward: unlocked entries may be dropped for their pages, requests    *)
(* take fresh pages and write the KV of their new tokens there, from the   *)
(* first page of their text that was not full.                             *)
Restriction(map, keys) == [k \in keys |-> map[k]]
PagesWithout(map, keys) == {map[k] : k \in DOMAIN map \ keys}
Grown(u) == Len(row[u]) + 1 .. Len(row'[u])
Written(u) == FullPages(text[u]) + 1 .. Len(row'[u])

Evict(keys) ==
    /\ keys \subseteq DOMAIN entry
    /\ Locked \subseteq keys
    /\ PrefixClosed(keys)
    /\ entry' = Restriction(entry, keys)

Allocate(pool) ==
    /\ row' \in [Uids -> Seq(Pages)]
    /\ \A u \in Uids :
         /\ Len(row'[u]) = AllPages(text'[u])
         /\ Len(row[u]) <= Len(row'[u])
         /\ row[u] = SubSeq(row'[u], 1, Len(row[u]))
         /\ \A i \in Grown(u) : row'[u][i] \in pool
    /\ \A u, v \in Uids : \A i \in Grown(u), j \in Grown(v) :
         row'[u][i] = row'[v][j] => u = v /\ i = j
    /\ free' = pool \ UNION {{row'[u][i] : i \in Grown(u)} : u \in Uids}

Compute ==
    /\ text' \in [Uids -> Seq(Tokens)]
    /\ \A u \in Uids :
         /\ Len(text[u]) <= Len(text'[u])
         /\ text[u] = SubSeq(text'[u], 1, Len(text[u]))
         /\ u \notin active => text'[u] = text[u]
    /\ content' \in [Pages -> Seq(Tokens)]
    /\ \A u \in Uids : \A i \in Written(u) :
         content'[row'[u][i]] = UpTo(text'[u], i)
    /\ \A p \in Pages :
         \/ content'[p] = content[p]
         \/ \E u \in Uids : \E i \in Written(u) : p = row'[u][i]

Forward ==
    /\ UNCHANGED <<active, held, deferred>>
    /\ Evict(DOMAIN entry')
    /\ Allocate(free \cup PagesWithout(entry, DOMAIN entry'))
    /\ Compute

(* The full pages of u that are not locked yet: those another request has  *)
(* cached in the meantime, and those the map gets from u.                  *)
Unheld(u) == held[u] + 1 .. FullPages(text[u])
Duplicate(u, keys) == {i \in Unheld(u) : UpTo(text[u], i) \in keys}
NewKeys(u, keys) == {UpTo(text[u], i) : i \in Unheld(u)} \ keys

Insert(map, u) ==
    [k \in DOMAIN map \cup NewKeys(u, DOMAIN map) |->
       IF k \in DOMAIN map THEN map[k] ELSE row[u][FullPages(k)]]

(* The text of a running request enters the map; its duplicate pages are   *)
(* given back and its row uses the map's.                                  *)
Repointed(map, u) ==
    [i \in 1 .. Len(row[u]) |-> IF i \in Duplicate(u, DOMAIN map)
                                THEN map[UpTo(text[u], i)] ELSE row[u][i]]

Commit(u) ==
    /\ u \in active
    /\ UNCHANGED <<active, text, free, content>>
    /\ held' = [held EXCEPT ![u] = FullPages(text[u])]
    /\ deferred' = deferred
                     \cup {row[u][i] : i \in Duplicate(u, DOMAIN entry)}
    /\ row' = [row EXCEPT ![u] = Repointed(entry, u)]
    /\ entry' = Insert(entry, u)

(* A request ends: its text enters the map, its lock is dropped, and its   *)
(* duplicate and partly filled pages are given back.                       *)
Leftover(u) ==
    {row[u][i] : i \in Duplicate(u, DOMAIN entry)
                         \cup (FullPages(text[u]) + 1 .. Len(row[u]))}

Retire(u) ==
    /\ u \in active
    /\ active' = active \ {u}
    /\ text' = [text EXCEPT ![u] = << >>]
    /\ row' = [row EXCEPT ![u] = << >>]
    /\ held' = [held EXCEPT ![u] = 0]
    /\ entry' = Insert(entry, u)
    /\ UNCHANGED content

RetireNow(u) ==
    /\ Retire(u)
    /\ free' = free \cup Leftover(u)
    /\ UNCHANGED deferred

RetireInDrain(u) ==
    /\ Retire(u)
    /\ deferred' = deferred \cup Leftover(u)
    /\ UNCHANGED free

EndDrain ==
    /\ free' = free \cup deferred
    /\ deferred' = {}
    /\ UNCHANGED <<active, text, row, held, entry, content>>

Next ==
    \/ \E u \in Uids : \/ \E s \in DOMAIN entry \cup {<< >>} : Begin(u, s)
                       \/ Commit(u)
                       \/ RetireNow(u)
                       \/ RetireInDrain(u)
    \/ Forward
    \/ EndDrain

Spec == Init /\ [][Next]_vars

-----------------------------------------------------------------------------
(* What PrefixStoreProofs proves of every behaviour.                       *)

TypeOK ==
    /\ active \subseteq Uids
    /\ text \in [Uids -> Seq(Tokens)]
    /\ row \in [Uids -> Seq(Pages)]
    /\ held \in [Uids -> Nat]
    /\ DOMAIN entry \subseteq Seq(Tokens)
    /\ entry \in [DOMAIN entry -> Pages]
    /\ free \subseteq Pages
    /\ deferred \subseteq Pages
    /\ content \in [Pages -> Seq(Tokens)]

(* A row is as long as its text, a lock covers full pages only.            *)
Shape ==
    \A u \in Uids :
        /\ held[u] <= FullPages(text[u])
        /\ Len(row[u]) = AllPages(text[u])
        /\ u \notin active => text[u] = << >> /\ held[u] = 0

(* The map is a prefix tree of whole pages ...                             *)
MapClosed ==
    /\ \A k \in DOMAIN entry : Len(k) = FullPages(k) * PageSize
    /\ PrefixClosed(DOMAIN entry)

(* ... which has what the running requests have locked.                    *)
HeldInMap ==
    \A u \in active : \A i \in 1 .. held[u] :
        /\ UpTo(text[u], i) \in DOMAIN entry
        /\ row[u][i] = entry[UpTo(text[u], i)]

(* No page is in two places: owned by two rows or twice by one, in the map *)
(* twice, or free, deferred, in the map and owned at the same time.        *)
Own(u) == held[u] + 1 .. Len(row[u])

NoPageTwice ==
    /\ \A k, l \in DOMAIN entry : entry[k] = entry[l] => k = l
    /\ \A u, v \in Uids : \A i \in Own(u), j \in Own(v) :
         row[u][i] = row[v][j] => u = v /\ i = j
    /\ \A u \in Uids : \A i \in Own(u) :
         /\ row[u][i] \notin free \cup deferred
         /\ \A k \in DOMAIN entry : row[u][i] # entry[k]
    /\ \A k \in DOMAIN entry : entry[k] \notin free \cup deferred
    /\ free \cap deferred = {}

(* No page is lost.                                                        *)
NoPageLost ==
    \A p \in Pages :
        \/ p \in free \cup deferred
        \/ \E k \in DOMAIN entry : p = entry[k]
        \/ \E u \in Uids : \E i \in Own(u) : p = row[u][i]

(* A page of the map holds the KV of its key, an owned page that of its    *)
(* place in the request's text.                                            *)
MapHoldsKeys == \A k \in DOMAIN entry : content[entry[k]] = k
OwnHoldsText ==
    \A u \in Uids : \A i \in Own(u) : content[row[u][i]] = UpTo(text[u], i)

IInv == /\ TypeOK /\ Shape /\ MapClosed /\ HeldInMap
        /\ NoPageTwice /\ NoPageLost /\ MapHoldsKeys /\ OwnHoldsText

(* What attention reads through a row is the request's own text.           *)
RowsHoldOwnText ==
    \A u \in active : \A i \in 1 .. Len(row[u]) :
        content[row[u][i]] = UpTo(text[u], i)

=============================================================================

---------------------------- MODULE EncoderCache ----------------------------
(***************************************************************************)
(* EncoderCache (mm/encoder_cache.py) and the planning of image chunks     *)
(* (scheduler/mm.py), as functions of a cache that maps an image hash to   *)
(* [stored, remaining]: whether its embedding is there, and for each       *)
(* request the embedding rows it has still to gather.  An item is an image *)
(* of a request, [hash, spans]; spans are <<lo, hi>>, half open, positions *)
(* counted from 0, of placeholders with one embedding row each.  What the  *)
(* code does to one image after another is done to all of them at once.    *)
(* The embedding's bytes are left out.                                     *)
(***************************************************************************)
EXTENDS Integers, FiniteSets

NoEntries == [h \in {} |-> {}]

HasEmbedding(c, h) == h \in DOMAIN c /\ c[h].stored

Claim(c, h, u) ==
    IF h \in DOMAIN c /\ u \in DOMAIN c[h].remaining THEN c[h].remaining[u] ELSE 0

(* register, for the images of a request: rows maps their hashes to the    *)
(* rows to claim, those of a repeated image added up.                      *)
Register(c, u, rows) ==
    LET claimed == {h \in DOMAIN rows : rows[h] > 0}
        Holders(h) == {u} \cup (IF h \in DOMAIN c THEN DOMAIN c[h].remaining ELSE {})
    IN [h \in DOMAIN c \cup claimed |->
          IF h \notin claimed THEN c[h]
          ELSE [stored    |-> HasEmbedding(c, h),
                remaining |-> [v \in Holders(h) |->
                    Claim(c, h, v) + (IF v = u THEN rows[h] ELSE 0)]]]

Put(c, hashes) ==
    [h \in DOMAIN c |-> [stored    |-> c[h].stored \/ h \in hashes,
                        remaining |-> c[h].remaining]]

(* What consume and release leave of the claims: one of no rows is over,   *)
(* and an entry goes with its last holder.                                 *)
Settled(c, Left(_, _)) ==
    LET Holders(h) == {u \in DOMAIN c[h].remaining : Left(h, u) > 0}
    IN [h \in {g \in DOMAIN c : Holders(g) # {}} |->
          [stored    |-> c[h].stored,
           remaining |-> [u \in Holders(h) |-> Left(h, u)]]]

(* consume: rows maps <<u, h>> to what u gathers of an image it claims.    *)
Consume(c, rows) ==
    Settled(c, LAMBDA h, u : c[h].remaining[u]
                   - (IF <<u, h>> \in DOMAIN rows THEN rows[<<u, h>>] ELSE 0))

Release(c, u, hashes) ==
    Settled(c, LAMBDA h, v : IF v = u /\ h \in hashes THEN 0
                             ELSE c[h].remaining[v])

(* The rows of items in the window [lo, hi), and mm_rows_after.            *)
Positions(items) ==
    UNION {s[1] .. s[2] - 1 : s \in UNION {item.spans : item \in items}}
RowsIn(items, lo, hi) == Cardinality(Positions(items) \cap lo .. hi - 1)
RowsAfter(items, done) == Cardinality({p \in Positions(items) : done <= p})

(* The image spans that a chunk ending at end would cut.                   *)
CutBy(items, end) ==
    {s \in UNION {item.spans : item \in items} : s[1] < end /\ end < s[2]}

(* mm_chunk_end for chunks that need no alignment: before the image it     *)
(* would cut, unless that starts no later than the chunk.                  *)
ChunkEnd(items, lo, end) ==
    IF \E s \in CutBy(items, end) : lo < s[1]
    THEN CHOOSE n \in {s[1] : s \in CutBy(items, end)} : lo < n
    ELSE end
=============================================================================

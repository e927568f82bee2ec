--------------------------- MODULE FrontendProofs ---------------------------
(***************************************************************************)
(* The maintenance gate, the accounting, the tokenizer worker and what the *)
(* consumers are told, for any requests, rebuilds, stops and faults.  The  *)
(* first part says what the selection of messages from a queue returns.    *)
(***************************************************************************)
EXTENDS FrontendInvariant, SequenceTheorems, FiniteSetTheorems, TLAPS

-----------------------------------------------------------------------------
(* Selections from a sequence.                                             *)

(* The elements of a finite set of numbers, by rank.                       *)
LEMMA RankOnto ==
    ASSUME NEW P, P \subseteq Nat, IsFiniteSet(P), NEW n \in 1 .. Cardinality(P)
    PROVE  \E i \in P : Cardinality({j \in P : j <= i}) = n
<1> DEFINE Rank(i) == Cardinality({j \in P : j <= i})
           rank == [i \in P |-> Rank(i)]
           N == Cardinality(P)
<1>0. N \in Nat
    BY FS_CardinalityType
<1>1. ASSUME NEW i \in P PROVE IsFiniteSet({j \in P : j <= i}) /\ Rank(i) \in 1 .. N
    <2>1. {j \in P : j <= i} \in SUBSET P /\ i \in {j \in P : j <= i}
        OBVIOUS
    <2>2. IsFiniteSet({j \in P : j <= i}) /\ Rank(i) <= N /\ Rank(i) \in Nat
        BY <2>1, FS_Subset, FS_CardinalityType
    <2>3. Rank(i) # 0
        BY <2>1, <2>2, FS_EmptySet
    <2> QED
        BY <1>0, <2>2, <2>3
<1>2. ASSUME NEW a \in P, NEW b \in P, a < b PROVE Rank(a) # Rank(b)
    <2>0. a \in Nat /\ b \in Nat /\ \A j \in P : j \in Nat
        OBVIOUS
    <2>4. ASSUME NEW j \in P, j <= a PROVE j <= b
        <3>1. j \in Nat
            BY <2>0
        <3> QED
            BY <1>2, <2>0, <2>4, <3>1
    <2>1. {j \in P : j <= a} \in SUBSET {j \in P : j <= b}
        BY <2>4
    <2>2. b \in {j \in P : j <= b} /\ b \notin {j \in P : j <= a}
        BY <1>2
    <2>3. {j \in P : j <= a} # {j \in P : j <= b}
        BY <2>2
    <2> QED
        BY <1>1, <2>1, <2>3, FS_Subset
<1>3. rank \in Injection(P, 1 .. N)
    <2>1. rank \in [P -> 1 .. N]
        BY <1>1
    <2>2. ASSUME NEW a \in P, NEW b \in P, rank[a] = rank[b] PROVE a = b
        <3>1. Rank(a) = Rank(b)
            BY <2>2
        <3>2. a < b \/ b < a \/ a = b
            OBVIOUS
        <3> QED
            BY <1>2, <3>1, <3>2
    <2> QED
        BY <2>1, <2>2 DEF Injection, IsInjective
<1>4. IsFiniteSet(1 .. N) /\ Cardinality(1 .. N) = N
    BY <1>0, FS_Interval, 1 \in Int, N \in Int
<1>5. rank \in Surjection(P, 1 .. N)
    BY <1>3, <1>4, FS_Injection
<1> QED
    BY <1>5 DEF Surjection

LEMMA FunctionIsSeq ==
    ASSUME NEW Y, NEW n \in Nat, NEW f \in [1 .. n -> Y]
    PROVE  f \in Seq(Y) /\ Len(f) = n
OBVIOUS

(* at names the positions of s that t selects, in order.                   *)
Selects(t, s, P, at) ==
    /\ Len(t) = Cardinality(P) /\ at \in [1 .. Len(t) -> P]
    /\ \A n \in 1 .. Len(t) : t[n] = s[at[n]]
    /\ \A m, n \in 1 .. Len(t) : at[m] = at[n] => m = n
    /\ \A i \in P : \E n \in 1 .. Len(t) : at[n] = i

(* And counts them: the n-th one is the n-th of the positions.             *)
Counts(t, P, at) ==
    /\ \A n \in 1 .. Len(t) : Cardinality({j \in P : j <= at[n]}) = n
    /\ \A m, n \in 1 .. Len(t) : m <= n <=> at[m] <= at[n]

LEMMA SubsequenceCounts ==
    ASSUME NEW X, NEW s \in Seq(X), NEW P \in SUBSET DOMAIN s
    PROVE  /\ Subsequence(s, P) \in Seq(X)
           /\ \E at : Selects(Subsequence(s, P), s, P, at) /\ Counts(Subsequence(s, P), P, at)
<1> DEFINE Rank(i) == Cardinality({j \in P : j <= i})
           at == [n \in 1 .. Cardinality(P) |-> CHOOSE i \in P : Rank(i) = n]
           t == Subsequence(s, P)
<1>1. P \subseteq Nat /\ IsFiniteSet(DOMAIN s) /\ IsFiniteSet(P)
    <2>1. DOMAIN s = 1 .. Len(s) /\ Len(s) \in Nat
        OBVIOUS
    <2>2. IsFiniteSet(DOMAIN s)
        BY <2>1, FS_Interval, 1 \in Int
    <2> QED
        BY <2>1, <2>2, FS_Subset
<1>2. Cardinality(P) \in Nat
    BY <1>1, FS_CardinalityType
<1>3. ASSUME NEW n \in 1 .. Cardinality(P) PROVE at[n] \in P /\ Rank(at[n]) = n
    <2>1. \E i \in P : Rank(i) = n
        BY <1>1, RankOnto
    <2> QED
        BY <2>1
<1>4. t = [n \in 1 .. Cardinality(P) |-> s[at[n]]]
    BY DEF Subsequence
<1>5. ASSUME NEW i \in P PROVE Rank(i) \in 1 .. Cardinality(P)
    <2>1. {j \in P : j <= i} \in SUBSET P /\ i \in {j \in P : j <= i}
        BY <1>1
    <2>2. IsFiniteSet({j \in P : j <= i}) /\ Rank(i) <= Cardinality(P) /\ Rank(i) \in Nat
        BY <1>1, <2>1, FS_Subset, FS_CardinalityType
    <2>3. Rank(i) # 0
        BY <2>1, <2>2, FS_EmptySet
    <2> QED
        BY <1>2, <2>2, <2>3
<1>6. ASSUME NEW i \in P, NEW k \in P, Rank(i) = Rank(k), i < k PROVE FALSE
    <2>1. {j \in P : j <= i} \in SUBSET {j \in P : j <= k}
        BY <1>1, <1>6
    <2>2. k \in {j \in P : j <= k} /\ k \notin {j \in P : j <= i}
        BY <1>1, <1>6
    <2>3. IsFiniteSet({j \in P : j <= k})
        BY <1>1, FS_Subset
    <2>4. {j \in P : j <= i} # {j \in P : j <= k}
        BY <2>2
    <2> QED
        BY <1>6, <2>1, <2>3, <2>4, FS_Subset
<1>7. at \in [1 .. Cardinality(P) -> P]
    BY <1>3
<1>8. t \in Seq(X) /\ Len(t) = Cardinality(P)
    <2> HIDE DEF at, t
    <2>1. ASSUME NEW n \in 1 .. Cardinality(P) PROVE s[at[n]] \in X
        <3>1. at[n] \in DOMAIN s
            BY <1>7
        <3> QED
            BY <3>1
    <2>2. t \in [1 .. Cardinality(P) -> X]
        BY <1>4, <2>1
    <2> QED
        BY <1>2, <2>2
<1>9. ASSUME NEW i \in P PROVE at[Rank(i)] = i
    <2>1. at[Rank(i)] \in P /\ Rank(at[Rank(i)]) = Rank(i)
        BY <1>3, <1>5
    <2>2. at[Rank(i)] < i \/ i < at[Rank(i)] \/ i = at[Rank(i)]
        BY <2>1, <1>1
    <2> QED
        BY <1>6, <2>1, <2>2
<1>10. Selects(t, s, P, at)
    <2>1. \A n \in 1 .. Len(t) : t[n] = s[at[n]]
        BY <1>4, <1>8
    <2>2. \A m, n \in 1 .. Len(t) : at[m] = at[n] => m = n
        BY <1>3, <1>8
    <2>3. \A i \in P : \E n \in 1 .. Len(t) : at[n] = i
        BY <1>5, <1>8, <1>9
    <2> HIDE DEF at, t
    <2> QED
        BY <1>7, <1>8, <2>1, <2>2, <2>3 DEF Selects
<1>11. ASSUME NEW i \in P, NEW k \in P, i <= k PROVE Rank(i) <= Rank(k)
    <2>1. {j \in P : j <= i} \in SUBSET {j \in P : j <= k}
        BY <1>1, <1>11
    <2>2. IsFiniteSet({j \in P : j <= k})
        BY <1>1, FS_Subset
    <2> QED
        BY <2>1, <2>2, FS_Subset
<1>12. Counts(t, P, at)
    <2>1. \A n \in 1 .. Len(t) : Rank(at[n]) = n /\ at[n] \in P /\ at[n] \in Nat
        BY <1>1, <1>3, <1>8
    <2>4. \A n \in 1 .. Len(t) : Cardinality({j \in P : j <= at[n]}) = n
        BY <2>1
    <2> HIDE DEF at, t, Rank
    <2>2. ASSUME NEW m \in 1 .. Len(t), NEW n \in 1 .. Len(t), at[m] <= at[n] PROVE m <= n
        <3>1. Rank(at[m]) <= Rank(at[n])
            BY <1>11, <2>1, <2>2
        <3> QED
            BY <2>1, <3>1
    <2>3. ASSUME NEW m \in 1 .. Len(t), NEW n \in 1 .. Len(t), m <= n PROVE at[m] <= at[n]
        <3>1. CASE at[n] <= at[m]
            <4>1. n <= m
                BY <2>2, <3>1
            <4>2. m = n
                BY <2>3, <4>1
            <4> QED
                BY <2>1, <4>2
        <3>2. CASE ~(at[n] <= at[m])
            BY <2>1, <3>2
        <3> QED
            BY <3>1, <3>2
    <2> QED
        BY <2>2, <2>3, <2>4 DEF Counts
<1> QED
    BY <1>8, <1>10, <1>12

LEMMA SubsequenceSelects ==
    ASSUME NEW X, NEW s \in Seq(X), NEW P \in SUBSET DOMAIN s
    PROVE  /\ Subsequence(s, P) \in Seq(X)
           /\ \E at : Selects(Subsequence(s, P), s, P, at)
BY SubsequenceCounts

(* The messages of given kinds, and those they are about.                  *)
LEMMA OfKindElems ==
    ASSUME NEW X, NEW s \in Seq(X), NEW K
    PROVE  /\ OfKind(s, K) \in Seq(X)
           /\ \A n \in DOMAIN OfKind(s, K) :
                 /\ OfKind(s, K)[n].k \in K
                 /\ \E i \in DOMAIN s : s[i] = OfKind(s, K)[n]
           /\ \A i \in DOMAIN s : s[i].k \in K =>
                 \E n \in DOMAIN OfKind(s, K) : OfKind(s, K)[n] = s[i]
<1> DEFINE P == {i \in DOMAIN s : s[i].k \in K}
           t == OfKind(s, K)
<1>1. t = Subsequence(s, P)
    BY DEF OfKind
<1>2. t \in Seq(X) /\ \E at : Selects(t, s, P, at)
    BY <1>1, SubsequenceSelects
<1>3. PICK at : Selects(t, s, P, at)
    BY <1>2
<1> HIDE DEF t
<1>4. DOMAIN t = 1 .. Len(t)
    BY <1>2
<1>5. \A n \in DOMAIN t : t[n].k \in K /\ \E i \in DOMAIN s : s[i] = t[n]
    BY <1>3, <1>4 DEF Selects
<1>6. ASSUME NEW i \in DOMAIN s, s[i].k \in K PROVE \E n \in DOMAIN t : t[n] = s[i]
    <2>1. i \in P
        BY <1>6
    <2> HIDE DEF P
    <2>2. PICK n \in 1 .. Len(t) : at[n] = i
        BY <1>3, <2>1 DEF Selects
    <2>3. t[n] = s[i]
        BY <1>3, <2>2 DEF Selects
    <2> QED
        BY <1>4, <2>3
<1> QED
    BY <1>2, <1>5, <1>6 DEF t

LEMMA IdsOfKind ==
    ASSUME NEW X, NEW s \in Seq(X), NEW K, NEW x
    PROVE  x \in Ids(OfKind(s, K)) <=> \E i \in DOMAIN s : s[i].k \in K /\ s[i].id = x
<1> DEFINE t == OfKind(s, K)
<1>1. /\ \A n \in DOMAIN t : t[n].k \in K /\ \E i \in DOMAIN s : s[i] = t[n]
      /\ \A i \in DOMAIN s : s[i].k \in K => \E n \in DOMAIN t : t[n] = s[i]
    BY OfKindElems
<1> HIDE DEF t
<1>2. x \in Ids(t) <=> \E n \in DOMAIN t : t[n].id = x
    BY DEF Ids, ToSet
<1>3. x \in Ids(t) => \E i \in DOMAIN s : s[i].k \in K /\ s[i].id = x
    BY <1>1, <1>2
<1>4. ASSUME NEW i \in DOMAIN s, s[i].k \in K, s[i].id = x PROVE x \in Ids(t)
    BY <1>1, <1>2, <1>4
<1> QED
    BY <1>3, <1>4 DEF t

(* The error replies for the requests that cannot be encoded.              *)
LEMMA ReplyElems ==
    ASSUME NEW ids, IsFiniteSet(ids), NEW k
    PROVE  /\ Reply(k, ids) \in Seq([k : {k}, id : ids])
           /\ \A u \in ids : \E n \in DOMAIN Reply(k, ids) : Reply(k, ids)[n].id = u
           /\ \A m, n \in DOMAIN Reply(k, ids) :
                 Reply(k, ids)[m].id = Reply(k, ids)[n].id => m = n
<1> DEFINE S == {[k |-> k, id |-> u] : u \in ids}
           N == Cardinality(S)
           t == Reply(k, ids)
           f == [u \in ids |-> [k |-> k, id |-> u]]
<1>1. f \in Surjection(ids, S)
    BY DEF Surjection
<1>2. IsFiniteSet(S)
    BY <1>1, FS_Surjection
<1>3. N \in Nat /\ ExistsBijection(1 .. N, S)
    BY <1>2, FS_CardinalityType
<1>4. \E g \in [1 .. N -> S] : IsInjective(g)
    BY <1>3 DEF ExistsBijection, Bijection, Injection
<1>5. t \in [1 .. N -> S] /\ IsInjective(t)
    BY <1>4 DEF Reply, SetToSeq
<1>6. t \in Surjection(1 .. N, S)
    <2>1. IsFiniteSet(1 .. N) /\ Cardinality(1 .. N) = N
        BY <1>3, FS_Interval, 1 \in Int, N \in Int
    <2>2. t \in Injection(1 .. N, S)
        BY <1>5 DEF Injection
    <2> QED
        BY <1>2, <2>1, <2>2, FS_Injection
<1>7. \A m \in S : \E n \in 1 .. N : t[n] = m
    BY <1>6 DEF Surjection
<1>8. DOMAIN t = 1 .. N
    BY <1>5
<1>9. t \in Seq([k : {k}, id : ids])
    <2>1. S \subseteq [k : {k}, id : ids]
        OBVIOUS
    <2> HIDE DEF S, t, N
    <2>2. t \in [1 .. N -> [k : {k}, id : ids]]
        BY <1>5, <2>1
    <2> QED
        BY <1>3, <2>2, FunctionIsSeq
<1>11. \A n \in DOMAIN t : t[n] = [k |-> k, id |-> t[n].id]
    <2>1. \A m \in S : m = [k |-> k, id |-> m.id]
        OBVIOUS
    <2> HIDE DEF S, t, N
    <2> QED
        BY <1>5, <2>1
<1> HIDE DEF t
<1>10. ASSUME NEW u \in ids PROVE \E n \in DOMAIN t : t[n].id = u
    <2>1. PICK n \in DOMAIN t : t[n] = [k |-> k, id |-> u]
        BY <1>7, <1>8
    <2> QED
        BY <2>1
<1>12. \A m, n \in DOMAIN t : t[m].id = t[n].id => m = n
    BY <1>5, <1>11 DEF IsInjective
<1> QED
    BY <1>9, <1>10, <1>12 DEF t

(* What is taken from a queue, and what is left.                           *)
LEMMA TakenFacts ==
    ASSUME NEW X, NEW s \in Seq(X), NEW i \in 0 .. Len(s)
    PROVE  /\ SubSeq(s, 1, i) \in Seq(X) /\ Len(SubSeq(s, 1, i)) = i
           /\ DOMAIN SubSeq(s, 1, i) = 1 .. i
           /\ \A n \in 1 .. i : SubSeq(s, 1, i)[n] = s[n]
OBVIOUS

LEMMA LeftFacts ==
    ASSUME NEW X, NEW s \in Seq(X), NEW i \in 0 .. Len(s)
    PROVE  /\ SubSeq(s, i + 1, Len(s)) \in Seq(X)
           /\ Len(SubSeq(s, i + 1, Len(s))) = Len(s) - i
           /\ DOMAIN SubSeq(s, i + 1, Len(s)) = 1 .. (Len(s) - i)
           /\ \A n \in 1 .. (Len(s) - i) : SubSeq(s, i + 1, Len(s))[n] = s[n + i]
OBVIOUS

Added(o, s) == IF s = << >> THEN o ELSE Append(o, s)

LEMMA BatchAdded ==
    ASSUME NEW X, NEW o \in Seq(X), NEW s \in X \cup {<< >>}
    PROVE  o \o Batch(s) = Added(o, s) /\ Added(o, s) \in Seq(X)
<1>1. CASE s = << >>
    BY <1>1 DEF Batch, Added
<1>2. CASE s # << >>
    <2>1. Batch(s) = <<s>> /\ Added(o, s) = Append(o, s)
        BY <1>2 DEF Batch, Added
    <2>2. o \o <<s>> = Append(o, s)
        OBVIOUS
    <2> QED
        BY <2>1, <2>2, <1>2
<1> QED
    BY <1>1, <1>2

LEMMA SeqOfSubset ==
    ASSUME NEW X, NEW Y, X \subseteq Y, NEW s \in Seq(X)
    PROVE  s \in Seq(Y)
OBVIOUS

LEMMA KindsDiffer == Kinds \cap Outcomes = {} /\ Kinds \cap {"rebuild"} = {}
BY DEF Kinds, Sampled, Final, Errors, Outcomes

Downward == UserReply \cup RebuildReply

LEMMA UserReplies ==
    ASSUME NEW s \in Seq(Downward), NEW K \in SUBSET Kinds
    PROVE  OfKind(s, K) \in Seq(UserReply)
<1>1. /\ OfKind(s, K) \in Seq(Downward)
      /\ \A n \in DOMAIN OfKind(s, K) : OfKind(s, K)[n].k \in K
    BY OfKindElems
<1>2. ASSUME NEW n \in DOMAIN OfKind(s, K) PROVE OfKind(s, K)[n] \in UserReply
    <2>1. OfKind(s, K)[n] \in Downward /\ OfKind(s, K)[n].k \notin Outcomes
        BY <1>1, KindsDiffer
    <2> QED
        BY <2>1 DEF Downward, RebuildReply
<1> QED
    BY <1>1, <1>2

LEMMA RebuildReplies ==
    ASSUME NEW s \in Seq(Downward)
    PROVE  OfKind(s, Outcomes) \in Seq(RebuildReply)
<1>1. /\ OfKind(s, Outcomes) \in Seq(Downward)
      /\ \A n \in DOMAIN OfKind(s, Outcomes) : OfKind(s, Outcomes)[n].k \in Outcomes
    BY OfKindElems
<1>2. ASSUME NEW n \in DOMAIN OfKind(s, Outcomes)
      PROVE  OfKind(s, Outcomes)[n] \in RebuildReply
    <2>1. OfKind(s, Outcomes)[n] \in Downward /\ OfKind(s, Outcomes)[n].k \notin Kinds
        BY <1>1, KindsDiffer
    <2> QED
        BY <2>1 DEF Downward, UserReply
<1> QED
    BY <1>1, <1>2

-----------------------------------------------------------------------------
(* One pass of the tokenizer worker over the first i messages of one peer  *)
(* and the first j of the other, without the sequences it builds.          *)

WithResults(d) ==
    out \o [n \in DOMAIN OfKind(d, Outcomes) |-> <<OfKind(d, Outcomes)[n]>>]

WithAdmitted(d) == Added(WithResults(d), OfKind(d, {"admit"}))
WithSampled(d)  == Added(WithAdmitted(d), OfKind(d, Sampled))
WithErrors(d)   == Added(WithSampled(d), OfKind(d, Errors))
WithRefused(d, bad) == Added(WithErrors(d), Reply("error", bad))

Pass(i, j, bad) ==
    /\ i \in 0 .. Len(up) /\ j \in 0 .. Len(down) /\ bad \in SUBSET Uids /\ IsFiniteSet(bad)
    /\ \A u \in bad : \E n \in 1 .. i : up[n] = [k |-> "tokenize", id |-> u]
    /\ up' = SubSeq(up, i + 1, Len(up))
    /\ down' = SubSeq(down, j + 1, Len(down))
    /\ out' = WithRefused(SubSeq(down, 1, j), bad)
    /\ \A x : x \in toScheduler' <=>
          \/ x \in toScheduler
          \/ \E n \in 1 .. i : up[n].id = x /\ up[n].k = "rebuild"
          \/ x \notin bad /\ \E n \in 1 .. i : up[n].id = x /\ up[n].k = "tokenize"
    /\ \A x : x \in decode_map' <=>
          /\ x \in decode_map \/ \E n \in 1 .. j : down[n].id = x /\ down[n].k \in Sampled
          /\ \A n \in 1 .. j : down[n].id = x => down[n].k \notin Finished
          /\ \A n \in 1 .. i : up[n].id = x => up[n].k # "abort"
    /\ ackDue' = [u \in Uids |-> ackDue[u] + Cardinality(
                     {n \in 1 .. i : up[n] = [k |-> "abort", id |-> u]})]
    /\ UNCHANGED <<gateVars, listening, supVars, workerVars, userVars, call,
                   stopVars, sent, faults>>

LEMMA PassSequences ==
    ASSUME out \in Seq(ReplyBatch), NEW d \in Seq(Downward),
           NEW bad \in SUBSET Uids, IsFiniteSet(bad)
    PROVE  /\ GenerationReplies(
                  out \o [n \in DOMAIN OfKind(d, Outcomes) |-> <<OfKind(d, Outcomes)[n]>>],
                  OfKind(d, {"admit"}), OfKind(d, Sampled), OfKind(d, Errors))
                  \o RefusedReplies(bad) = WithRefused(d, bad)
           /\ WithResults(d) \in Seq(ReplyBatch) /\ WithAdmitted(d) \in Seq(ReplyBatch)
           /\ WithSampled(d) \in Seq(ReplyBatch) /\ WithErrors(d) \in Seq(ReplyBatch)
           /\ WithRefused(d, bad) \in Seq(ReplyBatch)
<1> DEFINE A == OfKind(d, {"admit"})
           B == OfKind(d, Sampled)
           C == OfKind(d, Errors)
           R == Reply("error", bad)
           res == OfKind(d, Outcomes)
           X == [n \in DOMAIN res |-> <<res[n]>>]
<1>1. A \in Seq(UserReply) /\ B \in Seq(UserReply) /\ C \in Seq(UserReply)
    BY UserReplies DEF Kinds
<1>2. R \in Seq(UserReply)
    <2>1. R \in Seq([k : {"error"}, id : bad])
        BY ReplyElems
    <2>2. [k : {"error"}, id : bad] \subseteq UserReply
        BY DEF UserReply, Kinds, Errors
    <2> HIDE DEF R
    <2> QED
        BY <2>1, <2>2, SeqOfSubset
<1>3. X \in Seq(ReplyBatch)
    <2>1. res \in Seq(RebuildReply)
        BY RebuildReplies
    <2> HIDE DEF res
    <2>2. \A n \in DOMAIN res : <<res[n]>> \in ReplyBatch
        BY <2>1 DEF ReplyBatch
    <2>3. DOMAIN res = 1 .. Len(res) /\ Len(res) \in Nat
        BY <2>1
    <2> QED
        BY <2>2, <2>3
<1> HIDE DEF X, A, B, C, R
<1>4. \A s \in Seq(UserReply) : s \in ReplyBatch \cup {<< >>}
    BY DEF ReplyBatch
<1>5. out \o X \in Seq(ReplyBatch)
    BY <1>3
<1>6. /\ Batch(A) \in Seq(ReplyBatch) /\ Batch(B) \in Seq(ReplyBatch)
      /\ Batch(C) \in Seq(ReplyBatch) /\ Batch(R) \in Seq(ReplyBatch)
    BY <1>1, <1>2, <1>4 DEF Batch
<1>7. /\ (out \o X) \o Batch(A) = Added(out \o X, A)
      /\ Added(out \o X, A) \in Seq(ReplyBatch)
    BY <1>1, <1>4, <1>5, BatchAdded
<1> DEFINE o2 == Added(out \o X, A)
           o3 == Added(o2, B)
           o4 == Added(o3, C)
<1> HIDE DEF o2, o3, o4
<1>8. o2 \in Seq(ReplyBatch)
    BY <1>7 DEF o2
<1>9. o2 \o Batch(B) = o3 /\ o3 \in Seq(ReplyBatch)
    BY <1>1, <1>4, <1>8, BatchAdded DEF o3
<1>10. o3 \o Batch(C) = o4 /\ o4 \in Seq(ReplyBatch)
    BY <1>1, <1>4, <1>9, BatchAdded DEF o4
<1>11. o4 \o Batch(R) = Added(o4, R) /\ Added(o4, R) \in Seq(ReplyBatch)
    BY <1>2, <1>4, <1>10, BatchAdded
<1>13. WithResults(d) = out \o X /\ WithAdmitted(d) = o2 /\ WithSampled(d) = o3
       /\ WithErrors(d) = o4 /\ WithRefused(d, bad) = Added(o4, R)
    BY DEF WithResults, WithAdmitted, WithSampled, WithErrors, WithRefused, X, A, B, C, R,
           o2, o3, o4
<1>14. /\ GenerationReplies(out \o X, OfKind(d, {"admit"}), OfKind(d, Sampled),
                            OfKind(d, Errors))
              = (out \o X) \o Batch(A) \o Batch(B) \o Batch(C)
       /\ RefusedReplies(bad) = Batch(R)
    BY DEF GenerationReplies, RefusedReplies, A, B, C, R
<1>15. out \o [n \in DOMAIN OfKind(d, Outcomes) |-> <<OfKind(d, Outcomes)[n]>>] = out \o X
    BY DEF X
<1>16. GenerationReplies(out \o X, OfKind(d, {"admit"}), OfKind(d, Sampled),
                         OfKind(d, Errors)) = o4
    BY <1>7, <1>9, <1>10, <1>14 DEF o2
<1> QED
    BY <1>5, <1>8, <1>9, <1>10, <1>11, <1>13, <1>14, <1>15, <1>16

LEMMA TokenizerPass ==
    ASSUME TypeOK, TokenizerStep
    PROVE  \E i, j \in Nat : \E bad \in SUBSET Uids : Pass(i, j, bad)
<1>0. up \in Seq(Requested) /\ down \in Seq(Downward) /\ out \in Seq(ReplyBatch)
    BY DEF TypeOK, QueueTypes, Downward
<1>1. PICK i \in 0 .. Len(up) : \E j \in 0 .. Len(down) :
         LET b == SubSeq(up, 1, i)
             d == SubSeq(down, 1, j)
             asked == Ids(OfKind(b, {"tokenize"}))
             results == OfKind(d, Outcomes)
         IN  /\ i + j \in 1 .. LocalBs
             /\ up' = SubSeq(up, i + 1, Len(up))
             /\ down' = SubSeq(down, j + 1, Len(down))
             /\ decode_map' = Detokenized(d) \ Discarded(d, b)
             /\ \E bad \in SUBSET asked :
                  /\ out' = GenerationReplies(
                                out \o [n \in DOMAIN results |-> <<results[n]>>],
                                OfKind(d, {"admit"}), OfKind(d, Sampled),
                                OfKind(d, Errors)) \o RefusedReplies(bad)
                  /\ toScheduler' = toScheduler \cup Ids(OfKind(b, {"rebuild"}))
                                                \cup (asked \ bad)
             /\ ackDue' = [u \in Uids |-> ackDue[u] + Cardinality(
                              {n \in DOMAIN b : b[n] = [k |-> "abort", id |-> u]})]
    BY DEF TokenizerStep
<1>2. PICK j \in 0 .. Len(down) :
         LET b == SubSeq(up, 1, i)
             d == SubSeq(down, 1, j)
             asked == Ids(OfKind(b, {"tokenize"}))
             results == OfKind(d, Outcomes)
         IN  /\ up' = SubSeq(up, i + 1, Len(up))
             /\ down' = SubSeq(down, j + 1, Len(down))
             /\ decode_map' = Detokenized(d) \ Discarded(d, b)
             /\ \E bad \in SUBSET asked :
                  /\ out' = GenerationReplies(
                                out \o [n \in DOMAIN results |-> <<results[n]>>],
                                OfKind(d, {"admit"}), OfKind(d, Sampled),
                                OfKind(d, Errors)) \o RefusedReplies(bad)
                  /\ toScheduler' = toScheduler \cup Ids(OfKind(b, {"rebuild"}))
                                                \cup (asked \ bad)
             /\ ackDue' = [u \in Uids |-> ackDue[u] + Cardinality(
                              {n \in DOMAIN b : b[n] = [k |-> "abort", id |-> u]})]
    BY <1>1
<1> DEFINE b == SubSeq(up, 1, i)
           d == SubSeq(down, 1, j)
           asked == Ids(OfKind(b, {"tokenize"}))
           results == OfKind(d, Outcomes)
<1>3. PICK bad \in SUBSET asked :
                  /\ out' = GenerationReplies(
                                out \o [n \in DOMAIN results |-> <<results[n]>>],
                                OfKind(d, {"admit"}), OfKind(d, Sampled),
                                OfKind(d, Errors)) \o RefusedReplies(bad)
                  /\ toScheduler' = toScheduler \cup Ids(OfKind(b, {"rebuild"}))
                                                \cup (asked \ bad)
    BY <1>2
<1>4. /\ b \in Seq(Requested) /\ DOMAIN b = 1 .. i /\ \A n \in 1 .. i : b[n] = up[n]
      /\ d \in Seq(Downward) /\ DOMAIN d = 1 .. j /\ \A n \in 1 .. j : d[n] = down[n]
    BY <1>0, TakenFacts
<1>5. /\ up' = SubSeq(up, i + 1, Len(up)) /\ down' = SubSeq(down, j + 1, Len(down))
      /\ decode_map' = Detokenized(d) \ Discarded(d, b)
      /\ ackDue' = [u \in Uids |-> ackDue[u] + Cardinality(
                       {n \in DOMAIN b : b[n] = [k |-> "abort", id |-> u]})]
    BY <1>2
<1> HIDE DEF b, d
<1>6. ASSUME NEW x, NEW K PROVE x \in Ids(OfKind(b, K)) <=> \E n \in 1 .. i : up[n].k \in K /\ up[n].id = x
    BY <1>4, IdsOfKind
<1>7. ASSUME NEW x, NEW K PROVE x \in Ids(OfKind(d, K)) <=> \E n \in 1 .. j : down[n].k \in K /\ down[n].id = x
    BY <1>4, IdsOfKind
<1>8. \A n \in 1 .. i : up[n] \in Requested
    BY <1>0
<1>9. ASSUME NEW u \in bad PROVE u \in Uids /\ \E n \in 1 .. i : up[n] = [k |-> "tokenize", id |-> u]
    <2>1. PICK n \in 1 .. i : up[n].k \in {"tokenize"} /\ up[n].id = u
        BY <1>6
    <2>2. up[n] \in Requested /\ up[n].k = "tokenize"
        BY <1>8, <2>1
    <2>3. up[n] \in [k : {"tokenize", "abort"}, id : Uids]
        BY <2>2 DEF Requested
    <2> QED
        BY <2>1, <2>2, <2>3
<1>10. IsFiniteSet(bad)
    <2>1. IsFiniteSet(1 .. i)
        BY FS_Interval, 1 \in Int, i \in Int
    <2> DEFINE S == {n \in 1 .. i : up[n].id \in bad}
               f == [n \in S |-> up[n].id]
    <2>2. IsFiniteSet(S)
        BY <2>1, FS_Subset
    <2>3. f \in Surjection(S, bad)
        <3>1. f \in [S -> bad]
            OBVIOUS
        <3>2. ASSUME NEW u \in bad PROVE \E n \in S : f[n] = u
            <4>1. PICK n \in 1 .. i : up[n] = [k |-> "tokenize", id |-> u]
                BY <1>9
            <4>2. n \in S /\ f[n] = u
                BY <4>1
            <4> QED
                BY <4>2
        <3> QED
            BY <3>1, <3>2 DEF Surjection
    <2> QED
        BY <2>2, <2>3, FS_Surjection
<1>11. out' = WithRefused(d, bad)
    BY <1>0, <1>3, <1>4, <1>9, <1>10, PassSequences
<1>12. ASSUME NEW x
       PROVE  x \in toScheduler' <=>
          \/ x \in toScheduler
          \/ \E n \in 1 .. i : up[n].id = x /\ up[n].k = "rebuild"
          \/ x \notin bad /\ \E n \in 1 .. i : up[n].id = x /\ up[n].k = "tokenize"
    <2>1. x \in toScheduler' <=> x \in toScheduler \/ x \in Ids(OfKind(b, {"rebuild"}))
                                    \/ (x \in asked /\ x \notin bad)
        BY <1>3
    <2> QED
        BY <2>1, <1>6
<1>13. ASSUME NEW x
       PROVE  x \in decode_map' <=>
          /\ x \in decode_map \/ \E n \in 1 .. j : down[n].id = x /\ down[n].k \in Sampled
          /\ \A n \in 1 .. j : down[n].id = x => down[n].k \notin Finished
          /\ \A n \in 1 .. i : up[n].id = x => up[n].k # "abort"
    <2>1. x \in decode_map' <=>
             /\ x \in decode_map \/ x \in Ids(OfKind(d, Sampled))
             /\ x \notin Ids(OfKind(d, Final)) /\ x \notin Ids(OfKind(d, Errors))
             /\ x \notin Ids(OfKind(b, {"abort"}))
        BY <1>5 DEF Detokenized, Discarded
    <2>2. \A k : k \in Finished <=> k \in Final \/ k \in Errors
        BY DEF Finished
    <2> QED
        BY <2>1, <2>2, <1>6, <1>7
<1>14. ackDue' = [u \in Uids |-> ackDue[u] + Cardinality(
                     {n \in 1 .. i : up[n] = [k |-> "abort", id |-> u]})]
    <2>1. \A u : {n \in DOMAIN b : b[n] = [k |-> "abort", id |-> u]}
                     = {n \in 1 .. i : up[n] = [k |-> "abort", id |-> u]}
        BY <1>4
    <2> QED
        BY <1>5, <2>1
<1>15. UNCHANGED <<gateVars, listening, supVars, workerVars, userVars, call,
                   stopVars, sent, faults>>
    BY DEF TokenizerStep
<1>16. Pass(i, j, bad)
    BY <1>5, <1>9, <1>10, <1>11, <1>12, <1>13, <1>14, <1>15 DEF Pass, d
<1>17. i \in Nat /\ j \in Nat
    BY <1>0
<1>18. bad \in SUBSET Uids
    BY <1>9
<1> QED
    BY <1>16, <1>17, <1>18

-----------------------------------------------------------------------------
(* Types.                                                                  *)

LEMMA TypeInit == Init => TypeOK
<1> SUFFICES ASSUME Init PROVE TypeOK
    OBVIOUS
<1>1. \A X : << >> \in Seq(X)
    OBVIOUS
<1>2. DOMAIN ack_map = {} /\ ack_map \in [{} -> Seq(Kinds)]
    BY DEF Init
<1> QED
    BY <1>1, <1>2 DEF Init, TypeOK, GateTypes, UserTypes, StopTypes, QueueTypes, Gates, Pending, Workers

(* Sends to the tokenizer worker.                                          *)
LEMMA SendTypes ==
    ASSUME QueueTypes, StopTypes, NEW m \in Requested,
           \/ Send(m.k, m.id) \/ SendRaises
    PROVE  /\ up' \in Seq(Requested) /\ listening' \in BOOLEAN /\ faults' \in Nat
           /\ up' = up \/ up' = Append(up, m)
<1>1. CASE Send(m.k, m.id)
    <2>1. [k |-> m.k, id |-> m.id] = m
        BY DEF Requested
    <2> QED
        BY <1>1, <2>1 DEF Send, QueueTypes, StopTypes
<1>2. CASE SendRaises
    BY <1>2 DEF SendRaises, CanFail, QueueTypes, StopTypes
<1> QED
    BY <1>1, <1>2

(* The batches of replies the API server finds.                            *)
LEMMA HeadBatch ==
    ASSUME QueueTypes, out # << >>
    PROVE  /\ Head(out) = out[1] /\ out[1] \in ReplyBatch /\ Len(out) \in Nat /\ 1 <= Len(out)
           /\ Tail(out) \in Seq(ReplyBatch) /\ Len(Tail(out)) = Len(out) - 1
           /\ \A n \in 1 .. (Len(out) - 1) : Tail(out)[n] = out[n + 1]
           /\ Head(out)[1].id \in Uids => Head(out) \in Seq(UserReply) /\ Head(out) # << >>
           /\ Head(out)[1].id \in Rebuilds =>
                 Head(out)[1] \in RebuildReply /\ Head(out) = <<Head(out)[1]>>
<1>1. out \in Seq(ReplyBatch)
    BY DEF QueueTypes
<1>2. /\ Head(out) = out[1] /\ out[1] \in ReplyBatch /\ Len(out) \in Nat /\ 1 <= Len(out)
      /\ Tail(out) \in Seq(ReplyBatch) /\ Len(Tail(out)) = Len(out) - 1
      /\ \A n \in 1 .. (Len(out) - 1) : Tail(out)[n] = out[n + 1]
    BY <1>1
<1>3. CASE out[1] \in Seq(UserReply) \ {<< >>}
    <2>1. out[1][1] \in UserReply
        BY <1>3
    <2>2. out[1][1].id \in Uids
        BY <2>1 DEF UserReply
    <2> QED
        BY <1>2, <1>3, <2>2, IdsAssumption
<1>4. CASE \E m \in RebuildReply : out[1] = <<m>>
    <2>1. PICK m \in RebuildReply : out[1] = <<m>>
        BY <1>4
    <2>2. out[1][1] = m /\ m.id \in Rebuilds
        BY <2>1 DEF RebuildReply
    <2> QED
        BY <1>2, <2>1, <2>2, IdsAssumption
<1> QED
    BY <1>2, <1>3, <1>4 DEF ReplyBatch

LEMMA CountTypes ==
    ASSUME NEW s \in Seq(UserReply), NEW u
    PROVE  KindsOf(OfUid(s, u)) \in Seq(Kinds) /\ Units(KindsOf(OfUid(s, u))) \in Nat
<1> DEFINE t == OfUid(s, u)
           c == KindsOf(t)
<1>1. t \in Seq(UserReply)
    BY SubsequenceSelects DEF OfUid
<1> HIDE DEF t
<1>2. c \in Seq(Kinds)
    <2>1. c = [i \in 1 .. Len(t) |-> t[i].k] /\ Len(t) \in Nat
        BY <1>1 DEF KindsOf
    <2>2. ASSUME NEW i \in 1 .. Len(t) PROVE t[i].k \in Kinds
        <3>1. t[i] \in UserReply
            BY <1>1
        <3> QED
            BY <3>1 DEF UserReply
    <2>3. c \in [1 .. Len(t) -> Kinds]
        BY <2>1, <2>2
    <2> QED
        BY <2>1, <2>3
<1> HIDE DEF c
<1>3. IsFiniteSet(DOMAIN c)
    <2>1. DOMAIN c = 1 .. Len(c) /\ Len(c) \in Nat
        BY <1>2
    <2> QED
        BY <2>1, FS_Interval, 1 \in Int
<1>4. Units(c) \in Nat
    <2>1. IsFiniteSet({i \in DOMAIN c : c[i] \in Billable})
        BY <1>3, FS_Subset
    <2> QED
        BY <2>1, FS_CardinalityType DEF Units
<1> QED
    BY <1>2, <1>4 DEF t, c

LEMMA SubmitTypes ==
    ASSUME TypeOK, NEW u \in Uids, Submit(u)
    PROVE  TypeOK'
<1>1. ack_map' = [v \in DOMAIN ack_map \cup {u} |->
                      IF v = u THEN << >> ELSE ack_map[v]]
      /\ inflight' = inflight \cup {u}
      /\ UNCHANGED <<gateVars, supVars, workerVars, seen, counted, sleeping, call,
                   stopVars, out, tokVars, down, schedVars>>
      /\ \/ Send("tokenize", u) /\ client' = [client EXCEPT ![u] = "waiting"]
         \/ SendRaises /\ client' = [client EXCEPT ![u] = "broken"]
    BY DEF Submit
<1>2. [k |-> "tokenize", id |-> u] \in Requested
    BY DEF Requested
<1>3. up' \in Seq(Requested) /\ listening' \in BOOLEAN /\ faults' \in Nat
    BY <1>1, <1>2, SendTypes DEF TypeOK
<1>4. << >> \in Seq(Kinds)
    OBVIOUS
<1>5. UserTypes'
    BY <1>1, <1>4 DEF TypeOK, UserTypes
<1> QED
    BY <1>1, <1>3, <1>5 DEF TypeOK, GateTypes, StopTypes, QueueTypes, gateVars, supVars,
       workerVars, stopVars, tokVars, schedVars

LEMMA ConsumeTypes ==
    ASSUME TypeOK, NEW u \in Uids, Consume(u)
    PROVE  TypeOK'
<1>1. u \in DOMAIN ack_map /\ ack_map[u] \in Seq(Kinds) /\ seen[u] \in Seq(Kinds)
    BY DEF Consume, TypeOK, UserTypes
<1>2. seen[u] \o ack_map[u] \in Seq(Kinds) /\ << >> \in Seq(Kinds)
    BY <1>1
<1>3. UserTypes'
    <2>1. seen' \in [Uids -> Seq(Kinds)]
        BY <1>2 DEF Consume, TypeOK, UserTypes
    <2>2. /\ DOMAIN ack_map' \subseteq Uids
          /\ ack_map' \in [DOMAIN ack_map' -> Seq(Kinds)]
        BY <1>2 DEF Consume, TypeOK, UserTypes, Unregistered
    <2>3. client' \in [Uids -> {"new", "waiting", "done", "gone", "broken"}]
        BY DEF Consume, TypeOK, UserTypes
    <2> QED
        BY <2>1, <2>2, <2>3 DEF Consume, TypeOK, UserTypes
<1> QED
    BY <1>3 DEF Consume, TypeOK, GateTypes, StopTypes, QueueTypes, gateVars, supVars,
       workerVars, stopVars, tokVars, schedVars

LEMMA DisconnectTypes ==
    ASSUME TypeOK, NEW u \in Uids, Disconnect(u)
    PROVE  TypeOK'
<1>1. UserTypes'
    BY DEF Disconnect, TypeOK, UserTypes, Unregistered
<1> QED
    BY <1>1 DEF Disconnect, TypeOK, GateTypes, StopTypes, QueueTypes, gateVars, supVars,
       workerVars, stopVars, tokVars, schedVars

LEMMA AbortUserTypes ==
    ASSUME TypeOK, NEW u \in Uids, NEW who \in {"client", "stop"}, AbortUser(u, who)
    PROVE  TypeOK'
<1>1. [k |-> "abort", id |-> u] \in Requested
    BY DEF Requested
<1>2. Send("abort", u) \/ SendRaises
    BY DEF AbortUser
<1>3. up' \in Seq(Requested) /\ listening' \in BOOLEAN /\ faults' \in Nat
    BY <1>1, <1>2, SendTypes DEF TypeOK
<1>4. UserTypes'
    BY DEF AbortUser, TypeOK, UserTypes, Unregistered
<1>5. stop' \in {"idle", "draining", "aborting", "waiting", "sealed", "error"}
    BY DEF AbortUser, TypeOK, StopTypes
<1> QED
    BY <1>3, <1>4, <1>5 DEF AbortUser, TypeOK, GateTypes, StopTypes, QueueTypes, gateVars, supVars,
       workerVars, stopVars, tokVars, schedVars

LEMMA ListenRepliesTypes ==
    ASSUME TypeOK, ListenReplies
    PROVE  TypeOK'
<1> DEFINE b == Head(out)
<1>1. /\ b \in Seq(UserReply) /\ Tail(out) \in Seq(ReplyBatch) /\ out' = Tail(out)
    BY HeadBatch DEF ListenReplies, TypeOK
<1> HIDE DEF b
<1>2. /\ counted' = [u \in Uids |-> counted[u] + Units(KindsOf(OfUid(b, u)))]
      /\ inflight' = inflight \ Ids(OfKind(b, Finished))
      /\ ack_map' = [u \in DOMAIN ack_map |-> ack_map[u] \o KindsOf(OfUid(b, u))]
    BY DEF ListenReplies, Observed, b
<1>3. \A u : KindsOf(OfUid(b, u)) \in Seq(Kinds) /\ Units(KindsOf(OfUid(b, u))) \in Nat
    BY <1>1, CountTypes
<1>4. counted' \in [Uids -> Nat] /\ inflight' \subseteq Uids
    BY <1>2, <1>3 DEF TypeOK, UserTypes
<1>5. ack_map' \in [DOMAIN ack_map' -> Seq(Kinds)] /\ DOMAIN ack_map' \subseteq Uids
    <2>1. ASSUME NEW u \in DOMAIN ack_map
          PROVE  ack_map[u] \o KindsOf(OfUid(b, u)) \in Seq(Kinds)
        <3>1. ack_map[u] \in Seq(Kinds)
            BY DEF TypeOK, UserTypes
        <3> QED
            BY <1>3, <3>1, ConcatProperties
    <2> QED
        BY <1>2, <2>1 DEF TypeOK, UserTypes
<1>6. UserTypes'
    BY <1>4, <1>5 DEF ListenReplies, TypeOK, UserTypes
<1> QED
    BY <1>1, <1>6 DEF ListenReplies, TypeOK, GateTypes, StopTypes, QueueTypes, gateVars, supVars,
       workerVars, stopVars, tokVars, schedVars

LEMMA RebuildTypes ==
    ASSUME TypeOK, NEW r \in Rebuilds,
           CacheRebuild(r) \/ CloseGate(r) \/ SendRebuild(r) \/ TimeoutRebuild(r)
    PROVE  TypeOK'
<1>1. CASE CacheRebuild(r)
    BY <1>1 DEF CacheRebuild, TypeOK, GateTypes, UserTypes, StopTypes, QueueTypes, gateVars,
       supVars, workerVars, userVars, stopVars, tokVars, schedVars, Pending
<1>2. CASE CloseGate(r)
    BY <1>2 DEF CloseGate, TypeOK, GateTypes, UserTypes, StopTypes, QueueTypes, gateVars,
       supVars, workerVars, userVars, stopVars, tokVars, schedVars, Pending, Gates
<1>3. CASE SendRebuild(r)
    <2>1. [k |-> "rebuild", id |-> r] \in Requested
        BY DEF Requested
    <2>2. Send("rebuild", r) \/ SendRaises
        BY <1>3 DEF SendRebuild
    <2>3. up' \in Seq(Requested) /\ listening' \in BOOLEAN /\ faults' \in Nat
        BY <2>1, <2>2, SendTypes DEF TypeOK
    <2>4. GateTypes'
        BY <1>3, <2>3 DEF SendRebuild, TypeOK, GateTypes, supVars, workerVars, Pending, Gates,
           Outcomes
    <2> QED
        BY <1>3, <2>3, <2>4 DEF SendRebuild, TypeOK, UserTypes, StopTypes, QueueTypes,
           userVars, stopVars, tokVars, schedVars
<1>4. CASE TimeoutRebuild(r)
    BY <1>4 DEF TimeoutRebuild, TypeOK, GateTypes, UserTypes, StopTypes, QueueTypes, gateVars,
       supVars, workerVars, userVars, stopVars, tokVars, schedVars, Pending
<1> QED
    BY <1>1, <1>2, <1>3, <1>4

LEMMA ResolveTypes ==
    ASSUME TypeOK, ResolveRebuild \/ Reopen \/ ResolveAll
    PROVE  TypeOK'
<1>1. CASE ResolveRebuild
    <2>1. /\ Tail(out) \in Seq(ReplyBatch) /\ out' = Tail(out)
          /\ Head(out)[1] \in RebuildReply
        BY <1>1, HeadBatch DEF ResolveRebuild, TypeOK
    <2>2. loop' \in Pending
        BY <1>1 DEF ResolveRebuild, AfterReply, NewGate, Pending
    <2>3. call' \in [Rebuilds -> {"new", "pending", "timeout"} \cup Outcomes]
        BY <1>1, <2>1 DEF ResolveRebuild, TypeOK, GateTypes, RebuildReply
    <2> QED
        BY <1>1, <2>1, <2>2, <2>3 DEF ResolveRebuild, TypeOK, GateTypes, UserTypes, StopTypes,
           QueueTypes, supVars, workerVars, userVars, stopVars, tokVars, schedVars
<1>2. CASE Reopen
    <2>1. loop[2] \in Gates
        BY <1>2 DEF Reopen, Gates
    <2> QED
        BY <1>2, <2>1 DEF Reopen, TypeOK, GateTypes, UserTypes, StopTypes, QueueTypes,
           supVars, workerVars, userVars, stopVars, tokVars, schedVars, Pending
<1>3. CASE ResolveAll
    BY <1>3 DEF ResolveAll, TypeOK, GateTypes, UserTypes, StopTypes, QueueTypes, gateVars,
       workerVars, userVars, stopVars, tokVars, schedVars, Pending, Outcomes
<1> QED
    BY <1>1, <1>2, <1>3

StopStep == StopBegin \/ StopSeal \/ StopAbort \/ StopAborted \/ StopTimeout

LEMMA StopStepTypes ==
    ASSUME TypeOK, StopStep
    PROVE  TypeOK'
<1>1. CASE StopBegin
    BY <1>1 DEF StopBegin, TypeOK, GateTypes, UserTypes, StopTypes, QueueTypes, Gates,
       supVars, workerVars, userVars, stopVars, tokVars, schedVars
<1>2. CASE StopSeal
    BY <1>2 DEF StopSeal, TypeOK, GateTypes, UserTypes, StopTypes, QueueTypes, gateVars,
       supVars, workerVars, userVars, tokVars, schedVars
<1>3. CASE StopAbort
    <2>1. sleeping' \subseteq Uids \X {"client", "stop"}
        BY <1>3 DEF StopAbort, TypeOK, UserTypes
    <2> QED
        BY <1>3, <2>1 DEF StopAbort, TypeOK, GateTypes, UserTypes, StopTypes, QueueTypes, gateVars,
           supVars, workerVars, tokVars, schedVars
<1>4. CASE StopAborted
    BY <1>4 DEF StopAborted, TypeOK, GateTypes, UserTypes, StopTypes, QueueTypes, gateVars,
       supVars, workerVars, userVars, tokVars, schedVars
<1>5. CASE StopTimeout
    BY <1>5 DEF StopTimeout, TypeOK, GateTypes, UserTypes, StopTypes, QueueTypes, gateVars,
       supVars, workerVars, userVars, tokVars, schedVars
<1> QED
    BY <1>1, <1>2, <1>3, <1>4, <1>5 DEF StopStep

LEMMA SupervisorTypes ==
    ASSUME TypeOK, SupervisorStep
    PROVE  TypeOK'
<1>1. GateTypes'
    BY DEF SupervisorStep, SupTestGate, SupOpenGate, SupDeath, SupLatch, SupWake, Supervisor,
       TypeOK, GateTypes, gateVars, workerVars, Gates
<1> QED
    BY <1>1 DEF SupervisorStep, TypeOK, UserTypes, StopTypes, QueueTypes, userVars, stopVars,
       tokVars, schedVars

LEMMA TokenizerTypes ==
    ASSUME TypeOK, TokenizerStep
    PROVE  TypeOK'
<1>1. PICK i, j \in Nat : \E bad \in SUBSET Uids : Pass(i, j, bad)
    BY TokenizerPass
<1>2. PICK bad \in SUBSET Uids : Pass(i, j, bad)
    BY <1>1
<1>3. /\ i \in 0 .. Len(up) /\ j \in 0 .. Len(down) /\ IsFiniteSet(bad)
      /\ up' = SubSeq(up, i + 1, Len(up))
      /\ down' = SubSeq(down, j + 1, Len(down))
      /\ out' = WithRefused(SubSeq(down, 1, j), bad)
      /\ UNCHANGED <<gateVars, listening, supVars, workerVars, userVars, call,
                   stopVars, sent, faults>>
    BY <1>2 DEF Pass
<1>4. up \in Seq(Requested) /\ down \in Seq(Downward) /\ out \in Seq(ReplyBatch)
    BY DEF TypeOK, QueueTypes, Downward
<1>5. up' \in Seq(Requested) /\ down' \in Seq(UserReply \cup RebuildReply)
    BY <1>3, <1>4, LeftFacts DEF Downward
<1>6. out' \in Seq(ReplyBatch)
    BY <1>3, <1>4, TakenFacts, PassSequences
<1>7. \A n \in 1 .. i : up[n] \in Requested
    BY <1>3, <1>4
<1>8. toScheduler' \subseteq Uids \cup Rebuilds
    <2>1. \A n \in 1 .. i : up[n].id \in Uids \cup Rebuilds
        BY <1>7 DEF Requested
    <2>2. ASSUME NEW x \in toScheduler'
          PROVE  x \in toScheduler \/ \E n \in 1 .. i : up[n].id = x
        <3>1. \/ x \in toScheduler
              \/ \E n \in 1 .. i : up[n].id = x /\ up[n].k = "rebuild"
              \/ x \notin bad /\ \E n \in 1 .. i : up[n].id = x /\ up[n].k = "tokenize"
            BY <1>2 DEF Pass
        <3> QED
            BY <3>1
    <2>3. toScheduler \subseteq Uids \cup Rebuilds
        BY DEF TypeOK, QueueTypes
    <2> QED
        BY <2>1, <2>2, <2>3
<1>9. decode_map' \subseteq Uids
    <2>1. ASSUME NEW n \in 1 .. j, down[n].k \in Sampled PROVE down[n].id \in Uids
        <3>1. down[n] \in Downward /\ down[n].k \notin Outcomes
            BY <1>3, <1>4, <2>1, KindsDiffer DEF Kinds
        <3> QED
            BY <3>1 DEF Downward, UserReply, RebuildReply
    <2>2. ASSUME NEW x \in decode_map' PROVE x \in Uids
        <3>1. x \in decode_map \/ \E n \in 1 .. j : down[n].id = x /\ down[n].k \in Sampled
            BY <1>2 DEF Pass
        <3> QED
            BY <2>1, <3>1 DEF TypeOK, QueueTypes
    <2> QED
        BY <2>2
<1>10. ackDue' \in [Uids -> Nat]
    <2>1. IsFiniteSet(1 .. i)
        BY FS_Interval, 1 \in Int, i \in Int
    <2>2. \A u : Cardinality({n \in 1 .. i : up[n] = [k |-> "abort", id |-> u]}) \in Nat
        <3> TAKE u
        <3>1. IsFiniteSet({n \in 1 .. i : up[n] = [k |-> "abort", id |-> u]})
            BY <2>1, FS_Subset
        <3> QED
            BY <3>1, FS_CardinalityType
    <2>3. ackDue' = [u \in Uids |-> ackDue[u] + Cardinality(
                        {n \in 1 .. i : up[n] = [k |-> "abort", id |-> u]})]
        BY <1>2 DEF Pass
    <2>4. ackDue \in [Uids -> Nat]
        BY DEF TypeOK, QueueTypes
    <2> QED
        BY <2>2, <2>3, <2>4
<1>11. QueueTypes'
    BY <1>3, <1>5, <1>6, <1>8, <1>9, <1>10 DEF TypeOK, QueueTypes
<1> QED
    BY <1>3, <1>11 DEF TypeOK, GateTypes, UserTypes, StopTypes, gateVars, supVars, workerVars,
       userVars, stopVars

LEMMA SchedulerTypesKept ==
    ASSUME TypeOK, Replies
    PROVE  TypeOK'
<1>1. ASSUME NEW u \in Uids, NEW k \in Kinds, SchedulerReply(u, k) PROVE TypeOK'
    <2>1. [k |-> k, id |-> u] \in UserReply
        BY DEF UserReply
    <2>2. down' \in Seq(UserReply \cup RebuildReply)
        BY <1>1, <2>1 DEF SchedulerReply, TypeOK, QueueTypes
    <2>3. sent' \in [Uids -> Seq(Kinds)]
        BY <1>1 DEF SchedulerReply, TypeOK, QueueTypes
    <2>4. ackDue' \in [Uids -> Nat] /\ toScheduler' \subseteq Uids \cup Rebuilds
        BY <1>1 DEF SchedulerReply, MaySend, TypeOK, QueueTypes
    <2> QED
        BY <1>1, <2>2, <2>3, <2>4 DEF SchedulerReply, TypeOK, GateTypes, UserTypes, StopTypes,
           QueueTypes, gateVars, supVars, workerVars, userVars, stopVars, tokVars
<1>2. ASSUME NEW r \in Rebuilds, NEW k \in Outcomes, SchedulerRebuilt(r, k) PROVE TypeOK'
    <2>1. [k |-> k, id |-> r] \in RebuildReply
        BY DEF RebuildReply
    <2>2. down' \in Seq(UserReply \cup RebuildReply)
        BY <1>2, <2>1 DEF SchedulerRebuilt, TypeOK, QueueTypes
    <2> QED
        BY <1>2, <2>2 DEF SchedulerRebuilt, TypeOK, GateTypes, UserTypes, StopTypes,
           QueueTypes, gateVars, supVars, workerVars, userVars, stopVars, tokVars
<1> QED
    BY <1>1, <1>2 DEF Replies

LEMMA WorkerTypes ==
    ASSUME TypeOK, WorkersReady \/ \E w \in Workers : WorkerDies(w)
    PROVE  TypeOK'
<1>1. CASE WorkersReady
    BY <1>1 DEF WorkersReady, TypeOK, GateTypes, UserTypes, StopTypes, QueueTypes, gateVars,
       supVars, userVars, stopVars, tokVars, schedVars
<1>2. CASE \E w \in Workers : WorkerDies(w)
    BY <1>2 DEF WorkerDies, CanFail, TypeOK, GateTypes, UserTypes, StopTypes, QueueTypes,
       gateVars, supVars, userVars, stopVars, tokVars, schedVars
<1> QED
    BY <1>1, <1>2

LEMMA UnchangedTypes ==
    ASSUME TypeOK, UNCHANGED vars
    PROVE  TypeOK'
BY DEF vars, TypeOK, GateTypes, UserTypes, StopTypes, QueueTypes, gateVars, supVars, workerVars,
   userVars, stopVars, tokVars, schedVars

LEMMA NextTypes ==
    ASSUME TypeOK, [Next]_vars
    PROVE  TypeOK'
<1>1. CASE Requests
    BY <1>1, SubmitTypes DEF Requests
<1>2. CASE \E u \in Uids : Consume(u) \/ Disconnect(u)
    BY <1>2, ConsumeTypes, DisconnectTypes
<1>3. CASE Aborts
    BY <1>3, AbortUserTypes DEF Aborts
<1>4. CASE \E r \in Rebuilds : CacheRebuild(r) \/ TimeoutRebuild(r)
    BY <1>4, RebuildTypes
<1>5. CASE Dispatch
    BY <1>5, RebuildTypes DEF Dispatch
<1> QED
    BY <1>1, <1>2, <1>3, <1>4, <1>5, ListenRepliesTypes, ResolveTypes, StopStepTypes,
       SupervisorTypes, TokenizerTypes, SchedulerTypesKept, WorkerTypes, UnchangedTypes
       DEF Next, StopStep

(* Every variable of the API server, the supervisor, the tokenizer worker  *)
(* and the scheduler's contract keeps its type, for any requests, rebuilds *)
(* and bounds; a batch of replies is never empty and never mixes replies to*)
(* requests with the reply to a rebuild.                                   *)
THEOREM TypeCorrect == Spec => []TypeOK
<1>1. Init => TypeOK
    BY TypeInit
<1>2. TypeOK /\ [Next]_vars => TypeOK'
    BY NextTypes
<1> QED
    BY <1>1, <1>2, PTL DEF Spec

-----------------------------------------------------------------------------
(* The rebuild on its way.                                                 *)

(* At most one place in a queue up, the scheduler, a queue down or a queue *)
(* of batches.                                                             *)
AtMostOne(S) == \A x, y \in S : x = y

OneOf(U, S, D, O) ==
    /\ AtMostOne(U) /\ AtMostOne(S) /\ AtMostOne(D) /\ AtMostOne(O)
    /\ U # {} => S = {} /\ D = {} /\ O = {}
    /\ S # {} => D = {} /\ O = {}
    /\ D # {} => O = {}

Marked(U, S, D, O) ==
    ({"up"} \X U) \cup ({"toScheduler"} \X S) \cup ({"down"} \X D) \cup ({"out"} \X O)

LEMMA OneOfMany ==
    ASSUME NEW U, NEW S, NEW D, NEW O
    PROVE  /\ (\A p, q \in Marked(U, S, D, O) : p = q) <=> OneOf(U, S, D, O)
           /\ Marked(U, S, D, O) = {} <=> U = {} /\ S = {} /\ D = {} /\ O = {}
<1> DEFINE P == Marked(U, S, D, O)
<1>1. /\ \A x \in U : <<"up", x>> \in P
      /\ \A x \in S : <<"toScheduler", x>> \in P
      /\ \A x \in D : <<"down", x>> \in P
      /\ \A x \in O : <<"out", x>> \in P
    BY DEF Marked
<1>2. \A p \in P : \/ \E x \in U : p = <<"up", x>>
                   \/ \E x \in S : p = <<"toScheduler", x>>
                   \/ \E x \in D : p = <<"down", x>>
                   \/ \E x \in O : p = <<"out", x>>
    BY DEF Marked
<1> HIDE DEF P
<1>3. P = {} <=> U = {} /\ S = {} /\ D = {} /\ O = {}
    BY <1>1, <1>2
<1>4. ASSUME \A p, q \in P : p = q PROVE OneOf(U, S, D, O)
    <2>1. AtMostOne(U) /\ AtMostOne(S) /\ AtMostOne(D) /\ AtMostOne(O)
        <3>1. ASSUME NEW x, NEW y, NEW w, <<w, x>> \in P, <<w, y>> \in P PROVE x = y
            <4>1. <<w, x>> = <<w, y>>
                BY <1>4, <3>1
            <4> QED
                BY <4>1
        <3> QED
            BY <1>1, <3>1 DEF AtMostOne
    <2>2. ASSUME NEW v, NEW w, NEW x, NEW y, <<v, x>> \in P, <<w, y>> \in P PROVE v = w
        <3>1. <<v, x>> = <<w, y>>
            BY <1>4, <2>2
        <3> QED
            BY <3>1
    <2>3. U # {} => S = {} /\ D = {} /\ O = {}
        BY <1>1, <2>2
    <2>4. S # {} => D = {} /\ O = {}
        BY <1>1, <2>2
    <2>5. D # {} => O = {}
        BY <1>1, <2>2
    <2> QED
        BY <2>1, <2>3, <2>4, <2>5 DEF OneOf
<1>5. ASSUME OneOf(U, S, D, O) PROVE \A p, q \in P : p = q
    BY <1>2, <1>5 DEF OneOf, AtMostOne
<1> QED
    BY <1>3, <1>4, <1>5 DEF P

Nowhere == RebuildsIn(up) = {} /\ toScheduler \cap Rebuilds = {} /\ RebuildsIn(down) = {}
              /\ RebuildBatches(out) = {}

LEMMA PlacesAre ==
    /\ OneRebuild <=> OneOf(RebuildsIn(up), toScheduler \cap Rebuilds, RebuildsIn(down),
                            RebuildBatches(out))
    /\ Places = {} <=> Nowhere
<1>1. PICK U : U = RebuildsIn(up)
    OBVIOUS
<1>2. PICK S : S = toScheduler \cap Rebuilds
    OBVIOUS
<1>3. PICK D : D = RebuildsIn(down)
    OBVIOUS
<1>4. PICK O : O = RebuildBatches(out)
    OBVIOUS
<1>5. Places = Marked(U, S, D, O)
    BY <1>1, <1>2, <1>3, <1>4 DEF Places, Marked
<1>6. /\ (\A p, q \in Marked(U, S, D, O) : p = q) <=> OneOf(U, S, D, O)
      /\ Marked(U, S, D, O) = {} <=> U = {} /\ S = {} /\ D = {} /\ O = {}
    BY OneOfMany
<1>7. OneRebuild <=> \A p, q \in Places : p = q
    BY DEF OneRebuild
<1>8. Nowhere <=> U = {} /\ S = {} /\ D = {} /\ O = {}
    BY <1>1, <1>2, <1>3, <1>4 DEF Nowhere
<1> QED
    BY <1>1, <1>2, <1>3, <1>4, <1>5, <1>6, <1>7, <1>8

LEMMA PlacesNext ==
    /\ OneRebuild' <=> OneOf(RebuildsIn(up'), toScheduler' \cap Rebuilds, RebuildsIn(down'),
                             RebuildBatches(out'))
    /\ Places' = {} <=> Nowhere'
<1>1. PICK U : U = RebuildsIn(up')
    OBVIOUS
<1>2. PICK S : S = toScheduler' \cap Rebuilds
    OBVIOUS
<1>3. PICK D : D = RebuildsIn(down')
    OBVIOUS
<1>4. PICK O : O = RebuildBatches(out')
    OBVIOUS
<1>5. Places' = Marked(U, S, D, O)
    BY <1>1, <1>2, <1>3, <1>4 DEF Places, Marked, RebuildsIn, RebuildBatches
<1>6. /\ (\A p, q \in Marked(U, S, D, O) : p = q) <=> OneOf(U, S, D, O)
      /\ Marked(U, S, D, O) = {} <=> U = {} /\ S = {} /\ D = {} /\ O = {}
    BY OneOfMany
<1>7. OneRebuild' <=> \A p, q \in Places' : p = q
    BY DEF OneRebuild
<1>8. Nowhere' <=> U = {} /\ S = {} /\ D = {} /\ O = {}
    BY <1>1, <1>2, <1>3, <1>4 DEF Nowhere, RebuildsIn, RebuildBatches
<1> QED
    BY <1>1, <1>2, <1>3, <1>4, <1>5, <1>6, <1>7, <1>8

(* The rebuild of a step that does not dispatch or answer one stays under  *)
(* way.                                                                    *)
Stays == (Places' = {} <=> Places = {}) /\ OneRebuild'

Like(A, B) == (A = {} <=> B = {}) /\ (AtMostOne(B) => AtMostOne(A))

LEMMA StaysIfLike ==
    ASSUME OneRebuild, Like(RebuildsIn(up'), RebuildsIn(up)),
           Like(toScheduler' \cap Rebuilds, toScheduler \cap Rebuilds),
           Like(RebuildsIn(down'), RebuildsIn(down)),
           Like(RebuildBatches(out'), RebuildBatches(out))
    PROVE  Stays
<1>1. OneOf(RebuildsIn(up), toScheduler \cap Rebuilds, RebuildsIn(down), RebuildBatches(out))
    BY PlacesAre
<1>2. OneOf(RebuildsIn(up'), toScheduler' \cap Rebuilds, RebuildsIn(down'),
            RebuildBatches(out'))
    BY <1>1 DEF OneOf, Like
<1>3. Nowhere' <=> Nowhere
    BY DEF Nowhere, Like, RebuildsIn, RebuildBatches
<1> QED
    BY <1>2, <1>3, PlacesAre, PlacesNext DEF Stays

LEMMA LikeSame == \A A : Like(A, A)
BY DEF Like

LEMMA StaysIfUnchanged ==
    ASSUME OneRebuild, up' = up, toScheduler' = toScheduler, down' = down, out' = out
    PROVE  Stays
BY StaysIfLike, LikeSame

(* A message about a request does not move a rebuild.                      *)
LEMMA UserAppended ==
    ASSUME NEW s, NEW X, s \in Seq(X), NEW m \in X, m.id \in Uids
    PROVE  RebuildsIn(Append(s, m)) = RebuildsIn(s)
<1>1. /\ DOMAIN s = 1 .. Len(s) /\ Len(s) \in Nat
      /\ DOMAIN Append(s, m) = 1 .. (Len(s) + 1)
      /\ Append(s, m)[Len(s) + 1] = m
      /\ \A i \in 1 .. Len(s) : Append(s, m)[i] = s[i]
    OBVIOUS
<1>2. m.id \notin Rebuilds
    BY IdsAssumption
<1> QED
    BY <1>1, <1>2 DEF RebuildsIn

LEMMA RebuildAppended ==
    ASSUME NEW s, NEW X, s \in Seq(X), NEW m \in X, m.id \in Rebuilds, RebuildsIn(s) = {}
    PROVE  RebuildsIn(Append(s, m)) = {Len(s) + 1}
<1>1. /\ DOMAIN s = 1 .. Len(s) /\ Len(s) \in Nat
      /\ DOMAIN Append(s, m) = 1 .. (Len(s) + 1)
      /\ Append(s, m)[Len(s) + 1] = m
      /\ \A i \in 1 .. Len(s) : Append(s, m)[i] = s[i]
    OBVIOUS
<1> QED
    BY <1>1 DEF RebuildsIn

(* What is left of a queue when its rebuild is taken, or is not.           *)
LEMMA RebuildLeft ==
    ASSUME NEW X, NEW s \in Seq(X), NEW i \in 0 .. Len(s)
    PROVE  LET t == SubSeq(s, i + 1, Len(s))
           IN  /\ (\A n \in 1 .. i : s[n].id \notin Rebuilds)
                     => Like(RebuildsIn(t), RebuildsIn(s))
               /\ (\E n \in 1 .. i : s[n].id \in Rebuilds) /\ AtMostOne(RebuildsIn(s))
                     => RebuildsIn(t) = {}
<1> DEFINE t == SubSeq(s, i + 1, Len(s))
<1>1. DOMAIN s = 1 .. Len(s) /\ Len(s) \in Nat /\ i \in Nat /\ i <= Len(s)
    OBVIOUS
<1>2. DOMAIN t = 1 .. (Len(s) - i) /\ \A n \in 1 .. (Len(s) - i) : t[n] = s[n + i]
    BY LeftFacts
<1> HIDE DEF t
<1>3. ASSUME NEW n \in RebuildsIn(t) PROVE n + i \in RebuildsIn(s) /\ n \in Nat /\ n >= 1
    BY <1>1, <1>2, <1>3 DEF RebuildsIn
<1>4. ASSUME NEW m \in RebuildsIn(s), m > i PROVE m - i \in RebuildsIn(t)
    <2>1. m \in 1 .. Len(s) /\ s[m].id \in Rebuilds
        BY <1>1 DEF RebuildsIn
    <2>2. m - i \in 1 .. (Len(s) - i) /\ (m - i) + i = m
        BY <1>1, <1>4, <2>1
    <2>3. t[m - i] = s[m]
        BY <1>2, <2>2
    <2> QED
        BY <1>2, <2>1, <2>2, <2>3 DEF RebuildsIn
<1>5. ASSUME \A n \in 1 .. i : s[n].id \notin Rebuilds
      PROVE  Like(RebuildsIn(t), RebuildsIn(s))
    <2>1. \A m \in RebuildsIn(s) : m > i
        BY <1>1, <1>5 DEF RebuildsIn
    <2>2. RebuildsIn(t) = {} <=> RebuildsIn(s) = {}
        BY <1>3, <1>4, <2>1
    <2>3. AtMostOne(RebuildsIn(s)) => AtMostOne(RebuildsIn(t))
        <3> SUFFICES ASSUME AtMostOne(RebuildsIn(s)), NEW x \in RebuildsIn(t),
                            NEW y \in RebuildsIn(t)
                     PROVE  x = y
            BY DEF AtMostOne
        <3>1. x + i = y + i /\ x \in Nat /\ y \in Nat
            BY <1>3 DEF AtMostOne
        <3> QED
            BY <1>1, <3>1
    <2> QED
        BY <2>2, <2>3 DEF Like
<1>6. ASSUME NEW n \in 1 .. i, s[n].id \in Rebuilds, AtMostOne(RebuildsIn(s))
      PROVE  RebuildsIn(t) = {}
    <2>1. n \in RebuildsIn(s)
        BY <1>1, <1>6 DEF RebuildsIn
    <2>2. ASSUME NEW m \in RebuildsIn(t) PROVE FALSE
        <3>1. m + i \in RebuildsIn(s) /\ m \in Nat /\ m >= 1
            BY <1>3
        <3>2. m + i = n
            BY <1>6, <2>1, <3>1 DEF AtMostOne
        <3> QED
            BY <1>1, <3>1, <3>2
    <2> QED
        BY <2>2
<1> QED
    BY <1>5, <1>6 DEF t

(* The same of the queue of batches, of which one is taken at a time.      *)
LEMMA BatchTaken ==
    ASSUME QueueTypes, out # << >>
    PROVE  /\ Head(out)[1].id \in Uids =>
                 Like(RebuildBatches(Tail(out)), RebuildBatches(out))
           /\ Head(out)[1].id \in Rebuilds /\ AtMostOne(RebuildBatches(out)) =>
                 RebuildBatches(Tail(out)) = {}
<1> DEFINE t == Tail(out)
           N == Len(out)
<1>1. /\ Head(out) = out[1] /\ N \in Nat /\ 1 <= N /\ t \in Seq(ReplyBatch) /\ Len(t) = N - 1
      /\ \A n \in 1 .. (N - 1) : t[n] = out[n + 1]
    BY HeadBatch
<1>2. DOMAIN out = 1 .. N /\ DOMAIN t = 1 .. (N - 1)
    BY <1>1 DEF QueueTypes
<1> HIDE DEF t, N
<1>3. ASSUME NEW n \in RebuildBatches(t)
      PROVE  n + 1 \in RebuildBatches(out) /\ n \in Nat /\ n >= 1
    BY <1>1, <1>2, <1>3 DEF RebuildBatches
<1>4. ASSUME NEW m \in RebuildBatches(out), m # 1 PROVE m - 1 \in RebuildBatches(t)
    <2>1. m \in 1 .. N /\ out[m][1].id \in Rebuilds
        BY <1>2 DEF RebuildBatches
    <2>2. m - 1 \in 1 .. (N - 1) /\ (m - 1) + 1 = m
        BY <1>1, <1>4, <2>1
    <2>3. t[m - 1] = out[m]
        BY <1>1, <2>2
    <2> QED
        BY <1>2, <2>1, <2>2, <2>3 DEF RebuildBatches
<1>5. ASSUME Head(out)[1].id \in Uids
      PROVE  Like(RebuildBatches(t), RebuildBatches(out))
    <2>1. 1 \notin RebuildBatches(out)
        BY <1>1, <1>5, IdsAssumption DEF RebuildBatches
    <2>2. RebuildBatches(t) = {} <=> RebuildBatches(out) = {}
        BY <1>3, <1>4, <2>1
    <2>3. AtMostOne(RebuildBatches(out)) => AtMostOne(RebuildBatches(t))
        <3> SUFFICES ASSUME AtMostOne(RebuildBatches(out)), NEW x \in RebuildBatches(t),
                            NEW y \in RebuildBatches(t)
                     PROVE  x = y
            BY DEF AtMostOne
        <3>1. x + 1 = y + 1 /\ x \in Nat /\ y \in Nat
            BY <1>3 DEF AtMostOne
        <3> QED
            BY <3>1
    <2> QED
        BY <2>2, <2>3 DEF Like
<1>6. ASSUME Head(out)[1].id \in Rebuilds, AtMostOne(RebuildBatches(out))
      PROVE  RebuildBatches(t) = {}
    <2>1. 1 \in RebuildBatches(out)
        BY <1>1, <1>2, <1>6 DEF RebuildBatches
    <2>2. ASSUME NEW m \in RebuildBatches(t) PROVE FALSE
        <3>1. m + 1 \in RebuildBatches(out) /\ m \in Nat /\ m >= 1
            BY <1>3
        <3>2. m + 1 = 1
            BY <1>6, <2>1, <3>1 DEF AtMostOne
        <3> QED
            BY <3>1, <3>2
    <2> QED
        BY <2>2
<1> QED
    BY <1>5, <1>6 DEF t

LEMMA UserBatchAdded ==
    ASSUME NEW o \in Seq(ReplyBatch), NEW s \in Seq(UserReply)
    PROVE  RebuildBatches(Added(o, s)) = RebuildBatches(o)
<1>1. CASE s = << >>
    BY <1>1 DEF Added
<1>2. CASE s # << >>
    <2>1. s[1] \in UserReply
        BY <1>2
    <2>2. s[1].id \notin Rebuilds
        BY <2>1, IdsAssumption DEF UserReply
    <2>3. /\ DOMAIN o = 1 .. Len(o) /\ Len(o) \in Nat
          /\ DOMAIN Append(o, s) = 1 .. (Len(o) + 1)
          /\ Append(o, s)[Len(o) + 1] = s
          /\ \A i \in 1 .. Len(o) : Append(o, s)[i] = o[i]
        OBVIOUS
    <2>4. Added(o, s) = Append(o, s)
        BY <1>2 DEF Added
    <2> QED
        BY <2>2, <2>3, <2>4 DEF RebuildBatches
<1> QED
    BY <1>1, <1>2

(* The results of a pass: those of the rebuilds among its messages.        *)
LEMMA ResultsOfPass ==
    ASSUME out \in Seq(ReplyBatch), NEW d \in Seq(Downward), AtMostOne(RebuildsIn(d))
    PROVE  /\ RebuildsIn(d) = {} => WithResults(d) = out
           /\ \A n \in RebuildsIn(d) : WithResults(d) = Append(out, <<d[n]>>)
<1> DEFINE P == {i \in DOMAIN d : d[i].k \in Outcomes}
           t == OfKind(d, Outcomes)
           X == [n \in DOMAIN t |-> <<t[n]>>]
<1>1. P = RebuildsIn(d)
    <2>1. ASSUME NEW i \in DOMAIN d PROVE d[i].k \in Outcomes <=> d[i].id \in Rebuilds
        <3>1. d[i] \in Downward
            OBVIOUS
        <3> QED
            BY <3>1, KindsDiffer, IdsAssumption DEF Downward, UserReply, RebuildReply
    <2> QED
        BY <2>1 DEF RebuildsIn
<1>2. /\ t \in Seq(Downward) /\ \A n \in DOMAIN t : \E i \in P : t[n] = d[i]
      /\ Len(t) = Cardinality(P)
    <2>1. t \in Seq(Downward) /\ \E at : Selects(t, d, P, at)
        BY SubsequenceSelects DEF OfKind
    <2>2. PICK at : Selects(t, d, P, at)
        BY <2>1
    <2> HIDE DEF t, P
    <2>3. DOMAIN t = 1 .. Len(t)
        BY <2>1
    <2> QED
        BY <2>1, <2>2, <2>3 DEF Selects
<1> HIDE DEF t, P
<1>3. ASSUME P = {} PROVE WithResults(d) = out
    <2>1. Len(t) = 0
        BY <1>2, <1>3, FS_EmptySet
    <2>2. t = << >>
        BY <1>2, <2>1
    <2>3. X = << >>
        BY <2>2
    <2>4. out \o << >> = out
        OBVIOUS
    <2> QED
        BY <2>3, <2>4 DEF WithResults, t
<1>4. ASSUME NEW n \in P PROVE WithResults(d) = Append(out, <<d[n]>>)
    <2>1. P = {n}
        BY <1>1, <1>4 DEF AtMostOne
    <2>2. Len(t) = 1
        BY <1>2, <2>1, FS_Singleton
    <2>3. DOMAIN t = {1}
        BY <1>2, <2>2
    <2>4. t[1] = d[n]
        BY <1>2, <2>1, <2>3
    <2>5. X = [i \in {1} |-> <<d[n]>>]
        BY <2>3, <2>4
    <2>6. X = <<<<d[n]>>>>
        BY <2>5
    <2>7. out \o <<<<d[n]>>>> = Append(out, <<d[n]>>)
        OBVIOUS
    <2> QED
        BY <2>6, <2>7 DEF WithResults, t
<1> QED
    BY <1>1, <1>3, <1>4

LEMMA BatchRebuilt ==
    ASSUME NEW o \in Seq(ReplyBatch), RebuildBatches(o) = {}, NEW m, m.id \in Rebuilds
    PROVE  RebuildBatches(Append(o, <<m>>)) = {Len(o) + 1}
<1>1. /\ DOMAIN o = 1 .. Len(o) /\ Len(o) \in Nat
      /\ DOMAIN Append(o, <<m>>) = 1 .. (Len(o) + 1)
      /\ Append(o, <<m>>)[Len(o) + 1] = <<m>>
      /\ \A i \in 1 .. Len(o) : Append(o, <<m>>)[i] = o[i]
    OBVIOUS
<1>2. <<m>>[1] = m
    OBVIOUS
<1> QED
    BY <1>1, <1>2 DEF RebuildBatches

LEMMA TokenizerStays ==
    ASSUME TypeOK, OneRebuild, TokenizerStep
    PROVE  Stays
<1>1. PICK i, j \in Nat : \E bad \in SUBSET Uids : Pass(i, j, bad)
    BY TokenizerPass
<1>2. PICK bad \in SUBSET Uids : Pass(i, j, bad)
    BY <1>1
<1> DEFINE d == SubSeq(down, 1, j)
           U == RebuildsIn(up)
           S == toScheduler \cap Rebuilds
           D == RebuildsIn(down)
           O == RebuildBatches(out)
<1>3. /\ i \in 0 .. Len(up) /\ j \in 0 .. Len(down) /\ IsFiniteSet(bad)
      /\ up' = SubSeq(up, i + 1, Len(up)) /\ down' = SubSeq(down, j + 1, Len(down))
      /\ out' = WithRefused(d, bad)
    BY <1>2 DEF Pass
<1>4. up \in Seq(Requested) /\ down \in Seq(Downward) /\ out \in Seq(ReplyBatch)
    BY DEF TypeOK, QueueTypes, Downward
<1>5. OneOf(U, S, D, O)
    BY PlacesAre
<1>6. /\ d \in Seq(Downward) /\ DOMAIN d = 1 .. j /\ \A n \in 1 .. j : d[n] = down[n]
    BY <1>3, <1>4, TakenFacts
<1>7. DOMAIN down = 1 .. Len(down) /\ Len(down) \in Nat /\ DOMAIN up = 1 .. Len(up)
      /\ Len(up) \in Nat
    BY <1>4
<1> HIDE DEF d
<1>8. RebuildsIn(d) = D \cap (1 .. j)
    BY <1>3, <1>6, <1>7 DEF RebuildsIn
<1>9. AtMostOne(RebuildsIn(d))
    BY <1>5, <1>8 DEF OneOf, AtMostOne
<1>10. RebuildBatches(out') = RebuildBatches(WithResults(d))
    <2>1. /\ WithResults(d) \in Seq(ReplyBatch) /\ WithAdmitted(d) \in Seq(ReplyBatch)
          /\ WithSampled(d) \in Seq(ReplyBatch) /\ WithErrors(d) \in Seq(ReplyBatch)
        BY <1>3, <1>4, <1>6, PassSequences
    <2>2. /\ OfKind(d, {"admit"}) \in Seq(UserReply) /\ OfKind(d, Sampled) \in Seq(UserReply)
          /\ OfKind(d, Errors) \in Seq(UserReply)
        BY <1>6, UserReplies DEF Kinds
    <2>3. Reply("error", bad) \in Seq(UserReply)
        <3>1. Reply("error", bad) \in Seq([k : {"error"}, id : bad])
            BY <1>3, ReplyElems
        <3>2. [k : {"error"}, id : bad] \subseteq UserReply
            BY DEF UserReply, Kinds, Errors
        <3> QED
            BY <3>1, <3>2, SeqOfSubset
    <2>4. RebuildBatches(WithAdmitted(d)) = RebuildBatches(WithResults(d))
        BY <2>1, <2>2, UserBatchAdded DEF WithAdmitted
    <2>5. RebuildBatches(WithSampled(d)) = RebuildBatches(WithAdmitted(d))
        BY <2>1, <2>2, UserBatchAdded DEF WithSampled
    <2>6. RebuildBatches(WithErrors(d)) = RebuildBatches(WithSampled(d))
        BY <2>1, <2>2, UserBatchAdded DEF WithErrors
    <2>7. RebuildBatches(WithRefused(d, bad)) = RebuildBatches(WithErrors(d))
        BY <2>1, <2>3, UserBatchAdded DEF WithRefused
    <2> QED
        BY <1>3, <2>4, <2>5, <2>6, <2>7
<1>11. \A x : x \in toScheduler' \cap Rebuilds <=>
                 x \in S \/ \E n \in 1 .. i : up[n].id = x /\ x \in Rebuilds
    <2>1. ASSUME NEW n \in 1 .. i
          PROVE  /\ up[n].id \in Rebuilds => up[n].k = "rebuild"
                 /\ up[n].k = "tokenize" => up[n].id \notin Rebuilds
        <3>1. up[n] \in Requested
            BY <1>3, <1>4
        <3> QED
            BY <3>1, IdsAssumption DEF Requested
    <2>2. \A x : x \in toScheduler' <=>
             \/ x \in toScheduler
             \/ \E n \in 1 .. i : up[n].id = x /\ up[n].k = "rebuild"
             \/ x \notin bad /\ \E n \in 1 .. i : up[n].id = x /\ up[n].k = "tokenize"
        BY <1>2 DEF Pass
    <2> QED
        BY <2>1, <2>2
<1>12. /\ (\A n \in 1 .. i : up[n].id \notin Rebuilds) => Like(RebuildsIn(up'), U)
       /\ (\E n \in 1 .. i : up[n].id \in Rebuilds) /\ AtMostOne(U) => RebuildsIn(up') = {}
    BY <1>3, <1>4, RebuildLeft
<1>13. /\ (\A n \in 1 .. j : down[n].id \notin Rebuilds) => Like(RebuildsIn(down'), D)
       /\ (\E n \in 1 .. j : down[n].id \in Rebuilds) /\ AtMostOne(D) => RebuildsIn(down') = {}
    BY <1>3, <1>4, RebuildLeft
<1>14. (\A n \in 1 .. j : down[n].id \notin Rebuilds) => RebuildBatches(out') = O
    <2> SUFFICES ASSUME \A n \in 1 .. j : down[n].id \notin Rebuilds
                 PROVE  RebuildBatches(out') = O
        OBVIOUS
    <2>1. RebuildsIn(d) = {}
        BY <1>6 DEF RebuildsIn
    <2>2. WithResults(d) = out
        BY <1>4, <1>6, <1>9, <2>1, ResultsOfPass
    <2> QED
        BY <1>10, <2>2
<1>15. ASSUME NEW n \in 1 .. i, up[n].id \in Rebuilds PROVE Stays
    <2>1. n \in U
        BY <1>3, <1>7, <1>15 DEF RebuildsIn
    <2>2. S = {} /\ D = {} /\ O = {} /\ AtMostOne(U)
        BY <1>5, <2>1 DEF OneOf
    <2>3. RebuildsIn(up') = {}
        BY <1>12, <1>15, <2>2
    <2>4. \A m \in 1 .. j : down[m].id \notin Rebuilds
        BY <1>3, <1>7, <2>2 DEF RebuildsIn
    <2>5. RebuildsIn(down') = {} /\ RebuildBatches(out') = {}
        BY <1>13, <1>14, <2>2, <2>4 DEF Like
    <2>6. toScheduler' \cap Rebuilds = {up[n].id}
        <3>1. ASSUME NEW m \in 1 .. i, up[m].id \in Rebuilds PROVE m = n
            <4>1. m \in U
                BY <1>3, <1>7, <3>1 DEF RebuildsIn
            <4> QED
                BY <2>1, <2>2, <4>1 DEF AtMostOne
        <3> QED
            BY <1>11, <1>15, <2>2, <3>1
    <2>7. OneOf(RebuildsIn(up'), toScheduler' \cap Rebuilds, RebuildsIn(down'),
                RebuildBatches(out'))
        BY <2>3, <2>5, <2>6 DEF OneOf, AtMostOne
    <2>8. ~Nowhere /\ ~Nowhere'
        BY <2>1, <2>6 DEF Nowhere
    <2> QED
        BY <2>7, <2>8, PlacesAre, PlacesNext DEF Stays
<1>16. ASSUME NEW n \in 1 .. j, down[n].id \in Rebuilds PROVE Stays
    <2>1. n \in D
        BY <1>3, <1>7, <1>16 DEF RebuildsIn
    <2>2. U = {} /\ S = {} /\ O = {} /\ AtMostOne(D)
        BY <1>5, <2>1 DEF OneOf
    <2>3. RebuildsIn(down') = {}
        BY <1>13, <1>16, <2>2
    <2>4. \A m \in 1 .. i : up[m].id \notin Rebuilds
        BY <1>3, <1>7, <2>2 DEF RebuildsIn
    <2>5. RebuildsIn(up') = {} /\ toScheduler' \cap Rebuilds = {}
        BY <1>11, <1>12, <2>2, <2>4 DEF Like
    <2>6. RebuildBatches(out') = {Len(out) + 1}
        <3>1. n \in RebuildsIn(d) /\ d[n].id \in Rebuilds
            BY <1>6, <1>8, <1>16, <2>1
        <3>2. WithResults(d) = Append(out, <<d[n]>>)
            BY <1>4, <1>6, <1>9, <3>1, ResultsOfPass
        <3> QED
            BY <1>4, <1>10, <2>2, <3>1, <3>2, BatchRebuilt
    <2>7. OneOf(RebuildsIn(up'), toScheduler' \cap Rebuilds, RebuildsIn(down'),
                RebuildBatches(out'))
        BY <2>3, <2>5, <2>6 DEF OneOf, AtMostOne
    <2>8. ~Nowhere /\ ~Nowhere'
        BY <2>1, <2>6 DEF Nowhere
    <2> QED
        BY <2>7, <2>8, PlacesAre, PlacesNext DEF Stays
<1>17. ASSUME \A n \in 1 .. i : up[n].id \notin Rebuilds,
              \A n \in 1 .. j : down[n].id \notin Rebuilds
       PROVE  Stays
    <2>1. toScheduler' \cap Rebuilds = S
        BY <1>11, <1>17
    <2> QED
        BY <1>12, <1>13, <1>14, <1>17, <2>1, LikeSame, StaysIfLike
<1> QED
    BY <1>15, <1>16, <1>17

(* A rebuild is outstanding exactly when it is in one of the places.       *)
LEMMA OutstandingIsSomewhere ==
    TypeOK => /\ \A r \in Rebuilds : Outstanding(r) => Places # {}
              /\ Places # {} => \E r \in Rebuilds : Outstanding(r)
<1> SUFFICES ASSUME TypeOK
             PROVE  /\ \A r \in Rebuilds : Outstanding(r) => Places # {}
                    /\ Places # {} => \E r \in Rebuilds : Outstanding(r)
    OBVIOUS
<1>1. up \in Seq(Requested) /\ down \in Seq(Downward) /\ out \in Seq(ReplyBatch)
    BY DEF TypeOK, QueueTypes, Downward
<1>2. ASSUME NEW s, NEW x PROVE x \in Ids(s) <=> \E i \in DOMAIN s : s[i].id = x
    BY DEF Ids, ToSet
<1>3. ASSUME NEW i \in DOMAIN out
      PROVE  /\ 1 \in DOMAIN out[i]
             /\ \A n \in DOMAIN out[i] : out[i][n].id \in Rebuilds => out[i][1].id = out[i][n].id
    <2>1. out[i] \in ReplyBatch
        BY <1>1
    <2>2. CASE out[i] \in Seq(UserReply) \ {<< >>}
        <3>1. 1 \in DOMAIN out[i]
            BY <2>2
        <3>2. ASSUME NEW n \in DOMAIN out[i] PROVE out[i][n].id \notin Rebuilds
            <4>1. out[i][n] \in UserReply
                BY <2>2
            <4> QED
                BY <4>1, IdsAssumption DEF UserReply
        <3> QED
            BY <3>1, <3>2
    <2>3. CASE \E m \in RebuildReply : out[i] = <<m>>
        BY <2>3
    <2> QED
        BY <2>1, <2>2, <2>3 DEF ReplyBatch
<1>4. ASSUME NEW r \in Rebuilds, Outstanding(r) PROVE ~Nowhere
    <2>1. CASE r \in Ids(up)
        BY <1>2, <2>1 DEF Nowhere, RebuildsIn
    <2>2. CASE r \in toScheduler
        BY <2>2 DEF Nowhere
    <2>3. CASE r \in Ids(down)
        BY <1>2, <2>3 DEF Nowhere, RebuildsIn
    <2>4. CASE \E b \in ToSet(out) : r \in Ids(b)
        <3>1. PICK b \in ToSet(out) : r \in Ids(b)
            BY <2>4
        <3>2. PICK i \in DOMAIN out : out[i] = b
            BY <3>1 DEF ToSet
        <3>3. PICK n \in DOMAIN b : b[n].id = r
            BY <1>2, <3>1
        <3>4. i \in RebuildBatches(out)
            BY <1>3, <3>2, <3>3 DEF RebuildBatches
        <3> QED
            BY <3>4 DEF Nowhere
    <2> QED
        BY <1>4, <2>1, <2>2, <2>3, <2>4 DEF Outstanding
<1>5. ASSUME ~Nowhere PROVE \E r \in Rebuilds : Outstanding(r)
    <2>1. ASSUME NEW i \in RebuildsIn(up) PROVE \E r \in Rebuilds : Outstanding(r)
        <3>1. up[i].id \in Rebuilds /\ up[i].id \in Ids(up)
            BY <1>2 DEF RebuildsIn
        <3> QED
            BY <3>1 DEF Outstanding
    <2>2. ASSUME NEW r \in toScheduler \cap Rebuilds
          PROVE  \E x \in Rebuilds : Outstanding(x)
        BY DEF Outstanding
    <2>3. ASSUME NEW i \in RebuildsIn(down) PROVE \E r \in Rebuilds : Outstanding(r)
        <3>1. down[i].id \in Rebuilds /\ down[i].id \in Ids(down)
            BY <1>2 DEF RebuildsIn
        <3> QED
            BY <3>1 DEF Outstanding
    <2>4. ASSUME NEW i \in RebuildBatches(out) PROVE \E r \in Rebuilds : Outstanding(r)
        <3>1. i \in DOMAIN out /\ out[i][1].id \in Rebuilds
            BY DEF RebuildBatches
        <3>2. out[i] \in ToSet(out) /\ out[i][1].id \in Ids(out[i])
            BY <1>2, <1>3, <3>1 DEF ToSet
        <3> QED
            BY <3>1, <3>2 DEF Outstanding
    <2> QED
        BY <1>5, <2>1, <2>2, <2>3, <2>4 DEF Nowhere
<1> QED
    BY <1>4, <1>5, PlacesAre

(* The part of the gate's invariant without the names of the rebuilds.     *)
EndsSomehow == gate = "rebuilding" => fatal \/ loop # << >> \/ Places # {}

GateCore ==
    /\ OneRebuild /\ ClosedOnTheWay /\ StartupIsQuiet /\ DeathIsLatched
    /\ SendFindsItsGate /\ ReopenFindsNoStop /\ EndsSomehow

LEMMA GateCoreIs == TypeOK => (GateInv <=> GateCore)
BY OutstandingIsSomewhere DEF GateInv, GateCore, EndsSomehow, NeverWedged

LEMMA GateCoreNext == TypeOK' => (GateInv' <=> GateCore')
BY GateCoreIs, PTL

LEMMA GateKept ==
    ASSUME GateCore, Stays, UNCHANGED <<gate, fatal, loop, sup>>
    PROVE  GateCore'
<1>1. Places' = {} <=> Places = {}
    BY DEF Stays
<1>2. OneRebuild'
    BY DEF Stays
<1>3. ClosedOnTheWay' /\ StartupIsQuiet' /\ EndsSomehow'
    BY <1>1 DEF GateCore, ClosedOnTheWay, StartupIsQuiet, EndsSomehow
<1>4. DeathIsLatched' /\ SendFindsItsGate' /\ ReopenFindsNoStop'
    BY DEF GateCore, DeathIsLatched, SendFindsItsGate, ReopenFindsNoStop
<1> QED
    BY <1>2, <1>3, <1>4 DEF GateCore

(* Sends about a request, and steps of the queues.                         *)
LEMMA UserSent ==
    ASSUME TypeOK, OneRebuild, NEW m \in Requested, m.id \in Uids,
           Send(m.k, m.id) \/ SendRaises, UNCHANGED <<out, down, toScheduler>>
    PROVE  Stays
<1>1. up' = up \/ up' = Append(up, m)
    BY SendTypes DEF TypeOK
<1>2. up \in Seq(Requested)
    BY DEF TypeOK, QueueTypes
<1>3. RebuildsIn(up') = RebuildsIn(up)
    BY <1>1, <1>2, UserAppended
<1> QED
    BY <1>3, StaysIfLike, LikeSame

LEMMA RequestStays ==
    ASSUME TypeOK, OneRebuild,
           \/ Requests \/ \E u \in Uids : Consume(u) \/ Disconnect(u)
           \/ Aborts \/ ListenReplies
    PROVE  Stays
<1>1. ASSUME NEW u \in Uids, Submit(u) PROVE Stays
    <2>1. PICK m : m = [k |-> "tokenize", id |-> u]
        OBVIOUS
    <2>2. m \in Requested /\ m.id \in Uids /\ m.k = "tokenize" /\ m.id = u
        BY <2>1 DEF Requested
    <2> QED
        BY <1>1, <2>2, UserSent DEF Submit, schedVars
<1>2. ASSUME NEW u \in Uids, Consume(u) \/ Disconnect(u) PROVE Stays
    BY <1>2, StaysIfUnchanged DEF Consume, Disconnect, schedVars
<1>3. ASSUME NEW u \in Uids, NEW who \in {"client", "stop"}, AbortUser(u, who) PROVE Stays
    <2>1. PICK m : m = [k |-> "abort", id |-> u]
        OBVIOUS
    <2>2. m \in Requested /\ m.id \in Uids /\ m.k = "abort" /\ m.id = u
        BY <2>1 DEF Requested
    <2> QED
        BY <1>3, <2>2, UserSent DEF AbortUser, schedVars
<1>4. ASSUME ListenReplies PROVE Stays
    <2>1. out # << >> /\ Head(out)[1].id \in Uids /\ out' = Tail(out)
          /\ UNCHANGED <<up, down, toScheduler>>
        BY <1>4 DEF ListenReplies, schedVars
    <2>2. Like(RebuildBatches(out'), RebuildBatches(out))
        BY <2>1, BatchTaken DEF TypeOK
    <2> QED
        BY <2>1, <2>2, StaysIfLike, LikeSame
<1> QED
    BY <1>1, <1>2, <1>3, <1>4 DEF Requests, Aborts

LEMMA RequestGate ==
    ASSUME TypeOK, GateCore,
           \/ Requests \/ \E u \in Uids : Consume(u) \/ Disconnect(u)
           \/ Aborts \/ ListenReplies
    PROVE  GateCore'
<1>1. OneRebuild
    BY DEF GateCore
<1>2. Stays
    BY <1>1, RequestStays
<1>3. UNCHANGED <<gate, fatal, loop, sup>>
    BY DEF Requests, Submit, Consume, Disconnect, Aborts, AbortUser, ListenReplies, gateVars,
       supVars
<1> QED
    BY <1>2, <1>3, GateKept

LEMMA SchedulerStays ==
    ASSUME TypeOK, OneRebuild, Replies
    PROVE  Stays
<1>0. down \in Seq(Downward)
    BY DEF TypeOK, QueueTypes, Downward
<1>1. ASSUME NEW u \in Uids, NEW k \in Kinds, SchedulerReply(u, k) PROVE Stays
    <2>1. PICK m : m = [k |-> k, id |-> u]
        OBVIOUS
    <2>2. m \in Downward /\ m.id \in Uids
        BY <2>1 DEF Downward, UserReply
    <2>3. down' = Append(down, m) /\ UNCHANGED <<up, out>>
        BY <1>1, <2>1 DEF SchedulerReply
    <2>4. toScheduler' \cap Rebuilds = toScheduler \cap Rebuilds
        BY <1>1, IdsAssumption DEF SchedulerReply
    <2>5. RebuildsIn(down') = RebuildsIn(down)
        BY <1>0, <2>2, <2>3, UserAppended
    <2> QED
        BY <2>3, <2>4, <2>5, StaysIfLike, LikeSame
<1>2. ASSUME NEW r \in Rebuilds, NEW k \in Outcomes, SchedulerRebuilt(r, k) PROVE Stays
    <2>1. PICK m : m = [k |-> k, id |-> r]
        OBVIOUS
    <2>2. m \in Downward /\ m.id \in Rebuilds
        BY <2>1 DEF Downward, RebuildReply
    <2>3. r \in toScheduler /\ toScheduler' = toScheduler \ {r}
          /\ down' = Append(down, m) /\ UNCHANGED <<up, out>>
        BY <1>2, <2>1 DEF SchedulerRebuilt
    <2>4. OneOf(RebuildsIn(up), toScheduler \cap Rebuilds, RebuildsIn(down), RebuildBatches(out))
        BY PlacesAre
    <2>5. /\ RebuildsIn(up) = {} /\ RebuildsIn(down) = {} /\ RebuildBatches(out) = {}
          /\ toScheduler' \cap Rebuilds = {}
        BY <2>3, <2>4 DEF OneOf, AtMostOne
    <2>6. RebuildsIn(down') = {Len(down) + 1}
        BY <1>0, <2>2, <2>3, <2>5, RebuildAppended
    <2>7. RebuildsIn(up') = {} /\ RebuildBatches(out') = {}
        BY <2>3, <2>5
    <2>8. OneOf(RebuildsIn(up'), toScheduler' \cap Rebuilds, RebuildsIn(down'),
                RebuildBatches(out'))
        BY <2>5, <2>6, <2>7 DEF OneOf, AtMostOne
    <2>9. ~Nowhere /\ ~Nowhere'
        <3>1. r \in toScheduler \cap Rebuilds
            BY <2>3
        <3> QED
            BY <2>6, <3>1 DEF Nowhere
    <2> QED
        BY <2>8, <2>9, PlacesAre, PlacesNext DEF Stays
<1> QED
    BY <1>1, <1>2 DEF Replies

LEMMA WorkerGate ==
    ASSUME TypeOK, GateCore,
           \/ TokenizerStep \/ Replies \/ WorkersReady \/ \E w \in Workers : WorkerDies(w)
           \/ ResolveAll \/ \E r \in Rebuilds : TimeoutRebuild(r)
           \/ StopSeal \/ StopAbort \/ StopAborted \/ StopTimeout
           \/ UNCHANGED vars
    PROVE  GateCore'
<1>1. OneRebuild
    BY DEF GateCore
<1>2. CASE TokenizerStep
    <2>1. UNCHANGED <<gate, fatal, loop, sup>>
        BY <1>2 DEF TokenizerStep, gateVars, supVars
    <2> QED
        BY <1>1, <1>2, <2>1, TokenizerStays, GateKept
<1>3. CASE Replies
    <2>1. UNCHANGED <<gate, fatal, loop, sup>>
        BY <1>3 DEF Replies, SchedulerReply, SchedulerRebuilt, gateVars, supVars
    <2> QED
        BY <1>1, <1>3, <2>1, SchedulerStays, GateKept
<1>4. CASE \/ WorkersReady \/ \E w \in Workers : WorkerDies(w)
           \/ ResolveAll \/ \E r \in Rebuilds : TimeoutRebuild(r)
           \/ StopSeal \/ StopAbort \/ StopAborted \/ StopTimeout
           \/ UNCHANGED vars
    <2>1. UNCHANGED <<gate, fatal, loop, sup, up, out, down, toScheduler>>
        BY <1>4 DEF WorkersReady, WorkerDies, ResolveAll, TimeoutRebuild, StopSeal, StopAbort,
           StopAborted, StopTimeout, vars, gateVars, supVars, schedVars
    <2>2. Stays
        BY <1>1, <2>1, StaysIfUnchanged
    <2> QED
        BY <2>1, <2>2, GateKept
<1> QED
    BY <1>2, <1>3, <1>4

(* A step that moves no message.                                           *)
Still == UNCHANGED <<up, toScheduler, down, out>>

LEMMA SamePlaces == Still => Places' = Places /\ (OneRebuild' <=> OneRebuild)
BY DEF Still, Places, OneRebuild, RebuildsIn, RebuildBatches

(* The handlers of a rebuild: one write at a time.                         *)
LEMMA DispatchGate ==
    ASSUME TypeOK, GateCore, NEW r \in Rebuilds,
           CacheRebuild(r) \/ CloseGate(r) \/ SendRebuild(r)
    PROVE  GateCore'
<1> USE DEF GateCore, ClosedOnTheWay, StartupIsQuiet, DeathIsLatched, SendFindsItsGate,
            ReopenFindsNoStop, EndsSomehow
<1>1. CASE CacheRebuild(r)
    <2>1. /\ loop = << >> /\ gate = "serving" /\ loop' = <<"close", r>>
          /\ UNCHANGED <<gate, fatal, sup>> /\ Still
        BY <1>1 DEF CacheRebuild, OnLoop, gateVars, supVars, schedVars, Still
    <2>2. Places' = {} /\ OneRebuild' /\ sup \notin {"draining", "opening"}
        BY <2>1, SamePlaces
    <2> QED
        BY <2>1, <2>2
<1>2. CASE CloseGate(r)
    <2>1. /\ loop = <<"close", r>> /\ gate' = "rebuilding" /\ loop' = <<"send", r>>
          /\ UNCHANGED <<fatal, sup>> /\ Still
        BY <1>2 DEF CloseGate, gateVars, supVars, schedVars, Still
    <2>2. loop # << >> /\ loop' # << >>
        BY <2>1
    <2>3. Places' = {} /\ OneRebuild' /\ sup \notin {"draining", "opening"}
        BY <2>1, <2>2, SamePlaces
    <2> QED
        BY <2>1, <2>2, <2>3
<1>3. CASE SendRebuild(r) /\ SendRaises
    <2>1. /\ loop = <<"send", r>> /\ loop' = << >> /\ up' = up
          /\ UNCHANGED <<fatal, sup, out, down, toScheduler>>
        BY <1>3 DEF SendRebuild, SendRaises, gateVars, supVars, schedVars
    <2>2. gate' = "serving" \/ gate' = gate
        BY <1>3 DEF SendRebuild
    <2>3. loop # << >>
        BY <2>1
    <2>4. Places' = {} /\ OneRebuild' /\ sup \notin {"draining", "opening"}
        BY <2>1, <2>3, SamePlaces DEF Still
    <2>5. gate = "rebuilding" \/ (gate = "failed" /\ fatal)
        BY <2>1
    <2>6. CASE gate' = "serving"
        BY <2>1, <2>4, <2>6
    <2>7. CASE gate' = gate /\ Send("rebuild", r)
        <3>1. Append(up, [k |-> "rebuild", id |-> r]) # up
            BY DEF TypeOK, QueueTypes
        <3> QED
            BY <2>1, <2>7, <3>1 DEF Send
    <2> QED
        BY <1>3, <2>6, <2>7 DEF SendRebuild
<1>4. CASE SendRebuild(r) /\ ~SendRaises
    <2>1. /\ loop = <<"send", r>> /\ loop' = << >>
          /\ UNCHANGED <<gate, fatal, sup, out, down, toScheduler>>
          /\ up' = Append(up, [k |-> "rebuild", id |-> r])
        BY <1>4 DEF SendRebuild, Send, gateVars, supVars, schedVars
    <2>2. loop # << >>
        BY <2>1
    <2>3. Places = {} /\ sup \notin {"draining", "opening"}
          /\ (gate = "rebuilding" \/ (gate = "failed" /\ fatal))
        BY <2>1, <2>2
    <2>4. Nowhere
        BY <2>3, PlacesAre
    <2>5. PICK m : m = [k |-> "rebuild", id |-> r]
        OBVIOUS
    <2>6. m \in Requested /\ m.id \in Rebuilds /\ up' = Append(up, m)
        BY <2>1, <2>5 DEF Requested
    <2>7. RebuildsIn(up') = {Len(up) + 1}
        BY <2>4, <2>6, RebuildAppended DEF Nowhere, TypeOK, QueueTypes
    <2>8. OneOf(RebuildsIn(up'), toScheduler' \cap Rebuilds, RebuildsIn(down'),
                RebuildBatches(out'))
        BY <2>1, <2>4, <2>7 DEF Nowhere, OneOf, AtMostOne
    <2>9. OneRebuild' /\ Places' # {}
        BY <2>7, <2>8, PlacesNext DEF Nowhere
    <2> QED
        BY <2>1, <2>3, <2>9
<1> QED
    BY <1>1, <1>2, <1>3, <1>4

LEMMA ResolveGate ==
    ASSUME TypeOK, GateCore, ResolveRebuild \/ Reopen
    PROVE  GateCore'
<1> USE DEF GateCore, ClosedOnTheWay, StartupIsQuiet, DeathIsLatched, SendFindsItsGate,
            ReopenFindsNoStop, EndsSomehow
<1>1. CASE ResolveRebuild
    <2>1. /\ loop = << >> /\ out # << >> /\ Head(out)[1].id \in Rebuilds /\ out' = Tail(out)
          /\ UNCHANGED <<gate, fatal, sup, up, down, toScheduler>>
          /\ \/ loop' = <<"reopen", "failed">>
             \/ loop' = <<"reopen", "serving">> /\ ~fatal
        BY <1>1 DEF ResolveRebuild, OnLoop, AfterReply, NewGate, supVars, schedVars
    <2>2. out[1] = Head(out) /\ Len(out) \in Nat /\ Len(out) >= 1
        BY <2>1, HeadBatch DEF TypeOK
    <2>3. 1 \in RebuildBatches(out)
        BY <2>1, <2>2 DEF RebuildBatches, TypeOK, QueueTypes
    <2>4. OneOf(RebuildsIn(up), toScheduler \cap Rebuilds, RebuildsIn(down), RebuildBatches(out))
        BY PlacesAre
    <2>5. /\ RebuildsIn(up) = {} /\ RebuildsIn(down) = {} /\ toScheduler \cap Rebuilds = {}
          /\ AtMostOne(RebuildBatches(out))
        BY <2>3, <2>4 DEF OneOf
    <2>6. RebuildBatches(out') = {}
        BY <2>1, <2>5, BatchTaken DEF TypeOK
    <2>7. Nowhere' /\ RebuildsIn(up') = {} /\ toScheduler' \cap Rebuilds = {}
          /\ RebuildsIn(down') = {}
        BY <2>1, <2>5, <2>6 DEF Nowhere
    <2>8. Places' = {} /\ OneRebuild'
        BY <2>6, <2>7, PlacesNext DEF OneOf, AtMostOne
    <2>9. Places # {}
        BY <2>3, PlacesAre DEF Nowhere
    <2>10. gate # "serving" /\ (gate = "rebuilding" \/ fatal)
           /\ sup \notin {"draining", "opening"}
        BY <2>9
    <2> QED
        BY <2>1, <2>8, <2>10
<1>2. CASE Reopen
    <2>1. PICK g \in {"serving", "failed"} : loop = <<"reopen", g>>
        BY <1>2 DEF Reopen
    <2>2. /\ gate' = g /\ loop' = << >> /\ UNCHANGED <<fatal, sup>> /\ Still
        BY <1>2, <2>1 DEF Reopen, supVars, schedVars, Still
    <2>3. loop # << >>
        BY <2>1
    <2>4. Places' = {} /\ OneRebuild' /\ sup \notin {"draining", "opening"}
        BY <2>2, <2>3, SamePlaces
    <2> QED
        BY <2>2, <2>4
<1> QED
    BY <1>1, <1>2

LEMMA StopGate ==
    ASSUME TypeOK, GateCore, StopBegin
    PROVE  GateCore'
<1> USE DEF GateCore, ClosedOnTheWay, StartupIsQuiet, DeathIsLatched, SendFindsItsGate,
            ReopenFindsNoStop, EndsSomehow
<1>1. /\ loop = << >> /\ gate # "rebuilding" /\ gate' = "stopping"
      /\ UNCHANGED <<fatal, loop, sup>> /\ Still
    BY DEF StopBegin, OnLoop, supVars, schedVars, Still
<1>2. Places' = Places /\ OneRebuild'
    BY <1>1, SamePlaces
<1> QED
    BY <1>1, <1>2

LEMMA SupervisorGate ==
    ASSUME TypeOK, GateCore, SupervisorStep
    PROVE  GateCore'
<1> USE DEF GateCore, ClosedOnTheWay, StartupIsQuiet, DeathIsLatched, SendFindsItsGate,
            ReopenFindsNoStop, EndsSomehow
<1>1. loop' = loop /\ Places' = Places /\ OneRebuild'
    <2>1. loop' = loop /\ Still
        BY DEF SupervisorStep, SupTestGate, SupOpenGate, SupDeath, SupLatch, SupWake, gateVars,
           schedVars, Still
    <2> QED
        BY <2>1, SamePlaces
<1>2. CASE SupTestGate
    BY <1>1, <1>2 DEF SupTestGate, Supervisor, gateVars
<1>3. CASE SupOpenGate
    BY <1>1, <1>3 DEF SupOpenGate, Supervisor
<1>4. CASE SupDeath
    BY <1>1, <1>4 DEF SupDeath
<1>5. CASE SupLatch
    BY <1>1, <1>5 DEF SupLatch, Supervisor
<1>6. CASE SupWake
    BY <1>1, <1>6 DEF SupWake, Supervisor, gateVars
<1> QED
    BY <1>2, <1>3, <1>4, <1>5, <1>6 DEF SupervisorStep

LEMMA GateInit == Init => GateCore
<1> SUFFICES ASSUME Init PROVE GateCore
    OBVIOUS
<1>1. Places = {} /\ OneRebuild
    BY DEF Init, Places, OneRebuild, RebuildsIn, RebuildBatches
<1> QED
    BY <1>1 DEF Init, GateCore, ClosedOnTheWay, StartupIsQuiet, DeathIsLatched,
       SendFindsItsGate, ReopenFindsNoStop, EndsSomehow

LEMMA GateNext ==
    ASSUME TypeOK, GateCore, [Next]_vars
    PROVE  GateCore'
<1>1. CASE \E r \in Rebuilds : CacheRebuild(r) \/ TimeoutRebuild(r)
    BY <1>1, DispatchGate, WorkerGate
<1>2. CASE Dispatch
    BY <1>2, DispatchGate DEF Dispatch
<1> QED
    BY <1>1, <1>2, RequestGate, ResolveGate, StopGate, SupervisorGate, WorkerGate DEF Next

(* The maintenance gate: there is one rebuild at a time, whose message is  *)
(* in one place of the way through the tokenizer worker and the scheduler  *)
(* and back, and no handler or thread finds another gate than the one its  *)
(* test saw, but for the death of the backend and for the stop that comes  *)
(* while the server is still loading.                                      *)
THEOREM GateHolds == Spec => []GateInv
<1>1. Init => TypeOK /\ GateCore
    BY TypeInit, GateInit
<1>2. TypeOK /\ GateCore /\ [Next]_vars => (TypeOK /\ GateCore)'
    BY NextTypes, GateNext
<1>3. TypeOK /\ GateCore => GateInv
    BY GateCoreIs
<1> QED
    BY <1>1, <1>2, <1>3, PTL DEF Spec

(* dispatch_rebuild: no request is let in while a rebuild is on its way to *)
(* the scheduler, being executed or on its way back, also when its HTTP    *)
(* call timed out, a stop came in or the backend died meanwhile.           *)
THEOREM RebuildClosesGateHolds == Spec => []RebuildClosesGate
<1>1. TypeOK /\ GateInv => RebuildClosesGate
    BY OutstandingIsSomewhere DEF GateInv, ClosedOnTheWay, RebuildClosesGate
<1> QED
    BY <1>1, TypeCorrect, GateHolds, PTL

(* _resolve_rebuild: while the gate says "rebuilding" and the backend is   *)
(* alive, the reply that will reopen it is on its way, or the handler that *)
(* will write it is running.                                               *)
THEOREM NeverWedgedHolds == Spec => []NeverWedged
<1>1. GateInv => NeverWedged
    BY DEF GateInv
<1> QED
    BY <1>1, GateHolds, PTL

(* _on_ready, _resolve_rebuild, the rollback of dispatch_rebuild: the only *)
(* step that takes the gate from "stopping" back to "serving" is that of   *)
(* the supervisor thread that had read "loading" before the stop.          *)
THEOREM StopUndoneHolds == Spec => StopUndoneOnlyAtStartup
<1>1. ASSUME TypeOK, GateInv, [Next]_vars, gate = "stopping", gate' = "serving"
      PROVE  sup = "opening"
    <2>1. CASE SupervisorStep
        BY <1>1, <2>1 DEF SupervisorStep, SupTestGate, SupOpenGate, SupDeath, SupLatch, SupWake,
           Supervisor, gateVars
    <2>2. CASE \E r \in Rebuilds : SendRebuild(r)
        BY <1>1, <2>2 DEF SendRebuild, GateInv, SendFindsItsGate
    <2>3. CASE Reopen
        <3>1. loop = <<"reopen", "serving">>
            <4>1. PICK g \in {"serving", "failed"} : loop = <<"reopen", g>>
                BY <2>3 DEF Reopen
            <4>2. g = "serving"
                BY <1>1, <2>3, <4>1 DEF Reopen
            <4> QED
                BY <4>1, <4>2
        <3> QED
            BY <1>1, <3>1 DEF GateInv, ReopenFindsNoStop
    <2>4. CASE ~SupervisorStep /\ ~(\E r \in Rebuilds : SendRebuild(r)) /\ ~Reopen
        <3>1. gate' = gate \/ gate' # "serving"
            BY <1>1, <2>4 DEF Next, Requests, Submit, Consume, Disconnect, Aborts, AbortUser,
               ListenReplies, ResolveRebuild, ResolveAll, CacheRebuild, TimeoutRebuild, Dispatch,
               CloseGate, StopBegin, StopSeal, StopAbort, StopAborted, StopTimeout,
               TokenizerStep, Replies, SchedulerReply, SchedulerRebuilt, WorkersReady,
               WorkerDies, vars, gateVars
        <3> QED
            BY <1>1, <3>1
    <2> QED
        BY <2>1, <2>2, <2>3, <2>4
<1>2. TypeOK /\ GateInv /\ [Next]_vars => [gate = "stopping" /\ gate' = "serving" => sup = "opening"]_vars
    BY <1>1
<1> QED
    BY <1>2, TypeCorrect, GateHolds, PTL DEF Spec, StopUndoneOnlyAtStartup

-----------------------------------------------------------------------------
(* Decode state.                                                           *)

LEMMA InIds ==
    ASSUME NEW s, NEW x
    PROVE  x \in Ids(s) <=> \E i \in DOMAIN s : s[i].id = x
BY DEF Ids, ToSet

LEMMA AppendFacts ==
    ASSUME NEW X, NEW s \in Seq(X), NEW m
    PROVE  /\ DOMAIN s = 1 .. Len(s) /\ Len(s) \in Nat
           /\ DOMAIN Append(s, m) = 1 .. (Len(s) + 1)
           /\ Append(s, m)[Len(s) + 1] = m
           /\ \A i \in 1 .. Len(s) : Append(s, m)[i] = s[i]
           /\ Last(Append(s, m)) = m /\ Append(s, m) # << >>
<1>1. Append(s, m) \in Seq(X \cup {m}) /\ Len(Append(s, m)) = Len(s) + 1
    BY AppendProperties
<1>2. DOMAIN Append(s, m) = 1 .. (Len(s) + 1) /\ Append(s, m)[Len(s) + 1] = m
    BY <1>1
<1> QED
    BY <1>1, <1>2 DEF Last

LEMMA DecodeOfScheduler ==
    ASSUME TypeOK, DecodeInv, Replies
    PROVE  DecodeInv'
<1>0. down \in Seq(Downward)
    BY DEF TypeOK, QueueTypes, Downward
<1>1. ASSUME NEW m \in Downward, down' = Append(down, m), decode_map' = decode_map,
             \A u \in Uids : u # m.id => sent'[u] = sent[u],
             m.id \in Uids => sent'[m.id] # << >> /\ Last(sent'[m.id]) = m.k
      PROVE  DecodeInv'
    <2>1. /\ DOMAIN down = 1 .. Len(down) /\ Len(down) \in Nat
          /\ DOMAIN down' = 1 .. (Len(down) + 1) /\ down'[Len(down) + 1] = m
          /\ \A i \in 1 .. Len(down) : down'[i] = down[i]
        BY <1>0, <1>1, AppendFacts
    <2>2. \A x : x \in Ids(down') <=> x \in Ids(down) \/ x = m.id
        BY <2>1, InIds
    <2>3. LastOnTheWay'
        <3> SUFFICES ASSUME NEW u \in Uids, u \in Ids(down')
                     PROVE  \E i \in DOMAIN down' :
                                /\ down'[i].id = u /\ down'[i].k = Last(sent'[u])
                                /\ sent'[u] # << >>
                                /\ \A j \in DOMAIN down' : j > i => down'[j].id # u
            BY DEF LastOnTheWay
        <3>1. CASE u = m.id
            BY <1>1, <2>1, <3>1
        <3>2. CASE u # m.id
            <4>1. PICK i \in DOMAIN down :
                      /\ down[i].id = u /\ down[i].k = Last(sent[u]) /\ sent[u] # << >>
                      /\ \A j \in DOMAIN down : j > i => down[j].id # u
                BY <2>2, <3>2 DEF DecodeInv, LastOnTheWay
            <4> QED
                BY <1>1, <2>1, <3>2, <4>1
        <3> QED
            BY <3>1, <3>2
    <2>4. DecodeStateReleased'
        <3> SUFFICES ASSUME NEW u \in decode_map, Ended(u)', u \notin Ids(down')
                     PROVE  FALSE
            BY <1>1 DEF DecodeStateReleased
        <3>1. u \in Uids /\ u # m.id
            BY <2>2 DEF TypeOK, QueueTypes
        <3>2. Ended(u)
            BY <1>1, <3>1 DEF Ended
        <3> QED
            BY <2>2, <3>2 DEF DecodeInv, DecodeStateReleased
    <2> QED
        BY <2>3, <2>4 DEF DecodeInv
<1>2. ASSUME NEW u \in Uids, NEW k \in Kinds, SchedulerReply(u, k) PROVE DecodeInv'
    <2>1. PICK m : m = [k |-> k, id |-> u]
        OBVIOUS
    <2>2. m \in Downward /\ m.id = u /\ m.k = k
        BY <2>1 DEF Downward, UserReply
    <2>3. down' = Append(down, m) /\ decode_map' = decode_map
          /\ sent' = [sent EXCEPT ![u] = Append(@, k)]
        BY <1>2, <2>1 DEF SchedulerReply, tokVars
    <2>4. sent'[u] = Append(sent[u], k) /\ sent[u] \in Seq(Kinds)
        BY <2>3 DEF TypeOK, QueueTypes
    <2>5. sent'[u] # << >> /\ Last(sent'[u]) = k
        BY <2>4, AppendFacts
    <2>6. \A v \in Uids : v # u => sent'[v] = sent[v]
        BY <2>3 DEF TypeOK, QueueTypes
    <2> QED
        BY <1>1, <2>2, <2>3, <2>5, <2>6
<1>3. ASSUME NEW r \in Rebuilds, NEW k \in Outcomes, SchedulerRebuilt(r, k) PROVE DecodeInv'
    <2>1. PICK m : m = [k |-> k, id |-> r]
        OBVIOUS
    <2>2. m \in Downward /\ m.id \notin Uids
        BY <2>1, IdsAssumption DEF Downward, RebuildReply
    <2>3. down' = Append(down, m) /\ decode_map' = decode_map /\ sent' = sent
        BY <1>3, <2>1 DEF SchedulerRebuilt, tokVars
    <2> QED
        BY <1>1, <2>2, <2>3
<1> QED
    BY <1>2, <1>3 DEF Replies

LEMMA DecodeOfTokenizer ==
    ASSUME TypeOK, DecodeInv, TokenizerStep
    PROVE  DecodeInv'
<1>1. PICK i, j \in Nat : \E bad \in SUBSET Uids : Pass(i, j, bad)
    BY TokenizerPass
<1>2. PICK bad \in SUBSET Uids : Pass(i, j, bad)
    BY <1>1
<1>3. /\ j \in 0 .. Len(down) /\ down' = SubSeq(down, j + 1, Len(down)) /\ sent' = sent
      /\ \A x : x \in decode_map' =>
          /\ x \in decode_map \/ \E n \in 1 .. j : down[n].id = x /\ down[n].k \in Sampled
          /\ \A n \in 1 .. j : down[n].id = x => down[n].k \notin Finished
    BY <1>2 DEF Pass
<1>4. down \in Seq(Downward) /\ DOMAIN down = 1 .. Len(down) /\ Len(down) \in Nat
    BY DEF TypeOK, QueueTypes, Downward
<1>5. /\ DOMAIN down' = 1 .. (Len(down) - j)
      /\ \A n \in 1 .. (Len(down) - j) : down'[n] = down[n + j]
    BY <1>3, <1>4, LeftFacts
<1>6. ASSUME NEW n \in DOMAIN down, n > j
      PROVE  n - j \in DOMAIN down' /\ down'[n - j] = down[n]
    <2>1. n - j \in 1 .. (Len(down) - j) /\ (n - j) + j = n
        BY <1>3, <1>4, <1>6
    <2> QED
        BY <1>5, <2>1
<1>7. ASSUME NEW n \in DOMAIN down'
      PROVE  n + j \in DOMAIN down /\ down'[n] = down[n + j] /\ n + j > j /\ n \in Nat
    BY <1>3, <1>4, <1>5
<1>8. LastOnTheWay'
    <2> SUFFICES ASSUME NEW u \in Uids, u \in Ids(down')
                 PROVE  \E p \in DOMAIN down' :
                            /\ down'[p].id = u /\ down'[p].k = Last(sent[u])
                            /\ sent[u] # << >>
                            /\ \A q \in DOMAIN down' : q > p => down'[q].id # u
        BY <1>3 DEF LastOnTheWay
    <2>1. PICK n \in DOMAIN down' : down'[n].id = u
        BY InIds
    <2>2. n + j \in DOMAIN down /\ down[n + j].id = u /\ n + j > j
        BY <1>7, <2>1
    <2>3. u \in Ids(down)
        BY <2>2, InIds
    <2>4. PICK p \in DOMAIN down :
              /\ down[p].id = u /\ down[p].k = Last(sent[u]) /\ sent[u] # << >>
              /\ \A q \in DOMAIN down : q > p => down[q].id # u
        BY <2>3 DEF DecodeInv, LastOnTheWay
    <2>5. p > j
        BY <1>3, <1>4, <2>2, <2>4
    <2>6. p - j \in DOMAIN down' /\ down'[p - j] = down[p]
        BY <1>6, <2>5
    <2>7. ASSUME NEW q \in DOMAIN down', q > p - j PROVE down'[q].id # u
        <3>1. q + j \in DOMAIN down /\ down'[q] = down[q + j] /\ q \in Nat
            BY <1>7
        <3>2. q + j > p
            BY <1>3, <1>4, <2>7, <3>1
        <3> QED
            BY <2>4, <3>1, <3>2
    <2> QED
        BY <2>4, <2>6, <2>7
<1>9. DecodeStateReleased'
    <2> SUFFICES ASSUME NEW u \in decode_map', Ended(u)', u \notin Ids(down')
                 PROVE  FALSE
        BY DEF DecodeStateReleased
    <2>1. Ended(u)
        BY <1>3 DEF Ended
    <2>2. u \in Ids(down)
        <3>1. u \in decode_map => u \in Ids(down)
            BY <2>1 DEF DecodeInv, DecodeStateReleased
        <3>2. ASSUME NEW n \in 1 .. j, down[n].id = u PROVE u \in Ids(down)
            <4>1. n \in DOMAIN down
                BY <1>3, <1>4
            <4> QED
                BY <3>2, <4>1, InIds
        <3> QED
            BY <1>3, <3>1, <3>2
    <2>3. u \in Uids
        BY NextTypes DEF TypeOK, QueueTypes, Next
    <2>4. PICK p \in DOMAIN down : down[p].id = u /\ down[p].k = Last(sent[u])
        BY <2>2, <2>3 DEF DecodeInv, LastOnTheWay
    <2>5. down[p].k \in Finished
        BY <2>1, <2>4 DEF Ended
    <2>6. p > j
        <3>1. ~(p \in 1 .. j)
            BY <1>3, <2>4, <2>5
        <3> QED
            BY <1>3, <1>4, <3>1
    <2>7. p - j \in DOMAIN down' /\ down'[p - j] = down[p]
        BY <1>6, <2>6
    <2> QED
        BY <2>4, <2>7, InIds
<1> QED
    BY <1>8, <1>9 DEF DecodeInv

LEMMA DecodeNext ==
    ASSUME TypeOK, DecodeInv, [Next]_vars
    PROVE  DecodeInv'
<1>1. CASE UNCHANGED <<down, decode_map, sent>>
    BY <1>1 DEF DecodeInv, LastOnTheWay, DecodeStateReleased, Ended
<1>2. CASE ~TokenizerStep /\ ~Replies
    <2>1. UNCHANGED <<down, decode_map, sent>>
        BY <1>2 DEF Next, Requests, Submit, Consume, Disconnect, Aborts, AbortUser,
           ListenReplies, ResolveRebuild, Reopen, ResolveAll, CacheRebuild, TimeoutRebuild,
           Dispatch, CloseGate, SendRebuild, StopBegin, StopSeal, StopAbort, StopAborted,
           StopTimeout, SupervisorStep, WorkersReady, WorkerDies, vars, tokVars, schedVars
    <2> QED
        BY <1>1, <2>1
<1> QED
    BY <1>2, DecodeOfScheduler, DecodeOfTokenizer

(* DetokenizeManager.discard: once the worker has processed all that was   *)
(* sent for an ended request it keeps no decode state for it.  A token that*)
(* an abort overtakes creates the state anew; its terminal message, which  *)
(* is the last of the request on the way, still comes and releases it.     *)
THEOREM DecodeStateReleasedHolds == Spec => []DecodeStateReleased
<1>1. Init => DecodeInv
    BY DEF Init, DecodeInv, LastOnTheWay, DecodeStateReleased, Ids, ToSet
<1>2. TypeOK /\ DecodeInv /\ [Next]_vars => DecodeInv'
    BY DecodeNext
<1>3. DecodeInv => DecodeStateReleased
    BY DEF DecodeInv
<1> QED
    BY <1>1, <1>2, <1>3, TypeCorrect, PTL DEF Spec

-----------------------------------------------------------------------------
(* Active requests.                                                        *)

(* Some batch of o carries the message m.                                  *)
Carries(o, m) == \E i \in DOMAIN o : \E n \in DOMAIN o[i] : o[i][n] = m

LEMMA AddedCarries ==
    ASSUME NEW o \in Seq(ReplyBatch), NEW s \in Seq(UserReply), NEW m
    PROVE  Carries(Added(o, s), m) <=> Carries(o, m) \/ \E n \in DOMAIN s : s[n] = m
<1>1. CASE s = << >>
    BY <1>1 DEF Added
<1>2. CASE s # << >>
    <2>1. /\ DOMAIN o = 1 .. Len(o) /\ Len(o) \in Nat
          /\ DOMAIN Append(o, s) = 1 .. (Len(o) + 1)
          /\ Append(o, s)[Len(o) + 1] = s
          /\ \A i \in 1 .. Len(o) : Append(o, s)[i] = o[i]
        BY AppendFacts
    <2>2. Added(o, s) = Append(o, s)
        BY <1>2 DEF Added
    <2>3. (Len(o) + 1) \in DOMAIN Append(o, s) /\ \A i \in 1 .. Len(o) : i \in 1 .. (Len(o) + 1)
        BY <2>1
    <2>4. \A i \in DOMAIN Append(o, s) : i = Len(o) + 1 \/ i \in 1 .. Len(o)
        BY <2>1
    <2> QED
        BY <2>1, <2>2, <2>3, <2>4 DEF Carries
<1> QED
    BY <1>1, <1>2

LEMMA ConcatFacts ==
    ASSUME NEW S, NEW T, NEW s \in Seq(S), NEW t \in Seq(T)
    PROVE  /\ Len(s \o t) = Len(s) + Len(t) /\ DOMAIN (s \o t) = 1 .. (Len(s) + Len(t))
           /\ DOMAIN s = 1 .. Len(s) /\ Len(s) \in Nat /\ Len(t) \in Nat
           /\ \A p \in 1 .. (Len(s) + Len(t)) :
                (s \o t)[p] = IF p <= Len(s) THEN s[p] ELSE t[p - Len(s)]
OBVIOUS

(* What the outbox carries of a request after a pass.                      *)
LEMMA PassCarries ==
    ASSUME TypeOK, NEW i \in Nat, NEW j \in Nat, NEW bad, Pass(i, j, bad),
           NEW m \in UserReply
    PROVE  Carries(out', m) <=>
               \/ Carries(out, m)
               \/ \E n \in 1 .. j : down[n] = m
               \/ m.k = "error" /\ m.id \in bad
<1>1. PICK d : d = SubSeq(down, 1, j)
    OBVIOUS
<1>2. /\ j \in 0 .. Len(down) /\ out' = WithRefused(d, bad)
      /\ bad \in SUBSET Uids /\ IsFiniteSet(bad)
    BY <1>1 DEF Pass
<1>3. down \in Seq(Downward) /\ out \in Seq(ReplyBatch)
    BY DEF TypeOK, QueueTypes, Downward
<1>4. /\ d \in Seq(Downward) /\ DOMAIN d = 1 .. j /\ \A n \in 1 .. j : d[n] = down[n]
    BY <1>1, <1>2, <1>3, TakenFacts
<1>5. /\ WithResults(d) \in Seq(ReplyBatch) /\ WithAdmitted(d) \in Seq(ReplyBatch)
      /\ WithSampled(d) \in Seq(ReplyBatch) /\ WithErrors(d) \in Seq(ReplyBatch)
    BY <1>2, <1>3, <1>4, PassSequences
<1>6. /\ OfKind(d, {"admit"}) \in Seq(UserReply) /\ OfKind(d, Sampled) \in Seq(UserReply)
      /\ OfKind(d, Errors) \in Seq(UserReply)
    BY <1>4, UserReplies DEF Kinds
<1>7. Reply("error", bad) \in Seq(UserReply)
    <2>1. Reply("error", bad) \in Seq([k : {"error"}, id : bad])
        BY <1>2, ReplyElems
    <2>2. [k : {"error"}, id : bad] \subseteq UserReply
        BY <1>2 DEF UserReply, Kinds, Errors
    <2> QED
        BY <2>1, <2>2, SeqOfSubset
<1>8. ASSUME NEW K
      PROVE  (\E n \in DOMAIN OfKind(d, K) : OfKind(d, K)[n] = m)
                 <=> m.k \in K /\ \E n \in 1 .. j : down[n] = m
    <2>1. /\ \A n \in DOMAIN OfKind(d, K) :
                 /\ OfKind(d, K)[n].k \in K
                 /\ \E p \in DOMAIN d : d[p] = OfKind(d, K)[n]
          /\ \A p \in DOMAIN d : d[p].k \in K =>
                 \E n \in DOMAIN OfKind(d, K) : OfKind(d, K)[n] = d[p]
        <3>1. d \in Seq(Downward)
            BY <1>4
        <3> QED
            BY ONLY <3>1, OfKindElems
    <2> QED
        BY <1>4, <2>1
<1>9. (\E n \in DOMAIN Reply("error", bad) : Reply("error", bad)[n] = m)
          <=> m.k = "error" /\ m.id \in bad
    <2>1. PICK t : t = Reply("error", bad)
        OBVIOUS
    <2>2. t \in Seq([k : {"error"}, id : bad]) /\ \A u \in bad : \E n \in DOMAIN t : t[n].id = u
        <3>1. IsFiniteSet(bad)
            BY <1>2
        <3>2. Reply("error", bad) \in Seq([k : {"error"}, id : bad])
            BY <3>1, ReplyElems
        <3>3. \A u \in bad : \E n \in DOMAIN Reply("error", bad) : Reply("error", bad)[n].id = u
            BY <3>1, ReplyElems
        <3> QED
            BY <2>1, <3>2, <3>3
    <2>3. \A n \in DOMAIN t : t[n] \in [k : {"error"}, id : bad]
        <3>1. PICK X : X = [k : {"error"}, id : bad]
            OBVIOUS
        <3>2. t \in Seq(X)
            BY <2>2, <3>1
        <3>3. \A n \in DOMAIN t : t[n] \in X
            BY <3>2
        <3> QED
            BY <3>1, <3>3
    <2>4. \A n \in DOMAIN t : t[n] = m => m.k = "error" /\ m.id \in bad
        BY <2>3
    <2>5. ASSUME m.k = "error", m.id \in bad PROVE \E n \in DOMAIN t : t[n] = m
        <3>1. PICK n \in DOMAIN t : t[n].id = m.id
            BY <2>2, <2>5
        <3>2. t[n] \in [k : {"error"}, id : bad]
            BY <2>3
        <3>3. t[n] = m
            BY <2>5, <3>1, <3>2 DEF UserReply
        <3> QED
            BY <3>3
    <2> QED
        BY <2>1, <2>4, <2>5
<1>10. Carries(WithResults(d), m) <=> Carries(out, m)
    <2>1. PICK t : t = OfKind(d, Outcomes)
        OBVIOUS
    <2>2. t \in Seq(RebuildReply)
        BY <1>4, <2>1, RebuildReplies
    <2>3. PICK X : X = [n \in DOMAIN t |-> <<t[n]>>]
        OBVIOUS
    <2>4. /\ X \in Seq(Seq(RebuildReply)) /\ Len(X) = Len(t)
          /\ \A n \in 1 .. Len(t) : X[n] = <<t[n]>>
        <3>1. DOMAIN t = 1 .. Len(t) /\ Len(t) \in Nat
            BY <2>2
        <3>2. \A n \in 1 .. Len(t) : X[n] = <<t[n]>> /\ X[n] \in Seq(RebuildReply)
            BY <2>2, <2>3, <3>1
        <3>3. X \in [1 .. Len(t) -> Seq(RebuildReply)]
            BY <2>3, <3>1, <3>2
        <3> QED
            BY <3>1, <3>2, <3>3, FunctionIsSeq
    <2>5. WithResults(d) = out \o X
        BY <2>1, <2>3 DEF WithResults
    <2>6. /\ Len(out \o X) = Len(out) + Len(X) /\ DOMAIN (out \o X) = 1 .. (Len(out) + Len(X))
          /\ DOMAIN out = 1 .. Len(out) /\ Len(out) \in Nat /\ Len(X) \in Nat
          /\ \A p \in 1 .. (Len(out) + Len(X)) :
                (out \o X)[p] = IF p <= Len(out) THEN out[p] ELSE X[p - Len(out)]
        <3>1. out \in Seq(ReplyBatch) /\ X \in Seq(Seq(RebuildReply))
            BY <1>3, <2>4
        <3> QED
            BY ONLY <3>1, ConcatFacts
    <2>7. ASSUME NEW p \in 1 .. (Len(out) + Len(X)), p > Len(out),
                 NEW n \in DOMAIN (out \o X)[p], (out \o X)[p][n] = m
          PROVE  FALSE
        <3>1. p - Len(out) \in 1 .. Len(X) /\ (out \o X)[p] = X[p - Len(out)]
            BY <2>6, <2>7
        <3>2. (out \o X)[p] \in Seq(RebuildReply)
            BY <2>4, <3>1
        <3>3. m \in RebuildReply
            BY <2>7, <3>2
        <3> QED
            BY <3>3, IdsAssumption DEF UserReply, RebuildReply
    <2>8. Carries(out \o X, m) => Carries(out, m)
        <3> SUFFICES ASSUME NEW p \in 1 .. (Len(out) + Len(X)),
                            NEW n \in DOMAIN (out \o X)[p], (out \o X)[p][n] = m
                     PROVE  Carries(out, m)
            BY <2>6 DEF Carries
        <3>1. p <= Len(out)
            <4>1. ~(p > Len(out))
                BY <2>7
            <4> QED
                BY <2>6, <4>1
        <3>2. p \in DOMAIN out /\ (out \o X)[p] = out[p]
            BY <2>6, <3>1
        <3> QED
            BY <3>2 DEF Carries
    <2>9. Carries(out, m) => Carries(out \o X, m)
        <3> SUFFICES ASSUME NEW p \in DOMAIN out, NEW n \in DOMAIN out[p], out[p][n] = m
                     PROVE  Carries(out \o X, m)
            BY DEF Carries
        <3>1. p \in DOMAIN (out \o X) /\ (out \o X)[p] = out[p]
            BY <2>6
        <3> QED
            BY <3>1 DEF Carries
    <2> QED
        BY <2>5, <2>8, <2>9
<1>11. Carries(WithAdmitted(d), m) <=>
           Carries(WithResults(d), m) \/ (m.k \in {"admit"} /\ \E n \in 1 .. j : down[n] = m)
    <2>1. PICK s : s = OfKind(d, {"admit"})
        OBVIOUS
    <2>2. s \in Seq(UserReply) /\ WithAdmitted(d) = Added(WithResults(d), s)
        BY <1>6, <2>1 DEF WithAdmitted
    <2>3. Carries(WithAdmitted(d), m) <=>
              Carries(WithResults(d), m) \/ \E n \in DOMAIN s : s[n] = m
        BY <1>5, <2>2, AddedCarries
    <2>4. (\E n \in DOMAIN s : s[n] = m)
              <=> m.k \in {"admit"} /\ \E n \in 1 .. j : down[n] = m
        BY <1>8, <2>1
    <2> QED
        BY <2>3, <2>4
<1>12. Carries(WithSampled(d), m) <=>
           Carries(WithAdmitted(d), m) \/ (m.k \in Sampled /\ \E n \in 1 .. j : down[n] = m)
    BY <1>5, <1>6, <1>8, AddedCarries DEF WithSampled
<1>13. Carries(WithErrors(d), m) <=>
           Carries(WithSampled(d), m) \/ (m.k \in Errors /\ \E n \in 1 .. j : down[n] = m)
    BY <1>5, <1>6, <1>8, AddedCarries DEF WithErrors
<1>14. Carries(WithRefused(d, bad), m) <=>
           Carries(WithErrors(d), m) \/ (m.k = "error" /\ m.id \in bad)
    BY <1>5, <1>7, <1>9, AddedCarries DEF WithRefused
<1>15. m.k \in {"admit"} \cup Sampled \cup Errors
    BY DEF UserReply, Kinds
<1> QED
    BY <1>2, <1>10, <1>11, <1>12, <1>13, <1>14, <1>15

LEMMA AnswerableIs ==
    ASSUME NEW u
    PROVE  Answerable(u) <=>
               \/ Asked(u) # {} \/ u \in toScheduler \/ Contract!Streaming(sent[u])
               \/ Ends(down, u) \/ EndOut(out, u)
<1>1. (\E m \in ToSet(down) : m.id = u /\ m.k \in Finished) <=> Ends(down, u)
    BY DEF ToSet, Ends
<1>2. (\E b \in ToSet(out) : \E m \in ToSet(b) : m.id = u /\ m.k \in Finished) <=> EndOut(out, u)
    BY DEF ToSet, Ends, EndOut
<1>3. (\E i \in DOMAIN up : up[i] = [k |-> "tokenize", id |-> u]) <=> Asked(u) # {}
    BY DEF Asked
<1> QED
    BY <1>1, <1>2, <1>3 DEF Answerable

Awaited(u) ==
    \/ Asked(u) # {} \/ u \in toScheduler \/ Contract!Streaming(sent[u])
    \/ Ends(down, u) \/ EndOut(out, u)

LEMMA ActiveIs == ActiveIsAnswerable <=> \A u \in inflight : client[u] = "broken" \/ Awaited(u)
BY AnswerableIs DEF ActiveIsAnswerable, Awaited

LEMMA ActiveIsNext ==
    ActiveIsAnswerable' <=> (\A u \in inflight : client[u] = "broken" \/ Awaited(u))'
BY ActiveIs, PTL

(* What a request waits for survives a step of the queues.                 *)
LEMMA SentIsAsked ==
    ASSUME NEW s \in Seq(Requested), NEW m, NEW u
    PROVE  /\ \A i \in DOMAIN s : s[i] = [k |-> "tokenize", id |-> u] =>
                 \E n \in DOMAIN Append(s, m) : Append(s, m)[n] = [k |-> "tokenize", id |-> u]
           /\ \E n \in DOMAIN Append(s, m) : Append(s, m)[n] = m
<1>1. /\ DOMAIN s = 1 .. Len(s) /\ Len(s) \in Nat
      /\ DOMAIN Append(s, m) = 1 .. (Len(s) + 1)
      /\ Append(s, m)[Len(s) + 1] = m
      /\ \A i \in 1 .. Len(s) : Append(s, m)[i] = s[i]
    BY AppendFacts
<1>2. \A i \in 1 .. Len(s) : i \in 1 .. (Len(s) + 1)
    BY <1>1
<1>3. (Len(s) + 1) \in DOMAIN Append(s, m)
    BY <1>1
<1> QED
    BY <1>1, <1>2, <1>3

LEMMA ActiveAfterSend ==
    ASSUME TypeOK, ActiveIsAnswerable, NEW m \in Requested,
           Send(m.k, m.id) \/ SendRaises, UNCHANGED <<toScheduler, sent, down, out>>,
           \A u \in inflight : client[u] = "broken" => client'[u] = "broken",
           \A u \in inflight' : u \in inflight \/ client'[u] = "broken"
                                    \/ (Send(m.k, m.id) /\ m = [k |-> "tokenize", id |-> u])
    PROVE  ActiveIsAnswerable'
<1>1. up' = up \/ up' = Append(up, m)
    BY SendTypes DEF TypeOK
<1>2. up \in Seq(Requested)
    BY DEF TypeOK, QueueTypes
<1>3. ASSUME NEW u \in inflight, Awaited(u) PROVE Awaited(u)'
    <2>1. Asked(u) # {} => Asked(u)' # {}
        BY <1>1, <1>2, SentIsAsked DEF Asked
    <2> QED
        BY <1>3, <2>1 DEF Awaited
<1>4. ASSUME NEW u, Send(m.k, m.id), m = [k |-> "tokenize", id |-> u] PROVE Awaited(u)'
    <2>1. up' = Append(up, m)
        BY <1>4 DEF Send
    <2>2. \E n \in DOMAIN up' : up'[n] = m
        BY <1>2, <2>1, SentIsAsked
    <2>3. Asked(u)' # {}
        BY <1>4, <2>2 DEF Asked
    <2> QED
        BY <2>3 DEF Awaited
<1>5. \A u \in inflight' : client'[u] = "broken" \/ Awaited(u)'
    BY <1>3, <1>4, ActiveIs
<1> QED
    BY <1>5, ActiveIsNext

LEMMA ActiveOfRequests ==
    ASSUME TypeOK, ActiveIsAnswerable, Requests \/ Aborts
    PROVE  ActiveIsAnswerable'
<1>1. ASSUME NEW u \in Uids, Submit(u) PROVE ActiveIsAnswerable'
    <2>1. PICK m : m = [k |-> "tokenize", id |-> u]
        OBVIOUS
    <2>2. m \in Requested /\ m.k = "tokenize" /\ m.id = u
        BY <2>1 DEF Requested
    <2>3. /\ inflight' = inflight \cup {u} /\ client[u] = "new"
          /\ \/ Send("tokenize", u) /\ client' = [client EXCEPT ![u] = "waiting"]
             \/ SendRaises /\ client' = [client EXCEPT ![u] = "broken"]
          /\ UNCHANGED <<toScheduler, sent, down, out>>
        BY <1>1 DEF Submit, schedVars
    <2>4. inflight \subseteq Uids /\ client \in [Uids -> {"new", "waiting", "done", "gone", "broken"}]
        BY DEF TypeOK, UserTypes
    <2>5. \A v \in inflight : client[v] = "broken" => client'[v] = "broken"
        BY <2>3, <2>4
    <2>6. \A v \in inflight' : v \in inflight \/ client'[v] = "broken"
                                    \/ (Send(m.k, m.id) /\ m = [k |-> "tokenize", id |-> v])
        BY <2>1, <2>2, <2>3, <2>4
    <2> QED
        BY <2>2, <2>3, <2>5, <2>6, ActiveAfterSend
<1>2. ASSUME NEW u \in Uids, NEW who \in {"client", "stop"}, AbortUser(u, who)
      PROVE  ActiveIsAnswerable'
    <2>1. PICK m : m = [k |-> "abort", id |-> u]
        OBVIOUS
    <2>2. m \in Requested /\ m.k = "abort" /\ m.id = u
        BY <2>1 DEF Requested
    <2>3. /\ inflight' = inflight /\ (Send("abort", u) \/ SendRaises)
          /\ UNCHANGED <<toScheduler, sent, down, out>>
        BY <1>2 DEF AbortUser, schedVars
    <2>4. \A v \in inflight : client[v] = "broken" => client'[v] = "broken"
        BY <1>2 DEF AbortUser, TypeOK, UserTypes
    <2> QED
        BY <2>2, <2>3, <2>4, ActiveAfterSend
<1> QED
    BY <1>1, <1>2 DEF Requests, Aborts

LEMMA ActiveOfReplies ==
    ASSUME TypeOK, ActiveIsAnswerable, ListenReplies \/ ResolveRebuild
    PROVE  ActiveIsAnswerable'
<1>1. /\ out # << >> /\ out' = Tail(out) /\ UNCHANGED <<up, toScheduler, sent, down, client>>
      /\ inflight' \subseteq inflight
    BY DEF ListenReplies, ResolveRebuild, schedVars, userVars
<1>2. /\ Head(out) = out[1] /\ Len(out) \in Nat /\ 1 <= Len(out)
      /\ Tail(out) \in Seq(ReplyBatch) /\ Len(Tail(out)) = Len(out) - 1
      /\ \A n \in 1 .. (Len(out) - 1) : Tail(out)[n] = out[n + 1]
    BY <1>1, HeadBatch DEF TypeOK
<1>3. DOMAIN out = 1 .. Len(out) /\ DOMAIN out' = 1 .. (Len(out) - 1)
    BY <1>1, <1>2 DEF TypeOK, QueueTypes
<1>4. ASSUME NEW u \in inflight' PROVE ~Ends(Head(out), u)
    <2>1. CASE ListenReplies
        <3>1. Head(out) \in Seq(UserReply)
            BY <2>1, HeadBatch DEF ListenReplies, TypeOK
        <3>2. u \notin Ids(OfKind(Head(out), Finished))
            BY <2>1 DEF ListenReplies, Observed
        <3> QED
            BY <3>1, <3>2, IdsOfKind DEF Ends
    <2>2. CASE ResolveRebuild
        <3>1. Head(out)[1] \in RebuildReply /\ Head(out) = <<Head(out)[1]>>
            BY <2>2, HeadBatch DEF ResolveRebuild, TypeOK
        <3>2. \A n \in DOMAIN Head(out) : Head(out)[n] = Head(out)[1]
            BY <3>1
        <3>3. u \in Uids
            BY <1>1 DEF TypeOK, UserTypes
        <3> QED
            BY <3>1, <3>2, <3>3, IdsAssumption DEF Ends, RebuildReply
    <2> QED
        BY <2>1, <2>2
<1>5. ASSUME NEW u \in inflight', EndOut(out, u) PROVE EndOut(out', u)
    <2>1. PICK i \in DOMAIN out : Ends(out[i], u)
        BY <1>5 DEF EndOut
    <2>2. i # 1
        BY <1>2, <1>4, <2>1
    <2>3. i - 1 \in 1 .. (Len(out) - 1) /\ (i - 1) + 1 = i
        BY <1>2, <1>3, <2>2
    <2>4. out'[i - 1] = out[i]
        BY <1>1, <1>2, <2>3
    <2> QED
        BY <1>3, <2>1, <2>3, <2>4 DEF EndOut
<1>6. \A u \in inflight' : client'[u] = "broken" \/ Awaited(u)'
    <2> SUFFICES ASSUME NEW u \in inflight' PROVE client'[u] = "broken" \/ Awaited(u)'
        OBVIOUS
    <2>1. client[u] = "broken" \/ Awaited(u)
        BY <1>1, ActiveIs
    <2>2. Asked(u)' = Asked(u)
        BY <1>1 DEF Asked
    <2> QED
        BY <1>1, <1>5, <2>1, <2>2 DEF Awaited
<1> QED
    BY <1>6, ActiveIsNext

LEMMA ActiveOfTokenizer ==
    ASSUME TypeOK, ActiveIsAnswerable, TokenizerStep
    PROVE  ActiveIsAnswerable'
<1>1. PICK i, j \in Nat : \E bad \in SUBSET Uids : Pass(i, j, bad)
    BY TokenizerPass
<1>2. PICK bad \in SUBSET Uids : Pass(i, j, bad)
    BY <1>1
<1>3. /\ i \in 0 .. Len(up) /\ j \in 0 .. Len(down)
      /\ up' = SubSeq(up, i + 1, Len(up)) /\ down' = SubSeq(down, j + 1, Len(down))
      /\ \A x : x \in toScheduler' <=>
          \/ x \in toScheduler
          \/ \E n \in 1 .. i : up[n].id = x /\ up[n].k = "rebuild"
          \/ x \notin bad /\ \E n \in 1 .. i : up[n].id = x /\ up[n].k = "tokenize"
      /\ UNCHANGED <<client, inflight, sent>>
    BY <1>2 DEF Pass, userVars
<1>4. /\ up \in Seq(Requested) /\ DOMAIN up = 1 .. Len(up) /\ Len(up) \in Nat
      /\ down \in Seq(Downward) /\ DOMAIN down = 1 .. Len(down) /\ Len(down) \in Nat
    BY DEF TypeOK, QueueTypes, Downward
<1>5. /\ DOMAIN up' = 1 .. (Len(up) - i) /\ \A n \in 1 .. (Len(up) - i) : up'[n] = up[n + i]
      /\ DOMAIN down' = 1 .. (Len(down) - j)
      /\ \A n \in 1 .. (Len(down) - j) : down'[n] = down[n + j]
    BY <1>3, <1>4, LeftFacts
<1>6. ASSUME NEW m \in UserReply
      PROVE  Carries(out', m) <=>
                 \/ Carries(out, m) \/ (\E n \in 1 .. j : down[n] = m)
                 \/ (m.k = "error" /\ m.id \in bad)
    BY <1>2, PassCarries
<1>7. ASSUME NEW m \in UserReply, Carries(out', m), m.k \in Finished PROVE EndOut(out', m.id)
    BY <1>7 DEF Carries, EndOut, Ends
<1>8. ASSUME NEW u \in Uids, Asked(u) # {}
      PROVE  Asked(u)' # {} \/ u \in toScheduler' \/ EndOut(out', u)
    <2>1. PICK n \in DOMAIN up : up[n] = [k |-> "tokenize", id |-> u]
        BY <1>8 DEF Asked
    <2>2. CASE n > i
        <3>1. n - i \in 1 .. (Len(up) - i) /\ (n - i) + i = n
            BY <1>3, <1>4, <2>2
        <3>2. up'[n - i] = up[n] /\ n - i \in DOMAIN up'
            BY <1>5, <3>1
        <3> QED
            BY <2>1, <3>2 DEF Asked
    <2>3. CASE n <= i /\ u \notin bad
        <3>1. n \in 1 .. i /\ up[n].id = u /\ up[n].k = "tokenize"
            BY <1>3, <1>4, <2>1, <2>3
        <3> QED
            BY <1>3, <2>3, <3>1
    <2>4. CASE u \in bad
        <3>1. PICK m : m = [k |-> "error", id |-> u]
            OBVIOUS
        <3>2. m \in UserReply /\ m.k = "error" /\ m.id = u /\ m.k \in Finished
            BY <3>1 DEF UserReply, Kinds, Errors, Finished
        <3> QED
            BY <1>6, <1>7, <2>4, <3>2
    <2> QED
        BY <1>3, <1>4, <2>2, <2>3, <2>4
<1>9. ASSUME NEW u \in Uids, Ends(down, u) PROVE Ends(down', u) \/ EndOut(out', u)
    <2>1. PICK n \in DOMAIN down : down[n].id = u /\ down[n].k \in Finished
        BY <1>9 DEF Ends
    <2>2. CASE n > j
        <3>1. n - j \in 1 .. (Len(down) - j) /\ (n - j) + j = n
            BY <1>3, <1>4, <2>2
        <3>2. down'[n - j] = down[n] /\ n - j \in DOMAIN down'
            BY <1>5, <3>1
        <3> QED
            BY <2>1, <3>2 DEF Ends
    <2>3. CASE n <= j
        <3>1. n \in 1 .. j
            BY <1>3, <1>4, <2>3
        <3>2. down[n] \in UserReply
            <4>1. down[n] \in Downward
                BY <1>4
            <4> QED
                BY <2>1, <4>1, IdsAssumption DEF Downward, RebuildReply
        <3>3. Carries(out', down[n])
            BY <1>6, <3>1, <3>2
        <3> QED
            BY <1>7, <2>1, <3>2, <3>3
    <2> QED
        BY <1>3, <1>4, <2>2, <2>3
<1>10. ASSUME NEW u \in Uids, EndOut(out, u) PROVE EndOut(out', u)
    <2>1. PICK p \in DOMAIN out : Ends(out[p], u)
        BY <1>10 DEF EndOut
    <2>2. PICK n \in DOMAIN out[p] : out[p][n].id = u /\ out[p][n].k \in Finished
        BY <2>1 DEF Ends
    <2>3. out[p][n] \in UserReply
        <3>1. out[p] \in ReplyBatch
            BY DEF TypeOK, QueueTypes
        <3>2. CASE out[p] \in Seq(UserReply)
            BY <3>2
        <3>3. CASE \E m \in RebuildReply : out[p] = <<m>>
            BY <2>2, <3>3, IdsAssumption DEF RebuildReply
        <3> QED
            BY <3>1, <3>2, <3>3 DEF ReplyBatch
    <2>4. Carries(out, out[p][n])
        BY DEF Carries
    <2>5. PICK m : m = out[p][n]
        OBVIOUS
    <2>6. m \in UserReply /\ Carries(out', m) /\ m.k \in Finished /\ m.id = u
        BY <1>6, <2>2, <2>3, <2>4, <2>5
    <2> QED
        BY <1>7, <2>6
<1>11. \A u \in inflight' : client'[u] = "broken" \/ Awaited(u)'
    <2> SUFFICES ASSUME NEW u \in inflight', client'[u] # "broken" PROVE Awaited(u)'
        OBVIOUS
    <2>1. u \in Uids /\ Awaited(u)
        BY <1>3, ActiveIs DEF TypeOK, UserTypes
    <2>2. u \in toScheduler => u \in toScheduler'
        BY <1>3
    <2> QED
        BY <1>3, <1>8, <1>9, <1>10, <2>1, <2>2 DEF Awaited
<1> QED
    BY <1>11, ActiveIsNext

LEMMA ActiveOfScheduler ==
    ASSUME TypeOK, ActiveIsAnswerable, Replies
    PROVE  ActiveIsAnswerable'
<1>0. /\ down \in Seq(Downward) /\ inflight \subseteq Uids
      /\ sent \in [Uids -> Seq(Kinds)] /\ inflight' = inflight /\ client' = client
      /\ up' = up /\ out' = out
    BY DEF TypeOK, QueueTypes, UserTypes, Downward, Replies, SchedulerReply, SchedulerRebuilt,
       userVars
<1>1. ASSUME NEW m, down' = Append(down, m), NEW u, Ends(down, u) \/ (m.id = u /\ m.k \in Finished)
      PROVE  Ends(down', u)
    <2>1. /\ DOMAIN down = 1 .. Len(down) /\ Len(down) \in Nat
          /\ DOMAIN down' = 1 .. (Len(down) + 1) /\ down'[Len(down) + 1] = m
          /\ \A i \in 1 .. Len(down) : down'[i] = down[i]
        BY <1>0, <1>1, AppendFacts
    <2>2. (Len(down) + 1) \in DOMAIN down' /\ \A i \in DOMAIN down : i \in DOMAIN down'
        BY <2>1
    <2> QED
        BY <1>1, <2>1, <2>2 DEF Ends
<1>2. ASSUME NEW v \in Uids, NEW k \in Kinds, SchedulerReply(v, k),
             NEW u \in inflight, client[u] # "broken"
      PROVE  Awaited(u)'
    <2>1. PICK m : m = [k |-> k, id |-> v]
        OBVIOUS
    <2>2. /\ down' = Append(down, m) /\ m.id = v /\ m.k = k
          /\ sent' = [sent EXCEPT ![v] = Append(@, k)]
          /\ toScheduler' = IF k \in Sampled THEN toScheduler ELSE toScheduler \ {v}
        BY <1>2, <2>1 DEF SchedulerReply
    <2>3. Awaited(u) /\ u \in Uids
        BY <1>0, <1>2, ActiveIs
    <2>4. CASE u # v
        <3>1. sent'[u] = sent[u] /\ (u \in toScheduler => u \in toScheduler')
            BY <1>0, <2>2, <2>3, <2>4
        <3>2. Ends(down, u) => Ends(down', u)
            BY <1>1, <2>2
        <3>3. Asked(u)' = Asked(u)
            BY <1>0 DEF Asked
        <3> QED
            BY <1>0, <2>3, <3>1, <3>2, <3>3 DEF Awaited
    <2>5. CASE u = v /\ k \in Finished
        <3>1. Ends(down', u)
            BY <1>1, <2>2, <2>5
        <3> QED
            BY <3>1 DEF Awaited
    <2>6. CASE u = v /\ k \notin Finished
        <3>1. k \in {"admit", "tok"}
            BY <2>6 DEF Kinds, Sampled, Errors, Finished
        <3>2. sent'[u] = Append(sent[u], k) /\ sent[u] \in Seq(Kinds)
            BY <1>0, <2>2, <2>6
        <3>3. sent'[u] # << >> /\ sent'[u][Len(sent'[u])] = k
            BY <3>2, AppendFacts DEF Last
        <3>4. Contract!Streaming(sent'[u])
            BY <3>1, <3>3 DEF Contract!Streaming
        <3> QED
            BY <3>4 DEF Awaited
    <2> QED
        BY <2>4, <2>5, <2>6
<1>3. ASSUME NEW r \in Rebuilds, NEW k \in Outcomes, SchedulerRebuilt(r, k),
             NEW u \in inflight, client[u] # "broken"
      PROVE  Awaited(u)'
    <2>1. PICK m : m = [k |-> k, id |-> r]
        OBVIOUS
    <2>2. down' = Append(down, m) /\ sent' = sent /\ toScheduler' = toScheduler \ {r}
        BY <1>3, <2>1 DEF SchedulerRebuilt
    <2>3. Awaited(u) /\ u # r
        BY <1>0, <1>3, ActiveIs, IdsAssumption
    <2>4. Ends(down, u) => Ends(down', u)
        BY <1>1, <2>2
    <2>5. Asked(u)' = Asked(u)
        BY <1>0 DEF Asked
    <2> QED
        BY <1>0, <2>2, <2>3, <2>4, <2>5 DEF Awaited
<1>4. \A u \in inflight' : client'[u] = "broken" \/ Awaited(u)'
    BY <1>0, <1>2, <1>3 DEF Replies
<1> QED
    BY <1>4, ActiveIsNext

LEMMA ActiveKept ==
    ASSUME TypeOK, ActiveIsAnswerable, [Next]_vars, ~Requests, ~Aborts, ~ListenReplies,
           ~ResolveRebuild, ~TokenizerStep, ~Replies
    PROVE  ActiveIsAnswerable'
<1>1. CASE \E r \in Rebuilds : SendRebuild(r)
    <2>1. PICK r \in Rebuilds : SendRebuild(r)
        BY <1>1
    <2>2. PICK m : m = [k |-> "rebuild", id |-> r]
        OBVIOUS
    <2>3. m \in Requested /\ m.k = "rebuild" /\ m.id = r
        BY <2>2 DEF Requested
    <2>4. /\ UNCHANGED <<inflight, client, toScheduler, sent, down, out>>
          /\ (Send("rebuild", r) \/ SendRaises)
        BY <2>1 DEF SendRebuild, userVars, schedVars
    <2> QED
        BY <2>3, <2>4, ActiveAfterSend
<1>2. CASE ~\E r \in Rebuilds : SendRebuild(r)
    <2>1. UNCHANGED <<inflight, up, toScheduler, sent, down, out>>
        BY <1>2 DEF Next, Consume, Disconnect, Reopen, ResolveAll, CacheRebuild, TimeoutRebuild,
           Dispatch, CloseGate, StopBegin, StopSeal, StopAbort, StopAborted,
           StopTimeout, SupervisorStep, WorkersReady, WorkerDies, vars, userVars, schedVars
    <2>2. \A u \in inflight : client[u] = "broken" => client'[u] = "broken"
        BY <1>2 DEF Next, Consume, Disconnect, Reopen, ResolveAll, CacheRebuild, TimeoutRebuild,
           Dispatch, CloseGate, StopBegin, StopSeal, StopAbort, StopAborted,
           StopTimeout, SupervisorStep, WorkersReady, WorkerDies, vars, userVars, schedVars,
           TypeOK, UserTypes
    <2>3. ASSUME NEW u \in inflight, Awaited(u) PROVE Awaited(u)'
        BY <2>1, <2>3 DEF Awaited, Asked, Ends, EndOut
    <2>4. \A u \in inflight' : client'[u] = "broken" \/ Awaited(u)'
        BY <2>1, <2>2, <2>3, ActiveIs
    <2> QED
        BY <2>4, ActiveIsNext
<1> QED
    BY <1>1, <1>2

(* stats.py: a request that is counted as active is answered in the end:   *)
(* its prompt is on the way, the scheduler holds it or streams for it, or  *)
(* its terminal reply is on the way back.  The exception is the request    *)
(* whose submission raised after new_user, which nothing will ever answer. *)
THEOREM ActiveIsAnswerableHolds == Spec => []ActiveIsAnswerable
<1>1. Init => ActiveIsAnswerable
    BY DEF Init, ActiveIsAnswerable
<1>2. TypeOK /\ ActiveIsAnswerable /\ [Next]_vars => ActiveIsAnswerable'
    BY ActiveOfRequests, ActiveOfReplies, ActiveOfTokenizer, ActiveOfScheduler, ActiveKept
<1> QED
    BY <1>1, <1>2, TypeCorrect, PTL DEF Spec

-----------------------------------------------------------------------------
(* Counting the messages about a request.                                  *)

LEMMA AmongFinite ==
    ASSUME NEW X, NEW b \in Seq(X), NEW u, NEW K
    PROVE  /\ IsFiniteSet(Among(b, u, K)) /\ Cardinality(Among(b, u, K)) \in Nat
           /\ Cardinality(Among(b, u, K)) = 0 <=> Among(b, u, K) = {}
<1>1. DOMAIN b = 1 .. Len(b) /\ Len(b) \in Nat
    OBVIOUS
<1>2. IsFiniteSet(DOMAIN b)
    BY <1>1, FS_Interval, 1 \in Int
<1>3. Among(b, u, K) \in SUBSET DOMAIN b
    BY DEF Among
<1>4. IsFiniteSet(Among(b, u, K))
    BY <1>2, <1>3, FS_Subset
<1> QED
    BY <1>4, FS_CardinalityType, FS_EmptySet

LEMMA BatchIsSeq ==
    ASSUME NEW b \in ReplyBatch
    PROVE  b \in Seq(Downward)
<1>1. UserReply \subseteq Downward /\ RebuildReply \subseteq Downward
    BY DEF Downward
<1>2. CASE b \in Seq(UserReply)
    BY <1>1, <1>2, SeqOfSubset
<1>3. CASE \E m \in RebuildReply : b = <<m>>
    BY <1>1, <1>3
<1> QED
    BY <1>2, <1>3 DEF ReplyBatch

LEMMA AmongAllIs ==
    ASSUME NEW o, NEW u, NEW K, NEW p
    PROVE  p \in AmongAll(o, u, K) <=>
               \E i \in DOMAIN o : \E n \in Among(o[i], u, K) : p = <<i, n>>
<1>1. p \in AmongAll(o, u, K) <=> \E i \in DOMAIN o : p \in {i} \X Among(o[i], u, K)
    BY DEF AmongAll
<1>2. ASSUME NEW i, NEW S PROVE p \in {i} \X S <=> \E n \in S : p = <<i, n>>
    OBVIOUS
<1> QED
    BY <1>1, <1>2

LEMMA RowCount ==
    ASSUME NEW i, NEW S, IsFiniteSet(S)
    PROVE  IsFiniteSet({i} \X S) /\ Cardinality({i} \X S) = Cardinality(S)
<1>1. IsFiniteSet({i}) /\ Cardinality({i}) = 1 /\ Cardinality(S) \in Nat
    BY FS_Singleton, FS_CardinalityType
<1>2. IsFiniteSet({i} \X S) /\ Cardinality({i} \X S) = Cardinality({i}) * Cardinality(S)
    BY <1>1, FS_Product
<1>3. \A c \in Nat : 1 * c = c
    OBVIOUS
<1> QED
    BY <1>1, <1>2, <1>3

LEMMA AmongAllFinite ==
    ASSUME NEW o \in Seq(ReplyBatch), NEW u, NEW K
    PROVE  /\ IsFiniteSet(AmongAll(o, u, K)) /\ Cardinality(AmongAll(o, u, K)) \in Nat
           /\ Cardinality(AmongAll(o, u, K)) = 0 <=> AmongAll(o, u, K) = {}
<1> DEFINE row == [i \in DOMAIN o |-> {i} \X Among(o[i], u, K)]
           R == {{i} \X Among(o[i], u, K) : i \in DOMAIN o}
<1>1. DOMAIN o = 1 .. Len(o) /\ Len(o) \in Nat
    OBVIOUS
<1>2. IsFiniteSet(DOMAIN o)
    BY <1>1, FS_Interval, 1 \in Int
<1>3. row \in Surjection(DOMAIN o, R)
    BY DEF Surjection
<1>4. IsFiniteSet(R)
    BY <1>2, <1>3, FS_Surjection
<1>5. ASSUME NEW i \in DOMAIN o PROVE IsFiniteSet({i} \X Among(o[i], u, K))
    <2>1. o[i] \in Seq(Downward)
        BY BatchIsSeq
    <2>2. IsFiniteSet(Among(o[i], u, K))
        BY <2>1, AmongFinite
    <2> QED
        BY <2>2, RowCount
<1>6. \A T \in R : IsFiniteSet(T)
    BY <1>5
<1>7. IsFiniteSet(UNION R)
    <2> HIDE DEF R
    <2> QED
        BY <1>4, <1>6, FS_UNION
<1>8. IsFiniteSet(AmongAll(o, u, K))
    BY <1>7 DEF AmongAll
<1> QED
    BY <1>8, FS_CardinalityType, FS_EmptySet

LEMMA DisjointCount ==
    ASSUME NEW S, NEW T, IsFiniteSet(S), IsFiniteSet(T), S \cap T = {}
    PROVE  Cardinality(S \cup T) = Cardinality(S) + Cardinality(T)
<1>1. Cardinality(S) \in Nat /\ Cardinality(T) \in Nat /\ Cardinality({}) = 0
    BY FS_CardinalityType, FS_EmptySet
<1>2. Cardinality(S \cup T) = Cardinality(S) + Cardinality(T) - Cardinality(S \cap T)
    BY FS_Union
<1>3. Cardinality(S \cup T) = Cardinality(S) + Cardinality(T) - 0
    BY <1>1, <1>2
<1> QED
    BY <1>1, <1>3

(* A batch put behind the others, and the first one taken.                 *)
LEMMA AddedAll ==
    ASSUME NEW o \in Seq(ReplyBatch), NEW s \in Seq(UserReply), NEW u, NEW K
    PROVE  Cardinality(AmongAll(Added(o, s), u, K))
               = Cardinality(AmongAll(o, u, K)) + Cardinality(Among(s, u, K))
<1>0. /\ IsFiniteSet(AmongAll(o, u, K)) /\ Cardinality(AmongAll(o, u, K)) \in Nat
      /\ IsFiniteSet(Among(s, u, K)) /\ Cardinality(Among(s, u, K)) \in Nat
    BY AmongAllFinite, AmongFinite
<1>1. CASE s = << >>
    <2>1. Among(s, u, K) = {}
        BY <1>1 DEF Among
    <2>2. Cardinality(Among(s, u, K)) = 0
        BY <2>1, FS_EmptySet
    <2>3. Added(o, s) = o
        BY <1>1 DEF Added
    <2> QED
        BY <1>0, <2>2, <2>3
<1>2. CASE s # << >>
    <2>1. PICK t : t = Append(o, s)
        OBVIOUS
    <2>2. /\ DOMAIN o = 1 .. Len(o) /\ Len(o) \in Nat
          /\ DOMAIN t = 1 .. (Len(o) + 1) /\ t[Len(o) + 1] = s
          /\ \A i \in 1 .. Len(o) : t[i] = o[i]
        BY <2>1, AppendFacts
    <2>3. PICK S : S = AmongAll(o, u, K)
        OBVIOUS
    <2>4. PICK T : T = {Len(o) + 1} \X Among(s, u, K)
        OBVIOUS
    <2>5. ASSUME NEW p PROVE p \in AmongAll(t, u, K) <=> p \in S \/ p \in T
        <3>1. p \in AmongAll(t, u, K) <=>
                  \E i \in DOMAIN t : \E n \in Among(t[i], u, K) : p = <<i, n>>
            BY AmongAllIs
        <3>2. p \in S <=> \E i \in DOMAIN o : \E n \in Among(o[i], u, K) : p = <<i, n>>
            BY <2>3, AmongAllIs
        <3>3. p \in T <=> \E n \in Among(s, u, K) : p = <<Len(o) + 1, n>>
            BY <2>4
        <3>4. \A i : i \in DOMAIN t <=> i \in DOMAIN o \/ i = Len(o) + 1
            BY <2>2
        <3>5. \A i \in DOMAIN o : Among(t[i], u, K) = Among(o[i], u, K)
            BY <2>2
        <3> QED
            BY <2>2, <3>1, <3>2, <3>3, <3>4, <3>5
    <2>6. AmongAll(t, u, K) = S \cup T
        BY <2>5
    <2>7. S \cap T = {}
        <3> SUFFICES ASSUME NEW p \in S, p \in T PROVE FALSE
            OBVIOUS
        <3>1. PICK i \in DOMAIN o : \E n \in Among(o[i], u, K) : p = <<i, n>>
            BY <2>3, AmongAllIs
        <3>2. p[1] = i /\ p[1] = Len(o) + 1
            BY <2>4, <3>1
        <3> QED
            BY <2>2, <3>2
    <2>8. IsFiniteSet(T) /\ Cardinality(T) = Cardinality(Among(s, u, K))
        BY <1>0, <2>4, RowCount
    <2>9. Cardinality(S \cup T) = Cardinality(S) + Cardinality(T)
        BY <1>0, <2>3, <2>7, <2>8, DisjointCount
    <2> QED
        BY <1>2, <2>1, <2>3, <2>6, <2>8, <2>9 DEF Added
<1> QED
    BY <1>1, <1>2

LEMMA HeadAll ==
    ASSUME NEW o \in Seq(ReplyBatch), o # << >>, NEW u, NEW K
    PROVE  /\ Cardinality(AmongAll(o, u, K))
                  = Cardinality(Among(o[1], u, K)) + Cardinality(AmongAll(Tail(o), u, K))
           /\ AmongAll(o, u, K) = {} => Among(o[1], u, K) = {} /\ AmongAll(Tail(o), u, K) = {}
           /\ (\A i \in DOMAIN o : 1 < i => Among(o[i], u, K) = {})
                  => AmongAll(Tail(o), u, K) = {}
<1> DEFINE N == Len(o)
<1>1. PICK t : t = Tail(o)
    OBVIOUS
<1>2. /\ N \in Nat /\ 1 <= N /\ DOMAIN o = 1 .. N /\ t \in Seq(ReplyBatch) /\ DOMAIN t = 1 .. (N - 1)
      /\ \A i \in 1 .. (N - 1) : t[i] = o[i + 1]
    BY <1>1
<1>3. o[1] \in Seq(Downward)
    BY <1>2, BatchIsSeq
<1> HIDE DEF N
<1>4. PICK S : S = {1} \X Among(o[1], u, K)
    OBVIOUS
<1>5. PICK T : T = AmongAll(t, u, K)
    OBVIOUS
<1>6. PICK A : A = AmongAll(o, u, K)
    OBVIOUS
<1>7. ASSUME NEW p PROVE p \in A <=> \E i \in 1 .. N : \E n \in Among(o[i], u, K) : p = <<i, n>>
    BY <1>2, <1>6, AmongAllIs
<1>8. ASSUME NEW p PROVE p \in T <=> \E i \in 1 .. (N - 1) : \E n \in Among(t[i], u, K) : p = <<i, n>>
    BY <1>2, <1>5, AmongAllIs
<1>9. ASSUME NEW p PROVE p \in S <=> \E n \in Among(o[1], u, K) : p = <<1, n>>
    BY <1>4
<1> DEFINE f == [p \in T |-> <<p[1] + 1, p[2]>>]
<1>10. ASSUME NEW p \in T
       PROVE  /\ f[p] \in A \ S
              /\ \E i \in 1 .. (N - 1) : \E n \in Among(o[i + 1], u, K) :
                     p = <<i, n>> /\ f[p] = <<i + 1, n>>
    <2>1. PICK i \in 1 .. (N - 1) : \E n \in Among(t[i], u, K) : p = <<i, n>>
        BY <1>8
    <2>2. PICK n \in Among(t[i], u, K) : p = <<i, n>>
        BY <2>1
    <2>3. f[p] = <<i + 1, n>> /\ n \in Among(o[i + 1], u, K) /\ i + 1 \in 1 .. N /\ i + 1 # 1
        BY <1>2, <2>2
    <2>4. f[p] \in A
        BY <1>7, <2>3
    <2>5. f[p] \notin S
        BY <1>9, <2>3
    <2> QED
        BY <2>2, <2>3, <2>4, <2>5
<1>11. ASSUME NEW q \in A \ S PROVE \E p \in T : f[p] = q
    <2>1. PICK i \in 1 .. N : \E n \in Among(o[i], u, K) : q = <<i, n>>
        BY <1>7
    <2>2. PICK n \in Among(o[i], u, K) : q = <<i, n>>
        BY <2>1
    <2>3. i # 1
        BY <1>9, <2>2
    <2>4. i - 1 \in 1 .. (N - 1) /\ (i - 1) + 1 = i
        BY <1>2, <2>3
    <2>5. t[i - 1] = o[i]
        BY <1>2, <2>4
    <2>6. <<i - 1, n>> \in T
        BY <1>8, <2>2, <2>4, <2>5
    <2>7. f[<<i - 1, n>>] = q
        BY <2>2, <2>4, <2>6
    <2> QED
        BY <2>6, <2>7
<1>12. \A p, q \in T : f[p] = f[q] => p = q
    <2> SUFFICES ASSUME NEW p \in T, NEW q \in T, f[p] = f[q] PROVE p = q
        OBVIOUS
    <2>1. PICK i \in 1 .. (N - 1) : \E n \in Among(o[i + 1], u, K) :
                     p = <<i, n>> /\ f[p] = <<i + 1, n>>
        BY <1>10
    <2>2. PICK k \in 1 .. (N - 1) : \E n \in Among(o[k + 1], u, K) :
                     q = <<k, n>> /\ f[q] = <<k + 1, n>>
        BY <1>10
    <2> QED
        BY <1>2, <2>1, <2>2
<1> HIDE DEF f
<1>13. IsFiniteSet(T) /\ IsFiniteSet(A) /\ IsFiniteSet(S)
       /\ Cardinality(S) = Cardinality(Among(o[1], u, K))
    <2>1. IsFiniteSet(Among(o[1], u, K))
        BY <1>3, AmongFinite
    <2> QED
        BY <1>2, <1>4, <1>5, <1>6, <2>1, AmongAllFinite, RowCount
<1>14. Cardinality(A \ S) = Cardinality(T)
    <2>1. f \in [T -> A \ S]
        BY <1>10 DEF f
    <2>2. f \in Bijection(T, A \ S)
        BY <2>1, <1>11, <1>12 DEF Bijection, Injection, Surjection, IsInjective
    <2>3. ExistsBijection(T, A \ S)
        BY <2>2 DEF ExistsBijection
    <2> QED
        BY <1>13, <2>3, FS_Bijection
<1>15. S \subseteq A
    <2>1. \A p \in S : p \in A
        BY <1>2, <1>7, <1>9
    <2> QED
        BY <2>1
<1>16. Cardinality(A) = Cardinality(S) + Cardinality(T)
    <2>1. IsFiniteSet(A \ S) /\ S \cap (A \ S) = {} /\ A = S \cup (A \ S)
        BY <1>13, <1>15, FS_Difference
    <2> QED
        BY <1>13, <1>14, <2>1, DisjointCount
<1>17. A = {} => Among(o[1], u, K) = {} /\ T = {}
    <2>1. A = {} => T = {}
        BY <1>10
    <2>2. ASSUME NEW n \in Among(o[1], u, K) PROVE <<1, n>> \in A
        BY <1>2, <1>7
    <2> QED
        BY <2>1, <2>2
<1>18. (\A i \in DOMAIN o : 1 < i => Among(o[i], u, K) = {}) => T = {}
    <2> SUFFICES ASSUME NEW p \in T, \A i \in DOMAIN o : 1 < i => Among(o[i], u, K) = {}
                 PROVE  FALSE
        OBVIOUS
    <2>1. PICK i \in 1 .. (N - 1) : \E n \in Among(o[i + 1], u, K) : p = <<i, n>>
        BY <1>10
    <2>2. i + 1 \in 1 .. N /\ 1 < i + 1
        BY <1>2
    <2> QED
        BY <1>2, <2>1, <2>2
<1> QED
    BY <1>1, <1>5, <1>6, <1>13, <1>16, <1>17, <1>18

(* The messages picked out of a queue are as many as it has.               *)
Names(at, S, T) == \A i : i \in T <=> \E n \in S : at[n] = i

LEMMA PickedCount ==
    ASSUME NEW X, NEW d \in Seq(X), NEW P \in SUBSET DOMAIN d,
           NEW t \in Seq(X), NEW at, Selects(t, d, P, at),
           NEW S \in SUBSET DOMAIN t, NEW T \in SUBSET P, Names(at, S, T)
    PROVE  Cardinality(S) = Cardinality(T)
<1>1. DOMAIN t = 1 .. Len(t) /\ Len(t) \in Nat
    OBVIOUS
<1> DEFINE F == [n \in S |-> at[n]]
<1>2. F \in [S -> T] /\ \A i \in T : \E n \in S : F[n] = i
    BY DEF Names
<1>3. \A m, n \in S : F[m] = F[n] => m = n
    BY <1>1 DEF Selects
<1>4. IsFiniteSet(S)
    <2>1. IsFiniteSet(1 .. Len(t))
        BY <1>1, FS_Interval, 1 \in Int
    <2>2. S \in SUBSET (1 .. Len(t))
        BY <1>1
    <2> QED
        BY <2>1, <2>2, FS_Subset
<1>5. F \in Bijection(S, T)
    <2> HIDE DEF F
    <2> QED
        BY <1>2, <1>3 DEF Bijection, Injection, Surjection, IsInjective
<1>6. ExistsBijection(S, T)
    BY <1>5 DEF ExistsBijection
<1> QED
    BY <1>4, <1>6, FS_Bijection

LEMMA KindCount ==
    ASSUME NEW X, NEW d \in Seq(X), NEW u, NEW K, NEW L
    PROVE  Cardinality(Among(OfKind(d, K), u, L)) = Cardinality(Among(d, u, K \cap L))
<1>1. PICK P : P = {i \in DOMAIN d : d[i].k \in K}
    OBVIOUS
<1>2. PICK t : t = Subsequence(d, P)
    OBVIOUS
<1>3. P \in SUBSET DOMAIN d
    BY <1>1
<1>4. t \in Seq(X) /\ \E at : Selects(t, d, P, at)
    BY <1>2, <1>3, SubsequenceSelects
<1>5. PICK at : Selects(t, d, P, at)
    BY <1>4
<1>6. PICK S : S = Among(t, u, L)
    OBVIOUS
<1>7. PICK T : T = Among(d, u, K \cap L)
    OBVIOUS
<1>8. DOMAIN t = 1 .. Len(t)
    BY <1>4
<1>9. S \in SUBSET DOMAIN t /\ T \in SUBSET P
    BY <1>1, <1>6, <1>7 DEF Among
<1>10. ASSUME NEW n \in S PROVE at[n] \in T
    BY <1>1, <1>5, <1>6, <1>7, <1>8, <1>9 DEF Selects, Among
<1>11. ASSUME NEW i \in T PROVE \E n \in S : at[n] = i
    <2>1. PICK n \in 1 .. Len(t) : at[n] = i
        BY <1>5, <1>9 DEF Selects
    <2>2. t[n] = d[i]
        BY <1>5, <2>1 DEF Selects
    <2> QED
        BY <1>6, <1>7, <1>8, <2>1, <2>2 DEF Among
<1>12. Names(at, S, T)
    BY <1>10, <1>11 DEF Names
<1>13. Cardinality(S) = Cardinality(T)
    BY <1>3, <1>4, <1>5, <1>9, <1>12, PickedCount
<1>14. t = OfKind(d, K)
    BY <1>1, <1>2 DEF OfKind
<1> QED
    BY <1>6, <1>7, <1>13, <1>14

(* What listen counts for a request in a batch.                            *)
LEMMA HeardCount ==
    ASSUME NEW X, NEW d \in Seq(X), NEW u
    PROVE  Units(KindsOf(OfUid(d, u))) = Cardinality(Bills(d, u))
<1>1. PICK P : P = {i \in DOMAIN d : d[i].id = u}
    OBVIOUS
<1>2. PICK t : t = Subsequence(d, P)
    OBVIOUS
<1>3. P \in SUBSET DOMAIN d
    BY <1>1
<1>4. t \in Seq(X) /\ \E at : Selects(t, d, P, at)
    BY <1>2, <1>3, SubsequenceSelects
<1>5. PICK at : Selects(t, d, P, at)
    BY <1>4
<1>6. PICK S : S = {n \in DOMAIN t : t[n].k \in Billable}
    OBVIOUS
<1>7. PICK T : T = Bills(d, u)
    OBVIOUS
<1>8. DOMAIN t = 1 .. Len(t)
    BY <1>4
<1>9. S \in SUBSET DOMAIN t /\ T \in SUBSET P
    BY <1>1, <1>6, <1>7 DEF Among, Bills
<1>10. ASSUME NEW n \in S PROVE at[n] \in T
    BY <1>1, <1>5, <1>6, <1>7, <1>8, <1>9 DEF Selects, Among, Bills
<1>11. ASSUME NEW i \in T PROVE \E n \in S : at[n] = i
    <2>1. PICK n \in 1 .. Len(t) : at[n] = i
        BY <1>5, <1>9 DEF Selects
    <2>2. t[n] = d[i]
        BY <1>5, <2>1 DEF Selects
    <2> QED
        BY <1>6, <1>7, <1>8, <2>1, <2>2 DEF Among, Bills
<1>12. Names(at, S, T)
    BY <1>10, <1>11 DEF Names
<1>13. Cardinality(S) = Cardinality(T)
    BY <1>3, <1>4, <1>5, <1>9, <1>12, PickedCount
<1>14. t = OfUid(d, u)
    BY <1>1, <1>2 DEF OfUid
<1>15. {i \in DOMAIN KindsOf(t) : KindsOf(t)[i] \in Billable} = S
    BY <1>6 DEF KindsOf
<1> QED
    BY <1>7, <1>13, <1>14, <1>15 DEF Units

(* What is taken from a queue and what is left of it.                      *)
LEMMA LeftCount ==
    ASSUME NEW X, NEW s \in Seq(X), NEW j \in 0 .. Len(s), NEW u, NEW K
    PROVE  Cardinality(Among(s, u, K)) = Cardinality(Among(SubSeq(s, 1, j), u, K))
                                       + Cardinality(Among(SubSeq(s, j + 1, Len(s)), u, K))
<1>1. PICK d : d = SubSeq(s, 1, j)
    OBVIOUS
<1>2. PICK t : t = SubSeq(s, j + 1, Len(s))
    OBVIOUS
<1>3. d \in Seq(X) /\ DOMAIN d = 1 .. j /\ \A n \in 1 .. j : d[n] = s[n]
    BY <1>1, TakenFacts
<1>4. /\ t \in Seq(X) /\ DOMAIN t = 1 .. (Len(s) - j)
      /\ \A n \in 1 .. (Len(s) - j) : t[n] = s[n + j]
    BY <1>2, LeftFacts
<1>5. DOMAIN s = 1 .. Len(s) /\ Len(s) \in Nat /\ j \in Nat /\ j <= Len(s)
    OBVIOUS
<1>6. PICK A : A = Among(s, u, K)
    OBVIOUS
<1>7. PICK D : D = Among(d, u, K)
    OBVIOUS
<1>8. PICK T : T = Among(t, u, K)
    OBVIOUS
<1>9. IsFiniteSet(A) /\ IsFiniteSet(D) /\ IsFiniteSet(T)
    BY <1>3, <1>4, <1>6, <1>7, <1>8, AmongFinite
<1>10. D \subseteq A
    <2>1. \A n \in 1 .. j : n \in 1 .. Len(s)
        BY <1>5
    <2> QED
        BY <1>3, <1>5, <1>6, <1>7, <2>1 DEF Among
<1> DEFINE f == [n \in T |-> n + j]
<1>11. ASSUME NEW n \in T PROVE f[n] \in A \ D /\ n \in Nat
    <2>1. n \in 1 .. (Len(s) - j) /\ t[n].id = u /\ t[n].k \in K /\ t[n] = s[n + j]
        BY <1>4, <1>8 DEF Among
    <2>2. n + j \in 1 .. Len(s) /\ n + j \notin 1 .. j
        BY <1>5, <2>1
    <2> QED
        BY <1>3, <1>5, <1>6, <1>7, <2>1, <2>2 DEF Among
<1>12. ASSUME NEW p \in A \ D PROVE \E n \in T : f[n] = p
    <2>1. p \in 1 .. Len(s) /\ s[p].id = u /\ s[p].k \in K
        BY <1>5, <1>6 DEF Among
    <2>2. p \notin 1 .. j
        BY <1>3, <1>7, <2>1 DEF Among
    <2>3. p - j \in 1 .. (Len(s) - j) /\ (p - j) + j = p
        BY <1>5, <2>1, <2>2
    <2>4. t[p - j] = s[p]
        BY <1>4, <2>3
    <2>5. p - j \in T
        BY <1>4, <1>8, <2>1, <2>3, <2>4 DEF Among
    <2> QED
        BY <2>3, <2>5
<1>13. \A m, n \in T : f[m] = f[n] => m = n
    BY <1>5, <1>11
<1>14. f \in [T -> A \ D]
    BY <1>11
<1> HIDE DEF f
<1>15. f \in Bijection(T, A \ D)
    BY <1>12, <1>13, <1>14 DEF Bijection, Injection, Surjection, IsInjective
<1>16. ExistsBijection(T, A \ D)
    BY <1>15 DEF ExistsBijection
<1>17. Cardinality(T) = Cardinality(A \ D)
    BY <1>9, <1>16, FS_Bijection
<1>18. IsFiniteSet(A \ D) /\ D \cap (A \ D) = {} /\ A = D \cup (A \ D)
    BY <1>9, <1>10, FS_Difference
<1>19. Cardinality(A) = Cardinality(D) + Cardinality(A \ D)
    BY <1>9, <1>18, DisjointCount
<1> QED
    BY <1>1, <1>2, <1>6, <1>7, <1>8, <1>17, <1>19

(* The batches of rebuild replies say nothing of a request.                *)
LEMMA ResultsFacts ==
    ASSUME out \in Seq(ReplyBatch), NEW d \in Seq(Downward)
    PROVE  LET w == WithResults(d)
           IN  /\ w \in Seq(ReplyBatch) /\ Len(out) \in Nat /\ DOMAIN out = 1 .. Len(out)
               /\ Len(w) \in Nat /\ DOMAIN w = 1 .. Len(w) /\ Len(w) >= Len(out)
               /\ \A p \in DOMAIN out : w[p] = out[p]
               /\ \A p \in DOMAIN w : p \notin DOMAIN out =>
                      \A n \in DOMAIN w[p] : w[p][n].id \in Rebuilds
<1>1. PICK t : t = OfKind(d, Outcomes)
    OBVIOUS
<1>2. t \in Seq(RebuildReply)
    BY <1>1, RebuildReplies
<1>3. PICK X : X = [n \in DOMAIN t |-> <<t[n]>>]
    OBVIOUS
<1>4. /\ X \in Seq(Seq(RebuildReply)) /\ Len(X) = Len(t)
      /\ \A n \in 1 .. Len(t) : X[n] = <<t[n]>>
    <2>1. DOMAIN t = 1 .. Len(t) /\ Len(t) \in Nat
        BY <1>2
    <2>2. \A n \in 1 .. Len(t) : X[n] = <<t[n]>> /\ X[n] \in Seq(RebuildReply)
        BY <1>2, <1>3, <2>1
    <2>3. X \in [1 .. Len(t) -> Seq(RebuildReply)]
        BY <1>3, <2>1, <2>2
    <2> QED
        BY <2>1, <2>2, <2>3, FunctionIsSeq
<1>5. PICK w : w = out \o X
    OBVIOUS
<1>6. WithResults(d) = w
    BY <1>1, <1>3, <1>5 DEF WithResults
<1>7. /\ Len(w) = Len(out) + Len(X) /\ DOMAIN w = 1 .. (Len(out) + Len(X))
      /\ DOMAIN out = 1 .. Len(out) /\ Len(out) \in Nat /\ Len(X) \in Nat
      /\ \A p \in 1 .. (Len(out) + Len(X)) :
            w[p] = IF p <= Len(out) THEN out[p] ELSE X[p - Len(out)]
    <2>1. X \in Seq(Seq(RebuildReply))
        BY <1>4
    <2> QED
        BY <1>5, <2>1, ConcatFacts
<1>8. w \in Seq(ReplyBatch)
    <2>1. ASSUME NEW n \in 1 .. Len(X) PROVE X[n] \in ReplyBatch
        <3>1. t[n] \in RebuildReply /\ X[n] = <<t[n]>>
            BY <1>2, <1>4, <2>1
        <3>2. <<t[n]>> \in ReplyBatch
            BY <3>1 DEF ReplyBatch
        <3> QED
            BY <3>1, <3>2
    <2>2. ASSUME NEW p \in 1 .. (Len(out) + Len(X)) PROVE w[p] \in ReplyBatch
        <3>1. CASE p <= Len(out)
            <4>1. p \in 1 .. Len(out) /\ w[p] = out[p]
                BY <1>7, <3>1
            <4> QED
                BY <1>7, <4>1
        <3>2. CASE ~(p <= Len(out))
            <4>1. p - Len(out) \in 1 .. Len(X) /\ w[p] = X[p - Len(out)]
                BY <1>7, <3>2
            <4> QED
                BY <2>1, <4>1
        <3> QED
            BY <3>1, <3>2
    <2>3. X \in Seq(ReplyBatch)
        <3>1. DOMAIN X = 1 .. Len(X)
            BY <1>4
        <3> QED
            BY <1>4, <2>1, <3>1
    <2> QED
        BY <1>5, <2>3
<1>9. ASSUME NEW p \in DOMAIN w, p \notin DOMAIN out, NEW n \in DOMAIN w[p]
      PROVE  w[p][n].id \in Rebuilds
    <2>1. p - Len(out) \in 1 .. Len(X) /\ w[p] = X[p - Len(out)]
        BY <1>7, <1>9
    <2>2. w[p] \in Seq(RebuildReply)
        BY <1>4, <2>1
    <2>3. w[p][n] \in RebuildReply
        BY <1>9, <2>2
    <2> QED
        BY <2>3 DEF RebuildReply
<1> QED
    BY <1>6, <1>7, <1>8, <1>9

LEMMA AddedOrder ==
    ASSUME NEW o \in Seq(ReplyBatch), NEW s \in Seq(UserReply), NEW u
    PROVE  /\ EndOut(Added(o, s), u) <=> EndOut(o, u) \/ Ends(s, u)
           /\ BehindAll(o, u) /\ (EndOut(o, u) => Bills(s, u) = {})
                  => BehindAll(Added(o, s), u)
<1>1. CASE s = << >>
    <2>1. ~Ends(s, u)
        BY <1>1 DEF Ends
    <2> QED
        BY <1>1, <2>1 DEF Added
<1>2. CASE s # << >>
    <2>1. PICK t : t = Append(o, s)
        OBVIOUS
    <2>2. /\ DOMAIN o = 1 .. Len(o) /\ Len(o) \in Nat
          /\ DOMAIN t = 1 .. (Len(o) + 1) /\ t[Len(o) + 1] = s
          /\ \A i \in 1 .. Len(o) : t[i] = o[i]
        BY <2>1, AppendFacts
    <2>3. (Len(o) + 1) \in DOMAIN t /\ \A i \in 1 .. Len(o) : i \in DOMAIN t /\ i < Len(o) + 1
        BY <2>2
    <2>4. \A i \in DOMAIN t : i = Len(o) + 1 \/ i \in 1 .. Len(o)
        BY <2>2
    <2>5. EndOut(t, u) <=> EndOut(o, u) \/ Ends(s, u)
        BY <2>2, <2>3, <2>4 DEF EndOut
    <2>6. ASSUME BehindAll(o, u), EndOut(o, u) => Bills(s, u) = {},
                 NEW i \in DOMAIN t, NEW j \in DOMAIN t, Ends(t[i], u), i < j
          PROVE  Bills(t[j], u) = {}
        <3>1. i \in 1 .. Len(o)
            BY <2>2, <2>6
        <3>2. EndOut(o, u) /\ Ends(o[i], u)
            BY <2>2, <2>6, <3>1 DEF EndOut
        <3>3. CASE j = Len(o) + 1
            BY <2>2, <2>6, <3>2, <3>3
        <3>4. CASE j \in 1 .. Len(o)
            <4>1. Bills(o[j], u) = {}
                BY <2>2, <2>6, <3>1, <3>2, <3>4 DEF BehindAll
            <4> QED
                BY <2>2, <3>4, <4>1
        <3> QED
            BY <2>4, <3>3, <3>4
    <2>7. BehindAll(o, u) /\ (EndOut(o, u) => Bills(s, u) = {}) => BehindAll(t, u)
        BY <2>6 DEF BehindAll
    <2>8. Added(o, s) = t
        BY <1>2, <2>1 DEF Added
    <2> QED
        BY <2>5, <2>7, <2>8
<1> QED
    BY <1>1, <1>2

(* What the batches of a pass are about.                                   *)
LEMMA PickedBatch ==
    ASSUME NEW d \in Seq(Downward), NEW u
    PROVE  LET A == OfKind(d, {"admit"})
               B == OfKind(d, Sampled)
               C == OfKind(d, Errors)
           IN  /\ A \in Seq(UserReply) /\ B \in Seq(UserReply) /\ C \in Seq(UserReply)
               /\ Bills(C, u) = {}
               /\ Cardinality(Bills(A, u)) + Cardinality(Bills(B, u)) = Cardinality(Bills(d, u))
               /\ Bills(d, u) = {} => Bills(A, u) = {} /\ Bills(B, u) = {}
               /\ ~Ends(A, u) /\ (Ends(B, u) \/ Ends(C, u) <=> Ends(d, u))
<1>1. PICK A : A = OfKind(d, {"admit"})
    OBVIOUS
<1>2. PICK B : B = OfKind(d, Sampled)
    OBVIOUS
<1>3. PICK C : C = OfKind(d, Errors)
    OBVIOUS
<1>4. A \in Seq(UserReply) /\ B \in Seq(UserReply) /\ C \in Seq(UserReply)
    BY <1>1, <1>2, <1>3, UserReplies DEF Kinds
<1>5. ASSUME NEW K
      PROVE  /\ \A n \in DOMAIN OfKind(d, K) :
                   /\ OfKind(d, K)[n].k \in K
                   /\ \E i \in DOMAIN d : d[i] = OfKind(d, K)[n]
             /\ \A i \in DOMAIN d : d[i].k \in K =>
                   \E n \in DOMAIN OfKind(d, K) : OfKind(d, K)[n] = d[i]
    <2>1. d \in Seq(Downward)
        OBVIOUS
    <2> QED
        BY ONLY <2>1, OfKindElems
<1>6. /\ {"admit"} \cap Finished = {} /\ Errors \cap Billable = {}
      /\ {"admit"} \cap Sampled = {} /\ {"admit"} \cup Sampled = Billable
      /\ Finished \subseteq Sampled \cup Errors
    BY DEF Finished, Final, Errors, Billable, Sampled
<1>7. Bills(C, u) = {}
    BY <1>3, <1>5, <1>6 DEF Bills, Among
<1>8. ~Ends(A, u)
    BY <1>1, <1>5, <1>6 DEF Ends
<1>9. Ends(B, u) \/ Ends(C, u) => Ends(d, u)
    BY <1>2, <1>3, <1>5 DEF Ends
<1>10. Ends(d, u) => Ends(B, u) \/ Ends(C, u)
    <2>1. ASSUME NEW i \in DOMAIN d, d[i].id = u, d[i].k \in Finished
          PROVE  Ends(B, u) \/ Ends(C, u)
        <3>1. CASE d[i].k \in Sampled
            <4>1. PICK n \in DOMAIN B : B[n] = d[i]
                BY <1>2, <1>5, <3>1
            <4> QED
                BY <2>1, <4>1 DEF Ends
        <3>2. CASE d[i].k \in Errors
            <4>1. PICK n \in DOMAIN C : C[n] = d[i]
                BY <1>3, <1>5, <3>2
            <4> QED
                BY <2>1, <4>1 DEF Ends
        <3> QED
            BY <1>6, <2>1, <3>1, <3>2
    <2> QED
        BY <2>1 DEF Ends
<1>11. PICK D1 : D1 = Among(d, u, {"admit"})
    OBVIOUS
<1>12. PICK D2 : D2 = Among(d, u, Sampled)
    OBVIOUS
<1>13. IsFiniteSet(D1) /\ IsFiniteSet(D2)
    BY <1>11, <1>12, AmongFinite
<1>14. Bills(d, u) = D1 \cup D2 /\ D1 \cap D2 = {}
    BY <1>6, <1>11, <1>12 DEF Bills, Among
<1>15. Cardinality(Bills(A, u)) = Cardinality(D1)
    <2>1. Cardinality(Among(OfKind(d, {"admit"}), u, Billable))
              = Cardinality(Among(d, u, {"admit"} \cap Billable))
        BY KindCount
    <2>2. {"admit"} \cap Billable = {"admit"}
        BY <1>6
    <2> QED
        BY <1>1, <1>11, <2>1, <2>2 DEF Bills
<1>16. Cardinality(Bills(B, u)) = Cardinality(D2)
    <2>1. Cardinality(Among(OfKind(d, Sampled), u, Billable))
              = Cardinality(Among(d, u, Sampled \cap Billable))
        BY KindCount
    <2>2. Sampled \cap Billable = Sampled
        BY <1>6
    <2> QED
        BY <1>2, <1>12, <2>1, <2>2 DEF Bills
<1>17. Cardinality(Bills(d, u)) = Cardinality(D1) + Cardinality(D2)
    BY <1>13, <1>14, DisjointCount
<1>18. /\ Cardinality(Bills(A, u)) \in Nat
       /\ Cardinality(Bills(A, u)) = 0 <=> Bills(A, u) = {}
       /\ Cardinality(Bills(B, u)) \in Nat
       /\ Cardinality(Bills(B, u)) = 0 <=> Bills(B, u) = {}
       /\ Cardinality(Bills(d, u)) = 0 <=> Bills(d, u) = {}
    BY <1>4, AmongFinite DEF Bills
<1>19. Bills(d, u) = {} => Bills(A, u) = {} /\ Bills(B, u) = {}
    BY <1>15, <1>16, <1>17, <1>18
<1> QED
    BY <1>1, <1>2, <1>3, <1>4, <1>7, <1>8, <1>9, <1>10, <1>15, <1>16, <1>17, <1>19

LEMMA RefusedBatch ==
    ASSUME NEW bad \in SUBSET Uids, IsFiniteSet(bad), NEW u
    PROVE  LET R == Reply("error", bad)
           IN  R \in Seq(UserReply) /\ Bills(R, u) = {} /\ (Ends(R, u) <=> u \in bad)
<1>1. PICK t : t = Reply("error", bad)
    OBVIOUS
<1>2. PICK X : X = [k : {"error"}, id : bad]
    OBVIOUS
<1>3. t \in Seq(X) /\ \A v \in bad : \E n \in DOMAIN t : t[n].id = v
    <2>1. Reply("error", bad) \in Seq([k : {"error"}, id : bad])
        BY ReplyElems
    <2>2. \A v \in bad : \E n \in DOMAIN Reply("error", bad) : Reply("error", bad)[n].id = v
        BY ReplyElems
    <2> QED
        BY <1>1, <1>2, <2>1, <2>2
<1>4. \A n \in DOMAIN t : t[n] \in X
    BY <1>3
<1>5. \A n \in DOMAIN t : t[n].k = "error" /\ t[n].id \in bad
    BY <1>2, <1>4
<1>6. t \in Seq(UserReply)
    <2>1. X \subseteq UserReply
        BY <1>2 DEF UserReply, Kinds, Errors
    <2> QED
        BY <1>3, <2>1, SeqOfSubset
<1>7. "error" \notin Billable /\ "error" \in Finished
    BY DEF Billable, Finished, Errors, Sampled, Final
<1>8. Bills(t, u) = {}
    BY <1>5, <1>7 DEF Bills, Among
<1>9. Ends(t, u) <=> u \in bad
    BY <1>3, <1>5, <1>7 DEF Ends
<1> QED
    BY <1>1, <1>6, <1>8, <1>9

LEMMA ResultsAll ==
    ASSUME out \in Seq(ReplyBatch), NEW d \in Seq(Downward), NEW u \in Uids
    PROVE  /\ AmongAll(WithResults(d), u, Billable) = AmongAll(out, u, Billable)
           /\ EndOut(WithResults(d), u) <=> EndOut(out, u)
           /\ BehindAll(out, u) => BehindAll(WithResults(d), u)
<1>1. PICK w : w = WithResults(d)
    OBVIOUS
<1>2. /\ w \in Seq(ReplyBatch) /\ Len(out) \in Nat /\ DOMAIN out = 1 .. Len(out)
      /\ Len(w) \in Nat /\ DOMAIN w = 1 .. Len(w) /\ Len(w) >= Len(out)
      /\ \A p \in DOMAIN out : w[p] = out[p]
      /\ \A p \in DOMAIN w : p \notin DOMAIN out =>
             \A n \in DOMAIN w[p] : w[p][n].id \in Rebuilds
    BY <1>1, ResultsFacts
<1>3. \A p \in DOMAIN out : p \in DOMAIN w
    BY <1>2
<1>4. ASSUME NEW p \in DOMAIN w, p \notin DOMAIN out
      PROVE  Bills(w[p], u) = {} /\ ~Ends(w[p], u)
    BY <1>2, <1>4, IdsAssumption DEF Bills, Among, Ends
<1>5. ASSUME NEW q PROVE q \in AmongAll(w, u, Billable) <=> q \in AmongAll(out, u, Billable)
    <2>1. q \in AmongAll(w, u, Billable) <=>
              \E i \in DOMAIN w : \E n \in Bills(w[i], u) : q = <<i, n>>
        BY AmongAllIs DEF Bills
    <2>2. q \in AmongAll(out, u, Billable) <=>
              \E i \in DOMAIN out : \E n \in Bills(out[i], u) : q = <<i, n>>
        BY AmongAllIs DEF Bills
    <2> QED
        BY <1>2, <1>3, <1>4, <2>1, <2>2
<1>6. EndOut(w, u) <=> EndOut(out, u)
    BY <1>2, <1>3, <1>4 DEF EndOut
<1>7. BehindAll(out, u) => BehindAll(w, u)
    <2> SUFFICES ASSUME BehindAll(out, u), NEW i \in DOMAIN w, NEW j \in DOMAIN w,
                        Ends(w[i], u), i < j
                 PROVE  Bills(w[j], u) = {}
        BY DEF BehindAll
    <2>1. CASE j \in DOMAIN out
        <3>1. i \in DOMAIN out
            BY <1>4
        <3> QED
            BY <1>2, <2>1, <3>1 DEF BehindAll
    <2>2. CASE j \notin DOMAIN out
        BY <1>4, <2>2
    <2> QED
        BY <2>1, <2>2
<1> QED
    BY <1>1, <1>5, <1>6, <1>7

(* What a pass does to the messages about a request.                       *)
LEMMA PassBills ==
    ASSUME TypeOK, NEW i \in Nat, NEW j \in Nat, NEW bad, Pass(i, j, bad), NEW u \in Uids
    PROVE  LET d == SubSeq(down, 1, j)
           IN  /\ Cardinality(AmongAll(out', u, Billable))
                      = Cardinality(AmongAll(out, u, Billable)) + Cardinality(Bills(d, u))
               /\ EndOut(out', u) <=> EndOut(out, u) \/ Ends(d, u) \/ u \in bad
               /\ BehindAll(out, u) /\ (EndOut(out, u) => Bills(d, u) = {})
                      => BehindAll(out', u)
<1>0. PICK d : d = SubSeq(down, 1, j)
    OBVIOUS
<1>1. /\ j \in 0 .. Len(down) /\ out' = WithRefused(d, bad)
      /\ bad \in SUBSET Uids /\ IsFiniteSet(bad)
    BY <1>0 DEF Pass
<1>2. down \in Seq(Downward) /\ out \in Seq(ReplyBatch)
    BY DEF TypeOK, QueueTypes, Downward
<1>3. d \in Seq(Downward)
    BY <1>0, <1>1, <1>2, TakenFacts
<1>4. PICK A : A = OfKind(d, {"admit"})
    OBVIOUS
<1>5. PICK B : B = OfKind(d, Sampled)
    OBVIOUS
<1>6. PICK C : C = OfKind(d, Errors)
    OBVIOUS
<1>7. PICK R : R = Reply("error", bad)
    OBVIOUS
<1>8. PICK w : w = WithResults(d)
    OBVIOUS
<1>9. PICK wa : wa = WithAdmitted(d)
    OBVIOUS
<1>10. PICK ws : ws = WithSampled(d)
    OBVIOUS
<1>11. PICK we : we = WithErrors(d)
    OBVIOUS
<1>12. /\ w \in Seq(ReplyBatch) /\ wa \in Seq(ReplyBatch)
       /\ ws \in Seq(ReplyBatch) /\ we \in Seq(ReplyBatch)
    BY <1>1, <1>2, <1>3, <1>8, <1>9, <1>10, <1>11, PassSequences
<1>13. wa = Added(w, A) /\ ws = Added(wa, B) /\ we = Added(ws, C) /\ out' = Added(we, R)
    BY <1>1, <1>4, <1>5, <1>6, <1>7, <1>8, <1>9, <1>10, <1>11
       DEF WithAdmitted, WithSampled, WithErrors, WithRefused
<1>14. /\ A \in Seq(UserReply) /\ B \in Seq(UserReply) /\ C \in Seq(UserReply)
       /\ Bills(C, u) = {}
       /\ Cardinality(Bills(A, u)) + Cardinality(Bills(B, u)) = Cardinality(Bills(d, u))
       /\ Bills(d, u) = {} => Bills(A, u) = {} /\ Bills(B, u) = {}
       /\ ~Ends(A, u) /\ (Ends(B, u) \/ Ends(C, u) <=> Ends(d, u))
    BY <1>3, <1>4, <1>5, <1>6, PickedBatch
<1>15. R \in Seq(UserReply) /\ Bills(R, u) = {} /\ (Ends(R, u) <=> u \in bad)
    BY <1>1, <1>7, RefusedBatch
<1>16. /\ AmongAll(w, u, Billable) = AmongAll(out, u, Billable)
       /\ EndOut(w, u) <=> EndOut(out, u)
       /\ BehindAll(out, u) => BehindAll(w, u)
    BY <1>2, <1>3, <1>8, ResultsAll
<1>17. ASSUME NEW o \in Seq(ReplyBatch), NEW s \in Seq(UserReply), NEW t, t = Added(o, s)
       PROVE  /\ Cardinality(AmongAll(t, u, Billable))
                     = Cardinality(AmongAll(o, u, Billable)) + Cardinality(Bills(s, u))
              /\ EndOut(t, u) <=> EndOut(o, u) \/ Ends(s, u)
              /\ BehindAll(o, u) /\ (EndOut(o, u) => Bills(s, u) = {}) => BehindAll(t, u)
    <2>1. Cardinality(AmongAll(Added(o, s), u, Billable))
              = Cardinality(AmongAll(o, u, Billable)) + Cardinality(Among(s, u, Billable))
        BY AddedAll
    <2>2. /\ EndOut(Added(o, s), u) <=> EndOut(o, u) \/ Ends(s, u)
          /\ BehindAll(o, u) /\ (EndOut(o, u) => Bills(s, u) = {}) => BehindAll(Added(o, s), u)
        BY AddedOrder
    <2> QED
        BY <1>17, <2>1, <2>2 DEF Bills
<1>18. /\ Cardinality(AmongAll(wa, u, Billable))
                 = Cardinality(AmongAll(w, u, Billable)) + Cardinality(Bills(A, u))
       /\ EndOut(wa, u) <=> EndOut(w, u) \/ Ends(A, u)
       /\ BehindAll(w, u) /\ (EndOut(w, u) => Bills(A, u) = {}) => BehindAll(wa, u)
    BY <1>12, <1>13, <1>14, <1>17
<1>19. /\ Cardinality(AmongAll(ws, u, Billable))
                 = Cardinality(AmongAll(wa, u, Billable)) + Cardinality(Bills(B, u))
       /\ EndOut(ws, u) <=> EndOut(wa, u) \/ Ends(B, u)
       /\ BehindAll(wa, u) /\ (EndOut(wa, u) => Bills(B, u) = {}) => BehindAll(ws, u)
    BY <1>12, <1>13, <1>14, <1>17
<1>20. /\ Cardinality(AmongAll(we, u, Billable))
                 = Cardinality(AmongAll(ws, u, Billable)) + Cardinality(Bills(C, u))
       /\ EndOut(we, u) <=> EndOut(ws, u) \/ Ends(C, u)
       /\ BehindAll(ws, u) /\ (EndOut(ws, u) => Bills(C, u) = {}) => BehindAll(we, u)
    BY <1>12, <1>13, <1>14, <1>17
<1>21. /\ Cardinality(AmongAll(out', u, Billable))
                 = Cardinality(AmongAll(we, u, Billable)) + Cardinality(Bills(R, u))
       /\ EndOut(out', u) <=> EndOut(we, u) \/ Ends(R, u)
       /\ BehindAll(we, u) /\ (EndOut(we, u) => Bills(R, u) = {}) => BehindAll(out', u)
    BY <1>12, <1>13, <1>15, <1>17
<1>22. /\ Cardinality(AmongAll(out, u, Billable)) \in Nat
       /\ Cardinality(Bills(A, u)) \in Nat /\ Cardinality(Bills(B, u)) \in Nat
       /\ Cardinality(Bills(C, u)) = 0 /\ Cardinality(Bills(R, u)) = 0
    BY <1>2, <1>14, <1>15, AmongAllFinite, AmongFinite, FS_EmptySet DEF Bills
<1>23. Cardinality(AmongAll(out', u, Billable))
           = Cardinality(AmongAll(out, u, Billable)) + Cardinality(Bills(d, u))
    BY <1>14, <1>16, <1>18, <1>19, <1>20, <1>21, <1>22
<1>24. EndOut(out', u) <=> EndOut(out, u) \/ Ends(d, u) \/ u \in bad
    BY <1>14, <1>15, <1>16, <1>18, <1>19, <1>20, <1>21
<1>25. BehindAll(out, u) /\ (EndOut(out, u) => Bills(d, u) = {}) => BehindAll(out', u)
    BY <1>14, <1>15, <1>16, <1>18, <1>19, <1>20, <1>21
<1> QED
    BY <1>0, <1>23, <1>24, <1>25

LEMMA AppendAmong ==
    ASSUME NEW X, NEW b \in Seq(X), NEW m \in X, NEW u, NEW K
    PROVE  /\ m.id = u /\ m.k \in K =>
                 /\ Among(Append(b, m), u, K) = Among(b, u, K) \cup {Len(b) + 1}
                 /\ Cardinality(Among(Append(b, m), u, K)) = Cardinality(Among(b, u, K)) + 1
           /\ ~(m.id = u /\ m.k \in K) => Among(Append(b, m), u, K) = Among(b, u, K)
<1>1. PICK t : t = Append(b, m)
    OBVIOUS
<1>2. /\ DOMAIN b = 1 .. Len(b) /\ Len(b) \in Nat
      /\ DOMAIN t = 1 .. (Len(b) + 1) /\ t[Len(b) + 1] = m
      /\ \A i \in 1 .. Len(b) : t[i] = b[i]
    BY <1>1, AppendFacts
<1>3. /\ \A i : i \in DOMAIN t <=> i \in DOMAIN b \/ i = Len(b) + 1
      /\ Len(b) + 1 \notin DOMAIN b
    BY <1>2
<1>4. CASE m.id = u /\ m.k \in K
    <2>1. Among(t, u, K) = Among(b, u, K) \cup {Len(b) + 1}
        BY <1>2, <1>3, <1>4 DEF Among
    <2>2. IsFiniteSet(Among(b, u, K)) /\ Len(b) + 1 \notin Among(b, u, K)
        BY <1>3, AmongFinite DEF Among
    <2>3. Cardinality(Among(t, u, K)) = Cardinality(Among(b, u, K)) + 1
        BY <2>1, <2>2, FS_AddElement
    <2> QED
        BY <1>1, <1>4, <2>1, <2>3
<1>5. CASE ~(m.id = u /\ m.k \in K)
    <2>1. Among(t, u, K) = Among(b, u, K)
        BY <1>2, <1>3, <1>5 DEF Among
    <2> QED
        BY <1>1, <1>5, <2>1
<1> QED
    BY <1>4, <1>5

LEMMA AppendUnits ==
    ASSUME NEW s \in Seq(Kinds), NEW k
    PROVE  /\ Units(s) \in Nat
           /\ k \in Billable => Units(Append(s, k)) = Units(s) + 1
           /\ k \notin Billable => Units(Append(s, k)) = Units(s)
<1>1. PICK t : t = Append(s, k)
    OBVIOUS
<1>2. /\ DOMAIN s = 1 .. Len(s) /\ Len(s) \in Nat
      /\ DOMAIN t = 1 .. (Len(s) + 1) /\ t[Len(s) + 1] = k
      /\ \A i \in 1 .. Len(s) : t[i] = s[i]
    BY <1>1, AppendFacts
<1>3. PICK S : S = {i \in DOMAIN s : s[i] \in Billable}
    OBVIOUS
<1>4. PICK T : T = {i \in DOMAIN t : t[i] \in Billable}
    OBVIOUS
<1>5. IsFiniteSet(S) /\ Cardinality(S) \in Nat
    <2>1. IsFiniteSet(1 .. Len(s))
        BY <1>2, FS_Interval, 1 \in Int
    <2>2. S \in SUBSET (1 .. Len(s))
        BY <1>2, <1>3
    <2> QED
        BY <2>1, <2>2, FS_Subset, FS_CardinalityType
<1>6. /\ \A i : i \in DOMAIN t <=> i \in DOMAIN s \/ i = Len(s) + 1
      /\ Len(s) + 1 \notin DOMAIN s
    BY <1>2
<1>7. k \in Billable => T = S \cup {Len(s) + 1}
    BY <1>2, <1>3, <1>4, <1>6
<1>8. k \notin Billable => T = S
    BY <1>2, <1>3, <1>4, <1>6
<1>9. Len(s) + 1 \notin S
    BY <1>3, <1>6
<1>10. Cardinality(S \cup {Len(s) + 1}) = Cardinality(S) + 1
    BY <1>5, <1>9, FS_AddElement
<1>11. Units(s) = Cardinality(S) /\ Units(t) = Cardinality(T)
    BY <1>3, <1>4 DEF Units
<1> QED
    BY <1>1, <1>5, <1>7, <1>8, <1>10, <1>11

LEMMA AppendEnds ==
    ASSUME NEW X, NEW b \in Seq(X), NEW m \in X, NEW u
    PROVE  /\ Ends(Append(b, m), u) <=> Ends(b, u) \/ (m.id = u /\ m.k \in Finished)
           /\ Behind(b, u) /\ (Ends(b, u) => ~(m.id = u /\ m.k \in Billable))
                  => Behind(Append(b, m), u)
<1>1. PICK t : t = Append(b, m)
    OBVIOUS
<1>2. /\ DOMAIN b = 1 .. Len(b) /\ Len(b) \in Nat
      /\ DOMAIN t = 1 .. (Len(b) + 1) /\ t[Len(b) + 1] = m
      /\ \A i \in 1 .. Len(b) : t[i] = b[i]
    BY <1>1, AppendFacts
<1>3. /\ \A i : i \in DOMAIN t <=> i \in DOMAIN b \/ i = Len(b) + 1
      /\ Len(b) + 1 \notin DOMAIN b
    BY <1>2
<1>4. Ends(t, u) <=> Ends(b, u) \/ (m.id = u /\ m.k \in Finished)
    BY <1>2, <1>3 DEF Ends
<1>5. ASSUME Behind(b, u), Ends(b, u) => ~(m.id = u /\ m.k \in Billable),
             NEW i \in DOMAIN t, NEW j \in DOMAIN t,
             t[i].id = u, t[i].k \in Finished, i < j, j \in Bills(t, u)
      PROVE  FALSE
    <2>1. i \in DOMAIN b
        BY <1>2, <1>5
    <2>2. Ends(b, u) /\ b[i].id = u /\ b[i].k \in Finished
        BY <1>2, <1>5, <2>1 DEF Ends
    <2>3. j # Len(b) + 1
        BY <1>2, <1>5, <2>2 DEF Bills, Among
    <2>4. j \in DOMAIN b /\ j \in Bills(b, u)
        BY <1>2, <1>3, <1>5, <2>3 DEF Bills, Among
    <2> QED
        BY <1>5, <2>1, <2>2, <2>4 DEF Behind
<1>6. Behind(b, u) /\ (Ends(b, u) => ~(m.id = u /\ m.k \in Billable)) => Behind(t, u)
    BY <1>5 DEF Behind
<1> QED
    BY <1>1, <1>4, <1>6

-----------------------------------------------------------------------------
(* The sealed totals: what a step does to what is known of a request.      *)

(* A message put into up that does not ask for u for the first time.       *)
Foreign(m, u) == m.id # u \/ (m.k = "abort" /\ client[u] # "new")
UpGrows(u) == up' = up \/ \E m \in Requested : Foreign(m, u) /\ up' = Append(up, m)

LEMMA UpKept ==
    ASSUME up \in Seq(Requested), NEW u, UpGrows(u)
    PROVE  /\ Asked(u)' = Asked(u)
           /\ \A j \in DOMAIN up : j \in DOMAIN up' /\ up'[j] = up[j]
           /\ \A i \in DOMAIN up, j \in DOMAIN up' : j \notin DOMAIN up => j >= i
           /\ client[u] = "new" => (u \in Ids(up') => u \in Ids(up))
<1>1. CASE up' = up
    BY <1>1 DEF Asked
<1>2. CASE up' # up
    <2>0. PICK m \in Requested : Foreign(m, u) /\ up' = Append(up, m)
        BY <1>2 DEF UpGrows
    <2>1. /\ DOMAIN up = 1 .. Len(up) /\ Len(up) \in Nat
          /\ DOMAIN up' = 1 .. (Len(up) + 1) /\ up'[Len(up) + 1] = m
          /\ \A i \in 1 .. Len(up) : up'[i] = up[i]
        BY <2>0, AppendFacts
    <2>2. \A j : j \in DOMAIN up' <=> j \in DOMAIN up \/ j = Len(up) + 1
        BY <2>1
    <2>3. m # [k |-> "tokenize", id |-> u]
        BY <2>0 DEF Foreign
    <2>4. Asked(u)' = Asked(u)
        BY <2>1, <2>2, <2>3 DEF Asked
    <2>5. \A j \in DOMAIN up : j \in DOMAIN up' /\ up'[j] = up[j]
        BY <2>1, <2>2
    <2>6. \A i \in DOMAIN up, j \in DOMAIN up' : j \notin DOMAIN up => j >= i
        BY <2>1
    <2>7. client[u] = "new" => (u \in Ids(up') => u \in Ids(up))
        <3> SUFFICES ASSUME client[u] = "new", u \in Ids(up') PROVE u \in Ids(up)
            OBVIOUS
        <3>1. PICK j \in DOMAIN up' : up'[j].id = u
            BY InIds
        <3>2. j # Len(up) + 1
            BY <2>0, <2>1, <3>1 DEF Foreign
        <3>3. j \in DOMAIN up /\ up[j].id = u
            BY <2>1, <2>2, <3>1, <3>2
        <3> QED
            BY <3>3, InIds
    <2> QED
        BY <2>4, <2>5, <2>6, <2>7
<1> QED
    BY <1>1, <1>2

(* Nothing is taken from u, sent for it or counted for it.                 *)
LEMMA RequestKept ==
    ASSUME TypeOK, NEW u \in Uids, OfRequest(u), UpGrows(u),
           UNCHANGED <<down, out, toScheduler, sent, ackDue>>,
           counted'[u] = counted[u], u \in inflight' <=> u \in inflight,
           client'[u] = "new" <=> client[u] = "new",
           client[u] = "new" =>
               \A who \in {"client", "stop"} : <<u, who>> \in sleeping' => <<u, who>> \in sleeping
    PROVE  OfRequest(u)'
<1>1. /\ Asked(u)' = Asked(u)
      /\ \A j \in DOMAIN up : j \in DOMAIN up' /\ up'[j] = up[j]
      /\ \A i \in DOMAIN up, j \in DOMAIN up' : j \notin DOMAIN up => j >= i
      /\ client[u] = "new" => (u \in Ids(up') => u \in Ids(up))
    BY UpKept DEF TypeOK, QueueTypes
<1>2. AllCounted(u)'
    BY DEF OfRequest, AllCounted, BillsOut, BillsDown
<1>3. NewIsUnknown(u)'
    BY <1>1 DEF OfRequest, NewIsUnknown
<1>4. AskedOnce(u)'
    <2>1. Asked(u) \subseteq DOMAIN up
        BY DEF Asked
    <2> QED
        BY <1>1, <2>1 DEF OfRequest, AskedOnce
<1>5. AdmittedOnce(u)'
    BY DEF OfRequest, AdmittedOnce
<1>6. Settled(u)' <=> Settled(u)
    BY DEF Settled
<1>7. Silent(u)' <=> Silent(u)
    BY <1>1 DEF Silent
<1>8. EndIsSilent(u)'
    BY <1>6, <1>7 DEF OfRequest, EndIsSilent
<1>9. NothingBehindTheEnd(u)'
    BY <1>6 DEF OfRequest, NothingBehindTheEnd, BillsDown, BillsOut
<1> QED
    BY <1>2, <1>3, <1>4, <1>5, <1>8, <1>9 DEF OfRequest

(* The request is made.                                                    *)
LEMMA RequestMade ==
    ASSUME TypeOK, NEW u \in Uids, OfRequest(u), Submit(u)
    PROVE  OfRequest(u)'
<1>1. /\ client[u] = "new" /\ client'[u] # "new" /\ inflight' = inflight \cup {u}
      /\ UNCHANGED <<down, out, toScheduler, sent, ackDue, counted, sleeping>>
    BY DEF Submit, schedVars, TypeOK, UserTypes
<1>2. PICK m : m = [k |-> "tokenize", id |-> u]
    OBVIOUS
<1>3. up' = up \/ up' = Append(up, m)
    BY <1>2 DEF Submit, Send, SendRaises
<1>4. /\ u \notin Ids(up) /\ u \notin toScheduler /\ sent[u] = << >> /\ ackDue[u] = 0
      /\ ~Ends(down, u) /\ ~EndOut(out, u)
    BY <1>1 DEF OfRequest, NewIsUnknown
<1>5. \A j \in DOMAIN up : up[j].id # u
    BY <1>4, InIds
<1>6. \A i \in Asked(u)', j \in DOMAIN up' : up'[j].id = u => j >= i
    <2>1. CASE up' = up
        BY <1>5, <2>1
    <2>2. CASE up' = Append(up, m)
        <3>1. /\ DOMAIN up = 1 .. Len(up) /\ Len(up) \in Nat
              /\ DOMAIN up' = 1 .. (Len(up) + 1)
              /\ \A i \in 1 .. Len(up) : up'[i] = up[i]
            BY <2>2, AppendFacts DEF TypeOK, QueueTypes
        <3>2. \A j \in DOMAIN up' : up'[j].id = u => j = Len(up) + 1
            BY <1>5, <3>1
        <3>3. \A i \in Asked(u)' : i \in DOMAIN up'
            BY DEF Asked
        <3> QED
            BY <3>1, <3>2, <3>3
    <2> QED
        BY <1>3, <2>1, <2>2
<1>7. AllCounted(u)'
    BY <1>1 DEF OfRequest, AllCounted, BillsOut, BillsDown
<1>8. NewIsUnknown(u)' /\ ~Settled(u)'
    BY <1>1 DEF NewIsUnknown, Settled
<1>9. AskedOnce(u)' /\ AdmittedOnce(u)'
    BY <1>1, <1>4, <1>6 DEF AskedOnce, AdmittedOnce
<1>10. EndIsSilent(u)'
    BY <1>1, <1>4, <1>8 DEF EndIsSilent
<1>11. NothingBehindTheEnd(u)'
    BY <1>1, <1>8 DEF OfRequest, NothingBehindTheEnd, BillsDown
<1> QED
    BY <1>7, <1>8, <1>9, <1>10, <1>11 DEF OfRequest

(* The first batch of replies is taken.                                    *)
LEMMA BatchHeard ==
    ASSUME TypeOK, NEW u \in Uids, OfRequest(u), out # << >>, out' = Tail(out),
           UNCHANGED <<up, down, toScheduler, sent, ackDue, client, sleeping>>,
           counted'[u] = counted[u] + Cardinality(Bills(out[1], u)),
           u \in inflight' <=> u \in inflight /\ ~Ends(out[1], u)
    PROVE  OfRequest(u)'
<1>1. /\ out \in Seq(ReplyBatch) /\ DOMAIN out = 1 .. Len(out) /\ Len(out) \in Nat
      /\ 1 <= Len(out) /\ DOMAIN out' = 1 .. (Len(out) - 1)
      /\ \A n \in 1 .. (Len(out) - 1) : out'[n] = out[n + 1]
    BY DEF TypeOK, QueueTypes
<1>2. /\ Cardinality(AmongAll(out, u, Billable))
             = Cardinality(Among(out[1], u, Billable)) + Cardinality(AmongAll(out', u, Billable))
      /\ AmongAll(out, u, Billable) = {} =>
             Among(out[1], u, Billable) = {} /\ AmongAll(out', u, Billable) = {}
      /\ (\A i \in DOMAIN out : 1 < i => Among(out[i], u, Billable) = {})
             => AmongAll(out', u, Billable) = {}
    BY <1>1, HeadAll
<1>3. out[1] \in Seq(Downward) /\ 1 \in DOMAIN out
    BY <1>1, BatchIsSeq
<1>4. /\ Cardinality(Bills(out[1], u)) \in Nat
      /\ Cardinality(AmongAll(out, u, Billable)) \in Nat
      /\ Cardinality(AmongAll(out', u, Billable)) \in Nat
      /\ Cardinality(BillsDown(u)) \in Nat /\ counted[u] \in Nat
    <2>1. out' \in Seq(ReplyBatch)
        BY <1>1
    <2> QED
        BY <1>1, <1>3, <2>1, AmongFinite, AmongAllFinite
           DEF Bills, BillsDown, TypeOK, QueueTypes, UserTypes
<1>5. AllCounted(u)'
    BY <1>2, <1>4 DEF OfRequest, AllCounted, BillsOut, BillsDown, Bills
<1>6. \A i \in DOMAIN out' : i + 1 \in DOMAIN out /\ out'[i] = out[i + 1]
    BY <1>1
<1>7. EndOut(out', u) => EndOut(out, u)
    BY <1>6 DEF EndOut
<1>8. NewIsUnknown(u)'
    BY <1>7 DEF OfRequest, NewIsUnknown
<1>9. Asked(u)' = Asked(u)
    BY DEF Asked
<1>10. AskedOnce(u)' /\ AdmittedOnce(u)'
    BY <1>9 DEF OfRequest, AskedOnce, AdmittedOnce
<1>11. Settled(u)' => Settled(u) \/ Ends(out[1], u)
    BY DEF Settled
<1>12. Ends(out[1], u) => EndOut(out, u)
    BY <1>3 DEF EndOut
<1>13. Silent(u)' <=> Silent(u)
    BY <1>9 DEF Silent
<1>14. EndIsSilent(u)'
    BY <1>7, <1>11, <1>12, <1>13 DEF OfRequest, EndIsSilent
<1>15. BehindAll(out', u)
    <2> SUFFICES ASSUME NEW i \in DOMAIN out', NEW j \in DOMAIN out', Ends(out'[i], u), i < j
                 PROVE  Bills(out'[j], u) = {}
        BY DEF BehindAll
    <2>1. i + 1 \in DOMAIN out /\ j + 1 \in DOMAIN out /\ i + 1 < j + 1
        BY <1>1, <1>6
    <2> QED
        BY <1>6, <2>1 DEF BehindAll, OfRequest, NothingBehindTheEnd
<1>16. Ends(out[1], u) => BillsDown(u) = {} /\ AmongAll(out', u, Billable) = {}
    <2>1. ASSUME Ends(out[1], u), NEW i \in DOMAIN out, 1 < i
          PROVE  Among(out[i], u, Billable) = {}
        BY <1>3, <2>1 DEF BehindAll, OfRequest, NothingBehindTheEnd, Bills
    <2> QED
        BY <1>2, <1>12, <2>1 DEF OfRequest, NothingBehindTheEnd
<1>17. Settled(u)' => BillsDown(u)' = {} /\ BillsOut(u)' = {}
    BY <1>2, <1>11, <1>16 DEF OfRequest, NothingBehindTheEnd, BillsDown, BillsOut
<1>18. NothingBehindTheEnd(u)'
    BY <1>7, <1>15, <1>17 DEF OfRequest, NothingBehindTheEnd, BillsDown
<1> QED
    BY <1>5, <1>8, <1>10, <1>14, <1>18 DEF OfRequest

LEMMA RepliesHeard ==
    ASSUME TypeOK, NEW u \in Uids, OfRequest(u), ListenReplies \/ ResolveRebuild
    PROVE  OfRequest(u)'
<1>1. /\ out # << >> /\ out' = Tail(out) /\ Head(out) = out[1]
      /\ UNCHANGED <<up, down, toScheduler, sent, ackDue, client, sleeping>>
    BY HeadBatch DEF ListenReplies, ResolveRebuild, userVars, schedVars, TypeOK
<1>2. CASE ListenReplies
    <2>1. out[1] \in Seq(UserReply)
        BY <1>1, <1>2, HeadBatch DEF ListenReplies, TypeOK
    <2>2. /\ counted' = [v \in Uids |-> counted[v] + Units(KindsOf(OfUid(out[1], v)))]
          /\ inflight' = inflight \ Ids(OfKind(out[1], Finished))
        BY <1>1, <1>2 DEF ListenReplies, Observed
    <2>3. Units(KindsOf(OfUid(out[1], u))) = Cardinality(Bills(out[1], u))
        BY <2>1, HeardCount
    <2>4. counted'[u] = counted[u] + Cardinality(Bills(out[1], u))
        BY <2>2, <2>3
    <2>5. u \in Ids(OfKind(out[1], Finished)) <=> Ends(out[1], u)
        BY <2>1, IdsOfKind DEF Ends
    <2> QED
        BY <1>1, <2>2, <2>4, <2>5, BatchHeard
<1>3. CASE ResolveRebuild
    <2>1. out[1] = <<out[1][1]>> /\ out[1][1].id \in Rebuilds
        BY <1>1, <1>3, HeadBatch DEF ResolveRebuild, TypeOK, RebuildReply
    <2>2. DOMAIN out[1] = {1}
        BY <2>1
    <2>3. Bills(out[1], u) = {} /\ ~Ends(out[1], u)
        BY <2>1, <2>2, IdsAssumption DEF Bills, Among, Ends
    <2>4. UNCHANGED <<counted, inflight>> /\ counted[u] \in Nat
        BY <1>3 DEF ResolveRebuild, userVars, TypeOK, UserTypes
    <2>5. counted'[u] = counted[u] + Cardinality(Bills(out[1], u))
        BY <2>3, <2>4, FS_EmptySet
    <2> QED
        BY <1>1, <2>3, <2>4, <2>5, BatchHeard
<1> QED
    BY <1>2, <1>3

(* The scheduler sends something that is not about u.                      *)
LEMMA OtherSent ==
    ASSUME TypeOK, NEW u \in Uids, OfRequest(u), NEW m \in Downward, m.id # u,
           down' = Append(down, m), sent'[u] = sent[u], ackDue'[u] = ackDue[u],
           u \in toScheduler' <=> u \in toScheduler,
           UNCHANGED <<up, out, userVars>>
    PROVE  OfRequest(u)'
<1>1. down \in Seq(Downward)
    BY DEF TypeOK, QueueTypes, Downward
<1>2. BillsDown(u)' = BillsDown(u)
    BY <1>1, AppendAmong DEF BillsDown, Bills
<1>3. Ends(down', u) <=> Ends(down, u)
    BY <1>1, AppendEnds
<1>4. Behind(down, u) => Behind(down', u)
    BY <1>1, AppendEnds
<1>5. UNCHANGED <<client, inflight, counted, sleeping>>
    BY DEF userVars
<1>6. Asked(u)' = Asked(u) /\ BillsOut(u)' = BillsOut(u)
    BY DEF Asked, BillsOut
<1>7. (Settled(u)' <=> Settled(u)) /\ (Silent(u)' <=> Silent(u))
    BY <1>5, <1>6 DEF Settled, Silent
<1>8. AllCounted(u)' /\ NewIsUnknown(u)'
    BY <1>2, <1>3, <1>5, <1>6 DEF OfRequest, AllCounted, NewIsUnknown
<1>9. AskedOnce(u)' /\ AdmittedOnce(u)'
    BY <1>6 DEF OfRequest, AskedOnce, AdmittedOnce
<1>10. EndIsSilent(u)'
    BY <1>3, <1>7 DEF OfRequest, EndIsSilent
<1>11. NothingBehindTheEnd(u)'
    BY <1>2, <1>4, <1>6, <1>7 DEF OfRequest, NothingBehindTheEnd
<1> QED
    BY <1>8, <1>9, <1>10, <1>11 DEF OfRequest

(* The scheduler sends the next message for u.                             *)
LEMMA NextSent ==
    ASSUME TypeOK, NEW u \in Uids, OfRequest(u), NEW k \in Kinds, SchedulerReply(u, k)
    PROVE  OfRequest(u)'
<1>1. PICK m : m = [k |-> k, id |-> u]
    OBVIOUS
<1>2. m.k = k /\ m.id = u /\ m \in Downward
    BY <1>1 DEF Downward, UserReply
<1>3. /\ MaySend(u, k) /\ down' = Append(down, m)
      /\ sent' = [sent EXCEPT ![u] = Append(@, k)]
      /\ toScheduler' = IF k \in Sampled THEN toScheduler ELSE toScheduler \ {u}
      /\ UNCHANGED <<up, out, userVars>>
    BY <1>1 DEF SchedulerReply
<1>4. /\ down \in Seq(Downward) /\ sent[u] \in Seq(Kinds) /\ sent'[u] = Append(sent[u], k)
      /\ ackDue[u] \in Nat
    BY <1>3 DEF TypeOK, QueueTypes, Downward
<1>5. UNCHANGED <<client, inflight, counted, sleeping>>
    BY <1>3 DEF userVars
<1>6. Asked(u)' = Asked(u) /\ BillsOut(u)' = BillsOut(u)
    BY <1>3 DEF Asked, BillsOut
<1>7. /\ k \in {"admit", "error"} => u \in toScheduler /\ sent[u] = << >>
      /\ k \in Sampled => Contract!Streaming(sent[u])
      /\ k = "ack" => ackDue[u] > 0
    BY <1>3 DEF MaySend, Contract!MayFollow, Sampled, Final, Contract!Streaming
<1>8. k \in {"admit", "error"} \/ k \in Sampled \/ k = "ack"
    BY DEF Kinds, Errors
<1>9. ~Contract!Streaming(<< >>)
    BY DEF Contract!Streaming
<1>10. client[u] # "new"
    BY <1>4, <1>7, <1>8, <1>9 DEF OfRequest, NewIsUnknown
<1>11. Asked(u) = {}
    BY <1>4, <1>7, <1>8, <1>9 DEF OfRequest, AskedOnce
<1>12. k \in Sampled => u \notin toScheduler
    BY <1>7, <1>9 DEF OfRequest, AdmittedOnce
<1>13. u \notin toScheduler'
    BY <1>3, <1>12
<1>14. Ends(down, u) \/ EndOut(out, u) \/ Settled(u) => k = "ack"
    BY <1>7, <1>8, <1>9 DEF OfRequest, EndIsSilent, Silent
<1>15. k \in Finished => ~Contract!Streaming(sent'[u])
    <2>1. sent'[u][Len(sent'[u])] = k
        BY <1>4, AppendFacts DEF Last
    <2>2. k \in Finished => k \notin {"admit", "tok"}
        BY DEF Finished, Final, Errors
    <2> QED
        BY <2>1, <2>2 DEF Contract!Streaming
<1>16. k \in Finished => Silent(u)'
    BY <1>6, <1>11, <1>13, <1>15 DEF Silent
<1>17. "ack" \in Finished /\ "ack" \notin Billable
    BY DEF Finished, Errors, Billable, Sampled, Final
<1>18. /\ k \in Billable => Cardinality(BillsDown(u)') = Cardinality(BillsDown(u)) + 1
       /\ k \notin Billable => BillsDown(u)' = BillsDown(u)
    BY <1>2, <1>3, <1>4, AppendAmong DEF BillsDown, Bills
<1>19. /\ k \in Billable => Units(sent'[u]) = Units(sent[u]) + 1
       /\ k \notin Billable => Units(sent'[u]) = Units(sent[u])
    BY <1>4, AppendUnits
<1>20. /\ Ends(down', u) <=> Ends(down, u) \/ k \in Finished
       /\ Behind(down, u) /\ (Ends(down, u) => k \notin Billable) => Behind(down', u)
    BY <1>2, <1>3, <1>4, AppendEnds
<1>21. /\ Cardinality(BillsDown(u)) \in Nat /\ Cardinality(BillsOut(u)) \in Nat
       /\ counted[u] \in Nat
    BY <1>4, AmongFinite, AmongAllFinite
       DEF BillsDown, Bills, BillsOut, TypeOK, QueueTypes, UserTypes
<1>22. AllCounted(u)'
    BY <1>5, <1>6, <1>18, <1>19, <1>21 DEF OfRequest, AllCounted
<1>23. NewIsUnknown(u)' /\ AskedOnce(u)' /\ AdmittedOnce(u)'
    BY <1>5, <1>6, <1>10, <1>11, <1>13 DEF NewIsUnknown, AskedOnce, AdmittedOnce
<1>24. Settled(u)' <=> Settled(u)
    BY <1>5 DEF Settled
<1>25. EndIsSilent(u)'
    BY <1>3, <1>14, <1>16, <1>17, <1>20, <1>24 DEF EndIsSilent
<1>26. NothingBehindTheEnd(u)'
    BY <1>3, <1>6, <1>14, <1>17, <1>18, <1>20, <1>24 DEF OfRequest, NothingBehindTheEnd
<1> QED
    BY <1>22, <1>23, <1>25, <1>26 DEF OfRequest

LEMMA RepliesSent ==
    ASSUME TypeOK, NEW u \in Uids, OfRequest(u), Replies
    PROVE  OfRequest(u)'
<1>1. ASSUME NEW v \in Uids, NEW k \in Kinds, SchedulerReply(v, k) PROVE OfRequest(u)'
    <2>1. CASE v = u
        BY <1>1, <2>1, NextSent
    <2>2. CASE v # u
        <3>1. PICK m : m = [k |-> k, id |-> v]
            OBVIOUS
        <3>2. m \in Downward /\ m.id # u
            BY <2>2, <3>1 DEF Downward, UserReply
        <3>3. /\ down' = Append(down, m) /\ UNCHANGED <<up, out, userVars>>
              /\ sent' = [sent EXCEPT ![v] = Append(@, k)]
              /\ toScheduler' = IF k \in Sampled THEN toScheduler ELSE toScheduler \ {v}
              /\ ackDue' = IF k = "ack" THEN [ackDue EXCEPT ![v] = @ - 1] ELSE ackDue
            BY <1>1, <3>1 DEF SchedulerReply
        <3>4. /\ sent'[u] = sent[u] /\ ackDue'[u] = ackDue[u]
              /\ u \in toScheduler' <=> u \in toScheduler
            BY <2>2, <3>3 DEF TypeOK, QueueTypes
        <3> QED
            BY <3>2, <3>3, <3>4, OtherSent
    <2> QED
        BY <2>1, <2>2
<1>2. ASSUME NEW r \in Rebuilds, NEW k \in Outcomes, SchedulerRebuilt(r, k)
      PROVE  OfRequest(u)'
    <2>1. PICK m : m = [k |-> k, id |-> r]
        OBVIOUS
    <2>2. m \in Downward /\ m.id # u
        BY <2>1, IdsAssumption DEF Downward, RebuildReply
    <2>3. /\ down' = Append(down, m) /\ UNCHANGED <<up, out, userVars, sent, ackDue>>
          /\ toScheduler' = toScheduler \ {r} /\ u # r
        BY <1>2, <2>1, IdsAssumption DEF SchedulerRebuilt
    <2> QED
        BY <2>2, <2>3, OtherSent
<1> QED
    BY <1>1, <1>2 DEF Replies

(* What is left of down after a pass.                                      *)
LEMMA LeftOrder ==
    ASSUME NEW X, NEW s \in Seq(X), NEW j \in 0 .. Len(s), NEW u
    PROVE  LET d == SubSeq(s, 1, j)
               t == SubSeq(s, j + 1, Len(s))
           IN  /\ Ends(s, u) <=> Ends(d, u) \/ Ends(t, u)
               /\ Behind(s, u) => Behind(t, u) /\ (Ends(d, u) => Bills(t, u) = {})
               /\ Bills(s, u) = {} => Bills(d, u) = {} /\ Bills(t, u) = {}
               /\ Cardinality(Bills(s, u)) = Cardinality(Bills(d, u)) + Cardinality(Bills(t, u))
<1>a. PICK d : d = SubSeq(s, 1, j)
    OBVIOUS
<1>b. PICK t : t = SubSeq(s, j + 1, Len(s))
    OBVIOUS
<1>1. /\ DOMAIN d = 1 .. j /\ \A n \in 1 .. j : d[n] = s[n]
      /\ DOMAIN t = 1 .. (Len(s) - j) /\ \A n \in 1 .. (Len(s) - j) : t[n] = s[n + j]
    BY <1>a, <1>b, TakenFacts, LeftFacts
<1>2. DOMAIN s = 1 .. Len(s) /\ Len(s) \in Nat /\ j \in Nat /\ j <= Len(s)
    OBVIOUS
<1>3. \A n \in DOMAIN d : n \in DOMAIN s /\ d[n] = s[n] /\ n \in 1 .. j
    BY <1>1, <1>2
<1>4. \A n \in DOMAIN t : n + j \in DOMAIN s /\ t[n] = s[n + j] /\ n \in Nat /\ n > 0
    BY <1>1, <1>2
<1>5. ASSUME NEW p \in DOMAIN s, p \notin DOMAIN d PROVE p - j \in DOMAIN t /\ t[p - j] = s[p]
    <2>1. p - j \in 1 .. (Len(s) - j) /\ (p - j) + j = p
        BY <1>1, <1>2, <1>5
    <2> QED
        BY <1>1, <2>1
<1>6. Ends(s, u) <=> Ends(d, u) \/ Ends(t, u)
    <2>1. Ends(d, u) \/ Ends(t, u) => Ends(s, u)
        BY <1>3, <1>4 DEF Ends
    <2>2. ASSUME NEW p \in DOMAIN s, s[p].id = u, s[p].k \in Finished
          PROVE  Ends(d, u) \/ Ends(t, u)
        <3>1. CASE p \in DOMAIN d
            BY <1>3, <2>2, <3>1 DEF Ends
        <3>2. CASE p \notin DOMAIN d
            BY <1>5, <2>2, <3>2 DEF Ends
        <3> QED
            BY <3>1, <3>2
    <2> QED
        BY <2>1, <2>2 DEF Ends
<1>7. \A n : n \in Bills(d, u) => n \in Bills(s, u)
    BY <1>3 DEF Bills, Among
<1>8. \A n : n \in Bills(t, u) => n + j \in Bills(s, u)
    BY <1>4 DEF Bills, Among
<1>9. Bills(s, u) = {} => Bills(d, u) = {} /\ Bills(t, u) = {}
    BY <1>7, <1>8
<1>10. ASSUME Behind(s, u) PROVE Behind(t, u)
    <2> SUFFICES ASSUME NEW i \in DOMAIN t, NEW k \in DOMAIN t,
                        t[i].id = u, t[i].k \in Finished, i < k, k \in Bills(t, u)
                 PROVE  FALSE
        BY DEF Behind
    <2>1. i + j < k + j /\ i + j \in DOMAIN s /\ k + j \in DOMAIN s
        BY <1>2, <1>4
    <2> QED
        BY <1>4, <1>8, <1>10, <2>1 DEF Behind
<1>11. ASSUME Behind(s, u), Ends(d, u) PROVE Bills(t, u) = {}
    <2> SUFFICES ASSUME NEW k \in Bills(t, u) PROVE FALSE
        OBVIOUS
    <2>1. PICK i \in DOMAIN d : d[i].id = u /\ d[i].k \in Finished
        BY <1>11 DEF Ends
    <2>2. k \in DOMAIN t
        BY DEF Bills, Among
    <2>3. i \in DOMAIN s /\ k + j \in DOMAIN s /\ i < k + j
        BY <1>2, <1>3, <1>4, <2>1, <2>2
    <2> QED
        BY <1>3, <1>8, <1>11, <2>1, <2>3 DEF Behind
<1>12. Cardinality(Bills(s, u)) = Cardinality(Bills(d, u)) + Cardinality(Bills(t, u))
    BY <1>a, <1>b, LeftCount DEF Bills
<1> QED
    BY <1>a, <1>b, <1>6, <1>9, <1>10, <1>11, <1>12

(* What a pass takes of the requests, and what it leaves of them.          *)
LEMMA PassAsked ==
    ASSUME TypeOK, NEW u \in Uids, OfRequest(u), NEW i \in Nat, NEW j \in Nat,
           NEW bad \in SUBSET Uids, Pass(i, j, bad)
    PROVE  /\ \A n \in DOMAIN up' :
                  n + i \in DOMAIN up /\ up'[n] = up[n + i] /\ n \in Nat /\ n + i > i
           /\ \A n \in 1 .. i : n \in DOMAIN up
           /\ u \in toScheduler' => u \in toScheduler \/ (u \notin bad /\ Asked(u) # {})
           /\ u \in bad => Asked(u) # {}
           /\ Asked(u) # {} => u \notin toScheduler /\ sent[u] = << >> /\ ackDue[u] = 0
           /\ \A n \in Asked(u)' : n + i \in Asked(u)
           /\ (\A n \in 1 .. i : up[n] # [k |-> "abort", id |-> u]) => ackDue'[u] = ackDue[u]
           /\ (Silent(u) => Silent(u)') /\ (u \in bad => Silent(u)')
<1>3. /\ i \in 0 .. Len(up) /\ j \in 0 .. Len(down)
      /\ \A v \in bad : \E n \in 1 .. i : up[n] = [k |-> "tokenize", id |-> v]
      /\ up' = SubSeq(up, i + 1, Len(up)) /\ down' = SubSeq(down, j + 1, Len(down))
      /\ \A x : x \in toScheduler' <=>
          \/ x \in toScheduler
          \/ \E n \in 1 .. i : up[n].id = x /\ up[n].k = "rebuild"
          \/ x \notin bad /\ \E n \in 1 .. i : up[n].id = x /\ up[n].k = "tokenize"
      /\ ackDue' = [v \in Uids |-> ackDue[v] + Cardinality(
                       {n \in 1 .. i : up[n] = [k |-> "abort", id |-> v]})]
      /\ UNCHANGED <<client, inflight, counted, sleeping, sent>>
    BY DEF Pass, userVars
<1>4. /\ up \in Seq(Requested) /\ DOMAIN up = 1 .. Len(up) /\ Len(up) \in Nat
      /\ down \in Seq(Downward) /\ out \in Seq(ReplyBatch)
      /\ \A n \in 1 .. i : n \in DOMAIN up
    BY <1>3 DEF TypeOK, QueueTypes, Downward
<1>5. DOMAIN up' = 1 .. (Len(up) - i) /\ \A n \in 1 .. (Len(up) - i) : up'[n] = up[n + i]
    BY <1>3, <1>4, LeftFacts
<1>6. \A n \in DOMAIN up' : n + i \in DOMAIN up /\ up'[n] = up[n + i] /\ n \in Nat /\ n + i > i
    BY <1>4, <1>5
<1>10. \A n \in DOMAIN up : up[n].id = u => up[n].k # "rebuild"
    <2>1. \A n \in DOMAIN up : up[n] \in Requested
        BY <1>4
    <2> QED
        BY <2>1, IdsAssumption DEF Requested
<1>11. \A n \in DOMAIN up : up[n].id = u /\ up[n].k = "tokenize" => n \in Asked(u)
    <2>1. \A n \in DOMAIN up : up[n] \in Requested
        BY <1>4
    <2> QED
        BY <2>1, IdsAssumption DEF Requested, Asked
<1>12. u \in toScheduler' => u \in toScheduler \/ (u \notin bad /\ Asked(u) # {})
    BY <1>3, <1>4, <1>10, <1>11
<1>13. u \in bad => Asked(u) # {}
    BY <1>3, <1>4 DEF Asked
<1>14. ASSUME NEW n \in Asked(u)' PROVE n + i \in Asked(u)
    BY <1>6 DEF Asked
<1>15. u \in bad => Asked(u)' = {}
    <2> SUFFICES ASSUME u \in bad, NEW n \in Asked(u)' PROVE FALSE
        OBVIOUS
    <2>1. PICK p \in 1 .. i : up[p] = [k |-> "tokenize", id |-> u]
        BY <1>3
    <2>2. p \in DOMAIN up /\ up[p].id = u
        BY <1>4, <2>1
    <2>3. n \in DOMAIN up'
        BY DEF Asked
    <2>4. p >= n + i
        BY <1>14, <2>2 DEF OfRequest, AskedOnce
    <2> QED
        BY <1>3, <1>4, <1>6, <2>3, <2>4
<1>16. Asked(u) # {} => u \notin toScheduler /\ sent[u] = << >> /\ ackDue[u] = 0
    BY DEF OfRequest, AskedOnce
<1>17. ASSUME \A n \in 1 .. i : up[n] # [k |-> "abort", id |-> u]
       PROVE  ackDue'[u] = ackDue[u]
    <2>1. {n \in 1 .. i : up[n] = [k |-> "abort", id |-> u]} = {}
        BY <1>17
    <2>2. ackDue[u] \in Nat
        BY DEF TypeOK, QueueTypes
    <2> QED
        BY <1>3, <2>1, <2>2, FS_EmptySet
<1>18. Silent(u) => Silent(u)'
    <2>1. ASSUME Asked(u) = {} PROVE Asked(u)' = {}
        BY <1>14, <2>1
    <2> QED
        BY <1>3, <1>12, <2>1 DEF Silent
<1>19. u \in bad => Silent(u)'
    <2>1. ~Contract!Streaming(<< >>)
        BY DEF Contract!Streaming
    <2> QED
        BY <1>3, <1>12, <1>13, <1>15, <1>16, <2>1 DEF Silent
<1> QED
    BY <1>4, <1>6, <1>12, <1>13, <1>14, <1>16, <1>17, <1>18, <1>19

LEMMA PassKept ==
    ASSUME TypeOK, NEW u \in Uids, OfRequest(u), TokenizerStep
    PROVE  OfRequest(u)'
<1>1. PICK i, j \in Nat : \E bad \in SUBSET Uids : Pass(i, j, bad)
    BY TokenizerPass
<1>2. PICK bad \in SUBSET Uids : Pass(i, j, bad)
    BY <1>1
<1>3. /\ i \in 0 .. Len(up) /\ j \in 0 .. Len(down)
      /\ \A v \in bad : \E n \in 1 .. i : up[n] = [k |-> "tokenize", id |-> v]
      /\ up' = SubSeq(up, i + 1, Len(up)) /\ down' = SubSeq(down, j + 1, Len(down))
      /\ \A x : x \in toScheduler' <=>
          \/ x \in toScheduler
          \/ \E n \in 1 .. i : up[n].id = x /\ up[n].k = "rebuild"
          \/ x \notin bad /\ \E n \in 1 .. i : up[n].id = x /\ up[n].k = "tokenize"
      /\ ackDue' = [v \in Uids |-> ackDue[v] + Cardinality(
                       {n \in 1 .. i : up[n] = [k |-> "abort", id |-> v]})]
      /\ UNCHANGED <<client, inflight, counted, sleeping, sent>>
    BY <1>2 DEF Pass, userVars
<1>4. /\ up \in Seq(Requested) /\ DOMAIN up = 1 .. Len(up) /\ Len(up) \in Nat
      /\ down \in Seq(Downward) /\ out \in Seq(ReplyBatch)
      /\ \A n \in 1 .. i : n \in DOMAIN up
    BY <1>3 DEF TypeOK, QueueTypes, Downward
<1>6. \A n \in DOMAIN up' : n + i \in DOMAIN up /\ up'[n] = up[n + i] /\ n \in Nat /\ n + i > i
    BY <1>2, PassAsked
<1>7. PICK d : d = SubSeq(down, 1, j)
    OBVIOUS
<1>8. /\ Ends(down, u) <=> Ends(d, u) \/ Ends(down', u)
      /\ Behind(down, u) => Behind(down', u) /\ (Ends(d, u) => Bills(down', u) = {})
      /\ Bills(down, u) = {} => Bills(d, u) = {} /\ Bills(down', u) = {}
      /\ Cardinality(Bills(down, u)) = Cardinality(Bills(d, u)) + Cardinality(Bills(down', u))
    <2>1. /\ down \in Seq(Downward) /\ j \in 0 .. Len(down) /\ d = SubSeq(down, 1, j)
          /\ down' = SubSeq(down, j + 1, Len(down))
        BY <1>3, <1>4, <1>7
    <2> QED
        BY <2>1, LeftOrder
<1>9. /\ Cardinality(AmongAll(out', u, Billable))
             = Cardinality(AmongAll(out, u, Billable)) + Cardinality(Bills(d, u))
      /\ EndOut(out', u) <=> EndOut(out, u) \/ Ends(d, u) \/ u \in bad
      /\ BehindAll(out, u) /\ (EndOut(out, u) => Bills(d, u) = {}) => BehindAll(out', u)
    <2>1. TypeOK /\ i \in Nat /\ j \in Nat /\ Pass(i, j, bad) /\ u \in Uids
        BY <1>2
    <2> QED
        BY <2>1, <1>7, PassBills
<1>12. u \in toScheduler' => u \in toScheduler \/ (u \notin bad /\ Asked(u) # {})
    BY <1>2, PassAsked
<1>13. u \in bad => Asked(u) # {}
    BY <1>2, PassAsked
<1>14. \A n \in Asked(u)' : n + i \in Asked(u)
    BY <1>2, PassAsked
<1>16. Asked(u) # {} => u \notin toScheduler /\ sent[u] = << >> /\ ackDue[u] = 0
    BY <1>2, PassAsked
<1>17. (\A n \in 1 .. i : up[n] # [k |-> "abort", id |-> u]) => ackDue'[u] = ackDue[u]
    BY <1>2, PassAsked
<1>18. Silent(u) => Silent(u)'
    BY <1>2, PassAsked
<1>19. u \in bad => Silent(u)'
    BY <1>2, PassAsked
<1>20. Settled(u)' <=> Settled(u)
    BY <1>3 DEF Settled
<1>21. /\ Cardinality(Bills(d, u)) \in Nat /\ Cardinality(Bills(down', u)) \in Nat
       /\ Cardinality(AmongAll(out, u, Billable)) \in Nat /\ counted[u] \in Nat
       /\ Cardinality(Bills(down, u)) = 0 <=> Bills(down, u) = {}
    <2>1. d \in Seq(Downward) /\ down' \in Seq(Downward)
        BY <1>3, <1>4, <1>7, TakenFacts, LeftFacts
    <2> QED
        BY <1>4, <2>1, AmongFinite, AmongAllFinite DEF Bills, TypeOK, UserTypes
<1>22. AllCounted(u)'
    BY <1>3, <1>8, <1>9, <1>21 DEF OfRequest, AllCounted, BillsOut, BillsDown
<1>23. u \in bad => BillsDown(u) = {}
    <2> SUFFICES ASSUME u \in bad PROVE BillsDown(u) = {}
        OBVIOUS
    <2>1. Units(sent[u]) = 0
        <3>1. sent[u] = << >>
            BY <1>13, <1>16
        <3>2. {n \in DOMAIN sent[u] : sent[u][n] \in Billable} = {}
            BY <3>1
        <3> QED
            BY <3>2, FS_EmptySet DEF Units
    <2> QED
        BY <1>8, <1>21, <2>1 DEF OfRequest, AllCounted, BillsDown, BillsOut
<1>24. NewIsUnknown(u)'
    <2> SUFFICES ASSUME client[u] = "new"
                 PROVE  /\ u \notin Ids(up') /\ u \notin toScheduler' /\ sent[u] = << >>
                        /\ ackDue'[u] = 0 /\ ~Ends(down', u) /\ ~EndOut(out', u)
        BY <1>3 DEF OfRequest, NewIsUnknown
    <2>1. /\ u \notin Ids(up) /\ u \notin toScheduler /\ sent[u] = << >> /\ ackDue[u] = 0
          /\ ~Ends(down, u) /\ ~EndOut(out, u)
        BY DEF OfRequest, NewIsUnknown
    <2>2. \A n \in DOMAIN up : up[n].id # u
        BY <2>1, InIds
    <2>3. Asked(u) = {}
        BY <2>2 DEF Asked
    <2>4. u \notin Ids(up')
        BY <1>6, <2>2, InIds
    <2>5. ackDue'[u] = 0
        BY <1>4, <1>17, <2>1, <2>2
    <2> QED
        BY <1>8, <1>9, <1>12, <1>13, <2>1, <2>3, <2>4, <2>5
<1>25. AskedOnce(u)'
    <2> SUFFICES ASSUME NEW n \in Asked(u)'
                 PROVE  /\ \A p \in DOMAIN up' : up'[p].id = u => p >= n
                        /\ u \notin toScheduler' /\ sent[u] = << >> /\ ackDue'[u] = 0
        BY <1>3 DEF AskedOnce
    <2>1. n + i \in Asked(u) /\ n \in DOMAIN up'
        BY <1>14 DEF Asked
    <2>2. /\ \A p \in DOMAIN up : up[p].id = u => p >= n + i
          /\ u \notin toScheduler /\ sent[u] = << >> /\ ackDue[u] = 0
        BY <2>1 DEF OfRequest, AskedOnce
    <2>3. \A p \in DOMAIN up' : up'[p].id = u => p >= n
        BY <1>3, <1>6, <2>1, <2>2
    <2>4. \A p \in 1 .. i : up[p].id # u
        <3> SUFFICES ASSUME NEW p \in 1 .. i, up[p].id = u PROVE FALSE
            OBVIOUS
        <3>1. p \in DOMAIN up /\ p <= i /\ p \in Nat
            BY <1>4
        <3>2. p >= n + i
            BY <2>2, <3>1
        <3> QED
            BY <1>6, <2>1, <3>1, <3>2
    <2>5. u \notin toScheduler'
        BY <1>3, <2>2, <2>4
    <2>6. ackDue'[u] = 0
        BY <1>17, <2>2, <2>4
    <2> QED
        BY <2>2, <2>3, <2>5, <2>6
<1>26. AdmittedOnce(u)'
    BY <1>3, <1>12, <1>16 DEF OfRequest, AdmittedOnce
<1>27. EndIsSilent(u)'
    BY <1>8, <1>9, <1>18, <1>19, <1>20 DEF OfRequest, EndIsSilent
<1>28. BehindAll(out', u) /\ Behind(down', u)
    BY <1>8, <1>9 DEF OfRequest, NothingBehindTheEnd, BillsDown
<1>29. EndOut(out', u) => Bills(down', u) = {}
    BY <1>8, <1>9, <1>23 DEF OfRequest, NothingBehindTheEnd, BillsDown
<1>30. Settled(u) => Bills(down', u) = {} /\ AmongAll(out', u, Billable) = {}
    <2> SUFFICES ASSUME Settled(u)
                 PROVE  Bills(down', u) = {} /\ AmongAll(out', u, Billable) = {}
        OBVIOUS
    <2>1. Bills(down, u) = {} /\ AmongAll(out, u, Billable) = {}
        BY DEF OfRequest, NothingBehindTheEnd, BillsDown, BillsOut
    <2>2. Cardinality(AmongAll(out', u, Billable)) = 0
        BY <1>8, <1>9, <2>1, FS_EmptySet
    <2>3. out' \in Seq(ReplyBatch)
        BY TokenizerTypes DEF TypeOK, QueueTypes
    <2> QED
        BY <1>8, <2>1, <2>2, <2>3, AmongAllFinite
<1>31. NothingBehindTheEnd(u)'
    BY <1>20, <1>28, <1>29, <1>30 DEF NothingBehindTheEnd, BillsDown, BillsOut
<1> QED
    BY <1>22, <1>24, <1>25, <1>26, <1>27, <1>31 DEF OfRequest

Silently ==
    ~Requests /\ ~Aborts /\ ~ListenReplies /\ ~ResolveRebuild /\ ~TokenizerStep /\ ~Replies

LEMMA RequestQuiet ==
    ASSUME TypeOK, NEW u \in Uids, OfRequest(u), [Next]_vars, Silently
    PROVE  OfRequest(u)'
<1>1. UpGrows(u)
    <2>1. CASE \E r \in Rebuilds : SendRebuild(r)
        <3>1. PICK r \in Rebuilds : SendRebuild(r)
            BY <2>1
        <3>2. PICK m : m = [k |-> "rebuild", id |-> r]
            OBVIOUS
        <3>3. m \in Requested /\ Foreign(m, u)
            BY <3>2, IdsAssumption DEF Requested, Foreign
        <3>4. up' = up \/ up' = Append(up, m)
            BY <3>1, <3>2 DEF SendRebuild, Send, SendRaises
        <3> QED
            BY <3>3, <3>4 DEF UpGrows
    <2>2. CASE ~\E r \in Rebuilds : SendRebuild(r)
        <3>1. up' = up
            BY <2>2 DEF Next, Silently, Consume, Disconnect, Reopen, ResolveAll, CacheRebuild,
               TimeoutRebuild, Dispatch, CloseGate, StopBegin, StopSeal, StopAbort, StopAborted,
               StopTimeout, SupervisorStep, WorkersReady, WorkerDies, vars
        <3> QED
            BY <3>1 DEF UpGrows
    <2> QED
        BY <2>1, <2>2
<1>2. UNCHANGED <<down, out, toScheduler, sent, ackDue, counted, inflight>>
    BY DEF Next, Silently, Consume, Disconnect, Reopen, ResolveAll, CacheRebuild,
       TimeoutRebuild, Dispatch, CloseGate, SendRebuild, StopBegin, StopSeal, StopAbort,
       StopAborted, StopTimeout, SupervisorStep, WorkersReady, WorkerDies, vars, userVars,
       schedVars
<1>3. client'[u] = "new" <=> client[u] = "new"
    <2>1. CASE \E v \in Uids : Consume(v) \/ Disconnect(v)
        BY <2>1 DEF Consume, Disconnect, TypeOK, UserTypes
    <2>2. CASE ~\E v \in Uids : Consume(v) \/ Disconnect(v)
        <3>1. client' = client
            BY <2>2 DEF Next, Silently, Reopen, ResolveAll, CacheRebuild,
               TimeoutRebuild, Dispatch, CloseGate, SendRebuild, StopBegin, StopSeal, StopAbort,
               StopAborted, StopTimeout, SupervisorStep, WorkersReady, WorkerDies, vars, userVars
        <3> QED
            BY <3>1
    <2> QED
        BY <2>1, <2>2
<1>4. client[u] = "new" =>
          \A who \in {"client", "stop"} : <<u, who>> \in sleeping' => <<u, who>> \in sleeping
    <2>1. CASE \E v \in Uids : Disconnect(v)
        <3>1. PICK v \in Uids : Disconnect(v)
            BY <2>1
        <3>2. client[v] = "waiting" /\ sleeping' = sleeping \cup {<<v, "client">>}
            BY <3>1 DEF Disconnect
        <3> QED
            BY <3>2
    <2>2. CASE StopAbort
        <3>1. sleeping' = sleeping \cup (inflight \X {"stop"})
            BY <2>2 DEF StopAbort
        <3>2. client[u] = "new" => u \notin inflight
            BY DEF OfRequest, NewIsUnknown
        <3> QED
            BY <3>1, <3>2
    <2>3. CASE ~StopAbort /\ ~\E v \in Uids : Disconnect(v)
        <3>1. sleeping' = sleeping
            BY <2>3 DEF Next, Silently, Consume, Reopen, ResolveAll, CacheRebuild,
               TimeoutRebuild, Dispatch, CloseGate, SendRebuild, StopBegin, StopSeal,
               StopAborted, StopTimeout, SupervisorStep, WorkersReady, WorkerDies, vars, userVars
        <3> QED
            BY <3>1
    <2> QED
        BY <2>1, <2>2, <2>3
<1> QED
    BY <1>1, <1>2, <1>3, <1>4, RequestKept

LEMMA RequestNext ==
    ASSUME TypeOK, NEW u \in Uids, OfRequest(u), [Next]_vars
    PROVE  OfRequest(u)'
<1>1. ASSUME NEW v \in Uids, Submit(v) PROVE OfRequest(u)'
    <2>1. CASE v = u
        BY <1>1, <2>1, RequestMade
    <2>2. CASE v # u
        <3>1. PICK m : m = [k |-> "tokenize", id |-> v]
            OBVIOUS
        <3>2. m \in Requested /\ Foreign(m, u)
            BY <2>2, <3>1 DEF Requested, Foreign
        <3>3. /\ up' = up \/ up' = Append(up, m)
              /\ UNCHANGED <<down, out, toScheduler, sent, ackDue, counted, sleeping>>
              /\ client'[u] = client[u] /\ inflight' = inflight \cup {v}
            BY <1>1, <2>2, <3>1 DEF Submit, Send, SendRaises, schedVars, TypeOK, UserTypes
        <3>4. UpGrows(u)
            BY <3>2, <3>3 DEF UpGrows
        <3> QED
            BY <2>2, <3>3, <3>4, RequestKept
    <2> QED
        BY <2>1, <2>2
<1>2. ASSUME NEW v \in Uids, NEW who \in {"client", "stop"}, AbortUser(v, who)
      PROVE  OfRequest(u)'
    <2>1. PICK m : m = [k |-> "abort", id |-> v]
        OBVIOUS
    <2>2. <<v, who>> \in sleeping
        BY <1>2 DEF AbortUser
    <2>3. m \in Requested /\ Foreign(m, u)
        BY <2>1, <2>2 DEF Requested, Foreign, OfRequest, NewIsUnknown
    <2>4. /\ up' = up \/ up' = Append(up, m)
          /\ UNCHANGED <<down, out, toScheduler, sent, ackDue, counted, inflight>>
          /\ sleeping' \subseteq sleeping
        BY <1>2, <2>1 DEF AbortUser, Send, SendRaises, schedVars
    <2>5. client'[u] = "new" <=> client[u] = "new"
        BY <1>2 DEF AbortUser, TypeOK, UserTypes
    <2>6. UpGrows(u)
        BY <2>3, <2>4 DEF UpGrows
    <2> QED
        BY <2>4, <2>5, <2>6, RequestKept
<1>3. CASE Silently
    BY <1>3, RequestQuiet
<1> QED
    BY <1>1, <1>2, <1>3, RepliesHeard, PassKept, RepliesSent DEF Silently, Requests, Aborts

(* Once its terminal reply was observed a request stays settled, and the   *)
(* scheduler sends nothing more for it that counts.                        *)
LEMMA SettledStays ==
    ASSUME TypeOK, NEW u \in Uids, OfRequest(u), Settled(u), [Next]_vars
    PROVE  Settled(u)' /\ Units(sent'[u]) = Units(sent[u])
<1>1. CASE Requests
    <2>1. PICK v \in Uids : Submit(v)
        BY <1>1 DEF Requests
    <2>2. v # u
        BY <2>1 DEF Submit, Settled
    <2> QED
        BY <2>1, <2>2 DEF Submit, Settled, schedVars, TypeOK, UserTypes
<1>2. CASE Replies
    <2>1. UNCHANGED <<client, inflight>>
        BY <1>2 DEF Replies, SchedulerReply, SchedulerRebuilt, userVars
    <2>2. ASSUME NEW v \in Uids, NEW k \in Kinds, SchedulerReply(v, k)
          PROVE  Units(sent'[u]) = Units(sent[u])
        <3>1. sent' = [sent EXCEPT ![v] = Append(@, k)] /\ MaySend(v, k)
            BY <2>2 DEF SchedulerReply
        <3>2. CASE v # u
            BY <3>1, <3>2 DEF TypeOK, QueueTypes
        <3>3. CASE v = u
            <4>1. Silent(u)
                BY DEF OfRequest, EndIsSilent
            <4>2. k \in Errors
                BY <3>1, <3>3, <4>1 DEF MaySend, Contract!MayFollow, Silent, Kinds, Errors
            <4>3. k \notin Billable
                BY <4>2 DEF Errors, Billable, Sampled, Final
            <4>4. sent'[u] = Append(sent[u], k) /\ sent[u] \in Seq(Kinds)
                BY <3>1, <3>3 DEF TypeOK, QueueTypes
            <4> QED
                BY <4>3, <4>4, AppendUnits
        <3> QED
            BY <3>2, <3>3
    <2>3. ASSUME NEW r \in Rebuilds, NEW k \in Outcomes, SchedulerRebuilt(r, k)
          PROVE  Units(sent'[u]) = Units(sent[u])
        BY <2>3 DEF SchedulerRebuilt
    <2> QED
        BY <1>2, <2>1, <2>2, <2>3 DEF Replies, Settled
<1>3. CASE ~Requests /\ ~Replies
    <2>1. sent' = sent /\ inflight' \subseteq inflight
        BY <1>3 DEF Next, Consume, Disconnect, Aborts, AbortUser, ListenReplies, ResolveRebuild,
           Reopen, ResolveAll, CacheRebuild, TimeoutRebuild, Dispatch, CloseGate, SendRebuild,
           StopBegin, StopSeal, StopAbort, StopAborted, StopTimeout, SupervisorStep,
           TokenizerStep, WorkersReady, WorkerDies, vars, userVars, schedVars
    <2>2. client[u] # "new" => client'[u] # "new"
        BY <1>3 DEF Next, Consume, Disconnect, Aborts, AbortUser, ListenReplies, ResolveRebuild,
           Reopen, ResolveAll, CacheRebuild, TimeoutRebuild, Dispatch, CloseGate, SendRebuild,
           StopBegin, StopSeal, StopAbort, StopAborted, StopTimeout, SupervisorStep,
           TokenizerStep, WorkersReady, WorkerDies, vars, userVars, TypeOK, UserTypes
    <2> QED
        BY <2>1, <2>2 DEF Settled
<1> QED
    BY <1>1, <1>2, <1>3

LEMMA SealInit == Init => SealInv
<1> SUFFICES ASSUME Init PROVE SealInv
    OBVIOUS
<1>1. stop = "idle" /\ up = << >> /\ down = << >> /\ out = << >> /\ sleeping = {}
      /\ inflight = {} /\ toScheduler = {}
    BY DEF Init
<1>2. ASSUME NEW u \in Uids PROVE OfRequest(u)
    <2>1. /\ client[u] = "new" /\ counted[u] = 0 /\ sent[u] = << >> /\ ackDue[u] = 0
        BY DEF Init
    <2>2. Bills(down, u) = {} /\ AmongAll(out, u, Billable) = {}
        BY <1>1 DEF Bills, Among, AmongAll
    <2>3. Units(sent[u]) = 0
        <3>1. {i \in DOMAIN sent[u] : sent[u][i] \in Billable} = {}
            BY <2>1
        <3> QED
            BY <3>1, FS_EmptySet DEF Units
    <2>4. Cardinality({}) = 0
        BY FS_EmptySet
    <2>5. AllCounted(u)
        BY <2>1, <2>2, <2>3, <2>4 DEF AllCounted, BillsDown, BillsOut
    <2>6. ~Ends(down, u) /\ ~EndOut(out, u) /\ Asked(u) = {} /\ u \notin Ids(up)
        BY <1>1, InIds DEF Ends, EndOut, Asked
    <2>7. NewIsUnknown(u) /\ AskedOnce(u) /\ AdmittedOnce(u)
        BY <1>1, <2>1, <2>6 DEF NewIsUnknown, AskedOnce, AdmittedOnce
    <2>8. ~Settled(u)
        BY <2>1 DEF Settled
    <2>9. Behind(down, u) /\ BehindAll(out, u)
        BY <1>1 DEF Behind, BehindAll
    <2> QED
        BY <2>2, <2>5, <2>6, <2>7, <2>8, <2>9 DEF OfRequest, EndIsSilent, NothingBehindTheEnd,
           BillsDown
<1> QED
    BY <1>1, <1>2 DEF SealInv, SealedIsSettled, SealIsComplete

LEMMA SealNext ==
    ASSUME TypeOK, SealInv, [Next]_vars
    PROVE  SealInv'
<1>1. \A u \in Uids : OfRequest(u)'
    BY RequestNext DEF SealInv
<1>2. ASSUME NEW u \in Uids, Settled(u) PROVE counted[u] = Units(sent[u])
    <2>1. OfRequest(u)
        BY DEF SealInv
    <2>2. Cardinality(BillsOut(u)) = 0 /\ Cardinality(BillsDown(u)) = 0
        BY <1>2, <2>1, FS_EmptySet DEF OfRequest, NothingBehindTheEnd
    <2>3. counted[u] \in Nat
        BY DEF TypeOK, UserTypes
    <2> QED
        BY <2>1, <2>2, <2>3 DEF OfRequest, AllCounted
<1>3. CASE StopSeal
    <2>1. /\ inflight = {} /\ UNCHANGED <<client, inflight, sent>>
          /\ sealed' = [u \in {v \in Uids : client[v] # "new"} |-> counted[u]]
        BY <1>3 DEF StopSeal, userVars, schedVars
    <2>2. DOMAIN sealed' \subseteq Uids /\ \A u \in DOMAIN sealed' : Settled(u) /\ Settled(u)'
        BY <2>1 DEF Settled
    <2>3. \A u \in DOMAIN sealed' : sealed'[u] = Units(sent'[u])
        BY <1>2, <2>1, <2>2
    <2> QED
        BY <1>1, <2>2, <2>3 DEF SealInv, SealedIsSettled, SealIsComplete
<1>4. CASE ~StopSeal
    <2>1. sealed' = sealed /\ (stop' = "sealed" => stop = "sealed")
        BY <1>4 DEF Next, Requests, Submit, Consume, Disconnect, Aborts, AbortUser,
           ListenReplies, ResolveRebuild, Reopen, ResolveAll, CacheRebuild, TimeoutRebuild,
           Dispatch, CloseGate, SendRebuild, StopBegin, StopAbort, StopAborted, StopTimeout,
           SupervisorStep, TokenizerStep, Replies, SchedulerReply, SchedulerRebuilt,
           WorkersReady, WorkerDies, vars, stopVars
    <2>2. ASSUME stop' = "sealed", NEW u \in DOMAIN sealed'
          PROVE  u \in Uids /\ Settled(u)' /\ sealed'[u] = Units(sent'[u])
        <3>1. u \in Uids /\ Settled(u) /\ sealed[u] = Units(sent[u])
            BY <2>1, <2>2 DEF SealInv, SealedIsSettled, SealIsComplete
        <3>2. OfRequest(u)
            BY <3>1 DEF SealInv
        <3> QED
            BY <2>1, <3>1, <3>2, SettledStays
    <2> QED
        BY <1>1, <2>2 DEF SealInv, SealedIsSettled, SealIsComplete
<1> QED
    BY <1>3, <1>4

(* accounting.py: when prepare-stop seals the totals, every admission and  *)
(* every token the scheduler sent for the requests admitted by then is in  *)
(* them, and the scheduler sends none later: not behind a terminal reply   *)
(* overtaken by an abort, nor for a request whose client is long gone.     *)
THEOREM SealIsCompleteHolds == Spec => []SealIsComplete
<1>1. TypeOK /\ SealInv /\ [Next]_vars => SealInv'
    BY SealNext
<1>2. SealInv => SealIsComplete
    BY DEF SealInv
<1> QED
    BY <1>1, <1>2, SealInit, TypeCorrect, PTL DEF Spec

-----------------------------------------------------------------------------
(* The whole answer.                                                       *)

(* The place of a message about u among those of its queue.                *)
LEMMA UptoFacts ==
    ASSUME NEW X, NEW b \in Seq(X), NEW u
    PROVE  /\ IsFiniteSet(About(b, u)) /\ Cardinality(About(b, u)) \in Nat
           /\ \A n \in About(b, u) :
                 /\ n \in Nat /\ n \in DOMAIN b /\ b[n].id = u /\ b[n].k \in Kinds
                 /\ Cardinality(Upto(b, u, n)) \in Nat /\ 1 <= Cardinality(Upto(b, u, n))
                 /\ Cardinality(Upto(b, u, n)) <= Cardinality(About(b, u))
                 /\ \A m \in About(b, u) :
                       m < n => Cardinality(Upto(b, u, m)) < Cardinality(Upto(b, u, n))
<1>1. IsFiniteSet(About(b, u)) /\ Cardinality(About(b, u)) \in Nat
    BY AmongFinite DEF About
<1>2. ASSUME NEW n \in About(b, u)
      PROVE  /\ n \in Nat /\ n \in DOMAIN b /\ b[n].id = u /\ b[n].k \in Kinds
             /\ IsFiniteSet(Upto(b, u, n)) /\ Upto(b, u, n) \in SUBSET About(b, u)
             /\ n \in Upto(b, u, n)
             /\ Cardinality(Upto(b, u, n)) \in Nat /\ 1 <= Cardinality(Upto(b, u, n))
             /\ Cardinality(Upto(b, u, n)) <= Cardinality(About(b, u))
    <2>1. n \in Nat /\ n \in DOMAIN b /\ b[n].id = u /\ b[n].k \in Kinds
        BY DEF About, Among
    <2>2. Upto(b, u, n) \in SUBSET About(b, u) /\ n \in Upto(b, u, n)
        BY <2>1 DEF Upto
    <2>3. /\ IsFiniteSet(Upto(b, u, n))
          /\ Cardinality(Upto(b, u, n)) <= Cardinality(About(b, u))
        BY <1>1, <2>2, FS_Subset
    <2>4. Cardinality(Upto(b, u, n)) \in Nat /\ Cardinality(Upto(b, u, n)) # 0
        BY <2>2, <2>3, FS_CardinalityType, FS_EmptySet
    <2> QED
        BY <2>1, <2>2, <2>3, <2>4
<1>3. ASSUME NEW n \in About(b, u), NEW m \in About(b, u), m < n
      PROVE  Cardinality(Upto(b, u, m)) < Cardinality(Upto(b, u, n))
    <2>1. m \in Nat /\ n \in Nat
        BY <1>2
    <2>2. \A x \in About(b, u) : x \in Nat
        BY <1>2
    <2>7. ~(n <= m) /\ \A x \in About(b, u) : x <= m => x <= n
        BY <1>3, <2>1, <2>2
    <2>3. Upto(b, u, m) \in SUBSET Upto(b, u, n) /\ n \notin Upto(b, u, m)
        BY <2>7 DEF Upto
    <2>4. n \in Upto(b, u, n) /\ IsFiniteSet(Upto(b, u, n))
        BY <1>2
    <2>5. /\ Cardinality(Upto(b, u, m)) <= Cardinality(Upto(b, u, n))
          /\ Cardinality(Upto(b, u, m)) # Cardinality(Upto(b, u, n))
        BY <2>3, <2>4, FS_Subset
    <2>6. Cardinality(Upto(b, u, m)) \in Nat /\ Cardinality(Upto(b, u, n)) \in Nat
        BY <1>2
    <2> QED
        BY <2>5, <2>6
<1> QED
    BY <1>1, <1>2, <1>3

LEMMA UptoTaken ==
    ASSUME NEW X, NEW b \in Seq(X), NEW u, NEW n \in 0 .. Len(b)
    PROVE  Upto(b, u, n) = About(SubSeq(b, 1, n), u)
<1>1. PICK d : d = SubSeq(b, 1, n)
    OBVIOUS
<1>2. DOMAIN d = 1 .. n /\ \A m \in 1 .. n : d[m] = b[m]
    BY <1>1, TakenFacts
<1>3. DOMAIN b = 1 .. Len(b) /\ Len(b) \in Nat
    OBVIOUS
<1>4. \A m : m \in 1 .. n <=> m \in 1 .. Len(b) /\ m <= n
    BY <1>3
<1>5. \A m : m \in Upto(b, u, n) <=> m \in About(d, u)
    BY <1>2, <1>3, <1>4 DEF Upto, About, Among
<1>6. Upto(b, u, n) = About(d, u)
    BY <1>5
<1> QED
    BY <1>1, <1>6

(* The messages of d about u are those of b from position j + 1, and there *)
(* are c before them.                                                      *)
PlacedIn(b, d, u, j, c) ==
    \A n \in About(d, u) :
        /\ n + j \in About(b, u) /\ d[n] = b[n + j]
        /\ Cardinality(Upto(b, u, n + j)) = c + Cardinality(Upto(d, u, n))

LEMMA PlacedRank ==
    ASSUME NEW X, NEW b, NEW d \in Seq(X), NEW u, NEW j, NEW c \in Nat,
           PlacedIn(b, d, u, j, c), NEW s, NEW h \in Nat, InRank(b, u, s, h)
    PROVE  InRank(d, u, s, h + c)
<1>1. ASSUME NEW n \in About(d, u)
      PROVE  d[n].k = s[(h + c) + Cardinality(Upto(d, u, n))]
    <2>1. Cardinality(Upto(d, u, n)) \in Nat
        BY UptoFacts
    <2>2. h + Cardinality(Upto(b, u, n + j)) = (h + c) + Cardinality(Upto(d, u, n))
        BY <2>1 DEF PlacedIn
    <2>3. b[n + j].k = s[h + Cardinality(Upto(b, u, n + j))]
        BY DEF PlacedIn, InRank
    <2> QED
        BY <2>2, <2>3 DEF PlacedIn
<1> QED
    BY <1>1 DEF InRank

(* The places of what is taken from a queue and of what is left of it.     *)
LEMMA LeftUpto ==
    ASSUME NEW X, NEW b \in Seq(X), NEW u, NEW j \in 0 .. Len(b)
    PROVE  LET d == SubSeq(b, 1, j)
               t == SubSeq(b, j + 1, Len(b))
           IN  PlacedIn(b, d, u, 0, 0) /\ PlacedIn(b, t, u, j, Cardinality(About(d, u)))
<1>1. PICK d : d = SubSeq(b, 1, j)
    OBVIOUS
<1>2. PICK t : t = SubSeq(b, j + 1, Len(b))
    OBVIOUS
<1>3. d \in Seq(X) /\ DOMAIN d = 1 .. j /\ Len(d) = j /\ \A n \in 1 .. j : d[n] = b[n]
    BY <1>1, TakenFacts
<1>4. /\ t \in Seq(X) /\ DOMAIN t = 1 .. (Len(b) - j) /\ Len(t) = Len(b) - j
      /\ \A n \in 1 .. (Len(b) - j) : t[n] = b[n + j]
    BY <1>2, LeftFacts
<1>5. DOMAIN b = 1 .. Len(b) /\ Len(b) \in Nat /\ j \in Nat /\ j <= Len(b)
    OBVIOUS
<1>6. ASSUME NEW n \in About(d, u)
      PROVE  n \in About(b, u) /\ d[n] = b[n] /\ Upto(d, u, n) = Upto(b, u, n)
    <2>1. n \in 1 .. j /\ n \in 1 .. Len(b) /\ d[n] = b[n]
        BY <1>3, <1>5 DEF About, Among
    <2>2. n \in About(b, u)
        BY <1>5, <2>1 DEF About, Among
    <2>3. \A m : m \in 1 .. Len(b) /\ m <= n <=> m \in 1 .. j /\ m <= n
        BY <1>5, <2>1
    <2>4. \A m : m \in Upto(d, u, n) <=> m \in Upto(b, u, n)
        BY <1>3, <1>5, <2>3 DEF Upto, About, Among
    <2> QED
        BY <2>1, <2>2, <2>4
<1>7. ASSUME NEW n \in About(t, u)
      PROVE  /\ n + j \in About(b, u) /\ t[n] = b[n + j]
             /\ Cardinality(Upto(b, u, n + j))
                    = Cardinality(About(d, u)) + Cardinality(Upto(t, u, n))
    <2>1. n \in 1 .. (Len(b) - j) /\ t[n] = b[n + j]
        BY <1>4 DEF About, Among
    <2>2. n + j \in 1 .. Len(b) /\ n + j \in 0 .. Len(b) /\ n \in 0 .. Len(t)
          /\ j \in 0 .. (n + j) /\ (n + j) - j = n
        BY <1>4, <1>5, <2>1
    <2>3. n + j \in About(b, u)
        BY <1>5, <2>1, <2>2 DEF About, Among
    <2>4. PICK c : c = SubSeq(b, 1, n + j)
        OBVIOUS
    <2>5. c \in Seq(X) /\ Len(c) = n + j /\ \A m \in 1 .. (n + j) : c[m] = b[m]
        BY <2>2, <2>4, TakenFacts
    <2>6. PICK e : e = SubSeq(c, 1, j)
        OBVIOUS
    <2>7. PICK f : f = SubSeq(c, j + 1, Len(c))
        OBVIOUS
    <2>8. PICK g : g = SubSeq(t, 1, n)
        OBVIOUS
    <2>9. e \in Seq(X) /\ Len(e) = j /\ \A m \in 1 .. j : e[m] = c[m]
        BY <2>2, <2>5, <2>6, TakenFacts
    <2>10. f \in Seq(X) /\ Len(f) = n /\ \A m \in 1 .. n : f[m] = c[m + j]
        BY <2>2, <2>5, <2>7, LeftFacts
    <2>11. g \in Seq(X) /\ Len(g) = n /\ \A m \in 1 .. n : g[m] = t[m]
        BY <1>4, <2>2, <2>8, TakenFacts
    <2>12. \A m \in 1 .. j : m \in 1 .. (n + j)
        BY <1>5, <2>1
    <2>13. e = d
        BY <1>3, <2>5, <2>9, <2>12
    <2>14. \A m \in 1 .. n : m + j \in 1 .. (n + j) /\ m \in 1 .. (Len(b) - j)
        BY <1>5, <2>1
    <2>15. \A m \in 1 .. n : f[m] = g[m]
        BY <1>4, <2>5, <2>10, <2>11, <2>14
    <2>16. f = g
        BY <2>10, <2>11, <2>15
    <2>17. Cardinality(Among(c, u, Kinds)) = Cardinality(Among(e, u, Kinds))
                                             + Cardinality(Among(f, u, Kinds))
        BY <2>2, <2>5, <2>6, <2>7, LeftCount
    <2>18. Upto(b, u, n + j) = About(c, u)
        BY <2>2, <2>4, UptoTaken
    <2>19. Upto(t, u, n) = About(g, u)
        BY <1>4, <2>2, <2>8, UptoTaken
    <2> QED
        BY <2>1, <2>3, <2>13, <2>16, <2>17, <2>18, <2>19 DEF About
<1>8. ASSUME NEW n \in About(d, u)
      PROVE  n + 0 = n /\ 0 + Cardinality(Upto(d, u, n)) = Cardinality(Upto(d, u, n))
    BY <1>3, UptoFacts
<1>9. PlacedIn(b, d, u, 0, 0)
    BY <1>6, <1>8 DEF PlacedIn
<1>10. PlacedIn(b, t, u, j, Cardinality(About(d, u)))
    BY <1>7 DEF PlacedIn
<1> QED
    BY <1>1, <1>2, <1>9, <1>10

LEMMA LeftRank ==
    ASSUME NEW X, NEW b \in Seq(X), NEW u, NEW j \in 0 .. Len(b),
           NEW s, NEW h \in Nat, InRank(b, u, s, h)
    PROVE  LET d == SubSeq(b, 1, j)
               t == SubSeq(b, j + 1, Len(b))
           IN  /\ InRank(d, u, s, h)
               /\ InRank(t, u, s, h + Cardinality(About(d, u)))
<1>1. PICK d : d = SubSeq(b, 1, j)
    OBVIOUS
<1>2. PICK t : t = SubSeq(b, j + 1, Len(b))
    OBVIOUS
<1>3. d \in Seq(X) /\ t \in Seq(X)
    BY <1>1, <1>2, TakenFacts, LeftFacts
<1>4. PlacedIn(b, d, u, 0, 0) /\ PlacedIn(b, t, u, j, Cardinality(About(d, u)))
    BY <1>1, <1>2, LeftUpto
<1>8. PICK z \in Nat : z = 0
    OBVIOUS
<1>9. PlacedIn(b, d, u, 0, z)
    BY <1>4, <1>8
<1>10. InRank(d, u, s, h + z)
    BY <1>3, <1>9, PlacedRank
<1>5. InRank(d, u, s, h)
    BY <1>8, <1>10
<1>6. Cardinality(About(d, u)) \in Nat
    BY <1>3, UptoFacts
<1>7. InRank(t, u, s, h + Cardinality(About(d, u)))
    BY <1>3, <1>4, <1>6, PlacedRank
<1> QED
    BY <1>1, <1>2, <1>5, <1>7

(* More of s may become known, and one more message be put on its way.     *)
LEMMA RankGrows ==
    ASSUME NEW X, NEW b \in Seq(X), NEW u, NEW s, NEW r, NEW h \in Nat, NEW n \in Nat,
           InRank(b, u, s, h), h + Cardinality(About(b, u)) <= n,
           \A i \in 1 .. n : r[i] = s[i]
    PROVE  InRank(b, u, r, h)
<1>1. ASSUME NEW m \in About(b, u)
      PROVE  b[m].k = r[h + Cardinality(Upto(b, u, m))]
    <2>1. PICK c : c = Cardinality(Upto(b, u, m))
        OBVIOUS
    <2>2. c \in Nat /\ 1 <= c /\ c <= Cardinality(About(b, u)) /\ Cardinality(About(b, u)) \in Nat
        BY <2>1, UptoFacts
    <2>3. h + c \in 1 .. n
        BY <2>2
    <2>4. b[m].k = s[h + c]
        BY <2>1 DEF InRank
    <2> QED
        BY <2>1, <2>3, <2>4
<1> QED
    BY <1>1 DEF InRank

LEMMA AppendRank ==
    ASSUME NEW X, NEW b \in Seq(X), NEW m \in X, NEW u, NEW s, NEW h \in Nat,
           InRank(b, u, s, h),
           m.id = u /\ m.k \in Kinds => m.k = s[h + Cardinality(About(b, u)) + 1]
    PROVE  InRank(Append(b, m), u, s, h)
<1>1. PICK c : c = Append(b, m)
    OBVIOUS
<1>2. /\ DOMAIN b = 1 .. Len(b) /\ Len(b) \in Nat /\ DOMAIN c = 1 .. (Len(b) + 1)
      /\ c[Len(b) + 1] = m /\ \A i \in 1 .. Len(b) : c[i] = b[i]
    BY <1>1, AppendFacts
<1>3. c \in Seq(X)
    BY <1>1
<1>4. ASSUME NEW n \in About(c, u), n # Len(b) + 1
      PROVE  c[n].k = s[h + Cardinality(Upto(c, u, n))]
    <2>1. n \in 1 .. Len(b) /\ c[n] = b[n] /\ n \in About(b, u)
        BY <1>2, <1>4 DEF About, Among
    <2>2. \A x : x \in 1 .. (Len(b) + 1) /\ x <= n <=> x \in 1 .. Len(b) /\ x <= n
        BY <1>2, <2>1
    <2>3. \A x : x \in Upto(c, u, n) <=> x \in Upto(b, u, n)
        BY <1>2, <2>2 DEF Upto, About, Among
    <2>4. Upto(c, u, n) = Upto(b, u, n)
        BY <2>3
    <2> QED
        BY <2>1, <2>4 DEF InRank
<1>5. ASSUME Len(b) + 1 \in About(c, u)
      PROVE  m.k = s[h + Cardinality(Upto(c, u, Len(b) + 1))]
    <2>1. m.id = u /\ m.k \in Kinds
        BY <1>2, <1>5 DEF About, Among
    <2>2. Cardinality(About(c, u)) = Cardinality(About(b, u)) + 1
        BY <1>1, <2>1, AppendAmong DEF About
    <2>3. \A x \in 1 .. (Len(b) + 1) : x <= Len(b) + 1
        BY <1>2
    <2>4. Upto(c, u, Len(b) + 1) = About(c, u)
        BY <1>2, <2>3 DEF Upto, About, Among
    <2>5. Cardinality(About(b, u)) \in Nat
        BY UptoFacts
    <2>6. h + Cardinality(About(b, u)) + 1 = h + Cardinality(About(c, u))
        BY <2>2, <2>5
    <2> QED
        BY <2>1, <2>4, <2>6
<1>6. InRank(c, u, s, h)
    BY <1>2, <1>4, <1>5 DEF InRank
<1> QED
    BY <1>1, <1>6

(* The messages before a batch and in it are among those of all batches.   *)
LEMMA BeforeFacts ==
    ASSUME NEW o \in Seq(ReplyBatch), NEW u, NEW p \in DOMAIN o
    PROVE  /\ AllBefore(o, u, p) \in Nat /\ Cardinality(About(o[p], u)) \in Nat
           /\ AllBefore(o, u, p) + Cardinality(About(o[p], u)) <= Cardinality(AboutAll(o, u))
<1>1. DOMAIN o = 1 .. Len(o) /\ Len(o) \in Nat /\ p \in Nat /\ p - 1 \in 0 .. Len(o)
    OBVIOUS
<1>2. PICK d : d = SubSeq(o, 1, p - 1)
    OBVIOUS
<1>3. d \in Seq(ReplyBatch) /\ DOMAIN d = 1 .. (p - 1) /\ \A n \in 1 .. (p - 1) : d[n] = o[n]
    BY <1>1, <1>2, TakenFacts
<1>4. PICK A : A = AmongAll(o, u, Kinds)
    OBVIOUS
<1>5. PICK D : D = AmongAll(d, u, Kinds)
    OBVIOUS
<1>6. PICK B : B = Among(o[p], u, Kinds)
    OBVIOUS
<1>7. IsFiniteSet(A) /\ Cardinality(A) \in Nat /\ IsFiniteSet(D) /\ Cardinality(D) \in Nat
    BY <1>3, <1>4, <1>5, AmongAllFinite
<1>8. o[p] \in Seq(Downward)
    BY BatchIsSeq
<1>9. IsFiniteSet(B) /\ Cardinality(B) \in Nat
    BY <1>6, <1>8, AmongFinite
<1>10. IsFiniteSet({p} \X B) /\ Cardinality({p} \X B) = Cardinality(B)
    BY <1>9, RowCount
<1>11. \A x : x \in A <=> \E i \in DOMAIN o : \E n \in Among(o[i], u, Kinds) : x = <<i, n>>
    BY <1>4, AmongAllIs
<1>12. \A x : x \in D <=> \E i \in DOMAIN d : \E n \in Among(d[i], u, Kinds) : x = <<i, n>>
    BY <1>5, AmongAllIs
<1>13. \A i \in 1 .. (p - 1) : i \in DOMAIN o /\ i # p
    BY <1>1
<1>14. D \subseteq A /\ \A x \in D : x \notin {p} \X B
    BY <1>3, <1>11, <1>12, <1>13
<1>15. {p} \X B \subseteq A
    BY <1>6, <1>11
<1>16. D \cap ({p} \X B) = {} /\ D \cup ({p} \X B) \in SUBSET A
    BY <1>14, <1>15
<1>17. Cardinality(D \cup ({p} \X B)) = Cardinality(D) + Cardinality({p} \X B)
    BY <1>7, <1>10, <1>16, DisjointCount
<1>18. Cardinality(D \cup ({p} \X B)) <= Cardinality(A)
    BY <1>7, <1>16, FS_Subset
<1> QED
    BY <1>2, <1>4, <1>5, <1>6, <1>7, <1>9, <1>10, <1>17, <1>18
       DEF AllBefore, About, AboutAll

LEMMA AllRankGrows ==
    ASSUME NEW o \in Seq(ReplyBatch), NEW u, NEW s, NEW r, NEW h \in Nat, NEW n \in Nat,
           AllInRank(o, u, s, h), h + Cardinality(AboutAll(o, u)) <= n,
           \A i \in 1 .. n : r[i] = s[i]
    PROVE  AllInRank(o, u, r, h)
<1>1. ASSUME NEW p \in DOMAIN o
      PROVE  InRank(o[p], u, r, h + AllBefore(o, u, p))
    <2>1. /\ AllBefore(o, u, p) \in Nat /\ Cardinality(About(o[p], u)) \in Nat
          /\ AllBefore(o, u, p) + Cardinality(About(o[p], u)) <= Cardinality(AboutAll(o, u))
        BY BeforeFacts
    <2>2. Cardinality(AboutAll(o, u)) \in Nat
        BY AmongAllFinite DEF AboutAll
    <2>3. PICK g \in Nat : g = h + AllBefore(o, u, p)
        BY <2>1
    <2>4. g + Cardinality(About(o[p], u)) <= n
        BY <2>1, <2>2, <2>3
    <2>5. o[p] \in Seq(Downward)
        BY BatchIsSeq
    <2>6. InRank(o[p], u, s, g)
        BY <2>3 DEF AllInRank
    <2>7. InRank(o[p], u, r, g)
        BY <2>4, <2>5, <2>6, RankGrows
    <2> QED
        BY <2>3, <2>7
<1> QED
    BY <1>1 DEF AllInRank

LEMMA SameBefore ==
    ASSUME NEW w \in Seq(ReplyBatch), NEW o \in Seq(ReplyBatch), Len(o) <= Len(w),
           \A p \in 1 .. Len(o) : w[p] = o[p],
           NEW u, NEW p \in 1 .. (Len(o) + 1), p - 1 <= Len(w)
    PROVE  AllBefore(w, u, p) = AllBefore(o, u, p)
<1>1. Len(o) \in Nat /\ Len(w) \in Nat /\ p - 1 \in 0 .. Len(o) /\ p - 1 \in 0 .. Len(w)
    OBVIOUS
<1>2. PICK d : d = SubSeq(o, 1, p - 1)
    OBVIOUS
<1>3. PICK e : e = SubSeq(w, 1, p - 1)
    OBVIOUS
<1>4. d \in Seq(ReplyBatch) /\ Len(d) = p - 1 /\ \A n \in 1 .. (p - 1) : d[n] = o[n]
    BY <1>1, <1>2, TakenFacts
<1>5. e \in Seq(ReplyBatch) /\ Len(e) = p - 1 /\ \A n \in 1 .. (p - 1) : e[n] = w[n]
    BY <1>1, <1>3, TakenFacts
<1>6. \A n \in 1 .. (p - 1) : n \in 1 .. Len(o)
    BY <1>1
<1>7. \A n \in 1 .. (p - 1) : d[n] = e[n]
    BY <1>4, <1>5, <1>6
<1>8. d = e
    BY <1>4, <1>5, <1>7
<1> QED
    BY <1>2, <1>3, <1>8 DEF AllBefore

(* Batches put behind those of o keep the places of o.                     *)
LEMMA BehindRank ==
    ASSUME NEW w \in Seq(ReplyBatch), NEW o \in Seq(ReplyBatch), Len(o) <= Len(w),
           \A p \in 1 .. Len(o) : w[p] = o[p],
           NEW u, NEW s, NEW h, AllInRank(o, u, s, h),
           \A p \in DOMAIN w : p \notin DOMAIN o => InRank(w[p], u, s, h + AllBefore(w, u, p))
    PROVE  AllInRank(w, u, s, h)
<1>1. /\ DOMAIN o = 1 .. Len(o) /\ DOMAIN w = 1 .. Len(w)
      /\ Len(o) \in Nat /\ Len(w) \in Nat
    OBVIOUS
<1>2. ASSUME NEW p \in DOMAIN o PROVE InRank(w[p], u, s, h + AllBefore(w, u, p))
    <2>1. p \in 1 .. (Len(o) + 1) /\ p - 1 <= Len(w) /\ w[p] = o[p]
        BY <1>1
    <2>2. AllBefore(w, u, p) = AllBefore(o, u, p)
        BY <2>1, SameBefore
    <2> QED
        BY <2>1, <2>2 DEF AllInRank
<1> QED
    BY <1>2 DEF AllInRank

LEMMA AddedRank ==
    ASSUME NEW o \in Seq(ReplyBatch), NEW b \in Seq(UserReply), NEW u, NEW s, NEW h,
           AllInRank(o, u, s, h), InRank(b, u, s, h + Cardinality(AboutAll(o, u)))
    PROVE  AllInRank(Added(o, b), u, s, h)
<1>1. CASE b = << >>
    BY <1>1 DEF Added
<1>2. CASE b # << >>
    <2>1. PICK w : w = Append(o, b)
        OBVIOUS
    <2>2. b \in ReplyBatch
        BY <1>2 DEF ReplyBatch
    <2>3. /\ w \in Seq(ReplyBatch) /\ Len(o) \in Nat /\ Len(w) = Len(o) + 1
          /\ w[Len(o) + 1] = b /\ \A p \in 1 .. Len(o) : w[p] = o[p]
          /\ DOMAIN w = 1 .. (Len(o) + 1) /\ DOMAIN o = 1 .. Len(o)
        BY <2>1, <2>2, AppendFacts
    <2>4. PICK q : q = Len(o) + 1
        OBVIOUS
    <2>5. q \in 1 .. (Len(o) + 1) /\ q - 1 <= Len(w) /\ Len(o) <= Len(w) /\ q - 1 = Len(o)
        BY <2>3, <2>4
    <2>6. AllBefore(w, u, q) = AllBefore(o, u, q)
        BY <2>3, <2>5, SameBefore
    <2>7. SubSeq(o, 1, Len(o)) = o
        OBVIOUS
    <2>8. AllBefore(o, u, q) = Cardinality(AboutAll(o, u))
        BY <2>5, <2>7 DEF AllBefore
    <2>9. \A p \in DOMAIN w : p \notin DOMAIN o => p = q
        BY <2>3, <2>4
    <2>10. InRank(w[q], u, s, h + AllBefore(w, u, q))
        BY <2>3, <2>4, <2>6, <2>8
    <2>11. AllInRank(w, u, s, h)
        BY <2>3, <2>5, <2>9, <2>10, BehindRank
    <2> QED
        BY <1>2, <2>1, <2>11 DEF Added
<1> QED
    BY <1>1, <1>2

LEMMA HeadRank ==
    ASSUME NEW o \in Seq(ReplyBatch), o # << >>, NEW u, NEW s, NEW h \in Nat,
           AllInRank(o, u, s, h)
    PROVE  /\ InRank(o[1], u, s, h)
           /\ AllInRank(Tail(o), u, s, h + Cardinality(About(o[1], u)))
<1>1. /\ DOMAIN o = 1 .. Len(o) /\ Len(o) \in Nat /\ 1 <= Len(o) /\ 1 \in DOMAIN o
      /\ Tail(o) \in Seq(ReplyBatch) /\ Len(Tail(o)) = Len(o) - 1
      /\ DOMAIN Tail(o) = 1 .. (Len(o) - 1)
      /\ \A n \in 1 .. (Len(o) - 1) : Tail(o)[n] = o[n + 1]
    OBVIOUS
<1>2. PICK t : t = Tail(o)
    OBVIOUS
<1>3. InRank(o[1], u, s, h)
    <2>1. SubSeq(o, 1, 1 - 1) = << >>
        OBVIOUS
    <2>2. AllBefore(o, u, 1) = Cardinality(AboutAll(<< >>, u))
        BY <2>1 DEF AllBefore
    <2>3. AboutAll(<< >>, u) = {}
        BY DEF AboutAll, AmongAll
    <2>4. AllBefore(o, u, 1) = 0
        BY <2>2, <2>3, FS_EmptySet
    <2>5. h + AllBefore(o, u, 1) = h
        BY <2>4
    <2> QED
        BY <1>1, <2>5 DEF AllInRank
<1>4. ASSUME NEW p \in DOMAIN t
      PROVE  InRank(t[p], u, s, (h + Cardinality(About(o[1], u))) + AllBefore(t, u, p))
    <2>1. /\ p \in Nat /\ p \in 0 .. Len(o) /\ p - 1 \in 0 .. Len(t) /\ p + 1 \in DOMAIN o
          /\ t[p] = o[p + 1] /\ (p + 1) - 1 = p /\ 1 <= p /\ Len(t) \in Nat
        BY <1>1, <1>2
    <2>2. PICK c : c = SubSeq(o, 1, p)
        OBVIOUS
    <2>3. PICK e : e = SubSeq(t, 1, p - 1)
        OBVIOUS
    <2>4. c \in Seq(ReplyBatch) /\ Len(c) = p /\ \A n \in 1 .. p : c[n] = o[n]
        BY <2>1, <2>2, TakenFacts
    <2>5. e \in Seq(ReplyBatch) /\ Len(e) = p - 1 /\ \A n \in 1 .. (p - 1) : e[n] = t[n]
        BY <1>1, <1>2, <2>1, <2>3, TakenFacts
    <2>6. c # << >> /\ c[1] = o[1] /\ Tail(c) \in Seq(ReplyBatch) /\ Len(Tail(c)) = p - 1
          /\ \A n \in 1 .. (p - 1) : Tail(c)[n] = c[n + 1]
        BY <2>1, <2>4
    <2>7. \A n \in 1 .. (p - 1) : n + 1 \in 1 .. p /\ n \in 1 .. (Len(o) - 1)
        BY <1>1, <2>1
    <2>8. \A n \in 1 .. (p - 1) : Tail(c)[n] = e[n]
        BY <1>1, <1>2, <2>4, <2>5, <2>6, <2>7
    <2>9. Tail(c) = e
        BY <2>5, <2>6, <2>8
    <2>10. Cardinality(AmongAll(c, u, Kinds))
               = Cardinality(Among(c[1], u, Kinds)) + Cardinality(AmongAll(Tail(c), u, Kinds))
        BY <2>4, <2>6, HeadAll
    <2>11. AllBefore(o, u, p + 1) = Cardinality(About(o[1], u)) + AllBefore(t, u, p)
        BY <2>1, <2>2, <2>3, <2>6, <2>9, <2>10 DEF AllBefore, AboutAll, About
    <2>12. AllBefore(t, u, p) \in Nat
        BY <1>1, <1>2, BeforeFacts
    <2>13. o[1] \in Seq(Downward)
        BY <1>1, BatchIsSeq
    <2>14. Cardinality(About(o[1], u)) \in Nat
        BY <2>13, UptoFacts
    <2>15. h + AllBefore(o, u, p + 1)
               = (h + Cardinality(About(o[1], u))) + AllBefore(t, u, p)
        BY <2>11, <2>12, <2>14
    <2>16. InRank(o[p + 1], u, s, h + AllBefore(o, u, p + 1))
        BY <2>1 DEF AllInRank
    <2> QED
        BY <2>1, <2>15, <2>16
<1>5. AllInRank(t, u, s, h + Cardinality(About(o[1], u)))
    BY <1>4 DEF AllInRank
<1> QED
    BY <1>2, <1>3, <1>5

(* The rebuild replies of a pass are not about a request.                  *)
LEMMA ResultsRank ==
    ASSUME out \in Seq(ReplyBatch), NEW d \in Seq(Downward), NEW u \in Uids,
           NEW s, NEW h, AllInRank(out, u, s, h)
    PROVE  /\ AllInRank(WithResults(d), u, s, h)
           /\ AboutAll(WithResults(d), u) = AboutAll(out, u)
<1>1. PICK w : w = WithResults(d)
    OBVIOUS
<1>2. /\ w \in Seq(ReplyBatch) /\ Len(out) \in Nat /\ DOMAIN out = 1 .. Len(out)
      /\ Len(w) \in Nat /\ DOMAIN w = 1 .. Len(w) /\ Len(w) >= Len(out)
      /\ \A p \in DOMAIN out : w[p] = out[p]
      /\ \A p \in DOMAIN w : p \notin DOMAIN out =>
             \A n \in DOMAIN w[p] : w[p][n].id \in Rebuilds
    BY <1>1, ResultsFacts
<1>3. u \notin Rebuilds
    BY IdsAssumption
<1>4. ASSUME NEW p \in DOMAIN w, p \notin DOMAIN out PROVE About(w[p], u) = {}
    BY <1>2, <1>3, <1>4 DEF About, Among
<1>5. \A p \in DOMAIN w : p \notin DOMAIN out => InRank(w[p], u, s, h + AllBefore(w, u, p))
    BY <1>4 DEF InRank
<1>6. Len(out) <= Len(w) /\ \A p \in 1 .. Len(out) : w[p] = out[p]
    BY <1>2
<1>7. AllInRank(w, u, s, h)
    BY ONLY <1>2, <1>5, <1>6, AllInRank(out, u, s, h), out \in Seq(ReplyBatch), BehindRank
<1>8. \A x : x \in AmongAll(w, u, Kinds) <=> \E i \in DOMAIN w : \E n \in Among(w[i], u, Kinds) : x = <<i, n>>
    BY AmongAllIs
<1>9. \A x : x \in AmongAll(out, u, Kinds) <=> \E i \in DOMAIN out : \E n \in Among(out[i], u, Kinds) : x = <<i, n>>
    BY AmongAllIs
<1>10. \A i \in DOMAIN out : i \in DOMAIN w
    BY <1>2
<1>11. \A i \in DOMAIN w : Among(w[i], u, Kinds) # {} => i \in DOMAIN out
    BY <1>4 DEF About
<1>12. \A x : x \in AmongAll(w, u, Kinds) <=> x \in AmongAll(out, u, Kinds)
    BY <1>2, <1>8, <1>9, <1>10, <1>11
<1> QED
    BY <1>1, <1>7, <1>12 DEF AboutAll

(* The place of a picked message among the picked ones.                    *)
Earlier(d, u, K, i) == {m \in Among(d, u, K) : m <= i}

PickedAt(t, d, u, K, at) ==
    \A n \in About(t, u) :
        /\ at[n] \in Among(d, u, K) /\ t[n] = d[at[n]]
        /\ Cardinality(Upto(t, u, n)) = Cardinality(Earlier(d, u, K, at[n]))

LEMMA PickedUpto ==
    ASSUME NEW X, NEW d \in Seq(X), NEW u, NEW K \in SUBSET Kinds
    PROVE  OfKind(d, K) \in Seq(X) /\ \E at : PickedAt(OfKind(d, K), d, u, K, at)
<1>1. PICK P : P = {i \in DOMAIN d : d[i].k \in K}
    OBVIOUS
<1>2. PICK t : t = Subsequence(d, P)
    OBVIOUS
<1>3. P \in SUBSET DOMAIN d
    BY <1>1
<1>4. t \in Seq(X) /\ \E at : Selects(t, d, P, at) /\ Counts(t, P, at)
    BY <1>2, <1>3, SubsequenceCounts
<1>5. PICK at : Selects(t, d, P, at) /\ Counts(t, P, at)
    BY <1>4
<1>6. DOMAIN t = 1 .. Len(t)
    BY <1>4
<1>7. ASSUME NEW n \in About(t, u)
      PROVE  /\ at[n] \in Among(d, u, K) /\ t[n] = d[at[n]]
             /\ Cardinality(Upto(t, u, n)) = Cardinality(Earlier(d, u, K, at[n]))
    <2>1. n \in 1 .. Len(t) /\ t[n].id = u /\ t[n].k \in Kinds
        BY <1>6 DEF About, Among
    <2>2. at[n] \in P /\ t[n] = d[at[n]]
        BY <1>5, <2>1 DEF Selects
    <2>3. at[n] \in Among(d, u, K)
        BY <1>1, <2>1, <2>2 DEF Among
    <2>4. PICK S : S = Upto(t, u, n)
        OBVIOUS
    <2>5. PICK T : T = Earlier(d, u, K, at[n])
        OBVIOUS
    <2>6. S \in SUBSET DOMAIN t /\ T \in SUBSET P
        BY <1>1, <2>4, <2>5 DEF Upto, Earlier, About, Among
    <2>7. ASSUME NEW m \in S PROVE at[m] \in T
        <3>1. m \in 1 .. Len(t) /\ t[m].id = u /\ m <= n
            BY <1>6, <2>4 DEF Upto, About, Among
        <3>2. at[m] \in P /\ t[m] = d[at[m]] /\ at[m] <= at[n]
            BY <1>5, <2>1, <3>1 DEF Selects, Counts
        <3> QED
            BY <1>1, <2>5, <3>1, <3>2 DEF Earlier, Among
    <2>8. ASSUME NEW i \in T PROVE \E m \in S : at[m] = i
        <3>1. i \in P /\ d[i].id = u /\ d[i].k \in K /\ i <= at[n]
            BY <1>1, <2>5 DEF Earlier, Among
        <3>2. PICK m \in 1 .. Len(t) : at[m] = i
            BY <1>5, <3>1 DEF Selects
        <3>3. t[m] = d[i] /\ m <= n
            BY <1>5, <2>1, <3>1, <3>2 DEF Selects, Counts
        <3>4. m \in S
            BY <1>6, <2>4, <3>1, <3>2, <3>3 DEF Upto, About, Among
        <3> QED
            BY <3>2, <3>4
    <2>9. Names(at, S, T)
        BY <2>7, <2>8 DEF Names
    <2>10. Selects(t, d, P, at)
        BY <1>5
    <2>11. Cardinality(S) = Cardinality(T)
        BY <1>3, <1>4, <2>6, <2>9, <2>10, PickedCount
    <2> QED
        BY <2>2, <2>3, <2>4, <2>5, <2>11
<1>8. PickedAt(t, d, u, K, at)
    BY <1>7 DEF PickedAt
<1>9. t = OfKind(d, K)
    BY <1>1, <1>2 DEF OfKind
<1> QED
    BY <1>4, <1>8, <1>9

(* What comes before a picked message: all of some kinds and the picked.   *)
Between(d, u, L, K) ==
    \A n \in Among(d, u, K) : \A m \in About(d, u) :
        m <= n <=> m \in Among(d, u, L) \/ m \in Earlier(d, u, K, n)

LEMMA PickedRank ==
    ASSUME NEW X, NEW d \in Seq(X), NEW u, NEW K \in SUBSET Kinds, NEW L \in SUBSET Kinds,
           K \cap L = {}, Between(d, u, L, K), NEW s, NEW h \in Nat, InRank(d, u, s, h)
    PROVE  InRank(OfKind(d, K), u, s, h + Cardinality(Among(d, u, L)))
<1>1. PICK t : t = OfKind(d, K)
    OBVIOUS
<1>2. t \in Seq(X) /\ \E at : PickedAt(t, d, u, K, at)
    BY <1>1, PickedUpto
<1>3. PICK at : PickedAt(t, d, u, K, at)
    BY <1>2
<1>4. PICK A : A = Among(d, u, L)
    OBVIOUS
<1>5. IsFiniteSet(A) /\ Cardinality(A) \in Nat /\ A \subseteq About(d, u)
    BY <1>4, AmongFinite DEF About, Among
<1>6. ASSUME NEW n \in About(t, u)
      PROVE  t[n].k = s[(h + Cardinality(A)) + Cardinality(Upto(t, u, n))]
    <2>1. PICK i : i = at[n]
        OBVIOUS
    <2>2. PICK E : E = Earlier(d, u, K, i)
        OBVIOUS
    <2>3. i \in Among(d, u, K) /\ t[n] = d[i] /\ Cardinality(Upto(t, u, n)) = Cardinality(E)
        BY <1>3, <2>1, <2>2 DEF PickedAt
    <2>4. i \in About(d, u) /\ E \subseteq Among(d, u, K) /\ Among(d, u, K) \subseteq About(d, u)
        BY <2>2, <2>3 DEF About, Among, Earlier
    <2>5. A \cap E = {}
        BY <1>4, <2>4 DEF Among
    <2>6. IsFiniteSet(E)
        <3>1. IsFiniteSet(Among(d, u, K))
            BY AmongFinite
        <3> QED
            BY <2>4, <3>1, FS_Subset
    <2>7. \A m : m \in Upto(d, u, i) <=> m \in A \cup E
        BY <1>4, <1>5, <2>2, <2>3, <2>4 DEF Upto, Between
    <2>8. Upto(d, u, i) = A \cup E
        BY <2>7
    <2>9. Cardinality(Upto(d, u, i)) = Cardinality(A) + Cardinality(E)
        BY <1>5, <2>5, <2>6, <2>8, DisjointCount
    <2>10. Cardinality(E) \in Nat
        BY <2>6, FS_CardinalityType
    <2>11. h + Cardinality(Upto(d, u, i)) = (h + Cardinality(A)) + Cardinality(Upto(t, u, n))
        BY <1>5, <2>3, <2>9, <2>10
    <2>12. d[i].k = s[h + Cardinality(Upto(d, u, i))]
        BY <2>4 DEF InRank
    <2> QED
        BY <2>3, <2>11, <2>12
<1>7. InRank(t, u, s, h + Cardinality(A))
    BY <1>6 DEF InRank
<1> QED
    BY <1>1, <1>4, <1>7

(* The messages of a queue come in the order a pass puts them out.         *)
ClassOrder(d, u) ==
    \A m, n \in About(d, u) :
        m < n => d[n].k # "admit" /\ (d[m].k \in Errors => d[n].k \in Errors)

LEMMA RanksOrderly ==
    ASSUME NEW X, NEW d \in Seq(X), NEW u, NEW s \in Seq(Kinds), NEW h \in Nat,
           InRank(d, u, s, h), h + Cardinality(About(d, u)) <= Len(s), Orderly(s)
    PROVE  ClassOrder(d, u)
<1>1. ASSUME NEW m \in About(d, u), NEW n \in About(d, u), m < n
      PROVE  d[n].k # "admit" /\ (d[m].k \in Errors => d[n].k \in Errors)
    <2>1. PICK a : a = Cardinality(Upto(d, u, m))
        OBVIOUS
    <2>2. PICK c : c = Cardinality(Upto(d, u, n))
        OBVIOUS
    <2>3. /\ a \in Nat /\ c \in Nat /\ 1 <= a /\ a < c /\ c <= Cardinality(About(d, u))
          /\ Cardinality(About(d, u)) \in Nat
        BY <1>1, <2>1, <2>2, UptoFacts
    <2>4. DOMAIN s = 1 .. Len(s) /\ Len(s) \in Nat
        OBVIOUS
    <2>5. h + a \in DOMAIN s /\ h + c \in DOMAIN s /\ h + a < h + c
        BY <2>3, <2>4
    <2>6. d[m].k = s[h + a] /\ d[n].k = s[h + c]
        BY <2>1, <2>2 DEF InRank
    <2> QED
        BY <2>5, <2>6 DEF Orderly
<1> QED
    BY <1>1 DEF ClassOrder

LEMMA ClassesBetween ==
    ASSUME NEW X, NEW d \in Seq(X), NEW u, ClassOrder(d, u)
    PROVE  /\ Between(d, u, {}, {"admit"}) /\ Between(d, u, {"admit"}, Sampled)
           /\ Between(d, u, {"admit"} \cup Sampled, Errors)
<1>1. \A n \in About(d, u) : n \in Nat /\ n \in DOMAIN d /\ d[n].id = u /\ d[n].k \in Kinds
    BY UptoFacts
<1>2. /\ Kinds = {"admit"} \cup Sampled \cup Errors /\ Sampled \cap Errors = {}
      /\ "admit" \notin Sampled /\ "admit" \notin Errors
    BY DEF Kinds, Sampled, Errors, Final
<1>3. \A K \in SUBSET Kinds : Among(d, u, K) \subseteq About(d, u)
    BY DEF About, Among
<1>4. \A K : \A n \in About(d, u) : n \in Among(d, u, K) <=> d[n].k \in K
    BY DEF About, Among
<1>5. Among(d, u, {}) = {}
    BY DEF Among
<1>6. \A K : \A n, m : m \in Earlier(d, u, K, n) <=> m \in Among(d, u, K) /\ m <= n
    BY DEF Earlier
<1>7. \A m, n \in About(d, u) : m <= n <=> ~(n < m)
    BY <1>1
<1>8. \A m, n \in About(d, u) : m <= n <=> m < n \/ m = n
    BY <1>1
<1>9. ASSUME NEW n \in Among(d, u, {"admit"}), NEW m \in About(d, u)
      PROVE  m <= n <=> m \in Among(d, u, {}) \/ m \in Earlier(d, u, {"admit"}, n)
    <2>1. n \in About(d, u) /\ d[n].k = "admit"
        BY <1>2, <1>3, <1>4
    <2>2. m <= n => m = n
        BY <1>8, <2>1 DEF ClassOrder
    <2> QED
        BY <1>5, <1>6, <2>2
<1>10. ASSUME NEW n \in Among(d, u, Sampled), NEW m \in About(d, u)
       PROVE  m <= n <=> m \in Among(d, u, {"admit"}) \/ m \in Earlier(d, u, Sampled, n)
    <2>1. n \in About(d, u) /\ d[n].k \in Sampled /\ d[n].k \notin Errors
        BY <1>2, <1>3, <1>4
    <2>2. m <= n => d[m].k \notin Errors
        BY <1>8, <2>1 DEF ClassOrder
    <2>3. m <= n => m \in Among(d, u, {"admit"}) \/ m \in Among(d, u, Sampled)
        BY <1>1, <1>2, <1>4, <2>2
    <2>4. m \in Among(d, u, {"admit"}) => m <= n
        BY <1>4, <1>7, <2>1 DEF ClassOrder
    <2> QED
        BY <1>6, <2>3, <2>4
<1>11. ASSUME NEW n \in Among(d, u, Errors), NEW m \in About(d, u)
       PROVE  m <= n <=> \/ m \in Among(d, u, {"admit"} \cup Sampled)
                         \/ m \in Earlier(d, u, Errors, n)
    <2>1. n \in About(d, u) /\ d[n].k \in Errors
        BY <1>2, <1>3, <1>4
    <2>2. m \in Among(d, u, {"admit"} \cup Sampled) \/ m \in Among(d, u, Errors)
        BY <1>1, <1>2, <1>4
    <2>3. m \in Among(d, u, {"admit"} \cup Sampled) => d[m].k \notin Errors
        BY <1>2, <1>4
    <2>4. m \in Among(d, u, {"admit"} \cup Sampled) => m <= n
        BY <1>7, <2>1, <2>3 DEF ClassOrder
    <2> QED
        BY <1>6, <2>2, <2>4
<1> QED
    BY <1>9, <1>10, <1>11 DEF Between

LEMMA ClassCounts ==
    ASSUME NEW X, NEW d \in Seq(X), NEW u
    PROVE  LET a == Cardinality(About(OfKind(d, {"admit"}), u))
               b == Cardinality(About(OfKind(d, Sampled), u))
               c == Cardinality(About(OfKind(d, Errors), u))
           IN  /\ a \in Nat /\ b \in Nat /\ c \in Nat
               /\ Cardinality(Among(d, u, {})) = 0
               /\ Cardinality(Among(d, u, {"admit"})) = a
               /\ Cardinality(Among(d, u, {"admit"} \cup Sampled)) = a + b
               /\ Cardinality(About(d, u)) = a + b + c
<1>1. \A K \in SUBSET Kinds : K \cap Kinds = K
    OBVIOUS
<1>2. /\ Kinds = {"admit"} \cup Sampled \cup Errors /\ Sampled \cap Errors = {}
      /\ "admit" \notin Sampled /\ "admit" \notin Errors
    BY DEF Kinds, Sampled, Errors, Final
<1>3. PICK A : A = Among(d, u, {"admit"})
    OBVIOUS
<1>4. PICK B : B = Among(d, u, Sampled)
    OBVIOUS
<1>5. PICK C : C = Among(d, u, Errors)
    OBVIOUS
<1>6. /\ IsFiniteSet(A) /\ IsFiniteSet(B) /\ IsFiniteSet(C)
      /\ Cardinality(A) \in Nat /\ Cardinality(B) \in Nat /\ Cardinality(C) \in Nat
    BY <1>3, <1>4, <1>5, AmongFinite
<1>7. /\ A \cap B = {} /\ (A \cup B) \cap C = {}
      /\ Among(d, u, {"admit"} \cup Sampled) = A \cup B
      /\ About(d, u) = (A \cup B) \cup C
    BY <1>2, <1>3, <1>4, <1>5 DEF About, Among
<1>8. IsFiniteSet(A \cup B) /\ Cardinality(A \cup B) = Cardinality(A) + Cardinality(B)
    BY <1>6, <1>7, DisjointCount, FS_Union
<1>9. Cardinality((A \cup B) \cup C) = Cardinality(A \cup B) + Cardinality(C)
    BY <1>6, <1>7, <1>8, DisjointCount
<1>10. Cardinality(Among(OfKind(d, {"admit"}), u, Kinds)) = Cardinality(Among(d, u, {"admit"} \cap Kinds))
    BY KindCount
<1>11. Cardinality(Among(OfKind(d, Sampled), u, Kinds)) = Cardinality(Among(d, u, Sampled \cap Kinds))
    BY KindCount
<1>12. Cardinality(Among(OfKind(d, Errors), u, Kinds)) = Cardinality(Among(d, u, Errors \cap Kinds))
    BY KindCount
<1>13. {"admit"} \cap Kinds = {"admit"} /\ Sampled \cap Kinds = Sampled /\ Errors \cap Kinds = Errors
    BY <1>2
<1>14. Among(d, u, {}) = {}
    BY DEF Among
<1>15. /\ Cardinality(About(OfKind(d, {"admit"}), u)) = Cardinality(A)
       /\ Cardinality(About(OfKind(d, Sampled), u)) = Cardinality(B)
       /\ Cardinality(About(OfKind(d, Errors), u)) = Cardinality(C)
    BY <1>3, <1>4, <1>5, <1>10, <1>11, <1>12, <1>13 DEF About
<1> QED
    BY <1>3, <1>6, <1>7, <1>8, <1>9, <1>14, <1>15, FS_EmptySet

(* What a pass puts out about a request stays in the order it was sent.    *)
LEMMA PassRank ==
    ASSUME out \in Seq(ReplyBatch), NEW d \in Seq(Downward), NEW u \in Uids,
           NEW s \in Seq(Kinds), NEW h \in Nat, AllInRank(out, u, s, h), Orderly(s),
           InRank(d, u, s, h + Cardinality(AboutAll(out, u))),
           h + Cardinality(AboutAll(out, u)) + Cardinality(About(d, u)) <= Len(s)
    PROVE  /\ WithErrors(d) \in Seq(ReplyBatch) /\ AllInRank(WithErrors(d), u, s, h)
           /\ Cardinality(AboutAll(WithErrors(d), u))
                  = Cardinality(AboutAll(out, u)) + Cardinality(About(d, u))
<1>1. PICK o : o = Cardinality(AboutAll(out, u))
    OBVIOUS
<1>2. o \in Nat
    BY <1>1, AmongAllFinite DEF AboutAll
<1>3. PICK A : A = OfKind(d, {"admit"})
    OBVIOUS
<1>4. PICK B : B = OfKind(d, Sampled)
    OBVIOUS
<1>5. PICK C : C = OfKind(d, Errors)
    OBVIOUS
<1>6. PICK a : a = Cardinality(About(A, u))
    OBVIOUS
<1>7. PICK b : b = Cardinality(About(B, u))
    OBVIOUS
<1>8. PICK c : c = Cardinality(About(C, u))
    OBVIOUS
<1>9. /\ a \in Nat /\ b \in Nat /\ c \in Nat
      /\ Cardinality(Among(d, u, {})) = 0
      /\ Cardinality(Among(d, u, {"admit"})) = a
      /\ Cardinality(Among(d, u, {"admit"} \cup Sampled)) = a + b
      /\ Cardinality(About(d, u)) = a + b + c
    BY <1>3, <1>4, <1>5, <1>6, <1>7, <1>8, ClassCounts
<1>10. PICK g \in Nat : g = h + o
    BY <1>2
<1>11. InRank(d, u, s, g) /\ g + Cardinality(About(d, u)) <= Len(s)
    BY <1>1, <1>10
<1>12. ClassOrder(d, u)
    BY <1>11, RanksOrderly
<1>13. /\ Between(d, u, {}, {"admit"}) /\ Between(d, u, {"admit"}, Sampled)
       /\ Between(d, u, {"admit"} \cup Sampled, Errors)
    BY <1>12, ClassesBetween
<1>14. /\ {"admit"} \in SUBSET Kinds /\ Sampled \in SUBSET Kinds /\ Errors \in SUBSET Kinds
       /\ {} \in SUBSET Kinds /\ ({"admit"} \cup Sampled) \in SUBSET Kinds
       /\ {"admit"} \cap {} = {} /\ Sampled \cap {"admit"} = {}
       /\ Errors \cap ({"admit"} \cup Sampled) = {}
    BY DEF Kinds, Sampled, Errors, Final
<1>15. InRank(A, u, s, g + Cardinality(Among(d, u, {})))
    BY <1>3, <1>11, <1>13, <1>14, PickedRank
<1>16. InRank(B, u, s, g + Cardinality(Among(d, u, {"admit"})))
    BY <1>4, <1>11, <1>13, <1>14, PickedRank
<1>17. InRank(C, u, s, g + Cardinality(Among(d, u, {"admit"} \cup Sampled)))
    BY <1>5, <1>11, <1>13, <1>14, PickedRank
<1>18. A \in Seq(UserReply) /\ B \in Seq(UserReply) /\ C \in Seq(UserReply)
    BY <1>3, <1>4, <1>5, <1>14, UserReplies
<1>19. PICK w : w = WithResults(d)
    OBVIOUS
<1>20. w \in Seq(ReplyBatch) /\ AllInRank(w, u, s, h) /\ AboutAll(w, u) = AboutAll(out, u)
    BY <1>19, ResultsRank, ResultsFacts
<1>21. PICK x : x = WithAdmitted(d)
    OBVIOUS
<1>22. PICK y : y = WithSampled(d)
    OBVIOUS
<1>23. PICK z : z = WithErrors(d)
    OBVIOUS
<1>24. x = Added(w, A) /\ y = Added(x, B) /\ z = Added(y, C)
    BY <1>3, <1>4, <1>5, <1>19, <1>21, <1>22, <1>23 DEF WithAdmitted, WithSampled, WithErrors
<1>25. Cardinality(AboutAll(w, u)) = o /\ h + o = g + Cardinality(Among(d, u, {}))
    BY <1>1, <1>9, <1>10, <1>20
<1>26. InRank(A, u, s, h + Cardinality(AboutAll(w, u)))
    BY <1>15, <1>25
<1>27. AllInRank(x, u, s, h)
    BY <1>18, <1>20, <1>24, <1>26, AddedRank
<1>28. x \in Seq(ReplyBatch) /\ y \in Seq(ReplyBatch) /\ z \in Seq(ReplyBatch)
    <2>1. \A q \in Seq(UserReply) : q \in ReplyBatch \cup {<< >>}
        BY DEF ReplyBatch
    <2>2. x \in Seq(ReplyBatch)
        BY <1>18, <1>20, <1>24, <2>1, BatchAdded
    <2>3. y \in Seq(ReplyBatch)
        BY <1>18, <1>24, <2>1, <2>2, BatchAdded
    <2>4. z \in Seq(ReplyBatch)
        BY <1>18, <1>24, <2>1, <2>3, BatchAdded
    <2> QED
        BY <2>2, <2>3, <2>4
<1>29. Cardinality(AboutAll(x, u)) = o + a
    BY <1>6, <1>18, <1>20, <1>24, <1>25, AddedAll DEF AboutAll, About
<1>30. h + Cardinality(AboutAll(x, u)) = g + Cardinality(Among(d, u, {"admit"}))
    BY <1>2, <1>9, <1>10, <1>29
<1>31. InRank(B, u, s, h + Cardinality(AboutAll(x, u)))
    BY <1>16, <1>30
<1>32. AllInRank(y, u, s, h)
    BY <1>18, <1>24, <1>27, <1>28, <1>31, AddedRank
<1>33. Cardinality(AboutAll(y, u)) = o + a + b
    <2>1. Cardinality(AboutAll(y, u)) = Cardinality(AboutAll(x, u)) + b
        BY <1>7, <1>18, <1>24, <1>28, AddedAll DEF AboutAll, About
    <2> QED
        BY <1>2, <1>9, <1>29, <2>1
<1>34. h + Cardinality(AboutAll(y, u)) = g + Cardinality(Among(d, u, {"admit"} \cup Sampled))
    BY <1>2, <1>9, <1>10, <1>33
<1>35. InRank(C, u, s, h + Cardinality(AboutAll(y, u)))
    BY <1>17, <1>34
<1>36. AllInRank(z, u, s, h)
    BY <1>18, <1>24, <1>28, <1>32, <1>35, AddedRank
<1>37. Cardinality(AboutAll(z, u)) = o + (a + b + c)
    <2>1. Cardinality(AboutAll(z, u)) = Cardinality(AboutAll(y, u)) + c
        BY <1>8, <1>18, <1>24, <1>28, AddedAll DEF AboutAll, About
    <2> QED
        BY <1>2, <1>9, <1>33, <2>1
<1> QED
    BY <1>1, <1>9, <1>23, <1>28, <1>36, <1>37

(* The errors for the requests that cannot be encoded.                     *)
LEMMA RefusedAbout ==
    ASSUME NEW bad \in SUBSET Uids, IsFiniteSet(bad), NEW u
    PROVE  LET R == Reply("error", bad)
           IN  /\ R \in Seq(UserReply) /\ \A n \in DOMAIN R : R[n].k = "error"
               /\ u \notin bad => About(R, u) = {}
               /\ u \in bad => Cardinality(About(R, u)) = 1
<1>1. PICK t : t = Reply("error", bad)
    OBVIOUS
<1>2. PICK X : X = [k : {"error"}, id : bad]
    OBVIOUS
<1>3. t \in Seq(X) /\ \A v \in bad : \E n \in DOMAIN t : t[n].id = v
    <2>1. Reply("error", bad) \in Seq([k : {"error"}, id : bad])
        BY ReplyElems
    <2>2. \A v \in bad : \E n \in DOMAIN Reply("error", bad) : Reply("error", bad)[n].id = v
        BY ReplyElems
    <2> QED
        BY <1>1, <1>2, <2>1, <2>2
<1>4. \A m, n \in DOMAIN t : t[m].id = t[n].id => m = n
    <2>1. \A m, n \in DOMAIN Reply("error", bad) :
              Reply("error", bad)[m].id = Reply("error", bad)[n].id => m = n
        BY ReplyElems
    <2> QED
        BY <1>1, <2>1
<1>5. \A n \in DOMAIN t : t[n] \in X
    BY <1>3
<1>6. \A n \in DOMAIN t : t[n].k = "error" /\ t[n].id \in bad
    BY <1>2, <1>5
<1>7. t \in Seq(UserReply)
    <2>1. X \subseteq UserReply
        BY <1>2 DEF UserReply, Kinds, Errors
    <2> QED
        BY <1>3, <2>1, SeqOfSubset
<1>8. u \notin bad => About(t, u) = {}
    BY <1>6 DEF About, Among
<1>9. ASSUME u \in bad PROVE Cardinality(About(t, u)) = 1
    <2>1. PICK n \in DOMAIN t : t[n].id = u
        BY <1>3, <1>9
    <2>2. "error" \in Kinds
        BY DEF Kinds, Errors
    <2>3. About(t, u) = {n}
        BY <1>4, <1>6, <2>1, <2>2 DEF About, Among
    <2> QED
        BY <2>3, FS_Singleton
<1> QED
    BY <1>1, <1>6, <1>7, <1>8, <1>9

(* What listen delivers of a batch.                                        *)
LEMMA HeardFacts ==
    ASSUME NEW b \in Seq(UserReply), NEW u
    PROVE  LET F == KindsOf(OfUid(b, u))
           IN  /\ F \in Seq(Kinds) /\ Len(F) = Cardinality(About(b, u))
               /\ \A s, h : InRank(b, u, s, h) => \A x \in 1 .. Len(F) : F[x] = s[h + x]
               /\ \A x \in 1 .. Len(F) : F[x] \in Finished => Ends(b, u)
<1>1. PICK P : P = {i \in DOMAIN b : b[i].id = u}
    OBVIOUS
<1>2. PICK t : t = Subsequence(b, P)
    OBVIOUS
<1>3. P \in SUBSET DOMAIN b
    BY <1>1
<1>4. t \in Seq(UserReply) /\ \E at : Selects(t, b, P, at) /\ Counts(t, P, at)
    BY <1>2, <1>3, SubsequenceCounts
<1>5. PICK at : Selects(t, b, P, at) /\ Counts(t, P, at)
    BY <1>4
<1>6. t = OfUid(b, u)
    BY <1>1, <1>2 DEF OfUid
<1>7. PICK F : F = KindsOf(t)
    OBVIOUS
<1>8. F \in Seq(Kinds)
    BY <1>4, <1>6, <1>7, CountTypes
<1>9. DOMAIN F = DOMAIN t /\ DOMAIN F = 1 .. Len(F) /\ Len(F) \in Nat /\ DOMAIN t = 1 .. Len(t)
      /\ Len(t) \in Nat
    BY <1>4, <1>7, <1>8 DEF KindsOf
<1>10. Len(F) = Len(t)
    <2>1. PICK m \in Nat : m = Len(F)
        BY <1>9
    <2>2. PICK n \in Nat : n = Len(t)
        BY <1>9
    <2>3. \A i : i \in 1 .. m <=> i \in 1 .. n
        BY <1>9, <2>1, <2>2
    <2>4. (1 <= m => m \in 1 .. m) /\ (1 <= n => n \in 1 .. n)
        OBVIOUS
    <2>5. (1 <= m => m \in 1 .. n) /\ (1 <= n => n \in 1 .. m)
        BY <2>3, <2>4
    <2>6. m = n
        BY <2>5
    <2> QED
        BY <2>1, <2>2, <2>6
<1>11. P = About(b, u)
    <2>1. \A i \in DOMAIN b : b[i] \in UserReply
        OBVIOUS
    <2>2. \A i \in DOMAIN b : b[i].k \in Kinds
        BY <2>1 DEF UserReply
    <2> QED
        BY <1>1, <2>2 DEF About, Among
<1>12. ASSUME NEW x \in 1 .. Len(F)
       PROVE  /\ at[x] \in About(b, u) /\ F[x] = b[at[x]].k
              /\ Cardinality(Upto(b, u, at[x])) = x
    <2>1. at[x] \in P /\ t[x] = b[at[x]] /\ Cardinality({j \in P : j <= at[x]}) = x
        BY <1>5, <1>10 DEF Selects, Counts
    <2>2. F[x] = t[x].k
        BY <1>7, <1>9 DEF KindsOf
    <2>3. Upto(b, u, at[x]) = {j \in P : j <= at[x]}
        BY <1>11 DEF Upto
    <2> QED
        BY <1>11, <2>1, <2>2, <2>3
<1>13. ASSUME NEW s, NEW h, InRank(b, u, s, h), NEW x \in 1 .. Len(F) PROVE F[x] = s[h + x]
    BY <1>12, <1>13 DEF InRank
<1>14. ASSUME NEW x \in 1 .. Len(F), F[x] \in Finished PROVE Ends(b, u)
    <2>1. at[x] \in DOMAIN b /\ b[at[x]].id = u /\ b[at[x]].k \in Finished
        BY <1>12, <1>14 DEF About, Among
    <2> QED
        BY <2>1 DEF Ends
<1>15. Len(F) = Cardinality(About(b, u))
    BY <1>5, <1>10, <1>11 DEF Selects
<1> QED
    BY <1>6, <1>7, <1>8, <1>13, <1>14, <1>15

(* A batch is delivered: what was on its way is now told.                  *)
LEMMA BatchTold ==
    ASSUME NEW t \in Seq(Kinds), NEW o \in Seq(ReplyBatch), o # << >>, o[1] \in Seq(UserReply),
           NEW d, NEW u, NEW s \in Seq(Kinds), Cardinality(About(d, u)) \in Nat,
           InOrder(t, o, d, u, s)
    PROVE  InOrder(t \o KindsOf(OfUid(o[1], u)), Tail(o), d, u, s)
<1>1. PICK b : b = o[1]
    OBVIOUS
<1>2. PICK F : F = KindsOf(OfUid(b, u))
    OBVIOUS
<1>3. PICK h : h = Len(t)
    OBVIOUS
<1>4. PICK n : n = Cardinality(About(b, u))
    OBVIOUS
<1>5. PICK r : r = Tail(o)
    OBVIOUS
<1>6. PICK a : a = Cardinality(AboutAll(r, u))
    OBVIOUS
<1>7. h \in Nat /\ b \in Seq(UserReply) /\ r \in Seq(ReplyBatch)
    BY <1>1, <1>3, <1>5
<1>8. /\ Cardinality(AboutAll(o, u)) = n + a
      /\ a \in Nat /\ n \in Nat
    BY <1>1, <1>4, <1>5, <1>6, <1>7, HeadAll, AmongAllFinite, UptoFacts DEF AboutAll, About
<1>9. /\ h + (n + a) + Cardinality(About(d, u)) = Len(s)
      /\ \A i \in 1 .. h : t[i] = s[i]
      /\ AllInRank(o, u, s, h) /\ InRank(d, u, s, h + (n + a))
    BY <1>3, <1>8 DEF InOrder
<1>10. InRank(b, u, s, h) /\ AllInRank(r, u, s, h + n)
    BY <1>1, <1>4, <1>5, <1>7, <1>9, HeadRank
<1>11. F \in Seq(Kinds) /\ Len(F) = n /\ \A x \in 1 .. n : F[x] = s[h + x]
    <2>1. F \in Seq(Kinds) /\ Len(F) = Cardinality(About(b, u))
        BY <1>2, <1>7, HeardFacts
    <2>2. \A x \in 1 .. Len(F) : F[x] = s[h + x]
        BY <1>2, <1>7, <1>10, HeardFacts
    <2> QED
        BY <1>4, <2>1, <2>2
<1>12. PICK w : w = t \o F
    OBVIOUS
<1>13. /\ Len(w) = h + n
       /\ \A p \in 1 .. (h + n) : w[p] = IF p <= h THEN t[p] ELSE F[p - h]
    <2>1. /\ Len(t \o F) = Len(t) + Len(F)
          /\ \A p \in 1 .. (Len(t) + Len(F)) :
                (t \o F)[p] = IF p <= Len(t) THEN t[p] ELSE F[p - Len(t)]
        <3>1. F \in Seq(Kinds) /\ t \in Seq(Kinds)
            BY <1>11
        <3> QED
            BY ONLY <3>1, ConcatFacts
    <2> QED
        BY <1>3, <1>11, <1>12, <2>1
<1>14. ASSUME NEW p \in 1 .. (h + n) PROVE w[p] = s[p]
    <2>1. CASE p <= h
        BY <1>7, <1>8, <1>9, <1>13, <2>1
    <2>2. CASE ~(p <= h)
        <3>1. p - h \in 1 .. n /\ h + (p - h) = p
            BY <1>7, <1>8, <2>2
        <3> QED
            BY <1>11, <1>13, <2>2, <3>1
    <2> QED
        BY <2>1, <2>2
<1>15. (h + n) + a = h + (n + a)
    BY <1>7, <1>8
<1>16. InOrder(w, r, d, u, s)
    BY <1>6, <1>9, <1>10, <1>13, <1>14, <1>15 DEF InOrder
<1> QED
    BY <1>1, <1>2, <1>5, <1>12, <1>16

(* A step that neither tells u anything nor asks for it.                   *)
UpOfOthers(u) == up' = up \/ \E m \in Requested : m.id # u /\ up' = Append(up, m)

LEMMA AnswerKept ==
    ASSUME TypeOK, NEW u \in Uids, AnswerOf(u), UNCHANGED <<down, out>>,
           u \in toScheduler' => u \in toScheduler,
           sent'[u] = sent[u], ackDue'[u] = ackDue[u], seen'[u] = seen[u],
           u \in inflight' => u \in inflight,
           client'[u] = client[u] \/ client'[u] \in {"gone", "broken"},
           Registered(u)' => Registered(u) /\ ack_map'[u] = ack_map[u] /\ UpOfOthers(u)
    PROVE  AnswerOf(u)'
<1>1. Orderly(sent[u])'
    BY DEF AnswerOf
<1>2. ASSUME Registered(u)'
      PROVE  Unaborted(u)' /\ (Follows(u, sent[u]) \/ Refused(u))'
    <2>1. /\ Registered(u) /\ ack_map'[u] = ack_map[u] /\ UpOfOthers(u)
          /\ Unaborted(u) /\ (Follows(u, sent[u]) \/ Refused(u))
        BY <1>2 DEF AnswerOf, WellTold
    <2>2. UpGrows(u) /\ up \in Seq(Requested)
        BY <2>1 DEF UpOfOthers, UpGrows, Foreign, TypeOK, QueueTypes
    <2>3. Asked(u)' = Asked(u)
        BY <2>2, UpKept
    <2>4. Told(u)' = Told(u)
        BY <2>1 DEF Told
    <2>5. Follows(u, sent[u])' <=> Follows(u, sent[u])
        BY <2>4 DEF Follows
    <2>6. Follows(u, <<"error">>)' <=> Follows(u, <<"error">>)
        BY <2>4 DEF Follows
    <2>7. Refused(u) => Refused(u)'
        BY <2>3, <2>6 DEF Refused, Silent
    <2>8. Unaborted(u)'
        <3>1. CASE up' = up
            BY <2>1, <3>1 DEF Unaborted
        <3>2. ASSUME NEW m \in Requested, m.id # u, up' = Append(up, m)
              PROVE  Unaborted(u)'
            <4>1. m # [k |-> "abort", id |-> u]
                BY <3>2
            <4>2. \A i \in DOMAIN Append(up, m) : Append(up, m)[i] # [k |-> "abort", id |-> u]
                BY <2>1, <2>2, <4>1, AppendFacts DEF Unaborted
            <4> QED
                BY <2>1, <3>2, <4>2 DEF Unaborted
        <3> QED
            BY <2>1, <3>1, <3>2 DEF UpOfOthers
    <2> QED
        BY <2>1, <2>5, <2>7, <2>8
<1>3. WellTold(u)'
    BY <1>2 DEF WellTold
<1>4. EndIsObserved(u)' /\ NothingBefore(u)' /\ Answered(u)'
    <2>1. EndIsObserved(u) /\ NothingBefore(u) /\ Answered(u)
        BY DEF AnswerOf
    <2>2. EndIsObserved(u)'
        BY <2>1 DEF EndIsObserved
    <2>3. NothingBefore(u)'
        BY <2>1 DEF NothingBefore
    <2>4. Answered(u)'
        BY <2>1 DEF Answered
    <2> QED
        BY <2>2, <2>3, <2>4
<1> QED
    BY <1>1, <1>3, <1>4 DEF AnswerOf

(* Nothing is told of a request before it is made.                         *)
LEMMA NothingTold ==
    ASSUME TypeOK, NEW u \in Uids, OfRequest(u), client[u] = "new"
    PROVE  Cardinality(About(down, u)) = 0 /\ Cardinality(AboutAll(out, u)) = 0
<1>1. sent[u] = << >> /\ ~Ends(down, u) /\ ~EndOut(out, u)
    BY DEF OfRequest, NewIsUnknown
<1>2. /\ Cardinality(BillsOut(u)) \in Nat /\ Cardinality(BillsDown(u)) \in Nat
      /\ Cardinality(BillsOut(u)) = 0 <=> BillsOut(u) = {}
      /\ Cardinality(BillsDown(u)) = 0 <=> BillsDown(u) = {}
    BY AmongFinite, AmongAllFinite DEF TypeOK, QueueTypes, BillsOut, BillsDown, Bills
<1>3. Units(<< >>) = 0
    <2>1. {i \in DOMAIN << >> : << >>[i] \in Billable} = {}
        OBVIOUS
    <2> QED
        BY <2>1, FS_EmptySet DEF Units
<1>4. counted[u] \in Nat
    BY DEF TypeOK, UserTypes
<1>5. BillsOut(u) = {} /\ BillsDown(u) = {}
    BY <1>1, <1>2, <1>3, <1>4 DEF OfRequest, AllCounted
<1>6. \A k \in Kinds : k \in Billable \/ k \in Finished
    BY DEF Kinds, Billable, Finished, Sampled, Errors, Final
<1>7. About(down, u) = {}
    BY <1>1, <1>5, <1>6 DEF About, Among, BillsDown, Bills, Ends
<1>8. \A i \in DOMAIN out : Among(out[i], u, Kinds) = {}
    <2> SUFFICES ASSUME NEW i \in DOMAIN out, NEW n \in Among(out[i], u, Kinds) PROVE FALSE
        OBVIOUS
    <2>1. n \in DOMAIN out[i] /\ out[i][n].id = u /\ out[i][n].k \in Kinds
        BY DEF Among
    <2>2. out[i][n].k \notin Finished
        BY <1>1, <2>1 DEF EndOut, Ends
    <2>3. n \in Among(out[i], u, Billable)
        BY <1>6, <2>1, <2>2 DEF Among
    <2>4. <<i, n>> \in AmongAll(out, u, Billable)
        BY <2>3, AmongAllIs
    <2> QED
        BY <1>5, <2>4 DEF BillsOut
<1>9. \A x : x \notin AmongAll(out, u, Kinds)
    BY <1>8, AmongAllIs
<1> QED
    BY <1>7, <1>9, FS_EmptySet DEF AboutAll

LEMMA AnswerMade ==
    ASSUME TypeOK, NEW u \in Uids, OfRequest(u), AnswerOf(u), Submit(u)
    PROVE  AnswerOf(u)'
<1>1. /\ client[u] = "new" /\ client'[u] \in {"waiting", "broken"} /\ ack_map'[u] = << >>
      /\ UNCHANGED <<down, out, toScheduler, sent, ackDue, seen>>
    BY DEF Submit, schedVars, TypeOK, UserTypes
<1>2. PICK m : m = [k |-> "tokenize", id |-> u]
    OBVIOUS
<1>3. up' = up \/ up' = Append(up, m)
    BY <1>2 DEF Submit, Send, SendRaises
<1>4. u \notin Ids(up) /\ sent[u] = << >> /\ ackDue[u] = 0 /\ seen[u] = << >>
    BY <1>1 DEF OfRequest, NewIsUnknown, AnswerOf, NothingBefore
<1>5. Cardinality(About(down, u)) = 0 /\ Cardinality(AboutAll(out, u)) = 0
    BY <1>1, NothingTold
<1>6. Unaborted(u)'
    <2>1. PICK a : a = [k |-> "abort", id |-> u]
        OBVIOUS
    <2>2. a.id = u /\ m # a
        BY <1>2, <2>1
    <2>3. \A i \in DOMAIN up : up[i] # a
        BY <1>4, <2>2, InIds
    <2>4. up \in Seq(Requested)
        BY DEF TypeOK, QueueTypes
    <2>5. \A i \in DOMAIN up' : up'[i] # a
        BY <1>3, <2>2, <2>3, <2>4, AppendFacts
    <2> QED
        BY <1>1, <1>4, <2>1, <2>5 DEF Unaborted
<1>7. Told(u)' = << >>
    BY <1>1, <1>4 DEF Told
<1>8. InOrder(<< >>, out, down, u, << >>)
    <2>1. AllInRank(out, u, << >>, 0)
        <3>1. ASSUME NEW p \in DOMAIN out PROVE About(out[p], u) = {}
            <4>1. out \in Seq(ReplyBatch)
                BY DEF TypeOK, QueueTypes
            <4>2. AboutAll(out, u) = {}
                BY <1>5, <4>1, AmongAllFinite DEF AboutAll
            <4>3. \A n \in Among(out[p], u, Kinds) : <<p, n>> \in AmongAll(out, u, Kinds)
                BY AmongAllIs
            <4> QED
                BY <4>2, <4>3 DEF AboutAll, About
        <3> QED
            BY <3>1 DEF AllInRank, InRank
    <2>2. About(down, u) = {}
        BY <1>5, AmongFinite DEF About, TypeOK, QueueTypes
    <2>3. InRank(down, u, << >>, 0)
        BY <2>2 DEF InRank
    <2> QED
        BY <1>5, <2>1, <2>3 DEF InOrder
<1>9. Follows(u, sent[u])'
    BY <1>1, <1>4, <1>7, <1>8 DEF Follows
<1>10. WellTold(u)'
    BY <1>6, <1>9 DEF WellTold
<1>11. EndIsObserved(u)' /\ NothingBefore(u)' /\ Answered(u)' /\ Orderly(sent[u])'
    <2>1. EndIsObserved(u)'
        BY <1>1 DEF EndIsObserved
    <2>2. NothingBefore(u)' /\ Answered(u)'
        BY <1>1 DEF NothingBefore, Answered
    <2>3. Orderly(sent[u])'
        BY <1>1 DEF AnswerOf
    <2> QED
        BY <2>1, <2>2, <2>3
<1> QED
    BY <1>10, <1>11 DEF AnswerOf

(* Concatenation associates, and nothing added is nothing.                 *)
LEMMA ConcatJoins ==
    ASSUME NEW S, NEW a \in Seq(S), NEW b \in Seq(S), NEW c \in Seq(S)
    PROVE  (a \o b) \o c = a \o (b \o c)
<1>1. PICK d : d = a \o b
    OBVIOUS
<1>2. PICK e : e = b \o c
    OBVIOUS
<1>3. d \in Seq(S) /\ e \in Seq(S)
    BY <1>1, <1>2
<1>4. /\ Len(a) \in Nat /\ Len(b) \in Nat /\ Len(c) \in Nat /\ Len(d) = Len(a) + Len(b)
      /\ \A p \in 1 .. (Len(a) + Len(b)) : d[p] = IF p <= Len(a) THEN a[p] ELSE b[p - Len(a)]
    BY <1>1, ConcatFacts
<1>5. /\ Len(e) = Len(b) + Len(c)
      /\ \A p \in 1 .. (Len(b) + Len(c)) : e[p] = IF p <= Len(b) THEN b[p] ELSE c[p - Len(b)]
    BY <1>2, ConcatFacts
<1>6. PICK x : x = d \o c
    OBVIOUS
<1>7. PICK y : y = a \o e
    OBVIOUS
<1>8. x \in Seq(S) /\ y \in Seq(S)
    BY <1>3, <1>6, <1>7
<1>9. /\ Len(x) = Len(d) + Len(c)
      /\ \A p \in 1 .. (Len(d) + Len(c)) : x[p] = IF p <= Len(d) THEN d[p] ELSE c[p - Len(d)]
    BY <1>3, <1>6, ConcatFacts
<1>10. /\ Len(y) = Len(a) + Len(e)
       /\ \A p \in 1 .. (Len(a) + Len(e)) : y[p] = IF p <= Len(a) THEN a[p] ELSE e[p - Len(a)]
    BY <1>3, <1>7, ConcatFacts
<1>11. Len(x) = Len(y)
    BY <1>4, <1>5, <1>9, <1>10
<1>12. ASSUME NEW p \in 1 .. Len(x) PROVE x[p] = y[p]
    <2>1. CASE p <= Len(a)
        <3>1. p \in 1 .. (Len(a) + Len(b)) /\ p <= Len(d) /\ p \in 1 .. (Len(d) + Len(c))
              /\ p \in 1 .. (Len(a) + Len(e))
            BY <1>4, <1>5, <1>9, <2>1
        <3> QED
            BY <1>4, <1>9, <1>10, <2>1, <3>1
    <2>2. CASE ~(p <= Len(a)) /\ p <= Len(d)
        <3>1. p \in 1 .. (Len(a) + Len(b)) /\ p \in 1 .. (Len(d) + Len(c))
              /\ p \in 1 .. (Len(a) + Len(e)) /\ p - Len(a) \in 1 .. (Len(b) + Len(c))
              /\ p - Len(a) <= Len(b)
            BY <1>4, <1>5, <1>9, <2>2
        <3>2. x[p] = b[p - Len(a)]
            BY <1>4, <1>9, <2>2, <3>1
        <3>3. y[p] = b[p - Len(a)]
            BY <1>5, <1>10, <2>2, <3>1
        <3> QED
            BY <3>2, <3>3
    <2>3. CASE ~(p <= Len(d))
        <3>1. p \in 1 .. (Len(d) + Len(c)) /\ ~(p <= Len(a))
              /\ p \in 1 .. (Len(a) + Len(e)) /\ p - Len(a) \in 1 .. (Len(b) + Len(c))
              /\ ~(p - Len(a) <= Len(b)) /\ (p - Len(a)) - Len(b) = p - Len(d)
            BY <1>4, <1>5, <1>9, <2>3
        <3>2. x[p] = c[p - Len(d)]
            BY <1>9, <2>3, <3>1
        <3>3. y[p] = c[p - Len(d)]
            BY <1>5, <1>10, <3>1
        <3> QED
            BY <3>2, <3>3
    <2> QED
        BY <1>4, <2>1, <2>2, <2>3
<1>13. x = y
    BY <1>8, <1>11, <1>12
<1> QED
    BY <1>1, <1>2, <1>6, <1>7, <1>13

LEMMA ConcatLast ==
    ASSUME NEW S, NEW a \in Seq(S), NEW b \in Seq(S), b # << >>
    PROVE  Last(a \o b) = Last(b) /\ a \o b \in Seq(S) /\ 1 <= Len(a \o b) /\ Len(a \o b) \in Nat
<1>1. /\ Len(a \o b) = Len(a) + Len(b) /\ Len(a) \in Nat /\ Len(b) \in Nat
      /\ \A p \in 1 .. (Len(a) + Len(b)) : (a \o b)[p] = IF p <= Len(a) THEN a[p] ELSE b[p - Len(a)]
    BY ConcatFacts
<1>2. PICK m \in Nat : m = Len(a)
    BY <1>1
<1>3. PICK n \in Nat : n = Len(b)
    BY <1>1
<1>4. 1 <= n
    BY <1>3
<1>5. m + n \in 1 .. (m + n) /\ ~(m + n <= m) /\ (m + n) - m = n
    BY <1>4
<1>6. (a \o b)[m + n] = b[n]
    BY <1>1, <1>2, <1>3, <1>5
<1> QED
    BY <1>1, <1>2, <1>3, <1>4, <1>6 DEF Last

LEMMA PrefixIs ==
    ASSUME NEW S, NEW t \in Seq(S), NEW s \in Seq(S), Len(t) <= Len(s),
           \A i \in 1 .. Len(t) : t[i] = s[i]
    PROVE  IsPrefix(t, s)
<1>1. Len(t) \in Nat /\ Len(s) \in Nat /\ Len(t) \in 0 .. Len(s) /\ Len(t) \in 0 .. Len(t)
    OBVIOUS
<1>2. PICK a : a = SubSeq(t, 1, Len(t))
    OBVIOUS
<1>3. PICK b : b = SubSeq(s, 1, Len(t))
    OBVIOUS
<1>4. a \in Seq(S) /\ Len(a) = Len(t) /\ \A n \in 1 .. Len(t) : a[n] = t[n]
    BY <1>1, <1>2, TakenFacts
<1>5. b \in Seq(S) /\ Len(b) = Len(t) /\ \A n \in 1 .. Len(t) : b[n] = s[n]
    BY <1>1, <1>3, TakenFacts
<1>6. \A n \in 1 .. Len(a) : a[n] = b[n]
    BY <1>4, <1>5
<1>7. a = b
    BY <1>4, <1>5, <1>6
<1> QED
    BY <1>2, <1>3, <1>7 DEF IsPrefix

LEMMA SingleIs ==
    ASSUME NEW S, NEW t \in Seq(S), Len(t) = 1
    PROVE  t = <<t[1]>>
OBVIOUS

(* The consumer takes what is pending.                                     *)
LEMMA AnswerTaken ==
    ASSUME TypeOK, NEW u \in Uids, AnswerOf(u), Consume(u)
    PROVE  AnswerOf(u)'
<1>1. /\ client[u] = "waiting" /\ u \in DOMAIN ack_map /\ ack_map[u] # << >>
      /\ UNCHANGED <<down, out, toScheduler, sent, ackDue, up, inflight>>
      /\ seen' = [seen EXCEPT ![u] = @ \o ack_map[u]]
    BY DEF Consume, schedVars
<1>2. ack_map[u] \in Seq(Kinds) /\ seen[u] \in Seq(Kinds) /\ seen'[u] = seen[u] \o ack_map[u]
    BY <1>1 DEF TypeOK, UserTypes
<1>3. Registered(u) /\ Unaborted(u) /\ (Follows(u, sent[u]) \/ Refused(u)) /\ EndIsObserved(u)
    BY <1>1 DEF AnswerOf, WellTold, Registered
<1>4. seen'[u] = Told(u)
    BY <1>2 DEF Told
<1>5. Unaborted(u)' /\ Orderly(sent[u])'
    BY <1>1, <1>3 DEF Unaborted, AnswerOf
<1>6. NothingBefore(u)'
    BY <1>1 DEF Consume, NothingBefore, TypeOK, UserTypes
<1>7. CASE Last(ack_map[u]) \in Finished
    <2>1. client'[u] = "done" /\ u \notin DOMAIN ack_map'
        BY <1>1, <1>7 DEF Consume, Unregistered, TypeOK, UserTypes
    <2>2. WellTold(u)'
        BY <2>1 DEF WellTold, Registered
    <2>3. EndIsObserved(u)'
        <3>1. Last(ack_map[u]) = ack_map[u][Len(ack_map[u])] /\ Len(ack_map[u]) \in DOMAIN ack_map[u]
            BY <1>1, <1>2 DEF Last
        <3>2. u \notin inflight
            BY <1>3, <1>7, <3>1 DEF EndIsObserved
        <3> QED
            BY <1>1, <3>2 DEF EndIsObserved
    <2>4. Answered(u)'
        <3>1. PICK t : t = Told(u)
            OBVIOUS
        <3>2. t \in Seq(Kinds) /\ Last(t) = Last(ack_map[u]) /\ Len(t) \in Nat /\ 1 <= Len(t)
            BY <1>1, <1>2, <3>1, ConcatLast DEF Told
        <3>3. Last(t) \in Finished
            BY <1>7, <3>2
        <3>4. CASE Follows(u, sent[u])
            <4>1. PICK s : s = sent[u]
                OBVIOUS
            <4>2. s \in Seq(Kinds) /\ Cardinality(About(down, u)) \in Nat
                  /\ Cardinality(AboutAll(out, u)) \in Nat
                BY <4>1, AmongFinite, AmongAllFinite DEF TypeOK, QueueTypes, AboutAll, About
            <4>3. /\ Len(t) + Cardinality(AboutAll(out, u)) + Cardinality(About(down, u)) = Len(s)
                  /\ \A i \in 1 .. Len(t) : t[i] = s[i]
                BY <3>1, <3>4, <4>1 DEF Follows, InOrder
            <4>4. Len(t) <= Len(s)
                BY <3>2, <4>2, <4>3
            <4>5. IsPrefix(t, s)
                BY <3>2, <4>2, <4>3, <4>4, PrefixIs
            <4> QED
                BY <1>1, <1>4, <3>1, <3>3, <4>1, <4>5 DEF Answered
        <3>5. CASE Refused(u)
            <4>1. /\ Len(t) + Cardinality(AboutAll(out, u)) + Cardinality(About(down, u))
                         = Len(<<"error">>)
                  /\ \A i \in 1 .. Len(t) : t[i] = <<"error">>[i]
                BY <3>1, <3>5 DEF Refused, Follows, InOrder
            <4>2. Cardinality(About(down, u)) \in Nat /\ Cardinality(AboutAll(out, u)) \in Nat
                BY AmongFinite, AmongAllFinite DEF TypeOK, QueueTypes, AboutAll, About
            <4>3. Len(t) = 1
                <5>1. Len(<<"error">>) = 1
                    OBVIOUS
                <5> QED
                    BY <3>2, <4>1, <4>2, <5>1
            <4>4. t[1] = "error"
                <5>1. <<"error">>[1] = "error" /\ 1 \in 1 .. Len(t)
                    BY <4>3
                <5> QED
                    BY <4>1, <5>1
            <4>5. t = <<"error">>
                BY <3>2, <4>3, <4>4, SingleIs
            <4>6. {i \in DOMAIN << >> : << >>[i] \in Billable} = {}
                OBVIOUS
            <4>7. Units(sent[u]) = 0
                BY <3>5, <4>6, FS_EmptySet DEF Refused, Units
            <4>8. sent'[u] = sent[u] /\ seen'[u] = <<"error">>
                BY <1>1, <1>4, <3>1, <4>5
            <4>9. Units(sent'[u]) = 0
                BY <4>7, <4>8
            <4> QED
                BY <4>8, <4>9 DEF Answered
        <3> QED
            BY <1>3, <3>4, <3>5
    <2> QED
        BY <1>5, <1>6, <2>2, <2>3, <2>4 DEF AnswerOf
<1>8. CASE ~(Last(ack_map[u]) \in Finished)
    <2>1. client'[u] = "waiting" /\ ack_map'[u] = << >>
        BY <1>1, <1>8 DEF Consume
    <2>2. Told(u)' = Told(u)
        <3>1. Told(u) \in Seq(Kinds)
            BY <1>2 DEF Told
        <3>2. Told(u) \o << >> = Told(u)
            BY <3>1
        <3> QED
            BY <1>4, <2>1, <3>2 DEF Told
    <2>3. WellTold(u)'
        <3>1. Asked(u)' = Asked(u)
            BY <1>1 DEF Asked
        <3>2. Follows(u, sent[u])' <=> Follows(u, sent[u])
            BY <1>1, <2>2 DEF Follows
        <3>3. Follows(u, <<"error">>)' <=> Follows(u, <<"error">>)
            BY <1>1, <2>2 DEF Follows
        <3>4. Refused(u) => Refused(u)'
            BY <1>1, <3>1, <3>3 DEF Refused, Silent
        <3> QED
            BY <1>3, <1>5, <3>2, <3>4 DEF WellTold
    <2>4. EndIsObserved(u)' /\ Answered(u)'
        BY <2>1 DEF EndIsObserved, Answered
    <2> QED
        BY <1>5, <1>6, <2>3, <2>4 DEF AnswerOf
<1> QED
    BY <1>7, <1>8

(* A batch that is not about u.                                            *)
LEMMA BatchPassed ==
    ASSUME NEW t \in Seq(Kinds), NEW o \in Seq(ReplyBatch), o # << >>,
           NEW d, NEW u, NEW s, About(o[1], u) = {}, InOrder(t, o, d, u, s)
    PROVE  InOrder(t, Tail(o), d, u, s)
<1>1. PICK r : r = Tail(o)
    OBVIOUS
<1>2. PICK h : h = Len(t)
    OBVIOUS
<1>3. h \in Nat /\ r \in Seq(ReplyBatch) /\ Cardinality(About(o[1], u)) = 0
    BY <1>1, <1>2, FS_EmptySet
<1>4. Cardinality(AboutAll(o, u)) = Cardinality(AboutAll(r, u))
    <2>1. Cardinality(AmongAll(o, u, Kinds))
              = Cardinality(Among(o[1], u, Kinds)) + Cardinality(AmongAll(Tail(o), u, Kinds))
        BY HeadAll
    <2>2. Cardinality(AboutAll(r, u)) \in Nat
        BY <1>3, AmongAllFinite DEF AboutAll
    <2> QED
        BY <1>1, <1>3, <2>1, <2>2 DEF AboutAll, About
<1>5. AllInRank(o, u, s, h)
    BY <1>2 DEF InOrder
<1>6. AllInRank(r, u, s, h + Cardinality(About(o[1], u)))
    BY <1>1, <1>3, <1>5, HeadRank
<1>7. h + Cardinality(About(o[1], u)) = h
    BY <1>3
<1>8. AllInRank(r, u, s, h)
    BY <1>6, <1>7
<1> QED
    BY <1>1, <1>2, <1>4, <1>8 DEF InOrder

(* What u hears: nothing, or a batch about it.                             *)
LEMMA AnswerHeard ==
    ASSUME TypeOK, NEW u \in Uids, AnswerOf(u), ListenReplies \/ ResolveRebuild
    PROVE  AnswerOf(u)'
<1>1. /\ out # << >> /\ out' = Tail(out)
      /\ UNCHANGED <<up, down, toScheduler, sent, ackDue, client, seen>>
      /\ out \in Seq(ReplyBatch) /\ Head(out) = out[1]
    BY HeadBatch DEF ListenReplies, ResolveRebuild, userVars, schedVars, TypeOK, QueueTypes
<1>2. /\ sent[u] \in Seq(Kinds) /\ Cardinality(About(down, u)) \in Nat
      /\ seen[u] \in Seq(Kinds) /\ (u \in DOMAIN ack_map => ack_map[u] \in Seq(Kinds))
    BY AmongFinite DEF TypeOK, QueueTypes, UserTypes, About
<1>3. Asked(u)' = Asked(u) /\ (Silent(u)' <=> Silent(u)) /\ (Unaborted(u)' <=> Unaborted(u))
    BY <1>1 DEF Asked, Silent, Unaborted
<1>4. Orderly(sent[u])' /\ NothingBefore(u)' /\ Answered(u)'
    BY <1>1 DEF AnswerOf, NothingBefore, Answered
<1>5. CASE ListenReplies
    <2>1. PICK b : b = out[1]
        OBVIOUS
    <2>2. PICK F : F = KindsOf(OfUid(b, u))
        OBVIOUS
    <2>3. b \in Seq(UserReply)
        BY <1>1, <1>5, <2>1, HeadBatch DEF ListenReplies, TypeOK
    <2>4. /\ ack_map' = [v \in DOMAIN ack_map |-> ack_map[v] \o KindsOf(OfUid(b, v))]
          /\ inflight' = inflight \ Ids(OfKind(b, Finished))
        BY <1>1, <1>5, <2>1 DEF ListenReplies, Observed
    <2>5. F \in Seq(Kinds) /\ \A x \in 1 .. Len(F) : F[x] \in Finished => Ends(b, u)
        BY <2>2, <2>3, HeardFacts
    <2>6. Ends(b, u) => u \notin inflight'
        BY <2>3, <2>4, IdsOfKind DEF Ends
    <2>7. ASSUME u \in DOMAIN ack_map
          PROVE  Told(u)' = Told(u) \o F /\ ack_map'[u] = ack_map[u] \o F /\ Told(u) \in Seq(Kinds)
        <3>1. ack_map'[u] = ack_map[u] \o F
            BY <2>2, <2>4, <2>7
        <3>2. (seen[u] \o ack_map[u]) \o F = seen[u] \o (ack_map[u] \o F)
            <4>1. PICK a : a = seen[u]
                OBVIOUS
            <4>2. PICK c : c = ack_map[u]
                OBVIOUS
            <4>3. a \in Seq(Kinds) /\ c \in Seq(Kinds) /\ F \in Seq(Kinds)
                BY <1>2, <2>5, <2>7, <4>1, <4>2
            <4>4. (a \o c) \o F = a \o (c \o F)
                BY ONLY <4>3, ConcatJoins
            <4> QED
                BY <4>1, <4>2, <4>4
        <3>3. Told(u) \in Seq(Kinds)
            BY <1>2, <2>7 DEF Told
        <3> QED
            BY <1>1, <3>1, <3>2, <3>3 DEF Told
    <2>8. ASSUME u \in DOMAIN ack_map, NEW s \in Seq(Kinds), Follows(u, s)
          PROVE  InOrder(Told(u)', out', down', u, s)
        <3>1. PICK t : t = Told(u)
            OBVIOUS
        <3>2. t \in Seq(Kinds) /\ InOrder(t, out, down, u, s) /\ out[1] \in Seq(UserReply)
            BY <2>1, <2>3, <2>7, <2>8, <3>1 DEF Follows
        <3>3. InOrder(t \o KindsOf(OfUid(out[1], u)), Tail(out), down, u, s)
            BY <1>1, <1>2, <3>2, BatchTold
        <3> QED
            BY <1>1, <2>1, <2>2, <2>7, <2>8, <3>1, <3>3
    <2>9. ASSUME u \in DOMAIN ack_map
          PROVE  /\ Follows(u, sent[u]) => Follows(u, sent[u])'
                 /\ Follows(u, <<"error">>) => Follows(u, <<"error">>)'
        <3>1. <<"error">> \in Seq(Kinds)
            BY DEF Kinds, Errors
        <3>2. Follows(u, sent[u]) => Follows(u, sent[u])'
            BY <1>1, <1>2, <2>8, <2>9 DEF Follows
        <3>3. Follows(u, <<"error">>) => Follows(u, <<"error">>)'
            BY <2>8, <2>9, <3>1 DEF Follows
        <3> QED
            BY <3>2, <3>3
    <2>10. Registered(u)' <=> Registered(u)
        BY <1>1, <2>4 DEF Registered
    <2>11. WellTold(u)'
        <3> SUFFICES ASSUME Registered(u)' PROVE (Unaborted(u) /\ (Follows(u, sent[u]) \/ Refused(u)))'
            BY DEF WellTold
        <3>1. u \in DOMAIN ack_map /\ Unaborted(u) /\ (Follows(u, sent[u]) \/ Refused(u))
            BY <2>10 DEF AnswerOf, WellTold, Registered
        <3>2. Refused(u) => Refused(u)'
            BY <1>1, <1>3, <2>9, <3>1 DEF Refused
        <3> QED
            BY <1>3, <2>9, <3>1, <3>2
    <2>12. EndIsObserved(u)'
        <3>1. EndIsObserved(u)
            BY DEF AnswerOf
        <3>2. client'[u] = "done" => u \notin inflight'
            BY <1>1, <2>4, <3>1 DEF EndIsObserved
        <3>3. ASSUME Registered(u)', NEW i \in DOMAIN ack_map'[u], ack_map'[u][i] \in Finished
              PROVE  u \notin inflight'
            <4>1. u \in DOMAIN ack_map /\ ack_map'[u] = ack_map[u] \o F /\ ack_map[u] \in Seq(Kinds)
                BY <1>2, <2>7, <2>10, <3>3 DEF Registered
            <4>2. PICK a : a = ack_map[u]
                OBVIOUS
            <4>3. a \in Seq(Kinds) /\ ack_map'[u] = a \o F
                BY <4>1, <4>2
            <4>4. /\ DOMAIN (a \o F) = 1 .. (Len(a) + Len(F)) /\ DOMAIN a = 1 .. Len(a)
                  /\ Len(a) \in Nat /\ Len(F) \in Nat
                  /\ \A p \in 1 .. (Len(a) + Len(F)) :
                       (a \o F)[p] = IF p <= Len(a) THEN a[p] ELSE F[p - Len(a)]
                BY ONLY <2>5, <4>3, ConcatFacts
            <4>5. i \in 1 .. (Len(a) + Len(F))
                  /\ (IF i <= Len(a) THEN a[i] ELSE F[i - Len(a)]) \in Finished
                BY <3>3, <4>3, <4>4
            <4>6. CASE i <= Len(a)
                <5>1. i \in DOMAIN a /\ a[i] \in Finished
                    BY <4>4, <4>5, <4>6
                <5>2. u \notin inflight
                    BY <2>10, <3>1, <3>3, <4>2, <5>1 DEF EndIsObserved
                <5> QED
                    BY <2>4, <5>2
            <4>7. CASE ~(i <= Len(a))
                <5>1. i - Len(a) \in 1 .. Len(F) /\ F[i - Len(a)] \in Finished
                    BY <4>4, <4>5, <4>7
                <5> QED
                    BY <2>5, <2>6, <5>1
            <4> QED
                BY <4>6, <4>7
        <3> QED
            BY <3>2, <3>3 DEF EndIsObserved
    <2> QED
        BY <1>4, <2>11, <2>12 DEF AnswerOf
<1>6. CASE ResolveRebuild
    <2>1. out[1] = <<out[1][1]>> /\ out[1][1].id \in Rebuilds
        BY <1>1, <1>6, HeadBatch DEF ResolveRebuild, TypeOK, RebuildReply
    <2>2. DOMAIN out[1] = {1}
        BY <2>1
    <2>3. About(out[1], u) = {}
        BY <2>1, <2>2, IdsAssumption DEF About, Among
    <2>4. UNCHANGED <<ack_map, inflight>>
        BY <1>6 DEF ResolveRebuild, userVars
    <2>5. (Registered(u)' <=> Registered(u)) /\ Told(u)' = Told(u)
        BY <1>1, <2>4 DEF Registered, Told
    <2>6. EndIsObserved(u)'
        BY <1>1, <2>4, <2>5 DEF AnswerOf, EndIsObserved
    <2>7. ASSUME Registered(u), NEW s, Follows(u, s)
          PROVE  InOrder(Told(u), out', down', u, s)
        <3>1. PICK t : t = Told(u)
            OBVIOUS
        <3>2. t \in Seq(Kinds) /\ InOrder(t, out, down, u, s)
            BY <1>2, <2>7, <3>1 DEF Told, Follows, Registered
        <3>3. InOrder(t, Tail(out), down, u, s)
            BY <1>1, <2>3, <3>2, BatchPassed
        <3> QED
            BY <1>1, <3>1, <3>3
    <2>8. WellTold(u)'
        <3> SUFFICES ASSUME Registered(u)' PROVE (Unaborted(u) /\ (Follows(u, sent[u]) \/ Refused(u)))'
            BY DEF WellTold
        <3>1. Registered(u) /\ Unaborted(u) /\ (Follows(u, sent[u]) \/ Refused(u))
            BY <2>5 DEF AnswerOf, WellTold
        <3>2. Follows(u, sent[u]) => Follows(u, sent[u])'
            BY <1>1, <2>5, <2>7, <3>1 DEF Follows
        <3>3. Follows(u, <<"error">>) => Follows(u, <<"error">>)'
            BY <2>5, <2>7, <3>1 DEF Follows
        <3>4. Refused(u) => Refused(u)'
            BY <1>1, <1>3, <3>3 DEF Refused
        <3> QED
            BY <1>3, <3>1, <3>2, <3>4
    <2> QED
        BY <1>4, <2>6, <2>8 DEF AnswerOf
<1> QED
    BY <1>5, <1>6

(* The scheduler sends for another request, or for this one.               *)
LEMMA InOrderOther ==
    ASSUME NEW t, NEW o, NEW d \in Seq(Downward), NEW u, NEW s,
           Len(t) + Cardinality(AboutAll(o, u)) \in Nat,
           NEW m \in Downward, m.id # u, InOrder(t, o, d, u, s)
    PROVE  InOrder(t, o, Append(d, m), u, s)
<1>1. PICK c \in Nat : c = Len(t) + Cardinality(AboutAll(o, u))
    OBVIOUS
<1>2. About(Append(d, m), u) = About(d, u)
    BY AppendAmong DEF About
<1>3. InRank(d, u, s, c)
    BY <1>1 DEF InOrder
<1>4. InRank(Append(d, m), u, s, c)
    BY <1>3, AppendRank
<1> QED
    BY <1>1, <1>2, <1>4 DEF InOrder

LEMMA InOrderMore ==
    ASSUME NEW t \in Seq(Kinds), NEW o \in Seq(ReplyBatch), NEW d \in Seq(Downward), NEW u,
           NEW s \in Seq(Kinds), NEW m \in Downward, m.id = u, m.k \in Kinds,
           InOrder(t, o, d, u, s)
    PROVE  InOrder(t, o, Append(d, m), u, Append(s, m.k))
<1>1. PICK h : h = Len(t)
    OBVIOUS
<1>2. PICK a : a = Cardinality(AboutAll(o, u))
    OBVIOUS
<1>3. PICK b : b = Cardinality(About(d, u))
    OBVIOUS
<1>4. h \in Nat /\ a \in Nat /\ b \in Nat /\ Len(s) \in Nat
    BY <1>1, <1>2, <1>3, AmongFinite, AmongAllFinite DEF AboutAll, About
<1>5. PICK r : r = Append(s, m.k)
    OBVIOUS
<1>6. /\ Len(r) = Len(s) + 1 /\ r[Len(s) + 1] = m.k /\ \A i \in 1 .. Len(s) : r[i] = s[i]
    BY <1>5
<1>7. /\ h + a + b = Len(s) /\ \A i \in 1 .. h : t[i] = s[i]
      /\ AllInRank(o, u, s, h) /\ InRank(d, u, s, h + a)
    BY <1>1, <1>2, <1>3 DEF InOrder
<1>8. PICK c \in Nat : c = h + a
    BY <1>4
<1>9. h + a <= Len(s) /\ c + b <= Len(s) /\ c + b + 1 = Len(s) + 1
      /\ \A i \in 1 .. h : i \in 1 .. Len(s)
    <2>1. PICK n \in Nat : n = Len(s)
        BY <1>4
    <2>2. h + a + b = n
        BY <1>7, <2>1
    <2>3. h + a <= n /\ c + b <= n /\ c + b + 1 = n + 1 /\ \A i \in 1 .. h : i \in 1 .. n
        BY <1>4, <1>8, <2>2
    <2> QED
        BY <2>1, <2>3
<1>10. AllInRank(o, u, r, h)
    BY <1>2, <1>4, <1>6, <1>7, <1>9, AllRankGrows
<1>11. InRank(d, u, s, c)
    BY <1>7, <1>8
<1>12. InRank(d, u, r, c)
    BY <1>3, <1>4, <1>6, <1>9, <1>11, RankGrows
<1>13. m.k = r[c + Cardinality(About(d, u)) + 1]
    BY <1>3, <1>6, <1>9
<1>14. InRank(Append(d, m), u, r, c)
    BY <1>12, <1>13, AppendRank
<1>15. Cardinality(About(Append(d, m), u)) = b + 1
    BY <1>3, AppendAmong DEF About
<1>16. c + Cardinality(About(Append(d, m), u)) = Len(r)
    BY <1>4, <1>6, <1>8, <1>9, <1>15
<1>17. \A i \in 1 .. h : t[i] = r[i]
    BY <1>6, <1>7, <1>9
<1>18. InOrder(t, o, Append(d, m), u, r)
    BY <1>1, <1>2, <1>8, <1>10, <1>14, <1>16, <1>17 DEF InOrder
<1> QED
    BY <1>5, <1>18

LEMMA AnswerOther ==
    ASSUME TypeOK, NEW u \in Uids, AnswerOf(u), NEW m \in Downward, m.id # u,
           down' = Append(down, m), sent'[u] = sent[u], ackDue'[u] = ackDue[u],
           u \in toScheduler' <=> u \in toScheduler,
           UNCHANGED <<up, out, userVars>>
    PROVE  AnswerOf(u)'
<1>1. UNCHANGED <<client, inflight, seen, ack_map>>
    BY DEF userVars
<1>2. (Registered(u)' <=> Registered(u)) /\ Told(u)' = Told(u) /\ (Unaborted(u)' <=> Unaborted(u))
    BY <1>1 DEF Registered, Told, Unaborted
<1>3. Asked(u)' = Asked(u) /\ (Silent(u)' <=> Silent(u))
    BY DEF Asked, Silent
<1>4. ASSUME Registered(u), NEW s, Follows(u, s)
      PROVE  InOrder(Told(u), out, down', u, s)
    <2>1. PICK t : t = Told(u)
        OBVIOUS
    <2>2. t \in Seq(Kinds) /\ out \in Seq(ReplyBatch) /\ down \in Seq(Downward)
        BY <1>4, <2>1 DEF Told, Registered, TypeOK, UserTypes, QueueTypes, Downward
    <2>3. Len(t) + Cardinality(AboutAll(out, u)) \in Nat
        BY <2>2, AmongAllFinite DEF AboutAll
    <2>4. InOrder(t, out, down, u, s)
        BY <1>4, <2>1 DEF Follows
    <2>5. InOrder(t, out, Append(down, m), u, s)
        BY <2>2, <2>3, <2>4, InOrderOther
    <2> QED
        BY <2>1, <2>5
<1>5. WellTold(u)'
    <2> SUFFICES ASSUME Registered(u)' PROVE (Unaborted(u) /\ (Follows(u, sent[u]) \/ Refused(u)))'
        BY DEF WellTold
    <2>1. Registered(u) /\ Unaborted(u) /\ (Follows(u, sent[u]) \/ Refused(u))
        BY <1>2 DEF AnswerOf, WellTold
    <2>2. Follows(u, sent[u]) => Follows(u, sent[u])'
        BY <1>2, <1>4, <2>1 DEF Follows
    <2>3. Follows(u, <<"error">>) => Follows(u, <<"error">>)'
        BY <1>2, <1>4, <2>1 DEF Follows
    <2>4. Refused(u) => Refused(u)'
        BY <1>3, <2>3 DEF Refused
    <2> QED
        BY <1>2, <2>1, <2>2, <2>4
<1>6. EndIsObserved(u)' /\ NothingBefore(u)' /\ Answered(u)' /\ Orderly(sent[u])'
    <2>1. EndIsObserved(u)'
        BY <1>1, <1>2 DEF AnswerOf, EndIsObserved
    <2> QED
        BY <1>1, <2>1 DEF AnswerOf, NothingBefore, Answered
<1> QED
    BY <1>5, <1>6 DEF AnswerOf

(* What the scheduler may send next keeps the order of the kinds.          *)
LEMMA OrderlyMore ==
    ASSUME NEW s \in Seq(Kinds), NEW k \in Kinds, Orderly(s), Contract!MayFollow(s, k)
    PROVE  Orderly(Append(s, k))
<1>1. PICK r : r = Append(s, k)
    OBVIOUS
<1>2. PICK n \in Nat : n = Len(s)
    OBVIOUS
<1>3. /\ DOMAIN s = 1 .. n /\ DOMAIN r = 1 .. (n + 1) /\ r[n + 1] = k
      /\ \A i \in 1 .. n : r[i] = s[i]
    BY <1>1, <1>2, AppendFacts
<1>4. ASSUME NEW i \in DOMAIN r, NEW j \in DOMAIN r, i < j
      PROVE  r[j] # "admit" /\ (r[i] \in Errors => r[j] \in Errors)
    <2>1. i \in 1 .. n /\ r[i] = s[i]
        BY <1>3, <1>4
    <2>2. CASE j # n + 1
        <3>1. j \in 1 .. n /\ r[j] = s[j]
            BY <1>3, <2>2
        <3> QED
            BY <1>3, <1>4, <2>1, <3>1 DEF Orderly
    <2>3. CASE j = n + 1
        <3>1. s # << >>
            BY <1>2, <2>1
        <3>2. r[j] = k
            BY <1>3, <2>3
        <3>3. k \in Errors \/ (k \in {"tok", "stop", "length"} /\ s[n] \in {"admit", "tok"})
            BY <1>2, <3>1 DEF Contract!MayFollow, Contract!Streaming, Errors
        <3>4. CASE k \in Errors
            BY <3>2, <3>4 DEF Errors
        <3>5. CASE k \in {"tok", "stop", "length"} /\ s[n] \in {"admit", "tok"}
            <4>1. s[n] \notin Errors /\ k # "admit"
                BY <3>5 DEF Errors
            <4>2. i = n \/ (i < n /\ n \in 1 .. n)
                BY <2>1
            <4>3. s[i] \notin Errors
                BY <1>3, <2>1, <4>1, <4>2 DEF Orderly
            <4> QED
                BY <2>1, <3>2, <4>1, <4>3
        <3> QED
            BY <3>3, <3>4, <3>5
    <2> QED
        BY <2>2, <2>3
<1>5. Orderly(r)
    BY <1>4 DEF Orderly
<1> QED
    BY <1>1, <1>5

LEMMA AnswerSent ==
    ASSUME TypeOK, NEW u \in Uids, OfRequest(u), AnswerOf(u), NEW k \in Kinds,
           SchedulerReply(u, k), Settled(u) => Units(sent'[u]) = Units(sent[u])
    PROVE  AnswerOf(u)'
<1>1. PICK m : m = [k |-> k, id |-> u]
    OBVIOUS
<1>2. m.k = k /\ m.id = u /\ m \in Downward
    BY <1>1 DEF Downward, UserReply
<1>3. /\ MaySend(u, k) /\ down' = Append(down, m)
      /\ sent' = [sent EXCEPT ![u] = Append(@, k)]
      /\ ackDue' = IF k = "ack" THEN [ackDue EXCEPT ![u] = @ - 1] ELSE ackDue
      /\ UNCHANGED <<up, out, userVars>>
    BY <1>1 DEF SchedulerReply
<1>4. /\ down \in Seq(Downward) /\ sent[u] \in Seq(Kinds) /\ sent'[u] = Append(sent[u], k)
      /\ out \in Seq(ReplyBatch) /\ ackDue[u] \in Nat
    BY <1>3 DEF TypeOK, QueueTypes, Downward
<1>5. UNCHANGED <<client, inflight, seen, ack_map>>
    BY <1>3 DEF userVars
<1>6. (Registered(u)' <=> Registered(u)) /\ Told(u)' = Told(u)
    BY <1>5 DEF Registered, Told
<1>7. /\ Contract!MayFollow(sent[u], k)
      /\ k \in {"admit", "error"} => u \in toScheduler
      /\ k \in Sampled => Contract!Streaming(sent[u])
      /\ k = "ack" => ackDue[u] > 0
    BY <1>3 DEF MaySend, Contract!MayFollow, Sampled, Final, Contract!Streaming
<1>8. k \in {"admit", "error"} \/ k \in Sampled \/ k = "ack"
    BY DEF Kinds, Errors
<1>9. Orderly(sent[u])'
    <2>1. Orderly(Append(sent[u], k))
        BY <1>4, <1>7, OrderlyMore DEF AnswerOf
    <2> QED
        BY <1>4, <2>1
<1>10. ASSUME Registered(u) PROVE (Unaborted(u) /\ Follows(u, sent[u]))'
    <2>1. Unaborted(u) /\ (Follows(u, sent[u]) \/ Refused(u))
        BY <1>10 DEF AnswerOf, WellTold
    <2>2. ackDue[u] = 0
        BY <2>1 DEF Unaborted
    <2>3. k # "ack"
        BY <1>7, <2>2
    <2>4. ~Refused(u)
        BY <1>7, <1>8, <2>3 DEF Refused, Silent
    <2>5. Unaborted(u)'
        BY <1>3, <2>1, <2>3 DEF Unaborted
    <2>6. PICK t : t = Told(u)
        OBVIOUS
    <2>7. t \in Seq(Kinds)
        BY <1>10, <2>6 DEF Told, Registered, TypeOK, UserTypes
    <2>8. InOrder(t, out, down, u, sent[u])
        BY <2>1, <2>4, <2>6 DEF Follows
    <2>9. InOrder(t, out, Append(down, m), u, Append(sent[u], m.k))
        BY <1>2, <1>4, <2>7, <2>8, InOrderMore
    <2>10. Follows(u, sent[u])'
        BY <1>2, <1>3, <1>4, <1>6, <2>6, <2>9 DEF Follows
    <2> QED
        BY <2>5, <2>10
<1>11. WellTold(u)'
    BY <1>6, <1>10 DEF WellTold
<1>12. EndIsObserved(u)' /\ NothingBefore(u)'
    BY <1>5, <1>6 DEF AnswerOf, EndIsObserved, NothingBefore
<1>13. Answered(u)'
    <2> SUFFICES ASSUME client'[u] = "done" PROVE Answered(u)'
        BY DEF Answered
    <2>1. Settled(u) /\ (\/ IsPrefix(seen[u], sent[u]) /\ Last(seen[u]) \in Finished
                         \/ seen[u] = <<"error">> /\ Units(sent[u]) = 0)
        BY <1>5 DEF AnswerOf, Answered, EndIsObserved, Settled
    <2>2. CASE IsPrefix(seen[u], sent[u]) /\ Last(seen[u]) \in Finished
        <3>1. PICK a : a = seen[u]
            OBVIOUS
        <3>2. PICK s : s = sent[u]
            OBVIOUS
        <3>3. a \in Seq(Kinds) /\ s \in Seq(Kinds) /\ Append(s, k) \in Seq(Kinds)
            BY <1>4, <3>1, <3>2 DEF TypeOK, UserTypes
        <3>4. IsPrefix(a, s)
            BY <2>2, <3>1, <3>2
        <3>5. IsPrefix(a, Append(s, k))
            <4>1. Len(a) <= Len(s) /\ SubSeq(a, 1, Len(a)) = SubSeq(s, 1, Len(a))
                BY <3>4 DEF IsPrefix
            <4>2. Len(a) \in 0 .. Len(a) /\ Len(a) \in 0 .. Len(s) /\ Len(a) \in Nat /\ Len(s) \in Nat
                BY <3>3, <4>1
            <4>3. \A n \in 1 .. Len(a) : SubSeq(a, 1, Len(a))[n] = a[n]
                BY <3>3, <4>2, TakenFacts
            <4>4. \A n \in 1 .. Len(a) : SubSeq(s, 1, Len(a))[n] = s[n]
                BY <3>3, <4>2, TakenFacts
            <4>5. \A n \in 1 .. Len(a) : n \in 1 .. Len(s)
                BY <4>1, <4>2
            <4>6. \A n \in 1 .. Len(s) : Append(s, k)[n] = s[n]
                BY <3>3
            <4>7. Len(a) <= Len(Append(s, k))
                BY <3>3, <4>1, <4>2
            <4>8. \A n \in 1 .. Len(a) : a[n] = Append(s, k)[n]
                BY <4>1, <4>3, <4>4, <4>5, <4>6
            <4> QED
                BY <3>3, <4>7, <4>8, PrefixIs
        <3>6. IsPrefix(seen'[u], sent'[u]) /\ Last(seen'[u]) \in Finished
            BY <1>4, <1>5, <2>2, <3>1, <3>2, <3>5
        <3> QED
            BY <3>6 DEF Answered
    <2>3. CASE seen[u] = <<"error">> /\ Units(sent[u]) = 0
        <3>1. seen'[u] = <<"error">> /\ Units(sent'[u]) = 0
            BY <1>5, <2>1, <2>3
        <3> QED
            BY <3>1 DEF Answered
    <2> QED
        BY <2>1, <2>2, <2>3
<1> QED
    BY <1>9, <1>11, <1>12, <1>13 DEF AnswerOf

LEMMA AnswerOfReplies ==
    ASSUME TypeOK, NEW u \in Uids, OfRequest(u), AnswerOf(u), Replies, [Next]_vars
    PROVE  AnswerOf(u)'
<1>1. Settled(u) => Units(sent'[u]) = Units(sent[u])
    BY SettledStays
<1>2. ASSUME NEW v \in Uids, NEW k \in Kinds, SchedulerReply(v, k) PROVE AnswerOf(u)'
    <2>1. CASE v = u
        BY <1>1, <1>2, <2>1, AnswerSent
    <2>2. CASE v # u
        <3>1. PICK m : m = [k |-> k, id |-> v]
            OBVIOUS
        <3>2. m \in Downward /\ m.id # u
            BY <2>2, <3>1 DEF Downward, UserReply
        <3>3. /\ down' = Append(down, m) /\ UNCHANGED <<up, out, userVars>>
              /\ sent' = [sent EXCEPT ![v] = Append(@, k)]
              /\ toScheduler' = IF k \in Sampled THEN toScheduler ELSE toScheduler \ {v}
              /\ ackDue' = IF k = "ack" THEN [ackDue EXCEPT ![v] = @ - 1] ELSE ackDue
            BY <1>2, <3>1 DEF SchedulerReply
        <3>4. /\ sent'[u] = sent[u] /\ ackDue'[u] = ackDue[u]
              /\ u \in toScheduler' <=> u \in toScheduler
            BY <2>2, <3>3 DEF TypeOK, QueueTypes
        <3> QED
            BY <3>2, <3>3, <3>4, AnswerOther
    <2> QED
        BY <2>1, <2>2
<1>3. ASSUME NEW r \in Rebuilds, NEW k \in Outcomes, SchedulerRebuilt(r, k)
      PROVE  AnswerOf(u)'
    <2>1. PICK m : m = [k |-> k, id |-> r]
        OBVIOUS
    <2>2. m \in Downward /\ m.id # u
        BY <2>1, IdsAssumption DEF Downward, RebuildReply
    <2>3. /\ down' = Append(down, m) /\ UNCHANGED <<up, out, userVars, sent, ackDue>>
          /\ toScheduler' = toScheduler \ {r} /\ u # r
        BY <1>3, <2>1, IdsAssumption DEF SchedulerRebuilt
    <2> QED
        BY <2>2, <2>3, AnswerOther
<1> QED
    BY <1>2, <1>3 DEF Replies

(* A pass, up to the errors for the requests that cannot be encoded.       *)
PassedOn(z, bad, u, s, h) ==
    /\ z \in Seq(ReplyBatch) /\ out' = Added(z, Reply("error", bad))
    /\ AllInRank(z, u, s, h) /\ InRank(down', u, s, h + Cardinality(AboutAll(z, u)))
    /\ Cardinality(AboutAll(z, u)) \in Nat /\ Cardinality(About(down', u)) \in Nat
    /\ Cardinality(AboutAll(z, u)) + Cardinality(About(down', u))
           = Cardinality(AboutAll(out, u)) + Cardinality(About(down, u))

LEMMA PassPlaces ==
    ASSUME TypeOK, NEW i \in Nat, NEW j \in Nat, NEW bad, Pass(i, j, bad), NEW u \in Uids,
           NEW s \in Seq(Kinds), Orderly(s), NEW h \in Nat, AllInRank(out, u, s, h),
           InRank(down, u, s, h + Cardinality(AboutAll(out, u))),
           h + Cardinality(AboutAll(out, u)) + Cardinality(About(down, u)) <= Len(s)
    PROVE  \E z : PassedOn(z, bad, u, s, h)
<1>1. /\ down \in Seq(Downward) /\ out \in Seq(ReplyBatch) /\ j \in 0 .. Len(down)
      /\ down' = SubSeq(down, j + 1, Len(down))
      /\ out' = WithRefused(SubSeq(down, 1, j), bad)
    BY DEF Pass, TypeOK, QueueTypes, Downward
<1>2. PICK d : d = SubSeq(down, 1, j)
    OBVIOUS
<1>3. PICK e : e = down'
    OBVIOUS
<1>4. d \in Seq(Downward) /\ e \in Seq(Downward)
    BY <1>1, <1>2, <1>3, TakenFacts, LeftFacts
<1>5. PICK a : a = Cardinality(AboutAll(out, u))
    OBVIOUS
<1>6. PICK n : n = Cardinality(About(d, u))
    OBVIOUS
<1>7. PICK c : c = Cardinality(About(e, u))
    OBVIOUS
<1>8. a \in Nat /\ n \in Nat /\ c \in Nat
    BY <1>1, <1>4, <1>5, <1>6, <1>7, AmongFinite, AmongAllFinite DEF AboutAll, About
<1>9. Cardinality(About(down, u)) = n + c
    <2>1. Cardinality(Among(down, u, Kinds)) = Cardinality(Among(SubSeq(down, 1, j), u, Kinds))
                              + Cardinality(Among(SubSeq(down, j + 1, Len(down)), u, Kinds))
        BY <1>1, LeftCount
    <2> QED
        BY <1>1, <1>2, <1>3, <1>6, <1>7, <2>1 DEF About
<1>10. PICK g \in Nat : g = h + a
    BY <1>8
<1>11. InRank(down, u, s, g)
    BY <1>5, <1>10
<1>12. InRank(d, u, s, g) /\ InRank(e, u, s, g + n)
    <2>1. /\ InRank(SubSeq(down, 1, j), u, s, g)
          /\ InRank(SubSeq(down, j + 1, Len(down)), u, s,
                    g + Cardinality(About(SubSeq(down, 1, j), u)))
        BY <1>1, <1>11, LeftRank
    <2> QED
        BY <1>1, <1>2, <1>3, <1>6, <2>1
<1>13. h + a + n <= Len(s)
    <2>1. PICK l \in Nat : l = Len(s)
        OBVIOUS
    <2>2. h + a + (n + c) <= l
        BY <1>5, <1>9, <2>1
    <2>3. h + a + n <= l
        BY <1>8, <2>2
    <2> QED
        BY <2>1, <2>3
<1>14. PICK z : z = WithErrors(d)
    OBVIOUS
<1>15. z \in Seq(ReplyBatch) /\ AllInRank(z, u, s, h) /\ Cardinality(AboutAll(z, u)) = a + n
    BY <1>1, <1>4, <1>5, <1>6, <1>10, <1>12, <1>13, <1>14, PassRank
<1>16. h + Cardinality(AboutAll(z, u)) = g + n
    BY <1>8, <1>10, <1>15
<1>17. out' = Added(z, Reply("error", bad))
    BY <1>1, <1>2, <1>14 DEF WithRefused
<1>18. /\ Cardinality(AboutAll(z, u)) \in Nat
       /\ Cardinality(AboutAll(z, u)) + c = a + (n + c)
    BY <1>8, <1>15
<1>19. PassedOn(z, bad, u, s, h)
    BY <1>3, <1>5, <1>7, <1>8, <1>9, <1>12, <1>15, <1>16, <1>17, <1>18 DEF PassedOn
<1> QED
    BY <1>19

LEMMA PassInOrder ==
    ASSUME TypeOK, NEW i \in Nat, NEW j \in Nat, NEW bad, Pass(i, j, bad), NEW u \in Uids,
           u \notin bad, NEW t \in Seq(Kinds), NEW s \in Seq(Kinds), Orderly(s),
           InOrder(t, out, down, u, s)
    PROVE  InOrder(t, out', down', u, s)
<1>1. PICK h \in Nat : h = Len(t)
    OBVIOUS
<1>2. PICK a : a = Cardinality(AboutAll(out, u))
    OBVIOUS
<1>3. PICK c : c = Cardinality(About(down, u))
    OBVIOUS
<1>4. a \in Nat /\ c \in Nat /\ Len(s) \in Nat
    BY <1>2, <1>3, AmongFinite, AmongAllFinite DEF AboutAll, About, TypeOK, QueueTypes
<1>5. /\ h + a + c = Len(s) /\ \A p \in 1 .. h : t[p] = s[p]
      /\ AllInRank(out, u, s, h) /\ InRank(down, u, s, h + a)
    BY <1>1, <1>2, <1>3 DEF InOrder
<1>6. h + a + c <= Len(s)
    BY <1>4, <1>5
<1>7. \E z : PassedOn(z, bad, u, s, h)
    BY <1>2, <1>3, <1>5, <1>6, PassPlaces
<1>8. PICK z : PassedOn(z, bad, u, s, h)
    BY <1>7
<1>9. PICK b : b = Cardinality(AboutAll(z, u))
    OBVIOUS
<1>10. PICK e : e = Cardinality(About(down', u))
    OBVIOUS
<1>11. /\ z \in Seq(ReplyBatch) /\ out' = Added(z, Reply("error", bad))
       /\ AllInRank(z, u, s, h) /\ InRank(down', u, s, h + b)
       /\ b \in Nat /\ e \in Nat /\ b + e = a + c
    BY <1>2, <1>3, <1>8, <1>9, <1>10 DEF PassedOn
<1>12. PICK R : R = Reply("error", bad)
    OBVIOUS
<1>13. R \in Seq(UserReply) /\ About(R, u) = {}
    BY <1>12, RefusedAbout DEF Pass
<1>14. InRank(R, u, s, h + Cardinality(AboutAll(z, u)))
    BY <1>13 DEF InRank
<1>15. AllInRank(out', u, s, h)
    BY <1>11, <1>12, <1>13, <1>14, AddedRank
<1>16. Cardinality(AboutAll(out', u)) = b
    <2>1. Cardinality(AmongAll(Added(z, R), u, Kinds))
              = Cardinality(AmongAll(z, u, Kinds)) + Cardinality(Among(R, u, Kinds))
        BY <1>11, <1>13, AddedAll
    <2>2. Cardinality(Among(R, u, Kinds)) = 0
        BY <1>13, FS_EmptySet DEF About
    <2>3. Cardinality(AmongAll(z, u, Kinds)) = b
        BY <1>9 DEF AboutAll
    <2>4. Cardinality(AmongAll(out', u, Kinds)) = b
        BY <1>11, <1>12, <2>1, <2>2, <2>3
    <2> QED
        BY <2>4 DEF AboutAll
<1>17. (h + b) + e = Len(s)
    <2>1. PICK l \in Nat : l = Len(s)
        BY <1>4
    <2>2. (h + b) + e = l
        BY <1>4, <1>5, <1>11, <2>1
    <2> QED
        BY <2>1, <2>2
<1> QED
    BY <1>1, <1>5, <1>10, <1>11, <1>15, <1>16, <1>17 DEF InOrder

LEMMA PassRefused ==
    ASSUME TypeOK, NEW i \in Nat, NEW j \in Nat, NEW bad, Pass(i, j, bad), NEW u \in Uids,
           u \in bad, NEW t \in Seq(Kinds), InOrder(t, out, down, u, << >>)
    PROVE  InOrder(t, out', down', u, <<"error">>)
<1>1. PICK h \in Nat : h = Len(t)
    OBVIOUS
<1>2. PICK a : a = Cardinality(AboutAll(out, u))
    OBVIOUS
<1>3. PICK c : c = Cardinality(About(down, u))
    OBVIOUS
<1>4. a \in Nat /\ c \in Nat /\ out \in Seq(ReplyBatch) /\ down \in Seq(Downward)
    BY <1>2, <1>3, AmongFinite, AmongAllFinite DEF AboutAll, About, TypeOK, QueueTypes, Downward
<1>5. h + a + c = 0 /\ AllInRank(out, u, << >>, h) /\ InRank(down, u, << >>, h + a)
    BY <1>1, <1>2, <1>3 DEF InOrder
<1>6. h = 0 /\ a = 0 /\ c = 0
    BY <1>4, <1>5
<1>7. PICK s : s = <<"error">>
    OBVIOUS
<1>8. s \in Seq(Kinds) /\ Len(s) = 1 /\ DOMAIN s = {1} /\ s[1] = "error"
    BY <1>7 DEF Kinds, Errors
<1>9. Orderly(s)
    BY <1>8 DEF Orderly
<1>10. PICK n \in Nat : n = 0
    OBVIOUS
<1>11. h + Cardinality(AboutAll(out, u)) <= n /\ \A p \in 1 .. n : s[p] = << >>[p]
    BY <1>2, <1>6, <1>10
<1>12. AllInRank(out, u, s, h)
    BY <1>4, <1>5, <1>11, AllRankGrows
<1>13. PICK g \in Nat : g = h + a
    BY <1>4
<1>14. InRank(down, u, << >>, g) /\ g + Cardinality(About(down, u)) <= n
    BY <1>3, <1>5, <1>6, <1>10, <1>13
<1>15. InRank(down, u, s, g)
    BY <1>4, <1>11, <1>14, RankGrows
<1>16. h + a + c <= Len(s)
    BY <1>6, <1>8
<1>17. \E z : PassedOn(z, bad, u, s, h)
    BY <1>2, <1>3, <1>8, <1>9, <1>12, <1>13, <1>15, <1>16, PassPlaces
<1>18. PICK z : PassedOn(z, bad, u, s, h)
    BY <1>17
<1>19. /\ z \in Seq(ReplyBatch) /\ out' = Added(z, Reply("error", bad))
       /\ AllInRank(z, u, s, h)
       /\ Cardinality(AboutAll(z, u)) = 0 /\ Cardinality(About(down', u)) = 0
    BY <1>2, <1>3, <1>6, <1>18 DEF PassedOn
<1>20. PICK R : R = Reply("error", bad)
    OBVIOUS
<1>21. /\ R \in Seq(UserReply) /\ \A p \in DOMAIN R : R[p].k = "error"
       /\ Cardinality(About(R, u)) = 1
    BY <1>20, RefusedAbout DEF Pass
<1>22. ASSUME NEW p \in About(R, u)
       PROVE  R[p].k = s[(h + Cardinality(AboutAll(z, u))) + Cardinality(Upto(R, u, p))]
    <2>1. /\ p \in DOMAIN R /\ Cardinality(Upto(R, u, p)) \in Nat
          /\ 1 <= Cardinality(Upto(R, u, p)) /\ Cardinality(Upto(R, u, p)) <= 1
        BY <1>21, UptoFacts
    <2>2. (h + Cardinality(AboutAll(z, u))) + Cardinality(Upto(R, u, p)) = 1
        BY <1>6, <1>19, <2>1
    <2> QED
        BY <1>8, <1>21, <2>1, <2>2
<1>23. InRank(R, u, s, h + Cardinality(AboutAll(z, u)))
    BY <1>22 DEF InRank
<1>24. AllInRank(out', u, s, h)
    BY <1>19, <1>20, <1>21, <1>23, AddedRank
<1>25. Cardinality(AboutAll(out', u)) = 1
    <2>1. Cardinality(AmongAll(Added(z, R), u, Kinds))
              = Cardinality(AmongAll(z, u, Kinds)) + Cardinality(Among(R, u, Kinds))
        BY <1>19, <1>21, AddedAll
    <2> QED
        BY <1>19, <1>20, <1>21, <2>1 DEF AboutAll, About
<1>26. About(down', u) = {}
    <2>1. down' \in Seq(Downward)
        BY <1>4, LeftFacts DEF Pass
    <2> QED
        BY <1>19, <2>1, AmongFinite DEF About
<1>27. \A x : InRank(down', u, s, x)
    BY <1>26 DEF InRank
<1>28. h + 1 + 0 = Len(s) /\ \A p \in 1 .. h : t[p] = s[p]
    BY <1>6, <1>8
<1> QED
    BY <1>1, <1>7, <1>19, <1>24, <1>25, <1>27, <1>28 DEF InOrder

(* A pass of the worker: what is told stays in order, or u is refused.     *)
LEMMA AnswerPassed ==
    ASSUME TypeOK, NEW u \in Uids, OfRequest(u), AnswerOf(u), TokenizerStep
    PROVE  AnswerOf(u)'
<1>1. PICK i, j \in Nat : \E bad \in SUBSET Uids : Pass(i, j, bad)
    BY TokenizerPass
<1>2. PICK bad \in SUBSET Uids : Pass(i, j, bad)
    BY <1>1
<1>3. UNCHANGED <<client, inflight, seen, ack_map, sent>>
    BY <1>2 DEF Pass, userVars
<1>4. /\ \A n \in DOMAIN up' : n + i \in DOMAIN up /\ up'[n] = up[n + i]
      /\ \A n \in 1 .. i : n \in DOMAIN up
      /\ u \in bad => Asked(u) # {}
      /\ Asked(u) # {} => u \notin toScheduler /\ sent[u] = << >> /\ ackDue[u] = 0
      /\ (\A n \in 1 .. i : up[n] # [k |-> "abort", id |-> u]) => ackDue'[u] = ackDue[u]
      /\ (Silent(u) => Silent(u)') /\ (u \in bad => Silent(u)')
    BY <1>2, PassAsked
<1>5. AnswerOf(u)
    OBVIOUS
<1>6. Orderly(sent[u]) /\ WellTold(u) /\ EndIsObserved(u) /\ NothingBefore(u) /\ Answered(u)
    BY <1>5 DEF AnswerOf
<1>7. ASSUME Registered(u)'
      PROVE  Unaborted(u)' /\ (Follows(u, sent[u]) \/ Refused(u))'
    <2>1. Registered(u) /\ Unaborted(u) /\ (Follows(u, sent[u]) \/ Refused(u))
        BY <1>3, <1>6, <1>7 DEF Registered, WellTold
    <2>2. Unaborted(u)'
        <3>1. ackDue'[u] = 0
            BY <1>4, <2>1 DEF Unaborted
        <3>2. \A n \in DOMAIN up' : up'[n] # [k |-> "abort", id |-> u]
            BY <1>4, <2>1 DEF Unaborted
        <3> QED
            BY <3>1, <3>2 DEF Unaborted
    <2>3. PICK t : t = Told(u)
        OBVIOUS
    <2>4. Told(u)' = t
        BY <1>3, <2>3 DEF Told
    <2>5. t \in Seq(Kinds) /\ sent[u] \in Seq(Kinds) /\ <<"error">> \in Seq(Kinds)
        BY <2>1, <2>3 DEF Told, Registered, TypeOK, UserTypes, QueueTypes, Kinds, Errors
    <2>6. ASSUME NEW s \in Seq(Kinds), Orderly(s), Follows(u, s), u \notin bad
          PROVE  InOrder(t, out', down', u, s)
        <3>1. InOrder(t, out, down, u, s)
            BY <2>3, <2>6 DEF Follows
        <3> QED
            BY <1>2, <2>5, <2>6, <3>1, PassInOrder
    <2>7. ASSUME NEW s, InOrder(t, out', down', u, s), s = sent[u]
          PROVE  Follows(u, sent[u])'
        BY <1>3, <2>4, <2>7 DEF Follows
    <2>8. ASSUME InOrder(t, out', down', u, <<"error">>), sent[u] = << >>, Silent(u)'
          PROVE  Refused(u)'
        BY <1>3, <2>4, <2>8 DEF Follows, Refused
    <2>9. CASE u \notin bad /\ Follows(u, sent[u])
        BY <1>6, <2>2, <2>5, <2>6, <2>7, <2>9
    <2>10. CASE u \notin bad /\ Refused(u)
        <3>1. Orderly(<<"error">>)
            BY DEF Orderly
        <3>2. sent[u] = << >> /\ Silent(u)' /\ Follows(u, <<"error">>)
            BY <1>4, <2>10 DEF Refused
        <3> QED
            BY <2>2, <2>5, <2>6, <2>8, <2>10, <3>1, <3>2
    <2>11. CASE u \in bad
        <3>1. Silent(u)' /\ sent[u] = << >> /\ ~Silent(u)
            BY <1>4, <2>11 DEF Silent
        <3>2. Follows(u, << >>)
            BY <2>1, <3>1 DEF Refused
        <3>3. InOrder(t, out, down, u, << >>)
            BY <2>3, <3>2 DEF Follows
        <3>4. InOrder(t, out', down', u, <<"error">>)
            BY <1>2, <2>5, <2>11, <3>3, PassRefused
        <3> QED
            BY <2>2, <2>8, <3>1, <3>4
    <2> QED
        BY <2>1, <2>9, <2>10, <2>11
<1>8. WellTold(u)'
    BY <1>3, <1>7 DEF WellTold
<1>9. EndIsObserved(u)'
    BY <1>3, <1>6 DEF EndIsObserved, Registered
<1>10. NothingBefore(u)' /\ Answered(u)' /\ Orderly(sent[u])'
    BY <1>3, <1>6 DEF NothingBefore, Answered
<1> QED
    BY <1>8, <1>9, <1>10 DEF AnswerOf

(* A step that changes nothing that u was, is or will be told.             *)
LEMMA AnswerQuiet ==
    ASSUME TypeOK, NEW u \in Uids, AnswerOf(u), [Next]_vars, Silently,
           ~\E v \in Uids : Consume(v) \/ Disconnect(v)
    PROVE  AnswerOf(u)'
<1>1. UpOfOthers(u)
    <2>1. CASE \E r \in Rebuilds : SendRebuild(r)
        <3>1. PICK r \in Rebuilds : SendRebuild(r)
            BY <2>1
        <3>2. PICK m : m = [k |-> "rebuild", id |-> r]
            OBVIOUS
        <3>3. m \in Requested /\ m.id # u
            BY <3>2, IdsAssumption DEF Requested
        <3>4. up' = up \/ up' = Append(up, m)
            BY <3>1, <3>2 DEF SendRebuild, Send, SendRaises
        <3> QED
            BY <3>3, <3>4 DEF UpOfOthers
    <2>2. CASE ~\E r \in Rebuilds : SendRebuild(r)
        <3>1. up' = up
            BY <2>2 DEF Next, Silently, Reopen, ResolveAll, CacheRebuild,
               TimeoutRebuild, Dispatch, CloseGate, StopBegin, StopSeal, StopAbort, StopAborted,
               StopTimeout, SupervisorStep, WorkersReady, WorkerDies, vars
        <3> QED
            BY <3>1 DEF UpOfOthers
    <2> QED
        BY <2>1, <2>2
<1>2. UNCHANGED <<down, out, toScheduler, sent, ackDue, seen, inflight, client, ack_map>>
    BY DEF Next, Silently, Reopen, ResolveAll, CacheRebuild,
       TimeoutRebuild, Dispatch, CloseGate, SendRebuild, StopBegin, StopSeal, StopAbort,
       StopAborted, StopTimeout, SupervisorStep, WorkersReady, WorkerDies, vars, userVars,
       schedVars
<1>3. Registered(u)' => Registered(u) /\ ack_map'[u] = ack_map[u] /\ UpOfOthers(u)
    BY <1>1, <1>2 DEF Registered
<1> QED
    BY <1>2, <1>3, AnswerKept

LEMMA AnswerNext ==
    ASSUME TypeOK, NEW u \in Uids, OfRequest(u), AnswerOf(u), [Next]_vars
    PROVE  AnswerOf(u)'
<1>1. ASSUME NEW v \in Uids, Submit(v) PROVE AnswerOf(u)'
    <2>1. CASE v = u
        BY <1>1, <2>1, AnswerMade
    <2>2. CASE v # u
        <3>1. PICK m : m = [k |-> "tokenize", id |-> v]
            OBVIOUS
        <3>2. m \in Requested /\ m.id # u
            BY <2>2, <3>1 DEF Requested
        <3>3. /\ up' = up \/ up' = Append(up, m)
              /\ UNCHANGED <<down, out, toScheduler, sent, ackDue, seen>>
              /\ client'[u] = client[u] /\ inflight' = inflight \cup {v}
              /\ DOMAIN ack_map' = DOMAIN ack_map \cup {v}
              /\ u \in DOMAIN ack_map => ack_map'[u] = ack_map[u]
            BY <1>1, <2>2, <3>1 DEF Submit, Send, SendRaises, schedVars, TypeOK, UserTypes
        <3>4. UpOfOthers(u)
            BY <3>2, <3>3 DEF UpOfOthers
        <3>5. Registered(u)' => Registered(u) /\ ack_map'[u] = ack_map[u] /\ UpOfOthers(u)
            BY <2>2, <3>3, <3>4 DEF Registered
        <3> QED
            BY <2>2, <3>3, <3>5, AnswerKept
    <2> QED
        BY <2>1, <2>2
<1>2. ASSUME NEW v \in Uids, Consume(v) PROVE AnswerOf(u)'
    <2>1. CASE v = u
        BY <1>2, <2>1, AnswerTaken
    <2>2. CASE v # u
        <3>1. /\ UNCHANGED <<up, down, out, toScheduler, sent, ackDue, inflight>>
              /\ client'[u] = client[u] /\ seen'[u] = seen[u]
              /\ u \in DOMAIN ack_map' <=> u \in DOMAIN ack_map
              /\ u \in DOMAIN ack_map => ack_map'[u] = ack_map[u]
            BY <1>2, <2>2 DEF Consume, Unregistered, schedVars, TypeOK, UserTypes
        <3>2. Registered(u)' => Registered(u) /\ ack_map'[u] = ack_map[u] /\ UpOfOthers(u)
            BY <3>1 DEF Registered, UpOfOthers
        <3> QED
            BY <3>1, <3>2, AnswerKept
    <2> QED
        BY <2>1, <2>2
<1>3. ASSUME NEW v \in Uids, Disconnect(v) PROVE AnswerOf(u)'
    <2>1. /\ UNCHANGED <<up, down, out, toScheduler, sent, ackDue, inflight, seen>>
          /\ client' = [client EXCEPT ![v] = "gone"] /\ ack_map' = Unregistered(v)
        BY <1>3 DEF Disconnect, schedVars
    <2>2. /\ client'[u] = client[u] \/ client'[u] \in {"gone", "broken"}
          /\ v = u => client'[u] = "gone"
          /\ v # u => client'[u] = client[u]
        BY <2>1 DEF TypeOK, UserTypes
    <2>3. u \in DOMAIN ack_map' => u \in DOMAIN ack_map /\ u # v /\ ack_map'[u] = ack_map[u]
        BY <2>1 DEF Unregistered
    <2>4. Registered(u)' => Registered(u) /\ ack_map'[u] = ack_map[u] /\ UpOfOthers(u)
        BY <2>1, <2>2, <2>3 DEF Registered, UpOfOthers
    <2> QED
        BY <2>1, <2>2, <2>4, AnswerKept
<1>4. ASSUME NEW v \in Uids, NEW who \in {"client", "stop"}, AbortUser(v, who)
      PROVE  AnswerOf(u)'
    <2>1. PICK m : m = [k |-> "abort", id |-> v]
        OBVIOUS
    <2>2. /\ up' = up \/ up' = Append(up, m)
          /\ UNCHANGED <<down, out, toScheduler, sent, ackDue, inflight, seen>>
          /\ client' = [client EXCEPT ![v] =
                 IF @ = "waiting" /\ v \in DOMAIN ack_map /\ ack_map[v] # << >>
                 THEN "broken" ELSE @]
          /\ ack_map' = Unregistered(v)
        BY <1>4, <2>1 DEF AbortUser, Send, SendRaises, schedVars
    <2>3. /\ client'[u] = client[u] \/ client'[u] \in {"gone", "broken"}
          /\ v # u => client'[u] = client[u]
        BY <2>2 DEF TypeOK, UserTypes
    <2>4. u \in DOMAIN ack_map' => u \in DOMAIN ack_map /\ u # v /\ ack_map'[u] = ack_map[u]
        BY <2>2 DEF Unregistered
    <2>5. v # u => UpOfOthers(u)
        BY <2>1, <2>2 DEF UpOfOthers, Requested
    <2>6. Registered(u)' => Registered(u) /\ ack_map'[u] = ack_map[u] /\ UpOfOthers(u)
        BY <2>3, <2>4, <2>5 DEF Registered
    <2> QED
        BY <2>2, <2>3, <2>6, AnswerKept
<1>5. CASE Silently /\ ~\E v \in Uids : Consume(v) \/ Disconnect(v)
    BY <1>5, AnswerQuiet
<1>6. CASE ListenReplies \/ ResolveRebuild
    BY <1>6, AnswerHeard
<1>7. CASE TokenizerStep
    BY <1>7, AnswerPassed
<1>8. CASE Replies
    BY <1>8, AnswerOfReplies
<1> QED
    BY <1>1, <1>2, <1>3, <1>4, <1>5, <1>6, <1>7, <1>8 DEF Silently, Requests, Aborts

LEMMA AnswerInit == Init => AnswerInv
<1> SUFFICES ASSUME Init, NEW u \in Uids PROVE AnswerOf(u)
    BY DEF AnswerInv
<1>1. client[u] = "new" /\ sent[u] = << >> /\ seen[u] = << >>
    BY DEF Init
<1>2. Orderly(sent[u])
    BY <1>1 DEF Orderly
<1> QED
    BY <1>1, <1>2 DEF AnswerOf, WellTold, EndIsObserved, NothingBefore, Answered, Registered

(* wait_for_ack: a consumer that ends normally has yielded all that the    *)
(* scheduler sent for its request up to its end, admission first and in    *)
(* order, however the worker cut the messages into batches and however     *)
(* they met the drains of the listener; or it has yielded the one error of *)
(* a request the tokenizer refused, and nothing was ever sent that counts. *)
THEOREM WholeAnswerHolds == Spec => []WholeAnswer
<1>1. TypeOK /\ SealInv /\ AnswerInv /\ [Next]_vars => AnswerInv'
    BY AnswerNext DEF SealInv, AnswerInv
<1>2. TypeOK /\ SealInv /\ [Next]_vars => SealInv'
    BY SealNext
<1>3. AnswerInv => WholeAnswer
    BY DEF AnswerInv, AnswerOf, Answered, WholeAnswer
<1> QED
    BY <1>1, <1>2, <1>3, SealInit, AnswerInit, TypeCorrect, PTL DEF Spec

=============================================================================

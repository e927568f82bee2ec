--------------------------- MODULE SchedulerProofs ---------------------------
(***************************************************************************)
(* Type correctness, the conservation of table slots and KV pages and the  *)
(* admission control, proved for every number of requests, slots, pages,   *)
(* lengths and budgets, with and without the overlapped loop; and, of the  *)
(* plain loop, that it spends the whole output budget.                     *)
(***************************************************************************)
EXTENDS SchedulerInvariant, SequenceTheorems, FiniteSetTheorems, TLAPS

(* The elements of a sequence, and of what the scheduler makes of one:     *)
(* pending_list grows at its end (add_one_req), loses a prefix             *)
(* (schedule_next_batch) or one request (abort_req).                       *)

LEMMA ElemsType ==
    ASSUME NEW S, NEW s \in Seq(S)
    PROVE  /\ Elems(s) \subseteq S
           /\ Elems(s) = {s[i] : i \in 1 .. Len(s)}
<1>1. DOMAIN s = 1 .. Len(s)
  BY LenProperties
<1>2. \A i \in 1 .. Len(s) : s[i] \in S
  BY ElementOfSeq
<1> QED
  BY <1>1, <1>2 DEF Elems

LEMMA AppendElems ==
    ASSUME NEW S, NEW s \in Seq(S), NEW e \in S
    PROVE  /\ Append(s, e) \in Seq(S)
           /\ Elems(Append(s, e)) = Elems(s) \cup {e}
           /\ Distinct(s) /\ e \notin Elems(s) => Distinct(Append(s, e))
<1> DEFINE t == Append(s, e)
<1>1. /\ t \in Seq(S) /\ Len(t) = Len(s) + 1 /\ Len(s) \in Nat
      /\ \A i \in 1 .. Len(s) : t[i] = s[i]
      /\ t[Len(s) + 1] = e
  BY AppendProperties, LenProperties
<1>2. DOMAIN s = 1 .. Len(s) /\ DOMAIN t = 1 .. Len(t)
  BY <1>1, LenProperties
<1> HIDE DEF t
<1>3. Elems(t) = Elems(s) \cup {e}
  <2>1. ASSUME NEW x \in Elems(t) PROVE x \in Elems(s) \cup {e}
    <3>1. PICK i \in 1 .. Len(s) + 1 : x = t[i]
      BY <1>1, <1>2, <2>1 DEF Elems
    <3>2. CASE i = Len(s) + 1  BY <3>1, <3>2, <1>1
    <3>3. CASE i # Len(s) + 1  
      <4>1. i \in 1 .. Len(s)  BY <3>3, <1>1
      <4> QED BY <4>1, <3>1, <1>1, <1>2 DEF Elems
    <3> QED BY <3>2, <3>3
  <2>2. ASSUME NEW x \in Elems(s) PROVE x \in Elems(t)
    <3>1. PICK i \in 1 .. Len(s) : x = s[i]
      BY <1>2, <2>2 DEF Elems
    <3>2. i \in DOMAIN t /\ t[i] = x
      BY <3>1, <1>1, <1>2
    <3> QED BY <3>2 DEF Elems
  <2>3. e \in Elems(t)
    <3>1. Len(s) + 1 \in DOMAIN t  BY <1>1, <1>2
    <3> QED BY <3>1, <1>1 DEF Elems
  <2> QED BY <2>1, <2>2, <2>3
<1>4. ASSUME Distinct(s), e \notin Elems(s) PROVE Distinct(t)
  <2> SUFFICES ASSUME NEW i \in 1 .. Len(s) + 1, NEW j \in 1 .. Len(s) + 1, 
                      t[i] = t[j]
               PROVE  i = j
    BY <1>1, <1>2 DEF Distinct
  <2>1. \A k \in 1 .. Len(s) : t[k] \in Elems(s) /\ t[k] = s[k]
    BY <1>1, <1>2 DEF Elems
  <2>2. CASE i \in 1 .. Len(s) /\ j \in 1 .. Len(s)
    BY <2>1, <2>2, <1>4, <1>2 DEF Distinct
  <2>3. CASE i = Len(s) + 1 \/ j = Len(s) + 1
    BY <2>1, <2>3, <1>4, <1>1
  <2> QED BY <2>2, <2>3, <1>1
<1> QED
  BY <1>1, <1>3, <1>4 DEF t

(* SubSeq(s, m, Len(s)) is a suffix. *)
LEMMA SuffixElems ==
    ASSUME NEW S, NEW s \in Seq(S), NEW m \in 1 .. Len(s) + 1
    PROVE  LET t == SubSeq(s, m, Len(s))
           IN /\ t \in Seq(S)
              /\ Elems(t) = {s[i] : i \in m .. Len(s)}
              /\ Distinct(s) => Distinct(t)
<1> DEFINE t == SubSeq(s, m, Len(s))
           n == Len(s)
<1>0. n \in Nat /\ m \in Int /\ DOMAIN s = 1 .. n /\ \A i \in 1 .. n : s[i] \in S
  BY LenProperties, ElementOfSeq
<1>1. /\ t \in Seq(S)
      /\ Len(t) = IF m <= n THEN n - m + 1 ELSE 0
      /\ \A i \in 1 .. n - m + 1 : t[i] = s[m + i - 1]
  <2>1. \A i \in m .. n : s[i] \in S  BY <1>0
  <2> HIDE DEF n
  <2> QED BY <2>1, <1>0, SubSeqProperties
<1>2. DOMAIN t = 1 .. n - m + 1 
  BY <1>1, <1>0, LenProperties
<1> HIDE DEF t, n
<1>3. Elems(t) = {s[i] : i \in m .. n}
  <2>1. ASSUME NEW x \in Elems(t) PROVE x \in {s[i] : i \in m .. n}
    <3>1. PICK i \in 1 .. n - m + 1 : x = t[i]
      BY <1>2, <2>1 DEF Elems
    <3>2. m + i - 1 \in m .. n /\ x = s[m + i - 1]
      BY <3>1, <1>1, <1>0
    <3> QED BY <3>2
  <2>2. ASSUME NEW i \in m .. n PROVE s[i] \in Elems(t)
    <3>1. i - m + 1 \in 1 .. n - m + 1
      BY <1>0
    <3>2. t[i - m + 1] = s[i]
      BY <3>1, <1>1, <1>0
    <3> QED BY <3>1, <3>2, <1>2 DEF Elems
  <2> QED BY <2>1, <2>2
<1>4. ASSUME Distinct(s) PROVE Distinct(t)
  <2> SUFFICES ASSUME NEW i \in 1 .. n - m + 1, NEW j \in 1 .. n - m + 1,
                      t[i] = t[j]
               PROVE  i = j
    BY <1>2 DEF Distinct
  <2>1. s[m + i - 1] = s[m + j - 1] /\ m + i - 1 \in 1 .. n /\ m + j - 1 \in 1 .. n
    BY <1>1, <1>0
  <2>2. m + i - 1 = m + j - 1
    BY <2>1, <1>4, <1>0 DEF Distinct
  <2> QED BY <2>2, <1>0
<1> QED BY <1>1, <1>3, <1>4 DEF t, n

(* prefill_manager.abort_req removes the request and nothing else. *)
LEMMA WithoutElems ==
    ASSUME NEW S, NEW s \in Seq(S), NEW u
    PROVE  /\ Without(s, u) \in Seq(S)
           /\ Elems(Without(s, u)) \subseteq Elems(s)
           /\ Elems(s) \ {u} \subseteq Elems(Without(s, u))
           /\ Distinct(s) => /\ Distinct(Without(s, u))
                             /\ u \notin Elems(Without(s, u))
<1> DEFINE n == Len(s)
<1>0. n \in Nat /\ DOMAIN s = 1 .. n /\ \A i \in 1 .. n : s[i] \in S
  BY LenProperties, ElementOfSeq
<1>1. CASE ~ \E i \in DOMAIN s : s[i] = u
  <2>1. Without(s, u) = s BY <1>1 DEF Without
  <2>2. u \notin Elems(s) BY <1>1 DEF Elems
  <2> QED BY <2>1, <2>2
<1>2. CASE \E i \in DOMAIN s : s[i] = u
  <2> DEFINE k == CHOOSE i \in DOMAIN s : s[i] = u
             p == SubSeq(s, 1, k - 1)
             q == SubSeq(s, k + 1, n)
             t == p \o q
  <2>1. k \in 1 .. n /\ s[k] = u
    BY <1>2, <1>0
  <2>2. Without(s, u) = t
    BY <1>2 DEF Without
  <2> HIDE DEF k
  <2>3. /\ p \in Seq(S) /\ Len(p) = k - 1
        /\ \A i \in 1 .. k - 1 : p[i] = s[i]
    <3>1. \A i \in 1 .. k - 1 : s[i] \in S  BY <2>1, <1>0
    <3>2. 1 \in Int /\ k - 1 \in Int BY <2>1
    <3>3. /\ p \in Seq(S) /\ Len(p) = IF 1 <= k - 1 THEN k - 1 - 1 + 1 ELSE 0
          /\ \A i \in 1 .. k - 1 - 1 + 1 : p[i] = s[1 + i - 1]
      BY <3>1, <3>2, SubSeqProperties
    <3> HIDE DEF p
    <3> QED BY <3>3, <2>1
  <2>4. /\ q \in Seq(S) /\ Len(q) = n - k
        /\ \A i \in 1 .. n - k : q[i] = s[k + i]
    <3>1. \A i \in k + 1 .. n : s[i] \in S  BY <2>1, <1>0
    <3>2. k + 1 \in Int /\ n \in Int BY <2>1, <1>0
    <3> HIDE DEF n
    <3>3. /\ q \in Seq(S) /\ Len(q) = IF k + 1 <= n THEN n - (k + 1) + 1 ELSE 0
          /\ \A i \in 1 .. n - (k + 1) + 1 : q[i] = s[k + 1 + i - 1]
      BY <3>1, <3>2, SubSeqProperties
    <3> HIDE DEF q
    <3> QED BY <3>3, <2>1, <1>0
  <2> HIDE DEF p, q, n
  <2>5. /\ t \in Seq(S) /\ Len(t) = n - 1
        /\ \A i \in 1 .. n - 1 : t[i] = IF i < k THEN s[i] ELSE s[i + 1]
    <3>1. /\ t \in Seq(S) /\ Len(t) = Len(p) + Len(q)
          /\ \A i \in 1 .. Len(p) + Len(q) : 
               t[i] = IF i <= Len(p) THEN p[i] ELSE q[i - Len(p)]
      BY <2>3, <2>4, ConcatProperties
    <3> HIDE DEF t
    <3>2. Len(p) + Len(q) = n - 1  BY <2>3, <2>4, <2>1, <1>0
    <3>3. ASSUME NEW i \in 1 .. n - 1
          PROVE  t[i] = IF i < k THEN s[i] ELSE s[i + 1]
      <4>1. CASE i < k
        <5>1. i \in 1 .. k - 1 BY <4>1, <2>1, <1>0
        <5>2. i \in 1 .. Len(p) + Len(q) /\ i <= Len(p)
          BY <5>1, <3>2, <2>3, <2>1, <1>0
        <5>3. t[i] = p[i] BY <5>2, <3>1
        <5> QED BY <5>1, <5>3, <2>3, <4>1
      <4>2. CASE ~ i < k
        <5>1. i - (k - 1) \in 1 .. n - k BY <4>2, <2>1, <1>0
        <5>2. i \in 1 .. Len(p) + Len(q) /\ ~ i <= Len(p) /\ Len(p) = k - 1
          BY <4>2, <3>2, <2>3, <2>1, <1>0
        <5>3. t[i] = q[i - Len(p)] BY <5>2, <3>1
        <5>4. t[i] = q[i - (k - 1)] BY <5>2, <5>3
        <5>5. q[i - (k - 1)] = s[k + (i - (k - 1))] BY <5>1, <2>4
        <5>6. k + (i - (k - 1)) = i + 1 BY <2>1, <1>0
        <5> QED BY <5>4, <5>5, <5>6, <4>2
      <4> QED BY <4>1, <4>2
    <3> QED BY <3>1, <3>2, <3>3
  <2>6. DOMAIN t = 1 .. n - 1 
    BY <2>5, LenProperties
  <2> HIDE DEF t
  <2>7. Elems(t) \subseteq Elems(s)
    <3> SUFFICES ASSUME NEW i \in 1 .. n - 1 PROVE t[i] \in Elems(s)
      BY <2>6 DEF Elems
    <3>1. i \in 1 .. n /\ i + 1 \in 1 .. n BY <1>0
    <3> QED BY <3>1, <2>5, <1>0 DEF Elems
  <2>8. Elems(s) \ {u} \subseteq Elems(t)
    <3> SUFFICES ASSUME NEW i \in 1 .. n, i # k PROVE s[i] \in Elems(t)
      BY <1>0, <2>1 DEF Elems
    <3>1. CASE i < k
      <4>1. i \in 1 .. n - 1 BY <3>1, <1>0, <2>1
      <4> QED BY <4>1, <3>1, <2>5, <2>6 DEF Elems
    <3>2. CASE i > k
      <4>1. i - 1 \in 1 .. n - 1 /\ ~ (i - 1 < k) /\ (i - 1) + 1 = i
        BY <3>2, <1>0, <2>1
      <4> QED BY <4>1, <2>5, <2>6 DEF Elems
    <3> QED BY <3>1, <3>2, <1>0, <2>1
  <2>9. ASSUME Distinct(s) PROVE Distinct(t) /\ u \notin Elems(t)
    <3>1. ASSUME NEW i \in 1 .. n - 1, NEW j \in 1 .. n - 1, t[i] = t[j]
          PROVE  i = j
      <4> DEFINE f(x) == IF x < k THEN x ELSE x + 1
      <4>1. s[f(i)] = s[f(j)] /\ f(i) \in 1 .. n /\ f(j) \in 1 .. n
        BY <3>1, <2>5, <1>0, <2>1
      <4>2. f(i) = f(j)
        BY <4>1, <2>9, <1>0 DEF Distinct
      <4> QED BY <4>2, <1>0, <2>1
    <3>2. ASSUME NEW i \in 1 .. n - 1 PROVE t[i] # u
      <4> DEFINE f(x) == IF x < k THEN x ELSE x + 1
      <4>1. t[i] = s[f(i)] /\ f(i) \in 1 .. n /\ f(i) # k
        BY <2>5, <1>0, <2>1
      <4> QED BY <4>1, <2>1, <2>9, <1>0 DEF Distinct
    <3> QED BY <3>1, <3>2, <2>6 DEF Distinct, Elems
  <2> QED BY <2>2, <2>5, <2>7, <2>8, <2>9
<1> QED BY <1>1, <1>2

-----------------------------------------------------------------------------
(* Type correctness.                                                       *)

LEMMA FreeType ==
    ASSUME TypeOK, NEW us, FreeReqResources(us), us \subseteq Uids
    PROVE  /\ slot' \in [Uids -> Slots \cup {None}]
           /\ freeSlots' \subseteq Slots
           /\ freePages' \subseteq Pages
<1>1. \A u \in Holding(us) : slot[u] \in Slots /\ row[u] \subseteq Pages
  BY DEF Holding, TypeOK
<1> QED BY <1>1 DEF FreeReqResources, TypeOK

LEMMA LaunchType ==
    ASSUME TypeOK, NEW batch \in Batch, NEW d,
           \A u \in batch.reqs : d[u] \in Nat, Launch(batch, d)
    PROVE  /\ phase' \in {"drain", "oom"}
           /\ ongoing' \in Batch
           /\ running' \subseteq Uids
           /\ cached' \in [Uids -> Nat]
           /\ row' \in [Uids -> SUBSET Pages]
           /\ freePages' \subseteq Pages
<1> batch.reqs \subseteq Uids BY DEF Batch
<1>1. CASE phase' = "oom" BY <1>1 DEF Launch, TypeOK
<1>2. CASE phase' # "oom"
  <2>1. PICK grant \in [freePages -> batch.reqs \cup {None}] :
           /\ row' = [u \in Uids |->
                        IF u \in batch.reqs
                        THEN row[u] \cup {p \in freePages : grant[p] = u}
                        ELSE row[u]]
           /\ freePages' = {p \in freePages : grant[p] = None}
    BY <1>2 DEF Launch
  <2> QED BY <2>1, <1>2 DEF Launch, TypeOK
<1> QED BY <1>1, <1>2

(* The batch of the first n pending requests.                              *)
LEMMA PrefillBatchType ==
    ASSUME TypeOK, NEW n \in 1 .. Len(pending)
    PROVE  /\ PrefillBatch(n) \in Batch
           /\ PrefillBatch(n).chunked \subseteq PrefillBatch(n).reqs
           /\ PrefillBatch(n).reqs \subseteq Elems(pending)
           /\ Fresh(n) \subseteq PrefillBatch(n).reqs
<1>1. /\ pending \in Seq(Uids) /\ Len(pending) \in Nat
      /\ \A i \in 1 .. n : pending[i] \in Uids /\ i \in DOMAIN pending
  BY LenProperties, ElementOfSeq DEF TypeOK
<1> QED BY <1>1 DEF PrefillBatch, Fresh, Batch, Elems

LEMMA DeviceLenType ==
    ASSUME TypeOK, NEW n \in 1 .. Len(pending), NEW u \in PrefillBatch(n).reqs
    PROVE  DeviceLen(CHOOSE i \in 1 .. n : pending[i] = u) \in Nat
<1> DEFINE i == CHOOSE i \in 1 .. n : pending[i] = u
<1>1. i \in 1 .. n /\ pending[i] = u
  BY DEF PrefillBatch
<1> HIDE DEF i
<1>2. u \in Uids
  BY PrefillBatchType DEF Batch
<1>3. InputLen[u] \in Nat /\ cached[u] \in Nat
  BY <1>2, SchedulerAssumption DEF TypeOK
<1>4. IsChunked(i) => TokenBudget(i) \in Nat
  BY <1>1, <1>3 DEF IsChunked, PromptLeft
<1>5. DeviceLen(i) \in Nat
  BY <1>1, <1>3, <1>4 DEF DeviceLen
<1> QED BY <1>5 DEF i

LEMMA PrefillType ==
    ASSUME TypeOK, SchedulePrefill
    PROVE  TypeOK'
<1>1. PICK n \in 1 .. Len(pending) : LaunchPrefill(n)
  BY DEF SchedulePrefill
<1> DEFINE batch == PrefillBatch(n)
           d == [u \in batch.reqs |-> DeviceLen(CHOOSE i \in 1 .. n : pending[i] = u)]
<1>2. /\ batch \in Batch /\ batch.reqs \subseteq Uids /\ batch.chunked \subseteq Uids
      /\ Fresh(n) \subseteq Uids
  BY PrefillBatchType DEF Batch
<1>3. \A u \in batch.reqs : d[u] \in Nat
  BY DeviceLenType
<1>4. Launch(batch, d)
  BY <1>1 DEF LaunchPrefill
<1>5. pending' \in Seq(Uids)
  <2>1. pending \in Seq(Uids) /\ Len(pending) \in Nat
    BY LenProperties DEF TypeOK
  <2>2. FirstLeft(n) \in 1 .. Len(pending) + 1
    BY <2>1 DEF FirstLeft
  <2> QED BY <1>1, <2>1, <2>2, SuffixElems DEF LaunchPrefill
<1>6. slot' \in [Uids -> Slots \cup {None}] /\ freeSlots' \subseteq Slots
  BY <1>1 DEF LaunchPrefill, TakeSlots, TypeOK
<1>7. chunked' \subseteq Uids
  BY <1>1, <1>2 DEF LaunchPrefill, TypeOK
<1>8. reply' \in [Uids -> Seq(Kinds)]
  BY <1>1, AppendProperties DEF LaunchPrefill, Send, Kinds, TypeOK
<1> HIDE DEF batch, d
<1>9. /\ phase' \in {"drain", "oom"} /\ ongoing' \in Batch
      /\ running' \subseteq Uids /\ cached' \in [Uids -> Nat]
      /\ row' \in [Uids -> SUBSET Pages] /\ freePages' \subseteq Pages
  BY <1>2, <1>3, <1>4, LaunchType
<1> QED
  BY <1>5, <1>6, <1>7, <1>8, <1>9
  DEF TypeOK, SchedulePrefill, msgVars, rebuildVars

LEMMA MaxSeqLenType ==
    ASSUME TypeOK
    PROVE  MaxSeqLen \in Nat
<1>1. IsFiniteSet(pool)
  BY FS_Subset, SchedulerAssumption DEF TypeOK
<1>2. Cardinality(pool) \in Nat
  BY <1>1, FS_CardinalityType
<1> QED BY <1>2, SchedulerAssumption DEF MaxSeqLen

LEMMA UserMsgType ==
    ASSUME TypeOK, NEW u \in Uids, UserMsg(u)
    PROVE  TypeOK'
<1>0. MaxSeqLen \in Nat /\ InputLen[u] \in Nat /\ MaxTokens[u] \in Nat
  BY MaxSeqLenType, SchedulerAssumption
<1> USE DEF UserMsg, TypeOK, batchVars, memVars, rebuildVars
<1>1. CASE DropAborted(u)
  BY <1>1, WithoutElems DEF DropAborted
<1>2. CASE RejectRequest(u)
  BY <1>2, AppendProperties DEF RejectRequest, Send, Kinds
<1>3. CASE AddOneReq(u)
  <2>1. InputLen[u] < MaxSeqLen
    BY <1>0, <1>3 DEF AddOneReq, Rejected
  <2>2. outputLen' \in [Uids -> Nat]
    BY <1>0, <1>3, <2>1 DEF AddOneReq
  <2>3. pending' \in Seq(Uids)
    BY <1>3, AppendProperties DEF AddOneReq
  <2> QED BY <1>3, <2>2, <2>3 DEF AddOneReq
<1> QED BY <1>1, <1>2, <1>3

LEMMA AbortType ==
    ASSUME TypeOK, NEW u \in Uids, AbortBackendMsg(u)
    PROVE  TypeOK'
<1>1. /\ ReqToFree(u) \subseteq Uids
      /\ InFlight(ReqToFree(u)) \subseteq Uids
  BY DEF ReqToFree, InFlight
<1>2. FreeReqResources(ReqToFree(u) \ InFlight(ReqToFree(u)))
  BY DEF AbortBackendMsg
<1>3. /\ slot' \in [Uids -> Slots \cup {None}]
      /\ freeSlots' \subseteq Slots /\ freePages' \subseteq Pages
  BY <1>1, <1>2, FreeType
<1>4. tombstones' \in Seq(Uids)
  <2> DEFINE set == IF u \in Elems(tombstones) THEN tombstones
                    ELSE Append(tombstones, u)
  <2>1. set \in Seq(Uids)
    BY AppendProperties DEF TypeOK
  <2> HIDE DEF set
  <2>2. Len(set) > TombstoneCap => Tail(set) \in Seq(Uids)
    <3>1. Len(set) > TombstoneCap => set # << >>
      BY <2>1, EmptySeq, SchedulerAssumption
    <3> QED BY <2>1, <3>1, HeadTailProperties
  <2>3. tombstones' = IF Len(set) > TombstoneCap THEN Tail(set) ELSE set
    BY DEF AbortBackendMsg, SetTombstone, set
  <2> QED BY <2>1, <2>2, <2>3
<1>5. pending' \in Seq(Uids)
  BY WithoutElems DEF AbortBackendMsg, TypeOK
<1>6. aborts' \in [Uids -> 0 .. MaxAborts]
  BY SchedulerAssumption DEF AbortBackendMsg, TypeOK
<1> QED
  BY <1>1, <1>3, <1>4, <1>5, <1>6
  DEF AbortBackendMsg, TypeOK, reqVars, rebuildVars

LEMMA RebuildType ==
    ASSUME TypeOK, ExecutePendingRebuild
    PROVE  TypeOK'
<1>1. pendingRebuild \in RebuildIds
  BY DEF ExecutePendingRebuild, RebuildDue, TypeOK
<1>2. \A r \in {"ok", "rejected", "failed"} :
        rebuilt' = [rebuilt EXCEPT ![pendingRebuild] = r] =>
          rebuilt' \in [RebuildIds -> {"unsent", "unsupported", "busy",
                                       "queued", "ok", "rejected", "failed"}]
  BY <1>1 DEF TypeOK
<1>3. \A n \in Nat : \A pages \in kSubset(n, Pages) : pages \subseteq Pages
  BY DEF kSubset
<1>4. RebuildPages[pendingRebuild] \in Nat
  BY <1>1, SchedulerAssumption
<1>5. /\ pool' \subseteq Pages /\ freePages' \subseteq Pages
      /\ freeSlots' \subseteq Slots
  BY <1>3, <1>4 DEF ExecutePendingRebuild, ResetPool, TypeOK
<1>6. rebuilt' \in [RebuildIds -> {"unsent", "unsupported", "busy",
                                   "queued", "ok", "rejected", "failed"}]
  BY <1>2 DEF ExecutePendingRebuild
<1> QED
  BY <1>5, <1>6
  DEF ExecutePendingRebuild, TypeOK, msgVars, queueVars, batchVars, reqVars

LEMMA ProcessType ==
    ASSUME TypeOK, ProcessLastData
    PROVE  TypeOK'
<1>1. CASE Drained = NoBatch
  BY <1>1 DEF ProcessLastData, TypeOK, msgVars, batchVars, reqVars, memVars,
              rebuildVars
<1>2. CASE Drained # NoBatch
  <2> DEFINE cut     == Cut(Drained)
             sampled == Sampled(Drained)
             spent   == {u \in sampled : ~ CanDecode(u, cached[u])}
  <2>1. PICK ends \in SUBSET sampled :
           LET done == ends \cup spent
               gone == done \cup (cut \ Drained.chunked)
           IN /\ reply' = [u \in Uids |->
                    IF u \notin sampled THEN reply[u]
                    ELSE Append(reply[u], IF u \in ends THEN "stop"
                                          ELSE IF u \in spent THEN "length"
                                          ELSE "tok")]
              /\ running' = running \ gone
              /\ FreeReqResources(done \cup cut)
              /\ finishedReqs' = gone
              /\ UNCHANGED row
    BY <1>2 DEF ProcessLastData
  <2>2. Drained \in Batch
    BY DEF Drained, TypeOK
  <2>3. sampled \subseteq Uids /\ cut \subseteq Uids
    BY <2>2 DEF Cut, Sampled, Batch
  <2> HIDE DEF cut, sampled
  <2>4. /\ slot' \in [Uids -> Slots \cup {None}]
        /\ freeSlots' \subseteq Slots /\ freePages' \subseteq Pages
    BY <2>1, <2>3, FreeType
  <2>5. reply' \in [Uids -> Seq(Kinds)]
    BY <2>1, AppendProperties DEF TypeOK, Kinds
  <2>6. running' \subseteq Uids /\ finishedReqs' \subseteq Uids
    BY <2>1, <2>3 DEF TypeOK
  <2> QED
    BY <2>1, <2>4, <2>5, <2>6
    DEF ProcessLastData, TypeOK, msgVars, batchVars, reqVars, rebuildVars
<1> QED BY <1>1, <1>2

LEMMA InitType ==
    ASSUME Init
    PROVE  TypeOK
BY SchedulerAssumption, EmptySeq DEF Init, TypeOK, NoBatch, Batch

LEMMA NextType ==
    ASSUME TypeOK, [Next]_vars
    PROVE  TypeOK'
<1>1. ASSUME NEW u \in Uids, UserMsg(u) PROVE TypeOK'
  BY <1>1, UserMsgType
<1>2. ASSUME NEW u \in Uids, AbortBackendMsg(u) PROVE TypeOK'
  BY <1>2, AbortType
<1>3. ASSUME NEW b \in RebuildIds, CacheRebuildMsg(b) PROVE TypeOK'
  BY <1>3 DEF CacheRebuildMsg, TypeOK, msgVars, queueVars, batchVars, reqVars,
              memVars
<1>4. CASE EndReceive
  BY <1>4 DEF EndReceive, TypeOK, msgVars, queueVars, batchVars, reqVars,
              memVars, rebuildVars
<1>5. CASE ExecutePendingRebuild
  BY <1>5, RebuildType
<1>6. CASE SchedulePrefill
  BY <1>6, PrefillType
<1>7. CASE ScheduleDecode
  <2> DEFINE batch == [reqs |-> running, chunked |-> {}]
             d == [u \in running |-> cached[u] + 1]
  <2>1. batch \in Batch /\ \A u \in batch.reqs : d[u] \in Nat
    BY DEF Batch, TypeOK
  <2>2. Launch(batch, d)
    BY <1>7 DEF ScheduleDecode
  <2> HIDE DEF batch, d
  <2>3. /\ phase' \in {"drain", "oom"} /\ ongoing' \in Batch
        /\ running' \subseteq Uids /\ cached' \in [Uids -> Nat]
        /\ row' \in [Uids -> SUBSET Pages] /\ freePages' \subseteq Pages
    BY <2>1, <2>2, LaunchType
  <2> QED BY <1>7, <2>3 DEF ScheduleDecode, TypeOK, msgVars, rebuildVars
<1>8. CASE ScheduleNothing
  BY <1>8 DEF ScheduleNothing, TypeOK, msgVars, queueVars, batchVars, reqVars,
              memVars, rebuildVars
<1>9. CASE ProcessLastData
  BY <1>9, ProcessType
<1>10. CASE FlushAbortAcks
  <2>1. reply' \in [Uids -> Seq(Kinds)]
    BY <1>10, AppendProperties DEF FlushAbortAcks, Send, TypeOK, Kinds
  <2> QED
    BY <1>10, <2>1 DEF FlushAbortAcks, TypeOK, NoBatch, Batch, queueVars,
                       reqVars, memVars, rebuildVars
<1>11. CASE UNCHANGED vars
  BY <1>11 DEF vars, TypeOK, msgVars, queueVars, batchVars, reqVars, memVars,
               rebuildVars
<1> QED
  BY <1>1, <1>2, <1>3, <1>4, <1>5, <1>6, <1>7, <1>8, <1>9, <1>10, <1>11
  DEF Next, Receive, Loop, Blocked

(* Every variable of the scheduler keeps its type: in particular slot ids, *)
(* pages and tombstones never leave their tables, however messages and     *)
(* batches interleave.                                                     *)
THEOREM TypeCorrect == Spec => []TypeOK
<1> QED BY InitType, NextType, PTL DEF Spec


-----------------------------------------------------------------------------
(* What taking, granting and freeing do to the two partitions.             *)

Held == Holding(Uids)

LEMMA HeldAfterFree ==
    ASSUME TypeOK, SlotsPartitioned, PagesPartitioned, 
           NEW us \in SUBSET Uids, FreeReqResources(us),
           row' = row, pool' = pool
    PROVE  /\ Held' = Held \ us
           /\ SlotsPartitioned'
           /\ PagesPartitioned'
<1> DEFINE held == Holding(us)
<1>1. /\ freePages' = freePages \cup UNION {row[u] : u \in held}
      /\ freeSlots' = freeSlots \cup {slot[u] : u \in held}
      /\ slot' = [u \in Uids |-> IF u \in held THEN None ELSE slot[u]]
  BY DEF FreeReqResources
<1>2. held \subseteq Uids /\ held = Held \cap us
  BY DEF Holding, Held
<1>3. /\ Held = {u \in Uids : slot[u] # None}
      /\ Held' = {u \in Uids : slot'[u] # None}
  BY DEF Held, Holding
<1> HIDE DEF held
<1>4. Held' = Held \ us
  BY <1>1, <1>2, <1>3
<1>5. \A u \in Held' : u \in Held /\ u \notin held /\ slot'[u] = slot[u]
  BY <1>1, <1>2, <1>3, <1>4
<1>6. SlotsPartitioned'
  BY <1>1, <1>2, <1>3, <1>4, <1>5 DEF SlotsPartitioned, Held
<1>7. PagesPartitioned'
  BY <1>1, <1>2, <1>3, <1>4, <1>5 DEF PagesPartitioned, Held
<1> QED BY <1>4, <1>6, <1>7

LEMMA HeldAfterTake ==
    ASSUME TypeOK, SlotsPartitioned, NEW us \in SUBSET Uids, us \cap Held = {},
           TakeSlots(us)
    PROVE  /\ Held' = Held \cup us
           /\ SlotsPartitioned'
<1>1. PICK table \in [us -> freeSlots] :
        /\ \A u, v \in us : table[u] = table[v] => u = v
        /\ slot' = [u \in Uids |-> IF u \in us THEN table[u] ELSE slot[u]]
        /\ freeSlots' = freeSlots \ {table[u] : u \in us}
  BY DEF TakeSlots
<1>2. /\ Held = {u \in Uids : slot[u] # None}
      /\ Held' = {u \in Uids : slot'[u] # None}
  BY DEF Held, Holding
<1>3. \A u \in us : table[u] \in freeSlots /\ table[u] # None
  BY <1>1, SchedulerAssumption DEF TypeOK
<1>4. Held' = Held \cup us
  BY <1>1, <1>2, <1>3
<1>5. \A u \in Held' : \/ u \in us /\ slot'[u] = table[u]
                       \/ u \in Held /\ u \notin us /\ slot'[u] = slot[u]
  BY <1>1, <1>2, <1>4
<1>6. \A u, v \in Held' : slot'[u] = slot'[v] => u = v
  BY <1>1, <1>3, <1>5 DEF SlotsPartitioned, Held
<1>7. \A u \in Held' : slot'[u] \notin freeSlots'
  BY <1>1, <1>5 DEF SlotsPartitioned, Held
<1>8. Slots = freeSlots' \cup {slot'[u] : u \in Held'}
  <2>1. ASSUME NEW x \in freeSlots, x \notin freeSlots'
        PROVE  x \in {slot'[u] : u \in Held'}
    <3>1. PICK u \in us : x = table[u]
      BY <1>1, <2>1
    <3> QED BY <3>1, <1>1, <1>4
  <2>2. \A u \in Held : u \in Held' /\ slot'[u] = slot[u]
    BY <1>1, <1>2, <1>4
  <2>3. \A u \in us : slot'[u] \in freeSlots
    BY <1>1, <1>3
  <2>4. Slots = freeSlots \cup {slot[u] : u \in Held}
    BY DEF SlotsPartitioned, Held
  <2>5. freeSlots' \subseteq freeSlots
    BY <1>1
  <2>6. Slots \subseteq freeSlots' \cup {slot'[u] : u \in Held'}
    BY <2>1, <2>2, <2>4
  <2>7. \A u \in Held' : slot'[u] \in Slots
    BY <1>5, <2>2, <2>3, <2>4
  <2> QED BY <2>4, <2>5, <2>6, <2>7
<1> QED BY <1>4, <1>6, <1>7, <1>8 DEF SlotsPartitioned, Held

(* Every page of the free list goes to one request of the batch or stays.  *)
LEMMA PagesAfterLaunch ==
    ASSUME TypeOK, PagesPartitioned, NEW batch \in Batch, NEW d,
           Launch(batch, d), pool' = pool,
           Held \subseteq Held', batch.reqs \subseteq Held',
           \A u \in Held' \ Held : row[u] = {}
    PROVE  PagesPartitioned'
<1>1. /\ \A u, v \in Held' : u # v => row[u] \cap row[v] = {}
      /\ \A u \in Held' : row[u] \cap freePages = {}
      /\ pool = freePages \cup UNION {row[u] : u \in Held'}
  BY DEF PagesPartitioned, Held
<1>2. CASE row' = row /\ freePages' = freePages
  BY <1>1, <1>2 DEF PagesPartitioned, Held
<1>3. CASE ~ (row' = row /\ freePages' = freePages)
  <2>1. PICK grant \in [freePages -> batch.reqs \cup {None}] :
           /\ row' = [u \in Uids |->
                        IF u \in batch.reqs
                        THEN row[u] \cup {p \in freePages : grant[p] = u}
                        ELSE row[u]]
           /\ freePages' = {p \in freePages : grant[p] = None}
    BY <1>3 DEF Launch
  <2> DEFINE new(u) == {p \in freePages : grant[p] = u}
  <2>2. batch.reqs \subseteq Uids /\ None \notin batch.reqs /\ Held' \subseteq Uids
    BY SchedulerAssumption DEF Batch, Held, Holding
  <2>3. \A u \in Held' : /\ row[u] \subseteq row'[u]
                         /\ row'[u] \subseteq row[u] \cup new(u)
                         /\ u \in batch.reqs \/ row'[u] = row[u]
    BY <2>1, <2>2
  <2>4. \A u, v \in Held' : u # v => row'[u] \cap row'[v] = {}
    BY <1>1, <2>3
  <2>5. \A u \in Held' : row'[u] \cap freePages' = {}
    BY <1>1, <2>1, <2>2, <2>3
  <2>6. freePages \subseteq freePages' \cup UNION {row'[u] : u \in Held'}
    <3> SUFFICES ASSUME NEW p \in freePages, p \notin freePages'
                 PROVE  \E u \in Held' : p \in row'[u]
      OBVIOUS
    <3>1. grant[p] \in batch.reqs
      BY <2>1
    <3> QED BY <3>1, <2>1, <2>2
  <2>7. pool' = freePages' \cup UNION {row'[u] : u \in Held'}
    <3>1. freePages' \subseteq freePages
      BY <2>1
    <3>2. \A u \in Held' : row'[u] \subseteq row[u] \cup freePages
      BY <2>3
    <3>3. pool \subseteq freePages' \cup UNION {row'[u] : u \in Held'}
      BY <1>1, <2>3, <2>6
    <3>4. freePages' \cup UNION {row'[u] : u \in Held'} \subseteq pool
      BY <1>1, <3>1, <3>2
    <3> QED BY <3>3, <3>4
  <2> QED BY <2>4, <2>5, <2>7 DEF PagesPartitioned, Held
<1> QED BY <1>2, <1>3

(* What a launch does to the queues.                                       *)
LEMMA RunningAfterLaunch ==
    ASSUME TypeOK, RunningCanDecode, NEW batch \in Batch, NEW d,
           Launch(batch, d), outputLen' = outputLen
    PROVE  /\ ongoing' = batch
           /\ phase' \in {"drain", "oom"}
           /\ running' \subseteq running \cup (batch.reqs \ batch.chunked)
           /\ RunningCanDecode'
           /\ \A u \in Uids \ batch.reqs : cached'[u] = cached[u]
           /\ \A u \in running \ batch.reqs : u \in running'
           /\ phase' = "drain" =>
                \A u \in running \cup (batch.reqs \ batch.chunked) :
                    CanDecode(u, cached[u])' => u \in running'
           /\ \A u \in Uids : row'[u] # row[u] => u \in batch.reqs
<1> USE DEF RunningCanDecode, CanDecode, RemainLen, MaxDeviceLen
<1>0. batch.reqs \subseteq Uids
  BY DEF Batch
<1>1. CASE phase' = "oom"
  BY <1>0, <1>1 DEF Launch, TypeOK
<1>2. CASE phase' # "oom"
  <2>1. PICK grant : 
          row' = [u \in Uids |->
                        IF u \in batch.reqs
                        THEN row[u] \cup {p \in freePages : grant[p] = u}
                        ELSE row[u]]
    BY <1>2 DEF Launch
  <2>2. /\ phase' = "drain" /\ ongoing' = batch
        /\ cached' = [u \in Uids |-> IF u \in batch.reqs THEN d[u] ELSE cached[u]]
        /\ running' = {u \in running \cup (batch.reqs \ batch.chunked) :
                          CanDecode(u, cached'[u])}
    BY <1>2 DEF Launch
  <2> QED BY <1>0, <2>1, <2>2 DEF TypeOK
<1> QED BY <1>1, <1>2

-----------------------------------------------------------------------------
(* The inductive invariant.                                                *)

LEMMA InitInv ==
    ASSUME Init
    PROVE  IInv
<1>1. TypeOK
  BY InitType
<1>2. Held = {} /\ Elems(pending) = {}
  BY DEF Init, Held, Holding, Elems
<1>3. QueueInv
  BY <1>2, SchedulerAssumption
  DEF Init, Held, Holding, NoBatch, QueueInv, OnlySentRequests, Distinct,
      UnscheduledOwnNothing, QueuesHold, RunningCanDecode, BatchesByPhase,
      BatchShape, AbortedGone, FinishedGone, InFlightHeld, NothingLeftBehind,
      NoOrphans
<1>4. SlotsPartitioned /\ PagesPartitioned
  BY <1>2 DEF Init, Held, SlotsPartitioned, PagesPartitioned
<1> QED BY <1>1, <1>3, <1>4 DEF IInv

LEMMA UserMsgInv ==
    ASSUME IInv, NEW u \in Uids, UserMsg(u)
    PROVE  IInv'
<1> USE DEF IInv
<1>1. TypeOK'
  BY UserMsgType
<1>2. /\ sent' = sent \cup {u} /\ u \notin sent /\ phase = "recv"
      /\ phase' = phase /\ chunked' = chunked /\ running' = running
      /\ finishedReqs' = finishedReqs /\ last' = last /\ ongoing' = ongoing
      /\ aborted' = aborted /\ cached' = cached /\ slot' = slot /\ row' = row
      /\ freeSlots' = freeSlots /\ freePages' = freePages /\ pool' = pool
  BY DEF UserMsg, batchVars, memVars, rebuildVars
<1>3. Held' = Held
  BY <1>2 DEF Held, Holding
<1>4. SlotsPartitioned' /\ PagesPartitioned'
  BY <1>2, <1>3 DEF SlotsPartitioned, PagesPartitioned, Held
<1>5. u \notin Held \cup Elems(pending) \cup aborted \cup finishedReqs
                \cup last.reqs \cup ongoing.reqs \cup running \cup chunked
  BY <1>2 DEF QueueInv, OnlySentRequests, QueuesHold, Held
<1>6. /\ Elems(pending)' \subseteq Elems(pending) \cup {u}
      /\ Elems(pending) \subseteq Elems(pending)'
      /\ Distinct(pending)'
  <2>1. pending' = pending \/ pending' = Append(pending, u)
    BY DEF UserMsg, DropAborted, RejectRequest, AddOneReq
  <2>2. pending \in Seq(Uids) /\ Distinct(pending)
    BY DEF TypeOK, QueueInv, OnlySentRequests
  <2>3. CASE pending' = pending
    BY <2>2, <2>3
  <2>4. CASE pending' = Append(pending, u)
    <3>1. /\ Elems(Append(pending, u)) = Elems(pending) \cup {u}
          /\ Distinct(Append(pending, u))
      BY <1>5, <2>2, AppendElems
    <3> QED BY <2>4, <3>1
  <2> QED BY <2>1, <2>3, <2>4
<1>7. \A v \in Uids \ {u} : CanDecode(v, cached[v])' = CanDecode(v, cached[v])
  <2>1. \A v \in Uids \ {u} : outputLen'[v] = outputLen[v]
    BY DEF UserMsg, DropAborted, RejectRequest, AddOneReq, TypeOK
  <2> QED BY <1>2, <2>1 DEF CanDecode, RemainLen, MaxDeviceLen
<1>8. last.reqs \subseteq Uids /\ ongoing.reqs \subseteq Uids
  BY DEF TypeOK, Batch
<1> USE DEF QueueInv
<1>9. OnlySentRequests'
  BY <1>2, <1>3, <1>6 DEF OnlySentRequests, Held
<1>10. UnscheduledOwnNothing'
  BY <1>2, <1>6 DEF UnscheduledOwnNothing
<1>11. QueuesHold' /\ FinishedGone'
  BY <1>2, <1>3, <1>5, <1>6 DEF QueuesHold, FinishedGone, Held
<1>12. RunningCanDecode'
  BY <1>2, <1>5, <1>7 DEF RunningCanDecode, TypeOK
<1>13. BatchesByPhase' /\ InFlightHeld'
  BY <1>2, <1>3 DEF BatchesByPhase, InFlightHeld, Held
<1>14. BatchShape'
  BY <1>2, <1>5, <1>6 DEF BatchShape
<1>15. AbortedGone'
  BY <1>2, <1>5, <1>6 DEF AbortedGone
<1>16. NothingLeftBehind'
  BY <1>2, <1>3, <1>5, <1>7, <1>8 DEF NothingLeftBehind, WillContinue, Held
<1>17. NoOrphans'
  BY <1>2, <1>3 DEF NoOrphans, Held
<1> QED
  BY <1>1, <1>4, <1>9, <1>10, <1>11, <1>12, <1>13, <1>14, <1>15, <1>16, <1>17

LEMMA AbortInv ==
    ASSUME IInv, NEW u \in Uids, AbortBackendMsg(u)
    PROVE  IInv'
<1> DEFINE owner == ReqToFree(u)
           inflight == InFlight(owner)
<1> USE DEF IInv
<1>1. TypeOK'
  BY AbortType
<1>2. /\ phase = "recv" /\ phase' = phase /\ sent' = sent
      /\ finishedReqs' = finishedReqs /\ last' = last /\ ongoing' = ongoing
      /\ outputLen' = outputLen /\ cached' = cached /\ row' = row /\ pool' = pool
      /\ chunked' = chunked \ {u} /\ running' = running \ {u}
      /\ aborted' = aborted \cup inflight
      /\ pending' = Without(pending, u)
      /\ FreeReqResources(owner \ inflight)
  BY DEF AbortBackendMsg, reqVars, rebuildVars
<1>3. /\ owner \subseteq {u} /\ owner \subseteq Uids
      /\ inflight = owner \cap last.reqs
      /\ u \in owner <=> u \in chunked \cup running
  BY DEF ReqToFree, InFlight, QueueInv, QueuesHold
<1> HIDE DEF owner, inflight
<1>4. Held' = Held \ (owner \ inflight) /\ SlotsPartitioned' /\ PagesPartitioned'
  BY <1>2, <1>3, HeldAfterFree
<1>5. /\ Elems(pending)' = Elems(pending) \ {u}
      /\ Distinct(pending)'
  BY <1>2, WithoutElems DEF QueueInv, OnlySentRequests, TypeOK
<1>6. \A v : CanDecode(v, cached[v])' = CanDecode(v, cached[v])
  BY <1>2 DEF CanDecode, RemainLen, MaxDeviceLen
<1>7. \A v \in Uids : v \notin owner => slot'[v] = slot[v]
  BY <1>2 DEF FreeReqResources, Holding
<1>8. ongoing = NoBatch
  BY <1>2 DEF QueueInv, BatchesByPhase
<1> USE DEF QueueInv
<1>9. OnlySentRequests'
  BY <1>2, <1>3, <1>4, <1>5 DEF OnlySentRequests, Held
<1>10. UnscheduledOwnNothing'
  BY <1>2, <1>3, <1>5, <1>7 DEF UnscheduledOwnNothing, QueuesHold, OnlySentRequests
<1>11. QueuesHold' /\ FinishedGone'
  BY <1>2, <1>3, <1>4, <1>5 DEF QueuesHold, FinishedGone, Held
<1>12. RunningCanDecode'
  BY <1>2, <1>6 DEF RunningCanDecode
<1>13. BatchesByPhase' /\ BatchShape'
  BY <1>2, <1>5 DEF BatchesByPhase, BatchShape
<1>14. AbortedGone'
  BY <1>2, <1>3, <1>5, <1>8 DEF AbortedGone, NoBatch
<1>15. InFlightHeld'
  BY <1>2, <1>3, <1>4 DEF InFlightHeld, Held
<1>16. NothingLeftBehind'
  BY <1>2, <1>3, <1>4, <1>6, <1>8
  DEF NothingLeftBehind, WillContinue, Held, NoBatch
<1>17. NoOrphans'
  BY <1>2, <1>3, <1>4, <1>8 DEF NoOrphans, Held, NoBatch
<1> QED
  BY <1>1, <1>4, <1>9, <1>10, <1>11, <1>12, <1>13, <1>14, <1>15, <1>16, <1>17

LEMMA CacheRebuildInv ==
    ASSUME IInv, NEW b \in RebuildIds, CacheRebuildMsg(b)
    PROVE  IInv'
<1> USE DEF IInv
<1>1. TypeOK'
  <2>1. [Next]_vars
    BY DEF Next, Receive
  <2> QED BY <2>1, NextType
<1>2. /\ UNCHANGED <<phase, msgVars, reply, queueVars, batchVars, reqVars,
                     memVars, pool>>
  BY DEF CacheRebuildMsg
<1>3. QueueInv'
  BY <1>2 
  DEF msgVars, queueVars, batchVars, reqVars, memVars, QueueInv, Holding,
      OnlySentRequests, UnscheduledOwnNothing, QueuesHold, RunningCanDecode,
      CanDecode, RemainLen, MaxDeviceLen, BatchesByPhase, BatchShape,
      AbortedGone, FinishedGone, InFlightHeld, NothingLeftBehind,
      WillContinue, NoOrphans, Drained
<1>4. SlotsPartitioned' /\ PagesPartitioned'
  BY <1>2 DEF memVars, SlotsPartitioned, PagesPartitioned, Holding
<1> QED BY <1>1, <1>3, <1>4

(* Nothing but the phase changes, from before a launch to before a drain.  *)
LEMMA PhaseInv ==
    ASSUME IInv, TypeOK',
           \/ phase = "recv" /\ phase' = "run"
           \/ phase = "run" /\ phase' = "drain",
           UNCHANGED <<msgVars, reply, queueVars, batchVars, reqVars, memVars,
                       rebuildVars>>
    PROVE  IInv'
<1> USE DEF IInv
<1>1. QueueInv'
  BY DEF msgVars, queueVars, batchVars, reqVars, memVars, QueueInv, Holding,
      OnlySentRequests, UnscheduledOwnNothing, QueuesHold, RunningCanDecode,
      CanDecode, RemainLen, MaxDeviceLen, BatchesByPhase, BatchShape,
      AbortedGone, FinishedGone, InFlightHeld, NothingLeftBehind,
      WillContinue, NoOrphans, Drained, NoBatch
<1>2. SlotsPartitioned' /\ PagesPartitioned'
  BY DEF memVars, rebuildVars, SlotsPartitioned, PagesPartitioned, Holding
<1> QED BY <1>1, <1>2

(* When the loop has nothing to do, nobody owns anything.                  *)
LEMMA IdleOwnsNothing ==
    ASSUME IInv, last = NoBatch, ~ Runnable, phase = "recv"
    PROVE  Held = {} /\ chunked = {}
<1>1. Elems(pending) = {} /\ running = {}
  BY DEF Runnable, Elems
<1>2. ongoing = NoBatch
  BY DEF IInv, QueueInv, BatchesByPhase
<1> QED BY <1>1, <1>2 DEF IInv, QueueInv, QueuesHold, NoOrphans, NoBatch, Held

LEMMA ExecuteRebuildInv ==
    ASSUME IInv, ExecutePendingRebuild
    PROVE  IInv'
<1> USE DEF IInv
<1>1. TypeOK'
  BY RebuildType
<1>2. Held = {} /\ last = NoBatch /\ ~ Runnable /\ phase = "recv"
  BY IdleOwnsNothing DEF ExecutePendingRebuild, RebuildDue
<1>3. /\ phase' = "run"
      /\ UNCHANGED <<msgVars, reply, queueVars, batchVars, reqVars, slot, row>>
      /\ \/ UNCHANGED <<pool, freePages, freeSlots>>
         \/ freePages' = pool' /\ freeSlots' = Slots
  BY DEF ExecutePendingRebuild, ResetPool
<1>4. QueueInv'
  BY <1>2, <1>3
  DEF msgVars, queueVars, batchVars, reqVars, QueueInv, Holding,
      OnlySentRequests, UnscheduledOwnNothing, QueuesHold, RunningCanDecode,
      CanDecode, RemainLen, MaxDeviceLen, BatchesByPhase, BatchShape,
      AbortedGone, FinishedGone, InFlightHeld, NothingLeftBehind,
      WillContinue, NoOrphans, Drained, NoBatch
<1>5. Held' = {}
  BY <1>2, <1>3 DEF Held, Holding
<1>6. SlotsPartitioned' /\ PagesPartitioned'
  BY <1>2, <1>3, <1>5 DEF SlotsPartitioned, PagesPartitioned, Held
<1> QED BY <1>1, <1>4, <1>6

(* What a prefill pass takes off the queue: the requests it admits, but    *)
(* for a last one whose prompt goes on.                                    *)
LEMMA PrefillQueue ==
    ASSUME IInv, NEW n \in 1 .. Len(pending), LaunchPrefill(n)
    PROVE  /\ Elems(pending)' = (Elems(pending) \ PrefillBatch(n).reqs)
                                  \cup PrefillBatch(n).chunked
           /\ Distinct(pending)'
<1> DEFINE m == FirstLeft(n)
<1>1. /\ pending \in Seq(Uids) /\ Len(pending) \in Nat
      /\ DOMAIN pending = 1 .. Len(pending) /\ Distinct(pending)
  BY LenProperties DEF IInv, TypeOK, QueueInv, OnlySentRequests
<1>2. m \in 1 .. Len(pending) + 1 /\ m = IF IsChunked(n) THEN n ELSE n + 1
  BY <1>1 DEF FirstLeft
<1> HIDE DEF m
<1>3. pending' = SubSeq(pending, m, Len(pending))
  BY DEF LaunchPrefill, m
<1>4. /\ Elems(SubSeq(pending, m, Len(pending)))
           = {pending[i] : i \in m .. Len(pending)}
      /\ Distinct(SubSeq(pending, m, Len(pending)))
  BY <1>1, <1>2, SuffixElems
<1>5. \A i, j \in 1 .. Len(pending) : pending[i] = pending[j] => i = j
  BY <1>1 DEF Distinct
<1>6. {pending[i] : i \in m .. Len(pending)}
        = (Elems(pending) \ PrefillBatch(n).reqs) \cup PrefillBatch(n).chunked
  <2>1. Elems(pending) = {pending[i] : i \in 1 .. Len(pending)}
    BY <1>1 DEF Elems
  <2>2. CASE IsChunked(n)
    BY <1>1, <1>2, <1>5, <2>1, <2>2 DEF PrefillBatch
  <2>3. CASE ~ IsChunked(n)
    BY <1>1, <1>2, <1>5, <2>1, <2>3 DEF PrefillBatch
  <2> QED BY <2>2, <2>3
<1> QED BY <1>3, <1>4, <1>6

LEMMA PrefillInv ==
    ASSUME IInv, SchedulePrefill
    PROVE  IInv'
<1>1. PICK n \in 1 .. Len(pending) : LaunchPrefill(n)
  BY DEF SchedulePrefill
<1> DEFINE batch == PrefillBatch(n)
           reqs  == batch.reqs
           again == batch.chunked
           fresh == Fresh(n)
           d == [u \in reqs |-> DeviceLen(CHOOSE i \in 1 .. n : pending[i] = u)]
<1> USE DEF IInv
<1>2. TypeOK'
  BY PrefillType
<1>3. /\ batch \in Batch /\ again \subseteq reqs /\ reqs \subseteq Elems(pending)
      /\ fresh = reqs \ chunked /\ reqs \subseteq Uids
  BY PrefillBatchType DEF Fresh, Batch
<1>4. /\ Elems(pending)' = (Elems(pending) \ reqs) \cup again
      /\ Distinct(pending)'
  BY <1>1, PrefillQueue
<1>5. /\ phase = "run" /\ sent' = sent /\ finishedReqs' = finishedReqs
      /\ last' = last /\ aborted' = aborted /\ outputLen' = outputLen
      /\ pool' = pool /\ chunked' = (chunked \ reqs) \cup again
      /\ TakeSlots(fresh) /\ Launch(batch, d)
  BY <1>1 DEF SchedulePrefill, LaunchPrefill, msgVars, rebuildVars
<1> HIDE DEF batch, fresh, d
<1> USE DEF QueueInv
<1>6. \A u \in fresh : slot[u] = None /\ row[u] = {}
  BY <1>3 DEF UnscheduledOwnNothing
<1>7. Held' = Held \cup fresh /\ SlotsPartitioned'
  BY <1>3, <1>5, <1>6, HeldAfterTake DEF Held, Holding
<1>8. reqs \subseteq Held'
  BY <1>3, <1>7 DEF QueuesHold, Held
<1>9. PagesPartitioned'
  BY <1>3, <1>5, <1>6, <1>7, <1>8, PagesAfterLaunch
<1>10. /\ ongoing' = batch /\ phase' \in {"drain", "oom"}
       /\ running' \subseteq running \cup (reqs \ again)
       /\ RunningCanDecode'
       /\ \A u \in Uids \ reqs : cached'[u] = cached[u]
       /\ \A u \in running \ reqs : u \in running'
       /\ phase' = "drain" => \A u \in running \cup (reqs \ again) :
                                 CanDecode(u, cached[u])' => u \in running'
       /\ \A u \in Uids : row'[u] # row[u] => u \in reqs
  BY <1>3, <1>5, RunningAfterLaunch
<1>11. \A u \in Uids \ reqs : CanDecode(u, cached[u])' = CanDecode(u, cached[u])
  BY <1>5, <1>10 DEF CanDecode, RemainLen, MaxDeviceLen
<1>12. ongoing = NoBatch
  BY <1>5 DEF BatchesByPhase
<1>13. \A u \in Uids \ fresh : slot'[u] = slot[u]
  BY <1>5 DEF TakeSlots
<1>14. reqs \subseteq sent
  BY <1>3 DEF OnlySentRequests
<1>15. OnlySentRequests'
  BY <1>3, <1>4, <1>5, <1>7, <1>10, <1>14 DEF OnlySentRequests, Held
<1>16. UnscheduledOwnNothing'
  <2> SUFFICES ASSUME NEW u \in Uids,
                      u \notin sent \/ (u \in Elems(pending)' /\ u \notin chunked')
               PROVE  slot'[u] = None /\ row'[u] = {}
    BY <1>5 DEF UnscheduledOwnNothing
  <2>1. /\ u \notin reqs
        /\ u \notin sent \/ (u \in Elems(pending) /\ u \notin chunked)
    BY <1>4, <1>5, <1>14
  <2>2. slot[u] = None /\ row[u] = {}
    BY <2>1 DEF UnscheduledOwnNothing
  <2> QED BY <1>3, <1>10, <1>13, <2>1, <2>2
<1>17. QueuesHold'
  BY <1>3, <1>4, <1>5, <1>7, <1>8, <1>10 DEF QueuesHold, Held
<1>18. BatchesByPhase' /\ BatchShape'
  BY <1>3, <1>4, <1>5, <1>10 DEF BatchesByPhase, BatchShape
<1>19. AbortedGone' /\ FinishedGone'
  BY <1>3, <1>4, <1>5, <1>7, <1>10 DEF AbortedGone, FinishedGone, Held
<1>20. InFlightHeld'
  BY <1>5, <1>7, <1>8, <1>10 DEF InFlightHeld, Held
<1>21. ASSUME phase' = "drain", NEW u \in last.reqs, u \in Held', u \notin aborted
       PROVE  WillContinue(last, u)' \/ (u \in last.chunked /\ u \in reqs)
  <2>1. u \in Held
    BY <1>3, <1>5, <1>6, <1>7, <1>21 DEF InFlightHeld, FinishedGone, Held
  <2>2. WillContinue(last, u)
    BY <1>5, <1>12, <1>21, <2>1 DEF NothingLeftBehind, NoBatch, Held
  <2>3. CASE u \in last.chunked
    BY <1>5, <2>2, <2>3 DEF WillContinue
  <2>4. CASE u \notin last.chunked
    <3>1. u \notin reqs /\ u \in Uids
      BY <1>3, <1>21, <2>1, <2>4 DEF BatchShape, Held, Holding
    <3> QED BY <1>5, <1>10, <1>11, <2>2, <2>4, <3>1 DEF WillContinue
  <2> QED BY <2>3, <2>4
<1>22. ASSUME phase' = "drain", NEW u \in reqs
       PROVE  WillContinue(ongoing, u)'
  <2>1. u \in again => u \in chunked'
    BY <1>5
  <2>2. u \notin again => (CanDecode(u, cached[u])' => u \in running')
    BY <1>10, <1>22
  <2> QED BY <1>10, <2>1, <2>2 DEF WillContinue
<1>23. NothingLeftBehind'
  <2>1. phase' \in {"recv", "run", "drain"} =>
          \A u \in (last.reqs' \cap Held') \ aborted' :
             WillContinue(last, u)' \/ (u \in last.chunked' /\ u \in ongoing.reqs')
    BY <1>5, <1>10, <1>21
  <2>2. phase' \in {"drain", "flush"} =>
          \A u \in ongoing.reqs' \cap Held' : WillContinue(ongoing, u)'
    BY <1>10, <1>22
  <2> QED BY <1>10, <2>1, <2>2 DEF NothingLeftBehind, Held
<1>24. NoOrphans'
  <2> SUFFICES ASSUME NEW u \in Held'
               PROVE  u \in chunked' \cup running' \cup last.reqs \cup reqs
    BY <1>5, <1>10 DEF NoOrphans, Held
  <2>1. CASE u \in fresh
    BY <1>3, <2>1
  <2>2. CASE u \notin fresh
    <3>1. u \in chunked \cup running \cup last.reqs
      BY <1>7, <1>12, <2>2 DEF NoOrphans, NoBatch, Held
    <3> QED BY <1>5, <1>10, <3>1
  <2> QED BY <2>1, <2>2
<1> QED
  BY <1>2, <1>7, <1>9, <1>10, <1>15, <1>16, <1>17, <1>18, <1>19, <1>20, <1>23,
     <1>24

LEMMA DecodeInv ==
    ASSUME IInv, ScheduleDecode
    PROVE  IInv'
<1> DEFINE batch == [reqs |-> running, chunked |-> {}]
           d == [u \in running |-> cached[u] + 1]
<1> USE DEF IInv
<1>1. TypeOK'
  BY NextType DEF Next, Loop
<1>2. batch \in Batch /\ batch.reqs = running /\ batch.chunked = {}
  BY DEF Batch, TypeOK
<1>3. /\ phase = "run" /\ sent' = sent /\ finishedReqs' = finishedReqs
      /\ last' = last /\ aborted' = aborted /\ outputLen' = outputLen
      /\ pool' = pool /\ chunked' = chunked /\ pending' = pending
      /\ slot' = slot /\ freeSlots' = freeSlots /\ Launch(batch, d)
  BY DEF ScheduleDecode, msgVars, rebuildVars
<1> HIDE DEF batch, d
<1> USE DEF QueueInv
<1>4. Held' = Held /\ running \subseteq Held
  BY <1>3 DEF Held, Holding, QueuesHold
<1>5. SlotsPartitioned'
  BY <1>3, <1>4 DEF SlotsPartitioned, Held
<1>6. PagesPartitioned'
  BY <1>2, <1>3, <1>4, PagesAfterLaunch
<1>7. /\ ongoing' = batch /\ phase' \in {"drain", "oom"}
      /\ running' \subseteq running
      /\ RunningCanDecode'
      /\ \A u \in Uids \ running : cached'[u] = cached[u]
      /\ phase' = "drain" => \A u \in running :
                                CanDecode(u, cached[u])' => u \in running'
      /\ \A u \in Uids : row'[u] # row[u] => u \in running
  BY <1>2, <1>3, RunningAfterLaunch
<1>8. \A u \in Uids \ running : CanDecode(u, cached[u])' = CanDecode(u, cached[u])
  BY <1>3, <1>7 DEF CanDecode, RemainLen, MaxDeviceLen
<1>9. ongoing = NoBatch
  BY <1>3 DEF BatchesByPhase
<1>10. OnlySentRequests'
  BY <1>2, <1>3, <1>4, <1>7 DEF OnlySentRequests, Held
<1>11. UnscheduledOwnNothing'
  BY <1>3, <1>4, <1>7 DEF UnscheduledOwnNothing, OnlySentRequests, QueuesHold, Held
<1>12. QueuesHold'
  BY <1>3, <1>4, <1>7 DEF QueuesHold, Held
<1>13. BatchesByPhase' /\ BatchShape'
  BY <1>2, <1>3, <1>7 DEF BatchesByPhase, BatchShape, QueuesHold
<1>14. AbortedGone' /\ FinishedGone'
  BY <1>2, <1>3, <1>4, <1>7 DEF AbortedGone, FinishedGone, Held
<1>15. InFlightHeld'
  BY <1>2, <1>3, <1>4, <1>7 DEF InFlightHeld, Held
<1>16. ASSUME phase' = "drain", NEW u \in last.reqs, u \in Held, u \notin aborted
       PROVE  WillContinue(last, u)'
  <2>1. WillContinue(last, u) /\ u \in Uids
    BY <1>3, <1>9, <1>16 DEF NothingLeftBehind, NoBatch, Held, Holding
  <2>2. CASE u \in running
    BY <1>3, <1>7, <1>16, <2>1, <2>2 DEF WillContinue
  <2>3. CASE u \notin running
    BY <1>3, <1>8, <2>1, <2>3 DEF WillContinue
  <2> QED BY <2>2, <2>3
<1>17. ASSUME phase' = "drain", NEW u \in running
       PROVE  WillContinue(ongoing, u)'
  BY <1>2, <1>7, <1>17 DEF WillContinue
<1>18. NothingLeftBehind'
  <2>1. phase' \in {"recv", "run", "drain"} =>
          \A u \in (last.reqs' \cap Held') \ aborted' :
             WillContinue(last, u)' \/ (u \in last.chunked' /\ u \in ongoing.reqs')
    BY <1>3, <1>4, <1>7, <1>16
  <2>2. phase' \in {"drain", "flush"} =>
          \A u \in ongoing.reqs' \cap Held' : WillContinue(ongoing, u)'
    BY <1>2, <1>7, <1>17
  <2> QED BY <1>7, <2>1, <2>2 DEF NothingLeftBehind, Held
<1>19. NoOrphans'
  BY <1>2, <1>3, <1>4, <1>7, <1>9 DEF NoOrphans, NoBatch, Held
<1> QED
  BY <1>1, <1>5, <1>6, <1>7, <1>10, <1>11, <1>12, <1>13, <1>14, <1>15, <1>18,
     <1>19

LEMMA ProcessInv ==
    ASSUME IInv, ProcessLastData
    PROVE  IInv'
<1> USE DEF IInv
<1>1. TypeOK'
  BY ProcessType
<1>2. /\ phase = "drain" /\ phase' = "flush"
      /\ sent' = sent /\ pending' = pending /\ chunked' = chunked
      /\ last' = last /\ ongoing' = ongoing /\ aborted' = aborted
      /\ outputLen' = outputLen /\ cached' = cached /\ pool' = pool
  BY DEF ProcessLastData, msgVars, batchVars, reqVars, rebuildVars
<1>3. Drained' = Drained /\ Drained \in {last, ongoing}
  BY <1>2 DEF Drained
<1>4. \A v : CanDecode(v, cached[v])' = CanDecode(v, cached[v])
  BY <1>2 DEF CanDecode, RemainLen, MaxDeviceLen
<1> USE DEF QueueInv
<1>5. CASE Drained = NoBatch
  <2>1. UNCHANGED <<running, finishedReqs, memVars>>
    BY <1>5 DEF ProcessLastData
  <2>2. Held' = Held /\ row' = row /\ slot' = slot /\ running' = running
        /\ finishedReqs' = finishedReqs
    BY <2>1 DEF memVars, Held, Holding
  <2>3. SlotsPartitioned' /\ PagesPartitioned'
    BY <1>2, <2>1, <2>2 DEF memVars, SlotsPartitioned, PagesPartitioned, Held
  <2>4. OnlySentRequests' /\ UnscheduledOwnNothing' /\ QueuesHold'
        /\ FinishedGone' /\ AbortedGone' /\ BatchShape' /\ BatchesByPhase'
    BY <1>2, <2>2
    DEF OnlySentRequests, UnscheduledOwnNothing, QueuesHold, FinishedGone,
        AbortedGone, BatchShape, BatchesByPhase, Held
  <2>5. RunningCanDecode'
    BY <1>4, <2>2 DEF RunningCanDecode
  <2>6. InFlightHeld' /\ NoOrphans'
    BY <1>2, <2>2 DEF InFlightHeld, NoOrphans, Held
  <2>7. NothingLeftBehind'
    BY <1>2, <1>3, <1>4, <1>5, <2>2
    DEF NothingLeftBehind, WillContinue, NoBatch, Held
  <2> QED BY <1>1, <2>3, <2>4, <2>5, <2>6, <2>7
<1>6. CASE Drained # NoBatch
  <2> DEFINE cut     == Cut(Drained)
             sampled == Sampled(Drained)
             spent   == {u \in sampled : ~ CanDecode(u, cached[u])}
  <2>1. PICK ends \in SUBSET sampled :
           LET done == ends \cup spent
               gone == done \cup (cut \ Drained.chunked)
           IN /\ running' = running \ gone
              /\ FreeReqResources(done \cup cut)
              /\ finishedReqs' = gone
              /\ UNCHANGED row
    BY <1>6 DEF ProcessLastData
  <2> DEFINE done == ends \cup spent
             gone == done \cup (cut \ Drained.chunked)
  <2>2. /\ running' = running \ gone /\ FreeReqResources(done \cup cut)
        /\ finishedReqs' = gone /\ row' = row
    BY <2>1
  <2>3. /\ done \subseteq Drained.reqs \ (Drained.chunked \cup aborted)
        /\ cut = aborted \cap Drained.reqs
        /\ gone \subseteq done \cup cut /\ done \subseteq gone
        /\ \A u \in Drained.reqs \ (Drained.chunked \cup aborted \cup finishedReqs) :
              u \notin done => CanDecode(u, cached[u])
    BY DEF Cut, Sampled
  <2>4. Drained.reqs \subseteq Uids
    BY <1>3 DEF TypeOK, Batch
  <2> HIDE DEF cut, done, gone, sampled
  <2>5. done \cup cut \subseteq Uids
    BY <2>3, <2>4
  <2>6. Held' = Held \ (done \cup cut) /\ SlotsPartitioned' /\ PagesPartitioned'
    BY <1>2, <2>2, <2>5, HeldAfterFree
  <2>7. /\ (done \cup cut) \cap Elems(pending) = {}
        /\ (done \cup cut) \cap running \subseteq done
        /\ done \cup cut \subseteq sent
    BY <1>3, <2>3, <2>4 DEF BatchShape, AbortedGone, OnlySentRequests
  <2>8. \A u \in Uids : slot'[u] = slot[u] \/ slot'[u] = None
    BY <2>2 DEF FreeReqResources
  <2>9. OnlySentRequests'
    BY <1>2, <2>2, <2>3, <2>6, <2>7 DEF OnlySentRequests, Held
  <2>10. UnscheduledOwnNothing'
    BY <1>2, <2>2, <2>8 DEF UnscheduledOwnNothing
  <2>11. QueuesHold'
    BY <1>2, <2>2, <2>3, <2>6, <2>7 DEF QueuesHold, Held
  <2>12. RunningCanDecode'
    BY <1>4, <2>2 DEF RunningCanDecode
  <2>13. BatchesByPhase' /\ BatchShape' /\ AbortedGone'
    BY <1>2, <2>2 DEF BatchesByPhase, BatchShape, AbortedGone
  <2>14. FinishedGone'
    BY <1>2, <2>2, <2>3, <2>6, <2>7 DEF FinishedGone, Held
  <2>15. InFlightHeld'
    BY <1>2, <2>2, <2>3, <2>6 DEF InFlightHeld, AbortedGone, Held
  <2>16. ASSUME NEW u \in ongoing.reqs, u \in Held'
         PROVE  WillContinue(ongoing, u)'
    <3>1. WillContinue(ongoing, u) /\ u \notin gone
      BY <1>2, <2>3, <2>6, <2>16 DEF NothingLeftBehind, Held
    <3> QED BY <1>2, <1>4, <2>2, <3>1 DEF WillContinue
  <2>17. ASSUME NEW u \in Drained.reqs, u \in Held'
         PROVE  \/ u \in chunked' \cup running'
                \/ Overlap /\ u \in ongoing.reqs
    <3>1. u \in Held /\ u \notin done /\ u \notin aborted /\ u \notin gone
      BY <2>3, <2>6, <2>17
    <3>2. u \notin finishedReqs
      BY <3>1 DEF FinishedGone, Held
    <3>3. u \in Drained.chunked \/ CanDecode(u, cached[u])
      BY <2>3, <2>17, <3>1, <3>2
    <3>4. CASE Overlap
      <4>1. Drained = last
        BY <3>4 DEF Drained
      <4>2. WillContinue(last, u) \/ u \in ongoing.reqs
        BY <1>2, <2>17, <3>1, <4>1 DEF NothingLeftBehind, Held
      <4> QED BY <1>2, <2>2, <3>1, <3>3, <3>4, <4>1, <4>2 DEF WillContinue
    <3>5. CASE ~ Overlap
      <4>1. Drained = ongoing
        BY <3>5 DEF Drained
      <4>2. WillContinue(ongoing, u)
        BY <1>2, <2>17, <3>1, <4>1 DEF NothingLeftBehind, Held
      <4> QED BY <1>2, <2>2, <3>1, <3>3, <4>1, <4>2 DEF WillContinue
    <3> QED BY <3>4, <3>5
  <2>18. NothingLeftBehind'
    BY <1>2, <1>3, <2>16, <2>17 DEF NothingLeftBehind, Held
  <2>19. NoOrphans'
    BY <1>2, <2>2, <2>3, <2>6 DEF NoOrphans, Held
  <2> QED BY <1>1, <2>6, <2>9, <2>10, <2>11, <2>12, <2>13, <2>14, <2>15, <2>18,
             <2>19
<1> QED BY <1>5, <1>6

LEMMA FlushInv ==
    ASSUME IInv, FlushAbortAcks
    PROVE  IInv'
<1> USE DEF IInv
<1>1. TypeOK'
  BY NextType DEF Next, Loop
<1>2. /\ phase = "flush" /\ phase' = "recv" /\ sent' = sent
      /\ pending' = pending /\ chunked' = chunked /\ running' = running
      /\ finishedReqs' = finishedReqs /\ aborted' = aborted
      /\ outputLen' = outputLen /\ cached' = cached /\ slot' = slot
      /\ row' = row /\ freeSlots' = freeSlots /\ freePages' = freePages
      /\ pool' = pool
      /\ last' = (IF Overlap THEN ongoing ELSE NoBatch) /\ ongoing' = NoBatch
  BY DEF FlushAbortAcks, queueVars, reqVars, memVars, rebuildVars
<1>3. Held' = Held
  BY <1>2 DEF Held, Holding
<1>4. SlotsPartitioned' /\ PagesPartitioned'
  BY <1>2, <1>3 DEF SlotsPartitioned, PagesPartitioned, Held
<1>5. \A v : CanDecode(v, cached[v])' = CanDecode(v, cached[v])
  BY <1>2 DEF CanDecode, RemainLen, MaxDeviceLen
<1>6. NoBatch.reqs = {} /\ NoBatch.chunked = {}
  BY DEF NoBatch
<1>7. last'.reqs \subseteq ongoing.reqs
  BY <1>2, <1>6
<1> USE DEF QueueInv
<1>8. OnlySentRequests' /\ UnscheduledOwnNothing' /\ QueuesHold' /\ FinishedGone'
  BY <1>2, <1>3, <1>6, <1>7
  DEF OnlySentRequests, UnscheduledOwnNothing, QueuesHold, FinishedGone, Held
<1>9. RunningCanDecode' /\ BatchesByPhase'
  BY <1>2, <1>5 DEF RunningCanDecode, BatchesByPhase
<1>10. BatchShape' /\ AbortedGone'
  BY <1>2, <1>6 DEF BatchShape, AbortedGone
<1>11. InFlightHeld'
  BY <1>2, <1>3, <1>6, <1>7 DEF InFlightHeld, Held
<1>12. ASSUME NEW u \in last'.reqs, u \in Held
       PROVE  WillContinue(last, u)'
  <2>1. WillContinue(ongoing, u) /\ last' = ongoing
    BY <1>2, <1>6, <1>7, <1>12 DEF NothingLeftBehind, Held
  <2> QED BY <1>2, <1>5, <2>1 DEF WillContinue
<1>13. NothingLeftBehind'
  BY <1>2, <1>3, <1>12 DEF NothingLeftBehind, Held
<1>14. NoOrphans'
  <2> SUFFICES ASSUME NEW u \in Held
               PROVE  u \in chunked \cup running \cup last'.reqs
    BY <1>2, <1>3 DEF NoOrphans, Held
  <2>1. u \in chunked \cup running \cup last.reqs \cup ongoing.reqs
    BY DEF NoOrphans, Held
  <2>2. u \in Drained.reqs => u \in chunked \cup running
                              \/ (Overlap /\ u \in ongoing.reqs)
    BY <1>2 DEF NothingLeftBehind, Held
  <2>3. CASE Overlap
    BY <1>2, <2>1, <2>2, <2>3 DEF Drained
  <2>4. CASE ~ Overlap
    BY <1>2, <1>6, <2>1, <2>2, <2>4 DEF Drained, BatchesByPhase
  <2> QED BY <2>3, <2>4
<1> QED BY <1>1, <1>4, <1>8, <1>9, <1>10, <1>11, <1>13, <1>14

LEMMA NextInv ==
    ASSUME IInv, [Next]_vars
    PROVE  IInv'
<1>0. TypeOK'
  BY NextType DEF IInv
<1>1. ASSUME NEW u \in Uids, UserMsg(u) PROVE IInv'
  BY <1>1, UserMsgInv
<1>2. ASSUME NEW u \in Uids, AbortBackendMsg(u) PROVE IInv'
  BY <1>2, AbortInv
<1>3. ASSUME NEW b \in RebuildIds, CacheRebuildMsg(b) PROVE IInv'
  BY <1>3, CacheRebuildInv
<1>4. CASE EndReceive
  BY <1>0, <1>4, PhaseInv DEF EndReceive
<1>5. CASE ExecutePendingRebuild
  BY <1>5, ExecuteRebuildInv
<1>6. CASE SchedulePrefill
  BY <1>6, PrefillInv
<1>7. CASE ScheduleDecode
  BY <1>7, DecodeInv
<1>8. CASE ScheduleNothing
  BY <1>0, <1>8, PhaseInv DEF ScheduleNothing
<1>9. CASE ProcessLastData
  BY <1>9, ProcessInv
<1>10. CASE FlushAbortAcks
  BY <1>10, FlushInv
<1>11. CASE UNCHANGED vars
  <2>1. QueueInv'
    BY <1>11
    DEF vars, msgVars, queueVars, batchVars, reqVars, memVars, rebuildVars,
        IInv, QueueInv, Holding, OnlySentRequests, UnscheduledOwnNothing,
        QueuesHold, RunningCanDecode, CanDecode, RemainLen, MaxDeviceLen,
        BatchesByPhase, BatchShape, AbortedGone, FinishedGone, InFlightHeld,
        NothingLeftBehind, WillContinue, NoOrphans, Drained
  <2>2. SlotsPartitioned' /\ PagesPartitioned'
    BY <1>11 DEF vars, memVars, rebuildVars, IInv, SlotsPartitioned,
                 PagesPartitioned, Holding
  <2> QED BY <1>0, <2>1, <2>2 DEF IInv
<1> QED
  BY <1>1, <1>2, <1>3, <1>4, <1>5, <1>6, <1>7, <1>8, <1>9, <1>10, <1>11
  DEF Next, Receive, Loop, Blocked

(* The inductive invariant: what every queue and undrained batch knows of  *)
(* a request agrees with what the request owns, after every message, every *)
(* launch and every drain.                                                 *)
THEOREM InvariantHolds == Spec => []IInv
<1> QED BY InitInv, NextInv, PTL DEF Spec

-----------------------------------------------------------------------------
(* What follows from it.                                                   *)

(* _free_req_resources never hands a table slot to two requests and never  *)
(* loses one, whether requests finish, are cut in flight, parked between   *)
(* chunks or aborted while running.                                        *)
THEOREM SlotsConserved == Spec => []SlotsPartitioned
<1>1. IInv => SlotsPartitioned
  BY DEF IInv
<1> QED BY <1>1, InvariantHolds, PTL

(* The same of the pages of the KV pool, across rebuilds that change it.   *)
THEOREM PagesConserved == Spec => []PagesPartitioned
<1>1. IInv => PagesPartitioned
  BY DEF IInv
<1> QED BY <1>1, InvariantHolds, PTL

(* An abort or a finish never frees a request a forward still works on,    *)
(* but for the extra overlapped step of a request that has ended.          *)
THEOREM InFlightSafe == Spec => []InFlightKeepsResources
<1>1. IInv => InFlightKeepsResources
  BY DEF IInv, QueueInv, InFlightHeld, InFlightKeepsResources, Holding
<1> QED BY <1>1, InvariantHolds, PTL

(* A request that owns a slot is always where the loop will meet it again. *)
THEOREM NothingOrphaned == Spec => []NoOrphans
<1>1. IInv => NoOrphans
  BY DEF IInv, QueueInv
<1> QED BY <1>1, InvariantHolds, PTL

(* check_integrity succeeds whenever the idle loop calls it.               *)
THEOREM IdleIntegrity == Spec => []IntegrityHolds
<1>1. IInv => IntegrityHolds
  <2> SUFFICES ASSUME IInv, Idle
               PROVE  freePages = pool /\ freeSlots = Slots
    BY DEF IntegrityHolds
  <2>1. Held = {}
    BY IdleOwnsNothing DEF Idle
  <2> QED BY <2>1 DEF IInv, SlotsPartitioned, PagesPartitioned, Held
<1> QED BY <1>1, InvariantHolds, PTL

(* A rebuild tears the pool down only when no request owns a slot or page  *)
(* and no batch is in flight.                                              *)
THEOREM RebuildWhenIdle == Spec => RebuildOnlyWhenIdle
<1>1. IInv /\ [Next]_vars
        => [(pendingRebuild # None /\ pendingRebuild' = None)
              => last = NoBatch /\ Holding(Uids) = {}]_vars
  <2> SUFFICES ASSUME IInv, [Next]_vars, pendingRebuild # None,
                      pendingRebuild' = None
               PROVE  last = NoBatch /\ Holding(Uids) = {}
    OBVIOUS
  <2>1. ExecutePendingRebuild
    BY DEF Next, Receive, Loop, Blocked, vars, rebuildVars, UserMsg,
           AbortBackendMsg, CacheRebuildMsg, EndReceive, SchedulePrefill,
           ScheduleDecode, ScheduleNothing, ProcessLastData, FlushAbortAcks
  <2> QED BY <2>1, IdleOwnsNothing DEF ExecutePendingRebuild, RebuildDue, Held
<1> QED BY <1>1, InvariantHolds, PTL DEF Spec, RebuildOnlyWhenIdle

-----------------------------------------------------------------------------
(* A page-table row holds exactly the pages of its request's progress, for *)
(* every page size.  PageInv is inductive relative to IInv: only a launch  *)
(* changes a row or a length, and it changes both alike.                   *)


Unscheduled(u) == u \notin sent \/ (u \in Elems(pending) /\ u \notin chunked)

LEMMA DivCeilType ==
    ASSUME NEW n \in Nat
    PROVE  DivCeil(n) \in Int /\ DivCeil(0) = 0
<1>1. PageSize \in Nat /\ PageSize > 0
  BY SchedulerAssumption
<1>2. DivCeil(n) \in Int
  BY <1>1 DEF DivCeil
<1>3. DivCeil(0) = 0
  BY <1>1 DEF DivCeil
<1> QED BY <1>2, <1>3

(* A row and the pages granted to it are disjoint finite sets.             *)
LEMMA RowGrows ==
    ASSUME NEW r \in SUBSET Pages, NEW g \in SUBSET Pages, r \cap g = {},
           NEW c \in Nat, NEW d \in Nat,
           Cardinality(r) = DivCeil(c), Cardinality(g) = NeededPages(d, c)
    PROVE  Cardinality(r \cup g) = DivCeil(d)
<1>1. IsFiniteSet(r) /\ IsFiniteSet(g)
  BY SchedulerAssumption, FS_Subset
<1>2. Cardinality(r \cup g) = Cardinality(r) + Cardinality(g) - Cardinality({})
  BY <1>1, FS_Union
<1>3. Cardinality({}) = 0
  BY FS_EmptySet
<1> QED BY <1>2, <1>3, DivCeilType DEF NeededPages

LEMMA LaunchPages ==
    ASSUME TypeOK, NEW batch \in Batch, NEW d,
           \A u \in batch.reqs : d[u] \in Nat,
           Launch(batch, d),
           \A u \in Held' : /\ row[u] \cap freePages = {}
                            /\ Cardinality(row[u]) = DivCeil(cached[u])
    PROVE  PagesMatchProgress'
<1>0. Held' \subseteq Uids
  BY DEF Held, Holding
<1>1. CASE phase' = "oom"
  <2>1. row' = row /\ cached' = cached
    BY <1>1 DEF Launch
  <2> QED BY <2>1 DEF PagesMatchProgress, Held
<1>2. CASE phase' # "oom"
  <2>1. PICK grant \in [freePages -> batch.reqs \cup {None}] :
          /\ \A u \in batch.reqs :
               Cardinality({p \in freePages : grant[p] = u})
                 = NeededPages(d[u], cached[u])
          /\ row' = [u \in Uids |->
                       IF u \in batch.reqs
                       THEN row[u] \cup {p \in freePages : grant[p] = u}
                       ELSE row[u]]
    BY <1>2 DEF Launch
  <2>2. cached' = [u \in Uids |-> IF u \in batch.reqs THEN d[u] ELSE cached[u]]
    BY <1>2 DEF Launch
  <2>3. ASSUME NEW u \in Held', u \in batch.reqs
        PROVE  Cardinality(row'[u]) = DivCeil(cached'[u])
    <3> DEFINE new == {p \in freePages : grant[p] = u}
    <3>1. /\ row[u] \in SUBSET Pages /\ new \in SUBSET Pages
          /\ cached[u] \in Nat /\ d[u] \in Nat
      BY <1>0, <2>3 DEF TypeOK
    <3>2. row[u] \cap new = {}
      OBVIOUS
    <3>3. Cardinality(new) = NeededPages(d[u], cached[u])
      BY <2>1, <2>3
    <3>4. Cardinality(row[u] \cup new) = DivCeil(d[u])
      <4> HIDE DEF new
      <4> QED BY <3>1, <3>2, <3>3, RowGrows
    <3>5. row'[u] = row[u] \cup new /\ cached'[u] = d[u]
      BY <1>0, <2>1, <2>2, <2>3
    <3> QED BY <3>4, <3>5
  <2>4. ASSUME NEW u \in Held', u \notin batch.reqs
        PROVE  Cardinality(row'[u]) = DivCeil(cached'[u])
    BY <1>0, <2>1, <2>2, <2>4
  <2>5. \A u \in Held' : Cardinality(row'[u]) = DivCeil(cached'[u])
    BY <2>3, <2>4
  <2>6. PagesMatchProgress' =
          (\A u \in Held' : Cardinality(row'[u]) = DivCeil(cached'[u]))
    BY DEF PagesMatchProgress, Held, DivCeil
  <2> QED BY <2>5, <2>6
<1> QED BY <1>1, <1>2

-----------------------------------------------------------------------------
(* Steps without a launch leave rows and lengths alone; they only free.    *)

LEMMA QuietPages ==
    ASSUME PageInv, row' = row, cached' = cached, Held' \subseteq Held,
           \A u \in Uids : Unscheduled(u)' => Unscheduled(u)
    PROVE  PageInv'
<1>1. UnscheduledAtZero'
  BY DEF PageInv, UnscheduledAtZero, Unscheduled
<1>2. PagesMatchProgress'
  BY DEF PageInv, PagesMatchProgress, Held, DivCeil
<1> QED BY <1>1, <1>2 DEF PageInv

LEMMA FreeShrinks ==
    ASSUME TypeOK, NEW us \in SUBSET Uids, FreeReqResources(us)
    PROVE  Held' \subseteq Held
  BY DEF FreeReqResources, Holding, Held, TypeOK

LEMMA MessagePages ==
    ASSUME IInv, PageInv,
           \/ \E u \in Uids : UserMsg(u) \/ AbortBackendMsg(u)
           \/ \E b \in RebuildIds : CacheRebuildMsg(b)
    PROVE  PageInv'
<1>0. TypeOK /\ chunked \subseteq Elems(pending) /\ Elems(pending) \subseteq sent
  BY DEF IInv, QueueInv, QueuesHold, OnlySentRequests
<1>1. ASSUME NEW u \in Uids, UserMsg(u) PROVE PageInv'
  <2>1. /\ row' = row /\ cached' = cached /\ slot' = slot
        /\ sent' = sent \cup {u} /\ u \notin sent /\ chunked' = chunked
    BY <1>1 DEF UserMsg, memVars
  <2>2. Elems(pending)' \subseteq Elems(pending) \cup {u}
    <3>1. pending' = pending \/ pending' = Append(pending, u)
      BY <1>1 DEF UserMsg, DropAborted, RejectRequest, AddOneReq
    <3>2. Elems(Append(pending, u)) = Elems(pending) \cup {u}
      BY <1>0, AppendElems DEF TypeOK
    <3> QED BY <3>1, <3>2
  <2>3. Held' = Held
    BY <2>1 DEF Held, Holding
  <2>4. \A v \in Uids : Unscheduled(v)' => Unscheduled(v)
    BY <2>1, <2>2 DEF Unscheduled
  <2> QED BY <2>1, <2>3, <2>4, QuietPages
<1>2. ASSUME NEW u \in Uids, AbortBackendMsg(u) PROVE PageInv'
  <2>1. /\ row' = row /\ cached' = cached /\ sent' = sent
        /\ chunked' = chunked \ {u} /\ pending' = Without(pending, u)
        /\ FreeReqResources(ReqToFree(u) \ InFlight(ReqToFree(u)))
    BY <1>2 DEF AbortBackendMsg, reqVars
  <2>2. Held' \subseteq Held
    <3>1. ReqToFree(u) \ InFlight(ReqToFree(u)) \in SUBSET Uids
      BY DEF ReqToFree
    <3> QED BY <1>0, <2>1, <3>1, FreeShrinks
  <2>3. Elems(pending)' \subseteq Elems(pending) \ {u}
    BY <2>1, WithoutElems DEF IInv, TypeOK, QueueInv, OnlySentRequests
  <2>4. \A v \in Uids : Unscheduled(v)' => Unscheduled(v)
    BY <2>1, <2>3 DEF Unscheduled
  <2> QED BY <2>1, <2>2, <2>4, QuietPages
<1>3. ASSUME NEW b \in RebuildIds, CacheRebuildMsg(b) PROVE PageInv'
  <2>1. UNCHANGED <<row, cached, slot, sent, pending, chunked>>
    BY <1>3 DEF CacheRebuildMsg, msgVars, queueVars, reqVars, memVars
  <2> QED BY <2>1, QuietPages DEF Held, Holding, Unscheduled
<1> QED BY <1>1, <1>2, <1>3

LEMMA LoopPages ==
    ASSUME IInv, PageInv,
           \/ EndReceive \/ ExecutePendingRebuild \/ ScheduleNothing
           \/ ProcessLastData \/ FlushAbortAcks \/ UNCHANGED vars
    PROVE  PageInv'
<1>1. UNCHANGED <<row, cached, sent, pending, chunked>>
  BY DEF EndReceive, ExecutePendingRebuild, ScheduleNothing, ProcessLastData,
         FlushAbortAcks, vars, msgVars, queueVars, reqVars, memVars
<1>2. Held' \subseteq Held
  <2>1. CASE slot' = slot
    BY <2>1 DEF Held, Holding
  <2>2. CASE slot' # slot
    <3>1. ProcessLastData
      BY <2>2 DEF EndReceive, ExecutePendingRebuild, ScheduleNothing,
                  FlushAbortAcks, vars, memVars
    <3>2. PICK ends \in SUBSET Sampled(Drained) :
            FreeReqResources(ends
              \cup {u \in Sampled(Drained) : ~ CanDecode(u, cached[u])}
              \cup Cut(Drained))
      BY <2>2, <3>1 DEF ProcessLastData, memVars
    <3>3. Drained.reqs \subseteq Uids
      BY DEF Drained, IInv, TypeOK, Batch
    <3>4. /\ TypeOK
          /\ ends \cup {u \in Sampled(Drained) : ~ CanDecode(u, cached[u])}
               \cup Cut(Drained) \in SUBSET Uids
      BY <3>3 DEF Sampled, Cut, IInv
    <3> QED BY <3>2, <3>4, FreeShrinks
  <2> QED BY <2>1, <2>2
<1> QED BY <1>1, <1>2, QuietPages DEF Unscheduled

-----------------------------------------------------------------------------
(* Launches. *)

LEMMA PrefillPages ==
    ASSUME IInv, PageInv, SchedulePrefill
    PROVE  PageInv'
<1>1. PICK n \in 1 .. Len(pending) : LaunchPrefill(n)
  BY DEF SchedulePrefill
<1> DEFINE batch == PrefillBatch(n)
           fresh == Fresh(n)
           d == [u \in batch.reqs |-> DeviceLen(CHOOSE i \in 1 .. n : pending[i] = u)]
<1>2. /\ TypeOK /\ batch \in Batch /\ batch.chunked \subseteq batch.reqs
      /\ batch.reqs \subseteq Elems(pending) /\ batch.reqs \subseteq Uids
      /\ fresh = batch.reqs \ chunked
      /\ Elems(pending) \subseteq sent
      /\ \A u \in batch.reqs : d[u] \in Nat
  BY PrefillBatchType, DeviceLenType
     DEF IInv, QueueInv, OnlySentRequests, Fresh, Batch
<1>3. /\ sent' = sent /\ chunked' = (chunked \ batch.reqs) \cup batch.chunked
      /\ outputLen' = outputLen /\ TakeSlots(fresh) /\ Launch(batch, d)
  BY <1>1 DEF SchedulePrefill, LaunchPrefill, msgVars
<1>4. Elems(pending)' = (Elems(pending) \ batch.reqs) \cup batch.chunked
  BY <1>1, PrefillQueue
<1> HIDE DEF batch, fresh, d
<1>5. \A u \in fresh : slot[u] = None /\ row[u] = {} /\ cached[u] = 0
  BY <1>2 DEF IInv, QueueInv, UnscheduledOwnNothing, PageInv, UnscheduledAtZero
<1>6. Held' = Held \cup fresh
  BY <1>2, <1>3, <1>5, HeldAfterTake DEF IInv, Held, Holding
<1>7. \A u \in Held' : /\ row[u] \cap freePages = {}
                       /\ Cardinality(row[u]) = DivCeil(cached[u])
  <2>1. Cardinality({}) = DivCeil(0)
    BY FS_EmptySet, DivCeilType
  <2>2. \A u \in Held : /\ row[u] \cap freePages = {}
                        /\ Cardinality(row[u]) = DivCeil(cached[u])
    BY DEF IInv, PagesPartitioned, PageInv, PagesMatchProgress, Held
  <2> QED BY <1>5, <1>6, <2>1, <2>2
<1>8. PagesMatchProgress'
  BY <1>2, <1>3, <1>7, LaunchPages
<1>9. UnscheduledAtZero'
  <2>1. \A u \in Uids : Unscheduled(u)' => Unscheduled(u) /\ u \notin batch.reqs
    BY <1>2, <1>3, <1>4 DEF Unscheduled
  <2>2. \A u \in Uids \ batch.reqs : cached'[u] = cached[u]
    BY <1>2, <1>3, RunningAfterLaunch DEF IInv, QueueInv
  <2> QED BY <2>1, <2>2 DEF PageInv, UnscheduledAtZero, Unscheduled
<1> QED BY <1>8, <1>9 DEF PageInv

LEMMA DecodePages ==
    ASSUME IInv, PageInv, ScheduleDecode
    PROVE  PageInv'
<1> DEFINE batch == [reqs |-> running, chunked |-> {}]
           d == [u \in running |-> cached[u] + 1]
<1>1. /\ TypeOK /\ batch \in Batch /\ batch.reqs = running
      /\ \A u \in batch.reqs : d[u] \in Nat
  BY DEF Batch, IInv, TypeOK
<1>2. /\ UNCHANGED <<sent, pending, chunked, slot, outputLen>>
      /\ Launch(batch, d)
  BY DEF ScheduleDecode, msgVars
<1> HIDE DEF batch, d
<1>3. Held' = Held
  BY <1>2 DEF Held, Holding
<1>4. \A u \in Held' : /\ row[u] \cap freePages = {}
                       /\ Cardinality(row[u]) = DivCeil(cached[u])
  BY <1>3 DEF IInv, PagesPartitioned, PageInv, PagesMatchProgress, Held
<1>5. PagesMatchProgress'
  BY <1>1, <1>2, <1>4, LaunchPages
<1>6. UnscheduledAtZero'
  <2>1. \A u \in Uids : Unscheduled(u)' => Unscheduled(u) /\ u \notin running
    BY <1>2 DEF Unscheduled, IInv, QueueInv, QueuesHold, OnlySentRequests,
                Held, Holding
  <2>2. \A u \in Uids \ batch.reqs : cached'[u] = cached[u]
    BY <1>1, <1>2, RunningAfterLaunch DEF IInv, QueueInv
  <2> QED BY <1>1, <2>1, <2>2 DEF PageInv, UnscheduledAtZero, Unscheduled
<1> QED BY <1>5, <1>6 DEF PageInv

LEMMA InitPages == Init => PageInv
  BY DEF Init, PageInv, UnscheduledAtZero, PagesMatchProgress, Holding

LEMMA NextPages ==
    ASSUME IInv, PageInv, [Next]_vars
    PROVE  PageInv'
  BY MessagePages, LoopPages, PrefillPages, DecodePages
  DEF Next, Receive, Loop, Blocked

(* allocate_paged gives a request the pages from the end of its last grant *)
(* to its new length, so the range a finish frees, [0, page_ceil(cached)), *)
(* is the request's row: nothing of a former occupant and nothing short.   *)
THEOREM RowsMatchProgress == Spec => []PagesMatchProgress
<1>1. Spec => []PageInv
  BY InitPages, NextPages, InvariantHolds, PTL DEF Spec
<1>2. PageInv => PagesMatchProgress
  BY DEF PageInv
<1> QED BY <1>1, <1>2, PTL


-----------------------------------------------------------------------------
(* The scheduler implements ReplyStream: whatever is batched, aborted or   *)
(* finished under an overlapped forward, the messages sent for a request   *)
(* come in the order downstream relies on.  ReplyInv is inductive relative *)
(* to IInv if the tombstones cannot overflow.                              *)

\* _abort_tombstones keeps 65_536 aborts of requests not yet received.
TombstonesSuffice == IsFiniteSet(Uids) /\ Cardinality(Uids) <= TombstoneCap

StreamStep == Stream!Next \/ reply' = reply

-----------------------------------------------------------------------------
(* Sequences of messages, and of tombstones. *)

LEMMA AppendMessage ==
    ASSUME NEW s \in Seq(Kinds), NEW k \in Kinds
    PROVE  Stream!Streaming(Append(s, k)) <=> k \in {"admit", "tok"}
<1>1. /\ Append(s, k) \in Seq(Kinds) /\ Len(Append(s, k)) = Len(s) + 1
      /\ Append(s, k)[Len(s) + 1] = k /\ Len(s) \in Nat
  BY AppendProperties, LenProperties
<1>2. Append(s, k) # << >>
  BY <1>1, EmptySeq
<1> QED BY <1>1, <1>2 DEF Stream!Streaming

LEMMA SendEffect ==
    ASSUME TypeOK, NEW us \in SUBSET Uids, NEW k \in Kinds, Send(us, k)
    PROVE  /\ \A u \in Uids \ us : reply'[u] = reply[u]
           /\ \A u \in us : reply'[u] = Append(reply[u], k)
           /\ DOMAIN reply' = Uids
           /\ k = "admit" => \A u \in us : Stream!Streaming(reply'[u])
<1>1. /\ \A u \in Uids \ us : reply'[u] = reply[u]
      /\ \A u \in us : reply'[u] = Append(reply[u], k)
      /\ DOMAIN reply' = Uids
  BY DEF Send
<1>2. \A u \in us : reply[u] \in Seq(Kinds)
  BY DEF TypeOK
<1> QED BY <1>1, <1>2, AppendMessage

LEMMA SendStep ==
    ASSUME TypeOK, NEW us \in SUBSET Uids, NEW k \in Kinds, Send(us, k),
           \A u \in us : Stream!MayFollow(reply[u], k)
    PROVE  StreamStep
  BY SendEffect DEF StreamStep, Stream!Next, Kinds, Stream!Kinds

LEMMA DistinctFits ==
    ASSUME TombstonesSuffice, NEW s \in Seq(Uids), Distinct(s)
    PROVE  Len(s) <= TombstoneCap
<1>1. /\ Len(s) \in Nat /\ DOMAIN s = 1 .. Len(s)
      /\ \A i \in 1 .. Len(s) : s[i] \in Uids
  BY LenProperties, ElementOfSeq
<1>2. TombstoneCap \in Nat /\ Cardinality(Uids) \in Nat
  BY SchedulerAssumption, FS_CardinalityType DEF TombstonesSuffice
<1>3. IsFiniteSet(1 .. Len(s)) /\ Cardinality(1 .. Len(s)) = Len(s)
  <2> DEFINE n == Len(s)
  <2>1. n \in Nat /\ 1 \in Int /\ n \in Int
    BY <1>1
  <2> HIDE DEF n
  <2>2. /\ IsFiniteSet(1 .. n)
        /\ Cardinality(1 .. n) = IF 1 > n THEN 0 ELSE n - 1 + 1
    BY <2>1, FS_Interval
  <2>3. Cardinality(1 .. n) = n
    BY <2>1, <2>2
  <2> QED BY <2>2, <2>3 DEF n
<1>4. ASSUME Len(s) > Cardinality(Uids) PROVE FALSE
  <2>1. s \in [1 .. Len(s) -> Uids]
    BY <1>1
  <2>2. \E i, j \in 1 .. Len(s) : i # j /\ s[i] = s[j]
    BY <1>2, <1>3, <1>4, <2>1, FS_PigeonHole DEF TombstonesSuffice
  <2> QED BY <1>1, <2>2 DEF Distinct
<1> QED BY <1>1, <1>2, <1>4 DEF TombstonesSuffice

\* Setting a tombstone drops none.
LEMMA SetTombstoneEffect ==
    ASSUME TombstonesSuffice, TypeOK, Distinct(tombstones), NEW u \in Uids,
           SetTombstone(u)
    PROVE  Distinct(tombstones)' /\ Elems(tombstones)' = Elems(tombstones) \cup {u}
<1> DEFINE set == IF u \in Elems(tombstones) THEN tombstones
                  ELSE Append(tombstones, u)
<1>1. tombstones \in Seq(Uids)
  BY DEF TypeOK
<1>2. set \in Seq(Uids) /\ Distinct(set) /\ Elems(set) = Elems(tombstones) \cup {u}
  BY <1>1, AppendElems
<1>3. tombstones' = IF Len(set) > TombstoneCap THEN Tail(set) ELSE set
  BY DEF SetTombstone
<1> HIDE DEF set
<1>4. Len(set) <= TombstoneCap
  BY <1>2, DistinctFits
<1>5. tombstones' = set
  BY <1>2, <1>3, <1>4, LenProperties, SchedulerAssumption
<1> QED BY <1>2, <1>5

-----------------------------------------------------------------------------
(* Messages received. *)

\* A request not yet received is nowhere in the scheduler.
LEMMA UnsentNowhere ==
    ASSUME IInv, NEW u \in Uids, u \notin sent
    PROVE  u \notin Elems(pending) \cup chunked \cup running \cup last.reqs
                      \cup ongoing.reqs
  BY DEF IInv, QueueInv, OnlySentRequests, QueuesHold

LEMMA UserMsgReplies ==
    ASSUME IInv, ReplyInv, NEW u \in Uids, UserMsg(u)
    PROVE  ReplyInv' /\ StreamStep
<1>1. /\ phase = "recv" /\ u \notin sent /\ sent' = sent \cup {u}
      /\ UNCHANGED <<phase, chunked, running, finishedReqs, last, ongoing,
                     aborted>>
  BY DEF UserMsg, batchVars
<1>2. /\ u \notin Elems(pending) \cup chunked \cup running \cup last.reqs
               \cup ongoing.reqs
      /\ TypeOK /\ chunked \subseteq Elems(pending)
      /\ ongoing.reqs = {}
  BY <1>1, UnsentNowhere
     DEF IInv, QueueInv, QueuesHold, BatchesByPhase, NoBatch
<1>3. /\ last.reqs \subseteq Uids /\ running \subseteq Uids
      /\ chunked \subseteq Uids /\ Elems(pending) \subseteq Uids
      /\ Elems(tombstones) \subseteq Uids
  BY ElemsType, <1>2 DEF TypeOK, Batch
<1>4. CASE DropAborted(u)
  <2>1. /\ UNCHANGED <<acks, reply, pending>>
        /\ Distinct(tombstones)'
        /\ Elems(tombstones) \ {u} \subseteq Elems(tombstones)'
    <3>1. tombstones' = Without(tombstones, u) /\ tombstones \in Seq(Uids)
      BY <1>2, <1>4 DEF DropAborted, TypeOK
    <3>2. Distinct(tombstones)
      BY DEF ReplyInv, TombstonesDistinct
    <3> QED BY <1>4, <3>1, <3>2, WithoutElems DEF DropAborted
  <2>2. FreshIsSilent' /\ LiveIsStreaming' /\ BatchIsStreaming' /\ AckedIsGone'
    BY <1>1, <2>1 DEF ReplyInv, FreshIsSilent, LiveIsStreaming,
                      BatchIsStreaming, AckedIsGone
  <2>3. UnsentIsSilent' /\ TombstonesDistinct'
    BY <1>1, <2>1 DEF ReplyInv, UnsentIsSilent, TombstonesDistinct
  <2> QED BY <2>1, <2>2, <2>3 DEF ReplyInv, StreamStep
<1>5. ASSUME u \notin Elems(tombstones)
      PROVE  reply[u] = << >> /\ u \notin acks
  BY <1>1, <1>5 DEF ReplyInv, UnsentIsSilent
<1>6. CASE RejectRequest(u)
  <2>1. /\ UNCHANGED <<tombstones, acks, pending>> /\ Send({u}, "error")
        /\ reply[u] = << >>
    BY <1>5, <1>6 DEF RejectRequest
  <2>2. \A v \in Uids \ {u} : reply'[v] = reply[v]
    BY <1>2, <2>1, SendEffect DEF Kinds
  <2>3. StreamStep
    BY <1>2, <2>1, SendStep DEF Kinds, Stream!MayFollow
  <2>4. FreshIsSilent' /\ LiveIsStreaming'
    BY <1>1, <1>2, <1>3, <2>1, <2>2
       DEF ReplyInv, FreshIsSilent, LiveIsStreaming
  <2>5. BatchIsStreaming' /\ AckedIsGone'
    BY <1>1, <1>2, <1>3, <2>1, <2>2
       DEF ReplyInv, BatchIsStreaming, AckedIsGone
  <2>6. UnsentIsSilent' /\ TombstonesDistinct'
    BY <1>1, <2>1, <2>2 DEF ReplyInv, UnsentIsSilent, TombstonesDistinct
  <2> QED BY <2>3, <2>4, <2>5, <2>6 DEF ReplyInv
<1>7. CASE AddOneReq(u)
  <2>1. /\ UNCHANGED <<tombstones, acks, reply>> /\ reply[u] = << >>
        /\ u \notin acks /\ pending' = Append(pending, u)
    BY <1>5, <1>7 DEF AddOneReq
  <2>2. Elems(pending)' = Elems(pending) \cup {u}
    BY <1>2, <2>1, AppendElems DEF TypeOK
  <2>3. FreshIsSilent' /\ LiveIsStreaming' /\ BatchIsStreaming' /\ AckedIsGone'
    BY <1>1, <2>1, <2>2 DEF ReplyInv, FreshIsSilent, LiveIsStreaming,
                            BatchIsStreaming, AckedIsGone
  <2>4. UnsentIsSilent' /\ TombstonesDistinct'
    BY <1>1, <2>1 DEF ReplyInv, UnsentIsSilent, TombstonesDistinct
  <2> QED BY <2>1, <2>3, <2>4 DEF ReplyInv, StreamStep
<1> QED BY <1>4, <1>6, <1>7 DEF UserMsg

LEMMA AbortReplies ==
    ASSUME TombstonesSuffice, IInv, ReplyInv, NEW u \in Uids, AbortBackendMsg(u)
    PROVE  ReplyInv' /\ StreamStep
<1>1. /\ phase = "recv" /\ SetTombstone(u) /\ pending' = Without(pending, u)
      /\ chunked' = chunked \ {u} /\ running' = running \ {u}
      /\ aborted \subseteq aborted' /\ acks' = acks \cup {u}
      /\ UNCHANGED <<phase, sent, reply, finishedReqs, last, ongoing>>
  BY DEF AbortBackendMsg
<1>2. /\ Distinct(tombstones)'
      /\ Elems(tombstones)' = Elems(tombstones) \cup {u}
  BY <1>1, SetTombstoneEffect DEF IInv, ReplyInv, TombstonesDistinct
<1>3. Elems(pending)' \subseteq Elems(pending) \ {u}
  BY <1>1, WithoutElems DEF IInv, TypeOK, QueueInv, OnlySentRequests
<1>4. ongoing.reqs = {}
  BY <1>1 DEF IInv, QueueInv, BatchesByPhase, NoBatch
<1>5. FreshIsSilent' /\ LiveIsStreaming' /\ BatchIsStreaming' /\ AckedIsGone'
  BY <1>1, <1>3, <1>4 DEF ReplyInv, FreshIsSilent, LiveIsStreaming,
                          BatchIsStreaming, AckedIsGone
<1>6. UnsentIsSilent' /\ TombstonesDistinct'
  BY <1>1, <1>2 DEF ReplyInv, UnsentIsSilent, TombstonesDistinct
<1> QED BY <1>1, <1>5, <1>6 DEF ReplyInv, StreamStep

-----------------------------------------------------------------------------
(* Steps that neither answer nor move a request. *)

LEMMA QuietReplies ==
    ASSUME IInv, ReplyInv,
           \/ \E b \in RebuildIds : CacheRebuildMsg(b)
           \/ EndReceive \/ ExecutePendingRebuild \/ ScheduleNothing
           \/ UNCHANGED vars
    PROVE  ReplyInv' /\ StreamStep
<1>1. UNCHANGED <<sent, tombstones, acks, reply, pending, chunked, running,
                  finishedReqs, last, ongoing, aborted>>
  BY DEF CacheRebuildMsg, EndReceive, ExecutePendingRebuild, ScheduleNothing,
         vars, msgVars, queueVars, batchVars
<1>2. \/ phase' = phase
      \/ phase \in {"recv", "run"} /\ phase' \in {"run", "drain"}
  BY DEF CacheRebuildMsg, EndReceive, ExecutePendingRebuild, ScheduleNothing,
         vars
<1>3. phase \in {"recv", "run"} => ongoing.reqs = {}
  BY DEF IInv, QueueInv, BatchesByPhase, NoBatch
<1>4. FreshIsSilent' /\ UnsentIsSilent' /\ TombstonesDistinct' /\ AckedIsGone'
  BY <1>1 DEF ReplyInv, FreshIsSilent, UnsentIsSilent, TombstonesDistinct,
              AckedIsGone
<1>5. LiveIsStreaming' /\ BatchIsStreaming'
  BY <1>1, <1>2, <1>3 DEF ReplyInv, LiveIsStreaming, BatchIsStreaming
<1> QED BY <1>1, <1>4, <1>5 DEF ReplyInv, StreamStep

-----------------------------------------------------------------------------
(* Launches. *)

LEMMA PrefillReplies ==
    ASSUME IInv, ReplyInv, SchedulePrefill
    PROVE  ReplyInv' /\ StreamStep
<1>1. PICK n \in 1 .. Len(pending) : LaunchPrefill(n)
  BY DEF SchedulePrefill
<1> DEFINE batch == PrefillBatch(n)
           reqs  == batch.reqs
           again == batch.chunked
           fresh == Fresh(n)
           told  == IF phase' = "oom" THEN {} ELSE fresh
           d == [u \in reqs |-> DeviceLen(CHOOSE i \in 1 .. n : pending[i] = u)]
<1>2. /\ TypeOK /\ batch \in Batch /\ again \subseteq reqs
      /\ reqs \subseteq Elems(pending) /\ reqs \subseteq Uids
      /\ fresh = reqs \ chunked /\ Elems(pending) \subseteq sent
  BY PrefillBatchType DEF IInv, QueueInv, OnlySentRequests, Fresh, Batch
<1>3. Elems(pending)' = (Elems(pending) \ reqs) \cup again
  BY <1>1, PrefillQueue
<1>4. /\ phase = "run" /\ chunked' = (chunked \ reqs) \cup again
      /\ UNCHANGED <<sent, tombstones, acks, finishedReqs, last, aborted,
                     outputLen>>
      /\ Launch(batch, d) /\ Send(told, "admit")
  BY <1>1 DEF SchedulePrefill, LaunchPrefill, msgVars
<1> HIDE DEF batch, fresh, d
<1>5. /\ ongoing' = batch /\ phase' \in {"drain", "oom"}
      /\ running' \subseteq running \cup reqs
  BY <1>2, <1>4, RunningAfterLaunch DEF IInv, QueueInv
<1>6. told \in SUBSET Uids /\ "admit" \in Kinds
  BY <1>2 DEF Kinds
<1>7. \A u \in fresh : reply[u] = << >>
  BY <1>2 DEF ReplyInv, FreshIsSilent
<1>8. StreamStep
  BY <1>2, <1>4, <1>6, <1>7, SendStep DEF Stream!MayFollow
<1>9. /\ \A u \in Uids \ told : reply'[u] = reply[u]
      /\ \A u \in told : Stream!Streaming(reply'[u])
  <2> HIDE DEF told
  <2> QED BY <1>2, <1>4, <1>6, SendEffect
<1>10. Elems(pending) \subseteq Uids
  BY <1>2, ElemsType DEF TypeOK
<1>11. FreshIsSilent'
  BY <1>2, <1>3, <1>4, <1>9, <1>10 DEF ReplyInv, FreshIsSilent
<1>12. UnsentIsSilent' /\ TombstonesDistinct'
  BY <1>2, <1>4, <1>9 DEF ReplyInv, UnsentIsSilent, TombstonesDistinct
<1>13. AckedIsGone'
  BY <1>2, <1>3, <1>4, <1>5 DEF ReplyInv, AckedIsGone
<1>14. LiveIsStreaming' /\ BatchIsStreaming'
  <2>1. CASE phase' = "oom"
    BY <2>1 DEF LiveIsStreaming, BatchIsStreaming
  <2>2. CASE phase' = "drain"
    <3>1. told = fresh
      BY <2>2
    <3>2. \A u \in Uids : Stream!Streaming(reply[u]) => Stream!Streaming(reply'[u])
      BY <1>9
    <3>3. chunked \cup running \cup last.reqs \subseteq Uids
      BY <1>2 DEF TypeOK, Batch
    <3>4. \A u \in chunked \cup running \cup reqs : Stream!Streaming(reply'[u])
      <4>1. \A u \in chunked \cup running : Stream!Streaming(reply[u])
        BY <1>4 DEF ReplyInv, LiveIsStreaming
      <4> QED BY <1>2, <1>9, <3>1, <3>2, <3>3, <4>1
    <3>5. LiveIsStreaming'
      BY <1>2, <1>4, <1>5, <3>4 DEF LiveIsStreaming
    <3>6. \A u \in last.reqs \ (aborted \cup finishedReqs \cup last.chunked) :
             Stream!Streaming(reply'[u])
      BY <1>4, <3>2, <3>3 DEF ReplyInv, BatchIsStreaming
    <3>7. BatchIsStreaming'
      BY <1>4, <1>5, <2>2, <3>4, <3>6 DEF BatchIsStreaming
    <3> QED BY <3>5, <3>7
  <2> QED BY <1>5, <2>1, <2>2
<1> QED BY <1>8, <1>11, <1>12, <1>13, <1>14 DEF ReplyInv

LEMMA DecodeReplies ==
    ASSUME IInv, ReplyInv, ScheduleDecode
    PROVE  ReplyInv' /\ StreamStep
<1> DEFINE batch == [reqs |-> running, chunked |-> {}]
           d == [u \in running |-> cached[u] + 1]
<1>1. batch \in Batch /\ batch.reqs = running /\ batch.chunked = {} /\ TypeOK
  BY DEF Batch, IInv, TypeOK
<1>2. /\ phase = "run" /\ Launch(batch, d)
      /\ UNCHANGED <<sent, tombstones, acks, reply, pending, chunked,
                     finishedReqs, last, aborted, outputLen>>
  BY DEF ScheduleDecode, msgVars
<1> HIDE DEF batch, d
<1>3. /\ ongoing' = batch /\ phase' \in {"drain", "oom"}
      /\ running' \subseteq running
  BY <1>1, <1>2, RunningAfterLaunch DEF IInv, QueueInv
<1>4. FreshIsSilent' /\ UnsentIsSilent' /\ TombstonesDistinct' /\ AckedIsGone'
  BY <1>1, <1>2, <1>3 DEF ReplyInv, FreshIsSilent, UnsentIsSilent,
                          TombstonesDistinct, AckedIsGone
<1>5. LiveIsStreaming' /\ BatchIsStreaming'
  BY <1>1, <1>2, <1>3 DEF ReplyInv, LiveIsStreaming, BatchIsStreaming
<1> QED BY <1>2, <1>4, <1>5 DEF ReplyInv, StreamStep

-----------------------------------------------------------------------------
(* Results. *)

LEMMA SampledIsStreaming ==
    ASSUME IInv, ReplyInv, phase = "drain", NEW u \in Sampled(Drained)
    PROVE  /\ Stream!Streaming(reply[u])
           /\ u \in Uids /\ u \notin Elems(pending)
<1>1. /\ u \in Drained.reqs /\ u \notin Drained.chunked
      /\ u \notin aborted /\ u \notin finishedReqs
  BY DEF Sampled, Cut
<1>2. Drained \in {last, ongoing}
  BY DEF Drained
<1>3. u \in Uids /\ u \notin Elems(pending)
  BY <1>1, <1>2 DEF IInv, TypeOK, Batch, QueueInv, BatchShape
<1>4. Stream!Streaming(reply[u])
  BY <1>1, <1>2 DEF ReplyInv, BatchIsStreaming
<1> QED BY <1>3, <1>4

LEMMA ProcessReplies ==
    ASSUME IInv, ReplyInv, ProcessLastData
    PROVE  ReplyInv' /\ StreamStep
<1>1. /\ phase = "drain" /\ phase' = "flush"
      /\ UNCHANGED <<sent, tombstones, acks, pending, chunked, last, ongoing,
                     aborted>>
  BY DEF ProcessLastData, msgVars, batchVars
<1>2. TypeOK /\ chunked \subseteq Elems(pending) /\ Elems(pending) \subseteq Uids
      /\ Elems(pending) \subseteq sent /\ ongoing.reqs \subseteq Uids
      /\ running \subseteq Uids
      /\ ongoing.reqs \cap finishedReqs = {}
  BY <1>1, ElemsType DEF IInv, TypeOK, Batch, QueueInv, QueuesHold, InFlightHeld,
     OnlySentRequests, FinishedGone
<1>3. CASE Drained = NoBatch
  <2>1. UNCHANGED <<reply, running, finishedReqs>>
    BY <1>3 DEF ProcessLastData
  <2>2. FreshIsSilent' /\ UnsentIsSilent' /\ TombstonesDistinct' /\ AckedIsGone'
    BY <1>1, <2>1 DEF ReplyInv, FreshIsSilent, UnsentIsSilent,
                      TombstonesDistinct, AckedIsGone
  <2>3. LiveIsStreaming' /\ BatchIsStreaming'
    BY <1>1, <2>1 DEF ReplyInv, LiveIsStreaming, BatchIsStreaming
  <2> QED BY <2>1, <2>2, <2>3 DEF ReplyInv, StreamStep
<1>4. CASE Drained # NoBatch
  <2> DEFINE sampled == Sampled(Drained)
             spent == {u \in sampled : ~ CanDecode(u, cached[u])}
             cut   == Cut(Drained) \ Drained.chunked
             Kind(ends, u) == IF u \in ends THEN "stop"
                              ELSE IF u \in spent THEN "length" ELSE "tok"
  <2>1. PICK ends \in SUBSET sampled :
          /\ reply' = [u \in Uids |-> IF u \notin sampled THEN reply[u]
                                      ELSE Append(reply[u], Kind(ends, u))]
          /\ running' = running \ (ends \cup spent \cup cut)
          /\ finishedReqs' = ends \cup spent \cup cut
    BY <1>4 DEF ProcessLastData
  <2> DEFINE gone == ends \cup spent \cup cut
  <2>2. /\ \A u \in Uids \ sampled : reply'[u] = reply[u]
        /\ \A u \in sampled : /\ reply'[u] = Append(reply[u], Kind(ends, u))
                              /\ reply[u] \in Seq(Kinds)
                              /\ Stream!Streaming(reply[u])
                              /\ u \in Uids /\ u \notin Elems(pending)
        /\ DOMAIN reply' = Uids
    BY <1>1, <1>2, <2>1, SampledIsStreaming DEF TypeOK
  <2>3. \A u \in sampled : Kind(ends, u) \in {"tok", "stop", "length"}
                           /\ Kind(ends, u) \in Kinds
    BY DEF Kinds
  <2>4. \A u \in sampled \ gone : Kind(ends, u) = "tok"
    OBVIOUS
  <2>5. running' = running \ gone /\ finishedReqs' = gone
    BY <2>1
  <2> HIDE DEF sampled, Kind, gone
  <2>6. StreamStep
    BY <2>2, <2>3
       DEF StreamStep, Stream!Next, Stream!MayFollow, Kinds, Stream!Kinds
  <2>7. \A u \in Uids \ gone :
           Stream!Streaming(reply[u]) => Stream!Streaming(reply'[u])
    <3> SUFFICES ASSUME NEW u \in Uids \ gone, Stream!Streaming(reply[u])
                 PROVE  Stream!Streaming(reply'[u])
      OBVIOUS
    <3>1. CASE u \in sampled
      <4>1. /\ reply'[u] = Append(reply[u], "tok") /\ reply[u] \in Seq(Kinds)
            /\ "tok" \in Kinds
        BY <2>2, <2>3, <2>4, <3>1
      <4> QED BY <4>1, AppendMessage
    <3>2. CASE u \notin sampled
      BY <2>2, <3>2
    <3> QED BY <3>1, <3>2
  <2>8. FreshIsSilent' /\ TombstonesDistinct'
    BY <1>1, <1>2, <2>2 DEF ReplyInv, FreshIsSilent, TombstonesDistinct
  <2>9. UnsentIsSilent'
    <3>1. sampled \subseteq sent
      BY DEF sampled, Sampled, Drained, IInv, QueueInv, OnlySentRequests
    <3> QED BY <1>1, <2>2, <3>1 DEF ReplyInv, UnsentIsSilent
  <2>10. AckedIsGone'
    BY <1>1, <2>5 DEF ReplyInv, AckedIsGone
  <2>11. LiveIsStreaming'
    <3>1. \A u \in chunked : reply'[u] = reply[u]
      BY <1>2, <2>2
    <3> QED BY <1>1, <1>2, <2>5, <2>7, <3>1 DEF ReplyInv, LiveIsStreaming
  <2>12. BatchIsStreaming'
    BY <1>1, <1>2, <2>5, <2>7 DEF ReplyInv, BatchIsStreaming
  <2> QED BY <2>6, <2>8, <2>9, <2>10, <2>11, <2>12 DEF ReplyInv
<1> QED BY <1>3, <1>4

LEMMA FlushReplies ==
    ASSUME IInv, ReplyInv, FlushAbortAcks
    PROVE  ReplyInv' /\ StreamStep
<1>1. /\ phase = "flush" /\ phase' = "recv" /\ Send(acks, "ack") /\ acks' = {}
      /\ last' = (IF Overlap THEN ongoing ELSE NoBatch) /\ ongoing' = NoBatch
      /\ UNCHANGED <<sent, tombstones, pending, chunked, running, finishedReqs,
                     aborted>>
  BY DEF FlushAbortAcks, queueVars
<1>2. /\ TypeOK /\ acks \in SUBSET Uids /\ "ack" \in Kinds
      /\ chunked \subseteq Elems(pending) /\ Elems(pending) \subseteq Uids
      /\ running \subseteq Uids /\ ongoing.reqs \subseteq Uids
  BY ElemsType DEF IInv, TypeOK, Batch, Kinds, QueueInv, QueuesHold
<1>3. \A u \in Uids \ acks : reply'[u] = reply[u]
  BY <1>1, <1>2, SendEffect
<1>4. StreamStep
  BY <1>1, <1>2, SendStep DEF Stream!MayFollow
<1>5. FreshIsSilent' /\ LiveIsStreaming'
  BY <1>1, <1>2, <1>3
     DEF ReplyInv, FreshIsSilent, LiveIsStreaming, AckedIsGone
<1>6. BatchIsStreaming'
  BY <1>1, <1>2, <1>3 DEF ReplyInv, BatchIsStreaming, AckedIsGone, NoBatch
<1>7. UnsentIsSilent' /\ TombstonesDistinct' /\ AckedIsGone'
  BY <1>1, <1>3 DEF ReplyInv, UnsentIsSilent, TombstonesDistinct, AckedIsGone
<1> QED BY <1>4, <1>5, <1>6, <1>7 DEF ReplyInv

LEMMA InitReplies == Init => ReplyInv /\ Stream!Init
  BY DEF Init, NoBatch, Elems, Distinct, Stream!Init, ReplyInv, FreshIsSilent,
         UnsentIsSilent, TombstonesDistinct, LiveIsStreaming, BatchIsStreaming,
         AckedIsGone

LEMMA NextReplies ==
    ASSUME TombstonesSuffice, IInv, ReplyInv, [Next]_vars
    PROVE  ReplyInv' /\ StreamStep
  BY UserMsgReplies, AbortReplies, QuietReplies, PrefillReplies, DecodeReplies,
     ProcessReplies, FlushReplies
  DEF Next, Receive, Loop, Blocked

(* _process_one_msg, the drain and _flush_abort_acks: a request is admitted *)
(* once, streams, and is closed once; after its abort is acknowledged       *)
(* nothing but acknowledgements follows, even of a request that was in a    *)
(* forward, between chunks, or overtaken by its abort.                      *)
THEOREM ImplementsReplyStream ==
    ASSUME TombstonesSuffice
    PROVE  Spec => RepliesWellFormed
<1>1. Init => ReplyInv /\ Stream!Init
  BY InitReplies
<1>2. IInv /\ ReplyInv /\ [Next]_vars => ReplyInv' /\ [Stream!Next]_reply
  BY NextReplies DEF StreamStep
<1> QED BY <1>1, <1>2, InvariantHolds, PTL
        DEF Spec, RepliesWellFormed, Stream!Spec

-----------------------------------------------------------------------------
(***************************************************************************)
(* The admission control suffices: a batch that was scheduled always finds *)
(* the pages it needs.  The first part proves, without induction, what is  *)
(* needed of sums; the second that AdmissionInv is inductive relative to   *)
(* IInv and PageInv.                                                       *)
(***************************************************************************)

(* Comparing the sizes of sets along a function.                           *)
LEMMA SameSize ==
    ASSUME NEW S, NEW T, IsFiniteSet(S), NEW F \in [S -> T],
           \A a, b \in S : F[a] = F[b] => a = b,
           \A t \in T : \E s \in S : F[s] = t
    PROVE  IsFiniteSet(T) /\ Cardinality(T) = Cardinality(S)
<1>1. F \in Injection(S, T)
    BY DEF Injection, IsInjective
<1>2. F \in Surjection(S, T)
    BY DEF Surjection
<1>3. ExistsBijection(S, T)
    BY <1>1, <1>2 DEF ExistsBijection, Bijection
<1> QED
    BY <1>3, FS_Bijection
LEMMA NoMore ==
    ASSUME NEW S, NEW T, IsFiniteSet(T), NEW F \in [S -> T],
           \A a, b \in S : F[a] = F[b] => a = b
    PROVE  IsFiniteSet(S) /\ Cardinality(S) <= Cardinality(T)
<1>1. F \in Injection(S, T)
    BY DEF Injection, IsInjective
<1> QED
    BY <1>1, FS_Injection
LEMMA NoFewer ==
    ASSUME NEW S, NEW T, IsFiniteSet(S), NEW F \in [S -> T],
           \A t \in T : \E s \in S : F[s] = t
    PROVE  IsFiniteSet(T) /\ Cardinality(T) <= Cardinality(S)
<1>1. F \in Surjection(S, T)
    BY DEF Surjection
<1> QED
    BY <1>1, FS_Surjection
LEMMA UnitsAre ==
    ASSUME NEW S, NEW f \in [S -> Nat]
    PROVE  \A e : e \in Units(f) <=> \E x \in S : \E i \in 1 .. f[x] : e = <<x, i>>
<1>1. DOMAIN f = S
    OBVIOUS
<1>2. ASSUME NEW e, e \in Units(f) PROVE \E x \in S : \E i \in 1 .. f[x] : e = <<x, i>>
    <2>1. PICK x \in S : e \in {x} \X (1 .. f[x])
        BY <1>1, <1>2 DEF Units
    <2> QED
        BY <2>1
<1>3. ASSUME NEW x \in S, NEW i \in 1 .. f[x] PROVE <<x, i>> \in Units(f)
    <2>1. <<x, i>> \in {x} \X (1 .. f[x])
        OBVIOUS
    <2>2. {x} \X (1 .. f[x]) \in {{y} \X (1 .. f[y]) : y \in DOMAIN f}
        BY <1>1
    <2> QED
        BY <2>1, <2>2 DEF Units
<1> QED
    BY <1>2, <1>3
LEMMA TotalType ==
    ASSUME NEW S, IsFiniteSet(S), NEW f \in [S -> Nat]
    PROVE  IsFiniteSet(Units(f)) /\ Total(f) \in Nat
<1> DEFINE Stack(x) == {x} \X (1 .. f[x])
           stack == [x \in S |-> Stack(x)]
           stacks == {Stack(x) : x \in S}
<1>1. stack \in Surjection(S, stacks)
    BY DEF Surjection
<1>2. IsFiniteSet(stacks)
    BY <1>1, FS_Surjection
<1>3. ASSUME NEW x \in S PROVE IsFiniteSet(Stack(x))
    <2>1. IsFiniteSet({x})
        BY FS_Singleton
    <2>2. f[x] \in Nat
        OBVIOUS
    <2>3. IsFiniteSet(1 .. f[x])
        BY <2>2, FS_Interval
    <2> QED
        BY <2>1, <2>3, FS_Product
<1>4. \A T \in stacks : IsFiniteSet(T)
    BY <1>3
<1>5. IsFiniteSet(UNION stacks)
    BY <1>2, <1>4, FS_UNION
<1>6. Units(f) = UNION stacks
    BY DEF Units
<1> QED
    BY <1>5, <1>6, FS_CardinalityType DEF Total
LEMMA TotalMono ==
    ASSUME NEW S, NEW T, IsFiniteSet(T), S \subseteq T,
           NEW f \in [S -> Nat], NEW g \in [T -> Nat],
           \A x \in S : f[x] <= g[x]
    PROVE  Total(f) <= Total(g)
<1>1. Units(f) \subseteq Units(g)
    <2> SUFFICES ASSUME NEW e \in Units(f) PROVE e \in Units(g)
        OBVIOUS
    <2>0. PICK x \in S : \E i \in 1 .. f[x] : e = <<x, i>>
        BY UnitsAre
    <2>1. PICK i \in 1 .. f[x] : e = <<x, i>>
        BY <2>0
    <2>2. x \in T /\ f[x] \in Nat /\ g[x] \in Nat /\ f[x] <= g[x]
        OBVIOUS
    <2>3. i \in 1 .. g[x]
        BY <2>2
    <2> QED
        BY <2>1, <2>2, <2>3, UnitsAre
<1> QED
    BY <1>1, TotalType, FS_Subset DEF Total
LEMMA TotalSplit ==
    ASSUME NEW S, NEW T, IsFiniteSet(S), IsFiniteSet(T), S \cap T = {},
           NEW f \in [S \cup T -> Nat]
    PROVE  Total(f) = Total([x \in S |-> f[x]]) + Total([x \in T |-> f[x]])
<1> DEFINE fS == [x \in S |-> f[x]]
           fT == [x \in T |-> f[x]]
<1>1. fS \in [S -> Nat] /\ fT \in [T -> Nat]
    OBVIOUS
<1>2. \A x \in S : fS[x] = f[x]
    OBVIOUS
<1>3. \A x \in T : fT[x] = f[x]
    OBVIOUS
<1> HIDE DEF fS, fT
<1>4. \A e : e \in Units(fS) <=> \E x \in S : \E i \in 1 .. fS[x] : e = <<x, i>>
    BY <1>1, UnitsAre
<1>5. \A e : e \in Units(fT) <=> \E x \in T : \E i \in 1 .. fT[x] : e = <<x, i>>
    BY <1>1, UnitsAre
<1>6. \A e : e \in Units(f) <=> \E x \in S \cup T : \E i \in 1 .. f[x] : e = <<x, i>>
    BY UnitsAre
<1>7. Units(f) = Units(fS) \cup Units(fT)
    BY <1>2, <1>3, <1>4, <1>5, <1>6
<1>8. Units(fS) \cap Units(fT) = {}
    BY <1>4, <1>5
<1>9. IsFiniteSet(Units(fS)) /\ IsFiniteSet(Units(fT))
    BY <1>1, TotalType
<1>10. Total(fS) \in Nat /\ Total(fT) \in Nat
    BY <1>1, TotalType
<1>11. Total(f) = Total(fS) + Total(fT) - Cardinality({})
    BY <1>7, <1>8, <1>9, FS_Union DEF Total
<1> QED
    BY <1>10, <1>11, FS_EmptySet DEF fS, fT
LEMMA TotalAdd ==
    ASSUME NEW S, IsFiniteSet(S),
           NEW f \in [S -> Nat], NEW g \in [S -> Nat], NEW h \in [S -> Nat],
           \A x \in S : h[x] = f[x] + g[x]
    PROVE  Total(h) = Total(f) + Total(g)
<1> DEFINE above == Units(h) \ Units(f)
           lift == [e \in Units(g) |-> <<e[1], f[e[1]] + e[2]>>]
<1>1. \A e : e \in Units(f) <=> \E x \in S : \E i \in 1 .. f[x] : e = <<x, i>>
    BY UnitsAre
<1>2. \A e : e \in Units(g) <=> \E x \in S : \E i \in 1 .. g[x] : e = <<x, i>>
    BY UnitsAre
<1>3. \A e : e \in Units(h) <=> \E x \in S : \E i \in 1 .. h[x] : e = <<x, i>>
    BY UnitsAre
<1>4. \A x \in S : f[x] \in Nat /\ g[x] \in Nat /\ h[x] \in Nat /\ h[x] = f[x] + g[x]
    OBVIOUS
<1>5. Units(f) \subseteq Units(h)
    <2> SUFFICES ASSUME NEW x \in S, NEW i \in 1 .. f[x] PROVE <<x, i>> \in Units(h)
        BY <1>1
    <2>1. i \in 1 .. h[x]
        BY <1>4
    <2> QED
        BY <2>1, <1>3
<1>6. \A x \in S : \A i \in 1 .. g[x] : <<x, i>> \in Units(g) /\ lift[<<x, i>>] = <<x, f[x] + i>>
    BY <1>2
<1>7. ASSUME NEW x \in S, NEW i \in 1 .. g[x] PROVE <<x, f[x] + i>> \in above
    <2>1. f[x] + i \in 1 .. h[x] /\ f[x] + i \notin 1 .. f[x]
        BY <1>4
    <2> QED
        BY <2>1, <1>1, <1>3
<1>8. ASSUME NEW e \in above
      PROVE  \E x \in S : \E i \in 1 .. g[x] : e = <<x, f[x] + i>>
    <2>0. PICK x \in S : \E j \in 1 .. h[x] : e = <<x, j>>
        BY <1>3
    <2>1. PICK j \in 1 .. h[x] : e = <<x, j>>
        BY <2>0
    <2>2. j \notin 1 .. f[x]
        BY <2>1, <1>1
    <2>3. j - f[x] \in 1 .. g[x] /\ j = f[x] + (j - f[x])
        BY <2>2, <1>4
    <2> QED
        BY <2>1, <2>3
<1> HIDE DEF lift, above
<1>9. lift \in [Units(g) -> above]
    <2>1. DOMAIN lift = Units(g) /\ lift = [e \in Units(g) |-> lift[e]]
        BY DEF lift
    <2>2. \A e \in Units(g) : lift[e] \in above
        BY <1>2, <1>6, <1>7
    <2> QED
        BY <2>1, <2>2
<1>10. \A d, e \in Units(g) : lift[d] = lift[e] => d = e
    <2> SUFFICES ASSUME NEW x \in S, NEW i \in 1 .. g[x], NEW y \in S, NEW j \in 1 .. g[y],
                        lift[<<x, i>>] = lift[<<y, j>>]
                 PROVE  <<x, i>> = <<y, j>>
        BY <1>2
    <2>1. <<x, f[x] + i>> = <<y, f[y] + j>>
        BY <1>6
    <2>2. x = y /\ f[x] + i = f[y] + j
        BY <2>1
    <2>3. i = j
        BY <2>2, <1>4
    <2> QED
        BY <2>2, <2>3
<1>11. ASSUME NEW d \in above PROVE \E e \in Units(g) : lift[e] = d
    <2>1. PICK x \in S : \E i \in 1 .. g[x] : d = <<x, f[x] + i>>
        BY <1>8
    <2>2. PICK i \in 1 .. g[x] : d = <<x, f[x] + i>>
        BY <2>1
    <2> QED
        BY <1>6, <2>2
<1>13. /\ IsFiniteSet(Units(f)) /\ IsFiniteSet(Units(g)) /\ IsFiniteSet(Units(h))
       /\ Total(f) \in Nat /\ Total(g) \in Nat /\ Total(h) \in Nat
    BY TotalType
<1>14. Cardinality(above) = Total(g)
    BY <1>9, <1>10, <1>11, <1>13, SameSize DEF Total
<1>15. Units(h) \cap Units(f) = Units(f)
    BY <1>5
<1>16. Cardinality(above) = Cardinality(Units(h)) - Cardinality(Units(h) \cap Units(f))
    BY <1>13, FS_Difference DEF above
<1>17. Cardinality(above) = Total(h) - Total(f)
    BY <1>15, <1>16 DEF Total
<1> QED
    BY <1>13, <1>14, <1>17
LEMMA TotalConst ==
    ASSUME NEW S, IsFiniteSet(S), NEW k \in Nat
    PROVE  Total([x \in S |-> k]) = Cardinality(S) * k
<1>1. Units([x \in S |-> k]) = S \X (1 .. k)
    BY DEF Units
<1>2. IsFiniteSet(1 .. k) /\ Cardinality(1 .. k) = k
    BY FS_Interval
<1> QED
    BY <1>1, <1>2, FS_Product DEF Total
LEMMA TotalOne ==
    ASSUME NEW x, NEW f \in [{x} -> Nat]
    PROVE  Total(f) = f[x]
<1>1. Units(f) = {x} \X (1 .. f[x])
    BY DEF Units
<1>2. f[x] \in Nat
    OBVIOUS
<1>3. IsFiniteSet(1 .. f[x]) /\ Cardinality(1 .. f[x]) = f[x]
    BY <1>2, FS_Interval
<1>4. IsFiniteSet({x}) /\ Cardinality({x}) = 1
    BY FS_Singleton
<1>5. Cardinality({x} \X (1 .. f[x])) = 1 * f[x]
    BY <1>3, <1>4, FS_Product
<1> QED
    BY <1>1, <1>2, <1>5 DEF Total
LEMMA BlocksApart ==
    ASSUME NEW k \in Nat \ {0}, NEW a \in Nat, NEW b \in Nat,
           NEW c \in 1 .. k, NEW d \in 1 .. k,
           k * a + c = k * b + d
    PROVE  a = b /\ c = d
<1>1. ASSUME NEW m \in Nat, NEW n \in Nat, m < n PROVE k * m + k <= k * n
    <2>1. PICK e \in Nat : n = m + 1 + e
        <3>1. n - m - 1 \in Nat /\ n = m + 1 + (n - m - 1)
            BY <1>1
        <3> QED
            BY <3>1
    <2>2. k * n = k * m + k + k * e
        BY <2>1
    <2>3. k * e \in Nat /\ k * m \in Nat
        OBVIOUS
    <2> QED
        BY <2>2, <2>3
<1>2. k * a \in Nat /\ k * b \in Nat
    OBVIOUS
<1>3. ~ a < b
    BY <1>1, <1>2
<1>4. ~ b < a
    BY <1>1, <1>2
<1>5. a = b
    BY <1>3, <1>4
<1> QED
    BY <1>2, <1>5
LEMMA TotalScale ==
    ASSUME NEW S, IsFiniteSet(S), NEW k \in Nat \ {0},
           NEW f \in [S -> Nat], NEW h \in [S -> Nat],
           \A x \in S : k * f[x] <= h[x]
    PROVE  k * Total(f) <= Total(h)
<1> DEFINE spread == [e \in Units(f) \X (1 .. k) |-> <<e[1][1], k * (e[1][2] - 1) + e[2]>>]
<1>1. \A e : e \in Units(f) <=> \E x \in S : \E i \in 1 .. f[x] : e = <<x, i>>
    BY UnitsAre
<1>2. \A e : e \in Units(h) <=> \E x \in S : \E i \in 1 .. h[x] : e = <<x, i>>
    BY UnitsAre
<1>3. \A x \in S : f[x] \in Nat /\ h[x] \in Nat /\ k * f[x] <= h[x]
    OBVIOUS
<1>4. \A x \in S : \A i \in 1 .. f[x] : \A j \in 1 .. k :
          /\ <<<<x, i>>, j>> \in Units(f) \X (1 .. k)
          /\ spread[<<<<x, i>>, j>>] = <<x, k * (i - 1) + j>>
    BY <1>1
<1>5. ASSUME NEW e \in Units(f) \X (1 .. k)
      PROVE  \E x \in S : \E i \in 1 .. f[x] : \E j \in 1 .. k : e = <<<<x, i>>, j>>
    BY <1>1
<1>6. ASSUME NEW x \in S, NEW i \in 1 .. f[x], NEW j \in 1 .. k
      PROVE  <<x, k * (i - 1) + j>> \in Units(h)
    <2>1. PICK m \in Nat : f[x] = i + m
        <3>1. f[x] - i \in Nat /\ f[x] = i + (f[x] - i)
            BY <1>3
        <3> QED
            BY <3>1
    <2>2. PICK n \in Nat : i = n + 1
        <3>1. i - 1 \in Nat /\ i = (i - 1) + 1
            BY <1>3
        <3> QED
            BY <3>1
    <2>3. k * f[x] = k * n + k + k * m
        BY <2>1, <2>2
    <2>4. k * n \in Nat /\ k * m \in Nat
        OBVIOUS
    <2>5. i - 1 = n
        BY <2>2
    <2>6. k * (i - 1) + j \in 1 .. h[x]
        BY <1>3, <2>3, <2>4, <2>5
    <2> QED
        BY <2>6, <1>2
<1> HIDE DEF spread
<1>7. spread \in [Units(f) \X (1 .. k) -> Units(h)]
    <2>1. spread = [e \in Units(f) \X (1 .. k) |-> spread[e]]
        BY DEF spread
    <2>2. ASSUME NEW e \in Units(f) \X (1 .. k) PROVE spread[e] \in Units(h)
        <3>1. PICK x \in S : \E i \in 1 .. f[x] : \E j \in 1 .. k : e = <<<<x, i>>, j>>
            BY <1>5
        <3>2. PICK i \in 1 .. f[x] : \E j \in 1 .. k : e = <<<<x, i>>, j>>
            BY <3>1
        <3>3. PICK j \in 1 .. k : e = <<<<x, i>>, j>>
            BY <3>2
        <3>4. spread[e] = <<x, k * (i - 1) + j>>
            BY <1>4, <3>3
        <3> QED
            BY <1>6, <3>4
    <2> QED
        BY <2>1, <2>2
<1>8. \A d, e \in Units(f) \X (1 .. k) : spread[d] = spread[e] => d = e
    <2> SUFFICES ASSUME NEW d \in Units(f) \X (1 .. k), NEW e \in Units(f) \X (1 .. k),
                        spread[d] = spread[e]
                 PROVE  d = e
        OBVIOUS
    <2>5. PICK x \in S : \E i \in 1 .. f[x] : \E j \in 1 .. k : d = <<<<x, i>>, j>>
        BY <1>5
    <2>6. PICK i \in 1 .. f[x] : \E j \in 1 .. k : d = <<<<x, i>>, j>>
        BY <2>5
    <2>7. PICK j \in 1 .. k : d = <<<<x, i>>, j>>
        BY <2>6
    <2>8. PICK y \in S : \E n \in 1 .. f[y] : \E z \in 1 .. k : e = <<<<y, n>>, z>>
        BY <1>5
    <2>9. PICK l \in 1 .. f[y] : \E z \in 1 .. k : e = <<<<y, l>>, z>>
        BY <2>8
    <2>10. PICK m \in 1 .. k : e = <<<<y, l>>, m>>
        BY <2>9
    <2>1. <<x, k * (i - 1) + j>> = <<y, k * (l - 1) + m>>
        BY <1>4, <2>7, <2>10
    <2>2. x = y /\ k * (i - 1) + j = k * (l - 1) + m
        BY <2>1
    <2>3. i - 1 \in Nat /\ l - 1 \in Nat /\ i \in Int /\ l \in Int
        BY <1>3
    <2>4. i - 1 = l - 1 /\ j = m
        BY <2>2, <2>3, BlocksApart
    <2>11. i = l
        BY <2>3, <2>4
    <2> QED
        BY <2>2, <2>4, <2>7, <2>10, <2>11
<1>9. /\ IsFiniteSet(Units(f)) /\ IsFiniteSet(Units(h))
      /\ Total(f) \in Nat /\ Total(h) \in Nat
    BY TotalType
<1>10. IsFiniteSet(1 .. k) /\ Cardinality(1 .. k) = k
    BY FS_Interval
<1>11. Cardinality(Units(f) \X (1 .. k)) = Total(f) * k
    BY <1>9, <1>10, FS_Product DEF Total
<1>12. Cardinality(Units(f) \X (1 .. k)) <= Total(h)
    BY <1>7, <1>8, <1>9, NoMore DEF Total
<1>13. Total(f) * k = k * Total(f)
    BY <1>9
<1> QED
    BY <1>11, <1>12, <1>13
LEMMA TotalOnto ==
    ASSUME NEW S, NEW T, IsFiniteSet(S), NEW F \in [S -> T],
           \A t \in T : \E s \in S : F[s] = t,
           NEW f \in [S -> Nat], NEW g \in [T -> Nat],
           \A s \in S : f[s] = g[F[s]]
    PROVE  Total(g) <= Total(f)
<1> DEFINE move == [e \in Units(f) |-> <<F[e[1]], e[2]>>]
<1>1. \A e : e \in Units(f) <=> \E x \in S : \E i \in 1 .. f[x] : e = <<x, i>>
    BY UnitsAre
<1>2. \A e : e \in Units(g) <=> \E x \in T : \E i \in 1 .. g[x] : e = <<x, i>>
    BY UnitsAre
<1>3. \A x \in S : \A i \in 1 .. f[x] :
         <<x, i>> \in Units(f) /\ move[<<x, i>>] = <<F[x], i>>
    BY <1>1
<1>4. \A x \in S : \A i \in 1 .. f[x] : <<F[x], i>> \in Units(g)
    BY <1>2
<1> HIDE DEF move
<1>5. move \in [Units(f) -> Units(g)]
    <2>1. move = [e \in Units(f) |-> move[e]]
        BY DEF move
    <2>2. ASSUME NEW e \in Units(f) PROVE move[e] \in Units(g)
        <3>1. PICK x \in S : \E i \in 1 .. f[x] : e = <<x, i>>
            BY <1>1
        <3>2. PICK i \in 1 .. f[x] : e = <<x, i>>
            BY <3>1
        <3> QED
            BY <1>3, <1>4, <3>2
    <2> QED
        BY <2>1, <2>2
<1>6. ASSUME NEW d \in Units(g) PROVE \E e \in Units(f) : move[e] = d
    <2>0. PICK y \in T : \E i \in 1 .. g[y] : d = <<y, i>>
        BY <1>2
    <2>1. PICK i \in 1 .. g[y] : d = <<y, i>>
        BY <2>0
    <2>2. PICK x \in S : F[x] = y
        OBVIOUS
    <2>3. i \in 1 .. f[x]
        BY <2>2
    <2> QED
        BY <1>3, <2>1, <2>2, <2>3
<1>7. IsFiniteSet(Units(f))
    BY TotalType
<1> QED
    BY <1>5, <1>6, <1>7, NoFewer DEF Total
LEMMA GrantTotal ==
    ASSUME NEW S, IsFiniteSet(S), NEW T, NEW grant \in [T -> S \cup {None}],
           None \notin S, IsFiniteSet(T),
           NEW need \in [S -> Nat],
           \A u \in S : Cardinality({p \in T : grant[p] = u}) = need[u]
    PROVE  Cardinality({p \in T : grant[p] # None}) <= Total(need)
<1> DEFINE Share(u) == {p \in T : grant[p] = u}
           taken == {p \in T : grant[p] # None}
           Order(u) == CHOOSE k : k \in Injection(Share(u), 1 .. need[u])
           unit == [p \in taken |-> <<grant[p], Order(grant[p])[p]>>]
<1>1. \A u \in S : Order(u) \in Injection(Share(u), 1 .. need[u])
    <2> SUFFICES ASSUME NEW u \in S PROVE \E k : k \in Injection(Share(u), 1 .. need[u])
        OBVIOUS
    <2>1. IsFiniteSet(Share(u))
        BY FS_Subset
    <2>2. Cardinality(Share(u)) = need[u] /\ need[u] \in Nat
        OBVIOUS
    <2>3. IsFiniteSet(1 .. need[u]) /\ Cardinality(1 .. need[u]) = need[u]
        BY <2>2, FS_Interval
    <2>4. ExistsBijection(Share(u), 1 .. need[u])
        BY <2>1, <2>2, <2>3, FS_SameCardinalityBij
    <2> QED
        BY <2>4 DEF ExistsBijection, Bijection
<1>2. \A e : e \in Units(need) <=> \E x \in S : \E i \in 1 .. need[x] : e = <<x, i>>
    BY UnitsAre
<1>3. ASSUME NEW p \in taken
      PROVE  grant[p] \in S /\ p \in Share(grant[p])
    OBVIOUS
<1>4. \A u \in S : /\ Order(u) \in [Share(u) -> 1 .. need[u]]
                   /\ \A a, b \in Share(u) : Order(u)[a] = Order(u)[b] => a = b
    BY <1>1 DEF Injection, IsInjective
<1>5. \A p \in taken : unit[p] = <<grant[p], Order(grant[p])[p]>>
    OBVIOUS
<1> HIDE DEF Order, unit, Share
<1>6. unit \in [taken -> Units(need)]
    <2>1. unit = [p \in taken |-> unit[p]]
        BY DEF unit
    <2>2. ASSUME NEW p \in taken PROVE unit[p] \in Units(need)
        <3>1. grant[p] \in S /\ p \in Share(grant[p])
            BY <1>3
        <3>2. Order(grant[p]) \in [Share(grant[p]) -> 1 .. need[grant[p]]]
            BY <1>4, <3>1
        <3>3. Order(grant[p])[p] \in 1 .. need[grant[p]]
            BY <3>1, <3>2
        <3> QED
            BY <1>2, <1>5, <3>1, <3>3
    <2> QED
        BY <2>1, <2>2
<1>7. ASSUME NEW p \in taken, NEW q \in taken, unit[p] = unit[q] PROVE p = q
    <2>1. grant[p] \in S /\ p \in Share(grant[p]) /\ q \in Share(grant[q])
        BY <1>3
    <2>2. <<grant[p], Order(grant[p])[p]>> = <<grant[q], Order(grant[q])[q]>>
        BY <1>5, <1>7
    <2>3. grant[p] = grant[q] /\ Order(grant[p])[p] = Order(grant[q])[q]
        BY <2>2
    <2>4. Order(grant[p])[p] = Order(grant[p])[q] /\ q \in Share(grant[p])
        BY <2>1, <2>3
    <2> QED
        BY <2>1, <2>4, <1>4
<1>8. IsFiniteSet(Units(need))
    BY TotalType
<1>9. Cardinality(taken) <= Cardinality(Units(need))
    BY <1>6, <1>7, <1>8, NoMore
<1> QED
    BY <1>9 DEF Total
-----------------------------------------------------------------------------
(* Pages and tokens.                                                       *)
LEMMA PageBounds ==
    ASSUME NEW n \in Nat
    PROVE  /\ DivCeil(n) \in Nat
           /\ PageSize * DivCeil(n) >= n
           /\ PageSize * DivCeil(n) <= n + PageSize - 1
<1>1. PageSize \in Nat /\ PageSize > 0
  BY SchedulerAssumption
<1> DEFINE m == n + PageSize - 1
<1>2. m \in Nat
  BY <1>1
<1> HIDE DEF m
<1>3. /\ m \div PageSize \in Nat /\ m % PageSize \in 0 .. PageSize - 1
      /\ m = PageSize * (m \div PageSize) + (m % PageSize)
  BY <1>1, <1>2
<1>4. DivCeil(n) = m \div PageSize
  BY DEF DivCeil, m
<1>5. PageSize * (m \div PageSize) \in Int
  BY <1>1, <1>3
<1>6. PageSize * (m \div PageSize) >= n /\ PageSize * (m \div PageSize) <= m
  BY <1>1, <1>3, <1>5 DEF m
<1> QED BY <1>3, <1>4, <1>6 DEF m
LEMMA CancelPages ==
    ASSUME NEW a \in Int, NEW b \in Int, PageSize * a <= PageSize * b
    PROVE  a <= b
<1>1. PageSize \in Nat /\ PageSize > 0
  BY SchedulerAssumption
<1>2. CASE a > b
  <2>1. PICK e \in Nat : a = b + 1 + e
    <3>1. a - b - 1 \in Nat /\ a = b + 1 + (a - b - 1)
      BY <1>2
    <3> QED BY <3>1
  <2>2. PageSize * a = PageSize * b + PageSize + PageSize * e
    BY <1>1, <2>1
  <2>3. PageSize * e \in Nat /\ PageSize * b \in Int
    BY <1>1
  <2> QED BY <1>1, <2>2, <2>3
<1> QED BY <1>2
LEMMA PagesGrow ==
    ASSUME NEW m \in Nat, NEW n \in Nat, m <= n
    PROVE  DivCeil(m) <= DivCeil(n)
<1>1. PageSize \in Nat /\ PageSize > 0
  BY SchedulerAssumption
<1>2. /\ DivCeil(m) \in Nat /\ DivCeil(n) \in Nat
      /\ PageSize * DivCeil(m) <= m + PageSize - 1
      /\ PageSize * DivCeil(n) >= n
  BY PageBounds
<1>3. CASE DivCeil(m) > DivCeil(n)
  <2>1. PICK e \in Nat : DivCeil(m) = DivCeil(n) + 1 + e
    <3>1. DivCeil(m) - DivCeil(n) - 1 \in Nat
          /\ DivCeil(m) = DivCeil(n) + 1 + (DivCeil(m) - DivCeil(n) - 1)
      BY <1>2, <1>3
    <3> QED BY <3>1
  <2>2. PageSize * DivCeil(m) = PageSize * DivCeil(n) + PageSize + PageSize * e
    BY <1>1, <1>2, <2>1
  <2>3. PageSize * e \in Nat /\ PageSize * DivCeil(n) \in Int /\ PageSize * DivCeil(m) \in Int
    BY <1>1, <1>2
  <2> QED BY <1>1, <1>2, <2>2, <2>3
<1> QED BY <1>2, <1>3
LEMMA NeededType ==
    ASSUME NEW c \in Nat, NEW d \in Nat, c <= d
    PROVE  NeededPages(d, c) \in Nat
BY PagesGrow, PageBounds DEF NeededPages
-----------------------------------------------------------------------------
(* The requests the scheduler has promised pages to.                       *)
Live == running \cup chunked
LEMMA LiveFinite ==
    ASSUME ChunkFirst, IsFiniteSet(running)
    PROVE  IsFiniteSet(Live)
<1>1. chunked \subseteq {pending[1]}
  BY DEF ChunkFirst
<1>2. IsFiniteSet({pending[1]})
  BY FS_Singleton
<1>3. IsFiniteSet(chunked)
  BY <1>1, <1>2, FS_Subset
<1> QED BY <1>3, FS_Union DEF Live
LEMMA FreeFinite ==
    ASSUME TypeOK
    PROVE  IsFiniteSet(freePages) /\ Cardinality(freePages) \in Nat
<1>1. IsFiniteSet(freePages)
  BY FS_Subset, SchedulerAssumption DEF TypeOK
<1> QED BY <1>1, FS_CardinalityType
LEMMA RequestType ==
    ASSUME TypeOK, NEW u \in Uids
    PROVE  /\ InputLen[u] \in Nat /\ outputLen[u] \in Nat /\ cached[u] \in Nat
           /\ InputLen[u] > 0 /\ MaxDeviceLen(u) \in Nat /\ MaxDeviceLen(u) > 0
BY SchedulerAssumption DEF TypeOK, MaxDeviceLen
LEMMA RunningToCome ==
    ASSUME TypeOK, RunningCanDecode, NEW u \in running
    PROVE  /\ u \in Uids
           /\ cached[u] + 1 <= MaxDeviceLen(u) - 1
           /\ PagesToCome(u) \in Nat
           /\ RemainLen(u, cached[u]) \in Nat
           /\ PageSize * PagesToCome(u) <= PageSize - 1 + RemainLen(u, cached[u])
<1>1. u \in Uids
  BY DEF TypeOK
<1>2. cached[u] \in Nat /\ MaxDeviceLen(u) \in Nat /\ MaxDeviceLen(u) > 0
  BY <1>1, RequestType
<1>3. MaxDeviceLen(u) - (cached[u] + 1) > 0
  BY DEF RunningCanDecode, CanDecode, RemainLen
<1> DEFINE c == cached[u]
           m == MaxDeviceLen(u) - 1
<1>4. c \in Nat /\ m \in Nat /\ c + 1 <= m
  BY <1>2, <1>3
<1>5. RemainLen(u, cached[u]) = m - c
  BY <1>2 DEF RemainLen
<1>6. PagesToCome(u) = DivCeil(m) - DivCeil(c)
  BY DEF PagesToCome, NeededPages
<1> HIDE DEF c, m
<1>7. /\ DivCeil(c) \in Nat /\ DivCeil(m) \in Nat
      /\ PageSize * DivCeil(m) <= m + PageSize - 1
      /\ PageSize * DivCeil(c) >= c
  BY <1>4, PageBounds
<1>8. DivCeil(c) <= DivCeil(m)
  BY <1>4, PagesGrow
<1>9. PageSize \in Nat
  BY SchedulerAssumption
<1>10. PageSize * (DivCeil(m) - DivCeil(c)) = PageSize * DivCeil(m) - PageSize * DivCeil(c)
  BY <1>7, <1>9
<1>11. PageSize * DivCeil(m) \in Nat /\ PageSize * DivCeil(c) \in Nat
  BY <1>7, <1>9
<1>12. PageSize * PagesToCome(u) <= PageSize - 1 + (m - c)
  BY <1>4, <1>6, <1>7, <1>9, <1>10, <1>11
<1>13. PagesToCome(u) \in Nat /\ m - c \in Nat
  BY <1>4, <1>6, <1>7, <1>8
<1> QED BY <1>1, <1>4, <1>5, <1>12, <1>13 DEF c, m
LEMMA PendingToCome ==
    ASSUME TypeOK, PendingFits, NEW u \in Elems(pending)
    PROVE  /\ u \in Uids
           /\ InputLen[u] <= MaxDeviceLen(u) - 1
           /\ PromptLeft(u) \in Nat /\ PromptLeft(u) > 0
           /\ PagesToCome(u) \in Nat
           /\ Cost(u) \in Nat
           /\ PageSize * PagesToCome(u) <= Cost(u)
<1>1. u \in Uids
  BY ElemsType DEF TypeOK
<1>2. /\ InputLen[u] \in Nat /\ outputLen[u] \in Nat /\ cached[u] \in Nat
      /\ MaxDeviceLen(u) \in Nat /\ MaxDeviceLen(u) = InputLen[u] + outputLen[u]
  BY <1>1, RequestType DEF MaxDeviceLen
<1>3. cached[u] < InputLen[u] /\ outputLen[u] > 0
  BY DEF PendingFits
<1> DEFINE c == cached[u]
           m == MaxDeviceLen(u)
<1>4. c \in Nat /\ m \in Nat /\ m - 1 \in Nat /\ c <= m - 1 /\ m - 1 <= m
  BY <1>2, <1>3
<1>5. PagesToCome(u) = DivCeil(m - 1) - DivCeil(c)
  BY DEF PagesToCome, NeededPages
<1>6. Cost(u) = (DivCeil(m) - DivCeil(c)) * PageSize
  BY DEF Cost, KvReservationSize
<1> HIDE DEF c, m
<1>7. DivCeil(c) \in Nat /\ DivCeil(m) \in Nat /\ DivCeil(m - 1) \in Nat
  BY <1>4, PageBounds
<1>8. DivCeil(c) <= DivCeil(m - 1) /\ DivCeil(m - 1) <= DivCeil(m)
  BY <1>4, PagesGrow
<1>9. PageSize \in Nat
  BY SchedulerAssumption
<1>10. PICK e \in Nat : DivCeil(m) = DivCeil(m - 1) + e
  <2>1. DivCeil(m) - DivCeil(m - 1) \in Nat
        /\ DivCeil(m) = DivCeil(m - 1) + (DivCeil(m) - DivCeil(m - 1))
    BY <1>7, <1>8
  <2> QED BY <2>1
<1>11. DivCeil(m - 1) - DivCeil(c) \in Nat
  BY <1>7, <1>8
<1>12. Cost(u) = PageSize * PagesToCome(u) + PageSize * e
  BY <1>5, <1>6, <1>7, <1>9, <1>10
<1>13. PageSize * PagesToCome(u) \in Nat /\ PageSize * e \in Nat
  BY <1>5, <1>9, <1>11
<1> QED BY <1>1, <1>2, <1>3, <1>5, <1>11, <1>12, <1>13 DEF PromptLeft
LEMMA LiveToCome ==
    ASSUME TypeOK, RunningCanDecode, PendingFits, QueuesHold
    PROVE  /\ Live \subseteq Uids
           /\ \A u \in Live : PagesToCome(u) \in Nat
BY RunningToCome, PendingToCome DEF Live, QueuesHold
-----------------------------------------------------------------------------
(* A launch: the batch takes at most what it needs of what was promised,   *)
(* so what the pool has left still covers the rest of the promise.         *)
LEMMA LaunchRoom ==
    ASSUME TypeOK, NEW batch \in Batch, NEW d, Launch(batch, d),
           outputLen' = outputLen,
           IsFiniteSet(batch.reqs),
           NEW rest \in SUBSET Uids, IsFiniteSet(rest), rest \cap batch.reqs = {},
           \A u \in batch.reqs : /\ d[u] \in Nat /\ cached[u] <= d[u]
                                 /\ d[u] <= MaxDeviceLen(u) - 1,
           \A u \in rest : PagesToCome(u) \in Nat,
           Total([u \in rest \cup batch.reqs |-> PagesToCome(u)])
             <= Cardinality(freePages)
    PROVE  /\ phase' # "oom"
           /\ \A u \in batch.reqs : cached'[u] = d[u]
           /\ \A u \in rest \cup batch.reqs : PagesToCome(u)' \in Nat
           /\ Total([u \in rest \cup batch.reqs |-> PagesToCome(u)'])
                <= Cardinality(freePages')
<1> DEFINE reqs == batch.reqs
           both == rest \cup reqs
           need  == [u \in reqs |-> NeededPages(d[u], cached[u])]
           later == [u \in reqs |-> NeededPages(MaxDeviceLen(u) - 1, d[u])]
           come  == [u \in reqs |-> PagesToCome(u)]
           wait  == [u \in rest |-> PagesToCome(u)]
           now   == [u \in both |-> PagesToCome(u)]
           then  == [u \in both |-> PagesToCome(u)']
<1>1. reqs \subseteq Uids /\ None \notin reqs
  BY SchedulerAssumption DEF Batch
<1>2. ASSUME NEW u \in reqs
      PROVE  /\ need[u] \in Nat /\ later[u] \in Nat /\ come[u] \in Nat
             /\ come[u] = need[u] + later[u]
  <2> DEFINE c == cached[u]
             e == d[u]
             m == MaxDeviceLen(u) - 1
  <2>1. cached[u] \in Nat /\ MaxDeviceLen(u) \in Nat /\ MaxDeviceLen(u) > 0
    BY <1>1, RequestType
  <2>2. c \in Nat /\ e \in Nat /\ m \in Nat /\ c <= e /\ e <= m /\ c <= m
    BY <2>1
  <2>3. /\ need[u] = NeededPages(e, c) /\ later[u] = NeededPages(m, e)
        /\ come[u] = NeededPages(m, c)
    BY DEF PagesToCome
  <2> HIDE DEF c, e, m, need, later, come
  <2>4. NeededPages(e, c) \in Nat /\ NeededPages(m, e) \in Nat /\ NeededPages(m, c) \in Nat
    BY <2>2, NeededType
  <2>5. NeededPages(m, c) = NeededPages(e, c) + NeededPages(m, e)
    BY <2>2, PageBounds DEF NeededPages
  <2> QED BY <2>3, <2>4, <2>5
<1>3. need \in [reqs -> Nat] /\ later \in [reqs -> Nat] /\ come \in [reqs -> Nat]
  BY <1>2
<1>4. wait \in [rest -> Nat] /\ now \in [both -> Nat]
  BY <1>2
<1>5. PagesOfBatch(reqs, d) = Total(need)
  BY DEF PagesOfBatch
<1>6. [u \in rest |-> now[u]] = wait /\ [u \in reqs |-> now[u]] = come
  OBVIOUS
<1> HIDE DEF need, later, come, wait, now
<1>7. /\ Total(need) \in Nat /\ Total(later) \in Nat /\ Total(come) \in Nat
      /\ Total(wait) \in Nat
  BY <1>3, <1>4, TotalType
<1>8. Total(come) = Total(need) + Total(later)
  BY <1>2, <1>3, TotalAdd
<1>9. Total(now) = Total(wait) + Total(come)
  BY <1>4, <1>6, TotalSplit
<1>10. IsFiniteSet(freePages) /\ Cardinality(freePages) \in Nat
  BY FreeFinite
<1>11. Total(now) <= Cardinality(freePages)
  BY DEF now
<1>12. ~ PagesOfBatch(reqs, d) > Cardinality(freePages)
  BY <1>5, <1>7, <1>8, <1>9, <1>10, <1>11
<1>13. /\ phase' = "drain"
       /\ cached' = [u \in Uids |-> IF u \in reqs THEN d[u] ELSE cached[u]]
       /\ \E grant \in [freePages -> reqs \cup {None}] :
            /\ \A u \in reqs : Cardinality({p \in freePages : grant[p] = u})
                                 = NeededPages(d[u], cached[u])
            /\ freePages' = {p \in freePages : grant[p] = None}
  BY <1>12 DEF Launch
<1>14. PICK grant \in [freePages -> reqs \cup {None}] :
            /\ \A u \in reqs : Cardinality({p \in freePages : grant[p] = u})
                                 = NeededPages(d[u], cached[u])
            /\ freePages' = {p \in freePages : grant[p] = None}
  BY <1>13
<1>15. \A u \in reqs : Cardinality({p \in freePages : grant[p] = u}) = need[u]
  BY <1>14 DEF need
<1>16. Cardinality({p \in freePages : grant[p] # None}) <= Total(need)
  BY <1>1, <1>3, <1>10, <1>15, GrantTotal
<1> DEFINE taken == {p \in freePages : grant[p] # None}
<1>17. freePages' = freePages \ taken /\ freePages \cap taken = taken
  BY <1>14
<1>18. Cardinality(freePages') = Cardinality(freePages) - Cardinality(taken)
  BY <1>10, <1>17, FS_Difference
<1>19. IsFiniteSet(taken) /\ Cardinality(taken) \in Nat
  BY <1>10, FS_Subset, FS_CardinalityType
<1>20. /\ \A u \in reqs : cached'[u] = d[u]
       /\ \A u \in rest : cached'[u] = cached[u]
  BY <1>1, <1>13
<1>21. /\ \A u \in reqs : PagesToCome(u)' = NeededPages(MaxDeviceLen(u) - 1, d[u])
       /\ \A u \in rest : PagesToCome(u)' = PagesToCome(u)
  BY <1>20 DEF PagesToCome, NeededPages, DivCeil, MaxDeviceLen
<1>22. /\ \A u \in reqs : then[u] = later[u]
       /\ \A u \in rest : then[u] = wait[u]
  BY <1>21 DEF later, wait
<1>23. then \in [both -> Nat] /\ DOMAIN then = both
  <2>1. \A u \in both : then[u] \in Nat
    BY <1>3, <1>4, <1>22
  <2>2. then = [u \in both |-> then[u]]
    OBVIOUS
  <2> HIDE DEF then
  <2> QED BY <2>1, <2>2
<1>24. \A u \in both : PagesToCome(u)' \in Nat
  BY <1>23
<1> HIDE DEF then
<1>25. [u \in rest |-> then[u]] = wait /\ [u \in reqs |-> then[u]] = later
  BY <1>22, <1>3, <1>4
<1>26. Total(then) = Total(wait) + Total(later)
  BY <1>23, <1>25, TotalSplit
<1>27. Total(then) <= Cardinality(freePages')
  BY <1>7, <1>8, <1>9, <1>10, <1>11, <1>16, <1>18, <1>19, <1>26
<1> QED BY <1>13, <1>20, <1>24, <1>27 DEF then
-----------------------------------------------------------------------------
(* The pass over the pending requests.                                     *)
(* h is f on S and g on T.                                                 *)
Joins(h, f, S, g, T) ==
    /\ f \in [S -> Nat] /\ g \in [T -> Nat] /\ h \in [S \cup T -> Nat]
    /\ \A x \in S : h[x] = f[x]
    /\ \A x \in T : h[x] = g[x]
LEMMA TotalUnion ==
    ASSUME NEW S, NEW T, IsFiniteSet(S), IsFiniteSet(T), S \cap T = {},
           NEW f, NEW g, NEW h, Joins(h, f, S, g, T)
    PROVE  Total(h) = Total(f) + Total(g)
<1>1. [x \in S |-> h[x]] = f /\ [x \in T |-> h[x]] = g
  BY DEF Joins
<1>2. Total(h) = Total([x \in S |-> h[x]]) + Total([x \in T |-> h[x]])
  BY TotalSplit DEF Joins
<1> QED BY <1>1, <1>2
(* f is g along p, which reaches all of T.                                 *)
Along(f, S, p, g, T) ==
    /\ p \in [S -> T] /\ \A t \in T : \E s \in S : p[s] = t
    /\ f \in [S -> Nat] /\ g \in [T -> Nat]
    /\ \A s \in S : f[s] = g[p[s]]
LEMMA TotalAlong ==
    ASSUME NEW S, NEW T, IsFiniteSet(S), NEW f, NEW g, NEW p, Along(f, S, p, g, T)
    PROVE  Total(g) <= Total(f)
  BY TotalOnto DEF Along
LEMMA TotalPadded ==
    ASSUME NEW S, IsFiniteSet(S), NEW k \in Nat, NEW f \in [S -> Nat]
    PROVE  Total([x \in S |-> k + f[x]]) = Cardinality(S) * k + Total(f)
<1> DEFINE pad == [x \in S |-> k]
           sum == [x \in S |-> k + f[x]]
<1>1. pad \in [S -> Nat] /\ sum \in [S -> Nat] /\ \A x \in S : sum[x] = pad[x] + f[x]
  OBVIOUS
<1>2. Total(pad) = Cardinality(S) * k
  BY TotalConst
<1> HIDE DEF pad, sum
<1>3. Total(sum) = Total(pad) + Total(f)
  BY <1>1, TotalAdd
<1> QED BY <1>2, <1>3 DEF sum
(* The arithmetic of the check: R are the running requests, Q the batch.   *)
LEMMA CheckedSum ==
    ASSUME NEW R, NEW Q, IsFiniteSet(R), IsFiniteSet(Q), R \cap Q = {},
           NEW wait \in [R -> Nat], NEW remain \in [R -> Nat],
           NEW come \in [Q -> Nat], NEW price \in [Q -> Nat],
           NEW now \in [R \cup Q -> Nat],
           \A u \in R : now[u] = wait[u],
           \A u \in Q : now[u] = come[u],
           \A u \in R : PageSize * wait[u] <= (PageSize - 1) + remain[u],
           \A u \in Q : PageSize * come[u] <= price[u],
           NEW free \in Nat,
           Cardinality(R) * (PageSize - 1) + Total(remain) + Total(price)
             <= PageSize * free
    PROVE  Total(now) <= free
<1> DEFINE reserve == [u \in R |-> (PageSize - 1) + remain[u]]
<1>1. PageSize \in Nat \ {0} /\ PageSize - 1 \in Nat
  BY SchedulerAssumption
<1>2. reserve \in [R -> Nat] /\ \A u \in R : PageSize * wait[u] <= reserve[u]
  BY <1>1
<1>3. Total(reserve) = Cardinality(R) * (PageSize - 1) + Total(remain)
  BY <1>1, TotalPadded
<1> HIDE DEF reserve
<1>4. PageSize * Total(wait) <= Total(reserve)
  BY <1>1, <1>2, TotalScale
<1>5. PageSize * Total(come) <= Total(price)
  BY <1>1, TotalScale
<1>6. Total(now) = Total(wait) + Total(come)
  <2>1. Joins(now, wait, R, come, Q)
    BY DEF Joins
  <2> QED BY <2>1, TotalUnion
<1>7. /\ Total(reserve) \in Nat /\ Total(wait) \in Nat /\ Total(come) \in Nat
      /\ Total(price) \in Nat
  BY <1>2, TotalType
<1>8. PageSize * Total(now) = PageSize * Total(wait) + PageSize * Total(come)
  BY <1>1, <1>6, <1>7
<1>9. /\ PageSize * Total(wait) \in Int /\ PageSize * Total(come) \in Int
      /\ PageSize * free \in Int
  BY <1>1, <1>7
<1>10. PageSize * Total(now) <= PageSize * free
  BY <1>3, <1>4, <1>5, <1>7, <1>8, <1>9
<1>11. Total(now) \in Int
  BY <1>6, <1>7
<1> QED BY <1>10, <1>11, CancelPages
(* The requests of the pass, each counted at its place in the queue.       *)
LEMMA PassSum ==
    ASSUME NEW n \in Nat \ {0}, NEW Q, NEW p \in [1 .. n -> Q],
           \A u \in Q : \E j \in 1 .. n : p[j] = u,
           NEW price \in [Q -> Nat]
    PROVE  Total(price) <= Total([j \in 1 .. (n - 1) |-> price[p[j]]]) + price[p[n]]
<1> DEFINE cost   == [j \in 1 .. n |-> price[p[j]]]
           before == [j \in 1 .. (n - 1) |-> price[p[j]]]
           at     == [j \in {n} |-> price[p[j]]]
<1>1. PICK m \in Nat : n = m + 1 /\ n - 1 = m
  <2>1. n - 1 \in Nat /\ n = (n - 1) + 1 /\ n - 1 = n - 1
    OBVIOUS
  <2> QED BY <2>1
<1>2. IsFiniteSet(1 .. n) /\ IsFiniteSet(1 .. m) /\ IsFiniteSet({n})
  <2>1. IsFiniteSet({n})
    BY FS_Singleton
  <2>2. n \in Int /\ m \in Int /\ 1 \in Int
    OBVIOUS
  <2>3. IsFiniteSet(1 .. n) /\ IsFiniteSet(1 .. m)
    BY <2>2, FS_Interval
  <2> QED BY <2>1, <2>3
<1>3. (1 .. m) \cup {n} = 1 .. n /\ (1 .. m) \cap {n} = {}
  BY <1>1
<1>4. /\ cost \in [1 .. n -> Nat] /\ at \in [{n} -> Nat]
      /\ before \in [1 .. m -> Nat]
  BY <1>1
<1>5. /\ \A j \in 1 .. n : cost[j] = price[p[j]]
      /\ \A j \in 1 .. m : cost[j] = before[j]
      /\ \A j \in {n} : cost[j] = at[j]
      /\ at[n] = price[p[n]]
  BY <1>1, <1>3
<1> HIDE DEF cost, before, at
<1>6. cost \in [(1 .. m) \cup {n} -> Nat]
  BY <1>3, <1>4
<1>7. Total(cost) = Total(before) + Total(at)
  <2>1. Joins(cost, before, 1 .. m, at, {n})
    BY <1>4, <1>5, <1>6 DEF Joins
  <2> QED BY <1>2, <1>3, <2>1, TotalUnion
<1>8. Total(at) = price[p[n]]
  BY <1>4, <1>5, TotalOne
<1>9. Total(price) <= Total(cost)
  <2>1. Along(cost, 1 .. n, p, price, Q)
    BY <1>4, <1>5 DEF Along
  <2> QED BY <1>2, <2>1, TotalAlong
<1> QED BY <1>7, <1>8, <1>9 DEF before
(* The requests that can be added are the first ones, so as many as there  *)
(* are have all been checked.                                              *)
LEMMA AdmittedAll ==
    ASSUME TypeOK, NEW n \in 1 .. Len(pending), n = NumAdmitted
    PROVE  \A i \in 1 .. n : TryAddOne(i)
<1> DEFINE ok == {k \in 1 .. Len(pending) : \A i \in 1 .. k : TryAddOne(i)}
<1>0. Len(pending) \in Nat /\ n \in Nat /\ n > 0
  BY LenProperties DEF TypeOK
<1>1. SUFFICES ASSUME n \notin ok PROVE FALSE
  OBVIOUS
<1>2. Cardinality(ok) = n
  BY DEF NumAdmitted
<1>3. ok \subseteq 1 .. (n - 1)
  <2> SUFFICES ASSUME NEW k \in ok, k >= n PROVE FALSE
    BY <1>0
  <2>1. \A i \in 1 .. n : i \in 1 .. k
    BY <1>0
  <2> QED BY <1>1, <2>1
<1> HIDE DEF ok
<1>4. IsFiniteSet(1 .. (n - 1)) /\ Cardinality(1 .. (n - 1)) = n - 1
  <2>1. PICK m \in Nat : n = m + 1
    <3>1. n - 1 \in Nat /\ n = (n - 1) + 1
      BY <1>0
    <3> QED BY <3>1
  <2>2. IsFiniteSet(1 .. m) /\ Cardinality(1 .. m) = m
    BY FS_Interval
  <2>3. n - 1 = m
    BY <2>1
  <2> QED BY <2>2, <2>3
<1>5. Cardinality(ok) <= n - 1
  BY <1>3, <1>4, FS_Subset
<1> QED BY <1>0, <1>2, <1>5
LEMMA FirstRequests ==
    ASSUME TypeOK, Distinct(pending), NEW n \in 1 .. Len(pending)
    PROVE  /\ \A i \in 1 .. n : pending[i] \in Elems(pending)
           /\ \A i \in 1 .. n : \A j \in 1 .. n : pending[i] = pending[j] => i = j
           /\ PrefillBatch(n).reqs = {pending[i] : i \in 1 .. n}
           /\ IsFiniteSet(PrefillBatch(n).reqs)
<1>1. Len(pending) \in Nat /\ DOMAIN pending = 1 .. Len(pending)
  BY LenProperties DEF TypeOK
<1>2. PrefillBatch(n).reqs = {pending[i] : i \in 1 .. n}
  BY DEF PrefillBatch
<1>3. IsFiniteSet({pending[i] : i \in 1 .. n})
  <2> DEFINE F == [i \in 1 .. n |-> pending[i]]
  <2>1. F \in [1 .. n -> {pending[i] : i \in 1 .. n}]
        /\ \A t \in {pending[i] : i \in 1 .. n} : \E i \in 1 .. n : F[i] = t
    OBVIOUS
  <2>2. IsFiniteSet(1 .. n)
    BY FS_Interval
  <2> HIDE DEF F
  <2> QED BY <2>1, <2>2, NoFewer
<1> QED BY <1>1, <1>2, <1>3 DEF Elems, Distinct
(* What the adder has counted when it admits the last request of a pass:   *)
(* the room of the running requests and of every request of the batch.     *)
LEMMA CheckedRoom ==
    ASSUME TypeOK, QueuesHold, RunningCanDecode, Distinct(pending),
           PendingFits, IsFiniteSet(running),
           NEW n \in 1 .. Len(pending), TryAddOne(n), IsFresh(n)
    PROVE  Total([u \in running \cup PrefillBatch(n).reqs |-> PagesToCome(u)])
             <= Cardinality(freePages)
<1> DEFINE reqs == PrefillBatch(n).reqs
           p      == [j \in 1 .. n |-> pending[j]]
           price  == [u \in reqs |-> Cost(u)]
           come   == [u \in reqs |-> PagesToCome(u)]
           wait   == [u \in running |-> PagesToCome(u)]
           remain == [u \in running |-> RemainLen(u, cached[u])]
           now    == [u \in running \cup reqs |-> PagesToCome(u)]
           before == [j \in 1 .. (n - 1) |-> Cost(pending[j])]
<1>0. PageSize \in Nat /\ PageSize > 0 /\ n \in Nat \ {0}
  BY LenProperties, SchedulerAssumption DEF TypeOK
<1>1. /\ \A i \in 1 .. n : pending[i] \in Elems(pending)
      /\ reqs = {pending[i] : i \in 1 .. n} /\ IsFiniteSet(reqs)
  BY FirstRequests
<1>2. reqs \subseteq Elems(pending) /\ running \cap reqs = {}
  BY <1>1 DEF QueuesHold
<1>3. \A u \in Elems(pending) : /\ PagesToCome(u) \in Nat /\ Cost(u) \in Nat
                                /\ PageSize * PagesToCome(u) <= Cost(u)
  BY PendingToCome
<1>4. \A u \in running :
        /\ PagesToCome(u) \in Nat /\ RemainLen(u, cached[u]) \in Nat
        /\ PageSize * PagesToCome(u) <= PageSize - 1 + RemainLen(u, cached[u])
  BY RunningToCome
<1>5. /\ price \in [reqs -> Nat] /\ come \in [reqs -> Nat]
      /\ \A u \in reqs : PageSize * come[u] <= price[u]
  BY <1>2, <1>3
<1>6. /\ wait \in [running -> Nat] /\ remain \in [running -> Nat]
      /\ \A u \in running : PageSize * wait[u] <= (PageSize - 1) + remain[u]
  BY <1>4
<1>7. /\ now \in [running \cup reqs -> Nat]
      /\ \A u \in running : now[u] = wait[u]
      /\ \A u \in reqs : now[u] = come[u]
  BY <1>2, <1>3, <1>4
<1>8. /\ p \in [1 .. n -> reqs] /\ \A u \in reqs : \E j \in 1 .. n : p[j] = u
      /\ p[n] = pending[n] /\ pending[n] \in reqs
      /\ price[p[n]] = Cost(pending[n])
  BY <1>0, <1>1
<1>9. [j \in 1 .. (n - 1) |-> price[p[j]]] = before
  BY <1>0, <1>1
<1>10. /\ IsFiniteSet(freePages) /\ Cardinality(freePages) \in Nat
       /\ Cardinality(running) \in Nat
  BY FreeFinite, FS_CardinalityType
<1>11. Cost(pending[n]) + (InflightTokens + Total(before))
         <= Cardinality(freePages) * PageSize
  BY DEF TryAddOne, ReservedSize
<1>12. InflightTokens = (PageSize - 1) * Cardinality(running) + Total(remain)
  BY DEF InflightTokens
<1>13. Cost(pending[n]) \in Nat
  BY <1>2, <1>3, <1>8
<1>14. before \in [1 .. (n - 1) -> Nat] /\ IsFiniteSet(1 .. (n - 1))
  <2>1. \A j \in 1 .. (n - 1) : Cost(pending[j]) \in Nat
    BY <1>0, <1>1, <1>3
  <2>2. 1 \in Int /\ n - 1 \in Int
    BY <1>0
  <2> QED BY <2>1, <2>2, FS_Interval
<1> HIDE DEF p, price, come, wait, remain, now, before, reqs
<1>15. Total(price) <= Total(before) + Cost(pending[n])
  <2>1. Total(price) <= Total([j \in 1 .. (n - 1) |-> price[p[j]]]) + price[p[n]]
    BY <1>0, <1>5, <1>8, PassSum
  <2> QED BY <1>8, <1>9, <2>1
<1>16. /\ Total(price) \in Nat /\ Total(remain) \in Nat /\ Total(before) \in Nat
  BY <1>1, <1>5, <1>6, <1>14, TotalType
<1>17. Cardinality(running) * (PageSize - 1) + Total(remain) + Total(price)
         <= PageSize * Cardinality(freePages)
  <2> DEFINE a == Cardinality(running) * (PageSize - 1)
             f == PageSize * Cardinality(freePages)
  <2>1. a \in Int /\ f \in Int
    BY <1>0, <1>10
  <2>2. InflightTokens = a + Total(remain) /\ Cardinality(freePages) * PageSize = f
    BY <1>0, <1>10, <1>12
  <2> HIDE DEF a, f
  <2>3. a + Total(remain) + Total(price) <= f
    BY <1>11, <1>13, <1>15, <1>16, <2>1, <2>2
  <2> QED BY <2>3 DEF a, f
<1>18. Total(now) <= Cardinality(freePages)
  BY <1>1, <1>2, <1>5, <1>6, <1>7, <1>10, <1>17, CheckedSum
<1> QED BY <1>18 DEF now, reqs
LEMMA PrefillRoom ==
    ASSUME IInv, AdmissionInv, NEW n \in 1 .. Len(pending), n = NumAdmitted
    PROVE  Total([u \in running \cup PrefillBatch(n).reqs |-> PagesToCome(u)])
             <= Cardinality(freePages)
<1>1. /\ TypeOK /\ QueuesHold /\ RunningCanDecode /\ Distinct(pending)
      /\ PendingFits /\ IsFiniteSet(running) /\ ChunkFirst /\ RoomForAll
  BY DEF IInv, QueueInv, OnlySentRequests, AdmissionInv
<1>2. TryAddOne(n)
  BY <1>1, AdmittedAll
<1>3. CASE IsFresh(n)
  BY <1>1, <1>2, <1>3, CheckedRoom
<1>4. CASE ~ IsFresh(n)
  <2>1. pending[n] \in chunked
    BY <1>4 DEF IsFresh
  <2>2. pending[n] = pending[1]
    BY <1>1, <2>1 DEF ChunkFirst
  <2>3. n = 1
    BY <1>1, <2>2, FirstRequests
  <2>4. PrefillBatch(n).reqs = {pending[1]}
    BY <2>3 DEF PrefillBatch
  <2>5. chunked = {pending[1]}
    BY <1>1, <2>1, <2>2 DEF ChunkFirst
  <2> QED BY <1>1, <2>4, <2>5 DEF RoomForAll
<1> QED BY <1>3, <1>4
-----------------------------------------------------------------------------
(* The invariant is kept.                                                  *)
LEMMA TotalEmpty ==
    ASSUME NEW f, DOMAIN f = {}
    PROVE  Total(f) = 0
<1>1. Units(f) = {}
  BY DEF Units
<1> QED BY <1>1, FS_EmptySet DEF Total
(* A step that promises nothing new and takes no page.                     *)
LEMMA RoomKept ==
    ASSUME IInv, TypeOK', AdmissionInv, Live' \subseteq Live,
           \A u \in Live' : outputLen'[u] = outputLen[u] /\ cached'[u] = cached[u],
           freePages \subseteq freePages'
    PROVE  RoomForAll'
<1> DEFINE f == [u \in Live |-> PagesToCome(u)]
           g == [u \in Live' |-> PagesToCome(u)']
<1>1. IsFiniteSet(Live)
  BY LiveFinite DEF AdmissionInv
<1>2. \A u \in Live : PagesToCome(u) \in Nat
  BY LiveToCome DEF IInv, QueueInv, AdmissionInv
<1>3. \A u \in Live' : PagesToCome(u)' = PagesToCome(u)
  BY DEF PagesToCome, NeededPages, DivCeil, MaxDeviceLen
<1>4. f \in [Live -> Nat] /\ g \in [Live' -> Nat] /\ \A u \in Live' : g[u] <= f[u]
  BY <1>2, <1>3
<1>5. Total(f) <= Cardinality(freePages)
  BY DEF AdmissionInv, RoomForAll, Live
<1>6. IsFiniteSet(freePages')
  BY SchedulerAssumption, FS_Subset DEF TypeOK
<1>7. /\ Cardinality(freePages) <= Cardinality(freePages')
      /\ Cardinality(freePages) \in Nat /\ Cardinality(freePages') \in Nat
  BY <1>6, FS_Subset, FS_CardinalityType
<1> DEFINE L == Live
           L2 == Live'
<1>8. IsFiniteSet(L) /\ L2 \subseteq L /\ f \in [L -> Nat] /\ g \in [L2 -> Nat]
      /\ \A u \in L2 : g[u] <= f[u]
  BY <1>1, <1>4
<1>9. Total(g) <= Cardinality(freePages') => RoomForAll'
  BY DEF RoomForAll, Live
<1> HIDE DEF f, g, L, L2
<1>10. IsFiniteSet(L2)
  BY <1>8, FS_Subset
<1>11. Total(f) \in Nat /\ Total(g) \in Nat
  BY <1>8, <1>10, TotalType
<1>12. Total(g) <= Total(f)
  BY <1>8, TotalMono
<1> QED BY <1>5, <1>7, <1>9, <1>11, <1>12
(* abort_req takes the first pending request only if it is the one named.  *)
LEMMA WithoutFirst ==
    ASSUME NEW S, NEW s \in Seq(S), s # << >>, NEW u, s[1] # u
    PROVE  Without(s, u)[1] = s[1]
<1>0. Len(s) \in Nat /\ DOMAIN s = 1 .. Len(s) /\ \A i \in 1 .. Len(s) : s[i] \in S
  BY LenProperties, ElementOfSeq
<1>1. CASE ~ \E i \in DOMAIN s : s[i] = u
  BY <1>1 DEF Without
<1>2. CASE \E i \in DOMAIN s : s[i] = u
  <2> DEFINE k == CHOOSE i \in DOMAIN s : s[i] = u
             p == SubSeq(s, 1, k - 1)
             q == SubSeq(s, k + 1, Len(s))
  <2>1. k \in 1 .. Len(s) /\ s[k] = u
    BY <1>2, <1>0
  <2>2. Without(s, u) = p \o q
    BY <1>2 DEF Without
  <2>3. k - 1 \in Nat /\ k - 1 >= 1 /\ 1 \in Int /\ k + 1 \in Int /\ Len(s) \in Int
    BY <1>0, <2>1
  <2> HIDE DEF k
  <2>4. p \in Seq(S) /\ Len(p) = k - 1 /\ p[1] = s[1]
    <3>1. \A i \in 1 .. (k - 1) : s[i] \in S
      BY <1>0, <2>1
    <3>2. /\ p \in Seq(S) /\ Len(p) = IF 1 <= k - 1 THEN k - 1 - 1 + 1 ELSE 0
          /\ \A i \in 1 .. k - 1 - 1 + 1 : p[i] = s[1 + i - 1]
      BY <2>3, <3>1, SubSeqProperties
    <3> HIDE DEF p
    <3>3. 1 \in 1 .. k - 1 - 1 + 1 /\ 1 + 1 - 1 = 1
      BY <2>3
    <3>4. p[1] = s[1 + 1 - 1]
      BY <3>2, <3>3
    <3> QED BY <2>3, <3>2, <3>3, <3>4
  <2>5. q \in Seq(S)
    <3>1. \A i \in (k + 1) .. Len(s) : s[i] \in S
      BY <1>0, <2>1
    <3> QED BY <2>3, <3>1, SubSeqProperties
  <2> HIDE DEF p, q
  <2>6. (p \o q)[1] = p[1]
    <3>1. Len(q) \in Nat
      BY <2>5, LenProperties
    <3>2. 1 \in 1 .. Len(p) + Len(q) /\ 1 <= Len(p)
      BY <2>3, <2>4, <3>1
    <3> QED BY <2>4, <2>5, <3>2, ConcatProperties
  <2> QED BY <2>2, <2>4, <2>6
<1> QED BY <1>1, <1>2
LEMMA InitAdmission == Init => AdmissionInv
<1> SUFFICES ASSUME Init PROVE AdmissionInv
  OBVIOUS
<1>1. Elems(pending) = {} /\ running = {} /\ chunked = {} /\ phase # "oom"
  BY DEF Init, Elems
<1>2. IsFiniteSet(freePages)
  BY SchedulerAssumption, FS_Subset DEF Init
<1>3. RoomForAll
  <2>1. Total([u \in running \cup chunked |-> PagesToCome(u)]) = 0
    BY <1>1, TotalEmpty
  <2>2. Cardinality(freePages) \in Nat
    BY <1>2, FS_CardinalityType
  <2> QED BY <2>1, <2>2 DEF RoomForAll
<1> QED BY <1>1, <1>3, FS_EmptySet DEF AdmissionInv, NeverOutOfPages, ChunkFirst, PendingFits
LEMMA UserMsgAdmission ==
    ASSUME IInv, PageInv, AdmissionInv, NEW u \in Uids, UserMsg(u)
    PROVE  AdmissionInv'
<1>0. TypeOK /\ TypeOK'
  BY UserMsgType DEF IInv
<1>1. /\ phase' = phase /\ phase = "recv" /\ running' = running /\ chunked' = chunked
      /\ cached' = cached /\ freePages' = freePages /\ u \notin sent
  BY DEF UserMsg, memVars
<1>2. u \notin Live /\ chunked \subseteq Elems(pending) /\ Elems(pending) \subseteq sent
  BY <1>1 DEF IInv, QueueInv, QueuesHold, OnlySentRequests, Live
<1>3. \A v \in Uids \ {u} : outputLen'[v] = outputLen[v]
  BY <1>0 DEF UserMsg, DropAborted, RejectRequest, AddOneReq, TypeOK
<1>4. RoomForAll'
  <2>1. Live' = Live /\ Live \subseteq Uids
    BY <1>0, <1>1 DEF Live, TypeOK
  <2> QED BY <1>0, <1>1, <1>2, <1>3, <2>1, RoomKept
<1>5. CASE pending' = pending
  <2>1. Elems(pending)' = Elems(pending) /\ Elems(pending) \subseteq Uids
    BY <1>0, <1>5, ElemsType DEF TypeOK, Elems
  <2>2. u \notin Elems(pending)
    BY <1>1, <1>2
  <2>3. PendingFits'
    BY <1>1, <1>3, <2>1, <2>2 DEF PendingFits, AdmissionInv
  <2> QED BY <1>1, <1>4, <1>5, <2>3 DEF AdmissionInv, NeverOutOfPages, ChunkFirst
<1>6. CASE AddOneReq(u)
  <2>1. pending' = Append(pending, u)
    BY <1>6 DEF AddOneReq
  <2>2. Elems(pending)' = Elems(pending) \cup {u} /\ Elems(pending) \subseteq Uids
    <3>1. Elems(Append(pending, u)) = Elems(pending) \cup {u}
      BY <1>0, AppendElems DEF TypeOK
    <3>2. Elems(pending)' = Elems(Append(pending, u))
      BY <2>1 DEF Elems
    <3> QED BY <1>0, <3>1, <3>2, ElemsType DEF TypeOK
  <2>3. outputLen'[u] > 0 /\ cached[u] = 0 /\ InputLen[u] > 0
    <3>1. /\ MaxSeqLen \in Nat /\ InputLen[u] \in Nat /\ InputLen[u] > 0
          /\ MaxTokens[u] \in Nat /\ MaxTokens[u] > 0
      BY <1>0, MaxSeqLenType, SchedulerAssumption
    <3>2. InputLen[u] < MaxSeqLen
      BY <1>6, <3>1 DEF AddOneReq, Rejected
    <3>3. outputLen'[u] = IF MaxTokens[u] > MaxSeqLen - InputLen[u]
                          THEN MaxSeqLen - InputLen[u] ELSE MaxTokens[u]
      BY <1>0, <1>6 DEF AddOneReq, TypeOK
    <3>4. cached[u] = 0
      BY <1>1 DEF PageInv, UnscheduledAtZero
    <3> QED BY <3>1, <3>2, <3>3, <3>4
  <2>4. PendingFits'
    <3> SUFFICES ASSUME NEW v \in Elems(pending)'
                 PROVE  cached'[v] < InputLen[v] /\ outputLen'[v] > 0
      BY DEF PendingFits
    <3>1. CASE v = u
      BY <1>1, <2>3, <3>1
    <3>2. CASE v # u
      BY <1>1, <1>3, <2>2, <3>2 DEF AdmissionInv, PendingFits
    <3> QED BY <3>1, <3>2
  <2>5. ChunkFirst'
    <3> SUFFICES ASSUME NEW v \in chunked PROVE v = Append(pending, u)[1]
      BY <1>1, <2>1 DEF ChunkFirst
    <3>1. v = pending[1] /\ pending # << >>
      BY <1>2 DEF AdmissionInv, ChunkFirst, Elems
    <3>2. Len(pending) \in Nat /\ Len(pending) # 0
      BY <1>0, <3>1, EmptySeq, LenProperties DEF TypeOK
    <3>3. 1 \in 1 .. Len(pending)
      BY <3>2
    <3> QED BY <1>0, <3>1, <3>3, AppendProperties DEF TypeOK
  <2> QED BY <1>1, <1>4, <2>4, <2>5 DEF AdmissionInv, NeverOutOfPages
<1> QED BY <1>5, <1>6 DEF UserMsg, DropAborted, RejectRequest
LEMMA AbortAdmission ==
    ASSUME IInv, AdmissionInv, NEW u \in Uids, AbortBackendMsg(u)
    PROVE  AdmissionInv'
<1>0. TypeOK /\ TypeOK'
  BY AbortType DEF IInv
<1>1. /\ phase' = phase /\ running' = running \ {u} /\ chunked' = chunked \ {u}
      /\ pending' = Without(pending, u) /\ cached' = cached /\ outputLen' = outputLen
      /\ freePages \subseteq freePages'
  BY DEF AbortBackendMsg, FreeReqResources, reqVars
<1>2. RoomForAll'
  <2>1. Live' \subseteq Live
    BY <1>1 DEF Live
  <2> QED BY <1>0, <1>1, <2>1, RoomKept
<1>3. PendingFits'
  <2>1. Elems(pending)' \subseteq Elems(pending)
    <3>1. Elems(Without(pending, u)) \subseteq Elems(pending)
      BY <1>0, WithoutElems DEF TypeOK
    <3> QED BY <1>1, <3>1 DEF Elems
  <2> QED BY <1>1, <2>1 DEF AdmissionInv, PendingFits
<1>4. ChunkFirst'
  <2> SUFFICES ASSUME NEW v \in chunked, v # u PROVE v = Without(pending, u)[1]
    BY <1>1 DEF ChunkFirst
  <2>1. v = pending[1]
    BY DEF AdmissionInv, ChunkFirst
  <2>2. pending # << >>
    BY DEF IInv, QueueInv, QueuesHold, Elems
  <2> QED BY <1>0, <2>1, <2>2, WithoutFirst DEF TypeOK
<1>5. IsFiniteSet(running')
  <2>1. running' \subseteq running
    BY <1>1
  <2> QED BY <2>1, FS_Subset DEF AdmissionInv
<1> QED BY <1>1, <1>2, <1>3, <1>4, <1>5 DEF AdmissionInv, NeverOutOfPages
(* The steps that neither schedule nor change the queues.                  *)
LEMMA QuietAdmission ==
    ASSUME IInv, AdmissionInv, [Next]_vars,
           \/ EndReceive \/ ScheduleNothing \/ ProcessLastData \/ FlushAbortAcks
           \/ UNCHANGED vars \/ \E b \in RebuildIds : CacheRebuildMsg(b)
    PROVE  AdmissionInv'
<1>0. TypeOK'
  BY NextType DEF IInv
<1>1. /\ phase' = phase \/ phase' \in {"run", "drain", "flush", "recv"}
      /\ UNCHANGED <<pending, chunked, cached, outputLen>>
  BY DEF EndReceive, ScheduleNothing, ProcessLastData, FlushAbortAcks, vars,
         CacheRebuildMsg, msgVars, queueVars, reqVars
<1>2. freePages \subseteq freePages' /\ running' \subseteq running
  <2>1. CASE ProcessLastData
    BY <2>1 DEF ProcessLastData, FreeReqResources, memVars
  <2>2. CASE ~ ProcessLastData
    BY <2>2 DEF EndReceive, ScheduleNothing, FlushAbortAcks, vars,
                CacheRebuildMsg, queueVars, memVars
  <2> QED BY <2>1, <2>2
<1>3. Live' \subseteq Live
  BY <1>1, <1>2 DEF Live
<1>4. RoomForAll'
  BY <1>0, <1>1, <1>2, <1>3, RoomKept
<1>5. IsFiniteSet(running')
  BY <1>2, FS_Subset DEF AdmissionInv
<1> QED BY <1>1, <1>4, <1>5
        DEF AdmissionInv, NeverOutOfPages, ChunkFirst, PendingFits, Elems
(* A rebuild runs when nothing is promised to anybody.                     *)
LEMMA RebuildAdmission ==
    ASSUME IInv, AdmissionInv, ExecutePendingRebuild
    PROVE  AdmissionInv'
<1>0. TypeOK'
  BY RebuildType DEF IInv
<1>1. /\ phase = "recv" /\ last = NoBatch /\ ~ Runnable /\ phase' = "run"
      /\ UNCHANGED <<pending, chunked, running, cached, outputLen>>
  BY DEF ExecutePendingRebuild, RebuildDue, queueVars, reqVars
<1>2. chunked = {} /\ running = {}
  BY <1>1, IdleOwnsNothing DEF Runnable
<1>3. RoomForAll'
  <2>1. IsFiniteSet(freePages')
    BY <1>0, SchedulerAssumption, FS_Subset DEF TypeOK
  <2>2. Cardinality(freePages') \in Nat
    BY <2>1, FS_CardinalityType
  <2> DEFINE f == [u \in running' \cup chunked' |-> PagesToCome(u)']
  <2>3. DOMAIN f = {}
    BY <1>1, <1>2
  <2>4. RoomForAll' <=> Total(f) <= Cardinality(freePages')
    BY DEF RoomForAll
  <2> HIDE DEF f
  <2>5. Total(f) = 0
    BY <2>3, TotalEmpty
  <2> QED BY <2>2, <2>4, <2>5
<1> QED BY <1>1, <1>3
        DEF AdmissionInv, NeverOutOfPages, ChunkFirst, PendingFits, Elems
(* What a launch leaves promised, whatever the batch was.                  *)
LEMMA LaunchAdmission ==
    ASSUME IInv, AdmissionInv, TypeOK', NEW batch \in Batch, NEW d, Launch(batch, d),
           outputLen' = outputLen,
           IsFiniteSet(batch.reqs),
           NEW rest \in SUBSET Uids, IsFiniteSet(rest), rest \cap batch.reqs = {},
           \A u \in batch.reqs : /\ d[u] \in Nat /\ cached[u] <= d[u]
                                 /\ d[u] <= MaxDeviceLen(u) - 1,
           \A u \in rest : PagesToCome(u) \in Nat,
           Total([u \in rest \cup batch.reqs |-> PagesToCome(u)])
             <= Cardinality(freePages),
           running \subseteq rest \cup batch.reqs,
           chunked' \subseteq rest \cup batch.reqs
    PROVE  /\ NeverOutOfPages'
           /\ IsFiniteSet(running')
           /\ RoomForAll'
           /\ \A u \in batch.reqs : cached'[u] = d[u]
<1> DEFINE both == rest \cup batch.reqs
           f == [u \in Live' |-> PagesToCome(u)']
           g == [u \in both |-> PagesToCome(u)']
<1>1. /\ phase' # "oom"
      /\ \A u \in batch.reqs : cached'[u] = d[u]
      /\ \A u \in both : PagesToCome(u)' \in Nat
      /\ Total(g) <= Cardinality(freePages')
  BY LaunchRoom DEF IInv
<1>2. running' \subseteq running \cup batch.reqs
  <2>1. batch.reqs \ batch.chunked \subseteq batch.reqs
    OBVIOUS
  <2> QED BY <2>1, RunningAfterLaunch DEF IInv, QueueInv
<1>3. IsFiniteSet(both)
  BY FS_Union
<1>4. Live' \subseteq both /\ running' \subseteq both
  BY <1>2 DEF Live
<1>5. IsFiniteSet(Live') /\ IsFiniteSet(running')
  BY <1>3, <1>4, FS_Subset
<1>6. IsFiniteSet(freePages')
  BY SchedulerAssumption, FS_Subset DEF TypeOK
<1>7. Cardinality(freePages') \in Nat
  BY <1>6, FS_CardinalityType
<1> DEFINE L == Live'
           B == both
<1>8. /\ f \in [L -> Nat] /\ g \in [B -> Nat] /\ L \subseteq B
      /\ IsFiniteSet(L) /\ IsFiniteSet(B)
      /\ \A u \in L : f[u] <= g[u]
  BY <1>1, <1>3, <1>4, <1>5
<1>9. RoomForAll' <=> Total(f) <= Cardinality(freePages')
  BY DEF RoomForAll, Live
<1> HIDE DEF f, g, L, B
<1>10. Total(f) <= Total(g)
  BY <1>8, TotalMono
<1>11. Total(f) \in Nat /\ Total(g) \in Nat
  BY <1>8, TotalType
<1>12. RoomForAll'
  BY <1>1, <1>7, <1>9, <1>10, <1>11
<1> QED BY <1>1, <1>5, <1>12 DEF NeverOutOfPages
(* A batch takes each of its requests some way into its prompt, the last   *)
(* one possibly not to the end.                                            *)
LEMMA DeviceLenBounds ==
    ASSUME TypeOK, Distinct(pending), PendingFits, NEW n \in 1 .. Len(pending),
           NEW i \in 1 .. n
    PROVE  /\ (CHOOSE j \in 1 .. n : pending[j] = pending[i]) = i
           /\ DeviceLen(i) \in Nat
           /\ cached[pending[i]] <= DeviceLen(i)
           /\ DeviceLen(i) <= InputLen[pending[i]]
           /\ DeviceLen(i) <= MaxDeviceLen(pending[i]) - 1
           /\ IsChunked(i) => DeviceLen(i) < InputLen[pending[i]]
<1> DEFINE u == pending[i]
<1>1. u \in Elems(pending) /\ (CHOOSE j \in 1 .. n : pending[j] = u) = i
  BY FirstRequests
<1> HIDE DEF u
<1>2. /\ u \in Uids /\ InputLen[u] <= MaxDeviceLen(u) - 1
  BY <1>1, PendingToCome
<1>3. /\ InputLen[u] \in Nat /\ cached[u] \in Nat /\ MaxDeviceLen(u) \in Nat
      /\ cached[u] < InputLen[u]
  BY <1>1, <1>2, RequestType DEF PendingFits
<1>4. CASE IsChunked(i)
  <2>1. TokenBudget(i) \in 1 .. (InputLen[u] - cached[u]) - 1
    BY <1>4 DEF IsChunked, PromptLeft, u
  <2>2. DeviceLen(i) = cached[u] + TokenBudget(i)
    BY <1>4 DEF DeviceLen, u
  <2> QED BY <1>1, <1>2, <1>3, <2>1, <2>2 DEF u
<1>5. CASE ~ IsChunked(i)
  <2>1. DeviceLen(i) = InputLen[u]
    BY <1>5 DEF DeviceLen, u
  <2> QED BY <1>1, <1>2, <1>3, <1>5, <2>1 DEF u
<1> QED BY <1>4, <1>5
LEMMA PrefillAdmission ==
    ASSUME IInv, AdmissionInv, SchedulePrefill
    PROVE  AdmissionInv'
<1>0. TypeOK /\ TypeOK'
  BY PrefillType DEF IInv
<1>1. PICK n \in 1 .. Len(pending) : n = NumAdmitted /\ LaunchPrefill(n)
  BY DEF SchedulePrefill
<1> DEFINE batch == PrefillBatch(n)
           reqs  == batch.reqs
           again == batch.chunked
           d == [u \in reqs |-> DeviceLen(CHOOSE i \in 1 .. n : pending[i] = u)]
<1>2. /\ QueuesHold /\ RunningCanDecode /\ Distinct(pending) /\ PendingFits
      /\ ChunkFirst /\ IsFiniteSet(running)
  BY DEF IInv, QueueInv, OnlySentRequests, AdmissionInv
<1>3. /\ batch \in Batch /\ again \subseteq reqs /\ reqs \subseteq Elems(pending)
      /\ reqs \subseteq Uids /\ IsFiniteSet(reqs)
      /\ reqs = {pending[i] : i \in 1 .. n}
      /\ again = IF IsChunked(n) THEN {pending[n]} ELSE {}
  BY <1>0, <1>2, PrefillBatchType, FirstRequests DEF Batch, PrefillBatch
<1>4. /\ outputLen' = outputLen /\ chunked' = (chunked \ reqs) \cup again
      /\ Launch(batch, d)
      /\ pending' = SubSeq(pending, FirstLeft(n), Len(pending))
  BY <1>1 DEF SchedulePrefill, LaunchPrefill
<1>5. Elems(pending)' = (Elems(pending) \ reqs) \cup again
  BY <1>1, PrefillQueue
<1>6. ASSUME NEW i \in 1 .. n
      PROVE  /\ d[pending[i]] = DeviceLen(i) /\ d[pending[i]] \in Nat
             /\ cached[pending[i]] <= d[pending[i]]
             /\ d[pending[i]] <= MaxDeviceLen(pending[i]) - 1
             /\ IsChunked(i) => d[pending[i]] < InputLen[pending[i]]
  <2>1. pending[i] \in reqs
    BY <1>3
  <2>2. d[pending[i]] = DeviceLen(CHOOSE j \in 1 .. n : pending[j] = pending[i])
    BY <2>1
  <2> HIDE DEF d
  <2> QED BY <1>0, <1>2, <2>2, DeviceLenBounds
<1>7. \A u \in reqs : d[u] \in Nat /\ cached[u] <= d[u] /\ d[u] <= MaxDeviceLen(u) - 1
  BY <1>3, <1>6
<1>8. Len(pending) \in Nat /\ DOMAIN pending = 1 .. Len(pending)
      /\ n \in Nat /\ n > 0 /\ 1 \in 1 .. n /\ n \in 1 .. n
  BY <1>0, LenProperties DEF TypeOK
<1>9. chunked \subseteq reqs
  BY <1>2, <1>3, <1>8 DEF ChunkFirst
<1>10. /\ running \in SUBSET Uids /\ running \cap reqs = {}
       /\ \A u \in running : PagesToCome(u) \in Nat
  BY <1>0, <1>2, <1>3, RunningToCome DEF QueuesHold, TypeOK
<1>11. Total([u \in running \cup reqs |-> PagesToCome(u)]) <= Cardinality(freePages)
  BY <1>1, PrefillRoom
<1>12. chunked' \subseteq running \cup reqs /\ running \subseteq running \cup reqs
  BY <1>3, <1>4, <1>9
<1> HIDE DEF batch, d
<1>13. /\ NeverOutOfPages' /\ IsFiniteSet(running') /\ RoomForAll'
       /\ \A u \in reqs : cached'[u] = d[u]
  BY <1>0, <1>2, <1>3, <1>4, <1>7, <1>10, <1>11, <1>12, LaunchAdmission
<1>14. \A u \in Uids \ reqs : cached'[u] = cached[u]
  BY <1>0, <1>2, <1>3, <1>4, RunningAfterLaunch
<1>15. PendingFits'
  <2> SUFFICES ASSUME NEW u \in Elems(pending)'
               PROVE  cached'[u] < InputLen[u] /\ outputLen'[u] > 0
    BY DEF PendingFits
  <2>1. u \in Elems(pending) /\ outputLen'[u] > 0 /\ u \in Uids
    BY <1>0, <1>2, <1>3, <1>4, <1>5, ElemsType DEF PendingFits, TypeOK
  <2>2. CASE u \in again
    <3>1. u = pending[n] /\ IsChunked(n)
      BY <1>3, <2>2
    <3>2. u \in reqs
      BY <1>3, <2>2
    <3>3. cached'[u] = d[u] /\ d[u] < InputLen[u]
      BY <1>6, <1>8, <1>13, <3>1, <3>2
    <3> QED BY <2>1, <3>3
  <2>3. CASE u \notin again
    <3>1. cached'[u] = cached[u]
      BY <1>5, <1>14, <2>1, <2>3
    <3> QED BY <1>2, <2>1, <3>1 DEF PendingFits
  <2> QED BY <2>2, <2>3
<1>16. ChunkFirst'
  <2> SUFFICES ASSUME NEW u \in again PROVE u = pending'[1]
    BY <1>4, <1>9 DEF ChunkFirst
  <2>1. u = pending[n] /\ IsChunked(n)
    BY <1>3
  <2>2. pending' = SubSeq(pending, n, Len(pending))
    BY <1>4, <2>1 DEF FirstLeft
  <2>3. \A i \in n .. Len(pending) : pending[i] \in Uids
    BY <1>0, <1>8, ElementOfSeq DEF TypeOK
  <2>4. \A i \in 1 .. Len(pending) - n + 1 :
           SubSeq(pending, n, Len(pending))[i] = pending[n + i - 1]
    BY <1>8, <2>3, SubSeqProperties
  <2>5. 1 \in 1 .. Len(pending) - n + 1 /\ n + 1 - 1 = n
    BY <1>8
  <2>6. SubSeq(pending, n, Len(pending))[1] = pending[n + 1 - 1]
    BY <2>4, <2>5
  <2> QED BY <2>1, <2>2, <2>5, <2>6
<1> QED BY <1>13, <1>15, <1>16 DEF AdmissionInv
LEMMA DecodeAdmission ==
    ASSUME IInv, AdmissionInv, ScheduleDecode
    PROVE  AdmissionInv'
<1> DEFINE batch == [reqs |-> running, chunked |-> {}]
           d == [u \in running |-> cached[u] + 1]
<1>0. TypeOK /\ TypeOK'
  BY NextType DEF IInv, Next, Loop
<1>1. /\ QueuesHold /\ RunningCanDecode /\ PendingFits
      /\ ChunkFirst /\ IsFiniteSet(running) /\ RoomForAll
  BY DEF IInv, QueueInv, AdmissionInv
<1>2. /\ batch \in Batch /\ batch.reqs = running /\ batch.chunked = {}
      /\ \A u \in running : d[u] = cached[u] + 1
  BY <1>0 DEF Batch, TypeOK
<1>3. /\ outputLen' = outputLen /\ chunked' = chunked /\ pending' = pending
      /\ Launch(batch, d)
  BY DEF ScheduleDecode
<1> HIDE DEF batch, d
<1>4. \A u \in batch.reqs : d[u] \in Nat /\ cached[u] <= d[u] /\ d[u] <= MaxDeviceLen(u) - 1
  <2> SUFFICES ASSUME NEW u \in running
               PROVE  d[u] \in Nat /\ cached[u] <= d[u] /\ d[u] <= MaxDeviceLen(u) - 1
    BY <1>2
  <2>1. u \in Uids /\ cached[u] + 1 <= MaxDeviceLen(u) - 1
    BY <1>0, <1>1, RunningToCome
  <2>2. cached[u] \in Nat
    BY <1>0, <2>1, RequestType
  <2> QED BY <1>2, <2>1, <2>2
<1>5. /\ chunked \in SUBSET Uids /\ chunked \cap batch.reqs = {}
      /\ chunked \subseteq Live /\ IsFiniteSet(chunked)
      /\ \A u \in chunked : PagesToCome(u) \in Nat
  <2>1. chunked \subseteq Live /\ chunked \in SUBSET Uids
    BY <1>0 DEF Live, TypeOK
  <2>2. IsFiniteSet(Live)
    BY <1>1, LiveFinite
  <2>3. IsFiniteSet(chunked)
    BY <2>1, <2>2, FS_Subset
  <2>4. chunked \cap running = {}
    BY <1>1 DEF QueuesHold
  <2> QED BY <1>0, <1>1, <1>2, <2>1, <2>3, <2>4, LiveToCome
<1>6. chunked \cup batch.reqs = running \cup chunked
  BY <1>2
<1>7. Total([u \in chunked \cup batch.reqs |-> PagesToCome(u)]) <= Cardinality(freePages)
  BY <1>1, <1>6 DEF RoomForAll
<1>8. /\ IsFiniteSet(batch.reqs) /\ running \subseteq chunked \cup batch.reqs
      /\ chunked' \subseteq chunked \cup batch.reqs
  BY <1>1, <1>2, <1>3
<1>9. NeverOutOfPages' /\ IsFiniteSet(running') /\ RoomForAll'
  BY <1>0, <1>2, <1>3, <1>4, <1>5, <1>7, <1>8, LaunchAdmission
<1>10. PendingFits'
  <2>1. Elems(pending)' = Elems(pending) /\ Elems(pending) \subseteq Uids
    BY <1>0, <1>3, ElemsType DEF Elems, TypeOK
  <2>2. \A u \in Elems(pending) : cached'[u] = cached[u]
    <3>1. \A u \in Elems(pending) : u \in Uids \ batch.reqs
      BY <1>1, <1>2, <2>1 DEF QueuesHold
    <3> QED BY <1>0, <1>1, <1>2, <1>3, <3>1, RunningAfterLaunch
  <2> QED BY <1>1, <1>3, <2>1, <2>2 DEF PendingFits
<1> QED BY <1>1, <1>3, <1>9, <1>10 DEF AdmissionInv, ChunkFirst
LEMMA NextAdmission ==
    ASSUME IInv, PageInv, AdmissionInv, [Next]_vars
    PROVE  AdmissionInv'
  BY UserMsgAdmission, AbortAdmission, QuietAdmission, RebuildAdmission,
     PrefillAdmission, DecodeAdmission
  DEF Next, Receive, Loop, Blocked
-----------------------------------------------------------------------------
(* A batch the adder and the decode manager build never finds the free     *)
(* list short: for every page size, prompt and output length, prefill      *)
(* budget and pool, however requests arrive, are chunked, aborted or       *)
(* finish, the assertion of _allocate ("Eviction did not free enough       *)
(* space") holds.  What was promised to a request when it was admitted     *)
(* stays free until it asks for it.                                        *)
THEOREM NeverOutOfPagesHolds == Spec => []NeverOutOfPages
<1>1. Spec => []PageInv
  BY InitPages, NextPages, InvariantHolds, PTL DEF Spec
<1>2. Spec => []AdmissionInv
  BY <1>1, InitAdmission, NextAdmission, InvariantHolds, PTL DEF Spec
<1>3. AdmissionInv => NeverOutOfPages
  BY DEF AdmissionInv
<1> QED BY <1>2, <1>3, PTL

-----------------------------------------------------------------------------
(***************************************************************************)
(* The output budget in the plain loop.  LengthInv is inductive relative   *)
(* to IInv and AdmissionInv: between two drains nothing but progress and   *)
(* the tokens sent for it moves, and they move together.                   *)
(***************************************************************************)

(* What one more message does to the count of tokens.                      *)
Told(s) == {i \in DOMAIN s : IsToken(s[i])}
Unended(s) == \A i \in DOMAIN s : s[i] # "length"

LEMMA ToldAppend ==
    ASSUME NEW s \in Seq(Kinds), NEW k \in Kinds
    PROVE  /\ IsFiniteSet(Told(s)) /\ Cardinality(Told(s)) \in Nat
           /\ Told(Append(s, k)) = IF IsToken(k) THEN Told(s) \cup {Len(s) + 1}
                                                 ELSE Told(s)
           /\ Cardinality(Told(Append(s, k)))
                = IF IsToken(k) THEN Cardinality(Told(s)) + 1
                                ELSE Cardinality(Told(s))
           /\ Unended(Append(s, k)) <=> Unended(s) /\ k # "length"
  <1>1. Len(s) \in Nat /\ DOMAIN s = 1 .. Len(s)
    BY LenProperties
  <1>2. PICK n \in Nat : n = Len(s)
    BY <1>1
  <1>3. PICK t : t = Append(s, k)
    OBVIOUS
  <1>4. /\ DOMAIN t = 1 .. n + 1 /\ t[n + 1] = k
        /\ \A i \in 1 .. n : t[i] = s[i]
    <2>1. /\ Append(s, k) \in Seq(Kinds) /\ Len(Append(s, k)) = Len(s) + 1
          /\ Append(s, k)[Len(s) + 1] = k
          /\ \A i \in 1 .. Len(s) : Append(s, k)[i] = s[i]
      BY AppendProperties
    <2> QED BY <1>2, <1>3, <2>1, LenProperties
  <1>5. IsFiniteSet(Told(s)) /\ Cardinality(Told(s)) \in Nat
    <2>1. IsFiniteSet(1 .. n)
      BY FS_Interval
    <2>2. Told(s) \subseteq 1 .. n
      BY <1>1, <1>2 DEF Told
    <2>3. IsFiniteSet(Told(s))
      BY <2>1, <2>2, FS_Subset
    <2> QED BY <2>3, FS_CardinalityType
  <1>6. (1 .. n + 1) = (1 .. n) \cup {n + 1} /\ n + 1 \notin 1 .. n
    OBVIOUS
  <1>7. Told(t) = IF IsToken(k) THEN Told(s) \cup {n + 1} ELSE Told(s)
    BY <1>1, <1>2, <1>4, <1>6 DEF Told
  <1>8. n + 1 \notin Told(s)
    BY <1>1, <1>2, <1>6 DEF Told
  <1>9. Cardinality(Told(s) \cup {n + 1}) = Cardinality(Told(s)) + 1
    BY <1>5, <1>8, FS_AddElement
  <1>10. Unended(t) <=> Unended(s) /\ k # "length"
    BY <1>1, <1>2, <1>4, <1>6 DEF Unended
  <1> QED BY <1>2, <1>3, <1>5, <1>7, <1>9, <1>10

LEMMA HeardAs ==
    ASSUME NEW u \in Uids
    PROVE  /\ Delivered(u) = Cardinality(Told(reply[u]))
           /\ NotEnded(u) <=> Unended(reply[u])
           /\ Unheard(u) <=> Told(reply[u]) = {}
  BY DEF Delivered, Told, IsToken, NotEnded, Unended, Unheard

LEMMA HeardAsNext ==
    ASSUME NEW u \in Uids
    PROVE  /\ Delivered(u)' = Cardinality(Told(reply'[u]))
           /\ NotEnded(u)' <=> Unended(reply'[u])
           /\ Unheard(u)' <=> Told(reply'[u]) = {}
  BY DEF Delivered, Told, IsToken, NotEnded, Unended, Unheard

LEMMA HeardNone ==
    ASSUME NEW u \in Uids, Unheard(u)
    PROVE  Delivered(u) = 0 /\ NotEnded(u)
  <1>1. Delivered(u) = 0
    BY HeardAs, FS_EmptySet
  <1> QED BY <1>1 DEF Unheard, NotEnded, IsToken

LEMMA HeardSame ==
    ASSUME NEW u \in Uids, reply'[u] = reply[u]
    PROVE  /\ Delivered(u)' = Delivered(u)
           /\ NotEnded(u)' <=> NotEnded(u)
           /\ Unheard(u)' <=> Unheard(u)
  BY HeardAs, HeardAsNext

LEMMA HeardMore ==
    ASSUME TypeOK, NEW u \in Uids, NEW k \in Kinds,
           reply'[u] = Append(reply[u], k)
    PROVE  /\ Delivered(u) \in Nat
           /\ Delivered(u)' = IF IsToken(k) THEN Delivered(u) + 1 ELSE Delivered(u)
           /\ NotEnded(u)' <=> NotEnded(u) /\ k # "length"
           /\ ~ IsToken(k) => (Unheard(u)' <=> Unheard(u))
  <1>1. reply[u] \in Seq(Kinds)
    BY DEF TypeOK
  <1>2. PICK s \in Seq(Kinds) : s = reply[u]
    BY <1>1
  <1>3. reply'[u] = Append(s, k)
    BY <1>2
  <1>4. /\ Cardinality(Told(s)) \in Nat
        /\ Told(Append(s, k)) = IF IsToken(k) THEN Told(s) \cup {Len(s) + 1}
                                              ELSE Told(s)
        /\ Cardinality(Told(Append(s, k)))
             = IF IsToken(k) THEN Cardinality(Told(s)) + 1
                             ELSE Cardinality(Told(s))
        /\ Unended(Append(s, k)) <=> Unended(s) /\ k # "length"
    BY ToldAppend
  <1> QED BY <1>2, <1>3, <1>4, HeardAs, HeardAsNext

(* Messages that carry no token, and steps that launch and drain nothing.  *)
Tokenless(u) ==
    \/ reply'[u] = reply[u]
    \/ \E k \in Kinds : ~ IsToken(k) /\ reply'[u] = Append(reply[u], k)

LEMMA TokenlessSame ==
    ASSUME TypeOK, NEW u \in Uids, Tokenless(u)
    PROVE  /\ Delivered(u)' = Delivered(u)
           /\ NotEnded(u)' <=> NotEnded(u)
           /\ Unheard(u)' <=> Unheard(u)
  <1>1. CASE reply'[u] = reply[u]
    BY <1>1, HeardSame
  <1>2. ASSUME NEW k \in Kinds, ~ IsToken(k), reply'[u] = Append(reply[u], k)
        PROVE  /\ Delivered(u)' = Delivered(u)
               /\ NotEnded(u)' <=> NotEnded(u)
               /\ Unheard(u)' <=> Unheard(u)
    <2>1. k # "length"
      BY <1>2 DEF IsToken
    <2> QED BY <1>2, <2>1, HeardMore
  <1> QED BY <1>1, <1>2 DEF Tokenless

LEMMA LengthsMean ==
    ASSUME NEW u \in Uids
    PROVE  (\E i \in DOMAIN reply[u] : reply[u][i] = "length") <=> ~ NotEnded(u)
  BY DEF NotEnded

LEMMA QuietLengths ==
    ASSUME TypeOK, LengthInv, \A u \in Uids : Tokenless(u),
           running \subseteq Uids, Undrained \subseteq sent,
           running' \subseteq running, Undrained' = Undrained,
           sent \subseteq sent', Elems(pending) \subseteq Uids,
           Elems(pending)' \subseteq Elems(pending) \cup (Uids \ sent),
           cached' = cached, \A u \in sent : outputLen'[u] = outputLen[u]
    PROVE  LengthInv'
  <1>1. \A u \in Uids : /\ Delivered(u)' = Delivered(u)
                        /\ NotEnded(u)' <=> NotEnded(u)
                        /\ Unheard(u)' <=> Unheard(u)
    BY TokenlessSame
  <1>2. sent \subseteq Uids
    BY DEF TypeOK
  <1>3. WaitingUnheard'
    BY <1>1 DEF LengthInv, WaitingUnheard
  <1>4. RunningInStep'
    BY <1>1 DEF LengthInv, RunningInStep, InStep
  <1>5. BatchInStep'
    BY <1>1, <1>2 DEF LengthInv, BatchInStep, InStep, MaxDeviceLen
  <1>6. ASSUME NEW u \in Uids, ~ NotEnded(u)' PROVE Delivered(u)' = outputLen'[u]
    <2>1. ~ NotEnded(u)
      BY <1>1, <1>6
    <2>2. u \in sent
      BY <2>1, HeardNone DEF LengthInv, WaitingUnheard
    <2>3. Delivered(u) = outputLen[u]
      BY <2>1, LengthsMean DEF LengthInv, LengthMeansBudgetSpent
    <2> QED BY <1>1, <2>2, <2>3
  <1>7. LengthMeansBudgetSpent'
    BY <1>6 DEF LengthMeansBudgetSpent, NotEnded
  <1> QED BY <1>3, <1>4, <1>5, <1>7 DEF LengthInv
LEMMA QueuesSent ==
    ASSUME IInv
    PROVE  /\ TypeOK /\ running \subseteq Uids /\ sent \subseteq Uids
           /\ Elems(pending) \subseteq Uids /\ Elems(pending) \subseteq sent
           /\ Undrained \subseteq sent
  BY ElemsType DEF IInv, TypeOK, QueueInv, OnlySentRequests, Undrained

LEMMA UserMsgLengths ==
    ASSUME IInv, LengthInv, NEW u \in Uids, UserMsg(u)
    PROVE  LengthInv'
  <1>1. /\ TypeOK /\ running \subseteq Uids /\ sent \subseteq Uids
        /\ Elems(pending) \subseteq Uids /\ Undrained \subseteq sent
    BY QueuesSent
  <1>2. /\ phase = "recv" /\ phase' = "recv" /\ u \notin sent
        /\ sent' = sent \cup {u} /\ running' = running /\ cached' = cached
    BY DEF UserMsg
  <1>3. Undrained = {} /\ Undrained' = {}
    BY <1>2 DEF Undrained
  <1>4. \A v \in Uids : Tokenless(v)
    <2>1. CASE RejectRequest(u)
      <3>1. Send({u}, "error") /\ {u} \in SUBSET Uids /\ "error" \in Kinds
        BY <2>1 DEF RejectRequest, Kinds
      <3>2. /\ \A v \in Uids \ {u} : reply'[v] = reply[v]
            /\ \A v \in {u} : reply'[v] = Append(reply[v], "error")
        BY ONLY <1>1, <3>1, SendEffect
      <3> QED BY <3>1, <3>2 DEF Tokenless, IsToken
    <2>2. CASE reply' = reply
      BY <2>2 DEF Tokenless
    <2> QED BY <2>1, <2>2 DEF UserMsg, DropAborted, AddOneReq
  <1>5. Elems(pending)' \subseteq Elems(pending) \cup (Uids \ sent)
    <2>1. CASE AddOneReq(u)
      <3>1. pending' = Append(pending, u) /\ pending \in Seq(Uids)
        BY <1>1, <2>1 DEF AddOneReq, TypeOK
      <3>2. Elems(Append(pending, u)) = Elems(pending) \cup {u}
        BY <3>1, AppendElems
      <3>3. Elems(pending)' = Elems(Append(pending, u))
        BY <3>1 DEF Elems
      <3> QED BY <1>2, <3>2, <3>3
    <2>2. CASE pending' = pending
      BY <2>2 DEF Elems
    <2> QED BY <2>1, <2>2 DEF UserMsg, DropAborted, RejectRequest
  <1>6. \A v \in sent : outputLen'[v] = outputLen[v]
    BY <1>1, <1>2 DEF UserMsg, DropAborted, RejectRequest, AddOneReq, TypeOK
  <1> QED BY <1>1, <1>2, <1>3, <1>4, <1>5, <1>6, QuietLengths

LEMMA AbortLengths ==
    ASSUME IInv, LengthInv, NEW u \in Uids, AbortBackendMsg(u)
    PROVE  LengthInv'
  <1>1. /\ TypeOK /\ running \subseteq Uids /\ sent \subseteq Uids
        /\ Elems(pending) \subseteq Uids /\ Undrained \subseteq sent
    BY QueuesSent
  <1>2. /\ phase = "recv" /\ phase' = "recv" /\ sent' = sent
        /\ running' \subseteq running /\ cached' = cached /\ outputLen' = outputLen
        /\ reply' = reply /\ pending' = Without(pending, u)
    BY DEF AbortBackendMsg, reqVars
  <1>3. Undrained = {} /\ Undrained' = {}
    BY <1>2 DEF Undrained
  <1>4. \A v \in Uids : Tokenless(v)
    BY <1>2 DEF Tokenless
  <1>5. Elems(pending)' \subseteq Elems(pending)
    <2>1. Elems(pending)' = Elems(Without(pending, u))
      BY <1>2 DEF Elems
    <2>2. pending \in Seq(Uids)
      BY <1>1 DEF TypeOK
    <2> QED BY <2>1, <2>2, WithoutElems
  <1> QED BY <1>1, <1>2, <1>3, <1>4, <1>5, QuietLengths

LEMMA IdleLengths ==
    ASSUME IInv, LengthInv,
           \/ \E b \in RebuildIds : CacheRebuildMsg(b)
           \/ EndReceive \/ ExecutePendingRebuild \/ ScheduleNothing
           \/ UNCHANGED vars
    PROVE  LengthInv'
  <1>1. /\ TypeOK /\ running \subseteq Uids /\ sent \subseteq Uids
        /\ Elems(pending) \subseteq Uids /\ Undrained \subseteq sent
    BY QueuesSent
  <1>2. UNCHANGED <<sent, reply, pending, running, ongoing, outputLen, cached>>
    BY DEF CacheRebuildMsg, EndReceive, ExecutePendingRebuild, ScheduleNothing,
           vars, msgVars, queueVars, batchVars, reqVars
  <1>3. Undrained' = Undrained
    <2>1. CASE phase' = phase
      BY <1>2, <2>1 DEF Undrained
    <2>2. CASE phase' # phase
      <3>1. phase \in {"recv", "run"}
        BY <2>2 DEF CacheRebuildMsg, EndReceive, ExecutePendingRebuild,
                    ScheduleNothing, vars
      <3>2. ongoing = NoBatch
        BY <3>1 DEF IInv, QueueInv, BatchesByPhase
      <3> QED BY <1>2, <3>2 DEF Undrained, NoBatch
    <2> QED BY <2>1, <2>2
  <1>4. \A v \in Uids : Tokenless(v)
    BY <1>2 DEF Tokenless
  <1>5. Elems(pending)' = Elems(pending)
    BY <1>2 DEF Elems
  <1> QED BY <1>1, <1>2, <1>3, <1>4, <1>5, QuietLengths

LEMMA FlushLengths ==
    ASSUME IInv, LengthInv, FlushAbortAcks
    PROVE  LengthInv'
  <1>1. /\ TypeOK /\ running \subseteq Uids /\ sent \subseteq Uids
        /\ Elems(pending) \subseteq Uids /\ Undrained \subseteq sent
    BY QueuesSent
  <1>2. /\ phase = "flush" /\ phase' = "recv" /\ Send(acks, "ack")
        /\ UNCHANGED <<sent, pending, running, outputLen, cached>>
    BY DEF FlushAbortAcks, queueVars, reqVars
  <1>3. Undrained = {} /\ Undrained' = {}
    BY <1>2 DEF Undrained
  <1>4. \A v \in Uids : Tokenless(v)
    <2>1. acks \in SUBSET Uids /\ "ack" \in Kinds
      BY <1>1 DEF TypeOK, Kinds
    <2>2. /\ \A v \in Uids \ acks : reply'[v] = reply[v]
          /\ \A v \in acks : reply'[v] = Append(reply[v], "ack")
      BY ONLY <1>1, <1>2, <2>1, SendEffect
    <2> QED BY <2>1, <2>2 DEF Tokenless, IsToken
  <1>5. Elems(pending)' = Elems(pending)
    BY <1>2 DEF Elems
  <1> QED BY <1>1, <1>2, <1>3, <1>4, <1>5, QuietLengths

(* A launch moves the requests of the batch on, and tells them nothing.    *)
LEMMA LaunchLengths ==
    ASSUME IInv, LengthInv, NEW batch \in Batch, NEW d, Launch(batch, d),
           phase' # "oom", \A u \in Uids : Tokenless(u),
           batch.chunked \cap running = {}, phase = "run",
           \A u \in batch.reqs \ batch.chunked :
               /\ d[u] \in Nat /\ d[u] < MaxDeviceLen(u)
               /\ NotEnded(u) /\ Delivered(u) + InputLen[u] = d[u],
           sent' = sent, outputLen' = outputLen,
           Elems(pending)' \subseteq Elems(pending)
    PROVE  LengthInv'
  <1>1. /\ TypeOK /\ running \subseteq Uids /\ sent \subseteq Uids
        /\ Elems(pending) \subseteq Uids /\ RunningCanDecode
        /\ batch.reqs \subseteq Uids
    BY QueuesSent DEF IInv, QueueInv, Batch
  <1>2. \A u \in Uids : /\ Delivered(u)' = Delivered(u)
                        /\ NotEnded(u)' <=> NotEnded(u)
                        /\ Unheard(u)' <=> Unheard(u)
    BY <1>1, TokenlessSame
  <1>3. /\ ongoing' = batch /\ phase' = "drain"
        /\ running' \subseteq running \cup (batch.reqs \ batch.chunked)
        /\ \A u \in Uids \ batch.reqs : cached'[u] = cached[u]
    BY <1>1, RunningAfterLaunch
  <1>4. \A u \in batch.reqs : cached'[u] = d[u]
    BY <1>1, <1>3 DEF Launch
  <1>5. Undrained = {} /\ Undrained' = batch.reqs \ batch.chunked
    BY <1>3 DEF Undrained
  <1>6. WaitingUnheard'
    BY <1>1, <1>2 DEF LengthInv, WaitingUnheard
  <1>7. RunningInStep'
    <2> SUFFICES ASSUME NEW u \in running' \ Undrained'
                 PROVE  InStep(u, 1)'
      BY DEF RunningInStep
    <2>1. u \in running /\ u \notin batch.reqs /\ u \in Uids
      BY <1>1, <1>3, <1>5
    <2>2. InStep(u, 1)
      BY <1>5, <2>1 DEF LengthInv, RunningInStep
    <2> QED BY <1>2, <1>3, <2>1, <2>2 DEF InStep
  <1>8. BatchInStep'
    <2> SUFFICES ASSUME NEW u \in batch.reqs \ batch.chunked
                 PROVE  InStep(u, 0)' /\ (cached[u] < MaxDeviceLen(u))'
      BY <1>5 DEF BatchInStep
    <2>1. u \in Uids /\ cached'[u] = d[u]
      BY <1>1, <1>4
    <2>2. (cached[u] < MaxDeviceLen(u))'
      BY <2>1 DEF MaxDeviceLen
    <2>3. d[u] + 0 = d[u]
      OBVIOUS
    <2> QED BY <1>2, <2>1, <2>2, <2>3 DEF InStep
  <1>9. LengthMeansBudgetSpent'
    BY <1>2 DEF LengthInv, LengthMeansBudgetSpent, NotEnded
  <1> QED BY <1>6, <1>7, <1>8, <1>9 DEF LengthInv

(* A chunk takes what is left of the pass's budget, so no request of the   *)
(* batch follows it.                                                       *)
LEMMA ChunkIsLast ==
    ASSUME TypeOK, PendingFits, NEW n \in 1 .. Len(pending), n = NumAdmitted,
           NEW i \in 1 .. n, i # n
    PROVE  ~ IsChunked(i)
  <1>1. Len(pending) \in Nat /\ DOMAIN pending = 1 .. Len(pending)
    BY LenProperties DEF TypeOK
  <1>2. PICK m \in Nat : m = n - 1 /\ i \in 1 .. m /\ i - 1 \in Nat
    <2>1. n - 1 \in Nat /\ i \in 1 .. (n - 1) /\ i - 1 \in Nat
      BY <1>1
    <2> QED BY <2>1
  <1> DEFINE all    == [j \in 1 .. m |-> PromptLeft(pending[j])]
             upto   == [j \in 1 .. i |-> PromptLeft(pending[j])]
             before == [j \in 1 .. (i - 1) |-> PromptLeft(pending[j])]
             at     == [j \in {i} |-> PromptLeft(pending[j])]
  <1>3. \A j \in 1 .. n : PromptLeft(pending[j]) \in Nat
    <2>1. \A j \in 1 .. n : pending[j] \in Elems(pending)
      BY <1>1 DEF Elems
    <2> QED BY <2>1, PendingToCome
  <1>4. /\ (1 .. i - 1) \cup {i} = 1 .. i /\ (1 .. i - 1) \cap {i} = {}
        /\ 1 .. i \subseteq 1 .. m /\ 1 .. m \subseteq 1 .. n
    BY <1>2
  <1>5. /\ IsFiniteSet(1 .. i - 1) /\ IsFiniteSet({i}) /\ IsFiniteSet(1 .. m)
        /\ IsFiniteSet(1 .. i)
    <2>1. 1 \in Int /\ i - 1 \in Int /\ m \in Int /\ i \in Int
      BY <1>2
    <2>2. IsFiniteSet({i})
      BY FS_Singleton
    <2> QED BY <2>1, <2>2, FS_Interval
  <1>6. /\ all \in [1 .. m -> Nat] /\ upto \in [1 .. i -> Nat]
        /\ before \in [1 .. i - 1 -> Nat] /\ at \in [{i} -> Nat]
    BY <1>3, <1>4
  <1>7. at[i] = PromptLeft(pending[i])
    OBVIOUS
  <1>8. Joins(upto, before, 1 .. i - 1, at, {i})
    BY <1>4, <1>6 DEF Joins
  <1>9. \A j \in 1 .. i : upto[j] <= all[j]
    <2>1. \A j \in 1 .. i : upto[j] = all[j] /\ upto[j] \in Nat
      BY <1>4, <1>6
    <2> QED BY <2>1
  <1>10. TokenBudget(n) = PrefillBudget - Total(all)
    BY <1>2 DEF TokenBudget
  <1>11. TokenBudget(i) = PrefillBudget - Total(before)
    BY DEF TokenBudget
  <1> HIDE DEF all, upto, before, at
  <1>12. Total(upto) = Total(before) + Total(at)
    BY <1>4, <1>5, <1>8, TotalUnion
  <1>13. Total(at) = PromptLeft(pending[i])
    BY <1>6, <1>7, TotalOne
  <1>14. Total(upto) <= Total(all)
    BY <1>4, <1>5, <1>6, <1>9, TotalMono
  <1>15. Total(all) \in Nat /\ Total(before) \in Nat /\ Total(upto) \in Nat
    BY <1>5, <1>6, TotalType
  <1>16. TokenBudget(n) > 0
    BY AdmittedAll DEF TryAddOne
  <1>17. PrefillBudget \in Nat
    BY SchedulerAssumption
  <1>18. PICK p \in Nat : p = PromptLeft(pending[i])
    BY <1>3
  <1>19. PrefillBudget - Total(before) > p
    BY <1>10, <1>12, <1>13, <1>14, <1>15, <1>16, <1>17, <1>18
  <1>20. ~ (PrefillBudget - Total(before) \in 1 .. p - 1)
    BY <1>15, <1>17, <1>18, <1>19
  <1> QED BY <1>11, <1>18, <1>20 DEF IsChunked

LEMMA PrefillLengths ==
    ASSUME IInv, AdmissionInv, phase' # "oom", LengthInv, SchedulePrefill
    PROVE  LengthInv'
  <1>1. PICK n \in 1 .. Len(pending) : n = NumAdmitted /\ LaunchPrefill(n)
    BY DEF SchedulePrefill
  <1> DEFINE batch == PrefillBatch(n)
             reqs  == batch.reqs
             again == batch.chunked
             d == [u \in reqs |-> DeviceLen(CHOOSE i \in 1 .. n : pending[i] = u)]
  <1>2. /\ TypeOK /\ PendingFits /\ QueuesHold /\ Distinct(pending)
        /\ Elems(pending) \subseteq Uids
    BY QueuesSent DEF IInv, QueueInv, OnlySentRequests, AdmissionInv
  <1>3. /\ batch \in Batch /\ again \subseteq reqs /\ reqs \subseteq Elems(pending)
        /\ Fresh(n) \in SUBSET Uids
        /\ reqs = {pending[i] : i \in 1 .. n}
        /\ again = IF IsChunked(n) THEN {pending[n]} ELSE {}
    BY <1>2, PrefillBatchType, FirstRequests DEF PrefillBatch
  <1>4. /\ phase = "run" /\ sent' = sent /\ outputLen' = outputLen
        /\ Launch(batch, d) /\ Send(Fresh(n), "admit")
    BY <1>1 DEF SchedulePrefill, LaunchPrefill, msgVars
  <1>5. Elems(pending)' \subseteq Elems(pending)
    BY <1>1, <1>3, PrefillQueue
  <1>6. \A u \in Uids : Tokenless(u)
    <2>1. "admit" \in Kinds
      BY DEF Kinds
    <2>2. /\ \A v \in Uids \ Fresh(n) : reply'[v] = reply[v]
          /\ \A v \in Fresh(n) : reply'[v] = Append(reply[v], "admit")
      BY ONLY <1>2, <1>3, <1>4, <2>1, SendEffect
    <2> QED BY <2>1, <2>2 DEF Tokenless, IsToken
  <1>7. again \cap running = {}
    BY <1>2, <1>3 DEF QueuesHold
  <1>8. ASSUME NEW u \in reqs \ again
        PROVE  /\ d[u] \in Nat /\ d[u] < MaxDeviceLen(u)
               /\ NotEnded(u) /\ Delivered(u) + InputLen[u] = d[u]
    <2>1. PICK i \in 1 .. n : u = pending[i]
      BY <1>3
    <2>2. ~ IsChunked(i)
      <3>1. CASE i = n
        BY <1>3, <2>1, <3>1
      <3>2. CASE i # n
        BY <1>1, <1>2, <3>2, ChunkIsLast
      <3> QED BY <3>1, <3>2
    <2>3. d[u] = InputLen[u]
      <3>1. (CHOOSE j \in 1 .. n : pending[j] = pending[i]) = i
        BY <1>2, DeviceLenBounds
      <3>2. d[u] = DeviceLen(i)
        BY <2>1, <3>1
      <3> QED BY <2>1, <2>2, <3>2 DEF DeviceLen
    <2>4. u \in Elems(pending) /\ u \in Uids
      BY <1>2, <1>3
    <2>5. /\ InputLen[u] \in Nat /\ MaxDeviceLen(u) \in Nat
          /\ InputLen[u] <= MaxDeviceLen(u) - 1
      BY <1>2, <2>4, RequestType, PendingToCome
    <2>6. Delivered(u) = 0 /\ NotEnded(u)
      BY <2>4, HeardNone DEF LengthInv, WaitingUnheard
    <2> QED BY <2>3, <2>5, <2>6
  <1> HIDE DEF batch, d
  <1> QED BY <1>3, <1>4, <1>5, <1>6, <1>7, <1>8, LaunchLengths

LEMMA DecodeLengths ==
    ASSUME IInv, phase' # "oom", LengthInv, ScheduleDecode
    PROVE  LengthInv'
  <1> DEFINE batch == [reqs |-> running, chunked |-> {}]
             d == [u \in running |-> cached[u] + 1]
  <1>1. /\ TypeOK /\ RunningCanDecode /\ running \subseteq Uids
    BY QueuesSent DEF IInv, QueueInv
  <1>2. /\ batch \in Batch /\ batch.reqs = running /\ batch.chunked = {}
        /\ \A u \in running : d[u] = cached[u] + 1
    BY <1>1 DEF Batch
  <1>3. /\ phase = "run" /\ Launch(batch, d) /\ sent' = sent
        /\ outputLen' = outputLen /\ reply' = reply /\ pending' = pending
    BY DEF ScheduleDecode, msgVars
  <1>4. \A u \in Uids : Tokenless(u)
    BY <1>3 DEF Tokenless
  <1>5. Elems(pending)' = Elems(pending)
    BY <1>3 DEF Elems
  <1> HIDE DEF batch, d
  <1>6. ASSUME NEW u \in running
        PROVE  /\ d[u] \in Nat /\ d[u] < MaxDeviceLen(u)
               /\ NotEnded(u) /\ Delivered(u) + InputLen[u] = d[u]
    <2>1. cached[u] \in Nat /\ MaxDeviceLen(u) \in Nat
      BY <1>1, RequestType
    <2>2. cached[u] + 1 <= MaxDeviceLen(u) - 1
      BY <1>1, RunningToCome
    <2>3. InStep(u, 1)
      BY <1>3 DEF LengthInv, RunningInStep, Undrained
    <2> QED BY <1>2, <2>1, <2>2, <2>3 DEF InStep
  <1> QED BY <1>2, <1>3, <1>4, <1>5, <1>6, LaunchLengths

(* Draining the batch just launched: every request of it but a chunk gets  *)
(* its token, and one that cannot go on has had them all.                  *)
LEMMA ProcessLengths ==
    ASSUME ~ Overlap, IInv, LengthInv, ProcessLastData
    PROVE  LengthInv'
  <1>1. /\ TypeOK /\ running \subseteq Uids /\ sent \subseteq Uids
        /\ Elems(pending) \subseteq Uids /\ ongoing.reqs \subseteq Uids
        /\ ongoing.reqs \subseteq Held /\ running \cap Elems(pending) = {}
    BY QueuesSent DEF IInv, QueueInv, TypeOK, Batch, InFlightHeld,
       ProcessLastData, QueuesHold, Held
  <1>2. /\ phase = "drain" /\ phase' = "flush" /\ Drained = ongoing
        /\ UNCHANGED <<sent, pending, outputLen, cached>>
    BY DEF ProcessLastData, msgVars, reqVars, Drained
  <1>3. Undrained = ongoing.reqs \ ongoing.chunked /\ Undrained' = {}
    BY <1>2 DEF Undrained
  <1>4. ongoing.chunked \cap running = {}
    <2>1. \A u \in ongoing.reqs \cap ongoing.chunked : u \in chunked
      BY <1>1, <1>2 DEF IInv, QueueInv, NothingLeftBehind, WillContinue, Held
    <2>2. ongoing.chunked \subseteq ongoing.reqs /\ chunked \subseteq Elems(pending)
      BY DEF IInv, QueueInv, BatchShape, QueuesHold
    <2> QED BY <1>1, <2>1, <2>2
  <1>5. Elems(pending)' = Elems(pending) /\ Undrained \cap Elems(pending) = {}
        /\ Undrained \subseteq sent
    BY <1>2, <1>3, QueuesSent DEF Elems, IInv, QueueInv, BatchShape
  <1>6. CASE Drained = NoBatch
    <2>1. reply' = reply /\ running' = running
      BY <1>6 DEF ProcessLastData
    <2>2. Undrained = {}
      BY <1>2, <1>3, <1>6 DEF NoBatch
    <2>3. \A u \in Uids : Tokenless(u)
      BY <2>1 DEF Tokenless
    <2> QED BY <1>1, <1>2, <1>3, <1>5, <2>1, <2>2, <2>3, QuietLengths
  <1>7. CASE Drained # NoBatch
    <2>1. Cut(ongoing) = {} /\ Sampled(ongoing) = Undrained
      <3>1. aborted \cap ongoing.reqs = {}
        BY DEF IInv, QueueInv, AbortedGone
      <3>2. finishedReqs \cap ongoing.reqs = {}
        BY <1>1 DEF IInv, QueueInv, FinishedGone, Held
      <3> QED BY <1>3, <3>1, <3>2 DEF Cut, Sampled
    <2> DEFINE sampled == Sampled(Drained)
               spent   == {u \in sampled : ~ CanDecode(u, cached[u])}
               cut     == Cut(Drained) \ Drained.chunked
               Kind(ends, u) == IF u \in ends THEN "stop"
                                ELSE IF u \in spent THEN "length" ELSE "tok"
    <2>2. PICK ends \in SUBSET sampled :
            /\ reply' = [u \in Uids |-> IF u \notin sampled THEN reply[u]
                                        ELSE Append(reply[u], Kind(ends, u))]
            /\ running' = running \ (ends \cup spent \cup cut)
      BY <1>7 DEF ProcessLastData
    <2>3. /\ running' \subseteq running \ spent
          /\ \A u \in Uids \ Undrained : reply'[u] = reply[u]
          /\ \A u \in Undrained : /\ u \in Uids
                                  /\ reply'[u] = Append(reply[u], Kind(ends, u))
      <3>1. sampled = Undrained
        BY <1>2, <2>1
      <3> HIDE DEF sampled, Kind, cut
      <3> QED BY <1>1, <1>3, <2>2, <3>1
    <2>4. ASSUME NEW u \in Uids \ Undrained
          PROVE  /\ Delivered(u)' = Delivered(u)
                 /\ NotEnded(u)' <=> NotEnded(u)
                 /\ Unheard(u)' <=> Unheard(u)
      BY <2>3, HeardSame
    <2>5. ASSUME NEW u \in Undrained
          PROVE  /\ NotEnded(u) /\ Delivered(u) \in Nat
                 /\ Delivered(u) + InputLen[u] = cached[u]
                 /\ cached[u] < MaxDeviceLen(u)
                 /\ Delivered(u)' = Delivered(u) + 1
                 /\ Kind(ends, u) = "length" => u \in spent
                 /\ NotEnded(u)' <=> Kind(ends, u) # "length"
      <3>1. Kind(ends, u) \in Kinds /\ IsToken(Kind(ends, u))
        BY DEF Kinds, IsToken
      <3>2. PICK k \in Kinds : k = Kind(ends, u) /\ IsToken(k)
        BY <3>1
      <3>3. u \in Uids /\ reply'[u] = Append(reply[u], k)
        BY <2>3, <3>2
      <3>4. /\ InStep(u, 0) /\ cached[u] < MaxDeviceLen(u)
        BY DEF LengthInv, BatchInStep
      <3>5. /\ Delivered(u) \in Nat /\ Delivered(u)' = Delivered(u) + 1
            /\ NotEnded(u)' <=> NotEnded(u) /\ k # "length"
        BY <1>1, <3>2, <3>3, HeardMore
      <3>6. cached[u] + 0 = cached[u]
        BY <1>1, <3>3, RequestType
      <3>7. Kind(ends, u) = "length" => u \in spent
        OBVIOUS
      <3> HIDE DEF Kind
      <3> QED BY <3>2, <3>4, <3>5, <3>6, <3>7 DEF InStep
    <2> HIDE DEF Kind
    <2>6. WaitingUnheard'
      <3> SUFFICES ASSUME NEW u \in (Uids \ sent) \cup Elems(pending)
                   PROVE  Unheard(u)'
        BY <1>2, <1>5 DEF WaitingUnheard
      <3>1. u \in Uids \ Undrained /\ Unheard(u)
        BY <1>1, <1>5 DEF LengthInv, WaitingUnheard
      <3> QED BY <2>4, <3>1
    <2>7. RunningInStep'
      <3> SUFFICES ASSUME NEW u \in running' PROVE InStep(u, 1)'
        BY DEF RunningInStep
      <3>1. u \in running /\ u \notin spent /\ u \in Uids
        BY <1>1, <2>3
      <3>2. CASE u \in Undrained
        <4>1. NotEnded(u)'
          BY <2>5, <3>1, <3>2
        <4>2. InputLen[u] \in Nat /\ cached[u] \in Nat
          BY <1>1, <3>1, RequestType
        <4>3. Delivered(u)' + InputLen[u] = cached[u] + 1
          BY <2>5, <3>2, <4>2
        <4> QED BY <1>2, <4>1, <4>3 DEF InStep
      <3>3. CASE u \notin Undrained
        <4>1. InStep(u, 1)
          BY <3>1, <3>3 DEF LengthInv, RunningInStep
        <4> QED BY <1>2, <2>4, <3>1, <3>3, <4>1 DEF InStep
      <3> QED BY <3>2, <3>3
    <2>8. BatchInStep'
      BY <1>3 DEF BatchInStep
    <2>9. ASSUME NEW u \in Uids, ~ NotEnded(u)' PROVE Delivered(u)' = outputLen'[u]
      <3>1. CASE u \in Undrained
        <4>1. u \in spent
          BY <2>5, <2>9, <3>1
        <4>2. ~ (MaxDeviceLen(u) - (cached[u] + 1) > 0)
          BY <4>1 DEF CanDecode, RemainLen
        <4>3. /\ InputLen[u] \in Nat /\ cached[u] \in Nat /\ outputLen[u] \in Nat
              /\ MaxDeviceLen(u) = InputLen[u] + outputLen[u]
          BY <1>1, RequestType DEF MaxDeviceLen
        <4>4. cached[u] + 1 = InputLen[u] + outputLen[u]
          BY <2>5, <3>1, <4>2, <4>3
        <4>5. /\ Delivered(u) \in Nat /\ Delivered(u) + InputLen[u] = cached[u]
              /\ Delivered(u)' = Delivered(u) + 1
          BY <2>5, <3>1
        <4>6. Delivered(u) + 1 = outputLen[u]
          BY <4>3, <4>4, <4>5
        <4> QED BY <1>2, <4>5, <4>6
      <3>2. CASE u \notin Undrained
        <4>1. ~ NotEnded(u) /\ Delivered(u)' = Delivered(u)
          BY <2>4, <2>9, <3>2
        <4>2. Delivered(u) = outputLen[u]
          BY <4>1, LengthsMean DEF LengthInv, LengthMeansBudgetSpent
        <4> QED BY <1>2, <4>1, <4>2
      <3> QED BY <3>1, <3>2
    <2>10. LengthMeansBudgetSpent'
      BY <2>9 DEF LengthMeansBudgetSpent, NotEnded
    <2> QED BY <2>6, <2>7, <2>8, <2>10 DEF LengthInv
  <1> QED BY <1>6, <1>7

LEMMA InitLengths == Init => LengthInv
  <1> SUFFICES ASSUME Init PROVE LengthInv
    OBVIOUS
  <1>1. /\ pending = << >> /\ running = {} /\ phase = "recv"
        /\ \A u \in Uids : reply[u] = << >>
    BY DEF Init
  <1>2. DOMAIN << >> = {} /\ Elems(pending) = {}
    BY <1>1 DEF Elems
  <1>3. \A u \in Uids : Unheard(u) /\ NotEnded(u)
    BY <1>1, <1>2 DEF Unheard, NotEnded
  <1>4. Undrained = {}
    BY <1>1 DEF Undrained
  <1> QED BY <1>1, <1>2, <1>3, <1>4 DEF LengthInv, WaitingUnheard, RunningInStep,
            BatchInStep, LengthMeansBudgetSpent, NotEnded

LEMMA NextLengths ==
    ASSUME ~ Overlap, IInv, AdmissionInv, AdmissionInv', LengthInv, [Next]_vars
    PROVE  LengthInv'
  <1>1. phase' # "oom"
    BY DEF AdmissionInv, NeverOutOfPages
  <1> QED BY <1>1, UserMsgLengths, AbortLengths, IdleLengths, FlushLengths,
             PrefillLengths, DecodeLengths, ProcessLengths
          DEF Next, Receive, Loop, Blocked

(* "output budget exhausted -> length": with the plain loop a client told  *)
(* that its request ended for its length has been sent every token it may  *)
(* have, whatever chunks its prompt took and whoever came and went with it.*)
(* The overlapped loop reads the budget one step late and breaks this.     *)
THEOREM LengthMeansSpent ==
    ASSUME ~ Overlap
    PROVE  Spec => []LengthMeansBudgetSpent
<1>1. Spec => []PageInv
  BY InitPages, NextPages, InvariantHolds, PTL DEF Spec
<1>2. Spec => []AdmissionInv
  BY <1>1, InitAdmission, NextAdmission, InvariantHolds, PTL DEF Spec
<1>3. IInv /\ AdmissionInv /\ AdmissionInv' /\ LengthInv /\ [Next]_vars => LengthInv'
  BY NextLengths
<1>4. LengthInv => LengthMeansBudgetSpent
  BY DEF LengthInv
<1> QED BY <1>2, <1>3, <1>4, InitLengths, InvariantHolds, PTL DEF Spec

=============================================================================

------------------------ MODULE PrefixCacheInvariant ------------------------
(***************************************************************************)
(* The inductive invariant of PrefixCache: what every step of the cache    *)
(* manager and of the loop that drives it keeps.                           *)
(***************************************************************************)
EXTENDS PrefixCache

Batches == [reqs : SUBSET Uids, chunked : SUBSET Uids, prefill : BOOLEAN]

TypeOK ==
    /\ phase \in {"sched", "drain", "oom", "encoder"}
    /\ free \in Seq(Pages) /\ deferred \in Seq(Pages)
    /\ status \in [Uids -> {"new", "active", "done"}]
    /\ running \subseteq Uids /\ todo \subseteq Uids /\ aborted \subseteq Uids
    /\ finishedReqs \subseteq Uids /\ newFinished \subseteq Uids
    /\ last \in Batches /\ ongoing \in Batches
    /\ cached \in [Uids -> Nat] /\ device \in [Uids -> Nat]
    /\ ids \in [Uids -> Seq(Tokens)] /\ handle \in [Uids -> Seq(Tokens)]
    /\ row \in [Uids -> Seq(Pages)]
    /\ content \in [Pages -> Seq(Tokens)]

TreeOK == IsTree(tree, Tokens, Pages) /\ Accounted(tree, Active, handle)

(* The tokens of a request whose KV has been computed.                     *)
Computed(u) == Take(ids[u], cached[u])

(* A request holds a node of its own tokens and a row for all of them.     *)
LengthsOK ==
    \A u \in Uids : /\ cached[u] <= device[u] /\ device[u] <= Len(ids[u])
                    /\ InputLen(u) <= Len(ids[u])
                    /\ status[u] = "new" => ids[u] = Prompt[u]
RowsOK ==
    /\ \A u \in Active : /\ IsPrefix(handle[u], Computed(u))
                         /\ Len(row[u]) = AllPages(Computed(u))
    /\ \A u \in Uids \ Active : handle[u] = << >> /\ row[u] = << >>

(* A batch is made of active requests; one whose request has ended since   *)
(* the launch finds it among the finished or the aborted.                  *)
BatchesOK ==
    /\ running \subseteq Active
    /\ phase = "sched" =>
         /\ ongoing.reqs \subseteq Active /\ ongoing.chunked \subseteq ongoing.reqs
         /\ last.reqs \subseteq Active \cup finishedReqs \cup aborted
         /\ \A u \in ongoing.reqs :
              /\ device[u] <= InputLen(u)
              /\ u \in ongoing.chunked <=> device[u] < InputLen(u)
    /\ phase = "drain" =>
         /\ ongoing.reqs \subseteq Active \cup newFinished \cup aborted
         /\ todo \subseteq Active \cup finishedReqs \cup aborted

ListsOK == IsInjective(free) /\ IsInjective(deferred)

(* The pages that the requests admitted may still take, and those there    *)
(* are for them.                                                           *)
Pending == running \cup Chunked \cup (IF phase = "sched" THEN ongoing.reqs ELSE {})
Reserve(u) ==
    DivCeil(IF u \in running THEN MaxDeviceLen(u) - 1 ELSE MaxDeviceLen(u))
      - DivCeil(cached[u])

PendingOK ==
    /\ \A u \in running : /\ device[u] = cached[u] + 1
                          /\ device[u] < MaxDeviceLen(u)
                          /\ InputLen(u) <= cached[u]
    /\ \A u \in aborted : status[u] # "new"
    /\ phase = "sched" =>
         /\ deferred = << >>
         /\ ongoing.reqs \cap (running \cup aborted) = {}
    /\ phase # "oom"

Enough ==
    Tally([u \in Pending |-> Reserve(u)]) * PageSize
        <= tree.evictable + (Len(free) + Len(deferred)) * PageSize

IInv == TypeOK /\ TreeOK /\ LengthsOK /\ RowsOK /\ BatchesOK /\ ListsOK

BudgetInv == PendingOK /\ Enough

(* Whoever is in a batch other than as a chunk has its prompt done when    *)
(* the batch has run: a request that ends has no image left to gather.     *)
PromptDone(b) == \A u \in b.reqs \ (b.chunked \cup aborted) : InputLen(u) <= cached[u]
LaunchedOK ==
    /\ \A u \in last.reqs \cup ongoing.reqs : status[u] # "new"
    /\ todo \subseteq last.reqs /\ PromptDone(last)
    /\ phase = "drain" => PromptDone(ongoing)

(* What a request has still to gather it can encode, or it is encoded.     *)
FeaturesKept ==
    \A u \in Uids : \A h \in Hashes(u) :
        status[u] = "new" \/ Owed(u, h) > 0 =>
            <<u, h>> \in features \/ (status[u] # "new" /\ HasEmbedding(encoder, h))

ClaimsInv == ClaimsExact /\ LaunchedOK /\ FeaturesKept
=============================================================================

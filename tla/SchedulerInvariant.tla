------------------------- MODULE SchedulerInvariant -------------------------
(***************************************************************************)
(* The inductive invariant of the scheduler.  The conservation of table    *)
(* slots and KV pages is not inductive by itself: that a freed slot is the *)
(* only one depends on who may still be launched, which depends on what    *)
(* every queue and every undrained batch knows of a request.  The parts    *)
(* below say that, one relation each; SchedulerProofs shows them inductive *)
(* together.                                                               *)
(***************************************************************************)
EXTENDS Scheduler

Distinct(s) == \A i, j \in DOMAIN s : s[i] = s[j] => i = j

(* A request nobody has sent is nowhere, and the prefill queue holds each  *)
(* request once.                                                           *)
OnlySentRequests ==
    /\ Holding(Uids) \cup Elems(pending) \cup aborted \cup finishedReqs
         \cup last.reqs \cup ongoing.reqs \subseteq sent
    /\ Distinct(pending)

(* A request that was never scheduled owns neither a slot nor a page.      *)
UnscheduledOwnNothing ==
    \A u \in Uids :
        u \notin sent \/ (u \in Elems(pending) /\ u \notin chunked)
            => slot[u] = None /\ row[u] = {}

(* A parked chunk and a running request own a slot; the chunk is pending,  *)
(* the running request is not.                                             *)
QueuesHold ==
    /\ chunked \subseteq Elems(pending)
    /\ running \cap Elems(pending) = {}
    /\ chunked \cup running \subseteq Holding(Uids)

(* filter_reqs keeps only requests with output budget left.                *)
RunningCanDecode == \A u \in running : CanDecode(u, cached[u])

(* Where the loop is says which batches exist.                             *)
BatchesByPhase ==
    /\ phase \in {"recv", "run"} => ongoing = NoBatch
    /\ ~ Overlap => last = NoBatch

(* A request whose whole prompt is in a batch has left the prefill queue.  *)
BatchShape ==
    \A b \in {last, ongoing} :
        /\ b.chunked \subseteq b.reqs
        /\ (b.reqs \ b.chunked) \cap Elems(pending) = {}

(* A request marked aborted is in no queue and is not launched again.      *)
AbortedGone ==
    aborted \cap (Elems(pending) \cup running \cup ongoing.reqs) = {}

(* finished_reqs hold no resources and are not queued again.               *)
FinishedGone == finishedReqs \cap (Holding(Uids) \cup Elems(pending)) = {}

(* A request of a batch not drained yet owns its slot, but for the extra   *)
(* step of a request that has just finished.                               *)
InFlightHeld ==
    /\ phase # "flush" => last.reqs \subseteq Holding(Uids) \cup finishedReqs
    /\ phase \in {"drain", "oom"} => ongoing.reqs \subseteq Holding(Uids)
    /\ phase = "flush" => ongoing.reqs \subseteq Holding(Uids) \cup finishedReqs

(* A request the loop will see again after batch b is drained: as a chunk, *)
(* or as a running request if it has budget left.                          *)
WillContinue(b, u) ==
    IF u \in b.chunked THEN u \in chunked
    ELSE CanDecode(u, cached[u]) => u \in running

(* Draining a batch leaves no request of it behind with resources and in   *)
(* no queue.                                                               *)
NothingLeftBehind ==
    /\ phase \in {"recv", "run", "drain"} =>
         \A u \in (last.reqs \cap Holding(Uids)) \ aborted :
             WillContinue(last, u) \/ (u \in last.chunked /\ u \in ongoing.reqs)
    /\ phase \in {"drain", "flush"} =>
         \A u \in ongoing.reqs \cap Holding(Uids) : WillContinue(ongoing, u)
    /\ phase = "flush" =>
         \A u \in Drained.reqs \cap Holding(Uids) :
             \/ u \in chunked \cup running
             \/ Overlap /\ u \in ongoing.reqs

QueueInv ==
    /\ OnlySentRequests
    /\ UnscheduledOwnNothing
    /\ QueuesHold
    /\ RunningCanDecode
    /\ BatchesByPhase
    /\ BatchShape
    /\ AbortedGone
    /\ FinishedGone
    /\ InFlightHeld
    /\ NothingLeftBehind
    /\ NoOrphans

IInv == TypeOK /\ QueueInv /\ SlotsPartitioned /\ PagesPartitioned

-----------------------------------------------------------------------------
(* The pages of a row.  An unscheduled request has no KV, so its first      *)
(* grant starts at page 0 and every later one where the last one ended.    *)
UnscheduledAtZero ==
    \A u \in Uids :
        u \notin sent \/ (u \in Elems(pending) /\ u \notin chunked)
            => cached[u] = 0

PageInv == UnscheduledAtZero /\ PagesMatchProgress

-----------------------------------------------------------------------------
(* The admission control.  What it has promised is one sum over all the    *)
(* requests that own pages and may ask for more: the pages each will still *)
(* take are free now.                                                      *)

(* The token sampled last is never written to the cache.                   *)
PagesToCome(u) == NeededPages(MaxDeviceLen(u) - 1, cached[u])

(* Only the first pending request can be in the middle of its prompt, so   *)
(* every later one is checked against the pool before it starts.           *)
ChunkFirst == \A u \in chunked : u = pending[1]

(* A pending request has some of its prompt and all of its output to go.   *)
PendingFits == \A u \in Elems(pending) : cached[u] < InputLen[u] /\ outputLen[u] > 0

RoomForAll ==
    Total([u \in running \cup chunked |-> PagesToCome(u)])
        <= Cardinality(freePages)

AdmissionInv ==
    /\ NeverOutOfPages
    /\ IsFiniteSet(running)
    /\ ChunkFirst
    /\ PendingFits
    /\ RoomForAll

-----------------------------------------------------------------------------
(* The messages sent.  That they follow ReplyStream depends on who may      *)
(* still be answered: a request waiting for its first batch has heard       *)
(* nothing, one that will be sampled is streaming, one whose                *)
(* acknowledgement is due will not be sampled after it.                     *)
FreshIsSilent ==
    \A u \in Elems(pending) \ chunked : reply[u] = << >>

(* An abort of a request not yet received is remembered until it comes,     *)
(* unless the tombstones overflow.                                          *)
UnsentIsSilent ==
    \A u \in Uids \ sent :
        u \in Elems(tombstones) \/ (reply[u] = << >> /\ u \notin acks)
TombstonesDistinct == Distinct(tombstones)

LiveIsStreaming ==
    phase # "oom" =>
        \A u \in chunked \cup running : Stream!Streaming(reply[u])

(* Whoever is sampled when a batch is drained is streaming until then.      *)
BatchIsStreaming ==
    /\ phase \in {"recv", "run", "drain"} =>
         \A u \in last.reqs \ (aborted \cup finishedReqs \cup last.chunked) :
             Stream!Streaming(reply[u])
    /\ phase = "drain" => \A u \in ongoing.reqs : Stream!Streaming(reply[u])
    /\ phase = "flush" =>
         \A u \in ongoing.reqs \ finishedReqs :
             ~ Overlap \/ Stream!Streaming(reply[u])

AckedIsGone == acks \cap (Elems(pending) \cup running \cup ongoing.reqs) = {}

ReplyInv ==
    /\ FreshIsSilent /\ UnsentIsSilent /\ TombstonesDistinct
    /\ LiveIsStreaming /\ BatchIsStreaming /\ AckedIsGone

-----------------------------------------------------------------------------
(* The tokens sent by the plain loop, which drains the batch it launched:   *)
(* a request in a forward is one token behind its KV, every other running   *)
(* request is in step with it.  The overlapped loop has launched the next   *)
(* step already when it reads the budget, and has no such invariant.        *)
IsToken(k) == k \in {"tok", "stop", "length"}
Undrained == IF phase = "drain" THEN ongoing.reqs \ ongoing.chunked ELSE {}

Unheard(u) == \A i \in DOMAIN reply[u] : ~ IsToken(reply[u][i])
WaitingUnheard == \A u \in (Uids \ sent) \cup Elems(pending) : Unheard(u)

(* The prompt's forward samples the first token; each step caches the last  *)
(* token and samples one more.                                              *)
NotEnded(u) == \A i \in DOMAIN reply[u] : reply[u][i] # "length"
InStep(u, n) == NotEnded(u) /\ Delivered(u) + InputLen[u] = cached[u] + n
RunningInStep == \A u \in running \ Undrained : InStep(u, 1)
BatchInStep == \A u \in Undrained : InStep(u, 0) /\ cached[u] < MaxDeviceLen(u)

LengthInv ==
    /\ WaitingUnheard
    /\ RunningInStep
    /\ BatchInStep
    /\ LengthMeansBudgetSpent

=============================================================================

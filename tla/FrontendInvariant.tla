-------------------------- MODULE FrontendInvariant --------------------------
(* Inductive invariants of Frontend, each in named parts: what types its   *)
(* variables have (TypeOK), what keeps the maintenance gate (GateInv),     *)
(* what the tokenizer worker knows of the end of a request (DecodeInv),    *)
(* what makes the sealed totals complete (SealInv) and what makes an answer*)
(* whole (AnswerInv).                                                      *)
EXTENDS Frontend

Requested    == [k : {"tokenize", "abort"}, id : Uids]
                    \cup [k : {"rebuild"}, id : Rebuilds]
UserReply    == [k : Kinds, id : Uids]
RebuildReply == [k : Outcomes, id : Rebuilds]
ReplyBatch   == (Seq(UserReply) \ {<< >>}) \cup {<<m>> : m \in RebuildReply}

Gates   == {"loading", "serving", "rebuilding", "stopping", "failed"}
Pending == {<< >>} \cup {<<"close", r>> : r \in Rebuilds}
                   \cup {<<"send", r>> : r \in Rebuilds}
                   \cup {<<"reopen", g>> : g \in {"serving", "failed"}}

GateTypes ==
    /\ gate \in Gates /\ fatal \in BOOLEAN /\ loop \in Pending
    /\ listening \in BOOLEAN /\ wake \in BOOLEAN /\ ready \in BOOLEAN
    /\ sup \in {"draining", "opening", "watching", "latching", "waking", "done"}
    /\ alive \subseteq Workers
    /\ call \in [Rebuilds -> {"new", "pending", "timeout"} \cup Outcomes]

UserTypes ==
    /\ client \in [Uids -> {"new", "waiting", "done", "gone", "broken"}]
    /\ seen \in [Uids -> Seq(Kinds)]
    /\ DOMAIN ack_map \subseteq Uids
    /\ ack_map \in [DOMAIN ack_map -> Seq(Kinds)]
    /\ inflight \subseteq Uids
    /\ counted \in [Uids -> Nat]
    /\ sleeping \subseteq Uids \X {"client", "stop"}

StopTypes ==
    /\ stop \in {"idle", "draining", "aborting", "waiting", "sealed", "error"}
    /\ stops \in Nat /\ faults \in Nat

QueueTypes ==
    /\ up \in Seq(Requested)
    /\ down \in Seq(UserReply \cup RebuildReply)
    /\ out \in Seq(ReplyBatch)
    /\ decode_map \subseteq Uids
    /\ toScheduler \subseteq Uids \cup Rebuilds
    /\ ackDue \in [Uids -> Nat]
    /\ sent \in [Uids -> Seq(Kinds)]

TypeOK == GateTypes /\ UserTypes /\ StopTypes /\ QueueTypes

-----------------------------------------------------------------------------
(* The gate.                                                               *)

(* Where a rebuild is on its way: a queue or the scheduler, and where in it*)
RebuildsIn(s)     == {i \in DOMAIN s : s[i].id \in Rebuilds}
RebuildBatches(o) == {i \in DOMAIN o : o[i][1].id \in Rebuilds}

Places == ({"up"} \X RebuildsIn(up))
     \cup ({"toScheduler"} \X (toScheduler \cap Rebuilds))
     \cup ({"down"} \X RebuildsIn(down))
     \cup ({"out"} \X RebuildBatches(out))

(* There is one rebuild at a time, and one message of it.                  *)
OneRebuild == \A p, q \in Places : p = q

(* While it is on its way the gate is closed and no handler is about to    *)
(* write it.  That the gate has left "rebuilding" is the work of a death.  *)
ClosedOnTheWay ==
    Places # {} => loop = << >> /\ gate # "serving" /\ (gate = "rebuilding" \/ fatal)

(* Before the supervisor thread has opened the gate nothing is under way.  *)
StartupIsQuiet ==
    sup \in {"draining", "opening"} =>
        gate \in {"loading", "stopping"} /\ loop = << >> /\ Places = {}

DeathIsLatched == sup \in {"latching", "waking", "done"} => fatal

(* A write a handler still has to do will not find a stop.                 *)
SendFindsItsGate ==
    \A r \in Rebuilds : loop = <<"send", r>> =>
        gate = "rebuilding" \/ (gate = "failed" /\ fatal)

ReopenFindsNoStop ==
    loop = <<"reopen", "serving">> => gate \in {"rebuilding", "failed"}

GateInv ==
    /\ OneRebuild /\ ClosedOnTheWay /\ StartupIsQuiet /\ DeathIsLatched
    /\ SendFindsItsGate /\ ReopenFindsNoStop /\ NeverWedged

-----------------------------------------------------------------------------
(* The decode state.                                                       *)

(* Of the messages of a request on their way to the worker the last one is *)
(* the last that was sent.                                                 *)
LastOnTheWay ==
    \A u \in Uids : u \in Ids(down) =>
        \E i \in DOMAIN down :
            /\ down[i].id = u /\ down[i].k = Last(sent[u]) /\ sent[u] # << >>
            /\ \A j \in DOMAIN down : j > i => down[j].id # u

DecodeInv == LastOnTheWay /\ DecodeStateReleased

-----------------------------------------------------------------------------
(* The sealed totals.                                                      *)

(* The messages about u of some kinds, in a queue and in a queue of batches*)
Among(b, u, K)    == {j \in DOMAIN b : b[j].id = u /\ b[j].k \in K}
AmongAll(o, u, K) == UNION {{i} \X Among(o[i], u, K) : i \in DOMAIN o}

Bills(b, u)  == Among(b, u, Billable)
BillsDown(u) == Bills(down, u)
BillsOut(u)  == AmongAll(out, u, Billable)
Ends(s, u)   == \E i \in DOMAIN s : s[i].id = u /\ s[i].k \in Finished
EndOut(o, u) == \E i \in DOMAIN o : Ends(o[i], u)

Behind(b, u) ==
    \A i, j \in DOMAIN b :
        b[i].id = u /\ b[i].k \in Finished /\ i < j => j \notin Bills(b, u)
BehindAll(o, u) ==
    \A i, j \in DOMAIN o : Ends(o[i], u) /\ i < j => Bills(o[j], u) = {}

(* The request was made, and its terminal reply observed.                  *)
Settled(u) == client[u] # "new" /\ u \notin inflight

(* The scheduler has nothing more to send for u but acknowledgements.      *)
Asked(u)  == {i \in DOMAIN up : up[i] = [k |-> "tokenize", id |-> u]}
Silent(u) == Asked(u) = {} /\ u \notin toScheduler /\ ~Contract!Streaming(sent[u])

(* What the scheduler sent for u is on its way to the worker, on its way   *)
(* back or counted.                                                        *)
AllCounted(u) ==
    counted[u] + Cardinality(BillsOut(u)) + Cardinality(BillsDown(u)) = Units(sent[u])

(* A request is heard of only after it was made, and is asked for once.    *)
NewIsUnknown(u) ==
    client[u] = "new" =>
        /\ u \notin Ids(up) /\ u \notin toScheduler /\ sent[u] = << >> /\ ackDue[u] = 0
        /\ u \notin inflight /\ \A who \in {"client", "stop"} : <<u, who>> \notin sleeping
        /\ ~Ends(down, u) /\ ~EndOut(out, u)

AskedOnce(u) ==
    \A i \in Asked(u) :
        /\ \A j \in DOMAIN up : up[j].id = u => j >= i
        /\ u \notin toScheduler /\ sent[u] = << >> /\ ackDue[u] = 0

AdmittedOnce(u) == u \in toScheduler => sent[u] = << >>

(* Once a terminal reply is under way, or was observed, all is said; and   *)
(* nothing that counts comes behind it.                                    *)
EndIsSilent(u) == Ends(down, u) \/ EndOut(out, u) \/ Settled(u) => Silent(u)

NothingBehindTheEnd(u) ==
    /\ Behind(down, u) /\ BehindAll(out, u)
    /\ EndOut(out, u) => BillsDown(u) = {}
    /\ Settled(u) => BillsDown(u) = {} /\ BillsOut(u) = {}

OfRequest(u) ==
    /\ AllCounted(u) /\ NewIsUnknown(u) /\ AskedOnce(u) /\ AdmittedOnce(u)
    /\ EndIsSilent(u) /\ NothingBehindTheEnd(u)

SealedIsSettled ==
    stop = "sealed" => DOMAIN sealed \subseteq Uids /\ \A u \in DOMAIN sealed : Settled(u)

SealInv == (\A u \in Uids : OfRequest(u)) /\ SealedIsSettled /\ SealIsComplete

-----------------------------------------------------------------------------
(* The whole answer.                                                       *)

About(b, u)   == Among(b, u, Kinds)
AboutAll(o, u) == AmongAll(o, u, Kinds)

(* The n-th message of b, if it is about u, is the one of s that its place *)
(* among the messages about u says, behind the first h of s.               *)
Upto(b, u, n)       == {m \in About(b, u) : m <= n}
InRank(b, u, s, h)  == \A n \in About(b, u) : b[n].k = s[h + Cardinality(Upto(b, u, n))]
AllBefore(o, u, p)  == Cardinality(AboutAll(SubSeq(o, 1, p - 1), u))
AllInRank(o, u, s, h) == \A p \in DOMAIN o : InRank(o[p], u, s, h + AllBefore(o, u, p))

(* What u was told (t), is being told (o) and will be told (d) is all of s *)
(* and in order.                                                           *)
InOrder(t, o, d, u, s) ==
    LET c == Len(t) + Cardinality(AboutAll(o, u))
    IN  /\ c + Cardinality(About(d, u)) = Len(s)
        /\ \A i \in 1 .. Len(t) : t[i] = s[i]
        /\ AllInRank(o, u, s, Len(t)) /\ InRank(d, u, s, c)

Told(u)       == seen[u] \o ack_map[u]
Follows(u, s) == InOrder(Told(u), out, down, u, s)

(* A consumer waits for it, and no abort was sent.                         *)
Registered(u) == client[u] = "waiting" /\ u \in DOMAIN ack_map
Unaborted(u) ==
    ackDue[u] = 0 /\ \A i \in DOMAIN up : up[i] # [k |-> "abort", id |-> u]

(* It follows what the scheduler sent, or was refused by the tokenizer.    *)
Refused(u) == sent[u] = << >> /\ Silent(u) /\ Follows(u, <<"error">>)
WellTold(u) == Registered(u) => Unaborted(u) /\ (Follows(u, sent[u]) \/ Refused(u))

(* Kinds come in the order in which a pass of the worker puts them out.    *)
Orderly(s) ==
    \A i, j \in DOMAIN s : i < j => s[j] # "admit" /\ (s[i] \in Errors => s[j] \in Errors)

EndIsObserved(u) ==
    /\ Registered(u) /\ (\E i \in DOMAIN ack_map[u] : ack_map[u][i] \in Finished)
           => u \notin inflight
    /\ client[u] = "done" => u \notin inflight

NothingBefore(u) == client[u] = "new" => seen[u] = << >>

Answered(u) ==
    client[u] = "done" =>
        \/ IsPrefix(seen[u], sent[u]) /\ Last(seen[u]) \in Finished
        \/ seen[u] = <<"error">> /\ Units(sent[u]) = 0

AnswerOf(u) ==
    /\ Orderly(sent[u]) /\ WellTold(u) /\ EndIsObserved(u) /\ NothingBefore(u) /\ Answered(u)

AnswerInv == \A u \in Uids : AnswerOf(u)

=============================================================================

---------------------------- MODULE ReplyStream ----------------------------
(***************************************************************************)
(* What the scheduler promises to the processes downstream of it about the *)
(* messages it sends for one request, whatever batches, aborts and         *)
(* overlapping forwards happen inside: a request is admitted once, then    *)
(* streams tokens, then is closed exactly once; once an abort has been     *)
(* acknowledged nothing but further acknowledgements may follow.           *)
(*                                                                         *)
(* reply[u] is the sequence of messages sent so far for uid u:             *)
(*   "admit"           PromptAdmittedMsg                                   *)
(*   "tok"             DetokenizeMsg with finished = False                 *)
(*   "stop", "length"  DetokenizeMsg with finished = True, by its reason   *)
(*   "error"           ErrorReplyMsg for a request that was refused        *)
(*   "ack"             ErrorReplyMsg "request aborted"                     *)
(***************************************************************************)
EXTENDS Sequences, Naturals

CONSTANT Uids          \* the requests

VARIABLE reply         \* reply[u]: the messages sent for u, oldest first

Kinds == {"admit", "tok", "stop", "length", "error", "ack"}

Init == reply = [u \in Uids |-> << >>]

Streaming(s) == s # << >> /\ s[Len(s)] \in {"admit", "tok"}

(* Which message may come next after the messages s.                       *)
MayFollow(s, k) ==
    \/ k \in {"admit", "error"} /\ s = << >>
    \/ k \in {"tok", "stop", "length"} /\ Streaming(s)
    \/ k = "ack"

(* One iteration of the scheduler may answer any number of requests.       *)
Next ==
    /\ DOMAIN reply' = Uids
    /\ \A u \in Uids :
          \/ reply'[u] = reply[u]
          \/ \E k \in Kinds : /\ MayFollow(reply[u], k)
                              /\ reply'[u] = Append(reply[u], k)

Spec == Init /\ [][Next]_reply

=============================================================================

-------------------------------- MODULE MsgTexts --------------------------------
(***************************************************************************)
(* chapter13/msg1.c, which prints texts from a message queue until one is  *)
(* "end" and then removes the queue, and msg2.c, which sends it texts.     *)
(* Texts are numbered, the last of each sender is "end".  Whoever comes    *)
(* first makes the queue; whoever comes after its removal makes another.   *)
(***************************************************************************)
EXTENDS Naturals, Sequences

CONSTANTS
    Senders,    \* processes that run msg2.c
    LastMsg,    \* texts of each, "end" included
    MsgCap      \* texts the queue holds

ASSUME MsgAssumption == LastMsg \in Nat \ {0} /\ MsgCap \in Nat

VARIABLES
    msgQueue,   \* the queue with key 1234: a number, 0 if there is none
    queues,     \* queues made so far
    texts,      \* the texts in it
    receiver,   \* the line msg1.c is at
    msgid,      \* its queue
    sender,     \* each msg2.c: the line it is at, its queue, texts typed
    taken       \* texts of each sender that were printed (history)

msgVars == <<msgQueue, queues, texts, receiver, msgid, sender, taken>>

MsgInit ==
    /\ msgQueue = 0 /\ queues = 0 /\ texts = << >>
    /\ receiver = "out" /\ msgid = 0
    /\ sender = [s \in Senders |-> [at |-> "out", id |-> 0, n |-> 0]]
    /\ taken = [s \in Senders |-> 0]

\* msgget with IPC_CREAT
GetQueue ==
    IF msgQueue = 0 THEN msgQueue' = queues + 1 /\ queues' = queues + 1
                    ELSE UNCHANGED <<msgQueue, queues>>

-----------------------------------------------------------------------------
(* msg1.c *)

BeginReceiver ==
    /\ receiver = "out" /\ receiver' = "receive" /\ GetQueue /\ msgid' = msgQueue'
    /\ UNCHANGED <<texts, sender, taken>>

ReceiveText ==
    /\ receiver = "receive" /\ texts # << >>
    /\ texts' = Tail(texts)
    /\ taken' = [taken EXCEPT ![Head(texts).from] = Head(texts).n]
    /\ receiver' = IF Head(texts).n = LastMsg THEN "remove" ELSE "receive"
    /\ UNCHANGED <<msgQueue, queues, msgid, sender>>

\* msgctl IPC_RMID, with what other senders have in it
RemoveQueue ==
    /\ receiver = "remove" /\ receiver' = "gone"
    /\ msgQueue' = 0 /\ texts' = << >>
    /\ UNCHANGED <<queues, msgid, sender, taken>>

-----------------------------------------------------------------------------
(* msg2.c *)

BeginSender(s) ==
    /\ sender[s].at = "out" /\ GetQueue
    /\ sender' = [sender EXCEPT ![s].at = "type", ![s].id = msgQueue']
    /\ UNCHANGED <<texts, receiver, msgid, taken>>

TypeText(s) ==
    /\ sender[s].at = "type"
    /\ sender' = [sender EXCEPT ![s].at = "send", ![s].n = @ + 1]
    /\ UNCHANGED <<msgQueue, queues, texts, receiver, msgid, taken>>

\* msgsnd waits for room
SendText(s) ==
    /\ sender[s].at = "send" /\ sender[s].id = msgQueue /\ Len(texts) < MsgCap
    /\ texts' = Append(texts, [from |-> s, n |-> sender[s].n])
    /\ sender' = [sender EXCEPT ![s].at = IF sender[s].n = LastMsg THEN "gone" ELSE "type"]
    /\ UNCHANGED <<msgQueue, queues, receiver, msgid, taken>>

\* "msgsnd failed": the queue was removed, perhaps while the process waited
SendFails(s) ==
    /\ sender[s].at = "send" /\ sender[s].id # msgQueue
    /\ sender' = [sender EXCEPT ![s].at = "failed"]
    /\ UNCHANGED <<msgQueue, queues, texts, receiver, msgid, taken>>

-----------------------------------------------------------------------------
ReceiverRuns  == ReceiveText \/ RemoveQueue
SenderRuns(s) == SendText(s) \/ SendFails(s)
MsgNext ==
    \/ BeginReceiver \/ ReceiverRuns
    \/ \E s \in Senders : BeginSender(s) \/ TypeText(s) \/ SenderRuns(s)

MsgTypes ==
    /\ {msgQueue, msgid} \subseteq 0..queues /\ queues <= 2 /\ Len(texts) <= MsgCap
    /\ receiver \in {"out", "receive", "remove", "gone"}
    /\ \A s \in Senders : /\ sender[s].at \in {"out", "type", "send", "gone", "failed"}
                          /\ {sender[s].n, taken[s]} \subseteq 0..LastMsg

\* The texts that s has sent
SentBy(s) == IF sender[s].at \in {"send", "failed"} THEN sender[s].n - 1 ELSE sender[s].n

\* Every sender's texts arrive in order, and until somebody's "end" none is lost: what was
\* sent is printed or in the queue, also when the sender came first, or has ended.  What
\* comes after the removal is in a queue of its own.
TextsAccounted ==
    /\ \A i \in DOMAIN texts :
          LET s == texts[i].from
          IN /\ sender[s].id = msgQueue /\ texts[i].n \in (taken[s] + 1)..SentBy(s)
             /\ \A j \in DOMAIN texts : i < j /\ texts[j].from = s => texts[i].n < texts[j].n
    /\ \A s \in Senders :
          /\ taken[s] <= SentBy(s)
          /\ sender[s].id = msgQueue => \A n \in (taken[s] + 1)..SentBy(s) :
                                           \E i \in DOMAIN texts : texts[i] = [from |-> s, n |-> n]
          /\ receiver = "receive" => msgid = msgQueue /\ taken[s] < LastMsg
          /\ sender[s].at = "failed" => receiver = "gone" /\ taken[s] < LastMsg

\* A sender that waits for room gets it, or is told that the queue is gone, unless it is
\* alone with a queue that nobody reads.
SendersServed ==
    \A s \in Senders :
        []<>~(sender[s].at = "send" /\ (receiver \in {"receive", "remove"} \/ sender[s].id # msgQueue))
=============================================================================

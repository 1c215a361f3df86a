------------------------------- MODULE FifoUpper -------------------------------
(***************************************************************************)
(* The upper-casing server of chapter12 (server.c) and its clients         *)
(* (client.c).  All clients write to the server's FIFO; each has a FIFO of *)
(* its own, which it and the server open anew for every answer.            *)
(*                                                                         *)
(* A FIFO opened for one direction blocks until the other end is open, and *)
(* loses what is in it with its last end.  A read of an empty FIFO waits   *)
(* while it has a writer, and returns 0 when it has none.                  *)
(***************************************************************************)
EXTENDS Naturals, Sequences

CONSTANTS
    FifoClients,   \* clients
    TimesToSend,   \* requests of one client (5 in client.c)
    MaxCrashes     \* bound: clients killed

ASSUME UpperAssumption ==
    "nobody" \notin FifoClients /\ TimesToSend \in Nat /\ MaxCrashes \in Nat

VARIABLES
    upper,      \* the line server.c is at
    hand,       \* my_data of the server: the request in hand
    fifo,       \* SERVER_FIFO_NAME: requests not yet read
    client,     \* the line each client is at
    sent,       \* times_to_send: requests written
    got,        \* the last answer read
    reply,      \* the answers in each client's FIFO
    passed,     \* clients whose read returned 0 (history)
    crashes     \* clients killed so far

fifoVars == <<upper, hand, fifo, client, sent, got, reply, passed, crashes>>

NoRequest == [from |-> "nobody", n |-> 0]

\* "out": not started, "gone": ended, "stuck": in the open of a FIFO nobody will read,
\* "killed": dead, its FIFO still there
ClientLines == {"out", "mkfifo", "send", "open", "read", "unlink", "gone", "stuck", "killed"}
Connected == {"mkfifo", "send", "open", "read"}

FifoInit ==
    /\ upper = "open" /\ hand = NoRequest /\ fifo = << >>
    /\ client = [c \in FifoClients |-> "out"]
    /\ sent = [c \in FifoClients |-> 0] /\ got = [c \in FifoClients |-> 0]
    /\ reply = [c \in FifoClients |-> << >>]
    /\ passed = {} /\ crashes = 0

\* the server holds its FIFO open
ServerReads == upper \notin {"open", "unlink", "ended", "sigpipe"}

\* the server holds c's FIFO open
Answering(c) == upper \in {"write", "close"} /\ hand.from = c

-----------------------------------------------------------------------------
(* client.c *)

\* both opens of the server's FIFO return; before that each waits for the other
Connect(c) ==
    /\ client[c] = "out" /\ (upper = "open" \/ ServerReads)
    /\ upper' = IF upper = "open" THEN "read" ELSE upper
    /\ client' = [client EXCEPT ![c] = "mkfifo"]
    /\ UNCHANGED <<hand, fifo, sent, got, reply, passed, crashes>>

\* "Sorry, no server"; while the name outlives the server, the open waits
NoServer(c) ==
    /\ client[c] = "out"
    /\ \/ upper = "ended" /\ client' = [client EXCEPT ![c] = "gone"]
       \/ upper \in {"unlink", "sigpipe"} /\ client' = [client EXCEPT ![c] = "stuck"]
    /\ UNCHANGED <<upper, hand, fifo, sent, got, reply, passed, crashes>>

MakeFifo(c) ==
    /\ client[c] = "mkfifo"
    /\ client' = [client EXCEPT ![c] = "send"]
    /\ UNCHANGED <<upper, hand, fifo, sent, got, reply, passed, crashes>>

\* write to the server, or SIGPIPE if it has closed its end
Send(c) ==
    /\ client[c] = "send" /\ sent[c] < TimesToSend
    /\ IF ServerReads
       THEN /\ client' = [client EXCEPT ![c] = "open"]
            /\ sent' = [sent EXCEPT ![c] = @ + 1]
            /\ fifo' = Append(fifo, [from |-> c, n |-> sent[c] + 1])
       ELSE client' = [client EXCEPT ![c] = "killed"] /\ UNCHANGED <<fifo, sent>>
    /\ UNCHANGED <<upper, hand, got, reply, passed, crashes>>

\* the server has the FIFO open from the answer before
OpenAtOnce(c) ==
    /\ client[c] = "open" /\ Answering(c)
    /\ client' = [client EXCEPT ![c] = "read"]
    /\ UNCHANGED <<upper, hand, fifo, sent, got, reply, passed, crashes>>

\* read, then close; a read that returns 0 is passed over
Read(c) ==
    /\ client[c] = "read"
    /\ reply[c] # << >> \/ ~Answering(c)
    /\ IF reply[c] = << >>
       THEN passed' = passed \cup {c} /\ UNCHANGED got
       ELSE got' = [got EXCEPT ![c] = Head(reply[c])] /\ UNCHANGED passed
    /\ reply' = [reply EXCEPT ![c] = IF Answering(c) THEN Tail(@) ELSE << >>]
    /\ client' = [client EXCEPT ![c] = "send"]
    /\ UNCHANGED <<upper, hand, fifo, sent, crashes>>

Disconnect(c) ==
    /\ client[c] = "send" /\ sent[c] = TimesToSend
    /\ client' = [client EXCEPT ![c] = "unlink"]
    /\ UNCHANGED <<upper, hand, fifo, sent, got, reply, passed, crashes>>

RemoveFifo(c) ==
    /\ client[c] = "unlink"
    /\ client' = [client EXCEPT ![c] = "gone"]
    /\ UNCHANGED <<upper, hand, fifo, sent, got, reply, passed, crashes>>

Crash(c) ==
    /\ client[c] \in Connected /\ crashes < MaxCrashes
    /\ client' = [client EXCEPT ![c] = "killed"] /\ crashes' = crashes + 1
    /\ reply' = [reply EXCEPT ![c] = IF Answering(c) THEN @ ELSE << >>]
    /\ UNCHANGED <<upper, hand, fifo, sent, got, passed>>

-----------------------------------------------------------------------------
(* server.c *)

\* the loop ends when no client has the FIFO open
ReadRequest ==
    /\ upper = "read"
    /\ \/ /\ fifo # << >>
          /\ hand' = Head(fifo) /\ fifo' = Tail(fifo) /\ upper' = "answer"
       \/ /\ fifo = << >> /\ \A c \in FifoClients : client[c] \notin Connected
          /\ upper' = "shut" /\ UNCHANGED <<hand, fifo>>
    /\ UNCHANGED <<client, sent, got, reply, passed, crashes>>

\* open(client_fifo, O_WRONLY): fails if the name is gone
FindAnswer ==
    /\ upper = "answer"
    /\ upper' = IF client[hand.from] = "gone" THEN "read" ELSE "opening"
    /\ UNCHANGED <<hand, fifo, client, sent, got, reply, passed, crashes>>

\* Slip: a client that has not opened its FIFO yet gets no answer.
OpenAnswerOrNot ==
    /\ upper = "opening"
    /\ upper' = IF client[hand.from] = "read" THEN "write" ELSE "read"
    /\ UNCHANGED <<hand, fifo, client, sent, got, reply, passed, crashes>>

\* ... and waits for the client's end
OpenAnswer ==
    /\ upper = "opening" /\ client[hand.from] \in {"open", "read"}
    /\ upper' = "write" /\ client' = [client EXCEPT ![hand.from] = "read"]
    /\ UNCHANGED <<hand, fifo, sent, got, reply, passed, crashes>>

WriteAnswer ==
    /\ upper = "write"
    /\ IF client[hand.from] = "read"
       THEN reply' = [reply EXCEPT ![hand.from] = Append(@, hand.n)] /\ upper' = "close"
       ELSE upper' = "sigpipe" /\ UNCHANGED reply
    /\ UNCHANGED <<hand, fifo, client, sent, got, passed, crashes>>

CloseAnswer ==
    /\ upper = "close" /\ upper' = "read" /\ hand' = NoRequest
    /\ reply' = [reply EXCEPT ![hand.from] = IF client[hand.from] = "read" THEN @ ELSE << >>]
    /\ UNCHANGED <<fifo, client, sent, got, passed, crashes>>

CloseServerFifo ==
    /\ upper = "shut" /\ upper' = "unlink" /\ fifo' = << >>
    /\ UNCHANGED <<hand, client, sent, got, reply, passed, crashes>>

RemoveServerFifo ==
    /\ upper = "unlink" /\ upper' = "ended"
    /\ UNCHANGED <<hand, fifo, client, sent, got, reply, passed, crashes>>

-----------------------------------------------------------------------------
FifoServerRuns ==
    \/ ReadRequest \/ FindAnswer \/ OpenAnswer \/ WriteAnswer \/ CloseAnswer
    \/ CloseServerFifo \/ RemoveServerFifo
FifoClientRuns(c) ==
    \/ MakeFifo(c) \/ Send(c) \/ OpenAtOnce(c) \/ Read(c) \/ Disconnect(c) \/ RemoveFifo(c)

FifoNext ==
    \/ FifoServerRuns
    \/ \E c \in FifoClients : Connect(c) \/ NoServer(c) \/ FifoClientRuns(c) \/ Crash(c)

FifoSpec == FifoInit /\ [][FifoNext]_fifoVars

-----------------------------------------------------------------------------
FifoTypes ==
    /\ upper \in {"open", "read", "answer", "opening", "write", "close",
                  "shut", "unlink", "ended", "sigpipe"}
    /\ hand.n \in 0..TimesToSend
    /\ client \in [FifoClients -> ClientLines]
    /\ {sent, got} \subseteq [FifoClients -> 0..TimesToSend] /\ crashes \in 0..MaxCrashes
    /\ \A c \in FifoClients : Len(reply[c]) <= TimesToSend

\* No client reads an answer twice or after a later one, although its FIFO is opened
\* anew for each answer and may still be open, or hold an answer, from the one before;
\* and the server writes into a FIFO nobody reads only after a client has died or has
\* passed an answer over.
AnswersInSequence ==
    /\ \A c \in FifoClients : \A i \in DOMAIN reply[c] :
           /\ reply[c][i] > (IF i = 1 THEN 0 ELSE reply[c][i - 1])
           /\ client[c] = "read" => reply[c][i] > got[c]
           /\ reply[c][i] <= sent[c]
    /\ upper = "sigpipe" => crashes > 0 \/ passed # {}

\* A client is at work, and nobody has died, passed an answer over, or come while the
\* server was ending.
Unanswered(c) ==
    /\ client[c] \in Connected /\ crashes = 0 /\ passed = {}
    /\ upper \notin {"shut", "unlink", "ended", "sigpipe"}

\* Undisturbed, every client gets its answers and ends: of the two opens of a client's
\* FIFO neither waits for ever, whichever comes first.
ClientsAnswered == \A c \in FifoClients : []<>~Unanswered(c)
=============================================================================

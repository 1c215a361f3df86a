----------------------------- MODULE IpcQueueProof -----------------------------
(***************************************************************************)
(* Proofs about IpcQueue, for any clients, pids, bounds and faults: a      *)
(* client that can ask can also hear, what it hears answers its request in *)
(* order, and the transport over message queues implements the service of  *)
(* CdService.  The last two are about every process that did not inherit   *)
(* messages with its pid.                                                  *)
(***************************************************************************)
EXTENDS IpcQueue, Integers, SequenceTheorems, TLAPS

-----------------------------------------------------------------------------
(* What the sequence operators do to the queues *)

LEMMA Appended ==
    ASSUME NEW S, NEW s \in Seq(S), NEW e \in S
    PROVE  /\ Append(s, e) \in Seq(S)
           /\ DOMAIN s = 1..Len(s) /\ Len(s) \in Nat
           /\ DOMAIN Append(s, e) = 1..(Len(s) + 1)
           /\ \A k \in 1..Len(s) : Append(s, e)[k] = s[k]
           /\ Append(s, e)[Len(s) + 1] = e
BY AppendProperties, LenProperties

LEMMA FirstTaken ==
    ASSUME NEW S, NEW s \in Seq(S), s # <<>>
    PROVE  /\ Head(s) \in S /\ Head(s) = s[1] /\ Tail(s) \in Seq(S)
           /\ DOMAIN s = 1..Len(s) /\ Len(s) \in Nat /\ Len(s) >= 1
           /\ DOMAIN Tail(s) = 1..(Len(s) - 1)
           /\ \A k \in 1..(Len(s) - 1) : Tail(s)[k] = s[k + 1]
BY HeadTailProperties, LenProperties, EmptySeq

LEMMA Removed ==
    ASSUME NEW S, NEW s \in Seq(S), NEW k \in DOMAIN s
    PROVE  /\ RemoveAt(s, k) \in Seq(S)
           /\ DOMAIN s = 1..Len(s) /\ Len(s) \in Nat /\ k \in 1..Len(s)
           /\ DOMAIN RemoveAt(s, k) = 1..(Len(s) - 1)
           /\ \A i \in 1..(Len(s) - 1) :
                  RemoveAt(s, k)[i] = IF i < k THEN s[i] ELSE s[i + 1]
<1>1. k \in 1..Len(s) /\ Len(s) \in Nat /\ \A i \in 1..Len(s) : s[i] \in S
    OBVIOUS
<1> DEFINE a == SubSeq(s, 1, k - 1)
           b == SubSeq(s, k + 1, Len(s))
<1>2. a \in Seq(S) /\ Len(a) = k - 1 /\ \A i \in 1..(k - 1) : a[i] = s[i]
    BY <1>1, SubSeqProperties
<1>3. b \in Seq(S) /\ Len(b) = Len(s) - k /\ \A i \in 1..(Len(s) - k) : b[i] = s[k + i]
    BY <1>1, SubSeqProperties
<1>5. RemoveAt(s, k) = a \o b
    BY DEF RemoveAt
<1> HIDE DEF a, b
<1>0. /\ a \o b \in Seq(S) /\ Len(a \o b) = Len(a) + Len(b)
      /\ \A i \in 1..(Len(a) + Len(b)) : (a \o b)[i] = IF i <= Len(a) THEN a[i] ELSE b[i - Len(a)]
    BY <1>2, <1>3, ConcatProperties
<1>4. /\ a \o b \in Seq(S) /\ Len(a \o b) = Len(s) - 1
      /\ \A i \in 1..(Len(s) - 1) : (a \o b)[i] = IF i <= k - 1 THEN a[i] ELSE b[i - (k - 1)]
  <2>1. Len(a) = k - 1 /\ Len(b) = Len(s) - k /\ Len(a) + Len(b) = Len(s) - 1
    BY <1>1, <1>2, <1>3
  <2> QED BY <1>0, <2>1
<1>6. ASSUME NEW i \in 1..(Len(s) - 1)
      PROVE  (a \o b)[i] = IF i < k THEN s[i] ELSE s[i + 1]
  <2>1. i \in Int /\ k \in Int /\ Len(s) \in Int
    BY <1>1
  <2>2. CASE i < k
    BY <1>2, <1>4, <2>1, <2>2
  <2>3. CASE ~(i < k)
    <3>1. i - (k - 1) \in 1..(Len(s) - k) /\ k + (i - (k - 1)) = i + 1 /\ ~(i <= k - 1)
        BY <2>1, <2>3
    <3> QED BY <1>3, <1>4, <2>1, <2>3, <3>1
  <2> QED BY <2>1, <2>2, <2>3
<1> QED BY <1>1, <1>4, <1>5, <1>6, LenProperties

LEMMA Empty == /\ <<>> \in Seq(Request) /\ <<>> \in Seq(Response)
               /\ DOMAIN <<>> = {}
BY EmptySeq

-----------------------------------------------------------------------------
(* Type correctness *)

LEMMA TypeInit == Init => TypeOK
<1> SUFFICES ASSUME Init PROVE TypeOK
    OBVIOUS
<1>1. Idle \in Request
    BY ConstantsAssumption DEF Idle, Request
<1>2. find \in [Clients -> BOOLEAN] /\ heir \in [Clients -> BOOLEAN]
    BY Zenon DEF Init
<1>3. requests \in Seq(Request) /\ responses \in Seq(Response)
    BY Empty DEF Init
<1> QED BY <1>1, <1>2, <1>3 DEF Init, TypeOK, ServerPcs, ClientPcs, Ids

LEMMA TypeStep == TypeOK /\ [Next]_vars => TypeOK'
<1> SUFFICES ASSUME TypeOK, [Next]_vars PROVE TypeOK'
    OBVIOUS
<1> USE DEF TypeOK, clientVars, serverVars, queueVars
<1>0. Idle \in Request
    BY ConstantsAssumption DEF Idle, Request
<1>1. CASE ServerGetServQueue
  <2>1. sq' \in Ids /\ requests' \in Seq(Request)
    BY <1>1, Empty DEF ServerGetServQueue, NewQueue, Ids
  <2> QED BY <1>1, <2>1 DEF ServerGetServQueue, ServerPcs
<1>2. CASE ServerGetCliQueue
  <2>1. cq' \in Ids /\ responses' \in Seq(Response)
    BY <1>2, Empty DEF ServerGetCliQueue, NewQueue, Ids
  <2> QED BY <1>2, <2>1 DEF ServerGetCliQueue, Loop, ServerPcs
<1>3. CASE ServerRead
  <2>1. cur' \in Request /\ requests' \in Seq(Request)
    BY <1>3, FirstTaken DEF ServerRead
  <2> QED BY <1>3, <2>1 DEF ServerRead, ServerPcs
<1>4. CASE ServerExec
  <2>1. cur.c \in Clients /\ cur.n \in Nat
    BY DEF Request
  <2>2. served' \in [Clients -> Nat] /\ left' \in Nat /\ idx' \in Nat /\ srv' \in ServerPcs
    BY <1>4, <2>1, ConstantsAssumption DEF ServerExec, ServerPcs
  <2> QED BY <1>4, <2>2 DEF ServerExec
<1>5. ASSUME NEW ok \in BOOLEAN, Send(ok) PROVE responses' \in Seq(Response)
  <2>1. [c |-> cur.c, n |-> cur.n, i |-> idx, ok |-> ok] \in Response
    BY DEF Request, Response
  <2> QED BY <1>5, <2>1, Appended DEF Send
<1>6. CASE ServerSendHit
  <2>1. responses' \in Seq(Response)
    BY <1>5, <1>6 DEF ServerSendHit
  <2> QED BY <1>6, <2>1 DEF ServerSendHit, Send
<1>7. CASE ServerSendLast \/ ServerResend
  <2>1. cur.find \in BOOLEAN
    BY DEF Request
  <2>2. responses' \in Seq(Response)
    BY <1>5, <1>7, <2>1 DEF ServerSendLast, ServerResend
  <2>3. srv' \in ServerPcs /\ cur' \in Request /\ left' \in Nat /\ idx' \in Nat
    <3>1. srv' \in {"read", "ending"}
        BY <1>7 DEF ServerSendLast, ServerResend, Loop
    <3>2. cur' = Idle /\ left' = 0 /\ idx' = 0
        BY <1>7 DEF ServerSendLast, ServerResend, Return
    <3> QED BY <1>0, <3>1, <3>2 DEF ServerPcs
  <2> QED BY <1>7, <2>2, <2>3 DEF ServerSendLast, ServerResend, Send
<1>8. CASE ServerEnding \/ ServerEnd
    BY <1>8, Empty DEF ServerEnding, ServerEnd, Ids, ServerPcs
<1>9. CASE ServerCrash \/ SignalFlag \/ SignalInterrupt
  <2>1. srv' \in ServerPcs /\ cur' \in Request /\ left' \in Nat /\ idx' \in Nat /\ faults' \in Nat
    BY <1>0, <1>9 DEF ServerCrash, SignalFlag, SignalInterrupt, Return, Fault, ServerPcs
  <2> QED BY <1>9, <2>1 DEF ServerCrash, SignalFlag, SignalInterrupt
<1>10. ASSUME NEW c \in Clients, ClientGetServQueue(c) PROVE TypeOK'
  <2>1. heir' \in [Clients -> BOOLEAN]
    BY <1>10, Zenon DEF ClientGetServQueue, Leftover
  <2> QED BY <1>10, <2>1 DEF ClientGetServQueue, ClientPcs
<1>11. ASSUME NEW c \in Clients, ClientGetCliQueue(c) PROVE TypeOK'
    BY <1>11 DEF ClientGetCliQueue, ClientPcs
<1>12. ASSUME NEW c \in Clients, ClientAsk(c) PROVE TypeOK'
  <2>1. find' \in [Clients -> BOOLEAN]
    BY <1>12, Zenon DEF ClientAsk
  <2> QED BY <1>12, <2>1 DEF ClientAsk, ClientPcs
<1>13. ASSUME NEW c \in Clients, ClientSend(c) PROVE TypeOK'
  <2>1. [c |-> c, n |-> req[c], find |-> find[c]] \in Request
    BY DEF Request
  <2>2. requests' \in Seq(Request)
    BY <1>13, <2>1, Appended DEF ClientSend
  <2> QED BY <1>13, <2>2 DEF ClientSend, ClientPcs
<1>14. ASSUME NEW c \in Clients, ClientRead(c) PROVE TypeOK'
  <2>1. PICK k \in DOMAIN responses : Take(c, k)
    BY <1>14 DEF ClientRead
  <2>2. responses' \in Seq(Response)
    BY <2>1, Removed DEF Take
  <2>3. find' \in [Clients -> BOOLEAN]
    BY <2>1, Zenon DEF Take
  <2>4. cpc' \in [Clients -> ClientPcs]
    BY <2>1 DEF Take, ClientPcs
  <2>5. got' \in [Clients -> Nat]
    <3>1. \E n \in {got[c] + 1, 0} : got' = [got EXCEPT ![c] = n]
        BY <2>1, Zenon DEF Take
    <3>2. got[c] + 1 \in Nat /\ got \in [Clients -> Nat]
        OBVIOUS
    <3> QED BY <3>1, <3>2
  <2> QED BY <2>1, <2>2, <2>3, <2>4, <2>5 DEF Take
<1>15. ASSUME NEW c \in Clients, ClientFails(c) \/ ClientEnding(c) \/ ClientCrash(c) PROVE TypeOK'
  <2>1. find' \in [Clients -> BOOLEAN]
    BY <1>15, Zenon DEF ClientFails, ClientEnding, ClientCrash, Exit
  <2>2. faults' \in Nat
    BY <1>15 DEF ClientFails, ClientEnding, ClientCrash, Fault
  <2>3. cpc' \in [Clients -> ClientPcs]
    BY <1>15 DEF ClientFails, ClientEnding, ClientCrash, Exit, ClientPcs
  <2>5. got' \in [Clients -> Nat]
    <3>1. got' = [got EXCEPT ![c] = 0]
        BY <1>15, Zenon DEF ClientFails, ClientEnding, ClientCrash, Exit
    <3> QED BY <3>1
  <2>4. serv_qid' \in [Clients -> Ids] /\ cli_qid' \in [Clients -> Ids]
    BY <1>15 DEF ClientFails, ClientEnding, ClientCrash, Exit, Ids
  <2> QED BY <1>15, <2>1, <2>2, <2>3, <2>4, <2>5 DEF ClientFails, ClientEnding, ClientCrash, Exit
<1>16. CASE UNCHANGED vars
    BY <1>16 DEF vars
<1> QED BY <1>1, <1>2, <1>3, <1>4, <1>6, <1>7, <1>8, <1>9, <1>10, <1>11, <1>12, <1>13, <1>14,
           <1>15, <1>16 DEF Next, ServerRuns, ClientRuns

\* The variables keep their types.
THEOREM QueueTypes == Spec => []TypeOK
BY TypeInit, TypeStep, PTL DEF Spec

-----------------------------------------------------------------------------
(* The queues of a client *)

\* The client holds identifiers of queues, and only without the first queue is the second
\* one removed.
HeldInv ==
    /\ \A c \in Clients :
           /\ cpc[c] \in {"get", "ready", "sending", "reading"} => serv_qid[c] # NoQueue
           /\ cpc[c] \in {"ready", "sending", "reading"} => cli_qid[c] # NoQueue
    /\ srv = "half" => sq = NoQueue

LEMMA PairedStep ==
    TypeOK /\ HeldInv /\ QueuesPaired /\ [Next]_vars => (HeldInv /\ QueuesPaired)'
<1> SUFFICES ASSUME TypeOK, HeldInv, QueuesPaired, [Next]_vars PROVE (HeldInv /\ QueuesPaired)'
    OBVIOUS
<1> USE DEF HeldInv, QueuesPaired
<1>1. CASE ServerGetServQueue
  <2>1. sq' = sq \/ (sq = NoQueue /\ \A c \in Clients : serv_qid[c] # sq')
    BY <1>1 DEF ServerGetServQueue, NewQueue
  <2>2. srv' = "get" /\ UNCHANGED <<cpc, serv_qid, cli_qid, cq>>
    BY <1>1 DEF ServerGetServQueue, clientVars
  <2> QED BY <2>1, <2>2
<1>2. CASE ServerGetCliQueue
  <2>1. /\ cq' = cq \/ cq = NoQueue
        /\ srv' \in {"read", "ending"} /\ UNCHANGED <<cpc, serv_qid, cli_qid, sq>>
    BY <1>2 DEF ServerGetCliQueue, Loop, clientVars
  <2> QED BY <2>1
<1>3. CASE ServerEnding
    BY <1>3 DEF ServerEnding, clientVars
<1>4. CASE ServerEnd
    BY <1>4 DEF ServerEnd, clientVars
<1>5. ASSUME UNCHANGED <<sq, cq, cpc, serv_qid, cli_qid>>, srv' # "half" PROVE (HeldInv /\ QueuesPaired)'
    BY <1>5
<1>6. CASE ServerRead \/ ServerExec \/ ServerSendHit \/ ServerSendLast \/ ServerResend
    BY <1>5, <1>6 DEF ServerRead, ServerExec, ServerSendHit, ServerSendLast, ServerResend, Send, Loop,
       clientVars, queueVars
<1>7. CASE ServerCrash \/ SignalInterrupt
    BY <1>5, <1>7 DEF ServerCrash, SignalInterrupt, clientVars, queueVars
<1>8. CASE SignalFlag \/ UNCHANGED vars
    BY <1>8 DEF SignalFlag, vars, clientVars, queueVars
<1>9. ASSUME NEW c \in Clients, ClientGetServQueue(c) \/ ClientGetCliQueue(c) PROVE (HeldInv /\ QueuesPaired)'
  <2>1. CASE ClientGetServQueue(c)
    <3>1. /\ UNCHANGED <<srv, sq, cq, cli_qid>> /\ serv_qid'[c] = sq
          /\ cpc'[c] = IF sq = NoQueue THEN "gone" ELSE "get"
          /\ \A d \in Clients \ {c} : cpc'[d] = cpc[d] /\ serv_qid'[d] = serv_qid[d]
        BY <2>1 DEF ClientGetServQueue, serverVars, queueVars, TypeOK
    <3> QED BY <3>1
  <2>2. CASE ClientGetCliQueue(c)
    <3>1. /\ UNCHANGED <<srv, sq, cq, serv_qid>> /\ cli_qid'[c] = cq
          /\ cpc[c] = "get" /\ cpc'[c] = IF cq = NoQueue THEN "gone" ELSE "ready"
          /\ \A d \in Clients \ {c} : cpc'[d] = cpc[d] /\ cli_qid'[d] = cli_qid[d]
        BY <2>2 DEF ClientGetCliQueue, serverVars, queueVars, TypeOK
    <3> QED BY <3>1
  <2> QED BY <1>9, <2>1, <2>2
<1>10. ASSUME NEW c \in Clients, ClientAsk(c) \/ ClientSend(c) PROVE (HeldInv /\ QueuesPaired)'
    BY <1>10 DEF ClientAsk, ClientSend, serverVars, queueVars, TypeOK
<1>11. ASSUME NEW c \in Clients, ClientRead(c) PROVE (HeldInv /\ QueuesPaired)'
  <2>1. PICK k \in DOMAIN responses : Take(c, k)
    BY <1>11 DEF ClientRead
  <2>2. /\ UNCHANGED <<srv, sq, cq, serv_qid, cli_qid>> /\ cpc[c] = "reading"
        /\ cpc'[c] \in {"ready", "reading"} /\ \A d \in Clients \ {c} : cpc'[d] = cpc[d]
    BY <1>11, <2>1 DEF ClientRead, Take, serverVars, TypeOK
  <2> QED BY <2>2
<1>12. ASSUME NEW c \in Clients, ClientFails(c) \/ ClientEnding(c) \/ ClientCrash(c)
       PROVE  (HeldInv /\ QueuesPaired)'
  <2>1. /\ UNCHANGED <<srv, sq, cq>> /\ cpc'[c] \in {"cut", "gone", "killed"}
        /\ \A d \in Clients \ {c} : /\ cpc'[d] = cpc[d] /\ serv_qid'[d] = serv_qid[d]
                                    /\ cli_qid'[d] = cli_qid[d]
    BY <1>12 DEF ClientFails, ClientEnding, ClientCrash, Exit, serverVars, queueVars, TypeOK
  <2> QED BY <2>1
<1> QED BY <1>1, <1>2, <1>3, <1>4, <1>6, <1>7, <1>8, <1>9, <1>10, <1>11, <1>12
        DEF Next, ServerRuns, ClientRuns

\* A client whose requests reach the server can be answered: whenever a server ends, is
\* killed, or starts between the two steps of a client's start, a client that holds the
\* present queue of requests holds the present queue of responses.
THEOREM ClientsCanHear == Spec => []QueuesPaired
<1>1. Init => HeldInv /\ QueuesPaired
    BY DEF Init, HeldInv, QueuesPaired
<1>2. TypeOK /\ HeldInv /\ QueuesPaired /\ [Next]_vars => (TypeOK /\ HeldInv /\ QueuesPaired)'
    BY TypeStep, PairedStep
<1> QED BY <1>1, <1>2, TypeInit, PTL DEF Spec

-----------------------------------------------------------------------------
(* The inductive invariant of the refinement *)

\* messages of client c, and the request of c in the server's hands
InRequests(c)  == \E k \in DOMAIN requests : requests[k].c = c
InResponses(c) == \E k \in DOMAIN responses : responses[k].c = c
InWork(c)      == srv \in Working /\ cur.c = c
UnderWay(c)    == InRequests(c) \/ InResponses(c) \/ InWork(c)

\* Before a call nothing of the client is under way and all it asked for was done.
CallOk(c) ==
    /\ cpc[c] \in {"off", "get", "ready"} => served[c] = req[c]
    /\ cpc[c] = "sending" => served[c] + 1 = req[c]
    /\ cpc[c] \in {"off", "get", "ready", "sending"} => ~UnderWay(c)

\* A request in the queue is the client's latest, has not been carried out, and is the
\* only trace of it.
RequestOk(c) ==
    \A k \in DOMAIN requests : requests[k].c = c =>
        /\ requests[k].n = req[c] /\ served[c] + 1 = req[c]
        /\ cpc[c] = "reading" => find[c] = requests[k].find
        /\ ~InWork(c) /\ ~InResponses(c)
        /\ \A l \in DOMAIN requests : requests[l].c = c => l = k

\* So is the one in the server's hands, until it is carried out; none of the responses
\* to it that are in the queue ends the answer.
WorkOk(c) ==
    InWork(c) =>
        /\ cur.n = req[c]
        /\ cpc[c] = "reading" => find[c] = cur.find
        /\ srv = "exec" => served[c] + 1 = req[c] /\ ~InResponses(c)
        /\ srv # "exec" => served[c] = req[c]
        /\ \A k \in DOMAIN responses : responses[k].c = c => responses[k].ok /\ cur.find

\* A response comes from a request carried out, and nothing follows the one that ends
\* the answer.
ResponseOk(c) ==
    \A k \in DOMAIN responses : responses[k].c = c =>
        /\ served[c] = req[c]
        /\ cpc[c] = "reading" /\ ~(find[c] /\ responses[k].ok) =>
               ~InWork(c) /\ \A l \in DOMAIN responses : l > k => responses[l].c # c

\* All this for the clients that did not inherit messages with their pid
OwnInv ==
    \A c \in Clients : ~heir[c] => CallOk(c) /\ RequestOk(c) /\ WorkOk(c) /\ ResponseOk(c)

\* What is under way to the pid of such a client, while it lives, is its own.
PidInv ==
    \A c, d \in Clients :
        cpc[c] \in Alive /\ ~heir[c] /\ pid[d] = pid[c] /\ UnderWay(d) => d = c

\* Living clients have different pids.
AloneInv ==
    \A c, d \in Clients :
        cpc[c] \in Alive /\ cpc[d] \in Alive /\ pid[c] = pid[d] => c = d

StartInv == \A c \in Clients : cpc[c] = "off" => req[c] = 0 /\ served[c] = 0 /\ ~heir[c]

SearchInv == srv \in {"hits", "resend"} => cur.find

Core == OwnInv /\ PidInv /\ AloneInv /\ StartInv /\ SearchInv

LEMMA CoreInit == Init => Core
<1> SUFFICES ASSUME Init PROVE Core
    OBVIOUS
<1>1. \A c \in Clients : ~UnderWay(c)
    BY Empty DEF Init, UnderWay, InRequests, InResponses, InWork, Working
<1>2. OwnInv
    BY <1>1 DEF Init, OwnInv, CallOk, RequestOk, WorkOk, ResponseOk, UnderWay, InRequests, InResponses
<1>3. PidInv
    BY <1>1 DEF PidInv
<1> QED BY <1>2, <1>3 DEF Init, Core, AloneInv, StartInv, SearchInv, Alive

\* A step that sends nothing and starts no client
LEMMA PidKept ==
    ASSUME PidInv, AloneInv, heir' = heir,
           \A d \in Clients : UnderWay(d)' => UnderWay(d),
           \A d \in Clients : cpc'[d] \in Alive => cpc[d] \in Alive
    PROVE  PidInv' /\ AloneInv'
<1>1. PidInv'
  <2> SUFFICES ASSUME NEW c \in Clients, NEW d \in Clients,
                      cpc'[c] \in Alive, ~heir'[c], pid[d] = pid[c], UnderWay(d)'
               PROVE  d = c
      BY DEF PidInv
  <2> QED BY DEF PidInv
<1>2. AloneInv'
    BY DEF AloneInv
<1> QED BY <1>1, <1>2

\* A step of the server that changes no client
LEMMA CallKept ==
    ASSUME NEW c \in Clients, CallOk(c), UNCHANGED <<cpc, req>>,
           UnderWay(c)' => UnderWay(c), served'[c] = served[c] \/ UnderWay(c)
    PROVE  CallOk(c)'
BY DEF CallOk

\* The queues stay or are emptied, and the server has no request in its hands.
LEMMA EmptyingStep ==
    ASSUME TypeOK, Core, UNCHANGED <<clientVars, served>>, srv' \notin Working,
           requests' = requests \/ requests' = <<>>,
           responses' = responses \/ responses' = <<>>
    PROVE  Core'
<1>1. \A d \in Clients : /\ InRequests(d)' => InRequests(d)
                         /\ InResponses(d)' => InResponses(d)
                         /\ ~InWork(d)'
    BY Empty DEF InRequests, InResponses, InWork
<1>2. \A d \in Clients : UnderWay(d)' => UnderWay(d)
    BY <1>1 DEF UnderWay
<1>3. PidInv' /\ AloneInv'
    BY <1>2, PidKept DEF Core, clientVars
<1>4. ASSUME NEW c \in Clients, ~heir[c]
      PROVE  CallOk(c)' /\ RequestOk(c)' /\ WorkOk(c)' /\ ResponseOk(c)'
  <2>1. CallOk(c)'
    BY <1>2, <1>4, CallKept DEF Core, OwnInv, clientVars
  <2>2. RequestOk(c)'
    BY <1>1, <1>4, Empty DEF Core, OwnInv, RequestOk, clientVars
  <2>3. WorkOk(c)'
    BY <1>1 DEF WorkOk
  <2>4. ResponseOk(c)'
    BY <1>1, <1>4, Empty DEF Core, OwnInv, ResponseOk, clientVars
  <2> QED BY <2>1, <2>2, <2>3, <2>4
<1>5. OwnInv'
    BY <1>4 DEF OwnInv, clientVars
<1>6. StartInv' /\ SearchInv'
    BY DEF Core, StartInv, SearchInv, clientVars, Working
<1> QED BY <1>3, <1>5, <1>6 DEF Core

LEMMA ReadStep == TypeOK /\ Core /\ ServerRead => Core'
<1> SUFFICES ASSUME TypeOK, Core, ServerRead PROVE Core'
    OBVIOUS
<1>0. /\ UNCHANGED <<responses, served, clientVars>>
      /\ srv = "read" /\ srv' = "exec"
      /\ requests \in Seq(Request) /\ requests # <<>>
      /\ cur' = requests[1] /\ requests' = Tail(requests)
    BY FirstTaken DEF ServerRead, TypeOK
<1>1. /\ DOMAIN requests = 1..Len(requests) /\ Len(requests) \in Nat /\ Len(requests) >= 1
      /\ DOMAIN requests' = 1..(Len(requests) - 1)
      /\ \A k \in DOMAIN requests' : requests'[k] = requests[k + 1] /\ k + 1 \in DOMAIN requests /\ k + 1 # 1
      /\ 1 \in DOMAIN requests
    BY <1>0, FirstTaken
<1>2. \A d \in Clients : /\ InRequests(d)' => InRequests(d)
                         /\ InResponses(d)' = InResponses(d)
                         /\ ~InWork(d)
                         /\ InWork(d)' => cur'.c = d /\ InRequests(d)
    BY <1>0, <1>1 DEF InRequests, InResponses, InWork, Working
<1>3. \A d \in Clients : UnderWay(d)' => UnderWay(d)
    BY <1>2 DEF UnderWay
<1>4. PidInv' /\ AloneInv'
    BY <1>0, <1>3, PidKept DEF Core, clientVars
<1>5. ASSUME NEW c \in Clients, ~heir[c]
      PROVE  CallOk(c)' /\ RequestOk(c)' /\ WorkOk(c)' /\ ResponseOk(c)'
  <2>0. CallOk(c) /\ RequestOk(c) /\ WorkOk(c) /\ ResponseOk(c) /\ UNCHANGED <<cpc, req, find, served, responses>>
    BY <1>0, <1>5 DEF Core, OwnInv, clientVars
  <2>1. CallOk(c)'
    BY <1>3, <2>0, CallKept
  <2>2. RequestOk(c)'
    <3> SUFFICES ASSUME NEW k \in DOMAIN requests', requests'[k].c = c
                 PROVE  /\ requests'[k].n = req[c] /\ served[c] + 1 = req[c]
                        /\ cpc[c] = "reading" => find[c] = requests'[k].find
                        /\ ~InWork(c)' /\ ~InResponses(c)
                        /\ \A l \in DOMAIN requests' : requests'[l].c = c => l = k
        BY <1>2, <2>0 DEF RequestOk
    <3>1. requests[k + 1].c = c /\ k + 1 \in DOMAIN requests /\ k + 1 # 1
        BY <1>1
    <3>2. /\ requests'[k].n = req[c] /\ served[c] + 1 = req[c]
          /\ cpc[c] = "reading" => find[c] = requests'[k].find
          /\ ~InResponses(c)
          /\ \A l \in DOMAIN requests : requests[l].c = c => l = k + 1
        BY <1>1, <2>0, <3>1 DEF RequestOk
    <3>3. ~InWork(c)'
        BY <1>0, <1>1, <1>2, <3>1, <3>2
    <3>4. \A l \in DOMAIN requests' : requests'[l].c = c => l = k
        BY <1>1, <3>2
    <3> QED BY <3>2, <3>3, <3>4
  <2>3. WorkOk(c)'
    <3> SUFFICES ASSUME InWork(c)' PROVE WorkOk(c)'
        BY DEF WorkOk
    <3>1. requests[1].c = c
        BY <1>0, <1>2
    <3>2. /\ requests[1].n = req[c] /\ served[c] + 1 = req[c]
          /\ cpc[c] = "reading" => find[c] = requests[1].find
          /\ ~InResponses(c)
        BY <1>1, <2>0, <3>1 DEF RequestOk
    <3> QED BY <1>0, <1>2, <2>0, <3>2 DEF WorkOk, InResponses
  <2>4. ResponseOk(c)'
    <3> SUFFICES ASSUME InResponses(c) PROVE ResponseOk(c)'
        BY <2>0 DEF ResponseOk, InResponses
    <3>1. ~InWork(c)'
        BY <1>0, <1>1, <1>2, <2>0 DEF RequestOk
    <3> QED BY <2>0, <3>1 DEF ResponseOk
  <2> QED BY <2>1, <2>2, <2>3, <2>4
<1>6. OwnInv'
    BY <1>0, <1>5 DEF OwnInv, clientVars
<1>7. StartInv' /\ SearchInv'
    BY <1>0 DEF Core, StartInv, SearchInv, clientVars
<1> QED BY <1>4, <1>6, <1>7 DEF Core

LEMMA ExecStep == TypeOK /\ Core /\ ServerExec => Core'
<1> SUFFICES ASSUME TypeOK, Core, ServerExec PROVE Core'
    OBVIOUS
<1>0. /\ UNCHANGED <<requests, responses, cur, clientVars>>
      /\ srv = "exec" /\ srv' \in {"hits", "last"} /\ (srv' = "hits" => cur.find)
      /\ cur.c \in Clients /\ served' = [served EXCEPT ![cur.c] = cur.n]
      /\ served \in [Clients -> Nat]
    BY DEF ServerExec, queueVars, TypeOK, Request
<1>2. \A d \in Clients : /\ InRequests(d)' = InRequests(d)
                         /\ InResponses(d)' = InResponses(d)
                         /\ InWork(d)' = InWork(d)
                         /\ InWork(d) <=> d = cur.c
    BY <1>0 DEF InRequests, InResponses, InWork, Working
<1>3. \A d \in Clients : UnderWay(d)' => UnderWay(d)
    BY <1>2 DEF UnderWay
<1>4. PidInv' /\ AloneInv'
    BY <1>0, <1>3, PidKept DEF Core, clientVars
<1>5. ASSUME NEW c \in Clients, ~heir[c]
      PROVE  CallOk(c)' /\ RequestOk(c)' /\ WorkOk(c)' /\ ResponseOk(c)'
  <2>0. CallOk(c) /\ RequestOk(c) /\ WorkOk(c) /\ ResponseOk(c)
        /\ UNCHANGED <<cpc, req, find, requests, responses, cur>>
    BY <1>0, <1>5 DEF Core, OwnInv, clientVars
  <2>1. CASE c = cur.c
    <3>1. cur.n = req[c] /\ served'[c] = req[c] /\ ~InResponses(c) /\ InWork(c) /\ InWork(c)'
          /\ (cpc[c] = "reading" => find[c] = cur.find)
        BY <1>0, <1>2, <2>0, <2>1 DEF WorkOk
    <3>2. ~InRequests(c)
        BY <2>0, <3>1 DEF RequestOk, InRequests
    <3>3. CallOk(c)'
        BY <1>3, <2>0, <3>1, CallKept DEF UnderWay
    <3> QED BY <1>0, <1>2, <2>0, <3>1, <3>2, <3>3 DEF RequestOk, WorkOk, ResponseOk, InRequests, InResponses
  <2>2. CASE c # cur.c
    <3>1. served'[c] = served[c] /\ ~InWork(c) /\ ~InWork(c)'
        BY <1>0, <1>2, <2>2
    <3>2. CallOk(c)'
        BY <1>3, <2>0, <3>1, CallKept
    <3> QED BY <1>2, <2>0, <3>1, <3>2 DEF RequestOk, WorkOk, ResponseOk
  <2> QED BY <2>1, <2>2
<1>6. OwnInv'
    BY <1>0, <1>5 DEF OwnInv, clientVars
<1>7. StartInv' /\ SearchInv'
  <2>1. SearchInv'
    BY <1>0 DEF SearchInv
  <2>2. ASSUME NEW c \in Clients, cpc[c] = "off" PROVE c # cur.c /\ ~heir[c]
    BY <1>2, <2>2 DEF Core, StartInv, OwnInv, CallOk, UnderWay
  <2> QED BY <1>0, <2>1, <2>2 DEF Core, StartInv, clientVars
<1> QED BY <1>4, <1>6, <1>7 DEF Core

\* A response goes into the queue; the answer goes on, if it is to a search, or is over.
LEMMA SendStep ==
    ASSUME TypeOK, Core, NEW ok \in BOOLEAN, Send(ok), srv \in Working \ {"exec"},
           \/ UNCHANGED <<srv, cur>> /\ ok /\ cur.find
           \/ srv' \notin Working
    PROVE  Core'
<1> DEFINE new == [c |-> cur.c, n |-> cur.n, i |-> idx, ok |-> ok]
<1>0. /\ UNCHANGED <<requests, served, clientVars>> /\ responses' = Append(responses, new)
      /\ new \in Response /\ new.c = cur.c /\ new.ok = ok /\ responses \in Seq(Response)
      /\ cur.c \in Clients
    BY DEF Send, TypeOK, Request, Response
<1> HIDE DEF new
<1>1. /\ DOMAIN responses = 1..Len(responses) /\ Len(responses) \in Nat
      /\ DOMAIN responses' = 1..(Len(responses) + 1)
      /\ \A k \in 1..Len(responses) : responses'[k] = responses[k]
      /\ responses'[Len(responses) + 1] = new
    BY <1>0, Appended
<1>2. \A d \in Clients : /\ InRequests(d)' = InRequests(d)
                         /\ InResponses(d)' <=> InResponses(d) \/ d = cur.c
                         /\ InWork(d) <=> d = cur.c
                         /\ InWork(d)' => InWork(d)
  <2> TAKE d \in Clients
  <2>1. InRequests(d)' = InRequests(d)
    BY <1>0 DEF InRequests
  <2>2. InResponses(d)' => InResponses(d) \/ d = cur.c
    <3> SUFFICES ASSUME NEW k \in DOMAIN responses', responses'[k].c = d, d # cur.c
                 PROVE  responses[k].c = d /\ k \in DOMAIN responses
        BY DEF InResponses
    <3> QED BY <1>0, <1>1
  <2>3. InResponses(d) => InResponses(d)'
    BY <1>1 DEF InResponses
  <2>4. d = cur.c => InResponses(d)'
    BY <1>0, <1>1 DEF InResponses
  <2>5. (InWork(d) <=> d = cur.c) /\ (InWork(d)' => InWork(d))
    BY DEF InWork, Working
  <2> QED BY <2>1, <2>2, <2>3, <2>4, <2>5
<1>3. \A d \in Clients : UnderWay(d)' => UnderWay(d)
    BY <1>2 DEF UnderWay
<1>4. PidInv' /\ AloneInv'
    BY <1>0, <1>3, PidKept DEF Core, clientVars
<1>5. ASSUME NEW c \in Clients, ~heir[c]
      PROVE  CallOk(c)' /\ RequestOk(c)' /\ WorkOk(c)' /\ ResponseOk(c)'
  <2>0. CallOk(c) /\ RequestOk(c) /\ WorkOk(c) /\ ResponseOk(c)
        /\ UNCHANGED <<cpc, req, find, served, requests>>
    BY <1>0, <1>5 DEF Core, OwnInv, clientVars
  <2>1. CallOk(c)'
    BY <1>3, <2>0, CallKept
  <2>2. RequestOk(c)'
    BY <1>2, <2>0 DEF RequestOk
  <2>3. WorkOk(c)'
    <3> SUFFICES ASSUME InWork(c)' PROVE WorkOk(c)'
        BY DEF WorkOk
    <3>1. c = cur.c /\ InWork(c) /\ UNCHANGED <<srv, cur>> /\ ok /\ cur.find
        BY <1>2 DEF InWork
    <3>2. ASSUME NEW k \in DOMAIN responses', responses'[k].c = c PROVE responses'[k].ok
      <4>1. CASE k \in DOMAIN responses
        BY <1>1, <2>0, <3>1, <3>2, <4>1 DEF WorkOk
      <4>2. CASE k \notin DOMAIN responses
        <5>1. responses'[k] = new
            BY <1>1, <4>2
        <5>2. new.ok = TRUE
            BY <1>0, <3>1
        <5> QED BY <5>1, <5>2
      <4> QED BY <4>1, <4>2
    <3> QED BY <2>0, <3>1, <3>2 DEF WorkOk
  <2>4. ResponseOk(c)'
    <3>1. CASE c # cur.c
      <4>1. ~InWork(c)' /\ \A k \in DOMAIN responses' :
                responses'[k].c = c => k \in DOMAIN responses /\ responses'[k] = responses[k]
        BY <1>0, <1>1, <1>2, <3>1
      <4> QED BY <2>0, <4>1 DEF ResponseOk
    <3>2. CASE c = cur.c
      <4>1. InWork(c) /\ served[c] = req[c] /\ (cpc[c] = "reading" => find[c] = cur.find)
        BY <1>2, <2>0, <3>2 DEF WorkOk
      <4>2. ASSUME NEW k \in DOMAIN responses', responses'[k].c = c,
                   cpc[c] = "reading", ~(find[c] /\ responses'[k].ok)
            PROVE  ~InWork(c)' /\ \A l \in DOMAIN responses' : l > k => responses'[l].c # c
        <5>1. k \notin DOMAIN responses
            BY <1>1, <2>0, <4>1, <4>2 DEF ResponseOk
        <5>2. k = Len(responses) + 1 /\ responses'[k].ok = ok
            BY <1>0, <1>1, <5>1
        <5>3. ~InWork(c)'
            BY <4>1, <4>2, <5>2 DEF InWork
        <5> QED BY <1>1, <5>2, <5>3
      <4> QED BY <2>0, <4>1, <4>2 DEF ResponseOk
    <3> QED BY <3>1, <3>2
  <2> QED BY <2>1, <2>2, <2>3, <2>4
<1>6. OwnInv'
    BY <1>0, <1>5 DEF OwnInv, clientVars
<1>7. StartInv' /\ SearchInv'
    BY <1>0 DEF Core, StartInv, SearchInv, clientVars, Working
<1> QED BY <1>4, <1>6, <1>7 DEF Core

LEMMA ServerStep == TypeOK /\ Core /\ ServerRuns => Core'
<1> SUFFICES ASSUME TypeOK, Core, ServerRuns PROVE Core'
    OBVIOUS
<1>1. CASE ServerSendHit
  <2>1. Send(TRUE) /\ srv = "hits" /\ UNCHANGED <<srv, cur>> /\ cur.find
    BY <1>1 DEF ServerSendHit, Core, SearchInv
  <2> QED BY <2>1, SendStep DEF Working
<1>2. CASE ServerSendLast
  <2>1. Send(~cur.find) /\ srv \in {"hits", "last"} /\ srv' \in {"read", "ending"}
    BY <1>2 DEF ServerSendLast, AtLast, Loop
  <2>2. (~cur.find) \in BOOLEAN
    OBVIOUS
  <2> QED BY <2>1, <2>2, SendStep DEF Working
<1>3. CASE ServerResend
  <2>1. Send(TRUE) /\ srv = "resend" /\ srv' \in {"read", "ending"}
    BY <1>3 DEF ServerResend, Loop
  <2> QED BY <2>1, SendStep DEF Working
<1>4. CASE ServerGetCliQueue \/ ServerEnding \/ ServerEnd
    BY <1>4, EmptyingStep DEF ServerGetCliQueue, ServerEnding, ServerEnd, Loop, Working
<1> QED BY <1>1, <1>2, <1>3, <1>4, ReadStep, ExecStep DEF ServerRuns

LEMMA EnvironmentStep ==
    TypeOK /\ Core /\ (ServerGetServQueue \/ ServerCrash \/ SignalFlag \/ SignalInterrupt) => Core'
<1> SUFFICES ASSUME TypeOK, Core, ServerGetServQueue \/ ServerCrash \/ SignalFlag \/ SignalInterrupt
             PROVE  Core'
    OBVIOUS
<1>1. CASE ServerGetServQueue
    BY <1>1, EmptyingStep DEF ServerGetServQueue, Working
<1>2. CASE ServerCrash
    BY <1>2, EmptyingStep DEF ServerCrash, queueVars, Working
<1>3. ASSUME UNCHANGED <<queueVars, served, clientVars, cur>>,
             srv' = srv \/ (srv = "hits" /\ srv' = "resend")
      PROVE  Core'
  <2>1. \A d \in Clients : /\ InRequests(d)' = InRequests(d)
                           /\ InResponses(d)' = InResponses(d)
                           /\ InWork(d)' = InWork(d)
    BY <1>3 DEF InRequests, InResponses, InWork, queueVars, Working
  <2>2. \A d \in Clients : UnderWay(d)' => UnderWay(d)
    BY <2>1 DEF UnderWay
  <2>3. PidInv' /\ AloneInv'
    BY <1>3, <2>2, PidKept DEF Core, clientVars
  <2>4. ASSUME NEW c \in Clients, ~heir[c]
        PROVE  CallOk(c)' /\ RequestOk(c)' /\ WorkOk(c)' /\ ResponseOk(c)'
    <3>0. CallOk(c) /\ RequestOk(c) /\ WorkOk(c) /\ ResponseOk(c)
          /\ UNCHANGED <<cpc, req, find, served, requests, responses, cur>>
        BY <1>3, <2>4 DEF Core, OwnInv, clientVars, queueVars
    <3>1. CallOk(c)'
        BY <2>2, <3>0, CallKept
    <3> QED BY <1>3, <2>1, <3>0, <3>1 DEF RequestOk, WorkOk, ResponseOk
  <2>5. OwnInv'
    BY <1>3, <2>4 DEF OwnInv, clientVars
  <2>6. StartInv' /\ SearchInv'
    BY <1>3 DEF Core, StartInv, SearchInv, clientVars
  <2> QED BY <2>3, <2>5, <2>6 DEF Core
<1>4. CASE SignalFlag
    BY <1>3, <1>4 DEF SignalFlag
<1>5. CASE SignalInterrupt
  <2>1. CASE srv' = "ending"
    BY <1>5, <2>1, EmptyingStep DEF SignalInterrupt, queueVars, Working
  <2>2. CASE srv' # "ending"
    BY <1>3, <1>5, <2>2 DEF SignalInterrupt
  <2> QED BY <2>1, <2>2
<1> QED BY <1>1, <1>2, <1>4, <1>5

\* A client with nothing under way satisfies all but CallOk.
LEMMA NothingUnderWay ==
    ASSUME NEW c \in Clients, ~UnderWay(c)
    PROVE  RequestOk(c) /\ WorkOk(c) /\ ResponseOk(c)
BY DEF UnderWay, InRequests, InWork, InResponses, RequestOk, WorkOk, ResponseOk

\* Steps of one client that leave the queues alone: nothing changes for the others ...
LEMMA OthersKept ==
    ASSUME NEW c \in Clients, CallOk(c), RequestOk(c), WorkOk(c), ResponseOk(c),
           UNCHANGED <<requests, responses, srv, cur, served>>,
           cpc'[c] = cpc[c], req'[c] = req[c], find'[c] = find[c]
    PROVE  CallOk(c)' /\ RequestOk(c)' /\ WorkOk(c)' /\ ResponseOk(c)'
<1>1. /\ InRequests(c)' = InRequests(c) /\ InResponses(c)' = InResponses(c)
      /\ InWork(c)' = InWork(c) /\ UnderWay(c)' = UnderWay(c)
    BY DEF InRequests, InResponses, InWork, UnderWay
<1> QED BY <1>1 DEF CallOk, RequestOk, WorkOk, ResponseOk

\* ... and for the client itself there is its own part of OwnInv to show.
LEMMA ClientMoves ==
    ASSUME TypeOK, Core, NEW c \in Clients, UNCHANGED <<requests, responses, srv, cur, served>>,
           \A d \in Clients \ {c} : /\ cpc'[d] = cpc[d] /\ req'[d] = req[d]
                                    /\ find'[d] = find[d] /\ heir'[d] = heir[d],
           heir' = heir, cpc'[c] # "off", cpc'[c] \in Alive => cpc[c] \in Alive,
           ~heir[c] => CallOk(c)' /\ RequestOk(c)' /\ WorkOk(c)' /\ ResponseOk(c)'
    PROVE  Core'
<1>1. \A d \in Clients : UnderWay(d)' => UnderWay(d)
    BY DEF InRequests, InResponses, InWork, UnderWay
<1>2. PidInv' /\ AloneInv'
    BY <1>1, PidKept DEF Core
<1>3. ASSUME NEW d \in Clients \ {c}, ~heir[d]
      PROVE  CallOk(d)' /\ RequestOk(d)' /\ WorkOk(d)' /\ ResponseOk(d)'
    BY <1>3, OthersKept DEF Core, OwnInv
<1>4. OwnInv'
    BY <1>3 DEF OwnInv
<1>5. StartInv' /\ SearchInv'
    BY DEF Core, StartInv, SearchInv
<1> QED BY <1>2, <1>4, <1>5 DEF Core

\* A client whose call is broken off, or that leaves
LEMMA LeaveStep ==
    ASSUME TypeOK, Core, NEW c \in Clients, ClientFails(c) \/ ClientEnding(c) \/ ClientCrash(c)
    PROVE  Core'
<1>1. /\ UNCHANGED <<requests, responses, srv, cur, served, req, heir>>
      /\ cpc'[c] \in {"cut", "gone", "killed"} /\ cpc[c] \in Alive
      /\ \A d \in Clients \ {c} : cpc'[d] = cpc[d] /\ find'[d] = find[d]
    BY DEF ClientFails, ClientEnding, ClientCrash, Exit, serverVars, queueVars, TypeOK, Alive
<1>2. ASSUME ~heir[c] PROVE CallOk(c)' /\ RequestOk(c)' /\ WorkOk(c)' /\ ResponseOk(c)'
  <2>0. RequestOk(c) /\ WorkOk(c) /\ ResponseOk(c)
    BY <1>2 DEF Core, OwnInv
  <2>1. /\ InRequests(c)' = InRequests(c) /\ InResponses(c)' = InResponses(c)
        /\ InWork(c)' = InWork(c)
    BY <1>1 DEF InRequests, InResponses, InWork
  <2>2. CallOk(c)'
    BY <1>1 DEF CallOk
  <2> QED BY <1>1, <2>0, <2>1, <2>2 DEF RequestOk, WorkOk, ResponseOk
<1> QED BY <1>1, <1>2, ClientMoves

LEMMA ReadyStep ==
    ASSUME TypeOK, Core, NEW c \in Clients, ClientGetCliQueue(c) \/ ClientAsk(c)
    PROVE  Core'
<1>1. /\ UNCHANGED <<requests, responses, srv, cur, served, heir>>
      /\ \A d \in Clients \ {c} : cpc'[d] = cpc[d] /\ req'[d] = req[d] /\ find'[d] = find[d]
      /\ cpc[c] \in {"get", "ready"} /\ cpc'[c] \in {"ready", "gone", "sending"}
      /\ cpc'[c] = "sending" => req'[c] = req[c] + 1
      /\ cpc'[c] = "ready" => req'[c] = req[c]
      /\ served[c] \in Nat /\ req[c] \in Nat
    BY DEF ClientGetCliQueue, ClientAsk, serverVars, queueVars, TypeOK
<1>2. ASSUME ~heir[c] PROVE CallOk(c)' /\ RequestOk(c)' /\ WorkOk(c)' /\ ResponseOk(c)'
  <2>1. ~UnderWay(c) /\ served[c] = req[c]
    BY <1>1, <1>2 DEF Core, OwnInv, CallOk
  <2>2. ~UnderWay(c)'
    BY <1>1, <2>1 DEF UnderWay, InRequests, InResponses, InWork
  <2>3. RequestOk(c)' /\ WorkOk(c)' /\ ResponseOk(c)'
    BY <2>2 DEF UnderWay, InRequests, InWork, InResponses, RequestOk, WorkOk, ResponseOk
  <2>4. CallOk(c)'
    BY <1>1, <2>1, <2>2 DEF CallOk
  <2> QED BY <2>3, <2>4
<1>3. cpc'[c] \in Alive => cpc[c] \in Alive
    BY <1>1 DEF Alive
<1> QED BY <1>1, <1>2, <1>3, ClientMoves

\* A process starts that has its pid alone; it is an heir if messages for the pid are there.
LEMMA StartStep ==
    ASSUME TypeOK, Core, NEW c \in Clients, ClientGetServQueue(c)
    PROVE  Core'
<1>1. /\ UNCHANGED <<requests, responses, srv, cur, served, req, find>>
      /\ cpc[c] = "off" /\ cpc'[c] \in {"get", "gone"}
      /\ \A d \in Clients \ {c} : cpc'[d] = cpc[d] /\ heir'[d] = heir[d]
      /\ \A d \in Clients : pid[d] = pid[c] => cpc[d] \notin Alive
      /\ req[c] = 0 /\ served[c] = 0 /\ ~heir[c] /\ cpc[c] \notin Alive
    BY DEF ClientGetServQueue, serverVars, queueVars, TypeOK, Core, StartInv, Alive
<1>2. heir'[c] <=> Leftover(pid[c])
    BY Zenon DEF ClientGetServQueue, TypeOK
<1>3. ASSUME ~heir'[c], NEW d \in Clients, pid[d] = pid[c] PROVE ~UnderWay(d)
    BY <1>2, <1>3 DEF Leftover, UnderWay, InRequests, InResponses, InWork
<1>4. \A d \in Clients : UnderWay(d)' = UnderWay(d)
    BY <1>1 DEF UnderWay, InRequests, InResponses, InWork
<1>5. ASSUME NEW d \in Clients, ~heir'[d]
      PROVE  CallOk(d)' /\ RequestOk(d)' /\ WorkOk(d)' /\ ResponseOk(d)'
  <2>1. CASE d # c
    BY <1>1, <1>5, <2>1, OthersKept DEF Core, OwnInv
  <2>2. CASE d = c
    <3>1. ~UnderWay(c)'
        BY <1>3, <1>4, <1>5, <2>2
    <3>2. RequestOk(c)' /\ WorkOk(c)' /\ ResponseOk(c)'
        BY <3>1 DEF UnderWay, InRequests, InWork, InResponses, RequestOk, WorkOk, ResponseOk
    <3>3. CallOk(c)'
        BY <1>1, <3>1 DEF CallOk
    <3> QED BY <2>2, <3>2, <3>3
  <2> QED BY <2>1, <2>2
<1>6. OwnInv'
    BY <1>5 DEF OwnInv
<1>7. PidInv'
  <2> SUFFICES ASSUME NEW e \in Clients, NEW d \in Clients,
                      cpc'[e] \in Alive, ~heir'[e], pid[d] = pid[e], UnderWay(d)
               PROVE  d = e
      BY <1>4 DEF PidInv
  <2>1. CASE e = c
    BY <1>3, <2>1
  <2>2. CASE e # c
    BY <1>1, <2>2 DEF Core, PidInv
  <2> QED BY <2>1, <2>2
<1>8. AloneInv'
    BY <1>1 DEF Core, AloneInv
<1>9. StartInv' /\ SearchInv'
    BY <1>1 DEF Core, StartInv, SearchInv
<1> QED BY <1>6, <1>7, <1>8, <1>9 DEF Core

LEMMA AskStep ==
    ASSUME TypeOK, Core, NEW c \in Clients, ClientSend(c)
    PROVE  Core'
<1> DEFINE new == [c |-> c, n |-> req[c], find |-> find[c]]
<1>0. /\ UNCHANGED <<responses, srv, cur, served, req, find, heir>>
      /\ requests' = Append(requests, new) /\ requests \in Seq(Request)
      /\ new \in Request /\ new.c = c /\ new.n = req[c] /\ new.find = find[c]
      /\ cpc[c] = "sending" /\ cpc'[c] = "reading"
      /\ \A d \in Clients \ {c} : cpc'[d] = cpc[d]
    BY DEF ClientSend, serverVars, TypeOK, Request
<1> HIDE DEF new
<1>1. /\ DOMAIN requests = 1..Len(requests) /\ Len(requests) \in Nat
      /\ DOMAIN requests' = 1..(Len(requests) + 1)
      /\ \A k \in 1..Len(requests) : requests'[k] = requests[k]
      /\ requests'[Len(requests) + 1] = new
    BY <1>0, Appended
<1>2. \A d \in Clients : /\ InRequests(d)' => InRequests(d) \/ d = c
                         /\ InResponses(d)' = InResponses(d)
                         /\ InWork(d)' = InWork(d)
  <2> TAKE d \in Clients
  <2>1. InRequests(d)' => InRequests(d) \/ d = c
    <3> SUFFICES ASSUME NEW k \in DOMAIN requests', requests'[k].c = d, d # c
                 PROVE  requests[k].c = d /\ k \in DOMAIN requests
        BY DEF InRequests
    <3> QED BY <1>0, <1>1
  <2> QED BY <1>0, <2>1 DEF InResponses, InWork
<1>3. \A d \in Clients : UnderWay(d)' => UnderWay(d) \/ d = c
    BY <1>2 DEF UnderWay
<1>4. cpc[c] \in Alive /\ \A d \in Clients : cpc'[d] \in Alive => cpc[d] \in Alive
    BY <1>0 DEF Alive
<1>5. AloneInv'
    BY <1>4 DEF Core, AloneInv
<1>6. PidInv'
  <2> SUFFICES ASSUME NEW e \in Clients, NEW d \in Clients,
                      cpc'[e] \in Alive, ~heir[e], pid[d] = pid[e], UnderWay(d)'
               PROVE  d = e
      BY <1>0 DEF PidInv
  <2>1. CASE d = c
    BY <1>4, <2>1 DEF Core, AloneInv
  <2>2. CASE d # c
    BY <1>3, <1>4, <2>2 DEF Core, PidInv
  <2> QED BY <2>1, <2>2
<1>7. ASSUME NEW d \in Clients, ~heir[d]
      PROVE  CallOk(d)' /\ RequestOk(d)' /\ WorkOk(d)' /\ ResponseOk(d)'
  <2>0. CallOk(d) /\ RequestOk(d) /\ WorkOk(d) /\ ResponseOk(d)
    BY <1>7 DEF Core, OwnInv
  <2>1. CASE d = c
    <3>1. ~InRequests(c) /\ ~InResponses(c) /\ ~InWork(c) /\ served[c] + 1 = req[c]
        BY <1>0, <2>0, <2>1 DEF CallOk, UnderWay
    <3>2. ~InResponses(c)' /\ ~InWork(c)'
        BY <1>2, <3>1
    <3>3. CallOk(c)'
        BY <1>0 DEF CallOk
    <3>4. WorkOk(c)' /\ ResponseOk(c)'
        BY <3>2 DEF WorkOk, ResponseOk, InResponses
    <3>5. RequestOk(c)'
      <4> SUFFICES ASSUME NEW k \in DOMAIN requests', requests'[k].c = c
                   PROVE  /\ requests'[k].n = req[c] /\ served[c] + 1 = req[c]
                          /\ find[c] = requests'[k].find
                          /\ \A l \in DOMAIN requests' : requests'[l].c = c => l = k
          BY <1>0, <3>2 DEF RequestOk
      <4>1. \A l \in DOMAIN requests' : requests'[l].c = c => l = Len(requests) + 1
          BY <1>1, <3>1 DEF InRequests
      <4>2. requests'[k] = new
          BY <1>1, <4>1
      <4> QED BY <1>0, <3>1, <4>1, <4>2
    <3> QED BY <2>1, <3>3, <3>4, <3>5
  <2>2. CASE d # c
    <3>1. \A k \in DOMAIN requests' : requests'[k].c = d => k \in DOMAIN requests /\ requests'[k] = requests[k]
        BY <1>0, <1>1, <2>2
    <3>2. cpc'[d] = cpc[d] /\ UNCHANGED <<responses, srv, cur, served, req, find>> /\ (UnderWay(d)' => UnderWay(d))
        BY <1>0, <1>3, <2>2
    <3>3. CallOk(d)'
        BY <2>0, <3>2 DEF CallOk
    <3> QED BY <1>2, <2>0, <3>1, <3>2, <3>3 DEF RequestOk, WorkOk, ResponseOk
  <2> QED BY <2>1, <2>2
<1>8. OwnInv'
    BY <1>0, <1>7 DEF OwnInv
<1>9. StartInv' /\ SearchInv'
    BY <1>0 DEF Core, StartInv, SearchInv
<1> QED BY <1>5, <1>6, <1>8, <1>9 DEF Core

\* What a client reads is the first response that carries its pid: its own, unless it
\* inherited messages, and one that answers its present request.
LEMMA OwnResponse ==
    ASSUME TypeOK, Core, NEW c \in Clients, ~heir[c], cpc[c] = "reading",
           NEW k \in DOMAIN responses, FirstFor(pid[c], k)
    PROVE  /\ responses[k].c = c /\ served[c] = req[c]
           /\ ~(find[c] /\ responses[k].ok) =>
                  ~InWork(c) /\ \A l \in DOMAIN responses : l # k => responses[l].c # c
<1>1. responses[k].c \in Clients /\ DOMAIN responses = 1..Len(responses) /\ Len(responses) \in Nat
  <2>1. responses \in Seq(Response)
    BY DEF TypeOK
  <2>2. responses[k] \in Response
    BY <2>1
  <2> QED BY <2>1, <2>2 DEF Response
<1>2. responses[k].c = c
  <2>1. UnderWay(responses[k].c) /\ pid[responses[k].c] = pid[c] /\ cpc[c] \in Alive
    BY DEF UnderWay, InResponses, FirstFor, Alive
  <2> QED BY <1>1, <2>1 DEF Core, PidInv
<1>3. ResponseOk(c)
    BY DEF Core, OwnInv
<1>4. ASSUME ~(find[c] /\ responses[k].ok), NEW l \in DOMAIN responses, l # k PROVE responses[l].c # c
  <2>1. CASE l > k
    BY <1>2, <1>3, <1>4, <2>1 DEF ResponseOk
  <2>2. CASE l < k
    <3>1. l \in 1..(k - 1)
        BY <1>1, <2>2
    <3> QED BY <3>1 DEF FirstFor
  <2> QED BY <1>1, <1>4, <2>1, <2>2
<1>5. ~(find[c] /\ responses[k].ok) => ~InWork(c)
    BY <1>2, <1>3 DEF ResponseOk
<1> QED BY <1>2, <1>3, <1>4, <1>5 DEF ResponseOk

LEMMA TakeStep ==
    ASSUME TypeOK, Core, NEW c \in Clients, ClientRead(c)
    PROVE  Core'
<1>0. PICK k \in DOMAIN responses : FirstFor(pid[c], k) /\ Take(c, k)
    BY DEF ClientRead
<1>1. /\ cpc[c] = "reading" /\ UNCHANGED <<requests, srv, cur, served, req, heir>>
      /\ \A d \in Clients \ {c} : cpc'[d] = cpc[d] /\ find'[d] = find[d]
      /\ find[c] /\ responses[k].ok => UNCHANGED <<cpc, find>>
      /\ ~(find[c] /\ responses[k].ok) => cpc'[c] = "ready"
    BY <1>0 DEF ClientRead, Take, serverVars, TypeOK
<1> DEFINE old(j) == IF j < k THEN j ELSE j + 1
<1>2. /\ DOMAIN responses = 1..Len(responses) /\ Len(responses) \in Nat /\ k \in 1..Len(responses)
      /\ DOMAIN responses' = 1..(Len(responses) - 1)
      /\ \A j \in DOMAIN responses' : /\ old(j) \in DOMAIN responses /\ old(j) # k
                                      /\ responses'[j] = responses[old(j)]
  <2>1. responses' = RemoveAt(responses, k) /\ responses \in Seq(Response)
    BY <1>0 DEF Take, TypeOK
  <2>2. /\ DOMAIN responses = 1..Len(responses) /\ Len(responses) \in Nat /\ k \in 1..Len(responses)
        /\ DOMAIN responses' = 1..(Len(responses) - 1)
        /\ \A i \in 1..(Len(responses) - 1) :
               responses'[i] = IF i < k THEN responses[i] ELSE responses[i + 1]
    BY <2>1, Removed
  <2> QED BY <2>2
<1>3. \A i, j \in DOMAIN responses' : i < j => old(i) < old(j)
    BY <1>2
<1> HIDE DEF old
<1>4. \A d \in Clients : /\ InRequests(d)' = InRequests(d)
                         /\ InResponses(d)' => InResponses(d)
                         /\ InWork(d)' = InWork(d)
    BY <1>1, <1>2 DEF InRequests, InResponses, InWork
<1>5. \A d \in Clients : UnderWay(d)' => UnderWay(d)
    BY <1>4 DEF UnderWay
<1>6. PidInv' /\ AloneInv'
    BY <1>1, <1>5, PidKept DEF Core, Alive
<1>7. ASSUME NEW d \in Clients, ~heir[d], cpc'[d] = cpc[d], find'[d] = find[d]
      PROVE  CallOk(d)' /\ RequestOk(d)' /\ WorkOk(d)' /\ ResponseOk(d)'
  <2>0. CallOk(d) /\ RequestOk(d) /\ WorkOk(d) /\ ResponseOk(d)
    BY <1>7 DEF Core, OwnInv
  <2>1. CallOk(d)'
    BY <1>1, <1>5, <1>7, <2>0 DEF CallOk
  <2>2. RequestOk(d)'
    BY <1>1, <1>4, <1>7, <2>0 DEF RequestOk
  <2>3. WorkOk(d)'
    BY <1>1, <1>2, <1>4, <1>7, <2>0 DEF WorkOk
  <2>4. ResponseOk(d)'
    <3> SUFFICES ASSUME NEW j \in DOMAIN responses', responses'[j].c = d
                 PROVE  /\ served[d] = req[d]
                        /\ cpc[d] = "reading" /\ ~(find[d] /\ responses'[j].ok) =>
                               ~InWork(d) /\ \A l \in DOMAIN responses' : l > j => responses'[l].c # d
        BY <1>1, <1>4, <1>7 DEF ResponseOk
    <3>1. old(j) \in DOMAIN responses /\ responses'[j] = responses[old(j)]
        BY <1>2
    <3>2. /\ served[d] = req[d]
          /\ cpc[d] = "reading" /\ ~(find[d] /\ responses'[j].ok) =>
                 ~InWork(d) /\ \A l \in DOMAIN responses : l > old(j) => responses[l].c # d
        BY <2>0, <3>1 DEF ResponseOk
    <3>3. \A l \in DOMAIN responses' : l > j => old(l) > old(j)
        BY <1>2, <1>3
    <3> QED BY <1>2, <3>2, <3>3
  <2> QED BY <2>1, <2>2, <2>3, <2>4
<1>8. ASSUME ~heir[c], ~(find[c] /\ responses[k].ok)
      PROVE  CallOk(c)' /\ RequestOk(c)' /\ WorkOk(c)' /\ ResponseOk(c)'
  <2>1. /\ responses[k].c = c /\ served[c] = req[c] /\ ~InWork(c)
        /\ \A l \in DOMAIN responses : l # k => responses[l].c # c
    BY <1>0, <1>1, <1>8, OwnResponse
  <2>2. ~InResponses(c)'
    BY <1>2, <2>1 DEF InResponses
  <2>3. ~InRequests(c)
    <3>1. RequestOk(c) /\ served[c] + 1 # req[c]
        BY <1>8, <2>1 DEF Core, OwnInv, TypeOK
    <3> QED BY <3>1 DEF RequestOk, InRequests
  <2>4. ~UnderWay(c)'
    BY <1>4, <2>1, <2>2, <2>3 DEF UnderWay
  <2>5. RequestOk(c)' /\ WorkOk(c)' /\ ResponseOk(c)'
    BY <2>4 DEF UnderWay, InRequests, InWork, InResponses, RequestOk, WorkOk, ResponseOk
  <2>6. CallOk(c)'
    BY <1>1, <1>8, <2>1, <2>4 DEF CallOk
  <2> QED BY <2>5, <2>6
<1>9. OwnInv'
  <2> SUFFICES ASSUME NEW d \in Clients, ~heir[d]
               PROVE  CallOk(d)' /\ RequestOk(d)' /\ WorkOk(d)' /\ ResponseOk(d)'
      BY <1>1 DEF OwnInv
  <2>1. CASE d = c /\ ~(find[c] /\ responses[k].ok)
    BY <1>8, <2>1
  <2>2. CASE ~(d = c /\ ~(find[c] /\ responses[k].ok))
    BY <1>1, <1>7, <2>2
  <2> QED BY <2>1, <2>2
<1>10. StartInv' /\ SearchInv'
    BY <1>1 DEF Core, StartInv, SearchInv
<1> QED BY <1>6, <1>9, <1>10 DEF Core

LEMMA CoreStep == TypeOK /\ Core /\ [Next]_vars => Core'
<1> SUFFICES ASSUME TypeOK, Core, [Next]_vars PROVE Core'
    OBVIOUS
<1>1. CASE UNCHANGED vars
  <2>1. PidInv' /\ AloneInv' /\ StartInv' /\ SearchInv'
    BY <1>1 DEF vars, Core, PidInv, AloneInv, StartInv, SearchInv,
       UnderWay, InRequests, InResponses, InWork
  <2>2. OwnInv'
    BY <1>1, OthersKept DEF vars, Core, OwnInv
  <2> QED BY <2>1, <2>2 DEF Core
<1> QED BY <1>1, ServerStep, EnvironmentStep, StartStep, ReadyStep, AskStep, TakeStep, LeaveStep
        DEF Next, ClientRuns

-----------------------------------------------------------------------------
(* The order of the responses *)

\* s has all responses to c from number from + 1 on and below top.
NoneMissing(s, c, from, top) ==
    \A i \in (from + 1)..(top - 1) : \E l \in DOMAIN s : s[l].c = c /\ s[l].i = i

\* What is under way to a client it still waits for, in the queue it waits at.
Reaches(c) == UnderWay(c) => cpc[c] = "reading" /\ cli_qid[c] = cq

\* While a request is not carried out, its client has read nothing of the answer.
Unanswered(c) == InRequests(c) \/ (InWork(c) /\ srv = "exec") => got[c] = 0

\* The responses in the queue follow the last one read, ...
InOrder(c) ==
    \A k \in DOMAIN responses : responses[k].c = c =>
        /\ responses[k].n = req[c] /\ responses[k].i > got[c]
        /\ NoneMissing(responses, c, got[c], responses[k].i)
        /\ \A l \in DOMAIN responses :
               responses[l].c = c /\ k < l => responses[k].i < responses[l].i

\* ... and the next one the server sends follows them.
Continues(c) ==
    InWork(c) /\ srv # "exec" =>
        /\ idx > got[c] /\ NoneMissing(responses, c, got[c], idx)
        /\ \A k \in DOMAIN responses : responses[k].c = c => responses[k].i < idx

Ordered(c) == Reaches(c) /\ Unanswered(c) /\ InOrder(c) /\ Continues(c)

OrderInv ==
    /\ \A c \in Clients : cpc[c] \in Alive /\ ~heir[c] => Ordered(c)
    /\ \A c \in Clients : cpc[c] # "reading" => got[c] = 0
    /\ srv = "half" => requests = <<>>

\* After a step that leaves nothing under way to c, there is nothing to order.
LEMMA NothingUnderWayNext ==
    ASSUME NEW c \in Clients, ~UnderWay(c)'
    PROVE  Ordered(c)'
BY DEF UnderWay, InRequests, InWork, InResponses, Ordered, Reaches, Unanswered, InOrder, Continues

\* A step that sends c nothing, takes nothing of its and leaves the queue where it is
LEMMA OrderKept ==
    ASSUME NEW c \in Clients, Ordered(c), UNCHANGED <<cq, responses>>,
           cpc'[c] = cpc[c], cli_qid'[c] = cli_qid[c], req'[c] = req[c], got'[c] = got[c],
           InRequests(c)' => InRequests(c),
           InWork(c)' => \/ srv' = "exec" /\ (InRequests(c) \/ (InWork(c) /\ srv = "exec"))
                         \/ srv' # "exec" /\ InWork(c) /\ srv # "exec" /\ idx' = idx
    PROVE  Ordered(c)'
<1>1. InResponses(c)' = InResponses(c)
    BY DEF InResponses
<1>2. Reaches(c)'
    BY <1>1 DEF Ordered, Reaches, UnderWay
<1>3. Unanswered(c)'
    BY DEF Ordered, Unanswered
<1>4. InOrder(c)'
    BY DEF Ordered, InOrder, NoneMissing
<1>5. Continues(c)'
    BY DEF Ordered, Continues, NoneMissing
<1> QED BY <1>2, <1>3, <1>4, <1>5 DEF Ordered

\* A step of the server or the environment that starts no client and sends nothing
LEMMA OrderQuiet ==
    ASSUME TypeOK, OrderInv, UNCHANGED <<cq, responses, clientVars>>,
           requests' = requests \/ requests' = <<>>, srv' = "half" => requests' = <<>>,
           \/ srv' \notin Working
           \/ UNCHANGED <<cur, idx>> /\ (srv' = srv \/ {srv, srv'} \subseteq Working \ {"exec"})
    PROVE  OrderInv'
<1>1. ASSUME NEW c \in Clients, cpc[c] \in Alive, ~heir[c] PROVE Ordered(c)'
  <2>1. InRequests(c)' => InRequests(c)
    BY Empty DEF InRequests
  <2>2. InWork(c)' => /\ InWork(c) /\ idx' = idx
                      /\ srv' = "exec" <=> srv = "exec"
    BY DEF InWork, Working
  <2> QED BY <1>1, <2>1, <2>2, OrderKept DEF OrderInv, clientVars
<1> QED BY <1>1 DEF OrderInv, clientVars

LEMMA OrderRead == TypeOK /\ OrderInv /\ ServerRead => OrderInv'
<1> SUFFICES ASSUME TypeOK, OrderInv, ServerRead PROVE OrderInv'
    OBVIOUS
<1>0. /\ UNCHANGED <<cq, responses, clientVars>> /\ srv' = "exec"
      /\ requests \in Seq(Request) /\ requests # <<>>
      /\ cur' = requests[1] /\ requests' = Tail(requests)
    BY FirstTaken DEF ServerRead, TypeOK
<1>1. /\ 1 \in DOMAIN requests
      /\ \A k \in DOMAIN requests' : requests'[k] = requests[k + 1] /\ k + 1 \in DOMAIN requests
    BY <1>0, FirstTaken
<1>2. ASSUME NEW c \in Clients, cpc[c] \in Alive, ~heir[c] PROVE Ordered(c)'
  <2>1. (InRequests(c)' => InRequests(c)) /\ (InWork(c)' => InRequests(c))
    BY <1>0, <1>1 DEF InRequests, InWork
  <2> QED BY <1>0, <1>2, <2>1, OrderKept DEF OrderInv, clientVars
<1> QED BY <1>0, <1>2 DEF OrderInv, clientVars

LEMMA OrderExec == TypeOK /\ Core /\ OrderInv /\ ServerExec => OrderInv'
<1> SUFFICES ASSUME TypeOK, Core, OrderInv, ServerExec PROVE OrderInv'
    OBVIOUS
<1>0. /\ UNCHANGED <<requests, cq, responses, cur, clientVars>>
      /\ srv = "exec" /\ srv' \in {"hits", "last"} /\ idx' = 1
    BY DEF ServerExec, queueVars
<1>1. ASSUME NEW c \in Clients, cpc[c] \in Alive, ~heir[c] PROVE Ordered(c)'
  <2>0. Ordered(c) /\ InRequests(c)' = InRequests(c) /\ InWork(c)' = InWork(c)
    BY <1>0, <1>1 DEF OrderInv, InRequests, InWork, Working
  <2>1. CASE ~InWork(c)
    BY <1>0, <2>0, <2>1, OrderKept DEF clientVars
  <2>2. CASE InWork(c)
    <3>1. got[c] = 0 /\ ~InResponses(c) /\ ~InRequests(c) /\ ~InResponses(c)'
      <4>1. WorkOk(c) /\ RequestOk(c)
          BY <1>1 DEF Core, OwnInv
      <4> QED BY <1>0, <2>0, <2>2, <4>1
              DEF Ordered, Unanswered, WorkOk, RequestOk, InRequests, InResponses
    <3>2. Reaches(c)'
        BY <1>0, <2>0, <2>2 DEF Ordered, Reaches, UnderWay, clientVars
    <3>3. Continues(c)'
        BY <1>0, <3>1 DEF Continues, NoneMissing, InResponses, clientVars
    <3>4. Unanswered(c)' /\ InOrder(c)'
        BY <1>0, <2>0, <3>1 DEF Unanswered, InOrder, InResponses
    <3> QED BY <3>2, <3>3, <3>4 DEF Ordered
  <2> QED BY <2>1, <2>2
<1> QED BY <1>0, <1>1 DEF OrderInv, clientVars

\* The response the server sends comes right behind those of the same answer.
LEMMA OrderSend ==
    ASSUME TypeOK, Core, OrderInv, NEW ok \in BOOLEAN, Send(ok), srv \in Working \ {"exec"},
           \/ UNCHANGED <<srv, cur>> /\ idx' = idx + 1
           \/ srv' \in {"read", "ending"}
    PROVE  OrderInv'
<1> DEFINE new == [c |-> cur.c, n |-> cur.n, i |-> idx, ok |-> ok]
<1>0. /\ UNCHANGED <<requests, cq, clientVars>> /\ responses' = Append(responses, new)
      /\ new \in Response /\ new.c = cur.c /\ new.n = cur.n /\ new.i = idx
      /\ responses \in Seq(Response) /\ idx \in Nat /\ srv' # "half" /\ srv' # "exec"
    BY DEF Send, TypeOK, Request, Response, Working
<1> HIDE DEF new
<1>1. /\ DOMAIN responses = 1..Len(responses) /\ Len(responses) \in Nat
      /\ DOMAIN responses' = 1..(Len(responses) + 1)
      /\ \A k \in 1..Len(responses) : responses'[k] = responses[k] /\ responses[k].i \in Nat
      /\ responses'[Len(responses) + 1] = new
  <2>1. \A k \in 1..Len(responses) : responses[k] \in Response
    BY <1>0
  <2> QED BY <1>0, <2>1, Appended DEF Response
<1>2. ASSUME NEW c \in Clients, cpc[c] \in Alive, ~heir[c] PROVE Ordered(c)'
  <2>0. /\ Ordered(c) /\ UNCHANGED <<cpc, cli_qid, cq, req, got, requests>> /\ got[c] \in Nat
        /\ InRequests(c)' = InRequests(c) /\ (InWork(c)' => InWork(c)) /\ (InWork(c) <=> c = cur.c)
    BY <1>0, <1>2 DEF OrderInv, clientVars, InRequests, InWork, Working, TypeOK
  <2>1. CASE c # cur.c
    <3>1. \A k \in DOMAIN responses' : responses'[k].c = c => k \in DOMAIN responses
        BY <1>0, <1>1, <2>1
    <3>2. \A k \in DOMAIN responses : k \in DOMAIN responses' /\ responses'[k] = responses[k]
        BY <1>1
    <3>3. (InResponses(c)' => InResponses(c)) /\ ~InWork(c)'
        BY <2>0, <2>1, <3>1, <3>2 DEF InResponses
    <3>4. Reaches(c)' /\ Unanswered(c)' /\ Continues(c)'
        BY <2>0, <3>3 DEF Ordered, Reaches, UnderWay, Unanswered, Continues
    <3>5. InOrder(c)'
      <4> SUFFICES ASSUME NEW k \in DOMAIN responses', responses'[k].c = c
                   PROVE  /\ responses'[k].n = req[c] /\ responses'[k].i > got[c]
                          /\ NoneMissing(responses', c, got[c], responses'[k].i)
                          /\ \A l \in DOMAIN responses' :
                                 responses'[l].c = c /\ k < l => responses'[k].i < responses'[l].i
          BY <2>0 DEF InOrder
      <4>1. /\ k \in DOMAIN responses /\ responses'[k] = responses[k]
            /\ responses[k].n = req[c] /\ responses[k].i > got[c]
            /\ NoneMissing(responses, c, got[c], responses[k].i)
            /\ \A l \in DOMAIN responses : responses[l].c = c /\ k < l => responses[k].i < responses[l].i
          BY <2>0, <3>1, <3>2 DEF Ordered, InOrder
      <4>2. NoneMissing(responses', c, got[c], responses'[k].i)
          BY <2>0, <3>2, <4>1 DEF NoneMissing
      <4> QED BY <3>1, <3>2, <4>1, <4>2
    <3> QED BY <3>4, <3>5 DEF Ordered
  <2>2. CASE c = cur.c
    <3>1. /\ cur.n = req[c] /\ ~InRequests(c) /\ idx > got[c] /\ NoneMissing(responses, c, got[c], idx)
          /\ \A k \in DOMAIN responses : responses[k].c = c => responses[k].i < idx
      <4>1. WorkOk(c) /\ RequestOk(c)
          BY <1>2 DEF Core, OwnInv
      <4> QED BY <2>0, <2>2, <4>1 DEF WorkOk, RequestOk, InRequests, Ordered, Continues
    <3>2. \A top \in Nat : NoneMissing(responses, c, got[c], top) => NoneMissing(responses', c, got[c], top)
        BY <1>1, <2>0 DEF NoneMissing
    <3>3. NoneMissing(responses', c, got[c], idx + 1)
      <4>0. (idx + 1) - 1 = idx
          BY <1>0
      <4> SUFFICES ASSUME NEW i \in (got[c] + 1)..idx
                   PROVE  \E l \in DOMAIN responses' : responses'[l].c = c /\ responses'[l].i = i
          BY <4>0 DEF NoneMissing
      <4>1. CASE i = idx
          BY <1>0, <1>1, <2>2, <4>1
      <4>2. CASE i # idx
        <5>1. i \in (got[c] + 1)..(idx - 1)
            BY <1>0, <2>0, <4>2
        <5> QED BY <1>1, <3>1, <5>1 DEF NoneMissing
      <4> QED BY <4>1, <4>2
    <3>4. Reaches(c)' /\ Unanswered(c)'
        BY <1>0, <2>0, <2>2, <3>1 DEF Ordered, Reaches, UnderWay, Unanswered, InWork
    <3>5. Continues(c)'
      <4> SUFFICES ASSUME InWork(c)' PROVE Continues(c)'
          BY DEF Continues
      <4>1. idx' = idx + 1
          BY DEF InWork, Working
      <4>2. NoneMissing(responses', c, got[c], idx')
          BY <3>3, <4>1 DEF NoneMissing
      <4>3. \A k \in DOMAIN responses' : responses'[k].c = c => responses'[k].i < idx'
        <5> TAKE k \in DOMAIN responses'
        <5>1. CASE k \in 1..Len(responses)
            BY <1>0, <1>1, <3>1, <4>1, <5>1
        <5>2. CASE k = Len(responses) + 1
            BY <1>0, <1>1, <4>1, <5>2
        <5> QED BY <1>1, <5>1, <5>2
      <4> QED BY <1>0, <2>0, <3>1, <4>1, <4>2, <4>3 DEF Continues
    <3>6. InOrder(c)'
      <4> SUFFICES ASSUME NEW k \in DOMAIN responses', responses'[k].c = c
                   PROVE  /\ responses'[k].n = req[c] /\ responses'[k].i > got[c]
                          /\ NoneMissing(responses', c, got[c], responses'[k].i)
                          /\ \A l \in DOMAIN responses' :
                                 responses'[l].c = c /\ k < l => responses'[k].i < responses'[l].i
          BY <2>0 DEF InOrder
      <4>1. CASE k \in 1..Len(responses)
        <5>1. /\ responses'[k] = responses[k] /\ responses[k].n = req[c] /\ responses[k].i > got[c]
              /\ NoneMissing(responses, c, got[c], responses[k].i)
              /\ responses[k].i \in Nat /\ responses[k].i < idx
              /\ \A l \in 1..Len(responses) :
                     responses[l].c = c /\ k < l => responses[k].i < responses[l].i
            BY <1>1, <2>0, <3>1, <4>1 DEF Ordered, InOrder
        <5>2. NoneMissing(responses', c, got[c], responses'[k].i)
            BY <3>2, <5>1 DEF NoneMissing
        <5>3. ASSUME NEW l \in DOMAIN responses', responses'[l].c = c, k < l
              PROVE  responses'[k].i < responses'[l].i
          <6>1. CASE l \in 1..Len(responses)
              BY <1>1, <5>1, <5>3, <6>1
          <6>2. CASE l = Len(responses) + 1
              BY <1>0, <1>1, <5>1, <6>2
          <6> QED BY <1>1, <6>1, <6>2
        <5> QED BY <5>1, <5>2, <5>3
      <4>2. CASE k = Len(responses) + 1
        <5>1. responses'[k] = new /\ \A l \in DOMAIN responses' : ~(k < l)
            BY <1>1, <4>2
        <5>2. NoneMissing(responses', c, got[c], responses'[k].i)
            BY <1>0, <3>1, <3>2, <5>1 DEF NoneMissing
        <5> QED BY <1>0, <3>1, <5>1, <5>2
      <4> QED BY <1>1, <4>1, <4>2
    <3> QED BY <3>4, <3>5, <3>6 DEF Ordered
  <2> QED BY <2>1, <2>2
<1> QED BY <1>0, <1>2 DEF OrderInv, clientVars

LEMMA OrderServer ==
    TypeOK /\ HeldInv /\ QueuesPaired /\ Core /\ OrderInv /\ ServerRuns => OrderInv'
<1> SUFFICES ASSUME TypeOK, HeldInv, Core, OrderInv, ServerRuns PROVE OrderInv'
    OBVIOUS
<1>1. CASE ServerGetCliQueue
  <2>1. /\ UNCHANGED <<requests, clientVars>> /\ srv' \in {"read", "ending"}
        /\ UNCHANGED <<cq, responses>> \/ (cq = NoQueue /\ responses' = <<>>)
    BY <1>1 DEF ServerGetCliQueue, Loop
  <2>2. CASE UNCHANGED <<cq, responses>>
    BY <2>1, <2>2, OrderQuiet DEF Working
  <2>3. CASE cq = NoQueue /\ responses' = <<>>
    <3>1. ASSUME NEW c \in Clients, cpc[c] \in Alive, ~heir[c] PROVE Ordered(c)'
      <4>1. ~UnderWay(c)
          BY <2>3, <3>1 DEF OrderInv, Ordered, Reaches, HeldInv
      <4>2. ~UnderWay(c)'
          BY <2>1, <2>3, <4>1, Empty DEF UnderWay, InRequests, InResponses, InWork, Working
      <4> QED BY <4>2, NothingUnderWayNext
    <3> QED BY <2>1, <3>1 DEF OrderInv, clientVars
  <2> QED BY <2>1, <2>2, <2>3
<1>2. CASE ServerSendHit
  <2>1. Send(TRUE) /\ srv = "hits" /\ UNCHANGED <<srv, cur>> /\ idx' = idx + 1
    BY <1>2 DEF ServerSendHit
  <2> QED BY <2>1, OrderSend DEF Working
<1>3. CASE ServerSendLast \/ ServerResend
  <2>1. \E ok \in BOOLEAN : Send(ok)
    BY <1>3 DEF ServerSendLast, ServerResend
  <2>2. srv \in {"hits", "last", "resend"} /\ srv' \in {"read", "ending"}
    BY <1>3 DEF ServerSendLast, ServerResend, AtLast, Loop
  <2> QED BY <2>1, <2>2, OrderSend DEF Working
<1>4. CASE ServerEnding
    BY <1>4, OrderQuiet DEF ServerEnding, Working
<1>5. CASE ServerEnd
  <2>1. requests' = <<>> /\ responses' = <<>> /\ srv' = "done" /\ UNCHANGED clientVars
    BY <1>5 DEF ServerEnd, OrderInv
  <2>2. \A c \in Clients : ~UnderWay(c)'
    BY <2>1, Empty DEF UnderWay, InRequests, InResponses, InWork, Working
  <2> QED BY <2>1, <2>2, NothingUnderWayNext DEF OrderInv, clientVars
<1> QED BY <1>1, <1>2, <1>3, <1>4, <1>5, OrderRead, OrderExec DEF ServerRuns

LEMMA OrderEnvironment ==
    TypeOK /\ OrderInv /\ (ServerGetServQueue \/ ServerCrash \/ SignalFlag \/ SignalInterrupt)
        => OrderInv'
<1> SUFFICES ASSUME TypeOK, OrderInv,
                    ServerGetServQueue \/ ServerCrash \/ SignalFlag \/ SignalInterrupt
             PROVE  OrderInv'
    OBVIOUS
<1>1. CASE ServerGetServQueue
    BY <1>1, OrderQuiet DEF ServerGetServQueue, Working
<1>2. CASE ServerCrash \/ SignalInterrupt
    BY <1>2, OrderQuiet DEF ServerCrash, SignalInterrupt, queueVars, Working
<1>3. CASE SignalFlag
    BY <1>3, OrderQuiet DEF SignalFlag, queueVars, OrderInv
<1> QED BY <1>1, <1>2, <1>3

\* A step of one client in which neither the server nor the responses move: there is
\* only its own part of OrderInv to show.
LEMMA OrderMoves ==
    ASSUME TypeOK, OrderInv, NEW c \in Clients, UNCHANGED <<cq, responses, srv, cur, idx>>,
           \A d \in Clients \ {c} : /\ cpc'[d] = cpc[d] /\ cli_qid'[d] = cli_qid[d]
                                    /\ req'[d] = req[d] /\ got'[d] = got[d] /\ heir'[d] = heir[d]
                                    /\ InRequests(d)' => InRequests(d),
           srv = "half" => requests' = <<>>,
           cpc'[c] # "reading" => got'[c] = 0,
           cpc'[c] \in Alive /\ ~heir'[c] => Ordered(c)'
    PROVE  OrderInv'
<1>1. ASSUME NEW d \in Clients \ {c}, cpc'[d] \in Alive, ~heir'[d] PROVE Ordered(d)'
  <2>1. Ordered(d) /\ InWork(d)' = InWork(d)
    BY <1>1 DEF OrderInv, InWork
  <2> QED BY <2>1, OrderKept
<1> QED BY <1>1 DEF OrderInv

LEMMA OrderClient ==
    ASSUME TypeOK, HeldInv, QueuesPaired, Core, Core', OrderInv, NEW c \in Clients,
           \/ ClientGetServQueue(c) \/ ClientGetCliQueue(c) \/ ClientAsk(c) \/ ClientSend(c)
           \/ ClientFails(c) \/ ClientEnding(c) \/ ClientCrash(c)
    PROVE  OrderInv'
<1> USE DEF serverVars, queueVars
<1>1. CASE ClientGetServQueue(c) \/ ClientGetCliQueue(c) \/ ClientAsk(c)
  <2>1. /\ UNCHANGED <<cq, requests, responses, srv, cur, idx, got>>
        /\ \A d \in Clients \ {c} : /\ cpc'[d] = cpc[d] /\ cli_qid'[d] = cli_qid[d]
                                    /\ req'[d] = req[d] /\ heir'[d] = heir[d]
        /\ cpc[c] \in {"off", "get", "ready"} /\ cpc'[c] \in {"gone", "get", "ready", "sending"}
    BY <1>1 DEF ClientGetServQueue, ClientGetCliQueue, ClientAsk, TypeOK
  <2>2. cpc'[c] \in Alive /\ ~heir'[c] => Ordered(c)'
    BY <2>1, NothingUnderWayNext DEF Core, OwnInv, CallOk, Alive
  <2>3. \A d \in Clients : InRequests(d)' = InRequests(d)
    BY <2>1 DEF InRequests
  <2> QED BY <2>1, <2>2, <2>3, OrderMoves DEF OrderInv
<1>2. CASE ClientFails(c) \/ ClientEnding(c) \/ ClientCrash(c)
  <2>1. /\ UNCHANGED <<cq, requests, responses, srv, cur, idx, req, heir>>
        /\ \A d \in Clients \ {c} : /\ cpc'[d] = cpc[d] /\ cli_qid'[d] = cli_qid[d]
                                    /\ got'[d] = got[d]
        /\ cpc'[c] \in {"cut", "gone", "killed"} /\ got'[c] = 0
    BY <1>2 DEF ClientFails, ClientEnding, ClientCrash, Exit, TypeOK
  <2>2. ASSUME cpc'[c] = "cut", ~heir[c] PROVE Ordered(c)'
    <3>1. cpc[c] = "sending" \/ (cpc[c] = "reading" /\ cli_qid[c] # cq)
        BY <1>2, <2>2 DEF ClientFails, ClientEnding, ClientCrash, Exit, TypeOK
    <3>2. ~UnderWay(c)
        BY <2>2, <3>1 DEF Core, OwnInv, CallOk, OrderInv, Ordered, Reaches, Alive
    <3>3. ~UnderWay(c)'
        BY <2>1, <3>2 DEF UnderWay, InRequests, InResponses, InWork
    <3> QED BY <3>3, NothingUnderWayNext
  <2>3. \A d \in Clients : InRequests(d)' = InRequests(d)
    BY <2>1 DEF InRequests
  <2> QED BY <2>1, <2>2, <2>3, OrderMoves DEF OrderInv, Alive
<1>3. CASE ClientSend(c)
  <2> DEFINE new == [c |-> c, n |-> req[c], find |-> find[c]]
  <2>1. /\ UNCHANGED <<cq, responses, srv, cur, idx, req, heir, got, cli_qid>>
        /\ requests' = Append(requests, new) /\ requests \in Seq(Request)
        /\ new \in Request /\ new.c = c
        /\ cpc[c] = "sending" /\ cpc'[c] = "reading" /\ serv_qid[c] = sq
        /\ \A d \in Clients \ {c} : cpc'[d] = cpc[d]
    BY <1>3 DEF ClientSend, TypeOK, Request
  <2> HIDE DEF new
  <2>2. cli_qid[c] = cq /\ srv # "half" /\ got[c] = 0
    BY <2>1 DEF QueuesPaired, HeldInv, OrderInv
  <2>3. ASSUME NEW d \in Clients \ {c}, InRequests(d)' PROVE InRequests(d)
    <3>1. /\ DOMAIN requests = 1..Len(requests) /\ Len(requests) \in Nat
          /\ DOMAIN requests' = 1..(Len(requests) + 1)
          /\ \A k \in 1..Len(requests) : requests'[k] = requests[k]
          /\ requests'[Len(requests) + 1] = new
        BY <2>1, Appended
    <3> SUFFICES ASSUME NEW k \in DOMAIN requests', requests'[k].c = d
                 PROVE  requests[k].c = d /\ k \in DOMAIN requests
        BY <2>3 DEF InRequests
    <3> QED BY <2>1, <3>1
  <2>4. ASSUME ~heir[c] PROVE Ordered(c)'
    <3>1. ~InResponses(c)' /\ ~InWork(c)'
        BY <2>1, <2>4 DEF Core, OwnInv, CallOk, UnderWay, InResponses, InWork
    <3>2. InOrder(c)' /\ Continues(c)'
        BY <3>1 DEF InOrder, Continues, InResponses
    <3> QED BY <2>1, <2>2, <3>2 DEF Ordered, Reaches, Unanswered
  <2> QED BY <2>1, <2>2, <2>3, <2>4, OrderMoves
<1> QED BY <1>1, <1>2, <1>3

\* A client takes the first of its responses; those of others stay in their order.
LEMMA OrderTake ==
    ASSUME TypeOK, Core, Core', OrderInv, NEW c \in Clients, ClientRead(c)
    PROVE  OrderInv'
<1>0. PICK k \in DOMAIN responses : FirstFor(pid[c], k) /\ Take(c, k)
    BY DEF ClientRead
<1>1. /\ cpc[c] = "reading" /\ UNCHANGED <<cq, requests, srv, cur, idx, req, cli_qid, heir>>
      /\ \A d \in Clients \ {c} : cpc'[d] = cpc[d] /\ got'[d] = got[d]
      /\ find[c] /\ responses[k].ok => cpc' = cpc /\ got'[c] = got[c] + 1
      /\ ~(find[c] /\ responses[k].ok) => cpc'[c] = "ready" /\ got'[c] = 0
    BY <1>0 DEF ClientRead, Take, serverVars, TypeOK
<1> DEFINE old(j) == IF j < k THEN j ELSE j + 1
<1>2. /\ DOMAIN responses = 1..Len(responses) /\ Len(responses) \in Nat /\ k \in 1..Len(responses)
      /\ DOMAIN responses' = 1..(Len(responses) - 1)
      /\ \A j \in DOMAIN responses' : /\ old(j) \in DOMAIN responses /\ old(j) # k
                                      /\ responses'[j] = responses[old(j)]
  <2>1. responses' = RemoveAt(responses, k) /\ responses \in Seq(Response)
    BY <1>0 DEF Take, TypeOK
  <2>2. /\ DOMAIN responses = 1..Len(responses) /\ Len(responses) \in Nat /\ k \in 1..Len(responses)
        /\ DOMAIN responses' = 1..(Len(responses) - 1)
        /\ \A i \in 1..(Len(responses) - 1) :
               responses'[i] = IF i < k THEN responses[i] ELSE responses[i + 1]
    BY <2>1, Removed
  <2> QED BY <2>2
<1>3. \A i, j \in DOMAIN responses' : i < j => old(i) < old(j)
    BY <1>2
<1>4. \A l \in DOMAIN responses : l # k => \E j \in DOMAIN responses' : old(j) = l
  <2> TAKE l \in DOMAIN responses
  <2>1. CASE l < k
    BY <1>2, <2>1
  <2>2. CASE l > k
    <3>1. l - 1 \in DOMAIN responses' /\ old(l - 1) = l
        BY <1>2, <2>2
    <3> QED BY <3>1
  <2> QED BY <1>2, <2>1, <2>2
<1> HIDE DEF old
<1>5. ASSUME NEW d \in Clients, cpc'[d] \in Alive, ~heir[d], cpc'[d] = cpc[d],
             \/ responses[k].c # d /\ got'[d] = got[d]
             \/ responses[k].c = d /\ responses[k].i = got[d] + 1 /\ got'[d] = got[d] + 1
                /\ \A l \in DOMAIN responses : l < k => responses[l].c # d
      PROVE  Ordered(d)'
  <2>0. Ordered(d) /\ got[d] \in Nat /\ idx \in Nat
        /\ \A l \in DOMAIN responses : responses[l].i \in Nat
    <3>1. responses \in Seq(Response) /\ got[d] \in Nat /\ idx \in Nat
        BY DEF TypeOK
    <3>2. \A l \in DOMAIN responses : responses[l] \in Response
        BY <3>1
    <3> QED BY <1>5, <3>1, <3>2 DEF OrderInv, Response
  <2>1. /\ InRequests(d)' = InRequests(d) /\ InWork(d)' = InWork(d)
        /\ InResponses(d)' => InResponses(d)
    BY <1>1, <1>2 DEF InRequests, InWork, InResponses
  <2>2. Reaches(d)'
    BY <1>1, <1>5, <2>0, <2>1 DEF Ordered, Reaches, UnderWay
  <2>3. responses[k].c = d => ~InRequests(d) /\ ~(InWork(d) /\ srv = "exec")
    BY <1>5 DEF Core, OwnInv, RequestOk, WorkOk, InRequests, InResponses
  <2>4. Unanswered(d)'
    BY <1>1, <1>5, <2>0, <2>1, <2>3 DEF Ordered, Unanswered
  <2>5. ASSUME NEW top \in Nat, NoneMissing(responses, d, got[d], top)
        PROVE  NoneMissing(responses', d, got'[d], top)
    <3> SUFFICES ASSUME NEW i \in (got'[d] + 1)..(top - 1)
                 PROVE  \E j \in DOMAIN responses' : responses'[j].c = d /\ responses'[j].i = i
        BY DEF NoneMissing
    <3>1. i \in (got[d] + 1)..(top - 1) /\ (responses[k].c = d => i # responses[k].i)
        BY <1>5, <2>0
    <3>2. PICK l \in DOMAIN responses : responses[l].c = d /\ responses[l].i = i
        BY <2>5, <3>1 DEF NoneMissing
    <3>3. l # k
        BY <3>1, <3>2
    <3>4. PICK j \in DOMAIN responses' : old(j) = l
        BY <1>4, <3>3
    <3> QED BY <1>2, <3>2, <3>4
  <2>6. ASSUME NEW j \in DOMAIN responses', responses'[j].c = d
        PROVE  /\ responses'[j].n = req[d] /\ responses'[j].i > got'[d]
               /\ NoneMissing(responses', d, got'[d], responses'[j].i)
               /\ \A l \in DOMAIN responses' :
                      responses'[l].c = d /\ j < l => responses'[j].i < responses'[l].i
    <3>1. /\ responses'[j] = responses[old(j)] /\ old(j) \in DOMAIN responses /\ old(j) # k
          /\ responses[old(j)].c = d /\ responses[old(j)].i \in Nat
        BY <1>2, <2>0, <2>6
    <3>2. /\ responses[old(j)].n = req[d] /\ responses[old(j)].i > got[d]
          /\ NoneMissing(responses, d, got[d], responses[old(j)].i)
          /\ \A l \in DOMAIN responses :
                 responses[l].c = d /\ old(j) < l => responses[old(j)].i < responses[l].i
        BY <2>0, <3>1 DEF Ordered, InOrder
    <3>3. responses'[j].i > got'[d]
      <4>1. CASE responses[k].c # d
          BY <1>5, <3>1, <3>2, <4>1
      <4>2. CASE responses[k].c = d
        <5>1. k < old(j)
            BY <1>2, <1>5, <3>1, <4>2
        <5>2. responses[k].i < responses[old(j)].i
            BY <2>0, <3>1, <4>2, <5>1 DEF Ordered, InOrder
        <5> QED BY <1>5, <2>0, <3>1, <4>2, <5>2
      <4> QED BY <4>1, <4>2
    <3>4. ASSUME NEW l \in DOMAIN responses', responses'[l].c = d, j < l
          PROVE  responses'[j].i < responses'[l].i
        BY <1>2, <1>3, <3>1, <3>2, <3>4
    <3> QED BY <2>5, <3>1, <3>2, <3>3, <3>4
  <2>7. InOrder(d)'
    BY <1>1, <2>6 DEF InOrder
  <2>8. Continues(d)'
    <3> SUFFICES ASSUME InWork(d), srv # "exec"
                 PROVE  /\ idx > got'[d] /\ NoneMissing(responses', d, got'[d], idx)
                        /\ \A j \in DOMAIN responses' : responses'[j].c = d => responses'[j].i < idx
        BY <1>1, <2>1 DEF Continues
    <3>1. /\ idx > got[d] /\ NoneMissing(responses, d, got[d], idx)
          /\ \A l \in DOMAIN responses : responses[l].c = d => responses[l].i < idx
        BY <2>0 DEF Ordered, Continues
    <3>2. idx > got'[d]
        BY <1>5, <2>0, <3>1
    <3> QED BY <1>2, <2>0, <2>5, <3>1, <3>2
  <2> QED BY <2>2, <2>4, <2>7, <2>8 DEF Ordered
<1>6. ASSUME NEW d \in Clients, cpc'[d] \in Alive, ~heir[d] PROVE Ordered(d)'
  <2>1. CASE d # c
    <3>1. responses[k].c # d
        BY <1>0, <1>1, <1>6, <2>1 DEF FirstFor, Core, AloneInv, Alive
    <3> QED BY <1>1, <1>5, <1>6, <2>1, <3>1
  <2>2. CASE d = c
    <3>0. responses[k].c = c
        BY <1>0, <1>1, <1>6, <2>2, OwnResponse
    <3>1. CASE find[c] /\ responses[k].ok
      <4>1. \A l \in DOMAIN responses : l < k => responses[l].c # c
        <5> TAKE l \in DOMAIN responses
        <5>1. l < k => l \in 1..(k - 1)
            BY <1>2
        <5> QED BY <1>0, <5>1 DEF FirstFor
      <4>2. responses[k].i = got[c] + 1
        <5>0. got[c] \in Nat /\ \A l \in DOMAIN responses : responses[l].i \in Nat
          <6>1. responses \in Seq(Response) /\ got[c] \in Nat
              BY DEF TypeOK
          <6>2. \A l \in DOMAIN responses : responses[l] \in Response
              BY <6>1
          <6> QED BY <6>1, <6>2 DEF Response
        <5>1. /\ responses[k].i > got[c] /\ NoneMissing(responses, c, got[c], responses[k].i)
              /\ \A l \in DOMAIN responses : responses[l].c = c /\ k < l => responses[k].i < responses[l].i
            BY <1>1, <1>6, <2>2, <3>0 DEF OrderInv, Ordered, InOrder, Alive
        <5> SUFFICES ASSUME responses[k].i # got[c] + 1 PROVE FALSE
            OBVIOUS
        <5>2. got[c] + 1 \in (got[c] + 1)..(responses[k].i - 1)
            BY <5>0, <5>1
        <5>3. PICK l \in DOMAIN responses : responses[l].c = c /\ responses[l].i = got[c] + 1
            BY <5>1, <5>2 DEF NoneMissing
        <5>4. ~(k < l) /\ ~(l < k) /\ l # k
            BY <4>1, <5>0, <5>1, <5>2, <5>3
        <5> QED BY <1>2, <5>4
      <4> QED BY <1>1, <1>5, <1>6, <2>2, <3>0, <3>1, <4>1, <4>2
    <3>2. CASE ~(find[c] /\ responses[k].ok)
      <4>1. ~UnderWay(c)'
          BY <1>1, <1>6, <2>2, <3>2 DEF Core, OwnInv, CallOk
      <4> QED BY <2>2, <4>1, NothingUnderWayNext
    <3> QED BY <3>1, <3>2
  <2> QED BY <2>1, <2>2
<1>7. \A d \in Clients : cpc'[d] # "reading" => got'[d] = 0
    BY <1>1 DEF OrderInv
<1> QED BY <1>1, <1>6, <1>7 DEF OrderInv

LEMMA OrderStep ==
    TypeOK /\ HeldInv /\ QueuesPaired /\ Core /\ OrderInv /\ [Next]_vars => OrderInv'
<1> SUFFICES ASSUME TypeOK, HeldInv, QueuesPaired, Core, OrderInv, [Next]_vars PROVE OrderInv'
    OBVIOUS
<1>1. Core'
    BY CoreStep
<1>2. CASE UNCHANGED vars
    BY <1>2, OrderQuiet DEF vars, clientVars, OrderInv
<1> QED BY <1>1, <1>2, OrderServer, OrderEnvironment, OrderClient, OrderTake DEF Next, ClientRuns

\* What a client finds under its pid, unless it inherited messages with it, is the answer
\* to its present request, from the response it expects next, in order and without a gap,
\* whichever processes are killed, signalled or started in between.
THEOREM AnswersAreOwn == Spec => []OwnAnswers
<1>1. Init => HeldInv /\ QueuesPaired /\ OrderInv
  <2> SUFFICES ASSUME Init PROVE HeldInv /\ QueuesPaired /\ OrderInv
    OBVIOUS
  <2>1. \A c \in Clients : cpc[c] \notin Alive /\ got[c] = 0
    BY DEF Init, Alive
  <2> QED BY <2>1 DEF Init, HeldInv, QueuesPaired, OrderInv
<1>2. TypeOK /\ HeldInv /\ QueuesPaired /\ Core /\ OrderInv /\ [Next]_vars
          => (TypeOK /\ HeldInv /\ QueuesPaired /\ Core /\ OrderInv)'
    BY TypeStep, PairedStep, CoreStep, OrderStep
<1>3. TypeOK /\ Core /\ OrderInv => OwnAnswers
  <2> SUFFICES ASSUME TypeOK, Core, OrderInv, NEW c \in Clients, cpc[c] \in Alive, ~heir[c]
               PROVE  LET mine == {k \in DOMAIN responses : pid[responses[k].c] = pid[c]}
                      IN  /\ mine # {} => cpc[c] = "reading" /\ cli_qid[c] = cq
                          /\ \A k \in mine :
                                 /\ responses[k].c = c /\ responses[k].n = req[c] /\ responses[k].i > got[c]
                                 /\ \A l \in mine : k < l => responses[k].i < responses[l].i
                                 /\ \A i \in (got[c] + 1)..responses[k].i :
                                        \E l \in mine : responses[l].i = i
    BY DEF OwnAnswers
  <2>1. \A k \in DOMAIN responses : responses[k].c \in Clients /\ responses[k].i \in Nat
    <3>1. responses \in Seq(Response)
        BY DEF TypeOK
    <3>2. \A k \in DOMAIN responses : responses[k] \in Response
        BY <3>1
    <3> QED BY <3>2 DEF Response
  <2>2. \A k \in DOMAIN responses : pid[responses[k].c] = pid[c] <=> responses[k].c = c
    BY <2>1 DEF Core, PidInv, UnderWay, InResponses
  <2>3. Ordered(c) /\ got[c] \in Nat
    BY DEF OrderInv, TypeOK
  <2>4. ASSUME NEW k \in DOMAIN responses, responses[k].c = c, NEW i \in (got[c] + 1)..responses[k].i
        PROVE  \E l \in DOMAIN responses : responses[l].c = c /\ responses[l].i = i
    <3>1. CASE i = responses[k].i
        BY <2>4, <3>1
    <3>2. CASE i # responses[k].i
      <4>1. i \in (got[c] + 1)..(responses[k].i - 1)
          BY <2>1, <2>3, <3>2
      <4> QED BY <2>3, <2>4, <4>1 DEF Ordered, InOrder, NoneMissing
    <3> QED BY <3>1, <3>2
  <2> QED BY <2>2, <2>3, <2>4 DEF Ordered, Reaches, InOrder, UnderWay, InResponses
<1> QED BY <1>1, <1>2, <1>3, TypeInit, CoreInit, PTL DEF Spec

-----------------------------------------------------------------------------
(* The refinement *)

LEMMA PhaseValues ==
    ASSUME NEW c \in Clients
    PROVE  /\ heir[c] => PhaseOf[c] = "left"
           /\ cpc[c] \in {"cut", "gone", "killed"} => PhaseOf[c] = "left"
           /\ ~heir[c] /\ cpc[c] \in Calling => PhaseOf[c] = "busy"
           /\ ~heir[c] /\ cpc[c] = "ready" => PhaseOf[c] = "idle"
           /\ ~heir[c] /\ cpc[c] \in {"off", "get"} => PhaseOf[c] = "new"
BY DEF PhaseOf, Calling

LEMMA PhaseValuesNext ==
    ASSUME NEW c \in Clients
    PROVE  /\ heir'[c] => PhaseOf'[c] = "left"
           /\ cpc'[c] \in {"cut", "gone", "killed"} => PhaseOf'[c] = "left"
           /\ ~heir'[c] /\ cpc'[c] \in Calling => PhaseOf'[c] = "busy"
           /\ ~heir'[c] /\ cpc'[c] = "ready" => PhaseOf'[c] = "idle"
           /\ ~heir'[c] /\ cpc'[c] \in {"off", "get"} => PhaseOf'[c] = "new"
BY DEF PhaseOf, Calling

LEMMA RefineInit == Init => Service!SInit
<1> SUFFICES ASSUME Init PROVE Service!SInit
    OBVIOUS
<1>1. \A c \in Clients : ~heir[c] /\ cpc[c] = "off" /\ req[c] = 0 /\ served[c] = 0
    BY DEF Init
<1>2. \A c \in Clients : PhaseOf[c] = "new"
    BY <1>1, PhaseValues
<1> QED BY <1>1, <1>2 DEF Service!SInit, Uninherited, PhaseOf

\* A step that moves one client and carries nothing out
LEMMA PhaseMoves ==
    ASSUME NEW c \in Clients,
           \A d \in Clients \ {c} : cpc'[d] = cpc[d] /\ heir'[d] = heir[d]
    PROVE  PhaseOf' = [PhaseOf EXCEPT ![c] = PhaseOf'[c]]
<1>1. \A d \in Clients : d # c => PhaseOf'[d] = PhaseOf[d]
    BY DEF PhaseOf
<1>2. PhaseOf = [d \in Clients |-> PhaseOf[d]] /\ PhaseOf' = [d \in Clients |-> PhaseOf'[d]]
    BY DEF PhaseOf
<1> QED BY <1>1, <1>2

LEMMA LeaveRefines ==
    ASSUME NEW c \in Clients, UNCHANGED <<Uninherited(req), Uninherited(served)>>,
           \A d \in Clients \ {c} : cpc'[d] = cpc[d] /\ heir'[d] = heir[d],
           PhaseOf'[c] = "left"
    PROVE  [Service!SNext]_(Service!svars)
<1>1. PhaseOf' = [PhaseOf EXCEPT ![c] = "left"]
    BY PhaseMoves
<1>2. CASE PhaseOf[c] = "left"
  <2>1. PhaseOf' = PhaseOf
    BY <1>1, <1>2 DEF PhaseOf
  <2> QED BY <2>1 DEF Service!svars
<1>3. CASE PhaseOf[c] # "left"
    BY <1>1, <1>3 DEF Service!SNext, Service!Leave
<1> QED BY <1>2, <1>3

LEMMA StaysRefines ==
    ASSUME UNCHANGED <<req, served, heir>>,
           \A d \in Clients : PhaseOf'[d] = PhaseOf[d]
    PROVE  UNCHANGED Service!svars
<1>1. PhaseOf = [d \in Clients |-> PhaseOf[d]] /\ PhaseOf' = [d \in Clients |-> PhaseOf'[d]]
    BY DEF PhaseOf
<1>2. PhaseOf' = PhaseOf
    BY <1>1
<1> QED BY <1>2 DEF Service!svars, Uninherited

LEMMA ExecRefines == ASSUME TypeOK, Core, ServerExec PROVE [Service!SNext]_(Service!svars)
<1>1. /\ cur.c \in Clients /\ UNCHANGED <<cpc, req, heir>> /\ InWork(cur.c) /\ srv = "exec"
      /\ served' = [served EXCEPT ![cur.c] = cur.n] /\ served \in [Clients -> Nat]
    BY DEF ServerExec, clientVars, TypeOK, Request, InWork, Working
<1>2. PhaseOf' = PhaseOf /\ Uninherited(req)' = Uninherited(req)
    BY <1>1 DEF PhaseOf, Uninherited
<1>3. CASE heir[cur.c]
  <2>1. Uninherited(served)' = Uninherited(served)
    BY <1>1, <1>3 DEF Uninherited
  <2> QED BY <1>2, <2>1 DEF Service!svars
<1>4. CASE ~heir[cur.c]
  <2>1. cur.n = req[cur.c] /\ served[cur.c] + 1 = req[cur.c]
    BY <1>1, <1>4 DEF Core, OwnInv, WorkOk
  <2>2. /\ Uninherited(served)[cur.c] + 1 = Uninherited(req)[cur.c]
        /\ Uninherited(served)' = [Uninherited(served) EXCEPT ![cur.c] = Uninherited(req)[cur.c]]
    BY <1>1, <1>4, <2>1 DEF Uninherited
  <2>3. Service!Perform(cur.c)
    BY <1>2, <2>2 DEF Service!Perform
  <2> QED BY <1>1, <2>3 DEF Service!SNext
<1> QED BY <1>3, <1>4

LEMMA StartRefines ==
    ASSUME TypeOK, Core, NEW c \in Clients, ClientGetServQueue(c)
    PROVE  [Service!SNext]_(Service!svars)
<1>1. /\ UNCHANGED <<req, served>> /\ cpc[c] = "off" /\ ~heir[c] /\ req[c] = 0 /\ served[c] = 0
      /\ \A d \in Clients \ {c} : cpc'[d] = cpc[d] /\ heir'[d] = heir[d]
      /\ cpc'[c] \in {"get", "gone"}
    BY DEF ClientGetServQueue, serverVars, TypeOK, Core, StartInv
<1>2. UNCHANGED <<Uninherited(req), Uninherited(served)>>
  <2>1. \A d \in Clients : /\ Uninherited(req)'[d] = Uninherited(req)[d]
                           /\ Uninherited(served)'[d] = Uninherited(served)[d]
    BY <1>1 DEF Uninherited
  <2> QED BY <2>1 DEF Uninherited
<1>3. CASE heir'[c] \/ cpc'[c] = "gone"
    BY <1>1, <1>2, <1>3, PhaseValuesNext, LeaveRefines
<1>4. CASE ~heir'[c] /\ cpc'[c] = "get"
  <2>1. PhaseOf[c] = "new" /\ PhaseOf'[c] = "new"
    BY <1>1, <1>4, PhaseValues, PhaseValuesNext
  <2>2. PhaseOf' = PhaseOf
    BY <1>1, <2>1, PhaseMoves DEF PhaseOf
  <2> QED BY <1>2, <2>2 DEF Service!svars
<1> QED BY <1>1, <1>3, <1>4

\* the steps of a running client
LEMMA ClientRefines ==
    ASSUME TypeOK, Core, NEW c \in Clients,
           \/ ClientGetCliQueue(c) \/ ClientAsk(c) \/ ClientSend(c) \/ ClientRead(c)
           \/ ClientFails(c) \/ ClientEnding(c) \/ ClientCrash(c)
    PROVE  [Service!SNext]_(Service!svars)
<1>1. /\ UNCHANGED <<served, heir>> /\ (UNCHANGED req \/ ClientAsk(c))
      /\ \A d \in Clients \ {c} : cpc'[d] = cpc[d] /\ req'[d] = req[d]
  <2>1. CASE ClientRead(c)
    BY <2>1 DEF ClientRead, Take, serverVars, TypeOK
  <2>2. CASE ~ClientRead(c)
    BY <2>2 DEF ClientGetCliQueue, ClientAsk, ClientSend, ClientFails, ClientEnding, ClientCrash,
       Exit, serverVars, TypeOK
  <2> QED BY <2>1, <2>2
<1>2. Uninherited(served)' = Uninherited(served)
    BY <1>1 DEF Uninherited
<1>3. CASE heir[c]
  <2>1. \A d \in Clients : PhaseOf'[d] = PhaseOf[d]
    <3>1. PhaseOf[c] = "left" /\ PhaseOf'[c] = "left"
        BY <1>1, <1>3, PhaseValues, PhaseValuesNext
    <3> QED BY <1>1, <3>1 DEF PhaseOf
  <2>2. Uninherited(req)' = Uninherited(req)
    BY <1>1, <1>3 DEF Uninherited
  <2>3. PhaseOf = [d \in Clients |-> PhaseOf[d]] /\ PhaseOf' = [d \in Clients |-> PhaseOf'[d]]
    BY DEF PhaseOf
  <2>4. PhaseOf' = PhaseOf
    BY <2>1, <2>3
  <2> QED BY <1>2, <2>2, <2>4 DEF Service!svars
<1>4. CASE ~heir[c] /\ (ClientFails(c) \/ ClientEnding(c) \/ ClientCrash(c) \/ cpc'[c] = "gone")
  <2>1. cpc'[c] \in {"cut", "gone", "killed"}
    BY <1>4 DEF ClientFails, ClientEnding, ClientCrash, Exit, TypeOK
  <2>2. PhaseOf'[c] = "left"
    BY <2>1, PhaseValuesNext
  <2>3. Uninherited(req)' = Uninherited(req)
    <3>1. UNCHANGED req
        BY <1>1, <1>4, <2>1 DEF ClientAsk, TypeOK
    <3> QED BY <1>1, <3>1 DEF Uninherited
  <2> QED BY <1>1, <1>2, <2>2, <2>3, LeaveRefines
<1>5. CASE ~heir[c] /\ ClientGetCliQueue(c) /\ cpc'[c] # "gone"
  <2>1. PhaseOf[c] = "new" /\ PhaseOf'[c] = "idle" /\ UNCHANGED req
    BY <1>1, <1>5, PhaseValues, PhaseValuesNext DEF ClientGetCliQueue, TypeOK
  <2>2. Service!Enter(c)
    BY <1>1, <1>2, <2>1, PhaseMoves DEF Service!Enter, Uninherited
  <2> QED BY <2>2 DEF Service!SNext
<1>6. CASE ~heir[c] /\ ClientAsk(c)
  <2>1. PhaseOf[c] = "idle" /\ PhaseOf'[c] = "busy"
    BY <1>1, <1>6, PhaseValues, PhaseValuesNext DEF ClientAsk, TypeOK, Calling
  <2>2. Uninherited(req)' = [Uninherited(req) EXCEPT ![c] = @ + 1]
    BY <1>1, <1>6 DEF ClientAsk, TypeOK, Uninherited
  <2>3. Service!Ask(c)
    BY <1>1, <1>2, <2>1, <2>2, PhaseMoves DEF Service!Ask
  <2> QED BY <2>3 DEF Service!SNext
<1>7. CASE ~heir[c] /\ ClientSend(c)
  <2>1. PhaseOf[c] = "busy" /\ PhaseOf'[c] = "busy" /\ UNCHANGED req
    BY <1>1, <1>7, PhaseValues, PhaseValuesNext DEF ClientSend, TypeOK, Calling
  <2>2. \A d \in Clients : PhaseOf'[d] = PhaseOf[d]
    BY <1>1, <2>1 DEF PhaseOf
  <2> QED BY <1>1, <2>1, <2>2, StaysRefines
<1>8. CASE ~heir[c] /\ ClientRead(c)
  <2>1. PICK k \in DOMAIN responses : FirstFor(pid[c], k) /\ Take(c, k)
    BY <1>8 DEF ClientRead
  <2>2. UNCHANGED req /\ cpc[c] = "reading" /\ served[c] = req[c]
    BY <1>8, <2>1, OwnResponse DEF ClientRead, Take
  <2>3. CASE cpc' = cpc
    <3>1. \A d \in Clients : PhaseOf'[d] = PhaseOf[d]
        BY <1>1, <2>3 DEF PhaseOf
    <3> QED BY <1>1, <2>2, <3>1, StaysRefines
  <2>4. CASE cpc'[c] = "ready"
    <3>1. PhaseOf[c] = "busy" /\ PhaseOf'[c] = "idle"
        BY <1>1, <1>8, <2>2, <2>4, PhaseValues, PhaseValuesNext DEF Calling
    <3>2. Service!Return(c)
        BY <1>1, <1>2, <1>8, <2>2, <3>1, PhaseMoves DEF Service!Return, Uninherited
    <3> QED BY <3>2 DEF Service!SNext
  <2> QED BY <2>1, <2>3, <2>4 DEF Take, TypeOK
<1> QED BY <1>3, <1>4, <1>5, <1>6, <1>7, <1>8

LEMMA RefineStep == TypeOK /\ Core /\ [Next]_vars => [Service!SNext]_(Service!svars)
<1> SUFFICES ASSUME TypeOK, Core, [Next]_vars PROVE [Service!SNext]_(Service!svars)
    OBVIOUS
<1>1. ASSUME UNCHANGED <<cpc, heir, req, served>> PROVE UNCHANGED Service!svars
    BY <1>1 DEF Service!svars, PhaseOf, Uninherited
<1>2. CASE ServerGetServQueue \/ ServerCrash \/ SignalFlag \/ SignalInterrupt \/ UNCHANGED vars
    BY <1>1, <1>2 DEF ServerGetServQueue, ServerCrash, SignalFlag, SignalInterrupt, vars, clientVars
<1>3. CASE ServerRuns /\ ~ServerExec
    BY <1>1, <1>3 DEF ServerRuns, ServerGetCliQueue, ServerRead, ServerSendHit, ServerSendLast,
       ServerResend, Send, ServerEnding, ServerEnd, clientVars
<1> QED BY <1>2, <1>3, ExecRefines, StartRefines, ClientRefines DEF Next, ServerRuns, ClientRuns

\* For every process that did not inherit messages with its pid, the queues implement the
\* service: a request is carried out at most once, and a call returns an answer only
\* after it was carried out, whoever is killed, signalled or started again.
THEOREM QueuesRefineService == Spec => ServiceSpec
<1>1. Init => TypeOK /\ Core
    BY TypeInit, CoreInit
<1>2. TypeOK /\ Core /\ [Next]_vars => (TypeOK /\ Core)'
    BY TypeStep, CoreStep
<1> QED BY <1>1, <1>2, RefineInit, RefineStep, PTL DEF Spec, ServiceSpec, Service!SSpec
=============================================================================

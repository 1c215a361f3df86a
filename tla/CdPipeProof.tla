------------------------------ MODULE CdPipeProof ------------------------------
(***************************************************************************)
(* The proofs about CdPipe, for any clients, values of the bounds and      *)
(* faults, in five parts: type correctness; the order of the answers       *)
(* (AnswerInOrder); the whereabouts of each request (IInv and              *)
(* RequestAccounted); what stops the server (StopsForAReason); and the     *)
(* refinement of CdService.                                                *)
(***************************************************************************)
EXTENDS CdPipe, SequenceTheorems, TLAPS

-----------------------------------------------------------------------------
(* What the sequence operators do to the pipes. *)

LEMMA AppendFacts ==
    ASSUME NEW S, NEW s \in Seq(S), NEW e \in S
    PROVE  /\ Append(s, e) \in Seq(S) /\ Append(s, e) # <<>>
           /\ Len(Append(s, e)) = Len(s) + 1 /\ Len(s) \in Nat
           /\ \A k \in 1..Len(s) : Append(s, e)[k] = s[k]
           /\ Append(s, e)[Len(s) + 1] = e
BY AppendProperties, LenProperties

LEMMA TailFacts ==
    ASSUME NEW S, NEW s \in Seq(S), s # <<>>
    PROVE  /\ Head(s) \in S /\ Head(s) = s[1] /\ Tail(s) \in Seq(S)
           /\ Len(s) \in Nat /\ Len(s) >= 1 /\ Len(Tail(s)) = Len(s) - 1
           /\ \A k \in 1..Len(Tail(s)) : Tail(s)[k] = s[k + 1]
BY HeadTailProperties, LenProperties, EmptySeq

LEMMA EmptyFacts ==
    ASSUME NEW S
    PROVE  /\ <<>> \in Seq(S) /\ Len(<<>>) = 0
           /\ \A s \in Seq(S) : Len(s) \in Nat /\ (s # <<>> => Len(s) >= 1)
BY EmptySeq, LenProperties

-----------------------------------------------------------------------------
(* Type correctness *)

LEMMA EmptyPipe == <<>> \in Seq(Request) /\ <<>> \in Seq(Response)
BY EmptyFacts

LEMMA TypeInit == Init => TypeOK
<1> SUFFICES ASSUME Init PROVE TypeOK
    OBVIOUS
<1>1. cur \in Request
    BY DEF Init, Request
<1>2. rfd \in [Clients -> BOOLEAN] /\ find \in [Clients -> BOOLEAN]
    BY Zenon DEF Init
<1>3. pipe \in [Clients -> Seq(Response)] /\ fifo \in Seq(Request)
    BY EmptyPipe DEF Init
<1>4. run \in BOOLEAN /\ name \in BOOLEAN
    BY DEF Init
<1> QED BY <1>1, <1>2, <1>3, <1>4 DEF Init, TypeOK, ServerPcs, ClientPcs

LEMMA TypeStep == TypeOK /\ [Next]_vars => TypeOK'
<1> SUFFICES ASSUME TypeOK, [Next]_vars PROVE TypeOK'
    OBVIOUS
<1> USE DEF TypeOK, clientVars, serverVars
<1>1. CASE ServerUnlink
  <2>1. srv' \in ServerPcs /\ run' \in BOOLEAN /\ name' \in BOOLEAN
    BY <1>1 DEF ServerUnlink, ServerPcs
  <2>2. starts' \in Nat
    BY <1>1 DEF ServerUnlink
  <2> QED BY <1>1, <2>1, <2>2 DEF ServerUnlink
<1>2. CASE ServerMkfifo
    BY <1>2, EmptyPipe, ConstantsAssumption DEF ServerMkfifo, ServerPcs, ClientPcs, Request
<1>3. CASE ServerLoop
    BY <1>3, EmptyPipe, ConstantsAssumption DEF ServerLoop, ServerPcs, ClientPcs, Request
<1>4. CASE ServerEof
    BY <1>4, EmptyPipe, ConstantsAssumption DEF ServerEof, ServerPcs, ClientPcs, Request
<1>5. CASE ServerClose
    BY <1>5, EmptyPipe, ConstantsAssumption DEF ServerClose, ServerPcs, ClientPcs, Request
<1>6. CASE ServerReopen
    BY <1>6, EmptyPipe, ConstantsAssumption DEF ServerReopen, ServerPcs, ClientPcs, Request
<1>7. CASE ServerGiveUp
    BY <1>7, EmptyPipe, ConstantsAssumption DEF ServerGiveUp, ServerPcs, ClientPcs, Request
<1>8. CASE ServerNoMore
    BY <1>8, EmptyPipe, ConstantsAssumption DEF ServerNoMore, ServerPcs, ClientPcs, Request
<1>9. CASE ServerSigpipe
    BY <1>9, EmptyPipe, ConstantsAssumption DEF ServerSigpipe, ServerPcs, ClientPcs, Request
<1>10. CASE ServerEnding
    BY <1>10, EmptyPipe, ConstantsAssumption DEF ServerEnding, ServerPcs, ClientPcs, Request
<1>11. CASE ServerEnd
    BY <1>11, EmptyPipe, ConstantsAssumption DEF ServerEnd, ServerPcs, ClientPcs, Request
<1>12. CASE ServerOpenResp
  <2>1. srv' \in ServerPcs
    BY <1>12 DEF ServerOpenResp, ServerPcs
  <2>2. cpc' \in [Clients -> ClientPcs]
    <3>1. (IF cpc[cur.c] = "ropen" THEN "reading" ELSE cpc[cur.c]) \in ClientPcs
      BY Zenon DEF ClientPcs, Request
    <3> QED BY <1>12, <3>1, Zenon DEF ServerOpenResp
  <2>3. rfd' \in [Clients -> BOOLEAN]
    BY <1>12, Zenon DEF ServerOpenResp
  <2> QED BY <1>12, <2>1, <2>2, <2>3 DEF ServerOpenResp
<1>13. CASE ServerExec
    BY <1>13, EmptyPipe, ConstantsAssumption DEF ServerExec, ServerPcs, ClientPcs, Request
<1>14. CASE ServerRead
    BY <1>14, TailFacts DEF ServerRead, ServerPcs
<1>15. ASSUME NEW last \in BOOLEAN, Send(last), left' \in Nat, srv' \in ServerPcs
      PROVE  TypeOK'
  <2>1. cur.c \in Clients /\ cur.n \in Nat
    BY DEF Request
  <2>2. [n |-> cur.n, i |-> idx, last |-> last] \in Response
    BY <2>1 DEF Response
  <2>3. pipe' \in [Clients -> Seq(Response)]
    BY <1>15, <2>1, <2>2, AppendFacts DEF Send
  <2>4. UNCHANGED <<run, name, fifo, cur, starts, served, cpc, link, rfd, req, find, got>> /\ idx' \in Nat
    BY <1>15 DEF Send
  <2> QED BY <1>15, <2>3, <2>4
<1>16. CASE ServerSendHit \/ ServerSendLast \/ ServerResend
  <2>1. left' \in Nat /\ srv' \in ServerPcs
    BY <1>16 DEF ServerSendHit, ServerSendLast, ServerResend, ServerPcs, Send
  <2> QED BY <1>15, <1>16, <2>1 DEF ServerSendHit, ServerSendLast, ServerResend
<1>17. CASE ServerCrash \/ SignalFlag \/ SignalInterrupt
    BY <1>17 DEF ServerCrash, SignalFlag, SignalInterrupt, ServerPcs
<1>18. ASSUME NEW c \in Clients, ClientStep(c) PROVE TypeOK'
  <2>1. CASE ClientNoServer(c)
    BY <2>1 DEF ClientNoServer, ClientPcs
  <2>5. CASE ClientOpen(c)
    BY <2>5 DEF ClientOpen, ClientPcs, ServerPcs
  <2>6. CASE ClientMkfifo(c)
    BY <2>6 DEF ClientMkfifo, ClientPcs
  <2>7. CASE ClientOpenResp(c)
    <3>1. cpc' \in [Clients -> ClientPcs] /\ srv' \in ServerPcs
      BY <2>7 DEF ClientOpenResp, ClientPcs, ServerPcs
    <3>2. rfd' \in [Clients -> BOOLEAN]
      BY <2>7, Zenon DEF ClientOpenResp
    <3> QED BY <2>7, <3>1, <3>2 DEF ClientOpenResp
  <2>2. CASE ClientSend(c)
    <3>1. PICK isFind \in BOOLEAN :
            /\ find' = [find EXCEPT ![c] = isFind]
            /\ fifo' = Append(fifo, [c |-> c, n |-> req[c] + 1, find |-> isFind])
      BY <2>2 DEF ClientSend
    <3>2. [c |-> c, n |-> req[c] + 1, find |-> isFind] \in Request
      BY DEF Request
    <3>3. fifo' \in Seq(Request)
      BY <3>1, <3>2, AppendFacts
    <3> QED BY <2>2, <3>1, <3>3 DEF ClientSend, ClientPcs
  <2>3. CASE ClientRead(c)
    <3>1. pipe' \in [Clients -> Seq(Response)]
      BY <2>3, TailFacts DEF ClientRead
    <3> QED BY <2>3, <3>1 DEF ClientRead, ClientPcs
  <2>4. CASE ClientSigpipe(c) \/ ClientEnding(c) \/ ClientCrash(c)
    <3>1. ASSUME NEW l \in ClientPcs, cpc' = [cpc EXCEPT ![c] = l] PROVE cpc' \in [Clients -> ClientPcs]
      BY <3>1
    <3>2. FifoWithout(c) \in Seq(Request)
      BY EmptyPipe DEF FifoWithout
    <3>3. CASE ClientSigpipe(c)
      BY <3>1, <3>2, <3>3, EmptyPipe DEF ClientSigpipe, ClientLeaves, ClientPcs
    <3>4. CASE ClientEnding(c)
      BY <3>1, <3>2, <3>4, EmptyPipe DEF ClientEnding, ClientLeaves, ClientPcs
    <3>5. CASE ClientCrash(c)
      BY <3>1, <3>2, <3>5, EmptyPipe DEF ClientCrash, ClientLeaves, ClientPcs
    <3> QED BY <2>4, <3>3, <3>4, <3>5
  <2> QED BY <1>18, <2>1, <2>2, <2>3, <2>4, <2>5, <2>6, <2>7 DEF ClientStep, ClientCall
<1>19. CASE UNCHANGED vars
    BY <1>19 DEF vars
<1> QED
    BY <1>1, <1>2, <1>3, <1>4, <1>5, <1>6, <1>7, <1>8, <1>9, <1>10, <1>11, <1>12, <1>13, <1>14, <1>16, <1>17, <1>18, <1>19
    DEF Next, ServerRuns

\* The variables keep their types: among other things the server only ever takes
\* requests, and clients only ever read responses, that were sent as such.
THEOREM TypeCorrect == Spec => []TypeOK
<1>1. Init => TypeOK BY TypeInit
<1>2. TypeOK /\ [Next]_vars => TypeOK' BY TypeStep
<1> QED BY <1>1, <1>2, PTL DEF Spec

-----------------------------------------------------------------------------
(***************************************************************************)
(* Every answer reaches its own request, in order: AnswerInOrder, for any  *)
(* clients, values of the bounds and faults.  The invariant behind it is   *)
(* Core: FifoInv, WorkInv and ClientInv speak of where a request is and    *)
(* how far its answer has come, and none of them is inductive alone.       *)
(***************************************************************************)

\* what the invariants say of client d does not change
Same(d) ==
    /\ cpc'[d] = cpc[d] /\ link'[d] = link[d] /\ rfd'[d] = rfd[d] /\ pipe'[d] = pipe[d]
    /\ req'[d] = req[d] /\ find'[d] = find[d] /\ got'[d] = got[d] /\ served'[d] = served[d]

Core == FifoInv /\ WorkInv /\ ClientInv

LEMMA SameOk == ASSUME NEW d \in Clients, Same(d), ClientOk(d) PROVE ClientOk(d)'
BY DEF Same, ClientOk

LEMMA SamePending == ASSUME NEW r, Same(r.c), Pending(r) PROVE Pending(r)'
BY DEF Same, Pending, Expects

LEMMA FifoTypes ==
    ASSUME TypeOK
    PROVE  \A k \in 1..Len(fifo) : fifo[k] \in Request /\ fifo[k].c \in Clients
<1>1. \A k \in 1..Len(fifo) : fifo[k] \in Request
    BY LenProperties DEF TypeOK
<1> QED BY <1>1 DEF Request

\* what WorkInv says is about the request at work
LEMMA IdleWork == ASSUME srv' \notin Working PROVE WorkInv'
<1>1. srv' \notin {"cmd", "respOpen", "exec"} /\ srv' # "exec" /\ srv' \notin {"hits", "last", "resend"}
    BY DEF Working, Sending
<1> QED BY <1>1, Zenon DEF WorkInv

LEMMA SameWork ==
    ASSUME TypeOK, WorkInv, srv' = srv, cur' = cur, idx' = idx, Same(cur.c) PROVE WorkInv'
<1>1. Pending(cur) => Pending(cur)'
    BY SamePending
<1> QED BY <1>1 DEF WorkInv, Same, Expects, HasReader

LEMMA EmptyFifo == Len(<<>>) = 0
BY EmptySeq

-----------------------------------------------------------------------------
(* Steps of the server and of signals that only move the server on *)

LEMMA QuietStep ==
    ASSUME TypeOK, Core, UNCHANGED <<fifo, cur, idx, served, clientVars>>,
           srv' = srv \/ srv' \notin Working
           \/ (srv = "hits" /\ srv' \in {"last", "resend"})
    PROVE  Core'
<1>1. \A d \in Clients : Same(d)
    BY DEF Same, clientVars
<1>2. ClientInv'
    BY <1>1, SameOk DEF Core, ClientInv
<1>3. \A r \in Request : Pending(r) => Pending(r)'
    BY <1>1, SamePending DEF Request
<1>4. cur \in Request /\ \A k \in 1..Len(fifo) : fifo[k] \in Request
    BY LenProperties DEF TypeOK
<1>5. FifoInv'
    BY <1>3, <1>4 DEF Core, FifoInv, Working, Sending
<1>6. WorkInv'
    BY <1>3, <1>4 DEF Core, WorkInv, Working, Sending, Expects, HasReader, clientVars
<1> QED BY <1>2, <1>5, <1>6 DEF Core

-----------------------------------------------------------------------------
(* The other steps of the server *)

LEMMA MkfifoStep == ASSUME TypeOK, Core, ServerMkfifo PROVE Core'
<1>1. ClientInv'
    BY DEF Core, ClientInv, ClientOk, ServerMkfifo
<1>2. FifoInv' /\ WorkInv'
    BY EmptyFifo DEF ServerMkfifo, FifoInv, WorkInv, Working, Sending
<1> QED BY <1>1, <1>2 DEF Core

LEMMA ReadStep == ASSUME TypeOK, Core, ServerRead PROVE Core'
<1>1. \A d \in Clients : Same(d)
    BY DEF Same, ServerRead, clientVars
<1>2. ClientInv'
    BY <1>1, SameOk DEF Core, ClientInv
<1>3. \A r \in Request : Pending(r) => Pending(r)'
    BY <1>1, SamePending DEF Request
<1>4. /\ fifo \in Seq(Request) /\ fifo # <<>>
      /\ cur' = fifo[1] /\ fifo[1] \in Request /\ Len(fifo) \in Nat /\ Len(fifo) >= 1
      /\ Len(fifo') = Len(fifo) - 1
      /\ \A k \in 1..Len(fifo') : fifo'[k] = fifo[k + 1] /\ fifo[k + 1] \in Request
    BY TailFacts, LenProperties DEF ServerRead, TypeOK
<1>5. Pending(cur)' /\ srv' = "cmd"
    BY <1>3, <1>4 DEF Core, FifoInv, ServerRead
<1>6. FifoInv'
  <2>1. \A k \in 1..Len(fifo') : k + 1 \in 1..Len(fifo) /\ fifo'[k] = fifo[k + 1]
    BY <1>4
  <2>2. \A k \in 1..Len(fifo') : Pending(fifo[k])'
    BY <1>3, <1>4, <2>1 DEF Core, FifoInv
  <2>3. \A j, k \in 1..Len(fifo') : fifo'[j].c = fifo'[k].c => j = k
    BY <2>1 DEF Core, FifoInv
  <2>4. \A k \in 1..Len(fifo') : fifo'[k].c # cur'.c
    BY <1>4, <2>1 DEF Core, FifoInv
  <2> QED BY <2>2, <2>3, <2>4 DEF FifoInv
<1>7. WorkInv'
    BY <1>5 DEF WorkInv
<1> QED BY <1>2, <1>6, <1>7 DEF Core

LEMMA CloseStep == ASSUME TypeOK, Core, ServerClose PROVE Core'
<1>1. \A d \in Clients : Same(d)
    BY DEF Same, ServerClose, clientVars
<1>2. ClientInv'
    BY <1>1, SameOk DEF Core, ClientInv
<1>3. \A r \in Request : Pending(r) => Pending(r)'
    BY <1>1, SamePending DEF Request
<1>4. \A k \in 1..Len(fifo) : fifo[k] \in Request
    BY LenProperties DEF TypeOK
<1>5. FifoInv' /\ WorkInv'
    BY <1>3, <1>4, EmptyFifo DEF Core, FifoInv, WorkInv, ServerClose, Working, Sending
<1> QED BY <1>2, <1>5 DEF Core

LEMMA ReopenStep == ASSUME TypeOK, Core, ServerReopen PROVE Core'
<1>1. \A d \in Clients : Same(d) \/ (cpc[d] = "copen" /\ cpc'[d] = "mk")
    BY DEF Same, ServerReopen, Blocked, TypeOK
<1>2. ClientInv'
    BY <1>1, SameOk DEF Core, ClientInv, ClientOk, ServerReopen, Waiting
<1>3. \A r \in Request : Pending(r) => Pending(r)'
    BY <1>1, SamePending DEF Request, Pending, Expects, Waiting
<1>4. \A k \in 1..Len(fifo) : fifo[k] \in Request
    BY LenProperties DEF TypeOK
<1>5. FifoInv' /\ WorkInv'
    BY <1>3, <1>4 DEF Core, FifoInv, WorkInv, ServerReopen, Working, Sending
<1> QED BY <1>2, <1>5 DEF Core
LEMMA OpenRespStep == ASSUME TypeOK, Core, ServerOpenResp PROVE Core'
<1>1. cur \in Request /\ cur.c \in Clients /\ Pending(cur)
    BY DEF TypeOK, Request, Core, WorkInv, ServerOpenResp
<1>2. \A d \in Clients : d # cur.c => Same(d)
    BY <1>1 DEF Same, ServerOpenResp, TypeOK
<1>3. ClientOk(cur.c)'
  <2> DEFINE c == cur.c
  <2>1. /\ link'[c] = link[c] /\ pipe'[c] = pipe[c] /\ req'[c] = req[c] /\ find'[c] = find[c]
        /\ got'[c] = got[c] /\ served'[c] = served[c] /\ cur' = cur
    BY DEF ServerOpenResp
  <2>2. cpc[c] \in Waiting \cup {"killed"}
    BY <1>1 DEF Pending, Expects
  <2>3. /\ cpc'[c] = cpc[c] \/ (cpc[c] = "ropen" /\ cpc'[c] = "reading" /\ rfd'[c])
        /\ rfd'[c] = rfd[c] \/ (rfd'[c] /\ cpc'[c] # "ropen")
    BY <1>1, <2>2 DEF ServerOpenResp, TypeOK, HasReader, Core, ClientInv, ClientOk, Waiting
  <2> QED BY <1>1, <2>1, <2>2, <2>3 DEF Core, ClientInv, ClientOk, Waiting
<1>4. ClientInv'
  <2>1. \A d \in Clients : d # cur.c => ClientOk(d)'
    BY <1>2, SameOk DEF Core, ClientInv
  <2> QED BY <1>3, <2>1 DEF ClientInv, ServerOpenResp
<1>5. \A r \in Request : Pending(r) => Pending(r)'
  <2>1. \A d \in Clients : cpc'[d] = cpc[d] \/ (cpc[d] \in Waiting /\ cpc'[d] \in Waiting)
    BY <1>1 DEF ServerOpenResp, TypeOK, Waiting
  <2>2. UNCHANGED <<req, served, find, pipe, got, link>>
    BY DEF ServerOpenResp
  <2>3. \A r \in Request : r.c \in Clients
    BY DEF Request
  <2>4. \A d \in Clients : cpc'[d] \in Waiting \cup {"killed"} <=> cpc[d] \in Waiting \cup {"killed"}
    BY <2>1
  <2>5. \A d \in Clients : cpc'[d] \in Waiting <=> cpc[d] \in Waiting
    BY <2>1 DEF Waiting
  <2> QED BY <2>2, <2>3, <2>4, <2>5 DEF Pending, Expects
<1>6. \A k \in 1..Len(fifo) : fifo[k] \in Request
    BY LenProperties DEF TypeOK
<1>7. FifoInv'
    BY <1>5, <1>6 DEF Core, FifoInv, ServerOpenResp, Working, Sending
<1>8. Pending(cur)' /\ srv' \in {"exec", "respOpen"}
    BY <1>1, <1>5 DEF ServerOpenResp
<1>9. srv' = "exec" => cpc'[cur.c] = "killed" \/ HasReader(cur.c)'
    BY <1>1 DEF ServerOpenResp, HasReader, Attached, TypeOK
<1>10. WorkInv'
    BY <1>8, <1>9 DEF WorkInv, ServerOpenResp
<1> QED BY <1>4, <1>7, <1>10 DEF Core

LEMMA ExecStep == ASSUME TypeOK, Core, ServerExec PROVE Core'
<1>1. cur \in Request /\ cur.c \in Clients /\ Pending(cur)
    BY DEF TypeOK, Request, Core, WorkInv, ServerExec
<1>2. /\ UNCHANGED <<fifo, cur, cpc, link, rfd, pipe, req, find, got>>
      /\ served' = [served EXCEPT ![cur.c] = req[cur.c]] /\ idx' = 1
      /\ srv' \in {"hits", "last"} /\ (~cur.find => srv' = "last")
    BY <1>1 DEF ServerExec, clientVars, Pending
<1>3. \A d \in Clients : d # cur.c => Same(d)
    BY <1>2 DEF Same, TypeOK
<1>4. ClientInv'
  <2>1. \A d \in Clients : d # cur.c => ClientOk(d)'
    BY <1>3, SameOk DEF Core, ClientInv
  <2>2. ClientOk(cur.c)'
    BY <1>1, <1>2 DEF Core, ClientInv, ClientOk, TypeOK, Pending
  <2> QED BY <1>2, <2>1, <2>2 DEF ClientInv
<1>5. \A k \in 1..Len(fifo) : fifo[k].c \in Clients /\ fifo[k].c # cur.c
    BY FifoTypes DEF Core, FifoInv, ServerExec, Working, Sending
<1>6. FifoInv'
    BY <1>2, <1>3, <1>5, SamePending DEF Core, FifoInv
<1>7. cpc[cur.c] \in Waiting => rfd[cur.c]
    BY DEF Core, WorkInv, ServerExec, HasReader, Waiting
<1>8. WorkInv'
    BY <1>1, <1>2, <1>7, EmptyFifo DEF WorkInv, Expects, Pending, TypeOK
<1> QED BY <1>4, <1>6, <1>8 DEF Core

LEMMA SendStep ==
    ASSUME TypeOK, Core, NEW last \in BOOLEAN, Send(last),
           \/ srv = "hits" /\ srv' = "hits" /\ ~last
           \/ srv = "last" /\ srv' = "loop" /\ last
           \/ srv = "resend" /\ srv' = "loop" /\ ~last
    PROVE  Core'
<1> DEFINE c == cur.c
           e == [n |-> cur.n, i |-> idx, last |-> last]
<1>1. cur \in Request /\ c \in Clients /\ e \in Response /\ pipe[c] \in Seq(Response)
    BY DEF TypeOK, Request, Response
<1>2. /\ UNCHANGED <<fifo, cur, served, cpc, link, rfd, req, find, got>> /\ idx' = idx + 1
      /\ pipe' = [pipe EXCEPT ![c] = Append(pipe[c], e)]
    BY DEF Send
<1>3. \A d \in Clients : d # c => Same(d)
    BY <1>2 DEF Same, TypeOK
<1>4. /\ cpc[c] \in Waiting /\ rfd[c] /\ cur.n = req[c] /\ served[c] = req[c]
      /\ cur.find = find[c] /\ idx = got[c] + Len(pipe[c]) + 1
      /\ \A k \in 1..Len(pipe[c]) : ~pipe[c][k].last
      /\ ~cur.find => srv = "last" /\ pipe[c] = <<>>
    BY DEF Core, WorkInv, Send, HasReader, Expects, Attached, Waiting
<1>5. /\ Len(pipe'[c]) = Len(pipe[c]) + 1 /\ Len(pipe[c]) \in Nat
      /\ \A k \in 1..Len(pipe[c]) : pipe'[c][k] = pipe[c][k]
      /\ pipe'[c][Len(pipe[c]) + 1] = e /\ e.n = req[c] /\ e.i = idx /\ e.last = last
      /\ got[c] \in Nat /\ idx \in Nat
  <2>1. pipe'[c] = Append(pipe[c], e) /\ got[c] \in Nat /\ idx \in Nat
    BY <1>1, <1>2 DEF TypeOK
  <2> QED BY <1>1, <1>4, <2>1, AppendFacts
<1>6. \A k \in 1..Len(pipe'[c]) : k \in 1..Len(pipe[c]) \/ k = Len(pipe[c]) + 1
    BY <1>5
<1>7. /\ got[c] \in Nat /\ idx \in Nat /\ Len(pipe[c]) \in Nat
      /\ idx = got[c] + Len(pipe[c]) + 1 /\ idx' = idx + 1
      /\ Len(pipe'[c]) = Len(pipe[c]) + 1
    BY <1>2, <1>4, <1>5
<1>8. pipe'[c][Len(pipe[c]) + 1].n = req[c] /\ pipe'[c][Len(pipe[c]) + 1].i = idx
    BY <1>5
<1>9. \A k \in 1..Len(pipe[c]) : pipe'[c][k] = pipe[c][k]
    BY <1>5
<1>10. ClientOk(c)'
  <2>0. \A k \in 1..Len(pipe[c]) : pipe[c][k].n = req[c] /\ pipe[c][k].i = got[c] + k
    BY <1>1 DEF Core, ClientInv, ClientOk
  <2>1. \A k \in 1..Len(pipe'[c]) : pipe'[c][k].n = req[c] /\ pipe'[c][k].i = got[c] + k
    <3> SUFFICES ASSUME NEW k \in 1..Len(pipe'[c])
                 PROVE  pipe'[c][k].n = req[c] /\ pipe'[c][k].i = got[c] + k
        OBVIOUS
    <3>1. CASE k \in 1..Len(pipe[c])
        BY <3>1, <1>9, <2>0
    <3>2. CASE k = Len(pipe[c]) + 1
      <4>1. idx = got[c] + k
        BY <3>2, <1>7
      <4> QED BY <3>2, <1>8, <4>1
    <3> QED BY <1>6, <3>1, <3>2
  <2>2. \A k \in 1..Len(pipe'[c]) : pipe'[c][k].last => k = Len(pipe'[c])
    BY <1>4, <1>5, <1>6
  <2>3. \A k \in 1..Len(pipe'[c]) : ~find[c] => pipe'[c][k].last
    BY <1>4, <1>5, <1>6, EmptyFifo
  <2>4. /\ cpc'[c] = cpc[c] /\ rfd'[c] = rfd[c] /\ req'[c] = req[c] /\ find'[c] = find[c]
        /\ got'[c] = got[c] /\ served'[c] = served[c]
    BY <1>2
  <2>5. cpc[c] \notin {"off", "copen", "mk", "ready"} /\ req[c] \in Nat
    BY <1>1, <1>4 DEF Waiting, TypeOK
  <2>6. cpc[c] # "ropen"
    BY <1>1, <1>4 DEF Core, ClientInv, ClientOk
  <2>7. served'[c] <= req'[c] /\ req'[c] <= served'[c] + 1
    BY <1>4, <2>4, <2>5
  <2>8. cpc'[c] \in Waiting /\ cpc'[c] \notin {"off", "copen", "mk", "ready", "ropen"}
    BY <1>4, <2>4, <2>5, <2>6
  <2>9. ~find'[c] => \A k \in 1..Len(pipe'[c]) : pipe'[c][k].last
    BY <2>3, <2>4
  <2>10. \A k \in 1..Len(pipe'[c]) : pipe'[c][k].n = req'[c] /\ pipe'[c][k].i = got'[c] + k
    BY <2>1, <2>4
  <2>11. served'[c] = req'[c] /\ rfd'[c] /\ cur' = cur
    BY <1>2, <1>4, <2>4
  <2> QED BY <2>2, <2>7, <2>8, <2>9, <2>10, <2>11 DEF ClientOk
<1>11. ClientInv'
  <2>1. \A d \in Clients : d # c => ClientOk(d)'
    BY <1>3, SameOk DEF Core, ClientInv
  <2> QED BY <1>2, <1>10, <2>1 DEF ClientInv
<1>12. FifoInv'
  <2>1. \A k \in 1..Len(fifo) : fifo[k].c \in Clients /\ fifo[k].c # c
    BY FifoTypes DEF Core, FifoInv, Working, Sending
  <2> QED BY <1>2, <1>3, <2>1, SamePending DEF Core, FifoInv
<1>13. WorkInv'
  <2>1. srv' = "hits" => \A k \in 1..Len(pipe'[c]) : ~pipe'[c][k].last
    BY <1>4, <1>5, <1>6
  <2>2. idx' = got[c] + Len(pipe'[c]) + 1
    BY <1>7
  <2> QED BY <1>1, <1>2, <1>4, <2>1, <2>2 DEF WorkInv, Expects, TypeOK
<1> QED BY <1>11, <1>12, <1>13 DEF Core

-----------------------------------------------------------------------------
(* Steps of a client that has no request under way *)

LEMMA MoveStep ==
    ASSUME TypeOK, Core, NEW c \in Clients, ~Expects(c), ClientOk(c)',
           \A d \in Clients : d # c => Same(d),
           UNCHANGED <<cur, idx, served>>, fifo' \in {fifo, <<>>},
           srv' = srv \/ srv' \notin Working
    PROVE  Core'
<1>1. ClientInv'
    BY SameOk DEF Core, ClientInv
<1>2. \A r \in Request : Pending(r) => r.c # c /\ Pending(r)'
    BY SamePending DEF Request, Pending
<1>3. FifoInv'
    BY <1>2, FifoTypes, EmptyFifo DEF Core, FifoInv
<1>4. cur \in Request /\ cur.c \in Clients
    BY DEF TypeOK, Request
<1>5. srv \in Working => cur.c # c
    BY DEF Core, WorkInv, Working, Sending, Pending
<1>6. WorkInv'
  <2>1. CASE srv' \notin Working
    BY <2>1, IdleWork
  <2>2. CASE srv' = srv /\ srv \in Working
    <3>1. Same(cur.c)
        BY <1>4, <1>5, <2>2
    <3> QED BY <2>2, <3>1, SameWork DEF Core
  <2> QED BY <2>1, <2>2
<1> QED BY <1>1, <1>3, <1>6 DEF Core

LEMMA NoServerStep == ASSUME TypeOK, Core, NEW c \in Clients, ClientNoServer(c) PROVE Core'
<1>1. ~Expects(c)
    BY DEF Expects, Waiting, ClientNoServer
<1>2. ClientOk(c)'
    BY DEF ClientNoServer, serverVars, TypeOK, Core, ClientInv, ClientOk, Waiting
<1>3. \A d \in Clients : d # c => Same(d)
    BY DEF ClientNoServer, serverVars, TypeOK, Same
<1> QED BY <1>1, <1>2, <1>3, MoveStep DEF ClientNoServer, serverVars

LEMMA OpenStep == ASSUME TypeOK, Core, NEW c \in Clients, ClientOpen(c) PROVE Core'
<1>1. ~Expects(c)
    BY DEF Expects, Waiting, ClientOpen
<1>2. ClientOk(c)'
    BY DEF ClientOpen, TypeOK, Core, ClientInv, ClientOk, Waiting
<1>3. \A d \in Clients : d # c => Same(d)
    BY DEF ClientOpen, TypeOK, Same
<1>4. srv' = srv \/ srv' \notin Working
    BY DEF ClientOpen, Working, Sending
<1> QED BY <1>1, <1>2, <1>3, <1>4, MoveStep DEF ClientOpen

LEMMA ClientMkfifoStep == ASSUME TypeOK, Core, NEW c \in Clients, ClientMkfifo(c) PROVE Core'
<1>1. ~Expects(c)
    BY DEF Expects, Waiting, ClientMkfifo
<1>2. ClientOk(c)'
    BY DEF ClientMkfifo, serverVars, TypeOK, Core, ClientInv, ClientOk, Waiting
<1>3. \A d \in Clients : d # c => Same(d)
    BY DEF ClientMkfifo, serverVars, TypeOK, Same
<1> QED BY <1>1, <1>2, <1>3, MoveStep DEF ClientMkfifo, serverVars

\* ClientSigpipe, ClientEnding and ClientCrash end in the same way
LEMMA LeaveStep ==
    ASSUME TypeOK, Core, NEW c \in Clients, NEW how \in {"gone", "killed"}, ClientLeaves(c, how),
           ~Expects(c) \/ (how = "killed" /\ cpc[c] \in Waiting)
    PROVE  Core'
<1>1. ClientOk(c)'
    BY EmptyFifo DEF ClientLeaves, TypeOK, Core, ClientInv, ClientOk, Waiting
<1>2. \A d \in Clients : d # c => Same(d)
    BY DEF ClientLeaves, TypeOK, Same
<1>3. fifo' \in {fifo, <<>>}
    BY DEF ClientLeaves, FifoWithout
<1>4. CASE ~Expects(c)
    BY <1>1, <1>2, <1>3, <1>4, MoveStep DEF ClientLeaves
<1>5. CASE how = "killed" /\ cpc[c] \in Waiting
  <2>1. ClientInv'
    BY <1>1, <1>2, SameOk DEF Core, ClientInv
  <2>2. /\ cpc'[c] = "killed" /\ UNCHANGED <<srv, cur, idx, served, req, rfd>>
        /\ \A d \in Clients : d # c => cpc'[d] = cpc[d]
    BY <1>5 DEF ClientLeaves, TypeOK
  <2>3. \A r \in Request : Pending(r) => Pending(r)'
    <3> SUFFICES ASSUME NEW r \in Request, Pending(r) PROVE Pending(r)'
        OBVIOUS
    <3>1. CASE r.c = c
        BY <2>2, <3>1 DEF Pending, Expects, Waiting
    <3>2. CASE r.c # c
        BY <1>2, <3>2, SamePending DEF Request
    <3> QED BY <3>1, <3>2
  <2>4. FifoInv'
    BY <1>3, <2>2, <2>3, FifoTypes, EmptyFifo DEF Core, FifoInv
  <2>5. cur \in Request /\ cur.c \in Clients
    BY DEF TypeOK, Request
  <2>6. WorkInv'
    <3>1. CASE cur.c = c
        BY <2>2, <2>3, <2>5, <3>1 DEF Core, WorkInv, Expects, Waiting
    <3>2. CASE cur.c # c
        <4>1. Same(cur.c)
            BY <1>2, <2>5, <3>2
        <4> QED BY <2>2, <4>1, SameWork DEF Core
    <3> QED BY <3>1, <3>2
  <2> QED BY <2>1, <2>4, <2>6 DEF Core
<1> QED BY <1>4, <1>5

LEMMA ClientSendStep == ASSUME TypeOK, Core, NEW c \in Clients, ClientSend(c) PROVE Core'
<1>1. PICK isFind \in BOOLEAN :
         /\ find' = [find EXCEPT ![c] = isFind]
         /\ fifo' = Append(fifo, [c |-> c, n |-> req[c] + 1, find |-> isFind])
    BY DEF ClientSend
<1>2. PICK r0 \in Request : r0 = [c |-> c, n |-> req[c] + 1, find |-> isFind]
  <2>1. [c |-> c, n |-> req[c] + 1, find |-> isFind] \in Request
    BY DEF TypeOK, Request
  <2> QED BY <2>1
<1>3. /\ UNCHANGED <<srv, cur, idx, served, link, rfd, pipe>>
      /\ cpc[c] = "ready" /\ link[c] = "cur" /\ cpc'[c] = "sent"
      /\ req'[c] = req[c] + 1 /\ got'[c] = 0 /\ find'[c] = isFind
    BY <1>1 DEF ClientSend, TypeOK
<1>4. pipe[c] = <<>> /\ served[c] = req[c] /\ req[c] \in Nat
    BY <1>3 DEF Core, ClientInv, ClientOk, Waiting, TypeOK
<1>5. \A d \in Clients : d # c => Same(d)
    BY <1>1, <1>3 DEF ClientSend, TypeOK, Same
<1>6. ClientInv'
  <2>1. ClientOk(c)'
    BY <1>3, <1>4, EmptyFifo DEF ClientOk, Waiting
  <2> QED BY <1>5, <2>1, SameOk DEF Core, ClientInv
<1>7. \A r \in Request : Pending(r) => r.c # c /\ Pending(r)'
    BY <1>3, <1>5, SamePending DEF Request, Pending, Expects, Waiting
<1>8. Pending(r0)'
    BY <1>2, <1>3, <1>4 DEF Pending, Expects, Waiting
<1>9. /\ Len(fifo') = Len(fifo) + 1 /\ Len(fifo) \in Nat
      /\ \A k \in 1..Len(fifo) : fifo'[k] = fifo[k]
      /\ fifo'[Len(fifo) + 1] = r0
    BY <1>1, <1>2, AppendFacts DEF TypeOK
<1>10. \A k \in 1..Len(fifo') : k \in 1..Len(fifo) \/ k = Len(fifo) + 1
    BY <1>9
<1>11. cur \in Request /\ (srv \in Working => cur.c # c)
    BY <1>3 DEF TypeOK, Core, WorkInv, Working, Sending, Pending, Expects, Waiting
<1>12. FifoInv'
  <2>1. \A k \in 1..Len(fifo) : Pending(fifo[k]) /\ fifo[k] \in Request /\ fifo[k].c # c
    BY <1>7, FifoTypes DEF Core, FifoInv
  <2>2. \A k \in 1..Len(fifo') : Pending(fifo[k])'
    BY <1>7, <1>8, <1>9, <1>10, <2>1
  <2>3. \A j, k \in 1..Len(fifo') : fifo'[j].c = fifo'[k].c => j = k
    BY <1>2, <1>9, <1>10, <2>1 DEF Core, FifoInv
  <2>4. srv \in Working => \A k \in 1..Len(fifo') : fifo'[k].c # cur.c
    BY <1>2, <1>9, <1>10, <1>11 DEF Core, FifoInv
  <2> QED BY <1>3, <2>2, <2>3, <2>4 DEF FifoInv
<1>13. WorkInv'
  <2>1. CASE srv \in Working
    <3>1. Same(cur.c)
        BY <1>5, <1>11, <2>1 DEF Request
    <3> QED BY <1>3, <3>1, SameWork DEF Core
  <2>2. CASE srv \notin Working
    BY <1>3, <2>2, IdleWork
  <2> QED BY <2>1, <2>2
<1> QED BY <1>6, <1>12, <1>13 DEF Core

-----------------------------------------------------------------------------
(* Steps of a client inside a call *)

LEMMA ClientOpenRespStep == ASSUME TypeOK, Core, NEW c \in Clients, ClientOpenResp(c) PROVE Core'
<1>1. PICK met \in BOOLEAN : met <=> (srv = "respOpen" /\ cur.c = c)
    OBVIOUS
<1>2. /\ UNCHANGED <<fifo, cur, idx, served, link, pipe, req, find, got>>
      /\ cpc[c] = "sent" /\ cpc'[c] \in {"reading", "ropen"}
      /\ (cpc'[c] = "reading" <=> rfd[c] \/ met) /\ (rfd'[c] <=> rfd[c] \/ met)
      /\ srv' = IF met THEN "exec" ELSE srv
    BY <1>1 DEF ClientOpenResp, TypeOK
<1>3. \A d \in Clients : d # c => Same(d)
    BY <1>1 DEF ClientOpenResp, TypeOK, Same
<1>4. ClientInv'
  <2>1. ClientOk(c)'
    BY <1>2 DEF Core, ClientInv, ClientOk, Waiting
  <2> QED BY <1>3, <2>1, SameOk DEF Core, ClientInv
<1>5. \A r \in Request : Pending(r) => Pending(r)'
  <2> SUFFICES ASSUME NEW r \in Request, Pending(r) PROVE Pending(r)'
    OBVIOUS
  <2>1. CASE r.c = c
    BY <1>2, <2>1 DEF Pending, Expects, Waiting
  <2>2. CASE r.c # c
    BY <1>3, <2>2, SamePending DEF Request
  <2> QED BY <2>1, <2>2
<1>6. FifoInv'
    BY <1>1, <1>2, <1>5, FifoTypes DEF Core, FifoInv, Working, Sending
<1>7. cur \in Request /\ cur.c \in Clients
    BY DEF TypeOK, Request
<1>8. WorkInv'
  <2>1. CASE met
    BY <1>1, <1>2, <1>5, <1>7, <2>1 DEF Core, WorkInv, HasReader, Attached
  <2>2. CASE ~met /\ cur.c = c
    BY <1>2, <1>5, <1>7, <2>2 DEF Core, WorkInv, HasReader, Attached, Expects, Waiting
  <2>3. CASE ~met /\ cur.c # c
    <3>1. Same(cur.c)
        BY <1>3, <1>7, <2>3
    <3> QED BY <1>2, <2>3, <3>1, SameWork DEF Core
  <2> QED BY <2>1, <2>2, <2>3
<1> QED BY <1>4, <1>6, <1>8 DEF Core

LEMMA ClientReadStep == ASSUME TypeOK, Core, NEW c \in Clients, ClientRead(c) PROVE Core'
<1>1. /\ UNCHANGED <<srv, fifo, cur, idx, served, link, rfd, req, find>>
      /\ cpc[c] = "reading" /\ pipe[c] # <<>> /\ pipe'[c] = Tail(pipe[c])
      /\ got'[c] = got[c] + 1 /\ got[c] \in Nat
      /\ cpc'[c] = IF find[c] /\ ~Head(pipe[c]).last THEN "reading" ELSE "ready"
    BY DEF ClientRead, serverVars, TypeOK
<1>2. /\ pipe[c] \in Seq(Response) /\ Head(pipe[c]) = pipe[c][1]
      /\ Len(pipe[c]) \in Nat /\ Len(pipe[c]) >= 1 /\ pipe'[c] \in Seq(Response)
      /\ Len(pipe'[c]) = Len(pipe[c]) - 1
      /\ \A k \in 1..Len(pipe'[c]) : pipe'[c][k] = pipe[c][k + 1]
    BY <1>1, TailFacts DEF TypeOK
<1>3. /\ got[c] \in Nat /\ got'[c] = got[c] + 1
      /\ Len(pipe[c]) \in Nat /\ Len(pipe'[c]) = Len(pipe[c]) - 1
    BY <1>1, <1>2
<1>4. \A d \in Clients : d # c => Same(d)
    BY DEF ClientRead, serverVars, TypeOK, Same
<1>5. served[c] = req[c] /\ req[c] \in Nat /\ rfd[c]
    BY <1>1 DEF Core, ClientInv, ClientOk, TypeOK
<1>6. \A k \in 1..Len(pipe[c]) :
         /\ pipe[c][k].n = req[c] /\ pipe[c][k].i = got[c] + k
         /\ pipe[c][k].last => k = Len(pipe[c])
         /\ ~find[c] => pipe[c][k].last
    BY DEF Core, ClientInv, ClientOk
<1>7. 1 \in 1..Len(pipe[c]) /\ \A k \in 1..Len(pipe'[c]) : k + 1 \in 1..Len(pipe[c]) /\ k \in Nat
    BY <1>2
<1>8. \A k \in 1..Len(pipe'[c]) :
         /\ pipe'[c][k].n = req[c] /\ pipe'[c][k].i = got'[c] + k
         /\ pipe'[c][k].last => k = Len(pipe'[c])
         /\ ~find[c] => pipe'[c][k].last
  <2> SUFFICES ASSUME NEW k \in 1..Len(pipe'[c])
               PROVE  /\ pipe'[c][k].n = req[c] /\ pipe'[c][k].i = got'[c] + k
                      /\ pipe'[c][k].last => k = Len(pipe'[c])
                      /\ ~find[c] => pipe'[c][k].last
    OBVIOUS
  <2>1. pipe'[c][k] = pipe[c][k + 1] /\ k + 1 \in 1..Len(pipe[c]) /\ k \in Nat
    BY <1>2, <1>7
  <2>2. /\ pipe[c][k + 1].n = req[c] /\ pipe[c][k + 1].i = got[c] + (k + 1)
        /\ pipe[c][k + 1].last => k + 1 = Len(pipe[c])
        /\ ~find[c] => pipe[c][k + 1].last
    BY <1>6, <2>1
  <2>3. pipe[c][k + 1].i = got'[c] + k
    <3>1. pipe[c][k + 1].i = got[c] + (k + 1) /\ k \in Nat
        BY <2>1, <2>2
    <3>2. got[c] + (k + 1) = got'[c] + k
        BY <1>3, <3>1
    <3> QED BY <3>1, <3>2
  <2>4. k + 1 = Len(pipe[c]) => k = Len(pipe'[c])
    BY <1>3, <2>1
  <2> QED BY <2>1, <2>2, <2>3, <2>4, Zenon
<1>9. cpc'[c] \notin Waiting => pipe'[c] = <<>>
  <2>1. cpc'[c] \notin Waiting => pipe[c][1].last
    BY <1>1, <1>2, <1>6, <1>7 DEF Waiting
  <2>2. pipe[c][1].last => Len(pipe'[c]) = 0
    <3>1. pipe[c][1].last => 1 = Len(pipe[c])
        BY <1>6, <1>7
    <3> QED BY <1>3, <3>1
  <2> QED BY <1>2, <2>1, <2>2, EmptySeq
<1>10. ClientInv'
  <2>1. ClientOk(c)'
    <3>1. cpc'[c] \in {"reading", "ready"} /\ rfd'[c] /\ served'[c] = req'[c] /\ req'[c] \in Nat
        BY <1>1, <1>5
    <3>2. served'[c] <= req'[c] /\ req'[c] <= served'[c] + 1
        BY <3>1
    <3>3. \A k \in 1..Len(pipe'[c]) :
             /\ pipe'[c][k].n = req'[c] /\ pipe'[c][k].i = got'[c] + k
             /\ pipe'[c][k].last => k = Len(pipe'[c])
             /\ ~find'[c] => pipe'[c][k].last
        BY <1>1, <1>8, Zenon
    <3>4. cpc'[c] \notin {"off", "copen", "mk", "ropen"}
        BY <3>1
    <3> QED BY <1>9, <3>1, <3>2, <3>3, <3>4, Zenon DEF ClientOk
  <2> QED BY <1>4, <2>1, SameOk DEF Core, ClientInv
<1>11. \A r \in Request : Pending(r) => r.c # c /\ Pending(r)'
    BY <1>4, <1>5, SamePending DEF Request, Pending
<1>12. FifoInv'
    BY <1>1, <1>11, FifoTypes DEF Core, FifoInv
<1>13. cur \in Request /\ cur.c \in Clients
    BY DEF TypeOK, Request
<1>14. WorkInv'
  <2>1. CASE cur.c # c
    <3>1. Same(cur.c)
        BY <1>4, <1>13, <2>1
    <3> QED BY <1>1, <3>1, SameWork DEF Core
  <2>2. CASE cur.c = c /\ srv \notin {"hits", "last", "resend"}
    <3>1. srv \notin {"cmd", "respOpen", "exec"}
        BY <1>11, <1>13, <2>2 DEF Core, WorkInv
    <3> QED BY <1>1, <2>2, <3>1, IdleWork DEF Working, Sending
  <2>3. CASE cur.c = c /\ srv \in {"hits", "last", "resend"}
    <3>1. /\ cur.n = req[c] /\ cur.find = find[c] /\ idx = got[c] + Len(pipe[c]) + 1
          /\ \A k \in 1..Len(pipe[c]) : ~pipe[c][k].last
          /\ ~cur.find => pipe[c] = <<>>
        BY <1>1, <2>3 DEF Core, WorkInv, Waiting
    <3>2. cur.find /\ cpc'[c] = "reading"
        BY <1>1, <1>2, <1>7, <3>1
    <3>3. \A k \in 1..Len(pipe'[c]) : ~pipe'[c][k].last
        BY <1>2, <1>7, <3>1
    <3>4. idx' = got'[c] + Len(pipe'[c]) + 1
        BY <1>1, <1>3, <3>1
    <3> QED BY <1>1, <1>5, <2>3, <3>1, <3>2, <3>3, <3>4 DEF WorkInv, Expects, Waiting
  <2> QED BY <2>1, <2>2, <2>3
<1> QED BY <1>10, <1>12, <1>14 DEF Core

-----------------------------------------------------------------------------
(* The three parts together *)

LEMMA CoreInit == Init => Core
<1> SUFFICES ASSUME Init PROVE Core
    OBVIOUS
<1>1. FifoInv /\ WorkInv
    BY EmptyFifo DEF Init, FifoInv, WorkInv, Working, Sending
<1>2. ClientInv
  <2> SUFFICES ASSUME NEW c \in Clients PROVE ClientOk(c)
    BY DEF ClientInv
  <2>1. cpc[c] = "off" /\ pipe[c] = <<>> /\ served[c] = 0 /\ req[c] = 0
    BY DEF Init
  <2>2. ~rfd[c]
    BY Zenon DEF Init
  <2> QED BY <2>1, <2>2, EmptyFifo DEF ClientOk
<1> QED BY <1>1, <1>2 DEF Core

LEMMA ServerCoreStep == ASSUME TypeOK, Core, ServerRuns PROVE Core'
<1>1. CASE ServerLoop \/ ServerEof \/ ServerGiveUp \/ ServerNoMore
    BY <1>1, QuietStep DEF ServerLoop, ServerEof, ServerGiveUp, ServerNoMore, Working, Sending
<1>2. CASE ServerSigpipe \/ ServerEnding \/ ServerEnd
    BY <1>2, QuietStep DEF ServerSigpipe, ServerEnding, ServerEnd, Working, Sending
<1>3. CASE ServerSendHit
    BY <1>3, SendStep, Zenon DEF ServerSendHit
<1>4. CASE ServerSendLast
    BY <1>4, SendStep, Zenon DEF ServerSendLast
<1>5. CASE ServerResend
    BY <1>5, SendStep, Zenon DEF ServerResend
<1> QED
    BY <1>1, <1>2, <1>3, <1>4, <1>5, MkfifoStep, ReadStep, CloseStep, ReopenStep, OpenRespStep,
       ExecStep, Zenon DEF ServerRuns

LEMMA ClientCoreStep == ASSUME TypeOK, Core, NEW c \in Clients, ClientStep(c) PROVE Core'
<1>1. CASE ClientSigpipe(c)
  <2>1. ClientLeaves(c, "killed") /\ ~Expects(c)
    BY <1>1 DEF ClientSigpipe, ClientLeaves, Expects, Waiting
  <2> QED BY <2>1, LeaveStep
<1>2. CASE ClientEnding(c)
  <2>1. ClientLeaves(c, "gone") /\ ~Expects(c)
    BY <1>2 DEF ClientEnding, Expects, Waiting
  <2> QED BY <2>1, LeaveStep
<1>3. CASE ClientCrash(c)
  <2>1. ClientLeaves(c, "killed") /\ (~Expects(c) \/ cpc[c] \in Waiting)
    BY <1>3 DEF ClientCrash, Expects, Waiting, Attached
  <2> QED BY <2>1, LeaveStep
<1> QED
    BY <1>1, <1>2, <1>3, NoServerStep, OpenStep, ClientMkfifoStep, ClientSendStep,
       ClientOpenRespStep, ClientReadStep, Zenon DEF ClientStep, ClientCall

LEMMA CoreStep == TypeOK /\ Core /\ [Next]_vars => Core'
<1> SUFFICES ASSUME TypeOK, Core, [Next]_vars PROVE Core'
    OBVIOUS
<1>1. CASE ServerUnlink
    BY <1>1, QuietStep DEF ServerUnlink, Working, Sending
<1>2. CASE ServerCrash \/ SignalFlag
    BY <1>2, QuietStep DEF ServerCrash, SignalFlag, Working, Sending
<1>3. CASE SignalInterrupt
  <2>1. UNCHANGED <<fifo, cur, idx, served, clientVars>>
    BY <1>3 DEF SignalInterrupt
  <2>2. srv' \notin Working \/ (srv = "hits" /\ srv' = "resend")
    BY <1>3 DEF SignalInterrupt, Working, Sending
  <2> QED BY <2>1, <2>2, QuietStep
<1>4. CASE UNCHANGED vars
    BY <1>4, QuietStep DEF vars, clientVars
<1> QED BY <1>1, <1>2, <1>3, <1>4, ServerCoreStep, ClientCoreStep DEF Next

\* Whatever is in a client's pipe answers its current request, in order and up
\* to the end of the answer: a response never reaches another request, although
\* one pipe serves them all (send_resp_to_client, read_resp_from_server).
THEOREM AnswersInOrder == Spec => []AnswerInOrder
<1>1. Init => TypeOK /\ Core
    BY TypeInit, CoreInit
<1>2. TypeOK /\ Core /\ [Next]_vars => (TypeOK /\ Core)'
    BY TypeStep, CoreStep
<1>3. TypeOK /\ Core => AnswerInOrder
  <2> SUFFICES ASSUME TypeOK, Core, NEW c \in Clients, NEW k \in DOMAIN pipe[c]
               PROVE  /\ cpc[c] \in Waiting /\ pipe[c][k].n = req[c]
                      /\ pipe[c][k].i = got[c] + k
                      /\ pipe[c][k].last => k = Len(pipe[c])
    BY DEF AnswerInOrder
  <2>1. DOMAIN pipe[c] = 1..Len(pipe[c]) /\ Len(pipe[c]) \in Nat
    BY LenProperties DEF TypeOK
  <2>2. pipe[c] # <<>>
    BY <2>1, EmptyFifo
  <2> QED BY <2>1, <2>2, Zenon DEF Core, ClientInv, ClientOk
<1> QED BY <1>1, <1>2, <1>3, PTL DEF Spec

-----------------------------------------------------------------------------
(***************************************************************************)
(* No request is lost or duplicated, and the transport implements the      *)
(* service of CdService, for any clients, values of the bounds and faults. *)
(* PlaceInv says a request is somewhere; Core says it is nowhere else.     *)
(***************************************************************************)

Open == Reading \cup {"closed"}       \* where the server keeps the requests

-----------------------------------------------------------------------------
(* A client whose request stays where it is *)

LEMMA FifoDomain == ASSUME TypeOK PROVE DOMAIN fifo = 1..Len(fifo) /\ Len(fifo) \in Nat
BY LenProperties DEF TypeOK

LEMMA PlaceStays ==
    ASSUME NEW d \in Clients, PlaceOk(d), cpc'[d] \in Waiting => cpc[d] \in Waiting,
           UNCHANGED <<link[d], pipe[d]>>,
           (d \in Writers' /\ Queued(d)) => Queued(d)', InWork(d) => InWork(d)',
           run' => run, srv' \in Open => srv \in Open
    PROVE  PlaceOk(d)'
<1>1. d \in Writers' /\ cpc'[d] \in Waiting => d \in Writers
    BY DEF Writers, Waiting, Attached
<1>2. Answered(d) => Answered(d)'
    BY DEF Answered
<1> QED BY <1>1, <1>2 DEF PlaceOk, Open

LEMMA QuietPlaceStep ==
    ASSUME TypeOK, PlaceInv, UNCHANGED <<fifo, cur, clientVars>>,
           run' => run, srv' \in Open => srv \in Open,
           srv \in Working /\ srv' \in Open => srv' \in Working \/ ~run',
           srv' \in {"open", "reopen"} => srv' = srv,
           srv' = "resend" => ~run'
    PROVE  PlaceInv'
<1>1. \A d \in Clients : PlaceOk(d)'
    BY DEF PlaceInv, PlaceOk, Queued, InWork, Answered, clientVars, Writers, Open
<1>2. srv' \in {"open", "reopen"} => Writers' \cup Blocked' = {}
    BY DEF PlaceInv, clientVars, Writers, Blocked
<1> QED BY <1>1, <1>2 DEF PlaceInv

-----------------------------------------------------------------------------
(* The steps that move a request, or the pipes it may be in *)

LEMMA MkfifoPlace == ASSUME TypeOK, PlaceInv, ServerMkfifo PROVE PlaceInv'
<1>1. \A d \in Clients : link'[d] # "cur"
    BY DEF ServerMkfifo, TypeOK
<1>2. Writers' \cup Blocked' = {}
    BY <1>1 DEF Writers, Blocked
<1> QED BY <1>2 DEF PlaceInv, PlaceOk, ServerMkfifo

LEMMA ReadPlace == ASSUME TypeOK, PlaceInv, ServerRead PROVE PlaceInv'
<1>1. /\ fifo # <<>> /\ cur' = fifo[1] /\ fifo \in Seq(Request) /\ Len(fifo) \in Nat
      /\ Len(fifo') = Len(fifo) - 1
      /\ \A k \in 1..Len(fifo') : fifo'[k] = fifo[k + 1]
      /\ DOMAIN fifo = 1..Len(fifo) /\ DOMAIN fifo' = 1..Len(fifo')
    BY TailFacts, LenProperties DEF ServerRead, TypeOK
<1>2. ASSUME NEW d \in Clients, Queued(d) PROVE Queued(d)' \/ InWork(d)'
  <2>1. PICK k \in 1..Len(fifo) : fifo[k].c = d
    BY <1>1, <1>2 DEF Queued
  <2>2. CASE k = 1
    BY <1>1, <2>1, <2>2 DEF InWork, ServerRead, Working
  <2>3. CASE k # 1
    <3>1. k - 1 \in 1..Len(fifo') /\ fifo'[k - 1] = fifo[k]
        BY <1>1, <2>1, <2>3
    <3> QED BY <1>1, <2>1, <3>1 DEF Queued
  <2> QED BY <2>2, <2>3
<1>3. \A d \in Clients : PlaceOk(d)'
    BY <1>2 DEF ServerRead, clientVars, PlaceInv, PlaceOk, InWork, Answered, Writers,
       Reading, Working, Sending
<1> QED BY <1>3 DEF PlaceInv, ServerRead

LEMMA ClosePlace == ASSUME TypeOK, PlaceInv, ServerClose PROVE PlaceInv'
<1>1. \A d \in Clients : PlaceOk(d)'
    BY PlaceStays DEF PlaceInv, ServerClose, clientVars, Writers, Queued, InWork, Open, Working,
       Sending, Reading
<1> QED BY <1>1 DEF PlaceInv, ServerClose

LEMMA ReopenPlace == ASSUME TypeOK, PlaceInv, ServerReopen PROVE PlaceInv'
<1>1. \A d \in Clients : cpc'[d] = cpc[d] \/ cpc'[d] = "mk"
    BY DEF ServerReopen, TypeOK
<1>2. \A d \in Clients : PlaceOk(d)'
    BY <1>1, PlaceStays DEF PlaceInv, ServerReopen, Queued, InWork, Open, Working, Sending,
       Waiting
<1>3. srv' \in {"open", "reopen"} => Writers' \cup Blocked' = {}
    BY DEF ServerReopen, Writers, Blocked
<1> QED BY <1>2, <1>3 DEF PlaceInv, ServerReopen

LEMMA OpenRespPlace == ASSUME TypeOK, PlaceInv, ServerOpenResp PROVE PlaceInv'
<1>1. \A d \in Clients : cpc'[d] = cpc[d] \/ (cpc[d] = "ropen" /\ cpc'[d] = "reading")
    BY DEF ServerOpenResp, TypeOK
<1>2. srv = "cmd" /\ srv' \in {"exec", "respOpen"} /\ UNCHANGED <<fifo, cur, run, link, pipe>>
    BY DEF ServerOpenResp
<1>3. \A d \in Clients : PlaceOk(d)'
    BY <1>1, <1>2, PlaceStays DEF PlaceInv, Queued, InWork, Open, Reading, Working, Sending,
       Waiting
<1> QED BY <1>2, <1>3 DEF PlaceInv

LEMMA ExecPlace == ASSUME TypeOK, PlaceInv, ServerExec PROVE PlaceInv'
<1>1. /\ srv = "exec" /\ srv' \in {"hits", "last"}
      /\ UNCHANGED <<fifo, cur, run, link, pipe, cpc>>
    BY DEF ServerExec, clientVars
<1>2. \A d \in Clients : PlaceOk(d)'
    BY <1>1, PlaceStays DEF PlaceInv, Queued, InWork, Open, Reading, Working, Sending
<1> QED BY <1>1, <1>2 DEF PlaceInv

LEMMA SendPlace ==
    ASSUME TypeOK, PlaceInv, NEW last \in BOOLEAN, Send(last),
           \/ srv = "hits" /\ srv' = "hits"
           \/ srv = "last" /\ srv' = "loop" /\ last
           \/ srv = "resend" /\ srv' = "loop"
    PROVE  PlaceInv'
<1> DEFINE c == cur.c
           e == [n |-> cur.n, i |-> idx, last |-> last]
<1>1. c \in Clients /\ e \in Response /\ pipe[c] \in Seq(Response) /\ e.last = last
    BY DEF TypeOK, Request, Response
<1>2. UNCHANGED <<fifo, cur, run, link, cpc>> /\ pipe' = [pipe EXCEPT ![c] = Append(pipe[c], e)]
    BY DEF Send
<1>3. pipe'[c] # <<>> /\ Len(pipe'[c]) = Len(pipe[c]) + 1 /\ pipe'[c][Len(pipe[c]) + 1] = e
  <2>1. pipe'[c] = Append(pipe[c], e)
    BY <1>1, <1>2 DEF TypeOK
  <2> QED BY <1>1, <2>1, AppendFacts
<1>4. PlaceOk(c)'
  <2>1. CASE srv = "hits"
    BY <1>2, <2>1 DEF PlaceOk, InWork, Working, Sending
  <2>2. CASE srv = "last"
    BY <1>1, <1>2, <1>3, <2>2 DEF PlaceOk, Answered
  <2>3. CASE srv = "resend"
    BY <1>2, <2>3 DEF PlaceInv, PlaceOk
  <2> QED BY <2>1, <2>2, <2>3
<1>5. \A d \in Clients : d # c => PlaceOk(d)'
    BY <1>1, <1>2, PlaceStays DEF PlaceInv, Queued, InWork, Open, Reading, TypeOK
<1>6. \A d \in Clients : PlaceOk(d)'
    BY <1>2, <1>4, <1>5
<1> QED BY <1>6 DEF PlaceInv

-----------------------------------------------------------------------------
(* The clients *)

LEMMA ClientSendPlace == ASSUME TypeOK, PlaceInv, NEW c \in Clients, ClientSend(c) PROVE PlaceInv'
<1>1. PICK r \in Request : r.c = c /\ fifo' = Append(fifo, r)
  <2>1. PICK isFind \in BOOLEAN : fifo' = Append(fifo, [c |-> c, n |-> req[c] + 1, find |-> isFind])
    BY DEF ClientSend
  <2>2. [c |-> c, n |-> req[c] + 1, find |-> isFind] \in Request
    BY DEF TypeOK, Request
  <2> QED BY <2>1, <2>2
<1>2. /\ DOMAIN fifo = 1..Len(fifo) /\ DOMAIN fifo' = 1..Len(fifo) + 1 /\ Len(fifo) \in Nat
      /\ \A k \in 1..Len(fifo) : fifo'[k] = fifo[k]
      /\ fifo'[Len(fifo) + 1] = r
  <2>1. fifo \in Seq(Request) /\ fifo' \in Seq(Request)
    BY <1>1, AppendFacts DEF TypeOK
  <2>2. Len(fifo') = Len(fifo) + 1
    BY <1>1, <2>1, AppendFacts
  <2> QED BY <1>1, <2>1, <2>2, AppendFacts, LenProperties
<1>3. Queued(c)' /\ \A d \in Clients : Queued(d) => Queued(d)'
    BY <1>1, <1>2 DEF Queued
<1>4. \A d \in Clients : d # c => cpc'[d] = cpc[d]
    BY DEF ClientSend, TypeOK
<1>5. UNCHANGED <<srv, cur, run, link, pipe>> /\ srv \in Reading
    BY DEF ClientSend
<1>6. \A d \in Clients : PlaceOk(d)'
    BY <1>3, <1>4, <1>5, PlaceStays DEF PlaceInv, PlaceOk, InWork
<1> QED BY <1>5, <1>6 DEF PlaceInv, Reading

LEMMA ClientOpenRespPlace ==
    ASSUME TypeOK, PlaceInv, NEW c \in Clients, ClientOpenResp(c) PROVE PlaceInv'
<1>1. UNCHANGED <<fifo, cur, run, link, pipe>> /\ cpc[c] = "sent" /\ cpc'[c] \in {"reading", "ropen"}
    BY DEF ClientOpenResp, TypeOK
<1>2. srv' = srv \/ (srv = "respOpen" /\ srv' = "exec")
    BY DEF ClientOpenResp
<1>3. \A d \in Clients : d # c => cpc'[d] = cpc[d]
    BY DEF ClientOpenResp, TypeOK
<1>4. \A d \in Clients : PlaceOk(d)'
    BY <1>1, <1>2, <1>3, PlaceStays DEF PlaceInv, Queued, InWork, Open, Reading, Working,
       Sending, Waiting
<1>5. srv' \in {"open", "reopen"} => Writers' \cup Blocked' = {}
    BY <1>1, <1>2, <1>3 DEF PlaceInv, Writers, Blocked, Attached
<1> QED BY <1>1, <1>2, <1>4, <1>5 DEF PlaceInv

LEMMA ClientReadPlace == ASSUME TypeOK, PlaceInv, NEW c \in Clients, ClientRead(c) PROVE PlaceInv'
<1>1. /\ UNCHANGED <<srv, fifo, cur, run, link>> /\ cpc[c] = "reading" /\ pipe[c] # <<>>
      /\ pipe'[c] = Tail(pipe[c])
      /\ cpc'[c] = IF find[c] /\ ~Head(pipe[c]).last THEN "reading" ELSE "ready"
      /\ \A d \in Clients : d # c => cpc'[d] = cpc[d] /\ pipe'[d] = pipe[d]
    BY DEF ClientRead, serverVars, TypeOK
<1>2. cpc'[c] \in Waiting /\ Answered(c) => Answered(c)'
  <2>1. /\ Len(pipe[c]) \in Nat /\ Len(pipe[c]) >= 1 /\ Len(pipe'[c]) = Len(pipe[c]) - 1
        /\ Head(pipe[c]) = pipe[c][1]
        /\ \A k \in 1..Len(pipe'[c]) : pipe'[c][k] = pipe[c][k + 1]
    BY <1>1, TailFacts DEF TypeOK
  <2>2. SUFFICES ASSUME cpc'[c] \in Waiting, pipe[c][Len(pipe[c])].last PROVE Answered(c)'
    BY DEF Answered
  <2>3. ~pipe[c][1].last
    BY <1>1, <2>1, <2>2 DEF Waiting
  <2>4. Len(pipe[c]) # 1
    BY <2>2, <2>3
  <2>5. Len(pipe'[c]) >= 1 /\ pipe'[c][Len(pipe'[c])] = pipe[c][Len(pipe[c])]
    <3> DEFINE n == Len(pipe[c])
               m == Len(pipe'[c])
    <3>1. n \in Nat /\ n >= 1 /\ m = n - 1 /\ n # 1
        BY <2>1, <2>4
    <3> HIDE DEF n, m
    <3>2. m \in 1..m /\ m + 1 = n
        BY <3>1
    <3> USE DEF n, m
    <3> QED BY <2>1, <3>2
  <2> QED BY <2>2, <2>5, EmptyFifo DEF Answered
<1>3. PlaceOk(c)'
    BY <1>1, <1>2 DEF PlaceInv, PlaceOk, Queued, InWork, Writers, Waiting, Attached
<1>4. \A d \in Clients : d # c => PlaceOk(d)'
    BY <1>1, PlaceStays DEF PlaceInv, Queued, InWork
<1>5. srv' \in {"open", "reopen"} => Writers' \cup Blocked' = {}
    BY <1>1 DEF PlaceInv, Writers, Blocked, Attached
<1> QED BY <1>1, <1>3, <1>4, <1>5 DEF PlaceInv

\* A client that comes in, moves on or leaves without a request under way
LEMMA ClientMovePlace ==
    ASSUME TypeOK, PlaceInv, NEW c \in Clients, cpc'[c] \notin Waiting,
           \A d \in Clients : d # c => cpc'[d] = cpc[d] /\ link'[d] = link[d] /\ pipe'[d] = pipe[d],
           UNCHANGED <<run, cur>>,
           \/ fifo' = fifo
           \/ fifo' = FifoWithout(c),
           \/ srv' = srv /\ (c \in Writers' \cup Blocked' => c \in Writers \cup Blocked)
           \/ srv' = srv /\ srv \notin {"open", "reopen"}
           \/ srv \in {"open", "reopen"} /\ srv' \in {"loop", "read2"}
    PROVE  PlaceInv'
<1>1. \A d \in Clients : d # c => (d \in Writers <=> d \in Writers') /\ (d \in Blocked <=> d \in Blocked')
    BY DEF Writers, Blocked
<1>2. PlaceOk(c)'
    BY DEF PlaceOk
<1>3. ASSUME NEW d \in Clients, d # c PROVE PlaceOk(d)'
  <2>1. d \in Writers' => fifo' = fifo
    BY <1>1, <1>3 DEF FifoWithout
  <2>2. CASE srv' = srv
    BY <1>3, <2>1, <2>2, PlaceStays DEF PlaceInv, Queued, InWork
  <2>3. CASE srv \in {"open", "reopen"}
    BY <1>1, <1>3, <2>3 DEF PlaceInv, PlaceOk
  <2> QED BY <2>2, <2>3
<1>4. srv' \in {"open", "reopen"} => Writers' \cup Blocked' = {}
  <2>1. Writers' \subseteq Clients /\ Blocked' \subseteq Clients
    BY DEF Writers, Blocked
  <2> QED BY <1>1, <2>1 DEF PlaceInv
<1> QED BY <1>2, <1>3, <1>4 DEF PlaceInv

-----------------------------------------------------------------------------
(* The whole invariant *)

LEMMA PlaceInit == Init => PlaceInv
<1> SUFFICES ASSUME Init PROVE PlaceInv
    OBVIOUS
<1>1. \A c \in Clients : cpc[c] \notin Waiting
    BY DEF Init, Waiting
<1> QED BY <1>1 DEF Init, PlaceInv, PlaceOk

LEMMA ServerPlaceStep == ASSUME TypeOK, PlaceInv, ServerRuns PROVE PlaceInv'
<1>1. CASE ServerLoop \/ ServerEof \/ ServerGiveUp \/ ServerNoMore
    BY <1>1, QuietPlaceStep
    DEF ServerLoop, ServerEof, ServerGiveUp, ServerNoMore, Open, Reading, Working, Sending
<1>2. CASE ServerSigpipe \/ ServerEnding \/ ServerEnd
    BY <1>2, QuietPlaceStep
    DEF ServerSigpipe, ServerEnding, ServerEnd, Open, Reading, Working, Sending
<1>3. CASE ServerSendHit
    BY <1>3, SendPlace, Zenon DEF ServerSendHit
<1>4. CASE ServerSendLast
    BY <1>4, SendPlace, Zenon DEF ServerSendLast
<1>5. CASE ServerResend
    BY <1>5, SendPlace, Zenon DEF ServerResend
<1> QED
    BY <1>1, <1>2, <1>3, <1>4, <1>5, MkfifoPlace, ReadPlace, ClosePlace, ReopenPlace,
       OpenRespPlace, ExecPlace, Zenon DEF ServerRuns

LEMMA ClientPlaceStep ==
    ASSUME TypeOK, PlaceInv, NEW c \in Clients, ClientStep(c) PROVE PlaceInv'
<1>1. CASE ClientNoServer(c) \/ ClientMkfifo(c)
    BY <1>1, ClientMovePlace
    DEF ClientNoServer, ClientMkfifo, serverVars, TypeOK, Writers, Blocked, Attached, Waiting
<1>2. CASE ClientOpen(c)
  <2>1. cpc'[c] \in {"mk", "copen"} /\ (cpc'[c] = "copen" => srv \notin {"open", "reopen"})
    BY <1>2 DEF ClientOpen, TypeOK
  <2>2. \/ srv' = srv /\ srv \notin {"open", "reopen"}
        \/ srv \in {"open", "reopen"} /\ srv' \in {"loop", "read2"}
    BY <1>2 DEF ClientOpen
  <2> QED BY <1>2, <2>1, <2>2, ClientMovePlace DEF ClientOpen, TypeOK, Waiting
<1>3. ASSUME NEW how \in {"gone", "killed"}, ClientLeaves(c, how) PROVE PlaceInv'
    BY <1>3, ClientMovePlace DEF ClientLeaves, TypeOK, Writers, Blocked, Attached, Waiting
<1>4. CASE ClientSigpipe(c)
  <2>1. ClientLeaves(c, "killed")
    BY <1>4 DEF ClientSigpipe, ClientLeaves
  <2> QED BY <1>3, <2>1
<1>5. CASE ClientEnding(c) \/ ClientCrash(c)
    BY <1>3, <1>5 DEF ClientEnding, ClientCrash
<1> QED
    BY <1>1, <1>2, <1>4, <1>5, ClientSendPlace, ClientOpenRespPlace, ClientReadPlace, Zenon
    DEF ClientStep, ClientCall

LEMMA PlaceStep == TypeOK /\ PlaceInv /\ [Next]_vars => PlaceInv'
<1> SUFFICES ASSUME TypeOK, PlaceInv, [Next]_vars PROVE PlaceInv'
    OBVIOUS
<1>1. CASE ServerUnlink
    BY <1>1 DEF ServerUnlink, PlaceInv, PlaceOk, Reading
<1>2. CASE ServerCrash \/ SignalFlag
    BY <1>2, QuietPlaceStep DEF ServerCrash, SignalFlag, PlaceInv, Open, Reading, Working, Sending
<1>3. CASE SignalInterrupt
  <2>1. UNCHANGED <<fifo, cur, clientVars>> /\ ~run' /\ srv' \notin {"open", "reopen"}
    BY <1>3 DEF SignalInterrupt
  <2>2. srv' \in Open => srv \in Open
    BY <1>3 DEF SignalInterrupt, Open, Reading
  <2> QED BY <2>1, <2>2, QuietPlaceStep
<1>4. CASE UNCHANGED vars
    BY <1>4, QuietPlaceStep DEF vars, clientVars, PlaceInv
<1> QED BY <1>1, <1>2, <1>3, <1>4, ServerPlaceStep, ClientPlaceStep DEF Next

\* The inductive invariant itself, which the run "faults" checks too.
THEOREM InductiveInvariant == Spec => []IInv
<1>1. Init => TypeOK /\ Core /\ PlaceInv
    BY TypeInit, CoreInit, PlaceInit
<1>2. TypeOK /\ Core /\ PlaceInv /\ [Next]_vars => (TypeOK /\ Core /\ PlaceInv)'
    BY TypeStep, CoreStep, PlaceStep
<1>3. TypeOK /\ Core /\ PlaceInv <=> IInv
    BY DEF IInv, Core
<1> QED BY <1>1, <1>2, <1>3, PTL DEF Spec

\* No request is lost or duplicated: while the server runs unsignalled, the
\* request of a client inside a call is in the server pipe, in the server's
\* hands or answered, and in only one of these.
THEOREM RequestsAccounted == Spec => []RequestAccounted
<1>1. IInv => RequestAccounted
  <2> SUFFICES ASSUME IInv, NEW c \in Clients, cpc[c] \in Waiting, link[c] = "cur", run,
                      srv \in Reading \cup {"closed"}
               PROVE  \/ Queued(c) /\ ~InWork(c) /\ ~Answered(c)
                      \/ ~Queued(c) /\ InWork(c) /\ ~Answered(c)
                      \/ ~Queued(c) /\ ~InWork(c) /\ Answered(c)
    BY DEF RequestAccounted
  <2>1. Queued(c) \/ InWork(c) \/ Answered(c)
    BY DEF IInv, PlaceInv, PlaceOk, Writers, Waiting, Attached
  <2>2. Queued(c) => ~InWork(c) /\ ~Answered(c)
    BY FifoDomain DEF IInv, FifoInv, Pending, Queued, InWork, Answered
  <2>3. InWork(c) => ~Answered(c)
    <3> SUFFICES ASSUME InWork(c), pipe[c] # <<>>, pipe[c][Len(pipe[c])].last PROVE FALSE
        BY DEF Answered
    <3>1. srv \in {"hits", "last", "resend"}
        BY DEF IInv, WorkInv, Pending, InWork, Working, Sending
    <3>2. \A k \in 1..Len(pipe[c]) : ~pipe[c][k].last
        BY <3>1 DEF IInv, WorkInv, InWork
    <3>3. Len(pipe[c]) \in 1..Len(pipe[c])
        BY LenProperties, EmptySeq DEF IInv, TypeOK
    <3> QED BY <3>2, <3>3
  <2> QED BY <2>1, <2>2, <2>3
<1> QED BY <1>1, InductiveInvariant, PTL

-----------------------------------------------------------------------------
(***************************************************************************)
(* What stops the server.  Whoever opens the pipe while the server closes  *)
(* and reopens it has not asked yet, or its request is in the pipe: it     *)
(* cannot leave with its request answered.  So the second read finds a     *)
(* client or a request there, or somebody was killed or left without       *)
(* asking.                                                                 *)
(***************************************************************************)

Between == {"eof", "closed", "read2"}   \* no request seen, the pipe being reopened

\* a client of this pipe that went without an answer to a request of its own
Deserter(c) == link[c] = "cur" /\ (cpc[c] = "killed" \/ (cpc[c] = "gone" /\ req[c] = 0))
Deserted == \E c \in Clients : Deserter(c)

AskLater == \A c \in Clients : cpc[c] \in {"off", "copen", "mk"} => req[c] = 0

Stays ==
    /\ AskLater
    /\ srv \in Between => \A c \in Writers : req[c] = 0 \/ Queued(c)
    /\ srv = "read2" => Writers # {} \/ fifo # <<>> \/ Deserted

\* a step that leaves the clients, and does not enter the second read
LEMMA QuietStays ==
    ASSUME Stays, UNCHANGED <<cpc, link, req>>,
           srv' \in Between => Writers = {} \/ (srv \in Between /\ fifo' = fifo),
           srv' = "read2" => srv = "read2" /\ fifo' = fifo
    PROVE  Stays'
<1>1. AskLater'
    BY DEF Stays, AskLater
<1>2. Writers' = Writers /\ (Deserted' <=> Deserted)
    BY DEF Writers, Deserted, Deserter
<1>3. fifo' = fifo => \A c : Queued(c)' <=> Queued(c)
    BY DEF Queued
<1> QED BY <1>1, <1>2, <1>3 DEF Stays, Between

LEMMA ServerStays ==
    ASSUME TypeOK, Stays, ServerUnlink \/ ServerRuns \/ ServerCrash \/ SignalFlag \/ SignalInterrupt
    PROVE  Stays'
<1> USE DEF Between
<1>1. CASE ServerUnlink \/ ServerLoop \/ ServerRead \/ ServerEof \/ ServerClose
    BY <1>1, QuietStays DEF ServerUnlink, ServerLoop, ServerRead, ServerEof, ServerClose, clientVars
<1>2. CASE ServerMkfifo
  <2>1. srv' = "open" /\ UNCHANGED <<cpc, req>>
      BY <1>2 DEF ServerMkfifo
  <2> QED BY <2>1 DEF Stays, AskLater
<1>3. CASE ServerReopen
  <2>1. srv = "closed" /\ UNCHANGED <<fifo, link, req>>
      BY <1>3 DEF ServerReopen
  <2>2. CASE Writers \cup Blocked = {}
    <3>1. srv' = "reopen" /\ cpc' = cpc
        BY <1>3, <2>2 DEF ServerReopen
    <3> QED BY <2>1, <3>1, QuietStays
  <2>3. CASE Writers \cup Blocked # {}
    <3>1. srv' = "read2" /\ cpc' = [c \in Clients |-> IF c \in Blocked THEN "mk" ELSE cpc[c]]
        BY <1>3, <2>3 DEF ServerReopen
    <3>2. \A c \in Clients : \/ c \in Blocked /\ cpc[c] = "copen" /\ cpc'[c] = "mk"
                             \/ c \notin Blocked /\ cpc'[c] = cpc[c]
        BY <3>1 DEF Blocked
    <3>3. AskLater'
        BY <2>1, <3>2 DEF Stays, AskLater
    <3>4. Writers' = Writers \cup Blocked
        BY <2>1, <3>2 DEF Writers, Blocked, Attached
    <3>5. \A c \in Blocked : req[c] = 0
        BY DEF Blocked, Stays, AskLater
    <3>6. \A c \in Writers' : req'[c] = 0 \/ Queued(c)'
        BY <2>1, <3>4, <3>5 DEF Stays, Queued
    <3> QED BY <2>1, <2>3, <3>1, <3>3, <3>4, <3>6 DEF Stays
  <2> QED BY <2>2, <2>3
<1>4. CASE ServerGiveUp \/ ServerExec \/ ServerNoMore \/ ServerSigpipe \/ ServerEnding \/ ServerEnd \/ ServerCrash
    BY <1>4, QuietStays DEF ServerGiveUp, ServerExec, ServerNoMore, ServerSigpipe, ServerEnding, ServerEnd,
           ServerCrash, clientVars
<1>5. CASE ServerOpenResp
  <2>1. srv' \in {"exec", "respOpen"} /\ req' = req
      BY <1>5 DEF ServerOpenResp
  <2>2. \A c \in Clients : cpc'[c] = cpc[c] \/ cpc'[c] = "reading"
      BY <1>5 DEF ServerOpenResp, TypeOK
  <2> QED BY <2>1, <2>2 DEF Stays, AskLater
<1>6. CASE ServerSendHit \/ ServerSendLast \/ ServerResend
    BY <1>6, QuietStays DEF ServerSendHit, ServerSendLast, ServerResend, Send
<1>7. CASE SignalFlag \/ SignalInterrupt
    BY <1>7, QuietStays DEF SignalFlag, SignalInterrupt, clientVars
<1> QED BY <1>1, <1>2, <1>3, <1>4, <1>5, <1>6, <1>7 DEF ServerRuns

\* a writer that leaves while the server is there has not asked, or was killed
LEMMA ClientStays ==
    ASSUME TypeOK, Core, PlaceInv, Stays, NEW c \in Clients, ClientStep(c)
    PROVE  Stays'
<1> USE DEF Between
<1>1. \A d \in Clients : d # c => cpc'[d] = cpc[d] /\ req'[d] = req[d] /\ link'[d] = link[d]
    BY DEF ClientStep, ClientCall, ClientNoServer, ClientOpen, ClientMkfifo, ClientSend, ClientSigpipe,
           ClientOpenResp, ClientRead, ClientEnding, ClientCrash, ClientLeaves, serverVars, TypeOK
<1>2. /\ \A d \in Clients : d # c => (d \in Writers' <=> d \in Writers)
      /\ \A d \in Clients : d # c => (Deserter(d)' <=> Deserter(d))
    BY <1>1 DEF Writers, Deserter
\* the server is where it was, unless the client's open ends that of the server
<1>3. \/ srv' = srv
      \/ srv = "reopen" /\ srv' = "read2" /\ ClientOpen(c)
      \/ srv' \in {"loop", "exec"}
    BY DEF ClientStep, ClientCall, ClientNoServer, ClientOpen, ClientMkfifo, ClientSend, ClientSigpipe,
           ClientOpenResp, ClientRead, ClientEnding, ClientCrash, ClientLeaves, serverVars
<1>4. AskLater'
  <2>1. cpc'[c] \in {"copen", "mk", "off"} => cpc[c] \in {"off", "copen", "mk"} /\ req'[c] = req[c]
    <3>1. CASE ClientNoServer(c) \/ ClientOpen(c) \/ ClientMkfifo(c) \/ ClientRead(c) \/ ClientOpenResp(c)
        BY <3>1 DEF ClientNoServer, ClientOpen, ClientMkfifo, ClientRead, ClientOpenResp, serverVars, TypeOK
    <3>2. CASE ClientSend(c) \/ ClientSigpipe(c) \/ ClientEnding(c) \/ ClientCrash(c)
        BY <3>2 DEF ClientSend, ClientSigpipe, ClientEnding, ClientCrash, ClientLeaves, TypeOK
    <3> QED BY <3>1, <3>2 DEF ClientStep, ClientCall
  <2> QED BY <1>1, <2>1 DEF Stays, AskLater
<1> SUFFICES ASSUME srv' \in Between
             PROVE  /\ \A d \in Writers' : req'[d] = 0 \/ Queued(d)'
                    /\ srv' = "read2" => Writers' # {} \/ fifo' # <<>> \/ Deserted'
    BY <1>4 DEF Stays
<1>5. CASE srv = "reopen" /\ ClientOpen(c)
  <2>1. cpc[c] = "off" /\ cpc'[c] = "mk" /\ link'[c] = "cur" /\ req' = req /\ fifo' = fifo
      BY <1>5 DEF ClientOpen, TypeOK
  <2>2. c \in Writers' /\ req'[c] = 0
      BY <2>1 DEF Writers, Attached, Stays, AskLater
  <2>3. Writers = {}
      BY <1>5 DEF PlaceInv
  <2>4. \A d \in Writers' : d = c
      BY <1>2, <2>3 DEF Writers
  <2> QED BY <2>2, <2>4
<1>6. CASE srv' = srv
  <2>1. /\ \A d \in Writers : req[d] = 0 \/ Queued(d)
        /\ srv = "read2" => Writers # {} \/ fifo # <<>> \/ Deserted
      BY <1>6 DEF Stays
  \* c neither asks nor leaves
  <2>2. ASSUME fifo' = fifo, req' = req, Deserter(c) => Deserter(c)', Writers \subseteq Writers',
               \A d \in Writers' : d \in Writers \/ req[d] = 0
        PROVE  /\ \A d \in Writers' : req'[d] = 0 \/ Queued(d)'
               /\ srv' = "read2" => Writers' # {} \/ fifo' # <<>> \/ Deserted'
    <3>1. Deserted => Deserted'
        BY <1>2, <2>2 DEF Deserted
    <3> QED BY <1>6, <2>1, <2>2, <3>1 DEF Queued
  <2>3. CASE ClientNoServer(c) \/ ClientMkfifo(c) \/ ClientRead(c) \/ ClientOpenResp(c)
    <3>1. /\ fifo' = fifo /\ req' = req /\ link' = link /\ cpc[c] \notin {"killed", "gone"}
          /\ cpc'[c] \in Attached <=> cpc[c] \in Attached
        BY <2>3 DEF ClientNoServer, ClientMkfifo, ClientRead, ClientOpenResp, serverVars, TypeOK, Attached
    <3>2. Writers' = Writers /\ ~Deserter(c)
        BY <1>1, <3>1 DEF Writers, Deserter
    <3> QED BY <2>2, <3>1, <3>2
  <2>4. CASE ClientOpen(c)
    <3>1. fifo' = fifo /\ req' = req /\ cpc[c] = "off" /\ req[c] = 0
        BY <2>4 DEF ClientOpen, Stays, AskLater
    <3>2. c \notin Writers /\ ~Deserter(c)
        BY <3>1 DEF Writers, Attached, Deserter
    <3>3. Writers \subseteq Writers' /\ \A d \in Writers' : d \in Writers \/ req[d] = 0
        BY <1>2, <3>1, <3>2 DEF Writers
    <3> QED BY <2>2, <3>1, <3>2, <3>3
  <2>5. CASE ClientSend(c)
    <3>1. PICK m \in Request : fifo' = Append(fifo, m) /\ m.c = c
      <4>1. PICK isFind \in BOOLEAN : fifo' = Append(fifo, [c |-> c, n |-> req[c] + 1, find |-> isFind])
          BY <2>5 DEF ClientSend
      <4>2. [c |-> c, n |-> req[c] + 1, find |-> isFind] \in Request
          BY DEF Request, TypeOK
      <4> QED BY <4>1, <4>2
    <3>2. /\ fifo' # <<>> /\ Len(fifo') = Len(fifo) + 1 /\ Len(fifo) \in Nat
          /\ \A k \in 1..Len(fifo) : fifo'[k] = fifo[k]
          /\ fifo'[Len(fifo) + 1] = m /\ DOMAIN fifo' = 1..Len(fifo')
      <4>1. fifo \in Seq(Request)
          BY DEF TypeOK
      <4>2. fifo' \in Seq(Request)
          BY <3>1, <4>1, AppendFacts
      <4> QED BY <3>1, <4>1, <4>2, AppendFacts, LenProperties
    <3>3. \A d \in Clients : Queued(d) => Queued(d)'
        BY <3>2, FifoDomain DEF Queued
    <3>4. Queued(c)'
        BY <3>1, <3>2 DEF Queued
    <3>5. \A d \in Writers' : d # c => d \in Writers /\ req'[d] = req[d]
        BY <1>1 DEF Writers
    <3>6. \A d \in Writers' : req'[d] = 0 \/ Queued(d)'
        BY <2>1, <3>3, <3>4, <3>5 DEF Writers
    <3> QED BY <3>2, <3>6
  <2>6. CASE ClientSigpipe(c) \/ ClientEnding(c) \/ ClientCrash(c)
    <3>1. /\ req' = req /\ link' = link /\ cpc'[c] \notin Attached /\ cpc[c] \notin {"gone", "killed"}
          /\ fifo' = FifoWithout(c)
        BY <2>6 DEF ClientSigpipe, ClientEnding, ClientCrash, ClientLeaves, TypeOK, Attached
    <3>2. Writers' = Writers \ {c}
        BY <1>2, <3>1 DEF Writers
    <3>3. fifo' = fifo \/ (srv \notin Reading /\ Writers \subseteq {c})
        BY <3>1 DEF FifoWithout
    <3>4. \A d \in Writers' : req'[d] = 0 \/ Queued(d)'
      <4>1. CASE fifo' = fifo
          BY <2>1, <3>1, <3>2, <4>1 DEF Queued
      <4>2. CASE Writers \subseteq {c}
          BY <3>2, <4>2
      <4> QED BY <3>3, <4>1, <4>2
    <3>5. srv = "read2" /\ c \in Writers => Deserter(c)'
      <4> SUFFICES ASSUME srv = "read2", c \in Writers PROVE Deserter(c)'
          OBVIOUS
      <4>1. link'[c] = "cur"
          BY <3>1 DEF Writers
      <4>2. CASE ClientSigpipe(c) \/ ClientCrash(c)
          BY <4>1, <4>2 DEF ClientSigpipe, ClientCrash, ClientLeaves, TypeOK, Deserter
      <4>3. CASE ClientEnding(c)
        <5>1. cpc[c] = "ready" /\ cpc'[c] = "gone"
            BY <4>3 DEF ClientEnding, ClientLeaves, TypeOK
        <5>2. ~Queued(c)
            BY <5>1, FifoDomain DEF Queued, Core, FifoInv, Pending, Expects, Waiting
        <5> QED BY <2>1, <3>1, <4>1, <5>1, <5>2 DEF Deserter
      <4> QED BY <2>6, <4>2, <4>3
    <3>6. srv' = "read2" => Writers' # {} \/ fifo' # <<>> \/ Deserted'
      <4> SUFFICES ASSUME srv = "read2" PROVE Writers' # {} \/ fifo' # <<>> \/ Deserted'
          BY <1>6
      <4>1. fifo' = fifo
          BY <3>3 DEF Reading
      <4>2. CASE c \in Writers
          BY <3>5, <4>2 DEF Deserted
      <4>3. CASE c \notin Writers
        <5>1. ~Deserter(c)
            BY <3>1 DEF Deserter
        <5>2. Deserted => Deserted'
            BY <1>2, <5>1 DEF Deserted
        <5> QED BY <2>1, <3>2, <4>1, <4>3, <5>2
      <4> QED BY <4>2, <4>3
    <3> QED BY <3>4, <3>6
  <2> QED BY <2>3, <2>4, <2>5, <2>6 DEF ClientStep, ClientCall
<1> QED BY <1>3, <1>5, <1>6

LEMMA StaysStep ==
    ASSUME TypeOK, Core, PlaceInv, Stays, [Next]_vars
    PROVE  Stays'
<1>1. CASE ServerUnlink \/ ServerRuns \/ ServerCrash \/ SignalFlag \/ SignalInterrupt
    BY <1>1, ServerStays
<1>2. CASE \E c \in Clients : ClientStep(c)
    BY <1>2, ClientStays
<1>3. CASE UNCHANGED vars
    BY <1>3, QuietStays DEF vars, Between
<1> QED BY <1>1, <1>2, <1>3 DEF Next

\* A server that stops, and was neither signalled nor killed from outside, was
\* deserted: by a client of its pipe that was killed or never asked, or by the
\* one it answers, which was killed (pipe_imp.c:66-85 and the writes of
\* send_resp_to_client).
THEOREM ServerStops == Spec => []StopsForAReason
<1>1. Init => Stays
    BY DEF Init, Stays, AskLater, Between
<1>2. IInv /\ Stays /\ [Next]_vars => Stays'
    BY StaysStep DEF IInv, Core
<1>3. ASSUME IInv, Stays PROVE StopsForAReason
  <2>1. srv \in {"hits", "last", "resend"} /\ ~HasReader(cur.c) => cpc[cur.c] = "killed"
      BY <1>3 DEF IInv, WorkInv, Expects, HasReader, Waiting, Attached
  <2>2. srv = "read2" /\ fifo = <<>> /\ Writers = {} => Deserted
      BY <1>3 DEF Stays
  <2> QED BY <2>1, <2>2 DEF StopsForAReason, Deserted, Deserter
<1> QED BY <1>1, <1>2, <1>3, InductiveInvariant, PTL DEF Spec

-----------------------------------------------------------------------------
(***************************************************************************)
(* The transport over named pipes implements the service of CdService, for *)
(* any clients, values of the bounds and faults.  A step of the transport  *)
(* is one step of the service or none: a request is carried out when the   *)
(* server executes it, and a call returns when its client has read the     *)
(* whole answer.                                                           *)
(***************************************************************************)

LEMMA PhaseValues ==
    ASSUME NEW c \in Clients
    PROVE  /\ cpc[c] \in {"off", "copen", "mk"} => PhaseOf[c] = "new"
           /\ cpc[c] = "ready" => PhaseOf[c] = "idle"
           /\ cpc[c] \in Waiting => PhaseOf[c] = "busy"
           /\ cpc[c] \in {"gone", "killed"} => PhaseOf[c] = "left"
BY DEF PhaseOf, Waiting

LEMMA PhaseValuesNext ==
    ASSUME NEW c \in Clients
    PROVE  /\ cpc'[c] \in {"off", "copen", "mk"} => PhaseOf'[c] = "new"
           /\ cpc'[c] = "ready" => PhaseOf'[c] = "idle"
           /\ cpc'[c] \in Waiting => PhaseOf'[c] = "busy"
           /\ cpc'[c] \in {"gone", "killed"} => PhaseOf'[c] = "left"
BY DEF PhaseOf, Waiting

\* a step that moves no client into another phase
LEMMA PhaseStays ==
    ASSUME \A d \in Clients : \/ cpc'[d] = cpc[d]
                              \/ {cpc[d], cpc'[d]} \subseteq {"off", "copen", "mk"}
                              \/ {cpc[d], cpc'[d]} \subseteq Waiting
    PROVE  PhaseOf' = PhaseOf
<1>1. \A d \in Clients : PhaseOf'[d] = PhaseOf[d]
  <2> SUFFICES ASSUME NEW d \in Clients PROVE PhaseOf'[d] = PhaseOf[d]
    OBVIOUS
  <2>1. CASE cpc'[d] = cpc[d]
    BY <2>1 DEF PhaseOf
  <2>2. CASE {cpc[d], cpc'[d]} \subseteq {"off", "copen", "mk"}
    BY <2>2, PhaseValues, PhaseValuesNext
  <2>3. CASE {cpc[d], cpc'[d]} \subseteq Waiting
    BY <2>3, PhaseValues, PhaseValuesNext
  <2> QED BY <2>1, <2>2, <2>3
<1> QED BY <1>1 DEF PhaseOf

\* a step that moves one client
LEMMA PhaseMoves ==
    ASSUME NEW c \in Clients, \A d \in Clients : d # c => cpc'[d] = cpc[d]
    PROVE  PhaseOf' = [PhaseOf EXCEPT ![c] = PhaseOf'[c]]
<1>1. \A d \in Clients : d # c => PhaseOf'[d] = PhaseOf[d]
    BY DEF PhaseOf
<1>2. PhaseOf = [d \in Clients |-> PhaseOf[d]] /\ PhaseOf' = [d \in Clients |-> PhaseOf'[d]]
    BY DEF PhaseOf
<1> QED BY <1>1, <1>2

-----------------------------------------------------------------------------
LEMMA RefineInit == Init => Service!SInit
<1> SUFFICES ASSUME Init PROVE Service!SInit
    OBVIOUS
<1>1. \A c \in Clients : PhaseOf[c] = "new"
    BY PhaseValues DEF Init
<1>2. PhaseOf = [c \in Clients |-> PhaseOf[c]]
    BY DEF PhaseOf
<1> QED BY <1>1, <1>2 DEF Init, Service!SInit

LEMMA ExecRefines == ASSUME TypeOK, Core, ServerExec PROVE Service!SNext
<1>1. cur.c \in Clients /\ Pending(cur)
    BY DEF TypeOK, Request, Core, WorkInv, ServerExec
<1>2. UNCHANGED <<cpc, req>> /\ served' = [served EXCEPT ![cur.c] = req[cur.c]]
    BY <1>1 DEF ServerExec, clientVars, Pending
<1>3. PhaseOf' = PhaseOf
    BY <1>2, PhaseStays
<1>4. Service!Perform(cur.c)
    BY <1>1, <1>2, <1>3 DEF Service!Perform, Pending
<1> QED BY <1>1, <1>4 DEF Service!SNext

LEMMA ServerRefines ==
    ASSUME TypeOK, Core, ServerRuns PROVE [Service!SNext]_(Service!svars)
<1>1. CASE ServerExec
    BY <1>1, ExecRefines
<1>2. CASE ~ServerExec
  <2>1. UNCHANGED <<req, served>>
    BY <1>2 DEF ServerRuns, ServerMkfifo, ServerLoop, ServerRead, ServerEof, ServerClose,
       ServerReopen, ServerGiveUp, ServerOpenResp, ServerSendHit, ServerNoMore, ServerSendLast,
       ServerResend, Send, ServerSigpipe, ServerEnding, ServerEnd, clientVars
  <2>2. \A d \in Clients : \/ cpc'[d] = cpc[d]
                           \/ {cpc[d], cpc'[d]} \subseteq {"off", "copen", "mk"}
                           \/ {cpc[d], cpc'[d]} \subseteq Waiting
    <3>1. CASE ServerReopen
        BY <3>1 DEF ServerReopen, Blocked, TypeOK
    <3>2. CASE ServerOpenResp
        BY <3>2 DEF ServerOpenResp, Waiting, TypeOK
    <3>3. CASE ~ServerReopen /\ ~ServerOpenResp
        <4>1. cpc' = cpc
            BY <1>2, <3>3 DEF ServerRuns, ServerMkfifo, ServerLoop, ServerRead, ServerEof,
               ServerClose, ServerGiveUp, ServerSendHit, ServerNoMore, ServerSendLast,
               ServerResend, Send, ServerSigpipe, ServerEnding, ServerEnd, clientVars
        <4> QED BY <4>1
    <3> QED BY <3>1, <3>2, <3>3
  <2>3. PhaseOf' = PhaseOf
    BY <2>2, PhaseStays
  <2> QED BY <2>1, <2>3 DEF Service!svars
<1> QED BY <1>1, <1>2

LEMMA ClientRefines ==
    ASSUME TypeOK, Core, NEW c \in Clients, ClientStep(c)
    PROVE  [Service!SNext]_(Service!svars)
<1>1. ASSUME UNCHANGED <<req, served>>, \A d \in Clients : d # c => cpc'[d] = cpc[d],
             cpc[c] \notin {"gone", "killed"}, cpc'[c] \in {"gone", "killed"}
      PROVE  Service!SNext
  <2>1. PhaseOf[c] # "left" /\ PhaseOf'[c] = "left"
    BY <1>1, PhaseValues, PhaseValuesNext DEF TypeOK, ClientPcs, Waiting
  <2>2. Service!Leave(c)
    BY <1>1, <2>1, PhaseMoves DEF Service!Leave
  <2> QED BY <2>2 DEF Service!SNext
<1>2. CASE ClientNoServer(c) \/ ClientSigpipe(c) \/ ClientEnding(c) \/ ClientCrash(c)
    BY <1>1, <1>2 DEF ClientNoServer, ClientSigpipe, ClientEnding, ClientCrash, ClientLeaves,
       serverVars, TypeOK, Attached
<1>3. CASE ClientOpen(c)
  <2>1. PhaseOf' = PhaseOf
    BY <1>3, PhaseStays DEF ClientOpen, TypeOK
  <2> QED BY <1>3, <2>1 DEF ClientOpen, Service!svars
<1>4. CASE ClientMkfifo(c)
  <2>1. PhaseOf[c] = "new" /\ PhaseOf'[c] = "idle"
    BY <1>4, PhaseValues, PhaseValuesNext DEF ClientMkfifo, TypeOK
  <2>2. Service!Enter(c)
    BY <1>4, <2>1, PhaseMoves DEF ClientMkfifo, serverVars, TypeOK, Service!Enter
  <2> QED BY <2>2 DEF Service!SNext
<1>5. CASE ClientSend(c)
  <2>1. PhaseOf[c] = "idle" /\ PhaseOf'[c] = "busy"
    BY <1>5, PhaseValues, PhaseValuesNext DEF ClientSend, TypeOK, Waiting
  <2>2. Service!Ask(c)
    BY <1>5, <2>1, PhaseMoves DEF ClientSend, TypeOK, Service!Ask
  <2> QED BY <2>2 DEF Service!SNext
<1>6. CASE ClientOpenResp(c)
  <2>1. PhaseOf' = PhaseOf
    BY <1>6, PhaseStays DEF ClientOpenResp, TypeOK, Waiting
  <2> QED BY <1>6, <2>1 DEF ClientOpenResp, Service!svars
<1>7. CASE ClientRead(c)
  <2>1. served[c] = req[c]
    BY <1>7 DEF ClientRead, Core, ClientInv, ClientOk
  <2>2. CASE cpc'[c] = "reading"
    <3>1. PhaseOf' = PhaseOf
        BY <1>7, <2>2, PhaseStays DEF ClientRead, TypeOK, Waiting
    <3> QED BY <1>7, <3>1 DEF ClientRead, serverVars, Service!svars
  <2>3. CASE cpc'[c] = "ready"
    <3>1. PhaseOf[c] = "busy" /\ PhaseOf'[c] = "idle"
        BY <1>7, <2>3, PhaseValues, PhaseValuesNext DEF ClientRead, Waiting
    <3>2. Service!Return(c)
        BY <1>7, <2>1, <3>1, PhaseMoves DEF ClientRead, serverVars, TypeOK, Service!Return
    <3> QED BY <3>2 DEF Service!SNext
  <2> QED BY <1>7, <2>2, <2>3 DEF ClientRead, TypeOK
<1> QED BY <1>2, <1>3, <1>4, <1>5, <1>6, <1>7, Zenon DEF ClientStep, ClientCall

LEMMA RefineStep == TypeOK /\ Core /\ [Next]_vars => [Service!SNext]_(Service!svars)
<1> SUFFICES ASSUME TypeOK, Core, [Next]_vars PROVE [Service!SNext]_(Service!svars)
    OBVIOUS
<1>1. ASSUME UNCHANGED <<cpc, req, served>> PROVE UNCHANGED Service!svars
    BY <1>1, PhaseStays DEF Service!svars
<1>2. CASE ServerUnlink \/ ServerCrash \/ SignalFlag \/ SignalInterrupt \/ UNCHANGED vars
    BY <1>1, <1>2 DEF ServerUnlink, ServerCrash, SignalFlag, SignalInterrupt, vars, clientVars
<1> QED BY <1>2, ServerRefines, ClientRefines DEF Next

\* The transport implements the service: each client makes one call at a time,
\* the server carries out a call at most once, and a call returns only after it
\* was carried out, whatever processes stop, are signalled or are killed.
THEOREM TransportRefinesService == Spec => ServiceSpec
<1>1. Init => TypeOK /\ Core
    BY TypeInit, CoreInit
<1>2. TypeOK /\ Core /\ [Next]_vars => (TypeOK /\ Core)'
    BY TypeStep, CoreStep
<1> QED BY <1>1, <1>2, RefineInit, RefineStep, PTL DEF Spec, ServiceSpec, Service!SSpec
================================================================================

------------------------------- MODULE IpcQueue -------------------------------
(***************************************************************************)
(* The CD catalogue's client/server transport over System V message queues *)
(* (chapter13/app/ipc_imp.c), which replaces pipe_imp.c under the same     *)
(* server.c and clientif.c.                                                *)
(*                                                                         *)
(* All requests go through one queue, all responses through another, where *)
(* a client receives those that carry its pid.  Queues belong to no        *)
(* process: they and what is in them outlive a server that is killed, and  *)
(* go when a server removes them, which fails every call blocked on them   *)
(* (EIDRM) and every later use of their identifiers (EINVAL).  A send      *)
(* blocks while its queue is full.  The kernel gives the pid of a process  *)
(* that is gone to a later one.                                            *)
(***************************************************************************)
EXTENDS Naturals, Sequences, SequencesExt

CONSTANTS
    Clients,     \* the client processes, each of which starts once
    Pids,
    pid,         \* the pid of each client; two may have one after the other
    MaxReq,      \* bound: requests each client makes
    MaxHits,     \* bound: entries one search can match
    QueueIds,    \* identifiers the kernel gives to queues
    NoQueue,     \* no identifier: -1
    QueueCap,    \* messages a queue holds
    MaxFaults    \* bound: signals to the server and processes killed

ASSUME ConstantsAssumption ==
    /\ pid \in [Clients -> Pids] /\ Clients # {}
    /\ MaxReq \in [Clients -> Nat] /\ MaxHits \in Nat /\ MaxFaults \in Nat
    /\ QueueCap \in Nat \ {0}
    /\ NoQueue \notin QueueIds

VARIABLES
    srv,       \* where the server is; see ServerPcs
    run,       \* server_running
    sq,        \* the queue of SERVER_MQUEUE: its identifier
    requests,  \* and the messages in it
    cq,        \* the queue of CLIENT_MQUEUE
    responses,
    cur,       \* the request the server works on (comm of process_command)
    left,      \* matches its search has yet to return
    idx,       \* position of the next response in the answer
    cpc,       \* where each client is; see ClientPcs
    serv_qid,  \* the identifiers each client holds
    cli_qid,
    req,       \* number of the client's latest request
    find,      \* the client is inside a search
    got,       \* responses the client's present call has read
    heir,      \* messages for a dead process were there when this one got its pid
    served,    \* number of the client's latest request the server carried out
    faults     \* how many faults there were

queueVars  == <<sq, requests, cq, responses>>
serverVars == <<srv, run, cur, left, idx, served>>
clientVars == <<cpc, serv_qid, cli_qid, req, find, got, heir>>
vars == <<srv, run, sq, requests, cq, responses, cur, left, idx, served,
          cpc, serv_qid, cli_qid, req, find, got, heir, faults>>

ServerPcs ==
    {"off", "get",                          \* not started; has the first queue
     "read", "exec", "hits", "last", "resend",
     "ending", "half", "done", "killed"}    \* half: the first queue is removed

ClientPcs ==
    {"off", "get", "ready",
     "sending", "reading",                  \* inside msgsnd, msgrcv
     "cut",                                 \* a call failed: the queues are gone
     "gone", "killed"}

Request  == [c : Clients, n : Nat, find : BOOLEAN]
Idle     == [c |-> CHOOSE c \in Clients : TRUE, n |-> 0, find |-> FALSE]
Response == [c : Clients, n : Nat, i : Nat, ok : BOOLEAN]

Ids     == QueueIds \cup {NoQueue}
Alive   == {"get", "ready", "sending", "reading", "cut"}
Calling == {"sending", "reading"}
Working == {"exec", "hits", "last", "resend"}

\* msgrcv with a type: the first response that carries the pid
FirstFor(p, k) ==
    /\ pid[responses[k].c] = p
    /\ \A l \in 1..(k - 1) : pid[responses[l].c] # p

\* msgget makes a queue: an identifier that no client still holds
NewQueue(held, q) ==
    LET Free(i) == \A c \in Clients : held[c] # i
        id      == CHOOSE i \in QueueIds : Free(i)
    IN  q = id /\ id \in QueueIds /\ Free(id)

\* something for pid p is still under way
Leftover(p) ==
    \/ \E k \in DOMAIN requests : pid[requests[k].c] = p
    \/ \E k \in DOMAIN responses : pid[responses[k].c] = p
    \/ srv \in Working /\ pid[cur.c] = p

Init ==
    /\ srv = "off" /\ run = TRUE
    /\ sq = NoQueue /\ requests = <<>> /\ cq = NoQueue /\ responses = <<>>
    /\ cur = Idle /\ left = 0 /\ idx = 0
    /\ cpc = [c \in Clients |-> "off"]
    /\ serv_qid = [c \in Clients |-> NoQueue] /\ cli_qid = [c \in Clients |-> NoQueue]
    /\ req = [c \in Clients |-> 0] /\ find = [c \in Clients |-> FALSE]
    /\ got = [c \in Clients |-> 0] /\ heir = [c \in Clients |-> FALSE]
    /\ served = [c \in Clients |-> 0] /\ faults = 0

-----------------------------------------------------------------------------
(* The server *)

\* main's while(server_running)
Loop == srv' = IF run THEN "read" ELSE "ending"

\* server_starting: IPC_CREAT without IPC_EXCL takes a queue that is there
\* with all that is in it, or makes an empty one
ServerGetServQueue ==
    /\ srv \in {"off", "done", "killed"}
    /\ srv' = "get" /\ run' = TRUE
    /\ IF sq = NoQueue THEN NewQueue(serv_qid, sq') /\ requests' = <<>>
                       ELSE UNCHANGED <<sq, requests>>
    /\ UNCHANGED <<cq, responses, cur, left, idx, served, clientVars, faults>>

ServerGetCliQueue ==
    /\ srv = "get" /\ Loop
    /\ IF cq = NoQueue THEN NewQueue(cli_qid, cq') /\ responses' = <<>>
                       ELSE UNCHANGED <<cq, responses>>
    /\ UNCHANGED <<run, sq, requests, cur, left, idx, served, clientVars, faults>>

\* Slip: the request is copied and stays in the queue.
ServerReadCopies ==
    /\ srv = "read" /\ requests # <<>>
    /\ cur' = Head(requests) /\ srv' = "exec"
    /\ UNCHANGED <<run, queueVars, left, idx, served, clientVars, faults>>

\* read_request_from_client: the first message of any type
ServerRead ==
    /\ srv = "read" /\ requests # <<>>
    /\ cur' = Head(requests) /\ requests' = Tail(requests) /\ srv' = "exec"
    /\ UNCHANGED <<run, sq, cq, responses, left, idx, served, clientVars, faults>>

\* process_command's switch: one call to cd_dbm.c, or the start of a search
ServerExec ==
    /\ srv = "exec"
    /\ served' = [served EXCEPT ![cur.c] = cur.n]
    /\ idx' = 1
    /\ IF cur.find
       THEN srv' = "hits" /\ left' \in 0..MaxHits
       ELSE srv' = "last" /\ left' = 0
    /\ UNCHANGED <<run, queueVars, cur, clientVars, faults>>

\* send_resp_to_client, once the queue has room
Send(ok) ==
    /\ Len(responses) < QueueCap
    /\ responses' = Append(responses, [c |-> cur.c, n |-> cur.n, i |-> idx, ok |-> ok])
    /\ UNCHANGED <<run, sq, requests, cq, served, clientVars, faults>>

\* process_command is over: its variables are gone
Return == cur' = Idle /\ left' = 0 /\ idx' = 0

\* Slip: the loop sends before it looks whether there is a match.
ServerSendHitFirst ==
    /\ srv = "hits" /\ Send(TRUE)
    /\ left' = left - 1 /\ idx' = idx + 1
    /\ UNCHANGED <<srv, cur>>

\* the do loop over search_cdc_entry: a response for every match
ServerSendHit ==
    /\ srv = "hits" /\ left > 0 /\ Send(TRUE)
    /\ left' = left - 1 /\ idx' = idx + 1
    /\ UNCHANGED <<srv, cur>>

\* the response after the switch: r_find_no_more ends a search; of the other
\* operations the client takes one response, whether it says success or not
AtLast == srv = "last" \/ (srv = "hits" /\ left = 0)

ServerSendLast ==
    AtLast /\ Loop /\ Return /\ Send(~cur.find)

\* the same send after a failed one broke the loop: resp still says r_success
ServerResend == srv = "resend" /\ Loop /\ Return /\ Send(TRUE)

\* Slip: the queue of the responses is removed first ...
ServerEndingCli ==
    /\ srv = "ending"
    /\ srv' = "half" /\ cq' = NoQueue /\ responses' = <<>>
    /\ UNCHANGED <<run, sq, requests, cur, left, idx, served, clientVars, faults>>

\* server_ending: the server queue is removed with all that is in it ...
ServerEnding ==
    /\ srv = "ending"
    /\ srv' = "half" /\ sq' = NoQueue /\ requests' = <<>>
    /\ UNCHANGED <<run, cq, responses, cur, left, idx, served, clientVars, faults>>

\* Slip: the server leaves the queue of the responses where it is.
ServerEndLeaves ==
    /\ srv = "half"
    /\ srv' = "done"
    /\ UNCHANGED <<run, queueVars, cur, left, idx, served, clientVars, faults>>

\* ... and then the queue of the responses
ServerEnd ==
    /\ srv = "half"
    /\ srv' = "done" /\ cq' = NoQueue /\ responses' = <<>>
    /\ UNCHANGED <<run, sq, requests, cur, left, idx, served, clientVars, faults>>

-----------------------------------------------------------------------------
(* The clients *)

\* client_starting, in a process whose pid no living process has
ClientGetServQueue(c) ==
    /\ cpc[c] = "off"
    /\ \A d \in Clients : pid[d] = pid[c] => cpc[d] \notin Alive
    /\ serv_qid' = [serv_qid EXCEPT ![c] = sq]
    /\ cpc' = [cpc EXCEPT ![c] = IF sq = NoQueue THEN "gone" ELSE "get"]
    /\ heir' = [heir EXCEPT ![c] = Leftover(pid[c])]
    /\ UNCHANGED <<serverVars, queueVars, cli_qid, req, find, got, faults>>

ClientGetCliQueue(c) ==
    /\ cpc[c] = "get"
    /\ cli_qid' = [cli_qid EXCEPT ![c] = cq]
    /\ cpc' = [cpc EXCEPT ![c] = IF cq = NoQueue THEN "gone" ELSE "ready"]
    /\ UNCHANGED <<serverVars, queueVars, serv_qid, req, find, got, heir, faults>>

\* the user asks for something: send_mess_to_server is entered
ClientAsk(c) ==
    /\ cpc[c] = "ready" /\ req[c] < MaxReq[c]
    /\ cpc' = [cpc EXCEPT ![c] = "sending"]
    /\ req' = [req EXCEPT ![c] = @ + 1]
    /\ \E isFind \in BOOLEAN : find' = [find EXCEPT ![c] = isFind]
    /\ UNCHANGED <<serverVars, queueVars, serv_qid, cli_qid, got, heir, faults>>

\* msgsnd returns once the queue has room; read_resp_from_server is entered
ClientSend(c) ==
    /\ cpc[c] = "sending" /\ serv_qid[c] = sq /\ Len(requests) < QueueCap
    /\ requests' = Append(requests, [c |-> c, n |-> req[c], find |-> find[c]])
    /\ cpc' = [cpc EXCEPT ![c] = "reading"]
    /\ UNCHANGED <<serverVars, sq, cq, responses,
                   serv_qid, cli_qid, req, find, got, heir, faults>>

\* the queue is gone: "Server not accepting requests", "Server failed to
\* respond".  The identifiers stay, so every further call fails as well.
ClientFails(c) ==
    /\ \/ cpc[c] = "sending" /\ serv_qid[c] # sq
       \/ cpc[c] = "reading" /\ cli_qid[c] # cq
    /\ cpc' = [cpc EXCEPT ![c] = "cut"]
    /\ find' = [find EXCEPT ![c] = FALSE] /\ got' = [got EXCEPT ![c] = 0]
    /\ UNCHANGED <<serverVars, queueVars, serv_qid, cli_qid, req, heir, faults>>

\* what a client does with response k: a search reads on while it says
\* r_success, every other operation takes one response
Take(c, k) ==
    /\ responses' = RemoveAt(responses, k)
    /\ IF find[c] /\ responses[k].ok
       THEN got' = [got EXCEPT ![c] = @ + 1] /\ UNCHANGED <<cpc, find>>
       ELSE /\ cpc' = [cpc EXCEPT ![c] = "ready"]
            /\ find' = [find EXCEPT ![c] = FALSE] /\ got' = [got EXCEPT ![c] = 0]
    /\ UNCHANGED <<serverVars, sq, requests, cq, serv_qid, cli_qid, req, heir, faults>>

\* Slip: msgrcv with type 0 takes the first message of anybody.
ClientReadAny(c) ==
    /\ cpc[c] = "reading" /\ cli_qid[c] = cq /\ responses # <<>>
    /\ Take(c, 1)

\* read_resp_from_server: the first message that carries this pid
ClientRead(c) ==
    /\ cpc[c] = "reading" /\ cli_qid[c] = cq
    /\ \E k \in DOMAIN responses : FirstFor(pid[c], k) /\ Take(c, k)

\* the process's own variables are gone; nothing else changes
Exit(c, how) ==
    /\ cpc' = [cpc EXCEPT ![c] = how]
    /\ serv_qid' = [serv_qid EXCEPT ![c] = NoQueue]
    /\ cli_qid' = [cli_qid EXCEPT ![c] = NoQueue]
    /\ find' = [find EXCEPT ![c] = FALSE] /\ got' = [got EXCEPT ![c] = 0]
    /\ UNCHANGED <<serverVars, queueVars, req, heir>>

\* database_close (client_ending)
ClientEnding(c) == cpc[c] \in {"ready", "cut"} /\ Exit(c, "gone") /\ UNCHANGED faults

-----------------------------------------------------------------------------
(* The environment *)

Fault == faults < MaxFaults /\ faults' = faults + 1

ClientCrash(c) == Fault /\ cpc[c] \in Alive /\ Exit(c, "killed")

ServerCrash ==
    /\ Fault /\ srv \notin {"off", "done", "killed"}
    /\ srv' = "killed" /\ Return
    /\ UNCHANGED <<run, queueVars, served, clientVars>>

\* catch_signals, when the server is not blocked or not yet
SignalFlag ==
    /\ Fault /\ srv \notin {"off", "done", "killed"} /\ run
    /\ run' = FALSE
    /\ UNCHANGED <<srv, queueVars, cur, left, idx, served, clientVars>>

\* the handler runs and the blocked call fails with EINTR
SignalInterrupt ==
    /\ Fault
    /\ \/ srv = "read" /\ requests = <<>> /\ srv' = "ending" /\ Return
       \/ /\ Len(responses) >= QueueCap
          /\ \/ srv = "hits" /\ left > 0 /\ srv' = "resend" /\ UNCHANGED <<cur, left, idx>>
             \/ (AtLast \/ srv = "resend") /\ srv' = "ending" /\ Return
    /\ run' = FALSE
    /\ UNCHANGED <<queueVars, served, clientVars>>

-----------------------------------------------------------------------------
ServerRuns ==
    \/ ServerGetCliQueue \/ ServerRead \/ ServerExec
    \/ ServerSendHit \/ ServerSendLast \/ ServerResend
    \/ ServerEnding \/ ServerEnd

\* what a client does once its program runs; the rest is up to its user
ClientRuns(c) ==
    ClientGetCliQueue(c) \/ ClientSend(c) \/ ClientRead(c) \/ ClientFails(c)

Next ==
    \/ ServerGetServQueue \/ ServerRuns \/ ServerCrash \/ SignalFlag \/ SignalInterrupt
    \/ \E c \in Clients : ClientGetServQueue(c) \/ ClientAsk(c) \/ ClientRuns(c)
                          \/ ClientEnding(c) \/ ClientCrash(c)

Spec == Init /\ [][Next]_vars

\* The scheduler runs every process that is not blocked; a send or receive
\* that can go on does so in the end, as the kernel serves sleepers in order.
FairSpec == Spec /\ WF_vars(ServerRuns) /\ \A c \in Clients : WF_vars(ClientRuns(c))

-----------------------------------------------------------------------------
(* Properties *)

TypeOK ==
    /\ srv \in ServerPcs /\ run \in BOOLEAN
    /\ sq \in Ids /\ requests \in Seq(Request)
    /\ cq \in Ids /\ responses \in Seq(Response)
    /\ cur \in Request /\ left \in Nat /\ idx \in Nat
    /\ cpc \in [Clients -> ClientPcs]
    /\ serv_qid \in [Clients -> Ids] /\ cli_qid \in [Clients -> Ids]
    /\ req \in [Clients -> Nat] /\ find \in [Clients -> BOOLEAN]
    /\ got \in [Clients -> Nat] /\ heir \in [Clients -> BOOLEAN]
    /\ served \in [Clients -> Nat] /\ faults \in Nat

\* A client that can still reach the server can also still be reached by it:
\* the order in which server_ending removes the queues and server_starting and
\* client_starting get them leaves no client that could ask but not hear.
QueuesPaired ==
    \A c \in Clients :
        cpc[c] \in {"ready", "sending", "reading"} /\ serv_qid[c] = sq
            => cli_qid[c] = cq /\ cq # NoQueue

\* Although all clients share one queue, and responses outlive those they are
\* meant for, a process that did not inherit its pid together with messages
\* finds under its pid the answer to its present request only, while it reads
\* and in the queue it reads from: the responses that follow the last it took,
\* in order and with none missing.
OwnAnswers ==
    \A c \in Clients : cpc[c] \in Alive /\ ~heir[c] =>
        LET mine == {k \in DOMAIN responses : pid[responses[k].c] = pid[c]}
        IN  /\ mine # {} => cpc[c] = "reading" /\ cli_qid[c] = cq
            /\ \A k \in mine :
                   /\ responses[k].c = c /\ responses[k].n = req[c] /\ responses[k].i > got[c]
                   /\ \A l \in mine : k < l => responses[k].i < responses[l].i
                   /\ \A i \in (got[c] + 1)..responses[k].i :
                          \E l \in mine : responses[l].i = i

\* Every call returns, with an answer or with an error, unless some process
\* was killed or came into messages of one: then the shared queue may fill up
\* with what nobody reads, or a request may be lost with the server.
Casualty == srv = "killed" \/ \E c \in Clients : cpc[c] = "killed" \/ heir[c]

CallsReturn ==
    []~Casualty => \A c \in Clients : []<>(cpc[c] \notin Calling)

\* The queues, too, implement the service, for all processes but those that
\* inherit messages with their pid: whatever is lost when a server is killed or
\* found again by its successor, a request is carried out at most once, and a
\* call that returns an answer returns after it was carried out.
PhaseOf == [c \in Clients |->
    CASE ~heir[c] /\ cpc[c] \in {"off", "get"} -> "new"
      [] ~heir[c] /\ cpc[c] = "ready"          -> "idle"
      [] ~heir[c] /\ cpc[c] \in Calling        -> "busy"
      [] OTHER                                 -> "left"]

Uninherited(n) == [c \in Clients |-> IF heir[c] THEN 0 ELSE n[c]]

Service == INSTANCE CdService WITH
    phase <- PhaseOf, calls <- Uninherited(req), done <- Uninherited(served)

ServiceSpec == Service!SSpec
=============================================================================

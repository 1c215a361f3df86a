-------------------------------- MODULE CdPipe --------------------------------
(***************************************************************************)
(* The CD catalogue's client/server transport over named pipes             *)
(* (chapter12/app: server.c, pipe_imp.c, clientif.c).                      *)
(*                                                                         *)
(* One server reads requests from SERVER_PIPE.  Each client writes its     *)
(* request there, opens a pipe of its own and reads the answer from it.    *)
(* The model keeps the control of both programs - every blocking open,     *)
(* read and write, each close and unlink - and of the data only what       *)
(* identifies a message: the client, the number of its request and the     *)
(* position of a response in its answer.                                   *)
(*                                                                         *)
(* A FIFO behaves as fifo(7) and pipe(7) say.  An open blocks until the    *)
(* other end is open, and both opens then return; a read of an empty pipe  *)
(* blocks while a writer has it open and returns 0 once none has; a write  *)
(* blocks while the pipe is full and kills the writer with SIGPIPE when    *)
(* there is no reader (neither program handles SIGPIPE); the bytes vanish  *)
(* when the last end is closed.  Messages are shorter than PIPE_BUF, so    *)
(* reads and writes are whole messages.                                    *)
(***************************************************************************)
EXTENDS Naturals, Sequences

CONSTANTS
    Clients,      \* the client processes; each has its own pid
    MaxReq,       \* bound: requests one client makes
    MaxHits,      \* bound: entries one search can match
    PipeCap,      \* responses a client's pipe holds
    MaxStarts,    \* bound: times the server is started
    Faults        \* which of FaultKinds the environment may produce

FaultKinds == {"signal", "serverCrash", "clientCrash", "idleQuit"}

ASSUME ConstantsAssumption ==
    /\ MaxReq \in Nat /\ MaxHits \in Nat /\ MaxStarts \in Nat
    /\ PipeCap \in Nat \ {0}
    /\ Faults \subseteq FaultKinds

VARIABLES
    srv,      \* where the server is; see ServerPcs
    run,      \* server_running
    name,     \* SERVER_PIPE exists in the file system
    fifo,     \* the requests in the pipe the server made last
    cur,      \* the request the server works on
    left,     \* matches the server's search has yet to return
    idx,      \* position of the next response in the answer
    starts,   \* how often the server was started
    cpc,      \* where each client is; see ClientPcs
    link,     \* which server pipe the client opened: none, cur or old
    rfd,      \* the client has its own pipe open (client_fd # -1)
    pipe,     \* the responses in each client's pipe
    req,      \* number of the client's latest request
    find,     \* that request is a search
    got,      \* responses to it that the client has read
    served    \* number of the client's latest request the server carried out

serverVars == <<srv, run, name, fifo, cur, left, idx, starts, served>>
clientVars == <<cpc, link, rfd, pipe, req, find, got>>
vars == <<srv, run, name, fifo, cur, left, idx, starts, served,
          cpc, link, rfd, pipe, req, find, got>>

ServerPcs ==
    {"off", "mkfifo",                      \* not started; SERVER_PIPE unlinked
     "open", "reopen",                     \* blocked in open(SERVER_PIPE)
     "loop", "read", "eof", "closed", "read2", "cmd",
     "respOpen",                           \* blocked in open(client pipe)
     "exec", "hits", "last", "resend",     \* the client's pipe is open
     "ending", "unlink", "done", "killed"}

ClientPcs ==
    {"off", "copen", "mk", "ready", "sent", "ropen", "reading", "gone", "killed"}

Request  == [c : Clients, n : Nat, find : BOOLEAN]
Response == [n : Nat, i : Nat, last : BOOLEAN]

-----------------------------------------------------------------------------
(* The two kinds of pipe *)

\* the server has the read end of SERVER_PIPE open
Reading  == {"loop", "read", "eof", "read2", "cmd", "respOpen",
             "exec", "hits", "last", "resend", "ending"}
Attached == {"mk", "ready", "sent", "ropen", "reading"}
Waiting  == {"sent", "ropen", "reading"}

Writers == {c \in Clients : link[c] = "cur" /\ cpc[c] \in Attached}
Blocked == {c \in Clients : link[c] = "cur" /\ cpc[c] = "copen"}

\* the server has the client's pipe open for writing
Sending == {"exec", "hits", "last", "resend"}
HasReader(c) == rfd[c] /\ cpc[c] \in Attached
Full(c)      == Len(pipe[c]) >= PipeCap

\* what is left in the server pipe once client c no longer holds it
FifoWithout(c) ==
    IF srv \notin Reading /\ Writers \cup Blocked \subseteq {c} THEN <<>> ELSE fifo

Init ==
    /\ srv = "off" /\ run = TRUE /\ name = FALSE /\ fifo = <<>>
    /\ \E c \in Clients : cur = [c |-> c, n |-> 0, find |-> FALSE]
    /\ left = 0 /\ idx = 0 /\ starts = 0
    /\ cpc = [c \in Clients |-> "off"]
    /\ link = [c \in Clients |-> "none"]
    /\ rfd = [c \in Clients |-> FALSE]
    /\ pipe = [c \in Clients |-> <<>>]
    /\ req = [c \in Clients |-> 0]
    /\ find = [c \in Clients |-> FALSE]
    /\ got = [c \in Clients |-> 0]
    /\ served = [c \in Clients |-> 0]

-----------------------------------------------------------------------------
(* The server *)

\* server_starting: a new FIFO under the old name, then an open that blocks
\* until a client opens it.  Clients of an earlier server keep the old FIFO.
ServerUnlink ==
    /\ srv \in {"off", "done", "killed"} /\ starts < MaxStarts
    /\ srv' = "mkfifo" /\ name' = FALSE /\ run' = TRUE /\ starts' = starts + 1
    /\ UNCHANGED <<fifo, cur, left, idx, served, clientVars>>

ServerMkfifo ==
    /\ srv = "mkfifo"
    /\ srv' = "open" /\ name' = TRUE /\ fifo' = <<>>
    /\ link' = [c \in Clients |-> IF link[c] = "cur" THEN "old" ELSE link[c]]
    /\ UNCHANGED <<run, cur, left, idx, starts, served,
                   cpc, rfd, pipe, req, find, got>>

\* main's while(server_running)
ServerLoop ==
    /\ srv = "loop"
    /\ srv' = IF run THEN "read" ELSE "ending"
    /\ UNCHANGED <<run, name, fifo, cur, left, idx, starts, served, clientVars>>

\* read_request_from_client: the first read, and the one after the reopen
ServerRead ==
    /\ srv \in {"read", "read2"} /\ fifo # <<>>
    /\ cur' = Head(fifo) /\ fifo' = Tail(fifo) /\ srv' = "cmd"
    /\ UNCHANGED <<run, name, left, idx, starts, served, clientVars>>

\* Slip: the server stops when its last client leaves.
ServerEofEnds ==
    /\ srv = "read" /\ fifo = <<>> /\ Writers = {}
    /\ srv' = "loop" /\ run' = FALSE
    /\ UNCHANGED <<name, fifo, cur, left, idx, starts, served, clientVars>>

\* no request and no client: the first read returns 0 ...
ServerEof ==
    /\ srv = "read" /\ fifo = <<>> /\ Writers = {}
    /\ srv' = "eof"
    /\ UNCHANGED <<run, name, fifo, cur, left, idx, starts, served, clientVars>>

\* Slip: the pipe is made anew, so what a client sent meanwhile is lost.
ServerCloseDrops ==
    /\ srv = "eof"
    /\ srv' = "closed" /\ fifo' = <<>>
    /\ UNCHANGED <<run, name, cur, left, idx, starts, served, clientVars>>

\* ... and the server closes the pipe and opens it again
ServerClose ==
    /\ srv = "eof"
    /\ srv' = "closed"
    /\ fifo' = IF Writers = {} THEN <<>> ELSE fifo
    /\ UNCHANGED <<run, name, cur, left, idx, starts, served, clientVars>>

\* Slip: the pipe is opened without waiting for a client.
ServerReopenAtOnce ==
    /\ srv = "closed" /\ srv' = "read2"
    /\ cpc' = [c \in Clients |-> IF c \in Blocked THEN "mk" ELSE cpc[c]]
    /\ UNCHANGED <<run, name, fifo, cur, left, idx, starts, served,
                   link, rfd, pipe, req, find, got>>

ServerReopen ==
    /\ srv = "closed"
    /\ IF Writers \cup Blocked = {}
       THEN srv' = "reopen" /\ UNCHANGED cpc
       ELSE /\ srv' = "read2"
            /\ cpc' = [c \in Clients |-> IF c \in Blocked THEN "mk" ELSE cpc[c]]
    /\ UNCHANGED <<run, name, fifo, cur, left, idx, starts, served,
                   link, rfd, pipe, req, find, got>>

\* the second read returns 0 too: main takes it for a broken pipe
ServerGiveUp ==
    /\ srv = "read2" /\ fifo = <<>> /\ Writers = {}
    /\ srv' = "loop" /\ run' = FALSE
    /\ UNCHANGED <<name, fifo, cur, left, idx, starts, served, clientVars>>

\* start_resp_to_client
ServerOpenResp ==
    /\ srv = "cmd"
    /\ IF HasReader(cur.c) \/ cpc[cur.c] = "ropen"
       THEN /\ srv' = "exec"
            /\ cpc' = [cpc EXCEPT ![cur.c] = IF @ = "ropen" THEN "reading" ELSE @]
            /\ rfd' = [rfd EXCEPT ![cur.c] = TRUE]
       ELSE srv' = "respOpen" /\ UNCHANGED <<cpc, rfd>>
    /\ UNCHANGED <<run, name, fifo, cur, left, idx, starts, served,
                   link, pipe, req, find, got>>

\* Slip: a missing break, every case runs on into that of the search.
ServerExecFalls ==
    /\ srv = "exec"
    /\ served' = [served EXCEPT ![cur.c] = cur.n]
    /\ idx' = 1 /\ srv' = "hits" /\ left' \in 0..MaxHits
    /\ UNCHANGED <<run, name, fifo, cur, starts, clientVars>>

\* process_command's switch: one call to cd_dbm.c, or the start of a search
ServerExec ==
    /\ srv = "exec"
    /\ served' = [served EXCEPT ![cur.c] = cur.n]
    /\ idx' = 1
    /\ IF cur.find
       THEN srv' = "hits" /\ left' \in 0..MaxHits
       ELSE srv' = "last" /\ left' = 0
    /\ UNCHANGED <<run, name, fifo, cur, starts, clientVars>>

\* send_resp_to_client, when the client reads and its pipe has room
Send(last) ==
    /\ HasReader(cur.c) /\ ~Full(cur.c)
    /\ pipe' = [pipe EXCEPT ![cur.c] =
                    Append(@, [n |-> cur.n, i |-> idx, last |-> last])]
    /\ idx' = idx + 1
    /\ UNCHANGED <<run, name, fifo, cur, starts, served,
                   cpc, link, rfd, req, find, got>>

\* Slip: the loop sends before it looks whether there is a match.
ServerSendHitFirst == srv = "hits" /\ left' = left - 1 /\ srv' = "hits" /\ Send(FALSE)

\* the do loop over search_cdc_entry: a response for every match
ServerSendHit == srv = "hits" /\ left > 0 /\ left' = left - 1 /\ srv' = "hits" /\ Send(FALSE)

\* Slip: nothing is sent after the last match.
ServerNoMoreSilent ==
    /\ srv = "hits" /\ left = 0
    /\ srv' = "loop"
    /\ UNCHANGED <<run, name, fifo, cur, left, idx, starts, served, clientVars>>

ServerNoMore ==
    /\ srv = "hits" /\ left = 0
    /\ srv' = "last"
    /\ UNCHANGED <<run, name, fifo, cur, left, idx, starts, served, clientVars>>

\* the response after the switch; end_resp_to_client closes the pipe
ServerSendLast == srv = "last" /\ srv' = "loop" /\ UNCHANGED left /\ Send(TRUE)

\* the same send after a failed one broke the loop: resp still holds the match
ServerResend == srv = "resend" /\ srv' = "loop" /\ UNCHANGED left /\ Send(FALSE)

\* the client died: SIGPIPE kills the server in the middle of its answer
ServerSigpipe ==
    /\ srv \in {"hits", "last", "resend"} /\ (srv = "hits" => left > 0)
    /\ ~HasReader(cur.c)
    /\ srv' = "killed"
    /\ UNCHANGED <<run, name, fifo, cur, left, idx, starts, served, clientVars>>

\* server_ending: close, then unlink
ServerEnding ==
    /\ srv = "ending"
    /\ srv' = "unlink"
    /\ UNCHANGED <<run, name, fifo, cur, left, idx, starts, served, clientVars>>

ServerEnd ==
    /\ srv = "unlink"
    /\ srv' = "done" /\ name' = FALSE
    /\ UNCHANGED <<run, fifo, cur, left, idx, starts, served, clientVars>>

-----------------------------------------------------------------------------
(* The clients *)

\* client_starting, its first half: open SERVER_PIPE for writing
ClientNoServer(c) ==
    /\ cpc[c] = "off" /\ ~name
    /\ cpc' = [cpc EXCEPT ![c] = "gone"]
    /\ UNCHANGED <<serverVars, link, rfd, pipe, req, find, got>>

ClientOpen(c) ==
    /\ cpc[c] = "off" /\ name
    /\ link' = [link EXCEPT ![c] = "cur"]
    /\ cpc' = [cpc EXCEPT ![c] =
                   IF srv \in Reading \cup {"open", "reopen"} THEN "mk" ELSE "copen"]
    /\ srv' = CASE srv = "open" -> "loop" [] srv = "reopen" -> "read2" [] OTHER -> srv
    /\ UNCHANGED <<run, name, fifo, cur, left, idx, starts, served,
                   rfd, pipe, req, find, got>>

\* its second half: a fresh pipe under the client's own name
ClientMkfifo(c) ==
    /\ cpc[c] = "mk"
    /\ cpc' = [cpc EXCEPT ![c] = "ready"]
    /\ UNCHANGED <<serverVars, link, rfd, pipe, req, find, got>>

\* send_mess_to_server, the first thing every operation of clientif.c does
ClientSend(c) ==
    /\ cpc[c] = "ready" /\ req[c] < MaxReq
    /\ link[c] = "cur" /\ srv \in Reading
    /\ \E isFind \in BOOLEAN :
          /\ find' = [find EXCEPT ![c] = isFind]
          /\ fifo' = Append(fifo, [c |-> c, n |-> req[c] + 1, find |-> isFind])
    /\ req' = [req EXCEPT ![c] = @ + 1]
    /\ got' = [got EXCEPT ![c] = 0]
    /\ cpc' = [cpc EXCEPT ![c] = "sent"]
    /\ UNCHANGED <<srv, run, name, cur, left, idx, starts, served, link, rfd, pipe>>

\* the same write when the server is not there: SIGPIPE
ClientSigpipe(c) ==
    /\ cpc[c] = "ready" /\ req[c] < MaxReq
    /\ ~(link[c] = "cur" /\ srv \in Reading)
    /\ cpc' = [cpc EXCEPT ![c] = "killed"]
    /\ pipe' = [pipe EXCEPT ![c] = <<>>]
    /\ fifo' = FifoWithout(c)
    /\ UNCHANGED <<srv, run, name, cur, left, idx, starts, served,
                   link, rfd, req, find, got>>

\* start_resp_from_server: the pipe is opened once and then kept open
ClientOpenResp(c) ==
    /\ cpc[c] = "sent"
    /\ LET met == srv = "respOpen" /\ cur.c = c
       IN  /\ cpc' = [cpc EXCEPT ![c] = IF rfd[c] \/ met THEN "reading" ELSE "ropen"]
           /\ rfd' = [rfd EXCEPT ![c] = @ \/ met]
           /\ srv' = IF met THEN "exec" ELSE srv
    /\ UNCHANGED <<run, name, fifo, cur, left, idx, starts, served,
                   link, pipe, req, find, got>>

\* Slip: a search, too, takes one response.
ClientReadFirst(c) ==
    /\ cpc[c] = "reading" /\ pipe[c] # <<>>
    /\ pipe' = [pipe EXCEPT ![c] = Tail(@)]
    /\ got' = [got EXCEPT ![c] = @ + 1]
    /\ cpc' = [cpc EXCEPT ![c] = "ready"]
    /\ UNCHANGED <<serverVars, link, rfd, req, find>>

\* read_resp_from_server: a search reads on until a response other than
\* r_success, every other operation takes one response
ClientRead(c) ==
    /\ cpc[c] = "reading" /\ pipe[c] # <<>>
    /\ pipe' = [pipe EXCEPT ![c] = Tail(@)]
    /\ got' = [got EXCEPT ![c] = @ + 1]
    /\ cpc' = [cpc EXCEPT ![c] =
                   IF find[c] /\ ~Head(pipe[c]).last THEN "reading" ELSE "ready"]
    /\ UNCHANGED <<serverVars, link, rfd, req, find>>

\* the process is gone: its ends of both pipes are closed
ClientLeaves(c, how) ==
    /\ cpc' = [cpc EXCEPT ![c] = how]
    /\ pipe' = [pipe EXCEPT ![c] = <<>>]
    /\ fifo' = FifoWithout(c)
    /\ UNCHANGED <<srv, run, name, cur, left, idx, starts, served,
                   link, rfd, req, find, got>>

\* database_close (client_ending).  A user may also leave without any request.
ClientEnding(c) ==
    /\ cpc[c] = "ready" /\ (req[c] > 0 \/ "idleQuit" \in Faults)
    /\ ClientLeaves(c, "gone")

-----------------------------------------------------------------------------
(* The environment *)

ClientCrash(c) ==
    /\ "clientCrash" \in Faults
    /\ cpc[c] \in Attached \cup {"copen"}
    /\ ClientLeaves(c, "killed")

ServerCrash ==
    /\ "serverCrash" \in Faults
    /\ srv \notin {"off", "done", "killed"}
    /\ srv' = "killed"
    /\ UNCHANGED <<run, name, fifo, cur, left, idx, starts, served, clientVars>>

\* catch_signals, when the server is not blocked or not yet
SignalFlag ==
    /\ "signal" \in Faults
    /\ srv \notin {"off", "done", "killed"} /\ run
    /\ run' = FALSE
    /\ UNCHANGED <<srv, name, fifo, cur, left, idx, starts, served, clientVars>>

\* Slip: process_command goes on after start_resp_to_client failed.
SignalIgnored ==
    /\ "signal" \in Faults
    /\ srv = "respOpen" /\ srv' = "exec" /\ run' = FALSE
    /\ UNCHANGED <<name, fifo, cur, left, idx, starts, served, clientVars>>

\* the handler runs and the blocked call fails with EINTR (sa_flags = 0).
\* server_starting exits at once; the failed reopen leaves no descriptor to
\* close; a failed send leaves the search loop with its match in resp.
SignalInterrupt ==
    /\ "signal" \in Faults
    /\ \/ srv = "open" /\ srv' = "done"
       \/ srv = "reopen" /\ srv' = "unlink"
       \/ srv \in {"read", "read2"} /\ fifo = <<>> /\ Writers # {} /\ srv' = "loop"
       \/ srv = "respOpen" /\ srv' = "loop"
       \/ /\ HasReader(cur.c) /\ Full(cur.c)
          /\ \/ srv = "hits" /\ left > 0 /\ srv' = "resend"
             \/ srv \in {"last", "resend"} /\ srv' = "loop"
    /\ run' = FALSE
    /\ UNCHANGED <<name, fifo, cur, left, idx, starts, served, clientVars>>

-----------------------------------------------------------------------------
ServerRuns ==
    \/ ServerMkfifo \/ ServerLoop \/ ServerRead \/ ServerEof
    \/ ServerClose \/ ServerReopen \/ ServerGiveUp \/ ServerOpenResp \/ ServerExec
    \/ ServerSendHit \/ ServerNoMore \/ ServerSendLast \/ ServerResend
    \/ ServerSigpipe \/ ServerEnding \/ ServerEnd

\* what a client does once it is inside a call; the rest is up to its user
ClientCall(c) == ClientMkfifo(c) \/ ClientOpenResp(c) \/ ClientRead(c)

ClientStep(c) ==
    \/ ClientNoServer(c) \/ ClientOpen(c) \/ ClientSend(c) \/ ClientSigpipe(c)
    \/ ClientCall(c) \/ ClientEnding(c) \/ ClientCrash(c)

Next == ServerUnlink \/ ServerRuns \/ ServerCrash \/ SignalFlag \/ SignalInterrupt
        \/ \E c \in Clients : ClientStep(c)

Spec == Init /\ [][Next]_vars

\* The scheduler runs every process that is not blocked.  Nothing makes a user
\* start a client, ask or leave, or an administrator start the server again.
FairSpec == Spec /\ WF_vars(ServerRuns) /\ \A c \in Clients : WF_vars(ClientCall(c))

-----------------------------------------------------------------------------
(* Properties *)

TypeOK ==
    /\ srv \in ServerPcs /\ run \in BOOLEAN /\ name \in BOOLEAN
    /\ fifo \in Seq(Request) /\ cur \in Request
    /\ left \in Nat /\ idx \in Nat /\ starts \in Nat
    /\ cpc \in [Clients -> ClientPcs]
    /\ link \in [Clients -> {"none", "cur", "old"}]
    /\ rfd \in [Clients -> BOOLEAN]
    /\ pipe \in [Clients -> Seq(Response)]
    /\ req \in [Clients -> Nat] /\ find \in [Clients -> BOOLEAN]
    /\ got \in [Clients -> Nat] /\ served \in [Clients -> Nat]

\* the server has read a request and not yet sent the end of its answer
Working == {"cmd", "respOpen"} \cup Sending

Queued(c)   == \E k \in DOMAIN fifo : fifo[k].c = c
InWork(c)   == srv \in Working /\ cur.c = c
Answered(c) == pipe[c] # <<>> /\ pipe[c][Len(pipe[c])].last

\* No request is lost or duplicated: while the server runs unsignalled, the
\* request of a client inside a call is in exactly one place - in the server
\* pipe, once; in the server's hands; or answered, the end of the answer in the
\* client's pipe.  (send_mess_to_server, read_request_from_client,
\* process_command; closing and reopening the pipe must not lose any.)
RequestAccounted ==
    \A c \in Clients :
        (cpc[c] \in Waiting /\ link[c] = "cur" /\ run /\ srv \in Reading \cup {"closed"})
        => \/ Queued(c) /\ ~InWork(c) /\ ~Answered(c)
           \/ ~Queued(c) /\ InWork(c) /\ ~Answered(c)
           \/ ~Queued(c) /\ ~InWork(c) /\ Answered(c)

\* What a client reads answers its current request, in the order it was sent
\* and without a gap, and nothing follows the end of an answer: one pipe serves
\* all of a client's requests, so a stray response would answer the next one.
AnswerInOrder ==
    \A c \in Clients : \A k \in DOMAIN pipe[c] :
        /\ cpc[c] \in Waiting
        /\ pipe[c][k].n = req[c]
        /\ pipe[c][k].i = got[c] + k
        /\ pipe[c][k].last => k = Len(pipe[c])

\* Unless a signal or a crash ends it, the server stops for two reasons only.  It
\* finds its pipe ended twice in a row and gives up (pipe_imp.c:66-85): then a
\* client of this pipe was killed or left without ever asking, and no client
\* that asks can bring this about, whenever it opens, asks and leaves.  And
\* SIGPIPE kills it in the middle of an answer: then the client it answers was
\* killed, and has not merely left.
StopsForAReason ==
    /\ srv = "read2" /\ fifo = <<>> /\ Writers = {} =>
           \E c \in Clients : link[c] = "cur" /\ (cpc[c] = "killed" \/ (cpc[c] = "gone" /\ req[c] = 0))
    /\ srv \in {"hits", "last", "resend"} /\ ~HasReader(cur.c) => cpc[cur.c] = "killed"

\* where a client of the abstract service is
PhaseOf == [c \in Clients |->
    CASE cpc[c] \in {"off", "copen", "mk"} -> "new"
      [] cpc[c] = "ready" -> "idle"
      [] cpc[c] \in Waiting -> "busy"
      [] OTHER -> "left"]

\* The transport implements the abstract service.
Service == INSTANCE CdService WITH phase <- PhaseOf, calls <- req, done <- served
ServiceSpec == Service!SSpec

\* A client inside a call gets its answer, and one that waits to be let in gets
\* in, without any other client's help.
CallsReturn  == \A c \in Clients : cpc[c] \in Waiting ~> cpc[c] = "ready"
ClientsEnter == \A c \in Clients : cpc[c] = "copen" ~> cpc[c] # "copen"

\* The inductive invariant behind RequestAccounted, AnswerInOrder and
\* ServiceSpec: where the one request of a client is, what its pipe holds then,
\* and that the server and the client agree on which request it is.
Expects(c) == cpc[c] \in Waiting \cup {"killed"}   \* the client sent a request

\* a request not yet carried out
Pending(r) ==
    /\ Expects(r.c) /\ r.n = req[r.c] /\ served[r.c] + 1 = req[r.c]
    /\ cpc[r.c] \in Waiting =>
          /\ r.find = find[r.c] /\ pipe[r.c] = <<>> /\ got[r.c] = 0 /\ link[r.c] # "none"

FifoInv ==
    /\ \A k \in 1..Len(fifo) : Pending(fifo[k])
    /\ \A j, k \in 1..Len(fifo) : fifo[j].c = fifo[k].c => j = k
    /\ srv \in Working => \A k \in 1..Len(fifo) : fifo[k].c # cur.c

WorkInv ==
    /\ srv \in {"cmd", "respOpen", "exec"} => Pending(cur)
    /\ srv = "exec" => cpc[cur.c] = "killed" \/ HasReader(cur.c)
    /\ srv \in {"hits", "last", "resend"} =>
          /\ Expects(cur.c) /\ cur.n = req[cur.c] /\ served[cur.c] = req[cur.c]
          /\ cpc[cur.c] \in Waiting =>
                /\ rfd[cur.c] /\ cur.find = find[cur.c]
                /\ idx = got[cur.c] + Len(pipe[cur.c]) + 1
                /\ \A k \in 1..Len(pipe[cur.c]) : ~pipe[cur.c][k].last
                /\ ~cur.find => srv = "last" /\ pipe[cur.c] = <<>>

ClientOk(c) ==
    /\ served[c] <= req[c] /\ req[c] <= served[c] + 1
    /\ cpc[c] \notin Waiting => pipe[c] = <<>>
    /\ cpc[c] \in {"off", "copen", "mk", "ready"} => served[c] = req[c]
    /\ cpc[c] \in {"off", "copen", "mk", "ropen"} => ~rfd[c]
    /\ cpc[c] = "reading" => rfd[c]
    /\ pipe[c] # <<>> => served[c] = req[c] /\ rfd[c]
    /\ \A k \in 1..Len(pipe[c]) :
          /\ pipe[c][k].n = req[c] /\ pipe[c][k].i = got[c] + k
          /\ pipe[c][k].last => k = Len(pipe[c])
          /\ ~find[c] => pipe[c][k].last

ClientInv == \A c \in Clients : ClientOk(c)

\* every request of a client inside a call is somewhere
PlaceOk(c) ==
    (c \in Writers /\ cpc[c] \in Waiting /\ run /\ srv \in Reading \cup {"closed"})
    => Queued(c) \/ InWork(c) \/ Answered(c)

PlaceInv ==
    /\ srv \in {"open", "reopen"} => Writers \cup Blocked = {}
    /\ srv = "resend" => ~run
    /\ \A c \in Clients : PlaceOk(c)

IInv == TypeOK /\ FifoInv /\ WorkInv /\ ClientInv /\ PlaceInv
=============================================================================

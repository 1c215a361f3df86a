------------------------------ MODULE SelectServer ------------------------------
(***************************************************************************)
(* chapter14/server5.c: one process serves all its clients (client3.c),    *)
(* with select.  A connection is ready when it holds a byte, or when the   *)
(* client has closed its end; then FIONREAD says 0.  The server's own      *)
(* socket comes first in the order of descriptors, and accept takes the    *)
(* lowest descriptor that is free.                                         *)
(***************************************************************************)
EXTENDS Naturals, Sequences, FiniteSets, FiniteSetsExt

CONSTANTS
    Visitors,   \* clients
    MaxVisits   \* bound: connections made

ASSUME SelectAssumption ==
    IsFiniteSet(Visitors) /\ "noOne" \notin Visitors /\ MaxVisits \in Nat

Listener == 0
Fds == 1..Cardinality(Visitors)

VARIABLES
    scan,       \* the line server5.c is at
    readfds,    \* the set of descriptors to wait for
    testfds,    \* those found ready and not yet looked at in this turn
    ch,         \* the byte read last
    backlog,    \* connections not yet accepted
    conn,       \* who is at the other end of each descriptor, or NoOne
    visitor,    \* the line each client is at
    up, down,   \* bytes from and to each client
    visits

selectVars == <<scan, readfds, testfds, ch, backlog, conn, visitor, up, down, visits>>

NoOne == "noOne"

SelectInit ==
    /\ scan = "select" /\ readfds = {Listener} /\ testfds = {} /\ ch = NoOne
    /\ backlog = << >> /\ conn = [f \in Fds |-> NoOne]
    /\ visitor = [v \in Visitors |-> "out"]
    /\ up = [v \in Visitors |-> << >>] /\ down = [v \in Visitors |-> << >>]
    /\ visits = 0

\* a client's end is closed while its connection is still held
Hung(v) == visitor[v] = "closed"

ReadyFd(f) ==
    IF f = Listener THEN backlog # << >>
    ELSE conn[f] # NoOne /\ (up[conn[f]] # << >> \/ Hung(conn[f]))

\* the descriptor the loop over FD_ISSET comes to next
Fd == Min(testfds)

-----------------------------------------------------------------------------
(* server5.c *)

Select ==
    /\ scan = "select" /\ \E f \in readfds : ReadyFd(f)
    /\ testfds' = {f \in readfds : ReadyFd(f)} /\ scan' = "look"
    /\ UNCHANGED <<readfds, ch, backlog, conn, visitor, up, down, visits>>

\* after the last descriptor
Again(fds) == IF fds = {} THEN "select" ELSE "look"

Accept ==
    /\ scan = "look" /\ Fd = Listener
    /\ LET f == Min({g \in Fds : conn[g] = NoOne})
       IN conn' = [conn EXCEPT ![f] = Head(backlog)] /\ readfds' = readfds \cup {f}
    /\ backlog' = Tail(backlog)
    /\ testfds' = testfds \ {Fd} /\ scan' = Again(testfds')
    /\ UNCHANGED <<ch, visitor, up, down, visits>>

\* Slip: the descriptor is closed but stays in the set.
HangUpKeepsFd ==
    /\ scan = "look" /\ Fd # Listener /\ up[conn[Fd]] = << >>
    /\ visitor' = [visitor EXCEPT ![conn[Fd]] = "out"]
    /\ down' = [down EXCEPT ![conn[Fd]] = << >>]
    /\ conn' = [conn EXCEPT ![Fd] = NoOne] /\ UNCHANGED readfds
    /\ testfds' = testfds \ {Fd} /\ scan' = Again(testfds')
    /\ UNCHANGED <<ch, backlog, up, visits>>

\* nread = 0: the client has gone away
HangUp ==
    /\ scan = "look" /\ Fd # Listener /\ up[conn[Fd]] = << >>
    /\ visitor' = [visitor EXCEPT ![conn[Fd]] = "out"]
    /\ down' = [down EXCEPT ![conn[Fd]] = << >>]
    /\ conn' = [conn EXCEPT ![Fd] = NoOne] /\ readfds' = readfds \ {Fd}
    /\ testfds' = testfds \ {Fd} /\ scan' = Again(testfds')
    /\ UNCHANGED <<ch, backlog, up, visits>>

ReadByte ==
    /\ scan = "look" /\ Fd # Listener /\ up[conn[Fd]] # << >>
    /\ ch' = Head(up[conn[Fd]]) /\ up' = [up EXCEPT ![conn[Fd]] = Tail(@)]
    /\ scan' = "write"
    /\ UNCHANGED <<readfds, testfds, backlog, conn, visitor, down, visits>>

\* after five seconds
WriteByte ==
    /\ scan = "write"
    /\ down' = [down EXCEPT ![conn[Fd]] = Append(@, ch)] /\ ch' = NoOne
    /\ testfds' = testfds \ {Fd} /\ scan' = Again(testfds')
    /\ UNCHANGED <<readfds, backlog, conn, visitor, up, visits>>

-----------------------------------------------------------------------------
(* client3.c *)

\* the kernel completes the connection before it is accepted
ConnectTo(v) ==
    /\ visitor[v] = "out" /\ visits < MaxVisits /\ visits' = visits + 1
    /\ visitor' = [visitor EXCEPT ![v] = "write"] /\ backlog' = Append(backlog, v)
    /\ UNCHANGED <<scan, readfds, testfds, ch, conn, up, down>>

VisitorWrites(v) ==
    /\ visitor[v] = "write"
    /\ visitor' = [visitor EXCEPT ![v] = "read"] /\ up' = [up EXCEPT ![v] = Append(@, v)]
    /\ UNCHANGED <<scan, readfds, testfds, ch, backlog, conn, down, visits>>

\* the answer, and close
VisitorReads(v) ==
    /\ visitor[v] = "read" /\ down[v] # << >>
    /\ visitor' = [visitor EXCEPT ![v] = "closed"] /\ down' = [down EXCEPT ![v] = Tail(@)]
    /\ UNCHANGED <<scan, readfds, testfds, ch, backlog, conn, up, visits>>

VisitorKilled(v) ==
    /\ visitor[v] \in {"write", "read"}
    /\ visitor' = [visitor EXCEPT ![v] = "closed"]
    /\ UNCHANGED <<scan, readfds, testfds, ch, backlog, conn, up, down, visits>>

-----------------------------------------------------------------------------
SelectRuns == Select \/ Accept \/ HangUp \/ ReadByte \/ WriteByte
VisitorRuns(v) == VisitorWrites(v) \/ VisitorReads(v)
SelectNext ==
    \/ SelectRuns
    \/ \E v \in Visitors : ConnectTo(v) \/ VisitorRuns(v) \/ VisitorKilled(v)

SelectTypes ==
    /\ scan \in {"select", "look", "write"}
    /\ readfds \subseteq Fds \cup {Listener} /\ testfds \subseteq readfds
    /\ ch \in Visitors \cup {NoOne} /\ backlog \in Seq(Visitors)
    /\ conn \in [Fds -> Visitors \cup {NoOne}]
    /\ visitor \in [Visitors -> {"out", "write", "read", "closed"}]
    /\ visits \in 0..MaxVisits

\* The set holds exactly the connections that are open; what was found ready still is
\* when the loop comes to it, however long the clients before it took; the byte in hand
\* goes back to where it came from; and a client reads its own answer.
ReadyStaysReady ==
    /\ readfds = {Listener} \cup {f \in Fds : conn[f] # NoOne}
    /\ \A f \in testfds : ReadyFd(f) \/ (scan = "write" /\ f = Fd)
    /\ scan = "write" => ch = conn[Fd]
    /\ \A v \in Visitors : \A i \in DOMAIN down[v] : down[v][i] = v
    /\ \A f, g \in Fds : conn[f] = conn[g] /\ conn[f] # NoOne => f = g

\* Every client is answered, one after another; a killed one is found out.
VisitorsServed == \A v \in Visitors : []<>(visitor[v] = "out")
=============================================================================

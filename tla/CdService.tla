------------------------------- MODULE CdService -------------------------------
(***************************************************************************)
(* What the catalogue service promises its clients, whatever carries the   *)
(* messages (chapter12/app/clientif.c over pipe_imp.c): a client makes one *)
(* call at a time, the server carries a call out at most once, and a call  *)
(* returns only after it was carried out.  A client may leave at any       *)
(* moment, and its last call may still be carried out after that.          *)
(***************************************************************************)
EXTENDS Naturals

CONSTANT Clients

VARIABLES
    phase,    \* new, idle, busy (inside a call) or left
    calls,    \* number of calls each client made
    done      \* number of the last of them the server carried out

svars == <<phase, calls, done>>

SInit ==
    /\ phase = [c \in Clients |-> "new"]
    /\ calls = [c \in Clients |-> 0]
    /\ done = [c \in Clients |-> 0]

Enter(c) ==
    /\ phase[c] = "new"
    /\ phase' = [phase EXCEPT ![c] = "idle"]
    /\ UNCHANGED <<calls, done>>

Ask(c) ==
    /\ phase[c] = "idle"
    /\ phase' = [phase EXCEPT ![c] = "busy"]
    /\ calls' = [calls EXCEPT ![c] = @ + 1]
    /\ UNCHANGED done

Perform(c) ==
    /\ done[c] + 1 = calls[c]
    /\ done' = [done EXCEPT ![c] = calls[c]]
    /\ UNCHANGED <<phase, calls>>

Return(c) ==
    /\ phase[c] = "busy" /\ done[c] = calls[c]
    /\ phase' = [phase EXCEPT ![c] = "idle"]
    /\ UNCHANGED <<calls, done>>

Leave(c) ==
    /\ phase[c] # "left"
    /\ phase' = [phase EXCEPT ![c] = "left"]
    /\ UNCHANGED <<calls, done>>

SNext == \E c \in Clients : Enter(c) \/ Ask(c) \/ Perform(c) \/ Return(c) \/ Leave(c)

SSpec == SInit /\ [][SNext]_svars
=============================================================================

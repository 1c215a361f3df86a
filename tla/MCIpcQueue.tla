------------------------------ MODULE MCIpcQueue ------------------------------
(* IpcQueue for TLC: one client may get the pid of another *)
EXTENDS IpcQueue

CONSTANTS first, second, other

MCpid == [c \in Clients |-> IF c = other THEN "q" ELSE "p"]
MCMaxReq == [c \in Clients |-> IF c = first THEN 2 ELSE 1]
=============================================================================

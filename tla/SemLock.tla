-------------------------------- MODULE SemLock --------------------------------
(***************************************************************************)
(* chapter13/sem1.c: processes that print in turn, one of which, the       *)
(* setter, was started with a parameter: it gives the semaphore its value, *)
(* and removes it at the end.  Every operation has SEM_UNDO, so the kernel *)
(* takes back at a process's exit what its operations added up to.         *)
(***************************************************************************)
EXTENDS Naturals, Integers, FiniteSets

CONSTANTS
    SemProcs,   \* processes
    Setter,     \* the one with a parameter
    Turns,      \* turns of a process (10 in sem1.c)
    MaxKills    \* bound: processes killed, each started once more

ASSUME SemAssumption ==
    /\ IsFiniteSet(SemProcs) /\ Setter \in SemProcs
    /\ Turns \in Nat \ {0} /\ MaxKills \in Nat

VARIABLES
    semId,      \* the semaphore with key 1234: a number, 0 if there is none
    semValue,   \* its value
    semAdj,     \* what the exit of each process will add to it
    turn,       \* the line each process is at
    own,        \* sem_id of each
    turns,      \* i: turns done
    kills,
    barged      \* the value was set while a process was inside (history)

semVars == <<semId, semValue, semAdj, turn, own, turns, kills, barged>>

SemInit ==
    /\ semId = 0 /\ semValue = 0
    /\ semAdj = [p \in SemProcs |-> 0]
    /\ turn = [p \in SemProcs |-> "out"]
    /\ own = [p \in SemProcs |-> 0] /\ turns = [p \in SemProcs |-> 0]
    /\ kills = 0 /\ barged = FALSE

\* whether p's semaphore is there; operations on a removed one fail
HasSem(p) == own[p] = semId /\ semId > 0

Inside == {p \in SemProcs : turn[p] = "inside" /\ HasSem(p)}

\* the end of p: its adjustment is applied, no lower than 0
Leave(p, line) ==
    /\ turn' = [turn EXCEPT ![p] = line]
    /\ semAdj' = [semAdj EXCEPT ![p] = 0]
    /\ semValue' = IF ~HasSem(p) THEN semValue
                   ELSE IF semValue + semAdj[p] < 0 THEN 0 ELSE semValue + semAdj[p]

\* semget makes the semaphore if there is none, with value 0
GetSem(p) ==
    /\ turn[p] = "out"
    /\ IF semId = 0
       THEN /\ semId' = CHOOSE n \in 1..(Cardinality(SemProcs) + 1) : \A q \in SemProcs : own[q] # n
            /\ semValue' = 0
       ELSE UNCHANGED <<semId, semValue>>
    /\ own' = [own EXCEPT ![p] = semId']
    /\ turn' = [turn EXCEPT ![p] = IF p = Setter THEN "set" ELSE "wait"]
    /\ UNCHANGED <<semAdj, turns, kills, barged>>

\* set_semvalue; SETVAL also clears the adjustments of all processes
SetValue ==
    /\ turn[Setter] = "set"
    /\ IF HasSem(Setter)
       THEN /\ semValue' = 1 /\ semAdj' = [p \in SemProcs |-> 0]
            /\ turn' = [turn EXCEPT ![Setter] = "wait"]
            /\ barged' = (barged \/ Inside # {})
       ELSE Leave(Setter, "gone") /\ UNCHANGED barged
    /\ UNCHANGED <<semId, own, turns, kills>>

\* semaphore_p
TakeSem(p) ==
    /\ turn[p] = "wait" /\ HasSem(p) /\ semValue > 0
    /\ semValue' = semValue - 1 /\ semAdj' = [semAdj EXCEPT ![p] = @ + 1]
    /\ turn' = [turn EXCEPT ![p] = "inside"]
    /\ UNCHANGED <<semId, own, turns, kills, barged>>

\* Slip: semaphore_v without SEM_UNDO.
GiveSemKept(p) ==
    /\ turn[p] = "inside" /\ HasSem(p)
    /\ semValue' = semValue + 1 /\ UNCHANGED semAdj
    /\ turns' = [turns EXCEPT ![p] = @ + 1]
    /\ turn' = [turn EXCEPT ![p] = IF turns'[p] < Turns THEN "wait" ELSE "finished"]
    /\ UNCHANGED <<semId, own, kills, barged>>

\* semaphore_v
GiveSem(p) ==
    /\ turn[p] = "inside" /\ HasSem(p)
    /\ semValue' = semValue + 1 /\ semAdj' = [semAdj EXCEPT ![p] = @ - 1]
    /\ turns' = [turns EXCEPT ![p] = @ + 1]
    /\ turn' = [turn EXCEPT ![p] = IF turns'[p] < Turns THEN "wait" ELSE "finished"]
    /\ UNCHANGED <<semId, own, kills, barged>>

\* semop on a semaphore that was removed
SemFails(p) ==
    /\ turn[p] \in {"wait", "inside"} /\ ~HasSem(p)
    /\ Leave(p, "gone")
    /\ UNCHANGED <<semId, own, turns, kills, barged>>

\* del_semvalue, by the setter alone
Finish(p) ==
    /\ turn[p] = "finished"
    /\ IF p = Setter /\ HasSem(p)
       THEN /\ semId' = 0 /\ semValue' = 0
            /\ semAdj' = [q \in SemProcs |-> 0] /\ turn' = [turn EXCEPT ![p] = "gone"]
       ELSE Leave(p, "gone") /\ UNCHANGED semId
    /\ UNCHANGED <<own, turns, kills, barged>>

\* killed, and started once more
KillSem(p) ==
    /\ turn[p] \notin {"out", "gone"} /\ kills < MaxKills
    /\ Leave(p, "out") /\ kills' = kills + 1 /\ turns' = [turns EXCEPT ![p] = 0]
    /\ UNCHANGED <<semId, own, barged>>

-----------------------------------------------------------------------------
SemRuns(p) == TakeSem(p) \/ GiveSem(p) \/ SemFails(p) \/ Finish(p)
SemNext ==
    \/ SetValue
    \/ \E p \in SemProcs : GetSem(p) \/ SemRuns(p) \/ KillSem(p)

SemTypes ==
    /\ semId \in 0..(Cardinality(SemProcs) + 1) /\ semValue \in 0..Cardinality(SemProcs)
    /\ semAdj \in [SemProcs -> -Turns..1]
    /\ turn \in [SemProcs -> {"out", "set", "wait", "inside", "finished", "gone"}]
    /\ turns \in [SemProcs -> 0..Turns] /\ kills \in 0..MaxKills

\* One process is inside at a time, and what is free and who is inside add up to at
\* most one, through kills inside and outside the section and a setter that comes
\* last, or comes back, as long as the value is not set while someone is inside.
SemExclusive ==
    ~barged => semValue + Cardinality(Inside) <= 1

\* p waits, and if its semaphore is there it has been given its value
SemWaits(p) ==
    turn[p] = "wait" /\ ~barged /\ (HasSem(p) => semValue + Cardinality(Inside) = 1)

\* A process that waits for a semaphore with a value gets in or is told that it is gone.
SemServed == \A p \in SemProcs : []<>~SemWaits(p)
=============================================================================

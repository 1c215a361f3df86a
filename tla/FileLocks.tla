------------------------------- MODULE FileLocks -------------------------------
(***************************************************************************)
(* chapter07: lock2.c, which takes a lock by creating a file, and lock3.c  *)
(* and lock5.c, which lock regions of a file with fcntl.  The regions the  *)
(* programs name cut the file into parts: bytes 10 to 14, 16 to 20, 21 to  *)
(* 29 and 40 to 49.                                                        *)
(***************************************************************************)
EXTENDS Naturals, Sequences, FiniteSets

CONSTANTS
    Lockers,    \* processes
    Tries,      \* tries of lock2.c (10)
    MaxDead     \* bound: processes killed

Parts == {"10-14", "16-20", "21-29", "40-49"}

\* the calls of fcntl, in order; lock3.c then holds what it has for a minute
Calls == [
    lock3 |-> << [kind |-> "read",  parts |-> {"10-14", "16-20", "21-29"}, wait |-> FALSE],
                 [kind |-> "write", parts |-> {"40-49"}, wait |-> FALSE] >>,
    lock5 |-> << [kind |-> "read",  parts |-> {"10-14"}, wait |-> FALSE],
                 [kind |-> "none",  parts |-> {"10-14"}, wait |-> FALSE],
                 [kind |-> "none",  parts |-> Parts,     wait |-> FALSE],
                 [kind |-> "write", parts |-> {"16-20"}, wait |-> FALSE],
                 [kind |-> "read",  parts |-> {"40-49"}, wait |-> FALSE],
                 [kind |-> "write", parts |-> {"16-20"}, wait |-> TRUE] >>]

ASSUME LocksAssumption == "none" \notin Lockers /\ Tries \in Nat

VARIABLES
    lockFile,   \* lock2.c: the process whose creation of the lock file stands, or "none"
    region,     \* what each process holds of each part: "none", "read" or "write"
    locker,     \* each process: the program, the line it is at, calls or tries done
    dead        \* processes killed

lockVars == <<lockFile, region, locker, dead>>

Unlocked == [r \in Parts |-> "none"]

LocksInit ==
    /\ lockFile = "none" /\ region = [p \in Lockers |-> Unlocked]
    /\ locker = [p \in Lockers |-> [prog |-> "none", at |-> "out", n |-> 0]]
    /\ dead = {}

Begin(p) ==
    /\ locker[p].at = "out"
    /\ \E prog \in {"lock2", "lock3", "lock5"} :
         locker' = [locker EXCEPT ![p] = [prog |-> prog, at |-> "run", n |-> 0]]
    /\ UNCHANGED <<lockFile, region, dead>>

-----------------------------------------------------------------------------
(* lock2.c *)

\* Slip: without O_EXCL the open succeeds on a file that is there.
CreateOrOpen(p) ==
    /\ locker[p].prog = "lock2" /\ locker[p].at = "run" /\ locker[p].n < Tries
    /\ lockFile' = p
    /\ locker' = [locker EXCEPT ![p].n = @ + 1, ![p].at = "region"]
    /\ UNCHANGED <<region, dead>>

\* open with O_CREAT | O_EXCL: the critical region, or "Lock already present"
Create(p) ==
    /\ locker[p].prog = "lock2" /\ locker[p].at = "run" /\ locker[p].n < Tries
    /\ IF lockFile = "none"
       THEN lockFile' = p /\ locker' = [locker EXCEPT ![p].n = @ + 1, ![p].at = "region"]
       ELSE locker' = [locker EXCEPT ![p].n = @ + 1] /\ UNCHANGED lockFile
    /\ UNCHANGED <<region, dead>>

\* unlink, of whatever has the name
Remove(p) ==
    /\ locker[p].prog = "lock2" /\ locker[p].at = "region"
    /\ lockFile' = "none" /\ locker' = [locker EXCEPT ![p].at = "run"]
    /\ UNCHANGED <<region, dead>>

-----------------------------------------------------------------------------
(* lock3.c, lock5.c *)

Free(p, c) ==
    \A q \in Lockers \ {p}, r \in c.parts :
        \/ c.kind = "none" \/ region[q][r] = "none"
        \/ c.kind = "read" /\ region[q][r] = "read"

\* the next call; without F_SETLKW a failure is only reported
LockRegion(p) ==
    /\ locker[p].prog \in {"lock3", "lock5"} /\ locker[p].at = "run"
    /\ locker[p].n < Len(Calls[locker[p].prog])
    /\ LET c == Calls[locker[p].prog][locker[p].n + 1]
       IN /\ Free(p, c) \/ ~c.wait
          /\ region' = IF Free(p, c)
                       THEN [region EXCEPT ![p] = [r \in Parts |-> IF r \in c.parts THEN c.kind ELSE @[r]]]
                       ELSE region
    /\ locker' = [locker EXCEPT ![p].n = @ + 1]
    /\ UNCHANGED <<lockFile, dead>>

\* the end of the program, closing the file
End(p) ==
    /\ locker[p].at = "run"
    /\ locker[p].n = IF locker[p].prog = "lock2" THEN Tries ELSE Len(Calls[locker[p].prog])
    /\ locker' = [locker EXCEPT ![p].at = "gone"] /\ region' = [region EXCEPT ![p] = Unlocked]
    /\ UNCHANGED <<lockFile, dead>>

\* the locks of a killed process go, its lock file stays
KillLocker(p) ==
    /\ locker[p].at \in {"run", "region"} /\ Cardinality(dead) < MaxDead
    /\ dead' = dead \cup {p}
    /\ locker' = [locker EXCEPT ![p].at = "gone"] /\ region' = [region EXCEPT ![p] = Unlocked]
    /\ UNCHANGED lockFile

-----------------------------------------------------------------------------
LockerRuns(p) == Create(p) \/ Remove(p) \/ LockRegion(p) \/ End(p)
LocksNext == \E p \in Lockers : Begin(p) \/ LockerRuns(p) \/ KillLocker(p)

LocksTypes ==
    /\ lockFile \in Lockers \cup {"none"} /\ dead \subseteq Lockers
    /\ region \in [Lockers -> [Parts -> {"none", "read", "write"}]]
    /\ \A p \in Lockers : locker[p].at \in {"out", "run", "region", "gone"} /\ locker[p].n \in 0..Tries \cup 0..6

\* One process is between the creation and the removal of the lock file; the file is
\* there without one only if its process was killed; a region locked for writing is
\* nobody else's; a program that is not running holds nothing.
LocksExclusive ==
    /\ \A p \in Lockers : locker[p].at = "region" <=> lockFile = p /\ p \notin dead
    /\ lockFile = "none" \/ lockFile \in dead \/ locker[lockFile].at = "region"
    /\ \A p, q \in Lockers, r \in Parts : region[p][r] = "write" /\ p # q => region[q][r] = "none"
    /\ \A p \in Lockers : locker[p].at \in {"out", "gone"} => region[p] = Unlocked

\* Whoever runs ends: lock2.c gives up after its tries, and of processes that wait for
\* each other's regions one always goes on.
LockersEnd == \A p \in Lockers : []<>(locker[p].at \in {"out", "gone"})
=============================================================================

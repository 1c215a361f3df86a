------------------------------- MODULE MCPrograms ------------------------------
(* The small programs of the book, checked in one run: each behaviour is that   *)
(* of one of them.  Their modules are independent of each other.                *)
EXTENDS FifoUpper, SemLock, ShmHandoff, MutexWork, SemWork, SelectServer, FileLocks,
        Radimo, Iomap, ManyThreads, MsgTexts, FifoBytes, CursesMenu, TurnTaking

VARIABLE program   \* the program that runs

vars == <<program, fifoVars, semVars, shmVars, mutexVars, semWorkVars, selectVars,
          lockVars, diskVars, mapVars, threadVars, msgVars, fifoBytesVars, menuVars, turnVars>>

Init ==
    /\ program \in {"fifo", "sem", "shm", "mutex", "semWork", "select", "locks",
                    "radimo", "iomap", "threads", "msg", "bytes", "menu", "turns"}
    /\ FifoInit /\ SemInit /\ ShmInit /\ MutexInit /\ SemWorkInit /\ SelectInit
    /\ LocksInit /\ RadimoInit /\ IomapInit /\ ThreadsInit /\ MsgInit
    /\ FifoBytesInit /\ MenuInit /\ TurnInit

Still(name, v) == IF program = name THEN TRUE ELSE UNCHANGED v

\* a step of the program called name leaves the others alone
Of(name) ==
    /\ program = name /\ UNCHANGED program
    /\ Still("fifo", fifoVars) /\ Still("sem", semVars) /\ Still("shm", shmVars)
    /\ Still("mutex", mutexVars) /\ Still("semWork", semWorkVars)
    /\ Still("select", selectVars) /\ Still("locks", lockVars)
    /\ Still("radimo", diskVars) /\ Still("iomap", mapVars)
    /\ Still("threads", threadVars) /\ Still("msg", msgVars)
    /\ Still("bytes", fifoBytesVars) /\ Still("menu", menuVars)
    /\ Still("turns", turnVars)

Next ==
    \/ Of("fifo") /\ FifoNext
    \/ Of("sem") /\ SemNext
    \/ Of("shm") /\ ShmNext
    \/ Of("mutex") /\ MutexNext
    \/ Of("semWork") /\ SemWorkNext
    \/ Of("select") /\ SelectNext
    \/ Of("locks") /\ LocksNext
    \/ Of("radimo") /\ RadimoNext
    \/ Of("iomap") /\ IomapNext
    \/ Of("threads") /\ ThreadsNext
    \/ Of("msg") /\ MsgNext
    \/ Of("bytes") /\ FifoBytesNext
    \/ Of("menu") /\ MenuNext
    \/ Of("turns") /\ TurnNext

\* what the process i of the program does by itself
Runs(i) ==
    \/ Of("fifo") /\ IF i \in FifoClients THEN FifoClientRuns(i) ELSE FifoServerRuns
    \/ Of("sem") /\ SemRuns(i)
    \/ Of("shm") /\ IF i = "a" THEN ConsumerRuns ELSE ProducerRuns
    \/ Of("semWork") /\ IF i = "a" THEN ReaderRuns ELSE CounterRuns
    \/ Of("select") /\ IF i \in Visitors THEN VisitorRuns(i) ELSE SelectRuns
    \/ Of("locks") /\ LockerRuns(i)
    \/ Of("radimo") /\ TimerFires
    \/ Of("threads") /\ IF i = "a" THEN JoinerRuns ELSE WorkersRun
    \/ Of("msg") /\ IF i \in Senders THEN SenderRuns(i) ELSE ReceiverRuns
    \/ Of("bytes") /\ IF i = "c" THEN TakersRun ELSE ProducerSteps(i)
    \/ Of("turns") /\ i \in {"a", "b"} /\ TurnerRuns(IF i = "a" THEN 1 ELSE 2)

\* The scheduler runs a process that is not blocked.  In thread5.c the mutex is free for a
\* second at a time while the other side sleeps: strong fairness.  A timer that is set
\* fires.  Nobody has to start, type, flush or load a module: ReadLine and TypeLine, where
\* fgets returns, are not among the steps that are fair.
Fairness ==
    /\ \A i \in {"a", "b", "c"} : WF_vars(Runs(i))
    /\ SF_vars(Of("mutex") /\ MainRuns) /\ SF_vars(Of("mutex") /\ ThreadRuns)

Spec == Init /\ [][Next]_vars
FairSpec == Spec /\ Fairness

-----------------------------------------------------------------------------
\* The types of the modules.
ProgramTypes ==
    /\ FifoTypes /\ SemTypes /\ ShmTypes /\ MutexTypes /\ SemWorkTypes /\ SelectTypes
    /\ LocksTypes /\ RadimoTypes /\ IomapTypes /\ ThreadsTypes /\ MsgTypes
    /\ FifoBytesTypes /\ MenuTypes /\ TurnTypes

\* What one process hands to another, through a FIFO (client.c, fifo3.c), shared memory (shm1.c),
\* a message queue (msg1.c), a work area (thread5.c, thread4a.c), an argument (thread9.c),
\* a turn (thread3.c) or a socket (server5.c), arrives in order, once, and at the right one.
HandedOver ==
    /\ AnswersInSequence /\ TextsHandedOver /\ TextsAccounted /\ BytesArrive /\ LinesCounted /\ EndIsPosted
    /\ NumbersGiven /\ ReadyStaysReady /\ TurnsAlternate

\* What a semaphore (sem1.c), a lock (lock2.c, lock5.c), a use count (radimo.c), a busy
\* test (iomap.c) or the tests before a menu and a pad are read (curses.c) protect stays whole.
Protected == SemExclusive /\ LocksExclusive /\ DiskKeeps /\ OneMapping /\ MenuFits

\* Whoever waits for another process of the program is served.  Where main reads lines
\* (thread4a.c, thread5.c) it always gets back to wait for the user, if it has not ended.
Served ==
    /\ ClientsAnswered /\ SemServed /\ ConsumerEnds
    /\ []<>(program = "mutex" => LineIsTaken)
    /\ []<>(program = "semWork" => PostsTaken)
    /\ []<>(program = "threads" => ThreadsJoined) /\ []<>TurnsEnd
    /\ SendersServed /\ VisitorsServed /\ LockersEnd /\ MediumChanges
    /\ FifoEmptied
=============================================================================

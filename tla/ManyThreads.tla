------------------------------- MODULE ManyThreads ------------------------------
(***************************************************************************)
(* chapter11/thread9.c and thread9a.c: main creates threads in a loop and  *)
(* joins them in the opposite order with the same counter.  thread9.c      *)
(* gives each thread the address of the counter and sleeps a second, so    *)
(* that the thread reads it before the next is created; thread9a.c gives   *)
(* its value.  Nothing but that second orders the two.                     *)
(***************************************************************************)
EXTENDS Integers

CONSTANT NumThreads   \* NUM_THREADS

ASSUME ThreadsAssumption == NumThreads \in Nat

VARIABLES
    byAddress,        \* which program runs: thread9.c, or thread9a.c
    lots_of_threads,  \* the counter
    joiner,           \* the line main is at
    worker,           \* the line each thread is at
    my_number         \* what each thread took for its number

threadVars == <<byAddress, lots_of_threads, joiner, worker, my_number>>

Threads == 0..(NumThreads - 1)

ThreadsInit ==
    /\ byAddress = FALSE /\ lots_of_threads = 0 /\ joiner = "out"
    /\ worker = [t \in Threads |-> "none"] /\ my_number = [t \in Threads |-> -1]

-----------------------------------------------------------------------------
(* main *)

ChooseProgram ==
    /\ joiner = "out" /\ joiner' = "create" /\ byAddress' \in BOOLEAN
    /\ UNCHANGED <<lots_of_threads, worker, my_number>>

CreateThread ==
    /\ joiner = "create" /\ lots_of_threads < NumThreads /\ joiner' = "next"
    /\ worker' = [worker EXCEPT ![lots_of_threads] = "begin"]
    /\ UNCHANGED <<byAddress, lots_of_threads, my_number>>

\* after the sleep, if there is one
NextThread ==
    /\ joiner = "next" /\ joiner' = "create" /\ lots_of_threads' = lots_of_threads + 1
    /\ UNCHANGED <<byAddress, worker, my_number>>

WaitForThreads ==
    /\ joiner = "create" /\ lots_of_threads = NumThreads
    /\ joiner' = "join" /\ lots_of_threads' = NumThreads - 1
    /\ UNCHANGED <<byAddress, worker, my_number>>

\* pthread_join, and the counter goes down
JoinThread ==
    /\ joiner = "join" /\ lots_of_threads >= 0 /\ worker[lots_of_threads] = "gone"
    /\ lots_of_threads' = lots_of_threads - 1
    /\ UNCHANGED <<byAddress, joiner, worker, my_number>>

AllDone ==
    /\ joiner = "join" /\ lots_of_threads < 0 /\ joiner' = "gone"
    /\ UNCHANGED <<byAddress, lots_of_threads, worker, my_number>>

-----------------------------------------------------------------------------
(* thread_function *)

TakeNumber(t) ==
    /\ worker[t] = "begin" /\ worker' = [worker EXCEPT ![t] = "run"]
    /\ my_number' = [my_number EXCEPT ![t] = IF byAddress THEN lots_of_threads ELSE t]
    /\ UNCHANGED <<byAddress, lots_of_threads, joiner>>

SayBye(t) ==
    /\ worker[t] = "run" /\ worker' = [worker EXCEPT ![t] = "gone"]
    /\ UNCHANGED <<byAddress, lots_of_threads, joiner, my_number>>

-----------------------------------------------------------------------------
JoinerRuns  == ChooseProgram \/ CreateThread \/ NextThread \/ WaitForThreads \/ JoinThread \/ AllDone
WorkersRun  == \E t \in Threads : TakeNumber(t) \/ SayBye(t)
ThreadsNext == JoinerRuns \/ WorkersRun

ThreadsTypes ==
    /\ byAddress \in BOOLEAN /\ lots_of_threads \in -1..NumThreads
    /\ joiner \in {"out", "create", "next", "join", "gone"}
    /\ worker \in [Threads -> {"none", "begin", "run", "gone"}]
    /\ my_number \in [Threads -> -1..NumThreads]

\* However late a thread of thread9.c reads the counter, it gets a number no lower than
\* its own, also when main already counts down again: the join of a thread that has not
\* read it yet keeps main.  A thread of thread9a.c gets its own.  When main ends, no
\* thread is left.
NumbersGiven ==
    /\ \A t \in Threads : worker[t] \in {"run", "gone"} =>
           my_number[t] \in t..(IF byAddress THEN NumThreads ELSE t)
    /\ joiner = "gone" => \A t \in Threads : worker[t] = "gone"

\* Where the program gets: main picks up every thread.
ThreadsJoined == joiner = "gone"
=============================================================================

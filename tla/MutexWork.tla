------------------------------- MODULE MutexWork -------------------------------
(***************************************************************************)
(* chapter11/thread5.c: main reads lines into work_area, a thread counts   *)
(* their characters; a mutex protects work_area and time_to_exit, and each *)
(* side polls for its turn, asleep between two looks.  Lines are numbered; *)
(* the last one typed is "end".                                            *)
(***************************************************************************)
EXTENDS Naturals, Sequences

CONSTANT LastLine   \* the number of lines typed, "end" included

ASSUME LineAssumption == LastLine \in Nat \ {0}

VARIABLES
    holder,        \* work_mutex: who holds it, or "nobody"
    work_area,     \* the number of the line there, 0 if it begins with '\0'
    time_to_exit,
    mainLine, threadLine,   \* the lines the two are at
    read,          \* lines read
    counted        \* lines counted, in order

mutexVars == <<holder, work_area, time_to_exit, mainLine, threadLine, read, counted>>

MutexInit ==
    /\ holder = "nobody" /\ work_area = 0 /\ time_to_exit = FALSE
    /\ mainLine = "lock" /\ threadLine = "lock"
    /\ read = 0 /\ counted = << >>

Lock(who)   == holder = "nobody" /\ holder' = who
Unlock(who) == holder = who /\ holder' = "nobody"

-----------------------------------------------------------------------------
(* main *)

MainLock ==
    /\ mainLine = "lock" /\ Lock("main") /\ mainLine' = "read"
    /\ UNCHANGED <<work_area, time_to_exit, threadLine, read, counted>>

\* fgets returns a line that was typed; until then main keeps the mutex
ReadLine ==
    /\ mainLine = "read" /\ ~time_to_exit /\ Unlock("main")
    /\ read' = read + 1 /\ work_area' = read + 1 /\ mainLine' = "look"
    /\ UNCHANGED <<time_to_exit, threadLine, counted>>

LeaveLoop ==
    /\ mainLine = "read" /\ time_to_exit /\ Unlock("main") /\ mainLine' = "join"
    /\ UNCHANGED <<work_area, time_to_exit, threadLine, read, counted>>

\* the inner loop, until the thread has taken the line
LookForTaken ==
    /\ mainLine = "look" /\ Lock("main") /\ mainLine' = "taken"
    /\ UNCHANGED <<work_area, time_to_exit, threadLine, read, counted>>

LineTaken ==
    /\ mainLine = "taken"
    /\ IF work_area # 0 THEN Unlock("main") /\ mainLine' = "look"
                        ELSE mainLine' = "read" /\ UNCHANGED holder
    /\ UNCHANGED <<work_area, time_to_exit, threadLine, read, counted>>

\* pthread_join
Join ==
    /\ mainLine = "join" /\ threadLine = "gone" /\ mainLine' = "gone"
    /\ UNCHANGED <<holder, work_area, time_to_exit, threadLine, read, counted>>

-----------------------------------------------------------------------------
(* thread_function *)

ThreadLock ==
    /\ threadLine = "lock" /\ Lock("thread") /\ threadLine' = "test"
    /\ UNCHANGED <<work_area, time_to_exit, mainLine, read, counted>>

\* the outer loop; the first time round the area may still be empty
CountLine ==
    /\ threadLine = "test" /\ Unlock("thread")
    /\ work_area' = 0
    /\ IF work_area = LastLine
       THEN time_to_exit' = TRUE /\ threadLine' = "gone" /\ UNCHANGED counted
       ELSE counted' = Append(counted, work_area) /\ threadLine' = "relock" /\ UNCHANGED time_to_exit
    /\ UNCHANGED <<mainLine, read>>

\* the inner loop, until there is a line
ThreadRelock ==
    /\ threadLine = "relock" /\ Lock("thread") /\ threadLine' = "empty"
    /\ UNCHANGED <<work_area, time_to_exit, mainLine, read, counted>>

LineThere ==
    /\ threadLine = "empty"
    /\ IF work_area = 0 THEN Unlock("thread") /\ threadLine' = "relock"
                        ELSE threadLine' = "test" /\ UNCHANGED holder
    /\ UNCHANGED <<work_area, time_to_exit, mainLine, read, counted>>

-----------------------------------------------------------------------------
\* what main does without the user
MainRuns   == MainLock \/ LeaveLoop \/ LookForTaken \/ LineTaken \/ Join
ThreadRuns == ThreadLock \/ CountLine \/ ThreadRelock \/ LineThere
MutexNext  == ReadLine \/ MainRuns \/ ThreadRuns

MutexTypes ==
    /\ holder \in {"nobody", "main", "thread"}
    /\ {work_area, read} \subseteq 0..LastLine /\ time_to_exit \in BOOLEAN
    /\ mainLine \in {"lock", "read", "look", "taken", "join", "gone"}
    /\ threadLine \in {"lock", "test", "relock", "empty", "gone"}
    /\ counted \in Seq(0..LastLine)

\* What was counted before the first line: at most the area as it was at the start
Skipped == IF counted # << >> /\ counted[1] = 0 THEN 1 ELSE 0

\* Every line but "end" is counted once, in order, before main reads the next; before
\* them at most the area as it was at the start.
LinesCounted ==
    /\ \A i \in DOMAIN counted : counted[i] = i - Skipped
    /\ mainLine \in {"read", "join", "gone"} =>
         Len(counted) - Skipped = IF read = LastLine THEN LastLine - 1 ELSE read
    /\ holder = "main" <=> mainLine \in {"read", "taken"}
    /\ holder = "thread" <=> threadLine \in {"test", "empty"}

\* Where the program gets, although each side only looks now and then whether it is its
\* turn: a line that was typed is taken, so that main waits for the next one to be typed;
\* after "end" there is none, and main has joined the thread.
LineIsTaken == (mainLine = "read" /\ read < LastLine) \/ mainLine = "gone"
=============================================================================

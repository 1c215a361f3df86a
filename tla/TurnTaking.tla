------------------------------ MODULE TurnTaking ------------------------------
(***************************************************************************)
(* chapter11/thread3.c: main and a thread print in turn.  Each polls       *)
(* run_now, prints and hands the turn over, or sleeps a second; a poll     *)
(* counts whichever it was.  The test, the print and the assignment are    *)
(* steps that the other's come between; nothing but run_now orders them.   *)
(***************************************************************************)
EXTENDS Integers

CONSTANT TurnPolls   \* 20

ASSUME TurnAssumption == TurnPolls \in Nat

VARIABLES
    run_now,      \* whose turn it is: 1 main's, 2 the thread's
    turner,       \* the line each is at
    print_count,  \* how often each has polled
    ones, twos    \* what was printed

turnVars == <<run_now, turner, print_count, ones, twos>>

TurnSides == {1, 2}

TurnInit ==
    /\ run_now = 1 /\ turner = [i \in TurnSides |-> "out"]
    /\ print_count = [i \in TurnSides |-> 0] /\ ones = 0 /\ twos = 0

TurnLine(i, l, m) == turner[i] = l /\ turner' = [turner EXCEPT ![i] = m]

\* main starts, and then the thread
CreateTurner ==
    /\ turner[1] = "out" /\ turner' = [i \in TurnSides |-> "poll"]
    /\ UNCHANGED <<run_now, print_count, ones, twos>>

\* the loop's condition, then the test of run_now
PollTurn(i) ==
    /\ IF print_count[i] < TurnPolls
       THEN TurnLine(i, "poll", IF run_now = i THEN "print" ELSE "sleep")
       ELSE TurnLine(i, "poll", IF i = 1 THEN "join" ELSE "gone")
    /\ print_count' = [print_count EXCEPT ![i] = @ + 1]
    /\ UNCHANGED <<run_now, ones, twos>>

SleepTurn(i) == TurnLine(i, "sleep", "poll") /\ UNCHANGED <<run_now, print_count, ones, twos>>

PrintTurn(i) ==
    /\ TurnLine(i, "print", "hand")
    /\ IF i = 1 THEN ones' = ones + 1 /\ UNCHANGED twos ELSE twos' = twos + 1 /\ UNCHANGED ones
    /\ UNCHANGED <<run_now, print_count>>

HandOver(i) ==
    /\ TurnLine(i, "hand", "poll") /\ run_now' = IF i = 1 THEN 2 ELSE 1
    /\ UNCHANGED <<print_count, ones, twos>>

JoinTurner ==
    /\ turner[2] = "gone" /\ TurnLine(1, "join", "gone")
    /\ UNCHANGED <<run_now, print_count, ones, twos>>

-----------------------------------------------------------------------------
TurnerRuns(i) == PollTurn(i) \/ SleepTurn(i) \/ PrintTurn(i) \/ HandOver(i) \/ (i = 1 /\ JoinTurner)
TurnNext == CreateTurner \/ \E i \in TurnSides : TurnerRuns(i)

TurnTypes ==
    /\ run_now \in TurnSides /\ turner \in [TurnSides -> {"out", "poll", "sleep", "print", "hand", "join", "gone"}]
    /\ print_count \in [TurnSides -> 0..(TurnPolls + 1)] /\ ones \in 0..TurnPolls /\ twos \in 0..TurnPolls

\* What is printed alternates, beginning with 1: only the side whose turn it is prints or
\* is about to hand over, and it printed as often as the other, or main once more.
\* main outlives the thread.
TurnsAlternate ==
    /\ \A i \in TurnSides : turner[i] \in {"print", "hand"} => run_now = i
    /\ ones - twos = IF run_now = 1 THEN IF turner[1] = "hand" THEN 1 ELSE 0
                     ELSE IF turner[2] = "hand" THEN 0 ELSE 1
    /\ turner[1] = "gone" => turner[2] = "gone"

TurnsEnd == turner[1] \in {"out", "gone"}
=============================================================================

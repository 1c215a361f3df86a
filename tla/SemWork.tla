-------------------------------- MODULE SemWork --------------------------------
(***************************************************************************)
(* chapter11/thread4a.c, and thread4.c which has no FAST: main reads lines *)
(* into the work area and posts a semaphore for each; a thread waits for   *)
(* it and counts what is there by then.  Nothing holds main back.          *)
(***************************************************************************)
EXTENDS Naturals

CONSTANT MaxLines   \* bound: lines typed before "end"

ASSUME SemWorkAssumption == MaxLines \in Nat

VARIABLES
    area,       \* what work_area holds: "torn" while fgets or strcpy fills it
    filling,    \* what it is being filled with
    bin_sem,    \* the semaphore
    reader,     \* the line main is at
    counter,    \* the line the thread is at
    lines,      \* lines typed
    posts,      \* posts so far (history)
    mistaken    \* the thread compared a torn line (history)

semWorkVars == <<area, filling, bin_sem, reader, counter, lines, posts, mistaken>>

SemWorkInit ==
    /\ area = "empty" /\ filling = "empty" /\ bin_sem = 0
    /\ reader = "test" /\ counter = "wait"
    /\ lines = 0 /\ posts = 0 /\ mistaken = FALSE

-----------------------------------------------------------------------------
(* main *)

\* while not "end": after FAST a post of its own and no fgets
TestInput ==
    /\ reader = "test"
    /\ reader' = CASE area = "end" -> "join" [] area = "FAST" -> "postFast" [] OTHER -> "fgets"
    /\ UNCHANGED <<area, filling, bin_sem, counter, lines, posts, mistaken>>

\* sem_post
Post ==
    /\ reader \in {"postFast", "post"}
    /\ bin_sem' = bin_sem + 1 /\ posts' = posts + 1
    /\ reader' = IF reader = "post" THEN "test" ELSE "strcpy"
    /\ UNCHANGED <<area, filling, counter, lines, mistaken>>

\* a line was typed: fgets begins to write it
TypeLine ==
    /\ reader = "fgets" /\ area' = "torn" /\ reader' = "fill"
    /\ IF lines = MaxLines THEN filling' = "end" /\ UNCHANGED lines
       ELSE filling' \in {"line", "FAST", "end"} /\ lines' = lines + 1
    /\ UNCHANGED <<bin_sem, counter, posts, mistaken>>

\* strcpy begins to write
BeginCopy ==
    /\ reader = "strcpy" /\ area' = "torn" /\ reader' = "fill" /\ filling' = "Wheeee..."
    /\ UNCHANGED <<lines, bin_sem, counter, posts, mistaken>>

EndFill ==
    /\ reader = "fill" /\ area' = filling /\ reader' = "post"
    /\ UNCHANGED <<filling, bin_sem, counter, lines, posts, mistaken>>

JoinCounter ==
    /\ reader = "join" /\ counter = "gone" /\ reader' = "gone"
    /\ UNCHANGED <<area, filling, bin_sem, counter, lines, posts, mistaken>>

-----------------------------------------------------------------------------
(* thread_function *)

Wait ==
    /\ counter = "wait" /\ bin_sem > 0
    /\ bin_sem' = bin_sem - 1 /\ counter' = "compare"
    /\ UNCHANGED <<area, filling, reader, lines, posts, mistaken>>

\* "end", or a line to count; a torn one may pass for "end", unless it is FAST's
Compare ==
    /\ counter = "compare"
    /\ \/ /\ counter' = "gone"
          /\ area = "end" \/ (area = "torn" /\ filling # "Wheeee...")
       \/ area # "end" /\ counter' = "wait"
    /\ mistaken' = (mistaken \/ area = "torn")
    /\ UNCHANGED <<area, filling, bin_sem, reader, lines, posts>>

-----------------------------------------------------------------------------
\* what main does without the user
ReaderRuns  == TestInput \/ Post \/ BeginCopy \/ EndFill \/ JoinCounter
CounterRuns == Wait \/ Compare
SemWorkNext == TypeLine \/ ReaderRuns \/ CounterRuns

SemWorkTypes ==
    /\ {area, filling} \subseteq {"empty", "torn", "line", "FAST", "Wheeee...", "end"}
    /\ bin_sem \in 0..posts /\ posts <= 3 * MaxLines + 1 /\ lines <= MaxLines
    /\ reader \in {"test", "postFast", "post", "fgets", "strcpy", "fill", "join", "gone"}
    /\ counter \in {"wait", "compare", "gone"}

\* The thread ends only at "end", unless it compared a line half written; and while it
\* waits although "end" is there, a post for it is there or still to come.
EndIsPosted ==
    /\ counter = "gone" /\ ~mistaken => area = "end"
    /\ counter = "wait" /\ area = "end" => bin_sem > 0 \/ reader = "post"

\* Where the program gets: main waits for the user and the thread has used up its posts, or
\* "end" was typed, which the thread sees whatever it missed, and main's join has returned.
PostsTaken ==
    \/ reader = "fgets" /\ (counter = "gone" \/ (counter = "wait" /\ bin_sem = 0))
    \/ reader = "gone"
=============================================================================

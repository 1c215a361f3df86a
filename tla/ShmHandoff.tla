------------------------------- MODULE ShmHandoff ------------------------------
(***************************************************************************)
(* chapter13/shm1.c, which prints texts, and shm2.c, which reads them from *)
(* its user: a text and a flag in shared memory, no lock.  The two start   *)
(* in any order.  Texts are numbered; the last one is "end".               *)
(***************************************************************************)
EXTENDS Naturals, Sequences

CONSTANT LastText   \* the number of texts the user types, "end" included

ASSUME ShmAssumption == LastText \in Nat \ {0}

VARIABLES
    consumer,   \* the line shm1.c is at
    producer,   \* the line shm2.c is at
    written,    \* written_by_you
    some_text,  \* some_text, 0 before the first
    typed,      \* texts typed so far
    printed,    \* texts printed, in order
    cleared,    \* the text whose flag shm1 cleared when it began (history)
    garbled     \* shm1 compared a text while it was copied in (history)

shmVars == <<consumer, producer, written, some_text, typed, printed, cleared, garbled>>

\* a text of which strncpy has copied a part
Torn == LastText + 1

ShmInit ==
    /\ consumer = "begin" /\ producer = "wait"
    /\ written = FALSE /\ some_text = 0 /\ typed = 0
    /\ printed = << >> /\ cleared = 0 /\ garbled = FALSE

-----------------------------------------------------------------------------
(* shm1.c *)

\* the memory may hold a text already
BeginConsumer ==
    /\ consumer = "begin" /\ consumer' = "look"
    /\ written' = FALSE /\ cleared' = IF written THEN some_text ELSE 0
    /\ UNCHANGED <<producer, some_text, typed, printed, garbled>>

PrintText ==
    /\ consumer = "look" /\ written /\ consumer' = "release"
    /\ printed' = Append(printed, some_text)
    /\ UNCHANGED <<producer, written, some_text, typed, cleared, garbled>>

ReleaseText ==
    /\ consumer = "release" /\ consumer' = "test" /\ written' = FALSE
    /\ UNCHANGED <<producer, some_text, typed, printed, cleared, garbled>>

\* the comparison with "end", of what is in the memory by now; a torn text may pass for it
TestText ==
    /\ consumer = "test"
    /\ \/ some_text \in {LastText, Torn} /\ consumer' = "gone"
       \/ some_text # LastText /\ consumer' = "look"
    /\ garbled' = (garbled \/ some_text = Torn)
    /\ UNCHANGED <<producer, written, some_text, typed, printed, cleared>>

-----------------------------------------------------------------------------
(* shm2.c *)

WaitForClient ==
    /\ producer = "wait" /\ ~written /\ producer' = "enter"
    /\ UNCHANGED <<consumer, written, some_text, typed, printed, cleared, garbled>>

EnterText ==
    /\ producer = "enter" /\ producer' = "copy" /\ typed' = typed + 1
    /\ UNCHANGED <<consumer, written, some_text, printed, cleared, garbled>>

CopyText ==
    /\ \/ producer = "copy" /\ producer' = "copying" /\ some_text' = Torn
       \/ producer = "copying" /\ producer' = "raise" /\ some_text' = typed
    /\ UNCHANGED <<consumer, written, typed, printed, cleared, garbled>>

RaiseFlag ==
    /\ producer = "raise" /\ written' = TRUE
    /\ producer' = IF typed = LastText THEN "gone" ELSE "wait"
    /\ UNCHANGED <<consumer, some_text, typed, printed, cleared, garbled>>

-----------------------------------------------------------------------------
ConsumerRuns == PrintText \/ ReleaseText \/ TestText
ProducerRuns == WaitForClient \/ CopyText \/ RaiseFlag
ShmNext == BeginConsumer \/ ConsumerRuns \/ EnterText \/ ProducerRuns

ShmTypes ==
    /\ consumer \in {"begin", "look", "release", "test", "gone"}
    /\ producer \in {"wait", "enter", "copy", "copying", "raise", "gone"}
    /\ written \in BOOLEAN /\ some_text \in 0..Torn
    /\ {typed, cleared} \subseteq 0..LastText /\ garbled \in BOOLEAN
    /\ printed \in Seq(0..LastText)

\* The texts are printed in order, each once, none left out but one that came before
\* shm1, and none is overwritten before it is printed.  Only "end" may go unprinted, and
\* what follows a text that shm1 took for "end" while it was copied: it looks at the
\* memory once more after it has let the next text in.
TextsHandedOver ==
    LET last == IF printed = << >> THEN 0 ELSE printed[Len(printed)]
    IN /\ \A i \in 2..Len(printed) : printed[i] = printed[i - 1] + 1
       /\ printed # << >> => printed[1] = cleared + 1
       /\ consumer = "look" /\ written => some_text = IF printed = << >> THEN cleared + 1 ELSE last + 1
       /\ consumer = "release" => written /\ some_text = last
       /\ consumer = "gone" => last >= LastText - 1 \/ garbled \/ cleared >= LastText - 1

\* Once "end" has been typed shm1 ends, unless it came after that and cleared it away.
ConsumerEnds ==
    []<>~(producer = "gone" /\ consumer \notin {"begin", "gone"} /\ cleared # LastText)
=============================================================================

-------------------------------- MODULE FifoBytes -------------------------------
(***************************************************************************)
(* chapter12/fifo3.c, which makes a FIFO if there is none and writes ten   *)
(* megabytes to it in blocks of PIPE_BUF, and fifo4.c, which reads it      *)
(* until nobody writes any more: any number of each.  An open waits until  *)
(* the other end is opened, and wakes who waits there.                     *)
(***************************************************************************)
EXTENDS Naturals, FiniteSets

CONSTANTS
    Producers, Consumers,   \* processes
    TenMeg,                 \* blocks a producer writes
    FifoCap                 \* blocks the FIFO holds

ASSUME BytesAssumption == TenMeg \in Nat /\ FifoCap \in Nat

VARIABLES
    named,        \* FIFO_NAME is there
    blocks,       \* blocks in the FIFO
    writer,       \* the line each fifo3.c is at
    bytes_sent,   \* in blocks
    taker,        \* the line each fifo4.c is at
    bytes_read,
    late          \* a producer opened the FIFO between a consumer's read of 0 and its
                  \* close (history)

fifoBytesVars == <<named, blocks, writer, bytes_sent, taker, bytes_read, late>>

FifoBytesInit ==
    /\ named = FALSE /\ blocks = 0 /\ late = FALSE
    /\ writer = [p \in Producers |-> "access"] /\ bytes_sent = [p \in Producers |-> 0]
    /\ taker = [c \in Consumers |-> "out"] /\ bytes_read = [c \in Consumers |-> 0]

WriteEnds == {p \in Producers : writer[p] = "write"}
ReadEnds  == {c \in Consumers : taker[c] \in {"read", "close"}}

\* the content goes with the last end
Rest(n) == IF WriteEnds' = {} /\ ReadEnds' = {} THEN 0 ELSE n

-----------------------------------------------------------------------------
(* fifo3.c *)

Look(p) ==
    /\ writer[p] = "access"
    /\ writer' = [writer EXCEPT ![p] = IF named THEN "open" ELSE "mkfifo"]
    /\ UNCHANGED <<named, blocks, bytes_sent, taker, bytes_read, late>>

\* "Could not create fifo" if somebody else just has
MakeNamed(p) ==
    /\ writer[p] = "mkfifo" /\ named' = TRUE
    /\ writer' = [writer EXCEPT ![p] = IF named THEN "failed" ELSE "open"]
    /\ UNCHANGED <<blocks, bytes_sent, taker, bytes_read, late>>

\* a consumer can read already, or waits in its own open, which this one ends
OpenToWrite(p) ==
    /\ writer[p] = "open" /\ writer' = [writer EXCEPT ![p] = "write"]
    /\ \E woken \in SUBSET {c \in Consumers : taker[c] = "open"} :
         /\ woken # {} \/ ReadEnds # {}
         /\ taker' = [c \in Consumers |-> IF c \in woken THEN "read" ELSE taker[c]]
    /\ late' = (late \/ \E c \in Consumers : taker[c] = "close")
    /\ UNCHANGED <<named, blocks, bytes_sent, bytes_read>>

\* ends with SIGPIPE when nobody can read
WriteBlock(p) ==
    /\ writer[p] = "write" /\ bytes_sent[p] < TenMeg
    /\ UNCHANGED <<named, taker, bytes_read, late>>
    /\ IF ReadEnds = {}
       THEN /\ writer' = [writer EXCEPT ![p] = "sigpipe"] /\ blocks' = Rest(blocks)
            /\ UNCHANGED bytes_sent
       ELSE /\ blocks < FifoCap /\ blocks' = blocks + 1
            /\ bytes_sent' = [bytes_sent EXCEPT ![p] = @ + 1] /\ UNCHANGED writer

CloseWriter(p) ==
    /\ writer[p] = "write" /\ bytes_sent[p] = TenMeg
    /\ UNCHANGED <<named, bytes_sent, taker, bytes_read, late>>
    /\ writer' = [writer EXCEPT ![p] = "gone"] /\ blocks' = Rest(blocks)

-----------------------------------------------------------------------------
(* fifo4.c *)

BeginTaker(c) ==
    /\ taker[c] = "out"
    /\ taker' = [taker EXCEPT ![c] = IF named THEN "open" ELSE "failed"]
    /\ UNCHANGED <<named, blocks, writer, bytes_sent, bytes_read, late>>

\* somebody writes already
OpenToRead(c) ==
    /\ taker[c] = "open" /\ \E p \in Producers : writer[p] = "write"
    /\ taker' = [taker EXCEPT ![c] = "read"]
    /\ UNCHANGED <<named, blocks, writer, bytes_sent, bytes_read, late>>

ReadBlock(c) ==
    /\ taker[c] = "read"
    /\ \/ /\ blocks > 0 /\ blocks' = blocks - 1 /\ UNCHANGED taker
          /\ bytes_read' = [bytes_read EXCEPT ![c] = @ + 1]
       \/ /\ blocks = 0 /\ WriteEnds = {} /\ taker' = [taker EXCEPT ![c] = "close"]
          /\ UNCHANGED <<blocks, bytes_read>>
    /\ UNCHANGED <<named, writer, bytes_sent, late>>

CloseTaker(c) ==
    /\ taker[c] = "close"
    /\ UNCHANGED <<named, writer, bytes_sent, bytes_read, late>>
    /\ taker' = [taker EXCEPT ![c] = "gone"] /\ blocks' = Rest(blocks)

-----------------------------------------------------------------------------
ProducerSteps(p) == Look(p) \/ MakeNamed(p) \/ OpenToWrite(p) \/ WriteBlock(p) \/ CloseWriter(p)
TakerSteps(c)    == OpenToRead(c) \/ ReadBlock(c) \/ CloseTaker(c)
TakersRun        == \E c \in Consumers : TakerSteps(c)
FifoBytesNext ==
    \/ \E p \in Producers : ProducerSteps(p)
    \/ \E c \in Consumers : BeginTaker(c) \/ TakerSteps(c)

\* the blocks f counts, each process's numbered from 1
BlocksOf(f) == UNION {{p} \X (1..f[p]) : p \in DOMAIN f}
Total(f)    == Cardinality(BlocksOf(f))

FifoBytesTypes ==
    /\ named \in BOOLEAN /\ blocks \in 0..FifoCap /\ late \in BOOLEAN
    /\ writer \in [Producers -> {"access", "mkfifo", "open", "write", "gone", "failed", "sigpipe"}]
    /\ taker \in [Consumers -> {"out", "open", "read", "close", "gone", "failed"}]
    /\ bytes_sent \in [Producers -> 0..TenMeg]

\* Unless a producer comes between a consumer's last read and its close, what is written
\* is read, by whichever consumer, or still in the FIFO, and no producer dies of SIGPIPE.
\* A consumer that stops has left nothing.  Of several producers that find no FIFO, all but
\* one give up.
BytesArrive ==
    /\ ~late => /\ Total(bytes_sent) = Total(bytes_read) + blocks
                /\ \A p \in Producers : writer[p] # "sigpipe"
                /\ (\E c \in Consumers : taker[c] = "close") => blocks = 0
    /\ (\E p \in Producers : writer[p] = "failed") => named
    /\ named <=> \E p \in Producers : writer[p] \notin {"access", "mkfifo", "failed"}

\* A consumer that has the FIFO open ends, and a producer that has it open while somebody
\* can read ends.
FifoEmptied ==
    /\ \A c \in Consumers : []<>(taker[c] \notin {"read", "close"})
    /\ \A p \in Producers : []<>(writer[p] # "write")
=============================================================================

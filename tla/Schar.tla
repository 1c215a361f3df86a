--------------------------------- MODULE Schar ---------------------------------
(***************************************************************************)
(* The sample character driver (chapter21/schar/schar.c).  A kernel timer  *)
(* and writers put bytes into a pool that readers take from; a reader that *)
(* wants more than there is sleeps on schar_wq.                            *)
(*                                                                         *)
(* The kernel is a uniprocessor one: a process in the driver runs until it *)
(* sleeps - on the queue, or on a page fault in copy_to_user and           *)
(* copy_from_user - while the timer may interrupt it between any two       *)
(* instructions, though not twice in the few between a reader's test of    *)
(* the pool and what it does next, or between the two statements that      *)
(* empty the pool (the timer is set for a later tick).  A statement that   *)
(* adds to one variable, as schar_pool -= count, is one instruction of the *)
(* i386; count = schar_pool; schar_pool = 0 is two, and a step each here.  *)
(* The data is left out, only amounts are kept.  One unit stands for 1024  *)
(* bytes.                                                                  *)
(* The C variables are longs, compared as unsigned wherever the other      *)
(* operand is a size_t or an unsigned long: here they are numbers modulo   *)
(* Modulus, of which the upper half is negative when read as signed.       *)
(***************************************************************************)
EXTENDS Naturals

CONSTANTS
    Readers, Writers,   \* processes that open the device for reading, for writing or both
    NonBlocking,        \* the readers that open it with O_NONBLOCK
    Modulus,            \* 2^width of a long
    SCHAR_INC, SCHAR_POOL_MIN,
    Sizes,              \* counts of a read or a write
    PoolMins, Incs,     \* values the ioctls may set
    MaxPool,            \* bound: a write leaves no more than this in the pool
    MayFault            \* a user buffer may be invalid

Procs == Readers \cup Writers

ASSUME ScharAssumption ==
    /\ Modulus \in Nat /\ Modulus > 1
    /\ SCHAR_INC \in 0..(Modulus - 1) /\ SCHAR_POOL_MIN \in 0..(Modulus - 1)
    /\ Sizes \subseteq 0..(Modulus - 1) /\ PoolMins \subseteq 0..(Modulus - 1)
    /\ Incs \subseteq 0..(Modulus - 1)
    /\ MaxPool \in Nat /\ MayFault \in BOOLEAN
    /\ NonBlocking \subseteq Readers

VARIABLES
    loaded,     \* the module is loaded
    open,       \* processes that have the device open; MOD_IN_USE is open # {}
    armed,      \* schar_timer is pending
    pool,       \* schar_pool
    dread,      \* schar_data_read
    dwritten,   \* schar_data_written
    filled,     \* units the timer has added
    given,      \* units readers were really given
    wiped,      \* history: units a tick added just before a reader set schar_pool to 0
    inc,        \* schar_inc
    poolMin,    \* schar_pool_min
    pc,         \* what each process does in the driver
    count,      \* the count of its read or write
    fpos,       \* f_pos of its file, kept where it is used: in a non-blocking read
    polled      \* its last poll returned POLLIN, and it did not read since

vars == <<loaded, open, armed, pool, dread, dwritten, filled, given, wiped, inc, poolMin,
          pc, count, fpos, polled>>
params == <<inc, poolMin>>
totals == <<dread, dwritten, filled, given, wiped>>

\* idle; having found less than it wants, the same after the timer came between;
\* asleep on schar_wq and woken up; faulting in the copy of a read, of a
\* non-blocking read that takes what there is, and of a write; about to set
\* schar_pool to 0, the same after the timer filled the pool in between
Pcs == {"idle", "sleepy", "drowsy", "asleep", "woken", "copy", "copyAll", "wcopy",
        "zeroing", "late"}

Positive(x) == x # 0 /\ 2 * x < Modulus
Plus(x, y)  == (x + y) % Modulus
Minus(x, y) == (x + Modulus - y) % Modulus

\* the processor is not held by a process between two such steps
Free == loaded /\ \A q \in Procs : pc[q] \notin {"sleepy", "drowsy", "zeroing", "late"}

Set(p, where) == pc' = [pc EXCEPT ![p] = where]

Advance(p, n) ==
    fpos' = [fpos EXCEPT ![p] = IF p \in NonBlocking THEN Plus(@, n) ELSE @]

\* wake_up_interruptible(&schar_wq)
WokenUp == [q \in Procs |-> IF pc[q] = "asleep" THEN "woken" ELSE pc[q]]

\* what init_module and the initialisers of the static variables set
Fresh ==
    /\ open = {} /\ armed = FALSE /\ pool = 0
    /\ dread = 0 /\ dwritten = 0 /\ filled = 0 /\ given = 0 /\ wiped = 0
    /\ inc = SCHAR_INC /\ poolMin = SCHAR_POOL_MIN
    /\ pc = [p \in Procs |-> "idle"]
    /\ count = [p \in Procs |-> 0]
    /\ fpos = [p \in Procs |-> 0]
    /\ polled = [p \in Procs |-> FALSE]

Init == loaded = FALSE /\ Fresh

init_module ==
    /\ ~loaded
    /\ loaded' = TRUE /\ UNCHANGED <<open, armed, pc, count, fpos, polled>>
    /\ pool' = 0 /\ dread' = 0 /\ dwritten' = 0 /\ filled' = 0 /\ given' = 0 /\ wiped' = 0
    /\ inc' = SCHAR_INC /\ poolMin' = SCHAR_POOL_MIN

\* Slip: the timer is not deleted.
CleanupKeepsTimer ==
    /\ loaded /\ open = {}
    /\ loaded' = FALSE
    /\ UNCHANGED <<open, armed, pool, totals, params, pc, count, fpos, polled>>

cleanup_module ==
    /\ loaded /\ open = {}
    /\ loaded' = FALSE /\ armed' = FALSE
    /\ UNCHANGED <<open, pool, totals, params, pc, count, fpos, polled>>

-----------------------------------------------------------------------------
(* The timer fires: it is set again only if it has filled the pool. *)

\* Slip: the timer is not set again.
TimerOnce ==
    /\ armed /\ \A q \in Procs : pc[q] \notin {"drowsy", "late"}
    /\ armed' = FALSE
    /\ IF pool < poolMin
       THEN pool' = Plus(pool, SCHAR_INC) /\ filled' = Plus(filled, SCHAR_INC)
       ELSE UNCHANGED <<pool, filled>>
    /\ pc' = [q \in Procs |->
                 IF pc[q] = "sleepy" THEN "drowsy"
                 ELSE IF pc[q] = "zeroing" /\ pool < poolMin THEN "late"
                 ELSE IF open # {} /\ Positive(pool') THEN WokenUp[q] ELSE pc[q]]
    /\ UNCHANGED <<loaded, open, dread, dwritten, given, wiped, params, count, fpos, polled>>

schar_timer_handler ==
    /\ armed /\ \A q \in Procs : pc[q] \notin {"drowsy", "late"}
    /\ IF pool < poolMin
       THEN pool' = Plus(pool, SCHAR_INC) /\ filled' = Plus(filled, SCHAR_INC) /\ UNCHANGED armed
       ELSE armed' = FALSE /\ UNCHANGED <<pool, filled>>
    /\ pc' = [q \in Procs |->
                 IF pc[q] = "sleepy" THEN "drowsy"
                 ELSE IF pc[q] = "zeroing" /\ pool < poolMin THEN "late"
                 ELSE IF open # {} /\ Positive(pool') THEN WokenUp[q] ELSE pc[q]]
    /\ UNCHANGED <<loaded, open, dread, dwritten, given, wiped, params, count, fpos, polled>>

-----------------------------------------------------------------------------
(* open and release *)

schar_open(p) ==
    /\ Free /\ p \notin open
    /\ open' = open \cup {p}
    /\ armed' = (armed \/ p \in Readers)
    /\ fpos' = [fpos EXCEPT ![p] = 0] /\ polled' = [polled EXCEPT ![p] = FALSE]
    /\ UNCHANGED <<loaded, pool, totals, params, pc, count>>

schar_release(p) ==
    /\ Free /\ p \in open /\ pc[p] = "idle"
    /\ open' = open \ {p}
    /\ UNCHANGED <<loaded, armed, pool, totals, params, pc, count, fpos, polled>>

-----------------------------------------------------------------------------
(* schar_read *)

\* the test of the while loop
Want(p, n) == Set(p, IF n <= pool THEN "copy" ELSE "sleepy")

schar_read(p) ==
    /\ Free /\ p \in open \cap Readers /\ pc[p] = "idle"
    /\ \E n \in Sizes :
          /\ count' = [count EXCEPT ![p] = n]
          /\ Want(p, n)
    /\ UNCHANGED <<loaded, open, armed, pool, totals, params, fpos, polled>>

\* O_NONBLOCK: a read that found too little takes what there is by now, if anything
TakeNow(p) ==
    /\ pc[p] \in {"sleepy", "drowsy"} /\ p \in NonBlocking /\ Positive(pool)
    /\ Set(p, "copyAll")
    /\ Advance(p, pool)
    /\ dread' = Plus(dread, fpos'[p])
    /\ UNCHANGED <<loaded, open, armed, pool, dwritten, filled, given, wiped, params, count,
                   polled>>

\* or ends with -EAGAIN
TryAgain(p) ==
    /\ pc[p] \in {"sleepy", "drowsy"} /\ p \in NonBlocking /\ ~Positive(pool)
    /\ Set(p, "idle") /\ polled' = [polled EXCEPT ![p] = FALSE]
    /\ UNCHANGED <<loaded, open, armed, pool, totals, params, count, fpos>>

\* interruptible_sleep_on
FallAsleep(p) ==
    /\ pc[p] \in {"sleepy", "drowsy"} /\ p \notin NonBlocking
    /\ Set(p, "asleep")
    /\ UNCHANGED <<loaded, open, armed, pool, totals, params, count, fpos, polled>>

ReadAgain(p) ==
    /\ Free /\ pc[p] = "woken" /\ Want(p, count[p])
    /\ UNCHANGED <<loaded, open, armed, pool, totals, params, count, fpos, polled>>

\* a signal ends the sleep: -EINTR
ReadSignal(p) ==
    /\ Free /\ pc[p] \in {"asleep", "woken"}
    /\ Set(p, "idle") /\ polled' = [polled EXCEPT ![p] = FALSE]
    /\ UNCHANGED <<loaded, open, armed, pool, totals, params, count, fpos>>

\* Slips: the read is not counted; the counter is not a long.
ReadUncounted(p) ==
    /\ Free /\ pc[p] = "copy"
    /\ pool' = Minus(pool, count[p]) /\ given' = Plus(given, count[p])
    /\ Advance(p, count[p])
    /\ Set(p, "idle") /\ polled' = [polled EXCEPT ![p] = FALSE]
    /\ UNCHANGED <<loaded, open, armed, dread, dwritten, filled, wiped, params, count>>

ReadWide(p) ==
    /\ Free /\ pc[p] = "copy"
    /\ pool' = Minus(pool, count[p]) /\ dread' = dread + count[p]
    /\ given' = Plus(given, count[p])
    /\ Advance(p, count[p])
    /\ Set(p, "idle") /\ polled' = [polled EXCEPT ![p] = FALSE]
    /\ UNCHANGED <<loaded, open, armed, dwritten, filled, wiped, params, count>>

\* the copy is made: only now is the amount taken from the pool
ReadCopied(p) ==
    /\ Free /\ pc[p] = "copy"
    /\ pool' = Minus(pool, count[p]) /\ dread' = Plus(dread, count[p])
    /\ given' = Plus(given, count[p])
    /\ Advance(p, count[p])
    /\ Set(p, "idle") /\ polled' = [polled EXCEPT ![p] = FALSE]
    /\ UNCHANGED <<loaded, open, armed, dwritten, filled, wiped, params, count>>

\* count = schar_pool: what the non-blocking read will return is what is in the
\* pool now, whatever it has copied
ReadAllCopied(p) ==
    /\ Free /\ pc[p] = "copyAll"
    /\ count' = [count EXCEPT ![p] = pool]
    /\ Set(p, "zeroing")
    /\ UNCHANGED <<loaded, open, armed, pool, totals, params, fpos, polled>>

\* schar_pool = 0, with what a tick may have put there meanwhile
EmptyPool(p) ==
    /\ pc[p] \in {"zeroing", "late"}
    /\ pool' = 0 /\ given' = Plus(given, count[p])
    /\ wiped' = IF pc[p] = "late" THEN Plus(wiped, SCHAR_INC) ELSE wiped
    /\ Set(p, "idle") /\ polled' = [polled EXCEPT ![p] = FALSE]
    /\ UNCHANGED <<loaded, open, armed, dread, dwritten, filled, params, count, fpos>>

-----------------------------------------------------------------------------
(* schar_write adds to the pool first and copies then *)

schar_write(p) ==
    /\ Free /\ p \in open \cap Writers /\ pc[p] = "idle"
    /\ \E n \in Sizes :
          /\ Plus(pool, n) <= MaxPool
          /\ count' = [count EXCEPT ![p] = n]
          /\ pool' = Plus(pool, n) /\ dwritten' = Plus(dwritten, n)
          /\ Advance(p, n)
    /\ Set(p, "wcopy")
    /\ UNCHANGED <<loaded, open, armed, dread, filled, given, wiped, params, polled>>

\* Slip: no reader is woken up.
WriteSilent(p) ==
    /\ Free /\ pc[p] = "wcopy"
    /\ Set(p, "idle")
    /\ UNCHANGED <<loaded, open, armed, pool, totals, params, count, fpos, polled>>

WriteCopied(p) ==
    /\ Free /\ pc[p] = "wcopy"
    /\ pc' = [(IF Positive(pool) THEN WokenUp ELSE pc) EXCEPT ![p] = "idle"]
    /\ UNCHANGED <<loaded, open, armed, pool, totals, params, count, fpos, polled>>

\* Slip: a read takes its bytes from the pool before it copies them.
FaultTakes(p) ==
    /\ MayFault /\ Free /\ pc[p] \in {"copy", "copyAll", "wcopy"}
    /\ pool' = IF pc[p] = "copy" THEN Minus(pool, count[p]) ELSE pool
    /\ Set(p, "idle") /\ polled' = [polled EXCEPT ![p] = FALSE]
    /\ UNCHANGED <<loaded, open, armed, totals, params, count, fpos>>

\* a copy fails: -EFAULT, and nothing after it is done
CopyFault(p) ==
    /\ MayFault /\ Free /\ pc[p] \in {"copy", "copyAll", "wcopy"}
    /\ Set(p, "idle") /\ polled' = [polled EXCEPT ![p] = FALSE]
    /\ UNCHANGED <<loaded, open, armed, pool, totals, params, count, fpos>>

-----------------------------------------------------------------------------
(* schar_poll and the ioctls that change a parameter *)

\* Slip: poll reports data whatever there is.
PollAlways(p) ==
    /\ Free /\ p \in open \cap Readers /\ pc[p] = "idle"
    /\ polled' = [polled EXCEPT ![p] = TRUE]
    /\ UNCHANGED <<loaded, open, armed, pool, totals, params, pc, count, fpos>>

schar_poll(p) ==
    /\ Free /\ p \in open \cap Readers /\ pc[p] = "idle"
    /\ polled' = [polled EXCEPT ![p] = Positive(pool)]
    /\ UNCHANGED <<loaded, open, armed, pool, totals, params, pc, count, fpos>>

schar_ioctl(p) ==
    /\ Free /\ p \in open /\ pc[p] = "idle"
    /\ \/ poolMin' \in PoolMins /\ UNCHANGED inc
       \/ inc' \in Incs /\ UNCHANGED poolMin
    /\ UNCHANGED <<loaded, open, armed, pool, totals, pc, count, fpos, polled>>

-----------------------------------------------------------------------------
\* a process that is inside the driver and can go on
InDriver(p) == TakeNow(p) \/ TryAgain(p) \/ FallAsleep(p) \/ ReadAgain(p) \/ ReadCopied(p)
               \/ ReadAllCopied(p) \/ EmptyPool(p) \/ WriteCopied(p)

Next ==
    \/ init_module \/ cleanup_module \/ schar_timer_handler
    \/ \E p \in Procs :
          \/ schar_open(p) \/ schar_release(p) \/ schar_read(p) \/ InDriver(p)
          \/ ReadSignal(p) \/ schar_write(p) \/ CopyFault(p)
          \/ schar_poll(p) \/ schar_ioctl(p)

Spec == Init /\ [][Next]_vars

\* The kernel runs a timer that is set and, in the end, every runnable process.
FairSpec == Spec /\ WF_vars(schar_timer_handler) /\ \A p \in Procs : WF_vars(InDriver(p))

-----------------------------------------------------------------------------
(* Properties *)

Longs == 0..(Modulus - 1)

TypeOK ==
    /\ loaded \in BOOLEAN /\ open \subseteq Procs /\ armed \in BOOLEAN
    /\ pool \in Longs /\ dread \in Longs /\ dwritten \in Longs
    /\ filled \in Longs /\ given \in Longs /\ wiped \in Longs /\ inc \in Longs /\ poolMin \in Longs
    /\ pc \in [Procs -> Pcs] /\ count \in [Procs -> Longs] /\ fpos \in [Procs -> Longs]
    /\ polled \in [Procs -> BOOLEAN]

\* schar_pool is what the timer and the writers put in less what readers were
\* given, even where two of them take it below zero - but for one increment of the
\* timer each time a tick falls between the two statements with which a
\* non-blocking read empties the pool: nobody is given that.  Without such readers
\* nothing is wiped, and schar_data_read counts what was given.
PoolAccounted ==
    /\ Plus(Plus(pool, given), wiped) = Plus(filled, dwritten)
    /\ NonBlocking = {} => dread = given /\ wiped = 0

\* The timer is not left running when the module's code and page are freed, and
\* nobody is inside the driver then.
NothingLeftBehind == ~loaded => ~armed /\ \A p \in Procs : pc[p] = "idle"

\* A lone reader is never forgotten: when what it sleeps for is in the pool, the
\* timer is set or a write is under way, and either will wake it.  Its test of
\* the pool and its falling asleep are two steps; the timer may come between.
LoneReader == \E p \in Readers : Readers = {p}
SleeperHasWaker ==
    (LoneReader /\ ~MayFault) =>
        \A p \in Readers : (pc[p] \in {"sleepy", "drowsy", "asleep"} /\ count[p] <= pool)
                         => armed \/ \E q \in Writers : pc[q] = "wcopy"

\* A lone reader asleep for bytes that are there wakes up.
SleeperWakes ==
    (LoneReader /\ ~MayFault) =>
        \A p \in Readers : (pc[p] = "asleep" /\ count[p] \in 1..pool) ~> pc[p] # "asleep"

\* "if the pool contains data, a read will succeed" (schar.c:398), as far as it is
\* true: when poll has told a lone reader of data, some is there when it reads.
PolledDataStays ==
    LoneReader =>
        \A p \in Readers \cap open : (polled[p] /\ pc[p] = "idle") => Positive(pool)

\* "we have a reader, set up the timer if it isn't set" (schar.c:415), to fill the
\* pool to its minimum: a reader that wants no more than that gets on.
ReaderServed ==
    \A p \in Readers :
        (pc[p] = "asleep" /\ count[p] <= poolMin) ~> pc[p] # "asleep"
=============================================================================

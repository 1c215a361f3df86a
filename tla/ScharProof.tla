------------------------------- MODULE ScharProof -------------------------------
(***************************************************************************)
(* Proofs about Schar, for any processes, any width of a long and any      *)
(* values of the parameters: the accounting of the pool, what is left when *)
(* the module is unloaded, and, where no sum wraps round, what a lone      *)
(* reader is promised.                                                     *)
(***************************************************************************)
EXTENDS Schar, Integers, TLAPS

-----------------------------------------------------------------------------
(* Sums and differences of longs *)

LEMMA PlusIs ==
    ASSUME NEW x \in Longs, NEW y \in Longs
    PROVE  /\ Plus(x, y) \in Longs
           /\ x + y < Modulus => Plus(x, y) = x + y
           /\ x + y >= Modulus => Plus(x, y) = x + y - Modulus
BY ScharAssumption DEF Longs, Plus

LEMMA MinusIs ==
    ASSUME NEW x \in Longs, NEW y \in Longs
    PROVE  /\ Minus(x, y) \in Longs
           /\ x >= y => Minus(x, y) = x - y
           /\ x < y => Minus(x, y) = x + Modulus - y
<1>1. x + Modulus - y \in Nat /\ Modulus \in Nat /\ Modulus > 1
    BY ScharAssumption DEF Longs
<1> QED BY <1>1 DEF Longs, Minus

\* the same without a case distinction
LEMMA PlusWraps ==
    ASSUME NEW x \in Longs, NEW y \in Longs
    PROVE  /\ Plus(x, y) \in Nat /\ Plus(x, y) < Modulus
           /\ Plus(x, y) = x + y \/ Plus(x, y) = x + y - Modulus
BY PlusIs, ScharAssumption DEF Longs

LEMMA FilledIn ==
    ASSUME NEW p \in Longs, NEW g \in Longs, NEW f \in Longs, NEW d \in Longs, NEW n \in Longs,
           Plus(p, g) = Plus(f, d)
    PROVE  /\ Plus(Plus(p, n), g) = Plus(Plus(f, n), d)
           /\ Plus(Plus(p, n), g) = Plus(f, Plus(d, n))
<1>1. /\ Modulus \in Nat /\ p \in Nat /\ g \in Nat /\ f \in Nat /\ d \in Nat /\ n \in Nat
    BY ScharAssumption DEF Longs
<1>2. Plus(p, n) \in Longs /\ Plus(f, n) \in Longs /\ Plus(d, n) \in Longs
    BY PlusIs
<1>3. /\ Plus(p, g) = p + g \/ Plus(p, g) = p + g - Modulus
      /\ Plus(f, d) = f + d \/ Plus(f, d) = f + d - Modulus
    BY PlusWraps
<1>4. /\ Plus(p, n) = p + n \/ Plus(p, n) = p + n - Modulus
      /\ Plus(f, n) = f + n \/ Plus(f, n) = f + n - Modulus
      /\ Plus(d, n) = d + n \/ Plus(d, n) = d + n - Modulus
    BY PlusWraps
<1>5. /\ Plus(Plus(p, n), g) = Plus(p, n) + g \/ Plus(Plus(p, n), g) = Plus(p, n) + g - Modulus
      /\ Plus(Plus(p, n), g) \in Nat /\ Plus(Plus(p, n), g) < Modulus
    BY <1>2, PlusWraps
<1>6. /\ Plus(Plus(f, n), d) = Plus(f, n) + d \/ Plus(Plus(f, n), d) = Plus(f, n) + d - Modulus
      /\ Plus(Plus(f, n), d) \in Nat /\ Plus(Plus(f, n), d) < Modulus
    BY <1>2, PlusWraps
<1>7. /\ Plus(f, Plus(d, n)) = f + Plus(d, n) \/ Plus(f, Plus(d, n)) = f + Plus(d, n) - Modulus
      /\ Plus(f, Plus(d, n)) \in Nat /\ Plus(f, Plus(d, n)) < Modulus
    BY <1>2, PlusWraps
<1>8. Plus(p, n) \in Int /\ Plus(f, n) \in Int /\ Plus(d, n) \in Int
    BY <1>2 DEF Longs
<1>9. Plus(Plus(p, n), g) = Plus(Plus(f, n), d)
    BY <1>1, <1>3, <1>4, <1>5, <1>6, <1>8
<1>10. Plus(Plus(p, n), g) = Plus(f, Plus(d, n))
    BY <1>1, <1>3, <1>4, <1>5, <1>7, <1>8
<1> QED BY <1>9, <1>10

LEMMA PlusZero == ASSUME NEW x \in Longs PROVE Plus(0, x) = x /\ Plus(x, 0) = x /\ 0 \in Longs
<1>1. 0 \in Longs /\ Modulus \in Nat /\ x < Modulus /\ x \in Nat
    BY ScharAssumption DEF Longs
<1> QED BY <1>1, PlusIs

LEMMA PlusTurns ==
    ASSUME NEW x \in Longs, NEW y \in Longs, NEW z \in Longs
    PROVE  /\ Plus(x, y) = Plus(y, x)
           /\ Plus(Plus(x, y), z) = Plus(x, Plus(y, z))
<1>1. Modulus \in Nat /\ x \in Nat /\ y \in Nat /\ z \in Nat
      /\ x < Modulus /\ y < Modulus /\ z < Modulus
    BY ScharAssumption DEF Longs
<1>2. Plus(x, y) = Plus(y, x)
    BY <1>1 DEF Plus
<1>3. Plus(x, y) \in Longs /\ Plus(y, z) \in Longs
    BY PlusIs
<1>4. /\ Plus(x, y) = x + y \/ Plus(x, y) = x + y - Modulus
      /\ Plus(y, z) = y + z \/ Plus(y, z) = y + z - Modulus
    BY PlusWraps
<1>5. LET l == Plus(Plus(x, y), z) IN
        /\ l = Plus(x, y) + z \/ l = Plus(x, y) + z - Modulus
        /\ l \in Nat /\ l < Modulus
    BY <1>3, PlusWraps
<1>6. LET r == Plus(x, Plus(y, z)) IN
        /\ r = x + Plus(y, z) \/ r = x + Plus(y, z) - Modulus
        /\ r \in Nat /\ r < Modulus
    BY <1>3, PlusWraps
<1>7. Plus(x, y) \in Int /\ Plus(y, z) \in Int
    BY <1>3 DEF Longs
<1>8. Plus(Plus(x, y), z) = Plus(x, Plus(y, z))
    BY <1>1, <1>4, <1>5, <1>6, <1>7
<1> QED BY <1>2, <1>8

LEMMA TakenOut ==
    ASSUME NEW p \in Longs, NEW g \in Longs, NEW n \in Longs
    PROVE  Plus(Minus(p, n), Plus(g, n)) = Plus(p, g)
<1>1. Modulus \in Nat /\ Modulus > 1 /\ p \in Nat /\ g \in Nat /\ n \in Nat
    BY ScharAssumption DEF Longs
<1>2. Minus(p, n) \in Longs /\ Plus(g, n) \in Longs
    BY PlusIs, MinusIs
<1>3. /\ Plus(g, n) = g + n \/ Plus(g, n) = g + n - Modulus
      /\ Plus(p, g) = p + g \/ Plus(p, g) = p + g - Modulus
      /\ Plus(p, g) \in Nat /\ Plus(p, g) < Modulus
    BY PlusWraps
<1>4. Minus(p, n) = p - n \/ Minus(p, n) = p + Modulus - n
    BY <1>1, MinusIs
<1>5. LET r == Plus(Minus(p, n), Plus(g, n)) IN
        /\ r = Minus(p, n) + Plus(g, n) \/ r = Minus(p, n) + Plus(g, n) - Modulus
        /\ r \in Nat /\ r < Modulus
    BY <1>2, PlusWraps
<1>7. Minus(p, n) \in Int /\ Plus(g, n) \in Int
    BY <1>1, <1>2 DEF Longs
<1> QED BY <1>1, <1>3, <1>4, <1>5, <1>7

-----------------------------------------------------------------------------
(* Types *)

LEMMA TypeInit == Init => TypeOK
<1>1. 0 \in Longs /\ SCHAR_INC \in Longs /\ SCHAR_POOL_MIN \in Longs
    BY ScharAssumption DEF Longs
<1> QED BY <1>1 DEF Init, Fresh, TypeOK, Pcs

LEMMA WantTypes ==
    ASSUME TypeOK, NEW p \in Procs, NEW n \in Longs, Want(p, n)
    PROVE  /\ pc' \in [Procs -> Pcs]
           /\ \A q \in Procs \ {p} : pc'[q] = pc[q]
           /\ pc'[p] = IF n <= pool THEN "copy" ELSE "sleepy"
BY DEF Want, TypeOK, Set, Pcs

LEMMA TypeStep == TypeOK /\ [Next]_vars => TypeOK'
<1> SUFFICES ASSUME TypeOK, [Next]_vars PROVE TypeOK'
    OBVIOUS
<1>0. /\ SCHAR_INC \in Longs /\ SCHAR_POOL_MIN \in Longs /\ 0 \in Longs
      /\ Sizes \subseteq Longs /\ PoolMins \subseteq Longs /\ Incs \subseteq Longs
    BY ScharAssumption DEF Longs
<1>1. CASE UNCHANGED vars
    BY <1>1 DEF vars, params, totals, TypeOK
<1>2. CASE init_module \/ cleanup_module
    BY <1>0, <1>2 DEF init_module, cleanup_module, params, totals, TypeOK
<1>3. CASE schar_timer_handler
  <2>1. pool' \in Longs /\ filled' \in Longs /\ armed' \in BOOLEAN
    BY <1>0, <1>3, PlusIs DEF schar_timer_handler, TypeOK
  <2>2. pc' \in [Procs -> Pcs]
    BY <1>3 DEF schar_timer_handler, WokenUp, TypeOK, Pcs
  <2> QED BY <1>3, <2>1, <2>2 DEF schar_timer_handler, params, TypeOK
<1>4. ASSUME NEW p \in Procs, schar_open(p) \/ schar_release(p) \/ schar_poll(p) \/ schar_ioctl(p)
      PROVE  TypeOK'
    BY <1>0, <1>4
    DEF schar_open, schar_release, schar_poll, schar_ioctl, params, totals, TypeOK, Positive
<1>5. ASSUME NEW p \in Procs, schar_read(p) PROVE TypeOK'
  <2>1. PICK n \in Sizes : count' = [count EXCEPT ![p] = n] /\ Want(p, n)
    BY <1>5 DEF schar_read
  <2> QED BY <1>0, <1>5, <2>1, WantTypes DEF schar_read, params, totals, TypeOK
<1>6. ASSUME NEW p \in Procs, ReadAgain(p) PROVE TypeOK'
  <2>1. count[p] \in Longs
    BY DEF TypeOK
  <2> QED BY <1>6, <2>1, WantTypes DEF ReadAgain, params, totals, TypeOK
<1>7. ASSUME NEW p \in Procs,
             TryAgain(p) \/ FallAsleep(p) \/ ReadSignal(p) \/ CopyFault(p) \/ WriteCopied(p)
      PROVE  TypeOK'
    BY <1>7 DEF TryAgain, FallAsleep, ReadSignal, CopyFault, WriteCopied, WokenUp, Set, params, totals, TypeOK, Pcs
<1>8. ASSUME NEW p \in Procs, ReadCopied(p) PROVE TypeOK'
  <2>1. count[p] \in Longs /\ fpos[p] \in Longs
    BY DEF TypeOK
  <2>2. pool' \in Longs /\ dread' \in Longs /\ given' \in Longs
    BY <1>0, <1>8, <2>1, PlusIs, MinusIs DEF ReadCopied, TypeOK
  <2>3. fpos' \in [Procs -> Longs]
    BY <1>8, <2>1, PlusIs DEF ReadCopied, Advance, TypeOK
  <2> QED BY <1>8, <2>2, <2>3 DEF ReadCopied, Set, params, TypeOK, Pcs
<1>10. ASSUME NEW p \in Procs, TakeNow(p) PROVE TypeOK'
  <2>1. Plus(fpos[p], pool) \in Longs
    BY PlusIs DEF TypeOK
  <2>2. fpos' \in [Procs -> Longs]
    BY <1>10, <2>1 DEF TakeNow, TypeOK, Advance
  <2>3. dread' \in Longs
    BY <1>10, <2>2, PlusIs DEF TakeNow, TypeOK
  <2> QED BY <1>10, <2>2, <2>3 DEF TakeNow, params, TypeOK, Set, Pcs
<1>11. ASSUME NEW p \in Procs, ReadAllCopied(p) PROVE TypeOK'
    BY <1>11 DEF ReadAllCopied, Set, params, totals, TypeOK, Pcs
<1>12. ASSUME NEW p \in Procs, EmptyPool(p) PROVE TypeOK'
  <2>1. given' \in Longs /\ wiped' \in Longs /\ pool' \in Longs
    BY <1>0, <1>12, PlusIs DEF EmptyPool, TypeOK
  <2> QED BY <1>12, <2>1 DEF EmptyPool, Set, params, TypeOK, Pcs
<1>9. ASSUME NEW p \in Procs, schar_write(p) PROVE TypeOK'
  <2>1. PICK n \in Sizes : /\ count' = [count EXCEPT ![p] = n]
                           /\ pool' = Plus(pool, n) /\ dwritten' = Plus(dwritten, n) /\ Advance(p, n)
    BY <1>9 DEF schar_write
  <2>2. n \in Longs /\ fpos[p] \in Longs
    BY <1>0 DEF TypeOK
  <2>3. pool' \in Longs /\ dwritten' \in Longs
    BY <2>1, <2>2, PlusIs DEF TypeOK
  <2>4. fpos' \in [Procs -> Longs]
    BY <2>1, <2>2, PlusIs DEF Advance, TypeOK
  <2> QED BY <1>9, <2>1, <2>2, <2>3, <2>4 DEF schar_write, Set, params, TypeOK, Pcs
<1> QED BY <1>1, <1>2, <1>3, <1>4, <1>5, <1>6, <1>7, <1>8, <1>9, <1>10, <1>11, <1>12
        DEF Next, InDriver

-----------------------------------------------------------------------------
(* Where processes can be, and the accounting *)

\* Only a process that has the device open is in the driver; who sleeps does not read
\* with O_NONBLOCK, and only who does takes all there is.
PlaceInv ==
    \A p \in Procs :
        /\ pc[p] # "idle" => p \in open
        /\ pc[p] \notin {"idle", "wcopy"} => p \in Readers
        /\ pc[p] \in {"asleep", "woken"} => p \notin NonBlocking
        /\ pc[p] \in {"copyAll", "zeroing", "late"} => p \in NonBlocking

\* Without the module nobody has the device open, and no timer is set.
ModuleInv == ~loaded => open = {} /\ ~armed

\* Between two steps one process holds the processor.  A reader about to empty the
\* pool counted what is in it; if the timer came, one increment is there besides.
Held == {"sleepy", "drowsy", "zeroing", "late"}

HoldInv ==
    /\ \A p, q \in Procs : pc[p] \in Held /\ pc[q] \in Held => p = q
    /\ \A p \in Procs :
          /\ pc[p] = "zeroing" => pool = count[p]
          /\ pc[p] = "late" => pool = Plus(count[p], SCHAR_INC)

ScharInv == TypeOK /\ PlaceInv /\ ModuleInv /\ HoldInv /\ PoolAccounted

LEMMA InvInit == Init => ScharInv
<1>1. 0 \in Longs
    BY ScharAssumption DEF Longs
<1>2. Init => PoolAccounted
    BY <1>1, PlusZero DEF Init, Fresh, PoolAccounted
<1> QED BY <1>2, TypeInit DEF Init, Fresh, ScharInv, PlaceInv, ModuleInv, HoldInv, Held

LEMMA WantPlaces ==
    ASSUME TypeOK, PlaceInv, NEW p \in Procs, NEW n \in Longs, Want(p, n), p \in open \cap Readers,
           open' = open
    PROVE  PlaceInv'
<1>1. /\ \A q \in Procs \ {p} : pc'[q] = pc[q]
      /\ pc'[p] \in {"copy", "sleepy"}
    BY WantTypes
<1> QED BY <1>1 DEF PlaceInv

LEMMA PlaceStep == TypeOK /\ PlaceInv /\ ModuleInv /\ [Next]_vars => PlaceInv' /\ ModuleInv'
<1> SUFFICES ASSUME TypeOK, PlaceInv, ModuleInv, [Next]_vars PROVE PlaceInv' /\ ModuleInv'
    OBVIOUS
<1>1. ModuleInv'
  <2>1. CASE open' = open /\ loaded' = loaded /\ (armed' = armed \/ ~armed')
    BY <2>1 DEF ModuleInv
  <2>2. CASE \E p \in Procs : schar_open(p)
    BY <2>2 DEF ModuleInv, schar_open, Free
  <2>3. CASE init_module \/ cleanup_module \/ \E p \in Procs : schar_release(p)
    BY <2>3 DEF ModuleInv, init_module, cleanup_module, schar_release, Free
  <2> QED BY <2>1, <2>2, <2>3
          DEF Next, InDriver, vars, schar_timer_handler, schar_read, TakeNow, TryAgain, FallAsleep,
              ReadAgain, ReadCopied, ReadAllCopied, EmptyPool, WriteCopied, ReadSignal, schar_write, CopyFault, schar_poll, schar_ioctl
<1>2. PlaceInv'
  <2>0. Sizes \subseteq Longs /\ \A p \in Procs : count[p] \in Longs
    BY ScharAssumption DEF Longs, TypeOK
  <2>1. CASE pc' = pc /\ open \subseteq open'
    BY <2>1 DEF PlaceInv
  <2>2. CASE init_module \/ cleanup_module \/ UNCHANGED vars
    BY <2>2 DEF init_module, cleanup_module, vars, PlaceInv
  <2>3. CASE schar_timer_handler
    BY <2>3 DEF schar_timer_handler, WokenUp, TypeOK, PlaceInv
  <2>4. ASSUME NEW p \in Procs, schar_open(p) \/ schar_release(p) \/ schar_poll(p) \/ schar_ioctl(p)
        PROVE  PlaceInv'
    BY <2>4 DEF schar_open, schar_release, schar_poll, schar_ioctl, PlaceInv
  <2>5. ASSUME NEW p \in Procs, schar_read(p) PROVE PlaceInv'
    BY <2>0, <2>5, WantPlaces DEF schar_read
  <2>6. ASSUME NEW p \in Procs, ReadAgain(p) PROVE PlaceInv'
    BY <2>0, <2>6, WantPlaces DEF ReadAgain, PlaceInv
  <2>7. ASSUME NEW p \in Procs, FallAsleep(p) \/ TakeNow(p) \/ TryAgain(p) PROVE PlaceInv'
    BY <2>7 DEF FallAsleep, TakeNow, TryAgain, Set, TypeOK, PlaceInv
  <2>8. ASSUME NEW p \in Procs, WriteCopied(p) PROVE PlaceInv'
    BY <2>8 DEF WriteCopied, WokenUp, TypeOK, PlaceInv
  <2>9. ASSUME NEW p \in Procs,
               ReadCopied(p) \/ ReadAllCopied(p) \/ EmptyPool(p) \/ ReadSignal(p) \/ CopyFault(p)
        PROVE  PlaceInv'
    BY <2>9 DEF ReadCopied, ReadAllCopied, EmptyPool, ReadSignal, CopyFault, Set, TypeOK, PlaceInv
  <2>10. ASSUME NEW p \in Procs, schar_write(p) PROVE PlaceInv'
    BY <2>10 DEF schar_write, Set, TypeOK, PlaceInv
  <2> QED BY <2>2, <2>3, <2>4, <2>5, <2>6, <2>7, <2>8, <2>9, <2>10 DEF Next, InDriver
<1> QED BY <1>1, <1>2

LEMMA HoldStep ==
    TypeOK /\ PlaceInv /\ ModuleInv /\ HoldInv /\ [Next]_vars => HoldInv'
<1> SUFFICES ASSUME TypeOK, PlaceInv, ModuleInv, HoldInv, [Next]_vars PROVE HoldInv'
    OBVIOUS
<1>0. Sizes \subseteq Longs /\ \A p \in Procs : count[p] \in Longs
    BY ScharAssumption DEF Longs, TypeOK
<1>1. CASE UNCHANGED <<pc, pool, count>>
    BY <1>1 DEF HoldInv, Held
<1>2. CASE init_module
  <2>1. \A p \in Procs : pc[p] = "idle" /\ pc'[p] = "idle"
    BY <1>2 DEF init_module, ModuleInv, PlaceInv
  <2> QED BY <2>1 DEF HoldInv, Held
<1>3. CASE schar_timer_handler
  <2>1. \A p \in Procs :
           /\ pc'[p] \in Held => pc[p] \in Held
           /\ pc'[p] = "zeroing" => pc[p] = "zeroing" /\ pool' = pool
           /\ pc'[p] = "late" => pc[p] = "zeroing" /\ pool' = Plus(pool, SCHAR_INC)
    BY <1>3 DEF schar_timer_handler, WokenUp, Held
  <2>2. count' = count
    BY <1>3 DEF schar_timer_handler
  <2> QED BY <2>1, <2>2 DEF HoldInv
<1>4. ASSUME NEW p \in Procs, \A q \in Procs : pc[q] \notin Held,
             \A q \in Procs \ {p} : pc'[q] \in Held => pc[q] \in Held,
             pc'[p] \in Held => pc'[p] \in {"sleepy", "drowsy"} \/ (pc'[p] = "zeroing" /\ pool' = count'[p])
      PROVE  HoldInv'
    BY <1>4 DEF HoldInv, Held
<1>5. ASSUME NEW p \in Procs, schar_read(p) \/ ReadAgain(p) PROVE HoldInv'
  <2>1. PICK n \in Longs : Want(p, n)
    BY <1>0, <1>5 DEF schar_read, ReadAgain
  <2>2. \A q \in Procs : pc[q] \notin Held
    BY <1>5 DEF schar_read, ReadAgain, Free, Held
  <2>3. \A q \in Procs \ {p} : pc'[q] = pc[q]
    BY <2>1, WantTypes
  <2>4. pc'[p] \in {"copy", "sleepy"}
    BY <2>1, WantTypes
  <2>5. pc'[p] \in Held => pc'[p] \in {"sleepy", "drowsy"}
    BY <2>4 DEF Held
  <2> QED BY <1>4, <2>2, <2>3, <2>5
<1>6. ASSUME NEW p \in Procs, ReadCopied(p) \/ ReadSignal(p) \/ CopyFault(p) \/ schar_write(p)
      PROVE  HoldInv'
  <2>1. \A q \in Procs : pc[q] \notin Held
    BY <1>6 DEF ReadCopied, ReadSignal, CopyFault, schar_write, Free, Held
  <2>2. /\ \A q \in Procs \ {p} : pc'[q] = pc[q]
        /\ pc'[p] \in {"idle", "wcopy"}
    BY <1>6 DEF ReadCopied, ReadSignal, CopyFault, schar_write, Set, TypeOK
  <2>3. pc'[p] \notin Held
    BY <2>2 DEF Held
  <2> QED BY <1>4, <2>1, <2>2, <2>3
<1>7. ASSUME NEW p \in Procs, WriteCopied(p) PROVE HoldInv'
  <2>1. \A q \in Procs : pc[q] \notin Held
    BY <1>7 DEF WriteCopied, Free, Held
  <2>2. \A q \in Procs : pc'[q] \in {pc[q], "woken", "idle"}
    BY <1>7 DEF WriteCopied, WokenUp, TypeOK
  <2> QED BY <2>1, <2>2 DEF HoldInv, Held
<1>8. ASSUME NEW p \in Procs, ReadAllCopied(p) PROVE HoldInv'
  <2>1. \A q \in Procs : pc[q] \notin Held
    BY <1>8 DEF ReadAllCopied, Free, Held
  <2>2. /\ \A q \in Procs \ {p} : pc'[q] = pc[q]
        /\ pc'[p] = "zeroing" /\ pool' = count'[p]
    BY <1>8 DEF ReadAllCopied, Set, TypeOK
  <2> QED BY <1>4, <2>1, <2>2
<1>9. ASSUME NEW p \in Procs, TakeNow(p) \/ TryAgain(p) \/ FallAsleep(p) \/ EmptyPool(p)
      PROVE  HoldInv'
  <2>1. pc[p] \in Held
    BY <1>9 DEF TakeNow, TryAgain, FallAsleep, EmptyPool, Held
  <2>2. /\ \A q \in Procs \ {p} : pc'[q] = pc[q]
        /\ pc'[p] \in {"idle", "asleep", "copyAll"}
    BY <1>9 DEF TakeNow, TryAgain, FallAsleep, EmptyPool, Set, TypeOK
  <2>3. \A q \in Procs : pc'[q] \notin Held
    BY <2>1, <2>2 DEF HoldInv, Held
  <2> QED BY <2>3 DEF HoldInv, Held
<1> QED BY <1>1, <1>2, <1>3, <1>5, <1>6, <1>7, <1>8, <1>9
        DEF Next, InDriver, vars, totals, cleanup_module, schar_open, schar_release, schar_poll, schar_ioctl

\* A read that is counted leaves the sum; so does emptying the pool, with what a tick added.
LEMMA Accounted3 ==
    ASSUME NEW p \in Longs, NEW g \in Longs, NEW w \in Longs, NEW n \in Longs
    PROVE  /\ Plus(Plus(Minus(p, n), Plus(g, n)), w) = Plus(Plus(p, g), w)
           /\ Plus(Plus(0, Plus(g, p)), w) = Plus(Plus(p, g), w)
           /\ Plus(Plus(0, Plus(g, p)), Plus(w, n)) = Plus(Plus(Plus(p, n), g), w)
<1>1. Plus(Minus(p, n), Plus(g, n)) = Plus(p, g)
    BY TakenOut
<1>2. /\ Plus(g, p) \in Longs /\ Plus(g, p) = Plus(p, g)
      /\ Plus(0, Plus(g, p)) = Plus(g, p)
    BY PlusIs, PlusTurns, PlusZero
<1>3. Plus(Plus(g, p), Plus(w, n)) = Plus(Plus(Plus(p, n), g), w)
  <2>1. Plus(p, n) \in Longs /\ Plus(n, w) \in Longs /\ Plus(w, n) = Plus(n, w)
    BY PlusIs, PlusTurns
  <2>2. Plus(Plus(g, p), Plus(n, w)) = Plus(g, Plus(p, Plus(n, w)))
    BY <2>1, PlusTurns
  <2>3. Plus(p, Plus(n, w)) = Plus(Plus(p, n), w)
    BY PlusTurns
  <2>4. Plus(g, Plus(Plus(p, n), w)) = Plus(Plus(g, Plus(p, n)), w)
    BY <2>1, PlusTurns
  <2>5. Plus(g, Plus(p, n)) = Plus(Plus(p, n), g)
    BY <2>1, PlusTurns
  <2> QED BY <2>1, <2>2, <2>3, <2>4, <2>5
<1> QED BY <1>1, <1>2, <1>3

LEMMA FilledIn3 ==
    ASSUME NEW p \in Longs, NEW g \in Longs, NEW w \in Longs, NEW f \in Longs, NEW d \in Longs,
           NEW n \in Longs, Plus(Plus(p, g), w) = Plus(f, d)
    PROVE  /\ Plus(Plus(Plus(p, n), g), w) = Plus(Plus(f, n), d)
           /\ Plus(Plus(Plus(p, n), g), w) = Plus(f, Plus(d, n))
<1>1. Plus(g, w) \in Longs /\ Plus(p, n) \in Longs
    BY PlusIs
<1>2. /\ Plus(Plus(p, g), w) = Plus(p, Plus(g, w))
      /\ Plus(Plus(Plus(p, n), g), w) = Plus(Plus(p, n), Plus(g, w))
    BY <1>1, PlusTurns
<1>3. Plus(p, Plus(g, w)) = Plus(f, d)
    BY <1>2
<1>4. /\ Plus(Plus(p, n), Plus(g, w)) = Plus(Plus(f, n), d)
      /\ Plus(Plus(p, n), Plus(g, w)) = Plus(f, Plus(d, n))
    BY <1>1, <1>3, FilledIn
<1> QED BY <1>2, <1>4

LEMMA AccountStep == TypeOK /\ PlaceInv /\ HoldInv /\ PoolAccounted /\ [Next]_vars => PoolAccounted'
<1> SUFFICES ASSUME TypeOK, PlaceInv, HoldInv, PoolAccounted, [Next]_vars PROVE PoolAccounted'
    OBVIOUS
<1>0. /\ pool \in Longs /\ given \in Longs /\ filled \in Longs /\ dwritten \in Longs /\ SCHAR_INC \in Longs
      /\ wiped \in Longs
      /\ Sizes \subseteq Longs /\ \A p \in Procs : count[p] \in Longs
    BY ScharAssumption DEF Longs, TypeOK
<1>1. CASE UNCHANGED <<pool, dread, dwritten, filled, given, wiped>>
    BY <1>1 DEF PoolAccounted
<1>2. CASE init_module
    BY <1>2, <1>0, PlusZero DEF init_module, PoolAccounted
<1>3. CASE schar_timer_handler
  <2>1. CASE pool < poolMin
    <3>1. /\ pool' = Plus(pool, SCHAR_INC) /\ filled' = Plus(filled, SCHAR_INC)
          /\ UNCHANGED <<dread, dwritten, given, wiped>>
      BY <1>3, <2>1 DEF schar_timer_handler
    <3>2. Plus(Plus(pool', given), wiped) = Plus(filled', dwritten)
      BY <1>0, <3>1, FilledIn3 DEF PoolAccounted
    <3> QED BY <3>1, <3>2 DEF PoolAccounted
  <2>2. CASE ~(pool < poolMin)
    BY <1>3, <2>2 DEF schar_timer_handler, PoolAccounted
  <2> QED BY <2>1, <2>2
<1>4. ASSUME NEW p \in Procs, TakeNow(p) PROVE PoolAccounted'
    BY <1>4 DEF TakeNow, PoolAccounted
<1>5. ASSUME NEW p \in Procs, ReadCopied(p) PROVE PoolAccounted'
  <2>1. /\ pool' = Minus(pool, count[p]) /\ given' = Plus(given, count[p])
        /\ dread' = Plus(dread, count[p]) /\ UNCHANGED <<dwritten, filled, wiped>>
    BY <1>5 DEF ReadCopied
  <2>2. Plus(Plus(pool', given'), wiped) = Plus(Plus(pool, given), wiped)
    BY <1>0, <2>1, Accounted3
  <2> QED BY <2>1, <2>2 DEF PoolAccounted
<1>6. ASSUME NEW p \in Procs, EmptyPool(p) PROVE PoolAccounted'
  <2>1. pool' = 0 /\ given' = Plus(given, count[p]) /\ UNCHANGED <<dwritten, filled>> /\ p \in NonBlocking
    BY <1>6 DEF EmptyPool, PlaceInv
  <2>2. CASE pc[p] = "late"
    <3>1. wiped' = Plus(wiped, SCHAR_INC) /\ pool = Plus(count[p], SCHAR_INC)
      BY <1>6, <2>2 DEF EmptyPool, HoldInv
    <3>2. Plus(Plus(pool', given'), wiped') = Plus(Plus(pool, given), wiped)
      BY <1>0, <2>1, <3>1, Accounted3
    <3> QED BY <2>1, <3>2 DEF PoolAccounted
  <2>3. CASE pc[p] = "zeroing"
    <3>1. wiped' = wiped /\ pool = count[p]
      BY <1>6, <2>3 DEF EmptyPool, HoldInv
    <3>2. Plus(Plus(pool', given'), wiped') = Plus(Plus(pool, given), wiped)
      BY <1>0, <2>1, <3>1, Accounted3
    <3> QED BY <2>1, <3>2 DEF PoolAccounted
  <2> QED BY <1>6, <2>2, <2>3 DEF EmptyPool
<1>7. ASSUME NEW p \in Procs, schar_write(p) PROVE PoolAccounted'
  <2>1. PICK n \in Longs : pool' = Plus(pool, n) /\ dwritten' = Plus(dwritten, n)
    BY <1>0, <1>7 DEF schar_write
  <2>2. Plus(Plus(pool', given), wiped) = Plus(filled, dwritten')
    BY <1>0, <2>1, FilledIn3 DEF PoolAccounted
  <2> QED BY <1>7, <2>2 DEF schar_write, PoolAccounted
<1> QED BY <1>1, <1>2, <1>3, <1>4, <1>5, <1>6, <1>7
        DEF Next, InDriver, vars, totals, cleanup_module, schar_open, schar_release, schar_read,
            ReadAgain, TryAgain, FallAsleep, ReadAllCopied, WriteCopied, ReadSignal, CopyFault,
            schar_poll, schar_ioctl

LEMMA InvStep == ScharInv /\ [Next]_vars => ScharInv'
BY TypeStep, PlaceStep, HoldStep, AccountStep DEF ScharInv

LEMMA Invariance == Spec => []ScharInv
BY InvInit, InvStep, PTL DEF Spec

\* The variables keep their types; the longs stay in their width.
THEOREM ScharTypes == Spec => []TypeOK
<1>1. ScharInv => TypeOK
    BY DEF ScharInv
<1> QED BY <1>1, Invariance, PTL

\* The pool is what timer and writers put in less what readers were given and what ticks
\* added just before a non-blocking read emptied it, modulo the width of a long, for any
\* number of readers and writers, whatever copies fault or sleep.
THEOREM PoolIsAccounted == Spec => []PoolAccounted
<1>1. ScharInv => PoolAccounted
    BY DEF ScharInv
<1> QED BY <1>1, Invariance, PTL

\* Nothing runs in the module once it is unloaded: neither its timer nor a process.
THEOREM UnloadsCleanly == Spec => []NothingLeftBehind
<1>1. ScharInv => NothingLeftBehind
    BY DEF ScharInv, PlaceInv, ModuleInv, NothingLeftBehind
<1> QED BY <1>1, Invariance, PTL

-----------------------------------------------------------------------------
(* What a lone reader is promised, where no sum wraps round and none is    *)
(* negative as a signed number                                             *)

NoWrap ==
    /\ 2 * MaxPool < Modulus
    /\ \A n \in Sizes : n + MaxPool < Modulus
    /\ \A m \in PoolMins \cup {SCHAR_POOL_MIN} : m + SCHAR_INC <= MaxPool + 1

PoolInv == pool <= MaxPool /\ poolMin \in PoolMins \cup {SCHAR_POOL_MIN}

WriterBusy == \E q \in Writers : pc[q] = "wcopy"

\* A reader about to sleep found too little; while it falls asleep only the timer can run,
\* and stays set if it adds something; what comes while it sleeps wakes it.
ReaderInv(r) ==
    /\ pc[r] = "copy" => count[r] <= pool
    /\ pc[r] \in {"sleepy", "drowsy", "asleep"} => count[r] >= 1
    /\ pc[r] = "sleepy" => count[r] > pool
    /\ pc[r] = "drowsy" /\ count[r] <= pool => armed
    /\ ~MayFault /\ pc[r] = "asleep" /\ count[r] <= pool => armed \/ WriterBusy
    /\ r \in open /\ polled[r] /\ pc[r] \in {"idle", "wcopy"} => pool >= 1

LoneInv == NoWrap /\ LoneReader => PoolInv /\ \A r \in Readers : ReaderInv(r)

LEMMA PositiveIs ==
    ASSUME NoWrap, TypeOK, PoolInv
    PROVE  /\ Positive(pool) <=> pool >= 1
           /\ Modulus \in Nat /\ pool \in Nat /\ MaxPool \in Nat
BY ScharAssumption DEF NoWrap, TypeOK, PoolInv, Positive, Longs

\* Writers and the timer only add to the pool.
LEMMA PoolGrows ==
    ASSUME NoWrap, TypeOK, PoolInv, schar_timer_handler \/ \E p \in Procs : schar_write(p)
    PROVE  pool' >= pool /\ PoolInv'
<1>0. /\ pool \in Longs /\ pool \in Nat /\ MaxPool \in Nat /\ Modulus \in Nat /\ SCHAR_INC \in Longs
      /\ SCHAR_INC \in Nat /\ poolMin \in Nat
      /\ Sizes \subseteq Longs /\ Longs \subseteq Nat
    BY ScharAssumption DEF TypeOK, Longs
<1>1. CASE schar_timer_handler
  <2>1. CASE pool < poolMin
    <3>1. pool' = Plus(pool, SCHAR_INC) /\ poolMin' = poolMin
      BY <1>1, <2>1 DEF schar_timer_handler, params
    <3>2. pool + SCHAR_INC <= MaxPool /\ MaxPool < Modulus
      BY <1>0, <2>1 DEF NoWrap, PoolInv
    <3>3. pool' = pool + SCHAR_INC
      BY <1>0, <3>1, <3>2, PlusIs
    <3> QED BY <1>0, <3>1, <3>2, <3>3 DEF PoolInv
  <2>2. CASE ~(pool < poolMin)
    BY <1>0, <1>1, <2>2 DEF schar_timer_handler, params, PoolInv
  <2> QED BY <2>1, <2>2
<1>2. CASE \E p \in Procs : schar_write(p)
  <2>1. PICK n \in Sizes : Plus(pool, n) <= MaxPool /\ pool' = Plus(pool, n) /\ poolMin' = poolMin
    BY <1>2 DEF schar_write, params
  <2>2. n \in Nat /\ pool + n < Modulus
    BY <1>0 DEF NoWrap, PoolInv
  <2>3. pool' = pool + n
    BY <1>0, <2>1, <2>2, PlusIs
  <2> QED BY <1>0, <2>1, <2>2, <2>3 DEF PoolInv
<1> QED BY <1>1, <1>2

LEMMA LoneInit == Init => LoneInv
<1> SUFFICES ASSUME Init, NEW r \in Readers PROVE PoolInv /\ ReaderInv(r)
    BY ScharAssumption DEF LoneInv, LoneReader
<1> QED BY ScharAssumption DEF Init, Fresh, PoolInv, ReaderInv, Procs

\* Steps of the reader itself
LEMMA ReaderStep ==
    ASSUME ScharInv, LoneInv, NoWrap, NEW r \in Readers, Readers = {r},
           \/ schar_read(r) \/ (InDriver(r) /\ pc[r] # "wcopy") \/ ReadSignal(r)
           \/ CopyFault(r) \/ schar_poll(r)
    PROVE  PoolInv' /\ ReaderInv(r)'
<1>0. /\ PoolInv /\ ReaderInv(r) /\ r \in Procs /\ r \in DOMAIN pc /\ r \in DOMAIN count /\ r \in DOMAIN polled
      /\ (Positive(pool) <=> pool >= 1) /\ pool \in Nat /\ pool \in Longs
      /\ Sizes \subseteq Longs /\ Longs \subseteq Nat /\ count[r] \in Longs
      /\ DOMAIN pc = Procs
    BY PositiveIs, ScharAssumption DEF ScharInv, LoneInv, LoneReader, TypeOK, Procs, Longs
<1>1. ASSUME NEW n \in Longs, Want(r, n), count'[r] = n, pool' = pool, poolMin' = poolMin,
             open' = open, polled' = polled, armed' = armed, pc[r] = "idle" \/ pc[r] = "woken"
      PROVE  PoolInv' /\ ReaderInv(r)'
  <2>1. CASE n <= pool
    BY <1>0, <1>1, <2>1, WantTypes DEF ScharInv, ReaderInv, PoolInv
  <2>2. CASE n > pool
    BY <1>0, <1>1, <2>2, WantTypes DEF ScharInv, ReaderInv, PoolInv
  <2> QED BY <1>0, <1>1, <2>1, <2>2
<1>2. CASE schar_read(r)
    BY <1>0, <1>1, <1>2 DEF schar_read, params, ScharInv, TypeOK
<1>3. CASE ReadAgain(r)
    BY <1>0, <1>1, <1>3 DEF ReadAgain, params
<1>4. CASE FallAsleep(r)
    BY <1>0, <1>4 DEF FallAsleep, Set, ReaderInv, PoolInv, params
<1>5. CASE ReadCopied(r)
  <2>1. pool' = pool - count[r]
    BY <1>0, <1>5, MinusIs DEF ReadCopied, ReaderInv
  <2>2. count[r] \in Nat /\ MaxPool \in Nat
    BY <1>0, ScharAssumption
  <2>3. PoolInv'
    BY <1>0, <1>5, <2>1, <2>2 DEF ReadCopied, PoolInv, params
  <2>4. pc'[r] = "idle" /\ ~polled'[r]
    BY <1>0, <1>5 DEF ReadCopied, Set
  <2> QED BY <2>3, <2>4 DEF ReaderInv
<1>6. CASE ReadAllCopied(r) \/ EmptyPool(r)
    BY <1>0, <1>6, ScharAssumption DEF ReadAllCopied, EmptyPool, Set, ReaderInv, PoolInv, params, ScharInv, TypeOK
<1>7. CASE TakeNow(r) \/ TryAgain(r) \/ ReadSignal(r) \/ CopyFault(r)
    BY <1>0, <1>7 DEF TakeNow, TryAgain, ReadSignal, CopyFault, Set, ReaderInv, PoolInv, params, ScharInv, TypeOK
<1>8. CASE schar_poll(r)
    BY <1>0, <1>8 DEF schar_poll, ReaderInv, PoolInv, params, ScharInv, TypeOK
<1>9. ~(WriteCopied(r) /\ pc[r] # "wcopy")
    BY DEF WriteCopied
<1> QED BY <1>2, <1>3, <1>4, <1>5, <1>6, <1>7, <1>8, <1>9 DEF InDriver

\* Steps of the timer, of writers, and of the administrator
LEMMA TimerStep ==
    ASSUME ScharInv, LoneInv, NoWrap, NEW r \in Readers, Readers = {r}, schar_timer_handler
    PROVE  PoolInv' /\ ReaderInv(r)'
<1>0. /\ PoolInv /\ ReaderInv(r) /\ r \in Procs /\ pool \in Nat /\ count[r] \in Nat
      /\ pc \in [Procs -> Pcs]
      /\ (Positive(pool) <=> pool >= 1)
      /\ (pc[r] # "idle" => r \in open)
    BY PositiveIs DEF ScharInv, LoneInv, LoneReader, TypeOK, Procs, Longs, PlaceInv
<1>1. pool' >= pool /\ PoolInv' /\ pool' \in Nat
  <2>1. pool' \in Longs
    BY TypeStep DEF ScharInv, TypeOK, Next
  <2> QED BY <2>1, PoolGrows, ScharAssumption DEF ScharInv, Longs, LoneInv, LoneReader
<1>2. /\ UNCHANGED <<count, polled, open>>
      /\ pc[r] # "drowsy" /\ (pc[r] = "sleepy" => pc'[r] = "drowsy")
      /\ pc[r] = "asleep" => pc'[r] = IF open # {} /\ Positive(pool') THEN "woken" ELSE "asleep"
      /\ pc[r] \notin {"sleepy", "asleep", "zeroing"} => pc'[r] = pc[r]
      /\ pc[r] = "zeroing" => pc'[r] \in {"zeroing", "late"}
    BY <1>0 DEF schar_timer_handler, WokenUp
<1>3. armed' \/ pool' = pool
    BY DEF schar_timer_handler
<1>4. pc[r] = "asleep" /\ pc'[r] = "asleep" => count[r] > pool' \/ armed'
    BY <1>0, <1>1, <1>2, <1>3 DEF ReaderInv
<1> QED BY <1>0, <1>1, <1>2, <1>3, <1>4 DEF ReaderInv

LEMMA WriteStep ==
    ASSUME ScharInv, LoneInv, NoWrap, NEW r \in Readers, Readers = {r},
           NEW p \in Procs, schar_write(p)
    PROVE  PoolInv' /\ ReaderInv(r)'
<1>0. /\ PoolInv /\ ReaderInv(r) /\ r \in Procs /\ pool \in Nat /\ count[r] \in Nat
      /\ pc \in [Procs -> Pcs] /\ count \in [Procs -> Longs]
    BY DEF ScharInv, LoneInv, LoneReader, TypeOK, Procs, Longs
<1>1. pool' >= pool /\ PoolInv' /\ pool' \in Nat
  <2>1. pool' \in Longs
    BY TypeStep DEF ScharInv, TypeOK, Next
  <2> QED BY <2>1, PoolGrows, ScharAssumption DEF ScharInv, Longs, LoneInv, LoneReader
<1>2. /\ UNCHANGED <<polled, open, armed>> /\ p \in Writers /\ pc[p] = "idle" /\ pc'[p] = "wcopy"
      /\ \A q \in Procs \ {p} : pc'[q] = pc[q] /\ count'[q] = count[q]
      /\ pc[r] \notin {"sleepy", "drowsy"}
    BY <1>0 DEF schar_write, Set, Free
<1>3. WriterBusy'
    BY <1>2 DEF WriterBusy
<1>4. CASE p = r
    BY <1>0, <1>1, <1>2, <1>4 DEF ReaderInv
<1>5. CASE p # r
    BY <1>0, <1>1, <1>2, <1>3, <1>5 DEF ReaderInv
<1> QED BY <1>4, <1>5

LEMMA WriteCopiedStep ==
    ASSUME ScharInv, LoneInv, NoWrap, NEW r \in Readers, Readers = {r},
           NEW p \in Procs, WriteCopied(p)
    PROVE  PoolInv' /\ ReaderInv(r)'
<1>0. /\ PoolInv /\ ReaderInv(r) /\ r \in Procs /\ pool \in Nat /\ count[r] \in Nat
      /\ pc \in [Procs -> Pcs] /\ (Positive(pool) <=> pool >= 1)
    BY PositiveIs DEF ScharInv, LoneInv, LoneReader, TypeOK, Procs, Longs
<1>1. /\ UNCHANGED <<pool, poolMin, polled, open, armed, count>> /\ pc[p] = "wcopy" /\ pc'[p] = "idle"
      /\ \A q \in Procs \ {p} : pc'[q] = IF Positive(pool) /\ pc[q] = "asleep" THEN "woken" ELSE pc[q]
    BY <1>0 DEF WriteCopied, WokenUp, params, totals
<1>2. PoolInv'
    BY <1>0, <1>1 DEF PoolInv
<1>3. CASE p = r
  <2>1. pc[r] = "wcopy" /\ pc'[r] = "idle" /\ polled'[r] = polled[r] /\ open' = open /\ pool' = pool
    BY <1>1, <1>3
  <2> QED BY <1>0, <1>2, <2>1 DEF ReaderInv
<1>4. CASE p # r
  <2>1. pc'[r] = IF Positive(pool) /\ pc[r] = "asleep" THEN "woken" ELSE pc[r]
    BY <1>0, <1>1, <1>4
  <2>2. pc'[r] = "asleep" => count[r] > pool
    BY <1>0, <2>1 DEF ReaderInv
  <2>3. /\ pool' = pool /\ count'[r] = count[r] /\ armed' = armed /\ open' = open
        /\ polled'[r] = polled[r] /\ (pc'[r] = pc[r] \/ pc'[r] = "woken")
    BY <1>1, <2>1
  <2> QED BY <1>0, <1>2, <2>2, <2>3 DEF ReaderInv
<1> QED BY <1>2, <1>3, <1>4

LEMMA OtherStep ==
    ASSUME ScharInv, LoneInv, NoWrap, NEW r \in Readers, Readers = {r},
           \/ init_module \/ cleanup_module
           \/ \E p \in Procs : schar_open(p) \/ schar_release(p) \/ schar_ioctl(p)
           \/ \E p \in Procs \ {r} : CopyFault(p)
           \/ UNCHANGED vars
    PROVE  PoolInv' /\ ReaderInv(r)'
<1>0. PoolInv /\ ReaderInv(r) /\ r \in Procs /\ MaxPool \in Nat /\ pc \in [Procs -> Pcs]
      /\ ModuleInv /\ PlaceInv /\ polled \in [Procs -> BOOLEAN]
    BY ScharAssumption DEF ScharInv, LoneInv, LoneReader, TypeOK, Procs
<1>1. CASE init_module
  <2>1. open = {} /\ pc[r] = "idle"
    BY <1>0, <1>1 DEF init_module, ModuleInv, PlaceInv
  <2> QED BY <1>0, <1>1, <2>1 DEF init_module, PoolInv, ReaderInv
<1>2. CASE cleanup_module
  <2>1. open = {} /\ pc[r] = "idle"
    BY <1>0, <1>2 DEF cleanup_module, PlaceInv
  <2> QED BY <1>0, <1>2, <2>1 DEF cleanup_module, params, PoolInv, ReaderInv
<1>3. ASSUME NEW p \in Procs, schar_open(p) PROVE PoolInv' /\ ReaderInv(r)'
  <2>1. /\ UNCHANGED <<pool, poolMin, pc, count>> /\ (armed => armed')
        /\ p \notin open /\ open' = open \cup {p} /\ ~polled'[p]
        /\ \A q \in Procs \ {p} : polled'[q] = polled[q]
    BY <1>0, <1>3 DEF schar_open, params, totals
  <2> QED BY <1>0, <2>1 DEF PoolInv, ReaderInv, WriterBusy
<1>4. ASSUME NEW p \in Procs, schar_release(p) PROVE PoolInv' /\ ReaderInv(r)'
    BY <1>0, <1>4 DEF schar_release, params, PoolInv, ReaderInv, WriterBusy
<1>5. ASSUME NEW p \in Procs, schar_ioctl(p) PROVE PoolInv' /\ ReaderInv(r)'
    BY <1>0, <1>5 DEF schar_ioctl, PoolInv, ReaderInv, WriterBusy
<1>6. ASSUME NEW p \in Procs \ {r}, CopyFault(p) PROVE PoolInv' /\ ReaderInv(r)'
  <2>1. MayFault /\ pc'[r] = pc[r] /\ polled'[r] = polled[r]
        /\ UNCHANGED <<pool, poolMin, open, armed, count>>
    BY <1>0, <1>6 DEF CopyFault, Set, params
  <2> QED BY <1>0, <2>1 DEF PoolInv, ReaderInv
<1>7. CASE UNCHANGED vars
    BY <1>0, <1>7 DEF vars, params, PoolInv, ReaderInv, WriterBusy
<1> QED BY <1>1, <1>2, <1>3, <1>4, <1>5, <1>6, <1>7

LEMMA LoneStep == ScharInv /\ LoneInv /\ [Next]_vars => LoneInv'
<1> SUFFICES ASSUME ScharInv, LoneInv, [Next]_vars, NoWrap, NEW r \in Readers, Readers = {r}
             PROVE  PoolInv' /\ ReaderInv(r)'
    BY DEF LoneInv, LoneReader, NoWrap
<1>1. \A p \in Procs : pc[p] \in Pcs \ {"idle", "wcopy"} => p = r
    BY DEF Pcs, ScharInv, PlaceInv
<1>2. ASSUME NEW p \in Procs,
             schar_read(p) \/ InDriver(p) \/ ReadSignal(p) \/ CopyFault(p) \/ schar_poll(p)
      PROVE  PoolInv' /\ ReaderInv(r)'
  <2>1. CASE WriteCopied(p)
    BY <2>1, WriteCopiedStep
  <2>2. CASE CopyFault(p) /\ p # r
    BY <2>2, OtherStep
  <2>3. CASE (schar_read(p) \/ TakeNow(p) \/ TryAgain(p) \/ FallAsleep(p) \/ ReadAgain(p)
               \/ ReadCopied(p) \/ ReadAllCopied(p) \/ EmptyPool(p) \/ ReadSignal(p) \/ schar_poll(p)) \/ (CopyFault(p) /\ p = r)
    <3>1. p = r
      BY <1>1, <2>3 DEF Pcs, schar_read, TakeNow, TryAgain, FallAsleep, ReadAgain, ReadCopied,
                         ReadAllCopied, EmptyPool, ReadSignal, schar_poll
    <3>2. \/ TakeNow(r) \/ TryAgain(r) \/ FallAsleep(r) \/ ReadAgain(r)
          \/ ReadCopied(r) \/ ReadAllCopied(r) \/ EmptyPool(r)
          => pc[r] # "wcopy"
      BY DEF TakeNow, TryAgain, FallAsleep, ReadAgain, ReadCopied, ReadAllCopied, EmptyPool
    <3>3. \/ schar_read(r) \/ (InDriver(r) /\ pc[r] # "wcopy") \/ ReadSignal(r)
          \/ CopyFault(r) \/ schar_poll(r)
      BY <2>3, <3>1, <3>2 DEF InDriver
    <3> QED BY <3>3, ReaderStep
  <2> QED
    <3>1. p = r \/ p # r
      OBVIOUS
    <3> QED BY <1>2, <2>1, <2>2, <2>3, <3>1, Zenon DEF InDriver
<1> QED BY <1>2, TimerStep, WriteStep, OtherStep DEF Next

LEMMA LoneInvariance == Spec => [](ScharInv /\ LoneInv)
<1>1. Init => ScharInv /\ LoneInv
    BY InvInit, LoneInit
<1>2. ScharInv /\ LoneInv /\ [Next]_vars => (ScharInv /\ LoneInv)'
    BY InvStep, LoneStep
<1> QED BY <1>1, <1>2, PTL DEF Spec

\* Where no sum wraps round, a lone reader that sleeps for what is there will be woken:
\* the timer that may come between its test of the pool and its sleep takes nothing from it.
THEOREM LoneSleeperHasWaker == Spec => [](NoWrap => SleeperHasWaker)
<1>1. ScharInv /\ LoneInv => (NoWrap => SleeperHasWaker)
  <2> SUFFICES ASSUME ScharInv, LoneInv, NoWrap, LoneReader, ~MayFault, NEW r \in Readers,
                      pc[r] \in {"sleepy", "drowsy", "asleep"}, count[r] <= pool
               PROVE  armed \/ \E q \in Writers : pc[q] = "wcopy"
    BY DEF SleeperHasWaker
  <2>1. ReaderInv(r) /\ r \in Procs /\ count[r] \in Nat /\ pool \in Nat
    BY DEF LoneInv, ScharInv, TypeOK, Procs, Longs
  <2> QED BY <2>1 DEF ReaderInv, WriterBusy
<1> QED BY <1>1, LoneInvariance, PTL

\* Where no sum wraps round, what poll told a lone reader stays true until it reads.
THEOREM LonePollHolds == Spec => [](NoWrap => PolledDataStays)
<1>1. ScharInv /\ LoneInv => (NoWrap => PolledDataStays)
  <2> SUFFICES ASSUME ScharInv, LoneInv, NoWrap, LoneReader, NEW r \in Readers \cap open,
                      polled[r], pc[r] = "idle"
               PROVE  Positive(pool)
    BY DEF PolledDataStays
  <2>1. ReaderInv(r) /\ PoolInv
    BY DEF LoneInv
  <2> QED BY <2>1, PositiveIs DEF ReaderInv, ScharInv
<1> QED BY <1>1, LoneInvariance, PTL
=============================================================================

----------------------------- MODULE ProgramsProof -----------------------------
(***************************************************************************)
(* What is proved of the small programs: each has its own inductive        *)
(* invariant, and a step of one leaves the variables of the others alone.  *)
(***************************************************************************)
EXTENDS MCPrograms, FiniteSetTheorems, SequenceTheorems, TLAPS

LEMMA NumberUnused ==
    ASSUME NEW S, IsFiniteSet(S), NEW g
    PROVE  \E n \in 1..(Cardinality(S) + 1) : \A q \in S : g[q] # n
<1> DEFINE N == Cardinality(S)
           inUse == [n \in 1..(N + 1) |-> CHOOSE q \in S : g[q] = n]
<1>1. N \in Nat
    BY FS_CardinalityType
<1>2. SUFFICES ASSUME \A n \in 1..(N + 1) : \E q \in S : g[q] = n PROVE FALSE
    OBVIOUS
<1>3. \A n \in 1..(N + 1) : inUse[n] \in S /\ g[inUse[n]] = n
    BY <1>2
<1>4. IsFiniteSet(1..(N + 1)) /\ Cardinality(1..(N + 1)) = N + 1
    BY <1>1, FS_Interval
<1>5. inUse \in [1..(N + 1) -> S]
    BY <1>3
<1> HIDE DEF inUse
<1>6. \E x, y \in 1..(N + 1) : x # y /\ inUse[x] = inUse[y]
    BY <1>1, <1>4, <1>5, FS_PigeonHole
<1> QED BY <1>3, <1>6

-----------------------------------------------------------------------------
(* sem1.c *)

SemPlaces ==
    /\ semId \in 0..(Cardinality(SemProcs) + 1) /\ semValue \in Nat
    /\ semAdj \in [SemProcs -> -1..1]
    /\ turn \in [SemProcs -> {"out", "set", "wait", "inside", "finished", "gone"}]
    /\ own \in [SemProcs -> 0..(Cardinality(SemProcs) + 1)]
    /\ turns \in [SemProcs -> 0..Turns] /\ kills \in 0..MaxKills

\* the kernel owes a process inside at most the semaphore it took, one outside none
Owed ==
    \A p \in SemProcs :
        /\ turn[p] = "inside" => semAdj[p] \in {0, 1}
        /\ turn[p] # "inside" => semAdj[p] \in {-1, 0}
        /\ turn[p] = "out" => semAdj[p] = 0

TurnsLeft ==
    \A p \in SemProcs :
        /\ turn[p] = "out" => turns[p] = 0
        /\ turn[p] \in {"set", "wait", "inside"} => turns[p] < Turns

\* there are never more semaphores than processes, and with the value set in time one
SemSum ==
    /\ semValue + Cardinality(Inside) <= Cardinality(SemProcs)
    /\ ~barged => /\ semValue + Cardinality(Inside) <= 1
                  /\ \A p \in SemProcs : HasSem(p) => semAdj[p] = IF turn[p] = "inside" THEN 1 ELSE 0

SemInv == SemPlaces /\ Owed /\ TurnsLeft /\ SemSum

LEMMA SemSets ==
    /\ IsFiniteSet(SemProcs) /\ Cardinality(SemProcs) \in Nat /\ Cardinality(SemProcs) >= 1
    /\ IsFiniteSet(Inside) /\ Cardinality(Inside) \in Nat
    /\ Inside \subseteq SemProcs /\ Cardinality(Inside) <= Cardinality(SemProcs)
<1>1. IsFiniteSet(SemProcs) /\ Setter \in SemProcs
    BY SemAssumption DEF SemAssumption
<1>2. Cardinality(SemProcs) \in Nat /\ Cardinality(SemProcs) # 0
    BY <1>1, FS_CardinalityType, FS_EmptySet
<1>3. Inside \subseteq SemProcs
    BY DEF Inside
<1>4. IsFiniteSet(Inside) /\ Cardinality(Inside) <= Cardinality(SemProcs)
    BY <1>1, <1>3, FS_Subset
<1>5. Cardinality(Inside) \in Nat
    BY <1>4, FS_CardinalityType
<1> QED BY <1>1, <1>2, <1>3, <1>4, <1>5

LEMMA SemTyped == SemInv => SemTypes /\ SemExclusive
<1> SUFFICES ASSUME SemInv PROVE SemTypes /\ SemExclusive
    OBVIOUS
<1>1. Turns \in Nat \ {0}
    BY SemAssumption DEF SemAssumption
<1>2. semValue \in 0..Cardinality(SemProcs)
    BY SemSets DEF SemInv, SemPlaces, SemSum
<1>3. -1..1 \subseteq -Turns..1
    BY <1>1
<1>4. semAdj \in [SemProcs -> -Turns..1]
    BY <1>3 DEF SemInv, SemPlaces
<1>5. SemTypes
    BY <1>2, <1>4 DEF SemInv, SemPlaces, SemTypes
<1>6. SemExclusive
    BY DEF SemInv, SemSum, SemExclusive
<1> QED BY <1>5, <1>6

LEMMA SemInitial == SemInit => SemInv
<1> SUFFICES ASSUME SemInit PROVE SemInv
    OBVIOUS
<1>1. /\ semId = 0 /\ semValue = 0 /\ kills = 0
      /\ \A p \in SemProcs : semAdj[p] = 0 /\ turn[p] = "out" /\ own[p] = 0 /\ turns[p] = 0
    BY DEF SemInit
<1>2. Turns \in Nat /\ MaxKills \in Nat /\ Cardinality(SemProcs) \in Nat
    BY SemSets, SemAssumption DEF SemAssumption
<1>3. SemPlaces
    BY <1>2 DEF SemInit, SemPlaces
<1>4. Inside = {} /\ \A p \in SemProcs : ~HasSem(p)
    BY <1>1 DEF Inside, HasSem
<1>5. Cardinality(Inside) = 0
    BY <1>4, FS_EmptySet
<1>6. SemSum
    BY <1>1, <1>2, <1>4, <1>5 DEF SemSum
<1>7. Owed /\ TurnsLeft
    BY <1>1 DEF Owed, TurnsLeft
<1> QED BY <1>3, <1>6, <1>7 DEF SemInv

\* what leaving takes off the sum is what the process had
LEMMA SemLeaves ==
    ASSUME SemInv, NEW p \in SemProcs, NEW line \in {"out", "gone"}, Leave(p, line),
           semId' = semId, own' = own, barged' = barged
    PROVE  /\ SemSum' /\ Owed' /\ semValue' \in Nat /\ semAdj' \in [SemProcs -> -1..1]
           /\ turn' \in [SemProcs -> {"out", "set", "wait", "inside", "finished", "gone"}]
           /\ turn'[p] = line /\ \A q \in SemProcs \ {p} : turn'[q] = turn[q]
<1>0. SemPlaces /\ Owed /\ SemSum
    BY DEF SemInv
<1>1. turn' = [turn EXCEPT ![p] = line] /\ semAdj' = [semAdj EXCEPT ![p] = 0]
    BY DEF Leave
<1>2. /\ turn'[p] = line /\ semAdj'[p] = 0
      /\ \A q \in SemProcs \ {p} : turn'[q] = turn[q] /\ semAdj'[q] = semAdj[q]
      /\ turn' \in [SemProcs -> {"out", "set", "wait", "inside", "finished", "gone"}]
      /\ semAdj' \in [SemProcs -> -1..1]
    BY <1>0, <1>1 DEF SemPlaces
<1>3. \A q \in SemProcs : HasSem(q)' <=> HasSem(q)
    BY DEF HasSem
<1>4. Inside' = Inside \ {p}
    BY <1>2, <1>3 DEF Inside
<1>5. Cardinality(Inside') = IF p \in Inside THEN Cardinality(Inside) - 1 ELSE Cardinality(Inside)
    BY <1>4, SemSets, FS_RemoveElement
<1>6. /\ turn[p] = "inside" => semAdj[p] \in {0, 1}
      /\ turn[p] # "inside" => semAdj[p] \in {-1, 0}
      /\ semValue \in Nat
    BY <1>0 DEF Owed, SemPlaces
<1>7. /\ semValue' \in Nat
      /\ p \in Inside => semValue' <= semValue + 1
      /\ p \notin Inside => semValue' <= semValue
  <2>1. CASE ~HasSem(p)
    <3>1. semValue' = semValue /\ p \notin Inside
        BY <2>1 DEF Leave, Inside
    <3> QED BY <3>1, <1>6
  <2>2. CASE HasSem(p)
    <3>1. semValue' = IF semValue + semAdj[p] < 0 THEN 0 ELSE semValue + semAdj[p]
        BY <2>2 DEF Leave
    <3>2. p \in Inside <=> turn[p] = "inside"
        BY <2>2 DEF Inside
    <3>3. CASE turn[p] = "inside"
        BY <3>1, <3>2, <3>3, <1>6
    <3>4. CASE turn[p] # "inside"
        BY <3>1, <3>2, <3>4, <1>6
    <3> QED BY <3>3, <3>4
  <2> QED BY <2>1, <2>2
<1>8. semValue' + Cardinality(Inside') <= semValue + Cardinality(Inside)
    BY <1>5, <1>6, <1>7, SemSets
<1>9. SemSum'
  <2>1. semValue' + Cardinality(Inside') <= Cardinality(SemProcs)
      BY <1>0, <1>5, <1>6, <1>7, <1>8, SemSets DEF SemSum
  <2>2. ASSUME ~barged PROVE semValue' + Cardinality(Inside') <= 1
      BY <2>2, <1>0, <1>5, <1>6, <1>7, <1>8, SemSets DEF SemSum
  <2>3. ASSUME ~barged, NEW q \in SemProcs, HasSem(q)'
        PROVE  semAdj'[q] = IF turn'[q] = "inside" THEN 1 ELSE 0
      BY <2>3, <1>0, <1>2, <1>3 DEF SemSum
  <2>4. ~barged' <=> ~barged
      OBVIOUS
  <2> QED BY <2>1, <2>2, <2>3, <2>4 DEF SemSum
<1>10. Owed'
    BY <1>0, <1>2 DEF Owed
<1> QED BY <1>2, <1>7, <1>9, <1>10

LEMMA SemStep == SemInv /\ [SemNext]_semVars => SemInv'
<1> SUFFICES ASSUME SemInv, [SemNext]_semVars PROVE SemInv'
    OBVIOUS
<1>a. SemPlaces /\ Owed /\ TurnsLeft /\ SemSum
    BY DEF SemInv
<1>b. Turns \in Nat \ {0} /\ MaxKills \in Nat /\ Setter \in SemProcs /\ semValue \in Nat
    BY <1>a, SemAssumption DEF SemAssumption, SemPlaces
<1>1. CASE SetValue
  <2>1. /\ turn[Setter] = "set" /\ semId' = semId /\ own' = own /\ turns' = turns /\ kills' = kills
      BY <1>1 DEF SetValue
  <2>2. CASE HasSem(Setter)
    <3>1. /\ semValue' = 1 /\ semAdj' = [p \in SemProcs |-> 0] /\ turn' = [turn EXCEPT ![Setter] = "wait"]
        BY <1>1, <2>2 DEF SetValue
    <3>2. barged' = (barged \/ Inside # {})
        BY <1>1, <2>2 DEF SetValue
    <3>3. turn'[Setter] = "wait" /\ \A q \in SemProcs \ {Setter} : turn'[q] = turn[q]
        BY <3>1, <1>a, <1>b DEF SemPlaces
    <3>4. \A q \in SemProcs : (HasSem(q)' <=> HasSem(q)) /\ semAdj'[q] = 0
        BY <2>1, <3>1 DEF HasSem
    <3>5. Inside' = Inside /\ Setter \notin Inside
        BY <2>1, <3>3, <3>4, <1>b DEF Inside
    <3>6. Cardinality(Inside) <= Cardinality(SemProcs) - 1
      <4>1. Inside \subseteq SemProcs \ {Setter}
          BY <3>5, SemSets
      <4>2. IsFiniteSet(SemProcs \ {Setter}) /\ Cardinality(SemProcs \ {Setter}) = Cardinality(SemProcs) - 1
          BY SemSets, <1>b, FS_RemoveElement
      <4> QED BY <4>1, <4>2, FS_Subset
    <3>7. SemPlaces'
      <4>1. semAdj' \in [SemProcs -> -1..1] /\ semValue' \in Nat
          BY <3>1
      <4>2. turn' \in [SemProcs -> {"out", "set", "wait", "inside", "finished", "gone"}]
          BY <3>1, <1>a DEF SemPlaces
      <4> QED BY <2>1, <4>1, <4>2, <1>a DEF SemPlaces
    <3>8. Owed' /\ TurnsLeft'
        BY <2>1, <3>3, <3>4, <1>a DEF Owed, TurnsLeft
    <3>9. ~barged' => ~barged /\ Inside = {}
        BY <3>2
    <3>10. SemSum'
      <4>1. semValue' + Cardinality(Inside') <= Cardinality(SemProcs)
          BY <3>1, <3>5, <3>6, SemSets
      <4>2. ASSUME ~barged'
            PROVE  semValue' + Cardinality(Inside') <= 1 /\ \A q \in SemProcs : turn'[q] = "inside" => ~HasSem(q)'
        <5>1. Inside' = {}
            BY <4>2, <3>9, <3>5
        <5>2. Cardinality(Inside') = 0
            BY <5>1, FS_EmptySet
        <5> QED BY <5>1, <5>2, <3>1 DEF Inside
      <4> QED BY <4>1, <4>2, <3>4 DEF SemSum
    <3> QED BY <3>7, <3>8, <3>10 DEF SemInv
  <2>3. CASE ~HasSem(Setter)
    <3>1. Leave(Setter, "gone") /\ barged' = barged
        BY <1>1, <2>3 DEF SetValue
    <3>2. /\ SemSum' /\ Owed' /\ semValue' \in Nat /\ semAdj' \in [SemProcs -> -1..1]
          /\ turn' \in [SemProcs -> {"out", "set", "wait", "inside", "finished", "gone"}]
          /\ turn'[Setter] = "gone" /\ \A q \in SemProcs \ {Setter} : turn'[q] = turn[q]
        BY <2>1, <3>1, <1>b, SemLeaves
    <3> QED BY <2>1, <3>2, <1>a DEF SemInv, SemPlaces, TurnsLeft
  <2> QED BY <2>2, <2>3
<1>2. ASSUME NEW p \in SemProcs, GetSem(p) PROVE SemInv'
  <2>1. /\ turn[p] = "out" /\ own' = [own EXCEPT ![p] = semId']
        /\ turn' = [turn EXCEPT ![p] = IF p = Setter THEN "set" ELSE "wait"]
        /\ semAdj' = semAdj /\ turns' = turns /\ kills' = kills /\ barged' = barged
      BY <1>2 DEF GetSem
  <2>2. /\ turn'[p] \in {"set", "wait"} /\ own'[p] = semId'
        /\ \A q \in SemProcs \ {p} : turn'[q] = turn[q] /\ own'[q] = own[q]
      BY <2>1, <1>a DEF SemPlaces
  <2>3. /\ semId' \in 0..(Cardinality(SemProcs) + 1) /\ semValue' \in Nat
        /\ \/ semId' = semId /\ semValue' = semValue
           \/ semValue' = 0 /\ \A q \in SemProcs : own[q] # semId'
    <3>1. CASE semId = 0
      <4>1. \E n \in 1..(Cardinality(SemProcs) + 1) : \A q \in SemProcs : own[q] # n
          BY SemSets, NumberUnused
      <4>2. semId' = (CHOOSE n \in 1..(Cardinality(SemProcs) + 1) : \A q \in SemProcs : own[q] # n) /\ semValue' = 0
          BY <1>2, <3>1 DEF GetSem
      <4>3. semId' \in 1..(Cardinality(SemProcs) + 1) /\ \A q \in SemProcs : own[q] # semId'
          BY <4>1, <4>2
      <4> QED BY <4>2, <4>3, SemSets
    <3>2. CASE semId # 0
        BY <1>2, <3>2, <1>a DEF GetSem, SemPlaces
    <3> QED BY <3>1, <3>2
  <2>4. SemPlaces'
    <3>1. own' \in [SemProcs -> 0..(Cardinality(SemProcs) + 1)]
        BY <2>1, <2>3, <1>a DEF SemPlaces
    <3>2. turn' \in [SemProcs -> {"out", "set", "wait", "inside", "finished", "gone"}]
        BY <2>1, <1>a DEF SemPlaces
    <3> QED BY <2>1, <2>3, <3>1, <3>2, <1>a DEF SemPlaces
  <2>5. Owed' /\ TurnsLeft'
      BY <2>1, <2>2, <1>a, <1>b DEF Owed, TurnsLeft
  <2>6. CASE semId' = semId /\ semValue' = semValue
    <3>1. \A q \in SemProcs \ {p} : HasSem(q)' <=> HasSem(q)
        BY <2>2, <2>6 DEF HasSem
    <3>2. Inside' = Inside
        BY <2>1, <2>2, <3>1 DEF Inside
    <3>3. semAdj[p] = 0
        BY <2>1, <1>a DEF Owed
    <3>4. ASSUME ~barged, NEW q \in SemProcs, HasSem(q)'
          PROVE  semAdj'[q] = IF turn'[q] = "inside" THEN 1 ELSE 0
      <4>1. CASE q = p
          BY <4>1, <2>1, <2>2, <3>3
      <4>2. CASE q # p
        <5>1. HasSem(q) /\ turn'[q] = turn[q] /\ semAdj'[q] = semAdj[q]
            BY <4>2, <2>1, <2>2, <3>1, <3>4
        <5> QED BY <5>1, <3>4, <1>a DEF SemSum
      <4> QED BY <4>1, <4>2
    <3>5. /\ semValue' + Cardinality(Inside') <= Cardinality(SemProcs)
          /\ ~barged => semValue' + Cardinality(Inside') <= 1
        BY <2>6, <3>2, <1>a DEF SemSum
    <3>6. SemSum'
        BY <2>1, <3>4, <3>5 DEF SemSum
    <3> QED BY <2>4, <2>5, <3>6 DEF SemInv
  <2>7. CASE semValue' = 0 /\ \A q \in SemProcs : own[q] # semId'
    <3>1. \A q \in SemProcs \ {p} : ~HasSem(q)'
        BY <2>2, <2>7 DEF HasSem
    <3>2. Inside' = {}
        BY <2>2, <3>1 DEF Inside
    <3>3. Cardinality(Inside') = 0
        BY <3>2, FS_EmptySet
    <3>4. semAdj'[p] = 0 /\ turn'[p] # "inside"
        BY <2>1, <2>2, <1>a DEF Owed
    <3>5. SemSum'
        BY <2>7, <3>1, <3>3, <3>4, SemSets DEF SemSum
    <3> QED BY <2>4, <2>5, <3>5 DEF SemInv
  <2> QED BY <2>3, <2>6, <2>7
<1>3. ASSUME NEW p \in SemProcs, TakeSem(p) PROVE SemInv'
  <2>1. /\ turn[p] = "wait" /\ HasSem(p) /\ semValue > 0 /\ semValue' = semValue - 1
        /\ semAdj' = [semAdj EXCEPT ![p] = @ + 1] /\ turn' = [turn EXCEPT ![p] = "inside"]
        /\ semId' = semId /\ own' = own /\ turns' = turns /\ kills' = kills /\ barged' = barged
      BY <1>3 DEF TakeSem
  <2>2. /\ turn'[p] = "inside" /\ semAdj'[p] = semAdj[p] + 1
        /\ \A q \in SemProcs \ {p} : turn'[q] = turn[q] /\ semAdj'[q] = semAdj[q]
        /\ \A q \in SemProcs : HasSem(q)' <=> HasSem(q)
      BY <2>1, <1>a DEF SemPlaces, HasSem
  <2>3. semAdj[p] \in {-1, 0}
      BY <2>1, <1>a DEF Owed
  <2>4. semAdj'[p] \in {0, 1}
      BY <2>2, <2>3
  <2>5. SemPlaces'
    <3>1. semAdj' \in [SemProcs -> -1..1]
      <4>1. semAdj[p] + 1 \in -1..1
          BY <2>3
      <4> QED BY <2>1, <4>1, <1>a DEF SemPlaces
    <3>2. turn' \in [SemProcs -> {"out", "set", "wait", "inside", "finished", "gone"}]
        BY <2>1, <1>a DEF SemPlaces
    <3>3. semValue' \in Nat
        BY <2>1, <1>b
    <3> QED BY <2>1, <3>1, <3>2, <3>3, <1>a DEF SemPlaces
  <2>6. Owed' /\ TurnsLeft'
      BY <2>1, <2>2, <2>4, <1>a DEF Owed, TurnsLeft
  <2>7. Inside' = Inside \cup {p} /\ p \notin Inside
      BY <2>1, <2>2 DEF Inside
  <2>8. Cardinality(Inside') = Cardinality(Inside) + 1
      BY <2>7, SemSets, FS_AddElement
  <2>9. semValue' + Cardinality(Inside') = semValue + Cardinality(Inside)
      BY <2>1, <2>8, <1>b, SemSets
  <2>10. ASSUME ~barged, NEW q \in SemProcs, HasSem(q)'
         PROVE  semAdj'[q] = IF turn'[q] = "inside" THEN 1 ELSE 0
    <3>1. HasSem(q) /\ semAdj[q] = IF turn[q] = "inside" THEN 1 ELSE 0
        BY <2>2, <2>10, <1>a DEF SemSum
    <3> QED BY <2>1, <2>2, <3>1
  <2>11. SemSum'
      BY <2>1, <2>9, <2>10, <1>a DEF SemSum
  <2> QED BY <2>5, <2>6, <2>11 DEF SemInv
<1>4. ASSUME NEW p \in SemProcs, GiveSem(p) PROVE SemInv'
  <2>1. /\ turn[p] = "inside" /\ HasSem(p) /\ semValue' = semValue + 1
        /\ semAdj' = [semAdj EXCEPT ![p] = @ - 1] /\ turns' = [turns EXCEPT ![p] = @ + 1]
        /\ turn' = [turn EXCEPT ![p] = IF turns'[p] < Turns THEN "wait" ELSE "finished"]
        /\ semId' = semId /\ own' = own /\ kills' = kills /\ barged' = barged
      BY <1>4 DEF GiveSem
  <2>2. /\ turn'[p] \in {"wait", "finished"} /\ semAdj'[p] = semAdj[p] - 1 /\ turns'[p] = turns[p] + 1
        /\ turn'[p] = "wait" => turns'[p] < Turns
        /\ \A q \in SemProcs \ {p} : turn'[q] = turn[q] /\ semAdj'[q] = semAdj[q] /\ turns'[q] = turns[q]
        /\ \A q \in SemProcs : HasSem(q)' <=> HasSem(q)
      BY <2>1, <1>a DEF SemPlaces, HasSem
  <2>3. semAdj[p] \in {0, 1} /\ turns[p] < Turns /\ turns[p] \in 0..Turns
      BY <2>1, <1>a DEF Owed, TurnsLeft, SemPlaces
  <2>4. semAdj'[p] \in {-1, 0}
      BY <2>2, <2>3
  <2>5. SemPlaces'
    <3>1. semAdj' \in [SemProcs -> -1..1]
      <4>1. semAdj[p] - 1 \in -1..1
          BY <2>3
      <4> QED BY <2>1, <4>1, <1>a DEF SemPlaces
    <3>2. turn' \in [SemProcs -> {"out", "set", "wait", "inside", "finished", "gone"}]
        BY <2>1, <1>a DEF SemPlaces
    <3>3. semValue' \in Nat
        BY <2>1, <1>b
    <3>4. turns' \in [SemProcs -> 0..Turns]
      <4>1. turns[p] + 1 \in 0..Turns
          BY <2>3, <1>b
      <4> QED BY <2>1, <4>1, <1>a DEF SemPlaces
    <3> QED BY <2>1, <3>1, <3>2, <3>3, <3>4, <1>a DEF SemPlaces
  <2>6. Owed' /\ TurnsLeft'
      BY <2>1, <2>2, <2>4, <1>a DEF Owed, TurnsLeft
  <2>7. Inside' = Inside \ {p} /\ p \in Inside
      BY <2>1, <2>2 DEF Inside
  <2>8. Cardinality(Inside') = Cardinality(Inside) - 1
      BY <2>7, SemSets, FS_RemoveElement
  <2>9. semValue' + Cardinality(Inside') = semValue + Cardinality(Inside)
      BY <2>1, <2>8, <1>b, SemSets
  <2>10. ASSUME ~barged, NEW q \in SemProcs, HasSem(q)'
         PROVE  semAdj'[q] = IF turn'[q] = "inside" THEN 1 ELSE 0
    <3>1. HasSem(q) /\ semAdj[q] = IF turn[q] = "inside" THEN 1 ELSE 0
        BY <2>2, <2>10, <1>a DEF SemSum
    <3> QED BY <2>1, <2>2, <3>1
  <2>11. SemSum'
      BY <2>1, <2>9, <2>10, <1>a DEF SemSum
  <2> QED BY <2>5, <2>6, <2>11 DEF SemInv
<1>5. ASSUME NEW p \in SemProcs, SemFails(p) PROVE SemInv'
  <2>1. /\ Leave(p, "gone") /\ semId' = semId /\ own' = own /\ turns' = turns /\ kills' = kills /\ barged' = barged
      BY <1>5 DEF SemFails
  <2>2. /\ SemSum' /\ Owed' /\ semValue' \in Nat /\ semAdj' \in [SemProcs -> -1..1]
        /\ turn' \in [SemProcs -> {"out", "set", "wait", "inside", "finished", "gone"}]
        /\ turn'[p] = "gone" /\ \A q \in SemProcs \ {p} : turn'[q] = turn[q]
      BY <2>1, SemLeaves
  <2> QED BY <2>1, <2>2, <1>a DEF SemInv, SemPlaces, TurnsLeft
<1>6. ASSUME NEW p \in SemProcs, Finish(p) PROVE SemInv'
  <2>1. turn[p] = "finished" /\ own' = own /\ turns' = turns /\ kills' = kills /\ barged' = barged
      BY <1>6 DEF Finish
  <2>2. CASE p = Setter /\ HasSem(p)
    <3>1. /\ semId' = 0 /\ semValue' = 0 /\ semAdj' = [q \in SemProcs |-> 0] /\ turn' = [turn EXCEPT ![p] = "gone"]
        BY <1>6, <2>2 DEF Finish
    <3>2. /\ \A q \in SemProcs : ~HasSem(q)' /\ semAdj'[q] = 0
          /\ turn'[p] = "gone" /\ \A q \in SemProcs \ {p} : turn'[q] = turn[q]
        BY <3>1, <1>a DEF HasSem, SemPlaces
    <3>3. Inside' = {}
        BY <3>2 DEF Inside
    <3>4. Cardinality(Inside') = 0
        BY <3>3, FS_EmptySet
    <3>5. SemSum'
        BY <3>1, <3>2, <3>4, SemSets DEF SemSum
    <3>6. SemPlaces'
        BY <2>1, <3>1, <1>a, SemSets DEF SemPlaces
    <3>7. Owed' /\ TurnsLeft'
        BY <2>1, <3>2, <1>a DEF Owed, TurnsLeft
    <3> QED BY <3>5, <3>6, <3>7 DEF SemInv
  <2>3. CASE ~(p = Setter /\ HasSem(p))
    <3>1. Leave(p, "gone") /\ semId' = semId
        BY <1>6, <2>3 DEF Finish
    <3>2. /\ SemSum' /\ Owed' /\ semValue' \in Nat /\ semAdj' \in [SemProcs -> -1..1]
          /\ turn' \in [SemProcs -> {"out", "set", "wait", "inside", "finished", "gone"}]
          /\ turn'[p] = "gone" /\ \A q \in SemProcs \ {p} : turn'[q] = turn[q]
        BY <2>1, <3>1, SemLeaves
    <3> QED BY <2>1, <3>1, <3>2, <1>a DEF SemInv, SemPlaces, TurnsLeft
  <2> QED BY <2>2, <2>3
<1>7. ASSUME NEW p \in SemProcs, KillSem(p) PROVE SemInv'
  <2>1. /\ Leave(p, "out") /\ kills < MaxKills /\ kills' = kills + 1 /\ turns' = [turns EXCEPT ![p] = 0]
        /\ semId' = semId /\ own' = own /\ barged' = barged
      BY <1>7 DEF KillSem
  <2>2. /\ SemSum' /\ Owed' /\ semValue' \in Nat /\ semAdj' \in [SemProcs -> -1..1]
        /\ turn' \in [SemProcs -> {"out", "set", "wait", "inside", "finished", "gone"}]
        /\ turn'[p] = "out" /\ \A q \in SemProcs \ {p} : turn'[q] = turn[q]
      BY <2>1, SemLeaves
  <2>3. kills' \in 0..MaxKills /\ turns' \in [SemProcs -> 0..Turns]
      BY <2>1, <1>a, <1>b DEF SemPlaces
  <2>4. turns'[p] = 0 /\ \A q \in SemProcs \ {p} : turns'[q] = turns[q]
      BY <2>1, <1>a DEF SemPlaces
  <2> QED BY <2>1, <2>2, <2>3, <2>4, <1>a, <1>b DEF SemInv, SemPlaces, TurnsLeft
<1>8. CASE UNCHANGED semVars
  <2>1. /\ semId' = semId /\ semValue' = semValue /\ semAdj' = semAdj /\ turn' = turn
        /\ own' = own /\ turns' = turns /\ kills' = kills /\ barged' = barged
      BY <1>8 DEF semVars
  <2>2. Inside' = Inside /\ \A q \in SemProcs : HasSem(q)' <=> HasSem(q)
      BY <2>1 DEF Inside, HasSem
  <2>3. SemSum'
      BY <2>1, <2>2, <1>a DEF SemSum
  <2> QED BY <2>1, <2>3, <1>a DEF SemInv, SemPlaces, Owed, TurnsLeft
<1> QED BY <1>1, <1>2, <1>3, <1>4, <1>5, <1>6, <1>7, <1>8 DEF SemNext, SemRuns

-----------------------------------------------------------------------------
(* lock2.c, lock3.c, lock5.c *)

Place == [prog : {"none", "lock2", "lock3", "lock5"}, at : {"out", "run", "region", "gone"}, n : Nat]

LockPlaces ==
    /\ lockFile \in Lockers \cup {"none"} /\ dead \subseteq Lockers
    /\ region \in [Lockers -> [Parts -> {"none", "read", "write"}]]
    /\ locker \in [Lockers -> Place]

\* the calls and tries a program has made are not more than it has
CallsCounted ==
    \A p \in Lockers :
        /\ locker[p].prog = "none" => locker[p].n = 0
        /\ locker[p].prog = "lock2" => locker[p].n <= Tries
        /\ locker[p].prog \in {"lock3", "lock5"} => locker[p].n <= Len(Calls[locker[p].prog])

\* only lock2.c is ever between a creation and a removal; a killed process is not back
LockLines ==
    \A p \in Lockers :
        /\ locker[p].at = "region" => locker[p].prog = "lock2"
        /\ p \in dead => locker[p].at = "gone"

LocksInv == LockPlaces /\ CallsCounted /\ LockLines /\ LocksExclusive

LEMMA CallsLengths ==
    ASSUME NEW prog \in {"lock3", "lock5"}
    PROVE  Len(Calls[prog]) \in {2, 6} /\ \A n \in Nat : n <= Len(Calls[prog]) => n <= 6
<1>1. CASE prog = "lock3"
  <2>1. Len(Calls["lock3"]) = 2
      BY DEF Calls
  <2> QED BY <1>1, <2>1
<1>2. CASE prog = "lock5"
  <2>1. Len(Calls["lock5"]) = 6
      BY DEF Calls
  <2> QED BY <1>2, <2>1
<1> QED BY <1>1, <1>2

LEMMA CallsForms ==
    ASSUME NEW prog \in {"lock3", "lock5"}, NEW i \in Nat, i < Len(Calls[prog])
    PROVE  Calls[prog][i + 1].kind \in {"none", "read", "write"} /\ Calls[prog][i + 1].parts \subseteq Parts
<1>1. CASE prog = "lock3"
  <2>1. Len(Calls["lock3"]) = 2
      BY DEF Calls
  <2>2. i + 1 \in {1, 2}
      BY <1>1, <2>1
  <2> QED BY <1>1, <2>2 DEF Calls, Parts
<1>2. CASE prog = "lock5"
  <2>1. Len(Calls["lock5"]) = 6
      BY DEF Calls
  <2>2. i + 1 \in {1, 2, 3, 4, 5, 6}
      BY <1>2, <2>1
  <2> QED BY <1>2, <2>2 DEF Calls, Parts
<1> QED BY <1>1, <1>2

LEMMA LocksTyped == LocksInv => LocksTypes /\ LocksExclusive
<1> SUFFICES ASSUME LocksInv, NEW p \in Lockers
             PROVE  locker[p].at \in {"out", "run", "region", "gone"} /\ locker[p].n \in 0..Tries \cup 0..6
    BY DEF LocksInv, LocksTypes, LockPlaces
<1>1. locker[p] \in Place
    BY DEF LocksInv, LockPlaces
<1>2. locker[p].n \in Nat /\ locker[p].prog \in {"none", "lock2", "lock3", "lock5"} /\ locker[p].at \in {"out", "run", "region", "gone"}
    BY <1>1 DEF Place
<1>3. /\ locker[p].prog = "none" => locker[p].n = 0
      /\ locker[p].prog = "lock2" => locker[p].n <= Tries
      /\ locker[p].prog \in {"lock3", "lock5"} => locker[p].n <= 6
    BY <1>2, CallsLengths DEF LocksInv, CallsCounted
<1> QED BY <1>2, <1>3, LocksAssumption DEF LocksAssumption

LEMMA LocksInitial == LocksInit => LocksInv
<1> SUFFICES ASSUME LocksInit PROVE LocksInv
    OBVIOUS
<1>1. \A p \in Lockers : locker[p] = [prog |-> "none", at |-> "out", n |-> 0] /\ region[p] = Unlocked
    BY DEF LocksInit
<1>2. LockPlaces
  <2>1. Unlocked \in [Parts -> {"none", "read", "write"}]
      BY DEF Unlocked
  <2>2. [prog |-> "none", at |-> "out", n |-> 0] \in Place
      BY DEF Place
  <2> QED BY <2>1, <2>2 DEF LocksInit, LockPlaces
<1>3. CallsCounted /\ LockLines
    BY <1>1, LocksAssumption DEF CallsCounted, LockLines, LocksInit, LocksAssumption
<1>4. LocksExclusive
  <2>1. \A p \in Lockers : lockFile # p
      BY LocksAssumption DEF LocksInit, LocksAssumption
  <2>2. \A p \in Lockers, r \in Parts : region[p][r] = "none"
      BY <1>1 DEF Unlocked
  <2> QED BY <1>1, <2>1, <2>2 DEF LocksExclusive, LocksInit
<1> QED BY <1>2, <1>3, <1>4 DEF LocksInv

LEMMA LocksStep == LocksInv /\ [LocksNext]_lockVars => LocksInv'
<1> SUFFICES ASSUME LocksInv, [LocksNext]_lockVars PROVE LocksInv'
    OBVIOUS
<1>a. LockPlaces /\ CallsCounted /\ LockLines /\ LocksExclusive
    BY DEF LocksInv
<1>b. \A p \in Lockers : /\ locker[p] \in Place /\ locker[p].n \in Nat
                         /\ locker[p].prog \in {"none", "lock2", "lock3", "lock5"}
                         /\ locker[p].at \in {"out", "run", "region", "gone"}
    BY <1>a DEF LockPlaces, Place
<1>c. Unlocked \in [Parts -> {"none", "read", "write"}] /\ \A r \in Parts : Unlocked[r] = "none"
    BY DEF Unlocked
<1>d. "none" \notin Lockers /\ Tries \in Nat
    BY LocksAssumption DEF LocksAssumption
<1>1. ASSUME NEW p \in Lockers, Begin(p) PROVE LocksInv'
  <2>1. PICK prog \in {"lock2", "lock3", "lock5"} : locker' = [locker EXCEPT ![p] = [prog |-> prog, at |-> "run", n |-> 0]]
      BY <1>1 DEF Begin
  <2>2. locker[p].at = "out" /\ lockFile' = lockFile /\ region' = region /\ dead' = dead
      BY <1>1 DEF Begin
  <2>3. locker'[p] = [prog |-> prog, at |-> "run", n |-> 0] /\ \A q \in Lockers \ {p} : locker'[q] = locker[q]
      BY <2>1, <1>a DEF LockPlaces
  <2>4. [prog |-> prog, at |-> "run", n |-> 0] \in Place
      BY DEF Place
  <2>5. LockPlaces'
      BY <2>1, <2>2, <2>4, <1>a DEF LockPlaces
  <2>6. CallsCounted' /\ LockLines'
      BY <2>2, <2>3, <1>a, <1>d DEF CallsCounted, LockLines
  <2>7. LocksExclusive'
      BY <2>2, <2>3, <1>a DEF LocksExclusive, LockPlaces
  <2> QED BY <2>5, <2>6, <2>7 DEF LocksInv
<1>2. ASSUME NEW p \in Lockers, Create(p) PROVE LocksInv'
  <2>1. /\ locker[p].prog = "lock2" /\ locker[p].at = "run" /\ locker[p].n < Tries
        /\ region' = region /\ dead' = dead
      BY <1>2 DEF Create
  <2>2. p \notin dead /\ lockFile # p
      BY <2>1, <1>a DEF LockLines, LocksExclusive
  <2>3. CASE lockFile = "none"
    <3>1. lockFile' = p /\ locker' = [locker EXCEPT ![p].n = @ + 1, ![p].at = "region"]
        BY <1>2, <2>3 DEF Create
    <3>2. /\ locker'[p] = [locker[p] EXCEPT !.n = @ + 1, !.at = "region"]
          /\ \A q \in Lockers \ {p} : locker'[q] = locker[q]
        BY <3>1, <1>a DEF LockPlaces
    <3>3. locker'[p].n = locker[p].n + 1 /\ locker'[p].at = "region" /\ locker'[p].prog = "lock2" /\ locker'[p] \in Place
      <4>1. locker'[p] = [prog |-> locker[p].prog, at |-> "region", n |-> locker[p].n + 1]
          BY <3>2, <1>b DEF Place
      <4> QED BY <4>1, <2>1, <1>b DEF Place
    <3>4. LockPlaces'
        BY <3>1, <3>2, <3>3, <2>1, <1>a DEF LockPlaces
    <3>5. CallsCounted' /\ LockLines'
      <4>1. CallsCounted'
        <5> SUFFICES ASSUME NEW q \in Lockers
                     PROVE  /\ locker'[q].prog = "none" => locker'[q].n = 0
                            /\ locker'[q].prog = "lock2" => locker'[q].n <= Tries
                            /\ locker'[q].prog \in {"lock3", "lock5"} => locker'[q].n <= Len(Calls[locker'[q].prog])
            BY DEF CallsCounted
        <5>1. CASE q = p
            BY <5>1, <3>3, <2>1, <1>b, <1>d
        <5>2. CASE q # p
            BY <5>2, <3>2, <1>a DEF CallsCounted
        <5> QED BY <5>1, <5>2
      <4>2. LockLines'
        <5> SUFFICES ASSUME NEW q \in Lockers
                     PROVE  /\ locker'[q].at = "region" => locker'[q].prog = "lock2"
                            /\ q \in dead' => locker'[q].at = "gone"
            BY DEF LockLines
        <5>1. CASE q = p
            BY <5>1, <3>3, <2>1, <2>2
        <5>2. CASE q # p
            BY <5>2, <3>2, <2>1, <1>a DEF LockLines
        <5> QED BY <5>1, <5>2
      <4> QED BY <4>1, <4>2
    <3>6. LocksExclusive'
        BY <3>1, <3>2, <3>3, <2>1, <2>2, <2>3, <1>a, <1>d DEF LocksExclusive, LockPlaces
    <3> QED BY <3>4, <3>5, <3>6 DEF LocksInv
  <2>4. CASE lockFile # "none"
    <3>1. lockFile' = lockFile /\ locker' = [locker EXCEPT ![p].n = @ + 1]
        BY <1>2, <2>4 DEF Create
    <3>2. /\ locker'[p] = [locker[p] EXCEPT !.n = @ + 1]
          /\ \A q \in Lockers \ {p} : locker'[q] = locker[q]
        BY <3>1, <1>a DEF LockPlaces
    <3>3. locker'[p].n = locker[p].n + 1 /\ locker'[p].at = "run" /\ locker'[p].prog = "lock2" /\ locker'[p] \in Place
        BY <3>2, <2>1, <1>b DEF Place
    <3>4. LockPlaces'
        BY <3>1, <3>2, <3>3, <2>1, <1>a DEF LockPlaces
    <3>5. CallsCounted' /\ LockLines'
      <4>1. CallsCounted'
        <5> SUFFICES ASSUME NEW q \in Lockers
                     PROVE  /\ locker'[q].prog = "none" => locker'[q].n = 0
                            /\ locker'[q].prog = "lock2" => locker'[q].n <= Tries
                            /\ locker'[q].prog \in {"lock3", "lock5"} => locker'[q].n <= Len(Calls[locker'[q].prog])
            BY DEF CallsCounted
        <5>1. CASE q = p
            BY <5>1, <3>3, <2>1, <1>b, <1>d
        <5>2. CASE q # p
            BY <5>2, <3>2, <1>a DEF CallsCounted
        <5> QED BY <5>1, <5>2
      <4>2. LockLines'
        <5> SUFFICES ASSUME NEW q \in Lockers
                     PROVE  /\ locker'[q].at = "region" => locker'[q].prog = "lock2"
                            /\ q \in dead' => locker'[q].at = "gone"
            BY DEF LockLines
        <5>1. CASE q = p
            BY <5>1, <3>3, <2>1, <2>2
        <5>2. CASE q # p
            BY <5>2, <3>2, <2>1, <1>a DEF LockLines
        <5> QED BY <5>1, <5>2
      <4> QED BY <4>1, <4>2
    <3>6. LocksExclusive'
        BY <3>1, <3>2, <3>3, <2>1, <2>2, <2>4, <1>a, <1>d DEF LocksExclusive, LockPlaces
    <3> QED BY <3>4, <3>5, <3>6 DEF LocksInv
  <2> QED BY <2>3, <2>4
<1>3. ASSUME NEW p \in Lockers, Remove(p) PROVE LocksInv'
  <2>1. /\ locker[p].prog = "lock2" /\ locker[p].at = "region" /\ region' = region /\ dead' = dead
        /\ lockFile' = "none" /\ locker' = [locker EXCEPT ![p].at = "run"]
      BY <1>3 DEF Remove
  <2>2. /\ locker'[p] = [locker[p] EXCEPT !.at = "run"]
        /\ \A q \in Lockers \ {p} : locker'[q] = locker[q]
      BY <2>1, <1>a DEF LockPlaces
  <2>3. locker'[p].n = locker[p].n /\ locker'[p].at = "run" /\ locker'[p].prog = "lock2" /\ locker'[p] \in Place
      BY <2>2, <2>1, <1>b DEF Place
  <2>4. LockPlaces'
      BY <2>1, <2>2, <2>3, <1>a DEF LockPlaces
  <2>5. lockFile = p /\ p \notin dead
      BY <2>1, <1>a DEF LocksExclusive
  <2>6. CallsCounted' /\ LockLines'
      BY <2>1, <2>2, <2>3, <2>5, <1>a, <1>d DEF CallsCounted, LockLines
  <2>7. LocksExclusive'
      BY <2>1, <2>2, <2>3, <2>5, <1>a, <1>d DEF LocksExclusive, LockPlaces
  <2> QED BY <2>4, <2>6, <2>7 DEF LocksInv
<1>4. ASSUME NEW p \in Lockers, LockRegion(p) PROVE LocksInv'
  <2> DEFINE c == Calls[locker[p].prog][locker[p].n + 1]
  <2>1. /\ locker[p].prog \in {"lock3", "lock5"} /\ locker[p].at = "run"
        /\ locker[p].n < Len(Calls[locker[p].prog]) /\ locker' = [locker EXCEPT ![p].n = @ + 1]
        /\ lockFile' = lockFile /\ dead' = dead
      BY <1>4 DEF LockRegion
  <2>2. region' = region \/ (Free(p, c) /\ region' = [region EXCEPT ![p] = [r \in Parts |-> IF r \in c.parts THEN c.kind ELSE @[r]]])
      BY <1>4 DEF LockRegion
  <2>3. c.kind \in {"none", "read", "write"} /\ c.parts \subseteq Parts
      BY <2>1, <1>b, CallsForms
  <2>4. /\ locker'[p] = [locker[p] EXCEPT !.n = @ + 1]
        /\ \A q \in Lockers \ {p} : locker'[q] = locker[q]
      BY <2>1, <1>a DEF LockPlaces
  <2>5. locker'[p].n = locker[p].n + 1 /\ locker'[p].at = "run" /\ locker'[p].prog = locker[p].prog /\ locker'[p] \in Place
      BY <2>4, <2>1, <1>b DEF Place
  <2> HIDE DEF c
  <2>6. region' = region \/ (Free(p, c) /\ \A q \in Lockers, r \in Parts :
                               region'[q][r] = IF q = p /\ r \in c.parts THEN c.kind ELSE region[q][r])
      BY <2>2, <1>a DEF LockPlaces
  <2>7. region' \in [Lockers -> [Parts -> {"none", "read", "write"}]]
    <3>1. CASE region' = region
        BY <3>1, <1>a DEF LockPlaces
    <3>2. CASE region' = [region EXCEPT ![p] = [r \in Parts |-> IF r \in c.parts THEN c.kind ELSE @[r]]]
      <4>1. [r \in Parts |-> IF r \in c.parts THEN c.kind ELSE region[p][r]] \in [Parts -> {"none", "read", "write"}]
          BY <2>3, <1>a DEF LockPlaces
      <4> QED BY <3>2, <4>1, <1>a DEF LockPlaces
    <3> QED BY <2>2, <3>1, <3>2
  <2>8. \A q \in Lockers \ {p} : region'[q] = region[q]
      BY <2>2, <1>a DEF LockPlaces
  <2>9. LockPlaces'
      BY <2>1, <2>4, <2>5, <2>7, <1>a DEF LockPlaces
  <2>10. CallsCounted' /\ LockLines'
    <3>1. Len(Calls[locker[p].prog]) \in {2, 6}
        BY <2>1, CallsLengths
    <3>2. CallsCounted'
        BY <2>1, <2>4, <2>5, <3>1, <1>a, <1>b DEF CallsCounted
    <3>3. LockLines'
        BY <2>1, <2>4, <2>5, <1>a, <1>b DEF LockLines
    <3> QED BY <3>2, <3>3
  <2>11. ASSUME NEW s \in Lockers, NEW q \in Lockers, NEW r \in Parts, region'[s][r] = "write", s # q
         PROVE  region'[q][r] = "none"
    <3>1. \A x, y \in Lockers : region[x][r] = "write" /\ x # y => region[y][r] = "none"
        BY <1>a DEF LocksExclusive
    <3>2. CASE region' = region
        BY <3>1, <3>2, <2>11
    <3>3. CASE region' # region
      <4>1. Free(p, c) /\ region'[q][r] = (IF q = p /\ r \in c.parts THEN c.kind ELSE region[q][r])
            /\ region'[s][r] = (IF s = p /\ r \in c.parts THEN c.kind ELSE region[s][r])
          BY <2>6, <3>3
      <4>2. \A x \in Lockers \ {p} :
              r \in c.parts => c.kind = "none" \/ region[x][r] = "none" \/ (c.kind = "read" /\ region[x][r] = "read")
        <5>1. ASSUME NEW x \in Lockers \ {p}, r \in c.parts
              PROVE  c.kind = "none" \/ region[x][r] = "none" \/ (c.kind = "read" /\ region[x][r] = "read")
            BY <4>1, <5>1 DEF Free
        <5> QED BY <5>1
      <4>3. CASE s = p /\ r \in c.parts
          BY <4>1, <4>2, <4>3, <2>11
      <4>4. CASE q = p /\ r \in c.parts
        <5>1. region[s][r] = "write"
            BY <4>1, <4>4, <2>11
        <5>2. c.kind = "none"
            BY <4>2, <4>4, <5>1, <2>11
        <5> QED BY <4>1, <4>4, <5>2
      <4>5. CASE ~(s = p /\ r \in c.parts) /\ ~(q = p /\ r \in c.parts)
        <5>1. region[s][r] = "write" /\ region'[q][r] = region[q][r]
            BY <4>1, <4>5, <2>11
        <5> QED BY <3>1, <5>1, <2>11
      <4> QED BY <4>3, <4>4, <4>5
    <3> QED BY <3>2, <3>3
  <2>12. /\ \A q \in Lockers : locker'[q].at = locker[q].at
         /\ \A q \in Lockers : locker'[q].at \in {"out", "gone"} => region'[q] = Unlocked
      BY <2>1, <2>4, <2>5, <2>8, <1>a DEF LocksExclusive
  <2>13. LocksExclusive'
    <3>1. \A q \in Lockers : locker'[q].at = "region" <=> lockFile' = q /\ q \notin dead'
        BY <2>1, <2>12, <1>a DEF LocksExclusive
    <3>2. lockFile' = "none" \/ lockFile' \in dead' \/ locker'[lockFile'].at = "region"
        BY <2>1, <2>12, <1>a DEF LocksExclusive, LockPlaces
    <3> QED BY <3>1, <3>2, <2>11, <2>12 DEF LocksExclusive
  <2> QED BY <2>9, <2>10, <2>13 DEF LocksInv
<1>5. ASSUME NEW p \in Lockers, End(p) \/ KillLocker(p) PROVE LocksInv'
  <2>1. /\ locker[p].at \in {"run", "region"} /\ locker' = [locker EXCEPT ![p].at = "gone"]
        /\ region' = [region EXCEPT ![p] = Unlocked] /\ lockFile' = lockFile
        /\ (dead' = dead /\ locker[p].at = "run") \/ dead' = dead \cup {p}
      BY <1>5 DEF End, KillLocker
  <2>2. /\ locker'[p] = [locker[p] EXCEPT !.at = "gone"]
        /\ \A q \in Lockers \ {p} : locker'[q] = locker[q]
        /\ region'[p] = Unlocked /\ \A q \in Lockers \ {p} : region'[q] = region[q]
      BY <2>1, <1>a DEF LockPlaces
  <2>3. locker'[p].n = locker[p].n /\ locker'[p].at = "gone" /\ locker'[p].prog = locker[p].prog /\ locker'[p] \in Place
      BY <2>2, <2>1, <1>b DEF Place
  <2>4. LockPlaces'
      BY <2>1, <2>2, <2>3, <1>a, <1>c DEF LockPlaces
  <2>5. CallsCounted' /\ LockLines'
      BY <2>1, <2>2, <2>3, <1>a, <1>d DEF CallsCounted, LockLines
  <2>6. \A q \in Lockers : locker'[q].at = "region" <=> lockFile' = q /\ q \notin dead'
      BY <2>1, <2>2, <2>3, <1>a DEF LocksExclusive
  <2>7. lockFile' = "none" \/ lockFile' \in dead' \/ locker'[lockFile'].at = "region"
    <3>1. CASE lockFile = p
      <4>1. locker[p].at = "region" \/ p \in dead
          BY <3>1, <1>a, <1>d DEF LocksExclusive
      <4> QED BY <2>1, <3>1, <4>1
    <3>2. CASE lockFile # p
        BY <2>1, <2>2, <3>2, <1>a DEF LocksExclusive, LockPlaces
    <3> QED BY <3>1, <3>2
  <2>8. \A s, q \in Lockers, r \in Parts : region'[s][r] = "write" /\ s # q => region'[q][r] = "none"
      BY <2>2, <1>a, <1>c DEF LocksExclusive
  <2>9. \A q \in Lockers : locker'[q].at \in {"out", "gone"} => region'[q] = Unlocked
      BY <2>2, <1>a DEF LocksExclusive
  <2> QED BY <2>4, <2>5, <2>6, <2>7, <2>8, <2>9 DEF LocksInv, LocksExclusive
<1>6. CASE UNCHANGED lockVars
  <2>1. lockFile' = lockFile /\ region' = region /\ locker' = locker /\ dead' = dead
      BY <1>6 DEF lockVars
  <2> QED BY <2>1, <1>a DEF LocksInv, LockPlaces, CallsCounted, LockLines, LocksExclusive
<1> QED BY <1>1, <1>2, <1>3, <1>4, <1>5, <1>6 DEF LocksNext, LockerRuns

-----------------------------------------------------------------------------
(* radimo.c: a process that has the disk closed has written nothing *)

DiskPlaces ==
    /\ disk \subseteq Blocks /\ user \in [DiskUsers -> {"out", "open", "mounted"}]
    /\ wrote \in [DiskUsers -> SUBSET Blocks] /\ diskActs \in 0..MaxDisk

DiskInv ==
    /\ diskLoaded \in BOOLEAN /\ changed \in BOOLEAN /\ pending \in BOOLEAN
    /\ DiskPlaces /\ DiskKeeps
    /\ \A u \in DiskUsers : user[u] = "out" => wrote[u] = {}

LEMMA DiskTyped == DiskInv => RadimoTypes /\ DiskKeeps
BY Zenon DEF DiskInv, DiskPlaces, RadimoTypes

LEMMA DiskInitial == RadimoInit => DiskInv
<1> SUFFICES ASSUME RadimoInit PROVE DiskInv
    OBVIOUS
<1>1. diskLoaded \in BOOLEAN /\ changed \in BOOLEAN /\ pending \in BOOLEAN
    BY Zenon DEF RadimoInit
<1>2. DiskPlaces
    BY DiskAssumption DEF DiskAssumption, RadimoInit, DiskPlaces
<1>3. ~pending /\ ~InUse
    BY DEF RadimoInit, InUse
<1>4. \A u \in DiskUsers : wrote[u] = {}
    BY DEF RadimoInit
<1> QED BY <1>1, <1>2, <1>3, <1>4 DEF DiskInv, DiskKeeps

LEMMA DiskStep == DiskInv /\ [RadimoNext]_diskVars => DiskInv'
<1> SUFFICES ASSUME DiskInv, [RadimoNext]_diskVars PROVE DiskInv'
    OBVIOUS
<1>1. diskLoaded' \in BOOLEAN /\ changed' \in BOOLEAN /\ pending' \in BOOLEAN
  <2>1. CASE LoadDisk \/ UnloadDisk \/ TimerFires
      BY <2>1, Zenon DEF LoadDisk, UnloadDisk, TimerFires, DiskInv
  <2>2. ASSUME NEW u \in DiskUsers, OpenDisk(u) \/ MediaChange(u) \/ ReleaseDisk(u) \/ RequestWrite(u) \/ FlushBuffers(u)
        PROVE  diskLoaded' \in BOOLEAN /\ changed' \in BOOLEAN /\ pending' \in BOOLEAN
      BY <2>2, Zenon DEF OpenDisk, MediaChange, ReleaseDisk, RequestWrite, FlushBuffers, DiskInv
  <2>3. CASE UNCHANGED diskVars
      BY <2>3, Zenon DEF diskVars, DiskInv
  <2> QED BY <2>1, <2>2, <2>3 DEF RadimoNext
<1>2. (pending' \/ InUse') => diskLoaded'
  <2>0. (pending \/ InUse) => diskLoaded
      BY DEF DiskInv, DiskKeeps
  <2>1. CASE LoadDisk \/ UnloadDisk \/ TimerFires
      BY <2>0, <2>1 DEF LoadDisk, UnloadDisk, TimerFires, InUse, Empty
  <2>2. ASSUME NEW u \in DiskUsers, OpenDisk(u)
        PROVE  diskLoaded'
      BY <2>2 DEF OpenDisk
  <2>3. ASSUME NEW u \in DiskUsers, MediaChange(u) \/ ReleaseDisk(u) \/ RequestWrite(u) \/ FlushBuffers(u)
        PROVE  diskLoaded'
    <3>1. user[u] # "out"
        BY <2>3 DEF MediaChange, ReleaseDisk, RequestWrite, FlushBuffers
    <3>2. diskLoaded
        BY <2>0, <3>1 DEF InUse
    <3> QED BY <2>3, <3>2 DEF MediaChange, ReleaseDisk, RequestWrite, FlushBuffers
  <2>4. CASE UNCHANGED diskVars
      BY <2>0, <2>4 DEF diskVars, InUse
  <2> QED BY <2>1, <2>2, <2>3, <2>4 DEF RadimoNext
<1>3. DiskPlaces' /\ \A u \in DiskUsers : wrote'[u] \subseteq disk' /\ (user'[u] = "out" => wrote'[u] = {})
  <2>0. /\ DiskPlaces
        /\ \A u \in DiskUsers : wrote[u] \subseteq disk /\ (user[u] = "out" => wrote[u] = {})
      BY DEF DiskInv, DiskKeeps
  <2>a. Empty => disk' = {} /\ wrote' = [u \in DiskUsers |-> {}]
      BY DEF Empty
  <2>b. DiskAct => diskActs' \in 0..MaxDisk
      BY <2>0, DiskAssumption DEF DiskAct, DiskPlaces, DiskAssumption
  <2> USE <2>0 DEF DiskPlaces
  <2>1. CASE LoadDisk \/ UnloadDisk
      BY <2>1, <2>a, <2>b DEF LoadDisk, UnloadDisk
  <2>2. CASE TimerFires
    <3>1. (disk' = disk /\ wrote' = wrote) \/ (disk' = {} /\ wrote' = [u \in DiskUsers |-> {}])
        BY <2>2, <2>a DEF TimerFires
    <3>2. user' = user /\ diskActs' = diskActs
        BY <2>2 DEF TimerFires
    <3> QED BY <3>1, <3>2
  <2>3. ASSUME NEW v \in DiskUsers, OpenDisk(v)
        PROVE  DiskPlaces' /\ \A u \in DiskUsers : wrote'[u] \subseteq disk' /\ (user'[u] = "out" => wrote'[u] = {})
      BY <2>3, <2>b DEF OpenDisk
  <2>4. ASSUME NEW v \in DiskUsers, ReleaseDisk(v)
        PROVE  DiskPlaces' /\ \A u \in DiskUsers : wrote'[u] \subseteq disk' /\ (user'[u] = "out" => wrote'[u] = {})
      BY <2>4 DEF ReleaseDisk
  <2>5. ASSUME NEW v \in DiskUsers, MediaChange(v) \/ FlushBuffers(v)
        PROVE  DiskPlaces' /\ \A u \in DiskUsers : wrote'[u] \subseteq disk' /\ (user'[u] = "out" => wrote'[u] = {})
    <3>1. (disk' = disk /\ wrote' = wrote) \/ (disk' = {} /\ wrote' = [u \in DiskUsers |-> {}])
        BY <2>5, <2>a DEF MediaChange, FlushBuffers
    <3>2. /\ (user' = user \/ user' = [user EXCEPT ![v] = "mounted"])
          /\ diskActs' = diskActs
        BY <2>5 DEF MediaChange, FlushBuffers
    <3>3. user[v] # "out"
        BY <2>5 DEF MediaChange, FlushBuffers
    <3> QED BY <3>1, <3>2, <3>3
  <2>6. ASSUME NEW v \in DiskUsers, RequestWrite(v)
        PROVE  DiskPlaces' /\ \A u \in DiskUsers : wrote'[u] \subseteq disk' /\ (user'[u] = "out" => wrote'[u] = {})
    <3>1. PICK span \in SUBSET Blocks :
            \/ UNCHANGED <<disk, wrote>>
            \/ disk' = disk \cup span /\ wrote' = [wrote EXCEPT ![v] = @ \cup span]
      <4>1. PICK first \in Blocks, total \in 1..Size :
              IF first + total - 1 > Size THEN UNCHANGED <<disk, wrote>>
              ELSE /\ disk' = disk \cup first..(first + total - 1)
                   /\ wrote' = [wrote EXCEPT ![v] = @ \cup first..(first + total - 1)]
          BY <2>6 DEF RequestWrite
      <4>2. CASE UNCHANGED <<disk, wrote>>
        <5>1. {} \in SUBSET Blocks
            OBVIOUS
        <5> QED BY <4>2, <5>1
      <4>3. CASE ~UNCHANGED <<disk, wrote>>
        <5>1. first..(first + total - 1) \in SUBSET Blocks
            BY <4>1, <4>3, DiskAssumption DEF Blocks, DiskAssumption
        <5> QED BY <4>1, <4>3, <5>1
      <4> QED BY <4>2, <4>3
    <3>2. user' = user /\ diskActs' \in 0..MaxDisk /\ user[v] # "out"
        BY <2>6, <2>b DEF RequestWrite
    <3> QED BY <3>1, <3>2
  <2>7. CASE UNCHANGED diskVars
      BY <2>7 DEF diskVars
  <2> QED BY <2>1, <2>2, <2>3, <2>4, <2>5, <2>6, <2>7 DEF RadimoNext
<1> QED BY <1>1, <1>2, <1>3 DEF DiskInv, DiskKeeps

-----------------------------------------------------------------------------
(* iomap.c *)

MapPlaces ==
    /\ size \in 0..(2 * Page) /\ ptr \in 0..(MaxMap + 1)
    /\ mapper \in [MapUsers -> {"out", "open", "copy", "remap"}]
    /\ pos \in [MapUsers -> 0..(2 * Page)]
    /\ \A m \in mappings : m.id \in 1..(MaxMap + 1) /\ m.size \in Sizes
    /\ \A p \in MapUsers : mapper[p] = "remap" => size \in Sizes

\* every mapping, and every call on its way to one, has been counted
MapCounted ==
    /\ IsFiniteSet(mappings) /\ mapActs \in 0..MaxMap
    /\ Cardinality(mappings) + Cardinality(Setting) <= mapActs

MapFlags == mapLoaded \in BOOLEAN /\ base \in BOOLEAN /\ spoilt \in BOOLEAN

\* the module of nobody is not in use; of one that is set up once at a time, the call that
\* is copying has found it free, and the one that maps has left nothing mapped
MapOnce ==
    /\ ~mapLoaded => \A p \in MapUsers : mapper[p] = "out"
    /\ ~spoilt =>
         /\ \A p, q \in Setting : p = q
         /\ \A p \in MapUsers : mapper[p] = "copy" => ~base
         /\ \A p \in MapUsers : mapper[p] = "remap" => base /\ mappings = {} /\ size % Page = 0
         /\ ~base => \A p \in MapUsers : mapper[p] # "out" => pos[p] = 0

MapInv == MapFlags /\ MapPlaces /\ MapCounted /\ MapOnce /\ OneMapping

LEMMA MapTyped == MapInv => IomapTypes /\ OneMapping
<1> SUFFICES ASSUME MapInv PROVE IomapTypes
    BY DEF MapInv
<1>1. mapLoaded \in BOOLEAN /\ base \in BOOLEAN /\ spoilt \in BOOLEAN
    BY Zenon DEF MapInv, MapFlags
<1>2. MapPlaces
    BY DEF MapInv
<1> QED BY <1>1, <1>2, Zenon DEF IomapTypes, MapPlaces

LEMMA MapSets ==
    /\ IsFiniteSet(MapUsers) /\ IsFiniteSet(Setting) /\ Cardinality(Setting) \in Nat
    /\ Page \in Nat /\ Page > 0 /\ MaxMap \in Nat
<1>1. IsFiniteSet(MapUsers) /\ Page \in Nat /\ Page > 0 /\ MaxMap \in Nat
    BY MapAssumption DEF MapAssumption
<1>2. Setting \subseteq MapUsers
    BY DEF Setting
<1>3. IsFiniteSet(Setting)
    BY <1>1, <1>2, FS_Subset
<1> QED BY <1>1, <1>3, FS_CardinalityType

LEMMA MapInitial == IomapInit => MapInv
<1> SUFFICES ASSUME IomapInit PROVE MapInv
    OBVIOUS
<1>1. /\ size = 0 /\ ptr = 0 /\ mappings = {} /\ mapActs = 0
      /\ \A p \in MapUsers : mapper[p] = "out" /\ pos[p] = 0
    BY DEF IomapInit
<1>2. mapLoaded = FALSE /\ base = FALSE /\ spoilt = FALSE
    BY DEF IomapInit
<1>3. MapFlags
    BY <1>2, Zenon DEF MapFlags
<1>4. MapPlaces
    BY <1>1, MapSets DEF IomapInit, MapPlaces
<1>5. Setting = {}
    BY <1>1 DEF Setting
<1>6. MapCounted
    BY <1>1, <1>5, MapSets, FS_EmptySet DEF MapCounted
<1>7. MapOnce /\ OneMapping
    BY <1>1, <1>2, <1>5 DEF MapOnce, OneMapping
<1> QED BY <1>3, <1>4, <1>6, <1>7 DEF MapInv

\* where a process goes decides who is setting the device up
LEMMA Moves ==
    ASSUME MapPlaces, NEW p \in MapUsers, NEW line \in {"out", "open", "copy", "remap"}, At(p, line)
    PROVE  /\ mapper' \in [MapUsers -> {"out", "open", "copy", "remap"}]
           /\ mapper'[p] = line /\ \A q \in MapUsers \ {p} : mapper'[q] = mapper[q]
           /\ Setting' = IF line \in {"copy", "remap"} THEN Setting \cup {p} ELSE Setting \ {p}
           /\ Cardinality(Setting') =
                IF line \in {"copy", "remap"}
                THEN (IF p \in Setting THEN Cardinality(Setting) ELSE Cardinality(Setting) + 1)
                ELSE (IF p \in Setting THEN Cardinality(Setting) - 1 ELSE Cardinality(Setting))
<1>1. mapper' = [mapper EXCEPT ![p] = line]
    BY DEF At
<1>2. /\ mapper' \in [MapUsers -> {"out", "open", "copy", "remap"}]
      /\ mapper'[p] = line /\ \A q \in MapUsers \ {p} : mapper'[q] = mapper[q]
    BY <1>1 DEF MapPlaces
<1>3. Setting' = IF line \in {"copy", "remap"} THEN Setting \cup {p} ELSE Setting \ {p}
    BY <1>2 DEF Setting
<1> QED BY <1>2, <1>3, MapSets, FS_AddElement, FS_RemoveElement

LEMMA MapStep == MapInv /\ [IomapNext]_mapVars => MapInv'
<1> SUFFICES ASSUME MapInv, [IomapNext]_mapVars PROVE MapInv'
    OBVIOUS
<1>a. MapPlaces /\ MapCounted /\ MapOnce /\ OneMapping
    BY DEF MapInv
<1>b. /\ Page \in Nat /\ Page > 0 /\ MaxMap \in Nat /\ Cardinality(Setting) \in Nat
      /\ IsFiniteSet(mappings) /\ Cardinality(mappings) \in Nat
      /\ mapActs \in 0..MaxMap /\ Cardinality(mappings) + Cardinality(Setting) <= mapActs
    BY <1>a, MapSets, FS_CardinalityType DEF MapCounted
<1>c. mapLoaded \in BOOLEAN /\ base \in BOOLEAN /\ spoilt \in BOOLEAN
    BY Zenon DEF MapInv, MapFlags
<1>d. MapAct => mapActs' = mapActs + 1 /\ mapActs' \in 0..MaxMap
    BY <1>b DEF MapAct
<1>0. MapFlags'
  <2>1. CASE LoadMap \/ UnloadMap
      BY <2>1, <1>c, Zenon DEF LoadMap, UnloadMap, MapFlags
  <2>2. ASSUME NEW p \in MapUsers,
               \/ OpenMap(p) \/ ReleaseMap(p) \/ SetTest(p) \/ SetCopy(p) \/ SetFaults(p)
               \/ SetMap(p) \/ Access(p) \/ BadAccess(p)
        PROVE  MapFlags'
    <3>1. CASE OpenMap(p) \/ ReleaseMap(p) \/ SetMap(p) \/ Access(p) \/ BadAccess(p)
        BY <3>1, <1>c, Zenon DEF OpenMap, ReleaseMap, SetMap, Access, BadAccess, MapFlags
    <3>2. CASE SetTest(p)
        BY <3>2, <1>c, Zenon DEF SetTest, MapFlags
    <3>3. CASE SetCopy(p)
        BY <3>3, <1>c, Zenon DEF SetCopy, MapFlags
    <3>4. CASE SetFaults(p)
        BY <3>4, <1>c, Zenon DEF SetFaults, MapFlags
    <3> QED BY <2>2, <3>1, <3>2, <3>3, <3>4
  <2>3. CASE UNCHANGED mapVars
      BY <2>3, <1>c, Zenon DEF mapVars, MapFlags
  <2> QED BY <2>1, <2>2, <2>3 DEF IomapNext
<1>1. CASE LoadMap
  <2>1. /\ size' = size /\ ptr' = ptr /\ mappings' = mappings /\ mapper' = mapper /\ pos' = pos
        /\ mapActs' = mapActs + 1 /\ mapActs' \in 0..MaxMap
      BY <1>1, <1>d DEF LoadMap
  <2>2. ~mapLoaded /\ mapLoaded' /\ ~base' /\ (spoilt' <=> spoilt)
      BY <1>1 DEF LoadMap
  <2>3. \A p \in MapUsers : mapper[p] = "out"
      BY <2>2, <1>a DEF MapOnce
  <2>4. Setting' = {} /\ Setting = {}
      BY <2>1, <2>3 DEF Setting
  <2>5. MapPlaces' /\ MapCounted'
    <3>1. MapPlaces'
        BY <2>1, <1>a DEF MapPlaces
    <3>2. Cardinality(mappings') + Cardinality(Setting') <= mapActs'
        BY <2>1, <2>4, <1>b
    <3> QED BY <2>1, <3>1, <3>2, <1>b DEF MapCounted
  <2>6. MapOnce' /\ OneMapping'
      BY <2>1, <2>2, <2>3, <2>4, <1>a DEF MapOnce, OneMapping
  <2> QED BY <1>0, <2>5, <2>6 DEF MapInv
<1>2. CASE UnloadMap
  <2>1. /\ size' = size /\ ptr' = ptr /\ mapper' = mapper /\ pos' = pos /\ mapActs' = mapActs
        /\ \A p \in MapUsers : mapper[p] = "out"
        /\ mappings' \subseteq mappings
        /\ (base /\ mappings' = {m \in mappings : m.id # ptr}) \/ (~base /\ mappings' = mappings)
      BY <1>2 DEF UnloadMap
  <2>2. ~mapLoaded' /\ ~base' /\ (spoilt' <=> spoilt)
      BY <1>2 DEF UnloadMap
  <2>3. Setting' = {} /\ Setting = {}
      BY <2>1 DEF Setting
  <2>4. MapPlaces'
      BY <2>1, <1>a DEF MapPlaces
  <2>5. IsFiniteSet(mappings') /\ Cardinality(mappings') <= Cardinality(mappings) /\ Cardinality(mappings') \in Nat
      BY <2>1, <1>b, FS_Subset, FS_CardinalityType
  <2>6. MapCounted'
    <3>1. Cardinality(mappings') + Cardinality(Setting') <= mapActs'
        BY <2>1, <2>3, <2>5, <1>b
    <3> QED BY <2>1, <2>5, <3>1, <1>b DEF MapCounted
  <2>7. ~spoilt => mappings' = {}
    <3> SUFFICES ASSUME ~spoilt PROVE mappings' = {}
        OBVIOUS
    <3>1. CASE base
      <4>1. mappings \subseteq {[id |-> ptr, size |-> size]}
          BY <3>1, <2>3, <1>a DEF OneMapping, Mapped
      <4>2. \A m \in mappings : m.id = ptr
          BY <4>1
      <4> QED BY <2>1, <3>1, <4>2
    <3>2. CASE ~base
        BY <2>1, <3>2, <1>a DEF OneMapping
    <3> QED BY <3>1, <3>2
  <2>8. MapOnce' /\ OneMapping'
      BY <2>1, <2>2, <2>3, <2>7 DEF MapOnce, OneMapping
  <2> QED BY <1>0, <2>4, <2>6, <2>8 DEF MapInv
<1>3. ASSUME NEW p \in MapUsers, OpenMap(p) \/ ReleaseMap(p) \/ BadAccess(p) PROVE MapInv'
  <2>1. PICK line \in {"out", "open"} :
          /\ At(p, line) /\ (line = "open" => mapper[p] = "out" /\ pos' = [pos EXCEPT ![p] = 0])
          /\ line = "out" => mapper[p] = "open" /\ pos' = pos
      BY <1>3 DEF OpenMap, ReleaseMap, BadAccess
  <2>2. size' = size /\ ptr' = ptr /\ mappings' = mappings /\ mapActs' = mapActs
      BY <1>3 DEF OpenMap, ReleaseMap, BadAccess
  <2>3. (mapLoaded' <=> mapLoaded) /\ (base' <=> base) /\ (spoilt' <=> spoilt) /\ mapLoaded
    <3>1. mapper[p] = "open" => mapLoaded
        BY <1>a DEF MapOnce
    <3> QED BY <1>3, <3>1 DEF OpenMap, ReleaseMap, BadAccess
  <2>4. /\ mapper' \in [MapUsers -> {"out", "open", "copy", "remap"}]
        /\ mapper'[p] = line /\ \A q \in MapUsers \ {p} : mapper'[q] = mapper[q]
        /\ Setting' = Setting \ {p}
      BY <2>1, <1>a, Moves
  <2>5. Setting' = Setting
      BY <2>1, <2>4 DEF Setting
  <2>6. /\ pos' \in [MapUsers -> 0..(2 * Page)] /\ \A q \in MapUsers \ {p} : pos'[q] = pos[q]
        /\ line = "open" => pos'[p] = 0
    <3>1. 0 \in 0..(2 * Page)
        BY <1>b
    <3> QED BY <2>1, <3>1, <1>a DEF MapPlaces
  <2>7. MapPlaces'
      BY <2>1, <2>2, <2>4, <2>6, <1>a DEF MapPlaces
  <2>8. MapCounted'
      BY <2>2, <2>5, <1>a DEF MapCounted
  <2>9. MapOnce'
      BY <2>1, <2>2, <2>3, <2>4, <2>5, <2>6, <1>a DEF MapOnce
  <2>10. OneMapping'
    <3>1. ASSUME NEW q \in MapUsers, mapper'[q] # "out", base, ~spoilt PROVE pos'[q] <= size
      <4>1. CASE q = p
          BY <4>1, <3>1, <2>1, <2>4, <2>6, <1>a DEF MapPlaces
      <4>2. CASE q # p
          BY <4>2, <3>1, <2>4, <2>6, <1>a DEF OneMapping
      <4> QED BY <4>1, <4>2
    <3>2. ~spoilt => /\ base /\ Setting = {} => Mapped /\ size % Page = 0
                     /\ ~base => mappings = {}
        BY <1>a DEF OneMapping
    <3> QED BY <2>2, <2>3, <2>5, <3>1, <3>2 DEF OneMapping, Mapped
  <2> QED BY <1>0, <2>7, <2>8, <2>9, <2>10 DEF MapInv
<1>4. ASSUME NEW p \in MapUsers, SetTest(p) PROVE MapInv'
  <2>1. /\ At(p, "copy") /\ mapper[p] = "open" /\ size' = size /\ ptr' = ptr /\ mappings' = mappings /\ pos' = pos
        /\ mapActs' = mapActs + 1 /\ mapActs' \in 0..MaxMap
      BY <1>4, <1>d DEF SetTest
  <2>2. (mapLoaded' <=> mapLoaded) /\ (base' <=> base) /\ ~base /\ (spoilt' <=> (spoilt \/ Setting # {}))
      BY <1>4 DEF SetTest
  <2>3. /\ mapper' \in [MapUsers -> {"out", "open", "copy", "remap"}]
        /\ mapper'[p] = "copy" /\ \A q \in MapUsers \ {p} : mapper'[q] = mapper[q]
        /\ Setting' = Setting \cup {p} /\ Cardinality(Setting') <= Cardinality(Setting) + 1 /\ Cardinality(Setting') \in Nat
      BY <2>1, <1>a, <1>b, Moves, MapSets
  <2>4. mapLoaded
      BY <2>1, <1>a DEF MapOnce
  <2>5. MapPlaces'
      BY <2>1, <2>3, <1>a DEF MapPlaces
  <2>6. MapCounted'
    <3>1. Cardinality(mappings') + Cardinality(Setting') <= mapActs'
        BY <2>1, <2>3, <1>b
    <3> QED BY <2>1, <3>1, <1>b DEF MapCounted
  <2>7. ~spoilt' => ~spoilt /\ Setting = {} /\ Setting' = {p} /\ mappings = {}
      BY <2>2, <2>3, <1>a DEF OneMapping
  <2>8. MapOnce'
    <3>1. ~spoilt' => \A q \in MapUsers \ {p} : mapper'[q] \notin {"copy", "remap"}
        BY <2>7, <2>3 DEF Setting
    <3> QED BY <2>1, <2>2, <2>3, <2>4, <2>7, <3>1, <1>a DEF MapOnce
  <2>9. OneMapping'
      BY <2>1, <2>2, <2>4, <2>7 DEF OneMapping
  <2> QED BY <1>0, <2>5, <2>6, <2>8, <2>9 DEF MapInv
<1>5. ASSUME NEW p \in MapUsers, SetCopy(p) PROVE MapInv'
  <2>1. PICK s \in Sizes, given \in BOOLEAN :
          /\ size' = s /\ (base' <=> (given /\ s % Page = 0))
          /\ At(p, IF s % Page = 0 THEN "remap" ELSE "open")
          /\ spoilt' <=> (spoilt \/ ~given)
      BY <1>5 DEF SetCopy
  <2>2. mapper[p] = "copy" /\ ptr' = 0 /\ mappings' = mappings /\ pos' = pos /\ mapActs' = mapActs
      BY <1>5 DEF SetCopy
  <2>3. (mapLoaded' <=> mapLoaded) /\ mapLoaded
    <3>1. mapLoaded
        BY <2>2, <1>a DEF MapOnce
    <3> QED BY <1>5, <3>1 DEF SetCopy
  <2>4. PICK line \in {"remap", "open"} : At(p, line) /\ (line = "remap" <=> s % Page = 0)
      BY <2>1
  <2>5. /\ mapper' \in [MapUsers -> {"out", "open", "copy", "remap"}]
        /\ mapper'[p] = line /\ \A q \in MapUsers \ {p} : mapper'[q] = mapper[q]
        /\ Setting' \subseteq Setting /\ Cardinality(Setting') <= Cardinality(Setting) /\ Cardinality(Setting') \in Nat
    <3>1. p \in Setting
        BY <2>2 DEF Setting
    <3>2. Setting' \subseteq Setting
        BY <2>4, <3>1, <1>a, Moves
    <3>3. Cardinality(Setting') <= Cardinality(Setting) /\ Cardinality(Setting') \in Nat
        BY <3>2, MapSets, FS_Subset, FS_CardinalityType
    <3>4. /\ mapper' \in [MapUsers -> {"out", "open", "copy", "remap"}]
          /\ mapper'[p] = line /\ \A q \in MapUsers \ {p} : mapper'[q] = mapper[q]
        BY <2>4, <1>a, Moves
    <3> QED BY <3>2, <3>3, <3>4, <1>b
  <2>6. MapPlaces'
    <3>1. Sizes \subseteq 0..(2 * Page)
        BY <1>b DEF Sizes
    <3> QED BY <2>1, <2>2, <2>5, <3>1, <1>a, <1>b DEF MapPlaces
  <2>7. MapCounted'
    <3>1. Cardinality(mappings') + Cardinality(Setting') <= mapActs'
        BY <2>2, <2>5, <1>b
    <3> QED BY <2>2, <3>1, <1>b DEF MapCounted
  <2>8. ASSUME ~spoilt'
        PROVE  /\ ~spoilt /\ (base' <=> line = "remap") /\ mappings = {}
               /\ \A q \in MapUsers : q # p => mapper[q] \notin {"copy", "remap"}
               /\ \A q \in MapUsers : mapper[q] # "out" => pos[q] = 0
    <3>1. ~spoilt /\ (base' <=> line = "remap")
        BY <2>1, <2>4, <2>8
    <3>2. ~base /\ p \in Setting
        BY <2>2, <3>1, <1>a DEF MapOnce, Setting
    <3> QED BY <3>1, <3>2, <1>a DEF MapOnce, OneMapping, Setting
  <2>9. MapOnce'
    <3>1. ASSUME ~spoilt'
          PROVE  /\ \A q, r \in Setting' : q = r
                 /\ \A q \in MapUsers : mapper'[q] # "copy"
                 /\ \A q \in MapUsers : mapper'[q] = "remap" => base' /\ mappings' = {} /\ size' % Page = 0
                 /\ \A q \in MapUsers : mapper'[q] # "out" => pos'[q] = 0
      <4>1. \A q \in MapUsers \ {p} : mapper'[q] = mapper[q] /\ mapper[q] \notin {"copy", "remap"}
          BY <2>5, <2>8, <3>1
      <4>2. Setting' \subseteq {p}
          BY <4>1 DEF Setting
      <4> QED BY <4>1, <4>2, <2>1, <2>2, <2>4, <2>5, <2>8, <3>1
    <3> QED BY <2>3, <3>1 DEF MapOnce
  <2>10. OneMapping'
    <3>1. ASSUME ~spoilt', NEW q \in MapUsers, mapper'[q] # "out" PROVE pos'[q] <= size'
      <4>1. mapper[q] # "out"
          BY <2>2, <2>5, <3>1
      <4>2. pos'[q] = 0 /\ size' \in Nat
          BY <4>1, <2>1, <2>2, <2>8, <3>1, <1>b DEF Sizes
      <4> QED BY <4>2
    <3>2. ASSUME ~spoilt', base' PROVE Setting' # {}
        BY <2>5, <2>8, <3>2 DEF Setting
    <3> QED BY <2>2, <2>3, <2>8, <3>1, <3>2 DEF OneMapping
  <2> QED BY <1>0, <2>6, <2>7, <2>9, <2>10 DEF MapInv
<1>6. ASSUME NEW p \in MapUsers, SetFaults(p) PROVE MapInv'
  <2>1. /\ At(p, "open") /\ mapper[p] = "copy" /\ mappings' = mappings /\ pos' = pos
        /\ size' \in Sizes /\ ptr' \in {ptr, 0} /\ mapActs' = mapActs
      BY <1>6 DEF SetFaults
  <2>2. mapLoaded' /\ mapLoaded
    <3>1. mapLoaded
        BY <2>1, <1>a DEF MapOnce
    <3> QED BY <1>6, <3>1 DEF SetFaults
  <2>3. spoilt' <=> (spoilt \/ base')
      BY <1>6 DEF SetFaults
  <2>4. /\ mapper' \in [MapUsers -> {"out", "open", "copy", "remap"}]
        /\ mapper'[p] = "open" /\ \A q \in MapUsers \ {p} : mapper'[q] = mapper[q]
        /\ Setting' \subseteq Setting /\ Cardinality(Setting') <= Cardinality(Setting) /\ Cardinality(Setting') \in Nat
    <3>1. p \in Setting
        BY <2>1 DEF Setting
    <3>2. Setting' = Setting \ {p} /\ Cardinality(Setting') = Cardinality(Setting) - 1
        BY <2>1, <3>1, <1>a, Moves
    <3>3. IsFiniteSet(Setting') /\ Cardinality(Setting') \in Nat
        BY <3>2, MapSets, FS_Subset, FS_CardinalityType
    <3>4. /\ mapper' \in [MapUsers -> {"out", "open", "copy", "remap"}]
          /\ mapper'[p] = "open" /\ \A q \in MapUsers \ {p} : mapper'[q] = mapper[q]
        BY <2>1, <1>a, Moves
    <3> QED BY <3>2, <3>3, <3>4, <1>b
  <2>5. MapPlaces'
      BY <2>1, <2>4, <1>a, <1>b DEF MapPlaces, Sizes
  <2>6. MapCounted'
    <3>1. Cardinality(mappings') + Cardinality(Setting') <= mapActs'
        BY <2>1, <2>4, <1>b
    <3> QED BY <2>1, <3>1, <1>b DEF MapCounted
  <2>7. ASSUME ~spoilt'
        PROVE  /\ ~spoilt /\ ~base' /\ ~base /\ mappings = {}
               /\ \A q \in MapUsers : q # p => mapper[q] \notin {"copy", "remap"}
               /\ \A q \in MapUsers : mapper[q] # "out" => pos[q] = 0
    <3>1. ~spoilt /\ ~base'
        BY <2>3, <2>7
    <3>2. ~base /\ p \in Setting
        BY <2>1, <3>1, <1>a DEF MapOnce, Setting
    <3> QED BY <3>1, <3>2, <1>a DEF MapOnce, OneMapping, Setting
  <2>8. MapOnce'
    <3>1. ASSUME ~spoilt'
          PROVE  /\ \A q \in MapUsers : mapper'[q] \notin {"copy", "remap"}
                 /\ \A q \in MapUsers : mapper'[q] # "out" => pos'[q] = 0
        BY <2>1, <2>4, <2>7, <3>1
    <3>2. ~spoilt' => Setting' = {}
        BY <3>1 DEF Setting
    <3> QED BY <2>2, <2>7, <3>1, <3>2 DEF MapOnce
  <2>9. OneMapping'
      BY <2>1, <2>2, <2>7 DEF OneMapping
  <2> QED BY <1>0, <2>5, <2>6, <2>8, <2>9 DEF MapInv
<1>7. ASSUME NEW p \in MapUsers, SetMap(p) PROVE MapInv'
  <2>1. /\ At(p, "open") /\ mapper[p] = "remap" /\ size' = size /\ pos' = pos /\ mapActs' = mapActs
        /\ \/ /\ size # 0
              /\ ptr' = CHOOSE n \in 1..(MaxMap + 1) : \A m \in mappings : m.id # n
              /\ mappings' = mappings \cup {[id |-> ptr', size |-> size]}
           \/ ptr' = 0 /\ mappings' = mappings
      BY <1>7 DEF SetMap
  <2>2. (mapLoaded' <=> mapLoaded) /\ (base' <=> base) /\ (spoilt' <=> spoilt)
      BY <1>7 DEF SetMap
  <2>3. p \in Setting
      BY <2>1 DEF Setting
  <2>4. /\ mapper' \in [MapUsers -> {"out", "open", "copy", "remap"}]
        /\ mapper'[p] = "open" /\ \A q \in MapUsers \ {p} : mapper'[q] = mapper[q]
        /\ Setting' = Setting \ {p} /\ Cardinality(Setting') = Cardinality(Setting) - 1
      BY <2>1, <2>3, <1>a, <1>b, Moves
  <2>5. \/ /\ size # 0 /\ ptr' \in 1..(MaxMap + 1)
           /\ mappings' = mappings \cup {[id |-> ptr', size |-> size]}
        \/ ptr' = 0 /\ mappings' = mappings
    <3> DEFINE ids == [k \in mappings |-> k.id]
    <3>1. \A m \in mappings : ids[m] = m.id
        OBVIOUS
    <3> HIDE DEF ids
    <3>2. PICK n \in 1..(Cardinality(mappings) + 1) : \A m \in mappings : ids[m] # n
        BY <1>b, NumberUnused
    <3>3. n \in 1..(MaxMap + 1)
        BY <1>b
    <3>4. \E k \in 1..(MaxMap + 1) : \A m \in mappings : m.id # k
        BY <3>1, <3>2, <3>3
    <3> QED BY <2>1, <3>4
  <2>6. MapPlaces'
    <3>1. size \in Sizes
        BY <2>1, <1>a DEF MapPlaces
    <3>2. \A m \in mappings' : m.id \in 1..(MaxMap + 1) /\ m.size \in Sizes
      <4> SUFFICES ASSUME NEW m \in mappings' PROVE m.id \in 1..(MaxMap + 1) /\ m.size \in Sizes
          OBVIOUS
      <4>1. CASE m \in mappings
          BY <4>1, <1>a DEF MapPlaces
      <4>2. CASE m = [id |-> ptr', size |-> size] /\ ptr' \in 1..(MaxMap + 1)
          BY <4>2, <3>1
      <4> QED BY <4>1, <4>2, <2>5
    <3>3. ptr' \in 0..(MaxMap + 1)
        BY <2>5, <1>b
    <3> QED BY <2>1, <2>4, <3>1, <3>2, <3>3, <1>a DEF MapPlaces
  <2>7. MapCounted'
    <3>1. IsFiniteSet(mappings') /\ Cardinality(mappings') <= Cardinality(mappings) + 1 /\ Cardinality(mappings') \in Nat
      <4>1. \A m : /\ IsFiniteSet(mappings \cup {m})
                   /\ Cardinality(mappings \cup {m}) = IF m \in mappings THEN Cardinality(mappings) ELSE Cardinality(mappings) + 1
          BY <1>b, FS_AddElement
      <4>2. Cardinality(mappings) \in Nat
          BY <1>b
      <4>3. CASE mappings' = mappings
          BY <4>2, <4>3, <1>b
      <4>4. CASE \E m : mappings' = mappings \cup {m}
        <5>1. IsFiniteSet(mappings') /\ Cardinality(mappings') \in {Cardinality(mappings), Cardinality(mappings) + 1}
            BY <4>1, <4>4
        <5> QED BY <4>2, <5>1
      <4> QED BY <2>1, <4>3, <4>4
    <3>2. Cardinality(mappings') + Cardinality(Setting') <= mapActs'
        BY <2>1, <2>4, <3>1, <1>b
    <3> QED BY <2>1, <3>1, <3>2, <1>b DEF MapCounted
  <2>8. ASSUME ~spoilt
        PROVE  /\ base /\ mappings = {} /\ size % Page = 0 /\ Setting' = {}
               /\ Mapped'
               /\ \A q \in MapUsers : mapper'[q] \notin {"copy", "remap"}
    <3>1. base /\ mappings = {} /\ size % Page = 0
        BY <2>1, <2>8, <1>a DEF MapOnce
    <3>2. Setting' = {}
        BY <2>3, <2>4, <2>8, <1>a DEF MapOnce
    <3>3. \A q \in MapUsers : mapper'[q] \notin {"copy", "remap"}
        BY <3>2 DEF Setting
    <3>4. Mapped'
        BY <2>1, <2>5, <3>1, <1>b DEF Mapped
    <3> QED BY <3>1, <3>2, <3>3, <3>4
  <2>9. mapLoaded
      BY <2>1, <1>a DEF MapOnce
  <2>10. MapOnce'
      BY <2>2, <2>8, <2>9 DEF MapOnce
  <2>11. OneMapping'
    <3>1. ASSUME ~spoilt, NEW q \in MapUsers, mapper'[q] # "out" PROVE pos'[q] <= size'
      <4>1. mapper[q] # "out"
          BY <2>1, <2>4, <3>1
      <4> QED BY <4>1, <2>1, <2>8, <3>1, <1>a DEF OneMapping
    <3> QED BY <2>1, <2>2, <2>8, <2>9, <3>1 DEF OneMapping
  <2> QED BY <1>0, <2>6, <2>7, <2>10, <2>11 DEF MapInv
<1>8. ASSUME NEW p \in MapUsers, Access(p) PROVE MapInv'
  <2>1. PICK count \in Sizes : pos' = [pos EXCEPT ![p] = @ + Cut(p, count)]
      BY <1>8 DEF Access
  <2>2. /\ mapper[p] = "open" /\ pos[p] < size /\ size' = size /\ ptr' = ptr /\ mappings' = mappings
        /\ mapper' = mapper /\ mapActs' = mapActs
      BY <1>8 DEF Access
  <2>3. (mapLoaded' <=> mapLoaded) /\ (base' <=> base) /\ (spoilt' <=> spoilt) /\ base
      BY <1>8 DEF Access
  <2>4. pos[p] + Cut(p, count) \in 0..(2 * Page) /\ pos[p] + Cut(p, count) <= size
    <3>1. pos[p] \in Nat /\ size \in 0..(2 * Page) /\ count \in Nat
        BY <1>a, <1>b DEF MapPlaces, Sizes
    <3> QED BY <2>2, <3>1, <1>b DEF Cut
  <2>5. /\ pos' \in [MapUsers -> 0..(2 * Page)] /\ pos'[p] <= size
        /\ \A q \in MapUsers \ {p} : pos'[q] = pos[q]
      BY <2>1, <2>4, <1>a DEF MapPlaces
  <2>6. Setting' = Setting
      BY <2>2 DEF Setting
  <2>7. MapPlaces'
      BY <2>2, <2>5, <1>a DEF MapPlaces
  <2>8. MapCounted'
      BY <2>2, <2>6, <1>a DEF MapCounted
  <2>9. MapOnce'
      BY <2>2, <2>3, <2>6, <1>a DEF MapOnce
  <2>10. OneMapping'
    <3>1. ASSUME ~spoilt, NEW q \in MapUsers, mapper[q] # "out" PROVE pos'[q] <= size
        BY <2>2, <2>3, <2>5, <3>1, <1>a DEF OneMapping
    <3>2. mapLoaded
        BY <2>2, <1>a DEF MapOnce
    <3>3. ~spoilt => (Setting = {} => Mapped /\ size % Page = 0)
        BY <2>3, <1>a DEF OneMapping
    <3> QED BY <2>2, <2>3, <2>6, <3>1, <3>2, <3>3 DEF OneMapping, Mapped
  <2> QED BY <1>0, <2>7, <2>8, <2>9, <2>10 DEF MapInv
<1>9. CASE UNCHANGED mapVars
  <2>1. /\ size' = size /\ ptr' = ptr /\ mappings' = mappings /\ mapper' = mapper /\ pos' = pos /\ mapActs' = mapActs
      BY <1>9 DEF mapVars
  <2>2. (mapLoaded' <=> mapLoaded) /\ (base' <=> base) /\ (spoilt' <=> spoilt)
      BY <1>9 DEF mapVars
  <2>3. Setting' = Setting
      BY <2>1 DEF Setting
  <2>4. MapPlaces' /\ MapCounted'
      BY <2>1, <2>3, <1>a DEF MapPlaces, MapCounted
  <2>5. MapOnce' /\ OneMapping'
      BY <2>1, <2>2, <2>3, <1>a DEF MapOnce, OneMapping, Mapped
  <2> QED BY <1>0, <2>4, <2>5 DEF MapInv
<1> QED BY <1>1, <1>2, <1>3, <1>4, <1>5, <1>6, <1>7, <1>8, <1>9 DEF IomapNext

-----------------------------------------------------------------------------
(* curses.c: choices l, r and u are those of the longer menu *)

MenuPlaces ==
    /\ screen \in {"main", "choosing", "a", "f", "c", "l", "r", "u", "q", "counted", "listing", "entering", "gone"}
    /\ choices \in {main_menu, extended_menu}
    /\ selected_row \in Nat /\ selected \in {"none", "a", "f", "c", "l", "r", "u", "q"}
    /\ tracks \in Nat /\ height \in Nat /\ first_line \in Nat /\ screen_line \in Nat

\* what was counted is what the pad was made for
PadCounted == screen \in {"counted", "listing"} => height = tracks + 1 + BOXED_LINES

MenuInv == current_cd \in BOOLEAN /\ MenuPlaces /\ MenuFits /\ PadCounted

LEMMA MenuTyped == MenuInv <=> MenuTypes /\ MenuFits /\ PadCounted
BY Zenon DEF MenuInv, MenuTypes, MenuPlaces

LEMMA MenuLengths == Len(main_menu) = 4 /\ Len(extended_menu) = 7
BY DEF main_menu, extended_menu

LEMMA MenuChoices ==
    /\ \A k \in 1..4 : main_menu[k] \in {"a", "f", "c", "q"}
    /\ \A k \in 1..7 : extended_menu[k] \in {"a", "f", "c", "l", "r", "u", "q"}
BY DEF main_menu, extended_menu

LEMMA MenuSelected ==
    MenuPlaces /\ MenuFits /\ screen = "choosing"
    => /\ selected \in {"a", "f", "c", "l", "r", "u", "q"}
       /\ selected \in {"l", "r", "u"} => current_cd
<1> SUFFICES ASSUME MenuPlaces, MenuFits, screen = "choosing"
             PROVE  /\ selected \in {"a", "f", "c", "l", "r", "u", "q"}
                    /\ selected \in {"l", "r", "u"} => current_cd
    OBVIOUS
<1>1. selected_row \in Nat /\ selected_row < Len(choices) /\ selected = choices[selected_row + 1]
    BY DEF MenuPlaces, MenuFits
<1>2. CASE current_cd
  <2>1. choices = extended_menu
      BY <1>2 DEF MenuFits
  <2>2. selected_row + 1 \in 1..7
      BY <1>1, <2>1, MenuLengths
  <2> QED BY <1>1, <1>2, <2>1, <2>2, MenuChoices
<1>3. CASE ~current_cd
  <2>1. choices = main_menu
      BY <1>3 DEF MenuFits
  <2>2. selected_row + 1 \in 1..4
      BY <1>1, <2>1, MenuLengths
  <2>3. selected \in {"a", "f", "c", "q"}
      BY <1>1, <2>1, <2>2, MenuChoices
  <2> QED BY <2>3
<1> QED BY <1>2, <1>3

LEMMA PadHeights == \A t \in 0..MaxOnFile : t \in Nat /\ t + 1 + BOXED_LINES \in Nat
BY MenuAssumption DEF MenuAssumption

LEMMA MenuRow ==
    ASSUME NEW c \in {main_menu, extended_menu}, NEW r \in Nat, r < Len(c)
    PROVE  c[r + 1] \in {"a", "f", "c", "l", "r", "u", "q"}
<1>1. CASE c = main_menu
  <2>1. r + 1 \in 1..4
      BY <1>1, MenuLengths
  <2> QED BY <1>1, <2>1, MenuChoices
<1>2. CASE c = extended_menu
  <2>1. r + 1 \in 1..7
      BY <1>2, MenuLengths
  <2> QED BY <1>2, <2>1, MenuChoices
<1> QED BY <1>1, <1>2

LEMMA MenuInitial == MenuInit => MenuInv
<1>1. MenuInit => current_cd \in BOOLEAN
    BY DEF MenuInit
<1>2. MenuInit => MenuPlaces /\ MenuFits /\ PadCounted
    BY DEF MenuInit, MenuPlaces, MenuFits, PadCounted
<1> QED BY <1>1, <1>2 DEF MenuInv

LEMMA MenuStep == MenuInv /\ [MenuNext]_menuVars => MenuInv'
<1> SUFFICES ASSUME MenuInv, [MenuNext]_menuVars PROVE MenuInv'
    OBVIOUS
<1>a. current_cd' \in BOOLEAN
    BY DEF MenuInv, MenuNext, ShowMenu, MenuUp, MenuDown, MenuTaken, AddOrFind, RemoveCd, CountCds,
           QuitMenu, UpdateCd, EnterLine, ListNothing, CountTracks, FillPad, ListUp, ListDown, ListEnds, menuVars
<1>b. MenuPlaces' /\ MenuFits' /\ PadCounted'
  <2>1. MenuPlaces /\ MenuFits /\ PadCounted /\ BOXED_LINES \in Nat /\ BOXED_LINES > 1 /\ MaxOnFile \in Nat
      BY MenuAssumption DEF MenuInv, MenuAssumption
  <2> USE <2>1, MenuLengths DEF MenuPlaces, MenuFits, PadCounted, Menu, Box
  <2>2. CASE ShowMenu
    <3>1. PICK r : /\ r \in Nat /\ r < Len(choices') /\ selected_row' = r /\ selected' = choices'[r + 1]
                   /\ (current_cd => choices' = extended_menu) /\ (~current_cd => choices' = main_menu)
        BY <2>2 DEF ShowMenu, Highlight
    <3>2. /\ screen' = "choosing" /\ tracks' \in Nat /\ height' \in Nat
          /\ first_line' \in Nat /\ screen_line' \in Nat
        BY <2>2 DEF ShowMenu
    <3>3. current_cd' = current_cd
        BY <2>2 DEF ShowMenu
    <3>4. choices' = IF current_cd' THEN extended_menu ELSE main_menu
        BY <3>1, <3>3
    <3>5. choices' \in {main_menu, extended_menu}
        BY <3>1
    <3>6. selected' \in {"a", "f", "c", "l", "r", "u", "q"}
        BY <3>1, <3>5, MenuRow
    <3> QED BY <3>1, <3>2, <3>4, <3>5, <3>6
  <2>3. CASE MenuUp \/ MenuDown
    <3>1. /\ screen = "choosing" /\ screen' = screen /\ choices' = choices /\ tracks' = tracks
          /\ height' = height /\ first_line' = first_line /\ screen_line' = screen_line
        BY <2>3 DEF MenuUp, MenuDown
    <3>2. current_cd' = current_cd
        BY <2>3 DEF MenuUp, MenuDown
    <3>3. PICK r \in Nat : r < Len(choices) /\ selected_row' = r /\ selected' = choices[r + 1]
      <4>1. selected_row \in Nat /\ selected_row < Len(choices) /\ Len(choices) \in {4, 7}
          BY <2>1, <3>1, MenuLengths DEF MenuPlaces, MenuFits
      <4> QED BY <2>3, <3>1, <4>1 DEF MenuUp, MenuDown, Highlight
    <3>4. selected' \in {"a", "f", "c", "l", "r", "u", "q"}
        BY <2>1, <3>3, MenuRow DEF MenuPlaces
    <3> QED BY <3>1, <3>2, <3>3, <3>4
  <2>5. CASE MenuTaken
      BY <2>5, MenuSelected DEF MenuTaken
  <2>6. CASE AddOrFind
      BY <2>6 DEF AddOrFind
  <2>7. CASE RemoveCd
      BY <2>7 DEF RemoveCd
  <2>8. CASE CountCds \/ QuitMenu \/ ListNothing
      BY <2>8 DEF CountCds, QuitMenu, ListNothing
  <2>9. CASE CountTracks
    <3>1. /\ screen' = "counted" /\ choices' = choices /\ selected_row' = selected_row
          /\ selected' = selected /\ first_line' = first_line /\ screen_line' = screen_line
          /\ tracks' \in 0..MaxOnFile /\ height' = tracks' + 1 + BOXED_LINES
        BY <2>9 DEF CountTracks
    <3>2. current_cd'
        BY <2>9 DEF CountTracks
    <3>3. tracks' \in Nat /\ height' \in Nat
        BY <3>1, PadHeights
    <3> QED BY <3>1, <3>2, <3>3
  <2>10. CASE FillPad
      BY <2>10 DEF FillPad
  <2>11. CASE ListUp \/ ListDown
      BY <2>11 DEF ListUp, ListDown
  <2>12. CASE ListEnds \/ UpdateCd
      BY <2>12 DEF ListEnds, UpdateCd
  <2>13. CASE EnterLine
      BY <2>13 DEF EnterLine
  <2>14. CASE UNCHANGED menuVars
      BY <2>14 DEF menuVars
  <2> QED BY <2>2, <2>3, <2>5, <2>6, <2>7, <2>8, <2>9, <2>10, <2>11, <2>12, <2>13, <2>14 DEF MenuNext
<1> QED BY <1>a, <1>b DEF MenuInv

-----------------------------------------------------------------------------
(* thread3.c: each side has polled at least as often as it has printed *)

TurnInv ==
    /\ TurnTypes /\ TurnsAlternate
    /\ turner[1] = "out" <=> turner[2] = "out"
    /\ turner[1] \in {"print", "hand"} => print_count[1] <= TurnPolls
    /\ turner[2] \in {"print", "hand"} => print_count[2] <= TurnPolls
    /\ turner[1] \in {"poll", "sleep"} => print_count[1] <= TurnPolls
    /\ turner[2] \in {"poll", "sleep"} => print_count[2] <= TurnPolls
    /\ ones + (IF turner[1] = "print" THEN 1 ELSE 0) <= print_count[1]
    /\ twos + (IF turner[2] = "print" THEN 1 ELSE 0) <= print_count[2]
    /\ turner[1] = "out" => print_count[1] = 0 /\ print_count[2] = 0 /\ ones = 0 /\ twos = 0 /\ run_now = 1
    /\ turner[1] \in {"join", "gone"} => ones <= TurnPolls
    /\ turner[2] # "join"

LEMMA TurnInitial == TurnInit => TurnInv
BY TurnAssumption DEF TurnAssumption, TurnInit, TurnInv, TurnTypes, TurnsAlternate, TurnSides

LEMMA TurnStep == TurnInv /\ [TurnNext]_turnVars => TurnInv'
<1> SUFFICES ASSUME TurnInv, [TurnNext]_turnVars PROVE TurnInv'
    OBVIOUS
<1> USE TurnAssumption DEF TurnAssumption, TurnInv, TurnTypes, TurnsAlternate, TurnSides
<1>1. CASE CreateTurner
    BY <1>1 DEF CreateTurner
<1>2. CASE PollTurn(1)
    BY <1>2 DEF PollTurn, TurnLine
<1>3. CASE PollTurn(2)
    BY <1>3 DEF PollTurn, TurnLine
<1>4. ASSUME NEW i \in TurnSides, SleepTurn(i) PROVE TurnInv'
    BY <1>4 DEF SleepTurn, TurnLine
<1>5. CASE PrintTurn(1)
    BY <1>5 DEF PrintTurn, TurnLine
<1>6. CASE PrintTurn(2)
    BY <1>6 DEF PrintTurn, TurnLine
<1>7. CASE HandOver(1)
    BY <1>7 DEF HandOver, TurnLine
<1>8. CASE HandOver(2)
    BY <1>8 DEF HandOver, TurnLine
<1>9. CASE JoinTurner
    BY <1>9 DEF JoinTurner, TurnLine
<1>10. CASE UNCHANGED turnVars
    BY <1>10 DEF turnVars
<1> QED BY <1>1, <1>2, <1>3, <1>4, <1>5, <1>6, <1>7, <1>8, <1>9, <1>10 DEF TurnNext, TurnerRuns

-----------------------------------------------------------------------------
(* thread4a.c: main has posted at most three times for a line it has typed, *)
(* and what it posts for is what it has filled the area with                *)

WorkPlaces ==
    /\ area \in {"empty", "torn", "line", "FAST", "Wheeee...", "end"}
    /\ filling \in {"empty", "line", "FAST", "Wheeee...", "end"}
    /\ bin_sem \in Nat /\ posts \in Nat /\ bin_sem <= posts /\ lines \in Nat /\ lines <= MaxLines
    /\ reader \in {"test", "postFast", "post", "fgets", "strcpy", "fill", "join", "gone"}
    /\ counter \in {"wait", "compare", "gone"}

AreaFilled ==
    /\ reader = "fill" => area = "torn"
    /\ reader # "fill" => area = filling
    /\ reader \in {"postFast", "strcpy"} => filling = "FAST"
    /\ reader = "fgets" => filling \notin {"FAST", "end"}
    /\ reader \in {"join", "gone"} => filling = "end"

PostsCounted ==
    /\ reader = "test" /\ filling = "FAST" => posts + 2 <= 3 * lines
    /\ reader = "test" /\ filling \notin {"FAST", "end"} => posts <= 3 * lines
    /\ reader = "fgets" => posts <= 3 * lines
    /\ reader = "postFast" => posts + 2 <= 3 * lines
    /\ reader = "strcpy" => posts + 1 <= 3 * lines
    /\ reader \in {"fill", "post"} /\ filling \in {"FAST", "line"} => posts + 3 <= 3 * lines
    /\ reader \in {"fill", "post"} /\ filling = "Wheeee..." => posts + 1 <= 3 * lines
    /\ reader \in {"fill", "post"} => posts <= 3 * lines /\ filling # "empty"
    /\ posts <= 3 * lines + 1

WorkInv == WorkPlaces /\ AreaFilled /\ PostsCounted /\ EndIsPosted

LEMMA WorkTyped == WorkInv => SemWorkTypes /\ EndIsPosted
<1> SUFFICES ASSUME WorkInv PROVE SemWorkTypes
    BY DEF WorkInv
<1>1. posts <= 3 * MaxLines + 1 /\ bin_sem \in 0..posts
    BY SemWorkAssumption DEF WorkInv, WorkPlaces, PostsCounted, SemWorkAssumption
<1> QED BY <1>1 DEF WorkInv, WorkPlaces, SemWorkTypes

LEMMA WorkInitial == SemWorkInit => WorkInv
BY SemWorkAssumption DEF SemWorkAssumption, SemWorkInit, WorkInv, WorkPlaces, AreaFilled, PostsCounted, EndIsPosted

LEMMA WorkStep == WorkInv /\ [SemWorkNext]_semWorkVars => WorkInv'
<1> SUFFICES ASSUME WorkInv, [SemWorkNext]_semWorkVars PROVE WorkInv'
    OBVIOUS
<1>a. WorkPlaces /\ AreaFilled /\ PostsCounted /\ EndIsPosted /\ MaxLines \in Nat
    BY SemWorkAssumption DEF WorkInv, SemWorkAssumption
<1> USE <1>a DEF WorkPlaces, AreaFilled, PostsCounted
<1>1. WorkPlaces' /\ AreaFilled' /\ PostsCounted'
  <2>1. CASE TestInput
      BY <2>1 DEF TestInput
  <2>2. CASE Post
      BY <2>2 DEF Post
  <2>3. CASE TypeLine \/ BeginCopy
    <3>1. CASE BeginCopy
        BY <3>1 DEF BeginCopy
    <3>2. CASE TypeLine
        BY <3>2 DEF TypeLine
    <3> QED BY <2>3, <3>1, <3>2
  <2>4. CASE EndFill
      BY <2>4 DEF EndFill
  <2>5. CASE JoinCounter
      BY <2>5 DEF JoinCounter
  <2>6. CASE Wait
      BY <2>6 DEF Wait
  <2>7. CASE Compare
      BY <2>7 DEF Compare
  <2>8. CASE UNCHANGED semWorkVars
      BY <2>8 DEF semWorkVars
  <2> QED BY <2>1, <2>2, <2>3, <2>4, <2>5, <2>6, <2>7, <2>8 DEF SemWorkNext, ReaderRuns, CounterRuns
<1>2. EndIsPosted'
  <2>1. CASE TestInput
      BY <2>1 DEF TestInput, EndIsPosted
  <2>2. CASE Post
      BY <2>2 DEF Post, EndIsPosted
  <2>3. CASE TypeLine \/ BeginCopy
    <3>1. area # "end" /\ area' = "torn" /\ counter' = counter /\ (mistaken' <=> mistaken)
        BY <2>3 DEF TypeLine, BeginCopy
    <3> QED BY <3>1 DEF EndIsPosted
  <2>4. CASE EndFill
    <3>1. area # "end" /\ reader' = "post" /\ counter' = counter /\ (mistaken' <=> mistaken)
        BY <2>4 DEF EndFill
    <3> QED BY <3>1 DEF EndIsPosted
  <2>5. CASE JoinCounter
      BY <2>5 DEF JoinCounter, EndIsPosted
  <2>6. CASE Wait
      BY <2>6 DEF Wait, EndIsPosted
  <2>7. CASE Compare
    <3>1. area' = area /\ (mistaken' <=> (mistaken \/ area = "torn"))
        BY <2>7 DEF Compare
    <3>2. \/ counter' = "gone" /\ (area = "end" \/ area = "torn")
          \/ counter' = "wait" /\ area # "end"
        BY <2>7 DEF Compare
    <3> QED BY <3>1, <3>2 DEF EndIsPosted
  <2>8. CASE UNCHANGED semWorkVars
      BY <2>8 DEF semWorkVars, EndIsPosted
  <2> QED BY <2>1, <2>2, <2>3, <2>4, <2>5, <2>6, <2>7, <2>8 DEF SemWorkNext, ReaderRuns, CounterRuns
<1> QED BY <1>1, <1>2 DEF WorkInv

-----------------------------------------------------------------------------
(* thread9.c, thread9a.c: the counter says how many threads there are while *)
(* main makes them, and how many are left while it joins them               *)

ThreadPlaces ==
    /\ lots_of_threads \in -1..NumThreads
    /\ joiner \in {"out", "create", "next", "join", "gone"}
    /\ worker \in [Threads -> {"none", "begin", "run", "gone"}]
    /\ my_number \in [Threads -> -1..NumThreads]

ThreadsMade ==
    /\ joiner = "out" => lots_of_threads = 0
    /\ joiner \in {"create", "next"} => lots_of_threads >= 0
    /\ joiner \in {"next", "join"} => lots_of_threads < NumThreads
    /\ joiner = "gone" => lots_of_threads = -1
    /\ \A t \in Threads :
         /\ joiner \in {"out", "create"} => (worker[t] = "none" <=> t >= lots_of_threads)
         /\ joiner = "next" => (worker[t] = "none" <=> t > lots_of_threads)
         /\ joiner \in {"join", "gone"} => worker[t] # "none" /\ (t > lots_of_threads => worker[t] = "gone")

ThreadsInv == byAddress \in BOOLEAN /\ ThreadPlaces /\ ThreadsMade /\ NumbersGiven

LEMMA ThreadsTyped == ThreadsInv => ThreadsTypes /\ NumbersGiven
BY Zenon DEF ThreadsInv, ThreadPlaces, ThreadsTypes

LEMMA ThreadsInitial == ThreadsInit => ThreadsInv
<1> SUFFICES ASSUME ThreadsInit PROVE ThreadsInv
    OBVIOUS
<1>1. byAddress \in BOOLEAN
    BY Zenon DEF ThreadsInit
<1>2. NumThreads \in Nat
    BY ThreadsAssumption DEF ThreadsAssumption
<1>3. ThreadPlaces
    BY <1>2 DEF ThreadsInit, ThreadPlaces
<1>4. ThreadsMade
    BY <1>2 DEF ThreadsInit, ThreadsMade, Threads
<1>5. NumbersGiven
    BY DEF ThreadsInit, NumbersGiven
<1> QED BY <1>1, <1>3, <1>4, <1>5 DEF ThreadsInv

LEMMA ThreadsStep == ThreadsInv /\ [ThreadsNext]_threadVars => ThreadsInv'
<1> SUFFICES ASSUME ThreadsInv, [ThreadsNext]_threadVars PROVE ThreadsInv'
    OBVIOUS
<1>a. ThreadPlaces /\ ThreadsMade /\ NumbersGiven
    BY DEF ThreadsInv
<1>b. NumThreads \in Nat /\ \A t \in Threads : t \in Nat /\ t < NumThreads
    BY ThreadsAssumption DEF ThreadsAssumption, Threads
<1>c. byAddress \in BOOLEAN
    BY Zenon DEF ThreadsInv
<1>d. byAddress' \in BOOLEAN
  <2>1. CASE JoinerRuns
      BY <2>1, <1>c, Zenon DEF JoinerRuns, ChooseProgram, CreateThread, NextThread, WaitForThreads, JoinThread, AllDone
  <2>2. CASE WorkersRun
      BY <2>2, <1>c, Zenon DEF WorkersRun, TakeNumber, SayBye
  <2>3. CASE UNCHANGED threadVars
      BY <2>3, <1>c, Zenon DEF threadVars
  <2> QED BY <2>1, <2>2, <2>3 DEF ThreadsNext
<1>1. CASE ChooseProgram
  <2>1. /\ joiner = "out" /\ joiner' = "create" /\ lots_of_threads' = lots_of_threads
        /\ worker' = worker /\ my_number' = my_number
      BY <1>1 DEF ChooseProgram
  <2>2. \A t \in Threads : worker[t] = "none"
      BY <2>1, <1>a, <1>b DEF ThreadsMade
  <2>3. ThreadPlaces' /\ ThreadsMade'
      BY <2>1, <1>a DEF ThreadPlaces, ThreadsMade
  <2>4. NumbersGiven'
      BY <2>1, <2>2 DEF NumbersGiven
  <2> QED BY <1>d, <2>3, <2>4 DEF ThreadsInv
<1>2. CASE CreateThread
  <2>1. /\ joiner = "create" /\ joiner' = "next" /\ lots_of_threads < NumThreads /\ lots_of_threads' = lots_of_threads
        /\ worker' = [worker EXCEPT ![lots_of_threads] = "begin"] /\ my_number' = my_number
      BY <1>2 DEF CreateThread
  <2>2. lots_of_threads \in Threads
      BY <2>1, <1>a, <1>b DEF ThreadPlaces, ThreadsMade, Threads
  <2>3. /\ worker'[lots_of_threads] = "begin"
        /\ \A t \in Threads : t # lots_of_threads => worker'[t] = worker[t]
      BY <2>1, <2>2, <1>a DEF ThreadPlaces
  <2>4. ThreadPlaces'
      BY <2>1, <1>a DEF ThreadPlaces
  <2>5. ThreadsMade'
      BY <2>1, <2>3, <1>a, <1>b DEF ThreadPlaces, ThreadsMade
  <2>6. (byAddress' <=> byAddress)
      BY <1>2 DEF CreateThread
  <2>7. NumbersGiven'
      BY <2>1, <2>3, <2>6, <1>a DEF NumbersGiven
  <2> QED BY <1>d, <2>4, <2>5, <2>7 DEF ThreadsInv
<1>3. CASE NextThread
  <2>1. /\ joiner = "next" /\ joiner' = "create" /\ lots_of_threads' = lots_of_threads + 1
        /\ worker' = worker /\ my_number' = my_number
      BY <1>3 DEF NextThread
  <2>2. ThreadPlaces' /\ ThreadsMade'
      BY <2>1, <1>a, <1>b DEF ThreadPlaces, ThreadsMade
  <2>3. byAddress' <=> byAddress
      BY <1>3 DEF NextThread
  <2>4. NumbersGiven'
      BY <2>1, <2>3, <1>a DEF NumbersGiven
  <2> QED BY <1>d, <2>2, <2>4 DEF ThreadsInv
<1>4. CASE WaitForThreads
  <2>1. /\ joiner = "create" /\ joiner' = "join" /\ lots_of_threads = NumThreads /\ lots_of_threads' = NumThreads - 1
        /\ worker' = worker /\ my_number' = my_number
      BY <1>4 DEF WaitForThreads
  <2>2. ThreadPlaces' /\ ThreadsMade'
      BY <2>1, <1>a, <1>b DEF ThreadPlaces, ThreadsMade
  <2>3. byAddress' <=> byAddress
      BY <1>4 DEF WaitForThreads
  <2>4. NumbersGiven'
      BY <2>1, <2>3, <1>a DEF NumbersGiven
  <2> QED BY <1>d, <2>2, <2>4 DEF ThreadsInv
<1>5. CASE JoinThread \/ AllDone
  <2>1. /\ joiner = "join" /\ worker' = worker /\ my_number' = my_number
        /\ \/ /\ lots_of_threads >= 0 /\ worker[lots_of_threads] = "gone"
              /\ lots_of_threads' = lots_of_threads - 1 /\ joiner' = "join"
           \/ lots_of_threads < 0 /\ lots_of_threads' = lots_of_threads /\ joiner' = "gone"
      BY <1>5 DEF JoinThread, AllDone
  <2>2. ThreadPlaces' /\ ThreadsMade'
      BY <2>1, <1>a, <1>b DEF ThreadPlaces, ThreadsMade
  <2>3. byAddress' <=> byAddress
      BY <1>5 DEF JoinThread, AllDone
  <2>4. joiner' = "gone" => \A t \in Threads : worker'[t] = "gone"
      BY <2>1, <1>a, <1>b DEF ThreadPlaces, ThreadsMade
  <2>5. NumbersGiven'
      BY <2>1, <2>3, <2>4, <1>a DEF NumbersGiven
  <2> QED BY <1>d, <2>2, <2>5 DEF ThreadsInv
<1>6. ASSUME NEW t \in Threads, TakeNumber(t) PROVE ThreadsInv'
  <2>1. /\ worker[t] = "begin" /\ worker' = [worker EXCEPT ![t] = "run"]
        /\ lots_of_threads' = lots_of_threads /\ joiner' = joiner
      BY <1>6 DEF TakeNumber
  <2>2. byAddress' <=> byAddress
      BY <1>6 DEF TakeNumber
  <2>3. PICK n : my_number' = [my_number EXCEPT ![t] = n] /\ (byAddress => n = lots_of_threads) /\ (~byAddress => n = t)
      BY <1>6 DEF TakeNumber
  <2>4. lots_of_threads \in t..NumThreads /\ joiner # "gone"
      BY <2>1, <1>a, <1>b DEF ThreadPlaces, ThreadsMade
  <2>5. (byAddress => n \in t..NumThreads) /\ (~byAddress => n \in t..t) /\ n \in -1..NumThreads
      BY <2>3, <2>4, <1>b
  <2>6. /\ worker'[t] = "run" /\ my_number'[t] = n
        /\ \A u \in Threads : u # t => worker'[u] = worker[u] /\ my_number'[u] = my_number[u]
      BY <2>1, <2>3, <1>a DEF ThreadPlaces
  <2>7. ThreadPlaces'
      BY <2>1, <2>3, <2>5, <1>a DEF ThreadPlaces
  <2>8. ThreadsMade'
      BY <2>1, <2>4, <2>6, <1>a, <1>b DEF ThreadPlaces, ThreadsMade
  <2>9. NumbersGiven'
    <3>1. ASSUME NEW u \in Threads, worker'[u] \in {"run", "gone"}
          PROVE  (byAddress => my_number'[u] \in u..NumThreads) /\ (~byAddress => my_number'[u] \in u..u)
        BY <2>5, <2>6, <3>1, <1>a DEF NumbersGiven
    <3> QED BY <2>1, <2>2, <2>4, <3>1 DEF NumbersGiven
  <2> QED BY <1>d, <2>7, <2>8, <2>9 DEF ThreadsInv
<1>7. ASSUME NEW t \in Threads, SayBye(t) PROVE ThreadsInv'
  <2>1. /\ worker[t] = "run" /\ worker' = [worker EXCEPT ![t] = "gone"] /\ my_number' = my_number
        /\ lots_of_threads' = lots_of_threads /\ joiner' = joiner
      BY <1>7 DEF SayBye
  <2>2. byAddress' <=> byAddress
      BY <1>7 DEF SayBye
  <2>3. worker'[t] = "gone" /\ \A u \in Threads : u # t => worker'[u] = worker[u]
      BY <2>1, <1>a DEF ThreadPlaces
  <2>4. ThreadPlaces'
      BY <2>1, <1>a DEF ThreadPlaces
  <2>5. ThreadsMade'
      BY <2>1, <2>3, <1>a, <1>b DEF ThreadPlaces, ThreadsMade
  <2>6. NumbersGiven'
    <3>1. ASSUME NEW u \in Threads, worker'[u] \in {"run", "gone"}
          PROVE  (byAddress => my_number'[u] \in u..NumThreads) /\ (~byAddress => my_number'[u] \in u..u)
        BY <2>1, <2>3, <3>1, <1>a DEF NumbersGiven
    <3>2. joiner' = "gone" => \A u \in Threads : worker'[u] = "gone"
        BY <2>1, <2>3, <1>a DEF NumbersGiven
    <3> QED BY <2>2, <3>1, <3>2 DEF NumbersGiven
  <2> QED BY <1>d, <2>4, <2>5, <2>6 DEF ThreadsInv
<1>8. CASE UNCHANGED threadVars
  <2>1. /\ lots_of_threads' = lots_of_threads /\ joiner' = joiner /\ worker' = worker /\ my_number' = my_number
      BY <1>8 DEF threadVars
  <2>2. byAddress' <=> byAddress
      BY <1>8 DEF threadVars
  <2>3. ThreadPlaces' /\ ThreadsMade'
      BY <2>1, <1>a DEF ThreadPlaces, ThreadsMade
  <2>4. NumbersGiven'
      BY <2>1, <2>2, <1>a DEF NumbersGiven
  <2> QED BY <1>d, <2>3, <2>4 DEF ThreadsInv
<1> QED BY <1>1, <1>2, <1>3, <1>4, <1>5, <1>6, <1>7, <1>8 DEF ThreadsNext, JoinerRuns, WorkersRun

-----------------------------------------------------------------------------
(* shm1.c, shm2.c: the flag says whose turn it is; the texts printed and the *)
(* one cleared are those typed before it                                     *)

ShmPlaces ==
    /\ consumer \in {"begin", "look", "release", "test", "gone"}
    /\ producer \in {"wait", "enter", "copy", "copying", "raise", "gone"}
    /\ some_text \in 0..Torn /\ typed \in 0..LastText /\ cleared \in 0..LastText
    /\ printed \in Seq(0..LastText)

\* the text in the memory is the last typed, but while that is copied in
TextInMemory ==
    /\ written => producer \in {"wait", "gone"}
    /\ producer \in {"wait", "enter", "raise", "gone"} => some_text = typed
    /\ producer = "copy" => some_text + 1 = typed
    /\ producer = "copying" => some_text = Torn
    /\ producer \in {"wait", "enter"} /\ ~written => typed < LastText
    /\ producer = "wait" => typed < LastText
    /\ producer = "gone" => typed = LastText

\* the texts printed follow the one cleared, and the one to print is the next
TextsInOrder ==
    /\ consumer = "begin" => cleared = 0 /\ printed = << >>
    /\ \A i \in 1..Len(printed) : printed[i] = cleared + i
    /\ consumer = "release" => written /\ typed = cleared + Len(printed)
    /\ consumer # "release" /\ written => typed = cleared + Len(printed) + 1
    /\ ~written /\ producer \in {"wait", "enter", "gone"} => typed = cleared + Len(printed)
    /\ producer \in {"copy", "copying", "raise"} => typed = cleared + Len(printed) + 1
    /\ consumer = "release" => Len(printed) > 0
    /\ consumer = "gone" => cleared + Len(printed) + 1 >= LastText \/ garbled

ShmInv == written \in BOOLEAN /\ garbled \in BOOLEAN /\ ShmPlaces /\ TextInMemory /\ TextsInOrder

LEMMA ShmTyped == ShmInv => ShmTypes /\ TextsHandedOver
<1> SUFFICES ASSUME ShmInv PROVE ShmTypes /\ TextsHandedOver
    OBVIOUS
<1>1. ShmPlaces /\ TextInMemory /\ TextsInOrder
    BY DEF ShmInv
<1>2. {typed, cleared} \subseteq 0..LastText
    BY <1>1 DEF ShmPlaces
<1>3. ShmTypes
    BY <1>1, <1>2, Zenon DEF ShmInv, ShmPlaces, ShmTypes
<1> DEFINE last == IF printed = << >> THEN 0 ELSE printed[Len(printed)]
<1>4. Len(printed) \in Nat /\ (printed = << >> <=> Len(printed) = 0) /\ cleared \in Nat /\ LastText \in Nat
    BY <1>1, ShmAssumption DEF ShmPlaces, ShmAssumption
<1>5. printed # << >> => last = cleared + Len(printed) /\ printed[1] = cleared + 1
    BY <1>1, <1>4 DEF TextsInOrder
<1>6. printed = << >> => last = 0 /\ Len(printed) = 0
    BY <1>4
<1>7. \A i \in 2..Len(printed) : printed[i] = printed[i - 1] + 1
  <2> SUFFICES ASSUME NEW i \in 2..Len(printed) PROVE printed[i] = printed[i - 1] + 1
      OBVIOUS
  <2>1. i \in 1..Len(printed) /\ i - 1 \in 1..Len(printed)
      BY <1>4
  <2>2. printed[i] = cleared + i /\ printed[i - 1] = cleared + (i - 1)
      BY <1>1, <2>1 DEF TextsInOrder
  <2> QED BY <2>2, <1>4
<1> HIDE DEF last
<1>8. consumer = "look" /\ written => some_text = IF printed = << >> THEN cleared + 1 ELSE last + 1
    BY <1>1, <1>4, <1>5, <1>6 DEF TextInMemory, TextsInOrder
<1>9. consumer = "release" => written /\ some_text = last
    BY <1>1, <1>4, <1>5, <1>6 DEF TextInMemory, TextsInOrder
<1>10. consumer = "gone" => last >= LastText - 1 \/ garbled \/ cleared >= LastText - 1
    BY <1>1, <1>4, <1>5, <1>6 DEF TextsInOrder
<1> QED BY <1>3, <1>5, <1>7, <1>8, <1>9, <1>10 DEF TextsHandedOver, last

LEMMA ShmInitial == ShmInit => ShmInv
<1> SUFFICES ASSUME ShmInit PROVE ShmInv
    OBVIOUS
<1>1. written \in BOOLEAN /\ garbled \in BOOLEAN
    BY Zenon DEF ShmInit
<1>2. LastText \in Nat \ {0} /\ Len(<< >>) = 0 /\ << >> \in Seq(0..LastText)
    BY ShmAssumption DEF ShmAssumption
<1>3. ShmPlaces /\ TextInMemory /\ TextsInOrder
    BY <1>2 DEF ShmInit, ShmPlaces, TextInMemory, TextsInOrder, Torn
<1> QED BY <1>1, <1>3 DEF ShmInv

LEMMA ShmStep == ShmInv /\ [ShmNext]_shmVars => ShmInv'
<1> SUFFICES ASSUME ShmInv, [ShmNext]_shmVars PROVE ShmInv'
    OBVIOUS
<1>a. ShmPlaces /\ TextInMemory /\ TextsInOrder
    BY DEF ShmInv
<1>b. LastText \in Nat /\ LastText > 0 /\ Torn = LastText + 1 /\ Len(printed) \in Nat
    BY <1>a, ShmAssumption DEF ShmPlaces, ShmAssumption, Torn
<1>c. written \in BOOLEAN /\ garbled \in BOOLEAN
    BY Zenon DEF ShmInv
<1>d. written' \in BOOLEAN /\ garbled' \in BOOLEAN
  <2>1. CASE BeginConsumer \/ ConsumerRuns
      BY <2>1, <1>c, Zenon DEF BeginConsumer, ConsumerRuns, PrintText, ReleaseText, TestText
  <2>2. CASE EnterText \/ ProducerRuns
      BY <2>2, <1>c, Zenon DEF EnterText, ProducerRuns, WaitForClient, CopyText, RaiseFlag
  <2>3. CASE UNCHANGED shmVars
      BY <2>3, <1>c, Zenon DEF shmVars
  <2> QED BY <2>1, <2>2, <2>3 DEF ShmNext
<1> USE <1>a, <1>b DEF ShmPlaces, TextInMemory, TextsInOrder
<1>1. CASE BeginConsumer
  <2>1. (written => cleared' = some_text) /\ (~written => cleared' = 0)
      BY <1>1 DEF BeginConsumer
  <2>2. /\ consumer = "begin" /\ consumer' = "look" /\ producer' = producer /\ some_text' = some_text
        /\ typed' = typed /\ printed' = printed
      BY <1>1 DEF BeginConsumer
  <2>3. ~written' /\ (garbled' <=> garbled)
      BY <1>1 DEF BeginConsumer
  <2>4. printed = << >> /\ Len(printed) = 0 /\ cleared = 0
      BY <2>2
  <2>5. ShmPlaces' /\ TextInMemory' /\ TextsInOrder'
      BY <2>1, <2>2, <2>3, <2>4
  <2> QED BY <1>d, <2>5 DEF ShmInv
<1>2. CASE PrintText
  <2>1. /\ consumer = "look" /\ consumer' = "release" /\ printed' = Append(printed, some_text)
        /\ producer' = producer /\ some_text' = some_text /\ typed' = typed /\ cleared' = cleared
      BY <1>2 DEF PrintText
  <2>2. written /\ written' /\ (garbled' <=> garbled)
      BY <1>2 DEF PrintText
  <2>3. some_text = cleared + Len(printed) + 1 /\ some_text \in 0..LastText
      BY <2>1, <2>2
  <2>4. printed' \in Seq(0..LastText) /\ Len(printed') = Len(printed) + 1
      BY <2>1, <2>3
  <2>5. \A i \in 1..Len(printed') : printed'[i] = cleared' + i
    <3> SUFFICES ASSUME NEW i \in 1..Len(printed') PROVE printed'[i] = cleared' + i
        OBVIOUS
    <3>1. CASE i = Len(printed) + 1
        BY <2>1, <2>3, <3>1
    <3>2. CASE i # Len(printed) + 1
      <4>1. i \in 1..Len(printed)
          BY <2>4, <3>2
      <4>2. printed'[i] = printed[i]
          BY <2>1, <4>1
      <4> QED BY <2>1, <4>1, <4>2
    <3> QED BY <3>1, <3>2
  <2>6. ShmPlaces' /\ TextInMemory'
      BY <2>1, <2>2, <2>4
  <2>7. TextsInOrder'
      BY <2>1, <2>2, <2>3, <2>4, <2>5
  <2> QED BY <1>d, <2>6, <2>7 DEF ShmInv
<1>3. CASE ReleaseText
  <2>1. /\ consumer = "release" /\ consumer' = "test" /\ producer' = producer /\ some_text' = some_text
        /\ typed' = typed /\ printed' = printed /\ cleared' = cleared
      BY <1>3 DEF ReleaseText
  <2>2. ~written' /\ (garbled' <=> garbled)
      BY <1>3 DEF ReleaseText
  <2>3. ShmPlaces' /\ TextInMemory' /\ TextsInOrder'
      BY <2>1, <2>2
  <2> QED BY <1>d, <2>3 DEF ShmInv
<1>4. CASE TestText
  <2>1. /\ consumer = "test" /\ producer' = producer /\ some_text' = some_text
        /\ typed' = typed /\ printed' = printed /\ cleared' = cleared
        /\ (consumer' = "gone" /\ some_text \in {LastText, Torn}) \/ consumer' = "look"
      BY <1>4 DEF TestText
  <2>2. (written' <=> written) /\ (garbled' <=> (garbled \/ some_text = Torn))
      BY <1>4 DEF TestText
  <2>3. consumer' = "gone" => cleared + Len(printed) + 1 >= LastText \/ garbled'
      BY <2>1, <2>2
  <2>4. ShmPlaces' /\ TextInMemory'
      BY <2>1, <2>2
  <2>5. TextsInOrder'
      BY <2>1, <2>2, <2>3
  <2> QED BY <1>d, <2>4, <2>5 DEF ShmInv
<1>5. CASE WaitForClient \/ EnterText \/ CopyText \/ RaiseFlag
  <2>1. /\ consumer' = consumer /\ printed' = printed /\ cleared' = cleared
        /\ \/ producer = "wait" /\ producer' = "enter" /\ some_text' = some_text /\ typed' = typed
           \/ producer = "enter" /\ producer' = "copy" /\ some_text' = some_text /\ typed' = typed + 1
           \/ producer = "copy" /\ producer' = "copying" /\ some_text' = Torn /\ typed' = typed
           \/ producer = "copying" /\ producer' = "raise" /\ some_text' = typed /\ typed' = typed
           \/ /\ producer = "raise" /\ some_text' = some_text /\ typed' = typed
              /\ producer' = IF typed = LastText THEN "gone" ELSE "wait"
      BY <1>5 DEF WaitForClient, EnterText, CopyText, RaiseFlag
  <2>2. /\ producer = "wait" => ~written
        /\ producer = "raise" => written'
        /\ producer # "raise" => (written' <=> written)
        /\ garbled' <=> garbled
      BY <1>5 DEF WaitForClient, EnterText, CopyText, RaiseFlag
  <2>3. ~written
      BY <2>1, <2>2
  <2>4. ShmPlaces' /\ TextInMemory'
      BY <2>1, <2>2, <2>3
  <2>5. TextsInOrder'
      BY <2>1, <2>2, <2>3
  <2> QED BY <1>d, <2>4, <2>5 DEF ShmInv
<1>6. CASE UNCHANGED shmVars
  <2>1. /\ consumer' = consumer /\ printed' = printed /\ cleared' = cleared
        /\ producer' = producer /\ some_text' = some_text /\ typed' = typed
      BY <1>6 DEF shmVars
  <2>2. (written' <=> written) /\ (garbled' <=> garbled)
      BY <1>6 DEF shmVars
  <2>3. ShmPlaces' /\ TextInMemory' /\ TextsInOrder'
      BY <2>1, <2>2
  <2> QED BY <1>d, <2>3 DEF ShmInv
<1> QED BY <1>1, <1>2, <1>3, <1>4, <1>5, <1>6 DEF ShmNext, ConsumerRuns, ProducerRuns

-----------------------------------------------------------------------------
(* server.c, client.c: what a client still waits for is later than what it  *)
(* has read and than what its FIFO holds; and while nobody has died or      *)
(* passed an answer over, a client has one request under way at a time      *)

FifoRequests == [from : FifoClients, n : 1..TimesToSend]

UpperPlaces ==
    /\ upper \in {"open", "read", "answer", "opening", "write", "close", "shut", "unlink", "ended", "sigpipe"}
    /\ fifo \in Seq(FifoRequests) /\ hand.n \in 0..TimesToSend
    /\ upper \in {"answer", "opening", "write", "close"} => hand.from \in FifoClients
    /\ client \in [FifoClients -> ClientLines]
    /\ sent \in [FifoClients -> 0..TimesToSend] /\ got \in [FifoClients -> 0..TimesToSend]
    /\ reply \in [FifoClients -> Seq(Nat)] /\ crashes \in 0..MaxCrashes

\* the request in hand is not answered yet
InHand == upper \in {"answer", "opening", "write"}

AnswersAscend ==
    \A c \in FifoClients :
        /\ got[c] <= sent[c]
        /\ \A i \in 1..Len(reply[c]) :
              /\ reply[c][i] \in i..sent[c] /\ reply[c][i] > got[c]
              /\ \A j \in 1..Len(reply[c]) : i < j => reply[c][i] < reply[c][j]

\* the answer n of c is later than those c has
Later(n, sentSoFar, gotLast, held) == n \in 1..sentSoFar /\ n > gotLast /\ \A i \in 1..Len(held) : held[i] < n
Follows(c, n) == Later(n, sent[c], got[c], reply[c])

\* ... after a step
FollowsNext(c, n) == Later(n, sent'[c], got'[c], reply'[c])

RequestsFollow ==
    /\ \A i \in 1..Len(fifo) :
          /\ Follows(fifo[i].from, fifo[i].n)
          /\ \A j \in 1..Len(fifo) : i < j /\ fifo[i].from = fifo[j].from => fifo[i].n < fifo[j].n
    /\ InHand => /\ Follows(hand.from, hand.n)
                 /\ \A i \in 1..Len(fifo) : fifo[i].from = hand.from => hand.n < fifo[i].n

Undisturbed == crashes = 0 /\ passed = {} /\ upper \notin {"unlink", "ended"}

OneUnderWay ==
    /\ upper # "sigpipe"
    /\ \A c \in FifoClients : Len(reply[c]) <= 1
    /\ \A c \in FifoClients : client[c] \notin {"open", "read"} =>
          reply[c] = << >> /\ \A i \in 1..Len(fifo) : fifo[i].from # c
    /\ InHand => /\ client[hand.from] \in {"open", "read"} /\ reply[hand.from] = << >>
                 /\ \A i \in 1..Len(fifo) : fifo[i].from # hand.from
    /\ upper = "write" => client[hand.from] = "read"
    /\ \A i \in 1..Len(fifo) : reply[fifo[i].from] = << >>
    /\ \A i, j \in 1..Len(fifo) : fifo[i].from = fifo[j].from => i = j

FifoInv == UpperPlaces /\ AnswersAscend /\ RequestsFollow /\ (Undisturbed => OneUnderWay)

LEMMA FifoTyped == FifoInv => FifoTypes /\ AnswersInSequence
<1> SUFFICES ASSUME FifoInv PROVE FifoTypes /\ AnswersInSequence
    OBVIOUS
<1>1. UpperPlaces /\ AnswersAscend
    BY DEF FifoInv
<1>2. ASSUME NEW c \in FifoClients
      PROVE  /\ Len(reply[c]) <= TimesToSend
             /\ \A i \in DOMAIN reply[c] :
                   /\ reply[c][i] > (IF i = 1 THEN 0 ELSE reply[c][i - 1])
                   /\ client[c] = "read" => reply[c][i] > got[c]
                   /\ reply[c][i] <= sent[c]
  <2>1. reply[c] \in Seq(Nat) /\ sent[c] \in 0..TimesToSend /\ TimesToSend \in Nat /\ got[c] \in Nat
      BY <1>1, UpperAssumption DEF UpperPlaces, UpperAssumption
  <2>2. DOMAIN reply[c] = 1..Len(reply[c]) /\ Len(reply[c]) \in Nat
      BY <2>1
  <2>3. ASSUME NEW i \in 1..Len(reply[c])
        PROVE  /\ reply[c][i] \in Nat /\ i <= reply[c][i] /\ reply[c][i] <= sent[c] /\ reply[c][i] > got[c]
               /\ \A j \in 1..Len(reply[c]) : i < j => reply[c][i] < reply[c][j]
      BY <1>1, <2>1, <2>2 DEF AnswersAscend
  <2>4. Len(reply[c]) <= TimesToSend
    <3>1. CASE Len(reply[c]) = 0
        BY <2>1, <3>1
    <3>2. CASE Len(reply[c]) # 0
      <4>1. Len(reply[c]) \in 1..Len(reply[c])
          BY <2>2, <3>2
      <4>2. Len(reply[c]) <= reply[c][Len(reply[c])] /\ reply[c][Len(reply[c])] <= sent[c] /\ reply[c][Len(reply[c])] \in Nat
          BY <2>3, <4>1
      <4> QED BY <2>1, <2>2, <4>2
    <3> QED BY <3>1, <3>2
  <2>5. ASSUME NEW i \in 1..Len(reply[c]) PROVE reply[c][i] > (IF i = 1 THEN 0 ELSE reply[c][i - 1])
    <3>1. CASE i = 1
        BY <2>3, <3>1
    <3>2. CASE i # 1
      <4>1. i - 1 \in 1..Len(reply[c]) /\ i - 1 < i
          BY <2>2, <3>2
      <4>2. reply[c][i - 1] < reply[c][i] /\ reply[c][i] \in Nat /\ reply[c][i - 1] \in Nat
          BY <2>3, <4>1
      <4> QED BY <3>2, <4>2
    <3> QED BY <3>1, <3>2
  <2> QED BY <2>2, <2>3, <2>4, <2>5
<1>3. FifoTypes
    BY <1>1, <1>2 DEF FifoTypes, UpperPlaces
<1>4. upper = "sigpipe" => crashes > 0 \/ passed # {}
  <2>1. crashes \in Nat
      BY <1>1, UpperAssumption DEF UpperPlaces, UpperAssumption
  <2> QED BY <2>1 DEF FifoInv, Undisturbed, OneUnderWay
<1> QED BY <1>2, <1>3, <1>4 DEF AnswersInSequence

LEMMA FifoInitial == FifoInit => FifoInv
<1> SUFFICES ASSUME FifoInit PROVE FifoInv
    OBVIOUS
<1>1. UpperPlaces
    BY UpperAssumption DEF UpperAssumption, FifoInit, UpperPlaces, NoRequest, ClientLines
<1>2. AnswersAscend /\ RequestsFollow /\ OneUnderWay
    BY DEF FifoInit, AnswersAscend, RequestsFollow, OneUnderWay, InHand
<1> QED BY <1>1, <1>2 DEF FifoInv

\* a step that leaves requests and answers alone
LEMMA StillFollows ==
    ASSUME AnswersAscend, RequestsFollow, InHand' => InHand,
           fifo' = fifo, hand' = hand \/ ~InHand', sent' = sent, got' = got, reply' = reply
    PROVE  AnswersAscend' /\ RequestsFollow'
<1>1. AnswersAscend'
    BY DEF AnswersAscend
<1>2. RequestsFollow'
    BY DEF RequestsFollow, Follows
<1> QED BY <1>1, <1>2

\* steps of client.c that change only the line it is at
LEMMA ClientMoves ==
    ASSUME FifoInv, NEW c \in FifoClients,
           Connect(c) \/ NoServer(c) \/ MakeFifo(c) \/ OpenAtOnce(c) \/ Disconnect(c) \/ RemoveFifo(c)
    PROVE  FifoInv'
<1>a. UpperPlaces /\ AnswersAscend /\ RequestsFollow
    BY DEF FifoInv
<1>1. PICK at \in ClientLines : /\ client' = [client EXCEPT ![c] = at]
                                /\ at \in {"open", "read"} => client[c] = "open" /\ at = "read"
                                /\ client[c] \in {"open", "read"} => at = "read"
    BY DEF Connect, NoServer, MakeFifo, OpenAtOnce, Disconnect, RemoveFifo, ClientLines
<1>2. /\ hand' = hand /\ fifo' = fifo /\ sent' = sent /\ got' = got /\ reply' = reply
      /\ passed' = passed /\ crashes' = crashes /\ (upper' = upper \/ (upper = "open" /\ upper' = "read"))
    BY DEF Connect, NoServer, MakeFifo, OpenAtOnce, Disconnect, RemoveFifo
<1>3. UpperPlaces'
    BY <1>a, <1>1, <1>2 DEF UpperPlaces
<1>4. (InHand' <=> InHand) /\ (upper' = "write" => upper = "write") /\ (upper' = "sigpipe" => upper = "sigpipe")
    BY <1>2 DEF InHand
<1>5. AnswersAscend' /\ RequestsFollow'
    BY <1>a, <1>2, <1>4, StillFollows
<1>6. client'[c] = at /\ \A d \in FifoClients : d # c => client'[d] = client[d]
    BY <1>a, <1>1 DEF UpperPlaces
<1>7. Undisturbed' => OneUnderWay'
  <2> SUFFICES ASSUME Undisturbed' PROVE OneUnderWay'
      OBVIOUS
  <2>1. OneUnderWay
      BY <1>2 DEF FifoInv, Undisturbed
  <2>2. \A d \in FifoClients : client'[d] \in {"open", "read"} <=> client[d] \in {"open", "read"}
      BY <1>1, <1>6
  <2>3. \A d \in FifoClients : client[d] = "read" => client'[d] = "read"
      BY <1>1, <1>6
  <2>4. InHand => hand.from \in FifoClients
      BY <1>a DEF InHand, UpperPlaces
  <2>5. upper = "write" => InHand
      BY DEF InHand
  <2> QED BY <1>2, <1>4, <2>1, <2>2, <2>3, <2>4, <2>5 DEF OneUnderWay
<1> QED BY <1>3, <1>5, <1>7 DEF FifoInv

LEMMA RequestFields ==
    ASSUME fifo \in Seq(FifoRequests)
    PROVE  \A i \in 1..Len(fifo) : /\ fifo[i] \in FifoRequests /\ fifo[i].from \in FifoClients
                                   /\ fifo[i].n \in 1..TimesToSend /\ fifo[i].n \in Nat
<1>1. \A i \in 1..Len(fifo) : fifo[i] \in FifoRequests
    OBVIOUS
<1>2. \A m \in FifoRequests : m.from \in FifoClients /\ m.n \in 1..TimesToSend
    BY DEF FifoRequests
<1>3. 1..TimesToSend \subseteq Nat
    BY UpperAssumption DEF UpperAssumption
<1> QED BY <1>1, <1>2, <1>3

\* a step that drops the answers in a FIFO
LEMMA AnswersDropped ==
    ASSUME UpperPlaces, AnswersAscend, RequestsFollow, InHand' => InHand,
           fifo' = fifo, hand' = hand \/ ~InHand', sent' = sent, got' = got,
           \A d \in FifoClients : reply'[d] = reply[d] \/ reply'[d] = << >>
    PROVE  AnswersAscend' /\ RequestsFollow'
<1>1. AnswersAscend'
  <2> SUFFICES ASSUME NEW d \in FifoClients
               PROVE  /\ got[d] <= sent[d]
                      /\ \A i \in 1..Len(reply'[d]) :
                            /\ reply'[d][i] \in i..sent[d] /\ reply'[d][i] > got[d]
                            /\ \A j \in 1..Len(reply'[d]) : i < j => reply'[d][i] < reply'[d][j]
      BY DEF AnswersAscend
  <2>1. CASE reply'[d] = reply[d]
      BY <2>1 DEF AnswersAscend
  <2>2. CASE reply'[d] = << >>
      BY <2>2 DEF AnswersAscend
  <2> QED BY <2>1, <2>2
<1>2. ASSUME NEW d \in FifoClients, NEW n, Follows(d, n) PROVE FollowsNext(d, n)
  <2>1. CASE reply'[d] = reply[d]
      BY <1>2, <2>1 DEF Follows, FollowsNext, Later
  <2>2. CASE reply'[d] = << >>
      BY <1>2, <2>2 DEF Follows, FollowsNext, Later
  <2> QED BY <2>1, <2>2
<1>3. \A i \in 1..Len(fifo) : fifo[i].from \in FifoClients
    BY RequestFields DEF UpperPlaces
<1>4. \A i \in 1..Len(fifo) : FollowsNext(fifo'[i].from, fifo'[i].n)
  <2> SUFFICES ASSUME NEW i \in 1..Len(fifo) PROVE FollowsNext(fifo[i].from, fifo[i].n)
      OBVIOUS
  <2> QED BY <1>2, <1>3 DEF RequestsFollow
<1>5. InHand' => FollowsNext(hand'.from, hand'.n)
  <2>1. InHand' => hand' = hand /\ hand.from \in FifoClients /\ Follows(hand.from, hand.n)
      BY DEF RequestsFollow, UpperPlaces, InHand
  <2> QED BY <1>2, <2>1
<1>6. RequestsFollow'
    BY <1>4, <1>5 DEF RequestsFollow, Follows, FollowsNext
<1> QED BY <1>1, <1>6

LEMMA ClientSends == ASSUME FifoInv, NEW c \in FifoClients, Send(c) PROVE FifoInv'
<1>a. UpperPlaces /\ AnswersAscend /\ RequestsFollow /\ TimesToSend \in Nat
    BY UpperAssumption DEF FifoInv, UpperAssumption
<1>b. /\ client[c] = "send" /\ sent[c] < TimesToSend /\ upper' = upper /\ hand' = hand /\ got' = got
      /\ reply' = reply /\ passed' = passed /\ crashes' = crashes
    BY DEF Send
<1>1. CASE ServerReads
  <2> DEFINE m == [from |-> c, n |-> sent[c] + 1]
  <2>1. client' = [client EXCEPT ![c] = "open"] /\ sent' = [sent EXCEPT ![c] = sent[c] + 1] /\ fifo' = Append(fifo, m)
      BY <1>1 DEF Send
  <2>2. sent[c] \in 0..TimesToSend /\ sent[c] + 1 \in 1..TimesToSend
      BY <1>a, <1>b DEF UpperPlaces
  <2>3. m \in FifoRequests /\ m.from = c /\ m.n = sent[c] + 1
      BY <2>2 DEF FifoRequests
  <2> HIDE DEF m
  <2>4. fifo \in Seq(FifoRequests)
      BY <1>a DEF UpperPlaces
  <2>5. /\ fifo' \in Seq(FifoRequests) /\ Len(fifo') = Len(fifo) + 1 /\ fifo'[Len(fifo) + 1] = m
        /\ \A i \in 1..Len(fifo) : fifo'[i] = fifo[i]
      BY <2>1, <2>3, <2>4, AppendProperties
  <2>6. \A i \in 1..Len(fifo') : i \in 1..Len(fifo) \/ (i = Len(fifo) + 1 /\ fifo'[i] = m)
      BY <2>4, <2>5
  <2>7. /\ client'[c] = "open" /\ sent'[c] = sent[c] + 1
        /\ \A d \in FifoClients : d # c => client'[d] = client[d] /\ sent'[d] = sent[d]
      BY <1>a, <2>1 DEF UpperPlaces
  <2>8. client' \in [FifoClients -> ClientLines] /\ sent' \in [FifoClients -> 0..TimesToSend]
      BY <1>a, <2>1, <2>2 DEF UpperPlaces, ClientLines
  <2>9. UpperPlaces'
      BY <1>a, <1>b, <2>5, <2>8 DEF UpperPlaces
  <2>10. \A d \in FifoClients : sent[d] \in Nat /\ sent'[d] \in Nat /\ sent[d] <= sent'[d]
    <3>1. \A d \in FifoClients : sent[d] \in Nat
        BY <1>a DEF UpperPlaces
    <3>2. \A d \in FifoClients : sent'[d] = sent[d] \/ sent'[d] = sent[d] + 1
        BY <2>7
    <3> QED BY <3>1, <3>2
  <2>11. \A d \in FifoClients : \A i \in 1..Len(reply[d]) : reply[d][i] \in 1..sent[d]
    <3> SUFFICES ASSUME NEW d \in FifoClients, NEW i \in 1..Len(reply[d]) PROVE reply[d][i] \in 1..sent[d]
        OBVIOUS
    <3>1. reply[d] \in Seq(Nat) /\ i \in Nat \ {0} /\ reply[d][i] \in i..sent[d]
        BY <1>a DEF UpperPlaces, AnswersAscend
    <3> QED BY <3>1, <2>10
  <2>12. AnswersAscend'
    <3> SUFFICES ASSUME NEW d \in FifoClients
                 PROVE  /\ got[d] <= sent'[d]
                        /\ \A i \in 1..Len(reply[d]) :
                              /\ reply[d][i] \in i..sent'[d] /\ reply[d][i] > got[d]
                              /\ \A j \in 1..Len(reply[d]) : i < j => reply[d][i] < reply[d][j]
        BY <1>b DEF AnswersAscend
    <3>1. got[d] \in Nat /\ got[d] <= sent[d] /\ reply[d] \in Seq(Nat)
        BY <1>a DEF UpperPlaces, AnswersAscend
    <3>2. ASSUME NEW i \in 1..Len(reply[d])
          PROVE  /\ reply[d][i] \in i..sent'[d] /\ reply[d][i] > got[d]
                 /\ \A j \in 1..Len(reply[d]) : i < j => reply[d][i] < reply[d][j]
      <4>1. /\ reply[d][i] \in i..sent[d] /\ reply[d][i] > got[d]
            /\ \A j \in 1..Len(reply[d]) : i < j => reply[d][i] < reply[d][j]
          BY <1>a DEF AnswersAscend
      <4> QED BY <2>10, <3>1, <4>1
    <3> QED BY <2>10, <3>1, <3>2
  <2>13. ASSUME NEW d \in FifoClients, NEW n, Follows(d, n) PROVE FollowsNext(d, n)
    <3>1. n \in 1..sent'[d]
        BY <2>10, <2>13 DEF Follows, FollowsNext, Later
    <3> QED BY <1>b, <2>13, <3>1 DEF Follows, FollowsNext, Later
  <2>14. FollowsNext(c, sent[c] + 1)
    <3>1. got[c] < sent[c] + 1
        BY <1>a, <2>10 DEF UpperPlaces, AnswersAscend
    <3>2. sent[c] + 1 \in 1..sent'[c]
        BY <2>7, <2>10
    <3>3. \A i \in 1..Len(reply[c]) : reply[c][i] < sent[c] + 1
        BY <2>10, <2>11
    <3> QED BY <1>b, <3>1, <3>2, <3>3 DEF Follows, FollowsNext, Later
  <2>15. \A i \in 1..Len(fifo) : fifo[i].from \in FifoClients /\ fifo[i].n \in Nat
      BY <2>4, RequestFields
  <2>16. \A i \in 1..Len(fifo) : fifo[i].from = c => fifo[i].n < sent[c] + 1
    <3>1. \A i \in 1..Len(fifo) : fifo[i].from = c => fifo[i].n \in 1..sent[c]
        BY <1>a DEF RequestsFollow, Follows, Later
    <3> QED BY <2>10, <3>1
  <2>17. InHand => hand.from \in FifoClients /\ hand.n \in Nat /\ (hand.from = c => hand.n < sent[c] + 1)
    <3>1. InHand => hand.from \in FifoClients /\ (hand.from = c => hand.n \in 1..sent[c])
        BY <1>a DEF RequestsFollow, Follows, Later, InHand, UpperPlaces
    <3>2. hand.n \in Nat
        BY <1>a DEF UpperPlaces
    <3> QED BY <2>10, <3>1, <3>2
  <2>18. RequestsFollow'
    <3>1. \A i \in 1..Len(fifo') : FollowsNext(fifo'[i].from, fifo'[i].n)
      <4> SUFFICES ASSUME NEW i \in 1..Len(fifo') PROVE FollowsNext(fifo'[i].from, fifo'[i].n)
          OBVIOUS
      <4>1. CASE i \in 1..Len(fifo)
        <5>1. Follows(fifo[i].from, fifo[i].n)
            BY <1>a, <4>1 DEF RequestsFollow
        <5> QED BY <2>5, <2>13, <2>15, <4>1, <5>1
      <4>2. CASE fifo'[i] = m
          BY <2>3, <2>14, <4>2
      <4> QED BY <2>6, <4>1, <4>2
    <3>2. \A i, j \in 1..Len(fifo') : i < j /\ fifo'[i].from = fifo'[j].from => fifo'[i].n < fifo'[j].n
      <4> SUFFICES ASSUME NEW i \in 1..Len(fifo'), NEW j \in 1..Len(fifo'), i < j, fifo'[i].from = fifo'[j].from
                   PROVE  fifo'[i].n < fifo'[j].n
          OBVIOUS
      <4>1. i \in 1..Len(fifo)
          BY <2>4, <2>5
      <4>2. CASE j \in 1..Len(fifo)
          BY <1>a, <2>5, <4>1, <4>2 DEF RequestsFollow
      <4>3. CASE fifo'[j] = m
          BY <2>3, <2>5, <2>16, <4>1, <4>3
      <4> QED BY <2>6, <4>2, <4>3
    <3>3. ASSUME InHand
          PROVE  FollowsNext(hand'.from, hand'.n) /\ \A i \in 1..Len(fifo') : fifo'[i].from = hand.from => hand.n < fifo'[i].n
      <4>1. Follows(hand.from, hand.n)
          BY <1>a, <3>3 DEF RequestsFollow
      <4>2. hand'.from = hand.from /\ hand'.n = hand.n
          BY <1>b
      <4>3. FollowsNext(hand'.from, hand'.n)
          BY <2>13, <2>17, <3>3, <4>1, <4>2
      <4>4. \A i \in 1..Len(fifo') : fifo'[i].from = hand.from => hand.n < fifo'[i].n
        <5> SUFFICES ASSUME NEW i \in 1..Len(fifo'), fifo'[i].from = hand.from PROVE hand.n < fifo'[i].n
            OBVIOUS
        <5>1. CASE i \in 1..Len(fifo)
            BY <1>a, <2>5, <3>3, <5>1 DEF RequestsFollow
        <5>2. CASE fifo'[i] = m
            BY <2>3, <2>17, <3>3, <5>2
        <5> QED BY <2>6, <5>1, <5>2
      <4> QED BY <4>1, <4>2, <4>3, <4>4
    <3>4. InHand' <=> InHand
        BY <1>b DEF InHand
    <3> QED BY <1>b, <3>1, <3>2, <3>3, <3>4 DEF RequestsFollow, Follows, FollowsNext
  <2>19. Undisturbed' => OneUnderWay'
    <3> SUFFICES ASSUME Undisturbed' PROVE OneUnderWay'
        OBVIOUS
    <3>1. OneUnderWay
        BY <1>b DEF FifoInv, Undisturbed
    <3>2. reply[c] = << >> /\ \A i \in 1..Len(fifo) : fifo[i].from # c
        BY <1>b, <3>1 DEF OneUnderWay
    <3>3. InHand => hand.from # c
        BY <1>b, <3>1 DEF OneUnderWay
    <3>4. InHand' <=> InHand
        BY <1>b DEF InHand
    <3>5. \A d \in FifoClients : client'[d] \notin {"open", "read"} => d # c /\ client'[d] = client[d]
        BY <2>7
    <3>6. \A d \in FifoClients : client'[d] \notin {"open", "read"} =>
              reply[d] = << >> /\ \A i \in 1..Len(fifo') : fifo'[i].from # d
        BY <2>3, <2>5, <2>6, <3>1, <3>5 DEF OneUnderWay
    <3>7. InHand => /\ client'[hand.from] \in {"open", "read"} /\ reply[hand.from] = << >>
                    /\ \A i \in 1..Len(fifo') : fifo'[i].from # hand.from
        BY <2>3, <2>5, <2>6, <2>7, <2>17, <3>1, <3>3 DEF OneUnderWay
    <3>8. \A i \in 1..Len(fifo') : reply[fifo'[i].from] = << >>
        BY <2>3, <2>5, <2>6, <3>1, <3>2 DEF OneUnderWay
    <3>9. \A i, j \in 1..Len(fifo') : fifo'[i].from = fifo'[j].from => i = j
      <4> SUFFICES ASSUME NEW i \in 1..Len(fifo'), NEW j \in 1..Len(fifo'), fifo'[i].from = fifo'[j].from
                   PROVE  i = j
          OBVIOUS
      <4>1. CASE i \in 1..Len(fifo) /\ j \in 1..Len(fifo)
        <5>1. fifo[i].from = fifo[j].from
            BY <2>5, <4>1
        <5> QED BY <3>1, <4>1, <5>1 DEF OneUnderWay
      <4>2. CASE i \in 1..Len(fifo) /\ j = Len(fifo) + 1 /\ fifo'[j] = m
        <5>1. fifo'[i].from = fifo[i].from /\ fifo'[j].from = c
            BY <2>3, <2>5, <4>2
        <5> QED BY <3>2, <4>2, <5>1
      <4>3. CASE j \in 1..Len(fifo) /\ i = Len(fifo) + 1 /\ fifo'[i] = m
        <5>1. fifo'[j].from = fifo[j].from /\ fifo'[i].from = c
            BY <2>3, <2>5, <4>3
        <5> QED BY <3>2, <4>3, <5>1
      <4> QED BY <2>6, <4>1, <4>2, <4>3
    <3>10. upper = "write" => client'[hand.from] = "read"
        BY <2>7, <2>17, <3>1, <3>3 DEF OneUnderWay, InHand
    <3> QED BY <1>b, <3>1, <3>4, <3>6, <3>7, <3>8, <3>9, <3>10 DEF OneUnderWay
  <2> QED BY <2>9, <2>12, <2>18, <2>19 DEF FifoInv
<1>2. CASE ~ServerReads
  <2>1. client' = [client EXCEPT ![c] = "killed"] /\ fifo' = fifo /\ sent' = sent
      BY <1>2 DEF Send
  <2>2. ~InHand /\ ~InHand' /\ upper # "write"
      BY <1>2, <1>b DEF ServerReads, InHand
  <2>3. UpperPlaces'
      BY <1>a, <1>b, <2>1 DEF UpperPlaces, ClientLines
  <2>4. AnswersAscend' /\ RequestsFollow'
      BY <1>a, <1>b, <2>1, <2>2, StillFollows
  <2>5. \A d \in FifoClients : client'[d] \notin {"open", "read"} => client[d] \notin {"open", "read"}
      BY <1>a, <1>b, <2>1 DEF UpperPlaces
  <2>6. Undisturbed' => OneUnderWay'
    <3> SUFFICES ASSUME Undisturbed' PROVE OneUnderWay'
        OBVIOUS
    <3>1. OneUnderWay
        BY <1>b DEF FifoInv, Undisturbed
    <3> QED BY <1>b, <2>1, <2>2, <2>5, <3>1 DEF OneUnderWay
  <2> QED BY <2>3, <2>4, <2>6 DEF FifoInv
<1> QED BY <1>1, <1>2

LEMMA ClientReads == ASSUME FifoInv, NEW c \in FifoClients, Read(c) PROVE FifoInv'
<1>a. UpperPlaces /\ AnswersAscend /\ RequestsFollow
    BY DEF FifoInv
<1>1. /\ client[c] = "read" /\ client' = [client EXCEPT ![c] = "send"]
      /\ upper' = upper /\ hand' = hand /\ fifo' = fifo /\ sent' = sent /\ crashes' = crashes
    BY DEF Read
<1>2. reply[c] \in Seq(Nat) /\ Len(reply[c]) \in Nat /\ got[c] \in Nat /\ sent[c] \in 0..TimesToSend /\ TimesToSend \in Nat
    BY <1>a, UpperAssumption DEF UpperPlaces, UpperAssumption
<1>3. PICK rest \in Seq(Nat), g \in 0..sent[c] :
          /\ reply' = [reply EXCEPT ![c] = rest] /\ got' = [got EXCEPT ![c] = g]
          /\ \A n : Follows(c, n) => g < n
          /\ \A i \in 1..Len(rest) : i + 1 \in 1..Len(reply[c]) /\ rest[i] = reply[c][i + 1] /\ g < rest[i]
          /\ (reply[c] = << >> => passed' # {} /\ rest = << >>)
          /\ (reply[c] # << >> => passed' = passed /\ Len(rest) <= Len(reply[c]) - 1)
  <2>1. CASE reply[c] = << >>
    <3>1. reply' = [reply EXCEPT ![c] = << >>] /\ passed' = passed \cup {c} /\ got' = got
        BY <2>1 DEF Read
    <3>2. got' = [got EXCEPT ![c] = got[c]] /\ got[c] \in 0..sent[c]
        BY <1>a, <1>2, <3>1 DEF UpperPlaces, AnswersAscend
    <3>3. << >> \in Seq(Nat) /\ Len(<< >>) = 0
        OBVIOUS
    <3>4. \A n : Follows(c, n) => got[c] < n
        BY DEF Follows, FollowsNext, Later
    <3>5. passed' # {}
        BY <3>1
    <3> DEFINE g == got[c]
    <3>6. /\ \A i \in 1..Len(<< >>) : i + 1 \in 1..Len(reply[c]) /\ << >>[i] = reply[c][i + 1] /\ g < << >>[i]
          /\ got' = [got EXCEPT ![c] = g] /\ g \in 0..sent[c] /\ \A n : Follows(c, n) => g < n
        BY <3>2, <3>3, <3>4
    <3> HIDE DEF g
    <3> QED BY <2>1, <3>1, <3>3, <3>5, <3>6
  <2>2. CASE reply[c] # << >>
    <3> DEFINE rest == IF Answering(c) THEN Tail(reply[c]) ELSE << >>
    <3>1. reply' = [reply EXCEPT ![c] = rest] /\ passed' = passed /\ got' = [got EXCEPT ![c] = Head(reply[c])]
        BY <2>2 DEF Read
    <3>2. 1 \in 1..Len(reply[c]) /\ Head(reply[c]) = reply[c][1]
        BY <1>2, <2>2
    <3>3. /\ Tail(reply[c]) \in Seq(Nat) /\ Len(Tail(reply[c])) = Len(reply[c]) - 1
          /\ \A i \in 1..Len(Tail(reply[c])) : Tail(reply[c])[i] = reply[c][i + 1]
        BY <1>2, <2>2, HeadTailProperties
    <3>4. /\ rest \in Seq(Nat) /\ Len(rest) <= Len(reply[c]) - 1
          /\ \A i \in 1..Len(rest) : rest[i] = reply[c][i + 1]
      <4>1. CASE Answering(c)
          BY <3>3, <4>1
      <4>2. CASE ~Answering(c)
        <5>1. rest = << >>
            BY <4>2
        <5>2. Len(reply[c]) >= 1
            BY <1>2, <3>2
        <5> QED BY <5>1, <5>2, <1>2
      <4> QED BY <4>1, <4>2
    <3> HIDE DEF rest
    <3>5. \A i \in 1..Len(rest) : i + 1 \in 1..Len(reply[c]) /\ 1 < i + 1
        BY <1>2, <3>4
    <3>6. \A i \in 1..Len(rest) : reply[c][1] < rest[i]
        BY <1>a, <3>2, <3>4, <3>5 DEF AnswersAscend
    <3>7. reply[c][1] \in 0..sent[c]
        BY <1>a, <1>2, <3>2 DEF AnswersAscend
    <3>8. \A n : Follows(c, n) => reply[c][1] < n
        BY <3>2 DEF Follows, FollowsNext, Later
    <3> QED BY <2>2, <3>1, <3>2, <3>4, <3>5, <3>6, <3>7, <3>8
  <2> QED BY <2>1, <2>2
<1>4. /\ reply'[c] = rest /\ got'[c] = g /\ client'[c] = "send"
      /\ \A d \in FifoClients : d # c => reply'[d] = reply[d] /\ got'[d] = got[d] /\ client'[d] = client[d]
    BY <1>a, <1>1, <1>3 DEF UpperPlaces
<1>5. UpperPlaces'
  <2>1. g \in 0..TimesToSend
      BY <1>2
  <2> QED BY <1>a, <1>1, <1>3, <2>1 DEF UpperPlaces, ClientLines
<1>6. AnswersAscend'
  <2> SUFFICES ASSUME NEW d \in FifoClients
               PROVE  /\ got'[d] <= sent[d]
                      /\ \A i \in 1..Len(reply'[d]) :
                            /\ reply'[d][i] \in i..sent[d] /\ reply'[d][i] > got'[d]
                            /\ \A j \in 1..Len(reply'[d]) : i < j => reply'[d][i] < reply'[d][j]
      BY <1>1 DEF AnswersAscend
  <2>1. CASE d # c
      BY <1>a, <1>4, <2>1 DEF AnswersAscend
  <2>2. CASE d = c
    <3>1. g <= sent[c]
        BY <1>2
    <3>2. ASSUME NEW i \in 1..Len(rest)
          PROVE  /\ rest[i] \in i..sent[c] /\ rest[i] > g
                 /\ \A j \in 1..Len(rest) : i < j => rest[i] < rest[j]
      <4>1. i + 1 \in 1..Len(reply[c]) /\ rest[i] = reply[c][i + 1] /\ g < rest[i]
          BY <1>3
      <4>2. rest[i] \in (i + 1)..sent[c]
          BY <1>a, <4>1 DEF AnswersAscend
      <4>3. ASSUME NEW j \in 1..Len(rest), i < j PROVE rest[i] < rest[j]
        <5>1. j + 1 \in 1..Len(reply[c]) /\ rest[j] = reply[c][j + 1] /\ i + 1 < j + 1
            BY <1>3, <4>3
        <5> QED BY <1>a, <4>1, <5>1 DEF AnswersAscend
      <4>4. rest[i] \in i..sent[c]
          BY <1>2, <4>2
      <4>5. rest[i] > g
          BY <4>1, <4>4, <1>2
      <4> QED BY <4>3, <4>4, <4>5
    <3> QED BY <1>4, <2>2, <3>1, <3>2
  <2> QED BY <2>1, <2>2
<1>7. ASSUME NEW d \in FifoClients, NEW n, Follows(d, n) PROVE FollowsNext(d, n)
  <2>1. CASE d # c
      BY <1>1, <1>4, <1>7, <2>1 DEF Follows, FollowsNext, Later
  <2>2. CASE d = c
    <3>1. g < n /\ n \in 1..sent'[c]
        BY <1>1, <1>3, <1>7, <2>2 DEF Follows, FollowsNext, Later
    <3>2. \A i \in 1..Len(rest) : rest[i] < n
        BY <1>3, <1>7, <2>2 DEF Follows, FollowsNext, Later
    <3> QED BY <1>4, <2>2, <3>1, <3>2 DEF Follows, FollowsNext, Later
  <2> QED BY <2>1, <2>2
<1>8. InHand' <=> InHand
    BY <1>1 DEF InHand
<1>9. (InHand => hand.from \in FifoClients) /\ \A i \in 1..Len(fifo) : fifo[i].from \in FifoClients
    BY <1>a, RequestFields DEF UpperPlaces, InHand
<1>10. RequestsFollow'
  <2>1. \A i \in 1..Len(fifo) : FollowsNext(fifo'[i].from, fifo'[i].n)
    <3> SUFFICES ASSUME NEW i \in 1..Len(fifo) PROVE FollowsNext(fifo'[i].from, fifo'[i].n)
        OBVIOUS
    <3>1. Follows(fifo[i].from, fifo[i].n) /\ fifo'[i] = fifo[i]
        BY <1>a, <1>1 DEF RequestsFollow
    <3> QED BY <1>7, <1>9, <3>1
  <2>2. InHand => FollowsNext(hand'.from, hand'.n)
    <3> SUFFICES ASSUME InHand PROVE FollowsNext(hand'.from, hand'.n)
        OBVIOUS
    <3>1. Follows(hand.from, hand.n) /\ hand' = hand
        BY <1>a, <1>1 DEF RequestsFollow
    <3> QED BY <1>7, <1>9, <3>1
  <2> QED BY <1>a, <1>1, <1>8, <2>1, <2>2 DEF RequestsFollow, Follows, FollowsNext
<1>11. Undisturbed' => OneUnderWay'
  <2> SUFFICES ASSUME Undisturbed' PROVE OneUnderWay'
      OBVIOUS
  <2>1. reply[c] # << >> /\ Undisturbed
      BY <1>1, <1>3 DEF Undisturbed
  <2>2. OneUnderWay
      BY <2>1 DEF FifoInv
  <2>3. rest = << >>
    <3>1. Len(reply[c]) <= 1 /\ Len(rest) <= Len(reply[c]) - 1
        BY <1>3, <2>1, <2>2 DEF OneUnderWay
    <3> QED BY <1>2, <3>1
  <2>4. (InHand => hand.from # c) /\ \A i \in 1..Len(fifo) : fifo[i].from # c
      BY <2>1, <2>2 DEF OneUnderWay
  <2>5. \A d \in FifoClients : Len(reply'[d]) <= 1
      BY <1>4, <2>2, <2>3 DEF OneUnderWay
  <2>6. upper = "write" => InHand
      BY DEF InHand
  <2> QED BY <1>1, <1>4, <1>8, <1>9, <2>2, <2>3, <2>4, <2>5, <2>6 DEF OneUnderWay
<1> QED BY <1>5, <1>6, <1>10, <1>11 DEF FifoInv

LEMMA ClientCrashes == ASSUME FifoInv, NEW c \in FifoClients, Crash(c) PROVE FifoInv'
<1>a. UpperPlaces /\ AnswersAscend /\ RequestsFollow /\ MaxCrashes \in Nat
    BY UpperAssumption DEF FifoInv, UpperAssumption
<1>1. /\ client' = [client EXCEPT ![c] = "killed"] /\ crashes < MaxCrashes /\ crashes' = crashes + 1
      /\ upper' = upper /\ hand' = hand /\ fifo' = fifo /\ sent' = sent /\ got' = got
      /\ (reply' = [reply EXCEPT ![c] = reply[c]] \/ reply' = [reply EXCEPT ![c] = << >>])
    BY DEF Crash
<1>2. UpperPlaces'
  <2>1. client' \in [FifoClients -> ClientLines]
      BY <1>a, <1>1 DEF UpperPlaces, ClientLines
  <2>2. crashes' \in 0..MaxCrashes
      BY <1>a, <1>1 DEF UpperPlaces
  <2>3. reply[c] \in Seq(Nat) /\ << >> \in Seq(Nat) /\ reply \in [FifoClients -> Seq(Nat)]
      BY <1>a DEF UpperPlaces
  <2>4. reply' \in [FifoClients -> Seq(Nat)]
      BY <1>1, <2>3
  <2> QED BY <1>a, <1>1, <2>1, <2>2, <2>4 DEF UpperPlaces
<1>3. \A d \in FifoClients : reply'[d] = reply[d] \/ reply'[d] = << >>
    BY <1>a, <1>1 DEF UpperPlaces
<1>4. ~Undisturbed'
  <2>1. crashes \in Nat
      BY <1>a DEF UpperPlaces
  <2> QED BY <1>1, <2>1 DEF Undisturbed
<1> QED BY <1>a, <1>1, <1>2, <1>3, <1>4, AnswersDropped DEF FifoInv, InHand

\* steps of server.c that change only the line it is at
LEMMA ServerMoves ==
    ASSUME FifoInv, FindAnswer \/ OpenAnswer \/ CloseServerFifo \/ RemoveServerFifo
    PROVE  FifoInv'
<1>a. UpperPlaces /\ AnswersAscend /\ RequestsFollow
    BY DEF FifoInv
<1>1. /\ hand' = hand /\ sent' = sent /\ got' = got /\ reply' = reply /\ passed' = passed /\ crashes' = crashes
    BY DEF FindAnswer, OpenAnswer, CloseServerFifo, RemoveServerFifo
<1>2. CASE FindAnswer \/ RemoveServerFifo
  <2>1. /\ fifo' = fifo /\ client' = client
        /\ \/ upper = "answer" /\ upper' \in {"read", "opening"}
           \/ upper = "unlink" /\ upper' = "ended"
      BY <1>2 DEF FindAnswer, RemoveServerFifo
  <2>2. (InHand' => InHand) /\ upper' # "write" /\ upper' # "sigpipe"
      BY <2>1 DEF InHand
  <2>3. UpperPlaces'
      BY <1>a, <1>1, <2>1 DEF UpperPlaces
  <2>4. AnswersAscend' /\ RequestsFollow'
      BY <1>a, <1>1, <2>1, <2>2, StillFollows
  <2>5. Undisturbed' => OneUnderWay'
    <3>1. Undisturbed' => Undisturbed
        BY <1>1, <2>1 DEF Undisturbed
    <3> QED BY <1>1, <2>1, <2>2, <3>1 DEF FifoInv, OneUnderWay
  <2> QED BY <2>3, <2>4, <2>5 DEF FifoInv
<1>3. CASE OpenAnswer
  <2>1. /\ fifo' = fifo /\ client' = [client EXCEPT ![hand.from] = "read"]
        /\ upper = "opening" /\ upper' = "write" /\ client[hand.from] \in {"open", "read"}
      BY <1>3 DEF OpenAnswer
  <2>2. InHand' /\ InHand /\ hand.from \in FifoClients
      BY <1>a, <2>1 DEF InHand, UpperPlaces
  <2>3. UpperPlaces'
      BY <1>a, <1>1, <2>1 DEF UpperPlaces, ClientLines
  <2>4. AnswersAscend' /\ RequestsFollow'
      BY <1>a, <1>1, <2>1, <2>2, StillFollows
  <2>5. client'[hand.from] = "read" /\ \A d \in FifoClients : d # hand.from => client'[d] = client[d]
      BY <1>a, <2>1, <2>2 DEF UpperPlaces
  <2>6. Undisturbed' => OneUnderWay'
    <3>1. Undisturbed' => Undisturbed
        BY <1>1, <2>1 DEF Undisturbed
    <3> QED BY <1>1, <2>1, <2>2, <2>5, <3>1 DEF FifoInv, OneUnderWay
  <2> QED BY <2>3, <2>4, <2>6 DEF FifoInv
<1>4. CASE CloseServerFifo
  <2>1. fifo' = << >> /\ client' = client /\ upper' = "unlink"
      BY <1>4 DEF CloseServerFifo
  <2>2. ~InHand' /\ ~Undisturbed' /\ Len(fifo') = 0 /\ fifo' \in Seq(FifoRequests)
      BY <2>1 DEF InHand, Undisturbed
  <2>3. UpperPlaces'
      BY <1>a, <1>1, <2>1, <2>2 DEF UpperPlaces
  <2>4. AnswersAscend'
      BY <1>a, <1>1 DEF AnswersAscend
  <2>5. RequestsFollow'
      BY <2>2 DEF RequestsFollow
  <2> QED BY <2>2, <2>3, <2>4, <2>5 DEF FifoInv
<1> QED BY <1>2, <1>3, <1>4

LEMMA ServerReadsRequest == ASSUME FifoInv, ReadRequest PROVE FifoInv'
<1>a. UpperPlaces /\ AnswersAscend /\ RequestsFollow /\ TimesToSend \in Nat
    BY UpperAssumption DEF FifoInv, UpperAssumption
<1>1. /\ client' = client /\ sent' = sent /\ got' = got /\ reply' = reply /\ passed' = passed
      /\ crashes' = crashes /\ upper = "read"
    BY DEF ReadRequest
<1>2. CASE fifo = << >>
  <2>1. upper' = "shut" /\ hand' = hand /\ fifo' = fifo
      BY <1>2 DEF ReadRequest
  <2>2. ~InHand' /\ ~InHand
      BY <1>1, <2>1 DEF InHand
  <2>3. UpperPlaces'
      BY <1>a, <1>1, <2>1 DEF UpperPlaces
  <2>4. AnswersAscend' /\ RequestsFollow'
      BY <1>a, <1>1, <2>1, <2>2, StillFollows
  <2>5. Undisturbed' => OneUnderWay'
    <3>1. Undisturbed' => Undisturbed
        BY <1>1, <2>1 DEF Undisturbed
    <3> QED BY <1>1, <2>1, <2>2, <3>1 DEF FifoInv, OneUnderWay
  <2> QED BY <2>3, <2>4, <2>5 DEF FifoInv
<1>3. CASE fifo # << >>
  <2>0. fifo \in Seq(FifoRequests)
      BY <1>a DEF UpperPlaces
  <2>1. /\ 1 \in 1..Len(fifo) /\ hand' = fifo[1] /\ fifo' = Tail(fifo) /\ upper' = "answer"
      BY <1>3, <2>0 DEF ReadRequest
  <2>2. /\ fifo' \in Seq(FifoRequests) /\ Len(fifo') = Len(fifo) - 1
        /\ \A i \in 1..Len(fifo') : fifo'[i] = fifo[i + 1]
      BY <1>3, <2>0, <2>1, HeadTailProperties
  <2>3. \A i \in 1..Len(fifo') : i + 1 \in 1..Len(fifo) /\ 1 < i + 1
      BY <2>0, <2>2
  <2>4. hand'.from \in FifoClients /\ hand'.n \in 0..TimesToSend
      BY <1>a, <2>0, <2>1, RequestFields
  <2>5. UpperPlaces'
      BY <1>a, <1>1, <2>1, <2>2, <2>4 DEF UpperPlaces
  <2>6. AnswersAscend'
      BY <1>a, <1>1 DEF AnswersAscend
  <2>7. \A d, n : FollowsNext(d, n) <=> Follows(d, n)
      BY <1>1 DEF Follows, FollowsNext
  <2>8. RequestsFollow'
    <3>1. \A i \in 1..Len(fifo') : FollowsNext(fifo'[i].from, fifo'[i].n)
        BY <1>a, <2>2, <2>3, <2>7 DEF RequestsFollow
    <3>2. \A i, j \in 1..Len(fifo') : i < j /\ fifo'[i].from = fifo'[j].from => fifo'[i].n < fifo'[j].n
      <4> SUFFICES ASSUME NEW i \in 1..Len(fifo'), NEW j \in 1..Len(fifo'), i < j, fifo'[i].from = fifo'[j].from
                   PROVE  fifo'[i].n < fifo'[j].n
          OBVIOUS
      <4>1. i + 1 < j + 1 /\ i + 1 \in 1..Len(fifo) /\ j + 1 \in 1..Len(fifo)
          BY <2>3
      <4> QED BY <1>a, <2>2, <4>1 DEF RequestsFollow
    <3>3. FollowsNext(hand'.from, hand'.n)
        BY <1>a, <2>1, <2>7 DEF RequestsFollow
    <3>4. \A i \in 1..Len(fifo') : fifo'[i].from = hand'.from => hand'.n < fifo'[i].n
        BY <1>a, <2>1, <2>2, <2>3 DEF RequestsFollow
    <3> QED BY <3>1, <3>2, <3>3, <3>4 DEF RequestsFollow, Follows, FollowsNext
  <2>9. Undisturbed' => OneUnderWay'
    <3> SUFFICES ASSUME Undisturbed' PROVE OneUnderWay'
        OBVIOUS
    <3>1. OneUnderWay
        BY <1>1 DEF FifoInv, Undisturbed
    <3>2. client[fifo[1].from] \in {"open", "read"} /\ reply[fifo[1].from] = << >>
        BY <2>1, <2>4, <3>1 DEF OneUnderWay
    <3>3. \A i \in 1..Len(fifo') : fifo[i + 1].from # fifo[1].from
        BY <2>1, <2>3, <3>1 DEF OneUnderWay
    <3>4. \A i, j \in 1..Len(fifo') : fifo'[i].from = fifo'[j].from => i = j
      <4> SUFFICES ASSUME NEW i \in 1..Len(fifo'), NEW j \in 1..Len(fifo'), fifo'[i].from = fifo'[j].from
                   PROVE  i = j
          OBVIOUS
      <4>1. i + 1 = j + 1
          BY <2>2, <2>3, <3>1 DEF OneUnderWay
      <4> QED BY <4>1
    <3>5. \A i \in 1..Len(fifo') : reply[fifo'[i].from] = << >>
        BY <2>2, <2>3, <3>1 DEF OneUnderWay
    <3>6. \A d \in FifoClients : client[d] \notin {"open", "read"} =>
              reply[d] = << >> /\ \A i \in 1..Len(fifo') : fifo'[i].from # d
        BY <2>2, <2>3, <3>1 DEF OneUnderWay
    <3>7. \A i \in 1..Len(fifo') : fifo'[i].from # hand'.from
        BY <2>1, <2>2, <3>3
    <3>8. upper' # "sigpipe" /\ upper' # "write"
        BY <2>1
    <3>9. \A d \in FifoClients : Len(reply[d]) <= 1
        BY <3>1 DEF OneUnderWay
    <3> QED BY <1>1, <2>1, <3>2, <3>4, <3>5, <3>6, <3>7, <3>8, <3>9 DEF OneUnderWay
  <2> QED BY <2>5, <2>6, <2>8, <2>9 DEF FifoInv
<1> QED BY <1>2, <1>3

LEMMA ServerWrites == ASSUME FifoInv, WriteAnswer PROVE FifoInv'
<1>a. UpperPlaces /\ AnswersAscend /\ RequestsFollow
    BY DEF FifoInv
<1>1. /\ client' = client /\ sent' = sent /\ got' = got /\ fifo' = fifo /\ hand' = hand /\ passed' = passed
      /\ crashes' = crashes /\ upper = "write" /\ InHand
    BY DEF WriteAnswer, InHand
<1> DEFINE h == hand.from
<1>2. h \in FifoClients
    BY <1>a, <1>1 DEF UpperPlaces
<1>3. CASE client[h] # "read"
  <2>1. upper' = "sigpipe" /\ reply' = reply
      BY <1>3 DEF WriteAnswer
  <2>2. ~InHand'
      BY <2>1 DEF InHand
  <2>3. UpperPlaces'
      BY <1>a, <1>1, <2>1 DEF UpperPlaces
  <2>4. AnswersAscend' /\ RequestsFollow'
      BY <1>a, <1>1, <2>1, <2>2, StillFollows
  <2>5. ~Undisturbed'
    <3>1. Undisturbed' => Undisturbed
        BY <1>1 DEF Undisturbed
    <3> QED BY <1>1, <1>3, <3>1 DEF FifoInv, OneUnderWay
  <2> QED BY <2>3, <2>4, <2>5 DEF FifoInv
<1>4. CASE client[h] = "read"
  <2>1. upper' = "close" /\ reply' = [reply EXCEPT ![h] = Append(reply[h], hand.n)]
      BY <1>4 DEF WriteAnswer
  <2>2. reply[h] \in Seq(Nat) /\ hand.n \in Nat /\ Len(reply[h]) \in Nat /\ sent[h] \in Nat /\ got[h] \in Nat
      BY <1>a, <1>2 DEF UpperPlaces
  <2> DEFINE new == Append(reply[h], hand.n)
  <2>3. /\ new \in Seq(Nat) /\ Len(new) = Len(reply[h]) + 1 /\ new[Len(reply[h]) + 1] = hand.n
        /\ \A i \in 1..Len(reply[h]) : new[i] = reply[h][i]
      BY <2>2, AppendProperties
  <2> HIDE DEF new
  <2>4. \A i \in 1..Len(new) : i \in 1..Len(reply[h]) \/ (i = Len(reply[h]) + 1 /\ new[i] = hand.n)
      BY <2>2, <2>3
  <2>5. reply'[h] = new /\ \A d \in FifoClients : d # h => reply'[d] = reply[d]
      BY <1>a, <1>2, <2>1 DEF UpperPlaces, new
  <2>6. UpperPlaces'
    <3>1. reply' \in [FifoClients -> Seq(Nat)]
        BY <1>a, <2>1, <2>3 DEF UpperPlaces, new
    <3> QED BY <1>a, <1>1, <1>2, <2>1, <3>1 DEF UpperPlaces
  <2>7. /\ hand.n \in 1..sent[h] /\ hand.n > got[h] /\ (\A i \in 1..Len(reply[h]) : reply[h][i] < hand.n)
        /\ \A i \in 1..Len(fifo) : fifo[i].from = h => hand.n < fifo[i].n
      BY <1>a, <1>1 DEF RequestsFollow, Follows, Later
  <2>8. hand.n >= Len(reply[h]) + 1
    <3>1. CASE Len(reply[h]) = 0
        BY <2>7, <2>2, <3>1
    <3>2. CASE Len(reply[h]) # 0
      <4>1. Len(reply[h]) \in 1..Len(reply[h])
          BY <2>2, <3>2
      <4>2. reply[h][Len(reply[h])] \in Len(reply[h])..sent[h]
          BY <1>a, <1>2, <4>1 DEF AnswersAscend
      <4>3. reply[h][Len(reply[h])] < hand.n
          BY <2>7, <4>1
      <4> QED BY <2>2, <4>2, <4>3
    <3> QED BY <3>1, <3>2
  <2>9. AnswersAscend'
    <3>1. ASSUME NEW i \in 1..Len(new)
          PROVE  /\ new[i] \in i..sent[h] /\ new[i] > got[h]
                 /\ \A j \in 1..Len(new) : i < j => new[i] < new[j]
      <4>1. CASE i \in 1..Len(reply[h])
        <5>1. /\ reply[h][i] \in i..sent[h] /\ reply[h][i] > got[h] /\ reply[h][i] < hand.n
              /\ \A j \in 1..Len(reply[h]) : i < j => reply[h][i] < reply[h][j]
            BY <1>a, <1>2, <2>7, <4>1 DEF AnswersAscend
        <5> QED BY <2>3, <2>4, <4>1, <5>1
      <4>2. CASE i = Len(reply[h]) + 1
        <5>1. new[i] = hand.n
            BY <2>3, <4>2
        <5>2. ~\E j \in 1..Len(new) : i < j
            BY <2>2, <2>3, <4>2
        <5>3. hand.n \in i..sent[h]
            BY <2>2, <2>7, <2>8, <4>2
        <5> QED BY <2>7, <5>1, <5>2, <5>3
      <4> QED BY <2>4, <4>1, <4>2
    <3> SUFFICES ASSUME NEW d \in FifoClients
                 PROVE  /\ got[d] <= sent[d]
                        /\ \A i \in 1..Len(reply'[d]) :
                              /\ reply'[d][i] \in i..sent[d] /\ reply'[d][i] > got[d]
                              /\ \A j \in 1..Len(reply'[d]) : i < j => reply'[d][i] < reply'[d][j]
        BY <1>1 DEF AnswersAscend
    <3>2. CASE d # h
        BY <1>a, <2>5, <3>2 DEF AnswersAscend
    <3>3. CASE d = h
        BY <1>a, <1>2, <2>5, <3>1, <3>3 DEF AnswersAscend
    <3> QED BY <3>2, <3>3
  <2>10. RequestsFollow'
    <3>1. \A i \in 1..Len(fifo) : fifo[i].from \in FifoClients
        BY <1>a, RequestFields DEF UpperPlaces
    <3>2. \A i \in 1..Len(fifo) : FollowsNext(fifo'[i].from, fifo'[i].n)
      <4> SUFFICES ASSUME NEW i \in 1..Len(fifo) PROVE FollowsNext(fifo[i].from, fifo[i].n)
          BY <1>1
      <4>1. Follows(fifo[i].from, fifo[i].n)
          BY <1>a DEF RequestsFollow
      <4>2. CASE fifo[i].from # h
          BY <1>1, <2>5, <3>1, <4>1, <4>2 DEF Follows, FollowsNext
      <4>3. CASE fifo[i].from = h
        <5>1. \A j \in 1..Len(new) : new[j] < fifo[i].n
          <6>1. \A j \in 1..Len(reply[h]) : reply[h][j] < fifo[i].n
              BY <4>1, <4>3 DEF Follows, Later
          <6> QED BY <2>3, <2>4, <2>7, <4>3, <6>1
        <5> QED BY <1>1, <2>5, <4>1, <4>3, <5>1 DEF Follows, FollowsNext, Later
      <4> QED BY <4>2, <4>3
    <3>3. ~InHand'
        BY <2>1 DEF InHand
    <3> QED BY <1>a, <1>1, <3>2, <3>3 DEF RequestsFollow, Follows, FollowsNext
  <2>11. Undisturbed' => OneUnderWay'
    <3> SUFFICES ASSUME Undisturbed' PROVE OneUnderWay'
        OBVIOUS
    <3>1. OneUnderWay
        BY <1>1 DEF FifoInv, Undisturbed
    <3>2. reply[h] = << >> /\ \A i \in 1..Len(fifo) : fifo[i].from # h
        BY <1>1, <3>1 DEF OneUnderWay
    <3>3. Len(new) = 1
        BY <2>3, <3>2
    <3>4. ~InHand' /\ upper' # "sigpipe" /\ upper' # "write"
        BY <2>1 DEF InHand
    <3>5. \A d \in FifoClients : Len(reply'[d]) <= 1
      <4>1. \A d \in FifoClients : Len(reply[d]) <= 1
          BY <3>1 DEF OneUnderWay
      <4>2. Len(reply'[h]) <= 1
          BY <2>5, <3>3
      <4> QED BY <2>5, <4>1, <4>2
    <3>6. \A i \in 1..Len(fifo) : fifo[i].from \in FifoClients
        BY <1>a, RequestFields DEF UpperPlaces
    <3> QED BY <1>1, <1>4, <2>5, <3>1, <3>2, <3>4, <3>5, <3>6 DEF OneUnderWay
  <2> QED BY <2>6, <2>9, <2>10, <2>11 DEF FifoInv
<1> QED BY <1>3, <1>4

LEMMA ServerCloses == ASSUME FifoInv, CloseAnswer PROVE FifoInv'
<1>a. UpperPlaces /\ AnswersAscend /\ RequestsFollow
    BY DEF FifoInv
<1>1. /\ client' = client /\ sent' = sent /\ got' = got /\ fifo' = fifo /\ hand' = NoRequest /\ passed' = passed
      /\ crashes' = crashes /\ upper = "close" /\ upper' = "read"
      /\ (reply' = [reply EXCEPT ![hand.from] = reply[hand.from]] \/ reply' = [reply EXCEPT ![hand.from] = << >>])
    BY DEF CloseAnswer
<1>2. hand.from \in FifoClients
    BY <1>a, <1>1 DEF UpperPlaces
<1>3. \A d \in FifoClients : reply'[d] = reply[d] \/ reply'[d] = << >>
    BY <1>a, <1>1 DEF UpperPlaces
<1>4. UpperPlaces'
  <2>1. hand'.n = 0 /\ TimesToSend \in Nat
      BY <1>1, UpperAssumption DEF NoRequest, UpperAssumption
  <2>2. reply[hand.from] \in Seq(Nat) /\ << >> \in Seq(Nat) /\ reply \in [FifoClients -> Seq(Nat)]
      BY <1>a, <1>2 DEF UpperPlaces
  <2>3. reply' \in [FifoClients -> Seq(Nat)]
      BY <1>1, <2>2
  <2>4. hand'.n \in 0..TimesToSend
      BY <2>1
  <2> QED BY <1>a, <1>1, <2>3, <2>4 DEF UpperPlaces
<1>5. ~InHand'
    BY <1>1 DEF InHand
<1>6. AnswersAscend' /\ RequestsFollow'
    BY <1>a, <1>1, <1>3, <1>5, AnswersDropped
<1>7. Undisturbed' => OneUnderWay'
  <2> SUFFICES ASSUME Undisturbed' PROVE OneUnderWay'
      OBVIOUS
  <2>1. OneUnderWay
      BY <1>1 DEF FifoInv, Undisturbed
  <2>2. \A i \in 1..Len(fifo) : fifo[i].from \in FifoClients
      BY <1>a, RequestFields DEF UpperPlaces
  <2>3. \A d \in FifoClients : Len(reply'[d]) <= 1
      BY <1>3, <2>1 DEF OneUnderWay
  <2> QED BY <1>1, <1>3, <1>5, <2>1, <2>2, <2>3 DEF OneUnderWay
<1> QED BY <1>4, <1>6, <1>7 DEF FifoInv

LEMMA FifoStep == FifoInv /\ [FifoNext]_fifoVars => FifoInv'
<1> SUFFICES ASSUME FifoInv, [FifoNext]_fifoVars PROVE FifoInv'
    OBVIOUS
<1>1. CASE UNCHANGED fifoVars
  <2>1. /\ upper' = upper /\ hand' = hand /\ fifo' = fifo /\ client' = client /\ sent' = sent /\ got' = got
        /\ reply' = reply /\ passed' = passed /\ crashes' = crashes
      BY <1>1 DEF fifoVars
  <2>2. UpperPlaces' /\ AnswersAscend' /\ RequestsFollow'
      BY <2>1 DEF FifoInv, UpperPlaces, AnswersAscend, RequestsFollow, Follows, InHand
  <2>3. Undisturbed' => OneUnderWay'
      BY <2>1 DEF FifoInv, Undisturbed, OneUnderWay, InHand
  <2> QED BY <2>2, <2>3 DEF FifoInv
<1>2. ASSUME NEW c \in FifoClients, Connect(c) \/ NoServer(c) \/ FifoClientRuns(c) \/ Crash(c) PROVE FifoInv'
    BY <1>2, ClientMoves, ClientSends, ClientReads, ClientCrashes DEF FifoClientRuns
<1>3. CASE FifoServerRuns
    BY <1>3, ServerMoves, ServerReadsRequest, ServerWrites, ServerCloses DEF FifoServerRuns
<1> QED BY <1>1, <1>2, <1>3 DEF FifoNext

-----------------------------------------------------------------------------
(* thread5.c: the area holds the line main has read last until the thread   *)
(* has counted it, and main reads another only when it has                  *)

MutexPlaces ==
    /\ holder \in {"nobody", "main", "thread"}
    /\ work_area \in 0..LastLine /\ read \in 0..LastLine
    /\ mainLine \in {"lock", "read", "look", "taken", "join", "gone"}
    /\ threadLine \in {"lock", "test", "relock", "empty", "gone"}
    /\ counted \in Seq(0..LastLine)
    /\ holder = "main" <=> mainLine \in {"read", "taken"}
    /\ holder = "thread" <=> threadLine \in {"test", "empty"}

CountedInOrder == \A i \in 1..Len(counted) : counted[i] = i - Skipped

AreaAndCount ==
    /\ work_area # 0 => /\ work_area = read /\ ~time_to_exit /\ mainLine \in {"look", "taken"}
                        /\ Len(counted) - Skipped = read - 1
    /\ work_area = 0 /\ time_to_exit => read = LastLine /\ Len(counted) - Skipped = LastLine - 1
    /\ work_area = 0 /\ ~time_to_exit => read < LastLine /\ Len(counted) - Skipped = read
    /\ time_to_exit <=> threadLine = "gone"
    /\ mainLine \in {"join", "gone"} => time_to_exit
    /\ threadLine = "lock" => counted = << >>
    /\ threadLine = "test" => counted = << >> \/ work_area # 0

MutexInv == time_to_exit \in BOOLEAN /\ MutexPlaces /\ CountedInOrder /\ AreaAndCount

LEMMA MutexTyped == MutexInv => MutexTypes /\ LinesCounted
<1> SUFFICES ASSUME MutexInv PROVE MutexTypes /\ LinesCounted
    OBVIOUS
<1>1. MutexPlaces /\ CountedInOrder /\ AreaAndCount /\ LastLine \in Nat
    BY LineAssumption DEF MutexInv, LineAssumption
<1>2. {work_area, read} \subseteq 0..LastLine
    BY <1>1 DEF MutexPlaces
<1>3. MutexTypes
    BY <1>1, <1>2, Zenon DEF MutexInv, MutexPlaces, MutexTypes
<1>4. DOMAIN counted = 1..Len(counted)
    BY <1>1 DEF MutexPlaces
<1>5. mainLine \in {"read", "join", "gone"} =>
        Len(counted) - Skipped = IF read = LastLine THEN LastLine - 1 ELSE read
    BY <1>1 DEF AreaAndCount
<1> QED BY <1>1, <1>3, <1>4, <1>5 DEF LinesCounted, MutexPlaces, CountedInOrder

LEMMA MutexInitial == MutexInit => MutexInv
<1> SUFFICES ASSUME MutexInit PROVE MutexInv
    OBVIOUS
<1>1. LastLine \in Nat \ {0} /\ Len(<< >>) = 0 /\ << >> \in Seq(0..LastLine)
    BY LineAssumption DEF LineAssumption
<1>2. time_to_exit \in BOOLEAN
    BY Zenon DEF MutexInit
<1>3. MutexPlaces /\ CountedInOrder
    BY <1>1 DEF MutexInit, MutexPlaces, CountedInOrder
<1>4. AreaAndCount
    BY <1>1 DEF MutexInit, AreaAndCount, Skipped
<1> QED BY <1>2, <1>3, <1>4 DEF MutexInv

\* a step that counts nothing
LEMMA CountKept ==
    ASSUME counted' = counted, CountedInOrder
    PROVE  Skipped' = Skipped /\ CountedInOrder'
BY DEF Skipped, CountedInOrder

LEMMA MutexStep == MutexInv /\ [MutexNext]_mutexVars => MutexInv'
<1> SUFFICES ASSUME MutexInv, [MutexNext]_mutexVars PROVE MutexInv'
    OBVIOUS
<1>a. MutexPlaces /\ CountedInOrder /\ AreaAndCount /\ LastLine \in Nat /\ LastLine > 0
    BY LineAssumption DEF MutexInv, LineAssumption
<1>b. time_to_exit \in BOOLEAN
    BY Zenon DEF MutexInv
<1>c. time_to_exit' \in BOOLEAN
  <2>1. CASE ReadLine \/ MainRuns
      BY <2>1, <1>b, Zenon DEF MainRuns, MainLock, ReadLine, LeaveLoop, LookForTaken, LineTaken, Join
  <2>2. CASE ThreadRuns
      BY <2>2, <1>b, Zenon DEF ThreadRuns, ThreadLock, CountLine, ThreadRelock, LineThere
  <2>3. CASE UNCHANGED mutexVars
      BY <2>3, <1>b, Zenon DEF mutexVars
  <2> QED BY <2>1, <2>2, <2>3 DEF MutexNext
<1>d. Len(counted) \in Nat /\ Skipped \in {0, 1}
    BY <1>a DEF MutexPlaces, Skipped
<1>1. CASE CountLine
  <2>1. /\ threadLine = "test" /\ holder = "thread" /\ holder' = "nobody" /\ work_area' = 0
        /\ mainLine' = mainLine /\ read' = read
      BY <1>1 DEF CountLine, Unlock
  <2>2. CASE work_area = LastLine
    <3>1. time_to_exit' /\ threadLine' = "gone" /\ counted' = counted
        BY <1>1, <2>2 DEF CountLine
    <3>2. Skipped' = Skipped /\ CountedInOrder'
        BY <1>a, <3>1, CountKept
    <3>3. read = LastLine /\ Len(counted) - Skipped = LastLine - 1
        BY <1>a, <2>2 DEF AreaAndCount
    <3>4. MutexPlaces'
        BY <1>a, <2>1, <3>1 DEF MutexPlaces
    <3>5. AreaAndCount'
        BY <2>1, <3>1, <3>2, <3>3 DEF AreaAndCount
    <3> QED BY <1>c, <3>2, <3>4, <3>5 DEF MutexInv
  <2>3. CASE work_area # LastLine
    <3>1. (time_to_exit' <=> time_to_exit) /\ threadLine' = "relock" /\ counted' = Append(counted, work_area)
        BY <1>1, <2>3 DEF CountLine
    <3>2. counted \in Seq(0..LastLine) /\ work_area \in 0..LastLine /\ read \in 0..LastLine
        BY <1>a DEF MutexPlaces
    <3>n. LastLine \in Nat /\ read \in Nat /\ work_area \in Nat /\ read <= LastLine
        BY <1>a, <3>2
    <3>3. /\ counted' \in Seq(0..LastLine) /\ Len(counted') = Len(counted) + 1
          /\ counted'[Len(counted) + 1] = work_area /\ \A i \in 1..Len(counted) : counted'[i] = counted[i]
        BY <3>1, <3>2, AppendProperties
    <3>4. ~time_to_exit
        BY <1>a, <2>1 DEF AreaAndCount
    <3>5. MutexPlaces'
        BY <1>a, <2>1, <3>1, <3>3 DEF MutexPlaces
    <3>6. CASE counted = << >>
      <4>1. Len(counted) = 0 /\ Skipped = 0 /\ counted' # << >> /\ counted'[1] = work_area
          BY <3>3, <3>6 DEF Skipped
      <4>2. Skipped' = IF work_area = 0 THEN 1 ELSE 0
          BY <4>1 DEF Skipped
      <4>3. /\ work_area = 0 => read = 0 /\ read < LastLine
            /\ work_area # 0 => work_area = read /\ read = 1 /\ mainLine \in {"look", "taken"}
          BY <1>a, <3>2, <3>4, <4>1 DEF AreaAndCount
      <4>4. \A i \in 1..Len(counted') : i = 1
          BY <3>3, <4>1
      <4>5. CountedInOrder'
          BY <4>1, <4>2, <4>3, <4>4 DEF CountedInOrder
      <4>6. Len(counted') - Skipped' = read /\ read < LastLine
        <5>1. Len(counted') = 1
            BY <3>3, <4>1
        <5> QED BY <1>a, <2>3, <3>n, <4>2, <4>3, <5>1
      <4>7. AreaAndCount'
          BY <1>a, <2>1, <3>1, <3>4, <4>6 DEF AreaAndCount
      <4> QED BY <1>c, <3>5, <4>5, <4>7 DEF MutexInv
    <3>7. CASE counted # << >>
      <4>1. 1 \in 1..Len(counted) /\ counted' # << >> /\ counted'[1] = counted[1]
          BY <3>2, <3>3, <3>7
      <4>2. Skipped' = Skipped
          BY <3>7, <4>1 DEF Skipped
      <4>3. work_area = read /\ Len(counted) - Skipped = read - 1 /\ mainLine \in {"look", "taken"}
          BY <1>a, <2>1, <3>7 DEF AreaAndCount
      <4>4. \A i \in 1..Len(counted') : i \in 1..Len(counted) \/ (i = Len(counted) + 1 /\ counted'[i] = work_area)
          BY <1>d, <3>3
      <4>5. work_area = (Len(counted) + 1) - Skipped
          BY <1>d, <3>n, <4>3
      <4>6. CountedInOrder'
        <5> SUFFICES ASSUME NEW i \in 1..Len(counted') PROVE counted'[i] = i - Skipped
            BY <4>2 DEF CountedInOrder
        <5>1. CASE i \in 1..Len(counted)
            BY <1>a, <3>3, <5>1 DEF CountedInOrder
        <5>2. CASE i = Len(counted) + 1
          <6>1. counted'[i] = work_area /\ work_area = i - Skipped
              BY <3>3, <4>5, <5>2, Zenon
          <6> QED BY <6>1
        <5> QED BY <4>4, <5>1, <5>2
      <4>7. Len(counted') - Skipped' = read /\ read < LastLine
          BY <1>d, <2>3, <3>n, <3>3, <4>2, <4>3
      <4>8. AreaAndCount'
          BY <1>a, <2>1, <3>1, <3>4, <4>7 DEF AreaAndCount
      <4> QED BY <1>c, <3>5, <4>6, <4>8 DEF MutexInv
    <3> QED BY <3>6, <3>7
  <2> QED BY <2>2, <2>3
<1>2. CASE ReadLine \/ LeaveLoop
  <2>1. /\ mainLine = "read" /\ holder = "main" /\ holder' = "nobody"
        /\ threadLine' = threadLine /\ counted' = counted
        /\ \/ mainLine' = "join" /\ work_area' = work_area /\ read' = read
           \/ mainLine' = "look" /\ work_area' = read + 1 /\ read' = read + 1
      BY <1>2 DEF ReadLine, LeaveLoop, Unlock
  <2>2. (time_to_exit' <=> time_to_exit) /\ (time_to_exit <=> mainLine' = "join")
      BY <1>2 DEF ReadLine, LeaveLoop
  <2>3. Skipped' = Skipped /\ CountedInOrder'
      BY <1>a, <2>1, CountKept
  <2>4. work_area = 0
      BY <1>a, <2>1 DEF AreaAndCount
  <2>5. ~time_to_exit => read < LastLine
      BY <1>a, <2>4 DEF AreaAndCount
  <2>6. MutexPlaces'
      BY <1>a, <2>1, <2>2, <2>5 DEF MutexPlaces
  <2>7. AreaAndCount'
    <3>1. read \in Nat
        BY <1>a DEF MutexPlaces
    <3> QED BY <1>a, <1>d, <2>1, <2>2, <2>3, <2>4, <3>1 DEF AreaAndCount
  <2> QED BY <1>c, <2>3, <2>6, <2>7 DEF MutexInv
<1>3. CASE MainLock \/ LookForTaken \/ LineTaken \/ Join
  <2>1. /\ work_area' = work_area /\ read' = read /\ threadLine' = threadLine /\ counted' = counted
        /\ \/ mainLine = "lock" /\ mainLine' = "read" /\ holder = "nobody" /\ holder' = "main"
           \/ mainLine = "look" /\ mainLine' = "taken" /\ holder = "nobody" /\ holder' = "main"
           \/ mainLine = "taken" /\ work_area # 0 /\ mainLine' = "look" /\ holder = "main" /\ holder' = "nobody"
           \/ mainLine = "taken" /\ work_area = 0 /\ mainLine' = "read" /\ holder' = holder
           \/ mainLine = "join" /\ mainLine' = "gone" /\ holder' = holder
      BY <1>3 DEF MainLock, LookForTaken, LineTaken, Join, Lock, Unlock
  <2>2. time_to_exit' <=> time_to_exit
      BY <1>3 DEF MainLock, LookForTaken, LineTaken, Join
  <2>3. Skipped' = Skipped /\ CountedInOrder'
      BY <1>a, <2>1, CountKept
  <2>4. MutexPlaces'
      BY <1>a, <2>1 DEF MutexPlaces
  <2>5. AreaAndCount'
      BY <1>a, <2>1, <2>2, <2>3 DEF AreaAndCount
  <2> QED BY <1>c, <2>3, <2>4, <2>5 DEF MutexInv
<1>4. CASE ThreadLock \/ ThreadRelock \/ LineThere
  <2>1. /\ work_area' = work_area /\ read' = read /\ mainLine' = mainLine /\ counted' = counted
        /\ \/ threadLine = "lock" /\ threadLine' = "test" /\ holder = "nobody" /\ holder' = "thread"
           \/ threadLine = "relock" /\ threadLine' = "empty" /\ holder = "nobody" /\ holder' = "thread"
           \/ threadLine = "empty" /\ work_area = 0 /\ threadLine' = "relock" /\ holder = "thread" /\ holder' = "nobody"
           \/ threadLine = "empty" /\ work_area # 0 /\ threadLine' = "test" /\ holder' = holder
      BY <1>4 DEF ThreadLock, ThreadRelock, LineThere, Lock, Unlock
  <2>2. time_to_exit' <=> time_to_exit
      BY <1>4 DEF ThreadLock, ThreadRelock, LineThere
  <2>3. Skipped' = Skipped /\ CountedInOrder'
      BY <1>a, <2>1, CountKept
  <2>4. MutexPlaces'
      BY <1>a, <2>1 DEF MutexPlaces
  <2>5. AreaAndCount'
      BY <1>a, <2>1, <2>2, <2>3 DEF AreaAndCount
  <2> QED BY <1>c, <2>3, <2>4, <2>5 DEF MutexInv
<1>5. CASE UNCHANGED mutexVars
  <2>1. /\ holder' = holder /\ work_area' = work_area /\ read' = read /\ mainLine' = mainLine
        /\ threadLine' = threadLine /\ counted' = counted
      BY <1>5 DEF mutexVars
  <2>2. time_to_exit' <=> time_to_exit
      BY <1>5 DEF mutexVars
  <2>3. Skipped' = Skipped /\ CountedInOrder'
      BY <1>a, <2>1, CountKept
  <2>4. MutexPlaces'
      BY <1>a, <2>1 DEF MutexPlaces
  <2>5. AreaAndCount'
      BY <1>a, <2>1, <2>2, <2>3 DEF AreaAndCount
  <2> QED BY <1>c, <2>3, <2>4, <2>5 DEF MutexInv
<1> QED BY <1>1, <1>2, <1>3, <1>4, <1>5 DEF MutexNext, MainRuns, ThreadRuns

-----------------------------------------------------------------------------
(* server5.c, client3.c: every connection that is open or waits to be       *)
(* accepted is of another client, so there is a free descriptor for it, and *)
(* what happens to one descriptor leaves the others as ready as they were   *)

LEMMA LeastOf ==
    ASSUME NEW S \in SUBSET Nat, S # {}
    PROVE  Min(S) \in S /\ \A y \in S : Min(S) <= y
<1> DEFINE Below == {0..n : n \in S}
<1>1. Below \subseteq FiniteSubsetsOf(Nat) /\ Below # {}
  <2>1. ASSUME NEW n \in S PROVE IsFiniteSet(0..n) /\ 0..n \subseteq Nat
      BY FS_Interval
  <2> QED BY <2>1 DEF FiniteSubsetsOf
<1>2. IsWellFoundedOn(StrictSubsetOrdering(Nat), FiniteSubsetsOf(Nat))
    BY FS_StrictSubsetOrderingWellFounded
<1>3. PICK b \in Below : \A a \in Below : ~(<<a, b>> \in StrictSubsetOrdering(Nat))
    BY <1>1, <1>2, WFMin
<1>4. PICK x \in S : b = 0..x
    OBVIOUS
<1>5. ASSUME NEW y \in S PROVE x <= y
  <2>1. <<0..y, 0..x>> \notin StrictSubsetOrdering(Nat)
      BY <1>3, <1>4
  <2>2. ~(0..y \subseteq 0..x /\ 0..y # 0..x)
      BY <2>1 DEF StrictSubsetOrdering
  <2>3. ASSUME y < x PROVE FALSE
    <3>1. x \in Nat /\ y \in Nat
        OBVIOUS
    <3>2. 0..y \subseteq 0..x
        BY <2>3, <3>1
    <3>3. x \in 0..x /\ x \notin 0..y
        BY <2>3, <3>1
    <3> QED BY <2>2, <3>2, <3>3
  <2> QED BY <2>3
<1>6. \E m \in S : \A y \in S : m <= y
    BY <1>5
<1> QED BY <1>6 DEF Min

SelectPlaces ==
    /\ scan \in {"select", "look", "write"}
    /\ readfds = {Listener} \cup {f \in Fds : conn[f] # NoOne} /\ testfds \subseteq readfds
    /\ ch \in Visitors \cup {NoOne} /\ backlog \in Seq(Visitors)
    /\ conn \in [Fds -> Visitors \cup {NoOne}]
    /\ visitor \in [Visitors -> {"out", "write", "read", "closed"}]
    /\ up \in [Visitors -> Seq(Visitors)] /\ down \in [Visitors -> Seq(Visitors)]
    /\ visits \in 0..MaxVisits

\* one connection of each client
OneConnection ==
    /\ \A f, g \in Fds : conn[f] = conn[g] /\ conn[f] # NoOne => f = g
    /\ \A i, j \in 1..Len(backlog) : backlog[i] = backlog[j] => i = j
    /\ \A i \in 1..Len(backlog) : visitor[backlog[i]] # "out" /\ \A f \in Fds : conn[f] # backlog[i]
    /\ \A f \in Fds : conn[f] # NoOne => visitor[conn[f]] # "out"

OwnBytes ==
    \A v \in Visitors : /\ \A i \in 1..Len(up[v]) : up[v][i] = v
                        /\ \A i \in 1..Len(down[v]) : down[v][i] = v

\* how far the loop over the descriptors is
LoopOver ==
    /\ scan = "select" <=> testfds = {}
    /\ scan = "write" => Fd # Listener /\ ch = conn[Fd] /\ ch # NoOne
    /\ \A f \in testfds : ReadyFd(f) \/ (scan = "write" /\ f = Fd)

SelectInv == SelectPlaces /\ OneConnection /\ OwnBytes /\ LoopOver

LEMMA DescriptorIsFree ==
    ASSUME SelectPlaces, OneConnection, backlog # << >>
    PROVE  \E g \in Fds : conn[g] = NoOne
<1> SUFFICES ASSUME \A g \in Fds : conn[g] # NoOne PROVE FALSE
    OBVIOUS
<1> DEFINE first == backlog[1]
           Others == Visitors \ {first}
<1>a. 1 \in 1..Len(backlog) /\ first \in Visitors
    BY DEF SelectPlaces
<1>1. first \in Visitors /\ \A f \in Fds : conn[f] # first
    BY <1>a DEF OneConnection
<1>2. IsFiniteSet(Visitors) /\ Cardinality(Visitors) \in Nat
    BY SelectAssumption, FS_CardinalityType DEF SelectAssumption
<1>3. IsFiniteSet(Others) /\ Cardinality(Others) = Cardinality(Visitors) - 1
    BY <1>1, <1>2, FS_RemoveElement
<1>4. IsFiniteSet(Fds) /\ Cardinality(Fds) = Cardinality(Visitors)
    BY <1>2, FS_Interval DEF Fds
<1>5. conn \in [Fds -> Others]
    BY <1>1 DEF SelectPlaces
<1>6. Cardinality(Others) < Cardinality(Fds)
    BY <1>2, <1>3, <1>4
<1> HIDE DEF Others
<1>7. \E f, g \in Fds : f # g /\ conn[f] = conn[g]
    BY <1>3, <1>4, <1>5, <1>6, FS_PigeonHole
<1> QED BY <1>7 DEF OneConnection

\* the descriptor the loop is at is one of those it goes over, and ready unless its byte has been read
LEMMA AtDescriptor ==
    ASSUME SelectPlaces, LoopOver, scan # "select"
    PROVE  /\ Fd \in testfds /\ Fd \in readfds /\ (Fd # Listener => Fd \in Fds /\ conn[Fd] \in Visitors)
           /\ scan = "look" => ReadyFd(Fd)
<1>1. testfds # {} /\ testfds \subseteq Nat
    BY DEF SelectPlaces, LoopOver, Fds, Listener
<1>2. Fd \in testfds
    BY <1>1, LeastOf DEF Fd
<1> QED BY <1>2 DEF SelectPlaces, LoopOver

LEMMA SelectTyped == SelectInv => SelectTypes /\ ReadyStaysReady
<1> SUFFICES ASSUME SelectInv PROVE SelectTypes /\ ReadyStaysReady
    OBVIOUS
<1>1. SelectTypes
    BY DEF SelectInv, SelectPlaces, SelectTypes
<1>2. \A v \in Visitors : \A i \in DOMAIN down[v] : down[v][i] = v
    BY DEF SelectInv, SelectPlaces, OwnBytes
<1> QED BY <1>1, <1>2 DEF SelectInv, SelectPlaces, OneConnection, LoopOver, ReadyStaysReady

LEMMA SelectInitial == SelectInit => SelectInv
<1> SUFFICES ASSUME SelectInit PROVE SelectInv
    OBVIOUS
<1>1. SelectPlaces
    BY SelectAssumption DEF SelectAssumption, SelectInit, SelectPlaces
<1>2. OneConnection /\ OwnBytes /\ LoopOver
    BY DEF SelectInit, OneConnection, OwnBytes, LoopOver
<1> QED BY <1>1, <1>2 DEF SelectInv

\* the loop goes on to a descriptor that is ready, or back to select
LEMMA NextDescriptor ==
    ASSUME scan' = Again(testfds'), \A g \in testfds' : ReadyFd(g)'
    PROVE  LoopOver' /\ scan' \in {"select", "look"}
<1>1. scan' = "select" \/ scan' = "look"
    BY DEF Again
<1>2. scan' = "select" <=> testfds' = {}
    BY DEF Again
<1> QED BY <1>1, <1>2 DEF LoopOver

LEMMA SelectAccept == SelectInv /\ Accept => SelectInv'
<1> SUFFICES ASSUME SelectInv, Accept PROVE SelectInv'
    OBVIOUS
<1>a. SelectPlaces /\ OneConnection /\ OwnBytes /\ LoopOver /\ "noOne" \notin Visitors /\ Listener \notin Fds
    BY SelectAssumption DEF SelectInv, SelectAssumption, Listener, Fds
<1> DEFINE f == Min({g \in Fds : conn[g] = NoOne})
<1>1. Fd \in testfds /\ Fd = Listener /\ ReadyFd(Listener)
    BY <1>a, AtDescriptor DEF Accept
<1>2. backlog # << >>
    BY <1>1 DEF ReadyFd
<1>3. f \in Fds /\ conn[f] = NoOne
  <2> DEFINE free == {g \in Fds : conn[g] = NoOne}
  <2>1. free # {} /\ free \subseteq Nat
      BY <1>a, <1>2, DescriptorIsFree DEF Fds
  <2> HIDE DEF free
  <2>2. Min(free) \in free
      BY <2>1, LeastOf
  <2> QED BY <2>2 DEF free
<1>4. /\ conn' = [conn EXCEPT ![f] = Head(backlog)] /\ readfds' = readfds \cup {f}
      /\ backlog' = Tail(backlog) /\ testfds' = testfds \ {Listener} /\ scan' = Again(testfds')
      /\ ch' = ch /\ visitor' = visitor /\ up' = up /\ down' = down /\ visits' = visits
    BY <1>1 DEF Accept
<1> HIDE DEF f
<1>5. /\ 1 \in 1..Len(backlog) /\ Head(backlog) = backlog[1] /\ backlog[1] \in Visitors
      /\ backlog' \in Seq(Visitors) /\ Len(backlog') = Len(backlog) - 1 /\ Len(backlog) \in Nat
    BY <1>a, <1>2, <1>4, HeadTailProperties DEF SelectPlaces
<1>6. \A i \in 1..Len(backlog') : i + 1 \in 1..Len(backlog) /\ i + 1 # 1 /\ backlog'[i] = backlog[i + 1]
  <2>1. \A i \in 1..Len(backlog') : backlog'[i] = backlog[i + 1]
      BY <1>a, <1>2, <1>4, HeadTailProperties DEF SelectPlaces
  <2> QED BY <1>5, <2>1
<1>7. conn'[f] = backlog[1] /\ \A g \in Fds : g # f => conn'[g] = conn[g]
    BY <1>a, <1>3, <1>4, <1>5 DEF SelectPlaces
<1>8. readfds' = {Listener} \cup {g \in Fds : conn'[g] # NoOne}
    BY <1>a, <1>3, <1>4, <1>5, <1>7 DEF SelectPlaces, NoOne
<1>9. \A g \in testfds' : ReadyFd(g)'
  <2> SUFFICES ASSUME NEW g \in testfds' PROVE ReadyFd(g)'
      OBVIOUS
  <2>1. g \in testfds /\ g # Listener /\ g \in Fds /\ ReadyFd(g)
      BY <1>1, <1>4, <1>a DEF SelectPlaces, LoopOver, Accept
  <2>2. conn'[g] = conn[g]
      BY <1>3, <1>7, <2>1 DEF ReadyFd
  <2> QED BY <1>4, <2>1, <2>2 DEF ReadyFd, Hung
<1>10. LoopOver' /\ scan' \in {"select", "look"}
    BY <1>4, <1>9, NextDescriptor
<1>11. conn' \in [Fds -> Visitors \cup {NoOne}]
    BY <1>a, <1>4, <1>5 DEF SelectPlaces
<1>12. SelectPlaces'
    BY <1>a, <1>4, <1>5, <1>8, <1>10, <1>11 DEF SelectPlaces
<1>13. OneConnection'
  <2>1. \A g, h \in Fds : conn'[g] = conn'[h] /\ conn'[g] # NoOne => g = h
      BY <1>a, <1>5, <1>7 DEF OneConnection
  <2>2. \A i, j \in 1..Len(backlog') : backlog'[i] = backlog'[j] => i = j
      BY <1>a, <1>5, <1>6 DEF OneConnection
  <2>3. \A i \in 1..Len(backlog') : visitor'[backlog'[i]] # "out" /\ \A g \in Fds : conn'[g] # backlog'[i]
      BY <1>a, <1>4, <1>5, <1>6, <1>7 DEF OneConnection
  <2>4. \A g \in Fds : conn'[g] # NoOne => visitor'[conn'[g]] # "out"
      BY <1>a, <1>4, <1>5, <1>7 DEF OneConnection
  <2> QED BY <2>1, <2>2, <2>3, <2>4 DEF OneConnection
<1>14. OwnBytes'
    BY <1>a, <1>4 DEF OwnBytes
<1> QED BY <1>10, <1>12, <1>13, <1>14 DEF SelectInv

LEMMA SelectHangUp == SelectInv /\ HangUp => SelectInv'
<1> SUFFICES ASSUME SelectInv, HangUp PROVE SelectInv'
    OBVIOUS
<1>a. SelectPlaces /\ OneConnection /\ OwnBytes /\ LoopOver /\ "noOne" \notin Visitors /\ Listener \notin Fds
    BY SelectAssumption DEF SelectInv, SelectAssumption, Listener, Fds
<1>1. Fd \in testfds /\ Fd \in Fds /\ Fd # Listener /\ ReadyFd(Fd)
    BY <1>a, AtDescriptor DEF HangUp
<1> DEFINE f == Fd
           w == conn[f]
<1>2. f \in Fds /\ f # Listener /\ w \in Visitors /\ up[w] = << >>
    BY <1>a, <1>1, AtDescriptor DEF HangUp
<1>4. /\ visitor' = [visitor EXCEPT ![w] = "out"] /\ down' = [down EXCEPT ![w] = << >>]
      /\ conn' = [conn EXCEPT ![f] = NoOne] /\ readfds' = readfds \ {f}
      /\ backlog' = backlog /\ testfds' = testfds \ {f} /\ scan' = Again(testfds')
      /\ ch' = ch /\ up' = up /\ visits' = visits /\ scan = "look"
    BY DEF HangUp
<1> HIDE DEF f
<1>5. conn'[f] = NoOne /\ \A g \in Fds : g # f => conn'[g] = conn[g] /\ conn[g] # w
    BY <1>a, <1>2, <1>4 DEF SelectPlaces, OneConnection, NoOne
<1> DEFINE ww == w
<1>b. ww \in Visitors /\ ww = conn[f]
    BY <1>2
<1>6. \A v \in Visitors : v # ww => visitor'[v] = visitor[v] /\ down'[v] = down[v]
    BY <1>a, <1>4 DEF SelectPlaces
<1>7. down'[ww] = << >> /\ down' \in [Visitors -> Seq(Visitors)]
    BY <1>a, <1>2, <1>4 DEF SelectPlaces
<1>8. \A i \in 1..Len(backlog) : backlog[i] \in Visitors /\ backlog[i] # ww
  <2>1. \A i \in 1..Len(backlog) : backlog[i] # conn[f]
      BY <1>a, <1>2 DEF OneConnection
  <2>2. \A i \in 1..Len(backlog) : backlog[i] \in Visitors
      BY <1>a DEF SelectPlaces
  <2> QED BY <2>1, <2>2
<1>d. \A g \in Fds : g # f => conn'[g] = conn[g] /\ conn[g] # ww
    BY <1>5
<1>c. visitor' \in [Visitors -> {"out", "write", "read", "closed"}]
    BY <1>a, <1>4 DEF SelectPlaces
<1> HIDE DEF ww, w
<1>9. \A g \in testfds' : ReadyFd(g)'
  <2> SUFFICES ASSUME NEW g \in testfds' PROVE ReadyFd(g)'
      OBVIOUS
  <2>1. g \in testfds /\ g # f /\ ReadyFd(g) /\ (g # Listener => g \in Fds)
      BY <1>4, <1>a DEF SelectPlaces, LoopOver
  <2>2. g # Listener => conn'[g] = conn[g] /\ conn[g] \in Visitors /\ visitor'[conn[g]] = visitor[conn[g]]
      BY <1>a, <1>d, <1>6, <2>1 DEF SelectPlaces, ReadyFd
  <2> QED BY <1>4, <2>1, <2>2 DEF ReadyFd, Hung
<1>10. LoopOver' /\ scan' \in {"select", "look"}
    BY <1>4, <1>9, NextDescriptor
<1>11. conn' \in [Fds -> Visitors \cup {NoOne}]
    BY <1>a, <1>4 DEF SelectPlaces
<1>12. readfds' = {Listener} \cup {g \in Fds : conn'[g] # NoOne}
    BY <1>a, <1>2, <1>4, <1>5 DEF SelectPlaces
<1>13. SelectPlaces'
    BY <1>a, <1>4, <1>7, <1>10, <1>11, <1>12, <1>c DEF SelectPlaces
<1>14. OneConnection'
  <2>1. \A g, h \in Fds : conn'[g] = conn'[h] /\ conn'[g] # NoOne => g = h
      BY <1>a, <1>5 DEF OneConnection
  <2>2. \A i \in 1..Len(backlog') : visitor'[backlog'[i]] # "out" /\ \A g \in Fds : conn'[g] # backlog'[i]
      BY <1>a, <1>4, <1>5, <1>6, <1>8 DEF OneConnection, NoOne
  <2>3. \A g \in Fds : conn'[g] # NoOne => visitor'[conn'[g]] # "out"
    <3> SUFFICES ASSUME NEW g \in Fds, conn'[g] # NoOne PROVE visitor'[conn'[g]] # "out"
        OBVIOUS
    <3>1. g # f /\ conn'[g] = conn[g] /\ conn[g] # NoOne /\ conn[g] \in Visitors /\ conn[g] # ww
        BY <1>a, <1>5, <1>d DEF SelectPlaces
    <3> QED BY <1>a, <1>6, <3>1 DEF OneConnection
  <2> QED BY <1>a, <1>4, <2>1, <2>2, <2>3 DEF OneConnection
<1>15. OwnBytes'
    BY <1>a, <1>4, <1>6, <1>7 DEF OwnBytes
<1> QED BY <1>10, <1>13, <1>14, <1>15 DEF SelectInv

LEMMA SelectReadByte == SelectInv /\ ReadByte => SelectInv'
<1> SUFFICES ASSUME SelectInv, ReadByte PROVE SelectInv'
    OBVIOUS
<1>a. SelectPlaces /\ OneConnection /\ OwnBytes /\ LoopOver /\ "noOne" \notin Visitors /\ Listener \notin Fds
    BY SelectAssumption DEF SelectInv, SelectAssumption, Listener, Fds
<1> DEFINE f == Fd
           w == conn[f]
<1>1. f \in testfds /\ f \in Fds /\ f # Listener /\ w \in Visitors /\ up[w] # << >>
    BY <1>a, AtDescriptor DEF ReadByte
<1>2. /\ ch' = Head(up[w]) /\ up' = [up EXCEPT ![w] = Tail(up[w])] /\ scan = "look" /\ scan' = "write"
      /\ readfds' = readfds /\ testfds' = testfds /\ backlog' = backlog /\ conn' = conn
      /\ visitor' = visitor /\ down' = down /\ visits' = visits /\ Fd' = f
    BY DEF ReadByte, Fd
<1>3. up[w] \in Seq(Visitors) /\ 1 \in 1..Len(up[w]) /\ Head(up[w]) = up[w][1]
    BY <1>a, <1>1 DEF SelectPlaces
<1>4. ch' = w
    BY <1>a, <1>1, <1>2, <1>3 DEF OwnBytes
<1>5. /\ Tail(up[w]) \in Seq(Visitors) /\ Len(Tail(up[w])) = Len(up[w]) - 1
      /\ \A i \in 1..Len(Tail(up[w])) : Tail(up[w])[i] = up[w][i + 1]
    BY <1>1, <1>3, HeadTailProperties
<1>6. \A i \in 1..Len(Tail(up[w])) : Tail(up[w])[i] = w
  <2>1. \A i \in 1..Len(Tail(up[w])) : i + 1 \in 1..Len(up[w])
      BY <1>3, <1>5
  <2> QED BY <1>a, <1>1, <1>5, <2>1 DEF OwnBytes
<1> HIDE DEF f
<1>7. up' \in [Visitors -> Seq(Visitors)] /\ up'[w] = Tail(up[w]) /\ \A v \in Visitors : v # w => up'[v] = up[v]
    BY <1>a, <1>1, <1>2, <1>5 DEF SelectPlaces
<1>8. SelectPlaces'
    BY <1>a, <1>1, <1>2, <1>4, <1>7 DEF SelectPlaces
<1>9. OneConnection'
    BY <1>a, <1>2 DEF OneConnection
<1>10. OwnBytes'
    BY <1>a, <1>2, <1>6, <1>7 DEF OwnBytes
<1>11. \A g \in testfds' : g # f => ReadyFd(g)'
  <2> SUFFICES ASSUME NEW g \in testfds, g # f PROVE ReadyFd(g)'
      BY <1>2
  <2>1. ReadyFd(g) /\ (g # Listener => g \in Fds)
      BY <1>2, <1>a DEF SelectPlaces, LoopOver
  <2>2. g # Listener => conn[g] \in Visitors /\ conn[g] # w
      BY <1>1, <1>a, <2>1 DEF SelectPlaces, OneConnection, ReadyFd
  <2> QED BY <1>2, <1>7, <2>1, <2>2 DEF ReadyFd, Hung
<1>12. LoopOver'
    BY <1>a, <1>1, <1>2, <1>4, <1>11 DEF LoopOver, NoOne
<1> QED BY <1>8, <1>9, <1>10, <1>12 DEF SelectInv

LEMMA SelectWriteByte == SelectInv /\ WriteByte => SelectInv'
<1> SUFFICES ASSUME SelectInv, WriteByte PROVE SelectInv'
    OBVIOUS
<1>a. SelectPlaces /\ OneConnection /\ OwnBytes /\ LoopOver /\ "noOne" \notin Visitors /\ Listener \notin Fds
    BY SelectAssumption DEF SelectInv, SelectAssumption, Listener, Fds
<1>b. scan = "write"
    BY DEF WriteByte
<1> DEFINE f == Fd
           w == conn[f]
<1>1. f \in testfds /\ f \in Fds /\ f # Listener /\ w \in Visitors /\ ch = w
    BY <1>a, <1>b, AtDescriptor DEF LoopOver
<1>2. /\ down' = [down EXCEPT ![w] = Append(down[w], ch)] /\ ch' = NoOne
      /\ readfds' = readfds /\ testfds' = testfds \ {f} /\ backlog' = backlog /\ conn' = conn
      /\ visitor' = visitor /\ up' = up /\ visits' = visits /\ scan' = Again(testfds')
    BY DEF WriteByte
<1>3. down[w] \in Seq(Visitors)
    BY <1>a, <1>1 DEF SelectPlaces
<1>4. /\ Append(down[w], w) \in Seq(Visitors) /\ Len(Append(down[w], w)) = Len(down[w]) + 1
      /\ \A i \in 1..Len(down[w]) : Append(down[w], w)[i] = down[w][i]
      /\ Append(down[w], w)[Len(down[w]) + 1] = w
    BY <1>1, <1>3, AppendProperties
<1>5. \A i \in 1..Len(Append(down[w], w)) : Append(down[w], w)[i] = w
  <2>1. \A i \in 1..Len(Append(down[w], w)) : i \in 1..Len(down[w]) \/ i = Len(down[w]) + 1
      BY <1>3, <1>4
  <2> QED BY <1>a, <1>1, <1>4, <2>1 DEF OwnBytes
<1>6. \A g \in testfds' : ReadyFd(g)'
  <2>1. \A g \in testfds' : ReadyFd(g)
      BY <1>a, <1>2 DEF LoopOver
  <2> QED BY <1>2, <2>1 DEF ReadyFd, Hung
<1> HIDE DEF f
<1>7. down' \in [Visitors -> Seq(Visitors)] /\ down'[w] = Append(down[w], w) /\ \A v \in Visitors : v # w => down'[v] = down[v]
    BY <1>a, <1>1, <1>2, <1>4 DEF SelectPlaces
<1>8. LoopOver' /\ scan' \in {"select", "look"}
    BY <1>2, <1>6, NextDescriptor
<1>9. SelectPlaces'
    BY <1>a, <1>2, <1>7, <1>8 DEF SelectPlaces
<1>10. OneConnection'
    BY <1>a, <1>2 DEF OneConnection
<1>11. OwnBytes'
    BY <1>a, <1>2, <1>5, <1>7 DEF OwnBytes
<1> QED BY <1>8, <1>9, <1>10, <1>11 DEF SelectInv

LEMMA SelectVisitors ==
    ASSUME SelectInv, NEW v \in Visitors, ConnectTo(v) \/ VisitorRuns(v) \/ VisitorKilled(v)
    PROVE  SelectInv'
<1>a. SelectPlaces /\ OneConnection /\ OwnBytes /\ LoopOver /\ "noOne" \notin Visitors
    BY SelectAssumption DEF SelectInv, SelectAssumption
<1>1. CASE ConnectTo(v)
  <2>1. /\ visitor[v] = "out" /\ visits < MaxVisits /\ visits' = visits + 1
        /\ visitor' = [visitor EXCEPT ![v] = "write"] /\ backlog' = Append(backlog, v)
        /\ scan' = scan /\ readfds' = readfds /\ testfds' = testfds /\ ch' = ch /\ conn' = conn
        /\ up' = up /\ down' = down /\ Fd' = Fd
      BY <1>1 DEF ConnectTo, Fd
  <2>2. /\ backlog' \in Seq(Visitors) /\ Len(backlog') = Len(backlog) + 1 /\ Len(backlog) \in Nat
        /\ backlog' # << >> /\ backlog'[Len(backlog) + 1] = v
        /\ \A i \in 1..Len(backlog) : backlog'[i] = backlog[i]
    <3>1. backlog \in Seq(Visitors)
        BY <1>a DEF SelectPlaces
    <3>2. /\ Append(backlog, v) \in Seq(Visitors) /\ Append(backlog, v) # << >>
          /\ Len(Append(backlog, v)) = Len(backlog) + 1 /\ Append(backlog, v)[Len(backlog) + 1] = v
          /\ \A i \in 1..Len(backlog) : Append(backlog, v)[i] = backlog[i]
        BY <3>1, AppendProperties
    <3> QED BY <2>1, <3>1, <3>2
  <2>3. \A u \in Visitors : u # v => visitor'[u] = visitor[u]
      BY <1>a, <2>1 DEF SelectPlaces
  <2>4. visitor'[v] = "write" /\ visitor' \in [Visitors -> {"out", "write", "read", "closed"}]
      BY <1>a, <2>1 DEF SelectPlaces
  <2>5. \A g \in Fds : conn[g] # v
      BY <1>a, <2>1 DEF SelectPlaces, OneConnection, NoOne
  <2>6. \A i \in 1..Len(backlog) : backlog[i] \in Visitors /\ backlog[i] # v
      BY <1>a, <2>1 DEF SelectPlaces, OneConnection
  <2>7. visits' \in 0..MaxVisits
      BY <1>a, <2>1, SelectAssumption DEF SelectPlaces, SelectAssumption
  <2>8. SelectPlaces'
      BY <1>a, <2>1, <2>2, <2>4, <2>7 DEF SelectPlaces
  <2>9. \A i \in 1..Len(backlog') : i \in 1..Len(backlog) \/ (i = Len(backlog) + 1 /\ backlog'[i] = v)
      BY <2>2
  <2>10. OneConnection'
    <3>1. \A i, j \in 1..Len(backlog') : backlog'[i] = backlog'[j] => i = j
        BY <1>a, <2>2, <2>6, <2>9 DEF OneConnection
    <3>2. \A i \in 1..Len(backlog') : visitor'[backlog'[i]] # "out" /\ \A g \in Fds : conn[g] # backlog'[i]
        BY <1>a, <2>2, <2>3, <2>4, <2>5, <2>6, <2>9 DEF OneConnection
    <3>3. \A g \in Fds : conn[g] # NoOne => visitor'[conn[g]] # "out"
        BY <1>a, <2>3, <2>5 DEF SelectPlaces, OneConnection
    <3> QED BY <1>a, <2>1, <3>1, <3>2, <3>3 DEF OneConnection
  <2>11. OwnBytes'
      BY <1>a, <2>1 DEF OwnBytes
  <2>12. \A g \in testfds : ReadyFd(g) => ReadyFd(g)'
    <3> SUFFICES ASSUME NEW g \in testfds, ReadyFd(g) PROVE ReadyFd(g)'
        OBVIOUS
    <3>1. g # Listener => g \in Fds /\ conn[g] \in Visitors /\ visitor'[conn[g]] = visitor[conn[g]]
        BY <1>a, <2>3, <2>5 DEF SelectPlaces, ReadyFd
    <3> QED BY <2>1, <2>2, <3>1 DEF ReadyFd, Hung
  <2>13. LoopOver'
      BY <1>a, <2>1, <2>12 DEF LoopOver
  <2> QED BY <2>8, <2>10, <2>11, <2>13 DEF SelectInv
<1>2. CASE VisitorRuns(v) \/ VisitorKilled(v)
  <2>1. PICK at \in {"read", "closed"} : visitor' = [visitor EXCEPT ![v] = at]
      BY <1>2 DEF VisitorRuns, VisitorWrites, VisitorReads, VisitorKilled
  <2>2. /\ visitor[v] \in {"write", "read"} /\ backlog' = backlog /\ visits' = visits
        /\ scan' = scan /\ readfds' = readfds /\ testfds' = testfds /\ ch' = ch /\ conn' = conn /\ Fd' = Fd
      BY <1>2 DEF VisitorRuns, VisitorWrites, VisitorReads, VisitorKilled, Fd
  <2>3. \/ up' = [up EXCEPT ![v] = Append(up[v], v)] /\ down' = down
        \/ up' = up /\ down' = [down EXCEPT ![v] = Tail(down[v])] /\ down[v] # << >>
        \/ up' = up /\ down' = down
      BY <1>2 DEF VisitorRuns, VisitorWrites, VisitorReads, VisitorKilled
  <2>4. \A u \in Visitors : u # v => visitor'[u] = visitor[u]
      BY <1>a, <2>1 DEF SelectPlaces
  <2>5. visitor'[v] = at /\ visitor' \in [Visitors -> {"out", "write", "read", "closed"}]
      BY <1>a, <2>1 DEF SelectPlaces
  <2>6. /\ up' \in [Visitors -> Seq(Visitors)] /\ down' \in [Visitors -> Seq(Visitors)] /\ OwnBytes'
        /\ \A u \in Visitors : up[u] # << >> => up'[u] # << >>
    <3>0. up[v] \in Seq(Visitors) /\ down[v] \in Seq(Visitors)
        BY <1>a DEF SelectPlaces
    <3>1. CASE up' = [up EXCEPT ![v] = Append(up[v], v)] /\ down' = down
      <4>1. /\ Append(up[v], v) \in Seq(Visitors) /\ Append(up[v], v) # << >>
            /\ Len(Append(up[v], v)) = Len(up[v]) + 1 /\ Append(up[v], v)[Len(up[v]) + 1] = v
            /\ \A i \in 1..Len(up[v]) : Append(up[v], v)[i] = up[v][i]
          BY <3>0, AppendProperties
      <4>2. \A i \in 1..Len(Append(up[v], v)) : i \in 1..Len(up[v]) \/ i = Len(up[v]) + 1
          BY <3>0, <4>1
      <4>3. \A i \in 1..Len(Append(up[v], v)) : Append(up[v], v)[i] = v
          BY <1>a, <4>1, <4>2 DEF OwnBytes
      <4>4. up'[v] = Append(up[v], v) /\ \A u \in Visitors : u # v => up'[u] = up[u]
          BY <1>a, <3>1 DEF SelectPlaces
      <4>5. up' \in [Visitors -> Seq(Visitors)] /\ down' \in [Visitors -> Seq(Visitors)]
          BY <1>a, <3>1, <4>1 DEF SelectPlaces
      <4>6. OwnBytes'
          BY <1>a, <3>1, <4>3, <4>4 DEF OwnBytes
      <4> QED BY <4>1, <4>4, <4>5, <4>6
    <3>2. CASE up' = up /\ down' = [down EXCEPT ![v] = Tail(down[v])] /\ down[v] # << >>
      <4>1. /\ Tail(down[v]) \in Seq(Visitors) /\ Len(Tail(down[v])) = Len(down[v]) - 1
            /\ \A i \in 1..Len(Tail(down[v])) : Tail(down[v])[i] = down[v][i + 1]
          BY <3>0, <3>2, HeadTailProperties
      <4>2. \A i \in 1..Len(Tail(down[v])) : i + 1 \in 1..Len(down[v])
          BY <3>0, <4>1
      <4>3. \A i \in 1..Len(Tail(down[v])) : Tail(down[v])[i] = v
          BY <1>a, <4>1, <4>2 DEF OwnBytes
      <4>4. down'[v] = Tail(down[v]) /\ \A u \in Visitors : u # v => down'[u] = down[u]
          BY <1>a, <3>2 DEF SelectPlaces
      <4>5. up' \in [Visitors -> Seq(Visitors)] /\ down' \in [Visitors -> Seq(Visitors)]
          BY <1>a, <3>2, <4>1 DEF SelectPlaces
      <4>6. OwnBytes'
          BY <1>a, <3>2, <4>3, <4>4 DEF OwnBytes
      <4> QED BY <3>2, <4>5, <4>6
    <3>3. CASE up' = up /\ down' = down
        BY <1>a, <3>3 DEF SelectPlaces, OwnBytes
    <3> QED BY <2>3, <3>1, <3>2, <3>3
  <2>7. SelectPlaces'
      BY <1>a, <2>2, <2>5, <2>6 DEF SelectPlaces
  <2>8. \A u \in Visitors : visitor[u] # "out" => visitor'[u] # "out"
      BY <2>4, <2>5
  <2>9. OneConnection'
    <3>1. \A i \in 1..Len(backlog) : visitor'[backlog[i]] # "out"
        BY <1>a, <2>8 DEF SelectPlaces, OneConnection
    <3>2. \A g \in Fds : conn[g] # NoOne => visitor'[conn[g]] # "out"
        BY <1>a, <2>8 DEF SelectPlaces, OneConnection
    <3> QED BY <1>a, <2>2, <3>1, <3>2 DEF OneConnection
  <2>10. \A u \in Visitors : visitor[u] = "closed" => visitor'[u] = "closed"
      BY <2>2, <2>4
  <2>11. \A g \in testfds : ReadyFd(g) => ReadyFd(g)'
    <3> SUFFICES ASSUME NEW g \in testfds, ReadyFd(g) PROVE ReadyFd(g)'
        OBVIOUS
    <3>1. g # Listener => g \in Fds /\ conn[g] \in Visitors
        BY <1>a DEF SelectPlaces, ReadyFd
    <3> QED BY <2>2, <2>6, <2>10, <3>1 DEF ReadyFd, Hung
  <2>12. LoopOver'
      BY <1>a, <2>2, <2>11 DEF LoopOver
  <2> QED BY <2>6, <2>7, <2>9, <2>12 DEF SelectInv
<1> QED BY <1>1, <1>2

LEMMA SelectStep == SelectInv /\ [SelectNext]_selectVars => SelectInv'
<1> SUFFICES ASSUME SelectInv, [SelectNext]_selectVars PROVE SelectInv'
    OBVIOUS
<1>a. SelectPlaces /\ OneConnection /\ OwnBytes /\ LoopOver
    BY DEF SelectInv
<1>1. CASE Select
  <2>1. /\ \E f \in readfds : ReadyFd(f)
        /\ testfds' = {f \in readfds : ReadyFd(f)} /\ scan' = "look"
        /\ readfds' = readfds /\ ch' = ch /\ backlog' = backlog /\ conn' = conn
        /\ visitor' = visitor /\ up' = up /\ down' = down /\ visits' = visits
      BY <1>1 DEF Select
  <2>2. SelectPlaces'
      BY <1>a, <2>1 DEF SelectPlaces
  <2>3. OneConnection' /\ OwnBytes'
      BY <1>a, <2>1 DEF OneConnection, OwnBytes
  <2>4. \A f \in testfds' : ReadyFd(f)'
      BY <2>1 DEF ReadyFd, Hung
  <2>5. LoopOver'
      BY <2>1, <2>4 DEF LoopOver
  <2> QED BY <2>2, <2>3, <2>5 DEF SelectInv
<1>2. CASE UNCHANGED selectVars
  <2>1. /\ scan' = scan /\ testfds' = testfds
        /\ readfds' = readfds /\ ch' = ch /\ backlog' = backlog /\ conn' = conn
        /\ visitor' = visitor /\ up' = up /\ down' = down /\ visits' = visits /\ Fd' = Fd
      BY <1>2 DEF selectVars, Fd
  <2>2. SelectPlaces' /\ OneConnection' /\ OwnBytes'
      BY <1>a, <2>1 DEF SelectPlaces, OneConnection, OwnBytes
  <2>3. \A f \in testfds : ReadyFd(f) => ReadyFd(f)'
      BY <2>1 DEF ReadyFd, Hung
  <2>4. LoopOver'
      BY <1>a, <2>1, <2>3 DEF LoopOver
  <2> QED BY <2>2, <2>4 DEF SelectInv
<1> QED BY <1>1, <1>2, SelectAccept, SelectHangUp, SelectReadByte, SelectWriteByte, SelectVisitors DEF SelectNext, SelectRuns

-----------------------------------------------------------------------------
(* msg1.c, msg2.c: there is one queue until msg1.c removes it, and perhaps  *)
(* one after it; the texts in it are those of its senders not yet printed   *)

MsgTextSet == [from : Senders, n : Nat]

MsgPlaces ==
    /\ receiver \in {"out", "receive", "remove", "gone"}
    /\ queues \in 0..2 /\ texts \in Seq(MsgTextSet) /\ Len(texts) <= MsgCap
    /\ taken \in [Senders -> Nat]
    /\ sender \in [Senders -> [at : {"out", "type", "send", "gone", "failed"}, id : 0..2, n : 0..LastMsg]]

\* which queue there is, and who knows it
QueueNumbers ==
    /\ receiver = "out" => msgQueue = queues /\ queues <= 1 /\ msgid = 0
    /\ receiver \in {"receive", "remove"} => msgQueue = 1 /\ queues = 1 /\ msgid = 1
    /\ receiver = "gone" => msgid = 1 /\ ((msgQueue = 0 /\ queues = 1) \/ (msgQueue = 2 /\ queues = 2))
    /\ msgQueue = 0 => texts = << >>
    /\ \A s \in Senders : /\ sender[s].id <= queues
                          /\ sender[s].at = "out" <=> sender[s].id = 0
                          /\ receiver # "gone" /\ sender[s].id # 0 => sender[s].id = msgQueue

TextsTyped ==
    \A s \in Senders : /\ sender[s].at = "out" => sender[s].n = 0
                       /\ sender[s].at = "type" => sender[s].n < LastMsg
                       /\ sender[s].at \in {"send", "failed"} => sender[s].n > 0
                       /\ sender[s].at = "failed" => receiver = "gone"
                       /\ receiver \in {"out", "receive"} => taken[s] < LastMsg
                       /\ taken[s] <= SentBy(s)

TextsQueued ==
    /\ \A i \in 1..Len(texts) :
          /\ sender[texts[i].from].id = msgQueue
          /\ taken[texts[i].from] < texts[i].n /\ texts[i].n <= SentBy(texts[i].from)
          /\ \A j \in 1..Len(texts) : i < j /\ texts[j].from = texts[i].from => texts[i].n < texts[j].n
    /\ \A s \in Senders : sender[s].id = msgQueue =>
          \A n \in Nat : taken[s] < n /\ n <= SentBy(s) => \E i \in 1..Len(texts) : texts[i].from = s /\ texts[i].n = n

MsgInv == MsgPlaces /\ QueueNumbers /\ TextsTyped /\ TextsQueued

LEMMA SenderFields ==
    ASSUME MsgPlaces, NEW s \in Senders
    PROVE  /\ sender[s].at \in {"out", "type", "send", "gone", "failed"} /\ sender[s].id \in 0..2
           /\ sender[s].n \in 0..LastMsg /\ sender[s].n \in Nat /\ SentBy(s) \in Int /\ SentBy(s) <= sender[s].n
           /\ taken[s] \in Nat
<1>1. sender[s] \in [at : {"out", "type", "send", "gone", "failed"}, id : 0..2, n : 0..LastMsg] /\ taken[s] \in Nat
    BY DEF MsgPlaces
<1>2. sender[s].n \in Nat
    BY <1>1, MsgAssumption DEF MsgAssumption
<1> QED BY <1>1, <1>2 DEF SentBy

LEMMA TextFields ==
    ASSUME texts \in Seq(MsgTextSet)
    PROVE  \A i \in 1..Len(texts) : texts[i] \in MsgTextSet /\ texts[i].from \in Senders /\ texts[i].n \in Nat
                                    /\ texts[i] = [from |-> texts[i].from, n |-> texts[i].n]
<1>1. \A i \in 1..Len(texts) : texts[i] \in MsgTextSet
    OBVIOUS
<1>2. \A m \in MsgTextSet : m.from \in Senders /\ m.n \in Nat /\ m = [from |-> m.from, n |-> m.n]
    BY DEF MsgTextSet
<1> QED BY <1>1, <1>2

LEMMA MsgTyped == MsgInv => MsgTypes /\ TextsAccounted
<1> SUFFICES ASSUME MsgInv PROVE MsgTypes /\ TextsAccounted
    OBVIOUS
<1>1. MsgPlaces /\ QueueNumbers /\ TextsTyped /\ TextsQueued /\ LastMsg \in Nat \ {0}
    BY MsgAssumption DEF MsgInv, MsgAssumption
<1>2. \A s \in Senders : taken[s] <= LastMsg /\ (sender[s].at = "failed" => taken[s] < LastMsg)
  <2> SUFFICES ASSUME NEW s \in Senders
               PROVE  taken[s] <= LastMsg /\ (sender[s].at = "failed" => taken[s] < LastMsg)
      OBVIOUS
  <2>1. taken[s] <= SentBy(s) /\ SentBy(s) \in Int /\ taken[s] \in Nat /\ sender[s].n \in 0..LastMsg
      BY <1>1, SenderFields DEF TextsTyped
  <2>2. SentBy(s) <= LastMsg /\ (sender[s].at = "failed" => SentBy(s) < LastMsg)
      BY <1>1, <2>1 DEF SentBy
  <2> QED BY <1>1, <2>1, <2>2
<1>3. MsgTypes
  <2>1. msgQueue \in 0..queues /\ msgid \in 0..queues
      BY <1>1 DEF QueueNumbers, MsgPlaces
  <2>2. \A s \in Senders : taken[s] \in 0..LastMsg
    <3> SUFFICES ASSUME NEW s \in Senders PROVE taken[s] \in 0..LastMsg
        OBVIOUS
    <3>1. taken[s] \in Nat /\ taken[s] <= LastMsg
        BY <1>1, <1>2, SenderFields
    <3> QED BY <1>1, <3>1
  <2>3. queues <= 2
      BY <1>1 DEF MsgPlaces
  <2> QED BY <1>1, <2>1, <2>2, <2>3, SenderFields DEF MsgTypes, MsgPlaces
<1>4. DOMAIN texts = 1..Len(texts) /\ texts \in Seq(MsgTextSet)
    BY <1>1 DEF MsgPlaces
<1>5. ASSUME NEW i \in 1..Len(texts)
      PROVE  /\ sender[texts[i].from].id = msgQueue
             /\ texts[i].n \in (taken[texts[i].from] + 1)..SentBy(texts[i].from)
             /\ \A j \in 1..Len(texts) : i < j /\ texts[j].from = texts[i].from => texts[i].n < texts[j].n
  <2>1. texts[i].from \in Senders /\ texts[i].n \in Nat
      BY <1>4, TextFields
  <2>2. taken[texts[i].from] \in Nat /\ SentBy(texts[i].from) \in Int
      BY <1>1, <2>1, SenderFields
  <2> QED BY <1>1, <2>1, <2>2 DEF TextsQueued
<1>6. ASSUME NEW s \in Senders, sender[s].id = msgQueue, NEW n \in (taken[s] + 1)..SentBy(s)
      PROVE  \E i \in 1..Len(texts) : texts[i] = [from |-> s, n |-> n]
  <2>1. n \in Nat /\ taken[s] < n /\ n <= SentBy(s)
      BY <1>1, SenderFields
  <2>2. PICK i \in 1..Len(texts) : texts[i].from = s /\ texts[i].n = n
      BY <1>1, <1>6, <2>1 DEF TextsQueued
  <2> QED BY <1>4, <2>2, TextFields
<1>7. \A s \in Senders : receiver = "receive" => msgid = msgQueue /\ taken[s] < LastMsg
    BY <1>1 DEF QueueNumbers, TextsTyped
<1> QED BY <1>1, <1>2, <1>3, <1>4, <1>5, <1>6, <1>7 DEF TextsAccounted, TextsTyped

LEMMA MsgInitial == MsgInit => MsgInv
<1> SUFFICES ASSUME MsgInit PROVE MsgInv
    OBVIOUS
<1>1. MsgPlaces
    BY MsgAssumption DEF MsgAssumption, MsgInit, MsgPlaces
<1>2. \A s \in Senders : sender[s].at = "out" /\ sender[s].id = 0 /\ sender[s].n = 0 /\ taken[s] = 0 /\ SentBy(s) = 0
    BY DEF MsgInit, SentBy
<1>3. QueueNumbers
    BY <1>2 DEF MsgInit, QueueNumbers
<1>4. TextsTyped
  <2>1. LastMsg \in Nat /\ LastMsg > 0
      BY MsgAssumption DEF MsgAssumption
  <2> SUFFICES ASSUME NEW s \in Senders
               PROVE  sender[s].at = "out" /\ sender[s].n = 0 /\ taken[s] < LastMsg /\ taken[s] <= SentBy(s)
      BY DEF TextsTyped
  <2> QED BY <1>2, <2>1
<1>5. TextsQueued
    BY <1>2 DEF MsgInit, TextsQueued
<1> QED BY <1>1, <1>3, <1>4, <1>5 DEF MsgInv

\* a step that leaves the texts, and what is sent and printed, alone
LEMMA TextsKept ==
    ASSUME MsgPlaces, TextsQueued, texts' = texts, taken' = taken,
           \A s \in Senders : SentBy(s)' = SentBy(s) /\ (sender'[s].id = msgQueue' <=> sender[s].id = msgQueue)
    PROVE  TextsQueued'
<1>1. \A i \in 1..Len(texts) : texts[i].from \in Senders
    BY TextFields DEF MsgPlaces
<1> DEFINE SentNext(s) == IF sender'[s].at \in {"send", "failed"} THEN sender'[s].n - 1 ELSE sender'[s].n
<1>2. \A s \in Senders : SentNext(s) = SentBy(s)
    BY DEF SentBy
<1> HIDE DEF SentNext
<1>3. \A i \in 1..Len(texts) :
          /\ sender'[texts[i].from].id = msgQueue'
          /\ taken[texts[i].from] < texts[i].n /\ texts[i].n <= SentNext(texts[i].from)
          /\ \A j \in 1..Len(texts) : i < j /\ texts[j].from = texts[i].from => texts[i].n < texts[j].n
    BY <1>1, <1>2 DEF TextsQueued
<1>4. \A s \in Senders : sender'[s].id = msgQueue' =>
          \A n \in Nat : taken[s] < n /\ n <= SentNext(s) => \E i \in 1..Len(texts) : texts[i].from = s /\ texts[i].n = n
    BY <1>2 DEF TextsQueued
<1> QED BY <1>3, <1>4 DEF TextsQueued, SentBy, SentNext

\* one sender goes on; the others stay where they are
LEMMA SenderKnows ==
    ASSUME MsgPlaces, NEW s \in Senders, NEW x \in {"out", "type", "send", "gone", "failed"}, NEW y \in 0..2,
           sender' = [sender EXCEPT ![s].at = x, ![s].id = y]
    PROVE  /\ sender' \in [Senders -> [at : {"out", "type", "send", "gone", "failed"}, id : 0..2, n : 0..LastMsg]]
           /\ sender'[s].at = x /\ sender'[s].id = y /\ sender'[s].n = sender[s].n
           /\ \A u \in Senders : u # s => sender'[u] = sender[u]
<1>1. sender \in [Senders -> [at : {"out", "type", "send", "gone", "failed"}, id : 0..2, n : 0..LastMsg]]
    BY DEF MsgPlaces
<1>2. sender'[s] = [at |-> x, id |-> y, n |-> sender[s].n]
    BY <1>1
<1>3. DOMAIN sender' = Senders /\ \A u \in Senders : u # s => sender'[u] = sender[u]
    BY <1>1
<1>4. \A u \in Senders : sender'[u] \in [at : {"out", "type", "send", "gone", "failed"}, id : 0..2, n : 0..LastMsg]
    BY <1>1, <1>2, <1>3
<1>5. sender' = [u \in Senders |-> sender'[u]]
    BY <1>1
<1> QED BY <1>2, <1>3, <1>4, <1>5

LEMMA SenderCounts ==
    ASSUME MsgPlaces, NEW s \in Senders, NEW x \in {"out", "type", "send", "gone", "failed"}, NEW y \in 0..LastMsg,
           sender' = [sender EXCEPT ![s].at = x, ![s].n = y]
    PROVE  /\ sender' \in [Senders -> [at : {"out", "type", "send", "gone", "failed"}, id : 0..2, n : 0..LastMsg]]
           /\ sender'[s].at = x /\ sender'[s].id = sender[s].id /\ sender'[s].n = y
           /\ \A u \in Senders : u # s => sender'[u] = sender[u]
<1>1. sender \in [Senders -> [at : {"out", "type", "send", "gone", "failed"}, id : 0..2, n : 0..LastMsg]]
    BY DEF MsgPlaces
<1>2. sender'[s] = [at |-> x, id |-> sender[s].id, n |-> y]
    BY <1>1
<1>3. DOMAIN sender' = Senders /\ \A u \in Senders : u # s => sender'[u] = sender[u]
    BY <1>1
<1>4. \A u \in Senders : sender'[u] \in [at : {"out", "type", "send", "gone", "failed"}, id : 0..2, n : 0..LastMsg]
    BY <1>1, <1>2, <1>3
<1>5. sender' = [u \in Senders |-> sender'[u]]
    BY <1>1
<1> QED BY <1>2, <1>3, <1>4, <1>5

LEMMA SenderMoves ==
    ASSUME MsgPlaces, NEW s \in Senders, NEW x \in {"out", "type", "send", "gone", "failed"},
           sender' = [sender EXCEPT ![s].at = x]
    PROVE  /\ sender' \in [Senders -> [at : {"out", "type", "send", "gone", "failed"}, id : 0..2, n : 0..LastMsg]]
           /\ sender'[s].at = x /\ sender'[s].id = sender[s].id /\ sender'[s].n = sender[s].n
           /\ \A u \in Senders : u # s => sender'[u] = sender[u]
<1>1. sender \in [Senders -> [at : {"out", "type", "send", "gone", "failed"}, id : 0..2, n : 0..LastMsg]]
    BY DEF MsgPlaces
<1>2. sender'[s] = [at |-> x, id |-> sender[s].id, n |-> sender[s].n]
    BY <1>1
<1>3. DOMAIN sender' = Senders /\ \A u \in Senders : u # s => sender'[u] = sender[u]
    BY <1>1
<1>4. \A u \in Senders : sender'[u] \in [at : {"out", "type", "send", "gone", "failed"}, id : 0..2, n : 0..LastMsg]
    BY <1>1, <1>2, <1>3
<1>5. sender' = [u \in Senders |-> sender'[u]]
    BY <1>1
<1>6. sender' \in [Senders -> [at : {"out", "type", "send", "gone", "failed"}, id : 0..2, n : 0..LastMsg]]
    BY <1>4, <1>5
<1> QED BY <1>2, <1>3, <1>6

LEMMA ReceiverBegins == MsgInv /\ BeginReceiver => MsgInv'
<1> SUFFICES ASSUME MsgInv, BeginReceiver PROVE MsgInv'
    OBVIOUS
<1>1. MsgPlaces /\ QueueNumbers /\ TextsTyped /\ TextsQueued
    BY DEF MsgInv
<1>2. /\ receiver = "out" /\ receiver' = "receive" /\ msgid' = msgQueue' /\ texts' = texts /\ sender' = sender /\ taken' = taken
      /\ msgQueue = 0 => msgQueue' = queues + 1 /\ queues' = queues + 1
      /\ msgQueue # 0 => msgQueue' = msgQueue /\ queues' = queues
    BY DEF BeginReceiver, GetQueue
<1>3. msgQueue' = 1 /\ queues' = 1 /\ msgid' = 1 /\ (msgQueue = 0 \/ msgQueue = 1) /\ queues = msgQueue
    BY <1>1, <1>2 DEF QueueNumbers, MsgPlaces
<1>4. \A s \in Senders : sender[s].at = "out" => sender[s].n = 0 /\ taken[s] = 0
  <2> SUFFICES ASSUME NEW s \in Senders, sender[s].at = "out" PROVE sender[s].n = 0 /\ taken[s] = 0
      OBVIOUS
  <2>1. sender[s].n = 0 /\ taken[s] <= SentBy(s) /\ taken[s] \in Nat
      BY <1>1, SenderFields DEF TextsTyped
  <2> QED BY <2>1 DEF SentBy
<1>5. CASE msgQueue = 0
  <2>1. \A s \in Senders : sender[s].at = "out" /\ sender[s].id = 0
      BY <1>1, <1>2, <1>5 DEF QueueNumbers
  <2>2. texts = << >>
      BY <1>1, <1>5 DEF QueueNumbers
  <2>3. TextsQueued'
      BY <1>2, <1>3, <2>1, <2>2 DEF TextsQueued
  <2>4. QueueNumbers'
      BY <1>1, <1>2, <1>3, <2>1 DEF QueueNumbers
  <2>5. MsgPlaces'
      BY <1>1, <1>2, <1>3 DEF MsgPlaces
  <2>6. TextsTyped'
      BY <1>1, <1>2, <2>1 DEF TextsTyped, SentBy
  <2> QED BY <2>3, <2>4, <2>5, <2>6 DEF MsgInv
<1>6. CASE msgQueue # 0
  <2>1. msgQueue' = msgQueue /\ queues' = queues
      BY <1>2, <1>6
  <2>2. \A s \in Senders : SentBy(s)' = SentBy(s)
      BY <1>2 DEF SentBy
  <2>3. TextsQueued'
      BY <1>1, <1>2, <2>1, <2>2, TextsKept
  <2>4. QueueNumbers'
      BY <1>1, <1>2, <1>3, <2>1 DEF QueueNumbers
  <2>5. MsgPlaces'
      BY <1>1, <1>2, <1>3 DEF MsgPlaces
  <2>6. TextsTyped'
      BY <1>1, <1>2 DEF TextsTyped, SentBy
  <2> QED BY <2>3, <2>4, <2>5, <2>6 DEF MsgInv
<1> QED BY <1>5, <1>6

LEMMA ReceiverTakes == MsgInv /\ ReceiveText => MsgInv'
<1> SUFFICES ASSUME MsgInv, ReceiveText PROVE MsgInv'
    OBVIOUS
<1>1. MsgPlaces /\ QueueNumbers /\ TextsTyped /\ TextsQueued /\ texts \in Seq(MsgTextSet)
    BY DEF MsgInv, MsgPlaces
<1>2. /\ receiver = "receive" /\ texts # << >> /\ texts' = Tail(texts)
      /\ taken' = [taken EXCEPT ![Head(texts).from] = Head(texts).n]
      /\ receiver' = (IF Head(texts).n = LastMsg THEN "remove" ELSE "receive")
      /\ msgQueue' = msgQueue /\ queues' = queues /\ msgid' = msgid /\ sender' = sender
    BY DEF ReceiveText
<1> DEFINE s == texts[1].from
           k == texts[1].n
<1>3. 1 \in 1..Len(texts) /\ Head(texts) = texts[1] /\ Len(texts) \in Nat
    BY <1>1, <1>2
<1>4. s \in Senders /\ k \in Nat
    BY <1>1, <1>3, TextFields
<1>5. taken[s] < k /\ k <= SentBy(s) /\ sender[s].id = msgQueue
    BY <1>1, <1>3 DEF TextsQueued
<1>6. k <= LastMsg
  <2>1. SentBy(s) <= sender[s].n /\ SentBy(s) \in Int /\ sender[s].n \in 0..LastMsg
      BY <1>1, <1>4, SenderFields
  <2>2. LastMsg \in Nat
      BY MsgAssumption DEF MsgAssumption
  <2> QED BY <1>4, <1>5, <2>1, <2>2
<1>7. /\ texts' \in Seq(MsgTextSet) /\ Len(texts') = Len(texts) - 1
      /\ \A i \in 1..Len(texts') : texts'[i] = texts[i + 1]
    BY <1>1, <1>2, HeadTailProperties
<1>8. \A i \in 1..Len(texts') : i + 1 \in 1..Len(texts) /\ 1 < i + 1
    BY <1>3, <1>7
<1>9. taken'[s] = k /\ \A u \in Senders : u # s => taken'[u] = taken[u]
    BY <1>1, <1>2, <1>3, <1>4 DEF MsgPlaces
<1>10. \A u \in Senders : SentBy(u)' = SentBy(u)
    BY <1>2 DEF SentBy
<1>11. MsgPlaces'
  <2>1. taken' \in [Senders -> Nat]
      BY <1>1, <1>2, <1>3, <1>4 DEF MsgPlaces
  <2>2. Len(texts') <= MsgCap
      BY <1>1, <1>3, <1>7, MsgAssumption DEF MsgPlaces, MsgAssumption
  <2> QED BY <1>1, <1>2, <1>7, <2>1, <2>2 DEF MsgPlaces
<1>12. QueueNumbers'
  <2>1. msgQueue = 1
      BY <1>1, <1>2 DEF QueueNumbers
  <2> QED BY <1>1, <1>2, <2>1 DEF QueueNumbers
<1>13. receiver' = "receive" => k < LastMsg
    BY <1>2, <1>3, <1>4, <1>6, MsgAssumption DEF MsgAssumption
<1> HIDE DEF s, k
<1>14. TextsTyped'
  <2> SUFFICES ASSUME NEW u \in Senders
               PROVE  /\ receiver' \in {"out", "receive"} => taken'[u] < LastMsg
                      /\ taken'[u] <= SentBy(u)
                      /\ sender[u].at # "failed"
      BY <1>1, <1>2, <1>10 DEF TextsTyped, SentBy
  <2>1. receiver' \in {"receive", "remove"}
      BY <1>2
  <2>2. CASE u = s
      BY <1>1, <1>2, <1>5, <1>9, <1>13, <2>1, <2>2 DEF TextsTyped
  <2>3. CASE u # s
      BY <1>1, <1>2, <1>9, <2>1, <2>3 DEF TextsTyped
  <2> QED BY <2>2, <2>3
<1>15. TextsQueued'
  <2>a. \A i \in 1..Len(texts') : texts[i + 1].from \in Senders
      BY <1>1, <1>8, TextFields
  <2>1. \A i \in 1..Len(texts') :
          /\ sender[texts'[i].from].id = msgQueue
          /\ taken'[texts'[i].from] < texts'[i].n /\ texts'[i].n <= SentBy(texts'[i].from)
          /\ \A j \in 1..Len(texts') : i < j /\ texts'[j].from = texts'[i].from => texts'[i].n < texts'[j].n
    <3> SUFFICES ASSUME NEW i \in 1..Len(texts')
                 PROVE  /\ sender[texts'[i].from].id = msgQueue
                        /\ taken'[texts'[i].from] < texts'[i].n /\ texts'[i].n <= SentBy(texts'[i].from)
                        /\ \A j \in 1..Len(texts') : i < j /\ texts'[j].from = texts'[i].from => texts'[i].n < texts'[j].n
        OBVIOUS
    <3>1. texts'[i] = texts[i + 1] /\ i + 1 \in 1..Len(texts) /\ 1 < i + 1
        BY <1>7, <1>8
    <3>2. \A j \in 1..Len(texts') : i < j /\ texts'[j].from = texts'[i].from => texts'[i].n < texts'[j].n
      <4> SUFFICES ASSUME NEW j \in 1..Len(texts'), i < j, texts'[j].from = texts'[i].from PROVE texts'[i].n < texts'[j].n
          OBVIOUS
      <4>1. i + 1 < j + 1 /\ j + 1 \in 1..Len(texts) /\ texts'[j] = texts[j + 1]
          BY <1>7, <1>8
      <4> QED BY <1>1, <3>1, <4>1 DEF TextsQueued
    <3>3. taken'[texts[i + 1].from] < texts[i + 1].n
      <4>1. CASE texts[i + 1].from = s
        <5>1. k < texts[i + 1].n
            BY <1>1, <1>3, <3>1, <4>1 DEF TextsQueued, s, k
        <5> QED BY <1>9, <4>1, <5>1
      <4>2. CASE texts[i + 1].from # s
        <5>1. taken'[texts[i + 1].from] = taken[texts[i + 1].from]
            BY <1>9, <2>a, <4>2
        <5> QED BY <1>1, <3>1, <5>1 DEF TextsQueued
      <4> QED BY <4>1, <4>2
    <3> QED BY <1>1, <3>1, <3>2, <3>3 DEF TextsQueued
  <2>2. ASSUME NEW u \in Senders, sender[u].id = msgQueue, NEW n \in Nat, taken'[u] < n, n <= SentBy(u)
        PROVE  \E i \in 1..Len(texts') : texts'[i].from = u /\ texts'[i].n = n
    <3>0. taken[u] < n
      <4>1. CASE u = s
        <5>1. taken[s] \in Nat
            BY <1>1, <1>4, SenderFields DEF s
        <5> QED BY <1>4, <1>5, <1>9, <2>2, <4>1, <5>1 DEF k
      <4>2. CASE u # s
          BY <1>9, <2>2, <4>2
      <4> QED BY <4>1, <4>2
    <3>1. PICK i \in 1..Len(texts) : texts[i].from = u /\ texts[i].n = n
        BY <1>1, <2>2, <3>0 DEF TextsQueued
    <3>2. i # 1
      <4>1. CASE i = 1
        <5>1. u = s /\ n = k
            BY <3>1, <4>1 DEF s, k
        <5>2. k \in Nat
            BY <1>4 DEF k
        <5> QED BY <1>9, <2>2, <5>1, <5>2
      <4> QED BY <4>1
    <3>3. i - 1 \in 1..Len(texts') /\ (i - 1) + 1 = i
        BY <1>3, <1>7, <3>2
    <3>4. texts'[i - 1] = texts[i]
        BY <1>7, <3>3
    <3> QED BY <3>1, <3>3, <3>4
  <2> QED BY <1>2, <1>10, <2>1, <2>2 DEF TextsQueued, SentBy
<1> QED BY <1>11, <1>12, <1>14, <1>15 DEF MsgInv

LEMMA ReceiverRemoves == MsgInv /\ RemoveQueue => MsgInv'
<1> SUFFICES ASSUME MsgInv, RemoveQueue PROVE MsgInv'
    OBVIOUS
<1>1. MsgPlaces /\ QueueNumbers /\ TextsTyped /\ TextsQueued
    BY DEF MsgInv
<1>2. /\ receiver = "remove" /\ receiver' = "gone" /\ msgQueue' = 0 /\ texts' = << >>
      /\ queues' = queues /\ msgid' = msgid /\ sender' = sender /\ taken' = taken
    BY DEF RemoveQueue
<1>3. queues = 1 /\ msgid = 1 /\ Len(texts') = 0 /\ texts' \in Seq(MsgTextSet)
    BY <1>1, <1>2 DEF QueueNumbers
<1>4. MsgPlaces'
    BY <1>1, <1>2, <1>3, MsgAssumption DEF MsgPlaces, MsgAssumption
<1>5. QueueNumbers'
    BY <1>1, <1>2, <1>3 DEF QueueNumbers
<1>6. TextsTyped'
    BY <1>1, <1>2 DEF TextsTyped, SentBy
<1>7. TextsQueued'
  <2>1. ASSUME NEW s \in Senders, sender[s].id = 0, NEW n \in Nat, taken[s] < n, n <= SentBy(s) PROVE FALSE
    <3>1. sender[s].at = "out" /\ sender[s].n = 0 /\ taken[s] \in Nat
        BY <1>1, <2>1, SenderFields DEF QueueNumbers, TextsTyped
    <3> QED BY <2>1, <3>1 DEF SentBy
  <2> QED BY <1>2, <1>3, <2>1 DEF TextsQueued, SentBy
<1> QED BY <1>4, <1>5, <1>6, <1>7 DEF MsgInv

LEMMA SenderBegins == ASSUME MsgInv, NEW s \in Senders, BeginSender(s) PROVE MsgInv'
<1>1. MsgPlaces /\ QueueNumbers /\ TextsTyped /\ TextsQueued
    BY DEF MsgInv
<1>2. /\ sender[s].at = "out" /\ sender' = [sender EXCEPT ![s].at = "type", ![s].id = msgQueue']
      /\ texts' = texts /\ receiver' = receiver /\ msgid' = msgid /\ taken' = taken
      /\ msgQueue = 0 => msgQueue' = queues + 1 /\ queues' = queues + 1
      /\ msgQueue # 0 => msgQueue' = msgQueue /\ queues' = queues
    BY DEF BeginSender, GetQueue
<1>3. sender[s].id = 0 /\ sender[s].n = 0 /\ sender[s].n \in 0..LastMsg /\ SentBy(s) = 0 /\ taken[s] = 0
  <2>1. sender[s].id = 0 /\ sender[s].n = 0 /\ taken[s] <= SentBy(s) /\ taken[s] \in Nat /\ sender[s].n \in 0..LastMsg
      BY <1>1, <1>2, SenderFields DEF QueueNumbers, TextsTyped
  <2> QED BY <1>2, <2>1 DEF SentBy
<1>4. /\ msgQueue' \in {1, 2} /\ queues' \in 1..2
      /\ receiver = "out" => msgQueue' = 1 /\ queues' = 1
      /\ receiver \in {"receive", "remove"} => msgQueue' = msgQueue /\ queues' = queues
      /\ receiver = "gone" => msgQueue' = 2 /\ queues' = 2
      /\ receiver = "out" => msgQueue = 0 \/ msgQueue = 1
      /\ receiver \in {"receive", "remove"} => msgQueue = 1
    BY <1>1, <1>2 DEF QueueNumbers, MsgPlaces
<1>5. /\ sender' \in [Senders -> [at : {"out", "type", "send", "gone", "failed"}, id : 0..2, n : 0..LastMsg]]
      /\ sender'[s].at = "type" /\ sender'[s].id = msgQueue' /\ sender'[s].n = 0
      /\ \A u \in Senders : u # s => sender'[u] = sender[u]
  <2> DEFINE id == msgQueue'
  <2>1. id \in 0..2 /\ sender' = [sender EXCEPT ![s].at = "type", ![s].id = id]
      BY <1>2, <1>4
  <2> HIDE DEF id
  <2>2. /\ sender' \in [Senders -> [at : {"out", "type", "send", "gone", "failed"}, id : 0..2, n : 0..LastMsg]]
        /\ sender'[s].at = "type" /\ sender'[s].id = id /\ sender'[s].n = sender[s].n
        /\ \A u \in Senders : u # s => sender'[u] = sender[u]
      BY <1>1, <2>1, SenderKnows
  <2> QED BY <1>3, <2>2 DEF id
<1>6. MsgPlaces'
    BY <1>1, <1>2, <1>4, <1>5 DEF MsgPlaces
<1>7. \A u \in Senders : u # s => SentBy(u)' = SentBy(u)
    BY <1>5 DEF SentBy
<1>8. SentBy(s)' = 0
    BY <1>5 DEF SentBy
<1>9. TextsTyped'
  <2>1. LastMsg \in Nat /\ LastMsg > 0
      BY MsgAssumption DEF MsgAssumption
  <2> SUFFICES ASSUME NEW u \in Senders
               PROVE  /\ sender'[u].at = "out" => sender'[u].n = 0
                      /\ sender'[u].at = "type" => sender'[u].n < LastMsg
                      /\ sender'[u].at \in {"send", "failed"} => sender'[u].n > 0
                      /\ sender'[u].at = "failed" => receiver = "gone"
                      /\ receiver \in {"out", "receive"} => taken[u] < LastMsg
                      /\ taken[u] <= SentBy(u)'
      BY <1>2 DEF TextsTyped, SentBy
  <2>2. CASE u = s
      BY <1>3, <1>5, <1>8, <2>1, <2>2
  <2>3. CASE u # s
      BY <1>1, <1>5, <1>7, <2>3 DEF TextsTyped
  <2> QED BY <2>2, <2>3
<1>10. QueueNumbers'
  <2>1. receiver # "gone" => \A u \in Senders : u # s /\ sender[u].id # 0 => sender[u].id = msgQueue'
    <3> SUFFICES ASSUME receiver # "gone", NEW u \in Senders, u # s, sender[u].id # 0 PROVE sender[u].id = msgQueue'
        OBVIOUS
    <3>1. sender[u].id = msgQueue
        BY <1>1 DEF QueueNumbers
    <3> QED BY <1>2, <3>1
  <2>2. \A u \in Senders : sender'[u].at = "out" <=> sender'[u].id = 0
      BY <1>1, <1>4, <1>5 DEF QueueNumbers
  <2>3. receiver # "gone" => \A u \in Senders : sender'[u].id # 0 => sender'[u].id = msgQueue'
      BY <1>5, <2>1
  <2>4. msgQueue' # 0
      BY <1>4
  <2>5. /\ receiver = "out" => msgQueue' = queues' /\ queues' <= 1 /\ msgid = 0
        /\ receiver \in {"receive", "remove"} => msgQueue' = 1 /\ queues' = 1 /\ msgid = 1
        /\ receiver = "gone" => msgid = 1 /\ msgQueue' = 2 /\ queues' = 2
      BY <1>1, <1>4 DEF QueueNumbers
  <2>6. \A u \in Senders : sender'[u].id <= queues'
    <3> SUFFICES ASSUME NEW u \in Senders PROVE sender'[u].id <= queues'
        OBVIOUS
    <3>1. CASE u = s
        BY <1>1, <1>2, <1>4, <1>5, <3>1 DEF QueueNumbers
    <3>2. CASE u # s
      <4>1. sender[u].id <= queues /\ queues <= queues' /\ sender[u].id \in 0..2 /\ queues \in 0..2
          BY <1>1, <1>2, <1>4, SenderFields DEF QueueNumbers, MsgPlaces
      <4> QED BY <1>4, <1>5, <3>2, <4>1
    <3> QED BY <3>1, <3>2
  <2> QED BY <1>2, <2>2, <2>3, <2>4, <2>5, <2>6 DEF QueueNumbers
<1>11. TextsQueued'
  <2>1. CASE msgQueue = 0
    <3>1. texts = << >> /\ Len(texts) = 0
        BY <1>1, <2>1 DEF QueueNumbers
    <3>2. \A u \in Senders : u # s => sender[u].id # msgQueue'
      <4> SUFFICES ASSUME NEW u \in Senders, u # s, sender[u].id = msgQueue' PROVE FALSE
          OBVIOUS
      <4>1. receiver = "out" \/ receiver = "gone"
          BY <1>1, <2>1 DEF QueueNumbers, MsgPlaces
      <4>2. CASE receiver = "out"
          BY <1>1, <1>4, <2>1, <4>2 DEF QueueNumbers
      <4>3. CASE receiver = "gone"
        <5>1. queues = 1 /\ msgQueue' = 2 /\ sender[u].id <= 1
            BY <1>1, <1>4, <2>1, <4>3 DEF QueueNumbers
        <5>2. sender[u].id \in 0..2
            BY <1>1, SenderFields
        <5> QED BY <5>1, <5>2
      <4> QED BY <4>1, <4>2, <4>3
    <3>3. ASSUME NEW u \in Senders, sender'[u].id = msgQueue', NEW n \in Nat, taken[u] < n, n <= SentBy(u)' PROVE FALSE
      <4>1. u = s
          BY <1>5, <3>2, <3>3
      <4> QED BY <1>3, <1>8, <3>3, <4>1 DEF SentBy
    <3>4. Len(texts') = 0 /\ taken' = taken
        BY <1>2, <3>1
    <3> QED BY <3>3, <3>4 DEF TextsQueued, SentBy
  <2>2. CASE msgQueue # 0
    <3>1. msgQueue' = msgQueue
        BY <1>2, <2>2
    <3> DEFINE SentNext(u) == IF sender'[u].at \in {"send", "failed"} THEN sender'[u].n - 1 ELSE sender'[u].n
    <3>2. \A u \in Senders : SentNext(u) = SentBy(u)
        BY <1>3, <1>5 DEF SentBy
    <3> HIDE DEF SentNext
    <3>3. \A i \in 1..Len(texts) : texts[i].from \in Senders /\ texts[i].from # s
      <4>1. \A i \in 1..Len(texts) : texts[i].from \in Senders
          BY <1>1, TextFields DEF MsgPlaces
      <4>2. \A i \in 1..Len(texts) : sender[texts[i].from].id = msgQueue
          BY <1>1 DEF TextsQueued
      <4> QED BY <1>3, <2>2, <4>1, <4>2
    <3>4. \A i \in 1..Len(texts) :
              /\ sender'[texts[i].from].id = msgQueue'
              /\ taken[texts[i].from] < texts[i].n /\ texts[i].n <= SentNext(texts[i].from)
              /\ \A j \in 1..Len(texts) : i < j /\ texts[j].from = texts[i].from => texts[i].n < texts[j].n
        BY <1>1, <1>5, <3>1, <3>2, <3>3 DEF TextsQueued
    <3>5. ASSUME NEW u \in Senders, sender'[u].id = msgQueue', NEW n \in Nat, taken[u] < n, n <= SentNext(u)
          PROVE  \E i \in 1..Len(texts) : texts[i].from = u /\ texts[i].n = n
      <4>1. CASE u = s
          BY <1>3, <3>2, <3>5, <4>1
      <4>2. CASE u # s
          BY <1>1, <1>5, <3>1, <3>2, <3>5, <4>2 DEF TextsQueued
      <4> QED BY <4>1, <4>2
    <3>6. texts' = texts /\ taken' = taken
        BY <1>2
    <3>7. \A u \in Senders : sender'[u].id = msgQueue' =>
              \A n \in Nat : taken[u] < n /\ n <= SentNext(u) => \E i \in 1..Len(texts) : texts[i].from = u /\ texts[i].n = n
        BY <3>5
    <3> QED BY <3>4, <3>6, <3>7 DEF TextsQueued, SentBy, SentNext
  <2> QED BY <2>1, <2>2
<1> QED BY <1>6, <1>9, <1>10, <1>11 DEF MsgInv

LEMMA SenderTypesOrFails ==
    ASSUME MsgInv, NEW s \in Senders, TypeText(s) \/ SendFails(s)
    PROVE  MsgInv'
<1>1. MsgPlaces /\ QueueNumbers /\ TextsTyped /\ TextsQueued
    BY DEF MsgInv
<1>2. /\ msgQueue' = msgQueue /\ queues' = queues /\ texts' = texts /\ receiver' = receiver
      /\ msgid' = msgid /\ taken' = taken
    BY DEF TypeText, SendFails
<1>3. LastMsg \in Nat /\ sender[s].n \in 0..LastMsg /\ sender[s].id \in 0..2
    BY <1>1, SenderFields, MsgAssumption DEF MsgAssumption
<1>4. /\ sender' \in [Senders -> [at : {"out", "type", "send", "gone", "failed"}, id : 0..2, n : 0..LastMsg]]
      /\ sender'[s].id = sender[s].id /\ sender'[s].n \in 0..LastMsg
      /\ \/ sender[s].at = "type" /\ sender'[s].at = "send" /\ sender'[s].n = sender[s].n + 1
         \/ /\ sender[s].at = "send" /\ sender'[s].at = "failed" /\ sender'[s].n = sender[s].n
            /\ sender[s].id # msgQueue
      /\ \A u \in Senders : u # s => sender'[u] = sender[u]
  <2>1. CASE TypeText(s)
    <3> DEFINE k == sender[s].n + 1
    <3>1. sender[s].at = "type" /\ sender[s].n < LastMsg
        BY <1>1, <2>1 DEF TypeText, TextsTyped
    <3>2. k \in 0..LastMsg
        BY <1>3, <3>1
    <3>3. sender' = [sender EXCEPT ![s].at = "send", ![s].n = k]
        BY <2>1 DEF TypeText
    <3> HIDE DEF k
    <3>4. /\ sender' \in [Senders -> [at : {"out", "type", "send", "gone", "failed"}, id : 0..2, n : 0..LastMsg]]
          /\ sender'[s].at = "send" /\ sender'[s].id = sender[s].id /\ sender'[s].n = k
          /\ \A u \in Senders : u # s => sender'[u] = sender[u]
        BY <1>1, <3>2, <3>3, SenderCounts
    <3>5. k = sender[s].n + 1
        BY DEF k
    <3> QED BY <3>1, <3>2, <3>4, <3>5
  <2>2. CASE SendFails(s)
    <3>1. sender[s].at = "send" /\ sender[s].id # msgQueue /\ sender' = [sender EXCEPT ![s].at = "failed"]
        BY <2>2 DEF SendFails
    <3>2. /\ sender' \in [Senders -> [at : {"out", "type", "send", "gone", "failed"}, id : 0..2, n : 0..LastMsg]]
          /\ sender'[s].at = "failed" /\ sender'[s].id = sender[s].id /\ sender'[s].n = sender[s].n
          /\ \A u \in Senders : u # s => sender'[u] = sender[u]
        BY <1>1, <3>1, SenderMoves
    <3> QED BY <1>3, <3>1, <3>2
  <2> QED BY <2>1, <2>2
<1>5. SentBy(s)' = SentBy(s)
    BY <1>3, <1>4 DEF SentBy
<1>6. \A u \in Senders : SentBy(u)' = SentBy(u)
  <2>1. \A u \in Senders : u # s => SentBy(u)' = SentBy(u)
      BY <1>4 DEF SentBy
  <2> QED BY <1>5, <2>1
<1>7. \A u \in Senders : sender'[u].id = sender[u].id
    BY <1>4
<1>8. TextsQueued'
    BY <1>1, <1>2, <1>6, <1>7, TextsKept
<1>9. MsgPlaces'
    BY <1>1, <1>2, <1>4 DEF MsgPlaces
<1>10. QueueNumbers'
  <2>1. \A u \in Senders : sender'[u].at = "out" <=> sender[u].at = "out"
      BY <1>4
  <2> QED BY <1>1, <1>2, <1>7, <2>1 DEF QueueNumbers
<1>11. sender'[s].at = "failed" => receiver = "gone"
  <2> SUFFICES ASSUME sender'[s].at = "failed" PROVE receiver = "gone"
      OBVIOUS
  <2>1. sender[s].at = "send" /\ sender[s].id # msgQueue
      BY <1>4
  <2>2. sender[s].id # 0
      BY <1>1, <2>1 DEF QueueNumbers
  <2> QED BY <1>1, <2>1, <2>2 DEF QueueNumbers
<1>12. TextsTyped'
  <2> SUFFICES ASSUME NEW u \in Senders
               PROVE  /\ sender'[u].at = "out" => sender'[u].n = 0
                      /\ sender'[u].at = "type" => sender'[u].n < LastMsg
                      /\ sender'[u].at \in {"send", "failed"} => sender'[u].n > 0
                      /\ sender'[u].at = "failed" => receiver = "gone"
                      /\ receiver \in {"out", "receive"} => taken[u] < LastMsg
                      /\ taken[u] <= SentBy(u)'
      BY <1>2 DEF TextsTyped, SentBy
  <2>1. CASE u = s
    <3>1. sender'[s].n > 0
        BY <1>1, <1>3, <1>4 DEF TextsTyped
    <3>2. sender'[s].at \in {"send", "failed"}
        BY <1>4
    <3>3. (receiver \in {"out", "receive"} => taken[s] < LastMsg) /\ taken[s] <= SentBy(s)
        BY <1>1 DEF TextsTyped
    <3> QED BY <1>5, <1>11, <2>1, <3>1, <3>2, <3>3
  <2>2. CASE u # s
      BY <1>1, <1>4, <1>6, <2>2 DEF TextsTyped
  <2> QED BY <2>1, <2>2
<1> QED BY <1>8, <1>9, <1>10, <1>12 DEF MsgInv

LEMMA SenderSends == ASSUME MsgInv, NEW s \in Senders, SendText(s) PROVE MsgInv'
<1>1. MsgPlaces /\ QueueNumbers /\ TextsTyped /\ TextsQueued /\ texts \in Seq(MsgTextSet)
    BY DEF MsgInv, MsgPlaces
<1>2. /\ msgQueue' = msgQueue /\ queues' = queues /\ receiver' = receiver /\ msgid' = msgid /\ taken' = taken
      /\ sender[s].at = "send" /\ sender[s].id = msgQueue /\ Len(texts) < MsgCap
      /\ texts' = Append(texts, [from |-> s, n |-> sender[s].n])
    BY DEF SendText
<1>3. LastMsg \in Nat /\ sender[s].n \in 0..LastMsg /\ sender[s].n \in Nat /\ sender[s].id \in 0..2 /\ taken[s] \in Nat
    BY <1>1, SenderFields, MsgAssumption DEF MsgAssumption
<1> DEFINE k == sender[s].n
           m == [from |-> s, n |-> k]
<1>4. /\ sender' \in [Senders -> [at : {"out", "type", "send", "gone", "failed"}, id : 0..2, n : 0..LastMsg]]
      /\ sender'[s].id = sender[s].id /\ sender'[s].n = k
      /\ sender'[s].at \in {"gone", "type"} /\ (sender'[s].at = "type" => k # LastMsg)
      /\ \A u \in Senders : u # s => sender'[u] = sender[u]
  <2> DEFINE x == IF sender[s].n = LastMsg THEN "gone" ELSE "type"
  <2>1. sender' = [sender EXCEPT ![s].at = x] /\ x \in {"out", "type", "send", "gone", "failed"}
      BY DEF SendText
  <2>2. x \in {"gone", "type"} /\ (x = "type" => k # LastMsg)
      OBVIOUS
  <2> HIDE DEF x
  <2>3. /\ sender' \in [Senders -> [at : {"out", "type", "send", "gone", "failed"}, id : 0..2, n : 0..LastMsg]]
        /\ sender'[s].at = x /\ sender'[s].id = sender[s].id /\ sender'[s].n = sender[s].n
        /\ \A u \in Senders : u # s => sender'[u] = sender[u]
      BY <1>1, <2>1, SenderMoves
  <2> QED BY <2>2, <2>3
<1>5. m \in MsgTextSet /\ m.from = s /\ m.n = k
    BY <1>3 DEF MsgTextSet
<1>6. SentBy(s) = k - 1 /\ k > 0 /\ taken[s] <= k - 1
    BY <1>1, <1>2 DEF TextsTyped, SentBy
<1>7. texts' = Append(texts, m)
    BY <1>2
<1> HIDE DEF m, k
<1>8. /\ texts' \in Seq(MsgTextSet) /\ Len(texts') = Len(texts) + 1 /\ texts'[Len(texts) + 1] = m
      /\ \A i \in 1..Len(texts) : texts'[i] = texts[i]
    BY <1>1, <1>5, <1>7, AppendProperties
<1>9. \A i \in 1..Len(texts') : i \in 1..Len(texts) \/ (i = Len(texts) + 1 /\ texts'[i] = m)
    BY <1>1, <1>8
<1> DEFINE SentNext(u) == IF sender'[u].at \in {"send", "failed"} THEN sender'[u].n - 1 ELSE sender'[u].n
<1>10. SentNext(s) = k /\ \A u \in Senders : u # s => SentNext(u) = SentBy(u)
    BY <1>4 DEF SentBy
<1> HIDE DEF SentNext
<1>11. MsgPlaces'
  <2>1. Len(texts') <= MsgCap
      BY <1>1, <1>2, <1>8, MsgAssumption DEF MsgAssumption
  <2> QED BY <1>1, <1>2, <1>4, <1>8, <2>1 DEF MsgPlaces
<1>12. QueueNumbers'
  <2>1. msgQueue # 0
      BY <1>1, <1>2 DEF QueueNumbers
  <2>2. \A u \in Senders : sender'[u].id = sender[u].id /\ (sender'[u].at = "out" <=> sender[u].at = "out")
      BY <1>2, <1>4
  <2> QED BY <1>1, <1>2, <2>1, <2>2 DEF QueueNumbers
<1>k. k \in Nat /\ k <= LastMsg
    BY <1>3 DEF k
<1>13. TextsTyped'
  <2> SUFFICES ASSUME NEW u \in Senders
               PROVE  /\ sender'[u].at = "out" => sender'[u].n = 0
                      /\ sender'[u].at = "type" => sender'[u].n < LastMsg
                      /\ sender'[u].at \in {"send", "failed"} => sender'[u].n > 0
                      /\ sender'[u].at = "failed" => receiver = "gone"
                      /\ receiver \in {"out", "receive"} => taken[u] < LastMsg
                      /\ taken[u] <= SentNext(u)
      BY <1>2 DEF TextsTyped, SentBy, SentNext
  <2>1. CASE u = s
    <3>1. sender'[s].at = "type" => sender'[s].n < LastMsg
        BY <1>3, <1>4, <1>k
    <3>2. taken[s] <= SentNext(s)
        BY <1>3, <1>6, <1>10, <1>k
    <3>3. receiver \in {"out", "receive"} => taken[s] < LastMsg
        BY <1>1 DEF TextsTyped
    <3> QED BY <1>4, <2>1, <3>1, <3>2, <3>3
  <2>2. CASE u # s
      BY <1>1, <1>4, <1>10, <2>2 DEF TextsTyped
  <2> QED BY <2>1, <2>2
<1>14. TextsQueued'
  <2>1. \A i \in 1..Len(texts) : texts[i].from \in Senders /\ texts[i].n \in Nat
      BY <1>1, TextFields
  <2>2. \A i \in 1..Len(texts) : texts[i].from = s => texts[i].n < k
    <3>1. \A i \in 1..Len(texts) : texts[i].from = s => texts[i].n <= k - 1
        BY <1>1, <1>6 DEF TextsQueued
    <3> QED BY <1>k, <2>1, <3>1
  <2>3. \A u \in Senders : SentBy(u) \in Int
      BY <1>1, SenderFields
  <2>4. \A i \in 1..Len(texts) : texts[i].n <= SentNext(texts[i].from)
    <3> SUFFICES ASSUME NEW i \in 1..Len(texts) PROVE texts[i].n <= SentNext(texts[i].from)
        OBVIOUS
    <3>1. CASE texts[i].from = s
        BY <1>10, <1>k, <2>1, <2>2, <3>1
    <3>2. CASE texts[i].from # s
        BY <1>1, <1>10, <2>1, <3>2 DEF TextsQueued
    <3> QED BY <3>1, <3>2
  <2>5. \A i \in 1..Len(texts') :
            /\ sender'[texts'[i].from].id = msgQueue
            /\ taken[texts'[i].from] < texts'[i].n /\ texts'[i].n <= SentNext(texts'[i].from)
            /\ \A j \in 1..Len(texts') : i < j /\ texts'[j].from = texts'[i].from => texts'[i].n < texts'[j].n
    <3> SUFFICES ASSUME NEW i \in 1..Len(texts')
                 PROVE  /\ sender'[texts'[i].from].id = msgQueue
                        /\ taken[texts'[i].from] < texts'[i].n /\ texts'[i].n <= SentNext(texts'[i].from)
                        /\ \A j \in 1..Len(texts') : i < j /\ texts'[j].from = texts'[i].from => texts'[i].n < texts'[j].n
        OBVIOUS
    <3>1. CASE i \in 1..Len(texts)
      <4>1. texts'[i] = texts[i]
          BY <1>8, <3>1
      <4>2. sender'[texts[i].from].id = msgQueue /\ taken[texts[i].from] < texts[i].n
        <5>1. sender[texts[i].from].id = msgQueue /\ taken[texts[i].from] < texts[i].n
            BY <1>1, <3>1 DEF TextsQueued
        <5> QED BY <1>2, <1>4, <2>1, <3>1, <5>1
      <4>3. \A j \in 1..Len(texts') : i < j /\ texts'[j].from = texts[i].from => texts[i].n < texts'[j].n
        <5> SUFFICES ASSUME NEW j \in 1..Len(texts'), i < j, texts'[j].from = texts[i].from PROVE texts[i].n < texts'[j].n
            OBVIOUS
        <5>1. CASE j \in 1..Len(texts)
            BY <1>1, <1>8, <3>1, <5>1 DEF TextsQueued
        <5>2. CASE texts'[j] = m
            BY <1>5, <2>2, <3>1, <5>2
        <5> QED BY <1>9, <5>1, <5>2
      <4> QED BY <2>4, <3>1, <4>1, <4>2, <4>3
    <3>2. CASE i = Len(texts) + 1 /\ texts'[i] = m
      <4>1. \A j \in 1..Len(texts') : ~(i < j)
          BY <1>1, <1>8, <3>2
      <4>2. taken[s] < k
          BY <1>3, <1>6, <1>k
      <4>3. sender'[s].id = msgQueue
          BY <1>2, <1>4
      <4>4. k <= SentNext(s)
          BY <1>10, <1>k
      <4> QED BY <1>5, <3>2, <4>1, <4>2, <4>3, <4>4
    <3> QED BY <1>9, <3>1, <3>2
  <2>6. ASSUME NEW u \in Senders, sender'[u].id = msgQueue, NEW n \in Nat, taken[u] < n, n <= SentNext(u)
        PROVE  \E i \in 1..Len(texts') : texts'[i].from = u /\ texts'[i].n = n
    <3>0. Len(texts) \in Nat
        BY <1>1
    <3>1. CASE u = s /\ n = k
      <4>1. Len(texts) + 1 \in 1..Len(texts')
          BY <1>8, <3>0
      <4> QED BY <1>5, <1>8, <3>1, <4>1
    <3>2. CASE ~(u = s /\ n = k)
      <4>1. sender[u].id = msgQueue /\ n <= SentBy(u)
        <5>1. CASE u = s
          <6>1. n <= k /\ n # k
              BY <1>10, <2>6, <3>2, <5>1
          <6> QED BY <1>2, <1>6, <1>k, <5>1, <6>1
        <5>2. CASE u # s
            BY <1>4, <1>10, <2>6, <5>2
        <5> QED BY <5>1, <5>2
      <4>2. PICK i \in 1..Len(texts) : texts[i].from = u /\ texts[i].n = n
          BY <1>1, <2>6, <4>1 DEF TextsQueued
      <4>3. i \in 1..Len(texts') /\ texts'[i] = texts[i]
          BY <1>8, <3>0
      <4> QED BY <4>2, <4>3
    <3> QED BY <3>1, <3>2
  <2>7. \A u \in Senders : sender'[u].id = msgQueue =>
            \A n \in Nat : taken[u] < n /\ n <= SentNext(u) => \E i \in 1..Len(texts') : texts'[i].from = u /\ texts'[i].n = n
      BY <2>6
  <2>8. msgQueue' = msgQueue /\ taken' = taken
      BY <1>2
  <2> QED BY <2>5, <2>7, <2>8 DEF TextsQueued, SentBy, SentNext
<1> QED BY <1>11, <1>12, <1>13, <1>14 DEF MsgInv

LEMMA MsgStep == MsgInv /\ [MsgNext]_msgVars => MsgInv'
<1> SUFFICES ASSUME MsgInv, [MsgNext]_msgVars PROVE MsgInv'
    OBVIOUS
<1>1. CASE UNCHANGED msgVars
  <2>1. MsgPlaces /\ QueueNumbers /\ TextsTyped /\ TextsQueued
      BY DEF MsgInv
  <2>2. /\ msgQueue' = msgQueue /\ queues' = queues /\ texts' = texts /\ receiver' = receiver /\ msgid' = msgid
        /\ sender' = sender /\ taken' = taken
      BY <1>1 DEF msgVars
  <2>3. \A u \in Senders : SentBy(u)' = SentBy(u)
      BY <2>2 DEF SentBy
  <2>4. TextsQueued'
      BY <2>1, <2>2, <2>3, TextsKept
  <2>5. MsgPlaces' /\ QueueNumbers'
      BY <2>1, <2>2 DEF MsgPlaces, QueueNumbers
  <2>6. TextsTyped'
      BY <2>1, <2>2 DEF TextsTyped, SentBy
  <2> QED BY <2>4, <2>5, <2>6 DEF MsgInv
<1> QED BY <1>1, ReceiverBegins, ReceiverTakes, ReceiverRemoves, SenderBegins, SenderTypesOrFails, SenderSends
        DEF MsgNext, ReceiverRuns, SenderRuns

-----------------------------------------------------------------------------
(* fifo3.c, fifo4.c: while no producer comes between a consumer's last read   *)
(* and its close, whoever writes has a reader, so nothing is thrown away      *)

BytePlaces ==
    /\ named \in BOOLEAN /\ blocks \in 0..FifoCap /\ late \in BOOLEAN
    /\ writer \in [Producers -> {"access", "mkfifo", "open", "write", "gone", "failed", "sigpipe"}]
    /\ taker \in [Consumers -> {"out", "open", "read", "close", "gone", "failed"}]
    /\ bytes_sent \in [Producers -> 0..TenMeg] /\ bytes_read \in [Consumers -> Nat]

WhoNamed ==
    /\ (\E p \in Producers : writer[p] = "failed") => named
    /\ named <=> \E p \in Producers : writer[p] \notin {"access", "mkfifo", "failed"}

BytesCounted ==
    /\ IsFiniteSet(BlocksOf(bytes_sent)) /\ IsFiniteSet(BlocksOf(bytes_read))
    /\ ~late => Total(bytes_sent) = Total(bytes_read) + blocks

EndsMeet ==
    ~late => /\ WriteEnds # {} => ReadEnds # {} /\ \A c \in Consumers : taker[c] # "close"
             /\ WriteEnds = {} /\ ReadEnds = {} => blocks = 0
             /\ (\E c \in Consumers : taker[c] = "close") => blocks = 0
             /\ \A p \in Producers : writer[p] # "sigpipe"

BytesInv == BytePlaces /\ WhoNamed /\ BytesCounted /\ EndsMeet

LEMMA BytesTyped == BytesInv => FifoBytesTypes /\ BytesArrive
<1> SUFFICES ASSUME BytesInv
             PROVE  FifoBytesTypes /\ BytesArrive
    OBVIOUS
<1>1. FifoBytesTypes
    BY DEF BytesInv, BytePlaces, FifoBytesTypes
<1>2. ~late => /\ Total(bytes_sent) = Total(bytes_read) + blocks
               /\ \A p \in Producers : writer[p] # "sigpipe"
               /\ (\E c \in Consumers : taker[c] = "close") => blocks = 0
    BY DEF BytesInv, BytesCounted, EndsMeet
<1>3. WhoNamed
    BY DEF BytesInv
<1> QED BY <1>1, <1>2, <1>3 DEF BytesArrive, WhoNamed

LEMMA BytesInitial == FifoBytesInit => BytesInv
<1> SUFFICES ASSUME FifoBytesInit
             PROVE  BytesInv
    OBVIOUS
<1>1. BytePlaces
  <2>1. 0 \in 0..TenMeg /\ 0 \in 0..FifoCap
      BY BytesAssumption DEF BytesAssumption
  <2>2. writer \in [Producers -> {"access", "mkfifo", "open", "write", "gone", "failed", "sigpipe"}]
      BY DEF FifoBytesInit
  <2>3. taker \in [Consumers -> {"out", "open", "read", "close", "gone", "failed"}]
      BY DEF FifoBytesInit
  <2>4. bytes_sent \in [Producers -> 0..TenMeg] /\ bytes_read \in [Consumers -> Nat]
      BY <2>1 DEF FifoBytesInit
  <2>5. named \in BOOLEAN /\ late \in BOOLEAN /\ blocks \in 0..FifoCap
      BY <2>1 DEF FifoBytesInit
  <2> QED BY <2>2, <2>3, <2>4, <2>5 DEF BytePlaces
<1>2. WhoNamed
    BY DEF FifoBytesInit, WhoNamed
<1>3. \A S : BlocksOf([p \in S |-> 0]) = {}
  <2>1. 1..0 = {}
      OBVIOUS
  <2> QED BY <2>1 DEF BlocksOf
<1>4. BlocksOf(bytes_sent) = {} /\ BlocksOf(bytes_read) = {}
    BY <1>3 DEF FifoBytesInit
<1>5. BytesCounted
    BY <1>4, FS_EmptySet DEF FifoBytesInit, BytesCounted, Total
<1>6. EndsMeet
    BY DEF FifoBytesInit, EndsMeet, WriteEnds, ReadEnds
<1> QED BY <1>1, <1>2, <1>5, <1>6 DEF BytesInv

LEMMA OneBlockMore ==
    ASSUME NEW S, NEW f \in [S -> Nat], NEW p \in S, IsFiniteSet(BlocksOf(f))
    PROVE  /\ IsFiniteSet(BlocksOf([f EXCEPT ![p] = @ + 1]))
           /\ Total([f EXCEPT ![p] = @ + 1]) = Total(f) + 1
           /\ Total(f) \in Nat
<1> DEFINE g == [f EXCEPT ![p] = @ + 1]
<1>1. g \in [S -> Nat] /\ g[p] = f[p] + 1 /\ \A q \in S : q # p => g[q] = f[q]
    OBVIOUS
<1>2. \A q \in S, n \in Nat : <<q, n>> \in BlocksOf(f) <=> n \in 1..f[q]
    BY DEF BlocksOf
<1>3. <<p, f[p] + 1>> \notin BlocksOf(f)
  <2>1. f[p] \in Nat
      OBVIOUS
  <2> QED BY <1>2, <2>1
<1>4. 1..g[p] = (1..f[p]) \cup {f[p] + 1}
  <2>1. f[p] \in Nat
      OBVIOUS
  <2> QED BY <1>1, <2>1
<1>5. BlocksOf(g) = BlocksOf(f) \cup {<<p, f[p] + 1>>}
  <2>1. ASSUME NEW x
        PROVE  x \in BlocksOf(g) <=> \E q \in S : x \in {q} \X (1..g[q])
      BY <1>1 DEF BlocksOf
  <2>2. ASSUME NEW x
        PROVE  x \in BlocksOf(f) <=> \E q \in S : x \in {q} \X (1..f[q])
      BY DEF BlocksOf
  <2>3. ASSUME NEW x
        PROVE  x \in {p} \X (1..g[p]) <=> x \in {p} \X (1..f[p]) \/ x = <<p, f[p] + 1>>
      BY <1>4
  <2>4. ASSUME NEW x
        PROVE  x \in BlocksOf(g) <=> x \in BlocksOf(f) \/ x = <<p, f[p] + 1>>
      BY <1>1, <2>1, <2>2, <2>3
  <2> QED BY <2>4
<1>6. Cardinality(BlocksOf(f)) \in Nat
    BY FS_CardinalityType
<1> HIDE DEF g
<1>7. IsFiniteSet(BlocksOf(g)) /\ Cardinality(BlocksOf(g)) = Cardinality(BlocksOf(f)) + 1
    BY <1>3, <1>5, FS_AddElement
<1> QED BY <1>6, <1>7 DEF Total, g

\* who writes and who can read, at a state and after a step
LEMMA EndsUnchanged ==
    /\ writer' = writer => WriteEnds' = WriteEnds
    /\ taker' = taker => ReadEnds' = ReadEnds
BY DEF WriteEnds, ReadEnds

\* fifo3.c before it has the FIFO open
LEMMA ProducerFinds == ASSUME BytesInv, NEW p \in Producers, Look(p) \/ MakeNamed(p) PROVE BytesInv'
<1> USE DEF BytesInv
<1>1. /\ blocks' = blocks /\ bytes_sent' = bytes_sent /\ taker' = taker /\ bytes_read' = bytes_read
      /\ late' = late
    BY DEF Look, MakeNamed
<1>2. \/ /\ writer[p] = "access" /\ named' = named
         /\ writer' = [writer EXCEPT ![p] = IF named THEN "open" ELSE "mkfifo"]
      \/ /\ writer[p] = "mkfifo" /\ named' = TRUE
         /\ writer' = [writer EXCEPT ![p] = IF named THEN "failed" ELSE "open"]
    BY DEF Look, MakeNamed
<1>3. /\ writer' \in [Producers -> {"access", "mkfifo", "open", "write", "gone", "failed", "sigpipe"}]
      /\ \A q \in Producers : q # p => writer'[q] = writer[q]
      /\ writer[p] \in {"access", "mkfifo"} /\ writer'[p] \in {"open", "mkfifo", "failed"}
    BY <1>2 DEF BytePlaces
<1>4. BytePlaces'
  <2>1. named' \in BOOLEAN
      BY <1>2 DEF BytePlaces
  <2> QED BY <1>1, <1>3, <2>1 DEF BytePlaces
<1>5. WhoNamed'
  <2>1. CASE named
    <3>1. named' = TRUE /\ writer'[p] \in {"open", "failed"}
        BY <1>2, <2>1 DEF BytePlaces
    <3>2. PICK q \in Producers : writer[q] \notin {"access", "mkfifo", "failed"}
        BY <2>1 DEF WhoNamed
    <3>3. q # p /\ writer'[q] = writer[q]
        BY <1>3, <3>2
    <3> QED BY <3>1, <3>2, <3>3 DEF WhoNamed
  <2>2. CASE ~named
    <3>1. \A q \in Producers : writer[q] \in {"access", "mkfifo"}
        BY <2>2 DEF WhoNamed
    <3>2. \/ writer'[p] = "mkfifo" /\ ~named'
          \/ writer'[p] = "open" /\ named'
        BY <1>2, <2>2 DEF BytePlaces
    <3> QED BY <1>3, <3>1, <3>2 DEF WhoNamed
  <2> QED BY <2>1, <2>2
<1>6. BytesCounted'
    BY <1>1 DEF BytesCounted, Total, BlocksOf
<1>7. WriteEnds' = WriteEnds /\ ReadEnds' = ReadEnds
  <2>1. \A q \in Producers : writer'[q] = "write" <=> writer[q] = "write"
      BY <1>3
  <2> QED BY <1>1, <2>1 DEF WriteEnds, ReadEnds
<1>8. EndsMeet'
  <2>1. \A q \in Producers : writer'[q] = "sigpipe" => writer[q] = "sigpipe"
      BY <1>3
  <2> QED BY <1>1, <1>7, <2>1 DEF EndsMeet
<1> QED BY <1>4, <1>5, <1>6, <1>8

\* a step of a producer that is past its open keeps WhoNamed
LEMMA StillNamed ==
    ASSUME BytePlaces, WhoNamed, NEW p \in Producers, NEW x \in {"write", "gone", "sigpipe"},
           writer[p] \in {"open", "write"}, writer' = [writer EXCEPT ![p] = x], named' = named
    PROVE  /\ writer' \in [Producers -> {"access", "mkfifo", "open", "write", "gone", "failed", "sigpipe"}]
           /\ writer'[p] = x /\ \A q \in Producers : q # p => writer'[q] = writer[q]
           /\ WhoNamed'
<1>1. /\ writer' \in [Producers -> {"access", "mkfifo", "open", "write", "gone", "failed", "sigpipe"}]
      /\ writer'[p] = x /\ \A q \in Producers : q # p => writer'[q] = writer[q]
    BY DEF BytePlaces
<1>2. named
    BY DEF WhoNamed
<1> QED BY <1>1, <1>2 DEF WhoNamed

LEMMA ProducerOpens == ASSUME BytesInv, NEW p \in Producers, OpenToWrite(p) PROVE BytesInv'
<1> USE DEF BytesInv
<1>1. /\ writer[p] = "open" /\ writer' = [writer EXCEPT ![p] = "write"]
      /\ named' = named /\ blocks' = blocks /\ bytes_sent' = bytes_sent /\ bytes_read' = bytes_read
    BY DEF OpenToWrite
<1>2. late' <=> (late \/ \E c \in Consumers : taker[c] = "close")
    BY DEF OpenToWrite
<1>3. PICK woken \in SUBSET {c \in Consumers : taker[c] = "open"} :
         /\ woken # {} \/ ReadEnds # {}
         /\ taker' = [c \in Consumers |-> IF c \in woken THEN "read" ELSE taker[c]]
    BY DEF OpenToWrite
<1>4. /\ \A c \in Consumers : taker'[c] = taker[c] \/ (c \in woken /\ taker'[c] = "read")
      /\ \A c \in Consumers : c \in woken => taker'[c] = "read"
      /\ taker' \in [Consumers -> {"out", "open", "read", "close", "gone", "failed"}]
    BY <1>3 DEF BytePlaces
<1>5. /\ writer' \in [Producers -> {"access", "mkfifo", "open", "write", "gone", "failed", "sigpipe"}]
      /\ writer'[p] = "write" /\ \A q \in Producers : q # p => writer'[q] = writer[q]
      /\ WhoNamed'
    BY <1>1, StillNamed
<1>6. BytePlaces'
  <2>1. late' \in BOOLEAN
      BY DEF OpenToWrite, BytePlaces
  <2> QED BY <1>1, <1>4, <1>5, <2>1 DEF BytePlaces
<1>7. BytesCounted'
    BY <1>1, <1>2 DEF BytesCounted, Total, BlocksOf
<1>8. EndsMeet'
  <2> SUFFICES ASSUME ~late'
               PROVE  EndsMeet'
      BY DEF EndsMeet
  <2>1. ~late /\ \A c \in Consumers : taker[c] # "close"
      BY <1>2
  <2>2. \A c \in Consumers : taker'[c] # "close"
      BY <1>4, <2>1
  <2>3. PICK c \in Consumers : taker'[c] = "read"
    <3>1. CASE woken # {}
        BY <1>4, <3>1
    <3>2. CASE ReadEnds # {}
      <4>1. PICK d \in Consumers : taker[d] \in {"read", "close"}
          BY <3>2 DEF ReadEnds
      <4>2. taker[d] = "read"
          BY <2>1, <4>1
      <4> QED BY <1>4, <4>2
    <3> QED BY <1>3, <3>1, <3>2
  <2>4. ReadEnds' # {}
      BY <2>3 DEF ReadEnds
  <2>5. \A q \in Producers : writer'[q] # "sigpipe"
      BY <1>5, <2>1 DEF EndsMeet
  <2> QED BY <2>2, <2>4, <2>5 DEF EndsMeet
<1> QED BY <1>5, <1>6, <1>7, <1>8

LEMMA ProducerWrites == ASSUME BytesInv, NEW p \in Producers, WriteBlock(p) PROVE BytesInv'
<1> USE DEF BytesInv
<1>1. /\ writer[p] = "write" /\ bytes_sent[p] < TenMeg
      /\ named' = named /\ taker' = taker /\ bytes_read' = bytes_read
    BY DEF WriteBlock
<1>2. late' = late
    BY DEF WriteBlock
<1>3. ReadEnds' = ReadEnds
    BY <1>1, EndsUnchanged
<1>4. p \in WriteEnds
    BY <1>1 DEF WriteEnds
<1>5. CASE ReadEnds = {}
  <2>1. writer' = [writer EXCEPT ![p] = "sigpipe"] /\ blocks' = Rest(blocks) /\ bytes_sent' = bytes_sent
      BY <1>5 DEF WriteBlock
  <2>2. late
      BY <1>4, <1>5 DEF EndsMeet
  <2>3. /\ writer' \in [Producers -> {"access", "mkfifo", "open", "write", "gone", "failed", "sigpipe"}]
        /\ WhoNamed'
      BY <1>1, <2>1, StillNamed
  <2>4. blocks' \in 0..FifoCap
      BY <2>1, BytesAssumption DEF Rest, BytePlaces, BytesAssumption
  <2>5. BytePlaces'
      BY <1>1, <1>2, <2>1, <2>3, <2>4 DEF BytePlaces
  <2>6. BytesCounted'
      BY <1>1, <1>2, <2>1, <2>2 DEF BytesCounted, BlocksOf
  <2>7. EndsMeet'
      BY <1>2, <2>2 DEF EndsMeet
  <2> QED BY <2>3, <2>5, <2>6, <2>7
<1>6. CASE ReadEnds # {}
  <2>1. /\ blocks < FifoCap /\ blocks' = blocks + 1
        /\ bytes_sent' = [bytes_sent EXCEPT ![p] = @ + 1] /\ writer' = writer
      BY <1>6 DEF WriteBlock
  <2>2. WriteEnds' = WriteEnds
      BY <2>1, EndsUnchanged
  <2>3. blocks' \in 0..FifoCap
      BY <2>1, BytesAssumption DEF BytePlaces, BytesAssumption
  <2>4. bytes_sent \in [Producers -> 0..TenMeg] /\ bytes_sent \in [Producers -> Nat]
      BY BytesAssumption DEF BytePlaces, BytesAssumption
  <2>5. bytes_sent[p] + 1 \in 0..TenMeg
      BY <1>1, <2>4, BytesAssumption DEF BytesAssumption
  <2>6. bytes_sent' \in [Producers -> 0..TenMeg]
      BY <2>1, <2>4, <2>5
  <2>7. BytePlaces'
      BY <1>1, <1>2, <2>1, <2>3, <2>6 DEF BytePlaces
  <2>8. WhoNamed'
      BY <1>1, <2>1 DEF WhoNamed
  <2>9. /\ IsFiniteSet(BlocksOf([bytes_sent EXCEPT ![p] = @ + 1]))
        /\ Total([bytes_sent EXCEPT ![p] = @ + 1]) = Total(bytes_sent) + 1
        /\ Total(bytes_sent) \in Nat
      BY <2>4, OneBlockMore DEF BytesCounted
  <2>10. ~late => Total(bytes_sent)' = Total(bytes_read)' + blocks'
    <3>1. Total(bytes_sent)' = Total(bytes_sent) + 1 /\ Total(bytes_read)' = Total(bytes_read)
        BY <1>1, <2>1, <2>9 DEF Total, BlocksOf
    <3>2. Total(bytes_read) \in Nat /\ blocks \in Nat
      <4>1. Total(bytes_read) \in Nat
          BY FS_CardinalityType DEF BytesCounted, Total
      <4> QED BY <4>1, BytesAssumption DEF BytePlaces, BytesAssumption
    <3>3. ~late => Total(bytes_sent) = Total(bytes_read) + blocks
        BY DEF BytesCounted
    <3> QED BY <2>1, <2>9, <3>1, <3>2, <3>3
  <2>11. IsFiniteSet(BlocksOf(bytes_sent)') /\ IsFiniteSet(BlocksOf(bytes_read)')
      BY <1>1, <2>1, <2>9 DEF BytesCounted, BlocksOf
  <2>12. BytesCounted'
      BY <1>2, <2>10, <2>11 DEF BytesCounted
  <2>13. EndsMeet'
      BY <1>1, <1>2, <1>3, <1>4, <1>6, <2>1, <2>2 DEF EndsMeet
  <2> QED BY <2>7, <2>8, <2>12, <2>13
<1> QED BY <1>5, <1>6

LEMMA ProducerCloses == ASSUME BytesInv, NEW p \in Producers, CloseWriter(p) PROVE BytesInv'
<1> USE DEF BytesInv
<1>1. /\ writer[p] = "write" /\ writer' = [writer EXCEPT ![p] = "gone"] /\ blocks' = Rest(blocks)
      /\ named' = named /\ bytes_sent' = bytes_sent /\ taker' = taker /\ bytes_read' = bytes_read
    BY DEF CloseWriter
<1>2. late' = late
    BY DEF CloseWriter
<1>3. p \in WriteEnds
    BY <1>1 DEF WriteEnds
<1>4. ReadEnds' = ReadEnds
    BY <1>1, EndsUnchanged
<1>5. /\ writer' \in [Producers -> {"access", "mkfifo", "open", "write", "gone", "failed", "sigpipe"}]
      /\ writer'[p] = "gone" /\ \A q \in Producers : q # p => writer'[q] = writer[q]
      /\ WhoNamed'
    BY <1>1, StillNamed
<1>6. blocks' \in 0..FifoCap
    BY <1>1, BytesAssumption DEF Rest, BytePlaces, BytesAssumption
<1>7. BytePlaces'
    BY <1>1, <1>2, <1>5, <1>6 DEF BytePlaces
<1>8. ~late => blocks' = blocks /\ ReadEnds # {} /\ \A c \in Consumers : taker[c] # "close"
    BY <1>1, <1>3, <1>4 DEF EndsMeet, Rest
<1>9. BytesCounted'
    BY <1>1, <1>2, <1>8 DEF BytesCounted, Total, BlocksOf
<1>10. EndsMeet'
    BY <1>1, <1>2, <1>4, <1>5, <1>8 DEF EndsMeet
<1> QED BY <1>5, <1>7, <1>9, <1>10

\* fifo4.c before it has the FIFO open, or as it opens it
LEMMA TakerFinds == ASSUME BytesInv, NEW c \in Consumers, BeginTaker(c) \/ OpenToRead(c) PROVE BytesInv'
<1> USE DEF BytesInv
<1>1. /\ named' = named /\ blocks' = blocks /\ writer' = writer /\ bytes_sent' = bytes_sent
      /\ bytes_read' = bytes_read
    BY DEF BeginTaker, OpenToRead
<1>2. late' = late
    BY DEF BeginTaker, OpenToRead
<1>3. /\ taker' \in [Consumers -> {"out", "open", "read", "close", "gone", "failed"}]
      /\ \A d \in Consumers : d # c => taker'[d] = taker[d]
      /\ taker[c] \in {"out", "open"} /\ taker'[c] \in {"open", "failed", "read"}
      /\ taker'[c] = "read" => WriteEnds # {}
    BY DEF BeginTaker, OpenToRead, BytePlaces, WriteEnds
<1>4. BytePlaces' /\ WhoNamed' /\ BytesCounted'
  <2>1. BytePlaces'
      BY <1>1, <1>2, <1>3 DEF BytePlaces
  <2>2. WhoNamed'
      BY <1>1 DEF WhoNamed
  <2>3. BytesCounted'
      BY <1>1, <1>2 DEF BytesCounted, Total, BlocksOf
  <2> QED BY <2>1, <2>2, <2>3
<1>5. WriteEnds' = WriteEnds
    BY <1>1, EndsUnchanged
<1>6. ReadEnds \subseteq ReadEnds' /\ \A d \in Consumers : taker'[d] = "close" => taker[d] = "close"
    BY <1>3 DEF ReadEnds
<1>7. EndsMeet'
    BY <1>1, <1>2, <1>5, <1>6 DEF EndsMeet
<1> QED BY <1>4, <1>7

LEMMA TakerReads == ASSUME BytesInv, NEW c \in Consumers, ReadBlock(c) PROVE BytesInv'
<1> USE DEF BytesInv
<1>1. taker[c] = "read" /\ named' = named /\ writer' = writer /\ bytes_sent' = bytes_sent
    BY DEF ReadBlock
<1>2. late' = late
    BY DEF ReadBlock
<1>3. WriteEnds' = WriteEnds
    BY <1>1, EndsUnchanged
<1>4. WhoNamed'
    BY <1>1 DEF WhoNamed
<1>5. blocks \in Nat
    BY BytesAssumption DEF BytePlaces, BytesAssumption
<1>6. CASE blocks > 0 /\ blocks' = blocks - 1 /\ taker' = taker /\ bytes_read' = [bytes_read EXCEPT ![c] = @ + 1]
  <2>1. bytes_read \in [Consumers -> Nat] /\ bytes_read' \in [Consumers -> Nat]
      BY <1>6 DEF BytePlaces
  <2>2. blocks' \in 0..FifoCap
      BY <1>6, BytesAssumption DEF BytePlaces, BytesAssumption
  <2>3. BytePlaces'
      BY <1>1, <1>2, <1>6, <2>1, <2>2 DEF BytePlaces
  <2>4. /\ IsFiniteSet(BlocksOf([bytes_read EXCEPT ![c] = @ + 1]))
        /\ Total([bytes_read EXCEPT ![c] = @ + 1]) = Total(bytes_read) + 1
        /\ Total(bytes_read) \in Nat
      BY <2>1, OneBlockMore DEF BytesCounted
  <2>5. ~late => Total(bytes_sent)' = Total(bytes_read)' + blocks'
    <3>1. Total(bytes_read)' = Total(bytes_read) + 1 /\ Total(bytes_sent)' = Total(bytes_sent)
        BY <1>1, <1>6, <2>4 DEF Total, BlocksOf
    <3>2. ~late => Total(bytes_sent) = Total(bytes_read) + blocks
        BY DEF BytesCounted
    <3> QED BY <1>5, <1>6, <2>4, <3>1, <3>2
  <2>6. IsFiniteSet(BlocksOf(bytes_sent)') /\ IsFiniteSet(BlocksOf(bytes_read)')
      BY <1>1, <1>6, <2>4 DEF BytesCounted, BlocksOf
  <2>7. BytesCounted'
      BY <1>2, <2>5, <2>6 DEF BytesCounted
  <2>8. ReadEnds' = ReadEnds
      BY <1>6, EndsUnchanged
  <2>9. ReadEnds # {}
      BY <1>1 DEF ReadEnds
  <2>10. ~late => \A d \in Consumers : taker[d] # "close"
      BY <1>6 DEF EndsMeet
  <2>11. EndsMeet'
      BY <1>1, <1>2, <1>3, <1>6, <2>8, <2>9, <2>10 DEF EndsMeet
  <2> QED BY <1>4, <2>3, <2>7, <2>11
<1>7. CASE blocks = 0 /\ WriteEnds = {} /\ taker' = [taker EXCEPT ![c] = "close"]
           /\ blocks' = blocks /\ bytes_read' = bytes_read
  <2>1. taker' \in [Consumers -> {"out", "open", "read", "close", "gone", "failed"}]
      BY <1>7 DEF BytePlaces
  <2>2. BytePlaces'
      BY <1>1, <1>2, <1>7, <2>1 DEF BytePlaces
  <2>3. BytesCounted'
      BY <1>1, <1>2, <1>7 DEF BytesCounted, Total, BlocksOf
  <2>4. EndsMeet'
      BY <1>1, <1>2, <1>3, <1>7 DEF EndsMeet
  <2> QED BY <1>4, <2>2, <2>3, <2>4
<1> QED BY <1>6, <1>7 DEF ReadBlock

LEMMA TakerCloses == ASSUME BytesInv, NEW c \in Consumers, CloseTaker(c) PROVE BytesInv'
<1> USE DEF BytesInv
<1>1. /\ taker[c] = "close" /\ taker' = [taker EXCEPT ![c] = "gone"] /\ blocks' = Rest(blocks)
      /\ named' = named /\ writer' = writer /\ bytes_sent' = bytes_sent /\ bytes_read' = bytes_read
    BY DEF CloseTaker
<1>2. late' = late
    BY DEF CloseTaker
<1>3. WriteEnds' = WriteEnds
    BY <1>1, EndsUnchanged
<1>4. /\ taker' \in [Consumers -> {"out", "open", "read", "close", "gone", "failed"}]
      /\ \A d \in Consumers : taker'[d] = "close" => taker[d] = "close"
    BY <1>1 DEF BytePlaces
<1>5. blocks' \in 0..FifoCap
    BY <1>1, BytesAssumption DEF Rest, BytePlaces, BytesAssumption
<1>6. BytePlaces'
    BY <1>1, <1>2, <1>4, <1>5 DEF BytePlaces
<1>7. WhoNamed'
    BY <1>1 DEF WhoNamed
<1>8. ~late => blocks = 0 /\ blocks' = blocks /\ WriteEnds = {}
    BY <1>1 DEF EndsMeet, Rest
<1>9. BytesCounted'
    BY <1>1, <1>2, <1>8 DEF BytesCounted, Total, BlocksOf
<1>10. EndsMeet'
    BY <1>1, <1>2, <1>3, <1>8 DEF EndsMeet
<1> QED BY <1>6, <1>7, <1>9, <1>10

LEMMA BytesStep == BytesInv /\ [FifoBytesNext]_fifoBytesVars => BytesInv'
<1> SUFFICES ASSUME BytesInv, [FifoBytesNext]_fifoBytesVars
             PROVE  BytesInv'
    OBVIOUS
<1>1. CASE FifoBytesNext
  <2>1. ASSUME NEW p \in Producers, ProducerSteps(p)
        PROVE  BytesInv'
      BY <2>1, ProducerFinds, ProducerOpens, ProducerWrites, ProducerCloses DEF ProducerSteps
  <2>2. ASSUME NEW c \in Consumers, BeginTaker(c) \/ TakerSteps(c)
        PROVE  BytesInv'
      BY <2>2, TakerFinds, TakerReads, TakerCloses DEF TakerSteps
  <2> QED BY <1>1, <2>1, <2>2 DEF FifoBytesNext
<1>2. CASE UNCHANGED fifoBytesVars
  <2>1. /\ named' = named /\ blocks' = blocks /\ writer' = writer /\ bytes_sent' = bytes_sent
        /\ taker' = taker /\ bytes_read' = bytes_read /\ late' = late
      BY <1>2 DEF fifoBytesVars
  <2>2. WriteEnds' = WriteEnds /\ ReadEnds' = ReadEnds
      BY <2>1, EndsUnchanged
  <2>3. BytePlaces'
      BY <2>1 DEF BytesInv, BytePlaces
  <2>4. WhoNamed'
      BY <2>1 DEF BytesInv, WhoNamed
  <2>5. BytesCounted'
      BY <2>1 DEF BytesInv, BytesCounted, Total, BlocksOf
  <2>6. EndsMeet'
      BY <2>1, <2>2 DEF BytesInv, EndsMeet
  <2> QED BY <2>3, <2>4, <2>5, <2>6 DEF BytesInv
<1> QED BY <1>1, <1>2

LEMMA TurnTyped == TurnInv => TurnTypes /\ TurnsAlternate
BY DEF TurnInv

-----------------------------------------------------------------------------
(* The programs together *)

ProgramsInv ==
    /\ SemInv /\ LocksInv /\ DiskInv /\ MapInv /\ MenuInv
    /\ TurnInv /\ WorkInv /\ ThreadsInv /\ ShmInv
    /\ FifoInv /\ MutexInv /\ SelectInv /\ MsgInv /\ BytesInv

\* a step of the programs is one of each program, or leaves it alone
LEMMA OneRuns ==
    [Next]_vars =>
        /\ [SemNext]_semVars /\ [LocksNext]_lockVars /\ [RadimoNext]_diskVars
        /\ [IomapNext]_mapVars /\ [MenuNext]_menuVars /\ [TurnNext]_turnVars
        /\ [SemWorkNext]_semWorkVars /\ [ThreadsNext]_threadVars /\ [ShmNext]_shmVars
        /\ [FifoNext]_fifoVars /\ [MutexNext]_mutexVars /\ [SelectNext]_selectVars
        /\ [MsgNext]_msgVars /\ [FifoBytesNext]_fifoBytesVars
<1> SUFFICES ASSUME [Next]_vars
             PROVE  /\ [SemNext]_semVars /\ [LocksNext]_lockVars /\ [RadimoNext]_diskVars
                    /\ [IomapNext]_mapVars /\ [MenuNext]_menuVars /\ [TurnNext]_turnVars
                    /\ [SemWorkNext]_semWorkVars /\ [ThreadsNext]_threadVars /\ [ShmNext]_shmVars
                    /\ [FifoNext]_fifoVars /\ [MutexNext]_mutexVars /\ [SelectNext]_selectVars
                    /\ [MsgNext]_msgVars /\ [FifoBytesNext]_fifoBytesVars
    OBVIOUS
<1>1. CASE UNCHANGED vars
    BY <1>1 DEF vars
<1>2. CASE Next
  <2>1. \/ Of("sem") /\ SemNext
        \/ Of("locks") /\ LocksNext
        \/ Of("radimo") /\ RadimoNext
        \/ Of("iomap") /\ IomapNext
        \/ Of("menu") /\ MenuNext
        \/ Of("turns") /\ TurnNext
        \/ Of("semWork") /\ SemWorkNext
        \/ Of("threads") /\ ThreadsNext
        \/ Of("shm") /\ ShmNext
        \/ Of("fifo") /\ FifoNext
        \/ Of("mutex") /\ MutexNext
        \/ Of("select") /\ SelectNext
        \/ Of("msg") /\ MsgNext
        \/ Of("bytes") /\ FifoBytesNext
      BY <1>2 DEF Next
  <2>2. ASSUME NEW name, Of(name)
        PROVE  /\ name = "sem" \/ UNCHANGED semVars
               /\ name = "locks" \/ UNCHANGED lockVars
               /\ name = "radimo" \/ UNCHANGED diskVars
               /\ name = "iomap" \/ UNCHANGED mapVars
               /\ name = "menu" \/ UNCHANGED menuVars
               /\ name = "turns" \/ UNCHANGED turnVars
               /\ name = "semWork" \/ UNCHANGED semWorkVars
               /\ name = "threads" \/ UNCHANGED threadVars
               /\ name = "shm" \/ UNCHANGED shmVars
               /\ name = "fifo" \/ UNCHANGED fifoVars
               /\ name = "mutex" \/ UNCHANGED mutexVars
               /\ name = "select" \/ UNCHANGED selectVars
               /\ name = "msg" \/ UNCHANGED msgVars
               /\ name = "bytes" \/ UNCHANGED fifoBytesVars
      BY <2>2 DEF Of, Still
  <2> QED BY <2>1, <2>2
<1> QED BY <1>1, <1>2

LEMMA ProgramsInitial == Init => ProgramsInv
BY SemInitial, LocksInitial, DiskInitial, MapInitial, MenuInitial, TurnInitial,
   WorkInitial, ThreadsInitial, ShmInitial, FifoInitial, MutexInitial, SelectInitial,
   MsgInitial, BytesInitial DEF Init, ProgramsInv

LEMMA ProgramsStep == ProgramsInv /\ [Next]_vars => ProgramsInv'
BY OneRuns, SemStep, LocksStep, DiskStep, MapStep, MenuStep, TurnStep,
   WorkStep, ThreadsStep, ShmStep, FifoStep, MutexStep, SelectStep, MsgStep, BytesStep DEF ProgramsInv

LEMMA ProgramsKeep == ProgramsInv => ProgramTypes /\ HandedOver /\ Protected
<1> SUFFICES ASSUME ProgramsInv
             PROVE  ProgramTypes /\ HandedOver /\ Protected
    OBVIOUS
<1>1. /\ SemTypes /\ SemExclusive /\ LocksTypes /\ LocksExclusive /\ RadimoTypes /\ DiskKeeps
      /\ IomapTypes /\ OneMapping /\ MenuTypes /\ MenuFits
    BY SemTyped, LocksTyped, DiskTyped, MapTyped, MenuTyped DEF ProgramsInv
<1>2. /\ TurnTypes /\ TurnsAlternate /\ SemWorkTypes /\ EndIsPosted /\ ThreadsTypes /\ NumbersGiven
      /\ ShmTypes /\ TextsHandedOver
    BY TurnTyped, WorkTyped, ThreadsTyped, ShmTyped DEF ProgramsInv
<1>3. /\ FifoTypes /\ AnswersInSequence /\ MutexTypes /\ LinesCounted /\ SelectTypes /\ ReadyStaysReady
      /\ MsgTypes /\ TextsAccounted /\ FifoBytesTypes /\ BytesArrive
    BY FifoTyped, MutexTyped, SelectTyped, MsgTyped, BytesTyped DEF ProgramsInv
<1> QED BY <1>1, <1>2, <1>3 DEF ProgramTypes, HandedOver, Protected

\* In every state of every program ProgramsInv holds, for every value of the constants.
THEOREM AlwaysProgramsInv == Spec => []ProgramsInv
BY ProgramsInitial, ProgramsStep, PTL DEF Spec

\* The variables of the small programs keep their types: no counter leaves its range, no queue,
\* FIFO or pad is overfilled.
THEOREM TypesKept == Spec => []ProgramTypes
BY AlwaysProgramsInv, ProgramsKeep, PTL

\* What one process hands to another, through a FIFO (client.c, fifo3.c), shared memory
\* (shm1.c), a message queue (msg1.c), a work area (thread5.c, thread4a.c), an argument
\* (thread9.c), a turn (thread3.c) or a socket (server5.c), arrives in order, once, and at the
\* right one: for any number of clients, visitors, senders, producers, texts and lines.
THEOREM ArrivesInOrder == Spec => []HandedOver
BY AlwaysProgramsInv, ProgramsKeep, PTL

\* Whatever a semaphore with SEM_UNDO (sem1.c), a lock file (lock2.c), a region lock
\* (lock3.c, lock5.c), the use count of the RAM disk (radimo.c), the busy test of iomap.c or
\* the tests before a menu and a pad (curses.c) protect stays whole: for any number of
\* processes, turns, blocks, pages, lines and tracks, and through any number of kills.
THEOREM StaysWhole == Spec => []Protected
BY AlwaysProgramsInv, ProgramsKeep, PTL
=============================================================================

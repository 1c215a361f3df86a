----------------------------- MODULE CdCatalogProof -----------------------------
(***************************************************************************)
(* Proofs about CdCatalog, for any users and names and any limit on the    *)
(* tracks: the track lists of users who keep apart have no gap but those a *)
(* killed user left, deleting a CD leaves no track, and listing shows all. *)
(***************************************************************************)
EXTENDS CdCatalog, TLAPS

-----------------------------------------------------------------------------
(* Sets of track numbers *)

TrackSets == SUBSET (Nat \ {0})

\* no gap
Gapless(S) == \A k \in S : 1..k \subseteq S

\* all tracks below m
Upto(S, m) == 1..(m - 1) \subseteq S

\* no gap below m, and none from m on: between the two, tracks were deleted
Split(S, m) == \A k \in S : /\ k < m => 1..k \subseteq S
                            /\ k >= m => m..k \subseteq S

LEMMA AddedAtEnd ==
    ASSUME NEW S \in TrackSets, NEW m \in Nat \ {0}, Gapless(S), Upto(S, m)
    PROVE  Gapless(S \cup {m}) /\ Upto(S \cup {m}, m + 1)
BY DEF TrackSets, Gapless, Upto

LEMMA OneFurther ==
    ASSUME NEW S \in TrackSets, NEW m \in Nat \ {0}, Upto(S, m), m \in S
    PROVE  Upto(S, m + 1)
BY DEF TrackSets, Upto

LEMMA NothingDeleted ==
    ASSUME NEW S \in TrackSets, NEW m \in Nat \ {0}, Gapless(S)
    PROVE  Split(S, m) /\ Upto(S, 1) /\ \A k \in S : k >= 1
BY DEF TrackSets, Gapless, Split, Upto

LEMMA OneDeleted ==
    ASSUME NEW S \in TrackSets, NEW m \in Nat \ {0}, Split(S, m), m \in S
    PROVE  /\ Split(S \ {m}, m + 1)
           /\ (\A k \in S : k >= m) => \A k \in S \ {m} : k >= m + 1
BY DEF TrackSets, Split

LEMMA AllDeleted ==
    ASSUME NEW S \in TrackSets, NEW m \in Nat \ {0}, Split(S, m), m \notin S
    PROVE  Gapless(S) /\ ((\A k \in S : k >= m) => S = {})
<1>1. \A k \in S : k \in Nat /\ k < m
    BY DEF TrackSets, Split
<1> QED BY <1>1 DEF Gapless, Split, TrackSets

LEMMA AllThere ==
    ASSUME NEW S \in TrackSets, NEW m \in Nat \ {0}, Gapless(S), Upto(S, m), m \notin S
    PROVE  S = 1..(m - 1)
<1>1. \A k \in S : k \in Nat \ {0} /\ k < m
    BY DEF TrackSets, Gapless
<1>2. S \subseteq 1..(m - 1)
    BY <1>1
<1> QED BY <1>2 DEF Upto

-----------------------------------------------------------------------------
(* The inductive invariant *)

\* A user works on names of its own.
Owns ==
    \A u \in Users : cur[u] \in NamesOf[u] \cup {None} /\ found[u] \subseteq NamesOf[u]

\* The tracks of the current entry, as far as the loop that u is in has come
LoopInv(u) ==
    /\ pc[u] \in Deleting => Split(cdt[cur[u]], t[u])
    /\ pc[u] = "delTracks" => \A k \in cdt[cur[u]] : k >= t[u]
    /\ pc[u] = "delCat" => cdt[cur[u]] = {}
    /\ pc[u] \in {"look", "has", "new", "list"} => Upto(cdt[cur[u]], t[u])
    /\ pc[u] = "has" => t[u] \in cdt[cur[u]]

Idle == {"menu", "find"}

LoopsInv == Apart => \A u \in Users : pc[u] \notin Idle /\ cur[u] \notin broken => LoopInv(u)

CatalogInv == TypeOK /\ Owns /\ LoopsInv /\ NoGap

LEMMA InvInit == Init => CatalogInv
BY CatalogAssumption DEF Init, CatalogInv, TypeOK, Owns, LoopsInv, NoGap, Pcs, Idle

-----------------------------------------------------------------------------
(* Types and ownership *)

LEMMA TypeStep == TypeOK /\ [Next]_vars => TypeOK'
<1> SUFFICES ASSUME TypeOK, [Next]_vars PROVE TypeOK'
    OBVIOUS
<1> USE CatalogAssumption DEF TypeOK, Pcs, Goto, Track
<1>1. CASE UNCHANGED vars
    BY <1>1 DEF vars
<1>2. CASE Next
  <2>1. PICK u \in Users : UserNext(u)
    BY <1>2 DEF Next
  <2>2. CASE EnterCat(u) \/ AddCat(u) \/ Quit(u) \/ FindCat(u) \/ Select(u)
    <3>1. NamesOf[u] \subseteq Names
      OBVIOUS
    <3> QED BY <2>2, <3>1 DEF EnterCat, AddCat, Quit, FindCat, Select
  <2>3. CASE \E where \in {"look", "delTracks", "list"} : Choose(u, where)
    BY <2>3 DEF Choose
  <2>4. CASE ReadTrack(u) \/ Return(u) \/ Cut(u)
    BY <2>4 DEF ReadTrack, Return, Cut
  <2>5. CASE AddTrack(u) \/ DelTrack(u)
    BY <2>5 DEF AddTrack, DelTrack, Deleting
  <2>6. CASE DelTrackFails(u) \/ DelCat(u) \/ ListTracks(u)
    BY <2>6 DEF DelTrackFails, DelCat, ListTracks, Deleting
  <2>7. CASE Kill(u)
    BY <2>7 DEF Kill, Deleting
  <2> QED BY <2>1, <2>2, <2>3, <2>4, <2>5, <2>6, <2>7 DEF UserNext
<1> QED BY <1>1, <1>2

LEMMA OwnsStep == TypeOK /\ Owns /\ [Next]_vars => Owns'
<1> SUFFICES ASSUME TypeOK, Owns, [Next]_vars PROVE Owns'
    OBVIOUS
<1> USE CatalogAssumption DEF Owns, TypeOK
<1>1. CASE UNCHANGED vars
    BY <1>1 DEF vars
<1>2. CASE Next
  <2>1. PICK u \in Users : UserNext(u)
    BY <1>2 DEF Next
  <2>2. CASE UNCHANGED <<cur, found>>
    BY <2>2
  <2>3. CASE EnterCat(u) \/ Quit(u) \/ FindCat(u) \/ Select(u) \/ Kill(u)
    BY <2>3 DEF EnterCat, Quit, FindCat, Select, Kill
  <2> QED BY <2>1, <2>2, <2>3
          DEF UserNext, AddCat, Choose, ReadTrack, Return, Cut, AddTrack, DelTrack, DelTrackFails, DelCat, ListTracks
<1> QED BY <1>1, <1>2

-----------------------------------------------------------------------------
(* A step of u disturbs nobody else. *)

LEMMA NobodyElse ==
    ASSUME CatalogInv, Apart, NEW u \in Users, NEW v \in Users, v # u, cur[v] # None
    PROVE  cur[v] # cur[u] /\ cur[v] \in Names
BY CatalogAssumption DEF CatalogInv, Owns, Apart

LEMMA OwnGapless ==
    ASSUME CatalogInv, Apart, NEW u \in Users, cur[u] \in Names \ broken, pc[u] \notin Deleting
    PROVE  Gapless(cdt[cur[u]])
<1>1. \A v \in Users : cur[v] = cur[u] => v = u
    BY NobodyElse, CatalogAssumption
<1> QED BY <1>1 DEF CatalogInv, NoGap, Gapless

\* What u does to its own name and itself decides.
LEMMA LocalStep ==
    ASSUME CatalogInv, NEW u \in Users,
           \A v \in Users \ {u} : pc'[v] = pc[v] /\ cur'[v] = cur[v] /\ t'[v] = t[v],
           \A m \in Names : m # cur[u] => cdt'[m] = cdt[m],
           broken \subseteq broken',
           Apart => (pc'[u] \notin Idle /\ cur'[u] \notin broken' => LoopInv(u)'),
           (Apart /\ cur[u] \in Names \ broken' /\ (cur'[u] = cur[u] => pc'[u] \notin Deleting))
               => Gapless(cdt'[cur[u]])
    PROVE  LoopsInv' /\ NoGap'
<1>1. LoopsInv'
  <2> SUFFICES ASSUME Apart, NEW v \in Users, pc'[v] \notin Idle, cur'[v] \notin broken'
               PROVE  LoopInv(v)'
    BY DEF LoopsInv, Apart
  <2>1. CASE v = u
    BY <2>1
  <2>2. CASE v # u
    <3>1. pc'[v] = pc[v] /\ cur'[v] = cur[v] /\ t'[v] = t[v]
      BY <2>2
    <3>2. cur[v] # None
      BY <3>1 DEF CatalogInv, TypeOK, Idle
    <3>3. cdt'[cur[v]] = cdt[cur[v]]
      BY <2>2, <3>2, NobodyElse
    <3>4. LoopInv(v)
      BY <3>1 DEF CatalogInv, LoopsInv
    <3> QED BY <3>1, <3>3, <3>4 DEF LoopInv
  <2> QED BY <2>1, <2>2
<1>2. NoGap'
  <2> SUFFICES ASSUME Apart, NEW m \in Names \ broken',
                      \A v \in Users : cur'[v] = m => pc'[v] \notin Deleting
               PROVE  Gapless(cdt'[m])
    BY DEF NoGap, Apart, Gapless
  <2>1. CASE m = cur[u]
    BY <2>1
  <2>2. CASE m # cur[u]
    <3>1. \A v \in Users : cur[v] = m => pc[v] \notin Deleting
      BY <2>2
    <3> QED BY <2>2, <3>1 DEF CatalogInv, NoGap, Gapless
  <2> QED BY <2>1, <2>2
<1> QED BY <1>1, <1>2

LEMMA InLoop ==
    ASSUME CatalogInv, NEW u \in Users, pc[u] \notin Idle
    PROVE  /\ cur[u] \in Names /\ cdt[cur[u]] \in TrackSets /\ t[u] \in Nat \ {0}
           /\ Apart /\ cur[u] \notin broken => LoopInv(u)
           /\ Apart /\ cur[u] \notin broken /\ pc[u] \notin Deleting => Gapless(cdt[cur[u]])
<1>1. cur[u] \in Names /\ t[u] \in Nat \ {0}
    BY CatalogAssumption DEF CatalogInv, TypeOK, Idle
<1>2. cdt[cur[u]] \in TrackSets
    BY <1>1 DEF CatalogInv, TypeOK, TrackSets
<1> QED BY <1>1, <1>2, OwnGapless DEF CatalogInv, LoopsInv

-----------------------------------------------------------------------------
(* One lemma per kind of step *)

\* Choices of the menu, and a program killed, leave the tracks alone.
LEMMA MenuSteps ==
    ASSUME CatalogInv, NEW u \in Users,
           EnterCat(u) \/ AddCat(u) \/ Quit(u) \/ FindCat(u) \/ Select(u) \/ Kill(u)
    PROVE  LoopsInv' /\ NoGap'
<1>1. TypeOK /\ cdt' = cdt /\ t' = t /\ broken \subseteq broken'
      /\ \A v \in Users \ {u} : pc'[v] = pc[v] /\ cur'[v] = cur[v]
    BY DEF CatalogInv, TypeOK, EnterCat, AddCat, Quit, FindCat, Select, Kill, Goto
<1>2. pc'[u] \in {"menu", "find", "add"}
    BY DEF CatalogInv, TypeOK, EnterCat, AddCat, Quit, FindCat, Select, Kill, Goto
<1>3. LoopInv(u)' \/ pc'[u] \in Idle
    BY <1>2 DEF LoopInv, Deleting, Idle
<1>4. ASSUME Apart, cur[u] \in Names \ broken' PROVE Gapless(cdt[cur[u]])
  <2>1. pc[u] \notin Deleting
    BY <1>4 DEF EnterCat, AddCat, Quit, FindCat, Select, Kill, Deleting
  <2> QED BY <1>1, <1>4, <2>1, OwnGapless
<1> QED BY <1>1, <1>3, <1>4, LocalStep

\* A loop begins with track 1.
LEMMA ChooseStep ==
    ASSUME CatalogInv, NEW u \in Users, NEW where \in {"look", "delTracks", "list"},
           Choose(u, where)
    PROVE  LoopsInv' /\ NoGap'
<1>1. /\ cdt' = cdt /\ cur' = cur /\ broken' = broken /\ pc[u] = "menu" /\ cur[u] # None
      /\ pc'[u] = where /\ t'[u] = 1
      /\ \A v \in Users \ {u} : pc'[v] = pc[v] /\ t'[v] = t[v]
    BY DEF CatalogInv, TypeOK, Choose, Goto, Track
<1>2. cur[u] \in Names /\ cdt[cur[u]] \in TrackSets
    BY <1>1 DEF CatalogInv, TypeOK, TrackSets
<1>3. Apart /\ cur[u] \notin broken => Gapless(cdt[cur[u]])
    BY <1>1, <1>2, OwnGapless DEF Deleting
<1>4. Apart /\ cur[u] \notin broken =>
        /\ Split(cdt[cur[u]], 1) /\ Upto(cdt[cur[u]], 1)
        /\ \A k \in cdt[cur[u]] : k >= 1
    BY <1>2, <1>3, NothingDeleted
<1>5. Apart /\ cur[u] \notin broken => LoopInv(u)'
    BY <1>1, <1>4 DEF LoopInv, Deleting
<1> QED BY <1>1, <1>3, <1>5, LocalStep

\* The loops that read leave the tracks alone, and come further only past a track that is there.
LEMMA ReadingSteps ==
    ASSUME CatalogInv, NEW u \in Users,
           ReadTrack(u) \/ Return(u) \/ Cut(u) \/ ListTracks(u)
    PROVE  LoopsInv' /\ NoGap'
<1>1. /\ cdt' = cdt /\ cur' = cur /\ broken' = broken
      /\ \A v \in Users \ {u} : pc'[v] = pc[v] /\ t'[v] = t[v]
      /\ pc[u] \in {"look", "has", "new", "list"}
      /\ pc'[u] \in {"look", "has", "new", "list", "cut", "menu"}
      /\ pc'[u] # "cut" => pc'[u] \notin Deleting
    BY DEF CatalogInv, TypeOK, ReadTrack, Return, Cut, ListTracks, Goto, Track, Deleting
<1>2. /\ cur[u] \in Names /\ cdt[cur[u]] \in TrackSets /\ t[u] \in Nat \ {0}
      /\ Apart /\ cur[u] \notin broken => LoopInv(u) /\ Gapless(cdt[cur[u]])
    BY <1>1, InLoop DEF Idle, Deleting
<1>3. \/ t'[u] = t[u] /\ (pc'[u] = "has" => t[u] \in cdt[cur[u]])
      \/ t'[u] = t[u] + 1 /\ pc'[u] # "has" /\ pc'[u] # "cut" /\ (pc[u] = "has" \/ t[u] \in cdt[cur[u]])
    BY DEF CatalogInv, TypeOK, ReadTrack, Return, Cut, ListTracks, Goto, Track, Exists
<1>4. ASSUME Apart, cur[u] \notin broken PROVE LoopInv(u)'
  <2>1. Upto(cdt[cur[u]], t[u]) /\ (pc[u] = "has" => t[u] \in cdt[cur[u]])
    BY <1>1, <1>2, <1>4 DEF LoopInv
  <2>2. Upto(cdt[cur[u]], t'[u])
    BY <1>2, <1>3, <2>1, OneFurther
  <2>3. Split(cdt[cur[u]], t[u])
    BY <1>2, <1>4, NothingDeleted
  <2>4. pc'[u] \in Deleting => Split(cdt[cur[u]], t'[u])
    BY <1>1, <1>3, <2>3
  <2>5. pc'[u] = "has" => t'[u] \in cdt[cur[u]]
    BY <1>3
  <2> QED BY <1>1, <2>2, <2>4, <2>5 DEF LoopInv
<1> QED BY <1>1, <1>2, <1>4, LocalStep

LEMMA AddTrackStep ==
    ASSUME CatalogInv, NEW u \in Users, AddTrack(u)
    PROVE  LoopsInv' /\ NoGap'
<1>1. pc[u] \in {"has", "new"} /\ cur[u] \in Names
      /\ cdt[cur[u]] \in TrackSets /\ t[u] \in Nat \ {0}
      /\ (Apart /\ cur[u] \notin broken => LoopInv(u) /\ Gapless(cdt[cur[u]]))
    BY InLoop DEF AddTrack, Idle, Deleting
<1>2. /\ cur' = cur /\ broken' = broken /\ pc'[u] = "look" /\ t'[u] = t[u] + 1
      /\ \A v \in Users \ {u} : pc'[v] = pc[v] /\ t'[v] = t[v]
      /\ cdt'[cur[u]] = cdt[cur[u]] \cup {t[u]}
      /\ \A m \in Names : m # cur[u] => cdt'[m] = cdt[m]
  <2>1. cur' = cur /\ broken' = broken
      BY DEF AddTrack
  <2>2. pc'[u] = "look" /\ \A v \in Users \ {u} : pc'[v] = pc[v]
      BY <1>1 DEF CatalogInv, TypeOK, AddTrack, Goto
  <2>3. t'[u] = t[u] + 1 /\ \A v \in Users \ {u} : t'[v] = t[v]
      BY <1>1 DEF CatalogInv, TypeOK, AddTrack, Track
  <2>4. cdt'[cur[u]] = cdt[cur[u]] \cup {t[u]} /\ \A m \in Names : m # cur[u] => cdt'[m] = cdt[m]
      BY <1>1 DEF CatalogInv, TypeOK, AddTrack
  <2> QED BY <2>1, <2>2, <2>3, <2>4
<1>3. Apart /\ cur[u] \notin broken =>
        Gapless(cdt'[cur[u]]) /\ Upto(cdt'[cur[u]], t[u] + 1)
  <2>1. Apart /\ cur[u] \notin broken => Gapless(cdt[cur[u]]) /\ Upto(cdt[cur[u]], t[u])
      BY <1>1 DEF LoopInv
  <2>2. cdt'[cur[u]] = cdt[cur[u]] \cup {t[u]}
      BY <1>2
  <2> QED BY <1>1, <2>1, <2>2, AddedAtEnd
<1>4. Apart /\ cur[u] \notin broken => LoopInv(u)'
    BY <1>2, <1>3 DEF LoopInv, Deleting
<1> QED BY <1>2, <1>3, <1>4, LocalStep

LEMMA DelTrackStep ==
    ASSUME CatalogInv, NEW u \in Users, DelTrack(u)
    PROVE  LoopsInv' /\ NoGap'
<1>1. pc[u] \in Deleting /\ cur[u] \in Names
      /\ cdt[cur[u]] \in TrackSets /\ t[u] \in Nat \ {0} /\ t[u] \in cdt[cur[u]]
      /\ (Apart /\ cur[u] \notin broken => LoopInv(u))
    BY InLoop DEF DelTrack, Idle, Deleting, Exists
<1>2. /\ cur' = cur /\ broken' = broken /\ pc' = pc /\ t'[u] = t[u] + 1
      /\ \A v \in Users \ {u} : t'[v] = t[v]
      /\ cdt'[cur[u]] = cdt[cur[u]] \ {t[u]}
      /\ \A m \in Names : m # cur[u] => cdt'[m] = cdt[m]
    BY <1>1 DEF CatalogInv, TypeOK, DelTrack, Track
<1>3. ASSUME Apart, cur[u] \notin broken PROVE LoopInv(u)'
  <2>1. Split(cdt[cur[u]], t[u]) /\ (pc[u] = "delTracks" => \A k \in cdt[cur[u]] : k >= t[u])
    BY <1>1, <1>3 DEF LoopInv
  <2>2. Split(cdt'[cur[u]], t[u] + 1)
        /\ (pc[u] = "delTracks" => \A k \in cdt'[cur[u]] : k >= t[u] + 1)
    BY <1>1, <1>2, <2>1, OneDeleted
  <2> QED BY <1>1, <1>2, <2>2 DEF LoopInv, Deleting
<1> QED BY <1>1, <1>2, <1>3, LocalStep

\* A loop of deletions ends behind the last track.
LEMMA DelEndSteps ==
    ASSUME CatalogInv, NEW u \in Users, DelTrackFails(u) \/ DelCat(u)
    PROVE  LoopsInv' /\ NoGap'
<1>1. pc[u] \in Deleting \cup {"delCat"} /\ cur[u] \in Names
      /\ cdt[cur[u]] \in TrackSets /\ t[u] \in Nat \ {0}
      /\ (pc[u] \in Deleting => t[u] \notin cdt[cur[u]])
      /\ (Apart /\ cur[u] \notin broken => LoopInv(u))
    BY InLoop DEF DelTrackFails, DelCat, Idle, Deleting, Exists
<1>2. /\ cur' = cur /\ broken' = broken /\ t' = t /\ cdt' = cdt
      /\ \A v \in Users \ {u} : pc'[v] = pc[v]
      /\ pc'[u] \in {"menu", "delCat"} /\ (pc'[u] = "delCat" => pc[u] = "delTracks")
    BY DEF CatalogInv, TypeOK, DelTrackFails, DelCat, Goto, Deleting
<1>3. ASSUME Apart, cur[u] \notin broken
      PROVE  Gapless(cdt[cur[u]]) /\ (pc[u] = "delTracks" => cdt[cur[u]] = {})
  <2>1. CASE pc[u] = "delCat"
    BY <1>1, <1>3, <2>1 DEF LoopInv, Gapless
  <2>2. CASE pc[u] \in Deleting
    BY <1>1, <1>3, <2>2, AllDeleted DEF LoopInv
  <2> QED BY <1>1, <2>1, <2>2
<1>4. Apart /\ cur[u] \notin broken => LoopInv(u)' \/ pc'[u] \in Idle
    BY <1>2, <1>3 DEF LoopInv, Deleting, Idle
<1> QED BY <1>2, <1>3, <1>4, LocalStep

LEMMA InvStep == CatalogInv /\ [Next]_vars => CatalogInv'
<1> SUFFICES ASSUME CatalogInv, [Next]_vars PROVE CatalogInv'
    OBVIOUS
<1>1. TypeOK' /\ Owns'
    BY TypeStep, OwnsStep DEF CatalogInv
<1>2. LoopsInv' /\ NoGap'
  <2>1. CASE UNCHANGED vars
    BY <2>1 DEF vars, CatalogInv, LoopsInv, LoopInv, NoGap, Apart
  <2>2. CASE Next
    <3>1. PICK u \in Users : UserNext(u)
      BY <2>2 DEF Next
    <3> QED BY <3>1, MenuSteps, ChooseStep, ReadingSteps, AddTrackStep, DelTrackStep, DelEndSteps
            DEF UserNext
  <2> QED BY <2>1, <2>2
<1> QED BY <1>1, <1>2 DEF CatalogInv

-----------------------------------------------------------------------------
(* The theorems *)

LEMMA Invariance == Spec => []CatalogInv
BY InvInit, InvStep, PTL DEF Spec

\* The variables keep their types; a loop over tracks always has a current entry.
THEOREM CatalogTypes == Spec => []TypeOK
<1>1. CatalogInv => TypeOK
    BY DEF CatalogInv
<1> QED BY <1>1, Invariance, PTL

\* Whatever users who keep apart do at the same time, and however often their programs
\* are killed, the tracks of a CD have no gap unless somebody is deleting them or was
\* killed doing so.
THEOREM TracksHaveNoGap == Spec => []NoGap
<1>1. CatalogInv => NoGap
    BY DEF CatalogInv
<1> QED BY <1>1, Invariance, PTL

\* What the steps of another user, or of a user who is not in a loop that changes
\* tracks, leave as it was
LEMMA OthersLeaveAlone ==
    ASSUME CatalogInv, Apart, NEW u \in Users, cur[u] # None,
           NEW w \in Users, w # u, UserNext(w)
    PROVE  pc'[u] = pc[u] /\ cdt'[cur[u]] = cdt[cur[u]]
<1>1. cur[u] # cur[w] /\ cur[u] \in Names
    BY NobodyElse
<1>2. pc'[u] = pc[u]
    BY DEF CatalogInv, TypeOK, UserNext, EnterCat, AddCat, Quit, FindCat, Select, Choose, ReadTrack,
           Return, Cut, AddTrack, DelTrack, DelTrackFails, DelCat, ListTracks, Kill, Goto
<1>3. cdt'[cur[u]] = cdt[cur[u]]
    BY <1>1 DEF CatalogInv, TypeOK, UserNext, EnterCat, AddCat, Quit, FindCat, Select, Choose, ReadTrack,
           Return, Cut, AddTrack, DelTrack, DelTrackFails, DelCat, ListTracks, Kill
<1> QED BY <1>2, <1>3

LEMMA DeletesStep ==
    ASSUME CatalogInv, [Next]_vars, NEW u \in Users,
           Apart, pc[u] = "delCat", pc'[u] = "menu", cur[u] \notin broken
    PROVE  cdt'[cur[u]] = {}
<1>1. PICK w \in Users : UserNext(w)
    BY DEF Next, vars
<1>2. cur[u] \in Names /\ cdt[cur[u]] = {}
    BY InLoop DEF LoopInv, Idle
<1>3. w = u
    BY <1>1, <1>2, OthersLeaveAlone, CatalogAssumption
<1>4. cdt' = cdt
    BY <1>1, <1>3 DEF UserNext, EnterCat, AddCat, Quit, FindCat, Select, Choose, ReadTrack,
           Return, Cut, AddTrack, DelTrack, DelTrackFails, DelCat, ListTracks, Kill, Deleting
<1> QED BY <1>2, <1>4

\* When del_cat_entry is done with an entry, it has no tracks left.
THEOREM DeletionComplete == Spec => DeletesAllTracks
<1>1. CatalogInv /\ [Next]_vars =>
        [\A u \in Users : (Apart /\ pc[u] = "delCat" /\ pc'[u] = "menu" /\ cur[u] \notin broken)
                          => cdt'[cur[u]] = {}]_vars
    BY DeletesStep
<1> QED BY <1>1, Invariance, PTL DEF Spec, DeletesAllTracks

LEMMA ListsStep ==
    ASSUME CatalogInv, [Next]_vars, NEW u \in Users,
           Apart, pc[u] = "list", pc'[u] = "menu", cur'[u] = cur[u], cur[u] \notin broken
    PROVE  cdt[cur[u]] = 1..(t[u] - 1)
<1>1. PICK w \in Users : UserNext(w)
    BY DEF Next, vars
<1>2. /\ cur[u] \in Names /\ cdt[cur[u]] \in TrackSets /\ t[u] \in Nat \ {0}
      /\ Gapless(cdt[cur[u]]) /\ Upto(cdt[cur[u]], t[u])
    BY InLoop DEF LoopInv, Idle, Deleting
<1>3. w = u
    BY <1>1, <1>2, OthersLeaveAlone, CatalogAssumption
<1>4. t[u] \notin cdt[cur[u]]
  <2>1. ~Kill(u)
    BY <1>2, CatalogAssumption DEF Kill, CatalogInv, TypeOK
  <2> QED BY <1>1, <1>3, <2>1 DEF CatalogInv, TypeOK, UserNext, EnterCat, AddCat, Quit, FindCat, Select,
           Choose, ReadTrack, Return, Cut, AddTrack, DelTrack, DelTrackFails, DelCat, ListTracks, Deleting, Exists
<1> QED BY <1>2, <1>4, AllThere

\* When list_tracks stops, it has shown exactly the tracks of the CD.
THEOREM ListingComplete == Spec => ListsAllTracks
<1>1. CatalogInv /\ [Next]_vars =>
        [\A u \in Users : (Apart /\ pc[u] = "list" /\ pc'[u] = "menu" /\ cur'[u] = cur[u]
                              /\ cur[u] \notin broken)
                          => cdt[cur[u]] = 1..(t[u] - 1)]_vars
    BY ListsStep
<1> QED BY <1>1, Invariance, PTL DEF Spec, ListsAllTracks
=============================================================================

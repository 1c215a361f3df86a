----------------------------- MODULE CdSearchProof -----------------------------
(***************************************************************************)
(* Proofs about CdSearch, for any names, search texts and order of the     *)
(* keys: every match is returned once, and a search that ends has returned *)
(* them all, whatever abandoned searches left in entries_matching.         *)
(***************************************************************************)
EXTENDS CdSearch, SequenceTheorems, TLAPS

-----------------------------------------------------------------------------
(* Entries of work_file *)

Distinct(s) == \A i, j \in DOMAIN s : s[i] = s[j] => i = j

LEMMA Written ==
    ASSUME NEW S, NEW s \in Seq(S), NEW e \in S, e \notin Elements(s), Distinct(s)
    PROVE  /\ Elements(Append(s, e)) = Elements(s) \cup {e}
           /\ Distinct(Append(s, e))
           /\ Append(s, e) \in Seq(S) /\ Len(Append(s, e)) = Len(s) + 1
<1>1. /\ Append(s, e) \in Seq(S) /\ Len(Append(s, e)) = Len(s) + 1 /\ Len(s) \in Nat
      /\ \A i \in 1..Len(s) : Append(s, e)[i] = s[i]
      /\ Append(s, e)[Len(s) + 1] = e
      /\ DOMAIN s = 1..Len(s) /\ DOMAIN Append(s, e) = 1..(Len(s) + 1)
    OBVIOUS
<1> QED BY <1>1 DEF Elements, Distinct

LEMMA ReadOff ==
    ASSUME NEW S, NEW s \in Seq(S), s # <<>>, Distinct(s)
    PROVE  /\ Head(s) \in S /\ Tail(s) \in Seq(S) /\ Len(s) = Len(Tail(s)) + 1
           /\ Elements(s) = Elements(Tail(s)) \cup {Head(s)}
           /\ Head(s) \notin Elements(Tail(s))
           /\ Distinct(Tail(s))
<1>1. /\ Tail(s) \in Seq(S) /\ Len(s) \in Nat \ {0} /\ Len(Tail(s)) = Len(s) - 1
      /\ DOMAIN s = 1..Len(s) /\ DOMAIN Tail(s) = 1..(Len(s) - 1)
      /\ \A i \in 1..(Len(s) - 1) : Tail(s)[i] = s[i + 1]
      /\ Head(s) = s[1] /\ s[1] \in S
    OBVIOUS
<1>2. \A j \in 2..Len(s) : s[j] = Tail(s)[j - 1] /\ j - 1 \in 1..(Len(s) - 1)
    BY <1>1
<1>3. Elements(s) \subseteq Elements(Tail(s)) \cup {Head(s)}
  <2> SUFFICES ASSUME NEW j \in 1..Len(s) PROVE s[j] \in Elements(Tail(s)) \cup {Head(s)}
      BY <1>1 DEF Elements
  <2>1. j = 1 \/ j \in 2..Len(s)
      BY <1>1
  <2> QED BY <1>1, <1>2, <2>1 DEF Elements
<1>4. Elements(Tail(s)) \subseteq Elements(s) \ {Head(s)}
    BY <1>1 DEF Elements, Distinct
<1>5. Distinct(Tail(s))
    BY <1>1 DEF Distinct
<1>6. Head(s) \in Elements(s)
    BY <1>1 DEF Elements
<1> QED BY <1>1, <1>3, <1>4, <1>5, <1>6

LEMMA NothingRead == Elements(<<>>) = {} /\ Distinct(<<>>) /\ Len(<<>>) = 0
BY DEF Elements, Distinct

-----------------------------------------------------------------------------
(* The inductive invariant *)

\* the keys the scan has yet to look at
ToScan == (IF key = NoKey THEN {} ELSE {key}) \cup ahead

\* What the scan has found is in work_file, once; the client counts no less than is there.
ScanInv ==
    spc = "scan" =>
        /\ upc = "waiting" /\ shown = {}
        /\ key = NoKey => ahead = {}
        /\ key \notin ahead
        /\ Elements(work) \cup (ToScan \cap text) = wanted
        /\ Elements(work) \cap ToScan = {}
        /\ Distinct(work) /\ Len(work) <= matching

ReadInv ==
    upc \in {"shown", "nomore"} =>
        /\ shown \cup Elements(work) = wanted
        /\ shown \cap Elements(work) = {}
        /\ Distinct(work) /\ Len(work) <= matching
        /\ upc = "nomore" => work = <<>>

SearchInv == TypeOK /\ (upc = "waiting" => spc = "scan") /\ ScanInv /\ ReadInv

LEMMA InvInit == Init => SearchInv
<1> SUFFICES ASSUME Init PROVE SearchInv
    OBVIOUS
<1>0. work \in Seq(Names) /\ text \in SUBSET Names /\ db \in SUBSET Names
    BY DEF Init
<1>1. TypeOK
    BY <1>0 DEF Init, TypeOK
<1>2. spc = "idle" /\ upc = "idle"
    BY DEF Init
<1> QED BY <1>1, <1>2 DEF SearchInv, ScanInv, ReadInv

\* The cursor starts before all keys or moves past one.
LEMMA Moved ==
    ASSUME NEW keys \in SUBSET Names, Cursor(keys)
    PROVE  /\ key' \in Names \cup {NoKey} /\ ahead' \subseteq Names
           /\ key' = NoKey => ahead' = {}
           /\ key' \notin ahead'
           /\ ToScan' = keys
<1>1. CASE keys = {}
    BY <1>1 DEF Cursor, ToScan
<1>2. CASE keys # {}
  <2>1. PICK k \in keys : key' = k /\ ahead' = keys \ {k}
    BY <1>2 DEF Cursor
  <2> QED BY <2>1, TextsAssumption DEF ToScan
<1> QED BY <1>1, <1>2

LEMMA ScanPastStep == SearchInv /\ ScanPast => SearchInv'
<1> SUFFICES ASSUME SearchInv, ScanPast PROVE SearchInv'
    OBVIOUS
<1>1. ahead \in SUBSET Names
    BY DEF SearchInv, TypeOK
<1>2. /\ key' \in Names \cup {NoKey} /\ ahead' \subseteq Names
      /\ key' = NoKey => ahead' = {}
      /\ key' \notin ahead' /\ ToScan' = ahead
    BY <1>1, Moved DEF ScanPast
<1>3. ToScan = ahead \cup {key} /\ key \notin text
    BY DEF ScanPast, ToScan
<1> QED BY <1>2, <1>3 DEF SearchInv, TypeOK, ScanInv, ReadInv, ScanPast

LEMMA ScanMatchStep == SearchInv /\ ScanMatch => SearchInv'
<1> SUFFICES ASSUME SearchInv, ScanMatch PROVE SearchInv'
    OBVIOUS
<1>1. CASE key = Empty
    BY <1>1 DEF ScanMatch, SearchInv, TypeOK, ScanInv, ReadInv, ToScan
<1>2. CASE key # Empty
  <2>1. ahead \in SUBSET Names /\ work \in Seq(Names) /\ matching \in Nat /\ key \in Names
    BY DEF SearchInv, TypeOK, ScanMatch
  <2>2. /\ key' \in Names \cup {NoKey} /\ ahead' \subseteq Names
        /\ key' = NoKey => ahead' = {}
        /\ key' \notin ahead' /\ ToScan' = ahead
    BY <1>2, <2>1, Moved DEF ScanMatch
  <2>3. ToScan = ahead \cup {key} /\ key \in text
    BY DEF ScanMatch, ToScan
  <2>4. key \notin Elements(work) /\ Distinct(work) /\ Len(work) <= matching /\ Len(work) \in Nat
    BY <2>1, <2>3 DEF SearchInv, ScanInv, ScanMatch
  <2>0. work' = Append(work, key) /\ matching' = matching + 1
    BY <1>2 DEF ScanMatch
  <2>5. /\ Elements(work') = Elements(work) \cup {key} /\ Distinct(work')
        /\ work' \in Seq(Names) /\ Len(work') = Len(work) + 1 /\ matching' = matching + 1
    BY <2>0, <2>1, <2>4, Written
  <2>6. Len(work') <= matching' /\ matching' \in Nat
    BY <2>1, <2>4, <2>5
  <2>7. ScanInv'
    BY <1>2, <2>2, <2>3, <2>4, <2>5, <2>6 DEF SearchInv, ScanInv, ScanMatch
  <2> QED BY <1>2, <2>2, <2>5, <2>6, <2>7 DEF SearchInv, TypeOK, ScanInv, ReadInv, ScanMatch
<1> QED BY <1>1, <1>2

LEMMA SearchFirstStep == ASSUME SearchInv, NEW t \in Texts, SearchFirst(t) PROVE SearchInv'
<1>1. db \in SUBSET Names /\ t \in SUBSET Names /\ matching \in Nat
    BY TextsAssumption DEF SearchInv, TypeOK
<1>2. /\ key' \in Names \cup {NoKey} /\ ahead' \subseteq Names
      /\ key' = NoKey => ahead' = {}
      /\ key' \notin ahead' /\ ToScan' = db
    BY <1>1, Moved DEF SearchFirst
<1>3. work' = <<>> /\ Elements(work') = {} /\ Distinct(work') /\ Len(work') = 0 /\ work' \in Seq(Names)
    BY NothingRead DEF SearchFirst
<1>4. ScanInv'
    BY <1>1, <1>2, <1>3 DEF ScanInv, SearchFirst
<1> QED BY <1>1, <1>2, <1>3, <1>4 DEF SearchInv, TypeOK, ReadInv, SearchFirst

\* An entry is read while some are counted, or work_file closed when none is.
LEMMA ReadOne ==
    ASSUME TypeOK,
           shown \cup Elements(work) = wanted, shown \cap Elements(work) = {},
           Distinct(work), Len(work) <= matching,
           IF matching = 0 THEN NoEntry ELSE ReadEntry(work) /\ UNCHANGED wopen,
           wanted' = wanted
    PROVE  /\ upc' \in {"shown", "nomore"} /\ ReadInv'
           /\ ret' \in Names \cup {Empty} /\ work' \in Seq(Names) /\ matching' \in Nat
           /\ short' \in BOOLEAN /\ shown' \subseteq Names /\ wopen' \in BOOLEAN
<1>0. /\ work \in Seq(Names) /\ matching \in Nat /\ Len(work) \in Nat /\ shown \subseteq Names
      /\ short \in BOOLEAN /\ wopen \in BOOLEAN
    BY DEF TypeOK
<1>1. CASE matching = 0
  <2>1. Elements(work) = {}
    BY <1>0, <1>1 DEF Elements
  <2>2. work' = <<>> /\ upc' = "nomore" /\ UNCHANGED <<matching, short, shown, wanted>>
        /\ ret' = Empty /\ wopen' = FALSE
    BY <1>1 DEF NoEntry
  <2>3. Elements(work') = {} /\ Distinct(work') /\ Len(work') = 0 /\ work' \in Seq(Names)
    BY <2>2, NothingRead
  <2>4. shown' \cup Elements(work') = wanted' /\ shown' \cap Elements(work') = {}
    BY <2>1, <2>2, <2>3
  <2>5. ReadInv'
    BY <1>0, <1>1, <2>2, <2>3, <2>4 DEF ReadInv
  <2> QED BY <1>0, <2>2, <2>3, <2>5
<1>2. CASE matching # 0 /\ work = <<>>
  <2>1. work' = <<>> /\ upc' = "nomore" /\ matching' = matching - 1 /\ shown' = shown
    BY <1>2 DEF ReadEntry
  <2>2. matching' \in Nat /\ Len(work') <= matching'
    BY <1>0, <1>2, <2>1, NothingRead
  <2>3. ReadInv'
    BY <1>2, <2>1, <2>2, NothingRead DEF ReadInv
  <2> QED BY <1>0, <1>2, <2>1, <2>2, <2>3 DEF ReadEntry
<1>3. CASE matching # 0 /\ work # <<>>
  <2>1. /\ ret' = Head(work) /\ work' = Tail(work) /\ matching' = matching - 1
        /\ shown' = shown \cup {Head(work)} /\ upc' = "shown" /\ short' = FALSE /\ wopen' = wopen
    BY <1>3 DEF ReadEntry
  <2>2. /\ Head(work) \in Names /\ work' \in Seq(Names) /\ Len(work) = Len(work') + 1
        /\ Elements(work) = Elements(work') \cup {Head(work)}
        /\ Head(work) \notin Elements(work') /\ Distinct(work') /\ Len(work') \in Nat
    BY <1>0, <1>3, <2>1, ReadOff
  <2>3. matching' \in Nat /\ Len(work') <= matching'
    BY <1>0, <1>3, <2>1, <2>2
  <2>4. shown' \cup Elements(work') = wanted' /\ shown' \cap Elements(work') = {}
    BY <2>1, <2>2
  <2>5. ReadInv'
    BY <2>1, <2>2, <2>3, <2>4 DEF ReadInv
  <2> QED BY <1>0, <2>1, <2>2, <2>3, <2>5
<1> QED BY <1>1, <1>2, <1>3

LEMMA SearchAnsweredStep == SearchInv /\ SearchAnswered => SearchInv'
<1> SUFFICES ASSUME SearchInv, SearchAnswered PROVE SearchInv'
    OBVIOUS
<1>1. /\ shown \cup Elements(work) = wanted /\ shown \cap Elements(work) = {}
      /\ Distinct(work) /\ Len(work) <= matching
    BY DEF SearchInv, ScanInv, SearchAnswered, ToScan
<1>2. /\ upc' \in {"shown", "nomore"} /\ ReadInv'
      /\ ret' \in Names \cup {Empty} /\ work' \in Seq(Names) /\ matching' \in Nat
      /\ short' \in BOOLEAN /\ shown' \subseteq Names /\ wopen' \in BOOLEAN
    BY <1>1, ReadOne DEF SearchInv, SearchAnswered
<1> QED BY <1>2 DEF SearchInv, TypeOK, ScanInv, SearchAnswered

LEMMA SearchNextStep == SearchInv /\ SearchNext => SearchInv'
<1> SUFFICES ASSUME SearchInv, SearchNext PROVE SearchInv'
    OBVIOUS
<1>1. /\ shown \cup Elements(work) = wanted /\ shown \cap Elements(work) = {}
      /\ Distinct(work) /\ Len(work) <= matching
    BY DEF SearchInv, ReadInv, SearchNext
<1>2. /\ upc' \in {"shown", "nomore"} /\ ReadInv'
      /\ ret' \in Names \cup {Empty} /\ work' \in Seq(Names) /\ matching' \in Nat
      /\ short' \in BOOLEAN /\ shown' \subseteq Names /\ wopen' \in BOOLEAN
    BY <1>1, ReadOne DEF SearchInv, SearchNext
<1> QED BY <1>2 DEF SearchInv, TypeOK, ScanInv, SearchNext

LEMMA InvStep == SearchInv /\ [Next]_vars => SearchInv'
<1> SUFFICES ASSUME SearchInv, [Next]_vars PROVE SearchInv'
    OBVIOUS
<1>1. ASSUME NEW n \in Names, add_cdc_entry(n) \/ del_cdc_entry(n) PROVE SearchInv'
    BY <1>1 DEF add_cdc_entry, del_cdc_entry, SearchInv, TypeOK, ScanInv, ReadInv
<1>2. CASE SearchDone
    BY <1>2 DEF SearchDone, SearchInv, TypeOK, ScanInv, ReadInv
<1>3. CASE UNCHANGED vars
    BY <1>3 DEF vars, SearchInv, TypeOK, ScanInv, ReadInv, ToScan
<1> QED BY <1>1, <1>2, <1>3, ScanPastStep, ScanMatchStep, SearchFirstStep, SearchAnsweredStep,
           SearchNextStep DEF Next

LEMMA Invariance == Spec => []SearchInv
BY InvInit, InvStep, PTL DEF Spec

-----------------------------------------------------------------------------
(* The theorems *)

\* The variables keep their types; entries_matching is never counted below zero.
THEOREM SearchTypes == Spec => []TypeOK
<1>1. SearchInv => TypeOK
    BY DEF SearchInv
<1> QED BY <1>1, Invariance, PTL

\* A search shows every match once, in whatever order the database keeps the keys,
\* and whatever searches were abandoned before.
THEOREM MatchesShownOnce == Spec => []EachMatchOnce
<1>1. SearchInv => EachMatchOnce
    BY DEF SearchInv, ReadInv, EachMatchOnce, Distinct
<1> QED BY <1>1, Invariance, PTL

\* A search that reports its end has shown every match.
THEOREM EndMeansAll == Spec => []NoMoreMeansAll
<1>1. SearchInv => NoMoreMeansAll
    BY NothingRead DEF SearchInv, ReadInv, NoMoreMeansAll
<1> QED BY <1>1, Invariance, PTL
=============================================================================

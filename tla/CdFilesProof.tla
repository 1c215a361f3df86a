----------------------------- MODULE CdFilesProof -----------------------------
(***************************************************************************)
(* Proofs about CdFiles.                                                   *)
(***************************************************************************)
EXTENDS CdFiles, TLAPS

LEMMA Constants ==
    /\ BeginsWith \subseteq Cats \X Cats /\ \A c \in Cats : <<c, c>> \in BeginsWith
    /\ NoCat \notin Cats /\ Users \cap {"title", "tracks", "cdb.tmp"} = {}
    /\ MaxActs \in Nat /\ MaxRuns \in Nat /\ MaxBreaks \in Nat
BY FilesAssumption DEF FilesAssumption

-----------------------------------------------------------------------------
(* The inductive invariant *)

LineBags == UNION {[S -> Nat \ {0}] : S \in SUBSET Line}

Typed ==
    /\ DOMAIN disk \subseteq Data \cup Users \cup {"cdb.tmp"}
    /\ disk = [f \in DOMAIN disk |-> disk[f]] /\ \A f \in DOMAIN disk : disk[f] \in LineBags
    /\ sameFs \in BOOLEAN
    /\ prog \in [Users -> Programs \cup {"none"}] /\ step \in [Users -> Steps]
    /\ file \in [Users -> Data] /\ goal \in [Users -> {"remove", "update"}]
    /\ cdcatnum \in [Users -> Cats \cup {NoCat}] /\ cdtrack \in [Users -> Nat \ {0}]
    /\ mem \in [Users -> [Data -> LineBags]]
    /\ acts \in Nat /\ runs \in Nat /\ breaks \in Nat
    /\ owed \subseteq Cats /\ razed \subseteq Cats /\ used \subseteq Programs
    /\ spoiled \in BOOLEAN

\* which program is at which step, and what for
Control == \A u \in Users :
    /\ prog[u] # "none" => prog[u] \in used
    /\ prog[u] = "none" => step[u] = "menu" /\ mem[u] = NoLines /\ file[u] = "title" /\ cdcatnum[u] = NoCat
    /\ step[u] \in {"copy", "swap", "fill"} => prog[u] \in {"shell", "curses"}
    /\ step[u] \in {"read", "filter", "open", "write"} => prog[u] = "perl"
    /\ step[u] \in {"copy", "swap", "fill", "filter", "entry"} => cdcatnum[u] \in Cats
    /\ step[u] \in {"copy", "swap", "fill", "filter"} /\ file[u] = "title" => goal[u] = "remove"

\* the lines of b are of the kind that belongs in file f
Kind(f, b) == \A l \in BagToSet(b) : (l.no = 0) <=> (f = "title")

Kinds == "curses" \notin used =>
    /\ \A f \in Data : Kind(f, Lines(f)) /\ \A u \in Users : Kind(f, mem[u][f])
    /\ \A u \in Users : step[u] \in {"swap", "fill"} => Kind(file[u], Lines(u))

\* every CD that must not be lost has its line in b
Safe(b) == \A c \in owed \ razed : Title(c) \in BagToSet(b)

\* where the titles are while u runs alone
KeptBy(u) ==
    /\ prog[u] \in {"shell", "curses"} /\ ~(step[u] = "fill" /\ file[u] = "title") => Safe(Lines("title"))
    /\ step[u] \in {"swap", "fill"} /\ file[u] = "title" => Safe(Lines(Temp(u)))
    /\ step[u] \in {"copy", "filter"} /\ file[u] = "title" => \A c \in owed \ razed : ~Hits(u, Title(c))
    /\ step[u] = "read" \/ (step[u] \in {"open", "write"} /\ file[u] = "tracks") => Safe(Lines("title"))
    /\ prog[u] = "perl" /\ (step[u] = "read" => file[u] = "tracks") => Safe(mem[u]["title"])

Kept == ~spoiled =>
    /\ \A u, v \in Users : prog[u] # "none" /\ prog[v] # "none" => u = v
    /\ Running = {} => Safe(Lines("title"))
    /\ \A u \in Running : KeptBy(u)

\* the CDs of tracks.cdb, without those that u removes with curses
Begun(u, c) == <<c, cdcatnum[u]>> \in BeginsWith
LeftBy(u) == {c \in CatsOf(Lines("tracks")) : ~Begun(u, c)}

Titled(b) == CatsOf(b) \subseteq CatsOf(Lines("title"))

\* which tracks have a title while u runs curses alone
TitledBy(u) ==
    /\ step[u] \in {"menu", "entry"} \/ (step[u] = "copy" /\ file[u] = "title") => Titled(Lines("tracks"))
    /\ step[u] \in {"swap", "fill"} /\ file[u] = "title" => LeftBy(u) \subseteq CatsOf(Lines(Temp(u)))
    /\ step[u] = "copy" /\ file[u] = "tracks" => LeftBy(u) \subseteq CatsOf(Lines("title"))
    /\ step[u] \in {"swap", "fill"} /\ file[u] = "tracks" => Titled(Lines(Temp(u)))
    /\ step[u] = "fill" => CatsOf(Lines(file[u])) = {}
    /\ step[u] \in {"menu", "entry"} \/ goal[u] = "update" => cdcatnum[u] \in CatsOf(Lines("title")) \cup {NoCat}
    /\ CatsOf(mem[u]["tracks"]) \subseteq (IF step[u] = "entry" THEN {cdcatnum[u]} ELSE {})

OnlyCurses == ~spoiled /\ breaks = 0 /\ used \subseteq {"curses"}

TracksTitled == OnlyCurses =>
    /\ Running = {} => Titled(Lines("tracks"))
    /\ \A u \in Running : TitledBy(u)

-----------------------------------------------------------------------------
(* Bags of lines *)

LEMMA LineBagsAre == \A b : b \in LineBags <=> LineBag(b)
<1>1. ASSUME NEW b \in LineBags PROVE LineBag(b)
  <2>1. PICK S \in SUBSET Line : b \in [S -> Nat \ {0}]
      BY DEF LineBags
  <2>2. DOMAIN b = S /\ b \in [S -> {n \in Nat : n > 0}]
      BY <2>1
  <2> QED BY <2>2 DEF LineBag, IsABag, BagToSet
<1>2. ASSUME NEW b, LineBag(b) PROVE b \in LineBags
  <2>1. b \in [DOMAIN b -> Nat \ {0}] /\ DOMAIN b \in SUBSET Line
      BY <1>2 DEF LineBag, IsABag, BagToSet
  <2> QED BY <2>1 DEF LineBags
<1> QED BY <1>1, <1>2

LEMMA NoLine == EmptyBag \in LineBags /\ BagToSet(EmptyBag) = {} /\ CatsOf(EmptyBag) = {}
<1>1. EmptyBag \in [{} -> Nat \ {0}]
    BY DEF EmptyBag, SetToBag
<1>2. BagToSet(EmptyBag) = {}
    BY DEF EmptyBag, SetToBag, BagToSet
<1> QED BY <1>1, <1>2 DEF LineBags, CatsOf

LEMMA JoinedBags ==
    ASSUME NEW a \in LineBags, NEW b \in LineBags
    PROVE  a (+) b \in LineBags /\ BagToSet(a (+) b) = BagToSet(a) \cup BagToSet(b)
<1>1. a \in [DOMAIN a -> Nat \ {0}] /\ b \in [DOMAIN b -> Nat \ {0}]
      /\ DOMAIN a \subseteq Line /\ DOMAIN b \subseteq Line
    BY DEF LineBags
<1>2. DOMAIN (a (+) b) = DOMAIN a \cup DOMAIN b
    BY DEF (+)
<1>3. ASSUME NEW l \in DOMAIN a \cup DOMAIN b PROVE (a (+) b)[l] \in Nat \ {0}
  <2>1. (a (+) b)[l] = (IF l \in DOMAIN a THEN a[l] ELSE 0) + (IF l \in DOMAIN b THEN b[l] ELSE 0)
      BY DEF (+)
  <2> QED BY <1>1, <2>1
<1>4. a (+) b \in [DOMAIN a \cup DOMAIN b -> Nat \ {0}]
    BY <1>2, <1>3 DEF (+)
<1> QED BY <1>1, <1>2, <1>4 DEF LineBags, BagToSet

LEMMA LineJoined ==
    ASSUME NEW b \in LineBags, NEW l \in Line
    PROVE  With(b, l) \in LineBags /\ BagToSet(With(b, l)) = BagToSet(b) \cup {l}
<1>1. SetToBag({l}) \in [{l} -> Nat \ {0}]
    BY DEF SetToBag
<1>2. SetToBag({l}) \in LineBags /\ BagToSet(SetToBag({l})) = {l}
    BY <1>1 DEF LineBags, BagToSet
<1> QED BY <1>2, JoinedBags DEF With

LEMMA OthersLeft ==
    ASSUME NEW b \in LineBags, NEW u
    PROVE  /\ Others(u, b) \in LineBags
           /\ BagToSet(Others(u, b)) = {l \in BagToSet(b) : ~Hits(u, l)}
<1> DEFINE S == {l \in BagToSet(b) : ~Hits(u, l)}
<1>1. b \in [DOMAIN b -> Nat \ {0}] /\ DOMAIN b \subseteq Line
    BY DEF LineBags
<1>2. Others(u, b) = [l \in S |-> b[l]] /\ S \subseteq DOMAIN b
    BY DEF Others, BagToSet
<1> HIDE DEF S
<1>3. Others(u, b) \in [S -> Nat \ {0}] /\ S \subseteq Line
    BY <1>1, <1>2
<1> QED BY <1>3 DEF LineBags, BagToSet, S

LEMMA PartsLines ==
    ASSUME NEW b \in LineBags, NEW p \in Parts(b)
    PROVE  p \in LineBags /\ BagToSet(p) \subseteq BagToSet(b)
<1>1. BagToSet(b) \subseteq Line
    BY DEF LineBags, BagToSet
<1>2. PICK S \in SUBSET BagToSet(b) : p \in [S -> 1..MaxActs]
    BY DEF Parts
<1>3. p \in [S -> Nat \ {0}] /\ S \subseteq Line /\ DOMAIN p = S
    BY <1>1, <1>2, Constants
<1> QED BY <1>3 DEF LineBags, BagToSet

LEMMA LinesTyped ==
    ASSUME Typed, NEW f
    PROVE  Lines(f) \in LineBags
BY NoLine DEF Typed, Lines

-----------------------------------------------------------------------------
(* Files *)

LEMMA PutLines ==
    ASSUME NEW f, NEW b, Put(f, b)
    PROVE  /\ DOMAIN disk' = DOMAIN disk \cup {f}
           /\ \A g : Lines(g)' = IF g = f THEN b ELSE Lines(g)
BY DEF Put, Lines

LEMMA DropLines ==
    ASSUME NEW f, Drop(f)
    PROVE  /\ DOMAIN disk' = DOMAIN disk \ {f}
           /\ \A g : Lines(g)' = IF g = f THEN EmptyBag ELSE Lines(g)
BY DEF Drop, Lines

LEMMA MoveLines ==
    ASSUME NEW f, NEW g, f # g, Move(f, g)
    PROVE  /\ f \in DOMAIN disk => \A h : Lines(h)' = IF h = g THEN Lines(f)
                                                   ELSE IF h = f THEN EmptyBag ELSE Lines(h)
           /\ f \notin DOMAIN disk => disk' = disk /\ Lines(f) = EmptyBag
BY DEF Move, Lines

\* the files stay bags of lines
FilesOK(d) ==
    /\ DOMAIN d \subseteq Data \cup Users \cup {"cdb.tmp"}
    /\ d = [f \in DOMAIN d |-> d[f]] /\ \A f \in DOMAIN d : d[f] \in LineBags

LEMMA FilesStay ==
    ASSUME Typed, NEW f \in Data \cup Users \cup {"cdb.tmp"}, NEW g \in Data \cup Users \cup {"cdb.tmp"},
           NEW b \in LineBags,
           Put(f, b) \/ Drop(f) \/ Move(g, f) \/ disk' = disk
    PROVE  FilesOK(disk')
<1>1. FilesOK(disk)
    BY DEF Typed, FilesOK
<1>2. CASE Put(f, b)
    BY <1>1, <1>2 DEF Put, FilesOK
<1>3. CASE Drop(f)
    BY <1>1, <1>3 DEF Drop, FilesOK
<1>4. CASE Move(g, f)
    BY <1>1, <1>4 DEF Move, FilesOK
<1> QED BY <1>1, <1>2, <1>3, <1>4

-----------------------------------------------------------------------------
(* Types *)

LEMMA TypedTypeOK == Typed => TypeOK
<1> SUFFICES ASSUME Typed PROVE TypeOK
    OBVIOUS
<1>1. \A f \in DOMAIN disk : LineBag(disk[f])
    BY LineBagsAre DEF Typed
<1>2. \A u \in Users : \A f \in Data : LineBag(mem[u][f])
    BY LineBagsAre DEF Typed
<1>3. cdtrack \in [Users -> Nat]
    BY DEF Typed
<1> QED BY <1>1, <1>2, <1>3 DEF Typed, TypeOK

LEMMA TypedInit == Init => Typed
<1> SUFFICES ASSUME Init PROVE Typed
    OBVIOUS
<1>1. PICK S \in SUBSET Data : disk = [f \in S |-> EmptyBag]
    BY DEF Init
<1>2. NoLines \in [Data -> LineBags]
    BY NoLine DEF NoLines
<1>3. DOMAIN disk = S /\ disk = [f \in DOMAIN disk |-> disk[f]] /\ \A f \in S : disk[f] \in LineBags
    BY <1>1, NoLine
<1>4. mem \in [Users -> [Data -> LineBags]]
    BY <1>2 DEF Init
<1>5. DOMAIN disk \subseteq Data \cup Users \cup {"cdb.tmp"}
    BY <1>1, <1>3
<1>6. /\ prog \in [Users -> Programs \cup {"none"}] /\ step \in [Users -> Steps]
      /\ file \in [Users -> Data] /\ goal \in [Users -> {"remove", "update"}]
      /\ cdcatnum \in [Users -> Cats \cup {NoCat}] /\ cdtrack \in [Users -> Nat \ {0}]
    BY DEF Init, Steps, Data
<1>7. /\ sameFs \in BOOLEAN /\ spoiled \in BOOLEAN /\ acts \in Nat /\ runs \in Nat /\ breaks \in Nat
      /\ owed \subseteq Cats /\ razed \subseteq Cats /\ used \subseteq Programs
    BY DEF Init
<1> QED BY <1>1, <1>3, <1>4, <1>5, <1>6, <1>7 DEF Typed

\* what is typed besides the files and the memories
Small ==
    /\ sameFs \in BOOLEAN
    /\ prog \in [Users -> Programs \cup {"none"}] /\ step \in [Users -> Steps]
    /\ file \in [Users -> Data] /\ goal \in [Users -> {"remove", "update"}]
    /\ cdcatnum \in [Users -> Cats \cup {NoCat}] /\ cdtrack \in [Users -> Nat \ {0}]
    /\ acts \in Nat /\ runs \in Nat /\ breaks \in Nat
    /\ owed \subseteq Cats /\ razed \subseteq Cats /\ used \subseteq Programs
    /\ spoiled \in BOOLEAN

Memories(m) == m \in [Users -> [Data -> LineBags]]

LEMMA TypedParts == Typed <=> FilesOK(disk) /\ Small /\ Memories(mem)
BY DEF Typed, FilesOK, Small, Memories

\* the actions of u
NextOf(u) ==
    \/ \E p \in Programs : Start(u, p)
    \/ \E c \in Cats : Add(u, c) \/ AddRefused(u, c)
    \/ \E hit \in SUBSET Cats : FindCd(u, hit)
    \/ EnterTrack(u) \/ EntryEnds(u) \/ Remove(u) \/ Update(u)
    \/ PerlRead(u) \/ PerlDies(u) \/ PerlFilter(u) \/ PerlPatternDies(u)
    \/ PerlOpen(u) \/ PerlWrite(u) \/ Copy(u) \/ CopyDies(u) \/ Rename(u) \/ Unlink(u) \/ Fill(u)
    \/ Quit(u) \/ QuitPerl(u) \/ Kill(u) \/ InterruptShell(u) \/ InterruptPerl(u)

LEMMA SmallNext ==
    ASSUME Typed, NEW u \in Users, NextOf(u)
    PROVE  Small'
<1>1. Small
    BY TypedParts
<1> USE <1>1
<1>2. ASSUME Gone(u), breaks' = breaks \/ Break, spoiled' \in BOOLEAN PROVE Small'
    BY <1>2 DEF Gone, Small, Goto, Break, Steps, Data
<1>3. ASSUME Done(u), Keep, UNCHANGED <<acts, cdtrack, ghosts>> PROVE Small'
    BY <1>3 DEF Done, Small, Goto, Keep, ghosts, Steps, Data
<1>a. ASSUME NEW p \in Programs, Start(u, p) PROVE Small'
    BY <1>a DEF Start, Small, Goto, Steps
<1>b. ASSUME NEW c \in Cats, Add(u, c) PROVE Small'
    BY <1>b DEF Add, Act, Small, Goto, Keep, Steps
<1>c. ASSUME NEW c \in Cats, AddRefused(u, c) PROVE Small'
    BY <1>c DEF AddRefused, Act, Small, Keep, ghosts
<1>d. ASSUME NEW hit \in SUBSET Cats, FindCd(u, hit) PROVE Small'
  <2>1. Titles(u) \in LineBags
      BY LinesTyped DEF Titles, Typed, Data
  <2>2. \A l \in BagToSet(Titles(u)) : l.cat \in Cats
      BY <2>1 DEF LineBags, BagToSet, Line
  <2>3. \E c \in Cats \cup {NoCat} : cdcatnum' = [cdcatnum EXCEPT ![u] = c]
    <3>1. CASE cdcatnum' = [cdcatnum EXCEPT ![u] = NoCat]
        BY <3>1
    <3>2. CASE \E l \in BagToSet(Titles(u)) : cdcatnum' = [cdcatnum EXCEPT ![u] = l.cat]
        BY <2>2, <3>2
    <3> QED BY <1>d, <3>1, <3>2 DEF FindCd, BagToSet
  <2> QED BY <1>d, <2>3 DEF FindCd, Act, Small, Keep, ghosts
<1>e. CASE EnterTrack(u)
    BY <1>e DEF EnterTrack, Act, Small, Keep, ghosts
<1>f. CASE EntryEnds(u)
    BY <1>f DEF EntryEnds, Small, Keep, Goto, ghosts, Steps
<1>g. CASE Remove(u) \/ Update(u)
    BY <1>g DEF Remove, Update, Begin, Act, Small, Keep, Goto, Steps, Data
<1>h. CASE PerlRead(u)
    BY <1>h DEF PerlRead, Small, Keep, Goto, ghosts, Steps, Data
<1>i. CASE PerlDies(u) \/ PerlPatternDies(u)
    BY <1>2, <1>i DEF PerlDies, PerlPatternDies, Saved, Small
<1>j. CASE PerlFilter(u)
    BY <1>3, <1>j DEF PerlFilter
<1>k. CASE PerlOpen(u)
    BY <1>k DEF PerlOpen, Small, Keep, Goto, ghosts, Steps
<1>l. CASE PerlWrite(u)
  <2>1. CASE file[u] = "title"
      BY <1>l, <2>1 DEF PerlWrite, Small, Keep, Goto, Steps, Data
  <2>2. CASE file[u] # "title"
      BY <1>l, <1>2, <2>2 DEF PerlWrite, Small
  <2> QED BY <2>1, <2>2
<1>m. CASE Copy(u)
    BY <1>m DEF Copy, Small, Keep, Goto, ghosts, Steps
<1>n. CASE CopyDies(u)
    BY <1>2, <1>n DEF CopyDies, Small
<1>o. CASE Rename(u)
    BY <1>3, <1>o DEF Rename
<1>p. CASE Unlink(u)
    BY <1>p DEF Unlink, Small, Keep, Goto, ghosts, Steps
<1>q. CASE Fill(u)
    BY <1>3, <1>q DEF Fill
<1>r. CASE Quit(u)
    BY <1>2, <1>r DEF Quit, Small
<1>s. CASE QuitPerl(u)
    BY <1>s DEF QuitPerl, Small, Keep, Goto, ghosts, Steps, Data
<1>t. CASE Kill(u)
    BY <1>2, <1>t DEF Kill, Saved
<1>u. CASE InterruptShell(u)
    BY <1>2, <1>u DEF InterruptShell
<1>v. CASE InterruptPerl(u)
  <2>1. spoiled' \in BOOLEAN /\ step' = [step EXCEPT ![u] = "open"]
      BY <1>v DEF InterruptPerl, Small, Goto
  <2>2. breaks' \in Nat /\ file' = [file EXCEPT ![u] = "title"]
      BY <1>v DEF InterruptPerl, Small, Break
  <2> QED BY <1>v, <2>1, <2>2 DEF InterruptPerl, Small, Steps, Data
<1> QED BY <1>a, <1>b, <1>c, <1>d, <1>e, <1>f, <1>g, <1>h, <1>i, <1>j, <1>k, <1>l, <1>m, <1>n, <1>o, <1>p,
           <1>q, <1>r, <1>s, <1>t, <1>u, <1>v DEF NextOf

LEMMA FilesNext ==
    ASSUME Typed, Control, NEW u \in Users, NextOf(u)
    PROVE  FilesOK(disk')
<1> DEFINE F == Data \cup Users \cup {"cdb.tmp"}
<1>1. /\ "title" \in F /\ "tracks" \in F /\ u \in F /\ Temp(u) \in F /\ file[u] \in F
      /\ EmptyBag \in LineBags /\ mem[u][file[u]] \in LineBags /\ mem[u]["tracks"] \in LineBags
      /\ Lines("title") \in LineBags /\ Lines("tracks") \in LineBags
    BY NoLine, LinesTyped DEF Typed, Temp, Data
<1> HIDE DEF F
<1>2. ASSUME NEW f \in F, NEW b \in LineBags, Put(f, b) PROVE FilesOK(disk')
    BY <1>2, FilesStay DEF F
<1>3. ASSUME NEW f \in F, Drop(f) PROVE FilesOK(disk')
    BY <1>1, <1>3, FilesStay DEF F
<1>4. ASSUME NEW f \in F, NEW g \in F, Move(g, f) PROVE FilesOK(disk')
    BY <1>1, <1>4, FilesStay DEF F
<1>5. ASSUME disk' = disk PROVE FilesOK(disk')
    BY <1>5, TypedParts
<1>6. ASSUME NEW f \in Data, NEW l \in Line, Insert(u, f, l) PROVE FilesOK(disk')
  <2>1. With(Lines(f), l) \in LineBags /\ f \in F
      BY LinesTyped, LineJoined DEF F
  <2> QED BY <1>2, <1>5, <1>6, <2>1 DEF Insert
<1>a. ASSUME NEW p \in Programs, Start(u, p) PROVE FilesOK(disk')
  <2>1. CASE p = "curses"
      BY <1>5, <1>a, <2>1 DEF Start
  <2>2. CASE p # "curses"
    <3>1. disk' = [f \in (DOMAIN disk \ {u}) \cup Data |-> Lines(f)]
        BY <1>a, <2>2 DEF Start
    <3>2. \A f : Lines(f) \in LineBags
        BY LinesTyped
    <3>3. DOMAIN disk \subseteq Data \cup Users \cup {"cdb.tmp"}
        BY DEF Typed
    <3> HIDE DEF Lines
    <3> QED BY <3>1, <3>2, <3>3 DEF FilesOK
  <2> QED BY <2>1, <2>2
<1>b. ASSUME NEW c \in Cats, Add(u, c) PROVE FilesOK(disk')
  <2>1. Title(c) \in Line /\ "title" \in Data
      BY DEF Title, Line, Data
  <2> QED BY <1>b, <1>6, <2>1 DEF Add
<1>c. CASE EnterTrack(u)
  <2>1. CASE prog[u] = "shell"
    <3>1. [cat |-> cdcatnum[u], no |-> cdtrack[u]] \in Line /\ "tracks" \in Data
        BY <1>c DEF EnterTrack, Control, Typed, Line, Data
    <3> QED BY <1>c, <1>6, <2>1, <3>1 DEF EnterTrack
  <2> QED BY <1>c, <1>5, <2>1 DEF EnterTrack
<1>d. CASE EntryEnds(u)
  <2>1. Lines("tracks") (+) mem[u]["tracks"] \in LineBags
      BY <1>1, JoinedBags
  <2> QED BY <1>1, <1>2, <1>5, <1>d, <2>1 DEF EntryEnds
<1>e. CASE PerlOpen(u)
    BY <1>1, <1>2, <1>e DEF PerlOpen
<1>f. CASE PerlWrite(u)
    BY <1>1, <1>2, <1>f DEF PerlWrite
<1>g. CASE Copy(u)
  <2>1. Others(u, Lines(file[u])) \in LineBags
      BY LinesTyped, OthersLeft
  <2> QED BY <1>1, <1>2, <1>g, <2>1 DEF Copy
<1>h. CASE CopyDies(u)
    BY <1>1, <1>2, <1>h DEF CopyDies
<1>i. CASE Rename(u) \/ Fill(u)
    BY <1>1, <1>4, <1>i DEF Rename, Fill
<1>j. CASE Unlink(u)
    BY <1>1, <1>2, <1>3, <1>j DEF Unlink
<1>k. CASE Quit(u)
    BY <1>1, <1>3, <1>5, <1>k DEF Quit
<1>l. CASE InterruptShell(u)
    BY <1>1, <1>3, <1>l DEF InterruptShell
<1> QED BY <1>a, <1>b, <1>c, <1>d, <1>e, <1>f, <1>g, <1>h, <1>i, <1>j, <1>k, <1>l, <1>5
        DEF NextOf, AddRefused, FindCd, Remove, Update, Begin, PerlRead, PerlDies, PerlFilter, PerlPatternDies,
            QuitPerl, Kill, InterruptPerl

LEMMA MemoriesNext ==
    ASSUME Typed, Control, NEW u \in Users, NextOf(u)
    PROVE  Memories(mem')
<1>1. Memories(mem) /\ \A f : Lines(f) \in LineBags
    BY TypedParts, LinesTyped
<1>2. ASSUME Gone(u) PROVE Memories(mem')
    BY <1>1, <1>2, NoLine DEF Gone, Memories, NoLines
<1>3. ASSUME NEW f \in Data, NEW b \in LineBags, mem' = [mem EXCEPT ![u][f] = b]
      PROVE  Memories(mem')
    BY <1>1, <1>3 DEF Memories
<1>4. ASSUME mem' = mem PROVE Memories(mem')
    BY <1>1, <1>4
<1>5. ASSUME NEW f \in Data, NEW l \in Line, mem' = [mem EXCEPT ![u][f] = With(@, l)]
      PROVE  Memories(mem')
  <2>1. With(mem[u][f], l) \in LineBags
      BY <1>1, LineJoined DEF Memories
  <2> QED BY <1>3, <1>5, <2>1
<1>6. file[u] \in Data /\ "tracks" \in Data
    BY DEF Typed, Data
<1>b. ASSUME NEW c \in Cats, Add(u, c) PROVE Memories(mem')
  <2>1. Title(c) \in Line /\ "title" \in Data
      BY DEF Title, Line, Data
  <2> QED BY <1>b, <1>4, <1>5, <2>1 DEF Add, Insert
<1>c. CASE EnterTrack(u)
  <2>1. [cat |-> cdcatnum[u], no |-> cdtrack[u]] \in Line
      BY <1>c DEF EnterTrack, Control, Typed, Line
  <2> QED BY <1>c, <1>4, <1>5, <1>6, <2>1 DEF EnterTrack, Insert
<1>d. CASE EntryEnds(u)
  <2>1. NoLines \in [Data -> LineBags]
      BY NoLine DEF NoLines
  <2> QED BY <1>1, <1>4, <1>d, <2>1 DEF EntryEnds, Memories
<1>e. CASE PerlRead(u)
  <2>1. disk[file[u]] \in LineBags
      BY <1>e DEF PerlRead, Typed
  <2> QED BY <1>3, <1>6, <1>e, <2>1 DEF PerlRead
<1>f. CASE PerlFilter(u)
  <2>1. Others(u, mem[u][file[u]]) \in LineBags
      BY <1>1, <1>6, OthersLeft DEF Memories
  <2> QED BY <1>3, <1>6, <1>f, <2>1 DEF PerlFilter
<1>g. CASE InterruptPerl(u)
  <2>1. \A p \in Parts(Lines(file[u])) : p \in LineBags
      BY <1>1, PartsLines
  <2> QED BY <1>3, <1>4, <1>6, <1>g, <2>1 DEF InterruptPerl
<1>h. CASE PerlWrite(u)
    BY <1>2, <1>4, <1>h DEF PerlWrite
<1> QED BY <1>b, <1>c, <1>d, <1>e, <1>f, <1>g, <1>h, <1>2, <1>4
        DEF NextOf, Start, AddRefused, FindCd, Remove, Update, Begin, PerlDies, PerlPatternDies, PerlOpen, QuitPerl,
            Copy, CopyDies, Rename, Unlink, Fill, Quit, Kill, InterruptShell

-----------------------------------------------------------------------------
(* Control *)

\* Control, for one user
Course(u) ==
    /\ prog[u] # "none" => prog[u] \in used
    /\ prog[u] = "none" => step[u] = "menu" /\ mem[u] = NoLines /\ file[u] = "title" /\ cdcatnum[u] = NoCat
    /\ step[u] \in {"copy", "swap", "fill"} => prog[u] \in {"shell", "curses"}
    /\ step[u] \in {"read", "filter", "open", "write"} => prog[u] = "perl"
    /\ step[u] \in {"copy", "swap", "fill", "filter", "entry"} => cdcatnum[u] \in Cats
    /\ step[u] \in {"copy", "swap", "fill", "filter"} /\ file[u] = "title" => goal[u] = "remove"

\* the variables of the others stay as they are
OthersSame(u) == \A v \in Users \ {u} :
    /\ prog'[v] = prog[v] /\ step'[v] = step[v] /\ file'[v] = file[v] /\ goal'[v] = goal[v]
    /\ cdcatnum'[v] = cdcatnum[v] /\ mem'[v] = mem[v]

LEMMA OthersNext ==
    ASSUME Typed, NEW u \in Users, NextOf(u)
    PROVE  OthersSame(u) /\ used \subseteq used'
<1> USE DEF OthersSame, Typed
<1>1. ASSUME Gone(u) PROVE OthersSame(u) /\ used \subseteq used'
    BY <1>1 DEF Gone, Goto
<1>2. ASSUME Done(u), Keep, UNCHANGED ghosts, \A v \in Users \ {u} : mem'[v] = mem[v]
      PROVE OthersSame(u) /\ used \subseteq used'
    BY <1>2 DEF Done, Goto, Keep, ghosts
<1>3. CASE \/ Quit(u) \/ CopyDies(u) \/ PerlDies(u) \/ PerlPatternDies(u) \/ Kill(u) \/ InterruptShell(u)
           \/ PerlWrite(u) /\ file[u] # "title"
    BY <1>1, <1>3 DEF Quit, CopyDies, PerlDies, PerlPatternDies, Kill, InterruptShell, PerlWrite
<1>4. CASE PerlFilter(u) \/ Rename(u) \/ Fill(u)
    BY <1>2, <1>4 DEF PerlFilter, Rename, Fill
<1>5. CASE PerlWrite(u) /\ file[u] = "title"
    BY <1>5 DEF PerlWrite, Goto, Keep
<1>6. CASE \E p \in Programs : Start(u, p)
    BY <1>6 DEF Start, Goto
<1>7. CASE \E c \in Cats : Add(u, c)
    BY <1>7 DEF Add, Insert, Goto, Keep
<1>8. CASE EnterTrack(u)
    BY <1>8 DEF EnterTrack, Insert, Keep, ghosts
<1>9. CASE EntryEnds(u)
    BY <1>9 DEF EntryEnds, Goto, Keep, ghosts
<1>10. CASE (\E c \in Cats : AddRefused(u, c)) \/ (\E hit \in SUBSET Cats : FindCd(u, hit))
    BY <1>10 DEF AddRefused, FindCd, Keep, ghosts
<1>11. CASE Remove(u) \/ Update(u)
    BY <1>11 DEF Remove, Update, Begin, Goto, Keep
<1>12. CASE PerlRead(u) \/ PerlOpen(u) \/ QuitPerl(u) \/ InterruptPerl(u) \/ Copy(u) \/ Unlink(u)
    BY <1>12 DEF PerlRead, PerlOpen, QuitPerl, InterruptPerl, Copy, Unlink, Goto, Keep, ghosts
<1> QED BY <1>3, <1>4, <1>5, <1>6, <1>7, <1>8, <1>9, <1>10, <1>11, <1>12 DEF NextOf

LEMMA CourseNext ==
    ASSUME Typed, Control, NEW u \in Users, NextOf(u)
    PROVE  Course(u)'
<1>1. Course(u)
    BY DEF Control, Course
<1>2. /\ DOMAIN prog = Users /\ DOMAIN step = Users /\ DOMAIN file = Users /\ DOMAIN goal = Users
      /\ DOMAIN cdcatnum = Users /\ DOMAIN mem = Users
      /\ file[u] \in Data /\ goal[u] \in {"remove", "update"} /\ cdcatnum[u] \in Cats \cup {NoCat}
      /\ used \subseteq used'
    BY OthersNext DEF Typed
<1>3. ASSUME Gone(u) PROVE Course(u)'
    BY <1>2, <1>3 DEF Gone, Goto, Course, NoLines
<1>4. ASSUME Done(u), Keep, prog[u] # "none", cdcatnum[u] \in Cats,
             file[u] = "title" => goal[u] = "remove", (step[u] = "filter") <=> (prog[u] = "perl")
      PROVE  Course(u)'
  <2>1. CASE file[u] = "title"
      BY <1>1, <1>2, <1>4, <2>1 DEF Done, Keep, Goto, Course, Typed, Programs
  <2>2. CASE file[u] # "title"
      BY <1>1, <1>2, <1>4, <2>2 DEF Done, Keep, Goto, Course
  <2> QED BY <2>1, <2>2
<1>5. CASE \/ Quit(u) \/ CopyDies(u) \/ PerlDies(u) \/ PerlPatternDies(u) \/ Kill(u) \/ InterruptShell(u)
           \/ PerlWrite(u) /\ file[u] # "title"
    BY <1>3, <1>5 DEF Quit, CopyDies, PerlDies, PerlPatternDies, Kill, InterruptShell, PerlWrite
<1>6. CASE PerlFilter(u) \/ Rename(u) \/ Fill(u)
    BY <1>1, <1>4, <1>6 DEF PerlFilter, Rename, Fill, Course
<1>7. CASE PerlWrite(u) /\ file[u] = "title"
    BY <1>1, <1>2, <1>7 DEF PerlWrite, Goto, Keep, Course
<1>8. CASE \E p \in Programs : Start(u, p)
    BY <1>1, <1>2, <1>8 DEF Start, Goto, Course, Programs
<1>9. CASE \E c \in Cats : Add(u, c) \/ AddRefused(u, c)
  <2>1. PICK c \in Cats : Add(u, c) \/ AddRefused(u, c)
      BY <1>9
  <2>2. /\ prog' = prog /\ prog[u] # "none" /\ cdcatnum' = [cdcatnum EXCEPT ![u] = c]
        /\ step'[u] \in {"menu", "entry"}
      BY <1>2, <2>1 DEF Add, AddRefused, Keep, Goto
  <2> QED BY <1>1, <1>2, <2>2 DEF Course
<1>10. CASE \E hit \in SUBSET Cats : FindCd(u, hit)
    BY <1>1, <1>2, <1>10 DEF FindCd, Keep, ghosts, Course
<1>11. CASE EnterTrack(u) \/ EntryEnds(u)
    BY <1>1, <1>2, <1>11 DEF EnterTrack, EntryEnds, Keep, Goto, ghosts, Course
<1>12. CASE Remove(u)
    BY <1>1, <1>2, <1>12 DEF Remove, Begin, Keep, Goto, Course, Typed, Programs
<1>13. CASE Update(u)
    BY <1>1, <1>2, <1>13 DEF Update, Begin, Keep, Goto, Course, Typed, Programs
<1>14. CASE PerlRead(u) \/ PerlOpen(u) \/ QuitPerl(u) \/ InterruptPerl(u)
    BY <1>1, <1>2, <1>14 DEF PerlRead, PerlOpen, QuitPerl, InterruptPerl, Keep, Goto, ghosts, Course
<1>15. CASE Copy(u) \/ Unlink(u)
    BY <1>1, <1>2, <1>15 DEF Copy, Unlink, Keep, Goto, ghosts, Course
<1> QED BY <1>5, <1>6, <1>7, <1>8, <1>9, <1>10, <1>11, <1>12, <1>13, <1>14, <1>15 DEF NextOf

LEMMA ControlNext ==
    ASSUME Typed, Control, NEW u \in Users, NextOf(u)
    PROVE  Control'
<1>1. Course(u)' /\ OthersSame(u) /\ used \subseteq used'
    BY CourseNext, OthersNext
<1>2. ASSUME NEW v \in Users \ {u} PROVE Course(v)'
    BY <1>1, <1>2 DEF Control, OthersSame, Course, NoLines
<1> QED BY <1>1, <1>2 DEF Control, Course

-----------------------------------------------------------------------------
(* The kinds of lines *)

LEMMA KindLemmas ==
    /\ \A f : Kind(f, EmptyBag)
    /\ \A f, a, b : Kind(f, a) /\ BagToSet(b) \subseteq BagToSet(a) => Kind(f, b)
    /\ \A f : \A a, b \in LineBags : Kind(f, a) /\ Kind(f, b) => Kind(f, a (+) b)
    /\ \A f : \A b \in LineBags : \A l \in Line :
           Kind(f, b) /\ ((l.no = 0) <=> (f = "title")) => Kind(f, With(b, l))
<1>1. ASSUME NEW f, NEW a \in LineBags, NEW b \in LineBags, Kind(f, a), Kind(f, b) PROVE Kind(f, a (+) b)
  <2>1. BagToSet(a (+) b) = BagToSet(a) \cup BagToSet(b)
      BY JoinedBags
  <2> QED BY <1>1, <2>1 DEF Kind
<1>2. ASSUME NEW f, NEW b \in LineBags, NEW l \in Line, Kind(f, b), (l.no = 0) <=> (f = "title")
      PROVE  Kind(f, With(b, l))
  <2>1. BagToSet(With(b, l)) = BagToSet(b) \cup {l}
      BY LineJoined
  <2> QED BY <1>2, <2>1 DEF Kind
<1>3. \A f : Kind(f, EmptyBag)
    BY NoLine DEF Kind
<1>4. \A f, a, b : Kind(f, a) /\ BagToSet(b) \subseteq BagToSet(a) => Kind(f, b)
    BY DEF Kind
<1> QED BY <1>1, <1>2, <1>3, <1>4

\* the temporary files of the others
LEMMA OwnFiles ==
    ASSUME Typed, NEW u \in Users, NextOf(u)
    PROVE  \A v \in Users \ {u} : Lines(v)' = Lines(v)
<1> SUFFICES ASSUME NEW v \in Users \ {u} PROVE Lines(v)' = Lines(v)
    OBVIOUS
<1>1. /\ file[u] \in Data /\ v # Temp(u) /\ v \notin Data
    BY Constants DEF Typed, Temp, Data
<1>2. ASSUME NEW f, NEW b, f # v, Put(f, b) PROVE Lines(v)' = Lines(v)
    BY <1>2, PutLines
<1>3. ASSUME NEW f, f # v, Drop(f) PROVE Lines(v)' = Lines(v)
    BY <1>3, DropLines
<1>4. ASSUME Move(Temp(u), file[u]) PROVE Lines(v)' = Lines(v)
    BY <1>1, <1>4 DEF Move, Lines
<1>5. disk' = disk => Lines(v)' = Lines(v)
    BY DEF Lines
<1>6. CASE \E p \in Programs : Start(u, p)
    BY <1>1, <1>6 DEF Start, Lines
<1>7. CASE \E c \in Cats : Add(u, c)
    BY <1>1, <1>2, <1>5, <1>7 DEF Add, Insert, Data
<1>8. CASE EnterTrack(u) \/ EntryEnds(u)
    BY <1>1, <1>2, <1>5, <1>8 DEF EnterTrack, EntryEnds, Insert, Data
<1>9. CASE PerlOpen(u) \/ PerlWrite(u)
    BY <1>1, <1>2, <1>9 DEF PerlOpen, PerlWrite
<1>10. CASE Copy(u) \/ CopyDies(u)
    BY <1>1, <1>2, <1>10 DEF Copy, CopyDies
<1>11. CASE Rename(u) \/ Fill(u)
    BY <1>4, <1>11 DEF Rename, Fill
<1>12. CASE Unlink(u) \/ Quit(u) \/ InterruptShell(u)
    BY <1>1, <1>2, <1>3, <1>5, <1>12 DEF Unlink, Quit, InterruptShell
<1> QED BY <1>5, <1>6, <1>7, <1>8, <1>9, <1>10, <1>11, <1>12 DEF NextOf, AddRefused, FindCd, Remove, Update, Begin,
       PerlRead, PerlDies, PerlFilter, PerlPatternDies, QuitPerl, Kill, InterruptPerl

\* the files, the memory of u and its temporary file
KindsFor(u) ==
    /\ \A f \in Data : Kind(f, Lines(f)) /\ Kind(f, mem[u][f])
    /\ step[u] \in {"swap", "fill"} => Kind(file[u], Lines(u))

LEMMA KindsForNext ==
    ASSUME Typed, Control, Kinds, NEW u \in Users, NextOf(u), "curses" \notin used'
    PROVE  KindsFor(u)'
<1>1. KindsFor(u) /\ used \subseteq used'
    BY OthersNext DEF Kinds, KindsFor
<1>2. prog[u] # "curses" /\ Temp(u) = u /\ u \notin Data
    BY <1>1, Constants DEF Control, Temp, Data
<1>3. /\ DOMAIN prog = Users /\ DOMAIN step = Users /\ DOMAIN file = Users /\ DOMAIN mem = Users
      /\ file[u] \in Data /\ mem[u] \in [Data -> LineBags] /\ "title" \in Data /\ "tracks" \in Data
      /\ \A f : Lines(f) \in LineBags
    BY LinesTyped DEF Typed, Data
<1> DEFINE FilesKind == \A f \in Data : Kind(f, Lines(f))'
           MemKind == \A f \in Data : Kind(f, mem[u][f])'
<1>4. ASSUME NEW f \in Data, NEW b, Kind(f, b), Put(f, b) PROVE FilesKind
  <2>1. \A g : Lines(g)' = IF g = f THEN b ELSE Lines(g)
      BY <1>4, PutLines
  <2>2. ASSUME NEW g \in Data PROVE Kind(g, Lines(g)')
      BY <1>1, <1>4, <2>1 DEF KindsFor
  <2> QED BY <2>2
<1>5. ASSUME NEW b, Put(u, b) PROVE FilesKind /\ Lines(u)' = b
    BY <1>1, <1>2, <1>5, PutLines DEF KindsFor
<1>6. ASSUME Drop(u) PROVE FilesKind
    BY <1>1, <1>2, <1>6, DropLines DEF KindsFor
<1>7. disk' = disk => FilesKind /\ Lines(u)' = Lines(u)
    BY <1>1 DEF KindsFor, Lines
<1>8. ASSUME NEW f \in Data, NEW b, Kind(f, b), mem' = [mem EXCEPT ![u][f] = b] PROVE MemKind
    BY <1>1, <1>3, <1>8 DEF KindsFor
<1>9. mem' = mem => MemKind
    BY <1>1 DEF KindsFor
<1>10. Gone(u) => MemKind /\ step'[u] = "menu"
    BY <1>3, KindLemmas DEF Gone, NoLines, Goto
<1>11. Done(u) => step'[u] \notin {"swap", "fill"}
    BY <1>3 DEF Done, Goto
<1>12. ASSUME NEW f \in Data, NEW l \in Line, Insert(u, f, l), (l.no = 0) <=> (f = "title")
       PROVE  FilesKind /\ MemKind
  <2>1. Kind(f, With(Lines(f), l)) /\ Kind(f, With(mem[u][f], l))
      BY <1>1, <1>3, <1>12, KindLemmas DEF KindsFor
  <2> QED BY <1>4, <1>7, <1>8, <1>9, <1>12, <2>1 DEF Insert
<1>13. ASSUME step'[u] \notin {"swap", "fill"}, FilesKind, MemKind PROVE KindsFor(u)'
    BY <1>13 DEF KindsFor
<1>14. ASSUME Move(u, file[u]), step[u] \in {"swap", "fill"} PROVE FilesKind
    BY <1>1, <1>2, <1>3, <1>14, MoveLines, KindLemmas DEF KindsFor, Lines
<1> HIDE DEF FilesKind, MemKind
<1>a. ASSUME NEW p \in Programs, Start(u, p) PROVE KindsFor(u)'
  <2>1. step'[u] \in {"menu", "read"} /\ mem' = mem
      BY <1>3, <1>a DEF Start, Goto
  <2>2. \A f \in Data : Lines(f)' = Lines(f)
      BY <1>2, <1>a DEF Start, Lines
  <2>3. FilesKind
      BY <1>1, <2>2 DEF FilesKind, KindsFor
  <2> QED BY <1>9, <1>13, <2>1, <2>3
<1>b. ASSUME NEW c \in Cats, Add(u, c) PROVE KindsFor(u)'
  <2>1. Title(c) \in Line /\ Title(c).no = 0
      BY DEF Title, Line
  <2>2. step'[u] \in {"menu", "entry"}
      BY <1>3, <1>b DEF Add, Goto
  <2> QED BY <1>3, <1>12, <1>13, <1>b, <2>1, <2>2 DEF Add
<1>c. CASE EnterTrack(u)
  <2> DEFINE l == [cat |-> cdcatnum[u], no |-> cdtrack[u]]
  <2>1. l \in Line /\ l.no # 0
      BY <1>c DEF EnterTrack, Control, Typed, Line
  <2>2. step'[u] = "entry"
      BY <1>c DEF EnterTrack, Keep
  <2>3. Kind("tracks", With(mem[u]["tracks"], l))
      BY <1>1, <1>3, <2>1, KindLemmas DEF KindsFor
  <2>4. IF prog[u] = "shell" THEN Insert(u, "tracks", l)
        ELSE mem' = [mem EXCEPT ![u]["tracks"] = With(mem[u]["tracks"], l)] /\ UNCHANGED disk
      BY <1>c DEF EnterTrack
  <2> HIDE DEF l
  <2>5. FilesKind /\ MemKind
      BY <1>3, <1>7, <1>8, <1>12, <2>1, <2>3, <2>4
  <2> QED BY <1>13, <2>2, <2>5
<1>d. CASE EntryEnds(u)
    BY <1>2, <1>3, <1>7, <1>9, <1>13, <1>d DEF EntryEnds, Goto
<1>e. CASE PerlRead(u)
  <2>1. Kind(file[u], disk[file[u]]) /\ step'[u] \in {"read", "menu"}
      BY <1>1, <1>3, <1>e DEF PerlRead, KindsFor, Lines, Goto
  <2> QED BY <1>3, <1>7, <1>8, <1>13, <1>e, <2>1 DEF PerlRead
<1>f. CASE PerlFilter(u)
  <2>1. Kind(file[u], Others(u, mem[u][file[u]]))
      BY <1>1, <1>3, OthersLeft, KindLemmas DEF KindsFor
  <2> QED BY <1>3, <1>7, <1>8, <1>11, <1>13, <1>f, <2>1 DEF PerlFilter
<1>g. CASE PerlOpen(u)
  <2>1. step'[u] = "write" /\ Kind(file[u], EmptyBag) /\ mem' = mem
      BY <1>3, <1>g, KindLemmas DEF PerlOpen, Goto
  <2> QED BY <1>3, <1>4, <1>9, <1>13, <1>g, <2>1 DEF PerlOpen
<1>h. CASE PerlWrite(u)
  <2>1. FilesKind
      BY <1>1, <1>3, <1>4, <1>h DEF PerlWrite, KindsFor
  <2>2. MemKind /\ step'[u] \in {"open", "menu"}
      BY <1>3, <1>9, <1>10, <1>h DEF PerlWrite, Goto
  <2> QED BY <1>13, <2>1, <2>2
<1>i. CASE Copy(u)
  <2>1. Kind(file[u], Others(u, Lines(file[u])))
      BY <1>1, <1>3, OthersLeft, KindLemmas DEF KindsFor
  <2>2. FilesKind /\ Lines(u)' = Others(u, Lines(file[u])) /\ mem' = mem /\ file' = file
      BY <1>2, <1>5, <1>i DEF Copy
  <2> QED BY <1>9, <2>1, <2>2 DEF KindsFor, FilesKind, MemKind
<1>j. CASE CopyDies(u)
    BY <1>2, <1>j DEF CopyDies
<1>k. CASE Rename(u) \/ Fill(u)
    BY <1>2, <1>9, <1>11, <1>13, <1>14, <1>k DEF Rename, Fill
<1>l. CASE Unlink(u)
  <2>1. FilesKind /\ Lines(u)' = Lines(u)
    <3>1. CASE Put(file[u], EmptyBag)
      <4>1. FilesKind
          BY <1>3, <1>4, <3>1, KindLemmas
      <4>2. file[u] # u
          BY <1>2, <1>3
      <4> QED BY <3>1, <4>1, <4>2, PutLines
    <3>2. CASE Drop(file[u])
      <4>1. \A g : Lines(g)' = IF g = file[u] THEN EmptyBag ELSE Lines(g)
          BY <3>2, DropLines
      <4>2. ASSUME NEW g \in Data PROVE Kind(g, Lines(g)')
          BY <1>1, <4>1, KindLemmas DEF KindsFor
      <4>3. Lines(u)' = Lines(u)
          BY <1>2, <1>3, <4>1
      <4> QED BY <4>2, <4>3 DEF FilesKind
    <3> QED BY <1>l, <3>1, <3>2 DEF Unlink
  <2>2. mem' = mem /\ file' = file /\ step[u] = "swap"
      BY <1>l DEF Unlink
  <2>3. MemKind /\ Kind(file[u], Lines(u))
      BY <1>1, <1>9, <2>2 DEF KindsFor
  <2>4. Kind(file'[u], Lines(u)')
      BY <2>1, <2>2, <2>3
  <2> QED BY <2>1, <2>3, <2>4 DEF KindsFor, FilesKind, MemKind
<1>m. CASE Quit(u) \/ InterruptShell(u)
    BY <1>2, <1>6, <1>7, <1>10, <1>13, <1>m DEF Quit, InterruptShell
<1>n. CASE PerlDies(u) \/ PerlPatternDies(u) \/ Kill(u)
    BY <1>7, <1>10, <1>13, <1>n DEF PerlDies, PerlPatternDies, Kill
<1>o. CASE QuitPerl(u)
    BY <1>3, <1>7, <1>9, <1>13, <1>o DEF QuitPerl, Goto
<1>p. CASE InterruptPerl(u)
  <2>1. \A p \in Parts(Lines(file[u])) : Kind(file[u], p)
    <3>1. \A p \in Parts(Lines(file[u])) : BagToSet(p) \subseteq BagToSet(Lines(file[u]))
        BY <1>3, PartsLines
    <3> QED BY <1>1, <1>3, <3>1, KindLemmas DEF KindsFor
  <2>2. step'[u] = "open"
      BY <1>3, <1>p DEF InterruptPerl, Goto
  <2>3. MemKind
      BY <1>3, <1>8, <1>9, <1>p, <2>1 DEF InterruptPerl
  <2> QED BY <1>7, <1>13, <1>p, <2>2, <2>3 DEF InterruptPerl
<1>q. ASSUME NEW c \in Cats, AddRefused(u, c) PROVE KindsFor(u)'
    BY <1>7, <1>9, <1>13, <1>q DEF AddRefused, ghosts
<1>r. ASSUME NEW hit \in SUBSET Cats, FindCd(u, hit) PROVE KindsFor(u)'
    BY <1>7, <1>9, <1>13, <1>r DEF FindCd, ghosts
<1>s. CASE Remove(u) \/ Update(u)
    BY <1>3, <1>7, <1>9, <1>13, <1>s DEF Remove, Update, Begin, Goto
<1> QED BY <1>a, <1>b, <1>c, <1>d, <1>e, <1>f, <1>g, <1>h, <1>i, <1>j, <1>k, <1>l, <1>m, <1>n, <1>o, <1>p,
           <1>q, <1>r, <1>s DEF NextOf

LEMMA KindsNext ==
    ASSUME Typed, Control, Kinds, NEW u \in Users, NextOf(u)
    PROVE  Kinds'
<1> SUFFICES ASSUME "curses" \notin used'
             PROVE  /\ \A f \in Data : Kind(f, Lines(f))' /\ \A v \in Users : Kind(f, mem[v][f])'
                    /\ \A v \in Users : step'[v] \in {"swap", "fill"} => Kind(file[v], Lines(v))'
    BY DEF Kinds
<1>1. KindsFor(u)' /\ OthersSame(u) /\ used \subseteq used'
    BY KindsForNext, OthersNext
<1>2. \A v \in Users \ {u} : Lines(v)' = Lines(v)
    BY OwnFiles
<1> QED BY <1>1, <1>2 DEF KindsFor, OthersSame, Kinds

-----------------------------------------------------------------------------
(* No CD is lost *)

LEMMA CatsLemmas ==
    /\ CatsOf(EmptyBag) = {}
    /\ \A b \in LineBags : \A l \in Line : CatsOf(With(b, l)) = CatsOf(b) \cup {l.cat}
    /\ \A a, b \in LineBags : CatsOf(a (+) b) = CatsOf(a) \cup CatsOf(b)
    /\ \A b \in LineBags : \A u : prog[u] = "curses" => CatsOf(Others(u, b)) = {c \in CatsOf(b) : ~Begun(u, c)}
<1>1. ASSUME NEW b \in LineBags, NEW l \in Line PROVE CatsOf(With(b, l)) = CatsOf(b) \cup {l.cat}
    BY LineJoined DEF CatsOf
<1>2. ASSUME NEW a \in LineBags, NEW b \in LineBags PROVE CatsOf(a (+) b) = CatsOf(a) \cup CatsOf(b)
    BY JoinedBags DEF CatsOf
<1>3. ASSUME NEW b \in LineBags, NEW u, prog[u] = "curses"
      PROVE  CatsOf(Others(u, b)) = {c \in CatsOf(b) : ~Begun(u, c)}
  <2>1. \A l : Hits(u, l) <=> Begun(u, l.cat)
      BY <1>3 DEF Hits, Begun
  <2> QED BY <2>1, OthersLeft DEF CatsOf
<1> QED BY <1>1, <1>2, <1>3, NoLine

\* A run that is not spoiled has one program at a time.
LEMMA AloneNext ==
    ASSUME Typed, Control, Kept, NEW u \in Users, NextOf(u), ~spoiled'
    PROVE  /\ ~spoiled
           /\ \A v \in Users \ {u} : prog[v] = "none" /\ prog'[v] = "none"
           /\ IF prog[u] = "none" THEN Safe(Lines("title")) /\ \E p \in Programs : Start(u, p)
                                  ELSE KeptBy(u)
<1>1. CASE \E p \in Programs : Start(u, p)
  <2>1. ~spoiled /\ Running = {} /\ prog[u] = "none"
      BY <1>1 DEF Start
  <2>2. \A v \in Users \ {u} : prog[v] = "none" /\ prog'[v] = "none"
      BY <1>1, <2>1, OthersNext DEF Running, OthersSame
  <2> QED BY <1>1, <2>1, <2>2 DEF Kept
<1>2. CASE ~(\E p \in Programs : Start(u, p))
  <2>1. prog[u] # "none"
    <3>1. prog[u] = "none" => step[u] = "menu"
        BY DEF Control
    <3> QED BY <1>2, <3>1 DEF NextOf, Add, AddRefused, FindCd, EnterTrack, EntryEnds, Remove, Update, Begin, PerlRead,
            PerlDies, PerlFilter, PerlPatternDies, PerlOpen, PerlWrite, Copy, CopyDies, Rename, Unlink, Fill, Quit, QuitPerl,
            Kill, InterruptShell, InterruptPerl
  <2>2. ~spoiled
      BY <1>2 DEF NextOf, Add, AddRefused, FindCd, EnterTrack, EntryEnds, Remove, Update, Begin, PerlRead,
            PerlDies, PerlFilter, PerlPatternDies, PerlOpen, PerlWrite, Copy, CopyDies, Rename, Unlink, Fill, Quit, QuitPerl,
            Kill, InterruptShell, InterruptPerl, ghosts
  <2>3. KeptBy(u) /\ \A v \in Users \ {u} : prog[v] = "none"
      BY <2>1, <2>2 DEF Kept, Running
  <2> QED BY <2>1, <2>2, <2>3, OthersNext DEF OthersSame
<1> QED BY <1>1, <1>2

LEMMA KeptByNext ==
    ASSUME Typed, Control, Kept, NEW u \in Users, NextOf(u), ~spoiled'
    PROVE  IF prog'[u] = "none" THEN Safe(Lines("title"))' ELSE KeptBy(u)'
<1>1. /\ prog[u] = "none" => Safe(Lines("title")) /\ file[u] = "title"
      /\ prog[u] # "none" => KeptBy(u) /\ ~(\E p \in Programs : Start(u, p))
  <2>1. prog[u] # "none" => ~(\E p \in Programs : Start(u, p))
      BY DEF Start
  <2> QED BY <2>1, AloneNext DEF Control
<1>2. /\ DOMAIN prog = Users /\ DOMAIN step = Users /\ DOMAIN file = Users /\ DOMAIN mem = Users
      /\ DOMAIN cdcatnum = Users /\ DOMAIN goal = Users
      /\ file[u] \in {"title", "tracks"} /\ mem[u] \in [Data -> LineBags] /\ "title" \in Data /\ "tracks" \in Data
      /\ \A f : Lines(f) \in LineBags
    BY LinesTyped DEF Typed, Data
<1>3. Temp(u) \notin {"title", "tracks"}
    BY Constants DEF Temp
<1>4. /\ prog[u] = "none" => step[u] = "menu"
      /\ step[u] \in {"copy", "swap", "fill"} => prog[u] \in {"shell", "curses"}
      /\ step[u] \in {"read", "filter", "open", "write"} => prog[u] = "perl"
    BY DEF Control
\* the lines with the titles stay
<1>5. disk' = disk => Lines("title")' = Lines("title") /\ \A f : Lines(f)' = Lines(f)
    BY DEF Lines
<1>6. ASSUME NEW f, NEW b, f # "title", Put(f, b) PROVE Lines("title")' = Lines("title")
    BY <1>6, PutLines
<1>7. ASSUME NEW f, f # "title", Drop(f) PROVE Lines("title")' = Lines("title")
    BY <1>7, DropLines
<1>8. ASSUME Lines("title")' = Lines("title"), UNCHANGED <<owed, razed>>, Safe(Lines("title"))
      PROVE  Safe(Lines("title"))'
    BY <1>8 DEF Safe
<1>9. ASSUME mem'[u]["title"] = mem[u]["title"], UNCHANGED <<owed, razed>>, Safe(mem[u]["title"])
      PROVE  Safe(mem[u]["title"])'
    BY <1>9 DEF Safe
<1>10. Gone(u) => prog'[u] = "none" /\ UNCHANGED <<owed, razed>>
    BY <1>2 DEF Gone
<1>11. ASSUME Done(u)
       PROVE  /\ file[u] = "title" => file'[u] = "tracks"
              /\ step'[u] \in {"copy", "filter", "menu", "entry"}
              /\ file[u] = "tracks" => step'[u] \in {"menu", "entry"}
    BY <1>2, <1>11 DEF Done, Goto
\* a program at a step where the two clauses on the disk and in memory are all there is
<1>12. ASSUME prog'[u] \in {"shell", "curses"}, Safe(Lines("title"))',
              step'[u] \in {"menu", "entry"} \/ file'[u] = "tracks",
              step'[u] \notin {"read", "open", "write"}
       PROVE  KeptBy(u)'
    BY <1>12 DEF KeptBy
<1>13. ASSUME prog'[u] = "perl", Safe(mem[u]["title"])',
              step'[u] \in {"menu", "entry"} \/ (step'[u] = "filter" /\ file'[u] = "tracks")
              \/ (step'[u] \in {"open", "write"} /\ file'[u] = "title")
       PROVE  KeptBy(u)'
    BY <1>13 DEF KeptBy
<1>a. ASSUME NEW p \in Programs, Start(u, p) PROVE KeptBy(u)'
  <2>1. /\ prog[u] = "none" /\ prog'[u] = p /\ step'[u] = (IF p = "perl" THEN "read" ELSE "menu")
        /\ file'[u] = "title" /\ mem' = mem /\ UNCHANGED <<owed, razed>>
      BY <1>1, <1>2, <1>a DEF Start, Goto
  <2>2. Lines("title")' = Lines("title")
    <3>1. u # "title"
        BY Constants
    <3> QED BY <1>a, <3>1 DEF Start, Lines, Data
  <2>3. Safe(Lines("title"))'
      BY <1>1, <1>8, <2>1, <2>2
  <2> QED BY <2>1, <2>3 DEF KeptBy, Programs
<1>b. ASSUME NEW c \in Cats, Add(u, c) PROVE KeptBy(u)'
  <2>1. Title(c) \in Line /\ Title(c).cat = c
      BY DEF Title, Line
  <2>2. /\ prog[u] # "none" /\ step[u] = "menu" /\ Insert(u, "title", Title(c)) /\ prog' = prog
        /\ step'[u] \in {"menu", "entry"} /\ owed' \ razed' \subseteq (owed \ razed) \cup {c}
      BY <1>2, <1>b DEF Add, Keep, Goto
  <2>3. CASE prog[u] = "perl"
    <3>1. mem'[u]["title"] = With(mem[u]["title"], Title(c))
        BY <1>2, <2>2, <2>3 DEF Insert
    <3>2. BagToSet(mem'[u]["title"]) = BagToSet(mem[u]["title"]) \cup {Title(c)}
        BY <1>2, <2>1, <3>1, LineJoined
    <3>3. Safe(mem[u]["title"])'
        BY <1>1, <2>2, <2>3, <3>2 DEF Safe, KeptBy
    <3> QED BY <1>13, <2>2, <2>3, <3>3
  <2>4. CASE prog[u] # "perl"
    <3>1. Lines("title")' = With(Lines("title"), Title(c))
        BY <2>2, <2>4, PutLines DEF Insert
    <3>2. BagToSet(Lines("title"))' = BagToSet(Lines("title")) \cup {Title(c)}
        BY <1>2, <2>1, <3>1, LineJoined
    <3>3. prog[u] \in {"shell", "curses"}
        BY <2>2, <2>4 DEF Typed, Programs
    <3>4. Safe(Lines("title"))'
        BY <1>1, <2>2, <3>2, <3>3 DEF Safe, KeptBy
    <3> QED BY <1>12, <2>2, <3>3, <3>4
  <2> QED BY <2>3, <2>4
\* nothing changes but the current CD, the files of the tracks and of the output
<1>14. ASSUME prog[u] # "none", prog' = prog, step[u] \in {"menu", "entry"}, step'[u] \in {"menu", "entry"},
              Lines("title")' = Lines("title"), mem'[u]["title"] = mem[u]["title"], UNCHANGED <<owed, razed>>
       PROVE  KeptBy(u)'
  <2>1. CASE prog[u] = "perl"
      BY <1>1, <1>9, <1>13, <1>14, <2>1 DEF KeptBy
  <2>2. CASE prog[u] \in {"shell", "curses"}
      BY <1>1, <1>8, <1>12, <1>14, <2>2 DEF KeptBy
  <2> QED BY <1>14, <2>1, <2>2 DEF Typed, Programs
<1>c. ASSUME (\E c \in Cats : AddRefused(u, c)) \/ (\E hit \in SUBSET Cats : FindCd(u, hit)) PROVE KeptBy(u)'
    BY <1>5, <1>14, <1>c DEF AddRefused, FindCd, Keep, ghosts
<1>d. CASE EnterTrack(u)
  <2>1. Lines("title")' = Lines("title") /\ mem'[u]["title"] = mem[u]["title"]
      BY <1>2, <1>5, <1>6, <1>d DEF EnterTrack, Insert
  <2> QED BY <1>4, <1>14, <1>d, <2>1 DEF EnterTrack, Keep, ghosts
<1>e. CASE EntryEnds(u)
  <2>1. Lines("title")' = Lines("title") /\ step'[u] = "menu" /\ prog' = prog /\ UNCHANGED <<owed, razed>>
      BY <1>2, <1>5, <1>6, <1>e DEF EntryEnds, Goto, Keep, ghosts
  <2>2. CASE prog[u] = "curses"
      BY <1>1, <1>8, <1>12, <1>e, <2>1, <2>2 DEF KeptBy, EntryEnds
  <2>3. CASE prog[u] # "curses"
      BY <1>4, <1>14, <1>e, <2>1, <2>3 DEF EntryEnds
  <2> QED BY <2>2, <2>3
<1>f. CASE Remove(u)
  <2>1. /\ prog' = prog /\ prog[u] # "none" /\ step[u] = "menu" /\ disk' = disk /\ mem' = mem /\ cdcatnum' = cdcatnum
        /\ step'[u] = (IF prog[u] = "perl" THEN "filter" ELSE "copy") /\ file'[u] = "title"
        /\ owed' = owed \ {cdcatnum[u]} /\ razed' = razed \cup {c \in Cats \ {cdcatnum[u]} : Hits(u, Title(c))}
      BY <1>2, <1>f DEF Remove, Begin, Keep, Goto
  <2>2. \A c : Hits(u, Title(c))' <=> Hits(u, Title(c))
      BY <2>1 DEF Hits, Title
  <2>3. \A c \in owed' \ razed' : c \in owed \ razed /\ ~Hits(u, Title(c))
      BY <2>1 DEF Typed
  <2>4. Lines("title")' = Lines("title")
      BY <1>5, <2>1
  <2>5. prog[u] \in {"shell", "curses", "perl"}
      BY <2>1 DEF Typed, Programs
  <2>6. prog[u] = "perl" => Safe(mem[u]["title"])'
      BY <1>1, <2>1, <2>3 DEF KeptBy, Safe
  <2>7. prog[u] # "perl" => Safe(Lines("title"))'
      BY <1>1, <2>1, <2>3, <2>4, <2>5 DEF KeptBy, Safe
  <2> QED BY <2>1, <2>2, <2>3, <2>5, <2>6, <2>7 DEF KeptBy
<1>g. CASE Update(u)
  <2>1. /\ prog' = prog /\ prog[u] # "none" /\ step[u] = "menu" /\ disk' = disk /\ mem' = mem /\ UNCHANGED <<owed, razed>>
        /\ step'[u] = (IF prog[u] = "perl" THEN "filter" ELSE "copy") /\ file'[u] = "tracks"
      BY <1>2, <1>g DEF Update, Begin, Keep, Goto
  <2>2. CASE prog[u] = "perl"
      BY <1>1, <1>9, <1>13, <2>1, <2>2 DEF KeptBy
  <2>3. CASE prog[u] \in {"shell", "curses"}
      BY <1>1, <1>5, <1>8, <1>12, <2>1, <2>3 DEF KeptBy
  <2> QED BY <2>1, <2>2, <2>3 DEF Typed, Programs
<1>h. CASE PerlRead(u)
  <2>1. /\ prog[u] = "perl" /\ step[u] = "read" /\ prog' = prog /\ disk' = disk /\ UNCHANGED <<owed, razed>>
        /\ file[u] \in DOMAIN disk /\ mem' = [mem EXCEPT ![u][file[u]] = disk[file[u]]]
        /\ file[u] = "title" => file'[u] = "tracks" /\ step' = step
        /\ file[u] = "tracks" => file'[u] = "title" /\ step'[u] = "menu"
      BY <1>2, <1>h DEF PerlRead, Keep, Goto, ghosts
  <2>2. Safe(Lines("title"))'
      BY <1>1, <1>5, <1>8, <2>1 DEF KeptBy
  <2>3. CASE file[u] = "title"
    <3>1. mem'[u]["title"] = Lines("title")
        BY <1>2, <2>1, <2>3 DEF Lines
    <3>2. Safe(mem[u]["title"])'
        BY <1>1, <2>1, <3>1 DEF KeptBy, Safe
    <3> QED BY <2>1, <2>2, <2>3, <3>2 DEF KeptBy
  <2>4. CASE file[u] = "tracks"
    <3>1. mem'[u]["title"] = mem[u]["title"]
        BY <1>2, <2>1, <2>4
    <3>2. Safe(mem[u]["title"])'
        BY <1>1, <1>9, <2>1, <2>4, <3>1 DEF KeptBy
    <3> QED BY <1>13, <2>1, <2>4, <3>2
  <2> QED BY <1>2, <2>3, <2>4
<1>i. CASE PerlDies(u)
  <2>1. prog[u] = "perl" /\ step[u] = "read" /\ disk' = disk /\ Gone(u)
      BY <1>i DEF PerlDies
  <2> QED BY <1>1, <1>5, <1>8, <1>10, <2>1 DEF KeptBy
<1>j. CASE PerlFilter(u)
  <2>1. /\ step[u] = "filter" /\ Done(u) /\ disk' = disk /\ prog' = prog /\ UNCHANGED <<owed, razed>>
        /\ mem' = [mem EXCEPT ![u][file[u]] = Others(u, mem[u][file[u]])]
      BY <1>j DEF PerlFilter, Keep, ghosts
  <2>2. prog[u] = "perl" /\ step'[u] \in {"filter", "menu", "entry"}
        /\ (step'[u] = "filter" => file'[u] = "tracks")
      BY <1>2, <1>4, <2>1 DEF Done, Goto
  <2>3. Safe(mem[u]["title"])'
    <3>1. CASE file[u] = "title"
      <4>1. mem'[u]["title"] = Others(u, mem[u]["title"])
          BY <1>2, <2>1, <3>1
      <4>2. BagToSet(mem'[u]["title"]) = {l \in BagToSet(mem[u]["title"]) : ~Hits(u, l)}
          BY <1>2, <4>1, OthersLeft
      <4>3. Safe(mem[u]["title"]) /\ \A c \in owed \ razed : ~Hits(u, Title(c))
          BY <1>1, <2>1, <2>2, <3>1 DEF KeptBy
      <4> QED BY <2>1, <4>2, <4>3 DEF Safe
    <3>2. CASE file[u] = "tracks"
      <4>1. mem'[u]["title"] = mem[u]["title"]
          BY <1>2, <2>1, <3>2
      <4> QED BY <1>1, <1>9, <2>1, <2>2, <4>1 DEF KeptBy
    <3> QED BY <1>2, <3>1, <3>2
  <2> QED BY <1>13, <2>1, <2>2, <2>3
<1>k. CASE PerlOpen(u)
  <2>1. /\ prog[u] = "perl" /\ step[u] = "open" /\ step'[u] = "write" /\ file' = file /\ mem' = mem
        /\ prog' = prog /\ UNCHANGED <<owed, razed>> /\ Put(file[u], EmptyBag)
      BY <1>2, <1>k DEF PerlOpen, Keep, Goto, ghosts
  <2>2. Safe(mem[u]["title"])'
      BY <1>1, <1>9, <2>1 DEF KeptBy
  <2>3. file[u] = "tracks" => Safe(Lines("title"))'
      BY <1>1, <1>6, <1>8, <2>1 DEF KeptBy
  <2> QED BY <2>1, <2>2, <2>3 DEF KeptBy
<1>l. CASE PerlWrite(u)
  <2>1. prog[u] = "perl" /\ step[u] = "write" /\ Put(file[u], mem[u][file[u]]) /\ Safe(mem[u]["title"])
      BY <1>1, <1>l DEF PerlWrite, KeptBy
  <2>2. CASE file[u] = "title"
    <3>1. /\ file'[u] = "tracks" /\ step'[u] = "open" /\ prog' = prog /\ mem' = mem /\ UNCHANGED <<owed, razed>>
        BY <1>2, <1>l, <2>2 DEF PerlWrite, Keep, Goto
    <3>2. Lines("title")' = mem[u]["title"]
      <4>1. Put("title", mem[u]["title"])
          BY <2>1, <2>2
      <4> QED BY <4>1, PutLines
    <3>3. Safe(Lines("title"))' /\ Safe(mem[u]["title"])'
        BY <2>1, <3>1, <3>2 DEF Safe
    <3> QED BY <2>1, <3>1, <3>3 DEF KeptBy
  <2>3. CASE file[u] = "tracks"
    <3>1. Gone(u) /\ Safe(Lines("title"))
        BY <1>1, <1>l, <2>1, <2>3 DEF PerlWrite, KeptBy
    <3> QED BY <1>6, <1>8, <1>10, <2>1, <2>3, <3>1
  <2> QED BY <1>2, <2>2, <2>3
<1>m. CASE Copy(u)
  <2>1. /\ step[u] = "copy" /\ step'[u] = "swap" /\ file' = file /\ prog' = prog /\ UNCHANGED <<owed, razed>>
        /\ Put(Temp(u), Others(u, Lines(file[u])))
      BY <1>2, <1>m DEF Copy, Keep, Goto, ghosts
  <2>2. prog[u] \in {"shell", "curses"} /\ Temp(u)' = Temp(u)
      BY <1>4, <2>1 DEF Temp
  <2>3. Safe(Lines("title"))'
      BY <1>1, <1>3, <1>6, <1>8, <2>1, <2>2 DEF KeptBy
  <2>4. file[u] = "title" => Safe(Lines(Temp(u)))'
    <3>1. Lines(Temp(u))' = Others(u, Lines(file[u]))
        BY <2>1, <2>2, PutLines
    <3>2. BagToSet(Lines(Temp(u)))' = {l \in BagToSet(Lines(file[u])) : ~Hits(u, l)}
        BY <1>2, <3>1, OthersLeft
    <3> QED BY <1>1, <2>1, <2>2, <3>2 DEF Safe, KeptBy
  <2> QED BY <2>1, <2>2, <2>3, <2>4 DEF KeptBy
<1>n. CASE CopyDies(u)
  <2>1. prog[u] = "curses" /\ step[u] = "copy" /\ Put(Temp(u), EmptyBag) /\ Gone(u)
      BY <1>n DEF CopyDies
  <2> QED BY <1>1, <1>3, <1>6, <1>8, <1>10, <2>1 DEF KeptBy
\* the temporary file takes the place of the file
<1>15. ASSUME step[u] \in {"swap", "fill"}, Move(Temp(u), file[u]), Done(u), Keep, UNCHANGED ghosts
       PROVE  KeptBy(u)'
  <2>1. /\ prog[u] \in {"shell", "curses"} /\ prog' = prog /\ UNCHANGED <<owed, razed>>
        /\ step'[u] \in {"copy", "filter", "menu", "entry"} /\ (step'[u] \in {"copy", "filter"} => file'[u] = "tracks")
      BY <1>2, <1>4, <1>11, <1>15 DEF Keep, ghosts
  <2>2. CASE file[u] = "title"
    <3>1. Lines("title")' = Lines(Temp(u)) \/ (Lines(Temp(u)) = EmptyBag)
        BY <1>3, <1>15, <2>2, MoveLines
    <3>2. Safe(Lines(Temp(u)))
        BY <1>1, <1>15, <2>1, <2>2 DEF KeptBy
    <3>3. Safe(Lines("title"))'
        BY <2>1, <3>1, <3>2, NoLine DEF Safe
    <3> QED BY <1>12, <2>1, <3>3
  <2>3. CASE file[u] = "tracks"
    <3>1. Lines("title")' = Lines("title")
        BY <1>3, <1>5, <1>15, <2>3, MoveLines
    <3> QED BY <1>1, <1>8, <1>12, <1>15, <2>1, <2>3, <3>1 DEF KeptBy
  <2> QED BY <1>2, <2>2, <2>3
<1>o. CASE Rename(u) \/ Fill(u)
  <2>1. step[u] \in {"swap", "fill"} /\ Move(Temp(u), file[u]) /\ Done(u) /\ Keep
      BY <1>o DEF Rename, Fill
  <2>2. UNCHANGED ghosts
      BY <1>o DEF Rename, Fill
  <2>3. prog'[u] # "none"
      BY <1>4, <2>1 DEF Keep
  <2>4. KeptBy(u)'
      BY <1>15, <2>1, <2>2
  <2> QED BY <2>3, <2>4
<1>p. CASE Unlink(u)
  <2>1. /\ step[u] = "swap" /\ step'[u] = "fill" /\ file' = file /\ prog' = prog /\ UNCHANGED <<owed, razed>>
        /\ Put(file[u], EmptyBag) \/ Drop(file[u])
      BY <1>2, <1>p DEF Unlink, Keep, Goto, ghosts
  <2>2. prog[u] \in {"shell", "curses"} /\ Temp(u)' = Temp(u)
      BY <1>4, <2>1 DEF Temp
  <2>3. file[u] = "tracks" => Safe(Lines("title"))'
      BY <1>1, <1>6, <1>7, <1>8, <2>1, <2>2 DEF KeptBy
  <2>4. file[u] = "title" => Safe(Lines(Temp(u)))'
    <3>1. Lines(Temp(u))' = Lines(Temp(u))
        BY <1>2, <1>3, <2>1, <2>2, PutLines, DropLines
    <3>2. BagToSet(Lines(Temp(u)))' = BagToSet(Lines(Temp(u)))
        BY <3>1
    <3> QED BY <1>1, <2>1, <2>2, <3>2 DEF Safe, KeptBy
  <2> QED BY <1>2, <2>1, <2>2, <2>3, <2>4 DEF KeptBy
<1>q. CASE Quit(u)
  <2>1. prog[u] \in {"shell", "curses"} /\ step[u] = "menu" /\ Gone(u) /\ (Drop(Temp(u)) \/ disk' = disk)
      BY <1>q DEF Quit
  <2> QED BY <1>1, <1>3, <1>5, <1>7, <1>8, <1>10, <2>1 DEF KeptBy
\* a program that is stopped
<1>16. ASSUME prog[u] # "none", Saved(u) PROVE Safe(Lines("title"))
  <2>1. CASE prog[u] = "perl"
    <3>1. BagToSet(mem[u]["title"]) \subseteq BagToSet(Lines("title"))
        BY <1>16, <2>1 DEF Saved
    <3> QED BY <1>1, <2>1, <3>1 DEF KeptBy, Safe
  <2>2. CASE prog[u] \in {"shell", "curses"}
      BY <1>1, <1>16, <2>2 DEF KeptBy, Saved
  <2> QED BY <1>16, <2>1, <2>2 DEF Typed, Programs
<1>r. CASE Kill(u) \/ InterruptShell(u) \/ PerlPatternDies(u)
  <2>1. prog[u] # "none" /\ Saved(u) /\ Gone(u) /\ (Drop(Temp(u)) \/ disk' = disk)
      BY <1>r DEF Kill, InterruptShell, PerlPatternDies
  <2> QED BY <1>3, <1>5, <1>7, <1>8, <1>10, <1>16, <2>1
<1>s. CASE QuitPerl(u) \/ InterruptPerl(u)
  <2>1. /\ prog[u] = "perl" /\ step[u] # "read" /\ prog' = prog /\ mem' = mem /\ UNCHANGED <<owed, razed>>
        /\ step'[u] = "open" /\ file'[u] = "title"
      BY <1>2, <1>s DEF QuitPerl, InterruptPerl, Keep, Goto, ghosts
  <2> QED BY <1>1, <1>9, <1>13, <2>1 DEF KeptBy
\* only a program that ends is gone
<1>17. ASSUME prog'[u] = "none"
       PROVE  \/ PerlDies(u) \/ PerlPatternDies(u) \/ PerlWrite(u) \/ CopyDies(u) \/ Quit(u) \/ Kill(u)
              \/ InterruptShell(u)
  <2>1. ASSUME NEW p \in Programs, Start(u, p) PROVE FALSE
      BY <1>2, <1>17, <2>1 DEF Start, Programs
  <2>2. prog[u] # "none"
      BY <2>1, AloneNext
  <2>3. prog' # prog
      BY <1>17, <2>2
  <2> QED BY <2>1, <2>3 DEF NextOf, Add, AddRefused, FindCd, EnterTrack, EntryEnds, Remove, Update, Begin,
            PerlRead, PerlFilter, PerlOpen, Copy, Rename, Unlink, Fill, QuitPerl, InterruptPerl, Keep
<1>18. CASE prog'[u] = "none"
    BY <1>17, <1>18, <1>i, <1>l, <1>n, <1>q, <1>r
<1>19. CASE prog'[u] # "none"
    BY <1>19, <1>a, <1>b, <1>c, <1>d, <1>e, <1>f, <1>g, <1>h, <1>i, <1>j, <1>k, <1>l, <1>m, <1>n, <1>o, <1>p,
       <1>q, <1>r, <1>s DEF NextOf
<1> QED BY <1>18, <1>19

LEMMA KeptNext ==
    ASSUME Typed, Control, Kept, NEW u \in Users, NextOf(u)
    PROVE  Kept'
<1> SUFFICES ASSUME ~spoiled'
             PROVE  /\ \A v, w \in Users : prog'[v] # "none" /\ prog'[w] # "none" => v = w
                    /\ Running' = {} => Safe(Lines("title"))'
                    /\ \A v \in Running' : KeptBy(v)'
    BY DEF Kept
<1>1. \A v \in Users \ {u} : prog'[v] = "none"
    BY AloneNext
<1>2. IF prog'[u] = "none" THEN Safe(Lines("title"))' ELSE KeptBy(u)'
    BY KeptByNext
<1>3. Running' = IF prog'[u] = "none" THEN {} ELSE {u}
    BY <1>1 DEF Running
<1> QED BY <1>1, <1>2, <1>3

-----------------------------------------------------------------------------
(* No tracks without a title *)

\* While only curses was used and nobody stopped it, the program that acts is curses.
LEMMA CursesNext ==
    ASSUME Typed, Control, Kept, NEW u \in Users, NextOf(u), OnlyCurses'
    PROVE  /\ OnlyCurses
           /\ prog[u] # "none" => prog[u] = "curses" /\ ~(\E p \in Programs : Start(u, p))
           /\ prog[u] = "none" => Start(u, "curses")
           /\ ~Kill(u) /\ ~InterruptShell(u) /\ ~InterruptPerl(u)
<1>1. ~spoiled /\ (prog[u] = "none" => \E p \in Programs : Start(u, p))
    BY AloneNext DEF OnlyCurses
<1>2. used \subseteq used' /\ used' \subseteq {"curses"} /\ breaks' = 0 /\ breaks \in Nat
    BY OthersNext DEF OnlyCurses, Typed
<1>3. breaks' = breaks \/ (breaks' = breaks + 1 /\ (Kill(u) \/ InterruptShell(u) \/ InterruptPerl(u)))
    BY DEF NextOf, Start, Add, AddRefused, FindCd, EnterTrack, EntryEnds, Remove, Update, Begin, PerlRead,
           PerlDies, PerlFilter, PerlPatternDies, PerlOpen, PerlWrite, Copy, CopyDies, Rename, Unlink, Fill, Quit, QuitPerl,
           Kill, InterruptShell, InterruptPerl, Keep, Break
<1>4. breaks = 0 /\ breaks' = breaks
    BY <1>2, <1>3
<1>5. ~Kill(u) /\ ~InterruptShell(u) /\ ~InterruptPerl(u)
    BY <1>4 DEF Kill, InterruptShell, InterruptPerl, Break
<1>6. \A p \in Programs : Start(u, p) => p = "curses" /\ prog[u] = "none"
    BY <1>2 DEF Start
<1>7. prog[u] # "none" => prog[u] = "curses"
    BY <1>2 DEF Control
<1> QED BY <1>1, <1>2, <1>4, <1>5, <1>6, <1>7 DEF OnlyCurses

LEMMA TitledByNext ==
    ASSUME Typed, Control, Kept, TracksTitled, NEW u \in Users, NextOf(u), OnlyCurses'
    PROVE  IF prog'[u] = "none" THEN Titled(Lines("tracks"))' ELSE TitledBy(u)'
<1>1. /\ prog[u] = "none" => Start(u, "curses") /\ Titled(Lines("tracks"))
      /\ prog[u] # "none" => prog[u] = "curses" /\ TitledBy(u) /\ ~(\E p \in Programs : Start(u, p))
      /\ ~Kill(u) /\ ~InterruptShell(u) /\ ~InterruptPerl(u)
  <2>1. \A v \in Users \ {u} : prog[v] = "none"
      BY AloneNext DEF OnlyCurses
  <2>2. prog[u] = "none" => Running = {}
      BY <2>1 DEF Running
  <2> QED BY <2>2, CursesNext DEF TracksTitled, Running
<1>2. /\ DOMAIN prog = Users /\ DOMAIN step = Users /\ DOMAIN file = Users /\ DOMAIN mem = Users
      /\ DOMAIN cdcatnum = Users /\ DOMAIN goal = Users /\ goal[u] \in {"remove", "update"}
      /\ file[u] \in {"title", "tracks"} /\ mem[u] \in [Data -> LineBags] /\ "title" \in Data /\ "tracks" \in Data
      /\ \A f : Lines(f) \in LineBags
    BY LinesTyped DEF Typed, Data
<1>3. prog[u] = "none" => step[u] = "menu" /\ mem[u] = NoLines /\ cdcatnum[u] = NoCat
    BY DEF Control
<1>4. prog[u] = "curses" => Temp(u) = "cdb.tmp" /\ step[u] \notin {"read", "filter", "open", "write"}
    BY DEF Temp, Control
<1>5. disk' = disk => \A f : Lines(f)' = Lines(f)
    BY DEF Lines
<1>6. CatsOf(NoLines["tracks"]) = {}
    BY <1>2, NoLine DEF NoLines
<1>7. Gone(u) => prog'[u] = "none"
    BY <1>2 DEF Gone
<1>8. ASSUME \A f \in Data : CatsOf(Lines(f))' = CatsOf(Lines(f)), Titled(Lines("tracks"))
      PROVE  Titled(Lines("tracks"))'
    BY <1>2, <1>8 DEF Titled
\* in the menu and while tracks are entered
<1>9. ASSUME step'[u] \in {"menu", "entry"}, Titled(Lines("tracks"))', goal'[u] # "update" \/ step'[u] \in {"menu", "entry"},
             cdcatnum'[u] \in CatsOf(Lines("title"))' \cup {NoCat},
             CatsOf(mem'[u]["tracks"]) \subseteq (IF step'[u] = "entry" THEN {cdcatnum'[u]} ELSE {})
      PROVE  TitledBy(u)'
    BY <1>9 DEF TitledBy
<1>a. CASE prog[u] = "none"
  <2>1. /\ disk' = disk /\ mem' = mem /\ cdcatnum' = cdcatnum /\ step'[u] = "menu"
      BY <1>1, <1>2, <1>a DEF Start, Goto
  <2>2. Titled(Lines("tracks"))'
      BY <1>1, <1>5, <1>8, <1>a, <2>1
  <2>3. TitledBy(u)'
      BY <1>3, <1>6, <1>9, <1>a, <2>1, <2>2
  <2> QED BY <2>2, <2>3
<1> SUFFICES ASSUME prog[u] = "curses"
             PROVE  IF prog'[u] = "none" THEN Titled(Lines("tracks"))' ELSE TitledBy(u)'
    BY <1>1, <1>a
<1>10. TitledBy(u) /\ Temp(u) = "cdb.tmp"
    BY <1>1, <1>4
<1>11. prog' = prog => prog'[u] # "none"
    OBVIOUS
<1>12. mem' = mem /\ step[u] # "entry" => CatsOf(mem'[u]["tracks"]) = {}
    BY <1>10 DEF TitledBy
<1>b. ASSUME NEW c \in Cats, Add(u, c) PROVE TitledBy(u)' /\ prog' = prog
  <2>1. Title(c) \in Line /\ Title(c).cat = c
      BY DEF Title, Line
  <2>2. /\ step[u] = "menu" /\ step' = step /\ Put("title", With(Lines("title"), Title(c)))
        /\ mem' = mem /\ prog' = prog /\ cdcatnum'[u] = c
      BY <1>2, <1>b DEF Add, Insert, Keep
  <2>3. Lines("title")' = With(Lines("title"), Title(c)) /\ Lines("tracks")' = Lines("tracks")
      BY <2>2, PutLines
  <2>4. CatsOf(Lines("title"))' = CatsOf(Lines("title")) \cup {c}
      BY <1>2, <2>1, <2>3, CatsLemmas
  <2>5. CatsOf(Lines("tracks"))' = CatsOf(Lines("tracks"))
      BY <2>3 DEF CatsOf
  <2>6. Titled(Lines("tracks"))'
      BY <1>10, <2>2, <2>4, <2>5 DEF Titled, TitledBy
  <2> QED BY <1>9, <1>12, <2>2, <2>4, <2>6
<1>c. ASSUME NEW hit \in SUBSET Cats, FindCd(u, hit) PROVE TitledBy(u)' /\ prog' = prog
  <2>1. step[u] = "menu" /\ step' = step /\ disk' = disk /\ mem' = mem /\ prog' = prog
      BY <1>c DEF FindCd, Keep
  <2>2. cdcatnum'[u] \in CatsOf(Lines("title")) \cup {NoCat}
    <3>1. CASE cdcatnum' = [cdcatnum EXCEPT ![u] = NoCat]
        BY <1>2, <3>1
    <3>2. CASE \E l \in BagToSet(Lines("title")) : cdcatnum' = [cdcatnum EXCEPT ![u] = l.cat]
        BY <1>2, <3>2 DEF CatsOf
    <3> QED BY <1>c, <3>1, <3>2 DEF FindCd, Titles, BagToSet
  <2>3. \A f \in Data : CatsOf(Lines(f))' = CatsOf(Lines(f))
      BY <1>5, <2>1 DEF CatsOf
  <2>4. Titled(Lines("tracks"))'
      BY <1>8, <1>10, <2>1, <2>3 DEF TitledBy
  <2> QED BY <1>2, <1>9, <1>12, <2>1, <2>2, <2>3, <2>4
<1>d. ASSUME EnterTrack(u) PROVE TitledBy(u)' /\ prog' = prog
  <2> DEFINE l == [cat |-> cdcatnum[u], no |-> cdtrack[u]]
  <2>1. /\ step[u] = "entry" /\ step' = step /\ disk' = disk /\ prog' = prog /\ cdcatnum' = cdcatnum /\ goal' = goal
        /\ mem' = [mem EXCEPT ![u]["tracks"] = With(@, l)]
      BY <1>d DEF EnterTrack, Keep
  <2>2. l \in Line /\ l.cat = cdcatnum[u]
      BY <2>1 DEF Control, Typed, Line
  <2>3. mem'[u]["tracks"] = With(mem[u]["tracks"], l)
      BY <1>2, <2>1
  <2> HIDE DEF l
  <2>4. CatsOf(mem'[u]["tracks"]) = CatsOf(mem[u]["tracks"]) \cup {cdcatnum[u]}
      BY <1>2, <2>2, <2>3, CatsLemmas
  <2>5. CatsOf(mem'[u]["tracks"]) \subseteq {cdcatnum'[u]}
      BY <1>10, <2>1, <2>4 DEF TitledBy
  <2>6. \A f \in Data : CatsOf(Lines(f))' = CatsOf(Lines(f))
      BY <1>5, <2>1 DEF CatsOf
  <2>7. Titled(Lines("tracks"))' /\ cdcatnum'[u] \in CatsOf(Lines("title"))' \cup {NoCat}
      BY <1>2, <1>8, <1>10, <2>1, <2>6 DEF TitledBy
  <2> QED BY <1>9, <2>1, <2>5, <2>7
<1>e. ASSUME EntryEnds(u) PROVE TitledBy(u)' /\ prog' = prog
  <2>1. /\ step[u] = "entry" /\ step'[u] = "menu" /\ prog' = prog /\ cdcatnum' = cdcatnum
        /\ Put("tracks", Lines("tracks") (+) mem[u]["tracks"]) /\ mem'[u] = NoLines
      BY <1>2, <1>e DEF EntryEnds, Keep, Goto
  <2>2. Lines("title")' = Lines("title") /\ Lines("tracks")' = Lines("tracks") (+) mem[u]["tracks"]
    <3>1. \A g : Lines(g)' = IF g = "tracks" THEN Lines("tracks") (+) mem[u]["tracks"] ELSE Lines(g)
        BY <2>1, PutLines
    <3> QED BY <3>1
  <2>3. CatsOf(Lines("tracks"))' = CatsOf(Lines("tracks")) \cup CatsOf(mem[u]["tracks"])
      BY <1>2, <2>2, CatsLemmas
  <2>4. CatsOf(Lines("title"))' = CatsOf(Lines("title"))
      BY <2>2 DEF CatsOf
  <2>5. cdcatnum[u] \in CatsOf(Lines("title"))
      BY <1>10, <2>1, Constants DEF Control, TitledBy
  <2>6. Titled(Lines("tracks"))'
      BY <1>10, <2>1, <2>3, <2>4, <2>5 DEF Titled, TitledBy
  <2> QED BY <1>6, <1>9, <2>1, <2>4, <2>5, <2>6
<1>f. ASSUME Remove(u) PROVE TitledBy(u)' /\ prog' = prog
  <2>1. /\ step[u] = "menu" /\ disk' = disk /\ mem' = mem /\ prog' = prog
        /\ step'[u] = "copy" /\ file'[u] = "title" /\ goal'[u] = "remove"
      BY <1>2, <1>f DEF Remove, Begin, Keep, Goto
  <2>2. \A f \in Data : CatsOf(Lines(f))' = CatsOf(Lines(f))
      BY <1>5, <2>1 DEF CatsOf
  <2>3. Titled(Lines("tracks"))'
      BY <1>8, <1>10, <2>1, <2>2 DEF TitledBy
  <2> QED BY <1>12, <2>1, <2>3 DEF TitledBy
<1>g. ASSUME Update(u) PROVE TitledBy(u)' /\ prog' = prog
  <2>1. /\ step[u] = "menu" /\ disk' = disk /\ mem' = mem /\ prog' = prog /\ cdcatnum' = cdcatnum
        /\ step'[u] = "copy" /\ file'[u] = "tracks"
      BY <1>2, <1>g DEF Update, Begin, Keep, Goto
  <2>2. CatsOf(Lines("title"))' = CatsOf(Lines("title")) /\ CatsOf(Lines("tracks"))' = CatsOf(Lines("tracks"))
      BY <1>5, <2>1 DEF CatsOf
  <2>3. LeftBy(u)' \subseteq CatsOf(Lines("tracks"))
      BY <2>2 DEF LeftBy
  <2>4. LeftBy(u)' \subseteq CatsOf(Lines("title"))'
      BY <1>10, <2>1, <2>2, <2>3 DEF Titled, TitledBy
  <2>5. cdcatnum'[u] \in CatsOf(Lines("title"))' \cup {NoCat}
      BY <1>10, <2>1, <2>2 DEF TitledBy
  <2> QED BY <1>12, <2>1, <2>4, <2>5 DEF TitledBy
<1>h. ASSUME Copy(u) PROVE TitledBy(u)' /\ prog' = prog
  <2>1. /\ step[u] = "copy" /\ step'[u] = "swap" /\ UNCHANGED <<file, prog, cdcatnum, mem, goal>>
        /\ Put("cdb.tmp", Others(u, Lines(file[u])))
      BY <1>2, <1>10, <1>h DEF Copy, Keep, Goto
  <2>2. /\ Lines("cdb.tmp")' = Others(u, Lines(file[u]))
        /\ Lines("title")' = Lines("title") /\ Lines("tracks")' = Lines("tracks")
    <3>1. \A g : Lines(g)' = IF g = "cdb.tmp" THEN Others(u, Lines(file[u])) ELSE Lines(g)
        BY <2>1, PutLines
    <3> QED BY <3>1
  <2>3. /\ CatsOf(Lines("cdb.tmp"))' = {c \in CatsOf(Lines(file[u])) : ~Begun(u, c)}
        /\ CatsOf(Lines("title"))' = CatsOf(Lines("title")) /\ CatsOf(Lines("tracks"))' = CatsOf(Lines("tracks"))
      BY <1>2, <2>2, CatsLemmas DEF CatsOf
  <2>4. (\A c : Begun(u, c)' <=> Begun(u, c)) /\ Temp(u)' = "cdb.tmp"
      BY <1>10, <2>1 DEF Begun, Temp
  <2>5. LeftBy(u)' = LeftBy(u)
      BY <2>3, <2>4 DEF LeftBy
  <2>6. file[u] = "title" => LeftBy(u)' \subseteq CatsOf(Lines("cdb.tmp"))'
      BY <1>10, <2>1, <2>3, <2>5 DEF LeftBy, Titled, TitledBy
  <2>7. file[u] = "tracks" => CatsOf(Lines("cdb.tmp"))' \subseteq CatsOf(Lines("title"))'
      BY <1>10, <2>1, <2>3 DEF LeftBy, TitledBy
  <2>8. goal'[u] = "update" => cdcatnum'[u] \in CatsOf(Lines("title"))' \cup {NoCat}
      BY <1>10, <2>1, <2>3 DEF TitledBy
  <2> QED BY <1>12, <2>1, <2>4, <2>6, <2>7, <2>8 DEF TitledBy, Titled
<1>i. ASSUME CopyDies(u) PROVE Titled(Lines("tracks"))' /\ prog'[u] = "none"
  <2>1. step[u] = "copy" /\ Put("cdb.tmp", EmptyBag) /\ Gone(u) /\ file[u] \notin DOMAIN disk
      BY <1>10, <1>i DEF CopyDies
  <2>2. Lines("title")' = Lines("title") /\ Lines("tracks")' = Lines("tracks")
      BY <2>1, PutLines
  <2>3. \A f \in Data : CatsOf(Lines(f))' = CatsOf(Lines(f))
      BY <2>2 DEF CatsOf, Data
  <2>4. file[u] = "tracks" => CatsOf(Lines("tracks")) = {}
      BY <2>1, NoLine DEF Lines
  <2>5. Titled(Lines("tracks"))
      BY <1>2, <1>10, <2>1, <2>4 DEF TitledBy, Titled
  <2> QED BY <1>7, <1>8, <2>1, <2>3, <2>5
<1>j. ASSUME Unlink(u) PROVE TitledBy(u)' /\ prog' = prog
  <2>1. /\ step[u] = "swap" /\ step'[u] = "fill" /\ UNCHANGED <<file, prog, cdcatnum, mem, goal>>
        /\ Drop(file[u])
      BY <1>2, <1>j DEF Unlink, Keep, Goto
  <2>2. \A g : Lines(g)' = IF g = file[u] THEN EmptyBag ELSE Lines(g)
      BY <2>1, DropLines
  <2>3. /\ CatsOf(Lines(file[u]))' = {}
        /\ file[u] # "title" => CatsOf(Lines("title"))' = CatsOf(Lines("title"))
        /\ file[u] # "tracks" => CatsOf(Lines("tracks"))' = CatsOf(Lines("tracks"))
        /\ CatsOf(Lines("cdb.tmp"))' = CatsOf(Lines("cdb.tmp"))
    <3>1. Lines(file[u])' = EmptyBag
        BY <2>1, <2>2
    <3> QED BY <1>2, <2>2, <3>1, NoLine DEF CatsOf
  <2>4. (\A c : Begun(u, c)' <=> Begun(u, c)) /\ Temp(u)' = "cdb.tmp"
      BY <1>10, <2>1 DEF Begun, Temp
  <2>5. file[u] = "title" => LeftBy(u)' \subseteq CatsOf(Lines("cdb.tmp"))'
    <3>1. file[u] = "title" => LeftBy(u)' = LeftBy(u)
        BY <2>3, <2>4 DEF LeftBy
    <3> QED BY <1>10, <2>1, <2>3, <3>1 DEF TitledBy
  <2>6. file[u] = "tracks" => Titled(Lines("cdb.tmp"))'
      BY <1>10, <2>1, <2>3 DEF Titled, TitledBy
  <2>7. goal'[u] = "update" => cdcatnum'[u] \in CatsOf(Lines("title"))' \cup {NoCat}
    <3>1. goal[u] = "update" => file[u] # "title"
        BY <2>1 DEF Control
    <3> QED BY <1>10, <2>1, <2>3, <3>1 DEF TitledBy
  <2>8. CatsOf(Lines(file[u]))' = {} /\ file'[u] = file[u]
      BY <2>1, <2>3
  <2> QED BY <1>12, <2>1, <2>4, <2>5, <2>6, <2>7, <2>8 DEF TitledBy
<1>k. ASSUME Fill(u) PROVE TitledBy(u)' /\ prog' = prog
  <2>1. step[u] = "fill" /\ Done(u) /\ mem' = mem /\ prog' = prog /\ Move("cdb.tmp", file[u])
      BY <1>10, <1>k DEF Fill, Keep
  <2>2. \A f \in Data : CatsOf(Lines(f))' = CatsOf(Lines(IF f = file[u] THEN "cdb.tmp" ELSE f))
    <3>1. CASE "cdb.tmp" \in DOMAIN disk
      <4>1. \A h : Lines(h)' = IF h = file[u] THEN Lines("cdb.tmp")
                               ELSE IF h = "cdb.tmp" THEN EmptyBag ELSE Lines(h)
          BY <1>2, <2>1, <3>1, MoveLines
      <4>2. \A f \in Data : Lines(f)' = Lines(IF f = file[u] THEN "cdb.tmp" ELSE f)
          BY <4>1 DEF Data
      <4> QED BY <4>2 DEF CatsOf
    <3>2. CASE "cdb.tmp" \notin DOMAIN disk
      <4>1. disk' = disk /\ Lines("cdb.tmp") = EmptyBag
          BY <1>2, <2>1, <3>2, MoveLines
      <4>2. CatsOf(Lines(file[u])) = {} /\ CatsOf(Lines("cdb.tmp")) = {}
          BY <1>10, <2>1, <4>1, NoLine DEF TitledBy
      <4>3. \A f : CatsOf(Lines(f))' = CatsOf(Lines(f))
          BY <1>5, <4>1 DEF CatsOf
      <4> QED BY <4>2, <4>3
    <3> QED BY <3>1, <3>2
  <2>3. CASE file[u] = "title"
    <3>1. file'[u] = "tracks" /\ step'[u] = "copy" /\ cdcatnum' = cdcatnum /\ goal' = goal /\ goal[u] = "remove"
        BY <1>2, <2>1, <2>3 DEF Done, Goto, Control
    <3>2. \A c : Begun(u, c)' <=> Begun(u, c)
        BY <2>1, <3>1 DEF Begun
    <3>3. LeftBy(u)' = LeftBy(u)
      <4>1. CatsOf(Lines("tracks"))' = CatsOf(Lines("tracks"))
          BY <1>2, <2>2, <2>3
      <4> QED BY <3>2, <4>1 DEF LeftBy
    <3>4. LeftBy(u)' \subseteq CatsOf(Lines("title"))'
      <4>1. CatsOf(Lines("title"))' = CatsOf(Lines("cdb.tmp"))
          BY <1>2, <2>2, <2>3
      <4> QED BY <1>10, <2>1, <2>3, <3>3, <4>1 DEF TitledBy
    <3> QED BY <1>12, <2>1, <3>1, <3>4 DEF TitledBy
  <2>4. CASE file[u] = "tracks"
    <3>1. /\ step'[u] = (IF goal[u] = "update" THEN "entry" ELSE "menu")
          /\ cdcatnum'[u] = IF goal[u] = "remove" THEN NoCat ELSE cdcatnum[u]
        BY <1>2, <2>1, <2>4 DEF Done, Goto
    <3>2. /\ CatsOf(Lines("tracks"))' = CatsOf(Lines("cdb.tmp"))
          /\ CatsOf(Lines("title"))' = CatsOf(Lines("title"))
        BY <1>2, <2>2, <2>4
    <3>3. Titled(Lines("tracks"))'
        BY <1>10, <2>1, <2>4, <3>2 DEF Titled, TitledBy
    <3>4. cdcatnum'[u] \in CatsOf(Lines("title"))' \cup {NoCat}
        BY <1>2, <1>10, <2>4, <3>1, <3>2 DEF TitledBy
    <3> QED BY <1>9, <1>12, <2>1, <3>1, <3>3, <3>4
  <2> QED BY <1>2, <2>1, <2>3, <2>4
<1>l. ASSUME Quit(u) PROVE Titled(Lines("tracks"))' /\ prog'[u] = "none"
  <2>1. step[u] = "menu" /\ disk' = disk /\ Gone(u)
      BY <1>l DEF Quit
  <2>2. \A f \in Data : CatsOf(Lines(f))' = CatsOf(Lines(f))
      BY <1>5, <2>1 DEF CatsOf
  <2> QED BY <1>7, <1>8, <1>10, <2>1, <2>2 DEF TitledBy
\* the actions of the other programs
<1>13. /\ \A c \in Cats : ~AddRefused(u, c)
       /\ ~PerlRead(u) /\ ~PerlDies(u) /\ ~PerlFilter(u) /\ ~PerlOpen(u) /\ ~PerlWrite(u) /\ ~QuitPerl(u)
       /\ ~PerlPatternDies(u) /\ ~Rename(u) /\ \A p \in Programs : ~Start(u, p)
    BY <1>1, <1>4 DEF AddRefused, PerlRead, PerlDies, PerlFilter, PerlPatternDies, PerlOpen, PerlWrite, QuitPerl,
                           Rename
<1> QED BY <1>1, <1>11, <1>13, <1>b, <1>c, <1>d, <1>e, <1>f, <1>g, <1>h, <1>i, <1>j, <1>k, <1>l DEF NextOf

LEMMA TracksTitledNext ==
    ASSUME Typed, Control, Kept, TracksTitled, NEW u \in Users, NextOf(u)
    PROVE  TracksTitled'
<1> SUFFICES ASSUME OnlyCurses'
             PROVE  /\ Running' = {} => Titled(Lines("tracks"))'
                    /\ \A v \in Running' : TitledBy(v)'
    BY DEF TracksTitled
<1>1. \A v \in Users \ {u} : prog'[v] = "none"
    BY AloneNext DEF OnlyCurses
<1>2. Running' = IF prog'[u] = "none" THEN {} ELSE {u}
    BY <1>1 DEF Running
<1> QED BY <1>2, TitledByNext

-----------------------------------------------------------------------------
(* The theorems *)

Inductive == Typed /\ Control /\ Kinds /\ Kept /\ TracksTitled

LEMMA InductiveInit == Init => Inductive
<1> SUFFICES ASSUME Init PROVE Inductive
    OBVIOUS
<1>1. \A f : Lines(f) = EmptyBag
    BY DEF Init, Lines
<1>2. \A u \in Users : prog[u] = "none" /\ step[u] = "menu" /\ file[u] = "title" /\ cdcatnum[u] = NoCat
                       /\ mem[u] = NoLines
    BY DEF Init
<1>3. owed = {} /\ used = {} /\ Running = {}
    BY <1>2 DEF Init, Running
<1>4. Control
    BY <1>2 DEF Control
<1>5. Kinds
  <2>1. \A f \in Data : NoLines[f] = EmptyBag
      BY DEF NoLines
  <2> QED BY <1>1, <1>2, <2>1, KindLemmas DEF Kinds
<1>6. Kept
    BY <1>2, <1>3 DEF Kept, Safe
<1>7. TracksTitled
    BY <1>1, <1>3, NoLine DEF TracksTitled, Titled
<1> QED BY <1>4, <1>5, <1>6, <1>7, TypedInit DEF Inductive

LEMMA InductiveNext == Inductive /\ [Next]_vars => Inductive'
<1> SUFFICES ASSUME Inductive, [Next]_vars PROVE Inductive'
    OBVIOUS
<1>1. CASE Next
  <2>1. PICK u \in Users : NextOf(u)
      BY <1>1 DEF Next, NextOf
  <2>2. Typed'
    <3>1. FilesOK(disk') /\ Memories(mem')
        BY <2>1, FilesNext, MemoriesNext DEF Inductive
    <3>2. Small'
        BY <2>1, SmallNext DEF Inductive
    <3> QED BY <3>1, <3>2 DEF Typed, FilesOK, Small, Memories
  <2>3. Control'
      BY <2>1, ControlNext DEF Inductive
  <2>4. Kinds'
      BY <2>1, KindsNext DEF Inductive
  <2>5. Kept'
      BY <2>1, KeptNext DEF Inductive
  <2>6. TracksTitled'
      BY <2>1, TracksTitledNext DEF Inductive
  <2> QED BY <2>2, <2>3, <2>4, <2>5, <2>6 DEF Inductive
<1>2. CASE UNCHANGED vars
  <2> USE <1>2 DEF vars
  <2>1. Typed'
      BY DEF Inductive, Typed
  <2>2. Control'
      BY DEF Inductive, Control, NoLines
  <2>3. (\A f : Lines(f)' = Lines(f)) /\ (\A u, c : (Hits(u, c)' <=> Hits(u, c)) /\ (Begun(u, c)' <=> Begun(u, c)))
        /\ \A u : Temp(u)' = Temp(u)
      BY DEF Lines, Hits, Begun, Temp
  <2>4. Running' = Running
      BY DEF Running
  <2>5. Kinds'
      BY <2>3 DEF Inductive, Kinds
  <2>6. Kept'
      BY <2>3, <2>4 DEF Inductive, Kept, KeptBy, Safe, Title
  <2>7. TracksTitled'
    <3>1. /\ CatsOf(Lines("title"))' = CatsOf(Lines("title")) /\ CatsOf(Lines("tracks"))' = CatsOf(Lines("tracks"))
          /\ \A u \in Users : /\ CatsOf(Lines(Temp(u)))' = CatsOf(Lines(Temp(u)))
                              /\ CatsOf(Lines(file[u]))' = CatsOf(Lines(file[u]))
                              /\ LeftBy(u)' = LeftBy(u)
        BY <2>3 DEF CatsOf, LeftBy
    <3>2. \A u \in Users : TitledBy(u) => TitledBy(u)'
        BY <3>1 DEF TitledBy, Titled
    <3> QED BY <2>4, <3>1, <3>2 DEF Inductive, TracksTitled, OnlyCurses, Titled, Running
  <2> QED BY <2>1, <2>2, <2>5, <2>6, <2>7 DEF Inductive
<1> QED BY <1>1, <1>2

\* The conjunction is an invariant of the three programs, whatever the users,
\* the numbers and the bounds.
THEOREM FilesInvariant == Spec => []Inductive
<1>1. Init => Inductive
    BY InductiveInit
<1>2. Inductive /\ [Next]_vars => Inductive'
    BY InductiveNext
<1> QED BY <1>1, <1>2, PTL DEF Spec

\* The files and the programs' memories hold bags of lines.
THEOREM FilesTypes == Spec => []TypeOK
<1>1. Inductive => TypeOK
    BY TypedTypeOK DEF Inductive
<1> QED BY <1>1, FilesInvariant, PTL

\* No confirmed CD is lost from title.cdb between the runs of the programs,
\* though the file is replaced through a temporary one or rewritten from
\* memory, unless the run was spoiled: the copying, mv and unlink of the shell
\* and curses programs, tidy_up of the Perl script.
THEOREM NoCdLost == Spec => []NothingLost
<1>1. Inductive => NothingLost
    BY DEF Inductive, Kept, NothingLost, Safe
<1> QED BY <1>1, FilesInvariant, PTL

\* Shell and Perl programs that run at the same time never mix the two files,
\* whose temporary names are their own.
THEOREM KindsStay == Spec => []KindsKept
<1>1. ASSUME Inductive PROVE KindsKept
  <2> SUFFICES ASSUME "curses" \notin used
               PROVE  /\ \A l \in BagToSet(Lines("title"))  : l.no = 0
                      /\ \A l \in BagToSet(Lines("tracks")) : l.no > 0
      BY DEF KindsKept
  <2>1. Kind("title", Lines("title")) /\ Kind("tracks", Lines("tracks"))
      BY <1>1 DEF Inductive, Kinds, Data
  <2>2. \A l \in BagToSet(Lines("tracks")) : l.no \in Nat
    <3>1. Lines("tracks") \in LineBags
        BY <1>1, LinesTyped DEF Inductive
    <3> QED BY <3>1 DEF LineBags, BagToSet, Line
  <2> QED BY <2>1, <2>2 DEF Kind
<1> QED BY <1>1, FilesInvariant, PTL

\* remove_cd and update_cd of the curses program, alone and not stopped, take
\* tracks out after their title and put them in only under a title that is there.
THEOREM TracksNotOrphaned == Spec => []TracksHaveTitle
<1>1. ASSUME Inductive PROVE TracksHaveTitle
  <2> SUFFICES ASSUME \A u \in Users : step[u] = "menu", ~spoiled, breaks = 0, used \subseteq {"curses"}
               PROVE  Titled(Lines("tracks"))
      BY DEF TracksHaveTitle, Titled
  <2>1. CASE Running = {}
      BY <1>1, <2>1 DEF Inductive, TracksTitled, OnlyCurses
  <2>2. CASE Running # {}
    <3>1. PICK u \in Users : u \in Running
        BY <2>2 DEF Running
    <3> QED BY <1>1, <3>1 DEF Inductive, TracksTitled, OnlyCurses, TitledBy
  <2> QED BY <2>1, <2>2
<1> QED BY <1>1, FilesInvariant, PTL
=============================================================================

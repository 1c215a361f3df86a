----------------------------- MODULE CdLocalProof -----------------------------
(***************************************************************************)
(* Proofs about CdLocal.                                                   *)
(***************************************************************************)
EXTENDS CdLocal, TLAPS

LEMMA Bounds ==
    /\ MaxTracks \in Nat /\ MaxActs \in Nat /\ MaxFiles \in Nat \ {0} /\ Empty \in Names
    /\ Contain \in [Names -> SUBSET Names] /\ Contain[Empty] = Names
    /\ Programs \in [Procs -> SUBSET {"gnome", "cgi", "new"}]
    /\ NamesOf \in [Procs -> SUBSET (Names \ {Empty})]
BY LocalAssumption DEF LocalAssumption

USE Bounds

-----------------------------------------------------------------------------
(* Types *)

Ats == {"unlinkCdc", "unlinkCdt", "openCdc", "openCdt", "scan", "find", "select", "count", "tracks",
        "page", "cut", "delTracks", "delCdc", "off", "ask", "request", "main", "dialog", "spinScan",
        "spinFind"}

Record == [kind : {"none", "gnome", "cgi", "new"},
           at : Ats, new : BOOLEAN,
           cdc : 0..MaxFiles, cdt : 0..MaxFiles,
           list : SUBSET (Names \ {Empty}), cur : Names, text : Names,
           active : BOOLEAN, rows : 0..MaxTracks, trk : Nat, t : Nat \ {0}]

\* a program that is not opening its files, or waiting to, has both
HasFiles(r) ==
    \/ r.at \in {"unlinkCdc", "unlinkCdt", "openCdc", "openCdt", "off", "ask"}
    \/ r.cdc # 0 /\ r.cdt # 0

\* update_track_list is at the track after its last row
Steady(r) == r.at = "tracks" => r.t = r.rows + 1

\* and one without files or kind is off
Known(r) == r.kind = "none" => r.cdc = 0 /\ r.at = "off"

Fine(r) == r \in Record /\ HasFiles(r) /\ Steady(r) /\ Known(r)

FilesOK ==
    /\ path \in [{"cdc", "cdt"} -> 0..MaxFiles] /\ made \in [{"cdc", "cdt"} -> 0..MaxFiles]
    /\ cdc \in [Files -> SUBSET Names] /\ cdt \in [Files -> [Names -> SUBSET Tracks]]
    /\ torn \subseteq Files \X Names /\ crossed \in BOOLEAN /\ acts \in 0..MaxActs

Types == FilesOK /\ proc = [p \in Procs |-> proc[p]] /\ \A p \in Procs : Fine(proc[p])

LEMMA TypesTypeOK == Types => TypeOK
<1>1. Ats = Opening \cup Busy \cup Calm \cup Spins
    BY DEF Ats, Opening, Busy, Calm, Spins
<1>2. ASSUME NEW r \in Record, HasFiles(r),
             r.at \in Busy \cup Spins \cup {"request", "main", "dialog"}
      PROVE  r.cdc # 0 /\ r.cdt # 0
    BY <1>2 DEF HasFiles, Busy, Spins
<1>3. Types => proc \in [Procs -> Record]
    BY DEF Types, Fine
<1> QED BY <1>1, <1>2, <1>3 DEF Types, TypeOK, FilesOK, Fine, Record

LEMMA OffFine == Fine(Off)
BY DEF Fine, Off, Record, Ats, HasFiles, Steady, Known

LEMMA TypesInit == Init => Types
<1> SUFFICES ASSUME Init PROVE Types
    OBVIOUS
<1>1. PICK f \in {0, 1} : made = [cdc |-> f, cdt |-> f] /\ path = made
    BY DEF Init
<1>2. PICK size \in [Names \ {Empty} -> 0..MaxTracks] :
         /\ cdc = [g \in Files |-> IF g <= made.cdc THEN DOMAIN size ELSE {}]
         /\ cdt = [g \in Files |-> [n \in Names |->
                     IF g <= made.cdt /\ n # Empty THEN 1..size[n] ELSE {}]]
    BY DEF Init
<1>3. path \in [{"cdc", "cdt"} -> 0..MaxFiles] /\ made = path
    BY <1>1
<1>4. cdc \in [Files -> SUBSET Names]
    BY <1>2
<1>5. \A n \in Names \ {Empty} : 1..size[n] \subseteq Tracks
    BY DEF Tracks
<1>6. cdt \in [Files -> [Names -> SUBSET Tracks]]
    BY <1>2, <1>5
<1>9. torn = {} /\ crossed = FALSE /\ acts = 0
    BY DEF Init
<1>7. FilesOK
  <2> HIDE DEF Init
  <2>1. acts \in 0..MaxActs
      BY <1>9
  <2>2. torn \subseteq Files \X Names
      BY <1>9
  <2> QED BY <1>3, <1>4, <1>6, <1>9, <2>1, <2>2 DEF FilesOK
<1>8. proc = [p \in Procs |-> Off]
    BY DEF Init
<1> HIDE DEF Init
<1> QED BY <1>7, <1>8, OffFine DEF Types

LEMMA Moved ==
    ASSUME Types, FilesOK', NEW p \in Procs, NEW r, Fine(r), Becomes(p, r)
    PROVE  Types' /\ proc'[p] = r /\ \A q \in Procs \ {p} : proc'[q] = proc[q]
BY DEF Types, Becomes

LEMMA AtNames ==
    /\ "unlinkCdc" \in Ats /\ "unlinkCdt" \in Ats /\ "openCdc" \in Ats /\ "openCdt" \in Ats
    /\ "scan" \in Ats /\ "find" \in Ats /\ "select" \in Ats /\ "count" \in Ats /\ "tracks" \in Ats
    /\ "page" \in Ats /\ "cut" \in Ats /\ "delTracks" \in Ats /\ "delCdc" \in Ats
    /\ "off" \in Ats /\ "ask" \in Ats /\ "request" \in Ats /\ "main" \in Ats /\ "dialog" \in Ats
    /\ "spinScan" \in Ats /\ "spinFind" \in Ats
BY DEF Ats

LEMMA Numbers ==
    /\ 0 \in 0..MaxTracks /\ 1 \in Nat \ {0} /\ 0 \in 0..MaxFiles
    /\ \A k \in Nat : k + 1 \in Nat /\ k + 1 \in Nat \ {0}
    /\ \A k \in 0..MaxFiles : k + 1 <= MaxFiles => k + 1 \in 0..MaxFiles
    /\ 1..MaxTracks \subseteq Nat
OBVIOUS


LEMMA RAt ==
    ASSUME NEW r, Fine(r), r.cdc # 0, r.cdt # 0, NEW l \in Ats \ {"tracks"}
    PROVE  Fine([r EXCEPT !.at = l])
<1>1. [r EXCEPT !.at = l] \in Record
    BY AtNames, Numbers DEF Fine, Record, Steady, Tracks
<1> QED BY <1>1 DEF Fine, Record, HasFiles, Steady, Known

LEMMA RText ==
    ASSUME NEW r, Fine(r), r.cdc # 0, r.cdt # 0, NEW l \in Ats \ {"tracks"}, NEW n \in Names
    PROVE  Fine([r EXCEPT !.at = l, !.text = n])
<1>1. [r EXCEPT !.at = l, !.text = n] \in Record
    BY AtNames, Numbers DEF Fine, Record, Steady, Tracks
<1> QED BY <1>1 DEF Fine, Record, HasFiles, Steady, Known

LEMMA RTurn ==
    ASSUME NEW r, Fine(r), r.cdc # 0, r.cdt # 0, NEW l \in Ats \ {"tracks"}
    PROVE  Fine([r EXCEPT !.at = l, !.t = 1])
<1>1. [r EXCEPT !.at = l, !.t = 1] \in Record
    BY AtNames, Numbers DEF Fine, Record, Steady, Tracks
<1> QED BY <1>1 DEF Fine, Record, HasFiles, Steady, Known

LEMMA RList ==
    ASSUME NEW r, Fine(r), r.cdc # 0, r.cdt # 0, NEW l \in Ats \ {"tracks"}
    PROVE  Fine([r EXCEPT !.at = l, !.list = {}])
<1>1. [r EXCEPT !.at = l, !.list = {}] \in Record
    BY AtNames, Numbers DEF Fine, Record, Steady, Tracks
<1> QED BY <1>1 DEF Fine, Record, HasFiles, Steady, Known

LEMMA RGone ==
    ASSUME NEW r, Fine(r), r.cdc # 0, r.cdt # 0
    PROVE  Fine([r EXCEPT !.at = "scan", !.list = {}, !.rows = 0, !.active = FALSE])
<1>1. [r EXCEPT !.at = "scan", !.list = {}, !.rows = 0, !.active = FALSE] \in Record
    BY AtNames, Numbers DEF Fine, Record, Steady, Tracks
<1> QED BY <1>1 DEF Fine, Record, HasFiles, Steady, Known

LEMMA RFetched ==
    ASSUME NEW r, Fine(r), r.cdc # 0, r.cdt # 0, NEW n \in Names \ {Empty}
    PROVE  Fine([r EXCEPT !.list = r.list \cup {n}])
<1>1. [r EXCEPT !.list = r.list \cup {n}] \in Record
    BY AtNames, Numbers DEF Fine, Record, Steady, Tracks
<1> QED BY <1>1 DEF Fine, Record, HasFiles, Steady, Known

LEMMA RActive ==
    ASSUME NEW r, Fine(r), r.cdc # 0, r.cdt # 0
    PROVE  Fine([r EXCEPT !.active = FALSE])
<1>1. [r EXCEPT !.active = FALSE] \in Record
    BY AtNames, Numbers DEF Fine, Record, Steady, Tracks
<1> QED BY <1>1 DEF Fine, Record, HasFiles, Steady, Known

LEMMA RRow ==
    ASSUME NEW r, Fine(r), r.cdc # 0, r.cdt # 0, NEW n \in Names
    PROVE  Fine([r EXCEPT !.at = "tracks", !.active = TRUE, !.rows = 0, !.t = 1, !.text = Empty, !.cur = n])
<1>1. [r EXCEPT !.at = "tracks", !.active = TRUE, !.rows = 0, !.t = 1, !.text = Empty, !.cur = n] \in Record
    BY AtNames, Numbers DEF Fine, Record, Steady, Tracks
<1> QED BY <1>1 DEF Fine, Record, HasFiles, Steady, Known

LEMMA RTrack ==
    ASSUME NEW r, Fine(r), r.cdc # 0, r.cdt # 0, NEW k \in Nat
    PROVE  Fine([r EXCEPT !.trk = k])
<1>1. [r EXCEPT !.trk = k] \in Record
    BY AtNames, Numbers DEF Fine, Record, Steady, Tracks
<1> QED BY <1>1 DEF Fine, Record, HasFiles, Steady, Known

LEMMA RNext ==
    ASSUME NEW r, Fine(r), r.cdc # 0, r.cdt # 0, r.at # "tracks", NEW k \in Nat \ {0}
    PROVE  Fine([r EXCEPT !.t = k])
<1>1. [r EXCEPT !.t = k] \in Record
    BY AtNames, Numbers DEF Fine, Record, Steady, Tracks
<1> QED BY <1>1 DEF Fine, Record, HasFiles, Steady, Known

LEMMA RRead ==
    ASSUME NEW r, Fine(r), r.cdc # 0, r.cdt # 0, r.t \in Tracks
    PROVE  Fine([r EXCEPT !.t = r.t + 1, !.rows = IF r.at = "tracks" THEN r.rows + 1 ELSE r.rows])
<1> DEFINE k == IF r.at = "tracks" THEN r.rows + 1 ELSE r.rows
<1>1. r.rows \in 0..MaxTracks /\ r.t \in Nat
    BY DEF Fine, Record
<1>2. k \in 0..MaxTracks /\ r.t + 1 \in Nat \ {0} /\ (r.at = "tracks" => r.t + 1 = k + 1)
    BY <1>1 DEF Fine, Steady, Tracks
<1> HIDE DEF k
<1>3. [r EXCEPT !.t = r.t + 1, !.rows = k] \in Record
    BY <1>2 DEF Fine, Record
<1>4. Fine([r EXCEPT !.t = r.t + 1, !.rows = k])
    BY <1>2, <1>3 DEF Fine, Record, HasFiles, Steady, Known
<1> QED BY <1>4 DEF k

LEMMA RRedraw ==
    ASSUME NEW r, Fine(r), r.cdc # 0, r.cdt # 0
    PROVE  Fine([r EXCEPT !.at = "tracks", !.rows = 0, !.t = 1])
<1>1. [r EXCEPT !.at = "tracks", !.rows = 0, !.t = 1] \in Record
    BY AtNames, Numbers DEF Fine, Record, Steady, Tracks
<1> QED BY <1>1 DEF Fine, Record, HasFiles, Steady, Known

LEMMA RStart ==
    ASSUME NEW k \in {"gnome", "cgi", "new"}, NEW new \in BOOLEAN, NEW l \in {"unlinkCdc", "openCdc"}
    PROVE  Fine([Off EXCEPT !.kind = k, !.new = new, !.at = l])
<1>1. Off \in Record
    BY OffFine DEF Fine
<1>2. [Off EXCEPT !.kind = k, !.new = new, !.at = l] \in Record
    BY <1>1, AtNames DEF Record
<1> QED BY <1>1, <1>2 DEF Fine, Record, HasFiles, Steady, Known

LEMMA ROpened ==
    ASSUME NEW r, Fine(r), r.at \in {"openCdc", "openCdt"}, NEW f \in 0..MaxFiles
    PROVE  /\ Fine([r EXCEPT !.cdc = f, !.at = "openCdt"])
           /\ r.at = "openCdt" => Fine(Opened([r EXCEPT !.cdt = f]))
<1>1. [r EXCEPT !.cdc = f, !.at = "openCdt"] \in Record /\ [r EXCEPT !.cdt = f] \in Record
    BY AtNames DEF Fine, Record
<1>2. Fine([r EXCEPT !.cdc = f, !.at = "openCdt"])
    BY <1>1 DEF Fine, Record, HasFiles, Steady, Known
<1>3. ASSUME r.at = "openCdt" PROVE Fine(Opened([r EXCEPT !.cdt = f]))
  <2>1. DEFINE s == [r EXCEPT !.cdt = f]
  <2>2. Fine(s)
      BY <1>1, <1>3 DEF Fine, Record, HasFiles, Steady, Known
  <2>3. Fine([Off EXCEPT !.kind = "gnome", !.at = "ask"])
    <3>1. [Off EXCEPT !.kind = "gnome", !.at = "ask"] \in Record /\ Off \in Record
        BY OffFine, AtNames DEF Fine, Record
    <3> QED BY <3>1 DEF Fine, Record, HasFiles, Steady, Known
  <2>4. s.kind \in {"gnome", "cgi", "new"}
      BY <1>1, <1>3 DEF Record, Fine, Known
  <2>5. s.cdc # 0 /\ s.cdt # 0 => Fine([s EXCEPT !.at = "scan"]) /\ Fine([s EXCEPT !.at = "request"])
      BY <2>2, RAt, AtNames
  <2> HIDE DEF s
  <2>6. Fine(Opened(s))
      BY <2>3, <2>4, <2>5, OffFine DEF Opened
  <2> QED BY <2>6 DEF s
<1> QED BY <1>2, <1>3

LEMMA RFound ==
    ASSUME NEW p \in Procs, Fine(proc[p]), proc[p].cdc # 0, proc[p].cdt # 0, NEW n \in Names
    PROVE  Fine(Found(p, n)) /\ Fine(Listed(proc[p]))
<1>1. Fine([proc[p] EXCEPT !.at = "page", !.cur = n])
  <2>1. [proc[p] EXCEPT !.at = "page", !.cur = n] \in Record
      BY AtNames DEF Fine, Record
  <2> QED BY <2>1 DEF Fine, Record, HasFiles, Steady, Known
<1> QED BY <1>1, RAt, RText, AtNames, OffFine DEF Found, Listed

LEMMA RUnlink ==
    ASSUME NEW r, Fine(r), r.at \in {"unlinkCdc", "unlinkCdt"}, NEW l \in {"unlinkCdt", "openCdc"}
    PROVE  Fine([r EXCEPT !.at = l])
<1>1. [r EXCEPT !.at = l] \in Record
    BY AtNames DEF Fine, Record
<1> QED BY <1>1 DEF Fine, Record, HasFiles, Steady, Known

LEMMA TracksTyped ==
    ASSUME FilesOK, NEW f \in Files, NEW n \in Names, NEW S \in SUBSET Tracks,
           cdt' = [cdt EXCEPT ![f][n] = S]
    PROVE  cdt' \in [Files -> [Names -> SUBSET Tracks]]
BY DEF FilesOK

LEMMA InitializeTyped ==
    ASSUME FilesOK, NEW p \in Procs, NEW k, NEW b, Initialize(p, k, b)
    PROVE  crossed' \in BOOLEAN
BY Zenon DEF FilesOK, Initialize

LEMMA TypesNext ==
    ASSUME Types, NEW p \in Procs, Run(p) \/ UserActs(p)
    PROVE  Types'
<1>1. /\ proc = [q \in Procs |-> proc[q]] /\ Fine(proc[p]) /\ FilesOK
      /\ proc[p].t \in Nat \ {0} /\ proc[p].trk \in Nat /\ proc[p].rows \in 0..MaxTracks
      /\ proc[p].text \in Names /\ proc[p].cur \in Names /\ proc[p].list \in SUBSET (Names \ {Empty})
      /\ proc[p].cdc \in 0..MaxFiles /\ proc[p].cdt \in 0..MaxFiles
    BY DEF Types, Fine, Record
<1>2. SUFFICES FilesOK' /\ \E r : Becomes(p, r) /\ Fine(r)
    BY Moved
<1>3. proc[p].at \notin {"unlinkCdc", "unlinkCdt", "openCdc", "openCdt", "off", "ask"}
      => proc[p].cdc # 0 /\ proc[p].cdt # 0
    BY <1>1 DEF Fine, HasFiles
<1>4. Entries(p) \subseteq Names
    BY <1>1 DEF Entries, FilesOK, Files
<1>5. proc[p].cdt # 0 => TracksOf(p) \subseteq Tracks
    BY <1>1 DEF TracksOf, FilesOK, Files
<1>6. proc[p].cdt # 0 => proc[p].cdt \in Files
    BY <1>1 DEF Files
<1>a0. CASE Unlink(p)
  <2>1. FilesOK'
      BY <1>1, <1>3, <1>a0 DEF Unlink, FilesOK, Act, Idle
  <2>2. \E r : Becomes(p, r) /\ Fine(r)
      BY <1>1, <1>3, <1>4, <1>5, <1>a0, RUnlink DEF Unlink, Goto
  <2> QED BY <2>1, <2>2
<1>a1. CASE Open(p)
  <2>1. FilesOK'
      BY <1>1, <1>3, <1>a1 DEF Open, FilesOK, Act, Idle
  <2>2. \E r : Becomes(p, r) /\ Fine(r)
    <3>1. PICK table \in {"cdc", "cdt"}, f \in 0..MaxFiles :
            /\ proc[p].at = (IF table = "cdc" THEN "openCdc" ELSE "openCdt")
            /\ IF table = "cdc"
               THEN Becomes(p, [proc[p] EXCEPT !.cdc = f, !.at = "openCdt"])
               ELSE Becomes(p, Opened([proc[p] EXCEPT !.cdt = f]))
      <4>1. PICK table \in {"cdc", "cdt"} :
              LET f == IF path[table] = 0 /\ proc[p].new THEN made[table] + 1 ELSE path[table]
              IN  /\ proc[p].at = (IF table = "cdc" THEN "openCdc" ELSE "openCdt") /\ f <= MaxFiles
                  /\ IF table = "cdc"
                     THEN Becomes(p, [proc[p] EXCEPT !.cdc = f, !.at = "openCdt"])
                     ELSE Becomes(p, Opened([proc[p] EXCEPT !.cdt = f]))
          BY <1>a1 DEF Open
      <4>2. path[table] \in 0..MaxFiles /\ made[table] \in 0..MaxFiles
          BY <1>1 DEF FilesOK
      <4> DEFINE f == IF path[table] = 0 /\ proc[p].new THEN made[table] + 1 ELSE path[table]
      <4>3. f \in 0..MaxFiles
          BY <4>1, <4>2
      <4> HIDE DEF f
      <4>4. f \in 0..MaxFiles
            /\ proc[p].at = (IF table = "cdc" THEN "openCdc" ELSE "openCdt")
            /\ IF table = "cdc"
               THEN Becomes(p, [proc[p] EXCEPT !.cdc = f, !.at = "openCdt"])
               ELSE Becomes(p, Opened([proc[p] EXCEPT !.cdt = f]))
          BY <4>1, <4>3 DEF f
      <4> QED BY <4>4
    <3> QED BY <1>1, <3>1, ROpened
  <2> QED BY <2>1, <2>2
<1>a2. CASE Request(p)
  <2>1. FilesOK'
      BY <1>1, <1>3, <1>a2 DEF Request, FilesOK, Act, Idle
  <2>2. \E r : Becomes(p, r) /\ Fine(r)
      BY <1>1, <1>3, <1>4, <1>5, <1>a2, RAt, RText, AtNames DEF Request, Goto
  <2> QED BY <2>1, <2>2
<1>a3. CASE Scan(p)
  <2>1. FilesOK'
      BY <1>1, <1>3, <1>a3 DEF Scan, FilesOK, Act, Idle
  <2>2. \E r : Becomes(p, r) /\ Fine(r)
      BY <1>1, <1>3, <1>4, <1>5, <1>a3, RAt, RFetched, RFound, AtNames DEF Scan, Goto
  <2> QED BY <2>1, <2>2
<1>a4. CASE Find(p)
  <2>1. FilesOK'
      BY <1>1, <1>3, <1>a4 DEF Find, FilesOK, Act, Idle
  <2>2. \E r : Becomes(p, r) /\ Fine(r)
      BY <1>1, <1>3, <1>4, <1>5, <1>a4, RFound DEF Find
  <2> QED BY <2>1, <2>2
<1>a5. CASE NoRow(p)
  <2>1. FilesOK'
      BY <1>1, <1>3, <1>a5 DEF NoRow, FilesOK, Act, Idle
  <2>2. \E r : Becomes(p, r) /\ Fine(r)
      BY <1>1, <1>3, <1>4, <1>5, <1>a5, OffFine DEF NoRow, Leave
  <2> QED BY <2>1, <2>2
<1>a6. CASE SpinEnds(p)
  <2>1. FilesOK'
      BY <1>1, <1>3, <1>a6 DEF SpinEnds, FilesOK, Act, Idle
  <2>2. \E r : Becomes(p, r) /\ Fine(r)
      BY <1>1, <1>3, <1>4, <1>5, <1>a6, RFound DEF SpinEnds, Spins
  <2> QED BY <2>1, <2>2
<1>a7. CASE SelectRow(p)
  <2>1. FilesOK'
      BY <1>1, <1>3, <1>a7 DEF SelectRow, FilesOK, Act, Idle
  <2>2. \E r : Becomes(p, r) /\ Fine(r)
      BY <1>1, <1>3, <1>4, <1>5, <1>a7, RRow DEF SelectRow
  <2> QED BY <2>1, <2>2
<1>a8. CASE ReadTrack(p)
  <2>1. FilesOK'
      BY <1>1, <1>3, <1>a8 DEF ReadTrack, FilesOK, Act, Idle
  <2>2. \E r : Becomes(p, r) /\ Fine(r)
    <3>1. proc[p].cdc # 0 /\ proc[p].cdt # 0
        BY <1>3, <1>a8 DEF ReadTrack
    <3>2. Exists(p) => proc[p].t \in Tracks
        BY <1>5, <3>1 DEF Exists
    <3>3. CASE Exists(p)
        BY <1>1, <1>a8, <3>1, <3>2, <3>3, RRead DEF ReadTrack
    <3> QED BY <1>1, <1>a8, <3>1, <3>3, RAt, AtNames, OffFine DEF ReadTrack, Goto, Leave
  <2> QED BY <2>1, <2>2
<1>a9. CASE CutTrack(p)
  <2>1. FilesOK'
    <3>1. proc[p].cdt \in Files /\ TracksOf(p) \ {proc[p].trk} \in SUBSET Tracks
        BY <1>1, <1>3, <1>5, <1>6, <1>a9 DEF CutTrack
    <3>2. cdt' = cdt \/ cdt' = [cdt EXCEPT ![proc[p].cdt][proc[p].cur] = TracksOf(p) \ {proc[p].trk}]
        BY <1>a9 DEF CutTrack, TracksOf
    <3>3. cdt' \in [Files -> [Names -> SUBSET Tracks]]
        BY <1>1, <3>1, <3>2, TracksTyped DEF FilesOK
    <3> QED BY <1>1, <1>a9, <3>3 DEF CutTrack, FilesOK
  <2>2. \E r : Becomes(p, r) /\ Fine(r)
    <3>1. proc[p].cdc # 0 /\ proc[p].cdt # 0 /\ proc[p].trk + 1 \in Nat \ {0} /\ proc[p].trk + 1 \in Nat
        BY <1>1, <1>3, <1>a9 DEF CutTrack
    <3> QED BY <1>1, <1>a9, <3>1, RTrack, RRedraw DEF CutTrack, Redraw
  <2> QED BY <2>1, <2>2
<1>a10. CASE DelTrack(p)
  <2>1. FilesOK'
    <3>1. proc[p].cdt \in Files /\ TracksOf(p) \ {proc[p].t} \in SUBSET Tracks
        BY <1>1, <1>3, <1>5, <1>6, <1>a10 DEF DelTrack
    <3>2. cdt' = cdt \/ cdt' = [cdt EXCEPT ![proc[p].cdt][proc[p].cur] = TracksOf(p) \ {proc[p].t}]
        BY <1>a10 DEF DelTrack, TracksOf
    <3>3. cdt' \in [Files -> [Names -> SUBSET Tracks]]
        BY <1>1, <3>1, <3>2, TracksTyped DEF FilesOK
    <3> QED BY <1>1, <1>a10, <3>3 DEF DelTrack, FilesOK
  <2>2. \E r : Becomes(p, r) /\ Fine(r)
    <3>1. proc[p].cdc # 0 /\ proc[p].cdt # 0 /\ proc[p].t + 1 \in Nat \ {0} /\ proc[p].t + 1 \in Nat
        BY <1>1, <1>3, <1>a10 DEF DelTrack
    <3> QED BY <1>1, <1>a10, <3>1, RNext, RAt, AtNames DEF DelTrack, Goto
  <2> QED BY <2>1, <2>2
<1>a11. CASE DelCd(p)
  <2>1. FilesOK'
      BY <1>1, <1>3, <1>a11 DEF DelCd, FilesOK, Act, Idle
  <2>2. \E r : Becomes(p, r) /\ Fine(r)
      BY <1>1, <1>3, <1>4, <1>5, <1>a11, RGone DEF DelCd
  <2> QED BY <2>1, <2>2
<1>a12. CASE Start(p)
  <2>1. FilesOK'
    <3>1. crossed' \in BOOLEAN
        BY <1>1, <1>a12, InitializeTyped DEF Start
    <3> QED BY <1>1, <1>a12, <3>1 DEF Start, FilesOK, Act
  <2>2. \E r : Becomes(p, r) /\ Fine(r)
      BY <1>1, <1>3, <1>4, <1>5, <1>a12, RStart DEF Start, Initialize
  <2> QED BY <2>1, <2>2
<1>a13. CASE CreateNew(p)
  <2>1. FilesOK'
    <3>1. crossed' \in BOOLEAN
        BY <1>1, <1>a13, InitializeTyped DEF CreateNew
    <3> QED BY <1>1, <1>a13, <3>1 DEF CreateNew, FilesOK
  <2>2. \E r : Becomes(p, r) /\ Fine(r)
      BY <1>1, <1>3, <1>4, <1>5, <1>a13, RStart DEF CreateNew, Initialize
  <2> QED BY <2>1, <2>2
<1>a14. CASE Quit(p)
  <2>1. FilesOK'
      BY <1>1, <1>3, <1>a14 DEF Quit, FilesOK, Act, Idle
  <2>2. \E r : Becomes(p, r) /\ Fine(r)
      BY <1>1, <1>3, <1>4, <1>5, <1>a14, OffFine DEF Quit, Leave
  <2> QED BY <2>1, <2>2
<1>a15. CASE Kill(p)
  <2>1. FilesOK'
    <3>1. torn' \subseteq Files \X Names
        BY <1>1, <1>3, <1>6, <1>a15 DEF Kill, Loops, FilesOK
    <3>2. acts' \in 0..MaxActs
        BY <1>1, <1>a15 DEF Kill, Act, FilesOK
    <3> QED BY <1>1, <1>a15, <3>1, <3>2 DEF Kill, FilesOK
  <2>2. \E r : Becomes(p, r) /\ Fine(r)
      BY <1>1, <1>3, <1>4, <1>5, <1>a15, OffFine DEF Kill, Leave
  <2> QED BY <2>1, <2>2
<1>a16. CASE SelectCd(p)
  <2>1. FilesOK'
      BY <1>1, <1>3, <1>a16 DEF SelectCd, FilesOK, Act, Idle
  <2>2. \E r : Becomes(p, r) /\ Fine(r)
      BY <1>1, <1>3, <1>4, <1>5, <1>a16, RText, AtNames DEF SelectCd, Idle
  <2> QED BY <2>1, <2>2
<1>a17. CASE UnselectCd(p)
  <2>1. FilesOK'
      BY <1>1, <1>3, <1>a17 DEF UnselectCd, FilesOK, Act, Idle
  <2>2. \E r : Becomes(p, r) /\ Fine(r)
      BY <1>1, <1>3, <1>4, <1>5, <1>a17, RActive DEF UnselectCd, Idle
  <2> QED BY <2>1, <2>2
<1>a18. CASE SelectTrack(p)
  <2>1. FilesOK'
      BY <1>1, <1>3, <1>a18 DEF SelectTrack, FilesOK, Act, Idle
  <2>2. \E r : Becomes(p, r) /\ Fine(r)
      BY <1>1, <1>3, <1>4, <1>5, <1>a18, RTrack DEF SelectTrack, Idle
  <2> QED BY <2>1, <2>2
<1>a19. CASE AddCd(p)
  <2>1. FilesOK'
    <3>1. acts' \in 0..MaxActs
        BY <1>1, <1>a19 DEF AddCd, Idle, Act, FilesOK
    <3>2. proc[p].cdc \in Files /\ NamesOf[p] \subseteq Names
        BY <1>1, <1>3, <1>a19 DEF AddCd, Idle, Files
    <3>3. cdc' \in [Files -> SUBSET Names]
        BY <1>1, <1>a19, <3>2 DEF AddCd, FilesOK
    <3> QED BY <1>1, <1>a19, <3>1, <3>3 DEF AddCd, FilesOK
  <2>2. \E r : Becomes(p, r) /\ Fine(r)
      BY <1>1, <1>3, <1>4, <1>5, <1>a19, RList, AtNames DEF AddCd, Idle
  <2> QED BY <2>1, <2>2
<1>a20. CASE AskFind(p)
  <2>1. FilesOK'
      BY <1>1, <1>3, <1>a20 DEF AskFind, FilesOK, Act, Idle
  <2>2. \E r : Becomes(p, r) /\ Fine(r)
      BY <1>1, <1>3, <1>4, <1>5, <1>a20, RText, AtNames DEF AskFind, Idle
  <2> QED BY <2>1, <2>2
<1>a21. CASE DeleteCd(p)
  <2>1. FilesOK'
      BY <1>1, <1>3, <1>a21 DEF DeleteCd, FilesOK, Act, Idle
  <2>2. \E r : Becomes(p, r) /\ Fine(r)
      BY <1>1, <1>3, <1>4, <1>5, <1>a21, RTurn, AtNames DEF DeleteCd, Idle
  <2> QED BY <2>1, <2>2
<1>a22. CASE AskTrack(p)
  <2>1. FilesOK'
      BY <1>1, <1>3, <1>a22 DEF AskTrack, FilesOK, Act, Idle
  <2>2. \E r : Becomes(p, r) /\ Fine(r)
      BY <1>1, <1>3, <1>4, <1>5, <1>a22, RTurn, AtNames DEF AskTrack, Idle
  <2> QED BY <2>1, <2>2
<1>a23. CASE DeleteTrack(p)
  <2>1. FilesOK'
      BY <1>1, <1>3, <1>a23 DEF DeleteTrack, FilesOK, Act, Idle
  <2>2. \E r : Becomes(p, r) /\ Fine(r)
      BY <1>1, <1>3, <1>4, <1>5, <1>a23, RAt, AtNames DEF DeleteTrack, Idle, Goto
  <2> QED BY <2>1, <2>2
<1>a24. CASE AddTrack(p)
  <2>1. FilesOK'
    <3>1. proc[p].cdt \in Files /\ \A k \in Tracks : TracksOf(p) \cup {k} \in SUBSET Tracks
        BY <1>1, <1>3, <1>5, <1>6, <1>a24 DEF AddTrack
    <3>2. \/ cdt' = cdt
          \/ \E k \in Tracks : cdt' = [cdt EXCEPT ![proc[p].cdt][proc[p].cur] = TracksOf(p) \cup {k}]
        BY <1>a24 DEF AddTrack, TracksOf
    <3>3. cdt' \in [Files -> [Names -> SUBSET Tracks]]
        BY <1>1, <3>1, <3>2, TracksTyped DEF FilesOK
    <3> QED BY <1>1, <1>a24, <3>3 DEF AddTrack, FilesOK
  <2>2. \E r : Becomes(p, r) /\ Fine(r)
      BY <1>1, <1>3, <1>4, <1>5, <1>a24, RRedraw DEF AddTrack, Redraw
  <2> QED BY <2>1, <2>2
<1> QED BY <1>a0, <1>a1, <1>a2, <1>a3, <1>a4, <1>a5, <1>a6, <1>a7, <1>a8, <1>a9, <1>a10, <1>a11,
           <1>a12, <1>a13, <1>a14, <1>a15, <1>a16, <1>a17, <1>a18, <1>a19, <1>a20, <1>a21, <1>a22,
           <1>a23, <1>a24
       DEF Run, UserActs

-----------------------------------------------------------------------------
(* The files of a program: the inductive invariant *)

\* A file that a program has open, or that a name leads to, has been made, and one that
\* has not holds nothing.
Made ==
    /\ \A p \in Procs : proc[p].cdc <= made.cdc /\ proc[p].cdt <= made.cdt
    /\ path.cdc <= made.cdc /\ path.cdt <= made.cdt
    /\ \A f \in Files : f > made.cdt => \A n \in Names : cdt[f][n] = {}

\* A program that opens its files has no tracks yet and shows no CD.
Blank == \A p \in Procs :
    /\ proc[p].at \in Opening => proc[p].cdt = 0
    /\ proc[p].at \in Opening \cup {"request"} => proc[p].cur = Empty /\ ~proc[p].active

\* c and d are the files of one program
HasPair(p, c, d) == proc[p].cdc = c /\ proc[p].cdt = d /\ c # 0 /\ d # 0

\* or those the next program will open
Named(c, d) == path.cdc = c /\ path.cdt = d /\ c # 0 /\ d # 0

Paired(c, d) == Named(c, d) \/ \E p \in Procs : HasPair(p, c, d)

\* what the one program that opens its files has done so far
OpenedSoFar(p) ==
    /\ proc[p].at = "unlinkCdt" => path.cdc = 0
    /\ proc[p].at = "openCdc" /\ proc[p].new => path.cdc = 0 /\ path.cdt = 0
    /\ proc[p].at = "openCdt" => proc[p].cdc = path.cdc
    /\ proc[p].at = "openCdt" /\ proc[p].new => path.cdt = 0
    /\ proc[p].at = "unlinkCdc" => proc[p].new
    /\ proc[p].at = "unlinkCdt" => proc[p].new

Alone ==
    /\ \A p, q \in Procs : proc[p].at \in Opening /\ proc[q].at \in Opening => p = q
    /\ \A p \in Procs : OpenedSoFar(p)

\* Entries and tracks are paired one to one; entries whose tracks are still to be made
\* are new.
Matched ==
    /\ \A c1, c2, d1, d2 \in 0..MaxFiles :
         Paired(c1, d1) /\ Paired(c2, d2) => (c1 = c2 <=> d1 = d2)
    /\ path.cdt = 0 /\ path.cdc # 0 => \A d \in 0..MaxFiles : ~Paired(path.cdc, d)

Opens == Made /\ Blank /\ (~crossed => Alone /\ Matched)

\* Only files that have just been made become a pair.
NewPairs == \A c, d : Paired(c, d)' => Paired(c, d) \/ d > made.cdt

-----------------------------------------------------------------------------
(* The tracks of a CD: the inductive invariant *)

\* A program changes the CD its own user edits, or one without a name.
OwnCd == \A p \in Procs :
    proc[p].at \in {"count", "dialog", "cut", "delTracks", "delCdc"}
    => proc[p].cur \in NamesOf[p] \cup {Empty}

Below(S, i) == \A j \in Tracks : j < i => j \in S

\* the tracks of n that no one takes out have no gap
NoGap == \A f \in Files, n \in Names \ {Empty} :
    \/ <<f, n>> \in torn
    \/ \E q \in Procs : proc[q].at \in Loops /\ proc[q].cdt = f /\ proc[q].cur = n
    \/ \A i \in cdt[f][n] : Below(cdt[f][n], i)

Shows == {"scan", "find", "select", "main", "spinScan", "spinFind", "count", "dialog"}

\* what a program that is at l knows of the tracks S of its user's CD
Knows(r, S) ==
    /\ r.at \in Shows => S = 1..r.rows
    /\ r.at = "count" => r.t <= r.rows + 1
    /\ r.at = "dialog" => r.t = r.rows + 1
    /\ r.at = "tracks" => 1..r.rows \subseteq S
    /\ r.at = "cut" => \A i \in S, j \in Tracks : j < i /\ (i < r.trk \/ r.trk <= j) => j \in S
    /\ r.at = "delTracks" => \A i \in S : r.t <= i /\ \A j \in Tracks : r.t <= j /\ j < i => j \in S
    /\ r.at = "delCdc" => S = {}

KnowsCd == \A p \in Procs :
    proc[p].cur \in NamesOf[p] /\ proc[p].cdt # 0 /\ Whole(p) => Knows(proc[p], TracksOf(p))

Edited == OwnCd /\ (Apart => NoGap /\ KnowsCd)

-----------------------------------------------------------------------------
(* The entries of the CDs: the inductive invariant *)

Catalogued == \A c, d \in 0..MaxFiles : Paired(c, d) =>
    \A n \in Names \ {Empty} : cdt[d][n] # {} /\ <<d, n>> \notin torn => n \in cdc[c]

\* the track frame that is not shaded shows a CD that is in the catalogue
ActiveCd == \A p \in Procs :
    proc[p].active /\ proc[p].cur \in NamesOf[p] => proc[p].cdc # 0 /\ proc[p].cur \in cdc[proc[p].cdc]

\* what only the window does
Window == {"select", "main", "tracks", "count", "dialog", "cut", "delTracks", "delCdc"}

Frames == \A p \in Procs :
    /\ proc[p].kind = "cgi" => ~proc[p].active /\ proc[p].at \notin Window
    /\ proc[p].at \in {"count", "dialog"} => proc[p].active

Entered == Frames /\ (Apart => ActiveCd /\ (~crossed => Catalogued))

\* A program that opened its files before keeps them, or is gone.
KeepsFiles(p) ==
    /\ \/ proc'[p] = Off
       \/ /\ proc'[p].cdc = proc[p].cdc /\ proc'[p].cdt = proc[p].cdt
          /\ proc'[p].at \notin Opening \cup {"request"}
    /\ proc'[p].at \notin Opening \cup {"request"}
    /\ UNCHANGED <<path, made, crossed>>
    /\ \A f \in Files, n \in Names : f > made.cdt => cdt'[f][n] = cdt[f][n]

LEMMA OthersStay ==
    ASSUME Types, NEW p \in Procs, Run(p) \/ UserActs(p)
    PROVE  \A q \in Procs \ {p} : proc'[q] = proc[q]
<1>1. ASSUME NEW r, Becomes(p, r) PROVE \A q \in Procs \ {p} : proc'[q] = proc[q]
    BY <1>1 DEF Types, Becomes
<1>2. CASE UNCHANGED proc
    BY <1>2
<1>3. UNCHANGED proc \/ \E r : Becomes(p, r)
  <2>1. CASE Unlink(p) \/ Open(p) \/ Request(p) \/ Scan(p) \/ Find(p) \/ NoRow(p) \/ SpinEnds(p)
      BY <2>1 DEF Goto, Leave, Unlink, Open, Request, Scan, Find, NoRow, SpinEnds
  <2>2. CASE SelectRow(p) \/ ReadTrack(p) \/ CutTrack(p) \/ DelTrack(p) \/ DelCd(p)
      BY <2>2 DEF Goto, Leave, SelectRow, ReadTrack, CutTrack, DelTrack, DelCd
  <2>3. CASE Start(p) \/ CreateNew(p) \/ Quit(p) \/ Kill(p)
      BY <2>3 DEF Goto, Leave, Initialize, Start, CreateNew, Quit, Kill
  <2>4. CASE SelectCd(p) \/ UnselectCd(p) \/ SelectTrack(p) \/ AddCd(p) \/ AskFind(p)
      BY <2>4 DEF Goto, SelectCd, UnselectCd, SelectTrack, AddCd, AskFind
  <2>5. CASE DeleteCd(p) \/ AskTrack(p) \/ DeleteTrack(p) \/ AddTrack(p)
      BY <2>5 DEF Goto, DeleteCd, AskTrack, DeleteTrack, AddTrack
  <2> QED BY <2>1, <2>2, <2>3, <2>4, <2>5 DEF Run, UserActs
<1> QED BY <1>1, <1>2, <1>3

LEMMA FilesKept ==
    ASSUME Types, Made, NEW p \in Procs, Run(p) \/ UserActs(p),
           ~Unlink(p), ~Open(p), ~Start(p), ~CreateNew(p)
    PROVE  KeepsFiles(p)
<1> USE DEF KeepsFiles
<1>1. /\ proc = [q \in Procs |-> proc[q]] /\ proc[p] \in Record
      /\ cdt \in [Files -> [Names -> SUBSET Tracks]] /\ made.cdt \in Nat
      /\ proc[p].cdt <= made.cdt /\ proc[p].cdt \in Nat
    BY DEF Types, Fine, Record, FilesOK, Made
<1>2. Off.at = "off"
    BY DEF Off
<1>3. ASSUME NEW l, NEW n, Becomes(p, [proc[p] EXCEPT !.at = l, !.text = n])
      PROVE  proc'[p].cdc = proc[p].cdc /\ proc'[p].cdt = proc[p].cdt /\ proc'[p].at = l
    BY <1>1, <1>3 DEF Becomes, Record
<1>4. ASSUME NEW l, Goto(p, l)
      PROVE  proc'[p].cdc = proc[p].cdc /\ proc'[p].cdt = proc[p].cdt /\ proc'[p].at = l
    BY <1>1, <1>4 DEF Goto, Becomes, Record
<1>5. ASSUME NEW S, NEW n, cdt' = [cdt EXCEPT ![proc[p].cdt][n] = S]
      PROVE  \A f \in Files, m \in Names : f > made.cdt => cdt'[f][m] = cdt[f][m]
    BY <1>1, <1>5
<1>6. ASSUME Becomes(p, Redraw(proc[p]))
      PROVE  proc'[p].cdc = proc[p].cdc /\ proc'[p].cdt = proc[p].cdt /\ proc'[p].at = "tracks"
    BY <1>1, <1>6 DEF Redraw, Becomes, Record
<1> USE DEF Opening
<1>a2. CASE Request(p)
  <2>1. CASE Goto(p, "scan")
    <3>1. proc'[p].cdc = proc[p].cdc /\ proc'[p].cdt = proc[p].cdt /\ proc'[p].at = "scan"
        BY <1>4, <2>1
    <3> QED BY <1>a2, <3>1 DEF Request
  <2>2. CASE \E n \in Names : Becomes(p, [proc[p] EXCEPT !.at = "find", !.text = n])
      BY <1>a2, <1>3, <2>2 DEF Request
  <2> QED BY <1>a2, <2>1, <2>2 DEF Request
<1>a3. CASE Scan(p)
    BY <1>1, <1>2, <1>a3 DEF Scan, Goto, Listed, Becomes, Record
<1>a4. CASE Find(p)
  <2>1. CASE Becomes(p, Listed(proc[p]))
      BY <1>1, <1>2, <1>a4, <2>1 DEF Find, Listed, Becomes, Record
  <2>2. CASE \E n \in Entries(p) : Becomes(p, Found(p, n))
    <3>1. PICK n \in Entries(p) : Becomes(p, Found(p, n))
        BY <2>2
    <3>2. /\ proc'[p].cdc = proc[p].cdc /\ proc'[p].cdt = proc[p].cdt
          /\ proc'[p].at \in {"spinFind", "page", "select", "main"}
        BY <1>1, <3>1 DEF Found, Becomes, Record
    <3> QED BY <1>a4, <3>2 DEF Find
  <2> QED BY <1>a4, <2>1, <2>2 DEF Find
<1>a5. CASE NoRow(p)
    BY <1>1, <1>2, <1>a5 DEF NoRow, Leave, Becomes, Record
<1>a6. CASE SpinEnds(p)
    BY <1>1, <1>2, <1>a6 DEF SpinEnds, Spins, Listed, Becomes, Record
<1>a7. CASE SelectRow(p)
    BY <1>1, <1>2, <1>a7 DEF SelectRow, Becomes, Record
<1>a8. CASE ReadTrack(p)
  <2>1. CASE Exists(p)
    <3>1. /\ proc'[p].cdc = proc[p].cdc /\ proc'[p].cdt = proc[p].cdt
          /\ proc'[p].at \in {"count", "tracks", "page"}
      <4>1. PICK k, l : Becomes(p, [proc[p] EXCEPT !.t = k, !.rows = l])
          BY <1>a8, <2>1 DEF ReadTrack
      <4> QED BY <1>1, <1>a8, <4>1 DEF ReadTrack, Becomes, Record
    <3> QED BY <1>a8, <3>1 DEF ReadTrack
  <2>2. CASE Leave(p)
      BY <1>1, <1>2, <1>a8, <2>2 DEF ReadTrack, Leave, Becomes
  <2> QED BY <1>a8, <1>4, <2>1, <2>2 DEF ReadTrack
<1>a9. CASE CutTrack(p)
  <2>1. /\ proc'[p].cdc = proc[p].cdc /\ proc'[p].cdt = proc[p].cdt
        /\ proc'[p].at \in {"cut", "tracks"}
      BY <1>1, <1>6, <1>a9 DEF CutTrack, Becomes, Record
  <2> QED BY <1>a9, <1>5, <2>1 DEF CutTrack
<1>a10. CASE DelTrack(p)
  <2>1. /\ proc'[p].cdc = proc[p].cdc /\ proc'[p].cdt = proc[p].cdt
        /\ proc'[p].at \in {"delTracks", "delCdc"}
      BY <1>1, <1>4, <1>a10 DEF DelTrack, Becomes, Record
  <2> QED BY <1>a10, <1>5, <2>1 DEF DelTrack
<1>a11. CASE DelCd(p)
    BY <1>1, <1>2, <1>a11 DEF DelCd, Becomes, Record
<1>a14. CASE Quit(p)
    BY <1>1, <1>2, <1>a14 DEF Quit, Leave, Becomes, Record
<1>a15. CASE Kill(p)
    BY <1>1, <1>2, <1>a15 DEF Kill, Leave, Becomes, Record
<1>a16. CASE SelectCd(p)
    BY <1>3, <1>a16 DEF SelectCd, Idle
<1>a17. CASE UnselectCd(p)
    BY <1>1, <1>2, <1>a17 DEF UnselectCd, Idle, Becomes, Record
<1>a18. CASE SelectTrack(p)
    BY <1>1, <1>2, <1>a18 DEF SelectTrack, Idle, Becomes, Record
<1>a19. CASE AddCd(p)
    BY <1>1, <1>2, <1>a19 DEF AddCd, Idle, Becomes, Record
<1>a20. CASE AskFind(p)
    BY <1>3, <1>a20 DEF AskFind, Idle
<1>a21. CASE DeleteCd(p)
    BY <1>1, <1>2, <1>a21 DEF DeleteCd, Idle, Becomes, Record
<1>a22. CASE AskTrack(p)
    BY <1>1, <1>2, <1>a22 DEF AskTrack, Idle, Becomes, Record
<1>a23. CASE DeleteTrack(p)
    BY <1>1, <1>2, <1>a23 DEF DeleteTrack, Idle, Goto, Becomes, Record
<1>a24. CASE AddTrack(p)
    BY <1>5, <1>6, <1>a24 DEF AddTrack
<1> QED BY <1>a2, <1>a3, <1>a4, <1>a5, <1>a6, <1>a7, <1>a8, <1>a9, <1>a10, <1>a11, <1>a14, <1>a15,
           <1>a16, <1>a17, <1>a18, <1>a19, <1>a20, <1>a21, <1>a22, <1>a23, <1>a24
       DEF Run, UserActs

LEMMA OpensInit == Init => Opens
<1> SUFFICES ASSUME Init PROVE Opens
    OBVIOUS
<1>1. PICK f \in {0, 1} : made = [cdc |-> f, cdt |-> f] /\ path = made
    BY DEF Init
<1>2. \A p \in Procs : proc[p].at = "off" /\ proc[p].cdc = 0 /\ proc[p].cdt = 0
    BY DEF Init, Off
<1>3. \A g \in Files, n \in Names : g > made.cdt => cdt[g][n] = {}
    BY DEF Init, Files
<1>4. \A c, d : Paired(c, d) => c = f /\ d = f
    BY <1>1, <1>2 DEF Paired, HasPair, Named
<1> QED BY <1>1, <1>2, <1>3, <1>4 DEF Opens, Made, Blank, Alone, Matched, OpenedSoFar, Opening, Paired, Named

LEMMA OpensKept ==
    ASSUME Types, Types', Opens, NEW p \in Procs, KeepsFiles(p),
           \A q \in Procs \ {p} : proc'[q] = proc[q]
    PROVE  Opens' /\ (~crossed' => NewPairs)
<1>1. Off.cdc = 0 /\ Off.cdt = 0 /\ Off.at = "off"
    BY DEF Off
<1>2. /\ proc'[p].cdc \in {0, proc[p].cdc} /\ proc'[p].cdt \in {0, proc[p].cdt}
      /\ proc'[p].at \notin Opening \cup {"request"}
      /\ UNCHANGED <<path, made, crossed>>
    BY <1>1 DEF KeepsFiles
<1>3. made.cdc \in Nat /\ made.cdt \in Nat
    BY DEF Types, FilesOK
<1>4. Made'
    BY <1>2, <1>3 DEF Opens, Made, KeepsFiles
<1>5. Blank'
    BY <1>2 DEF Opens, Blank
<1>6. \A c, d : Paired(c, d)' => Paired(c, d)
    BY <1>2 DEF Paired, HasPair, Named
<1>7. ~crossed => Alone'
    BY <1>2 DEF Opens, Alone, OpenedSoFar, Opening
<1>8. ~crossed => Matched'
    BY <1>2, <1>6 DEF Opens, Matched
<1> QED BY <1>2, <1>4, <1>5, <1>6, <1>7, <1>8 DEF Opens, NewPairs

LEMMA OpensInitialize ==
    ASSUME Types, Types', Opens, NEW p \in Procs, NEW k, NEW b \in BOOLEAN, Initialize(p, k, b),
           UNCHANGED <<path, made, cdt>>
    PROVE  Opens' /\ (~crossed' => NewPairs)
<1>1. /\ proc'[p].cdc = 0 /\ proc'[p].cdt = 0 /\ proc'[p].cur = Empty /\ ~proc'[p].active
      /\ proc'[p].new = b /\ proc'[p].at = (IF b THEN "unlinkCdc" ELSE "openCdc")
      /\ \A q \in Procs \ {p} : proc'[q] = proc[q]
    BY DEF Initialize, Becomes, Off, Types
<1>2. ~crossed' => ~crossed /\ \A q \in Procs \ {p} : proc[q].at \notin Opening
    BY DEF Initialize
<1>3. made.cdc \in Nat /\ made.cdt \in Nat
    BY DEF Types, FilesOK
<1>4. Made'
    BY <1>1, <1>3 DEF Opens, Made
<1>5. Blank'
    BY <1>1 DEF Opens, Blank
<1>6. \A c, d : Paired(c, d)' => Paired(c, d)
    BY <1>1 DEF Paired, HasPair, Named
<1>7. ~crossed' => Alone'
    BY <1>1, <1>2 DEF Alone, OpenedSoFar, Opening
<1>8. ~crossed' => Matched'
    BY <1>1, <1>2, <1>6 DEF Opens, Matched
<1> QED BY <1>4, <1>5, <1>6, <1>7, <1>8 DEF Opens, NewPairs

LEMMA OpensUnlink ==
    ASSUME Types, Types', Opens, NEW p \in Procs, Unlink(p)
    PROVE  Opens' /\ (~crossed' => NewPairs)
<1>1. /\ proc'[p].cdc = proc[p].cdc /\ proc'[p].cdt = proc[p].cdt /\ proc'[p].cur = proc[p].cur
      /\ proc'[p].active = proc[p].active /\ proc'[p].new = proc[p].new
      /\ proc'[p].at = (IF proc[p].at = "unlinkCdc" THEN "unlinkCdt" ELSE "openCdc")
      /\ \A q \in Procs \ {p} : proc'[q] = proc[q]
    BY DEF Unlink, Goto, Becomes, Types, Fine, Record
<1>2. /\ proc[p].at \in {"unlinkCdc", "unlinkCdt"} /\ UNCHANGED <<made, crossed, cdt>>
      /\ proc[p].at = "unlinkCdc" => path'.cdc = 0 /\ path'.cdt = path.cdt
      /\ proc[p].at = "unlinkCdt" => path'.cdc = path.cdc /\ path'.cdt = 0
    BY DEF Unlink, Types, FilesOK
<1>3. made.cdc \in Nat /\ made.cdt \in Nat
    BY DEF Types, FilesOK
<1>4. Made'
    BY <1>1, <1>2, <1>3 DEF Opens, Made
<1>5. Blank'
    BY <1>1, <1>2 DEF Opens, Blank, Opening
<1>6. ~crossed => path'.cdc = 0
    BY <1>2 DEF Opens, Alone, OpenedSoFar
<1>7. \A c, d : Paired(c, d)' /\ ~crossed => Paired(c, d)
    BY <1>1, <1>6 DEF Paired, HasPair, Named
<1>8. ~crossed => Alone'
    BY <1>1, <1>2, <1>6 DEF Opens, Alone, OpenedSoFar, Opening
<1>9. ~crossed => Matched'
    BY <1>6, <1>7 DEF Opens, Matched
<1> QED BY <1>2, <1>4, <1>5, <1>7, <1>8, <1>9 DEF Opens, NewPairs

LEMMA OpensOpenCdc ==
    ASSUME Types, Types', Opens, NEW p \in Procs, proc[p].at = "openCdc", Open(p)
    PROVE  Opens' /\ (~crossed' => NewPairs)
<1> DEFINE create == path.cdc = 0 /\ proc[p].new
           f == IF create THEN made.cdc + 1 ELSE path.cdc
<1>1. /\ path' = [path EXCEPT !.cdc = f] /\ made' = IF create THEN [made EXCEPT !.cdc = f] ELSE made
      /\ Becomes(p, [proc[p] EXCEPT !.cdc = f, !.at = "openCdt"]) /\ UNCHANGED <<cdt, crossed>>
    BY DEF Open
<1>2. /\ proc'[p].cdc = f /\ proc'[p].cdt = proc[p].cdt /\ proc'[p].cur = proc[p].cur
      /\ proc'[p].active = proc[p].active /\ proc'[p].new = proc[p].new /\ proc'[p].at = "openCdt"
      /\ \A q \in Procs \ {p} : proc'[q] = proc[q]
    BY <1>1 DEF Becomes, Types, Fine, Record
<1>3. made.cdc \in Nat /\ made.cdt \in Nat /\ path.cdc \in Nat
    BY DEF Types, FilesOK
<1>4. /\ path'.cdc = f /\ path'.cdt = path.cdt /\ made'.cdt = made.cdt
      /\ made'.cdc = IF create THEN f ELSE made.cdc
    BY <1>1 DEF Types, FilesOK
<1>5. proc[p].cdt = 0 /\ proc[p].cur = Empty /\ ~proc[p].active /\ path.cdc <= made.cdc
      /\ \A q \in Procs : proc[q].cdc <= made.cdc /\ proc[q].cdc \in Nat
    BY DEF Opens, Blank, Made, Opening, Types, Fine, Record
<1>6. Made'
    BY <1>1, <1>2, <1>3, <1>4, <1>5 DEF Opens, Made
<1>7. Blank'
    BY <1>2, <1>5 DEF Opens, Blank, Opening
<1>8. ~crossed /\ create => path.cdt = 0
    BY DEF Opens, Alone, OpenedSoFar
<1>9. ASSUME ~crossed, NEW c, NEW d, Paired(c, d)'
      PROVE  Paired(c, d) /\ (create => c # f)
    BY <1>2, <1>3, <1>4, <1>5, <1>8, <1>9 DEF Paired, HasPair, Named
<1>10. ~crossed => Alone'
    BY <1>1, <1>2, <1>4, <1>8 DEF Opens, Alone, OpenedSoFar, Opening
<1>11. ~crossed => Matched'
    BY <1>3, <1>4, <1>9 DEF Opens, Matched
<1> QED BY <1>1, <1>6, <1>7, <1>9, <1>10, <1>11 DEF Opens, NewPairs

LEMMA OpensOpenCdt ==
    ASSUME Types, Types', Opens, NEW p \in Procs, proc[p].at = "openCdt", Open(p)
    PROVE  Opens' /\ (~crossed' => NewPairs)
<1> DEFINE create == path.cdt = 0 /\ proc[p].new
           f == IF create THEN made.cdt + 1 ELSE path.cdt
<1>1. /\ path' = [path EXCEPT !.cdt = f] /\ made' = IF create THEN [made EXCEPT !.cdt = f] ELSE made
      /\ Becomes(p, Opened([proc[p] EXCEPT !.cdt = f])) /\ UNCHANGED <<cdt, crossed>> /\ f <= MaxFiles
    BY DEF Open
<1>2. proc[p].cdt = 0 /\ proc[p].cur = Empty /\ ~proc[p].active /\ proc[p].kind # "none"
    BY DEF Opens, Blank, Opening, Types, Fine, Known
<1>3. /\ \/ /\ proc'[p].cdc = proc[p].cdc /\ proc'[p].cdt = f
            /\ proc'[p].cdc # 0 /\ proc'[p].cdt # 0
         \/ proc'[p].cdc = 0 /\ proc'[p].cdt = 0
      /\ proc'[p].cur = Empty /\ ~proc'[p].active /\ proc'[p].at \in {"scan", "request", "off", "ask"}
      /\ \A q \in Procs \ {p} : proc'[q] = proc[q]
  <2> DEFINE s == [proc[p] EXCEPT !.cdt = f]
  <2>2. /\ s.cdt = f /\ s.cdc = proc[p].cdc /\ s.cur = Empty /\ ~s.active
        /\ s.kind \in {"gnome", "cgi", "new"}
      BY <1>2 DEF Types, Fine, Record
  <2>1. ASSUME NEW l, proc'[p] = [s EXCEPT !.at = l]
        PROVE  /\ proc'[p].at = l /\ proc'[p].cdt = f /\ proc'[p].cdc = proc[p].cdc
               /\ proc'[p].cur = Empty /\ ~proc'[p].active
      BY <1>2, <2>1 DEF Types, Fine, Record
  <2>3. ASSUME proc'[p] = [Off EXCEPT !.kind = "gnome", !.at = "ask"]
        PROVE  /\ proc'[p].at = "ask" /\ proc'[p].cdt = 0 /\ proc'[p].cdc = 0
               /\ proc'[p].cur = Empty /\ ~proc'[p].active
      BY <2>3 DEF Off
  <2>4. Off.at = "off" /\ Off.cdt = 0 /\ Off.cdc = 0 /\ Off.cur = Empty /\ ~Off.active
      BY DEF Off
  <2>5. proc'[p] = Opened(s) /\ \A q \in Procs \ {p} : proc'[q] = proc[q]
      BY <1>1 DEF Becomes, Types
  <2> HIDE DEF s, f
  <2>6. \/ s.cdc # 0 /\ s.cdt # 0 /\ proc'[p] = [s EXCEPT !.at = "scan"]
        \/ s.cdc # 0 /\ s.cdt # 0 /\ proc'[p] = [s EXCEPT !.at = "request"]
        \/ proc'[p] = Off
        \/ proc'[p] = [Off EXCEPT !.kind = "gnome", !.at = "ask"]
      BY <2>2, <2>5 DEF Opened
  <2>7. CASE s.cdc # 0 /\ s.cdt # 0 /\ proc'[p] = [s EXCEPT !.at = "scan"]
    <3>1. /\ proc'[p].at = "scan" /\ proc'[p].cdt = f /\ proc'[p].cdc = proc[p].cdc
          /\ proc'[p].cur = Empty /\ ~proc'[p].active
        BY <2>1, <2>7
    <3> QED BY <2>2, <2>5, <2>7, <3>1
  <2>8. CASE s.cdc # 0 /\ s.cdt # 0 /\ proc'[p] = [s EXCEPT !.at = "request"]
    <3>1. /\ proc'[p].at = "request" /\ proc'[p].cdt = f /\ proc'[p].cdc = proc[p].cdc
          /\ proc'[p].cur = Empty /\ ~proc'[p].active
        BY <2>1, <2>8
    <3> QED BY <2>2, <2>5, <2>8, <3>1
  <2>9. CASE proc'[p] = Off
      BY <2>4, <2>5, <2>9
  <2>10. CASE proc'[p] = [Off EXCEPT !.kind = "gnome", !.at = "ask"]
      BY <2>3, <2>5, <2>10
  <2> QED BY <2>6, <2>7, <2>8, <2>9, <2>10
<1>4. made.cdc \in Nat /\ made.cdt \in Nat /\ path.cdt \in Nat
    BY DEF Types, FilesOK
<1>5. /\ path'.cdt = f /\ path'.cdc = path.cdc /\ made'.cdc = made.cdc
      /\ made'.cdt = IF create THEN f ELSE made.cdt
    BY <1>1 DEF Types, FilesOK
<1>6. /\ path.cdt <= made.cdt
      /\ \A q \in Procs : proc[q].cdt <= made.cdt /\ proc[q].cdt \in Nat
      /\ \A q \in Procs : proc[q].cdc <= made.cdc /\ proc[q].cdc \in Nat
    BY DEF Opens, Made, Types, Fine, Record
<1>7. Made'
  <2>1. f \in Nat /\ f <= made'.cdt /\ made.cdt <= made'.cdt /\ made'.cdt \in Nat
      BY <1>4, <1>5, <1>6
  <2> HIDE DEF create, f
  <2>2. \A q \in Procs : proc'[q].cdc <= made'.cdc /\ proc'[q].cdt <= made'.cdt
      BY <1>3, <1>4, <1>5, <1>6, <2>1
  <2>3. \A g \in Files : g > made'.cdt => g > made.cdt
      BY <1>4, <2>1 DEF Files
  <2> QED BY <1>1, <1>5, <2>1, <2>2, <2>3 DEF Opens, Made
<1>8. Blank'
    BY <1>3 DEF Opens, Blank, Opening
<1>9. ~crossed => Alone'
    BY <1>1, <1>3, <1>5 DEF Opens, Alone, OpenedSoFar, Opening
<1>10. ~crossed => proc[p].cdc = path.cdc
    BY DEF Opens, Alone, OpenedSoFar
<1>11. ASSUME ~crossed, NEW c, NEW d, Paired(c, d)'
       PROVE  Paired(c, d) \/ (c = path.cdc /\ d = f /\ create)
    BY <1>3, <1>5, <1>10, <1>11 DEF Paired, HasPair, Named
<1>12. ASSUME NEW c, NEW d, Paired(c, d), create PROVE d # f
    BY <1>4, <1>6, <1>12 DEF Paired, HasPair, Named
<1>13. ASSUME NEW c, NEW d, Paired(c, d), c \in 0..MaxFiles, d \in 0..MaxFiles, create, ~crossed
       PROVE  c # path.cdc
  <2>1. c # 0
      BY <1>13 DEF Paired, HasPair, Named
  <2> QED BY <1>13, <2>1 DEF Opens, Matched
<1>14. ASSUME ~crossed, path'.cdt = 0, path'.cdc # 0, NEW d \in 0..MaxFiles PROVE ~Paired(path.cdc, d)'
  <2>1. f = 0 /\ ~create /\ path.cdt = 0 /\ path.cdc # 0
      BY <1>4, <1>5, <1>14
  <2> QED BY <1>5, <1>11, <1>14, <2>1 DEF Opens, Matched
<1>15. ~crossed => Matched'
    BY <1>5, <1>11, <1>12, <1>13, <1>14 DEF Opens, Matched
<1> QED BY <1>1, <1>4, <1>7, <1>8, <1>9, <1>11, <1>15 DEF Opens, NewPairs

LEMMA OpensNext ==
    ASSUME Types, Types', Opens, NEW p \in Procs, Run(p) \/ UserActs(p)
    PROVE  Opens' /\ (~crossed' => NewPairs)
<1>1. CASE Open(p)
  <2>1. proc[p].at = "openCdc" \/ proc[p].at = "openCdt"
      BY <1>1 DEF Open
  <2> QED BY <1>1, <2>1, OpensOpenCdc, OpensOpenCdt
<1>2. CASE Start(p)
  <2>1. PICK k \in Programs[p] : Initialize(p, k, k = "new")
      BY <1>2 DEF Start
  <2> QED BY <1>2, <2>1, OpensInitialize DEF Start
<1>3. CASE CreateNew(p)
    BY <1>3, OpensInitialize DEF CreateNew
<1> QED BY <1>1, <1>2, <1>3, OpensUnlink, OpensKept, OthersStay, FilesKept DEF Opens

LEMMA OpensSameFiles == Types /\ Opens => SameFiles
<1> SUFFICES ASSUME Types, Opens, ~crossed, NEW p \in Procs, NEW q \in Procs,
                    0 \notin {proc[p].cdc, proc[q].cdc, proc[p].cdt, proc[q].cdt}
             PROVE  proc[p].cdc = proc[q].cdc <=> proc[p].cdt = proc[q].cdt
    BY DEF SameFiles
<1>1. \A r \in Procs : proc[r].cdc \in 0..MaxFiles /\ proc[r].cdt \in 0..MaxFiles
    BY DEF Types, Fine, Record
<1>2. Paired(proc[p].cdc, proc[p].cdt) /\ Paired(proc[q].cdc, proc[q].cdt)
    BY DEF Paired, HasPair
<1> QED BY <1>1, <1>2 DEF Opens, Matched

-----------------------------------------------------------------------------
(* The tracks of a CD *)

\* the steps in which a program goes on to show what it shows, or shows nothing
Looks == Shows \ {"count", "dialog"}

LooksOn(p) ==
    /\ UNCHANGED cdt /\ torn \subseteq torn'
    /\ \/ proc'[p].cur = Empty /\ proc'[p].at \notin {"count", "dialog", "cut", "delTracks", "delCdc"}
       \/ proc'[p].at = "page"
       \/ /\ proc[p].at \in Looks /\ proc'[p].at \in Looks
          /\ proc'[p].cur = proc[p].cur /\ proc'[p].cdt = proc[p].cdt /\ proc'[p].rows = proc[p].rows
    /\ proc[p].at \in Loops => torn' = torn \cup {<<proc[p].cdt, proc[p].cur>>}

LEMMA EntriesNames ==
    ASSUME Types, NEW p \in Procs PROVE Entries(p) \subseteq Names
BY DEF Types, Fine, Record, FilesOK, Entries, Files

LEMMA LookingOn ==
    ASSUME Types, Opens, NEW p \in Procs, Run(p) \/ UserActs(p),
           ~SelectRow(p), ~ReadTrack(p), ~CutTrack(p), ~DelTrack(p), ~DelCd(p),
           ~DeleteCd(p), ~AskTrack(p), ~DeleteTrack(p), ~AddTrack(p)
    PROVE  LooksOn(p)
<1>1. proc = [q \in Procs |-> proc[q]] /\ proc[p] \in Record
    BY DEF Types, Fine
<1>2. Off.cur = Empty /\ Off.at = "off"
    BY DEF Off
<1>3. proc[p].at \in Opening \cup {"request"} => proc[p].cur = Empty
    BY DEF Opens, Blank
<1>4. ASSUME NEW l, NEW n, Becomes(p, [proc[p] EXCEPT !.at = l, !.text = n])
      PROVE  /\ proc'[p].cur = proc[p].cur /\ proc'[p].cdt = proc[p].cdt
             /\ proc'[p].rows = proc[p].rows /\ proc'[p].at = l
    BY <1>1, <1>4 DEF Becomes, Record
<1>5. ASSUME NEW l, Goto(p, l)
      PROVE  /\ proc'[p].cur = proc[p].cur /\ proc'[p].cdt = proc[p].cdt
             /\ proc'[p].rows = proc[p].rows /\ proc'[p].at = l
    BY <1>1, <1>5 DEF Goto, Becomes, Record
<1>6. ASSUME Becomes(p, Off) PROVE proc'[p].cur = Empty /\ proc'[p].at = "off"
    BY <1>1, <1>2, <1>6 DEF Becomes
<1>7. ASSUME Becomes(p, Listed(proc[p]))
      PROVE  \/ proc'[p].cur = Empty /\ proc'[p].at = "off"
             \/ /\ proc'[p].cur = proc[p].cur /\ proc'[p].cdt = proc[p].cdt
                /\ proc'[p].rows = proc[p].rows /\ proc'[p].at = "main"
    BY <1>1, <1>2, <1>7 DEF Becomes, Listed, Record
<1> USE DEF LooksOn, Looks, Shows, Loops, Opening
<1>a. CASE Unlink(p)
    BY <1>3, <1>5, <1>a DEF Unlink
<1>b. CASE Open(p)
  <2>1. proc[p].at \in {"openCdc", "openCdt"} /\ UNCHANGED <<cdt, torn>>
      BY <1>b DEF Open
  <2>2. PICK f : \/ Becomes(p, [proc[p] EXCEPT !.cdc = f, !.at = "openCdt"])
                 \/ proc[p].at = "openCdt" /\ Becomes(p, Opened([proc[p] EXCEPT !.cdt = f]))
      BY <1>b DEF Open
  <2>3. CASE Becomes(p, [proc[p] EXCEPT !.cdc = f, !.at = "openCdt"])
      BY <1>1, <1>3, <2>1, <2>3 DEF Becomes, Record
  <2>4. CASE proc[p].at = "openCdt" /\ Becomes(p, Opened([proc[p] EXCEPT !.cdt = f]))
    <3> DEFINE s == [proc[p] EXCEPT !.cdt = f]
    <3>1. s.cur = Empty /\ s.at = "openCdt" /\ s.kind \in {"gnome", "cgi", "new"}
        BY <1>1, <1>3, <2>4 DEF Record, Types, Fine, Known
    <3>2. ASSUME NEW l, proc'[p] = [s EXCEPT !.at = l] PROVE proc'[p].cur = Empty /\ proc'[p].at = l
        BY <1>1, <1>3, <2>4, <3>2 DEF Record
    <3>3. [Off EXCEPT !.kind = "gnome", !.at = "ask"].cur = Empty
          /\ [Off EXCEPT !.kind = "gnome", !.at = "ask"].at = "ask"
        BY DEF Off
    <3>4. proc'[p] = Opened(s)
        BY <1>1, <2>4 DEF Becomes
    <3> HIDE DEF s
    <3>5. \/ \E l \in {"scan", "request"} : proc'[p] = [s EXCEPT !.at = l]
          \/ proc'[p] = Off
          \/ proc'[p] = [Off EXCEPT !.kind = "gnome", !.at = "ask"]
        BY <3>1, <3>4 DEF Opened
    <3>6. proc'[p].cur = Empty /\ proc'[p].at \in {"scan", "request", "off", "ask"}
        BY <1>2, <3>2, <3>3, <3>5
    <3> QED BY <2>1, <3>6
  <2> QED BY <2>2, <2>3, <2>4
<1>c. CASE Request(p)
  <2>1. proc'[p].cur = proc[p].cur /\ proc'[p].at \in {"scan", "find"}
      BY <1>4, <1>5, <1>c DEF Request
  <2> QED BY <1>3, <1>c, <2>1 DEF Request
<1>d. CASE Scan(p)
  <2>1. CASE Goto(p, "spinScan")
      BY <1>5, <1>d, <2>1 DEF Scan
  <2>2. CASE \E n \in Names : Becomes(p, [proc[p] EXCEPT !.list = @ \cup {n}])
    <3>1. /\ proc'[p].cur = proc[p].cur /\ proc'[p].cdt = proc[p].cdt
          /\ proc'[p].rows = proc[p].rows /\ proc'[p].at = proc[p].at
        BY <1>1, <2>2 DEF Becomes, Record
    <3> QED BY <1>d, <3>1 DEF Scan
  <2> QED BY <1>7, <1>d, <2>1, <2>2, EntriesNames DEF Scan
<1>e. CASE Find(p)
  <2>1. CASE \E n \in Entries(p) : Becomes(p, Found(p, n))
    <3>1. PICK n \in Entries(p) : Becomes(p, Found(p, n))
        BY <2>1
    <3>2. CASE Becomes(p, [proc[p] EXCEPT !.at = "page", !.cur = n])
      <4>1. proc'[p].at = "page"
          BY <1>1, <3>2 DEF Becomes, Record
      <4> QED BY <1>e, <4>1 DEF Find
    <3>3. CASE \E l \in {"spinFind", "main"} : Becomes(p, [proc[p] EXCEPT !.at = l])
        BY <1>5, <1>e, <3>3 DEF Find, Goto
    <3>4. CASE Becomes(p, [proc[p] EXCEPT !.at = "select", !.text = n])
        BY <1>4, <1>e, <3>4 DEF Find
    <3> QED BY <3>1, <3>2, <3>3, <3>4 DEF Found
  <2> QED BY <1>7, <1>e, <2>1 DEF Find
<1>f. CASE NoRow(p)
    BY <1>6, <1>f DEF NoRow, Leave
<1>g. CASE SpinEnds(p)
    BY <1>7, <1>g DEF SpinEnds, Spins
<1>h. CASE Start(p) \/ CreateNew(p)
  <2>1. PICK k, b : Initialize(p, k, b) /\ UNCHANGED <<cdt, torn>> /\ proc[p].at \in {"off", "ask"}
      BY <1>h DEF Start, CreateNew
  <2>2. proc'[p].cur = Empty /\ proc'[p].at \in {"unlinkCdc", "openCdc"}
      BY <1>1, <2>1 DEF Initialize, Becomes, Off
  <2> QED BY <2>1, <2>2
<1>i. CASE Quit(p)
    BY <1>6, <1>i DEF Quit, Leave
<1>j. CASE Kill(p)
    BY <1>6, <1>j DEF Kill, Leave
<1>k. CASE SelectCd(p)
  <2>1. PICK n : Becomes(p, [proc[p] EXCEPT !.at = "select", !.text = n])
      BY <1>k DEF SelectCd
  <2>2. /\ proc'[p].cur = proc[p].cur /\ proc'[p].cdt = proc[p].cdt
        /\ proc'[p].rows = proc[p].rows /\ proc'[p].at = "select"
      BY <1>4, <2>1
  <2> QED BY <1>k, <2>2 DEF SelectCd, Idle
<1>l. CASE UnselectCd(p)
  <2>1. /\ proc'[p].cur = proc[p].cur /\ proc'[p].cdt = proc[p].cdt
        /\ proc'[p].rows = proc[p].rows /\ proc'[p].at = proc[p].at
      BY <1>1, <1>l DEF UnselectCd, Becomes, Record
  <2> QED BY <1>l, <2>1 DEF UnselectCd, Idle
<1>m. CASE SelectTrack(p)
  <2>1. /\ proc'[p].cur = proc[p].cur /\ proc'[p].cdt = proc[p].cdt
        /\ proc'[p].rows = proc[p].rows /\ proc'[p].at = proc[p].at
      BY <1>1, <1>m DEF SelectTrack, Becomes, Record
  <2> QED BY <1>m, <2>1 DEF SelectTrack, Idle
<1>n. CASE AddCd(p)
  <2>1. /\ proc'[p].cur = proc[p].cur /\ proc'[p].cdt = proc[p].cdt
        /\ proc'[p].rows = proc[p].rows /\ proc'[p].at = "scan"
      BY <1>1, <1>n DEF AddCd, Becomes, Record
  <2> QED BY <1>n, <2>1 DEF AddCd, Idle
<1>o. CASE AskFind(p)
  <2>1. PICK n : Becomes(p, [proc[p] EXCEPT !.at = "find", !.text = n])
      BY <1>o DEF AskFind
  <2>2. /\ proc'[p].cur = proc[p].cur /\ proc'[p].cdt = proc[p].cdt
        /\ proc'[p].rows = proc[p].rows /\ proc'[p].at = "find"
      BY <1>4, <2>1
  <2> QED BY <1>o, <2>2 DEF AskFind, Idle
<1> QED BY <1>a, <1>b, <1>c, <1>d, <1>e, <1>f, <1>g, <1>h, <1>i, <1>j, <1>k, <1>l, <1>m, <1>n, <1>o
        DEF Run, UserActs

LEMMA LooksOnEdited ==
    ASSUME Types, Types', Edited, NEW p \in Procs, LooksOn(p), \A q \in Procs \ {p} : proc'[q] = proc[q]
    PROVE  Edited'
<1>1. UNCHANGED cdt /\ torn \subseteq torn'
    BY DEF LooksOn
<1>2. OwnCd'
    BY DEF LooksOn, Edited, OwnCd, Looks, Shows
<1>3. Apart => NoGap'
  <2> SUFFICES ASSUME Apart, NEW f \in Files, NEW n \in Names \ {Empty}, <<f, n>> \notin torn',
                      ~ \E q \in Procs : proc'[q].at \in Loops /\ proc'[q].cdt = f /\ proc'[q].cur = n
               PROVE  \A i \in cdt[f][n] : Below(cdt[f][n], i)
      BY <1>1 DEF NoGap, Below
  <2>1. ~ \E q \in Procs : proc[q].at \in Loops /\ proc[q].cdt = f /\ proc[q].cur = n
      BY DEF LooksOn
  <2> QED BY <1>1, <2>1 DEF Edited, NoGap
<1>4. ASSUME Apart, NEW q \in Procs, proc'[q].cur \in NamesOf[q], proc'[q].cdt # 0, Whole(q)'
      PROVE  Knows(proc'[q], TracksOf(q)')
  <2>1. CASE q # p
    <3>1. proc'[q] = proc[q]
        BY <2>1
    <3>2. Whole(q) /\ TracksOf(q)' = TracksOf(q)
        BY <1>1, <1>4, <3>1 DEF Whole, TracksOf
    <3> QED BY <1>4, <3>1, <3>2 DEF Edited, KnowsCd
  <2>2. CASE q = p
    <3>1. proc'[p].cur # Empty
        BY <1>4, <2>2
    <3>2. CASE proc'[p].at = "page"
        BY <2>2, <3>2 DEF Knows, Shows
    <3>3. CASE /\ proc[p].at \in Looks /\ proc'[p].at \in Looks
               /\ proc'[p].cur = proc[p].cur /\ proc'[p].cdt = proc[p].cdt /\ proc'[p].rows = proc[p].rows
      <4>1. Whole(p) /\ TracksOf(p)' = TracksOf(p)
          BY <1>1, <1>4, <2>2, <3>3 DEF Whole, TracksOf
      <4>2. TracksOf(p) = 1..proc[p].rows
          BY <1>4, <2>2, <3>3, <4>1 DEF Edited, KnowsCd, Knows, Looks
      <4> QED BY <2>2, <3>3, <4>1, <4>2 DEF Knows, Looks, Shows
    <3> QED BY <3>1, <3>2, <3>3 DEF LooksOn
  <2> QED BY <2>1, <2>2
<1> QED BY <1>2, <1>3, <1>4 DEF Edited, KnowsCd

\* No one else takes tracks out of the CD that a program shows.
LEMMA ShownWithoutGap ==
    ASSUME Types, Edited, Apart, NEW p \in Procs, proc[p].cur \in NamesOf[p], proc[p].cdt # 0, Whole(p),
           proc[p].at \notin Loops
    PROVE  \A i \in TracksOf(p) : Below(TracksOf(p), i)
<1>1. proc[p].cdt \in Files /\ proc[p].cur \in Names \ {Empty}
    BY DEF Types, Fine, Record, Files
<1>2. \A q \in Procs : proc[q].at \in Loops /\ proc[q].cur # Empty => proc[q].cur \in NamesOf[q]
    BY DEF Edited, OwnCd, Loops
<1>3. ~ \E q \in Procs : proc[q].at \in Loops /\ proc[q].cdt = proc[p].cdt /\ proc[q].cur = proc[p].cur
    BY <1>1, <1>2 DEF Apart
<1> QED BY <1>1, <1>3 DEF Edited, NoGap, Whole, TracksOf

Changes == {"cut", "delTracks", "dialog"}

\* What is left to show of a step in which a program reads or changes tracks.
LEMMA EditedBy ==
    ASSUME Types, Types', Edited, NEW p \in Procs, \A q \in Procs \ {p} : proc'[q] = proc[q],
           torn' = torn,
           \/ cdt' = cdt
           \/ proc[p].at \in Changes /\ \E S : cdt' = [cdt EXCEPT ![proc[p].cdt][proc[p].cur] = S],
           proc'[p].at \in {"count", "dialog", "cut", "delTracks", "delCdc"}
               => proc'[p].cur \in NamesOf[p] \cup {Empty},
           Apart /\ proc'[p].cur \in NamesOf[p] /\ proc'[p].cdt # 0 /\ Whole(p)'
               => Knows(proc'[p], TracksOf(p)'),
           Apart /\ proc[p].at \in Changes /\ proc[p].cur \in NamesOf[p] /\ Whole(p)
               => \/ proc'[p].at \in Loops /\ proc'[p].cdt = proc[p].cdt /\ proc'[p].cur = proc[p].cur
                  \/ \A i \in cdt'[proc[p].cdt][proc[p].cur] : Below(cdt'[proc[p].cdt][proc[p].cur], i)
    PROVE  Edited'
<1>1. OwnCd'
    BY DEF Edited, OwnCd
<1>2. proc[p].at \in Changes => proc[p].cur \in NamesOf[p] \cup {Empty}
    BY DEF Edited, OwnCd, Changes
<1>3. ASSUME NEW f \in Files, NEW n \in Names, cdt'[f][n] # cdt[f][n]
      PROVE  f = proc[p].cdt /\ n = proc[p].cur /\ proc[p].at \in Changes
  <2>1. cdt \in [Files -> [Names -> SUBSET Tracks]]
      BY DEF Types, FilesOK
  <2>2. PICK S : cdt' = [cdt EXCEPT ![proc[p].cdt][proc[p].cur] = S]
      BY <1>3
  <2>3. f # proc[p].cdt => cdt'[f] = cdt[f]
      BY <2>1, <2>2
  <2>4. f = proc[p].cdt /\ n # proc[p].cur => cdt'[f][n] = cdt[f][n]
      BY <2>1, <2>2
  <2> QED BY <1>3, <2>3, <2>4
<1>4. ASSUME Apart PROVE NoGap'
  <2> SUFFICES ASSUME NEW f \in Files, NEW n \in Names \ {Empty}, <<f, n>> \notin torn,
                      ~ \E q \in Procs : proc'[q].at \in Loops /\ proc'[q].cdt = f /\ proc'[q].cur = n
               PROVE  \A i \in cdt'[f][n] : Below(cdt'[f][n], i)
      BY DEF NoGap, Below
  <2>1. CASE f = proc[p].cdt /\ n = proc[p].cur /\ proc[p].at \in Changes
      BY <1>2, <1>4, <2>1 DEF Whole
  <2>2. CASE ~(f = proc[p].cdt /\ n = proc[p].cur /\ proc[p].at \in Changes)
    <3>1. cdt'[f][n] = cdt[f][n]
        BY <1>3, <2>2
    <3>2. ~ \E q \in Procs : proc[q].at \in Loops /\ proc[q].cdt = f /\ proc[q].cur = n
        BY <2>2 DEF Loops, Changes
    <3> QED BY <1>4, <3>1, <3>2 DEF Edited, NoGap
  <2> QED BY <2>1, <2>2
<1>5. ASSUME Apart, NEW q \in Procs \ {p}, proc[q].cur \in NamesOf[q], proc[q].cdt # 0, Whole(q)
      PROVE  Knows(proc'[q], TracksOf(q)')
  <2>1. proc[q].cdt \in Files /\ proc[q].cur \in Names \ {Empty}
      BY <1>5 DEF Types, Fine, Record, Files
  <2>2. ~(proc[q].cur = proc[p].cur /\ proc[p].at \in Changes)
      BY <1>2, <1>5, <2>1 DEF Apart
  <2>3. proc'[q] = proc[q] /\ TracksOf(q)' = TracksOf(q)
      BY <1>3, <2>1, <2>2 DEF TracksOf
  <2> QED BY <1>5, <2>3 DEF Edited, KnowsCd
<1>6. Apart => KnowsCd'
    BY <1>5 DEF KnowsCd, Whole
<1> QED BY <1>1, <1>4, <1>6 DEF Edited

\* what a step that leaves a program its CD and its files makes of the rest
Turns(p, l, rows, trk, t) ==
    /\ proc'[p].at = l /\ proc'[p].cdt = proc[p].cdt /\ proc'[p].cur = proc[p].cur
    /\ proc'[p].rows = rows /\ proc'[p].trk = trk /\ proc'[p].t = t

LEMMA EditedNext ==
    ASSUME Types, Types', Opens, Edited, NEW p \in Procs, Run(p) \/ UserActs(p)
    PROVE  Edited'
<1>1. /\ proc = [q \in Procs |-> proc[q]] /\ proc[p] \in Record
      /\ cdt \in [Files -> [Names -> SUBSET Tracks]]
      /\ proc[p].t \in Nat \ {0} /\ proc[p].rows \in Nat /\ proc[p].trk \in Nat /\ proc[p].cur \in Names
    BY DEF Types, FilesOK, Fine, Record
<1>2. \A q \in Procs \ {p} : proc'[q] = proc[q]
    BY OthersStay
<1> DEFINE r == proc[p]
           S == TracksOf(p)
           Mine == Apart /\ r.cur \in NamesOf[p] /\ Whole(p)
<1>3. r.at \in Busy \cup {"dialog", "main"} => r.cdt # 0 /\ r.cdt \in Files /\ S \subseteq Tracks
  <2>1. r.at \in Busy \cup {"dialog", "main"} => r.cdt # 0
      BY DEF Types, Fine, HasFiles, Busy
  <2> QED BY <1>1, <2>1 DEF TracksOf, Record, Files
<1>4. Mine /\ r.cdt # 0 => Knows(r, S)
    BY DEF Edited, KnowsCd
<1>5. \A q \in Procs : NamesOf[q] \subseteq Names \ {Empty}
    OBVIOUS
<1>14. r.t \in Nat /\ 1 <= r.t /\ r.rows \in Nat /\ r.trk \in Nat
    BY <1>1
<1> HIDE DEF S
<1>6. CASE SelectRow(p)
  <2>1. /\ proc'[p].at = "tracks" /\ proc'[p].rows = 0 /\ UNCHANGED <<cdt, torn>> /\ r.at = "select"
      BY <1>1, <1>6 DEF SelectRow, Becomes, Record
  <2>2. Knows(proc'[p], TracksOf(p)')
      BY <2>1 DEF Knows, Shows
  <2> QED BY <1>2, <2>1, <2>2, EditedBy DEF Changes
<1>7. CASE ReadTrack(p)
  <2>1. r.at \in {"count", "tracks", "page"} /\ UNCHANGED <<cdt, torn>> /\ r.cdt # 0 /\ S \subseteq Tracks
      BY <1>3, <1>7 DEF ReadTrack, Busy
  <2>2. r.at = "tracks" => r.t = r.rows + 1
      BY DEF Types, Fine, Steady
  <2>3. /\ r.cur \in NamesOf[p] => (Exists(p) <=> r.t \in S)
        /\ r.at = "count" => r.cur \in NamesOf[p] \cup {Empty}
      BY DEF Exists, S, Edited, OwnCd
  <2>4. CASE Exists(p)
    <3>1. Turns(p, r.at, IF r.at = "tracks" THEN r.rows + 1 ELSE r.rows, r.trk, r.t + 1)
      <4>1. PICK l : /\ l = (IF r.at = "tracks" THEN r.rows + 1 ELSE r.rows)
                     /\ Becomes(p, [r EXCEPT !.t = r.t + 1, !.rows = l])
          BY <1>7, <2>4 DEF ReadTrack
      <4>2. Turns(p, r.at, l, r.trk, r.t + 1)
          BY <1>1, <4>1 DEF Becomes, Record, Turns
      <4> QED BY <4>1, <4>2
    <3>2. TracksOf(p)' = S /\ Whole(p)' = Whole(p)
        BY <2>1, <3>1 DEF TracksOf, Turns, S, Whole
    <3>3. ASSUME Mine PROVE Knows(proc'[p], S)
      <4>1. Knows(r, S) /\ r.t \in S
          BY <1>4, <2>1, <2>3, <2>4, <3>3
      <4>2. CASE r.at = "count"
          BY <1>1, <3>1, <4>1, <4>2 DEF Knows, Shows, Turns
      <4>3. CASE r.at = "tracks"
        <5>1. 1..(r.rows + 1) \subseteq S
            BY <1>1, <2>2, <4>1, <4>3 DEF Knows
        <5> QED BY <3>1, <4>3, <5>1 DEF Knows, Shows, Turns
      <4>4. CASE r.at = "page"
          BY <3>1, <4>4 DEF Knows, Shows, Turns
      <4> QED BY <2>1, <4>2, <4>3, <4>4
    <3> QED BY <1>2, <2>1, <2>3, <3>1, <3>2, <3>3, EditedBy DEF Changes, Turns
  <2>5. CASE ~Exists(p) /\ r.at = "count"
    <3>1. Turns(p, "dialog", r.rows, r.trk, r.t)
        BY <1>1, <1>7, <2>5 DEF ReadTrack, Goto, Becomes, Record, Turns
    <3>2. TracksOf(p)' = S /\ Whole(p)' = Whole(p)
        BY <2>1, <3>1 DEF TracksOf, Turns, S, Whole
    <3>3. ASSUME Mine PROVE Knows(proc'[p], S)
      <4>1. Knows(r, S) /\ r.t \notin S
          BY <1>4, <2>1, <2>3, <2>5, <3>3
      <4>2. S = 1..r.rows /\ r.t <= r.rows + 1
          BY <2>5, <4>1 DEF Knows, Shows
      <4>3. r.t = r.rows + 1
          BY <1>1, <4>1, <4>2
      <4> QED BY <3>1, <4>2, <4>3 DEF Knows, Turns
    <3> QED BY <1>2, <2>1, <2>3, <2>5, <3>1, <3>2, <3>3, EditedBy DEF Changes, Turns
  <2>6. CASE ~Exists(p) /\ r.at = "tracks"
    <3>1. Turns(p, "main", r.rows, r.trk, r.t)
        BY <1>1, <1>7, <2>6 DEF ReadTrack, Goto, Becomes, Record, Turns
    <3>2. TracksOf(p)' = S /\ Whole(p)' = Whole(p)
        BY <2>1, <3>1 DEF TracksOf, Turns, S, Whole
    <3>3. ASSUME Mine PROVE Knows(proc'[p], S)
      <4>1. Knows(r, S) /\ r.t \notin S
          BY <1>4, <2>1, <2>3, <2>6, <3>3
      <4>2. 1..r.rows \subseteq S
          BY <2>6, <4>1 DEF Knows
      <4>3. \A i \in S : Below(S, i)
          BY <2>1, <2>6, <3>3, ShownWithoutGap DEF S, Loops
      <4>4. ASSUME NEW i \in S PROVE i \in 1..r.rows
        <5>1. i \in Tracks /\ i \in Nat /\ 1 <= i
            BY <2>1 DEF Tracks
        <5>2. CASE i > r.rows
          <6>1. r.t \in Tracks /\ r.t <= i
              BY <1>1, <2>2, <2>6, <5>1, <5>2 DEF Tracks
          <6>2. r.t # i
              BY <4>1
          <6>3. r.t < i
              BY <1>14, <5>1, <6>1, <6>2
          <6> QED BY <4>1, <4>3, <6>1, <6>3 DEF Below
        <5> QED BY <1>1, <5>1, <5>2
      <4> QED BY <3>1, <4>2, <4>4 DEF Knows, Turns
    <3> QED BY <1>2, <2>1, <3>1, <3>2, <3>3, EditedBy DEF Changes, Turns, Whole
  <2>7. CASE ~Exists(p) /\ r.at = "page"
    <3>1. proc'[p].cur = Empty /\ proc'[p].at = "off"
        BY <1>1, <1>7, <2>7 DEF ReadTrack, Leave, Becomes, Off
    <3> QED BY <1>2, <1>5, <2>1, <2>7, <3>1, EditedBy DEF Changes
  <2> QED BY <2>1, <2>4, <2>5, <2>6, <2>7

<1>8. CASE CutTrack(p)
  <2>1. r.at = "cut" /\ r.cdt # 0 /\ r.cdt \in Files /\ S \subseteq Tracks /\ torn' = torn
        /\ r.cur \in NamesOf[p] \cup {Empty}
      BY <1>3, <1>8 DEF CutTrack, Busy, Edited, OwnCd
  <2>2. Mine => \A i \in S, j \in Tracks : j < i /\ (i < r.trk \/ r.trk <= j) => j \in S
      BY <1>4, <2>1 DEF Knows
  <2>3. CASE r.trk \in S
    <3>1. cdt' = [cdt EXCEPT ![r.cdt][r.cur] = S \ {r.trk}]
        BY <1>8, <2>3 DEF CutTrack, S, TracksOf
    <3>2. Turns(p, "cut", r.rows, r.trk + 1, r.t)
        BY <1>1, <1>8, <2>1, <2>3 DEF CutTrack, Becomes, Record, Turns, S
    <3>3. TracksOf(p)' = S \ {r.trk} /\ Whole(p)' = Whole(p)
        BY <1>1, <2>1, <3>1, <3>2 DEF TracksOf, Turns, Whole
    <3>4. ASSUME Mine PROVE Knows(proc'[p], S \ {r.trk})
      <4>1. ASSUME NEW i \in S \ {r.trk}, NEW j \in Tracks, j < i, i < r.trk + 1 \/ r.trk + 1 <= j
            PROVE  j \in S \ {r.trk}
        <5>1. i \in Nat /\ j \in Nat
            BY <2>1 DEF Tracks
        <5>2. (i < r.trk \/ r.trk <= j) /\ j # r.trk
            BY <1>14, <4>1, <5>1
        <5> QED BY <2>2, <3>4, <4>1, <5>2
      <4> QED BY <3>2, <4>1 DEF Knows, Turns, Shows
    <3> QED BY <1>2, <2>1, <3>1, <3>2, <3>3, <3>4, EditedBy DEF Changes, Turns, Loops
  <2>4. CASE r.trk \notin S
    <3>1. Turns(p, "tracks", 0, r.trk, 1) /\ cdt' = cdt
      <4>1. Becomes(p, Redraw(r)) /\ cdt' = cdt
          BY <1>8, <2>4 DEF CutTrack, S
      <4> QED BY <1>1, <4>1 DEF Redraw, Becomes, Record, Turns
    <3>2. Knows(proc'[p], TracksOf(p)')
        BY <3>1 DEF Knows, Shows, Turns
    <3>3. ASSUME Mine, NEW i \in S PROVE Below(S, i)
      <4> SUFFICES ASSUME NEW j \in Tracks, j < i PROVE j \in S
          BY DEF Below
      <4>1. i \in Nat /\ i \in Tracks /\ j \in Nat
          BY <2>1 DEF Tracks
      <4>2. CASE i < r.trk \/ r.trk <= j
          BY <2>2, <3>3, <4>2
      <4>3. CASE j < r.trk /\ r.trk <= i
        <5>1. r.trk \in Tracks /\ r.trk < i
            BY <1>14, <2>4, <4>1, <4>3 DEF Tracks
        <5> QED BY <1>1, <2>2, <2>4, <3>3, <5>1
      <4> QED BY <1>1, <4>1, <4>2, <4>3
    <3> QED BY <1>2, <2>1, <3>1, <3>2, <3>3, EditedBy DEF Changes, Turns, S, TracksOf
  <2> QED BY <2>3, <2>4
<1>9. CASE DelTrack(p)
  <2>1. r.at = "delTracks" /\ r.cdt # 0 /\ r.cdt \in Files /\ S \subseteq Tracks /\ torn' = torn
        /\ r.cur \in NamesOf[p] \cup {Empty}
      BY <1>3, <1>9 DEF DelTrack, Busy, Edited, OwnCd
  <2>2. Mine => \A i \in S : r.t <= i /\ \A j \in Tracks : r.t <= j /\ j < i => j \in S
      BY <1>4, <2>1 DEF Knows
  <2>3. CASE r.t \in S
    <3>1. cdt' = [cdt EXCEPT ![r.cdt][r.cur] = S \ {r.t}]
        BY <1>9, <2>3 DEF DelTrack, S, TracksOf
    <3>2. Turns(p, "delTracks", r.rows, r.trk, r.t + 1)
        BY <1>1, <1>9, <2>1, <2>3 DEF DelTrack, Becomes, Record, Turns, S
    <3>3. TracksOf(p)' = S \ {r.t} /\ Whole(p)' = Whole(p)
        BY <1>1, <2>1, <3>1, <3>2 DEF TracksOf, Turns, Whole
    <3>4. ASSUME Mine PROVE Knows(proc'[p], S \ {r.t})
      <4>1. ASSUME NEW i \in S \ {r.t}
            PROVE  r.t + 1 <= i /\ \A j \in Tracks : r.t + 1 <= j /\ j < i => j \in S \ {r.t}
        <5>1. i \in Nat /\ Tracks \subseteq Nat
            BY <2>1 DEF Tracks
        <5>2. r.t <= i /\ \A j \in Tracks : r.t <= j /\ j < i => j \in S
            BY <2>2, <3>4
        <5>3. r.t \in Nat /\ r.t # i
            BY <1>14, <2>3, <4>1
        <5>4. r.t + 1 <= i
            BY <5>1, <5>2, <5>3
        <5>5. ASSUME NEW j \in Tracks, r.t + 1 <= j, j < i PROVE j \in S \ {r.t}
          <6>1. r.t <= j /\ j # r.t
              BY <5>1, <5>3, <5>5
          <6> QED BY <5>2, <5>5, <6>1
        <5> QED BY <5>4, <5>5
      <4> QED BY <3>2, <4>1 DEF Knows, Turns, Shows
    <3> QED BY <1>2, <2>1, <3>1, <3>2, <3>3, <3>4, EditedBy DEF Changes, Turns, Loops
  <2>4. CASE r.t \notin S
    <3>1. Turns(p, "delCdc", r.rows, r.trk, r.t) /\ cdt' = cdt
        BY <1>1, <1>9, <2>4 DEF DelTrack, Goto, Becomes, Record, Turns, S
    <3>2. TracksOf(p)' = S /\ Whole(p)' = Whole(p)
      <4>1. proc'[p].cdt = r.cdt /\ proc'[p].cur = r.cur
          BY <3>1 DEF Turns
      <4> QED BY <2>1, <3>1, <4>1 DEF TracksOf, S, Whole
    <3>3. ASSUME Mine PROVE S = {}
      <4> SUFFICES ASSUME NEW i \in S PROVE FALSE
          OBVIOUS
      <4>1. i \in Nat /\ i \in Tracks /\ r.t <= i
          BY <2>1, <2>2, <3>3 DEF Tracks
      <4>2. r.t \in Tracks /\ r.t < i
          BY <1>14, <2>4, <4>1 DEF Tracks
      <4> QED BY <1>1, <2>2, <2>4, <3>3, <4>2
    <3>4. Mine => Knows(proc'[p], S)
        BY <3>1, <3>3 DEF Knows, Turns, Shows
    <3>5. cdt'[r.cdt][r.cur] = S
        BY <3>1 DEF S, TracksOf
    <3> QED BY <1>2, <2>1, <3>1, <3>2, <3>3, <3>4, <3>5, EditedBy DEF Changes, Turns
  <2> QED BY <2>3, <2>4
<1>10. CASE DelCd(p)
  <2>1. /\ r.at = "delCdc" /\ r.cdt # 0 /\ UNCHANGED <<cdt, torn>>
        /\ proc'[p].at = "scan" /\ proc'[p].rows = 0 /\ proc'[p].cdt = r.cdt /\ proc'[p].cur = r.cur
      BY <1>1, <1>3, <1>10 DEF DelCd, Becomes, Record, Busy
  <2>2. TracksOf(p)' = S /\ Whole(p)' = Whole(p)
      BY <2>1 DEF TracksOf, S, Whole
  <2>3. Mine => S = {}
      BY <1>4, <2>1 DEF Knows
  <2>4. Mine => Knows(proc'[p], S)
      BY <2>1, <2>3 DEF Knows, Shows
  <2> QED BY <1>2, <2>1, <2>2, <2>4, EditedBy DEF Changes
<1>11. CASE DeleteCd(p) \/ AskTrack(p) \/ DeleteTrack(p)
  <2>1. /\ r.at = "main" /\ r.cdt # 0 /\ UNCHANGED <<cdt, torn>> /\ r.cur \in NamesOf[p] \cup {Empty}
        /\ S \subseteq Tracks
      BY <1>3, <1>11 DEF DeleteCd, AskTrack, DeleteTrack, Idle, Edits
  <2>2. \/ Turns(p, "delTracks", r.rows, r.trk, 1) \/ Turns(p, "count", r.rows, r.trk, 1)
        \/ Turns(p, "cut", r.rows, r.trk, r.t)
    <3>1. CASE DeleteCd(p)
        BY <1>1, <3>1 DEF DeleteCd, Becomes, Record, Turns
    <3>2. CASE AskTrack(p)
        BY <1>1, <3>2 DEF AskTrack, Becomes, Record, Turns
    <3>3. CASE DeleteTrack(p)
        BY <1>1, <3>3 DEF DeleteTrack, Becomes, Goto, Record, Turns
    <3> QED BY <1>11, <3>1, <3>2, <3>3
  <2>3. TracksOf(p)' = S /\ Whole(p)' = Whole(p)
      BY <2>1, <2>2 DEF TracksOf, S, Whole, Turns
  <2>4. ASSUME Mine PROVE Knows(proc'[p], S)
    <3>1. S = 1..r.rows
        BY <1>4, <2>1, <2>4 DEF Knows, Shows
    <3>2. \A i \in S : 1 <= i /\ \A j \in Tracks : j < i => j \in S
        BY <1>1, <3>1 DEF Tracks
    <3> QED BY <1>1, <2>2, <3>1, <3>2 DEF Knows, Turns, Shows
  <2> QED BY <1>2, <2>1, <2>2, <2>3, <2>4, EditedBy DEF Changes, Turns
<1>12. CASE AddTrack(p)
  <2>1. r.at = "dialog" /\ r.cdt # 0 /\ r.cdt \in Files /\ S \subseteq Tracks /\ torn' = torn
        /\ r.cur \in NamesOf[p] \cup {Empty}
      BY <1>3, <1>12 DEF AddTrack, Edited, OwnCd
  <2>2. Turns(p, "tracks", 0, r.trk, 1)
      BY <1>1, <1>12 DEF AddTrack, Redraw, Becomes, Record, Turns
  <2>3. Knows(proc'[p], TracksOf(p)')
      BY <2>2 DEF Knows, Shows, Turns
  <2>4. Mine => S = 1..r.rows /\ r.t = r.rows + 1
      BY <1>4, <2>1 DEF Knows, Shows
  <2>5. CASE cdt' = cdt
    <3>1. Mine => \A i \in S : Below(S, i)
        BY <1>1, <2>4 DEF Below, Tracks
    <3> QED BY <1>2, <2>1, <2>2, <2>3, <2>5, <3>1, EditedBy DEF Changes, Turns, S, TracksOf
  <2>6. CASE \E k \in Tracks : k <= r.t /\ cdt' = [cdt EXCEPT ![r.cdt][r.cur] = S \cup {k}]
    <3>1. PICK k \in Tracks : k <= r.t /\ cdt' = [cdt EXCEPT ![r.cdt][r.cur] = S \cup {k}]
        BY <2>6
    <3>2. Mine => \A i \in S \cup {k} : Below(S \cup {k}, i)
        BY <1>1, <2>4, <3>1 DEF Below, Tracks
    <3>3. cdt'[r.cdt][r.cur] = S \cup {k}
        BY <1>1, <2>1, <3>1
    <3>4. /\ r.at \in Changes /\ \E T : cdt' = [cdt EXCEPT ![r.cdt][r.cur] = T]
          /\ proc'[p].at = "tracks"
          /\ Mine => \A i \in cdt'[r.cdt][r.cur] : Below(cdt'[r.cdt][r.cur], i)
        BY <2>1, <2>2, <3>1, <3>2, <3>3 DEF Changes, Turns
    <3> QED BY <1>2, <2>1, <2>3, <3>4, EditedBy
  <2> QED BY <1>12, <2>5, <2>6 DEF AddTrack, S, TracksOf
<1>13. CASE LooksOn(p)
    BY <1>2, <1>13, LooksOnEdited
<1> QED BY <1>6, <1>7, <1>8, <1>9, <1>10, <1>11, <1>12, <1>13, LookingOn

LEMMA EditedInit == Init => Edited
<1> SUFFICES ASSUME Init PROVE Edited
    OBVIOUS
<1>1. \A p \in Procs : proc[p].at = "off" /\ proc[p].cur = Empty
    BY DEF Init, Off
<1>2. PICK size \in [Names \ {Empty} -> 0..MaxTracks] :
        cdt = [f \in Files |-> [n \in Names |-> IF f <= made.cdt /\ n # Empty THEN 1..size[n] ELSE {}]]
    BY DEF Init
<1>3. ASSUME NEW f \in Files, NEW n \in Names, NEW i \in cdt[f][n] PROVE Below(cdt[f][n], i)
  <2>1. n # Empty /\ cdt[f][n] = 1..size[n] /\ size[n] \in Nat
      BY <1>2, <1>3
  <2> QED BY <1>3, <2>1 DEF Below, Tracks
<1> QED BY <1>1, <1>3 DEF Edited, OwnCd, NoGap, KnowsCd

LEMMA EditedRows == Types /\ Edited => RowsAreTracks
<1> SUFFICES ASSUME Types, Edited, Apart, NEW p \in Procs, proc[p].at = "main",
                    proc[p].cur \in NamesOf[p], Whole(p)
             PROVE  TracksOf(p) = 1..proc[p].rows
    BY DEF RowsAreTracks
<1>1. proc[p].cdt # 0
    BY DEF Types, Fine, HasFiles
<1> QED BY <1>1 DEF Edited, KnowsCd, Knows, Shows

-----------------------------------------------------------------------------
(* The entries of the CDs *)

\* a program goes on to l with its CD and its track frame as they are
GoesTo(p, l) ==
    /\ proc'[p].kind = proc[p].kind /\ proc'[p].active = proc[p].active
    /\ proc'[p].cur = proc[p].cur /\ proc'[p].cdc = proc[p].cdc /\ proc'[p].at = l

\* a frame that is active after a step was so before, for the same CD
StaysActive(p) ==
    /\ proc'[p].active => /\ proc[p].active /\ proc'[p].cur = proc[p].cur
                          /\ proc'[p].cdc = proc[p].cdc
    /\ proc'[p].at \in {"count", "dialog"} => proc'[p].active
    /\ proc'[p].kind = "cgi" => ~proc'[p].active /\ proc'[p].at \notin Window

LEMMA ActiveStays ==
    ASSUME Types, Opens, Frames, NEW p \in Procs, Run(p) \/ UserActs(p), ~SelectRow(p)
    PROVE  StaysActive(p)
<1>1. /\ proc = [q \in Procs |-> proc[q]] /\ proc[p] \in Record
      /\ proc[p].kind = "cgi" => ~proc[p].active /\ proc[p].at \notin Window
      /\ proc[p].at \in {"count", "dialog"} => proc[p].active
    BY DEF Types, Fine, Frames
<1>2. Off.active = FALSE /\ Off.at = "off" /\ Off.kind = "none"
    BY DEF Off
<1>3. ASSUME Becomes(p, Off) PROVE StaysActive(p)
    BY <1>1, <1>2, <1>3 DEF Becomes, StaysActive
<1>4. ASSUME NEW l, GoesTo(p, l), l \in {"count", "dialog"} => proc[p].active,
             l \in Window => proc[p].at \in Window \/ proc[p].kind # "cgi"
      PROVE  StaysActive(p)
    BY <1>1, <1>4 DEF GoesTo, StaysActive
<1>5. ASSUME NEW l, NEW n, Becomes(p, [proc[p] EXCEPT !.at = l, !.text = n]) PROVE GoesTo(p, l)
    BY <1>1, <1>5 DEF Becomes, Record, GoesTo
<1>6. ASSUME NEW l, Goto(p, l) PROVE GoesTo(p, l)
    BY <1>1, <1>6 DEF Goto, Becomes, Record, GoesTo
<1>7. ASSUME Becomes(p, Listed(proc[p])) PROVE StaysActive(p)
  <2>1. CASE proc[p].kind = "cgi"
      BY <1>3, <1>7, <2>1 DEF Listed
  <2>2. CASE proc[p].kind # "cgi"
    <3>1. GoesTo(p, "main")
        BY <1>6, <1>7, <2>2 DEF Listed, Goto
    <3> QED BY <1>4, <2>2, <3>1
  <2> QED BY <2>1, <2>2
<1>8. ASSUME NEW l, NEW k, NEW m, Becomes(p, [proc[p] EXCEPT !.at = l, !.rows = m, !.t = k])
      PROVE  GoesTo(p, l)
    BY <1>1, <1>8 DEF Becomes, Record, GoesTo
<1>9. ASSUME NEW l, NEW k, Becomes(p, [proc[p] EXCEPT !.at = l, !.t = k]) PROVE GoesTo(p, l)
    BY <1>1, <1>9 DEF Becomes, Record, GoesTo
<1>a. CASE Unlink(p)
  <2>1. GoesTo(p, "unlinkCdt") \/ GoesTo(p, "openCdc")
      BY <1>6, <1>a DEF Unlink
  <2> QED BY <1>4, <2>1 DEF Window
<1>b. CASE Open(p)
  <2>1. PICK f : \/ Becomes(p, [proc[p] EXCEPT !.cdc = f, !.at = "openCdt"])
                 \/ proc[p].at = "openCdt" /\ Becomes(p, Opened([proc[p] EXCEPT !.cdt = f]))
      BY <1>b DEF Open
  <2>2. ~proc[p].active
      BY <1>b DEF Open, Opens, Blank, Opening
  <2>3. CASE Becomes(p, [proc[p] EXCEPT !.cdc = f, !.at = "openCdt"])
      BY <1>1, <2>2, <2>3 DEF Becomes, Record, StaysActive, Window
  <2>4. CASE proc[p].at = "openCdt" /\ Becomes(p, Opened([proc[p] EXCEPT !.cdt = f]))
    <3> DEFINE s == [proc[p] EXCEPT !.cdt = f]
    <3>1. s.kind \in {"gnome", "cgi", "new"}
        BY <1>1, <2>4 DEF Record, Types, Fine, Known
    <3>2. ASSUME NEW l \in {"scan", "request"}, proc'[p] = [s EXCEPT !.at = l]
          PROVE  ~proc'[p].active /\ proc'[p].at = l
        BY <1>1, <2>2, <2>4, <3>2 DEF Record
    <3>3. ASSUME proc'[p] = [Off EXCEPT !.kind = "gnome", !.at = "ask"]
          PROVE  ~proc'[p].active /\ proc'[p].at = "ask"
        BY <3>3 DEF Off
    <3>4. proc'[p] = Opened(s)
        BY <1>1, <2>4 DEF Becomes
    <3> HIDE DEF s
    <3>5. \/ \E l \in {"scan", "request"} : proc'[p] = [s EXCEPT !.at = l]
          \/ proc'[p] = Off
          \/ proc'[p] = [Off EXCEPT !.kind = "gnome", !.at = "ask"]
        BY <3>1, <3>4 DEF Opened
    <3>6. ~proc'[p].active /\ proc'[p].at \in {"scan", "request", "off", "ask"}
        BY <1>2, <3>2, <3>3, <3>5
    <3> QED BY <3>6 DEF StaysActive, Window
  <2> QED BY <2>1, <2>3, <2>4
<1>c. CASE Request(p)
  <2>1. GoesTo(p, "scan") \/ GoesTo(p, "find")
      BY <1>5, <1>6, <1>c DEF Request
  <2> QED BY <1>4, <2>1 DEF Window
<1>d. CASE Scan(p)
  <2>1. CASE Goto(p, "spinScan")
    <3>1. GoesTo(p, "spinScan")
        BY <1>6, <2>1
    <3> QED BY <1>4, <3>1 DEF Window
  <2>2. CASE \E n \in Names : Becomes(p, [proc[p] EXCEPT !.list = @ \cup {n}])
    <3>1. GoesTo(p, "scan")
        BY <1>1, <1>d, <2>2 DEF Becomes, Record, GoesTo, Scan
    <3> QED BY <1>4, <3>1 DEF Window
  <2> QED BY <1>7, <1>d, <2>1, <2>2, EntriesNames DEF Scan
<1>e. CASE Find(p)
  <2>1. CASE \E n \in Entries(p) : Becomes(p, Found(p, n))
    <3>1. PICK n \in Entries(p) : Becomes(p, Found(p, n))
        BY <2>1
    <3>2. CASE proc[p].kind = "cgi" /\ Becomes(p, [proc[p] EXCEPT !.at = "page", !.cur = n])
      <4>1. proc'[p].at = "page" /\ ~proc'[p].active
          BY <1>1, <3>2 DEF Becomes, Record
      <4> QED BY <4>1 DEF StaysActive, Window
    <3>3. CASE Goto(p, "spinFind")
      <4>1. GoesTo(p, "spinFind")
          BY <1>6, <3>3
      <4> QED BY <1>4, <4>1 DEF Window
    <3>4. CASE /\ proc[p].kind # "cgi"
               /\ \/ Becomes(p, [proc[p] EXCEPT !.at = "select", !.text = n])
                  \/ Goto(p, "main")
      <4>1. GoesTo(p, "select") \/ GoesTo(p, "main")
          BY <1>5, <1>6, <3>4
      <4> QED BY <1>4, <3>4, <4>1
    <3> QED BY <3>1, <3>2, <3>3, <3>4 DEF Found, Goto
  <2> QED BY <1>7, <1>e, <2>1 DEF Find
<1>f. CASE NoRow(p) \/ Quit(p) \/ Kill(p)
    BY <1>3, <1>f DEF NoRow, Quit, Kill, Leave
<1>g. CASE SpinEnds(p)
    BY <1>7, <1>g DEF SpinEnds
<1>h. CASE Start(p) \/ CreateNew(p)
  <2>1. PICK k, b : Initialize(p, k, b)
      BY <1>h DEF Start, CreateNew
  <2>2. ~proc'[p].active /\ proc'[p].at \in {"unlinkCdc", "openCdc"}
      BY <1>1, <2>1 DEF Initialize, Becomes, Off
  <2> QED BY <2>2 DEF StaysActive, Window
<1>i. CASE SelectCd(p) \/ AskFind(p)
  <2>1. (GoesTo(p, "select") \/ GoesTo(p, "find")) /\ proc[p].at = "main"
      BY <1>5, <1>i DEF SelectCd, AskFind, Idle
  <2> QED BY <1>4, <2>1 DEF Window
<1>j. CASE UnselectCd(p)
  <2>1. ~proc'[p].active /\ proc'[p].at = "main" /\ proc'[p].kind = proc[p].kind
      BY <1>1, <1>j DEF UnselectCd, Becomes, Record, Idle
  <2> QED BY <1>1, <1>j, <2>1 DEF StaysActive, UnselectCd, Idle, Window
<1>k. CASE SelectTrack(p)
  <2>1. GoesTo(p, "main") /\ proc[p].at = "main"
      BY <1>1, <1>k DEF SelectTrack, Becomes, Record, Idle, GoesTo
  <2> QED BY <1>4, <2>1 DEF Window
<1>l. CASE AddCd(p)
  <2>1. GoesTo(p, "scan")
      BY <1>1, <1>l DEF AddCd, Becomes, Record, GoesTo
  <2> QED BY <1>4, <2>1 DEF Window
<1>m. CASE ReadTrack(p)
  <2>1. CASE Exists(p)
    <3>1. PICK k, m : Becomes(p, [proc[p] EXCEPT !.t = k, !.rows = m])
        BY <1>m, <2>1 DEF ReadTrack
    <3>2. GoesTo(p, proc[p].at)
        BY <1>1, <3>1 DEF Becomes, Record, GoesTo
    <3> QED BY <1>1, <1>4, <3>2
  <2>2. CASE ~Exists(p)
    <3>1. \/ Becomes(p, Off)
          \/ GoesTo(p, "dialog") /\ proc[p].at = "count"
          \/ GoesTo(p, "main") /\ proc[p].at = "tracks"
        BY <1>6, <1>m, <2>2 DEF ReadTrack, Leave
    <3> QED BY <1>1, <1>3, <1>4, <3>1 DEF Window
  <2> QED BY <2>1, <2>2
<1>n. CASE CutTrack(p) \/ AddTrack(p)
  <2>1. proc[p].at \in {"cut", "dialog"}
        /\ \/ Becomes(p, [proc[p] EXCEPT !.trk = @ + 1]) /\ proc[p].at = "cut"
           \/ Becomes(p, Redraw(proc[p]))
      BY <1>n DEF CutTrack, AddTrack
  <2>2. Becomes(p, Redraw(proc[p])) => GoesTo(p, "tracks")
      BY <1>8 DEF Redraw
  <2>3. Becomes(p, [proc[p] EXCEPT !.trk = @ + 1]) /\ proc[p].at = "cut" => GoesTo(p, "cut")
      BY <1>1 DEF Becomes, Record, GoesTo
  <2> QED BY <1>4, <2>1, <2>2, <2>3 DEF Window
<1>o. CASE DelTrack(p)
  <2>1. (GoesTo(p, "delTracks") \/ GoesTo(p, "delCdc")) /\ proc[p].at = "delTracks"
      BY <1>1, <1>6, <1>o DEF DelTrack, Becomes, Record, GoesTo
  <2> QED BY <1>4, <2>1 DEF Window
<1>p. CASE DelCd(p)
  <2>1. ~proc'[p].active /\ proc'[p].at = "scan"
      BY <1>1, <1>p DEF DelCd, Becomes, Record
  <2> QED BY <2>1 DEF StaysActive, Window
<1>q. CASE DeleteCd(p) \/ AskTrack(p) \/ DeleteTrack(p)
  <2>1. \/ GoesTo(p, "delTracks")
        \/ GoesTo(p, "count") /\ proc[p].active
        \/ GoesTo(p, "cut")
    <3>1. CASE DeleteCd(p)
      <4>1. Becomes(p, [proc[p] EXCEPT !.at = "delTracks", !.t = 1])
          BY <3>1 DEF DeleteCd
      <4>2. GoesTo(p, "delTracks")
          BY <1>9, <4>1
      <4> QED BY <4>2
    <3>2. CASE AskTrack(p)
        BY <1>1, <3>2 DEF AskTrack, Becomes, Record, GoesTo
    <3>3. CASE DeleteTrack(p)
        BY <1>6, <3>3 DEF DeleteTrack
    <3> QED BY <1>q, <3>1, <3>2, <3>3
  <2>2. proc[p].at = "main"
      BY <1>q DEF DeleteCd, AskTrack, DeleteTrack, Idle
  <2> QED BY <1>4, <2>1, <2>2 DEF Window
<1> QED BY <1>a, <1>b, <1>c, <1>d, <1>e, <1>f, <1>g, <1>h, <1>i, <1>j, <1>k, <1>l, <1>m, <1>n, <1>o,
           <1>p, <1>q DEF Run, UserActs

\* A step takes at most one entry out, and adds tracks to at most one CD.
LEMMA OneEntry ==
    ASSUME Types, NEW p \in Procs, Run(p) \/ UserActs(p)
    PROVE  /\ \A c \in Files : \A n \in cdc[c] :
                n \in cdc'[c] \/ (DelCd(p) /\ c = proc[p].cdc /\ n = proc[p].cur)
           /\ \A d \in Files, n \in Names :
                \/ cdt'[d][n] \subseteq cdt[d][n]
                \/ AddTrack(p) /\ d = proc[p].cdt /\ n = proc[p].cur
<1>1. cdc \in [Files -> SUBSET Names] /\ cdt \in [Files -> [Names -> SUBSET Tracks]]
    BY DEF Types, FilesOK
<1>2. \/ cdc' = cdc
      \/ \E n : cdc' = [cdc EXCEPT ![proc[p].cdc] = @ \cup {n}]
      \/ DelCd(p) /\ cdc' = [cdc EXCEPT ![proc[p].cdc] = @ \ {proc[p].cur}]
    BY DEF Run, UserActs, Unlink, Open, Request, Scan, Find, NoRow, SpinEnds, SelectRow, ReadTrack, CutTrack,
           DelTrack, DelCd, Start, CreateNew, Quit, Kill, SelectCd, UnselectCd, SelectTrack, AddCd, AskFind,
           DeleteCd, AskTrack, DeleteTrack, AddTrack
<1>3. \/ cdt' = cdt
      \/ \E k : cdt' = [cdt EXCEPT ![proc[p].cdt][proc[p].cur] = @ \ {k}]
      \/ AddTrack(p) /\ \E k : cdt' = [cdt EXCEPT ![proc[p].cdt][proc[p].cur] = @ \cup {k}]
    BY DEF Run, UserActs, Unlink, Open, Request, Scan, Find, NoRow, SpinEnds, SelectRow, ReadTrack, CutTrack,
           DelTrack, DelCd, Start, CreateNew, Quit, Kill, SelectCd, UnselectCd, SelectTrack, AddCd, AskFind,
           DeleteCd, AskTrack, DeleteTrack, AddTrack
<1>4. ASSUME NEW c \in Files, NEW n \in cdc[c]
      PROVE  n \in cdc'[c] \/ (DelCd(p) /\ c = proc[p].cdc /\ n = proc[p].cur)
    BY <1>1, <1>2
<1>5. ASSUME NEW d \in Files, NEW n \in Names
      PROVE  cdt'[d][n] \subseteq cdt[d][n] \/ (AddTrack(p) /\ d = proc[p].cdt /\ n = proc[p].cur)
  <2>1. ASSUME NEW S, cdt' = [cdt EXCEPT ![proc[p].cdt][proc[p].cur] = S], d # proc[p].cdt \/ n # proc[p].cur
        PROVE  cdt'[d][n] = cdt[d][n]
    <3>1. d # proc[p].cdt => cdt'[d] = cdt[d]
        BY <1>1, <2>1
    <3>2. d = proc[p].cdt => cdt'[d][n] = cdt[d][n]
        BY <1>1, <2>1
    <3> QED BY <3>1, <3>2
  <2>2. CASE d # proc[p].cdt \/ n # proc[p].cur
      BY <1>3, <2>1, <2>2
  <2>3. CASE d = proc[p].cdt /\ n = proc[p].cur
    <3>1. \A S : cdt' = [cdt EXCEPT ![d][n] = S] => cdt'[d][n] = S
        BY <1>1
    <3> QED BY <1>3, <2>3, <3>1
  <2> QED BY <2>2, <2>3
<1> QED BY <1>4, <1>5

LEMMA TornGrows ==
    ASSUME NEW p \in Procs, Run(p) \/ UserActs(p)
    PROVE  torn \subseteq torn' /\ (DelCd(p) => torn' = torn) /\ (crossed => crossed')
<1>1. torn' = torn \/ (Kill(p) /\ \E x : torn' = torn \cup {x})
    BY DEF Run, UserActs, Unlink, Open, Request, Scan, Find, NoRow, SpinEnds, SelectRow, ReadTrack, CutTrack,
           DelTrack, DelCd, Start, CreateNew, Quit, Kill, SelectCd, UnselectCd, SelectTrack, AddCd, AskFind,
           DeleteCd, AskTrack, DeleteTrack, AddTrack
<1>2. crossed' = crossed \/ \E k, b : Initialize(p, k, b)
    BY DEF Run, UserActs, Unlink, Open, Request, Scan, Find, NoRow, SpinEnds, SelectRow, ReadTrack, CutTrack,
           DelTrack, DelCd, Start, CreateNew, Quit, Kill, SelectCd, UnselectCd, SelectTrack, AddCd, AskFind,
           DeleteCd, AskTrack, DeleteTrack, AddTrack
<1>3. crossed => crossed'
    BY <1>2 DEF Initialize
<1> QED BY <1>1, <1>3 DEF DelCd

\* What a step leaves of the pairs, and who changes the entries and tracks in them.
LEMMA EnteredPairs ==
    ASSUME Types, Types', Opens, ~crossed' => NewPairs, Edited, Entered, Apart, ~crossed',
           NEW p \in Procs, Run(p) \/ UserActs(p)
    PROVE  Catalogued'
<1>1. torn \subseteq torn' /\ (DelCd(p) => torn' = torn) /\ ~crossed
    BY TornGrows
<1>2. /\ \A q \in Procs : proc[q].cdc \in 0..MaxFiles /\ proc[q].cdt \in 0..MaxFiles
      /\ NamesOf[p] \subseteq Names \ {Empty} /\ Files = 1..MaxFiles
    BY DEF Types, Fine, Record, Files
<1>3. proc[p].at \in {"delCdc", "dialog"} => /\ proc[p].cur \in NamesOf[p] \cup {Empty}
                                            /\ proc[p].cdc # 0 /\ proc[p].cdt # 0
    BY DEF Edited, OwnCd, Types, Fine, HasFiles
<1>4. (DelCd(p) => proc[p].at = "delCdc") /\ (AddTrack(p) => proc[p].at = "dialog")
    BY DEF DelCd, AddTrack
<1>5. ASSUME NEW c \in 0..MaxFiles, NEW d \in 0..MaxFiles, Paired(c, d)',
             NEW n \in Names \ {Empty}, cdt'[d][n] # {}, <<d, n>> \notin torn'
      PROVE  n \in cdc'[c]
  <2>1. c \in Files /\ d \in Files
      BY <1>2, <1>5 DEF Paired, HasPair, Named
  <2>2. cdt'[d][n] \subseteq cdt[d][n] \/ (AddTrack(p) /\ d = proc[p].cdt /\ n = proc[p].cur)
      BY <2>1, OneEntry
  <2>3. Paired(c, d)
    <3>1. d <= made.cdt
      <4>1. proc[p].cdt <= made.cdt
          BY DEF Opens, Made
      <4>2. d > made.cdt => cdt[d][n] = {}
          BY <2>1 DEF Opens, Made
      <4>3. d \in Nat /\ made.cdt \in Nat
          BY <1>2 DEF Types, FilesOK
      <4> QED BY <1>5, <2>2, <4>1, <4>2, <4>3
    <3>2. d \in Nat /\ made.cdt \in Nat
        BY <1>2 DEF Types, FilesOK
    <3> QED BY <1>5, <3>1, <3>2 DEF NewPairs
  <2>4. CASE cdt[d][n] # {}
    <3>1. n \in cdc[c]
        BY <1>1, <1>5, <2>3, <2>4 DEF Entered, Catalogued
    <3>2. SUFFICES ASSUME DelCd(p), c = proc[p].cdc, n = proc[p].cur PROVE FALSE
        BY <2>1, <3>1, OneEntry
    <3>3. Paired(proc[p].cdc, proc[p].cdt)
        BY <1>3, <1>4, <3>2 DEF Paired, HasPair
    <3>4. d = proc[p].cdt
        BY <1>1, <1>2, <2>3, <3>2, <3>3 DEF Opens, Matched
    <3>5. Whole(p) /\ n \in NamesOf[p]
        BY <1>1, <1>3, <1>4, <1>5, <3>2, <3>4 DEF Whole
    <3>6. TracksOf(p) = {}
        BY <1>3, <1>4, <3>2, <3>5 DEF Edited, KnowsCd, Knows
    <3> QED BY <2>4, <3>2, <3>4, <3>6 DEF TracksOf
  <2>5. CASE cdt[d][n] = {}
    <3>1. AddTrack(p) /\ d = proc[p].cdt /\ n = proc[p].cur
        BY <1>5, <2>2, <2>5
    <3>2. Paired(proc[p].cdc, d)
        BY <1>3, <1>4, <3>1 DEF Paired, HasPair
    <3>3. c = proc[p].cdc
        BY <1>1, <1>2, <2>3, <3>2 DEF Opens, Matched
    <3>4. n \in cdc[c]
        BY <1>3, <1>4, <3>1, <3>3 DEF Entered, Frames, ActiveCd
    <3> QED BY <3>1, <3>4 DEF AddTrack
  <2> QED BY <2>4, <2>5
<1> QED BY <1>5 DEF Catalogued

LEMMA EnteredNext ==
    ASSUME Types, Types', Opens, Opens', ~crossed' => NewPairs, Edited, Entered,
           NEW p \in Procs, Run(p) \/ UserActs(p)
    PROVE  Entered'
<1>1. \A q \in Procs \ {p} : proc'[q] = proc[q]
    BY OthersStay
<1>2. torn \subseteq torn' /\ (DelCd(p) => torn' = torn) /\ (crossed => crossed')
    BY TornGrows
<1>3. /\ \A q \in Procs : proc[q].cdc \in 0..MaxFiles /\ proc[q].cdt \in 0..MaxFiles
      /\ \A q \in Procs : NamesOf[q] \subseteq Names \ {Empty}
      /\ Files = 1..MaxFiles
    BY DEF Types, Fine, Record, Files
<1>4. proc[p].at \in {"delCdc", "dialog"} => proc[p].cur \in NamesOf[p] \cup {Empty}
    BY DEF Edited, OwnCd
<1>5. proc[p].at \in {"delCdc", "dialog"} => proc[p].cdc # 0 /\ proc[p].cdt # 0
    BY DEF Types, Fine, HasFiles
<1>6. (DelCd(p) => proc[p].at = "delCdc") /\ (AddTrack(p) => proc[p].at = "dialog")
    BY DEF DelCd, AddTrack
<1>7. CASE SelectRow(p)
  <2>0. proc = [q \in Procs |-> proc[q]] /\ proc[p] \in Record
      BY DEF Types, Fine
  <2>1. /\ proc'[p].kind = proc[p].kind /\ proc'[p].cdc = proc[p].cdc /\ proc'[p].at = "tracks"
        /\ proc'[p].cur = (IF proc[p].text \in Entries(p) THEN proc[p].text ELSE Empty)
        /\ proc[p].at = "select" /\ UNCHANGED <<path, made, cdc, cdt, torn, crossed>>
      BY <1>7, <2>0 DEF SelectRow, Becomes, Record
  <2>2. proc'[p].kind # "cgi"
      BY <2>1 DEF Entered, Frames, Window
  <2>3. proc'[p].cur \in NamesOf[p] => proc'[p].cdc # 0 /\ proc'[p].cur \in cdc[proc'[p].cdc]
      BY <1>3, <2>1 DEF Entries
  <2>4. Frames'
      BY <1>1, <2>1, <2>2 DEF Entered, Frames
  <2>5. Apart => ActiveCd'
      BY <1>1, <2>1, <2>3 DEF Entered, ActiveCd
  <2> QED BY <2>4, <2>5, EnteredPairs DEF Entered
<1>8. CASE ~SelectRow(p)
  <2>1. StaysActive(p) /\ Frames
      BY <1>8, ActiveStays DEF Entered
  <2>2. Frames'
      BY <1>1, <2>1 DEF Frames, StaysActive
  <2>3. ASSUME Apart, NEW q \in Procs, proc'[q].active, proc'[q].cur \in NamesOf[q]
        PROVE  proc'[q].cdc # 0 /\ proc'[q].cur \in cdc'[proc'[q].cdc]
    <3>1. proc[q].active /\ proc'[q].cur = proc[q].cur /\ proc'[q].cdc = proc[q].cdc
        BY <1>1, <2>1, <2>3 DEF StaysActive
    <3>2. proc[q].cdc # 0 /\ proc[q].cur \in cdc[proc[q].cdc]
        BY <2>3, <3>1 DEF Entered, ActiveCd
    <3>3. SUFFICES ASSUME DelCd(p), proc[q].cdc = proc[p].cdc, proc[q].cur = proc[p].cur PROVE FALSE
      <4>1. proc[q].cdc \in Files
          BY <1>3, <3>2
      <4> QED BY <3>1, <3>2, <4>1, OneEntry
    <3>4. q = p
        BY <1>3, <1>4, <1>6, <2>3, <3>1, <3>3 DEF Apart
    <3>5. ~proc'[p].active
      <4>1. proc = [r \in Procs |-> proc[r]] /\ proc[p] \in Record
          BY DEF Types, Fine
      <4> QED BY <3>3, <4>1 DEF DelCd, Becomes, Record
    <3> QED BY <2>3, <3>4, <3>5
  <2>4. Apart => ActiveCd'
      BY <2>3 DEF ActiveCd
  <2> QED BY <2>2, <2>4, EnteredPairs DEF Entered
<1> QED BY <1>7, <1>8

LEMMA EnteredInit == Init => Entered
<1> SUFFICES ASSUME Init PROVE Entered
    OBVIOUS
<1>1. \A p \in Procs : proc[p] = Off
    BY DEF Init
<1>2. /\ Off.kind = "none" /\ Off.active = FALSE /\ Off.at = "off" /\ Off.cdc = 0
    BY DEF Off
<1>3. PICK f \in {0, 1} : made = [cdc |-> f, cdt |-> f] /\ path = made
    BY DEF Init
<1>4. ASSUME NEW c, NEW d, Paired(c, d) PROVE c = 1 /\ d = 1 /\ made.cdc = 1
    BY <1>1, <1>2, <1>3, <1>4 DEF Paired, HasPair, Named
<1>5. ASSUME NEW c, NEW d, Paired(c, d), NEW n \in Names \ {Empty} PROVE n \in cdc[c]
  <2>1. PICK size \in [Names \ {Empty} -> 0..MaxTracks] :
            cdc = [g \in Files |-> IF g <= made.cdc THEN DOMAIN size ELSE {}]
      BY DEF Init
  <2> QED BY <1>4, <1>5, <2>1 DEF Files
<1> QED BY <1>1, <1>2, <1>5 DEF Entered, Frames, ActiveCd, Catalogued

LEMMA EnteredNoOrphans == Types /\ Entered => NoOrphanTracks
<1> SUFFICES ASSUME Types, Entered, Apart, ~crossed, NEW p \in Procs, proc[p].at = "main",
                    NEW n \in Names \ {Empty}, cdt[proc[p].cdt][n] # {}, <<proc[p].cdt, n>> \notin torn
             PROVE  n \in Entries(p)
    BY DEF NoOrphanTracks
<1>1. /\ proc[p].cdc \in 0..MaxFiles /\ proc[p].cdt \in 0..MaxFiles
      /\ proc[p].cdc # 0 /\ proc[p].cdt # 0
    BY DEF Types, Fine, Record, HasFiles
<1>2. Paired(proc[p].cdc, proc[p].cdt)
    BY <1>1 DEF Paired, HasPair
<1> QED BY <1>1, <1>2 DEF Entered, Catalogued, Entries

-----------------------------------------------------------------------------
(* The theorems *)

Inductive == Types /\ Opens /\ Edited /\ Entered

LEMMA InductiveInit == Init => Inductive
BY TypesInit, OpensInit, EditedInit, EnteredInit DEF Inductive

LEMMA InductiveStep == Inductive /\ [Next]_vars => Inductive'
<1> SUFFICES ASSUME Inductive, [Next]_vars PROVE Inductive'
    OBVIOUS
<1>1. CASE Next
  <2>1. PICK p \in Procs : Run(p) \/ UserActs(p)
      BY <1>1 DEF Next
  <2>2. Types'
      BY <2>1, TypesNext DEF Inductive
  <2>3. Opens' /\ (~crossed' => NewPairs)
      BY <2>1, <2>2, OpensNext DEF Inductive
  <2>4. Edited'
      BY <2>1, <2>2, <2>3, EditedNext DEF Inductive
  <2>5. Entered'
      BY <2>1, <2>2, <2>3, EnteredNext DEF Inductive
  <2> QED BY <2>2, <2>3, <2>4, <2>5 DEF Inductive
<1>2. CASE UNCHANGED vars
  <2>1. Types'
      BY <1>2 DEF Inductive, Types, FilesOK, vars
  <2>2. Opens'
      BY <1>2 DEF Inductive, Opens, Made, Blank, Alone, OpenedSoFar, Matched, Paired, HasPair, Named, vars
  <2>3. Edited'
      BY <1>2 DEF Inductive, Edited, OwnCd, Apart, NoGap, KnowsCd, Whole, TracksOf, vars
  <2>4. Entered'
      BY <1>2 DEF Inductive, Entered, Frames, ActiveCd, Catalogued, Paired, HasPair, Named, vars
  <2> QED BY <2>1, <2>2, <2>3, <2>4 DEF Inductive
<1> QED BY <1>1, <1>2

\* What the proofs below rest on: types, which files the programs have open, what a
\* program knows of the tracks of its user's CD, and which CDs the catalogue has.
THEOREM LocalInvariant == Spec => []Inductive
BY InductiveInit, InductiveStep, PTL DEF Spec

\* Every variable has its type, and the functions of access.c are called with both
\* files open.
THEOREM LocalTypes == Spec => []TypeOK
<1>1. Inductive => TypeOK
    BY TypesTypeOK DEF Inductive
<1> QED BY <1>1, LocalInvariant, PTL

\* Programs that share the entries share the tracks, unless two calls of
\* database_initialize have overlapped.
THEOREM FilesPaired == Spec => []SameFiles
<1>1. Inductive => SameFiles
    BY OpensSameFiles DEF Inductive
<1> QED BY <1>1, LocalInvariant, PTL

\* The rows of the window are the tracks of its CD, without a gap, when no two users
\* edit the same CD.
THEOREM RowsShowTracks == Spec => []RowsAreTracks
<1>1. Inductive => RowsAreTracks
    BY EditedRows DEF Inductive
<1> QED BY <1>1, LocalInvariant, PTL

\* A CD that has tracks is in the catalogue, unless a crash broke off its deletion.
THEOREM NoTracksLeft == Spec => []NoOrphanTracks
<1>1. Inductive => NoOrphanTracks
    BY EnteredNoOrphans DEF Inductive
<1> QED BY <1>1, LocalInvariant, PTL

=============================================================================

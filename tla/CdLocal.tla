-------------------------------- MODULE CdLocal --------------------------------
(***************************************************************************)
(* The programs that open the CD database themselves, without a server:    *)
(* the GNOME window (chapter17/cd_database), the CGI page (chapter20/app)  *)
(* and the menu's -i, which begins a new database (chapter07/app).  All    *)
(* three are linked with the same access.c (cd_access.c).                  *)
(*                                                                         *)
(* Each call of access.c is one step, and the calls of different programs  *)
(* interleave.  A file that is unlinked lives on for who has it open.  The *)
(* .pag and the .dir file of a table count as one file.                    *)
(***************************************************************************)
EXTENDS Naturals

CONSTANTS
    Procs,        \* places where one of the programs can run
    Programs,     \* the programs run at each place
    Names,        \* catalogue names, which are also the texts searched for
    Empty,        \* the empty name; no entry selected
    Contain,      \* the names that contain a text
    NamesOf,      \* the names that the user at each place edits
    MaxTracks,    \* bound: the highest track number
    MaxFiles,     \* bound: files made for one table
    MaxActs       \* bound: starts, actions of users and crashes

ASSUME LocalAssumption ==
    /\ Empty \in Names /\ {MaxTracks, MaxActs} \subseteq Nat /\ MaxFiles \in Nat \ {0}
    /\ Contain \in [Names -> SUBSET Names] /\ Contain[Empty] = Names
    /\ Programs \in [Procs -> SUBSET {"gnome", "cgi", "new"}]
    /\ NamesOf \in [Procs -> SUBSET (Names \ {Empty})]

VARIABLES
    path,     \* the file each table's name leads to, 0 if there is none
    made,     \* files made for each table so far
    cdc,      \* the catalogue entries in each file made for cdc_data
    cdt,      \* the tracks in each file made for cdt_data
    proc,     \* the programs
    torn,     \* file and name of deletions that a crash broke off
    crossed,  \* two calls of database_initialize have overlapped
    acts      \* starts, actions of users and crashes so far

vars == <<path, made, cdc, cdt, proc, torn, crossed, acts>>

Files  == 1..MaxFiles
Tracks == 1..MaxTracks

\* at: the call a program is in.  cdc, cdt: its open files.  list: rows of
\* cd_list.  cur: selected_cdc_entry.  text: what is searched for, or selected next.
\* active: track_frame is not shaded.
\* rows: rows of track_list.  trk: selected_track.  t: track_no of a loop.
Off == [kind |-> "none", at |-> "off", new |-> FALSE, cdc |-> 0, cdt |-> 0, list |-> {},
        cur |-> Empty, text |-> Empty, active |-> FALSE, rows |-> 0, trk |-> 0, t |-> 1]

Opening == {"unlinkCdc", "unlinkCdt", "openCdc", "openCdt"}
Busy    == {"scan", "find", "select", "count", "tracks", "page", "cut", "delTracks", "delCdc"}
Calm    == {"off", "ask", "request", "main", "dialog"}
Spins   == {"spinScan", "spinFind"}
Loops   == {"cut", "delTracks"}

\* there is no database yet, or that of earlier sessions
Init ==
    /\ \E f \in {0, 1} : made = [cdc |-> f, cdt |-> f] /\ path = made
    /\ \E size \in [Names \ {Empty} -> 0..MaxTracks] :
         /\ cdc = [f \in Files |-> IF f <= made.cdc THEN DOMAIN size ELSE {}]
         /\ cdt = [f \in Files |-> [n \in Names |->
                     IF f <= made.cdt /\ n # Empty THEN 1..size[n] ELSE {}]]
    /\ proc = [p \in Procs |-> Off]
    /\ torn = {} /\ crossed = FALSE /\ acts = 0

Act           == acts < MaxActs /\ acts' = acts + 1
Becomes(p, r) == proc' = [proc EXCEPT ![p] = r]
Goto(p, l)    == Becomes(p, [proc[p] EXCEPT !.at = l])
Leave(p)      == Becomes(p, Off)
Entries(p)    == IF proc[p].cdc = 0 THEN {} ELSE cdc[proc[p].cdc]
TracksOf(p)   == cdt[proc[p].cdt][proc[p].cur]

\* get_cdt_entry answers with an empty catalogue field if there is no such track
Exists(p) == proc[p].cur # Empty /\ proc[p].t \in TracksOf(p)

-----------------------------------------------------------------------------
(* database_initialize *)

Initialize(p, kind, new) ==
    /\ Becomes(p, [Off EXCEPT !.kind = kind, !.new = new,
                              !.at = IF new THEN "unlinkCdc" ELSE "openCdc"])
    /\ crossed' = (crossed \/ \E q \in Procs \ {p} : proc[q].at \in Opening)

\* Slip: a new database keeps the old tracks.
UnlinkCatalogue(p) ==
    /\ proc[p].at \in {"unlinkCdc", "unlinkCdt"}
    /\ path' = [path EXCEPT !.cdc = 0]
    /\ Goto(p, IF proc[p].at = "unlinkCdc" THEN "unlinkCdt" ELSE "openCdc")
    /\ UNCHANGED <<made, cdc, cdt, torn, crossed, acts>>

Unlink(p) ==
    /\ \/ /\ proc[p].at = "unlinkCdc" /\ path' = [path EXCEPT !.cdc = 0]
          /\ Goto(p, "unlinkCdt")
       \/ /\ proc[p].at = "unlinkCdt" /\ path' = [path EXCEPT !.cdt = 0]
          /\ Goto(p, "openCdc")
    /\ UNCHANGED <<made, cdc, cdt, torn, crossed, acts>>

\* Slip: one file is enough.
OpenedOne(r) ==
    IF r.cdc = 0 /\ r.cdt = 0 THEN Off
    ELSE [r EXCEPT !.at = IF r.kind = "gnome" THEN "scan" ELSE "request"]

\* where a program goes on, given both files; without them access.c closes both
Opened(r) ==
    IF r.cdc # 0 /\ r.cdt # 0
    THEN CASE r.kind = "gnome" -> [r EXCEPT !.at = "scan"]
           [] r.kind = "cgi"   -> [r EXCEPT !.at = "request"]
           [] r.kind = "new"   -> Off
    ELSE IF r.kind = "gnome" THEN [Off EXCEPT !.kind = "gnome", !.at = "ask"] ELSE Off

\* dbm_open: O_CREAT for a new database makes a missing file, O_RDWR alone fails
Open(p) ==
    \E table \in {"cdc", "cdt"} :
      LET create == path[table] = 0 /\ proc[p].new
          f      == IF create THEN made[table] + 1 ELSE path[table]
      IN /\ proc[p].at = (IF table = "cdc" THEN "openCdc" ELSE "openCdt") /\ f <= MaxFiles
         /\ path' = [path EXCEPT ![table] = f]
         /\ made' = IF create THEN [made EXCEPT ![table] = f] ELSE made
         /\ IF table = "cdc"
            THEN Becomes(p, [proc[p] EXCEPT !.cdc = f, !.at = "openCdt"])
            ELSE Becomes(p, Opened([proc[p] EXCEPT !.cdt = f]))
         /\ UNCHANGED <<cdc, cdt, torn, crossed, acts>>

-----------------------------------------------------------------------------
(* The programs' main functions *)

\* the menu program's command_mode makes a new database with -i
Start(p) ==
    /\ Act /\ proc[p].at = "off"
    /\ \E kind \in Programs[p] : Initialize(p, kind, kind = "new")
    /\ UNCHANGED <<path, made, cdc, cdt, torn>>

\* "Create new database?"
CreateNew(p) ==
    /\ proc[p].at = "ask"
    /\ Initialize(p, "gnome", TRUE)
    /\ UNCHANGED <<path, made, cdc, cdt, torn, acts>>

\* the dialog is cancelled, or the window closed; database_close is not called
Quit(p) ==
    /\ proc[p].at \in {"ask", "main"} /\ Leave(p)
    /\ UNCHANGED <<path, made, cdc, cdt, torn, crossed, acts>>

\* a crash, which may break off a deletion
Kill(p) ==
    /\ Act /\ proc[p].at # "off" /\ Leave(p)
    /\ torn' = IF proc[p].at \in Loops THEN torn \cup {<<proc[p].cdt, proc[p].cur>>} ELSE torn
    /\ UNCHANGED <<path, made, cdc, cdt, crossed>>

\* get_input: the page asked for is the list, or that of one entry (a link may be old)
Request(p) ==
    /\ proc[p].at = "request"
    /\ \/ Goto(p, "scan")
       \/ \E n \in Names : Becomes(p, [proc[p] EXCEPT !.at = "find", !.text = n])
    /\ UNCHANGED <<path, made, cdc, cdt, torn, crossed, acts>>

-----------------------------------------------------------------------------
(* search_cdc_entry.  An entry with the empty name, once fetched, looks like  *)
(* no match yet, and dbm_nextkey is called only past an entry that does not  *)
(* match: the function fetches it again and again.  If another process       *)
(* deletes that entry, the search ends as if there were no more.             *)

\* where a program goes on when a search finds no more
Listed(r) == IF r.kind = "cgi" THEN Off ELSE [r EXCEPT !.at = "main"]

\* process_no_entry and update_clist: one call after another with the empty text
Scan(p) ==
    /\ proc[p].at = "scan"
    /\ \/ \E n \in Entries(p) \ proc[p].list :
            IF n = Empty THEN Goto(p, "spinScan")
            ELSE Becomes(p, [proc[p] EXCEPT !.list = @ \cup {n}])
       \/ Entries(p) \subseteq proc[p].list /\ Becomes(p, Listed(proc[p]))
    /\ UNCHANGED <<path, made, cdc, cdt, torn, crossed, acts>>

\* what is done with the entry found: the page shows it, the window selects its row
\* if it is listed (get_row leaves the loop without one otherwise)
Found(p, n) ==
    LET r == proc[p]
    IN IF n = Empty THEN [r EXCEPT !.at = "spinFind"]
       ELSE IF r.kind = "cgi" THEN [r EXCEPT !.at = "page", !.cur = n]
       ELSE IF n \in r.list THEN [r EXCEPT !.at = "select", !.text = n]
       ELSE [r EXCEPT !.at = "main"]

\* Slip: an entry that does not match is fetched again.
FindStays(p) ==
    /\ proc[p].at = "find" /\ Entries(p) \subseteq Contain[proc[p].text]
    /\ \/ \E n \in Entries(p) : Becomes(p, Found(p, n))
       \/ Entries(p) = {} /\ Becomes(p, Listed(proc[p]))
    /\ UNCHANGED <<path, made, cdc, cdt, torn, crossed, acts>>

\* find_cat_entry and process_cat: the first entry that contains the text
Find(p) ==
    LET match == Entries(p) \cap Contain[proc[p].text]
    IN /\ proc[p].at = "find"
       /\ \/ \E n \in match : Becomes(p, Found(p, n))
          \/ match = {} /\ Becomes(p, Listed(proc[p]))
       /\ UNCHANGED <<path, made, cdc, cdt, torn, crossed, acts>>

SpinEnds(p) ==
    /\ proc[p].at \in Spins /\ Empty \notin Entries(p)
    /\ Becomes(p, Listed(proc[p]))
    /\ UNCHANGED <<path, made, cdc, cdt, torn, crossed, acts>>

\* get_row runs past the rows of an empty list with row_text never set
NoRow(p) ==
    /\ proc[p].at = "find" /\ proc[p].kind = "gnome" /\ proc[p].list = {}
    /\ Entries(p) \cap Contain[proc[p].text] # {} /\ Leave(p)
    /\ UNCHANGED <<path, made, cdc, cdt, torn, crossed, acts>>

-----------------------------------------------------------------------------
(* The GNOME window: what its user does.  The dialogs are modal. *)

Edits(p) == proc[p].cur \in NamesOf[p] \cup {Empty}

Idle(p) == proc[p].at = "main" /\ Act

SelectCd(p) ==
    /\ Idle(p)
    /\ \E n \in proc[p].list : Becomes(p, [proc[p] EXCEPT !.at = "select", !.text = n])
    /\ UNCHANGED <<path, made, cdc, cdt, torn, crossed>>

\* select_row_callback; an entry deleted since by another process reads as empty
SelectRow(p) ==
    /\ proc[p].at = "select"
    /\ Becomes(p, [proc[p] EXCEPT !.at = "tracks", !.active = TRUE, !.rows = 0, !.t = 1, !.text = Empty,
                                  !.cur = IF proc[p].text \in Entries(p) THEN proc[p].text ELSE Empty])
    /\ UNCHANGED <<path, made, cdc, cdt, torn, crossed, acts>>

\* a click on the selected CD: set_insensitive
UnselectCd(p) ==
    /\ Idle(p) /\ proc[p].active
    /\ Becomes(p, [proc[p] EXCEPT !.active = FALSE])
    /\ UNCHANGED <<path, made, cdc, cdt, torn, crossed>>

\* select_track_row_callback: selected_track outlives the choice of another CD
SelectTrack(p) ==
    /\ Idle(p) /\ proc[p].active
    /\ \E r \in 1..proc[p].rows : Becomes(p, [proc[p] EXCEPT !.trk = r])
    /\ UNCHANGED <<path, made, cdc, cdt, torn, crossed>>

\* add_cd_dialog: add_cdc_entry, whatever the name, then update_clist
AddCd(p) ==
    /\ Idle(p)
    /\ \E n \in NamesOf[p] \cup {Empty} : cdc' = [cdc EXCEPT ![proc[p].cdc] = @ \cup {n}]
    /\ Becomes(p, [proc[p] EXCEPT !.at = "scan", !.list = {}])
    /\ UNCHANGED <<path, made, cdt, torn, crossed>>

AskFind(p) ==
    /\ Idle(p)
    /\ \E n \in Names : Becomes(p, [proc[p] EXCEPT !.at = "find", !.text = n])
    /\ UNCHANGED <<path, made, cdc, cdt, torn, crossed>>

\* delete_cd_dialog, from the toolbar: offered with no CD selected too
DeleteCd(p) ==
    /\ Idle(p) /\ Edits(p)
    /\ Becomes(p, [proc[p] EXCEPT !.at = "delTracks", !.t = 1])
    /\ UNCHANGED <<path, made, cdc, cdt, torn, crossed>>

\* add_track_dialog begins with count_track_entries
AskTrack(p) ==
    /\ Idle(p) /\ Edits(p) /\ proc[p].active
    /\ Becomes(p, [proc[p] EXCEPT !.at = "count", !.t = 1])
    /\ UNCHANGED <<path, made, cdc, cdt, torn, crossed>>

\* delete_track_dialog deletes from selected_track on
DeleteTrack(p) ==
    /\ Idle(p) /\ Edits(p) /\ proc[p].active
    /\ Goto(p, "cut")
    /\ UNCHANGED <<path, made, cdc, cdt, torn, crossed>>

-----------------------------------------------------------------------------
(* The GNOME window: what follows. *)

\* count_track_entries, update_track_list and the page of one entry read tracks
\* until one is missing
ReadTrack(p) ==
    /\ proc[p].at \in {"count", "tracks", "page"}
    /\ \/ /\ Exists(p)
          /\ Becomes(p, [proc[p] EXCEPT !.t = @ + 1,
                                        !.rows = IF proc[p].at = "tracks" THEN @ + 1 ELSE @])
       \/ ~Exists(p) /\ proc[p].at = "count"  /\ Goto(p, "dialog")
       \/ ~Exists(p) /\ proc[p].at = "tracks" /\ Goto(p, "main")
       \/ ~Exists(p) /\ proc[p].at = "page"   /\ Leave(p)
    /\ UNCHANGED <<path, made, cdc, cdt, torn, crossed, acts>>

Redraw(r) == [r EXCEPT !.at = "tracks", !.rows = 0, !.t = 1]

\* Slip: the spin button goes one further.
AddTrackNext(p) ==
    /\ proc[p].at = "dialog"
    /\ \E k \in Tracks : /\ k <= proc[p].t + 1
         /\ cdt' = [cdt EXCEPT ![proc[p].cdt][proc[p].cur] = @ \cup {k}]
    /\ Becomes(p, Redraw(proc[p]))
    /\ UNCHANGED <<path, made, cdc, torn, crossed, acts>>

\* the spin button offers 1 to next_track; or the dialog is cancelled
AddTrack(p) ==
    /\ proc[p].at = "dialog"
    /\ \/ \E k \in Tracks : /\ k <= proc[p].t
            /\ cdt' = [cdt EXCEPT ![proc[p].cdt][proc[p].cur] = @ \cup {k}]
       \/ UNCHANGED cdt
    /\ Becomes(p, Redraw(proc[p]))
    /\ UNCHANGED <<path, made, cdc, torn, crossed, acts>>

\* delete_track_dialog: del_cdt_entry until it fails, then update_track_list
CutTrack(p) ==
    /\ proc[p].at = "cut"
    /\ IF proc[p].trk \in TracksOf(p)
       THEN /\ cdt' = [cdt EXCEPT ![proc[p].cdt][proc[p].cur] = @ \ {proc[p].trk}]
            /\ Becomes(p, [proc[p] EXCEPT !.trk = @ + 1])
       ELSE Becomes(p, Redraw(proc[p])) /\ UNCHANGED cdt
    /\ UNCHANGED <<path, made, cdc, torn, crossed, acts>>

\* delete_cd_dialog: the tracks from 1 on until del_cdt_entry fails,
DelTrack(p) ==
    /\ proc[p].at = "delTracks"
    /\ IF proc[p].t \in TracksOf(p)
       THEN /\ cdt' = [cdt EXCEPT ![proc[p].cdt][proc[p].cur] = @ \ {proc[p].t}]
            /\ Becomes(p, [proc[p] EXCEPT !.t = @ + 1])
       ELSE Goto(p, "delCdc") /\ UNCHANGED cdt
    /\ UNCHANGED <<path, made, cdc, torn, crossed, acts>>

\* Slip: the track frame stays active.
DelCdActive(p) ==
    /\ proc[p].at = "delCdc"
    /\ cdc' = [cdc EXCEPT ![proc[p].cdc] = @ \ {proc[p].cur}]
    /\ Becomes(p, [proc[p] EXCEPT !.at = "scan", !.list = {}, !.rows = 0])
    /\ UNCHANGED <<path, made, cdt, torn, crossed, acts>>

\* then the entry; update_clist, an empty track list, set_insensitive
DelCd(p) ==
    /\ proc[p].at = "delCdc"
    /\ cdc' = [cdc EXCEPT ![proc[p].cdc] = @ \ {proc[p].cur}]
    /\ Becomes(p, [proc[p] EXCEPT !.at = "scan", !.list = {}, !.rows = 0, !.active = FALSE])
    /\ UNCHANGED <<path, made, cdt, torn, crossed, acts>>

-----------------------------------------------------------------------------
Run(p) ==
    \/ Unlink(p) \/ Open(p) \/ Request(p)
    \/ Scan(p) \/ Find(p) \/ NoRow(p) \/ SpinEnds(p) \/ SelectRow(p)
    \/ ReadTrack(p) \/ CutTrack(p) \/ DelTrack(p) \/ DelCd(p)

UserActs(p) ==
    \/ Start(p) \/ CreateNew(p) \/ Quit(p) \/ Kill(p)
    \/ SelectCd(p) \/ UnselectCd(p) \/ SelectTrack(p) \/ AddCd(p) \/ AskFind(p)
    \/ DeleteCd(p) \/ AskTrack(p) \/ DeleteTrack(p) \/ AddTrack(p)

Next == \E p \in Procs : Run(p) \/ UserActs(p)

Spec == Init /\ [][Next]_vars

\* A program that is not waiting for its user runs; the user is free.
FairSpec == Spec /\ \A p \in Procs : WF_vars(Run(p))

-----------------------------------------------------------------------------
(* Properties *)

TypeOK ==
    /\ path \in [{"cdc", "cdt"} -> 0..MaxFiles] /\ made \in [{"cdc", "cdt"} -> 0..MaxFiles]
    /\ cdc \in [Files -> SUBSET Names] /\ cdt \in [Files -> [Names -> SUBSET Tracks]]
    /\ torn \subseteq Files \X Names /\ crossed \in BOOLEAN /\ acts \in 0..MaxActs
    /\ proc \in [Procs -> [kind : {"none", "gnome", "cgi", "new"},
                           at : Opening \cup Busy \cup Calm \cup Spins, new : BOOLEAN,
                           cdc : 0..MaxFiles, cdt : 0..MaxFiles,
                           list : SUBSET (Names \ {Empty}), cur : Names, text : Names,
                           active : BOOLEAN, rows : 0..MaxTracks, trk : Nat, t : Nat \ {0}]]
    \* access.c is called with both files open
    /\ \A p \in Procs : proc[p].at \in Busy \cup Spins \cup {"request", "main", "dialog"}
                        => proc[p].cdc # 0 /\ proc[p].cdt # 0

\* Two programs that share the table of entries share that of the tracks, also when
\* -i replaces the files under a program that runs: no one sees the entries of one
\* database with the tracks of another.  (Two calls of database_initialize that
\* overlap can mix them, and the processes never notice.)
SameFiles ==
    ~crossed => \A p, q \in Procs :
        (0 \notin {proc[p].cdc, proc[q].cdc, proc[p].cdt, proc[q].cdt})
        => (proc[p].cdc = proc[q].cdc <=> proc[p].cdt = proc[q].cdt)

\* No two users edit the same CD.
Apart == \A p, q \in Procs : p # q => NamesOf[p] \cap NamesOf[q] = {}

Whole(p) == <<proc[p].cdt, proc[p].cur>> \notin torn

\* "row 'n' contains track 'n+1', which our update functions etc rely on"
\* (gnomeapp_ui.c:317): while the window waits for its user, its rows are the tracks
\* of the selected CD, without a gap.
RowsAreTracks ==
    Apart => \A p \in Procs :
        (proc[p].at = "main" /\ proc[p].cur \in NamesOf[p] /\ Whole(p))
        => TracksOf(p) = 1..proc[p].rows

\* A CD that is not in the catalogue has no tracks: the frame is shaded once its CD
\* is gone (gnomeapp_ui.c:397), which the menu program has no counterpart of.
NoOrphanTracks ==
    (Apart /\ ~crossed) => \A p \in Procs : proc[p].at = "main" =>
        \A n \in Names \ {Empty} :
            (cdt[proc[p].cdt][n] # {} /\ <<proc[p].cdt, n>> \notin torn) => n \in Entries(p)

\* Every callback and every page ends, unless the empty name is in the catalogue.
Returns ==
    \A p \in Procs : (proc[p].at \in Busy) ~> (proc[p].at \in Calm \/ Empty \in Entries(p))
=============================================================================

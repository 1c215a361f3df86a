------------------------------- MODULE CdCatalog -------------------------------
(***************************************************************************)
(* The CD catalogue application (chapter12/app and chapter07/app: app_ui.c *)
(* over cd_dbm.c): several users, each with a menu and a current entry,    *)
(* share one database of catalogue entries and numbered tracks.            *)
(*                                                                         *)
(* Each call of the database interface is one step: the server carries     *)
(* them out one at a time.  What a menu choice does takes many calls, and  *)
(* those of different users interleave.  Titles, artists and track texts   *)
(* are left out; the key of a track is its catalogue name and number.      *)
(***************************************************************************)
EXTENDS Naturals

CONSTANTS
    Users,        \* users of the application
    Names,        \* catalogue names
    NamesOf,      \* the names each user works on
    None,         \* the empty current entry
    MaxTracks     \* bound: the highest track number a user enters

ASSUME CatalogAssumption ==
    /\ None \notin Names /\ MaxTracks \in Nat
    /\ NamesOf \in [Users -> SUBSET Names]

VARIABLES
    cdc,      \* names in the catalogue table
    cdt,      \* track numbers stored for each name
    pc,       \* what each user's application is doing
    cur,      \* current_cdc_entry
    t,        \* track_no of the loop it is in
    found,    \* the matches its search fetched
    broken    \* names whose tracks a user was deleting when killed (history)

vars == <<cdc, cdt, pc, cur, t, found, broken>>

\* "look" is about to read track t; "has" and "new" wait for input with the
\* result of that read in existing_track; "cut" and "delTracks" delete tracks
Pcs == {"menu", "add", "find", "look", "has", "new", "cut", "delTracks", "delCat", "list"}
Deleting == {"cut", "delTracks"}

Init ==
    /\ cdc = {} /\ cdt = [n \in Names |-> {}]
    /\ pc = [u \in Users |-> "menu"]
    /\ cur = [u \in Users |-> None]
    /\ t = [u \in Users |-> 1]
    /\ found = [u \in Users |-> {}]
    /\ broken = {}

Goto(u, where) == pc' = [pc EXCEPT ![u] = where]
Track(u, k)    == t' = [t EXCEPT ![u] = k]
Exists(u)      == t[u] \in cdt[cur[u]]

-----------------------------------------------------------------------------
(* The menu.  Options 4 to 6 are offered while an entry is current. *)

\* 1: enter_new_cat_entry makes the new entry the current one, add_cdc_entry
\* stores it (DBM_REPLACE)
EnterCat(u) ==
    /\ pc[u] = "menu"
    /\ \E n \in NamesOf[u] : cur' = [cur EXCEPT ![u] = n]
    /\ Goto(u, "add") /\ UNCHANGED <<cdc, cdt, t, found, broken>>

AddCat(u) ==
    /\ pc[u] = "add"
    /\ cdc' = cdc \cup {cur[u]}
    /\ Goto(u, "menu") /\ UNCHANGED <<cdt, cur, t, found, broken>>

\* q, and a later start of the program.  (main tests current_option before it
\* first sets it, so a start may also end at once; that changes nothing here.)
Quit(u) ==
    /\ pc[u] = "menu"
    /\ cur' = [cur EXCEPT ![u] = None]
    /\ UNCHANGED <<cdc, cdt, pc, t, found, broken>>

\* 2: find_cat fetches the matches, then offers them: the user takes one or, after
\* the last, is left with an empty entry
FindCat(u) ==
    /\ pc[u] = "menu"
    /\ found' = [found EXCEPT ![u] = cdc \cap NamesOf[u]]
    /\ Goto(u, "find") /\ UNCHANGED <<cdc, cdt, cur, t, broken>>

Select(u) ==
    /\ pc[u] = "find"
    /\ \E n \in found[u] \cup {None} : cur' = [cur EXCEPT ![u] = n]
    /\ found' = [found EXCEPT ![u] = {}]
    /\ Goto(u, "menu") /\ UNCHANGED <<cdc, cdt, t, broken>>

\* Slip: the tracks start at 0.
ChooseZero(u, where) ==
    /\ pc[u] = "menu" /\ cur[u] # None
    /\ Goto(u, where) /\ Track(u, 0) /\ UNCHANGED <<cdc, cdt, cur, found, broken>>

\* 4, 5 and 6 start with track 1
Choose(u, where) ==
    /\ pc[u] = "menu" /\ cur[u] # None
    /\ Goto(u, where) /\ Track(u, 1) /\ UNCHANGED <<cdc, cdt, cur, found, broken>>

-----------------------------------------------------------------------------
(* 4: enter_new_track_entries *)

ReadTrack(u) ==
    /\ pc[u] = "look"
    /\ Goto(u, IF Exists(u) THEN "has" ELSE "new")
    /\ UNCHANGED <<cdc, cdt, cur, t, found, broken>>

\* Slip: an empty answer never finishes, a track can be left out.
ReturnSkips(u) ==
    /\ pc[u] \in {"has", "new"} /\ t[u] <= MaxTracks
    /\ Goto(u, "look") /\ Track(u, t[u] + 1)
    /\ UNCHANGED <<cdc, cdt, cur, found, broken>>

\* nothing entered: keep the track there was, or finish if there was none
Return(u) ==
    /\ \/ pc[u] = "has" /\ Goto(u, "look") /\ Track(u, t[u] + 1)
       \/ pc[u] = "new" /\ Goto(u, "menu") /\ UNCHANGED t
    /\ UNCHANGED <<cdc, cdt, cur, found, broken>>

\* a single d: delete this track and the remaining ones
Cut(u) ==
    /\ pc[u] \in {"has", "new"}
    /\ Goto(u, "cut") /\ UNCHANGED <<cdc, cdt, cur, t, found, broken>>

\* a text: add_cdt_entry adds the track or replaces it
AddTrack(u) ==
    /\ pc[u] \in {"has", "new"} /\ t[u] <= MaxTracks
    /\ cdt' = [cdt EXCEPT ![cur[u]] = @ \cup {t[u]}]
    /\ Track(u, t[u] + 1) /\ Goto(u, "look") /\ UNCHANGED <<cdc, cur, found, broken>>

-----------------------------------------------------------------------------
(* The loops that delete tracks until one is missing: the d above, and 5,  *)
(* del_cat_entry, which then deletes the entry.  It stays the current one. *)

DelTrack(u) ==
    /\ pc[u] \in Deleting /\ Exists(u)
    /\ cdt' = [cdt EXCEPT ![cur[u]] = @ \ {t[u]}]
    /\ Track(u, t[u] + 1) /\ UNCHANGED <<cdc, pc, cur, found, broken>>

DelTrackFails(u) ==
    /\ pc[u] \in Deleting /\ ~Exists(u)
    /\ Goto(u, IF pc[u] = "cut" THEN "menu" ELSE "delCat")
    /\ UNCHANGED <<cdc, cdt, cur, t, found, broken>>

DelCat(u) ==
    /\ pc[u] = "delCat"
    /\ cdc' = cdc \ {cur[u]}
    /\ Goto(u, "menu") /\ UNCHANGED <<cdt, cur, t, found, broken>>

-----------------------------------------------------------------------------
(* 6: list_tracks prints tracks until one is missing *)

\* Slip: the loop reads one track ahead, and the last one is not shown.
ListAhead(u) ==
    /\ pc[u] = "list"
    /\ IF t[u] + 1 \in cdt[cur[u]]
       THEN Track(u, t[u] + 1) /\ UNCHANGED pc
       ELSE Goto(u, "menu") /\ UNCHANGED t
    /\ UNCHANGED <<cdc, cdt, cur, found, broken>>

ListTracks(u) ==
    /\ pc[u] = "list"
    /\ IF Exists(u)
       THEN Track(u, t[u] + 1) /\ UNCHANGED pc
       ELSE Goto(u, "menu") /\ UNCHANGED t
    /\ UNCHANGED <<cdc, cdt, cur, found, broken>>

-----------------------------------------------------------------------------
\* The user's program is killed, and started again later.  What it was deleting stays
\* deleted so far.
Kill(u) ==
    /\ Goto(u, "menu") /\ cur' = [cur EXCEPT ![u] = None]
    /\ found' = [found EXCEPT ![u] = {}]
    /\ broken' = broken \cup (IF pc[u] \in Deleting THEN {cur[u]} ELSE {})
    /\ UNCHANGED <<cdc, cdt, t>>

UserNext(u) ==
    \/ EnterCat(u) \/ AddCat(u) \/ FindCat(u) \/ Select(u) \/ Quit(u)
    \/ \E where \in {"look", "delTracks", "list"} : Choose(u, where)
    \/ ReadTrack(u) \/ Return(u) \/ Cut(u) \/ AddTrack(u)
    \/ DelTrack(u) \/ DelTrackFails(u) \/ DelCat(u) \/ ListTracks(u)
    \/ Kill(u)

Next == \E u \in Users : UserNext(u)

Spec == Init /\ [][Next]_vars

-----------------------------------------------------------------------------
(* Properties *)

TypeOK ==
    /\ cdc \subseteq Names /\ cdt \in [Names -> SUBSET (Nat \ {0})]
    /\ pc \in [Users -> Pcs] /\ cur \in [Users -> Names \cup {None}]
    /\ t \in [Users -> Nat \ {0}]
    /\ found \in [Users -> SUBSET Names] /\ broken \subseteq Names
    /\ \A u \in Users : pc[u] \notin {"menu", "find"} => cur[u] # None

\* No two users work on the same CD.
Apart == \A u, v \in Users : u # v => NamesOf[u] \cap NamesOf[v] = {}

\* The tracks of a CD have no gap below them unless a user is just deleting
\* them, or was killed while doing so: every loop over tracks stops at the first
\* number that is missing, so what lies beyond a gap can be neither listed, edited
\* nor deleted any more.
NoGap ==
    Apart => \A n \in Names \ broken :
        (\A u \in Users : cur[u] = n => pc[u] \notin Deleting)
        => \A k \in cdt[n] : 1..k \subseteq cdt[n]

\* "delete this CD, and all its tracks" (app_ui.c:157): no track is left when
\* del_cat_entry is done with the entry.  (Of two users on the same CD, one may
\* add or delete tracks while the other deletes them, and some survive.)
DeletesAllTracks ==
    [][\A u \in Users : (Apart /\ pc[u] = "delCat" /\ pc'[u] = "menu" /\ cur[u] \notin broken)
                        => cdt'[cur[u]] = {}]_vars

\* list_tracks has shown every track of the CD when it stops.
ListsAllTracks ==
    [][\A u \in Users : (Apart /\ pc[u] = "list" /\ pc'[u] = "menu" /\ cur'[u] = cur[u]
                            /\ cur[u] \notin broken)
                        => cdt[cur[u]] = 1..(t[u] - 1)]_vars
=============================================================================

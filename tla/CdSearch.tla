------------------------------- MODULE CdSearch -------------------------------
(***************************************************************************)
(* A catalogue search, end to end (chapter12/app): the user's loop in      *)
(* app_ui.c calls search_cdc_entry of clientif.c once per match; its first *)
(* call fetches all matches into a temporary file, from the server's loop  *)
(* over search_cdc_entry of cd_dbm.c.  The messages in between are those   *)
(* of CdPipe, here one atomic exchange.                                    *)
(*                                                                         *)
(* A search text is modelled by the set of catalogue names it occurs in:   *)
(* the empty text occurs in every name, any other text not in the empty    *)
(* name.                                                                   *)
(***************************************************************************)
EXTENDS Naturals, Sequences

CONSTANTS
    Names,        \* catalogue names a user can enter
    Empty,        \* the empty name: what the end of a search returns
    NoKey,        \* the null key at the end of the keys
    Texts,        \* search texts
    MaxMatching   \* bound on the client's entries_matching

ASSUME TextsAssumption ==
    /\ Texts \subseteq SUBSET Names
    /\ \A t \in Texts : Empty \in t => t = Names
    /\ MaxMatching \in Nat /\ NoKey \notin Names

VARIABLES
    db,        \* the names in the catalogue
    spc,       \* the server: idle, or in the loop of search_cdc_entry
    key,       \* local_key_datum: the key under the cursor, or NoKey
    ahead,     \* keys dbm_nextkey has yet to return
    upc,       \* the user: idle, waiting for the first match, shown, nomore
    text,      \* what the user searches for
    ret,       \* the name the last search_cdc_entry returned
    work,      \* the matches from the position of work_file on
    wopen,     \* work_file is open
    matching,  \* entries_matching
    short,     \* the last fread found no entry
    shown,     \* the names this search returned so far
    wanted     \* the names it has to return: those that matched when it began

vars == <<db, spc, key, ahead, upc, text, ret, work, wopen, matching, short, shown, wanted>>

Init ==
    /\ db \in SUBSET Names
    /\ spc = "idle" /\ key = NoKey /\ ahead = {}
    /\ upc = "idle" /\ text = {} /\ ret = Empty
    /\ work = <<>> /\ wopen = FALSE /\ matching = 0 /\ short = FALSE
    /\ shown = {} /\ wanted = {}

-----------------------------------------------------------------------------
(* Requests of other users: the server carries out one request at a time. *)

add_cdc_entry(n) ==
    /\ spc = "idle" /\ n \notin db
    /\ db' = db \cup {n}
    /\ UNCHANGED <<spc, key, ahead, upc, text, ret, work, wopen, matching, short, shown, wanted>>

del_cdc_entry(n) ==
    /\ spc = "idle" /\ n \in db
    /\ db' = db \ {n}
    /\ UNCHANGED <<spc, key, ahead, upc, text, ret, work, wopen, matching, short, shown, wanted>>

-----------------------------------------------------------------------------
(* The server: search_cdc_entry of cd_dbm.c *)

\* dbm_firstkey and dbm_nextkey: the keys in an arbitrary order
Cursor(keys) ==
    IF keys = {} THEN key' = NoKey /\ ahead' = {}
    ELSE \E k \in keys : key' = k /\ ahead' = keys \ {k}

\* Slip: the cursor is not moved.
ScanPastStays ==
    /\ spc = "scan" /\ key # NoKey /\ key \notin text
    /\ UNCHANGED vars

\* the key under the cursor does not match: go on with the next
ScanPast ==
    /\ spc = "scan" /\ key # NoKey /\ key \notin text
    /\ Cursor(ahead)
    /\ UNCHANGED <<db, spc, upc, text, ret, work, wopen, matching, short, shown, wanted>>

\* Slip: the client does not count the entry it writes.
ScanMatchUncounted ==
    /\ spc = "scan" /\ key # NoKey /\ key \in text
    /\ IF key = Empty
       THEN UNCHANGED <<key, ahead, work>>
       ELSE work' = Append(work, key) /\ Cursor(ahead)
    /\ UNCHANGED <<db, spc, upc, text, ret, wopen, matching, short, shown, wanted>>

\* it matches: the server sends the entry, the client writes it to work_file,
\* and the server's next call moves the cursor on.  The loop goes round without
\* moving it when the entry that matches has the empty name.
ScanMatch ==
    /\ spc = "scan" /\ key # NoKey /\ key \in text
    /\ IF key = Empty
       THEN UNCHANGED <<key, ahead, work, matching>>
       ELSE /\ work' = Append(work, key)
            /\ matching' = matching + 1
            /\ Cursor(ahead)
    /\ UNCHANGED <<db, spc, upc, text, ret, wopen, short, shown, wanted>>

-----------------------------------------------------------------------------
(* The client: search_cdc_entry of clientif.c *)

\* fread the next entry and count it down, whether or not there was one
ReadEntry(file) ==
    /\ matching' = matching - 1
    /\ IF file = <<>>
       THEN ret' = Empty /\ work' = file /\ short' = TRUE /\ shown' = shown /\ upc' = "nomore"
       ELSE /\ ret' = Head(file) /\ work' = Tail(file) /\ short' = FALSE
            /\ shown' = shown \cup {ret'} /\ upc' = "shown"

\* entries_matching is 0: close work_file and return the empty entry
NoEntry ==
    /\ wopen' = FALSE /\ work' = <<>> /\ ret' = Empty /\ upc' = "nomore"
    /\ UNCHANGED <<matching, short, shown>>

\* Slip: the work_file of an abandoned search is used again.
SearchFirstAppends(t) ==
    /\ upc = "idle" /\ matching <= MaxMatching
    /\ upc' = "waiting" /\ text' = t
    /\ wopen' = TRUE /\ shown' = {} /\ short' = FALSE
    /\ spc' = "scan" /\ wanted' = t \cap db /\ Cursor(db)
    /\ UNCHANGED <<db, ret, matching, work>>

\* the first call, from find_cat or count_all_entries: a new work_file
SearchFirst(t) ==
    /\ upc = "idle" /\ matching <= MaxMatching
    /\ upc' = "waiting" /\ text' = t
    /\ wopen' = TRUE /\ work' = <<>> /\ shown' = {} /\ short' = FALSE
    /\ spc' = "scan" /\ wanted' = t \cap db /\ Cursor(db)
    /\ UNCHANGED <<db, ret, matching>>

\* r_find_no_more: work_file is rewound and its first entry read
SearchAnswered ==
    /\ spc = "scan" /\ key = NoKey
    /\ spc' = "idle"
    /\ IF matching = 0 THEN NoEntry ELSE ReadEntry(work) /\ UNCHANGED wopen
    /\ UNCHANGED <<db, key, ahead, text, wanted>>

\* Slip: entries_matching is not tested.
SearchNextReads ==
    /\ upc = "shown" /\ wopen
    /\ ReadEntry(work)
    /\ UNCHANGED <<db, spc, key, ahead, text, wanted, wopen>>

\* each further call
SearchNext ==
    /\ upc = "shown" /\ wopen
    /\ IF matching = 0 THEN NoEntry ELSE ReadEntry(work) /\ UNCHANGED wopen
    /\ UNCHANGED <<db, spc, key, ahead, text, wanted>>

\* find_cat: the user takes the entry shown, or the search is at its end
SearchDone ==
    /\ upc \in {"shown", "nomore"}
    /\ upc' = "idle"
    /\ UNCHANGED <<db, spc, key, ahead, text, ret, work, wopen, matching, short, shown, wanted>>

-----------------------------------------------------------------------------
Next ==
    \/ \E n \in Names : add_cdc_entry(n) \/ del_cdc_entry(n)
    \/ \E t \in Texts : SearchFirst(t)
    \/ ScanPast \/ ScanMatch \/ SearchAnswered \/ SearchNext \/ SearchDone

Spec == Init /\ [][Next]_vars

\* the server works on a request it has taken; users do what they like
FairSpec == Spec /\ WF_vars(ScanPast \/ ScanMatch \/ SearchAnswered)

-----------------------------------------------------------------------------
(* Properties *)

Elements(s) == {s[i] : i \in DOMAIN s}

TypeOK ==
    /\ db \subseteq Names
    /\ spc \in {"idle", "scan"} /\ key \in Names \cup {NoKey} /\ ahead \subseteq Names
    /\ upc \in {"idle", "waiting", "shown", "nomore"}
    /\ text \in SUBSET Names /\ ret \in Names \cup {Empty}
    /\ work \in Seq(Names) /\ wopen \in BOOLEAN /\ matching \in Nat
    /\ short \in BOOLEAN /\ shown \subseteq Names /\ wanted \subseteq Names

\* While a search is on, every name it has to return was shown to the user or is
\* still in work_file, and none is both or there twice - although a search that
\* was abandoned leaves its count in entries_matching (clientif.c:239, 270, 306).
EachMatchOnce ==
    upc \in {"shown", "nomore"} =>
        /\ shown \cup Elements(work) = wanted
        /\ shown \cap Elements(work) = {}
        /\ \A i, j \in DOMAIN work : work[i] = work[j] => i = j

\* "Nothing found" and "no more matches" are told only once all was shown.
NoMoreMeansAll == upc = "nomore" => shown = wanted

\* A search the server has taken up comes to its end.  (Not one that matches an
\* entry with the empty name: search_cdc_entry takes the empty name for "nothing
\* found yet", cd_dbm.c:291, and goes round for ever.)
SearchReturns == (upc = "waiting" /\ Empty \notin wanted) ~> upc # "waiting"

\* clientif.c:294, "The previous checks guarantee that a matching entry exists":
\* the fread that follows them finds one.
ReadFindsEntry == ~short
=============================================================================

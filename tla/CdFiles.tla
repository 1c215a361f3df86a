------------------------------- MODULE CdFiles -------------------------------
(***************************************************************************)
(* The CD catalogue in two text files, title.cdb and tracks.cdb, as three  *)
(* programs keep it: a shell script (chapter02/app/cd_db), a curses        *)
(* program (chapter06/app/curses.c) and a Perl script (chapter18/cd_db.pl).*)
(*                                                                         *)
(* A line begins with a catalogue number; the rest of a CD's line is a     *)
(* function of the number, the rest of a track's has no comma, and a file  *)
(* is the bag of its lines, whose order matters to nobody.  To find a CD's *)
(* lines curses compares their first characters with its number; the two   *)
(* scripts take the number for a regular expression.                       *)
(* The shell and curses programs take lines out by copying the others to a *)
(* temporary file that then takes the place of the original, one file      *)
(* after the other; the Perl script reads both files when it starts and    *)
(* writes both when it ends.  Programs may be killed or interrupted at any *)
(* step, run again, and run at the same time.  mv of a file to another     *)
(* file system copies it.                                                  *)
(***************************************************************************)
EXTENDS Naturals, Bags

CONSTANTS
    Users,       \* those who run the programs
    Cats,        \* catalogue numbers
    NoCat,       \* the empty string: no CD selected
    BeginsWith,  \* the pairs <<c, d>> where number c begins with number d
    GrepFinds,   \* the pairs <<l, d>> where grep "^d," finds line l, and all the
                 \* lines where grep does not take d: grep -v then prints none
    PerlFinds,   \* the pairs <<l, d>> where perl's /^d,/ matches line l
    BadPerl,     \* the numbers that are no regular expression of perl's
    MaxActs,     \* bound: what the users ask the programs to do
    MaxRuns,     \* bound: programs started
    MaxBreaks    \* bound: programs killed or interrupted

Line == [cat : Cats, no : Nat]    \* no = 0: a title, else a track

ASSUME FilesAssumption ==
    /\ BeginsWith \subseteq Cats \X Cats /\ \A c \in Cats : <<c, c>> \in BeginsWith
    /\ GrepFinds \subseteq Line \X Cats /\ PerlFinds \subseteq Line \X Cats /\ BadPerl \subseteq Cats
    /\ NoCat \notin Cats /\ Users \cap {"title", "tracks", "cdb.tmp"} = {}
    /\ MaxActs \in Nat /\ MaxRuns \in Nat /\ MaxBreaks \in Nat

VARIABLES
    disk,     \* the lines of each file there is: title, tracks, temporary files
    sameFs,   \* /tmp is on the file system of the catalogue
    prog,     \* the program each user runs
    step,     \* where it is
    file,     \* the file it copies, replaces, reads or saves
    goal,     \* why it rewrites: to remove the CD or to update its tracks
    cdcatnum, \* its current CD
    cdtrack,  \* number of the next track the user enters
    mem,      \* lines it holds: perl's arrays, curses' output buffer
    acts,     \* what the users asked so far
    runs,     \* programs started so far
    breaks,   \* programs killed or interrupted so far
    owed,     \* CDs whose entry was confirmed and never their removal
    razed,    \* CDs whose title was found, too, when another CD was removed
    used,     \* the programs that ran so far
    spoiled   \* two ran at once, or one was stopped where that loses lines

vars == <<disk, sameFs, prog, step, file, goal, cdcatnum, cdtrack, mem, acts, runs, breaks,
           owed, razed, used, spoiled>>

Programs == {"shell", "curses", "perl"}
Steps    == {"menu", "entry", "copy", "swap", "fill", "read", "filter", "open", "write"}
Data     == {"title", "tracks"}

\* Slip: the shell script uses one temporary file, too.
TempShared(u) == "cdb.tmp"

\* $$ makes the shell's temporary file its own; curses always takes cdb.tmp
Temp(u) == IF prog[u] = "curses" THEN "cdb.tmp" ELSE u

Lines(f)    == IF f \in DOMAIN disk THEN disk[f] ELSE EmptyBag
CatsOf(b)   == {l.cat : l \in BagToSet(b)}
Title(c)    == [cat |-> c, no |-> 0]
With(b, l)  == b (+) SetToBag({l})
NoLines     == [f \in Data |-> EmptyBag]
Running     == {u \in Users : prog[u] # "none"}

\* the line is taken for one of the current CD's: strncmp over the length of the
\* number, grep "^number," or /^number,/
Hits(u, l) ==
    \/ prog[u] = "curses" /\ <<l.cat, cdcatnum[u]>> \in BeginsWith
    \/ prog[u] = "shell"  /\ <<l, cdcatnum[u]>> \in GrepFinds
    \/ prog[u] = "perl"   /\ <<l, cdcatnum[u]>> \in PerlFinds
Others(u, b) == [l \in {l \in BagToSet(b) : ~Hits(u, l)} |-> b[l]]

\* what is done to files
Put(f, b)  == disk' = [g \in DOMAIN disk \cup {f} |-> IF g = f THEN b ELSE disk[g]]
Drop(f)    == disk' = [g \in DOMAIN disk \ {f} |-> disk[g]]
Move(f, g) == IF f \in DOMAIN disk
              THEN disk' = [h \in (DOMAIN disk \ {f}) \cup {g} |-> IF h = g THEN disk[f] ELSE disk[h]]
              ELSE UNCHANGED disk

Init ==
    /\ \E S \in SUBSET Data : disk = [f \in S |-> EmptyBag]
    /\ sameFs \in BOOLEAN
    /\ prog = [u \in Users |-> "none"] /\ step = [u \in Users |-> "menu"]
    /\ file = [u \in Users |-> "title"] /\ goal = [u \in Users |-> "remove"]
    /\ cdcatnum = [u \in Users |-> NoCat] /\ cdtrack = [u \in Users |-> 1]
    /\ mem = [u \in Users |-> NoLines]
    /\ acts = 0 /\ runs = 0 /\ breaks = 0
    /\ owed = {} /\ razed = {} /\ used = {} /\ spoiled = FALSE

ghosts == <<owed, razed, used, spoiled>>

Act == acts < MaxActs /\ acts' = acts + 1

\* u goes to step s and leaves everything else of its own as it is
Goto(u, s) == step' = [step EXCEPT ![u] = s]
Keep       == UNCHANGED <<sameFs, prog, runs, breaks>>

-----------------------------------------------------------------------------
(* Starting and ending *)

\* the scripts create the files that are missing; perl then reads them
Start(u, p) ==
    /\ prog[u] = "none" /\ runs < MaxRuns
    /\ runs' = runs + 1 /\ prog' = [prog EXCEPT ![u] = p]
    /\ disk' = IF p = "curses" THEN disk
               ELSE [f \in (DOMAIN disk \ {u}) \cup Data |-> Lines(f)]
    /\ Goto(u, IF p = "perl" THEN "read" ELSE "menu")
    /\ used' = used \cup {p}
    /\ spoiled' = (spoiled \/ Running # {})
    /\ UNCHANGED <<sameFs, file, goal, cdcatnum, cdtrack, mem, acts, breaks, owed, razed>>

\* the program is gone: all that was in its memory is lost
Gone(u) ==
    /\ prog' = [prog EXCEPT ![u] = "none"] /\ Goto(u, "menu")
    /\ file' = [file EXCEPT ![u] = "title"] /\ goal' = [goal EXCEPT ![u] = "remove"]
    /\ cdcatnum' = [cdcatnum EXCEPT ![u] = NoCat] /\ cdtrack' = [cdtrack EXCEPT ![u] = 1]
    /\ mem' = [mem EXCEPT ![u] = NoLines]
    /\ UNCHANGED <<sameFs, acts, runs, owed, razed, used>>

\* q: the shell script removes its temporary file, perl writes its arrays
Quit(u) ==
    /\ prog[u] \in {"shell", "curses"} /\ step[u] = "menu"
    /\ IF prog[u] = "shell" THEN Drop(Temp(u)) ELSE UNCHANGED disk
    /\ Gone(u) /\ UNCHANGED <<breaks, spoiled>>

QuitPerl(u) ==
    /\ prog[u] = "perl" /\ step[u] = "menu"
    /\ Goto(u, "open") /\ file' = [file EXCEPT ![u] = "title"]
    /\ Keep /\ UNCHANGED <<acts, disk, goal, cdcatnum, cdtrack, mem, ghosts>>

\* tidy_up: each file is opened for writing, which empties it, then written
PerlOpen(u) ==
    /\ prog[u] = "perl" /\ step[u] = "open"
    /\ Put(file[u], EmptyBag) /\ Goto(u, "write")
    /\ Keep /\ UNCHANGED <<acts, file, goal, cdcatnum, cdtrack, mem, ghosts>>

PerlWrite(u) ==
    /\ prog[u] = "perl" /\ step[u] = "write"
    /\ Put(file[u], mem[u][file[u]])
    /\ IF file[u] = "title"
       THEN /\ file' = [file EXCEPT ![u] = "tracks"] /\ Goto(u, "open")
            /\ Keep /\ UNCHANGED <<acts, goal, cdcatnum, cdtrack, mem, owed, razed, used>>
       ELSE Gone(u) /\ UNCHANGED breaks
    /\ UNCHANGED spoiled

\* read_in: one file after the other, or die
PerlRead(u) ==
    /\ prog[u] = "perl" /\ step[u] = "read" /\ file[u] \in DOMAIN disk
    /\ mem' = [mem EXCEPT ![u][file[u]] = disk[file[u]]]
    /\ IF file[u] = "title"
       THEN file' = [file EXCEPT ![u] = "tracks"] /\ UNCHANGED step
       ELSE file' = [file EXCEPT ![u] = "title"] /\ Goto(u, "menu")
    /\ Keep /\ UNCHANGED <<acts, disk, goal, cdcatnum, cdtrack, ghosts>>

PerlDies(u) ==
    /\ prog[u] = "perl" /\ step[u] = "read" /\ file[u] \notin DOMAIN disk
    /\ Gone(u) /\ UNCHANGED <<disk, breaks, spoiled>>

-----------------------------------------------------------------------------
(* Adding a CD and finding one *)

\* the titles that the program looks at
Titles(u) == IF prog[u] = "perl" THEN mem[u]["title"] ELSE Lines("title")

\* insert_title: the files are appended to at once, perl's arrays in memory
Insert(u, f, l) ==
    IF prog[u] = "perl" THEN mem' = [mem EXCEPT ![u][f] = With(@, l)] /\ UNCHANGED disk
                        ELSE Put(f, With(Lines(f), l)) /\ UNCHANGED mem

\* add_records and add_record, confirmed
Add(u, c) ==
    /\ prog[u] # "none" /\ step[u] = "menu" /\ Act
    /\ Insert(u, "title", Title(c))
    /\ cdcatnum' = [cdcatnum EXCEPT ![u] = c]
    /\ IF prog[u] = "curses" THEN UNCHANGED <<step, cdtrack>>
       ELSE Goto(u, "entry") /\ cdtrack' = [cdtrack EXCEPT ![u] = 1]
    /\ owed' = owed \cup {c} /\ razed' = razed \ {c}
    /\ Keep /\ UNCHANGED <<file, goal, used, spoiled>>

\* not confirmed: the scripts have set the current CD all the same, and go on
\* to remove_records
AddRefused(u, c) ==
    /\ prog[u] \in {"shell", "perl"} /\ step[u] = "menu" /\ Act
    /\ cdcatnum' = [cdcatnum EXCEPT ![u] = c]
    /\ Keep /\ UNCHANGED <<disk, step, file, goal, cdtrack, mem, ghosts>>

\* find_cd, for a string that occurs in the titles of hit.  Only the shell
\* script takes more than two matches for one.
FindCd(u, hit) ==
    /\ prog[u] # "none" /\ step[u] = "menu" /\ Act
    /\ LET found == [l \in {l \in BagToSet(Titles(u)) : l.cat \in hit} |-> Titles(u)[l]]
           n     == BagCardinality(found)
       IN  IF n = 1 \/ (prog[u] = "shell" /\ n > 2)
           THEN \E l \in BagToSet(found) : cdcatnum' = [cdcatnum EXCEPT ![u] = l.cat]
           ELSE cdcatnum' = [cdcatnum EXCEPT ![u] = NoCat]
    /\ Keep /\ UNCHANGED <<disk, step, file, goal, cdtrack, mem, ghosts>>

\* add_record_tracks and the loop of update_cd, one track ...
EnterTrack(u) ==
    /\ step[u] = "entry" /\ Act
    /\ LET l == [cat |-> cdcatnum[u], no |-> cdtrack[u]]
       IN  IF prog[u] = "shell" THEN Insert(u, "tracks", l)
           ELSE mem' = [mem EXCEPT ![u]["tracks"] = With(@, l)] /\ UNCHANGED disk
    /\ cdtrack' = [cdtrack EXCEPT ![u] = @ + 1]
    /\ Keep /\ UNCHANGED <<step, file, goal, cdcatnum, ghosts>>

\* ... and the end: curses' fclose writes what it has buffered
EntryEnds(u) ==
    /\ step[u] = "entry"
    /\ IF prog[u] = "curses"
       THEN /\ Put("tracks", Lines("tracks") (+) mem[u]["tracks"])
            /\ mem' = [mem EXCEPT ![u] = NoLines]
       ELSE UNCHANGED <<disk, mem>>
    /\ cdtrack' = [cdtrack EXCEPT ![u] = 1] /\ Goto(u, "menu")
    /\ Keep /\ UNCHANGED <<acts, file, goal, cdcatnum, ghosts>>

-----------------------------------------------------------------------------
(* Removing a CD and updating its tracks *)

\* Slip: it is not asked whether a CD is selected.
BeginUnchecked(u, f, g) ==
    /\ prog[u] # "none" /\ step[u] = "menu" /\ Act
    /\ Goto(u, IF prog[u] = "perl" THEN "filter" ELSE "copy")
    /\ file' = [file EXCEPT ![u] = f] /\ goal' = [goal EXCEPT ![u] = g]
    /\ Keep /\ UNCHANGED <<disk, cdcatnum, cdtrack, mem, used, spoiled>>

Begin(u, f, g) ==
    /\ prog[u] # "none" /\ step[u] = "menu" /\ cdcatnum[u] # NoCat /\ Act
    /\ Goto(u, IF prog[u] = "perl" THEN "filter" ELSE "copy")
    /\ file' = [file EXCEPT ![u] = f] /\ goal' = [goal EXCEPT ![u] = g]
    /\ Keep /\ UNCHANGED <<disk, cdcatnum, cdtrack, mem, used, spoiled>>

\* remove_records and remove_cd, confirmed: the titles, then the tracks
Remove(u) ==
    /\ Begin(u, "title", "remove")
    /\ owed' = owed \ {cdcatnum[u]}
    /\ razed' = razed \cup {c \in Cats \ {cdcatnum[u]} : Hits(u, Title(c))}

\* update_cd, confirmed: the tracks only.  perl lists them first, and dies of a
\* bad pattern before it asks.
Update(u) ==
    /\ prog[u] = "perl" => cdcatnum[u] \notin BadPerl
    /\ Begin(u, "tracks", "update") /\ UNCHANGED <<owed, razed>>

\* Slip: the CD stays the current one after its removal.
DoneKeepsCd(u) ==
    IF file[u] = "title"
    THEN /\ file' = [file EXCEPT ![u] = "tracks"]
         /\ Goto(u, IF prog[u] = "perl" THEN "filter" ELSE "copy")
         /\ UNCHANGED <<cdcatnum, goal>>
    ELSE /\ file' = [file EXCEPT ![u] = "title"] /\ goal' = [goal EXCEPT ![u] = "remove"]
         /\ Goto(u, IF goal[u] = "update" THEN "entry" ELSE "menu")
         /\ UNCHANGED cdcatnum

\* one file is done: the next, or the end of the removal or of the update.
\* perl's remove_records assigns to @cdcatnum, and the CD stays the current one.
Done(u) ==
    IF file[u] = "title"
    THEN /\ file' = [file EXCEPT ![u] = "tracks"]
         /\ Goto(u, IF prog[u] = "perl" THEN "filter" ELSE "copy")
         /\ UNCHANGED <<cdcatnum, goal>>
    ELSE /\ file' = [file EXCEPT ![u] = "title"] /\ goal' = [goal EXCEPT ![u] = "remove"]
         /\ Goto(u, IF goal[u] = "update" THEN "entry" ELSE "menu")
         /\ cdcatnum' = IF goal[u] = "remove" /\ prog[u] # "perl"
                        THEN [cdcatnum EXCEPT ![u] = NoCat] ELSE cdcatnum

PerlFilter(u) ==
    /\ step[u] = "filter" /\ cdcatnum[u] \notin BadPerl
    /\ mem' = [mem EXCEPT ![u][file[u]] = Others(u, @)]
    /\ Done(u)
    /\ Keep /\ UNCHANGED <<acts, disk, cdtrack, ghosts>>

\* Slip: the output of grep is directed to the file it reads.
CopyInPlace(u) ==
    /\ step[u] = "copy" /\ (prog[u] = "curses" => file[u] \in DOMAIN disk)
    /\ Put(file[u], EmptyBag) /\ Goto(u, "swap")
    /\ Keep /\ UNCHANGED <<acts, file, goal, cdcatnum, cdtrack, mem, ghosts>>

\* the other CDs' lines go to the temporary file
Copy(u) ==
    /\ step[u] = "copy" /\ (prog[u] = "curses" => file[u] \in DOMAIN disk)
    /\ Put(Temp(u), Others(u, Lines(file[u]))) /\ Goto(u, "swap")
    /\ Keep /\ UNCHANGED <<acts, file, goal, cdcatnum, cdtrack, mem, ghosts>>

\* curses reads from a file that was not opened, and dies
CopyDies(u) ==
    /\ step[u] = "copy" /\ prog[u] = "curses" /\ file[u] \notin DOMAIN disk
    /\ Put(Temp(u), EmptyBag)
    /\ Gone(u) /\ UNCHANGED <<breaks, spoiled>>

\* mv within a file system replaces the file in one step ...
Rename(u) ==
    /\ step[u] = "swap" /\ prog[u] = "shell" /\ sameFs
    /\ Move(Temp(u), file[u]) /\ Done(u)
    /\ Keep /\ UNCHANGED <<acts, cdtrack, mem, ghosts>>

\* ... between two it first empties it; curses unlinks it
Unlink(u) ==
    /\ step[u] = "swap" /\ ~(prog[u] = "shell" /\ sameFs)
    /\ IF prog[u] = "shell" THEN Put(file[u], EmptyBag) ELSE Drop(file[u])
    /\ Goto(u, "fill")
    /\ Keep /\ UNCHANGED <<acts, file, goal, cdcatnum, cdtrack, mem, ghosts>>

\* the temporary file, if it is still there, takes the place of the file
Fill(u) ==
    /\ step[u] = "fill"
    /\ Move(Temp(u), file[u]) /\ Done(u)
    /\ Keep /\ UNCHANGED <<acts, cdtrack, mem, ghosts>>

-----------------------------------------------------------------------------
(* Programs that are stopped *)

\* what u has of the titles on disk; perl's changes are not there yet
Saved(u) ==
    CASE prog[u] = "perl" -> BagToSet(mem[u]["title"]) \subseteq BagToSet(Lines("title"))
      [] OTHER            -> ~(step[u] = "fill" /\ file[u] = "title")

\* the lines of b that were read so far
Parts(b) == {p \in UNION {[S -> 1..MaxActs] : S \in SUBSET BagToSet(b)} : p \sqsubseteq b}

\* perl dies of a bad pattern when it lists the tracks or removes the CD, and
\* writes nothing
PerlPatternDies(u) ==
    /\ prog[u] = "perl" /\ step[u] \in {"menu", "filter"} /\ cdcatnum[u] \in BadPerl
    /\ spoiled' = (spoiled \/ ~Saved(u))
    /\ Gone(u) /\ UNCHANGED <<disk, breaks>>

Break == breaks < MaxBreaks /\ breaks' = breaks + 1

\* kill -9, or Ctrl-C in the curses program
Kill(u) ==
    /\ prog[u] # "none" /\ Break
    /\ spoiled' = (spoiled \/ ~Saved(u))
    /\ Gone(u) /\ UNCHANGED disk

\* Ctrl-C: the shell's trap removes its temporary file ...
InterruptShell(u) ==
    /\ prog[u] = "shell" /\ Break
    /\ spoiled' = (spoiled \/ ~Saved(u))
    /\ Drop(Temp(u)) /\ Gone(u)

\* ... and perl's handler saves the arrays, which it may not have read yet
InterruptPerl(u) ==
    /\ prog[u] = "perl" /\ Break
    /\ IF step[u] = "read"
       THEN /\ \E p \in Parts(Lines(file[u])) : mem' = [mem EXCEPT ![u][file[u]] = p]
            /\ spoiled' = TRUE
       ELSE UNCHANGED <<mem, spoiled>>
    /\ Goto(u, "open") /\ file' = [file EXCEPT ![u] = "title"]
    /\ UNCHANGED <<disk, sameFs, prog, goal, cdcatnum, cdtrack, acts, runs, owed, razed, used>>

-----------------------------------------------------------------------------
Next ==
    \E u \in Users :
        \/ \E p \in Programs : Start(u, p)
        \/ \E c \in Cats : Add(u, c) \/ AddRefused(u, c)
        \/ \E hit \in SUBSET Cats : FindCd(u, hit)
        \/ EnterTrack(u) \/ EntryEnds(u) \/ Remove(u) \/ Update(u)
        \/ PerlRead(u) \/ PerlDies(u) \/ PerlFilter(u) \/ PerlPatternDies(u)
        \/ PerlOpen(u) \/ PerlWrite(u) \/ Copy(u) \/ CopyDies(u) \/ Rename(u) \/ Unlink(u) \/ Fill(u)
        \/ Quit(u) \/ QuitPerl(u) \/ Kill(u) \/ InterruptShell(u) \/ InterruptPerl(u)

Spec == Init /\ [][Next]_vars

-----------------------------------------------------------------------------
(* Properties *)

LineBag(b) == IsABag(b) /\ BagToSet(b) \subseteq Line

TypeOK ==
    /\ DOMAIN disk \subseteq Data \cup Users \cup {"cdb.tmp"}
    /\ \A f \in DOMAIN disk : LineBag(disk[f])
    /\ sameFs \in BOOLEAN
    /\ prog \in [Users -> Programs \cup {"none"}] /\ step \in [Users -> Steps]
    /\ file \in [Users -> Data] /\ goal \in [Users -> {"remove", "update"}]
    /\ cdcatnum \in [Users -> Cats \cup {NoCat}] /\ cdtrack \in [Users -> Nat]
    /\ \A u \in Users : \A f \in Data : LineBag(mem[u][f])
    /\ acts \in Nat /\ runs \in Nat /\ breaks \in Nat
    /\ owed \subseteq Cats /\ razed \subseteq Cats /\ used \subseteq Programs
    /\ spoiled \in BOOLEAN

\* No CD is lost.  When no program runs, every CD that was confirmed has its
\* line in title.cdb, unless its removal was confirmed or its title was found
\* when another CD was removed: curses takes a number for the beginning of
\* others, the scripts take it for a regular expression.  Excepted is a run in
\* which two programs ran at once, or one was stopped in the one step where the
\* titles are nowhere but in a temporary file (curses, and mv between file
\* systems), while perl held titles it had not written (killed, or dead of a bad
\* pattern), or while it was still reading them.
NothingLost ==
    Running = {} /\ ~spoiled => \A c \in owed \ razed : Title(c) \in BagToSet(Lines("title"))

\* The curses program, run by one user at a time and not stopped, leaves no
\* tracks of a CD that has no title, although the two are in different files.
TracksHaveTitle ==
    (\A u \in Users : step[u] = "menu") /\ ~spoiled /\ breaks = 0 /\ used \subseteq {"curses"}
        => CatsOf(Lines("tracks")) \subseteq CatsOf(Lines("title"))

\* Programs that run at the same time may lose each other's lines, but no track
\* gets among the titles and no title among the tracks, as long as curses, which
\* has one name for all its temporary files, is not among them.
KindsKept ==
    "curses" \notin used => /\ \A l \in BagToSet(Lines("title"))  : l.no = 0
                            /\ \A l \in BagToSet(Lines("tracks")) : l.no > 0
=============================================================================

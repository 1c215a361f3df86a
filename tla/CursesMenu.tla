------------------------------ MODULE CursesMenu ------------------------------
(***************************************************************************)
(* chapter06/app/curses.c: the menus, whose highlight outlives each of     *)
(* them, the scrolling list of a CD's tracks and the window to enter them. *)
(* The menu is longer while a CD is selected.  What other programs write   *)
(* to tracks.cdb between its two readings is an input.                     *)
(***************************************************************************)
EXTENDS Integers, Sequences

CONSTANTS
    BOXED_LINES,   \* lines of the box
    MaxOnFile      \* bound: tracks of a CD in the file

ASSUME MenuAssumption == BOXED_LINES \in Nat /\ BOXED_LINES > 1 /\ MaxOnFile \in Nat

VARIABLES
    screen,        \* main, choosing, the choice being carried out, or a loop of it
    current_cd,    \* whether a CD is selected
    choices,       \* the menu on the screen
    selected_row,  \* its highlight
    selected,      \* the choice under it
    tracks,        \* list_tracks: the lines counted
    height,        \* the lines of the pad
    first_line,    \* the pad's line at the top of the box
    screen_line    \* update_cd: the line of the window to write next

menuVars == <<screen, current_cd, choices, selected_row, selected, tracks, height, first_line, screen_line>>

main_menu     == <<"a", "f", "c", "q">>
extended_menu == <<"a", "f", "c", "l", "r", "u", "q">>

MenuInit ==
    /\ screen = "main" /\ current_cd = FALSE /\ choices = main_menu
    /\ selected_row = 0 /\ selected = "none"
    /\ tracks = 0 /\ height = 0 /\ first_line = 0 /\ screen_line = 0

Menu == <<choices, selected_row, selected>>
Box  == <<tracks, height, first_line, screen_line>>

-----------------------------------------------------------------------------
(* getchoice *)

\* the row and the choice under it, once the menu is drawn
Highlight(r) == selected_row' = r /\ selected' = choices'[r + 1]

\* a menu that got shorter since the last choice starts with its first row
ShowMenu ==
    /\ screen = "main" /\ screen' = "choosing"
    /\ choices' = IF current_cd THEN extended_menu ELSE main_menu
    /\ Highlight(IF selected_row >= Len(choices') THEN 0 ELSE selected_row)
    /\ UNCHANGED <<current_cd, Box>>

MenuUp ==
    /\ screen = "choosing" /\ UNCHANGED <<screen, current_cd, choices, Box>>
    /\ Highlight(IF selected_row = 0 THEN Len(choices) - 1 ELSE selected_row - 1)

MenuDown ==
    /\ screen = "choosing" /\ UNCHANGED <<screen, current_cd, choices, Box>>
    /\ Highlight(IF selected_row = Len(choices) - 1 THEN 0 ELSE selected_row + 1)

\* Return, or q wherever the highlight is
MenuTaken ==
    /\ screen = "choosing" /\ screen' \in {selected, "q"}
    /\ UNCHANGED <<current_cd, Menu, Box>>

-----------------------------------------------------------------------------
(* The choices *)

\* add_record takes the title that was typed, find_cd the one it found: either
\* may be empty, and then no CD is selected.  An addition may be cancelled.
AddOrFind ==
    /\ screen \in {"a", "f"} /\ screen' = "main" /\ current_cd' \in BOOLEAN
    /\ UNCHANGED <<Menu, Box>>

\* remove_cd: no CD is selected afterwards, unless it was cancelled
RemoveCd ==
    /\ screen = "r" /\ screen' = "main" /\ current_cd' \in {current_cd, FALSE}
    /\ UNCHANGED <<Menu, Box>>

CountCds ==
    /\ screen = "c" /\ screen' = "main"
    /\ UNCHANGED <<current_cd, Menu, Box>>

QuitMenu ==
    /\ screen = "q" /\ screen' = "gone"
    /\ UNCHANGED <<current_cd, Menu, Box>>

\* list_tracks: no CD, no file or no memory for the pad
ListNothing ==
    /\ screen \in {"l", "counted"} /\ screen' = "main"
    /\ UNCHANGED <<current_cd, Menu, Box>>

CountTracks ==
    /\ screen = "l" /\ current_cd /\ screen' = "counted"
    /\ tracks' \in 0..MaxOnFile /\ height' = tracks' + 1 + BOXED_LINES
    /\ UNCHANGED <<current_cd, Menu, first_line, screen_line>>

\* the second reading fills the pad, with more lines or fewer than were counted
FillPad ==
    /\ screen = "counted" /\ screen' = "listing" /\ first_line' = 0
    /\ UNCHANGED <<current_cd, Menu, tracks, height, screen_line>>

ListUp ==
    /\ screen = "listing" /\ first_line > 0 /\ first_line' = first_line - 1
    /\ UNCHANGED <<screen, current_cd, Menu, tracks, height, screen_line>>

ListDown ==
    /\ screen = "listing" /\ first_line + BOXED_LINES + 1 < tracks
    /\ first_line' = first_line + 1
    /\ UNCHANGED <<screen, current_cd, Menu, tracks, height, screen_line>>

ListEnds ==
    /\ screen = "listing" /\ screen' = "main"
    /\ UNCHANGED <<current_cd, Menu, Box>>

\* update_cd: cancelled, or the window in which the tracks are entered
UpdateCd ==
    /\ screen = "u" /\ screen' \in {"main", "entering"} /\ screen_line' = 1
    /\ UNCHANGED <<current_cd, Menu, tracks, height, first_line>>

\* a track is entered, and at the window's end it scrolls; an empty line ends it
EnterLine ==
    /\ screen = "entering" /\ screen' \in {"entering", "main"}
    /\ screen_line' = IF screen_line + 1 > BOXED_LINES - 1 THEN screen_line ELSE screen_line + 1
    /\ UNCHANGED <<current_cd, Menu, tracks, height, first_line>>

-----------------------------------------------------------------------------
MenuNext ==
    \/ ShowMenu \/ MenuUp \/ MenuDown \/ MenuTaken
    \/ AddOrFind \/ RemoveCd \/ CountCds \/ QuitMenu \/ UpdateCd \/ EnterLine
    \/ ListNothing \/ CountTracks \/ FillPad \/ ListUp \/ ListDown \/ ListEnds

MenuTypes ==
    /\ screen \in {"main", "choosing", "a", "f", "c", "l", "r", "u", "q", "counted", "listing", "entering", "gone"}
    /\ current_cd \in BOOLEAN /\ choices \in {main_menu, extended_menu}
    /\ selected_row \in Nat /\ selected \in {"none", "a", "f", "c", "l", "r", "u", "q"}
    /\ tracks \in Nat /\ height \in Nat /\ first_line \in Nat /\ screen_line \in Nat

\* The highlight is a row of the menu, though it stays from one menu to the next and
\* the menu gets shorter when the CD is removed.  Removing and updating, which do
\* not show a menu line without a CD (update_cd does not even test it), are reached
\* only with one.  The box never reads past the pad, or scrolls past the tracks that
\* were counted; the line that update_cd writes is in its window.
MenuFits ==
    /\ screen = "choosing" =>
         /\ selected_row < Len(choices) /\ selected = choices[selected_row + 1]
         /\ choices = IF current_cd THEN extended_menu ELSE main_menu
    /\ screen \in {"l", "r", "u", "counted", "listing", "entering"} => current_cd
    /\ screen = "listing" =>
         /\ first_line + BOXED_LINES + 1 <= height
         /\ first_line = 0 \/ first_line + BOXED_LINES + 1 <= tracks
    /\ screen = "entering" => screen_line < BOXED_LINES
=============================================================================

------------------------------- MODULE MCCdLocal -------------------------------
(* Two places for programs.  The name "b" is contained in "ab", and the empty *)
(* name in all. *)
EXTENDS CdLocal

MCNamesOf == [p \in Procs |-> IF p = "left" THEN {"ab"} ELSE {"b"}]
MCPrograms == [p \in Procs |-> IF p = "left" THEN {"gnome"} ELSE {"gnome", "cgi", "new"}]
MCContain == [n \in Names |-> CASE n = "" -> Names [] n = "b" -> {"b", "ab"} [] n = "ab" -> {"ab"}]
=============================================================================

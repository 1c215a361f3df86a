------------------------------ MODULE MCCdFiles ------------------------------
(* CdFiles for TLC: the numbers CStar and CStarP stand for "C.*" and "C.*(".  *)
(* The second begins with the first; "^C.*," finds the lines of both, to grep *)
(* "^C.*(," finds those that have a "(", and to perl it is an error.          *)
EXTENDS CdFiles, TLC

CONSTANTS u, v, CStar, CStarP

MCLines      == [cat : Cats, no : 0..MaxActs]
MCBeginsWith == {<<CStar, CStar>>, <<CStarP, CStarP>>, <<CStarP, CStar>>}
MCPerlFinds  == MCLines \X {CStar}
MCGrepFinds  == MCPerlFinds \cup {l \in MCLines : l.cat = CStarP} \X {CStarP}
UserSymmetry == Permutations(Users)
=============================================================================

----------------------------- MODULE MCSession -----------------------------
(* Session on small instances. *)
EXTENDS Session, TLC

CONSTANTS d1, d2

MCDirs == {d1, d2}
MCOneDir == {d1}
None == [d \in Dirs |-> 0]
FirstHasOne == [d \in Dirs |-> IF d = d1 THEN 1 ELSE 0]
=============================================================================

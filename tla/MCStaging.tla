----------------------------- MODULE MCStaging ------------------------------
EXTENDS Staging

(* A file of seven lines: the first may change in the first hunk, and two   *)
(* in the second, one of them the last, which has no newline.  The second   *)
(* hunk has context that is said twice, and a line that is said once.       *)
MCSpans == <<<<1, 2>>, <<3, 7>>>>
MCFixed == {2, 3, 5, 6}
MCText == <<"a", "top", "end", "b", "mid", "end", "c">>
MCEol == [s \in 1 .. 7 |-> s # 7]
MCCommitted == {2, 3, 4, 5, 6}

(* The last line says what the one before it says, and every line of the    *)
(* context says the same.                                                   *)
MCTwice == [MCText EXCEPT ![7] = "end"]
MCAlike == [s \in 1 .. 7 |-> IF s \in MCFixed THEN "end" ELSE MCText[s]]
=============================================================================

-------------------------------- MODULE Hunk --------------------------------
(***************************************************************************)
(* A unified diff as data (crates/butai-protocol/src/hunk.rs): a piece of  *)
(* it, and the whole of it turned round.                                   *)
(*                                                                         *)
(* A line is what it does to the file and its text.  The line with origin  *)
(* "mark" says that the one before it has no newline.                      *)
(***************************************************************************)
EXTENDS Integers, Sequences, FiniteSets, SequencesExt

Line(origin, text) == [origin |-> origin, text |-> text]
Mark == Line("mark", "")
Changes == {"added", "removed"}

(* Origin::in_old, Origin::in_new, Hunk::old_len, Hunk::new_len.            *)
Old == {"context", "removed"}
New == {"context", "added"}
InOld(l) == l.origin \in Old
InNew(l) == l.origin \in New
OldLen(h) == Cardinality({i \in DOMAIN h.lines : InOld(h.lines[i])})
NewLen(h) == Cardinality({i \in DOMAIN h.lines : InNew(h.lines[i])})

(* A finite set of numbers, in order: the i-th has i of them up to it.      *)
Ordered(S) ==
    [i \in 1 .. Cardinality(S) |-> CHOOSE s \in S : Cardinality({t \in S : t <= s}) = i]

(* Hunk::changed_line_indices.                                              *)
ChangedLines(h) == Ordered({i \in DOMAIN h.lines : h.lines[i].origin \in Changes})

-----------------------------------------------------------------------------
(* Plausible bug: a removal that is not picked is left out as well.         *)
KeptAlone(lines, picked) ==
    LET at == Ordered({i \in DOMAIN lines : lines[i].origin \in Changes => i \in picked})
    IN  [n \in DOMAIN at |-> lines[at[n]]]

(* Patch::subset: an addition that is not picked is left out, a removal     *)
(* that is not picked stays as context, and a mark stays if the line before *)
(* it seems to have stayed.                                                 *)
Stays(acc, lines, i) ==
    \/ Len(acc) = i - 1
    \/ acc # << >> /\ i > 1 /\ Last(acc).text = lines[i - 1].text
Keep(acc, lines, picked, i) ==
    LET l == lines[i] IN
    CASE l.origin = "added" /\ i \notin picked -> acc
      [] l.origin = "removed" /\ i \notin picked -> Append(acc, Line("context", l.text))
      [] l.origin = "mark" /\ ~ Stays(acc, lines, i) -> acc
      [] OTHER -> Append(acc, l)
Kept(lines, picked) ==
    LET kept[i \in 0 .. Len(lines)] ==
            IF i = 0 THEN << >> ELSE Keep(kept[i - 1], lines, picked, i)
    IN  kept[Len(lines)]

(* A piece that changes nothing is refused.                                 *)
NoPiece == [old |-> 0, new |-> 0, lines |-> << >>]
Subset(h, picked) ==
    LET lines == Kept(h.lines, picked) IN
    IF \E i \in DOMAIN lines : lines[i].origin \in Changes
    THEN [h EXCEPT !.lines = lines] ELSE NoPiece

(* write_file: where the new side of each hunk begins is worked out anew.   *)
Begins(h, delta) ==
    LET base == h.old + delta
        start == IF NewLen(h) = 0 THEN base - 1 ELSE IF OldLen(h) = 0 THEN base + 1 ELSE base
    IN  IF start < 0 THEN 0 ELSE start
WriteFile(hunks) ==
    LET delta[k \in DOMAIN hunks] ==
            IF k = 1 THEN 0 ELSE delta[k - 1] + NewLen(hunks[k - 1]) - OldLen(hunks[k - 1])
    IN  [k \in DOMAIN hunks |-> [hunks[k] EXCEPT !.new = Begins(hunks[k], delta[k])]]

(* Patch::reversed.                                                         *)
Turned ==
    [o \in Changes \union {"context", "mark"} |->
        IF o \in Changes THEN CHOOSE c \in Changes : c # o ELSE o]
Reversed(hunks) ==
    [k \in DOMAIN hunks |->
        [old |-> hunks[k].new, new |-> hunks[k].old,
         lines |-> [i \in DOMAIN hunks[k].lines |->
                       [hunks[k].lines[i] EXCEPT !.origin = Turned[@]]]]]

-----------------------------------------------------------------------------
(* The file a hunk is applied to and the one it makes: a line, and whether  *)
(* a newline ends it.                                                       *)
Side(lines, origins) ==
    LET at == Ordered({i \in DOMAIN lines : lines[i].origin \in origins})
        marked(i) == i < Len(lines) /\ lines[i + 1].origin = "mark"
    IN  [n \in DOMAIN at |-> <<lines[at[n]].text, ~ marked(at[n])>>]

(* git2's apply, for one hunk: its old side has to stand at the line that   *)
(* its header states.  No other line is tried, and what follows the old     *)
(* side is not looked at, also where the hunk was printed at the end.       *)
Matches(content, h) ==
    LET old == Side(h.lines, Old) IN
    /\ h.new >= 1 /\ h.new + Len(old) - 1 <= Len(content)
    /\ SubSeq(content, h.new, h.new + Len(old) - 1) = old
Patched(content, h) ==
    SubSeq(content, 1, h.new - 1) \o Side(h.lines, New)
    \o SubSeq(content, h.new + OldLen(h), Len(content))
=============================================================================

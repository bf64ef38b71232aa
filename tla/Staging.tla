------------------------------ MODULE Staging ------------------------------
(***************************************************************************)
(* Partial staging, from the diff a client shows to the index and the      *)
(* worktree: DiffView (crates/butai-client/src/chrome/mod.rs), the keys    *)
(* that drive it (workbench.rs), and the daemon's git/apply                *)
(* (crates/butai-server/src/pane/git.rs, apply_patch).                     *)
(*                                                                         *)
(* The file is made of lines 1 .. Slots; each of HEAD, the index and the   *)
(* worktree holds some of them, in order, and always the Fixed ones, the   *)
(* context around each line that may change: what is removed and what is   *)
(* added never meet, so their order within a place makes no difference.    *)
(* A line that may change says what no other line says; the context may    *)
(* repeat itself.  The patch a client shows is a snapshot: the worktree is *)
(* edited meanwhile.                                                       *)
(***************************************************************************)
EXTENDS Hunk, FiniteSetsExt, Functions

CONSTANTS
    Slots,      \* lines there may be
    Fixed,      \* the ones that are everywhere
    Spans,      \* what each hunk covers, context included: <<first, last>>
    Text, Eol,  \* what a line says, and whether a newline ends it
    Committed,  \* the lines of HEAD
    MaxEdits    \* bound: edits of the worktree

Lines == 1 .. Slots
ASSUME StagingAssumption ==
    /\ Slots \in Nat /\ MaxEdits \in Nat
    /\ Fixed \subseteq Committed /\ Committed \subseteq Lines
    /\ Text \in [Lines -> STRING] /\ Eol \in [Lines -> BOOLEAN]
    /\ \A s \in Lines \ Fixed, t \in Lines : <<Text[s], Eol[s]>> = <<Text[t], Eol[t]>> => s = t
    /\ \A s \in Lines : ~ Eol[s] => s = Slots
    /\ \A s \in Lines \ Fixed : {s - 1, s + 1} \intersect Lines \subseteq Fixed
    /\ Spans \in Seq(Lines \X Lines)
    /\ \A k \in DOMAIN Spans : /\ \E s \in Fixed : s \in Spans[k][1] .. Spans[k][2]
                               /\ Spans[k][1] \in Fixed \union {1}
                               /\ Spans[k][2] \in Fixed \union {Slots}

VARIABLES
    index, work,    \* the lines each holds
    edits,
    kind,           \* DiffView::kind: "unstaged" or "staged"
    shown,          \* the two sides the patch was printed from
    hunk,           \* DiffCursor::hunk
    mode,           \* DiffMode
    line,           \* line_cursor
    picked          \* picked: line indices within the hunk

stagingVars == <<index, work, edits, kind, shown, hunk, mode, line, picked>>
repo == <<index, work, edits>>
view == <<kind, shown, hunk, mode, line, picked>>

-----------------------------------------------------------------------------
Said(s) == <<Text[s], Eol[s]>>
Content(S) == [i \in 1 .. Cardinality(S) |-> Said(Ordered(S)[i])]

(* patch_text: a hunk for each span where the sides differ.  Only the last  *)
(* line of the file may need a mark.                                        *)
Body(S, old, new) ==
    LET origin(s) == IF s \in old THEN IF s \in new THEN "context" ELSE "removed" ELSE "added"
        print(s) == Line(origin(s), Text[s])
    IN  [i \in 1 .. Cardinality(S) |-> print(Ordered(S)[i])]
Marks(S) == IF \E s \in S : ~ Eol[s] THEN <<Mark>> ELSE << >>
Span(k) == Spans[k][1] .. Spans[k][2]
Above(S, k) == Cardinality({s \in S : s < Spans[k][1]})
Differing(old, new) ==
    Ordered({k \in DOMAIN Spans : \E s \in Span(k) : s \in old <=> s \notin new})
Printed(old, new) ==
    LET body(k) == (old \union new) \intersect Span(k)
        made(k) == [old |-> Above(old, k) + 1, new |-> Above(new, k) + 1,
                    lines |-> Body(body(k), old, new) \o Marks(body(k))]
        spans == Differing(old, new)
    IN  [n \in DOMAIN spans |-> made(spans[n])]

Patch(s) == Printed(s.old, s.new)
Fetched(k, in, out) == IF k = "staged" THEN [old |-> Committed, new |-> in]
                       ELSE [old |-> in, new |-> out]

(* current_hunk and changed_indices.                                        *)
Hunks == Patch(shown)
HasHunk == hunk \in DOMAIN Hunks
Changed == IF HasHunk THEN ChangedLines(Hunks[hunk]) ELSE << >>

-----------------------------------------------------------------------------
(* set_patch and clamp_cursor, for the patch of s, in mode m with picks p.  *)
SetPatch(s, m, p) ==
    LET hunks == Patch(s)
        h == IF hunks = << >> THEN 1 ELSE IF hunk > Len(hunks) THEN Len(hunks) ELSE hunk
        lines == IF hunks = << >> THEN << >> ELSE hunks[h].lines
        changed == IF hunks = << >> THEN 0 ELSE Len(ChangedLines(hunks[h]))
    IN
    /\ shown' = s /\ hunk' = h
    /\ mode' = IF changed = 0 THEN "read" ELSE m
    /\ line' = IF line <= changed THEN line ELSE IF changed = 0 THEN 1 ELSE changed
    /\ picked' = p \intersect DOMAIN lines

(* DiffView::new.                                                           *)
Open(k) ==
    /\ kind' = k /\ shown' = Fetched(k, index, work)
    /\ hunk' = 1 /\ mode' = "read" /\ line' = 1 /\ picked' = {}
    /\ UNCHANGED repo

(* The key r: the patch is read again, the cursor stays.                    *)
Refresh == SetPatch(Fetched(kind, index, work), mode, picked) /\ UNCHANGED <<repo, kind>>

(* step_hunk: at either end the cursor stays, but its picks go.             *)
StepHunk(delta) ==
    /\ Hunks # << >>
    /\ hunk' = IF hunk + delta \in DOMAIN Hunks THEN hunk + delta ELSE hunk
    /\ mode' = "read" /\ picked' = {} /\ line' = 1
    /\ UNCHANGED <<repo, kind, shown>>

(* line_select and cancel_line_select, the key v.                           *)
LineSelect ==
    /\ mode = "read" /\ Changed # << >>
    /\ mode' = "lines" /\ line' = 1 /\ picked' = {}
    /\ UNCHANGED <<repo, kind, shown, hunk>>
Cancel ==
    /\ mode = "lines"
    /\ mode' = "read" /\ picked' = {}
    /\ UNCHANGED <<repo, kind, shown, hunk, line>>

(* step_line and pick_line.                                                 *)
StepLine(to) ==
    /\ mode = "lines" /\ to \in {line - 1, line + 1} \intersect DOMAIN Changed
    /\ line' = to
    /\ UNCHANGED <<repo, kind, shown, hunk, mode, picked>>
PickLine ==
    /\ mode = "lines" /\ line \in DOMAIN Changed
    /\ LET i == Changed[line] IN
       picked' = IF i \in picked THEN picked \ {i} ELSE picked \union {i}
    /\ line' = IF line < Len(Changed) THEN line + 1 ELSE line
    /\ UNCHANGED <<repo, kind, shown, hunk, mode>>

-----------------------------------------------------------------------------
(* Plausible bug: the keys send the whole hunk whatever is picked.          *)
PieceWhole(discard) ==
    IF ~ HasHunk \/ (discard /\ kind = "staged") THEN NoPiece
    ELSE Subset(Hunks[hunk], DOMAIN Hunks[hunk].lines)

(* selection: the piece of the patch that is sent.                          *)
Piece(discard) ==
    IF ~ HasHunk \/ (discard /\ kind = "staged") \/ (mode = "lines" /\ picked = {}) THEN NoPiece
    ELSE Subset(Hunks[hunk], IF mode = "read" THEN DOMAIN Hunks[hunk].lines ELSE picked)
Reverses(discard) == discard \/ kind = "staged"

(* apply_patch, to a content.                                               *)
Sent(discard) ==
    LET one == WriteFile(<<Piece(discard)>>)
    IN  IF Reverses(discard) THEN WriteFile(Reversed(one))[1] ELSE one[1]
Target(discard) == IF discard THEN work ELSE index
Accepted(discard) ==
    Piece(discard) # NoPiece /\ Matches(Content(Target(discard)), Sent(discard))
Result(discard) == Patched(Content(Target(discard)), Sent(discard))

Contents == {Fixed \union S : S \in SUBSET (Lines \ Fixed)}

(* The keys space, enter and x.  A piece that was applied ends the picking, *)
(* and the patch is read again, unless that fails.  A refusal is only said. *)
(* A file that is no longer made of its lines, because a piece was accepted *)
(* where it does not belong, is not followed.                               *)
Apply(discard) ==
    \E made \in Contents :
        LET in == IF discard THEN index ELSE made
            out == IF discard THEN made ELSE work
        IN
        /\ Accepted(discard) /\ Content(made) = Result(discard)
        /\ index' = in /\ work' = out
        /\ \E s \in {shown, Fetched(kind, in, out)} : SetPatch(s, "read", {})
        /\ UNCHANGED <<edits, kind>>

(* Somebody else writes to the worktree.                                    *)
Edit(s) ==
    /\ edits < MaxEdits /\ s \notin Fixed
    /\ work' = IF s \in work THEN work \ {s} ELSE work \union {s}
    /\ edits' = edits + 1
    /\ UNCHANGED <<index, view>>

-----------------------------------------------------------------------------
StagingInit ==
    /\ index \in Contents /\ work \in Contents /\ edits = 0
    /\ kind \in {"unstaged", "staged"} /\ shown = Fetched(kind, index, work)
    /\ hunk = 1 /\ mode = "read" /\ line = 1 /\ picked = {}

StagingNext ==
    \/ \E k \in {"unstaged", "staged"} : Open(k)
    \/ Refresh \/ LineSelect \/ Cancel \/ PickLine
    \/ \E delta \in {-1, 1} : StepHunk(delta)
    \/ \E to \in DOMAIN Changed : StepLine(to)
    \/ \E discard \in BOOLEAN : Apply(discard)
    \/ \E s \in Lines : Edit(s)

StagingSpec == StagingInit /\ [][StagingNext]_stagingVars

-----------------------------------------------------------------------------
(* The cursors stand on something, whatever a refresh made of the patch.    *)
StagingTypeOK ==
    /\ index \in Contents /\ work \in Contents /\ edits \in 0 .. MaxEdits
    /\ kind \in {"unstaged", "staged"} /\ mode \in {"read", "lines"}
    /\ hunk \in DOMAIN Hunks \union {1}
    /\ mode = "lines" => line \in DOMAIN Changed
    /\ picked # {} => mode = "lines" /\ HasHunk /\ picked \subseteq DOMAIN Hunks[hunk].lines

(* What the cursor and the picks name on the screen.                        *)
HunkSpan == Differing(shown.old, shown.new)[hunk]
Named ==
    IF ~ HasHunk THEN {}
    ELSE LET lines == Ordered((shown.old \union shown.new) \intersect Span(HunkSpan))
             named == IF mode = "read" THEN DOMAIN lines ELSE picked \intersect DOMAIN lines
         IN  {lines[i] : i \in named} \ (shown.old \intersect shown.new)
Done(S) == (S \ (Named \ shown.new)) \union (Named \ shown.old)
Undone(S) == (S \ (Named \ shown.old)) \union (Named \ shown.new)
Meant(discard) ==
    IF Reverses(discard) THEN Undone(Target(discard)) ELSE Done(Target(discard))

(* What tells the lines a piece is about from any others: context that is   *)
(* said but once, and context, or the end of the file, below its changes.   *)
Tells(discard) ==
    /\ \E a \in Fixed \intersect Span(HunkSpan) : \A s \in Lines : Said(s) = Said(a) => s = a
    /\ \/ Spans[HunkSpan][2] \in Fixed
       \/ Last(Side(Sent(discard).lines, Old)) = Last(Content(Target(discard)))

(* However stale the patch a client shows, what it stages, unstages or      *)
(* discards is exactly what it names on its screen, or nothing at all: no   *)
(* other edit is staged, and none is lost.  That is so of a hunk with a     *)
(* line of context that is said nowhere else in the file.  Where the        *)
(* context of a hunk repeats itself, and where the file ends with an        *)
(* addition that is made again, a stale piece is accepted and makes         *)
(* something else.                                                          *)
OnlyWhatIsNamed ==
    \A discard \in BOOLEAN :
        Accepted(discard) /\ Tells(discard) => Result(discard) = Content(Meant(discard))

(* Whatever is picked of a patch that is up to date can be staged: its      *)
(* header states the line where it belongs, although it was cut from a      *)
(* longer patch.                                                            *)
FreshIsStaged ==
    kind = "unstaged" /\ shown.old = index /\ Piece(FALSE) # NoPiece =>
        Accepted(FALSE) /\ Result(FALSE) = Content(Done(index))

(* A whole hunk of a patch that is up to date can be unstaged, and it can   *)
(* be discarded, if it stands at the same line on both sides.  (write_file  *)
(* states the old one for the piece it turns round: PickIsUndone.)          *)
HunkIsUndone ==
    mode = "read" /\ HasHunk /\ Hunks[hunk].old = Hunks[hunk].new =>
        /\ kind = "staged" /\ shown.new = index =>
               Accepted(FALSE) /\ Result(FALSE) = Content(Undone(index))
        /\ kind = "unstaged" /\ shown.new = work =>
               Accepted(TRUE) /\ Result(TRUE) = Content(Undone(work))

(* A page whose patch is up to date refuses neither what is picked to be    *)
(* staged, nor to take back a whole hunk that no other one has moved, and   *)
(* what it makes is what it shows; its cursors stand on something.          *)
FreshIsDone == StagingTypeOK /\ FreshIsStaged /\ HunkIsUndone

(* hunk.rs on the mark: "it survives exactly when that line did. Dropping   *)
(* an added line takes its marker with it".  subset takes the last line     *)
(* that was kept for the one before the mark if it says the same.           *)
MarksFollow ==
    mode = "lines" /\ Piece(FALSE) # NoPiece =>
        LET lines == Hunks[hunk].lines
            dropped(i) == lines[i].origin = "added" /\ i \notin picked
        IN  Contains(Piece(FALSE).lines, Mark) <=>
                \E i \in 2 .. Len(lines) : lines[i] = Mark /\ ~ dropped(i - 1)

(* docs/git.md: "When the file changes underneath you, the apply fails":    *)
(* while it does not, what is picked of a staged diff can be unstaged and   *)
(* what is picked of an unstaged one discarded.  A piece is cut and its     *)
(* header written by the rules of the file before the change, and it is     *)
(* applied to the one after it, which holds the additions that were not     *)
(* picked and in which a later hunk stands at another line.                 *)
PickIsUndone ==
    /\ kind = "staged" /\ shown.new = index /\ Piece(FALSE) # NoPiece => Accepted(FALSE)
    /\ kind = "unstaged" /\ shown.new = work /\ Piece(TRUE) # NoPiece => Accepted(TRUE)
=============================================================================

------------------------------ MODULE TermView ------------------------------
(***************************************************************************)
(* What is read off a terminal pane while somebody scrolls through it      *)
(* (crates/butai-server/src/pane/terminal.rs).                             *)
(*                                                                         *)
(* The daemon reads questions and working markers off the last rows of a   *)
(* pane's screen.  The screen its emulator shows is the one scrolled to,   *)
(* so while the view is parked in the scrollback a copy of the live band   *)
(* stands in for it, renewed whenever the screen or the view changes.      *)
(***************************************************************************)
EXTENDS Naturals, Sequences, FiniteSets, SequencesExt, FiniteSetsExt

CONSTANTS
    Rows,       \* rows of the pane
    Band,       \* FOOTER_SCAN_ROWS
    MaxBack     \* the depth of the scrollback

ASSUME ViewAssumption == Rows \in Nat \ {0} /\ Band \in 1 .. Rows /\ MaxBack \in Nat

VARIABLES
    back,       \* the scrollback, oldest row first
    grid,       \* the live screen
    offset,     \* scroll_offset: rows the view is parked above the live screen
    parked      \* TerminalPane::parked_footer

viewVars == <<back, grid, offset, parked>>

(* What a row holds, as far as the scan can tell: a sentence that asks, a   *)
(* numbered option, the hints or the cursor of a dialog, a working marker.  *)
Kinds == {"blank", "prose", "asks", "option", "chrome", "working"}
Grids == [1 .. Rows -> Kinds]
None == << >>

-----------------------------------------------------------------------------
Lesser(a, b) == IF a <= b THEN a ELSE b
Saturating(a, b) == IF a > b THEN a - b ELSE 0
Lasts(s, n) == SubSeq(s, Saturating(Len(s), n) + 1, Len(s))

(* The rows the emulator shows at an offset.                                *)
Window(b, g, o) == SubSeq(b \o g, Len(b) - o + 1, Len(b) - o + Rows)

(* footer_window: the last rows with anything on them.                      *)
Written(rows) ==
    LET last == Max({0} \union {i \in DOMAIN rows : rows[i] # "blank"})
    IN  Lasts(SubSeq(rows, 1, last), Band)

(* footer_lines, read by the working markers, and dialog_lines, read by the *)
(* questions.                                                               *)
FooterLines == IF parked # None THEN parked ELSE Lasts(Window(back, grid, offset), Band)
DialogLines == Written(IF parked # None THEN parked ELSE Window(back, grid, offset))

(* footer_signals.  A dialog's own hints are no sign of work, and a         *)
(* question in prose needs its options, and loses to a working marker.      *)
Signals(footer, dialog) ==
    LET busy == Contains(footer, "working")
        asked == Contains(dialog, "asks") /\ Contains(dialog, "option")
    IN  [busy |-> busy, prompt |-> Contains(dialog, "chrome") \/ (asked /\ ~ busy)]

FooterSignals == Signals(FooterLines, DialogLines)
LiveSignals == Signals(Lasts(grid, Band), Written(grid))

(* sync_parked_footer.                                                      *)
Sync == parked' = IF offset' = 0 THEN None ELSE Lasts(grid', Band)

-----------------------------------------------------------------------------
(* feed_output: n rows scroll off and the screen is painted anew.  A view   *)
(* that is parked stays on the rows it shows, as far as they are kept.      *)
FeedUnseen(n, g) ==
    /\ back' = Lasts(back \o SubSeq(grid, 1, n), MaxBack)
    /\ grid' = g
    /\ offset' = IF offset = 0 THEN 0 ELSE Lesser(offset + n, Len(back'))
    /\ UNCHANGED parked
FeedOutput(n, g) ==
    /\ back' = Lasts(back \o SubSeq(grid, 1, n), MaxBack)
    /\ grid' = g
    /\ offset' = IF offset = 0 THEN 0 ELSE Lesser(offset + n, Len(back'))
    /\ Sync

(* resize: the screen is painted anew.                                      *)
Resize(g) ==
    /\ grid' = g
    /\ UNCHANGED <<back, offset>>
    /\ Sync

(* scroll_lines, by n rows back or forth.                                   *)
ScrollBack(n) ==
    /\ offset' = Lesser(offset + n, Len(back))
    /\ UNCHANGED <<back, grid>>
    /\ Sync
ScrollForth(n) ==
    /\ offset' = Saturating(offset, n)
    /\ UNCHANGED <<back, grid>>
    /\ Sync

(* handle_input: typing is aimed at the live screen.                        *)
Type ==
    /\ offset' = 0 /\ parked' = None
    /\ UNCHANGED <<back, grid>>

ViewInit ==
    /\ back = << >> /\ grid = [i \in 1 .. Rows |-> "blank"]
    /\ offset = 0 /\ parked = None

ViewNext ==
    \/ \E n \in 0 .. Rows, g \in Grids : FeedOutput(n, g)
    \/ \E g \in Grids : Resize(g)
    \/ \E n \in 1 .. Rows : ScrollBack(n) \/ ScrollForth(n)
    \/ Type

ViewSpec == ViewInit /\ [][ViewNext]_viewVars

-----------------------------------------------------------------------------
ViewTypeOK ==
    /\ back \in Seq(Kinds) /\ Len(back) <= MaxBack /\ grid \in Grids
    /\ offset \in 0 .. Len(back)
    /\ parked \in Seq(Kinds) /\ (parked # None <=> offset > 0)

(* The working markers are those of the live screen, wherever somebody has  *)
(* scrolled to and whatever was written meanwhile: reading old output       *)
(* neither makes an agent look busy nor hides that it is.                   *)
WorkIsLive == FooterSignals.busy = LiveSignals.busy

(* What the scrollback shows does not ask: an agent is reported to wait for *)
(* its user only if its live screen says so.                                *)
AskedIsLive == FooterSignals.prompt => LiveSignals.prompt

(* However the view is scrolled and whatever is written below it, an agent  *)
(* is seen to work exactly if its live screen says so, and to ask only if   *)
(* it does.  That a dialog on the live screen is always seen does not hold: *)
(* DialogIsLive.                                                            *)
LiveIsRead == ViewTypeOK /\ WorkIsLive /\ AskedIsLive

(* terminal.rs on dialog_lines: the copy is "trimmed to its written rows,   *)
(* which is all this band ever asks of the grid": what is asked is seen     *)
(* while the view is parked just as it is live.  A dialog painted at the    *)
(* top of a cleared screen is above the copy.                               *)
DialogIsLive == LiveSignals.prompt => FooterSignals.prompt
=============================================================================

------------------------------ MODULE MCPanes -------------------------------
(* The stream of a pane, the view of it, the operations of git and what a   *)
(* client knows of the rails share no state: a behaviour is one of the four.*)
EXTENDS TermStream, TermView, GitOps, Mirror

CONSTANTS w1, w2, r1, top, sub, v1, v2

Csi(s) == <<Esc, "[">> \o s
MCOurs == <<"x", "x", "x">>
MCTokens == {
    <<"x">>, <<Esc>>, <<"[">>, <<"6", "n">>,
    Csi(<<"6", "n">>), Csi(<<"5", "5", "5">>), Csi(<<">", "0", "c">>), Csi(<<"5", "f">>), Csi(<<"?", "f">>),
    <<Esc, "_">> \o MCOurs \o <<Bel>>, <<Esc, "_">> \o MCOurs \o <<Esc, "ST">>,
    <<Esc, "_", "x", "x", "x", "x", "x", Bel>>}

(* Two workspaces on one repository, both open on the root of the worktree, *)
(* or one of them on a directory below it.                                  *)
OneRepo == [w \in Ws |-> r1]
AtTop == [w \in Ws |-> top]
OneBelow == [w \in Ws |-> IF w = w1 THEN sub ELSE top]

-----------------------------------------------------------------------------
VARIABLE part

(* A part that is not played stands where nothing of it goes on.            *)
MirrorStill ==
    /\ next = 0 /\ order = {} /\ redraw = FALSE /\ rail = [w \in Ids |-> v1]
    /\ last = Nothing /\ others = "none" /\ link = "up" /\ said = Nothing
    /\ inbox = <<Opened>> /\ tabs = {} /\ detail = Nothing /\ phase = "still"
    /\ listed = {} /\ todo = {} /\ changes = 0 /\ drops = MaxDrops

MCInit ==
    /\ part \in {"stream", "view", "operations", "mirror"}
    /\ Init /\ ViewInit /\ OpsInit
    /\ IF part = "mirror" THEN MirrorInit ELSE MirrorStill
MCNext ==
    \/ part = "stream" /\ Next
       /\ UNCHANGED <<part, viewVars, opsVars, mirrorVars>>
    \/ part = "view" /\ ViewNext
       /\ UNCHANGED <<part, vars, opsVars, mirrorVars>>
    \/ part = "operations" /\ OpsNext
       /\ UNCHANGED <<part, vars, viewVars, mirrorVars>>
    \/ part = "mirror" /\ MirrorNext
       /\ UNCHANGED <<part, vars, viewVars, opsVars>>

(* Only the operations have to end, and the mirror to follow.               *)
MCSpec ==
    /\ MCInit /\ [][MCNext]_<<part, vars, viewVars, opsVars, mirrorVars>>
    /\ OpsFairness /\ MirrorFairness
=============================================================================

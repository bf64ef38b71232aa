----------------------------- MODULE Workbench -----------------------------
(***************************************************************************)
(* What the daemon promises of a workbench: it is what its user made it,   *)
(* through every stop and start.  A directory is closed, or has a rail of  *)
(* agents, a rail of processes and a pane on the stage, and may be away: an *)
(* unmounted disk, kept until it is back or its user starts over.  While   *)
(* the daemon serves, the workbench changes by one pane or one workspace at *)
(* a time.  A stop that was asked for writes it down as it is; a crash     *)
(* falls back to a state that was written down; a start only finds out     *)
(* which directories are away.                                             *)
(***************************************************************************)
EXTENDS Naturals, Sequences, FiniteSets

CONSTANTS Dirs, Closed

VARIABLES
    life,   \* "serving", "closing" (a stop was asked for) or "shut"
    bench,  \* what is open, or kept for a directory that is away
    saved   \* what a crash falls back to

Works(panes) == {panes[i].work : i \in DOMAIN panes}

(* One pane more or one pane fewer, on one of the rails, or none: a pane    *)
(* was spoken to, restarted, or had to begin a new conversation.            *)
OnePane(r, s) ==
    LET before == Works(r.agents) \cup Works(r.procs)
        after == Works(s.agents) \cup Works(s.procs)
    IN  Cardinality((before \ after) \cup (after \ before)) <= 1

Edited(r, s) ==
    \/ r = Closed
    \/ r.away
    \/ s = Closed
    \/ s.away = r.away /\ OnePane(r, s)

Init == /\ life = "shut"
        /\ bench = [d \in Dirs |-> Closed]
        /\ saved = bench

Unmoved(d) == bench'[d] = bench[d]

(* The user, or a pane that exits, changes one directory.                   *)
Edit(d) ==
    /\ life = "serving"
    /\ Edited(bench[d], bench'[d])
    /\ \A o \in Dirs \ {d} : Unmoved(o)
    /\ saved' \in {saved, bench'}
    /\ UNCHANGED life

(* A start: nothing of any directory is lost, added or moved, be it away or *)
(* not.                                                                     *)
Start ==
    /\ life = "shut"
    /\ life' = "serving"
    /\ \A d \in Dirs : bench'[d] = [bench[d] EXCEPT !.away = bench'[d].away]
    /\ saved' = bench'

(* Written down, in passing or because a stop was asked for.                *)
Save ==
    /\ life \in {"serving", "closing"}
    /\ life' \in {life, "closing"}
    /\ saved' = bench
    /\ UNCHANGED bench

(* The end, after a stop that was asked for or by a crash.                  *)
End ==
    /\ life # "shut"
    /\ life' = "shut"
    /\ bench' = saved
    /\ UNCHANGED saved

Clear ==
    /\ life = "serving"
    /\ life' = "shut"
    /\ bench' = [d \in Dirs |-> Closed]
    /\ saved' = bench'

Next == (\E d \in Dirs : Edit(d)) \/ Start \/ Save \/ End \/ Clear

Spec == Init /\ [][Next]_<<life, bench, saved>>
=============================================================================

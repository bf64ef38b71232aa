------------------------------ MODULE MCClient ------------------------------
(* The machines of the bar, the diff page, the pages of the loop and what   *)
(* is remembered of them share no state: a behaviour is one of the four.    *)
EXTENDS Machines, MCStaging, Pages, Views

CONSTANTS here, there, far, box, k1, k2, c1

(* This machine, one reached through somebody's socket, and one to dial,    *)
(* which the config gives a name of its own: it may be in the bar twice.    *)
MCGiven == <<here, there>>
MCBadge == [t \in {far} |-> box]

-----------------------------------------------------------------------------
VARIABLE part

(* A part that is not played stands where nothing of it goes on.            *)
MachinesStill ==
    /\ hosts = << >> /\ sockets = << >> /\ daemons = << >>
    /\ forwards = {} /\ alive = {}
    /\ dials = [t \in Targets |-> None] /\ tasks = [t \in Targets |-> 0]
    /\ specs = [m \in Badges |-> None]
    /\ losses = [m \in Badges |-> 0] /\ waiting = [m \in Badges |-> FALSE]
    /\ browse = 0 /\ chosen = None /\ breaks = 0 /\ mutes = 0

PagesStill ==
    /\ chips = << >> /\ tab = 1 /\ page = "work" /\ showedPage = page /\ showing = Nobody
    /\ leftOn = [w \in Projects |-> "work"] /\ git = GitDefault /\ loads = {}
    /\ turn = "event" /\ spaceOf = leftOn /\ shifts = 0
    /\ tree = [w \in Projects |-> 1] /\ verbed = tree

MCInit ==
    /\ part \in {"machines", "diff", "pages", "views"}
    /\ IF part = "machines" THEN MachinesInit ELSE MachinesStill
    /\ IF part = "pages" THEN PagesInit ELSE PagesStill
    /\ StagingInit /\ ViewsInit
    /\ part # "diff" => index = Committed /\ work = Committed /\ kind = "staged"
MCNext ==
    \/ part = "machines" /\ MachinesNext
       /\ UNCHANGED <<part, stagingVars, pagesVars, viewsVars>>
    \/ part = "diff" /\ StagingNext
       /\ UNCHANGED <<part, machineVars, pagesVars, viewsVars>>
    \/ part = "pages" /\ PagesNext
       /\ UNCHANGED <<part, machineVars, stagingVars, viewsVars>>
    \/ part = "views" /\ ViewsNext
       /\ UNCHANGED <<part, machineVars, stagingVars, pagesVars>>

(* Only links have to come back.                                            *)
MCSpec ==
    /\ MCInit /\ [][MCNext]_<<part, machineVars, stagingVars, pagesVars, viewsVars>>
    /\ MachinesFairness
=============================================================================

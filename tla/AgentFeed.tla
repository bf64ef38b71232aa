----------------------------- MODULE AgentFeed ------------------------------
(***************************************************************************)
(* What the daemon promises to those who follow its agents: AgentTrack     *)
(* without screens, timers and marks.  An agent has a state, which changes *)
(* only when it is checked; every change to a state that wants its user is *)
(* announced, once and at the time of the change; a failure is announced   *)
(* when it happens, and shown when the agent is next checked; a clean exit *)
(* and a replacement take the row away and announce nothing.               *)
(***************************************************************************)
EXTENDS Naturals, Sequences, FiniteSets

CONSTANTS
    Agents,     \* panes: an id is not used twice
    Keep        \* NOTIF_HISTORY

VARIABLES
    used, here, \* the agents ever started, and those that have a row
    shown,      \* the state each is shown in
    known,      \* those that have been checked: the first check is a baseline
    dead,       \* those whose program has failed
    told        \* the last Keep announcements

feedVars == <<used, here, shown, known, dead, told>>

Shown == {"idle", "working", "waiting", "finished", "exited"}
Says(p, kind) == [pane |-> p, kind |-> kind]

Latest(notes, n) == SubSeq(notes, IF Len(notes) > n THEN Len(notes) - n + 1 ELSE 1, Len(notes))

FeedInit ==
    /\ used = {} /\ here = {} /\ known = {} /\ dead = {} /\ told = << >>
    /\ shown = [p \in Agents |-> "idle"]

(* push_notification, for each of `notes`.                                  *)
Tell(notes) == told' = Latest(told \o notes, Keep)

(* The agents in S are checked.                                             *)
Check(S) ==
    /\ shown' \in [Agents -> Shown]
    /\ \A p \in Agents \ S : shown'[p] = shown[p]
    /\ \A p \in S : p \in dead <=> shown'[p] = "exited"
    /\ known' = known \union S
    /\ UNCHANGED <<used, here, dead>>

(* Those that came to want their user since they were last checked, and     *)
(* what is said of them, in any order.                                      *)
Edges(S) ==
    {p \in (S \intersect known) \ dead :
        shown'[p] # shown[p] /\ shown'[p] \in {"waiting", "finished"}}
News(S) ==
    {[i \in DOMAIN order |-> Says(order[i], shown'[order[i]])] :
        order \in {o \in [1 .. Cardinality(Edges(S)) -> Edges(S)] :
                     \A i, j \in DOMAIN o : i # j => o[i] # o[j]}}

Fails(p) ==
    /\ p \in here \ dead
    /\ dead' = dead \union {p}
    /\ UNCHANGED <<used, here, shown, known>>
LastNews(p) == IF p \in known THEN <<Says(p, "exited")>> ELSE << >>

Comes(p) ==
    /\ p \notin used
    /\ used' = used \union {p} /\ here' = here \union {p}
    /\ UNCHANGED <<shown, known, dead>>

Unknown(p) ==
    /\ shown' = [shown EXCEPT ![p] = "idle"]
    /\ known' = known \ {p} /\ dead' = dead \ {p}

Goes(p) ==
    /\ p \in here
    /\ here' = here \ {p} /\ Unknown(p)
    /\ UNCHANGED used

GivesWay(p, q) ==
    /\ p \in here \ dead /\ q \notin used
    /\ used' = used \union {q} /\ here' = (here \ {p}) \union {q} /\ Unknown(p)

(* A step of the daemon, which announces through Post.                      *)
FeedStep(Post(_)) ==
    \/ \E S \in SUBSET here : Check(S) /\ \E notes \in News(S) : Post(notes)
    \/ \E p \in Agents : Fails(p) /\ Post(LastNews(p))
    \/ (\E p \in Agents : Comes(p) \/ Goes(p)) /\ Post(<< >>)
    \/ (\E p, q \in Agents : GivesWay(p, q)) /\ Post(<< >>)

FeedNext == FeedStep(Tell)

FeedSpec == FeedInit /\ [][FeedNext]_feedVars
=============================================================================

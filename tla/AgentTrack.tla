----------------------------- MODULE AgentTrack -----------------------------
(***************************************************************************)
(* What the daemon knows of its agents and tells of them                   *)
(* (crates/butai-server/src/core.rs, update_agent_tracking).               *)
(*                                                                         *)
(* An agent is a program in a terminal.  The daemon reads what it is doing *)
(* off the screen: a bell, a question, a working marker, output that keeps *)
(* coming.  On the sampler tick these signals are folded into a state that *)
(* does not flicker, whose edges are announced in a bounded feed and leave *)
(* the pane unread until somebody looks at it.  An agent that is quiet is  *)
(* looked at less and less often; its output makes it due again.           *)
(*                                                                         *)
(* Time is counted in ticks: the tracker reads the clock nowhere else.     *)
(***************************************************************************)
EXTENDS Naturals, Sequences, FiniteSets, SequencesExt

CONSTANTS
    MaxPanes,   \* bound: agents ever started
    MaxRail,    \* bound: agents open at once
    Settle,     \* AGENT_SETTLE, in ticks
    MinTurn,    \* MIN_TURN, in ticks
    CheckMax,   \* AGENT_CHECK_MAX, in ticks; AGENT_CHECK_MIN is below one
    History     \* NOTIF_HISTORY

ASSUME TrackAssumption ==
    /\ MaxPanes \in Nat /\ MaxRail \in Nat
    /\ Settle \in Nat /\ MinTurn \in Nat
    /\ CheckMax \in Nat \ {0} /\ History \in Nat \ {0}

VARIABLES
    next,       \* agents started so far: pane ids are never reused
    rail,       \* Workspace::agents
    screen,     \* what each pane shows: the signals, and whether it is dead
    track,      \* ServerCore::agent_track
    alerted,    \* ServerCore::agent_alerted
    feed,       \* ServerCore::notifications
    lull,       \* for how many ticks each pane has not been busy
    rung        \* the bell was rung for what each pane asks now

ghostVars == <<lull, rung>>
vars == <<next, rail, screen, track, alerted, feed, ghostVars>>

Panes == 1 .. MaxPanes
Open == Range(rail)

-----------------------------------------------------------------------------
Blank == [bell |-> FALSE, prompt |-> FALSE, marker |-> FALSE,
          streaming |-> FALSE, dead |-> FALSE]

(* AgentTrack::new.  `quiet` and `worked` are the ticks since quiet_since   *)
(* and working_since plus one, 0 where those are None; `due` is how many    *)
(* ticks away next_check is.                                                *)
NewTrack == [state |-> "idle", quiet |-> 0, worked |-> 0, saw |-> FALSE,
             seeded |-> FALSE, unread |-> FALSE, backoff |-> 1, due |-> 0]

(* footer_signals reads a dead pane as showing nothing.                     *)
Asks(s) == ~ s.dead /\ (s.bell \/ s.prompt)
Busy(s) == ~ s.dead /\ (s.marker \/ s.streaming)

AtMost(n, bound) == IF n <= bound THEN n ELSE bound

(* The ticks that matter to `ran` below.                                    *)
WorkedCap == Settle + MinTurn + 1

EndRun(t) == [t EXCEPT !.quiet = 0, !.worked = 0, !.saw = FALSE]

-----------------------------------------------------------------------------
(* update_agent_tracking, for one agent that is due.                        *)

ForgetfulRun(t, s) ==
    [t EXCEPT !.state = "working",
              !.worked = IF t.state = "working" THEN AtMost(@ + 1, WorkedCap) ELSE 1,
              !.saw = s.marker \/ (@ /\ t.state = "working")]

(* Busy: a run begins, or goes on.                                          *)
BusyRun(t, s) ==
    [t EXCEPT !.state = "working",
              !.quiet = 0,
              !.worked = IF t.state = "working" THEN AtMost(@ + 1, WorkedCap) ELSE 1,
              !.saw = s.marker \/ (@ /\ t.state = "working")]

(* Quiet after working: the turn is over once the lull has lasted, and was  *)
(* a turn if a marker was seen or it ran long enough.                       *)
QuietRun(t) ==
    LET quiet == t.quiet + 1
        worked == AtMost(t.worked + 1, WorkedCap)
        real == t.saw \/ worked - quiet >= MinTurn
    IN  IF quiet <= Settle
        THEN [t EXCEPT !.quiet = quiet, !.worked = worked]
        ELSE [EndRun(t) EXCEPT !.state = IF real THEN "finished" ELSE "idle"]

HeldWaiting(t, s) ==
    IF s.dead THEN [EndRun(t) EXCEPT !.state = "exited"]
    ELSE IF Asks(s) THEN [EndRun(t) EXCEPT !.state = "waiting"]
    ELSE IF Busy(s) THEN BusyRun(t, s)
    ELSE IF t.state = "working" THEN QuietRun(t)
    ELSE EndRun(t)

Folded(t, s) ==
    IF s.dead THEN [EndRun(t) EXCEPT !.state = "exited"]
    ELSE IF Asks(s) THEN [EndRun(t) EXCEPT !.state = "waiting"]
    ELSE IF Busy(s) THEN BusyRun(t, s)
    ELSE IF t.state = "working" THEN QuietRun(t)
    ELSE [EndRun(t) EXCEPT !.state = IF @ = "waiting" THEN "idle" ELSE @]

YourMove == {"finished", "exited"}

(* The interval doubles while the agent is stable and not working.          *)
Backoff(old, new) ==
    IF old.state = new.state /\ new.state # "working"
    THEN AtMost(2 * old.backoff, CheckMax)
    ELSE 1

(* The first check of an agent is its baseline and marks nothing.           *)
Checked(t, s) ==
    LET new == Folded(t, s)
    IN  [new EXCEPT !.unread = \/ @
                               \/ (t.seeded /\ new.state # t.state /\ new.state \in YourMove),
                    !.seeded = TRUE,
                    !.backoff = Backoff(t, new),
                    !.due = Backoff(t, new)]

EchoesExits(t, s) ==
    LET new == Folded(t, s)
    IN  t.seeded /\ new.state # t.state /\ new.state \in YourMove \cup {"waiting"}

AnnouncesTheBaseline(t, s) ==
    LET new == Folded(t, s)
    IN  ~ s.dead /\ new.state # t.state /\ new.state \in {"waiting", "finished"}

(* Announced on the edge, by a live agent; exits are announced as they      *)
(* happen.                                                                  *)
Announces(t, s) ==
    LET new == Folded(t, s)
    IN  t.seeded /\ ~ s.dead /\ new.state # t.state /\ new.state \in {"waiting", "finished"}

-----------------------------------------------------------------------------
Note(p, kind) == [pane |-> p, kind |-> kind]

(* push_notification, for each of `notes`: the oldest go.                   *)
Pushed(notes) ==
    LET all == feed \o notes
    IN  SubSeq(all, IF Len(all) > History THEN Len(all) - History + 1 ELSE 1, Len(all))

Due(p) == track[p].due <= 1

(* Event::Sys: the agents that are due are checked, in rail order.          *)
Tick ==
    /\ UNCHANGED <<next, rail, screen, alerted, rung>>
    /\ track' = [p \in Panes |->
                    IF p \notin Open THEN track[p]
                    ELSE IF Due(p) THEN Checked(track[p], screen[p])
                    ELSE [track[p] EXCEPT !.due = @ - 1]]
    /\ LET news == {p \in Open : Due(p) /\ Announces(track[p], screen[p])}
       IN  \E told \in [1 .. Cardinality(news) -> news] :
               /\ \A i, j \in DOMAIN told : i < j =>
                      \E m, n \in DOMAIN rail : m < n /\ rail[m] = told[i] /\ rail[n] = told[j]
               /\ feed' = Pushed([i \in DOMAIN told |-> Note(told[i], track'[told[i]].state)])
    /\ lull' = [p \in Panes |-> IF p \notin Open \/ Busy(screen[p]) THEN 0
                                ELSE AtMost(lull[p] + 1, Settle + 1)]

-----------------------------------------------------------------------------
(* The pane itself.                                                         *)

(* spawn_agent: the track comes with the pane.                              *)
Spawn ==
    /\ next < MaxPanes
    /\ Len(rail) < MaxRail
    /\ next' = next + 1
    /\ rail' = Append(rail, next')
    /\ UNCHANGED <<screen, track, alerted, feed, ghostVars>>

UntouchedOutput(p) ==
    /\ p \in Open
    /\ \E s \in [bell : BOOLEAN, prompt : BOOLEAN, marker : BOOLEAN,
                 streaming : BOOLEAN, dead : {screen[p].dead}] :
           /\ screen[p].bell => s.bell
           /\ screen' = [screen EXCEPT ![p] = s]
           /\ alerted' = IF Asks(s) THEN alerted \cup {p} ELSE alerted \ {p}
           /\ rung' = [rung EXCEPT ![p] =
                          Asks(s) /\ (p \notin alerted \/ (Asks(screen[p]) /\ @))]
    /\ UNCHANGED <<next, rail, track, feed, lull>>

(* on_pty_output: the screen changes in any way, a corpse's too (its exit   *)
(* overtakes its last output); check_agent_bell rings if the pane was not   *)
(* alerted; touch_agent makes it due.                                       *)
Output(p) ==
    /\ p \in Open
    /\ \E s \in [bell : BOOLEAN, prompt : BOOLEAN, marker : BOOLEAN,
                 streaming : BOOLEAN, dead : {screen[p].dead}] :
           /\ screen[p].bell => s.bell
           /\ screen' = [screen EXCEPT ![p] = s]
           /\ alerted' = IF Asks(s) THEN alerted \cup {p} ELSE alerted \ {p}
           /\ rung' = [rung EXCEPT ![p] =
                          Asks(s) /\ (p \notin alerted \/ (Asks(screen[p]) /\ @))]
    /\ track' = [track EXCEPT ![p].backoff = 1, ![p].due = 0]
    /\ UNCHANGED <<next, rail, feed, lull>>

(* sustained_output runs out by itself.                                     *)
Lull(p) ==
    /\ p \in Open
    /\ screen[p].streaming
    /\ screen' = [screen EXCEPT ![p].streaming = FALSE]
    /\ UNCHANGED <<next, rail, track, alerted, feed, ghostVars>>

(* look_at_pane: staged, watched, streamed, typed into, or acknowledged.    *)
Look(p) ==
    /\ p \in Open
    /\ screen' = [screen EXCEPT ![p].bell = FALSE]
    /\ track' = [track EXCEPT ![p].unread = FALSE]
    /\ UNCHANGED <<next, rail, alerted, feed, ghostVars>>

Forget(p) ==
    /\ screen' = [screen EXCEPT ![p] = Blank]
    /\ track' = [track EXCEPT ![p] = NewTrack]

(* on_pane_exited with status 0, and DELETE of the pane (drop_pane).        *)
Drop(p) ==
    /\ \E i \in DOMAIN rail : rail[i] = p /\ rail' = RemoveAt(rail, i)
    /\ Forget(p)
    /\ UNCHANGED <<next, alerted, feed, ghostVars>>

(* retry_failed_resume: a fresh agent in its place, and nothing is said.    *)
Replaced(p) ==
    /\ p \in Open
    /\ ~ screen[p].dead
    /\ next < MaxPanes
    /\ next' = next + 1
    /\ rail' = [i \in DOMAIN rail |-> IF rail[i] = p THEN next' ELSE rail[i]]
    /\ Forget(p)
    /\ UNCHANGED <<alerted, feed, ghostVars>>

(* on_pane_exited with a failure: the row stays, and is announced at once.  *)
Fail(p) ==
    /\ p \in Open
    /\ ~ screen[p].dead
    /\ screen' = [screen EXCEPT ![p].dead = TRUE]
    /\ feed' = IF track[p].seeded THEN Pushed(<<Note(p, "exited")>>) ELSE feed
    /\ UNCHANGED <<next, rail, track, alerted, ghostVars>>

-----------------------------------------------------------------------------
Init ==
    /\ next = 0
    /\ rail = <<>>
    /\ screen = [p \in Panes |-> Blank]
    /\ track = [p \in Panes |-> NewTrack]
    /\ alerted = {}
    /\ feed = <<>>
    /\ lull = [p \in Panes |-> 0]
    /\ rung = [p \in Panes |-> FALSE]

PaneStep(p) == Output(p) \/ Lull(p) \/ Look(p) \/ Drop(p) \/ Replaced(p) \/ Fail(p)

Next == Tick \/ Spawn \/ \E p \in Panes : PaneStep(p)

Spec == Init /\ [][Next]_vars

(* The sampler ticks.                                                       *)
FairSpec == Spec /\ WF_vars(Tick)

-----------------------------------------------------------------------------
States == {"idle", "working", "waiting", "finished", "exited"}

ScreenType == [bell : BOOLEAN, prompt : BOOLEAN, marker : BOOLEAN,
               streaming : BOOLEAN, dead : BOOLEAN]
TrackType == [state : States, quiet : 0 .. Settle, worked : 0 .. WorkedCap,
              saw : BOOLEAN, seeded : BOOLEAN, unread : BOOLEAN,
              backoff : 1 .. CheckMax, due : 0 .. CheckMax]
NoteType == [pane : Panes, kind : {"waiting", "finished", "exited"}]

(* The settle time and the backoff stay within their bounds, and the feed   *)
(* names only states that are announced.                                    *)
TypeOK ==
    /\ next \in 0 .. MaxPanes
    /\ rail \in Seq(Panes)
    /\ screen \in [Panes -> ScreenType]
    /\ track \in [Panes -> TrackType]
    /\ alerted \in SUBSET Panes
    /\ feed \in Seq(NoteType)
    /\ Len(feed) <= History
    /\ lull \in [Panes -> 0 .. Settle + 1]
    /\ rung \in [Panes -> BOOLEAN]

(* An exit is the last thing the feed says of a pane, and it says it once:  *)
(* a bell or a turn that ended just before is not announced after it        *)
(* (update_agent_tracking: "Exits are handled in on_pane_exited").          *)
ExitIsLast ==
    \A i, j \in DOMAIN feed :
        i < j /\ feed[i].kind = "exited" => feed[j].pane # feed[i].pane

(* However long an agent has been left alone, one that asks is shown as     *)
(* waiting by the next tick (touch_agent: "checked promptly instead of on   *)
(* its long stable interval").                                              *)
AskedIsShown ==
    [][Tick => \A p \in Open : Asks(screen[p]) => track'[p].state = "waiting"]_vars

(* A turn has finished only when the agent has not been busy at any tick of *)
(* the settle time: "a single turn never reads as multiple finishes".       *)
FinishIsSettled ==
    [][\A p \in Panes :
          track[p].state # "finished" /\ track'[p].state = "finished" => lull'[p] > Settle]_vars

(* A corpse is shown as one, however rarely it was being checked: it stays  *)
(* dead, so it is enough that none is there unshown for good.               *)
ExitIsShown ==
    \A p \in Panes :
        []<>(p \in Open /\ screen[p].dead => track[p].state = "exited")

(* An agent that stops asking stops being shown as waiting: the comment in  *)
(* update_agent_tracking tells of one that "stayed needs you".              *)
QuestionIsWithdrawn ==
    \A p \in Panes :
        <>[](p \in Open /\ ~ Asks(screen[p])) => <>[](track[p].state # "waiting")

(* What a pane shows for good is what is said of it in the end.             *)
ScreenIsFollowed == ExitIsShown /\ QuestionIsWithdrawn

(* The daemon keeps what it promises to those who follow its agents: every  *)
(* edge that wants the user is announced once, at the check that shows it,  *)
(* and nothing else is.                                                     *)
Promise == INSTANCE AgentFeed WITH
    Agents <- Panes, Keep <- History,
    used <- 1 .. next, here <- Open,
    shown <- [p \in Panes |-> track[p].state],
    known <- {p \in Panes : track[p].seeded},
    dead <- {p \in Panes : screen[p].dead},
    told <- feed
EdgesAreAnnounced == Promise!FeedSpec

(* "Never true while the agent is working or idle" (AgentDto::unread).      *)
UnreadIsYourMove == \A p \in Open : track[p].unread => track[p].state \in YourMove

(* Whatever a pane asks, the bell has been rung for: "each transition rings *)
(* once" (docs/architecture.md).                                            *)
RungForEach == \A p \in Open : Asks(screen[p]) => rung[p]
=============================================================================

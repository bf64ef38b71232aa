----------------------------- MODULE AgentWait ------------------------------
(***************************************************************************)
(* butai agent send --wait (crates/butai/src/cli/agent.rs): a prompt is    *)
(* typed into an agent, and the command blocks until the agent has worked  *)
(* it off.  It asks the daemon one request at a time: the feed's head, the *)
(* two inputs, and then, over and over, the states of the agents and, when *)
(* a state alone does not say that it is new, the feed since that head.    *)
(* The daemon, AgentFeed, moves between any two of them.                   *)
(***************************************************************************)
EXTENDS AgentFeed

CONSTANTS
    Mine,       \* the agent that is prompted
    Until       \* the states that end the wait

ASSUME WaitAssumption == Mine \in Agents /\ Until \subseteq Shown /\ Keep \in Nat \ {0}

VARIABLES
    step,       \* what the command does next
    since,      \* announcements made after the head was read, up to Keep
    fresh,      \* seq is None: the agent is known to have moved
    first,      \* first_state
    got,        \* the state the last poll read
    answer,     \* the outcome
    prompted,   \* announcements made after the prompt, up to Keep
    moved,      \* the agent has moved since the head was read
    wasNew      \* it had when the last poll read its state

ghosts == <<prompted, moved, wasNew>>
waitVars == <<step, since, fresh, first, got, answer, ghosts>>
vars2 == <<feedVars, waitVars>>

None == "none"
CapAt(n) == IF n < Keep THEN n ELSE Keep

WaitInit ==
    /\ FeedInit
    /\ step = "head" /\ since = 0 /\ fresh = FALSE /\ first = None /\ got = None
    /\ answer = None /\ prompted = 0 /\ moved = FALSE /\ wasNew = FALSE

-----------------------------------------------------------------------------
(* The daemon announces, past the head and past the prompt if they are      *)
(* behind it.                                                               *)
Heard(notes) ==
    /\ Tell(notes)
    /\ since' = IF step = "head" THEN 0 ELSE CapAt(since + Len(notes))
    /\ prompted' = IF step \in {"head", "send"} THEN 0 ELSE CapAt(prompted + Len(notes))
    /\ moved' = \/ moved
                \/ step # "head" /\ \/ shown'[Mine] # shown[Mine]
                                    \/ \E i \in DOMAIN notes : notes[i].pane = Mine

Daemon == FeedStep(Heard) /\ UNCHANGED <<step, fresh, first, got, answer, wasNew>>

Ends(with) == step' = "done" /\ answer' = with

(* notification_head.                                                       *)
ReadHead ==
    /\ step = "head" /\ Mine \in here
    /\ step' = "send"
    /\ UNCHANGED <<feedVars, since, fresh, first, got, answer, ghosts>>

(* deliver: a pane that is gone takes no input.                             *)
Deliver ==
    /\ step = "send"
    /\ IF Mine \in here THEN step' = "poll" /\ UNCHANGED answer ELSE Ends("no such pane")
    /\ UNCHANGED <<feedVars, since, fresh, first, got, ghosts>>

(* A poll that settles nothing: the deadline may have passed.               *)
Again(isFresh) ==
    /\ fresh' = isFresh
    /\ (step' = "poll" /\ UNCHANGED answer) \/ Ends("timed out")

Judged(state, isFresh) ==
    IF isFresh /\ state \in Until THEN Ends(state) /\ UNCHANGED fresh ELSE Again(isFresh)

(* Plausible bug: the head is read when the wait begins.                    *)
PollLateHead ==
    /\ step = "poll"
    /\ since' = IF first = None THEN 0 ELSE since
    /\ IF Mine \in here
       THEN /\ got' = shown[Mine] /\ wasNew' = moved
            /\ first' = IF first = None THEN got' ELSE first
            /\ IF fresh \/ got' # first' THEN Judged(got', TRUE)
               ELSE step' = "feed" /\ UNCHANGED <<fresh, answer>>
       ELSE Ends("gone") /\ UNCHANGED <<fresh, first, got, wasNew>>
    /\ UNCHANGED <<feedVars, prompted, moved>>

(* wait_for, the first request of a poll.                                   *)
PollState ==
    /\ step = "poll"
    /\ IF Mine \in here
       THEN /\ got' = shown[Mine] /\ wasNew' = moved
            /\ first' = IF first = None THEN got' ELSE first
            /\ IF fresh \/ got' # first' THEN Judged(got', TRUE)
               ELSE step' = "feed" /\ UNCHANGED <<fresh, answer>>
       ELSE Ends("gone") /\ UNCHANGED <<fresh, first, got, wasNew>>
    /\ UNCHANGED <<feedVars, since, prompted, moved>>

AboutMine(notes) == \E i \in DOMAIN notes : notes[i].pane = Mine

(* Plausible bug: whatever the feed still holds counts as news.             *)
PollWholeFeed ==
    /\ step = "feed"
    /\ Judged(got, AboutMine(told))
    /\ UNCHANGED <<feedVars, since, first, got, ghosts>>

(* notified_since, the second: the first is judged by it.                   *)
PollFeed ==
    /\ step = "feed"
    /\ Judged(got, AboutMine(Latest(told, since)))
    /\ UNCHANGED <<feedVars, since, first, got, ghosts>>

-----------------------------------------------------------------------------
Command == ReadHead \/ Deliver \/ PollState \/ PollFeed
WaitNext == Daemon \/ Command
WaitSpec == WaitInit /\ [][WaitNext]_vars2

(* The daemon answers what it is asked, and the command asks on.            *)
WaitFairSpec == WaitSpec /\ WF_vars2(Command)

-----------------------------------------------------------------------------
(* cli.md: a state "counts only once the daemon has emitted a notification  *)
(* for this pane past sequence N, or the state has changed since the first  *)
(* poll": the previous turn's end does not answer for this one.             *)
AnswerIsNew == answer \in Shown => moved

(* The news of a turn that began after the prompt is not missed, wherever   *)
(* between two requests they come, for as long as the feed keeps them.      *)
Answered == AboutMine(Latest(told, prompted)) /\ Mine \in here /\ shown[Mine] \in Until
TurnIsNotMissed == []<>(Answered => step = "done")

(* agent.rs: "only accept a state reached after this notification           *)
(* sequence".  The state is read before the feed that vouches for it.       *)
AnswerIsAfter == answer \in Shown => wasNew

(* cli.md: a wait that timed out means that "the target is still running".  *)
(* A program that had failed before the prompt moves no more.               *)
TimedOutIsRunning == answer = "timed out" => got # "exited"
=============================================================================

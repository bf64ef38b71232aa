---------------------------- MODULE MCAgentTrack ----------------------------
(* A behaviour is one of the tracker, or one of a command that waits on     *)
(* what the tracker promises.                                               *)
EXTENDS AgentTrack, AgentWait

VARIABLE part

Tracked == part = "track" /\ UNCHANGED <<part, vars2>>
Waited == part = "wait" /\ UNCHANGED <<part, vars>>

MCInit == part \in {"track", "wait"} /\ Init /\ WaitInit

(* Once the command has ended nobody follows the daemon.                    *)
MCNext ==
    \/ Tracked /\ Next
    \/ Waited /\ step # "done" /\ WaitNext
    \/ step = "done" /\ UNCHANGED <<part, vars, vars2>>

MCVars == <<part, vars, vars2>>
MCSpec ==
    /\ MCInit /\ [][MCNext]_MCVars
    /\ WF_MCVars(Tracked /\ Tick) /\ WF_MCVars(Waited /\ Command)
=============================================================================

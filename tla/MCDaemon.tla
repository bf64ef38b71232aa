------------------------------ MODULE MCDaemon ------------------------------
(* The rails of one daemon, and the daemons that come and go on a socket,   *)
(* share no state: a behaviour is one of the two.                           *)
EXTENDS GitRail, Lifecycle, TLC

CONSTANTS w1, w2, r1, p1, p2, p3, c1, c2

OneRepo == [w \in Ws |-> r1]

VARIABLE part

(* Three processes and one client that does anything, or two processes,     *)
(* none of which updates itself, and two clients that attach.               *)
Alone == at[c2] = "out"
InTwos ==
    /\ phase[p3] = "free" /\ \A p \in Procs : ~ updating[p]
    /\ \A c \in Clients : wants[c] = "attach"

Railed == part = "rails" /\ Next /\ UNCHANGED lifeVars
Lived ==
    /\ part # "rails" /\ LifeNext /\ UNCHANGED vars
    /\ IF part = "daemons" THEN Alone' ELSE InTwos'

MCVars == <<part, vars, lifeVars>>
MCInit == part \in {"rails", "daemons", "clients"} /\ Init /\ LifeInit
MCNext == (Railed \/ Lived) /\ UNCHANGED part

(* The fairness of GitRail!FairSpec, where there are rails.                 *)
MCSpec ==
    /\ MCInit /\ [][MCNext]_MCVars
    /\ ScanFairness /\ TickFairness
=============================================================================

----------------------------- MODULE Lifecycle ------------------------------
(***************************************************************************)
(* How daemons come and go on one socket: run and serve                    *)
(* (crates/butai-server/src/daemon.rs), the update of a daemon by itself   *)
(* (core.rs, Update and UpdateReady; crates/butai-update), and the clients *)
(* that start and stop one (crates/butai-client/src/conn.rs, update.rs).   *)
(*                                                                         *)
(* A daemon holds the lock file exclusively, a client that probes it       *)
(* shares it for a moment; the socket's path names the listener bound last *)
(* unless it has been removed.                                             *)
(***************************************************************************)
EXTENDS Naturals, FiniteSets

CONSTANTS
    Procs,          \* processes there is room for
    Clients,
    None,
    MaxStops        \* bound: daemons stopped, killed or made deaf from outside

ASSUME LifecycleAssumption == None \notin Procs /\ MaxStops \in Nat

Builds == {"old", "new"}

VARIABLES
    phase,      \* how far each daemon is in run
    build,      \* the binary it runs
    updating,   \* Core::updating
    staged,     \* restart_into
    deaf,       \* the daemons whose accept loop has broken off
    path,       \* whose listener the socket's file is
    installed,  \* the binary at the install path
    at,         \* where a client is
    wants,      \* "attach", "restart" (the daemon) or "update" (both)
    runs,       \* the build the client is
    due,        \* clients that have yet to ask for the stop they came for
    shared,     \* clients that hold the lock file shared
    calm,       \* since the client began nothing has ended, no daemon was deaf,
                \* and no client was about whose binary is replaced
    stops       \* how often: bound

daemonSide == <<phase, build, updating, staged, deaf, path, installed>>
clientSide == <<at, wants, runs, due, shared, calm>>
lifeVars == <<daemonSide, clientSide, stops>>

(* "free": no process.  From "locked" to "unlinked" it holds the lock, from *)
(* "serving" to "closing" it accepts, unless it is deaf.                    *)
Phases == {"free", "starting", "locked", "serving", "closing", "closed", "unlinked",
           "unlocked", "swapped"}
Steps == {"out", "stopping", "waiting", "swapping", "trying", "spawning", "probing",
          "launching", "retrying", "in", "failed"}
Busy == Steps \ {"out", "in", "failed"}

(* Plausible bug: the lock is let go before the socket is removed.          *)
HoldsTooShort(p) == phase[p] \in {"locked", "serving", "closing"}
Holds(p) == phase[p] \in {"locked", "serving", "closing", "closed", "unlinked"}
Accepts(p) == phase[p] \in {"serving", "closing"} /\ p \notin deaf
Reachable == path # None /\ Accepts(path)
Ending(p) == phase[p] \in {"closing", "closed", "unlinked", "unlocked", "swapped"}
Deaf(p) == phase[p] = "serving" /\ p \in deaf

LifeInit ==
    /\ phase = [p \in Procs |-> "free"] /\ build = [p \in Procs |-> "old"]
    /\ updating = [p \in Procs |-> FALSE] /\ staged = [p \in Procs |-> FALSE]
    /\ deaf = {} /\ path = None /\ installed = "old"
    /\ at = [c \in Clients |-> "out"] /\ wants = [c \in Clients |-> "attach"]
    /\ runs = [c \in Clients |-> "old"] /\ due = {} /\ shared = {}
    /\ calm = [c \in Clients |-> TRUE] /\ stops = 0

-----------------------------------------------------------------------------
Goes(p, to) == phase' = [phase EXCEPT ![p] = to]

(* A process that is over, or becomes another binary, takes its state along.*)
Starts(p, with) ==
    /\ build' = [build EXCEPT ![p] = with]
    /\ updating' = [updating EXCEPT ![p] = FALSE]
    /\ staged' = [staged EXCEPT ![p] = FALSE]
    /\ deaf' = deaf \ {p}
Ends(p) == Goes(p, "free") /\ Starts(p, "old")

NotCalm == calm' = [c \in Clients |-> FALSE]

(* run: without the lock it ends, "another butai daemon is already          *)
(* running".                                                                *)
Lock(p) ==
    /\ phase[p] = "starting"
    /\ IF shared = {} /\ \A q \in Procs : ~ Holds(q)
       THEN Goes(p, "locked") /\ UNCHANGED <<build, updating, staged, deaf>>
       ELSE Ends(p)
    /\ UNCHANGED <<path, installed, clientSide, stops>>

(* What file there is is stale, and replaced.                               *)
Bind(p) ==
    /\ phase[p] = "locked" /\ Goes(p, "serving") /\ path' = p
    /\ UNCHANGED <<build, updating, staged, deaf, installed, clientSide, stops>>

(* POST /v1/update is taken once, the download runs off the loop, and ends  *)
(* in nothing or in a binary to restart into.                               *)
Update(p) ==
    /\ phase[p] = "serving" /\ ~ updating[p]
    /\ updating' = [updating EXCEPT ![p] = TRUE]
    /\ UNCHANGED <<phase, build, staged, deaf, path, installed, clientSide, stops>>

UpdateReady(p) ==
    /\ phase[p] = "serving" /\ updating[p]
    /\ updating' = [updating EXCEPT ![p] = FALSE]
    /\ IF build[p] = "old"
       THEN \/ /\ staged' = [staged EXCEPT ![p] = TRUE] /\ Goes(p, "closing") /\ NotCalm
            \/ UNCHANGED <<staged, phase, calm>>
       ELSE UNCHANGED <<staged, phase, calm>>
    /\ UNCHANGED <<build, deaf, path, installed, at, wants, runs, due, shared, stops>>

(* kill-server, a signal, the end of the last workspace.                    *)
Stop(p) ==
    /\ phase[p] = "serving" /\ stops < MaxStops
    /\ Goes(p, "closing") /\ NotCalm /\ stops' = stops + 1
    /\ UNCHANGED <<build, updating, staged, deaf, path, installed, at, wants, runs, due, shared>>

(* accept fails: the loop breaks off, and the listener goes with it.  The   *)
(* daemon lives on.                                                         *)
AcceptFails(p) ==
    /\ Accepts(p) /\ stops < MaxStops
    /\ deaf' = deaf \union {p} /\ NotCalm /\ stops' = stops + 1
    /\ UNCHANGED <<phase, build, updating, staged, path, installed, at, wants, runs, due, shared>>

(* The core has ended, and the accept loop after it.                        *)
Close(p) ==
    /\ phase[p] = "closing" /\ Goes(p, "closed")
    /\ UNCHANGED <<build, updating, staged, deaf, path, installed, clientSide, stops>>

Unlink(p) ==
    /\ phase[p] = "closed" /\ Goes(p, "unlinked") /\ path' = None
    /\ UNCHANGED <<build, updating, staged, deaf, installed, clientSide, stops>>

Unlock(p) ==
    /\ phase[p] = "unlinked"
    /\ IF staged[p] THEN Goes(p, "unlocked") /\ UNCHANGED <<build, updating, staged, deaf>>
       ELSE Ends(p)
    /\ UNCHANGED <<path, installed, clientSide, stops>>

(* swap, and restart: the process becomes the installed binary.             *)
Swap(p) ==
    /\ phase[p] = "unlocked" /\ Goes(p, "swapped") /\ installed' = "new" /\ NotCalm
    /\ UNCHANGED <<build, updating, staged, deaf, path, at, wants, runs, due, shared, stops>>

Restart(p) ==
    /\ phase[p] = "swapped" /\ Goes(p, "starting") /\ Starts(p, installed)
    /\ UNCHANGED <<path, installed, clientSide, stops>>

(* A daemon is killed: the lock goes with it, the file stays.               *)
Killed(p) ==
    /\ phase[p] # "free" /\ stops < MaxStops
    /\ Ends(p) /\ NotCalm /\ stops' = stops + 1
    /\ UNCHANGED <<path, installed, at, wants, runs, due, shared>>

-----------------------------------------------------------------------------
Moves(c, to) == at' = [at EXCEPT ![c] = to]

(* A client is started, from what is installed, or is still there with a    *)
(* binary that was replaced.                                                *)
Begin(c) ==
    /\ at[c] \in {"out", "in", "failed"}
    /\ \E what \in {"attach", "restart", "update"}, r \in {runs[c], installed} :
        /\ what = "update" => r = "old"
        /\ wants' = [wants EXCEPT ![c] = what] /\ runs' = [runs EXCEPT ![c] = r]
        /\ Moves(c, IF what = "attach" THEN "trying" ELSE "stopping")
    /\ due' = due \ {c}
    /\ calm' = [d \in Clients |->
            /\ d = c \/ calm[d]
            /\ \A e \in Clients : at'[e] \in Busy => runs'[e] = installed
            /\ \A p \in Procs : ~ Ending(p) /\ ~ Deaf(p)]
    /\ UNCHANGED <<daemonSide, shared, stops>>

Leave(c) == at[c] = "in" /\ Moves(c, "out")
            /\ UNCHANGED <<daemonSide, wants, runs, due, shared, calm, stops>>

Quiet(c) == IF wants[c] = "update" THEN "swapping" ELSE "trying"

(* stop_daemon: is anyone there?  If so it is asked to stop, by a           *)
(* control_request, which connects like any client.                         *)
LookForOne(c) ==
    /\ at[c] = "stopping"
    /\ IF Reachable THEN Moves(c, "trying") /\ due' = due \union {c}
       ELSE Moves(c, Quiet(c)) /\ UNCHANGED due
    /\ UNCHANGED <<daemonSide, wants, runs, shared, calm, stops>>

(* kill-server: acknowledged before anything has ended, or, by a daemon     *)
(* that is ending already, not at all.                                      *)
AskStop(c) ==
    /\ Moves(c, "waiting") \/ (phase[path] = "closing" /\ Moves(c, "out"))
    /\ Goes(path, "closing")
    /\ due' = due \ {c}
    /\ calm' = [d \in Clients |-> calm[d] /\ d = c]

Arrive(c) ==
    /\ Reachable
    /\ IF c \in due THEN AskStop(c)
       ELSE Moves(c, "in") /\ UNCHANGED <<phase, due, calm>>

(* Then it waits for the socket to go quiet, or gives up on it.             *)
Wait(c) ==
    /\ at[c] = "waiting" /\ Moves(c, IF Reachable THEN "out" ELSE Quiet(c))
    /\ UNCHANGED <<daemonSide, wants, runs, due, shared, calm, stops>>

(* apply, and restart of the client.                                        *)
SwapAndRestart(c) ==
    /\ at[c] = "swapping" /\ Moves(c, "trying")
    /\ installed' = "new" /\ runs' = [runs EXCEPT ![c] = "new"]
    /\ calm' = [d \in Clients |-> calm[d] /\ d = c /\ \A e \in Clients \ {c} : at[e] \notin Busy]
    /\ UNCHANGED <<phase, build, updating, staged, deaf, path, wants, due, shared, stops>>

(* connect_or_spawn.                                                        *)
Try(c) ==
    /\ at[c] = "trying"
    /\ IF Reachable THEN Arrive(c) ELSE Moves(c, "spawning") /\ UNCHANGED <<phase, due, calm>>
    /\ UNCHANGED <<build, updating, staged, deaf, path, installed, wants, runs, shared, stops>>

(* spawn_daemon_at: a daemon that holds the lock needs no other; else the   *)
(* lock is given back, and a daemon started.                                *)
ProbeLock(c) ==
    /\ at[c] = "spawning"
    /\ IF \E p \in Procs : Holds(p) THEN Moves(c, "retrying") /\ UNCHANGED shared
       ELSE Moves(c, "probing") /\ shared' = shared \union {c}
    /\ UNCHANGED <<daemonSide, wants, runs, due, calm, stops>>

(* Plausible bug: the probe is still held while the daemon starts.          *)
ReleaseLate(c) ==
    /\ at[c] = "probing" /\ Moves(c, "launching")
    /\ UNCHANGED <<daemonSide, wants, runs, due, shared, calm, stops>>

Release(c) ==
    /\ at[c] = "probing" /\ Moves(c, "launching") /\ shared' = shared \ {c}
    /\ UNCHANGED <<daemonSide, wants, runs, due, calm, stops>>

(* current_exe of a client whose binary was replaced names no file.         *)
Launch(c) ==
    /\ at[c] = "launching"
    /\ IF runs[c] = installed
       THEN \E p \in Procs :
            /\ phase[p] = "free" /\ Goes(p, "starting")
            /\ build' = [build EXCEPT ![p] = installed] /\ Moves(c, "retrying")
       ELSE Moves(c, "failed") /\ UNCHANGED <<phase, build>>
    /\ UNCHANGED <<updating, staged, deaf, path, installed, wants, runs, due, shared, calm, stops>>

(* The probe's file is closed on the way out of spawn_daemon_at.            *)
Retry(c) ==
    /\ at[c] = "retrying" /\ Arrive(c) /\ shared' = shared \ {c}
    /\ UNCHANGED <<build, updating, staged, deaf, path, installed, wants, runs, stops>>

(* The forty tries are over: they outlast what any process or any other     *)
(* client is in the middle of.                                              *)
GiveUp(c) ==
    /\ at[c] = "retrying" /\ \A p \in Procs : phase[p] = "free" \/ Deaf(p)
    /\ \A d \in Clients : at[d] \notin {"spawning", "probing", "launching"}
    /\ Moves(c, "failed") /\ shared' = shared \ {c}
    /\ UNCHANGED <<daemonSide, wants, runs, due, calm, stops>>

DaemonNext(p) ==
    \/ Lock(p) \/ Bind(p) \/ Update(p) \/ UpdateReady(p) \/ Stop(p) \/ AcceptFails(p)
    \/ Close(p) \/ Unlink(p) \/ Unlock(p) \/ Swap(p) \/ Restart(p) \/ Killed(p)

ClientNext(c) ==
    \/ Begin(c) \/ Leave(c) \/ LookForOne(c) \/ Wait(c) \/ SwapAndRestart(c) \/ Try(c)
    \/ ProbeLock(c) \/ Release(c) \/ Launch(c) \/ Retry(c) \/ GiveUp(c)

LifeNext == (\E p \in Procs : DaemonNext(p)) \/ (\E c \in Clients : ClientNext(c))

LifeSpec == LifeInit /\ [][LifeNext]_lifeVars

-----------------------------------------------------------------------------
(* Only a daemon that has a binary to restart into goes past its lock, and  *)
(* none is deaf before it listens.                                          *)
LifeTypeOK ==
    /\ phase \in [Procs -> Phases] /\ build \in [Procs -> Builds]
    /\ updating \in [Procs -> BOOLEAN] /\ staged \in [Procs -> BOOLEAN]
    /\ deaf \subseteq Procs /\ path \in Procs \union {None} /\ installed \in Builds
    /\ at \in [Clients -> Steps] /\ wants \in [Clients -> {"attach", "restart", "update"}]
    /\ runs \in [Clients -> Builds] /\ due \subseteq Clients /\ shared \subseteq Clients
    /\ calm \in [Clients -> BOOLEAN] /\ stops \in 0 .. MaxStops
    /\ \A p \in Procs : phase[p] \in {"unlocked", "swapped"} => staged[p]
    /\ \A p \in deaf : phase[p] \notin {"free", "starting", "locked"}

(* The socket's path leads to the daemon that serves: one that ends does    *)
(* not take the next one's socket with it.                                  *)
PathIsServed == \A p \in Procs : phase[p] = "serving" => path = p

(* However many clients start a daemon at a time, and whoever of them       *)
(* spoils another's lock, each gets in if meanwhile nothing ends and no     *)
(* daemon is deaf: one that is keeps the lock and lets nobody in.           *)
QuietGetsIn == \A c \in Clients : ~ (at[c] = "failed" /\ wants[c] = "attach" /\ calm[c])

(* restart_daemon_here: once the old daemon is gone, connect_or_spawn       *)
(* starts its replacement.                                                  *)
RestartWorks == \A c \in Clients : ~ (at[c] = "failed" /\ wants[c] = "restart" /\ calm[c])
=============================================================================

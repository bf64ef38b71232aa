--------------------------- MODULE LifecycleProofs ---------------------------
(***************************************************************************)
(* What Lifecycle promises for any number of processes, clients and stops: *)
(* the socket's path leads to the daemon that serves, and a client that    *)
(* only wants to attach gets in while nothing ends and none is deaf.       *)
(***************************************************************************)
EXTENDS Lifecycle, TLAPS

(* A client that reaches the daemon attaches to it, or asks it to stop.     *)
LEMMA ArriveTyped ==
    ASSUME LifeTypeOK, NEW c \in Clients, Arrive(c)
    PROVE  /\ path \in Procs /\ phase[path] \in {"serving", "closing"}
           /\ phase' \in [Procs -> Phases]
           /\ \A p \in Procs : phase'[p] # phase[p] =>
                 phase[p] = "serving" /\ phase'[p] = "closing"
           /\ at' \in [Clients -> Steps] /\ due' \subseteq Clients
           /\ calm' \in [Clients -> BOOLEAN]
<1> USE DEF LifeTypeOK, Phases, Steps, Arrive
<1>1. path \in Procs /\ phase[path] \in {"serving", "closing"}
    BY DEF Reachable, Accepts
<1>2. CASE c \in due
    <2>1. AskStop(c)
        BY <1>2
    <2>2. /\ phase' = [phase EXCEPT ![path] = "closing"] /\ due' = due \ {c}
          /\ calm' = [d \in Clients |-> calm[d] /\ d = c]
          /\ at' \in {[at EXCEPT ![c] = "waiting"], [at EXCEPT ![c] = "out"]}
        BY <2>1 DEF AskStop, Goes, Moves
    <2>3. calm' \in [Clients -> BOOLEAN]
        BY <2>2, Zenon
    <2> QED
        BY <1>1, <2>2, <2>3
<1>3. CASE c \notin due
    BY <1>1, <1>3 DEF Moves
<1> QED
    BY <1>1, <1>2, <1>3

(* A step of a daemon or of a client keeps the state well typed.            *)
LEMMA TypeStep == LifeTypeOK /\ [LifeNext]_lifeVars => LifeTypeOK'
<1> SUFFICES ASSUME LifeTypeOK, [LifeNext]_lifeVars PROVE LifeTypeOK'
    OBVIOUS
<1> USE LifecycleAssumption DEF LifeTypeOK, Phases, Builds, Steps
<1>1. ASSUME NEW p \in Procs, DaemonNext(p) PROVE LifeTypeOK'
    <2>1. CASE Lock(p)
        <3>1. CASE Ends(p)
            BY <2>1, <3>1 DEF Lock, Goes, Ends, Starts, clientSide
        <3>2. CASE Goes(p, "locked") /\ UNCHANGED <<build, updating, staged, deaf>>
            BY <2>1, <3>2 DEF Lock, Goes, clientSide
        <3> QED
            BY <2>1, <3>1, <3>2 DEF Lock
    <2>2. CASE Bind(p)
        BY <2>2 DEF Bind, Goes, clientSide
    <2>3. CASE Update(p)
        BY <2>3 DEF Update, clientSide
    <2>4. CASE UpdateReady(p)
        <3> USE <2>4 DEF UpdateReady
        <3>1. CASE UNCHANGED <<staged, phase, calm>>
            BY <3>1
        <3>2. CASE /\ staged' = [staged EXCEPT ![p] = TRUE]
                   /\ phase' = [phase EXCEPT ![p] = "closing"]
                   /\ calm' = [c \in Clients |-> FALSE]
            BY <3>2
        <3> QED
            BY <3>1, <3>2 DEF Goes, NotCalm
    <2>5. CASE Stop(p)
        BY <2>5 DEF Stop, Goes, NotCalm
    <2>6. CASE Close(p)
        BY <2>6 DEF Close, Goes, clientSide
    <2>7. CASE Unlink(p)
        BY <2>7 DEF Unlink, Goes, clientSide
    <2>8. CASE Unlock(p)
        <3>1. CASE Ends(p)
            BY <2>8, <3>1 DEF Unlock, Goes, Ends, Starts, clientSide
        <3>2. CASE staged[p] /\ Goes(p, "unlocked") /\ UNCHANGED <<build, updating, staged, deaf>>
            BY <2>8, <3>2 DEF Unlock, Goes, clientSide
        <3> QED
            BY <2>8, <3>1, <3>2 DEF Unlock
    <2>9. CASE Swap(p)
        BY <2>9 DEF Swap, Goes, NotCalm
    <2>10. CASE Restart(p)
        BY <2>10 DEF Restart, Goes, Starts, clientSide
    <2>11. CASE Killed(p)
        BY <2>11 DEF Killed, Goes, Ends, Starts, NotCalm
    <2>12. CASE AcceptFails(p)
        BY <2>12 DEF AcceptFails, Accepts, NotCalm
    <2> QED
        BY <1>1, <2>1, <2>2, <2>3, <2>4, <2>5, <2>6, <2>7, <2>8, <2>9, <2>10, <2>11, <2>12
        DEF DaemonNext
<1>2. ASSUME NEW c \in Clients, ClientNext(c) PROVE LifeTypeOK'
    <2>1. CASE Begin(c)
        BY <2>1 DEF Begin, Moves, daemonSide
    <2>2. CASE Leave(c)
        BY <2>2 DEF Leave, Moves, daemonSide
    <2>3. CASE LookForOne(c)
        BY <2>3 DEF LookForOne, Moves, Quiet, daemonSide
    <2>4. CASE Wait(c)
        BY <2>4 DEF Wait, Moves, Quiet, daemonSide
    <2>5. CASE SwapAndRestart(c)
        BY <2>5 DEF SwapAndRestart, Moves
    <2>6. CASE Try(c)
        <3>1. CASE Reachable
            BY <2>6, <3>1, ArriveTyped DEF Try
        <3>2. CASE ~ Reachable
            BY <2>6, <3>2 DEF Try, Moves
        <3> QED
            BY <3>1, <3>2
    <2>7. CASE ProbeLock(c)
        BY <2>7 DEF ProbeLock, Moves, daemonSide
    <2>8. CASE Release(c)
        BY <2>8 DEF Release, Moves, daemonSide
    <2>9. CASE Launch(c)
        BY <2>9 DEF Launch, Moves, Goes
    <2>10. CASE Retry(c)
        BY <2>10, ArriveTyped DEF Retry
    <2>11. CASE GiveUp(c)
        BY <2>11 DEF GiveUp, Moves, daemonSide
    <2> QED
        BY <1>2, <2>1, <2>2, <2>3, <2>4, <2>5, <2>6, <2>7, <2>8, <2>9, <2>10, <2>11 DEF ClientNext
<1>3. CASE UNCHANGED lifeVars
    BY <1>3 DEF lifeVars, daemonSide, clientSide
<1> QED
    BY <1>1, <1>2, <1>3 DEF LifeNext

(* Every reachable state is well typed, and only a daemon that has a binary *)
(* to restart into goes past its lock (serve, daemon.rs).                   *)
THEOREM TypeCorrect == LifeSpec => []LifeTypeOK
<1>1. LifeInit => LifeTypeOK
    BY LifecycleAssumption DEF LifeInit, LifeTypeOK, Phases, Builds, Steps
<1> QED
    BY <1>1, TypeStep, PTL DEF LifeSpec

-----------------------------------------------------------------------------
(* The lock and the socket.  Together they are inductive: the path can be   *)
(* taken or removed only by the daemon that has the lock.                   *)
OneInstance == \A p, q \in Procs : Holds(p) /\ Holds(q) => p = q
LockInv == LifeTypeOK /\ OneInstance /\ PathIsServed

(* What the steps of the clients leave of the daemons: a serving one is     *)
(* asked to stop, or a free process starts.                                 *)
LEMMA ClientsKeepTheLock ==
    ASSUME LifeTypeOK, NEW c \in Clients, ClientNext(c)
    PROVE  /\ path' = path
           /\ \A p \in Procs : phase'[p] # phase[p] =>
                \/ phase[p] = "free" /\ phase'[p] = "starting"
                \/ phase[p] \in {"serving", "closing"} /\ phase'[p] = "closing"
<1> USE DEF LifeTypeOK
<1>1. CASE Arrive(c) /\ path' = path
    BY <1>1, ArriveTyped
<1>2. CASE Launch(c)
    BY <1>2 DEF Launch, Goes
<1>3. CASE UNCHANGED <<phase, path>>
    BY <1>3
<1> QED
    BY <1>1, <1>2, <1>3 DEF ClientNext, Begin, Leave, LookForOne, Wait, SwapAndRestart, Try, ProbeLock,
        Release, Retry, GiveUp, daemonSide

LEMMA LockStep == LockInv /\ [LifeNext]_lifeVars => OneInstance' /\ PathIsServed'
<1> SUFFICES ASSUME LockInv, [LifeNext]_lifeVars PROVE OneInstance' /\ PathIsServed'
    OBVIOUS
<1> USE DEF LockInv, LifeTypeOK, OneInstance, PathIsServed, Holds
<1>1. ASSUME NEW p \in Procs, DaemonNext(p) PROVE OneInstance' /\ PathIsServed'
    <2>1. CASE Lock(p)
        BY <2>1 DEF Lock, Goes, Ends
    <2>2. CASE Bind(p)
        BY <2>2 DEF Bind, Goes
    <2>3. CASE Update(p)
        BY <2>3 DEF Update
    <2>4. CASE UpdateReady(p)
        BY <2>4 DEF UpdateReady, Goes
    <2>5. CASE Stop(p)
        BY <2>5 DEF Stop, Goes
    <2>6. CASE Close(p)
        BY <2>6 DEF Close, Goes
    <2>7. CASE Unlink(p)
        BY <2>7 DEF Unlink, Goes
    <2>8. CASE Unlock(p)
        BY <2>8 DEF Unlock, Goes, Ends
    <2>9. CASE Swap(p)
        BY <2>9 DEF Swap, Goes
    <2>10. CASE Restart(p)
        BY <2>10 DEF Restart, Goes
    <2>11. CASE Killed(p)
        BY <2>11 DEF Killed, Goes, Ends
    <2>12. CASE AcceptFails(p)
        BY <2>12 DEF AcceptFails
    <2> QED
        BY <1>1, <2>1, <2>2, <2>3, <2>4, <2>5, <2>6, <2>7, <2>8, <2>9, <2>10, <2>11, <2>12
        DEF DaemonNext
<1>2. ASSUME NEW c \in Clients, ClientNext(c) PROVE OneInstance' /\ PathIsServed'
    BY <1>2, ClientsKeepTheLock
<1>3. CASE UNCHANGED lifeVars
    BY <1>3 DEF lifeVars, daemonSide
<1> QED
    BY <1>1, <1>2, <1>3 DEF LifeNext

LEMMA LockInvariant == LifeSpec => []LockInv
<1>1. LifeInit => LockInv
    BY LifecycleAssumption
    DEF LifeInit, LockInv, LifeTypeOK, Phases, Builds, Steps, OneInstance, PathIsServed, Holds
<1>2. LockInv /\ [LifeNext]_lifeVars => LockInv'
    BY TypeStep, LockStep DEF LockInv
<1> QED
    BY <1>1, <1>2, PTL DEF LifeSpec

(* No daemon that ends takes the socket of the next one with it: the path   *)
(* leads to the daemon that serves.                                         *)
THEOREM ThePathIsServed == LifeSpec => []PathIsServed
BY LockInvariant, PTL DEF LockInv

-----------------------------------------------------------------------------
(* A client that only wants to attach, is about it, and has seen nothing    *)
(* end.                                                                     *)
Undisturbed(c) == calm[c] /\ wants[c] = "attach" /\ at[c] \in Busy

(* A daemon is on its way, or a client that will start one.                 *)
OneComes ==
    \/ \E p \in Procs : phase[p] \in {"starting", "locked", "serving"}
    \/ \E d \in Clients : at[d] \in {"probing", "launching"}

(* Whoever spoils the lock of a daemon another client started does so in a  *)
(* probe, and goes on to start one itself: that is why the share is held    *)
(* only while probing, and why nobody may be left who cannot start one.     *)
ProbesOnly == \A d \in shared : at[d] = "probing"
AttachesOnly ==
    \A c \in Clients : wants[c] = "attach" =>
        c \notin due /\ at[c] \notin {"stopping", "waiting", "swapping"}
AllCanStart ==
    \A c \in Clients : Undisturbed(c) =>
        /\ \A d \in Clients : at[d] \in Busy => runs[d] = installed
        /\ \A p \in Procs : ~ Ending(p) /\ ~ Deaf(p)
SomeoneComes == \A c \in Clients : Undisturbed(c) /\ at[c] = "retrying" => OneComes

QuietInv ==
    LifeTypeOK /\ ProbesOnly /\ AttachesOnly /\ AllCanStart /\ SomeoneComes /\ QuietGetsIn

LEMMA QuietDaemonStep ==
    ASSUME QuietInv, NEW p \in Procs, DaemonNext(p)
    PROVE  ProbesOnly' /\ AttachesOnly' /\ AllCanStart' /\ SomeoneComes' /\ QuietGetsIn'
<1> USE DEF QuietInv, LifeTypeOK, ProbesOnly, AttachesOnly, AllCanStart, SomeoneComes, OneComes,
            Undisturbed, QuietGetsIn, Ending, Deaf, Goes, NotCalm, clientSide, Holds
<1>1. CASE Lock(p)
    BY <1>1 DEF Lock, Ends, Starts
<1>2. CASE Bind(p)
    BY <1>2 DEF Bind
<1>3. CASE Update(p)
    BY <1>3 DEF Update
<1>4. CASE UpdateReady(p)
    BY <1>4 DEF UpdateReady
<1>5. CASE Stop(p)
    BY <1>5 DEF Stop
<1>6. CASE Close(p)
    BY <1>6 DEF Close
<1>7. CASE Unlink(p)
    BY <1>7 DEF Unlink
<1>8. CASE Unlock(p)
    BY <1>8 DEF Unlock, Ends, Starts
<1>9. CASE Swap(p)
    BY <1>9 DEF Swap
<1>10. CASE Restart(p)
    BY <1>10 DEF Restart, Starts
<1>11. CASE Killed(p)
    BY <1>11 DEF Killed, Ends, Starts
<1>12. CASE AcceptFails(p)
    BY <1>12 DEF AcceptFails
<1> QED
    BY <1>1, <1>2, <1>3, <1>4, <1>5, <1>6, <1>7, <1>8, <1>9, <1>10, <1>11, <1>12 DEF DaemonNext

(* One that comes to stop the daemon ends the quiet of all others.          *)
LEMMA QuietArrives ==
    ASSUME QuietInv, NEW c \in Clients, Arrive(c), at[c] \in {"trying", "retrying"},
           wants' = wants, runs' = runs, installed' = installed, deaf' = deaf,
           shared' \in {shared, shared \ {c}}
    PROVE  ProbesOnly' /\ AttachesOnly' /\ AllCanStart' /\ SomeoneComes' /\ QuietGetsIn'
<1> USE DEF QuietInv, LifeTypeOK, ProbesOnly, AttachesOnly, AllCanStart, SomeoneComes, OneComes,
            Undisturbed, QuietGetsIn, Ending, Deaf, Busy, Steps
<1>1. CASE c \in due
    <2>1. wants[c] # "attach" /\ AskStop(c)
        BY <1>1 DEF Arrive
    <2>2. /\ due' = due \ {c} /\ calm' = [d \in Clients |-> calm[d] /\ d = c]
          /\ at' \in {[at EXCEPT ![c] = "waiting"], [at EXCEPT ![c] = "out"]}
        BY <2>1 DEF AskStop, Moves
    <2>3. \A d \in Clients : calm'[d] => d = c
        BY <2>2
    <2>4. \A d \in Clients : ~ Undisturbed(d)'
        BY <2>1, <2>3
    <2>5. AllCanStart' /\ SomeoneComes'
        BY <2>4 DEF AllCanStart, SomeoneComes
    <2>6. ProbesOnly' /\ AttachesOnly'
        BY <2>1, <2>2
    <2>7. QuietGetsIn'
        BY <2>1, <2>3
    <2> QED
        BY <2>5, <2>6, <2>7
<1>2. CASE c \notin due
    <2>1. at' = [at EXCEPT ![c] = "in"] /\ UNCHANGED <<phase, due, calm>>
        BY <1>2 DEF Arrive, Moves
    <2> QED
        BY <2>1
<1> QED
    BY <1>1, <1>2

LEMMA QuietClientStep ==
    ASSUME QuietInv, NEW c \in Clients, ClientNext(c)
    PROVE  ProbesOnly' /\ AttachesOnly' /\ AllCanStart' /\ SomeoneComes' /\ QuietGetsIn'
<1> USE DEF QuietInv, LifeTypeOK, ProbesOnly, AttachesOnly, AllCanStart, SomeoneComes, OneComes,
            Undisturbed, QuietGetsIn, Ending, Deaf, Goes, Moves, daemonSide, Holds, Busy, Steps
<1>1. CASE Begin(c)
    BY <1>1 DEF Begin
<1>2. CASE Leave(c)
    BY <1>2 DEF Leave
<1>3. CASE LookForOne(c)
    BY <1>3 DEF LookForOne, Quiet
<1>4. CASE Wait(c)
    BY <1>4 DEF Wait
<1>5. CASE SwapAndRestart(c)
    <2>1. ProbesOnly' /\ AttachesOnly' /\ QuietGetsIn'
        BY <1>5 DEF SwapAndRestart
    <2>2. \A d \in Clients : d # c => ~ calm'[d]
        BY <1>5 DEF SwapAndRestart
    <2>3. wants[c] # "attach" /\ wants' = wants
        BY <1>5 DEF SwapAndRestart
    <2>4. \A d \in Clients : ~ Undisturbed(d)'
        BY <2>2, <2>3
    <2> QED
        BY <2>1, <2>4
<1>6. CASE Try(c)
    <2>1. CASE Reachable
        BY <1>6, <2>1, QuietArrives DEF Try
    <2>2. CASE ~ Reachable
        BY <1>6, <2>2 DEF Try
    <2> QED
        BY <2>1, <2>2
<1>7. CASE ProbeLock(c)
    BY <1>7 DEF ProbeLock
<1>8. CASE Release(c)
    BY <1>8 DEF Release
<1>9. CASE Launch(c)
    BY <1>9 DEF Launch
<1>10. CASE Retry(c)
    BY <1>10, QuietArrives DEF Retry
<1>11. CASE GiveUp(c)
    BY <1>11 DEF GiveUp
<1> QED
    BY <1>1, <1>2, <1>3, <1>4, <1>5, <1>6, <1>7, <1>8, <1>9, <1>10, <1>11 DEF ClientNext

(* However many clients start a daemon at a time, and whoever of them       *)
(* spoils another's lock, one that only wants to attach gets in unless      *)
(* something ends meanwhile or a daemon is deaf (connect_or_spawn, conn.rs). *)
THEOREM TheQuietGetIn == LifeSpec => []QuietGetsIn
<1>1. LifeInit => QuietInv
    BY LifecycleAssumption
    DEF LifeInit, QuietInv, LifeTypeOK, Phases, Builds, Steps, Busy, ProbesOnly, AttachesOnly,
        AllCanStart, SomeoneComes, Undisturbed, QuietGetsIn
<1>2. QuietInv /\ [LifeNext]_lifeVars => QuietInv'
    <2> SUFFICES ASSUME QuietInv, [LifeNext]_lifeVars PROVE QuietInv'
        OBVIOUS
    <2>1. LifeTypeOK'
        BY TypeStep DEF QuietInv
    <2>2. CASE LifeNext
        BY <2>1, <2>2, QuietDaemonStep, QuietClientStep DEF LifeNext, QuietInv
    <2>3. CASE UNCHANGED lifeVars
        BY <2>1, <2>3 DEF lifeVars, daemonSide, clientSide, QuietInv, ProbesOnly, AttachesOnly,
            AllCanStart, SomeoneComes, OneComes, Undisturbed, QuietGetsIn, Ending, Deaf
    <2> QED
        BY <2>2, <2>3
<1>3. QuietInv => QuietGetsIn
    BY DEF QuietInv
<1> QED
    BY <1>1, <1>2, <1>3, PTL DEF LifeSpec
=============================================================================

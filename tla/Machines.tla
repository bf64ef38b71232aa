------------------------------ MODULE Machines ------------------------------
(***************************************************************************)
(* The machines of the bar (crates/butai-client/src/workbench.rs): the     *)
(* parallel vectors daemons, hosts and sockets, the ssh forwards the       *)
(* client holds, the dials in flight, and the rebuilding of a link that    *)
(* dropped.                                                                *)
(*                                                                         *)
(* A target is a machine an ssh of ours can reach.  A machine in Given is  *)
(* reached through a socket that is there already, named like it; the      *)
(* first is this machine.                                                  *)
(***************************************************************************)
EXTENDS Naturals, Sequences, FiniteSets, SequencesExt

CONSTANTS
    Given,              \* endpoints the client starts with
    Targets, Badge,     \* machines to dial, and the name each has in the config
    Configured,         \* [[remote]] blocks: targets dialled at the start
    Sockets,            \* bound: sockets forwarded at a time
    None,
    MayBeDown,          \* is an endpoint allowed to be silent at the start?
    MaxBreaks, MaxMute   \* bounds: links that drop, dials no daemon answers

Here == Given[1]
Machines == Targets \union Range(Given)
Badges == Machines \union Range(Badge)
Metas == [badge : Badges, reconnect : BOOLEAN]

ASSUME MachinesAssumption ==
    /\ Given \in Seq(Machines) /\ Given # << >> /\ IsInjective(Given)
    /\ Targets \intersect Range(Given) = {} /\ Configured \subseteq Targets
    /\ Badge \in [Targets -> Badges] /\ Range(Badge) \intersect Range(Given) = {}
    /\ None \notin Badges \union Sockets \union Metas /\ Sockets \intersect Machines = {}
    /\ MaxBreaks \in Nat /\ MaxMute \in Nat

VARIABLES
    daemons, hosts, sockets,    \* the bar, in parallel
    forwards, alive,            \* ssh forwards held, and whose ssh still runs
    dials,                      \* DialMeta by target; its domain is dialling
    tasks,                      \* dials in flight
    specs,                      \* dial_specs: target by badge
    losses, waiting,            \* downed: losses, and a next_try ahead, by badge
    browse, chosen,             \* view.browse_daemon, and whom it was said of
    breaks, mutes               \* how often: bounds

bar == <<daemons, hosts, sockets>>
links == <<forwards, alive>>
dialVars == <<dials, tasks, specs>>
downed == <<losses, waiting>>
bounds == <<breaks, mutes>>
machineVars == <<bar, links, dialVars, downed, browse, chosen, bounds>>

LossesBeforeRedial == 2
BadgeOf(m) == IF m = Here THEN None ELSE m

-----------------------------------------------------------------------------
(* should_dial, for the picker and an announcement as for what is           *)
(* remembered.                                                              *)
ShouldDial(t) == ~ Contains(hosts, t) /\ dials[t] = None

(* spawn_dial.                                                              *)
SpawnDial(t, badge, reconnect) ==
    /\ dials' = [dials EXCEPT ![t] = [badge |-> badge, reconnect |-> reconnect]]
    /\ tasks' = [tasks EXCEPT ![t] = @ + 1]

(* The endpoints that answer.                                               *)
Answering(silent) == SelectSeq(Given, LAMBDA m : m \notin silent)

(* The start of run: every endpoint is asked, a silent one is left out.     *)
MachinesInit ==
    /\ hosts = [i \in DOMAIN Given |-> BadgeOf(Given[i])] /\ sockets = Given
    /\ \E silent \in SUBSET (Range(Given) \ {Here}) :
        /\ silent # {} => MayBeDown
        /\ LET answered == IF silent = {} THEN Given ELSE Answering(silent)
           IN  daemons = [i \in DOMAIN answered |->
                            [of |-> answered[i], socket |-> answered[i], up |-> FALSE]]
    /\ forwards = {} /\ alive = {}
    /\ dials = [t \in Targets |-> IF t \in Configured
                                  THEN [badge |-> Badge[t], reconnect |-> FALSE] ELSE None]
    /\ tasks = [t \in Targets |-> IF t \in Configured THEN 1 ELSE 0]
    /\ specs = [b \in Badges |-> None]
    /\ losses = [b \in Badges |-> 0] /\ waiting = [b \in Badges |-> FALSE]
    /\ browse = 0 /\ chosen = None
    /\ breaks = 0 /\ mutes = 0

(* connect_machine, and a remote_announce.                                  *)
Connect(t) ==
    /\ ShouldDial(t) /\ SpawnDial(t, t, FALSE)
    /\ UNCHANGED <<bar, links, specs, downed, browse, chosen, bounds>>

-----------------------------------------------------------------------------
(* Plausible bug: the machine leaves the bar and enters it again.           *)
LandedAgain(badge, reconnect, d) ==
    LET at == {i \in DOMAIN hosts : hosts[i] = badge}
        rest(s) == IF reconnect /\ at # {} THEN RemoveAt(s, CHOOSE i \in at : TRUE) ELSE s
    IN  /\ daemons' = Append(rest(daemons), d) /\ hosts' = Append(rest(hosts), badge)
        /\ sockets' = Append(rest(sockets), d.socket)

(* Plausible bug: the new socket of a machine that is back is not kept.     *)
LandedHalf(badge, reconnect, d) ==
    LET at == {i \in DOMAIN hosts : hosts[i] = badge} IN
    IF reconnect /\ at # {}
    THEN /\ \E i \in at : daemons' = [daemons EXCEPT ![i] = d]
         /\ UNCHANGED <<hosts, sockets>>
    ELSE /\ daemons' = Append(daemons, d) /\ hosts' = Append(hosts, badge)
         /\ sockets' = Append(sockets, d.socket)

(* Where a machine that answered goes: into its slot, or at the end.        *)
Landed(badge, reconnect, d) ==
    LET at == {i \in DOMAIN hosts : hosts[i] = badge} IN
    IF reconnect /\ at # {}
    THEN \E i \in at :
            /\ \A j \in at : i <= j
            /\ daemons' = [daemons EXCEPT ![i] = d]
            /\ sockets' = [sockets EXCEPT ![i] = d.socket]
            /\ UNCHANGED hosts
    ELSE /\ daemons' = Append(daemons, d) /\ hosts' = Append(hosts, badge)
         /\ sockets' = Append(sockets, d.socket)

Unused == Sockets \ (forwards \union Range(sockets))

(* Plausible bug: a dial that failed is still in flight to those that ask.  *)
AnsweredOnly(t) == tasks[t] > 0 /\ tasks' = [tasks EXCEPT ![t] = @ - 1] /\ UNCHANGED dials

(* An answer on adopt_rx: the dial is over, and its meta taken.             *)
Answered(t) ==
    /\ tasks[t] > 0
    /\ tasks' = [tasks EXCEPT ![t] = @ - 1] /\ dials' = [dials EXCEPT ![t] = None]

DialFails(t) ==
    /\ Answered(t)
    /\ UNCHANGED <<bar, links, specs, downed, browse, chosen, bounds>>

(* The ssh stands but no daemon answers behind it; the forward is kept.     *)
LandsMute(t) ==
    /\ mutes < MaxMute /\ Unused # {}
    /\ Answered(t)
    /\ LET s == CHOOSE s \in Unused : TRUE
       IN  forwards' = forwards \union {s} /\ alive' = alive \union {s}
    /\ mutes' = mutes + 1
    /\ UNCHANGED <<bar, specs, downed, browse, chosen, breaks>>

Lands(t) ==
    LET meta == IF dials[t] = None THEN [badge |-> t, reconnect |-> FALSE] ELSE dials[t]
        s == CHOOSE s \in Unused : TRUE
    IN
    /\ Unused # {} /\ Answered(t)
    /\ forwards' = forwards \union {s} /\ alive' = alive \union {s}
    /\ specs' = [specs EXCEPT ![meta.badge] = t]
    /\ losses' = [losses EXCEPT ![meta.badge] = 0]
    /\ waiting' = [waiting EXCEPT ![meta.badge] = FALSE]
    /\ Landed(meta.badge, meta.reconnect, [of |-> t, socket |-> s, up |-> FALSE])
    /\ UNCHANGED <<browse, chosen, bounds>>

-----------------------------------------------------------------------------
Dead(d) == daemons[d].socket \in Sockets \ alive
SetUp(d, b) == daemons' = [daemons EXCEPT ![d] = [of |-> @.of, socket |-> @.socket, up |-> b]]
Badged(d) == IF d \in DOMAIN hosts THEN hosts[d] ELSE None

(* redial_due.                                                              *)
Due(b, lives) == (~ lives \/ losses[b] + 1 >= LossesBeforeRedial) /\ ~ waiting[b]
Counted(b) == [losses EXCEPT ![b] = IF @ < LossesBeforeRedial THEN @ + 1 ELSE @]

(* redial_lost: a link of ours, none in flight, is rebuilt when it is time; *)
(* the old forward is dropped first.                                        *)
RedialLost(d) ==
    LET b == Badged(d) IN
    IF b # None /\ specs[b] # None /\ dials[specs[b]] = None
    THEN /\ losses' = Counted(b)
         /\ IF Due(b, sockets[d] \in alive)
            THEN /\ waiting' = [waiting EXCEPT ![b] = TRUE]
                 /\ forwards' = forwards \ {sockets[d]} /\ alive' = alive \ {sockets[d]}
                 /\ SpawnDial(specs[b], b, TRUE)
            ELSE UNCHANGED <<waiting, links, dials, tasks>>
    ELSE UNCHANGED <<downed, links, dials, tasks>>

(* DaemonEvent::Lost: the stream drops, or another try to open it fails.    *)
LostFor(d) ==
    /\ SetUp(d, FALSE) /\ RedialLost(d)
    /\ UNCHANGED <<hosts, sockets, specs, browse, chosen, mutes>>

StreamDrops(d) ==
    /\ daemons[d].up /\ ~ Dead(d) /\ breaks < MaxBreaks
    /\ breaks' = breaks + 1 /\ LostFor(d)

RetryFails(d) == (~ daemons[d].up \/ Dead(d)) /\ LostFor(d) /\ UNCHANGED breaks

(* DaemonEvent::Connected.                                                  *)
Connected(d) ==
    /\ ~ daemons[d].up /\ ~ Dead(d) /\ SetUp(d, TRUE)
    /\ LET b == Badged(d)
       IN  /\ losses' = IF b = None THEN losses ELSE [losses EXCEPT ![b] = 0]
           /\ waiting' = IF b = None THEN waiting ELSE [waiting EXCEPT ![b] = FALSE]
    /\ UNCHANGED <<hosts, sockets, links, dialVars, browse, chosen, bounds>>

(* next_try passes.                                                         *)
WaitEnds(b) ==
    /\ waiting[b] /\ waiting' = [waiting EXCEPT ![b] = FALSE]
    /\ UNCHANGED <<bar, links, dialVars, losses, browse, chosen, bounds>>

(* An ssh exits.                                                            *)
SshExits(s) ==
    /\ s \in alive /\ breaks < MaxBreaks
    /\ alive' = alive \ {s} /\ breaks' = breaks + 1
    /\ UNCHANGED <<bar, forwards, dialVars, downed, browse, chosen, mutes>>

-----------------------------------------------------------------------------
(* index_after_removal.                                                     *)
AfterRemoval(held, removed) ==
    IF held = removed THEN 0 ELSE IF held > removed THEN held - 1 ELSE held

(* disconnect_daemon: refused for a machine whose forward is not ours, or   *)
(* is dropped already.                                                      *)
Disconnect(d) ==
    /\ Badged(d) # None /\ sockets[d] \in forwards
    /\ forwards' = forwards \ {sockets[d]} /\ alive' = alive \ {sockets[d]}
    /\ daemons' = RemoveAt(daemons, d)
    /\ hosts' = RemoveAt(hosts, d) /\ sockets' = RemoveAt(sockets, d)
    /\ browse' = AfterRemoval(browse, d)
    /\ chosen' = IF browse' = 0 THEN None ELSE chosen
    /\ UNCHANGED <<dialVars, downed, bounds>>

(* The machine picker answers; NewWorkspace asks again.                     *)
Browse(d) ==
    /\ browse' = d /\ chosen' = IF d = 0 THEN None ELSE daemons[d].of
    /\ UNCHANGED <<bar, links, dialVars, downed, bounds>>

MachinesNext ==
    \/ \E t \in Targets : Connect(t) \/ DialFails(t) \/ LandsMute(t) \/ Lands(t)
    \/ \E d \in DOMAIN daemons :
        StreamDrops(d) \/ RetryFails(d) \/ Connected(d) \/ Disconnect(d)
    \/ \E d \in 0 .. Len(daemons) : Browse(d)
    \/ \E b \in Badges : WaitEnds(b)
    \/ \E s \in Sockets : SshExits(s)

MachinesSpec == MachinesInit /\ [][MachinesNext]_machineVars

(* A stream task tries for as long as the client runs, an ssh comes up or   *)
(* fails, and the time of the next try comes.                               *)
MachinesFairness ==
    /\ \A t \in Targets : WF_machineVars(DialFails(t) \/ LandsMute(t) \/ Lands(t))
    /\ \A m \in Machines : WF_machineVars(\E d \in DOMAIN daemons :
            daemons[d].of = m /\ (RetryFails(d) \/ Connected(d)))
    /\ \A b \in Badges : WF_machineVars(WaitEnds(b))

-----------------------------------------------------------------------------
Daemons == [of : Machines, socket : Machines \union Sockets, up : BOOLEAN]

(* What is held by index points into the bar.                               *)
MachinesTypeOK ==
    /\ daemons \in Seq(Daemons) /\ hosts \in Seq(Badges \union {None})
    /\ sockets \in Seq(Machines \union Sockets)
    /\ alive \subseteq forwards /\ forwards \subseteq Sockets
    /\ dials \in [Targets -> Metas \union {None}] /\ tasks \in [Targets -> Nat]
    /\ specs \in [Badges -> Targets \union {None}]
    /\ losses \in [Badges -> 0 .. LossesBeforeRedial] /\ waiting \in [Badges -> BOOLEAN]
    /\ browse \in 0 .. Len(daemons) /\ chosen \in Machines \union {None}
    /\ breaks \in 0 .. MaxBreaks /\ mutes \in 0 .. MaxMute

(* daemons, hosts and sockets speak of the same machine at every index:     *)
(* what is typed, opened and dropped at one goes where its tab says.        *)
Aligned ==
    /\ Len(hosts) = Len(daemons) /\ Len(sockets) = Len(daemons)
    /\ \A d \in DOMAIN daemons :
        /\ sockets[d] = daemons[d].socket
        /\ IF daemons[d].of \in Targets THEN specs[hosts[d]] = daemons[d].of
           ELSE hosts[d] = BadgeOf(daemons[d].of)

(* should_dial, redial_lost: one dial at a time to a machine, however many  *)
(* announcements, losses and gestures ask for one.                          *)
OneDialEach == \A t \in Targets : tasks[t] <= 1

(* No machine is in the bar twice under one badge.                          *)
NoTwin == IsInjective(hosts)

(* index_after_removal: a new workspace opens on the machine it was said    *)
(* of, whatever left the bar since.                                         *)
BrowseStays == browse # 0 => daemons[browse].of = chosen

(* However dials, landings, losses and disconnects cross, the bar and what  *)
(* points into it agree.                                                    *)
BarIsRight == MachinesTypeOK /\ Aligned /\ OneDialEach /\ NoTwin /\ BrowseStays

(* A machine keeps its place through loss and return; only a disconnect     *)
(* moves the ones behind it.                                                *)
KeepsPlace ==
    [][(\E d \in DOMAIN daemons : Disconnect(d))
        \/ IsPrefix(hosts, hosts')]_machineVars

(* A link of ours that is lost comes back, or is being dialled, for as long *)
(* as its machine is in the bar.                                            *)
IsDown(t) == \E d \in DOMAIN daemons : daemons[d].of = t /\ ~ daemons[d].up
LinksReturn == \A t \in Targets : []<>(IsDown(t) => tasks[t] > 0)
=============================================================================

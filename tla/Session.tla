------------------------------ MODULE Session ------------------------------
(***************************************************************************)
(* What the butai daemon remembers of its workspaces across a stop, a      *)
(* crash and a restart (crates/butai-server/src/core.rs).                  *)
(*                                                                         *)
(* Two things are on disk.  session.json (`store`) lists the workspaces,   *)
(* and in each the agents and processes of its rails, in rail order; it is *)
(* rewritten by persist_session, atomically, from most handlers.  A dump   *)
(* of every pane's output (`dumps`) is written by capture_panes, only on   *)
(* the ~2 s sampler tick and when the daemon is stopped, under a file name *)
(* that is the pane's POSITION on its rail.  A start rebuilds the panes of *)
(* the list and paints each one with the dump of its position.             *)
(*                                                                         *)
(* One handler of the daemon's single-threaded core is one action, but for *)
(* the three that a crash may cut between two files: the sampler tick and  *)
(* the stop (session.json, then the dumps) and the restore (a pane at a    *)
(* time).                                                                  *)
(***************************************************************************)
EXTENDS Naturals, Sequences, FiniteSets, SequencesExt

CONSTANTS
    Dirs,       \* the project directories
    FileProcs,  \* FileProcs[d]: the processes .butai.toml of d starts
    Autostart,  \* Autostart[d]: the agents .butai.toml of d starts
    Dumping,    \* [general] restore_bytes is not 0
    Faults,     \* which of the situations below the environment produces
    MaxMint,    \* bound: panes the user starts
    MaxStarts   \* bound: starts of the daemon

(* "duplicate": a second workspace is opened on an open directory           *)
(* "spawn": a program that was running cannot be started again              *)
(* "bare": the last process of a workspace goes while the workspace stays   *)
FaultKinds == {"duplicate", "spawn", "bare"}

ASSUME SessionAssumption ==
    /\ FileProcs \in [Dirs -> Nat]
    /\ Autostart \in [Dirs -> Nat]
    /\ Dumping \in BOOLEAN
    /\ Faults \subseteq FaultKinds
    /\ MaxMint \in Nat
    /\ MaxStarts \in Nat

VARIABLES
    phase,      \* where the daemon is in its life
    shutdown,   \* ServerCore::shutdown: the store is frozen
    hadWs,      \* ServerCore::had_workspace
    wss,        \* the open workspaces, in the order of the tabs
    held,       \* ServerCore::deferred: entries kept for a later start
    todo,       \* restore_session: entries of session.json still to visit
    cur,        \* restore_session: the entry being rebuilt, or none (<<>>)
    at,         \* how many panes of `cur` have been tried
    store,      \* session.json
    dumps,      \* panes/<key>/agent-<i>.bin and proc-<i>.bin
    minted,     \* the ids drawn so far: works and conversations
    starts,     \* how often the daemon was started
    changed,    \* a rail moved under the dumps since the last capture, or two
                \* workspaces share their dumps
    tainted     \* the daemon stopped while `changed`

vars == <<phase, shutdown, hadWs, wss, held, todo, cur, at, store, dumps,
          minted, starts, changed, tainted>>
restoreVars == <<todo, cur, at>>
diskVars == <<store, dumps>>
ghostVars == <<changed, tainted>>

-----------------------------------------------------------------------------
(* Panes.  `work` names what the pane is for: it stays the same when the    *)
(* pane is restarted or rebuilt, and is what a reader of the screen would   *)
(* recognise.  `screen` is the work whose output the pane shows, 0 a blank  *)
(* pane.  `conv` is the conversation an agent holds (AgentMeta::session_id).*)

Pane(kind, work, conv, spoke, screen) ==
    [kind |-> kind, work |-> work, conv |-> conv, spoke |-> spoke,
     screen |-> screen, armed |-> spoke, dead |-> FALSE]

(* fresh_launch: the id of a new conversation is minted before the spawn.   *)
FreshAgent(n) == Pane("agent", n, n, FALSE, 0)
FreshProc(kind, n) == Pane(kind, n, 0, FALSE, 0)

(* How many of the processes and agents of the workspace file come up: a    *)
(* spawn that fails is logged and passed over.                              *)
Launches(d) ==
    IF "spawn" \in Faults
    THEN [procs : 0 .. FileProcs[d], agents : 0 .. Autostart[d]]
    ELSE {[procs |-> FileProcs[d], agents |-> Autostart[d]]}

(* A workspace no earlier daemon had: a shell on the stage, then what the   *)
(* workspace file starts.                                                   *)
FreshWorkspace(d, n, up) ==
    [dir |-> d,
     procs |-> [i \in 1 .. 1 + up.procs |->
                   FreshProc(IF i = 1 THEN "shell" ELSE "cmd", n + i)],
     agents |-> [i \in 1 .. up.agents |-> FreshAgent(n + 1 + up.procs + i)],
     stage |-> n + 1]

(* The ids are drawn whether or not the spawn succeeds.                     *)
FreshCount(d) == 1 + FileProcs[d] + Autostart[d]

OpenDirs(w) == {w[k].dir : k \in DOMAIN w}

(* Workspace::forget_pane: the stage falls back to the first process, then  *)
(* to the first agent.                                                      *)
Restage(ws, gone) ==
    [ws EXCEPT !.stage = IF @ # gone THEN @
                         ELSE IF ws.procs # <<>> THEN ws.procs[1].work
                         ELSE IF ws.agents # <<>> THEN ws.agents[1].work
                         ELSE 0]

ForgetAgent(ws, i) ==
    Restage([ws EXCEPT !.agents = RemoveAt(@, i)], ws.agents[i].work)

ForgetProc(ws, i) ==
    Restage([ws EXCEPT !.procs = RemoveAt(@, i)], ws.procs[i].work)

-----------------------------------------------------------------------------
(* session.json.                                                            *)

AgentEntry(p) == [work |-> p.work, conv |-> p.conv, spoke |-> p.spoke]
ProcEntry(p) == [work |-> p.work, kind |-> p.kind]

(* The dump name of the pane on the stage: <<rail, position>>.              *)
StageSlot(ws) ==
    LET onAgents == {i \in DOMAIN ws.agents : ws.agents[i].work = ws.stage}
        onProcs == {i \in DOMAIN ws.procs : ws.procs[i].work = ws.stage}
    IN  IF onAgents # {} THEN <<"agent", CHOOSE i \in onAgents : TRUE>>
        ELSE IF onProcs # {} THEN <<"proc", CHOOSE i \in onProcs : TRUE>>
        ELSE <<"none", 0>>

Entry(ws) ==
    [dir |-> ws.dir,
     agents |-> [i \in DOMAIN ws.agents |-> AgentEntry(ws.agents[i])],
     procs |-> [i \in DOMAIN ws.procs |-> ProcEntry(ws.procs[i])],
     stage |-> StageSlot(ws)]

EmptyStore == [live |-> <<>>, held |-> {}]

(* What persist_session writes: the open workspaces, then the entries this  *)
(* start could not rebuild, unless their directory is open again.           *)
Persisted(w, h) ==
    [live |-> [k \in DOMAIN w |-> Entry(w[k])],
     held |-> {e \in h : e.dir \notin OpenDirs(w)}]

FrozenByRestoreOnly == phase = "restoring"

(* persist_session returns at once while restoring and once shutdown is up. *)
Frozen == shutdown \/ phase = "restoring"

Save(w, h) == store' = IF Frozen THEN store ELSE Persisted(w, h)

-----------------------------------------------------------------------------
(* The dumps.                                                               *)

NoDumps == [agents |-> <<>>, procs |-> <<>>]

Screens(panes) == [i \in DOMAIN panes |-> panes[i].screen]

(* read_dump: a missing file is a blank pane.                               *)
DumpAt(files, i) == IF i \in DOMAIN files THEN files[i] ELSE 0

Longer(new, old) == new \o SubSeq(old, Len(new) + 1, Len(old))

CapturedUnpruned ==
    [d \in Dirs |->
        LET here == {k \in DOMAIN wss : wss[k].dir = d}
            k == CHOOSE j \in here : \A o \in here : o <= j
        IN  IF here = {} THEN dumps[d]
            ELSE [agents |-> Longer(Screens(wss[k].agents), dumps[d].agents),
                  procs |-> Longer(Screens(wss[k].procs), dumps[d].procs)]]

(* capture_panes: each workspace's files are overwritten and the others in  *)
(* its directory pruned; the files of a held entry are left alone; the rest *)
(* is pruned.  Two workspaces on one directory share a key: the last wins.  *)
Captured ==
    [d \in Dirs |->
        LET here == {k \in DOMAIN wss : wss[k].dir = d}
        IN  IF here # {}
            THEN LET k == CHOOSE j \in here : \A o \in here : o <= j
                 IN  [agents |-> Screens(wss[k].agents),
                      procs |-> Screens(wss[k].procs)]
            ELSE IF \E e \in held : e.dir = d THEN dumps[d] ELSE NoDumps]

-----------------------------------------------------------------------------
Init ==
    /\ phase = "down"
    /\ shutdown = FALSE
    /\ hadWs = FALSE
    /\ wss = <<>>
    /\ held = {}
    /\ todo = EmptyStore
    /\ cur = <<>>
    /\ at = 0
    /\ store = EmptyStore
    /\ dumps = [d \in Dirs |-> NoDumps]
    /\ minted = 0
    /\ starts = 0
    /\ changed = FALSE
    /\ tainted = FALSE

-----------------------------------------------------------------------------
(* Start: restore_session visits the entries of session.json in turn.       *)

Start ==
    /\ phase = "down"
    /\ starts < MaxStarts
    /\ phase' = "restoring"
    /\ starts' = starts + 1
    /\ todo' = store
    /\ UNCHANGED <<shutdown, hadWs, wss, held, cur, at, store, dumps, minted,
                   changed, tainted>>

Visit(e) ==
    /\ phase = "restoring"
    /\ cur = <<>>
    /\ \/ /\ todo.live # <<>>
          /\ e = Head(todo.live)
          /\ todo' = [todo EXCEPT !.live = Tail(@)]
       \/ /\ todo.live = <<>>
          /\ e \in todo.held
          /\ todo' = [todo EXCEPT !.held = @ \ {e}]

DroppedEntry ==
    \E e \in {todo.live[i] : i \in DOMAIN todo.live} \cup todo.held :
        /\ Visit(e)
        /\ UNCHANGED <<phase, shutdown, hadWs, wss, held, cur, at, diskVars,
                       minted, starts, ghostVars>>

(* The directory is not there right now, or (a workspace with no saved      *)
(* process) the shell it would open with cannot be started.                 *)
DeferEntry ==
    \E e \in {todo.live[i] : i \in DOMAIN todo.live} \cup todo.held :
        /\ Visit(e)
        /\ held' = held \cup {e}
        /\ UNCHANGED <<phase, shutdown, hadWs, wss, cur, at, diskVars, minted,
                       starts, ghostVars>>

SkipEntry ==
    \E e \in {todo.live[i] : i \in DOMAIN todo.live} \cup todo.held :
        /\ Visit(e)
        /\ e.dir \in OpenDirs(wss)
        /\ UNCHANGED <<phase, shutdown, hadWs, wss, held, cur, at, diskVars,
                       minted, starts, ghostVars>>

(* create_workspace_restoring with nothing to rebuild: no saved process     *)
(* counts as no saved workspace.                                            *)
ReopenFresh ==
    \E e \in {todo.live[i] : i \in DOMAIN todo.live} \cup todo.held :
        \E up \in Launches(e.dir) :
            /\ Visit(e)
            /\ e.dir \notin OpenDirs(wss)
            /\ e.procs = <<>>
            /\ wss' = Append(wss, FreshWorkspace(e.dir, minted, up))
            /\ held' = {h \in held : h.dir # e.dir}
            /\ minted' = minted + FreshCount(e.dir)
            /\ hadWs' = TRUE
            /\ Save(wss', held')
            /\ UNCHANGED <<phase, shutdown, cur, at, dumps, starts, ghostVars>>

BeginRebuild ==
    \E e \in {todo.live[i] : i \in DOMAIN todo.live} \cup todo.held :
        /\ Visit(e)
        /\ e.dir \notin OpenDirs(wss)
        /\ e.procs # <<>>
        /\ wss' = Append(wss, [dir |-> e.dir, procs |-> <<>>, agents |-> <<>>,
                               stage |-> 0])
        /\ held' = {h \in held : h.dir # e.dir}
        /\ cur' = <<e>>
        /\ at' = 0
        /\ hadWs' = TRUE
        /\ UNCHANGED <<phase, shutdown, diskVars, minted, starts, ghostVars>>

RebuildLast(ws) == wss' = [wss EXCEPT ![Len(wss)] = ws]

(* rebuild_workspace_panes: the processes, then the agents, each painted    *)
(* with the dump of its position.                                           *)
RebuildProc ==
    /\ cur # <<>>
    /\ at < Len(cur[1].procs)
    /\ LET ws == wss[Len(wss)]
           p == cur[1].procs[at + 1]
           pane == Pane(p.kind, p.work, 0, FALSE,
                        DumpAt(dumps[cur[1].dir].procs, at + 1))
       IN  \/ RebuildLast([ws EXCEPT !.procs = Append(@, pane)])
           \/ "spawn" \in Faults /\ UNCHANGED wss
    /\ at' = at + 1
    /\ UNCHANGED <<phase, shutdown, hadWs, held, todo, cur, diskVars, minted,
                   starts, ghostVars>>

(* spawn_agent_restoring: an agent that was spoken to reopens its           *)
(* conversation, and is armed for one clean start should that fail; any     *)
(* other is launched on a conversation of its own.                          *)
RebuildAgent ==
    /\ cur # <<>>
    /\ at >= Len(cur[1].procs)
    /\ at < Len(cur[1].procs) + Len(cur[1].agents)
    /\ LET ws == wss[Len(wss)]
           i == at + 1 - Len(cur[1].procs)
           a == cur[1].agents[i]
           pane == Pane("agent", a.work, IF a.spoke THEN a.conv ELSE minted + 1,
                        a.spoke, DumpAt(dumps[cur[1].dir].agents, i))
       IN  \/ /\ RebuildLast([ws EXCEPT !.agents = Append(@, pane),
                                         !.stage = a.work])
              /\ minted' = IF a.spoke THEN minted ELSE minted + 1
              /\ Save(wss', held)
           \/ "spawn" \in Faults /\ UNCHANGED <<wss, minted, store>>
    /\ at' = at + 1
    /\ UNCHANGED <<phase, shutdown, hadWs, held, todo, cur, dumps, starts,
                   ghostVars>>

LastAgentStaged(ws, e) == ws.stage

(* The stage goes back to the pane whose dump name was saved, if it was     *)
(* rebuilt, else to the first process.                                      *)
StagedWork(ws, e) ==
    LET saved == IF e.stage[1] = "agent" THEN e.agents[e.stage[2]].work
                 ELSE IF e.stage[1] = "proc" THEN e.procs[e.stage[2]].work
                 ELSE 0
        back == \/ \E i \in DOMAIN ws.agents : ws.agents[i].work = saved
                \/ \E i \in DOMAIN ws.procs : ws.procs[i].work = saved
    IN  IF back THEN saved
        ELSE IF ws.procs # <<>> THEN ws.procs[1].work
        ELSE ws.stage

EndRebuild ==
    /\ cur # <<>>
    /\ at = Len(cur[1].procs) + Len(cur[1].agents)
    /\ LET ws == wss[Len(wss)]
       IN  RebuildLast([ws EXCEPT !.stage = StagedWork(ws, cur[1])])
    /\ cur' = <<>>
    /\ at' = 0
    /\ Save(wss', held)
    /\ UNCHANGED <<phase, shutdown, hadWs, held, todo, dumps, minted, starts,
                   ghostVars>>

(* Which work each file of each directory is the screen of, by the list.    *)
Slots(s) ==
    LET works(q) == [i \in DOMAIN q |-> q[i].work]
    IN  {<<e.dir, works(e.agents), works(e.procs)>> :
            e \in {s.live[k] : k \in DOMAIN s.live} \cup s.held}

(* The store is normalised: what came up, and what is held.                 *)
RestoreDone ==
    /\ phase = "restoring"
    /\ cur = <<>>
    /\ todo = EmptyStore
    /\ phase' = "up"
    /\ store' = Persisted(wss, held)
    /\ changed' = (changed \/ Slots(store') # Slots(store))
    /\ UNCHANGED <<shutdown, hadWs, wss, held, restoreVars, dumps, minted,
                   starts, tainted>>

-----------------------------------------------------------------------------
(* Serving.                                                                 *)

Serving(w) ==
    /\ phase = "up"
    /\ wss' = w
    /\ UNCHANGED <<phase, shutdown, restoreVars, dumps, starts, tainted>>

(* One workspace changes, the other tabs do not.                            *)
Rework(k, ws) == Serving([wss EXCEPT ![k] = ws])

OpenForgetsHeld(d, up) ==
    /\ d \in OpenDirs(wss) => "duplicate" \in Faults
    /\ minted + FreshCount(d) <= MaxMint
    /\ Serving(Append(wss, FreshWorkspace(d, minted, up)))
    /\ held' = {}
    /\ minted' = minted + FreshCount(d)
    /\ hadWs' = TRUE
    /\ changed' = TRUE
    /\ Save(wss', held')

(* create_workspace, from an attach, a command or POST /v1/workspaces.      *)
OpenWorkspace(d, up) ==
    /\ d \in OpenDirs(wss) => "duplicate" \in Faults
    /\ minted + FreshCount(d) <= MaxMint
    /\ Serving(Append(wss, FreshWorkspace(d, minted, up)))
    /\ held' = {h \in held : h.dir # d}
    /\ minted' = minted + FreshCount(d)
    /\ hadWs' = TRUE
    /\ changed' = TRUE
    /\ Save(wss', held')

KillWorkspace(k) ==
    /\ Serving(RemoveAt(wss, k))
    /\ Save(wss', held)
    /\ UNCHANGED <<held, minted, hadWs, changed>>

SpawnAgent(k, background) ==
    /\ minted < MaxMint
    /\ Rework(k, [wss[k] EXCEPT !.agents = Append(@, FreshAgent(minted + 1)),
                                !.stage = IF background THEN @ ELSE minted + 1])
    /\ minted' = minted + 1
    /\ Save(wss', held)
    /\ UNCHANGED <<held, hadWs, changed>>

(* spawn_process does not write session.json: the next tick does.           *)
NewProcess(k) ==
    /\ minted < MaxMint
    /\ Rework(k, [wss[k] EXCEPT !.procs = Append(@, FreshProc("cmd", minted + 1)),
                                !.stage = minted + 1])
    /\ minted' = minted + 1
    /\ UNCHANGED <<held, hadWs, store, changed>>

(* api_restart_process: the new pane lands at the end of the rail.  When    *)
(* the spawn fails the row is gone.                                         *)
RestartProcess(k, i) ==
    LET p == wss[k].procs[i]
        without == ForgetProc(wss[k], i)
    IN  /\ \/ Rework(k, [without EXCEPT !.procs =
                             Append(@, FreshProc(p.kind, p.work))])
           \/ /\ "spawn" \in Faults
              /\ without.procs = <<>> => "bare" \in Faults
              /\ Rework(k, without)
        /\ changed' = TRUE
        /\ UNCHANGED <<held, hadWs, minted, store>>

(* drop_pane, for an agent and for a process: DELETE of the pane,           *)
(* close-pane on the stage, or an exit below.                               *)
DropAgent(k, i) ==
    /\ Rework(k, ForgetAgent(wss[k], i))
    /\ changed' = TRUE
    /\ Save(wss', held)
    /\ UNCHANGED <<held, hadWs, minted>>

DropProc(k, i) ==
    /\ Len(wss[k].procs) = 1 => "bare" \in Faults
    /\ Rework(k, ForgetProc(wss[k], i))
    /\ changed' = TRUE
    /\ Save(wss', held)
    /\ UNCHANGED <<held, hadWs, minted>>

(* note_agent_spoken: the first key or paste.                               *)
Speak(k, i) ==
    /\ ~ wss[k].agents[i].spoke
    /\ Rework(k, [wss[k] EXCEPT !.agents[i].spoke = TRUE])
    /\ Save(wss', held)
    /\ UNCHANGED <<held, hadWs, minted, changed>>

(* The pane's ring (OutputHistory, empty under restore_bytes = 0) gets the  *)
(* output of the pane's own program.                                        *)
AgentOutput(k, i) ==
    /\ Dumping
    /\ wss[k].agents[i].screen = 0
    /\ Rework(k, [wss[k] EXCEPT !.agents[i].screen = wss[k].agents[i].work])
    /\ UNCHANGED <<held, hadWs, minted, store, changed>>

ProcOutput(k, i) ==
    /\ Dumping
    /\ wss[k].procs[i].screen = 0
    /\ Rework(k, [wss[k] EXCEPT !.procs[i].screen = wss[k].procs[i].work])
    /\ UNCHANGED <<held, hadWs, minted, store, changed>>

(* on_pane_exited, an agent.  A clean exit clears the row.                  *)
AgentExitsClean(k, i) ==
    /\ ~ wss[k].agents[i].dead
    /\ DropAgent(k, i)

(* A failure leaves the row as a corpse: the agent reopened nothing, or has *)
(* been up for longer than RESUME_RETRY_WINDOW.                             *)
AgentFails(k, i) ==
    /\ ~ wss[k].agents[i].dead
    /\ Rework(k, [wss[k] EXCEPT !.agents[i].dead = TRUE,
                                !.agents[i].armed = FALSE])
    /\ UNCHANGED <<held, hadWs, minted, store, changed>>

(* retry_failed_resume: a young pane that died on its own conversation is   *)
(* replaced, in place, by a fresh start under the screen of the old one.    *)
(* The stage stays where it was, or goes to the new pane if it was empty.   *)
(* (The roster is written on the way too, without the pane and with it at   *)
(* the end of the rail; only the last write is modelled.)                   *)
RetryResume(k, i) ==
    LET old == wss[k].agents[i]
        pane == Pane("agent", old.work, minted + 1, FALSE, old.screen)
    IN  /\ old.armed
        /\ ~ old.dead
        /\ \/ /\ Rework(k, [wss[k] EXCEPT !.agents[i] = pane,
                                          !.stage = IF @ = 0 THEN old.work ELSE @])
              /\ minted' = minted + 1
              /\ UNCHANGED changed
           \/ /\ "spawn" \in Faults
              /\ Rework(k, ForgetAgent(wss[k], i))
              /\ changed' = TRUE
              /\ UNCHANGED minted
        /\ Save(wss', held)
        /\ UNCHANGED <<held, hadWs>>

LoneShell(ws) ==
    ws.agents = <<>> /\ Len(ws.procs) = 1 /\ ws.procs[1].kind = "shell"

(* on_pane_exited, a process: a lone shell takes its workspace along; any   *)
(* other shell, and a command that succeeded, clears its row; a command     *)
(* that failed leaves a corpse.                                             *)
ShellExits(k, i) ==
    /\ wss[k].procs[i].kind = "shell"
    /\ ~ wss[k].procs[i].dead
    /\ IF LoneShell(wss[k]) THEN KillWorkspace(k) ELSE DropProc(k, i)

CommandExits(k, i) ==
    /\ wss[k].procs[i].kind = "cmd"
    /\ ~ wss[k].procs[i].dead
    /\ \/ DropProc(k, i)
       \/ /\ Rework(k, [wss[k] EXCEPT !.procs[i].dead = TRUE])
          /\ UNCHANGED <<held, hadWs, minted, store, changed>>

-----------------------------------------------------------------------------
(* Writing down, stopping, crashing.                                        *)

(* Event::Sys: persist_session, then capture_panes.                         *)
Tick ==
    /\ phase = "up"
    /\ phase' = "saving"
    /\ Save(wss, held)
    /\ UNCHANGED <<shutdown, hadWs, wss, held, restoreVars, dumps, minted,
                   starts, ghostVars>>

(* kill_server(false), Event::Shutdown: snapshot_for_restart first.         *)
KillServer ==
    /\ phase = "up"
    /\ phase' = "closing"
    /\ Save(wss, held)
    /\ UNCHANGED <<shutdown, hadWs, wss, held, restoreVars, dumps, minted,
                   starts, ghostVars>>

CapturePanes ==
    /\ phase \in {"saving", "closing"}
    /\ dumps' = IF Dumping THEN Captured ELSE dumps
    /\ changed' = (Cardinality(OpenDirs(wss)) # Len(wss))
    /\ phase' = IF phase = "saving" THEN "up" ELSE "teardown"
    /\ shutdown' = (phase = "closing")
    /\ UNCHANGED <<hadWs, wss, held, restoreVars, store, minted, starts, tainted>>

(* kill_server(true): forget_session removes both halves first.             *)
KillServerClear ==
    /\ phase = "up"
    /\ phase' = "clearing"
    /\ store' = EmptyStore
    /\ dumps' = [d \in Dirs |-> NoDumps]
    /\ held' = {}
    /\ shutdown' = TRUE
    /\ changed' = FALSE
    /\ UNCHANGED <<hadWs, wss, restoreVars, minted, starts, tainted>>

(* Both then kill the workspaces, each kill persisting what is left.        *)
TearDown ==
    /\ phase \in {"teardown", "clearing"}
    /\ wss # <<>>
    /\ wss' = Tail(wss)
    /\ Save(wss', held)
    /\ UNCHANGED <<phase, shutdown, hadWs, held, restoreVars, dumps, minted,
                   starts, ghostVars>>

(* The process is gone, and with it everything but the disk.                *)
Halt ==
    /\ phase' = "down"
    /\ shutdown' = FALSE
    /\ hadWs' = FALSE
    /\ wss' = <<>>
    /\ held' = {}
    /\ todo' = EmptyStore
    /\ cur' = <<>>
    /\ at' = 0
    /\ UNCHANGED <<store, dumps, minted, starts>>

Stopped ==
    /\ phase \in {"teardown", "clearing"}
    /\ wss = <<>>
    /\ Halt
    /\ tainted' = (tainted \/ changed)
    /\ UNCHANGED changed

(* should_exit: exit_when_empty ships on; no snapshot is taken.             *)
ExitWhenEmpty ==
    /\ phase = "up"
    /\ hadWs
    /\ wss = <<>>
    /\ Halt
    /\ UNCHANGED ghostVars

(* A power cut or SIGKILL, at any moment of the daemon's life.              *)
Crash ==
    /\ phase # "down"
    /\ Halt
    /\ tainted' = (tainted \/ changed)
    /\ UNCHANGED changed

-----------------------------------------------------------------------------
Restore == DeferEntry \/ SkipEntry \/ ReopenFresh \/ BeginRebuild
           \/ RebuildProc \/ RebuildAgent \/ EndRebuild \/ RestoreDone

AgentStep(k, i) ==
    \/ DropAgent(k, i)
    \/ Speak(k, i)
    \/ AgentOutput(k, i)
    \/ AgentExitsClean(k, i)
    \/ AgentFails(k, i)
    \/ RetryResume(k, i)

ProcStep(k, i) ==
    \/ DropProc(k, i)
    \/ RestartProcess(k, i)
    \/ ProcOutput(k, i)
    \/ ShellExits(k, i)
    \/ CommandExits(k, i)

Serve ==
    \/ \E d \in Dirs : \E up \in Launches(d) : OpenWorkspace(d, up)
    \/ \E k \in DOMAIN wss :
        \/ KillWorkspace(k)
        \/ \E background \in BOOLEAN : SpawnAgent(k, background)
        \/ NewProcess(k)
        \/ \E i \in DOMAIN wss[k].agents : AgentStep(k, i)
        \/ \E i \in DOMAIN wss[k].procs : ProcStep(k, i)

Stop == Tick \/ KillServer \/ CapturePanes \/ KillServerClear \/ TearDown
        \/ Stopped \/ ExitWhenEmpty \/ Crash

Next == Start \/ Restore \/ Serve \/ Stop

Spec == Init /\ [][Next]_vars

-----------------------------------------------------------------------------
Phases == {"down", "restoring", "up", "saving", "closing", "teardown", "clearing"}
PaneType ==
    [kind : {"agent", "shell", "cmd"}, work : Nat, conv : Nat, spoke : BOOLEAN,
     screen : Nat, armed : BOOLEAN, dead : BOOLEAN]
WorkspaceType == [dir : Dirs, procs : Seq(PaneType), agents : Seq(PaneType), stage : Nat]
AgentEntryType == [work : Nat, conv : Nat, spoke : BOOLEAN]
ProcEntryType == [work : Nat, kind : {"agent", "shell", "cmd"}]
EntryType ==
    [dir : Dirs, agents : Seq(AgentEntryType), procs : Seq(ProcEntryType),
     stage : {"agent", "proc", "none"} \X Nat]
DumpType == [agents : Seq(Nat), procs : Seq(Nat)]
StoreType == [live : Seq(EntryType), held : SUBSET EntryType]

(* Every variable has its type: ServerCore's fields and the two files.      *)
TypeOK ==
    /\ phase \in Phases
    /\ shutdown \in BOOLEAN
    /\ hadWs \in BOOLEAN
    /\ wss \in Seq(WorkspaceType)
    /\ held \in SUBSET EntryType
    /\ todo \in StoreType
    /\ cur \in Seq(EntryType)
    /\ at \in Nat
    /\ store \in StoreType
    /\ dumps \in [Dirs -> DumpType]
    /\ minted \in Nat
    /\ starts \in Nat
    /\ changed \in BOOLEAN
    /\ tainted \in BOOLEAN

Entries(s) == {s.live[k] : k \in DOMAIN s.live} \cup s.held

(* Each entry of session.json is painted by its own dumps, or by none.      *)
Agree ==
    \A e \in Entries(store) :
        /\ \A i \in DOMAIN e.agents :
               DumpAt(dumps[e.dir].agents, i) \in {0, e.agents[i].work}
        /\ \A i \in DOMAIN e.procs :
               DumpAt(dumps[e.dir].procs, i) \in {0, e.procs[i].work}

OwnScreens ==
    \A k \in DOMAIN wss :
        /\ \A i \in DOMAIN wss[k].agents :
               wss[k].agents[i].screen \in {0, wss[k].agents[i].work}
        /\ \A i \in DOMAIN wss[k].procs :
               wss[k].procs[i].screen \in {0, wss[k].procs[i].work}

(* The roster and the dumps name each other's panes, and no pane shows a    *)
(* neighbour's screen, but for the window a crash can fall in (from a       *)
(* change of a rail to the next capture, the comment in Event::Sys) and for *)
(* two workspaces opened on one directory, which share its dumps.           *)
ScreensAgree == ~ tainted => /\ OwnScreens
                             /\ ~ changed => Agree

(* The stage holds a pane of its own workspace, or nothing: a pane that is  *)
(* closed, exits, is restarted or is not rebuilt leaves the stage with it   *)
(* (forget_pane, retry_failed_resume, rebuild_workspace_panes).             *)
StageIsOpen ==
    \A k \in DOMAIN wss :
        \/ wss[k].stage = 0
        \/ \E i \in DOMAIN wss[k].agents : wss[k].agents[i].work = wss[k].stage
        \/ \E i \in DOMAIN wss[k].procs : wss[k].procs[i].work = wss[k].stage

(* No two agents ever hold the same conversation, open or written down:     *)
(* a restart would reopen it twice (ids.rs, fresh_launch).                  *)
OneHolder ==
    /\ \A k, l \in DOMAIN wss : \A i \in DOMAIN wss[k].agents, j \in DOMAIN wss[l].agents :
           wss[k].agents[i].conv = wss[l].agents[j].conv => k = l /\ i = j
    /\ \A d, e \in Entries(store) : \A i \in DOMAIN d.agents, j \in DOMAIN e.agents :
           d.agents[i].conv = e.agents[j].conv => d = e /\ i = j

(* However panes are closed, fail, start anew and come back, the rails of a *)
(* workspace name live panes only and no conversation twice.                *)
RailsFit == StageIsOpen /\ OneHolder

(* The rails, the roster and the dumps make one session at all times.       *)
SessionFits == ScreensAgree /\ RailsFit

(* An entry held for a later start is forgotten only when its directory is  *)
(* opened again or the session is cleared (restore_session: "kept, not      *)
(* dropped").                                                               *)
HeldSurvives ==
    [][\A e \in store.held :
          \/ e \in store'.held
          \/ e.dir \in OpenDirs(wss')
          \/ phase' = "clearing"]_vars

AgentWorks(s) ==
    UNION {{e.agents[i].work : i \in DOMAIN e.agents} : e \in Entries(s)}

(* A start forgets no agent that session.json names (SessionState: "what a  *)
(* restart needs to bring the work back").                                  *)
RestartForgetsNothing ==
    [][phase = "restoring" => AgentWorks(store) \subseteq AgentWorks(store')]_vars

(* What kill-server leaves on disk is what the next start reads: nothing    *)
(* of the session when it was told to clear, all of it otherwise.           *)
TeardownKeepsStore ==
    [][/\ phase = "teardown" => UNCHANGED diskVars
       /\ phase = "clearing" => /\ store' = EmptyStore
                                /\ dumps' = [d \in Dirs |-> NoDumps]]_vars

-----------------------------------------------------------------------------
(* The workbench a session stands for: what is open while the daemon        *)
(* serves, and what the next start will read at any other time.             *)
Closed == [agents |-> <<>>, procs |-> <<>>, stage |-> <<"closed", 0>>,
           away |-> FALSE]

(* An empty stage (restarting the only process leaves one) is the first     *)
(* process of the next start.                                               *)
RosterOf(e, away) ==
    [agents |-> [i \in DOMAIN e.agents |->
                    [work |-> e.agents[i].work,
                     conv |-> IF e.agents[i].spoke THEN e.agents[i].conv ELSE 0]],
     procs |-> e.procs,
     stage |-> IF e.stage[1] = "none" /\ e.procs # <<>>
               THEN <<"proc", 1>>
               ELSE e.stage,
     away |-> away]

BenchOf(s) ==
    [d \in Dirs |->
        LET here == {e \in Entries(s) : e.dir = d}
        IN  IF here = {}
            THEN Closed
            ELSE LET e == CHOOSE x \in here : TRUE IN RosterOf(e, e \in s.held)]

Bench ==
    IF phase \in {"up", "saving", "closing"}
    THEN BenchOf(Persisted(wss, held))
    ELSE BenchOf(store)

Life ==
    CASE phase \in {"up", "saving"} -> "serving"
      [] phase = "closing" -> "closing"
      [] OTHER -> "shut"

W == INSTANCE Workbench WITH life <- Life, bench <- Bench, saved <- BenchOf(store)

(* The daemon implements Workbench: a start changes nothing of any          *)
(* directory, a stop that was asked for loses nothing, and a crash loses at *)
(* most what was not written down yet.                                      *)
WorkbenchSurvives == W!Spec
=============================================================================

------------------------------ MODULE GitRail ------------------------------
(***************************************************************************)
(* The CHANGES rails of the daemon's workspaces                            *)
(* (crates/butai-server/src/core.rs).                                      *)
(*                                                                         *)
(* A rail is a pane that holds the last git status of its repository.  The *)
(* status is a walk of the whole worktree, so the core never takes it      *)
(* itself: request_git_refresh starts a scan on a blocking thread and the  *)
(* answer comes back as an event.  At most one scan of a rail runs at a    *)
(* time; a request that finds one running is owed (git_refresh_again) and  *)
(* is paid when that scan lands.  A workspace that is no repository yet is *)
(* probed on the sampler tick, off-thread too, with a backoff.             *)
(*                                                                         *)
(* A repository is the number of its last change.  A scan may see the tree *)
(* at any moment of its walk; `seen` is the oldest part of what it reports.*)
(***************************************************************************)
EXTENDS Repositories, Naturals, FiniteSets

CONSTANTS
    MaxTree,    \* bound: changes of a repository, counted from 1
    MaxFaults   \* bound: rails a client closes with DELETE .../panes/{id} and
                \* walks that fail, together

ASSUME RailAssumption ==
    /\ IsFiniteSet(Ws)
    /\ Repo \in [Ws -> Repos]
    /\ MaxTree \in Nat \ {0}
    /\ MaxFaults \in Nat

VARIABLES
    isRepo,     \* the directories `git init` has been run in
    tree,       \* the last change of each repository
    live,       \* the open workspaces
    closed,     \* the workspaces that were killed
    rail,       \* Workspace::changes: the rail of each workspace, or 0
    allocated,  \* the last pane id given to a rail
    shown,      \* the change each rail's last snapshot was taken at
    mine,       \* the last own change whose rows the rail moved by itself, or 0
    failed,     \* the rails whose last walk failed: they show an empty list
    fails,      \* walks failed so far
    refreshing, \* ServerCore::git_refreshing
    again,      \* ServerCore::git_refresh_again
    scans,      \* the scans in flight
    probing,    \* ServerCore::repo_probing
    probes,     \* the probes in flight
    cold,       \* ServerCore::repo_probe_next: the workspaces not yet due
    op,         \* the git operation each workspace runs
    kills,      \* rails closed so far
    owed        \* the last change the daemon itself answered for, by pane

repoVars == <<isRepo, tree>>
paneVars == <<live, closed, rail, allocated>>
scanVars == <<refreshing, again, scans>>
probeVars == <<probing, probes, cold>>
rowVars == <<mine, failed, fails>>
vars == <<repoVars, paneVars, shown, rowVars, scanVars, probeVars, op, kills, owed>>

Panes == 1 .. Cardinality(Ws) + MaxFaults
Rails == {rail[w] : w \in live} \ {0}

-----------------------------------------------------------------------------
(* Scans.  A scan takes along the directory it walks, not the pane.         *)

NewScan(w, p) == [pane |-> p, repo |-> Repo[w], seen |-> 0]

StackedRefresh(W, on, busy, deferred, inFlight) ==
    /\ refreshing' = busy \cup {on[w] : w \in W}
    /\ again' = deferred
    /\ scans' = inFlight \cup {NewScan(w, on[w]) : w \in W}

DroppedRefresh(W, on, busy, deferred, inFlight) ==
    /\ refreshing' = busy \cup {on[w] : w \in W}
    /\ again' = deferred
    /\ scans' = inFlight \cup {NewScan(w, on[w]) : w \in {v \in W : on[v] \notin busy}}

(* request_git_refresh, for the rail `on` each workspace of W: a scan that  *)
(* is running is owed another, the others start.                            *)
Refresh(W, on, busy, deferred, inFlight) ==
    /\ refreshing' = busy \cup {on[w] : w \in W}
    /\ again' = deferred \cup ({on[w] : w \in W} \cap busy)
    /\ scans' = inFlight \cup {NewScan(w, on[w]) : w \in {v \in W : on[v] \notin busy}}

RequestRefresh(W) == Refresh(W, rail, refreshing, again, scans)

(* GitPane::compute walks the worktree ...                                  *)
ScanWalks(s) ==
    /\ s.seen = 0
    /\ scans' = (scans \ {s}) \cup {[s EXCEPT !.seen = tree[s.repo]]}
    /\ UNCHANGED <<repoVars, paneVars, shown, refreshing, again, probeVars, op,
                   kills, owed, rowVars>>

AppliedByRepo(s) ==
    [p \in Panes |-> IF \E w \in live : rail[w] = p /\ Repo[w] = s.repo THEN s.seen
                     ELSE shown[p]]

Applied(s) ==
    IF s.pane \in Rails THEN [shown EXCEPT ![s.pane] = s.seen] ELSE shown

(* GitPane::apply replaces all rows, the ones the rail moved by itself too. *)
(* A walk that failed (no repository, no status) leaves a list that says so.*)
Rows(p) ==
    /\ mine' = [mine EXCEPT ![p] = 0]
    /\ \/ /\ failed' = failed \ {p}
          /\ UNCHANGED fails
       \/ /\ kills + fails < MaxFaults
          /\ fails' = fails + 1
          /\ failed' = failed \cup ({p} \cap Rails)

(* ... and its answer lands: Event::GitRefreshed.  A pane that is gone      *)
(* takes no snapshot, and is not scanned again.                             *)
GitRefreshed(s) ==
    /\ s.seen # 0
    /\ shown' = Applied(s)
    /\ Rows(s.pane)
    /\ Refresh({w \in live : rail[w] = s.pane /\ s.pane \in again}, rail,
               refreshing \ {s.pane}, again \ {s.pane}, scans \ {s})
    /\ UNCHANGED <<repoVars, paneVars, probeVars, op, kills, owed>>

-----------------------------------------------------------------------------
(* Workspaces and their rails.                                              *)

(* A new rail shows nothing yet, and a scan of it starts at once.           *)
InstallRail(w) ==
    /\ allocated' = allocated + 1
    /\ rail' = [rail EXCEPT ![w] = allocated + 1]
    /\ Refresh({w}, rail', refreshing, again, scans)

NoRail == UNCHANGED <<allocated, rail, scanVars>>

(* create_workspace: the rail comes with the workspace if its directory is  *)
(* in a repository.                                                         *)
OpenWorkspace(w) ==
    /\ w \notin live \cup closed
    /\ live' = live \cup {w}
    /\ IF Repo[w] \in isRepo THEN InstallRail(w) ELSE NoRail
    /\ UNCHANGED <<repoVars, closed, shown, probeVars, op, kills, owed, rowVars>>

(* A pane that is removed takes what it shows along.                        *)
Without(f, w) == [p \in Panes |-> IF p = rail[w] THEN 0 ELSE f[p]]

DropRail(w) ==
    /\ rail' = [rail EXCEPT ![w] = 0]
    /\ shown' = Without(shown, w)
    /\ owed' = Without(owed, w)
    /\ mine' = Without(mine, w)
    /\ failed' = failed \ {rail[w]}
    /\ UNCHANGED fails

(* kill_workspace.  Probes and operations in flight are left to land.       *)
KillWorkspace(w) ==
    /\ w \in live
    /\ live' = live \ {w}
    /\ closed' = closed \cup {w}
    /\ refreshing' = refreshing \ {rail[w]}
    /\ again' = again \ {rail[w]}
    /\ cold' = cold \ {w}
    /\ DropRail(w)
    /\ UNCHANGED <<repoVars, allocated, scans, probing, probes, op,
                   kills>>

(* drop_pane on the rail itself: the flags of its scan stay.                *)
KillRail(w) ==
    /\ w \in live
    /\ rail[w] # 0
    /\ kills + fails < MaxFaults
    /\ kills' = kills + 1
    /\ DropRail(w)
    /\ UNCHANGED <<repoVars, live, closed, allocated, scanVars, probeVars, op>>

-----------------------------------------------------------------------------
(* attach_new_repos: the workspaces that have no rail, no probe out and     *)
(* whose backoff is over.                                                   *)
Candidates ==
    {w \in live : rail[w] = 0 /\ w \notin probing /\ w \notin cold}

(* Event::Sys, every ~2 s: every rail is scanned again, then the candidates *)
(* are probed.                                                              *)
Tick ==
    /\ RequestRefresh({w \in live : rail[w] # 0})
    /\ probing' = probing \cup Candidates
    /\ probes' = probes \cup {[ws |-> w, found |-> "looking"] : w \in Candidates}
    /\ UNCHANGED <<repoVars, paneVars, shown, cold, op, kills, owed, rowVars>>

ProbeLooks(b) ==
    /\ b.found = "looking"
    /\ probes' = (probes \ {b}) \cup
           {[b EXCEPT !.found = IF Repo[b.ws] \in isRepo THEN "yes" ELSE "no"]}
    /\ UNCHANGED <<repoVars, paneVars, shown, scanVars, probing, cold, op,
                   kills, owed, rowVars>>

ProbingForever(b) ==
    /\ b.found = "no"
    /\ probes' = probes \ {b}
    /\ cold' = cold \cup {b.ws}
    /\ UNCHANGED <<repoVars, paneVars, shown, scanVars, probing, op, kills, owed, rowVars>>

(* on_repo_probed.  Nothing there: back off, even if the workspace is gone. *)
ProbeFails(b) ==
    /\ b.found = "no"
    /\ probes' = probes \ {b}
    /\ probing' = probing \ {b.ws}
    /\ cold' = cold \cup {b.ws}
    /\ UNCHANGED <<repoVars, paneVars, shown, scanVars, op, kills, owed, rowVars>>

UncheckedProbe(b) ==
    /\ b.found = "yes"
    /\ probes' = probes \ {b}
    /\ probing' = probing \ {b.ws}
    /\ cold' = cold \ {b.ws}
    /\ InstallRail(b.ws)
    /\ UNCHANGED <<repoVars, live, closed, shown, op, kills, owed, rowVars>>

(* A repository: its rail is installed unless the workspace went or got one.*)
ProbeFinds(b) ==
    /\ b.found = "yes"
    /\ probes' = probes \ {b}
    /\ probing' = probing \ {b.ws}
    /\ cold' = cold \ {b.ws}
    /\ IF b.ws \in live /\ rail[b.ws] = 0 THEN InstallRail(b.ws) ELSE NoRail
    /\ UNCHANGED <<repoVars, live, closed, shown, op, kills, owed, rowVars>>

(* The backoff runs out.                                                    *)
BackoffEnds(w) ==
    /\ w \in cold
    /\ cold' = cold \ {w}
    /\ UNCHANGED <<repoVars, paneVars, shown, scanVars, probing, probes, op,
                   kills, owed, rowVars>>

-----------------------------------------------------------------------------
(* What changes a repository.                                               *)

Change(r) ==
    /\ r \in isRepo
    /\ tree[r] < MaxTree
    /\ tree' = [tree EXCEPT ![r] = @ + 1]

(* api_git: an index or ref mutation, inline on the core.  Stage, unstage,  *)
(* discard, commit and rename also move the rail's own rows, ahead of the   *)
(* walk they ask for (move_row, commit_with); the others do not.            *)
Mutate(w) ==
    /\ w \in live
    /\ rail[w] # 0
    /\ Change(Repo[w])
    /\ RequestRefresh({w})
    /\ owed' = [owed EXCEPT ![rail[w]] = tree'[Repo[w]]]
    /\ mine' \in {mine, [mine EXCEPT ![rail[w]] = tree'[Repo[w]]]}
    /\ UNCHANGED <<isRepo, paneVars, shown, failed, fails, probeVars, op, kills>>

(* A git operation (module GitOps): a child process that writes when it     *)
(* likes, and ends.                                                         *)
StartGitOp(w) ==
    /\ w \in live
    /\ rail[w] # 0
    /\ \A v \in Ws : Repo[v] = Repo[w] => op[v] = "none"
    /\ op' = [op EXCEPT ![w] = "running"]
    /\ UNCHANGED <<repoVars, paneVars, shown, scanVars, probeVars, kills, owed, rowVars>>

OpWrites(w) ==
    /\ op[w] = "running"
    /\ Change(Repo[w])
    /\ UNCHANGED <<isRepo, paneVars, shown, scanVars, probeVars, op, kills, owed, rowVars>>

OpEnds(w) ==
    /\ op[w] = "running"
    /\ op' = [op EXCEPT ![w] = "ended"]
    /\ UNCHANGED <<repoVars, paneVars, shown, scanVars, probeVars, kills, owed, rowVars>>

(* on_git_op_done: the rail of the workspace that started it, if any.       *)
GitOpDone(w) ==
    /\ op[w] = "ended"
    /\ op' = [op EXCEPT ![w] = "none"]
    /\ IF w \in live /\ rail[w] # 0
       THEN /\ RequestRefresh({w})
            /\ owed' = [owed EXCEPT ![rail[w]] = tree[Repo[w]]]
       ELSE UNCHANGED <<scanVars, owed>>
    /\ UNCHANGED <<repoVars, paneVars, shown, rowVars, probeVars, kills>>

(* An upload or a deletion through the API, off-thread; then                *)
(* Event::WorkspaceWritten, which marks the screen dirty and scans nothing. *)
Upload(w) ==
    /\ w \in live
    /\ Change(Repo[w])
    /\ UNCHANGED <<isRepo, paneVars, shown, scanVars, probeVars, op, kills, owed, rowVars>>

(* An editor, an agent or a shell.                                          *)
Edit(r) ==
    /\ Change(r)
    /\ UNCHANGED <<isRepo, paneVars, shown, scanVars, probeVars, op, kills, owed, rowVars>>

GitInit(r) ==
    /\ r \notin isRepo
    /\ isRepo' = isRepo \cup {r}
    /\ UNCHANGED <<tree, paneVars, shown, scanVars, probeVars, op, kills, owed, rowVars>>

-----------------------------------------------------------------------------
Init ==
    /\ isRepo \in SUBSET Repos
    /\ tree = [r \in Repos |-> 1]
    /\ live = {}
    /\ closed = {}
    /\ rail = [w \in Ws |-> 0]
    /\ allocated = 0
    /\ shown = [p \in Panes |-> 0]
    /\ mine = [p \in Panes |-> 0]
    /\ failed = {}
    /\ fails = 0
    /\ refreshing = {}
    /\ again = {}
    /\ scans = {}
    /\ probing = {}
    /\ probes = {}
    /\ cold = {}
    /\ op = [w \in Ws |-> "none"]
    /\ kills = 0
    /\ owed = [p \in Panes |-> 0]

Scan == \E s \in scans : ScanWalks(s) \/ GitRefreshed(s)
Probe == \E b \in probes : ProbeLooks(b) \/ ProbeFails(b) \/ ProbeFinds(b)

Request(w) ==
    \/ OpenWorkspace(w)
    \/ KillWorkspace(w)
    \/ KillRail(w)
    \/ Mutate(w)
    \/ StartGitOp(w)
    \/ Upload(w)

Operation(w) == OpWrites(w) \/ OpEnds(w) \/ GitOpDone(w)

Next ==
    \/ Scan
    \/ Probe
    \/ Tick
    \/ \E w \in Ws : Request(w) \/ Operation(w) \/ BackoffEnds(w)
    \/ \E r \in Repos : Edit(r) \/ GitInit(r)

ScansOf(p) == {s \in scans : s.pane = p}

(* The blocking pool finishes a walk and the core handles what is queued.   *)
ScanFairness ==
    \A p \in Panes :
        WF_vars(\E s \in ScansOf(p) : ScanWalks(s) \/ GitRefreshed(s))

(* The sampler ticks, time passes and probes answer.                        *)
TickFairness ==
    /\ WF_vars(Tick)
    /\ WF_vars(Probe)
    /\ \A w \in Ws : WF_vars(BackoffEnds(w))

Spec == Init /\ [][Next]_vars
FairSpec == Spec /\ ScanFairness /\ TickFairness

-----------------------------------------------------------------------------
ScanType == [pane : Panes, repo : Repos, seen : 0 .. MaxTree]

RowsType ==
    /\ mine \in [Panes -> 0 .. MaxTree]
    /\ failed \in SUBSET Panes
    /\ fails \in 0 .. MaxFaults

StateType ==
    /\ isRepo \in SUBSET Repos
    /\ tree \in [Repos -> 1 .. MaxTree]
    /\ live \in SUBSET Ws
    /\ closed \in SUBSET Ws
    /\ rail \in [Ws -> Panes \cup {0}]
    /\ allocated \in Panes \cup {0}
    /\ shown \in [Panes -> 0 .. MaxTree]
    /\ refreshing \in SUBSET Panes
    /\ again \in SUBSET Panes
    /\ scans \in SUBSET ScanType
    /\ probing \in SUBSET Ws
    /\ probes \in SUBSET [ws : Ws, found : {"looking", "yes", "no"}]
    /\ cold \in SUBSET Ws
    /\ op \in [Ws -> {"none", "running", "ended"}]
    /\ kills \in 0 .. MaxFaults
    /\ owed \in [Panes -> 0 .. MaxTree]

TypeOK == StateType /\ RowsType

(* One walk of a rail's worktree at a time, and every flag is backed by a   *)
(* walk that will clear it: no rail is stuck "refreshing" and never scanned *)
(* again, whatever was killed meanwhile (request_git_refresh).              *)
OneScan ==
    /\ again \subseteq refreshing
    /\ \A p \in refreshing : Cardinality(ScansOf(p)) = 1
    /\ \A p \in Rails : ScansOf(p) # {} => p \in refreshing

(* A change the rail lacks up to `limit` will be scanned: a walk that has   *)
(* yet to look, or that looked after it, is in flight, or another is owed.  *)
Coming(p, limit) ==
    shown[p] < limit =>
        \/ p \in again
        \/ \E s \in ScansOf(p) : s.seen = 0 \/ s.seen >= limit

(* A request that arrives during a scan is deferred, not dropped: no rail   *)
(* is left with the answer of a walk from before a stage, a commit or an    *)
(* operation.  (A walk that fails is asked for again by the next tick only.)*)
NothingDropped == \A p \in Rails : Coming(p, owed[p])

(* A snapshot is never older than the one it replaces.  It may be older     *)
(* than a row the rail moved by itself: a walk that looked before the stage *)
(* or the commit takes that row back (apply), but only with the next walk   *)
(* already under way that has it.                                           *)
TakenBack(p) == shown'[p] < mine[p] /\ mine'[p] = 0

NeverBackwards ==
    [][\A p \in Rails : p \in Rails' =>
          /\ shown'[p] >= shown[p]
          /\ TakenBack(p) => \E s \in ScansOf(p)' : s.seen = 0]_vars

(* A rail belongs to one workspace, and a pane id is never handed out again:*)
(* a probe that answers late installs no second rail and none for the dead. *)
RailsOwned ==
    /\ \A w \in Ws : rail[w] # 0 => w \in live /\ rail[w] <= allocated
    /\ \A v, w \in live : rail[v] = rail[w] /\ rail[v] # 0 => v = w
    /\ \A s \in scans, w \in live : s.pane = rail[w] => s.repo = Repo[w]

(* However scans, probes and kills cross, rails and answers keep to their   *)
(* owners, and no state but these is met.                                   *)
RailsFit == TypeOK /\ RailsOwned

(* With the ticks, every open workspace in a repository gets a rail, and    *)
(* the rails come to show whatever was changed by anyone, unless the walks  *)
(* go on failing (MaxFaults).                                                *)
AllShown ==
    <>[](\A w \in live : Repo[w] \in isRepo =>
            /\ rail[w] \notin failed \cup {0}
            /\ shown[rail[w]] = tree[Repo[w]])
=============================================================================

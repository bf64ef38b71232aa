------------------------------- MODULE GitOps -------------------------------
(***************************************************************************)
(* Git operations and the write lock of a repository                       *)
(* (crates/butai-server/src/git_op.rs and core.rs).                        *)
(*                                                                         *)
(* What needs the real git (fetch, merge, rebase ...) runs as a child      *)
(* process of the daemon.  The record of the operation in ServerCore::     *)
(* git_ops doubles as the lock of the repository: while it says `running`, *)
(* a second operation and every inline mutation (api_git) are refused.     *)
(* The record is keyed by the worktree root, which the core does not ask   *)
(* git for: it reads it off the workspace's CHANGES rail, where it is the  *)
(* directory of the workspace until the first scan has landed.             *)
(***************************************************************************)
EXTENDS Repositories, Naturals, FiniteSets

CONSTANTS
    Paths,   \* paths, as they are spelled
    Cwd,     \* Cwd[w]: the directory w was opened on
    Root,    \* Root[w]: the root of its worktree, spelled the way Cwd[w] is
    MaxOps   \* bound: operations ever started

ASSUME OpsAssumption ==
    /\ Repo \in [Ws -> Repos]
    /\ Cwd \in [Ws -> Paths]
    /\ Root \in [Ws -> Paths]
    /\ MaxOps \in Nat

(* Every workspace of a worktree names its root by one path, from the start.*)
OneName == \A v, w \in Ws :
               Repo[v] = Repo[w] => Cwd[v] = Root[w] /\ Root[v] = Root[w]

VARIABLES
    railOf,   \* each workspace's rail: none, loading (its root is not known),
              \* or scanned
    ops,      \* ServerCore::git_ops: the last operation of each root
    seq,      \* ServerCore::git_op_seq
    tasks,    \* spawn_op's tasks: what each operation was started with
    stage,    \* how far each task is
    cancel,   \* the operations whose cancel has been sent
    answer,   \* what the caller of each operation was answered
    torn      \* an inline mutation wrote beside a child of git

opsVars == <<railOf, ops, seq, tasks, stage, cancel, answer, torn>>

Seqs == 1 .. MaxOps
NoOp == [seq |-> 0, running |-> FALSE, cancel |-> FALSE]
NoTask == [root |-> "none", repo |-> "none"]

(* The child of an operation lives until wait() or kill() has returned.     *)
Alive(n) == stage[n] \in {"running", "mute"}

-----------------------------------------------------------------------------
HasRail(w) == railOf[w] # "none"

(* git_root, off the rail: GitPane::new puts the cwd there, a snapshot the  *)
(* root (worktree_root_as_spelled).                                         *)
GitRoot(w) == IF railOf[w] = "scanned" THEN Root[w] ELSE Cwd[w]

(* git_write_locked.                                                        *)
Locked(w) == ops[GitRoot(w)].running

RailAppears(w) ==
    /\ railOf[w] = "none"
    /\ railOf' = [railOf EXCEPT ![w] = "loading"]
    /\ UNCHANGED <<ops, seq, tasks, stage, cancel, answer, torn>>

SnapshotLands(w) ==
    /\ railOf[w] = "loading"
    /\ railOf' = [railOf EXCEPT ![w] = "scanned"]
    /\ UNCHANGED <<ops, seq, tasks, stage, cancel, answer, torn>>

(* A snapshot that finds no repository (compute) names the cwd again.       *)
SnapshotFails(w) ==
    /\ railOf[w] = "scanned"
    /\ railOf' = [railOf EXCEPT ![w] = "loading"]
    /\ UNCHANGED <<ops, seq, tasks, stage, cancel, answer, torn>>

(* The workspace is killed, or its rail closed.  The operation runs on.     *)
RailGoes(w) ==
    /\ HasRail(w)
    /\ railOf' = [railOf EXCEPT ![w] = "none"]
    /\ UNCHANGED <<ops, seq, tasks, stage, cancel, answer, torn>>

-----------------------------------------------------------------------------
(* start_git_op: the one gate.  A refusal (busy, no repository, arguments   *)
(* that do not validate) changes nothing.                                   *)
StartOp(w) ==
    /\ HasRail(w)
    /\ ~ Locked(w)
    /\ seq < MaxOps
    /\ seq' = seq + 1
    /\ ops' = [ops EXCEPT ![GitRoot(w)] = [seq |-> seq', running |-> TRUE, cancel |-> TRUE]]
    /\ tasks' = [tasks EXCEPT ![seq'] = [root |-> GitRoot(w), repo |-> Repo[w]]]
    /\ stage' = [stage EXCEPT ![seq'] = "running"]
    /\ answer' = [answer EXCEPT ![seq'] = "waiting"]
    /\ UNCHANGED <<railOf, cancel, torn>>

UnlockingCancel(w) ==
    /\ HasRail(w)
    /\ Locked(w)
    /\ ops' = [ops EXCEPT ![GitRoot(w)].cancel = FALSE, ![GitRoot(w)].running = FALSE]
    /\ cancel' = cancel \cup {ops[GitRoot(w)].seq}
    /\ UNCHANGED <<railOf, seq, tasks, stage, answer, torn>>

(* cancel_git_op: the sender is taken, so the second call sends nothing.    *)
CancelGitOp(w) ==
    /\ HasRail(w)
    /\ Locked(w)
    /\ ops[GitRoot(w)].cancel
    /\ ops' = [ops EXCEPT ![GitRoot(w)].cancel = FALSE]
    /\ cancel' = cancel \cup {ops[GitRoot(w)].seq}
    /\ UNCHANGED <<railOf, seq, tasks, stage, answer, torn>>

UnlockedMutate(w) ==
    /\ HasRail(w)
    /\ torn' = (torn \/ \E n \in Seqs : Alive(n) /\ tasks[n].repo = Repo[w])
    /\ UNCHANGED <<railOf, ops, seq, tasks, stage, cancel, answer>>

(* api_git: stage, commit, checkout ... on the core, while no operation is  *)
(* recorded as running.                                                     *)
InlineMutate(w) ==
    /\ HasRail(w)
    /\ ~ Locked(w)
    /\ torn' = (torn \/ \E n \in Seqs : Alive(n) /\ tasks[n].repo = Repo[w])
    /\ UNCHANGED <<railOf, ops, seq, tasks, stage, cancel, answer>>

-----------------------------------------------------------------------------
(* The task of operation n (git_op::run, spawn_op).                         *)

Moves(n, from, to) ==
    /\ stage[n] \in from
    /\ stage' = [stage EXCEPT ![n] = to]
    /\ UNCHANGED <<railOf, ops, seq, tasks, cancel, answer, torn>>

(* stderr is at its end: from here run only waits for the child, with no    *)
(* timer and no cancel beside it.                                           *)
StderrCloses(n) == Moves(n, {"running"}, "mute")

ChildExits(n) == Moves(n, {"running", "mute"}, "over")

CancelArrives(n) ==
    /\ n \in cancel
    /\ Moves(n, {"running"}, "over")

(* IDLE_TIMEOUT or HARD_TIMEOUT: the child is killed and waited for.        *)
TimesOut(n) == Moves(n, {"running"}, "over")

(* The result first goes to the grace task, then to the core.               *)
TellsGrace(n) == Moves(n, {"over"}, "told")
SendsDone(n) == Moves(n, {"told"}, "sent")

(* The grace task: the result, or `accepted` after GRACE without one.       *)
Answers(n) ==
    /\ answer[n] = "waiting"
    /\ answer' = [answer EXCEPT ![n] =
                     IF stage[n] \in {"told", "sent", "done"} THEN "result" ELSE "accepted"]
    /\ UNCHANGED <<railOf, ops, seq, tasks, stage, cancel, torn>>

DoneByRail(n) ==
    /\ stage[n] = "sent"
    /\ stage' = [stage EXCEPT ![n] = "done"]
    /\ ops' = IF \E w \in Ws : HasRail(w) /\ GitRoot(w) = tasks[n].root
              THEN [ops EXCEPT ![tasks[n].root] =
                       [@ EXCEPT !.running = FALSE, !.cancel = FALSE]]
              ELSE ops
    /\ UNCHANGED <<railOf, seq, tasks, cancel, answer, torn>>

(* on_git_op_done: by root, and only for the operation it is the end of.    *)
OpDone(n) ==
    /\ stage[n] = "sent"
    /\ stage' = [stage EXCEPT ![n] = "done"]
    /\ ops' = IF ops[tasks[n].root].seq = n
              THEN [ops EXCEPT ![tasks[n].root] =
                       [@ EXCEPT !.running = FALSE, !.cancel = FALSE]]
              ELSE ops
    /\ UNCHANGED <<railOf, seq, tasks, cancel, answer, torn>>

-----------------------------------------------------------------------------
OpsInit ==
    /\ railOf = [w \in Ws |-> "none"]
    /\ ops = [p \in Paths |-> NoOp]
    /\ seq = 0
    /\ tasks = [n \in Seqs |-> NoTask]
    /\ stage = [n \in Seqs |-> "none"]
    /\ cancel = {}
    /\ answer = [n \in Seqs |-> "none"]
    /\ torn = FALSE

Core(w) ==
    \/ RailAppears(w)
    \/ SnapshotLands(w)
    \/ SnapshotFails(w)
    \/ RailGoes(w)
    \/ StartOp(w)
    \/ CancelGitOp(w)
    \/ InlineMutate(w)

Killed(n) == CancelArrives(n) \/ TimesOut(n)

Task(n) ==
    \/ StderrCloses(n)
    \/ ChildExits(n)
    \/ Killed(n)
    \/ TellsGrace(n)
    \/ SendsDone(n)
    \/ Answers(n)
    \/ OpDone(n)

OpsNext == (\E w \in Ws : Core(w)) \/ (\E n \in Seqs : Task(n))

OpsSpec == OpsInit /\ [][OpsNext]_opsVars

(* The timers fire, and the runtime runs the tasks and the core.  Of git    *)
(* itself nothing is assumed.                                               *)
OpsFairness ==
    \A n \in Seqs :
        /\ WF_opsVars(Killed(n) \/ TellsGrace(n) \/ SendsDone(n) \/ OpDone(n))
        /\ WF_opsVars(Answers(n))

-----------------------------------------------------------------------------
Stages == {"none", "running", "mute", "over", "told", "sent", "done"}

OpsTypeOK ==
    /\ railOf \in [Ws -> {"none", "loading", "scanned"}]
    /\ ops \in [Paths -> [seq : 0 .. MaxOps, running : BOOLEAN, cancel : BOOLEAN]]
    /\ seq \in 0 .. MaxOps
    /\ tasks \in [Seqs -> [root : Paths \cup {"none"}, repo : Repos \cup {"none"}]]
    /\ stage \in [Seqs -> Stages]
    /\ cancel \in SUBSET Seqs
    /\ answer \in [Seqs -> {"none", "waiting", "accepted", "result"}]
    /\ torn \in BOOLEAN

(* The lock is held for as long as the operation is not over for the core:  *)
(* neither a cancel, a killed workspace nor a newer operation releases it   *)
(* under a living child (start_git_op, on_git_op_done).                     *)
LockHeld ==
    \A n \in Seqs :
        stage[n] \notin {"none", "done"} =>
            ops[tasks[n].root].seq = n /\ ops[tasks[n].root].running

(* One writer per repository (docs/git.md): never two children of git on    *)
(* one worktree, and no stage or commit beside one.                         *)
OneWriter ==
    /\ \A m, n \in Seqs : Alive(m) /\ Alive(n) /\ tasks[m].repo = tasks[n].repo => m = n
    /\ ~ torn

(* Whoever started an operation is answered, and its lock is released,      *)
(* whatever becomes of its workspace: unless git has closed its stderr and  *)
(* runs on (spawn_op, on_git_op_done).                                      *)
Holds(n) == \E p \in Paths : ops[p].seq = n /\ ops[p].running

OperationsEnd ==
    \A n \in Seqs :
        /\ []<>(answer[n] # "waiting")
        /\ []<>(~ Holds(n) \/ stage[n] = "mute")

(* "Nothing ever hangs.  An operation silent for 120s, or running for 600s, *)
(* is killed" (docs/git.md:431-435).                                        *)
NothingHangs == \A n \in Seqs : []<>~ Holds(n)
=============================================================================

# butai, specified

TLA+ specifications of butai, the TLC configurations that check them on small instances, and
proofs about them that TLAPS checks. butai keeps *workspaces*: a project directory with a rail of
coding agents, a rail of processes, a rail of git changes and a pane on the stage. A daemon owns
them; terminals, a web page and a command line attach to it.

Nearly all the daemon's state belongs to one actor, `ServerCore`
(`src/crates/butai-server/src/core.rs`). It is single-threaded: one event is handled at a time
and a handler runs to its end. What makes it hard is everything that is *not* in the handler:
scans and probes on blocking threads, children of git, reader threads of pseudo-terminals, two
channels of unequal priority, timers, files written at different moments, other daemons on the
same socket, and clients that know only what they were last told.

## Inventory

| component | state | operations | hard part | modelled by |
|---|---|---|---|---|
| Session persistence and restore (`core.rs`) | open workspaces and rails, entries held back, `session.json`, pane dumps | `persist_session`, `capture_panes`, `restore_session`, open/kill/spawn/drop/exit/retry, `kill_server` | two files written at two moments, crashes, positions as names, a restore that fails in part | `Session`, `Workbench` |
| CHANGES rails (`core.rs`, `pane/git.rs`) | in-flight and owed scans, probes and their backoff, one snapshot per rail | `request_git_refresh`, `GitRefreshed`, `attach_new_repos`, `on_repo_probed` | answers that land after the world moved on | `GitRail` |
| Git operations (`git_op.rs`, `core.rs`) | one record per worktree root, which is the write lock; a task and a child per operation | `start_git_op`, `cancel_git_op`, `api_git`, `git_op::run`, `spawn_op`, `on_git_op_done` | timers, cancel, a grace window, a key read from a rail | `GitOps` (in part) |
| Agent tracking (`core.rs`) | debounced state, backoff, unread mark per agent; a bounded notification feed | `update_agent_tracking`, `touch_agent`, `look_at_pane`, `on_pane_exited`, `notifications_since` | sampled state, edges, a feed polled by cursor | `AgentTrack`, `AgentFeed` |
| Command line (`cli/agent.rs`) | a cursor into the feed, what the first poll saw | `agent send --wait`: head, prompt, polls | the daemon moves between two requests | `AgentWait` (in part) |
| Event loop and clients (`core.rs`, `client_conn.rs`, `pane/terminal.rs`) | a bounded output channel, a control channel with priority, a reader and a waiter thread per pane; per client the watched pane and the frame it holds | `run`, `drain_ready`, `on_pty_output`, `render_all`, attach, watch, input, resize, detach | control overtakes output; a flood; frames are differences; panes that die under a client | `Serve` |
| API stream and mirror (`core.rs`, `http_conn.rs`, `daemon.rs` of the client) | subscribers, the detail last sent; the client's mirror | `broadcast_api`, `broadcast_ws_details`, subscribe, `prime`, reconnect | a push and a request for the same state, a stream that breaks, one memory for all listeners | `Mirror` (in part) |
| Daemon lifecycle and update (`daemon.rs`, `core.rs`, `butai-update`; `conn.rs`, `update.rs` of the client) | lock file, socket, `updating`, staged binary | start, `POST /v1/update`, stop, swap, exec; `connect_or_spawn`, `stop_daemon` | two starts racing, a stop between stage and swap, a probe that shares the lock | `Lifecycle` (in part) |
| Workbench client: machines (`workbench.rs`) | the parallel vectors of the bar, ssh forwards, dials in flight, losses | dial, announce, land, drop, re-dial, disconnect | positions held across a removal, two ways to one machine | `Machines` |
| Workbench client: pages (`workbench.rs`) | the chip and the page that are up, the space each project was left on, the GIT page's data and the number of its newest read | gestures, pushes, verbs, one pass of the loop per event, answers of `read_git` | a page that is read off the loop while the chip under it changes | `Pages` |
| Client memory (`views.rs`, `config.rs` of the client) | pages remembered, lines owed to `config.toml`, their deadline | `note`, `flush`, `edit_config`, detach | a write that fails, a client that is killed, two clients on one file | `Views` |
| Workbench client: diff page (`chrome/mod.rs`, `workbench.rs`) and partial patches (`hunk.rs`, `pane/git.rs`) | a snapshot of a diff, cursors, picked lines | keys of the page, `selection`, `subset`, `reversed`, `apply_patch` | a diff that is stale when it is used; off-by-one | `Staging`, `Hunk` |
| Terminal panes (`pane/terminal.rs`) | what is carried over a cut, the ring kept for a restart, the parked footer | `feed_output`, query answers, announcements, scrolling, `footer_window` | reads cut sequences anywhere; a scrolled screen is read for questions | `TermStream`, `TermView` |
| Wire types, git argv and worktrees, samplers, search and file tree, the rest of the configuration, keys/links/graph/theme, web client, packaging | - | parsing, printing, I/O, drawing | none of its own | - |

The components meet at a few places. A git operation, an inline mutation and the sampler tick
all request scans of a rail; the write lock is keyed by what the last scan put on that rail. The
sampler tick (about every two seconds) drives five components: it requests scans and probes,
recomputes the agents' states, writes `session.json`, captures the panes, and pushes details to
the API's listeners. An exiting pane changes a rail, and so what is persisted, what an agent is
shown as and what its watchers are told. A daemon that restarts is a lost stream to `Mirror`, a
dropped link to `Machines`, a stop and a start to `Session`, and a lock and a path to `Lifecycle`. A push to the mirror moves the chips under `Pages`, whose
pass of the loop is what calls `note` of `Views`.

`PROJECT.json` has the same list in machine-readable form, with the hazards at their lines.

## Modules

| module | models | uses |
|---|---|---|
| `Session` | what the daemon remembers across a stop, a crash and a restart | `Workbench` |
| `Workbench` | the promise `Session` implements: a workbench stays what its user made it | |
| `Repositories` | workspaces and the repositories they are in | |
| `GitRail` | scans and probes of the CHANGES rails | `Repositories` |
| `GitOps` | git operations and the write lock | `Repositories` |
| `AgentTrack` | what the daemon shows and announces of its agents | `AgentFeed` |
| `AgentFeed` | the promise `AgentTrack` implements: states, announcements, exits | |
| `AgentWait` | a command that waits on that promise, one request at a time | `AgentFeed` |
| `Serve` | from a program's output to a client's screen | |
| `Mirror` | from a workspace's rail to a client's copy of it | |
| `Lifecycle` | daemons and clients that start, stop and update on one socket | |
| `Machines` | the machines of the client's bar | |
| `Pages` | which chip and page are up, and the GIT page's data | |
| `Views` | the pages a client remembers, down to the calls that write them | |
| `TermStream`, `TermView` | what a pane does with its program's bytes; what is read off it while it is scrolled | |
| `Hunk`, `Staging` | patches as data; the diff page from its keys to the index | `Staging` extends `Hunk` |
| `SessionProofs`, `ServeProofs`, `LifecycleProofs` | theorems | the module they are named for |
| `GitProofs` | theorems about the rails and the operations of git | `GitRail`, `GitOps` |
| `TermProofs` | theorems about a pane: its stream and its view | `TermStream`, `TermView` |
| `AgentTrackProofs` | theorems about the tracker, its promise and the command that waits | `AgentTrack`, `AgentWait` |
| `ClientProofs` | theorems about the client: machines, pages, what it remembers, the rails it knows of, the page that stages | `Machines`, `Pages`, `Views`, `Mirror`, `Staging` |
| `Facts` | lemmas on the naturals, on the least and the greatest of a set and on iterated folds | |
| `MCSession`, `MCDaemon`, `MCAgentTrack`, `MCServe`, `MCStaging`, `MCPanes`, `MCClient` | instances for TLC | |

`MCDaemon`, `MCAgentTrack`, `MCPanes` and `MCClient` hold parts that share no state. A variable `part` says
which of them a behaviour is of; the others stand still, in one fixed state, so their properties
are checked in one run and their states are added, not multiplied. A part that owes something
(fairness) is put to rest where nothing of it is owed.

### Session

State and code: `wss` is `ServerCore::workspaces` in tab order, `held` is `deferred`, `store` is
`session.json`, `dumps` the files `panes/<key>/agent-<i>.bin` and `proc-<i>.bin`, `shutdown` and
`hadWs` the fields of those names, and `todo`, `cur`, `at` the loop of `restore_session`. `phase`
says where the daemon is. A pane has a `work` (what it is for: it survives a restart of the
pane), a `screen` (whose output it shows), a conversation and the two flags of a restored agent.

One handler is one action, and the saves it makes are inside it (`Save`, which is frozen while
restoring and once `shutdown` is set, as `persist_session` is). Three handlers are cut where a
crash may fall between two files: the tick (`Tick`, `CapturePanes`), the stop (`KillServer`,
`CapturePanes`, `TearDown`, `Stopped`) and the restore (`Start`, `DeferEntry`, `SkipEntry`,
`ReopenFresh`, `BeginRebuild`, `RebuildProc`, `RebuildAgent`, `EndRebuild`, `RestoreDone`).
`Crash` is possible whenever the daemon runs.

`Faults` says which of three situations the environment produces: a second workspace on an
open directory, a program that cannot be started again, a workspace left without a process.
`changed` and `tainted` are history variables: they name the window in which a crash is known
to pair a new roster with old screens (the comment in `Event::Sys` describes it).

A directory is opened with an outcome of each program it spawns (`Launches`): one that fails to
start is left out of its rail, as `create_workspace` leaves it.

`Workbench` is the abstract specification. A directory is closed, or has two rails, a stage and a
flag `away`; `life` says whether the daemon serves, was asked to stop, or is shut. Only a daemon
that serves edits, one directory and one pane at a time. `Start` may change nothing of any
directory but the flag `away`, and `End` falls back to what was written down, which after a stop
that was asked for is the workbench as it was. `Session` implements it under the mapping `Bench`:
what is open while the daemon serves, and what the next start will read at any other time.

### GitRail

A repository is the number of its last change; `shown[p]` is the change the snapshot of rail `p`
was taken at. `Refresh` is `request_git_refresh`, for a set of rails. `ScanWalks` is the walk of
`GitPane::compute` on a blocking thread and `GitRefreshed` the event it sends. `Tick` is the git
part of `Event::Sys`. A change comes from an inline mutation (`Mutate`), a git operation
(`StartGitOp`, `OpWrites`, `OpEnds`, `GitOpDone`), an upload (`Upload`) or anything else on the
machine (`Edit`, `GitInit`). Stage, unstage, discard, commit and rename move the rail's own rows
before the walk they ask for (`mine`); a snapshot that lands replaces all rows, those too (`Rows`).
A walk may fail, and then leaves a list that says so (`failed`). `owed` is a history variable: the
last change the daemon answered for.

### GitOps

`ops` is `git_ops`, keyed by path. `GitRoot` is `git_root`: the rail's root, which is the
workspace's directory until a snapshot has landed and the worktree root *as the workspace
spells it* afterwards. `StartOp`, `CancelGitOp`, `InlineMutate` are handlers of the core. `stage[n]`
is the progress of the task of operation `n` through `git_op::run` and `spawn_op`: `running`
(child and timers), `mute` (stderr closed, only the child is waited for), `over` (child reaped),
`told` (result sent to the grace task), `sent` (event sent to the core), `done` (handled). A
snapshot that finds no repository puts the workspace's directory back (`SnapshotFails`).

### AgentTrack, AgentFeed, AgentWait

`rail` is the agents of every workspace in the order `update_agent_tracking` walks them, `track`
is `agent_track`, `alerted` is `agent_alerted`, `feed` is `notifications`. `screen[p]` is what
`footer_signals`, `bell_pending` and `sustained_output` answer for a pane; output (`Output`, the
whole of `on_pty_output`) changes it in any way. `Tick` is the agent part of `Event::Sys` and the
only place that reads the clock, so time is counted in ticks: `quiet` and `worked` are the ticks
since `quiet_since` and `working_since`, plus one, with 0 for `None`, and `due` is how far
`next_check` is away. `worked` is capped where it no longer changes what `QuietRun` decides.
`Fail`, `Drop` and `Replaced` are the three ends of `on_pane_exited`; `Drop` is also a closed row
or workspace. Output of a corpse is allowed, because its exit overtakes its last output.
`lull` (the ticks for which an agent was not busy) is a history variable.

`AgentFeed` is the same daemon for one who follows it: no screens, timers or marks. A step checks
any set of agents, and `News` of the check (an agent that came to wait, finish or exit and was
not so at its last check) is announced in the same step; a first check is a baseline and says
nothing. `EdgesAreAnnounced` says that `AgentTrack` implements it.

`AgentWait` puts `agent send --wait` on top of `AgentFeed`: the feed's head, the two inputs of the
prompt, then polls of the state and, where the state alone is not known to be new, of the feed.
Each request is a step, and the daemon moves between any two. `prompted`, `moved` and `wasNew` are
history variables: what happened since the prompt, and whether the last answer had anything new.

### Serve

`hand[p]` is the chunk the reader thread of a pane holds, `output` the bounded channel, `control`
the unbounded one. The loop handles all of `control`, then at most `OUTPUT_DRAIN_BYTES` of
`output`, and draws when something is dirty and the frame interval has passed. `panes[p]` is a
screen number with the caret and mouse flags and whether the view is scrolled back. A client has
the pane it watches and `last`, the picture the daemon thinks it holds: a frame is a difference
against it, so applied to anything else it leaves the client `Garbled`. `wire[c]` is what was
sent and not yet read, `view[c]` what the frames it has read add up to. `stage[c]` is the client's
`Stage`: it clears or replaces its buffer when the request is *sent*, so from then to the next full
frame the buffer has no more of `view[c]` than what was drawn since (`torn`), whatever is still on
the wire, and the pane it wants may be refused (`refused`). A connection can end on either side at
any moment, and a client that ended may be dialled again.

### Mirror

The daemon's half is `order`, `rail`, `last` (`last_detail`, *one* memory for all listeners) and
`others` (the other senders in `api_subs`, a value: none, open, or with the receiver gone). The
client's half is `tabs` and `detail` (what it shows) and `prime`, which asks for the list and for
each detail while events arrive. `said` is a history variable: what this stream was last told of
each workspace. A stream breaks anywhere and is dialled again; the daemon restarts with other
workspaces.

### Lifecycle

`phase[p]` is how far a process is in `daemon.rs::run`: from `locked` to `unlinked` it holds the
lock file, from `serving` to `closing` it accepts. `path` is whose listener the socket's file is.
A daemon ends by a request, by being killed, or because a newer binary is staged, in which case it
swaps and execs after it has let the lock go. A client attaches, restarts or updates: it looks
whether one is there (`LookForOne`), connects and asks it to stop (`due`, `AskStop`), waits, spawns
one, and probes the lock, shared, to learn whether anybody starts (`ProbeLock`). A daemon whose
`accept` fails is `deaf`: it lives on, holds the lock and lets nobody in. `calm` is a history
variable: since the client began, nothing ended, no daemon was deaf and no client was about that
replaces the binary.

### Machines

`daemons`, `hosts` and `sockets` are the parallel vectors of the workbench. A dial in flight is
counted in `tasks` and known in `dials`; it lands, lands mute (the forward is up, no daemon
answers) or fails. A lost link is counted in `losses`, and after two it is dialled anew.
`browse` is the one place that keeps an index into the bar; `chosen` (history) is the machine it
was said of.

### Pages and Views

The loop of the workbench takes one event and makes one pass; `turn` says which is next.
`LoopPass` is the pass from the comparison of the chip that is up with the one that was, over
`restore_view` and the reads a page needs, to `note`. `SelectTab`, `OpenFleetRow`, `GoTo`,
`CloseWorkspace`, `Verb` and `GitRefresh` are gestures, `Pushed` is a push of a machine that
changes the chips under `view.tab`. A read of the GIT page is a record in `loads`: whose it is, as
of which change of the repository, and whether it carries the newest number (`git_generation`).
Numbers are not modelled, only who has the newest. `verbed` and `spaceOf` are history variables:
the last change made from a project's GIT page, and the space the gestures so far chose for each
project (`Chooses`).

`Views` has the queue of each client (`owed`, `due`, `failing`) and cuts `edit_config` into its
calls of the file system: read, open of the file beside it, write, rename. An open file stays open
under whatever name it has by then (`fd`). Each call may fail, the read too, which the code takes
for a file without lines (`misread`); a client may detach (which flushes)
or be killed anywhere, and starts again from the file. `landed` and `pushedOut` are history
variables: what a client has got into the file, and what a full queue let go.

### Panes and the diff page

`TermStream` writes a program's sequences whole, cuts them into reads anywhere, and applies
`feed_output` to each read; `screen`, `ring`, `answers` and `heard` are what came of it. `dropped`
is a history variable: whether `set_carry` ever gave up an unfinished sequence.
`TermView` is the emulator's window with an offset, and `parked`, the copy of the live band kept
while the view is parked. `Hunk` has `subset` and `reversed` as functions on records. `Staging`
composes them: HEAD, the index and the worktree are sets of lines of one file, of which those that
never change, the context, may repeat each other; the page shows a patch printed from two of them,
its keys move cursors and pick lines, and `git/apply` checks the piece against what is there now, at
the one line its header states (`Matches`), and applies it or refuses. A file that is no longer made
of its lines, because a piece was accepted where it does not belong, is not followed any further.

## Runs

| run | instance | checks |
|---|---|---|
| `session` | two directories, one with a process in its workspace file, three panes, two starts, all faults | `SessionFits`, `HeldSurvives`, `TeardownKeepsStore` |
| `workbench` | two directories, one with an autostarted agent, three panes, two starts, no fault, no dumps | `WorkbenchSurvives` (refinement), `RestartForgetsNothing` |
| `daemon` | rails: two workspaces on one repository, two changes, one rail closed or one walk that fails; lifecycle: three processes and one client that does anything, or two processes and two clients that attach, one end from outside | `OneScan`, `NothingDropped`, `RailsFit`, `NeverBackwards`, `AllShown` (liveness); `PathIsServed`, `QuietGetsIn` |
| `agent_track` | tracker: one agent at a time and a second after it, a settle time of two ticks, intervals up to four, a feed of two; command: two agents, a feed of one, waiting for `finished` or `exited` | `ExitIsLast`, `EdgesAreAnnounced` (refinement), `AskedIsShown`, `FinishIsSettled`, `ScreenIsFollowed` (liveness); `AnswerIsNew`, `TurnIsNotMissed` (liveness) |
| `serve` | a client, two panes, one with a program that writes, channels and budgets of one | `ShownRight`, `ForgottenIsTold`, `ReasonIsTrue`, `ControlIsServed`, `EndIsHeard` (the last two liveness) |
| `panes` | stream: three sequences of twelve, limits of four, a ring of three; view: three rows, a band of two; operations: two workspaces on one root, two operations; mirror: two workspace ids, two rail contents, one change, one lost stream | `CutsDoNotMatter`; `LiveIsRead`; `LockHeld`, `OneWriter`, `OperationsEnd` (liveness); `NeverTwice`, `Follows` (liveness) |
| `client` | machines: this one, one given and one to dial, three sockets, two breaks, one mute dial; diff page: a file of seven lines, two hunks, one edit underneath; pages: two projects, two changes, one push, two reads; views: one client, two projects, a queue of one, one failed call, one end | `BarIsRight`, `KeepsPlace`, `LinksReturn` (liveness); `FreshIsDone`, `OnlyWhatIsNamed`; `PageIsRight`, `GitIsFresh`; `NothingIsForgotten` |

Five runs end in a violation, each a disagreement between the code and what the repository says of
it; `PROJECT.json` "findings" quotes the lines.

- `restart_bare`: a workspace saved with agents and an empty process list is opened as a new one,
  and its agents are forgotten.
- `git_hangs`: a git that has closed its stderr and runs on holds its lock for ever. From there
  `spawn_op` waits for the child with neither timer nor cancel, although `docs/git.md` says that
  nothing ever hangs. `OperationsEnd`, which `panes` checks, is `NothingHangs` but for that.
- `staging_lines`: of a diff that is up to date, a hunk can be neither unstaged nor discarded if the
  one before it changed the number of lines: `write_file` numbers the single hunk that is sent as if
  there were none before it, and git tries no line but the one that is stated. Nor can a part of a
  hunk with two additions: `subset` drops the `+` that was not picked, and the piece, applied
  backwards, does not fit the file that holds it.
- `git_page`: the GIT page of one project shows the branches of another. Leave GIT while a read is
  on its way and go to another project from a page that is not GIT: the page's data is reset, the
  number of the newest read is not, so the answer for the project that was left is taken as the
  newest and marks the page loaded; going to GIT then reads nothing.
- `two_windows`: two clients save at once and the line of one is gone. `edit_config` reads, edits
  and renames without a lock, and all clients write the same file beside the config.

**What the properties say.** Each stands in its module under a comment in words. In short: what is
open, what is in `session.json` and what is in the dumps agree at every moment except the one
named window; a workbench comes back from a stop exactly as it was; a scan that is owed is never
lost, a snapshot never goes back, and takes back what the rail moved by itself only with the walk
that has it under way; one writer per repository, and a lock no longer than git keeps its stderr; an agent's question, exit and end of turn are shown and
announced once, in order, and a command waiting for one answers with news only and misses none;
a client shows what its pane shows, or is told why not, and what its cleared buffer lacks is on the
way unless it was refused; a stream is never told the same thing
twice and its client follows; one daemon per socket, at the end of its path; a machine of the bar
keeps its place and comes back; no cut changes what a program's output does; a fresh page stages what it shows as chosen, and a
stale one that or nothing, where its hunk tells where it belongs; a project is up on the space that
was last chosen for it, and GIT shows nothing older than what was done from it; a page that is
remembered is in the file or on its way there.

### Bounds

- `session`, `workbench`: two starts are what a restart needs; a third would repeat the second,
  because the only state that crosses is `store` and `dumps`, which two starts bring to every
  shape. Three panes give a rail with a middle, so a removal shifts a neighbour. Two directories
  give one that is away while the other is open. `restart_bare` uses the instance of `workbench`.
- Rails (`daemon`): two workspaces on one repository make an operation of one and the rail of the
  other meet; with two changes a scan can have seen the first while the second is made. One closed
  rail makes an answer late, and instead of it one walk may fail.
- Operations (`panes`, `git_hangs`): two operations are what it takes to collide, one after the other has
  ended or while it lives.
- `agent_track`: agents do not read each other's tracks; they meet only in the feed, where one is
  enough to overrun two entries, and the proofs cover any number of them. Two ticks of settling are
  `AGENT_SETTLE` (3 s) at the sampler's 2 s; an interval of four ticks has room for an agent to
  ask, withdraw and die between two checks. The command needs one announcement that is not its
  own: the second agent. With `Keep` at one the feed overruns at every chance.
- `serve`: with channel, budget and control queue at one every queue is full and empty again within
  a few steps, and a drain is cut by the budget at the second chunk. Two panes are needed to watch
  one and then the other; only one of them writes, and what it does is draw (`Kinds` can add the
  caret and the mouse). A second client would share nothing with the first but the panes.
- Mirror (`panes`): two ids let a workspace go and another come; one change and one lost stream are enough
  for a push, a request and a reconnect to meet in any order.
- Lifecycle (`daemon`): one daemon that ends, one that starts and one that races it, with a client
  that attaches, restarts or updates. Two clients are what it takes for a probe to hold the lock that
  another's daemon needs; they attach, to two processes of which none updates itself. One daemon is
  stopped, killed or made deaf from outside.
- Machines (`client`): two breaks make the second loss that re-dials; the machine to dial has two names (its
  address and its badge), which is where the vectors could disagree.
- Pages (`client`): two projects have a chip to leave and one to arrive at, and a push can take
  either away under the index. With two changes an answer is read before, between or after them;
  `MaxReads` bounds the reads a person starts while others are on their way, so that of three
  answers one is the newest and any may come first.
- Views (`client`): a queue of one overflows with the second project, and a file of two lines
  (`ViewsCap`) with neither. One failed call and one end meet in every order. `two_windows` has two
  clients and neither failures nor ends: the loss needs none.
- Stream and view (`panes`): three sequences put one before and one after any cut sequence; the limits of the code
  (32, `MAX_APC_LEN`, `restore_bytes`) are scaled so that every sequence can straddle them.
- Diff page (`client`, `staging_lines`): seven lines hold two hunks, one with two changes, context
  that is said twice, and a last line without a newline. The first hunk may change the number of
  lines above the second.

`CHECK_DEADLOCK FALSE` stands where the bounds let a behaviour come to its end: no start is left
(`session`, `workbench`, `restart_bare`), no client and no chunk (`serve`), no change and no sequence
(`panes`, `git_hangs`).

### Fairness

`Session`, `Lifecycle`, `TermStream`, `TermView`, `Staging`, `Pages` and `Views` are checked for
safety only and need none. That a page which says "loading" has its answer on the way, and that
what is owed to the file has a deadline, are stated as invariants.

- `GitRail`: the blocking pool finishes a walk and the core handles what is queued
  (`ScanFairness`); the sampler ticks, probes answer and their backoff runs out (`TickFairness`).
  Nothing is assumed of users, agents or git. Walks fail at most `MaxFaults` times.
- `GitOps`: the timers fire, and the runtime runs the tasks and the core. Each operation has a task of
  its own, so each is treated fairly by itself. Of git nothing is assumed, neither that it exits nor
  that it closes its stderr; nor of `CancelGitOp` or any rail. That is why `OperationsEnd` leaves out
  an operation that is `mute`, and why `git_hangs` refutes `NothingHangs`.
- `AgentTrack`: the sampler ticks. `AgentWait`: the daemon answers and the command asks on.
- `Serve`: the loop and the frame clock run. Taking a turn of the loop is strongly fair: the
  control queue is drained faster than it fills. A reader waiting for room in the output channel is
  let in in turn, because tokio's semaphore is fair, so `SendOutput` is strongly fair. A client
  that keeps its connection reads. Nothing makes a program write or a client ask.
- `Mirror`: the sampler and the frame clock are timers, the stream task dials for ever, and the
  workbench waits for its requests and its events.
- `Machines`: an ssh comes up or fails, a stream task tries for as long as the client runs, and the
  time of the next try comes.

### Known deviations

Stated in the modules or reached by changing one constant, refuted by TLC, and not kept as runs.
Each is a place where the code does less than a reader may expect.

- `Agree` (`Session`): `drop_pane` saves the shifted rail at once and the dumps follow at the next
  tick, so a crash in between pairs the rail with the screens of its neighbours. `ScreensAgree` is
  the same without that window.
- `RestartForgetsNothing` (`Session`, `Faults = {"spawn"}`): a pane whose program fails to start
  once is forgotten by the persist that ends the restore. Two workspaces on one directory
  (`Faults = {"duplicate"}`) share one entry of `session.json`.
- `OneWriter` (`GitOps`, one workspace at the top and one below, `Cwd <- OneBelow` in `panes.cfg`): until its
  first scan a workspace below the root locks its own directory.
- A caller of a git operation has its result before the core has released the lock, so its next
  request can be refused (`GitOps`).
- An upload repaints the rail and does not rescan it (`Upload` in `GitRail`).
- `UnreadIsYourMove`, `RungForEach` (`AgentTrack`): a finished agent that works again before
  anybody looked stays unread; a look clears the bell and not the alert, so the next bell may not
  ring.
- `AnswerIsAfter` (`AgentWait`): a poll reads the state before the feed that vouches for it, so an
  announcement in between makes the older state count as reached after the prompt.
  `TimedOutIsRunning`: an agent that had failed before the prompt moves no more, so the wait for it
  ends with exit code 3, which `docs/cli.md` gives to a target that still runs.
- `CaretIsShown`, `NoBacklog` (`Serve`): no frame is sent whose only news is that the caret has
  gone; the daemon draws for a client whether or not it has read the last frame.
- `RefusalKeepsPicture` (`Serve`): `docs/protocol.md` says that after a refused watch the daemon keeps
  streaming what it was streaming. It does, in differences: the client has cleared its buffer for the
  pane it was refused, and keeps the holes until the next full frame.
- `OnlyWhatIsNamed` without `Tells` (`Staging`): the comment at the head of `hunk.rs` warns of a piece
  "accepted against the wrong lines". It is where every line of context of a hunk is said elsewhere too
  (`Text <- MCAlike`), and, with the file of `client`, where a hunk ends the file with an addition
  that somebody has made already: git does not ask that what it applies at the end is the end, and
  the line is added twice.
- `MarksFollow` (`Staging`, `Text <- MCTwice` in `staging_lines.cfg`): where a
  file ends in two lines that say the same and the second has no newline, `kept_previous` of `subset`
  (`src/crates/butai-protocol/src/hunk.rs:244`) takes the first for the second and keeps a mark whose
  line was dropped, which the comment above it says does not happen. The piece is then refused
  although the page is fresh (`FreshIsDone`).
- `EveryOneIsHeard` (`TermStream`): an announcement is lost when more bytes of it than `set_carry`
  keeps came with the first of two reads.
- `DialogIsLive` (`TermView`): a dialog painted at the top of a cleared screen stands above the copy
  that is parked, so it is seen live and not while the view is scrolled.
- `CatchesUp` (`Mirror`): the details last sent are remembered for all streams together, so one that
  subscribes while others listen is not told what they know; `docs/remote.md` says that after a
  reconnect the details follow within a tick. `prime` makes up for it at the start only.
- `RestartWorks` (`Lifecycle`): the socket goes before the lock, so a client that has seen the
  socket go and starts a daemon can have it turned away by the lock of the one that is ending.
- `Aligned` (`Machines`, `MayBeDown = TRUE` in `client.cfg`): an endpoint that is silent at the start is left out of
  `daemons` but not of `hosts` and `sockets`.
- `NoTwin` (`Machines`, two targets of one `Badge`): nothing checks that the names of `[[remote]]`
  blocks differ; two of one name are both dialled at the start and both land, and the badge is in
  the bar twice, so what is meant for the one goes to whichever comes first.
- Choosing on BOOTH the chip of the project that is active already shows WORK and remembers it,
  whatever page the project was left on, which is not what `docs/workbench.md` (166-168) says of the
  way through BOOTH: `select_tab` puts AGENTS up and only another project is restored. `Chooses` of
  `Pages` takes it for a choice of WORK, so that `PageIsRight` states what the code does. `[open]` on an agent
  of another project asks for AGENTS and the next pass puts up that project's remembered page. A
  push may shift the chips under `view.tab`, and closing a workspace steps one chip to the left.
- `disconnect_daemon` moves the indices it knows of; `stage.daemon`, `restarting` and
  `following.daemon` are not among them. Not modelled.
- `FileIsWhole` without `misread` (`Views`): `edit_config` takes a file that it cannot read for an
  empty one, so one failed read erases every line of the file but the one that is written, and what
  other tables there are.
- A read of the GIT page that fails empties its list and marks the page loaded (`ReadGit` in `Pages`:
  the answer is of no change); nothing is read again until something else asks for it.
- A daemon whose `accept` fails once never accepts again, holds the lock and answers nobody, and no
  other can start (`AcceptFails` in `Lifecycle`; `QuietGetsIn` is about clients that met none).
- `agent spawn` takes the highest pane id that was not there before for its own
  (`src/crates/butai/src/cli/agent.rs`); a concurrent spawn is taken for it. Not modelled.

## Proofs

`tlapm` checks every theorem for all values of the constants, under the named assumptions of the
component's module. In each module the argument is an inductive invariant; it was checked by TLC
before it was proved.

**Session** (`SessionProofs`; assumption `SessionAssumption`: the constants are
naturals and functions of the right type). `TypeCorrect` is the type invariant, action by action.
`Inductive` adds what the two safety theorems need (`Gated`, `Covered`): the flags `restoring` and
`shutdown` go with the phase, so a save is frozen exactly while the rails are being rebuilt or torn
down, and every entry that is held back is in `session.json`. `HeldEntriesSurvive` and
`TeardownWritesNothing` follow step by step: a save writes the held entries, and a frozen save
writes nothing.

`SessionIsOne` (`SessionFits`) is the largest proof, because none of its three parts is inductive
by itself. `Standing` says that a stage is empty or holds a pane of its own rails; it is kept by the lemmas
`...Follows`, one for each handler of a workspace. `Holders` says who holds a conversation: the panes
that are open, the held entries, the entries of the file and, while a start is under way, the
entries still to visit and the agents `rebuild_workspace_panes` has not come to. No two of one kind
share a conversation, nor do two that can be open together, and none is beyond the last id drawn, so
the next id is nobody's. `Screened` says which dumps are whose. That a dump is of the pane at its
position is not enough: a dump beyond the end of a rail would paint the pane opened there next, so
`Painted` asks that there is a pane for every dump that is not blank. What a capture leaves is
right only if each directory has one workspace or entry to speak for it (`HeldAway`, `ToCome`,
`DirsApart`). `changed` is true from a change of a rail to the next capture, and as long as two
workspaces share a directory; a daemon that ends meanwhile leaves a `tainted` session, of whose
screens nothing is claimed. `RestoreDone` compares the file with what came back by `Slots`: when
they are equal, the dumps the start has read are those of the workspaces that are open.

`WorkbenchIsKept` (the refinement `WorkbenchSurvives`) and `AgentsAreRemembered`
(`RestartForgetsNothing`) are theorems under the hypothesis `Faults = {}`: nobody opens a directory
twice, every program can be started again, and no workspace is left without a process. Crashes, and
directories that are away, remain. Each of the three faults by itself refutes both properties (see
Known deviations and the run `restart_bare`). The invariant is `Kept`. `Placed` says that each
directory is spoken of once, by a workspace, by an entry put aside or by an entry to come, and that
each of them is `Whole`: it has a process, and no two of its panes are the same work, so the place
on a rail that `session.json` gives for the stage finds the pane that was there. `Returning` is
about a start: an entry of the file is still to visit, put aside, at hand, or `Back` as a workspace
with the same roster; the one at hand is rebuilt `Partly`, as many panes as were tried. A handler of
one workspace adds or takes one pane at most (`Touches`), which is an edit of one directory
(`EditedOne`); while the file is only read the workbench is what it says (`OnlyRead`), and
`RestoreDone` finds every directory with the roster the file had for it (`BackAgain`), so that it is
a `Start`, which changes nothing of any directory, and no edit.

**GitRail** (`GitProofs`; assumption `RailAssumption`). Pane ids are spent
once: the ids allocated are no more than the rails open, the rails closed and the kills together,
so a late answer never finds a new rail under an old id. The in-flight flag of a rail and its scan
come in pairs, which gives one scan at a time; a scan that has walked saw at least what its rail
shows and what was owed, or the rail owes another. `Inductive` is that invariant, with `RowInv`: a
row the rail moved by itself is of a change that is owed. From it `RailsHaveOneOwner`,
`ScansDoNotStack`, `RequestsAreKept` and, step by step, `RailsGoForward`: the snapshot that takes such
a row back lands while a walk that will see it is under way, because it was owed.

**GitOps** (`GitProofs`; assumption `OpsAssumption`). `LockHeld` is inductive together with
`TypeOK` and `Numbered`: operations are numbered in the order they start, so a new one takes a
number no task has, and the roots of tasks that are not over are locked, so it takes no root of
theirs. `LockIsHeld` follows. `OneWriterPerRepository` needs more: `Rooted` (a task works on the
root its workspace names) and the assumption `OneName`: all workspaces of a worktree name its root
by one path, from their opening on. The assumption is what a workspace below the root violates,
and what two spellings of one root through a symbolic link would: `worktree_root_as_spelled` keeps
the spelling of the workspace's directory.

**AgentTrack** (`AgentTrackProofs`; assumption `TrackAssumption`). `TypeCorrect`
bounds the timers and the feed. The invariant `IInv` adds: a pane is on the rail once (`Roster`),
an agent that asks is due or shown (`Attended`), the settle timer runs only in a run that every
tick checks and never ahead of the lull it measures (`Settling`), a pane whose exit was announced
is dead or gone for good (`Exits`). From it `ExitsAreLast`, `QuestionsAreShown` and
`FinishesAreSettled`. The refinement is `Implements`, which says that every behaviour
of `AgentTrack` is one of `AgentFeed`. A tick is one check of the agents that were due; walking
the rail announces their edges in rail order, which is an enumeration of `News`. The mapping needs
one invariant more, `SeenDead`: an agent is shown as exited only if its program is dead.

**AgentWait** (`AgentTrackProofs`; assumption `WaitAssumption`: the history keeps at least one
entry, as the daemon's does). `AnswersAreNew` says that a wait does not answer with the state from
before the prompt. `moved` is a ghost: the agent changed its state, or was announced, since the head
of the feed was read. The history is cut at the front meanwhile, so the invariant speaks of its last
`since` entries, `since` being what came after the head was read: if one of them is of this agent it
has moved (`Vouched`), the state of the first poll is the agent's still or it has moved
(`Compared`), and what the command takes for a move was one (`Vetted`).

**Serve** (`ServeProofs`; assumption `ServeAssumption`). One inductive invariant carries all three
theorems. `Chained` is the heart: the differences in a connection's channel, applied in order to
what the client shows, end in the frame the daemon drew last for it, whatever was coalesced or
repainted in between (`Fits` names the pictures in between by a function). `Whole` says that a
client without a connection shows nothing, `Known` which connections the core has met, `Drawn` that
what is not dirty is what was drawn last, `LastWord` that nothing follows a detach in a channel and
that who is forgotten was told. A second invariant, `Stages`, is of the client's buffer: what is asked
is on its way or answered (`Wanted`), and a buffer that is torn is owed a full frame or was refused
(`Steady`). From the two `ScreensAreRight`, `NobodyWaitsInSilence` and, step by step,
`ReasonsAreTrue`. They are for any number of clients and panes.

**Machines** (`ClientProofs`; assumption `MachinesAssumption`). `HeldInv` says that a target has as
many dials out as `dials` holds a note of it, none or one: `DialsAreSingle`, and with it
`PlacesAreKept`, hold of every configuration. `BarStaysRight` (that `daemons`, `hosts` and
`sockets` agree at every index, no badge is there twice, and a browser that is open stays on its
machine) needs two hypotheses, each of which TLC refutes the property without. `NamesApart`: no two
targets have a badge or an address in common. The code does not check it: two `[[remote]]` blocks
of one `name` are dialled at the start and their badge is in the bar twice. `~ MayBeDown`: every
endpoint named on the command line answers at the start (see Known deviations). The invariant
`BarInv` adds what is being dialled: a first dial's badge is not in the bar, a dial that reconnects
has learned its target under that badge (`Dialling`, `Learned`).

**Pages** (`ClientProofs`; assumption `PagesAssumption`). `PagesInv` says where a gesture is between
its two halves: what the gestures chose for each project is what is remembered of it, or, of the one
that is up, what the pass will put up and note (`SpacesKept`, `UpToDate`). Of the answers on their way only the one of the newest generation is taken
(`Awaited`), and it is of the project that is up and no older than the last verb (`Recent`,
`Coming`). From it `PagesComeBack` and `GitStaysFresh`.

**Views** (`ClientProofs`; assumption `ViewsAssumption`: finitely many clients and projects). A
table has one line of a key (`Unique`), so taking a key out and appending its line changes the page
of no other key while the cap has room (`EditedFacts`; `RoomForAll` is a pigeonhole). `ViewsInv`
says that every line that is owed is of the page that is remembered, so that a line that leaves the
queue by being written leaves memory and file equal, and that what is owed outside of a flush is
due. `PagesAreRemembered` is for any number of clients; its last part, that the file keeps every
line that got there, is of a client that is alone (`IsAlone`) and has read the file each time it
could (`misread`), as the property is: `two_windows` shows that it holds of no more.

**Mirror** (`ClientProofs`; assumption `MirrorAssumption`). `MInv` is the type invariant with
`Told`: for a stream the daemon knows, what it remembers having sent is what the stream was last
told, and no stream was told of an id that is still to come. `NothingIsSaidTwice` follows: a detail
is sent only if it differs from what is remembered.

**Lifecycle** (`LifecycleProofs`; assumption `LifecycleAssumption`). `PathIsServed` is inductive
together with the lock's having one holder (`LockInv`): the path is taken or removed only by the
daemon that holds the lock. `QuietGetsIn` needs `QuietInv`: only a client that probes shares the lock
(`ProbesOnly`), and
one that wants to attach neither stops a daemon nor swaps a binary (`AttachesOnly`); while nothing
has ended since such a client began and no daemon was deaf, everyone that is about can start the
installed binary and no daemon is ending (`AllCanStart`), so when it tries for the last time a daemon is on its way, or a
client that will start one (`SomeoneComes`).

**TermStream** (`TermProofs`; assumption `StreamAssumption`). `NoCutMatters` is for any sequences,
any limits and any number of reads. `HvpRewriter` and `scan_queries` are recursive functions, one
over the bytes, one over the places of a buffer. A statement about them is proved for every byte by
`NatSetInduction` and `DownFrom` of `Facts`: the set of the lengths, or of the places, for which it
holds is all of them. `RewriteOn` says that rewriting two reads, the second from where the first left
off, is rewriting both at once, and `PushIs` that the ring is the end of what was pushed; with them
`StreamInv` is inductive and gives `CutsUnseen`. `ScanOn` is the same for queries, and the longer
argument, because a scan may stop early and look again. An item that is complete is the same item
whatever follows it (`ItemMore`), an item that is not says nothing and takes nothing (`OpenIsQuiet`),
so a scan of the whole is the scan of the first part and, from where that one stopped, of the rest.
`HeardInv` says what is inductive: answers and announcements ascend in the stream, whatever was
dropped; and as long as nothing was, answers, announcements and carry are those of one scan of all
that was read. Without `~ dropped` the second is false, and TLC finds why: a CSI longer than the
limit is cut by a read, is dropped, and its program abandons it with an ESC of a query; a scan of
the whole takes the two for one sequence, the pane answers the query.

**TermView** (`TermProofs`; assumption `ViewAssumption`). `VInv` says that the parked copy is the
live band's last rows as long as the view is scrolled, and that there is none otherwise; what the
window shows of the grid is then a matter of which rows the offset takes away (`WindowIsLive`). From
it `LiveScreenIsRead`, for any number of rows, any band and any history.

**Staging** (`ClientProofs`; assumption `StagingAssumption`, of which what matters is that a line
that may change says what no other line says; hypothesis `LastTells`: a last line without a newline
that may change has a text of its own, not only with its missing newline). Context may repeat itself.
A hunk is the lines of two sides, `LinesFor(L, R)`. `KeptIs` says what `subset` makes of it: the hunk
for the old side and the new side that was picked. `TurnedLines` says that a hunk turned round is the
hunk for its sides exchanged, `SideIs` that each side of a hunk is the content of a set of lines.
`Belongs` is what a fresh page relies on: with as many lines above it as its header says, a piece
matches, and what it makes is the file with its lines exchanged. A stale page relies on `MatchesSay`
and `Anchored`: what matches says, line by line, what the piece expects there, so a line of context
that is said once fixes where the piece stands, and from there on, up and down, which line of the
file each of its lines is, because what may change stands between context. `Within` closes it with
the line of context below the changes, or the end of the file. The invariant `StagingInv` keeps the cursors
on the patch that is shown (`Placed`). From these `FreshPagesAreDone` and `NothingElseIsTouched`. The
hypothesis excludes what `MarksFollow` is about: a mark that stays without its line makes a piece of
the wrong two sides, and in the instance of that deviation TLC refutes `FreshIsDone`.

**Only model-checked.** Liveness and whatever else speaks of fairness or of ENABLED, which is beyond
the prover: `AllShown`, `ScreenIsFollowed`, `TurnIsNotMissed`, `ControlIsServed`, `EndIsHeard`,
`OperationsEnd`, `Follows`, `LinksReturn`. Every invariant and every action property of the runs that
pass is a theorem. Where one has a hypothesis it is named with it above, with what goes wrong
without it: a known deviation, or a run that ends in a violation.

## Not modelled

- **Formats.** Wire types and their encodings, JSON, TOML, the argv of each git verb and its
  validation, escape sequences other than those `feed_output` acts on: data without interleavings.
  A git status is a change number, an agent's screen a few booleans, a client's screen a number.
- **One request, one answer.** The command line's other verbs, search, file tree, uploads, the
  listing of worktrees: a handler that reads and replies keeps nothing. `handoff` and `proxy` copy
  bytes.
- **Samplers.** Probing of the machine and of transcripts; the tick they produce is in five models.
- **Drawing.** Layout, overlays, what the pages other than the diff page hold and draw, hit testing, themes, the lanes of
  the commit graph, links, selection with the mouse. These are most of the client's lines
  (`workbench.rs`, `chrome/mod.rs`), sequential code over cells and strings, and with the tests in the same files they are
  why the map covers a small share of all lines: what it covers is the code that holds state
  others depend on.
- **The session client** (a client without a pane), the web client, the download and checksum of a
  release, the ssh command line, packaging and scripts.

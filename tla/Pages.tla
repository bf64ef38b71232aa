------------------------------- MODULE Pages --------------------------------
(***************************************************************************)
(* The pages of the workbench loop (run of crates/butai-client/src/        *)
(* workbench.rs): the chip the screen is about, the space each project was *)
(* left on, and the GIT page, which is read off the loop.                  *)
(*                                                                         *)
(* The loop takes one event and then makes one pass, which restores the    *)
(* page of a project that is arrived at, loads what a page needs, and      *)
(* notes where the project is being looked at.  Of the pages there are     *)
(* WORK, GIT for those that load, and BOOTH for those that are no space.   *)
(***************************************************************************)
EXTENDS Naturals, Sequences, FiniteSets, SequencesExt

CONSTANTS
    Projects,
    Nobody,                 \* no project, and none remembered
    MaxVerbs,               \* bound: the last change of a repository
    MaxShifts, MaxReads     \* bounds: changes of the chips, reads a person awaits

ASSUME PagesAssumption ==
    /\ Nobody \notin Projects /\ IsFiniteSet(Projects) /\ Projects # {}
    /\ MaxVerbs \in Nat \ {0} /\ MaxShifts \in Nat /\ MaxReads \in Nat

VARIABLES
    chips, tab,         \* the tab bar over all machines, and view.tab in it
    page, showedPage, showing,
    leftOn,             \* Views::seen
    git,                \* chrome::Git: whose, as of which change, loaded
    loads,              \* reads on their way; `newest` is git_generation's
    turn,               \* "event" or "pass"
    tree,               \* the last change of each repository
    verbed,             \* the last one made from its GIT page
    spaceOf,            \* the space the gestures so far chose for each project
    shifts              \* how often: bound

where == <<chips, tab, page>>
left == <<showedPage, showing, leftOn>>
reading == <<git, loads>>
pagesVars == <<where, left, reading, turn, tree, verbed, spaceOf, shifts>>

AllPages == {"work", "git", "booth"}
IsSpace(p) == p # "booth"
Unread == MaxVerbs + 1
GitDefault == [of |-> Nobody, asOf |-> 0, loaded |-> FALSE]
ActiveIn(s, t) == IF t \in DOMAIN s THEN s[t] ELSE Nobody
Active == ActiveIn(chips, tab)

PagesInit ==
    /\ chips \in {s \in SeqOf(Projects, Cardinality(Projects)) : IsInjective(s)} /\ tab = 1
    /\ page = "work" /\ showedPage = "work" /\ showing = Nobody
    /\ leftOn \in [Projects -> {"work", "git", Nobody}]
    /\ git = GitDefault /\ loads = {}
    /\ turn = "pass" /\ spaceOf = leftOn /\ shifts = 0
    /\ tree = [w \in Projects |-> 1] /\ verbed = tree

-----------------------------------------------------------------------------
(* spawn_git_refresh: an answer on its way is out of date from here on,     *)
(* also where there is nothing to read.                                     *)
Outdated == {[l EXCEPT !.newest = FALSE] : l \in loads}
Load(w, newest) == [of |-> w, asOf |-> Unread, newest |-> newest]

Asked(w, g) ==
    IF w = Nobody THEN /\ git' = [GitDefault EXCEPT !.loaded = TRUE] /\ loads' = Outdated
    ELSE /\ git' = [g EXCEPT !.loaded = FALSE] /\ loads' = Outdated \union {Load(w, TRUE)}

(* What arriving on GIT asks for, and then what arriving at a project does: *)
(* the first of two answers is out of date before it is there.              *)
Loading(moved, arrived, now) ==
    LET twice == arrived /\ ~ git.loaded /\ now # Nobody IN
    IF page' = "git" /\ moved
    THEN /\ git' = [GitDefault EXCEPT !.loaded = now = Nobody]
         /\ loads' = Outdated \union (IF twice THEN {Load(now, FALSE)} ELSE {})
                              \union (IF now = Nobody THEN {} ELSE {Load(now, TRUE)})
    ELSE IF page' = "git" /\ arrived /\ ~ git.loaded THEN Asked(now, git)
    ELSE git' = (IF moved THEN GitDefault ELSE git) /\ UNCHANGED loads

(* Plausible bug: the page is noted before the one that was left is back.   *)
RestoredLate(moved, now) == page

(* restore_view: nothing moves while a page is up that is no space.         *)
Restored(moved, now) ==
    IF moved /\ IsSpace(page) /\ now # Nobody /\ leftOn[now] # Nobody
    THEN leftOn[now] ELSE page

(* A project that was never seen keeps the space one arrives with.          *)
LoopPass ==
    LET now == Active
        moved == now # showing
    IN
    /\ turn = "pass" /\ turn' = "event"
    /\ page' = Restored(moved, now)
    /\ Loading(moved, page' # showedPage, now)
    /\ showedPage' = page' /\ showing' = now
    /\ leftOn' = IF now # Nobody /\ IsSpace(page')
                 THEN [leftOn EXCEPT ![now] = page'] ELSE leftOn
    /\ spaceOf' = IF now # Nobody /\ spaceOf[now] = Nobody /\ IsSpace(page)
                  THEN [spaceOf EXCEPT ![now] = page] ELSE spaceOf
    /\ UNCHANGED <<chips, tab, tree, verbed, shifts>>

-----------------------------------------------------------------------------
(* Events.                                                                  *)
Takes == turn = "event" /\ turn' = "pass"
Acts == Takes /\ Cardinality(loads) < MaxReads

(* A gesture that leads to a page chooses it for the project it leads to,   *)
(* if that is up already; another one's page is put back by the pass.       *)
Chooses(w) ==
    spaceOf' = IF w = showing /\ w # Nobody /\ IsSpace(page')
               THEN [spaceOf EXCEPT ![w] = page'] ELSE spaceOf

(* A chip, or its number: select_tab leaves BOOTH.                          *)
SelectTab(t) ==
    /\ Acts /\ t \in DOMAIN chips
    /\ tab' = t /\ page' = IF page = "booth" THEN "work" ELSE page
    /\ Chooses(chips[t])
    /\ UNCHANGED <<chips, left, reading, tree, verbed, shifts>>

(* [open] on a row of BOOTH's fleet.                                        *)
OpenFleetRow(t) ==
    /\ Acts /\ page = "booth" /\ t \in DOMAIN chips
    /\ tab' = t /\ page' = "work" /\ Chooses(chips[t])
    /\ UNCHANGED <<chips, left, reading, tree, verbed, shifts>>

(* A space's key, which leads back to WORK from the space itself, or BOOTH. *)
GoTo(p) ==
    /\ Acts
    /\ page' = IF page = p /\ IsSpace(p) THEN "work" ELSE p
    /\ Chooses(Active)
    /\ UNCHANGED <<chips, tab, left, reading, tree, verbed, shifts>>

(* CloseWorkspace steps back at once; the chip goes with the next push.     *)
CloseWorkspace ==
    /\ Acts /\ Active # Nobody
    /\ tab' = IF tab = 1 THEN 1 ELSE tab - 1
    /\ UNCHANGED <<spaceOf, chips, page, left, reading, tree, verbed, shifts>>

(* A push from a machine: the index stays, whoever it means now.            *)
Pushed ==
    /\ Acts /\ shifts < MaxShifts /\ shifts' = shifts + 1
    /\ \/ \E i \in DOMAIN chips : chips' = RemoveAt(chips, i)
       \/ \E w \in Projects \ Range(chips), i \in 1 .. Len(chips) + 1 :
              chips' = InsertAt(chips, i, w)
    /\ UNCHANGED <<spaceOf, tab, page, left, reading, tree, verbed>>

(* Flow::Git, Pick and MenuAction: the verb, then refresh_git_if_showing.   *)
Verb ==
    /\ Acts /\ Active # Nobody /\ tree[Active] < MaxVerbs
    /\ tree' = [tree EXCEPT ![Active] = @ + 1]
    /\ IF page = "git"
       THEN Asked(Active, git) /\ verbed' = [verbed EXCEPT ![Active] = tree'[Active]]
       ELSE UNCHANGED <<reading, verbed>>
    /\ UNCHANGED <<spaceOf, where, left, shifts>>

(* `r`, a fetch, another scope.                                             *)
GitRefresh ==
    /\ Acts /\ page = "git" /\ Asked(Active, git)
    /\ UNCHANGED <<spaceOf, where, left, tree, verbed, shifts>>

-----------------------------------------------------------------------------
(* read_git, on its task.  A list that could not be read, of a workspace    *)
(* that has gone or of another, is an empty one: the answer is of no change.*)
ReadGit(l) ==
    /\ l.asOf = Unread
    /\ \E n \in {0} \union {tree[w] : w \in Range(chips) \intersect {l.of}} :
           loads' = (loads \ {l}) \union {[l EXCEPT !.asOf = n]}
    /\ UNCHANGED <<where, left, git, turn, tree, verbed, spaceOf, shifts>>

Read(l) == [of |-> l.of, asOf |-> l.asOf, loaded |-> TRUE]

(* Plausible bug: whatever answer comes is put up.                          *)
AnyAnswer(l) ==
    /\ Takes /\ l.asOf # Unread /\ loads' = loads \ {l}
    /\ git' = Read(l)
    /\ UNCHANGED <<spaceOf, where, left, tree, verbed, shifts>>

(* git_rx: anything but the newest answer is dropped; apply_git_load.       *)
GitAnswer(l) ==
    /\ Takes /\ l.asOf # Unread /\ loads' = loads \ {l}
    /\ git' = IF l.newest THEN Read(l) ELSE git
    /\ UNCHANGED <<spaceOf, where, left, tree, verbed, shifts>>

PagesNext ==
    \/ LoopPass \/ CloseWorkspace \/ Pushed \/ Verb \/ GitRefresh
    \/ \E t \in 1 .. Cardinality(Projects) : SelectTab(t) \/ OpenFleetRow(t)
    \/ \E p \in AllPages : GoTo(p)
    \/ \E l \in loads : ReadGit(l) \/ GitAnswer(l)

PagesSpec == PagesInit /\ [][PagesNext]_pagesVars

-----------------------------------------------------------------------------
PagesTypeOK ==
    /\ chips \in Seq(Projects) /\ IsInjective(chips) /\ tab \in 1 .. Cardinality(Projects)
    /\ page \in AllPages /\ showedPage \in AllPages /\ showing \in Projects \union {Nobody}
    /\ leftOn \in [Projects -> {"work", "git", Nobody}]
    /\ git \in [of : Projects \union {Nobody}, asOf : 0 .. MaxVerbs, loaded : BOOLEAN]
    /\ loads \subseteq [of : Projects, asOf : 0 .. Unread, newest : BOOLEAN]
    /\ spaceOf \in [Projects -> {"work", "git", Nobody}]

(* spawn_git_refresh: of all the answers on their way one at most is taken. *)
OneAwaited == Cardinality({l \in loads : l.newest}) <= 1

(* refresh_git_if_showing: what the page shows of a project is never older  *)
(* than the last thing done to it from there, if all of it could be read.   *)
NothingUndone ==
    git.loaded /\ git.of # Nobody /\ git.asOf # 0 => git.asOf >= verbed[git.of]

(* docs/workbench.md: a project is up on the space that was last chosen for *)
(* it, wherever its chip has moved, whatever was pushed, and whichever other*)
(* project or page was up meanwhile.  The chip of the project that is up,   *)
(* chosen on BOOTH, chooses WORK.                                           *)
ComesBack ==
    turn = "event" /\ showing # Nobody /\ IsSpace(page) => page = spaceOf[showing]

(* The GIT page says "loading" only as long as an answer that will be taken *)
(* is on its way, and it is about the chip that is up.                      *)
LoadIsComing ==
    turn = "event" /\ page = "git" /\ ~ git.loaded =>
        \E l \in loads : l.newest /\ l.of = showing

(* The page that is up is the one the gestures so far lead to.              *)
PageIsRight == PagesTypeOK /\ ComesBack

(* What GIT shows is the newest that was asked for, or is about to be.      *)
GitIsFresh == OneAwaited /\ NothingUndone /\ LoadIsComing

(* run: "anything but the newest answer is about a repository, a scope or a *)
(* tab the page has already left": what GIT shows is the project's.         *)
GitIsOurs ==
    turn = "event" /\ page = "git" /\ git.loaded /\ showing # Nobody => git.of = showing
=============================================================================

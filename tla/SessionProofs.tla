--------------------------- MODULE SessionProofs ---------------------------
(***************************************************************************)
(* What session.json keeps, for every set of directories, every workspace  *)
(* file and every combination of faults: an entry held for a directory     *)
(* that is away survives the start that could not open it, a stopped       *)
(* daemon leaves on disk what it wrote when it was told to stop, and the   *)
(* rails, the file and the dumps make one session throughout.              *)
(*                                                                         *)
(* None of them holds of an arbitrary typed state.  A held entry of the    *)
(* file is covered, while a start is under way, by an entry still to       *)
(* visit, one put aside, or a workspace that is open again (Covered); once *)
(* the daemon serves, by `held` itself.  And the file is frozen exactly    *)
(* when the daemon is coming up or going down (Gated).                     *)
(*                                                                         *)
(* One session needs more.  No conversation is held twice by the panes, by *)
(* the entries of the file, or by those still to come of a start under way *)
(* (Holders); and a dump paints no other pane than the one whose place it  *)
(* has, at the end of its rail and beyond it (Painted), in every directory *)
(* of which one workspace or one entry can speak (Screened).               *)
(*                                                                         *)
(* That the daemon implements Workbench, and a start forgets no agent, is  *)
(* proved for Faults = {}: each of the faults by itself refutes it.  Every *)
(* workspace is then whole, its panes told apart by their works (Placed),  *)
(* and a start brings an entry back pane by pane, to the roster the file   *)
(* had of it (Returning).                                                  *)
(***************************************************************************)
EXTENDS Session, TLAPS, WellFoundedInduction, SequenceTheorems,
        FiniteSetTheorems

-----------------------------------------------------------------------------
(* Type correctness, and the lemmas on rails, entries and captures.         *)

(* A bounded set of numbers has a largest element.                          *)
LEMMA LargestExists ==
    ASSUME NEW S \in SUBSET Nat, S # {}, NEW n \in Nat, \A s \in S : s <= n
    PROVE  \E m \in S : \A s \in S : s <= m
<1> DEFINE T == {n - s : s \in S}
           R == {p \in Nat \X Nat : p[1] < p[2]}
<1>1. IsWellFoundedOn(R, Nat)
  BY NatLessThanWellFounded DEF OpToRel
<1>2. T \subseteq Nat /\ T # {}
  <2>1. \A s \in S : n - s \in Nat
    OBVIOUS
  <2> QED BY <2>1
<1>3. \A x, y \in Nat : y < x => <<y, x>> \in R
  OBVIOUS
<1> HIDE DEF R
<1>4. PICK x \in T : \A y \in T : <<y, x>> \notin R
  BY <1>1, <1>2, WFMin
<1>5. \A y \in T : ~ (y < x)
  BY <1>2, <1>3, <1>4
<1>6. PICK m \in S : x = n - m
  OBVIOUS
<1>7. \A s \in S : ~ (n - s < n - m)
  BY <1>5, <1>6
<1> QED BY <1>7

(* Taking an element out of a sequence leaves a sequence of the same type.  *)
LEMMA RemoveAtType ==
    ASSUME NEW S, NEW s \in Seq(S), NEW i \in DOMAIN s
    PROVE  RemoveAt(s, i) \in Seq(S)
<1>1. SubSeq(s, 1, i - 1) \in Seq(S)
  OBVIOUS
<1>2. SubSeq(s, i + 1, Len(s)) \in Seq(S)
  OBVIOUS
<1> QED BY <1>1, <1>2 DEF RemoveAt

(* A pane built from typed parts is a pane.                                 *)
LEMMA PaneHasType ==
    ASSUME NEW kind \in {"agent", "shell", "cmd"}, NEW work \in Nat,
           NEW conv \in Nat, NEW spoke \in BOOLEAN, NEW screen \in Nat
    PROVE  Pane(kind, work, conv, spoke, screen) \in PaneType
BY DEF Pane, PaneType

LEMMA FreshPanes ==
    ASSUME NEW n \in Nat, NEW kind \in {"shell", "cmd"}
    PROVE  /\ FreshAgent(n) \in PaneType
           /\ FreshProc(kind, n) \in PaneType
BY PaneHasType DEF FreshAgent, FreshProc

LEMMA LaunchesFit ==
    ASSUME NEW d \in Dirs, NEW up \in Launches(d)
    PROVE  /\ up.procs \in Nat /\ up.agents \in Nat
           /\ FileProcs[d] \in Nat /\ Autostart[d] \in Nat
           /\ up.procs <= FileProcs[d] /\ up.agents <= Autostart[d]
<1>1. FileProcs[d] \in Nat /\ Autostart[d] \in Nat
  BY SessionAssumption
<1> QED BY <1>1 DEF Launches

LEMMA FreshWorkspaceType ==
    ASSUME NEW d \in Dirs, NEW n \in Nat, NEW up \in Launches(d)
    PROVE  /\ FreshWorkspace(d, n, up) \in WorkspaceType
           /\ FreshWorkspace(d, n, up).dir = d
           /\ FreshCount(d) \in Nat
<1>1. /\ up.procs \in Nat /\ up.agents \in Nat
      /\ FileProcs[d] \in Nat /\ Autostart[d] \in Nat
  BY LaunchesFit
<1>2. [i \in 1 .. 1 + up.procs |->
          FreshProc(IF i = 1 THEN "shell" ELSE "cmd", n + i)] \in Seq(PaneType)
  <2>1. \A i \in 1 .. 1 + up.procs :
           FreshProc(IF i = 1 THEN "shell" ELSE "cmd", n + i) \in PaneType
    BY <1>1, FreshPanes
  <2> QED BY <1>1, <2>1
<1>3. [i \in 1 .. up.agents |-> FreshAgent(n + 1 + up.procs + i)]
          \in Seq(PaneType)
  <2>1. \A i \in 1 .. up.agents :
           FreshAgent(n + 1 + up.procs + i) \in PaneType
    BY <1>1, FreshPanes
  <2> QED BY <1>1, <2>1
<1> QED BY <1>1, <1>2, <1>3 DEF FreshWorkspace, WorkspaceType, FreshCount

(* Re-staging changes the stage and nothing else.                           *)
LEMMA RestageType ==
    ASSUME NEW ws \in WorkspaceType, NEW gone
    PROVE  /\ Restage(ws, gone) \in WorkspaceType
           /\ Restage(ws, gone).dir = ws.dir
<1>1. ws.procs # <<>> => ws.procs[1].work \in Nat
  <2>1. ws.procs \in Seq(PaneType)
    BY DEF WorkspaceType
  <2>2. ws.procs # <<>> => ws.procs[1] \in PaneType
    BY <2>1
  <2> QED BY <2>2 DEF PaneType
<1>2. ws.agents # <<>> => ws.agents[1].work \in Nat
  <2>1. ws.agents \in Seq(PaneType)
    BY DEF WorkspaceType
  <2>2. ws.agents # <<>> => ws.agents[1] \in PaneType
    BY <2>1
  <2> QED BY <2>2 DEF PaneType
<1> QED BY <1>1, <1>2 DEF Restage, WorkspaceType

LEMMA ForgetAgentType ==
    ASSUME NEW ws \in WorkspaceType, NEW i \in DOMAIN ws.agents
    PROVE  /\ ForgetAgent(ws, i) \in WorkspaceType
           /\ ForgetAgent(ws, i).dir = ws.dir
<1> DEFINE w == [ws EXCEPT !.agents = RemoveAt(@, i)]
<1>1. RemoveAt(ws.agents, i) \in Seq(PaneType)
  BY RemoveAtType DEF WorkspaceType
<1>2. w \in WorkspaceType /\ w.dir = ws.dir
  BY <1>1 DEF WorkspaceType
<1> HIDE DEF w
<1>3. ForgetAgent(ws, i) = Restage(w, ws.agents[i].work)
  BY DEF ForgetAgent, w
<1> QED BY <1>2, <1>3, RestageType

LEMMA ForgetProcType ==
    ASSUME NEW ws \in WorkspaceType, NEW i \in DOMAIN ws.procs
    PROVE  /\ ForgetProc(ws, i) \in WorkspaceType
           /\ ForgetProc(ws, i).dir = ws.dir
<1> DEFINE w == [ws EXCEPT !.procs = RemoveAt(@, i)]
<1>1. RemoveAt(ws.procs, i) \in Seq(PaneType)
  BY RemoveAtType DEF WorkspaceType
<1>2. w \in WorkspaceType /\ w.dir = ws.dir
  BY <1>1 DEF WorkspaceType
<1> HIDE DEF w
<1>3. ForgetProc(ws, i) = Restage(w, ws.procs[i].work)
  BY DEF ForgetProc, w
<1> QED BY <1>2, <1>3, RestageType

LEMMA PaneEntryType ==
    ASSUME NEW p \in PaneType
    PROVE  /\ AgentEntry(p) \in AgentEntryType
           /\ ProcEntry(p) \in ProcEntryType
BY DEF PaneType, AgentEntry, AgentEntryType, ProcEntry, ProcEntryType

(* What persist_session writes is a session file.                           *)
LEMMA EntryHasType ==
    ASSUME NEW ws \in WorkspaceType
    PROVE  /\ Entry(ws) \in EntryType
           /\ Entry(ws).dir = ws.dir
<1>1. [i \in DOMAIN ws.agents |-> AgentEntry(ws.agents[i])]
          \in Seq(AgentEntryType)
  <2>1. ws.agents \in Seq(PaneType)
    BY DEF WorkspaceType
  <2>2. \A i \in DOMAIN ws.agents : AgentEntry(ws.agents[i]) \in AgentEntryType
    BY <2>1, PaneEntryType
  <2>3. DOMAIN ws.agents = 1 .. Len(ws.agents) /\ Len(ws.agents) \in Nat
    BY <2>1
  <2> QED BY <2>2, <2>3
<1>2. [i \in DOMAIN ws.procs |-> ProcEntry(ws.procs[i])]
          \in Seq(ProcEntryType)
  <2>1. ws.procs \in Seq(PaneType)
    BY DEF WorkspaceType
  <2>2. \A i \in DOMAIN ws.procs : ProcEntry(ws.procs[i]) \in ProcEntryType
    BY <2>1, PaneEntryType
  <2>3. DOMAIN ws.procs = 1 .. Len(ws.procs) /\ Len(ws.procs) \in Nat
    BY <2>1
  <2> QED BY <2>2, <2>3
<1>3. StageSlot(ws) \in {"agent", "proc", "none"} \X Nat
  <2> DEFINE onAgents == {i \in DOMAIN ws.agents : ws.agents[i].work = ws.stage}
             onProcs == {i \in DOMAIN ws.procs : ws.procs[i].work = ws.stage}
  <2>1. onAgents # {} => (CHOOSE i \in onAgents : TRUE) \in Nat
    BY DEF WorkspaceType
  <2>2. onProcs # {} => (CHOOSE i \in onProcs : TRUE) \in Nat
    BY DEF WorkspaceType
  <2> QED BY <2>1, <2>2 DEF StageSlot
<1>4. ws.dir \in Dirs
  BY DEF WorkspaceType
<1> QED BY <1>1, <1>2, <1>3, <1>4 DEF Entry, EntryType

LEMMA PersistedType ==
    ASSUME NEW w \in Seq(WorkspaceType), NEW h \in SUBSET EntryType
    PROVE  Persisted(w, h) \in StoreType
<1>1. [k \in DOMAIN w |-> Entry(w[k])] \in Seq(EntryType)
  BY EntryHasType
<1> QED BY <1>1 DEF Persisted, StoreType

-----------------------------------------------------------------------------
(* How the shapes of step that the actions share keep the types.            *)

LEMMA UpdateType ==
    ASSUME NEW S, NEW s \in Seq(S), NEW k, NEW x, k \in DOMAIN s => x \in S
    PROVE  [s EXCEPT ![k] = x] \in Seq(S)
<1>1. Len(s) \in Nat /\ DOMAIN s = 1 .. Len(s) /\ s \in [1 .. Len(s) -> S]
  OBVIOUS
<1>2. [s EXCEPT ![k] = x] \in [1 .. Len(s) -> S]
  BY <1>1
<1> QED BY <1>1, <1>2

LEMMA SaveType ==
    ASSUME store \in StoreType, NEW w \in Seq(WorkspaceType),
           NEW h \in SUBSET EntryType, Save(w, h)
    PROVE  store' \in StoreType
BY PersistedType DEF Save

(* Replacing the rails or the stage of a workspace.                         *)
LEMMA RailsType ==
    ASSUME NEW ws \in WorkspaceType, NEW q \in Seq(PaneType), NEW stage \in Nat
    PROVE  /\ [ws EXCEPT !.agents = q] \in WorkspaceType
           /\ [ws EXCEPT !.agents = q, !.stage = stage] \in WorkspaceType
           /\ [ws EXCEPT !.procs = q] \in WorkspaceType
           /\ [ws EXCEPT !.procs = q, !.stage = stage] \in WorkspaceType
BY DEF WorkspaceType

LEMMA StageType ==
    ASSUME NEW ws \in WorkspaceType, NEW stage \in Nat
    PROVE  [ws EXCEPT !.stage = stage] \in WorkspaceType
BY DEF WorkspaceType

LEMMA AppendAgentType ==
    ASSUME NEW ws \in WorkspaceType, NEW p \in PaneType, NEW stage \in Nat
    PROVE  [ws EXCEPT !.agents = Append(@, p), !.stage = stage] \in WorkspaceType
<1>1. Append(ws.agents, p) \in Seq(PaneType)
  BY DEF WorkspaceType
<1> QED BY <1>1, RailsType

LEMMA AppendProcType ==
    ASSUME NEW ws \in WorkspaceType, NEW p \in PaneType, NEW stage \in Nat
    PROVE  /\ [ws EXCEPT !.procs = Append(@, p)] \in WorkspaceType
           /\ [ws EXCEPT !.procs = Append(@, p), !.stage = stage] \in WorkspaceType
<1>1. Append(ws.procs, p) \in Seq(PaneType)
  BY DEF WorkspaceType
<1> QED BY <1>1, RailsType

LEMMA SetPaneType ==
    ASSUME NEW ws \in WorkspaceType, NEW i, NEW p \in PaneType, NEW stage \in Nat
    PROVE  /\ [ws EXCEPT !.agents[i] = p] \in WorkspaceType
           /\ [ws EXCEPT !.agents[i] = p, !.stage = stage] \in WorkspaceType
           /\ [ws EXCEPT !.procs[i] = p] \in WorkspaceType
<1>1. [ws.agents EXCEPT ![i] = p] \in Seq(PaneType)
  BY UpdateType DEF WorkspaceType
<1>2. [ws.procs EXCEPT ![i] = p] \in Seq(PaneType)
  BY UpdateType DEF WorkspaceType
<1> QED BY <1>1, <1>2, RailsType

(* Serving leaves alone what only a start, a stop or the capture writes.    *)
LEMMA ServingType ==
    ASSUME TypeOK, NEW w \in Seq(WorkspaceType), Serving(w)
    PROVE  /\ phase' \in Phases /\ shutdown' \in BOOLEAN
           /\ wss' \in Seq(WorkspaceType) /\ todo' \in StoreType
           /\ cur' \in Seq(EntryType) /\ at' \in Nat
           /\ dumps' \in [Dirs -> DumpType] /\ starts' \in Nat
           /\ tainted' \in BOOLEAN
BY DEF Serving, TypeOK, restoreVars

LEMMA ReworkType ==
    ASSUME TypeOK, NEW k \in DOMAIN wss, NEW ws \in WorkspaceType, Rework(k, ws)
    PROVE  /\ phase' \in Phases /\ shutdown' \in BOOLEAN
           /\ wss' \in Seq(WorkspaceType) /\ todo' \in StoreType
           /\ cur' \in Seq(EntryType) /\ at' \in Nat
           /\ dumps' \in [Dirs -> DumpType] /\ starts' \in Nat
           /\ tainted' \in BOOLEAN
<1> DEFINE w == [wss EXCEPT ![k] = ws]
<1>1. w \in Seq(WorkspaceType)
  BY UpdateType DEF TypeOK
<1>2. Serving(w)
  BY DEF Rework
<1> HIDE DEF w
<1> QED BY <1>1, <1>2, ServingType

(* The entry a start visits is one of session.json.                         *)
LEMMA VisitType ==
    ASSUME TypeOK, NEW e \in {todo.live[i] : i \in DOMAIN todo.live} \cup todo.held,
           Visit(e)
    PROVE  e \in EntryType /\ todo' \in StoreType
<1>1. todo.live \in Seq(EntryType) /\ todo.held \in SUBSET EntryType
  BY DEF TypeOK, StoreType
<1>2. e \in EntryType
  BY <1>1
<1>3. todo.live # <<>> => Tail(todo.live) \in Seq(EntryType)
  BY <1>1
<1>4. [todo EXCEPT !.held = @ \ {e}] \in StoreType
  BY <1>1 DEF TypeOK, StoreType
<1>5. todo.live # <<>> => [todo EXCEPT !.live = Tail(@)] \in StoreType
  BY <1>3 DEF TypeOK, StoreType
<1> QED BY <1>2, <1>4, <1>5 DEF Visit

-----------------------------------------------------------------------------
(* Type correctness, one step per action.                                   *)

(* The parts of an open workspace, and the panes of a rail.                 *)
LEMMA PartsType ==
    ASSUME TypeOK, NEW k \in DOMAIN wss
    PROVE  /\ wss[k] \in WorkspaceType
           /\ wss[k].dir \in Dirs /\ wss[k].stage \in Nat
           /\ wss[k].agents \in Seq(PaneType) /\ wss[k].procs \in Seq(PaneType)
<1>1. wss[k] \in WorkspaceType
  BY DEF TypeOK
<1> QED BY <1>1 DEF WorkspaceType

LEMMA PanesType ==
    ASSUME NEW q \in Seq(PaneType), NEW i \in DOMAIN q
    PROVE  /\ q[i] \in PaneType
           /\ q[i].kind \in {"agent", "shell", "cmd"} /\ q[i].work \in Nat
           /\ q[i].conv \in Nat /\ q[i].spoke \in BOOLEAN /\ q[i].screen \in Nat
           /\ q[i].armed \in BOOLEAN /\ q[i].dead \in BOOLEAN
<1>1. q[i] \in PaneType
  OBVIOUS
<1> QED BY <1>1 DEF PaneType

LEMMA TypeInit == Init => TypeOK
<1>1. EmptyStore \in StoreType
  BY DEF EmptyStore, StoreType
<1>2. NoDumps \in DumpType
  BY DEF NoDumps, DumpType
<1>3. <<>> \in Seq(WorkspaceType) /\ <<>> \in Seq(EntryType)
  OBVIOUS
<1> SUFFICES ASSUME Init PROVE TypeOK
  OBVIOUS
<1>4. dumps \in [Dirs -> DumpType]
  BY <1>2 DEF Init
<1> QED BY <1>1, <1>3, <1>4 DEF Init, TypeOK, Phases

LEMMA CapturedType ==
    ASSUME TypeOK PROVE Captured \in [Dirs -> DumpType]
<1> SUFFICES ASSUME NEW d \in Dirs PROVE Captured[d] \in DumpType
  BY DEF Captured
<1> DEFINE here == {k \in DOMAIN wss : wss[k].dir = d}
           last == CHOOSE j \in here : \A o \in here : o <= j
<1>1. Captured[d] =
        IF here # {}
        THEN [agents |-> Screens(wss[last].agents), procs |-> Screens(wss[last].procs)]
        ELSE IF \E e \in held : e.dir = d THEN dumps[d] ELSE NoDumps
  BY DEF Captured
<1>2. here \in SUBSET Nat /\ Len(wss) \in Nat /\ \A k \in here : k <= Len(wss)
  BY DEF TypeOK
<1>3. here # {} => last \in DOMAIN wss
  <2> SUFFICES ASSUME here # {} PROVE last \in here
    OBVIOUS
  <2> HIDE DEF here
  <2>1. \E j \in here : \A o \in here : o <= j
    BY <1>2, LargestExists
  <2> QED BY <2>1
<1> HIDE DEF here, last
<1>4. ASSUME NEW k \in DOMAIN wss
      PROVE  [agents |-> Screens(wss[k].agents), procs |-> Screens(wss[k].procs)]
                 \in DumpType
  <2>1. wss[k].agents \in Seq(PaneType) /\ wss[k].procs \in Seq(PaneType)
    BY PartsType
  <2>2. ASSUME NEW q \in Seq(PaneType) PROVE Screens(q) \in Seq(Nat)
    <3>1. DOMAIN q = 1 .. Len(q) /\ Len(q) \in Nat
      OBVIOUS
    <3>2. \A i \in DOMAIN q : q[i].screen \in Nat
      BY PanesType
    <3> QED BY <3>1, <3>2 DEF Screens
  <2> QED BY <2>1, <2>2 DEF DumpType
<1>5. dumps[d] \in DumpType /\ NoDumps \in DumpType
  BY DEF TypeOK, NoDumps, DumpType
<1> QED BY <1>1, <1>3, <1>4, <1>5

LEMMA RestoreTypes ==
    ASSUME TypeOK, Restore PROVE TypeOK'
<1>1. CASE DeferEntry
  BY <1>1, VisitType DEF DeferEntry, TypeOK, Visit, diskVars, ghostVars
<1>2. CASE SkipEntry
  BY <1>2, VisitType DEF SkipEntry, TypeOK, Visit, diskVars, ghostVars
<1>3. CASE ReopenFresh
  <2>e. PICK e \in {todo.live[i] : i \in DOMAIN todo.live} \cup todo.held :
            \E up \in Launches(e.dir) :
                /\ Visit(e)
                /\ wss' = Append(wss, FreshWorkspace(e.dir, minted, up))
                /\ held' = {h \in held : h.dir # e.dir}
                /\ minted' = minted + FreshCount(e.dir)
                /\ hadWs' = TRUE
                /\ Save(wss', held')
                /\ UNCHANGED <<phase, shutdown, cur, at, dumps, starts, ghostVars>>
    BY <1>3 DEF ReopenFresh
  <2>1. PICK up \in Launches(e.dir) :
            /\ Visit(e)
            /\ wss' = Append(wss, FreshWorkspace(e.dir, minted, up))
            /\ held' = {h \in held : h.dir # e.dir}
            /\ minted' = minted + FreshCount(e.dir)
            /\ hadWs' = TRUE
            /\ Save(wss', held')
            /\ UNCHANGED <<phase, shutdown, cur, at, dumps, starts, ghostVars>>
    BY <2>e
  <2>2. e \in EntryType /\ todo' \in StoreType
    BY <2>1, VisitType
  <2>3. e.dir \in Dirs
    BY <2>2 DEF EntryType
  <2>4. wss' \in Seq(WorkspaceType) /\ minted' \in Nat
    BY <2>1, <2>3, FreshWorkspaceType DEF TypeOK
  <2>5. held' \in SUBSET EntryType
    BY <2>1 DEF TypeOK
  <2>6. store' \in StoreType
    BY <2>1, <2>4, <2>5, SaveType DEF TypeOK
  <2> QED BY <2>1, <2>2, <2>4, <2>5, <2>6 DEF TypeOK, ghostVars
<1>4. CASE BeginRebuild
  <2>1. PICK e \in {todo.live[i] : i \in DOMAIN todo.live} \cup todo.held :
            /\ Visit(e)
            /\ wss' = Append(wss, [dir |-> e.dir, procs |-> <<>>, agents |-> <<>>,
                                   stage |-> 0])
            /\ held' = {h \in held : h.dir # e.dir}
            /\ cur' = <<e>>
            /\ at' = 0
            /\ hadWs' = TRUE
            /\ UNCHANGED <<phase, shutdown, diskVars, minted, starts, ghostVars>>
    BY <1>4 DEF BeginRebuild
  <2>2. e \in EntryType /\ todo' \in StoreType
    BY <2>1, VisitType
  <2>3. [dir |-> e.dir, procs |-> <<>>, agents |-> <<>>, stage |-> 0] \in WorkspaceType
    BY <2>2 DEF EntryType, WorkspaceType
  <2>4. wss' \in Seq(WorkspaceType)
    BY <2>1, <2>3 DEF TypeOK
  <2>5. held' \in SUBSET EntryType /\ cur' \in Seq(EntryType)
    BY <2>1, <2>2 DEF TypeOK
  <2> QED BY <2>1, <2>2, <2>4, <2>5 DEF TypeOK, diskVars, ghostVars
<1> DEFINE last == wss[Len(wss)]
<1>l. Len(wss) \in DOMAIN wss => last \in WorkspaceType
  BY PartsType
<1>d. ASSUME NEW q \in Seq(Nat), NEW i PROVE DumpAt(q, i) \in Nat
  BY DEF DumpAt
<1>c. cur # <<>> => /\ cur[1] \in EntryType /\ cur[1].dir \in Dirs
                    /\ cur[1].agents \in Seq(AgentEntryType)
                    /\ cur[1].procs \in Seq(ProcEntryType)
                    /\ dumps[cur[1].dir].agents \in Seq(Nat)
                    /\ dumps[cur[1].dir].procs \in Seq(Nat)
  <2> SUFFICES ASSUME cur # <<>>
               PROVE  /\ cur[1] \in EntryType /\ cur[1].dir \in Dirs
                      /\ cur[1].agents \in Seq(AgentEntryType)
                      /\ cur[1].procs \in Seq(ProcEntryType)
                      /\ dumps[cur[1].dir].agents \in Seq(Nat)
                      /\ dumps[cur[1].dir].procs \in Seq(Nat)
    OBVIOUS
  <2>1. cur[1] \in EntryType
    BY DEF TypeOK
  <2>2. /\ cur[1].dir \in Dirs /\ cur[1].agents \in Seq(AgentEntryType)
        /\ cur[1].procs \in Seq(ProcEntryType)
    BY <2>1 DEF EntryType
  <2>3. dumps[cur[1].dir] \in DumpType
    BY <2>2 DEF TypeOK
  <2> QED BY <2>1, <2>2, <2>3 DEF DumpType
<1>5. CASE RebuildProc
  <2> DEFINE p == cur[1].procs[at + 1]
             pane == Pane(p.kind, p.work, 0, FALSE,
                          DumpAt(dumps[cur[1].dir].procs, at + 1))
  <2>1. p \in ProcEntryType
    BY <1>5, <1>c DEF RebuildProc, TypeOK
  <2>2. p.kind \in {"agent", "shell", "cmd"} /\ p.work \in Nat
    BY <2>1 DEF ProcEntryType
  <2>3. pane \in PaneType
    BY <1>5, <1>c, <1>d, <2>2, PaneHasType DEF RebuildProc
  <2> DEFINE new == [last EXCEPT !.procs = Append(@, pane)]
  <2> HIDE DEF pane
  <2>4. Len(wss) \in DOMAIN wss => new \in WorkspaceType
    BY <1>l, <2>3, AppendProcType, 0 \in Nat
  <2>5. \/ wss' = [wss EXCEPT ![Len(wss)] = new]
        \/ wss' = wss
    BY <1>5 DEF RebuildProc, RebuildLast, pane
  <2> HIDE DEF new
  <2>6. wss' \in Seq(WorkspaceType)
    BY <2>4, <2>5, UpdateType DEF TypeOK
  <2> QED BY <1>5, <2>6 DEF RebuildProc, TypeOK, diskVars, ghostVars
<1>6. CASE RebuildAgent
  <2> DEFINE i == at + 1 - Len(cur[1].procs)
             a == cur[1].agents[i]
             pane == Pane("agent", a.work, IF a.spoke THEN a.conv ELSE minted + 1,
                          a.spoke, DumpAt(dumps[cur[1].dir].agents, i))
  <2>1. i \in DOMAIN cur[1].agents
    <3> HIDE DEF a, pane
    <3>1. /\ cur # <<>> /\ at >= Len(cur[1].procs)
          /\ at < Len(cur[1].procs) + Len(cur[1].agents)
      BY <1>6 DEF RebuildAgent
    <3>2. /\ Len(cur[1].procs) \in Nat /\ Len(cur[1].agents) \in Nat
          /\ DOMAIN cur[1].agents = 1 .. Len(cur[1].agents)
      BY <3>1, <1>c
    <3>3. at \in Nat
      BY DEF TypeOK
    <3>4. \A m, n, k \in Nat : k >= m /\ k < m + n => k + 1 - m \in 1 .. n
      OBVIOUS
    <3>5. i \in 1 .. Len(cur[1].agents)
      BY <3>1, <3>2, <3>3, <3>4
    <3> QED BY <3>2, <3>5
  <2>2. a \in AgentEntryType
    BY <1>6, <1>c, <2>1 DEF RebuildAgent
  <2>3. a.work \in Nat /\ a.conv \in Nat /\ a.spoke \in BOOLEAN
    BY <2>2 DEF AgentEntryType
  <2>4. pane \in PaneType
    <3> HIDE DEF a
    <3>1. (IF a.spoke THEN a.conv ELSE minted + 1) \in Nat
      BY <2>3 DEF TypeOK
    <3>2. DumpAt(dumps[cur[1].dir].agents, i) \in Nat
      BY <1>6, <1>c, <1>d DEF RebuildAgent
    <3> HIDE DEF i
    <3> QED BY <2>3, <3>1, <3>2, PaneHasType
  <2> DEFINE new == [last EXCEPT !.agents = Append(@, pane), !.stage = a.work]
  <2>5. /\ \/ /\ wss' = [wss EXCEPT ![Len(wss)] = new]
              /\ minted' = IF a.spoke THEN minted ELSE minted + 1
              /\ Save(wss', held)
           \/ UNCHANGED <<wss, minted, store>>
        /\ at' = at + 1
        /\ UNCHANGED <<phase, shutdown, hadWs, held, todo, cur, dumps, starts,
                       ghostVars>>
    BY <1>6 DEF RebuildAgent, RebuildLast
  <2> HIDE DEF pane, a
  <2>6. Len(wss) \in DOMAIN wss => new \in WorkspaceType
    BY <1>l, <2>3, <2>4, AppendAgentType
  <2> HIDE DEF new
  <2>7. wss' \in Seq(WorkspaceType)
    BY <2>5, <2>6, UpdateType DEF TypeOK
  <2>8. store' \in StoreType
    BY <2>5, <2>7, SaveType DEF TypeOK
  <2> QED BY <2>5, <2>7, <2>8 DEF TypeOK, ghostVars
<1>7. CASE EndRebuild
  <2> DEFINE stage == StagedWork(last, cur[1])
  <2>1. Len(wss) \in DOMAIN wss => stage \in Nat
    <3> SUFFICES ASSUME Len(wss) \in DOMAIN wss PROVE stage \in Nat
      OBVIOUS
    <3>1. /\ last.agents \in Seq(PaneType) /\ last.procs \in Seq(PaneType)
          /\ last.stage \in Nat
      BY PartsType
    <3>2. /\ \A j \in DOMAIN last.agents : last.agents[j].work \in Nat
          /\ \A j \in DOMAIN last.procs : last.procs[j].work \in Nat
      BY <3>1, PanesType
    <3>3. last.procs # <<>> => last.procs[1].work \in Nat
      BY <3>1, <3>2
    <3> HIDE DEF last
    <3> QED BY <3>1, <3>2, <3>3 DEF StagedWork
  <2> HIDE DEF stage
  <2>2. Len(wss) \in DOMAIN wss => [last EXCEPT !.stage = stage] \in WorkspaceType
    BY <1>l, <2>1, StageType
  <2>3. /\ wss' = [wss EXCEPT ![Len(wss)] = [last EXCEPT !.stage = stage]]
        /\ Save(wss', held)
    BY <1>7 DEF EndRebuild, RebuildLast, stage
  <2> HIDE DEF last
  <2>4. wss' \in Seq(WorkspaceType)
    BY <2>2, <2>3, UpdateType DEF TypeOK
  <2>5. store' \in StoreType
    BY <2>3, <2>4, SaveType DEF TypeOK
  <2>6. cur' \in Seq(EntryType) /\ at' \in Nat
    BY <1>7 DEF EndRebuild
  <2> QED BY <1>7, <2>4, <2>5, <2>6 DEF EndRebuild, TypeOK, ghostVars
<1>8. CASE RestoreDone
  <2>1. store' \in StoreType
    BY <1>8, PersistedType DEF RestoreDone, TypeOK
  <2>2. changed' \in BOOLEAN
    BY <1>8 DEF RestoreDone, TypeOK
  <2> QED BY <1>8, <2>1, <2>2 DEF RestoreDone, TypeOK, Phases, restoreVars
<1> QED BY <1>1, <1>2, <1>3, <1>4, <1>5, <1>6, <1>7, <1>8 DEF Restore

(* A handler that changes one workspace and writes session.json, or not.    *)
LEMMA HandlerType ==
    ASSUME TypeOK, NEW k \in DOMAIN wss, NEW ws \in WorkspaceType, Rework(k, ws),
           UNCHANGED <<held, hadWs>>, minted' \in Nat, changed' \in BOOLEAN,
           Save(wss', held) \/ UNCHANGED store
    PROVE  TypeOK'
<1>1. /\ phase' \in Phases /\ shutdown' \in BOOLEAN
      /\ wss' \in Seq(WorkspaceType) /\ todo' \in StoreType
      /\ cur' \in Seq(EntryType) /\ at' \in Nat
      /\ dumps' \in [Dirs -> DumpType] /\ starts' \in Nat
      /\ tainted' \in BOOLEAN
  BY ReworkType
<1>2. store' \in StoreType
  BY <1>1, SaveType DEF TypeOK
<1> QED BY <1>1, <1>2 DEF TypeOK

LEMMA KillWorkspaceType ==
    ASSUME TypeOK, NEW k \in DOMAIN wss, KillWorkspace(k) PROVE TypeOK'
<1>1. RemoveAt(wss, k) \in Seq(WorkspaceType)
  BY RemoveAtType DEF TypeOK
<1>2. Serving(RemoveAt(wss, k)) /\ Save(wss', held)
      /\ UNCHANGED <<held, minted, hadWs, changed>>
  BY DEF KillWorkspace
<1>3. /\ phase' \in Phases /\ shutdown' \in BOOLEAN
      /\ wss' \in Seq(WorkspaceType) /\ todo' \in StoreType
      /\ cur' \in Seq(EntryType) /\ at' \in Nat
      /\ dumps' \in [Dirs -> DumpType] /\ starts' \in Nat
      /\ tainted' \in BOOLEAN
  BY <1>1, <1>2, ServingType
<1>4. store' \in StoreType
  BY <1>2, <1>3, SaveType DEF TypeOK
<1> QED BY <1>2, <1>3, <1>4 DEF TypeOK

LEMMA DropTypes ==
    ASSUME TypeOK, NEW k \in DOMAIN wss
    PROVE  /\ \A i \in DOMAIN wss[k].agents : DropAgent(k, i) => TypeOK'
           /\ \A i \in DOMAIN wss[k].procs : DropProc(k, i) => TypeOK'
<1> USE PartsType
<1>1. ASSUME NEW i \in DOMAIN wss[k].agents, DropAgent(k, i) PROVE TypeOK'
  BY <1>1, ForgetAgentType, HandlerType DEF DropAgent, TypeOK
<1>2. ASSUME NEW i \in DOMAIN wss[k].procs, DropProc(k, i) PROVE TypeOK'
  BY <1>2, ForgetProcType, HandlerType DEF DropProc, TypeOK
<1> QED BY <1>1, <1>2

LEMMA AgentStepType ==
    ASSUME TypeOK, NEW k \in DOMAIN wss, NEW i \in DOMAIN wss[k].agents,
           AgentStep(k, i)
    PROVE  TypeOK'
<1> DEFINE ws == wss[k]
           p == ws.agents[i]
<1>0. /\ ws \in WorkspaceType /\ ws.stage \in Nat /\ ws.agents \in Seq(PaneType)
      /\ p \in PaneType /\ p.work \in Nat /\ p.screen \in Nat
  BY PartsType, PanesType
<1>1. CASE DropAgent(k, i) \/ AgentExitsClean(k, i)
  BY <1>1, DropTypes DEF AgentExitsClean
<1>2. CASE Speak(k, i)
  <2> DEFINE new == [ws EXCEPT !.agents[i] = [@ EXCEPT !.spoke = TRUE]]
  <2>1. [p EXCEPT !.spoke = TRUE] \in PaneType
    BY <1>0 DEF PaneType
  <2>2. new \in WorkspaceType
    BY <1>0, <2>1, SetPaneType
  <2>3. Rework(k, new) /\ Save(wss', held) /\ UNCHANGED <<held, hadWs, minted, changed>>
    BY <1>2 DEF Speak
  <2> HIDE DEF new
  <2> QED BY <2>2, <2>3, HandlerType DEF TypeOK
<1>3. CASE AgentOutput(k, i)
  <2> DEFINE new == [ws EXCEPT !.agents[i] = [@ EXCEPT !.screen = p.work]]
  <2>1. [p EXCEPT !.screen = p.work] \in PaneType
    BY <1>0 DEF PaneType
  <2>2. new \in WorkspaceType
    BY <1>0, <2>1, SetPaneType
  <2>3. Rework(k, new) /\ UNCHANGED <<held, hadWs, minted, store, changed>>
    BY <1>3 DEF AgentOutput
  <2> HIDE DEF new
  <2> QED BY <2>2, <2>3, HandlerType DEF TypeOK
<1>4. CASE AgentFails(k, i)
  <2> DEFINE new == [ws EXCEPT !.agents[i] = [@ EXCEPT !.dead = TRUE, !.armed = FALSE]]
  <2>1. [p EXCEPT !.dead = TRUE, !.armed = FALSE] \in PaneType
    BY <1>0 DEF PaneType
  <2>2. new \in WorkspaceType
    BY <1>0, <2>1, SetPaneType
  <2>3. Rework(k, new) /\ UNCHANGED <<held, hadWs, minted, store, changed>>
    BY <1>4 DEF AgentFails
  <2> HIDE DEF new
  <2> QED BY <2>2, <2>3, HandlerType DEF TypeOK
<1>5. CASE RetryResume(k, i)
  <2> DEFINE pane == Pane("agent", p.work, minted + 1, FALSE, p.screen)
             new == [ws EXCEPT !.agents[i] = pane,
                               !.stage = IF @ = 0 THEN p.work ELSE @]
  <2>1. pane \in PaneType
    <3>1. minted + 1 \in Nat
      BY DEF TypeOK
    <3> HIDE DEF p
    <3> QED BY <1>0, <3>1, PaneHasType
  <2> HIDE DEF pane
  <2>2. new \in WorkspaceType /\ ForgetAgent(ws, i) \in WorkspaceType
    BY <1>0, <2>1, SetPaneType, ForgetAgentType
  <2>3. /\ \/ Rework(k, new) /\ minted' = minted + 1 /\ UNCHANGED changed
           \/ Rework(k, ForgetAgent(ws, i)) /\ changed' = TRUE /\ UNCHANGED minted
        /\ Save(wss', held)
        /\ UNCHANGED <<held, hadWs>>
    BY <1>5 DEF RetryResume, pane
  <2> HIDE DEF new
  <2>4. minted' \in Nat /\ changed' \in BOOLEAN
    <3>1. minted \in Nat /\ changed \in BOOLEAN
      BY DEF TypeOK
    <3>2. minted' = minted + 1 \/ minted' = minted
      BY <2>3
    <3>3. changed' = changed \/ changed' = TRUE
      BY <2>3
    <3>4. minted' \in Nat
      BY <3>1, <3>2
    <3> QED BY <3>1, <3>3, <3>4
  <2> QED BY <2>2, <2>3, <2>4, HandlerType
<1> QED BY <1>1, <1>2, <1>3, <1>4, <1>5 DEF AgentStep

LEMMA ProcStepType ==
    ASSUME TypeOK, NEW k \in DOMAIN wss, NEW i \in DOMAIN wss[k].procs,
           ProcStep(k, i)
    PROVE  TypeOK'
<1> DEFINE ws == wss[k]
           p == ws.procs[i]
<1>0. /\ ws \in WorkspaceType /\ ws.stage \in Nat /\ ws.procs \in Seq(PaneType)
      /\ p \in PaneType /\ p.work \in Nat /\ p.kind \in {"agent", "shell", "cmd"}
  BY PartsType, PanesType
<1>1. CASE DropProc(k, i)
  BY <1>1, DropTypes
<1>2. CASE RestartProcess(k, i)
  <2> DEFINE without == ForgetProc(ws, i)
             new == [without EXCEPT !.procs = Append(@, FreshProc(p.kind, p.work))]
  <2>1. without \in WorkspaceType
    BY <1>0, ForgetProcType
  <2>2. FreshProc(p.kind, p.work) \in PaneType
    BY <1>0, PaneHasType DEF FreshProc
  <2>3. /\ Rework(k, new) \/ Rework(k, without)
        /\ changed' = TRUE
        /\ UNCHANGED <<held, hadWs, minted, store>>
    BY <1>2 DEF RestartProcess
  <2> HIDE DEF without
  <2>4. new \in WorkspaceType
    BY <2>1, <2>2, AppendProcType, 0 \in Nat
  <2> HIDE DEF new
  <2> QED BY <2>1, <2>3, <2>4, HandlerType DEF TypeOK
<1>3. CASE ProcOutput(k, i)
  <2> DEFINE new == [ws EXCEPT !.procs[i] = [@ EXCEPT !.screen = p.work]]
  <2>1. [p EXCEPT !.screen = p.work] \in PaneType
    BY <1>0 DEF PaneType
  <2>2. new \in WorkspaceType
    BY <1>0, <2>1, SetPaneType
  <2>3. Rework(k, new) /\ UNCHANGED <<held, hadWs, minted, store, changed>>
    BY <1>3 DEF ProcOutput
  <2> HIDE DEF new
  <2> QED BY <2>2, <2>3, HandlerType DEF TypeOK
<1>4. CASE ShellExits(k, i)
  BY <1>4, DropTypes, KillWorkspaceType DEF ShellExits
<1>5. CASE CommandExits(k, i)
  <2> DEFINE new == [ws EXCEPT !.procs[i] = [@ EXCEPT !.dead = TRUE]]
  <2>1. [p EXCEPT !.dead = TRUE] \in PaneType
    BY <1>0 DEF PaneType
  <2>2. new \in WorkspaceType
    BY <1>0, <2>1, SetPaneType
  <2>3. \/ DropProc(k, i)
        \/ Rework(k, new) /\ UNCHANGED <<held, hadWs, minted, store, changed>>
    BY <1>5 DEF CommandExits
  <2> HIDE DEF new
  <2> QED BY <2>2, <2>3, DropTypes, HandlerType DEF TypeOK
<1> QED BY <1>1, <1>2, <1>3, <1>4, <1>5 DEF ProcStep

LEMMA ServeType ==
    ASSUME TypeOK, Serve PROVE TypeOK'
<1>1. ASSUME NEW d \in Dirs, NEW up \in Launches(d), OpenWorkspace(d, up) PROVE TypeOK'
  <2> DEFINE w == Append(wss, FreshWorkspace(d, minted, up))
  <2>1. w \in Seq(WorkspaceType) /\ FreshCount(d) \in Nat
    BY FreshWorkspaceType DEF TypeOK
  <2>2. /\ Serving(w)
        /\ held' = {h \in held : h.dir # d}
        /\ minted' = minted + FreshCount(d)
        /\ hadWs' = TRUE
        /\ changed' = TRUE
        /\ Save(wss', held')
    BY <1>1 DEF OpenWorkspace
  <2> HIDE DEF w
  <2>3. /\ phase' \in Phases /\ shutdown' \in BOOLEAN
        /\ wss' \in Seq(WorkspaceType) /\ todo' \in StoreType
        /\ cur' \in Seq(EntryType) /\ at' \in Nat
        /\ dumps' \in [Dirs -> DumpType] /\ starts' \in Nat
        /\ tainted' \in BOOLEAN
    BY <2>1, <2>2, ServingType
  <2>4. held' \in SUBSET EntryType
    BY <2>2 DEF TypeOK
  <2>5. store' \in StoreType
    BY <2>2, <2>3, <2>4, SaveType DEF TypeOK
  <2>6. minted' \in Nat
    BY <2>1, <2>2 DEF TypeOK
  <2> QED BY <2>2, <2>3, <2>4, <2>5, <2>6 DEF TypeOK
<1>2. ASSUME NEW k \in DOMAIN wss, NEW background \in BOOLEAN,
             SpawnAgent(k, background)
      PROVE  TypeOK'
  <2> DEFINE new == [wss[k] EXCEPT !.agents = Append(@, FreshAgent(minted + 1)),
                                   !.stage = IF background THEN @ ELSE minted + 1]
  <2>1. minted + 1 \in Nat
    BY DEF TypeOK
  <2>2. new \in WorkspaceType
    BY <2>1, PartsType, FreshPanes, AppendAgentType
  <2>3. /\ Rework(k, new)
        /\ minted' = minted + 1
        /\ Save(wss', held)
        /\ UNCHANGED <<held, hadWs, changed>>
    BY <1>2 DEF SpawnAgent
  <2> HIDE DEF new
  <2>4. changed' \in BOOLEAN
    BY <2>3 DEF TypeOK
  <2> QED BY <2>1, <2>2, <2>3, <2>4, HandlerType
<1>3. ASSUME NEW k \in DOMAIN wss, NewProcess(k) PROVE TypeOK'
  <2> DEFINE new == [wss[k] EXCEPT !.procs = Append(@, FreshProc("cmd", minted + 1)),
                                   !.stage = minted + 1]
  <2>1. minted + 1 \in Nat
    BY DEF TypeOK
  <2>2. new \in WorkspaceType
    BY <2>1, PartsType, FreshPanes, AppendProcType
  <2>3. /\ Rework(k, new)
        /\ minted' = minted + 1
        /\ UNCHANGED <<held, hadWs, store, changed>>
    BY <1>3 DEF NewProcess
  <2> HIDE DEF new
  <2>4. changed' \in BOOLEAN
    BY <2>3 DEF TypeOK
  <2> QED BY <2>1, <2>2, <2>3, <2>4, HandlerType
<1> QED BY <1>1, <1>2, <1>3, KillWorkspaceType, AgentStepType, ProcStepType DEF Serve

LEMMA StopType ==
    ASSUME TypeOK, Stop PROVE TypeOK'
<1>1. CASE Tick \/ KillServer
  <2>1. store' \in StoreType
    BY <1>1, SaveType DEF Tick, KillServer, TypeOK
  <2> QED BY <1>1, <2>1 DEF Tick, KillServer, TypeOK, Phases, restoreVars, ghostVars
<1>2. CASE CapturePanes
  <2>1. dumps' \in [Dirs -> DumpType]
    BY <1>2, CapturedType DEF CapturePanes, TypeOK
  <2> QED BY <1>2, <2>1 DEF CapturePanes, TypeOK, Phases, restoreVars
<1>3. CASE KillServerClear
  <2>1. EmptyStore \in StoreType /\ NoDumps \in DumpType
    BY DEF EmptyStore, StoreType, NoDumps, DumpType
  <2>2. dumps' \in [Dirs -> DumpType]
    BY <1>3, <2>1 DEF KillServerClear
  <2> QED BY <1>3, <2>1, <2>2 DEF KillServerClear, TypeOK, Phases, restoreVars
<1>4. CASE TearDown
  <2>1. wss' \in Seq(WorkspaceType)
    BY <1>4 DEF TearDown, TypeOK
  <2>2. store' \in StoreType
    BY <1>4, <2>1, SaveType DEF TearDown, TypeOK
  <2> QED BY <1>4, <2>1, <2>2 DEF TearDown, TypeOK, restoreVars, ghostVars
<1>5. CASE Stopped \/ ExitWhenEmpty \/ Crash
  <2>1. EmptyStore \in StoreType
    BY DEF EmptyStore, StoreType
  <2>2. Halt
    BY <1>5 DEF Stopped, ExitWhenEmpty, Crash
  <2>3. changed' \in BOOLEAN /\ tainted' \in BOOLEAN
    BY <1>5 DEF Stopped, ExitWhenEmpty, Crash, TypeOK, ghostVars
  <2>4. /\ phase' \in Phases /\ shutdown' \in BOOLEAN /\ hadWs' \in BOOLEAN
        /\ wss' \in Seq(WorkspaceType) /\ held' \in SUBSET EntryType
        /\ todo' \in StoreType /\ cur' \in Seq(EntryType) /\ at' \in Nat
    <3>1. <<>> \in Seq(WorkspaceType) /\ <<>> \in Seq(EntryType) /\ 0 \in Nat
      OBVIOUS
    <3>2. /\ phase' = "down" /\ shutdown' = FALSE /\ hadWs' = FALSE
          /\ wss' = <<>> /\ held' = {} /\ todo' = EmptyStore /\ cur' = <<>>
          /\ at' = 0
      BY <2>2 DEF Halt
    <3> QED BY <2>1, <3>1, <3>2 DEF Phases
  <2>5. /\ store' \in StoreType /\ dumps' \in [Dirs -> DumpType]
        /\ minted' \in Nat /\ starts' \in Nat
    BY <2>2 DEF Halt, TypeOK
  <2> QED BY <2>3, <2>4, <2>5 DEF TypeOK
<1> QED BY <1>1, <1>2, <1>3, <1>4, <1>5 DEF Stop

LEMMA TypeNext ==
    ASSUME TypeOK, [Next]_vars PROVE TypeOK'
<1>1. CASE Start
  BY <1>1 DEF Start, TypeOK, Phases
<1>2. CASE UNCHANGED vars
  BY <1>2 DEF TypeOK, vars
<1> QED BY <1>1, <1>2, RestoreTypes, ServeType, StopType DEF Next

(* Every variable of the daemon keeps its type through every handler, every *)
(* crash and every restart.                                                 *)
THEOREM TypeCorrect == Spec => []TypeOK
BY TypeInit, TypeNext, PTL DEF Spec

-----------------------------------------------------------------------------
(* What is kept.                                                            *)

Gated ==
    /\ shutdown <=> phase \in {"teardown", "clearing"}
    /\ cur # <<>> => phase = "restoring"
    /\ phase = "clearing" => /\ store = EmptyStore
                             /\ dumps = [d \in Dirs |-> NoDumps]

Covered ==
    /\ phase = "restoring" =>
           \A e \in store.held :
               e \in todo.held \/ e \in held \/ e.dir \in OpenDirs(wss)
    /\ phase \in {"up", "saving", "closing"} => store.held \subseteq held

IInv == TypeOK /\ Gated /\ Covered

LEMMA IInvInit == Init => IInv
<1> SUFFICES ASSUME Init PROVE IInv
  OBVIOUS
<1>1. TypeOK
  BY TypeInit
<1>2. phase = "down" /\ cur = <<>> /\ ~ shutdown
  BY DEF Init
<1> QED BY <1>1, <1>2 DEF IInv, Gated, Covered

(* What a handler of the serving daemon does to the file and to `held`.     *)
Written ==
    /\ phase = "up" /\ phase' = "up"
    /\ UNCHANGED <<shutdown, cur, dumps>>
    /\ \/ UNCHANGED <<held, store>>
       \/ /\ store' = Persisted(wss', held')
          /\ \A e \in held : e \in held' \/ e.dir \in OpenDirs(wss')

LEMMA SaveIsWritten ==
    ASSUME NEW w, Serving(w), Save(wss', held), UNCHANGED held, ~ shutdown
    PROVE  Written
BY DEF Serving, Save, Frozen, Written, restoreVars

LEMMA LeftAlone ==
    ASSUME NEW w, Serving(w), UNCHANGED <<held, store>>
    PROVE  Written
BY DEF Serving, Written, restoreVars

LEMMA ServeWrites ==
    ASSUME IInv, Serve PROVE Written
<1> ~ shutdown \/ phase # "up"
  BY DEF IInv, Gated
<1>0. ASSUME NEW w, Serving(w) PROVE ~ shutdown
  BY <1>0 DEF Serving
<1>1. ASSUME NEW d \in Dirs, NEW up \in Launches(d), OpenWorkspace(d, up) PROVE Written
  <2> DEFINE ws == FreshWorkspace(d, minted, up)
  <2>1. /\ Serving(Append(wss, ws))
        /\ held' = {h \in held : h.dir # d}
        /\ Save(wss', held')
    BY <1>1 DEF OpenWorkspace
  <2>2. ws.dir = d /\ ws \in WorkspaceType
    BY FreshWorkspaceType DEF IInv, TypeOK
  <2> HIDE DEF ws
  <2>3. d \in OpenDirs(wss')
    <3>1. wss' = Append(wss, ws) /\ wss \in Seq(WorkspaceType)
      BY <2>1 DEF Serving, IInv, TypeOK
    <3>2. Len(wss) + 1 \in DOMAIN wss' /\ wss'[Len(wss) + 1] = ws
      BY <2>2, <3>1
    <3> QED BY <2>2, <3>2 DEF OpenDirs
  <2>4. phase = "up" /\ phase' = "up" /\ UNCHANGED <<shutdown, cur, dumps>>
    BY <2>1 DEF Serving, restoreVars
  <2>5. store' = Persisted(wss', held')
    BY <2>1, <2>4, <1>0 DEF Save, Frozen
  <2> QED BY <2>1, <2>3, <2>4, <2>5 DEF Written
<1>2. ASSUME NEW k \in DOMAIN wss, KillWorkspace(k) PROVE Written
  BY <1>2, <1>0, SaveIsWritten DEF KillWorkspace
<1>3. ASSUME NEW k \in DOMAIN wss, NEW background \in BOOLEAN,
             SpawnAgent(k, background)
      PROVE  Written
  BY <1>3, <1>0, SaveIsWritten DEF SpawnAgent, Rework
<1>4. ASSUME NEW k \in DOMAIN wss, NewProcess(k) PROVE Written
  BY <1>4, LeftAlone DEF NewProcess, Rework
<1>5. ASSUME NEW k \in DOMAIN wss, NEW i, DropAgent(k, i) PROVE Written
  BY <1>5, <1>0, SaveIsWritten DEF DropAgent, Rework
<1>6. ASSUME NEW k \in DOMAIN wss, NEW i, DropProc(k, i) PROVE Written
  BY <1>6, <1>0, SaveIsWritten DEF DropProc, Rework
<1>7. ASSUME NEW k \in DOMAIN wss, NEW i, AgentStep(k, i) PROVE Written
  <2>1. CASE Speak(k, i)
    BY <2>1, <1>0, SaveIsWritten DEF Speak, Rework
  <2>2. CASE AgentOutput(k, i) \/ AgentFails(k, i)
    BY <2>2, LeftAlone DEF AgentOutput, AgentFails, Rework
  <2>3. CASE RetryResume(k, i)
    <3>1. /\ \E ws : Rework(k, ws)
          /\ Save(wss', held)
          /\ UNCHANGED held
      BY <2>3 DEF RetryResume
    <3> QED BY <3>1, <1>0, SaveIsWritten DEF Rework
  <2> QED BY <1>7, <1>5, <2>1, <2>2, <2>3 DEF AgentStep, AgentExitsClean
<1>8. ASSUME NEW k \in DOMAIN wss, NEW i, ProcStep(k, i) PROVE Written
  <2>1. CASE RestartProcess(k, i)
    <3>1. (\E ws : Rework(k, ws)) /\ UNCHANGED <<held, store>>
      BY <2>1 DEF RestartProcess
    <3> QED BY <3>1, LeftAlone DEF Rework
  <2>2. CASE ProcOutput(k, i)
    BY <2>2, LeftAlone DEF ProcOutput, Rework
  <2>3. CASE ShellExits(k, i)
    BY <2>3, <1>2, <1>6 DEF ShellExits
  <2>4. CASE CommandExits(k, i)
    BY <2>4, <1>6, LeftAlone DEF CommandExits, Rework
  <2> QED BY <1>8, <1>6, <2>1, <2>2, <2>3, <2>4 DEF ProcStep
<1> QED BY <1>1, <1>2, <1>3, <1>4, <1>7, <1>8 DEF Serve

-----------------------------------------------------------------------------
(* A start neither writes the file nor loses an entry of it before it is    *)
(* done.                                                                    *)
StillCovered(e) == e \in todo.held \/ e \in held \/ e.dir \in OpenDirs(wss)

LEMMA AppendOpens ==
    ASSUME TypeOK, NEW ws \in WorkspaceType
    PROVE  OpenDirs(Append(wss, ws)) = OpenDirs(wss) \cup {ws.dir}
<1> DEFINE w == Append(wss, ws)
<1>1. /\ wss \in Seq(WorkspaceType) /\ Len(wss) \in Nat
      /\ DOMAIN wss = 1 .. Len(wss)
  BY DEF TypeOK
<1>2. /\ DOMAIN w = 1 .. Len(wss) + 1
      /\ \A k \in DOMAIN wss : w[k] = wss[k]
      /\ w[Len(wss) + 1] = ws
  BY <1>1
<1> HIDE DEF w
<1> QED BY <1>1, <1>2 DEF OpenDirs

LEMMA UpdateOpens ==
    ASSUME NEW w \in Seq(WorkspaceType), NEW k, NEW ws,
           k \in DOMAIN w => ws.dir = w[k].dir
    PROVE  OpenDirs([w EXCEPT ![k] = ws]) = OpenDirs(w)
<1> DEFINE v == [w EXCEPT ![k] = ws]
<1>1. DOMAIN v = DOMAIN w /\ \A j \in DOMAIN w : v[j].dir = w[j].dir
  OBVIOUS
<1> HIDE DEF v
<1> QED BY <1>1 DEF OpenDirs

LEMMA VisitCovers ==
    ASSUME TypeOK, NEW e, Visit(e), NEW x \in todo.held
    PROVE  x \in todo'.held \/ x = e
BY DEF Visit, TypeOK, StoreType

(* One step of the restore, but for the last.                               *)
Restored ==
    /\ phase = "restoring"
    /\ UNCHANGED <<phase, shutdown, store, dumps>>
    /\ \A e : StillCovered(e) => StillCovered(e)'

LEMMA RebuiltInPlace ==
    ASSUME TypeOK, NEW ws, Len(wss) \in DOMAIN wss => ws.dir = wss[Len(wss)].dir,
           RebuildLast(ws) \/ UNCHANGED wss
    PROVE  OpenDirs(wss') = OpenDirs(wss)
BY UpdateOpens DEF RebuildLast, TypeOK

LEMMA RestoreKeeps ==
    ASSUME IInv, Restore, ~ RestoreDone
    PROVE  Restored
<1> USE DEF IInv
<1>r. cur # <<>> => phase = "restoring"
  BY DEF Gated
<1>0. ASSUME NEW w, NEW h, Save(w, h), phase = "restoring" PROVE UNCHANGED store
  BY <1>0 DEF Save, Frozen
<1>1. CASE DeferEntry
  <2>1. PICK e : Visit(e) /\ held' = held \cup {e}
                 /\ UNCHANGED <<phase, shutdown, store, dumps, wss>>
    BY <1>1 DEF DeferEntry, diskVars
  <2>2. phase = "restoring"
    BY <2>1 DEF Visit
  <2> QED BY <2>1, <2>2, VisitCovers DEF Restored, StillCovered
<1>2. CASE SkipEntry
  <2>1. PICK e : Visit(e) /\ e.dir \in OpenDirs(wss)
                 /\ UNCHANGED <<phase, shutdown, store, dumps, wss, held>>
    BY <1>2 DEF SkipEntry, diskVars
  <2>2. phase = "restoring"
    BY <2>1 DEF Visit
  <2> QED BY <2>1, <2>2, VisitCovers DEF Restored, StillCovered
<1>3. CASE ReopenFresh
  <2>e. PICK e \in {todo.live[i] : i \in DOMAIN todo.live} \cup todo.held :
            \E up \in Launches(e.dir) :
                /\ Visit(e)
                /\ wss' = Append(wss, FreshWorkspace(e.dir, minted, up))
                /\ held' = {h \in held : h.dir # e.dir}
                /\ Save(wss', held')
                /\ UNCHANGED <<phase, shutdown, dumps>>
    BY <1>3 DEF ReopenFresh
  <2>1. PICK up \in Launches(e.dir) :
            /\ Visit(e)
            /\ wss' = Append(wss, FreshWorkspace(e.dir, minted, up))
            /\ held' = {h \in held : h.dir # e.dir}
            /\ Save(wss', held')
            /\ UNCHANGED <<phase, shutdown, dumps>>
    BY <2>e
  <2>2. phase = "restoring"
    BY <2>1 DEF Visit
  <2>3. e \in EntryType
    BY <2>1, VisitType
  <2>4. OpenDirs(wss') = OpenDirs(wss) \cup {e.dir}
    <3>1. e.dir \in Dirs /\ minted \in Nat
      BY <2>3 DEF TypeOK, EntryType
    <3>2. /\ FreshWorkspace(e.dir, minted, up) \in WorkspaceType
          /\ FreshWorkspace(e.dir, minted, up).dir = e.dir
      BY <3>1, FreshWorkspaceType
    <3> QED BY <2>1, <3>2, AppendOpens
  <2> QED BY <2>1, <2>2, <2>4, <1>0, VisitCovers DEF Restored, StillCovered
<1>4. CASE BeginRebuild
  <2> DEFINE Empty(d) == [dir |-> d, procs |-> <<>>, agents |-> <<>>, stage |-> 0]
  <2>1. PICK e \in {todo.live[i] : i \in DOMAIN todo.live} \cup todo.held :
            /\ Visit(e)
            /\ wss' = Append(wss, Empty(e.dir))
            /\ held' = {h \in held : h.dir # e.dir}
            /\ UNCHANGED <<phase, shutdown, store, dumps>>
    BY <1>4 DEF BeginRebuild, diskVars
  <2>2. phase = "restoring"
    BY <2>1 DEF Visit
  <2>3. e \in EntryType
    BY <2>1, VisitType
  <2>4. Empty(e.dir) \in WorkspaceType /\ Empty(e.dir).dir = e.dir
    BY <2>3 DEF EntryType, WorkspaceType
  <2> HIDE DEF Empty
  <2>5. OpenDirs(wss') = OpenDirs(wss) \cup {e.dir}
    BY <2>1, <2>4, AppendOpens
  <2> QED BY <2>1, <2>2, <2>5, VisitCovers DEF Restored, StillCovered
<1> DEFINE last == wss[Len(wss)]
<1>l. Len(wss) \in DOMAIN wss => last \in WorkspaceType
  BY PartsType
<1>5. CASE RebuildProc
  <2>1. /\ cur # <<>>
        /\ (\E pane : RebuildLast([last EXCEPT !.procs = Append(@, pane)]))
               \/ UNCHANGED wss
        /\ UNCHANGED <<phase, shutdown, held, todo, store, dumps>>
    BY <1>5 DEF RebuildProc, diskVars
  <2>2. OpenDirs(wss') = OpenDirs(wss)
    <3>1. ASSUME NEW pane, Len(wss) \in DOMAIN wss
          PROVE  [last EXCEPT !.procs = Append(@, pane)].dir = last.dir
      BY <1>l, <3>1 DEF WorkspaceType
    <3> QED BY <2>1, <3>1, RebuiltInPlace
  <2> QED BY <1>r, <2>1, <2>2 DEF Restored, StillCovered
<1>6. CASE RebuildAgent
  <2>1. /\ cur # <<>>
        /\ (\E pane, st : RebuildLast([last EXCEPT !.agents = Append(@, pane),
                                                   !.stage = st]))
               \/ UNCHANGED wss
        /\ Save(wss', held) \/ UNCHANGED store
        /\ UNCHANGED <<phase, shutdown, held, todo, dumps>>
    BY <1>6 DEF RebuildAgent
  <2>2. OpenDirs(wss') = OpenDirs(wss)
    <3>1. ASSUME NEW pane, NEW st, Len(wss) \in DOMAIN wss
          PROVE  [last EXCEPT !.agents = Append(@, pane), !.stage = st].dir = last.dir
      BY <1>l, <3>1 DEF WorkspaceType
    <3> QED BY <2>1, <3>1, RebuiltInPlace
  <2> QED BY <1>r, <2>1, <2>2, <1>0 DEF Restored, StillCovered
<1>7. CASE EndRebuild
  <2>1. /\ cur # <<>>
        /\ \E st : RebuildLast([last EXCEPT !.stage = st])
        /\ Save(wss', held)
        /\ UNCHANGED <<phase, shutdown, held, todo, dumps>>
    BY <1>7 DEF EndRebuild
  <2>2. OpenDirs(wss') = OpenDirs(wss)
    <3>1. ASSUME NEW st, Len(wss) \in DOMAIN wss
          PROVE  [last EXCEPT !.stage = st].dir = last.dir
      BY <1>l, <3>1 DEF WorkspaceType
    <3> QED BY <2>1, <3>1, RebuiltInPlace
  <2> QED BY <1>r, <2>1, <2>2, <1>0 DEF Restored, StillCovered
<1> QED BY <1>1, <1>2, <1>3, <1>4, <1>5, <1>6, <1>7 DEF Restore

-----------------------------------------------------------------------------
LEMMA HeldOfPersisted ==
    ASSUME NEW w, NEW h
    PROVE  Persisted(w, h).held = {e \in h : e.dir \notin OpenDirs(w)}
BY DEF Persisted

(* The last step of a start: everything the file held is open or held.      *)
LEMMA DoneKeeps ==
    ASSUME IInv, RestoreDone
    PROVE  /\ \A e \in store.held : e \in held' \/ e.dir \in OpenDirs(wss')
           /\ store' = Persisted(wss', held')
           /\ phase = "restoring" /\ phase' = "up" /\ cur' = <<>>
           /\ UNCHANGED <<shutdown, dumps>>
<1>1. /\ phase = "restoring" /\ phase' = "up" /\ todo = EmptyStore
      /\ store' = Persisted(wss, held) /\ cur' = <<>>
      /\ UNCHANGED <<shutdown, dumps, wss, held>>
  BY DEF RestoreDone, restoreVars
<1>2. todo.held = {}
  BY <1>1 DEF EmptyStore
<1> QED BY <1>1, <1>2 DEF IInv, Covered

(* Every other step of Next, by what it does to the phase and the disk.     *)
LEMMA StopSteps ==
    ASSUME IInv, Stop
    PROVE  /\ cur' # <<>> => phase' = phase /\ UNCHANGED cur
           /\ shutdown' <=> phase' \in {"teardown", "clearing"}
           /\ \/ /\ Tick \/ KillServer
                 /\ phase = "up" /\ phase' \in {"saving", "closing"}
                 /\ store' = Persisted(wss, held) /\ UNCHANGED <<wss, held, dumps>>
              \/ /\ CapturePanes
                 /\ phase \in {"saving", "closing"} /\ phase' \in {"up", "teardown"}
                 /\ UNCHANGED <<wss, held, store>>
              \/ /\ KillServerClear
                 /\ phase = "up" /\ phase' = "clearing" /\ store' = EmptyStore
                 /\ dumps' = [d \in Dirs |-> NoDumps]
              \/ /\ TearDown
                 /\ phase \in {"teardown", "clearing"} /\ UNCHANGED <<phase, store, dumps>>
              \/ phase' = "down" /\ UNCHANGED <<store, dumps>>
<1> USE DEF IInv, Gated
<1>1. CASE Tick \/ KillServer
  BY <1>1 DEF Tick, KillServer, Save, Frozen, restoreVars
<1>2. CASE CapturePanes
  BY <1>2 DEF CapturePanes, restoreVars
<1>3. CASE KillServerClear
  BY <1>3 DEF KillServerClear, restoreVars
<1>4. CASE TearDown
  <2>1. phase \in {"teardown", "clearing"} /\ Save(wss', held)
        /\ UNCHANGED <<phase, shutdown, cur, dumps>>
    BY <1>4 DEF TearDown, restoreVars
  <2>2. shutdown
    BY <2>1
  <2>3. UNCHANGED store
    BY <2>1, <2>2 DEF Save, Frozen
  <2> QED BY <1>4, <2>1, <2>2, <2>3
<1>5. CASE Stopped \/ ExitWhenEmpty \/ Crash
  BY <1>5 DEF Stopped, ExitWhenEmpty, Crash, Halt
<1> QED BY <1>1, <1>2, <1>3, <1>4, <1>5 DEF Stop

LEMMA IInvNext ==
    ASSUME IInv, [Next]_vars PROVE IInv'
<1>t. TypeOK'
  BY TypeNext DEF IInv
<1>1. CASE Start
  BY <1>1, <1>t DEF Start, IInv, Gated, Covered
<1>2. CASE Restore /\ ~ RestoreDone
  <2>1. Restored
    BY <1>2, RestoreKeeps
  <2> QED BY <1>t, <2>1 DEF Restored, IInv, Gated, Covered, StillCovered
<1>3. CASE RestoreDone
  BY <1>3, <1>t, DoneKeeps, HeldOfPersisted DEF IInv, Gated, Covered
<1>4. CASE Serve
  <2>1. Written
    BY <1>4, ServeWrites
  <2>2. store'.held \subseteq held'
    BY <2>1, HeldOfPersisted DEF Written, IInv, Covered
  <2> QED BY <1>t, <2>1, <2>2 DEF Written, IInv, Gated, Covered
<1>5. CASE Stop
  <2>1. Gated'
    BY <1>5, StopSteps DEF IInv, Gated
  <2>2. Covered'
    BY <1>5, StopSteps, HeldOfPersisted DEF IInv, Covered
  <2> QED BY <1>t, <2>1, <2>2 DEF IInv
<1>6. CASE UNCHANGED vars
  BY <1>6, <1>t DEF vars, IInv, Gated, Covered
<1> QED BY <1>1, <1>2, <1>3, <1>4, <1>5, <1>6 DEF Next

THEOREM Inductive == Spec => []IInv
BY IInvInit, IInvNext, PTL DEF Spec

(* An entry the start could not open is forgotten only when its directory   *)
(* is open again or the session is cleared.                                 *)
THEOREM HeldEntriesSurvive == Spec => HeldSurvives
<1>1. ASSUME IInv, [Next]_vars
      PROVE  [\A e \in store.held :
                 \/ e \in store'.held
                 \/ e.dir \in OpenDirs(wss')
                 \/ phase' = "clearing"]_vars
  <2>1. CASE Start
    BY <2>1 DEF Start
  <2>2. CASE Restore /\ ~ RestoreDone
    BY <2>2, <1>1, RestoreKeeps DEF Restored
  <2>3. CASE RestoreDone
    BY <2>3, <1>1, DoneKeeps, HeldOfPersisted
  <2>4. CASE Serve
    <3>1. Written /\ store.held \subseteq held
      BY <2>4, <1>1, ServeWrites DEF IInv, Covered, Written
    <3> QED BY <3>1, HeldOfPersisted DEF Written
  <2>5. CASE Stop
    BY <2>5, <1>1, StopSteps, HeldOfPersisted DEF IInv, Covered
  <2>6. CASE UNCHANGED vars
    BY <2>6
  <2> QED BY <1>1, <2>1, <2>2, <2>3, <2>4, <2>5, <2>6 DEF Next
<1> QED BY <1>1, Inductive, PTL DEF Spec, HeldSurvives

(* Tearing the workspaces down writes nothing: what a stop left on disk is  *)
(* what it wrote first, and what a clear emptied stays empty.               *)
THEOREM TeardownWritesNothing == Spec => TeardownKeepsStore
<1>1. ASSUME IInv, [Next]_vars
      PROVE  [/\ phase = "teardown" => UNCHANGED diskVars
              /\ phase = "clearing" => /\ store' = EmptyStore
                                       /\ dumps' = [d \in Dirs |-> NoDumps]]_vars
  <2>1. CASE phase \notin {"teardown", "clearing"}
    BY <2>1
  <2>2. CASE phase \in {"teardown", "clearing"}
    <3>1. UNCHANGED diskVars
      <4>1. CASE Start
        BY <2>2, <4>1 DEF Start
      <4>2. CASE Restore /\ ~ RestoreDone
        BY <2>2, <4>2, <1>1, RestoreKeeps DEF Restored
      <4>3. CASE RestoreDone
        BY <2>2, <4>3 DEF RestoreDone
      <4>4. CASE Serve
        BY <2>2, <4>4, <1>1, ServeWrites DEF Written
      <4>5. CASE Stop
        BY <2>2, <4>5, <1>1, StopSteps DEF diskVars
      <4>6. CASE UNCHANGED vars
        BY <4>6 DEF vars, diskVars
      <4> QED BY <1>1, <4>1, <4>2, <4>3, <4>4, <4>5, <4>6 DEF Next
    <3> QED BY <2>2, <3>1, <1>1 DEF diskVars, IInv, Gated
  <2> QED BY <2>1, <2>2
<1> QED BY <1>1, Inductive, PTL DEF Spec, TeardownKeepsStore

-----------------------------------------------------------------------------
(* One session: what each part of SessionFits says of one rail.             *)

Works(q) == {q[i].work : i \in DOMAIN q}
Convs(q) == {q[i].conv : i \in DOMAIN q}
Single(q) == \A i, j \in DOMAIN q : q[i].conv = q[j].conv => i = j
OwnRail(q) == \A i \in DOMAIN q : q[i].screen \in {0, q[i].work}

(* The files of a rail are screens of the panes at their positions.         *)
Painted(files, q) ==
    \A i \in DOMAIN files : files[i] # 0 => i \in DOMAIN q /\ files[i] = q[i].work

(* Taking a pane off a rail: the others keep their order.                   *)
LEMMA RailWithout ==
    ASSUME NEW S, NEW q \in Seq(S), NEW i \in DOMAIN q
    PROVE  \E f \in [DOMAIN RemoveAt(q, i) -> DOMAIN q] :
               /\ \A j, l \in DOMAIN RemoveAt(q, i) : f[j] = f[l] => j = l
               /\ \A j \in DOMAIN RemoveAt(q, i) : RemoveAt(q, i)[j] = q[f[j]]
               /\ \A l \in DOMAIN q : l # i => \E j \in DOMAIN RemoveAt(q, i) : f[j] = l
               /\ \A j \in DOMAIN RemoveAt(q, i) : f[j] # i
<1> DEFINE a == SubSeq(q, 1, i - 1)
           b == SubSeq(q, i + 1, Len(q))
           f == [j \in 1 .. Len(q) - 1 |-> IF j < i THEN j ELSE j + 1]
           r == RemoveAt(q, i)
<1>1. Len(q) \in Nat /\ i \in Int /\ 1 <= i /\ i <= Len(q) /\ DOMAIN q = 1 .. Len(q)
  OBVIOUS
<1>2. a \in Seq(S) /\ Len(a) = i - 1 /\ \A j \in 1 .. i - 1 : a[j] = q[j]
  <2>1. \A j \in 1 .. i - 1 : j \in 1 .. Len(q)
    BY <1>1
  <2>2. /\ a \in Seq(S) /\ Len(a) = IF 1 <= i - 1 THEN (i - 1) - 1 + 1 ELSE 0
        /\ \A j \in 1 .. (i - 1) - 1 + 1 : a[j] = q[1 + j - 1]
    BY <1>1, <2>1, SubSeqProperties
  <2>3. \A j \in 1 .. i - 1 : j \in 1 .. (i - 1) - 1 + 1 /\ 1 + j - 1 = j
    BY <1>1
  <2> QED BY <1>1, <2>2, <2>3
<1>3. b \in Seq(S) /\ Len(b) = Len(q) - i /\ \A j \in 1 .. Len(q) - i : b[j] = q[i + j]
  <2>1. \A j \in i + 1 .. Len(q) : j \in 1 .. Len(q)
    BY <1>1
  <2>2. /\ b \in Seq(S) /\ Len(b) = IF i + 1 <= Len(q) THEN Len(q) - (i + 1) + 1 ELSE 0
        /\ \A j \in 1 .. Len(q) - (i + 1) + 1 : b[j] = q[(i + 1) + j - 1]
    BY <1>1, <2>1, SubSeqProperties
  <2>3. \A j \in 1 .. Len(q) - i : j \in 1 .. Len(q) - (i + 1) + 1 /\ (i + 1) + j - 1 = i + j
    BY <1>1
  <2> QED BY <1>1, <2>2, <2>3
<1>4. r = a \o b
  BY DEF RemoveAt
<1> HIDE DEF a, b, r
<1>5. /\ a \o b \in Seq(S) /\ Len(a \o b) = Len(a) + Len(b)
      /\ \A j \in 1 .. Len(a) + Len(b) : (a \o b)[j] = IF j <= Len(a) THEN a[j] ELSE b[j - Len(a)]
  BY <1>2, <1>3, ConcatProperties
<1>6. r \in Seq(S) /\ Len(a) + Len(b) = Len(q) - 1 /\ DOMAIN r = 1 .. Len(q) - 1
  <2>1. Len(a) + Len(b) = Len(q) - 1
    BY <1>1, <1>2, <1>3
  <2>2. r \in Seq(S) /\ Len(r) = Len(q) - 1
    BY <1>4, <1>5, <2>1
  <2> QED BY <2>1, <2>2
<1>7. ASSUME NEW j \in DOMAIN r PROVE r[j] = q[f[j]]
  <2>0. j \in 1 .. Len(q) - 1 /\ f[j] = IF j < i THEN j ELSE j + 1
    BY <1>6
  <2>1. r[j] = IF j <= i - 1 THEN a[j] ELSE b[j - (i - 1)]
    BY <1>2, <1>4, <1>5, <1>6
  <2>2. CASE j < i
    <3>1. j \in 1 .. i - 1 /\ j <= i - 1
      BY <1>1, <2>0, <2>2
    <3> QED BY <1>2, <2>0, <2>1, <2>2, <3>1
  <2>3. CASE ~ (j < i)
    <3>1. ~ (j <= i - 1) /\ j - (i - 1) \in 1 .. Len(q) - i /\ i + (j - (i - 1)) = j + 1
      BY <1>1, <2>0, <2>3
    <3> QED BY <1>3, <2>0, <2>1, <2>3, <3>1
  <2> QED BY <2>2, <2>3
<1>8. f \in [DOMAIN r -> DOMAIN q] /\ \A j, l \in DOMAIN r : f[j] = f[l] => j = l
  BY <1>1, <1>6
<1>9. ASSUME NEW l \in DOMAIN q, l # i PROVE \E j \in DOMAIN r : f[j] = l
  <2>1. CASE l < i
    <3>1. l \in 1 .. Len(q) - 1 /\ f[l] = l
      BY <1>1, <2>1
    <3> QED BY <1>6, <3>1
  <2>2. CASE ~ (l < i)
    <3>1. l - 1 \in 1 .. Len(q) - 1 /\ f[l - 1] = l
      BY <1>1, <1>9, <2>2
    <3> QED BY <1>6, <3>1
  <2> QED BY <2>1, <2>2
<1>10. \A j \in DOMAIN r : f[j] # i
  BY <1>1, <1>6
<1> HIDE DEF f
<1> QED BY <1>7, <1>8, <1>9, <1>10 DEF r

(* What a rail keeps when a pane is taken off it.                           *)
LEMMA RailRemoved ==
    ASSUME NEW q \in Seq(PaneType), NEW i \in DOMAIN q
    PROVE  /\ Convs(RemoveAt(q, i)) \subseteq Convs(q)
           /\ Works(q) \subseteq Works(RemoveAt(q, i)) \cup {q[i].work}
           /\ Single(q) => Single(RemoveAt(q, i))
           /\ OwnRail(q) => OwnRail(RemoveAt(q, i))
<1> DEFINE r == RemoveAt(q, i)
<1>1. PICK f \in [DOMAIN r -> DOMAIN q] :
          /\ \A j, l \in DOMAIN r : f[j] = f[l] => j = l
          /\ \A j \in DOMAIN r : r[j] = q[f[j]]
          /\ \A l \in DOMAIN q : l # i => \E j \in DOMAIN r : f[j] = l
          /\ \A j \in DOMAIN r : f[j] # i
  BY RailWithout
<1> HIDE DEF r
<1>2. Convs(r) \subseteq Convs(q)
  BY <1>1 DEF Convs
<1>3. Works(q) \subseteq Works(r) \cup {q[i].work}
  BY <1>1 DEF Works
<1>4. Single(q) => Single(r)
  BY <1>1 DEF Single
<1>5. OwnRail(q) => OwnRail(r)
  BY <1>1 DEF OwnRail
<1> QED BY <1>2, <1>3, <1>4, <1>5 DEF r

(* A pane at the end of a rail.                                             *)
LEMMA RailAppended ==
    ASSUME NEW q \in Seq(PaneType), NEW p \in PaneType
    PROVE  /\ Convs(Append(q, p)) = Convs(q) \cup {p.conv}
           /\ Works(Append(q, p)) = Works(q) \cup {p.work}
           /\ Single(q) /\ p.conv \notin Convs(q) => Single(Append(q, p))
           /\ OwnRail(q) /\ p.screen \in {0, p.work} => OwnRail(Append(q, p))
           /\ \A files : Painted(files, q) => Painted(files, Append(q, p))
<1> DEFINE r == Append(q, p)
           n == Len(q) + 1
<1>1. /\ DOMAIN q = 1 .. Len(q) /\ Len(q) \in Nat
      /\ DOMAIN r = 1 .. n /\ r[n] = p
      /\ \A i \in DOMAIN q : r[i] = q[i]
  BY AppendProperties
<1>2. /\ DOMAIN r = DOMAIN q \cup {n} /\ n \notin DOMAIN q
  BY <1>1
<1> HIDE DEF r, n
<1>s. \A i \in DOMAIN r : (i \in DOMAIN q /\ r[i] = q[i]) \/ (i = n /\ r[i] = p)
  BY <1>1, <1>2
<1>t. n \in DOMAIN r /\ \A i \in DOMAIN q : i \in DOMAIN r /\ r[i] = q[i]
  BY <1>1, <1>2
<1>3. Convs(r) = Convs(q) \cup {p.conv}
  <2>1. \A c : c \in Convs(r) => c \in Convs(q) \/ c = p.conv
    BY <1>s DEF Convs
  <2>2. \A c : c \in Convs(q) => c \in Convs(r)
    BY <1>t DEF Convs
  <2>3. p.conv \in Convs(r)
    BY <1>1, <1>t DEF Convs
  <2> QED BY <2>1, <2>2, <2>3
<1>4. Works(r) = Works(q) \cup {p.work}
  <2>1. \A c : c \in Works(r) => c \in Works(q) \/ c = p.work
    BY <1>s DEF Works
  <2>2. \A c : c \in Works(q) => c \in Works(r)
    BY <1>t DEF Works
  <2>3. p.work \in Works(r)
    BY <1>1, <1>t DEF Works
  <2> QED BY <2>1, <2>2, <2>3
<1>5. ASSUME Single(q), p.conv \notin Convs(q) PROVE Single(r)
  <2>1. \A i \in DOMAIN q : q[i].conv # p.conv
    BY <1>5 DEF Convs
  <2> QED BY <1>1, <1>2, <1>5, <2>1 DEF Single
<1>6. OwnRail(q) /\ p.screen \in {0, p.work} => OwnRail(r)
  BY <1>1, <1>2 DEF OwnRail
<1>7. \A files : Painted(files, q) => Painted(files, r)
  BY <1>1, <1>2 DEF Painted
<1> QED BY <1>3, <1>4, <1>5, <1>6, <1>7 DEF r

LEMMA OwnAppended ==
    ASSUME NEW q \in Seq(PaneType), NEW p, OwnRail(q), p.screen \in {0, p.work}
    PROVE  OwnRail(Append(q, p))
<1> DEFINE r == Append(q, p)
           n == Len(q) + 1
<1>1. /\ DOMAIN q = 1 .. Len(q) /\ Len(q) \in Nat
      /\ DOMAIN r = 1 .. n /\ r[n] = p
      /\ \A i \in DOMAIN q : r[i] = q[i]
  OBVIOUS
<1>2. DOMAIN r = DOMAIN q \cup {n}
  BY <1>1
<1> HIDE DEF r, n
<1>3. OwnRail(r)
  BY <1>1, <1>2 DEF OwnRail
<1> QED BY <1>3 DEF r

(* A pane in the place of another.                                          *)
LEMMA RailReplaced ==
    ASSUME NEW q \in Seq(PaneType), NEW i \in DOMAIN q, NEW p \in PaneType,
           p.work = q[i].work
    PROVE  /\ Convs([q EXCEPT ![i] = p]) \subseteq Convs(q) \cup {p.conv}
           /\ Works([q EXCEPT ![i] = p]) = Works(q)
           /\ Single(q) /\ p.conv \notin Convs(q) \ {q[i].conv} => Single([q EXCEPT ![i] = p])
           /\ OwnRail(q) /\ p.screen \in {0, p.work, q[i].screen} => OwnRail([q EXCEPT ![i] = p])
           /\ \A files : Painted(files, q) => Painted(files, [q EXCEPT ![i] = p])
<1> DEFINE r == [q EXCEPT ![i] = p]
<1>1. /\ DOMAIN r = DOMAIN q /\ r[i] = p
      /\ \A j \in DOMAIN q : j # i => r[j] = q[j]
  OBVIOUS
<1> HIDE DEF r
<1>2. Convs(r) \subseteq Convs(q) \cup {p.conv}
  BY <1>1 DEF Convs
<1>3. Works(r) = Works(q)
  BY <1>1 DEF Works
<1>4. ASSUME Single(q), p.conv \notin Convs(q) \ {q[i].conv} PROVE Single(r)
  <2>1. \A j \in DOMAIN q : j # i => q[j].conv # p.conv
    BY <1>4 DEF Convs, Single
  <2> QED BY <1>1, <1>4, <2>1 DEF Single
<1>5. OwnRail(q) /\ p.screen \in {0, p.work, q[i].screen} => OwnRail(r)
  BY <1>1 DEF OwnRail
<1>6. \A files : Painted(files, q) => Painted(files, r)
  BY <1>1 DEF Painted
<1> QED BY <1>2, <1>3, <1>4, <1>5, <1>6 DEF r
-----------------------------------------------------------------------------
(* What a handler leaves of one workspace.                                  *)

OnStage(ws) ==
    ws.stage = 0 \/ ws.stage \in Works(ws.agents) \/ ws.stage \in Works(ws.procs)
OwnPanes(ws) == OwnRail(ws.agents) /\ OwnRail(ws.procs)
PaintedBy(d, x) == Painted(d.agents, x.agents) /\ Painted(d.procs, x.procs)

(* ws became new while the ids between m and n were drawn.                  *)
Follows(ws, new, m, n) ==
    /\ new.dir = ws.dir
    /\ OnStage(ws) => OnStage(new)
    /\ OwnPanes(ws) => OwnPanes(new)
    /\ \A c \in Convs(new.agents) : c \in Convs(ws.agents) \/ c \in m + 1 .. n
    /\ Single(ws.agents) /\ Convs(ws.agents) \subseteq 0 .. m => Single(new.agents)

StillPainted(ws, new) == \A d : PaintedBy(d, ws) => PaintedBy(d, new)

LEMMA RestageStands ==
    ASSUME NEW ws \in WorkspaceType, NEW gone, ws.stage # gone => OnStage(ws)
    PROVE  /\ Restage(ws, gone).agents = ws.agents /\ Restage(ws, gone).procs = ws.procs
           /\ Restage(ws, gone).dir = ws.dir
           /\ OnStage(Restage(ws, gone))
<1> DEFINE new == Restage(ws, gone)
<1>1. /\ new.agents = ws.agents /\ new.procs = ws.procs /\ new.dir = ws.dir
      /\ new.stage = IF ws.stage # gone THEN ws.stage
                     ELSE IF ws.procs # <<>> THEN ws.procs[1].work
                     ELSE IF ws.agents # <<>> THEN ws.agents[1].work
                     ELSE 0
  BY DEF Restage, WorkspaceType
<1>2. /\ ws.procs # <<>> => ws.procs[1].work \in Works(ws.procs)
      /\ ws.agents # <<>> => ws.agents[1].work \in Works(ws.agents)
  <2>1. \A q \in Seq(PaneType) : q # <<>> => 1 \in DOMAIN q
    OBVIOUS
  <2> QED BY <2>1 DEF WorkspaceType, Works
<1> HIDE DEF new
<1> QED BY <1>1, <1>2 DEF OnStage, new

LEMMA ForgetAgentFollows ==
    ASSUME NEW ws \in WorkspaceType, NEW i \in DOMAIN ws.agents, NEW m, NEW n
    PROVE  Follows(ws, ForgetAgent(ws, i), m, n)
<1> DEFINE gone == ws.agents[i].work
           w == [ws EXCEPT !.agents = RemoveAt(@, i)]
           new == Restage(w, gone)
<1>0. ws.agents \in Seq(PaneType)
  BY DEF WorkspaceType
<1>1. w \in WorkspaceType /\ w.dir = ws.dir /\ w.stage = ws.stage
      /\ w.agents = RemoveAt(ws.agents, i) /\ w.procs = ws.procs
  BY <1>0, RemoveAtType DEF WorkspaceType
<1>2. /\ Convs(w.agents) \subseteq Convs(ws.agents)
      /\ Works(ws.agents) \subseteq Works(w.agents) \cup {gone}
      /\ Single(ws.agents) => Single(w.agents)
      /\ OwnRail(ws.agents) => OwnRail(w.agents)
  BY <1>0, <1>1, RailRemoved
<1> HIDE DEF w, gone
<1>3. OnStage(ws) /\ w.stage # gone => OnStage(w)
  BY <1>1, <1>2 DEF OnStage
<1>4. CASE OnStage(ws)
  <2>1. /\ new.agents = w.agents /\ new.procs = w.procs /\ new.dir = w.dir /\ OnStage(new)
    BY <1>1, <1>3, <1>4, RestageStands
  <2> HIDE DEF new
  <2>2. Follows(ws, new, m, n)
    BY <1>1, <1>2, <2>1 DEF Follows, OwnPanes
  <2> QED BY <2>2 DEF ForgetAgent, new, w, gone
<1>5. CASE ~ OnStage(ws)
  <2>1. /\ new.agents = w.agents /\ new.procs = w.procs /\ new.dir = w.dir
    BY <1>1 DEF Restage, WorkspaceType
  <2> HIDE DEF new
  <2>2. Follows(ws, new, m, n)
    BY <1>1, <1>2, <1>5, <2>1 DEF Follows, OwnPanes
  <2> QED BY <2>2 DEF ForgetAgent, new, w, gone
<1> QED BY <1>4, <1>5

LEMMA ForgetProcFollows ==
    ASSUME NEW ws \in WorkspaceType, NEW i \in DOMAIN ws.procs, NEW m, NEW n
    PROVE  Follows(ws, ForgetProc(ws, i), m, n)
<1> DEFINE gone == ws.procs[i].work
           w == [ws EXCEPT !.procs = RemoveAt(@, i)]
           new == Restage(w, gone)
<1>0. ws.procs \in Seq(PaneType)
  BY DEF WorkspaceType
<1>1. w \in WorkspaceType /\ w.dir = ws.dir /\ w.stage = ws.stage
      /\ w.procs = RemoveAt(ws.procs, i) /\ w.agents = ws.agents
  BY <1>0, RemoveAtType DEF WorkspaceType
<1>2. /\ Works(ws.procs) \subseteq Works(w.procs) \cup {gone}
      /\ OwnRail(ws.procs) => OwnRail(w.procs)
  BY <1>0, <1>1, RailRemoved
<1> HIDE DEF w, gone
<1>3. OnStage(ws) /\ w.stage # gone => OnStage(w)
  BY <1>1, <1>2 DEF OnStage
<1>4. CASE OnStage(ws)
  <2>1. /\ new.agents = w.agents /\ new.procs = w.procs /\ new.dir = w.dir /\ OnStage(new)
    BY <1>1, <1>3, <1>4, RestageStands
  <2> HIDE DEF new
  <2>2. Follows(ws, new, m, n)
    BY <1>1, <1>2, <2>1 DEF Follows, OwnPanes
  <2> QED BY <2>2 DEF ForgetProc, new, w, gone
<1>5. CASE ~ OnStage(ws)
  <2>1. /\ new.agents = w.agents /\ new.procs = w.procs /\ new.dir = w.dir
    BY <1>1 DEF Restage, WorkspaceType
  <2> HIDE DEF new
  <2>2. Follows(ws, new, m, n)
    BY <1>1, <1>2, <1>5, <2>1 DEF Follows, OwnPanes
  <2> QED BY <2>2 DEF ForgetProc, new, w, gone
<1> QED BY <1>4, <1>5

(* A new agent on the rail, with the stage on it or where it was.           *)
LEMMA AgentAddedFollows ==
    ASSUME NEW ws \in WorkspaceType, NEW p \in PaneType, NEW stage,
           stage \in {ws.stage, p.work}, p.screen = 0,
           NEW m \in Nat, p.conv = m + 1
    PROVE  LET new == [ws EXCEPT !.agents = Append(@, p), !.stage = stage]
           IN  Follows(ws, new, m, m + 1) /\ StillPainted(ws, new)
<1> DEFINE new == [ws EXCEPT !.agents = Append(@, p), !.stage = stage]
<1>0. ws.agents \in Seq(PaneType)
  BY DEF WorkspaceType
<1>1. /\ new.dir = ws.dir /\ new.procs = ws.procs /\ new.stage = stage
      /\ new.agents = Append(ws.agents, p)
  BY DEF WorkspaceType
<1>2. /\ Convs(new.agents) = Convs(ws.agents) \cup {p.conv}
      /\ Works(new.agents) = Works(ws.agents) \cup {p.work}
      /\ Single(ws.agents) /\ p.conv \notin Convs(ws.agents) => Single(new.agents)
      /\ OwnRail(ws.agents) /\ p.screen \in {0, p.work} => OwnRail(new.agents)
      /\ \A files : Painted(files, ws.agents) => Painted(files, new.agents)
  BY <1>0, <1>1, RailAppended
<1> HIDE DEF new
<1>3. OnStage(ws) => OnStage(new)
  BY <1>1, <1>2 DEF OnStage
<1>4. OwnPanes(ws) => OwnPanes(new)
  BY <1>1, <1>2 DEF OwnPanes
<1>5. \A c \in Convs(new.agents) : c \in Convs(ws.agents) \/ c \in m + 1 .. m + 1
  BY <1>2
<1>6. Single(ws.agents) /\ Convs(ws.agents) \subseteq 0 .. m => Single(new.agents)
  <2>1. m + 1 \notin 0 .. m
    OBVIOUS
  <2> QED BY <1>2, <2>1
<1>7. StillPainted(ws, new)
  BY <1>1, <1>2 DEF StillPainted, PaintedBy
<1>8. Follows(ws, new, m, m + 1)
  BY <1>1, <1>3, <1>4, <1>5, <1>6 DEF Follows
<1> QED BY <1>7, <1>8 DEF new

LEMMA ProcAddedFollows ==
    ASSUME NEW ws \in WorkspaceType, NEW p \in PaneType, NEW stage,
           stage \in {ws.stage, p.work}, p.screen = 0, NEW m, NEW n
    PROVE  LET new == [ws EXCEPT !.procs = Append(@, p), !.stage = stage]
           IN  Follows(ws, new, m, n) /\ StillPainted(ws, new)
<1> DEFINE new == [ws EXCEPT !.procs = Append(@, p), !.stage = stage]
<1>0. ws.procs \in Seq(PaneType)
  BY DEF WorkspaceType
<1>1. /\ new.dir = ws.dir /\ new.agents = ws.agents /\ new.stage = stage
      /\ new.procs = Append(ws.procs, p)
  BY DEF WorkspaceType
<1>2. /\ Works(new.procs) = Works(ws.procs) \cup {p.work}
      /\ OwnRail(ws.procs) /\ p.screen \in {0, p.work} => OwnRail(new.procs)
      /\ \A files : Painted(files, ws.procs) => Painted(files, new.procs)
  BY <1>0, <1>1, RailAppended
<1> HIDE DEF new
<1>3. OnStage(ws) => OnStage(new)
  BY <1>1, <1>2 DEF OnStage
<1>4. OwnPanes(ws) => OwnPanes(new)
  BY <1>1, <1>2 DEF OwnPanes
<1>7. StillPainted(ws, new)
  BY <1>1, <1>2 DEF StillPainted, PaintedBy
<1>8. Follows(ws, new, m, n)
  BY <1>1, <1>3, <1>4 DEF Follows
<1> QED BY <1>7, <1>8 DEF new

(* A pane that stays in its place: it says, shows or becomes something, or  *)
(* is started anew on a conversation no agent has had.                      *)
LEMMA AgentReplacedFollows ==
    ASSUME NEW ws \in WorkspaceType, NEW i \in DOMAIN ws.agents, NEW p \in PaneType,
           p.work = ws.agents[i].work, p.screen \in {p.work, ws.agents[i].screen},
           NEW stage, stage \in {ws.stage, p.work},
           NEW m \in Nat, NEW n \in Nat,
           \/ p.conv = ws.agents[i].conv
           \/ p.conv = m + 1 /\ n = m + 1
    PROVE  LET new == [ws EXCEPT !.agents[i] = p, !.stage = stage]
           IN  Follows(ws, new, m, n) /\ StillPainted(ws, new)
<1> DEFINE new == [ws EXCEPT !.agents[i] = p, !.stage = stage]
<1>0. ws.agents \in Seq(PaneType)
  BY DEF WorkspaceType
<1>1. /\ new.dir = ws.dir /\ new.procs = ws.procs /\ new.stage = stage
      /\ new.agents = [ws.agents EXCEPT ![i] = p]
  BY DEF WorkspaceType
<1>2. /\ Convs(new.agents) \subseteq Convs(ws.agents) \cup {p.conv}
      /\ Works(new.agents) = Works(ws.agents)
      /\ Single(ws.agents) /\ p.conv \notin Convs(ws.agents) \ {ws.agents[i].conv}
             => Single(new.agents)
      /\ OwnRail(ws.agents) /\ p.screen \in {0, p.work, ws.agents[i].screen}
             => OwnRail(new.agents)
      /\ \A files : Painted(files, ws.agents) => Painted(files, new.agents)
  BY <1>0, <1>1, RailReplaced
<1>w. p.work \in Works(ws.agents) /\ ws.agents[i].conv \in Convs(ws.agents)
  BY DEF Works, Convs
<1> HIDE DEF new
<1>3. OnStage(ws) => OnStage(new)
  BY <1>1, <1>2, <1>w DEF OnStage
<1>4. OwnPanes(ws) => OwnPanes(new)
  BY <1>1, <1>2 DEF OwnPanes
<1>5. \A c \in Convs(new.agents) : c \in Convs(ws.agents) \/ c \in m + 1 .. n
  BY <1>2, <1>w
<1>6. Single(ws.agents) /\ Convs(ws.agents) \subseteq 0 .. m => Single(new.agents)
  <2>1. m + 1 \notin 0 .. m
    OBVIOUS
  <2> QED BY <1>2, <2>1
<1>7. StillPainted(ws, new)
  BY <1>1, <1>2 DEF StillPainted, PaintedBy
<1>8. Follows(ws, new, m, n)
  BY <1>1, <1>3, <1>4, <1>5, <1>6 DEF Follows
<1> QED BY <1>7, <1>8 DEF new

LEMMA ProcReplacedFollows ==
    ASSUME NEW ws \in WorkspaceType, NEW i \in DOMAIN ws.procs, NEW p \in PaneType,
           p.work = ws.procs[i].work, p.screen \in {p.work, ws.procs[i].screen},
           NEW m, NEW n
    PROVE  LET new == [ws EXCEPT !.procs[i] = p]
           IN  Follows(ws, new, m, n) /\ StillPainted(ws, new)
<1> DEFINE new == [ws EXCEPT !.procs[i] = p]
<1>0. ws.procs \in Seq(PaneType)
  BY DEF WorkspaceType
<1>1. /\ new.dir = ws.dir /\ new.agents = ws.agents /\ new.stage = ws.stage
      /\ new.procs = [ws.procs EXCEPT ![i] = p]
  BY DEF WorkspaceType
<1>2. /\ Works(new.procs) = Works(ws.procs)
      /\ OwnRail(ws.procs) /\ p.screen \in {0, p.work, ws.procs[i].screen}
             => OwnRail(new.procs)
      /\ \A files : Painted(files, ws.procs) => Painted(files, new.procs)
  BY <1>0, <1>1, RailReplaced
<1> HIDE DEF new
<1>3. OnStage(ws) => OnStage(new)
  BY <1>1, <1>2 DEF OnStage
<1>4. OwnPanes(ws) => OwnPanes(new)
  BY <1>1, <1>2 DEF OwnPanes
<1>7. StillPainted(ws, new)
  BY <1>1, <1>2 DEF StillPainted, PaintedBy
<1>8. Follows(ws, new, m, n)
  BY <1>1, <1>3, <1>4 DEF Follows
<1> QED BY <1>7, <1>8 DEF new

(* Two handlers of one workspace that draw no id, one after the other.      *)
LEMMA FollowsTwice ==
    ASSUME NEW ws, NEW mid, NEW new, NEW m \in Nat,
           Follows(ws, mid, m, m), Follows(mid, new, m, m)
    PROVE  Follows(ws, new, m, m)
<1>1. m + 1 .. m = {}
  OBVIOUS
<1>2. /\ Convs(mid.agents) \subseteq Convs(ws.agents)
      /\ Convs(new.agents) \subseteq Convs(mid.agents)
  BY <1>1 DEF Follows
<1> QED BY <1>1, <1>2 DEF Follows

(* A step of the serving daemon that changes one workspace.                 *)
Reworked(k, new) ==
    /\ Rework(k, new)
    /\ Follows(wss[k], new, minted, minted')
    /\ minted' \in {minted, minted + 1}
    /\ UNCHANGED held
    /\ Save(wss', held) \/ UNCHANGED store
    /\ \/ changed' = TRUE
       \/ UNCHANGED changed /\ StillPainted(wss[k], new)

Handled(k) == \E new \in WorkspaceType : Reworked(k, new)

LEMMA DropsShape ==
    ASSUME TypeOK, NEW k \in DOMAIN wss
    PROVE  /\ \A i \in DOMAIN wss[k].agents : DropAgent(k, i) => Handled(k)
           /\ \A i \in DOMAIN wss[k].procs : DropProc(k, i) => Handled(k)
<1>1. ASSUME NEW i \in DOMAIN wss[k].agents, DropAgent(k, i) PROVE Handled(k)
  <2> DEFINE new == ForgetAgent(wss[k], i)
  <2>1. new \in WorkspaceType /\ Follows(wss[k], new, minted, minted')
    BY PartsType, ForgetAgentType, ForgetAgentFollows
  <2>2. Rework(k, new) /\ changed' = TRUE /\ Save(wss', held) /\ UNCHANGED <<held, minted>>
    BY <1>1 DEF DropAgent
  <2> HIDE DEF new
  <2> QED BY <2>1, <2>2 DEF Handled, Reworked
<1>2. ASSUME NEW i \in DOMAIN wss[k].procs, DropProc(k, i) PROVE Handled(k)
  <2> DEFINE new == ForgetProc(wss[k], i)
  <2>1. new \in WorkspaceType /\ Follows(wss[k], new, minted, minted')
    BY PartsType, ForgetProcType, ForgetProcFollows
  <2>2. Rework(k, new) /\ changed' = TRUE /\ Save(wss', held) /\ UNCHANGED <<held, minted>>
    BY <1>2 DEF DropProc
  <2> HIDE DEF new
  <2> QED BY <2>1, <2>2 DEF Handled, Reworked
<1> QED BY <1>1, <1>2

LEMMA AgentStepShape ==
    ASSUME TypeOK, NEW k \in DOMAIN wss, NEW i \in DOMAIN wss[k].agents,
           AgentStep(k, i)
    PROVE  Handled(k)
<1> DEFINE ws == wss[k]
           p == ws.agents[i]
           Put(q, stage) == [ws EXCEPT !.agents[i] = q, !.stage = stage]
<1>0. /\ ws \in WorkspaceType /\ ws.stage \in Nat /\ ws.agents \in Seq(PaneType)
      /\ p \in PaneType /\ p.work \in Nat /\ p.screen \in Nat /\ minted \in Nat
  <2>1. minted \in Nat
    BY DEF TypeOK
  <2> QED BY <2>1, PartsType, PanesType
<1>1. ASSUME NEW q \in PaneType, q.work = p.work, q.conv = p.conv,
             q.screen \in {p.work, p.screen},
             Rework(k, [ws EXCEPT !.agents[i] = q]),
             Save(wss', held) \/ UNCHANGED store,
             UNCHANGED <<held, minted, changed>>
      PROVE  Handled(k)
  <2> DEFINE new == Put(q, ws.stage)
  <2>1. new = [ws EXCEPT !.agents[i] = q]
    BY <1>0 DEF WorkspaceType
  <2>2. new \in WorkspaceType
    BY <1>0, SetPaneType
  <2>3. Follows(ws, new, minted, minted') /\ StillPainted(ws, new)
    BY <1>0, <1>1, AgentReplacedFollows
  <2> HIDE DEF new, p
  <2> QED BY <1>1, <2>1, <2>2, <2>3 DEF Handled, Reworked
<1>2. CASE DropAgent(k, i) \/ AgentExitsClean(k, i)
  BY <1>2, DropsShape DEF AgentExitsClean
<1>3. CASE Speak(k, i)
  <2> DEFINE q == [p EXCEPT !.spoke = TRUE]
  <2>1. q \in PaneType /\ q.work = p.work /\ q.conv = p.conv /\ q.screen = p.screen
    BY <1>0 DEF PaneType
  <2>2. Rework(k, [ws EXCEPT !.agents[i] = q]) /\ Save(wss', held)
        /\ UNCHANGED <<held, minted, changed>>
    BY <1>3 DEF Speak
  <2> HIDE DEF q
  <2> QED BY <1>1, <2>1, <2>2
<1>4. CASE AgentOutput(k, i)
  <2> DEFINE q == [p EXCEPT !.screen = p.work]
  <2>1. q \in PaneType /\ q.work = p.work /\ q.conv = p.conv /\ q.screen = p.work
    BY <1>0 DEF PaneType
  <2>2. Rework(k, [ws EXCEPT !.agents[i] = q]) /\ UNCHANGED <<held, minted, store, changed>>
    BY <1>4 DEF AgentOutput
  <2> HIDE DEF q
  <2> QED BY <1>1, <2>1, <2>2
<1>5. CASE AgentFails(k, i)
  <2> DEFINE q == [p EXCEPT !.dead = TRUE, !.armed = FALSE]
  <2>1. q \in PaneType /\ q.work = p.work /\ q.conv = p.conv /\ q.screen = p.screen
    BY <1>0 DEF PaneType
  <2>2. Rework(k, [ws EXCEPT !.agents[i] = q]) /\ UNCHANGED <<held, minted, store, changed>>
    BY <1>5 DEF AgentFails
  <2> HIDE DEF q
  <2> QED BY <1>1, <2>1, <2>2
<1>6. CASE RetryResume(k, i)
  <2> DEFINE q == Pane("agent", p.work, minted + 1, FALSE, p.screen)
             stage == IF ws.stage = 0 THEN p.work ELSE ws.stage
             new == Put(q, stage)
             gone == ForgetAgent(ws, i)
  <2>1. q \in PaneType /\ q.work = p.work /\ q.conv = minted + 1 /\ q.screen = p.screen
    <3>1. minted + 1 \in Nat
      BY <1>0
    <3>2. q \in PaneType
      BY <1>0, <3>1, PaneHasType
    <3> QED BY <3>2 DEF Pane
  <2>2. stage \in Nat /\ stage \in {ws.stage, q.work}
    BY <1>0, <2>1
  <2>3. /\ \/ Rework(k, new) /\ minted' = minted + 1 /\ UNCHANGED changed
           \/ Rework(k, gone) /\ changed' = TRUE /\ UNCHANGED minted
        /\ Save(wss', held)
        /\ UNCHANGED held
    BY <1>6 DEF RetryResume
  <2> HIDE DEF q, stage
  <2>4. new \in WorkspaceType
    BY <1>0, <2>1, <2>2, SetPaneType
  <2>5. Follows(ws, new, minted, minted + 1) /\ StillPainted(ws, new)
    <3>1. minted + 1 \in Nat
      BY <1>0
    <3> QED BY <1>0, <2>1, <2>2, <3>1, AgentReplacedFollows
  <2>6. gone \in WorkspaceType /\ Follows(ws, gone, minted, minted)
    BY <1>0, ForgetAgentType, ForgetAgentFollows
  <2> HIDE DEF new, gone
  <2>7. CASE Rework(k, new) /\ minted' = minted + 1 /\ UNCHANGED changed
    BY <2>3, <2>4, <2>5, <2>7 DEF Handled, Reworked
  <2>8. CASE Rework(k, gone) /\ changed' = TRUE /\ UNCHANGED minted
    BY <2>3, <2>6, <2>8 DEF Handled, Reworked
  <2> QED BY <2>3, <2>7, <2>8
<1> QED BY <1>2, <1>3, <1>4, <1>5, <1>6 DEF AgentStep

LEMMA ProcStepShape ==
    ASSUME TypeOK, NEW k \in DOMAIN wss, NEW i \in DOMAIN wss[k].procs,
           ProcStep(k, i)
    PROVE  Handled(k) \/ KillWorkspace(k)
<1> DEFINE ws == wss[k]
           p == ws.procs[i]
<1>0. /\ ws \in WorkspaceType /\ ws.stage \in Nat /\ ws.procs \in Seq(PaneType)
      /\ p \in PaneType /\ p.work \in Nat /\ p.kind \in {"agent", "shell", "cmd"}
      /\ minted \in Nat
  <2>1. minted \in Nat
    BY DEF TypeOK
  <2> QED BY <2>1, PartsType, PanesType
<1>1. ASSUME NEW q \in PaneType, q.work = p.work, q.screen \in {p.work, p.screen},
             Rework(k, [ws EXCEPT !.procs[i] = q]),
             UNCHANGED <<held, store, minted, changed>>
      PROVE  Handled(k)
  <2> DEFINE new == [ws EXCEPT !.procs[i] = q]
  <2>1. new \in WorkspaceType
    BY <1>0, SetPaneType
  <2>2. Follows(ws, new, minted, minted') /\ StillPainted(ws, new)
    BY <1>0, <1>1, ProcReplacedFollows
  <2>3. Rework(k, new)
    BY <1>1
  <2> HIDE DEF new, p
  <2> QED BY <1>1, <2>1, <2>2, <2>3 DEF Handled, Reworked
<1>2. CASE DropProc(k, i)
  BY <1>2, DropsShape
<1>3. CASE RestartProcess(k, i)
  <2> DEFINE without == ForgetProc(ws, i)
             q == FreshProc(p.kind, p.work)
             new == [without EXCEPT !.procs = Append(@, q)]
  <2>1. without \in WorkspaceType /\ Follows(ws, without, minted, minted)
    BY <1>0, ForgetProcType, ForgetProcFollows
  <2>2. q \in PaneType /\ q.screen = 0
    <3>1. q \in PaneType
      BY <1>0, PaneHasType DEF FreshProc
    <3> QED BY <3>1 DEF FreshProc, Pane
  <2>3. /\ Rework(k, new) \/ Rework(k, without)
        /\ changed' = TRUE
        /\ UNCHANGED <<held, minted, store>>
    BY <1>3 DEF RestartProcess
  <2> HIDE DEF without, q
  <2>4. new \in WorkspaceType
    BY <2>1, <2>2, AppendProcType, 0 \in Nat
  <2>5. new = [without EXCEPT !.procs = Append(@, q), !.stage = without.stage]
    BY <2>1 DEF WorkspaceType
  <2>6. Follows(without, new, minted, minted)
    BY <2>1, <2>2, <2>5, ProcAddedFollows
  <2> HIDE DEF new
  <2>7. Follows(ws, new, minted, minted)
    BY <1>0, <2>1, <2>6, FollowsTwice
  <2> QED BY <2>1, <2>3, <2>4, <2>7 DEF Handled, Reworked
<1>4. CASE ProcOutput(k, i)
  <2> DEFINE q == [p EXCEPT !.screen = p.work]
  <2>1. q \in PaneType /\ q.work = p.work /\ q.screen = p.work
    BY <1>0 DEF PaneType
  <2>2. Rework(k, [ws EXCEPT !.procs[i] = q]) /\ UNCHANGED <<held, minted, store, changed>>
    BY <1>4 DEF ProcOutput
  <2> HIDE DEF q
  <2> QED BY <1>1, <2>1, <2>2
<1>5. CASE ShellExits(k, i)
  BY <1>5, DropsShape DEF ShellExits
<1>6. CASE CommandExits(k, i)
  <2> DEFINE q == [p EXCEPT !.dead = TRUE]
  <2>1. q \in PaneType /\ q.work = p.work /\ q.screen = p.screen
    BY <1>0 DEF PaneType
  <2>2. \/ DropProc(k, i)
        \/ Rework(k, [ws EXCEPT !.procs[i] = q]) /\ UNCHANGED <<held, minted, store, changed>>
    BY <1>6 DEF CommandExits
  <2> HIDE DEF q
  <2> QED BY <1>1, <2>1, <2>2, DropsShape
<1> QED BY <1>2, <1>3, <1>4, <1>5, <1>6 DEF ProcStep

LEMMA ServeShape ==
    ASSUME TypeOK, Serve
    PROVE  \/ \E d \in Dirs : \E up \in Launches(d) : OpenWorkspace(d, up)
           \/ \E k \in DOMAIN wss : KillWorkspace(k) \/ Handled(k)
<1>0. minted \in Nat /\ minted + 1 \in Nat
  BY DEF TypeOK
<1>1. ASSUME NEW k \in DOMAIN wss, NEW background \in BOOLEAN,
             SpawnAgent(k, background)
      PROVE  Handled(k)
  <2> DEFINE q == FreshAgent(minted + 1)
             stage == IF background THEN wss[k].stage ELSE minted + 1
             new == [wss[k] EXCEPT !.agents = Append(@, q), !.stage = stage]
  <2>1. /\ Rework(k, new) /\ minted' = minted + 1 /\ Save(wss', held)
        /\ UNCHANGED <<held, changed>>
    BY <1>1 DEF SpawnAgent
  <2>2. q \in PaneType /\ q.screen = 0 /\ q.work = minted + 1 /\ q.conv = minted + 1
    <3>1. q \in PaneType
      BY <1>0, FreshPanes
    <3> QED BY <3>1 DEF FreshAgent, Pane
  <2>3. wss[k] \in WorkspaceType /\ stage \in Nat /\ stage \in {wss[k].stage, q.work}
    BY <1>0, <2>2, PartsType
  <2> HIDE DEF q, stage
  <2>4. new \in WorkspaceType
    BY <2>2, <2>3, AppendAgentType
  <2>5. Follows(wss[k], new, minted, minted + 1) /\ StillPainted(wss[k], new)
    BY <1>0, <2>2, <2>3, AgentAddedFollows
  <2> HIDE DEF new
  <2> QED BY <2>1, <2>4, <2>5 DEF Handled, Reworked
<1>2. ASSUME NEW k \in DOMAIN wss, NewProcess(k)
      PROVE  Handled(k)
  <2> DEFINE q == FreshProc("cmd", minted + 1)
             new == [wss[k] EXCEPT !.procs = Append(@, q), !.stage = minted + 1]
  <2>1. /\ Rework(k, new) /\ minted' = minted + 1
        /\ UNCHANGED <<held, store, changed>>
    BY <1>2 DEF NewProcess
  <2>2. q \in PaneType /\ q.screen = 0 /\ q.work = minted + 1
    <3>1. q \in PaneType
      BY <1>0, FreshPanes
    <3> QED BY <3>1 DEF FreshProc, Pane
  <2>3. wss[k] \in WorkspaceType
    BY PartsType
  <2> HIDE DEF q
  <2>4. new \in WorkspaceType
    BY <1>0, <2>2, <2>3, AppendProcType
  <2>5. Follows(wss[k], new, minted, minted + 1) /\ StillPainted(wss[k], new)
    BY <2>2, <2>3, ProcAddedFollows
  <2> HIDE DEF new
  <2> QED BY <2>1, <2>4, <2>5 DEF Handled, Reworked
<1> QED BY <1>1, <1>2, AgentStepShape, ProcStepShape DEF Serve

-----------------------------------------------------------------------------
(* Entries that share nothing of what M tells of them.                      *)

ConvsOf == [e \in EntryType |-> Convs(e.agents)]
DirOf == [e \in EntryType |-> {e.dir}]

Scattered(s, M) ==
    /\ \A k, l \in DOMAIN s.live : k # l => M[s.live[k]] \cap M[s.live[l]] = {}
    /\ \A k \in DOMAIN s.live, e \in s.held : M[s.live[k]] \cap M[e] = {}
    /\ \A d, e \in s.held : d # e => M[d] \cap M[e] = {}

LEMMA EmptyScattered ==
    Entries(EmptyStore) = {} /\ \A M : Scattered(EmptyStore, M)
BY DEF Entries, EmptyStore, Scattered

LEMMA EntriesType ==
    ASSUME NEW s \in StoreType
    PROVE  Entries(s) \subseteq EntryType
BY DEF Entries, StoreType

(* What is still to visit is apart from the entry that is visited.          *)
LEMMA VisitScattered ==
    ASSUME TypeOK, NEW e, Visit(e), NEW M, Scattered(todo, M)
    PROVE  /\ e \in Entries(todo) /\ Entries(todo') \subseteq Entries(todo)
           /\ Scattered(todo', M)
           /\ \A x \in Entries(todo') : M[x] \cap M[e] = {}
<1>0. todo \in StoreType /\ todo.live \in Seq(EntryType)
  BY DEF TypeOK, StoreType
<1>1. CASE todo.live # <<>> /\ e = Head(todo.live) /\ todo' = [todo EXCEPT !.live = Tail(@)]
  <2> DEFINE q == todo.live
             r == Tail(q)
  <2>1. /\ todo'.live = r /\ todo'.held = todo.held
    BY <1>0, <1>1 DEF StoreType
  <2>2. /\ DOMAIN q = 1 .. Len(q) /\ Len(q) \in Nat /\ Len(q) # 0
        /\ DOMAIN r = 1 .. Len(q) - 1 /\ \A j \in 1 .. Len(q) - 1 : r[j] = q[j + 1]
        /\ e = q[1]
    BY <1>0, <1>1
  <2>3. 1 \in DOMAIN q /\ \A j \in DOMAIN r : j + 1 \in DOMAIN q /\ j + 1 # 1
    BY <2>2
  <2>4. \A j, l \in DOMAIN r : j # l => j + 1 # l + 1
    BY <2>2
  <2>5. e \in Entries(todo)
    BY <2>2, <2>3 DEF Entries
  <2>6. ASSUME NEW x \in Entries(todo')
        PROVE  x \in todo.held \/ \E j \in DOMAIN r : x = q[j + 1]
    BY <2>1, <2>2 DEF Entries
  <2>7. Entries(todo') \subseteq Entries(todo)
    BY <2>3, <2>6 DEF Entries
  <2> HIDE DEF r
  <2>8. Scattered(todo', M)
    <3>1. \A j \in DOMAIN r : j + 1 \in DOMAIN todo.live /\ r[j] = todo.live[j + 1]
      BY <2>2, <2>3
    <3>2. ASSUME NEW j \in DOMAIN r, NEW l \in DOMAIN r, j # l PROVE M[r[j]] \cap M[r[l]] = {}
      <4>1. j + 1 # l + 1
        BY <2>4, <3>2
      <4> QED BY <3>1, <4>1 DEF Scattered
    <3>3. \A j \in DOMAIN r, x \in todo.held : M[r[j]] \cap M[x] = {}
      BY <3>1 DEF Scattered
    <3>4. \A d, x \in todo.held : d # x => M[d] \cap M[x] = {}
      BY DEF Scattered
    <3> QED BY <2>1, <3>2, <3>3, <3>4 DEF Scattered
  <2>9. ASSUME NEW x \in Entries(todo') PROVE M[x] \cap M[e] = {}
    <3>1. CASE x \in todo.held
      BY <2>2, <2>3, <3>1 DEF Scattered
    <3>2. CASE \E j \in DOMAIN r : x = q[j + 1]
      <4>1. PICK j \in DOMAIN r : x = q[j + 1]
        BY <3>2
      <4>2. j + 1 \in DOMAIN q /\ j + 1 # 1 /\ 1 \in DOMAIN q /\ e = q[1]
        BY <2>2, <2>3
      <4> HIDE DEF q
      <4> QED BY <4>1, <4>2 DEF Scattered, q
    <3> QED BY <2>6, <3>1, <3>2
  <2> QED BY <2>5, <2>7, <2>8, <2>9
<1>2. CASE todo.live = <<>> /\ e \in todo.held /\ todo' = [todo EXCEPT !.held = @ \ {e}]
  <2>1. /\ todo'.live = <<>> /\ todo'.held = todo.held \ {e} /\ todo.live = <<>>
    BY <1>0, <1>2 DEF StoreType
  <2>2. Entries(todo') = todo.held \ {e} /\ Entries(todo) = todo.held
    BY <2>1 DEF Entries
  <2>3. Scattered(todo', M)
    BY <2>1 DEF Scattered
  <2>4. \A x \in Entries(todo') : M[x] \cap M[e] = {}
    BY <1>2, <2>2 DEF Scattered
  <2> QED BY <1>2, <2>2, <2>3, <2>4
<1> QED BY <1>1, <1>2 DEF Visit

(* The file that is written is scattered if what it is written from is.     *)
LEMMA PersistedScattered ==
    ASSUME NEW w \in Seq(WorkspaceType), NEW h \in SUBSET EntryType, NEW M,
           \A k, l \in DOMAIN w : k # l => M[Entry(w[k])] \cap M[Entry(w[l])] = {},
           \A k \in DOMAIN w, e \in h : e.dir \notin OpenDirs(w) => M[Entry(w[k])] \cap M[e] = {},
           \A d, e \in h : d # e => M[d] \cap M[e] = {}
    PROVE  Scattered(Persisted(w, h), M)
<1> DEFINE s == Persisted(w, h)
<1>1. /\ DOMAIN s.live = DOMAIN w /\ \A k \in DOMAIN w : s.live[k] = Entry(w[k])
      /\ s.held = {e \in h : e.dir \notin OpenDirs(w)}
  BY DEF Persisted
<1> HIDE DEF s
<1>2. Scattered(s, M)
  BY <1>1 DEF Scattered
<1> QED BY <1>2 DEF s

LEMMA PersistedEntries ==
    ASSUME NEW w, NEW h, NEW x \in Entries(Persisted(w, h))
    PROVE  \/ \E k \in DOMAIN w : x = Entry(w[k])
           \/ x \in h /\ x.dir \notin OpenDirs(w)
BY DEF Entries, Persisted

(* An entry holds the conversations and names the works of its workspace.   *)
LEMMA EntryTells ==
    ASSUME NEW ws \in WorkspaceType
    PROVE  /\ ConvsOf[Entry(ws)] = Convs(ws.agents)
           /\ DirOf[Entry(ws)] = {ws.dir}
           /\ Single(ws.agents) => Single(Entry(ws).agents)
           /\ Convs(Entry(ws).agents) = Convs(ws.agents)
           /\ \A d : PaintedBy(d, ws) <=> PaintedBy(d, Entry(ws))
<1> DEFINE e == Entry(ws)
<1>1. e \in EntryType /\ e.dir = ws.dir
  BY EntryHasType
<1>2. /\ DOMAIN e.agents = DOMAIN ws.agents /\ DOMAIN e.procs = DOMAIN ws.procs
      /\ \A i \in DOMAIN ws.agents : /\ e.agents[i].work = ws.agents[i].work
                                     /\ e.agents[i].conv = ws.agents[i].conv
      /\ \A i \in DOMAIN ws.procs : e.procs[i].work = ws.procs[i].work
  BY DEF Entry, AgentEntry, ProcEntry
<1> HIDE DEF e
<1>3. Convs(e.agents) = Convs(ws.agents)
  BY <1>2 DEF Convs
<1>4. Single(ws.agents) => Single(e.agents)
  BY <1>2 DEF Single
<1>5. \A d : PaintedBy(d, ws) <=> PaintedBy(d, e)
  BY <1>2 DEF PaintedBy, Painted
<1>6. ConvsOf[e] = Convs(e.agents) /\ DirOf[e] = {e.dir}
  BY <1>1 DEF ConvsOf, DirOf
<1> QED BY <1>1, <1>3, <1>4, <1>5, <1>6 DEF e

-----------------------------------------------------------------------------
(* Who holds which conversation: w the open workspaces, h the entries put   *)
(* aside, s a session file, t the entries to come, r the conversations of   *)
(* the entry at hand that are still to come, n the ids drawn.               *)

OpenApart(w, n) ==
    /\ \A k \in DOMAIN w : Single(w[k].agents) /\ Convs(w[k].agents) \subseteq 0 .. n
    /\ \A k, l \in DOMAIN w : k # l => Convs(w[k].agents) \cap Convs(w[l].agents) = {}

HeldApart(w, h, n) ==
    /\ \A e \in h : Single(e.agents) /\ ConvsOf[e] \subseteq 0 .. n
    /\ \A d, e \in h : d # e => ConvsOf[d] \cap ConvsOf[e] = {}
    /\ \A k \in DOMAIN w, e \in h : Convs(w[k].agents) \cap ConvsOf[e] = {}

FileApart(s, n) ==
    /\ \A e \in Entries(s) : Single(e.agents) /\ ConvsOf[e] \subseteq 0 .. n
    /\ Scattered(s, ConvsOf)

ComingApart(w, h, t, r) ==
    /\ \A e \in Entries(t) : /\ \A k \in DOMAIN w : Convs(w[k].agents) \cap ConvsOf[e] = {}
                             /\ \A d \in h : ConvsOf[d] \cap ConvsOf[e] = {}
                             /\ r \cap ConvsOf[e] = {}
    /\ \A k \in DOMAIN w : Convs(w[k].agents) \cap r = {}
    /\ \A d \in h : ConvsOf[d] \cap r = {}

(* What rebuild_workspace_panes has not tried yet.                          *)
Rest ==
    {c \in Nat : \E i \in DOMAIN cur[1].agents :
        cur # <<>> /\ i + Len(cur[1].procs) > at /\ c = cur[1].agents[i].conv}

Holders ==
    /\ OpenApart(wss, minted)
    /\ HeldApart(wss, held, minted)
    /\ FileApart(store, minted)
    /\ FileApart(todo, minted)
    /\ ComingApart(wss, held, todo, Rest)
    /\ Rest \subseteq 0 .. minted
    /\ cur # <<>> => Single(cur[1].agents)

LEMMA ApartGrows ==
    ASSUME NEW m \in Nat, NEW n \in Nat, m <= n
    PROVE  /\ \A w : OpenApart(w, m) => OpenApart(w, n)
           /\ \A w, h : HeldApart(w, h, m) => HeldApart(w, h, n)
           /\ \A s : FileApart(s, m) => FileApart(s, n)
<1>1. 0 .. m \subseteq 0 .. n
  OBVIOUS
<1>2. \A w : OpenApart(w, m) => OpenApart(w, n)
  BY <1>1 DEF OpenApart
<1>3. \A w, h : HeldApart(w, h, m) => HeldApart(w, h, n)
  BY <1>1 DEF HeldApart
<1>4. \A s : FileApart(s, m) => FileApart(s, n)
  BY <1>1 DEF FileApart
<1> QED BY <1>2, <1>3, <1>4

(* Fewer workspaces, in whatever order.                                     *)
Thinned(w, v) ==
    \E f \in [DOMAIN v -> DOMAIN w] :
        /\ \A j, l \in DOMAIN v : f[j] = f[l] => j = l
        /\ \A j \in DOMAIN v : v[j] = w[f[j]]

LEMMA ThinnedWays ==
    ASSUME NEW w \in Seq(WorkspaceType)
    PROVE  /\ Thinned(w, w)
           /\ Thinned(w, <<>>)
           /\ w # <<>> => Thinned(w, Tail(w))
           /\ \A k \in DOMAIN w : Thinned(w, RemoveAt(w, k))
<1>1. Thinned(w, w)
  <2> DEFINE f == [j \in DOMAIN w |-> j]
  <2>1. f \in [DOMAIN w -> DOMAIN w] /\ \A j \in DOMAIN w : f[j] = j
    OBVIOUS
  <2> HIDE DEF f
  <2> QED BY <2>1 DEF Thinned
<1>2. Thinned(w, <<>>)
  <2> DEFINE f == [j \in {} |-> j]
  <2>1. f \in [{} -> DOMAIN w]
    OBVIOUS
  <2>2. DOMAIN <<>> = {}
    OBVIOUS
  <2> HIDE DEF f
  <2> QED BY <2>1, <2>2 DEF Thinned
<1>3. ASSUME w # <<>> PROVE Thinned(w, Tail(w))
  <2> DEFINE f == [j \in DOMAIN Tail(w) |-> j + 1]
  <2>1. /\ DOMAIN Tail(w) = 1 .. Len(w) - 1 /\ DOMAIN w = 1 .. Len(w) /\ Len(w) \in Nat
        /\ \A j \in 1 .. Len(w) - 1 : Tail(w)[j] = w[j + 1]
    BY <1>3
  <2>2. /\ f \in [DOMAIN Tail(w) -> DOMAIN w]
        /\ \A j, l \in DOMAIN Tail(w) : f[j] = f[l] => j = l
        /\ \A j \in DOMAIN Tail(w) : Tail(w)[j] = w[f[j]]
    BY <2>1
  <2> HIDE DEF f
  <2> QED BY <2>2 DEF Thinned
<1>4. ASSUME NEW k \in DOMAIN w PROVE Thinned(w, RemoveAt(w, k))
  <2> DEFINE v == RemoveAt(w, k)
  <2>1. PICK f \in [DOMAIN v -> DOMAIN w] :
            /\ \A j, l \in DOMAIN v : f[j] = f[l] => j = l
            /\ \A j \in DOMAIN v : v[j] = w[f[j]]
            /\ \A l \in DOMAIN w : l # k => \E j \in DOMAIN v : f[j] = l
            /\ \A j \in DOMAIN v : f[j] # k
    BY RailWithout
  <2> HIDE DEF v
  <2>2. Thinned(w, v)
    BY <2>1 DEF Thinned
  <2> QED BY <2>2 DEF v
<1> QED BY <1>1, <1>2, <1>3, <1>4

LEMMA ThinnedApart ==
    ASSUME NEW w, NEW v, Thinned(w, v), NEW h, NEW g \in SUBSET h, NEW t, NEW u,
           Entries(u) \subseteq Entries(t), NEW r, NEW q \in SUBSET r, NEW n
    PROVE  /\ OpenApart(w, n) => OpenApart(v, n)
           /\ HeldApart(w, h, n) => HeldApart(v, g, n)
           /\ ComingApart(w, h, t, r) => ComingApart(v, g, u, q)
<1>1. PICK f \in [DOMAIN v -> DOMAIN w] :
          /\ \A j, l \in DOMAIN v : f[j] = f[l] => j = l
          /\ \A j \in DOMAIN v : v[j] = w[f[j]]
  BY DEF Thinned
<1>2. ASSUME OpenApart(w, n) PROVE OpenApart(v, n)
  <2>1. ASSUME NEW k \in DOMAIN v
        PROVE  Single(v[k].agents) /\ Convs(v[k].agents) \subseteq 0 .. n
    <3>1. f[k] \in DOMAIN w /\ v[k] = w[f[k]]
      BY <1>1
    <3> QED BY <1>2, <3>1 DEF OpenApart
  <2>2. ASSUME NEW k \in DOMAIN v, NEW l \in DOMAIN v, k # l
        PROVE  Convs(v[k].agents) \cap Convs(v[l].agents) = {}
    <3>1. /\ f[k] \in DOMAIN w /\ f[l] \in DOMAIN w /\ f[k] # f[l]
          /\ v[k] = w[f[k]] /\ v[l] = w[f[l]]
      BY <1>1, <2>2
    <3> QED BY <1>2, <3>1 DEF OpenApart
  <2> QED BY <2>1, <2>2 DEF OpenApart
<1>3. ASSUME HeldApart(w, h, n) PROVE HeldApart(v, g, n)
  <2>1. \A k \in DOMAIN v, e \in g : Convs(v[k].agents) \cap ConvsOf[e] = {}
    BY <1>1, <1>3 DEF HeldApart
  <2> QED BY <1>3, <2>1 DEF HeldApart
<1>4. ComingApart(w, h, t, r) => ComingApart(v, g, u, q)
  <2> SUFFICES ASSUME ComingApart(w, h, t, r) PROVE ComingApart(v, g, u, q)
    OBVIOUS
  <2>1. \A k \in DOMAIN v : f[k] \in DOMAIN w /\ v[k] = w[f[k]]
    BY <1>1
  <2>2. ASSUME NEW e \in Entries(u)
        PROVE  /\ \A k \in DOMAIN v : Convs(v[k].agents) \cap ConvsOf[e] = {}
               /\ \A d \in g : ConvsOf[d] \cap ConvsOf[e] = {}
               /\ q \cap ConvsOf[e] = {}
    BY <2>1 DEF ComingApart
  <2>3. \A k \in DOMAIN v : Convs(v[k].agents) \cap q = {}
    BY <2>1 DEF ComingApart
  <2>4. \A d \in g : ConvsOf[d] \cap q = {}
    BY DEF ComingApart
  <2> QED BY <2>2, <2>3, <2>4 DEF ComingApart
<1> QED BY <1>2, <1>3, <1>4

(* A workspace whose agents took conversations of X, which nobody held.     *)
Free(X, w, h, t, r) ==
    /\ \A k \in DOMAIN w : Convs(w[k].agents) \cap X = {}
    /\ \A d \in h : ConvsOf[d] \cap X = {}
    /\ \A e \in Entries(t) : ConvsOf[e] \cap X = {}
    /\ r \cap X = {}

LEMMA ReworkedApart ==
    ASSUME NEW w, NEW k \in DOMAIN w, NEW new, Single(new.agents),
           NEW h, NEW t, NEW r, NEW n,
           NEW X, X \subseteq 0 .. n, Free(X, w, h, t, r),
           Convs(new.agents) \subseteq Convs(w[k].agents) \cup X
    PROVE  LET v == [w EXCEPT ![k] = new]
           IN  /\ OpenApart(w, n) => OpenApart(v, n)
               /\ OpenApart(w, n) /\ HeldApart(w, h, n) => HeldApart(v, h, n)
               /\ ComingApart(w, h, t, r) => ComingApart(v, h, t, r)
<1> DEFINE v == [w EXCEPT ![k] = new]
<1>1. DOMAIN v = DOMAIN w /\ v[k] = new /\ \A j \in DOMAIN w : j # k => v[j] = w[j]
  OBVIOUS
<1> HIDE DEF v
<1>2. ASSUME NEW C, C \cap X = {}, Convs(w[k].agents) \cap C = {}
      PROVE  Convs(new.agents) \cap C = {}
  BY <1>2
<1>3. OpenApart(w, n) => OpenApart(v, n)
  <2> SUFFICES ASSUME OpenApart(w, n) PROVE OpenApart(v, n)
    OBVIOUS
  <2>1. Convs(new.agents) \subseteq 0 .. n
    BY DEF OpenApart
  <2>2. \A l \in DOMAIN w : l # k => Convs(new.agents) \cap Convs(w[l].agents) = {}
    BY <1>2 DEF OpenApart, Free
  <2>3. \A j, l \in DOMAIN v : j # l => Convs(v[j].agents) \cap Convs(v[l].agents) = {}
    <3> SUFFICES ASSUME NEW j \in DOMAIN v, NEW l \in DOMAIN v, j # l
                 PROVE  Convs(v[j].agents) \cap Convs(v[l].agents) = {}
      OBVIOUS
    <3>1. CASE j = k
      BY <1>1, <2>2, <3>1
    <3>2. CASE l = k
      BY <1>1, <2>2, <3>2
    <3>3. CASE j # k /\ l # k
      BY <1>1, <3>3 DEF OpenApart
    <3> QED BY <3>1, <3>2, <3>3
  <2>4. \A j \in DOMAIN v : Single(v[j].agents) /\ Convs(v[j].agents) \subseteq 0 .. n
    BY <1>1, <2>1 DEF OpenApart
  <2> QED BY <2>3, <2>4 DEF OpenApart
<1>4. HeldApart(w, h, n) => HeldApart(v, h, n)
  <2> SUFFICES ASSUME HeldApart(w, h, n) PROVE HeldApart(v, h, n)
    OBVIOUS
  <2>1. \A e \in h : Convs(new.agents) \cap ConvsOf[e] = {}
    BY <1>2 DEF HeldApart, Free
  <2> QED BY <1>1, <2>1 DEF HeldApart
<1>5. ComingApart(w, h, t, r) => ComingApart(v, h, t, r)
  <2> SUFFICES ASSUME ComingApart(w, h, t, r) PROVE ComingApart(v, h, t, r)
    OBVIOUS
  <2>1. \A e \in Entries(t) : Convs(new.agents) \cap ConvsOf[e] = {}
    BY <1>2 DEF ComingApart, Free
  <2>2. Convs(new.agents) \cap r = {}
    BY <1>2 DEF ComingApart, Free
  <2> QED BY <1>1, <2>1, <2>2 DEF ComingApart
<1> QED BY <1>3, <1>4, <1>5 DEF v

(* A new workspace, on conversations nobody has had.                        *)
LEMMA AppendedApart ==
    ASSUME NEW w \in Seq(WorkspaceType), NEW ws \in WorkspaceType, Single(ws.agents),
           NEW h, NEW t, NEW r, NEW n,
           Convs(ws.agents) \subseteq 0 .. n, Free(Convs(ws.agents), w, h, t, r)
    PROVE  LET v == Append(w, ws)
           IN  /\ OpenApart(w, n) => OpenApart(v, n)
               /\ HeldApart(w, h, n) => HeldApart(v, h, n)
               /\ ComingApart(w, h, t, r) => ComingApart(v, h, t, r)
<1> DEFINE v == Append(w, ws)
           z == Len(w) + 1
<1>1. /\ DOMAIN v = DOMAIN w \cup {z} /\ z \notin DOMAIN w
      /\ v[z] = ws /\ \A j \in DOMAIN w : v[j] = w[j]
  BY AppendProperties
<1> HIDE DEF v, z
<1>2. OpenApart(w, n) => OpenApart(v, n)
  <2> SUFFICES ASSUME OpenApart(w, n) PROVE OpenApart(v, n)
    OBVIOUS
  <2>1. \A j, l \in DOMAIN v : j # l => Convs(v[j].agents) \cap Convs(v[l].agents) = {}
    <3> SUFFICES ASSUME NEW j \in DOMAIN v, NEW l \in DOMAIN v, j # l
                 PROVE  Convs(v[j].agents) \cap Convs(v[l].agents) = {}
      OBVIOUS
    <3>1. CASE j = z
      BY <1>1, <3>1 DEF Free
    <3>2. CASE l = z
      BY <1>1, <3>2 DEF Free
    <3>3. CASE j # z /\ l # z
      BY <1>1, <3>3 DEF OpenApart
    <3> QED BY <3>1, <3>2, <3>3
  <2>2. \A j \in DOMAIN v : Single(v[j].agents) /\ Convs(v[j].agents) \subseteq 0 .. n
    BY <1>1 DEF OpenApart
  <2> QED BY <2>1, <2>2 DEF OpenApart
<1>3. HeldApart(w, h, n) => HeldApart(v, h, n)
  BY <1>1 DEF HeldApart, Free
<1>4. ComingApart(w, h, t, r) => ComingApart(v, h, t, r)
  BY <1>1 DEF ComingApart, Free
<1> QED BY <1>2, <1>3, <1>4 DEF v

(* The file written from apart workspaces and apart entries is apart.       *)
LEMMA PersistedApart ==
    ASSUME NEW w \in Seq(WorkspaceType), NEW h \in SUBSET EntryType, NEW n,
           OpenApart(w, n), HeldApart(w, h, n)
    PROVE  FileApart(Persisted(w, h), n)
<1>1. \A k \in DOMAIN w : /\ ConvsOf[Entry(w[k])] = Convs(w[k].agents)
                          /\ Single(w[k].agents) => Single(Entry(w[k]).agents)
  BY EntryTells
<1>2. Scattered(Persisted(w, h), ConvsOf)
  <2>1. \A k, l \in DOMAIN w : k # l => ConvsOf[Entry(w[k])] \cap ConvsOf[Entry(w[l])] = {}
    BY <1>1 DEF OpenApart
  <2>2. \A k \in DOMAIN w, e \in h : ConvsOf[Entry(w[k])] \cap ConvsOf[e] = {}
    BY <1>1 DEF HeldApart
  <2>3. \A d, e \in h : d # e => ConvsOf[d] \cap ConvsOf[e] = {}
    BY DEF HeldApart
  <2> QED BY <2>1, <2>2, <2>3, PersistedScattered
<1>3. \A e \in Entries(Persisted(w, h)) : Single(e.agents) /\ ConvsOf[e] \subseteq 0 .. n
  <2> SUFFICES ASSUME NEW e \in Entries(Persisted(w, h))
               PROVE  Single(e.agents) /\ ConvsOf[e] \subseteq 0 .. n
    OBVIOUS
  <2>1. (\E k \in DOMAIN w : e = Entry(w[k])) \/ e \in h
    BY PersistedEntries
  <2> QED BY <1>1, <2>1 DEF OpenApart, HeldApart
<1> QED BY <1>2, <1>3 DEF FileApart

(* A conversation whose id has just been drawn is nobody's.                 *)
LEMMA FreshFree ==
    ASSUME NEW n \in Nat, NEW X, X \cap (0 .. n) = {},
           NEW w, NEW h, NEW t, NEW r,
           OpenApart(w, n), HeldApart(w, h, n), FileApart(t, n), r \subseteq 0 .. n
    PROVE  Free(X, w, h, t, r)
BY DEF Free, OpenApart, HeldApart, FileApart

LEMMA RestGone == cur = <<>> => Rest = {}
BY DEF Rest

LEMMA RestKept == UNCHANGED <<cur, at>> => UNCHANGED Rest
BY DEF Rest

(* The daemon's file is left alone, written from what is open and put       *)
(* aside, or emptied.                                                       *)
Stored == store' \in {store, Persisted(wss', held'), EmptyStore}

LEMMA FileKept ==
    ASSUME TypeOK, TypeOK', minted <= minted', FileApart(store, minted),
           OpenApart(wss, minted)', HeldApart(wss, held, minted)', Stored
    PROVE  FileApart(store, minted)'
<1>0. minted \in Nat /\ minted' \in Nat /\ wss' \in Seq(WorkspaceType)
      /\ held' \in SUBSET EntryType
  BY DEF TypeOK
<1>1. CASE store' = store
  <2>1. FileApart(store, minted')
    BY <1>0, ApartGrows
  <2> QED BY <1>1, <2>1
<1>2. CASE store' = Persisted(wss', held')
  <2>1. FileApart(Persisted(wss', held'), minted')
    BY <1>0, PersistedApart
  <2> QED BY <1>2, <2>1
<1>3. CASE store' = EmptyStore
  BY <1>3, EmptyScattered DEF FileApart
<1> QED BY <1>1, <1>2, <1>3 DEF Stored

LEMMA SaveStores ==
    ASSUME NEW w, NEW h, Save(w, h), w = wss', h = held'
    PROVE  Stored
BY DEF Save, Stored

(* The workspace a directory opens with when nothing of it was kept.        *)
LEMMA FreshStands ==
    ASSUME NEW d \in Dirs, NEW n \in Nat, NEW up \in Launches(d)
    PROVE  LET ws == FreshWorkspace(d, n, up)
           IN  /\ ws \in WorkspaceType /\ ws.dir = d
               /\ OnStage(ws) /\ OwnPanes(ws) /\ Single(ws.agents)
               /\ Convs(ws.agents) \subseteq n + 1 .. n + FreshCount(d)
<1> DEFINE ws == FreshWorkspace(d, n, up)
<1>0. /\ up.procs \in Nat /\ up.agents \in Nat
      /\ FileProcs[d] \in Nat /\ Autostart[d] \in Nat
      /\ up.procs <= FileProcs[d] /\ up.agents <= Autostart[d]
  BY LaunchesFit
<1>1. ws \in WorkspaceType /\ ws.dir = d
  BY FreshWorkspaceType
<1>2. /\ DOMAIN ws.agents = 1 .. up.agents
      /\ \A i \in DOMAIN ws.agents : /\ ws.agents[i].conv = n + 1 + up.procs + i
                                     /\ ws.agents[i].screen = 0
      /\ DOMAIN ws.procs = 1 .. 1 + up.procs
      /\ \A i \in DOMAIN ws.procs : ws.procs[i].work = n + i /\ ws.procs[i].screen = 0
      /\ ws.stage = n + 1
  BY DEF FreshWorkspace, FreshAgent, FreshProc, Pane
<1> HIDE DEF ws
<1>3. OnStage(ws)
  <2>1. 1 \in 1 .. 1 + up.procs
    BY <1>0
  <2>2. 1 \in DOMAIN ws.procs /\ ws.procs[1].work = n + 1
    BY <1>2, <2>1
  <2> QED BY <1>2, <2>2 DEF OnStage, Works
<1>4. OwnPanes(ws)
  BY <1>2 DEF OwnPanes, OwnRail
<1>5. Single(ws.agents)
  BY <1>0, <1>2 DEF Single
<1>6. Convs(ws.agents) \subseteq n + 1 .. n + FreshCount(d)
  <2>1. \A i \in DOMAIN ws.agents :
            n + 1 + up.procs + i \in n + 1 .. n + (1 + FileProcs[d] + Autostart[d])
    BY <1>0, <1>2
  <2> QED BY <1>2, <2>1 DEF Convs, FreshCount
<1> QED BY <1>1, <1>3, <1>4, <1>5, <1>6 DEF ws

(* A fresh workspace joins the open ones.                                   *)
LEMMA FreshJoins ==
    ASSUME TypeOK, NEW d \in Dirs, NEW up \in Launches(d), NEW g \in SUBSET held, NEW t, NEW r,
           FileApart(t, minted), r \subseteq 0 .. minted,
           OpenApart(wss, minted), HeldApart(wss, g, minted), ComingApart(wss, g, t, r),
           wss' = Append(wss, FreshWorkspace(d, minted, up)),
           minted' = minted + FreshCount(d)
    PROVE  /\ minted' \in Nat /\ minted <= minted'
           /\ OpenApart(wss', minted')
           /\ HeldApart(wss', g, minted')
           /\ ComingApart(wss', g, t, r)
<1> DEFINE ws == FreshWorkspace(d, minted, up)
           X == Convs(ws.agents)
<1>0. minted \in Nat /\ wss \in Seq(WorkspaceType) /\ FreshCount(d) \in Nat
  BY FreshWorkspaceType DEF TypeOK
<1>1. ws \in WorkspaceType /\ Single(ws.agents)
      /\ X \subseteq minted + 1 .. minted + FreshCount(d)
  BY <1>0, FreshStands
<1> HIDE DEF ws
<1>2. minted' \in Nat /\ minted <= minted'
  BY <1>0
<1>3. X \cap (0 .. minted) = {} /\ X \subseteq 0 .. minted'
  <2>1. \A x \in minted + 1 .. minted + FreshCount(d) : x \notin 0 .. minted /\ x \in 0 .. minted'
    BY <1>0
  <2> QED BY <1>1, <2>1
<1> HIDE DEF X
<1>4. Free(X, wss, g, t, r)
  BY <1>0, <1>3, FreshFree
<1>5. OpenApart(wss, minted') /\ HeldApart(wss, g, minted')
  BY <1>0, <1>2, ApartGrows
<1>6. LET v == Append(wss, ws)
      IN  OpenApart(v, minted') /\ HeldApart(v, g, minted') /\ ComingApart(v, g, t, r)
  BY <1>0, <1>1, <1>3, <1>4, <1>5, AppendedApart DEF X
<1> QED BY <1>2, <1>6 DEF ws

-----------------------------------------------------------------------------
(* Between the life of two daemons nothing is open, and only a start has    *)
(* entries to visit.                                                        *)
Idle ==
    /\ phase = "down" => wss = <<>> /\ held = {}
    /\ phase # "restoring" => todo = EmptyStore /\ cur = <<>>

LEMMA IdleNext ==
    ASSUME IInv, Idle, [Next]_vars PROVE Idle'
<1>0. cur # <<>> => phase = "restoring"
  BY DEF IInv, Gated
<1>1. CASE Start
  BY <1>1 DEF Start, Idle
<1>2. CASE Restore /\ ~ RestoreDone
  BY <1>2, RestoreKeeps DEF Restored, Idle
<1>3. CASE RestoreDone
  BY <1>3 DEF RestoreDone, Idle, restoreVars
<1>4. CASE Serve
  <2>1. phase = "up" /\ phase' = "up" /\ UNCHANGED cur
    BY <1>4, ServeWrites DEF Written
  <2>2. UNCHANGED todo
    <3>1. \E w : Serving(w)
      BY <1>4, ServeShape DEF IInv, Handled, Reworked, Rework, OpenWorkspace, KillWorkspace
    <3> QED BY <3>1 DEF Serving, restoreVars
  <2> QED BY <2>1, <2>2 DEF Idle
<1>5. CASE Stop
  <2>1. CASE Stopped \/ ExitWhenEmpty \/ Crash
    BY <2>1 DEF Stopped, ExitWhenEmpty, Crash, Halt, Idle
  <2>2. CASE Tick \/ KillServer \/ CapturePanes \/ KillServerClear \/ TearDown
    BY <2>2 DEF Tick, KillServer, CapturePanes, KillServerClear, TearDown, Idle, restoreVars
  <2> QED BY <1>5, <2>1, <2>2 DEF Stop
<1>6. CASE UNCHANGED vars
  BY <1>6 DEF vars, Idle
<1> QED BY <1>1, <1>2, <1>3, <1>4, <1>5, <1>6 DEF Next

-----------------------------------------------------------------------------
(* Nobody's conversation is taken: one lemma per part of Next.              *)

LEMMA HoldersServe ==
    ASSUME IInv, IInv', Idle, Idle', Holders, Serve PROVE Holders'
<1>0. /\ TypeOK /\ TypeOK' /\ minted \in Nat /\ wss \in Seq(WorkspaceType)
      /\ held \in SUBSET EntryType
  BY DEF IInv, TypeOK
<1>1. phase = "up" /\ phase' = "up"
  BY ServeWrites DEF Written
<1>2. /\ todo' = EmptyStore /\ Rest' = {} /\ todo = EmptyStore /\ Rest = {} /\ cur' = <<>>
  BY <1>1, RestGone DEF Idle, Rest
<1>3. /\ OpenApart(wss, minted) /\ HeldApart(wss, held, minted) /\ FileApart(store, minted)
      /\ FileApart(EmptyStore, minted) /\ ComingApart(wss, held, EmptyStore, {})
  BY <1>2 DEF Holders
<1>4. SUFFICES /\ minted' \in Nat /\ minted <= minted' /\ Stored
               /\ OpenApart(wss', minted') /\ HeldApart(wss', held', minted')
  <2>1. FileApart(store', minted')
    BY <1>0, <1>3, <1>4, FileKept
  <2>2. FileApart(EmptyStore, minted') /\ ComingApart(wss', held', EmptyStore, {})
    BY EmptyScattered DEF FileApart, ComingApart
  <2> QED BY <1>2, <1>4, <2>1, <2>2 DEF Holders
<1>5. ASSUME NEW d \in Dirs, NEW up \in Launches(d), OpenWorkspace(d, up)
      PROVE  /\ minted' \in Nat /\ minted <= minted' /\ Stored
             /\ OpenApart(wss', minted') /\ HeldApart(wss', held', minted')
  <2>1. /\ wss' = Append(wss, FreshWorkspace(d, minted, up))
        /\ held' \in SUBSET held
        /\ minted' = minted + FreshCount(d)
        /\ Save(wss', held')
    BY <1>5 DEF OpenWorkspace, Serving
  <2>2. Thinned(wss, wss)
    BY <1>0, ThinnedWays
  <2>3. HeldApart(wss, held', minted) /\ ComingApart(wss, held', EmptyStore, {})
    BY <1>3, <2>1, <2>2, ThinnedApart
  <2> QED BY <1>0, <1>3, <2>1, <2>3, FreshJoins, SaveStores
<1>6. ASSUME NEW k \in DOMAIN wss, KillWorkspace(k)
      PROVE  /\ minted' \in Nat /\ minted <= minted' /\ Stored
             /\ OpenApart(wss', minted') /\ HeldApart(wss', held', minted')
  <2>1. /\ wss' = RemoveAt(wss, k) /\ held' = held /\ minted' = minted
        /\ Save(wss', held)
    BY <1>6 DEF KillWorkspace, Serving
  <2>2. Thinned(wss, wss')
    BY <1>0, <2>1, ThinnedWays
  <2>3. OpenApart(wss', minted) /\ HeldApart(wss', held, minted)
    BY <1>3, <2>2, ThinnedApart
  <2> QED BY <1>0, <2>1, <2>3, SaveStores
<1>7. ASSUME NEW k \in DOMAIN wss, NEW new \in WorkspaceType, Reworked(k, new)
      PROVE  /\ minted' \in Nat /\ minted <= minted' /\ Stored
             /\ OpenApart(wss', minted') /\ HeldApart(wss', held', minted')
  <2>1. /\ wss' = [wss EXCEPT ![k] = new] /\ held' = held
        /\ minted' \in {minted, minted + 1}
        /\ Save(wss', held) \/ UNCHANGED store
        /\ Follows(wss[k], new, minted, minted')
    BY <1>7 DEF Reworked, Rework, Serving
  <2>2. minted' \in Nat /\ minted <= minted'
    BY <1>0, <2>1
  <2>3. Stored
    <3>1. CASE UNCHANGED store
      BY <3>1 DEF Stored
    <3> QED BY <2>1, <3>1, SaveStores
  <2> DEFINE X == minted + 1 .. minted'
  <2>4. X \cap (0 .. minted) = {} /\ X \subseteq 0 .. minted'
    BY <1>0, <2>2
  <2>5. Single(new.agents) /\ Convs(new.agents) \subseteq Convs(wss[k].agents) \cup X
    BY <1>3, <2>1 DEF Follows, OpenApart
  <2> HIDE DEF X
  <2>6. Free(X, wss, held, EmptyStore, {})
    BY <1>0, <1>3, <2>4, FreshFree
  <2>7. OpenApart(wss, minted') /\ HeldApart(wss, held, minted')
    BY <1>0, <1>3, <2>2, ApartGrows
  <2>8. LET v == [wss EXCEPT ![k] = new]
        IN  OpenApart(v, minted') /\ HeldApart(v, held, minted')
    BY <2>4, <2>5, <2>6, <2>7, ReworkedApart
  <2> QED BY <2>1, <2>2, <2>3, <2>8
<1> QED BY <1>0, <1>5, <1>6, <1>7, ServeShape DEF Handled

(* Steps that close workspaces and draw no id.                              *)
LEMMA HoldersThin ==
    ASSUME IInv, IInv', Idle', Holders, Thinned(wss, wss'), held' \subseteq held,
           minted' = minted, phase' # "restoring", Stored
    PROVE  Holders'
<1>0. TypeOK /\ TypeOK' /\ minted \in Nat
  BY DEF IInv, TypeOK
<1>1. OpenApart(wss', minted) /\ HeldApart(wss', held', minted)
  BY ThinnedApart DEF Holders
<1>2. cur' = <<>> /\ todo' = EmptyStore /\ Rest' = {}
  BY DEF Idle, Rest
<1>3. FileApart(store', minted')
  BY <1>0, <1>1, FileKept DEF Holders
<1>4. FileApart(EmptyStore, minted) /\ ComingApart(wss', held', EmptyStore, {})
  BY EmptyScattered DEF FileApart, ComingApart
<1> QED BY <1>1, <1>2, <1>3, <1>4 DEF Holders

LEMMA HoldersStop ==
    ASSUME IInv, IInv', Idle, Idle', Holders, Stop PROVE Holders'
<1>0. wss \in Seq(WorkspaceType)
  BY DEF IInv, TypeOK
<1>1. CASE Tick \/ KillServer
  <2>1. /\ phase' # "restoring" /\ UNCHANGED <<wss, held, minted>> /\ Save(wss, held)
    BY <1>1 DEF Tick, KillServer
  <2>2. Thinned(wss, wss')
    BY <1>0, <2>1, ThinnedWays
  <2> QED BY <2>1, <2>2, SaveStores, HoldersThin
<1>2. CASE CapturePanes
  <2>1. /\ phase' # "restoring" /\ UNCHANGED <<wss, held, minted, store>>
    BY <1>2 DEF CapturePanes
  <2>2. Thinned(wss, wss')
    BY <1>0, <2>1, ThinnedWays
  <2> QED BY <2>1, <2>2, HoldersThin DEF Stored
<1>3. CASE KillServerClear
  <2>1. /\ phase' # "restoring" /\ UNCHANGED <<wss, minted>> /\ store' = EmptyStore
        /\ held' = {}
    BY <1>3 DEF KillServerClear
  <2>2. Thinned(wss, wss')
    BY <1>0, <2>1, ThinnedWays
  <2> QED BY <2>1, <2>2, HoldersThin DEF Stored
<1>4. CASE TearDown
  <2>1. /\ phase' # "restoring" /\ UNCHANGED <<held, minted>> /\ Save(wss', held)
        /\ wss # <<>> /\ wss' = Tail(wss)
    BY <1>4 DEF TearDown
  <2>2. Thinned(wss, wss')
    BY <1>0, <2>1, ThinnedWays
  <2> QED BY <2>1, <2>2, SaveStores, HoldersThin
<1>5. CASE Stopped \/ ExitWhenEmpty \/ Crash
  <2>1. /\ phase' # "restoring" /\ UNCHANGED <<minted, store>>
        /\ held' = {} /\ wss' = <<>>
    BY <1>5 DEF Stopped, ExitWhenEmpty, Crash, Halt
  <2>2. Thinned(wss, wss')
    BY <1>0, <2>1, ThinnedWays
  <2> QED BY <2>1, <2>2, HoldersThin DEF Stored
<1> QED BY <1>1, <1>2, <1>3, <1>4, <1>5 DEF Stop

LEMMA HoldersStart ==
    ASSUME IInv, Idle, Holders, Start PROVE Holders'
<1>1. /\ phase = "down" /\ todo' = store
      /\ UNCHANGED <<wss, held, cur, at, store, minted>>
  BY DEF Start
<1>2. wss' = <<>> /\ held' = {} /\ cur' = <<>> /\ Rest' = {}
  BY <1>1 DEF Idle, Rest
<1>3. ComingApart(wss', held', todo', Rest')
  BY <1>2 DEF ComingApart
<1> QED BY <1>1, <1>2, <1>3 DEF Holders

LEMMA HoldersDone ==
    ASSUME IInv, IInv', Idle', Holders, RestoreDone PROVE Holders'
<1>1. /\ phase' # "restoring" /\ UNCHANGED <<wss, held, minted>>
      /\ store' = Persisted(wss', held')
  BY DEF RestoreDone
<1>2. Thinned(wss, wss')
  BY <1>1, ThinnedWays DEF IInv, TypeOK
<1> QED BY <1>1, <1>2, HoldersThin DEF Stored

(* Visiting an entry: it leaves the list, apart from everything else.       *)
LEMMA VisitApart ==
    ASSUME IInv, Idle, Holders,
           NEW e \in {todo.live[i] : i \in DOMAIN todo.live} \cup todo.held, Visit(e)
    PROVE  /\ phase = "restoring" /\ Rest = {} /\ cur = <<>>
           /\ e \in EntryType /\ e \in Entries(todo)
           /\ Single(e.agents) /\ ConvsOf[e] \subseteq 0 .. minted
           /\ Entries(todo') \subseteq Entries(todo)
           /\ FileApart(todo', minted)
           /\ \A x \in Entries(todo') : ConvsOf[x] \cap ConvsOf[e] = {}
           /\ \A k \in DOMAIN wss : Convs(wss[k].agents) \cap ConvsOf[e] = {}
           /\ \A d \in held : ConvsOf[d] \cap ConvsOf[e] = {}
           /\ \A g \in SUBSET held : /\ HeldApart(wss, g, minted)
                                     /\ ComingApart(wss, g, todo', {})
<1>1. phase = "restoring" /\ cur = <<>> /\ Rest = {}
  BY RestGone DEF Visit
<1>2. e \in EntryType
  BY VisitType DEF IInv
<1>3. /\ e \in Entries(todo) /\ Entries(todo') \subseteq Entries(todo)
      /\ Scattered(todo', ConvsOf)
      /\ \A x \in Entries(todo') : ConvsOf[x] \cap ConvsOf[e] = {}
  BY VisitScattered DEF IInv, Holders, FileApart
<1>4. FileApart(todo', minted)
  BY <1>3 DEF Holders, FileApart
<1>5. Single(e.agents) /\ ConvsOf[e] \subseteq 0 .. minted
  BY <1>3 DEF Holders, FileApart
<1>6. /\ \A k \in DOMAIN wss : Convs(wss[k].agents) \cap ConvsOf[e] = {}
      /\ \A d \in held : ConvsOf[d] \cap ConvsOf[e] = {}
  BY <1>3 DEF Holders, ComingApart
<1>7. ASSUME NEW g \in SUBSET held
      PROVE  HeldApart(wss, g, minted) /\ ComingApart(wss, g, todo', {})
  <2>1. Thinned(wss, wss)
    BY ThinnedWays DEF IInv, TypeOK
  <2>2. {} \in SUBSET Rest
    OBVIOUS
  <2> QED BY <1>3, <2>1, <2>2, ThinnedApart DEF Holders
<1> QED BY <1>1, <1>2, <1>3, <1>4, <1>5, <1>6, <1>7

LEMMA HoldersVisit ==
    ASSUME IInv, IInv', Idle, Idle', Holders,
           DeferEntry \/ SkipEntry \/ ReopenFresh \/ BeginRebuild
    PROVE  Holders'
<1>0. /\ TypeOK /\ TypeOK' /\ minted \in Nat /\ wss \in Seq(WorkspaceType)
      /\ held \in SUBSET EntryType /\ OpenApart(wss, minted) /\ FileApart(store, minted)
  BY DEF IInv, TypeOK, Holders
<1>n. \A n \in Nat : minted <= n =>
          (FileApart(todo', minted) => FileApart(todo', n))
  BY <1>0, ApartGrows
<1>1. CASE DeferEntry
  <2>1. PICK e \in {todo.live[i] : i \in DOMAIN todo.live} \cup todo.held :
            /\ Visit(e) /\ held' = held \cup {e}
            /\ UNCHANGED <<wss, cur, at, store, minted>>
    BY <1>1 DEF DeferEntry, diskVars
  <2>2. /\ Rest = {} /\ cur = <<>> /\ e \in EntryType /\ FileApart(todo', minted)
        /\ Single(e.agents) /\ ConvsOf[e] \subseteq 0 .. minted
        /\ \A x \in Entries(todo') : ConvsOf[x] \cap ConvsOf[e] = {}
        /\ \A k \in DOMAIN wss : Convs(wss[k].agents) \cap ConvsOf[e] = {}
        /\ \A d \in held : ConvsOf[d] \cap ConvsOf[e] = {}
        /\ HeldApart(wss, held, minted) /\ ComingApart(wss, held, todo', {})
    BY <2>1, VisitApart
  <2>3. HeldApart(wss, held', minted)
    BY <2>1, <2>2 DEF HeldApart
  <2>4. ComingApart(wss, held', todo', {})
    BY <2>1, <2>2 DEF ComingApart
  <2>5. Rest' = {} /\ cur' = <<>>
    BY <2>1, <2>2, RestKept
  <2> QED BY <1>0, <2>1, <2>2, <2>3, <2>4, <2>5 DEF Holders
<1>2. CASE SkipEntry
  <2>1. PICK e \in {todo.live[i] : i \in DOMAIN todo.live} \cup todo.held :
            /\ Visit(e)
            /\ UNCHANGED <<wss, held, cur, at, store, minted>>
    BY <1>2 DEF SkipEntry, diskVars
  <2>2. /\ Rest = {} /\ cur = <<>> /\ FileApart(todo', minted)
        /\ HeldApart(wss, held, minted) /\ ComingApart(wss, held, todo', {})
    BY <2>1, VisitApart
  <2>5. Rest' = {} /\ cur' = <<>>
    BY <2>1, <2>2, RestKept
  <2> QED BY <1>0, <2>1, <2>2, <2>5 DEF Holders
<1>3. CASE ReopenFresh
  <2>e. PICK e \in {todo.live[i] : i \in DOMAIN todo.live} \cup todo.held :
            \E up \in Launches(e.dir) :
                /\ Visit(e)
                /\ wss' = Append(wss, FreshWorkspace(e.dir, minted, up))
                /\ held' = {h \in held : h.dir # e.dir}
                /\ minted' = minted + FreshCount(e.dir)
                /\ Save(wss', held')
                /\ UNCHANGED <<cur, at>>
    BY <1>3 DEF ReopenFresh
  <2>1. PICK up \in Launches(e.dir) :
            /\ Visit(e)
            /\ wss' = Append(wss, FreshWorkspace(e.dir, minted, up))
            /\ held' = {h \in held : h.dir # e.dir}
            /\ minted' = minted + FreshCount(e.dir)
            /\ Save(wss', held')
            /\ UNCHANGED <<cur, at>>
    BY <2>e
  <2>2. /\ Rest = {} /\ cur = <<>> /\ e \in EntryType /\ FileApart(todo', minted)
        /\ HeldApart(wss, held', minted) /\ ComingApart(wss, held', todo', {})
    BY <2>1, VisitApart
  <2>3. e.dir \in Dirs /\ held' \in SUBSET held
    BY <2>1, <2>2 DEF EntryType
  <2>4. /\ minted' \in Nat /\ minted <= minted'
        /\ OpenApart(wss', minted') /\ HeldApart(wss', held', minted')
        /\ ComingApart(wss', held', todo', {})
    BY <1>0, <2>1, <2>2, <2>3, FreshJoins
  <2>5. Rest' = {} /\ cur' = <<>>
    BY <2>1, <2>2, RestKept
  <2>6. FileApart(store', minted')
    BY <1>0, <2>1, <2>4, SaveStores, FileKept
  <2>7. FileApart(todo', minted')
    BY <1>n, <2>2, <2>4
  <2> QED BY <2>4, <2>5, <2>6, <2>7 DEF Holders
<1>4. CASE BeginRebuild
  <2> DEFINE Empty(d) == [dir |-> d, procs |-> <<>>, agents |-> <<>>, stage |-> 0]
  <2>1. PICK e \in {todo.live[i] : i \in DOMAIN todo.live} \cup todo.held :
            /\ Visit(e)
            /\ wss' = Append(wss, Empty(e.dir))
            /\ held' = {h \in held : h.dir # e.dir}
            /\ cur' = <<e>> /\ at' = 0
            /\ UNCHANGED <<minted, store>>
    BY <1>4 DEF BeginRebuild, diskVars
  <2>2. /\ e \in EntryType /\ FileApart(todo', minted)
        /\ Single(e.agents) /\ ConvsOf[e] \subseteq 0 .. minted
        /\ \A x \in Entries(todo') : ConvsOf[x] \cap ConvsOf[e] = {}
        /\ \A k \in DOMAIN wss : Convs(wss[k].agents) \cap ConvsOf[e] = {}
        /\ \A d \in held : ConvsOf[d] \cap ConvsOf[e] = {}
        /\ \A g \in SUBSET held : HeldApart(wss, g, minted) /\ ComingApart(wss, g, todo', {})
    BY <2>1, VisitApart
  <2>3. Rest' \subseteq ConvsOf[e]
    <3>1. cur'[1] = e
      BY <2>1
    <3>2. Rest' \subseteq {e.agents[i].conv : i \in DOMAIN e.agents}
      BY <3>1 DEF Rest
    <3> QED BY <2>2, <3>2 DEF ConvsOf, Convs
  <2>4. held' \in SUBSET held
    BY <2>1
  <2>5. HeldApart(wss, held', minted) /\ ComingApart(wss, held', todo', {})
    BY <2>2, <2>4
  <2>6. ComingApart(wss, held', todo', Rest')
    BY <2>2, <2>3, <2>4, <2>5 DEF ComingApart
  <2>7. /\ Empty(e.dir) \in WorkspaceType /\ Convs(Empty(e.dir).agents) = {}
        /\ Single(Empty(e.dir).agents)
    BY <2>2 DEF EntryType, WorkspaceType, Convs, Single
  <2> HIDE DEF Empty
  <2>8. Free({}, wss, held', todo', Rest')
    BY DEF Free
  <2>9. LET v == Append(wss, Empty(e.dir))
        IN  OpenApart(v, minted) /\ HeldApart(v, held', minted)
            /\ ComingApart(v, held', todo', Rest')
    <3>1. {} \subseteq 0 .. minted
      OBVIOUS
    <3> QED BY <1>0, <2>5, <2>6, <2>7, <2>8, <3>1, AppendedApart
  <2>10. Single(cur'[1].agents) /\ Rest' \subseteq 0 .. minted
    BY <2>1, <2>2, <2>3
  <2> QED BY <1>0, <2>1, <2>2, <2>9, <2>10 DEF Holders
<1> QED BY <1>1, <1>2, <1>3, <1>4

(* A step of rebuild_workspace_panes on the workspace opened last.          *)
LEMMA HoldersRebuilt ==
    ASSUME IInv, IInv', Holders, phase = "restoring", UNCHANGED <<held, todo, store>>,
           minted' \in {minted, minted + 1},
           NEW X, X \subseteq 0 .. minted', Free(X, wss, held, todo, Rest'),
           Rest' \subseteq Rest, cur' \in {cur, <<>>},
           \/ UNCHANGED wss
           \/ \E new : /\ wss' = [wss EXCEPT ![Len(wss)] = new]
                       /\ Len(wss) \in DOMAIN wss =>
                              /\ Single(new.agents)
                              /\ Convs(new.agents) \subseteq Convs(wss[Len(wss)].agents) \cup X
    PROVE  Holders'
<1>0. /\ TypeOK /\ minted \in Nat /\ wss \in Seq(WorkspaceType)
      /\ minted' \in Nat /\ minted <= minted'
  BY DEF IInv, TypeOK
<1>1. /\ OpenApart(wss, minted') /\ HeldApart(wss, held, minted')
      /\ FileApart(store, minted') /\ FileApart(todo, minted')
  BY <1>0, ApartGrows DEF Holders
<1>2. ComingApart(wss, held, todo, Rest')
  BY DEF Holders, ComingApart
<1>3. /\ OpenApart(wss', minted') /\ HeldApart(wss', held, minted')
      /\ ComingApart(wss', held, todo, Rest')
  <2>1. CASE UNCHANGED wss
    BY <1>1, <1>2, <2>1
  <2>2. ASSUME NEW new, wss' = [wss EXCEPT ![Len(wss)] = new],
               Len(wss) \in DOMAIN wss =>
                   /\ Single(new.agents)
                   /\ Convs(new.agents) \subseteq Convs(wss[Len(wss)].agents) \cup X
        PROVE  /\ OpenApart(wss', minted') /\ HeldApart(wss', held, minted')
               /\ ComingApart(wss', held, todo, Rest')
    <3>1. CASE Len(wss) \in DOMAIN wss
      <4>1. LET v == [wss EXCEPT ![Len(wss)] = new]
            IN  /\ OpenApart(v, minted') /\ HeldApart(v, held, minted')
                /\ ComingApart(v, held, todo, Rest')
        BY <1>1, <1>2, <2>2, <3>1, ReworkedApart
      <4> QED BY <2>2, <4>1
    <3>2. CASE Len(wss) \notin DOMAIN wss
      <4>1. wss' = wss
        BY <1>0, <2>2, <3>2
      <4> QED BY <1>1, <1>2, <4>1
    <3> QED BY <3>1, <3>2
  <2> QED BY <2>1, <2>2
<1>4. Rest' \subseteq 0 .. minted'
  <2>1. 0 .. minted \subseteq 0 .. minted'
    BY <1>0
  <2> QED BY <2>1 DEF Holders
<1>5. cur' # <<>> => Single(cur'[1].agents)
  BY DEF Holders
<1> QED BY <1>1, <1>3, <1>4, <1>5 DEF Holders

(* The entry at hand while a workspace is rebuilt.                          *)
LEMMA AtHand ==
    ASSUME TypeOK, cur # <<>>
    PROVE  /\ cur[1] \in EntryType /\ cur[1].dir \in Dirs
           /\ cur[1].agents \in Seq(AgentEntryType) /\ cur[1].procs \in Seq(ProcEntryType)
           /\ Len(cur[1].agents) \in Nat /\ Len(cur[1].procs) \in Nat
           /\ DOMAIN cur[1].agents = 1 .. Len(cur[1].agents)
           /\ DOMAIN cur[1].procs = 1 .. Len(cur[1].procs)
           /\ \A i \in DOMAIN cur[1].agents : /\ cur[1].agents[i].conv \in Nat
                                              /\ cur[1].agents[i].work \in Nat
                                              /\ cur[1].agents[i].spoke \in BOOLEAN
           /\ at \in Nat
<1>1. cur[1] \in EntryType /\ at \in Nat
  BY DEF TypeOK
<1>2. cur[1].dir \in Dirs /\ cur[1].agents \in Seq(AgentEntryType)
      /\ cur[1].procs \in Seq(ProcEntryType)
  BY <1>1 DEF EntryType
<1>3. \A i \in DOMAIN cur[1].agents : cur[1].agents[i] \in AgentEntryType
  BY <1>2
<1> QED BY <1>1, <1>2, <1>3 DEF AgentEntryType

LEMMA RestShrinks ==
    ASSUME TypeOK, cur # <<>>, UNCHANGED cur, at' = at + 1
    PROVE  Rest' \subseteq Rest
<1>1. at \in Nat /\ Len(cur[1].procs) \in Nat /\ DOMAIN cur[1].agents \subseteq Nat
  BY AtHand
<1>2. \A i \in DOMAIN cur[1].agents : i + Len(cur[1].procs) > at + 1 => i + Len(cur[1].procs) > at
  BY <1>1
<1> QED BY <1>2 DEF Rest

LEMMA HoldersRebuild ==
    ASSUME IInv, IInv', Holders, RebuildProc \/ RebuildAgent \/ EndRebuild
    PROVE  Holders'
<1>0. /\ TypeOK /\ cur # <<>> /\ phase = "restoring" /\ minted \in Nat
      /\ wss \in Seq(WorkspaceType)
  BY DEF IInv, Gated, TypeOK, RebuildProc, RebuildAgent, EndRebuild
<1>s. \A w, h : Save(w, h) => UNCHANGED store
  BY <1>0 DEF Save, Frozen
<1> DEFINE z == Len(wss)
           ws == wss[z]
<1>w. z \in DOMAIN wss => ws \in WorkspaceType /\ Single(ws.agents)
                          /\ ws.agents \in Seq(PaneType)
  BY <1>0, PartsType DEF Holders, OpenApart
<1>1. CASE RebuildProc
  <2>1. /\ \/ \E p : wss' = [wss EXCEPT ![z] = [ws EXCEPT !.procs = Append(@, p)]]
           \/ UNCHANGED wss
        /\ at' = at + 1
        /\ UNCHANGED <<held, todo, store, cur, minted>>
    BY <1>1 DEF RebuildProc, RebuildLast, diskVars
  <2>2. ASSUME NEW p, z \in DOMAIN wss
        PROVE  [ws EXCEPT !.procs = Append(@, p)].agents = ws.agents
    BY <1>w, <2>2 DEF WorkspaceType
  <2>3. Free({}, wss, held, todo, Rest') /\ {} \subseteq 0 .. minted'
    BY DEF Free
  <2>4. \/ UNCHANGED wss
        \/ \E new : /\ wss' = [wss EXCEPT ![z] = new]
                    /\ z \in DOMAIN wss => /\ Single(new.agents)
                                           /\ Convs(new.agents) \subseteq Convs(ws.agents) \cup {}
    <3>1. ASSUME NEW p, wss' = [wss EXCEPT ![z] = [ws EXCEPT !.procs = Append(@, p)]]
          PROVE  \E new : /\ wss' = [wss EXCEPT ![z] = new]
                          /\ z \in DOMAIN wss => /\ Single(new.agents)
                                                 /\ Convs(new.agents) \subseteq Convs(ws.agents) \cup {}
      <4> DEFINE new == [ws EXCEPT !.procs = Append(@, p)]
      <4>1. z \in DOMAIN wss => new.agents = ws.agents
        BY <2>2
      <4>2. wss' = [wss EXCEPT ![z] = new]
        BY <3>1
      <4> HIDE DEF new, ws, z
      <4> QED BY <1>w, <4>1, <4>2
    <3> QED BY <2>1, <3>1
  <2>5. Rest' \subseteq Rest
    BY <1>0, <2>1, RestShrinks
  <2> HIDE DEF ws
  <2> QED BY <1>0, <2>1, <2>3, <2>4, <2>5, HoldersRebuilt DEF ws
<1>2. CASE RebuildAgent
  <2> DEFINE i == at + 1 - Len(cur[1].procs)
             a == cur[1].agents[i]
             c == IF a.spoke THEN a.conv ELSE minted + 1
             pane == Pane("agent", a.work, c, a.spoke, DumpAt(dumps[cur[1].dir].agents, i))
             new == [ws EXCEPT !.agents = Append(@, pane), !.stage = a.work]
  <2>1. /\ \/ /\ wss' = [wss EXCEPT ![z] = new]
              /\ minted' = IF a.spoke THEN minted ELSE minted + 1
           \/ UNCHANGED <<wss, minted>>
        /\ at' = at + 1
        /\ at >= Len(cur[1].procs) /\ at < Len(cur[1].procs) + Len(cur[1].agents)
        /\ UNCHANGED <<held, todo, store, cur>>
    BY <1>2, <1>s DEF RebuildAgent, RebuildLast
  <2>2. i \in DOMAIN cur[1].agents /\ i + Len(cur[1].procs) = at + 1 /\ at \in Nat
    <3>1. /\ at \in Nat /\ Len(cur[1].agents) \in Nat /\ Len(cur[1].procs) \in Nat
          /\ DOMAIN cur[1].agents = 1 .. Len(cur[1].agents)
      BY <1>0, AtHand
    <3>2. \A x, p, l \in Nat : x >= p /\ x < p + l => x + 1 - p \in 1 .. l /\ x + 1 - p + p = x + 1
      OBVIOUS
    <3>3. i \in 1 .. Len(cur[1].agents) /\ i + Len(cur[1].procs) = at + 1
      BY <2>1, <3>1, <3>2
    <3> QED BY <3>1, <3>3
  <2>3. a.conv \in Nat /\ a.work \in Nat /\ a.spoke \in BOOLEAN
    BY <1>0, <2>2, AtHand
  <2>4. Rest' \subseteq Rest
    BY <1>0, <2>1, RestShrinks
  <2>5. a.conv \in Rest /\ a.conv \notin Rest'
    <3>1. a.conv \in Rest
      <4>1. i + Len(cur[1].procs) > at
        BY <2>2
      <4> QED BY <1>0, <2>2, <2>3, <4>1 DEF Rest
    <3>2. ASSUME a.conv \in Rest' PROVE FALSE
      <4>1. PICK j \in DOMAIN cur[1].agents :
                j + Len(cur[1].procs) > at + 1 /\ a.conv = cur[1].agents[j].conv
        BY <2>1, <3>2 DEF Rest
      <4>2. j = i
        BY <1>0, <2>2, <4>1 DEF Holders, Single
      <4> QED BY <2>2, <4>1, <4>2
    <3> QED BY <3>1, <3>2
  <2>6. CASE UNCHANGED <<wss, minted>>
    <3>1. Free({}, wss, held, todo, Rest') /\ {} \subseteq 0 .. minted'
      BY DEF Free
    <3> QED BY <1>0, <2>1, <2>4, <2>6, <3>1, HoldersRebuilt
  <2>7. CASE /\ wss' = [wss EXCEPT ![z] = new]
             /\ minted' = IF a.spoke THEN minted ELSE minted + 1
    <3>1. Free({c}, wss, held, todo, Rest') /\ {c} \subseteq 0 .. minted'
      <4>1. CASE a.spoke
        <5>1. c = a.conv /\ minted' = minted
          BY <2>7, <4>1
        <5>2. a.conv \in 0 .. minted
          BY <2>5 DEF Holders
        <5> QED BY <2>5, <5>1, <5>2 DEF Holders, ComingApart, Free
      <4>2. CASE ~ a.spoke
        <5>1. c = minted + 1 /\ minted' = minted + 1
          BY <2>7, <4>2
        <5>2. {c} \cap (0 .. minted) = {} /\ {c} \subseteq 0 .. minted'
          BY <1>0, <5>1
        <5>3. Rest' \subseteq 0 .. minted
          BY <2>4 DEF Holders
        <5> HIDE DEF c
        <5> QED BY <1>0, <5>2, <5>3, FreshFree DEF Holders
      <4> QED BY <4>1, <4>2
    <3>2. pane \in PaneType /\ pane.conv = c
      <4>1. DumpAt(dumps[cur[1].dir].agents, i) \in Nat
        <5>1. dumps[cur[1].dir] \in DumpType
          BY <1>0, AtHand DEF TypeOK
        <5>2. dumps[cur[1].dir].agents \in Seq(Nat)
          BY <5>1 DEF DumpType
        <5> HIDE DEF i
        <5> QED BY <5>2 DEF DumpAt
      <4>2. c \in Nat
        BY <1>0, <2>3
      <4> HIDE DEF c, a, i
      <4>3. pane \in PaneType
        BY <2>3, <4>1, <4>2, PaneHasType
      <4> QED BY <4>3 DEF Pane
    <3> HIDE DEF pane, c, a
    <3>3. z \in DOMAIN wss => /\ Single(new.agents)
                              /\ Convs(new.agents) \subseteq Convs(ws.agents) \cup {c}
      <4> SUFFICES ASSUME z \in DOMAIN wss
                   PROVE  /\ Single(new.agents)
                          /\ Convs(new.agents) \subseteq Convs(ws.agents) \cup {c}
        OBVIOUS
      <4>1. new.agents = Append(ws.agents, pane)
        BY <1>w DEF WorkspaceType
      <4>2. c \notin Convs(ws.agents)
        BY <3>1 DEF Free
      <4> QED BY <1>w, <3>2, <4>1, <4>2, RailAppended
    <3>4. minted' \in {minted, minted + 1}
      BY <2>7
    <3> HIDE DEF new, ws
    <3> QED BY <1>0, <2>1, <2>4, <2>7, <3>1, <3>3, <3>4, HoldersRebuilt DEF ws
  <2> QED BY <2>1, <2>6, <2>7
<1>3. CASE EndRebuild
  <2> DEFINE new == [ws EXCEPT !.stage = StagedWork(ws, cur[1])]
  <2>1. /\ wss' = [wss EXCEPT ![z] = new]
        /\ cur' = <<>>
        /\ UNCHANGED <<held, todo, store, minted>>
    BY <1>3, <1>s DEF EndRebuild, RebuildLast
  <2>2. z \in DOMAIN wss => new.agents = ws.agents
    BY <1>w DEF WorkspaceType
  <2>3. Rest' = {}
    BY <2>1 DEF Rest
  <2>4. Free({}, wss, held, todo, Rest') /\ {} \subseteq 0 .. minted'
    BY DEF Free
  <2> HIDE DEF new, ws
  <2>5. z \in DOMAIN wss => /\ Single(new.agents)
                            /\ Convs(new.agents) \subseteq Convs(ws.agents) \cup {}
    BY <1>w, <2>2
  <2>6. \/ UNCHANGED wss
        \/ \E v : /\ wss' = [wss EXCEPT ![z] = v]
                  /\ z \in DOMAIN wss => /\ Single(v.agents)
                                         /\ Convs(v.agents) \subseteq Convs(ws.agents) \cup {}
    BY <2>1, <2>5
  <2>7. Rest' \subseteq Rest /\ cur' \in {cur, <<>>} /\ minted' \in {minted, minted + 1}
    BY <2>1, <2>3
  <2>8. UNCHANGED <<held, todo, store>>
    BY <2>1
  <2> QED BY <1>0, <2>4, <2>6, <2>7, <2>8, HoldersRebuilt DEF ws
<1> QED BY <1>1, <1>2, <1>3

LEMMA HoldersInit == Init => Holders
BY EmptyScattered DEF Init, Holders, OpenApart, HeldApart, FileApart, ComingApart, Rest

LEMMA HoldersNext ==
    ASSUME IInv, Idle, Holders, [Next]_vars PROVE Holders'
<1>0. IInv' /\ Idle'
  BY IInvNext, IdleNext
<1>1. CASE UNCHANGED vars
  <2>1. UNCHANGED <<wss, held, todo, cur, at, store, minted>>
    BY <1>1 DEF vars
  <2>2. UNCHANGED Rest
    BY <2>1, RestKept
  <2> QED BY <2>1, <2>2 DEF Holders
<1>2. CASE Start
  BY <1>2, HoldersStart
<1>3. CASE Restore
  BY <1>0, <1>3, HoldersVisit, HoldersRebuild, HoldersDone DEF Restore
<1>4. CASE Serve
  BY <1>0, <1>4, HoldersServe
<1>5. CASE Stop
  BY <1>0, <1>5, HoldersStop
<1> QED BY <1>1, <1>2, <1>3, <1>4, <1>5 DEF Next

-----------------------------------------------------------------------------
(* What the changes of the list of tabs keep, and what they add.            *)

StandingIn(w) == \A k \in DOMAIN w : OnStage(w[k])
OwnAll(w) == \A k \in DOMAIN w : OwnPanes(w[k])
DirsApart(w) == \A k, l \in DOMAIN w : w[k].dir = w[l].dir => k = l
PaintedAll(D, w) == \A k \in DOMAIN w : PaintedBy(D[w[k].dir], w[k])

LEMMA ThinnedKeeps ==
    ASSUME NEW w, NEW v, Thinned(w, v)
    PROVE  /\ StandingIn(w) => StandingIn(v)
           /\ OwnAll(w) => OwnAll(v)
           /\ DirsApart(w) => DirsApart(v)
           /\ OpenDirs(v) \subseteq OpenDirs(w)
           /\ \A D : PaintedAll(D, w) => PaintedAll(D, v)
<1>1. PICK f \in [DOMAIN v -> DOMAIN w] :
          /\ \A j, l \in DOMAIN v : f[j] = f[l] => j = l
          /\ \A j \in DOMAIN v : v[j] = w[f[j]]
  BY DEF Thinned
<1>2. StandingIn(w) => StandingIn(v)
  BY <1>1 DEF StandingIn
<1>3. OwnAll(w) => OwnAll(v)
  BY <1>1 DEF OwnAll
<1>4. DirsApart(w) => DirsApart(v)
  BY <1>1 DEF DirsApart
<1>5. OpenDirs(v) \subseteq OpenDirs(w)
  BY <1>1 DEF OpenDirs
<1>6. \A D : PaintedAll(D, w) => PaintedAll(D, v)
  BY <1>1 DEF PaintedAll
<1> QED BY <1>2, <1>3, <1>4, <1>5, <1>6

LEMMA AppendKeeps ==
    ASSUME NEW w \in Seq(WorkspaceType), NEW ws \in WorkspaceType
    PROVE  LET v == Append(w, ws)
           IN  /\ StandingIn(w) /\ OnStage(ws) => StandingIn(v)
               /\ OwnAll(w) /\ OwnPanes(ws) => OwnAll(v)
               /\ DirsApart(w) /\ ws.dir \notin OpenDirs(w) => DirsApart(v)
               /\ OpenDirs(v) = OpenDirs(w) \cup {ws.dir}
               /\ v # <<>>
<1> DEFINE v == Append(w, ws)
           z == Len(w) + 1
<1>1. /\ DOMAIN v = DOMAIN w \cup {z} /\ z \notin DOMAIN w
      /\ v[z] = ws /\ \A j \in DOMAIN w : v[j] = w[j]
  BY AppendProperties
<1>2. v # <<>>
  BY AppendProperties
<1> HIDE DEF v, z
<1>3. StandingIn(w) /\ OnStage(ws) => StandingIn(v)
  BY <1>1 DEF StandingIn
<1>4. OwnAll(w) /\ OwnPanes(ws) => OwnAll(v)
  BY <1>1 DEF OwnAll
<1>5. DirsApart(w) /\ ws.dir \notin OpenDirs(w) => DirsApart(v)
  <2> SUFFICES ASSUME DirsApart(w), ws.dir \notin OpenDirs(w) PROVE DirsApart(v)
    OBVIOUS
  <2>1. \A j \in DOMAIN w : w[j].dir # ws.dir
    BY DEF OpenDirs
  <2> QED BY <1>1, <2>1 DEF DirsApart
<1>6. OpenDirs(v) = OpenDirs(w) \cup {ws.dir}
  BY <1>1 DEF OpenDirs
<1> QED BY <1>2, <1>3, <1>4, <1>5, <1>6 DEF v

LEMMA ReworkKeeps ==
    ASSUME NEW w \in Seq(WorkspaceType), NEW k \in DOMAIN w, NEW new, new.dir = w[k].dir
    PROVE  LET v == [w EXCEPT ![k] = new]
           IN  /\ StandingIn(w) /\ (OnStage(w[k]) => OnStage(new)) => StandingIn(v)
               /\ OwnAll(w) /\ (OwnPanes(w[k]) => OwnPanes(new)) => OwnAll(v)
               /\ DirsApart(w) => DirsApart(v)
               /\ OpenDirs(v) = OpenDirs(w)
               /\ v # <<>>
               /\ \A D : PaintedAll(D, w) /\ StillPainted(w[k], new) => PaintedAll(D, v)
<1> DEFINE v == [w EXCEPT ![k] = new]
<1>1. DOMAIN v = DOMAIN w /\ v[k] = new /\ \A j \in DOMAIN w : j # k => v[j] = w[j]
  OBVIOUS
<1> HIDE DEF v
<1>2. \A j \in DOMAIN w : v[j].dir = w[j].dir
  BY <1>1
<1>3. v # <<>>
  BY <1>1
<1>4. StandingIn(w) /\ (OnStage(w[k]) => OnStage(new)) => StandingIn(v)
  BY <1>1 DEF StandingIn
<1>5. OwnAll(w) /\ (OwnPanes(w[k]) => OwnPanes(new)) => OwnAll(v)
  BY <1>1 DEF OwnAll
<1>6. DirsApart(w) => DirsApart(v)
  BY <1>1, <1>2 DEF DirsApart
<1>7. OpenDirs(v) = OpenDirs(w)
  BY <1>1, <1>2 DEF OpenDirs
<1>8. ASSUME NEW D, PaintedAll(D, w), StillPainted(w[k], new) PROVE PaintedAll(D, v)
  <2>1. PaintedBy(D[w[k].dir], new)
    BY <1>8 DEF PaintedAll, StillPainted
  <2>2. ASSUME NEW j \in DOMAIN v PROVE PaintedBy(D[v[j].dir], v[j])
    <3>1. CASE j = k
      BY <1>1, <2>1, <3>1
    <3>2. CASE j # k
      BY <1>1, <1>8, <3>2 DEF PaintedAll
    <3> QED BY <3>1, <3>2
  <2> QED BY <2>2 DEF PaintedAll
<1> QED BY <1>3, <1>4, <1>5, <1>6, <1>7, <1>8 DEF v

(* The workspace opened last, in the hands of rebuild_workspace_panes.      *)
LEMMA LastKeeps ==
    ASSUME TypeOK, NEW new,
           wss' = [wss EXCEPT ![Len(wss)] = new] \/ UNCHANGED wss,
           Len(wss) \in DOMAIN wss =>
               /\ new.dir = wss[Len(wss)].dir
               /\ OnStage(wss[Len(wss)]) => OnStage(new)
    PROVE  /\ StandingIn(wss) => StandingIn(wss')
           /\ DirsApart(wss) => DirsApart(wss')
           /\ OpenDirs(wss') = OpenDirs(wss)
           /\ OwnAll(wss) /\ (Len(wss) \in DOMAIN wss =>
                  (OwnPanes(wss[Len(wss)]) => OwnPanes(new))) => OwnAll(wss')
<1>0. wss \in Seq(WorkspaceType)
  BY DEF TypeOK
<1> DEFINE z == Len(wss)
<1>1. CASE wss' = [wss EXCEPT ![z] = new] /\ z \in DOMAIN wss
  <2> DEFINE v == [wss EXCEPT ![z] = new]
  <2>1. /\ StandingIn(wss) /\ (OnStage(wss[z]) => OnStage(new)) => StandingIn(v)
        /\ OwnAll(wss) /\ (OwnPanes(wss[z]) => OwnPanes(new)) => OwnAll(v)
        /\ DirsApart(wss) => DirsApart(v)
        /\ OpenDirs(v) = OpenDirs(wss)
    BY <1>0, <1>1, ReworkKeeps
  <2> QED BY <1>1, <2>1
<1>2. CASE wss' = wss
  BY <1>2
<1>3. wss' = [wss EXCEPT ![z] = new] /\ z \notin DOMAIN wss => wss' = wss
  BY <1>0
<1> QED BY <1>1, <1>2, <1>3

-----------------------------------------------------------------------------
(* The stage.                                                               *)

Standing == StandingIn(wss)

LEMMA StandingRebuild ==
    ASSUME IInv, Standing, RebuildProc \/ RebuildAgent \/ EndRebuild
    PROVE  Standing'
<1>0. TypeOK /\ cur # <<>>
  BY DEF IInv, RebuildProc, RebuildAgent, EndRebuild
<1> DEFINE z == Len(wss)
           ws == wss[z]
<1>w. z \in DOMAIN wss => /\ ws \in WorkspaceType
                          /\ ws.agents \in Seq(PaneType) /\ ws.procs \in Seq(PaneType)
  BY <1>0, PartsType
<1>1. CASE RebuildProc
  <2>1. \/ \E p \in PaneType : wss' = [wss EXCEPT ![z] = [ws EXCEPT !.procs = Append(@, p)]]
        \/ UNCHANGED wss
    <3> DEFINE p == cur[1].procs[at + 1]
               pane == Pane(p.kind, p.work, 0, FALSE, DumpAt(dumps[cur[1].dir].procs, at + 1))
    <3>1. \/ wss' = [wss EXCEPT ![z] = [ws EXCEPT !.procs = Append(@, pane)]]
          \/ UNCHANGED wss
      BY <1>1 DEF RebuildProc, RebuildLast
    <3>2. pane \in PaneType
      <4>1. at + 1 \in DOMAIN cur[1].procs /\ cur[1].procs \in Seq(ProcEntryType)
            /\ dumps[cur[1].dir] \in DumpType
        <5>1. /\ at \in Nat /\ Len(cur[1].procs) \in Nat /\ at < Len(cur[1].procs)
              /\ DOMAIN cur[1].procs = 1 .. Len(cur[1].procs)
          BY <1>0, <1>1, AtHand DEF RebuildProc
        <5>2. at + 1 \in 1 .. Len(cur[1].procs)
          BY <5>1
        <5>3. dumps[cur[1].dir] \in DumpType
          BY <1>0, AtHand DEF TypeOK
        <5> QED BY <1>0, <5>1, <5>2, <5>3, AtHand
      <4>2. p \in ProcEntryType
        BY <4>1
      <4>3. DumpAt(dumps[cur[1].dir].procs, at + 1) \in Nat
        <5>1. dumps[cur[1].dir].procs \in Seq(Nat)
          BY <4>1 DEF DumpType
        <5> QED BY <5>1 DEF DumpAt
      <4>4. p.work \in Nat /\ p.kind \in {"agent", "shell", "cmd"}
        BY <4>2 DEF ProcEntryType
      <4> HIDE DEF p
      <4> QED BY <4>3, <4>4, PaneHasType
    <3> HIDE DEF pane
    <3> QED BY <3>1, <3>2
  <2>2. ASSUME NEW p \in PaneType, z \in DOMAIN wss
        PROVE  LET new == [ws EXCEPT !.procs = Append(@, p)]
               IN  new.dir = ws.dir /\ (OnStage(ws) => OnStage(new))
    <3> DEFINE new == [ws EXCEPT !.procs = Append(@, p)]
    <3>1. /\ new.dir = ws.dir /\ new.agents = ws.agents /\ new.stage = ws.stage
          /\ new.procs = Append(ws.procs, p)
      BY <1>w, <2>2 DEF WorkspaceType
    <3>2. Works(new.procs) = Works(ws.procs) \cup {p.work}
      BY <1>w, <2>2, <3>1, RailAppended
    <3> HIDE DEF new
    <3>3. OnStage(ws) => OnStage(new)
      BY <3>1, <3>2 DEF OnStage
    <3> QED BY <3>1, <3>3 DEF new
  <2>3. CASE UNCHANGED wss
    BY <2>3 DEF Standing
  <2>4. ASSUME NEW p \in PaneType, wss' = [wss EXCEPT ![z] = [ws EXCEPT !.procs = Append(@, p)]]
        PROVE  Standing'
    <3> DEFINE new == [ws EXCEPT !.procs = Append(@, p)]
    <3>1. z \in DOMAIN wss => new.dir = ws.dir /\ (OnStage(ws) => OnStage(new))
      BY <2>2
    <3>2. wss' = [wss EXCEPT ![z] = new]
      BY <2>4
    <3> HIDE DEF new
    <3>3. StandingIn(wss) => StandingIn(wss')
      BY <1>0, <3>1, <3>2, LastKeeps
    <3> QED BY <3>3 DEF Standing
  <2> QED BY <2>1, <2>3, <2>4
<1>2. CASE RebuildAgent
  <2> DEFINE i == at + 1 - Len(cur[1].procs)
             a == cur[1].agents[i]
  <2>1. \/ \E p : /\ p.work = a.work
                  /\ wss' = [wss EXCEPT ![z] = [ws EXCEPT !.agents = Append(@, p), !.stage = a.work]]
        \/ UNCHANGED wss
    BY <1>2 DEF RebuildAgent, RebuildLast, Pane
  <2>2. ASSUME NEW p, p.work = a.work, z \in DOMAIN wss
        PROVE  LET new == [ws EXCEPT !.agents = Append(@, p), !.stage = a.work]
               IN  new.dir = ws.dir /\ OnStage(new)
    <3> DEFINE new == [ws EXCEPT !.agents = Append(@, p), !.stage = a.work]
               q == Append(ws.agents, p)
    <3>1. new.dir = ws.dir /\ new.agents = q /\ new.stage = a.work
      BY <1>w, <2>2 DEF WorkspaceType
    <3>2. Len(ws.agents) + 1 \in DOMAIN q /\ q[Len(ws.agents) + 1] = p
      BY <1>w, <2>2
    <3> HIDE DEF new, q, a
    <3>3. OnStage(new)
      BY <2>2, <3>1, <3>2 DEF OnStage, Works
    <3> QED BY <3>1, <3>3 DEF new
  <2>3. CASE UNCHANGED wss
    BY <2>3 DEF Standing
  <2>4. ASSUME NEW p, p.work = a.work,
               wss' = [wss EXCEPT ![z] = [ws EXCEPT !.agents = Append(@, p), !.stage = a.work]]
        PROVE  Standing'
    <3> DEFINE new == [ws EXCEPT !.agents = Append(@, p), !.stage = a.work]
    <3>1. z \in DOMAIN wss => new.dir = ws.dir /\ OnStage(new)
      BY <2>2, <2>4
    <3>2. wss' = [wss EXCEPT ![z] = new]
      BY <2>4
    <3> HIDE DEF new
    <3>3. StandingIn(wss) => StandingIn(wss')
      BY <1>0, <3>1, <3>2, LastKeeps
    <3> QED BY <3>3 DEF Standing
  <2> HIDE DEF a
  <2> QED BY <2>1, <2>3, <2>4
<1>3. CASE EndRebuild
  <2> DEFINE new == [ws EXCEPT !.stage = StagedWork(ws, cur[1])]
  <2>1. wss' = [wss EXCEPT ![z] = new]
    BY <1>3 DEF EndRebuild, RebuildLast
  <2>2. ASSUME z \in DOMAIN wss PROVE new.dir = ws.dir /\ (OnStage(ws) => OnStage(new))
    <3>1. /\ new.dir = ws.dir /\ new.agents = ws.agents /\ new.procs = ws.procs
          /\ new.stage = StagedWork(ws, cur[1])
      BY <1>w, <2>2 DEF WorkspaceType
    <3>2. \/ StagedWork(ws, cur[1]) \in Works(ws.agents) \cup Works(ws.procs)
          \/ StagedWork(ws, cur[1]) = ws.stage
      <4>1. ws.procs # <<>> => ws.procs[1].work \in Works(ws.procs)
        <5>1. ws.procs # <<>> => 1 \in DOMAIN ws.procs
          BY <1>w, <2>2
        <5> QED BY <5>1 DEF Works
      <4> QED BY <4>1 DEF StagedWork, Works
    <3> HIDE DEF new
    <3> QED BY <3>1, <3>2 DEF OnStage
  <2> HIDE DEF new
  <2>3. StandingIn(wss) => StandingIn(wss')
    BY <1>0, <2>1, <2>2, LastKeeps
  <2> QED BY <2>3 DEF Standing
<1> QED BY <1>1, <1>2, <1>3

(* What a step that is no handler of the serving daemon does to the tabs.   *)
LEMMA StopThins ==
    ASSUME TypeOK, Stop PROVE Thinned(wss, wss')
<1>1. \/ UNCHANGED wss
      \/ wss' = <<>>
      \/ wss # <<>> /\ wss' = Tail(wss)
  BY DEF Stop, Tick, KillServer, CapturePanes, KillServerClear, TearDown, Stopped,
         ExitWhenEmpty, Crash, Halt
<1> QED BY <1>1, ThinnedWays DEF TypeOK

LEMMA StandingNext ==
    ASSUME IInv, Standing, [Next]_vars PROVE Standing'
<1>0. TypeOK /\ wss \in Seq(WorkspaceType) /\ minted \in Nat
  BY DEF IInv, TypeOK
<1>a. ASSUME NEW ws \in WorkspaceType, OnStage(ws), wss' = Append(wss, ws)
      PROVE  Standing'
  <2>1. StandingIn(Append(wss, ws))
    BY <1>0, <1>a, AppendKeeps DEF Standing
  <2> QED BY <1>a, <2>1 DEF Standing
<1>1. CASE Start \/ DeferEntry \/ SkipEntry \/ RestoreDone \/ UNCHANGED vars
  <2>1. UNCHANGED wss
    BY <1>1 DEF Start, DeferEntry, SkipEntry, RestoreDone, vars
  <2> QED BY <2>1 DEF Standing
<1>2. CASE ReopenFresh
  <2>e. PICK e \in {todo.live[i] : i \in DOMAIN todo.live} \cup todo.held :
            \E up \in Launches(e.dir) :
                Visit(e) /\ wss' = Append(wss, FreshWorkspace(e.dir, minted, up))
    BY <1>2 DEF ReopenFresh
  <2>1. PICK up \in Launches(e.dir) :
            Visit(e) /\ wss' = Append(wss, FreshWorkspace(e.dir, minted, up))
    BY <2>e
  <2>2. e.dir \in Dirs
    BY <1>0, <2>1, VisitType DEF EntryType
  <2> QED BY <1>0, <1>a, <2>1, <2>2, FreshStands
<1>3. CASE BeginRebuild
  <2> DEFINE Empty(d) == [dir |-> d, procs |-> <<>>, agents |-> <<>>, stage |-> 0]
  <2>1. PICK e \in {todo.live[i] : i \in DOMAIN todo.live} \cup todo.held :
            Visit(e) /\ wss' = Append(wss, Empty(e.dir))
    BY <1>3 DEF BeginRebuild
  <2>2. e \in EntryType
    BY <1>0, <2>1, VisitType
  <2>3. Empty(e.dir) \in WorkspaceType /\ OnStage(Empty(e.dir))
    BY <2>2 DEF EntryType, WorkspaceType, OnStage
  <2> HIDE DEF Empty
  <2> QED BY <1>a, <2>1, <2>3
<1>4. CASE RebuildProc \/ RebuildAgent \/ EndRebuild
  BY <1>4, StandingRebuild
<1>5. CASE Stop
  <2>1. Thinned(wss, wss')
    BY <1>0, <1>5, StopThins
  <2> QED BY <2>1, ThinnedKeeps DEF Standing
<1>6. CASE Serve
  <2>1. ASSUME NEW d \in Dirs, NEW up \in Launches(d), OpenWorkspace(d, up) PROVE Standing'
    <3>1. wss' = Append(wss, FreshWorkspace(d, minted, up))
      BY <2>1 DEF OpenWorkspace, Serving
    <3> QED BY <1>0, <1>a, <3>1, FreshStands
  <2>2. ASSUME NEW k \in DOMAIN wss, KillWorkspace(k) PROVE Standing'
    <3>1. wss' = RemoveAt(wss, k)
      BY <2>2 DEF KillWorkspace, Serving
    <3>2. Thinned(wss, wss')
      BY <1>0, <3>1, ThinnedWays
    <3> QED BY <3>2, ThinnedKeeps DEF Standing
  <2>3. ASSUME NEW k \in DOMAIN wss, NEW new \in WorkspaceType, Reworked(k, new)
        PROVE  Standing'
    <3>1. wss' = [wss EXCEPT ![k] = new] /\ Follows(wss[k], new, minted, minted')
      BY <2>3 DEF Reworked, Rework, Serving
    <3>2. new.dir = wss[k].dir /\ (OnStage(wss[k]) => OnStage(new))
      BY <3>1 DEF Follows
    <3>3. StandingIn(wss) => StandingIn([wss EXCEPT ![k] = new])
      BY <1>0, <3>2, ReworkKeeps
    <3> QED BY <3>1, <3>3 DEF Standing
  <2> QED BY <1>0, <1>6, <2>1, <2>2, <2>3, ServeShape DEF Handled
<1> QED BY <1>1, <1>2, <1>3, <1>4, <1>5, <1>6 DEF Next, Restore

-----------------------------------------------------------------------------
(* The screens: which dumps are whose.                                      *)

Blank == [d \in Dirs |-> NoDumps]
Painting(S, D) == \A e \in S : PaintedBy(D[e.dir], e)
FilePainted(s, D) == Scattered(s, DirOf) /\ Painting(Entries(s), D)
HeldAway(w, h) ==
    /\ \A d, e \in h : d # e => d.dir # e.dir
    /\ \A e \in h : e.dir \notin OpenDirs(w)
ToCome(w, h, t) ==
    /\ Scattered(t, DirOf)
    /\ \A e \in Entries(t) : e.dir \notin OpenDirs(w) /\ \A d \in h : d.dir # e.dir

Active == phase \in {"up", "saving", "closing"}

Clean ==
    /\ OwnAll(wss) /\ HeldAway(wss, held) /\ ToCome(wss, held, todo)
    /\ Painting(held, dumps) /\ Painting(Entries(todo), dumps)
    /\ cur # <<>> => PaintedBy(dumps[cur[1].dir], cur[1])
    /\ phase \in {"down", "restoring"} \/ ~ changed => FilePainted(store, dumps)
    /\ Active /\ ~ changed => PaintedAll(dumps, wss)
    /\ phase = "restoring" \/ (Active /\ ~ changed) => DirsApart(wss)

Screened ==
    /\ ~ Dumping => dumps = Blank
    /\ phase \in {"saving", "closing"} => store = Persisted(wss, held)
    /\ Active /\ wss = <<>> => store = Persisted(wss, held)
    /\ ~ tainted => Clean

(* No dump paints anything that is not its own.                             *)
LEMMA BlankPaints ==
    ASSUME NEW d \in Dirs
    PROVE  \A x : PaintedBy(Blank[d], x)
BY DEF Blank, NoDumps, PaintedBy, Painted

(* Workspaces with dumps of their own are written down with those dumps.    *)
LEMMA WrittenPainted ==
    ASSUME NEW w \in Seq(WorkspaceType), NEW h \in SUBSET EntryType, NEW D,
           DirsApart(w), PaintedAll(D, w), HeldAway(w, h), Painting(h, D)
    PROVE  FilePainted(Persisted(w, h), D)
<1>1. \A k \in DOMAIN w : /\ DirOf[Entry(w[k])] = {w[k].dir} /\ Entry(w[k]).dir = w[k].dir
                          /\ \A d : PaintedBy(d, w[k]) => PaintedBy(d, Entry(w[k]))
  BY EntryTells, EntryHasType
<1>2. \A e \in h : DirOf[e] = {e.dir}
  BY DEF DirOf
<1>3. Scattered(Persisted(w, h), DirOf)
  <2>1. \A k, l \in DOMAIN w : k # l => DirOf[Entry(w[k])] \cap DirOf[Entry(w[l])] = {}
    BY <1>1 DEF DirsApart
  <2>2. \A k \in DOMAIN w, e \in h :
            e.dir \notin OpenDirs(w) => DirOf[Entry(w[k])] \cap DirOf[e] = {}
    BY <1>1, <1>2 DEF OpenDirs
  <2>3. \A d, e \in h : d # e => DirOf[d] \cap DirOf[e] = {}
    BY <1>2 DEF HeldAway
  <2> QED BY <2>1, <2>2, <2>3, PersistedScattered
<1>4. Painting(Entries(Persisted(w, h)), D)
  <2> SUFFICES ASSUME NEW e \in Entries(Persisted(w, h)) PROVE PaintedBy(D[e.dir], e)
    BY DEF Painting
  <2>1. (\E k \in DOMAIN w : e = Entry(w[k])) \/ e \in h
    BY PersistedEntries
  <2>2. CASE e \in h
    BY <2>2 DEF Painting
  <2>3. ASSUME NEW k \in DOMAIN w, e = Entry(w[k]) PROVE PaintedBy(D[e.dir], e)
    BY <1>1, <2>3 DEF PaintedAll
  <2> QED BY <2>1, <2>2, <2>3
<1> QED BY <1>3, <1>4 DEF FilePainted

(* As many directories as workspaces: no two share one.                     *)
LEMMA CountedApart ==
    ASSUME NEW w \in Seq(WorkspaceType), Cardinality(OpenDirs(w)) = Len(w)
    PROVE  DirsApart(w)
<1> DEFINE S == 1 .. Len(w)
           f == [k \in S |-> w[k].dir]
<1>1. Len(w) \in Nat /\ DOMAIN w = S
  OBVIOUS
<1>2. IsFiniteSet(S) /\ Cardinality(S) = Len(w)
  <2>1. 1 \in Int /\ Len(w) \in Int
    BY <1>1
  <2>2. IsFiniteSet(S) /\ Cardinality(S) = IF 1 > Len(w) THEN 0 ELSE Len(w) - 1 + 1
    BY <2>1, FS_Interval
  <2> QED BY <1>1, <2>2
<1>3. f \in Surjection(S, OpenDirs(w))
  BY <1>1 DEF Surjection, OpenDirs
<1> HIDE DEF S, f
<1>4. f \in Injection(S, OpenDirs(w))
  BY <1>2, <1>3, FS_Surjection
<1>5. \A k, l \in S : f[k] = f[l] => k = l
  BY <1>4 DEF Injection, IsInjective
<1> QED BY <1>1, <1>5 DEF DirsApart, f

(* capture_panes writes each workspace its own screens, and leaves those of *)
(* the entries put aside.                                                   *)
LEMMA CapturedPaints ==
    ASSUME TypeOK, OwnAll(wss)
    PROVE  /\ DirsApart(wss) => PaintedAll(Captured, wss)
           /\ HeldAway(wss, held) /\ Painting(held, dumps) => Painting(held, Captured)
<1>1. ASSUME DirsApart(wss) PROVE PaintedAll(Captured, wss)
  <2> SUFFICES ASSUME NEW k \in DOMAIN wss
               PROVE  PaintedBy(Captured[wss[k].dir], wss[k])
    BY DEF PaintedAll
  <2> DEFINE here == {j \in DOMAIN wss : wss[j].dir = wss[k].dir}
  <2>1. here = {k}
    BY <1>1 DEF DirsApart
  <2>2. (CHOOSE j \in here : \A o \in here : o <= j) = k
    <3>1. k <= k
      BY DEF TypeOK
    <3> HIDE DEF here
    <3> QED BY <2>1, <3>1
  <2>3. wss[k].dir \in Dirs
    BY PartsType
  <2>4. here # {}
    BY <2>1
  <2>5. Captured[wss[k].dir] = [agents |-> Screens(wss[k].agents), procs |-> Screens(wss[k].procs)]
    BY <2>2, <2>3, <2>4 DEF Captured
  <2>6. OwnPanes(wss[k])
    BY DEF OwnAll
  <2> QED BY <2>5, <2>6 DEF PaintedBy, Painted, Screens, OwnPanes, OwnRail
<1>2. ASSUME HeldAway(wss, held), Painting(held, dumps) PROVE Painting(held, Captured)
  <2> SUFFICES ASSUME NEW e \in held PROVE PaintedBy(Captured[e.dir], e)
    BY DEF Painting
  <2>1. e.dir \in Dirs
    BY DEF TypeOK, EntryType
  <2>2. {k \in DOMAIN wss : wss[k].dir = e.dir} = {}
    BY <1>2 DEF HeldAway, OpenDirs
  <2>3. Captured[e.dir] = dumps[e.dir]
    BY <2>1, <2>2 DEF Captured
  <2> QED BY <1>2, <2>3 DEF Painting
<1> QED BY <1>1, <1>2

-----------------------------------------------------------------------------
(* Serving.                                                                 *)

LEMMA FewerAway ==
    ASSUME NEW w, NEW v, OpenDirs(v) \subseteq OpenDirs(w), NEW h, NEW g \in SUBSET h,
           HeldAway(w, h)
    PROVE  HeldAway(v, g)
BY DEF HeldAway

LEMMA NothingToCome == \A w, h, D : ToCome(w, h, EmptyStore) /\ Painting(Entries(EmptyStore), D)
BY EmptyScattered DEF ToCome, Painting

LEMMA ScreenedServe ==
    ASSUME IInv, Idle, Idle', Screened, Serve PROVE Screened'
<1>0. /\ TypeOK /\ wss \in Seq(WorkspaceType) /\ held \in SUBSET EntryType
      /\ minted \in Nat /\ changed \in BOOLEAN /\ (phase = "up" => ~ shutdown)
  BY DEF IInv, TypeOK, Gated
<1>1. /\ phase = "up" /\ phase' = "up" /\ UNCHANGED dumps /\ ~ shutdown
      /\ todo = EmptyStore /\ todo' = EmptyStore /\ cur' = <<>>
  BY <1>0, ServeWrites DEF Written, Idle, IInv, Gated
<1>2. UNCHANGED tainted
  <2>1. \E w : Serving(w)
    BY <1>0, ServeShape DEF Handled, Reworked, Rework, OpenWorkspace, KillWorkspace
  <2> QED BY <2>1 DEF Serving
<1>s. \A w, h : Save(w, h) => store' = Persisted(w, h)
  BY <1>1 DEF Save, Frozen
<1>c. ASSUME ~ tainted
      PROVE  /\ OwnAll(wss) /\ HeldAway(wss, held) /\ Painting(held, dumps)
             /\ ~ changed => /\ FilePainted(store, dumps) /\ PaintedAll(dumps, wss)
                             /\ DirsApart(wss)
  BY <1>1, <1>c DEF Screened, Clean, Active
<1>3. SUFFICES /\ wss' = <<>> => store' = Persisted(wss', held')
               /\ ~ tainted =>
                      /\ OwnAll(wss') /\ HeldAway(wss', held') /\ Painting(held', dumps)
                      /\ ~ changed' => /\ FilePainted(store', dumps)
                                       /\ PaintedAll(dumps, wss')
                                       /\ DirsApart(wss')
  <2>1. ~ tainted' => Clean'
    BY <1>1, <1>2, <1>3, NothingToCome DEF Clean, Active
  <2>2. ~ Dumping => dumps' = Blank
    BY <1>1 DEF Screened
  <2> QED BY <1>1, <1>3, <2>1, <2>2 DEF Screened, Active
<1>4. ASSUME NEW d \in Dirs, NEW up \in Launches(d), OpenWorkspace(d, up)
      PROVE  /\ wss' = <<>> => store' = Persisted(wss', held')
             /\ ~ tainted =>
                    /\ OwnAll(wss') /\ HeldAway(wss', held') /\ Painting(held', dumps)
                    /\ ~ changed' => /\ FilePainted(store', dumps)
                                     /\ PaintedAll(dumps, wss')
                                     /\ DirsApart(wss')
  <2> DEFINE ws == FreshWorkspace(d, minted, up)
  <2>1. /\ wss' = Append(wss, ws) /\ held' = {h \in held : h.dir # d} /\ changed' = TRUE
    BY <1>4 DEF OpenWorkspace, Serving
  <2>2. ws \in WorkspaceType /\ ws.dir = d /\ OwnPanes(ws)
    BY <1>0, FreshStands
  <2> HIDE DEF ws
  <2>3. /\ OwnAll(wss) => OwnAll(wss')
        /\ OpenDirs(wss') = OpenDirs(wss) \cup {d}
        /\ wss' # <<>>
    BY <1>0, <2>1, <2>2, AppendKeeps
  <2>4. HeldAway(wss, held) => HeldAway(wss', held')
    BY <2>1, <2>3 DEF HeldAway
  <2>5. Painting(held, dumps) => Painting(held', dumps)
    BY <2>1 DEF Painting
  <2> QED BY <1>c, <2>1, <2>3, <2>4, <2>5
<1>5. ASSUME NEW k \in DOMAIN wss, KillWorkspace(k)
      PROVE  /\ wss' = <<>> => store' = Persisted(wss', held')
             /\ ~ tainted =>
                    /\ OwnAll(wss') /\ HeldAway(wss', held') /\ Painting(held', dumps)
                    /\ ~ changed' => /\ FilePainted(store', dumps)
                                     /\ PaintedAll(dumps, wss')
                                     /\ DirsApart(wss')
  <2>1. /\ wss' = RemoveAt(wss, k) /\ held' = held /\ changed' = changed
        /\ store' = Persisted(wss', held')
    BY <1>5, <1>s DEF KillWorkspace, Serving
  <2>2. Thinned(wss, wss') /\ wss' \in Seq(WorkspaceType)
    BY <1>0, <2>1, ThinnedWays, RemoveAtType
  <2>3. /\ OwnAll(wss) => OwnAll(wss')
        /\ DirsApart(wss) => DirsApart(wss')
        /\ OpenDirs(wss') \subseteq OpenDirs(wss)
        /\ PaintedAll(dumps, wss) => PaintedAll(dumps, wss')
    BY <2>2, ThinnedKeeps
  <2>4. HeldAway(wss, held) => HeldAway(wss', held)
    BY <2>3, FewerAway
  <2>5. ~ tainted /\ ~ changed => FilePainted(Persisted(wss', held), dumps)
    BY <1>0, <1>c, <2>2, <2>3, <2>4, WrittenPainted
  <2> QED BY <1>c, <2>1, <2>3, <2>4, <2>5
<1>6. ASSUME NEW k \in DOMAIN wss, NEW new \in WorkspaceType, Reworked(k, new)
      PROVE  /\ wss' = <<>> => store' = Persisted(wss', held')
             /\ ~ tainted =>
                    /\ OwnAll(wss') /\ HeldAway(wss', held') /\ Painting(held', dumps)
                    /\ ~ changed' => /\ FilePainted(store', dumps)
                                     /\ PaintedAll(dumps, wss')
                                     /\ DirsApart(wss')
  <2>1. /\ wss' = [wss EXCEPT ![k] = new] /\ held' = held
        /\ store' = store \/ store' = Persisted(wss', held)
        /\ changed' = TRUE \/ (changed' = changed /\ StillPainted(wss[k], new))
    BY <1>6, <1>s DEF Reworked, Rework, Serving
  <2>2. new.dir = wss[k].dir /\ (OwnPanes(wss[k]) => OwnPanes(new))
    BY <1>6 DEF Reworked, Follows
  <2>3. /\ OwnAll(wss) => OwnAll(wss')
        /\ DirsApart(wss) => DirsApart(wss')
        /\ OpenDirs(wss') = OpenDirs(wss)
        /\ wss' # <<>>
        /\ StillPainted(wss[k], new) => (PaintedAll(dumps, wss) => PaintedAll(dumps, wss'))
    <3> DEFINE v == [wss EXCEPT ![k] = new]
    <3>1. /\ OwnAll(wss) /\ (OwnPanes(wss[k]) => OwnPanes(new)) => OwnAll(v)
          /\ DirsApart(wss) => DirsApart(v)
          /\ OpenDirs(v) = OpenDirs(wss)
          /\ v # <<>>
          /\ \A D : PaintedAll(D, wss) /\ StillPainted(wss[k], new) => PaintedAll(D, v)
      BY <1>0, <2>2, ReworkKeeps
    <3>2. wss' = v
      BY <2>1
    <3> HIDE DEF v
    <3> QED BY <2>2, <3>1, <3>2
  <2>4. HeldAway(wss, held) => HeldAway(wss', held)
    BY <2>3, FewerAway
  <2>5. wss' \in Seq(WorkspaceType)
    BY <1>0, <2>1, UpdateType
  <2>6. ASSUME ~ tainted, ~ changed'
        PROVE  /\ PaintedAll(dumps, wss') /\ DirsApart(wss')
               /\ FilePainted(Persisted(wss', held), dumps)
               /\ FilePainted(store, dumps)
    <3>1. ~ changed /\ StillPainted(wss[k], new)
      BY <2>1, <2>6
    <3>2. /\ PaintedAll(dumps, wss') /\ DirsApart(wss') /\ HeldAway(wss', held)
          /\ Painting(held, dumps) /\ FilePainted(store, dumps)
      BY <1>c, <2>3, <2>4, <2>6, <3>1
    <3>3. FilePainted(Persisted(wss', held), dumps)
      BY <1>0, <2>5, <3>2, WrittenPainted
    <3> QED BY <3>2, <3>3
  <2> QED BY <1>c, <2>1, <2>3, <2>4, <2>6
<1> QED BY <1>0, <1>4, <1>5, <1>6, ServeShape DEF Handled

-----------------------------------------------------------------------------
(* Writing down, stopping, crashing, starting.                              *)

LEMMA ScreenedTick ==
    ASSUME IInv, Idle, Idle', Screened, Tick \/ KillServer PROVE Screened'
<1>0. /\ wss \in Seq(WorkspaceType) /\ held \in SUBSET EntryType
      /\ phase = "up" => ~ shutdown
  BY DEF IInv, TypeOK, Gated
<1>1. /\ phase = "up" /\ phase' \in {"saving", "closing"} /\ store' = Persisted(wss, held)
      /\ UNCHANGED <<wss, held, todo, cur, dumps, tainted, changed>>
  BY <1>0 DEF Tick, KillServer, Save, Frozen, restoreVars, ghostVars
<1>2. ASSUME Clean, ~ changed PROVE FilePainted(store', dumps)
  BY <1>0, <1>1, <1>2, WrittenPainted DEF Clean, Active
<1>3. Clean => Clean'
  BY <1>1, <1>2 DEF Clean, Active
<1> QED BY <1>1, <1>3 DEF Screened, Active

LEMMA ScreenedCapture ==
    ASSUME IInv, Idle, Idle', Screened, CapturePanes PROVE Screened'
<1>0. /\ TypeOK /\ wss \in Seq(WorkspaceType) /\ held \in SUBSET EntryType
  BY DEF IInv, TypeOK
<1>1. /\ phase \in {"saving", "closing"} /\ phase' \in {"up", "teardown"}
      /\ dumps' = IF Dumping THEN Captured ELSE dumps
      /\ changed' = (Cardinality(OpenDirs(wss)) # Len(wss))
      /\ UNCHANGED <<wss, held, store, tainted>>
      /\ todo' = EmptyStore /\ cur' = <<>>
  BY DEF CapturePanes, Idle, restoreVars
<1>2. store = Persisted(wss, held)
  BY <1>1 DEF Screened
<1>3. ~ changed' => DirsApart(wss)
  BY <1>0, <1>1, CountedApart
<1>4. ASSUME ~ Dumping PROVE dumps' = Blank
  BY <1>1, <1>4 DEF Screened
<1>5. ASSUME Clean PROVE Painting(held, dumps') /\ (~ changed' => PaintedAll(dumps', wss))
  <2>1. CASE Dumping
    BY <1>0, <1>1, <1>3, <1>5, <2>1, CapturedPaints DEF Clean
  <2>2. CASE ~ Dumping
    <3>1. \A e \in held : e.dir \in Dirs
      BY <1>0 DEF EntryType
    <3>2. \A k \in DOMAIN wss : wss[k].dir \in Dirs
      BY <1>0, PartsType
    <3> QED BY <1>4, <2>2, <3>1, <3>2, BlankPaints DEF Painting, PaintedAll
  <2> QED BY <2>1, <2>2
<1>6. ASSUME Clean, ~ changed' PROVE FilePainted(store, dumps')
  <2>1. HeldAway(wss, held)
    BY <1>6 DEF Clean
  <2>2. FilePainted(Persisted(wss, held), dumps')
    BY <1>0, <1>3, <1>5, <1>6, <2>1, WrittenPainted
  <2> QED BY <1>2, <2>2
<1>7. Clean => Clean'
  BY <1>1, <1>3, <1>5, <1>6, NothingToCome DEF Clean, Active
<1> QED BY <1>1, <1>2, <1>4, <1>7 DEF Screened, Active

LEMMA ScreenedStop ==
    ASSUME IInv, Idle, Idle', Screened, Stop PROVE Screened'
<1>0. /\ TypeOK /\ wss \in Seq(WorkspaceType) /\ held \in SUBSET EntryType
      /\ changed \in BOOLEAN /\ tainted \in BOOLEAN
  BY DEF IInv, TypeOK
<1>1. CASE KillServerClear
  <2>1. /\ phase' = "clearing" /\ store' = EmptyStore /\ dumps' = Blank
        /\ UNCHANGED <<wss, tainted>> /\ held' = {} /\ todo' = EmptyStore /\ cur' = <<>>
    BY <1>1 DEF KillServerClear, Idle, restoreVars, Blank
  <2>2. Painting({}, Blank) /\ HeldAway(wss, {})
    BY DEF Painting, HeldAway
  <2>3. FilePainted(EmptyStore, Blank)
    BY EmptyScattered DEF FilePainted, Painting
  <2>4. Clean => Clean'
    BY <2>1, <2>2, <2>3, NothingToCome DEF Clean, Active
  <2> QED BY <2>1, <2>4 DEF Screened, Active
<1>2. CASE TearDown
  <2>1. /\ phase \in {"teardown", "clearing"} /\ phase' = phase
        /\ wss' = Tail(wss) /\ wss # <<>>
        /\ UNCHANGED <<held, dumps, tainted, changed, todo, cur>>
    BY <1>2 DEF TearDown, restoreVars, ghostVars
  <2>2. UNCHANGED store
    BY <1>2, <2>1 DEF IInv, Gated, TearDown, Save, Frozen
  <2>3. Thinned(wss, wss')
    BY <1>0, <2>1, ThinnedWays
  <2>4. (OwnAll(wss) => OwnAll(wss')) /\ OpenDirs(wss') \subseteq OpenDirs(wss)
    BY <2>3, ThinnedKeeps
  <2>5. HeldAway(wss, held) => HeldAway(wss', held)
    BY <2>4, FewerAway
  <2>6. todo' = EmptyStore /\ cur' = <<>>
    BY <2>1 DEF Idle
  <2>7. Clean => Clean'
    BY <2>1, <2>2, <2>4, <2>5, <2>6, NothingToCome DEF Clean, Active
  <2> QED BY <2>1, <2>7 DEF Screened, Active
<1>3. CASE Stopped \/ ExitWhenEmpty \/ Crash
  <2>1. /\ phase' = "down" /\ wss' = <<>> /\ held' = {} /\ todo' = EmptyStore /\ cur' = <<>>
        /\ UNCHANGED <<store, dumps, changed>>
        /\ ~ tainted' => ~ tainted
    <3>1. Halt /\ UNCHANGED changed
      BY <1>3 DEF Stopped, ExitWhenEmpty, Crash, ghostVars
    <3>2. tainted' = (tainted \/ changed) \/ UNCHANGED tainted
      BY <1>3 DEF Stopped, ExitWhenEmpty, Crash, ghostVars
    <3> QED BY <1>0, <3>1, <3>2 DEF Halt
  <2>2. ASSUME ~ tainted' PROVE FilePainted(store, dumps)
    <3>1. Clean
      BY <2>1, <2>2 DEF Screened
    <3>2. CASE ~ changed
      BY <3>1, <3>2 DEF Clean
    <3>3. CASE changed
      <4>1. ExitWhenEmpty
        BY <1>0, <1>3, <2>2, <3>3 DEF Stopped, Crash
      <4>2. phase = "up" /\ wss = <<>>
        BY <4>1 DEF ExitWhenEmpty
      <4>3. store = Persisted(<<>>, held)
        BY <4>2 DEF Screened, Active
      <4>4. DirsApart(<<>>) /\ PaintedAll(dumps, <<>>) /\ <<>> \in Seq(WorkspaceType)
        BY DEF DirsApart, PaintedAll
      <4>5. HeldAway(<<>>, held) /\ Painting(held, dumps)
        BY <3>1, <4>2 DEF Clean
      <4>6. FilePainted(Persisted(<<>>, held), dumps)
        BY <1>0, <4>4, <4>5, WrittenPainted
      <4> QED BY <4>3, <4>6
    <3> QED BY <1>0, <3>2, <3>3
  <2>3. OwnAll(<<>>) /\ HeldAway(<<>>, {}) /\ (\A D : Painting({}, D))
    BY DEF OwnAll, HeldAway, Painting
  <2>4. ~ tainted' => Clean'
    BY <2>1, <2>2, <2>3, NothingToCome DEF Clean, Active
  <2> QED BY <2>1, <2>4 DEF Screened, Active
<1> QED BY <1>1, <1>2, <1>3, ScreenedTick, ScreenedCapture DEF Stop

LEMMA ScreenedStart ==
    ASSUME IInv, Idle, Idle', Screened, Start PROVE Screened'
<1>1. /\ phase = "down" /\ phase' = "restoring" /\ todo' = store
      /\ wss = <<>> /\ held = {}
      /\ UNCHANGED <<wss, held, cur, store, dumps, changed, tainted>>
  BY DEF Start, Idle
<1>2. ASSUME Clean PROVE ToCome(<<>>, {}, store) /\ Painting(Entries(store), dumps)
                         /\ DirsApart(<<>>)
  BY <1>1, <1>2 DEF Clean, FilePainted, ToCome, OpenDirs, DirsApart
<1>3. Clean => Clean'
  BY <1>1, <1>2 DEF Clean, Active
<1> QED BY <1>1, <1>3 DEF Screened, Active

-----------------------------------------------------------------------------
(* Coming up: dumps, file, `changed` and `tainted` stay as they are.        *)

LEMMA ScreenedRestoring ==
    ASSUME Idle', Screened, phase = "restoring", phase' = "restoring",
           UNCHANGED <<dumps, store, changed, tainted>>,
           ~ tainted /\ Clean =>
               /\ OwnAll(wss') /\ HeldAway(wss', held') /\ ToCome(wss', held', todo')
               /\ Painting(held', dumps) /\ Painting(Entries(todo'), dumps)
               /\ cur' # <<>> => PaintedBy(dumps[cur'[1].dir], cur'[1])
               /\ DirsApart(wss')
    PROVE  Screened'
<1>1. ~ tainted' => Clean'
  <2> SUFFICES ASSUME ~ tainted PROVE Clean'
    OBVIOUS
  <2>1. Clean /\ FilePainted(store, dumps)
    BY DEF Screened, Clean
  <2> QED BY <2>1 DEF Clean, Active
<1> QED BY <1>1 DEF Screened, Active

(* The entry that is visited is away from all that is open, held or still   *)
(* to come.                                                                 *)
LEMMA VisitAway ==
    ASSUME IInv, Screened, ~ tainted,
           NEW e \in {todo.live[i] : i \in DOMAIN todo.live} \cup todo.held, Visit(e)
    PROVE  /\ phase = "restoring" /\ cur = <<>> /\ e \in EntryType
           /\ OwnAll(wss) /\ HeldAway(wss, held) /\ DirsApart(wss) /\ Painting(held, dumps)
           /\ Painting(Entries(todo'), dumps) /\ PaintedBy(dumps[e.dir], e)
           /\ ToCome(wss, held, todo')
           /\ e.dir \notin OpenDirs(wss) /\ \A d \in held : d.dir # e.dir
           /\ \A x \in Entries(todo') : x.dir # e.dir
<1>0. Clean /\ phase = "restoring" /\ cur = <<>> /\ TypeOK
  BY DEF Screened, Visit, IInv
<1>1. e \in EntryType /\ todo' \in StoreType
  BY <1>0, VisitType
<1>2. /\ e \in Entries(todo) /\ Entries(todo') \subseteq Entries(todo)
      /\ Scattered(todo', DirOf)
      /\ \A x \in Entries(todo') : DirOf[x] \cap DirOf[e] = {}
  BY <1>0, VisitScattered DEF Clean, ToCome
<1>3. \A x \in Entries(todo') : x.dir # e.dir
  <2>1. \A x \in EntryType : DirOf[x] = {x.dir}
    BY DEF DirOf
  <2>2. Entries(todo') \subseteq EntryType
    BY <1>1, EntriesType
  <2> QED BY <1>1, <1>2, <2>1, <2>2
<1>4. /\ OwnAll(wss) /\ HeldAway(wss, held) /\ DirsApart(wss) /\ Painting(held, dumps)
      /\ ToCome(wss, held, todo) /\ Painting(Entries(todo), dumps)
  BY <1>0 DEF Clean
<1>5. Painting(Entries(todo'), dumps) /\ PaintedBy(dumps[e.dir], e)
  BY <1>2, <1>4 DEF Painting
<1>6. /\ ToCome(wss, held, todo')
      /\ e.dir \notin OpenDirs(wss) /\ \A d \in held : d.dir # e.dir
  BY <1>2, <1>4 DEF ToCome
<1> QED BY <1>0, <1>1, <1>3, <1>4, <1>5, <1>6

(* A workspace of the visited directory joins.                              *)
LEMMA ScreensJoin ==
    ASSUME IInv, Screened, ~ tainted,
           NEW e \in {todo.live[i] : i \in DOMAIN todo.live} \cup todo.held, Visit(e),
           NEW ws \in WorkspaceType, ws.dir = e.dir, OwnPanes(ws),
           wss' = Append(wss, ws), held' = {h \in held : h.dir # e.dir}
    PROVE  /\ OwnAll(wss') /\ HeldAway(wss', held') /\ ToCome(wss', held', todo')
           /\ Painting(held', dumps) /\ Painting(Entries(todo'), dumps) /\ DirsApart(wss')
<1>1. /\ OwnAll(wss) /\ HeldAway(wss, held) /\ DirsApart(wss) /\ Painting(held, dumps)
      /\ Painting(Entries(todo'), dumps)
      /\ ToCome(wss, held, todo')
      /\ e.dir \notin OpenDirs(wss)
      /\ \A x \in Entries(todo') : x.dir # e.dir
  BY VisitAway
<1>2. /\ OwnAll(wss) => OwnAll(wss')
      /\ DirsApart(wss) => DirsApart(wss')
      /\ OpenDirs(wss') = OpenDirs(wss) \cup {e.dir}
  <2>1. wss \in Seq(WorkspaceType)
    BY DEF IInv, TypeOK
  <2>2. LET v == Append(wss, ws)
        IN  /\ OwnAll(wss) /\ OwnPanes(ws) => OwnAll(v)
            /\ DirsApart(wss) /\ ws.dir \notin OpenDirs(wss) => DirsApart(v)
            /\ OpenDirs(v) = OpenDirs(wss) \cup {ws.dir}
    BY <2>1, AppendKeeps
  <2> QED BY <1>1, <2>2
<1>3. HeldAway(wss', held')
  BY <1>1, <1>2 DEF HeldAway
<1>4. ToCome(wss', held', todo')
  BY <1>1, <1>2 DEF ToCome
<1>5. Painting(held', dumps)
  BY <1>1 DEF Painting
<1> QED BY <1>1, <1>2, <1>3, <1>4, <1>5

LEMMA ScreenedVisit ==
    ASSUME IInv, Idle', Screened,
           DeferEntry \/ SkipEntry \/ ReopenFresh \/ BeginRebuild
    PROVE  Screened'
<1>0. TypeOK /\ minted \in Nat
  BY DEF IInv, TypeOK
<1>s. \A w, h : Save(w, h) /\ phase = "restoring" => UNCHANGED store
  BY DEF Save, Frozen
<1>1. CASE DeferEntry
  <2>1. PICK e \in {todo.live[i] : i \in DOMAIN todo.live} \cup todo.held :
            /\ Visit(e) /\ held' = held \cup {e}
            /\ UNCHANGED <<phase, wss, cur, dumps, store, changed, tainted>>
    BY <1>1 DEF DeferEntry, diskVars, ghostVars
  <2>2. phase = "restoring" /\ cur' = <<>>
    BY <2>1 DEF Visit
  <2>3. ASSUME ~ tainted
        PROVE  /\ OwnAll(wss') /\ HeldAway(wss', held') /\ ToCome(wss', held', todo')
               /\ Painting(held', dumps) /\ Painting(Entries(todo'), dumps)
               /\ DirsApart(wss')
    <3>1. /\ OwnAll(wss) /\ HeldAway(wss, held) /\ DirsApart(wss) /\ Painting(held, dumps)
          /\ Painting(Entries(todo'), dumps) /\ PaintedBy(dumps[e.dir], e)
          /\ ToCome(wss, held, todo')
          /\ e.dir \notin OpenDirs(wss) /\ \A d \in held : d.dir # e.dir
          /\ \A x \in Entries(todo') : x.dir # e.dir
      BY <2>1, <2>3, VisitAway
    <3>2. HeldAway(wss, held')
      BY <2>1, <3>1 DEF HeldAway
    <3>3. ToCome(wss, held', todo')
      BY <2>1, <3>1 DEF ToCome
    <3>4. Painting(held', dumps)
      BY <2>1, <3>1 DEF Painting
    <3> QED BY <2>1, <3>1, <3>2, <3>3, <3>4
  <2> QED BY <2>1, <2>2, <2>3, ScreenedRestoring
<1>2. CASE SkipEntry
  <2>1. PICK e \in {todo.live[i] : i \in DOMAIN todo.live} \cup todo.held :
            /\ Visit(e)
            /\ UNCHANGED <<phase, wss, held, cur, dumps, store, changed, tainted>>
    BY <1>2 DEF SkipEntry, diskVars, ghostVars
  <2>2. phase = "restoring" /\ cur' = <<>>
    BY <2>1 DEF Visit
  <2>3. ASSUME ~ tainted
        PROVE  /\ OwnAll(wss') /\ HeldAway(wss', held') /\ ToCome(wss', held', todo')
               /\ Painting(held', dumps) /\ Painting(Entries(todo'), dumps)
               /\ DirsApart(wss')
    <3>1. /\ OwnAll(wss) /\ HeldAway(wss, held) /\ DirsApart(wss) /\ Painting(held, dumps)
          /\ Painting(Entries(todo'), dumps) /\ ToCome(wss, held, todo')
      BY <2>1, <2>3, VisitAway
    <3> QED BY <2>1, <3>1
  <2> QED BY <2>1, <2>2, <2>3, ScreenedRestoring
<1>3. CASE ReopenFresh
  <2>e. PICK e \in {todo.live[i] : i \in DOMAIN todo.live} \cup todo.held :
            \E up \in Launches(e.dir) :
                /\ Visit(e)
                /\ wss' = Append(wss, FreshWorkspace(e.dir, minted, up))
                /\ held' = {h \in held : h.dir # e.dir}
                /\ Save(wss', held')
                /\ UNCHANGED <<phase, cur, dumps, changed, tainted>>
    BY <1>3 DEF ReopenFresh, ghostVars
  <2>1. PICK up \in Launches(e.dir) :
            /\ Visit(e)
            /\ wss' = Append(wss, FreshWorkspace(e.dir, minted, up))
            /\ held' = {h \in held : h.dir # e.dir}
            /\ Save(wss', held')
            /\ UNCHANGED <<phase, cur, dumps, changed, tainted>>
    BY <2>e
  <2>2. phase = "restoring" /\ cur' = <<>> /\ UNCHANGED store
    BY <1>s, <2>1 DEF Visit
  <2>3. ASSUME ~ tainted
        PROVE  /\ OwnAll(wss') /\ HeldAway(wss', held') /\ ToCome(wss', held', todo')
               /\ Painting(held', dumps) /\ Painting(Entries(todo'), dumps)
               /\ DirsApart(wss')
    <3> DEFINE ws == FreshWorkspace(e.dir, minted, up)
    <3>1. e.dir \in Dirs
      BY <1>0, <2>1, VisitType DEF EntryType
    <3>2. ws \in WorkspaceType /\ ws.dir = e.dir /\ OwnPanes(ws)
      BY <1>0, <3>1, FreshStands
    <3>3. wss' = Append(wss, ws)
      BY <2>1
    <3> HIDE DEF ws
    <3> QED BY <2>1, <2>3, <3>2, <3>3, ScreensJoin
  <2> QED BY <2>1, <2>2, <2>3, ScreenedRestoring
<1>4. CASE BeginRebuild
  <2> DEFINE Empty(d) == [dir |-> d, procs |-> <<>>, agents |-> <<>>, stage |-> 0]
  <2>1. PICK e \in {todo.live[i] : i \in DOMAIN todo.live} \cup todo.held :
            /\ Visit(e)
            /\ wss' = Append(wss, Empty(e.dir))
            /\ held' = {h \in held : h.dir # e.dir}
            /\ cur' = <<e>>
            /\ UNCHANGED <<phase, dumps, store, changed, tainted>>
    BY <1>4 DEF BeginRebuild, diskVars, ghostVars
  <2>2. phase = "restoring" /\ cur'[1] = e
    BY <2>1 DEF Visit
  <2>3. e \in EntryType
    BY <1>0, <2>1, VisitType
  <2>4. Empty(e.dir) \in WorkspaceType /\ Empty(e.dir).dir = e.dir /\ OwnPanes(Empty(e.dir))
    BY <2>3 DEF EntryType, WorkspaceType, OwnPanes, OwnRail
  <2> HIDE DEF Empty
  <2>5. ASSUME ~ tainted
        PROVE  /\ OwnAll(wss') /\ HeldAway(wss', held') /\ ToCome(wss', held', todo')
               /\ Painting(held', dumps) /\ Painting(Entries(todo'), dumps)
               /\ DirsApart(wss')
    BY <2>1, <2>4, <2>5, ScreensJoin
  <2>6. ~ tainted => PaintedBy(dumps[cur'[1].dir], cur'[1])
    BY <2>1, <2>2, VisitAway
  <2> QED BY <2>1, <2>2, <2>5, <2>6, ScreenedRestoring
<1> QED BY <1>1, <1>2, <1>3, <1>4

(* A pane rebuilt under the dump of its position shows its own screen, or   *)
(* none.                                                                    *)
LEMMA DumpIsOwn ==
    ASSUME NEW files, NEW q, Painted(files, q), NEW i
    PROVE  DumpAt(files, i) \in {0, q[i].work}
BY DEF DumpAt, Painted

LEMMA ScreenedRebuild ==
    ASSUME IInv, Idle', Screened, RebuildProc \/ RebuildAgent \/ EndRebuild
    PROVE  Screened'
<1>0. /\ TypeOK /\ cur # <<>> /\ phase = "restoring" /\ phase' = "restoring"
      /\ UNCHANGED <<held, todo, dumps, changed, tainted>>
      /\ cur' = cur \/ cur' = <<>>
  <2>1. TypeOK /\ cur # <<>> /\ phase = "restoring"
    BY DEF IInv, Gated, RebuildProc, RebuildAgent, EndRebuild
  <2>2. CASE RebuildProc
    BY <2>1, <2>2 DEF RebuildProc, diskVars, ghostVars
  <2>3. CASE RebuildAgent
    BY <2>1, <2>3 DEF RebuildAgent, ghostVars
  <2>4. CASE EndRebuild
    BY <2>1, <2>4 DEF EndRebuild, ghostVars
  <2> QED BY <2>2, <2>3, <2>4
<1>s. UNCHANGED store
  <2>1. UNCHANGED store \/ \E w, h : Save(w, h)
    BY DEF RebuildProc, RebuildAgent, EndRebuild, diskVars
  <2> QED BY <1>0, <2>1 DEF Save, Frozen
<1> DEFINE z == Len(wss)
           ws == wss[z]
<1>w. z \in DOMAIN wss => /\ ws \in WorkspaceType
                          /\ ws.agents \in Seq(PaneType) /\ ws.procs \in Seq(PaneType)
  BY <1>0, PartsType
<1>1. ASSUME NEW new, wss' = [wss EXCEPT ![z] = new] \/ UNCHANGED wss,
             z \in DOMAIN wss =>
                 /\ new.dir = ws.dir
                 /\ ~ tainted /\ Clean /\ OwnPanes(ws) => OwnPanes(new)
      PROVE  Screened'
  <2>1. /\ DirsApart(wss) => DirsApart(wss')
        /\ OpenDirs(wss') = OpenDirs(wss)
        /\ OwnAll(wss) /\ (z \in DOMAIN wss => (OwnPanes(ws) => OwnPanes(new))) => OwnAll(wss')
    <3> DEFINE v == [wss EXCEPT ![z] = new]
    <3>1. CASE z \in DOMAIN wss /\ wss' = v
      <4>1. /\ OwnAll(wss) /\ (OwnPanes(wss[z]) => OwnPanes(new)) => OwnAll(v)
            /\ DirsApart(wss) => DirsApart(v)
            /\ OpenDirs(v) = OpenDirs(wss)
        BY <1>0, <1>1, <3>1, ReworkKeeps DEF TypeOK
      <4> HIDE DEF v
      <4> QED BY <3>1, <4>1
    <3>2. CASE wss' = wss
      BY <3>2
    <3>3. z \notin DOMAIN wss /\ wss' = v => wss' = wss
      BY <1>0 DEF TypeOK
    <3> QED BY <1>1, <3>1, <3>2, <3>3
  <2>2. ~ tainted /\ Clean =>
            /\ OwnAll(wss') /\ HeldAway(wss', held') /\ ToCome(wss', held', todo')
            /\ Painting(held', dumps) /\ Painting(Entries(todo'), dumps)
            /\ cur' # <<>> => PaintedBy(dumps[cur'[1].dir], cur'[1])
            /\ DirsApart(wss')
    <3> SUFFICES ASSUME ~ tainted, Clean
                 PROVE  /\ OwnAll(wss') /\ HeldAway(wss', held') /\ ToCome(wss', held', todo')
                        /\ Painting(held', dumps) /\ Painting(Entries(todo'), dumps)
                        /\ cur' # <<>> => PaintedBy(dumps[cur'[1].dir], cur'[1])
                        /\ DirsApart(wss')
      OBVIOUS
    <3>1. /\ OwnAll(wss) /\ HeldAway(wss, held) /\ ToCome(wss, held, todo)
          /\ Painting(held, dumps) /\ Painting(Entries(todo), dumps) /\ DirsApart(wss)
          /\ cur # <<>> => PaintedBy(dumps[cur[1].dir], cur[1])
      BY <1>0 DEF Clean
    <3>2. OwnAll(wss') /\ DirsApart(wss')
      BY <1>1, <2>1, <3>1
    <3>3. HeldAway(wss', held) /\ ToCome(wss', held, todo)
      BY <2>1, <3>1 DEF HeldAway, ToCome
    <3> QED BY <1>0, <3>1, <3>2, <3>3
  <2> QED BY <1>0, <1>s, <2>2, ScreenedRestoring
<1>2. CASE RebuildProc
  <2> DEFINE p == cur[1].procs[at + 1]
             pane == Pane(p.kind, p.work, 0, FALSE, DumpAt(dumps[cur[1].dir].procs, at + 1))
             new == [ws EXCEPT !.procs = Append(@, pane)]
  <2>o. Clean => DumpAt(dumps[cur[1].dir].procs, at + 1) \in {0, p.work}
    <3>1. Clean => Painted(dumps[cur[1].dir].procs, cur[1].procs)
      BY <1>0 DEF Clean, PaintedBy
    <3> QED BY <3>1, DumpIsOwn
  <2>1. wss' = [wss EXCEPT ![z] = new] \/ UNCHANGED wss
    BY <1>2 DEF RebuildProc, RebuildLast
  <2>2. ASSUME z \in DOMAIN wss
        PROVE  new.dir = ws.dir /\ new.agents = ws.agents /\ new.procs = Append(ws.procs, pane)
    BY <1>w, <2>2 DEF WorkspaceType
  <2>3. pane.work = p.work /\ pane.screen = DumpAt(dumps[cur[1].dir].procs, at + 1)
    BY DEF Pane
  <2>4. Clean => pane.screen \in {0, pane.work}
    BY <2>3, <2>o
  <2> HIDE DEF pane
  <2>5. ASSUME z \in DOMAIN wss, Clean, OwnPanes(ws) PROVE OwnPanes(new)
    <3>1. OwnRail(Append(ws.procs, pane))
      BY <1>w, <2>4, <2>5, OwnAppended DEF OwnPanes
    <3> HIDE DEF new
    <3> QED BY <2>2, <2>5, <3>1 DEF OwnPanes
  <2> HIDE DEF new
  <2> QED BY <1>1, <2>1, <2>2, <2>5
<1>3. CASE RebuildAgent
  <2> DEFINE i == at + 1 - Len(cur[1].procs)
             a == cur[1].agents[i]
             pane == Pane("agent", a.work, IF a.spoke THEN a.conv ELSE minted + 1,
                          a.spoke, DumpAt(dumps[cur[1].dir].agents, i))
             new == [ws EXCEPT !.agents = Append(@, pane), !.stage = a.work]
  <2>o. Clean => DumpAt(dumps[cur[1].dir].agents, i) \in {0, a.work}
    <3>1. Clean => Painted(dumps[cur[1].dir].agents, cur[1].agents)
      BY <1>0 DEF Clean, PaintedBy
    <3> HIDE DEF i
    <3> QED BY <3>1, DumpIsOwn
  <2>1. wss' = [wss EXCEPT ![z] = new] \/ UNCHANGED wss
    BY <1>3 DEF RebuildAgent, RebuildLast
  <2>2. ASSUME z \in DOMAIN wss
        PROVE  new.dir = ws.dir /\ new.procs = ws.procs /\ new.agents = Append(ws.agents, pane)
    BY <1>w, <2>2 DEF WorkspaceType
  <2>3. pane.work = a.work /\ pane.screen = DumpAt(dumps[cur[1].dir].agents, i)
    BY DEF Pane
  <2>4. Clean => pane.screen \in {0, pane.work}
    BY <2>3, <2>o
  <2> HIDE DEF pane
  <2>5. ASSUME z \in DOMAIN wss, Clean, OwnPanes(ws) PROVE OwnPanes(new)
    <3>1. OwnRail(Append(ws.agents, pane))
      BY <1>w, <2>4, <2>5, OwnAppended DEF OwnPanes
    <3> HIDE DEF new
    <3> QED BY <2>2, <2>5, <3>1 DEF OwnPanes
  <2> HIDE DEF new
  <2> QED BY <1>1, <2>1, <2>2, <2>5
<1>4. CASE EndRebuild
  <2> DEFINE new == [ws EXCEPT !.stage = StagedWork(ws, cur[1])]
  <2>1. wss' = [wss EXCEPT ![z] = new]
    BY <1>4 DEF EndRebuild, RebuildLast
  <2>2. ASSUME z \in DOMAIN wss
        PROVE  new.dir = ws.dir /\ new.procs = ws.procs /\ new.agents = ws.agents
    BY <1>w, <2>2 DEF WorkspaceType
  <2> HIDE DEF new
  <2>3. z \in DOMAIN wss => (OwnPanes(ws) => OwnPanes(new))
    BY <2>2 DEF OwnPanes
  <2> QED BY <1>1, <2>1, <2>2, <2>3
<1> QED BY <1>2, <1>3, <1>4

(* The daemon is up.  When every slot of the file came back where it was,   *)
(* the dumps under it are those of the workspaces that are open.            *)
LEMMA ScreenedDone ==
    ASSUME IInv, Idle', Screened, RestoreDone PROVE Screened'
<1>0. /\ wss \in Seq(WorkspaceType) /\ held \in SUBSET EntryType /\ changed \in BOOLEAN
  BY DEF IInv, TypeOK
<1>1. /\ phase = "restoring" /\ phase' = "up" /\ store' = Persisted(wss, held)
      /\ changed' = (changed \/ Slots(store') # Slots(store))
      /\ UNCHANGED <<wss, held, dumps, tainted>> /\ todo' = EmptyStore /\ cur' = <<>>
  BY DEF RestoreDone, Idle, restoreVars
<1>2. ASSUME Clean, ~ changed' PROVE PaintedAll(dumps, wss)
  <2> SUFFICES ASSUME NEW k \in DOMAIN wss PROVE PaintedBy(dumps[wss[k].dir], wss[k])
    BY DEF PaintedAll
  <2> DEFINE x == Entry(wss[k])
             works(q) == [i \in DOMAIN q |-> q[i].work]
  <2>1. Slots(store') = Slots(store)
    BY <1>1, <1>2
  <2>2. x \in Entries(store') /\ x.dir = wss[k].dir
    BY <1>0, <1>1, EntryHasType DEF Persisted, Entries
  <2> HIDE DEF x
  <2>3. <<x.dir, works(x.agents), works(x.procs)>> \in Slots(store')
    BY <2>2 DEF Slots, Entries
  <2>4. PICK e \in Entries(store) :
            <<x.dir, works(x.agents), works(x.procs)>> = <<e.dir, works(e.agents), works(e.procs)>>
    <3> DEFINE row(f) == <<f.dir, works(f.agents), works(f.procs)>>
    <3>1. Slots(store) = {row(f) : f \in Entries(store)}
      BY DEF Slots, Entries
    <3>2. row(x) \in {row(f) : f \in Entries(store)}
      BY <2>1, <2>3, <3>1
    <3>3. PICK f \in Entries(store) : row(x) = row(f)
      <4> HIDE DEF row
      <4> QED BY <3>2
    <3> HIDE DEF works
    <3> QED BY <3>3
  <2>5. PaintedBy(dumps[e.dir], e)
    BY <1>1, <1>2 DEF Clean, FilePainted, Painting
  <2>6. e.dir = x.dir /\ works(e.agents) = works(x.agents) /\ works(e.procs) = works(x.procs)
    BY <2>4
  <2>7. ASSUME NEW q, NEW r, works(q) = works(r), NEW files, Painted(files, q)
        PROVE  Painted(files, r)
    <3>1. DOMAIN q = DOMAIN r /\ \A i \in DOMAIN q : q[i].work = r[i].work
      <4>1. DOMAIN works(q) = DOMAIN q /\ DOMAIN works(r) = DOMAIN r
        OBVIOUS
      <4>2. /\ \A i \in DOMAIN q : works(q)[i] = q[i].work
            /\ \A i \in DOMAIN r : works(r)[i] = r[i].work
        OBVIOUS
      <4> HIDE DEF works
      <4> QED BY <2>7, <4>1, <4>2
    <3> QED BY <2>7, <3>1 DEF Painted
  <2> HIDE DEF works
  <2>8. PaintedBy(dumps[x.dir], x)
    BY <2>5, <2>6, <2>7 DEF PaintedBy
  <2>9. \A d : PaintedBy(d, wss[k]) <=> PaintedBy(d, x)
    BY <1>0, EntryTells DEF x
  <2> QED BY <2>2, <2>8, <2>9
<1>3. ASSUME Clean, ~ changed' PROVE FilePainted(store', dumps)
  <2>1. DirsApart(wss) /\ HeldAway(wss, held) /\ Painting(held, dumps)
    BY <1>1, <1>3 DEF Clean
  <2> QED BY <1>0, <1>1, <1>2, <1>3, <2>1, WrittenPainted
<1>4. Clean => Clean'
  BY <1>1, <1>2, <1>3, NothingToCome DEF Clean, Active
<1> QED BY <1>1, <1>4 DEF Screened, Active

LEMMA ScreenedNext ==
    ASSUME IInv, Idle, Screened, [Next]_vars PROVE Screened'
<1>0. Idle'
  BY IdleNext
<1>1. CASE UNCHANGED vars
  BY <1>1 DEF vars, Screened, Clean, Active
<1>2. CASE Start
  BY <1>0, <1>2, ScreenedStart
<1>3. CASE Restore
  BY <1>0, <1>3, ScreenedVisit, ScreenedRebuild, ScreenedDone DEF Restore
<1>4. CASE Serve
  BY <1>0, <1>4, ScreenedServe
<1>5. CASE Stop
  BY <1>0, <1>5, ScreenedStop
<1> QED BY <1>1, <1>2, <1>3, <1>4, <1>5 DEF Next

-----------------------------------------------------------------------------
OneSession == IInv /\ Idle /\ Standing /\ Holders /\ Screened

LEMMA OneSessionInit == Init => OneSession
<1> SUFFICES ASSUME Init PROVE OneSession
  OBVIOUS
<1>1. IInv /\ Holders
  BY IInvInit, HoldersInit
<1>2. /\ phase = "down" /\ wss = <<>> /\ held = {} /\ todo = EmptyStore /\ cur = <<>>
      /\ store = EmptyStore /\ dumps = Blank
  BY DEF Init, Blank
<1>3. Idle /\ Standing
  BY <1>2 DEF Idle, Standing, StandingIn
<1>4. FilePainted(EmptyStore, dumps)
  BY EmptyScattered DEF FilePainted, Painting
<1>5. Screened
  BY <1>2, <1>4, NothingToCome DEF Screened, Clean, Active, OwnAll, HeldAway, Painting
<1> QED BY <1>1, <1>3, <1>5 DEF OneSession

LEMMA OneSessionNext == OneSession /\ [Next]_vars => OneSession'
BY IInvNext, IdleNext, StandingNext, HoldersNext, ScreenedNext DEF OneSession

(* What the invariant says of a session is what SessionFits asks.           *)
LEMMA OneSessionFits == OneSession => SessionFits
<1> SUFFICES ASSUME OneSession PROVE SessionFits
  OBVIOUS
<1>0. TypeOK /\ store \in StoreType
  BY DEF OneSession, IInv, TypeOK
<1>1. ScreensAgree
  <2> SUFFICES ASSUME ~ tainted PROVE OwnScreens /\ (~ changed => Agree)
    BY DEF ScreensAgree
  <2>1. Clean
    BY DEF OneSession, Screened
  <2>2. OwnScreens
    BY <2>1 DEF Clean, OwnAll, OwnPanes, OwnRail, OwnScreens
  <2>3. ASSUME ~ changed PROVE Agree
    <3>1. \A e \in Entries(store) : PaintedBy(dumps[e.dir], e)
      BY <2>1, <2>3 DEF Clean, FilePainted, Painting
    <3> QED BY <3>1, DumpIsOwn DEF Agree, PaintedBy
  <2> QED BY <2>2, <2>3
<1>2. StageIsOpen
  BY DEF OneSession, Standing, StandingIn, OnStage, Works, StageIsOpen
<1>3. OneHolder
  <2>1. ASSUME NEW k \in DOMAIN wss, NEW l \in DOMAIN wss,
               NEW i \in DOMAIN wss[k].agents, NEW j \in DOMAIN wss[l].agents,
               wss[k].agents[i].conv = wss[l].agents[j].conv
        PROVE  k = l /\ i = j
    <3>1. k = l
      BY <2>1 DEF OneSession, Holders, OpenApart, Convs
    <3> QED BY <2>1, <3>1 DEF OneSession, Holders, OpenApart, Single
  <2>2. ASSUME NEW d \in Entries(store), NEW e \in Entries(store),
               NEW i \in DOMAIN d.agents, NEW j \in DOMAIN e.agents,
               d.agents[i].conv = e.agents[j].conv
        PROVE  d = e /\ i = j
    <3>1. FileApart(store, minted)
      BY DEF OneSession, Holders
    <3>2. d \in EntryType /\ e \in EntryType
      BY <1>0, EntriesType
    <3>3. d.agents[i].conv \in ConvsOf[d] \cap ConvsOf[e]
      BY <2>2, <3>2 DEF ConvsOf, Convs
    <3>4. d = e
      <4>1. ConvsOf[d] \cap ConvsOf[e] # {}
        BY <3>3
      <4> QED BY <3>1, <4>1 DEF FileApart, Scattered, Entries
    <3> QED BY <2>2, <3>1, <3>4 DEF FileApart, Single
  <2> QED BY <2>1, <2>2 DEF OneHolder
<1> QED BY <1>1, <1>2, <1>3 DEF SessionFits, RailsFit

(* The rails, session.json and the dumps make one session at every moment   *)
(* of the daemon's life, crashes included: every pane shows its own screen, *)
(* every entry is painted by its own dumps, the stage holds a pane that is  *)
(* open, and no two agents hold one conversation.                           *)
THEOREM SessionIsOne == Spec => []SessionFits
BY OneSessionInit, OneSessionNext, OneSessionFits, PTL DEF Spec

-----------------------------------------------------------------------------
(* The workbench.  A workspace is whole when it has a process and every     *)
(* pane of it its own work, none of them still to be drawn.                 *)

Distinct(q) == \A i, j \in DOMAIN q : q[i].work = q[j].work => i = j

AllWorks(x) == Works(x.agents) \cup Works(x.procs)

Whole(x, n) ==
    /\ x.procs # <<>>
    /\ Distinct(x.agents) /\ Distinct(x.procs)
    /\ Works(x.agents) \cap Works(x.procs) = {}
    /\ AllWorks(x) \subseteq 1 .. n

(* ws became new by one pane more, one fewer, or none, while the ids        *)
(* between m and n were drawn.                                              *)
Touches(ws, new, m, n) ==
    /\ new.dir = ws.dir
    /\ Whole(ws, m) => Whole(new, n)
    /\ \E x : /\ AllWorks(ws) \subseteq AllWorks(new) \cup {x}
              /\ AllWorks(new) \subseteq AllWorks(ws) \cup {x}

LEMMA RailShrinks ==
    ASSUME NEW q \in Seq(PaneType), NEW i \in DOMAIN q
    PROVE  /\ Works(RemoveAt(q, i)) \subseteq Works(q)
           /\ Works(q) \subseteq Works(RemoveAt(q, i)) \cup {q[i].work}
           /\ Distinct(q) => Distinct(RemoveAt(q, i)) /\ q[i].work \notin Works(RemoveAt(q, i))
           /\ Len(q) # 1 => RemoveAt(q, i) # <<>>
<1> DEFINE r == RemoveAt(q, i)
<1>1. PICK f \in [DOMAIN r -> DOMAIN q] :
          /\ \A j, l \in DOMAIN r : f[j] = f[l] => j = l
          /\ \A j \in DOMAIN r : r[j] = q[f[j]]
          /\ \A l \in DOMAIN q : l # i => \E j \in DOMAIN r : f[j] = l
          /\ \A j \in DOMAIN r : f[j] # i
  BY RailWithout
<1> HIDE DEF r
<1>2. Works(r) \subseteq Works(q)
  BY <1>1 DEF Works
<1>3. Works(q) \subseteq Works(r) \cup {q[i].work}
  BY <1>1 DEF Works
<1>4. Distinct(q) => Distinct(r)
  BY <1>1 DEF Distinct
<1>5. ASSUME Distinct(q) PROVE q[i].work \notin Works(r)
  <2>1. \A j \in DOMAIN r : q[f[j]].work # q[i].work
    BY <1>1, <1>5 DEF Distinct
  <2> QED BY <1>1, <2>1 DEF Works
<1>6. ASSUME Len(q) # 1 PROVE r # <<>>
  <2>1. PICK l \in DOMAIN q : l # i
    <3>1. /\ Len(q) \in Nat /\ i \in 1 .. Len(q) /\ DOMAIN q = 1 .. Len(q)
      OBVIOUS
    <3>2. CASE i = 1
      <4>1. 2 \in DOMAIN q /\ 2 # i
        BY <1>6, <3>1, <3>2
      <4> QED BY <4>1
    <3>3. CASE i # 1
      <4>1. 1 \in DOMAIN q
        BY <3>1
      <4> QED BY <3>3, <4>1
    <3> QED BY <3>2, <3>3
  <2>2. DOMAIN r # {}
    BY <1>1, <2>1
  <2> QED BY <2>2
<1> QED BY <1>2, <1>3, <1>4, <1>5, <1>6 DEF r

LEMMA RailGrows ==
    ASSUME NEW q \in Seq(PaneType), NEW p \in PaneType
    PROVE  /\ Works(Append(q, p)) = Works(q) \cup {p.work}
           /\ Distinct(q) /\ p.work \notin Works(q) => Distinct(Append(q, p))
           /\ Append(q, p) # <<>>
<1> DEFINE r == Append(q, p)
           n == Len(q) + 1
<1>1. /\ DOMAIN r = DOMAIN q \cup {n} /\ n \notin DOMAIN q
      /\ r[n] = p /\ \A i \in DOMAIN q : r[i] = q[i]
  BY AppendProperties
<1>2. r # <<>> /\ Works(r) = Works(q) \cup {p.work}
  BY RailAppended, AppendProperties
<1> HIDE DEF r, n
<1>3. ASSUME Distinct(q), p.work \notin Works(q) PROVE Distinct(r)
  <2>1. \A i \in DOMAIN q : q[i].work # p.work
    BY <1>3 DEF Works
  <2> QED BY <1>1, <1>3, <2>1 DEF Distinct
<1> QED BY <1>2, <1>3 DEF r

LEMMA RailStays ==
    ASSUME NEW q \in Seq(PaneType), NEW i \in DOMAIN q, NEW p \in PaneType,
           p.work = q[i].work
    PROVE  /\ Works([q EXCEPT ![i] = p]) = Works(q)
           /\ Distinct(q) => Distinct([q EXCEPT ![i] = p])
           /\ [q EXCEPT ![i] = p] # <<>>
<1> DEFINE r == [q EXCEPT ![i] = p]
<1>1. DOMAIN r = DOMAIN q /\ \A j \in DOMAIN q : r[j].work = q[j].work
  OBVIOUS
<1>2. Works(r) = Works(q) /\ r # <<>>
  BY <1>1, RailReplaced
<1> HIDE DEF r
<1>3. Distinct(q) => Distinct(r)
  BY <1>1 DEF Distinct
<1> QED BY <1>2, <1>3 DEF r

LEMMA RestageRails ==
    ASSUME NEW ws \in WorkspaceType, NEW gone
    PROVE  /\ Restage(ws, gone).agents = ws.agents /\ Restage(ws, gone).procs = ws.procs
           /\ Restage(ws, gone).dir = ws.dir
BY DEF Restage, WorkspaceType

(* What is dropped from the rails, and what stays.                          *)
LEMMA ForgetAgentRails ==
    ASSUME NEW ws \in WorkspaceType, NEW i \in DOMAIN ws.agents
    PROVE  LET new == ForgetAgent(ws, i)
           IN  /\ new.dir = ws.dir /\ new.procs = ws.procs
               /\ new.agents = RemoveAt(ws.agents, i)
<1> DEFINE w == [ws EXCEPT !.agents = RemoveAt(@, i)]
<1>1. w \in WorkspaceType /\ w.dir = ws.dir
      /\ w.agents = RemoveAt(ws.agents, i) /\ w.procs = ws.procs
  BY RemoveAtType DEF WorkspaceType
<1> HIDE DEF w
<1>2. \A gone : /\ Restage(w, gone).agents = w.agents /\ Restage(w, gone).procs = w.procs
                /\ Restage(w, gone).dir = w.dir
  BY <1>1, RestageRails
<1> QED BY <1>1, <1>2 DEF ForgetAgent, w

LEMMA ForgetProcRails ==
    ASSUME NEW ws \in WorkspaceType, NEW i \in DOMAIN ws.procs
    PROVE  LET new == ForgetProc(ws, i)
           IN  /\ new.dir = ws.dir /\ new.agents = ws.agents
               /\ new.procs = RemoveAt(ws.procs, i)
<1> DEFINE w == [ws EXCEPT !.procs = RemoveAt(@, i)]
<1>1. w \in WorkspaceType /\ w.dir = ws.dir
      /\ w.procs = RemoveAt(ws.procs, i) /\ w.agents = ws.agents
  BY RemoveAtType DEF WorkspaceType
<1> HIDE DEF w
<1>2. \A gone : /\ Restage(w, gone).agents = w.agents /\ Restage(w, gone).procs = w.procs
                /\ Restage(w, gone).dir = w.dir
  BY <1>1, RestageRails
<1> QED BY <1>1, <1>2 DEF ForgetProc, w

LEMMA WholeGrows ==
    ASSUME NEW m \in Nat, NEW n \in Nat, m <= n
    PROVE  \A x : Whole(x, m) => Whole(x, n)
<1>1. 1 .. m \subseteq 1 .. n
  OBVIOUS
<1> QED BY <1>1 DEF Whole

(* A rail of a whole workspace may change, if it stays apart from the other.*)
LEMMA AgentsTouched ==
    ASSUME NEW ws, NEW new, new.dir = ws.dir, new.procs = ws.procs,
           NEW x, NEW m \in Nat, NEW n \in Nat, m <= n,
           Works(ws.agents) \subseteq Works(new.agents) \cup {x},
           Works(new.agents) \subseteq Works(ws.agents) \cup {x},
           Whole(ws, m) => /\ Distinct(new.agents)
                           /\ \/ Works(new.agents) \subseteq Works(ws.agents)
                              \/ x = m + 1 /\ n = m + 1
    PROVE  Touches(ws, new, m, n)
<1>1. /\ AllWorks(ws) \subseteq AllWorks(new) \cup {x}
      /\ AllWorks(new) \subseteq AllWorks(ws) \cup {x}
  BY DEF AllWorks
<1>2. ASSUME Whole(ws, m) PROVE Whole(new, n)
  <2>1. 1 .. m \subseteq 1 .. n /\ m + 1 \notin 1 .. m
    OBVIOUS
  <2>2. AllWorks(ws) \subseteq 1 .. m
    BY <1>2 DEF Whole
  <2>3. CASE Works(new.agents) \subseteq Works(ws.agents)
    <3>1. AllWorks(new) \subseteq 1 .. n
      BY <2>1, <2>2, <2>3 DEF AllWorks
    <3> QED BY <1>2, <2>3, <3>1 DEF Whole
  <2>4. CASE x = m + 1 /\ n = m + 1
    <3>1. x \notin AllWorks(ws) /\ x \in 1 .. n
      BY <2>1, <2>2, <2>4
    <3>2. AllWorks(new) \subseteq 1 .. n
      BY <1>1, <2>1, <2>2, <3>1
    <3>3. x \notin Works(ws.procs)
      BY <3>1 DEF AllWorks
    <3> QED BY <1>2, <3>2, <3>3 DEF Whole
  <2> QED BY <1>2, <2>3, <2>4
<1> QED BY <1>1, <1>2 DEF Touches

LEMMA ProcsTouched ==
    ASSUME NEW ws, NEW new, new.dir = ws.dir, new.agents = ws.agents,
           NEW x, NEW m \in Nat, NEW n \in Nat, m <= n,
           Works(ws.procs) \subseteq Works(new.procs) \cup {x},
           Works(new.procs) \subseteq Works(ws.procs) \cup {x},
           new.procs # <<>>,
           Whole(ws, m) => /\ Distinct(new.procs)
                           /\ \/ Works(new.procs) \subseteq Works(ws.procs)
                              \/ x = m + 1 /\ n = m + 1
    PROVE  Touches(ws, new, m, n)
<1>1. /\ AllWorks(ws) \subseteq AllWorks(new) \cup {x}
      /\ AllWorks(new) \subseteq AllWorks(ws) \cup {x}
  BY DEF AllWorks
<1>2. ASSUME Whole(ws, m) PROVE Whole(new, n)
  <2>1. 1 .. m \subseteq 1 .. n /\ m + 1 \notin 1 .. m
    OBVIOUS
  <2>2. AllWorks(ws) \subseteq 1 .. m
    BY <1>2 DEF Whole
  <2>3. CASE Works(new.procs) \subseteq Works(ws.procs)
    <3>1. AllWorks(new) \subseteq 1 .. n
      BY <2>1, <2>2, <2>3 DEF AllWorks
    <3> QED BY <1>2, <2>3, <3>1 DEF Whole
  <2>4. CASE x = m + 1 /\ n = m + 1
    <3>1. x \notin AllWorks(ws) /\ x \in 1 .. n
      BY <2>1, <2>2, <2>4
    <3>2. AllWorks(new) \subseteq 1 .. n
      BY <1>1, <2>1, <2>2, <3>1
    <3>3. x \notin Works(ws.agents)
      BY <3>1 DEF AllWorks
    <3> QED BY <1>2, <3>2, <3>3 DEF Whole
  <2> QED BY <1>2, <2>3, <2>4
<1> QED BY <1>1, <1>2 DEF Touches

(* A step of the serving daemon that touches one workspace.                 *)
Touching(k, new) ==
    /\ Rework(k, new)
    /\ Touches(wss[k], new, minted, minted')
    /\ minted' \in {minted, minted + 1}
    /\ UNCHANGED held
    /\ Save(wss', held) \/ UNCHANGED store

Touched(k) == \E new \in WorkspaceType : Touching(k, new)

LEMMA DropsTouch ==
    ASSUME TypeOK, Faults = {}, NEW k \in DOMAIN wss
    PROVE  /\ \A i \in DOMAIN wss[k].agents : DropAgent(k, i) => Touched(k)
           /\ \A i \in DOMAIN wss[k].procs : DropProc(k, i) => Touched(k)
<1>0. /\ wss[k] \in WorkspaceType /\ minted \in Nat /\ minted <= minted
      /\ wss[k].agents \in Seq(PaneType) /\ wss[k].procs \in Seq(PaneType)
  <2>1. minted \in Nat
    BY DEF TypeOK
  <2> QED BY <2>1, PartsType
<1>1. ASSUME NEW i \in DOMAIN wss[k].agents, DropAgent(k, i) PROVE Touched(k)
  <2> DEFINE new == ForgetAgent(wss[k], i)
             x == wss[k].agents[i].work
  <2>1. new \in WorkspaceType
    BY <1>0, ForgetAgentType
  <2>2. /\ new.dir = wss[k].dir /\ new.procs = wss[k].procs
        /\ new.agents = RemoveAt(wss[k].agents, i)
    BY <1>0, ForgetAgentRails
  <2>3. Rework(k, new) /\ Save(wss', held) /\ UNCHANGED <<held, minted>>
    BY <1>1 DEF DropAgent
  <2> HIDE DEF new
  <2>4. /\ Works(new.agents) \subseteq Works(wss[k].agents)
        /\ Works(wss[k].agents) \subseteq Works(new.agents) \cup {x}
        /\ Distinct(wss[k].agents) => Distinct(new.agents)
    BY <1>0, <2>2, RailShrinks
  <2> HIDE DEF x
  <2>5. Whole(wss[k], minted) => Distinct(new.agents)
    BY <2>4 DEF Whole
  <2>6. Touches(wss[k], new, minted, minted)
    <3>1. Works(new.agents) \subseteq Works(wss[k].agents) \cup {x}
      BY <2>4
    <3> QED BY <1>0, <2>2, <2>4, <2>5, <3>1, AgentsTouched
  <2> QED BY <2>1, <2>3, <2>6 DEF Touched, Touching
<1>2. ASSUME NEW i \in DOMAIN wss[k].procs, DropProc(k, i) PROVE Touched(k)
  <2> DEFINE new == ForgetProc(wss[k], i)
             x == wss[k].procs[i].work
  <2>1. new \in WorkspaceType
    BY <1>0, ForgetProcType
  <2>2. /\ new.dir = wss[k].dir /\ new.agents = wss[k].agents
        /\ new.procs = RemoveAt(wss[k].procs, i)
    BY <1>0, ForgetProcRails
  <2>3. /\ Rework(k, new) /\ Save(wss', held) /\ UNCHANGED <<held, minted>>
        /\ Len(wss[k].procs) # 1
    BY <1>2 DEF DropProc
  <2> HIDE DEF new
  <2>4. /\ Works(new.procs) \subseteq Works(wss[k].procs)
        /\ Works(wss[k].procs) \subseteq Works(new.procs) \cup {x}
        /\ Distinct(wss[k].procs) => Distinct(new.procs)
        /\ new.procs # <<>>
    BY <1>0, <2>2, <2>3, RailShrinks
  <2> HIDE DEF x
  <2>5. Whole(wss[k], minted) => Distinct(new.procs)
    BY <2>4 DEF Whole
  <2>6. Touches(wss[k], new, minted, minted)
    <3>1. Works(new.procs) \subseteq Works(wss[k].procs) \cup {x}
      BY <2>4
    <3> QED BY <1>0, <2>2, <2>4, <2>5, <3>1, ProcsTouched
  <2> QED BY <2>1, <2>3, <2>6 DEF Touched, Touching
<1> QED BY <1>1, <1>2

LEMMA AgentStepTouches ==
    ASSUME TypeOK, Faults = {}, NEW k \in DOMAIN wss, NEW i \in DOMAIN wss[k].agents,
           AgentStep(k, i)
    PROVE  Touched(k)
<1> DEFINE ws == wss[k]
           p == ws.agents[i]
           Put(q, stage) == [ws EXCEPT !.agents[i] = q, !.stage = stage]
<1>0. /\ ws \in WorkspaceType /\ ws.stage \in Nat /\ ws.agents \in Seq(PaneType)
      /\ p \in PaneType /\ p.work \in Nat /\ p.screen \in Nat /\ minted \in Nat
  <2>1. minted \in Nat
    BY DEF TypeOK
  <2> QED BY <2>1, PartsType, PanesType
<1>t. ASSUME NEW q \in PaneType, q.work = p.work, NEW stage \in Nat,
             NEW n \in {minted, minted + 1}
      PROVE  Put(q, stage) \in WorkspaceType /\ Touches(ws, Put(q, stage), minted, n)
  <2> DEFINE new == Put(q, stage)
  <2>1. new \in WorkspaceType
    BY <1>0, <1>t, SetPaneType
  <2>2. /\ new.dir = ws.dir /\ new.procs = ws.procs
        /\ new.agents = [ws.agents EXCEPT ![i] = q]
    BY <1>0 DEF WorkspaceType
  <2> HIDE DEF new
  <2>3. /\ Works(new.agents) = Works(ws.agents)
        /\ Distinct(ws.agents) => Distinct(new.agents)
    BY <1>0, <1>t, <2>2, RailStays
  <2>4. n \in Nat /\ minted <= n
    BY <1>0
  <2>5. Whole(ws, minted) => Distinct(new.agents)
    BY <2>3 DEF Whole
  <2>6. Touches(ws, new, minted, n)
    <3>1. /\ Works(new.agents) \subseteq Works(ws.agents)
          /\ Works(new.agents) \subseteq Works(ws.agents) \cup {0}
          /\ Works(ws.agents) \subseteq Works(new.agents) \cup {0}
      BY <2>3
    <3> QED BY <1>0, <2>2, <2>4, <2>5, <3>1, AgentsTouched
  <2> QED BY <2>1, <2>6 DEF new
<1>1. ASSUME NEW q \in PaneType, q.work = p.work,
             Rework(k, [ws EXCEPT !.agents[i] = q]),
             Save(wss', held) \/ UNCHANGED store,
             UNCHANGED <<held, minted>>
      PROVE  Touched(k)
  <2> DEFINE new == Put(q, ws.stage)
  <2>1. new = [ws EXCEPT !.agents[i] = q]
    BY <1>0 DEF WorkspaceType
  <2>2. new \in WorkspaceType /\ Touches(ws, new, minted, minted)
    BY <1>0, <1>1, <1>t
  <2> HIDE DEF new, p
  <2> QED BY <1>1, <2>1, <2>2 DEF Touched, Touching
<1>2. CASE DropAgent(k, i) \/ AgentExitsClean(k, i)
  BY <1>2, DropsTouch DEF AgentExitsClean
<1>3. CASE Speak(k, i)
  <2> DEFINE q == [p EXCEPT !.spoke = TRUE]
  <2>1. q \in PaneType /\ q.work = p.work
    BY <1>0 DEF PaneType
  <2>2. Rework(k, [ws EXCEPT !.agents[i] = q]) /\ Save(wss', held)
        /\ UNCHANGED <<held, minted>>
    BY <1>3 DEF Speak
  <2> HIDE DEF q
  <2> QED BY <1>1, <2>1, <2>2
<1>4. CASE AgentOutput(k, i)
  <2> DEFINE q == [p EXCEPT !.screen = p.work]
  <2>1. q \in PaneType /\ q.work = p.work
    BY <1>0 DEF PaneType
  <2>2. Rework(k, [ws EXCEPT !.agents[i] = q]) /\ UNCHANGED <<held, minted, store>>
    BY <1>4 DEF AgentOutput
  <2> HIDE DEF q
  <2> QED BY <1>1, <2>1, <2>2
<1>5. CASE AgentFails(k, i)
  <2> DEFINE q == [p EXCEPT !.dead = TRUE, !.armed = FALSE]
  <2>1. q \in PaneType /\ q.work = p.work
    BY <1>0 DEF PaneType
  <2>2. Rework(k, [ws EXCEPT !.agents[i] = q]) /\ UNCHANGED <<held, minted, store>>
    BY <1>5 DEF AgentFails
  <2> HIDE DEF q
  <2> QED BY <1>1, <2>1, <2>2
<1>6. CASE RetryResume(k, i)
  <2> DEFINE q == Pane("agent", p.work, minted + 1, FALSE, p.screen)
             stage == IF ws.stage = 0 THEN p.work ELSE ws.stage
             new == Put(q, stage)
  <2>1. q \in PaneType /\ q.work = p.work
    <3>1. minted + 1 \in Nat
      BY <1>0
    <3>2. q \in PaneType
      BY <1>0, <3>1, PaneHasType
    <3> QED BY <3>2 DEF Pane
  <2>2. stage \in Nat
    BY <1>0
  <2>3. Rework(k, new) /\ minted' = minted + 1 /\ Save(wss', held) /\ UNCHANGED held
    BY <1>6 DEF RetryResume
  <2> HIDE DEF q, stage
  <2>4. new \in WorkspaceType /\ Touches(ws, new, minted, minted + 1)
    BY <2>1, <2>2, <1>t
  <2> HIDE DEF new
  <2> QED BY <2>3, <2>4 DEF Touched, Touching
<1> QED BY <1>2, <1>3, <1>4, <1>5, <1>6 DEF AgentStep

LEMMA ProcStepTouches ==
    ASSUME TypeOK, Faults = {}, NEW k \in DOMAIN wss, NEW i \in DOMAIN wss[k].procs,
           ProcStep(k, i)
    PROVE  Touched(k) \/ KillWorkspace(k)
<1> DEFINE ws == wss[k]
           p == ws.procs[i]
<1>0. /\ ws \in WorkspaceType /\ ws.stage \in Nat /\ ws.procs \in Seq(PaneType)
      /\ p \in PaneType /\ p.work \in Nat /\ p.kind \in {"agent", "shell", "cmd"}
      /\ minted \in Nat /\ minted <= minted
  <2>1. minted \in Nat
    BY DEF TypeOK
  <2> QED BY <2>1, PartsType, PanesType
<1>1. ASSUME NEW q \in PaneType, q.work = p.work,
             Rework(k, [ws EXCEPT !.procs[i] = q]),
             UNCHANGED <<held, store, minted>>
      PROVE  Touched(k)
  <2> DEFINE new == [ws EXCEPT !.procs[i] = q]
  <2>1. new \in WorkspaceType
    BY <1>0, SetPaneType
  <2>2. /\ new.dir = ws.dir /\ new.agents = ws.agents
        /\ new.procs = [ws.procs EXCEPT ![i] = q]
    BY <1>0 DEF WorkspaceType
  <2>3. Rework(k, new)
    BY <1>1
  <2> HIDE DEF new
  <2>4. /\ Works(new.procs) = Works(ws.procs)
        /\ Distinct(ws.procs) => Distinct(new.procs)
        /\ new.procs # <<>>
    BY <1>0, <1>1, <2>2, RailStays
  <2>5. Whole(ws, minted) => Distinct(new.procs)
    BY <2>4 DEF Whole
  <2>6. Touches(ws, new, minted, minted)
    <3>1. /\ Works(new.procs) \subseteq Works(ws.procs)
          /\ Works(new.procs) \subseteq Works(ws.procs) \cup {0}
          /\ Works(ws.procs) \subseteq Works(new.procs) \cup {0}
      BY <2>4
    <3> QED BY <1>0, <2>2, <2>4, <2>5, <3>1, ProcsTouched
  <2> HIDE DEF p
  <2> QED BY <1>1, <2>1, <2>3, <2>6 DEF Touched, Touching
<1>2. CASE DropProc(k, i)
  BY <1>2, DropsTouch
<1>3. CASE RestartProcess(k, i)
  <2> DEFINE without == ForgetProc(ws, i)
             q == FreshProc(p.kind, p.work)
             new == [without EXCEPT !.procs = Append(@, q)]
  <2>1. /\ without \in WorkspaceType /\ without.procs \in Seq(PaneType)
        /\ without.dir = ws.dir /\ without.agents = ws.agents
        /\ without.procs = RemoveAt(ws.procs, i)
    BY <1>0, ForgetProcType, ForgetProcRails DEF WorkspaceType
  <2>2. q \in PaneType /\ q.work = p.work
    <3>1. q \in PaneType
      BY <1>0, PaneHasType DEF FreshProc
    <3> QED BY <3>1 DEF FreshProc, Pane
  <2>3. Rework(k, new) /\ UNCHANGED <<held, minted, store>>
    BY <1>3 DEF RestartProcess
  <2> HIDE DEF without, q
  <2>4. new \in WorkspaceType
    BY <2>1, <2>2, AppendProcType, 0 \in Nat
  <2>5. /\ new.dir = ws.dir /\ new.agents = ws.agents
        /\ new.procs = Append(without.procs, q)
    BY <2>1 DEF WorkspaceType
  <2> HIDE DEF new
  <2>6. /\ Works(without.procs) \subseteq Works(ws.procs)
        /\ Works(ws.procs) \subseteq Works(without.procs) \cup {p.work}
        /\ Distinct(ws.procs) => Distinct(without.procs) /\ p.work \notin Works(without.procs)
        /\ p.work \in Works(ws.procs)
    <3>1. p.work \in Works(ws.procs)
      BY DEF Works
    <3> QED BY <1>0, <2>1, <3>1, RailShrinks
  <2>7. /\ Works(new.procs) = Works(without.procs) \cup {p.work}
        /\ Distinct(without.procs) /\ p.work \notin Works(without.procs) => Distinct(new.procs)
        /\ new.procs # <<>>
    BY <2>1, <2>2, <2>5, RailGrows
  <2>8. Works(new.procs) = Works(ws.procs)
    BY <2>6, <2>7
  <2>9. Whole(ws, minted) => Distinct(new.procs)
    BY <2>6, <2>7 DEF Whole
  <2>10. Touches(ws, new, minted, minted)
    <3>1. /\ Works(new.procs) \subseteq Works(ws.procs)
          /\ Works(new.procs) \subseteq Works(ws.procs) \cup {0}
          /\ Works(ws.procs) \subseteq Works(new.procs) \cup {0}
      BY <2>8
    <3> QED BY <1>0, <2>5, <2>7, <2>9, <3>1, ProcsTouched
  <2> QED BY <2>3, <2>4, <2>10 DEF Touched, Touching
<1>4. CASE ProcOutput(k, i)
  <2> DEFINE q == [p EXCEPT !.screen = p.work]
  <2>1. q \in PaneType /\ q.work = p.work
    BY <1>0 DEF PaneType
  <2>2. Rework(k, [ws EXCEPT !.procs[i] = q]) /\ UNCHANGED <<held, minted, store>>
    BY <1>4 DEF ProcOutput
  <2> HIDE DEF q
  <2> QED BY <1>1, <2>1, <2>2
<1>5. CASE ShellExits(k, i)
  BY <1>5, DropsTouch DEF ShellExits
<1>6. CASE CommandExits(k, i)
  <2> DEFINE q == [p EXCEPT !.dead = TRUE]
  <2>1. q \in PaneType /\ q.work = p.work
    BY <1>0 DEF PaneType
  <2>2. \/ DropProc(k, i)
        \/ Rework(k, [ws EXCEPT !.procs[i] = q]) /\ UNCHANGED <<held, minted, store>>
    BY <1>6 DEF CommandExits
  <2> HIDE DEF q
  <2> QED BY <1>1, <2>1, <2>2, DropsTouch
<1> QED BY <1>2, <1>3, <1>4, <1>5, <1>6 DEF ProcStep

LEMMA ServeTouches ==
    ASSUME TypeOK, Faults = {}, Serve
    PROVE  \/ \E d \in Dirs : \E up \in Launches(d) :
                  OpenWorkspace(d, up) /\ d \notin OpenDirs(wss)
           \/ \E k \in DOMAIN wss : KillWorkspace(k) \/ Touched(k)
<1>0. minted \in Nat /\ minted + 1 \in Nat /\ minted <= minted + 1
  BY DEF TypeOK
<1>1. ASSUME NEW k \in DOMAIN wss, NEW background \in BOOLEAN,
             SpawnAgent(k, background)
      PROVE  Touched(k)
  <2> DEFINE q == FreshAgent(minted + 1)
             stage == IF background THEN wss[k].stage ELSE minted + 1
             new == [wss[k] EXCEPT !.agents = Append(@, q), !.stage = stage]
  <2>1. /\ Rework(k, new) /\ minted' = minted + 1 /\ Save(wss', held)
        /\ UNCHANGED held
    BY <1>1 DEF SpawnAgent
  <2>2. q \in PaneType /\ q.work = minted + 1
    <3>1. q \in PaneType
      BY <1>0, FreshPanes
    <3> QED BY <3>1 DEF FreshAgent, Pane
  <2>3. wss[k] \in WorkspaceType /\ stage \in Nat /\ wss[k].agents \in Seq(PaneType)
    BY <1>0, PartsType
  <2> HIDE DEF q, stage
  <2>4. new \in WorkspaceType
    BY <2>2, <2>3, AppendAgentType
  <2>5. /\ new.dir = wss[k].dir /\ new.procs = wss[k].procs
        /\ new.agents = Append(wss[k].agents, q)
    BY <2>3 DEF WorkspaceType
  <2> HIDE DEF new
  <2>6. /\ Works(new.agents) = Works(wss[k].agents) \cup {minted + 1}
        /\ Distinct(wss[k].agents) /\ minted + 1 \notin Works(wss[k].agents)
               => Distinct(new.agents)
    BY <2>2, <2>3, <2>5, RailGrows
  <2>7. Whole(wss[k], minted) => Distinct(new.agents)
    <3>1. minted + 1 \notin 1 .. minted
      BY <1>0
    <3> QED BY <2>6, <3>1 DEF Whole, AllWorks
  <2>8. Touches(wss[k], new, minted, minted + 1)
    <3>1. /\ Works(new.agents) \subseteq Works(wss[k].agents) \cup {minted + 1}
          /\ Works(wss[k].agents) \subseteq Works(new.agents) \cup {minted + 1}
      BY <2>6
    <3> QED BY <1>0, <2>5, <2>7, <3>1, AgentsTouched
  <2> QED BY <2>1, <2>4, <2>8 DEF Touched, Touching
<1>2. ASSUME NEW k \in DOMAIN wss, NewProcess(k)
      PROVE  Touched(k)
  <2> DEFINE q == FreshProc("cmd", minted + 1)
             new == [wss[k] EXCEPT !.procs = Append(@, q), !.stage = minted + 1]
  <2>1. /\ Rework(k, new) /\ minted' = minted + 1
        /\ UNCHANGED <<held, store>>
    BY <1>2 DEF NewProcess
  <2>2. q \in PaneType /\ q.work = minted + 1
    <3>1. q \in PaneType
      BY <1>0, FreshPanes
    <3> QED BY <3>1 DEF FreshProc, Pane
  <2>3. wss[k] \in WorkspaceType /\ wss[k].procs \in Seq(PaneType)
    BY PartsType
  <2> HIDE DEF q
  <2>4. new \in WorkspaceType
    BY <1>0, <2>2, <2>3, AppendProcType
  <2>5. /\ new.dir = wss[k].dir /\ new.agents = wss[k].agents
        /\ new.procs = Append(wss[k].procs, q)
    BY <2>3 DEF WorkspaceType
  <2> HIDE DEF new
  <2>6. /\ Works(new.procs) = Works(wss[k].procs) \cup {minted + 1}
        /\ Distinct(wss[k].procs) /\ minted + 1 \notin Works(wss[k].procs)
               => Distinct(new.procs)
        /\ new.procs # <<>>
    BY <2>2, <2>3, <2>5, RailGrows
  <2>7. Whole(wss[k], minted) => Distinct(new.procs)
    <3>1. minted + 1 \notin 1 .. minted
      BY <1>0
    <3> QED BY <2>6, <3>1 DEF Whole, AllWorks
  <2>8. Touches(wss[k], new, minted, minted + 1)
    <3>1. /\ Works(new.procs) \subseteq Works(wss[k].procs) \cup {minted + 1}
          /\ Works(wss[k].procs) \subseteq Works(new.procs) \cup {minted + 1}
      BY <2>6
    <3> QED BY <1>0, <2>5, <2>6, <2>7, <3>1, ProcsTouched
  <2> QED BY <2>1, <2>4, <2>8 DEF Touched, Touching
<1>3. \A d \in Dirs : \A up \in Launches(d) :
          OpenWorkspace(d, up) => d \notin OpenDirs(wss)
  BY DEF OpenWorkspace
<1> QED BY <1>1, <1>2, <1>3, AgentStepTouches, ProcStepTouches DEF Serve

-----------------------------------------------------------------------------
(* What a file says of a directory.                                         *)

LEMMA OneEntry ==
    ASSUME NEW s \in StoreType, Scattered(s, DirOf),
           NEW d \in Entries(s), NEW e \in Entries(s), d.dir = e.dir
    PROVE  d = e
<1>1. \A x \in Entries(s) : DirOf[x] = {x.dir}
  BY EntriesType DEF DirOf
<1>2. DirOf[d] \cap DirOf[e] # {}
  BY <1>1
<1> QED BY <1>2 DEF Scattered, Entries

LEMMA BenchOfEntry ==
    ASSUME NEW s \in StoreType, Scattered(s, DirOf), NEW e \in Entries(s)
    PROVE  e.dir \in Dirs /\ BenchOf(s)[e.dir] = RosterOf(e, e \in s.held)
<1>1. e.dir \in Dirs
  BY EntriesType DEF EntryType
<1>2. {x \in Entries(s) : x.dir = e.dir} = {e}
  BY OneEntry
<1>3. (CHOOSE x \in {e} : TRUE) = e
  OBVIOUS
<1> QED BY <1>1, <1>2, <1>3 DEF BenchOf

LEMMA BenchOfNone ==
    ASSUME NEW s, NEW d \in Dirs, \A e \in Entries(s) : e.dir # d
    PROVE  BenchOf(s)[d] = Closed
<1>1. {e \in Entries(s) : e.dir = d} = {}
  OBVIOUS
<1> QED BY <1>1 DEF BenchOf

LEMMA AwayOf == \A e, a : RosterOf(e, a).away = a
BY DEF RosterOf

LEMMA WrittenOnce ==
    ASSUME NEW w \in Seq(WorkspaceType), NEW h \in SUBSET EntryType,
           DirsApart(w), HeldAway(w, h)
    PROVE  /\ Persisted(w, h) \in StoreType /\ Scattered(Persisted(w, h), DirOf)
           /\ Persisted(w, h).held = h
           /\ Entries(Persisted(w, h)) = {Entry(w[k]) : k \in DOMAIN w} \cup h
<1>1. \A k \in DOMAIN w : DirOf[Entry(w[k])] = {w[k].dir} /\ Entry(w[k]).dir = w[k].dir
  BY EntryTells, EntryHasType
<1>2. \A e \in h : DirOf[e] = {e.dir}
  BY DEF DirOf
<1>3. Scattered(Persisted(w, h), DirOf)
  <2>1. \A k, l \in DOMAIN w : k # l => DirOf[Entry(w[k])] \cap DirOf[Entry(w[l])] = {}
    BY <1>1 DEF DirsApart
  <2>2. \A k \in DOMAIN w, e \in h :
            e.dir \notin OpenDirs(w) => DirOf[Entry(w[k])] \cap DirOf[e] = {}
    BY <1>1, <1>2 DEF OpenDirs
  <2>3. \A d, e \in h : d # e => DirOf[d] \cap DirOf[e] = {}
    BY <1>2 DEF HeldAway
  <2> QED BY <2>1, <2>2, <2>3, PersistedScattered
<1>4. Persisted(w, h).held = h
  BY DEF Persisted, HeldAway
<1>5. /\ DOMAIN Persisted(w, h).live = DOMAIN w
      /\ \A k \in DOMAIN w : Persisted(w, h).live[k] = Entry(w[k])
  BY DEF Persisted
<1>6. Entries(Persisted(w, h)) = {Entry(w[k]) : k \in DOMAIN w} \cup h
  BY <1>4, <1>5 DEF Entries
<1> QED BY <1>3, <1>4, <1>6, PersistedType

(* A directory that is open, held, or neither.                              *)
LEMMA BenchOpen ==
    ASSUME NEW w \in Seq(WorkspaceType), NEW h \in SUBSET EntryType,
           DirsApart(w), HeldAway(w, h), NEW k \in DOMAIN w
    PROVE  BenchOf(Persisted(w, h))[w[k].dir] = RosterOf(Entry(w[k]), FALSE)
<1> DEFINE s == Persisted(w, h)
<1>1. /\ s \in StoreType /\ Scattered(s, DirOf) /\ s.held = h
      /\ Entry(w[k]) \in Entries(s)
  BY WrittenOnce
<1>2. Entry(w[k]).dir = w[k].dir
  BY EntryHasType
<1>3. Entry(w[k]) \notin h
  BY <1>2 DEF HeldAway, OpenDirs
<1> HIDE DEF s
<1>4. BenchOf(s)[w[k].dir] = RosterOf(Entry(w[k]), Entry(w[k]) \in s.held)
  BY <1>1, <1>2, BenchOfEntry
<1>5. (Entry(w[k]) \in s.held) = FALSE
  BY <1>1, <1>3
<1> QED BY <1>4, <1>5 DEF s

LEMMA BenchHeld ==
    ASSUME NEW w \in Seq(WorkspaceType), NEW h \in SUBSET EntryType,
           DirsApart(w), HeldAway(w, h), NEW e \in h
    PROVE  BenchOf(Persisted(w, h))[e.dir] = RosterOf(e, TRUE)
<1> DEFINE s == Persisted(w, h)
<1>1. s \in StoreType /\ Scattered(s, DirOf) /\ s.held = h /\ e \in Entries(s)
  BY WrittenOnce
<1> HIDE DEF s
<1>2. BenchOf(s)[e.dir] = RosterOf(e, e \in s.held)
  BY <1>1, BenchOfEntry
<1>3. (e \in s.held) = TRUE
  BY <1>1
<1> QED BY <1>2, <1>3 DEF s

LEMMA BenchShut ==
    ASSUME NEW w \in Seq(WorkspaceType), NEW h \in SUBSET EntryType,
           DirsApart(w), HeldAway(w, h), NEW d \in Dirs, d \notin OpenDirs(w),
           \A e \in h : e.dir # d
    PROVE  BenchOf(Persisted(w, h))[d] = Closed
<1>1. \A k \in DOMAIN w : Entry(w[k]).dir = w[k].dir /\ w[k].dir # d
  BY EntryHasType DEF OpenDirs
<1>2. \A e \in Entries(Persisted(w, h)) : e.dir # d
  BY <1>1, WrittenOnce
<1> QED BY <1>2, BenchOfNone

(* What has not changed of a directory.                                     *)
LEMMA BenchElsewhere ==
    ASSUME NEW w \in Seq(WorkspaceType), NEW h \in SUBSET EntryType,
           DirsApart(w), HeldAway(w, h),
           NEW v \in Seq(WorkspaceType), NEW g \in SUBSET EntryType,
           DirsApart(v), HeldAway(v, g), NEW d \in Dirs,
           \A k \in DOMAIN w : w[k].dir = d => \E j \in DOMAIN v : v[j] = w[k],
           \A j \in DOMAIN v : v[j].dir = d => \E k \in DOMAIN w : w[k] = v[j],
           \A e \in h : e.dir = d => e \in g,
           \A e \in g : e.dir = d => e \in h
    PROVE  BenchOf(Persisted(v, g))[d] = BenchOf(Persisted(w, h))[d]
<1>1. ASSUME NEW k \in DOMAIN w, w[k].dir = d
      PROVE  BenchOf(Persisted(v, g))[d] = BenchOf(Persisted(w, h))[d]
  <2>1. PICK j \in DOMAIN v : v[j] = w[k]
    BY <1>1
  <2>2. BenchOf(Persisted(v, g))[v[j].dir] = RosterOf(Entry(v[j]), FALSE)
    BY BenchOpen
  <2>3. BenchOf(Persisted(w, h))[w[k].dir] = RosterOf(Entry(w[k]), FALSE)
    BY BenchOpen
  <2> QED BY <1>1, <2>1, <2>2, <2>3
<1>2. ASSUME NEW e \in h, e.dir = d
      PROVE  BenchOf(Persisted(v, g))[d] = BenchOf(Persisted(w, h))[d]
  <2>1. BenchOf(Persisted(v, g))[e.dir] = RosterOf(e, TRUE)
    BY <1>2, BenchHeld
  <2>2. BenchOf(Persisted(w, h))[e.dir] = RosterOf(e, TRUE)
    BY BenchHeld
  <2> QED BY <1>2, <2>1, <2>2
<1>3. ASSUME d \notin OpenDirs(w), \A e \in h : e.dir # d
      PROVE  BenchOf(Persisted(v, g))[d] = BenchOf(Persisted(w, h))[d]
  <2>1. d \notin OpenDirs(v)
    BY <1>3 DEF OpenDirs
  <2>2. BenchOf(Persisted(v, g))[d] = Closed
    BY <1>3, <2>1, BenchShut
  <2>3. BenchOf(Persisted(w, h))[d] = Closed
    BY <1>3, BenchShut
  <2> QED BY <2>2, <2>3
<1> QED BY <1>1, <1>2, <1>3 DEF OpenDirs

(* The rosters of a workspace before and after one pane has come or gone.   *)
LEMMA RosterWorks ==
    ASSUME NEW ws \in WorkspaceType, NEW a
    PROVE  /\ W!Works(RosterOf(Entry(ws), a).agents) = Works(ws.agents)
           /\ W!Works(RosterOf(Entry(ws), a).procs) = Works(ws.procs)
<1> DEFINE r == RosterOf(Entry(ws), a)
<1>1. /\ DOMAIN r.agents = DOMAIN ws.agents
      /\ \A i \in DOMAIN ws.agents : r.agents[i].work = ws.agents[i].work
  BY DEF RosterOf, Entry, AgentEntry
<1>2. /\ DOMAIN r.procs = DOMAIN ws.procs
      /\ \A i \in DOMAIN ws.procs : r.procs[i].work = ws.procs[i].work
  BY DEF RosterOf, Entry, ProcEntry
<1> HIDE DEF r
<1>3. W!Works(r.agents) = Works(ws.agents)
  BY <1>1 DEF W!Works, Works
<1>4. W!Works(r.procs) = Works(ws.procs)
  BY <1>2 DEF W!Works, Works
<1> QED BY <1>3, <1>4 DEF r

(* The abstract specification counts as this module does.                   *)
LEMMA SameCount == ASSUME NEW S PROVE W!Cardinality(S) = Cardinality(S)
BY DEF W!Cardinality, Cardinality

LEMMA OnePaneTouched ==
    ASSUME NEW ws \in WorkspaceType, NEW new \in WorkspaceType,
           NEW m, NEW n, Touches(ws, new, m, n)
    PROVE  W!OnePane(RosterOf(Entry(ws), FALSE), RosterOf(Entry(new), FALSE))
<1> DEFINE a == AllWorks(ws)
           b == AllWorks(new)
           r == RosterOf(Entry(ws), FALSE)
           s == RosterOf(Entry(new), FALSE)
<1>1. PICK x : a \subseteq b \cup {x} /\ b \subseteq a \cup {x}
  BY DEF Touches
<1>2. /\ W!Works(r.agents) \cup W!Works(r.procs) = a
      /\ W!Works(s.agents) \cup W!Works(s.procs) = b
  BY RosterWorks DEF AllWorks
<1> HIDE DEF a, b, r, s
<1>3. (a \ b) \cup (b \ a) = {} \/ (a \ b) \cup (b \ a) = {x}
  BY <1>1
<1>4. Cardinality((a \ b) \cup (b \ a)) <= 1
  <2>1. Cardinality({}) = 0 /\ Cardinality({x}) = 1
    BY FS_EmptySet, FS_Singleton
  <2> QED BY <1>3, <2>1
<1>5. W!OnePane(r, s)
  <2>1. W!Cardinality((a \ b) \cup (b \ a)) <= 1
    BY <1>4, SameCount
  <2> QED BY <1>2, <2>1 DEF W!OnePane
<1> QED BY <1>5 DEF r, s

-----------------------------------------------------------------------------
(* What keeps the workbench: every directory is spoken of once, and every   *)
(* workspace is whole, open or written down.                                *)

Slotted(e) ==
    \/ e.stage = <<"none", 0>>
    \/ \E i \in DOMAIN e.agents : e.stage = <<"agent", i>>
    \/ \E i \in DOMAIN e.procs : e.stage = <<"proc", i>>

Fit(e, n) == Whole(e, n) /\ Slotted(e)

InHand(k) == cur # <<>> /\ k = Len(wss)

Placed ==
    /\ Scattered(store, DirOf)
    /\ \A e \in Entries(store) \cup held : Fit(e, minted)
    /\ DirsApart(wss) /\ HeldAway(wss, held) /\ ToCome(wss, held, todo)
    /\ \A k \in DOMAIN wss : InHand(k) \/ Whole(wss[k], minted)
    /\ phase \in {"saving", "closing"} => store = Persisted(wss, held)

LEMMA EntryFits ==
    ASSUME NEW ws \in WorkspaceType, NEW n, Whole(ws, n)
    PROVE  Fit(Entry(ws), n)
<1> DEFINE e == Entry(ws)
<1>0. ws.procs \in Seq(PaneType) /\ ws.procs # <<>>
  BY DEF WorkspaceType, Whole
<1>1. /\ DOMAIN e.agents = DOMAIN ws.agents
      /\ \A i \in DOMAIN ws.agents : e.agents[i].work = ws.agents[i].work
      /\ DOMAIN e.procs = DOMAIN ws.procs
      /\ \A i \in DOMAIN ws.procs : e.procs[i].work = ws.procs[i].work
      /\ e.stage = StageSlot(ws)
  BY DEF Entry, AgentEntry, ProcEntry
<1> HIDE DEF e
<1>2. /\ Works(e.agents) = Works(ws.agents) /\ Works(e.procs) = Works(ws.procs)
      /\ Distinct(ws.agents) => Distinct(e.agents)
      /\ Distinct(ws.procs) => Distinct(e.procs)
  BY <1>1 DEF Works, Distinct
<1>3. e.procs # <<>>
  <2>1. \A q \in Seq(PaneType) : q # <<>> => 1 \in DOMAIN q
    OBVIOUS
  <2>2. 1 \in DOMAIN ws.procs
    BY <1>0, <2>1
  <2> HIDE DEF e
  <2>3. 1 \in DOMAIN e.procs
    BY <1>1, <2>2
  <2> QED BY <2>3
<1>4. Whole(e, n)
  BY <1>2, <1>3 DEF Whole, AllWorks
<1>5. Slotted(e)
  <2> DEFINE a == {i \in DOMAIN ws.agents : ws.agents[i].work = ws.stage}
             p == {i \in DOMAIN ws.procs : ws.procs[i].work = ws.stage}
  <2>1. e.stage = IF a # {} THEN <<"agent", CHOOSE i \in a : TRUE>>
                  ELSE IF p # {} THEN <<"proc", CHOOSE i \in p : TRUE>>
                  ELSE <<"none", 0>>
    BY <1>1 DEF StageSlot
  <2>2. /\ a # {} => (CHOOSE i \in a : TRUE) \in DOMAIN e.agents
        /\ p # {} => (CHOOSE i \in p : TRUE) \in DOMAIN e.procs
    BY <1>1
  <2> HIDE DEF a, p
  <2> QED BY <2>1, <2>2 DEF Slotted
<1> QED BY <1>4, <1>5 DEF Fit, e

LEMMA WrittenFits ==
    ASSUME NEW w \in Seq(WorkspaceType), NEW h \in SUBSET EntryType, NEW n,
           DirsApart(w), HeldAway(w, h),
           \A k \in DOMAIN w : Whole(w[k], n), \A e \in h : Fit(e, n)
    PROVE  \A e \in Entries(Persisted(w, h)) : Fit(e, n)
BY WrittenOnce, EntryFits

LEMMA FitGrows ==
    ASSUME NEW m \in Nat, NEW n \in Nat, m <= n
    PROVE  \A e : Fit(e, m) => Fit(e, n)
BY WholeGrows DEF Fit

(* The list of tabs after a handler: whole and apart, if what joined is.    *)
WellPlaced(w, h, n) ==
    /\ DirsApart(w) /\ HeldAway(w, h)
    /\ \A k \in DOMAIN w : Whole(w[k], n)
    /\ \A e \in h : Fit(e, n)

LEMMA FreshWhole ==
    ASSUME NEW d \in Dirs, NEW n \in Nat, NEW up \in Launches(d)
    PROVE  Whole(FreshWorkspace(d, n, up), n + FreshCount(d))
<1> DEFINE ws == FreshWorkspace(d, n, up)
           F == up.procs
           A == up.agents
           N == n + (1 + FileProcs[d] + Autostart[d])
<1>0. /\ F \in Nat /\ A \in Nat /\ N \in Nat
      /\ n + 1 + F + A <= N /\ n + 1 + F <= N
  <2>1. /\ F \in Nat /\ A \in Nat /\ FileProcs[d] \in Nat /\ Autostart[d] \in Nat
        /\ F <= FileProcs[d] /\ A <= Autostart[d]
    BY LaunchesFit
  <2> HIDE DEF F, A
  <2> QED BY <2>1
<1>2. /\ DOMAIN ws.agents = 1 .. A
      /\ \A i \in DOMAIN ws.agents : ws.agents[i].work = n + 1 + F + i
      /\ DOMAIN ws.procs = 1 .. 1 + F
      /\ \A i \in DOMAIN ws.procs : ws.procs[i].work = n + i
  BY DEF FreshWorkspace, FreshAgent, FreshProc, Pane
<1>8. N = n + FreshCount(d)
  BY DEF FreshCount
<1> HIDE DEF ws, N, F, A
<1>3. ws.procs # <<>>
  <2>1. 1 \in DOMAIN ws.procs
    BY <1>0, <1>2
  <2> QED BY <2>1
<1>4. Distinct(ws.agents) /\ Distinct(ws.procs)
  <2>1. \A i, j \in 1 .. A : n + 1 + F + i = n + 1 + F + j => i = j
    BY <1>0
  <2>2. \A i, j \in 1 .. 1 + F : n + i = n + j => i = j
    BY <1>0
  <2>3. Distinct(ws.agents)
    BY <1>2, <2>1 DEF Distinct
  <2>4. Distinct(ws.procs)
    BY <1>2, <2>2 DEF Distinct
  <2> QED BY <2>3, <2>4
<1>5. /\ Works(ws.agents) \subseteq n + 1 + F + 1 .. n + 1 + F + A
      /\ Works(ws.procs) \subseteq n + 1 .. n + 1 + F
  <2>1. \A i \in 1 .. A : n + 1 + F + i \in n + 1 + F + 1 .. n + 1 + F + A
    BY <1>0
  <2>2. \A i \in 1 .. 1 + F : n + i \in n + 1 .. n + 1 + F
    BY <1>0
  <2> QED BY <1>2, <2>1, <2>2 DEF Works
<1>6. Works(ws.agents) \cap Works(ws.procs) = {}
  <2>1. (n + 1 + F + 1 .. n + 1 + F + A) \cap (n + 1 .. n + 1 + F) = {}
    BY <1>0
  <2> QED BY <1>5, <2>1
<1>7. AllWorks(ws) \subseteq 1 .. n + FreshCount(d)
  <2>1. /\ n + 1 + F + 1 .. n + 1 + F + A \subseteq 1 .. N
        /\ n + 1 .. n + 1 + F \subseteq 1 .. N
    BY <1>0
  <2> QED BY <1>5, <1>8, <2>1 DEF AllWorks
<1> QED BY <1>3, <1>4, <1>6, <1>7 DEF Whole, ws, F, A

(* Serving edits one directory of the bench.                                *)
EditedOne(w, h, v, g) ==
    \E d \in Dirs :
        /\ W!Edited(BenchOf(Persisted(w, h))[d], BenchOf(Persisted(v, g))[d])
        /\ \A o \in Dirs \ {d} : BenchOf(Persisted(v, g))[o] = BenchOf(Persisted(w, h))[o]

LEMMA OpenEdits ==
    ASSUME NEW w \in Seq(WorkspaceType), NEW h \in SUBSET EntryType,
           NEW n \in Nat, WellPlaced(w, h, n), NEW d \in Dirs, d \notin OpenDirs(w),
           NEW up \in Launches(d)
    PROVE  LET v == Append(w, FreshWorkspace(d, n, up))
               g == {x \in h : x.dir # d}
           IN  /\ v \in Seq(WorkspaceType) /\ WellPlaced(v, g, n + FreshCount(d))
               /\ EditedOne(w, h, v, g)
<1> DEFINE ws == FreshWorkspace(d, n, up)
           v == Append(w, ws)
           g == {x \in h : x.dir # d}
           N == n + FreshCount(d)
           z == Len(w) + 1
<1>0. N \in Nat /\ n <= N
  BY FreshWorkspaceType
<1>1. ws \in WorkspaceType /\ ws.dir = d /\ Whole(ws, N)
  BY FreshStands, FreshWhole
<1> HIDE DEF ws, N
<1>2. /\ DOMAIN v = DOMAIN w \cup {z} /\ v[z] = ws /\ \A j \in DOMAIN w : v[j] = w[j]
      /\ v \in Seq(WorkspaceType)
  BY <1>1, AppendProperties
<1>3. DirsApart(v) /\ OpenDirs(v) = OpenDirs(w) \cup {d}
  BY <1>1, AppendKeeps DEF WellPlaced
<1> HIDE DEF v, z
<1>4. HeldAway(v, g) /\ g \in SUBSET EntryType
  BY <1>3 DEF WellPlaced, HeldAway
<1>5. WellPlaced(v, g, N)
  <2>1. \A k \in DOMAIN v : Whole(v[k], N)
    BY <1>0, <1>1, <1>2, WholeGrows DEF WellPlaced
  <2>2. \A e \in g : Fit(e, N)
    BY <1>0, FitGrows DEF WellPlaced
  <2> QED BY <1>3, <1>4, <2>1, <2>2 DEF WellPlaced
<1>6. DirsApart(w) /\ HeldAway(w, h)
  BY DEF WellPlaced
<1>7. ASSUME NEW o \in Dirs \ {d}
      PROVE  BenchOf(Persisted(v, g))[o] = BenchOf(Persisted(w, h))[o]
  <2>1. \A k \in DOMAIN w : w[k].dir = o => \E j \in DOMAIN v : v[j] = w[k]
    BY <1>2
  <2>2. \A j \in DOMAIN v : v[j].dir = o => \E k \in DOMAIN w : w[k] = v[j]
    BY <1>1, <1>2
  <2>3. /\ \A e \in h : e.dir = o => e \in g
        /\ \A e \in g : e.dir = o => e \in h
    OBVIOUS
  <2> HIDE DEF g
  <2> QED BY <1>2, <1>3, <1>4, <1>6, <2>1, <2>2, <2>3, BenchElsewhere
<1>8. W!Edited(BenchOf(Persisted(w, h))[d], BenchOf(Persisted(v, g))[d])
  <2>1. CASE \A e \in h : e.dir # d
    <3>1. BenchOf(Persisted(w, h))[d] = Closed
      BY <1>6, <2>1, BenchShut
    <3> QED BY <3>1 DEF W!Edited
  <2>2. ASSUME NEW e \in h, e.dir = d
        PROVE  W!Edited(BenchOf(Persisted(w, h))[d], BenchOf(Persisted(v, g))[d])
    <3>1. BenchOf(Persisted(w, h))[d].away = TRUE
      BY <1>6, <2>2, BenchHeld, AwayOf
    <3> QED BY <3>1 DEF W!Edited
  <2> QED BY <2>1, <2>2
<1>9. EditedOne(w, h, v, g)
  BY <1>7, <1>8 DEF EditedOne
<1> QED BY <1>2, <1>5, <1>9 DEF v, ws, N

LEMMA KillEdits ==
    ASSUME NEW w \in Seq(WorkspaceType), NEW h \in SUBSET EntryType,
           NEW n \in Nat, WellPlaced(w, h, n), NEW k \in DOMAIN w
    PROVE  LET v == RemoveAt(w, k)
           IN  /\ v \in Seq(WorkspaceType) /\ WellPlaced(v, h, n)
               /\ EditedOne(w, h, v, h)
<1> DEFINE v == RemoveAt(w, k)
           d == w[k].dir
<1>0. d \in Dirs
  <2>1. w[k] \in WorkspaceType
    OBVIOUS
  <2> QED BY <2>1 DEF WorkspaceType
<1>1. PICK f \in [DOMAIN v -> DOMAIN w] :
          /\ \A j, l \in DOMAIN v : f[j] = f[l] => j = l
          /\ \A j \in DOMAIN v : v[j] = w[f[j]]
          /\ \A l \in DOMAIN w : l # k => \E j \in DOMAIN v : f[j] = l
          /\ \A j \in DOMAIN v : f[j] # k
  BY RailWithout
<1>2. v \in Seq(WorkspaceType)
  BY RemoveAtType
<1> HIDE DEF v
<1>3. DirsApart(v) /\ OpenDirs(v) \subseteq OpenDirs(w)
  BY <1>1 DEF WellPlaced, DirsApart, OpenDirs
<1>4. HeldAway(v, h)
  BY <1>3, FewerAway DEF WellPlaced
<1>5. WellPlaced(v, h, n)
  BY <1>1, <1>3, <1>4 DEF WellPlaced
<1>6. DirsApart(w) /\ HeldAway(w, h)
  BY DEF WellPlaced
<1>7. d \notin OpenDirs(v) /\ \A e \in h : e.dir # d
  BY <1>1, <1>6 DEF DirsApart, OpenDirs, HeldAway
<1>8. ASSUME NEW o \in Dirs \ {d}
      PROVE  BenchOf(Persisted(v, h))[o] = BenchOf(Persisted(w, h))[o]
  <2>1. \A l \in DOMAIN w : w[l].dir = o => \E j \in DOMAIN v : v[j] = w[l]
    BY <1>1
  <2>2. \A j \in DOMAIN v : v[j].dir = o => \E l \in DOMAIN w : w[l] = v[j]
    BY <1>1
  <2> HIDE DEF d
  <2>3. \A e \in h : e.dir = o => e \in h
    OBVIOUS
  <2> QED BY ONLY <1>2, <1>3, <1>4, <1>6, <1>8, <2>1, <2>2, <2>3, h \in SUBSET EntryType,
                  w \in Seq(WorkspaceType), BenchElsewhere
<1>9. W!Edited(BenchOf(Persisted(w, h))[d], BenchOf(Persisted(v, h))[d])
  <2>1. BenchOf(Persisted(v, h))[d] = Closed
    BY <1>0, <1>2, <1>3, <1>4, <1>7, BenchShut
  <2> QED BY <2>1 DEF W!Edited
<1>10. EditedOne(w, h, v, h)
  BY <1>0, <1>8, <1>9 DEF EditedOne
<1> QED BY <1>2, <1>5, <1>10 DEF v

LEMMA TouchEdits ==
    ASSUME NEW w \in Seq(WorkspaceType), NEW h \in SUBSET EntryType,
           NEW m \in Nat, NEW n \in Nat, m <= n, WellPlaced(w, h, m),
           NEW k \in DOMAIN w, NEW new \in WorkspaceType, Touches(w[k], new, m, n)
    PROVE  LET v == [w EXCEPT ![k] = new]
           IN  /\ v \in Seq(WorkspaceType) /\ WellPlaced(v, h, n)
               /\ EditedOne(w, h, v, h)
<1> DEFINE v == [w EXCEPT ![k] = new]
           d == w[k].dir
<1>0. d \in Dirs /\ new.dir = d /\ w[k] \in WorkspaceType
  <2>1. w[k] \in WorkspaceType /\ new.dir = d
    BY DEF Touches
  <2> QED BY <2>1 DEF WorkspaceType
<1>1. /\ DOMAIN v = DOMAIN w /\ v[k] = new /\ \A j \in DOMAIN w : j # k => v[j] = w[j]
      /\ v \in Seq(WorkspaceType)
  BY UpdateType
<1>3. DirsApart(v) /\ OpenDirs(v) = OpenDirs(w)
  BY <1>0, ReworkKeeps DEF WellPlaced
<1> HIDE DEF v
<1>4. HeldAway(v, h)
  BY <1>3, FewerAway DEF WellPlaced
<1>5. WellPlaced(v, h, n)
  <2>1. \A j \in DOMAIN v : Whole(v[j], n)
    <3>1. Whole(new, n)
      BY DEF Touches, WellPlaced
    <3> QED BY <1>1, <3>1, WholeGrows DEF WellPlaced
  <2>2. \A e \in h : Fit(e, n)
    BY FitGrows DEF WellPlaced
  <2> QED BY <1>3, <1>4, <2>1, <2>2 DEF WellPlaced
<1>6. DirsApart(w) /\ HeldAway(w, h)
  BY DEF WellPlaced
<1>8. ASSUME NEW o \in Dirs \ {d}
      PROVE  BenchOf(Persisted(v, h))[o] = BenchOf(Persisted(w, h))[o]
  <2>1. \A l \in DOMAIN w : w[l].dir = o => \E j \in DOMAIN v : v[j] = w[l]
    BY <1>1
  <2>2. \A j \in DOMAIN v : v[j].dir = o => \E l \in DOMAIN w : w[l] = v[j]
    BY <1>0, <1>1
  <2> HIDE DEF d
  <2> QED BY <1>1, <1>3, <1>4, <1>6, <2>1, <2>2, BenchElsewhere
<1>9. W!Edited(BenchOf(Persisted(w, h))[d], BenchOf(Persisted(v, h))[d])
  <2>1. BenchOf(Persisted(w, h))[d] = RosterOf(Entry(w[k]), FALSE)
    BY <1>6, BenchOpen
  <2>2. BenchOf(Persisted(v, h))[v[k].dir] = RosterOf(Entry(v[k]), FALSE)
    BY <1>1, <1>3, <1>4, BenchOpen
  <2>3. W!OnePane(RosterOf(Entry(w[k]), FALSE), RosterOf(Entry(new), FALSE))
    BY <1>0, OnePaneTouched
  <2>4. BenchOf(Persisted(v, h))[d] = RosterOf(Entry(new), FALSE)
    BY <1>0, <1>1, <2>2
  <2>5. /\ RosterOf(Entry(w[k]), FALSE).away = FALSE
        /\ RosterOf(Entry(new), FALSE).away = FALSE
    BY AwayOf
  <2> QED BY <2>1, <2>3, <2>4, <2>5 DEF W!Edited
<1>10. EditedOne(w, h, v, h)
  BY <1>0, <1>8, <1>9 DEF EditedOne
<1> QED BY <1>1, <1>5, <1>10 DEF v

-----------------------------------------------------------------------------
(* Each handler keeps the workspaces placed, and moves the workbench as its *)
(* specification says.                                                      *)

BenchStep == [W!Next]_<<Life, Bench, BenchOf(store)>>

LEMMA BenchActive == Active => Bench = BenchOf(Persisted(wss, held))
BY DEF Active, Bench

LEMMA BenchIdle == ~ Active => Bench = BenchOf(store)
BY DEF Active, Bench

LEMMA PlacedUp ==
    ASSUME Placed, cur = <<>> PROVE WellPlaced(wss, held, minted)
BY DEF Placed, WellPlaced, InHand

LEMMA PlacedKept ==
    ASSUME TypeOK, TypeOK', Placed, minted <= minted',
           cur' = <<>>, todo' = EmptyStore, WellPlaced(wss, held, minted)',
           store' \in {store, Persisted(wss', held'), EmptyStore},
           phase' \in {"saving", "closing"} => store' = Persisted(wss', held')
    PROVE  Placed'
<1>0. /\ minted \in Nat /\ minted' \in Nat /\ wss' \in Seq(WorkspaceType)
      /\ held' \in SUBSET EntryType
  BY DEF TypeOK
<1>1. WellPlaced(wss', held', minted')
  BY DEF WellPlaced
<1>2. Scattered(store', DirOf) /\ \A e \in Entries(store') : Fit(e, minted')
  <2>1. CASE store' = store
    <3>1. Scattered(store, DirOf) /\ \A e \in Entries(store) : Fit(e, minted')
      BY <1>0, FitGrows DEF Placed
    <3> QED BY <2>1, <3>1
  <2>2. CASE store' = Persisted(wss', held')
    <3>1. /\ Scattered(Persisted(wss', held'), DirOf)
          /\ \A e \in Entries(Persisted(wss', held')) : Fit(e, minted')
      BY <1>0, <1>1, WrittenOnce, WrittenFits DEF WellPlaced
    <3> QED BY <2>2, <3>1
  <2>3. CASE store' = EmptyStore
    BY <2>3, EmptyScattered
  <2> QED BY <2>1, <2>2, <2>3
<1>3. ToCome(wss', held', todo')
  BY NothingToCome
<1> QED BY <1>1, <1>2, <1>3 DEF Placed, WellPlaced

LEMMA EditStep ==
    ASSUME phase = "up", phase' = "up",
           EditedOne(wss, held, wss', held'),
           store' \in {store, Persisted(wss', held')}
    PROVE  BenchStep
<1>1. Bench = BenchOf(Persisted(wss, held)) /\ Bench' = BenchOf(Persisted(wss', held'))
  BY DEF Active, Bench
<1>2. PICK d \in Dirs : /\ W!Edited(Bench[d], Bench'[d])
                        /\ \A o \in Dirs \ {d} : Bench'[o] = Bench[o]
  BY <1>1 DEF EditedOne
<1>3. BenchOf(store)' \in {BenchOf(store), Bench'}
  BY <1>1
<1>4. W!Edit(d)
  BY <1>2, <1>3 DEF W!Edit, W!Unmoved, Life
<1> QED BY <1>4 DEF BenchStep, W!Next

LEMMA ServeEdits ==
    ASSUME IInv, IInv', Idle, Idle', Placed, Faults = {}, Serve
    PROVE  Placed' /\ BenchStep
<1>0. /\ TypeOK /\ TypeOK' /\ wss \in Seq(WorkspaceType) /\ held \in SUBSET EntryType
      /\ minted \in Nat /\ minted' \in Nat /\ minted <= minted
      /\ phase = "up" => ~ shutdown
  BY DEF IInv, TypeOK, Gated
<1>s. \A w, h : Save(w, h) => store' = Persisted(w, h) \/ store' = store
  BY DEF Save
<1>1. ASSUME phase = "up", phase' = "up", minted <= minted',
             WellPlaced(wss', held', minted'), EditedOne(wss, held, wss', held'),
             store' \in {store, Persisted(wss', held')}
      PROVE  Placed' /\ BenchStep
  <2>1. cur' = <<>> /\ todo' = EmptyStore
    BY <1>1 DEF Idle
  <2>2. WellPlaced(wss, held, minted)'
    BY <1>1 DEF WellPlaced
  <2>3. Placed'
    BY <1>0, <1>1, <2>1, <2>2, PlacedKept
  <2> QED BY <1>1, <2>3, EditStep
<1>p. phase = "up" => WellPlaced(wss, held, minted)
  BY PlacedUp DEF Idle
<1>2. ASSUME NEW d \in Dirs, NEW up \in Launches(d), OpenWorkspace(d, up), d \notin OpenDirs(wss)
      PROVE  Placed' /\ BenchStep
  <2>1. /\ phase = "up" /\ phase' = "up"
        /\ wss' = Append(wss, FreshWorkspace(d, minted, up))
        /\ held' = {h \in held : h.dir # d}
        /\ minted' = minted + FreshCount(d)
        /\ Save(wss', held')
    BY <1>2 DEF OpenWorkspace, Serving
  <2>2. minted <= minted'
    BY <1>0, <2>1, FreshWorkspaceType
  <2>3. WellPlaced(wss', held', minted') /\ EditedOne(wss, held, wss', held')
    BY <1>0, <1>2, <1>p, <2>1, OpenEdits
  <2>4. store' \in {store, Persisted(wss', held')}
    BY <1>s, <2>1
  <2> QED BY <1>1, <2>1, <2>2, <2>3, <2>4
<1>3. ASSUME NEW k \in DOMAIN wss, KillWorkspace(k)
      PROVE  Placed' /\ BenchStep
  <2>1. /\ phase = "up" /\ phase' = "up" /\ wss' = RemoveAt(wss, k)
        /\ held' = held /\ minted' = minted /\ Save(wss', held)
    BY <1>3 DEF KillWorkspace, Serving
  <2>2. WellPlaced(wss', held', minted') /\ EditedOne(wss, held, wss', held')
    BY <1>0, <1>p, <2>1, KillEdits
  <2>3. store' \in {store, Persisted(wss', held')}
    BY <1>s, <2>1
  <2> QED BY <1>0, <1>1, <2>1, <2>2, <2>3
<1>4. ASSUME NEW k \in DOMAIN wss, Touched(k)
      PROVE  Placed' /\ BenchStep
  <2>1. PICK new \in WorkspaceType : Touching(k, new)
    BY <1>4 DEF Touched
  <2>2. /\ phase = "up" /\ phase' = "up" /\ wss' = [wss EXCEPT ![k] = new]
        /\ held' = held /\ minted' \in {minted, minted + 1}
        /\ Save(wss', held) \/ UNCHANGED store
        /\ Touches(wss[k], new, minted, minted')
    BY <2>1 DEF Touching, Rework, Serving
  <2>3. minted <= minted'
    BY <1>0, <2>2
  <2>4. WellPlaced(wss', held', minted') /\ EditedOne(wss, held, wss', held')
    BY <1>0, <1>p, <2>2, <2>3, TouchEdits
  <2>5. store' \in {store, Persisted(wss', held')}
    BY <1>s, <2>2
  <2> QED BY <1>1, <2>2, <2>3, <2>4, <2>5
<1> QED BY <1>0, <1>2, <1>3, <1>4, ServeTouches

LEMMA StopSaves ==
    ASSUME IInv, IInv', Idle, Idle', Placed, Stop
    PROVE  Placed' /\ BenchStep
<1>0. /\ TypeOK /\ TypeOK' /\ minted \in Nat
      /\ wss \in Seq(WorkspaceType) /\ held \in SUBSET EntryType
  BY DEF IInv, TypeOK
<1>m. minted' = minted
  BY DEF Stop, Tick, KillServer, CapturePanes, KillServerClear, TearDown, Stopped,
         ExitWhenEmpty, Crash, Halt
<1>1. CASE Tick \/ KillServer
  <2>1. /\ phase = "up" /\ phase' \in {"saving", "closing"}
        /\ store' = Persisted(wss, held) /\ UNCHANGED <<wss, held>>
    BY <1>1, StopSteps DEF Tick, KillServer, Save, Frozen, IInv, Gated
  <2>2. WellPlaced(wss, held, minted)' /\ cur' = <<>> /\ todo' = EmptyStore
    <3>1. WellPlaced(wss, held, minted)
      BY <2>1, PlacedUp DEF Idle
    <3> QED BY <1>m, <2>1, <3>1 DEF WellPlaced, Idle
  <2>3. Placed'
    BY <1>0, <1>m, <2>1, <2>2, PlacedKept
  <2>4. Bench' = Bench /\ BenchOf(store)' = Bench
    BY <2>1 DEF Bench
  <2>5. Life = "serving" /\ Life' \in {"serving", "closing"}
    BY <2>1 DEF Life
  <2> QED BY <2>3, <2>4, <2>5 DEF BenchStep, W!Next, W!Save
<1>2. CASE CapturePanes
  <2>1. /\ \/ phase = "saving" /\ phase' = "up"
           \/ phase = "closing" /\ phase' = "teardown"
        /\ UNCHANGED <<wss, held, store>>
    BY <1>2 DEF CapturePanes
  <2>2. WellPlaced(wss, held, minted)' /\ cur' = <<>> /\ todo' = EmptyStore
    <3>1. WellPlaced(wss, held, minted)
      BY <2>1, PlacedUp DEF Idle
    <3> QED BY <1>m, <2>1, <3>1 DEF WellPlaced, Idle
  <2>3. Placed'
    BY <1>0, <1>m, <2>1, <2>2, PlacedKept
  <2>4. store = Persisted(wss, held)
    BY <2>1 DEF Placed
  <2>5. Bench' = Bench /\ BenchOf(store)' = BenchOf(store) /\ Bench = BenchOf(store)
    BY <2>1, <2>4 DEF Bench
  <2>6. \/ Life' = Life
        \/ Life = "closing" /\ Life' = "shut"
    BY <2>1 DEF Life
  <2> QED BY <2>3, <2>5, <2>6 DEF BenchStep, W!Next, W!End
<1>3. CASE KillServerClear
  <2>1. /\ phase = "up" /\ phase' = "clearing" /\ store' = EmptyStore
        /\ UNCHANGED wss /\ held' = {}
    BY <1>3 DEF KillServerClear
  <2>2. WellPlaced(wss, held, minted)' /\ cur' = <<>> /\ todo' = EmptyStore
    <3>1. WellPlaced(wss, held, minted)
      BY <2>1, PlacedUp DEF Idle
    <3> QED BY <1>m, <2>1, <3>1 DEF WellPlaced, HeldAway, Idle
  <2>3. Placed'
    BY <1>0, <1>m, <2>1, <2>2, PlacedKept
  <2>4. BenchOf(EmptyStore) = [d \in Dirs |-> Closed]
    BY EmptyScattered DEF BenchOf
  <2>5. Bench' = [d \in Dirs |-> Closed] /\ BenchOf(store)' = Bench'
    BY <2>1, <2>4 DEF Bench
  <2>6. Life = "serving" /\ Life' = "shut"
    BY <2>1 DEF Life
  <2> QED BY <2>3, <2>5, <2>6 DEF BenchStep, W!Next, W!Clear
<1>4. CASE TearDown
  <2>1. /\ phase \in {"teardown", "clearing"} /\ phase' = phase
        /\ wss' = Tail(wss) /\ wss # <<>> /\ held' = held
    BY <1>4 DEF TearDown
  <2>2. UNCHANGED store
    BY <1>4, <2>1 DEF IInv, Gated, TearDown, Save, Frozen
  <2>3. Thinned(wss, wss')
    BY <1>0, <2>1, ThinnedWays
  <2>4. WellPlaced(wss, held, minted)
    BY <2>1, PlacedUp DEF Idle
  <2>5. DirsApart(wss') /\ HeldAway(wss', held)
    <3>1. (DirsApart(wss) => DirsApart(wss')) /\ OpenDirs(wss') \subseteq OpenDirs(wss)
      BY <2>3, ThinnedKeeps
    <3> QED BY <2>4, <3>1, FewerAway DEF WellPlaced
  <2>6. \A k \in DOMAIN wss' : Whole(wss'[k], minted)
    BY <2>3, <2>4 DEF Thinned, WellPlaced
  <2>7. WellPlaced(wss', held', minted')
    BY <1>m, <2>1, <2>4, <2>5, <2>6 DEF WellPlaced
  <2>8. cur' = <<>> /\ todo' = EmptyStore
    BY <2>1 DEF Idle
  <2>9. Placed'
    BY <1>0, <1>m, <2>1, <2>2, <2>7, <2>8, PlacedKept DEF WellPlaced
  <2>10. Bench' = Bench /\ BenchOf(store)' = BenchOf(store) /\ Life' = Life
    BY <2>1, <2>2 DEF Bench, Life
  <2> QED BY <2>9, <2>10 DEF BenchStep
<1>5. CASE Stopped \/ ExitWhenEmpty \/ Crash
  <2>1. Halt
    BY <1>5 DEF Stopped, ExitWhenEmpty, Crash
  <2>2. /\ phase' = "down" /\ wss' = <<>> /\ held' = {} /\ UNCHANGED store
        /\ cur' = <<>> /\ todo' = EmptyStore
    BY <2>1 DEF Halt
  <2>3. WellPlaced(<<>>, {}, minted)
    BY DEF WellPlaced, DirsApart, HeldAway
  <2>4. Placed'
    BY <1>0, <1>m, <2>2, <2>3, PlacedKept DEF WellPlaced
  <2>5. Bench' = BenchOf(store) /\ BenchOf(store)' = BenchOf(store)
    BY <2>2 DEF Bench
  <2>6. Life' = "shut"
    BY <2>2 DEF Life
  <2>7. Life = "shut" => Bench = BenchOf(store)
    BY DEF Life, Bench
  <2> QED BY <2>4, <2>5, <2>6, <2>7 DEF BenchStep, W!Next, W!End
<1> QED BY <1>1, <1>2, <1>3, <1>4, <1>5 DEF Stop

-----------------------------------------------------------------------------
(* A start.  What it has rebuilt of an entry so far, and what has come back *)
(* of the file: all of it, in the end.                                      *)

Reopened(p, a) ==
    /\ p.work = a.work /\ p.spoke = a.spoke
    /\ a.spoke => p.conv = a.conv

Partly(ws, e, n) ==
    /\ ws.dir = e.dir
    /\ Len(ws.procs) = IF n < Len(e.procs) THEN n ELSE Len(e.procs)
    /\ Len(ws.agents) = IF n < Len(e.procs) THEN 0 ELSE n - Len(e.procs)
    /\ n <= Len(e.procs) + Len(e.agents)
    /\ \A i \in DOMAIN ws.procs : ProcEntry(ws.procs[i]) = e.procs[i]
    /\ \A i \in DOMAIN ws.agents : Reopened(ws.agents[i], e.agents[i])

Back(ws, e) == ws.dir = e.dir /\ RosterOf(Entry(ws), FALSE) = RosterOf(e, FALSE)

Returning ==
    /\ held \cup Entries(todo) \subseteq Entries(store)
    /\ \A k \in DOMAIN wss : \E e \in Entries(store) : e.dir = wss[k].dir
    /\ \A e \in Entries(store) :
           \/ e \in Entries(todo) \/ e \in held
           \/ cur # <<>> /\ e = cur[1]
           \/ \E k \in DOMAIN wss : ~ InHand(k) /\ Back(wss[k], e)
    /\ cur # <<>> => /\ cur[1] \in Entries(store) /\ wss # <<>>
                     /\ Partly(wss[Len(wss)], cur[1], at)

Kept == Placed /\ (phase = "restoring" => Returning)

(* While the file is only read, the workbench is what it says.              *)
LEMMA OnlyRead ==
    ASSUME ~ Active, ~ Active', UNCHANGED store PROVE BenchStep
<1>1. Bench' = Bench /\ BenchOf(store)' = BenchOf(store) /\ Life' = Life
  BY DEF Bench, Active, Life
<1> QED BY <1>1 DEF BenchStep

LEMMA VisitsAll ==
    ASSUME TypeOK, NEW e, Visit(e)
    PROVE  Entries(todo) \subseteq Entries(todo') \cup {e}
<1>0. todo \in StoreType /\ todo.live \in Seq(EntryType)
  BY DEF TypeOK, StoreType
<1>1. CASE todo.live # <<>> /\ e = Head(todo.live) /\ todo' = [todo EXCEPT !.live = Tail(@)]
  <2> DEFINE q == todo.live
             r == Tail(q)
  <2>1. /\ todo'.live = r /\ todo'.held = todo.held
    BY <1>0, <1>1 DEF StoreType
  <2>2. /\ DOMAIN q = 1 .. Len(q) /\ Len(q) \in Nat
        /\ DOMAIN r = 1 .. Len(q) - 1 /\ \A j \in 1 .. Len(q) - 1 : r[j] = q[j + 1]
        /\ e = q[1]
    BY <1>0, <1>1
  <2>3. ASSUME NEW j \in DOMAIN q, j # 1 PROVE j - 1 \in DOMAIN r /\ r[j - 1] = q[j]
    <3>1. j \in Nat /\ 1 <= j /\ j <= Len(q)
      BY <2>2
    <3>2. j - 1 \in 1 .. Len(q) - 1 /\ (j - 1) + 1 = j
      BY <2>2, <2>3, <3>1
    <3> QED BY <2>2, <3>2
  <2> HIDE DEF r
  <2>4. ASSUME NEW j \in DOMAIN q PROVE q[j] \in Entries(todo') \cup {e}
    <3>1. CASE j = 1
      BY <2>2, <3>1
    <3>2. CASE j # 1
      <4>1. j - 1 \in DOMAIN todo'.live /\ todo'.live[j - 1] = q[j]
        BY <2>1, <2>3, <3>2
      <4> QED BY <4>1 DEF Entries
    <3> QED BY <3>1, <3>2
  <2> QED BY <2>1, <2>4 DEF Entries
<1>2. CASE todo.live = <<>> /\ e \in todo.held /\ todo' = [todo EXCEPT !.held = @ \ {e}]
  <2>1. /\ todo'.live = <<>> /\ todo'.held = todo.held \ {e} /\ todo.live = <<>>
    BY <1>0, <1>2 DEF StoreType
  <2> QED BY <2>1 DEF Entries
<1> QED BY <1>1, <1>2 DEF Visit

LEMMA VisitFinds ==
    ASSUME IInv, Kept,
           NEW e \in {todo.live[i] : i \in DOMAIN todo.live} \cup todo.held, Visit(e)
    PROVE  /\ phase = "restoring" /\ cur = <<>> /\ e \in EntryType
           /\ e \in Entries(store) /\ Fit(e, minted)
           /\ ToCome(wss, held, todo')
           /\ e.dir \notin OpenDirs(wss) /\ \A d \in held : d.dir # e.dir
           /\ \A x \in Entries(todo') : x.dir # e.dir
           /\ Entries(todo') \subseteq Entries(todo)
           /\ Entries(todo) \subseteq Entries(todo') \cup {e}
<1>0. phase = "restoring" /\ cur = <<>> /\ TypeOK /\ Placed /\ Returning
  BY DEF Visit, IInv, Kept
<1>1. e \in EntryType /\ todo' \in StoreType
  BY <1>0, VisitType
<1>2. /\ e \in Entries(todo) /\ Entries(todo') \subseteq Entries(todo)
      /\ Scattered(todo', DirOf)
      /\ \A x \in Entries(todo') : DirOf[x] \cap DirOf[e] = {}
  BY <1>0, VisitScattered DEF Placed, ToCome
<1>3. \A x \in Entries(todo') : x.dir # e.dir
  <2>1. \A x \in EntryType : DirOf[x] = {x.dir}
    BY DEF DirOf
  <2>2. Entries(todo') \subseteq EntryType
    BY <1>1, EntriesType
  <2> QED BY <1>1, <1>2, <2>1, <2>2
<1>4. /\ ToCome(wss, held, todo')
      /\ e.dir \notin OpenDirs(wss) /\ \A d \in held : d.dir # e.dir
  BY <1>0, <1>2 DEF Placed, ToCome
<1>5. e \in Entries(store) /\ Fit(e, minted)
  BY <1>0, <1>2 DEF Returning, Placed
<1> QED BY <1>0, <1>1, <1>2, <1>3, <1>4, <1>5, VisitsAll

LEMMA StartReturns ==
    ASSUME IInv, Idle, Kept, Start PROVE Kept' /\ BenchStep
<1>1. /\ phase = "down" /\ phase' = "restoring" /\ todo' = store
      /\ wss = <<>> /\ held = {} /\ wss' = <<>> /\ held' = {}
      /\ cur = <<>> /\ cur' = <<>> /\ UNCHANGED <<store, minted>>
  BY DEF Start, Idle
<1>2. ToCome(<<>>, {}, store)
  BY DEF Kept, Placed, ToCome, OpenDirs
<1>3. Placed'
  BY <1>1, <1>2 DEF Kept, Placed
<1>4. Returning'
  BY <1>1 DEF Returning
<1>5. BenchStep
  BY <1>1, OnlyRead DEF Active
<1> QED BY <1>3, <1>4, <1>5 DEF Kept

LEMMA VisitReturns ==
    ASSUME IInv, IInv', Kept,
           DeferEntry \/ SkipEntry \/ ReopenFresh \/ BeginRebuild
    PROVE  Kept' /\ BenchStep
<1>0. TypeOK /\ wss \in Seq(WorkspaceType) /\ held \in SUBSET EntryType
  BY DEF IInv, TypeOK
<1>1. CASE DeferEntry
  <2>1. PICK e \in {todo.live[i] : i \in DOMAIN todo.live} \cup todo.held :
            /\ Visit(e)
            /\ held' = held \cup {e}
            /\ UNCHANGED <<phase, wss, cur, store, minted>>
    BY <1>1 DEF DeferEntry, diskVars
  <2>2. /\ phase = "restoring" /\ cur = <<>>
        /\ e \in Entries(store) /\ Fit(e, minted)
        /\ ToCome(wss, held, todo')
        /\ e.dir \notin OpenDirs(wss) /\ \A d \in held : d.dir # e.dir
        /\ \A x \in Entries(todo') : x.dir # e.dir
        /\ Entries(todo') \subseteq Entries(todo)
        /\ Entries(todo) \subseteq Entries(todo') \cup {e}
    BY <2>1, VisitFinds
  <2>3. HeldAway(wss, held \cup {e})
    BY <2>2 DEF Kept, Placed, HeldAway
  <2>4. ToCome(wss, held \cup {e}, todo')
    BY <2>2 DEF ToCome
  <2>5. Placed'
    BY <2>1, <2>2, <2>3, <2>4 DEF Kept, Placed, InHand
  <2>6. Returning'
    BY <2>1, <2>2 DEF Kept, Returning, InHand
  <2>7. BenchStep
    BY <2>1, <2>2, OnlyRead DEF Active
  <2> QED BY <2>5, <2>6, <2>7 DEF Kept
<1>2. ~ SkipEntry /\ ~ ReopenFresh
  BY VisitFinds DEF SkipEntry, ReopenFresh, Fit, Whole
<1>3. CASE BeginRebuild
  <2> DEFINE Empty(d) == [dir |-> d, procs |-> <<>>, agents |-> <<>>, stage |-> 0]
             z == Len(wss) + 1
  <2>1. PICK e \in {todo.live[i] : i \in DOMAIN todo.live} \cup todo.held :
            /\ Visit(e)
            /\ wss' = Append(wss, Empty(e.dir))
            /\ held' = {h \in held : h.dir # e.dir}
            /\ cur' = <<e>> /\ at' = 0
            /\ UNCHANGED <<phase, store, minted>>
    BY <1>3 DEF BeginRebuild, diskVars
  <2>2. /\ phase = "restoring" /\ cur = <<>> /\ e \in EntryType
        /\ e \in Entries(store) /\ Fit(e, minted)
        /\ ToCome(wss, held, todo')
        /\ e.dir \notin OpenDirs(wss) /\ \A d \in held : d.dir # e.dir
        /\ \A x \in Entries(todo') : x.dir # e.dir
        /\ Entries(todo') \subseteq Entries(todo)
        /\ Entries(todo) \subseteq Entries(todo') \cup {e}
    BY <2>1, VisitFinds
  <2> DEFINE ws == Empty(e.dir)
  <2>3. /\ ws \in WorkspaceType /\ ws.dir = e.dir
        /\ ws.procs = <<>> /\ ws.agents = <<>>
    BY <2>2 DEF EntryType, WorkspaceType
  <2>4. held' = held /\ cur'[1] = e /\ cur' # <<>>
    BY <2>1, <2>2
  <2> HIDE DEF Empty, ws
  <2>5. wss' = Append(wss, ws)
    BY <2>1 DEF ws
  <2>6. /\ DOMAIN wss' = DOMAIN wss \cup {z} /\ z \notin DOMAIN wss
        /\ wss'[z] = ws /\ \A j \in DOMAIN wss : wss'[j] = wss[j]
        /\ Len(wss') = z /\ wss' # <<>>
    BY <1>0, <2>3, <2>5, AppendProperties
  <2>7. /\ DirsApart(wss) => DirsApart(wss')
        /\ OpenDirs(wss') = OpenDirs(wss) \cup {e.dir}
    <3>1. LET v == Append(wss, ws)
          IN  /\ DirsApart(wss) /\ ws.dir \notin OpenDirs(wss) => DirsApart(v)
              /\ OpenDirs(v) = OpenDirs(wss) \cup {ws.dir}
      BY <1>0, <2>3, AppendKeeps
    <3> QED BY <2>2, <2>3, <2>5, <3>1
  <2>8. HeldAway(wss', held)
    BY <2>2, <2>7 DEF Kept, Placed, HeldAway
  <2>9. ToCome(wss', held, todo')
    BY <2>2, <2>7 DEF ToCome
  <2> HIDE DEF z
  <2>10. \A k \in DOMAIN wss' : InHand(k)' \/ Whole(wss'[k], minted)
    BY <2>2, <2>4, <2>6 DEF Kept, Placed, InHand
  <2>11. Placed'
    BY <2>1, <2>2, <2>4, <2>7, <2>8, <2>9, <2>10 DEF Kept, Placed
  <2>12. Partly(ws, e, 0)
    <3>1. /\ Len(ws.procs) = 0 /\ Len(ws.agents) = 0
          /\ DOMAIN ws.procs = {} /\ DOMAIN ws.agents = {}
      BY <2>3
    <3>2. Len(e.procs) \in Nat /\ Len(e.agents) \in Nat
      BY <2>2 DEF EntryType
    <3>3. \A m, n \in Nat : /\ 0 <= m + n
                            /\ 0 = (IF 0 < m THEN 0 ELSE m)
                            /\ 0 = (IF 0 < m THEN 0 ELSE 0 - m)
      OBVIOUS
    <3>4. /\ Len(ws.procs) = IF 0 < Len(e.procs) THEN 0 ELSE Len(e.procs)
          /\ Len(ws.agents) = IF 0 < Len(e.procs) THEN 0 ELSE 0 - Len(e.procs)
          /\ 0 <= Len(e.procs) + Len(e.agents)
      BY <3>1, <3>2, <3>3
    <3> QED BY <2>3, <3>1, <3>4 DEF Partly
  <2>13. Returning'
    <3>1. held' \cup Entries(todo') \subseteq Entries(store')
      BY <2>1, <2>2, <2>4 DEF Kept, Returning
    <3>2. \A k \in DOMAIN wss' : \E x \in Entries(store') : x.dir = wss'[k].dir
      BY <2>1, <2>2, <2>3, <2>6 DEF Kept, Returning
    <3>3. ASSUME NEW x \in Entries(store)
          PROVE  \/ x \in Entries(todo') \/ x \in held \/ x = e
                 \/ \E k \in DOMAIN wss' : ~ InHand(k)' /\ Back(wss'[k], x)
      <4>1. \A k \in DOMAIN wss : ~ InHand(k)'
        BY <2>6 DEF InHand
      <4>2. \/ x \in Entries(todo) \/ x \in held
            \/ \E k \in DOMAIN wss : Back(wss[k], x)
        BY <2>2 DEF Kept, Returning
      <4>3. ASSUME NEW k \in DOMAIN wss, Back(wss[k], x)
            PROVE  k \in DOMAIN wss' /\ ~ InHand(k)' /\ Back(wss'[k], x)
        BY <2>6, <4>1, <4>3
      <4> QED BY <2>2, <4>2, <4>3
    <3>4. cur'[1] \in Entries(store') /\ Partly(wss'[Len(wss')], cur'[1], at')
      BY <2>1, <2>2, <2>4, <2>6, <2>12
    <3> QED BY <2>1, <2>4, <2>6, <3>1, <3>2, <3>3, <3>4 DEF Returning
  <2>14. BenchStep
    BY <2>1, <2>2, OnlyRead DEF Active
  <2> QED BY <2>11, <2>13, <2>14 DEF Kept
<1> QED BY <1>1, <1>2, <1>3

(* A workspace that is rebuilt by one pane, or has all of them.             *)
LEMMA LastReturns ==
    ASSUME IInv, IInv', Kept, phase = "restoring", cur # <<>>,
           NEW new, new.dir = wss[Len(wss)].dir,
           wss' = [wss EXCEPT ![Len(wss)] = new],
           UNCHANGED <<phase, held, todo, store>>, minted <= minted',
           \/ cur' = cur /\ Partly(new, cur[1], at')
           \/ cur' = <<>> /\ Whole(new, minted') /\ Back(new, cur[1])
    PROVE  Kept' /\ BenchStep
<1>0. /\ wss \in Seq(WorkspaceType) /\ minted \in Nat /\ minted' \in Nat
      /\ Placed /\ Returning
  BY DEF IInv, TypeOK, Kept
<1>1. PICK z \in DOMAIN wss : z = Len(wss)
  <2>1. wss # <<>>
    BY <1>0 DEF Returning
  <2>2. Len(wss) \in DOMAIN wss
    BY <1>0, <2>1
  <2> QED BY <2>2
<1>2. /\ DOMAIN wss' = DOMAIN wss /\ wss'[z] = new /\ Len(wss') = z /\ wss' # <<>>
      /\ \A j \in DOMAIN wss : j # z => wss'[j] = wss[j]
  BY <1>0, <1>1
<1>3. /\ DirsApart(wss) => DirsApart(wss')
      /\ OpenDirs(wss') = OpenDirs(wss)
  <2>1. LET v == [wss EXCEPT ![z] = new]
        IN  /\ DirsApart(wss) => DirsApart(v)
            /\ OpenDirs(v) = OpenDirs(wss)
    BY <1>0, <1>1, ReworkKeeps
  <2> QED BY <1>1, <2>1
<1>4. \A k \in DOMAIN wss : InHand(k) <=> k = z
  BY <1>1 DEF InHand
<1>5. \A x : Fit(x, minted) => Fit(x, minted')
  BY <1>0, FitGrows
<1>6. \A k \in DOMAIN wss' : InHand(k)' \/ Whole(wss'[k], minted')
  <2>1. \A x : Whole(x, minted) => Whole(x, minted')
    BY <1>0, WholeGrows
  <2>2. ASSUME NEW k \in DOMAIN wss', k # z PROVE Whole(wss'[k], minted')
    BY <1>0, <1>2, <1>4, <2>1, <2>2 DEF Placed
  <2>3. InHand(z)' \/ Whole(wss'[z], minted')
    BY <1>2 DEF InHand
  <2> QED BY <2>2, <2>3
<1>7. Placed'
  <2>1. HeldAway(wss', held) /\ ToCome(wss', held, todo)
    BY <1>0, <1>3 DEF Placed, HeldAway, ToCome
  <2>2. \A x \in Entries(store) \cup held : Fit(x, minted')
    BY <1>0, <1>5 DEF Placed
  <2> QED BY <1>0, <1>3, <1>6, <2>1, <2>2 DEF Placed
<1>8. Returning'
  <2>1. \A k \in DOMAIN wss' : wss'[k].dir = wss[k].dir
    BY <1>1, <1>2
  <2>2. \A k \in DOMAIN wss' : \E x \in Entries(store') : x.dir = wss'[k].dir
    BY <1>0, <1>2, <2>1 DEF Returning
  <2>3. ASSUME NEW x \in Entries(store)
        PROVE  \/ x \in Entries(todo) \/ x \in held
               \/ cur' # <<>> /\ x = cur'[1]
               \/ \E k \in DOMAIN wss' : ~ InHand(k)' /\ Back(wss'[k], x)
    <3>1. CASE x = cur[1]
      <4>1. CASE cur' = cur
        BY <3>1, <4>1
      <4>2. CASE cur' = <<>> /\ Back(new, cur[1])
        <5>1. ~ InHand(z)' /\ Back(wss'[z], x)
          BY <1>2, <3>1, <4>2 DEF InHand
        <5> QED BY <1>1, <1>2, <5>1
      <4> QED BY <4>1, <4>2
    <3>2. ASSUME NEW k \in DOMAIN wss, ~ InHand(k), Back(wss[k], x)
          PROVE  k \in DOMAIN wss' /\ ~ InHand(k)' /\ Back(wss'[k], x)
      <4>1. k # z
        BY <1>4, <3>2
      <4> QED BY <1>2, <3>2, <4>1 DEF InHand
    <3> QED BY <1>0, <3>1, <3>2 DEF Returning
  <2>4. cur' # <<>> => cur'[1] \in Entries(store) /\ Partly(wss'[Len(wss')], cur'[1], at')
    BY <1>0, <1>2 DEF Returning
  <2> QED BY <1>0, <1>2, <2>2, <2>3, <2>4 DEF Returning
<1>9. BenchStep
  BY OnlyRead DEF Active
<1> QED BY <1>7, <1>8, <1>9 DEF Kept

LEMMA PartlyProc ==
    ASSUME NEW ws \in WorkspaceType, NEW e \in EntryType, NEW n \in Nat,
           n < Len(e.procs), Partly(ws, e, n),
           NEW pane \in PaneType, ProcEntry(pane) = e.procs[n + 1],
           NEW new, new.dir = ws.dir, new.agents = ws.agents,
           new.procs = Append(ws.procs, pane)
    PROVE  Partly(new, e, n + 1)
<1>0. /\ ws.procs \in Seq(PaneType) /\ ws.agents \in Seq(PaneType)
      /\ Len(e.procs) \in Nat /\ Len(e.agents) \in Nat
  BY DEF WorkspaceType, EntryType
<1>1. Len(ws.procs) = n /\ Len(ws.agents) = 0
  BY DEF Partly
<1>2. /\ DOMAIN new.procs = DOMAIN ws.procs \cup {n + 1}
      /\ new.procs[n + 1] = pane /\ \A j \in DOMAIN ws.procs : new.procs[j] = ws.procs[j]
      /\ Len(new.procs) = n + 1
  BY <1>0, <1>1, AppendProperties
<1>3. \A l, a \in Nat : n < l => /\ n + 1 <= l + a
                                 /\ n + 1 = IF n + 1 < l THEN n + 1 ELSE l
                                 /\ 0 = IF n + 1 < l THEN 0 ELSE (n + 1) - l
  OBVIOUS
<1>4. /\ n + 1 <= Len(e.procs) + Len(e.agents)
      /\ Len(new.procs) = IF n + 1 < Len(e.procs) THEN n + 1 ELSE Len(e.procs)
      /\ Len(new.agents) = IF n + 1 < Len(e.procs) THEN 0 ELSE (n + 1) - Len(e.procs)
  BY <1>0, <1>1, <1>2, <1>3
<1>5. \A i \in DOMAIN new.procs : ProcEntry(new.procs[i]) = e.procs[i]
  BY <1>2 DEF Partly
<1>6. \A i \in DOMAIN new.agents : Reopened(new.agents[i], e.agents[i])
  BY DEF Partly
<1>7. new.dir = e.dir
  BY DEF Partly
<1> QED BY ONLY <1>4, <1>5, <1>6, <1>7 DEF Partly

LEMMA PartlyAgent ==
    ASSUME NEW ws \in WorkspaceType, NEW e \in EntryType, NEW n \in Nat,
           n >= Len(e.procs), n < Len(e.procs) + Len(e.agents), Partly(ws, e, n),
           NEW pane \in PaneType, Reopened(pane, e.agents[n + 1 - Len(e.procs)]),
           NEW new, new.dir = ws.dir, new.procs = ws.procs,
           new.agents = Append(ws.agents, pane)
    PROVE  Partly(new, e, n + 1)
<1> DEFINE i == n + 1 - Len(e.procs)
<1>0. /\ ws.procs \in Seq(PaneType) /\ ws.agents \in Seq(PaneType)
      /\ Len(e.procs) \in Nat /\ Len(e.agents) \in Nat
  BY DEF WorkspaceType, EntryType
<1>1. /\ Len(ws.procs) = Len(e.procs) /\ Len(ws.agents) + 1 = i
      /\ i = (n + 1) - Len(e.procs)
  <2>1. Len(ws.procs) = Len(e.procs) /\ Len(ws.agents) = n - Len(e.procs)
    <3>1. (n < Len(e.procs)) = FALSE
      BY <1>0
    <3> QED BY <3>1 DEF Partly
  <2>2. \A x, l \in Nat : (x - l) + 1 = x + 1 - l /\ x + 1 - l = (x + 1) - l
    OBVIOUS
  <2> QED BY <1>0, <2>1, <2>2
<1>2. /\ DOMAIN new.agents = DOMAIN ws.agents \cup {i}
      /\ new.agents[i] = pane /\ \A j \in DOMAIN ws.agents : new.agents[j] = ws.agents[j]
      /\ Len(new.agents) = i
  <2>1. /\ DOMAIN new.agents = DOMAIN ws.agents \cup {Len(ws.agents) + 1}
        /\ new.agents[Len(ws.agents) + 1] = pane
        /\ \A j \in DOMAIN ws.agents : new.agents[j] = ws.agents[j]
        /\ Len(new.agents) = Len(ws.agents) + 1
    BY <1>0, AppendProperties
  <2> HIDE DEF i
  <2> QED BY <1>1, <2>1
<1>3. \A l, a \in Nat : n >= l /\ n < l + a =>
                            /\ n + 1 <= l + a
                            /\ ~ (n + 1 < l)
  OBVIOUS
<1> HIDE DEF i
<1>4. /\ n + 1 <= Len(e.procs) + Len(e.agents)
      /\ Len(new.procs) = IF n + 1 < Len(e.procs) THEN n + 1 ELSE Len(e.procs)
      /\ Len(new.agents) = IF n + 1 < Len(e.procs) THEN 0 ELSE (n + 1) - Len(e.procs)
  <2>1. n + 1 <= Len(e.procs) + Len(e.agents) /\ ~ (n + 1 < Len(e.procs))
    BY <1>0, <1>3
  <2> QED BY <1>1, <1>2, <2>1
<1>5. \A j \in DOMAIN new.agents : Reopened(new.agents[j], e.agents[j])
  BY <1>2 DEF Partly, i
<1>6. \A j \in DOMAIN new.procs : ProcEntry(new.procs[j]) = e.procs[j]
  BY DEF Partly
<1>7. new.dir = e.dir
  BY DEF Partly
<1> QED BY ONLY <1>4, <1>5, <1>6, <1>7 DEF Partly

(* When every pane of an entry is back, so is its stage: the pane whose dump*)
(* name was saved, or the first process.                                    *)
LEMMA StageReturns ==
    ASSUME NEW ws, NEW e, NEW m \in Nat, Fit(e, m),
           DOMAIN ws.procs = DOMAIN e.procs, DOMAIN ws.agents = DOMAIN e.agents,
           \A i \in DOMAIN e.procs : ws.procs[i].work = e.procs[i].work,
           \A i \in DOMAIN e.agents : ws.agents[i].work = e.agents[i].work,
           1 \in DOMAIN e.procs, ws.procs # <<>>,
           NEW new, new.agents = ws.agents, new.procs = ws.procs,
           new.stage = StagedWork(ws, e)
    PROVE  StageSlot(new) = IF e.stage[1] = "none" THEN <<"proc", 1>> ELSE e.stage
<1>0. Distinct(e.agents) /\ Distinct(e.procs) /\ Works(e.agents) \cap Works(e.procs) = {}
  BY DEF Fit, Whole
<1>a. ASSUME NEW i \in DOMAIN e.agents, NEW j \in DOMAIN e.procs
      PROVE  e.agents[i].work # e.procs[j].work
  <2>1. e.agents[i].work \in Works(e.agents) /\ e.procs[j].work \in Works(e.procs)
    BY DEF Works
  <2> QED BY <1>0, <2>1
<1>z. /\ \A i \in DOMAIN e.agents : e.agents[i].work # 0
      /\ \A i \in DOMAIN e.procs : e.procs[i].work # 0
  <2>1. 0 \notin 1 .. m
    OBVIOUS
  <2> QED BY <2>1 DEF Fit, Whole, AllWorks, Works
<1>1. ASSUME NEW i \in DOMAIN e.procs, new.stage = e.procs[i].work
      PROVE  StageSlot(new) = <<"proc", i>>
  <2>1. {j \in DOMAIN new.agents : new.agents[j].work = new.stage} = {}
    BY <1>1, <1>a
  <2>2. {j \in DOMAIN new.procs : new.procs[j].work = new.stage} = {i}
    BY <1>0, <1>1 DEF Distinct
  <2>3. (CHOOSE j \in {i} : TRUE) = i
    OBVIOUS
  <2> QED BY <2>1, <2>2, <2>3 DEF StageSlot
<1>2. ASSUME NEW i \in DOMAIN e.agents, new.stage = e.agents[i].work
      PROVE  StageSlot(new) = <<"agent", i>>
  <2>1. {j \in DOMAIN new.agents : new.agents[j].work = new.stage} = {i}
    BY <1>0, <1>2 DEF Distinct
  <2>2. (CHOOSE j \in {i} : TRUE) = i
    OBVIOUS
  <2> QED BY <2>1, <2>2 DEF StageSlot
<1>3. CASE e.stage = <<"none", 0>>
  <2>1. e.stage[1] = "none"
    BY <1>3
  <2>2. ~ \E i \in DOMAIN ws.agents : ws.agents[i].work = 0
    BY <1>z
  <2>3. ~ \E i \in DOMAIN ws.procs : ws.procs[i].work = 0
    BY <1>z
  <2>4. StagedWork(ws, e) = ws.procs[1].work
    BY <2>1, <2>2, <2>3 DEF StagedWork
  <2> QED BY <1>1, <2>1, <2>4
<1>4. ASSUME NEW i \in DOMAIN e.agents, e.stage = <<"agent", i>>
      PROVE  StageSlot(new) = IF e.stage[1] = "none" THEN <<"proc", 1>> ELSE e.stage
  <2>1. e.stage[1] = "agent" /\ e.stage[2] = i
    BY <1>4
  <2>2. StagedWork(ws, e) = e.agents[i].work
    BY <2>1 DEF StagedWork
  <2> QED BY <1>2, <1>4, <2>1, <2>2
<1>5. ASSUME NEW i \in DOMAIN e.procs, e.stage = <<"proc", i>>
      PROVE  StageSlot(new) = IF e.stage[1] = "none" THEN <<"proc", 1>> ELSE e.stage
  <2>1. e.stage[1] = "proc" /\ e.stage[2] = i
    BY <1>5
  <2>2. StagedWork(ws, e) = e.procs[i].work
    BY <2>1 DEF StagedWork
  <2> QED BY <1>1, <1>5, <2>1, <2>2
<1> QED BY <1>3, <1>4, <1>5 DEF Fit, Slotted

LEMMA AllReopened ==
    ASSUME NEW ws \in WorkspaceType, NEW e \in EntryType, NEW m \in Nat, Fit(e, m),
           Partly(ws, e, Len(e.procs) + Len(e.agents)),
           NEW new, new.dir = ws.dir, new.agents = ws.agents, new.procs = ws.procs,
           new.stage = StagedWork(ws, e)
    PROVE  Whole(new, m) /\ Back(new, e)
<1>0. /\ ws.procs \in Seq(PaneType) /\ ws.agents \in Seq(PaneType)
      /\ e.procs \in Seq(ProcEntryType) /\ e.agents \in Seq(AgentEntryType)
      /\ Len(e.procs) \in Nat /\ Len(e.agents) \in Nat
  BY DEF WorkspaceType, EntryType
<1>1. DOMAIN ws.procs = DOMAIN e.procs /\ DOMAIN ws.agents = DOMAIN e.agents
  <2>1. \A l, a \in Nat : ~ (l + a < l) /\ (l + a) - l = a
    OBVIOUS
  <2>2. Len(ws.procs) = Len(e.procs) /\ Len(ws.agents) = Len(e.agents)
    BY <1>0, <2>1 DEF Partly
  <2>3. \A q : \A S : q \in Seq(S) => DOMAIN q = 1 .. Len(q)
    OBVIOUS
  <2> QED BY <1>0, <2>2, <2>3
<1>2. /\ \A i \in DOMAIN e.procs : ProcEntry(ws.procs[i]) = e.procs[i]
      /\ \A i \in DOMAIN e.agents : Reopened(ws.agents[i], e.agents[i])
      /\ new.dir = e.dir
  BY <1>1 DEF Partly
<1>3. /\ \A i \in DOMAIN e.procs : ws.procs[i].work = e.procs[i].work
      /\ \A i \in DOMAIN e.agents : ws.agents[i].work = e.agents[i].work
  <2>1. \A p : ProcEntry(p).work = p.work
    BY DEF ProcEntry
  <2> QED BY <1>2, <2>1 DEF Reopened
<1>4. 1 \in DOMAIN e.procs /\ ws.procs # <<>>
  <2>1. e.procs # <<>>
    BY DEF Fit, Whole
  <2>2. 1 \in DOMAIN e.procs
    BY <1>0, <2>1
  <2> QED BY <1>1, <2>2
<1>5. Whole(new, m)
  <2>1. Works(new.procs) = Works(e.procs) /\ Works(new.agents) = Works(e.agents)
    BY <1>1, <1>3 DEF Works
  <2>2. Distinct(new.procs) /\ Distinct(new.agents)
    <3>1. Distinct(e.procs) /\ Distinct(e.agents)
      BY DEF Fit, Whole
    <3> QED BY <1>1, <1>3, <3>1 DEF Distinct
  <2> QED BY <1>4, <2>1, <2>2 DEF Fit, Whole, AllWorks
<1>6. StageSlot(new) = IF e.stage[1] = "none" THEN <<"proc", 1>> ELSE e.stage
  BY <1>1, <1>3, <1>4, StageReturns
<1>7. Back(new, e)
  <2> DEFINE x == Entry(new)
             conv(a) == [work |-> a.work, conv |-> IF a.spoke THEN a.conv ELSE 0]
  <2>1. /\ DOMAIN x.agents = DOMAIN e.agents
        /\ \A i \in DOMAIN e.agents : x.agents[i] = AgentEntry(ws.agents[i])
        /\ x.procs = [i \in DOMAIN e.procs |-> ProcEntry(ws.procs[i])]
        /\ x.stage = StageSlot(new)
    BY <1>1 DEF Entry
  <2>2. x.procs = e.procs
    <3>1. e.procs = [i \in DOMAIN e.procs |-> e.procs[i]]
      BY <1>0
    <3> QED BY <1>2, <2>1, <3>1
  <2>3. ASSUME NEW i \in DOMAIN e.agents PROVE conv(x.agents[i]) = conv(e.agents[i])
    <3>1. Reopened(ws.agents[i], e.agents[i]) /\ x.agents[i] = AgentEntry(ws.agents[i])
      BY <1>2, <2>1
    <3>2. \A p : /\ AgentEntry(p).work = p.work /\ AgentEntry(p).conv = p.conv
                 /\ AgentEntry(p).spoke = p.spoke
      BY DEF AgentEntry
    <3> HIDE DEF x
    <3> QED BY <3>1, <3>2 DEF Reopened
  <2> HIDE DEF x
  <2>4. [i \in DOMAIN x.agents |-> conv(x.agents[i])] = [i \in DOMAIN e.agents |-> conv(e.agents[i])]
    <3> HIDE DEF conv
    <3> QED BY <2>1, <2>3
  <2>5. (IF x.stage[1] = "none" /\ x.procs # <<>> THEN <<"proc", 1>> ELSE x.stage)
            = (IF e.stage[1] = "none" /\ e.procs # <<>> THEN <<"proc", 1>> ELSE e.stage)
    <3>1. e.procs # <<>>
      BY <1>4
    <3>2. <<"proc", 1>>[1] # "none"
      OBVIOUS
    <3> QED BY <1>6, <2>1, <3>1, <3>2
  <2>6. RosterOf(x, FALSE) = RosterOf(e, FALSE)
    BY <2>2, <2>4, <2>5 DEF RosterOf
  <2> QED BY <1>2, <2>6 DEF Back, x
<1> QED BY <1>5, <1>7

LEMMA RebuildReturns ==
    ASSUME IInv, IInv', Kept, Faults = {}, RebuildProc \/ RebuildAgent \/ EndRebuild
    PROVE  Kept' /\ BenchStep
<1> DEFINE ws == wss[Len(wss)]
           e == cur[1]
<1>0. /\ TypeOK /\ cur # <<>> /\ phase = "restoring" /\ minted \in Nat /\ at \in Nat
      /\ dumps \in [Dirs -> DumpType] /\ wss \in Seq(WorkspaceType)
      /\ Placed /\ Returning
  BY DEF IInv, Gated, TypeOK, Kept, RebuildProc, RebuildAgent, EndRebuild
<1>s. \A w, h : Save(w, h) => UNCHANGED store
  BY <1>0 DEF Save, Frozen
<1>e. /\ e \in EntryType /\ e.dir \in Dirs
      /\ e.agents \in Seq(AgentEntryType) /\ e.procs \in Seq(ProcEntryType)
      /\ Len(e.agents) \in Nat /\ Len(e.procs) \in Nat
      /\ DOMAIN e.agents = 1 .. Len(e.agents) /\ DOMAIN e.procs = 1 .. Len(e.procs)
  BY <1>0, AtHand
<1>w. /\ Len(wss) \in DOMAIN wss /\ ws \in WorkspaceType /\ ws.stage \in Nat
      /\ ws.agents \in Seq(PaneType) /\ ws.procs \in Seq(PaneType)
      /\ Partly(ws, e, at) /\ e \in Entries(store) /\ Fit(e, minted)
  <2>1. wss # <<>> /\ Partly(ws, e, at) /\ e \in Entries(store)
    BY <1>0 DEF Returning
  <2>2. Len(wss) \in DOMAIN wss
    BY <1>0, <2>1
  <2> QED BY <1>0, <2>1, <2>2, PartsType DEF Placed
<1> HIDE DEF ws, e
<1>l. ASSUME NEW new, new.dir = ws.dir,
             wss' = [wss EXCEPT ![Len(wss)] = new],
             UNCHANGED <<phase, held, todo, store>>, minted <= minted',
             \/ cur' = cur /\ Partly(new, e, at')
             \/ cur' = <<>> /\ Whole(new, minted') /\ Back(new, e)
      PROVE  Kept' /\ BenchStep
  BY <1>0, <1>l, LastReturns DEF ws, e
<1>1. CASE RebuildProc
  <2> DEFINE p == e.procs[at + 1]
             pane == Pane(p.kind, p.work, 0, FALSE, DumpAt(dumps[e.dir].procs, at + 1))
             new == [ws EXCEPT !.procs = Append(@, pane)]
  <2>1. /\ at < Len(e.procs) /\ wss' = [wss EXCEPT ![Len(wss)] = new]
        /\ at' = at + 1
        /\ UNCHANGED <<phase, held, todo, store, cur, minted>>
    BY <1>1 DEF RebuildProc, RebuildLast, diskVars, ws, e
  <2>2. p \in ProcEntryType
    <3>1. at + 1 \in 1 .. Len(e.procs)
      BY <1>0, <1>e, <2>1
    <3> QED BY <1>e, <3>1
  <2>3. pane \in PaneType /\ ProcEntry(pane) = p
    <3>1. DumpAt(dumps[e.dir].procs, at + 1) \in Nat
      BY <1>0, <1>e DEF DumpType, DumpAt
    <3>2. pane \in PaneType
      BY <2>2, <3>1, PaneHasType, 0 \in Nat DEF ProcEntryType
    <3>3. ProcEntry(pane) = p
      BY <2>2 DEF ProcEntry, Pane, ProcEntryType
    <3> QED BY <3>2, <3>3
  <2> HIDE DEF pane
  <2>4. new.dir = ws.dir /\ new.agents = ws.agents /\ new.procs = Append(ws.procs, pane)
    BY <1>w DEF WorkspaceType
  <2> HIDE DEF new
  <2>5. Partly(new, e, at + 1)
    BY <1>0, <1>e, <1>w, <2>1, <2>3, <2>4, PartlyProc
  <2>6. minted <= minted'
    BY <1>0, <2>1
  <2>7. Partly(new, e, at')
    BY <2>1, <2>5
  <2> QED BY <1>l, <2>1, <2>4, <2>6, <2>7
<1>2. CASE RebuildAgent
  <2> DEFINE i == at + 1 - Len(e.procs)
             a == e.agents[i]
             pane == Pane("agent", a.work, IF a.spoke THEN a.conv ELSE minted + 1,
                          a.spoke, DumpAt(dumps[e.dir].agents, i))
             new == [ws EXCEPT !.agents = Append(@, pane), !.stage = a.work]
  <2>1. /\ at >= Len(e.procs) /\ at < Len(e.procs) + Len(e.agents)
        /\ wss' = [wss EXCEPT ![Len(wss)] = new]
        /\ minted' = (IF a.spoke THEN minted ELSE minted + 1)
        /\ at' = at + 1 /\ Save(wss', held)
        /\ UNCHANGED <<phase, held, todo, cur>>
    BY <1>2 DEF RebuildAgent, RebuildLast, ws, e
  <2>2. a \in AgentEntryType
    <3>1. i \in 1 .. Len(e.agents)
      <4>1. \A x, l, n \in Nat : x >= l /\ x < l + n => x + 1 - l \in 1 .. n
        OBVIOUS
      <4> QED BY <1>0, <1>e, <2>1, <4>1
    <3> HIDE DEF i
    <3> QED BY <1>e, <3>1
  <2>3. pane \in PaneType /\ Reopened(pane, a)
    <3>1. DumpAt(dumps[e.dir].agents, i) \in Nat
      <4> HIDE DEF i
      <4> QED BY <1>0, <1>e DEF DumpType, DumpAt
    <3>2. (IF a.spoke THEN a.conv ELSE minted + 1) \in Nat /\ a.work \in Nat
          /\ a.spoke \in BOOLEAN
      <4> HIDE DEF a
      <4> QED BY <1>0, <2>2 DEF AgentEntryType
    <3> HIDE DEF a, i
    <3>3. pane \in PaneType
      BY <3>1, <3>2, PaneHasType
    <3>4. Reopened(pane, a)
      BY DEF Reopened, Pane
    <3> QED BY <3>3, <3>4
  <2> HIDE DEF pane
  <2>4. new.dir = ws.dir /\ new.procs = ws.procs /\ new.agents = Append(ws.agents, pane)
    <3> HIDE DEF a
    <3> QED BY <1>w DEF WorkspaceType
  <2> HIDE DEF new
  <2>5. Partly(new, e, at + 1)
    BY <1>0, <1>e, <1>w, <2>1, <2>3, <2>4, PartlyAgent
  <2>6. minted <= minted' /\ UNCHANGED store
    <3>1. UNCHANGED store
      BY <1>s, <2>1
    <3>2. minted' \in {minted, minted + 1}
      BY <2>1
    <3> QED BY <1>0, <3>1, <3>2
  <2>7. Partly(new, e, at')
    BY <2>1, <2>5
  <2> QED BY <1>l, <2>1, <2>4, <2>6, <2>7
<1>3. CASE EndRebuild
  <2> DEFINE new == [ws EXCEPT !.stage = StagedWork(ws, e)]
  <2>1. /\ at = Len(e.procs) + Len(e.agents)
        /\ wss' = [wss EXCEPT ![Len(wss)] = new]
        /\ cur' = <<>> /\ Save(wss', held)
        /\ UNCHANGED <<phase, held, todo, minted>>
    BY <1>3 DEF EndRebuild, RebuildLast, ws, e
  <2>2. /\ new.dir = ws.dir /\ new.agents = ws.agents /\ new.procs = ws.procs
        /\ new.stage = StagedWork(ws, e)
    BY <1>w DEF WorkspaceType
  <2> HIDE DEF new
  <2>3. Whole(new, minted) /\ Back(new, e)
    BY <1>0, <1>e, <1>w, <2>1, <2>2, AllReopened
  <2>4. UNCHANGED store /\ minted <= minted' /\ Whole(new, minted')
    BY <1>0, <1>s, <2>1, <2>3
  <2> QED BY <1>l, <2>1, <2>2, <2>3, <2>4
<1> QED BY <1>1, <1>2, <1>3

(* When the daemon is up again, every directory is what the file said of it.*)
LEMMA BackAgain ==
    ASSUME IInv, Kept, RestoreDone
    PROVE  /\ \A e \in Entries(store) :
                  \/ e \in held
                  \/ \E k \in DOMAIN wss : Back(wss[k], e)
           /\ held \subseteq Entries(store)
           /\ \A k \in DOMAIN wss : \E e \in Entries(store) : e.dir = wss[k].dir
           /\ WellPlaced(wss, held, minted)
<1>1. phase = "restoring" /\ cur = <<>> /\ Entries(todo) = {}
  BY EmptyScattered DEF RestoreDone
<1>2. WellPlaced(wss, held, minted)
  BY <1>1, PlacedUp DEF Kept
<1> QED BY <1>1, <1>2 DEF Kept, Returning

LEMMA DoneReturns ==
    ASSUME IInv, IInv', Idle', Kept, RestoreDone
    PROVE  Kept' /\ BenchStep
<1>0. /\ TypeOK /\ TypeOK' /\ store \in StoreType /\ wss \in Seq(WorkspaceType)
      /\ held \in SUBSET EntryType /\ minted \in Nat /\ Placed
  BY DEF IInv, TypeOK, Kept
<1>1. /\ phase = "restoring" /\ phase' = "up" /\ store' = Persisted(wss, held)
      /\ UNCHANGED <<wss, held, minted>>
      /\ cur' = <<>> /\ todo' = EmptyStore
  BY DEF RestoreDone, restoreVars, Idle
<1>2. WellPlaced(wss, held, minted)
  BY BackAgain
<1>3. WellPlaced(wss, held, minted)'
  BY <1>1, <1>2 DEF WellPlaced
<1>4. Placed'
  BY <1>0, <1>1, <1>3, PlacedKept
<1> DEFINE old == BenchOf(store)
           new == BenchOf(Persisted(wss, held))
<1>5. Bench = old /\ Bench' = new /\ BenchOf(store)' = new
  BY <1>1 DEF Bench
<1>r. \A e, a, b : RosterOf(e, a) = [RosterOf(e, b) EXCEPT !.away = a]
  <2> DEFINE R(x, y, z, a) == [agents |-> x, procs |-> y, stage |-> z, away |-> a]
  <2>1. \A e, a : RosterOf(e, a)
                     = R(RosterOf(e, FALSE).agents, e.procs, RosterOf(e, FALSE).stage, a)
    BY DEF RosterOf
  <2> HIDE DEF R
  <2>2. ASSUME NEW e, NEW a, NEW b PROVE RosterOf(e, a) = [RosterOf(e, b) EXCEPT !.away = a]
    <3> DEFINE x == RosterOf(e, FALSE).agents
               z == RosterOf(e, FALSE).stage
    <3>1. RosterOf(e, a) = R(x, e.procs, z, a) /\ RosterOf(e, b) = R(x, e.procs, z, b)
      BY <2>1
    <3> HIDE DEF x, z
    <3>2. R(x, e.procs, z, a) = [R(x, e.procs, z, b) EXCEPT !.away = a]
      BY DEF R
    <3> QED BY <3>1, <3>2
  <2> QED BY <2>2
<1> HIDE DEF old, new
<1>6. ASSUME NEW d \in Dirs PROVE new[d] = [old[d] EXCEPT !.away = new[d].away]
  <2>1. CASE \E e \in Entries(store) : e.dir = d
    <3>1. PICK e \in Entries(store) : e.dir = d
      BY <2>1
    <3>2. old[d] = RosterOf(e, e \in store.held)
      BY <1>0, <3>1, BenchOfEntry DEF Placed, old
    <3>3. \E a : new[d] = RosterOf(e, a)
      <4>1. CASE e \in held
        <5>1. new[d] = RosterOf(e, TRUE)
          BY <1>0, <1>2, <3>1, <4>1, BenchHeld DEF WellPlaced, new
        <5> QED BY <5>1
      <4>2. ASSUME NEW k \in DOMAIN wss, Back(wss[k], e) PROVE new[d] = RosterOf(e, FALSE)
        <5>1. BenchOf(Persisted(wss, held))[wss[k].dir] = RosterOf(Entry(wss[k]), FALSE)
          BY <1>0, <1>2, BenchOpen DEF WellPlaced
        <5> QED BY <3>1, <4>2, <5>1 DEF Back, new
      <4> QED BY <4>1, <4>2, BackAgain
    <3>4. PICK a : new[d] = RosterOf(e, a)
      BY <3>3
    <3>5. new[d].away = a
      BY <3>4, AwayOf
    <3>6. RosterOf(e, a) = [RosterOf(e, e \in store.held) EXCEPT !.away = a]
      BY <1>r
    <3> QED BY <3>2, <3>4, <3>5, <3>6
  <2>2. CASE \A e \in Entries(store) : e.dir # d
    <3>1. d \notin OpenDirs(wss) /\ \A e \in held : e.dir # d
      BY <2>2, BackAgain DEF OpenDirs
    <3>2. old[d] = Closed
      BY <2>2, BenchOfNone DEF old
    <3>3. new[d] = Closed
      BY <1>0, <1>2, <3>1, BenchShut DEF WellPlaced, new
    <3>4. Closed = [Closed EXCEPT !.away = Closed.away]
      BY DEF Closed
    <3> QED BY <3>2, <3>3, <3>4
  <2> QED BY <2>1, <2>2
<1>7. W!Start
  <2>1. Life = "shut" /\ Life' = "serving"
    BY <1>1 DEF Life
  <2> QED BY <1>5, <1>6, <2>1 DEF W!Start
<1> QED BY <1>1, <1>4, <1>7 DEF Kept, BenchStep, W!Next

-----------------------------------------------------------------------------
LEMMA KeptInit == Init => Kept /\ W!Init
<1> SUFFICES ASSUME Init PROVE Kept /\ W!Init
  OBVIOUS
<1>1. /\ phase = "down" /\ wss = <<>> /\ held = {} /\ todo = EmptyStore /\ cur = <<>>
      /\ store = EmptyStore
  BY DEF Init
<1>2. Kept
  BY <1>1, EmptyScattered, NothingToCome DEF Kept, Placed, DirsApart, HeldAway
<1>3. BenchOf(EmptyStore) = [d \in Dirs |-> Closed]
  BY EmptyScattered DEF BenchOf
<1>4. W!Init
  BY <1>1, <1>3 DEF W!Init, Bench, Life
<1> QED BY <1>2, <1>4

LEMMA KeptNext ==
    ASSUME IInv, IInv', Idle, Idle', Kept, Faults = {}, [Next]_vars
    PROVE  Kept' /\ BenchStep
<1>u. CASE UNCHANGED vars
  BY <1>u DEF vars, Kept, Placed, Returning, InHand, BenchStep, Bench, Life
<1>1. CASE Start
  BY <1>1, StartReturns
<1>2. CASE Restore
  BY <1>2, VisitReturns, RebuildReturns, DoneReturns DEF Restore
<1>3. CASE Serve
  <2>1. phase' # "restoring"
    BY <1>3, ServeWrites DEF Written
  <2> QED BY <1>3, <2>1, ServeEdits DEF Kept
<1>4. CASE Stop
  <2>1. phase' # "restoring"
    BY <1>4, StopSteps
  <2> QED BY <1>4, <2>1, StopSaves DEF Kept
<1> QED BY <1>u, <1>1, <1>2, <1>3, <1>4 DEF Next

(* As long as nobody opens a directory twice, every program can be started  *)
(* again and no workspace is left without a process, the daemon implements  *)
(* Workbench: a start changes nothing of any directory but whether it is    *)
(* away, a stop that was asked for loses nothing, and a crash loses at most *)
(* what was not written down yet.                                           *)
THEOREM WorkbenchIsKept == ASSUME Faults = {} PROVE Spec => WorkbenchSurvives
<1>1. IInv /\ Idle /\ Kept /\ [Next]_vars => (IInv /\ Idle /\ Kept)' /\ BenchStep
  BY IInvNext, IdleNext, KeptNext
<1>2. Init => IInv /\ Idle /\ Kept /\ W!Init
  <2>1. Init => Idle
    BY DEF Init, Idle
  <2> QED BY <2>1, IInvInit, KeptInit
<1> QED BY <1>1, <1>2, PTL DEF Spec, WorkbenchSurvives, W!Spec, BenchStep

(* Under the same conditions a start forgets no agent that session.json     *)
(* names.                                                                   *)
THEOREM AgentsAreRemembered == ASSUME Faults = {} PROVE Spec => RestartForgetsNothing
<1> DEFINE Step == phase = "restoring" => AgentWorks(store) \subseteq AgentWorks(store')
<1>1. IInv /\ Idle /\ Kept /\ [Next]_vars => (IInv /\ Idle /\ Kept)'
  BY IInvNext, IdleNext, KeptNext
<1>2. Init => IInv /\ Idle /\ Kept
  <2>1. Init => Idle
    BY DEF Init, Idle
  <2> QED BY <2>1, IInvInit, KeptInit
<1>3. ASSUME IInv, Kept, RestoreDone
      PROVE  AgentWorks(store) \subseteq AgentWorks(store')
  <2>0. /\ wss \in Seq(WorkspaceType) /\ held \in SUBSET EntryType
        /\ store' = Persisted(wss, held)
    BY <1>3 DEF IInv, TypeOK, RestoreDone
  <2>1. Entries(store') = {Entry(wss[k]) : k \in DOMAIN wss} \cup held
    BY <1>3, <2>0, BackAgain, WrittenOnce DEF WellPlaced
  <2>2. ASSUME NEW e \in Entries(store), NEW i \in DOMAIN e.agents
        PROVE  e.agents[i].work \in AgentWorks(store')
    <3>1. CASE e \in held
      BY <2>1, <2>2, <3>1 DEF AgentWorks
    <3>2. ASSUME NEW k \in DOMAIN wss, Back(wss[k], e)
          PROVE  e.agents[i].work \in AgentWorks(store')
      <4> DEFINE x == Entry(wss[k])
      <4>1. RosterOf(x, FALSE).agents = RosterOf(e, FALSE).agents
        BY <3>2 DEF Back
      <4>2. \A y : /\ DOMAIN RosterOf(y, FALSE).agents = DOMAIN y.agents
                   /\ \A j \in DOMAIN y.agents :
                          RosterOf(y, FALSE).agents[j].work = y.agents[j].work
        BY DEF RosterOf
      <4> HIDE DEF x
      <4>3. i \in DOMAIN x.agents /\ x.agents[i].work = e.agents[i].work
        BY <2>2, <4>1, <4>2
      <4>4. x \in Entries(store')
        BY <2>1, <3>2 DEF x
      <4> QED BY <4>3, <4>4 DEF AgentWorks
    <3> QED BY <1>3, <3>1, <3>2, BackAgain
  <2> QED BY <2>2 DEF AgentWorks
<1>4. ASSUME IInv, Kept, [Next]_vars PROVE [Step]_vars
  <2>1. CASE Start \/ Serve
    BY <1>4, <2>1, ServeWrites DEF Start, Written
  <2>2. CASE Restore /\ ~ RestoreDone
    BY <1>4, <2>2, RestoreKeeps DEF Restored
  <2>3. CASE RestoreDone
    BY <1>3, <1>4, <2>3
  <2>4. CASE Stop
    BY <1>4, <2>4, StopSteps
  <2> QED BY <1>4, <2>1, <2>2, <2>3, <2>4 DEF Next
<1> HIDE DEF Step
<1>5. IInv /\ Idle /\ Kept /\ [Next]_vars => [Step]_vars
  BY <1>4
<1> QED BY <1>1, <1>2, <1>5, PTL DEF Spec, RestartForgetsNothing, Step
=============================================================================

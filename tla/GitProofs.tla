----------------------------- MODULE GitProofs ------------------------------
(***************************************************************************)
(* What is proved about git on the daemon's side: the rails that show the  *)
(* changes of a working tree (module GitRail) and the write lock of the    *)
(* operations (module GitOps), for any number of workspaces, repositories, *)
(* changes, closed rails and operations.                                   *)
(*                                                                         *)
(* Of the rails: one scan of a rail at a time, no change the daemon        *)
(* answered for is dropped, no rail goes back, and late answers reach      *)
(* nobody else's rail.  Of the lock: it is held under every living         *)
(* operation (LockIsHeld) whatever the paths are.  That it keeps a second  *)
(* writer out of the REPOSITORY needs that all workspaces of a worktree    *)
(* name its root by one path (OneName): OneWriterPerRepository assumes it, *)
(* and the counterexample TLC finds without it (MCPanes, OneBelow) shows   *)
(* that it cannot be dropped.                                              *)
(***************************************************************************)
EXTENDS GitRail, GitOps, FiniteSetTheorems, TLAPS

-----------------------------------------------------------------------------
(* THE RAILS.                                                               *)
On(w) == rail[w] # 0
Open == {w \in live : On(w)}

(* A pane id is spent once: by a workspace that has its rail, by one that   *)
(* is closed, or on a rail that a client closed.                            *)
Spent ==
    /\ live \cap closed = {}
    /\ \A w \in Ws : On(w) => w \in live /\ rail[w] <= allocated
    /\ \A v, w \in Ws : On(v) /\ rail[v] = rail[w] => v = w
    /\ allocated <= Cardinality(Open \cup closed) + kills

(* The flags of the scans go with the scans, for the rails R among the      *)
(* panes made so far: a pane that is busy has one scan, and one that is not *)
(* has none unless its rail is gone.                                        *)
Fits(busy, deferred, inFlight, R, top) ==
    /\ deferred \subseteq busy
    /\ \A p \in busy : p <= top /\ \E s \in inFlight : s.pane = p
    /\ \A s, t \in inFlight : s.pane = t.pane /\ s.pane \in busy => s = t
    /\ \A s \in inFlight : s.pane <= top /\ (s.pane \in R => s.pane \in busy)
Paired == Fits(refreshing, again, scans, Rails, allocated)

(* Scans and rails see their own repository, none sees a change that was    *)
(* not made, and a scan that has looked saw what its rail shows.            *)
Seen ==
    /\ \A p \in Panes : p \notin Rails => shown[p] = 0 /\ owed[p] = 0
    /\ \A w \in Open : shown[rail[w]] <= tree[Repo[w]] /\ owed[rail[w]] <= tree[Repo[w]]
    /\ \A s \in scans : s.seen <= tree[s.repo]
    /\ \A w \in Open, s \in scans : s.pane = rail[w] =>
          s.repo = Repo[w] /\ (s.seen # 0 => shown[rail[w]] <= s.seen)

IInv == StateType /\ Spent /\ Paired /\ Seen /\ NothingDropped

(* What a rail moved by itself the daemon answered for.                     *)
RowInv == RowsType /\ \A p \in Panes : mine[p] <= owed[p]

-----------------------------------------------------------------------------
(* Pane ids.                                                                *)

LEMMA SpentFinite ==
    ASSUME StateType
    PROVE  /\ IsFiniteSet(Open \cup closed)
           /\ Cardinality(Open \cup closed) \in Nat
           /\ Cardinality(Open \cup closed) <= Cardinality(Ws)
           /\ Cardinality(Ws) \in Nat
<1>1. Open \cup closed \in SUBSET Ws
    BY DEF StateType, Open
<1> QED
    BY <1>1, RailAssumption, FS_Subset, FS_CardinalityType

(* There is an id for a workspace that is open and has no rail.             *)
LEMMA Room ==
    ASSUME StateType, Spent, NEW w \in Ws, w \notin closed, ~ On(w)
    PROVE  allocated \in Nat /\ allocated + 1 \in Panes
<1>1. Open \cup closed \in SUBSET (Ws \ {w})
    BY DEF StateType, Open, On
<1>2. /\ IsFiniteSet(Ws \ {w})
      /\ Cardinality(Ws \ {w}) = Cardinality(Ws) - 1
    BY RailAssumption, FS_RemoveElement
<1>3. Cardinality(Open \cup closed) <= Cardinality(Ws) - 1
    BY <1>1, <1>2, FS_Subset
<1>4. /\ Cardinality(Open \cup closed) \in Nat /\ Cardinality(Ws) \in Nat
      /\ MaxFaults \in Nat /\ kills \in 0 .. MaxFaults /\ allocated \in Nat
    BY SpentFinite, RailAssumption DEF StateType, Panes
<1>5. allocated <= Cardinality(Open \cup closed) + kills
    BY DEF Spent
<1>6. allocated + 1 \in 1 .. Cardinality(Ws) + MaxFaults
    BY <1>3, <1>4, <1>5
<1> QED
    BY <1>4, <1>6 DEF Panes

LEMMA InstallSpends ==
    ASSUME StateType, Spent, NEW w \in Ws, w \notin closed, ~ On(w),
           live' = live \cup {w}, allocated' = allocated + 1,
           rail' = [rail EXCEPT ![w] = allocated + 1], UNCHANGED <<closed, kills>>
    PROVE  Spent'
<1>1. allocated \in Nat
    BY Room
<1>2. (Open \cup closed)' = (Open \cup closed) \cup {w}
    BY <1>1 DEF StateType, Open, On
<1>3. w \notin Open \cup closed
    BY DEF Open
<1>4. Cardinality((Open \cup closed)') = Cardinality(Open \cup closed) + 1
    BY <1>2, <1>3, SpentFinite, FS_AddElement
<1>5. allocated' <= (Cardinality(Open \cup closed) + kills)'
    BY <1>1, <1>4, SpentFinite DEF Spent, StateType
<1>6. /\ \A v \in Ws : rail[v] <= allocated
      /\ \A v \in Ws : rail'[v] = IF v = w THEN allocated + 1 ELSE rail[v]
      /\ \A v \in Ws : rail[v] \in Nat
    BY <1>1 DEF StateType, Spent, On, Panes
<1>7. (live \cap closed = {})'
    BY DEF Spent
<1>8. (\A v \in Ws : On(v) => v \in live /\ rail[v] <= allocated)'
    BY <1>1, <1>6 DEF Spent, On
<1>9. (\A u, v \in Ws : On(u) /\ rail[u] = rail[v] => u = v)'
    BY <1>1, <1>6 DEF Spent, On
<1> QED
    BY <1>5, <1>7, <1>8, <1>9 DEF Spent

LEMMA KillSpends ==
    ASSUME StateType, Spent, NEW w \in live, live' = live \ {w}, closed' = closed \cup {w},
           rail' = [rail EXCEPT ![w] = 0], UNCHANGED <<allocated, kills>>
    PROVE  Spent'
<1>1. (Open \cup closed)' = (Open \cup closed) \cup {w}
    BY DEF StateType, Open, On
<1>2. /\ IsFiniteSet((Open \cup closed)')
      /\ Cardinality(Open \cup closed) <= Cardinality((Open \cup closed)')
      /\ Cardinality((Open \cup closed)') \in Nat
    <2> DEFINE S == Open \cup closed
    <2>1. IsFiniteSet(S \cup {w})
        BY SpentFinite, FS_AddElement
    <2>2. Cardinality(S) <= Cardinality(S \cup {w}) /\ Cardinality(S \cup {w}) \in Nat
        <3>1. S \in SUBSET (S \cup {w})
            OBVIOUS
        <3> QED
            BY <2>1, <3>1, FS_Subset, FS_CardinalityType
    <2> QED
        BY <1>1, <2>1, <2>2
<1>3. allocated' <= (Cardinality(Open \cup closed) + kills)'
    <2>1. /\ allocated \in Int /\ kills \in Int /\ Cardinality(Open \cup closed) \in Int
          /\ allocated <= Cardinality(Open \cup closed) + kills
        BY SpentFinite, RailAssumption DEF Spent, StateType, Panes
    <2> QED
        BY <1>2, <2>1
<1>4. (live \cap closed = {})'
    BY DEF Spent
<1>5. (\A v \in Ws : On(v) => v \in live /\ rail[v] <= allocated)'
    BY DEF Spent, On, StateType
<1>6. (\A u, v \in Ws : On(u) /\ rail[u] = rail[v] => u = v)'
    BY DEF Spent, On, StateType
<1> QED
    BY <1>3, <1>4, <1>5, <1>6 DEF Spent

LEMMA CloseSpends ==
    ASSUME StateType, Spent, NEW w \in live, On(w), rail' = [rail EXCEPT ![w] = 0],
           kills' = kills + 1, UNCHANGED <<live, closed, allocated>>
    PROVE  Spent'
<1>1. (Open \cup closed)' = (Open \cup closed) \ {w} /\ w \in Open \cup closed
    BY DEF StateType, Open, On, Spent
<1>2. Cardinality((Open \cup closed)') = Cardinality(Open \cup closed) - 1
    BY <1>1, SpentFinite, FS_RemoveElement
<1>3. allocated' <= (Cardinality(Open \cup closed) + kills)'
    <2>1. /\ allocated \in Int /\ kills \in Int /\ Cardinality(Open \cup closed) \in Int
          /\ allocated <= Cardinality(Open \cup closed) + kills
        BY SpentFinite, RailAssumption DEF Spent, StateType, Panes
    <2> QED
        BY <1>2, <2>1
<1>4. (\A v \in Ws : On(v) => v \in live /\ rail[v] <= allocated)'
    BY DEF Spent, On, StateType
<1>5. (\A u, v \in Ws : On(u) /\ rail[u] = rail[v] => u = v)'
    BY DEF Spent, On, StateType
<1> QED
    BY <1>3, <1>4, <1>5 DEF Spent

-----------------------------------------------------------------------------
(* Scans.                                                                   *)

(* A request keeps the flags and the scans in step, whatever rails it is    *)
(* for.                                                                     *)
LEMMA RefreshFits ==
    ASSUME NEW W, NEW on, NEW busy, NEW deferred, NEW inFlight, NEW R, NEW top,
           Fits(busy, deferred, inFlight, R, top),
           \A w \in W : on[w] \in R /\ on[w] <= top,
           \A v, w \in W : on[v] = on[w] => v = w,
           Refresh(W, on, busy, deferred, inFlight)
    PROVE  Fits(refreshing', again', scans', R, top)
<1>1. \A p : p \in refreshing' <=> p \in busy \/ \E w \in W : p = on[w]
    BY DEF Refresh
<1>2. \A p \in again' : p \in deferred \/ p \in busy
    BY DEF Refresh
<1>3. \A s : s \in scans' <=> s \in inFlight \/ \E w \in W : on[w] \notin busy /\ s = NewScan(w, on[w])
    BY DEF Refresh
<1>4. \A w \in W : NewScan(w, on[w]).pane = on[w]
    BY DEF NewScan
<1>5. \A p \in refreshing' : p <= top /\ \E s \in scans' : s.pane = p
    BY <1>1, <1>3, <1>4 DEF Fits
<1>6. ASSUME NEW s \in scans', NEW t \in scans', s.pane = t.pane, s.pane \in refreshing'
      PROVE  s = t
    <2>1. CASE s.pane \in busy
        BY <1>3, <1>4, <1>6, <2>1 DEF Fits
    <2>2. CASE s.pane \notin busy
        <3>1. PICK v \in W : s.pane = on[v]
            BY <1>1, <1>6, <2>2
        <3>2. s \notin inFlight /\ t \notin inFlight
            BY <1>6, <2>2, <3>1 DEF Fits
        <3> QED
            BY <1>3, <1>4, <1>6, <3>2
    <2> QED
        BY <2>1, <2>2
<1>7. \A s \in scans' : s.pane <= top /\ (s.pane \in R => s.pane \in refreshing')
    BY <1>1, <1>3, <1>4 DEF Fits
<1> QED
    BY <1>1, <1>2, <1>5, <1>6, <1>7 DEF Fits

(* A step that leaves rails and scans alone asks for nothing.               *)
LEMMA NothingAsked ==
    ASSUME UNCHANGED scanVars
    PROVE  RequestRefresh({})
BY DEF scanVars, RequestRefresh, Refresh

(* What a request for the rails of W leaves behind: a walk that has yet to  *)
(* look, or the debt of one.                                                *)
LEMMA RequestComes ==
    ASSUME NEW W \in SUBSET Open, RequestRefresh(W), NEW w \in W
    PROVE  rail[w] \in again' \/ \E s \in scans' : s.pane = rail[w] /\ s.seen = 0
<1>1. CASE rail[w] \in refreshing
    BY <1>1 DEF RequestRefresh, Refresh
<1>2. CASE rail[w] \notin refreshing
    <2>1. NewScan(w, rail[w]) \in scans'
        BY <1>2 DEF RequestRefresh, Refresh
    <2> QED
        BY <2>1 DEF NewScan
<1> QED
    BY <1>1, <1>2

(* The scans after a request: those before it, and new ones of their own    *)
(* repository that have not looked yet.                                     *)
LEMMA RequestScans ==
    ASSUME NEW W \in SUBSET Open, RequestRefresh(W)
    PROVE  /\ scans \subseteq scans' /\ again \subseteq again'
           /\ \A s \in scans' : s \in scans \/ \E w \in W : s = NewScan(w, rail[w])
BY DEF RequestRefresh, Refresh

LEMMA RailIds ==
    ASSUME StateType, Spent
    PROVE  /\ allocated \in Nat
           /\ \A w \in Open : rail[w] \in Panes /\ rail[w] <= allocated /\ w \in Ws /\ rail[w] # 0
           /\ \A p : p \in Rails <=> \E w \in Open : rail[w] = p
           /\ \A v, w \in Open : rail[v] = rail[w] => v = w
           /\ \A w \in Ws : w \notin Open => rail[w] = 0
<1>1. allocated \in Nat
    BY SpentFinite, RailAssumption DEF StateType, Panes
<1> QED
    BY <1>1 DEF StateType, Spent, Open, On, Rails

(* Whoever changes a tree, and whoever asks for a scan of whichever rails,  *)
(* leaves the invariant as it is, provided that what the daemon answers for *)
(* is asked for.                                                            *)
LEMMA Asking ==
    ASSUME IInv, NEW W \in SUBSET Open, RequestRefresh(W),
           UNCHANGED <<live, closed, rail, allocated, shown, kills>>,
           tree' \in [Repos -> Nat], \A r \in Repos : tree[r] <= tree'[r],
           owed' \in [Panes -> Nat],
           \A p \in Panes : \/ owed'[p] = owed[p]
                            \/ \E w \in W : rail[w] = p /\ owed'[p] <= tree'[Repo[w]]
    PROVE  Spent' /\ Paired' /\ Seen' /\ NothingDropped'
<1> USE DEF IInv
<1>1. Spent' /\ Open' = Open /\ Rails' = Rails
    BY DEF Spent, On, Open, Rails
<1>2. Paired'
    <2>1. \A w \in W : rail[w] \in Rails /\ rail[w] <= allocated
        BY RailIds
    <2>2. \A v, w \in W : rail[v] = rail[w] => v = w
        BY RailIds
    <2>3. Fits(refreshing', again', scans', Rails, allocated)
        BY <2>1, <2>2, RefreshFits DEF Paired, RequestRefresh
    <2> QED
        BY <1>1, <2>3 DEF Paired
<1>3. Seen'
    <2>1. (\A p \in Panes : p \notin Rails => shown[p] = 0 /\ owed[p] = 0)'
        BY <1>1, RailIds DEF Seen
    <2>2. ASSUME NEW w \in Open
          PROVE  shown[rail[w]] <= tree'[Repo[w]] /\ owed'[rail[w]] <= tree'[Repo[w]]
        <3>1. /\ rail[w] \in Panes /\ Repo[w] \in Repos
              /\ tree[Repo[w]] <= tree'[Repo[w]]
              /\ shown[rail[w]] <= tree[Repo[w]] /\ owed[rail[w]] <= tree[Repo[w]]
            BY RailIds, RailAssumption DEF Seen
        <3>2. /\ tree[Repo[w]] \in Nat /\ tree'[Repo[w]] \in Nat
              /\ shown[rail[w]] \in Nat /\ owed[rail[w]] \in Nat
            BY <3>1, RailAssumption DEF StateType
        <3>3. owed'[rail[w]] = owed[rail[w]] \/ owed'[rail[w]] <= tree'[Repo[w]]
            BY <3>1, RailIds
        <3> QED
            BY <3>1, <3>2, <3>3
    <2>3. (\A s \in scans : s.seen <= tree[s.repo])'
        <3>1. ASSUME NEW s \in scans' PROVE s.seen <= tree'[s.repo]
            <4>1. CASE s \in scans
                <5>1. s.repo \in Repos /\ s.seen \in Nat /\ s.seen <= tree[s.repo]
                    BY <4>1 DEF StateType, ScanType, Seen
                <5>2. tree[s.repo] \in Nat /\ tree'[s.repo] \in Nat /\ tree[s.repo] <= tree'[s.repo]
                    BY <5>1 DEF StateType
                <5> QED
                    BY <5>1, <5>2
            <4>2. ASSUME NEW w \in W, s = NewScan(w, rail[w]) PROVE s.seen <= tree'[s.repo]
                <5>1. Repo[w] \in Repos
                    BY RailIds, RailAssumption
                <5> QED
                    BY <4>2, <5>1 DEF NewScan
            <4> QED
                BY <4>1, <4>2, RequestScans
        <3> QED
            BY <3>1
    <2>4. ASSUME NEW w \in Open, NEW s \in scans', s.pane = rail[w]
          PROVE  s.repo = Repo[w] /\ (s.seen # 0 => shown[rail[w]] <= s.seen)
        <3>1. CASE s \in scans
            BY <2>4, <3>1 DEF Seen
        <3>2. ASSUME NEW v \in W, s = NewScan(v, rail[v])
              PROVE  s.repo = Repo[w] /\ s.seen = 0
            BY <2>4, <3>2, RailIds DEF NewScan
        <3> QED
            BY <3>1, <3>2, RequestScans
    <2> QED
        BY <1>1, <2>1, <2>2, <2>3, <2>4 DEF Seen
<1>4. NothingDropped'
    <2>1. ASSUME NEW p \in Rails PROVE Coming(p, owed[p])'
        <3>1. p \in Panes /\ p \in Rails
            BY RailIds
        <3>2. CASE owed'[p] = owed[p]
            BY <3>1, <3>2, RequestScans DEF NothingDropped, Coming, ScansOf
        <3>3. ASSUME NEW w \in W, rail[w] = p PROVE Coming(p, owed[p])'
            BY <3>3, RequestComes DEF Coming, ScansOf
        <3> QED
            BY <3>1, <3>2, <3>3
    <2> QED
        BY <1>1, <2>1 DEF NothingDropped
<1> QED
    BY <1>1, <1>2, <1>3, <1>4

-----------------------------------------------------------------------------
(* The steps.                                                               *)

(* A rail that is installed is a new pane, whose scan is the first.         *)
LEMMA InstallKeeps ==
    ASSUME IInv, NEW w \in Ws, w \notin closed, ~ On(w), live' = live \cup {w},
           InstallRail(w), UNCHANGED <<closed, kills, tree, shown, owed>>
    PROVE  /\ Spent' /\ Paired' /\ Seen' /\ NothingDropped'
           /\ rail' \in [Ws -> Panes \cup {0}] /\ allocated' \in Panes
           /\ refreshing' \in SUBSET Panes /\ again' \in SUBSET Panes
           /\ scans' \in SUBSET ScanType
<1> DEFINE n == allocated + 1
<1> USE DEF IInv
<1>1. /\ allocated \in Nat /\ n \in Panes
      /\ allocated' = n /\ rail' = [rail EXCEPT ![w] = n]
      /\ Refresh({w}, rail', refreshing, again, scans)
    BY Room DEF InstallRail
<1>2. Spent'
    BY <1>1, InstallSpends
<1>3. /\ rail' \in [Ws -> Panes \cup {0}] /\ rail'[w] = n
      /\ Open' = Open \cup {w} /\ w \notin Open
      /\ \A v \in Open : rail'[v] = rail[v] /\ rail[v] <= allocated
    <2>1. rail' \in [Ws -> Panes \cup {0}] /\ rail'[w] = n
        BY <1>1 DEF StateType
    <2>2. Open' = Open \cup {w} /\ w \notin Open
        BY <1>1, <2>1 DEF Open, On, StateType
    <2>3. \A v \in Open : rail'[v] = rail[v] /\ rail[v] <= allocated
        BY <1>1, <2>2, RailIds DEF StateType
    <2> QED
        BY <2>1, <2>2, <2>3
<1>4. Rails' = Rails \cup {n} /\ n \notin Rails
    <2>1. \A p : p \in Rails' <=> \E v \in Open' : rail'[v] = p
        <3>1. StateType => rail \in [Ws -> Panes \cup {0}]
            BY DEF StateType
        <3> QED
            BY <1>3 DEF Rails, Open, On
    <2> QED
        BY <1>1, <1>3, <2>1, RailIds
<1>5. /\ refreshing' = refreshing \cup {n}
      /\ again' = again
      /\ scans' = scans \cup {NewScan(w, n)}
    <2>1. n \notin refreshing
        BY <1>1 DEF Paired, Fits, StateType, Panes
    <2> QED
        BY <1>1, <1>3, <2>1 DEF Refresh
<1>6. Paired'
    <2>1. Fits(refreshing, again, scans, Rails', allocated')
        <3>1. \A s \in scans : s.pane <= allocated /\ s.pane \in Nat
            BY DEF Paired, Fits, StateType, ScanType, Panes
        <3>2. \A p \in refreshing : p <= allocated /\ p \in Nat
            BY DEF Paired, Fits, StateType, Panes
        <3> QED
            BY <1>1, <1>4, <3>1, <3>2 DEF Paired, Fits
    <2>2. n \in Rails' /\ n <= allocated'
        BY <1>1, <1>4
    <2>3. Fits(refreshing', again', scans', Rails', allocated')
        <3>1. \A v \in {w} : rail'[v] \in Rails' /\ rail'[v] <= allocated'
            BY <1>3, <2>2
        <3>2. \A u, v \in {w} : rail'[u] = rail'[v] => u = v
            OBVIOUS
        <3>3. Refresh({w}, rail', refreshing, again, scans)
            BY <1>1
        <3> HIDE DEF n, IInv
        <3> QED
            BY <2>1, <3>1, <3>2, <3>3, RefreshFits
    <2> QED
        BY <2>3 DEF Paired
<1>7. \A s \in scans : s.pane # n
    BY <1>1 DEF Paired, Fits, StateType, ScanType, Panes
<1>8. shown[n] = 0 /\ owed[n] = 0
    BY <1>1, <1>4 DEF Seen
<1>9. Repo[w] \in Repos /\ NewScan(w, n) \in ScanType
    BY <1>1, RailAssumption DEF NewScan, ScanType
<1>10. Seen'
    <2>1. (\A p \in Panes : p \notin Rails => shown[p] = 0 /\ owed[p] = 0)'
        BY <1>4 DEF Seen
    <2>2. (\A v \in Open : shown[rail[v]] <= tree[Repo[v]] /\ owed[rail[v]] <= tree[Repo[v]])'
        BY <1>3, <1>8, <1>9 DEF Seen, StateType
    <2>3. (\A s \in scans : s.seen <= tree[s.repo])'
        BY <1>5, <1>9 DEF Seen, NewScan, StateType
    <2>4. ASSUME NEW v \in Open', NEW s \in scans', s.pane = rail'[v]
          PROVE  s.repo = Repo[v] /\ (s.seen # 0 => shown[rail'[v]] <= s.seen)
        <3>1. CASE v = w
            BY <1>3, <1>5, <1>7, <2>4, <3>1 DEF NewScan
        <3>2. CASE v # w
            <4>1. v \in Open /\ rail'[v] = rail[v] /\ rail[v] # n
                BY <1>1, <1>3, <3>2, RailIds
            <4> QED
                BY <1>5, <2>4, <4>1 DEF Seen, NewScan
        <3> QED
            BY <3>1, <3>2
    <2> QED
        BY <2>1, <2>2, <2>3, <2>4 DEF Seen
<1>11. NothingDropped'
    <2>1. ASSUME NEW p \in Rails' PROVE Coming(p, owed[p])'
        <3>1. CASE p = n
            BY <1>8, <3>1 DEF Coming
        <3>2. CASE p \in Rails
            BY <1>5, <3>2 DEF NothingDropped, Coming, ScansOf
        <3> QED
            BY <1>4, <3>1, <3>2
    <2> QED
        BY <2>1 DEF NothingDropped
<1> QED
    BY <1>1, <1>2, <1>3, <1>5, <1>6, <1>9, <1>10, <1>11 DEF StateType

LEMMA WalkKeeps ==
    ASSUME IInv, NEW s \in scans, ScanWalks(s)
    PROVE  IInv'
<1> DEFINE r == [s EXCEPT !.seen = tree[s.repo]]
<1> USE DEF IInv
<1>1. /\ s.seen = 0 /\ scans' = (scans \ {s}) \cup {r}
      /\ UNCHANGED <<repoVars, paneVars, shown, refreshing, again, probeVars, op, kills, owed>>
    BY DEF ScanWalks
<1>2. /\ s.pane \in Panes /\ s.repo \in Repos
      /\ r.pane = s.pane /\ r.repo = s.repo /\ r.seen = tree[s.repo]
      /\ r \in ScanType /\ tree[s.repo] \in 1 .. MaxTree
    BY RailAssumption DEF StateType, ScanType
<1>3. StateType'
    BY <1>1, <1>2 DEF StateType, repoVars, paneVars, probeVars
<1>4. Spent' /\ Open' = Open /\ Rails' = Rails
    BY <1>1 DEF Spent, On, Open, Rails, paneVars
<1>5. Paired'
    <2>1. \A p \in refreshing : p <= allocated /\ \E t \in scans' : t.pane = p
        BY <1>1, <1>2 DEF Paired, Fits
    <2>2. ASSUME NEW t \in scans', NEW u \in scans', t.pane = u.pane, t.pane \in refreshing
          PROVE  t = u
        <3>1. t \in scans \/ t = r
            BY <1>1
        <3>2. u \in scans \/ u = r
            BY <1>1
        <3>3. \A x, y \in scans : x.pane = y.pane /\ x.pane \in refreshing => x = y
            BY DEF Paired, Fits
        <3> QED
            BY <1>1, <1>2, <2>2, <3>1, <3>2, <3>3
    <2>3. \A t \in scans' : t.pane <= allocated /\ (t.pane \in Rails => t.pane \in refreshing)
        BY <1>1, <1>2 DEF Paired, Fits
    <2>4. UNCHANGED <<refreshing, again, allocated>> /\ again \subseteq refreshing
        BY <1>1 DEF Paired, Fits, paneVars
    <2> HIDE DEF IInv
    <2> QED
        BY <1>4, <2>1, <2>2, <2>3, <2>4 DEF Paired, Fits
<1>6. Seen'
    <2>1. (\A p \in Panes : p \notin Rails => shown[p] = 0 /\ owed[p] = 0)'
        BY <1>1, <1>4 DEF Seen
    <2>2. (\A v \in Open : shown[rail[v]] <= tree[Repo[v]] /\ owed[rail[v]] <= tree[Repo[v]])'
        BY <1>1, <1>4 DEF Seen, repoVars, paneVars
    <2>3. ASSUME NEW t \in scans' PROVE t.seen <= tree[t.repo]
        <3>1. CASE t \in scans
            BY <3>1 DEF Seen
        <3>2. CASE t = r
            BY <1>2, <3>2
        <3> QED
            BY <1>1, <3>1, <3>2
    <2>4. ASSUME NEW v \in Open, NEW t \in scans', t.pane = rail[v]
          PROVE  t.repo = Repo[v] /\ (t.seen # 0 => shown[rail[v]] <= t.seen)
        <3>1. CASE t \in scans
            BY <2>4, <3>1 DEF Seen
        <3>2. CASE t = r
            BY <1>2, <2>4, <3>2 DEF Seen
        <3> QED
            BY <1>1, <3>1, <3>2
    <2> QED
        BY <1>1, <1>4, <2>1, <2>2, <2>3, <2>4 DEF Seen, repoVars, paneVars
<1>7. NothingDropped'
    <2>1. ASSUME NEW p \in Rails PROVE Coming(p, owed[p])'
        <3>1. PICK w \in Open : rail[w] = p
            BY RailIds
        <3>2. CASE s.pane = p
            <4>1. owed[p] <= r.seen
                BY <1>2, <3>1, <3>2 DEF Seen
            <4> QED
                BY <1>1, <1>2, <3>2, <4>1 DEF Coming, ScansOf
        <3>3. CASE s.pane # p
            BY <1>1, <3>3 DEF NothingDropped, Coming, ScansOf
        <3> QED
            BY <3>2, <3>3
    <2> QED
        BY <1>1, <1>4, <2>1 DEF NothingDropped
<1> QED
    BY <1>3, <1>4, <1>5, <1>6, <1>7

LEMMA LandKeeps ==
    ASSUME IInv, NEW s \in scans, GitRefreshed(s)
    PROVE  IInv'
<1> DEFINE p == s.pane
           W == {w \in live : rail[w] = p /\ p \in again}
<1> USE DEF IInv
<1>1. /\ s.seen # 0 /\ shown' = Applied(s)
      /\ Refresh(W, rail, refreshing \ {p}, again \ {p}, scans \ {s})
      /\ UNCHANGED <<repoVars, paneVars, probeVars, op, kills, owed>>
    BY DEF GitRefreshed
<1>2. s \in ScanType /\ p \in Panes /\ p # 0 /\ s.repo \in Repos /\ s.seen \in Nat
    BY DEF StateType, ScanType, Panes
<1>3. Spent' /\ Open' = Open /\ Rails' = Rails
    BY <1>1 DEF Spent, On, Open, Rails, paneVars
<1>4. W \subseteq Open /\ \A w \in W : rail[w] = p /\ p \in again /\ w \in Ws /\ p \in Rails
    BY <1>2, RailIds DEF Open, On
<1>5. /\ refreshing' = (refreshing \ {p}) \cup {rail[w] : w \in W}
      /\ again' = again \ {p}
      /\ scans' = (scans \ {s}) \cup {NewScan(w, p) : w \in W}
    BY <1>1, <1>4 DEF Refresh
<1>6. p \in Rails => \A t \in scans : t.pane = p => t = s
    BY DEF Paired, Fits
<1>7. shown' = [q \in Panes |-> IF q = p /\ p \in Rails THEN s.seen ELSE shown[q]]
    BY <1>1 DEF Applied, StateType
<1>8. StateType'
    <2>1. shown' \in [Panes -> 0 .. MaxTree]
        BY <1>2, <1>7 DEF StateType, ScanType
    <2>2. \A w \in W : NewScan(w, p) \in ScanType
        BY <1>2, <1>4, RailAssumption DEF NewScan, ScanType
    <2>3. scans' \in SUBSET ScanType
        BY <1>5, <2>2 DEF StateType
    <2>4. refreshing' \in SUBSET Panes /\ again' \in SUBSET Panes
        BY <1>2, <1>4, <1>5 DEF StateType
    <2> QED
        BY <1>1, <2>1, <2>3, <2>4 DEF StateType, repoVars, paneVars, probeVars
<1>9. Paired'
    <2>1. Fits(refreshing \ {p}, again \ {p}, scans \ {s}, Rails, allocated)
        BY <1>6 DEF Paired, Fits
    <2>2. \A w \in W : rail[w] \in Rails /\ rail[w] <= allocated
        BY <1>4, RailIds
    <2>3. \A v, w \in W : rail[v] = rail[w] => v = w
        BY <1>4, RailIds
    <2>4. Refresh(W, rail, refreshing \ {p}, again \ {p}, scans \ {s})
        BY <1>1
    <2>5. Fits(refreshing', again', scans', Rails, allocated)
        <3> HIDE DEF p, W, IInv
        <3> QED
            BY <2>1, <2>2, <2>3, <2>4, RefreshFits
    <2> QED
        BY <1>1, <1>3, <2>5 DEF Paired, paneVars
<1>10. Seen'
    <2>1. \A q \in Panes : q \notin Rails => shown'[q] = 0 /\ owed[q] = 0
        BY <1>7 DEF Seen
    <2>2. ASSUME NEW w \in Open
          PROVE  shown'[rail[w]] <= tree[Repo[w]] /\ owed[rail[w]] <= tree[Repo[w]]
        <3>1. rail[w] \in Panes /\ rail[w] \in Rails
            BY RailIds
        <3>2. CASE rail[w] = p
            BY <1>7, <3>1, <3>2 DEF Seen
        <3>3. CASE rail[w] # p
            BY <1>7, <3>1, <3>3 DEF Seen
        <3> QED
            BY <3>2, <3>3
    <2>3. ASSUME NEW t \in scans' PROVE t.seen <= tree[t.repo]
        <3>1. CASE t \in scans
            BY <3>1 DEF Seen
        <3>2. ASSUME NEW w \in W, t = NewScan(w, p) PROVE t.seen <= tree[t.repo]
            <4>1. Repo[w] \in Repos
                BY <1>4, RailAssumption
            <4> QED
                BY <3>2, <4>1 DEF NewScan, StateType
        <3> QED
            BY <1>5, <3>1, <3>2
    <2>4. ASSUME NEW v \in Open, NEW t \in scans', t.pane = rail[v]
          PROVE  t.repo = Repo[v] /\ (t.seen # 0 => shown'[rail[v]] <= t.seen)
        <3>1. CASE t \in scans /\ t # s
            <4>1. rail[v] # p
                BY <1>6, <2>4, <3>1, RailIds
            <4>2. shown'[rail[v]] = shown[rail[v]]
                BY <1>7, <4>1, RailIds
            <4> QED
                BY <2>4, <3>1, <4>2 DEF Seen
        <3>2. ASSUME NEW w \in W, t = NewScan(w, p)
              PROVE  t.repo = Repo[v] /\ t.seen = 0
            BY <1>4, <2>4, <3>2, RailIds DEF NewScan
        <3> QED
            BY <1>5, <3>1, <3>2
    <2> QED
        BY <1>1, <1>3, <2>1, <2>2, <2>3, <2>4 DEF Seen, repoVars, paneVars
<1>11. NothingDropped'
    <2>1. ASSUME NEW q \in Rails PROVE Coming(q, owed[q])'
        <3>1. q \in Panes /\ \E w \in Open : rail[w] = q
            BY RailIds
        <3>2. CASE q # p
            BY <1>1, <1>5, <1>7, <3>1, <3>2 DEF NothingDropped, Coming, ScansOf
        <3>3. CASE q = p /\ p \in again
            <4>1. PICK w \in W : TRUE
                BY <3>1, <3>3 DEF Open
            <4>2. NewScan(w, p) \in scans'
                BY <1>5
            <4> QED
                BY <3>3, <4>2 DEF Coming, ScansOf, NewScan
        <3>4. CASE q = p /\ p \notin again
            <4>1. shown[p] \in Nat /\ owed[p] \in Nat /\ shown[p] <= s.seen
                BY <1>1, <1>2, <3>1, <3>4 DEF Seen, StateType
            <4>2. Coming(p, owed[p])
                BY <3>4 DEF NothingDropped
            <4>3. owed[p] <= s.seen
                BY <1>1, <1>2, <1>6, <3>4, <4>1, <4>2 DEF Coming, ScansOf
            <4>4. shown'[p] = s.seen
                BY <1>2, <1>7, <3>4
            <4> QED
                BY <1>1, <1>2, <3>4, <4>1, <4>3, <4>4 DEF Coming
        <3> QED
            BY <3>2, <3>3, <3>4
    <2> QED
        BY <1>3, <2>1 DEF NothingDropped
<1> QED
    BY <1>3, <1>8, <1>9, <1>10, <1>11

(* A rail that goes takes its view along.                                   *)
LEMMA DropViews ==
    ASSUME IInv, NEW w \in live, Rails' = Rails \ {rail[w]}, Open' = Open \ {w},
           DropRail(w), UNCHANGED <<scans, tree>>,
           \A q \in again : q # rail[w] => q \in again'
    PROVE  Seen' /\ NothingDropped'
<1> USE DEF IInv
<1>1. /\ \A q \in Panes : shown'[q] = IF q = rail[w] THEN 0 ELSE shown[q]
      /\ \A q \in Panes : owed'[q] = IF q = rail[w] THEN 0 ELSE owed[q]
      /\ \A v \in Open : v # w => rail'[v] = rail[v]
    BY RailIds DEF DropRail, Without, StateType
<1>2. \A v \in Open : v # w => rail[v] # rail[w] /\ rail[v] \in Panes /\ rail[v] \in Rails
    BY RailIds DEF StateType
<1>3. Seen'
    <2>1. (\A q \in Panes : q \notin Rails => shown[q] = 0 /\ owed[q] = 0)'
        BY <1>1 DEF Seen
    <2>2. (\A v \in Open : shown[rail[v]] <= tree[Repo[v]] /\ owed[rail[v]] <= tree[Repo[v]])'
        BY <1>1, <1>2 DEF Seen
    <2>3. (\A t \in scans : t.seen <= tree[t.repo])'
        BY DEF Seen
    <2>4. (\A v \in Open, t \in scans : t.pane = rail[v] =>
              t.repo = Repo[v] /\ (t.seen # 0 => shown[rail[v]] <= t.seen))'
        BY <1>1, <1>2 DEF Seen
    <2> QED
        BY <2>1, <2>2, <2>3, <2>4 DEF Seen
<1>4. NothingDropped'
    <2>1. ASSUME NEW q \in Rails, q # rail[w] PROVE Coming(q, owed[q])'
        <3>1. q \in Panes
            BY RailIds
        <3> QED
            BY <1>1, <2>1, <3>1 DEF NothingDropped, Coming, ScansOf
    <2> QED
        BY <2>1 DEF NothingDropped
<1> QED
    BY <1>3, <1>4

LEMMA KillKeeps ==
    ASSUME IInv, NEW w \in Ws, KillWorkspace(w)
    PROVE  IInv'
<1> USE DEF IInv
<1>1. /\ w \in live /\ live' = live \ {w} /\ closed' = closed \cup {w}
      /\ refreshing' = refreshing \ {rail[w]} /\ again' = again \ {rail[w]}
      /\ cold' = cold \ {w} /\ DropRail(w)
      /\ UNCHANGED <<repoVars, allocated, scans, probing, probes, op, kills>>
      /\ rail' = [rail EXCEPT ![w] = 0]
    BY DEF KillWorkspace, DropRail
<1>2. StateType'
    <2>1. shown' \in [Panes -> 0 .. MaxTree] /\ owed' \in [Panes -> 0 .. MaxTree]
        BY <1>1, RailAssumption DEF StateType, DropRail, Without
    <2>2. rail' \in [Ws -> Panes \cup {0}]
        BY <1>1 DEF StateType
    <2> QED
        BY <1>1, <2>1, <2>2 DEF StateType, repoVars
<1>3. Spent'
    BY <1>1, KillSpends
<1>4. Open' = Open \ {w}
    BY <1>1 DEF Open, On, StateType
<1>5. Rails' = Rails \ {rail[w]}
    <2>1. \A q : q \in Rails' <=> \E v \in Open' : rail'[v] = q
        BY <1>2, <1>3, RailIds DEF Rails, Open, On
    <2>2. \A v \in Open : v # w => rail'[v] = rail[v] /\ rail[v] # rail[w]
        BY <1>1, RailIds DEF StateType
    <2> QED
        BY <1>4, <2>1, <2>2, RailIds
<1>6. Paired'
    BY <1>1, <1>5 DEF Paired, Fits
<1>7. Seen' /\ NothingDropped'
    BY <1>1, <1>4, <1>5, DropViews DEF repoVars
<1> QED
    BY <1>2, <1>3, <1>6, <1>7

LEMMA CloseKeeps ==
    ASSUME IInv, fails \in Nat, NEW w \in Ws, KillRail(w)
    PROVE  IInv'
<1> USE DEF IInv
<1>1. /\ w \in live /\ On(w) /\ kills + fails < MaxFaults /\ kills' = kills + 1 /\ DropRail(w)
      /\ UNCHANGED <<repoVars, live, closed, allocated, scanVars, probeVars, op>>
      /\ rail' = [rail EXCEPT ![w] = 0]
    BY DEF KillRail, DropRail, On
<1>2. StateType'
    <2>1. kills' \in 0 .. MaxFaults
        BY <1>1, RailAssumption DEF StateType
    <2>2. shown' \in [Panes -> 0 .. MaxTree] /\ owed' \in [Panes -> 0 .. MaxTree]
        BY <1>1, RailAssumption DEF StateType, DropRail, Without
    <2>3. rail' \in [Ws -> Panes \cup {0}]
        BY <1>1 DEF StateType
    <2> QED
        BY <1>1, <2>1, <2>2, <2>3 DEF StateType, repoVars, scanVars, probeVars
<1>3. Spent'
    BY <1>1, CloseSpends
<1>4. Open' = Open \ {w}
    BY <1>1 DEF Open, On, StateType
<1>5. Rails' = Rails \ {rail[w]}
    <2>1. \A q : q \in Rails' <=> \E v \in Open' : rail'[v] = q
        BY <1>2, <1>3, RailIds DEF Rails, Open, On
    <2>2. \A v \in Open : v # w => rail'[v] = rail[v] /\ rail[v] # rail[w]
        BY <1>1, RailIds DEF StateType
    <2> QED
        BY <1>4, <2>1, <2>2, RailIds
<1>6. Paired'
    BY <1>1, <1>5 DEF Paired, Fits, scanVars
<1>7. Seen' /\ NothingDropped'
    BY <1>1, <1>4, <1>5, DropViews DEF repoVars, scanVars
<1> QED
    BY <1>2, <1>3, <1>6, <1>7

(* on_repo_probed and create_workspace.                                     *)
LEMMA FindKeeps ==
    ASSUME IInv, NEW b \in probes, ProbeFinds(b)
    PROVE  IInv'
<1> USE DEF IInv
<1>1. /\ b.ws \in Ws /\ probes' = probes \ {b} /\ probing' = probing \ {b.ws}
      /\ cold' = cold \ {b.ws} /\ UNCHANGED <<repoVars, live, closed, shown, op, kills, owed>>
      /\ IF b.ws \in live /\ rail[b.ws] = 0 THEN InstallRail(b.ws) ELSE NoRail
    BY DEF ProbeFinds, StateType
<1>2. CASE b.ws \in live /\ rail[b.ws] = 0
    <2>1. b.ws \notin closed /\ ~ On(b.ws) /\ live' = live \cup {b.ws}
        BY <1>1, <1>2 DEF Spent, On
    <2>2. /\ Spent' /\ Paired' /\ Seen' /\ NothingDropped'
          /\ rail' \in [Ws -> Panes \cup {0}] /\ allocated' \in Panes
          /\ refreshing' \in SUBSET Panes /\ again' \in SUBSET Panes
          /\ scans' \in SUBSET ScanType
        BY <1>1, <1>2, <2>1, InstallKeeps DEF repoVars
    <2>3. StateType'
        BY <1>1, <2>2 DEF StateType, repoVars
    <2> QED
        BY <2>2, <2>3
<1>3. CASE ~ (b.ws \in live /\ rail[b.ws] = 0)
    <2>1. UNCHANGED <<allocated, rail, scanVars>>
        BY <1>1, <1>3 DEF NoRail
    <2>2. StateType'
        BY <1>1, <2>1 DEF StateType, repoVars, scanVars
    <2>3. \A r \in Repos : tree[r] <= tree'[r]
        BY <1>1 DEF StateType, repoVars
    <2>4. RequestRefresh({})
        BY <2>1, NothingAsked
    <2>5. tree' \in [Repos -> Nat] /\ owed' \in [Panes -> Nat]
        BY <2>2 DEF StateType
    <2>6. Spent' /\ Paired' /\ Seen' /\ NothingDropped'
        BY <1>1, <2>1, <2>3, <2>4, <2>5, Asking
    <2> QED
        BY <2>2, <2>6
<1> QED
    BY <1>2, <1>3

LEMMA OpenKeeps ==
    ASSUME IInv, NEW w \in Ws, OpenWorkspace(w)
    PROVE  IInv'
<1> USE DEF IInv
<1>1. /\ w \notin live /\ w \notin closed /\ live' = live \cup {w}
      /\ UNCHANGED <<repoVars, closed, shown, probeVars, op, kills, owed>>
      /\ IF Repo[w] \in isRepo THEN InstallRail(w) ELSE NoRail
    BY DEF OpenWorkspace
<1>2. ~ On(w)
    BY <1>1 DEF Spent
<1>3. CASE Repo[w] \in isRepo
    <2>1. /\ Spent' /\ Paired' /\ Seen' /\ NothingDropped'
          /\ rail' \in [Ws -> Panes \cup {0}] /\ allocated' \in Panes
          /\ refreshing' \in SUBSET Panes /\ again' \in SUBSET Panes
          /\ scans' \in SUBSET ScanType
        BY <1>1, <1>2, <1>3, InstallKeeps DEF repoVars
    <2>2. StateType'
        BY <1>1, <2>1 DEF StateType, repoVars, probeVars
    <2> QED
        BY <2>1, <2>2
<1>4. CASE Repo[w] \notin isRepo
    <2>1. UNCHANGED <<allocated, rail, scanVars>>
        BY <1>1, <1>4 DEF NoRail
    <2>2. StateType'
        BY <1>1, <2>1 DEF StateType, repoVars, scanVars, probeVars
    <2>3. Open' = Open
        BY <1>1, <1>2, <2>1 DEF Open, On
    <2>4. Rails' = Rails
        <3>1. Rails' \subseteq Rails \cup {rail[w]}
            BY <1>1, <2>1 DEF Rails
        <3>2. rail[w] = 0
            BY <1>2 DEF On
        <3> QED
            BY <1>1, <2>1, <3>1, <3>2 DEF Rails
    <2>5. Spent'
        BY <1>1, <2>1, <2>3 DEF Spent, On
    <2>6. Paired'
        BY <2>1, <2>4 DEF Paired, scanVars
    <2>7. Seen'
        BY <1>1, <2>1, <2>3, <2>4 DEF Seen, scanVars, repoVars
    <2>8. NothingDropped'
        BY <1>1, <2>1, <2>4 DEF NothingDropped, Coming, ScansOf, scanVars
    <2> QED
        BY <2>2, <2>5, <2>6, <2>7, <2>8
<1> QED
    BY <1>3, <1>4

LEMMA RequestTyped ==
    ASSUME IInv, NEW W \in SUBSET Open, RequestRefresh(W)
    PROVE  /\ refreshing' \in SUBSET Panes /\ again' \in SUBSET Panes
           /\ scans' \in SUBSET ScanType
<1>1. ASSUME NEW w \in W
      PROVE  rail[w] \in Panes /\ NewScan(w, rail[w]) \in ScanType
    <2>1. w \in Open /\ StateType /\ Spent
        BY DEF IInv
    <2>2. rail[w] \in Panes /\ w \in Ws
        BY <2>1, RailIds
    <2>3. Repo[w] \in Repos /\ 0 \in 0 .. MaxTree
        BY <2>2, RailAssumption
    <2> QED
        BY <2>2, <2>3 DEF NewScan, ScanType
<1> QED
    BY <1>1 DEF RequestRefresh, Refresh, IInv, StateType

LEMMA ChangeTyped ==
    ASSUME StateType, NEW r \in Repos, Change(r)
    PROVE  /\ tree' \in [Repos -> 1 .. MaxTree]
           /\ \A q \in Repos : tree[q] <= tree'[q]
BY RailAssumption DEF StateType, Change

LEMMA TreeStays ==
    ASSUME StateType, UNCHANGED tree
    PROVE  /\ tree' \in [Repos -> 1 .. MaxTree]
           /\ \A q \in Repos : tree[q] <= tree'[q]
BY RailAssumption DEF StateType

(* The steps that only ask, change a tree, or concern probes and operations.*)
LEMMA OthersKeep ==
    ASSUME IInv, UNCHANGED <<paneVars, shown, kills>>, NEW W \in SUBSET Open, RequestRefresh(W),
           isRepo' \in SUBSET Repos,
           tree' \in [Repos -> 1 .. MaxTree], \A r \in Repos : tree[r] <= tree'[r],
           probing' \in SUBSET Ws, probes' \in SUBSET [ws : Ws, found : {"looking", "yes", "no"}],
           cold' \in SUBSET Ws, op' \in [Ws -> {"none", "running", "ended"}],
           owed' = owed \/ \E w \in W : owed' = [owed EXCEPT ![rail[w]] = tree'[Repo[w]]]
    PROVE  IInv'
<1> USE DEF IInv
<1>1. /\ owed' \in [Panes -> 0 .. MaxTree]
      /\ \A p \in Panes : \/ owed'[p] = owed[p]
                           \/ \E w \in W : rail[w] = p /\ owed'[p] <= tree'[Repo[w]]
    <2>1. CASE owed' = owed
        BY <2>1 DEF StateType
    <2>2. ASSUME NEW w \in W, owed' = [owed EXCEPT ![rail[w]] = tree'[Repo[w]]]
          PROVE  <1>1!1 /\ <1>1!2
        <3>1. /\ rail[w] \in Panes /\ Repo[w] \in Repos
              /\ tree'[Repo[w]] \in 0 .. MaxTree /\ tree'[Repo[w]] <= tree'[Repo[w]]
            BY RailIds, RailAssumption
        <3> QED
            BY <2>2, <3>1 DEF StateType
    <2> QED
        BY <2>1, <2>2
<1>2. StateType'
    BY <1>1, RequestTyped DEF StateType, paneVars
<1>3. tree' \in [Repos -> Nat] /\ owed' \in [Panes -> Nat]
    BY <1>1
<1>4. Spent' /\ Paired' /\ Seen' /\ NothingDropped'
    BY <1>1, <1>3, Asking DEF paneVars
<1> QED
    BY <1>2, <1>4

LEMMA TickKeeps ==
    ASSUME IInv, Tick
    PROVE  IInv'
<1> DEFINE W == {w \in live : rail[w] # 0}
<1>1. W \in SUBSET Open
    BY DEF Open, On
<1>2. /\ probing' \in SUBSET Ws
      /\ probes' \in SUBSET [ws : Ws, found : {"looking", "yes", "no"}]
    BY DEF Tick, Candidates, IInv, StateType
<1>3. /\ RequestRefresh(W)
      /\ UNCHANGED <<repoVars, paneVars, shown, cold, op, kills, owed>>
    BY DEF Tick
<1>4. /\ tree' \in [Repos -> 1 .. MaxTree]
      /\ \A q \in Repos : tree[q] <= tree'[q]
    BY <1>3, TreeStays DEF IInv, repoVars
<1> HIDE DEF W
<1>5. isRepo' \in SUBSET Repos /\ cold' \in SUBSET Ws /\ op' \in [Ws -> {"none", "running", "ended"}]
    BY <1>3 DEF IInv, StateType, repoVars
<1> QED
    BY <1>1, <1>2, <1>3, <1>4, <1>5, OthersKeep

LEMMA ProbeKeeps ==
    ASSUME IInv, NEW b \in probes, ProbeLooks(b) \/ ProbeFails(b)
    PROVE  IInv'
<1>1. /\ UNCHANGED <<repoVars, paneVars, shown, scanVars, op, kills, owed>>
      /\ probing' \in SUBSET Ws /\ cold' \in SUBSET Ws
      /\ probes' \in SUBSET [ws : Ws, found : {"looking", "yes", "no"}]
    <2>1. CASE ProbeLooks(b)
        BY <2>1 DEF ProbeLooks, IInv, StateType
    <2>2. CASE ProbeFails(b)
        BY <2>2 DEF ProbeFails, IInv, StateType
    <2> QED
        BY <2>1, <2>2
<1>2. /\ tree' \in [Repos -> 1 .. MaxTree]
      /\ \A q \in Repos : tree[q] <= tree'[q]
    BY <1>1, TreeStays DEF IInv, repoVars
<1>3. isRepo' \in SUBSET Repos /\ op' \in [Ws -> {"none", "running", "ended"}]
    BY <1>1 DEF IInv, StateType, repoVars
<1> QED
    BY <1>1, <1>2, <1>3, NothingAsked, OthersKeep

(* Mutations, operations, uploads, edits, git init, a backoff that ends.    *)
LEMMA ChangesKeep ==
    ASSUME IInv, NEW w \in Ws,
           \/ Mutate(w) \/ StartGitOp(w) \/ OpWrites(w) \/ OpEnds(w) \/ GitOpDone(w)
           \/ Upload(w) \/ BackoffEnds(w)
    PROVE  IInv'
<1> USE DEF IInv
<1>1. Repo[w] \in Repos
    BY RailAssumption
<1>2. CASE Mutate(w)
    <2>1. /\ {w} \in SUBSET Open /\ RequestRefresh({w}) /\ Change(Repo[w])
          /\ owed' = [owed EXCEPT ![rail[w]] = tree'[Repo[w]]]
          /\ UNCHANGED <<isRepo, paneVars, shown, probeVars, op, kills>>
        BY <1>2 DEF Mutate, Open, On
    <2>2. /\ isRepo' \in SUBSET Repos /\ probing' \in SUBSET Ws /\ cold' \in SUBSET Ws
          /\ probes' \in SUBSET [ws : Ws, found : {"looking", "yes", "no"}]
          /\ op' \in [Ws -> {"none", "running", "ended"}]
        BY <2>1 DEF StateType, probeVars
    <2>3. \E v \in {w} : owed' = [owed EXCEPT ![rail[v]] = tree'[Repo[v]]]
        BY <2>1
    <2> QED
        BY <1>1, <2>1, <2>2, <2>3, ChangeTyped, OthersKeep
<1>3. CASE GitOpDone(w)
    <2>1. /\ op' = [op EXCEPT ![w] = "none"]
          /\ UNCHANGED <<repoVars, paneVars, shown, probeVars, kills>>
        BY <1>3 DEF GitOpDone
    <2>2. /\ isRepo' \in SUBSET Repos /\ probing' \in SUBSET Ws /\ cold' \in SUBSET Ws
          /\ probes' \in SUBSET [ws : Ws, found : {"looking", "yes", "no"}]
          /\ op' \in [Ws -> {"none", "running", "ended"}]
        BY <2>1 DEF StateType, probeVars, repoVars
    <2>3. UNCHANGED tree
        BY <2>1 DEF repoVars
    <2>4. CASE w \in live /\ rail[w] # 0
        <3>1. /\ {w} \in SUBSET Open /\ RequestRefresh({w})
              /\ \E v \in {w} : owed' = [owed EXCEPT ![rail[v]] = tree'[Repo[v]]]
            BY <1>3, <2>3, <2>4 DEF GitOpDone, Open, On
        <3> QED
            BY <2>1, <2>2, <2>3, <3>1, TreeStays, OthersKeep
    <2>5. CASE ~ (w \in live /\ rail[w] # 0)
        <3>1. UNCHANGED <<scanVars, owed>>
            BY <1>3, <2>5 DEF GitOpDone
        <3> QED
            BY <2>1, <2>2, <2>3, <3>1, TreeStays, NothingAsked, OthersKeep
    <2> QED
        BY <2>4, <2>5
<1>4. ASSUME \/ StartGitOp(w) \/ OpWrites(w) \/ OpEnds(w) \/ Upload(w) \/ BackoffEnds(w)
      PROVE  IInv'
    <2>1. /\ UNCHANGED <<isRepo, paneVars, shown, scanVars, probing, probes, kills, owed>>
          /\ op' \in [Ws -> {"none", "running", "ended"}] /\ cold' \in SUBSET Ws
          /\ UNCHANGED tree \/ Change(Repo[w])
        <3>1. CASE StartGitOp(w)
            BY <3>1 DEF StartGitOp, StateType, repoVars, probeVars
        <3>2. CASE OpWrites(w)
            BY <3>2 DEF OpWrites, StateType, probeVars
        <3>3. CASE OpEnds(w)
            BY <3>3 DEF OpEnds, StateType, repoVars, probeVars
        <3>4. CASE Upload(w)
            BY <3>4 DEF Upload, StateType, probeVars
        <3>5. CASE BackoffEnds(w)
            BY <3>5 DEF BackoffEnds, StateType, repoVars
        <3> QED
            BY <1>4, <3>1, <3>2, <3>3, <3>4, <3>5
    <2>2. /\ tree' \in [Repos -> 1 .. MaxTree]
          /\ \A q \in Repos : tree[q] <= tree'[q]
        BY <1>1, <2>1, ChangeTyped, TreeStays
    <2>3. /\ isRepo' \in SUBSET Repos /\ probing' \in SUBSET Ws
          /\ probes' \in SUBSET [ws : Ws, found : {"looking", "yes", "no"}]
        BY <2>1 DEF StateType
    <2> QED
        BY <2>1, <2>2, <2>3, NothingAsked, OthersKeep
<1> QED
    BY <1>2, <1>3, <1>4

LEMMA EditKeeps ==
    ASSUME IInv, NEW r \in Repos, Edit(r) \/ GitInit(r)
    PROVE  IInv'
<1> USE DEF IInv
<1>1. /\ UNCHANGED <<paneVars, shown, scanVars, probeVars, op, kills, owed>>
      /\ isRepo' \in SUBSET Repos
      /\ UNCHANGED tree \/ Change(r)
    <2>1. CASE Edit(r)
        BY <2>1 DEF Edit, Change, StateType
    <2>2. CASE GitInit(r)
        BY <2>2 DEF GitInit, StateType
    <2> QED
        BY <2>1, <2>2
<1>2. /\ tree' \in [Repos -> 1 .. MaxTree]
      /\ \A q \in Repos : tree[q] <= tree'[q]
    BY <1>1, ChangeTyped, TreeStays
<1>3. /\ probing' \in SUBSET Ws /\ cold' \in SUBSET Ws
      /\ probes' \in SUBSET [ws : Ws, found : {"looking", "yes", "no"}]
      /\ op' \in [Ws -> {"none", "running", "ended"}]
    BY <1>1 DEF StateType, probeVars
<1> QED
    BY <1>1, <1>2, <1>3, NothingAsked, OthersKeep

-----------------------------------------------------------------------------
LEMMA Start == Init => IInv
<1> SUFFICES ASSUME Init PROVE IInv
    OBVIOUS
<1>1. Rails = {} /\ Open = {} /\ Open \cup closed = {}
    BY DEF Init, Rails, Open
<1>2. Cardinality({}) = 0
    BY FS_EmptySet
<1>3. StateType
    BY RailAssumption DEF Init, StateType, Panes
<1>4. Spent
    BY <1>1, <1>2 DEF Init, Spent, On
<1>5. Paired /\ Seen /\ NothingDropped
    BY <1>1 DEF Init, Paired, Fits, Seen, NothingDropped
<1> QED
    BY <1>3, <1>4, <1>5 DEF IInv

LEMMA Keeps == IInv /\ RowInv /\ [Next]_vars => IInv'
<1> SUFFICES ASSUME IInv, RowInv, [Next]_vars PROVE IInv'
    OBVIOUS
<1>0. fails \in Nat
    BY RailAssumption DEF RowInv, RowsType
<1>1. CASE Scan
    BY <1>1, WalkKeeps, LandKeeps DEF Scan
<1>2. CASE Probe
    BY <1>2, ProbeKeeps, FindKeeps DEF Probe
<1>3. CASE Tick
    BY <1>3, TickKeeps
<1>4. ASSUME NEW w \in Ws, Request(w) \/ Operation(w) \/ BackoffEnds(w)
      PROVE  IInv'
    BY <1>0, <1>4, OpenKeeps, KillKeeps, CloseKeeps, ChangesKeep DEF Request, Operation
<1>5. ASSUME NEW r \in Repos, Edit(r) \/ GitInit(r)
      PROVE  IInv'
    BY <1>5, EditKeeps
<1>6. CASE UNCHANGED vars
    <2>1. StateType' /\ Open' = Open /\ Rails' = Rails
        BY <1>6 DEF vars, repoVars, paneVars, scanVars, probeVars, IInv, StateType, Open, On, Rails
    <2>2. Spent' /\ Paired' /\ Seen' /\ NothingDropped'
        BY <1>6, <2>1 DEF vars, repoVars, paneVars, scanVars, probeVars, IInv, Spent, On, Paired,
                          Seen, NothingDropped, Coming, ScansOf
    <2> QED
        BY <2>1, <2>2 DEF IInv
<1> QED
    BY <1>1, <1>2, <1>3, <1>4, <1>5, <1>6 DEF Next

LEMMA RowsStart == Init => RowInv
BY RailAssumption DEF Init, RowInv, RowsType, Panes

(* Most steps leave the rails' own rows and what is owed alone.             *)
LEMMA RowsStay ==
    ASSUME Next,
           \A s \in scans : ~ GitRefreshed(s),
           \A w \in Ws : ~ KillWorkspace(w) /\ ~ KillRail(w) /\ ~ Mutate(w) /\ ~ GitOpDone(w)
    PROVE  UNCHANGED <<shown, owed, mine, failed, fails>>
<1>1. CASE Scan
    BY <1>1 DEF Scan, ScanWalks, rowVars
<1>2. CASE Probe
    BY <1>2 DEF Probe, ProbeLooks, ProbeFails, ProbeFinds, rowVars
<1>3. CASE Tick
    BY <1>3 DEF Tick, rowVars
<1>4. ASSUME NEW w \in Ws, Request(w) \/ Operation(w) \/ BackoffEnds(w)
      PROVE  UNCHANGED <<shown, owed, mine, failed, fails>>
    BY <1>4 DEF Request, Operation, OpenWorkspace, StartGitOp, Upload, OpWrites, OpEnds,
                BackoffEnds, rowVars
<1>5. ASSUME NEW r \in Repos, Edit(r) \/ GitInit(r)
      PROVE  UNCHANGED <<shown, owed, mine, failed, fails>>
    BY <1>5 DEF Edit, GitInit, rowVars
<1> QED
    BY <1>1, <1>2, <1>3, <1>4, <1>5 DEF Next

LEMMA RowsKeep == IInv /\ RowInv /\ [Next]_vars => RowInv'
<1> SUFFICES ASSUME IInv, RowInv, [Next]_vars PROVE RowInv'
    OBVIOUS
<1>0. /\ owed \in [Panes -> 0 .. MaxTree] /\ mine \in [Panes -> 0 .. MaxTree]
      /\ failed \in SUBSET Panes /\ fails \in 0 .. MaxFaults /\ kills \in Nat
      /\ MaxTree \in Nat /\ MaxFaults \in Nat
      /\ \A p \in Panes : mine[p] <= owed[p]
    BY RailAssumption DEF IInv, RowInv, StateType, RowsType
<1>1. CASE UNCHANGED <<owed, mine, failed, fails>>
    BY <1>0, <1>1 DEF RowInv, RowsType
<1>2. ASSUME NEW s \in scans, GitRefreshed(s) PROVE RowInv'
    <2>1. s.pane \in Panes /\ Rows(s.pane) /\ UNCHANGED owed
        BY <1>2 DEF GitRefreshed, IInv, StateType, ScanType
    <2>2. mine' = [mine EXCEPT ![s.pane] = 0]
        BY <2>1 DEF Rows
    <2>3. failed' \in SUBSET Panes /\ fails' \in 0 .. MaxFaults
        BY <1>0, <2>1 DEF Rows
    <2> QED
        BY <1>0, <2>1, <2>2, <2>3 DEF RowInv, RowsType
<1>3. ASSUME NEW w \in Ws, KillWorkspace(w) \/ KillRail(w) PROVE RowInv'
    <2>1. DropRail(w)
        BY <1>3 DEF KillWorkspace, KillRail
    <2> QED
        BY <1>0, <2>1 DEF DropRail, Without, RowInv, RowsType
<1>4. ASSUME NEW w \in Ws, w \in live, rail[w] # 0
      PROVE  /\ rail[w] \in Panes /\ tree[Repo[w]] \in 1 .. MaxTree
             /\ owed[rail[w]] <= tree[Repo[w]]
    <2>1. w \in Open /\ Repo[w] \in Repos
        BY <1>4, RailAssumption DEF Open, On
    <2> QED
        BY <2>1, RailIds DEF IInv, Seen, StateType
<1>5. ASSUME NEW w \in Ws, Mutate(w) PROVE RowInv'
    <2>1. /\ w \in live /\ rail[w] # 0 /\ Change(Repo[w]) /\ UNCHANGED <<failed, fails>>
          /\ owed' = [owed EXCEPT ![rail[w]] = tree'[Repo[w]]]
          /\ mine' \in {mine, [mine EXCEPT ![rail[w]] = tree'[Repo[w]]]}
        BY <1>5 DEF Mutate
    <2>2. tree'[Repo[w]] = tree[Repo[w]] + 1 /\ tree'[Repo[w]] \in 0 .. MaxTree
        BY <1>0, <1>4, <2>1, RailAssumption DEF Change, IInv, StateType
    <2>3. \A p \in Panes : mine'[p] <= owed'[p]
        BY <1>0, <1>4, <2>1, <2>2
    <2>4. mine' \in [Panes -> 0 .. MaxTree]
        BY <1>0, <2>1, <2>2
    <2> QED
        BY <1>0, <2>1, <2>3, <2>4 DEF RowInv, RowsType
<1>6. ASSUME NEW w \in Ws, GitOpDone(w) PROVE RowInv'
    <2>1. UNCHANGED <<mine, failed, fails>>
        BY <1>6 DEF GitOpDone, rowVars
    <2>2. CASE UNCHANGED owed
        BY <1>1, <2>1, <2>2
    <2>3. CASE w \in live /\ rail[w] # 0 /\ owed' = [owed EXCEPT ![rail[w]] = tree[Repo[w]]]
        <3>1. \A p \in Panes : mine[p] <= owed'[p]
            BY <1>0, <1>4, <2>3
        <3> QED
            BY <1>0, <2>1, <3>1 DEF RowInv, RowsType
    <2> QED
        BY <1>6, <2>2, <2>3 DEF GitOpDone
<1>7. CASE UNCHANGED vars
    BY <1>1, <1>7 DEF vars, rowVars
<1> QED
    BY <1>1, <1>2, <1>3, <1>5, <1>6, <1>7, RowsStay

(* Pane ids, flags, scans and views stay in step, for any number of         *)
(* workspaces, repositories, changes, closed rails and walks that fail.     *)
THEOREM Inductive == Spec => [](IInv /\ RowInv)
BY Start, Keeps, RowsStart, RowsKeep, PTL DEF Spec

(* However scans, probes, kills and closed rails cross, a rail belongs to   *)
(* one workspace and a scan walks the repository of the rail it is for      *)
(* (on_repo_probed, kill_workspace).                                        *)
THEOREM RailsHaveOneOwner == Spec => []RailsFit
<1>1. IInv => RailsOwned
    <2> SUFFICES ASSUME IInv PROVE RailsOwned
        OBVIOUS
    <2> USE DEF IInv
    <2>1. \A w \in Ws : rail[w] # 0 => w \in live /\ rail[w] <= allocated
        BY DEF Spent, On
    <2>2. \A v, w \in live : rail[v] = rail[w] /\ rail[v] # 0 => v = w
        BY DEF Spent, On, StateType
    <2>3. \A s \in scans, w \in live : s.pane = rail[w] => s.repo = Repo[w]
        BY DEF Seen, Open, On, StateType, ScanType, Panes
    <2> QED
        BY <2>1, <2>2, <2>3 DEF RailsOwned
<1>2. IInv /\ RowInv => TypeOK
    BY DEF IInv, RowInv, TypeOK
<1>3. IInv /\ RowInv => RailsFit
    BY <1>1, <1>2 DEF RailsFit
<1> QED
    BY <1>3, Inductive, PTL

(* request_git_refresh starts one scan of a rail at a time, and whatever    *)
(* was killed meanwhile every flag it left is cleared by a scan.            *)
THEOREM ScansDoNotStack == Spec => []OneScan
<1>1. IInv => OneScan
    <2> SUFFICES ASSUME IInv PROVE OneScan
        OBVIOUS
    <2> USE DEF IInv
    <2>1. ASSUME NEW p \in refreshing PROVE Cardinality(ScansOf(p)) = 1
        <3>1. PICK s \in scans : s.pane = p
            BY DEF Paired, Fits
        <3>2. ScansOf(p) = {s}
            BY <3>1 DEF Paired, Fits, ScansOf
        <3> QED
            BY <3>2, FS_Singleton
    <2>2. again \subseteq refreshing /\ \A p \in Rails : ScansOf(p) # {} => p \in refreshing
        BY DEF Paired, Fits, ScansOf
    <2> QED
        BY <2>1, <2>2 DEF OneScan
<1> QED
    BY <1>1, Inductive, PTL

(* A change the daemon answered for is scanned by a walk that comes after   *)
(* it, although one was running (git_refresh_again).                        *)
THEOREM RequestsAreKept == Spec => []NothingDropped
<1>1. IInv => NothingDropped
    BY DEF IInv
<1> QED
    BY <1>1, Inductive, PTL

(* However late a snapshot lands, it is no older than the one before; and  *)
(* if it takes back a row the rail moved by itself, the walk that has it is *)
(* under way (GitRefreshed, apply).                                         *)
THEOREM RailsGoForward == Spec => NeverBackwards
<1>1. ASSUME IInv, RowInv, Next, NEW p \in Rails, p \in Rails'
      PROVE  /\ shown'[p] >= shown[p]
             /\ TakenBack(p) => \E s \in ScansOf(p)' : s.seen = 0
    <2> USE <1>1 DEF IInv
    <2>1. /\ p \in Panes /\ shown[p] \in Nat /\ \E w \in Open : rail[w] = p
          /\ mine[p] \in Nat /\ owed[p] \in Nat /\ mine[p] <= owed[p]
        BY RailIds DEF StateType, RowInv, RowsType
    <2>2. CASE shown'[p] = shown[p] /\ (mine'[p] = mine[p] \/ mine'[p] # 0)
        BY <2>1, <2>2 DEF TakenBack
    <2>3. ASSUME NEW s \in scans, GitRefreshed(s)
          PROVE  /\ shown'[p] >= shown[p]
                 /\ TakenBack(p) => \E t \in ScansOf(p)' : t.seen = 0
        <3>1. s.seen # 0 /\ shown' = Applied(s) /\ s.seen \in Nat /\ s.pane \in Panes
            BY <2>3 DEF GitRefreshed, StateType, ScanType
        <3>2. CASE s.pane = p
            <4>1. shown'[p] = s.seen /\ shown[p] <= s.seen
                BY <2>1, <3>1, <3>2 DEF Applied, Seen, StateType
            <4>2. ASSUME s.seen < mine[p] PROVE p \in again
                <5>1. owed[p] > s.seen /\ owed[p] > shown[p]
                    BY <2>1, <3>1, <4>1, <4>2
                <5>2. \A t \in ScansOf(p) : t = s
                    BY <3>2 DEF Paired, Fits, ScansOf
                <5>3. Coming(p, owed[p])
                    BY DEF NothingDropped
                <5> QED
                    BY <2>1, <3>1, <5>1, <5>2, <5>3 DEF Coming
            <4>3. ASSUME p \in again PROVE \E t \in ScansOf(p)' : t.seen = 0
                <5>1. PICK w \in Open : rail[w] = p
                    BY <2>1
                <5>2. w \in {v \in live : rail[v] = s.pane /\ s.pane \in again}
                    BY <3>2, <4>3, <5>1 DEF Open
                <5>3. NewScan(w, rail[w]) \in scans'
                    BY <2>3, <3>2, <5>1, <5>2 DEF GitRefreshed, Refresh
                <5> QED
                    BY <5>1, <5>3 DEF ScansOf, NewScan
            <4> QED
                BY <2>1, <3>1, <4>1, <4>2, <4>3 DEF TakenBack
        <3>3. CASE s.pane # p
            <4>1. mine'[p] = mine[p]
                BY <2>1, <2>3, <3>1, <3>3 DEF GitRefreshed, Rows, RowInv, RowsType
            <4>2. shown'[p] = shown[p]
                BY <2>1, <3>1, <3>3 DEF Applied, StateType
            <4> QED
                BY <2>2, <4>1, <4>2
        <3> QED
            BY <3>2, <3>3
    <2>4. ASSUME NEW w \in Ws, KillWorkspace(w) \/ KillRail(w)
          PROVE  shown'[p] = shown[p] /\ mine'[p] = mine[p]
        <3>1. w \in live /\ DropRail(w) /\ live' \subseteq live /\ rail' = [rail EXCEPT ![w] = 0]
            BY <2>4 DEF KillWorkspace, KillRail, DropRail
        <3>2. p # rail[w]
            <4>1. PICK v \in live' : rail'[v] = p /\ p # 0
                BY <1>1 DEF Rails
            <4>2. v # w /\ rail[v] = p /\ v \in Ws /\ w \in Ws
                BY <3>1, <4>1 DEF StateType
            <4> QED
                BY <4>1, <4>2 DEF Spent, On
        <3>3. shown' = Without(shown, w) /\ mine' = Without(mine, w)
            BY <3>1 DEF DropRail
        <3> QED
            BY <2>1, <3>2, <3>3 DEF Without
    <2>5. ASSUME NEW w \in Ws, Mutate(w)
          PROVE  shown'[p] = shown[p] /\ (mine'[p] = mine[p] \/ mine'[p] # 0)
        <3>1. w \in live /\ rail[w] # 0 /\ Change(Repo[w]) /\ UNCHANGED shown
              /\ mine' \in {mine, [mine EXCEPT ![rail[w]] = tree'[Repo[w]]]}
            BY <2>5 DEF Mutate
        <3>2. tree'[Repo[w]] # 0
            BY <3>1, RailAssumption DEF Change, StateType
        <3> QED
            BY <2>1, <3>1, <3>2 DEF RowInv, RowsType
    <2>6. ASSUME NEW w \in Ws, GitOpDone(w) PROVE shown'[p] = shown[p] /\ mine'[p] = mine[p]
        BY <2>6 DEF GitOpDone, rowVars
    <2>7. CASE UNCHANGED <<shown, mine>>
        BY <2>2, <2>7
    <2> QED
        BY <1>1, <2>2, <2>3, <2>4, <2>5, <2>6, <2>7, RowsStay
<1>2. IInv /\ RowInv /\ [Next]_vars =>
        [\A p \in Rails : p \in Rails' =>
            /\ shown'[p] >= shown[p]
            /\ TakenBack(p) => \E s \in ScansOf(p)' : s.seen = 0]_vars
    BY <1>1
<1> QED
    BY <1>2, Inductive, PTL DEF Spec, NeverBackwards

-----------------------------------------------------------------------------
(* THE WRITE LOCK.                                                          *)
(* Operations are numbered in the order they start, each has a root, and    *)
(* only what is recorded as running can be cancelled.                       *)
Numbered ==
    /\ \A n \in Seqs : stage[n] = "none" <=> n > seq
    /\ \A n \in Seqs : stage[n] # "none" => tasks[n].root \in Paths
    /\ \A p \in Paths : ops[p].running => ops[p].seq \in Seqs

(* The inductive invariant: OpsTypeOK gives the new operation a number,     *)
(* Numbered says that no task has it, LockHeld that the roots of the tasks  *)
(* that are not over are not free.                                          *)
LInv == OpsTypeOK /\ Numbered /\ LockHeld

(* Every task works on the root its workspace names.                        *)
Rooted ==
    \A n \in Seqs : stage[n] # "none" =>
        \E w \in Ws : tasks[n].repo = Repo[w] /\ tasks[n].root = Root[w]

-----------------------------------------------------------------------------
LEMMA RootIsPath == OpsTypeOK => \A w \in Ws : GitRoot(w) \in Paths
  BY OpsAssumption DEF OpsTypeOK, GitRoot

LEMMA TypeInit == OpsInit => LInv
  <1> SUFFICES ASSUME OpsInit PROVE LInv
    OBVIOUS
  <1>1. OpsTypeOK
    <2>1. ops \in [Paths -> [seq : 0 .. MaxOps, running : BOOLEAN, cancel : BOOLEAN]]
      BY OpsAssumption DEF OpsInit, NoOp
    <2>2. tasks \in [Seqs -> [root : Paths \cup {"none"}, repo : Repos \cup {"none"}]]
      BY DEF OpsInit, NoTask
    <2>3. seq \in 0 .. MaxOps
      BY OpsAssumption DEF OpsInit
    <2>4. /\ railOf \in [Ws -> {"none", "loading", "scanned"}]
          /\ stage \in [Seqs -> Stages]
          /\ answer \in [Seqs -> {"none", "waiting", "accepted", "result"}]
      BY DEF OpsInit, Stages
    <2>5. cancel \in SUBSET Seqs /\ torn \in BOOLEAN
      BY DEF OpsInit
    <2> QED BY <2>1, <2>2, <2>3, <2>4, <2>5 DEF OpsTypeOK
  <1>2. Numbered
    BY OpsAssumption DEF OpsInit, Numbered, NoOp, Seqs
  <1>3. LockHeld
    BY DEF OpsInit, LockHeld
  <1> QED BY <1>1, <1>2, <1>3 DEF LInv

(* start_git_op takes a number no task has and a root no task holds.        *)
LEMMA StartKeeps ==
    ASSUME LInv, NEW w \in Ws, StartOp(w) PROVE LInv'
  <1> DEFINE p == GitRoot(w)
             n == seq + 1
  <1>1. /\ p \in Paths
        /\ n \in Seqs
        /\ seq' = n
        /\ Repo[w] \in Repos
    BY RootIsPath, OpsAssumption DEF LInv, OpsTypeOK, StartOp, Seqs
  <1>2. /\ ops' = [ops EXCEPT ![p] = [seq |-> n, running |-> TRUE, cancel |-> TRUE]]
        /\ tasks' = [tasks EXCEPT ![n] = [root |-> p, repo |-> Repo[w]]]
        /\ stage' = [stage EXCEPT ![n] = "running"]
        /\ answer' = [answer EXCEPT ![n] = "waiting"]
        /\ UNCHANGED <<railOf, cancel, torn>>
        /\ ~ ops[p].running
    BY <1>1 DEF StartOp, Locked
  <1> HIDE DEF p, n
  <1>3. OpsTypeOK'
    BY <1>1, <1>2 DEF LInv, OpsTypeOK, Stages, Seqs
  <1>4. Numbered'
    <2>1. ASSUME NEW m \in Seqs PROVE stage'[m] = "none" <=> m > seq'
      BY <1>1, <1>2 DEF LInv, OpsTypeOK, Numbered, Seqs, n
    <2>2. ASSUME NEW m \in Seqs, stage'[m] # "none" PROVE tasks'[m].root \in Paths
      BY <1>1, <1>2, <2>2 DEF LInv, OpsTypeOK, Numbered
    <2>3. ASSUME NEW q \in Paths, ops'[q].running PROVE ops'[q].seq \in Seqs
      BY <1>1, <1>2, <2>3 DEF LInv, OpsTypeOK, Numbered
    <2> QED BY <2>1, <2>2, <2>3 DEF Numbered
  <1>5. LockHeld'
    <2> SUFFICES ASSUME NEW m \in Seqs, stage'[m] \notin {"none", "done"}
                 PROVE ops'[tasks'[m].root].seq = m /\ ops'[tasks'[m].root].running
      BY DEF LockHeld
    <2>1. CASE m = n
      BY <1>1, <1>2, <2>1 DEF LInv, OpsTypeOK
    <2>2. CASE m # n
      <3>1. /\ stage[m] \notin {"none", "done"}
            /\ tasks'[m] = tasks[m]
        BY <1>1, <1>2, <2>2 DEF LInv, OpsTypeOK
      <3>2. ops[tasks[m].root].seq = m /\ ops[tasks[m].root].running
        BY <3>1 DEF LInv, LockHeld
      <3>3. tasks[m].root # p
        BY <1>2, <3>2
      <3> QED BY <1>1, <1>2, <3>1, <3>2, <3>3 DEF LInv, OpsTypeOK
    <2> QED BY <2>1, <2>2
  <1> QED BY <1>3, <1>4, <1>5 DEF LInv

(* on_git_op_done releases the lock of the operation that is over.          *)
LEMMA DoneKeeps ==
    ASSUME LInv, NEW n \in Seqs, OpDone(n) PROVE LInv'
  <1> DEFINE p == tasks[n].root
  <1>1. /\ stage[n] = "sent"
        /\ stage' = [stage EXCEPT ![n] = "done"]
        /\ ops[p].seq = n
        /\ ops' = [ops EXCEPT ![p] = [ops[p] EXCEPT !.running = FALSE, !.cancel = FALSE]]
        /\ UNCHANGED <<railOf, seq, tasks, cancel, answer, torn>>
    BY DEF OpDone, LInv, LockHeld
  <1>p. p \in Paths
    BY <1>1 DEF LInv, Numbered
  <1> HIDE DEF p
  <1>2. OpsTypeOK'
    <2>1. ops' \in [Paths -> [seq : 0 .. MaxOps, running : BOOLEAN, cancel : BOOLEAN]]
      <3>1. ops[p] \in [seq : 0 .. MaxOps, running : BOOLEAN, cancel : BOOLEAN]
        BY <1>p DEF LInv, OpsTypeOK
      <3>2. [ops[p] EXCEPT !.running = FALSE, !.cancel = FALSE]
                \in [seq : 0 .. MaxOps, running : BOOLEAN, cancel : BOOLEAN]
        BY <3>1
      <3> QED BY <1>1, <1>p, <3>2 DEF LInv, OpsTypeOK
    <2>2. stage' \in [Seqs -> Stages]
      BY <1>1 DEF LInv, OpsTypeOK, Stages
    <2> QED BY <1>1, <2>1, <2>2 DEF LInv, OpsTypeOK
  <1>3. Numbered'
    <2>1. ASSUME NEW m \in Seqs
          PROVE  /\ stage'[m] = "none" <=> m > seq'
                 /\ stage'[m] # "none" => tasks'[m].root \in Paths
      BY <1>1 DEF LInv, OpsTypeOK, Numbered
    <2>2. ASSUME NEW q \in Paths, ops'[q].running PROVE ops'[q].seq \in Seqs
      BY <1>1, <1>p, <2>2 DEF LInv, OpsTypeOK, Numbered
    <2> QED BY <2>1, <2>2 DEF Numbered
  <1>4. LockHeld'
    <2> SUFFICES ASSUME NEW m \in Seqs, stage'[m] \notin {"none", "done"}
                 PROVE ops'[tasks'[m].root].seq = m /\ ops'[tasks'[m].root].running
      BY DEF LockHeld
    <2>1. /\ m # n
          /\ stage[m] \notin {"none", "done"}
          /\ tasks'[m] = tasks[m]
      BY <1>1 DEF LInv, OpsTypeOK
    <2>2. ops[tasks[m].root].seq = m /\ ops[tasks[m].root].running
      BY <2>1 DEF LInv, LockHeld
    <2>3. tasks[m].root # p
      BY <1>1, <2>1, <2>2
    <2>4. tasks[m].root \in Paths
      BY <2>1 DEF LInv, Numbered
    <2>5. ops'[tasks[m].root] = ops[tasks[m].root]
      BY <1>1, <2>3, <2>4 DEF LInv, OpsTypeOK
    <2> QED BY <2>1, <2>2, <2>5
  <1> QED BY <1>2, <1>3, <1>4 DEF LInv

LEMMA CancelKeeps ==
    ASSUME LInv, NEW w \in Ws, CancelGitOp(w) PROVE LInv'
  <1> DEFINE p == GitRoot(w)
  <1>1. /\ p \in Paths
        /\ ops[p].running
        /\ ops' = [ops EXCEPT ![p].cancel = FALSE]
        /\ cancel' = cancel \cup {ops[p].seq}
        /\ UNCHANGED <<railOf, seq, tasks, stage, answer, torn>>
    BY RootIsPath DEF LInv, CancelGitOp, Locked
  <1> HIDE DEF p
  <1>2. ops[p].seq \in Seqs
    BY <1>1 DEF LInv, Numbered
  <1>3. OpsTypeOK'
    <2> DEFINE Op == [seq : 0 .. MaxOps, running : BOOLEAN, cancel : BOOLEAN]
    <2>0. ops \in [Paths -> Op]
      BY DEF LInv, OpsTypeOK
    <2>1. [ops[p] EXCEPT !.cancel = FALSE] \in Op
      BY <1>1, <2>0
    <2>2. ops' = [ops EXCEPT ![p] = [ops[p] EXCEPT !.cancel = FALSE]]
      BY <1>1
    <2>3. ops' \in [Paths -> Op]
      BY <1>1, <2>0, <2>1, <2>2
    <2> QED BY <1>1, <1>2, <2>3 DEF LInv, OpsTypeOK
  <1>4. \A q \in Paths : ops'[q].seq = ops[q].seq /\ ops'[q].running = ops[q].running
    BY <1>1 DEF LInv, OpsTypeOK
  <1>5. Numbered'
    BY <1>1, <1>4 DEF LInv, Numbered
  <1>6. LockHeld'
    <2> SUFFICES ASSUME NEW m \in Seqs, stage[m] \notin {"none", "done"}
                 PROVE ops'[tasks[m].root].seq = m /\ ops'[tasks[m].root].running
      BY <1>1 DEF LockHeld
    <2>1. ops[tasks[m].root].seq = m /\ ops[tasks[m].root].running
      BY DEF LInv, LockHeld
    <2> QED BY <1>1, <2>1 DEF LInv, OpsTypeOK
  <1> QED BY <1>3, <1>5, <1>6 DEF LInv

(* A task that goes on keeps its lock; only "none" and "done" are without.  *)
LEMMA MoveKeeps ==
    ASSUME LInv, NEW n \in Seqs, NEW from, NEW to,
           Moves(n, from, to), "none" \notin from, "done" \notin from,
           to \in Stages \ {"none", "done"}
    PROVE LInv'
  <1>1. /\ stage[n] \notin {"none", "done"}
        /\ stage' = [stage EXCEPT ![n] = to]
        /\ UNCHANGED <<railOf, ops, seq, tasks, cancel, answer, torn>>
    BY DEF Moves
  <1>2. OpsTypeOK'
    BY <1>1 DEF LInv, OpsTypeOK
  <1>3. Numbered'
    BY <1>1 DEF LInv, OpsTypeOK, Numbered
  <1>4. LockHeld'
    BY <1>1 DEF LInv, OpsTypeOK, LockHeld
  <1> QED BY <1>2, <1>3, <1>4 DEF LInv

LEMMA StepKeeps == ASSUME LInv, [OpsNext]_opsVars PROVE LInv'
  <1>1. CASE UNCHANGED opsVars
    BY <1>1 DEF LInv, OpsTypeOK, Numbered, LockHeld, opsVars
  <1>2. ASSUME NEW w \in Ws, Core(w) PROVE LInv'
    <2>1. CASE RailAppears(w) \/ SnapshotLands(w) \/ SnapshotFails(w) \/ RailGoes(w)
      <3>1. /\ railOf' \in [Ws -> {"none", "loading", "scanned"}]
            /\ UNCHANGED <<ops, seq, tasks, stage, cancel, answer, torn>>
        BY <2>1 DEF LInv, OpsTypeOK, RailAppears, SnapshotLands, SnapshotFails, RailGoes
      <3> QED BY <3>1 DEF LInv, OpsTypeOK, Numbered, LockHeld
    <2>2. CASE StartOp(w)
      BY <2>2, StartKeeps
    <2>3. CASE CancelGitOp(w)
      BY <2>3, CancelKeeps
    <2>4. CASE InlineMutate(w)
      <3>1. torn' \in BOOLEAN /\ UNCHANGED <<railOf, ops, seq, tasks, stage, cancel, answer>>
        BY <2>4 DEF LInv, OpsTypeOK, InlineMutate
      <3> QED BY <3>1 DEF LInv, OpsTypeOK, Numbered, LockHeld
    <2> QED BY <1>2, <2>1, <2>2, <2>3, <2>4 DEF Core
  <1>3. ASSUME NEW n \in Seqs, Task(n) PROVE LInv'
    <2>1. CASE StderrCloses(n)
      BY <2>1, MoveKeeps DEF StderrCloses, Stages
    <2>2. CASE ChildExits(n) \/ Killed(n)
      BY <2>2, MoveKeeps DEF ChildExits, Killed, CancelArrives, TimesOut, Stages
    <2>3. CASE TellsGrace(n)
      BY <2>3, MoveKeeps DEF TellsGrace, Stages
    <2>4. CASE SendsDone(n)
      BY <2>4, MoveKeeps DEF SendsDone, Stages
    <2>5. CASE Answers(n)
      <3>1. /\ answer' \in [Seqs -> {"none", "waiting", "accepted", "result"}]
            /\ UNCHANGED <<railOf, ops, seq, tasks, stage, cancel, torn>>
        BY <2>5 DEF LInv, OpsTypeOK, Answers
      <3> QED BY <3>1 DEF LInv, OpsTypeOK, Numbered, LockHeld
    <2>6. CASE OpDone(n)
      BY <2>6, DoneKeeps
    <2> QED BY <1>3, <2>1, <2>2, <2>3, <2>4, <2>5, <2>6 DEF Task
  <1> QED BY <1>1, <1>2, <1>3 DEF OpsNext

(* The record in git_ops is that of the operation, and says `running`, from *)
(* start_git_op until on_git_op_done: for any paths, whatever is cancelled  *)
(* or killed meanwhile.                                                     *)
THEOREM LockIsHeld == OpsSpec => [](OpsTypeOK /\ LockHeld)
  <1>1. OpsSpec => []LInv
    BY TypeInit, StepKeeps, PTL DEF OpsSpec
  <1>2. LInv => OpsTypeOK /\ LockHeld
    BY DEF LInv
  <1> QED BY <1>1, <1>2, PTL

-----------------------------------------------------------------------------
LEMMA RootedStep == ASSUME OneName, LInv, Rooted, [OpsNext]_opsVars PROVE Rooted'
  <1>1. CASE UNCHANGED opsVars
    BY <1>1 DEF Rooted, opsVars
  <1>2. ASSUME NEW w \in Ws, StartOp(w) PROVE Rooted'
    <2>1. GitRoot(w) = Root[w]
      BY DEF GitRoot, OneName
    <2>2. /\ seq' \in Seqs
          /\ tasks' = [tasks EXCEPT ![seq'] = [root |-> Root[w], repo |-> Repo[w]]]
          /\ stage' = [stage EXCEPT ![seq'] = "running"]
      BY <1>2, <2>1, OpsAssumption DEF StartOp, LInv, OpsTypeOK, Seqs
    <2> SUFFICES ASSUME NEW n \in Seqs, stage'[n] # "none"
                 PROVE \E v \in Ws : tasks'[n].repo = Repo[v] /\ tasks'[n].root = Root[v]
      BY DEF Rooted
    <2>3. CASE n = seq'
      BY <2>2, <2>3 DEF LInv, OpsTypeOK
    <2>4. CASE n # seq'
      BY <2>2, <2>4 DEF LInv, OpsTypeOK, Rooted
    <2> QED BY <2>3, <2>4
  <1>3. ASSUME NEW w \in Ws, Core(w), ~ StartOp(w) PROVE Rooted'
    BY <1>3 DEF Core, RailAppears, SnapshotLands, SnapshotFails, RailGoes, CancelGitOp,
                InlineMutate, Rooted
  <1>4. ASSUME NEW n \in Seqs, Task(n) PROVE Rooted'
    <2>1. UNCHANGED tasks /\ \A m \in Seqs : stage'[m] # "none" => stage[m] # "none"
      BY <1>4 DEF Task, StderrCloses, Killed, ChildExits, CancelArrives, TimesOut,
                  TellsGrace, SendsDone, Answers, OpDone, Moves, LInv, OpsTypeOK
    <2> QED BY <2>1 DEF Rooted
  <1> QED BY <1>1, <1>2, <1>3, <1>4 DEF OpsNext

(* Two tasks of one repository share a root, and a root has one record.     *)
LEMMA NoTwoWriters ==
    ASSUME OneName, LInv, Rooted, NEW m \in Seqs, NEW n \in Seqs,
           Alive(m), Alive(n), tasks[m].repo = tasks[n].repo
    PROVE m = n
  <1>1. stage[m] \notin {"none", "done"} /\ stage[n] \notin {"none", "done"}
    BY DEF Alive
  <1>2. PICK v \in Ws : tasks[m].repo = Repo[v] /\ tasks[m].root = Root[v]
    BY <1>1 DEF Rooted
  <1>3. PICK w \in Ws : tasks[n].repo = Repo[w] /\ tasks[n].root = Root[w]
    BY <1>1 DEF Rooted
  <1>4. tasks[m].root = tasks[n].root
    BY <1>2, <1>3 DEF OneName
  <1> QED BY <1>1, <1>4 DEF LInv, LockHeld

LEMMA NeverTorn ==
    ASSUME OneName, LInv, Rooted, ~ torn, [OpsNext]_opsVars PROVE ~ torn'
  <1>1. ASSUME NEW w \in Ws, InlineMutate(w) PROVE ~ torn'
    <2>1. ~ ops[Root[w]].running
      BY <1>1 DEF InlineMutate, Locked, GitRoot, OneName
    <2>2. ASSUME NEW n \in Seqs, Alive(n), tasks[n].repo = Repo[w] PROVE FALSE
      <3>1. stage[n] \notin {"none", "done"}
        BY <2>2 DEF Alive
      <3>2. PICK v \in Ws : tasks[n].repo = Repo[v] /\ tasks[n].root = Root[v]
        BY <3>1 DEF Rooted
      <3>3. tasks[n].root = Root[w]
        BY <2>2, <3>2 DEF OneName
      <3> QED BY <2>1, <3>1, <3>3 DEF LInv, LockHeld
    <2> QED BY <1>1, <2>2 DEF InlineMutate
  <1>2. ASSUME NEW w \in Ws, Core(w), ~ InlineMutate(w) PROVE ~ torn'
    BY <1>2 DEF Core, RailAppears, SnapshotLands, SnapshotFails, RailGoes, StartOp, CancelGitOp
  <1>3. ASSUME NEW n \in Seqs, Task(n) PROVE ~ torn'
    BY <1>3 DEF Task, StderrCloses, Killed, ChildExits, CancelArrives, TimesOut,
                TellsGrace, SendsDone, Answers, OpDone, Moves
  <1>4. CASE UNCHANGED opsVars
    BY <1>4 DEF opsVars
  <1> QED BY <1>1, <1>2, <1>3, <1>4 DEF OpsNext

(* One writer per repository (docs/git.md), provided that every workspace   *)
(* of a worktree names its root by the same path from the moment it opens.  *)
THEOREM OneWriterPerRepository == ASSUME OneName PROVE OpsSpec => []OneWriter
  <1> DEFINE WInv == LInv /\ Rooted /\ ~ torn
  <1>1. OpsInit => WInv
    BY TypeInit DEF OpsInit, Rooted
  <1>2. WInv /\ [OpsNext]_opsVars => WInv'
    BY StepKeeps, RootedStep, NeverTorn
  <1>3. WInv => OneWriter
    BY NoTwoWriters DEF OneWriter
  <1> HIDE DEF WInv
  <1> QED BY <1>1, <1>2, <1>3, PTL DEF OpsSpec
=============================================================================

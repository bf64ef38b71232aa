-------------------------- MODULE AgentTrackProofs --------------------------
(* Proofs about AgentTrack, for any number of agents and any times, and     *)
(* about the command that waits on what it promises.                        *)
EXTENDS AgentTrack, AgentWait, FiniteSetTheorems, SequenceTheorems, TLAPS

-----------------------------------------------------------------------------
(* Types.                                                                   *)

LEMMA BlankTypes == Blank \in ScreenType /\ NewTrack \in TrackType
<1>1. /\ "idle" \in States /\ 0 \in 0 .. Settle /\ 0 \in 0 .. WorkedCap
      /\ 1 \in 1 .. CheckMax /\ 0 \in 0 .. CheckMax
  BY TrackAssumption DEF States, WorkedCap
<1>2. NewTrack \in TrackType
  BY <1>1 DEF NewTrack, TrackType
<1> QED BY <1>2 DEF Blank, ScreenType

(* A track stays one when a field is given a value of its type.             *)
LEMMA FieldTypes ==
    \A t \in TrackType :
        /\ \A x \in States : [t EXCEPT !.state = x] \in TrackType
        /\ \A x \in 0 .. Settle : [t EXCEPT !.quiet = x] \in TrackType
        /\ \A x \in 0 .. WorkedCap : [t EXCEPT !.worked = x] \in TrackType
        /\ \A x \in BOOLEAN : [t EXCEPT !.saw = x] \in TrackType
        /\ \A x \in BOOLEAN : [t EXCEPT !.seeded = x] \in TrackType
        /\ \A x \in BOOLEAN : [t EXCEPT !.unread = x] \in TrackType
        /\ \A x \in 1 .. CheckMax : [t EXCEPT !.backoff = x] \in TrackType
        /\ \A x \in 0 .. CheckMax : [t EXCEPT !.due = x] \in TrackType
<1> TAKE t \in TrackType
<1>1. \A x \in States : [t EXCEPT !.state = x] \in TrackType
  BY DEF TrackType
<1>2. \A x \in 0 .. Settle : [t EXCEPT !.quiet = x] \in TrackType
  BY DEF TrackType
<1>3. \A x \in 0 .. WorkedCap : [t EXCEPT !.worked = x] \in TrackType
  BY DEF TrackType
<1>4. \A x \in BOOLEAN : [t EXCEPT !.saw = x] \in TrackType
  BY DEF TrackType
<1>5. \A x \in BOOLEAN : [t EXCEPT !.seeded = x] \in TrackType
  BY DEF TrackType
<1>6. \A x \in BOOLEAN : [t EXCEPT !.unread = x] \in TrackType
  BY DEF TrackType
<1>7. \A x \in 1 .. CheckMax : [t EXCEPT !.backoff = x] \in TrackType
  BY DEF TrackType
<1>8. \A x \in 0 .. CheckMax : [t EXCEPT !.due = x] \in TrackType
  BY DEF TrackType
<1> QED BY <1>1, <1>2, <1>3, <1>4, <1>5, <1>6, <1>7, <1>8

LEMMA EndRunType ==
    ASSUME NEW t \in TrackType
    PROVE  /\ EndRun(t) \in TrackType
           /\ \A x \in States : [EndRun(t) EXCEPT !.state = x] \in TrackType
<1>1. 0 \in 0 .. Settle /\ 0 \in 0 .. WorkedCap
  BY TrackAssumption DEF WorkedCap
<1>2. EndRun(t) = [[[t EXCEPT !.quiet = 0] EXCEPT !.worked = 0] EXCEPT !.saw = FALSE]
  BY DEF EndRun
<1>3. EndRun(t) \in TrackType
  BY <1>1, <1>2, FieldTypes
<1> QED BY <1>3, FieldTypes

LEMMA BusyRunType ==
    ASSUME NEW t \in TrackType, NEW s \in ScreenType
    PROVE  BusyRun(t, s) \in TrackType
<1> DEFINE worked == IF t.state = "working" THEN AtMost(t.worked + 1, WorkedCap) ELSE 1
           saw == s.marker \/ (t.saw /\ t.state = "working")
<1>1. 0 \in 0 .. Settle /\ worked \in 0 .. WorkedCap /\ "working" \in States
  BY TrackAssumption DEF TrackType, States, WorkedCap, AtMost
<1>2. saw \in BOOLEAN
  OBVIOUS
<1>3. BusyRun(t, s) = [[[[t EXCEPT !.state = "working"] EXCEPT !.quiet = 0]
                           EXCEPT !.worked = worked] EXCEPT !.saw = saw]
  BY DEF BusyRun, TrackType
<1> HIDE DEF worked, saw
<1>4. PICK a \in TrackType : a = [[t EXCEPT !.state = "working"] EXCEPT !.quiet = 0]
  BY <1>1, FieldTypes
<1>5. PICK b \in TrackType : b = [a EXCEPT !.worked = worked]
  BY <1>1, FieldTypes
<1>6. [b EXCEPT !.saw = saw] \in TrackType
  BY <1>2, FieldTypes
<1> QED BY <1>3, <1>4, <1>5, <1>6

LEMMA QuietRunType ==
    ASSUME NEW t \in TrackType
    PROVE  QuietRun(t) \in TrackType
<1> DEFINE worked == AtMost(t.worked + 1, WorkedCap)
           real == t.saw \/ worked - (t.quiet + 1) >= MinTurn
<1>1. worked \in 0 .. WorkedCap
  BY TrackAssumption DEF TrackType, WorkedCap, AtMost
<1>2. CASE t.quiet + 1 <= Settle
  <2>1. t.quiet + 1 \in 0 .. Settle
    BY <1>2, TrackAssumption DEF TrackType
  <2>2. QuietRun(t) = [[t EXCEPT !.quiet = t.quiet + 1] EXCEPT !.worked = worked]
    BY <1>2 DEF QuietRun
  <2>3. PICK a \in TrackType : a = [t EXCEPT !.quiet = t.quiet + 1]
    BY <2>1, FieldTypes
  <2> HIDE DEF worked
  <2>4. [a EXCEPT !.worked = worked] \in TrackType
    BY <1>1, FieldTypes
  <2> QED BY <2>2, <2>3, <2>4
<1>3. CASE ~ (t.quiet + 1 <= Settle)
  <2>1. QuietRun(t) = [EndRun(t) EXCEPT !.state = IF real THEN "finished" ELSE "idle"]
    BY <1>3 DEF QuietRun
  <2>2. (IF real THEN "finished" ELSE "idle") \in States
    BY DEF States
  <2> HIDE DEF real
  <2> QED BY <2>1, <2>2, EndRunType
<1> QED BY <1>2, <1>3

LEMMA FoldedType ==
    ASSUME NEW t \in TrackType, NEW s \in ScreenType
    PROVE  Folded(t, s) \in TrackType
<1>1. "exited" \in States /\ "waiting" \in States
  BY DEF States
<1>2. (IF t.state = "waiting" THEN "idle" ELSE t.state) \in States
  BY DEF TrackType, States
<1>3. EndRun(t).state = t.state
  BY DEF EndRun, TrackType
<1>4. [EndRun(t) EXCEPT !.state = IF @ = "waiting" THEN "idle" ELSE @]
        = [EndRun(t) EXCEPT !.state = IF t.state = "waiting" THEN "idle" ELSE t.state]
  BY <1>3, EndRunType DEF TrackType
<1> QED BY <1>1, <1>2, <1>4, EndRunType, BusyRunType, QuietRunType DEF Folded

(* The interval between two checks is positive and capped.                  *)
LEMMA BackoffType ==
    ASSUME NEW t \in TrackType, NEW new
    PROVE  Backoff(t, new) \in 1 .. CheckMax
BY TrackAssumption DEF Backoff, AtMost, TrackType

LEMMA CheckedType ==
    ASSUME NEW t \in TrackType, NEW s \in ScreenType
    PROVE  Checked(t, s) \in TrackType
<1> DEFINE new == Folded(t, s)
           unread == new.unread \/ (t.seeded /\ new.state # t.state /\ new.state \in YourMove)
           interval == Backoff(t, new)
<1>1. new \in TrackType
  BY FoldedType
<1>2. interval \in 1 .. CheckMax
  BY BackoffType
<1>3. interval \in 0 .. CheckMax
  BY <1>2, TrackAssumption
<1>4. unread \in BOOLEAN /\ TRUE \in BOOLEAN
  OBVIOUS
<1>5. Checked(t, s) = [[[[new EXCEPT !.unread = unread] EXCEPT !.seeded = TRUE]
                           EXCEPT !.backoff = interval] EXCEPT !.due = interval]
  <2>1. ASSUME NEW u \in TrackType, NEW i
        PROVE  [u EXCEPT !.unread = \/ @
                                    \/ (t.seeded /\ u.state # t.state /\ u.state \in YourMove),
                         !.seeded = TRUE, !.backoff = i, !.due = i]
             = [[[[u EXCEPT !.unread = u.unread \/ (t.seeded /\ u.state # t.state /\ u.state \in YourMove)]
                     EXCEPT !.seeded = TRUE] EXCEPT !.backoff = i] EXCEPT !.due = i]
    BY DEF TrackType
  <2> HIDE DEF new
  <2> QED BY <1>1, <2>1 DEF Checked, new
<1> HIDE DEF new, unread, interval
<1>6. PICK a \in TrackType : a = [[new EXCEPT !.unread = unread] EXCEPT !.seeded = TRUE]
  BY <1>1, <1>4, FieldTypes
<1>7. PICK b \in TrackType : b = [a EXCEPT !.backoff = interval]
  BY <1>2, FieldTypes
<1>8. [b EXCEPT !.due = interval] \in TrackType
  BY <1>3, FieldTypes
<1> QED BY <1>5, <1>6, <1>7, <1>8

-----------------------------------------------------------------------------
(* The rail and the feed.                                                   *)

LEMMA OpenPanes == ASSUME rail \in Seq(Panes) PROVE Open \subseteq Panes
BY DEF Open, Range

(* A pane taken off the rail leaves the others there, once each.            *)
LEMMA RemoveAtRail ==
    ASSUME rail \in Seq(Panes), NEW k \in DOMAIN rail, rail' = RemoveAt(rail, k)
    PROVE  /\ rail' \in Seq(Panes)
           /\ IsInjective(rail) => /\ IsInjective(rail')
                                   /\ Open' = Open \ {rail[k]}
<1>1. /\ DOMAIN rail = 1 .. Len(rail) /\ Len(rail) \in Nat
      /\ \A i \in DOMAIN rail : rail[i] \in Panes
  OBVIOUS
<1>2. /\ rail' \in Seq(Panes)
      /\ Len(rail') = Len(rail) - 1
      /\ \A i \in 1 .. Len(rail') : rail'[i] = IF i < k THEN rail[i] ELSE rail[i + 1]
  <2> DEFINE before == SubSeq(rail, 1, k - 1)
             after == SubSeq(rail, k + 1, Len(rail))
  <2>1. /\ before \in Seq(Panes) /\ Len(before) = k - 1
        /\ \A i \in 1 .. k - 1 : before[i] = rail[i]
    BY <1>1
  <2>2. /\ after \in Seq(Panes) /\ Len(after) = Len(rail) - k
        /\ \A i \in 1 .. Len(rail) - k : after[i] = rail[i + k]
    BY <1>1
  <2>3. rail' = before \o after
    BY DEF RemoveAt
  <2> HIDE DEF before, after
  <2>4. /\ before \o after \in Seq(Panes)
        /\ Len(before \o after) = Len(before) + Len(after)
        /\ \A i \in 1 .. Len(before) + Len(after) :
               (before \o after)[i] = IF i <= Len(before) THEN before[i] ELSE after[i - Len(before)]
    BY <2>1, <2>2, ConcatProperties
  <2>5. Len(rail') = Len(rail) - 1
    BY <1>1, <2>1, <2>2, <2>3, <2>4
  <2>6. ASSUME NEW i \in 1 .. Len(rail')
        PROVE  rail'[i] = IF i < k THEN rail[i] ELSE rail[i + 1]
    <3>1. CASE i < k
      <4>1. /\ i \in Int /\ k \in Int /\ 1 <= i /\ i <= k - 1
        BY <1>1, <2>5, <3>1
      <4>2. /\ i \in 1 .. Len(before) + Len(after)
            /\ i <= Len(before)
        BY <4>1, <2>1, <2>2
      <4>3. rail'[i] = before[i]
        BY <2>3, <2>4, <4>2
      <4>4. before[i] = rail[i]
        BY <2>1, <4>1
      <4> QED BY <3>1, <4>3, <4>4
    <3>2. CASE ~ (i < k)
      <4>1. /\ i \in Int /\ k \in Int /\ Len(rail) \in Int
            /\ 1 <= k /\ k <= i /\ i <= Len(rail) - 1
        BY <1>1, <2>5, <3>2
      <4>2. i - (k - 1) \in 1 .. Len(rail) - k
        BY <4>1
      <4>3. i \in 1 .. Len(before) + Len(after)
        BY <4>1, <2>1, <2>2
      <4>4. /\ ~ (i <= Len(before))
            /\ i - Len(before) = i - (k - 1)
        BY <4>1, <2>1
      <4>5. rail'[i] = after[i - (k - 1)]
        BY <2>3, <2>4, <4>3, <4>4
      <4>6. after[i - (k - 1)] = rail[i - (k - 1) + k]
        BY <2>2, <4>2
      <4>7. i - (k - 1) + k = i + 1
        BY <4>1
      <4> QED BY <3>2, <4>5, <4>6, <4>7
    <3> QED BY <3>1, <3>2
  <2> QED BY <2>3, <2>4, <2>5, <2>6
<1>3. DOMAIN rail' = 1 .. Len(rail')
  BY <1>2
<1>4. ASSUME IsInjective(rail)
      PROVE  IsInjective(rail')
  <2> SUFFICES ASSUME NEW i \in DOMAIN rail', NEW j \in DOMAIN rail', rail'[i] = rail'[j]
               PROVE  i = j
    BY DEF IsInjective
  <2> DEFINE at(n) == IF n < k THEN n ELSE n + 1
  <2>1. /\ at(i) \in DOMAIN rail /\ rail'[i] = rail[at(i)]
        /\ at(j) \in DOMAIN rail /\ rail'[j] = rail[at(j)]
    BY <1>1, <1>2, <1>3
  <2>2. at(i) = at(j)
    BY <1>4, <2>1 DEF IsInjective
  <2> QED BY <1>1, <1>2, <1>3, <2>2
<1>5. ASSUME IsInjective(rail)
      PROVE  Open' = Open \ {rail[k]}
  <2>1. ASSUME NEW i \in DOMAIN rail'
        PROVE  rail'[i] \in Open /\ rail'[i] # rail[k]
    <3>1. \E j \in DOMAIN rail : j # k /\ rail'[i] = rail[j]
      <4>1. CASE i < k
        BY <1>1, <1>2, <1>3, <4>1
      <4>2. CASE ~ (i < k)
        <5>1. i + 1 \in DOMAIN rail /\ i + 1 # k
          BY <1>1, <1>2, <1>3, <4>2
        <5>2. rail'[i] = rail[i + 1]
          BY <1>2, <1>3, <4>2
        <5> QED BY <5>1, <5>2
      <4> QED BY <4>1, <4>2
    <3> QED BY <1>5, <3>1 DEF IsInjective, Open, Range
  <2>2. ASSUME NEW i \in DOMAIN rail, i # k
        PROVE  \E j \in DOMAIN rail' : rail'[j] = rail[i]
    <3>1. CASE i < k
      BY <1>1, <1>2, <1>3, <3>1
    <3>2. CASE i > k
      <4>1. i - 1 \in DOMAIN rail' /\ ~ (i - 1 < k)
        BY <1>1, <1>2, <1>3, <3>2
      <4>2. rail'[i - 1] = rail[(i - 1) + 1]
        BY <1>2, <1>3, <4>1
      <4> QED BY <1>1, <4>1, <4>2
    <3> QED BY <1>1, <2>2, <3>1, <3>2
  <2> QED BY <2>1, <2>2 DEF Open, Range
<1> QED BY <1>2, <1>4, <1>5

(* The feed is its last History entries: the new ones, behind what is left  *)
(* of the old.                                                              *)
LEMMA PushedFeed ==
    ASSUME feed \in Seq(NoteType), NEW notes \in Seq(NoteType), feed' = Pushed(notes)
    PROVE  /\ feed' \in Seq(NoteType)
           /\ Len(feed') <= History
           /\ \E gone \in Nat :
                  \A i \in DOMAIN feed' :
                      /\ i \in Nat \ {0}
                      /\ i + gone <= Len(feed) + Len(notes)
                      /\ feed'[i] = IF i + gone <= Len(feed) THEN feed[i + gone]
                                                             ELSE notes[i + gone - Len(feed)]
<1> DEFINE all == feed \o notes
           from == IF Len(all) > History THEN Len(all) - History + 1 ELSE 1
<1>1. /\ all \in Seq(NoteType) /\ Len(all) = Len(feed) + Len(notes)
      /\ Len(feed) \in Nat /\ Len(notes) \in Nat
      /\ \A i \in 1 .. Len(all) : all[i] = IF i <= Len(feed) THEN feed[i] ELSE notes[i - Len(feed)]
  OBVIOUS
<1>2. feed' = SubSeq(all, from, Len(all))
  BY DEF Pushed
<1> HIDE DEF all
<1>3. from \in 1 .. Len(all) + 1 /\ Len(all) \in Nat
  BY <1>1, TrackAssumption
<1>4. Len(all) - from + 1 <= History
  BY <1>1, TrackAssumption
<1> HIDE DEF from
<1>5. /\ feed' \in Seq(NoteType)
      /\ Len(feed') = Len(all) - from + 1
      /\ \A i \in 1 .. Len(feed') : feed'[i] = all[i + (from - 1)]
  <2>1. \A j \in from .. Len(all) : j \in 1 .. Len(all)
    BY <1>3
  <2>2. /\ SubSeq(all, from, Len(all)) \in Seq(NoteType)
        /\ Len(SubSeq(all, from, Len(all))) = Len(all) - from + 1
    BY <1>1, <1>3, <2>1
  <2>3. \A i \in 1 .. Len(all) - from + 1 :
            SubSeq(all, from, Len(all))[i] = all[i + (from - 1)]
    BY <1>1, <1>3
  <2> QED BY <1>2, <2>2, <2>3
<1>6. PICK gone \in Nat : gone = from - 1
  BY <1>3
<1>7. ASSUME NEW i \in DOMAIN feed'
      PROVE  /\ i \in Nat \ {0}
             /\ i + gone <= Len(feed) + Len(notes)
             /\ feed'[i] = IF i + gone <= Len(feed) THEN feed[i + gone] ELSE notes[i + gone - Len(feed)]
  <2>1. i \in 1 .. Len(feed') /\ i + gone \in 1 .. Len(all)
    BY <1>3, <1>5, <1>6
  <2> QED BY <1>1, <1>5, <1>6, <2>1
<1> QED BY <1>4, <1>5, <1>7

(* What a tick announces are turns and questions of open, live agents.      *)
LEMMA TickNotes ==
    ASSUME TypeOK, Tick
    PROVE  \E notes \in Seq(NoteType) :
              /\ feed' = Pushed(notes)
              /\ \A i \in DOMAIN notes :
                    /\ notes[i].kind # "exited"
                    /\ notes[i].pane \in Open
                    /\ ~ screen[notes[i].pane].dead
<1> DEFINE news == {p \in Open : Due(p) /\ Announces(track[p], screen[p])}
<1>1. /\ \A p \in Open : Due(p) => track'[p] = Checked(track[p], screen[p])
      /\ \E walk \in [1 .. Cardinality(news) -> news] :
             feed' = Pushed([i \in DOMAIN walk |-> Note(walk[i], track'[walk[i]].state)])
  <2>1. Open \subseteq Panes
    BY OpenPanes DEF TypeOK
  <2> QED BY <2>1 DEF Tick
<1>2. PICK walk \in [1 .. Cardinality(news) -> news] :
             feed' = Pushed([i \in DOMAIN walk |-> Note(walk[i], track'[walk[i]].state)])
  BY <1>1
<1>3. Cardinality(news) \in Nat
  <2>1. news \subseteq 1 .. MaxPanes
    BY OpenPanes DEF TypeOK, Panes
  <2>2. IsFiniteSet(1 .. MaxPanes)
    BY TrackAssumption, FS_Interval
  <2> QED BY <2>1, <2>2, FS_Subset, FS_CardinalityType
<1>4. ASSUME NEW p \in news
      PROVE  /\ Note(p, track'[p].state) \in NoteType
             /\ Note(p, track'[p].state).kind # "exited"
             /\ Note(p, track'[p].state).pane = p
             /\ p \in Open /\ ~ screen[p].dead
  <2> DEFINE new == Folded(track[p], screen[p])
  <2>1. /\ p \in Open /\ p \in Panes /\ ~ screen[p].dead
        /\ new.state \in {"waiting", "finished"}
        /\ track'[p] = Checked(track[p], screen[p])
        /\ track[p] \in TrackType /\ screen[p] \in ScreenType
    BY <1>1, OpenPanes DEF TypeOK, Announces
  <2>2. new \in TrackType
    BY <2>1, FoldedType
  <2>3. track'[p].state = new.state
    <3>1. ASSUME NEW u \in TrackType, NEW a, NEW b, NEW c
          PROVE  [u EXCEPT !.unread = a, !.seeded = TRUE, !.backoff = b, !.due = c].state = u.state
      BY DEF TrackType
    <3> HIDE DEF new
    <3> QED BY <2>1, <2>2, <3>1 DEF Checked, new
  <2> HIDE DEF new
  <2> QED BY <2>1, <2>3 DEF Note, NoteType
<1> HIDE DEF news
<1>5. PICK notes : notes = [i \in DOMAIN walk |-> Note(walk[i], track'[walk[i]].state)]
  OBVIOUS
<1>6. /\ DOMAIN notes = 1 .. Cardinality(news)
      /\ \A i \in 1 .. Cardinality(news) : walk[i] \in news /\ notes[i] = Note(walk[i], track'[walk[i]].state)
  BY <1>2, <1>5
<1>7. notes \in Seq(NoteType)
  BY <1>3, <1>4, <1>5, <1>6
<1>8. feed' = Pushed(notes)
  BY <1>2, <1>5
<1>9. \A i \in DOMAIN notes : /\ notes[i].kind # "exited"
                              /\ notes[i].pane \in Open
                              /\ ~ screen[notes[i].pane].dead
  BY <1>4, <1>6
<1> QED BY <1>7, <1>8, <1>9

LEMMA ScreenFields ==
    \A s \in ScreenType : /\ [s EXCEPT !.streaming = FALSE] \in ScreenType
                          /\ [s EXCEPT !.bell = FALSE] \in ScreenType
                          /\ [s EXCEPT !.dead = TRUE] \in ScreenType
BY DEF ScreenType

LEMMA TypeInit == Init => TypeOK
<1> SUFFICES ASSUME Init PROVE TypeOK
  OBVIOUS
<1>1. rail \in Seq(Panes) /\ feed \in Seq(NoteType) /\ Len(feed) <= History
  BY TrackAssumption DEF Init
<1>2. 0 \in 0 .. MaxPanes /\ 0 \in 0 .. Settle + 1
  BY TrackAssumption
<1> QED BY <1>1, <1>2, BlankTypes DEF Init, TypeOK

LEMMA TypeTick == TypeOK /\ Tick => TypeOK'
<1> SUFFICES ASSUME TypeOK, Tick PROVE TypeOK'
  OBVIOUS
<1>1. track' \in [Panes -> TrackType]
  <2>1. ASSUME NEW p \in Panes
        PROVE  (IF p \notin Open THEN track[p]
                ELSE IF Due(p) THEN Checked(track[p], screen[p])
                ELSE [track[p] EXCEPT !.due = @ - 1]) \in TrackType
    <3>1. track[p] \in TrackType /\ screen[p] \in ScreenType
      BY DEF TypeOK
    <3>2. CASE ~ Due(p)
      <4>1. track[p].due - 1 \in 0 .. CheckMax
        BY <3>1, <3>2, TrackAssumption DEF Due, TrackType
      <4>2. [track[p] EXCEPT !.due = @ - 1] \in TrackType
        BY <3>1, <4>1, FieldTypes
      <4> QED BY <3>1, <3>2, <4>2
    <3>3. CASE Due(p)
      BY <3>1, <3>3, CheckedType
    <3> QED BY <3>2, <3>3
  <2> QED BY <2>1 DEF Tick
<1>2. feed' \in Seq(NoteType) /\ Len(feed') <= History
  BY TickNotes, PushedFeed DEF TypeOK
<1>3. lull' \in [Panes -> 0 .. Settle + 1]
  <2>1. ASSUME NEW n \in 0 .. Settle + 1
        PROVE  AtMost(n + 1, Settle + 1) \in 0 .. Settle + 1 /\ 0 \in 0 .. Settle + 1
    BY TrackAssumption DEF AtMost
  <2>2. ASSUME NEW p \in Panes
        PROVE  (IF p \notin Open \/ Busy(screen[p]) THEN 0
                ELSE AtMost(lull[p] + 1, Settle + 1)) \in 0 .. Settle + 1
    BY <2>1 DEF TypeOK
  <2> QED BY <2>2 DEF Tick
<1> QED BY <1>1, <1>2, <1>3 DEF Tick, TypeOK

LEMMA TypeSpawn == TypeOK /\ Spawn => TypeOK'
<1> SUFFICES ASSUME TypeOK, Spawn PROVE TypeOK'
  OBVIOUS
<1>1. next' \in 0 .. MaxPanes /\ next' \in Panes
  BY TrackAssumption DEF Spawn, TypeOK, Panes
<1>2. rail' \in Seq(Panes)
  BY <1>1 DEF Spawn, TypeOK
<1> QED BY <1>1, <1>2 DEF Spawn, TypeOK, ghostVars

LEMMA TypeOutput == \A p \in Panes : TypeOK /\ Output(p) => TypeOK'
<1> SUFFICES ASSUME NEW p \in Panes, TypeOK, Output(p) PROVE TypeOK'
  OBVIOUS
<1>1. PICK s \in [bell : BOOLEAN, prompt : BOOLEAN, marker : BOOLEAN,
                  streaming : BOOLEAN, dead : {screen[p].dead}] :
         /\ screen' = [screen EXCEPT ![p] = s]
         /\ alerted' = IF Asks(s) THEN alerted \cup {p} ELSE alerted \ {p}
         /\ rung' = [rung EXCEPT ![p] = Asks(s) /\ (p \notin alerted \/ (Asks(screen[p]) /\ @))]
  BY DEF Output
<1>2. s \in ScreenType
  BY DEF TypeOK, ScreenType
<1>3. screen' \in [Panes -> ScreenType]
  BY <1>1, <1>2 DEF TypeOK
<1>4. alerted' \in SUBSET Panes
  BY <1>1 DEF TypeOK
<1>5. rung' \in [Panes -> BOOLEAN]
  <2> DEFINE rings == Asks(s) /\ (p \notin alerted \/ (Asks(screen[p]) /\ rung[p]))
  <2>1. rings \in BOOLEAN
    OBVIOUS
  <2>2. rung' = [rung EXCEPT ![p] = rings]
    BY <1>1 DEF TypeOK
  <2> HIDE DEF rings
  <2> QED BY <2>1, <2>2 DEF TypeOK
<1>6. track' \in [Panes -> TrackType]
  <2>1. [[track[p] EXCEPT !.backoff = 1] EXCEPT !.due = 0] \in TrackType
    <3>1. 1 \in 1 .. CheckMax /\ 0 \in 0 .. CheckMax
      BY TrackAssumption
    <3> QED BY <3>1, FieldTypes DEF TypeOK
  <2>2. track' = [track EXCEPT ![p] = [[track[p] EXCEPT !.backoff = 1] EXCEPT !.due = 0]]
    BY DEF Output, TypeOK
  <2> QED BY <2>1, <2>2 DEF TypeOK
<1> QED BY <1>3, <1>4, <1>5, <1>6 DEF Output, TypeOK

LEMMA TypeOther ==
    \A p \in Panes : TypeOK /\ (Lull(p) \/ Look(p) \/ Drop(p) \/ Replaced(p) \/ Fail(p)) => TypeOK'
<1> SUFFICES ASSUME NEW p \in Panes, TypeOK,
                    Lull(p) \/ Look(p) \/ Drop(p) \/ Replaced(p) \/ Fail(p)
             PROVE  TypeOK'
  OBVIOUS
<1>0. screen[p] \in ScreenType /\ track[p] \in TrackType
  BY DEF TypeOK
<1>1. CASE Lull(p)
  <2>1. screen' = [screen EXCEPT ![p] = [screen[p] EXCEPT !.streaming = FALSE]]
    BY <1>1 DEF Lull, TypeOK
  <2>2. screen' \in [Panes -> ScreenType]
    BY <1>0, <2>1, ScreenFields DEF TypeOK
  <2> QED BY <1>1, <2>2 DEF Lull, TypeOK, ghostVars
<1>2. CASE Look(p)
  <2>1. /\ screen' = [screen EXCEPT ![p] = [screen[p] EXCEPT !.bell = FALSE]]
        /\ track' = [track EXCEPT ![p] = [track[p] EXCEPT !.unread = FALSE]]
    BY <1>2 DEF Look, TypeOK
  <2>2. [screen[p] EXCEPT !.bell = FALSE] \in ScreenType /\ [track[p] EXCEPT !.unread = FALSE] \in TrackType
    BY <1>0, ScreenFields, FieldTypes
  <2>3. screen' \in [Panes -> ScreenType] /\ track' \in [Panes -> TrackType]
    BY <2>1, <2>2 DEF TypeOK
  <2> QED BY <1>2, <2>3 DEF Look, TypeOK, ghostVars
<1>3. ASSUME Forget(p)
      PROVE  screen' \in [Panes -> ScreenType] /\ track' \in [Panes -> TrackType]
  BY <1>3, BlankTypes DEF Forget, TypeOK
<1>4. CASE Drop(p)
  <2>1. PICK k \in DOMAIN rail : rail' = RemoveAt(rail, k)
    BY <1>4 DEF Drop
  <2>2. rail' \in Seq(Panes)
    BY <2>1, RemoveAtRail DEF TypeOK
  <2> QED BY <1>3, <1>4, <2>2 DEF Drop, TypeOK, ghostVars
<1>5. CASE Replaced(p)
  <2>1. next' \in 0 .. MaxPanes /\ next' \in Panes
    BY <1>5, TrackAssumption DEF Replaced, TypeOK, Panes
  <2>2. /\ DOMAIN rail = 1 .. Len(rail) /\ Len(rail) \in Nat
        /\ \A i \in DOMAIN rail : rail[i] \in Panes
    BY DEF TypeOK
  <2>3. rail' \in Seq(Panes)
    BY <1>5, <2>1, <2>2 DEF Replaced
  <2> QED BY <1>3, <1>5, <2>1, <2>3 DEF Replaced, TypeOK, ghostVars
<1>6. CASE Fail(p)
  <2>1. screen' = [screen EXCEPT ![p] = [screen[p] EXCEPT !.dead = TRUE]]
    BY <1>6 DEF Fail, TypeOK
  <2>2. screen' \in [Panes -> ScreenType]
    BY <1>0, <2>1, ScreenFields DEF TypeOK
  <2>3. <<Note(p, "exited")>> \in Seq(NoteType)
    BY DEF Note, NoteType
  <2>4. feed' \in Seq(NoteType) /\ Len(feed') <= History
    BY <1>6, <2>3, PushedFeed DEF Fail, TypeOK
  <2> QED BY <1>6, <2>2, <2>4 DEF Fail, TypeOK, ghostVars
<1> QED BY <1>1, <1>2, <1>4, <1>5, <1>6

LEMMA TypeStep == TypeOK /\ [Next]_vars => TypeOK'
<1> SUFFICES ASSUME TypeOK, [Next]_vars PROVE TypeOK'
  OBVIOUS
<1>1. CASE UNCHANGED vars
  BY <1>1 DEF vars, ghostVars, TypeOK
<1> QED BY <1>1, TypeTick, TypeSpawn, TypeOutput, TypeOther DEF Next, PaneStep

(* The settle time, the backoff and the feed stay within their bounds.      *)
THEOREM TypeCorrect == Spec => []TypeOK
BY TypeInit, TypeStep, PTL DEF Spec

-----------------------------------------------------------------------------
(* The inductive invariant.                                                 *)

(* A pane is on the rail once, and was started.                             *)
Roster == IsInjective(rail) /\ \A p \in Open : p <= next

(* An agent that asks and is not yet shown so is due.                       *)
Attended == \A p \in Panes : Asks(screen[p]) /\ track[p].state # "waiting" => track[p].due <= 1

(* The settle timer runs only in a run, during which every tick checks, and *)
(* never ahead of the lull it measures.                                     *)
Settling ==
    \A p \in Panes :
        /\ track[p].quiet <= lull[p]
        /\ track[p].quiet > 0 => p \in Open /\ track[p].state = "working"
        /\ track[p].state = "working" => track[p].due <= 1

(* A pane whose exit was announced is dead or gone for good.                *)
Exits ==
    \A i \in DOMAIN feed :
        feed[i].kind = "exited" =>
            /\ feed[i].pane <= next
            /\ feed[i].pane \in Open => screen[feed[i].pane].dead

IInv == TypeOK /\ Roster /\ Attended /\ Settling /\ Exits /\ ExitIsLast

(* What a check of one agent does to its state and its settle timer.        *)
LEMMA FoldedFacts ==
    ASSUME NEW t \in TrackType, NEW s \in ScreenType
    PROVE  LET new == Folded(t, s)
           IN  /\ Asks(s) => new.state = "waiting"
               /\ new.quiet > 0 => /\ ~ Busy(s) /\ new.state = "working"
                                   /\ new.quiet = t.quiet + 1 /\ new.quiet <= Settle
               /\ new.state = "finished" /\ t.state # "finished" =>
                      ~ Busy(s) /\ t.quiet + 1 > Settle
<1> DEFINE new == Folded(t, s)
<1>1. ASSUME NEW x \in States
      PROVE  /\ [EndRun(t) EXCEPT !.state = x].state = x
             /\ [EndRun(t) EXCEPT !.state = x].quiet = 0
  BY DEF EndRun, TrackType
<1>2. "exited" \in States /\ "waiting" \in States
  BY DEF States
<1>3. CASE s.dead
  BY <1>1, <1>2, <1>3 DEF Folded, Asks
<1>4. CASE ~ s.dead /\ Asks(s)
  BY <1>1, <1>2, <1>4 DEF Folded
<1>5. CASE ~ s.dead /\ ~ Asks(s) /\ Busy(s)
  <2>1. new = BusyRun(t, s)
    BY <1>5 DEF Folded
  <2>2. BusyRun(t, s).state = "working" /\ BusyRun(t, s).quiet = 0
    BY DEF BusyRun, TrackType
  <2> QED BY <1>5, <2>1, <2>2
<1>6. CASE ~ s.dead /\ ~ Asks(s) /\ ~ Busy(s) /\ t.state = "working"
  <2> DEFINE end(x) == [EndRun(t) EXCEPT !.state = x]
             real == t.saw \/ AtMost(t.worked + 1, WorkedCap) - (t.quiet + 1) >= MinTurn
  <2>1. new = QuietRun(t)
    BY <1>6 DEF Folded
  <2>2. CASE t.quiet + 1 <= Settle
    <3>1. QuietRun(t).state = "working" /\ QuietRun(t).quiet = t.quiet + 1
      BY <1>6, <2>2 DEF QuietRun, TrackType
    <3> QED BY <1>6, <2>1, <2>2, <3>1
  <2>3. CASE ~ (t.quiet + 1 <= Settle)
    <3>1. QuietRun(t) = end(IF real THEN "finished" ELSE "idle")
      BY <2>3 DEF QuietRun
    <3>2. (IF real THEN "finished" ELSE "idle") \in States
      BY DEF States
    <3>3. QuietRun(t).quiet = 0
      <4> HIDE DEF real
      <4> QED BY <1>1, <3>1, <3>2
    <3>4. t.quiet + 1 > Settle
      BY <2>3, TrackAssumption DEF TrackType
    <3> QED BY <1>6, <2>1, <3>3, <3>4
  <2> QED BY <2>2, <2>3
<1>7. CASE ~ s.dead /\ ~ Asks(s) /\ ~ Busy(s) /\ t.state # "working"
  <2>1. (IF t.state = "waiting" THEN "idle" ELSE t.state) \in States
    BY DEF TrackType, States
  <2>2. [EndRun(t) EXCEPT !.state = IF @ = "waiting" THEN "idle" ELSE @]
          = [EndRun(t) EXCEPT !.state = IF t.state = "waiting" THEN "idle" ELSE t.state]
    <3>1. EndRun(t).state = t.state
      BY DEF EndRun, TrackType
    <3> QED BY <3>1, EndRunType DEF TrackType
  <2>3. /\ new.state = IF t.state = "waiting" THEN "idle" ELSE t.state
        /\ new.quiet = 0
    BY <1>1, <1>7, <2>1, <2>2 DEF Folded
  <2> QED BY <1>7, <2>3
<1> QED BY <1>3, <1>4, <1>5, <1>6, <1>7

(* A check changes the state and the timers as Folded does, and schedules   *)
(* the next one at once while the agent works.                              *)
LEMMA CheckedFacts ==
    ASSUME NEW t \in TrackType, NEW s \in ScreenType
    PROVE  /\ Checked(t, s).state = Folded(t, s).state
           /\ Checked(t, s).quiet = Folded(t, s).quiet
           /\ Folded(t, s).state = "working" => Checked(t, s).due = 1
<1> DEFINE new == Folded(t, s)
<1>1. new \in TrackType
  BY FoldedType
<1>2. ASSUME NEW u \in TrackType, NEW a, NEW b
      PROVE  LET v == [u EXCEPT !.unread = a, !.seeded = TRUE, !.backoff = b, !.due = b]
             IN  v.state = u.state /\ v.quiet = u.quiet /\ v.due = b
  BY DEF TrackType
<1>3. new.state = "working" => Backoff(t, new) = 1
  BY DEF Backoff
<1>4. Checked(t, s) = [new EXCEPT !.unread = new.unread \/ (t.seeded /\ new.state # t.state
                                                             /\ new.state \in YourMove),
                                  !.seeded = TRUE, !.backoff = Backoff(t, new), !.due = Backoff(t, new)]
  <2>1. ASSUME NEW u \in TrackType, NEW b
        PROVE  [u EXCEPT !.unread = \/ @
                                    \/ (t.seeded /\ u.state # t.state /\ u.state \in YourMove),
                         !.seeded = TRUE, !.backoff = b, !.due = b]
             = [u EXCEPT !.unread = u.unread \/ (t.seeded /\ u.state # t.state
                                                   /\ u.state \in YourMove),
                         !.seeded = TRUE, !.backoff = b, !.due = b]
    BY DEF TrackType
  <2> HIDE DEF new
  <2> QED BY <1>1, <2>1 DEF Checked, new
<1> HIDE DEF new
<1>5. /\ Checked(t, s).state = new.state /\ Checked(t, s).quiet = new.quiet
      /\ Checked(t, s).due = Backoff(t, new)
  BY <1>1, <1>2, <1>4
<1> QED BY <1>3, <1>5 DEF new

(* A tick leaves a pane alone, checks it, or brings its check nearer.       *)
LEMMA TickTrack ==
    ASSUME TypeOK, Tick, NEW p \in Panes
    PROVE  /\ track[p] \in TrackType /\ screen[p] \in ScreenType /\ screen'[p] = screen[p]
           /\ Open' = Open /\ next' = next
           /\ \/ p \notin Open /\ track'[p] = track[p]
              \/ p \in Open /\ Due(p) /\ track'[p] = Checked(track[p], screen[p])
              \/ /\ p \in Open /\ ~ Due(p)
                 /\ track'[p].state = track[p].state /\ track'[p].quiet = track[p].quiet
                 /\ track'[p].due = track[p].due - 1
           /\ lull'[p] = IF p \notin Open \/ Busy(screen[p]) THEN 0
                         ELSE AtMost(lull[p] + 1, Settle + 1)
<1>1. ASSUME NEW t \in TrackType
      PROVE  LET u == [t EXCEPT !.due = @ - 1]
             IN  u.state = t.state /\ u.quiet = t.quiet /\ u.due = t.due - 1
  BY DEF TrackType
<1>2. track[p] \in TrackType /\ screen[p] \in ScreenType
  BY DEF TypeOK
<1>3. /\ track'[p] = IF p \notin Open THEN track[p]
                      ELSE IF Due(p) THEN Checked(track[p], screen[p])
                      ELSE [track[p] EXCEPT !.due = @ - 1]
      /\ lull'[p] = IF p \notin Open \/ Busy(screen[p]) THEN 0
                    ELSE AtMost(lull[p] + 1, Settle + 1)
      /\ screen' = screen /\ rail' = rail /\ next' = next
  BY DEF Tick
<1> QED BY <1>1, <1>2, <1>3 DEF Open

LEMMA IInvInit == Init => IInv
<1> SUFFICES ASSUME Init PROVE IInv
  OBVIOUS
<1>1. rail = <<>> /\ feed = <<>>
  BY DEF Init
<1>2. Open = {} /\ IsInjective(rail)
  BY <1>1 DEF Open, Range, IsInjective
<1>3. Attended
  BY DEF Init, Attended, Blank, Asks
<1>4. Settling
  BY DEF Init, Settling, NewTrack
<1>5. Exits /\ ExitIsLast
  BY <1>1 DEF Exits, ExitIsLast
<1> QED BY <1>2, <1>3, <1>4, <1>5, TypeInit DEF IInv, Roster

(* New notes keep the order of the feed: nothing is said of a pane behind   *)
(* its exit.                                                                *)
LEMMA FeedKeepsOrder ==
    ASSUME TypeOK, TypeOK', Exits, ExitIsLast,
           NEW notes \in Seq(NoteType), feed' = Pushed(notes),
           \A i \in DOMAIN notes : notes[i].pane \in Open /\ ~ screen[notes[i].pane].dead,
           Len(notes) <= 1 \/ \A i \in DOMAIN notes : notes[i].kind # "exited"
    PROVE  /\ ExitIsLast'
           /\ \A i \in DOMAIN feed' : (\E j \in DOMAIN feed : feed'[i] = feed[j])
                                     \/ (\E j \in DOMAIN notes : feed'[i] = notes[j])
<1>1. PICK gone \in Nat :
         \A i \in DOMAIN feed' :
             /\ i \in Nat \ {0}
             /\ i + gone <= Len(feed) + Len(notes)
             /\ feed'[i] = IF i + gone <= Len(feed) THEN feed[i + gone]
                                                    ELSE notes[i + gone - Len(feed)]
  BY PushedFeed DEF TypeOK
<1>2. /\ DOMAIN feed = 1 .. Len(feed) /\ Len(feed) \in Nat
      /\ DOMAIN notes = 1 .. Len(notes) /\ Len(notes) \in Nat
  BY DEF TypeOK
<1>3. ASSUME NEW i \in DOMAIN feed'
      PROVE  \/ i + gone \in DOMAIN feed /\ feed'[i] = feed[i + gone]
             \/ /\ i + gone > Len(feed) /\ i + gone - Len(feed) \in DOMAIN notes
                /\ feed'[i] = notes[i + gone - Len(feed)]
  BY <1>1, <1>2
<1>4. ASSUME NEW i \in DOMAIN feed', NEW j \in DOMAIN feed', i < j, feed'[i].kind = "exited"
      PROVE  feed'[j].pane # feed'[i].pane
  <2>0. i \in Nat /\ j \in Nat /\ i + gone < j + gone
    BY <1>1, <1>4
  <2>1. CASE j + gone \in DOMAIN feed /\ feed'[j] = feed[j + gone]
    <3>1. i + gone \in DOMAIN feed /\ feed'[i] = feed[i + gone]
      BY <1>2, <1>3, <2>0, <2>1
    <3> QED BY <1>4, <2>0, <2>1, <3>1 DEF ExitIsLast
  <2>2. CASE /\ j + gone > Len(feed) /\ j + gone - Len(feed) \in DOMAIN notes
             /\ feed'[j] = notes[j + gone - Len(feed)]
    <3>1. feed'[j].pane \in Open /\ ~ screen[feed'[j].pane].dead
      BY <2>2
    <3>2. CASE i + gone \in DOMAIN feed /\ feed'[i] = feed[i + gone]
      BY <1>4, <3>1, <3>2 DEF Exits
    <3>3. CASE /\ i + gone > Len(feed) /\ i + gone - Len(feed) \in DOMAIN notes
               /\ feed'[i] = notes[i + gone - Len(feed)]
      <4>1. Len(notes) <= 1
        BY <1>4, <3>3
      <4>2. i + gone - Len(feed) = 1 /\ j + gone - Len(feed) = 1
        BY <1>2, <2>2, <3>3, <4>1
      <4> QED BY <1>2, <2>0, <4>2
    <3> QED BY <1>3, <3>2, <3>3
  <2> QED BY <1>3, <2>1, <2>2
<1> QED BY <1>3, <1>4 DEF ExitIsLast

LEMMA IInvTick == IInv /\ Tick => IInv'
<1> SUFFICES ASSUME IInv, Tick PROVE IInv'
  OBVIOUS
<1> USE DEF IInv
<1>1. TypeOK'
  BY TypeTick
<1>2. Open' = Open /\ next' = next /\ rail' = rail /\ screen' = screen
  BY DEF Tick, Open
<1>3. Roster'
  BY <1>2 DEF Roster
<1>4. ASSUME NEW p \in Panes
      PROVE  Asks(screen'[p]) /\ track'[p].state # "waiting" => track'[p].due <= 1
  <2>1. CASE p \notin Open /\ track'[p] = track[p]
    BY <1>2, <2>1 DEF Attended
  <2>2. CASE track'[p] = Checked(track[p], screen[p])
    BY <1>2, <2>2, TickTrack, CheckedFacts, FoldedFacts
  <2>3. CASE ~ Due(p) /\ track'[p].state = track[p].state
    <3>1. track[p].due \in Nat
      BY DEF TypeOK, TrackType
    <3> QED BY <1>2, <2>3, <3>1 DEF Attended, Due
  <2> QED BY <2>1, <2>2, <2>3, TickTrack
<1>5. ASSUME NEW p \in Panes
      PROVE  /\ track'[p].quiet <= lull'[p]
             /\ track'[p].quiet > 0 => p \in Open' /\ track'[p].state = "working"
             /\ track'[p].state = "working" => track'[p].due <= 1
  <2>0. /\ track[p].quiet \in Nat /\ track[p].due \in Nat /\ lull[p] \in 0 .. Settle + 1
        /\ lull'[p] \in 0 .. Settle + 1
    BY <1>1 DEF TypeOK, TrackType
  <2>1. CASE p \notin Open /\ track'[p] = track[p]
    BY <1>2, <2>0, <2>1 DEF Settling
  <2>2. CASE p \in Open /\ Due(p) /\ track'[p] = Checked(track[p], screen[p])
    <3> DEFINE new == Folded(track[p], screen[p])
    <3>1. /\ track'[p].state = new.state /\ track'[p].quiet = new.quiet
          /\ new.state = "working" => track'[p].due = 1
      BY <2>2, TickTrack, CheckedFacts
    <3>2. new.quiet \in Nat
      BY TickTrack, FoldedType DEF TrackType
    <3>3. CASE new.quiet > 0
      <4>1. /\ ~ Busy(screen[p]) /\ new.state = "working"
            /\ new.quiet = track[p].quiet + 1 /\ new.quiet <= Settle
        BY <3>3, TickTrack, FoldedFacts
      <4>2. lull'[p] = AtMost(lull[p] + 1, Settle + 1)
        BY <2>2, <4>1, TickTrack
      <4>3. track[p].quiet <= lull[p]
        BY DEF Settling
      <4>4. new.quiet <= lull'[p]
        BY <2>0, <4>1, <4>2, <4>3, TrackAssumption DEF AtMost
      <4> HIDE DEF new
      <4> QED BY <1>2, <2>2, <3>1, <4>1, <4>4
    <3>4. CASE new.quiet = 0
      <4> HIDE DEF new
      <4> QED BY <2>0, <3>1, <3>4
    <3> HIDE DEF new
    <3> QED BY <3>2, <3>3, <3>4
  <2>3. CASE /\ p \in Open /\ ~ Due(p)
             /\ track'[p].state = track[p].state /\ track'[p].quiet = track[p].quiet
             /\ track'[p].due = track[p].due - 1
    <3>1. track[p].state # "working"
      BY <2>0, <2>3 DEF Due, Settling
    <3>2. track[p].quiet = 0
      BY <2>0, <3>1 DEF Settling
    <3> QED BY <2>0, <2>3, <3>1, <3>2
  <2> QED BY <2>1, <2>2, <2>3, TickTrack
<1>6. PICK notes \in Seq(NoteType) :
         /\ feed' = Pushed(notes)
         /\ \A i \in DOMAIN notes :
               /\ notes[i].kind # "exited"
               /\ notes[i].pane \in Open
               /\ ~ screen[notes[i].pane].dead
  BY TickNotes
<1>7. /\ ExitIsLast'
      /\ \A i \in DOMAIN feed' : (\E j \in DOMAIN feed : feed'[i] = feed[j])
                                \/ (\E j \in DOMAIN notes : feed'[i] = notes[j])
  BY <1>1, <1>6, FeedKeepsOrder
<1>8. Exits'
  BY <1>2, <1>6, <1>7 DEF Exits
<1> QED BY <1>1, <1>3, <1>4, <1>5, <1>7, <1>8 DEF Attended, Settling

LEMMA IInvSpawn == IInv /\ Spawn => IInv'
<1> SUFFICES ASSUME IInv, Spawn PROVE IInv'
  OBVIOUS
<1> USE DEF IInv
<1>1. TypeOK'
  BY TypeSpawn
<1>2. /\ next \in Nat /\ next' = next + 1
      /\ DOMAIN rail = 1 .. Len(rail) /\ Len(rail) \in Nat
      /\ DOMAIN rail' = 1 .. Len(rail) + 1
      /\ \A i \in DOMAIN rail' : rail'[i] = IF i <= Len(rail) THEN rail[i] ELSE next'
      /\ Open \subseteq 1 .. MaxPanes
  BY OpenPanes DEF TypeOK, Spawn, Panes
<1>3. \A p \in Open : p <= next /\ p # next'
  BY <1>2 DEF Roster
<1>4. Open' = Open \cup {next'}
  <2>1. Open' = {rail'[i] : i \in DOMAIN rail'} /\ Open = {rail[i] : i \in DOMAIN rail}
    BY DEF Open, Range
  <2>2. DOMAIN rail' = DOMAIN rail \cup {Len(rail) + 1} /\ rail'[Len(rail) + 1] = next'
    BY <1>2
  <2>3. \A i \in DOMAIN rail : rail'[i] = rail[i]
    BY <1>2
  <2> QED BY <2>1, <2>2, <2>3
<1>5. Roster'
  <2>1. IsInjective(rail')
    <3> SUFFICES ASSUME NEW i \in DOMAIN rail', NEW j \in DOMAIN rail', rail'[i] = rail'[j]
                 PROVE  i = j
      BY DEF IsInjective
    <3>1. \A k \in DOMAIN rail : rail[k] # next'
      BY <1>3 DEF Open, Range
    <3>2. \A k \in DOMAIN rail' : k \in DOMAIN rail \/ k = Len(rail) + 1
      BY <1>2
    <3> QED BY <1>2, <3>1, <3>2 DEF Roster, IsInjective
  <2>2. \A p \in Open' : p <= next'
    <3>1. \A p \in Open : p \in Nat
      BY <1>2
    <3>2. \A p \in Open : p <= next + 1
      BY <1>2, <1>3, <3>1
    <3>3. next + 1 <= next + 1
      BY <1>2
    <3> QED BY <1>2, <1>4, <3>2, <3>3
  <2> QED BY <2>1, <2>2 DEF Roster
<1>6. Attended' /\ Settling'
  BY <1>4 DEF Spawn, ghostVars, Attended, Settling
<1>7. Exits' /\ ExitIsLast'
  <2>1. \A i \in DOMAIN feed : feed[i].pane \in Panes
    <3>1. \A i \in DOMAIN feed : feed[i] \in NoteType
      BY DEF TypeOK
    <3> QED BY <3>1 DEF NoteType
  <2>2. \A p \in Panes : p <= next => p <= next + 1 /\ p # next + 1
    <3>1. next \in Nat /\ \A p \in Panes : p \in Nat
      BY <1>2 DEF Panes
    <3> QED BY <3>1
  <2> QED BY <1>2, <1>4, <2>1, <2>2 DEF Spawn, Exits, ExitIsLast
<1> QED BY <1>1, <1>5, <1>6, <1>7

LEMMA IInvOutput == \A p \in Panes : IInv /\ Output(p) => IInv'
<1> SUFFICES ASSUME NEW p \in Panes, IInv, Output(p) PROVE IInv'
  OBVIOUS
<1> USE DEF IInv
<1>1. TypeOK'
  BY TypeOutput
<1>2. Open' = Open /\ rail' = rail /\ next' = next /\ feed' = feed /\ lull' = lull
  BY DEF Output, Open
<1>3. PICK s \in [bell : BOOLEAN, prompt : BOOLEAN, marker : BOOLEAN,
                  streaming : BOOLEAN, dead : {screen[p].dead}] :
         screen' = [screen EXCEPT ![p] = s]
  BY DEF Output
<1>4. s.dead = screen[p].dead
  OBVIOUS
<1>5. \A q \in Panes : /\ screen'[q].dead = screen[q].dead
                       /\ q # p => screen'[q] = screen[q]
  BY <1>3, <1>4 DEF TypeOK
<1>6. /\ \A q \in Panes : q # p => track'[q] = track[q]
      /\ track'[p].state = track[p].state /\ track'[p].quiet = track[p].quiet
      /\ track'[p].due = 0
  <2>1. ASSUME NEW t \in TrackType
        PROVE  LET u == [t EXCEPT !.backoff = 1, !.due = 0]
               IN  u.state = t.state /\ u.quiet = t.quiet /\ u.due = 0
    BY DEF TrackType
  <2>2. track' = [track EXCEPT ![p] = [track[p] EXCEPT !.backoff = 1, !.due = 0]]
    BY DEF Output, TypeOK
  <2>3. track[p] \in TrackType
    BY DEF TypeOK
  <2> QED BY <2>1, <2>2, <2>3 DEF TypeOK
<1>7. Roster'
  BY <1>2 DEF Roster
<1>8. Attended'
  BY <1>5, <1>6 DEF Attended
<1>9. Settling'
  BY <1>2, <1>6 DEF Settling
<1>10. Exits' /\ ExitIsLast'
  BY <1>2, <1>5, OpenPanes DEF Exits, ExitIsLast, TypeOK
<1> QED BY <1>1, <1>7, <1>8, <1>9, <1>10

LEMMA IInvLull == \A p \in Panes : IInv /\ Lull(p) => IInv'
<1> SUFFICES ASSUME NEW p \in Panes, IInv, Lull(p) PROVE IInv'
  OBVIOUS
<1> USE DEF IInv
<1>1. TypeOK'
  BY TypeOther
<1>2. UNCHANGED <<next, rail, track, feed, lull>> /\ Open' = Open
  BY DEF Lull, ghostVars, Open
<1>3. \A q \in Panes : /\ screen'[q].dead = screen[q].dead
                       /\ Asks(screen'[q]) = Asks(screen[q])
  <2>1. screen' = [screen EXCEPT ![p] = [screen[p] EXCEPT !.streaming = FALSE]]
    BY DEF Lull, TypeOK
  <2>2. ASSUME NEW s \in ScreenType
        PROVE  LET u == [s EXCEPT !.streaming = FALSE]
               IN  u.dead = s.dead /\ u.bell = s.bell /\ u.prompt = s.prompt
    BY DEF ScreenType
  <2> QED BY <2>1, <2>2 DEF TypeOK, Asks
<1> QED BY <1>1, <1>2, <1>3, OpenPanes DEF Roster, Attended, Settling, Exits, ExitIsLast, TypeOK

LEMMA IInvLook == \A p \in Panes : IInv /\ Look(p) => IInv'
<1> SUFFICES ASSUME NEW p \in Panes, IInv, Look(p) PROVE IInv'
  OBVIOUS
<1> USE DEF IInv
<1>1. TypeOK'
  BY TypeOther
<1>2. UNCHANGED <<next, rail, feed, lull>> /\ Open' = Open
  BY DEF Look, ghostVars, Open
<1>3. \A q \in Panes : /\ screen'[q].dead = screen[q].dead
                       /\ Asks(screen'[q]) => Asks(screen[q])
  <2>1. screen' = [screen EXCEPT ![p] = [screen[p] EXCEPT !.bell = FALSE]]
    BY DEF Look, TypeOK
  <2>2. ASSUME NEW s \in ScreenType
        PROVE  LET u == [s EXCEPT !.bell = FALSE]
               IN  u.dead = s.dead /\ u.bell = FALSE /\ u.prompt = s.prompt
    BY DEF ScreenType
  <2> QED BY <2>1, <2>2 DEF TypeOK, Asks
<1>4. \A q \in Panes : /\ track'[q].state = track[q].state
                       /\ track'[q].quiet = track[q].quiet
                       /\ track'[q].due = track[q].due
  <2>1. track' = [track EXCEPT ![p] = [track[p] EXCEPT !.unread = FALSE]]
    BY DEF Look, TypeOK
  <2>2. ASSUME NEW t \in TrackType
        PROVE  LET u == [t EXCEPT !.unread = FALSE]
               IN  u.state = t.state /\ u.quiet = t.quiet /\ u.due = t.due
    BY DEF TrackType
  <2> QED BY <2>1, <2>2 DEF TypeOK
<1>5. Attended' /\ Settling'
  BY <1>2, <1>3, <1>4 DEF Attended, Settling
<1> QED BY <1>1, <1>2, <1>3, <1>5, OpenPanes DEF Roster, Exits, ExitIsLast, TypeOK

(* A pane that leaves the rail, or is replaced there by a new one.          *)
LEMMA IInvGone ==
    ASSUME NEW p \in Open, IInv, TypeOK', Forget(p), feed' = feed, lull' = lull,
           IsInjective(rail'), next' \in {next, next + 1},
           Open' \ {next + 1} = Open \ {p},
           next + 1 \in Open' => next' = next + 1
    PROVE  IInv'
<1> USE DEF IInv
<1>1. next \in Nat /\ next' \in Nat /\ Open \subseteq Panes /\ Open' \subseteq Panes
  BY OpenPanes DEF TypeOK, Open, Range
<1>2. \A q \in Open : q <= next /\ q \in Nat
  BY <1>1 DEF Roster, Panes
<1>3. p \in Open' => p = next + 1
  OBVIOUS
<1>4. \A q \in Open' : (q \in Open /\ q # p) \/ (q = next + 1 /\ next' = next + 1)
  OBVIOUS
<1>5. Roster'
  BY <1>1, <1>2, <1>4 DEF Roster
<1>6. /\ p \in Panes
      /\ \A q \in Panes : q # p => track'[q] = track[q] /\ screen'[q] = screen[q]
      /\ track'[p].state = "idle" /\ track'[p].quiet = 0 /\ ~ Asks(screen'[p])
  BY <1>1 DEF Forget, TypeOK, NewTrack, Blank, Asks
<1>7. Attended'
  BY <1>6 DEF Attended
<1>8. \A q \in Open : q # p => q \in Open'
  OBVIOUS
<1>9. Settling'
  <2>1. lull[p] \in Nat
    BY <1>6 DEF TypeOK
  <2> QED BY <1>6, <1>8, <2>1 DEF Settling
<1>10. Exits'
  <2> SUFFICES ASSUME NEW i \in DOMAIN feed, feed[i].kind = "exited"
               PROVE  /\ feed[i].pane <= next'
                      /\ feed[i].pane \in Open' => screen'[feed[i].pane].dead
    BY DEF Exits
  <2> DEFINE q == feed[i].pane
  <2>0. feed[i] \in NoteType
    BY DEF TypeOK
  <2>1. q \in Panes /\ q <= next /\ (q \in Open => screen[q].dead)
    BY <2>0 DEF Exits, NoteType
  <2>2. q \in Nat
    BY <2>1 DEF Panes
  <2> HIDE DEF q
  <2>3. q <= next'
    BY <1>1, <2>1, <2>2
  <2>4. q \in Open' => q \in Open /\ q # p
    BY <1>1, <1>4, <2>1, <2>2
  <2> QED BY <1>6, <2>1, <2>3, <2>4 DEF q
<1>11. ExitIsLast'
  BY DEF ExitIsLast
<1> QED BY <1>5, <1>7, <1>9, <1>10, <1>11

LEMMA IInvDrop == \A p \in Panes : IInv /\ Drop(p) => IInv'
<1> SUFFICES ASSUME NEW p \in Panes, IInv, Drop(p) PROVE IInv'
  OBVIOUS
<1>1. TypeOK'
  BY TypeOther DEF IInv
<1>2. PICK k \in DOMAIN rail : rail[k] = p /\ rail' = RemoveAt(rail, k)
  BY DEF Drop
<1>3. IsInjective(rail') /\ Open' = Open \ {p}
  BY <1>2, RemoveAtRail DEF IInv, TypeOK, Roster
<1>4. /\ next \in Nat /\ next' = next /\ feed' = feed /\ lull' = lull
      /\ Forget(p) /\ p \in Open
  <2>1. next' = next /\ feed' = feed /\ lull' = lull /\ Forget(p)
    BY DEF Drop, ghostVars
  <2>2. next \in Nat
    BY DEF IInv, TypeOK
  <2>3. p \in Open
    BY <1>2 DEF Open, Range
  <2> QED BY <2>1, <2>2, <2>3
<1>5. next + 1 \notin Open
  <2>1. \A q \in Open : q <= next /\ q \in Nat
    BY OpenPanes DEF IInv, Roster, TypeOK, Panes
  <2> QED BY <1>4, <2>1
<1> QED BY <1>1, <1>3, <1>4, <1>5, IInvGone

LEMMA IInvReplaced == \A p \in Panes : IInv /\ Replaced(p) => IInv'
<1> SUFFICES ASSUME NEW p \in Panes, IInv, Replaced(p) PROVE IInv'
  OBVIOUS
<1>1. TypeOK'
  BY TypeOther DEF IInv
<1>2. next \in Nat /\ next' = next + 1 /\ feed' = feed /\ lull' = lull /\ Forget(p) /\ p \in Open
  BY DEF Replaced, ghostVars, IInv, TypeOK
<1>3. \A q \in Open : q <= next /\ q # next + 1
  <2>1. \A q \in Open : q <= next /\ q \in Nat
    BY OpenPanes DEF IInv, Roster, TypeOK, Panes
  <2> QED BY <1>2, <2>1
<1>4. /\ DOMAIN rail' = DOMAIN rail
      /\ \A i \in DOMAIN rail : rail'[i] = IF rail[i] = p THEN next + 1 ELSE rail[i]
      /\ \A i \in DOMAIN rail : rail[i] \in Open
  BY <1>2 DEF Replaced, Open, Range
<1>5. IsInjective(rail')
  BY <1>3, <1>4 DEF IsInjective, IInv, Roster
<1>6. Open' = (Open \ {p}) \cup {next + 1}
  <2>1. Open' = {rail'[i] : i \in DOMAIN rail'} /\ Open = {rail[i] : i \in DOMAIN rail}
    BY DEF Open, Range
  <2>2. \A i \in DOMAIN rail : rail'[i] \in (Open \ {p}) \cup {next + 1}
    BY <1>4
  <2>3. \A q \in Open \ {p} : \E i \in DOMAIN rail : rail'[i] = q
    BY <1>4, <2>1
  <2>4. \E i \in DOMAIN rail : rail'[i] = next + 1
    BY <1>2, <1>4, <2>1
  <2> QED BY <1>4, <2>1, <2>2, <2>3, <2>4
<1>7. Open' \ {next + 1} = Open \ {p} /\ next + 1 \in Open'
  BY <1>3, <1>6
<1> QED BY <1>1, <1>2, <1>5, <1>7, IInvGone

LEMMA IInvFail == \A p \in Panes : IInv /\ Fail(p) => IInv'
<1> SUFFICES ASSUME NEW p \in Panes, IInv, Fail(p) PROVE IInv'
  OBVIOUS
<1> USE DEF IInv
<1>1. TypeOK'
  BY TypeOther
<1>2. UNCHANGED <<next, rail, track, lull>> /\ Open' = Open
  BY DEF Fail, ghostVars, Open
<1>3. p \in Open /\ ~ screen[p].dead
  BY DEF Fail
<1>4. /\ screen'[p].dead
      /\ \A q \in Panes : q # p => screen'[q] = screen[q]
  <2>1. screen' = [screen EXCEPT ![p] = [screen[p] EXCEPT !.dead = TRUE]]
    BY DEF Fail, TypeOK
  <2>2. \A s \in ScreenType : [s EXCEPT !.dead = TRUE].dead
    BY DEF ScreenType
  <2> QED BY <2>1, <2>2 DEF TypeOK
<1>5. Roster' /\ Settling'
  BY <1>2 DEF Roster, Settling
<1>6. Attended'
  BY <1>2, <1>4 DEF Attended, Asks
<1>7. p <= next
  BY <1>3 DEF Roster
<1>8. ASSUME NEW q \in Open, screen[q].dead
      PROVE  screen'[q].dead
  <2>1. q \in Panes
    BY OpenPanes DEF TypeOK
  <2> QED BY <1>3, <1>4, <1>8, <2>1
<1>9. ASSUME feed' = feed
      PROVE  ExitIsLast' /\ Exits'
  BY <1>2, <1>8, <1>9 DEF Exits, ExitIsLast
<1>10. ASSUME feed' = Pushed(<<Note(p, "exited")>>)
       PROVE  ExitIsLast' /\ Exits'
  <2>1. PICK notes : notes = <<Note(p, "exited")>>
    OBVIOUS
  <2>2. /\ notes \in Seq(NoteType) /\ Len(notes) = 1 /\ DOMAIN notes = {1}
        /\ notes[1].pane = p
    BY <2>1 DEF Note, NoteType
  <2>3. /\ ExitIsLast'
        /\ \A i \in DOMAIN feed' : (\E j \in DOMAIN feed : feed'[i] = feed[j])
                                  \/ (\E j \in DOMAIN notes : feed'[i] = notes[j])
    <3>1. /\ feed' = Pushed(notes) /\ Len(notes) <= 1
          /\ \A i \in DOMAIN notes : notes[i].pane \in Open /\ ~ screen[notes[i].pane].dead
      <4>1. feed' = Pushed(notes)
        BY <1>10, <2>1
      <4> QED BY <1>3, <2>2, <4>1
    <3>2. TypeOK /\ TypeOK' /\ Exits /\ ExitIsLast
      BY <1>1
    <3> QED BY <2>2, <3>1, <3>2, FeedKeepsOrder
  <2>4. Exits'
    <3> DEFINE good(n) == /\ n.pane <= next'
                          /\ n.pane \in Open' => screen'[n.pane].dead
    <3>1. ASSUME NEW i \in DOMAIN feed', feed'[i].kind = "exited"
          PROVE  good(feed'[i])
      <4>1. CASE \E j \in DOMAIN feed : feed'[i] = feed[j]
        <5>1. \A j \in DOMAIN feed : feed[j].kind = "exited" => good(feed[j])
          BY <1>2, <1>8 DEF Exits
        <5> QED BY <3>1, <4>1, <5>1
      <4>2. CASE feed'[i] = notes[1]
        <5>1. good(notes[1])
          BY <1>2, <1>4, <1>7, <2>2
        <5> QED BY <4>2, <5>1
      <4>3. (\E j \in DOMAIN feed : feed'[i] = feed[j]) \/ feed'[i] = notes[1]
        BY <2>2, <2>3
      <4> QED BY <4>1, <4>2, <4>3
    <3> QED BY <3>1 DEF Exits
  <2> QED BY <2>3, <2>4
<1>11. ExitIsLast' /\ Exits'
  BY <1>9, <1>10 DEF Fail
<1> QED BY <1>1, <1>5, <1>6, <1>11

LEMMA IInvStep == IInv /\ [Next]_vars => IInv'
<1> SUFFICES ASSUME IInv, [Next]_vars PROVE IInv'
  OBVIOUS
<1>1. CASE UNCHANGED vars
  <2>1. TypeOK'
    BY <1>1, TypeStep DEF IInv
  <2>2. Roster' /\ Attended' /\ Settling' /\ Exits' /\ ExitIsLast'
    BY <1>1 DEF vars, ghostVars, IInv, Roster, Attended, Settling, Exits, ExitIsLast, Open
  <2> QED BY <2>1, <2>2 DEF IInv
<1> QED BY <1>1, IInvTick, IInvSpawn, IInvOutput, IInvLull, IInvLook, IInvDrop, IInvReplaced, IInvFail
        DEF Next, PaneStep

THEOREM Inductive == Spec => []IInv
BY IInvInit, IInvStep, PTL DEF Spec

-----------------------------------------------------------------------------
(* The feed says nothing of a pane behind its exit, for any number of       *)
(* agents and any length of the feed.                                       *)
THEOREM ExitsAreLast == Spec => []ExitIsLast
<1>1. IInv => ExitIsLast
  BY DEF IInv
<1> QED BY <1>1, Inductive, PTL

(* Whatever its interval, an agent that asks is waiting after one tick.     *)
THEOREM QuestionsAreShown == Spec => AskedIsShown
<1>1. IInv /\ [Next]_vars =>
         [Tick => \A p \in Open : Asks(screen[p]) => track'[p].state = "waiting"]_vars
  <2> SUFFICES ASSUME IInv, Tick, NEW p \in Open, Asks(screen[p])
               PROVE  track'[p].state = "waiting"
    OBVIOUS
  <2>1. p \in Panes
    BY OpenPanes DEF IInv, TypeOK
  <2>2. CASE track'[p] = Checked(track[p], screen[p])
    BY <2>1, <2>2, TickTrack, CheckedFacts, FoldedFacts DEF IInv
  <2>3. CASE ~ Due(p) /\ track'[p].state = track[p].state
    <3>1. track[p].due \in Nat
      BY <2>1 DEF IInv, TypeOK, TrackType
    <3> QED BY <2>1, <2>3, <3>1 DEF IInv, Attended, Due
  <2> QED BY <2>1, <2>2, <2>3, TickTrack DEF IInv
<1> QED BY <1>1, Inductive, PTL DEF Spec, AskedIsShown

(* No turn is announced over while the agent was busy within the settle     *)
(* time.                                                                    *)
THEOREM FinishesAreSettled == Spec => FinishIsSettled
<1>1. IInv /\ [Next]_vars =>
         [\A p \in Panes : track[p].state # "finished" /\ track'[p].state = "finished"
             => lull'[p] > Settle]_vars
  <2> SUFFICES ASSUME IInv, Next, NEW p \in Panes,
                      track[p].state # "finished", track'[p].state = "finished"
               PROVE  lull'[p] > Settle
    OBVIOUS
  <2> DEFINE new == Folded(track[p], screen[p])
  <2>1. Tick
    <3>1. ASSUME NEW q \in Panes, Forget(q)
          PROVE  track'[p].state \in {track[p].state, "idle"}
      BY <3>1 DEF Forget, NewTrack, IInv, TypeOK
    <3>2. ASSUME NEW q \in Panes, PaneStep(q)
          PROVE  track'[p].state \in {track[p].state, "idle"}
      <4>1. ASSUME NEW t \in TrackType
            PROVE  /\ [t EXCEPT !.backoff = 1, !.due = 0].state = t.state
                   /\ [t EXCEPT !.unread = FALSE].state = t.state
        BY DEF TrackType
      <4>2. CASE Output(q)
        <5>1. track' = [track EXCEPT ![q] = [track[q] EXCEPT !.backoff = 1, !.due = 0]]
          BY <4>2 DEF Output, IInv, TypeOK
        <5> QED BY <4>1, <5>1 DEF IInv, TypeOK
      <4>3. CASE Look(q)
        <5>1. track' = [track EXCEPT ![q] = [track[q] EXCEPT !.unread = FALSE]]
          BY <4>3 DEF Look, IInv, TypeOK
        <5> QED BY <4>1, <5>1 DEF IInv, TypeOK
      <4>4. CASE Drop(q) \/ Replaced(q)
        BY <3>1, <4>4 DEF Drop, Replaced
      <4>5. CASE Lull(q) \/ Fail(q)
        BY <4>5 DEF Lull, Fail
      <4> QED BY <3>2, <4>2, <4>3, <4>4, <4>5 DEF PaneStep
    <3>3. CASE Spawn
      BY <3>3 DEF Spawn
    <3> QED BY <3>2, <3>3 DEF Next
  <2>2. p \in Open /\ track'[p] = Checked(track[p], screen[p])
    BY <2>1, TickTrack DEF IInv
  <2>3. ~ Busy(screen[p]) /\ track[p].quiet + 1 > Settle
    BY <2>1, <2>2, TickTrack, CheckedFacts, FoldedFacts DEF IInv
  <2>4. lull'[p] = AtMost(lull[p] + 1, Settle + 1)
    BY <2>1, <2>2, <2>3, TickTrack DEF IInv
  <2>5. /\ track[p].quiet <= lull[p]
        /\ track[p].quiet \in Nat /\ lull[p] \in Nat
    BY DEF IInv, Settling, TypeOK, TrackType
  <2> QED BY <2>3, <2>4, <2>5, TrackAssumption DEF AtMost
<1> QED BY <1>1, Inductive, PTL DEF Spec, FinishIsSettled

-----------------------------------------------------------------------------
(* AgentTrack implements AgentFeed.                                         *)

(* Only what has failed is shown as exited.                                 *)
SeenDead == \A p \in Panes : track[p].state = "exited" => screen[p].dead

LEMMA PromiseInit == Init => Promise!FeedInit
<1> SUFFICES ASSUME Init PROVE Promise!FeedInit
  OBVIOUS
<1>1. next = 0 /\ rail = << >> /\ feed = << >>
  BY DEF Init
<1>2. Open = {} /\ 1 .. next = {}
  BY <1>1 DEF Open, Range
<1>3. \A p \in Panes : track[p].state = "idle" /\ ~ track[p].seeded /\ ~ screen[p].dead
  BY DEF Init, NewTrack, Blank
<1> QED BY <1>1, <1>2, <1>3 DEF Promise!FeedInit

(* Nothing is announced.                                                    *)
LEMMA TellNothing == ASSUME TypeOK, feed' = feed PROVE Promise!Tell(<< >>)
<1>1. feed \in Seq(NoteType) /\ Len(feed) \in Nat /\ Len(feed) <= History
  BY DEF TypeOK
<1>2. feed \o << >> = feed
  BY <1>1, ConcatEmptySeq
<1>3. ~ (Len(feed) > History)
  BY <1>1, TrackAssumption
<1>4. SubSeq(feed, 1, Len(feed)) = feed
  BY <1>1
<1>5. Promise!Latest(feed, History) = feed
  BY <1>3, <1>4 DEF Promise!Latest
<1> QED BY <1>2, <1>5 DEF Promise!Tell

(* A step that leaves what is promised alone.                               *)
LEMMA QuietStep ==
    ASSUME next' = next, rail' = rail, feed' = feed,
           \A p \in Panes : /\ track'[p].state = track[p].state
                            /\ track'[p].seeded = track[p].seeded
                            /\ screen'[p].dead = screen[p].dead
    PROVE  UNCHANGED Promise!feedVars /\ (SeenDead => SeenDead')
<1>1. Open' = Open
  BY DEF Open
<1>2. SeenDead => SeenDead'
  BY DEF SeenDead
<1> QED BY <1>1, <1>2 DEF Promise!feedVars

LEMMA OutputIsQuiet ==
    \A p \in Panes : IInv /\ Output(p) => UNCHANGED Promise!feedVars /\ (SeenDead => SeenDead')
<1> SUFFICES ASSUME NEW p \in Panes, IInv, Output(p)
             PROVE  UNCHANGED Promise!feedVars /\ (SeenDead => SeenDead')
  OBVIOUS
<1>1. PICK s \in [bell : BOOLEAN, prompt : BOOLEAN, marker : BOOLEAN,
                  streaming : BOOLEAN, dead : {screen[p].dead}] :
         screen' = [screen EXCEPT ![p] = s]
  BY DEF Output
<1>2. s.dead = screen[p].dead
  OBVIOUS
<1>3. \A q \in Panes : screen'[q].dead = screen[q].dead
  BY <1>1, <1>2 DEF IInv, TypeOK
<1>4. \A q \in Panes : track'[q].state = track[q].state /\ track'[q].seeded = track[q].seeded
  <2>1. ASSUME NEW t \in TrackType
        PROVE  LET u == [t EXCEPT !.backoff = 1, !.due = 0]
               IN  u.state = t.state /\ u.seeded = t.seeded
    BY DEF TrackType
  <2>2. track' = [track EXCEPT ![p] = [track[p] EXCEPT !.backoff = 1, !.due = 0]]
    BY DEF Output, IInv, TypeOK
  <2> QED BY <2>1, <2>2 DEF IInv, TypeOK
<1> QED BY <1>3, <1>4, QuietStep DEF Output

LEMMA LullIsQuiet ==
    \A p \in Panes : IInv /\ Lull(p) => UNCHANGED Promise!feedVars /\ (SeenDead => SeenDead')
<1> SUFFICES ASSUME NEW p \in Panes, IInv, Lull(p)
             PROVE  UNCHANGED Promise!feedVars /\ (SeenDead => SeenDead')
  OBVIOUS
<1>1. \A q \in Panes : screen'[q].dead = screen[q].dead
  <2>1. screen' = [screen EXCEPT ![p] = [screen[p] EXCEPT !.streaming = FALSE]]
    BY DEF Lull, IInv, TypeOK
  <2>2. \A s \in ScreenType : [s EXCEPT !.streaming = FALSE].dead = s.dead
    BY DEF ScreenType
  <2> QED BY <2>1, <2>2 DEF IInv, TypeOK
<1> QED BY <1>1, QuietStep DEF Lull

LEMMA LookIsQuiet ==
    \A p \in Panes : IInv /\ Look(p) => UNCHANGED Promise!feedVars /\ (SeenDead => SeenDead')
<1> SUFFICES ASSUME NEW p \in Panes, IInv, Look(p)
             PROVE  UNCHANGED Promise!feedVars /\ (SeenDead => SeenDead')
  OBVIOUS
<1>1. \A q \in Panes : screen'[q].dead = screen[q].dead
  <2>1. screen' = [screen EXCEPT ![p] = [screen[p] EXCEPT !.bell = FALSE]]
    BY DEF Look, IInv, TypeOK
  <2>2. \A s \in ScreenType : [s EXCEPT !.bell = FALSE].dead = s.dead
    BY DEF ScreenType
  <2> QED BY <2>1, <2>2 DEF IInv, TypeOK
<1>2. \A q \in Panes : track'[q].state = track[q].state /\ track'[q].seeded = track[q].seeded
  <2>1. track' = [track EXCEPT ![p] = [track[p] EXCEPT !.unread = FALSE]]
    BY DEF Look, IInv, TypeOK
  <2>2. \A t \in TrackType : LET u == [t EXCEPT !.unread = FALSE]
                             IN  u.state = t.state /\ u.seeded = t.seeded
    BY DEF TrackType
  <2> QED BY <2>1, <2>2 DEF IInv, TypeOK
<1> QED BY <1>1, <1>2, QuietStep DEF Look

-----------------------------------------------------------------------------
(* Agents come and go.                                                      *)
LEMMA PromiseSpawn == IInv /\ Spawn => Promise!FeedNext /\ (SeenDead => SeenDead')
<1> SUFFICES ASSUME IInv, Spawn PROVE Promise!FeedNext /\ (SeenDead => SeenDead')
  OBVIOUS
<1>1. /\ next \in Nat /\ next' = next + 1 /\ next + 1 \in Panes /\ rail \in Seq(Panes)
  BY TrackAssumption DEF Spawn, IInv, TypeOK, Panes
<1>2. Open' = Open \cup {next + 1}
  <2>1. rail' = Append(rail, next + 1)
    BY DEF Spawn
  <2> QED BY <1>1, <2>1 DEF Open, Range
<1>3. UNCHANGED <<screen, track, feed>>
  BY DEF Spawn
<1>4. 1 .. next' = (1 .. next) \cup {next + 1} /\ next + 1 \notin 1 .. next
  BY <1>1
<1>5. Promise!Comes(next + 1)
  BY <1>2, <1>3, <1>4 DEF Promise!Comes
<1>6. Promise!Tell(<< >>)
  BY <1>3, TellNothing DEF IInv
<1> QED BY <1>1, <1>3, <1>5, <1>6 DEF Promise!FeedNext, Promise!FeedStep, SeenDead

(* The row of p goes, and what was known of it.                             *)
LEMMA Forgotten ==
    ASSUME TypeOK, NEW p \in Panes, Forget(p)
    PROVE  Promise!Unknown(p) /\ (SeenDead => SeenDead')
<1>1. /\ track' = [track EXCEPT ![p] = NewTrack] /\ screen' = [screen EXCEPT ![p] = Blank]
      /\ track \in [Panes -> TrackType] /\ screen \in [Panes -> ScreenType]
      /\ NewTrack.state = "idle" /\ NewTrack.seeded = FALSE /\ Blank.dead = FALSE
  BY DEF Forget, TypeOK, NewTrack, Blank
<1>2. [q \in Panes |-> track'[q].state] = [[q \in Panes |-> track[q].state] EXCEPT ![p] = "idle"]
  BY <1>1
<1>3. {q \in Panes : track'[q].seeded} = {q \in Panes : track[q].seeded} \ {p}
  BY <1>1
<1>4. {q \in Panes : screen'[q].dead} = {q \in Panes : screen[q].dead} \ {p}
  BY <1>1
<1>5. SeenDead => SeenDead'
  BY <1>1 DEF SeenDead
<1> QED BY <1>2, <1>3, <1>4, <1>5 DEF Promise!Unknown

LEMMA PromiseDrop ==
    \A p \in Panes : IInv /\ Drop(p) => Promise!FeedNext /\ (SeenDead => SeenDead')
<1> SUFFICES ASSUME NEW p \in Panes, IInv, Drop(p)
             PROVE  Promise!FeedNext /\ (SeenDead => SeenDead')
  OBVIOUS
<1>1. PICK k \in DOMAIN rail : rail[k] = p /\ rail' = RemoveAt(rail, k)
  BY DEF Drop
<1>2. Open' = Open \ {p}
  BY <1>1, RemoveAtRail DEF IInv, TypeOK, Roster
<1>3. p \in Open /\ next' = next /\ feed' = feed /\ Forget(p)
  <2>1. next' = next /\ feed' = feed /\ Forget(p)
    BY DEF Drop
  <2>2. p \in Open
    BY <1>1 DEF Open, Range
  <2> QED BY <2>1, <2>2
<1>4. Promise!Goes(p)
  BY <1>2, <1>3, Forgotten DEF Promise!Goes, IInv
<1>5. Promise!Tell(<< >>)
  BY <1>3, TellNothing DEF IInv
<1> QED BY <1>3, <1>4, <1>5, Forgotten DEF Promise!FeedNext, Promise!FeedStep, IInv

LEMMA PromiseReplaced ==
    \A p \in Panes : IInv /\ Replaced(p) => Promise!FeedNext /\ (SeenDead => SeenDead')
<1> SUFFICES ASSUME NEW p \in Panes, IInv, Replaced(p)
             PROVE  Promise!FeedNext /\ (SeenDead => SeenDead')
  OBVIOUS
<1>1. /\ next \in Nat /\ next' = next + 1 /\ next + 1 \in Panes /\ feed' = feed /\ Forget(p)
      /\ p \in Open /\ ~ screen[p].dead
  BY TrackAssumption DEF Replaced, IInv, TypeOK, Panes
<1>2. rail' = [i \in DOMAIN rail |-> IF rail[i] = p THEN next + 1 ELSE rail[i]]
  BY <1>1 DEF Replaced
<1>3. Open' = (Open \ {p}) \cup {next + 1}
  <2>1. Open' = {rail'[i] : i \in DOMAIN rail'} /\ Open = {rail[i] : i \in DOMAIN rail}
    BY DEF Open, Range
  <2>2. \A i \in DOMAIN rail : rail'[i] \in (Open \ {p}) \cup {next + 1}
    BY <1>2, <2>1
  <2>3. \A q \in Open \ {p} : \E i \in DOMAIN rail' : rail'[i] = q
    BY <1>2, <2>1
  <2>4. \E i \in DOMAIN rail' : rail'[i] = next + 1
    BY <1>1, <1>2, <2>1
  <2> QED BY <1>2, <2>1, <2>2, <2>3, <2>4
<1>4. 1 .. next' = (1 .. next) \cup {next + 1} /\ next + 1 \notin 1 .. next
  BY <1>1
<1>5. Promise!GivesWay(p, next + 1)
  BY <1>1, <1>3, <1>4, Forgotten DEF Promise!GivesWay, IInv
<1>6. Promise!Tell(<< >>)
  BY <1>1, TellNothing DEF IInv
<1> QED BY <1>1, <1>5, <1>6, Forgotten DEF Promise!FeedNext, Promise!FeedStep, IInv

LEMMA PromiseFail ==
    \A p \in Panes : IInv /\ Fail(p) => Promise!FeedNext /\ (SeenDead => SeenDead')
<1> SUFFICES ASSUME NEW p \in Panes, IInv, Fail(p)
             PROVE  Promise!FeedNext /\ (SeenDead => SeenDead')
  OBVIOUS
<1>1. p \in Open /\ ~ screen[p].dead /\ next' = next /\ rail' = rail /\ track' = track /\ Open' = Open
  BY DEF Fail, Open
<1>2. \A q \in Panes : screen'[q].dead <=> (screen[q].dead \/ q = p)
  <2>1. screen' = [screen EXCEPT ![p] = [screen[p] EXCEPT !.dead = TRUE]]
    BY DEF Fail, IInv, TypeOK
  <2>2. \A s \in ScreenType : [s EXCEPT !.dead = TRUE].dead = TRUE
    BY DEF ScreenType
  <2> QED BY <2>1, <2>2 DEF IInv, TypeOK
<1>3. SeenDead => SeenDead'
  BY <1>1, <1>2 DEF SeenDead
<1>4. {q \in Panes : screen'[q].dead} = {q \in Panes : screen[q].dead} \cup {p}
  BY <1>2
<1>5. Promise!Tell(Promise!LastNews(p))
  <2>1. CASE track[p].seeded
    <3>1. feed' = Pushed(<<Note(p, "exited")>>)
      BY <2>1 DEF Fail
    <3>2. Promise!LastNews(p) = <<Promise!Says(p, "exited")>>
      BY <2>1 DEF Promise!LastNews
    <3> QED BY <3>1, <3>2 DEF Promise!Tell, Promise!Latest, Promise!Says, Pushed, Note
  <2>2. CASE ~ track[p].seeded
    <3>1. feed' = feed
      BY <2>2 DEF Fail
    <3>2. Promise!LastNews(p) = << >>
      BY <2>2 DEF Promise!LastNews
    <3> QED BY <3>1, <3>2, TellNothing DEF IInv
  <2> QED BY <2>1, <2>2
<1>6. Promise!Fails(p)
  BY <1>1, <1>4 DEF Promise!Fails
<1> QED BY <1>3, <1>5, <1>6 DEF Promise!FeedNext, Promise!FeedStep

-----------------------------------------------------------------------------
(* A tick checks the agents that are due.                                   *)

(* A check shows exactly what is dead as exited.                            *)
LEMMA FoldedExited ==
    ASSUME NEW t \in TrackType, NEW s \in ScreenType, t.state = "exited" => s.dead
    PROVE  Folded(t, s).state = "exited" <=> s.dead
<1>1. ASSUME NEW x \in States
      PROVE  [EndRun(t) EXCEPT !.state = x].state = x
  BY DEF EndRun, TrackType
<1>2. EndRun(t).state = t.state
  BY DEF EndRun, TrackType
<1>3. CASE s.dead
  BY <1>1, <1>3 DEF Folded, States
<1>4. CASE ~ s.dead /\ Asks(s)
  BY <1>1, <1>4 DEF Folded, States
<1>5. CASE ~ s.dead /\ ~ Asks(s) /\ Busy(s)
  BY <1>5 DEF Folded, BusyRun, TrackType
<1>6. CASE ~ s.dead /\ ~ Asks(s) /\ ~ Busy(s) /\ t.state = "working"
  <2> DEFINE real == t.saw \/ AtMost(t.worked + 1, WorkedCap) - (t.quiet + 1) >= MinTurn
             over == IF real THEN "finished" ELSE "idle"
  <2>1. CASE t.quiet + 1 <= Settle
    BY <1>6, <2>1 DEF Folded, QuietRun, TrackType
  <2>2. CASE ~ (t.quiet + 1 <= Settle)
    <3>1. Folded(t, s) = [EndRun(t) EXCEPT !.state = over]
      BY <1>6, <2>2 DEF Folded, QuietRun
    <3>2. over \in States /\ over # "exited"
      BY DEF States
    <3> HIDE DEF over
    <3> QED BY <1>1, <1>6, <3>1, <3>2
  <2> QED BY <2>1, <2>2
<1>7. CASE ~ s.dead /\ ~ Asks(s) /\ ~ Busy(s) /\ t.state # "working"
  <2> DEFINE rest == IF t.state = "waiting" THEN "idle" ELSE t.state
  <2>1. Folded(t, s) = [EndRun(t) EXCEPT !.state = rest]
    <3>1. [EndRun(t) EXCEPT !.state = IF @ = "waiting" THEN "idle" ELSE @]
            = [EndRun(t) EXCEPT !.state = rest]
      BY <1>2, EndRunType DEF TrackType
    <3> QED BY <1>7, <3>1 DEF Folded
  <2>2. rest \in States /\ rest # "exited"
    BY <1>7 DEF States, TrackType
  <2> HIDE DEF rest
  <2> QED BY <1>1, <1>7, <2>1, <2>2
<1> QED BY <1>3, <1>4, <1>5, <1>6, <1>7

LEMMA CheckedSeeded ==
    ASSUME NEW t \in TrackType, NEW s \in ScreenType
    PROVE  Checked(t, s).seeded = TRUE
<1> DEFINE new == Folded(t, s)
<1>1. new \in TrackType
  BY FoldedType
<1>2. ASSUME NEW u \in TrackType, NEW b
      PROVE  [u EXCEPT !.unread = \/ @
                                  \/ (t.seeded /\ u.state # t.state /\ u.state \in YourMove),
                       !.seeded = TRUE, !.backoff = b, !.due = b].seeded = TRUE
  BY DEF TrackType
<1> HIDE DEF new
<1> QED BY <1>1, <1>2 DEF Checked, new

(* What a tick shows of each agent.                                         *)
LEMMA TickShows ==
    ASSUME TypeOK, Tick, SeenDead, NEW p \in Panes
    PROVE  LET checked == p \in Open /\ Due(p)
           IN  /\ screen'[p].dead = screen[p].dead
               /\ track'[p].state \in States
               /\ checked => /\ track'[p].state = Folded(track[p], screen[p]).state
                             /\ track'[p].state = "exited" <=> screen[p].dead
                             /\ track'[p].seeded
               /\ ~ checked => /\ track'[p].state = track[p].state
                               /\ track'[p].seeded = track[p].seeded
<1>1. track[p] \in TrackType /\ screen[p] \in ScreenType /\ screen'[p] = screen[p]
  BY TickTrack
<1>2. /\ track'[p] = IF p \notin Open THEN track[p]
                      ELSE IF Due(p) THEN Checked(track[p], screen[p])
                      ELSE [track[p] EXCEPT !.due = @ - 1]
  BY DEF Tick
<1>3. CASE p \in Open /\ Due(p)
  <2>1. track'[p] = Checked(track[p], screen[p])
    BY <1>2, <1>3
  <2>2. /\ Checked(track[p], screen[p]).state = Folded(track[p], screen[p]).state
        /\ Checked(track[p], screen[p]).seeded
    BY <1>1, CheckedFacts, CheckedSeeded
  <2>3. Folded(track[p], screen[p]).state = "exited" <=> screen[p].dead
    BY <1>1, FoldedExited DEF SeenDead
  <2>4. Folded(track[p], screen[p]).state \in States
    BY <1>1, FoldedType DEF TrackType
  <2> QED BY <1>1, <1>3, <2>1, <2>2, <2>3, <2>4
<1>4. CASE ~ (p \in Open /\ Due(p))
  <2>1. ASSUME NEW t \in TrackType
        PROVE  LET u == [t EXCEPT !.due = @ - 1]
               IN  u.state = t.state /\ u.seeded = t.seeded /\ t.state \in States
    BY DEF TrackType
  <2> QED BY <1>1, <1>2, <1>4, <2>1
<1> QED BY <1>3, <1>4

(* One count.                                                               *)
LEMMA SameCount == \A s : Promise!Cardinality(s) = Cardinality(s)
BY DEF Promise!Cardinality, Cardinality

LEMMA PromiseTick == IInv /\ SeenDead /\ Tick => Promise!FeedNext /\ SeenDead'
<1> SUFFICES ASSUME IInv, SeenDead, Tick PROVE Promise!FeedNext /\ SeenDead'
  OBVIOUS
<1>0. PICK S : S = {p \in Open : Due(p)}
  OBVIOUS
<1> DEFINE shownNow == [p \in Panes |-> track[p].state]
           met == {p \in Panes : track[p].seeded}
           ended == {p \in Panes : screen[p].dead}
           shownNext == [p \in Panes |-> track'[p].state]
           news == {p \in Open : Due(p) /\ Announces(track[p], screen[p])}
           edges == {p \in (S \cap met) \ ended :
                         shownNext[p] # shownNow[p] /\ shownNext[p] \in {"waiting", "finished"}}
<1>1. Open \subseteq Panes /\ Open' = Open /\ next' = next /\ rail' = rail
  BY OpenPanes DEF IInv, TypeOK, Tick, Open
<1>2. S \in SUBSET Open /\ \A p \in Open : p \in S <=> Due(p)
  BY <1>0
<1>3. shownNext \in [Panes -> Promise!Shown]
  BY TickShows DEF IInv, Promise!Shown, States
<1>4. \A p \in Panes \ S : shownNext[p] = shownNow[p]
  BY <1>2, TickShows DEF IInv
<1>5. \A p \in S : p \in ended <=> shownNext[p] = "exited"
  BY <1>1, <1>2, TickShows DEF IInv
<1>6. {p \in Panes : track'[p].seeded} = met \cup S
  BY <1>1, <1>2, TickShows DEF IInv
<1>7. {p \in Panes : screen'[p].dead} = ended
  BY TickShows DEF IInv
<1>7a. edges = Promise!Edges(S)
  BY DEF Promise!Edges
<1>8. news = edges
  <2>1. \A p \in S : /\ p \in Panes /\ shownNext[p] = Folded(track[p], screen[p]).state
                     /\ Announces(track[p], screen[p]) <=> p \in edges
    BY <1>1, <1>2, TickShows DEF IInv, Announces
  <2> QED BY <1>1, <1>2, <2>1
<1>9. PICK walk \in [1 .. Cardinality(news) -> news] :
          /\ \A i, j \in DOMAIN walk : i < j =>
                 \E m, n \in DOMAIN rail : m < n /\ rail[m] = walk[i] /\ rail[n] = walk[j]
          /\ feed' = Pushed([i \in DOMAIN walk |-> Note(walk[i], track'[walk[i]].state)])
  BY DEF Tick
<1>10. Cardinality(news) \in Nat
  <2>1. news \subseteq 1 .. MaxPanes
    BY <1>1 DEF Panes
  <2>2. IsFiniteSet(1 .. MaxPanes)
    BY TrackAssumption, FS_Interval
  <2> QED BY <2>1, <2>2, FS_Subset, FS_CardinalityType
<1>11. \A i, j \in DOMAIN walk : i # j => walk[i] # walk[j]
  <2>1. ASSUME NEW i \in DOMAIN walk, NEW j \in DOMAIN walk, i < j
        PROVE  walk[i] # walk[j]
    <3>1. PICK m \in DOMAIN rail, n \in DOMAIN rail : m < n /\ rail[m] = walk[i] /\ rail[n] = walk[j]
      BY <1>9, <2>1
    <3>2. m # n
      BY <3>1 DEF IInv, TypeOK
    <3> QED BY <3>1, <3>2 DEF IInv, Roster, IsInjective
  <2>2. \A i, j \in DOMAIN walk : i # j => i < j \/ j < i
    BY <1>9, <1>10
  <2> QED BY <2>1, <2>2
<1>12. \E notes \in Promise!News(S) : Promise!Tell(notes)
  <2>1. \A i \in DOMAIN walk : walk[i] \in Panes
    BY <1>1, <1>9
  <2>2. PICK notes : notes = [i \in DOMAIN walk |-> Promise!Says(walk[i], shownNext[walk[i]])]
    OBVIOUS
  <2>3. notes = [i \in DOMAIN walk |-> Note(walk[i], track'[walk[i]].state)]
    BY <2>1, <2>2 DEF Promise!Says, Note
  <2>4. Promise!Tell(notes)
    BY <1>9, <2>3 DEF Promise!Tell, Promise!Latest, Pushed
  <2>5. notes \in Promise!News(S)
    <3> HIDE DEF news, edges
    <3>1. walk \in [1 .. Promise!Cardinality(Promise!Edges(S)) -> Promise!Edges(S)]
      BY <1>7a, <1>8, <1>9, SameCount
    <3> DEFINE orders == {o \in [1 .. Promise!Cardinality(Promise!Edges(S)) -> Promise!Edges(S)] :
                             \A i, j \in DOMAIN o : i # j => o[i] # o[j]}
               said(order) == [i \in DOMAIN order |-> Promise!Says(order[i], shownNext[order[i]])]
    <3>2. walk \in orders
      BY <1>11, <3>1
    <3>3. notes = said(walk)
      BY <2>2
    <3>4. Promise!News(S) = {said(order) : order \in orders}
      BY DEF Promise!News
    <3> QED BY <3>2, <3>3, <3>4
  <2> QED BY <2>4, <2>5
<1>13. SeenDead'
  <2> SUFFICES ASSUME NEW p \in Panes, track'[p].state = "exited" PROVE screen'[p].dead
    BY DEF SeenDead
  <2> QED BY TickShows DEF IInv, SeenDead
<1>14. Promise!Check(S)
  <2>1. UNCHANGED <<1 .. next, Open>> /\ {p \in Panes : screen'[p].dead} = ended
    BY <1>1, <1>7
  <2> QED BY <1>3, <1>4, <1>5, <1>6, <2>1 DEF Promise!Check
<1>15. \E T \in SUBSET Open : Promise!Check(T) /\ \E notes \in Promise!News(T) : Promise!Tell(notes)
  <2> QED BY <1>2, <1>12, <1>14
<1>16. Promise!FeedNext
  BY <1>15 DEF Promise!FeedNext, Promise!FeedStep
<1> QED BY <1>13, <1>16

-----------------------------------------------------------------------------
(* Every step of the tracker is one the promise allows.                     *)
LEMMA PromiseStep ==
    IInv /\ SeenDead /\ [Next]_vars => [Promise!FeedNext]_Promise!feedVars /\ SeenDead'
<1> SUFFICES ASSUME IInv, SeenDead, [Next]_vars
             PROVE  [Promise!FeedNext]_Promise!feedVars /\ SeenDead'
  OBVIOUS
<1>1. CASE UNCHANGED vars
  BY <1>1, QuietStep DEF vars
<1>2. CASE Tick
  BY <1>2, PromiseTick
<1>3. CASE Spawn
  BY <1>3, PromiseSpawn
<1>4. ASSUME NEW p \in Panes, PaneStep(p)
      PROVE  [Promise!FeedNext]_Promise!feedVars /\ SeenDead'
  BY <1>4, OutputIsQuiet, LullIsQuiet, LookIsQuiet, PromiseDrop, PromiseReplaced, PromiseFail
     DEF PaneStep
<1> QED BY <1>1, <1>2, <1>3, <1>4 DEF Next

(* The daemon keeps its promise to those who follow its agents, for any     *)
(* number of agents, any settle time and any length of the feed.            *)
THEOREM Implements == Spec => EdgesAreAnnounced
<1>1. Init => SeenDead
  BY DEF Init, SeenDead, NewTrack
<1>2. Spec => [](IInv /\ SeenDead)
  BY <1>1, PromiseStep, Inductive, PTL DEF Spec
<1> QED BY <1>2, PromiseInit, PromiseStep, PTL DEF Spec, EdgesAreAnnounced, Promise!FeedSpec

-----------------------------------------------------------------------------
(* The command that waits.  What it takes for news is news: the feed behind *)
(* the head it read holds what was announced since, and nothing older.      *)
Entries == [pane : Agents, kind : Shown]

WaitType ==
    /\ shown \in [Agents -> Shown] /\ IsFiniteSet(here)
    /\ told \in Seq(Entries) /\ since \in Nat
    /\ step \in {"head", "send", "poll", "feed", "done"} /\ moved \in BOOLEAN
    /\ fresh \in BOOLEAN /\ first \in Shown \union {None}

Vouched == AboutMine(Latest(told, since)) => moved
Compared == first # None => step # "head" /\ (moved \/ first = shown[Mine])
Vetted == fresh => moved
WaitInv == WaitType /\ Vouched /\ Compared /\ Vetted /\ AnswerIsNew

LEMMA LatestFacts ==
    ASSUME NEW S, NEW s \in Seq(S), NEW n \in Nat
    PROVE  /\ Latest(s, n) \in Seq(S)
           /\ Len(Latest(s, n)) = IF Len(s) > n THEN n ELSE Len(s)
           /\ \A i \in 1 .. Len(Latest(s, n)) :
                /\ i + (Len(s) - Len(Latest(s, n))) \in 1 .. Len(s)
                /\ Latest(s, n)[i] = s[i + (Len(s) - Len(Latest(s, n)))]
<1> DEFINE from == IF Len(s) > n THEN Len(s) - n + 1 ELSE 1
           r == SubSeq(s, from, Len(s))
<1>1. Latest(s, n) = r
  BY DEF Latest
<1>2. Len(s) \in Nat /\ from \in 1 .. Len(s) + 1 /\ Len(s) - from + 1 = IF Len(s) > n THEN n ELSE Len(s)
  OBVIOUS
<1> HIDE DEF from
<1>3. /\ r \in Seq(S) /\ Len(r) = Len(s) - from + 1
      /\ \A i \in 1 .. Len(r) : r[i] = s[i + (from - 1)]
  BY <1>2
<1> HIDE DEF r
<1>4. Len(s) - Len(r) = from - 1
  BY <1>2, <1>3
<1>5. \A i \in 1 .. Len(r) : i + (from - 1) \in 1 .. Len(s)
  BY <1>2, <1>3
<1> QED BY <1>1, <1>2, <1>3, <1>4, <1>5

LEMMA OutcomesApart ==
    {"none", "no such pane", "timed out", "gone"} \intersect Shown = {}
BY DEF Shown

(* What the daemon announces is seen behind the head, or was there before.  *)
LEMMA HeardIsVouched ==
    ASSUME WaitType, Vouched, NEW notes \in Seq(Entries), Heard(notes), step # "head"
    PROVE  /\ told' \in Seq(Entries) /\ since' \in Nat
           /\ AboutMine(Latest(told', since')) => moved'
<1> DEFINE all == told \o notes
<1>1. PICK L \in Nat : L = Len(told)
  BY DEF WaitType
<1>2. PICK n \in Nat : n = Len(notes)
  OBVIOUS
<1>3. /\ all \in Seq(Entries) /\ Len(all) = L + n
      /\ \A i \in 1 .. L + n : all[i] = IF i <= L THEN told[i] ELSE notes[i - L]
  BY <1>1, <1>2 DEF WaitType
<1>4. /\ told' = Latest(all, Keep)
      /\ since' = IF since + n < Keep THEN since + n ELSE Keep
      /\ moved \/ AboutMine(notes) => moved'
  BY <1>2 DEF Heard, Tell, CapAt, AboutMine
<1> HIDE DEF all
<1>5. since \in Nat /\ since' \in Nat /\ Keep \in Nat \ {0} /\ told \in Seq(Entries)
  BY <1>4, WaitAssumption DEF WaitType
<1>6. PICK t : t = told'
  OBVIOUS
<1>7. /\ t \in Seq(Entries) /\ Len(t) \in Nat
      /\ Len(t) = IF L + n > Keep THEN Keep ELSE L + n
      /\ \A i \in 1 .. Len(t) : t[i] = all[i + (L + n - Len(t))]
  <2>1. t = Latest(all, Keep) /\ L + n = Len(all) /\ Keep \in Nat
    BY <1>3, <1>4, <1>5, <1>6
  <2>2. /\ Latest(all, Keep) \in Seq(Entries)
        /\ Len(Latest(all, Keep)) = IF Len(all) > Keep THEN Keep ELSE Len(all)
        /\ \A i \in 1 .. Len(Latest(all, Keep)) :
               /\ i + (Len(all) - Len(Latest(all, Keep))) \in 1 .. Len(all)
               /\ Latest(all, Keep)[i] = all[i + (Len(all) - Len(Latest(all, Keep)))]
    BY <1>3, <2>1, LatestFacts
  <2>3. /\ t \in Seq(Entries) /\ Len(t) = IF Len(all) > Keep THEN Keep ELSE Len(all)
        /\ \A i \in 1 .. Len(t) : t[i] = all[i + (Len(all) - Len(t))]
    <3> DEFINE z == Latest(all, Keep)
    <3>1. /\ z \in Seq(Entries) /\ Len(z) = IF Len(all) > Keep THEN Keep ELSE Len(all)
          /\ \A i \in 1 .. Len(z) : z[i] = all[i + (Len(all) - Len(z))]
      BY <2>2
    <3>2. t = z
      BY <2>1
    <3> HIDE DEF z
    <3> QED BY <3>1, <3>2
  <2>4. Len(t) \in Nat
    BY <2>3
  <2>5. Len(t) = IF L + n > Keep THEN Keep ELSE L + n
    BY <2>1, <2>3
  <2>6. \A i \in 1 .. Len(t) : t[i] = all[i + (L + n - Len(t))]
    <3> SUFFICES ASSUME NEW i \in 1 .. Len(t) PROVE t[i] = all[i + (L + n - Len(t))]
      OBVIOUS
    <3>1. PICK j : j = i + (Len(all) - Len(t))
      OBVIOUS
    <3>2. t[i] = all[j]
      BY <2>3, <3>1
    <3>3. j = i + (L + n - Len(t))
      BY <2>1, <3>1
    <3> QED BY <3>2, <3>3
  <2> QED BY <2>3, <2>4, <2>5, <2>6
<1>length. PICK m \in Nat : m = Len(t)
  BY <1>7
<1>8. PICK r : r = Latest(told', since')
  OBVIOUS
<1>latest. /\ r \in Seq(Entries) /\ Len(r) \in Nat /\ Len(r) = IF m > since' THEN since' ELSE m
      /\ \A i \in 1 .. Len(r) : i + (m - Len(r)) \in 1 .. m /\ r[i] = t[i + (m - Len(r))]
  <2>1. PICK k \in Nat : k = since'
    BY <1>5
  <2>2. r = Latest(t, k)
    BY <1>6, <1>8, <2>1
  <2>3. /\ Latest(t, k) \in Seq(Entries)
        /\ Len(Latest(t, k)) = IF Len(t) > k THEN k ELSE Len(t)
        /\ \A i \in 1 .. Len(Latest(t, k)) :
               /\ i + (Len(t) - Len(Latest(t, k))) \in 1 .. Len(t)
               /\ Latest(t, k)[i] = t[i + (Len(t) - Len(Latest(t, k)))]
    BY <1>7, <2>1, LatestFacts
  <2>4. Len(Latest(t, k)) \in Nat
    BY <2>3
  <2> QED BY <1>length, <2>1, <2>2, <2>3, <2>4
<1>9. PICK l \in Nat : l = Len(r)
  BY <1>latest
<1>10. /\ r \in Seq(Entries) /\ l = IF m > since' THEN since' ELSE m
       /\ \A i \in 1 .. l : i + (m - l) \in 1 .. m /\ r[i] = told'[i + (m - l)]
  BY <1>6, <1>latest, <1>9
<1>11. PICK o : o = Latest(told, since)
  OBVIOUS
<1>before. /\ o \in Seq(Entries) /\ Len(o) \in Nat /\ Len(o) = IF L > since THEN since ELSE L
      /\ \A i \in 1 .. Len(o) : i + (L - Len(o)) \in 1 .. L /\ o[i] = told[i + (L - Len(o))]
  <2>1. /\ Latest(told, since) \in Seq(Entries)
        /\ Len(Latest(told, since)) = IF Len(told) > since THEN since ELSE Len(told)
        /\ \A i \in 1 .. Len(Latest(told, since)) :
               /\ i + (Len(told) - Len(Latest(told, since))) \in 1 .. Len(told)
               /\ Latest(told, since)[i] = told[i + (Len(told) - Len(Latest(told, since)))]
    BY <1>5, LatestFacts
  <2>2. Len(Latest(told, since)) \in Nat
    BY <2>1
  <2> QED BY <1>1, <1>11, <2>1, <2>2
<1>12. PICK k \in Nat : k = Len(o)
  BY <1>before
<1>13. /\ o \in Seq(Entries) /\ k = IF L > since THEN since ELSE L
       /\ \A i \in 1 .. k : o[i] = told[i + (L - k)]
  BY <1>before, <1>12
<1>whole. /\ told' \in Seq(Entries) /\ m = IF L + n > Keep THEN Keep ELSE L + n
      /\ \A i \in 1 .. m : told'[i] = all[i + (L + n - m)]
  BY <1>6, <1>7, <1>length
<1>14. ASSUME NEW i \in 1 .. l
       PROVE  \/ \E j \in 1 .. k : r[i] = o[j]
              \/ \E j \in 1 .. n : r[i] = notes[j]
  <2>0. L \in Nat /\ n \in Nat /\ m \in Nat /\ l \in Nat /\ k \in Nat
    BY <1>1, <1>2, <1>length, <1>9, <1>12
  <2>1. PICK j \in Int : j = (i + (m - l)) + (L + n - m)
    BY <2>0
  <2>2. r[i] = all[j]
    <3>1. i + (m - l) \in 1 .. m /\ r[i] = told'[i + (m - l)]
      BY <1>10
    <3>2. told'[i + (m - l)] = all[(i + (m - l)) + (L + n - m)]
      BY <1>whole, <3>1
    <3> QED BY <2>1, <3>1, <3>2
  <2>3. j \in 1 .. L + n /\ j > L + n - l /\ l <= since + n
    <3>1. j = i + (L + n - l)
      BY <2>0, <2>1
    <3>2. l <= m /\ m <= L + n /\ l <= since + n
      BY <1>4, <1>5, <1>whole, <1>10, <2>0
    <3> QED BY <2>0, <2>1, <3>1, <3>2
  <2>4. CASE j <= L
    <3>1. j - (L - k) \in 1 .. k /\ (j - (L - k)) + (L - k) = j
      BY <1>5, <1>13, <2>0, <2>1, <2>3, <2>4
    <3>2. r[i] = told[j]
      BY <1>3, <2>2, <2>3, <2>4
    <3>3. o[j - (L - k)] = told[(j - (L - k)) + (L - k)]
      BY <1>13, <3>1
    <3> QED BY <3>1, <3>2, <3>3
  <2>5. CASE ~ (j <= L)
    <3>1. j - L \in 1 .. n
      BY <2>0, <2>1, <2>3, <2>5
    <3> QED BY <1>3, <2>2, <2>3, <2>5, <3>1
  <2> QED BY <2>4, <2>5
<1>15. DOMAIN r = 1 .. l /\ DOMAIN o = 1 .. k /\ DOMAIN notes = 1 .. n
  <2>1. DOMAIN r = 1 .. l
    <3>1. r \in Seq(Entries)
      BY <1>10
    <3> QED BY <1>9, <3>1
  <2>2. DOMAIN o = 1 .. k
    <3>1. o \in Seq(Entries)
      BY <1>13
    <3> QED BY <1>12, <3>1
  <2>3. DOMAIN notes = 1 .. n
    BY <1>2
  <2> QED BY <2>1, <2>2, <2>3
<1>16. AboutMine(r) => AboutMine(o) \/ AboutMine(notes)
  BY <1>14, <1>15 DEF AboutMine
<1> QED BY <1>4, <1>5, <1>whole, <1>8, <1>11, <1>16 DEF Vouched

LEMMA HeardAtHead ==
    ASSUME WaitType, NEW notes \in Seq(Entries), Heard(notes), step = "head"
    PROVE  /\ told' \in Seq(Entries) /\ since' = 0
           /\ ~ AboutMine(Latest(told', since'))
<1>1. told \o notes \in Seq(Entries)
  BY DEF WaitType
<1>2. told' = Latest(told \o notes, Keep) /\ since' = 0
  BY DEF Heard, Tell
<1>3. told' \in Seq(Entries)
  BY <1>1, <1>2, WaitAssumption, LatestFacts
<1>4. Latest(told', since') \in Seq(Entries) /\ Len(Latest(told', since')) = 0
  BY <1>2, <1>3, LatestFacts
<1> QED BY <1>2, <1>3, <1>4 DEF AboutMine

(* What the daemon does, and what it says of it.                            *)
Moves == /\ shown' \in [Agents -> Shown] /\ IsFiniteSet(here')

LEMMA CheckSays ==
    ASSUME WaitType, NEW S \in SUBSET here, here \subseteq Agents, Check(S), NEW notes \in News(S)
    PROVE  notes \in Seq(Entries) /\ Moves
<1>1. Moves
  BY DEF WaitType, Check, Moves
<1>2. IsFiniteSet(Edges(S)) /\ Edges(S) \subseteq Agents
  BY FS_Subset DEF WaitType, Edges
<1>3. PICK n \in Nat : n = Cardinality(Edges(S))
  BY <1>2, FS_CardinalityType
<1>4. PICK order \in [1 .. n -> Edges(S)] :
          notes = [i \in DOMAIN order |-> Says(order[i], shown'[order[i]])]
  BY <1>3 DEF News
<1>5. \A i \in 1 .. n : order[i] \in Agents /\ shown'[order[i]] \in Shown
  BY <1>1, <1>2, <1>4 DEF Moves
<1>6. \A i \in 1 .. n : Says(order[i], shown'[order[i]]) \in Entries
  BY <1>5 DEF Says, Entries
<1>7. notes \in [1 .. n -> Entries]
  BY <1>4, <1>6
<1> QED BY <1>1, <1>7

LEMMA OthersSay ==
    ASSUME WaitType, NEW p \in Agents, NEW q \in Agents,
           Fails(p) \/ Comes(p) \/ Goes(p) \/ GivesWay(p, q)
    PROVE  Moves /\ LastNews(p) \in Seq(Entries) /\ << >> \in Seq(Entries)
<1>1. /\ shown \in [Agents -> Shown] /\ IsFiniteSet(here)
      /\ "idle" \in Shown /\ "exited" \in Shown
  BY DEF WaitType, Shown
<1>2. shown' \in [Agents -> Shown]
  BY <1>1 DEF Fails, Comes, Goes, GivesWay, Unknown
<1>3. \/ here' = here \/ here' = here \union {p} \/ here' = here \ {p}
      \/ here' = (here \ {p}) \union {q}
  BY DEF Fails, Comes, Goes, GivesWay
<1>4. IsFiniteSet(here')
  <2>1. IsFiniteSet(here \ {p}) /\ IsFiniteSet(here \union {p})
    BY <1>1, FS_AddElement, FS_RemoveElement
  <2>2. IsFiniteSet((here \ {p}) \union {q})
    BY <2>1, FS_AddElement
  <2> QED BY <1>1, <1>3, <2>1, <2>2
<1>5. LastNews(p) \in Seq(Entries) /\ << >> \in Seq(Entries)
  <2>1. Says(p, "exited") \in Entries
    BY <1>1 DEF Says, Entries
  <2> QED BY <2>1 DEF LastNews
<1> QED BY <1>2, <1>4, <1>5 DEF Moves

(* Whatever the daemon does, it says it.                                    *)
LEMMA DaemonSays ==
    ASSUME WaitType, here \subseteq Agents, Daemon
    PROVE  \E notes \in Seq(Entries) : Moves /\ Heard(notes)
<1>1. ASSUME NEW S \in SUBSET here, Check(S), NEW notes \in News(S), Heard(notes)
      PROVE  \E said \in Seq(Entries) : Moves /\ Heard(said)
  BY <1>1, CheckSays
<1>2. ASSUME NEW p \in Agents, Fails(p), Heard(LastNews(p))
      PROVE  \E said \in Seq(Entries) : Moves /\ Heard(said)
  BY <1>2, OthersSay
<1>3. ASSUME NEW p \in Agents, NEW q \in Agents, Comes(p) \/ Goes(p) \/ GivesWay(p, q), Heard(<< >>)
      PROVE  \E said \in Seq(Entries) : Moves /\ Heard(said)
  BY <1>3, OthersSay
<1> QED BY <1>1, <1>2, <1>3 DEF Daemon, FeedStep

LEMMA DaemonKeeps ==
    ASSUME WaitInv, here \subseteq Agents, Daemon
    PROVE  WaitInv'
<1>1. PICK notes \in Seq(Entries) : Moves /\ Heard(notes)
  BY DaemonSays DEF WaitInv
<1>2. /\ step' = step /\ fresh' = fresh /\ first' = first /\ answer' = answer
      /\ moved' = \/ moved
                  \/ step # "head" /\ (shown'[Mine] # shown[Mine] \/ AboutMine(notes))
  BY <1>1 DEF Daemon, Heard, AboutMine
<1>3. moved' \in BOOLEAN /\ (moved => moved')
  BY <1>2 DEF WaitInv, WaitType
<1>4. told' \in Seq(Entries) /\ since' \in Nat /\ Vouched'
  <2>1. CASE step = "head"
    BY <1>1, <2>1, HeardAtHead DEF WaitInv, Vouched
  <2>2. CASE step # "head"
    BY <1>1, <2>2, HeardIsVouched DEF WaitInv, Vouched
  <2> QED BY <2>1, <2>2
<1>5. WaitType'
  BY <1>1, <1>2, <1>3, <1>4 DEF WaitInv, WaitType, Moves
<1>6. Compared'
  BY <1>2, <1>3 DEF WaitInv, Compared
<1>7. Vetted' /\ AnswerIsNew'
  BY <1>2, <1>3 DEF WaitInv, Vetted, AnswerIsNew
<1> QED BY <1>4, <1>5, <1>6, <1>7 DEF WaitInv

(* A state ends the wait only if the agent is known to have moved.          *)
LEMMA JudgedKeeps ==
    ASSUME WaitInv, NEW state, NEW b \in BOOLEAN, b => moved, Judged(state, b), moved' = moved
    PROVE  /\ fresh' \in BOOLEAN /\ step' \in {"poll", "done"}
           /\ Vetted' /\ AnswerIsNew'
<1>1. CASE b /\ state \in Until
  BY <1>1 DEF Judged, Ends, WaitInv, WaitType, Vetted, AnswerIsNew
<1>2. CASE ~ (b /\ state \in Until)
  <2>1. fresh' = b /\ ((step' = "poll" /\ answer' = answer) \/ (step' = "done" /\ answer' = "timed out"))
    BY <1>2 DEF Judged, Again, Ends
  <2> QED BY <2>1, OutcomesApart DEF WaitInv, Vetted, AnswerIsNew
<1> QED BY <1>1, <1>2

LEMMA CommandKeeps ==
    ASSUME WaitInv, Command
    PROVE  WaitInv'
<1>1. /\ UNCHANGED <<shown, here, told, since, moved>>
  BY DEF Command, ReadHead, Deliver, PollState, PollFeed, feedVars, ghosts
<1>2. Vouched'
  BY <1>1 DEF WaitInv, Vouched
<1>3. CASE ReadHead
  BY <1>1, <1>2, <1>3 DEF ReadHead, WaitInv, WaitType, Compared, Vetted, AnswerIsNew
<1>4. CASE Deliver
  <2>1. /\ fresh' = fresh /\ first' = first /\ step' \in {"poll", "done"}
        /\ answer' = answer \/ answer' = "no such pane"
    BY <1>4 DEF Deliver, Ends
  <2> QED BY <1>1, <1>2, <2>1, OutcomesApart DEF WaitInv, WaitType, Compared, Vetted, AnswerIsNew
<1>5. CASE PollState
  <2>1. CASE Mine \notin here
    <3>1. step' = "done" /\ answer' = "gone" /\ fresh' = fresh /\ first' = first
      BY <1>5, <2>1 DEF PollState, Ends
    <3> QED BY <1>1, <1>2, <3>1, OutcomesApart DEF WaitInv, WaitType, Compared, Vetted, AnswerIsNew
  <2>2. CASE Mine \in here
    <3>1. /\ step = "poll" /\ got' = shown[Mine]
          /\ first' = IF first = None THEN shown[Mine] ELSE first
          /\ IF fresh \/ got' # first' THEN Judged(got', TRUE)
             ELSE step' = "feed" /\ fresh' = fresh /\ answer' = answer
      BY <1>5, <2>2 DEF PollState
    <3>2. /\ first' \in Shown /\ (moved \/ first' = shown[Mine])
          /\ (fresh \/ got' # first' => moved)
      BY <3>1, WaitAssumption DEF WaitInv, WaitType, Compared, Vetted
    <3>3. /\ fresh' \in BOOLEAN /\ step' \in {"poll", "feed", "done"}
          /\ Vetted' /\ AnswerIsNew'
      <4>1. CASE fresh \/ got' # first'
        <5>1. PICK g : g = got'
          OBVIOUS
        <5> QED BY <1>1, <3>1, <3>2, <4>1, <5>1, JudgedKeeps
      <4>2. CASE ~ (fresh \/ got' # first')
        BY <1>1, <3>1, <4>2 DEF WaitInv, WaitType, Vetted, AnswerIsNew
      <4> QED BY <4>1, <4>2
    <3>4. WaitType' /\ Compared'
      BY <1>1, <3>2, <3>3 DEF WaitInv, WaitType, Compared
    <3> QED BY <1>2, <3>3, <3>4 DEF WaitInv
  <2> QED BY <2>1, <2>2
<1>6. CASE PollFeed
  <2>1. PICK b \in BOOLEAN : b = AboutMine(Latest(told, since))
    BY DEF AboutMine
  <2>2. step = "feed" /\ Judged(got, b) /\ first' = first /\ (b => moved)
    BY <1>6, <2>1 DEF PollFeed, WaitInv, Vouched
  <2>3. fresh' \in BOOLEAN /\ step' \in {"poll", "done"} /\ Vetted' /\ AnswerIsNew'
    BY <1>1, <2>2, JudgedKeeps
  <2>4. WaitType' /\ Compared'
    BY <1>1, <2>2, <2>3 DEF WaitInv, WaitType, Compared
  <2> QED BY <1>2, <2>3, <2>4 DEF WaitInv
<1> QED BY <1>3, <1>4, <1>5, <1>6 DEF Command

Rows == here \subseteq Agents
LEMMA RowsStep == Rows /\ [WaitNext]_vars2 => Rows'
<1> SUFFICES ASSUME Rows, [WaitNext]_vars2
             PROVE  Rows'
  OBVIOUS
<1>1. CASE Daemon
  BY <1>1 DEF Daemon, FeedStep, Check, Fails, Comes, Goes, GivesWay, Rows
<1>2. CASE Command
  BY <1>2 DEF Command, ReadHead, Deliver, PollState, PollFeed, feedVars, Rows
<1>3. CASE UNCHANGED vars2
  BY <1>3 DEF vars2, feedVars, Rows
<1> QED BY <1>1, <1>2, <1>3 DEF WaitNext

LEMMA WaitStep == WaitInv /\ Rows /\ [WaitNext]_vars2 => WaitInv'
<1> SUFFICES ASSUME WaitInv, Rows, [WaitNext]_vars2
             PROVE  WaitInv'
  OBVIOUS
<1>1. CASE UNCHANGED vars2
  BY <1>1 DEF vars2, feedVars, waitVars, ghosts, WaitInv, WaitType, Vouched, Compared,
              Vetted, AnswerIsNew
<1> QED BY <1>1, DaemonKeeps, CommandKeeps DEF WaitNext, Rows

LEMMA WaitStarts == WaitInit => WaitInv /\ Rows
<1> SUFFICES ASSUME WaitInit
             PROVE  WaitInv /\ Rows
  OBVIOUS
<1>1. /\ here = {} /\ told = << >> /\ shown = [p \in Agents |-> "idle"]
      /\ step = "head" /\ since = 0 /\ fresh = FALSE /\ first = None /\ answer = None
      /\ moved = FALSE
  BY DEF WaitInit, FeedInit
<1>2. WaitType
  <2>1. shown \in [Agents -> Shown] /\ None \in Shown \union {None}
    BY <1>1 DEF Shown
  <2>2. IsFiniteSet(here) /\ told \in Seq(Entries)
    BY <1>1, FS_EmptySet
  <2> QED BY <1>1, <2>1, <2>2 DEF WaitType
<1>3. ~ AboutMine(Latest(told, since))
  <2>1. Latest(told, since) \in Seq(Entries) /\ Len(Latest(told, since)) = 0
    BY <1>1, <1>2, LatestFacts DEF WaitType
  <2> QED BY <2>1 DEF AboutMine
<1> QED BY <1>1, <1>2, <1>3, OutcomesApart
        DEF WaitInv, Vouched, Compared, Vetted, AnswerIsNew, None, Rows

(* A state ends the wait only if the agent has moved since the head of the  *)
(* feed was read: the end of the turn before does not answer for this one.  *)
THEOREM AnswersAreNew == WaitSpec => []AnswerIsNew
<1>1. WaitSpec => [](WaitInv /\ Rows)
  BY WaitStarts, WaitStep, RowsStep, PTL DEF WaitSpec
<1>2. WaitInv => AnswerIsNew
  BY DEF WaitInv
<1> QED BY <1>1, <1>2, PTL
=============================================================================

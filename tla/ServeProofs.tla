---------------------------- MODULE ServeProofs ----------------------------
(* What a client shows is what the daemon drew for it, for any number of    *)
(* clients and panes, however much is queued: the invariants of Serve and   *)
(* their proofs.                                                            *)
EXTENDS Serve, SequenceTheorems, FiniteSetTheorems, TLAPS

(* The messages w replay as the screens f to a client that shows f[0]: each *)
(* frame that is a difference is one to the screen before it.               *)
Replay(w, f) ==
    \A i \in 1 .. Len(w) :
        IF w[i].type = "frame"
        THEN f[i] = w[i].screen /\ w[i].base \in {Unpainted, f[i - 1]}
        ELSE f[i] = f[i - 1]

(* A client that shows v ends with what the daemon drew last for it.        *)
Fits(v, w, last) ==
    \E f \in [0 .. Len(w) -> Pictures] :
        f[0] = v /\ Replay(w, f) /\ last \in {Unpainted, f[Len(w)]}

Chained == \A c \in Clients : link[c] # "off" => Fits(view[c].screen, wire[c], clients[c].last)
Whole == \A c \in Clients : view[c].screen \in Pictures /\ (link[c] = "off" => view[c] = Blank)

(* A connection is known or it is not; one that is on its way was told      *)
(* nothing yet.                                                             *)
Arrivals(c) == {i \in DOMAIN control : control[i].kind = "connected" /\ control[i].of = c}
Leaving(c) == \E i \in DOMAIN control : control[i].kind = "gone" /\ control[i].of = c
Known ==
    \A c \in Clients :
        /\ ~ clients[c].on => clients[c] = Absent
        /\ Arriving(c) => clients[c] = Absent /\ wire[c] = << >>
        /\ \A i, j \in Arrivals(c) : i = j
        /\ loop = "stopped" => ~ clients[c].on

(* What is not dirty has been drawn.                                        *)
Drawn ==
    ~ dirty => \A c \in Watching : Watched(c).open =>
        clients[c].last = Picture(clients[c].pane, Watched(c))

(* The last word to a connection is that it is detached, and it is said to  *)
(* whoever the daemon forgets while it is there.                            *)
LastWord ==
    \A c \in Clients :
        /\ clients[c].on => \A i \in DOMAIN wire[c] : wire[c][i].type # "detached"
        /\ \A i \in DOMAIN wire[c] : wire[c][i].type = "detached" => i = Len(wire[c])
        /\ link[c] # "off" /\ ~ clients[c].on /\ ~ Arriving(c)
              => wire[c] # << >> /\ wire[c][Len(wire[c])].type = "detached"
        /\ Leaving(c) => link[c] = "off"

IInv == TypeOK /\ Chained /\ Whole /\ Known /\ Drawn /\ LastWord

-----------------------------------------------------------------------------
(* Messages and screens.                                                    *)

LEMMA NotFrames ==
    /\ Hello \in Messages /\ Hello.type = "hello"
    /\ Error \in Messages /\ Error.type = "error"
    /\ \A why \in Reasons : /\ Detached(why) \in Messages
                            /\ Detached(why).type = "detached"
                            /\ Detached(why).why = why
BY DEF Hello, Error, Detached, Messages

LEMMA FrameType ==
    ASSUME NEW base \in Pictures, NEW s \in Pictures, NEW ca \in BOOLEAN, NEW mo \in BOOLEAN
    PROVE  /\ Frame(base, s, ca, mo) \in Messages
           /\ Frame(base, s, ca, mo).type = "frame"
           /\ Frame(base, s, ca, mo).base = base
           /\ Frame(base, s, ca, mo).screen = s
BY DEF Frame, Messages

LEMMA FrameParts ==
    ASSUME NEW m \in Messages, m.type = "frame"
    PROVE  /\ m.base \in Pictures /\ m.screen \in Pictures
           /\ m.caret \in BOOLEAN /\ m.mouse \in BOOLEAN
BY DEF Messages, Hello, Error

LEMMA PictureType ==
    ASSUME NEW p \in Panes, NEW s, s.screen \in 0 .. Screens - 1, s.back \in BOOLEAN
    PROVE  Picture(p, s) \in Pictures /\ Picture(p, s) # Unpainted
BY ServeAssumption DEF Picture, Pictures, Unpainted

LEMMA NotGarbled == Garbled \notin Pictures
BY DEF Garbled, Pictures, Unpainted

(* A message more.                                                          *)
LEMMA Appended ==
    ASSUME NEW w \in Seq(Messages), NEW m \in Messages
    PROVE  /\ Append(w, m) \in Seq(Messages)
           /\ Len(Append(w, m)) = Len(w) + 1
           /\ Append(w, m) # << >>
           /\ Append(w, m)[Len(w) + 1] = m
           /\ \A i \in 1 .. Len(w) : Append(w, m)[i] = w[i]
BY AppendProperties

LEMMA AppendTwice ==
    ASSUME NEW w \in Seq(Messages), NEW m \in Messages, NEW n \in Messages
    PROVE  w \o <<m, n>> = Append(Append(w, m), n)
<1> DEFINE u == w \o <<m, n>>
           t == Append(Append(w, m), n)
<1>1. <<m, n>> \in Seq(Messages) /\ Len(<<m, n>>) = 2 /\ <<m, n>>[1] = m /\ <<m, n>>[2] = n
    OBVIOUS
<1>2. /\ u \in Seq(Messages) /\ Len(u) = Len(w) + 2
      /\ \A i \in 1 .. Len(w) + 2 : u[i] = IF i <= Len(w) THEN w[i] ELSE <<m, n>>[i - Len(w)]
    BY <1>1, ConcatProperties
<1>3. /\ t \in Seq(Messages) /\ Len(t) = Len(w) + 2
      /\ t[Len(w) + 2] = n /\ t[Len(w) + 1] = m
      /\ \A i \in 1 .. Len(w) : t[i] = w[i]
    BY Appended
<1> HIDE DEF u, t
<1>4. ASSUME NEW i \in 1 .. Len(u)
      PROVE  u[i] = t[i]
    <2>1. Len(w) \in Nat /\ i \in 1 .. Len(w) + 2
        BY <1>2
    <2>2. CASE i <= Len(w)
        BY <1>2, <1>3, <2>1, <2>2
    <2>3. CASE i = Len(w) + 1
        <3>1. ~ (i <= Len(w)) /\ i - Len(w) = 1
            BY <2>1, <2>3
        <3> QED
            BY <1>1, <1>2, <1>3, <2>1, <2>3, <3>1
    <2>4. CASE i = Len(w) + 2
        <3>1. ~ (i <= Len(w)) /\ i - Len(w) = 2
            BY <2>1, <2>4
        <3> QED
            BY <1>1, <1>2, <1>3, <2>1, <2>4, <3>1
    <2> QED
        BY <2>1, <2>2, <2>3, <2>4
<1>5. u = t
    BY <1>2, <1>3, <1>4, SeqEqual
<1> QED
    BY <1>5 DEF u, t

LEMMA FitsAppend ==
    ASSUME NEW v, NEW w \in Seq(Messages), NEW last, Fits(v, w, last),
           NEW m \in Messages, m.type # "frame"
    PROVE  Fits(v, Append(w, m), last)
<1> DEFINE n == Len(w)
           u == Append(w, m)
<1>1. PICK f \in [0 .. n -> Pictures] :
          f[0] = v /\ Replay(w, f) /\ last \in {Unpainted, f[n]}
    BY DEF Fits
<1>2. n \in Nat
    OBVIOUS
<1>3. Len(u) = n + 1 /\ u[n + 1] = m /\ \A i \in 1 .. n : u[i] = w[i]
    BY Appended
<1> HIDE DEF u
<1> DEFINE g == [i \in 0 .. n + 1 |-> IF i <= n THEN f[i] ELSE f[n]]
<1>4. g \in [0 .. n + 1 -> Pictures] /\ g[0] = v /\ g[n + 1] = f[n] /\ \A i \in 0 .. n : g[i] = f[i]
    BY <1>1, <1>2
<1> HIDE DEF g
<1>5. Replay(u, g)
    <2> SUFFICES ASSUME NEW i \in 1 .. n + 1
                 PROVE  IF u[i].type = "frame"
                        THEN g[i] = u[i].screen /\ u[i].base \in {Unpainted, g[i - 1]}
                        ELSE g[i] = g[i - 1]
        BY <1>3 DEF Replay
    <2>1. CASE i = n + 1
        BY <1>2, <1>3, <1>4, <2>1
    <2>2. CASE i \in 1 .. n
        <3>1. i - 1 \in 0 .. n /\ i \in 0 .. n
            BY <1>2, <2>2
        <3> QED
            BY <1>1, <1>3, <1>4, <2>2, <3>1 DEF Replay
    <2> QED
        BY <1>2, <2>1, <2>2
<1>6. g \in [0 .. Len(u) -> Pictures] /\ last \in {Unpainted, g[Len(u)]}
    BY <1>1, <1>3, <1>4
<1>7. Fits(v, u, last)
    BY <1>4, <1>5, <1>6 DEF Fits
<1> QED
    BY <1>7 DEF u

LEMMA FitsFrame ==
    ASSUME NEW v, NEW w \in Seq(Messages), NEW last, Fits(v, w, last),
           NEW m \in Messages, m.type = "frame", m.base = last
    PROVE  Fits(v, Append(w, m), m.screen)
<1> DEFINE n == Len(w)
           u == Append(w, m)
<1>1. PICK f \in [0 .. n -> Pictures] :
          f[0] = v /\ Replay(w, f) /\ last \in {Unpainted, f[n]}
    BY DEF Fits
<1>2. n \in Nat
    OBVIOUS
<1>3. Len(u) = n + 1 /\ u[n + 1] = m /\ \A i \in 1 .. n : u[i] = w[i]
    BY Appended
<1> HIDE DEF u
<1> DEFINE g == [i \in 0 .. n + 1 |-> IF i <= n THEN f[i] ELSE m.screen]
<1>4. /\ g \in [0 .. n + 1 -> Pictures] /\ g[0] = v /\ g[n + 1] = m.screen
      /\ \A i \in 0 .. n : g[i] = f[i]
    BY <1>1, <1>2, FrameParts
<1> HIDE DEF g
<1>5. Replay(u, g)
    <2> SUFFICES ASSUME NEW i \in 1 .. n + 1
                 PROVE  IF u[i].type = "frame"
                        THEN g[i] = u[i].screen /\ u[i].base \in {Unpainted, g[i - 1]}
                        ELSE g[i] = g[i - 1]
        BY <1>3 DEF Replay
    <2>1. CASE i = n + 1
        <3>1. g[i - 1] = f[n]
            BY <1>2, <1>4, <2>1
        <3> QED
            BY <1>1, <1>3, <1>4, <2>1, <3>1
    <2>2. CASE i \in 1 .. n
        <3>1. i - 1 \in 0 .. n /\ i \in 0 .. n
            BY <1>2, <2>2
        <3> QED
            BY <1>1, <1>3, <1>4, <2>2, <3>1 DEF Replay
    <2> QED
        BY <1>2, <2>1, <2>2
<1>6. g \in [0 .. Len(u) -> Pictures] /\ m.screen = g[Len(u)]
    BY <1>3, <1>4
<1>7. Fits(v, u, m.screen)
    BY <1>4, <1>5, <1>6 DEF Fits
<1> QED
    BY <1>7 DEF u

LEMMA FitsFull ==
    ASSUME NEW v, NEW w, NEW last, Fits(v, w, last)
    PROVE  Fits(v, w, Unpainted)
BY DEF Fits

LEMMA FitsNothing ==
    ASSUME NEW v \in Pictures
    PROVE  Fits(v, << >>, Unpainted)
<1> DEFINE f == [i \in 0 .. 0 |-> v]
<1>1. Len(<< >>) = 0 /\ f \in [0 .. 0 -> Pictures] /\ f[0] = v
    OBVIOUS
<1>2. Replay(<< >>, f)
    BY <1>1 DEF Replay
<1> QED
    BY <1>1, <1>2 DEF Fits

(* A message read: what the client shows then fits the rest.                *)
LEMMA FitsRead ==
    ASSUME NEW v, NEW w \in Seq(Messages), NEW last, Fits(v, w, last), w # << >>
    PROVE  IF Head(w).type = "frame"
           THEN Head(w).base \in {Unpainted, v} /\ Fits(Head(w).screen, Tail(w), last)
           ELSE Fits(v, Tail(w), last)
<1> DEFINE n == Len(w)
           u == Tail(w)
           m == Head(w)
<1>1. PICK f \in [0 .. n -> Pictures] :
          f[0] = v /\ Replay(w, f) /\ last \in {Unpainted, f[n]}
    BY DEF Fits
<1>2. n \in Nat \ {0} /\ Len(u) = n - 1 /\ m = w[1] /\ \A i \in 1 .. n - 1 : u[i] = w[i + 1]
    BY HeadTailProperties
<1> HIDE DEF u, m
<1> DEFINE g == [i \in 0 .. n - 1 |-> f[i + 1]]
<1>3. g \in [0 .. n - 1 -> Pictures] /\ g[0] = f[1] /\ g[n - 1] = f[n] /\ \A i \in 0 .. n - 1 : g[i] = f[i + 1]
    BY <1>1, <1>2
<1> HIDE DEF g
<1>4. Replay(u, g)
    <2> SUFFICES ASSUME NEW i \in 1 .. n - 1
                 PROVE  IF u[i].type = "frame"
                        THEN g[i] = u[i].screen /\ u[i].base \in {Unpainted, g[i - 1]}
                        ELSE g[i] = g[i - 1]
        BY <1>2 DEF Replay
    <2>1. g[i] = f[i + 1] /\ g[i - 1] = f[i] /\ i + 1 \in 1 .. n /\ (i + 1) - 1 = i /\ u[i] = w[i + 1]
        BY <1>2, <1>3
    <2> QED
        BY <1>1, <2>1 DEF Replay
<1>5. IF m.type = "frame" THEN f[1] = m.screen /\ m.base \in {Unpainted, v} ELSE f[1] = v
    BY <1>1, <1>2 DEF Replay
<1>6. Fits(f[1], u, last)
    BY <1>1, <1>2, <1>3, <1>4 DEF Fits
<1> QED
    BY <1>5, <1>6 DEF u, m

-----------------------------------------------------------------------------
(* Panes.                                                                   *)

LEMMA PanesType ==
    /\ Gone \in PaneType /\ NewPane \in PaneType
    /\ Absent \in ClientType /\ Fresh \in ClientType
    /\ ~ Gone.open
    /\ ~ Absent.on /\ Absent.pane = None /\ Absent.last = Unpainted
    /\ Fresh.on /\ Fresh.pane = None /\ Fresh.last = Unpainted
    /\ Unpainted \in Pictures
<1>1. Gone \in PaneType /\ ~ Gone.open
    BY ServeAssumption DEF Gone, PaneType
<1>2. NewPane \in PaneType
    BY <1>1 DEF NewPane, PaneType
<1>3. /\ Unpainted \in Pictures
      /\ Absent \in [on : BOOLEAN, pane : {None}, last : Pictures]
      /\ ~ Absent.on /\ Absent.pane = None /\ Absent.last = Unpainted
    BY DEF Absent, Pictures
<1>4. Fresh.on /\ Fresh.pane = None /\ Fresh.last = Unpainted
    BY <1>3 DEF Fresh
<1>5. Fresh \in ClientType /\ Absent \in ClientType
    BY <1>3 DEF Fresh, ClientType
<1> QED
    BY <1>1, <1>2, <1>3, <1>4, <1>5

LEMMA FedType ==
    ASSUME NEW s \in PaneType, NEW n, \A kind \in {"draw", "caret", "mouse"} : n[kind] \in Nat
    PROVE  /\ Fed(s, n) \in PaneType
           /\ Fed(s, n).open = s.open
<1>1. (s.screen + n["draw"]) % Screens \in 0 .. Screens - 1
    BY ServeAssumption DEF PaneType
<1> QED
    BY <1>1 DEF Fed, PaneType

(* Output changes no pane that is gone, and what no chunk is for.           *)
LEMMA FedAllType ==
    ASSUME TypeOK, NEW batch \in Seq(Panes), NEW kinds
    PROVE  /\ FedAll(batch, kinds) \in [Panes -> PaneType]
           /\ \A p \in Panes : FedAll(batch, kinds)[p].open = panes[p].open
<1>1. ASSUME NEW p \in Panes
      PROVE  \A kind \in {"draw", "caret", "mouse"} : Chunks(batch, kinds, p)[kind] \in Nat
    <2>1. IsFiniteSet(DOMAIN batch)
        <3>1. DOMAIN batch = 1 .. Len(batch) /\ Len(batch) \in Nat
            OBVIOUS
        <3> QED
            BY <3>1, FS_Interval
    <2>2. ASSUME NEW kind \in {"draw", "caret", "mouse"}
          PROVE  Chunks(batch, kinds, p)[kind] \in Nat
        <3> DEFINE T == {i \in DOMAIN batch : batch[i] = p /\ kinds[i] = kind}
        <3>1. IsFiniteSet(T)
            BY <2>1, FS_Subset
        <3>2. Cardinality(T) \in Nat
            BY <3>1, FS_CardinalityType
        <3> QED
            BY <3>2 DEF Chunks
    <2> QED
        BY <2>2
<1>2. panes \in [Panes -> PaneType]
    BY DEF TypeOK
<1>3. \A p \in Panes : FedAll(batch, kinds)[p] \in PaneType /\ FedAll(batch, kinds)[p].open = panes[p].open
    BY <1>1, <1>2, FedType DEF FedAll
<1> QED
    BY <1>3 DEF FedAll

LEMMA NothingFed ==
    ASSUME TypeOK, NEW batch \in Seq(Panes), NEW kinds, ~ Touched(batch)
    PROVE  FedAll(batch, kinds) = panes
<1>1. panes \in [Panes -> PaneType]
    BY DEF TypeOK
<1>2. ASSUME NEW p \in Panes, panes[p].open
      PROVE  Fed(panes[p], Chunks(batch, kinds, p)) = panes[p]
    <2>1. \A i \in DOMAIN batch : batch[i] # p
        BY <1>2 DEF Touched
    <2>2. ASSUME NEW kind \in {"draw", "caret", "mouse"}
          PROVE  Chunks(batch, kinds, p)[kind] = 0
        <3>1. {i \in DOMAIN batch : batch[i] = p /\ kinds[i] = kind} = {}
            BY <2>1
        <3> QED
            BY <3>1, FS_EmptySet DEF Chunks
    <2>3. panes[p] \in PaneType
        BY <1>1
    <2>4. (panes[p].screen + 0) % Screens = panes[p].screen
        BY <2>3, ServeAssumption DEF PaneType
    <2>5. 0 % 2 # 1
        OBVIOUS
    <2> QED
        BY <2>2, <2>3, <2>4, <2>5 DEF Fed, PaneType
<1> QED
    BY <1>1, <1>2 DEF FedAll

-----------------------------------------------------------------------------
(* What the daemon does to a connection: nothing; it ends it and says why;  *)
(* it answers; it turns it to a pane or to a full frame; it draws.          *)
Kept(c) == clients'[c] = clients[c] /\ wire'[c] = wire[c]
Told(c, why) ==
    /\ clients[c].on /\ clients'[c] = Absent
    /\ \/ wire'[c] = Append(wire[c], Detached(why))
       \/ wire'[c] = Append(Append(wire[c], Error), Detached(why))
Replied(c) == clients[c].on /\ clients'[c] = clients[c] /\ wire'[c] = Append(wire[c], Error)
Turned(c) ==
    /\ clients[c].on
    /\ \E p \in Panes \union {None} : clients'[c] = [on |-> TRUE, pane |-> p, last |-> Unpainted]
    /\ wire'[c] = wire[c] \/ wire'[c] = Append(wire[c], Hello)
Drew(c) ==
    /\ clients[c].on
    /\ \E m \in Messages :
           /\ m.type = "frame" /\ m.base = clients[c].last
           /\ wire'[c] = Append(wire[c], m)
           /\ clients'[c] = [clients[c] EXCEPT !.last = m.screen]
Truly(c, why) ==
    /\ why = "pane closed" =>
           loop' # "stopped" /\ \E p \in Panes : clients[c].pane = p /\ ~ panes'[p].open
    /\ why = "server shutting down" <=> loop' = "stopped"
ServerStep(c) ==
    Kept(c) \/ (\E why \in Reasons : Told(c, why) /\ Truly(c, why)) \/ Replied(c) \/ Turned(c) \/ Drew(c)

LEMMA ServerStepType ==
    ASSUME TypeOK, NEW c \in Clients, ServerStep(c)
    PROVE  clients'[c] \in ClientType /\ wire'[c] \in Seq(Messages)
<1>1. clients[c] \in ClientType /\ wire[c] \in Seq(Messages)
    BY DEF TypeOK
<1>2. CASE Kept(c)
    BY <1>1, <1>2 DEF Kept
<1>3. ASSUME NEW why \in Reasons, Told(c, why)
      PROVE  clients'[c] \in ClientType /\ wire'[c] \in Seq(Messages)
    <2>1. /\ Detached(why) \in Messages
          /\ Append(wire[c], Error) \in Seq(Messages)
        BY <1>1, NotFrames, Appended
    <2>2. wire'[c] \in Seq(Messages)
        BY <1>1, <1>3, <2>1, Appended DEF Told
    <2> QED
        BY <1>3, <2>2, PanesType DEF Told
<1>4. CASE Replied(c)
    BY <1>1, <1>4, NotFrames, Appended DEF Replied
<1>5. CASE Turned(c)
    <2>1. wire'[c] \in Seq(Messages)
        BY <1>1, <1>5, NotFrames, Appended DEF Turned
    <2>2. \A p \in Panes \union {None} : [on |-> TRUE, pane |-> p, last |-> Unpainted] \in ClientType
        BY PanesType DEF ClientType
    <2> QED
        BY <1>5, <2>1, <2>2 DEF Turned
<1>6. CASE Drew(c)
    BY <1>1, <1>6, Appended, FrameParts DEF Drew, ClientType
<1> QED
    BY <1>2, <1>3, <1>4, <1>5, <1>6 DEF ServerStep

LEMMA ServerStepFits ==
    ASSUME TypeOK, NEW c \in Clients, ServerStep(c), NEW v, Fits(v, wire[c], clients[c].last)
    PROVE  Fits(v, wire'[c], clients'[c].last)
<1>1. clients[c] \in ClientType /\ wire[c] \in Seq(Messages)
    BY DEF TypeOK
<1>2. Fits(v, wire[c], Unpainted)
    BY FitsFull
<1>3. CASE Kept(c)
    BY <1>3 DEF Kept
<1>4. ASSUME NEW why \in Reasons, Told(c, why)
      PROVE  Fits(v, wire'[c], clients'[c].last)
    <2>1. Fits(v, Append(wire[c], Error), Unpainted) /\ Append(wire[c], Error) \in Seq(Messages)
        BY <1>1, <1>2, NotFrames, FitsAppend, Appended
    <2>2. Fits(v, wire'[c], Unpainted)
        BY <1>1, <1>2, <1>4, <2>1, NotFrames, FitsAppend DEF Told
    <2> QED
        BY <1>4, <2>2, PanesType DEF Told
<1>5. CASE Replied(c)
    BY <1>1, <1>5, NotFrames, FitsAppend DEF Replied
<1>6. CASE Turned(c)
    <2>1. Fits(v, wire'[c], Unpainted)
        BY <1>1, <1>2, <1>6, NotFrames, FitsAppend DEF Turned
    <2> QED
        BY <1>6, <2>1 DEF Turned
<1>7. CASE Drew(c)
    <2>1. PICK m \in Messages :
              /\ m.type = "frame" /\ m.base = clients[c].last
              /\ wire'[c] = Append(wire[c], m)
              /\ clients'[c] = [clients[c] EXCEPT !.last = m.screen]
        BY <1>7 DEF Drew
    <2>2. Fits(v, wire'[c], m.screen)
        BY <1>1, <2>1, FitsFrame
    <2>3. clients'[c].last = m.screen
        BY <1>1, <2>1 DEF ClientType
    <2> QED
        BY <2>2, <2>3
<1> QED
    BY <1>3, <1>4, <1>5, <1>6, <1>7 DEF ServerStep

(* Nothing is said to a connection that the daemon has forgotten, and one   *)
(* it forgets is told so last.                                              *)
Quiet(w) == \A i \in DOMAIN w : w[i].type # "detached"
Closing(w) == \A i \in DOMAIN w : w[i].type = "detached" => i = Len(w)
Ends(w) == w # << >> /\ w[Len(w)].type = "detached"

LEMMA QuietAppend ==
    ASSUME NEW w \in Seq(Messages), NEW m \in Messages, Quiet(w)
    PROVE  /\ m.type # "detached" => Quiet(Append(w, m))
           /\ m.type = "detached" => Closing(Append(w, m)) /\ Ends(Append(w, m))
<1>1. /\ DOMAIN w = 1 .. Len(w) /\ Len(w) \in Nat
      /\ DOMAIN Append(w, m) = 1 .. Len(w) + 1
    BY Appended
<1>2. \A i \in DOMAIN Append(w, m) : i \in DOMAIN w \/ i = Len(w) + 1
    BY <1>1
<1> QED
    BY <1>1, <1>2, Appended DEF Quiet, Closing, Ends

LEMMA ServerStepTold ==
    ASSUME TypeOK, Known, LastWord, NEW c \in Clients, ServerStep(c)
    PROVE  /\ ~ clients'[c].on => clients'[c] = Absent
           /\ ~ clients[c].on => Kept(c)
           /\ clients'[c].on => Quiet(wire'[c])
           /\ Closing(wire'[c])
           /\ clients[c].on /\ ~ clients'[c].on => Ends(wire'[c])
<1>1. clients[c] \in ClientType /\ wire[c] \in Seq(Messages)
    BY DEF TypeOK
<1>2. /\ clients[c].on => Quiet(wire[c])
      /\ Closing(wire[c])
      /\ ~ clients[c].on => clients[c] = Absent
    BY DEF LastWord, Known, Quiet, Closing
<1>3. \A w : Quiet(w) => Closing(w)
    BY DEF Quiet, Closing
<1>4. CASE Kept(c)
    BY <1>2, <1>4 DEF Kept
<1>5. ASSUME NEW why \in Reasons, Told(c, why)
      PROVE  /\ ~ clients'[c].on /\ clients'[c] = Absent /\ clients[c].on
             /\ Closing(wire'[c]) /\ Ends(wire'[c])
    <2>1. Append(wire[c], Error) \in Seq(Messages) /\ Quiet(Append(wire[c], Error))
        BY <1>1, <1>2, <1>5, NotFrames, Appended, QuietAppend DEF Told
    <2>2. Closing(wire'[c]) /\ Ends(wire'[c])
        BY <1>1, <1>2, <1>5, <2>1, NotFrames, QuietAppend DEF Told
    <2> QED
        BY <1>5, <2>2, PanesType DEF Told
<1>6. CASE Replied(c)
    <2>1. Quiet(wire'[c])
        BY <1>1, <1>2, <1>6, NotFrames, QuietAppend DEF Replied
    <2> QED
        BY <1>3, <1>6, <2>1 DEF Replied
<1>7. CASE Turned(c)
    <2>1. Quiet(wire'[c])
        BY <1>1, <1>2, <1>7, NotFrames, QuietAppend DEF Turned
    <2> QED
        BY <1>3, <1>7, <2>1 DEF Turned
<1>8. CASE Drew(c)
    <2>1. Quiet(wire'[c])
        BY <1>1, <1>2, <1>8, QuietAppend DEF Drew
    <2>2. clients'[c].on
        BY <1>1, <1>8 DEF Drew, ClientType
    <2> QED
        BY <1>3, <1>8, <2>1, <2>2 DEF Drew
<1> QED
    BY <1>4, <1>5, <1>6, <1>7, <1>8 DEF ServerStep

LEMMA ServerStepTrue ==
    ASSUME TypeOK, NEW c \in Clients, ServerStep(c), clients[c].on, ~ clients'[c].on
    PROVE  Truly(c, Last(wire'[c]).why)
<1>1. clients[c] \in ClientType /\ wire[c] \in Seq(Messages)
    BY DEF TypeOK
<1>2. ~ Kept(c) /\ ~ Replied(c) /\ ~ Turned(c) /\ ~ Drew(c)
    <2>1. ~ Kept(c) /\ ~ Replied(c)
        BY DEF Kept, Replied
    <2>2. ~ Turned(c)
        <3>1. \A p : [on |-> TRUE, pane |-> p, last |-> Unpainted].on
            OBVIOUS
        <3> QED
            BY <3>1 DEF Turned
    <2>3. ~ Drew(c)
        BY <1>1 DEF Drew, ClientType
    <2> QED
        BY <2>1, <2>2, <2>3
<1>3. PICK why \in Reasons : Told(c, why) /\ Truly(c, why)
    BY <1>2 DEF ServerStep
<1>4. /\ Append(wire[c], Error) \in Seq(Messages)
      /\ Detached(why) \in Messages /\ Detached(why).why = why
    BY <1>1, NotFrames, Appended
<1>5. \A w \in Seq(Messages) : Last(Append(w, Detached(why))) = Detached(why)
    BY <1>4, Appended DEF Last
<1> QED
    BY <1>1, <1>3, <1>4, <1>5 DEF Told

-----------------------------------------------------------------------------
(* The handlers.                                                            *)
Steps == \A c \in Clients : ServerStep(c)
Total ==
    /\ clients' = [c \in Clients |-> clients'[c]] /\ wire' = [c \in Clients |-> wire'[c]]
    /\ panes' \in [Panes -> PaneType] /\ dirty' \in BOOLEAN

LEMMA DrawnKept ==
    ASSUME TypeOK, Drawn, dirty => dirty',
           ~ dirty' => /\ \A p \in Panes : panes'[p].open => panes'[p] = panes[p]
                       /\ \A c \in Clients : clients'[c] = clients[c] \/ clients'[c].pane = None
    PROVE  Drawn'
<1> SUFFICES ASSUME ~ dirty', NEW c \in Clients, clients'[c].on, clients'[c].pane # None,
                    panes'[clients'[c].pane].open
             PROVE  clients'[c].last = Picture(clients'[c].pane, panes'[clients'[c].pane])
    BY DEF Drawn, Watching, Watched
<1>1. clients'[c] = clients[c] /\ clients[c].pane \in Panes
    BY DEF TypeOK, ClientType
<1> QED
    BY <1>1 DEF Drawn, Watching, Watched

LEMMA DetachAllSteps ==
    ASSUME TypeOK, Known, NEW cs, NEW why \in Reasons, DetachAll(cs, why),
           \A c \in Clients : c \in cs /\ clients[c].on => Truly(c, why)
    PROVE  /\ Steps
           /\ \A c \in Clients : clients'[c] = clients[c] \/ clients'[c].pane = None
           /\ clients' = [c \in Clients |-> clients'[c]] /\ wire' = [c \in Clients |-> wire'[c]]
<1>1. ASSUME NEW c \in Clients
      PROVE  ServerStep(c) /\ (clients'[c] = clients[c] \/ clients'[c].pane = None)
    <2>1. /\ clients'[c] = IF c \in cs THEN Absent ELSE clients[c]
          /\ wire'[c] = IF c \in cs /\ clients[c].on THEN Append(wire[c], Detached(why)) ELSE wire[c]
        BY DEF DetachAll
    <2>2. CASE c \in cs /\ clients[c].on
        BY <2>1, <2>2, PanesType DEF ServerStep, Told
    <2>3. CASE ~ (c \in cs /\ clients[c].on)
        BY <2>1, <2>3 DEF Known, ServerStep, Kept
    <2> QED
        BY <2>2, <2>3
<1> QED
    BY <1>1 DEF DetachAll, Steps

LEMMA AttachSteps ==
    ASSUME TypeOK, Known, Drawn, NEW a \in Clients, NEW p \in Panes, Attach(a, p), loop' = "drain"
    PROVE  Steps /\ Total /\ Drawn'
<1>1. clients \in [Clients -> ClientType] /\ wire \in [Clients -> Seq(Messages)] /\ dirty \in BOOLEAN
    BY DEF TypeOK
<1>2. panes' = panes /\ panes \in [Panes -> PaneType]
    BY DEF Attach, TypeOK
<1>3. \A c \in Clients : c # a => Kept(c)
    BY <1>1 DEF Attach, Send, Kept
<1>4. CASE panes[p].open
    <2>1. /\ clients' = [clients EXCEPT ![a] = IF @.on THEN [@ EXCEPT !.pane = p, !.last = Unpainted] ELSE @]
          /\ wire' = [wire EXCEPT ![a] = IF clients[a].on THEN Append(@, Hello) ELSE @]
          /\ dirty' = TRUE
        BY <1>4 DEF Attach, Send
    <2>2. CASE clients[a].on
        <3>1. clients'[a] = [clients[a] EXCEPT !.pane = p, !.last = Unpainted] /\ wire'[a] = Append(wire[a], Hello)
            BY <1>1, <2>1, <2>2
        <3>2. clients'[a] = [on |-> TRUE, pane |-> p, last |-> Unpainted]
            BY <1>1, <2>2, <3>1 DEF ClientType
        <3> QED
            BY <1>1, <1>2, <1>3, <2>1, <2>2, <3>1, <3>2 DEF Steps, Total, Drawn, ServerStep, Turned
    <2>3. CASE ~ clients[a].on
        <3>1. Kept(a)
            BY <1>1, <2>1, <2>3 DEF Kept
        <3> QED
            BY <1>1, <1>2, <1>3, <2>1, <3>1 DEF Steps, Total, Drawn, ServerStep
    <2> QED
        BY <2>2, <2>3
<1>5. CASE ~ panes[p].open
    <2>1. /\ clients' = [clients EXCEPT ![a] = Absent]
          /\ wire' = [wire EXCEPT ![a] = IF clients[a].on
                          THEN @ \o <<Error, Detached("no such pane")>> ELSE @]
          /\ dirty' = dirty
        BY <1>5 DEF Attach
    <2>2. ServerStep(a)
        <3>1. CASE clients[a].on
            <4>1. "no such pane" \in Reasons /\ Truly(a, "no such pane")
                BY DEF Reasons, Truly
            <4>2. clients'[a] = Absent /\ wire'[a] = wire[a] \o <<Error, Detached("no such pane")>>
                BY <1>1, <2>1, <3>1
            <4>3. wire'[a] = Append(Append(wire[a], Error), Detached("no such pane"))
                <5>1. wire[a] \in Seq(Messages) /\ Error \in Messages /\ Detached("no such pane") \in Messages
                    BY <1>1, <4>1, NotFrames
                <5>2. wire[a] \o <<Error, Detached("no such pane")>>
                          = Append(Append(wire[a], Error), Detached("no such pane"))
                    BY <5>1, AppendTwice
                <5> QED
                    BY <4>2, <5>2
            <4> QED
                BY <3>1, <4>1, <4>2, <4>3 DEF ServerStep, Told
        <3>2. CASE ~ clients[a].on
            BY <1>1, <2>1, <3>2 DEF Known, ServerStep, Kept
        <3> QED
            BY <3>1, <3>2
    <2>3. \A c \in Clients : clients'[c] = clients[c] \/ clients'[c].pane = None
        BY <1>1, <2>1, PanesType
    <2>4. Drawn'
        BY <1>2, <2>1, <2>3, DrawnKept
    <2> QED
        BY <1>1, <1>2, <1>3, <2>1, <2>2, <2>4 DEF Steps, Total, ServerStep
<1> QED
    BY <1>4, <1>5

LEMMA WatchSteps ==
    ASSUME TypeOK, Known, Drawn, NEW a \in Clients, NEW p \in Panes, Watch(a, p), loop' = "drain"
    PROVE  Steps /\ Total /\ Drawn'
<1>1. clients \in [Clients -> ClientType] /\ wire \in [Clients -> Seq(Messages)] /\ dirty \in BOOLEAN
    BY DEF TypeOK
<1>2. panes' = panes /\ panes \in [Panes -> PaneType]
    BY DEF Watch, TypeOK
<1>3. CASE clients[a].on /\ clients[a].pane # None /\ panes[p].open
    <2>1. /\ clients' = [clients EXCEPT ![a].pane = p, ![a].last = Unpainted]
          /\ wire' = wire /\ dirty' = TRUE
        BY <1>3 DEF Watch
    <2>2. clients'[a] = [clients[a] EXCEPT !.pane = p, !.last = Unpainted]
        BY <1>1, <2>1
    <2>3. clients'[a] = [on |-> TRUE, pane |-> p, last |-> Unpainted]
        BY <1>1, <1>3, <2>2 DEF ClientType
    <2>4. \A c \in Clients : c # a => Kept(c)
        BY <1>1, <2>1 DEF Kept
    <2> QED
        BY <1>1, <1>2, <1>3, <2>1, <2>3, <2>4 DEF Steps, Total, Drawn, ServerStep, Turned
<1>4. CASE clients[a].on /\ (clients[a].pane = None \/ ~ panes[p].open)
    <2>1. /\ clients' = clients /\ dirty' = dirty
          /\ wire' = [wire EXCEPT ![a] = Append(@, Error)]
        BY <1>4 DEF Watch, Send
    <2>2. \A c \in Clients : IF c = a THEN Replied(c) ELSE Kept(c)
        BY <1>1, <1>4, <2>1 DEF Replied, Kept
    <2>3. Drawn'
        BY <1>2, <2>1, DrawnKept
    <2> QED
        BY <1>1, <1>2, <2>1, <2>2, <2>3 DEF Steps, Total, ServerStep
<1>5. CASE ~ clients[a].on
    <2>1. clients' = clients /\ wire' = wire /\ dirty' = dirty
        BY <1>5 DEF Watch
    <2>2. Drawn'
        BY <1>2, <2>1, DrawnKept
    <2> QED
        BY <1>1, <1>2, <2>1, <2>2 DEF Steps, Total, ServerStep, Kept
<1> QED
    BY <1>3, <1>4, <1>5 DEF Watch

LEMMA ResizeSteps ==
    ASSUME TypeOK, Known, Drawn, NEW a \in Clients, Resize(a), loop' = "drain"
    PROVE  Steps /\ Total /\ Drawn'
<1>1. clients \in [Clients -> ClientType] /\ wire \in [Clients -> Seq(Messages)] /\ dirty \in BOOLEAN
    BY DEF TypeOK
<1>2. /\ panes' = panes /\ panes \in [Panes -> PaneType] /\ wire' = wire
      /\ clients' = [clients EXCEPT ![a].last = Unpainted]
      /\ dirty' = (dirty \/ clients[a].on)
    BY DEF Resize, TypeOK
<1>3. \A c \in Clients : c # a => Kept(c)
    BY <1>1, <1>2 DEF Kept
<1>4. clients'[a] = [clients[a] EXCEPT !.last = Unpainted]
    BY <1>1, <1>2
<1>5. CASE clients[a].on
    <2>1. clients'[a] = [on |-> TRUE, pane |-> clients[a].pane, last |-> Unpainted]
        BY <1>1, <1>4, <1>5 DEF ClientType
    <2>2. clients[a].pane \in Panes \union {None}
        BY <1>1 DEF ClientType
    <2> QED
        BY <1>1, <1>2, <1>3, <1>5, <2>1, <2>2 DEF Steps, Total, Drawn, ServerStep, Turned
<1>6. CASE ~ clients[a].on
    <2>1. clients[a] = Absent
        BY <1>6 DEF Known
    <2>2. clients'[a] = clients[a]
        BY <1>4, <2>1, PanesType DEF ClientType
    <2>3. Kept(a)
        BY <1>2, <2>2 DEF Kept
    <2>4. Drawn'
        BY <1>1, <1>2, <1>3, <2>2, DrawnKept DEF Kept
    <2> QED
        BY <1>1, <1>2, <1>3, <2>3, <2>4 DEF Steps, Total, ServerStep
<1> QED
    BY <1>5, <1>6

LEMMA InputSteps ==
    ASSUME TypeOK, Known, Drawn, NEW a \in Clients, NEW what, Input(a, what), loop' = "drain"
    PROVE  Steps /\ Total /\ Drawn'
<1> DEFINE p == clients[a].pane
<1>1. clients \in [Clients -> ClientType] /\ wire \in [Clients -> Seq(Messages)] /\ dirty \in BOOLEAN
    BY DEF TypeOK
<1>2. panes \in [Panes -> PaneType] /\ p \in Panes \union {None}
    BY <1>1 DEF TypeOK, ClientType
<1>3. CASE p = None
    <2>1. /\ clients' = clients /\ dirty' = dirty /\ panes' = panes
          /\ wire' = [wire EXCEPT ![a] = IF clients[a].on THEN Append(@, Error) ELSE @]
        BY <1>2, <1>3, ServeAssumption DEF Input, Send
    <2>2. \A c \in Clients : IF c = a /\ clients[a].on THEN Replied(c) ELSE Kept(c)
        BY <1>1, <2>1 DEF Replied, Kept
    <2>3. Drawn'
        BY <2>1, DrawnKept
    <2> QED
        BY <1>1, <1>2, <2>1, <2>2, <2>3 DEF Steps, Total, ServerStep
<1>4. CASE p # None /\ ~ panes[p].open
    <2>1. DetachAll({a}, "pane closed") /\ dirty' = dirty /\ panes' = panes
        BY <1>4 DEF Input
    <2>2. "pane closed" \in Reasons /\ \A c \in Clients : c \in {a} => Truly(c, "pane closed")
        BY <1>2, <1>4, <2>1 DEF Reasons, Truly
    <2>3. /\ Steps /\ \A c \in Clients : clients'[c] = clients[c] \/ clients'[c].pane = None
          /\ clients' = [c \in Clients |-> clients'[c]] /\ wire' = [c \in Clients |-> wire'[c]]
        BY <2>1, <2>2, DetachAllSteps
    <2>4. Drawn'
        BY <2>1, <2>3, DrawnKept
    <2> QED
        BY <1>1, <1>2, <2>1, <2>3, <2>4 DEF Total
<1>5. CASE p # None /\ panes[p].open
    <2>1. /\ panes' = [panes EXCEPT ![p].back = (what = "wheel" /\ (panes[p].mouse => @))]
          /\ clients' = clients /\ wire' = wire /\ dirty' = TRUE
        BY <1>5 DEF Input
    <2>2. panes' \in [Panes -> PaneType]
        <3>1. \A b \in BOOLEAN : [panes[p] EXCEPT !.back = b] \in PaneType
            BY <1>2, <1>5 DEF PaneType
        <3>2. panes' = [panes EXCEPT ![p] = [panes[p] EXCEPT !.back =
                             (what = "wheel" /\ (panes[p].mouse => panes[p].back))]]
            BY <1>2, <1>5, <2>1
        <3> QED
            BY <1>2, <3>1, <3>2
    <2> QED
        BY <1>1, <2>1, <2>2 DEF Steps, Total, Drawn, ServerStep, Kept
<1> QED
    BY <1>3, <1>4, <1>5

LEMMA PaneSteps ==
    ASSUME TypeOK, Known, Drawn, NEW p \in Panes, loop' = "drain",
           Close(p) \/ \E corpse \in {"stays", "goes"} : Exited(p, corpse)
    PROVE  Steps /\ Total /\ Drawn'
<1>1. clients \in [Clients -> ClientType] /\ wire \in [Clients -> Seq(Messages)]
    BY DEF TypeOK
<1>2. panes \in [Panes -> PaneType] /\ dirty \in BOOLEAN
    BY DEF TypeOK
<1>3. clients' = clients /\ wire' = wire
    BY DEF Close, Exited
<1>4. Steps
    BY <1>3 DEF Steps, ServerStep, Kept
<1>5. CASE Close(p)
    <2>1. panes' = [panes EXCEPT ![p] = Gone] /\ dirty' = (dirty \/ panes[p].open)
        BY <1>5 DEF Close
    <2>2. panes' \in [Panes -> PaneType] /\ dirty' \in BOOLEAN
        BY <1>2, <2>1, PanesType DEF PaneType
    <2>3. \A q \in Panes : panes'[q].open => panes'[q] = panes[q]
        BY <1>2, <2>1, PanesType
    <2>4. Drawn'
        BY <1>3, <2>1, <2>3, DrawnKept
    <2> QED
        BY <1>1, <1>3, <1>4, <2>2, <2>4 DEF Total
<1>6. ASSUME NEW corpse \in {"stays", "goes"}, Exited(p, corpse)
      PROVE  Steps /\ Total /\ Drawn'
    <2>1. /\ panes' = [panes EXCEPT ![p] = IF ~ panes[p].open THEN panes[p]
                          ELSE IF corpse = "stays" THEN [panes[p] EXCEPT !.dead = TRUE] ELSE Gone]
          /\ dirty' = TRUE
        BY <1>2, <1>6 DEF Exited
    <2>2. [panes[p] EXCEPT !.dead = TRUE] \in PaneType
        BY <1>2 DEF PaneType
    <2>3. panes' \in [Panes -> PaneType]
        BY <1>2, <2>1, <2>2, PanesType
    <2> QED
        BY <1>1, <1>3, <1>4, <2>1, <2>3 DEF Total, Drawn
<1> QED
    BY <1>5, <1>6

LEMMA KillSteps ==
    ASSUME TypeOK, Known, Drawn, KillServer, loop' = "stopped"
    PROVE  Steps /\ Total /\ Drawn' /\ \A c \in Clients : ~ clients'[c].on
<1>1. /\ DetachAll(Clients, "server shutting down")
      /\ panes' = [p \in Panes |-> Gone] /\ dirty' = dirty /\ dirty \in BOOLEAN
    BY DEF KillServer, TypeOK
<1>2. "server shutting down" \in Reasons /\ \A c \in Clients : Truly(c, "server shutting down")
    BY DEF Reasons, Truly
<1>3. /\ Steps
      /\ clients' = [c \in Clients |-> clients'[c]] /\ wire' = [c \in Clients |-> wire'[c]]
    BY <1>1, <1>2, DetachAllSteps
<1>4. \A c \in Clients : clients'[c] = Absent
    BY <1>1 DEF DetachAll
<1> QED
    BY <1>1, <1>3, <1>4, PanesType DEF Total, Drawn, Watching

(* Every event but a connection and its end.                                *)
LEMMA ServedSteps ==
    ASSUME TypeOK, Known, Drawn, NEW e \in Events, Served(e),
           e.kind \notin {"connected", "gone"},
           loop' = IF e.kind = "kill" THEN "stopped" ELSE "drain"
    PROVE  Steps /\ Total /\ Drawn' /\ (loop' = "stopped" => \A c \in Clients : ~ clients'[c].on)
<1>1. /\ clients \in [Clients -> ClientType] /\ wire \in [Clients -> Seq(Messages)]
      /\ panes \in [Panes -> PaneType] /\ dirty \in BOOLEAN
    BY DEF TypeOK
<1>2. CASE e.kind = "hello"
    <2>1. Attach(e.of, e.arg) /\ e.of \in Clients /\ e.arg \in Panes
        BY <1>2 DEF Served, Events
    <2> QED
        BY <1>2, <2>1, AttachSteps
<1>3. CASE e.kind = "watch"
    <2>1. Watch(e.of, e.arg) /\ e.of \in Clients /\ e.arg \in Panes
        BY <1>3 DEF Served, Events
    <2> QED
        BY <1>3, <2>1, WatchSteps
<1>4. CASE e.kind = "resize"
    <2>1. Resize(e.of) /\ e.of \in Clients
        BY <1>4 DEF Served, Events
    <2> QED
        BY <1>4, <2>1, ResizeSteps
<1>5. CASE e.kind = "input"
    <2>1. Input(e.of, e.arg) /\ e.of \in Clients
        BY <1>5 DEF Served, Events
    <2> QED
        BY <1>5, <2>1, InputSteps
<1>6. CASE e.kind = "detach"
    <2>1. DetachAll({e.of}, "detached") /\ panes' = panes /\ dirty' = dirty
        BY <1>6 DEF Served
    <2>2. "detached" \in Reasons /\ \A c \in Clients : Truly(c, "detached")
        BY <1>6 DEF Reasons, Truly
    <2>3. /\ Steps /\ \A c \in Clients : clients'[c] = clients[c] \/ clients'[c].pane = None
          /\ clients' = [c \in Clients |-> clients'[c]] /\ wire' = [c \in Clients |-> wire'[c]]
        BY <2>1, <2>2, DetachAllSteps
    <2>4. Drawn'
        BY <2>1, <2>3, DrawnKept
    <2> QED
        BY <1>1, <1>6, <2>1, <2>3, <2>4 DEF Total
<1>7. CASE e.kind \in {"exited", "close"}
    <2>1. /\ e.of \in Panes
          /\ Close(e.of) \/ \E corpse \in {"stays", "goes"} : Exited(e.of, corpse)
        BY <1>7 DEF Served, Events
    <2>2. loop' = "drain"
        BY <1>7
    <2> QED
        BY <2>1, <2>2, PaneSteps
<1>8. CASE e.kind = "tick"
    <2>1. dirty' = TRUE /\ clients' = clients /\ wire' = wire /\ panes' = panes
        BY <1>8 DEF Served
    <2> QED
        BY <1>1, <1>8, <2>1 DEF Steps, Total, Drawn, ServerStep, Kept
<1>9. CASE e.kind = "kill"
    <2>1. KillServer
        BY <1>9 DEF Served
    <2> QED
        BY <1>9, <2>1, KillSteps
<1> QED
    BY <1>2, <1>3, <1>4, <1>5, <1>6, <1>7, <1>8, <1>9 DEF Events

(* A frame drawn is the difference to the last one.                         *)
LEMMA RenderSteps ==
    ASSUME TypeOK, Known, NEW ps \in [Panes -> PaneType], RenderAll(ps), panes' = ps,
           loop' # "stopped", dirty' = FALSE
    PROVE  Steps /\ Total /\ Drawn'
<1> DEFINE shown(c) == Picture(clients[c].pane, ps[clients[c].pane])
           ended(c) == c \in Watching /\ ~ ps[clients[c].pane].open
<1>1. clients \in [Clients -> ClientType] /\ wire \in [Clients -> Seq(Messages)]
    BY DEF TypeOK
<1>2. ASSUME NEW c \in Clients
      PROVE  /\ wire'[c] = IF ended(c) THEN Append(wire[c], Detached("pane closed"))
                           ELSE IF c \in Watching
                                THEN wire[c] \o Damage(clients[c].last, clients[c].pane, ps[clients[c].pane])
                                ELSE wire[c]
             /\ clients'[c] = IF ended(c) THEN Absent
                              ELSE IF c \in Watching THEN [clients[c] EXCEPT !.last = shown(c)]
                              ELSE clients[c]
    BY DEF RenderAll
<1>3. /\ clients' = [c \in Clients |-> clients'[c]] /\ wire' = [c \in Clients |-> wire'[c]]
    BY DEF RenderAll
<1>4. ASSUME NEW c \in Clients, c \in Watching
      PROVE  /\ clients[c].on /\ clients[c].pane \in Panes
             /\ ps[clients[c].pane] \in PaneType
             /\ shown(c) \in Pictures /\ Caret(ps[clients[c].pane]) \in BOOLEAN
             /\ clients[c] \in ClientType
    <2>1. clients[c].on /\ clients[c].pane \in Panes /\ clients[c] \in ClientType
        BY <1>1, <1>4 DEF Watching, ClientType
    <2>2. ps[clients[c].pane] \in PaneType
        BY <2>1
    <2>3. shown(c) \in Pictures
        BY <2>1, <2>2, PictureType DEF PaneType
    <2> QED
        BY <2>1, <2>2, <2>3 DEF Caret
<1> HIDE DEF shown, ended
<1>5. ASSUME NEW c \in Clients, ended(c)
      PROVE  ServerStep(c) /\ ~ clients'[c].on
    <2>1. clients[c].on /\ clients[c].pane \in Panes /\ ~ ps[clients[c].pane].open
        BY <1>4, <1>5 DEF ended
    <2>2. "pane closed" \in Reasons /\ Truly(c, "pane closed")
        BY <2>1 DEF Reasons, Truly
    <2> QED
        BY <1>2, <1>5, <2>1, <2>2, PanesType DEF ServerStep, Told
<1>6. ASSUME NEW c \in Clients, c \in Watching, ~ ended(c)
      PROVE  ServerStep(c) /\ clients'[c].pane = clients[c].pane /\ clients'[c].last = shown(c)
    <2> DEFINE s == ps[clients[c].pane]
               m == Frame(clients[c].last, shown(c), Caret(s), s.mouse)
    <2>1. /\ clients'[c] = [clients[c] EXCEPT !.last = shown(c)]
          /\ wire'[c] = wire[c] \o Damage(clients[c].last, clients[c].pane, s)
        BY <1>2, <1>6
    <2>2. clients'[c].pane = clients[c].pane /\ clients'[c].last = shown(c)
        BY <1>4, <1>6, <2>1 DEF ClientType
    <2>3. CASE clients[c].last = shown(c) /\ ~ Caret(s)
        <3>1. Damage(clients[c].last, clients[c].pane, s) = << >>
            BY <2>3 DEF Damage, shown
        <3>2. wire'[c] = wire[c]
            BY <1>1, <2>1, <3>1
        <3>3. clients'[c] = clients[c]
            BY <1>4, <1>6, <2>1, <2>3 DEF ClientType
        <3> QED
            BY <2>2, <3>2, <3>3 DEF ServerStep, Kept
    <2>4. CASE ~ (clients[c].last = shown(c) /\ ~ Caret(s))
        <3>1. Damage(clients[c].last, clients[c].pane, s) = <<m>>
            BY <2>4 DEF Damage, shown
        <3>2. /\ clients[c].last \in Pictures /\ s.mouse \in BOOLEAN
            BY <1>4, <1>6 DEF ClientType, PaneType
        <3>3. m \in Messages /\ m.type = "frame" /\ m.base = clients[c].last /\ m.screen = shown(c)
            BY <1>4, <1>6, <3>2, FrameType
        <3> HIDE DEF m
        <3>4. wire'[c] = Append(wire[c], m)
            BY <1>1, <2>1, <3>1, <3>3
        <3> QED
            BY <1>4, <1>6, <2>1, <2>2, <3>3, <3>4 DEF ServerStep, Drew
    <2> QED
        BY <2>3, <2>4
<1>7. ASSUME NEW c \in Clients, c \notin Watching
      PROVE  Kept(c)
    BY <1>2, <1>7 DEF Kept, ended
<1>8. Steps
    BY <1>5, <1>6, <1>7 DEF Steps, ServerStep
<1>9. Drawn'
    <2> SUFFICES ASSUME NEW c \in Clients, clients'[c].on, clients'[c].pane # None
                 PROVE  clients'[c].last = Picture(clients'[c].pane, panes'[clients'[c].pane])
        BY DEF Drawn, Watching, Watched
    <2>1. c \in Watching /\ ~ ended(c)
        BY <1>5, <1>7 DEF Kept, Watching
    <2> QED
        BY <1>6, <2>1 DEF shown
<1> QED
    BY <1>3, <1>8, <1>9 DEF Total

-----------------------------------------------------------------------------
(* The control channel.                                                     *)
Once == \A c \in Clients : \A i, j \in Arrivals(c) : i = j
Connects(e, c) == e.kind = "connected" /\ e.of = c

LEMMA Popped ==
    ASSUME control \in Seq(Events), control # << >>, control' = Tail(control), Once
    PROVE  /\ Head(control) \in Events
           /\ control' \in Seq(Events)
           /\ Once'
           /\ \A c : Leaving(c)' => Leaving(c)
           /\ \A c \in Clients : Arriving(c)' <=> Arriving(c) /\ ~ Connects(Head(control), c)
<1>1. /\ Head(control) = control[1] /\ Head(control) \in Events /\ control' \in Seq(Events)
      /\ DOMAIN control = 1 .. Len(control) /\ Len(control) \in Nat \ {0}
      /\ DOMAIN control' = 1 .. Len(control) - 1
      /\ \A i \in DOMAIN control' : control'[i] = control[i + 1]
    BY HeadTailProperties
<1>2. \A i \in DOMAIN control' : i \in Int /\ i + 1 \in DOMAIN control /\ i + 1 # 1
    BY <1>1
<1>3. \A i \in DOMAIN control : i \in Int /\ (i = 1 \/ (i - 1 \in DOMAIN control' /\ (i - 1) + 1 = i))
    BY <1>1
<1>4. \A c : Leaving(c)' => Leaving(c)
    BY <1>1, <1>2 DEF Leaving
<1>5. \A c : \A i \in Arrivals(c)' : i \in Int /\ i + 1 \in Arrivals(c) /\ i + 1 # 1
    BY <1>1, <1>2 DEF Arrivals
<1>6. Once'
    <2> SUFFICES ASSUME NEW c \in Clients, NEW i \in Arrivals(c)', NEW j \in Arrivals(c)'
                 PROVE  i = j
        BY DEF Once
    <2>1. i \in Int /\ j \in Int /\ i + 1 = j + 1
        BY <1>5 DEF Once
    <2> QED
        BY <2>1
<1>7. ASSUME NEW c \in Clients
      PROVE  Arriving(c)' <=> Arriving(c) /\ ~ Connects(Head(control), c)
    <2>1. Arriving(c) <=> \E i : i \in Arrivals(c)
        BY DEF Arriving, Arrivals
    <2>2. Arriving(c)' <=> \E i : i \in Arrivals(c)'
        BY DEF Arriving, Arrivals
    <2>3. Connects(Head(control), c) <=> 1 \in Arrivals(c)
        BY <1>1 DEF Connects, Arrivals
    <2>4. ASSUME Arriving(c)'
          PROVE  Arriving(c) /\ 1 \notin Arrivals(c)
        BY <1>5, <2>1, <2>2, <2>4 DEF Once
    <2>5. ASSUME NEW i \in Arrivals(c), 1 \notin Arrivals(c)
          PROVE  i - 1 \in Arrivals(c)'
        <3>1. i \in DOMAIN control /\ i # 1
            BY <2>5 DEF Arrivals
        <3>2. i - 1 \in DOMAIN control' /\ control'[i - 1] = control[i]
            BY <1>1, <1>3, <3>1
        <3> QED
            BY <3>2 DEF Arrivals
    <2> QED
        BY <2>1, <2>2, <2>3, <2>4, <2>5
<1> QED
    BY <1>1, <1>4, <1>6, <1>7

LEMMA Pushed ==
    ASSUME control \in Seq(Events), NEW e \in Events, control' = Append(control, e), Once,
           \A c \in Clients : Connects(e, c) => ~ Arriving(c)
    PROVE  /\ control' \in Seq(Events)
           /\ Once'
           /\ \A c \in Clients : Leaving(c)' <=> Leaving(c) \/ (e.kind = "gone" /\ e.of = c)
           /\ \A c \in Clients : Arriving(c)' <=> Arriving(c) \/ Connects(e, c)
<1>1. /\ control' \in Seq(Events)
      /\ DOMAIN control = 1 .. Len(control) /\ Len(control) \in Nat
      /\ DOMAIN control' = 1 .. Len(control) + 1
      /\ \A i \in DOMAIN control : control'[i] = control[i]
      /\ control'[Len(control) + 1] = e
    BY AppendProperties
<1>2. /\ \A i \in DOMAIN control' : i \in DOMAIN control \/ i = Len(control) + 1
      /\ \A i \in DOMAIN control : i \in DOMAIN control'
      /\ Len(control) + 1 \in DOMAIN control' /\ Len(control) + 1 \notin DOMAIN control
    BY <1>1
<1>3. ASSUME NEW c \in Clients
      PROVE  /\ Leaving(c)' <=> Leaving(c) \/ (e.kind = "gone" /\ e.of = c)
             /\ Arriving(c)' <=> Arriving(c) \/ Connects(e, c)
    BY <1>1, <1>2 DEF Leaving, Arriving, Connects
<1>4. ASSUME NEW c \in Clients, NEW i \in Arrivals(c)', NEW j \in Arrivals(c)'
      PROVE  i = j
    <2>1. \A k \in Arrivals(c)' : k \in Arrivals(c) \/ (k = Len(control) + 1 /\ Connects(e, c))
        BY <1>1, <1>2 DEF Arrivals, Connects
    <2>2. Connects(e, c) => \A k : k \notin Arrivals(c)
        BY DEF Arrivals, Arriving
    <2> QED
        BY <1>4, <2>1, <2>2 DEF Once
<1>5. Once'
    BY <1>4 DEF Once
<1> QED
    BY <1>1, <1>3, <1>5

(* A step of the daemon that touches its connections as said above, and     *)
(* queues or works off no connection nor its end, keeps everything.         *)
LEMMA ServerMoves ==
    ASSUME IInv, Steps, Total, Drawn', link' = link, view' = view,
           child' \in [Panes -> BOOLEAN], hand' \in [Panes -> BOOLEAN],
           output' \in Seq(Panes), Len(output') <= Cap, control' \in Seq(Events), early' \in BOOLEAN,
           loop' \in {"drain", "idle", "paced", "stopped"},
           loop' = "stopped" => \A c \in Clients : ~ clients'[c].on,
           Once', \A c \in Clients : (Leaving(c)' => Leaving(c)) /\ (Arriving(c)' <=> Arriving(c))
    PROVE  IInv'
<1> USE DEF IInv
<1>1. TypeOK'
    <2>1. \A c \in Clients : clients'[c] \in ClientType /\ wire'[c] \in Seq(Messages)
        BY ServerStepType DEF Steps
    <2>2. clients' \in [Clients -> ClientType] /\ wire' \in [Clients -> Seq(Messages)]
        BY <2>1 DEF Total
    <2> QED
        BY <2>2 DEF Total, TypeOK
<1>2. Chained'
    BY ServerStepFits DEF Steps, Chained
<1>3. Whole'
    BY DEF Whole
<1>4. ASSUME NEW c \in Clients
      PROVE  /\ ~ clients'[c].on => clients'[c] = Absent
             /\ ~ clients[c].on => Kept(c)
             /\ clients'[c].on => Quiet(wire'[c])
             /\ Closing(wire'[c])
             /\ clients[c].on /\ ~ clients'[c].on => Ends(wire'[c])
    BY ServerStepTold DEF Steps
<1>5. \A c \in Clients : Arriving(c) => ~ clients[c].on
    BY PanesType DEF Known
<1>6. Known'
    BY <1>4, <1>5 DEF Known, Kept, Once
<1>7. LastWord'
    <2> SUFFICES ASSUME NEW c \in Clients
                 PROVE  /\ clients'[c].on => Quiet(wire'[c])
                        /\ Closing(wire'[c])
                        /\ link[c] # "off" /\ ~ clients'[c].on /\ ~ Arriving(c)' => Ends(wire'[c])
                        /\ Leaving(c)' => link[c] = "off"
        BY DEF LastWord, Quiet, Closing, Ends
    <2>1. link[c] # "off" /\ ~ clients[c].on /\ ~ Arriving(c) => Ends(wire[c])
        BY DEF LastWord, Ends
    <2>2. Leaving(c)' => link[c] = "off"
        BY DEF LastWord
    <2> QED
        BY <1>4, <2>1, <2>2 DEF Kept
<1> QED
    BY <1>1, <1>2, <1>3, <1>6, <1>7

-----------------------------------------------------------------------------
(* The event loop.                                                          *)

LEMMA AllKept ==
    ASSUME TypeOK, clients' = clients, wire' = wire
    PROVE  /\ Steps
           /\ clients' = [c \in Clients |-> clients'[c]] /\ wire' = [c \in Clients |-> wire'[c]]
BY DEF TypeOK, Steps, ServerStep, Kept

LEMMA SameControl ==
    ASSUME Known, control' = control
    PROVE  Once' /\ \A c \in Clients : (Leaving(c)' <=> Leaving(c)) /\ (Arriving(c)' <=> Arriving(c))
BY DEF Known, Once, Arrivals, Leaving, Arriving

LEMMA TurnKeeps ==
    ASSUME IInv, Turn
    PROVE  IInv' /\ Steps
<1> USE DEF IInv
<1> DEFINE n == Least(Len(output), Budget)
           batch == SubSeq(output, 1, n)
<1>1. PICK kinds \in [1 .. n -> Kinds] :
          /\ loop = "drain"
          /\ panes' = FedAll(batch, kinds)
          /\ output' = SubSeq(output, n + 1, Len(output))
          /\ IF (dirty \/ Touched(batch)) /\ ~ early
             THEN RenderAll(FedAll(batch, kinds)) /\ dirty' = FALSE /\ early' = TRUE
             ELSE dirty' = (dirty \/ Touched(batch)) /\ UNCHANGED <<clients, wire, early>>
          /\ loop' = IF n = Budget THEN "paced" ELSE "idle"
          /\ UNCHANGED <<child, hand, control, clientVars>>
    BY DEF Turn
<1>2. output \in Seq(Panes) /\ Len(output) \in Nat /\ n \in Nat /\ n <= Len(output)
    BY ServeAssumption DEF TypeOK, Least
<1> HIDE DEF n
<1>3. batch \in Seq(Panes)
    BY <1>2, SubSeqProperties
<1>4. output' \in Seq(Panes) /\ Len(output') <= Cap
    <2>1. \A i \in n + 1 .. Len(output) : output[i] \in Panes
        BY <1>2
    <2>2. output' \in Seq(Panes) /\ Len(output') = IF n + 1 <= Len(output) THEN Len(output) - (n + 1) + 1 ELSE 0
        BY <1>1, <1>2, <2>1, SubSeqProperties
    <2> QED
        BY <1>2, <2>2, ServeAssumption DEF TypeOK
<1> HIDE DEF batch
<1>5. panes' \in [Panes -> PaneType] /\ \A p \in Panes : panes'[p].open = panes[p].open
    BY <1>1, <1>3, FedAllType
<1>6. Steps /\ Total /\ Drawn'
    <2>1. CASE (dirty \/ Touched(batch)) /\ ~ early
        <3>1. RenderAll(FedAll(batch, kinds)) /\ dirty' = FALSE
            BY <1>1, <2>1
        <3> QED
            BY <1>1, <1>5, <3>1, RenderSteps
    <2>2. CASE ~ ((dirty \/ Touched(batch)) /\ ~ early)
        <3>1. clients' = clients /\ wire' = wire /\ dirty' = (dirty \/ Touched(batch))
            BY <1>1, <2>2
        <3>2. ~ dirty' => panes' = panes
            BY <1>1, <1>3, <3>1, NothingFed
        <3>3. Drawn'
            BY <3>1, <3>2, DrawnKept
        <3>4. dirty' \in BOOLEAN
            BY <3>1
        <3> QED
            BY <1>5, <3>1, <3>3, <3>4, AllKept DEF Total
    <2> QED
        BY <2>1, <2>2
<1>7. /\ child' \in [Panes -> BOOLEAN] /\ hand' \in [Panes -> BOOLEAN] /\ early' \in BOOLEAN
      /\ loop' \in {"drain", "idle", "paced", "stopped"} /\ loop' # "stopped"
      /\ control' = control /\ control' \in Seq(Events) /\ link' = link /\ view' = view
    BY <1>1 DEF TypeOK, clientVars
<1>8. Once' /\ \A c \in Clients : (Leaving(c)' <=> Leaving(c)) /\ (Arriving(c)' <=> Arriving(c))
    BY <1>7, SameControl
<1> QED
    BY <1>4, <1>6, <1>7, <1>8, ServerMoves

LEMMA WakeKeeps ==
    ASSUME IInv, WakeForOutput \/ WakeForFrame \/ Passed
    PROVE  IInv'
<1> USE DEF IInv
<1>1. /\ clients' = clients /\ wire' = wire /\ control' = control
      /\ child' = child /\ hand' = hand /\ link' = link /\ view' = view
    BY DEF WakeForOutput, WakeForFrame, Passed, clientVars, programVars
<1>2. Steps /\ clients' = [c \in Clients |-> clients'[c]] /\ wire' = [c \in Clients |-> wire'[c]]
    BY <1>1, AllKept
<1>3. Once' /\ \A c \in Clients : (Leaving(c)' <=> Leaving(c)) /\ (Arriving(c)' <=> Arriving(c))
    BY <1>1, SameControl
<1>4. CASE WakeForOutput
    <2>1. /\ output # << >> /\ output' = Tail(output) /\ loop' = "drain" /\ early' = early
          /\ dirty' = (dirty \/ Touched(<<Head(output)>>))
        BY <1>4 DEF WakeForOutput
    <2>2. PICK kind \in Kinds : panes' = FedAll(<<Head(output)>>, <<kind>>)
        BY <1>4 DEF WakeForOutput
    <2>3. output' \in Seq(Panes) /\ Len(output') <= Cap /\ <<Head(output)>> \in Seq(Panes)
        <3>1. output \in Seq(Panes) /\ Len(output) <= Cap
            BY DEF TypeOK
        <3>2. Head(output) \in Panes /\ Tail(output) \in Seq(Panes) /\ Len(Tail(output)) = Len(output) - 1
            BY <2>1, <3>1, HeadTailProperties
        <3> QED
            BY <2>1, <3>1, <3>2, ServeAssumption
    <2>4. panes' \in [Panes -> PaneType] /\ (~ Touched(<<Head(output)>>) => panes' = panes)
        BY <2>2, <2>3, FedAllType, NothingFed
    <2>5. Drawn'
        BY <1>1, <2>1, <2>4, DrawnKept
    <2>6. /\ child' \in [Panes -> BOOLEAN] /\ hand' \in [Panes -> BOOLEAN] /\ early' \in BOOLEAN
          /\ dirty' \in BOOLEAN /\ control' \in Seq(Events)
        BY <1>1, <2>1 DEF TypeOK
    <2>7. Total
        BY <1>2, <2>4, <2>6 DEF Total
    <2> QED
        BY <1>1, <1>2, <1>3, <2>1, <2>3, <2>5, <2>6, <2>7, ServerMoves
<1>5. CASE WakeForFrame \/ Passed
    <2>1. /\ output' = output /\ panes' = panes /\ dirty' = dirty
          /\ loop' \in {"drain", loop} /\ early' \in {FALSE, early}
        BY <1>5 DEF WakeForFrame, Passed, programVars
    <2>2. Drawn'
        BY <1>1, <2>1, DrawnKept
    <2>3. /\ child' \in [Panes -> BOOLEAN] /\ hand' \in [Panes -> BOOLEAN] /\ early' \in BOOLEAN
          /\ output' \in Seq(Panes) /\ Len(output') <= Cap
          /\ loop' \in {"drain", "idle", "paced", "stopped"} /\ control' \in Seq(Events)
        BY <1>1, <2>1 DEF TypeOK
    <2>4. Total
        BY <1>2, <2>1 DEF Total, TypeOK
    <2>5. loop' = "stopped" => \A c \in Clients : ~ clients'[c].on
        BY <1>1, <2>1 DEF Known
    <2> QED
        BY <1>1, <1>2, <1>3, <2>2, <2>3, <2>4, <2>5, ServerMoves
<1> QED
    BY <1>4, <1>5

LEMMA HandleKeeps ==
    ASSUME IInv, Handle
    PROVE  IInv' /\ (Steps \/ wire' = wire)
<1> USE DEF IInv
<1> DEFINE e == Head(control)
<1>1. /\ control # << >> /\ Served(e) /\ control' = Tail(control)
      /\ loop' = IF e.kind = "kill" THEN "stopped" ELSE "drain"
      /\ child' = child /\ hand' = hand /\ output' = output /\ early' = early
      /\ link' = link /\ view' = view
    BY DEF Handle, programVars, clientVars
<1>2. control \in Seq(Events) /\ Once
    BY DEF TypeOK, Known, Once
<1>3. /\ e \in Events /\ control' \in Seq(Events) /\ Once'
      /\ \A c : Leaving(c)' => Leaving(c)
      /\ \A c \in Clients : Arriving(c)' <=> Arriving(c) /\ ~ Connects(e, c)
    BY <1>1, <1>2, Popped
<1>4. /\ child' \in [Panes -> BOOLEAN] /\ hand' \in [Panes -> BOOLEAN] /\ early' \in BOOLEAN
      /\ output' \in Seq(Panes) /\ Len(output') <= Cap
      /\ loop' \in {"drain", "idle", "paced", "stopped"}
    BY <1>1 DEF TypeOK
<1>5. /\ \E i \in DOMAIN control : control[i] = e
    BY <1>1, <1>2
<1> HIDE DEF e
<1>6. CASE e.kind \notin {"connected", "gone"}
    <2>1. Steps /\ Total /\ Drawn' /\ (loop' = "stopped" => \A c \in Clients : ~ clients'[c].on)
        BY <1>1, <1>3, <1>6, ServedSteps
    <2>2. \A c \in Clients : (Leaving(c)' => Leaving(c)) /\ (Arriving(c)' <=> Arriving(c))
        BY <1>3, <1>6 DEF Connects
    <2> QED
        BY <1>1, <1>3, <1>4, <2>1, <2>2, ServerMoves
<1>7. CASE e.kind \in {"connected", "gone"}
    <2>0. PICK a \in Clients : a = e.of
        BY <1>3, <1>7 DEF Events
    <2> DEFINE new == IF e.kind = "connected" THEN Fresh ELSE Absent
    <2>1. /\ clients' = [clients EXCEPT ![a] = new] /\ panes' = panes /\ wire' = wire /\ dirty' = dirty
          /\ loop' = "drain"
        BY <1>1, <1>7, <2>0 DEF Served, Connected
    <2>2. new \in ClientType /\ new.last = Unpainted /\ new.pane = None /\ (new.on <=> e.kind = "connected")
        BY <1>7, PanesType
    <2>3. /\ e.kind = "connected" => Arriving(a) /\ ~ Arriving(a)'
          /\ e.kind = "gone" => Leaving(a)
        <3>1. PICK i \in DOMAIN control : control[i] = e
            BY <1>5
        <3>2. e.kind = "connected" => Arriving(a)
            BY <2>0, <3>1 DEF Arriving
        <3>3. e.kind = "gone" => Leaving(a)
            BY <2>0, <3>1 DEF Leaving
        <3>4. e.kind = "connected" => Connects(e, a)
            BY <2>0 DEF Connects
        <3> QED
            BY <1>3, <3>2, <3>3, <3>4
    <2>4. clients \in [Clients -> ClientType]
        BY DEF TypeOK
    <2>5. new.on \/ new = Absent
        BY <1>7, <2>2
    <2> HIDE DEF new
    <2>6. clients'[a] = new /\ \A c \in Clients : c # a => clients'[c] = clients[c]
        BY <2>1, <2>4
    <2>7. TypeOK'
        <3>1. clients' \in [Clients -> ClientType]
            BY <2>1, <2>2, <2>4
        <3> QED
            BY <1>1, <1>3, <1>4, <2>1, <3>1 DEF TypeOK
    <2>8. Chained'
        <3> SUFFICES ASSUME NEW c \in Clients, link[c] # "off"
                     PROVE  Fits(view[c].screen, wire[c], clients'[c].last)
            BY <1>1, <2>1 DEF Chained
        <3>1. Fits(view[c].screen, wire[c], clients[c].last)
            BY DEF Chained
        <3> QED
            BY <2>2, <2>6, <3>1, FitsFull
    <2>9. Whole'
        BY <1>1 DEF Whole
    <2>10. Known'
        <3> SUFFICES ASSUME NEW c \in Clients
                     PROVE  /\ ~ clients'[c].on => clients'[c] = Absent
                            /\ Arriving(c)' => clients'[c] = Absent /\ wire[c] = << >>
                            /\ (\A i, j \in Arrivals(c) : i = j)'
                            /\ loop' # "stopped"
            BY <2>1 DEF Known
        <3>1. ~ clients[c].on => clients[c] = Absent
            BY DEF Known
        <3>2. ~ clients'[c].on => clients'[c] = Absent
            BY <2>5, <2>6, <3>1
        <3>3. Arriving(c)' => clients[c] = Absent /\ wire[c] = << >>
            BY <1>3 DEF Known
        <3>4. Arriving(c)' => c # a \/ e.kind = "gone"
            BY <1>7, <2>3
        <3>5. Arriving(c)' => clients'[c] = Absent
            BY <2>2, <2>5, <2>6, <3>3, <3>4
        <3>6. (\A i, j \in Arrivals(c) : i = j)'
            BY <1>3 DEF Once
        <3> QED
            BY <2>1, <3>2, <3>3, <3>5, <3>6
    <2>11. Drawn'
        BY <2>1, <2>2, <2>6, DrawnKept
    <2>12. LastWord'
        <3> SUFFICES ASSUME NEW c \in Clients
                     PROVE  /\ clients'[c].on => Quiet(wire[c])
                            /\ Closing(wire[c])
                            /\ link[c] # "off" /\ ~ clients'[c].on /\ ~ Arriving(c)' => Ends(wire[c])
                            /\ Leaving(c)' => link[c] = "off"
            BY <1>1, <2>1 DEF LastWord, Quiet, Closing, Ends
        <3>1. /\ clients[c].on => Quiet(wire[c])
              /\ Closing(wire[c])
              /\ link[c] # "off" /\ ~ clients[c].on /\ ~ Arriving(c) => Ends(wire[c])
              /\ Leaving(c) => link[c] = "off"
            BY DEF LastWord, Quiet, Closing, Ends
        <3>2. CASE c # a
            <4>1. Arriving(c)' <=> Arriving(c)
                BY <1>3, <2>0, <3>2 DEF Connects
            <4> QED
                BY <1>3, <2>6, <3>1, <3>2, <4>1
        <3>3. CASE c = a /\ e.kind = "connected"
            <4>1. wire[c] = << >>
                BY <2>3, <3>3 DEF Known
            <4>2. Quiet(wire[c])
                BY <4>1 DEF Quiet
            <4> QED
                BY <1>3, <2>2, <2>6, <3>1, <3>3, <4>2
        <3>4. CASE c = a /\ e.kind = "gone"
            BY <1>3, <2>2, <2>3, <2>6, <3>1, <3>4
        <3> QED
            BY <1>7, <3>2, <3>3, <3>4
    <2> QED
        BY <2>1, <2>7, <2>8, <2>9, <2>10, <2>11, <2>12
<1> QED
    BY <1>6, <1>7

-----------------------------------------------------------------------------
(* The programs and the clients.                                            *)

(* What must hold of a client and its wire after a step that is not the     *)
(* daemon's.                                                                *)
ViewType == [screen : Pictures \union {Garbled}, caret : BOOLEAN, mouse : BOOLEAN]
Peer(c) ==
    /\ link'[c] \in {"off", "greeting", "open"}
    /\ wire'[c] \in Seq(Messages)
    /\ view'[c] \in ViewType
    /\ link'[c] # "off" => Fits(view'[c].screen, wire'[c], clients[c].last)
    /\ view'[c].screen \in Pictures /\ (link'[c] = "off" => view'[c] = Blank)
    /\ Arriving(c)' => clients[c] = Absent /\ wire'[c] = << >>
    /\ clients[c].on => Quiet(wire'[c])
    /\ Closing(wire'[c])
    /\ link'[c] # "off" /\ ~ clients[c].on /\ ~ Arriving(c)' => Ends(wire'[c])
    /\ Leaving(c)' => link'[c] = "off"

LEMMA BlankType == Blank \in ViewType /\ Blank.screen \in Pictures
BY PanesType DEF Blank, ViewType

LEMMA PeerKept ==
    ASSUME IInv, NEW c \in Clients,
           link'[c] = link[c], wire'[c] = wire[c], view'[c] = view[c],
           Leaving(c)' => Leaving(c), Arriving(c)' <=> Arriving(c)
    PROVE  Peer(c)
<1> USE DEF IInv
<1>1. link[c] \in {"off", "greeting", "open"} /\ wire[c] \in Seq(Messages) /\ view[c] \in ViewType
    BY DEF TypeOK, ViewType
<1>2. /\ link[c] # "off" => Fits(view[c].screen, wire[c], clients[c].last)
      /\ view[c].screen \in Pictures /\ (link[c] = "off" => view[c] = Blank)
    BY DEF Chained, Whole
<1>3. Arriving(c) => clients[c] = Absent /\ wire[c] = << >>
    BY DEF Known
<1>4. /\ clients[c].on => Quiet(wire[c])
      /\ Closing(wire[c])
      /\ link[c] # "off" /\ ~ clients[c].on /\ ~ Arriving(c) => Ends(wire[c])
      /\ Leaving(c) => link[c] = "off"
    BY DEF LastWord, Quiet, Closing, Ends
<1> QED
    BY <1>1, <1>2, <1>3, <1>4 DEF Peer

LEMMA ClientMoves ==
    ASSUME IInv, clients' = clients, panes' = panes, dirty' = dirty, loop' = loop, early' = early,
           child' \in [Panes -> BOOLEAN], hand' \in [Panes -> BOOLEAN],
           output' \in Seq(Panes), Len(output') <= Cap, control' \in Seq(Events), Once',
           link' = [c \in Clients |-> link'[c]], wire' = [c \in Clients |-> wire'[c]],
           view' = [c \in Clients |-> view'[c]],
           \A c \in Clients : Peer(c)
    PROVE  IInv'
<1> USE DEF IInv
<1>1. TypeOK'
    <2>1. /\ link' \in [Clients -> {"off", "greeting", "open"}]
          /\ wire' \in [Clients -> Seq(Messages)] /\ view' \in [Clients -> ViewType]
        BY DEF Peer
    <2> QED
        BY <2>1 DEF TypeOK, ViewType
<1>2. Chained'
    BY DEF Chained, Peer
<1>3. Whole'
    BY DEF Whole, Peer
<1>4. Known'
    <2> SUFFICES ASSUME NEW c \in Clients
                 PROVE  /\ ~ clients[c].on => clients[c] = Absent
                        /\ Arriving(c)' => clients[c] = Absent /\ wire'[c] = << >>
                        /\ (\A i, j \in Arrivals(c) : i = j)'
                        /\ loop = "stopped" => ~ clients[c].on
        BY DEF Known
    <2>1. (\A i, j \in Arrivals(c) : i = j)'
        BY DEF Once
    <2>2. Arriving(c)' => clients[c] = Absent /\ wire'[c] = << >>
        BY DEF Peer
    <2> QED
        BY <2>1, <2>2 DEF Known
<1>5. Drawn'
    BY DEF Drawn, Watching, Watched
<1>6. LastWord'
    <2> SUFFICES ASSUME NEW c \in Clients
                 PROVE  /\ clients[c].on => Quiet(wire'[c])
                        /\ Closing(wire'[c])
                        /\ link'[c] # "off" /\ ~ clients[c].on /\ ~ Arriving(c)' => Ends(wire'[c])
                        /\ Leaving(c)' => link'[c] = "off"
        BY DEF LastWord, Quiet, Closing, Ends
    <2> QED
        BY DEF Peer
<1> QED
    BY <1>1, <1>2, <1>3, <1>4, <1>5, <1>6

(* An event queued that is no connection.                                   *)
LEMMA Queued ==
    ASSUME IInv, NEW e \in Events, Push(e), e.kind # "connected"
    PROVE  /\ control' \in Seq(Events) /\ Once'
           /\ \A c \in Clients : Leaving(c)' => Leaving(c) \/ (e.kind = "gone" /\ e.of = c)
           /\ \A c \in Clients : Arriving(c)' <=> Arriving(c)
<1>1. control \in Seq(Events) /\ Once
    BY DEF IInv, TypeOK, Known, Once
<1>2. \A c : ~ Connects(e, c)
    BY DEF Connects
<1>3. CASE loop = "stopped"
    <2>1. control' = control
        BY <1>3 DEF Push
    <2> QED
        BY <1>1, <2>1, SameControl DEF IInv
<1>4. CASE loop # "stopped"
    <2>1. control' = Append(control, e)
        BY <1>4 DEF Push
    <2> QED
        BY <1>1, <1>2, <2>1, Pushed
<1> QED
    BY <1>3, <1>4

Hands ==
    /\ child \in [Panes -> BOOLEAN] /\ hand \in [Panes -> BOOLEAN]
    /\ output \in Seq(Panes) /\ Len(output) <= Cap

LEMMA ProgramKeeps ==
    ASSUME IInv, Others \/ \E p \in Panes : Program(p) \/ SendOutput(p)
    PROVE  IInv' /\ clients' = clients
<1> USE DEF IInv
<1>1. /\ clients' = clients /\ panes' = panes /\ dirty' = dirty /\ loop' = loop /\ early' = early
      /\ link' = link /\ wire' = wire /\ view' = view
    BY DEF Others, Program, Write, Exit, SendOutput, loopVars, clientVars
<1>2. Hands'
    <2>1. /\ child \in [Panes -> BOOLEAN] /\ hand \in [Panes -> BOOLEAN]
          /\ output \in Seq(Panes) /\ Len(output) <= Cap
        BY DEF TypeOK
    <2> USE DEF Hands
    <2>2. CASE Others
        BY <2>1, <2>2 DEF Others, programVars
    <2>3. ASSUME NEW p \in Panes, Write(p)
          PROVE  Hands'
        BY <2>1, <2>3 DEF Write
    <2>4. ASSUME NEW p \in Panes, NEW corpse, Exit(p, corpse)
          PROVE  Hands'
        BY <2>1, <2>4 DEF Exit
    <2>5. ASSUME NEW p \in Panes, SendOutput(p)
          PROVE  Hands'
        <3>1. /\ Len(output) < Cap /\ output' = Append(output, p)
              /\ child' = child /\ hand' = [hand EXCEPT ![p] = FALSE]
            BY <2>5 DEF SendOutput
        <3>2. output' \in Seq(Panes) /\ Len(output') = Len(output) + 1
            BY <2>1, <3>1, AppendProperties
        <3>3. Len(output') <= Cap
            BY <2>1, <3>1, <3>2, ServeAssumption
        <3> QED
            BY <2>1, <3>1, <3>2, <3>3
    <2> QED
        BY <2>2, <2>3, <2>4, <2>5 DEF Program
<1>3. \/ control' = control
      \/ \E e \in Events : Push(e) /\ e.kind \notin {"connected", "gone"}
    <2>1. CASE Others
        <3>1. /\ Event("tick", None, None) \in Events /\ Event("kill", None, None) \in Events
              /\ \A p \in Panes : Event("close", p, None) \in Events
              /\ Event("tick", None, None).kind = "tick" /\ Event("kill", None, None).kind = "kill"
              /\ \A p \in Panes : Event("close", p, None).kind = "close"
            BY DEF Event, Events
        <3>2. \/ Post(Event("tick", None, None)) \/ Post(Event("kill", None, None))
              \/ \E p \in Panes : Post(Event("close", p, None))
            BY <2>1 DEF Others
        <3> QED
            BY <3>1, <3>2 DEF Post
    <2>2. ASSUME NEW p \in Panes, Write(p) \/ SendOutput(p)
          PROVE  control' = control
        BY <2>2 DEF Write, SendOutput
    <2>3. ASSUME NEW p \in Panes, NEW corpse \in {"stays", "goes"}, Exit(p, corpse)
          PROVE  \E e \in Events : Push(e) /\ e.kind \notin {"connected", "gone"}
        <3>1. Event("exited", p, corpse) \in Events /\ Event("exited", p, corpse).kind = "exited"
            BY DEF Event, Events
        <3>2. Push(Event("exited", p, corpse))
            BY <2>3 DEF Exit, Post
        <3> QED
            BY <3>1, <3>2
    <2> QED
        BY <2>1, <2>2, <2>3 DEF Program
<1>4. /\ control' \in Seq(Events) /\ Once'
      /\ \A c \in Clients : (Leaving(c)' => Leaving(c)) /\ (Arriving(c)' <=> Arriving(c))
    <2>1. CASE control' = control
        BY <2>1, SameControl DEF TypeOK
    <2>2. CASE \E e \in Events : Push(e) /\ e.kind \notin {"connected", "gone"}
        BY <2>2, Queued
    <2> QED
        BY <1>3, <2>1, <2>2
<1>5. /\ link' = [c \in Clients |-> link'[c]] /\ wire' = [c \in Clients |-> wire'[c]]
      /\ view' = [c \in Clients |-> view'[c]]
    BY <1>1 DEF TypeOK
<1>6. \A c \in Clients : Peer(c)
    BY <1>1, <1>4, PeerKept
<1> QED
    BY <1>1, <1>2, <1>4, <1>5, <1>6, ClientMoves DEF Hands

LEMMA Shorter ==
    ASSUME NEW w \in Seq(Messages), w # << >>, Closing(w)
    PROVE  /\ Head(w) \in Messages /\ Tail(w) \in Seq(Messages)
           /\ Quiet(w) => Quiet(Tail(w))
           /\ Closing(Tail(w))
           /\ Ends(w) /\ Head(w).type # "detached" => Ends(Tail(w))
<1>1. /\ Head(w) \in Messages /\ Tail(w) \in Seq(Messages) /\ Head(w) = w[1]
      /\ DOMAIN w = 1 .. Len(w) /\ Len(w) \in Nat \ {0}
      /\ DOMAIN Tail(w) = 1 .. Len(w) - 1 /\ Len(Tail(w)) = Len(w) - 1
      /\ \A i \in DOMAIN Tail(w) : Tail(w)[i] = w[i + 1]
    BY HeadTailProperties
<1>2. \A i \in DOMAIN Tail(w) : i \in Int /\ i + 1 \in DOMAIN w
    BY <1>1
<1>3. Quiet(w) => Quiet(Tail(w))
    BY <1>1, <1>2 DEF Quiet
<1>4. Closing(Tail(w))
    BY <1>1, <1>2 DEF Closing
<1>5. ASSUME Ends(w), Head(w).type # "detached"
      PROVE  Ends(Tail(w))
    <2>1. Len(w) # 1
        BY <1>1, <1>5 DEF Ends
    <2>2. Len(Tail(w)) \in DOMAIN Tail(w) /\ Len(Tail(w)) + 1 = Len(w)
        BY <1>1, <2>1
    <2>3. Tail(w)[Len(Tail(w))] = w[Len(w)] /\ Tail(w) # << >>
        BY <1>1, <2>2
    <2> QED
        BY <1>5, <2>3 DEF Ends
<1> QED
    BY <1>1, <1>3, <1>4, <1>5

(* Every message a client reads and every turn of its own keeps everything. *)
LEMMA ReadKeeps ==
    ASSUME IInv, NEW a \in Clients, Read(a)
    PROVE  IInv' /\ clients' = clients
<1> USE DEF IInv
<1> DEFINE w == wire[a]
           m == Head(w)
<1>1. /\ clients' = clients /\ panes' = panes /\ dirty' = dirty /\ loop' = loop /\ early' = early
      /\ child' = child /\ hand' = hand /\ output' = output
      /\ link[a] = "open" /\ w # << >> /\ wire' = [wire EXCEPT ![a] = Tail(w)]
    BY DEF Read, programVars, loopVars, TypeOK
<1>2. /\ link \in [Clients -> {"off", "greeting", "open"}]
      /\ wire \in [Clients -> Seq(Messages)] /\ view \in [Clients -> ViewType]
    BY DEF TypeOK, ViewType
<1>3. /\ clients[a].on => Quiet(w)
      /\ Closing(w)
      /\ ~ clients[a].on /\ ~ Arriving(a) => Ends(w)
      /\ ~ Leaving(a) /\ ~ Arriving(a)
    BY <1>1 DEF LastWord, Known, Quiet, Closing, Ends
<1>4. /\ w \in Seq(Messages) /\ m \in Messages /\ Tail(w) \in Seq(Messages)
      /\ Quiet(w) => Quiet(Tail(w))
      /\ Closing(Tail(w))
      /\ Ends(w) /\ m.type # "detached" => Ends(Tail(w))
    <2>1. w \in Seq(Messages)
        BY <1>2
    <2> QED
        BY <1>1, <1>3, <2>1, Shorter
<1>5. /\ Fits(view[a].screen, w, clients[a].last)
      /\ view[a].screen \in Pictures
      /\ IF m.type = "frame"
         THEN m.base \in {Unpainted, view[a].screen} /\ Fits(m.screen, Tail(w), clients[a].last)
         ELSE Fits(view[a].screen, Tail(w), clients[a].last)
    <2>1. Fits(view[a].screen, w, clients[a].last) /\ view[a].screen \in Pictures
        BY <1>1 DEF Chained, Whole
    <2> QED
        BY <1>1, <1>4, <2>1, FitsRead
<1>6. /\ wire'[a] = Tail(w) /\ wire' = [c \in Clients |-> wire'[c]]
      /\ \A c \in Clients : c # a => wire'[c] = wire[c]
    BY <1>1, <1>2
<1>7. Hands'
    BY <1>1 DEF Hands, TypeOK
<1> HIDE DEF w, m
<1>8. CASE m.type # "detached"
    <2>1. link' = link /\ control' = control
        BY <1>8 DEF Read, Ended, clientVars, m, w
    <2>2. /\ view' = [c \in Clients |-> view'[c]]
          /\ \A c \in Clients : c # a => view'[c] = view[c]
          /\ view'[a] = IF m.type = "frame" THEN Painted(view[a], m) ELSE view[a]
        <3>1. \/ m.type = "frame" /\ view' = [view EXCEPT ![a] = Painted(view[a], m)]
              \/ m.type \in {"hello", "error"} /\ view' = view
            BY <1>2, <1>8 DEF Read, Ended, clientVars, m, w
        <3> QED
            BY <1>2, <3>1
    <2>3. /\ Once' /\ control' \in Seq(Events)
          /\ \A c \in Clients : (Leaving(c)' <=> Leaving(c)) /\ (Arriving(c)' <=> Arriving(c))
        BY <2>1, SameControl DEF TypeOK
    <2>4. /\ view'[a] \in ViewType /\ view'[a].screen \in Pictures
          /\ Fits(view'[a].screen, Tail(w), clients[a].last)
        <3>1. CASE m.type = "frame"
            <4>1. Painted(view[a], m) = [screen |-> m.screen, caret |-> m.caret, mouse |-> m.mouse]
                BY <1>5, <3>1 DEF Painted
            <4>2. m.screen \in Pictures /\ m.caret \in BOOLEAN /\ m.mouse \in BOOLEAN
                BY <1>4, <3>1, FrameParts
            <4> QED
                BY <1>5, <2>2, <3>1, <4>1, <4>2 DEF ViewType
        <3>2. CASE m.type # "frame"
            BY <1>2, <1>5, <2>2, <3>2
        <3> QED
            BY <3>1, <3>2
    <2>5. Peer(a)
        BY <1>1, <1>3, <1>4, <1>6, <1>8, <2>1, <2>3, <2>4 DEF Peer
    <2>6. \A c \in Clients : c # a => Peer(c)
        BY <1>6, <2>1, <2>2, <2>3, PeerKept
    <2>7. link' = [c \in Clients |-> link'[c]]
        BY <1>2, <2>1
    <2> QED
        BY <1>1, <1>6, <1>7, <2>2, <2>3, <2>5, <2>6, <2>7, ClientMoves DEF Hands
<1>9. CASE m.type = "detached"
    <2>1. Ended(a)
        BY <1>9 DEF Read, m, w
    <2>2. Event("gone", a, None) \in Events /\ Event("gone", a, None).kind = "gone"
          /\ Event("gone", a, None).of = a
        BY DEF Event, Events
    <2>3. Push(Event("gone", a, None))
        BY <2>1 DEF Ended
    <2>4. /\ Once' /\ control' \in Seq(Events)
          /\ \A c \in Clients : Leaving(c)' => Leaving(c) \/ c = a
          /\ \A c \in Clients : Arriving(c)' <=> Arriving(c)
        BY <2>2, <2>3, Queued
    <2>5. /\ link' = [c \in Clients |-> link'[c]] /\ view' = [c \in Clients |-> view'[c]]
          /\ link'[a] = "off" /\ view'[a] = Blank
          /\ \A c \in Clients : c # a => link'[c] = link[c] /\ view'[c] = view[c]
        BY <1>2, <2>1 DEF Ended
    <2>6. Peer(a)
        BY <1>3, <1>4, <1>6, <2>4, <2>5, BlankType DEF Peer
    <2>7. \A c \in Clients : c # a => Peer(c)
        BY <1>6, <2>4, <2>5, PeerKept
    <2> QED
        BY <1>1, <1>6, <1>7, <2>4, <2>5, <2>6, <2>7, ClientMoves DEF Hands
<1> QED
    BY <1>8, <1>9

LEMMA HangUpKeeps ==
    ASSUME IInv, NEW a \in Clients, HangUp(a)
    PROVE  IInv' /\ clients' = clients
<1> USE DEF IInv
<1>1. /\ clients' = clients /\ panes' = panes /\ dirty' = dirty /\ loop' = loop /\ early' = early
      /\ child' = child /\ hand' = hand /\ output' = output /\ wire' = wire
      /\ link[a] = "open" /\ Ended(a)
    BY DEF HangUp, programVars, loopVars
<1>2. /\ link \in [Clients -> {"off", "greeting", "open"}]
      /\ wire \in [Clients -> Seq(Messages)] /\ view \in [Clients -> ViewType]
    BY DEF TypeOK, ViewType
<1>3. Event("gone", a, None) \in Events /\ Event("gone", a, None).kind = "gone"
      /\ Event("gone", a, None).of = a
    BY DEF Event, Events
<1>4. Push(Event("gone", a, None))
    BY <1>1 DEF Ended
<1>5. /\ Once' /\ control' \in Seq(Events)
      /\ \A c \in Clients : Leaving(c)' => Leaving(c) \/ c = a
      /\ \A c \in Clients : Arriving(c)' <=> Arriving(c)
    BY <1>3, <1>4, Queued
<1>6. /\ link' = [c \in Clients |-> link'[c]] /\ view' = [c \in Clients |-> view'[c]]
      /\ link'[a] = "off" /\ view'[a] = Blank
      /\ \A c \in Clients : c # a => link'[c] = link[c] /\ view'[c] = view[c]
    BY <1>1, <1>2 DEF Ended
<1>7. /\ clients[a].on => Quiet(wire[a])
      /\ Closing(wire[a])
      /\ Arriving(a) => clients[a] = Absent /\ wire[a] = << >>
    BY DEF LastWord, Known, Quiet, Closing
<1>8. Peer(a)
    BY <1>1, <1>2, <1>5, <1>6, <1>7, BlankType DEF Peer
<1>9. \A c \in Clients : c # a => Peer(c)
    BY <1>1, <1>5, <1>6, PeerKept
<1>10. Hands' /\ wire' = [c \in Clients |-> wire'[c]]
    BY <1>1 DEF Hands, TypeOK
<1> QED
    BY <1>1, <1>5, <1>6, <1>8, <1>9, <1>10, ClientMoves DEF Hands

LEMMA LoseKeeps ==
    ASSUME IInv, NEW a \in Clients, Lose(a)
    PROVE  IInv' /\ clients' = clients
<1> USE DEF IInv
<1>1. /\ clients' = clients /\ panes' = panes /\ dirty' = dirty /\ loop' = loop /\ early' = early
      /\ child' = child /\ hand' = hand /\ output' = output /\ control' = control
      /\ link' = link /\ view' = view
      /\ link[a] = "off" /\ wire' = [wire EXCEPT ![a] = << >>]
    BY DEF Lose, programVars, loopVars, clientVars
<1>2. /\ Once' /\ control' \in Seq(Events)
      /\ \A c \in Clients : (Leaving(c)' <=> Leaving(c)) /\ (Arriving(c)' <=> Arriving(c))
    BY <1>1, SameControl DEF TypeOK
<1>3. /\ wire' = [c \in Clients |-> wire'[c]] /\ wire'[a] = << >>
      /\ \A c \in Clients : c # a => wire'[c] = wire[c]
      /\ link' = [c \in Clients |-> link'[c]] /\ view' = [c \in Clients |-> view'[c]]
    BY <1>1 DEF TypeOK
<1>4. << >> \in Seq(Messages) /\ Quiet(<< >>) /\ Closing(<< >>)
    BY DEF Quiet, Closing
<1>5. /\ link[a] \in {"off", "greeting", "open"} /\ view[a] \in ViewType
      /\ view[a].screen \in Pictures /\ view[a] = Blank
      /\ Arriving(a) => clients[a] = Absent
    BY <1>1 DEF TypeOK, ViewType, Whole, Known
<1>6. Peer(a)
    BY <1>1, <1>2, <1>3, <1>4, <1>5 DEF Peer
<1>7. \A c \in Clients : c # a => Peer(c)
    BY <1>1, <1>2, <1>3, PeerKept
<1>8. Hands'
    BY <1>1 DEF Hands, TypeOK
<1> QED
    BY <1>1, <1>2, <1>3, <1>6, <1>7, <1>8, ClientMoves DEF Hands

LEMMA AskKeeps ==
    ASSUME IInv, NEW a \in Clients, Ask(a)
    PROVE  IInv' /\ clients' = clients
<1> USE DEF IInv
<1>1. /\ clients' = clients /\ panes' = panes /\ dirty' = dirty /\ loop' = loop /\ early' = early
      /\ child' = child /\ hand' = hand /\ output' = output
      /\ link' = link /\ wire' = wire /\ link[a] = "open"
    BY DEF Ask, programVars, loopVars
<1>2. \E e \in Events : Push(e) /\ e.kind \notin {"connected", "gone"}
    <2>1. ASSUME NEW p \in Panes
          PROVE  Event("watch", a, p) \in Events /\ Event("watch", a, p).kind = "watch"
        BY DEF Event, Events
    <2>2. ASSUME NEW what \in {"key", "wheel"}
          PROVE  Event("input", a, what) \in Events /\ Event("input", a, what).kind = "input"
        BY DEF Event, Events
    <2>3. /\ Event("resize", a, None) \in Events /\ Event("resize", a, None).kind = "resize"
          /\ Event("detach", a, None) \in Events /\ Event("detach", a, None).kind = "detach"
        BY DEF Event, Events
    <2>4. \/ \E p \in Panes : Push(Event("watch", a, p))
          \/ \E what \in {"key", "wheel"} : Push(Event("input", a, what))
          \/ Push(Event("resize", a, None)) \/ Push(Event("detach", a, None))
        BY DEF Ask, Post
    <2> QED
        BY <2>1, <2>2, <2>3, <2>4
<1>3. /\ control' \in Seq(Events) /\ Once'
      /\ \A c \in Clients : (Leaving(c)' => Leaving(c)) /\ (Arriving(c)' <=> Arriving(c))
    BY <1>2, Queued
<1>4. /\ view' = [c \in Clients |-> view'[c]]
      /\ \A c \in Clients : c # a => view'[c] = view[c]
      /\ view'[a] \in ViewType /\ view'[a].screen = view[a].screen
    <2>1. view \in [Clients -> ViewType]
        BY DEF TypeOK, ViewType
    <2>2. view' = view \/ view' = [view EXCEPT ![a].caret = FALSE]
        BY DEF Ask
    <2>3. CASE view' = view
        BY <2>1, <2>3
    <2>4. CASE view' = [view EXCEPT ![a].caret = FALSE]
        <3>1. view'[a] = [view[a] EXCEPT !.caret = FALSE] /\ view[a] \in ViewType
            BY <2>1, <2>4
        <3>2. view'[a] \in ViewType /\ view'[a].screen = view[a].screen
            BY <3>1 DEF ViewType
        <3> QED
            BY <2>1, <2>4, <3>2
    <2> QED
        BY <2>2, <2>3, <2>4
<1>5. Peer(a)
    <2>1. /\ Fits(view[a].screen, wire[a], clients[a].last) /\ view[a].screen \in Pictures
          /\ wire[a] \in Seq(Messages)
        BY <1>1 DEF Chained, Whole, TypeOK
    <2>2. Arriving(a) => clients[a] = Absent /\ wire[a] = << >>
        BY DEF Known
    <2>3. /\ clients[a].on => Quiet(wire[a])
          /\ Closing(wire[a])
          /\ ~ clients[a].on /\ ~ Arriving(a) => Ends(wire[a])
          /\ ~ Leaving(a)
        BY <1>1 DEF LastWord, Quiet, Closing, Ends
    <2> QED
        BY <1>1, <1>3, <1>4, <2>1, <2>2, <2>3 DEF Peer
<1>6. \A c \in Clients : c # a => Peer(c)
    BY <1>1, <1>3, <1>4, PeerKept
<1>7. /\ Hands' /\ link' = [c \in Clients |-> link'[c]] /\ wire' = [c \in Clients |-> wire'[c]]
    BY <1>1 DEF Hands, TypeOK
<1> QED
    BY <1>1, <1>3, <1>4, <1>5, <1>6, <1>7, ClientMoves DEF Hands

LEMMA GreetKeeps ==
    ASSUME IInv, NEW a \in Clients, NEW p \in Panes, Greet(a, p)
    PROVE  IInv' /\ clients' = clients
<1> USE DEF IInv
<1>1. /\ clients' = clients /\ panes' = panes /\ dirty' = dirty /\ loop' = loop /\ early' = early
      /\ child' = child /\ hand' = hand /\ output' = output
      /\ link[a] = "greeting" /\ link' = [link EXCEPT ![a] = "open"]
      /\ view' = view /\ wire' = wire /\ Push(Event("hello", a, p))
    BY DEF Greet, Post, programVars, loopVars
<1>2. Event("hello", a, p) \in Events /\ Event("hello", a, p).kind = "hello"
    BY DEF Event, Events
<1>3. /\ control' \in Seq(Events) /\ Once'
      /\ \A c \in Clients : (Leaving(c)' => Leaving(c)) /\ (Arriving(c)' <=> Arriving(c))
    BY <1>1, <1>2, Queued
<1>4. /\ link'[a] = "open" /\ link' = [c \in Clients |-> link'[c]]
      /\ \A c \in Clients : c # a => link'[c] = link[c]
      /\ wire' = [c \in Clients |-> wire'[c]] /\ view' = [c \in Clients |-> view'[c]]
    BY <1>1 DEF TypeOK
<1>5. Peer(a)
    <2>1. wire[a] \in Seq(Messages) /\ view[a] \in ViewType
        BY DEF TypeOK, ViewType
    <2>2. Fits(view[a].screen, wire[a], clients[a].last) /\ view[a].screen \in Pictures
        BY <1>1 DEF Chained, Whole
    <2>3. Arriving(a) => clients[a] = Absent /\ wire[a] = << >>
        BY DEF Known
    <2>4. /\ clients[a].on => Quiet(wire[a])
          /\ Closing(wire[a])
          /\ ~ clients[a].on /\ ~ Arriving(a) => Ends(wire[a])
          /\ ~ Leaving(a)
        BY <1>1 DEF LastWord, Quiet, Closing, Ends
    <2> QED
        BY <1>1, <1>3, <1>4, <2>1, <2>2, <2>3, <2>4 DEF Peer
<1>6. \A c \in Clients : c # a => Peer(c)
    BY <1>1, <1>3, <1>4, PeerKept
<1>7. Hands'
    BY <1>1 DEF Hands, TypeOK
<1> QED
    BY <1>1, <1>3, <1>4, <1>5, <1>6, <1>7, ClientMoves DEF Hands

LEMMA DialKeeps ==
    ASSUME IInv, NEW a \in Clients, Dial(a)
    PROVE  IInv' /\ clients' = clients
<1> USE DEF IInv
<1> DEFINE e == Event("connected", a, None)
<1>1. /\ clients' = clients /\ panes' = panes /\ dirty' = dirty /\ loop' = loop /\ early' = early
      /\ child' = child /\ hand' = hand /\ output' = output
      /\ link[a] = "off" /\ ~ Asked(a) /\ ~ clients[a].on /\ wire[a] = << >>
      /\ link' = [link EXCEPT ![a] = "greeting"]
      /\ view' = view /\ wire' = wire /\ control' = Append(control, e)
    BY DEF Dial, Post, Push, programVars, loopVars
<1>2. e \in Events /\ e.kind = "connected" /\ e.of = a
    BY DEF Event, Events
<1> HIDE DEF e
<1>3. ~ Arriving(a) /\ ~ Leaving(a)
    BY <1>1 DEF Asked, Arriving, Leaving
<1>4. /\ control' \in Seq(Events) /\ Once'
      /\ \A c \in Clients : Leaving(c)' <=> Leaving(c)
      /\ \A c \in Clients : Arriving(c)' <=> Arriving(c) \/ c = a
    <2>1. control \in Seq(Events) /\ Once
        BY DEF TypeOK, Known, Once
    <2>2. \A c \in Clients : (Connects(e, c) <=> c = a)
        BY <1>2 DEF Connects
    <2> QED
        BY <1>1, <1>2, <1>3, <2>1, <2>2, Pushed
<1>5. /\ link'[a] = "greeting" /\ link' = [c \in Clients |-> link'[c]]
      /\ \A c \in Clients : c # a => link'[c] = link[c]
      /\ wire' = [c \in Clients |-> wire'[c]] /\ view' = [c \in Clients |-> view'[c]]
    BY <1>1 DEF TypeOK
<1>6. Peer(a)
    <2>1. clients[a] = Absent /\ clients[a].last = Unpainted
        BY <1>1, PanesType DEF Known
    <2>2. view[a] \in ViewType /\ view[a].screen \in Pictures
        BY DEF TypeOK, ViewType, Whole
    <2>3. Fits(view[a].screen, << >>, Unpainted)
        BY <2>2, FitsNothing
    <2>4. << >> \in Seq(Messages) /\ Quiet(<< >>) /\ Closing(<< >>)
        BY DEF Quiet, Closing
    <2> QED
        BY <1>1, <1>3, <1>4, <1>5, <2>1, <2>2, <2>3, <2>4 DEF Peer
<1>7. \A c \in Clients : c # a => Peer(c)
    BY <1>1, <1>4, <1>5, PeerKept
<1>8. Hands'
    BY <1>1 DEF Hands, TypeOK
<1> QED
    BY <1>1, <1>4, <1>5, <1>6, <1>7, <1>8, ClientMoves DEF Hands

-----------------------------------------------------------------------------
(* The invariant and what it gives.                                         *)

LEMMA InitHolds == Init => IInv
<1> SUFFICES ASSUME Init
             PROVE  IInv
    OBVIOUS
<1>1. /\ control = << >> /\ \A c : ~ Arriving(c) /\ ~ Leaving(c) /\ Arrivals(c) = {}
    BY DEF Init, Arriving, Leaving, Arrivals
<1>2. TypeOK
    <2>1. /\ panes \in [Panes -> PaneType] /\ clients \in [Clients -> ClientType]
          /\ view \in [Clients -> ViewType]
        BY PanesType, BlankType DEF Init
    <2>2. /\ output = << >> /\ output \in Seq(Panes) /\ Len(output) <= Cap
        BY ServeAssumption DEF Init
    <2>3. wire \in [Clients -> Seq(Messages)] /\ control \in Seq(Events)
        BY DEF Init
    <2> QED
        BY <2>1, <2>2, <2>3 DEF Init, TypeOK, ViewType
<1>3. Chained /\ Whole
    BY BlankType DEF Init, Chained, Whole
<1>4. Known
    BY <1>1, PanesType DEF Init, Known
<1>5. Drawn
    BY PanesType DEF Init, Drawn, Watching
<1>6. LastWord
    BY <1>1 DEF Init, LastWord
<1> QED
    BY <1>2, <1>3, <1>4, <1>5, <1>6 DEF IInv

LEMMA StepKeeps ==
    ASSUME IInv, [Next]_vars
    PROVE  IInv' /\ (Steps \/ wire' = wire \/ clients' = clients)
<1>1. CASE Turn
    BY <1>1, TurnKeeps
<1>2. CASE WakeForOutput \/ WakeForFrame \/ Passed
    <2>1. wire' = wire
        BY <1>2 DEF WakeForOutput, WakeForFrame, Passed
    <2> QED
        BY <1>2, <2>1, WakeKeeps
<1>3. CASE Handle
    BY <1>3, HandleKeeps
<1>4. CASE Others \/ \E p \in Panes : Program(p) \/ SendOutput(p)
    BY <1>4, ProgramKeeps
<1>5. ASSUME NEW c \in Clients, Client(c)
      PROVE  IInv' /\ clients' = clients
    BY <1>5, DialKeeps, GreetKeeps, AskKeeps, ReadKeeps, HangUpKeeps, LoseKeeps DEF Client
<1>6. CASE UNCHANGED vars
    <2>1. /\ clients' = clients /\ wire' = wire /\ control' = control /\ link' = link /\ view' = view
          /\ panes' = panes /\ dirty' = dirty /\ loop' = loop /\ early' = early
          /\ child' = child /\ hand' = hand /\ output' = output
        BY <1>6 DEF vars, programVars, loopVars, clientVars
    <2>2. Once' /\ \A c \in Clients : (Leaving(c)' <=> Leaving(c)) /\ (Arriving(c)' <=> Arriving(c))
        BY <2>1, SameControl DEF IInv
    <2>3. \A c \in Clients : Peer(c)
        BY <2>1, <2>2, PeerKept
    <2>4. /\ child' \in [Panes -> BOOLEAN] /\ hand' \in [Panes -> BOOLEAN]
          /\ output' \in Seq(Panes) /\ Len(output') <= Cap
          /\ link' = [c \in Clients |-> link'[c]] /\ wire' = [c \in Clients |-> wire'[c]]
          /\ view' = [c \in Clients |-> view'[c]] /\ control' \in Seq(Events)
        BY <2>1 DEF IInv, TypeOK
    <2> QED
        BY <2>1, <2>2, <2>3, <2>4, ClientMoves
<1>7. CASE Next
    <2>1. \/ Turn \/ WakeForOutput \/ WakeForFrame \/ Passed \/ Handle \/ Others
          \/ \E p \in Panes : Program(p) \/ SendOutput(p)
          \/ \E c \in Clients : Client(c)
        BY <1>7 DEF Next, Loop
    <2> QED
        BY <1>1, <1>2, <1>3, <1>4, <1>5, <2>1
<1> QED
    BY <1>6, <1>7

LEMMA Invariance == Spec => []IInv
<1>1. IInv /\ [Next]_vars => IInv'
    BY StepKeeps
<1> QED
    BY <1>1, InitHolds, PTL DEF Spec

-----------------------------------------------------------------------------
(* The buffers of the clients: what is missing in one is owed to it, and    *)
(* who was not refused is sent the pane he wants.                           *)

Has(c, kinds) == \E i \in DOMAIN control : control[i].of = c /\ control[i].kind \in kinds
Pointing == {"hello", "watch"}

(* A pane asked for and not answered yet is the one the client wants; it is *)
(* asked for after the connection.                                          *)
Wanted ==
    \A i \in DOMAIN control : control[i].kind \in Pointing =>
        /\ link[control[i].of] # "greeting"
        /\ link[control[i].of] = "open" => control[i].arg = stage[control[i].of].pane
        /\ \A j \in DOMAIN control :
               control[j].kind = "connected" /\ control[j].of = control[i].of => j < i

Steady(c) ==
    loop # "stopped" /\ link[c] = "open" /\ (clients[c].on \/ Arriving(c)) =>
        \/ Refused(c)
        \/ /\ stage[c].torn => Mending(c)
           /\ stage[c].pane = clients[c].pane \/ Has(c, Pointing)

Stages == StageType /\ Wanted /\ \A c \in Clients : Steady(c)

(* A message more or less.                                                  *)
LEMMA SaidMore ==
    ASSUME NEW w \in Seq(Messages), NEW m \in Messages
    PROVE  /\ \A i \in DOMAIN w : i \in DOMAIN Append(w, m) /\ Append(w, m)[i] = w[i]
           /\ Len(w) + 1 \in DOMAIN Append(w, m) /\ Append(w, m)[Len(w) + 1] = m
BY AppendProperties

(* What is on the wire to a client stays there in a step of the daemon.     *)
LEMMA StillSaid ==
    ASSUME TypeOK, NEW c \in Clients, ServerStep(c), clients'[c].on
    PROVE  /\ \A i \in DOMAIN wire[c] : i \in DOMAIN wire'[c] /\ wire'[c][i] = wire[c][i]
           /\ Replied(c) => \E i \in DOMAIN wire'[c] : wire'[c][i].type = "error"
           /\ Drew(c) /\ clients[c].last = Unpainted =>
                  \E i \in DOMAIN wire'[c] : wire'[c][i].type = "frame" /\ wire'[c][i].base = Unpainted
<1>1. wire[c] \in Seq(Messages) /\ clients[c] \in ClientType
    BY DEF TypeOK
<1>2. \/ wire'[c] = wire[c]
      \/ \E m \in Messages : wire'[c] = Append(wire[c], m)
    <2>1. \A why : ~ Told(c, why)
        BY PanesType DEF Told
    <2> QED
        BY <2>1, NotFrames DEF ServerStep, Kept, Replied, Turned, Drew
<1>3. \A i \in DOMAIN wire[c] : i \in DOMAIN wire'[c] /\ wire'[c][i] = wire[c][i]
    BY <1>1, <1>2, SaidMore
<1>4. ASSUME Replied(c)
      PROVE  \E i \in DOMAIN wire'[c] : wire'[c][i].type = "error"
    BY <1>1, <1>4, NotFrames, SaidMore DEF Replied
<1>5. ASSUME Drew(c), clients[c].last = Unpainted
      PROVE  \E i \in DOMAIN wire'[c] : wire'[c][i].type = "frame" /\ wire'[c][i].base = Unpainted
    BY <1>1, <1>5, SaidMore DEF Drew
<1> QED
    BY <1>3, <1>4, <1>5

(* A step that leaves a client the pane it has and its requests where they  *)
(* are.                                                                     *)
LEMMA SteadyStep ==
    ASSUME TypeOK, Known, NEW c \in Clients, Steady(c), ServerStep(c),
           stage'[c] = stage[c], link'[c] = link[c], loop' # "stopped" => loop # "stopped",
           clients'[c].on => clients'[c].pane = clients[c].pane,
           Arriving(c)' => Arriving(c),
           Has(c, Pointing) => Has(c, Pointing)',
           clients'[c].on => \/ Has(c, {"watch", "resize"}) => Has(c, {"watch", "resize"})'
                             \/ clients'[c].last = Unpainted
    PROVE  Steady(c)'
<1> SUFFICES ASSUME loop' # "stopped", link'[c] = "open", clients'[c].on \/ Arriving(c)'
             PROVE  \/ Refused(c)'
                    \/ /\ stage'[c].torn => Mending(c)'
                       /\ stage'[c].pane = clients'[c].pane \/ Has(c, Pointing)'
    BY DEF Steady
<1>1. loop # "stopped" /\ link[c] = "open"
    OBVIOUS
<1>2. CASE ~ clients'[c].on
    <2>1. Arriving(c) /\ clients[c] = Absent
        BY <1>2 DEF Known
    <2>2. ~ clients[c].on /\ clients[c].last = Unpainted
        BY <2>1, PanesType
    <2>3. Kept(c)
        BY <2>2 DEF ServerStep, Told, Replied, Turned, Drew
    <2>4. \/ Refused(c)
          \/ stage[c].pane = clients[c].pane \/ Has(c, Pointing)
        BY <1>1, <2>1 DEF Steady
    <2>5. Refused(c) => Refused(c)'
        BY <2>3 DEF Refused, Kept
    <2>6. Mending(c)'
        BY <2>2, <2>3 DEF Mending, Kept
    <2> QED
        BY <2>3, <2>4, <2>5, <2>6 DEF Kept
<1>3. CASE clients'[c].on
    <2>1. clients[c].on
        <3>1. CASE Kept(c)
            BY <1>3, <3>1 DEF Kept
        <3> QED
            BY <3>1 DEF ServerStep, Told, Replied, Turned, Drew
    <2>2. \/ Refused(c)
          \/ /\ stage[c].torn => Mending(c)
             /\ stage[c].pane = clients[c].pane \/ Has(c, Pointing)
        BY <1>1, <2>1 DEF Steady
    <2>3. /\ \A i \in DOMAIN wire[c] : i \in DOMAIN wire'[c] /\ wire'[c][i] = wire[c][i]
          /\ Replied(c) => \E i \in DOMAIN wire'[c] : wire'[c][i].type = "error"
          /\ Drew(c) /\ clients[c].last = Unpainted =>
                 \E i \in DOMAIN wire'[c] : wire'[c][i].type = "frame" /\ wire'[c][i].base = Unpainted
        BY <1>3, StillSaid
    <2>4. Refused(c) => Refused(c)'
        BY <2>3 DEF Refused
    <2>5. Replied(c) => Refused(c)'
        BY <2>3 DEF Refused
    <2>6. ASSUME Mending(c), ~ Replied(c)
          PROVE  Mending(c)'
        <3>1. CASE Has(c, {"watch", "resize"})
            <4>1. Has(c, {"watch", "resize"})' \/ clients'[c].last = Unpainted
                BY <1>3, <3>1
            <4> QED
                BY <4>1 DEF Mending, Has
        <3>2. CASE \E i \in DOMAIN wire[c] : wire[c][i].type = "frame" /\ wire[c][i].base = Unpainted
            BY <2>3, <3>2 DEF Mending
        <3>3. CASE clients[c].last = Unpainted
            <4>1. Drew(c) => Mending(c)'
                BY <2>3, <3>3 DEF Mending
            <4>2. Kept(c) => Mending(c)'
                BY <3>3 DEF Mending, Kept
            <4>3. Turned(c) => Mending(c)'
                BY DEF Mending, Turned
            <4>4. \A why : ~ Told(c, why)
                BY <1>3, PanesType DEF Told
            <4> QED
                BY <2>6, <4>1, <4>2, <4>3, <4>4 DEF ServerStep
        <3> QED
            BY <2>6, <3>1, <3>2, <3>3 DEF Mending, Has
    <2> QED
        BY <1>3, <2>2, <2>4, <2>5, <2>6
<1> QED
    BY <1>2, <1>3

(* An event more at the end of the queue.                                   *)
LEMMA Grown ==
    ASSUME control \in Seq(Events), NEW e \in Events, control' = Append(control, e)
    PROVE  /\ \A c, kinds : Has(c, kinds) => Has(c, kinds)'
           /\ \A kinds : e.kind \in kinds => Has(e.of, kinds)'
           /\ \A i \in DOMAIN control' : \/ i \in DOMAIN control /\ control'[i] = control[i]
                                         \/ /\ control'[i] = e
                                            /\ \A j \in DOMAIN control : j < i
<1>1. /\ DOMAIN control = 1 .. Len(control) /\ Len(control) \in Nat
      /\ DOMAIN control' = 1 .. Len(control) + 1
      /\ \A i \in DOMAIN control : control'[i] = control[i]
      /\ control'[Len(control) + 1] = e
    BY AppendProperties
<1>2. \A i \in DOMAIN control : i \in DOMAIN control'
    BY <1>1
<1>3. \A c, kinds : Has(c, kinds) => Has(c, kinds)'
    BY <1>1, <1>2 DEF Has
<1>4. Len(control) + 1 \in DOMAIN control'
    BY <1>1
<1>5. \A kinds : e.kind \in kinds => Has(e.of, kinds)'
    BY <1>1, <1>4 DEF Has
<1>6. ASSUME NEW i \in DOMAIN control', i \notin DOMAIN control
      PROVE  i = Len(control) + 1 /\ \A j \in DOMAIN control : j < i
    BY <1>1, <1>6
<1> QED
    BY <1>1, <1>3, <1>5, <1>6

LEMMA WantedGrows ==
    ASSUME control \in Seq(Events), Wanted, NEW e \in Events,
           control' = control \/ control' = Append(control, e),
           \A i \in DOMAIN control : control[i].kind \in Pointing =>
               /\ link'[control[i].of] # "greeting"
               /\ link'[control[i].of] = "open" =>
                      link[control[i].of] = "open" /\ stage'[control[i].of].pane = stage[control[i].of].pane,
           e.kind \in Pointing => link'[e.of] = "open" /\ e.arg = stage'[e.of].pane,
           e.kind = "connected" => \A i \in DOMAIN control : control[i].of # e.of
    PROVE  Wanted'
<1> SUFFICES ASSUME NEW i \in DOMAIN control', control'[i].kind \in Pointing
             PROVE  /\ link'[control'[i].of] # "greeting"
                    /\ link'[control'[i].of] = "open" => control'[i].arg = stage'[control'[i].of].pane
                    /\ \A j \in DOMAIN control' :
                           control'[j].kind = "connected" /\ control'[j].of = control'[i].of => j < i
    BY DEF Wanted, Pointing
<1>1. CASE control' = control
    <2>1. /\ link[control[i].of] = "open" => control[i].arg = stage[control[i].of].pane
          /\ \A j \in DOMAIN control : control[j].kind = "connected" /\ control[j].of = control[i].of => j < i
        BY <1>1 DEF Wanted
    <2> QED
        BY <1>1, <2>1
<1>2. CASE control' = Append(control, e)
    <2>1. \A k \in DOMAIN control' : \/ k \in DOMAIN control /\ control'[k] = control[k]
                                     \/ /\ control'[k] = e
                                        /\ \A j \in DOMAIN control : j < k
        BY <1>2, Grown
    <2>2. CASE i \in DOMAIN control /\ control'[i] = control[i]
        <3>1. /\ link[control[i].of] = "open" => control[i].arg = stage[control[i].of].pane
              /\ \A j \in DOMAIN control : control[j].kind = "connected" /\ control[j].of = control[i].of => j < i
            BY <2>2 DEF Wanted
        <3>2. ASSUME NEW j \in DOMAIN control', control'[j].kind = "connected", control'[j].of = control'[i].of
              PROVE  j < i
            BY <2>1, <2>2, <3>1, <3>2
        <3> QED
            BY <2>2, <3>1, <3>2
    <2>3. CASE control'[i] = e /\ \A j \in DOMAIN control : j < i
        <3>1. e.kind # "connected"
            BY <2>3 DEF Pointing
        <3>2. ASSUME NEW j \in DOMAIN control', control'[j].kind = "connected"
              PROVE  j < i
            BY <2>1, <2>3, <3>1, <3>2
        <3> QED
            BY <2>3, <3>2
    <2> QED
        BY <2>1, <2>2, <2>3
<1> QED
    BY <1>1, <1>2

(* The event at the head of the queue is worked off.                        *)
LEMMA Worked ==
    ASSUME control \in Seq(Events), control # << >>, control' = Tail(control), Wanted,
           link' = link, stage' = stage
    PROVE  /\ Wanted'
           /\ \A c, kinds : Has(c, kinds) => \/ Has(c, kinds)'
                                             \/ Head(control).of = c /\ Head(control).kind \in kinds
           /\ \A c : Head(control).kind \in Pointing /\ Head(control).of = c =>
                  /\ ~ Arriving(c)'
                  /\ link[c] = "open" => Head(control).arg = stage[c].pane
<1>1. /\ Head(control) = control[1]
      /\ DOMAIN control = 1 .. Len(control) /\ Len(control) \in Nat \ {0}
      /\ DOMAIN control' = 1 .. Len(control) - 1
      /\ \A i \in DOMAIN control' : control'[i] = control[i + 1]
    BY HeadTailProperties
<1>2. /\ \A i \in DOMAIN control' : i \in Int /\ i + 1 \in DOMAIN control /\ i + 1 > 1
      /\ 1 \in DOMAIN control
      /\ \A i \in DOMAIN control : i = 1 \/ (i - 1 \in DOMAIN control' /\ control'[i - 1] = control[i])
    <2>1. \A i \in DOMAIN control : i = 1 \/ (i - 1 \in DOMAIN control' /\ (i - 1) + 1 = i)
        BY <1>1
    <2>2. \A i \in DOMAIN control' : i \in Int /\ i + 1 \in DOMAIN control /\ i + 1 > 1
        BY <1>1
    <2>3. 1 \in DOMAIN control
        BY <1>1
    <2>4. \A i \in DOMAIN control' : control'[i] = control[i + 1]
        BY <1>1
    <2>5. ASSUME NEW i \in DOMAIN control, i # 1
          PROVE  i - 1 \in DOMAIN control' /\ control'[i - 1] = control[i]
        <3>1. i - 1 \in DOMAIN control' /\ (i - 1) + 1 = i
            BY <2>1, <2>5
        <3>2. control'[i - 1] = control[(i - 1) + 1]
            BY <2>4, <3>1
        <3> QED
            BY <3>1, <3>2
    <2> QED
        BY <2>2, <2>3, <2>5
<1>3. ASSUME NEW i \in DOMAIN control', control'[i].kind \in Pointing
      PROVE  /\ link[control'[i].of] # "greeting"
             /\ link[control'[i].of] = "open" => control'[i].arg = stage[control'[i].of].pane
             /\ \A j \in DOMAIN control' :
                    control'[j].kind = "connected" /\ control'[j].of = control'[i].of => j < i
    <2>1. i + 1 \in DOMAIN control /\ control[i + 1] = control'[i] /\ i \in Int
        BY <1>1, <1>2
    <2>2. /\ link[control'[i].of] # "greeting"
          /\ link[control'[i].of] = "open" => control'[i].arg = stage[control'[i].of].pane
          /\ \A j \in DOMAIN control : control[j].kind = "connected" /\ control[j].of = control'[i].of => j < i + 1
        BY <1>3, <2>1 DEF Wanted
    <2>3. ASSUME NEW j \in DOMAIN control', control'[j].kind = "connected", control'[j].of = control'[i].of
          PROVE  j < i
        <3>1. j + 1 \in DOMAIN control /\ control[j + 1] = control'[j] /\ j \in Int
            BY <1>1, <1>2
        <3>2. j + 1 < i + 1
            BY <2>2, <2>3, <3>1
        <3> QED
            BY <2>1, <3>1, <3>2
    <2> QED
        BY <2>2, <2>3
<1>4. Wanted'
    BY <1>3 DEF Wanted, Pointing
<1>5. ASSUME NEW c, NEW kinds, Has(c, kinds)
      PROVE  Has(c, kinds)' \/ (Head(control).of = c /\ Head(control).kind \in kinds)
    <2>1. PICK i \in DOMAIN control : control[i].of = c /\ control[i].kind \in kinds
        BY <1>5 DEF Has
    <2>2. CASE i = 1
        BY <1>1, <2>1, <2>2
    <2>3. CASE i # 1
        <3>1. i - 1 \in DOMAIN control' /\ control'[i - 1] = control[i]
            BY <1>2, <2>3
        <3> QED
            BY <2>1, <3>1 DEF Has
    <2> QED
        BY <2>2, <2>3
<1>6. ASSUME NEW c, Head(control).kind \in Pointing, Head(control).of = c
      PROVE  ~ Arriving(c)' /\ (link[c] = "open" => Head(control).arg = stage[c].pane)
    <2>1. /\ link[c] = "open" => control[1].arg = stage[c].pane
          /\ \A j \in DOMAIN control : control[j].kind = "connected" /\ control[j].of = c => j < 1
        BY <1>1, <1>2, <1>6 DEF Wanted
    <2>2. ASSUME NEW j \in DOMAIN control', control'[j].kind = "connected", control'[j].of = c
          PROVE  FALSE
        <3>1. j + 1 \in DOMAIN control /\ control[j + 1] = control'[j] /\ j \in Int /\ j + 1 > 1
            BY <1>1, <1>2
        <3>2. j + 1 < 1
            BY <2>1, <2>2, <3>1
        <3> QED
            BY <3>1, <3>2
    <2>3. ~ Arriving(c)'
        BY <2>2 DEF Arriving
    <2> QED
        BY <1>1, <2>1, <2>3
<1> QED
    BY <1>4, <1>5, <1>6

(* Whom an event concerns, and what it leaves of his pane.                  *)
LEMMA ServedPane ==
    ASSUME TypeOK, Known, NEW e \in Events, Served(e), NEW c \in Clients, clients'[c].on
    PROVE  \/ e.kind = "connected" /\ e.of = c
           \/ /\ clients'[c].pane = clients[c].pane
              /\ e.kind \in Pointing /\ e.of = c => wire'[c] = Append(wire[c], Error)
              /\ e.kind = "resize" /\ e.of = c => clients'[c].last = Unpainted
           \/ /\ e.kind \in Pointing /\ e.of = c
              /\ clients'[c].pane = e.arg /\ clients'[c].last = Unpainted
<1>1. clients \in [Clients -> ClientType] /\ wire \in [Clients -> Seq(Messages)]
    BY DEF TypeOK
<1>2. CASE e.kind \in {"exited", "close", "tick"}
    <2>1. clients' = clients
        BY <1>2 DEF Served, Exited, Close
    <2> QED
        BY <1>2, <2>1 DEF Pointing
<1>3. CASE e.kind \in {"kill", "detach"}
    <2>1. DetachAll(Clients, "server shutting down") \/ DetachAll({e.of}, "detached")
        BY <1>3 DEF Served, KillServer
    <2>2. clients'[c] = clients[c]
        BY <2>1, PanesType DEF DetachAll
    <2> QED
        BY <1>3, <2>2 DEF Pointing
<1>4. CASE e.kind \in {"connected", "gone"}
    <2>1. PICK n : clients' = [clients EXCEPT ![e.of] = n]
        BY <1>4 DEF Served, Connected
    <2>2. e.kind = "gone" /\ e.of = c => clients'[c] = Absent
        BY <1>1, <1>4 DEF Served
    <2>3. e.of # c => clients'[c] = clients[c]
        BY <1>1, <2>1
    <2> QED
        BY <1>4, <2>2, <2>3, PanesType DEF Pointing
<1>5. CASE e.kind = "input"
    <2>1. Input(e.of, e.arg)
        BY <1>5 DEF Served
    <2>2. clients' = clients \/ DetachAll({e.of}, "pane closed")
        BY <2>1 DEF Input
    <2>3. clients'[c] = clients[c]
        BY <2>2, PanesType DEF DetachAll
    <2> QED
        BY <1>5, <2>3 DEF Pointing
<1>6. CASE e.kind = "resize"
    <2>1. clients' = [clients EXCEPT ![e.of].last = Unpainted]
        BY <1>6 DEF Served, Resize
    <2>2. e.of # c => clients'[c] = clients[c]
        BY <1>1, <2>1
    <2>3. e.of = c => clients'[c] = [clients[c] EXCEPT !.last = Unpainted]
        BY <1>1, <2>1
    <2>4. clients[c] \in ClientType
        BY <1>1
    <2>5. e.of = c => clients'[c].pane = clients[c].pane /\ clients'[c].last = Unpainted
        BY <2>3, <2>4 DEF ClientType
    <2> QED
        BY <1>6, <2>2, <2>5 DEF Pointing
<1>7. CASE e.kind = "hello"
    <2>1. Attach(e.of, e.arg) /\ e.of \in Clients
        BY <1>7 DEF Served, Events
    <2>2. \/ clients' = [clients EXCEPT ![e.of] =
                  IF clients[e.of].on THEN [clients[e.of] EXCEPT !.pane = e.arg, !.last = Unpainted]
                  ELSE clients[e.of]]
          \/ clients' = [clients EXCEPT ![e.of] = Absent]
        BY <1>1, <2>1 DEF Attach
    <2>3. e.of # c => clients'[c] = clients[c]
        BY <1>1, <2>2
    <2>4. e.of = c => clients'[c] = [clients[c] EXCEPT !.pane = e.arg, !.last = Unpainted]
        BY <1>1, <2>2, PanesType
    <2>5. clients[c] \in ClientType
        BY <1>1
    <2>6. e.of = c => clients'[c].pane = e.arg /\ clients'[c].last = Unpainted
        BY <2>4, <2>5 DEF ClientType
    <2> QED
        BY <1>7, <2>3, <2>6 DEF Pointing
<1>8. CASE e.kind = "watch"
    <2>1. Watch(e.of, e.arg) /\ e.of \in Clients
        BY <1>8 DEF Served, Events
    <2>2. CASE clients' = [clients EXCEPT ![e.of].pane = e.arg, ![e.of].last = Unpainted]
        <3>1. e.of # c => clients'[c] = clients[c]
            BY <1>1, <2>2
        <3>2. e.of = c => clients'[c] = [clients[c] EXCEPT !.pane = e.arg, !.last = Unpainted]
            BY <1>1, <2>2
        <3>3. clients[c] \in ClientType
            BY <1>1
        <3>4. e.of = c => clients'[c].pane = e.arg /\ clients'[c].last = Unpainted
            BY <3>2, <3>3 DEF ClientType
        <3> QED
            BY <1>8, <3>1, <3>4 DEF Pointing
    <2>3. CASE clients' = clients
        <3>1. e.of = c => \/ wire' = [wire EXCEPT ![c] = Append(@, Error)]
                         \/ clients' = [clients EXCEPT ![e.of].pane = e.arg, ![e.of].last = Unpainted]
            BY <2>1, <2>3 DEF Watch, Send
        <3> QED
            BY <1>1, <1>8, <2>2, <2>3, <3>1 DEF Pointing
    <2> QED
        BY <2>1, <2>2, <2>3 DEF Watch
<1> QED
    BY <1>2, <1>3, <1>4, <1>5, <1>6, <1>7, <1>8 DEF Events

(* A turn of the loop that works off no event.                              *)
LEMMA LoopStages ==
    ASSUME IInv, Stages, Steps, control' = control, link' = link, stage' = stage,
           loop' # "stopped" => loop # "stopped",
           \A c \in Clients : clients'[c].on => clients'[c].pane = clients[c].pane
    PROVE  Stages'
<1>1. StageType' /\ Wanted'
    BY DEF Stages, StageType, Wanted
<1>2. /\ \A c : Arriving(c)' <=> Arriving(c)
      /\ \A c, kinds : Has(c, kinds)' <=> Has(c, kinds)
    BY DEF Arriving, Has
<1>3. ASSUME NEW c \in Clients
      PROVE  Steady(c)'
    BY <1>2, SteadyStep DEF IInv, Stages, Steps
<1> QED
    BY <1>1, <1>3 DEF Stages

LEMMA HandleStages ==
    ASSUME IInv, Stages, Handle
    PROVE  Stages'
<1> DEFINE e == Head(control)
<1>1. /\ control # << >> /\ Served(e) /\ control' = Tail(control)
      /\ loop # "stopped" /\ link' = link /\ stage' = stage
      /\ loop' = IF e.kind = "kill" THEN "stopped" ELSE "drain"
    BY DEF Handle, clientVars
<1>2. control \in Seq(Events) /\ Once /\ TypeOK /\ Known /\ Drawn /\ Wanted /\ StageType
    BY DEF IInv, TypeOK, Known, Once, Stages
<1>3. /\ e \in Events
      /\ \A c \in Clients : Arriving(c)' <=> Arriving(c) /\ ~ Connects(e, c)
    BY <1>1, <1>2, Popped
<1>4. /\ Wanted'
      /\ \A c, kinds : Has(c, kinds) => Has(c, kinds)' \/ (e.of = c /\ e.kind \in kinds)
      /\ \A c : e.kind \in Pointing /\ e.of = c =>
             ~ Arriving(c)' /\ (link[c] = "open" => e.arg = stage[c].pane)
    BY <1>1, <1>2, Worked
<1>5. StageType'
    BY <1>1, <1>2 DEF StageType
<1>6. \A c \in Clients : Leaving(c) => link[c] = "off"
    BY DEF IInv, LastWord
<1>7. e.kind = "gone" => Leaving(e.of)
    <2>1. 1 \in DOMAIN control /\ control[1] = e
        BY <1>1, <1>2
    <2> QED
        BY <2>1 DEF Leaving
<1> HIDE DEF e
<1>8. ASSUME NEW c \in Clients
      PROVE  Steady(c)'
    <2>1. CASE e.kind \in {"connected", "gone"}
        <3> DEFINE n == IF e.kind = "connected" THEN Fresh ELSE Absent
        <3>1. clients' = [clients EXCEPT ![e.of] = n] /\ wire' = wire
            BY <1>1, <2>1 DEF Served, Connected
        <3>0. n.last = Unpainted /\ n.pane = None
            BY PanesType
        <3> HIDE DEF n
        <3>2. clients \in [Clients -> ClientType]
            BY <1>2 DEF TypeOK
        <3>3. CASE e.of # c
            <4>1. Kept(c)
                BY <3>1, <3>2, <3>3 DEF Kept
            <4> QED
                BY <1>1, <1>2, <1>3, <1>4, <3>3, <4>1, SteadyStep DEF ServerStep, Stages, Kept
        <3>4. CASE e.of = c /\ e.kind = "gone"
            BY <1>1, <1>6, <1>7, <3>4 DEF Steady
        <3>5. CASE e.of = c /\ e.kind = "connected"
            <4>1. Arriving(c)
                <5>1. 1 \in DOMAIN control /\ control[1] = e
                    BY <1>1, <1>2 DEF e
                <5> QED
                    BY <3>5, <5>1 DEF Arriving
            <4>2. clients[c] = Absent
                BY <1>2, <4>1 DEF Known
            <4>3. clients'[c] = n /\ n.last = Unpainted /\ n.pane = None /\ clients[c].pane = None
                BY <3>0, <3>1, <3>2, <3>5, <4>2, PanesType
            <4>4. Has(c, Pointing) => Has(c, Pointing)'
                BY <1>4, <3>5 DEF Pointing
            <4>5. Mending(c)' /\ (Refused(c) => Refused(c)')
                BY <1>1, <3>1, <4>3 DEF Mending, Refused
            <4> QED
                BY <1>1, <4>1, <4>3, <4>4, <4>5 DEF Steady, Stages
        <3> QED
            BY <2>1, <3>3, <3>4, <3>5
    <2>2. CASE e.kind \notin {"connected", "gone"}
        <3>1. Steps
            BY <1>1, <1>2, <1>3, <2>2, ServedSteps
        <3>2. ServerStep(c) /\ (Arriving(c)' => Arriving(c))
            BY <1>3, <3>1 DEF Steps
        <3>3. CASE ~ (e.of = c /\ e.kind \in Pointing)
            <4>1. clients'[c].on => clients'[c].pane = clients[c].pane /\
                        (e.kind = "resize" /\ e.of = c => clients'[c].last = Unpainted)
                BY <1>1, <1>2, <1>3, <2>2, <3>3, ServedPane
            <4>2. Has(c, Pointing) => Has(c, Pointing)'
                BY <1>4, <3>3
            <4>3. Has(c, {"watch", "resize"}) => Has(c, {"watch", "resize"})' \/ (e.kind = "resize" /\ e.of = c)
                BY <1>4, <3>3 DEF Pointing
            <4> QED
                BY <1>1, <1>2, <3>2, <4>1, <4>2, <4>3, SteadyStep DEF Stages
        <3>4. CASE e.of = c /\ e.kind \in Pointing
            <4> SUFFICES ASSUME loop' # "stopped", link'[c] = "open", clients'[c].on \/ Arriving(c)'
                         PROVE  \/ Refused(c)'
                                \/ /\ stage'[c].torn => Mending(c)'
                                   /\ stage'[c].pane = clients'[c].pane
                BY DEF Steady
            <4>1. clients'[c].on /\ e.arg = stage'[c].pane
                BY <1>1, <1>4, <3>4
            <4>2. \/ wire'[c] = Append(wire[c], Error)
                  \/ clients'[c].pane = e.arg /\ clients'[c].last = Unpainted
                BY <1>1, <1>2, <1>3, <2>2, <3>4, <4>1, ServedPane
            <4>3. wire[c] \in Seq(Messages)
                BY <1>2 DEF TypeOK
            <4>4. wire'[c] = Append(wire[c], Error) => Refused(c)'
                BY <4>3, NotFrames, SaidMore DEF Refused
            <4> QED
                BY <4>1, <4>2, <4>4 DEF Mending
        <3> QED
            BY <3>3, <3>4
    <2> QED
        BY <2>1, <2>2
<1> QED
    BY <1>4, <1>5, <1>8 DEF Stages

(* The clients that a step does not concern.                                *)
Same(c) == /\ stage'[c] = stage[c] /\ link'[c] = link[c]
           /\ clients'[c] = clients[c] /\ wire'[c] = wire[c]

LEMMA SameStages ==
    ASSUME IInv, Stages, NEW c \in Clients, Same(c), loop' = loop,
           Arriving(c)' => Arriving(c),
           \A kinds : Has(c, kinds) => Has(c, kinds)'
    PROVE  Steady(c)'
BY SteadyStep DEF Same, IInv, Stages, ServerStep, Kept

(* An event is queued that points no client to a pane.                      *)
LEMMA OthersStages ==
    ASSUME IInv, Stages, Others \/ \E p \in Panes : Program(p) \/ SendOutput(p)
    PROVE  Stages'
<1>1. /\ clients' = clients /\ loop' = loop /\ link' = link /\ wire' = wire /\ stage' = stage
    BY DEF Others, Program, Write, Exit, SendOutput, loopVars, clientVars
<1>2. PICK e \in Events : /\ control' = control \/ control' = Append(control, e)
                         /\ e.kind \notin Pointing /\ e.kind # "connected"
    <2>1. /\ Event("tick", None, None) \in Events /\ Event("kill", None, None) \in Events
          /\ \A p \in Panes : Event("close", p, None) \in Events
          /\ \A p \in Panes, corpse \in {"stays", "goes"} : Event("exited", p, corpse) \in Events
          /\ Event("tick", None, None).kind = "tick" /\ Event("kill", None, None).kind = "kill"
          /\ \A p \in Panes : Event("close", p, None).kind = "close"
          /\ \A p \in Panes, corpse \in {"stays", "goes"} : Event("exited", p, corpse).kind = "exited"
        BY DEF Event, Events
    <2>2. CASE Others
        <3>1. \/ Push(Event("tick", None, None)) \/ Push(Event("kill", None, None))
              \/ \E p \in Panes : Push(Event("close", p, None))
            BY <2>2 DEF Others, Post
        <3> QED
            BY <2>1, <3>1 DEF Push, Pointing
    <2>3. ASSUME NEW p \in Panes, Write(p) \/ SendOutput(p)
          PROVE  control' = control
        BY <2>3 DEF Write, SendOutput
    <2>4. ASSUME NEW p \in Panes, NEW corpse \in {"stays", "goes"}, Exit(p, corpse)
          PROVE  Push(Event("exited", p, corpse))
        BY <2>4 DEF Exit, Post
    <2>5. \A p \in Panes : Program(p) \/ SendOutput(p) =>
              \/ control' = control
              \/ \E corpse \in {"stays", "goes"} : Push(Event("exited", p, corpse))
        BY <2>3, <2>4 DEF Program
    <2>6. CASE \E p \in Panes : Program(p) \/ SendOutput(p)
        BY <2>1, <2>5, <2>6 DEF Push, Pointing
    <2> QED
        BY <2>2, <2>6
<1>3. control \in Seq(Events) /\ Wanted /\ StageType
    BY DEF IInv, TypeOK, Stages
<1>4. StageType'
    BY <1>1, <1>3 DEF StageType
<1>5. Wanted'
    <2>1. \A i \in DOMAIN control : control[i].kind \in Pointing => link[control[i].of] # "greeting"
        BY <1>3 DEF Wanted
    <2> QED
        BY <1>1, <1>2, <1>3, <2>1, WantedGrows
<1>6. \A c \in Clients : Arriving(c)' => Arriving(c)
    <2>1. Known /\ Once
        BY DEF IInv, Known, Once
    <2>2. CASE control' = control
        BY <2>2 DEF Arriving
    <2>3. CASE control' = Append(control, e)
        BY <1>2, <1>3, <2>1, <2>3, Pushed DEF Connects
    <2> QED
        BY <1>2, <2>2, <2>3
<1>7. \A c, kinds : Has(c, kinds) => Has(c, kinds)'
    <2>1. CASE control' = control
        BY <2>1 DEF Has
    <2>2. CASE control' = Append(control, e)
        BY <1>3, <2>2, Grown
    <2> QED
        BY <1>2, <2>1, <2>2
<1>8. \A c \in Clients : Steady(c)'
    BY <1>1, <1>6, <1>7, SameStages DEF Same
<1> QED
    BY <1>4, <1>5, <1>8 DEF Stages

(* The steps of a client: an event of his may be queued, and nobody else is *)
(* concerned.                                                               *)
LEMMA ClientStages ==
    ASSUME IInv, Stages, NEW a \in Clients, loop' = loop, clients' = clients,
           NEW e \in Events, control' = control \/ control' = Append(control, e), e.of = a,
           \A c \in Clients : c # a => Same(c),
           stage'[a] \in [pane : Panes \union {None}, torn : BOOLEAN, refused : BOOLEAN],
           stage' = [c \in Clients |-> stage'[c]],
           \A i \in DOMAIN control : control[i].kind \in Pointing /\ control[i].of = a =>
               /\ link'[a] # "greeting"
               /\ link'[a] = "open" => link[a] = "open" /\ stage'[a].pane = stage[a].pane,
           e.kind \in Pointing => link'[a] = "open" /\ e.arg = stage'[a].pane,
           e.kind = "connected" => \A i \in DOMAIN control : control[i].of # a,
           Steady(a)'
    PROVE  Stages'
<1>1. control \in Seq(Events) /\ Wanted /\ StageType
    BY DEF IInv, TypeOK, Stages
<1>2. StageType'
    BY <1>1 DEF StageType, Same
<1>3. Wanted'
    <2>1. ASSUME NEW i \in DOMAIN control, control[i].kind \in Pointing
          PROVE  /\ link'[control[i].of] # "greeting"
                 /\ link'[control[i].of] = "open" =>
                        link[control[i].of] = "open" /\ stage'[control[i].of].pane = stage[control[i].of].pane
        <3>1. link[control[i].of] # "greeting"
            BY <1>1, <2>1 DEF Wanted
        <3>2. control[i].of \in Clients
            BY <1>1, <2>1 DEF Events, Pointing
        <3> QED
            BY <2>1, <3>1, <3>2 DEF Same
    <2> QED
        BY <1>1, <2>1, WantedGrows
<1>4. ASSUME NEW c \in Clients, c # a
      PROVE  Steady(c)'
    <2>1. Arriving(c)' => Arriving(c)
        <3>1. CASE control' = control
            BY <3>1 DEF Arriving
        <3>2. CASE control' = Append(control, e)
            BY <1>1, <1>4, <3>2, Grown DEF Arriving
        <3> QED
            BY <3>1, <3>2
    <2>2. \A kinds : Has(c, kinds) => Has(c, kinds)'
        <3>1. CASE control' = control
            BY <3>1 DEF Has
        <3>2. CASE control' = Append(control, e)
            BY <1>1, <3>2, Grown
        <3> QED
            BY <3>1, <3>2
    <2> QED
        BY <1>4, <2>1, <2>2, SameStages
<1> QED
    BY <1>2, <1>3, <1>4 DEF Stages

LEMMA GreetStages ==
    ASSUME IInv, Stages, NEW a \in Clients, NEW p \in Panes, Greet(a, p)
    PROVE  Stages'
<1> DEFINE e == Event("hello", a, p)
<1>1. /\ clients' = clients /\ loop' = loop /\ wire' = wire
      /\ link[a] = "greeting" /\ link' = [link EXCEPT ![a] = "open"]
      /\ stage' = [stage EXCEPT ![a] = [Offstage EXCEPT !.pane = p]] /\ Push(e)
    BY DEF Greet, Post, loopVars
<1>2. e \in Events /\ e.kind = "hello" /\ e.of = a /\ e.arg = p
    BY DEF Event, Events
<1> HIDE DEF e
<1>3. /\ link \in [Clients -> {"off", "greeting", "open"}] /\ control \in Seq(Events) /\ Wanted
      /\ stage \in [Clients -> [pane : Panes \union {None}, torn : BOOLEAN, refused : BOOLEAN]]
    BY DEF IInv, TypeOK, Stages, StageType
<1>4. /\ link'[a] = "open" /\ stage'[a] = [pane |-> p, torn |-> FALSE, refused |-> FALSE]
      /\ stage' = [c \in Clients |-> stage'[c]]
      /\ \A c \in Clients : c # a => Same(c)
    BY <1>1, <1>3 DEF Same, Offstage
<1>5. control' = control \/ control' = Append(control, e)
    BY <1>1 DEF Push
<1>6. \A i \in DOMAIN control : ~ (control[i].kind \in Pointing /\ control[i].of = a)
    BY <1>1, <1>3 DEF Wanted
<1>7. Steady(a)'
    <2> SUFFICES ASSUME loop' # "stopped"
                 PROVE  Has(a, Pointing)'
        BY <1>4 DEF Steady
    <2>1. control' = Append(control, e)
        BY <1>1 DEF Push
    <2> QED
        BY <1>2, <1>3, <2>1, Grown DEF Pointing
<1> QED
    BY <1>1, <1>2, <1>4, <1>5, <1>6, <1>7, ClientStages

LEMMA DialStages ==
    ASSUME IInv, Stages, NEW a \in Clients, Dial(a)
    PROVE  Stages'
<1> DEFINE e == Event("connected", a, None)
<1>1. /\ clients' = clients /\ loop' = loop /\ wire' = wire /\ stage' = stage
      /\ ~ Asked(a) /\ link' = [link EXCEPT ![a] = "greeting"] /\ Push(e)
    BY DEF Dial, Post, loopVars
<1>2. e \in Events /\ e.kind = "connected" /\ e.of = a
    BY DEF Event, Events
<1> HIDE DEF e
<1>3. /\ link \in [Clients -> {"off", "greeting", "open"}]
      /\ stage \in [Clients -> [pane : Panes \union {None}, torn : BOOLEAN, refused : BOOLEAN]]
    BY DEF IInv, TypeOK, Stages, StageType
<1>4. /\ link'[a] = "greeting" /\ stage' = [c \in Clients |-> stage'[c]]
      /\ stage'[a] \in [pane : Panes \union {None}, torn : BOOLEAN, refused : BOOLEAN]
      /\ \A c \in Clients : c # a => Same(c)
    BY <1>1, <1>3 DEF Same
<1>5. control' = control \/ control' = Append(control, e)
    BY <1>1 DEF Push
<1>6. \A i \in DOMAIN control : control[i].of # a
    BY <1>1 DEF Asked
<1>7. Steady(a)'
    BY <1>4 DEF Steady
<1> QED
    BY <1>1, <1>2, <1>4, <1>5, <1>6, <1>7, ClientStages DEF Pointing

LEMMA AskStages ==
    ASSUME IInv, Stages, NEW a \in Clients, Ask(a)
    PROVE  Stages'
<1>1. /\ clients' = clients /\ loop' = loop /\ wire' = wire /\ link' = link
      /\ link[a] = "open" /\ ~ Asked(a)
    BY DEF Ask, loopVars
<1>2. /\ control \in Seq(Events) /\ StageType
      /\ stage \in [Clients -> [pane : Panes \union {None}, torn : BOOLEAN, refused : BOOLEAN]]
    BY DEF IInv, TypeOK, Stages, StageType
<1>3. \A i \in DOMAIN control : control[i].of # a
    BY <1>1 DEF Asked
<1>4. ASSUME NEW e \in Events, Push(e), e.of = a, e.kind # "connected"
      PROVE  /\ control' = control \/ control' = Append(control, e)
             /\ loop' # "stopped" => /\ \A kinds : Has(a, kinds) => Has(a, kinds)'
                                     /\ \A kinds : e.kind \in kinds => Has(a, kinds)'
             /\ Arriving(a)' => Arriving(a)
    <2>1. control' = control \/ control' = Append(control, e)
        BY <1>4 DEF Push
    <2>2. loop' # "stopped" => control' = Append(control, e)
        BY <1>1, <1>4 DEF Push
    <2>3. loop' # "stopped" => /\ \A kinds : Has(a, kinds) => Has(a, kinds)'
                              /\ \A kinds : e.kind \in kinds => Has(a, kinds)'
        BY <1>2, <1>4, <2>2, Grown
    <2>4. Arriving(a)' => Arriving(a)
        <3>1. CASE control' = control
            BY <3>1 DEF Arriving
        <3>2. CASE control' = Append(control, e)
            BY <1>2, <1>4, <3>2, Grown DEF Arriving
        <3> QED
            BY <2>1, <3>1, <3>2
    <2> QED
        BY <2>1, <2>3, <2>4
<1>5. ASSUME NEW p \in Panes, Push(Event("watch", a, p)),
             stage' = [stage EXCEPT ![a] = [pane |-> p, torn |-> TRUE, refused |-> FALSE]]
      PROVE  Stages'
    <2> DEFINE e == Event("watch", a, p)
    <2>1. e \in Events /\ e.kind = "watch" /\ e.of = a /\ e.arg = p
        BY DEF Event, Events
    <2>2. Push(e)
        BY <1>5
    <2> HIDE DEF e
    <2>3. /\ stage'[a] = [pane |-> p, torn |-> TRUE, refused |-> FALSE]
          /\ stage' = [c \in Clients |-> stage'[c]] /\ \A c \in Clients : c # a => Same(c)
        BY <1>1, <1>2, <1>5 DEF Same
    <2>4. loop' # "stopped" => Has(a, Pointing)' /\ Has(a, {"watch", "resize"})'
        BY <1>4, <2>1, <2>2 DEF Pointing
    <2>5. Steady(a)'
        BY <2>4 DEF Steady, Mending, Has
    <2>6. control' = control \/ control' = Append(control, e)
        BY <1>4, <2>1, <2>2
    <2>7. /\ stage'[a] \in [pane : Panes \union {None}, torn : BOOLEAN, refused : BOOLEAN]
          /\ link'[a] = "open" /\ e.arg = stage'[a].pane /\ e.kind # "connected"
        BY <1>1, <2>1, <2>3
    <2> HIDE DEF e
    <2> QED
        BY <1>1, <1>3, <2>1, <2>3, <2>5, <2>6, <2>7, ClientStages
<1>6. ASSUME Push(Event("resize", a, None)), stage' = [stage EXCEPT ![a].torn = TRUE]
      PROVE  Stages'
    <2> DEFINE e == Event("resize", a, None)
    <2>1. e \in Events /\ e.kind = "resize" /\ e.of = a
        BY DEF Event, Events
    <2>2. Push(e)
        BY <1>6
    <2> HIDE DEF e
    <2>3. /\ stage'[a] = [stage[a] EXCEPT !.torn = TRUE]
          /\ stage' = [c \in Clients |-> stage'[c]] /\ \A c \in Clients : c # a => Same(c)
        BY <1>1, <1>2, <1>6 DEF Same
    <2>4. /\ stage'[a] \in [pane : Panes \union {None}, torn : BOOLEAN, refused : BOOLEAN]
          /\ stage'[a].pane = stage[a].pane /\ stage'[a].refused = stage[a].refused
        BY <1>2, <2>3
    <2>5. /\ Arriving(a)' => Arriving(a)
          /\ loop' # "stopped" => /\ Has(a, Pointing) => Has(a, Pointing)'
                                  /\ Has(a, {"watch", "resize"})'
        BY <1>4, <2>1, <2>2
    <2>6. Steady(a)'
        <3>1. Steady(a)
            BY DEF Stages
        <3>2. Refused(a) => Refused(a)'
            BY <1>1, <2>4 DEF Refused
        <3>3. loop' # "stopped" => Mending(a)'
            BY <2>5 DEF Mending, Has
        <3> QED
            BY <1>1, <2>4, <2>5, <3>1, <3>2, <3>3 DEF Steady
    <2>7. control' = control \/ control' = Append(control, e)
        BY <1>4, <2>1, <2>2
    <2> QED
        BY <1>1, <1>3, <2>1, <2>3, <2>4, <2>6, <2>7, ClientStages DEF Pointing
<1>7. ASSUME NEW e \in Events, Push(e), e.of = a, e.kind \in {"input", "detach"}, stage' = stage
      PROVE  Stages'
    <2>1. \A c \in Clients : Same(c)
        BY <1>1, <1>7 DEF Same
    <2>2. Arriving(a)' => Arriving(a)
        BY <1>4, <1>7
    <2>3. Steady(a)'
        <3>1. CASE loop' = "stopped"
            BY <3>1 DEF Steady
        <3>2. CASE loop' # "stopped"
            <4>1. \A kinds : Has(a, kinds) => Has(a, kinds)'
                BY <1>4, <1>7, <3>2
            <4> QED
                BY <1>1, <2>1, <2>2, <4>1, SameStages
        <3> QED
            BY <3>1, <3>2
    <2>4. control' = control \/ control' = Append(control, e)
        BY <1>4, <1>7
    <2>5. /\ stage'[a] \in [pane : Panes \union {None}, torn : BOOLEAN, refused : BOOLEAN]
          /\ stage' = [c \in Clients |-> stage'[c]]
        BY <1>2, <1>7
    <2> QED
        BY <1>1, <1>3, <1>7, <2>1, <2>3, <2>4, <2>5, ClientStages DEF Pointing
<1>8. /\ \A what \in {"key", "wheel"} : /\ Event("input", a, what) \in Events
                                        /\ Event("input", a, what).kind = "input"
                                        /\ Event("input", a, what).of = a
      /\ Event("detach", a, None) \in Events /\ Event("detach", a, None).kind = "detach"
      /\ Event("detach", a, None).of = a
    BY DEF Event, Events
<1>9. \/ \E p \in Panes : /\ Push(Event("watch", a, p))
                          /\ stage' = [stage EXCEPT ![a] = [pane |-> p, torn |-> TRUE, refused |-> FALSE]]
      \/ Push(Event("resize", a, None)) /\ stage' = [stage EXCEPT ![a].torn = TRUE]
      \/ /\ stage' = stage
         /\ \/ \E what \in {"key", "wheel"} : Push(Event("input", a, what))
            \/ Push(Event("detach", a, None))
    BY DEF Ask, Post
<1> QED
    BY <1>5, <1>6, <1>7, <1>8, <1>9

LEMMA ReadStages ==
    ASSUME IInv, Stages, NEW a \in Clients, Read(a) \/ HangUp(a) \/ Lose(a)
    PROVE  Stages'
<1> DEFINE w == wire[a]
           m == Head(w)
           e == Event("gone", a, None)
           type == [pane : Panes \union {None}, torn : BOOLEAN, refused : BOOLEAN]
<1>1. /\ clients' = clients /\ loop' = loop
      /\ \/ w # << >> /\ wire' = [wire EXCEPT ![a] = Tail(w)]
         \/ wire' = wire
         \/ wire' = [wire EXCEPT ![a] = << >>]
    BY DEF Read, HangUp, Lose, loopVars
<1>2. /\ link \in [Clients -> {"off", "greeting", "open"}] /\ control \in Seq(Events)
      /\ stage \in [Clients -> type] /\ Offstage \in type /\ wire \in [Clients -> Seq(Messages)]
    BY DEF IInv, TypeOK, Stages, StageType, Offstage
<1>3. e \in Events /\ e.kind = "gone" /\ e.of = a
    BY DEF Event, Events
<1> HIDE DEF w, m, e, type
<1>4. \A c \in Clients : c # a => wire'[c] = wire[c]
    BY <1>1, <1>2
<1>5. CASE Ended(a)
    <2>1. /\ link' = [link EXCEPT ![a] = "off"] /\ stage' = [stage EXCEPT ![a] = Offstage] /\ Push(e)
        BY <1>5 DEF Ended, e
    <2>2. /\ link'[a] = "off" /\ stage'[a] = Offstage /\ stage' = [c \in Clients |-> stage'[c]]
          /\ \A c \in Clients : c # a => Same(c)
        BY <1>1, <1>2, <1>4, <2>1 DEF Same
    <2>3. Steady(a)'
        BY <2>2 DEF Steady
    <2>4. control' = control \/ control' = Append(control, e)
        BY <2>1 DEF Push
    <2>5. stage'[a] \in [pane : Panes \union {None}, torn : BOOLEAN, refused : BOOLEAN]
        BY <1>2, <2>2 DEF type
    <2> QED
        BY <1>1, <1>3, <2>2, <2>3, <2>4, <2>5, ClientStages DEF Pointing
<1>6. CASE ~ Ended(a)
    <2>1. control' = control /\ link' = link
        BY <1>6 DEF Read, HangUp, Lose, clientVars
    <2>2. \/ stage' = stage
          \/ Read(a) /\ m.type = "error" /\ stage' = [stage EXCEPT ![a].refused = TRUE]
          \/ Read(a) /\ m.type = "frame" /\ stage' = [stage EXCEPT ![a] = Mended(stage[a], m)]
        BY <1>2, <1>6 DEF Read, HangUp, Lose, clientVars, m, w
    <2>3. Mended(stage[a], m) = [stage[a] EXCEPT !.torn = stage[a].torn /\ m.base # Unpainted]
        BY DEF Mended
    <2>4. Mended(stage[a], m) \in type
        BY <1>2, <2>3 DEF type
    <2>5. /\ stage' = [c \in Clients |-> stage'[c]] /\ stage'[a] \in type
          /\ \A c \in Clients : c # a => stage'[c] = stage[c]
          /\ stage'[a].pane = stage[a].pane
          /\ stage[a].refused => stage'[a].refused
          /\ stage'[a].torn => stage[a].torn
        <3>1. CASE stage' = stage
            BY <1>2, <3>1
        <3>2. CASE stage' = [stage EXCEPT ![a].refused = TRUE]
            BY <1>2, <3>2 DEF type
        <3>3. CASE stage' = [stage EXCEPT ![a] = Mended(stage[a], m)]
            <4>1. stage'[a] = Mended(stage[a], m)
                BY <1>2, <3>3
            <4>2. /\ Mended(stage[a], m).pane = stage[a].pane
                  /\ Mended(stage[a], m).refused = stage[a].refused
                  /\ Mended(stage[a], m).torn => stage[a].torn
                BY <1>2, <2>3 DEF type
            <4> QED
                BY <1>2, <2>4, <3>3, <4>1, <4>2
        <3> QED
            BY <2>2, <3>1, <3>2, <3>3
    <2>6. \A c \in Clients : c # a => Same(c)
        BY <1>1, <1>4, <2>1, <2>5 DEF Same
    <2>7. Steady(a)'
        <3>1. CASE ~ Read(a)
            <4>1. link[a] = "off" \/ Same(a)
                BY <1>6, <3>1 DEF HangUp, Lose, Same
            <4>2. CASE link[a] = "off"
                BY <2>1, <4>2 DEF Steady
            <4>3. CASE Same(a)
                BY <1>1, <2>1, <4>3, SameStages DEF Arriving, Has
            <4> QED
                BY <4>1, <4>2, <4>3
        <3>2. CASE Read(a)
            <4>1. w # << >> /\ wire'[a] = Tail(w) /\ w \in Seq(Messages) /\ link[a] = "open"
                BY <1>2, <3>2 DEF Read, w
            <4>2. \A i \in DOMAIN w : \/ w[i] = m
                                      \/ \E j \in DOMAIN wire'[a] : wire'[a][j] = w[i]
                <5>1. /\ m = w[1] /\ DOMAIN w = 1 .. Len(w) /\ Len(w) \in Nat \ {0}
                      /\ DOMAIN Tail(w) = 1 .. Len(w) - 1
                      /\ \A i \in DOMAIN Tail(w) : Tail(w)[i] = w[i + 1]
                    BY <4>1, HeadTailProperties DEF m
                <5>2. \A i \in DOMAIN w : i = 1 \/ (i - 1 \in DOMAIN Tail(w) /\ (i - 1) + 1 = i)
                    BY <5>1
                <5> QED
                    BY <4>1, <5>1, <5>2
            <4>3. m.type = "error" => stage'[a].refused
                <5>1. m.type = "error" => stage' = [stage EXCEPT ![a].refused = TRUE]
                    BY <1>6, <3>2 DEF Read, m, w
                <5> QED
                    BY <1>2, <5>1 DEF type
            <4>4. m.type = "frame" /\ m.base = Unpainted => ~ stage'[a].torn
                <5>1. m.type = "frame" => stage' = [stage EXCEPT ![a] = Mended(stage[a], m)]
                    BY <1>2, <1>6, <3>2 DEF Read, m, w
                <5>2. m.base = Unpainted => ~ Mended(stage[a], m).torn
                    BY <1>2, <2>3 DEF type
                <5> QED
                    BY <1>2, <5>1, <5>2
            <4>5. Refused(a) => Refused(a)'
                BY <2>5, <4>2, <4>3 DEF Refused, w
            <4>6. Mending(a) /\ stage'[a].torn => Mending(a)'
                BY <1>1, <2>1, <4>2, <4>4 DEF Mending, w
            <4>7. (Arriving(a)' <=> Arriving(a)) /\ (Has(a, Pointing)' <=> Has(a, Pointing))
                BY <2>1 DEF Arriving, Has
            <4>8. Steady(a)
                BY DEF Stages
            <4> QED
                BY <1>1, <2>1, <2>5, <4>5, <4>6, <4>7, <4>8 DEF Steady
        <3> QED
            BY <3>1, <3>2
    <2>8. \A i \in DOMAIN control : control[i].kind \in Pointing /\ control[i].of = a => link[a] # "greeting"
        BY DEF Stages, Wanted
    <2> QED
        BY <1>1, <1>3, <2>1, <2>5, <2>6, <2>7, <2>8, ClientStages DEF Pointing, type
<1> QED
    BY <1>5, <1>6

LEMMA StagesHold == Spec => []Stages
<1>1. Init => Stages
    <2> SUFFICES ASSUME Init
                 PROVE  Stages
        OBVIOUS
    <2>1. StageType /\ Wanted
        BY DEF Init, StageType, Wanted, Offstage
    <2>2. \A c \in Clients : Steady(c)
        BY DEF Init, Steady
    <2> QED
        BY <2>1, <2>2 DEF Stages
<1>2. IInv /\ Stages /\ [Next]_vars => Stages'
    <2> SUFFICES ASSUME IInv, Stages, [Next]_vars
                 PROVE  Stages'
        OBVIOUS
    <2>1. CASE Turn
        <3>1. Steps /\ control' = control /\ link' = link /\ stage' = stage /\ loop = "drain"
            BY <2>1, TurnKeeps DEF Turn, clientVars
        <3>2. ASSUME NEW c \in Clients, clients'[c].on
              PROVE  clients'[c].pane = clients[c].pane
            <4>1. clients[c] \in ClientType
                BY DEF IInv, TypeOK
            <4>2. clients'[c] \in {Absent, clients[c]} \/ \E l : clients'[c] = [clients[c] EXCEPT !.last = l]
                BY <2>1 DEF Turn, RenderAll
            <4> QED
                BY <3>2, <4>1, <4>2, PanesType DEF ClientType
        <3> QED
            BY <3>1, <3>2, LoopStages
    <2>2. CASE WakeForOutput \/ WakeForFrame \/ Passed
        <3>1. /\ clients' = clients /\ wire' = wire /\ control' = control /\ link' = link /\ stage' = stage
              /\ loop' # "stopped" => loop # "stopped"
            BY <2>2 DEF WakeForOutput, WakeForFrame, Passed, clientVars
        <3>2. Steps
            BY <3>1, AllKept DEF IInv
        <3> QED
            BY <3>1, <3>2, LoopStages
    <2>3. CASE Handle
        BY <2>3, HandleStages
    <2>4. CASE Others \/ \E p \in Panes : Program(p) \/ SendOutput(p)
        BY <2>4, OthersStages
    <2>5. ASSUME NEW c \in Clients, Client(c)
          PROVE  Stages'
        BY <2>5, DialStages, GreetStages, AskStages, ReadStages DEF Client
    <2>6. CASE UNCHANGED vars
        <3>1. /\ clients' = clients /\ wire' = wire /\ control' = control /\ link' = link /\ stage' = stage
              /\ loop' = loop
            BY <2>6 DEF vars, loopVars, clientVars
        <3>2. Steps
            BY <3>1, AllKept DEF IInv
        <3> QED
            BY <3>1, <3>2, LoopStages
    <2>7. CASE Next
        <3>1. \/ Turn \/ WakeForOutput \/ WakeForFrame \/ Passed \/ Handle \/ Others
              \/ \E p \in Panes : Program(p) \/ SendOutput(p)
              \/ \E c \in Clients : Client(c)
            BY <2>7 DEF Next, Loop
        <3> QED
            BY <2>1, <2>2, <2>3, <2>4, <2>5, <3>1
    <2> QED
        BY <2>6, <2>7
<1> QED
    BY <1>1, <1>2, Invariance, PTL DEF Spec

(* Whatever is queued, drawn, lost, asked for or refused: no client ever    *)
(* reads a difference but after what it is a difference to, what a cleared  *)
(* buffer lacks is owed to it unless it was refused the pane it was cleared *)
(* for, and when nothing is left to be drawn or read a client has the cells *)
(* of its pane.                                                             *)
THEOREM ScreensAreRight == Spec => []ShownRight
<1>1. IInv /\ Stages => ShownRight
    <2> SUFFICES ASSUME IInv, Stages
                 PROVE  ShownRight
        OBVIOUS
    <2> USE DEF IInv
    <2>1. DiffsFit
        BY NotGarbled DEF DiffsFit, Whole
    <2>2. TornIsMended
        <3> SUFFICES ASSUME NEW c \in Clients, link[c] = "open", clients[c].on, stage[c].torn
                     PROVE  Mending(c) \/ Refused(c)
            BY DEF TornIsMended
        <3>1. loop # "stopped" /\ Steady(c)
            BY DEF Known, Stages
        <3> QED
            BY <3>1 DEF Steady
    <2>3. ASSUME NEW c \in Clients, Settled(c), Watched(c).open
          PROVE  /\ view[c].screen = Picture(clients[c].pane, Watched(c))
                 /\ stage[c].refused \/ (~ stage[c].torn /\ stage[c].pane = clients[c].pane)
        <3>1. /\ ~ dirty /\ link[c] = "open" /\ clients[c].pane # None /\ wire[c] = << >>
              /\ clients[c] \in ClientType /\ panes \in [Panes -> PaneType]
              /\ loop # "stopped" /\ control = << >>
            BY <2>3 DEF Settled, TypeOK
        <3>2. clients[c].on
            BY <3>1, PanesType DEF Known
        <3>3. clients[c].last = Picture(clients[c].pane, Watched(c))
            BY <2>3, <3>1, <3>2 DEF Drawn, Watching
        <3>4. clients[c].last # Unpainted
            <4>1. clients[c].pane \in Panes /\ Watched(c) \in PaneType
                BY <3>1 DEF ClientType, Watched
            <4> QED
                BY <3>3, <4>1, PictureType DEF PaneType
        <3>5. Fits(view[c].screen, << >>, clients[c].last)
            BY <3>1 DEF Chained
        <3>6. clients[c].last \in {Unpainted, view[c].screen}
            <4>1. Len(<< >>) = 0
                OBVIOUS
            <4> QED
                BY <3>5, <4>1 DEF Fits
        <3>7. \/ Refused(c)
              \/ /\ stage[c].torn => Mending(c)
                 /\ stage[c].pane = clients[c].pane \/ Has(c, Pointing)
            BY <3>1, <3>2 DEF Stages, Steady
        <3>8. ~ Mending(c) /\ ~ Has(c, Pointing) /\ (Refused(c) => stage[c].refused)
            BY <3>1, <3>4 DEF Mending, Has, Refused
        <3> QED
            BY <3>3, <3>4, <3>6, <3>7, <3>8
    <2>4. StageType
        BY DEF Stages
    <2> QED
        BY <2>1, <2>2, <2>3, <2>4 DEF ShownRight, SeenIsDrawn
<1> QED
    BY <1>1, Invariance, StagesHold, PTL

(* A connection the daemon has forgotten, or dropped by stopping, was told  *)
(* so, and it is the last thing it is told.                                 *)
THEOREM NobodyWaitsInSilence == Spec => []ForgottenIsTold
<1>1. IInv => ForgottenIsTold
    <2> SUFFICES ASSUME IInv, NEW c \in Clients
                 PROVE  /\ link[c] = "open" /\ (loop = "stopped" \/ ~ clients[c].on) /\ ~ Arriving(c)
                           => wire[c] # << >> /\ Last(wire[c]).type = "detached"
                        /\ \A i \in DOMAIN wire[c] : wire[c][i].type = "detached" => i = Len(wire[c])
        BY DEF ForgottenIsTold
    <2>1. loop = "stopped" => ~ clients[c].on
        BY DEF IInv, Known
    <2> QED
        BY <2>1 DEF IInv, LastWord, Last
<1> QED
    BY <1>1, Invariance, PTL

(* A client is told that its pane has closed only when it has, and that the *)
(* daemon goes just when it does.                                           *)
THEOREM ReasonsAreTrue == Spec => ReasonIsTrue
<1> DEFINE True ==
        \A c \in Clients : clients[c].on /\ ~ clients'[c].on /\ wire'[c] # wire[c] =>
            LET why == Last(wire'[c]).why IN
            /\ why = "pane closed" =>
                   \E p \in Panes : clients[c].pane = p /\ ~ panes'[p].open /\ loop' # "stopped"
            /\ why = "server shutting down" <=> loop' = "stopped"
<1>1. IInv /\ [Next]_vars => True
    <2> SUFFICES ASSUME IInv, [Next]_vars, NEW c \in Clients,
                        clients[c].on, ~ clients'[c].on, wire'[c] # wire[c]
                 PROVE  Truly(c, Last(wire'[c]).why)
        BY DEF Truly
    <2>1. Steps
        BY StepKeeps
    <2> QED
        BY <2>1, ServerStepTrue DEF IInv, Steps
<1>2. IInv /\ [Next]_vars => [True]_vars
    BY <1>1
<1>3. Spec => [][True]_vars
    BY <1>2, Invariance, PTL DEF Spec
<1> QED
    BY <1>3 DEF ReasonIsTrue
=============================================================================

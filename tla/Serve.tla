------------------------------- MODULE Serve -------------------------------
(***************************************************************************)
(* From a program's output to a client's screen: the event loop of the     *)
(* daemon (crates/butai-server/src/core.rs, run), the threads that read    *)
(* and reap each pane (pane/terminal.rs), and the connections it streams   *)
(* frames to (client_conn.rs).                                             *)
(*                                                                         *)
(* Two channels feed the loop.  `control` is unbounded and always first;   *)
(* `output` is bounded, so a flooding program waits for the loop.  A       *)
(* pane's exit travels on the first and its last words on the second.      *)
(*                                                                         *)
(* A screen is a version number: two screens are equal, cell for cell,     *)
(* exactly when their numbers are.  A frame is the difference between two  *)
(* screens, so it says something only to a client that holds the first.    *)
(***************************************************************************)
EXTENDS Naturals, Sequences, FiniteSets, SequencesExt

CONSTANTS
    Clients,    \* connections; one that ended may be dialled again
    Panes,      \* terminal panes of the one workspace
    Writers,    \* bound: the panes whose programs write and exit
    Kinds,      \* bound: what a chunk of output may do
    Cap,        \* OUTPUT_CHANNEL_CAP
    Budget,     \* OUTPUT_DRAIN_BYTES, in chunks
    Screens,    \* bound: a screen is a number below this one
    MaxControl, \* bound: control events queued at once
    MaxWire     \* bound: messages a client leaves unread

None == "none"

ASSUME ServeAssumption ==
    /\ Cap \in Nat \ {0} /\ Budget \in Nat \ {0} /\ Screens \in Nat \ {0}
    /\ MaxControl \in Nat /\ MaxWire \in Nat
    /\ Writers \subseteq Panes /\ None \notin Panes
    /\ Kinds \subseteq {"draw", "caret", "mouse"}

VARIABLES
    child,      \* the program in each pane is running
    hand,       \* its reader thread has read a chunk it has not yet sent
    output,     \* the bounded channel: whose chunks are queued
    control,    \* the control channel
    loop,       \* where the event loop is
    early,      \* the frame interval has not passed since the last frame
    dirty,      \* ServerCore::dirty
    panes,      \* ServerCore::panes
    clients,    \* ServerCore::clients
    link,       \* what each client process is doing
    wire,       \* messages sent to each client and not yet read
    view,       \* what the frames each client has read add up to
    stage       \* the client's Stage: the pane it wants, what it has of the view

programVars == <<child, hand, output>>
loopVars == <<loop, early>>
clientVars == <<link, view, stage>>
vars == <<programVars, control, loopVars, dirty, panes, clients, wire, clientVars>>

-----------------------------------------------------------------------------
Unpainted == << >>      \* no screen at all
Gone == [open |-> FALSE, dead |-> FALSE, screen |-> 0, caret |-> FALSE,
         mouse |-> FALSE, back |-> FALSE]
NewPane == [Gone EXCEPT !.open = TRUE, !.caret = TRUE]

Absent == [on |-> FALSE, pane |-> None, last |-> Unpainted]
Fresh == [Absent EXCEPT !.on = TRUE]

(* A view that was never painted, and one painted with the wrong diff.      *)
Blank == [screen |-> Unpainted, caret |-> FALSE, mouse |-> FALSE]
Garbled == <<"garbled">>

(* The buffer of a client is its view until it is cleared for another pane  *)
(* or replaced for another size.  From then to the next full frame it is    *)
(* torn: it has no more of the view than what was sent since.  refused says *)
(* that the client has shown an error since it last changed the pane.       *)
Offstage == [pane |-> None, torn |-> FALSE, refused |-> FALSE]

Least(a, b) == IF a <= b THEN a ELSE b

(* TermEmulator::render_into and cursor: scrollback is one more screen, and *)
(* the caret is not shown there or on a program that has exited.            *)
Picture(p, s) == <<p, IF s.back THEN Screens ELSE s.screen>>
Caret(s) == s.caret /\ ~ s.dead /\ ~ s.back

(* feed_output of some chunks, as far as a client can see it: n[kind] of     *)
(* them move the screen to another one, hide or show the caret, and take or *)
(* give back the mouse.                                                     *)
Fed(s, n) ==
    [s EXCEPT !.screen = (@ + n["draw"]) % Screens,
              !.caret = (@ # (n["caret"] % 2 = 1)),
              !.mouse = (@ # (n["mouse"] % 2 = 1))]

Hello == [type |-> "hello"]
Error == [type |-> "error"]
Detached(reason) == [type |-> "detached", why |-> reason]
Frame(base, shown, caret, mouse) ==
    [type |-> "frame", base |-> base, screen |-> shown, caret |-> caret, mouse |-> mouse]

(* detach: the client is forgotten, and told why.                           *)
DetachAll(cs, reason) ==
    /\ clients' = [c \in Clients |-> IF c \in cs THEN Absent ELSE clients[c]]
    /\ wire' = [c \in Clients |-> IF c \in cs /\ clients[c].on
                                  THEN Append(wire[c], Detached(reason)) ELSE wire[c]]

Send(c, m) == wire' = [wire EXCEPT ![c] = IF clients[c].on THEN Append(@, m) ELSE @]

-----------------------------------------------------------------------------
(* on_pty_output for a batch, whose chunks have the given effects: a pane   *)
(* that is gone swallows its own.                                           *)
Chunks(batch, kinds, p) ==
    [kind \in {"draw", "caret", "mouse"} |->
        Cardinality({i \in DOMAIN batch : batch[i] = p /\ kinds[i] = kind})]
FedAll(batch, kinds) ==
    [p \in Panes |-> IF panes[p].open THEN Fed(panes[p], Chunks(batch, kinds, p)) ELSE panes[p]]
Touched(batch) == \E i \in DOMAIN batch : panes[batch[i]].open

(* render_pane_client: the difference to the last frame is sent if it has   *)
(* cells or a caret, and what was drawn becomes the last frame either way.  *)
(* A client whose pane is gone is detached instead.                         *)
Watching == {c \in Clients : clients[c].on /\ clients[c].pane # None}
Damage(last, p, s) ==
    IF last = Picture(p, s) /\ ~ Caret(s) THEN << >>
    ELSE << Frame(last, Picture(p, s), Caret(s), s.mouse) >>

(* render_all, of the panes ps.                                             *)
RenderAll(ps) ==
    LET closed == {c \in Watching : ~ ps[clients[c].pane].open}
        shown(c) == Picture(clients[c].pane, ps[clients[c].pane])
    IN
    /\ wire' = [c \in Clients |->
           IF c \in closed THEN Append(wire[c], Detached("pane closed"))
           ELSE IF c \in Watching
                THEN wire[c] \o Damage(clients[c].last, clients[c].pane, ps[clients[c].pane])
                ELSE wire[c]]
    /\ clients' = [c \in Clients |->
           IF c \in closed THEN Absent
           ELSE IF c \in Watching THEN [clients[c] EXCEPT !.last = shown(c)] ELSE clients[c]]

(* One turn of run, once no control event is left: drain_ready takes a      *)
(* budget of output, and what is dirty is drawn, at most once per frame     *)
(* interval.  When the budget was used up, more is assumed to be queued and *)
(* the loop waits for the frame clock and control events only.              *)
Turn == \E kinds \in [1 .. Least(Len(output), Budget) -> Kinds] :
    LET n == Least(Len(output), Budget)
        batch == SubSeq(output, 1, n)
        changed == dirty \/ Touched(batch)
    IN
    /\ loop = "drain" /\ control = << >>
    /\ \A c \in Clients : Len(wire[c]) < MaxWire
    /\ panes' = FedAll(batch, kinds)
    /\ output' = SubSeq(output, n + 1, Len(output))
    /\ IF changed /\ ~ early
       THEN RenderAll(FedAll(batch, kinds)) /\ dirty' = FALSE /\ early' = TRUE
       ELSE dirty' = changed /\ UNCHANGED <<clients, wire, early>>
    /\ loop' = IF n = Budget THEN "paced" ELSE "idle"
    /\ UNCHANGED <<child, hand, control, clientVars>>

(* The wait for something to do: control first, then output, then the       *)
(* deadline of a frame.                                                     *)
WakeForOutput ==
    /\ loop = "idle" /\ control = << >> /\ output # << >>
    /\ \E kind \in Kinds : panes' = FedAll(<<Head(output)>>, <<kind>>)
    /\ dirty' = (dirty \/ Touched(<<Head(output)>>))
    /\ output' = Tail(output)
    /\ loop' = "drain"
    /\ UNCHANGED <<child, hand, control, early, clients, wire, clientVars>>

WakeForFrame ==
    /\ (loop = "idle" /\ dirty /\ output = << >>) \/ loop = "paced"
    /\ control = << >> /\ ~ early
    /\ loop' = "drain"
    /\ UNCHANGED <<programVars, control, early, dirty, panes, clients, wire, clientVars>>

(* The frame interval passes.                                               *)
Passed == early /\ early' = FALSE
          /\ UNCHANGED <<programVars, control, loop, dirty, panes, clients, wire, clientVars>>

-----------------------------------------------------------------------------
(* Control events.                                                          *)
Connected(c) ==
    /\ clients' = [clients EXCEPT ![c] = Fresh]
    /\ UNCHANGED <<panes, wire, dirty>>

(* Plausible bug: a refused client is forgotten and told an error only.     *)
RefuseOnly(c, p) ==
    /\ clients' = [clients EXCEPT ![c] = IF panes[p].open /\ @.on
                       THEN [@ EXCEPT !.pane = p, !.last = Unpainted] ELSE Absent]
    /\ Send(c, IF panes[p].open THEN Hello ELSE Error)
    /\ dirty' = TRUE
    /\ UNCHANGED panes

(* attach_client with a pane for its target.                                *)
Attach(c, p) ==
    IF panes[p].open
    THEN /\ clients' = [clients EXCEPT ![c] = IF @.on THEN [@ EXCEPT !.pane = p, !.last = Unpainted] ELSE @]
         /\ Send(c, Hello)
         /\ dirty' = TRUE
         /\ UNCHANGED <<panes>>
    ELSE /\ clients' = [clients EXCEPT ![c] = Absent]
         /\ wire' = [wire EXCEPT ![c] = IF clients[c].on
                         THEN @ \o <<Error, Detached("no such pane")>> ELSE @]
         /\ UNCHANGED <<panes, dirty>>

(* Plausible bug: the other pane is drawn as a difference to the first.     *)
WatchOnly(c, p) ==
    \/ /\ clients[c].on /\ clients[c].pane # None /\ panes[p].open
       /\ clients' = [clients EXCEPT ![c].pane = p]
       /\ dirty' = TRUE
       /\ UNCHANGED <<wire, panes>>
    \/ /\ clients[c].on /\ (clients[c].pane = None \/ ~ panes[p].open)
       /\ Send(c, Error)
       /\ UNCHANGED <<clients, dirty, panes>>
    \/ /\ ~ clients[c].on
       /\ UNCHANGED <<clients, wire, dirty, panes>>

(* watch_pane: a refusal leaves the pane that is streaming.                 *)
Watch(c, p) ==
    \/ /\ clients[c].on /\ clients[c].pane # None /\ panes[p].open
       /\ clients' = [clients EXCEPT ![c].pane = p, ![c].last = Unpainted]
       /\ dirty' = TRUE
       /\ UNCHANGED <<wire, panes>>
    \/ /\ clients[c].on /\ (clients[c].pane = None \/ ~ panes[p].open)
       /\ Send(c, Error)
       /\ UNCHANGED <<clients, dirty, panes>>
    \/ /\ ~ clients[c].on
       /\ UNCHANGED <<clients, wire, dirty, panes>>

(* resize_client: the next frame is a full one.                             *)
Resize(c) ==
    /\ clients' = [clients EXCEPT ![c].last = Unpainted]
    /\ dirty' = (dirty \/ clients[c].on)
    /\ UNCHANGED <<wire, panes>>

(* route_pane_input: a key returns the view to the live screen, a wheel     *)
(* moves it unless the program has taken the mouse.                         *)
Input(c, what) ==
    LET p == clients[c].pane IN
    \/ /\ p = None
       /\ Send(c, Error)
       /\ UNCHANGED <<clients, dirty, panes>>
    \/ /\ p # None /\ ~ panes[p].open
       /\ DetachAll({c}, "pane closed")
       /\ UNCHANGED <<dirty, panes>>
    \/ /\ p # None /\ panes[p].open
       /\ panes' = [panes EXCEPT ![p].back = (what = "wheel" /\ (panes[p].mouse => @))]
       /\ dirty' = TRUE
       /\ UNCHANGED <<clients, wire>>

(* on_pane_exited: a program that failed stays to be read, one that ended   *)
(* well or a shell is dropped with its pane.                                *)
Exited(p, corpse) ==
    /\ panes' = [panes EXCEPT ![p] = IF ~ @.open THEN @
                                     ELSE IF corpse = "stays" THEN [@ EXCEPT !.dead = TRUE] ELSE Gone]
    /\ dirty' = TRUE
    /\ UNCHANGED <<clients, wire>>

(* KillPane over the API.                                                   *)
Close(p) ==
    /\ panes' = [panes EXCEPT ![p] = Gone]
    /\ dirty' = (dirty \/ panes[p].open)
    /\ UNCHANGED <<clients, wire>>

(* Plausible bug: the panes are torn down first, and their clients with     *)
(* them.                                                                    *)
PanesFirst ==
    /\ DetachAll(Clients, "pane closed")
    /\ panes' = [p \in Panes |-> Gone]
    /\ UNCHANGED dirty

(* kill_server: clients first, then the panes.                              *)
KillServer ==
    /\ DetachAll(Clients, "server shutting down")
    /\ panes' = [p \in Panes |-> Gone]
    /\ UNCHANGED dirty

(* handle.                                                                  *)
Served(e) ==
    CASE e.kind = "connected" -> Connected(e.of)
      [] e.kind = "hello"     -> Attach(e.of, e.arg)
      [] e.kind = "watch"     -> Watch(e.of, e.arg)
      [] e.kind = "resize"    -> Resize(e.of)
      [] e.kind = "input"     -> Input(e.of, e.arg)
      [] e.kind = "detach"    -> DetachAll({e.of}, "detached") /\ UNCHANGED <<panes, dirty>>
      [] e.kind = "gone"      -> /\ clients' = [clients EXCEPT ![e.of] = Absent]
                                 /\ UNCHANGED <<wire, panes, dirty>>
      [] e.kind = "exited"    -> Exited(e.of, e.arg)
      [] e.kind = "close"     -> Close(e.of)
      [] e.kind = "tick"      -> dirty' = TRUE /\ UNCHANGED <<clients, wire, panes>>
      [] e.kind = "kill"      -> KillServer
      [] OTHER                -> UNCHANGED <<clients, wire, panes, dirty>>

(* Plausible bug: output is worked off before a control event is looked at. *)
HandleLast ==
    /\ loop # "stopped" /\ control # << >> /\ output = << >>
    /\ Served(Head(control))
    /\ loop' = IF Head(control).kind = "kill" THEN "stopped" ELSE "drain"
    /\ control' = Tail(control)
    /\ UNCHANGED <<programVars, early, clientVars>>

Handle ==
    /\ loop # "stopped" /\ control # << >>
    /\ Served(Head(control))
    /\ loop' = IF Head(control).kind = "kill" THEN "stopped" ELSE "drain"
    /\ control' = Tail(control)
    /\ UNCHANGED <<programVars, early, clientVars>>

(* Plausible bug: the reader's thread ends with the child.                  *)
EndsWithChild(p) ==
    /\ hand[p] /\ child[p] /\ Len(output) < Cap
    /\ output' = Append(output, p)
    /\ hand' = [hand EXCEPT ![p] = FALSE]
    /\ UNCHANGED <<child, control, loopVars, dirty, panes, clients, wire, clientVars>>

-----------------------------------------------------------------------------
(* The programs and the two threads of each pane.  The reader blocks on a   *)
(* full channel; the waiter tells of the exit as soon as it sees it, which  *)
(* may be before the reader has sent the last output.                       *)
Write(p) ==
    /\ p \in Writers /\ panes[p].open /\ child[p] /\ ~ hand[p]
    /\ hand' = [hand EXCEPT ![p] = TRUE]
    /\ UNCHANGED <<child, output, control, loopVars, dirty, panes, clients, wire, clientVars>>

SendOutput(p) ==
    /\ hand[p] /\ Len(output) < Cap
    /\ output' = Append(output, p)
    /\ hand' = [hand EXCEPT ![p] = FALSE]
    /\ UNCHANGED <<child, control, loopVars, dirty, panes, clients, wire, clientVars>>

Event(kind, of, arg) == [kind |-> kind, of |-> of, arg |-> arg]
Push(e) == control' = IF loop = "stopped" THEN control ELSE Append(control, e)
Post(e) == Len(control) < MaxControl /\ Push(e)

Exit(p, corpse) ==
    /\ p \in Writers /\ child[p] /\ loop # "stopped"
    /\ child' = [child EXCEPT ![p] = FALSE]
    /\ Post(Event("exited", p, corpse))
    /\ UNCHANGED <<hand, output, loopVars, dirty, panes, clients, wire, clientVars>>

-----------------------------------------------------------------------------
(* The clients (handle_connection on the daemon's side of the socket).      *)
Asked(c) == \E i \in DOMAIN control : control[i].of = c

Dial(c) ==
    /\ link[c] = "off" /\ ~ Asked(c) /\ ~ clients[c].on /\ wire[c] = << >>
    /\ loop # "stopped"
    /\ Post(Event("connected", c, None))
    /\ link' = [link EXCEPT ![c] = "greeting"]
    /\ UNCHANGED <<programVars, loopVars, dirty, panes, clients, wire, view, stage>>

Greet(c, p) ==
    /\ link[c] = "greeting"
    /\ Post(Event("hello", c, p))
    /\ link' = [link EXCEPT ![c] = "open"]
    /\ stage' = [stage EXCEPT ![c] = [Offstage EXCEPT !.pane = p]]
    /\ UNCHANGED <<programVars, loopVars, dirty, panes, clients, wire, view>>

(* A client asks for one thing at a time.  Stage::watch and Stage::resize   *)
(* clear the buffer as they ask, whatever is still to be read or refused.   *)
Ask(c) ==
    /\ link[c] = "open" /\ ~ Asked(c) /\ Len(wire[c]) < MaxWire
    /\ \/ \E p \in Panes \ {stage[c].pane} :
              /\ Post(Event("watch", c, p))
              /\ stage' = [stage EXCEPT ![c] = [pane |-> p, torn |-> TRUE, refused |-> FALSE]]
              /\ view' = [view EXCEPT ![c].caret = FALSE]
       \/ /\ Post(Event("resize", c, None))
          /\ stage' = [stage EXCEPT ![c].torn = TRUE]
          /\ UNCHANGED view
       \/ /\ \/ \E what \in {"key", "wheel"} : Post(Event("input", c, what))
             \/ Post(Event("detach", c, None))
          /\ UNCHANGED <<view, stage>>
    /\ UNCHANGED <<programVars, loopVars, dirty, panes, clients, wire, link>>

(* apply_frame: a full frame starts the buffer again, a diff is drawn over  *)
(* whatever is in it.                                                       *)
Painted(v, m) ==
    [screen |-> IF m.base \in {Unpainted, v.screen} THEN m.screen ELSE Garbled,
     caret |-> m.caret, mouse |-> m.mouse]
Mended(b, m) == [b EXCEPT !.torn = @ /\ m.base # Unpainted]

Ended(c) ==
    /\ link' = [link EXCEPT ![c] = "off"]
    /\ view' = [view EXCEPT ![c] = Blank]
    /\ stage' = [stage EXCEPT ![c] = Offstage]
    /\ Push(Event("gone", c, None))

Read(c) ==
    /\ link[c] = "open" /\ wire[c] # << >>
    /\ wire' = [wire EXCEPT ![c] = Tail(@)]
    /\ LET m == Head(wire[c]) IN
       \/ /\ m.type = "frame"
          /\ view' = [view EXCEPT ![c] = Painted(@, m)]
          /\ stage' = [stage EXCEPT ![c] = Mended(@, m)]
          /\ UNCHANGED <<link, control>>
       \/ /\ m.type = "error"
          /\ stage' = [stage EXCEPT ![c].refused = TRUE]
          /\ UNCHANGED <<link, view, control>>
       \/ m.type = "hello" /\ UNCHANGED <<clientVars, control>>
       \/ m.type = "detached" /\ Ended(c)
    /\ UNCHANGED <<programVars, loopVars, dirty, panes, clients>>

(* The client closes the socket, at any time.                               *)
HangUp(c) ==
    /\ link[c] = "open" /\ loop # "stopped"
    /\ Ended(c)
    /\ UNCHANGED <<programVars, loopVars, dirty, panes, clients, wire>>

(* What is sent to a socket that was closed is lost with its writer.        *)
Lose(c) ==
    /\ link[c] = "off" /\ wire[c] # << >>
    /\ wire' = [wire EXCEPT ![c] = << >>]
    /\ UNCHANGED <<programVars, control, loopVars, dirty, panes, clients, clientVars>>

(* The sampler's tick, a pane closed over the API, kill-server.             *)
Others ==
    /\ loop # "stopped"
    /\ \A i \in DOMAIN control : control[i].kind \notin {"tick", "close", "kill"}
    /\ \/ Post(Event("tick", None, None))
       \/ Post(Event("kill", None, None))
       \/ \E p \in Panes : panes[p].open /\ Post(Event("close", p, None))
    /\ UNCHANGED <<programVars, loopVars, dirty, panes, clients, wire, clientVars>>

-----------------------------------------------------------------------------
Init ==
    /\ child = [p \in Panes |-> TRUE] /\ hand = [p \in Panes |-> FALSE]
    /\ output = << >> /\ control = << >>
    /\ loop = "drain" /\ early = FALSE /\ dirty = FALSE
    /\ panes = [p \in Panes |-> NewPane]
    /\ clients = [c \in Clients |-> Absent]
    /\ link = [c \in Clients |-> "off"]
    /\ wire = [c \in Clients |-> << >>]
    /\ view = [c \in Clients |-> Blank]
    /\ stage = [c \in Clients |-> Offstage]

Loop == Turn \/ WakeForOutput \/ WakeForFrame \/ Handle
Program(p) ==
    \/ Write(p)
    \/ \E corpse \in {"stays", "goes"} : Exit(p, corpse)
Client(c) ==
    \/ Dial(c) \/ \E p \in Panes : Greet(c, p)
    \/ Ask(c) \/ Read(c) \/ HangUp(c) \/ Lose(c)

Next ==
    \/ Loop \/ Passed \/ Others
    \/ \E p \in Panes : Program(p) \/ SendOutput(p)
    \/ \E c \in Clients : Client(c)

Spec == Init /\ [][Next]_vars

(* The loop and the clock run, and control events are handled faster than   *)
(* they arrive, so that a drain comes to its end: Turn is strongly fair.  A *)
(* reader that waits for room in the channel is let in in turn (tokio's     *)
(* semaphore is fair), so sending is strongly fair.  A client that keeps    *)
(* its connection reads what it is sent; nothing makes a program write or a *)
(* client ask.                                                              *)
FairSpec ==
    /\ Spec /\ WF_vars(Loop) /\ SF_vars(Turn) /\ WF_vars(Passed)
    /\ \A p \in Writers : SF_vars(SendOutput(p))
    /\ \A c \in Clients : WF_vars(Read(c)) /\ WF_vars(Lose(c))

-----------------------------------------------------------------------------
Pictures == {Unpainted} \union (Panes \X (0 .. Screens))
PaneType == [open : BOOLEAN, dead : BOOLEAN, screen : 0 .. Screens - 1,
             caret : BOOLEAN, mouse : BOOLEAN, back : BOOLEAN]
ClientType == [on : BOOLEAN, pane : Panes \union {None}, last : Pictures]
Reasons == {"no such pane", "pane closed", "detached", "server shutting down"}
Messages ==
    {Hello, Error} \union [type : {"detached"}, why : Reasons]
    \union [type : {"frame"}, base : Pictures, screen : Pictures, caret : BOOLEAN, mouse : BOOLEAN]
Events ==
    [kind : {"connected", "resize", "detach", "gone"}, of : Clients, arg : {None}]
    \union [kind : {"hello", "watch"}, of : Clients, arg : Panes]
    \union [kind : {"input"}, of : Clients, arg : {"key", "wheel"}]
    \union [kind : {"exited"}, of : Panes, arg : {"stays", "goes"}]
    \union [kind : {"close"}, of : Panes, arg : {None}]
    \union [kind : {"tick", "kill"}, of : {None}, arg : {None}]

(* The state is well typed: no message, frame or event but the ones the     *)
(* code can produce, and the output channel within its capacity.            *)
TypeOK ==
    /\ child \in [Panes -> BOOLEAN] /\ hand \in [Panes -> BOOLEAN]
    /\ output \in Seq(Panes) /\ Len(output) <= Cap
    /\ control \in Seq(Events)
    /\ loop \in {"drain", "idle", "paced", "stopped"} /\ early \in BOOLEAN /\ dirty \in BOOLEAN
    /\ panes \in [Panes -> PaneType] /\ clients \in [Clients -> ClientType]
    /\ link \in [Clients -> {"off", "greeting", "open"}]
    /\ wire \in [Clients -> Seq(Messages)]
    /\ view \in [Clients -> [screen : Pictures \union {Garbled}, caret : BOOLEAN, mouse : BOOLEAN]]

StageType == stage \in [Clients -> [pane : Panes \union {None}, torn : BOOLEAN, refused : BOOLEAN]]

(* Every frame that is a difference is read after the frames it is a        *)
(* difference to, through any watches, resizes, frames that were not worth  *)
(* sending and messages still unread: nobody's view is garbled.             *)
DiffsFit == \A c \in Clients : view[c].screen # Garbled

(* A client whose buffer is torn is owed a full frame: its request is on    *)
(* the way, the daemon has none as the base of the next frame, or that      *)
(* frame is to be read.  Or it was refused the pane it cleared the buffer   *)
(* for, and told so.                                                        *)
Mending(c) ==
    \/ \E i \in DOMAIN control : control[i].of = c /\ control[i].kind \in {"watch", "resize"}
    \/ clients[c].last = Unpainted
    \/ \E i \in DOMAIN wire[c] : wire[c][i].type = "frame" /\ wire[c][i].base = Unpainted
Refused(c) == stage[c].refused \/ \E i \in DOMAIN wire[c] : wire[c][i].type = "error"
TornIsMended ==
    \A c \in Clients :
        link[c] = "open" /\ clients[c].on /\ stage[c].torn => Mending(c) \/ Refused(c)

(* Nothing is left to be drawn for c, nor to be read by it.                 *)
Settled(c) ==
    /\ loop = "idle" /\ ~ dirty /\ control = << >>
    /\ link[c] = "open" /\ clients[c].pane # None /\ wire[c] = << >>
Watched(c) == panes[clients[c].pane]

(* When the daemon has nothing left to draw, what a client has read is what *)
(* its pane has: no change to a screen, to the place it is scrolled to or   *)
(* to the pane watched is ever forgotten.  Unless it was refused one, its   *)
(* buffer has all of it and it is the pane the client wants.                *)
SeenIsDrawn ==
    \A c \in Clients : Settled(c) /\ Watched(c).open =>
        /\ view[c].screen = Picture(clients[c].pane, Watched(c))
        /\ stage[c].refused \/ (~ stage[c].torn /\ stage[c].pane = clients[c].pane)

(* What a client has read is always a screen the daemon drew for it, what   *)
(* its buffer lacks of it is on the way, and as soon as nothing is left to  *)
(* be done it shows the present screen of the pane it wants.                *)
ShownRight == TypeOK /\ StageType /\ DiffsFit /\ TornIsMended /\ SeenIsDrawn

(* docs/protocol.md: a watch that is refused "keeps streaming whatever it   *)
(* was streaming".  The daemon does; the buffer was cleared for the pane    *)
(* that was refused, and diffs are all that follows.                        *)
RefusalKeepsPicture ==
    \A c \in Clients : Settled(c) /\ Watched(c).open => ~ stage[c].torn

(* docs/protocol.md: the caret of a frame is "null when hidden - also null  *)
(* for a pane scrolled back and for a command that has exited": a client    *)
(* that has read everything shows a caret just when the pane has one.  The  *)
(* code sends no frame whose only news is that the caret has gone.          *)
CaretIsShown == \A c \in Clients : Settled(c) => view[c].caret = Caret(Watched(c))

(* docs/protocol.md: "a slow client just sees fewer, larger diffs - never a *)
(* backlog of stale output".  The code draws for a client whether or not it *)
(* has read the last frame.                                                 *)
NoBacklog ==
    \A c \in Clients : Cardinality({i \in DOMAIN wire[c] : wire[c][i].type = "frame"}) <= 1

(* A connection the daemon has forgotten, or dropped by stopping, was told  *)
(* so, and nothing follows what it was told: no client waits in silence for *)
(* frames that will not come.                                               *)
Arriving(c) == \E i \in DOMAIN control : control[i].kind = "connected" /\ control[i].of = c
ForgottenIsTold ==
    \A c \in Clients :
        /\ link[c] = "open" /\ (loop = "stopped" \/ ~ clients[c].on) /\ ~ Arriving(c)
           => wire[c] # << >> /\ Last(wire[c]).type = "detached"
        /\ \A i \in DOMAIN wire[c] : wire[c][i].type = "detached" => i = Len(wire[c])

(* The reason tells a pane that has gone from a daemon that is going: a     *)
(* client is never told the first while its pane is open, and a daemon that *)
(* stops tells nobody but the second.                                       *)
ReasonIsTrue ==
    [][\A c \in Clients : clients[c].on /\ ~ clients'[c].on /\ wire'[c] # wire[c] =>
        LET why == Last(wire'[c]).why IN
        /\ why = "pane closed" =>
               \E p \in Panes : clients[c].pane = p /\ ~ panes'[p].open /\ loop' # "stopped"
        /\ why = "server shutting down" <=> loop' = "stopped"]_vars

(* What a client asks for is handled however much a program writes: the     *)
(* loop never gets lost in output.                                          *)
ControlIsServed == \A c \in Clients : []<>(~ Asked(c) \/ loop = "stopped")

(* The last words of a program that failed reach its pane, although the     *)
(* news of its exit may have overtaken them and other panes keep writing.   *)
Unsaid(p) == hand[p] \/ \E i \in DOMAIN output : output[i] = p
LastWordsAreKept ==
    \A p \in Writers : []<>(panes[p].open /\ panes[p].dead => ~ Unsaid(p))

(* A client whose pane was closed is not left watching nothing.             *)
Bereft(c) == clients[c].pane # None /\ ~ Watched(c).open
ClosedIsTold == \A c \in Clients : []<>~ Bereft(c)

(* The end of a pane reaches those it concerns, however busy the loop is.   *)
EndIsHeard == LastWordsAreKept /\ ClosedIsTold
=============================================================================

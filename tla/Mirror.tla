------------------------------- MODULE Mirror -------------------------------
(***************************************************************************)
(* What a client knows of a daemon: the event stream on both sides.        *)
(* The daemon's half is core.rs (broadcast_api, broadcast_ws_details, the  *)
(* ApiSubscribe and SysTick events); the client's is crates/butai-client/  *)
(* src/daemon.rs (State, prime, the stream task).                          *)
(*                                                                         *)
(* One client is followed.  Everybody else in api_subs is one value: other *)
(* clients, and what is left of a stream of this client that the daemon    *)
(* has not seen die, either still open or with its receiver gone.          *)
(***************************************************************************)
EXTENDS Naturals, Sequences, FiniteSets, SequencesExt

CONSTANTS
    N,                                  \* workspaces: ids count from 1
    Rails,                              \* contents of a rail
    NoRail,                             \* none known, none sent
    MaxChanges, MaxDrops, MaxInbox      \* bounds

ASSUME MirrorAssumption ==
    /\ NoRail \notin Rails /\ Rails # {}
    /\ N \in Nat /\ MaxChanges \in Nat /\ MaxDrops \in Nat /\ MaxInbox \in Nat

VARIABLES
    order, rail,        \* the workspaces there are, and what their rails hold
    next,               \* next_id: the last id given
    redraw,             \* Core::dirty
    last,               \* last_detail
    others,             \* senders of api_subs but ours: "none", "open", "closed"
    link,               \* our stream: "down", "dialled", "up" (in api_subs)
    said,               \* what was last said of a workspace on this stream
    inbox,              \* events on their way to Daemon::next_event
    tabs, detail,       \* State: what the client shows
    phase,              \* prime: "list", "details", "no"
    listed, todo,       \* prime: the list it got, and what is left to ask for
    changes, drops      \* how often: bounds

Ids == 1 .. N
daemonVars == <<order, rail, next, redraw, last, others>>
streamVars == <<link, said, inbox>>
primeVars == <<phase, listed, todo>>
stateVars == <<tabs, detail>>
boundVars == <<changes, drops>>
mirrorVars == <<daemonVars, streamVars, primeVars, stateVars, boundVars>>

Nothing == [w \in Ids |-> NoRail]
List(S) == [kind |-> "list", ws |-> S]
Detail(w, r) == [kind |-> "detail", ws |-> w, rail |-> r]
Opened == [kind |-> "connected"]
Lost == [kind |-> "lost"]
IsApi(e) == e.kind \in {"list", "detail"}

(* The client has begun: the stream task runs, and the workbench primes.    *)
MirrorInit ==
    /\ next \in 0 .. N /\ order = 1 .. next /\ redraw = TRUE
    /\ rail = [w \in Ids |-> CHOOSE r \in Rails : TRUE]
    /\ last = Nothing /\ others \in {"none", "open"}
    /\ link = "down" /\ said = Nothing /\ inbox = << >>
    /\ tabs = {} /\ detail = Nothing
    /\ phase = "list" /\ listed = {} /\ todo = {}
    /\ changes = 0 /\ drops = 0

-----------------------------------------------------------------------------
(* broadcast_api: every sender whose receiver is gone is forgotten.         *)
Broadcast(events) ==
    /\ others' = IF events # << >> /\ others = "closed" THEN "none" ELSE others
    /\ inbox' = IF link = "up" THEN inbox \o events ELSE inbox

(* A rail changes: most changes ask for a frame, the rest wait for a tick.  *)
Change(w) ==
    /\ w \in order /\ changes < MaxChanges
    /\ \E r \in Rails \ {rail[w]} : rail' = [rail EXCEPT ![w] = r]
    /\ redraw' \in {redraw, TRUE} /\ changes' = changes + 1
    /\ UNCHANGED <<order, next, last, others, streamVars, primeVars, stateVars, drops>>

(* new_workspace_resolved tells every client at once; the API does when it  *)
(* kills one, a pane that exits or a key does not.                          *)
Create ==
    /\ next < N /\ changes < MaxChanges
    /\ next' = next + 1 /\ order' = order \union {next'} /\ changes' = changes + 1
    /\ Broadcast(<<List(order')>>)
    /\ redraw' = TRUE
    /\ UNCHANGED <<rail, last, link, said, primeVars, stateVars, drops>>

Kill(w) ==
    /\ w \in order /\ changes < MaxChanges
    /\ order' = order \ {w} /\ changes' = changes + 1
    /\ \E told \in BOOLEAN : Broadcast(IF told THEN <<List(order')>> ELSE << >>)
    /\ redraw' = TRUE
    /\ UNCHANGED <<rail, next, last, link, said, primeVars, stateVars, drops>>

Room == Len(inbox) < MaxInbox
Subscribed == link = "up" \/ others # "none"

(* SysTick.                                                                 *)
SysTick ==
    /\ Room /\ redraw' = TRUE
    /\ Broadcast(IF Subscribed THEN <<List(order)>> ELSE << >>)
    /\ UNCHANGED <<order, rail, next, last, link, said, primeVars, stateVars, boundVars>>

(* Plausible bug: what was sent is sent again.                              *)
UnsaidAll == IF Subscribed THEN order ELSE {}

(* broadcast_ws_details: the workspaces whose rail is not what is           *)
(* remembered of it.                                                        *)
Unsaid == IF Subscribed THEN {w \in order : last[w] # rail[w]} ELSE {}
Remembered == [w \in Ids |-> IF Subscribed /\ w \in order THEN rail[w] ELSE NoRail]

(* A frame; the details go out in the order of the bar.                     *)
DrawFrame ==
    /\ redraw
    /\ redraw' = FALSE /\ last' = Remembered
    /\ \E ids \in [1 .. Cardinality(Unsaid) -> Unsaid] :
           /\ \A i, j \in DOMAIN ids : i < j => ids[i] < ids[j]
           /\ Broadcast([i \in DOMAIN ids |-> Detail(ids[i], rail[ids[i]])])
    /\ said' = [w \in Ids |-> IF link = "up" /\ w \in Unsaid THEN rail[w] ELSE said[w]]
    /\ UNCHANGED <<order, rail, next, link, primeVars, stateVars, boundVars>>

(* Other clients come and go.                                               *)
OthersJoin == others' = "open" /\ others # "open"
              /\ UNCHANGED <<order, rail, next, redraw, last, streamVars, primeVars, stateVars, boundVars>>
OthersLeave == others = "open" /\ others' = "closed"
               /\ UNCHANGED <<order, rail, next, redraw, last, streamVars, primeVars, stateVars, boundVars>>

-----------------------------------------------------------------------------
(* read_events: the daemon has answered /v1/events.                         *)
Dial ==
    /\ link = "down"
    /\ link' = "dialled" /\ inbox' = Append(inbox, Opened) /\ said' = Nothing
    /\ UNCHANGED <<daemonVars, primeVars, stateVars, boundVars>>

(* ApiSubscribe.                                                            *)
ApiSubscribe ==
    /\ link = "dialled"
    /\ link' = "up" /\ inbox' = Append(inbox, List(order))
    /\ UNCHANGED <<daemonVars, said, primeVars, stateVars, boundVars>>

(* The stream ends: of the records of this stream the client has not yet    *)
(* taken, some may have come through.                                       *)
Ends(kept) ==
    /\ \A k \in kept + 1 .. Len(inbox) : IsApi(inbox[k])
    /\ link' = "down" /\ said' = Nothing
    /\ inbox' = Append(SubSeq(inbox, 1, kept), Lost)

Drop ==
    /\ link # "down" /\ drops < MaxDrops
    /\ \E kept \in 0 .. Len(inbox) : Ends(kept)
    /\ others' \in IF others = "open" THEN {"open"} ELSE {"open", "closed"}
    /\ drops' = drops + 1
    /\ UNCHANGED <<order, rail, next, redraw, last, primeVars, stateVars, changes>>

(* The daemon restarts with as many workspaces, and counts their ids from   *)
(* the start again: what is behind an id may be another one.                *)
Restart ==
    /\ drops < MaxDrops
    /\ next' = Cardinality(order) /\ order' = 1 .. next' /\ rail' \in [Ids -> Rails]
    /\ redraw' = TRUE /\ last' = Nothing /\ others' = "none"
    /\ IF link = "down" THEN UNCHANGED streamVars ELSE \E kept \in 0 .. Len(inbox) : Ends(kept)
    /\ drops' = drops + 1
    /\ UNCHANGED <<primeVars, stateVars, changes>>

(* A machine's link is rebuilt: another Daemon in the place of this one.    *)
Adopt ==
    /\ phase = "no" /\ link = "down" /\ drops > 0
    /\ inbox' = << >> /\ tabs' = {} /\ detail' = Nothing /\ phase' = "list"
    /\ UNCHANGED <<daemonVars, link, said, listed, todo, boundVars>>

-----------------------------------------------------------------------------
(* prime, request by request; a workspace that has gone is skipped.         *)
PrimeList ==
    /\ phase = "list"
    /\ phase' = "details" /\ listed' = order /\ todo' = order
    /\ UNCHANGED <<daemonVars, streamVars, stateVars, boundVars>>

PrimeDetail(w) ==
    /\ w \in todo
    /\ todo' = todo \ {w}
    /\ detail' = IF w \in order THEN [detail EXCEPT ![w] = rail[w]] ELSE detail
    /\ UNCHANGED <<daemonVars, streamVars, phase, listed, tabs, boundVars>>

PrimeEnds ==
    /\ phase = "details" /\ todo = {}
    /\ phase' = "no" /\ tabs' = listed /\ listed' = {}
    /\ UNCHANGED <<daemonVars, streamVars, todo, detail, boundVars>>

(* Plausible bug: the first rail heard of is the one that stays.            *)
AppliedOnce(e) ==
    /\ tabs' = IF e.kind = "list" THEN e.ws ELSE tabs
    /\ detail' = IF e.kind = "list"
                 THEN [w \in Ids |-> IF w \in e.ws THEN detail[w] ELSE NoRail]
                 ELSE IF e.kind = "detail" /\ detail[e.ws] = NoRail
                      THEN [detail EXCEPT ![e.ws] = e.rail] ELSE detail

(* State::apply.                                                            *)
Applied(e) ==
    /\ tabs' = IF e.kind = "list" THEN e.ws ELSE tabs
    /\ detail' = IF e.kind = "list"
                 THEN [w \in Ids |-> IF w \in e.ws THEN detail[w] ELSE NoRail]
                 ELSE IF e.kind = "detail" THEN [detail EXCEPT ![e.ws] = e.rail]
                 ELSE detail

(* next_event, which the workbench does not call while it primes.           *)
NextEvent ==
    /\ phase = "no" /\ inbox # << >>
    /\ Applied(Head(inbox)) /\ inbox' = Tail(inbox)
    /\ UNCHANGED <<daemonVars, link, said, primeVars, boundVars>>

-----------------------------------------------------------------------------
PrimeSteps == PrimeList \/ (\E w \in Ids : PrimeDetail(w)) \/ PrimeEnds

MirrorNext ==
    \/ \E w \in Ids : Change(w) \/ Kill(w)
    \/ Create \/ SysTick \/ DrawFrame \/ OthersJoin \/ OthersLeave
    \/ Dial \/ ApiSubscribe \/ Drop \/ Restart \/ Adopt
    \/ PrimeSteps \/ NextEvent

MirrorSpec == MirrorInit /\ [][MirrorNext]_mirrorVars

(* The sampler and the frame clock are timers, the stream task dials for    *)
(* ever, and the workbench waits for its requests or for its events.        *)
MirrorFairness ==
    /\ WF_mirrorVars(SysTick) /\ WF_mirrorVars(DrawFrame)
    /\ WF_mirrorVars(Dial \/ ApiSubscribe) /\ WF_mirrorVars(PrimeSteps \/ NextEvent)

-----------------------------------------------------------------------------
Events ==
    [kind : {"list"}, ws : SUBSET Ids] \union [kind : {"detail"}, ws : Ids, rail : Rails]
        \union [kind : {"connected", "lost"}]

(* Nothing is asked for but by a prime in progress, and what a stream has   *)
(* said is forgotten with it.                                               *)
MirrorTypeOK ==
    /\ next \in 0 .. N /\ order \subseteq 1 .. next /\ rail \in [Ids -> Rails]
    /\ redraw \in BOOLEAN /\ last \in [Ids -> Rails \union {NoRail}]
    /\ others \in {"none", "open", "closed"} /\ link \in {"down", "dialled", "up"}
    /\ said \in [Ids -> Rails \union {NoRail}] /\ (link # "up" => said = Nothing)
    /\ inbox \in Seq(Events)
    /\ tabs \subseteq Ids /\ detail \in [Ids -> Rails \union {NoRail}]
    /\ phase \in {"list", "details", "no"} /\ listed \subseteq Ids
    /\ todo \subseteq listed /\ (todo # {} => phase = "details")
    /\ changes \in 0 .. MaxChanges /\ drops \in 0 .. MaxDrops

(* building-a-client.md: two identical details are never sent in a row, as  *)
(* far as one stream goes.                                                  *)
NeverTwice ==
    [][\A k \in DOMAIN inbox' \ DOMAIN inbox :
        (DrawFrame /\ inbox'[k].kind = "detail") => inbox'[k].rail # said[inbox'[k].ws]]_mirrorVars

(* Once a stream has spoken of a workspace, what is shown follows it for as *)
(* long as both last, whatever a prime read meanwhile and whoever else      *)
(* listens; and a rail does not outlive its workspace, nor what stood for   *)
(* it in the bar.                                                           *)
Astray(w) ==
    /\ link = "up"
    /\ IF w \in order THEN said[w] # NoRail /\ detail[w] # rail[w]
                      ELSE w \in tabs \/ detail[w] # NoRail
Follows == \A w \in Ids : []<>~ Astray(w)

(* remote.md: after a reconnect the details follow within one tick, nothing *)
(* needs to prime again.                                                    *)
CatchesUp ==
    \A w \in Ids : (link = "up" /\ w \in order)
        ~> (detail[w] = rail[w] \/ link # "up" \/ w \notin order)
=============================================================================

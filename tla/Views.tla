------------------------------- MODULE Views --------------------------------
(***************************************************************************)
(* Which space each project was last looked at in: the queue of lines that *)
(* are owed to config.toml (crates/butai-client/src/views.rs) and the edit *)
(* of that file (edit_config of config.rs), by every client that is open.  *)
(*                                                                         *)
(* A client does all this on its one loop; another client is a process of  *)
(* its own and comes between any two of its calls of the file system.      *)
(* Of the file only [views] is modelled; none is one without lines.       *)
(***************************************************************************)
EXTENDS Naturals, Sequences, FiniteSets, SequencesExt

CONSTANTS
    Windows, Keys,          \* the clients, and the projects
    Spaces, Elsewhere,      \* the spaces, and a page that is none (BOOTH, DIFF)
    OwedCap, ViewsCap,      \* OWED_CAP, VIEWS_CAP
    Unknown, Absent,
    MaxFails, MaxQuits      \* bounds: calls that fail, ends of a client

ASSUME ViewsAssumption ==
    /\ IsFiniteSet(Windows) /\ IsFiniteSet(Keys)
    /\ Elsewhere \notin Spaces /\ Unknown \notin Spaces \union Keys
    /\ OwedCap \in Nat \ {0} /\ ViewsCap \in Nat \ {0}
    /\ MaxFails \in Nat /\ MaxQuits \in Nat

VARIABLES
    file, beside,           \* config.toml, and config.toml.tmp or Absent
    seen, owed,             \* Views, by client
    failing, due,           \* fails > 0; the deadline: "no", "armed" or "past"
    onScreen,               \* the project and the page of this pass of the loop
    at, after,              \* where the client is, and where a flush returns to
    doc, fd,                \* edit_config: what it writes, and what it has open
    landed, pushedOut,      \* what has reached the file, and what fell off the queue
    misread,                \* since its start, a client took the file for an empty one
    failures, quits         \* how often: bounds

queue == <<seen, owed, failing, due>>
editing == <<doc, fd>>
history == <<landed, pushedOut, misread>>
viewsVars == <<file, beside, queue, onScreen, at, after, editing, history, failures, quits>>

ViewLine(k, p) == [key |-> k, page |-> p]
Of(s, k) == {i \in DOMAIN s : s[i].key = k}
PageFor(s, k) == IF Of(s, k) = {} THEN Unknown ELSE s[CHOOSE i \in Of(s, k) : TRUE].page

(* Views::new.                                                              *)
Loaded == [k \in Keys |-> PageFor(file, k)]

ViewsInit ==
    /\ file = << >> /\ beside = Absent
    /\ seen = [c \in Windows |-> Loaded] /\ owed = [c \in Windows |-> << >>]
    /\ failing = [c \in Windows |-> FALSE] /\ due = [c \in Windows |-> "no"]
    /\ onScreen = [c \in Windows |-> ViewLine(Unknown, Elsewhere)]
    /\ at = [c \in Windows |-> "loop"] /\ after = [c \in Windows |-> "take"]
    /\ doc = [c \in Windows |-> << >>] /\ fd = [c \in Windows |-> "none"]
    /\ landed = seen /\ pushedOut = [c \in Windows |-> {}]
    /\ misread = [c \in Windows |-> FALSE] /\ failures = 0 /\ quits = 0

Goes(c, to) == at' = [at EXCEPT ![c] = to]
Flushes(c, then) == Goes(c, "flush") /\ after' = [after EXCEPT ![c] = then]
Returns(c) == Goes(c, after[c]) /\ after' = [after EXCEPT ![c] = "take"]

-----------------------------------------------------------------------------
(* A pass of the loop: it may be at another project, which puts back its    *)
(* page (restore_view) unless what is up is no view of a project.  note     *)
(* first writes what is owed of others, unless writes are failing.          *)
Pass(c, k, p) ==
    /\ at[c] = "loop"
    /\ (k # onScreen[c].key /\ p # Elsewhere /\ seen[c][k] # Unknown) => p = seen[c][k]
    /\ onScreen' = [onScreen EXCEPT ![c] = ViewLine(k, p)]
    /\ IF ~ failing[c] /\ \E i \in DOMAIN owed[c] : owed[c][i].key # k
       THEN Flushes(c, "take") ELSE Goes(c, "take") /\ UNCHANGED after
    /\ UNCHANGED <<file, beside, queue, editing, history, failures, quits>>

(* owe: one line for a project; over the cap the oldest falls off.          *)
Owing(s, l) ==
    IF Of(s, l.key) # {} THEN [i \in DOMAIN s |-> IF s[i].key = l.key THEN l ELSE s[i]]
    ELSE Append(IF Len(s) = OwedCap THEN Tail(s) ELSE s, l)

(* note goes on: a page that is news is taken, and what is due is written.  *)
Take(c) ==
    LET l == onScreen[c]
        news == l.page \in Spaces /\ seen[c][l.key] # l.page
        owing == IF news THEN Owing(owed[c], l) ELSE owed[c]
    IN
    /\ at[c] = "take"
    /\ seen' = IF news THEN [seen EXCEPT ![c][l.key] = l.page] ELSE seen
    /\ owed' = [owed EXCEPT ![c] = owing]
    /\ pushedOut' = [pushedOut EXCEPT ![c] =
          {k \in Keys : Of(owing, k) = {} /\ (k \in @ \/ Of(owed[c], k) # {})}]
    /\ IF due[c] = "past" THEN Flushes(c, "arm") ELSE Goes(c, "arm") /\ UNCHANGED after
    /\ UNCHANGED <<file, beside, failing, due, onScreen, editing, landed, misread, failures,
                   quits>>

(* note ends: whatever is owed gets a deadline.                             *)
Arm(c) ==
    /\ at[c] = "arm" /\ Goes(c, "loop")
    /\ due' = [due EXCEPT ![c] = IF owed[c] # << >> /\ @ = "no" THEN "armed" ELSE @]
    /\ UNCHANGED <<file, beside, seen, owed, failing, onScreen, after, editing, history,
                   failures, quits>>

Elapses(c) ==
    /\ due[c] = "armed" /\ due' = [due EXCEPT ![c] = "past"]
    /\ UNCHANGED <<file, beside, seen, owed, failing, onScreen, at, after, editing, history,
                   failures, quits>>

-----------------------------------------------------------------------------
(* save_view_at: the line of a key, of which a table has one, goes to the   *)
(* end, and over the cap the front goes.                                    *)
Without(s, k) == IF Of(s, k) = {} THEN s ELSE RemoveAt(s, CHOOSE i \in Of(s, k) : TRUE)

Edited(s, l) ==
    LET rest == Without(s, l.key)
    IN  Append(IF Len(rest) >= ViewsCap THEN Tail(rest) ELSE rest, l)

CallFails == failures < MaxFails /\ failures' = failures + 1

(* flush: line by line, the oldest first; edit_config reads the file, and   *)
(* takes one it cannot read for one without lines (unwrap_or_default).      *)
Flush(c) ==
    /\ at[c] = "flush" /\ due' = [due EXCEPT ![c] = "no"]
    /\ IF owed[c] = << >>
       THEN /\ failing' = [failing EXCEPT ![c] = FALSE] /\ Returns(c)
            /\ UNCHANGED <<doc, misread, failures>>
       ELSE /\ \/ /\ doc' = [doc EXCEPT ![c] = Edited(file, Head(owed[c]))]
                  /\ UNCHANGED <<misread, failures>>
               \/ /\ doc' = [doc EXCEPT ![c] = <<Head(owed[c])>>]
                  /\ misread' = [misread EXCEPT ![c] = TRUE] /\ CallFails
            /\ Goes(c, "open") /\ UNCHANGED <<failing, after>>
    /\ UNCHANGED <<file, beside, seen, owed, onScreen, fd, landed, pushedOut, quits>>

(* fs::write truncates, whoever else has the file beside it open,           *)
OpenBeside(c) ==
    /\ at[c] = "open" /\ Goes(c, "write")
    /\ beside' = << >> /\ fd' = [fd EXCEPT ![c] = "beside"]
    /\ UNCHANGED <<file, queue, onScreen, after, doc, history, failures, quits>>

(* and writes to what it opened, whatever its name is by now.               *)
WriteBeside(c) ==
    /\ at[c] = "write" /\ Goes(c, "rename")
    /\ beside' = IF fd[c] = "beside" THEN doc[c] ELSE beside
    /\ file' = IF fd[c] = "file" THEN doc[c] ELSE file
    /\ UNCHANGED <<queue, onScreen, after, editing, history, failures, quits>>

(* The old file goes; who has the file beside it open has the file now.     *)
Rename(c) ==
    /\ at[c] = "rename" /\ beside # Absent
    /\ file' = beside /\ beside' = Absent
    /\ fd' = [b \in Windows |-> IF b = c \/ fd[b] = "none" THEN "none"
                                ELSE IF fd[b] = "beside" THEN "file" ELSE "old"]
    /\ landed' = [landed EXCEPT ![c][Head(owed[c]).key] = Head(owed[c]).page]
    /\ owed' = [owed EXCEPT ![c] = Tail(@)]
    /\ Goes(c, "flush") /\ doc' = [doc EXCEPT ![c] = << >>]
    /\ UNCHANGED <<seen, failing, due, onScreen, after, pushedOut, misread, failures,
                   quits>>

(* Plausible bug, the one flush's comment tells of: the line is dropped.    *)
GivesUp(c) ==
    /\ owed' = [owed EXCEPT ![c] = Tail(@)]
    /\ failing' = [failing EXCEPT ![c] = TRUE] /\ Returns(c)
    /\ doc' = [doc EXCEPT ![c] = << >>] /\ fd' = [fd EXCEPT ![c] = "none"]

(* A line that cannot be written stays owed, and the run stops there.       *)
StaysOwed(c) ==
    /\ UNCHANGED owed
    /\ failing' = [failing EXCEPT ![c] = TRUE] /\ Returns(c)
    /\ doc' = [doc EXCEPT ![c] = << >>] /\ fd' = [fd EXCEPT ![c] = "none"]

(* A call fails, the first of them makes the directory; a rename also when  *)
(* somebody has taken the file along.                                       *)
SaveFails(c) ==
    /\ \/ at[c] = "flush" /\ owed[c] # << >> /\ CallFails
       \/ at[c] \in {"open", "write", "rename"} /\ CallFails
       \/ at[c] = "rename" /\ beside = Absent /\ UNCHANGED failures
    /\ StaysOwed(c) /\ due' = [due EXCEPT ![c] = "no"]
    /\ UNCHANGED <<file, beside, seen, onScreen, history, quits>>

-----------------------------------------------------------------------------
(* The end of run flushes; a signal does not, wherever it comes.            *)
Detach(c) ==
    /\ at[c] = "loop" /\ quits < MaxQuits /\ quits' = quits + 1
    /\ Flushes(c, "gone")
    /\ UNCHANGED <<file, beside, queue, onScreen, editing, history, failures>>

Killed(c) ==
    /\ at[c] # "gone" /\ quits < MaxQuits /\ quits' = quits + 1
    /\ Goes(c, "gone") /\ after' = [after EXCEPT ![c] = "take"]
    /\ doc' = [doc EXCEPT ![c] = << >>] /\ fd' = [fd EXCEPT ![c] = "none"]
    /\ UNCHANGED <<file, beside, queue, onScreen, history, failures>>

(* Views::new again, of what the file holds by then, or of nothing when it  *)
(* cannot be read (load_from).                                              *)
Starts(c) ==
    /\ at[c] = "gone" /\ Goes(c, "loop")
    /\ \/ seen' = [seen EXCEPT ![c] = Loaded] /\ UNCHANGED failures
       \/ seen' = [seen EXCEPT ![c] = [k \in Keys |-> Unknown]] /\ CallFails
    /\ landed' = [landed EXCEPT ![c] = Loaded]
    /\ owed' = [owed EXCEPT ![c] = << >>] /\ pushedOut' = [pushedOut EXCEPT ![c] = {}]
    /\ failing' = [failing EXCEPT ![c] = FALSE] /\ due' = [due EXCEPT ![c] = "no"]
    /\ misread' = [misread EXCEPT ![c] = FALSE]
    /\ onScreen' = [onScreen EXCEPT ![c] = ViewLine(Unknown, Elsewhere)]
    /\ UNCHANGED <<file, beside, after, editing, quits>>

SomePass(c) == \E k \in Keys, p \in Spaces \union {Elsewhere} : Pass(c, k, p)
Saves(c) == Flush(c) \/ OpenBeside(c) \/ WriteBeside(c) \/ Rename(c) \/ SaveFails(c)

ViewsNext ==
    \E c \in Windows :
        \/ SomePass(c) \/ Take(c) \/ Arm(c) \/ Elapses(c) \/ Saves(c)
        \/ Detach(c) \/ Killed(c) \/ Starts(c)

ViewsSpec == ViewsInit /\ [][ViewsNext]_viewsVars

-----------------------------------------------------------------------------
ViewLines == [key : Keys, page : Spaces]
ViewsTypeOK ==
    /\ file \in Seq(ViewLines) /\ Len(file) <= ViewsCap
    /\ beside = Absent \/ beside \in Seq(ViewLines)
    /\ seen \in [Windows -> [Keys -> Spaces \union {Unknown}]]
    /\ owed \in [Windows -> Seq(ViewLines)] /\ \A c \in Windows : Len(owed[c]) <= OwedCap

(* flush: a page that is remembered has reached the file or is owed to it,  *)
(* whatever call failed, but for what a full queue let go.                  *)
OwedOrWritten ==
    \A c \in Windows, k \in Keys :
        at[c] = "gone" \/ k \in pushedOut[c] \/ seen[c][k] = Unknown
        \/ landed[c][k] = seen[c][k] \/ ViewLine(k, seen[c][k]) \in Range(owed[c])

(* edit_config: "a crash mid-save cannot truncate a config": where one      *)
(* client is open, the file holds every line that ever got there, wherever  *)
(* the client ends and whatever else fails: but a read that fails erases    *)
(* every line but the one that is written.                                  *)
FileIsWhole ==
    Cardinality(Windows) = 1 /\ Cardinality(Keys) <= ViewsCap =>
        \A c \in Windows : misread[c] \/ \A k \in Keys : PageFor(file, k) = landed[c][k]

(* note: "whatever is still owed gets a deadline": nothing waits for the    *)
(* user to move again, also when the last write has failed.                 *)
OwedIsDue == \A c \in Windows : at[c] = "loop" /\ owed[c] # << >> => due[c] # "no"

NothingIsForgotten == ViewsTypeOK /\ OwedOrWritten /\ FileIsWhole /\ OwedIsDue

(* views.rs: "Two clients do not erase each other": a line does not leave   *)
(* the file but to the cap.                                                 *)
NeitherErases ==
    [][Cardinality(Keys) <= ViewsCap =>
        \A k \in Keys : Of(file, k) # {} => Of(file', k) # {}]_viewsVars
=============================================================================

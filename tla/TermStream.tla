----------------------------- MODULE TermStream -----------------------------
(***************************************************************************)
(* What a terminal pane does with the bytes of its program before and      *)
(* while its emulator is fed (crates/butai-server/src/pane/terminal.rs,    *)
(* feed_output): HVP is rewritten to CUP, the last bytes are kept for a    *)
(* restart, and the queries a program blocks on are answered at the place  *)
(* where they stand in the stream.                                         *)
(*                                                                         *)
(* A program writes whole sequences; the reads of its terminal cut them    *)
(* anywhere, and what is known of an unfinished sequence is carried to the *)
(* next read.  A byte is one of a few characters that stand for the        *)
(* classes the scanners tell apart; the limits are scaled down with it.    *)
(***************************************************************************)
EXTENDS Naturals, Sequences, FiniteSets, SequencesExt, FiniteSetsExt

CONSTANTS
    Tokens,     \* the sequences of bytes a program writes
    MaxTokens,  \* bound: how many of them
    CarryMax,   \* set_carry's limit, 32 in the code
    ApcMax,     \* MAX_APC_LEN
    Ours,       \* the body of an APC that parse_apc takes for an announcement
    Keep        \* restore_bytes

Esc == "ESC"
Bel == "BEL"
Digits == {"0", "5", "6"}
Finals == {"[", "_", "ST", "c", "f", "H", "n", "x"}     \* 0x40 to 0x7e
Bytes == {Esc, Bel, "?", ">"} \union Digits \union Finals

ASSUME StreamAssumption ==
    /\ MaxTokens \in Nat /\ CarryMax \in Nat /\ ApcMax \in Nat /\ Keep \in Nat
    /\ Tokens \subseteq Seq(Bytes) /\ Ours \in Seq(Bytes) /\ Ours # << >>

VARIABLES
    tokens,     \* sequences written so far
    written,    \* their bytes
    read,       \* how many of the bytes the pane was given
    hvp,        \* TerminalPane::hvp
    carry,      \* TerminalPane::query_carry
    dropped,    \* whether set_carry ever gave up an unfinished sequence
    screen,     \* all the emulator was fed
    ring,       \* TerminalPane::history
    answers,    \* the queries answered, each with its place in the stream
    heard       \* the announcements, each with its place

vars == <<tokens, written, read, hvp, carry, dropped, screen, ring, answers, heard>>

-----------------------------------------------------------------------------
(* HvpRewriter::rewrite, byte by byte.                                      *)
Ground == [state |-> "ground", plain |-> FALSE]
Step(h, b) ==
    CASE h.state = "ground" /\ b = Esc -> [h EXCEPT !.state = "esc"]
      [] h.state = "esc" /\ b = "[" -> [state |-> "csi", plain |-> TRUE]
      [] h.state = "esc" /\ b \notin {"[", Esc} -> [h EXCEPT !.state = "ground"]
      [] h.state = "csi" /\ b \in Finals -> [h EXCEPT !.state = "ground"]
      [] h.state = "csi" /\ b \notin Finals \union Digits -> [h EXCEPT !.plain = FALSE]
      [] OTHER -> h
Swap(h, b) == IF h.state = "csi" /\ h.plain /\ b = "f" THEN "H" ELSE b

Rewrite(h, bytes) ==
    LET after[i \in 0 .. Len(bytes)] == IF i = 0 THEN h ELSE Step(after[i - 1], bytes[i])
    IN  [hvp |-> after[Len(bytes)],
         out |-> [i \in 1 .. Len(bytes) |-> Swap(after[i - 1], bytes[i])]]

(* OutputHistory::push.                                                     *)
Push(kept, bytes) ==
    LET fit == IF Len(bytes) > Keep THEN SubSeq(bytes, Len(bytes) - Keep + 1, Len(bytes)) ELSE bytes
        over == IF Len(kept) + Len(fit) > Keep THEN Len(kept) + Len(fit) - Keep ELSE 0
    IN  IF Keep = 0 THEN kept ELSE SubSeq(kept, over + 1, Len(kept)) \o fit

-----------------------------------------------------------------------------
(* scan_apc: the body of an APC ends at a BEL or an ST; any other ESC ends  *)
(* it too, and is looked at again.                                          *)
Least(S, default) == IF S = {} THEN default ELSE Min(S)
Apc(body) ==
    LET stop == Least({i \in 1 .. Len(body) : body[i] \in {Bel, Esc}}, Len(body) + 1)
        ours == SubSeq(body, 1, stop - 1) = Ours
    IN  CASE stop - 1 > ApcMax -> [kind |-> "long"]
          [] OTHER ->
             IF stop > Len(body) THEN [kind |-> "open"]
             ELSE IF body[stop] = Bel THEN [kind |-> "done", end |-> stop, ours |-> ours]
             ELSE IF stop = Len(body) THEN [kind |-> "open"]
             ELSE IF body[stop + 1] = "ST" THEN [kind |-> "done", end |-> stop + 1, ours |-> ours]
             ELSE [kind |-> "done", end |-> stop - 1, ours |-> FALSE]

(* The CSI sequences that are queries.                                      *)
Queries ==
    (<<"6", "n">> :> "cursor") @@ (<<"5", "n">> :> "status")
    @@ (<<"c">> :> "da1") @@ (<<"0", "c">> :> "da1")
    @@ (<<">", "c">> :> "da2") @@ (<<">", "0", "c">> :> "da2")

(* What the rest of a buffer begins with: the bytes that need not be looked *)
(* at again, none as long as an escape may go on, and what they say.        *)
Passes(n) == [takes |-> n, says |-> "nothing"]
ApcItem(rest) ==
    LET apc == Apc(SubSeq(rest, 3, Len(rest))) IN
    CASE apc.kind = "open" -> Passes(0)
      [] apc.kind = "long" -> Passes(2)
      [] apc.kind = "done" ->
             [takes |-> 2 + apc.end, says |-> IF apc.ours THEN "announce" ELSE "nothing"]
CsiItem(rest) ==
    LET final == Least({j \in 3 .. Len(rest) : rest[j] \in Finals}, Len(rest) + 1)
        body == SubSeq(rest, 3, final)
    IN  IF final > Len(rest) THEN Passes(0)
        ELSE [takes |-> final, says |-> IF body \in DOMAIN Queries THEN Queries[body] ELSE "nothing"]
Item(rest) ==
    CASE rest[1] # Esc -> Passes(1)
      [] rest = <<Esc>> -> Passes(0)
      [] rest[1] = Esc /\ Len(rest) > 1 /\ rest[2] = "_" -> ApcItem(rest)
      [] rest[1] = Esc /\ Len(rest) > 1 /\ rest[2] = "[" -> CsiItem(rest)
      [] OTHER -> Passes(1)

(* scan_queries: where the complete queries of a buffer end and which they  *)
(* are, where its announcements end, and where an unfinished escape begins. *)
Scan(buf) ==
    LET item(i) == Item(SubSeq(buf, i, Len(buf)))
        end(i) == i + item(i).takes - 1
        asks(i) == IF item(i).says \in {"nothing", "announce"} THEN << >>
                   ELSE <<<<end(i), item(i).says>>>>
        tells(i) == IF item(i).says = "announce" THEN <<end(i)>> ELSE << >>
        from[i \in 1 .. Len(buf) + 1] ==
            IF i > Len(buf) \/ item(i).takes = 0
            THEN [asked |-> << >>, announced |-> << >>, tail |-> i]
            ELSE LET on == from[i + item(i).takes] IN
                 [asked |-> asks(i) \o on.asked, announced |-> tells(i) \o on.announced,
                  tail |-> on.tail]
    IN  from[1]

(* set_carry: a tail that is too long is not carried at all.                *)
Carried(tail) == IF Len(tail) <= CarryMax THEN tail ELSE << >>

(* terminal_queries: the queries that end in these bytes, placed in the     *)
(* stream, of which the first `at` bytes were seen before, and what is left *)
(* to carry.                                                                *)
Less(a, b) == IF a > b THEN a - b ELSE 0
Moved(ends, by) ==
    [asked |-> [i \in DOMAIN ends.asked |-> <<by[ends.asked[i][1]], ends.asked[i][2]>>],
     announced |-> [i \in DOMAIN ends.announced |-> by[ends.announced[i]]]]
(* Plausible bug: what was carried over the cut is forgotten.               *)
AfterTheCut(held, bytes, at) ==
    [found |-> Moved(Scan(bytes), [p \in 1 .. Len(bytes) |-> at + p]), open |-> << >>]
TerminalQueries(held, bytes, at) ==
    LET joined == held \o bytes
        scan == Scan(joined)
        placed == [p \in 1 .. Len(joined) |-> at + Less(p, Len(held))]
    IN  [found |-> Moved(scan, placed), open |-> SubSeq(joined, scan.tail, Len(joined))]

-----------------------------------------------------------------------------
Init ==
    /\ tokens = 0 /\ written = << >> /\ read = 0
    /\ hvp = Ground /\ carry = << >> /\ dropped = FALSE /\ screen = << >> /\ ring = << >>
    /\ answers = << >> /\ heard = << >>

Write(t) ==
    /\ tokens < MaxTokens
    /\ tokens' = tokens + 1
    /\ written' = written \o t
    /\ UNCHANGED <<read, hvp, carry, dropped, screen, ring, answers, heard>>

(* feed_output, with the n bytes of one burst.                              *)
Feed(n) ==
    LET burst == Rewrite(hvp, SubSeq(written, read + 1, read + n))
        scan == TerminalQueries(carry, burst.out, read)
    IN
    /\ read + n <= Len(written)
    /\ read' = read + n
    /\ hvp' = burst.hvp
    /\ screen' = screen \o burst.out
    /\ ring' = Push(ring, burst.out)
    /\ carry' = Carried(scan.open)
    /\ dropped' = (dropped \/ carry' # scan.open)
    /\ answers' = answers \o scan.found.asked
    /\ heard' = heard \o scan.found.announced
    /\ UNCHANGED <<tokens, written>>

Next ==
    \/ \E t \in Tokens : Write(t)
    \/ \E n \in 1 .. Len(written) - read : Feed(n)

Spec == Init /\ [][Next]_vars

-----------------------------------------------------------------------------
(* What one read of everything so far would have made of it.                *)
Whole == Rewrite(Ground, SubSeq(written, 1, read))

(* The carry and the ring stay within their limits, whatever is written.    *)
TypeOK ==
    /\ tokens \in 0 .. MaxTokens /\ read \in 0 .. Len(written)
    /\ hvp.state \in {"ground", "esc", "csi"} /\ hvp.plain \in BOOLEAN
    /\ Len(carry) <= CarryMax /\ Len(ring) <= Keep /\ Len(screen) = read
    /\ dropped \in BOOLEAN

(* However its output is cut into reads, the emulator is fed the same       *)
(* bytes, and what is kept for a restart is the end of what it was fed.     *)
CutsDoNotShow ==
    /\ TypeOK
    /\ screen = Whole.out
    /\ ring = SubSeq(screen, Less(Len(screen), Keep) + 1, Len(screen))

(* However its output is cut into reads, a program is answered as if it     *)
(* came in one, unless an unfinished sequence was too long to be carried:   *)
(* every query it blocks on is answered once, with the cursor of the place  *)
(* where it stands, and every announced machine is dialled.  Whatever was   *)
(* dropped, nothing is dialled or answered twice for one sequence.          *)
AnsweredInPlace ==
    /\ ~ dropped => answers = Scan(Whole.out).asked /\ heard = Scan(Whole.out).announced
    /\ IsInjective([i \in DOMAIN answers |-> answers[i][1]]) /\ IsInjective(heard)

(* How a program's output is cut into reads shows neither on the screen nor *)
(* in what is answered: what HvpRewriter, the ring and scan_queries carry   *)
(* from one read to the next is enough.                                     *)
CutsDoNotMatter == CutsDoNotShow /\ AnsweredInPlace

(* terminal.rs on RemoteAnnounce: it rides the scanner that has "the carry  *)
(* that makes a sequence split across two PTY reads still parse": every     *)
(* announcement that was made is heard.  set_carry drops one of which more  *)
(* than 32 bytes came with the first read.                                  *)
EveryOneIsHeard == heard = Scan(Whole.out).announced
=============================================================================

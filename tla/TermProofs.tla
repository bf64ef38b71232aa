----------------------------- MODULE TermProofs -----------------------------
(***************************************************************************)
(* What is proved about a terminal pane, for any program, any limits and   *)
(* any size of its screen.                                                 *)
(*                                                                         *)
(* While a view is scrolled back, what is read off the pane is what is     *)
(* read off the live screen (LiveScreenIsRead).  However the output is cut *)
(* into reads, the emulator is fed the same bytes (CutsUnseen), and the    *)
(* queries in them are answered as if they came in one read, unless an     *)
(* unfinished one was too long to be carried (AnswersInPlace).             *)
(*                                                                         *)
(* HvpRewriter and scan_queries are recursive functions.  What holds of    *)
(* them for every input is proved by induction on the SET of the lengths,  *)
(* or of the places, of which it holds (module Facts).                     *)
(***************************************************************************)
EXTENDS TermStream, TermView, Facts, SequenceTheorems, TLAPS

-----------------------------------------------------------------------------
(* THE VIEW OF A PANE.                                                      *)
(* While the view is parked the copy is the live band.                      *)
VInv ==
    /\ back \in Seq(Kinds) /\ Len(back) <= MaxBack /\ grid \in Grids
    /\ offset \in 0 .. Len(back)
    /\ parked = IF offset = 0 THEN None ELSE Lasts(grid, Band)

LEMMA GridIsRows ==
    ASSUME NEW g \in Grids
    PROVE  g \in Seq(Kinds) /\ Len(g) = Rows /\ \A i \in 1 .. Rows : g[i] \in Kinds
<1>1. g \in [1 .. Rows -> Kinds] /\ Rows \in Nat
    BY ViewAssumption DEF Grids
<1> QED
    BY <1>1

(* The last rows of a sequence.                                             *)
LEMMA LastsAre ==
    ASSUME NEW S, NEW s \in Seq(S), NEW n \in Nat
    PROVE  /\ Lasts(s, n) \in Seq(S)
           /\ Len(Lasts(s, n)) = Lesser(n, Len(s))
           /\ \A i \in 1 .. Lesser(n, Len(s)) : Lasts(s, n)[i] = s[Saturating(Len(s), n) + i]
<1> DEFINE from == Saturating(Len(s), n)
<1>1. /\ Len(s) \in Nat /\ from \in 0 .. Len(s)
      /\ Lesser(n, Len(s)) = Len(s) - from
    <2>1. Len(s) \in Nat
        OBVIOUS
    <2>2. from = IF Len(s) > n THEN Len(s) - n ELSE 0
        BY DEF Saturating
    <2>3. Lesser(n, Len(s)) = IF n <= Len(s) THEN n ELSE Len(s)
        BY DEF Lesser
    <2> HIDE DEF from
    <2>4. CASE n <= Len(s)
        <3>1. from = Len(s) - n
            BY <2>1, <2>2, <2>4
        <3>2. Lesser(n, Len(s)) = n
            BY <2>3, <2>4
        <3> QED
            BY <2>1, <2>4, <3>1, <3>2
    <2>5. CASE Len(s) < n
        <3>1. from = 0
            BY <2>1, <2>2, <2>5
        <3>2. Lesser(n, Len(s)) = Len(s)
            BY <2>1, <2>3, <2>5
        <3> QED
            BY <2>1, <3>1, <3>2
    <2> QED
        BY <2>1, <2>4, <2>5
<1> HIDE DEF from
<1>2. \A i \in from + 1 .. Len(s) : s[i] \in S
    BY <1>1
<1>3. /\ Lasts(s, n) \in Seq(S)
      /\ Len(Lasts(s, n)) = IF from + 1 <= Len(s) THEN Len(s) - (from + 1) + 1 ELSE 0
      /\ \A i \in 1 .. Len(s) - (from + 1) + 1 : Lasts(s, n)[i] = s[(from + 1) + i - 1]
    <2>1. Lasts(s, n) = SubSeq(s, from + 1, Len(s))
        BY DEF Lasts, from
    <2> QED
        BY <1>1, <1>2, <2>1, SubSeqProperties
<1>4. ASSUME NEW i \in 1 .. Lesser(n, Len(s)) PROVE Lasts(s, n)[i] = s[from + i]
    <2>1. i \in 1 .. Len(s) - (from + 1) + 1 /\ (from + 1) + i - 1 = from + i
        BY <1>1
    <2> QED
        BY <1>3, <2>1
<1> QED
    BY <1>1, <1>3, <1>4 DEF from

(* The lowest row with anything on it.                                      *)
Lowest(rows) == Max({0} \union {i \in DOMAIN rows : rows[i] # "blank"})

LEMMA LowestIs ==
    ASSUME NEW rows \in Seq(Kinds)
    PROVE  /\ Lowest(rows) \in 0 .. Len(rows)
           /\ Lowest(rows) > 0 => rows[Lowest(rows)] # "blank"
           /\ \A i \in 1 .. Len(rows) : rows[i] # "blank" => i <= Lowest(rows)
<1> DEFINE S == {0} \union {i \in DOMAIN rows : rows[i] # "blank"}
<1>1. DOMAIN rows = 1 .. Len(rows) /\ Len(rows) \in Nat
    OBVIOUS
<1>2. S \subseteq 0 .. Len(rows) /\ S # {}
    BY <1>1
<1>3. Max(S) \in S /\ \A x \in S : Max(S) >= x
    BY <1>1, <1>2, MaxIsGreatest
<1>4. Lowest(rows) = Max(S)
    BY DEF Lowest
<1> QED
    BY <1>1, <1>2, <1>3, <1>4

(* footer_window shows the rows down to the lowest, Band of them at most.   *)
LEMMA WrittenAre ==
    ASSUME NEW rows \in Seq(Kinds), NEW k
    PROVE  Contains(Written(rows), k) <=>
               \E i \in 1 .. Lowest(rows) : i > Lowest(rows) - Band /\ rows[i] = k
<1> DEFINE low == Lowest(rows)
           s == SubSeq(rows, 1, low)
<1>1. low \in Nat /\ low <= Len(rows) /\ Len(rows) \in Nat /\ Band \in Nat \ {0}
    BY LowestIs, ViewAssumption
<1>2. Written(rows) = Lasts(s, Band)
    BY DEF Written, Lowest
<1> HIDE DEF low
<1>3. s \in Seq(Kinds) /\ Len(s) = low /\ \A i \in 1 .. low : s[i] = rows[i]
    <2>1. \A i \in 1 .. low : rows[i] \in Kinds
        BY <1>1
    <2>2. /\ s \in Seq(Kinds) /\ Len(s) = IF 1 <= low THEN low - 1 + 1 ELSE 0
          /\ \A i \in 1 .. low - 1 + 1 : s[i] = rows[1 + i - 1]
        BY <1>1, <2>1, SubSeqProperties
    <2>3. low - 1 + 1 = low /\ \A i \in 1 .. low : 1 + i - 1 = i
        BY <1>1
    <2> QED
        BY <1>1, <2>2, <2>3
<1> DEFINE w == Lasts(s, Band)
           from == Saturating(low, Band)
           n == Lesser(Band, low)
<1> HIDE DEF s
<1>4. w \in Seq(Kinds) /\ Len(w) = n /\ \A i \in 1 .. n : w[i] = s[from + i]
    <2>1. /\ Lasts(s, Band) \in Seq(Kinds) /\ Len(Lasts(s, Band)) = Lesser(Band, Len(s))
          /\ \A i \in 1 .. Lesser(Band, Len(s)) : Lasts(s, Band)[i] = s[Saturating(Len(s), Band) + i]
        <3>1. s \in Seq(Kinds) /\ Band \in Nat
            BY <1>1, <1>3
        <3> QED
            BY <3>1, LastsAre
    <2> QED
        BY <1>3, <2>1
<1>5. /\ from \in Nat /\ n \in Nat /\ from + n = low
      /\ \A i \in 1 .. low : i > low - Band <=> i > from
    BY <1>1 DEF Saturating, Lesser
<1> HIDE DEF w, from, n
<1>6. ASSUME NEW i \in 1 .. n PROVE w[i] = rows[from + i]
    <2>1. from + i \in 1 .. low
        BY <1>1, <1>5
    <2> QED
        BY <1>3, <1>4, <2>1
<1>7. Contains(w, k) <=> \E i \in 1 .. n : rows[from + i] = k
    BY <1>4, <1>6 DEF Contains
<1>8. (\E i \in 1 .. n : rows[from + i] = k) <=> \E i \in 1 .. low : i > from /\ rows[i] = k
    <2>1. ASSUME NEW i \in 1 .. n, rows[from + i] = k
          PROVE  \E j \in 1 .. low : j > from /\ rows[j] = k
        <3>1. from + i \in 1 .. low /\ from + i > from
            BY <1>1, <1>5
        <3> QED
            BY <2>1, <3>1
    <2>2. ASSUME NEW j \in 1 .. low, j > from, rows[j] = k
          PROVE  \E i \in 1 .. n : rows[from + i] = k
        <3>1. j - from \in 1 .. n /\ from + (j - from) = j
            BY <1>1, <1>5, <2>2
        <3> QED
            BY <2>2, <3>1
    <2> QED
        BY <2>1, <2>2
<1> QED
    BY <1>2, <1>5, <1>7, <1>8 DEF low, s, w

(* What the copy says is said on the live screen, at most as much lower.    *)
LEMMA BandIsLive ==
    ASSUME NEW g \in Grids, NEW k, Contains(Written(Lasts(g, Band)), k)
    PROVE  Contains(Written(g), k)
<1> DEFINE w == Lasts(g, Band)
           d == Rows - Band
<1>1. Rows \in Nat /\ Band \in Nat /\ Band <= Rows /\ d \in Nat
    BY ViewAssumption
<1>2. g \in Seq(Kinds) /\ Len(g) = Rows
    BY GridIsRows
<1>3. w \in Seq(Kinds) /\ Len(w) = Band /\ \A i \in 1 .. Band : w[i] = g[d + i]
    <2>1. Lesser(Band, Rows) = Band /\ Saturating(Rows, Band) = d
        BY <1>1 DEF Lesser, Saturating
    <2>2. /\ Lasts(g, Band) \in Seq(Kinds) /\ Len(Lasts(g, Band)) = Lesser(Band, Len(g))
          /\ \A i \in 1 .. Lesser(Band, Len(g)) : Lasts(g, Band)[i] = g[Saturating(Len(g), Band) + i]
        BY <1>1, <1>2, LastsAre
    <2> HIDE DEF d
    <2> QED
        BY <1>2, <2>1, <2>2
<1> HIDE DEF w
<1>4. PICK i \in 1 .. Lowest(w) : i > Lowest(w) - Band /\ w[i] = k
    BY <1>3, WrittenAre DEF w
<1>5. /\ Lowest(w) \in 0 .. Band
      /\ Lowest(w) > 0 => w[Lowest(w)] # "blank"
      /\ \A j \in 1 .. Band : w[j] # "blank" => j <= Lowest(w)
    BY <1>3, LowestIs
<1>6. /\ Lowest(g) \in 0 .. Rows
      /\ Lowest(g) > 0 => g[Lowest(g)] # "blank"
      /\ \A j \in 1 .. Rows : g[j] # "blank" => j <= Lowest(g)
    BY <1>2, LowestIs
<1> HIDE DEF d
<1>7. d + Band = Rows
    BY <1>1 DEF d
<1>8. Lowest(w) > 0 /\ Lowest(w) \in 1 .. Band /\ d + Lowest(w) \in 1 .. Rows
    BY <1>1, <1>4, <1>5, <1>7
<1>9. d + Lowest(w) <= Lowest(g)
    BY <1>3, <1>5, <1>6, <1>8
<1>10. Lowest(g) <= d + Lowest(w)
    <2>1. Lowest(g) - d \in 1 .. Band /\ d + (Lowest(g) - d) = Lowest(g) /\ Lowest(g) > 0
        BY <1>1, <1>6, <1>7, <1>8, <1>9
    <2>2. w[Lowest(g) - d] # "blank"
        BY <1>3, <1>6, <2>1
    <2>3. Lowest(g) - d <= Lowest(w)
        BY <1>5, <2>1, <2>2
    <2> QED
        BY <1>1, <1>5, <1>6, <2>3
<1>11. Lowest(g) = d + Lowest(w)
    BY <1>1, <1>5, <1>6, <1>9, <1>10
<1>12. d + i \in 1 .. Lowest(g) /\ d + i > Lowest(g) - Band /\ g[d + i] = k
    <2>1. i \in 1 .. Band
        BY <1>1, <1>4, <1>5
    <2>2. g[d + i] = k
        BY <1>3, <1>4, <2>1
    <2> QED
        BY <1>1, <1>4, <1>5, <1>11, <2>1, <2>2
<1> QED
    BY <1>2, <1>12, WrittenAre

-----------------------------------------------------------------------------
LEMMA ViewStarts == ViewInit => VInv
<1> SUFFICES ASSUME ViewInit PROVE VInv
    OBVIOUS
<1>1. grid \in Grids
    BY DEF ViewInit, Grids, Kinds
<1>2. back \in Seq(Kinds) /\ Len(back) = 0
    BY DEF ViewInit
<1> QED
    BY <1>1, <1>2, ViewAssumption DEF ViewInit, VInv

(* What scrolls off is kept, as much as there is room for.                  *)
LEMMA ScrolledOff ==
    ASSUME VInv, NEW n \in 0 .. Rows
    PROVE  /\ Lasts(back \o SubSeq(grid, 1, n), MaxBack) \in Seq(Kinds)
           /\ Len(Lasts(back \o SubSeq(grid, 1, n), MaxBack)) <= MaxBack
           /\ Len(Lasts(back \o SubSeq(grid, 1, n), MaxBack)) \in Nat
<1>1. n \in Int /\ 1 \in Int /\ MaxBack \in Nat /\ Rows \in Nat
    BY ViewAssumption
<1>2. \A i \in 1 .. n : grid[i] \in Kinds
    <2>1. \A i \in 1 .. Rows : grid[i] \in Kinds
        BY GridIsRows DEF VInv
    <2> QED
        BY <1>1, <2>1
<1>3. SubSeq(grid, 1, n) \in Seq(Kinds)
    BY <1>1, <1>2, SubSeqProperties
<1>4. back \o SubSeq(grid, 1, n) \in Seq(Kinds)
    BY <1>3, ConcatProperties DEF VInv
<1> DEFINE s == back \o SubSeq(grid, 1, n)
<1> HIDE DEF s
<1>5. s \in Seq(Kinds) /\ Len(s) \in Nat
    BY <1>4 DEF s
<1>6. Lasts(s, MaxBack) \in Seq(Kinds) /\ Len(Lasts(s, MaxBack)) = Lesser(MaxBack, Len(s))
    BY <1>1, <1>5, LastsAre
<1> QED
    BY <1>1, <1>5, <1>6 DEF s, Lesser

LEMMA ViewKeeps == VInv /\ [ViewNext]_viewVars => VInv'
<1> SUFFICES ASSUME VInv, [ViewNext]_viewVars PROVE VInv'
    OBVIOUS
<1>0. MaxBack \in Nat /\ Rows \in Nat /\ Len(back) \in Nat /\ offset \in Nat
    BY ViewAssumption DEF VInv
<1>1. ASSUME NEW n \in 0 .. Rows, NEW g \in Grids, FeedOutput(n, g) PROVE VInv'
    <2>1. back' \in Seq(Kinds) /\ Len(back') <= MaxBack /\ Len(back') \in Nat
        BY <1>1, ScrolledOff DEF FeedOutput
    <2>2. grid' \in Grids
        BY <1>1 DEF FeedOutput
    <2>3. offset' \in 0 .. Len(back')
        BY <1>0, <1>1, <2>1 DEF FeedOutput, Lesser
    <2>4. parked' = IF offset' = 0 THEN None ELSE Lasts(grid', Band)
        BY <1>1 DEF FeedOutput, Sync
    <2> QED
        BY <2>1, <2>2, <2>3, <2>4 DEF VInv
<1>2. ASSUME NEW g \in Grids, Resize(g) PROVE VInv'
    BY <1>2 DEF Resize, Sync, VInv
<1>3. ASSUME NEW n \in 1 .. Rows, ScrollBack(n) PROVE VInv'
    <2>1. offset' \in 0 .. Len(back)
        BY <1>0, <1>3 DEF ScrollBack, Lesser
    <2> QED
        BY <1>3, <2>1 DEF ScrollBack, Sync, VInv
<1>4. ASSUME NEW n \in 1 .. Rows, ScrollForth(n) PROVE VInv'
    <2>1. offset' \in 0 .. Len(back)
        BY <1>0, <1>4 DEF ScrollForth, Saturating, VInv
    <2> QED
        BY <1>4, <2>1 DEF ScrollForth, Sync, VInv
<1>5. CASE Type
    BY <1>0, <1>5 DEF Type, VInv
<1>6. CASE UNCHANGED viewVars
    BY <1>6 DEF viewVars, VInv
<1> QED
    BY <1>1, <1>2, <1>3, <1>4, <1>5, <1>6 DEF ViewNext

(* A view that is not parked shows the live screen.                         *)
LEMMA WindowIsLive ==
    ASSUME VInv, offset = 0
    PROVE  Window(back, grid, offset) = grid
<1>1. back \in Seq(Kinds) /\ grid \in Seq(Kinds) /\ Len(grid) = Rows /\ Rows \in Nat \ {0}
    BY GridIsRows, ViewAssumption DEF VInv
<1>2. Len(back) - offset + 1 = Len(back) + 1 /\ Len(back) - offset + Rows = Len(back) + Rows
    BY <1>1 DEF VInv
<1>3. SubSeq(back \o grid, Len(back) + 1, Len(back) + Rows)
          = SubSeq(grid, (Len(back) + 1) - Len(back), (Len(back) + Rows) - Len(back))
    <2>1. /\ Len(back) + 1 \in Len(back) + 1 .. Len(back) + Len(grid)
          /\ Len(back) + Rows \in Len(back) + 1 .. Len(back) + Len(grid)
        BY <1>1
    <2> QED
        BY <1>1, <2>1, SubSeqOfConcat2
<1>4. (Len(back) + 1) - Len(back) = 1 /\ (Len(back) + Rows) - Len(back) = Rows
    BY <1>1
<1>5. SubSeq(grid, 1, Rows) = grid
    BY <1>1, SubSeqFull
<1> QED
    BY <1>2, <1>3, <1>4, <1>5 DEF Window

LEMMA ViewIsRead == VInv => LiveIsRead
<1> SUFFICES ASSUME VInv PROVE LiveIsRead
    OBVIOUS
<1>0. grid \in Seq(Kinds) /\ Len(grid) = Rows /\ Rows \in Nat /\ Band \in Nat \ {0} /\ Band <= Rows
    BY GridIsRows, ViewAssumption DEF VInv
<1>1. CASE offset = 0
    <2>1. parked = None /\ Window(back, grid, offset) = grid
        BY <1>1, WindowIsLive DEF VInv
    <2>2. FooterSignals = LiveSignals
        BY <2>1 DEF FooterSignals, LiveSignals, FooterLines, DialogLines
    <2>3. ViewTypeOK
        BY <1>1, <2>1 DEF ViewTypeOK, VInv, None
    <2> QED
        BY <2>2, <2>3 DEF LiveIsRead, WorkIsLive, AskedIsLive
<1>2. CASE offset # 0
    <2>1. parked = Lasts(grid, Band)
        BY <1>2 DEF VInv
    <2>2. parked \in Seq(Kinds) /\ Len(parked) = Band /\ parked # None
        <3>1. Lesser(Band, Rows) = Band
            BY <1>0 DEF Lesser
        <3>2. parked \in Seq(Kinds) /\ Len(parked) = Band
            BY <1>0, <2>1, <3>1, LastsAre
        <3> QED
            BY <1>0, <3>2 DEF None
    <2>3. ViewTypeOK
        <3>1. offset > 0
            BY <1>2 DEF VInv
        <3> QED
            BY <2>2, <3>1 DEF ViewTypeOK, VInv
    <2>4. FooterLines = Lasts(grid, Band) /\ DialogLines = Written(Lasts(grid, Band))
        BY <2>1, <2>2 DEF FooterLines, DialogLines
    <2>5. \A k : Contains(DialogLines, k) => Contains(Written(grid), k)
        BY <2>4, BandIsLive DEF VInv
    <2>6. WorkIsLive
        BY <2>4 DEF WorkIsLive, FooterSignals, LiveSignals, Signals
    <2>7. AskedIsLive
        BY <2>4, <2>5 DEF AskedIsLive, FooterSignals, LiveSignals, Signals
    <2> QED
        BY <2>3, <2>6, <2>7 DEF LiveIsRead
<1> QED
    BY <1>1, <1>2

(* However far somebody scrolls back and whatever is written meanwhile, a   *)
(* pane is read off its live screen (terminal.rs, footer_lines and          *)
(* dialog_lines).                                                           *)
THEOREM LiveScreenIsRead == ViewSpec => []LiveIsRead
<1>1. ViewSpec => []VInv
    BY ViewStarts, ViewKeeps, PTL DEF ViewSpec
<1> QED
    BY <1>1, ViewIsRead, PTL

-----------------------------------------------------------------------------
(* THE STREAM OF A PANE.  The rewriter and the ring.                        *)
Hvps == [state : {"ground", "esc", "csi"}, plain : BOOLEAN]

LEMMA StepTypes ==
    ASSUME NEW h \in Hvps, NEW b
    PROVE  Step(h, b) \in Hvps
BY DEF Hvps, Step, Esc, Finals, Digits

(* The states of the rewriter over some bytes.                              *)
Passing(f, h, bytes) ==
    /\ f \in [0 .. Len(bytes) -> Hvps]
    /\ f[0] = h
    /\ \A i \in 1 .. Len(bytes) : f[i] = Step(f[i - 1], bytes[i])

LEMMA PassingIs ==
    ASSUME NEW h \in Hvps, NEW bytes \in Seq(Bytes)
    PROVE  \E f : /\ Passing(f, h, bytes)
                  /\ f = [i \in 0 .. Len(bytes) |-> IF i = 0 THEN h ELSE Step(f[i - 1], bytes[i])]
<1> DEFINE n == Len(bytes)
           step == [x \in Hvps \X (1 .. n) |-> Step(x[1], bytes[x[2]])]
<1>1. n \in Nat
    OBVIOUS
<1>2. step \in [Hvps \X (1 .. n) -> Hvps]
    <2>1. \A x \in Hvps \X (1 .. n) : Step(x[1], bytes[x[2]]) \in Hvps
        BY StepTypes
    <2> QED
        BY <2>1
<1>3. \A g \in Hvps, i \in 1 .. n : step[g, i] = Step(g, bytes[i])
    OBVIOUS
<1> HIDE DEF n, step
<1>4. PICK f \in [0 .. n -> Hvps] : Iterates(f, n, h, step)
    BY <1>1, <1>2, Iterated
<1>5. f[0] = h
    BY <1>4 DEF Iterates
<1>6. ASSUME NEW i \in 1 .. n PROVE f[i] = Step(f[i - 1], bytes[i])
    <2>1. f[i] = step[f[i - 1], i]
        BY <1>4 DEF Iterates
    <2>2. i - 1 \in 0 .. n
        BY <1>1
    <2>3. f[i - 1] \in Hvps
        BY <2>2
    <2> QED
        BY <1>3, <2>1, <2>3
<1> DEFINE e(i) == IF i = 0 THEN h ELSE Step(f[i - 1], bytes[i])
<1>7. f = [i \in 0 .. n |-> e(i)]
    <2>1. \A i \in 0 .. n : f[i] = e(i)
        <3> SUFFICES ASSUME NEW i \in 0 .. n PROVE f[i] = e(i)
            OBVIOUS
        <3>1. CASE i = 0
            BY <1>5, <3>1
        <3>2. CASE i # 0
            <4>1. i \in 1 .. n
                BY <1>1, <3>2
            <4> QED
                BY <1>6, <3>2, <4>1
        <3> QED
            BY <3>1, <3>2
    <2> HIDE DEF e
    <2> QED
        BY <2>1
<1> QED
    BY <1>4, <1>5, <1>6, <1>7 DEF n, Passing

LEMMA PassingAll ==
    ASSUME NEW h \in Hvps, NEW bytes \in Seq(Bytes), NEW f,
           f = [i \in 0 .. Len(bytes) |-> IF i = 0 THEN h ELSE Step(f[i - 1], bytes[i])]
    PROVE  Passing(f, h, bytes)
<1> DEFINE n == Len(bytes)
           S == {i \in 0 .. n : f[i] \in Hvps}
<1>1. n \in Nat
    OBVIOUS
<1> HIDE DEF n
<1>2. f[0] = h
    BY <1>1 DEF n
<1>3. \A i \in 1 .. n : f[i] = Step(f[i - 1], bytes[i])
    BY <1>1 DEF n
<1>4. DOMAIN f = 0 .. n
    BY DEF n
<1>5. 0 \in S
    BY <1>1, <1>2
<1>6. ASSUME NEW i \in 0 .. n - 1, i \in S PROVE i + 1 \in S
    <2>1. i + 1 \in 1 .. n /\ (i + 1) - 1 = i /\ i + 1 \in 0 .. n
        BY <1>1
    <2>2. f[i + 1] = Step(f[i], bytes[i + 1])
        BY <1>3, <2>1
    <2>3. f[i + 1] \in Hvps
        BY <1>6, <2>2, StepTypes
    <2> QED
        BY <2>1, <2>3
<1> HIDE DEF S
<1>7. \A i \in 0 .. n : i \in S
    BY <1>1, <1>5, <1>6, UpTo
<1>8. f \in [0 .. n -> Hvps]
    <2>1. f = [i \in 0 .. n |-> f[i]]
        BY DEF n
    <2>2. \A i \in 0 .. n : f[i] \in Hvps
        BY <1>7 DEF S
    <2> HIDE DEF Hvps
    <2> QED
        BY <2>1, <2>2
<1> QED
    BY <1>2, <1>3, <1>8 DEF Passing, n

LEMMA RewriteIs ==
    ASSUME NEW h \in Hvps, NEW bytes \in Seq(Bytes)
    PROVE  \E f : /\ Passing(f, h, bytes)
                  /\ Rewrite(h, bytes).hvp = f[Len(bytes)]
                  /\ Rewrite(h, bytes).out = [i \in 1 .. Len(bytes) |-> Swap(f[i - 1], bytes[i])]
<1> DEFINE after[i \in 0 .. Len(bytes)] == IF i = 0 THEN h ELSE Step(after[i - 1], bytes[i])
<1>1. \E f : f = [i \in 0 .. Len(bytes) |-> IF i = 0 THEN h ELSE Step(f[i - 1], bytes[i])]
    BY PassingIs
<1>2. after = [i \in 0 .. Len(bytes) |-> IF i = 0 THEN h ELSE Step(after[i - 1], bytes[i])]
    BY <1>1
<1>4. /\ Rewrite(h, bytes).hvp = after[Len(bytes)]
      /\ Rewrite(h, bytes).out = [i \in 1 .. Len(bytes) |-> Swap(after[i - 1], bytes[i])]
    BY DEF Rewrite
<1> HIDE DEF after
<1>3. Passing(after, h, bytes)
    BY <1>2, PassingAll
<1> QED
    BY <1>3, <1>4

LEMMA PassingIsOne ==
    ASSUME NEW h, NEW bytes \in Seq(Bytes), NEW f, Passing(f, h, bytes), NEW g, Passing(g, h, bytes)
    PROVE  f = g
<1> DEFINE n == Len(bytes)
           S == {i \in 0 .. n : f[i] = g[i]}
<1>1. n \in Nat
    OBVIOUS
<1>2. /\ f \in [0 .. n -> Hvps] /\ f[0] = h /\ \A i \in 1 .. n : f[i] = Step(f[i - 1], bytes[i])
      /\ g \in [0 .. n -> Hvps] /\ g[0] = h /\ \A i \in 1 .. n : g[i] = Step(g[i - 1], bytes[i])
    BY DEF Passing
<1> HIDE DEF n
<1>3. 0 \in S
    BY <1>1, <1>2
<1>4. ASSUME NEW i \in 0 .. n - 1, i \in S PROVE i + 1 \in S
    <2>1. i + 1 \in 1 .. n /\ (i + 1) - 1 = i /\ i + 1 \in 0 .. n
        BY <1>1
    <2>2. f[i + 1] = Step(f[i], bytes[i + 1]) /\ g[i + 1] = Step(g[i], bytes[i + 1])
        BY <1>2, <2>1
    <2> QED
        BY <1>4, <2>1, <2>2
<1> HIDE DEF S
<1>5. \A i \in 0 .. n : i \in S
    BY <1>1, <1>3, <1>4, UpTo
<1>6. \A i \in 0 .. n : f[i] = g[i]
    BY <1>5 DEF S
<1>7. f \in [0 .. n -> Hvps] /\ g \in [0 .. n -> Hvps]
    BY <1>2
<1>8. f = [i \in 0 .. n |-> f[i]] /\ g = [i \in 0 .. n |-> g[i]]
    BY <1>7, Zenon
<1> QED
    BY <1>6, <1>8

LEMMA RewriteBy ==
    ASSUME NEW h \in Hvps, NEW bytes \in Seq(Bytes), NEW f, Passing(f, h, bytes)
    PROVE  /\ Rewrite(h, bytes).hvp = f[Len(bytes)]
           /\ Rewrite(h, bytes).out = [i \in 1 .. Len(bytes) |-> Swap(f[i - 1], bytes[i])]
<1>1. PICK g : /\ Passing(g, h, bytes)
               /\ Rewrite(h, bytes).hvp = g[Len(bytes)]
               /\ Rewrite(h, bytes).out = [i \in 1 .. Len(bytes) |-> Swap(g[i - 1], bytes[i])]
    BY RewriteIs
<1>2. f = g
    BY <1>1, PassingIsOne
<1> QED
    BY <1>1, <1>2

LEMMA RewriteTypes ==
    ASSUME NEW h \in Hvps, NEW bytes \in Seq(Bytes)
    PROVE  /\ Rewrite(h, bytes).hvp \in Hvps
           /\ Rewrite(h, bytes).out \in Seq(Bytes) /\ Len(Rewrite(h, bytes).out) = Len(bytes)
<1>1. PICK f : /\ Passing(f, h, bytes)
               /\ Rewrite(h, bytes).hvp = f[Len(bytes)]
               /\ Rewrite(h, bytes).out = [i \in 1 .. Len(bytes) |-> Swap(f[i - 1], bytes[i])]
    BY RewriteIs
<1>2. Len(bytes) \in Nat /\ \A i \in 1 .. Len(bytes) : bytes[i] \in Bytes
    OBVIOUS
<1>3. f[Len(bytes)] \in Hvps
    BY <1>1, <1>2 DEF Passing
<1>4. \A i \in 1 .. Len(bytes) : Swap(f[i - 1], bytes[i]) \in Bytes
    <2>1. ASSUME NEW i \in 1 .. Len(bytes) PROVE Swap(f[i - 1], bytes[i]) \in {"H", bytes[i]}
        BY DEF Swap
    <2>2. "H" \in Bytes
        BY DEF Bytes, Finals
    <2> QED
        BY <1>2, <2>1, <2>2
<1> DEFINE o(i) == Swap(f[i - 1], bytes[i])
           n == Len(bytes)
<1> HIDE DEF o, n
<1>5. ASSUME \A i \in 1 .. n : o(i) \in Bytes, n \in Nat
      PROVE  [i \in 1 .. n |-> o(i)] \in Seq(Bytes) /\ Len([i \in 1 .. n |-> o(i)]) = n
    BY <1>5
<1> QED
    BY <1>1, <1>2, <1>3, <1>4, <1>5 DEF o, n

(* What is rewritten in two reads is what is rewritten in one.              *)
LEMMA RewriteOn ==
    ASSUME NEW h \in Hvps, NEW s \in Seq(Bytes), NEW t \in Seq(Bytes)
    PROVE  /\ Rewrite(h, s \o t).hvp = Rewrite(Rewrite(h, s).hvp, t).hvp
           /\ Rewrite(h, s \o t).out = Rewrite(h, s).out \o Rewrite(Rewrite(h, s).hvp, t).out
<1> DEFINE k == Rewrite(h, s).hvp
           m == Len(s)
           n == Len(t)
           st == s \o t
<1>1. m \in Nat /\ n \in Nat /\ st \in Seq(Bytes) /\ Len(st) = m + n
    BY ConcatProperties
<1>2. \A i \in 1 .. m + n : st[i] = IF i <= m THEN s[i] ELSE t[i - m]
    BY ConcatProperties
<1>3. PICK f : /\ Passing(f, h, s) /\ k = f[m]
               /\ Rewrite(h, s).out = [i \in 1 .. m |-> Swap(f[i - 1], s[i])]
    BY RewriteIs
<1>4. k \in Hvps
    BY RewriteTypes
<1>5. PICK g : /\ Passing(g, k, t) /\ Rewrite(k, t).hvp = g[n]
               /\ Rewrite(k, t).out = [i \in 1 .. n |-> Swap(g[i - 1], t[i])]
    BY <1>4, RewriteIs
<1>6. /\ f \in [0 .. m -> Hvps] /\ f[0] = h /\ \A i \in 1 .. m : f[i] = Step(f[i - 1], s[i])
      /\ g \in [0 .. n -> Hvps] /\ g[0] = k /\ \A i \in 1 .. n : g[i] = Step(g[i - 1], t[i])
    BY <1>3, <1>5 DEF Passing
<1> DEFINE j == [i \in 0 .. m + n |-> IF i <= m THEN f[i] ELSE g[i - m]]
<1> HIDE DEF k, m, n, st
<1>7. j \in [0 .. m + n -> Hvps]
    <2>1. \A i \in 0 .. m + n : (i <= m => i \in 0 .. m) /\ (~ (i <= m) => i - m \in 0 .. n)
        BY <1>1
    <2>2. \A i \in 0 .. m + n : (IF i <= m THEN f[i] ELSE g[i - m]) \in Hvps
        BY <1>6, <2>1
    <2> QED
        BY <2>2
<1>8. \A i \in 0 .. m : j[i] = f[i]
    BY <1>1
<1>9. \A i \in 0 .. n : j[m + i] = g[i]
    <2> SUFFICES ASSUME NEW i \in 0 .. n PROVE j[m + i] = g[i]
        OBVIOUS
    <2>1. m + i \in 0 .. m + n /\ (m + i) - m = i
        BY <1>1
    <2>2. CASE i = 0
        BY <1>1, <1>3, <1>6, <1>8, <2>2 DEF m
    <2>3. CASE i # 0
        BY <1>1, <2>1, <2>3
    <2> QED
        BY <2>2, <2>3
<1> HIDE DEF j
<1>10. j[0] = h
    <2>1. 0 \in 0 .. m
        BY <1>1
    <2> QED
        BY <1>6, <1>8, <2>1
<1>11. ASSUME NEW i \in 1 .. m + n PROVE j[i] = Step(j[i - 1], st[i])
    <2>1. CASE i <= m
        <3>1. i \in 1 .. m /\ i \in 0 .. m /\ i - 1 \in 0 .. m /\ st[i] = s[i]
            BY <1>1, <1>2, <2>1
        <3> QED
            BY <1>6, <1>8, <3>1
    <2>2. CASE ~ (i <= m)
        <3> DEFINE l == i - m
        <3>1. l \in 1 .. n /\ l \in 0 .. n /\ l - 1 \in 0 .. n /\ m + l = i /\ m + (l - 1) = i - 1
            BY <1>1, <2>2
        <3>2. st[i] = t[l]
            BY <1>2, <2>2
        <3> HIDE DEF l
        <3>3. j[i] = g[l] /\ j[i - 1] = g[l - 1]
            BY <1>9, <3>1
        <3> QED
            BY <1>6, <3>1, <3>2, <3>3
    <2> QED
        BY <2>1, <2>2
<1>12. Passing(j, h, st)
    BY <1>1, <1>7, <1>10, <1>11 DEF Passing
<1>13. /\ Rewrite(h, st).hvp = j[m + n]
       /\ Rewrite(h, st).out = [i \in 1 .. m + n |-> Swap(j[i - 1], st[i])]
    <2>1. /\ Rewrite(h, st).hvp = j[Len(st)]
          /\ Rewrite(h, st).out = [i \in 1 .. Len(st) |-> Swap(j[i - 1], st[i])]
        BY <1>1, <1>12, RewriteBy
    <2> QED
        BY <1>1, <2>1
<1>14. Rewrite(h, st).hvp = Rewrite(k, t).hvp
    <2>1. n \in 0 .. n
        BY <1>1
    <2> QED
        BY <1>5, <1>9, <1>13, <2>1
<1> DEFINE a == Rewrite(h, s).out
           b == Rewrite(k, t).out
           o == Rewrite(h, st).out
<1>15. /\ a \in Seq(Bytes) /\ Len(a) = m /\ b \in Seq(Bytes) /\ Len(b) = n
       /\ o \in Seq(Bytes) /\ Len(o) = m + n
    BY <1>1, <1>4, RewriteTypes DEF m, n
<1>16. /\ \A i \in 1 .. m : a[i] = Swap(f[i - 1], s[i])
       /\ \A i \in 1 .. n : b[i] = Swap(g[i - 1], t[i])
       /\ \A i \in 1 .. m + n : o[i] = Swap(j[i - 1], st[i])
    BY <1>3, <1>5, <1>13
<1> HIDE DEF a, b, o
<1>17. ASSUME NEW i \in 1 .. m + n PROVE o[i] = IF i <= m THEN a[i] ELSE b[i - m]
    <2>1. CASE i <= m
        <3>1. i \in 1 .. m /\ i - 1 \in 0 .. m /\ st[i] = s[i]
            BY <1>1, <1>2, <2>1
        <3> QED
            BY <1>8, <1>16, <2>1, <3>1
    <2>2. CASE ~ (i <= m)
        <3> DEFINE l == i - m
        <3>1. l \in 1 .. n /\ l - 1 \in 0 .. n /\ m + (l - 1) = i - 1
            BY <1>1, <2>2
        <3>2. st[i] = t[l]
            BY <1>2, <2>2
        <3> HIDE DEF l
        <3>3. j[i - 1] = g[l - 1]
            BY <1>9, <3>1
        <3>4. o[i] = b[l]
            BY <1>16, <3>1, <3>2, <3>3
        <3> QED
            BY <2>2, <3>4 DEF l
    <2> QED
        BY <2>1, <2>2
<1>18. o = a \o b
    <2>1. /\ a \o b \in Seq(Bytes) /\ Len(a \o b) = m + n
          /\ \A i \in 1 .. m + n : (a \o b)[i] = IF i <= m THEN a[i] ELSE b[i - m]
        BY <1>15, ConcatProperties
    <2> QED
        BY <1>15, <1>17, <2>1, SeqEqual
<1> QED
    BY <1>14, <1>18 DEF k, st, a, b, o

-----------------------------------------------------------------------------
(* The last bytes of a sequence, and of one that goes on.                   *)
LastOf(s, n) == SubSeq(s, Less(Len(s), n) + 1, Len(s))

LEMMA LastOfIs ==
    ASSUME NEW S, NEW s \in Seq(S), NEW n \in Nat
    PROVE  /\ Less(Len(s), n) \in 0 .. Len(s)
           /\ Less(Len(s), n) = IF Len(s) > n THEN Len(s) - n ELSE 0
           /\ LastOf(s, n) \in Seq(S) /\ Len(LastOf(s, n)) = Len(s) - Less(Len(s), n)
           /\ \A i \in 1 .. Len(s) - Less(Len(s), n) : LastOf(s, n)[i] = s[Less(Len(s), n) + i]
<1> DEFINE from == Less(Len(s), n)
<1>1. Len(s) \in Nat /\ from = IF Len(s) > n THEN Len(s) - n ELSE 0
    BY DEF Less
<1>0. LastOf(s, n) = SubSeq(s, from + 1, Len(s))
    BY DEF LastOf
<1> HIDE DEF from
<1>2. from \in 0 .. Len(s)
    BY <1>1
<1>3. \A i \in from + 1 .. Len(s) : s[i] \in S
    BY <1>1, <1>2
<1>4. /\ LastOf(s, n) \in Seq(S)
      /\ Len(LastOf(s, n)) = IF from + 1 <= Len(s) THEN Len(s) - (from + 1) + 1 ELSE 0
      /\ \A i \in 1 .. Len(s) - (from + 1) + 1 : LastOf(s, n)[i] = s[(from + 1) + i - 1]
    <2>1. from + 1 \in Int /\ Len(s) \in Int
        BY <1>1, <1>2
    <2> QED
        BY <1>0, <1>3, <2>1, SubSeqProperties
<1>5. Len(LastOf(s, n)) = Len(s) - from
    <2>1. CASE from = Len(s)
        <3>1. ~ (from + 1 <= Len(s)) /\ Len(s) - from = 0
            BY <1>1, <1>2, <2>1
        <3> QED
            BY <1>4, <3>1
    <2>2. CASE from # Len(s)
        <3>1. from + 1 <= Len(s) /\ Len(s) - (from + 1) + 1 = Len(s) - from
            BY <1>1, <1>2, <2>2
        <3> QED
            BY <1>4, <3>1
    <2> QED
        BY <2>1, <2>2
<1>6. ASSUME NEW i \in 1 .. Len(s) - from PROVE LastOf(s, n)[i] = s[from + i]
    <2>1. i \in 1 .. Len(s) - (from + 1) + 1 /\ (from + 1) + i - 1 = from + i
        BY <1>1, <1>2
    <2> QED
        BY <1>4, <2>1
<1> QED
    BY <1>1, <1>2, <1>4, <1>5, <1>6 DEF from

(* How the ring is cut: of L bytes kept and B new ones the last K.          *)
RingOf(L, B, K, fs, fb, over, from) ==
    /\ fs \in 0 .. L /\ fb \in 0 .. B /\ over \in 0 .. L - fs /\ from \in 0 .. L + B
    /\ ((L - fs) - over) + (B - fb) = L + B - from
    /\ (L - fs) - over > 0 => fs + over = from
    /\ fb - ((L - fs) - over) = from - L

LEMMA RingAdds ==
    ASSUME NEW L \in Nat, NEW B \in Nat, NEW K \in Nat
    PROVE  RingOf(L, B, K, Less(L, K), Less(B, K),
                  Less((L - Less(L, K)) + (B - Less(B, K)), K), Less(L + B, K))
<1> USE DEF RingOf
<1>1. \A x \in Nat : Less(x, K) = IF x > K THEN x - K ELSE 0
    BY DEF Less
<1>2. CASE B > K
    <2>1. Less(B, K) = B - K /\ Less(L + B, K) = L + B - K /\ L + B \in Nat
        BY <1>1, <1>2
    <2>2. CASE L > K
        <3>1. Less(L, K) = L - K /\ K + K \in Nat
            BY <1>1, <2>2
        <3>2. Less(K + K, K) = K
            BY <1>1
        <3>3. (L - Less(L, K)) + (B - Less(B, K)) = K + K
            BY <2>1, <3>1
        <3> QED
            BY <1>2, <2>1, <2>2, <3>1, <3>2, <3>3
    <2>3. CASE ~ (L > K)
        <3>1. Less(L, K) = 0 /\ L + K \in Nat
            BY <1>1, <2>3
        <3>2. Less(L + K, K) = L
            BY <1>1
        <3>3. (L - Less(L, K)) + (B - Less(B, K)) = L + K
            BY <2>1, <3>1
        <3> QED
            BY <1>2, <2>1, <2>3, <3>1, <3>2, <3>3
    <2> QED
        BY <2>2, <2>3
<1>3. CASE ~ (B > K)
    <2>1. Less(B, K) = 0
        BY <1>1, <1>3
    <2>2. CASE L > K
        <3>1. Less(L, K) = L - K /\ K + B \in Nat
            BY <1>1, <2>2
        <3>2. Less(K + B, K) = B /\ Less(L + B, K) = L + B - K
            BY <1>1, <2>2
        <3>3. (L - Less(L, K)) + (B - Less(B, K)) = K + B
            BY <2>1, <3>1
        <3> QED
            BY <1>3, <2>1, <2>2, <3>1, <3>2, <3>3
    <2>3. CASE ~ (L > K)
        <3>1. Less(L, K) = 0 /\ L + B \in Nat
            BY <1>1, <2>3
        <3>2. (L - Less(L, K)) + (B - Less(B, K)) = L + B
            BY <2>1, <3>1
        <3>3. Less(L + B, K) = IF L + B > K THEN L + B - K ELSE 0
            BY <1>1, <3>1
        <3> QED
            BY <1>3, <2>1, <2>3, <3>1, <3>2, <3>3
    <2> QED
        BY <2>2, <2>3
<1> QED
    BY <1>2, <1>3

(* The ring holds the last bytes of what was pushed.                        *)
LEMMA PushIs ==
    ASSUME NEW s \in Seq(Bytes), NEW b \in Seq(Bytes)
    PROVE  Push(LastOf(s, Keep), b) = LastOf(s \o b, Keep)
<1> DEFINE L == Len(s)
           B == Len(b)
           K == Keep
           fs == Less(L, K)
           fb == Less(B, K)
           kept == LastOf(s, K)
           fit == LastOf(b, K)
           sum == (L - fs) + (B - fb)
           over == Less(sum, K)
           from == Less(L + B, K)
           all == s \o b
           old == SubSeq(kept, over + 1, L - fs)
           ring1 == LastOf(all, K)
<1>1. L \in Nat /\ B \in Nat /\ K \in Nat
    BY StreamAssumption
<1>2. /\ all \in Seq(Bytes) /\ Len(all) = L + B
      /\ \A i \in 1 .. L + B : all[i] = IF i <= L THEN s[i] ELSE b[i - L]
    BY ConcatProperties
<1>3. /\ fs \in 0 .. L /\ fs = IF L > K THEN L - K ELSE 0
      /\ kept \in Seq(Bytes) /\ Len(kept) = L - fs
      /\ \A i \in 1 .. L - fs : kept[i] = s[fs + i]
    BY <1>1, LastOfIs
<1>4. /\ fb \in 0 .. B /\ fb = IF B > K THEN B - K ELSE 0
      /\ fit \in Seq(Bytes) /\ Len(fit) = B - fb
      /\ \A i \in 1 .. B - fb : fit[i] = b[fb + i]
    BY <1>1, LastOfIs
<1>5. /\ from \in 0 .. L + B /\ from = IF L + B > K THEN L + B - K ELSE 0
      /\ ring1 \in Seq(Bytes) /\ Len(ring1) = L + B - from
      /\ \A i \in 1 .. L + B - from : ring1[i] = all[from + i]
    <2>1. /\ Less(Len(all), K) \in 0 .. Len(all)
          /\ Less(Len(all), K) = IF Len(all) > K THEN Len(all) - K ELSE 0
          /\ LastOf(all, K) \in Seq(Bytes) /\ Len(LastOf(all, K)) = Len(all) - Less(Len(all), K)
          /\ \A i \in 1 .. Len(all) - Less(Len(all), K) :
                 LastOf(all, K)[i] = all[Less(Len(all), K) + i]
        <3> HIDE DEF all, K
        <3> QED
            BY <1>1, <1>2, LastOfIs
    <2>2. Len(all) = L + B
        BY <1>2
    <2>3. Less(Len(all), K) = from
        BY <2>2
    <2>4. LastOf(all, K) = ring1
        OBVIOUS
    <2> DEFINE n == Len(all)
    <2> HIDE DEF all, K, L, B, from, ring1, n
    <2>5. n = L + B /\ Less(n, K) = from
        BY <2>2, <2>3 DEF n
    <2>6. /\ from \in 0 .. n /\ from = IF n > K THEN n - K ELSE 0
          /\ ring1 \in Seq(Bytes) /\ Len(ring1) = n - from
          /\ \A i \in 1 .. n - from : ring1[i] = all[from + i]
        BY <2>1, <2>4, <2>5 DEF n
    <2>7. from \in 0 .. L + B /\ from = IF L + B > K THEN L + B - K ELSE 0
        BY <1>1, <2>5, <2>6
    <2>8. /\ ring1 \in Seq(Bytes) /\ Len(ring1) = L + B - from
          /\ \A i \in 1 .. L + B - from : ring1[i] = all[from + i]
        BY <1>1, <2>5, <2>6
    <2> QED
        BY <2>7, <2>8
<1>6. Push(kept, b) = IF K = 0 THEN kept ELSE old \o fit
    <2>1. fit = IF B > K THEN SubSeq(b, B - K + 1, B) ELSE b
        <3>1. CASE B > K
            BY <1>1, <1>4, <3>1 DEF LastOf
        <3>2. CASE ~ (B > K)
            <4>1. Less(B, K) + 1 = 1
                BY <1>1, <1>4, <3>2
            <4>2. SubSeq(b, 1, B) = b
                BY SubSeqFull
            <4> QED
                BY <3>2, <4>1, <4>2 DEF LastOf
        <3> QED
            BY <3>1, <3>2
    <2>2. over = IF Len(kept) + Len(fit) > K THEN Len(kept) + Len(fit) - K ELSE 0
        <3>0. \A x, y \in Nat : Less(x, y) = IF x > y THEN x - y ELSE 0
            BY DEF Less
        <3>1. over = IF sum > K THEN sum - K ELSE 0
            <4> HIDE DEF L, B, K, fs, fb
            <4>1. sum \in Nat
                BY <1>1, <1>3, <1>4
            <4> HIDE DEF sum
            <4>2. Less(sum, K) = IF sum > K THEN sum - K ELSE 0
                BY <1>1, <3>0, <4>1
            <4> QED
                BY <4>2
        <3>2. Len(kept) = L - fs /\ Len(fit) = B - fb
            BY <1>3, <1>4
        <3> HIDE DEF kept, fit, over, L, B, K, fs, fb
        <3>3. Len(kept) + Len(fit) = sum /\ Len(kept) \in Nat /\ Len(fit) \in Nat /\ sum \in Nat
            BY <1>1, <1>3, <1>4, <3>2
        <3> HIDE DEF sum
        <3> QED
            BY <1>1, <3>1, <3>3
    <2> QED
        BY <1>3, <2>1, <2>2 DEF Push
<1> DEFINE p == (L - fs) - over
<1>7. /\ over \in 0 .. L - fs
      /\ p + (B - fb) = L + B - from
      /\ p > 0 => fs + over = from
      /\ fb - p = from - L
    <2> HIDE DEF L, B, K
    <2>1. RingOf(L, B, K, fs, fb, over, from)
        BY <1>1, RingAdds
    <2> HIDE DEF over, from, fs, fb
    <2> QED
        BY <2>1 DEF RingOf
<1> HIDE DEF L, B, K, fs, fb, kept, fit, over, from, all, ring1
<1>8. /\ old \in Seq(Bytes) /\ Len(old) = p
      /\ \A i \in 1 .. p : old[i] = kept[over + i]
    <2>1. over + 1 \in Int /\ L - fs \in Int
        BY <1>1, <1>3, <1>7
    <2>2. \A i \in over + 1 .. L - fs : kept[i] \in Bytes
        BY <1>1, <1>3, <1>7
    <2>3. /\ old \in Seq(Bytes)
          /\ Len(old) = IF over + 1 <= L - fs THEN (L - fs) - (over + 1) + 1 ELSE 0
          /\ \A i \in 1 .. (L - fs) - (over + 1) + 1 : old[i] = kept[(over + 1) + i - 1]
        BY <2>1, <2>2, SubSeqProperties
    <2>4. (L - fs) - (over + 1) + 1 = p /\ (over + 1 <= L - fs <=> p > 0) /\ p \in Nat
        BY <1>1, <1>3, <1>7
    <2>5. \A i \in 1 .. p : (over + 1) + i - 1 = over + i
        BY <1>7
    <2> QED
        BY <2>3, <2>4, <2>5
<1> HIDE DEF old
<1>9. CASE K = 0
    <2>1. Len(kept) = 0 /\ Len(ring1) = 0
        BY <1>1, <1>3, <1>5, <1>9
    <2>2. kept = ring1
        BY <1>3, <1>5, <2>1, SeqEqual
    <2> QED
        BY <1>6, <1>9, <2>2 DEF kept, ring1, all, K
<1>10. CASE K # 0
    <2>1. /\ old \o fit \in Seq(Bytes) /\ Len(old \o fit) = L + B - from
          /\ \A i \in 1 .. L + B - from :
                 (old \o fit)[i] = IF i <= p THEN old[i] ELSE fit[i - p]
        <3>1. /\ old \o fit \in Seq(Bytes) /\ Len(old \o fit) = Len(old) + Len(fit)
              /\ \A i \in 1 .. Len(old) + Len(fit) :
                     (old \o fit)[i] = IF i <= Len(old) THEN old[i] ELSE fit[i - Len(old)]
            BY <1>4, <1>8, ConcatProperties
        <3>2. Len(old) = p /\ Len(old) + Len(fit) = L + B - from
            BY <1>4, <1>7, <1>8
        <3> QED
            BY <3>1, <3>2
    <2>2. ASSUME NEW i \in 1 .. L + B - from PROVE (old \o fit)[i] = ring1[i]
        <3>0. ring1[i] = all[from + i] /\ from + i \in 1 .. L + B
            BY <1>1, <1>5
        <3>1. CASE i <= p
            <4>1. p > 0 /\ i \in 1 .. p /\ over + i \in 1 .. L - fs
                BY <1>1, <1>3, <1>7, <3>1
            <4>2. fs + (over + i) = from + i /\ from + i <= L
                <5>1. fs \in Int /\ from \in Int /\ L \in Int /\ over \in Int
                    BY <1>1, <1>3, <1>5, <1>7
                <5>2. i \in Int /\ fs + over = from /\ over + i <= L - fs
                    BY <1>7, <4>1
                <5> QED
                    BY <5>1, <5>2
            <4>3. (old \o fit)[i] = s[from + i]
                <5>1. (old \o fit)[i] = old[i]
                    BY <2>1, <3>1
                <5>2. old[i] = kept[over + i]
                    BY <1>8, <4>1
                <5>3. kept[over + i] = s[fs + (over + i)]
                    BY <1>3, <4>1
                <5> QED
                    BY <4>2, <5>1, <5>2, <5>3
            <4> QED
                BY <1>2, <3>0, <4>2, <4>3
        <3>2. CASE ~ (i <= p)
            <4>1. i - p \in 1 .. B - fb
                BY <1>1, <1>3, <1>4, <1>5, <1>7, <3>2
            <4>2. fb + (i - p) = (from + i) - L /\ ~ (from + i <= L)
                <5>1. fb \in Nat /\ from \in Int /\ L \in Int /\ p \in Int
                    BY <1>1, <1>3, <1>4, <1>5, <1>7
                <5>2. i \in Int /\ fb - p = from - L /\ i - p >= 1
                    BY <1>7, <4>1
                <5>3. \A x \in Nat, v, w, y, z \in Int :
                          x - v = w - y /\ z - v >= 1 =>
                              x + (z - v) = (w + z) - y /\ ~ (w + z <= y)
                    OBVIOUS
                <5> QED
                    BY <5>1, <5>2, <5>3, Zenon
            <4>3. (old \o fit)[i] = b[(from + i) - L]
                <5>1. (old \o fit)[i] = fit[i - p]
                    BY <2>1, <3>2
                <5>2. fit[i - p] = b[fb + (i - p)]
                    BY <1>4, <4>1
                <5> QED
                    BY <4>2, <5>1, <5>2
            <4> QED
                BY <1>2, <3>0, <4>2, <4>3
        <3> QED
            BY <3>1, <3>2
    <2>3. old \o fit = ring1
        BY <1>5, <2>1, <2>2, SeqEqual
    <2> QED
        BY <1>6, <1>10, <2>3 DEF kept, ring1, all, K
<1> QED
    BY <1>9, <1>10

-----------------------------------------------------------------------------
(* The first bytes of a stream that goes on, and of one that is read on.    *)
LEMMA FirstOf ==
    ASSUME NEW s \in Seq(Bytes), NEW n \in 0 .. Len(s)
    PROVE  /\ SubSeq(s, 1, n) \in Seq(Bytes) /\ Len(SubSeq(s, 1, n)) = n
           /\ \A i \in 1 .. n : SubSeq(s, 1, n)[i] = s[i]
<1>1. Len(s) \in Nat /\ n \in Nat /\ n <= Len(s) /\ \A i \in 1 .. n : s[i] \in Bytes
    OBVIOUS
<1>2. /\ SubSeq(s, 1, n) \in Seq(Bytes) /\ Len(SubSeq(s, 1, n)) = IF 1 <= n THEN n - 1 + 1 ELSE 0
      /\ \A i \in 1 .. n - 1 + 1 : SubSeq(s, 1, n)[i] = s[1 + i - 1]
    BY <1>1, SubSeqProperties
<1> QED
    BY <1>1, <1>2

LEMMA FirstOfMore ==
    ASSUME NEW s \in Seq(Bytes), NEW t \in Seq(Bytes), NEW n \in 0 .. Len(s)
    PROVE  SubSeq(s \o t, 1, n) = SubSeq(s, 1, n)
<1> DEFINE all == s \o t
<1>1. /\ all \in Seq(Bytes) /\ Len(all) = Len(s) + Len(t)
      /\ \A i \in 1 .. Len(s) + Len(t) : all[i] = IF i <= Len(s) THEN s[i] ELSE t[i - Len(s)]
    BY ConcatProperties
<1>2. Len(s) \in Nat /\ Len(t) \in Nat /\ n \in Nat /\ n <= Len(s)
    OBVIOUS
<1> HIDE DEF all
<1>3. n \in 0 .. Len(all)
    BY <1>1, <1>2
<1>4. /\ SubSeq(all, 1, n) \in Seq(Bytes) /\ Len(SubSeq(all, 1, n)) = n
      /\ \A i \in 1 .. n : SubSeq(all, 1, n)[i] = all[i]
    BY <1>1, <1>3, FirstOf
<1>5. /\ SubSeq(s, 1, n) \in Seq(Bytes) /\ Len(SubSeq(s, 1, n)) = n
      /\ \A i \in 1 .. n : SubSeq(s, 1, n)[i] = s[i]
    BY FirstOf
<1>6. \A i \in 1 .. n : all[i] = s[i]
    BY <1>1, <1>2
<1> DEFINE a == SubSeq(all, 1, n)
           c == SubSeq(s, 1, n)
<1>7. /\ a \in Seq(Bytes) /\ c \in Seq(Bytes) /\ Len(a) = n /\ Len(c) = n
      /\ \A i \in 1 .. n : a[i] = c[i]
    BY <1>4, <1>5, <1>6
<1> HIDE DEF a, c
<1>8. a = c
    BY <1>7, SeqEqual
<1> QED
    BY <1>8 DEF a, c, all

LEMMA ReadOn ==
    ASSUME NEW s \in Seq(Bytes), NEW m \in Nat, NEW n \in Nat, m + n <= Len(s)
    PROVE  /\ SubSeq(s, m + 1, m + n) \in Seq(Bytes) /\ Len(SubSeq(s, m + 1, m + n)) = n
           /\ SubSeq(s, 1, m + n) = SubSeq(s, 1, m) \o SubSeq(s, m + 1, m + n)
<1> DEFINE a == SubSeq(s, 1, m)
           c == SubSeq(s, m + 1, m + n)
           all == SubSeq(s, 1, m + n)
<1>1. Len(s) \in Nat /\ m \in 0 .. Len(s) /\ m + n \in 0 .. Len(s)
    OBVIOUS
<1>2. \A i \in m + 1 .. m + n : s[i] \in Bytes
    BY <1>1
<1>3. /\ c \in Seq(Bytes) /\ Len(c) = IF m + 1 <= m + n THEN (m + n) - (m + 1) + 1 ELSE 0
      /\ \A i \in 1 .. (m + n) - (m + 1) + 1 : c[i] = s[(m + 1) + i - 1]
    <2>1. m + 1 \in Int /\ m + n \in Int
        OBVIOUS
    <2> QED
        BY <1>2, <2>1, SubSeqProperties
<1>4. a \in Seq(Bytes) /\ Len(a) = m /\ \A i \in 1 .. m : a[i] = s[i]
    BY <1>1, FirstOf
<1>5. all \in Seq(Bytes) /\ Len(all) = m + n /\ \A i \in 1 .. m + n : all[i] = s[i]
    BY <1>1, FirstOf
<1> HIDE DEF a, c, all
<1>6. Len(c) = n
    <2>1. (m + n) - (m + 1) + 1 = n
        OBVIOUS
    <2> QED
        BY <1>3, <2>1
<1>7. \A i \in 1 .. n : c[i] = s[m + i]
    <2> SUFFICES ASSUME NEW i \in 1 .. n PROVE c[i] = s[m + i]
        OBVIOUS
    <2>1. (m + 1) + i - 1 = m + i /\ i \in 1 .. (m + n) - (m + 1) + 1
        OBVIOUS
    <2> QED
        BY <1>3, <2>1
<1>8. /\ a \o c \in Seq(Bytes) /\ Len(a \o c) = m + n
      /\ \A i \in 1 .. m + n : (a \o c)[i] = IF i <= m THEN a[i] ELSE c[i - m]
    <2>1. /\ a \o c \in Seq(Bytes) /\ Len(a \o c) = Len(a) + Len(c)
          /\ \A i \in 1 .. Len(a) + Len(c) :
                 (a \o c)[i] = IF i <= Len(a) THEN a[i] ELSE c[i - Len(a)]
        BY <1>3, <1>4, ConcatProperties
    <2>2. Len(a) = m /\ Len(c) = n
        BY <1>4, <1>6
    <2> QED
        BY <2>1, <2>2
<1>9. ASSUME NEW i \in 1 .. m + n PROVE all[i] = (a \o c)[i]
    <2>1. CASE i <= m
        BY <1>4, <1>5, <1>8, <2>1
    <2>2. CASE ~ (i <= m)
        <3>1. i - m \in 1 .. n /\ m + (i - m) = i
            BY <2>2
        <3>2. c[i - m] = s[i]
            BY <1>7, <3>1
        <3> QED
            BY <1>5, <1>8, <2>2, <3>2
    <2> QED
        BY <2>1, <2>2
<1>10. all = a \o c
    BY <1>5, <1>8, <1>9, SeqEqual
<1> QED
    BY <1>3, <1>6, <1>10 DEF a, c, all

-----------------------------------------------------------------------------
(* However the stream was cut, the rewriter is where one read of it would   *)
(* have left it, and so are the screen and the ring.                        *)
StreamInv ==
    /\ tokens \in 0 .. MaxTokens
    /\ written \in Seq(Bytes) /\ read \in 0 .. Len(written)
    /\ hvp = Whole.hvp /\ screen = Whole.out
    /\ ring = LastOf(screen, Keep)
    /\ Len(carry) <= CarryMax /\ dropped \in BOOLEAN

LEMMA GroundTypes == Ground \in Hvps
BY DEF Ground, Hvps

LEMMA WholeTypes ==
    ASSUME written \in Seq(Bytes), read \in 0 .. Len(written)
    PROVE  Whole.hvp \in Hvps /\ Whole.out \in Seq(Bytes) /\ Len(Whole.out) = read
<1>1. SubSeq(written, 1, read) \in Seq(Bytes) /\ Len(SubSeq(written, 1, read)) = read
    BY FirstOf
<1> QED
    BY <1>1, GroundTypes, RewriteTypes DEF Whole

LEMMA NothingRewritten ==
    ASSUME NEW h \in Hvps
    PROVE  Rewrite(h, << >>).hvp = h /\ Rewrite(h, << >>).out = << >>
<1>1. << >> \in Seq(Bytes) /\ Len(<< >>) = 0
    OBVIOUS
<1>2. PICK f : /\ Passing(f, h, << >>) /\ Rewrite(h, << >>).hvp = f[Len(<< >>)]
    BY <1>1, RewriteIs
<1>3. Rewrite(h, << >>).out \in Seq(Bytes) /\ Len(Rewrite(h, << >>).out) = 0
    BY <1>1, RewriteTypes
<1> DEFINE o == Rewrite(h, << >>).out
<1> HIDE DEF o
<1>4. o = << >>
    BY <1>3 DEF o
<1> QED
    BY <1>1, <1>2, <1>4 DEF Passing, o

LEMMA StreamInit == Init => StreamInv
<1> SUFFICES ASSUME Init PROVE StreamInv
    OBVIOUS
<1>1. written = << >> /\ read = 0 /\ screen = << >> /\ ring = << >> /\ carry = << >>
      /\ tokens = 0 /\ hvp = Ground /\ dropped = FALSE
    BY DEF Init
<1>2. SubSeq(written, 1, read) = << >>
    <2>1. written \in Seq(Bytes) /\ read \in 0 .. Len(written)
        BY <1>1
    <2>2. SubSeq(written, 1, read) \in Seq(Bytes) /\ Len(SubSeq(written, 1, read)) = 0
        BY <1>1, <2>1, FirstOf
    <2> DEFINE o == SubSeq(written, 1, read)
    <2> HIDE DEF o
    <2>3. o = << >>
        BY <2>2 DEF o
    <2> QED
        BY <2>3 DEF o
<1>3. Whole.hvp = Ground /\ Whole.out = << >>
    BY <1>2, GroundTypes, NothingRewritten DEF Whole
<1>4. LastOf(screen, Keep) = << >>
    <2>1. screen \in Seq(Bytes) /\ Len(screen) = 0 /\ Keep \in Nat
        BY <1>1, StreamAssumption
    <2>2. LastOf(screen, Keep) \in Seq(Bytes) /\ Len(LastOf(screen, Keep)) = 0 - Less(0, Keep) /\ Less(0, Keep) \in 0 .. 0
        BY <2>1, LastOfIs
    <2> DEFINE o == LastOf(screen, Keep)
    <2> HIDE DEF o
    <2>3. o = << >>
        BY <2>2 DEF o
    <2> QED
        BY <2>3 DEF o
<1>5. /\ tokens \in 0 .. MaxTokens /\ written \in Seq(Bytes) /\ read \in 0 .. Len(written)
      /\ Len(carry) <= CarryMax
    BY <1>1, StreamAssumption
<1>6. dropped \in BOOLEAN
    BY <1>1
<1> QED
    BY <1>1, <1>3, <1>4, <1>5, <1>6 DEF StreamInv

LEMMA CarriedFits == ASSUME NEW s PROVE Len(Carried(s)) <= CarryMax
<1>1. CarryMax \in Nat /\ Len(<< >>) = 0
    BY StreamAssumption
<1> QED
    BY <1>1 DEF Carried

LEMMA WriteKeeps ==
    ASSUME StreamInv, NEW t \in Tokens, Write(t)
    PROVE  StreamInv'
<1>1. t \in Seq(Bytes)
    BY StreamAssumption
<1>2. /\ written' = written \o t /\ tokens' = tokens + 1 /\ tokens < MaxTokens
      /\ read' = read /\ hvp' = hvp /\ screen' = screen /\ ring' = ring
      /\ carry' = carry /\ dropped' = dropped
    BY DEF Write
<1>3. written' \in Seq(Bytes) /\ Len(written') = Len(written) + Len(t)
    BY <1>1, <1>2, ConcatProperties DEF StreamInv
<1>4. read \in 0 .. Len(written')
    BY <1>1, <1>3 DEF StreamInv
<1>5. SubSeq(written', 1, read') = SubSeq(written, 1, read)
    BY <1>1, <1>2, FirstOfMore DEF StreamInv
<1>6. Whole' = Whole
    BY <1>5 DEF Whole
<1> QED
    BY <1>2, <1>3, <1>4, <1>6, StreamAssumption DEF StreamInv

LEMMA FeedKeeps ==
    ASSUME StreamInv, NEW n \in 1 .. Len(written) - read, Feed(n)
    PROVE  StreamInv'
<1> DEFINE bytes == SubSeq(written, read + 1, read + n)
           burst == Rewrite(hvp, bytes)
           before == SubSeq(written, 1, read)
<1>1. /\ read' = read + n /\ hvp' = burst.hvp /\ screen' = screen \o burst.out
      /\ ring' = Push(ring, burst.out) /\ tokens' = tokens /\ written' = written
      /\ Len(carry') <= CarryMax
    BY CarriedFits DEF Feed, TerminalQueries
<1>0. dropped' \in BOOLEAN
    BY DEF Feed, StreamInv
<1>2. /\ written \in Seq(Bytes) /\ read \in Nat /\ n \in Nat /\ read + n <= Len(written)
      /\ read \in 0 .. Len(written)
    BY DEF StreamInv
<1>3. /\ bytes \in Seq(Bytes) /\ Len(bytes) = n
      /\ SubSeq(written, 1, read + n) = before \o bytes
    BY <1>2, ReadOn
<1>4. before \in Seq(Bytes)
    BY <1>2, FirstOf
<1>5. hvp \in Hvps /\ screen \in Seq(Bytes) /\ Len(screen) = read
    BY <1>2, WholeTypes DEF StreamInv
<1>6. burst.out \in Seq(Bytes)
    BY <1>3, <1>5, RewriteTypes
<1>7. hvp = Rewrite(Ground, before).hvp /\ screen = Rewrite(Ground, before).out
    BY DEF StreamInv, Whole
<1>8. /\ Rewrite(Ground, before \o bytes).hvp = burst.hvp
      /\ Rewrite(Ground, before \o bytes).out = screen \o burst.out
    BY <1>3, <1>4, <1>7, GroundTypes, RewriteOn
<1>9. Whole' = Rewrite(Ground, before \o bytes)
    BY <1>1, <1>3 DEF Whole
<1>10. ring' = LastOf(screen', Keep)
    <2>1. Push(LastOf(screen, Keep), burst.out) = LastOf(screen \o burst.out, Keep)
        BY <1>5, <1>6, PushIs
    <2> QED
        BY <1>1, <2>1 DEF StreamInv
<1>11. read' \in 0 .. Len(written')
    BY <1>1, <1>2
<1> HIDE DEF bytes, burst, before
<1> QED
    BY <1>0, <1>1, <1>2, <1>8, <1>9, <1>10, <1>11 DEF StreamInv

LEMMA StreamStep == StreamInv /\ [Next]_vars => StreamInv'
<1> SUFFICES ASSUME StreamInv, [Next]_vars PROVE StreamInv'
    OBVIOUS
<1>1. CASE \E t \in Tokens : Write(t)
    BY <1>1, WriteKeeps
<1>2. CASE \E n \in 1 .. Len(written) - read : Feed(n)
    BY <1>2, FeedKeeps
<1>3. CASE UNCHANGED vars
    BY <1>3 DEF StreamInv, Whole, vars
<1> QED
    BY <1>1, <1>2, <1>3 DEF Next

LEMMA StreamSays == StreamInv => CutsDoNotShow
<1> SUFFICES ASSUME StreamInv PROVE CutsDoNotShow
    OBVIOUS
<1>1. hvp \in Hvps /\ screen \in Seq(Bytes) /\ Len(screen) = read
    BY WholeTypes DEF StreamInv
<1>2. Keep \in Nat
    BY StreamAssumption
<1>3. Len(LastOf(screen, Keep)) <= Keep
    <2>1. /\ Less(Len(screen), Keep) = IF Len(screen) > Keep THEN Len(screen) - Keep ELSE 0
          /\ Len(LastOf(screen, Keep)) = Len(screen) - Less(Len(screen), Keep)
        BY <1>1, <1>2, LastOfIs
    <2>2. Len(screen) \in Nat
        BY <1>1
    <2> QED
        BY <1>2, <2>1, <2>2
<1>4. TypeOK
    BY <1>1, <1>3 DEF TypeOK, StreamInv, Hvps
<1> QED
    BY <1>4 DEF CutsDoNotShow, StreamInv, LastOf

(* However the output of a pane is cut into reads, the emulator is fed the  *)
(* bytes one read of it all would have made, and the ring holds the end of  *)
(* them (terminal.rs, HvpRewriter and push_ring).                           *)
THEOREM CutsUnseen == Spec => []CutsDoNotShow
<1>1. Spec => []StreamInv
    BY StreamInit, StreamStep, PTL DEF Spec
<1> QED
    BY <1>1, StreamSays, PTL

-----------------------------------------------------------------------------
(* Parts of a buffer, and what is found first in them.                      *)
(* The part of a stream between two places, of one that goes on.            *)
LEMMA PartOf ==
    ASSUME NEW s \in Seq(Bytes), NEW m \in Nat, m >= 1, NEW n \in Nat, n <= Len(s)
    PROVE  /\ SubSeq(s, m, n) \in Seq(Bytes)
           /\ Len(SubSeq(s, m, n)) = IF m <= n THEN n - m + 1 ELSE 0
           /\ \A i \in 1 .. n - m + 1 : SubSeq(s, m, n)[i] = s[m + i - 1]
<1>1. m \in Int /\ n \in Int /\ \A i \in m .. n : s[i] \in Bytes
    OBVIOUS
<1> QED
    BY <1>1, SubSeqProperties

LEMMA PartOfMore ==
    ASSUME NEW s \in Seq(Bytes), NEW t \in Seq(Bytes), NEW m \in Nat, m >= 1,
           NEW n \in Nat, n <= Len(s)
    PROVE  SubSeq(s \o t, m, n) = SubSeq(s, m, n)
<1> DEFINE all == s \o t
           a == SubSeq(all, m, n)
           c == SubSeq(s, m, n)
<1>1. /\ all \in Seq(Bytes) /\ Len(all) = Len(s) + Len(t)
      /\ \A i \in 1 .. Len(s) + Len(t) : all[i] = IF i <= Len(s) THEN s[i] ELSE t[i - Len(s)]
    BY ConcatProperties
<1>2. Len(s) \in Nat /\ Len(t) \in Nat
    OBVIOUS
<1> HIDE DEF all
<1>3. /\ a \in Seq(Bytes) /\ Len(a) = IF m <= n THEN n - m + 1 ELSE 0
      /\ \A i \in 1 .. n - m + 1 : a[i] = all[m + i - 1]
    <2>1. n <= Len(all)
        BY <1>1, <1>2
    <2> QED
        BY <1>1, <2>1, PartOf
<1>4. /\ c \in Seq(Bytes) /\ Len(c) = IF m <= n THEN n - m + 1 ELSE 0
      /\ \A i \in 1 .. n - m + 1 : c[i] = s[m + i - 1]
    BY PartOf
<1>5. \A i \in 1 .. n - m + 1 : m + i - 1 \in 1 .. Len(s) /\ all[m + i - 1] = s[m + i - 1]
    BY <1>1, <1>2
<1> HIDE DEF a, c
<1>6. a = c
    <2>1. CASE m <= n
        BY <1>3, <1>4, <1>5, <2>1, SeqEqual
    <2>2. CASE ~ (m <= n)
        <3>1. Len(a) = 0 /\ Len(c) = 0
            BY <1>3, <1>4, <2>2
        <3> QED
            BY <1>3, <1>4, <3>1, SeqEqual
    <2> QED
        BY <2>1, <2>2
<1> QED
    BY <1>6 DEF a, c, all

(* What is left of a stream that goes on.                                   *)
RestOf(s, i) == SubSeq(s, i, Len(s))

LEMMA RestOfIs ==
    ASSUME NEW s \in Seq(Bytes), NEW i \in 1 .. Len(s) + 1
    PROVE  /\ RestOf(s, i) \in Seq(Bytes) /\ Len(RestOf(s, i)) = Len(s) - i + 1
           /\ \A j \in 1 .. Len(s) - i + 1 : RestOf(s, i)[j] = s[i + j - 1]
<1>1. Len(s) \in Nat /\ i \in Nat /\ i >= 1 /\ i <= Len(s) + 1
    OBVIOUS
<1>2. /\ RestOf(s, i) \in Seq(Bytes)
      /\ Len(RestOf(s, i)) = IF i <= Len(s) THEN Len(s) - i + 1 ELSE 0
      /\ \A j \in 1 .. Len(s) - i + 1 : RestOf(s, i)[j] = s[i + j - 1]
    <2>1. Len(s) <= Len(s)
        BY <1>1
    <2> QED
        BY <1>1, <2>1, PartOf DEF RestOf
<1> QED
    BY <1>1, <1>2

LEMMA RestOfMore ==
    ASSUME NEW s \in Seq(Bytes), NEW t \in Seq(Bytes), NEW i \in 1 .. Len(s) + 1
    PROVE  RestOf(s \o t, i) = RestOf(s, i) \o t
<1> DEFINE all == s \o t
           a == RestOf(all, i)
           r == RestOf(s, i)
           c == r \o t
           n == Len(s) - i + 1
<1>1. /\ all \in Seq(Bytes) /\ Len(all) = Len(s) + Len(t)
      /\ \A j \in 1 .. Len(s) + Len(t) : all[j] = IF j <= Len(s) THEN s[j] ELSE t[j - Len(s)]
    BY ConcatProperties
<1>2. Len(s) \in Nat /\ Len(t) \in Nat /\ n \in Nat /\ i \in Nat /\ i >= 1
    OBVIOUS
<1> HIDE DEF all
<1>3. /\ a \in Seq(Bytes) /\ Len(a) = n + Len(t)
      /\ \A j \in 1 .. n + Len(t) : a[j] = all[i + j - 1]
    <2>1. i \in 1 .. Len(all) + 1 /\ Len(all) - i + 1 = n + Len(t)
        BY <1>1, <1>2
    <2> HIDE DEF n
    <2> QED
        BY <1>1, <2>1, RestOfIs
<1>4. /\ r \in Seq(Bytes) /\ Len(r) = n
      /\ \A j \in 1 .. n : r[j] = s[i + j - 1]
    BY RestOfIs
<1> HIDE DEF a, r
<1>5. /\ c \in Seq(Bytes) /\ Len(c) = n + Len(t)
      /\ \A j \in 1 .. n + Len(t) : c[j] = IF j <= n THEN r[j] ELSE t[j - n]
    BY <1>4, ConcatProperties
<1>6. ASSUME NEW j \in 1 .. n + Len(t) PROVE a[j] = c[j]
    <2>1. i + j - 1 \in 1 .. Len(s) + Len(t) /\ (i + j - 1 <= Len(s) <=> j <= n)
          /\ (i + j - 1) - Len(s) = j - n
        BY <1>2
    <2> HIDE DEF n
    <2>2. CASE j <= n
        <3>1. all[i + j - 1] = s[i + j - 1]
            BY <1>1, <2>1, <2>2
        <3> QED
            BY <1>2, <1>3, <1>4, <1>5, <2>2, <3>1
    <2>3. CASE ~ (j <= n)
        <3>1. all[i + j - 1] = t[j - n]
            BY <1>1, <2>1, <2>3
        <3> QED
            BY <1>2, <1>3, <1>5, <2>3, <3>1
    <2> QED
        BY <2>2, <2>3
<1> HIDE DEF n, c
<1>7. a = c
    BY <1>3, <1>5, <1>6, SeqEqual
<1> QED
    BY <1>7 DEF a, c, r, all

LEMMA RestOfRest ==
    ASSUME NEW s \in Seq(Bytes), NEW k \in 1 .. Len(s) + 1, NEW i \in 1 .. Len(s) - k + 2
    PROVE  RestOf(RestOf(s, k), i) = RestOf(s, k + i - 1)
<1> DEFINE u == RestOf(s, k)
           a == RestOf(u, i)
           c == RestOf(s, k + i - 1)
           n == Len(s) - (k + i - 1) + 1
<1>1. Len(s) \in Nat /\ k \in Nat /\ i \in Nat /\ n \in Nat
    OBVIOUS
<1>2. /\ u \in Seq(Bytes) /\ Len(u) = Len(s) - k + 1
      /\ \A j \in 1 .. Len(s) - k + 1 : u[j] = s[k + j - 1]
    BY RestOfIs
<1> HIDE DEF u
<1>3. /\ a \in Seq(Bytes) /\ Len(a) = n /\ \A j \in 1 .. n : a[j] = u[i + j - 1]
    <2>1. i \in 1 .. Len(u) + 1 /\ Len(u) - i + 1 = n
        BY <1>1, <1>2
    <2> HIDE DEF n
    <2> QED
        BY <1>2, <2>1, RestOfIs
<1>4. /\ c \in Seq(Bytes) /\ Len(c) = n /\ \A j \in 1 .. n : c[j] = s[k + i - 1 + j - 1]
    <2>1. k + i - 1 \in 1 .. Len(s) + 1
        BY <1>1
    <2> QED
        BY <2>1, RestOfIs
<1>5. ASSUME NEW j \in 1 .. n PROVE a[j] = c[j]
    <2>1. i + j - 1 \in 1 .. Len(s) - k + 1 /\ k + (i + j - 1) - 1 = k + i - 1 + j - 1
        BY <1>1
    <2>2. u[i + j - 1] = s[k + (i + j - 1) - 1]
        BY <1>2, <2>1
    <2> QED
        BY <1>3, <1>4, <2>1, <2>2
<1> HIDE DEF a, c, n
<1>6. a = c
    BY <1>3, <1>4, <1>5, SeqEqual
<1> QED
    BY <1>6 DEF a, c, u

-----------------------------------------------------------------------------
(* The first place at which something of a class stands, or the place after *)
(* the last.                                                                *)
FirstAt(s, from, class) == Least({i \in from .. Len(s) : s[i] \in class}, Len(s) + 1)
IsFirstAt(x, s, from, class) ==
    /\ x \in from .. Len(s) + 1
    /\ \A i \in from .. x - 1 : s[i] \notin class
    /\ x <= Len(s) => s[x] \in class

LEMMA FirstAtIs ==
    ASSUME NEW s \in Seq(Bytes), NEW from \in 1 .. Len(s) + 1, NEW class
    PROVE  IsFirstAt(FirstAt(s, from, class), s, from, class)
<1> DEFINE P == {i \in from .. Len(s) : s[i] \in class}
           x == FirstAt(s, from, class)
<1>1. P \subseteq Nat /\ Len(s) \in Nat
    OBVIOUS
<1>2. CASE P = {}
    <2>1. x = Len(s) + 1
        BY <1>2 DEF FirstAt, Least
    <2> HIDE DEF x
    <2> QED
        BY <1>1, <1>2, <2>1 DEF IsFirstAt, x
<1>3. CASE P # {}
    <2>1. x = Min(P)
        BY <1>3 DEF FirstAt, Least
    <2> HIDE DEF P
    <2>2. Min(P) \in P /\ \A y \in P : Min(P) <= y
        BY <1>1, <1>3, MinIsLeast
    <2> HIDE DEF x
    <2>3. x \in from .. Len(s) /\ s[x] \in class /\ \A y \in P : x <= y
        BY <2>1, <2>2 DEF P
    <2>4. ASSUME NEW i \in from .. x - 1 PROVE s[i] \notin class
        <3>1. i \in from .. Len(s) /\ ~ (x <= i)
            BY <1>1, <2>3
        <3> QED
            BY <2>3, <3>1 DEF P
    <2> QED
        BY <1>1, <2>3, <2>4 DEF IsFirstAt, x
<1> QED
    BY <1>2, <1>3

LEMMA FirstAtIsOne ==
    ASSUME NEW s \in Seq(Bytes), NEW from \in 1 .. Len(s) + 1, NEW class,
           NEW x, IsFirstAt(x, s, from, class), NEW y, IsFirstAt(y, s, from, class)
    PROVE  x = y
<1>1. x \in Nat /\ y \in Nat /\ Len(s) \in Nat
    BY DEF IsFirstAt
<1>2. ~ (x < y)
    <2> SUFFICES ASSUME x < y PROVE FALSE
        OBVIOUS
    <2>1. x <= Len(s) /\ x \in from .. y - 1
        BY <1>1 DEF IsFirstAt
    <2> QED
        BY <2>1 DEF IsFirstAt
<1>3. ~ (y < x)
    <2> SUFFICES ASSUME y < x PROVE FALSE
        OBVIOUS
    <2>1. y <= Len(s) /\ y \in from .. x - 1
        BY <1>1 DEF IsFirstAt
    <2> QED
        BY <2>1 DEF IsFirstAt
<1> QED
    BY <1>1, <1>2, <1>3

(* A first one that is found stays the first; one that is not, comes later. *)
LEMMA FirstAtMore ==
    ASSUME NEW s \in Seq(Bytes), NEW t \in Seq(Bytes), NEW from \in 1 .. Len(s) + 1, NEW class
    PROVE  IF FirstAt(s, from, class) <= Len(s)
           THEN FirstAt(s \o t, from, class) = FirstAt(s, from, class)
           ELSE FirstAt(s \o t, from, class) > Len(s)
<1> DEFINE all == s \o t
           x == FirstAt(s, from, class)
           y == FirstAt(all, from, class)
<1>1. /\ all \in Seq(Bytes) /\ Len(all) = Len(s) + Len(t)
      /\ \A j \in 1 .. Len(s) + Len(t) : all[j] = IF j <= Len(s) THEN s[j] ELSE t[j - Len(s)]
    BY ConcatProperties
<1>2. Len(s) \in Nat /\ Len(t) \in Nat /\ from \in Nat /\ from >= 1
    OBVIOUS
<1> HIDE DEF all
<1>3. IsFirstAt(x, s, from, class)
    BY FirstAtIs
<1>4. from \in 1 .. Len(all) + 1
    BY <1>1, <1>2
<1>5. IsFirstAt(y, all, from, class)
    BY <1>1, <1>4, FirstAtIs
<1> HIDE DEF x, y
<1>6. \A j \in from .. Len(s) : all[j] = s[j]
    BY <1>1, <1>2
<1>7. CASE x <= Len(s)
    <2>1. IsFirstAt(x, all, from, class)
        <3>1. x \in from .. Len(all) + 1 /\ x \in from .. Len(s)
            BY <1>1, <1>2, <1>3, <1>7 DEF IsFirstAt
        <3>2. \A i \in from .. x - 1 : i \in from .. Len(s)
            BY <1>2, <3>1
        <3> QED
            BY <1>3, <1>6, <1>7, <3>1, <3>2 DEF IsFirstAt
    <2>2. y = x
        BY <1>1, <1>4, <1>5, <2>1, FirstAtIsOne
    <2> QED
        BY <1>7, <2>2 DEF x, y, all
<1>8. CASE ~ (x <= Len(s))
    <2>1. y > Len(s)
        <3> SUFFICES ASSUME ~ (y > Len(s)) PROVE FALSE
            OBVIOUS
        <3>1. y \in from .. Len(s) /\ y \in from .. x - 1 /\ y <= Len(all)
            BY <1>1, <1>2, <1>3, <1>5, <1>8 DEF IsFirstAt
        <3> QED
            BY <1>3, <1>5, <1>6, <3>1 DEF IsFirstAt
    <2> QED
        BY <1>8, <2>1 DEF x, y, all
<1> QED
    BY <1>7, <1>8

-----------------------------------------------------------------------------
(* Where the body of an APC ends, and what more bytes do to it.             *)
(* Where the body of an APC stops, and what is made of it.                  *)
Stop(body) == FirstAt(body, 1, {Bel, Esc})

LEMMA ApcIs ==
    ASSUME NEW body \in Seq(Bytes)
    PROVE  LET stop == Stop(body)
               ours == SubSeq(body, 1, stop - 1) = Ours
           IN  /\ stop - 1 > ApcMax => Apc(body) = [kind |-> "long"]
               /\ ~ (stop - 1 > ApcMax) =>
                     /\ stop > Len(body) => Apc(body) = [kind |-> "open"]
                     /\ stop <= Len(body) =>
                           /\ body[stop] = Bel => Apc(body) = [kind |-> "done", end |-> stop, ours |-> ours]
                           /\ body[stop] # Bel =>
                                 /\ stop = Len(body) => Apc(body) = [kind |-> "open"]
                                 /\ stop # Len(body) =>
                                       /\ body[stop + 1] = "ST" =>
                                             Apc(body) = [kind |-> "done", end |-> stop + 1, ours |-> ours]
                                       /\ body[stop + 1] # "ST" =>
                                             Apc(body) = [kind |-> "done", end |-> stop - 1, ours |-> FALSE]
<1> DEFINE stop == Stop(body)
           ours == SubSeq(body, 1, stop - 1) = Ours
<1>1. Apc(body) = CASE stop - 1 > ApcMax -> [kind |-> "long"]
          [] OTHER ->
             IF stop > Len(body) THEN [kind |-> "open"]
             ELSE IF body[stop] = Bel THEN [kind |-> "done", end |-> stop, ours |-> ours]
             ELSE IF stop = Len(body) THEN [kind |-> "open"]
             ELSE IF body[stop + 1] = "ST" THEN [kind |-> "done", end |-> stop + 1, ours |-> ours]
             ELSE [kind |-> "done", end |-> stop - 1, ours |-> FALSE]
    BY DEF Apc, Stop, FirstAt
<1>2. stop \in Nat /\ Len(body) \in Nat
    BY FirstAtIs DEF IsFirstAt, Stop
<1> HIDE DEF stop, ours
<1>3. CASE stop - 1 > ApcMax
    BY <1>1, <1>3 DEF stop, ours
<1>4. CASE ~ (stop - 1 > ApcMax)
    <2>1. Apc(body) =
             IF stop > Len(body) THEN [kind |-> "open"]
             ELSE IF body[stop] = Bel THEN [kind |-> "done", end |-> stop, ours |-> ours]
             ELSE IF stop = Len(body) THEN [kind |-> "open"]
             ELSE IF body[stop + 1] = "ST" THEN [kind |-> "done", end |-> stop + 1, ours |-> ours]
             ELSE [kind |-> "done", end |-> stop - 1, ours |-> FALSE]
        BY <1>1, <1>4
    <2>2. CASE stop > Len(body)
        BY <1>2, <1>4, <2>1, <2>2 DEF stop, ours
    <2>3. CASE stop <= Len(body)
        <3>1. Apc(body) =
             IF body[stop] = Bel THEN [kind |-> "done", end |-> stop, ours |-> ours]
             ELSE IF stop = Len(body) THEN [kind |-> "open"]
             ELSE IF body[stop + 1] = "ST" THEN [kind |-> "done", end |-> stop + 1, ours |-> ours]
             ELSE [kind |-> "done", end |-> stop - 1, ours |-> FALSE]
            BY <1>2, <2>1, <2>3
        <3>2. ~ (stop > Len(body))
            BY <1>2, <2>3
        <3> QED
            BY <1>4, <3>1, <3>2 DEF stop, ours
    <2> QED
        BY <1>2, <2>2, <2>3
<1> QED
    BY <1>3, <1>4

LEMMA StopIs ==
    ASSUME NEW body \in Seq(Bytes)
    PROVE  /\ Stop(body) \in 1 .. Len(body) + 1 /\ Len(body) \in Nat
           /\ Stop(body) <= Len(body) => body[Stop(body)] \in {Bel, Esc}
           /\ \A i \in 1 .. Stop(body) - 1 : body[i] \notin {Bel, Esc}
<1>1. IsFirstAt(Stop(body), body, 1, {Bel, Esc})
    <2>1. 1 \in 1 .. Len(body) + 1
        OBVIOUS
    <2> QED
        BY <2>1, FirstAtIs DEF Stop
<1> QED
    BY <1>1 DEF IsFirstAt

(* An APC that is open is open to its last byte.                            *)
LEMMA OpenApc ==
    ASSUME NEW body \in Seq(Bytes), Apc(body).kind = "open"
    PROVE  /\ Stop(body) - 1 <= ApcMax
           /\ Stop(body) >= Len(body)
           /\ Stop(body) = Len(body) => body[Len(body)] = Esc
           /\ \A i \in 1 .. Len(body) - 1 : body[i] # Esc
<1> DEFINE stop == Stop(body)
<1>0. ApcMax \in Nat
    BY StreamAssumption
<1>1. stop \in 1 .. Len(body) + 1 /\ Len(body) \in Nat
    BY StopIs
<1>2. ~ (stop - 1 > ApcMax)
    BY ApcIs
<1>3. ~ (stop < Len(body)) /\ (stop = Len(body) => body[stop] # Bel)
    BY <1>1, <1>2, ApcIs
<1>4. stop = Len(body) => body[stop] = Esc
    BY <1>1, <1>3, StopIs
<1>5. \A i \in 1 .. Len(body) - 1 : body[i] # Esc
    <2>1. \A i \in 1 .. Len(body) - 1 : i \in 1 .. stop - 1
        BY <1>1, <1>3
    <2> QED
        BY <2>1, StopIs
<1> QED
    BY <1>0, <1>1, <1>2, <1>3, <1>4, <1>5

LEMMA DoneApc ==
    ASSUME NEW body \in Seq(Bytes), Apc(body).kind = "done"
    PROVE  Apc(body).end \in 0 .. Len(body) /\ (Apc(body).ours => Apc(body).end \in 1 .. Len(body))
<1> DEFINE stop == Stop(body)
<1>1. stop \in 1 .. Len(body) + 1 /\ Len(body) \in Nat
    BY StopIs
<1>2. ~ (stop - 1 > ApcMax)
    BY ApcIs
<1>3. stop <= Len(body)
    BY <1>1, <1>2, ApcIs
<1>4. CASE body[stop] = Bel
    <2>1. Apc(body).end = stop
        BY <1>2, <1>3, <1>4, ApcIs
    <2> QED
        BY <1>1, <1>3, <2>1
<1>5. CASE body[stop] # Bel
    <2>1. stop # Len(body)
        BY <1>2, <1>3, <1>5, ApcIs
    <2>2. CASE body[stop + 1] = "ST"
        <3>1. Apc(body).end = stop + 1
            BY <1>2, <1>3, <1>5, <2>1, <2>2, ApcIs
        <3> QED
            BY <1>1, <1>3, <2>1, <3>1
    <2>3. CASE body[stop + 1] # "ST"
        <3>1. Apc(body).end = stop - 1 /\ Apc(body).ours = FALSE
            BY <1>2, <1>3, <1>5, <2>1, <2>3, ApcIs
        <3> QED
            BY <1>1, <1>3, <2>1, <3>1
    <2> QED
        BY <2>2, <2>3
<1> QED
    BY <1>4, <1>5

(* What was made of an APC that is closed stays, whatever follows it; one   *)
(* that is open says nothing that ends where it was open.                   *)
LEMMA ApcMore ==
    ASSUME NEW s \in Seq(Bytes), NEW t \in Seq(Bytes)
    PROVE  /\ Apc(s).kind # "open" => Apc(s \o t) = Apc(s)
           /\ Apc(s).kind = "open" /\ Apc(s \o t).kind = "done" /\ Apc(s \o t).ours
                 => Apc(s \o t).end > Len(s)
<1> DEFINE all == s \o t
           x == Stop(s)
           y == Stop(all)
<1>0. ApcMax \in Nat
    BY StreamAssumption
<1>1. /\ all \in Seq(Bytes) /\ Len(all) = Len(s) + Len(t)
      /\ \A j \in 1 .. Len(s) + Len(t) : all[j] = IF j <= Len(s) THEN s[j] ELSE t[j - Len(s)]
    BY ConcatProperties
<1>2. Len(s) \in Nat /\ Len(t) \in Nat
    OBVIOUS
<1>3. x \in 1 .. Len(s) + 1 /\ (x <= Len(s) => s[x] \in {Bel, Esc})
    BY StopIs
<1>4. IF x <= Len(s) THEN y = x ELSE y > Len(s)
    <2>1. 1 \in 1 .. Len(s) + 1
        BY <1>2
    <2> QED
        BY <2>1, FirstAtMore DEF Stop
<1>5. y \in 1 .. Len(all) + 1 /\ (y <= Len(all) => all[y] \in {Bel, Esc})
    <2> HIDE DEF all
    <2> QED
        BY <1>1, StopIs
<1>6. x <= Len(s) => SubSeq(all, 1, x - 1) = SubSeq(s, 1, x - 1)
    <2> SUFFICES ASSUME x <= Len(s) PROVE SubSeq(all, 1, x - 1) = SubSeq(s, 1, x - 1)
        OBVIOUS
    <2>1. x - 1 \in 0 .. Len(s)
        BY <1>2, <1>3
    <2> HIDE DEF x
    <2> QED
        BY <2>1, FirstOfMore
<1>7. \A j \in 1 .. Len(s) : all[j] = s[j]
    BY <1>1, <1>2
<1> HIDE DEF all, x, y
<1>8. ASSUME Apc(s).kind # "open" PROVE Apc(all) = Apc(s)
    <2>1. CASE x - 1 > ApcMax
        <3>1. y - 1 > ApcMax
            BY <1>0, <1>1, <1>2, <1>3, <1>4, <1>5, <2>1
        <3>2. Apc(s) = [kind |-> "long"]
            BY <2>1, ApcIs DEF x
        <3>3. Apc(all) = [kind |-> "long"]
            BY <1>1, <3>1, ApcIs DEF y
        <3> QED
            BY <3>2, <3>3
    <2>2. CASE ~ (x - 1 > ApcMax)
        <3>1. x <= Len(s)
            BY <1>2, <1>3, <1>8, <2>2, ApcIs DEF x
        <3>2. y = x /\ x <= Len(all) /\ all[x] = s[x]
            BY <1>1, <1>2, <1>3, <1>4, <1>7, <3>1
        <3>3. CASE s[x] = Bel
            <4>1. Apc(s) = [kind |-> "done", end |-> x, ours |-> SubSeq(s, 1, x - 1) = Ours]
                BY <2>2, <3>1, <3>3, ApcIs DEF x
            <4>2. Apc(all) = [kind |-> "done", end |-> y, ours |-> SubSeq(all, 1, y - 1) = Ours]
                BY <1>1, <2>2, <3>2, <3>3, ApcIs DEF y
            <4> QED
                BY <1>6, <3>1, <3>2, <4>1, <4>2
        <3>4. CASE s[x] # Bel
            <4>1. x # Len(s)
                BY <1>8, <2>2, <3>1, <3>4, ApcIs DEF x
            <4>2. x + 1 \in 1 .. Len(s) /\ x # Len(all)
                BY <1>1, <1>2, <1>3, <3>1, <4>1
            <4>3. all[x + 1] = s[x + 1]
                BY <1>7, <4>2
            <4>4. CASE s[x + 1] = "ST"
                <5>1. Apc(s) = [kind |-> "done", end |-> x + 1, ours |-> SubSeq(s, 1, x - 1) = Ours]
                    BY <2>2, <3>1, <3>4, <4>1, <4>4, ApcIs DEF x
                <5>2. Apc(all) = [kind |-> "done", end |-> y + 1, ours |-> SubSeq(all, 1, y - 1) = Ours]
                    BY <1>1, <2>2, <3>2, <3>4, <4>2, <4>3, <4>4, ApcIs DEF y
                <5> QED
                    BY <1>6, <3>1, <3>2, <5>1, <5>2
            <4>5. CASE s[x + 1] # "ST"
                <5>1. Apc(s) = [kind |-> "done", end |-> x - 1, ours |-> FALSE]
                    BY <2>2, <3>1, <3>4, <4>1, <4>5, ApcIs DEF x
                <5>2. Apc(all) = [kind |-> "done", end |-> y - 1, ours |-> FALSE]
                    BY <1>1, <2>2, <3>2, <3>4, <4>2, <4>3, <4>5, ApcIs DEF y
                <5> QED
                    BY <3>2, <5>1, <5>2
            <4> QED
                BY <4>4, <4>5
        <3> QED
            BY <3>3, <3>4
    <2> QED
        BY <2>1, <2>2
<1>9. ASSUME Apc(s).kind = "open", Apc(all).kind = "done", Apc(all).ours
      PROVE  Apc(all).end > Len(s)
    <2>1. x >= Len(s) /\ (x = Len(s) => s[Len(s)] = Esc)
        BY <1>9, OpenApc DEF x
    <2>2. y >= Len(s) /\ (y = Len(s) => all[y] = Esc)
        BY <1>1, <1>2, <1>3, <1>4, <1>5, <1>7, <2>1
    <2>3. ~ (y - 1 > ApcMax)
        BY <1>1, <1>9, ApcIs DEF y
    <2>4. y <= Len(all)
        BY <1>1, <1>2, <1>5, <1>9, <2>3, ApcIs DEF y
    <2>5. CASE all[y] = Bel
        <3>0. Apc(all) = [kind |-> "done", end |-> y, ours |-> SubSeq(all, 1, y - 1) = Ours]
            BY <1>1, <2>3, <2>4, <2>5, ApcIs DEF y
        <3>1. Apc(all).end = y
            BY <3>0
        <3>2. Bel # Esc
            BY DEF Bel, Esc
        <3> QED
            BY <1>2, <1>5, <2>2, <2>5, <3>1, <3>2
    <2>6. CASE all[y] # Bel
        <3>1. y # Len(all)
            BY <1>1, <1>9, <2>3, <2>4, <2>6, ApcIs DEF y
        <3>2. all[y + 1] = "ST"
            <4> SUFFICES ASSUME all[y + 1] # "ST" PROVE FALSE
                OBVIOUS
            <4>1. Apc(all) = [kind |-> "done", end |-> y - 1, ours |-> FALSE]
                BY <1>1, <2>3, <2>4, <2>6, <3>1, ApcIs DEF y
            <4> QED
                BY <1>9, <4>1
        <3>4. Apc(all) = [kind |-> "done", end |-> y + 1, ours |-> SubSeq(all, 1, y - 1) = Ours]
            BY <1>1, <2>3, <2>4, <2>6, <3>1, <3>2, ApcIs DEF y
        <3>3. Apc(all).end = y + 1
            BY <3>4
        <3> QED
            BY <1>1, <1>2, <1>5, <2>2, <3>3
    <2> QED
        BY <2>5, <2>6
<1> QED
    BY <1>8, <1>9 DEF all

-----------------------------------------------------------------------------
(* What the rest of a buffer begins with.                                   *)
Sayings == {"nothing", "announce"} \union {Queries[body] : body \in DOMAIN Queries}
Items(n) == [takes : 0 .. n, says : Sayings]

LEMMA OneOrMore == \A n \in Nat : n >= 1 => (n = 1 \/ n >= 2) /\ (n # 1 <=> n > 1)
OBVIOUS

(* What a stream begins with, by its first two bytes.                       *)
LEMMA ItemIs ==
    ASSUME NEW s \in Seq(Bytes), Len(s) >= 1
    PROVE  /\ s[1] # Esc => Item(s) = Passes(1)
           /\ s[1] = Esc =>
                 /\ Len(s) = 1 => Item(s) = Passes(0)
                 /\ Len(s) > 1 =>
                       /\ s[2] = "_" => Item(s) = ApcItem(s)
                       /\ s[2] = "[" => Item(s) = CsiItem(s)
                       /\ s[2] \notin {"_", "["} => Item(s) = Passes(1)
<1>1. Len(s) \in Nat
    OBVIOUS
<1>2. s = <<Esc>> <=> Len(s) = 1 /\ s[1] = Esc
    <2>1. s = <<Esc>> => Len(s) = 1 /\ s[1] = Esc
        OBVIOUS
    <2>2. ASSUME Len(s) = 1, s[1] = Esc PROVE s = <<Esc>>
        <3>1. <<Esc>> \in Seq(Bytes)
            BY DEF Bytes
        <3>2. Len(<<Esc>>) = 1 /\ <<Esc>>[1] = Esc
            OBVIOUS
        <3>3. \A i \in 1 .. 1 : s[i] = <<Esc>>[i]
            BY <2>2, <3>2
        <3> QED
            BY <2>2, <3>1, <3>2, <3>3, SeqEqual
    <2> QED
        BY <2>1, <2>2
<1>3. CASE s[1] # Esc
    <2>1. Item(s) = Passes(1)
        BY <1>2, <1>3 DEF Item
    <2> QED
        BY <1>3, <2>1
<1>4. CASE s[1] = Esc /\ Len(s) = 1
    <2>1. Item(s) = Passes(0)
        BY <1>2, <1>4 DEF Item
    <2> QED
        BY <1>4, <2>1
<1>5. CASE s[1] = Esc /\ Len(s) > 1
    <2>00. Len(s) # 1
        BY <1>1, <1>5, OneOrMore
    <2>0. s # <<Esc>> /\ Len(s) # 1
        BY <1>2, <2>00, Zenon
    <2>1. ASSUME s[2] = "_" PROVE Item(s) = ApcItem(s)
        BY <1>5, <2>0, <2>1 DEF Item
    <2>2. ASSUME s[2] = "[" PROVE Item(s) = CsiItem(s)
        BY <1>5, <2>0, <2>2 DEF Item
    <2>3. ASSUME s[2] \notin {"_", "["} PROVE Item(s) = Passes(1)
        BY <1>5, <2>0, <2>3 DEF Item
    <2> QED
        BY <1>5, <2>0, <2>1, <2>2, <2>3
<1> QED
    BY <1>1, <1>3, <1>4, <1>5

(* The final byte of a CSI.                                                 *)
LEMMA CsiIs ==
    ASSUME NEW s \in Seq(Bytes), Len(s) >= 2
    PROVE  LET final == FirstAt(s, 3, Finals)
               body == SubSeq(s, 3, final)
           IN  /\ final \in 3 .. Len(s) + 1 /\ Len(s) \in Nat
               /\ final > Len(s) => CsiItem(s) = Passes(0)
               /\ final <= Len(s) =>
                     /\ CsiItem(s) = [takes |-> final,
                                      says |-> IF body \in DOMAIN Queries THEN Queries[body]
                                               ELSE "nothing"]
                     /\ s[final] \in Finals
               /\ \A i \in 3 .. final - 1 : s[i] \notin Finals
<1> DEFINE final == FirstAt(s, 3, Finals)
           body == SubSeq(s, 3, final)
           says == IF body \in DOMAIN Queries THEN Queries[body] ELSE "nothing"
<1>1. 3 \in 1 .. Len(s) + 1 /\ Len(s) \in Nat
    OBVIOUS
<1>2. IsFirstAt(final, s, 3, Finals)
    BY <1>1, FirstAtIs
<1>3. CsiItem(s) = IF final > Len(s) THEN Passes(0) ELSE [takes |-> final, says |-> says]
    BY DEF CsiItem, FirstAt
<1> HIDE DEF final, says
<1>4. final \in 3 .. Len(s) + 1 /\ (final <= Len(s) <=> ~ (final > Len(s)))
    BY <1>1, <1>2 DEF IsFirstAt
<1> QED
    BY <1>1, <1>2, <1>3, <1>4 DEF IsFirstAt, final, says

LEMMA ApcItemIs ==
    ASSUME NEW s \in Seq(Bytes), Len(s) >= 2
    PROVE  LET body == RestOf(s, 3) IN
           /\ body \in Seq(Bytes) /\ Len(body) = Len(s) - 2 /\ Len(s) \in Nat
           /\ \A i \in 1 .. Len(s) - 2 : body[i] = s[2 + i]
           /\ Apc(body).kind \in {"open", "long", "done"}
           /\ Apc(body).kind = "open" => ApcItem(s) = Passes(0)
           /\ Apc(body).kind = "long" => ApcItem(s) = Passes(2)
           /\ Apc(body).kind = "done" =>
                 /\ Apc(body).end \in 0 .. Len(body)
                 /\ Apc(body).ours => Apc(body).end \in 1 .. Len(body)
                 /\ ApcItem(s) = [takes |-> 2 + Apc(body).end,
                                  says |-> IF Apc(body).ours THEN "announce" ELSE "nothing"]
<1> DEFINE body == RestOf(s, 3)
<1>1. Len(s) \in Nat /\ 3 \in 1 .. Len(s) + 1 /\ Len(s) - 3 + 1 = Len(s) - 2
    OBVIOUS
<1>2. /\ body \in Seq(Bytes) /\ Len(body) = Len(s) - 2
      /\ \A i \in 1 .. Len(s) - 2 : body[i] = s[2 + i]
    <2>1. /\ body \in Seq(Bytes) /\ Len(body) = Len(s) - 3 + 1
          /\ \A i \in 1 .. Len(s) - 3 + 1 : body[i] = s[3 + i - 1]
        BY <1>1, RestOfIs
    <2>2. \A i \in 1 .. Len(s) - 2 : 3 + i - 1 = 2 + i
        OBVIOUS
    <2> QED
        BY <1>1, <2>1, <2>2
<1>3. Apc(body).kind \in {"open", "long", "done"}
    <2> HIDE DEF body
    <2>0. Stop(body) \in Nat /\ Len(body) \in Nat
        BY <1>2, StopIs
    <2>1. CASE Stop(body) - 1 > ApcMax
        BY <1>2, <2>1, ApcIs
    <2>2. CASE ~ (Stop(body) - 1 > ApcMax)
        <3>1. CASE Stop(body) > Len(body)
            BY <1>2, <2>2, <3>1, ApcIs
        <3>2. CASE Stop(body) <= Len(body)
            <4>1. CASE body[Stop(body)] = Bel
                BY <1>2, <2>2, <3>2, <4>1, ApcIs
            <4>2. CASE body[Stop(body)] # Bel /\ Stop(body) = Len(body)
                BY <1>2, <2>2, <3>2, <4>2, ApcIs
            <4>3. CASE body[Stop(body)] # Bel /\ Stop(body) # Len(body) /\ body[Stop(body) + 1] = "ST"
                BY <1>2, <2>2, <3>2, <4>3, ApcIs
            <4>4. CASE body[Stop(body)] # Bel /\ Stop(body) # Len(body) /\ body[Stop(body) + 1] # "ST"
                BY <1>2, <2>2, <3>2, <4>4, ApcIs
            <4> QED
                BY <4>1, <4>2, <4>3, <4>4
        <3> QED
            BY <2>0, <3>1, <3>2
    <2> QED
        BY <2>1, <2>2
<1>4. SubSeq(s, 3, Len(s)) = body
    BY DEF RestOf
<1> HIDE DEF body
<1>5. Apc(body).kind = "done" =>
          Apc(body).end \in 0 .. Len(body) /\ (Apc(body).ours => Apc(body).end \in 1 .. Len(body))
    BY <1>2, DoneApc
<1>6. /\ Apc(body).kind = "open" => ApcItem(s) = Passes(0)
      /\ Apc(body).kind = "long" => ApcItem(s) = Passes(2)
      /\ Apc(body).kind = "done" =>
             ApcItem(s) = [takes |-> 2 + Apc(body).end,
                           says |-> IF Apc(body).ours THEN "announce" ELSE "nothing"]
    <2>1. ApcItem(s) = CASE Apc(body).kind = "open" -> Passes(0)
                         [] Apc(body).kind = "long" -> Passes(2)
                         [] Apc(body).kind = "done" ->
                                [takes |-> 2 + Apc(body).end,
                                 says |-> IF Apc(body).ours THEN "announce" ELSE "nothing"]
        BY <1>4 DEF ApcItem
    <2>2. CASE Apc(body).kind = "open"
        BY <2>1, <2>2
    <2>3. CASE Apc(body).kind = "long"
        BY <2>1, <2>3
    <2>4. CASE Apc(body).kind = "done"
        BY <2>1, <2>4
    <2> QED
        BY <1>3, <2>2, <2>3, <2>4
<1> QED
    BY <1>1, <1>2, <1>3, <1>5, <1>6 DEF body

LEMMA ItemTypes ==
    ASSUME NEW s \in Seq(Bytes), Len(s) >= 1
    PROVE  Item(s) \in Items(Len(s))
<1>0. Len(s) \in Nat
    OBVIOUS
<1>1. \A n \in 0 .. Len(s) : Passes(n) \in Items(Len(s))
    BY DEF Passes, Items, Sayings
<1>2. CASE s[1] # Esc \/ Len(s) = 1 \/ s[2] \notin {"_", "["}
    <2>1. Item(s) \in {Passes(0), Passes(1)}
        <3>1. Len(s) = 1 \/ Len(s) > 1
            BY <1>0, OneOrMore
        <3> QED
            BY <1>2, <3>1, ItemIs
    <2> QED
        BY <1>0, <1>1, <2>1
<1>3. CASE s[1] = Esc /\ Len(s) # 1 /\ s[2] = "_"
    <2>0. Len(s) >= 2 /\ Len(s) > 1
        <3>1. Len(s) # 1
            BY <1>3
        <3> QED
            BY <1>0, <3>1, OneOrMore
    <2>1. Item(s) = ApcItem(s)
        BY <1>3, <2>0, ItemIs
    <2> DEFINE body == RestOf(s, 3)
    <2>2. CASE Apc(body).kind = "open"
        <3>1. ApcItem(s) = Passes(0)
            BY <2>0, <2>2, ApcItemIs
        <3> QED
            BY <1>0, <1>1, <2>1, <3>1
    <2>3. CASE Apc(body).kind = "long"
        <3>1. ApcItem(s) = Passes(2)
            BY <2>0, <2>3, ApcItemIs
        <3> QED
            BY <1>0, <1>1, <2>0, <2>1, <3>1
    <2>4. CASE Apc(body).kind = "done"
        <3>1. /\ Apc(body).end \in 0 .. Len(body) /\ Len(body) = Len(s) - 2
              /\ ApcItem(s) = [takes |-> 2 + Apc(body).end,
                               says |-> IF Apc(body).ours THEN "announce" ELSE "nothing"]
            BY <2>0, <2>4, ApcItemIs
        <3> HIDE DEF body
        <3>2. 2 + Apc(body).end \in 0 .. Len(s)
            BY <1>0, <3>1
        <3>3. (IF Apc(body).ours THEN "announce" ELSE "nothing") \in Sayings
            BY DEF Sayings
        <3> QED
            BY <2>1, <3>1, <3>2, <3>3 DEF Items
    <2> QED
        BY <2>0, <2>2, <2>3, <2>4, ApcItemIs
<1>4. CASE s[1] = Esc /\ Len(s) # 1 /\ s[2] = "["
    <2>0. Len(s) >= 2 /\ Len(s) > 1
        <3>1. Len(s) # 1
            BY <1>4
        <3> QED
            BY <1>0, <3>1, OneOrMore
    <2> DEFINE final == FirstAt(s, 3, Finals)
               body == SubSeq(s, 3, final)
    <2>1. Item(s) = CsiItem(s)
        BY <1>4, <2>0, ItemIs
    <2>2. CASE final > Len(s)
        <3>1. CsiItem(s) = Passes(0)
            BY <2>0, <2>2, CsiIs
        <3> QED
            BY <1>0, <1>1, <2>1, <3>1
    <2>3. CASE ~ (final > Len(s))
        <3>1. /\ final \in 3 .. Len(s) + 1
              /\ final <= Len(s) =>
                    CsiItem(s) = [takes |-> final,
                                  says |-> IF body \in DOMAIN Queries THEN Queries[body] ELSE "nothing"]
            BY <2>0, CsiIs
        <3> DEFINE says == IF body \in DOMAIN Queries THEN Queries[body] ELSE "nothing"
        <3>2. says \in Sayings
            <4> HIDE DEF body
            <4> QED
                BY DEF Sayings
        <3> HIDE DEF final, says
        <3>3. final \in 0 .. Len(s) /\ final <= Len(s)
            BY <1>0, <2>3, <3>1
        <3>4. CsiItem(s) = [takes |-> final, says |-> says]
            BY <3>1, <3>3 DEF says
        <3> QED
            BY <2>1, <3>2, <3>3, <3>4 DEF Items
    <2> QED
        BY <2>2, <2>3
<1> QED
    BY <1>2, <1>3, <1>4

-----------------------------------------------------------------------------
(* More bytes do not change what was complete, nor end what was open before *)
(* them.                                                                    *)
(* What a stream goes on with does not change what it began with.           *)
LEMMA Begins ==
    ASSUME NEW s \in Seq(Bytes), NEW t \in Seq(Bytes)
    PROVE  /\ s \o t \in Seq(Bytes) /\ Len(s \o t) = Len(s) + Len(t)
           /\ Len(s) \in Nat /\ Len(t) \in Nat
           /\ \A j \in 1 .. Len(s) : (s \o t)[j] = s[j]
<1>1. /\ s \o t \in Seq(Bytes) /\ Len(s \o t) = Len(s) + Len(t)
      /\ \A j \in 1 .. Len(s) + Len(t) : (s \o t)[j] = IF j <= Len(s) THEN s[j] ELSE t[j - Len(s)]
    BY ConcatProperties
<1>2. Len(s) \in Nat /\ Len(t) \in Nat
    OBVIOUS
<1> QED
    BY <1>1, <1>2

(* An item that is complete is the same whatever follows it.                *)
LEMMA ItemMore ==
    ASSUME NEW s \in Seq(Bytes), Len(s) >= 1, NEW t \in Seq(Bytes), Item(s).takes # 0
    PROVE  Item(s \o t) = Item(s)
<1> DEFINE all == s \o t
<1>1. /\ all \in Seq(Bytes) /\ Len(all) = Len(s) + Len(t) /\ Len(s) \in Nat /\ Len(t) \in Nat
      /\ \A j \in 1 .. Len(s) : all[j] = s[j]
    BY Begins
<1> HIDE DEF all
<1>2. Len(all) \in Nat /\ Len(all) >= 1 /\ all[1] = s[1]
    BY <1>1
<1>3. CASE s[1] # Esc
    BY <1>1, <1>2, <1>3, ItemIs DEF all
<1>4. CASE s[1] = Esc
    <2>1. Passes(0).takes = 0
        BY DEF Passes
    <2>2. Len(s) # 1
        BY <1>4, <2>1, ItemIs
    <2>3. Len(s) >= 2 /\ Len(s) > 1
        BY <1>1, <2>2, OneOrMore
    <2>4. Len(all) >= 2 /\ Len(all) > 1 /\ all[2] = s[2]
        BY <1>1, <2>3
    <2>5. CASE s[2] \notin {"_", "["}
        BY <1>1, <1>2, <1>4, <2>3, <2>4, <2>5, ItemIs DEF all
    <2>6. CASE s[2] = "_"
        <3> DEFINE body == RestOf(s, 3)
                   more == RestOf(all, 3)
        <3>1. Item(s) = ApcItem(s) /\ Item(all) = ApcItem(all)
            BY <1>1, <1>2, <1>4, <2>3, <2>4, <2>6, ItemIs
        <3>2. body \in Seq(Bytes) /\ more = body \o t
            <4>1. 3 \in 1 .. Len(s) + 1
                BY <1>1, <2>3
            <4> QED
                BY <4>1, RestOfMore, RestOfIs DEF all
        <3>3. Apc(body).kind # "open"
            BY <2>1, <2>3, <3>1, ApcItemIs
        <3>4. Apc(more) = Apc(body)
            <4> HIDE DEF body, more
            <4> QED
                BY <3>2, <3>3, ApcMore
        <3>5. CASE Apc(body).kind = "long"
            <4>1. ApcItem(s) = Passes(2)
                BY <2>3, <3>5, ApcItemIs
            <4>2. ApcItem(all) = Passes(2)
                BY <1>1, <2>4, <3>4, <3>5, ApcItemIs
            <4> QED
                BY <3>1, <4>1, <4>2 DEF all
        <3>6. CASE Apc(body).kind = "done"
            <4>1. ApcItem(s) = [takes |-> 2 + Apc(body).end,
                                says |-> IF Apc(body).ours THEN "announce" ELSE "nothing"]
                BY <2>3, <3>6, ApcItemIs
            <4>2. ApcItem(all) = [takes |-> 2 + Apc(more).end,
                                  says |-> IF Apc(more).ours THEN "announce" ELSE "nothing"]
                BY <1>1, <2>4, <3>4, <3>6, ApcItemIs
            <4> HIDE DEF body, more
            <4> QED
                BY <3>1, <3>4, <4>1, <4>2 DEF all
        <3> QED
            BY <2>3, <3>3, <3>5, <3>6, ApcItemIs
    <2>7. CASE s[2] = "["
        <3> DEFINE final == FirstAt(s, 3, Finals)
                   later == FirstAt(all, 3, Finals)
        <3>1. Item(s) = CsiItem(s) /\ Item(all) = CsiItem(all)
            BY <1>1, <1>2, <1>4, <2>3, <2>4, <2>7, ItemIs
        <3>2. ~ (final > Len(s)) /\ final \in 3 .. Len(s) + 1
            BY <2>1, <2>3, <3>1, CsiIs
        <3>3. final <= Len(s)
            <4> HIDE DEF final
            <4> QED
                BY <1>1, <3>2
        <3>4. later = final
            <4>1. 3 \in 1 .. Len(s) + 1
                BY <1>1, <2>3
            <4> QED
                BY <3>3, <4>1, FirstAtMore DEF all
        <3>5. SubSeq(all, 3, final) = SubSeq(s, 3, final)
            <4>1. 3 \in Nat /\ 3 >= 1
                OBVIOUS
            <4> HIDE DEF final
            <4>2. final \in Nat
                BY <1>1, <3>2
            <4> QED
                BY <3>3, <4>1, <4>2, PartOfMore DEF all
        <3>6. CsiItem(s) = [takes |-> final,
                            says |-> IF SubSeq(s, 3, final) \in DOMAIN Queries
                                     THEN Queries[SubSeq(s, 3, final)] ELSE "nothing"]
            BY <2>3, <3>3, CsiIs
        <3>7. later <= Len(all)
            <4> HIDE DEF final, later
            <4> QED
                BY <1>1, <3>2, <3>3, <3>4
        <3>8. CsiItem(all) = [takes |-> later,
                              says |-> IF SubSeq(all, 3, later) \in DOMAIN Queries
                                       THEN Queries[SubSeq(all, 3, later)] ELSE "nothing"]
            BY <1>1, <2>4, <3>7, CsiIs
        <3> HIDE DEF final, later
        <3> QED
            BY <3>1, <3>4, <3>5, <3>6, <3>8 DEF all
    <2> QED
        BY <2>5, <2>6, <2>7
<1> QED
    BY <1>3, <1>4

(* What an unfinished escape comes to say, it says after what was there.    *)
LEMMA ItemLate ==
    ASSUME NEW s \in Seq(Bytes), Len(s) >= 1, NEW t \in Seq(Bytes),
           Item(s).takes = 0, Item(s \o t).says # "nothing"
    PROVE  Item(s \o t).takes > Len(s)
<1> DEFINE all == s \o t
<1>1. /\ all \in Seq(Bytes) /\ Len(all) = Len(s) + Len(t) /\ Len(s) \in Nat /\ Len(t) \in Nat
      /\ \A j \in 1 .. Len(s) : all[j] = s[j]
    BY Begins
<1>2. Item(all).says # "nothing"
    OBVIOUS
<1> HIDE DEF all
<1>3. Len(all) \in Nat /\ Len(all) >= 1 /\ all[1] = s[1]
    BY <1>1
<1>4. Passes(0).says = "nothing" /\ Passes(1).says = "nothing" /\ Passes(2).says = "nothing"
    BY DEF Passes
<1>5. Passes(1).takes # 0 /\ Passes(2).takes # 0
    BY DEF Passes
<1>6. s[1] = Esc
    BY <1>5, ItemIs
<1>7. Len(all) # 1
    BY <1>1, <1>2, <1>3, <1>4, <1>6, ItemIs
<1>8. Len(all) >= 2 /\ Len(all) > 1
    BY <1>3, <1>7, OneOrMore
<1>9. all[2] \in {"_", "["}
    BY <1>1, <1>2, <1>3, <1>4, <1>6, <1>8, ItemIs
<1>10. CASE all[2] = "_"
    <2> DEFINE more == RestOf(all, 3)
    <2>1. Item(all) = ApcItem(all)
        BY <1>1, <1>3, <1>6, <1>8, <1>10, ItemIs
    <2>2. Apc(more).kind = "done"
        <3>1. ApcItem(all).says # "nothing"
            BY <1>2, <2>1
        <3>2. /\ Apc(more).kind \in {"open", "long", "done"}
              /\ Apc(more).kind = "open" => ApcItem(all) = Passes(0)
              /\ Apc(more).kind = "long" => ApcItem(all) = Passes(2)
            BY <1>1, <1>8, ApcItemIs
        <3> HIDE DEF more
        <3> QED
            BY <1>4, <3>1, <3>2
    <2>3. ApcItem(all) = [takes |-> 2 + Apc(more).end,
                          says |-> IF Apc(more).ours THEN "announce" ELSE "nothing"]
        BY <1>1, <1>8, <2>2, ApcItemIs
    <2>4. Apc(more).ours
        <3> HIDE DEF more
        <3> QED
            BY <1>2, <2>1, <2>3
    <2>5. Apc(more).end \in 1 .. Len(more) /\ Len(more) \in Nat
        BY <1>1, <1>3, <1>8, <2>2, <2>4, ApcItemIs
    <2>6. Item(all).takes = 2 + Apc(more).end
        BY <2>1, <2>3
    <2>7. CASE Len(s) = 1
        <3> HIDE DEF more
        <3> QED
            BY <2>5, <2>6, <2>7 DEF all
    <2>8. CASE Len(s) # 1
        <3> DEFINE body == RestOf(s, 3)
        <3>1. Len(s) >= 2 /\ Len(s) > 1
            BY <1>1, <2>8, OneOrMore
        <3>2. s[2] = "_"
            <4>1. 2 \in 1 .. Len(s)
                BY <1>1, <3>1
            <4>2. all[2] = s[2]
                BY <1>1, <4>1
            <4> QED
                BY <1>10, <4>2
        <3>3. Item(s) = ApcItem(s)
            BY <1>6, <3>1, <3>2, ItemIs
        <3>4. body \in Seq(Bytes) /\ more = body \o t
            <4>1. 3 \in 1 .. Len(s) + 1
                BY <1>1, <3>1
            <4> QED
                BY <4>1, RestOfMore, RestOfIs DEF all
        <3>5. Apc(body).kind = "open"
            <4>1. CASE Apc(body).kind = "long"
                BY <1>5, <3>1, <3>3, <4>1, ApcItemIs
            <4>2. CASE Apc(body).kind = "done"
                <5>1. /\ Apc(body).end \in 0 .. Len(body) /\ Len(body) = Len(s) - 2
                      /\ ApcItem(s) = [takes |-> 2 + Apc(body).end,
                                       says |-> IF Apc(body).ours THEN "announce" ELSE "nothing"]
                    BY <3>1, <4>2, ApcItemIs
                <5> HIDE DEF body
                <5>2. Item(s).takes = 2 + Apc(body).end /\ Apc(body).end \in Nat
                    BY <3>3, <5>1
                <5> QED
                    BY <5>2
            <4> QED
                BY <3>1, <4>1, <4>2, ApcItemIs
        <3>6. Len(body) = Len(s) - 2
            BY <3>1, ApcItemIs
        <3> HIDE DEF body, more
        <3>7. Apc(more).end > Len(body)
            BY <2>2, <2>4, <3>4, <3>5, ApcMore
        <3> QED
            BY <1>1, <2>5, <2>6, <3>6, <3>7 DEF all
    <2> QED
        BY <2>7, <2>8
<1>11. CASE all[2] = "["
    <2> DEFINE later == FirstAt(all, 3, Finals)
    <2>1. Item(all) = CsiItem(all)
        BY <1>1, <1>3, <1>6, <1>8, <1>11, ItemIs
    <2>2. later \in 3 .. Len(all) + 1 /\ ~ (later > Len(all))
        BY <1>1, <1>2, <1>4, <1>8, <2>1, CsiIs
    <2>3. later <= Len(all)
        <3> HIDE DEF later
        <3> QED
            BY <1>3, <2>2
    <2>4. Item(all).takes = later
        <3>1. CsiItem(all) = [takes |-> later,
                              says |-> IF SubSeq(all, 3, later) \in DOMAIN Queries
                                       THEN Queries[SubSeq(all, 3, later)] ELSE "nothing"]
            BY <1>1, <1>8, <2>3, CsiIs
        <3> HIDE DEF later
        <3> QED
            BY <2>1, <3>1
    <2>5. CASE Len(s) = 1
        <3> HIDE DEF later
        <3> QED
            BY <1>3, <2>2, <2>4, <2>5 DEF all
    <2>6. CASE Len(s) # 1
        <3> DEFINE final == FirstAt(s, 3, Finals)
        <3>1. Len(s) >= 2 /\ Len(s) > 1
            BY <1>1, <2>6, OneOrMore
        <3>2. s[2] = "["
            BY <1>1, <1>11, <3>1
        <3>3. Item(s) = CsiItem(s)
            BY <1>6, <3>1, <3>2, ItemIs
        <3>4. ~ (final <= Len(s))
            <4> SUFFICES ASSUME final <= Len(s) PROVE FALSE
                OBVIOUS
            <4>1. /\ CsiItem(s) = [takes |-> final,
                                   says |-> IF SubSeq(s, 3, final) \in DOMAIN Queries
                                            THEN Queries[SubSeq(s, 3, final)] ELSE "nothing"]
                  /\ final \in 3 .. Len(s) + 1
                BY <3>1, CsiIs
            <4> HIDE DEF final
            <4> QED
                BY <1>1, <3>3, <4>1
        <3>5. later > Len(s)
            <4>1. 3 \in 1 .. Len(s) + 1
                BY <1>1, <3>1
            <4> QED
                BY <3>4, <4>1, FirstAtMore DEF all
        <3> HIDE DEF later
        <3> QED
            BY <2>4, <3>5 DEF all
    <2> QED
        BY <2>5, <2>6
<1> QED
    BY <1>9, <1>10, <1>11

(* Nothing is said within an unfinished escape.                             *)
LEMMA OpenIsQuiet ==
    ASSUME NEW s \in Seq(Bytes), Len(s) >= 1, Item(s).takes = 0, NEW i \in 1 .. Len(s)
    PROVE  Item(RestOf(s, i)).says = "nothing"
<1> DEFINE r == RestOf(s, i)
<1>1. Len(s) \in Nat /\ i \in Nat /\ i \in 1 .. Len(s) + 1
    OBVIOUS
<1>2. /\ r \in Seq(Bytes) /\ Len(r) = Len(s) - i + 1
      /\ \A j \in 1 .. Len(s) - i + 1 : r[j] = s[i + j - 1]
    BY <1>1, RestOfIs
<1> HIDE DEF r
<1>3. Len(r) \in Nat /\ Len(r) >= 1 /\ r[1] = s[i]
    BY <1>1, <1>2
<1>4. Passes(0).says = "nothing" /\ Passes(1).says = "nothing" /\ Passes(2).says = "nothing"
    BY DEF Passes
<1>5. Passes(1).takes # 0 /\ Passes(2).takes # 0
    BY DEF Passes
<1>6. SUFFICES ASSUME Item(r).says # "nothing" PROVE FALSE
    BY DEF r
<1>7. r[1] = Esc /\ Len(r) # 1
    BY <1>2, <1>3, <1>4, <1>6, ItemIs
<1>8. Len(r) >= 2 /\ Len(r) > 1
    BY <1>3, <1>7, OneOrMore
<1>9. r[2] \in {"_", "["}
    BY <1>2, <1>3, <1>4, <1>6, <1>7, <1>8, ItemIs
<1>10. Len(s) >= 2 /\ Len(s) > 1 /\ i + 1 \in 2 .. Len(s) /\ r[2] = s[i + 1]
    BY <1>1, <1>2, <1>8
<1>11. s[1] = Esc /\ s[2] \in {"_", "["}
    BY <1>5, <1>10, ItemIs
<1>12. s[i] = Esc /\ s[i + 1] \in {"_", "["}
    BY <1>3, <1>7, <1>9, <1>10
<1>13. CASE s[2] = "_"
    <2> DEFINE body == RestOf(s, 3)
    <2>1. Item(s) = ApcItem(s)
        BY <1>10, <1>11, <1>13, ItemIs
    <2>2. /\ body \in Seq(Bytes) /\ Len(body) = Len(s) - 2
          /\ \A j \in 1 .. Len(s) - 2 : body[j] = s[2 + j]
        BY <1>10, ApcItemIs
    <2>3. Apc(body).kind = "open"
        <3>1. CASE Apc(body).kind = "long"
            BY <1>5, <1>10, <2>1, <3>1, ApcItemIs
        <3>2. CASE Apc(body).kind = "done"
            <4>1. /\ Apc(body).end \in 0 .. Len(body)
                  /\ ApcItem(s) = [takes |-> 2 + Apc(body).end,
                                   says |-> IF Apc(body).ours THEN "announce" ELSE "nothing"]
                BY <1>10, <3>2, ApcItemIs
            <4> HIDE DEF body
            <4>2. Item(s).takes = 2 + Apc(body).end /\ Apc(body).end \in Nat
                BY <2>1, <4>1
            <4> QED
                BY <4>2
        <3> QED
            BY <1>10, <3>1, <3>2, ApcItemIs
    <2> HIDE DEF body
    <2>4. \A j \in 1 .. Len(body) - 1 : body[j] # Esc
        BY <2>2, <2>3, OpenApc
    <2>5. CASE i = 1
        \* the very item of the escape
        <3>1. r = s
            <4>1. \A j \in 1 .. Len(s) : i + j - 1 = j
                BY <2>5
            <4>2. Len(r) = Len(s) /\ \A j \in 1 .. Len(s) : r[j] = s[j]
                BY <1>1, <1>2, <2>5, <4>1
            <4> QED
                BY <1>2, <4>2, SeqEqual
        <3>2. ApcItem(s) = Passes(0)
            BY <1>10, <2>3, ApcItemIs DEF body
        <3> QED
            BY <1>4, <1>6, <2>1, <3>1, <3>2
    <2>6. CASE i = 2
        <3>1. "_" # Esc
            BY DEF Esc
        <3> QED
            BY <1>12, <1>13, <2>6, <3>1
    <2>7. CASE i # 1 /\ i # 2
        <3>1. i - 2 \in 1 .. Len(body) - 1 /\ i - 2 \in 1 .. Len(s) - 2 /\ 2 + (i - 2) = i
            BY <1>1, <1>10, <2>2, <2>7
        <3>2. body[i - 2] = s[i]
            BY <2>2, <3>1
        <3> QED
            BY <1>12, <2>4, <3>1, <3>2
    <2> QED
        BY <2>5, <2>6, <2>7
<1>14. CASE s[2] = "["
    <2> DEFINE final == FirstAt(s, 3, Finals)
    <2>1. Item(s) = CsiItem(s)
        BY <1>10, <1>11, <1>14, ItemIs
    <2>2. final > Len(s)
        <3> SUFFICES ASSUME ~ (final > Len(s)) PROVE FALSE
            OBVIOUS
        <3>0. final \in 3 .. Len(s) + 1
            BY <1>10, CsiIs
        <3>1. final <= Len(s)
            <4> HIDE DEF final
            <4> QED
                BY <1>1, <3>0
        <3>2. CsiItem(s) = [takes |-> final,
                            says |-> IF SubSeq(s, 3, final) \in DOMAIN Queries
                                     THEN Queries[SubSeq(s, 3, final)] ELSE "nothing"]
            BY <1>10, <3>1, CsiIs
        <3> HIDE DEF final
        <3> QED
            BY <1>1, <2>1, <3>0, <3>2
    <2>3. \A j \in 3 .. final - 1 : s[j] \notin Finals
        BY <1>10, CsiIs
    <2>4. final \in 3 .. Len(s) + 1
        BY <1>10, CsiIs
    <2>5. CASE i = 1
        <3>1. r = s
            <4>1. \A j \in 1 .. Len(s) : i + j - 1 = j
                BY <2>5
            <4>2. Len(r) = Len(s) /\ \A j \in 1 .. Len(s) : r[j] = s[j]
                BY <1>1, <1>2, <2>5, <4>1
            <4> QED
                BY <1>2, <4>2, SeqEqual
        <3>2. CsiItem(s) = Passes(0)
            BY <1>10, <2>2, CsiIs
        <3> QED
            BY <1>4, <1>6, <2>1, <3>1, <3>2
    <2>6. CASE i # 1
        <3> HIDE DEF final
        <3>1. i + 1 \in 3 .. final - 1
            BY <1>1, <1>10, <2>2, <2>4, <2>6
        <3>2. "_" \in Finals /\ "[" \in Finals
            BY DEF Finals
        <3> QED
            BY <1>12, <2>3, <3>1, <3>2
    <2> QED
        BY <2>5, <2>6
<1> QED
    BY <1>11, <1>13, <1>14

-----------------------------------------------------------------------------
(* A scan, item by item, from the end of a buffer to its beginning.         *)
(* What a buffer has at a place, where it ends and what it says.            *)
ItemAt(s, i) == Item(RestOf(s, i))
EndAt(s, i) == i + ItemAt(s, i).takes - 1
AsksAt(s, i) ==
    IF ItemAt(s, i).says \in {"nothing", "announce"} THEN << >>
    ELSE <<<<EndAt(s, i), ItemAt(s, i).says>>>>
TellsAt(s, i) == IF ItemAt(s, i).says = "announce" THEN <<EndAt(s, i)>> ELSE << >>
Ends(s, i) == i > Len(s) \/ ItemAt(s, i).takes = 0

Found(E) == [asked : Seq(E \X Sayings), announced : Seq(E), tail : Nat]
NoMore(i) == [asked |-> << >>, announced |-> << >>, tail |-> i]
Adds(s, i, on) ==
    [asked |-> AsksAt(s, i) \o on.asked, announced |-> TellsAt(s, i) \o on.announced,
     tail |-> on.tail]

(* What scan_queries finds from each place on.                              *)
Scanned(f, s) ==
    \A i \in 1 .. Len(s) + 1 :
        /\ Ends(s, i) => f[i] = NoMore(i)
        /\ ~ Ends(s, i) => f[i] = Adds(s, i, f[i + ItemAt(s, i).takes])

LEMMA NextIs ==
    ASSUME NEW s \in Seq(Bytes), NEW i \in 1 .. Len(s) + 1, ~ Ends(s, i)
    PROVE  /\ i \in 1 .. Len(s) /\ ItemAt(s, i).takes \in Nat /\ ItemAt(s, i).says \in Sayings
           /\ i + ItemAt(s, i).takes \in i + 1 .. Len(s) + 1
           /\ EndAt(s, i) \in i .. Len(s) /\ EndAt(s, i) + 1 = i + ItemAt(s, i).takes
<1>1. i \in 1 .. Len(s) /\ Len(s) \in Nat /\ ItemAt(s, i).takes # 0
    BY DEF Ends
<1>2. RestOf(s, i) \in Seq(Bytes) /\ Len(RestOf(s, i)) = Len(s) - i + 1
    BY RestOfIs
<1>3. ItemAt(s, i) \in Items(Len(s) - i + 1)
    <2>1. Len(RestOf(s, i)) >= 1
        BY <1>1, <1>2
    <2> QED
        BY <1>2, <2>1, ItemTypes DEF ItemAt
<1>4. /\ ItemAt(s, i).takes \in 0 .. Len(s) - i + 1 /\ ItemAt(s, i).says \in Sayings
    BY <1>3 DEF Items
<1> DEFINE n == ItemAt(s, i).takes
<1>5. n \in 0 .. Len(s) - i + 1 /\ n # 0
    BY <1>1, <1>4
<1>6. EndAt(s, i) = i + n - 1
    BY DEF EndAt
<1> HIDE DEF n
<1>7. /\ n \in Nat /\ i + n \in i + 1 .. Len(s) + 1
      /\ i + n - 1 \in i .. Len(s) /\ (i + n - 1) + 1 = i + n
    BY <1>1, <1>5
<1> QED
    BY <1>1, <1>4, <1>6, <1>7 DEF n

LEMMA AddsTypes ==
    ASSUME NEW s \in Seq(Bytes), NEW i \in 1 .. Len(s) + 1, ~ Ends(s, i),
           NEW E, E \subseteq Nat, ItemAt(s, i).says # "nothing" => EndAt(s, i) \in E,
           NEW on \in Found(E)
    PROVE  /\ AsksAt(s, i) \in Seq(E \X Sayings) /\ TellsAt(s, i) \in Seq(E)
           /\ Adds(s, i, on) \in Found(E)
<1>1. ItemAt(s, i).says \in Sayings
    BY NextIs
<1>2. on.asked \in Seq(E \X Sayings) /\ on.announced \in Seq(E) /\ on.tail \in Nat
    BY DEF Found
<1> DEFINE e == EndAt(s, i)
           says == ItemAt(s, i).says
           a == AsksAt(s, i)
           b == TellsAt(s, i)
<1>3. /\ a = IF says \in {"nothing", "announce"} THEN << >> ELSE <<<<e, says>>>>
      /\ b = IF says = "announce" THEN <<e>> ELSE << >>
      /\ says # "nothing" => e \in E
      /\ says \in Sayings
    BY <1>1 DEF AsksAt, TellsAt
<1>4. Adds(s, i, on) = [asked |-> a \o on.asked, announced |-> b \o on.announced, tail |-> on.tail]
    BY DEF Adds
<1> HIDE DEF e, says, a, b
<1>5. a \in Seq(E \X Sayings)
    <2> HIDE DEF Sayings
    <2>1. CASE says \in {"nothing", "announce"}
        BY <1>3, <2>1
    <2>2. CASE says \notin {"nothing", "announce"}
        <3>1. <<e, says>> \in E \X Sayings
            BY <1>3, <2>2
        <3>2. <<<<e, says>>>> \in Seq(E \X Sayings)
            BY <3>1
        <3> QED
            BY <1>3, <2>2, <3>2
    <2> QED
        BY <2>1, <2>2
<1>6. b \in Seq(E)
    <2>1. CASE says = "announce"
        <3>1. e \in E /\ b = <<e>>
            BY <1>3, <2>1
        <3> QED
            BY <3>1
    <2>2. CASE says # "announce"
        BY <1>3, <2>2
    <2> QED
        BY <2>1, <2>2
<1>7. a \o on.asked \in Seq(E \X Sayings) /\ b \o on.announced \in Seq(E)
    BY <1>2, <1>5, <1>6, ConcatProperties
<1> QED
    BY <1>2, <1>4, <1>5, <1>6, <1>7 DEF Found, a, b

LEMMA NoMoreTypes ==
    ASSUME NEW E, NEW i \in Nat
    PROVE  NoMore(i) \in Found(E)
<1>1. << >> \in Seq(E \X Sayings) /\ << >> \in Seq(E)
    OBVIOUS
<1> QED
    BY <1>1 DEF NoMore, Found

LEMMA ScannedIs ==
    ASSUME NEW s \in Seq(Bytes)
    PROVE  \E f \in [1 .. Len(s) + 1 -> Found(Nat)] : Scanned(f, s)
<1> DEFINE n == Len(s)
           S == Found(Nat)
           ends == {i \in 1 .. n + 1 : Ends(s, i)}
           last == [i \in 1 .. n + 1 |-> NoMore(i)]
           next == [i \in 1 .. n + 1 |-> i + ItemAt(s, i).takes]
           step == [i \in 1 .. n + 1 |-> [on \in S |-> IF i \in ends THEN on ELSE Adds(s, i, on)]]
<1>1. n \in Nat
    OBVIOUS
<1>2. n + 1 \in ends
    BY <1>1 DEF Ends
<1>3. last \in [1 .. n + 1 -> S]
    BY NoMoreTypes
<1>4. ASSUME NEW i \in 1 .. n + 1, i \notin ends PROVE next[i] \in i + 1 .. n + 1
    BY <1>4, NextIs
<1>5. step \in [1 .. n + 1 -> [S -> S]]
    <2>1. ASSUME NEW i \in 1 .. n + 1, NEW on \in S, i \notin ends PROVE Adds(s, i, on) \in S
        <3>1. ~ Ends(s, i)
            BY <2>1
        <3>2. ItemAt(s, i).says # "nothing" => EndAt(s, i) \in Nat
            BY <1>1, <3>1, NextIs
        <3> QED
            BY <3>1, <3>2, AddsTypes
    <2> HIDE DEF S, ends
    <2>2. ASSUME NEW i \in 1 .. n + 1
          PROVE  [on \in S |-> IF i \in ends THEN on ELSE Adds(s, i, on)] \in [S -> S]
        BY <2>1
    <2> QED
        BY <2>2
<1>6. ASSUME NEW i \in 1 .. n + 1, NEW on \in S, i \notin ends PROVE step[i][on] = Adds(s, i, on)
    BY <1>6
<1>7. \A i \in 1 .. n + 1 : last[i] = NoMore(i) /\ next[i] = i + ItemAt(s, i).takes
    OBVIOUS
<1>8. \A i \in 1 .. n + 1 : i \in ends <=> Ends(s, i)
    OBVIOUS
<1> HIDE DEF n, S, ends, last, next, step
<1>9. PICK f \in [1 .. n + 1 -> S] : Backwards(f, 1, n, ends, last, next, step)
    BY <1>1, <1>2, <1>3, <1>4, <1>5, BackwardsIs
<1>10. ASSUME NEW i \in 1 .. n + 1
       PROVE  /\ Ends(s, i) => f[i] = NoMore(i)
              /\ ~ Ends(s, i) => f[i] = Adds(s, i, f[i + ItemAt(s, i).takes])
    <2>1. /\ i \in ends => f[i] = last[i]
          /\ i \notin ends => f[i] = step[i][f[next[i]]]
        BY <1>9 DEF Backwards
    <2>2. CASE i \in ends
        BY <1>7, <1>8, <2>1, <2>2
    <2>3. CASE i \notin ends
        <3>1. next[i] \in 1 .. n + 1
            <4>1. \A x \in i + 1 .. n + 1 : x \in 1 .. n + 1
                BY <1>1
            <4> QED
                BY <1>4, <2>3, <4>1
        <3>2. f[next[i]] \in S
            BY <3>1
        <3>3. f[i] = Adds(s, i, f[next[i]])
            BY <1>6, <2>1, <2>3, <3>2
        <3> QED
            BY <1>7, <1>8, <2>3, <3>3
    <2> QED
        BY <2>2, <2>3
<1> QED
    BY <1>10 DEF Scanned, n, S

(* When all that is said ends in a set of places, that is where what is     *)
(* found ends; and it is found up to an escape that is unfinished.          *)
LEMMA ScannedTypes ==
    ASSUME NEW s \in Seq(Bytes), NEW f, Scanned(f, s), NEW E, E \subseteq Nat,
           \A i \in 1 .. Len(s) : ~ Ends(s, i) /\ ItemAt(s, i).says # "nothing" => EndAt(s, i) \in E
    PROVE  \A i \in 1 .. Len(s) + 1 :
               f[i] \in Found(E) /\ f[i].tail \in i .. Len(s) + 1 /\ Ends(s, f[i].tail)
<1> DEFINE n == Len(s)
           S == {i \in 1 .. n + 1 : f[i] \in Found(E) /\ f[i].tail \in i .. n + 1 /\ Ends(s, f[i].tail)}
<1>1. n \in Nat
    OBVIOUS
<1>2. ASSUME NEW i \in 1 .. n + 1, Ends(s, i) PROVE i \in S
    <2>1. f[i] = NoMore(i)
        BY <1>2 DEF Scanned
    <2>2. i \in Nat /\ i \in i .. n + 1
        BY <1>1
    <2>3. f[i].tail = i
        BY <2>1 DEF NoMore
    <2> QED
        BY <1>2, <2>1, <2>2, <2>3, NoMoreTypes
<1>3. n + 1 \in S
    <2>1. n + 1 \in 1 .. n + 1 /\ n + 1 > n
        BY <1>1
    <2> QED
        BY <1>2, <2>1 DEF Ends
<1>4. ASSUME NEW i \in 1 .. n, \A j \in i + 1 .. n + 1 : j \in S PROVE i \in S
    <2>0. i \in 1 .. n + 1
        BY <1>1
    <2>1. CASE Ends(s, i)
        BY <1>2, <2>0, <2>1
    <2>2. CASE ~ Ends(s, i)
        <3> DEFINE j == i + ItemAt(s, i).takes
        <3>1. j \in i + 1 .. n + 1
            BY <2>0, <2>2, NextIs
        <3>2. j \in S
            BY <1>4, <3>1
        <3>3. f[i] = Adds(s, i, f[j])
            BY <2>0, <2>2 DEF Scanned
        <3>4. ItemAt(s, i).says # "nothing" => EndAt(s, i) \in E
            BY <2>2
        <3> HIDE DEF j
        <3>5. f[j] \in Found(E) /\ f[j].tail \in j .. n + 1 /\ Ends(s, f[j].tail)
            BY <3>2
        <3>6. f[i] \in Found(E)
            BY <2>0, <2>2, <3>3, <3>4, <3>5, AddsTypes
        <3>7. f[i].tail = f[j].tail
            BY <3>3 DEF Adds
        <3>8. f[i].tail \in i .. n + 1
            BY <1>1, <3>1, <3>5, <3>7
        <3> QED
            BY <2>0, <3>5, <3>6, <3>7, <3>8
    <2> QED
        BY <2>1, <2>2
<1> HIDE DEF S
<1>5. \A i \in 1 .. n + 1 : i \in S
    BY <1>1, <1>3, <1>4, DownFrom
<1> QED
    BY <1>5 DEF S

LEMMA EndsAreNumbers ==
    ASSUME NEW s \in Seq(Bytes)
    PROVE  \A i \in 1 .. Len(s) : ~ Ends(s, i) /\ ItemAt(s, i).says # "nothing" => EndAt(s, i) \in 1 .. Len(s)
<1> SUFFICES ASSUME NEW i \in 1 .. Len(s), ~ Ends(s, i) PROVE EndAt(s, i) \in 1 .. Len(s)
    OBVIOUS
<1>1. i \in 1 .. Len(s) + 1 /\ Len(s) \in Nat
    OBVIOUS
<1>2. EndAt(s, i) \in i .. Len(s)
    BY <1>1, NextIs
<1> QED
    BY <1>1, <1>2

LEMMA ScanIs ==
    ASSUME NEW s \in Seq(Bytes)
    PROVE  \E f : Scanned(f, s) /\ Scan(s) = f[1]
<1> DEFINE item(i) == Item(SubSeq(s, i, Len(s)))
           end(i) == i + item(i).takes - 1
           asks(i) == IF item(i).says \in {"nothing", "announce"} THEN << >>
                      ELSE <<<<end(i), item(i).says>>>>
           tells(i) == IF item(i).says = "announce" THEN <<end(i)>> ELSE << >>
           from[i \in 1 .. Len(s) + 1] ==
               IF i > Len(s) \/ item(i).takes = 0
               THEN [asked |-> << >>, announced |-> << >>, tail |-> i]
               ELSE LET on == from[i + item(i).takes] IN
                    [asked |-> asks(i) \o on.asked, announced |-> tells(i) \o on.announced,
                     tail |-> on.tail]
           Eq(f) == f = [i \in 1 .. Len(s) + 1 |->
                            IF i > Len(s) \/ item(i).takes = 0
                            THEN [asked |-> << >>, announced |-> << >>, tail |-> i]
                            ELSE LET on == f[i + item(i).takes] IN
                                 [asked |-> asks(i) \o on.asked,
                                  announced |-> tells(i) \o on.announced,
                                  tail |-> on.tail]]
           E2(f, i) == IF Ends(s, i) THEN NoMore(i) ELSE Adds(s, i, f[i + ItemAt(s, i).takes])
<1>1. Scan(s) = from[1]
    BY DEF Scan
<1>2. \A f : Eq(f) <=> f = [i \in 1 .. Len(s) + 1 |-> E2(f, i)]
    BY DEF Ends, NoMore, Adds, AsksAt, TellsAt, EndAt, ItemAt, RestOf
<1>3. \E f : Eq(f)
    <2>1. PICK g \in [1 .. Len(s) + 1 -> Found(Nat)] : Scanned(g, s)
        BY ScannedIs
    <2>2. \A i \in 1 .. Len(s) + 1 : g[i] = E2(g, i)
        BY <2>1 DEF Scanned
    <2> HIDE DEF E2
    <2>3. g = [i \in 1 .. Len(s) + 1 |-> E2(g, i)]
        BY <2>2
    <2> HIDE DEF Eq
    <2> QED
        BY <1>2, <2>3, Zenon
<1>4. Eq(from)
    <2> HIDE DEF item, asks, tells
    <2> QED
        BY <1>3
<1>5. from = [i \in 1 .. Len(s) + 1 |-> E2(from, i)]
    <2> HIDE DEF from, Eq
    <2> QED
        BY <1>2, <1>4
<1> HIDE DEF from
<1>6. \A i \in 1 .. Len(s) + 1 : from[i] = E2(from, i)
    <2> HIDE DEF E2
    <2> QED
        BY <1>5
<1>7. Scanned(from, s)
    BY <1>6 DEF Scanned
<1> QED
    BY <1>1, <1>7

-----------------------------------------------------------------------------
(* A scan of more bytes goes on where the scan of the first ones stopped:   *)
(* what is found is what is found up to an unfinished escape, and what is   *)
(* found from there.                                                        *)
Then(r, on) ==
    [asked |-> r.asked \o on.asked, announced |-> r.announced \o on.announced, tail |-> on.tail]

LEMMA ThenAdds ==
    ASSUME NEW s \in Seq(Bytes), NEW i \in 1 .. Len(s) + 1, ~ Ends(s, i),
           NEW r \in Found(Nat), NEW on \in Found(Nat)
    PROVE  Adds(s, i, Then(r, on)) = Then(Adds(s, i, r), on)
<1>1. Len(s) \in Nat
    OBVIOUS
<1>2. ItemAt(s, i).says # "nothing" => EndAt(s, i) \in Nat
    BY <1>1, NextIs
<1> DEFINE a == AsksAt(s, i)
           b == TellsAt(s, i)
<1>3. a \in Seq(Nat \X Sayings) /\ b \in Seq(Nat)
    BY <1>2, AddsTypes
<1>4. /\ r.asked \in Seq(Nat \X Sayings) /\ r.announced \in Seq(Nat)
      /\ on.asked \in Seq(Nat \X Sayings) /\ on.announced \in Seq(Nat)
    BY DEF Found
<1> HIDE DEF a, b
<1>5. a \o (r.asked \o on.asked) = (a \o r.asked) \o on.asked
    <2> DEFINE p == r.asked
               q == on.asked
               S == Nat \X Sayings
    <2>1. a \in Seq(S) /\ p \in Seq(S) /\ q \in Seq(S)
        BY <1>3, <1>4
    <2> HIDE DEF p, q, S
    <2>2. (a \o p) \o q = a \o (p \o q)
        BY <2>1, ConcatAssociative, SMTT(30)
    <2> QED
        BY <2>2 DEF p, q
<1>7. b \o (r.announced \o on.announced) = (b \o r.announced) \o on.announced
    <2> DEFINE p == r.announced
               q == on.announced
    <2>1. b \in Seq(Nat) /\ p \in Seq(Nat) /\ q \in Seq(Nat)
        BY <1>3, <1>4
    <2> HIDE DEF p, q
    <2>2. (b \o p) \o q = b \o (p \o q)
        BY <2>1, ConcatAssociative, SMTT(30)
    <2> QED
        BY <2>2 DEF p, q
<1>6. /\ Adds(s, i, Then(r, on)) =
             [asked |-> a \o (r.asked \o on.asked),
              announced |-> b \o (r.announced \o on.announced), tail |-> on.tail]
      /\ Then(Adds(s, i, r), on) =
             [asked |-> (a \o r.asked) \o on.asked,
              announced |-> (b \o r.announced) \o on.announced, tail |-> on.tail]
    BY DEF Adds, Then, a, b
<1> QED
    BY <1>5, <1>6, <1>7

LEMMA ScannedMore ==
    ASSUME NEW s \in Seq(Bytes), NEW t \in Seq(Bytes), NEW f, Scanned(f, s), NEW h, Scanned(h, s \o t)
    PROVE  \A i \in 1 .. Len(s) + 1 : h[i] = Then(f[i], h[f[i].tail])
<1> DEFINE n == Len(s)
           all == s \o t
           S == {i \in 1 .. n + 1 : h[i] = Then(f[i], h[f[i].tail])}
<1>1. n \in Nat /\ Len(t) \in Nat /\ all \in Seq(Bytes) /\ Len(all) = n + Len(t)
    BY Begins
<1> HIDE DEF all
<1>2. \A i \in 1 .. n + 1 : f[i] \in Found(Nat) /\ f[i].tail \in i .. n + 1
    <2>1. \A i \in 1 .. n : ~ Ends(s, i) /\ ItemAt(s, i).says # "nothing" => EndAt(s, i) \in Nat
        BY EndsAreNumbers
    <2> QED
        BY <2>1, ScannedTypes
<1>3. \A i \in 1 .. n + 1 : h[i] \in Found(Nat)
    <2>1. \A i \in 1 .. Len(all) : ~ Ends(all, i) /\ ItemAt(all, i).says # "nothing" => EndAt(all, i) \in Nat
        BY <1>1, EndsAreNumbers
    <2>2. \A i \in 1 .. Len(all) + 1 : h[i] \in Found(Nat)
        BY <1>1, <2>1, ScannedTypes DEF all
    <2>3. \A i \in 1 .. n + 1 : i \in 1 .. Len(all) + 1
        BY <1>1
    <2> QED
        BY <2>2, <2>3
<1>4. ASSUME NEW i \in 1 .. n + 1, Ends(s, i) PROVE i \in S
    <2>1. f[i] = NoMore(i)
        BY <1>4 DEF Scanned
    <2>2. f[i].tail = i /\ f[i].asked = << >> /\ f[i].announced = << >>
        BY <2>1 DEF NoMore
    <2>3. h[i] \in Found(Nat)
        BY <1>3
    <2> DEFINE r == h[i]
    <2>4. r \in Found(Nat)
        BY <2>3
    <2> HIDE DEF r
    <2>5. r = [asked |-> r.asked, announced |-> r.announced, tail |-> r.tail]
          /\ r.asked \in Seq(Nat \X Sayings) /\ r.announced \in Seq(Nat)
        BY <2>4 DEF Found
    <2>6. << >> \o r.asked = r.asked /\ << >> \o r.announced = r.announced
        BY <2>5, ConcatEmptySeq
    <2>7. Then(f[i], r) = r
        BY <2>2, <2>5, <2>6 DEF Then
    <2> QED
        BY <1>4, <2>2, <2>7 DEF r
<1>5. n + 1 \in S
    <2>1. n + 1 \in 1 .. n + 1 /\ n + 1 > n
        BY <1>1
    <2> QED
        BY <1>4, <2>1 DEF Ends
<1>6. ASSUME NEW i \in 1 .. n, \A j \in i + 1 .. n + 1 : j \in S PROVE i \in S
    <2>0. i \in 1 .. n + 1 /\ i \in 1 .. Len(all) + 1 /\ ~ (i > n) /\ ~ (i > Len(all))
        BY <1>1
    <2>1. CASE Ends(s, i)
        BY <1>4, <2>0, <2>1
    <2>2. CASE ~ Ends(s, i)
        <3> DEFINE j == i + ItemAt(s, i).takes
        <3>1. j \in i + 1 .. n + 1
            BY <2>0, <2>2, NextIs
        <3>2. j \in S /\ j \in 1 .. n + 1
            BY <1>1, <1>6, <3>1
        <3>3. f[i] = Adds(s, i, f[j])
            BY <2>0, <2>2 DEF Scanned
        <3>4. ItemAt(all, i) = ItemAt(s, i)
            <4>1. RestOf(all, i) = RestOf(s, i) \o t
                BY <2>0, RestOfMore DEF all
            <4>2. RestOf(s, i) \in Seq(Bytes) /\ Len(RestOf(s, i)) = n - i + 1
                BY <2>0, RestOfIs
            <4>3. Len(RestOf(s, i)) >= 1
                BY <1>1, <4>2
            <4>4. Item(RestOf(s, i)).takes # 0
                BY <2>2 DEF Ends, ItemAt
            <4> QED
                BY <4>1, <4>2, <4>3, <4>4, ItemMore DEF ItemAt
        <3>5. ~ Ends(all, i)
            BY <2>0, <2>2, <3>4 DEF Ends
        <3>6. h[i] = Adds(all, i, h[j])
            BY <2>0, <3>4, <3>5 DEF Scanned, all
        <3>7. Adds(all, i, h[j]) = Adds(s, i, h[j])
            BY <3>4 DEF Adds, AsksAt, TellsAt, EndAt
        <3> HIDE DEF j
        <3>8. h[j] = Then(f[j], h[f[j].tail])
            BY <3>2
        <3>9. f[j] \in Found(Nat) /\ h[f[j].tail] \in Found(Nat)
            <4>1. f[j].tail \in 1 .. n + 1
                <5>1. \A x \in j .. n + 1 : x \in 1 .. n + 1
                    BY <1>1, <3>1
                <5> QED
                    BY <1>2, <3>2, <5>1
            <4> QED
                BY <1>2, <1>3, <3>2, <4>1
        <3>10. h[i] = Then(f[i], h[f[j].tail])
            BY <2>0, <2>2, <3>3, <3>6, <3>7, <3>8, <3>9, ThenAdds
        <3>11. f[i].tail = f[j].tail
            BY <3>3 DEF Adds
        <3> QED
            BY <2>0, <3>10, <3>11
    <2> QED
        BY <2>1, <2>2
<1> HIDE DEF S
<1>7. \A i \in 1 .. n + 1 : i \in S
    BY <1>1, <1>5, <1>6, DownFrom
<1> QED
    BY <1>7 DEF S

-----------------------------------------------------------------------------
(* What is found in the rest of a buffer, placed in the buffer.             *)
MovedAsks(a, by) == [i \in DOMAIN a |-> <<by[a[i][1]], a[i][2]>>]
MovedTells(b, by) == [i \in DOMAIN b |-> by[b[i]]]

\* what is asked at places of a set, and a way to move them
Asked(E) == Seq(E \X Sayings)
Told(E) == Seq(E)
Moves(by, E) == \A p \in E : by[p] \in Nat

LEMMA MovedIs == ASSUME NEW r, NEW by
                 PROVE  Moved(r, by).asked = MovedAsks(r.asked, by)
                        /\ Moved(r, by).announced = MovedTells(r.announced, by)
BY DEF Moved, MovedAsks, MovedTells

LEMMA MovedAsksIs ==
    ASSUME NEW E, NEW by, Moves(by, E), NEW a \in Asked(E)
    PROVE  /\ MovedAsks(a, by) \in Asked(Nat) /\ Len(MovedAsks(a, by)) = Len(a)
           /\ \A i \in 1 .. Len(a) : MovedAsks(a, by)[i] = <<by[a[i][1]], a[i][2]>>
<1>1. DOMAIN a = 1 .. Len(a) /\ Len(a) \in Nat
    BY DEF Asked
<1> DEFINE e(i) == <<by[a[i][1]], a[i][2]>>
           n == Len(a)
<1>2. \A i \in 1 .. n : e(i) \in Nat \X Sayings
    <2> SUFFICES ASSUME NEW i \in 1 .. n PROVE e(i) \in Nat \X Sayings
        OBVIOUS
    <2> HIDE DEF Sayings
    <2>1. a[i] \in E \X Sayings
        BY DEF Asked
    <2>2. a[i][1] \in E /\ a[i][2] \in Sayings
        BY <2>1
    <2> QED
        BY <2>2 DEF Moves
<1>3. MovedAsks(a, by) = [i \in 1 .. n |-> e(i)]
    BY <1>1 DEF MovedAsks
<1> HIDE DEF e, n
<1>4. [i \in 1 .. n |-> e(i)] \in Asked(Nat) /\ Len([i \in 1 .. n |-> e(i)]) = n
    BY <1>1, <1>2 DEF n, Asked
<1>5. \A i \in 1 .. n : MovedAsks(a, by)[i] = e(i)
    BY <1>3
<1> QED
    BY <1>3, <1>4, <1>5 DEF e, n

LEMMA MovedTellsIs ==
    ASSUME NEW E, NEW by, Moves(by, E), NEW b \in Told(E)
    PROVE  /\ MovedTells(b, by) \in Told(Nat) /\ Len(MovedTells(b, by)) = Len(b)
           /\ \A i \in 1 .. Len(b) : MovedTells(b, by)[i] = by[b[i]]
<1>1. DOMAIN b = 1 .. Len(b) /\ Len(b) \in Nat
    BY DEF Told
<1> DEFINE e(i) == by[b[i]]
           n == Len(b)
<1>2. \A i \in 1 .. n : e(i) \in Nat
    <2> SUFFICES ASSUME NEW i \in 1 .. n PROVE e(i) \in Nat
        OBVIOUS
    <2>1. b[i] \in E
        BY DEF Told
    <2> QED
        BY <2>1 DEF Moves
<1>3. MovedTells(b, by) = [i \in 1 .. n |-> e(i)]
    BY <1>1 DEF MovedTells
<1> HIDE DEF e, n
<1>4. [i \in 1 .. n |-> e(i)] \in Told(Nat) /\ Len([i \in 1 .. n |-> e(i)]) = n
    BY <1>1, <1>2 DEF n, Told
<1>5. \A i \in 1 .. n : MovedTells(b, by)[i] = e(i)
    BY <1>3
<1> QED
    BY <1>3, <1>4, <1>5 DEF e, n

LEMMA MovedAsksMore ==
    ASSUME NEW E, NEW by, Moves(by, E),
           NEW a \in Asked(E), NEW c \in Asked(E)
    PROVE  MovedAsks(a \o c, by) = MovedAsks(a, by) \o MovedAsks(c, by)
<1> DEFINE all == a \o c
           x == MovedAsks(all, by)
           p == MovedAsks(a, by)
           q == MovedAsks(c, by)
           y == p \o q
<1>1. /\ all \in Asked(E) /\ Len(all) = Len(a) + Len(c) /\ Len(a) \in Nat /\ Len(c) \in Nat
      /\ \A i \in 1 .. Len(a) + Len(c) : all[i] = IF i <= Len(a) THEN a[i] ELSE c[i - Len(a)]
    BY ConcatProperties DEF Asked, Told
<1> HIDE DEF all
<1>2. /\ x \in Asked(Nat) /\ Len(x) = Len(a) + Len(c)
      /\ \A i \in 1 .. Len(a) + Len(c) : x[i] = <<by[all[i][1]], all[i][2]>>
    <2>1. /\ MovedAsks(all, by) \in Asked(Nat) /\ Len(MovedAsks(all, by)) = Len(all)
          /\ \A i \in 1 .. Len(all) : MovedAsks(all, by)[i] = <<by[all[i][1]], all[i][2]>>
        BY <1>1, MovedAsksIs
    <2> HIDE DEF x
    <2> QED
        BY <1>1, <2>1 DEF x
<1>3. /\ p \in Asked(Nat) /\ Len(p) = Len(a)
      /\ \A i \in 1 .. Len(a) : p[i] = <<by[a[i][1]], a[i][2]>>
    BY MovedAsksIs
<1>4. /\ q \in Asked(Nat) /\ Len(q) = Len(c)
      /\ \A i \in 1 .. Len(c) : q[i] = <<by[c[i][1]], c[i][2]>>
    BY MovedAsksIs
<1> HIDE DEF x, p, q
<1>5. /\ y \in Asked(Nat) /\ Len(y) = Len(a) + Len(c)
      /\ \A i \in 1 .. Len(a) + Len(c) : y[i] = IF i <= Len(a) THEN p[i] ELSE q[i - Len(a)]
    <2> DEFINE S == Nat \X Sayings
    <2>1. p \in Seq(S) /\ q \in Seq(S)
        BY <1>3, <1>4 DEF Asked
    <2> HIDE DEF S
    <2>2. /\ y \in Seq(S) /\ Len(y) = Len(p) + Len(q)
          /\ \A i \in 1 .. Len(p) + Len(q) : y[i] = IF i <= Len(p) THEN p[i] ELSE q[i - Len(p)]
        BY <2>1, ConcatProperties
    <2> HIDE DEF y
    <2>3. Len(p) = Len(a) /\ Len(q) = Len(c)
        BY <1>3, <1>4
    <2> QED
        BY <2>2, <2>3 DEF S, Asked
<1> HIDE DEF y
<1>6. ASSUME NEW i \in 1 .. Len(a) + Len(c) PROVE x[i] = y[i]
    <2>1. CASE i <= Len(a)
        <3>1. i \in 1 .. Len(a) /\ all[i] = a[i] /\ y[i] = p[i]
            BY <1>1, <1>5, <2>1
        <3> QED
            BY <1>2, <1>3, <3>1
    <2>2. CASE ~ (i <= Len(a))
        <3>1. i - Len(a) \in 1 .. Len(c) /\ all[i] = c[i - Len(a)] /\ y[i] = q[i - Len(a)]
            BY <1>1, <1>5, <2>2
        <3> QED
            BY <1>2, <1>4, <3>1
    <2> QED
        BY <2>1, <2>2
<1>7. x = y
    BY <1>2, <1>5, <1>6, SeqEqual DEF Asked, Told
<1> QED
    BY <1>7 DEF x, y, p, q, all

LEMMA MovedTellsMore ==
    ASSUME NEW E, NEW by, Moves(by, E), NEW a \in Told(E), NEW c \in Told(E)
    PROVE  MovedTells(a \o c, by) = MovedTells(a, by) \o MovedTells(c, by)
<1> DEFINE all == a \o c
           x == MovedTells(all, by)
           p == MovedTells(a, by)
           q == MovedTells(c, by)
           y == p \o q
<1>1. /\ all \in Told(E) /\ Len(all) = Len(a) + Len(c) /\ Len(a) \in Nat /\ Len(c) \in Nat
      /\ \A i \in 1 .. Len(a) + Len(c) : all[i] = IF i <= Len(a) THEN a[i] ELSE c[i - Len(a)]
    BY ConcatProperties DEF Asked, Told
<1> HIDE DEF all
<1>2. /\ x \in Told(Nat) /\ Len(x) = Len(a) + Len(c)
      /\ \A i \in 1 .. Len(a) + Len(c) : x[i] = by[all[i]]
    <2>1. /\ MovedTells(all, by) \in Told(Nat) /\ Len(MovedTells(all, by)) = Len(all)
          /\ \A i \in 1 .. Len(all) : MovedTells(all, by)[i] = by[all[i]]
        BY <1>1, MovedTellsIs
    <2> HIDE DEF x
    <2> QED
        BY <1>1, <2>1 DEF x
<1>3. p \in Told(Nat) /\ Len(p) = Len(a) /\ \A i \in 1 .. Len(a) : p[i] = by[a[i]]
    BY MovedTellsIs
<1>4. q \in Told(Nat) /\ Len(q) = Len(c) /\ \A i \in 1 .. Len(c) : q[i] = by[c[i]]
    BY MovedTellsIs
<1> HIDE DEF x, p, q
<1>5. /\ y \in Told(Nat) /\ Len(y) = Len(a) + Len(c)
      /\ \A i \in 1 .. Len(a) + Len(c) : y[i] = IF i <= Len(a) THEN p[i] ELSE q[i - Len(a)]
    <2>1. p \in Seq(Nat) /\ q \in Seq(Nat)
        BY <1>3, <1>4 DEF Told
    <2>2. /\ y \in Seq(Nat) /\ Len(y) = Len(p) + Len(q)
          /\ \A i \in 1 .. Len(p) + Len(q) : y[i] = IF i <= Len(p) THEN p[i] ELSE q[i - Len(p)]
        BY <2>1, ConcatProperties
    <2> HIDE DEF y
    <2>3. Len(p) = Len(a) /\ Len(q) = Len(c)
        BY <1>3, <1>4
    <2> QED
        BY <2>2, <2>3 DEF Told
<1> HIDE DEF y
<1>6. ASSUME NEW i \in 1 .. Len(a) + Len(c) PROVE x[i] = y[i]
    <2>1. CASE i <= Len(a)
        <3>1. i \in 1 .. Len(a) /\ all[i] = a[i] /\ y[i] = p[i]
            BY <1>1, <1>5, <2>1
        <3> QED
            BY <1>2, <1>3, <3>1
    <2>2. CASE ~ (i <= Len(a))
        <3>1. i - Len(a) \in 1 .. Len(c) /\ all[i] = c[i - Len(a)] /\ y[i] = q[i - Len(a)]
            BY <1>1, <1>5, <2>2
        <3> QED
            BY <1>2, <1>4, <3>1
    <2> QED
        BY <2>1, <2>2
<1>7. x = y
    BY <1>2, <1>5, <1>6, SeqEqual DEF Asked, Told
<1> QED
    BY <1>7 DEF x, y, p, q, all

(* What is said at a place is said at the place it is moved to.             *)
LEMMA MovedSaid ==
    ASSUME NEW s \in Seq(Bytes), NEW k \in 0 .. Len(s), NEW by,
           \A p \in 1 .. Len(s) - k : by[p] = k + p,
           NEW i \in 1 .. Len(s) - k + 1, ~ Ends(RestOf(s, k + 1), i)
    PROVE  /\ AsksAt(s, k + i) = MovedAsks(AsksAt(RestOf(s, k + 1), i), by)
           /\ TellsAt(s, k + i) = MovedTells(TellsAt(RestOf(s, k + 1), i), by)
           /\ ItemAt(s, k + i) = ItemAt(RestOf(s, k + 1), i)
<1> DEFINE u == RestOf(s, k + 1)
           e == EndAt(u, i)
           says == ItemAt(u, i).says
<1>1. /\ Len(s) \in Nat /\ k \in Nat /\ k + 1 \in 1 .. Len(s) + 1
      /\ Len(s) - (k + 1) + 1 = Len(s) - k
    OBVIOUS
<1>2. u \in Seq(Bytes) /\ Len(u) = Len(s) - k
    BY <1>1, RestOfIs
<1>3. ItemAt(s, k + i) = ItemAt(u, i)
    <2>1. i \in 1 .. Len(s) - (k + 1) + 2 /\ (k + 1) + i - 1 = k + i
        BY <1>1
    <2>2. RestOf(RestOf(s, k + 1), i) = RestOf(s, (k + 1) + i - 1)
        BY <1>1, <2>1, RestOfRest
    <2> QED
        BY <2>1, <2>2 DEF ItemAt
<1>4. e \in 1 .. Len(s) - k /\ e \in Nat
    <2> HIDE DEF u
    <2>1. i \in 1 .. Len(u) + 1 /\ Len(u) \in Nat
        BY <1>2
    <2>2. e \in i .. Len(u)
        BY <1>2, <2>1, NextIs DEF u
    <2> HIDE DEF e
    <2> QED
        BY <1>2, <2>1, <2>2
<1>5. EndAt(s, k + i) = by[e]
    <2>1. EndAt(s, k + i) = k + e
        <3> DEFINE n == ItemAt(u, i).takes
        <3>1. EndAt(s, k + i) = (k + i) + n - 1 /\ e = i + n - 1
            BY <1>3 DEF EndAt
        <3>2. n \in Nat
            <4> HIDE DEF u
            <4>1. i \in 1 .. Len(u) + 1
                BY <1>2
            <4> QED
                BY <1>2, <4>1, NextIs DEF u
        <3> HIDE DEF n, e
        <3> QED
            BY <1>1, <3>1, <3>2
    <2> HIDE DEF e
    <2> QED
        BY <1>4, <2>1
<1> HIDE DEF e, says
<1>6. /\ AsksAt(u, i) = IF says \in {"nothing", "announce"} THEN << >> ELSE <<<<e, says>>>>
      /\ TellsAt(u, i) = IF says = "announce" THEN <<e>> ELSE << >>
      /\ AsksAt(s, k + i) = IF says \in {"nothing", "announce"} THEN << >> ELSE <<<<by[e], says>>>>
      /\ TellsAt(s, k + i) = IF says = "announce" THEN <<by[e]>> ELSE << >>
    BY <1>3, <1>5 DEF AsksAt, TellsAt, e, says
<1>7. MovedAsks(<< >>, by) = << >> /\ MovedTells(<< >>, by) = << >>
    BY DEF MovedAsks, MovedTells
<1>8. MovedAsks(<<<<e, says>>>>, by) = <<<<by[e], says>>>>
    <2> DEFINE a == <<<<e, says>>>>
    <2>1. DOMAIN a = 1 .. 1 /\ a[1] = <<e, says>>
        OBVIOUS
    <2>2. MovedAsks(a, by) = [j \in 1 .. 1 |-> <<by[a[j][1]], a[j][2]>>]
        BY <2>1 DEF MovedAsks
    <2> HIDE DEF a
    <2>3. \A j \in 1 .. 1 : a[j][1] = e /\ a[j][2] = says
        BY <2>1
    <2>4. [j \in 1 .. 1 |-> <<by[a[j][1]], a[j][2]>>] = [j \in 1 .. 1 |-> <<by[e], says>>]
        BY <2>3
    <2>5. [j \in 1 .. 1 |-> <<by[e], says>>] = <<<<by[e], says>>>>
        OBVIOUS
    <2> QED
        BY <2>2, <2>4, <2>5 DEF a
<1>9. MovedTells(<<e>>, by) = <<by[e]>>
    <2> DEFINE a == <<e>>
    <2>1. DOMAIN a = 1 .. 1 /\ a[1] = e
        OBVIOUS
    <2>2. MovedTells(a, by) = [j \in 1 .. 1 |-> by[a[j]]]
        BY <2>1 DEF MovedTells
    <2> HIDE DEF a
    <2>3. \A j \in 1 .. 1 : a[j] = e
        BY <2>1
    <2>4. [j \in 1 .. 1 |-> by[a[j]]] = [j \in 1 .. 1 |-> by[e]]
        BY <2>3
    <2>5. [j \in 1 .. 1 |-> by[e]] = <<by[e]>>
        OBVIOUS
    <2> QED
        BY <2>2, <2>4, <2>5 DEF a
<1> QED
    BY <1>3, <1>6, <1>7, <1>8, <1>9 DEF u

-----------------------------------------------------------------------------
(* What is found in the rest of a buffer is found in the buffer, moved.     *)
LEMMA NoMoreIs ==
    ASSUME NEW i
    PROVE  NoMore(i).asked = << >> /\ NoMore(i).announced = << >> /\ NoMore(i).tail = i
BY DEF NoMore

Places(by, k, n) == \A p \in 1 .. n : by[p] = k + p

LEMMA ScannedMoved ==
    ASSUME NEW s \in Seq(Bytes), NEW k \in 0 .. Len(s), NEW by, Places(by, k, Len(s) - k),
           NEW f, Scanned(f, s), NEW g, Scanned(g, RestOf(s, k + 1))
    PROVE  \A i \in 1 .. Len(s) - k + 1 :
               /\ f[k + i].asked = MovedAsks(g[i].asked, by)
               /\ f[k + i].announced = MovedTells(g[i].announced, by)
               /\ f[k + i].tail = k + g[i].tail
<1> DEFINE u == RestOf(s, k + 1)
           n == Len(s) - k
           E == 1 .. n
           Same(i) == /\ f[k + i].asked = MovedAsks(g[i].asked, by)
                      /\ f[k + i].announced = MovedTells(g[i].announced, by)
                      /\ f[k + i].tail = k + g[i].tail
           S == {i \in 1 .. n + 1 : Same(i)}
<1>1. /\ Len(s) \in Nat /\ k \in Nat /\ n \in Nat /\ k + n = Len(s) /\ k + 1 \in 1 .. Len(s) + 1
      /\ Len(s) - (k + 1) + 1 = n
    OBVIOUS
<1>2. u \in Seq(Bytes) /\ Len(u) = n
    BY <1>1, RestOfIs
<1>3. Moves(by, E)
    <2>1. \A p \in E : k + p \in Nat
        BY <1>1
    <2> QED
        BY <2>1 DEF Moves, Places
<1>4. \A i \in 1 .. n + 1 : g[i] \in Found(E)
    <2> HIDE DEF u, E
    <2>1. \A i \in 1 .. Len(u) : ~ Ends(u, i) /\ ItemAt(u, i).says # "nothing" => EndAt(u, i) \in E
        BY <1>2, EndsAreNumbers DEF E
    <2>2. E \subseteq Nat
        BY DEF E
    <2>3. \A i \in 1 .. Len(u) + 1 : g[i] \in Found(E)
        BY <1>2, <2>1, <2>2, ScannedTypes DEF u
    <2> QED
        BY <1>2, <2>3
<1> HIDE DEF n, E
<1>5. \A i \in 1 .. n + 1 : Ends(u, i) <=> Ends(s, k + i)
    <2> SUFFICES ASSUME NEW i \in 1 .. n + 1 PROVE Ends(u, i) <=> Ends(s, k + i)
        OBVIOUS
    <2>1. ItemAt(s, k + i) = ItemAt(u, i)
        <3>1. i \in 1 .. Len(s) - (k + 1) + 2 /\ (k + 1) + i - 1 = k + i
            BY <1>1
        <3>2. RestOf(RestOf(s, k + 1), i) = RestOf(s, (k + 1) + i - 1)
            BY <1>1, <3>1, RestOfRest
        <3> QED
            BY <3>1, <3>2 DEF ItemAt
    <2>2. i > n <=> k + i > Len(s)
        BY <1>1
    <2> HIDE DEF u
    <2> QED
        BY <1>2, <2>1, <2>2 DEF Ends
<1>6. ASSUME NEW i \in 1 .. n + 1, Ends(u, i) PROVE i \in S
    <2>1. g[i] = NoMore(i)
        BY <1>2, <1>6 DEF Scanned
    <2>2. f[k + i] = NoMore(k + i)
        <3>1. k + i \in 1 .. Len(s) + 1 /\ Ends(s, k + i)
            BY <1>1, <1>5, <1>6
        <3> QED
            BY <3>1 DEF Scanned
    <2>3. MovedAsks(<< >>, by) = << >> /\ MovedTells(<< >>, by) = << >>
        BY DEF MovedAsks, MovedTells
    <2>4. Same(i)
        BY <2>1, <2>2, <2>3 DEF NoMore
    <2> QED
        BY <1>6, <2>4
<1>7. n + 1 \in S
    <2>1. n + 1 \in 1 .. n + 1 /\ n + 1 > n
        BY <1>1
    <2>2. Ends(u, n + 1)
        <3> HIDE DEF u
        <3> QED
            BY <1>2, <2>1 DEF Ends
    <2> QED
        BY <1>6, <2>1, <2>2
<1>8. ASSUME NEW i \in 1 .. n, \A j \in i + 1 .. n + 1 : j \in S PROVE i \in S
    <2>0. i \in 1 .. n + 1
        BY <1>1
    <2>1. CASE Ends(u, i)
        BY <1>6, <2>0, <2>1
    <2>2. CASE ~ Ends(u, i)
        <3> DEFINE j == i + ItemAt(u, i).takes
                   a == AsksAt(u, i)
                   b == TellsAt(u, i)
        <3>0. i \in 1 .. Len(u) + 1
            <4> HIDE DEF u
            <4> QED
                BY <1>2, <2>0
        <3>1. j \in i + 1 .. n + 1 /\ (ItemAt(u, i).says # "nothing" => EndAt(u, i) \in E)
            <4> HIDE DEF u, j
            <4>1. j \in i + 1 .. Len(u) + 1 /\ EndAt(u, i) \in i .. Len(u)
                BY <1>2, <2>2, <3>0, NextIs DEF j
            <4> QED
                BY <1>1, <1>2, <2>0, <4>1 DEF E
        <3>2. j \in S /\ j \in 1 .. n + 1
            BY <1>1, <1>8, <3>1
        <3>3. g[i] = Adds(u, i, g[j])
            BY <2>2, <3>0 DEF Scanned
        <3>4. /\ AsksAt(s, k + i) = MovedAsks(a, by)
              /\ TellsAt(s, k + i) = MovedTells(b, by)
              /\ ItemAt(s, k + i) = ItemAt(u, i)
            BY <2>0, <2>2, MovedSaid DEF n, Places
        <3>5. f[k + i] = Adds(s, k + i, f[k + j])
            <4>1. k + i \in 1 .. Len(s) + 1 /\ ~ Ends(s, k + i)
                BY <1>1, <1>5, <2>0, <2>2
            <4>2. f[k + i] = Adds(s, k + i, f[(k + i) + ItemAt(s, k + i).takes])
                BY <4>1 DEF Scanned
            <4>3. (k + i) + ItemAt(s, k + i).takes = k + j
                <5> DEFINE m == ItemAt(u, i).takes
                <5>1. m \in Nat
                    <6> HIDE DEF u
                    <6> QED
                        BY <1>2, <2>2, <3>0, NextIs
                <5>2. ItemAt(s, k + i).takes = m
                    BY <3>4
                <5> HIDE DEF m
                <5>3. (k + i) + m = k + (i + m)
                    BY <1>1, <5>1
                <5> QED
                    BY <5>2, <5>3 DEF m
            <4> QED
                BY <4>2, <4>3
        <3>6. a \in Asked(E) /\ b \in Told(E)
            <4> HIDE DEF u
            <4>1. E \subseteq Nat
                BY DEF E
            <4>2. g[j] \in Found(E)
                BY <1>4, <3>2
            <4> QED
                BY <1>2, <2>2, <3>0, <3>1, <4>1, <4>2, AddsTypes DEF Asked, Told
        <3> HIDE DEF j, a, b
        <3>7. g[j].asked \in Asked(E) /\ g[j].announced \in Told(E)
            BY <1>4, <3>2 DEF Found, Asked, Told
        <3>8. Same(j)
            BY <3>2
        <3>9. MovedAsks(a \o g[j].asked, by) = MovedAsks(a, by) \o MovedAsks(g[j].asked, by)
            BY <1>3, <3>6, <3>7, MovedAsksMore
        <3>10. MovedTells(b \o g[j].announced, by) = MovedTells(b, by) \o MovedTells(g[j].announced, by)
            BY <1>3, <3>6, <3>7, MovedTellsMore
        <3>11. /\ g[i].asked = a \o g[j].asked /\ g[i].announced = b \o g[j].announced
               /\ g[i].tail = g[j].tail
            <4>1. /\ Adds(u, i, g[j]).asked = a \o g[j].asked
                  /\ Adds(u, i, g[j]).announced = b \o g[j].announced
                  /\ Adds(u, i, g[j]).tail = g[j].tail
                BY DEF Adds, a, b
            <4> QED
                BY <3>3, <4>1
        <3>12. /\ f[k + i].asked = AsksAt(s, k + i) \o f[k + j].asked
               /\ f[k + i].announced = TellsAt(s, k + i) \o f[k + j].announced
               /\ f[k + i].tail = f[k + j].tail
            <4>1. /\ Adds(s, k + i, f[k + j]).asked = AsksAt(s, k + i) \o f[k + j].asked
                  /\ Adds(s, k + i, f[k + j]).announced = TellsAt(s, k + i) \o f[k + j].announced
                  /\ Adds(s, k + i, f[k + j]).tail = f[k + j].tail
                BY DEF Adds
            <4> QED
                BY <3>5, <4>1
        <3>13. Same(i)
            BY <3>4, <3>8, <3>9, <3>10, <3>11, <3>12
        <3> QED
            BY <2>0, <3>13
    <2> QED
        BY <2>1, <2>2
<1> HIDE DEF S
<1>9. \A i \in 1 .. n + 1 : i \in S
    BY <1>1, <1>7, <1>8, DownFrom
<1> QED
    BY <1>9 DEF S, n

(* Places that are moved alike are moved to the same places.                *)
LEMMA MovedAlike ==
    ASSUME NEW E, NEW by, NEW at, \A p \in E : by[p] = at[p],
           NEW a \in Asked(E), NEW b \in Told(E)
    PROVE  MovedAsks(a, by) = MovedAsks(a, at) /\ MovedTells(b, by) = MovedTells(b, at)
<1>1. DOMAIN a = 1 .. Len(a) /\ DOMAIN b = 1 .. Len(b)
    BY DEF Asked, Told
<1>2. \A i \in DOMAIN a : a[i][1] \in E
    <2> HIDE DEF Sayings
    <2>1. \A i \in DOMAIN a : a[i] \in E \X Sayings
        BY <1>1 DEF Asked
    <2> QED
        BY <2>1
<1>3. \A i \in DOMAIN b : b[i] \in E
    BY <1>1 DEF Told
<1>4. \A i \in DOMAIN a : by[a[i][1]] = at[a[i][1]]
    BY <1>2
<1>5. \A i \in DOMAIN b : by[b[i]] = at[b[i]]
    BY <1>3
<1> QED
    BY <1>4, <1>5 DEF MovedAsks, MovedTells

-----------------------------------------------------------------------------
(* The announcements of a buffer end one after the other.                   *)
Ascending(q) == \A i, j \in 1 .. Len(q) : i < j => q[i] < q[j]

LEMMA ScannedAscends ==
    ASSUME NEW s \in Seq(Bytes), NEW f, Scanned(f, s)
    PROVE  \A i \in 1 .. Len(s) + 1 :
               f[i].announced \in Seq(i .. Len(s)) /\ Ascending(f[i].announced)
<1> DEFINE n == Len(s)
           S == {i \in 1 .. n + 1 : f[i].announced \in Seq(i .. n) /\ Ascending(f[i].announced)}
<1>1. n \in Nat
    OBVIOUS
<1>2. ASSUME NEW i \in 1 .. n + 1, Ends(s, i) PROVE i \in S
    <2>0. f[i] = NoMore(i)
        BY <1>2 DEF Scanned
    <2>1. f[i].announced = << >>
        BY <2>0, NoMoreIs
    <2>2. << >> \in Seq(i .. n) /\ Ascending(<< >>)
        BY DEF Ascending
    <2> QED
        BY <1>2, <2>1, <2>2
<1>3. n + 1 \in S
    <2>1. n + 1 \in 1 .. n + 1 /\ n + 1 > n
        BY <1>1
    <2> QED
        BY <1>2, <2>1 DEF Ends
<1>4. ASSUME NEW i \in 1 .. n, \A j \in i + 1 .. n + 1 : j \in S PROVE i \in S
    <2>0. i \in 1 .. n + 1
        BY <1>1
    <2>1. CASE Ends(s, i)
        BY <1>2, <2>0, <2>1
    <2>2. CASE ~ Ends(s, i)
        <3> DEFINE j == i + ItemAt(s, i).takes
                   e == EndAt(s, i)
                   b == TellsAt(s, i)
                   q == f[j].announced
        <3>1. j \in i + 1 .. n + 1 /\ e \in i .. n /\ e + 1 = j
            BY <2>0, <2>2, NextIs
        <3>2. f[i].announced = b \o q
            <4>1. f[i] = Adds(s, i, f[j])
                BY <2>0, <2>2 DEF Scanned
            <4>2. Adds(s, i, f[j]).announced = b \o q
                BY DEF Adds
            <4> QED
                BY <4>1, <4>2
        <3>3. b = << >> \/ b = <<e>>
            BY DEF TellsAt
        <3> HIDE DEF j, e, b
        <3>4. q \in Seq(j .. n) /\ Ascending(q)
            BY <1>4, <3>1
        <3> HIDE DEF q
        <3>5. q \in Seq(i .. n)
            <4>1. j .. n \subseteq i .. n
                BY <1>1, <3>1
            <4> HIDE DEF n
            <4> QED
                BY <3>4, <4>1, SeqMonotonic
        <3>6. CASE b = << >>
            <4>1. b \o q = q
                BY <3>5, <3>6, ConcatEmptySeq
            <4> QED
                BY <2>0, <3>2, <3>4, <3>5, <4>1
        <3>7. CASE b = <<e>>
            <4> DEFINE r == b \o q
            <4>1. <<e>> \in Seq(i .. n) /\ Len(<<e>>) = 1 /\ <<e>>[1] = e
                BY <3>1
            <4>2. /\ r \in Seq(i .. n) /\ Len(r) = 1 + Len(q) /\ Len(q) \in Nat
                  /\ \A x \in 1 .. 1 + Len(q) : r[x] = IF x <= 1 THEN <<e>>[x] ELSE q[x - 1]
                <5>1. /\ <<e>> \o q \in Seq(i .. n) /\ Len(<<e>> \o q) = Len(<<e>>) + Len(q)
                      /\ \A x \in 1 .. Len(<<e>>) + Len(q) :
                            (<<e>> \o q)[x] = IF x <= Len(<<e>>) THEN <<e>>[x] ELSE q[x - Len(<<e>>)]
                    <6> DEFINE z == <<e>>
                    <6> HIDE DEF z
                    <6>1. z \in Seq(i .. n)
                        BY <4>1 DEF z
                    <6>2. /\ z \o q \in Seq(i .. n) /\ Len(z \o q) = Len(z) + Len(q)
                          /\ \A x \in 1 .. Len(z) + Len(q) :
                                (z \o q)[x] = IF x <= Len(z) THEN z[x] ELSE q[x - Len(z)]
                        BY <3>5, <6>1, ConcatProperties
                    <6> QED
                        BY <6>2 DEF z
                <5>2. Len(q) \in Nat
                    BY <3>5
                <5> QED
                    BY <3>7, <4>1, <5>1, <5>2
            <4> HIDE DEF r
            <4>3. r[1] = e /\ \A x \in 2 .. 1 + Len(q) : r[x] = q[x - 1]
                BY <4>1, <4>2
            <4>4. ASSUME NEW x \in 1 .. Len(r), NEW y \in 1 .. Len(r), x < y PROVE r[x] < r[y]
                <5>1. y \in 2 .. 1 + Len(q) /\ y - 1 \in 1 .. Len(q) /\ r[y] = q[y - 1]
                    BY <4>2, <4>3, <4>4
                <5>2. q[y - 1] \in j .. n
                    <6> DEFINE w == y - 1
                    <6>1. w \in 1 .. Len(q)
                        BY <5>1
                    <6> HIDE DEF w, n
                    <6>3. q[w] \in j .. n
                        <7> DEFINE T == j .. n
                        <7>1. q \in Seq(T)
                            BY <3>4
                        <7> HIDE DEF T
                        <7>2. q[w] \in T
                            BY <6>1, <7>1
                        <7> QED
                            BY <7>2 DEF T
                    <6> QED
                        BY <6>3 DEF w
                <5>3. CASE x = 1
                    BY <3>1, <4>3, <5>1, <5>2, <5>3
                <5>4. CASE x # 1
                    <6>1. x \in 2 .. 1 + Len(q) /\ x - 1 \in 1 .. Len(q) /\ x - 1 < y - 1
                        BY <4>2, <4>4, <5>4
                    <6> QED
                        BY <3>4, <4>3, <5>1, <6>1 DEF Ascending
                <5> QED
                    BY <5>3, <5>4
            <4> QED
                BY <2>0, <3>2, <4>2, <4>4 DEF Ascending, r
        <3> QED
            BY <3>3, <3>6, <3>7
    <2> QED
        BY <2>1, <2>2
<1> HIDE DEF S
<1>5. \A i \in 1 .. n + 1 : i \in S
    BY <1>1, <1>3, <1>4, DownFrom
<1> QED
    BY <1>5 DEF S

-----------------------------------------------------------------------------
(* What is found stands in order.                                           *)
LEMMA AscendOn ==
    ASSUME NEW l \in Nat, NEW m \in Nat, NEW n \in Nat, l <= m + 1, m <= n,
           NEW a \in Seq(l .. m), NEW b \in Seq(m + 1 .. n), Ascending(a), Ascending(b)
    PROVE  a \o b \in Seq(l .. n) /\ Ascending(a \o b)
<1> DEFINE S == l .. n
           c == a \o b
<1>1. a \in Seq(S) /\ b \in Seq(S)
    <2>1. l .. m \subseteq S /\ m + 1 .. n \subseteq S
        OBVIOUS
    <2> HIDE DEF S
    <2> QED
        BY <2>1, SeqMonotonic
<1> HIDE DEF S
<1>2. /\ c \in Seq(S) /\ Len(c) = Len(a) + Len(b) /\ Len(a) \in Nat /\ Len(b) \in Nat
      /\ \A i \in 1 .. Len(a) + Len(b) : c[i] = IF i <= Len(a) THEN a[i] ELSE b[i - Len(a)]
    BY <1>1, ConcatProperties
<1>3. \A i \in 1 .. Len(a) : a[i] \in l .. m
    <2> DEFINE T == l .. m
    <2>1. a \in Seq(T)
        OBVIOUS
    <2> HIDE DEF T
    <2>2. \A i \in 1 .. Len(a) : a[i] \in T
        BY <2>1
    <2> QED
        BY <2>2 DEF T
<1>4. \A i \in 1 .. Len(b) : b[i] \in m + 1 .. n
    <2> DEFINE T == m + 1 .. n
    <2>1. b \in Seq(T)
        OBVIOUS
    <2> HIDE DEF T
    <2>2. \A i \in 1 .. Len(b) : b[i] \in T
        BY <2>1
    <2> QED
        BY <2>2 DEF T
<1> HIDE DEF c
<1>5. ASSUME NEW i \in 1 .. Len(c), NEW j \in 1 .. Len(c), i < j PROVE c[i] < c[j]
    <2>1. CASE j <= Len(a)
        <3>1. i \in 1 .. Len(a) /\ j \in 1 .. Len(a) /\ c[i] = a[i] /\ c[j] = a[j]
            BY <1>2, <1>5, <2>1
        <3> QED
            BY <1>5, <3>1 DEF Ascending
    <2>2. CASE i <= Len(a) /\ ~ (j <= Len(a))
        <3>1. i \in 1 .. Len(a) /\ j - Len(a) \in 1 .. Len(b) /\ c[i] = a[i] /\ c[j] = b[j - Len(a)]
            BY <1>2, <1>5, <2>2
        <3>2. a[i] \in l .. m
            BY <1>3, <3>1
        <3>3. b[j - Len(a)] \in m + 1 .. n
            BY <1>4, <3>1
        <3> DEFINE x == a[i]
                   y == b[j - Len(a)]
        <3>4. x \in l .. m /\ y \in m + 1 .. n /\ c[i] = x /\ c[j] = y
            BY <3>1, <3>2, <3>3
        <3> HIDE DEF x, y
        <3>5. x < y
            BY <3>4
        <3> QED
            BY <3>4, <3>5
    <2>3. CASE ~ (i <= Len(a))
        <3>1. /\ i - Len(a) \in 1 .. Len(b) /\ j - Len(a) \in 1 .. Len(b) /\ i - Len(a) < j - Len(a)
              /\ c[i] = b[i - Len(a)] /\ c[j] = b[j - Len(a)]
            BY <1>2, <1>5, <2>3
        <3> QED
            BY <3>1 DEF Ascending
    <2> QED
        BY <2>1, <2>2, <2>3
<1> QED
    BY <1>2, <1>5 DEF Ascending, c, S

(* The places of what is asked.                                             *)
Seats(a) == [i \in DOMAIN a |-> a[i][1]]

LEMMA SeatsAre ==
    ASSUME NEW E, NEW a \in Asked(E)
    PROVE  /\ Seats(a) \in Seq(E) /\ Len(Seats(a)) = Len(a) /\ Len(a) \in Nat
           /\ \A i \in 1 .. Len(a) : Seats(a)[i] = a[i][1]
<1>1. DOMAIN a = 1 .. Len(a) /\ Len(a) \in Nat
    BY DEF Asked
<1> DEFINE e(i) == a[i][1]
           n == Len(a)
<1>2. \A i \in 1 .. n : e(i) \in E
    <2> SUFFICES ASSUME NEW i \in 1 .. n PROVE e(i) \in E
        OBVIOUS
    <2> HIDE DEF Sayings
    <2>1. a[i] \in E \X Sayings
        BY DEF Asked
    <2> QED
        BY <2>1
<1>3. Seats(a) = [i \in 1 .. n |-> e(i)]
    BY <1>1 DEF Seats
<1> HIDE DEF e, n
<1>4. [i \in 1 .. n |-> e(i)] \in Seq(E) /\ Len([i \in 1 .. n |-> e(i)]) = n
    BY <1>1, <1>2 DEF n
<1>5. \A i \in 1 .. n : Seats(a)[i] = e(i)
    BY <1>3
<1> QED
    BY <1>1, <1>3, <1>4, <1>5 DEF e, n

LEMMA SeatsMore ==
    ASSUME NEW E, NEW a \in Asked(E), NEW c \in Asked(E)
    PROVE  Seats(a \o c) = Seats(a) \o Seats(c)
<1> DEFINE all == a \o c
           x == Seats(all)
           p == Seats(a)
           q == Seats(c)
           y == p \o q
<1>1. /\ all \in Asked(E) /\ Len(all) = Len(a) + Len(c) /\ Len(a) \in Nat /\ Len(c) \in Nat
      /\ \A i \in 1 .. Len(a) + Len(c) : all[i] = IF i <= Len(a) THEN a[i] ELSE c[i - Len(a)]
    BY ConcatProperties DEF Asked
<1> HIDE DEF all
<1>2. /\ x \in Seq(E) /\ Len(x) = Len(all) /\ \A i \in 1 .. Len(all) : x[i] = all[i][1]
    BY <1>1, SeatsAre
<1>3. /\ p \in Seq(E) /\ Len(p) = Len(a) /\ \A i \in 1 .. Len(a) : p[i] = a[i][1]
    BY SeatsAre
<1>4. /\ q \in Seq(E) /\ Len(q) = Len(c) /\ \A i \in 1 .. Len(c) : q[i] = c[i][1]
    BY SeatsAre
<1> HIDE DEF x, p, q
<1>5. /\ y \in Seq(E) /\ Len(y) = Len(p) + Len(q)
      /\ \A i \in 1 .. Len(p) + Len(q) : y[i] = IF i <= Len(p) THEN p[i] ELSE q[i - Len(p)]
    <2>1. p \in Seq(E) /\ q \in Seq(E)
        BY <1>3, <1>4
    <2> QED
        BY <2>1, ConcatProperties
<1> HIDE DEF y
<1>6. ASSUME NEW i \in 1 .. Len(a) + Len(c) PROVE x[i] = y[i]
    <2>1. CASE i <= Len(a)
        <3>1. i \in 1 .. Len(a) /\ all[i] = a[i] /\ y[i] = p[i]
            BY <1>1, <1>3, <1>4, <1>5, <2>1
        <3> QED
            BY <1>1, <1>2, <1>3, <3>1
    <2>2. CASE ~ (i <= Len(a))
        <3>1. i - Len(a) \in 1 .. Len(c) /\ all[i] = c[i - Len(a)] /\ y[i] = q[i - Len(a)]
            BY <1>1, <1>3, <1>4, <1>5, <2>2
        <3> QED
            BY <1>1, <1>2, <1>4, <3>1
    <2> QED
        BY <2>1, <2>2
<1>7. Len(x) = Len(a) + Len(c) /\ Len(y) = Len(a) + Len(c)
    BY <1>1, <1>2, <1>3, <1>4, <1>5
<1>8. x = y
    BY <1>2, <1>5, <1>6, <1>7, SeqEqual
<1> QED
    BY <1>8 DEF x, y, p, q, all

LEMMA SeatsMoved ==
    ASSUME NEW E, NEW by, NEW a \in Asked(E), Moves(by, E)
    PROVE  Seats(MovedAsks(a, by)) = MovedTells(Seats(a), by)
<1>1. DOMAIN MovedAsks(a, by) = DOMAIN a /\ DOMAIN Seats(a) = DOMAIN a
    BY DEF MovedAsks, Seats
<1>2. \A i \in DOMAIN a : MovedAsks(a, by)[i][1] = by[Seats(a)[i]]
    BY DEF MovedAsks, Seats
<1> QED
    BY <1>1, <1>2 DEF MovedTells, Seats

(* Places that are moved in order stay in order.                            *)
Climbs(by, E) == \A p, q \in E : p < q => by[p] < by[q]

LEMMA MovedAscend ==
    ASSUME NEW E, NEW S, NEW by, Climbs(by, E), \A p \in E : by[p] \in S,
           S \subseteq Nat, NEW b \in Seq(E), Ascending(b)
    PROVE  MovedTells(b, by) \in Seq(S) /\ Ascending(MovedTells(b, by))
<1> DEFINE x == MovedTells(b, by)
<1>1. /\ x \in Told(Nat) /\ Len(x) = Len(b) /\ Len(b) \in Nat
      /\ \A i \in 1 .. Len(b) : x[i] = by[b[i]] /\ b[i] \in E
    <2>1. Moves(by, E) /\ b \in Told(E)
        BY DEF Moves, Told
    <2>2. Len(b) \in Nat /\ \A i \in 1 .. Len(b) : b[i] \in E
        OBVIOUS
    <2> QED
        BY <2>1, <2>2, MovedTellsIs
<1> HIDE DEF x
<1>2. \A i \in 1 .. Len(x) : x[i] \in S
    BY <1>1
<1>3. x \in Seq(S)
    <2>1. x \in [1 .. Len(x) -> S]
        <3>1. x \in [1 .. Len(x) -> Nat]
            BY <1>1 DEF Told
        <3> QED
            BY <1>2, <3>1
    <2> QED
        BY <1>1, <2>1
<1>4. ASSUME NEW i \in 1 .. Len(x), NEW j \in 1 .. Len(x), i < j PROVE x[i] < x[j]
    <2>1. b[i] < b[j]
        BY <1>1, <1>4 DEF Ascending
    <2> QED
        BY <1>1, <1>4, <2>1 DEF Climbs
<1> QED
    BY <1>3, <1>4 DEF Ascending, x

LEMMA ScannedAsksAscend ==
    ASSUME NEW s \in Seq(Bytes), NEW f, Scanned(f, s)
    PROVE  \A i \in 1 .. Len(s) + 1 :
               /\ f[i].asked \in Asked(i .. Len(s))
               /\ Ascending(Seats(f[i].asked))
<1> DEFINE n == Len(s)
           S == {i \in 1 .. n + 1 : f[i].asked \in Asked(i .. n) /\ Ascending(Seats(f[i].asked))}
<1>1. n \in Nat
    OBVIOUS
<1>2. ASSUME NEW i \in 1 .. n + 1, Ends(s, i) PROVE i \in S
    <2>0. f[i] = NoMore(i)
        BY <1>2 DEF Scanned
    <2>1. f[i].asked = << >>
        BY <2>0, NoMoreIs
    <2>2. << >> \in Asked(i .. n) /\ Len(<< >>) = 0
        BY DEF Asked
    <2>3. Ascending(Seats(<< >>))
        <3> DEFINE e == Seats(<< >>)
        <3>1. Len(e) = 0
            BY <2>2, SeatsAre
        <3> HIDE DEF e
        <3> QED
            BY <3>1 DEF Ascending, e
    <2> QED
        BY <1>2, <2>1, <2>2, <2>3
<1>3. n + 1 \in S
    <2>1. n + 1 \in 1 .. n + 1 /\ n + 1 > n
        BY <1>1
    <2> QED
        BY <1>2, <2>1 DEF Ends
<1>4. ASSUME NEW i \in 1 .. n, \A j \in i + 1 .. n + 1 : j \in S PROVE i \in S
    <2>0. i \in 1 .. n + 1
        BY <1>1
    <2>1. CASE Ends(s, i)
        BY <1>2, <2>0, <2>1
    <2>2. CASE ~ Ends(s, i)
        <3> DEFINE j == i + ItemAt(s, i).takes
                   e == EndAt(s, i)
                   b == AsksAt(s, i)
                   q == f[j].asked
        <3>1. j \in i + 1 .. n + 1 /\ e \in i .. n /\ e + 1 = j
            BY <2>0, <2>2, NextIs
        <3>2. f[i].asked = b \o q
            <4>1. f[i] = Adds(s, i, f[j])
                BY <2>0, <2>2 DEF Scanned
            <4>2. Adds(s, i, f[j]).asked = b \o q
                BY DEF Adds
            <4> QED
                BY <4>1, <4>2
        <3>3. b \in Asked(i .. e) /\ (b = << >> \/ Len(b) = 1)
            <4>1. ItemAt(s, i).says \in Sayings
                BY <2>0, <2>2, NextIs
            <4>2. <<e, ItemAt(s, i).says>> \in (i .. e) \X Sayings
                BY <3>1, <4>1
            <4>3. b = << >> \/ b = <<<<e, ItemAt(s, i).says>>>>
                BY DEF AsksAt
            <4> DEFINE T == (i .. e) \X Sayings
                       z == <<e, ItemAt(s, i).says>>
            <4> HIDE DEF T, z, b
            <4>4. <<z>> \in Seq(T) /\ Len(<<z>>) = 1 /\ << >> \in Seq(T)
                BY <4>2 DEF T, z
            <4> QED
                BY <4>3, <4>4 DEF Asked, T, z
        <3> HIDE DEF j, e, b
        <3>4. q \in Asked(j .. n) /\ Ascending(Seats(q))
            BY <1>4, <3>1
        <3> HIDE DEF q
        <3>5. b \in Asked(i .. n) /\ q \in Asked(i .. n)
            <4> DEFINE T == (i .. n) \X Sayings
            <4>1. j .. n \subseteq i .. n /\ i .. e \subseteq i .. n
                BY <1>1, <3>1
            <4>2. (j .. n) \X Sayings \subseteq T /\ (i .. e) \X Sayings \subseteq T
                <5> HIDE DEF n, Sayings
                <5> QED
                    BY <4>1
            <4> HIDE DEF T
            <4>3. b \in Seq(T) /\ q \in Seq(T)
                BY <3>3, <3>4, <4>2, SeqMonotonic DEF Asked
            <4> QED
                BY <4>3 DEF Asked, T
        <3>6. f[i].asked \in Asked(i .. n) /\ Seats(f[i].asked) = Seats(b) \o Seats(q)
            <4>1. b \o q \in Asked(i .. n)
                BY <3>5, ConcatProperties DEF Asked
            <4> QED
                BY <3>2, <3>5, <4>1, SeatsMore
        <3>7. Ascending(Seats(b) \o Seats(q))
            <4>1. Seats(b) \in Seq(i .. e) /\ Len(Seats(b)) = Len(b)
                BY <3>3, SeatsAre
            <4>2. Seats(q) \in Seq(e + 1 .. n)
                BY <3>1, <3>4, SeatsAre
            <4>3. Len(b) \in 0 .. 1
                BY <3>3
            <4>4. Ascending(Seats(b))
                <5> DEFINE o == Seats(b)
                <5>1. Len(o) \in 0 .. 1
                    BY <4>1, <4>3
                <5> HIDE DEF o
                <5> QED
                    BY <5>1 DEF Ascending, o
            <4>5. e \in Nat /\ i \in Nat /\ i <= e + 1 /\ e <= n
                BY <1>1, <3>1
            <4> QED
                BY <1>1, <3>4, <4>1, <4>2, <4>4, <4>5, AscendOn
        <3> QED
            BY <2>0, <3>6, <3>7
    <2> QED
        BY <2>1, <2>2
<1> HIDE DEF S
<1>5. \A i \in 1 .. n + 1 : i \in S
    BY <1>1, <1>3, <1>4, DownFrom
<1> QED
    BY <1>5 DEF S

-----------------------------------------------------------------------------
(* The scanner, read by read.                                               *)
(* What follows an unfinished escape is said after it.                      *)
LEMMA SaidAfter ==
    ASSUME NEW c \in Seq(Bytes), NEW b \in Seq(Bytes), Len(c) = 0 \/ Item(c).takes = 0,
           NEW i \in 1 .. Len(c \o b), ~ Ends(c \o b, i), ItemAt(c \o b, i).says # "nothing"
    PROVE  EndAt(c \o b, i) \in Len(c) + 1 .. Len(c \o b)
<1> DEFINE all == c \o b
           e == EndAt(all, i)
<1>1. all \in Seq(Bytes) /\ Len(all) = Len(c) + Len(b) /\ Len(c) \in Nat /\ Len(b) \in Nat
    BY Begins
<1>2. e \in i .. Len(all) /\ ItemAt(all, i).takes \in Nat
    <2>1. i \in 1 .. Len(all) + 1
        BY <1>1
    <2> QED
        BY <1>1, <2>1, NextIs
<1>3. e = i + ItemAt(all, i).takes - 1
    BY DEF EndAt
<1> HIDE DEF all
<1>4. e > Len(c)
    <2>1. CASE i > Len(c)
        <3> HIDE DEF e
        <3> QED
            BY <1>1, <1>2, <2>1
    <2>2. CASE ~ (i > Len(c))
        <3> DEFINE r == RestOf(c, i)
        <3>1. i \in 1 .. Len(c) /\ i \in 1 .. Len(c) + 1 /\ Len(c) # 0 /\ Len(c) >= 1
            BY <1>1, <2>2
        <3>2. r \in Seq(Bytes) /\ Len(r) = Len(c) - i + 1
            BY <3>1, RestOfIs
        <3>3. RestOf(all, i) = r \o b
            BY <3>1, RestOfMore DEF all
        <3>4. Item(r).says = "nothing"
            BY <3>1, OpenIsQuiet
        <3>5. Len(r) >= 1
            <4> HIDE DEF r
            <4> QED
                BY <1>1, <3>1, <3>2
        <3> HIDE DEF r
        <3>6. ItemAt(all, i) = Item(r \o b)
            BY <3>3 DEF ItemAt
        <3>7. Item(r \o b).says # "nothing"
            BY <3>6 DEF all
        <3>8. Item(r).takes = 0
            BY <3>2, <3>4, <3>5, <3>7, ItemMore
        <3>9. Item(r \o b).takes > Len(r)
            BY <3>2, <3>5, <3>7, <3>8, ItemLate
        <3> DEFINE n == ItemAt(all, i).takes
        <3>10. n > Len(r) /\ n \in Nat /\ e = i + n - 1
            BY <1>2, <1>3, <3>6, <3>9
        <3> HIDE DEF n, e
        <3> QED
            BY <1>1, <3>1, <3>2, <3>10
    <2> QED
        BY <2>1, <2>2
<1> HIDE DEF e
<1> QED
    BY <1>1, <1>2, <1>4 DEF e, all

(* The same, with the length and the rest of the buffer named.              *)
MovedTo(f, g, by, k, i) ==
    /\ f[k + i].asked = MovedAsks(g[i].asked, by)
    /\ f[k + i].announced = MovedTells(g[i].announced, by)
    /\ f[k + i].tail = k + g[i].tail

Left(s, k, n) == k \in 0 .. Len(s) /\ n = Len(s) - k
Rests(s, k, u) == u = RestOf(s, k + 1)

LEMMA ScannedMovedTo ==
    ASSUME NEW s \in Seq(Bytes), NEW k, NEW n, Left(s, k, n), NEW u, Rests(s, k, u),
           NEW by, Places(by, k, n), NEW f, Scanned(f, s), NEW g, Scanned(g, u), NEW i \in 1 .. n + 1
    PROVE  MovedTo(f, g, by, k, i)
<1>1. k \in 0 .. Len(s) /\ n = Len(s) - k /\ u = RestOf(s, k + 1)
    BY DEF Left, Rests
<1>2. Places(by, k, Len(s) - k)
    BY <1>1
<1>3. Scanned(g, RestOf(s, k + 1))
    BY <1>1
<1>4. \A j \in 1 .. Len(s) - k + 1 :
          /\ f[k + j].asked = MovedAsks(g[j].asked, by)
          /\ f[k + j].announced = MovedTells(g[j].announced, by)
          /\ f[k + j].tail = k + g[j].tail
    BY <1>1, <1>2, <1>3, ScannedMoved
<1>5. i \in 1 .. Len(s) - k + 1
    BY <1>1
<1> QED
    BY <1>4, <1>5 DEF MovedTo

(* What a buffer says when it is read on is what it said, and what its      *)
(* unfinished escape and the new bytes say, at its place in the buffer.     *)
LEMMA ScanOn ==
    ASSUME NEW s \in Seq(Bytes), NEW b \in Seq(Bytes)
    PROVE  LET before == Scan(s)
               c == RestOf(s, before.tail)
               now == Scan(c \o b)
               placed == [p \in 1 .. Len(c \o b) |-> Len(s) + Less(p, Len(c))]
           IN  /\ before.tail \in 1 .. Len(s) + 1 /\ now.tail \in 1 .. Len(c \o b) + 1
               /\ Scan(s \o b).asked = before.asked \o Moved(now, placed).asked
               /\ Scan(s \o b).announced = before.announced \o Moved(now, placed).announced
               /\ RestOf(s \o b, Scan(s \o b).tail) = RestOf(c \o b, now.tail)
<1> DEFINE all == s \o b
           k == Scan(s).tail - 1
           c == RestOf(s, Scan(s).tail)
           joined == c \o b
           placed == [p \in 1 .. Len(joined) |-> Len(s) + Less(p, Len(c))]
           by == [p \in 1 .. Len(all) - k |-> k + p]
           E == Len(c) + 1 .. Len(joined)
<1>1. all \in Seq(Bytes) /\ Len(all) = Len(s) + Len(b) /\ Len(s) \in Nat /\ Len(b) \in Nat
    BY Begins
<1>2. PICK f : Scanned(f, s) /\ Scan(s) = f[1]
    BY ScanIs
<1> HIDE DEF all
<1>3. PICK h : Scanned(h, all) /\ Scan(all) = h[1]
    BY <1>1, ScanIs
<1>4. Scan(s).tail \in 1 .. Len(s) + 1 /\ Ends(s, Scan(s).tail)
    <2>1. \A i \in 1 .. Len(s) : ~ Ends(s, i) /\ ItemAt(s, i).says # "nothing" => EndAt(s, i) \in Nat
        BY EndsAreNumbers
    <2>2. 1 \in 1 .. Len(s) + 1
        BY <1>1
    <2> QED
        BY <1>2, <2>1, <2>2, ScannedTypes
<1>5. k \in Nat /\ k \in 0 .. Len(s) /\ k + 1 = Scan(s).tail /\ k \in 0 .. Len(all)
    BY <1>1, <1>4
<1>6. c \in Seq(Bytes) /\ Len(c) = Len(s) - k /\ Len(c) \in Nat
    BY <1>1, <1>4, RestOfIs
<1>7. Len(c) = 0 \/ Item(c).takes = 0
    <2>1. CASE Scan(s).tail > Len(s)
        <3> HIDE DEF c, k
        <3>1. k = Len(s)
            BY <1>1, <1>4, <1>5, <2>1
        <3> QED
            BY <1>1, <1>6, <3>1
    <2>2. CASE ~ (Scan(s).tail > Len(s))
        <3>1. Item(c).takes = 0
            BY <1>4, <2>2 DEF Ends, ItemAt
        <3> QED
            BY <3>1
    <2> QED
        BY <2>1, <2>2
<1>8. RestOf(all, k + 1) = joined
    BY <1>4, <1>5, RestOfMore DEF all
<1> HIDE DEF c, k
<1>9. /\ joined \in Seq(Bytes) /\ Len(joined) = Len(c) + Len(b) /\ Len(joined) = Len(all) - k
      /\ Len(joined) \in Nat
    <2>1. joined \in Seq(Bytes) /\ Len(joined) = Len(c) + Len(b)
        BY <1>6, Begins
    <2> HIDE DEF joined
    <2> QED
        BY <1>1, <1>5, <1>6, <2>1
<1>10. \A i \in 1 .. Len(joined) :
           ~ Ends(joined, i) /\ ItemAt(joined, i).says # "nothing" => EndAt(joined, i) \in E
    BY <1>6, <1>7, SaidAfter
<1> HIDE DEF joined
<1>11. PICK g : Scanned(g, joined) /\ Scan(joined) = g[1]
    BY <1>9, ScanIs
<1>12. g[1] \in Found(E) /\ g[1].tail \in 1 .. Len(joined) + 1
    <2>1. E \subseteq Nat
        BY <1>6, <1>9
    <2>2. 1 \in 1 .. Len(joined) + 1
        BY <1>9
    <2> HIDE DEF E
    <2> QED
        BY <1>9, <1>10, <1>11, <2>1, <2>2, ScannedTypes
<1>13. h[1] = Then(f[1], h[k + 1])
    <2>1. \A i \in 1 .. Len(s) + 1 : h[i] = Then(f[i], h[f[i].tail])
        BY <1>2, <1>3, ScannedMore DEF all
    <2>2. 1 \in 1 .. Len(s) + 1
        BY <1>1
    <2> QED
        BY <1>2, <1>5, <2>1, <2>2
<1>14. /\ h[k + 1].asked = MovedAsks(g[1].asked, by)
       /\ h[k + 1].announced = MovedTells(g[1].announced, by)
       /\ h[k + 1].tail = k + g[1].tail
    <2> DEFINE n == Len(all) - k
    <2>1. Places(by, k, n)
        BY DEF Places
    <2>2. Rests(all, k, joined) /\ Left(all, k, n) /\ 1 \in 1 .. n + 1
        BY <1>5, <1>8, <1>9 DEF Rests, Left
    <2> HIDE DEF by, n
    <2>3. MovedTo(h, g, by, k, 1)
        BY <1>1, <1>3, <1>11, <2>1, <2>2, ScannedMovedTo
    <2> QED
        BY <2>3 DEF MovedTo
<1>15. \A p \in E : by[p] = placed[p]
    <2> SUFFICES ASSUME NEW p \in E PROVE by[p] = placed[p]
        OBVIOUS
    <2>1. p \in 1 .. Len(joined) /\ p \in Nat /\ p > Len(c)
        BY <1>6, <1>9
    <2>2. by[p] = k + p
        BY <1>9, <2>1
    <2>3. placed[p] = Len(s) + Less(p, Len(c))
        BY <2>1
    <2>4. Less(p, Len(c)) = p - Len(c)
        BY <1>6, <2>1 DEF Less
    <2> HIDE DEF by, placed
    <2> QED
        BY <1>1, <1>5, <1>6, <2>1, <2>2, <2>3, <2>4
<1> HIDE DEF E, by, placed
<1>16. /\ MovedAsks(g[1].asked, by) = MovedAsks(g[1].asked, placed)
       /\ MovedTells(g[1].announced, by) = MovedTells(g[1].announced, placed)
    <2>1. g[1].asked \in Asked(E) /\ g[1].announced \in Told(E)
        BY <1>12 DEF Found, Asked, Told
    <2> QED
        BY <1>15, <2>1, MovedAlike
<1>17. /\ h[1].asked = f[1].asked \o h[k + 1].asked
       /\ h[1].announced = f[1].announced \o h[k + 1].announced
       /\ h[1].tail = h[k + 1].tail
    <2>1. /\ Then(f[1], h[k + 1]).asked = f[1].asked \o h[k + 1].asked
          /\ Then(f[1], h[k + 1]).announced = f[1].announced \o h[k + 1].announced
          /\ Then(f[1], h[k + 1]).tail = h[k + 1].tail
        BY DEF Then
    <2> QED
        BY <1>13, <2>1
<1>18. RestOf(all, h[1].tail) = RestOf(joined, g[1].tail)
    <2> DEFINE i == g[1].tail
    <2>1. i \in 1 .. Len(all) - (k + 1) + 2 /\ k + 1 \in 1 .. Len(all) + 1 /\ i \in Nat
        <3>1. i \in 1 .. Len(joined) + 1
            BY <1>12
        <3> HIDE DEF i
        <3> QED
            BY <1>1, <1>5, <1>9, <3>1
    <2>2. RestOf(RestOf(all, k + 1), i) = RestOf(all, (k + 1) + i - 1)
        <3> HIDE DEF i
        <3> QED
            BY <1>1, <2>1, RestOfRest
    <2>3. (k + 1) + i - 1 = k + i
        <3> HIDE DEF i
        <3> QED
            BY <1>5, <2>1
    <2> QED
        BY <1>8, <1>14, <1>17, <2>2, <2>3
<1>19. Moved(Scan(joined), placed).asked = MovedAsks(g[1].asked, placed)
       /\ Moved(Scan(joined), placed).announced = MovedTells(g[1].announced, placed)
    BY <1>11, MovedIs
<1> QED
    BY <1>2, <1>3, <1>4, <1>11, <1>12, <1>14, <1>16, <1>17, <1>18, <1>19 DEF all, joined, c, placed

-----------------------------------------------------------------------------
(* What is carried is an escape that is not finished, or nothing.           *)
Unfinished(c) == c \in Seq(Bytes) /\ (Len(c) = 0 \/ Item(c).takes = 0)

LEMMA RestIsUnfinished ==
    ASSUME NEW s \in Seq(Bytes), NEW i \in 1 .. Len(s) + 1, Ends(s, i)
    PROVE  Unfinished(RestOf(s, i))
<1>1. RestOf(s, i) \in Seq(Bytes) /\ Len(RestOf(s, i)) = Len(s) - i + 1
    BY RestOfIs
<1>2. CASE i > Len(s)
    <2>1. Len(s) \in Nat /\ Len(s) - i + 1 = 0
        BY <1>2
    <2> QED
        BY <1>1, <2>1 DEF Unfinished
<1>3. CASE ~ (i > Len(s))
    <2>1. Item(RestOf(s, i)).takes = 0
        BY <1>3 DEF Ends, ItemAt
    <2> QED
        BY <1>1, <2>1 DEF Unfinished
<1> QED
    BY <1>2, <1>3

(* What a read finds ends in the bytes of that read, in order, and what it  *)
(* leaves is unfinished again.                                              *)
LEMMA FoundInOrder ==
    ASSUME NEW c, Unfinished(c), NEW b \in Seq(Bytes), NEW at \in Nat
    PROVE  LET now == Scan(c \o b)
               placed == [p \in 1 .. Len(c \o b) |-> at + Less(p, Len(c))]
               new == Moved(now, placed)
           IN  /\ new.asked \in Asked(at + 1 .. at + Len(b)) /\ Ascending(Seats(new.asked))
               /\ new.announced \in Seq(at + 1 .. at + Len(b)) /\ Ascending(new.announced)
               /\ Unfinished(RestOf(c \o b, now.tail))
<1> DEFINE joined == c \o b
           placed == [p \in 1 .. Len(joined) |-> at + Less(p, Len(c))]
           E == Len(c) + 1 .. Len(joined)
           S == at + 1 .. at + Len(b)
<1>1. /\ c \in Seq(Bytes) /\ (Len(c) = 0 \/ Item(c).takes = 0)
      /\ Len(c) \in Nat /\ Len(b) \in Nat
    BY DEF Unfinished
<1>2. joined \in Seq(Bytes) /\ Len(joined) = Len(c) + Len(b) /\ Len(joined) \in Nat
    <2>1. joined \in Seq(Bytes) /\ Len(joined) = Len(c) + Len(b)
        BY <1>1, Begins
    <2> HIDE DEF joined
    <2> QED
        BY <1>1, <2>1
<1>3. \A i \in 1 .. Len(joined) :
          ~ Ends(joined, i) /\ ItemAt(joined, i).says # "nothing" => EndAt(joined, i) \in E
    BY <1>1, SaidAfter
<1> HIDE DEF joined
<1>4. PICK g : Scanned(g, joined) /\ Scan(joined) = g[1]
    BY <1>2, ScanIs
<1>5. 1 \in 1 .. Len(joined) + 1
    BY <1>2
<1>6. g[1] \in Found(E) /\ g[1].tail \in 1 .. Len(joined) + 1 /\ Ends(joined, g[1].tail)
    <2>1. E \subseteq Nat
        BY <1>1, <1>2
    <2> HIDE DEF E
    <2> QED
        BY <1>2, <1>3, <1>4, <1>5, <2>1, ScannedTypes
<1>7. g[1].asked \in Asked(E) /\ g[1].announced \in Seq(E)
    BY <1>6 DEF Found, Asked
<1>8. Ascending(Seats(g[1].asked)) /\ Ascending(g[1].announced)
    BY <1>2, <1>4, <1>5, ScannedAscends, ScannedAsksAscend
<1>9. \A p \in E : placed[p] \in S
    <2> SUFFICES ASSUME NEW p \in E PROVE placed[p] \in S
        OBVIOUS
    <2>1. p \in 1 .. Len(joined) /\ p \in Nat /\ p > Len(c) /\ p <= Len(c) + Len(b)
        BY <1>1, <1>2
    <2>2. placed[p] = at + Less(p, Len(c))
        BY <2>1
    <2>3. Less(p, Len(c)) = p - Len(c)
        BY <1>1, <2>1 DEF Less
    <2> HIDE DEF placed
    <2> QED
        BY <1>1, <2>1, <2>2, <2>3
<1>10. Climbs(placed, E)
    <2> SUFFICES ASSUME NEW p \in E, NEW q \in E, p < q PROVE placed[p] < placed[q]
        BY DEF Climbs
    <2>1. /\ p \in 1 .. Len(joined) /\ p \in Nat /\ p > Len(c)
          /\ q \in 1 .. Len(joined) /\ q \in Nat /\ q > Len(c)
        BY <1>1, <1>2
    <2>2. placed[p] = at + Less(p, Len(c)) /\ placed[q] = at + Less(q, Len(c))
        BY <2>1
    <2>3. Less(p, Len(c)) = p - Len(c) /\ Less(q, Len(c)) = q - Len(c)
        BY <1>1, <2>1 DEF Less
    <2> HIDE DEF placed
    <2> QED
        BY <1>1, <2>1, <2>2, <2>3
<1>11. S \subseteq Nat
    BY <1>1
<1> HIDE DEF placed, E, S
<1>12. /\ MovedTells(g[1].announced, placed) \in Seq(S)
       /\ Ascending(MovedTells(g[1].announced, placed))
    BY <1>7, <1>8, <1>9, <1>10, <1>11, MovedAscend
<1>13. Moves(placed, E)
    BY <1>9, <1>11 DEF Moves
<1> DEFINE m == MovedAsks(g[1].asked, placed)
           d == Seats(g[1].asked)
<1>14. /\ d \in Seq(E) /\ Len(d) = Len(g[1].asked) /\ Len(d) \in Nat
       /\ \A i \in 1 .. Len(d) : d[i] = g[1].asked[i][1]
    BY <1>7, SeatsAre
<1>15. Seats(m) = MovedTells(d, placed)
    BY <1>7, <1>13, SeatsMoved
<1>16. MovedTells(d, placed) \in Seq(S) /\ Ascending(MovedTells(d, placed))
    <2> HIDE DEF d
    <2>1. Ascending(d)
        BY <1>8 DEF d
    <2> QED
        BY <1>9, <1>10, <1>11, <1>14, <2>1, MovedAscend
<1>17. /\ m \in Asked(Nat) /\ Len(m) = Len(g[1].asked)
       /\ \A i \in 1 .. Len(m) : m[i] = <<placed[g[1].asked[i][1]], g[1].asked[i][2]>>
    BY <1>7, <1>13, MovedAsksIs
<1> HIDE DEF m, d
<1>18. m \in Asked(S)
    <2> HIDE DEF Sayings
    <2>1. m \in [1 .. Len(m) -> Nat \X Sayings] /\ Len(m) \in Nat
        BY <1>17 DEF Asked
    <2>2. ASSUME NEW i \in 1 .. Len(m) PROVE m[i] \in S \X Sayings
        <3>1. m[i] \in Nat \X Sayings
            BY <2>1
        <3>2. m[i][1] \in S
            <4>1. i \in 1 .. Len(d) /\ d[i] \in E /\ d[i] = g[1].asked[i][1]
                BY <1>14, <1>17
            <4>2. m[i][1] = placed[d[i]]
                BY <1>17, <4>1
            <4> QED
                BY <1>9, <4>1, <4>2
        <3> QED
            BY <3>1, <3>2
    <2>3. m \in [1 .. Len(m) -> S \X Sayings]
        BY <2>1, <2>2
    <2> DEFINE T == S \X Sayings
    <2> HIDE DEF T
    <2>4. m \in Seq(T)
        BY <2>1, <2>3 DEF T
    <2> QED
        BY <2>4 DEF Asked, T
<1>19. Unfinished(RestOf(joined, g[1].tail))
    BY <1>2, <1>6, RestIsUnfinished
<1>20. /\ Moved(Scan(joined), placed).asked = m
       /\ Moved(Scan(joined), placed).announced = MovedTells(g[1].announced, placed)
    BY <1>4, MovedIs DEF m
<1> QED
    BY <1>4, <1>12, <1>15, <1>16, <1>18, <1>19, <1>20 DEF joined, placed, S

-----------------------------------------------------------------------------
(* Whatever was dropped, what was found stands in order in what was read;   *)
(* and while nothing was, it is what one read would have found.             *)
InOrder ==
    /\ Unfinished(carry)
    /\ answers \in Asked(1 .. read) /\ Ascending(Seats(answers))
    /\ heard \in Seq(1 .. read) /\ Ascending(heard)
HeardWhole ==
    /\ answers = Scan(screen).asked /\ heard = Scan(screen).announced
    /\ carry = RestOf(screen, Scan(screen).tail)
HeardInv == StreamInv /\ InOrder /\ (~ dropped => HeardWhole)

LEMMA HeardInit == Init => InOrder /\ HeardWhole
<1> SUFFICES ASSUME Init PROVE InOrder /\ HeardWhole
    OBVIOUS
<1>1. screen = << >> /\ answers = << >> /\ heard = << >> /\ carry = << >>
    BY DEF Init
<1>2. << >> \in Seq(Bytes) /\ Len(<< >>) = 0
    OBVIOUS
<1>3. PICK f : Scanned(f, << >>) /\ Scan(<< >>) = f[1]
    BY <1>2, ScanIs
<1>4. f[1] = NoMore(1)
    <2>1. 1 \in 1 .. Len(<< >>) + 1 /\ Ends(<< >>, 1)
        BY <1>2 DEF Ends
    <2> QED
        BY <1>3, <2>1 DEF Scanned
<1>5. Scan(<< >>).asked = << >> /\ Scan(<< >>).announced = << >> /\ Scan(<< >>).tail = 1
    BY <1>3, <1>4 DEF NoMore
<1>6. RestOf(<< >>, 1) = << >>
    <2>1. 1 \in 1 .. Len(<< >>) + 1 /\ Len(<< >>) - 1 + 1 = 0
        BY <1>2
    <2>2. RestOf(<< >>, 1) \in Seq(Bytes) /\ Len(RestOf(<< >>, 1)) = 0
        BY <1>2, <2>1, RestOfIs
    <2> DEFINE r == RestOf(<< >>, 1)
    <2> HIDE DEF r
    <2>3. r = << >>
        BY <2>2 DEF r
    <2> QED
        BY <2>3 DEF r
<1>7. HeardWhole
    BY <1>1, <1>5, <1>6 DEF HeardWhole
<1>8. read = 0 /\ << >> \in Asked(1 .. 0) /\ << >> \in Seq(1 .. 0)
    BY DEF Init, Asked
<1>9. Ascending(Seats(<< >>)) /\ Ascending(<< >>)
    <2> DEFINE e == Seats(<< >>)
    <2>1. Len(e) = 0
        BY <1>2, <1>8, SeatsAre
    <2> HIDE DEF e
    <2> QED
        BY <1>2, <2>1 DEF Ascending, e
<1>10. Unfinished(<< >>)
    BY <1>2 DEF Unfinished
<1> QED
    BY <1>1, <1>7, <1>8, <1>9, <1>10 DEF InOrder

LEMMA HeardFeed ==
    ASSUME StreamInv, HeardWhole, ~ dropped', NEW n \in 1 .. Len(written) - read, Feed(n)
    PROVE  HeardWhole'
<1> DEFINE bytes == SubSeq(written, read + 1, read + n)
           b == Rewrite(hvp, bytes).out
           placed == [p \in 1 .. Len(carry \o b) |-> read + Less(p, Len(carry))]
           now == Scan(carry \o b)
<1>1. /\ screen' = screen \o b
      /\ answers' = answers \o Moved(now, placed).asked
      /\ heard' = heard \o Moved(now, placed).announced
      /\ carry' = Carried(SubSeq(carry \o b, now.tail, Len(carry \o b)))
      /\ carry' = SubSeq(carry \o b, now.tail, Len(carry \o b))
    BY DEF Feed, TerminalQueries
<1>2. /\ written \in Seq(Bytes) /\ read \in Nat /\ n \in Nat /\ read + n <= Len(written)
    BY DEF StreamInv
<1>3. bytes \in Seq(Bytes)
    BY <1>2, ReadOn
<1>4. hvp \in Hvps /\ screen \in Seq(Bytes) /\ Len(screen) = read
    BY WholeTypes DEF StreamInv
<1>5. b \in Seq(Bytes)
    BY <1>3, <1>4, RewriteTypes
<1> HIDE DEF b
<1>6. carry = RestOf(screen, Scan(screen).tail)
    BY DEF HeardWhole
<1>7. /\ Scan(screen).tail \in 1 .. Len(screen) + 1 /\ now.tail \in 1 .. Len(carry \o b) + 1
      /\ Scan(screen \o b).asked = Scan(screen).asked \o Moved(now, placed).asked
      /\ Scan(screen \o b).announced = Scan(screen).announced \o Moved(now, placed).announced
      /\ RestOf(screen \o b, Scan(screen \o b).tail) = RestOf(carry \o b, now.tail)
    <2> DEFINE c == RestOf(screen, Scan(screen).tail)
               at == [p \in 1 .. Len(c \o b) |-> Len(screen) + Less(p, Len(c))]
    <2>1. /\ Scan(screen).tail \in 1 .. Len(screen) + 1
          /\ Scan(c \o b).tail \in 1 .. Len(c \o b) + 1
          /\ Scan(screen \o b).asked = Scan(screen).asked \o Moved(Scan(c \o b), at).asked
          /\ Scan(screen \o b).announced =
                 Scan(screen).announced \o Moved(Scan(c \o b), at).announced
          /\ RestOf(screen \o b, Scan(screen \o b).tail) = RestOf(c \o b, Scan(c \o b).tail)
        BY <1>4, <1>5, ScanOn
    <2>2. carry = c
        BY <1>6
    <2> HIDE DEF c
    <2>3. at = placed
        BY <1>4, <2>2
    <2> QED
        BY <2>1, <2>2, <2>3
<1>8. screen' \in Seq(Bytes) /\ Scan(screen').tail \in 1 .. Len(screen') + 1
    <2> DEFINE s == screen \o b
    <2>1. s \in Seq(Bytes)
        BY <1>4, <1>5, Begins
    <2> HIDE DEF s
    <2>2. Scan(s).tail \in 1 .. Len(s) + 1
        BY <1>5, <2>1, ScanOn
    <2> QED
        BY <1>1, <2>1, <2>2 DEF s
<1>9. carry' = RestOf(screen', Scan(screen').tail)
    <2> DEFINE r == RestOf(carry \o b, now.tail)
    <2>2. r = RestOf(screen', Scan(screen').tail)
        BY <1>1, <1>7
    <2>3. carry' = r
        BY <1>1 DEF RestOf
    <2> HIDE DEF r
    <2> QED
        BY <2>2, <2>3
<1> QED
    BY <1>1, <1>7, <1>9 DEF HeardWhole

LEMMA OrderFeed ==
    ASSUME StreamInv, InOrder, NEW n \in 1 .. Len(written) - read, Feed(n)
    PROVE  InOrder'
<1> DEFINE bytes == SubSeq(written, read + 1, read + n)
           b == Rewrite(hvp, bytes).out
           placed == [p \in 1 .. Len(carry \o b) |-> read + Less(p, Len(carry))]
           now == Scan(carry \o b)
           new == Moved(now, placed)
           open == RestOf(carry \o b, now.tail)
<1>1. /\ answers' = answers \o new.asked /\ heard' = heard \o new.announced
      /\ carry' = Carried(open) /\ read' = read + n
    BY DEF Feed, TerminalQueries, RestOf
<1>2. /\ written \in Seq(Bytes) /\ read \in Nat /\ n \in Nat /\ read + n <= Len(written)
    BY DEF StreamInv
<1>3. bytes \in Seq(Bytes) /\ Len(bytes) = n
    BY <1>2, ReadOn
<1>4. hvp \in Hvps
    BY WholeTypes DEF StreamInv
<1>5. b \in Seq(Bytes) /\ Len(b) = n
    BY <1>3, <1>4, RewriteTypes
<1> HIDE DEF b
<1>6. Unfinished(carry)
    BY DEF InOrder
<1>7. /\ new.asked \in Asked(read + 1 .. read + n) /\ Ascending(Seats(new.asked))
      /\ new.announced \in Seq(read + 1 .. read + n) /\ Ascending(new.announced)
      /\ Unfinished(open)
    BY <1>2, <1>5, <1>6, FoundInOrder
<1> HIDE DEF new, open
<1>8. Unfinished(carry')
    <2>1. Unfinished(<< >>)
        BY DEF Unfinished
    <2> QED
        BY <1>1, <1>7, <2>1 DEF Carried
<1>9. /\ heard' \in Seq(1 .. read') /\ Ascending(heard')
    <2>1. 1 <= read + 1 /\ read <= read + n /\ read + n \in Nat
        BY <1>2
    <2> QED
        BY <1>1, <1>2, <1>7, <2>1, AscendOn DEF InOrder
<1>10. Seats(answers) \in Seq(1 .. read) /\ Seats(new.asked) \in Seq(read + 1 .. read + n)
    BY <1>7, SeatsAre DEF InOrder
<1>11. Ascending(Seats(answers) \o Seats(new.asked))
    <2>1. 1 <= read + 1 /\ read <= read + n /\ read + n \in Nat
        BY <1>2
    <2> QED
        BY <1>2, <1>7, <1>10, <2>1, AscendOn DEF InOrder
<1>12. answers \in Asked(1 .. read') /\ new.asked \in Asked(1 .. read')
    <2> DEFINE T == (1 .. read') \X Sayings
    <2>1. 1 .. read \subseteq 1 .. read' /\ read + 1 .. read + n \subseteq 1 .. read'
        BY <1>1, <1>2
    <2>2. (1 .. read) \X Sayings \subseteq T /\ (read + 1 .. read + n) \X Sayings \subseteq T
        <3> HIDE DEF Sayings
        <3> QED
            BY <2>1
    <2> HIDE DEF T
    <2>3. answers \in Seq(T) /\ new.asked \in Seq(T)
        BY <1>7, <2>2, SeqMonotonic DEF Asked, InOrder
    <2> QED
        BY <2>3 DEF Asked, T
<1>13. answers' \in Asked(1 .. read')
    BY <1>1, <1>12, ConcatProperties DEF Asked
<1>14. Ascending(Seats(answers'))
    BY <1>1, <1>11, <1>12, SeatsMore
<1> QED
    BY <1>8, <1>9, <1>13, <1>14 DEF InOrder

LEMMA HeardStep == HeardInv /\ [Next]_vars => HeardInv'
<1> SUFFICES ASSUME HeardInv, [Next]_vars PROVE HeardInv'
    OBVIOUS
<1>0. StreamInv /\ InOrder /\ (~ dropped => HeardWhole) /\ StreamInv'
    BY StreamStep DEF HeardInv
<1>1. ASSUME NEW t \in Tokens, Write(t) PROVE HeardInv'
    BY <1>0, <1>1 DEF Write, HeardInv, InOrder, HeardWhole, Unfinished
<1>2. ASSUME NEW n \in 1 .. Len(written) - read, Feed(n) PROVE HeardInv'
    <2>1. InOrder'
        BY <1>0, <1>2, OrderFeed
    <2>2. ASSUME ~ dropped' PROVE HeardWhole'
        <3>1. ~ dropped
            BY <1>2, <2>2 DEF Feed
        <3> QED
            BY <1>0, <1>2, <2>2, <3>1, HeardFeed
    <2> QED
        BY <1>0, <2>1, <2>2 DEF HeardInv
<1>3. CASE UNCHANGED vars
    BY <1>0, <1>3 DEF HeardInv, InOrder, HeardWhole, Unfinished, vars
<1> QED
    BY <1>1, <1>2, <1>3 DEF Next

LEMMA AscendingOnce ==
    ASSUME NEW n \in Nat, NEW q \in Seq(1 .. n), Ascending(q)
    PROVE  IsInjective(q)
<1>1. DOMAIN q = 1 .. Len(q) /\ Len(q) \in Nat /\ \A i \in 1 .. Len(q) : q[i] \in Int
    OBVIOUS
<1> SUFFICES ASSUME NEW i \in 1 .. Len(q), NEW j \in 1 .. Len(q), q[i] = q[j]
             PROVE  i = j
    BY <1>1 DEF IsInjective
<1>2. ~ (i < j) /\ ~ (j < i)
    BY <1>1 DEF Ascending
<1> QED
    BY <1>1, <1>2

LEMMA HeardSays == HeardInv => AnsweredInPlace
<1> SUFFICES ASSUME HeardInv PROVE AnsweredInPlace
    OBVIOUS
<1>1. screen = Whole.out /\ read \in Nat
    BY DEF HeardInv, StreamInv
<1>2. ~ dropped => answers = Scan(Whole.out).asked /\ heard = Scan(Whole.out).announced
    BY <1>1 DEF HeardInv, HeardWhole
<1>3. IsInjective(heard)
    BY <1>1, AscendingOnce DEF HeardInv, InOrder
<1>4. IsInjective(Seats(answers))
    <2>1. Seats(answers) \in Seq(1 .. read)
        BY SeatsAre DEF HeardInv, InOrder
    <2> QED
        BY <1>1, <2>1, AscendingOnce DEF HeardInv, InOrder
<1> QED
    BY <1>2, <1>3, <1>4 DEF AnsweredInPlace, Seats

(* However the output is cut, queries are answered and announcements heard  *)
(* as if it came in one read, unless an unfinished one was too long to be   *)
(* carried, and none is answered or dialled twice (scan_queries).           *)
THEOREM AnswersInPlace == Spec => []AnsweredInPlace
<1>1. Init => HeardInv
    BY StreamInit, HeardInit DEF HeardInv
<1> QED
    BY <1>1, HeardStep, HeardSays, PTL DEF Spec

(* How the output of a pane is cut into reads shows in nothing: neither on  *)
(* the screen, nor in the ring, nor in what is answered and dialled.        *)
THEOREM NoCutMatters == Spec => []CutsDoNotMatter
<1>1. CutsDoNotShow /\ AnsweredInPlace => CutsDoNotMatter
    BY DEF CutsDoNotMatter
<1> QED
    BY <1>1, CutsUnseen, AnswersInPlace, PTL
=============================================================================

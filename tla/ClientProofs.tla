---------------------------- MODULE ClientProofs ----------------------------
(***************************************************************************)
(* What is proved about the clients: the loop of the workbench, with the   *)
(* pages it shows, the machines it holds and the pages it remembers, what  *)
(* a client knows of the rails of a daemon (module Mirror), and the page   *)
(* that stages pieces of a diff (module Staging).                          *)
(*                                                                         *)
(* The theorems of staging have a hypothesis, LastTells: a last line that  *)
(* has no newline and may change says what no other line says.  Where it   *)
(* says what the line before it says, subset keeps a mark that does not    *)
(* belong (Staging, MarksFollow).                                          *)
(***************************************************************************)
EXTENDS Pages, Machines, Views, Mirror, Staging, Facts, SequenceTheorems, FiniteSetTheorems, TLAPS

-----------------------------------------------------------------------------
(* Sequences that lose or gain an element in the middle.                    *)

LEMMA Removed ==
    ASSUME NEW S, NEW s \in Seq(S), NEW k \in 1 .. Len(s)
    PROVE  /\ RemoveAt(s, k) \in Seq(S)
           /\ Len(RemoveAt(s, k)) = Len(s) - 1
           /\ \A i \in 1 .. Len(s) - 1 : RemoveAt(s, k)[i] = IF i < k THEN s[i] ELSE s[i + 1]
<1> DEFINE a == SubSeq(s, 1, k - 1)
           b == SubSeq(s, k + 1, Len(s))
<1>1. Len(s) \in Nat /\ k \in Int /\ 1 <= k /\ k <= Len(s) /\ \A i \in 1 .. Len(s) : s[i] \in S
    OBVIOUS
<1>2. a \in Seq(S) /\ Len(a) = k - 1 /\ \A i \in 1 .. k - 1 : a[i] = s[i]
    <2>1. \A i \in 1 .. k - 1 : i \in 1 .. Len(s)
        BY <1>1
    <2>2. /\ a \in Seq(S) /\ Len(a) = IF 1 <= k - 1 THEN (k - 1) - 1 + 1 ELSE 0
          /\ \A i \in 1 .. (k - 1) - 1 + 1 : a[i] = s[1 + i - 1]
        BY <1>1, <2>1, SubSeqProperties
    <2>3. \A i \in 1 .. k - 1 : i \in 1 .. (k - 1) - 1 + 1 /\ 1 + i - 1 = i
        BY <1>1
    <2> QED
        BY <1>1, <2>2, <2>3
<1>3. b \in Seq(S) /\ Len(b) = Len(s) - k /\ \A i \in 1 .. Len(s) - k : b[i] = s[k + i]
    <2>1. \A i \in k + 1 .. Len(s) : i \in 1 .. Len(s)
        BY <1>1
    <2>2. /\ b \in Seq(S) /\ Len(b) = IF k + 1 <= Len(s) THEN Len(s) - (k + 1) + 1 ELSE 0
          /\ \A i \in 1 .. Len(s) - (k + 1) + 1 : b[i] = s[(k + 1) + i - 1]
        BY <1>1, <2>1, SubSeqProperties
    <2>3. \A i \in 1 .. Len(s) - k : i \in 1 .. Len(s) - (k + 1) + 1 /\ (k + 1) + i - 1 = k + i
        BY <1>1
    <2> QED
        BY <1>1, <2>2, <2>3
<1>4. RemoveAt(s, k) = a \o b
    BY DEF RemoveAt
<1> HIDE DEF a, b
<1>5. /\ a \o b \in Seq(S) /\ Len(a \o b) = Len(a) + Len(b)
      /\ \A i \in 1 .. Len(a) + Len(b) : (a \o b)[i] = IF i <= Len(a) THEN a[i] ELSE b[i - Len(a)]
    BY <1>2, <1>3, ConcatProperties
<1>6. Len(a) + Len(b) = Len(s) - 1
    BY <1>1, <1>2, <1>3
<1>7. ASSUME NEW i \in 1 .. Len(s) - 1
      PROVE  (a \o b)[i] = IF i < k THEN s[i] ELSE s[i + 1]
    <2>1. (a \o b)[i] = IF i <= k - 1 THEN a[i] ELSE b[i - (k - 1)]
        BY <1>2, <1>5, <1>6
    <2>2. CASE i < k
        <3>1. i \in 1 .. k - 1 /\ i <= k - 1
            BY <1>1, <2>2
        <3> QED
            BY <1>2, <2>1, <2>2, <3>1
    <2>3. CASE ~ (i < k)
        <3>1. ~ (i <= k - 1) /\ i - (k - 1) \in 1 .. Len(s) - k /\ k + (i - (k - 1)) = i + 1
            BY <1>1, <2>3
        <3> QED
            BY <1>3, <2>1, <2>3, <3>1
    <2> QED
        BY <2>2, <2>3
<1> QED
    BY <1>4, <1>5, <1>6, <1>7

LEMMA RemovedInjective ==
    ASSUME NEW S, NEW s \in Seq(S), NEW k \in 1 .. Len(s), IsInjective(s)
    PROVE  IsInjective(RemoveAt(s, k))
<1> DEFINE r == RemoveAt(s, k)
           slot(i) == IF i < k THEN i ELSE i + 1
<1>1. /\ r \in Seq(S) /\ Len(r) = Len(s) - 1
      /\ \A i \in 1 .. Len(s) - 1 : r[i] = s[slot(i)]
    BY Removed
<1> HIDE DEF r
<1>2. DOMAIN r = 1 .. Len(s) - 1 /\ DOMAIN s = 1 .. Len(s) /\ Len(s) \in Nat
    BY <1>1
<1>3. \A i, j \in DOMAIN r : slot(i) \in DOMAIN s /\ (slot(i) = slot(j) => i = j)
    BY <1>2
<1> HIDE DEF slot
<1>4. ASSUME NEW i \in DOMAIN r, NEW j \in DOMAIN r, r[i] = r[j]
      PROVE  i = j
    BY <1>1, <1>2, <1>3, <1>4 DEF IsInjective
<1> QED
    BY <1>4 DEF IsInjective, r

LEMMA Inserted ==
    ASSUME NEW S, NEW s \in Seq(S), NEW k \in 1 .. Len(s) + 1, NEW e \in S,
           IsInjective(s), e \notin Range(s)
    PROVE  InsertAt(s, k, e) \in Seq(S) /\ IsInjective(InsertAt(s, k, e))
<1> DEFINE a == SubSeq(s, 1, k - 1)
           b == SubSeq(s, k, Len(s))
           r == InsertAt(s, k, e)
           from(i) == IF i < k THEN i ELSE i - 1
<1>1. Len(s) \in Nat /\ k \in Int /\ 1 <= k /\ k <= Len(s) + 1 /\ \A i \in 1 .. Len(s) : s[i] \in S
    OBVIOUS
<1>2. a \in Seq(S) /\ Len(a) = k - 1 /\ \A i \in 1 .. k - 1 : a[i] = s[i]
    <2>1. \A i \in 1 .. k - 1 : i \in 1 .. Len(s)
        BY <1>1
    <2>2. /\ a \in Seq(S) /\ Len(a) = IF 1 <= k - 1 THEN (k - 1) - 1 + 1 ELSE 0
          /\ \A i \in 1 .. (k - 1) - 1 + 1 : a[i] = s[1 + i - 1]
        BY <1>1, <2>1, SubSeqProperties
    <2>3. \A i \in 1 .. k - 1 : i \in 1 .. (k - 1) - 1 + 1 /\ 1 + i - 1 = i
        BY <1>1
    <2> QED
        BY <1>1, <2>2, <2>3
<1>3. b \in Seq(S) /\ Len(b) = Len(s) - k + 1 /\ \A i \in 1 .. Len(s) - k + 1 : b[i] = s[k + i - 1]
    <2>1. \A i \in k .. Len(s) : i \in 1 .. Len(s)
        BY <1>1
    <2>2. /\ b \in Seq(S) /\ Len(b) = IF k <= Len(s) THEN Len(s) - k + 1 ELSE 0
          /\ \A i \in 1 .. Len(s) - k + 1 : b[i] = s[k + i - 1]
        BY <1>1, <2>1, SubSeqProperties
    <2> QED
        BY <1>1, <2>2
<1>4. r = (a \o <<e>>) \o b
    BY DEF InsertAt
<1> HIDE DEF a, b, r
<1>5. /\ a \o <<e>> \in Seq(S) /\ Len(a \o <<e>>) = k
      /\ \A i \in 1 .. k : (a \o <<e>>)[i] = IF i < k THEN s[i] ELSE e
    <2>1. <<e>> \in Seq(S) /\ Len(<<e>>) = 1 /\ <<e>>[1] = e
        OBVIOUS
    <2>2. /\ a \o <<e>> \in Seq(S) /\ Len(a \o <<e>>) = (k - 1) + 1
          /\ \A i \in 1 .. (k - 1) + 1 :
                 (a \o <<e>>)[i] = IF i <= k - 1 THEN a[i] ELSE <<e>>[i - (k - 1)]
        BY <1>2, <2>1, ConcatProperties
    <2>3. (k - 1) + 1 = k
        BY <1>1
    <2>4. ASSUME NEW i \in 1 .. k
          PROVE  (a \o <<e>>)[i] = IF i < k THEN s[i] ELSE e
        <3>1. /\ i \in 1 .. (k - 1) + 1
              /\ i < k => i \in 1 .. k - 1 /\ i <= k - 1
              /\ ~ (i < k) => ~ (i <= k - 1) /\ i - (k - 1) = 1
            BY <1>1
        <3>2. (a \o <<e>>)[i] = IF i <= k - 1 THEN a[i] ELSE <<e>>[i - (k - 1)]
            BY <2>2, <3>1
        <3>3. CASE i < k
            BY <1>2, <3>1, <3>2, <3>3
        <3>4. CASE ~ (i < k)
            BY <2>1, <3>1, <3>2, <3>4
        <3> QED
            BY <3>3, <3>4
    <2> QED
        BY <2>2, <2>3, <2>4
<1>6. /\ r \in Seq(S) /\ Len(r) = Len(s) + 1
      /\ \A i \in 1 .. Len(s) + 1 : r[i] = IF i = k THEN e ELSE s[from(i)]
    <2>1. /\ r \in Seq(S) /\ Len(r) = k + (Len(s) - k + 1)
          /\ \A i \in 1 .. k + (Len(s) - k + 1) :
                 r[i] = IF i <= k THEN (a \o <<e>>)[i] ELSE b[i - k]
        BY <1>3, <1>4, <1>5, ConcatProperties
    <2>2. k + (Len(s) - k + 1) = Len(s) + 1
        BY <1>1
    <2>3. ASSUME NEW i \in 1 .. Len(s) + 1
          PROVE  r[i] = IF i = k THEN e ELSE s[from(i)]
        <3>1. CASE i <= k
            BY <1>1, <1>5, <2>1, <2>2, <3>1
        <3>2. CASE ~ (i <= k)
            <4>1. i - k \in 1 .. Len(s) - k + 1 /\ k + (i - k) - 1 = i - 1
                BY <1>1, <3>2
            <4>2. r[i] = b[i - k]
                BY <2>1, <2>2, <3>2
            <4>3. b[i - k] = s[i - 1]
                BY <1>3, <4>1
            <4>4. ~ (i < k) /\ i # k
                BY <1>1, <3>2
            <4> QED
                BY <4>2, <4>3, <4>4
        <3> QED
            BY <3>1, <3>2
    <2> QED
        BY <2>1, <2>2, <2>3
<1>7. DOMAIN r = 1 .. Len(s) + 1 /\ DOMAIN s = 1 .. Len(s)
    BY <1>6
<1>8. \A i, j \in DOMAIN r : i # k /\ j # k => from(i) \in DOMAIN s /\ (from(i) = from(j) => i = j)
    BY <1>1, <1>7
<1>9. \A i \in DOMAIN s : s[i] # e
    BY DEF Range
<1> HIDE DEF from
<1>10. ASSUME NEW i \in DOMAIN r, NEW j \in DOMAIN r, r[i] = r[j]
       PROVE  i = j
    BY <1>6, <1>7, <1>8, <1>9, <1>10 DEF IsInjective
<1> QED
    BY <1>6, <1>10 DEF IsInjective, r

-----------------------------------------------------------------------------
(* Pages: between two passes the screen is about the chip that is up, one   *)
(* answer at most is awaited and none is older than the last verb, and a    *)
(* page that says it loads is awaited.  The space chosen for a project is   *)
(* the one it is remembered by, but for the one that is up until the pass.  *)
GitType == [of : Projects \union {Nobody}, asOf : 0 .. MaxVerbs, loaded : BOOLEAN]
LoadType == [of : Projects, asOf : 0 .. Unread, newest : BOOLEAN]

Grown ==
    /\ tree \in [Projects -> 1 .. MaxVerbs] /\ verbed \in [Projects -> 1 .. MaxVerbs]
    /\ \A w \in Projects : verbed[w] <= tree[w]
UpToDate == turn = "event" => showing = Active /\ showedPage = page
Awaited == \A l, k \in loads : l.newest /\ k.newest => l = k
Recent ==
    /\ NothingUndone
    /\ \A l \in loads : l.newest /\ l.asOf \notin {0, Unread} => l.asOf >= verbed[l.of]
Coming ==
    page = "git" /\ showedPage = "git" /\ ~ git.loaded /\ Active = showing =>
        \E l \in loads : l.newest /\ l.of = showing
SpacesKept ==
    /\ \A w \in Projects :
           \/ spaceOf[w] = leftOn[w]
           \/ turn = "pass" /\ w = showing /\ Active = showing /\ page # "booth"
    /\ showing \in Projects /\ Active = showing /\ page # "booth" => spaceOf[showing] = page

PagesInv ==
    /\ PagesTypeOK /\ turn \in {"event", "pass"} /\ Grown
    /\ UpToDate /\ Awaited /\ Recent /\ Coming /\ SpacesKept

LEMMA ActiveType == chips \in Seq(Projects) => Active \in Projects \union {Nobody}
BY DEF Active, ActiveIn

LEMMA UnreadNumber == Unread \in Nat /\ Unread = MaxVerbs + 1 /\ Unread \in 0 .. Unread /\ Unread # 0
BY PagesAssumption DEF Unread

LEMMA DefaultType ==
    /\ GitDefault \in GitType /\ GitDefault.of = Nobody /\ ~ GitDefault.loaded
    /\ \A b \in BOOLEAN : /\ [GitDefault EXCEPT !.loaded = b] \in GitType
                          /\ [GitDefault EXCEPT !.loaded = b].of = Nobody
                          /\ [GitDefault EXCEPT !.loaded = b].loaded = b
<1>1. 0 \in 0 .. MaxVerbs
    BY PagesAssumption
<1> QED
    BY <1>1 DEF GitDefault, GitType

LEMMA OutdatedFacts ==
    ASSUME loads \subseteq LoadType
    PROVE  Outdated \subseteq LoadType /\ \A l \in Outdated : ~ l.newest
<1>1. \A l \in LoadType : LET o == [l EXCEPT !.newest = FALSE] IN o \in LoadType /\ ~ o.newest
    BY DEF LoadType
<1> QED
    BY <1>1 DEF Outdated

LEMMA LoadFacts ==
    ASSUME NEW w \in Projects, NEW b \in BOOLEAN
    PROVE  /\ Load(w, b) \in LoadType /\ Load(w, b).of = w /\ Load(w, b).asOf = Unread
           /\ Load(w, b).newest = b
BY UnreadNumber DEF Load, LoadType

(* After a question about w, its answer alone is awaited.                   *)
Asking(w) ==
    /\ git' \in GitType /\ loads' \subseteq LoadType
    /\ \A l \in loads' : l.newest => w \in Projects /\ l = Load(w, TRUE)
    /\ git'.loaded => git'.of = Nobody
    /\ w \in Projects => Load(w, TRUE) \in loads'
    /\ w = Nobody => git'.loaded

LEMMA AskedAsks ==
    ASSUME PagesInv, NEW w \in Projects \union {Nobody}, Asked(w, git)
    PROVE  Asking(w)
<1>1. git \in GitType /\ loads \subseteq LoadType
    BY DEF PagesInv, PagesTypeOK, GitType, LoadType
<1>2. CASE w = Nobody
    BY <1>1, <1>2, DefaultType, OutdatedFacts, PagesAssumption DEF Asked, Asking
<1>3. CASE w \in Projects
    <2>1. git' = [git EXCEPT !.loaded = FALSE] /\ loads' = Outdated \union {Load(w, TRUE)}
        BY <1>3, PagesAssumption DEF Asked
    <2>2. git' \in GitType /\ ~ git'.loaded
        BY <1>1, <2>1 DEF GitType
    <2>3. \A l \in loads' : l \in LoadType /\ (l.newest => l = Load(w, TRUE))
        BY <1>1, <1>3, <2>1, OutdatedFacts, LoadFacts
    <2> QED
        BY <1>3, <2>1, <2>2, <2>3, PagesAssumption DEF Asking
<1> QED
    BY <1>2, <1>3

(* What is awaited after a question, and what is shown until then.          *)
LEMMA AskingKeeps ==
    ASSUME NEW w \in Projects \union {Nobody}, Asking(w), PagesAssumption
    PROVE  /\ git' \in GitType /\ loads' \subseteq LoadType
           /\ Awaited' /\ Recent'
           /\ ~ git'.loaded => \E l \in loads' : l.newest /\ l.of = w
<1>1. Awaited'
    BY DEF Asking, Awaited
<1>2. \A l \in loads' : l.newest => l.asOf = Unread
    BY LoadFacts DEF Asking
<1>3. Recent'
    BY <1>2 DEF Asking, Recent, NothingUndone
<1>4. ~ git'.loaded => \E l \in loads' : l.newest /\ l.of = w
    <2>1. ~ git'.loaded => w \in Projects
        BY DEF Asking
    <2> QED
        BY <2>1, LoadFacts DEF Asking
<1> QED
    BY <1>1, <1>3, <1>4 DEF Asking

LEMMA PassKeeps == PagesInv /\ LoopPass => PagesInv'
<1> SUFFICES ASSUME PagesInv, LoopPass
             PROVE  PagesInv'
    OBVIOUS
<1>0. PICK now : now = Active
    OBVIOUS
<1>1. /\ turn = "pass" /\ turn' = "event"
      /\ page' = Restored(now # showing, now)
      /\ Loading(now # showing, page' # showedPage, now)
      /\ showedPage' = page' /\ showing' = now
      /\ leftOn' = IF now # Nobody /\ page' # "booth" THEN [leftOn EXCEPT ![now] = page'] ELSE leftOn
      /\ chips' = chips /\ tab' = tab /\ tree' = tree /\ verbed' = verbed
      /\ spaceOf' = IF now # Nobody /\ spaceOf[now] = Nobody /\ page # "booth"
                    THEN [spaceOf EXCEPT ![now] = page] ELSE spaceOf
    BY <1>0 DEF LoopPass, IsSpace
<1>2. /\ chips \in Seq(Projects) /\ IsInjective(chips) /\ tab \in 1 .. Cardinality(Projects)
      /\ page \in AllPages /\ leftOn \in [Projects -> {"work", "git", Nobody}]
      /\ git \in GitType /\ loads \subseteq LoadType
    BY DEF PagesInv, PagesTypeOK, GitType, LoadType
<1>3. now \in Projects \union {Nobody}
    BY <1>0, <1>2, ActiveType
<1>4. /\ page' \in AllPages
      /\ ~ (now # showing) => page' = page
    BY <1>1, <1>2, <1>3 DEF Restored, AllPages
<1>5. leftOn' \in [Projects -> {"work", "git", Nobody}]
    <2>1. page' # "booth" => page' \in {"work", "git"}
        BY <1>4 DEF AllPages
    <2> QED
        BY <1>1, <1>2, <1>3, <2>1
<1>6. /\ git' \in GitType /\ loads' \subseteq LoadType /\ Awaited' /\ Recent'
      /\ page' = "git" /\ ~ git'.loaded => \E l \in loads' : l.newest /\ l.of = now
    <2>1. CASE page' = "git" /\ now # showing
        <3>1. Asking(now)
            <4>1. /\ git' = [GitDefault EXCEPT !.loaded = now = Nobody]
                  /\ \/ loads' = Outdated \union (IF now = Nobody THEN {} ELSE {Load(now, TRUE)})
                     \/ /\ now # Nobody
                        /\ loads' = Outdated \union {Load(now, FALSE)} \union {Load(now, TRUE)}
                BY <1>1, <2>1 DEF Loading
            <4>2. git' \in GitType /\ git'.of = Nobody /\ (git'.loaded <=> now = Nobody)
                BY <4>1, DefaultType
            <4>3. \A l \in loads' : l \in LoadType /\ (l.newest => now \in Projects /\ l = Load(now, TRUE))
                <5>1. Outdated \subseteq LoadType /\ \A l \in Outdated : ~ l.newest
                    BY <1>2, OutdatedFacts
                <5>2. CASE now = Nobody
                    BY <4>1, <5>1, <5>2
                <5>3. CASE now \in Projects
                    <6>1. /\ Load(now, FALSE) \in LoadType /\ ~ Load(now, FALSE).newest
                          /\ Load(now, TRUE) \in LoadType
                        BY <5>3, LoadFacts
                    <6>2. now # Nobody
                        BY <5>3, PagesAssumption
                    <6> HIDE DEF Load, LoadType
                    <6> QED
                        BY <4>1, <5>1, <5>3, <6>1, <6>2
                <5> QED
                    BY <1>3, <5>2, <5>3
            <4> QED
                BY <1>3, <4>1, <4>2, <4>3, PagesAssumption DEF Asking
        <3> QED
            BY <1>3, <3>1, AskingKeeps, PagesAssumption
    <2>2. CASE page' = "git" /\ ~ (now # showing) /\ page' # showedPage /\ ~ git.loaded
        <3>1. Asked(now, git)
            BY <1>1, <2>2 DEF Loading
        <3> QED
            BY <1>3, <3>1, AskedAsks, AskingKeeps, PagesAssumption
    <2>3. CASE ~ (page' = "git" /\ (now # showing \/ (page' # showedPage /\ ~ git.loaded)))
        <3>1. git' = (IF now # showing THEN GitDefault ELSE git) /\ loads' = loads
            BY <1>1, <2>3 DEF Loading
        <3>2. git' \in GitType /\ (git'.loaded => git' = git)
            BY <1>2, <3>1, DefaultType
        <3>3. Awaited'
            BY <3>1 DEF PagesInv, Awaited
        <3>4. Recent'
            BY <1>1, <3>1, <3>2 DEF PagesInv, Recent, NothingUndone
        <3>5. ASSUME page' = "git", ~ git'.loaded
              PROVE  \E l \in loads' : l.newest /\ l.of = now
            <4>1. now = showing /\ page = "git" /\ git' = git /\ showedPage = "git"
                BY <1>4, <2>3, <3>1, <3>5
            <4> QED
                BY <1>0, <3>1, <3>5, <4>1 DEF PagesInv, Coming
        <3> QED
            BY <1>2, <3>1, <3>2, <3>3, <3>4, <3>5
    <2> QED
        BY <2>1, <2>2, <2>3
<1>7. PagesTypeOK'
    <2>1. spaceOf' \in [Projects -> {"work", "git", Nobody}]
        <3>1. page # "booth" => page \in {"work", "git"}
            BY <1>2 DEF AllPages
        <3> QED
            BY <1>1, <1>3, <3>1 DEF PagesInv, PagesTypeOK
    <2> QED
        BY <1>1, <1>2, <1>3, <1>4, <1>5, <1>6, <2>1 DEF PagesTypeOK, GitType, LoadType
<1>8. Active' = now
    BY <1>0, <1>1 DEF Active
<1>9. UpToDate' /\ Coming'
    BY <1>1, <1>6, <1>8 DEF UpToDate, Coming
<1>10. Grown'
    BY <1>1 DEF PagesInv, Grown
<1>11. SpacesKept'
    <2>1. /\ spaceOf \in [Projects -> {"work", "git", Nobody}]
          /\ page # "booth" => page \in {"work", "git"}
        BY DEF PagesInv, PagesTypeOK, AllPages
    <2>2. \A w \in Projects : w # now => spaceOf'[w] = spaceOf[w] /\ leftOn'[w] = leftOn[w]
        BY <1>1, <1>2, <2>1
    <2>3. CASE now = showing
        <3>1. page' = page
            BY <1>4, <2>3
        <3>2. \A w \in Projects : w # now => spaceOf[w] = leftOn[w]
            BY <2>3 DEF PagesInv, SpacesKept
        <3>3. CASE page = "booth"
            <4>1. \A w \in Projects : spaceOf[w] = leftOn[w]
                BY <3>3 DEF PagesInv, SpacesKept
            <4>2. spaceOf' = spaceOf /\ leftOn' = leftOn
                BY <1>1, <3>1, <3>3
            <4> QED
                BY <1>1, <3>1, <3>3, <4>1, <4>2 DEF SpacesKept
        <3>4. CASE page # "booth"
            <4>1. now \in Projects => spaceOf[now] = page
                BY <1>0, <2>3, <3>4 DEF PagesInv, SpacesKept
            <4>2. now \in Projects => spaceOf'[now] = page /\ leftOn'[now] = page
                BY <1>1, <1>2, <2>1, <3>1, <3>4, <4>1, PagesAssumption
            <4>3. \A w \in Projects : spaceOf'[w] = leftOn'[w]
                BY <2>2, <3>2, <4>2
            <4> QED
                BY <1>1, <3>1, <4>2, <4>3 DEF SpacesKept
        <3> QED
            BY <3>3, <3>4
    <2>4. CASE now # showing
        <3>1. \A w \in Projects : spaceOf[w] = leftOn[w]
            BY <1>0, <2>4 DEF PagesInv, SpacesKept
        <3>2. CASE page = "booth"
            <4>1. page' = "booth" /\ spaceOf' = spaceOf /\ leftOn' = leftOn
                BY <1>1, <3>2 DEF Restored, IsSpace
            <4> QED
                BY <1>1, <3>1, <4>1 DEF SpacesKept
        <3>3. CASE page # "booth"
            <4>1. ASSUME now \in Projects
                  PROVE  spaceOf'[now] = page' /\ leftOn'[now] = page'
                <5>1. now # Nobody /\ spaceOf[now] = leftOn[now]
                    BY <3>1, <4>1, PagesAssumption
                <5>2. CASE leftOn[now] = Nobody
                    <6>1. page' = page
                        BY <1>1, <5>2 DEF Restored
                    <6> QED
                        BY <1>1, <1>2, <2>1, <3>3, <4>1, <5>1, <5>2, <6>1
                <5>3. CASE leftOn[now] # Nobody
                    <6>1. page' = leftOn[now]
                        BY <1>1, <2>4, <3>3, <5>1, <5>3 DEF Restored, IsSpace
                    <6>2. page' # "booth"
                        BY <1>2, <4>1, <5>3, <6>1
                    <6> QED
                        BY <1>1, <1>2, <4>1, <5>1, <5>3, <6>1, <6>2
                <5> QED
                    BY <5>2, <5>3
            <4>2. \A w \in Projects : spaceOf'[w] = leftOn'[w]
                BY <2>2, <3>1, <4>1
            <4> QED
                BY <1>1, <4>1, <4>2 DEF SpacesKept
        <3> QED
            BY <3>2, <3>3
    <2> QED
        BY <2>3, <2>4
<1> QED
    BY <1>1, <1>6, <1>7, <1>9, <1>10, <1>11 DEF PagesInv

(* What an event leaves alone once the pass is due.                         *)
LEMMA EventKeeps ==
    ASSUME PagesInv, Takes,
           PagesTypeOK', UNCHANGED <<left, reading>>, Grown', Recent', SpacesKept',
           page' = "git" => page = "git"
    PROVE  PagesInv'
<1>1. turn = "event" /\ turn' = "pass" /\ showing = Active /\ showedPage = page
    BY DEF PagesInv, Takes, UpToDate
<1>2. /\ showing' = showing /\ showedPage' = showedPage /\ git' = git /\ loads' = loads
    BY DEF left, reading
<1>3. UpToDate' /\ Awaited'
    BY <1>1, <1>2 DEF PagesInv, UpToDate, Awaited
<1>4. Coming'
    BY <1>1, <1>2 DEF PagesInv, Coming
<1> QED
    BY <1>1, <1>3, <1>4 DEF PagesInv

(* A gesture keeps to the space it was made on, or chooses one.             *)
LEMMA ChoosesKeeps ==
    ASSUME PagesInv, Takes, leftOn' = leftOn, showing' = showing, page' \in AllPages,
           \/ spaceOf' = spaceOf /\ page' = page
           \/ \E w \in Projects \union {Nobody} : Active' = w /\ Chooses(w)
    PROVE  SpacesKept' /\ spaceOf' \in [Projects -> {"work", "git", Nobody}]
<1>1. turn = "event" /\ turn' = "pass" /\ showing = Active
    BY DEF PagesInv, Takes, UpToDate
<1>2. /\ \A w \in Projects : spaceOf[w] = leftOn[w]
      /\ showing \in Projects /\ page # "booth" => spaceOf[showing] = page
      /\ spaceOf \in [Projects -> {"work", "git", Nobody}]
      /\ showing \in Projects \union {Nobody}
    BY <1>1 DEF PagesInv, SpacesKept, PagesTypeOK
<1>3. CASE spaceOf' = spaceOf /\ page' = page
    BY <1>1, <1>2, <1>3 DEF SpacesKept
<1>4. ASSUME NEW w \in Projects \union {Nobody}, Active' = w, Chooses(w)
      PROVE  SpacesKept' /\ spaceOf' \in [Projects -> {"work", "git", Nobody}]
    <2>1. CASE w = showing /\ w # Nobody /\ page' # "booth"
        <3>1. w \in Projects /\ page' \in {"work", "git"}
            BY <2>1 DEF AllPages
        <3>2. spaceOf' = [spaceOf EXCEPT ![w] = page']
            BY <1>4, <2>1 DEF Chooses, IsSpace
        <3>3. /\ spaceOf' \in [Projects -> {"work", "git", Nobody}] /\ spaceOf'[w] = page'
              /\ \A v \in Projects : v # w => spaceOf'[v] = spaceOf[v]
            BY <1>2, <3>1, <3>2
        <3>4. \A v \in Projects : v # w => spaceOf'[v] = leftOn'[v]
            BY <1>2, <3>3
        <3> QED
            BY <1>1, <1>4, <2>1, <3>3, <3>4 DEF SpacesKept
    <2>2. CASE ~ (w = showing /\ w # Nobody /\ page' # "booth")
        <3>1. spaceOf' = spaceOf
            BY <1>4, <2>2 DEF Chooses, IsSpace
        <3>2. ~ (showing' \in Projects /\ Active' = showing' /\ page' # "booth")
            BY <1>4, <2>2, PagesAssumption
        <3>3. \A v \in Projects : spaceOf'[v] = leftOn'[v]
            BY <1>2, <3>1
        <3> QED
            BY <1>2, <3>1, <3>2, <3>3 DEF SpacesKept
    <2> QED
        BY <2>1, <2>2
<1> QED
    BY <1>3, <1>4

(* Where a gesture leads; what has been done to a repository stands.        *)
LEMMA GestureKeeps ==
    ASSUME PagesInv, Takes, UNCHANGED <<left, reading, tree, verbed>>,
           chips' \in Seq(Projects), IsInjective(chips'),
           tab' \in 1 .. Cardinality(Projects), page' \in AllPages,
           \/ spaceOf' = spaceOf /\ page' = page
           \/ \E w \in Projects \union {Nobody} : Active' = w /\ Chooses(w),
           page' = "git" => page = "git" \/ showedPage' # "git"
    PROVE  PagesInv'
<1>1. turn = "event" /\ turn' = "pass" /\ showing = Active /\ showedPage = page
    BY DEF PagesInv, Takes, UpToDate
<1>2. /\ showing' = showing /\ showedPage' = showedPage /\ leftOn' = leftOn
      /\ git' = git /\ loads' = loads /\ tree' = tree /\ verbed' = verbed
    BY DEF left, reading
<1>6. SpacesKept' /\ spaceOf' \in [Projects -> {"work", "git", Nobody}]
    BY <1>2, ChoosesKeeps
<1>3. PagesTypeOK'
    BY <1>2, <1>6 DEF PagesInv, PagesTypeOK
<1>4. Grown' /\ Awaited' /\ Recent'
    BY <1>2 DEF PagesInv, Grown, Awaited, Recent, NothingUndone
<1>5. UpToDate' /\ Coming'
    BY <1>1, <1>2 DEF PagesInv, UpToDate, Coming
<1> QED
    BY <1>1, <1>3, <1>4, <1>5, <1>6 DEF PagesInv

LEMMA SelectTabKeeps ==
    ASSUME PagesInv, NEW t \in 1 .. Cardinality(Projects), SelectTab(t)
    PROVE  PagesInv'
<1>1. /\ Takes /\ t \in DOMAIN chips /\ tab' = t /\ chips' = chips
      /\ page' = IF page = "booth" THEN "work" ELSE page
      /\ Chooses(chips[t])
      /\ UNCHANGED <<left, reading, tree, verbed>>
    BY DEF SelectTab, Acts
<1>3. chips \in Seq(Projects) /\ IsInjective(chips) /\ page \in AllPages
    BY DEF PagesInv, PagesTypeOK
<1>4. Active' = chips[t] /\ chips[t] \in Projects
    BY <1>1, <1>3 DEF Active, ActiveIn
<1>5. \E w \in Projects \union {Nobody} : Active' = w /\ Chooses(w)
    BY <1>1, <1>4
<1>6. page' \in AllPages /\ page' # "booth"
    BY <1>1, <1>3 DEF AllPages
<1>7. page' = "git" => page = "git"
    BY <1>1
<1> QED
    BY <1>1, <1>3, <1>5, <1>6, <1>7, GestureKeeps

LEMMA OpenFleetRowKeeps ==
    ASSUME PagesInv, NEW t \in 1 .. Cardinality(Projects), OpenFleetRow(t)
    PROVE  PagesInv'
<1>1. /\ Takes /\ t \in DOMAIN chips /\ tab' = t /\ chips' = chips /\ page' = "work"
      /\ Chooses(chips[t]) /\ UNCHANGED <<left, reading, tree, verbed>>
    BY DEF OpenFleetRow, Acts
<1>2. chips \in Seq(Projects) /\ IsInjective(chips) /\ page' \in AllPages
    BY <1>1 DEF PagesInv, PagesTypeOK, AllPages
<1>3. Active' = chips[t] /\ chips[t] \in Projects
    BY <1>1, <1>2 DEF Active, ActiveIn
<1>4. \E w \in Projects \union {Nobody} : Active' = w /\ Chooses(w)
    BY <1>1, <1>3
<1> QED
    BY <1>1, <1>2, <1>4, GestureKeeps

LEMMA GoToKeeps ==
    ASSUME PagesInv, NEW p \in AllPages, GoTo(p)
    PROVE  PagesInv'
<1>1. /\ Takes /\ chips' = chips /\ tab' = tab /\ Chooses(Active)
      /\ page' = IF page = p /\ IsSpace(p) THEN "work" ELSE p
      /\ UNCHANGED <<left, reading, tree, verbed>>
    BY DEF GoTo, Acts
<1>2. /\ chips \in Seq(Projects) /\ IsInjective(chips)
      /\ tab \in 1 .. Cardinality(Projects) /\ page' \in AllPages
    BY <1>1 DEF PagesInv, PagesTypeOK, AllPages
<1>3. showedPage' = page
    BY <1>1 DEF PagesInv, UpToDate, Takes, left
<1>4. Active' = Active /\ Active \in Projects \union {Nobody}
    BY <1>1, <1>2, ActiveType DEF Active
<1>5. \E w \in Projects \union {Nobody} : Active' = w /\ Chooses(w)
    BY <1>1, <1>4
<1> QED
    BY <1>1, <1>2, <1>3, <1>5, GestureKeeps

LEMMA CloseWorkspaceKeeps == PagesInv /\ CloseWorkspace => PagesInv'
<1> SUFFICES ASSUME PagesInv, CloseWorkspace
             PROVE  PagesInv'
    OBVIOUS
<1>1. /\ Takes /\ chips' = chips /\ page' = page /\ spaceOf' = spaceOf
      /\ tab' = IF tab = 1 THEN 1 ELSE tab - 1
      /\ UNCHANGED <<left, reading, tree, verbed>>
    BY DEF CloseWorkspace, Acts
<1>2. /\ chips \in Seq(Projects) /\ IsInjective(chips)
      /\ tab \in 1 .. Cardinality(Projects) /\ page \in AllPages
    BY <1>1 DEF PagesInv, PagesTypeOK
<1>3. Cardinality(Projects) \in Nat
    BY PagesAssumption, FS_CardinalityType
<1>4. tab' \in 1 .. Cardinality(Projects)
    BY <1>1, <1>2, <1>3
<1> QED
    BY <1>1, <1>2, <1>4, GestureKeeps

LEMMA PushedKeeps == PagesInv /\ Pushed => PagesInv'
<1> SUFFICES ASSUME PagesInv, Pushed
             PROVE  PagesInv'
    OBVIOUS
<1>1. /\ Takes /\ tab' = tab /\ page' = page /\ spaceOf' = spaceOf
      /\ \/ \E i \in DOMAIN chips : chips' = RemoveAt(chips, i)
         \/ \E w \in Projects \ Range(chips), i \in 1 .. Len(chips) + 1 :
                chips' = InsertAt(chips, i, w)
      /\ UNCHANGED <<left, reading, tree, verbed>>
    BY DEF Pushed, Acts
<1>2. /\ chips \in Seq(Projects) /\ IsInjective(chips)
      /\ tab \in 1 .. Cardinality(Projects) /\ page \in AllPages
    BY <1>1 DEF PagesInv, PagesTypeOK
<1>3. chips' \in Seq(Projects) /\ IsInjective(chips')
    <2>1. ASSUME NEW i \in DOMAIN chips, chips' = RemoveAt(chips, i)
          PROVE  chips' \in Seq(Projects) /\ IsInjective(chips')
        <3>1. i \in 1 .. Len(chips)
            BY <1>2
        <3> QED
            BY <1>2, <2>1, <3>1, Removed, RemovedInjective
    <2>2. ASSUME NEW w \in Projects \ Range(chips), NEW i \in 1 .. Len(chips) + 1,
                 chips' = InsertAt(chips, i, w)
          PROVE  chips' \in Seq(Projects) /\ IsInjective(chips')
        BY <1>2, <2>2, Inserted
    <2> QED
        BY <1>1, <2>1, <2>2
<1> QED
    BY <1>1, <1>2, <1>3, GestureKeeps

(* A question asked in an event is about the chip that is up.               *)
LEMMA AskedKeeps ==
    ASSUME PagesInv, Takes, Asked(Active, git), UNCHANGED <<where, left, spaceOf>>,
           tree' \in [Projects -> 1 .. MaxVerbs], verbed' \in [Projects -> 1 .. MaxVerbs],
           \A w \in Projects : verbed'[w] <= tree'[w]
    PROVE  PagesInv'
<1>1. /\ chips' = chips /\ tab' = tab /\ page' = page /\ showedPage' = showedPage
      /\ showing' = showing /\ leftOn' = leftOn /\ turn' = "pass" /\ showing = Active
    BY DEF where, left, Takes, PagesInv, UpToDate
<1>2. Active \in Projects \union {Nobody}
    BY ActiveType DEF PagesInv, PagesTypeOK
<1>3. /\ git' \in GitType /\ loads' \subseteq LoadType
      /\ Awaited' /\ Recent'
      /\ ~ git'.loaded => \E l \in loads' : l.newest /\ l.of = Active
    <2>1. Asking(Active)
        BY <1>2, AskedAsks
    <2> QED
        BY <1>2, <2>1, AskingKeeps, PagesAssumption
<1>4. PagesTypeOK'
    BY <1>1, <1>3 DEF PagesInv, PagesTypeOK, GitType, LoadType
<1>5. UpToDate' /\ Grown' /\ SpacesKept'
    <2>1. SpacesKept'
        BY <1>1, ChoosesKeeps DEF PagesInv, PagesTypeOK
    <2> QED
        BY <1>1, <2>1 DEF UpToDate, Grown
<1>6. Coming'
    BY <1>1, <1>3 DEF Coming
<1> QED
    BY <1>1, <1>3, <1>4, <1>5, <1>6 DEF PagesInv

LEMMA VerbKeeps == PagesInv /\ Verb => PagesInv'
<1> SUFFICES ASSUME PagesInv, Verb
             PROVE  PagesInv'
    OBVIOUS
<1>0. PICK a : a = Active
    OBVIOUS
<1>1. /\ Takes /\ a # Nobody /\ tree[a] < MaxVerbs /\ spaceOf' = spaceOf
      /\ tree' = [tree EXCEPT ![a] = tree[a] + 1]
      /\ IF page = "git"
         THEN Asked(Active, git) /\ verbed' = [verbed EXCEPT ![a] = tree'[a]]
         ELSE UNCHANGED <<reading, verbed>>
      /\ UNCHANGED <<where, left>>
    BY <1>0 DEF Verb, Acts
<1>2. a \in Projects
    BY <1>0, <1>1, ActiveType DEF PagesInv, PagesTypeOK
<1>3. /\ tree \in [Projects -> 1 .. MaxVerbs] /\ verbed \in [Projects -> 1 .. MaxVerbs]
      /\ \A w \in Projects : verbed[w] <= tree[w]
    BY DEF PagesInv, Grown
<1>4. tree' \in [Projects -> 1 .. MaxVerbs] /\ \A w \in Projects : tree'[w] >= tree[w]
    BY <1>1, <1>2, <1>3, PagesAssumption
<1>5. CASE page = "git"
    <2>1. verbed' \in [Projects -> 1 .. MaxVerbs] /\ \A w \in Projects : verbed'[w] <= tree'[w]
        BY <1>1, <1>2, <1>3, <1>4, <1>5, PagesAssumption
    <2> QED
        BY <1>1, <1>4, <1>5, <2>1, AskedKeeps
<1>6. CASE page # "git"
    <2>1. Grown'
        BY <1>1, <1>3, <1>4, <1>6, PagesAssumption DEF Grown
    <2>2. /\ git' = git /\ loads' = loads /\ verbed' = verbed /\ chips' = chips /\ tab' = tab
          /\ page' = page /\ showedPage' = showedPage /\ showing' = showing /\ leftOn' = leftOn
        BY <1>1, <1>6 DEF where, left, reading
    <2>3. PagesTypeOK' /\ Recent'
        BY <1>1, <2>2 DEF PagesInv, PagesTypeOK, Recent, NothingUndone
    <2>5. SpacesKept'
        BY <1>1, <2>2, <2>3, ChoosesKeeps DEF PagesTypeOK
    <2>4. UNCHANGED <<left, reading>>
        BY <2>2 DEF left, reading
    <2> QED
        BY <1>1, <2>1, <2>2, <2>3, <2>4, <2>5, EventKeeps
<1> QED
    BY <1>5, <1>6

LEMMA GitRefreshKeeps == PagesInv /\ GitRefresh => PagesInv'
<1> SUFFICES ASSUME PagesInv, GitRefresh
             PROVE  PagesInv'
    OBVIOUS
<1>1. /\ Takes /\ Asked(Active, git) /\ UNCHANGED <<where, left, spaceOf>>
      /\ tree' = tree /\ verbed' = verbed
    BY DEF GitRefresh, Acts
<1> QED
    BY <1>1, AskedKeeps DEF PagesInv, Grown

LEMMA ReadGitKeeps ==
    ASSUME PagesInv, NEW l \in loads, ReadGit(l)
    PROVE  PagesInv'
<1>0. PICK n \in {0} \union {tree[w] : w \in Range(chips) \intersect {l.of}} :
          loads' = (loads \ {l}) \union {[l EXCEPT !.asOf = n]}
    BY DEF ReadGit
<1>1. /\ loads' = (loads \ {l}) \union {[l EXCEPT !.asOf = n]} /\ l.asOf = Unread
      /\ chips' = chips /\ tab' = tab /\ page' = page /\ showedPage' = showedPage
      /\ showing' = showing /\ leftOn' = leftOn /\ git' = git /\ turn' = turn
      /\ tree' = tree /\ verbed' = verbed /\ spaceOf' = spaceOf
    BY <1>0 DEF ReadGit, where, left
<1>2. loads \subseteq LoadType /\ l \in LoadType /\ l.of \in Projects
    BY DEF PagesInv, PagesTypeOK, LoadType
<1>3. /\ tree \in [Projects -> 1 .. MaxVerbs] /\ verbed \in [Projects -> 1 .. MaxVerbs]
      /\ \A w \in Projects : verbed[w] <= tree[w]
    BY DEF PagesInv, Grown
<1>4. n \in 0 .. MaxVerbs /\ (n # 0 => n >= verbed[l.of])
    <2>1. n = 0 \/ n = tree[l.of]
        BY <1>0
    <2> QED
        BY <1>2, <1>3, <2>1, PagesAssumption
<1>5. PICK r : r = [l EXCEPT !.asOf = n]
    OBVIOUS
<1>6. r \in LoadType /\ r.of = l.of /\ r.newest = l.newest /\ r.asOf = n
    BY <1>2, <1>4, <1>5, PagesAssumption DEF LoadType, Unread
<1>7. loads' = (loads \ {l}) \union {r}
    BY <1>1, <1>5
<1>8. PagesTypeOK'
    BY <1>1, <1>2, <1>6, <1>7 DEF PagesInv, PagesTypeOK, LoadType
<1>9. Grown' /\ UpToDate' /\ SpacesKept'
    <2>1. Active' = Active
        BY <1>1 DEF Active
    <2> QED
        BY <1>1, <2>1 DEF PagesInv, Grown, UpToDate, SpacesKept
<1>10. Awaited'
    BY <1>6, <1>7 DEF PagesInv, Awaited
<1>11. Recent'
    BY <1>1, <1>4, <1>6, <1>7 DEF PagesInv, Recent, NothingUndone
<1>12. Coming'
    <2>1. Active' = Active
        BY <1>1 DEF Active
    <2>2. ASSUME NEW k \in loads, k.newest, k.of = showing
          PROVE  \E j \in loads' : j.newest /\ j.of = showing
        BY <1>6, <1>7, <2>2
    <2> QED
        BY <1>1, <2>1, <2>2 DEF PagesInv, Coming
<1> QED
    BY <1>1, <1>8, <1>9, <1>10, <1>11, <1>12 DEF PagesInv

LEMMA GitAnswerKeeps ==
    ASSUME PagesInv, NEW l \in loads, GitAnswer(l)
    PROVE  PagesInv'
<1>1. /\ turn = "event" /\ turn' = "pass" /\ loads' = loads \ {l} /\ l.asOf # Unread
      /\ git' = (IF l.newest THEN Read(l) ELSE git) /\ spaceOf' = spaceOf
      /\ chips' = chips /\ tab' = tab /\ page' = page /\ showedPage' = showedPage
      /\ showing' = showing /\ leftOn' = leftOn /\ tree' = tree /\ verbed' = verbed
    BY DEF GitAnswer, Takes, where, left
<1>2. l \in LoadType /\ l.of \in Projects /\ l.asOf \in 0 .. MaxVerbs
    BY <1>1, PagesAssumption DEF PagesInv, PagesTypeOK, LoadType, Unread
<1>3. Read(l) \in GitType /\ Read(l).loaded /\ Read(l).of = l.of /\ Read(l).asOf = l.asOf
    BY <1>2 DEF Read, GitType
<1>4. PagesTypeOK'
    BY <1>1, <1>3 DEF PagesInv, PagesTypeOK, GitType
<1>5. Grown' /\ UpToDate' /\ SpacesKept' /\ Awaited'
    <2>1. Takes /\ page' \in AllPages
        BY <1>1, <1>4 DEF Takes, PagesTypeOK
    <2>2. SpacesKept'
        BY <1>1, <2>1, ChoosesKeeps
    <2> QED
        BY <1>1, <2>2 DEF PagesInv, Grown, UpToDate, Awaited
<1>6. Recent'
    <2>1. NothingUndone'
        <3>1. CASE l.newest
            BY <1>1, <1>3, <3>1 DEF PagesInv, Recent, NothingUndone
        <3>2. CASE ~ l.newest
            BY <1>1, <3>2 DEF PagesInv, Recent, NothingUndone
        <3> QED
            BY <3>1, <3>2
    <2> QED
        BY <1>1, <2>1 DEF PagesInv, Recent
<1>7. Coming'
    <2>1. Active' = Active
        BY <1>1 DEF Active
    <2>2. ~ git'.loaded => git' = git /\ ~ l.newest
        BY <1>1, <1>3
    <2> QED
        BY <1>1, <2>1, <2>2 DEF PagesInv, Coming
<1> QED
    BY <1>1, <1>4, <1>5, <1>6, <1>7 DEF PagesInv

LEMMA PagesInitInv == PagesInit => PagesInv
<1> SUFFICES ASSUME PagesInit
             PROVE  PagesInv
    OBVIOUS
<1>1. /\ chips \in SeqOf(Projects, Cardinality(Projects)) /\ IsInjective(chips) /\ tab = 1
      /\ page = "work" /\ showedPage = "work" /\ showing = Nobody
      /\ leftOn \in [Projects -> {"work", "git", Nobody}]
      /\ git = GitDefault /\ loads = {} /\ turn = "pass" /\ spaceOf = leftOn
      /\ tree = [w \in Projects |-> 1] /\ verbed = tree
    BY DEF PagesInit
<1>2. Cardinality(Projects) \in Nat \ {0}
    BY PagesAssumption, FS_CardinalityType, FS_EmptySet
<1>3. chips \in Seq(Projects)
    <2>1. PICK m \in 0 .. Cardinality(Projects) : chips \in [1 .. m -> Projects]
        BY <1>1 DEF SeqOf
    <2> QED
        BY <1>2, <2>1
<1>4. PagesTypeOK
    BY <1>1, <1>2, <1>3, DefaultType DEF PagesTypeOK, GitType, AllPages
<1>5. Grown /\ UpToDate /\ Awaited /\ Coming /\ SpacesKept
    BY <1>1, PagesAssumption DEF Grown, UpToDate, Awaited, Coming, SpacesKept
<1>6. Recent
    BY <1>1, DefaultType DEF Recent, NothingUndone
<1> QED
    BY <1>1, <1>4, <1>5, <1>6 DEF PagesInv

LEMMA PagesStep == PagesInv /\ [PagesNext]_pagesVars => PagesInv'
<1> SUFFICES ASSUME PagesInv, [PagesNext]_pagesVars
             PROVE  PagesInv'
    OBVIOUS
<1>1. ASSUME NEW t \in 1 .. Cardinality(Projects), SelectTab(t) \/ OpenFleetRow(t)
      PROVE  PagesInv'
    BY <1>1, SelectTabKeeps, OpenFleetRowKeeps
<1>2. ASSUME NEW l \in loads, ReadGit(l) \/ GitAnswer(l)
      PROVE  PagesInv'
    BY <1>2, ReadGitKeeps, GitAnswerKeeps
<1>3. CASE UNCHANGED pagesVars
    <2>1. /\ chips' = chips /\ tab' = tab /\ page' = page /\ showedPage' = showedPage
          /\ showing' = showing /\ leftOn' = leftOn /\ git' = git /\ loads' = loads
          /\ turn' = turn /\ tree' = tree /\ verbed' = verbed /\ spaceOf' = spaceOf
        BY <1>3 DEF pagesVars, where, left, reading
    <2>2. Active' = Active
        BY <2>1 DEF Active
    <2>3. PagesTypeOK' /\ Grown' /\ Awaited' /\ Recent'
        BY <2>1 DEF PagesInv, PagesTypeOK, Grown, Awaited, Recent, NothingUndone
    <2>4. UpToDate' /\ Coming' /\ SpacesKept'
        BY <2>1, <2>2 DEF PagesInv, UpToDate, Coming, SpacesKept
    <2> QED
        BY <2>1, <2>3, <2>4 DEF PagesInv
<1> QED
    BY <1>1, <1>2, <1>3, PassKeeps, GoToKeeps, CloseWorkspaceKeeps, PushedKeeps, VerbKeeps,
       GitRefreshKeeps DEF PagesNext

LEMMA PagesAlways == PagesSpec => []PagesInv
BY PagesInitInv, PagesStep, PTL DEF PagesSpec

(* A project is up on the space the gestures so far chose for it, wherever  *)
(* its chip has moved, whatever was pushed, and whichever other project or  *)
(* page was up meanwhile.                                                   *)
THEOREM PagesComeBack == PagesSpec => []PageIsRight
<1>1. PagesInv => PageIsRight
    <2> SUFFICES ASSUME PagesInv, turn = "event", showing # Nobody, page # "booth"
                 PROVE  page = spaceOf[showing]
        BY DEF PagesInv, PageIsRight, ComesBack, IsSpace
    <2> QED
        BY DEF PagesInv, PagesTypeOK, UpToDate, SpacesKept
<1> QED
    BY <1>1, PagesAlways, PTL

(* One answer at most is taken, none undoes what was done from the page,    *)
(* and a page that says it loads has its answer on the way.                 *)
THEOREM GitStaysFresh == PagesSpec => []GitIsFresh
<1>1. PagesInv => GitIsFresh
    <2> SUFFICES ASSUME PagesInv
                 PROVE  GitIsFresh
        OBVIOUS
    <2> DEFINE Newest == {l \in loads : l.newest}
    <2>1. Newest = {} \/ \E l : Newest = {l}
        <3>1. ASSUME NEW l \in Newest
              PROVE  Newest = {l}
            BY DEF PagesInv, Awaited
        <3> HIDE DEF Newest
        <3> QED
            BY <3>1
    <2>2. Cardinality(Newest) <= 1
        <3>1. CASE Newest = {}
            BY <3>1, FS_EmptySet
        <3>2. CASE \E l : Newest = {l}
            BY <3>2, FS_Singleton
        <3> QED
            BY <2>1, <3>1, <3>2
    <2>3. OneAwaited
        BY <2>2 DEF OneAwaited
    <2>4. LoadIsComing
        BY DEF PagesInv, UpToDate, Coming, LoadIsComing
    <2> QED
        BY <2>3, <2>4 DEF PagesInv, Recent, GitIsFresh
<1> QED
    BY <1>1, PagesAlways, PTL

-----------------------------------------------------------------------------
(* Machines: what dials, landings and losses do to the dials in flight and  *)
(* to the badges of the bar, whatever the config says.                      *)
HeldType ==
    /\ hosts \in Seq(Badges \union {None})
    /\ dials \in [Targets -> Metas \union {None}] /\ tasks \in [Targets -> Nat]
    /\ specs \in [Badges -> Targets \union {None}]
Counting == \A t \in Targets : tasks[t] = IF dials[t] = None THEN 0 ELSE 1
HeldInv == HeldType /\ Counting

LEMMA NamedOnce ==
    /\ None \notin Badges /\ None \notin Targets /\ None \notin Metas
    /\ Targets \subseteq Machines /\ Machines \subseteq Badges /\ Range(Given) \subseteq Machines
    /\ Here \in Range(Given)
    /\ \A m \in Range(Given) : BadgeOf(m) \in Range(Given) \union {None}
    /\ \A t \in Targets : /\ Badge[t] \in Badges /\ t \in Badges
                          /\ t \notin Range(Given) /\ Badge[t] \notin Range(Given)
<1>1. 1 \in DOMAIN Given
    BY MachinesAssumption
<1>2. Here \in Range(Given)
    BY <1>1 DEF Here, Range
<1>3. \A t \in Targets : Badge[t] \in Range(Badge)
    BY MachinesAssumption DEF Range
<1> QED
    BY <1>2, <1>3, MachinesAssumption DEF Badges, Machines, BadgeOf

LEMMA MetaFacts ==
    ASSUME NEW b \in Badges, NEW r \in BOOLEAN
    PROVE  /\ [badge |-> b, reconnect |-> r] \in Metas
           /\ [badge |-> b, reconnect |-> r] # None
<1>1. [badge |-> b, reconnect |-> r] \in Metas
    BY DEF Metas
<1> QED
    BY <1>1, NamedOnce

(* A dial begins where none is in flight.                                   *)
LEMMA SpawnKeeps ==
    ASSUME HeldInv, NEW t \in Targets, NEW b \in Badges, NEW r \in BOOLEAN,
           dials[t] = None, SpawnDial(t, b, r)
    PROVE  /\ dials' \in [Targets -> Metas \union {None}] /\ tasks' \in [Targets -> Nat]
           /\ Counting'
           /\ dials' = [dials EXCEPT ![t] = [badge |-> b, reconnect |-> r]]
<1>1. PICK m : m = [badge |-> b, reconnect |-> r]
    OBVIOUS
<1>2. m \in Metas /\ m # None
    BY <1>1, MetaFacts
<1>3. dials' = [dials EXCEPT ![t] = m] /\ tasks' = [tasks EXCEPT ![t] = tasks[t] + 1]
    BY <1>1 DEF SpawnDial
<1>4. dials' \in [Targets -> Metas \union {None}] /\ tasks' \in [Targets -> Nat]
    BY <1>2, <1>3 DEF HeldInv, HeldType
<1>5. ASSUME NEW u \in Targets
      PROVE  tasks'[u] = IF dials'[u] = None THEN 0 ELSE 1
    BY <1>2, <1>3 DEF HeldInv, HeldType, Counting
<1> QED
    BY <1>1, <1>3, <1>4, <1>5 DEF Counting

(* An answer ends the dial it answers.                                      *)
LEMMA AnsweredKeeps ==
    ASSUME HeldInv, NEW t \in Targets, Answered(t)
    PROVE  /\ dials' \in [Targets -> Metas \union {None}] /\ tasks' \in [Targets -> Nat]
           /\ Counting' /\ dials[t] \in Metas
           /\ dials' = [dials EXCEPT ![t] = None]
<1>1. tasks[t] > 0 /\ tasks' = [tasks EXCEPT ![t] = tasks[t] - 1] /\ dials' = [dials EXCEPT ![t] = None]
    BY DEF Answered
<1>2. dials[t] # None /\ tasks[t] = 1
    BY <1>1 DEF HeldInv, Counting
<1>3. dials' \in [Targets -> Metas \union {None}] /\ tasks' \in [Targets -> Nat]
    BY <1>1, <1>2 DEF HeldInv, HeldType
<1>4. ASSUME NEW u \in Targets
      PROVE  tasks'[u] = IF dials'[u] = None THEN 0 ELSE 1
    BY <1>1, <1>2 DEF HeldInv, HeldType, Counting
<1> QED
    BY <1>1, <1>2, <1>3, <1>4 DEF Counting, HeldInv, HeldType

(* A lost link is dialled again, under the badge it has, or is not.         *)
LEMMA RedialDials ==
    ASSUME HeldInv, NEW d, RedialLost(d)
    PROVE  \/ UNCHANGED <<dials, tasks>>
           \/ \E b \in Badges, t \in Targets :
                /\ specs[b] = t /\ dials[t] = None /\ SpawnDial(t, b, TRUE)
<1>1. PICK b : b = Badged(d)
    OBVIOUS
<1>2. CASE b # None /\ specs[b] # None /\ dials[specs[b]] = None /\ Due(b, sockets[d] \in alive)
    <2>1. b \in Badges
        BY <1>1, <1>2 DEF Badged, HeldInv, HeldType
    <2>2. specs[b] \in Targets
        BY <1>2, <2>1 DEF HeldInv, HeldType
    <2>3. SpawnDial(specs[b], b, TRUE)
        BY <1>1, <1>2 DEF RedialLost
    <2> QED
        BY <1>2, <2>1, <2>2, <2>3
<1>3. CASE ~ (b # None /\ specs[b] # None /\ dials[specs[b]] = None
              /\ Due(b, sockets[d] \in alive))
    BY <1>1, <1>3 DEF RedialLost
<1> QED
    BY <1>2, <1>3

LEMMA LostKeepsHeld ==
    ASSUME HeldInv, NEW d, LostFor(d)
    PROVE  HeldInv' /\ hosts' = hosts
<1>1. hosts' = hosts /\ specs' = specs /\ RedialLost(d)
    BY DEF LostFor
<1>2. CASE UNCHANGED <<dials, tasks>>
    BY <1>1, <1>2 DEF HeldInv, HeldType, Counting
<1>3. ASSUME NEW b \in Badges, NEW t \in Targets, dials[t] = None, SpawnDial(t, b, TRUE)
      PROVE  HeldInv'
    BY <1>1, <1>3, SpawnKeeps DEF HeldInv, HeldType
<1> QED
    BY <1>1, <1>2, <1>3, RedialDials

(* What lands is known by the badge its dial was given; the bar keeps its   *)
(* badges, and may get one more.                                            *)
LEMMA LandsFacts ==
    ASSUME HeldInv, NEW t \in Targets, Lands(t)
    PROVE  \E b \in Badges, r \in BOOLEAN, s \in Sockets :
             /\ dials[t] # None /\ dials[t].badge = b /\ dials[t].reconnect = r
             /\ s \in Unused /\ forwards' = forwards \union {s} /\ alive' = alive \union {s}
             /\ specs' = [specs EXCEPT ![b] = t]
             /\ losses' = [losses EXCEPT ![b] = 0] /\ waiting' = [waiting EXCEPT ![b] = FALSE]
             /\ Landed(b, r, [of |-> t, socket |-> s, up |-> FALSE])
             /\ Answered(t) /\ UNCHANGED <<browse, chosen, bounds>>
<1>1. Answered(t) /\ Unused # {}
    BY DEF Lands
<1>2. dials[t] \in Metas /\ dials[t] # None
    BY <1>1, AnsweredKeeps, NamedOnce
<1>3. dials[t].badge \in Badges /\ dials[t].reconnect \in BOOLEAN
    BY <1>2 DEF Metas
<1>4. PICK s : s = CHOOSE x \in Unused : TRUE
    OBVIOUS
<1>5. s \in Unused /\ s \in Sockets
    BY <1>1, <1>4 DEF Unused
<1>6. /\ forwards' = forwards \union {s} /\ alive' = alive \union {s}
      /\ specs' = [specs EXCEPT ![dials[t].badge] = t]
      /\ losses' = [losses EXCEPT ![dials[t].badge] = 0]
      /\ waiting' = [waiting EXCEPT ![dials[t].badge] = FALSE]
      /\ Landed(dials[t].badge, dials[t].reconnect, [of |-> t, socket |-> s, up |-> FALSE])
      /\ UNCHANGED <<browse, chosen, bounds>>
    BY <1>2, <1>4 DEF Lands
<1> QED
    BY <1>1, <1>2, <1>3, <1>5, <1>6

LEMMA LandedHosts ==
    ASSUME NEW b, NEW r, NEW d, Landed(b, r, d)
    PROVE  hosts' = hosts \/ hosts' = Append(hosts, b)
BY DEF Landed

LEMMA LandsKeepsHeld ==
    ASSUME HeldInv, NEW t \in Targets, Lands(t)
    PROVE  HeldInv' /\ (hosts' = hosts \/ \E b \in Badges : hosts' = Append(hosts, b))
<1>1. PICK b \in Badges : /\ hosts' = hosts \/ hosts' = Append(hosts, b)
                          /\ specs' = [specs EXCEPT ![b] = t] /\ Answered(t)
    BY LandsFacts, LandedHosts
<1>2. hosts' \in Seq(Badges \union {None})
    <2>1. hosts \in Seq(Badges \union {None}) /\ b \in Badges \union {None}
        BY DEF HeldInv, HeldType
    <2> QED
        BY <1>1, <2>1, AppendProperties
<1>3. specs' \in [Badges -> Targets \union {None}]
    BY <1>1 DEF HeldInv, HeldType
<1> QED
    BY <1>1, <1>2, <1>3, AnsweredKeeps DEF HeldInv, HeldType

LEMMA DisconnectKeepsHeld ==
    ASSUME HeldInv, NEW d, Disconnect(d)
    PROVE  HeldInv'
<1>1. /\ Badged(d) # None /\ hosts' = RemoveAt(hosts, d)
      /\ dials' = dials /\ tasks' = tasks /\ specs' = specs
    BY DEF Disconnect, dialVars
<1>2. d \in 1 .. Len(hosts)
    BY <1>1 DEF Badged, HeldInv, HeldType
<1>3. hosts' \in Seq(Badges \union {None})
    BY <1>1, <1>2, Removed DEF HeldInv, HeldType
<1> QED
    BY <1>1, <1>3 DEF HeldInv, HeldType, Counting

LEMMA ConnectKeepsHeld ==
    ASSUME HeldInv, NEW t \in Targets, Connect(t)
    PROVE  HeldInv' /\ hosts' = hosts
<1>1. dials[t] = None /\ SpawnDial(t, t, FALSE) /\ hosts' = hosts /\ specs' = specs
    BY DEF Connect, ShouldDial, bar
<1> QED
    BY <1>1, NamedOnce, SpawnKeeps DEF HeldInv, HeldType

(* Of all the steps only a landing and a disconnect touch the badges.       *)
LEMMA HeldStep ==
    HeldInv /\ [MachinesNext]_machineVars =>
        /\ HeldInv'
        /\ \/ \E d \in DOMAIN daemons : Disconnect(d)
           \/ hosts' = hosts \/ \E b \in Badges : hosts' = Append(hosts, b)
<1> SUFFICES ASSUME HeldInv, [MachinesNext]_machineVars
             PROVE  /\ HeldInv'
                    /\ \/ \E d \in DOMAIN daemons : Disconnect(d)
                       \/ hosts' = hosts \/ \E b \in Badges : hosts' = Append(hosts, b)
    OBVIOUS
<1>1. ASSUME UNCHANGED <<hosts, dials, tasks, specs>>
      PROVE  HeldInv' /\ hosts' = hosts
    BY <1>1 DEF HeldInv, HeldType, Counting
<1>2. ASSUME NEW t \in Targets, DialFails(t) \/ LandsMute(t)
      PROVE  HeldInv' /\ hosts' = hosts
    <2>1. Answered(t) /\ hosts' = hosts /\ specs' = specs
        BY <1>2 DEF DialFails, LandsMute, bar
    <2> QED
        BY <2>1, AnsweredKeeps DEF HeldInv, HeldType
<1>3. ASSUME NEW d \in DOMAIN daemons, StreamDrops(d) \/ RetryFails(d)
      PROVE  HeldInv' /\ hosts' = hosts
    BY <1>3, LostKeepsHeld DEF StreamDrops, RetryFails
<1>4. ASSUME NEW d, Connected(d) \/ Browse(d) \/ WaitEnds(d) \/ SshExits(d)
      PROVE  UNCHANGED <<hosts, dials, tasks, specs>>
    BY <1>4 DEF Connected, Browse, WaitEnds, SshExits, bar, dialVars
<1>5. CASE UNCHANGED machineVars
    <2>1. UNCHANGED <<hosts, dials, tasks, specs>>
        BY <1>5 DEF machineVars, bar, dialVars
    <2> QED
        BY <1>1, <2>1
<1>6. CASE MachinesNext
    BY <1>1, <1>2, <1>3, <1>4, <1>6, ConnectKeepsHeld, LandsKeepsHeld, DisconnectKeepsHeld
       DEF MachinesNext
<1> QED
    BY <1>5, <1>6

LEMMA HeldInit == MachinesInit => HeldInv
<1> SUFFICES ASSUME MachinesInit
             PROVE  HeldInv
    OBVIOUS
<1>1. /\ hosts = [i \in DOMAIN Given |-> BadgeOf(Given[i])]
      /\ dials = [t \in Targets |-> IF t \in Configured
                                    THEN [badge |-> Badge[t], reconnect |-> FALSE] ELSE None]
      /\ tasks = [t \in Targets |-> IF t \in Configured THEN 1 ELSE 0]
      /\ specs = [b \in Badges |-> None]
    BY DEF MachinesInit
<1>2. \A i \in DOMAIN Given : Given[i] \in Range(Given) /\ BadgeOf(Given[i]) \in Badges \union {None}
    BY NamedOnce DEF Range
<1>3. hosts \in Seq(Badges \union {None})
    <2>1. PICK n \in Nat : n = Len(Given) /\ DOMAIN Given = 1 .. n
        BY MachinesAssumption
    <2>2. hosts \in [1 .. n -> Badges \union {None}]
        BY <1>1, <1>2, <2>1
    <2> QED
        BY <2>1, <2>2
<1>4. ASSUME NEW t \in Targets
      PROVE  /\ dials[t] \in Metas \union {None}
             /\ tasks[t] = IF dials[t] = None THEN 0 ELSE 1
    <2>1. PICK m : m = [badge |-> Badge[t], reconnect |-> FALSE]
        OBVIOUS
    <2>2. m \in Metas /\ m # None
        BY <2>1, NamedOnce, MetaFacts
    <2> QED
        BY <1>1, <2>1, <2>2
<1>5. dials \in [Targets -> Metas \union {None}] /\ tasks \in [Targets -> Nat]
    BY <1>1, <1>4
<1>6. specs \in [Badges -> Targets \union {None}]
    BY <1>1
<1> QED
    BY <1>3, <1>4, <1>5, <1>6 DEF HeldInv, HeldType, Counting

LEMMA HeldAlways == MachinesSpec => []HeldInv
<1>1. HeldInv /\ [MachinesNext]_machineVars => HeldInv'
    BY HeldStep
<1> QED
    BY <1>1, HeldInit, PTL DEF MachinesSpec

(* However many announcements, losses and gestures ask for a machine, one   *)
(* dial to it at most is in flight.                                         *)
THEOREM DialsAreSingle == MachinesSpec => []OneDialEach
<1>1. HeldInv => OneDialEach
    <2> SUFFICES ASSUME HeldInv, NEW t \in Targets
                 PROVE  tasks[t] <= 1
        BY DEF OneDialEach
    <2>1. tasks[t] = 0 \/ tasks[t] = 1
        BY DEF HeldInv, Counting
    <2> QED
        BY <2>1
<1> QED
    BY <1>1, HeldAlways, PTL

LEMMA Prefix ==
    ASSUME NEW S, NEW s \in Seq(S), NEW e \in S
    PROVE  IsPrefix(s, s) /\ IsPrefix(s, Append(s, e))
<1>1. /\ Append(s, e) \in Seq(S) /\ Len(Append(s, e)) = Len(s) + 1
      /\ \A i \in 1 .. Len(s) : Append(s, e)[i] = s[i]
    BY AppendProperties
<1> DEFINE a == Append(s, e)
<1> HIDE DEF a
<1>2. a \in Seq(S) /\ Len(a) = Len(s) + 1 /\ \A i \in 1 .. Len(s) : a[i] = s[i]
    BY <1>1 DEF a
<1>3. Len(s) \in Nat /\ 1 \in 1 .. Len(s) + 1 /\ \A i \in 1 .. Len(s) : i \in 1 .. Len(a)
    BY <1>2
<1>4. ASSUME NEW z \in Seq(S), Len(s) <= Len(z), \A i \in 1 .. Len(s) : z[i] = s[i]
      PROVE  /\ SubSeq(z, 1, Len(s)) \in Seq(S) /\ Len(SubSeq(z, 1, Len(s))) = Len(s)
             /\ \A i \in 1 .. Len(s) : SubSeq(z, 1, Len(s))[i] = s[i]
    <2>1. \A i \in 1 .. Len(s) : i \in 1 .. Len(z) /\ z[i] \in S
        BY <1>3, <1>4
    <2>2. /\ SubSeq(z, 1, Len(s)) \in Seq(S)
          /\ Len(SubSeq(z, 1, Len(s))) = IF 1 <= Len(s) THEN Len(s) - 1 + 1 ELSE 0
          /\ \A i \in 1 .. Len(s) - 1 + 1 : SubSeq(z, 1, Len(s))[i] = z[1 + i - 1]
        BY <1>3, <2>1, SubSeqProperties
    <2>3. Len(s) - 1 + 1 = Len(s) /\ \A i \in 1 .. Len(s) : 1 + i - 1 = i
        BY <1>3
    <2>4. Len(SubSeq(z, 1, Len(s))) = Len(s)
        BY <1>3, <2>2
    <2>5. \A i \in 1 .. Len(s) : SubSeq(z, 1, Len(s))[i] = s[i]
        BY <1>4, <2>2, <2>3
    <2> QED
        BY <2>2, <2>4, <2>5
<1>5. ASSUME NEW x \in Seq(S), NEW y \in Seq(S), Len(x) = Len(s), Len(y) = Len(s),
             \A i \in 1 .. Len(s) : x[i] = s[i], \A i \in 1 .. Len(s) : y[i] = s[i]
      PROVE  x = y
    <2>1. DOMAIN x = 1 .. Len(s) /\ DOMAIN y = 1 .. Len(s)
        BY <1>5
    <2>2. \A i \in 1 .. Len(s) : x[i] = y[i]
        BY <1>5
    <2> QED
        BY <1>5, <2>1, <2>2, SeqEqual
<1>6. SubSeq(s, 1, Len(s)) = SubSeq(a, 1, Len(s))
    <2>1. Len(s) <= Len(a) /\ Len(s) <= Len(s)
        BY <1>2, <1>3
    <2> QED
        BY <1>2, <1>4, <1>5, <2>1
<1> QED
    BY <1>2, <1>3, <1>6 DEF IsPrefix, a

(* A machine keeps its place in the bar through loss and return: whatever   *)
(* is not a disconnect leaves the badges as they are or adds one behind.    *)
THEOREM PlacesAreKept == MachinesSpec => KeepsPlace
<1>1. HeldInv /\ [MachinesNext]_machineVars =>
        [(\E d \in DOMAIN daemons : Disconnect(d)) \/ IsPrefix(hosts, hosts')]_machineVars
    <2> SUFFICES ASSUME HeldInv, [MachinesNext]_machineVars, ~ \E d \in DOMAIN daemons : Disconnect(d)
                 PROVE  IsPrefix(hosts, hosts')
        OBVIOUS
    <2>1. hosts' = hosts \/ \E b \in Badges : hosts' = Append(hosts, b)
        BY HeldStep
    <2>2. hosts \in Seq(Badges \union {None})
        BY DEF HeldInv, HeldType
    <2>3. IsPrefix(hosts, hosts)
        BY <2>2, Prefix
    <2>4. \A b \in Badges : IsPrefix(hosts, Append(hosts, b))
        BY <2>2, Prefix
    <2> QED
        BY <2>1, <2>3, <2>4
<1> QED
    BY <1>1, HeldAlways, PTL DEF MachinesSpec, KeepsPlace

-----------------------------------------------------------------------------
(* With names that tell the configured machines apart and every endpoint    *)
(* answering, no landing finds its badge taken, and the slot a machine      *)
(* comes back to is its own: the bar is right whatever happens.             *)
NamesOf(t) == {t, Badge[t]}
NamesApart == \A t, u \in Targets : Badge[t] \in NamesOf(u) => t = u

Dialling ==
    \A t \in Targets : dials[t] # None =>
        /\ dials[t].badge \in NamesOf(t)
        /\ IF dials[t].reconnect THEN specs[dials[t].badge] = t
           ELSE \A i \in DOMAIN hosts : hosts[i] # dials[t].badge
Learned == \A b \in Badges : specs[b] # None => b \in NamesOf(specs[b])

BarInv ==
    MachinesTypeOK /\ Aligned /\ NoTwin /\ BrowseStays /\ Counting /\ Dialling /\ Learned

LEMMA BarHeld == BarInv => HeldInv
BY DEF BarInv, MachinesTypeOK, HeldInv, HeldType

LEMMA Shared ==
    ASSUME NamesApart, NEW t \in Targets, NEW u \in Targets, NEW b,
           b \in NamesOf(t), b \in NamesOf(u)
    PROVE  t = u
BY DEF NamesApart, NamesOf

LEMMA NewDaemon ==
    ASSUME NEW t \in Targets, NEW s \in Sockets
    PROVE  /\ [of |-> t, socket |-> s, up |-> FALSE] \in Daemons
           /\ [of |-> t, socket |-> s, up |-> FALSE].of = t
           /\ [of |-> t, socket |-> s, up |-> FALSE].socket = s
BY NamedOnce DEF Daemons

(* Steps that change no more of the bar than who is up.                     *)
LEMMA BarStands ==
    ASSUME BarInv, UNCHANGED <<hosts, sockets, specs, browse, chosen>>,
           daemons' \in Seq(Daemons), Len(daemons') = Len(daemons),
           \A d \in DOMAIN daemons : /\ daemons'[d].of = daemons[d].of
                                     /\ daemons'[d].socket = daemons[d].socket
    PROVE  /\ Aligned' /\ NoTwin' /\ BrowseStays' /\ Learned'
           /\ browse' \in 0 .. Len(daemons') /\ DOMAIN daemons' = DOMAIN daemons
<1>1. /\ daemons \in Seq(Daemons) /\ browse \in 0 .. Len(daemons)
    BY DEF BarInv, MachinesTypeOK
<1>2. DOMAIN daemons' = DOMAIN daemons /\ DOMAIN daemons = 1 .. Len(daemons) /\ Len(daemons) \in Nat
    BY <1>1
<1>3. Aligned'
    BY <1>2 DEF BarInv, Aligned
<1>4. NoTwin' /\ Learned'
    BY DEF BarInv, NoTwin, Learned
<1>5. BrowseStays'
    <2>1. browse # 0 => browse \in DOMAIN daemons
        BY <1>1, <1>2
    <2> QED
        BY <2>1 DEF BarInv, BrowseStays
<1> QED
    BY <1>1, <1>2, <1>3, <1>4, <1>5

LEMMA BarSame ==
    ASSUME BarInv, UNCHANGED <<bar, specs, browse, chosen>>
    PROVE  /\ Aligned' /\ NoTwin' /\ BrowseStays' /\ Learned'
           /\ UNCHANGED <<daemons, hosts, sockets>>
<1>1. daemons' = daemons /\ hosts' = hosts /\ sockets' = sockets
    BY DEF bar
<1>2. daemons' \in Seq(Daemons) /\ Len(daemons') = Len(daemons)
    BY <1>1 DEF BarInv, MachinesTypeOK
<1> QED
    BY <1>1, <1>2, BarStands

(* A dial in flight is one that has a name of its machine, and, as long as  *)
(* the badges and what was learned of them stand, finds its slot.           *)
LEMMA DiallingKept ==
    ASSUME BarInv, UNCHANGED <<hosts, dials, specs>>
    PROVE  Dialling'
BY DEF BarInv, Dialling

LEMMA DiallingSpawned ==
    ASSUME BarInv, UNCHANGED <<hosts, specs>>,
           NEW t \in Targets, NEW b \in NamesOf(t), NEW r \in BOOLEAN,
           dials' = [dials EXCEPT ![t] = [badge |-> b, reconnect |-> r]],
           IF r THEN specs[b] = t ELSE \A i \in DOMAIN hosts : hosts[i] # b
    PROVE  Dialling'
<1>1. dials \in [Targets -> Metas \union {None}]
    BY DEF BarInv, MachinesTypeOK
<1>2. ASSUME NEW u \in Targets, dials'[u] # None
      PROVE  /\ dials'[u].badge \in NamesOf(u)
             /\ IF dials'[u].reconnect THEN specs'[dials'[u].badge] = u
                ELSE \A i \in DOMAIN hosts' : hosts'[i] # dials'[u].badge
    <2>1. CASE u = t
        BY <1>1, <2>1
    <2>2. CASE u # t
        BY <1>1, <1>2, <2>2 DEF BarInv, Dialling
    <2> QED
        BY <2>1, <2>2
<1> QED
    BY <1>2 DEF Dialling

LEMMA DiallingAnswered ==
    ASSUME BarInv, UNCHANGED <<hosts, specs>>, NEW t \in Targets,
           dials' = [dials EXCEPT ![t] = None]
    PROVE  Dialling'
<1>1. \A u \in Targets : dials'[u] # None => dials'[u] = dials[u]
    BY DEF BarInv, MachinesTypeOK
<1> QED
    BY <1>1 DEF BarInv, Dialling

LEMMA ConnectKeeps ==
    ASSUME BarInv, NEW t \in Targets, Connect(t)
    PROVE  BarInv'
<1>1. /\ ShouldDial(t) /\ SpawnDial(t, t, FALSE)
      /\ UNCHANGED <<bar, links, specs, downed, browse, chosen, bounds>>
    BY DEF Connect
<1>2. /\ dials' \in [Targets -> Metas \union {None}] /\ tasks' \in [Targets -> Nat] /\ Counting'
      /\ dials' = [dials EXCEPT ![t] = [badge |-> t, reconnect |-> FALSE]]
    BY <1>1, BarHeld, SpawnKeeps, NamedOnce DEF ShouldDial
<1>3. Aligned' /\ NoTwin' /\ BrowseStays' /\ Learned' /\ UNCHANGED <<daemons, hosts, sockets>>
    BY <1>1, BarSame
<1>4. \A i \in DOMAIN hosts : hosts[i] # t
    <2>1. hosts \in Seq(Badges \union {None})
        BY DEF BarInv, MachinesTypeOK
    <2> QED
        BY <1>1, <2>1 DEF ShouldDial, Contains
<1>5. Dialling'
    <2>1. t \in NamesOf(t)
        BY DEF NamesOf
    <2> QED
        BY <1>1, <1>2, <1>3, <1>4, <2>1, DiallingSpawned
<1>6. MachinesTypeOK'
    BY <1>1, <1>2, <1>3 DEF BarInv, MachinesTypeOK, links, downed, bounds
<1> QED
    BY <1>2, <1>3, <1>5, <1>6 DEF BarInv

LEMMA DialEndsKeeps ==
    ASSUME BarInv, NEW t \in Targets, DialFails(t) \/ LandsMute(t)
    PROVE  BarInv'
<1>1. Answered(t) /\ UNCHANGED <<bar, specs, downed, browse, chosen, breaks>>
    BY DEF DialFails, LandsMute, bounds
<1>2. /\ dials' \in [Targets -> Metas \union {None}] /\ tasks' \in [Targets -> Nat] /\ Counting'
      /\ dials' = [dials EXCEPT ![t] = None]
    BY <1>1, BarHeld, AnsweredKeeps
<1>3. Aligned' /\ NoTwin' /\ BrowseStays' /\ Learned' /\ UNCHANGED <<daemons, hosts, sockets>>
    BY <1>1, BarSame
<1>4. Dialling'
    BY <1>1, <1>2, <1>3, DiallingAnswered
<1>5. /\ alive' \subseteq forwards' /\ forwards' \subseteq Sockets
      /\ mutes' \in 0 .. MaxMute
    <2>1. /\ alive \subseteq forwards /\ forwards \subseteq Sockets
          /\ mutes \in 0 .. MaxMute
        BY DEF BarInv, MachinesTypeOK
    <2>2. CASE DialFails(t)
        BY <2>1, <2>2 DEF DialFails, links, bounds
    <2>3. CASE LandsMute(t)
        <3>1. PICK s : s = CHOOSE x \in Unused : TRUE
            OBVIOUS
        <3>2. /\ Unused # {} /\ forwards' = forwards \union {s} /\ alive' = alive \union {s}
              /\ mutes < MaxMute /\ mutes' = mutes + 1
            BY <2>3, <3>1 DEF LandsMute
        <3>3. s \in Sockets
            BY <3>1, <3>2 DEF Unused
        <3>4. mutes' \in 0 .. MaxMute
            BY <2>1, <3>2, MachinesAssumption
        <3> QED
            BY <2>1, <3>2, <3>3, <3>4
    <2> QED
        BY <2>2, <2>3
<1>6. MachinesTypeOK'
    BY <1>1, <1>2, <1>3, <1>5 DEF BarInv, MachinesTypeOK, downed
<1> QED
    BY <1>2, <1>3, <1>4, <1>6 DEF BarInv

LEMMA CountedType ==
    ASSUME losses \in [Badges -> 0 .. LossesBeforeRedial], NEW b \in Badges
    PROVE  Counted(b) \in [Badges -> 0 .. LossesBeforeRedial]
BY DEF Counted, LossesBeforeRedial

LEMMA SetUpKeeps ==
    ASSUME BarInv, NEW d \in DOMAIN daemons, NEW b \in BOOLEAN, SetUp(d, b)
    PROVE  /\ daemons' \in Seq(Daemons) /\ Len(daemons') = Len(daemons)
           /\ \A e \in DOMAIN daemons : /\ daemons'[e].of = daemons[e].of
                                        /\ daemons'[e].socket = daemons[e].socket
<1>1. daemons \in Seq(Daemons)
    BY DEF BarInv, MachinesTypeOK
<1>2. daemons[d] \in Daemons
    BY <1>1
<1>3. PICK n : n = [of |-> daemons[d].of, socket |-> daemons[d].socket, up |-> b]
    OBVIOUS
<1>4. n \in Daemons /\ n.of = daemons[d].of /\ n.socket = daemons[d].socket
    BY <1>2, <1>3 DEF Daemons
<1>5. daemons' = [daemons EXCEPT ![d] = n]
    BY <1>3 DEF SetUp
<1>6. daemons' \in Seq(Daemons) /\ Len(daemons') = Len(daemons)
    BY <1>1, <1>4, <1>5
<1> QED
    BY <1>1, <1>4, <1>5, <1>6

LEMMA LostKeeps ==
    ASSUME BarInv, NEW d \in DOMAIN daemons, LostFor(d), breaks' \in 0 .. MaxBreaks
    PROVE  BarInv'
<1>1. /\ SetUp(d, FALSE) /\ RedialLost(d)
      /\ UNCHANGED <<hosts, sockets, specs, browse, chosen, mutes>>
    BY DEF LostFor
<1>2. /\ daemons' \in Seq(Daemons) /\ Len(daemons') = Len(daemons)
      /\ \A e \in DOMAIN daemons : /\ daemons'[e].of = daemons[e].of
                                   /\ daemons'[e].socket = daemons[e].socket
    BY <1>1, SetUpKeeps
<1>3. /\ Aligned' /\ NoTwin' /\ BrowseStays' /\ Learned' /\ browse' \in 0 .. Len(daemons')
    BY <1>1, <1>2, BarStands
<1>4. PICK b : b = Badged(d)
    OBVIOUS
<1>5. b # None => b \in Badges
    BY <1>4 DEF Badged, BarInv, MachinesTypeOK
<1>6. /\ alive' \subseteq forwards' /\ forwards' \subseteq Sockets
      /\ losses' \in [Badges -> 0 .. LossesBeforeRedial] /\ waiting' \in [Badges -> BOOLEAN]
    <2>1. /\ alive \subseteq forwards /\ forwards \subseteq Sockets
          /\ losses \in [Badges -> 0 .. LossesBeforeRedial] /\ waiting \in [Badges -> BOOLEAN]
        BY DEF BarInv, MachinesTypeOK
    <2>2. losses' \in [Badges -> 0 .. LossesBeforeRedial]
        <3>1. losses' = losses \/ (b # None /\ losses' = Counted(b))
            BY <1>1, <1>4 DEF RedialLost, downed
        <3> QED
            BY <1>5, <2>1, <3>1, CountedType
    <2>3. waiting' \in [Badges -> BOOLEAN]
        <3>1. waiting' = waiting \/ waiting' = [waiting EXCEPT ![b] = TRUE]
            BY <1>1, <1>4 DEF RedialLost, downed
        <3> QED
            BY <2>1, <3>1
    <2>4. \/ forwards' = forwards /\ alive' = alive
          \/ forwards' = forwards \ {sockets[d]} /\ alive' = alive \ {sockets[d]}
        BY <1>1, <1>4 DEF RedialLost, links
    <2> QED
        BY <2>1, <2>2, <2>3, <2>4
<1>7. /\ dials' \in [Targets -> Metas \union {None}] /\ tasks' \in [Targets -> Nat]
      /\ Counting' /\ Dialling'
    <2>1. CASE UNCHANGED <<dials, tasks>>
        BY <1>1, <2>1, DiallingKept DEF BarInv, MachinesTypeOK, Counting
    <2>2. ASSUME NEW c \in Badges, NEW t \in Targets,
                 specs[c] = t, dials[t] = None, SpawnDial(t, c, TRUE)
          PROVE  /\ dials' \in [Targets -> Metas \union {None}] /\ tasks' \in [Targets -> Nat]
                 /\ Counting' /\ Dialling'
        <3>1. c \in NamesOf(t)
            BY <2>2, NamedOnce DEF BarInv, Learned
        <3>2. /\ dials' \in [Targets -> Metas \union {None}] /\ tasks' \in [Targets -> Nat]
              /\ Counting' /\ dials' = [dials EXCEPT ![t] = [badge |-> c, reconnect |-> TRUE]]
            BY <2>2, BarHeld, SpawnKeeps
        <3>3. Dialling'
            BY <1>1, <2>2, <3>1, <3>2, DiallingSpawned
        <3> QED
            BY <3>2, <3>3
    <2> QED
        BY <1>1, <2>1, <2>2, BarHeld, RedialDials
<1>8. MachinesTypeOK'
    BY <1>1, <1>2, <1>3, <1>6, <1>7 DEF BarInv, MachinesTypeOK
<1> QED
    BY <1>3, <1>7, <1>8 DEF BarInv

LEMMA LossesKeep ==
    ASSUME BarInv, NEW d \in DOMAIN daemons, StreamDrops(d) \/ RetryFails(d)
    PROVE  BarInv'
<1>1. breaks \in 0 .. MaxBreaks
    BY DEF BarInv, MachinesTypeOK
<1>2. LostFor(d) /\ breaks' \in 0 .. MaxBreaks
    BY <1>1, MachinesAssumption DEF StreamDrops, RetryFails
<1> QED
    BY <1>2, LostKeeps

LEMMA ConnectedKeeps ==
    ASSUME BarInv, NEW d \in DOMAIN daemons, Connected(d)
    PROVE  BarInv'
<1>0. PICK b : b = Badged(d)
    OBVIOUS
<1>1. /\ SetUp(d, TRUE)
      /\ losses' = (IF b = None THEN losses ELSE [losses EXCEPT ![b] = 0])
      /\ waiting' = (IF b = None THEN waiting ELSE [waiting EXCEPT ![b] = FALSE])
      /\ UNCHANGED <<hosts, sockets, forwards, alive, dials, tasks, specs, browse, chosen, breaks, mutes>>
    BY <1>0 DEF Connected, links, dialVars, bounds
<1>2. /\ daemons' \in Seq(Daemons) /\ Len(daemons') = Len(daemons)
      /\ \A e \in DOMAIN daemons : /\ daemons'[e].of = daemons[e].of
                                   /\ daemons'[e].socket = daemons[e].socket
    BY <1>1, SetUpKeeps
<1>3. /\ Aligned' /\ NoTwin' /\ BrowseStays' /\ Learned' /\ browse' \in 0 .. Len(daemons')
    BY <1>1, <1>2, BarStands
<1>4. Dialling' /\ Counting'
    BY <1>1, DiallingKept DEF BarInv, Counting
<1>5. /\ losses' \in [Badges -> 0 .. LossesBeforeRedial] /\ waiting' \in [Badges -> BOOLEAN]
    <2>1. /\ losses \in [Badges -> 0 .. LossesBeforeRedial] /\ waiting \in [Badges -> BOOLEAN]
          /\ 0 \in 0 .. LossesBeforeRedial
        BY DEF BarInv, MachinesTypeOK, LossesBeforeRedial
    <2>2. losses' \in [Badges -> 0 .. LossesBeforeRedial]
        BY <1>1, <2>1
    <2>3. waiting' \in [Badges -> BOOLEAN]
        <3>1. waiting' = waiting \/ waiting' = [waiting EXCEPT ![b] = FALSE]
            BY <1>1
        <3> QED
            BY <2>1, <3>1
    <2> QED
        BY <2>2, <2>3
<1>6. MachinesTypeOK'
    BY <1>1, <1>2, <1>3, <1>5 DEF BarInv, MachinesTypeOK
<1> QED
    BY <1>3, <1>4, <1>6 DEF BarInv

LEMMA BrowseKeeps ==
    ASSUME BarInv, NEW d \in 0 .. Len(daemons), Browse(d)
    PROVE  BarInv'
<1>1. /\ browse' = d /\ chosen' = (IF d = 0 THEN None ELSE daemons[d].of)
      /\ UNCHANGED <<daemons, hosts, sockets, forwards, alive, dials, tasks, specs,
                     losses, waiting, breaks, mutes>>
    BY DEF Browse, bar, links, dialVars, downed, bounds
<1>2. d # 0 => daemons[d].of \in Machines
    <2>1. daemons \in Seq(Daemons)
        BY DEF BarInv, MachinesTypeOK
    <2>2. d # 0 => daemons[d] \in Daemons
        BY <2>1
    <2> QED
        BY <2>2 DEF Daemons
<1>3. MachinesTypeOK'
    BY <1>1, <1>2 DEF BarInv, MachinesTypeOK
<1>4. Aligned' /\ NoTwin' /\ Counting' /\ Learned'
    BY <1>1 DEF BarInv, Aligned, NoTwin, Counting, Learned
<1>5. Dialling' /\ BrowseStays'
    BY <1>1, DiallingKept DEF BrowseStays
<1> QED
    BY <1>3, <1>4, <1>5 DEF BarInv

LEMMA QuietKeeps ==
    ASSUME BarInv, UNCHANGED <<bar, dialVars, losses, browse, chosen, mutes>>,
           waiting' \in [Badges -> BOOLEAN], breaks' \in 0 .. MaxBreaks,
           alive' \subseteq forwards', forwards' = forwards
    PROVE  BarInv'
<1>1. UNCHANGED <<daemons, hosts, sockets, dials, tasks, specs>>
    BY DEF bar, dialVars
<1>2. MachinesTypeOK'
    BY <1>1 DEF BarInv, MachinesTypeOK
<1>3. Aligned' /\ NoTwin' /\ Counting' /\ Learned' /\ BrowseStays'
    BY <1>1 DEF BarInv, Aligned, NoTwin, Counting, Learned, BrowseStays
<1> QED
    BY <1>1, <1>2, <1>3, DiallingKept DEF BarInv

LEMMA OthersKeep ==
    ASSUME BarInv, \/ \E b \in Badges : WaitEnds(b)
                   \/ \E s \in Sockets : SshExits(s)
                   \/ UNCHANGED machineVars
    PROVE  BarInv'
<1>1. /\ waiting \in [Badges -> BOOLEAN] /\ breaks \in 0 .. MaxBreaks
      /\ alive \subseteq forwards
    BY DEF BarInv, MachinesTypeOK
<1>2. ASSUME NEW b \in Badges, WaitEnds(b)
      PROVE  BarInv'
    BY <1>1, <1>2, QuietKeeps DEF WaitEnds, links, bounds
<1>3. ASSUME NEW s \in Sockets, SshExits(s)
      PROVE  BarInv'
    <2>1. breaks' \in 0 .. MaxBreaks
        BY <1>1, <1>3, MachinesAssumption DEF SshExits
    <2> QED
        BY <1>1, <1>3, <2>1, QuietKeeps DEF SshExits, downed
<1>4. CASE UNCHANGED machineVars
    BY <1>1, <1>4, QuietKeeps DEF machineVars, links, downed, bounds
<1> QED
    BY <1>2, <1>3, <1>4

(* A machine that comes back takes its own slot.                            *)
LEMMA LandsInSlot ==
    ASSUME BarInv, NEW t \in Targets, NEW b \in NamesOf(t), NEW s \in Sockets,
           NEW i \in DOMAIN hosts, hosts[i] = b, specs[b] = t,
           daemons' = [daemons EXCEPT ![i] = [of |-> t, socket |-> s, up |-> FALSE]],
           sockets' = [sockets EXCEPT ![i] = s],
           specs' = [specs EXCEPT ![b] = t],
           dials' = [dials EXCEPT ![t] = None],
           UNCHANGED <<hosts, browse, chosen>>
    PROVE  /\ daemons' \in Seq(Daemons) /\ sockets' \in Seq(Machines \union Sockets)
           /\ hosts' \in Seq(Badges \union {None}) /\ browse' \in 0 .. Len(daemons')
           /\ Aligned' /\ NoTwin' /\ BrowseStays' /\ Dialling' /\ Learned'
<1>1. PICK n : n = [of |-> t, socket |-> s, up |-> FALSE]
    OBVIOUS
<1>2. n \in Daemons /\ n.of = t /\ n.socket = s
    BY <1>1, NewDaemon
<1>3. /\ daemons \in Seq(Daemons) /\ sockets \in Seq(Machines \union Sockets)
      /\ hosts \in Seq(Badges \union {None}) /\ browse \in 0 .. Len(daemons)
      /\ specs \in [Badges -> Targets \union {None}]
      /\ Len(hosts) = Len(daemons) /\ Len(sockets) = Len(daemons)
    BY DEF BarInv, MachinesTypeOK, Aligned
<1>4. i \in 1 .. Len(daemons) /\ DOMAIN daemons = 1 .. Len(daemons) /\ DOMAIN sockets = 1 .. Len(daemons)
    BY <1>3
<1>5. /\ daemons' = [daemons EXCEPT ![i] = n]
      /\ daemons' \in Seq(Daemons) /\ Len(daemons') = Len(daemons)
      /\ sockets' \in Seq(Machines \union Sockets) /\ Len(sockets') = Len(sockets)
    BY <1>1, <1>2, <1>3
<1>6. specs' = specs
    BY <1>3
<1>7. ASSUME NEW d \in DOMAIN daemons'
      PROVE  /\ sockets'[d] = daemons'[d].socket
             /\ IF daemons'[d].of \in Targets THEN specs'[hosts'[d]] = daemons'[d].of
                ELSE hosts'[d] = BadgeOf(daemons'[d].of)
    <2>1. d \in DOMAIN daemons /\ d \in DOMAIN sockets
        BY <1>3, <1>5
    <2>2. CASE d = i
        BY <1>2, <1>4, <1>5, <1>6, <2>1, <2>2
    <2>3. CASE d # i
        BY <1>5, <1>6, <2>1, <2>3 DEF BarInv, Aligned
    <2> QED
        BY <2>2, <2>3
<1>8. Aligned'
    BY <1>3, <1>5, <1>7 DEF Aligned
<1>9. daemons[i].of = t
    <2>1. daemons[i].of \in Machines
        <3>1. daemons[i] \in Daemons
            BY <1>3, <1>4
        <3> QED
            BY <3>1 DEF Daemons
    <2>2. CASE daemons[i].of \in Targets
        BY <1>4, <2>2 DEF BarInv, Aligned
    <2>3. CASE daemons[i].of \in Range(Given) /\ daemons[i].of \notin Targets
        <3>1. b = BadgeOf(daemons[i].of)
            BY <1>4, <2>3 DEF BarInv, Aligned
        <3>2. b \in Range(Given) \union {None}
            BY <2>3, <3>1, NamedOnce
        <3> QED
            BY <3>2, NamedOnce DEF NamesOf
    <2> QED
        BY <2>1, <2>2, <2>3 DEF Machines
<1>10. BrowseStays'
    <2>1. browse # 0 => browse \in DOMAIN daemons
        BY <1>3, <1>4
    <2>2. browse # 0 => daemons'[browse].of = daemons[browse].of
        BY <1>2, <1>5, <1>9, <2>1
    <2> QED
        BY <2>2 DEF BarInv, BrowseStays
<1>11. NoTwin' /\ Learned' /\ Dialling'
    BY <1>6, DiallingAnswered DEF BarInv, NoTwin, Learned
<1> QED
    BY <1>3, <1>5, <1>8, <1>10, <1>11

(* A machine that is new, or whose place went while it was dialled, comes   *)
(* last, under a badge nobody has.                                          *)
LEMMA LandsBehind ==
    ASSUME BarInv, NamesApart, NEW t \in Targets, NEW b \in NamesOf(t), NEW s \in Sockets,
           b \in Badges, \A i \in DOMAIN hosts : hosts[i] # b,
           daemons' = Append(daemons, [of |-> t, socket |-> s, up |-> FALSE]),
           hosts' = Append(hosts, b), sockets' = Append(sockets, s),
           specs' = [specs EXCEPT ![b] = t],
           dials' = [dials EXCEPT ![t] = None],
           UNCHANGED <<browse, chosen>>
    PROVE  /\ daemons' \in Seq(Daemons) /\ sockets' \in Seq(Machines \union Sockets)
           /\ hosts' \in Seq(Badges \union {None}) /\ browse' \in 0 .. Len(daemons')
           /\ Aligned' /\ NoTwin' /\ BrowseStays' /\ Dialling' /\ Learned'
<1>1. PICK n : n = [of |-> t, socket |-> s, up |-> FALSE]
    OBVIOUS
<1>2. n \in Daemons /\ n.of = t /\ n.socket = s
    BY <1>1, NewDaemon
<1>3. /\ daemons \in Seq(Daemons) /\ sockets \in Seq(Machines \union Sockets)
      /\ hosts \in Seq(Badges \union {None}) /\ browse \in 0 .. Len(daemons)
      /\ specs \in [Badges -> Targets \union {None}]
      /\ dials \in [Targets -> Metas \union {None}]
      /\ Len(hosts) = Len(daemons) /\ Len(sockets) = Len(daemons)
    BY DEF BarInv, MachinesTypeOK, Aligned
<1>4. PICK k \in Nat : k = Len(daemons)
    BY <1>3
<1>5. /\ DOMAIN daemons = 1 .. k /\ DOMAIN hosts = 1 .. k /\ DOMAIN sockets = 1 .. k
    BY <1>3, <1>4
<1>6. /\ daemons' \in Seq(Daemons) /\ Len(daemons') = k + 1 /\ DOMAIN daemons' = 1 .. k + 1
      /\ daemons'[k + 1] = n /\ \A i \in 1 .. k : daemons'[i] = daemons[i]
    <2>1. daemons' = Append(daemons, n)
        BY <1>1
    <2> QED
        BY <1>2, <1>3, <1>4, <2>1, AppendProperties
<1>7. /\ hosts' \in Seq(Badges \union {None}) /\ Len(hosts') = k + 1 /\ DOMAIN hosts' = 1 .. k + 1
      /\ hosts'[k + 1] = b /\ \A i \in 1 .. k : hosts'[i] = hosts[i]
    BY <1>3, <1>4, AppendProperties
<1>8. /\ sockets' \in Seq(Machines \union Sockets) /\ Len(sockets') = k + 1
      /\ sockets'[k + 1] = s /\ \A i \in 1 .. k : sockets'[i] = sockets[i]
    BY <1>3, <1>4, AppendProperties
<1>9. specs'[b] = t /\ \A c \in Badges : c # b => specs'[c] = specs[c]
    BY <1>3
<1>10. \A i \in 1 .. k + 1 : i = k + 1 \/ i \in 1 .. k
    OBVIOUS
<1>11. ASSUME NEW d \in 1 .. k + 1
       PROVE  /\ sockets'[d] = daemons'[d].socket
              /\ IF daemons'[d].of \in Targets THEN specs'[hosts'[d]] = daemons'[d].of
                 ELSE hosts'[d] = BadgeOf(daemons'[d].of)
    <2>1. CASE d = k + 1
        BY <1>2, <1>6, <1>7, <1>8, <1>9, <2>1
    <2>2. CASE d \in 1 .. k
        <3>1. /\ sockets[d] = daemons[d].socket
              /\ IF daemons[d].of \in Targets THEN specs[hosts[d]] = daemons[d].of
                 ELSE hosts[d] = BadgeOf(daemons[d].of)
            BY <1>5, <2>2 DEF BarInv, Aligned
        <3>2. /\ sockets'[d] = sockets[d] /\ daemons'[d] = daemons[d] /\ hosts'[d] = hosts[d]
              /\ hosts[d] # b
            BY <1>5, <1>6, <1>7, <1>8, <2>2
        <3>3. specs' [hosts[d]] = specs[hosts[d]]
            BY <1>3, <3>2
        <3> QED
            BY <3>1, <3>2, <3>3
    <2> QED
        BY <1>10, <2>1, <2>2
<1>12. Aligned'
    BY <1>6, <1>7, <1>8, <1>11 DEF Aligned
<1>13. NoTwin'
    <2>1. \A i, j \in 1 .. k : hosts[i] = hosts[j] => i = j
        BY <1>5 DEF BarInv, NoTwin, IsInjective
    <2>2. ASSUME NEW i \in 1 .. k + 1, NEW j \in 1 .. k + 1, hosts'[i] = hosts'[j]
          PROVE  i = j
        BY <1>5, <1>7, <1>10, <2>1, <2>2
    <2> QED
        BY <1>7, <2>2 DEF NoTwin, IsInjective
<1>14. BrowseStays' /\ browse' \in 0 .. Len(daemons')
    <2>1. browse' \in 0 .. k + 1 /\ (browse # 0 => browse \in 1 .. k)
        BY <1>3, <1>4
    <2> QED
        BY <1>6, <2>1 DEF BarInv, BrowseStays
<1>15. Learned'
    BY <1>9 DEF BarInv, Learned
<1>16. ASSUME NEW u \in Targets, dials'[u] # None
       PROVE  /\ dials'[u].badge \in NamesOf(u)
              /\ IF dials'[u].reconnect THEN specs'[dials'[u].badge] = u
                 ELSE \A i \in DOMAIN hosts' : hosts'[i] # dials'[u].badge
    <2>1. u # t /\ dials'[u] = dials[u]
        BY <1>3, <1>16
    <2>2. /\ dials[u].badge \in NamesOf(u)
          /\ IF dials[u].reconnect THEN specs[dials[u].badge] = u
             ELSE \A i \in DOMAIN hosts : hosts[i] # dials[u].badge
        BY <1>16, <2>1 DEF BarInv, Dialling
    <2>3. dials[u].badge # b
        BY <2>1, <2>2, Shared
    <2>4. specs'[dials[u].badge] = specs[dials[u].badge]
        BY <1>3, <2>3
    <2>5. ASSUME ~ dials[u].reconnect, NEW i \in 1 .. k + 1
          PROVE  hosts'[i] # dials[u].badge
        BY <1>5, <1>7, <1>10, <2>2, <2>3, <2>5
    <2> QED
        BY <1>7, <2>1, <2>2, <2>4, <2>5
<1>17. Dialling'
    BY <1>16 DEF Dialling
<1> QED
    BY <1>6, <1>7, <1>8, <1>12, <1>13, <1>14, <1>15, <1>17

LEMMA LandsKeeps ==
    ASSUME BarInv, NamesApart, NEW t \in Targets, Lands(t)
    PROVE  BarInv'
<1>1. PICK b \in Badges, r \in BOOLEAN, s \in Sockets :
             /\ dials[t] # None /\ dials[t].badge = b /\ dials[t].reconnect = r
             /\ s \in Unused /\ forwards' = forwards \union {s} /\ alive' = alive \union {s}
             /\ specs' = [specs EXCEPT ![b] = t]
             /\ losses' = [losses EXCEPT ![b] = 0] /\ waiting' = [waiting EXCEPT ![b] = FALSE]
             /\ Landed(b, r, [of |-> t, socket |-> s, up |-> FALSE])
             /\ Answered(t) /\ UNCHANGED <<browse, chosen, bounds>>
    BY BarHeld, LandsFacts
<1>2. /\ dials' \in [Targets -> Metas \union {None}] /\ tasks' \in [Targets -> Nat] /\ Counting'
      /\ dials' = [dials EXCEPT ![t] = None]
    BY <1>1, BarHeld, AnsweredKeeps
<1>3. /\ b \in NamesOf(t)
      /\ IF r THEN specs[b] = t ELSE \A i \in DOMAIN hosts : hosts[i] # b
    BY <1>1 DEF BarInv, Dialling
<1>4. PICK n : n = [of |-> t, socket |-> s, up |-> FALSE]
    OBVIOUS
<1>5. n.socket = s
    BY <1>4
<1>6. \/ /\ r /\ \E i \in DOMAIN hosts : /\ hosts[i] = b
                                         /\ daemons' = [daemons EXCEPT ![i] = n]
                                         /\ sockets' = [sockets EXCEPT ![i] = s]
         /\ hosts' = hosts
      \/ /\ ~ (r /\ \E i \in DOMAIN hosts : hosts[i] = b)
         /\ daemons' = Append(daemons, n) /\ hosts' = Append(hosts, b)
         /\ sockets' = Append(sockets, s)
    <2>1. Landed(b, r, n)
        BY <1>1, <1>4
    <2>2. CASE r /\ {i \in DOMAIN hosts : hosts[i] = b} # {}
        BY <1>5, <2>1, <2>2 DEF Landed
    <2>3. CASE ~ (r /\ {i \in DOMAIN hosts : hosts[i] = b} # {})
        BY <1>5, <2>1, <2>3 DEF Landed
    <2> QED
        BY <2>2, <2>3
<1>7. /\ daemons' \in Seq(Daemons) /\ sockets' \in Seq(Machines \union Sockets)
      /\ hosts' \in Seq(Badges \union {None}) /\ browse' \in 0 .. Len(daemons')
      /\ Aligned' /\ NoTwin' /\ BrowseStays' /\ Dialling' /\ Learned'
    <2>1. ASSUME r, NEW i \in DOMAIN hosts, hosts[i] = b,
                 daemons' = [daemons EXCEPT ![i] = n], sockets' = [sockets EXCEPT ![i] = s],
                 hosts' = hosts
          PROVE  /\ daemons' \in Seq(Daemons) /\ sockets' \in Seq(Machines \union Sockets)
                 /\ hosts' \in Seq(Badges \union {None}) /\ browse' \in 0 .. Len(daemons')
                 /\ Aligned' /\ NoTwin' /\ BrowseStays' /\ Dialling' /\ Learned'
        <3>1. specs[b] = t
            BY <1>3, <2>1
        <3> QED
            BY <1>1, <1>2, <1>3, <1>4, <2>1, <3>1, LandsInSlot
    <2>2. CASE /\ ~ (r /\ \E i \in DOMAIN hosts : hosts[i] = b)
               /\ daemons' = Append(daemons, n) /\ hosts' = Append(hosts, b)
               /\ sockets' = Append(sockets, s)
        <3>1. \A i \in DOMAIN hosts : hosts[i] # b
            BY <1>3, <2>2
        <3> QED
            BY <1>1, <1>2, <1>3, <1>4, <2>2, <3>1, LandsBehind
    <2> QED
        BY <1>6, <2>1, <2>2
<1>8. /\ alive' \subseteq forwards' /\ forwards' \subseteq Sockets
      /\ specs' \in [Badges -> Targets \union {None}]
      /\ losses' \in [Badges -> 0 .. LossesBeforeRedial] /\ waiting' \in [Badges -> BOOLEAN]
      /\ chosen' \in Machines \union {None} /\ breaks' \in 0 .. MaxBreaks /\ mutes' \in 0 .. MaxMute
    BY <1>1 DEF BarInv, MachinesTypeOK, LossesBeforeRedial, bounds
<1>9. MachinesTypeOK'
    BY <1>2, <1>7, <1>8 DEF MachinesTypeOK
<1> QED
    BY <1>2, <1>7, <1>9 DEF BarInv

(* What is behind a machine that leaves moves up, in the three alike, and   *)
(* with it whoever was said to be browsed.                                  *)
LEMMA DisconnectKeeps ==
    ASSUME BarInv, NEW d \in DOMAIN daemons, Disconnect(d)
    PROVE  BarInv'
<1>1. /\ Badged(d) # None
      /\ forwards' = forwards \ {sockets[d]} /\ alive' = alive \ {sockets[d]}
      /\ daemons' = RemoveAt(daemons, d)
      /\ hosts' = RemoveAt(hosts, d) /\ sockets' = RemoveAt(sockets, d)
      /\ browse' = AfterRemoval(browse, d)
      /\ chosen' = (IF browse' = 0 THEN None ELSE chosen)
      /\ UNCHANGED <<dials, tasks, specs, losses, waiting, breaks, mutes>>
    BY DEF Disconnect, dialVars, downed, bounds
<1>2. /\ daemons \in Seq(Daemons) /\ sockets \in Seq(Machines \union Sockets)
      /\ hosts \in Seq(Badges \union {None}) /\ browse \in 0 .. Len(daemons)
      /\ Len(hosts) = Len(daemons) /\ Len(sockets) = Len(daemons)
    BY DEF BarInv, MachinesTypeOK, Aligned
<1>3. PICK k \in Nat : k = Len(daemons)
    BY <1>2
<1>4. /\ DOMAIN daemons = 1 .. k /\ DOMAIN hosts = 1 .. k /\ DOMAIN sockets = 1 .. k
      /\ d \in 1 .. k
    BY <1>2, <1>3
<1> DEFINE slot(i) == IF i < d THEN i ELSE i + 1
<1>a. d \in 1 .. Len(daemons) /\ d \in 1 .. Len(hosts) /\ d \in 1 .. Len(sockets)
      /\ Len(hosts) = k /\ Len(sockets) = k
    BY <1>2, <1>3, <1>4
<1>5. /\ daemons' \in Seq(Daemons) /\ Len(daemons') = k - 1
      /\ \A i \in 1 .. k - 1 : daemons'[i] = daemons[slot(i)]
    BY <1>1, <1>2, <1>3, <1>4, Removed
<1>6. /\ hosts' \in Seq(Badges \union {None}) /\ Len(hosts') = k - 1
      /\ \A i \in 1 .. k - 1 : hosts'[i] = hosts[slot(i)]
    <2>1. PICK S : S = Badges \union {None}
        OBVIOUS
    <2>2. hosts \in Seq(S) /\ d \in 1 .. Len(hosts)
        BY <1>2, <1>a, <2>1
    <2>3. /\ RemoveAt(hosts, d) \in Seq(S) /\ Len(RemoveAt(hosts, d)) = Len(hosts) - 1
          /\ \A i \in 1 .. Len(hosts) - 1 : RemoveAt(hosts, d)[i] = IF i < d THEN hosts[i] ELSE hosts[i + 1]
        BY <2>2, Removed
    <2>4. \A i : hosts[slot(i)] = IF i < d THEN hosts[i] ELSE hosts[i + 1]
        OBVIOUS
    <2> HIDE DEF slot
    <2> QED
        BY <1>1, <1>a, <2>1, <2>3, <2>4
<1>7. /\ sockets' \in Seq(Machines \union Sockets) /\ Len(sockets') = k - 1
      /\ \A i \in 1 .. k - 1 : sockets'[i] = sockets[slot(i)]
    <2>1. PICK S : S = Machines \union Sockets
        OBVIOUS
    <2>2. sockets \in Seq(S) /\ d \in 1 .. Len(sockets)
        BY <1>2, <1>a, <2>1
    <2>3. /\ RemoveAt(sockets, d) \in Seq(S) /\ Len(RemoveAt(sockets, d)) = Len(sockets) - 1
          /\ \A i \in 1 .. Len(sockets) - 1 : RemoveAt(sockets, d)[i] = IF i < d THEN sockets[i] ELSE sockets[i + 1]
        BY <2>2, Removed
    <2>4. \A i : sockets[slot(i)] = IF i < d THEN sockets[i] ELSE sockets[i + 1]
        OBVIOUS
    <2> HIDE DEF slot
    <2> QED
        BY <1>1, <1>a, <2>1, <2>3, <2>4
<1>8. \A i \in 1 .. k - 1 : slot(i) \in 1 .. k
    BY <1>4
<1>9. k - 1 \in Nat /\ DOMAIN daemons' = 1 .. k - 1 /\ DOMAIN hosts' = 1 .. k - 1
    BY <1>4, <1>5, <1>6
<1>10. /\ browse' \in 0 .. k - 1
       /\ browse' # 0 => browse # 0 /\ browse' \in 1 .. k - 1 /\ slot(browse') = browse
    BY <1>1, <1>2, <1>3, <1>4 DEF AfterRemoval
<1> HIDE DEF slot
<1>11. Aligned'
    <2>1. ASSUME NEW i \in 1 .. k - 1
          PROVE  /\ sockets'[i] = daemons'[i].socket
                 /\ IF daemons'[i].of \in Targets THEN specs'[hosts'[i]] = daemons'[i].of
                    ELSE hosts'[i] = BadgeOf(daemons'[i].of)
        <3>1. slot(i) \in DOMAIN daemons
            BY <1>4, <1>8
        <3>2. /\ sockets[slot(i)] = daemons[slot(i)].socket
              /\ IF daemons[slot(i)].of \in Targets THEN specs[hosts[slot(i)]] = daemons[slot(i)].of
                 ELSE hosts[slot(i)] = BadgeOf(daemons[slot(i)].of)
            BY <3>1 DEF BarInv, Aligned
        <3> QED
            BY <1>1, <1>5, <1>6, <1>7, <3>2
    <2> QED
        BY <1>5, <1>6, <1>7, <1>9, <2>1 DEF Aligned
<1>12. NoTwin'
    BY <1>1, <1>2, <1>3, <1>4, RemovedInjective DEF BarInv, NoTwin
<1>13. BrowseStays'
    BY <1>1, <1>5, <1>10 DEF BarInv, BrowseStays
<1>14. Dialling'
    <2>1. ASSUME NEW u \in Targets, dials[u] # None, ~ dials[u].reconnect,
                 NEW i \in 1 .. k - 1
          PROVE  hosts'[i] # dials[u].badge
        BY <1>4, <1>6, <1>8, <2>1 DEF BarInv, Dialling
    <2> QED
        BY <1>1, <1>9, <2>1 DEF BarInv, Dialling
<1>15. Counting' /\ Learned'
    BY <1>1 DEF BarInv, Counting, Learned
<1>16. MachinesTypeOK'
    BY <1>1, <1>5, <1>6, <1>7, <1>10 DEF BarInv, MachinesTypeOK
<1> QED
    BY <1>11, <1>12, <1>13, <1>14, <1>15, <1>16 DEF BarInv

LEMMA BarStep ==
    ASSUME NamesApart
    PROVE  BarInv /\ [MachinesNext]_machineVars => BarInv'
<1> SUFFICES ASSUME BarInv, [MachinesNext]_machineVars
             PROVE  BarInv'
    OBVIOUS
<1>1. CASE UNCHANGED machineVars
    BY <1>1, OthersKeep
<1>2. CASE \E t \in Targets : Connect(t) \/ DialFails(t) \/ LandsMute(t) \/ Lands(t)
    BY <1>2, ConnectKeeps, DialEndsKeeps, LandsKeeps
<1>3. CASE \E d \in DOMAIN daemons :
             StreamDrops(d) \/ RetryFails(d) \/ Connected(d) \/ Disconnect(d)
    BY <1>3, LossesKeep, ConnectedKeeps, DisconnectKeeps
<1>4. CASE \E d \in 0 .. Len(daemons) : Browse(d)
    BY <1>4, BrowseKeeps
<1>5. CASE (\E b \in Badges : WaitEnds(b)) \/ (\E s \in Sockets : SshExits(s))
    BY <1>5, OthersKeep
<1> QED
    BY <1>1, <1>2, <1>3, <1>4, <1>5 DEF MachinesNext

LEMMA BarInit ==
    ASSUME ~ MayBeDown
    PROVE  MachinesInit => BarInv
<1> SUFFICES ASSUME MachinesInit
             PROVE  BarInv
    OBVIOUS
<1>1. /\ hosts = [i \in DOMAIN Given |-> BadgeOf(Given[i])] /\ sockets = Given
      /\ daemons = [i \in DOMAIN Given |-> [of |-> Given[i], socket |-> Given[i], up |-> FALSE]]
      /\ forwards = {} /\ alive = {}
      /\ dials = [t \in Targets |-> IF t \in Configured
                                    THEN [badge |-> Badge[t], reconnect |-> FALSE] ELSE None]
      /\ specs = [b \in Badges |-> None]
      /\ losses = [b \in Badges |-> 0] /\ waiting = [b \in Badges |-> FALSE]
      /\ browse = 0 /\ chosen = None /\ breaks = 0 /\ mutes = 0
    BY DEF MachinesInit
<1>2. HeldInv
    BY HeldInit
<1>3. PICK k \in Nat : k = Len(Given) /\ DOMAIN Given = 1 .. k
    BY MachinesAssumption
<1>4. \A i \in 1 .. k : Given[i] \in Range(Given) /\ Given[i] \in Machines
    BY <1>3, NamedOnce DEF Range
<1>5. /\ daemons \in Seq(Daemons) /\ Len(daemons) = k /\ DOMAIN daemons = 1 .. k
      /\ \A i \in 1 .. k : daemons[i].of = Given[i] /\ daemons[i].socket = Given[i]
    <2>1. daemons \in [1 .. k -> Daemons]
        BY <1>1, <1>3, <1>4 DEF Daemons
    <2> QED
        BY <1>1, <1>3, <2>1
<1>6. Len(hosts) = k /\ DOMAIN hosts = 1 .. k /\ \A i \in 1 .. k : hosts[i] = BadgeOf(Given[i])
    BY <1>1, <1>2, <1>3 DEF HeldInv, HeldType
<1>7. sockets \in Seq(Machines \union Sockets) /\ Len(sockets) = k
    <2>1. Given \in [1 .. k -> Machines \union Sockets]
        <3>1. Given \in Seq(Machines)
            BY MachinesAssumption
        <3> QED
            BY <1>3, <1>4, <3>1
    <2>2. Given \in Seq(Machines \union Sockets)
        BY <1>3, <2>1
    <2> QED
        BY <1>1, <1>3, <2>2
<1>8. MachinesTypeOK
    BY <1>1, <1>2, <1>5, <1>7, MachinesAssumption
       DEF HeldInv, HeldType, MachinesTypeOK, LossesBeforeRedial
<1>9. Aligned
    <2>1. \A i \in 1 .. k : daemons[i].of \notin Targets
        BY <1>4, <1>5, NamedOnce
    <2> QED
        BY <1>1, <1>5, <1>6, <1>7, <2>1 DEF Aligned
<1>10. NoTwin
    <2>1. \A i, j \in 1 .. k : Given[i] = Given[j] => i = j
        BY <1>3, MachinesAssumption DEF IsInjective
    <2>2. \A m, n \in Range(Given) : BadgeOf(m) = BadgeOf(n) => m = n
        BY NamedOnce DEF BadgeOf
    <2>3. ASSUME NEW i \in 1 .. k, NEW j \in 1 .. k, hosts[i] = hosts[j]
          PROVE  i = j
        BY <1>4, <1>6, <2>1, <2>2, <2>3
    <2> QED
        BY <1>6, <2>3 DEF NoTwin, IsInjective
<1>11. Dialling
    <2> SUFFICES ASSUME NEW t \in Targets, dials[t] # None
                 PROVE  /\ dials[t].badge \in NamesOf(t)
                        /\ IF dials[t].reconnect THEN specs[dials[t].badge] = t
                           ELSE \A i \in DOMAIN hosts : hosts[i] # dials[t].badge
        BY DEF Dialling
    <2>1. dials[t].badge = Badge[t] /\ ~ dials[t].reconnect
        BY <1>1
    <2>2. \A i \in 1 .. k : hosts[i] # Badge[t]
        BY <1>4, <1>6, NamedOnce
    <2> QED
        BY <1>6, <2>1, <2>2 DEF NamesOf
<1>12. Learned /\ BrowseStays
    BY <1>1 DEF Learned, BrowseStays
<1> QED
    BY <1>2, <1>8, <1>9, <1>10, <1>11, <1>12 DEF BarInv, HeldInv

(* Where every endpoint answers at the start and no two machines share a    *)
(* name, the three sequences of the bar speak of the same machine at every  *)
(* index, no badge is there twice, and what is held by index means the      *)
(* machine it was said of.                                                  *)
THEOREM BarStaysRight ==
    ASSUME NamesApart, ~ MayBeDown
    PROVE  MachinesSpec => []BarIsRight
<1>1. BarInv => BarIsRight
    <2> SUFFICES ASSUME BarInv
                 PROVE  OneDialEach
        BY DEF BarInv, BarIsRight
    <2>1. \A t \in Targets : tasks[t] = 0 \/ tasks[t] = 1
        BY DEF BarInv, Counting
    <2> QED
        BY <2>1 DEF OneDialEach
<1>2. BarInv /\ [MachinesNext]_machineVars => BarInv'
    BY BarStep
<1>3. MachinesInit => BarInv
    BY BarInit
<1> QED
    BY <1>1, <1>2, <1>3, PTL DEF MachinesSpec
-----------------------------------------------------------------------------
(* Views: the table of remembered pages, which has one line of a key.       *)
Unique(s) == \A i, j \in DOMAIN s : s[i].key = s[j].key => i = j
Tables == {s \in Seq(ViewLines) : Len(s) <= ViewsCap /\ Unique(s)}

LEMMA PageIs ==
    ASSUME NEW s \in Seq(ViewLines), Unique(s), NEW i \in 1 .. Len(s), NEW k, s[i].key = k
    PROVE  PageFor(s, k) = s[i].page
<1>1. i \in Of(s, k)
    BY DEF Of
<1>2. PICK m \in Of(s, k) : m = CHOOSE j \in Of(s, k) : TRUE
    BY <1>1
<1>3. m = i
    BY <1>2 DEF Of, Unique
<1> QED
    BY <1>1, <1>2, <1>3 DEF PageFor

LEMMA PageIsKnown ==
    ASSUME NEW s \in Seq(ViewLines), NEW k
    PROVE  PageFor(s, k) \in Spaces \union {Unknown}
<1>1. CASE Of(s, k) = {}
    BY <1>1 DEF PageFor
<1>2. CASE Of(s, k) # {}
    <2>1. PICK m \in Of(s, k) : m = CHOOSE j \in Of(s, k) : TRUE
        BY <1>2
    <2>2. s[m] \in ViewLines
        BY <2>1 DEF Of
    <2> QED
        BY <1>2, <2>1, <2>2 DEF PageFor, ViewLines
<1> QED
    BY <1>1, <1>2

(* A key that is taken out is gone, and everything else is still there.     *)
LEMMA WithoutKey ==
    ASSUME NEW s \in Tables, NEW k
    PROVE  /\ Without(s, k) \in Tables
           /\ \A i \in 1 .. Len(Without(s, k)) :
                  /\ Without(s, k)[i].key # k
                  /\ \E m \in 1 .. Len(s) : Without(s, k)[i] = s[m]
           /\ \A m \in 1 .. Len(s) : s[m].key # k =>
                  \E i \in 1 .. Len(Without(s, k)) : Without(s, k)[i] = s[m]
<1>0. s \in Seq(ViewLines) /\ Len(s) <= ViewsCap /\ Unique(s) /\ ViewsCap \in Nat
    BY ViewsAssumption DEF Tables
<1>1. CASE Of(s, k) = {}
    BY <1>0, <1>1 DEF Without, Of, Tables
<1>2. CASE Of(s, k) # {}
    <2>1. PICK j \in Of(s, k) : j = CHOOSE i \in Of(s, k) : TRUE
        BY <1>2
    <2>2. j \in 1 .. Len(s) /\ s[j].key = k
        BY <2>1, <1>0 DEF Of
    <2> DEFINE r == RemoveAt(s, j)
               slot(i) == IF i < j THEN i ELSE i + 1
    <2>3. Without(s, k) = r
        BY <1>2, <2>1 DEF Without
    <2>4. /\ r \in Seq(ViewLines) /\ Len(r) = Len(s) - 1
          /\ \A i \in 1 .. Len(s) - 1 : r[i] = s[slot(i)]
        BY <1>0, <2>2, Removed
    <2> HIDE DEF r
    <2>5. Len(s) \in Nat /\ j \in Int /\ 1 <= j /\ j <= Len(s)
        BY <1>0, <2>2
    <2>6. \A i \in 1 .. Len(s) - 1 : slot(i) \in 1 .. Len(s) /\ slot(i) # j
        BY <2>5
    <2>7. \A i, n \in 1 .. Len(s) - 1 : slot(i) = slot(n) => i = n
        BY <2>5
    <2>8. \A m \in 1 .. Len(s) : m # j => \E i \in 1 .. Len(s) - 1 : slot(i) = m
        <3> TAKE m \in 1 .. Len(s)
        <3> HAVE m # j
        <3>1. CASE m < j
            BY <2>5, <3>1
        <3>2. CASE m > j
            <4>1. m - 1 \in 1 .. Len(s) - 1 /\ slot(m - 1) = m
                BY <2>5, <3>2
            <4> QED
                BY <4>1
        <3> QED
            BY <2>5, <3>1, <3>2
    <2> HIDE DEF slot
    <2>9. Unique(r)
        <3> SUFFICES ASSUME NEW i \in DOMAIN r, NEW n \in DOMAIN r, r[i].key = r[n].key PROVE i = n
            BY DEF Unique
        <3>1. i \in 1 .. Len(s) - 1 /\ n \in 1 .. Len(s) - 1
            BY <2>4
        <3>2. s[slot(i)].key = s[slot(n)].key /\ slot(i) \in DOMAIN s /\ slot(n) \in DOMAIN s
            BY <1>0, <2>4, <2>6, <3>1
        <3> QED
            BY <1>0, <2>7, <3>1, <3>2 DEF Unique
    <2>10. ASSUME NEW i \in 1 .. Len(r)
           PROVE  r[i].key # k /\ \E m \in 1 .. Len(s) : r[i] = s[m]
        <3>1. i \in 1 .. Len(s) - 1
            BY <2>4
        <3>2. r[i] = s[slot(i)] /\ slot(i) \in 1 .. Len(s) /\ slot(i) # j
            BY <2>4, <2>6, <3>1
        <3>3. slot(i) \in DOMAIN s /\ j \in DOMAIN s
            BY <1>0, <2>2, <3>2
        <3>4. s[slot(i)].key # k
            BY <1>0, <2>2, <3>2, <3>3 DEF Unique
        <3> QED
            BY <3>2, <3>4
    <2>11. ASSUME NEW m \in 1 .. Len(s), s[m].key # k
           PROVE  \E i \in 1 .. Len(r) : r[i] = s[m]
        BY <2>2, <2>4, <2>8, <2>11
    <2> QED
        BY <1>0, <2>3, <2>4, <2>5, <2>9, <2>10, <2>11 DEF Tables
<1> QED
    BY <1>1, <1>2

(* A table without some key is below a cap that has room for all.           *)
LEMMA RoomForAll ==
    ASSUME NEW s \in Tables, NEW k \in Keys, Cardinality(Keys) <= ViewsCap,
           \A i \in 1 .. Len(s) : s[i].key # k
    PROVE  Len(s) < ViewsCap
<1>1. s \in Seq(ViewLines) /\ Unique(s) /\ ViewsCap \in Nat /\ IsFiniteSet(Keys)
    BY ViewsAssumption DEF Tables
<1> DEFINE rest == Keys \ {k}
           f == [i \in 1 .. Len(s) |-> s[i].key]
<1>2. IsFiniteSet(rest) /\ Cardinality(rest) = Cardinality(Keys) - 1 /\ Cardinality(Keys) \in Nat
    BY <1>1, FS_RemoveElement, FS_CardinalityType
<1>3. Len(s) \in Nat /\ IsFiniteSet(1 .. Len(s)) /\ Cardinality(1 .. Len(s)) = Len(s)
    <2>1. Len(s) \in Nat
        BY <1>1
    <2>2. 1 \in Int /\ Len(s) \in Int /\ (1 > Len(s) => Len(s) = 0) /\ Len(s) - 1 + 1 = Len(s)
        BY <2>1
    <2> QED
        BY <2>1, <2>2, FS_Interval
<1>4. f \in [1 .. Len(s) -> rest]
    <2>1. ASSUME NEW i \in 1 .. Len(s) PROVE s[i].key \in rest
        <3>1. s[i] \in ViewLines
            BY <1>1
        <3> QED
            BY <3>1 DEF ViewLines
    <2> QED
        BY <2>1
<1>5. ASSUME Cardinality(rest) < Cardinality(1 .. Len(s)) PROVE FALSE
    <2>1. \E i, j \in 1 .. Len(s) : i # j /\ f[i] = f[j]
        <3> HIDE DEF f, rest
        <3> QED
            BY <1>2, <1>3, <1>4, <1>5, FS_PigeonHole
    <2> QED
        BY <1>1, <2>1 DEF Unique
<1> QED
    BY <1>1, <1>2, <1>3, <1>5

(* What save_view_at makes of a table: a table with the line, and where all *)
(* keys have room the lines of the rest.                                  *)
LEMMA EditedFacts ==
    ASSUME NEW s \in Tables, NEW l \in ViewLines
    PROVE  /\ Edited(s, l) \in Tables
           /\ Cardinality(Keys) <= ViewsCap => \A k \in Keys :
                  PageFor(Edited(s, l), k) = IF k = l.key THEN l.page ELSE PageFor(s, k)
<1> DEFINE r == Without(s, l.key)
           t == IF Len(r) >= ViewsCap THEN Tail(r) ELSE r
           e == Append(t, l)
<1>1. Edited(s, l) = e
    BY DEF Edited
<1>2. ViewsCap \in Nat \ {0} /\ l.key \in Keys /\ l.page \in Spaces
    BY ViewsAssumption DEF ViewLines
<1>3. /\ r \in Seq(ViewLines) /\ Len(r) <= ViewsCap /\ Unique(r)
      /\ \A i \in 1 .. Len(r) : r[i].key # l.key /\ \E m \in 1 .. Len(s) : r[i] = s[m]
      /\ \A m \in 1 .. Len(s) : s[m].key # l.key => \E i \in 1 .. Len(r) : r[i] = s[m]
    BY WithoutKey DEF Tables
<1>r. r \in Tables
    BY WithoutKey
<1> HIDE DEF r
<1>4. /\ t \in Seq(ViewLines) /\ Len(t) < ViewsCap /\ Unique(t)
      /\ \A i \in 1 .. Len(t) : t[i].key # l.key
    <2>1. CASE Len(r) >= ViewsCap
        <3>1. r # << >> /\ Len(r) \in Nat /\ Len(r) = ViewsCap
            BY <1>2, <1>3, <2>1
        <3>2. /\ Tail(r) \in Seq(ViewLines) /\ Len(Tail(r)) = Len(r) - 1
              /\ \A i \in 1 .. Len(r) - 1 : Tail(r)[i] = r[i + 1]
            BY <1>3, <3>1, HeadTailProperties
        <3>3. \A i \in 1 .. Len(r) - 1 : i + 1 \in 1 .. Len(r)
            BY <3>1
        <3>4. \A i, j \in 1 .. Len(r) - 1 : i + 1 = j + 1 => i = j
            OBVIOUS
        <3>5. DOMAIN Tail(r) = 1 .. Len(r) - 1 /\ DOMAIN r = 1 .. Len(r)
            BY <1>3, <3>2
        <3>6. Unique(Tail(r))
            BY <1>3, <3>2, <3>3, <3>4, <3>5 DEF Unique
        <3> QED
            BY <1>3, <2>1, <3>1, <3>2, <3>3, <3>6
    <2>2. CASE ~ (Len(r) >= ViewsCap)
        <3>1. Len(r) \in Nat
            BY <1>3
        <3> QED
            BY <1>2, <1>3, <2>2, <3>1
    <2> QED
        BY <2>1, <2>2
<1>5. Cardinality(Keys) <= ViewsCap => t = r
    <2>1. Len(r) \in Nat
        BY <1>3
    <2>2. Cardinality(Keys) <= ViewsCap => Len(r) < ViewsCap
        BY <1>r, <1>2, <1>3, RoomForAll
    <2> QED
        BY <1>2, <2>1, <2>2
<1> HIDE DEF t
<1>6. /\ e \in Seq(ViewLines) /\ Len(e) = Len(t) + 1
      /\ \A i \in 1 .. Len(t) : e[i] = t[i]
      /\ e[Len(t) + 1] = l
    BY <1>4, AppendProperties
<1> HIDE DEF e
<1>7. Len(t) \in Nat /\ DOMAIN t = 1 .. Len(t) /\ DOMAIN e = 1 .. Len(t) + 1
    BY <1>4, <1>6
<1>8. Unique(e)
    <2> SUFFICES ASSUME NEW i \in DOMAIN e, NEW j \in DOMAIN e, e[i].key = e[j].key PROVE i = j
        BY DEF Unique
    <2>1. (i \in 1 .. Len(t) \/ i = Len(t) + 1) /\ (j \in 1 .. Len(t) \/ j = Len(t) + 1)
        BY <1>7
    <2> QED
        BY <1>4, <1>6, <1>7, <2>1 DEF Unique
<1>9. e \in Tables
    BY <1>2, <1>4, <1>6, <1>7, <1>8 DEF Tables
<1>10. ASSUME Cardinality(Keys) <= ViewsCap, NEW k \in Keys
       PROVE  PageFor(e, k) = IF k = l.key THEN l.page ELSE PageFor(s, k)
    <2>0. s \in Seq(ViewLines) /\ Unique(s) /\ t = r
        BY <1>5, <1>10 DEF Tables
    <2>1. CASE k = l.key
        <3>1. Len(t) + 1 \in 1 .. Len(e) /\ e[Len(t) + 1].key = k
            BY <1>6, <1>7, <2>1
        <3> QED
            BY <1>6, <1>8, <2>1, <3>1, PageIs
    <2>2. CASE k # l.key /\ Of(s, k) # {}
        <3>1. PICK m \in 1 .. Len(s) : s[m].key = k
            BY <2>0, <2>2 DEF Of
        <3>2. PICK i \in 1 .. Len(t) : t[i] = s[m]
            BY <1>3, <2>0, <2>2, <3>1
        <3>3. i \in 1 .. Len(e) /\ e[i] = s[m]
            BY <1>6, <1>7, <3>2
        <3>4. PageFor(e, k) = e[i].page
            BY <1>6, <1>8, <3>1, <3>3, PageIs
        <3>5. PageFor(s, k) = s[m].page
            BY <2>0, <3>1, PageIs
        <3> QED
            BY <2>2, <3>3, <3>4, <3>5
    <2>3. CASE k # l.key /\ Of(s, k) = {}
        <3>1. \A m \in 1 .. Len(s) : s[m].key # k
            BY <2>0, <2>3 DEF Of
        <3>2. \A i \in 1 .. Len(t) : e[i].key # k
            BY <1>3, <1>6, <2>0, <3>1
        <3>3. \A i \in DOMAIN e : e[i].key # k
            <4> TAKE i \in DOMAIN e
            <4>1. i \in 1 .. Len(t) \/ i = Len(t) + 1
                BY <1>7
            <4> QED
                BY <1>6, <2>3, <3>2, <4>1
        <3>4. Of(e, k) = {}
            BY <3>3 DEF Of
        <3> QED
            BY <2>3, <3>4 DEF PageFor
    <2> QED
        BY <2>1, <2>2, <2>3
<1> QED
    BY <1>1, <1>9, <1>10

(* owe: the queue stays within its cap and holds the line, and what it      *)
(* held of others or holds no more.                                         *)
LEMMA OwingFacts ==
    ASSUME NEW s \in Seq(ViewLines), Len(s) <= OwedCap, NEW l \in ViewLines
    PROVE  /\ Owing(s, l) \in Seq(ViewLines) /\ Len(Owing(s, l)) <= OwedCap
           /\ \E i \in 1 .. Len(Owing(s, l)) : Owing(s, l)[i] = l
           /\ \A i \in 1 .. Len(Owing(s, l)) : Owing(s, l)[i] = l \/
                  (Owing(s, l)[i].key # l.key /\ \E m \in 1 .. Len(s) : Owing(s, l)[i] = s[m])
<1>0. OwedCap \in Nat \ {0} /\ Len(s) \in Nat /\ DOMAIN s = 1 .. Len(s)
    BY ViewsAssumption
<1>1. CASE Of(s, l.key) # {}
    <2> DEFINE r == [i \in DOMAIN s |-> IF s[i].key = l.key THEN l ELSE s[i]]
    <2>1. Owing(s, l) = r
        BY <1>1 DEF Owing
    <2>2. /\ r \in Seq(ViewLines) /\ Len(r) = Len(s)
          /\ \A i \in 1 .. Len(s) : r[i] = IF s[i].key = l.key THEN l ELSE s[i]
        BY <1>0
    <2>3. PICK m \in 1 .. Len(s) : s[m].key = l.key
        BY <1>0, <1>1 DEF Of
    <2> HIDE DEF r
    <2> QED
        BY <2>1, <2>2, <2>3
<1>2. CASE Of(s, l.key) = {}
    <2> DEFINE t == IF Len(s) = OwedCap THEN Tail(s) ELSE s
               r == Append(t, l)
    <2>1. Owing(s, l) = r
        BY <1>2 DEF Owing
    <2>2. \A m \in 1 .. Len(s) : s[m].key # l.key
        BY <1>0, <1>2 DEF Of
    <2>3. /\ t \in Seq(ViewLines) /\ Len(t) < OwedCap
          /\ \A i \in 1 .. Len(t) : \E m \in 1 .. Len(s) : t[i] = s[m]
        <3>1. CASE Len(s) = OwedCap
            <4>1. s # << >>
                BY <1>0, <3>1
            <4>2. /\ Tail(s) \in Seq(ViewLines) /\ Len(Tail(s)) = Len(s) - 1
                  /\ \A i \in 1 .. Len(s) - 1 : Tail(s)[i] = s[i + 1]
                BY <4>1, HeadTailProperties
            <4>3. \A i \in 1 .. Len(s) - 1 : i + 1 \in 1 .. Len(s)
                BY <1>0
            <4>4. Len(Tail(s)) < OwedCap
                BY <1>0, <3>1, <4>2
            <4>5. \A i \in 1 .. Len(Tail(s)) : \E m \in 1 .. Len(s) : Tail(s)[i] = s[m]
                BY <4>2, <4>3
            <4> QED
                BY <3>1, <4>2, <4>4, <4>5
        <3>2. CASE Len(s) # OwedCap
            <4>1. Len(s) < OwedCap
                <5>1. OwedCap \in Nat /\ Len(s) \in Nat /\ Len(s) <= OwedCap /\ Len(s) # OwedCap
                    BY <1>0, <3>2
                <5> QED
                    BY <5>1
            <4> QED
                BY <3>2, <4>1
        <3> QED
            BY <3>1, <3>2
    <2> HIDE DEF t
    <2>4. /\ r \in Seq(ViewLines) /\ Len(r) = Len(t) + 1
          /\ \A i \in 1 .. Len(t) : r[i] = t[i]
          /\ r[Len(t) + 1] = l
        BY <2>3, AppendProperties
    <2>5. Len(t) \in Nat
        BY <2>3
    <2> HIDE DEF r
    <2>6. \A i \in 1 .. Len(r) : i \in 1 .. Len(t) \/ i = Len(t) + 1
        BY <2>4, <2>5
    <2>7. Len(r) <= OwedCap /\ Len(t) + 1 \in 1 .. Len(r)
        BY <1>0, <2>3, <2>4, <2>5
    <2>8. \A i \in 1 .. Len(r) : r[i] = l \/ (r[i].key # l.key /\ \E m \in 1 .. Len(s) : r[i] = s[m])
        <3> TAKE i \in 1 .. Len(r)
        <3>1. CASE i \in 1 .. Len(t)
            <4>1. PICK m \in 1 .. Len(s) : t[i] = s[m]
                BY <2>3, <3>1
            <4>2. r[i] = s[m] /\ s[m].key # l.key
                BY <2>2, <2>4, <3>1, <4>1
            <4> QED
                BY <4>2
        <3>2. CASE i = Len(t) + 1
            BY <2>4, <3>2
        <3> QED
            BY <2>6, <3>1, <3>2
    <2> QED
        BY <2>1, <2>4, <2>7, <2>8
<1> QED
    BY <1>1, <1>2

-----------------------------------------------------------------------------
(* What is remembered is owed or written, the line that is owed is of the   *)
(* page that is remembered, what is owed outside of a flush is due; and a   *)
(* client that is alone writes what the file holds and its line.            *)
ViewsShape ==
    /\ file \in Tables /\ (beside = Absent \/ beside \in Tables)
    /\ seen \in [Windows -> [Keys -> Spaces \union {Unknown}]]
    /\ landed \in [Windows -> [Keys -> Spaces \union {Unknown}]]
    /\ owed \in [Windows -> Seq(ViewLines)]
    /\ onScreen \in [Windows -> [key : Keys \union {Unknown}, page : Spaces \union {Elsewhere}]]
    /\ at \in [Windows -> {"loop", "take", "arm", "flush", "gone", "open", "write", "rename"}]
    /\ after \in [Windows -> {"take", "arm", "gone"}]
    /\ due \in [Windows -> {"no", "armed", "past"}] /\ doc \in [Windows -> Tables]
    /\ fd \in [Windows -> {"none", "beside", "file", "old"}]
    /\ pushedOut \in [Windows -> SUBSET Keys] /\ misread \in [Windows -> BOOLEAN]

Saving(c) == at[c] \in {"open", "write", "rename"}
KeptFor(c, k) ==
    \/ at[c] = "gone" \/ k \in pushedOut[c] \/ seen[c][k] = Unknown \/ landed[c][k] = seen[c][k]
    \/ \E i \in 1 .. Len(owed[c]) : owed[c][i] = ViewLine(k, seen[c][k])

WindowOK(c) ==
    /\ Len(owed[c]) <= OwedCap
    /\ onScreen[c].page \in Spaces => onScreen[c].key \in Keys
    /\ \A i \in 1 .. Len(owed[c]) : seen[c][owed[c][i].key] = owed[c][i].page
    /\ Saving(c) => owed[c] # << >>
    /\ at[c] = "loop" /\ owed[c] # << >> => due[c] # "no"
    /\ \A k \in Keys : KeptFor(c, k)

IsAlone == Cardinality(Windows) = 1 /\ Cardinality(Keys) <= ViewsCap
AloneOK(c) ==
    \/ misread[c]
    \/ /\ Saving(c) => doc[c] = Edited(file, Head(owed[c]))
       /\ at[c] = "write" => fd[c] = "beside"
       /\ at[c] = "rename" => beside = doc[c]
       /\ \A k \in Keys : PageFor(file, k) = landed[c][k]

ViewsInv ==
    /\ ViewsShape /\ \A c \in Windows : WindowOK(c)
    /\ IsAlone => \A c \in Windows : AloneOK(c)

(* One client moves, and the memory of the others is where it was.          *)
Still(d) ==
    /\ seen'[d] = seen[d] /\ landed'[d] = landed[d] /\ owed'[d] = owed[d]
    /\ onScreen'[d] = onScreen[d] /\ at'[d] = at[d] /\ due'[d] = due[d]
    /\ pushedOut'[d] = pushedOut[d] /\ misread'[d] = misread[d]

LEMMA OneMoves ==
    ASSUME ViewsInv, NEW c \in Windows, ViewsShape', WindowOK(c)', IsAlone => AloneOK(c)',
           \A d \in Windows \ {c} : Still(d)
    PROVE  ViewsInv'
<1>1. ASSUME NEW d \in Windows, d # c PROVE WindowOK(d)'
    <2>1. Still(d) /\ WindowOK(d)
        BY <1>1 DEF ViewsInv
    <2>2. ASSUME NEW k \in Keys PROVE KeptFor(d, k)'
        BY <2>1 DEF KeptFor, Still, WindowOK
    <2> QED
        BY <2>1, <2>2 DEF WindowOK, Still, Saving
<1>2. ASSUME IsAlone, NEW d \in Windows PROVE d = c
    BY <1>2, ViewsAssumption, FS_Singleton DEF IsAlone
<1>3. IsAlone => \A d \in Windows : AloneOK(d)'
    BY <1>2
<1>4. IsAlone' = IsAlone
    BY DEF IsAlone
<1> QED
    BY <1>1, <1>3, <1>4 DEF ViewsInv

LEMMA HeadOwed ==
    ASSUME ViewsInv, NEW c \in Windows, owed[c] # << >>
    PROVE  /\ Head(owed[c]) \in ViewLines /\ Len(owed[c]) \in Nat \ {0}
           /\ Head(owed[c]) = owed[c][1]
           /\ Tail(owed[c]) \in Seq(ViewLines) /\ Len(Tail(owed[c])) = Len(owed[c]) - 1
           /\ \A i \in 1 .. Len(owed[c]) - 1 : Tail(owed[c])[i] = owed[c][i + 1]
<1>1. owed[c] \in Seq(ViewLines)
    BY DEF ViewsInv, ViewsShape
<1>2. Len(owed[c]) \in Nat \ {0} /\ Head(owed[c]) = owed[c][1]
    BY <1>1
<1> QED
    BY <1>1, <1>2, HeadTailProperties

LEMMA EmptyIsATable == << >> \in Tables
<1>1. << >> \in Seq(ViewLines) /\ Len(<< >>) = 0 /\ DOMAIN << >> = {}
    OBVIOUS
<1> QED
    BY <1>1, ViewsAssumption DEF Tables, Unique

LEMMA OneLineIsATable ==
    ASSUME NEW l \in ViewLines
    PROVE  <<l>> \in Tables
<1>1. <<l>> \in Seq(ViewLines) /\ Len(<<l>>) = 1 /\ DOMAIN <<l>> = {1}
    OBVIOUS
<1> QED
    BY <1>1, ViewsAssumption DEF Tables, Unique

LEMMA PassRemembers ==
    ASSUME ViewsInv, NEW c \in Windows, SomePass(c)
    PROVE  ViewsInv'
<1>1. PICK k \in Keys, p \in Spaces \union {Elsewhere} : Pass(c, k, p)
    BY DEF SomePass
<1>2. ViewsShape /\ WindowOK(c) /\ (IsAlone => AloneOK(c))
    BY DEF ViewsInv
<1>3. /\ at[c] = "loop" /\ (at' = [at EXCEPT ![c] = "flush"] \/ at' = [at EXCEPT ![c] = "take"])
      /\ (after' = [after EXCEPT ![c] = "take"] \/ after' = after)
      /\ onScreen' = [onScreen EXCEPT ![c] = ViewLine(k, p)]
      /\ UNCHANGED <<file, beside, seen, owed, failing, due, doc, fd, landed, pushedOut, misread>>
    BY <1>1 DEF Pass, Flushes, Goes, queue, editing, history
<1>4. ViewsShape'
    BY <1>2, <1>3 DEF ViewsShape, ViewLine
<1>5. at'[c] \in {"flush", "take"} /\ onScreen'[c] = ViewLine(k, p)
    BY <1>2, <1>3 DEF ViewsShape
<1>6. WindowOK(c)'
    BY <1>2, <1>3, <1>5 DEF WindowOK, KeptFor, Saving, ViewLine
<1>7. IsAlone => AloneOK(c)'
    BY <1>2, <1>3, <1>5 DEF AloneOK, Saving
<1>8. \A d \in Windows \ {c} : Still(d)
    BY <1>2, <1>3 DEF Still, ViewsShape
<1> QED
    BY <1>4, <1>6, <1>7, <1>8, OneMoves

LEMMA TakeKeeps ==
    ASSUME ViewsInv, NEW c \in Windows, Take(c)
    PROVE  ViewsInv'
<1> DEFINE l == onScreen[c]
           news == l.page \in Spaces /\ seen[c][l.key] # l.page
           owing == IF news THEN Owing(owed[c], l) ELSE owed[c]
           let == {k \in Keys : Of(owing, k) = {} /\ (k \in pushedOut[c] \/ Of(owed[c], k) # {})}
<1>1. ViewsShape /\ WindowOK(c) /\ (IsAlone => AloneOK(c))
    BY DEF ViewsInv
<1>2. /\ owed[c] \in Seq(ViewLines) /\ Len(owed[c]) <= OwedCap
      /\ \A i \in 1 .. Len(owed[c]) : seen[c][owed[c][i].key] = owed[c][i].page
      /\ news => l \in ViewLines
    BY <1>1 DEF ViewsShape, WindowOK, ViewLines
<1>3. /\ at[c] = "take"
      /\ seen' = IF news THEN [seen EXCEPT ![c][l.key] = l.page] ELSE seen
      /\ owed' = [owed EXCEPT ![c] = owing]
      /\ pushedOut' = [pushedOut EXCEPT ![c] = let]
      /\ at' = [at EXCEPT ![c] = "flush"] \/ at' = [at EXCEPT ![c] = "arm"]
      /\ after' = [after EXCEPT ![c] = "arm"] \/ after' = after
      /\ UNCHANGED <<file, beside, due, onScreen, doc, fd, landed, misread>>
    BY DEF Take, Flushes, Goes, editing
<1>4. /\ owing \in Seq(ViewLines) /\ Len(owing) <= OwedCap
      /\ news => \E i \in 1 .. Len(owing) : owing[i] = l
      /\ \A i \in 1 .. Len(owing) : (news /\ owing[i] = l) \/
             ((news => owing[i].key # l.key) /\ \E m \in 1 .. Len(owed[c]) : owing[i] = owed[c][m])
    <2>1. CASE news
        <3>1. owing = Owing(owed[c], l) /\ l \in ViewLines
            BY <1>2, <2>1
        <3> HIDE DEF owing, news, l
        <3> DEFINE o == Owing(owed[c], l)
        <3>2. /\ o \in Seq(ViewLines) /\ Len(o) <= OwedCap
              /\ \E i \in 1 .. Len(o) : o[i] = l
              /\ \A i \in 1 .. Len(o) : o[i] = l \/
                     (o[i].key # l.key /\ \E m \in 1 .. Len(owed[c]) : o[i] = owed[c][m])
            BY <1>2, <3>1, OwingFacts
        <3> HIDE DEF o
        <3>3. owing = o
            BY <3>1 DEF o
        <3> QED
            BY <2>1, <3>2, <3>3
    <2>2. CASE ~ news
        <3>1. owing = owed[c]
            BY <2>2
        <3> HIDE DEF owing, news, l
        <3> QED
            BY <1>2, <2>2, <3>1
    <2> QED
        BY <2>1, <2>2
<1>5. /\ owed'[c] = owing /\ pushedOut'[c] = let /\ at'[c] \in {"flush", "arm"}
      /\ \A k \in Keys : seen'[c][k] = IF news /\ k = l.key THEN l.page ELSE seen[c][k]
    BY <1>1, <1>2, <1>3 DEF ViewsShape, ViewLines
<1>6. ViewsShape'
    <2>1. seen' \in [Windows -> [Keys -> Spaces \union {Unknown}]]
        BY <1>1, <1>2, <1>3 DEF ViewsShape, ViewLines
    <2>2. owed' \in [Windows -> Seq(ViewLines)]
        BY <1>1, <1>3, <1>4 DEF ViewsShape
    <2>3. pushedOut' \in [Windows -> SUBSET Keys]
        BY <1>1, <1>3 DEF ViewsShape
    <2>4. /\ at' \in [Windows -> {"loop", "take", "arm", "flush", "gone", "open", "write", "rename"}]
          /\ after' \in [Windows -> {"take", "arm", "gone"}]
        BY <1>1, <1>3 DEF ViewsShape
    <2> QED
        BY <1>1, <1>3, <2>1, <2>2, <2>3, <2>4 DEF ViewsShape
<1>7. \A d \in Windows \ {c} : Still(d)
    BY <1>1, <1>2, <1>3 DEF Still, ViewsShape, ViewLines
<1>8. IsAlone => AloneOK(c)'
    BY <1>1, <1>3, <1>5 DEF AloneOK, Saving
<1>9. \A i \in 1 .. Len(owing) : owing[i].key \in Keys /\ seen'[c][owing[i].key] = owing[i].page
    <2> SUFFICES ASSUME NEW i \in 1 .. Len(owing)
                 PROVE  owing[i].key \in Keys /\ seen'[c][owing[i].key] = owing[i].page
        OBVIOUS
    <2>1. owing[i] \in ViewLines
        BY <1>4
    <2>2. owing[i].key \in Keys
        BY <2>1 DEF ViewLines
    <2> HIDE DEF owing, news, l
    <2>3. CASE news /\ owing[i] = l
        BY <1>5, <2>2, <2>3
    <2>4. CASE (news => owing[i].key # l.key) /\ \E m \in 1 .. Len(owed[c]) : owing[i] = owed[c][m]
        <3>1. PICK m \in 1 .. Len(owed[c]) : owing[i] = owed[c][m]
            BY <2>4
        <3>2. seen[c][owing[i].key] = owing[i].page
            BY <1>2, <3>1
        <3> QED
            BY <1>5, <2>2, <2>4, <3>2
    <2> QED
        BY <1>4, <2>3, <2>4
<1>10. ASSUME NEW k \in Keys PROVE KeptFor(c, k)'
    <2>1. CASE Of(owing, k) # {}
        <3>1. PICK i \in 1 .. Len(owing) : owing[i].key = k
            BY <1>4, <2>1 DEF Of
        <3>2. owing[i] \in ViewLines
            BY <1>4
        <3>3. owing[i] = ViewLine(k, seen'[c][k])
            BY <1>9, <3>1, <3>2 DEF ViewLines, ViewLine
        <3> HIDE DEF owing
        <3> QED
            BY <1>5, <3>1, <3>3 DEF KeptFor, ViewLine
    <2>2. CASE Of(owing, k) = {}
        <3>1. ~ (news /\ k = l.key)
            BY <1>4, <2>2 DEF Of
        <3>2. seen'[c][k] = seen[c][k]
            BY <1>5, <3>1
        <3>3. k \in pushedOut[c] \/ Of(owed[c], k) # {} => k \in pushedOut'[c]
            BY <1>5, <2>2
        <3>4. \/ k \in pushedOut[c] \/ landed[c][k] = seen[c][k] \/ Of(owed[c], k) # {}
              \/ seen[c][k] = Unknown
            <4>1. KeptFor(c, k) /\ at[c] # "gone"
                BY <1>1, <1>3 DEF WindowOK
            <4>2. DOMAIN owed[c] = 1 .. Len(owed[c])
                BY <1>2
            <4> QED
                BY <4>1, <4>2 DEF KeptFor, Of, ViewLine
        <3> HIDE DEF owing, let, news, l
        <3> QED
            BY <1>3, <3>2, <3>3, <3>4 DEF KeptFor
    <2> QED
        BY <2>1, <2>2
<1>11. WindowOK(c)'
    <2>1. Len(owed'[c]) <= OwedCap
        BY <1>4, <1>5
    <2>2. \A i \in 1 .. Len(owed'[c]) : seen'[c][owed'[c][i].key] = owed'[c][i].page
        BY <1>5, <1>9
    <2>3. onScreen'[c].page \in Spaces => onScreen'[c].key \in Keys
        BY <1>1, <1>3 DEF WindowOK
    <2>4. at'[c] \in {"flush", "arm"}
        BY <1>5
    <2> HIDE DEF l, news, owing, let
    <2> QED
        BY <1>10, <2>1, <2>2, <2>3, <2>4 DEF WindowOK, Saving
<1> QED
    BY <1>6, <1>7, <1>8, <1>11, OneMoves

LEMMA ArmKeeps ==
    ASSUME ViewsInv, NEW c \in Windows, Arm(c) \/ Elapses(c)
    PROVE  ViewsInv'
<1>1. ViewsShape /\ WindowOK(c) /\ (IsAlone => AloneOK(c))
    BY DEF ViewsInv
<1>2. UNCHANGED <<file, beside, seen, owed, onScreen, after, doc, fd, landed, pushedOut, misread>>
    BY DEF Arm, Elapses, editing, history
<1>3. \/ /\ at[c] = "arm" /\ at' = [at EXCEPT ![c] = "loop"]
         /\ due' = [due EXCEPT ![c] = IF owed[c] # << >> /\ due[c] = "no" THEN "armed" ELSE due[c]]
      \/ /\ due[c] = "armed" /\ due' = [due EXCEPT ![c] = "past"] /\ at' = at
    BY DEF Arm, Elapses, Goes
<1>4. ViewsShape'
    BY <1>1, <1>2, <1>3 DEF ViewsShape
<1>5. \/ at'[c] = "loop" /\ (owed[c] # << >> => due'[c] # "no")
      \/ at'[c] = at[c] /\ due'[c] = "past"
    BY <1>1, <1>3 DEF ViewsShape
<1>6. at[c] \in {"arm"} \/ at'[c] = at[c]
    BY <1>3
<1>7. WindowOK(c)'
    BY <1>1, <1>2, <1>5, <1>6 DEF WindowOK, KeptFor, Saving
<1>8. IsAlone => AloneOK(c)'
    BY <1>1, <1>2, <1>5, <1>6 DEF AloneOK, Saving
<1>9. \A d \in Windows \ {c} : Still(d)
    BY <1>1, <1>2, <1>3 DEF Still, ViewsShape
<1> QED
    BY <1>4, <1>7, <1>8, <1>9, OneMoves

LEMMA FlushKeeps ==
    ASSUME ViewsInv, NEW c \in Windows, Flush(c)
    PROVE  ViewsInv'
<1>1. ViewsShape /\ WindowOK(c) /\ (IsAlone => AloneOK(c))
    BY DEF ViewsInv
<1>2. /\ at[c] = "flush" /\ due' = [due EXCEPT ![c] = "no"]
      /\ UNCHANGED <<file, beside, seen, owed, onScreen, fd, landed, pushedOut>>
    BY DEF Flush
<1> DEFINE l == Head(owed[c])
<1>3. \/ /\ owed[c] = << >> /\ at' = [at EXCEPT ![c] = after[c]]
         /\ after' = [after EXCEPT ![c] = "take"] /\ doc' = doc /\ misread' = misread
      \/ /\ owed[c] # << >> /\ at' = [at EXCEPT ![c] = "open"] /\ after' = after
         /\ \/ doc' = [doc EXCEPT ![c] = Edited(file, l)] /\ misread' = misread
            \/ doc' = [doc EXCEPT ![c] = <<l>>] /\ misread' = [misread EXCEPT ![c] = TRUE]
    BY DEF Flush, Returns, Goes
<1>4. file \in Tables /\ (owed[c] # << >> => Edited(file, l) \in Tables /\ <<l>> \in Tables)
    BY <1>1, HeadOwed, EditedFacts, OneLineIsATable DEF ViewsShape
<1> HIDE DEF l
<1>5. ViewsShape'
    <2>1. doc' \in [Windows -> Tables]
        BY <1>1, <1>3, <1>4 DEF ViewsShape
    <2>2. after' \in [Windows -> {"take", "arm", "gone"}] /\ after[c] \in {"take", "arm", "gone"}
        BY <1>1, <1>3 DEF ViewsShape
    <2>3. at' \in [Windows -> {"loop", "take", "arm", "flush", "gone", "open", "write", "rename"}]
        BY <1>1, <1>3, <2>2 DEF ViewsShape
    <2>4. due' \in [Windows -> {"no", "armed", "past"}]
        BY <1>1, <1>2 DEF ViewsShape
    <2>5. misread' \in [Windows -> BOOLEAN]
        BY <1>1, <1>3 DEF ViewsShape
    <2> QED
        BY <1>1, <1>2, <2>1, <2>2, <2>3, <2>4, <2>5 DEF ViewsShape
<1>6. \/ owed[c] = << >> /\ at'[c] \in {"take", "arm", "gone"} /\ misread' = misread
      \/ owed[c] # << >> /\ at'[c] = "open" /\ (misread'[c] \/ (misread' = misread /\ doc'[c] = Edited(file, l)))
    BY <1>1, <1>3 DEF ViewsShape
<1>7. WindowOK(c)'
    BY <1>1, <1>2, <1>6 DEF WindowOK, KeptFor, Saving
<1>8. IsAlone => AloneOK(c)'
    BY <1>1, <1>2, <1>6 DEF AloneOK, Saving, l
<1>9. \A d \in Windows \ {c} : Still(d)
    BY <1>1, <1>2, <1>3 DEF Still, ViewsShape
<1> QED
    BY <1>5, <1>7, <1>8, <1>9, OneMoves

LEMMA OpenKeeps ==
    ASSUME ViewsInv, NEW c \in Windows, OpenBeside(c)
    PROVE  ViewsInv'
<1>1. ViewsShape /\ WindowOK(c) /\ (IsAlone => AloneOK(c))
    BY DEF ViewsInv
<1>2. /\ at[c] = "open" /\ at' = [at EXCEPT ![c] = "write"]
      /\ beside' = << >> /\ fd' = [fd EXCEPT ![c] = "beside"]
      /\ UNCHANGED <<file, seen, owed, due, onScreen, after, doc, landed, pushedOut, misread>>
    BY DEF OpenBeside, Goes, queue, history
<1>3. ViewsShape'
    BY <1>1, <1>2, EmptyIsATable DEF ViewsShape
<1>4. at'[c] = "write" /\ fd'[c] = "beside"
    BY <1>1, <1>2 DEF ViewsShape
<1>5. WindowOK(c)'
    BY <1>1, <1>2, <1>4 DEF WindowOK, KeptFor, Saving
<1>6. IsAlone => AloneOK(c)'
    BY <1>1, <1>2, <1>4 DEF AloneOK, Saving
<1>7. \A d \in Windows \ {c} : Still(d)
    BY <1>1, <1>2 DEF Still, ViewsShape
<1> QED
    BY <1>3, <1>5, <1>6, <1>7, OneMoves

LEMMA WriteKeeps ==
    ASSUME ViewsInv, NEW c \in Windows, WriteBeside(c)
    PROVE  ViewsInv'
<1>1. ViewsShape /\ WindowOK(c) /\ (IsAlone => AloneOK(c))
    BY DEF ViewsInv
<1>2. /\ at[c] = "write" /\ at' = [at EXCEPT ![c] = "rename"]
      /\ beside' = IF fd[c] = "beside" THEN doc[c] ELSE beside
      /\ file' = IF fd[c] = "file" THEN doc[c] ELSE file
      /\ UNCHANGED <<seen, owed, due, onScreen, after, doc, fd, landed, pushedOut, misread>>
    BY DEF WriteBeside, Goes, queue, editing, history
<1>3. ViewsShape'
    BY <1>1, <1>2 DEF ViewsShape
<1>4. at'[c] = "rename"
    BY <1>1, <1>2 DEF ViewsShape
<1>5. WindowOK(c)'
    BY <1>1, <1>2, <1>4 DEF WindowOK, KeptFor, Saving
<1>6. IsAlone => AloneOK(c)'
    BY <1>1, <1>2, <1>4 DEF AloneOK, Saving
<1>7. \A d \in Windows \ {c} : Still(d)
    BY <1>1, <1>2 DEF Still, ViewsShape
<1> QED
    BY <1>3, <1>5, <1>6, <1>7, OneMoves

LEMMA RenameKeeps ==
    ASSUME ViewsInv, NEW c \in Windows, Rename(c)
    PROVE  ViewsInv'
<1> DEFINE h == Head(owed[c])
<1>1. ViewsShape /\ WindowOK(c) /\ (IsAlone => AloneOK(c))
    BY DEF ViewsInv
<1>2. /\ at[c] = "rename" /\ beside # Absent /\ file' = beside /\ beside' = Absent
      /\ fd' = [b \in Windows |-> IF b = c \/ fd[b] = "none" THEN "none"
                                  ELSE IF fd[b] = "beside" THEN "file" ELSE "old"]
      /\ landed' = [landed EXCEPT ![c][h.key] = h.page]
      /\ owed' = [owed EXCEPT ![c] = Tail(owed[c])]
      /\ at' = [at EXCEPT ![c] = "flush"] /\ doc' = [doc EXCEPT ![c] = << >>]
      /\ UNCHANGED <<seen, due, onScreen, after, pushedOut, misread>>
    BY DEF Rename, Goes
<1>3. owed[c] # << >>
    BY <1>1, <1>2 DEF WindowOK, Saving
<1>4. /\ h \in ViewLines /\ Len(owed[c]) \in Nat \ {0} /\ h = owed[c][1]
      /\ Tail(owed[c]) \in Seq(ViewLines) /\ Len(Tail(owed[c])) = Len(owed[c]) - 1
      /\ \A i \in 1 .. Len(owed[c]) - 1 : Tail(owed[c])[i] = owed[c][i + 1]
    BY <1>3, HeadOwed
<1>5. h.key \in Keys /\ h.page \in Spaces
    BY <1>4 DEF ViewLines
<1> HIDE DEF h
<1>6. ViewsShape'
    <2>1. owed' \in [Windows -> Seq(ViewLines)] /\ landed' \in [Windows -> [Keys -> Spaces \union {Unknown}]]
        BY <1>1, <1>2, <1>4, <1>5 DEF ViewsShape
    <2>2. /\ at' \in [Windows -> {"loop", "take", "arm", "flush", "gone", "open", "write", "rename"}]
          /\ fd' \in [Windows -> {"none", "beside", "file", "old"}]
          /\ doc' \in [Windows -> Tables]
        BY <1>1, <1>2, EmptyIsATable DEF ViewsShape
    <2>3. file' \in Tables /\ beside' = Absent
        BY <1>1, <1>2 DEF ViewsShape
    <2> QED
        BY <1>1, <1>2, <2>1, <2>2, <2>3 DEF ViewsShape
<1>7. /\ at'[c] = "flush" /\ owed'[c] = Tail(owed[c])
      /\ \A k \in Keys : landed'[c][k] = IF k = h.key THEN h.page ELSE landed[c][k]
    BY <1>1, <1>2, <1>5 DEF ViewsShape
<1>8. \A i \in 1 .. Len(owed[c]) - 1 : i + 1 \in 1 .. Len(owed[c])
    BY <1>4
<1>9. ASSUME NEW k \in Keys PROVE KeptFor(c, k)'
    <2>1. seen[c][h.key] = h.page
        <3>1. 1 \in 1 .. Len(owed[c])
            BY <1>4
        <3> QED
            BY <1>1, <1>4, <3>1 DEF WindowOK
    <2>2. KeptFor(c, k) /\ at[c] # "gone"
        BY <1>1, <1>2 DEF WindowOK
    <2>3. CASE k = h.key
        BY <1>2, <1>7, <2>1, <2>3 DEF KeptFor
    <2>4. CASE k # h.key /\ \E i \in 1 .. Len(owed[c]) : owed[c][i] = ViewLine(k, seen[c][k])
        <3>1. PICK i \in 1 .. Len(owed[c]) : owed[c][i] = ViewLine(k, seen[c][k])
            BY <2>4
        <3>2. i # 1
            BY <1>4, <2>4, <3>1 DEF ViewLine
        <3>3. i - 1 \in 1 .. Len(owed[c]) - 1 /\ (i - 1) + 1 = i
            BY <1>4, <3>2
        <3>4. Tail(owed[c])[i - 1] = ViewLine(k, seen[c][k]) /\ i - 1 \in 1 .. Len(Tail(owed[c]))
            BY <1>4, <3>1, <3>3
        <3>5. \E n \in 1 .. Len(owed'[c]) : owed'[c][n] = ViewLine(k, seen'[c][k])
            BY <1>2, <1>7, <3>4
        <3> QED
            BY <3>5 DEF KeptFor, ViewLine
    <2>5. CASE /\ k # h.key
               /\ k \in pushedOut[c] \/ seen[c][k] = Unknown \/ landed[c][k] = seen[c][k]
        BY <1>2, <1>7, <2>5 DEF KeptFor
    <2> QED
        BY <2>2, <2>3, <2>4, <2>5 DEF KeptFor
<1>10. WindowOK(c)'
    <2>1. Len(owed'[c]) <= OwedCap
        BY <1>1, <1>4, <1>7, ViewsAssumption DEF WindowOK
    <2>2. \A i \in 1 .. Len(owed'[c]) : seen'[c][owed'[c][i].key] = owed'[c][i].page
        BY <1>1, <1>2, <1>4, <1>7, <1>8 DEF WindowOK
    <2> QED
        BY <1>1, <1>2, <1>7, <1>9, <2>1, <2>2 DEF WindowOK, Saving
<1>11. IsAlone => AloneOK(c)'
    <2> SUFFICES ASSUME IsAlone, ~ misread[c] PROVE AloneOK(c)'
        BY <1>2 DEF AloneOK
    <2>1. /\ file' = Edited(file, h) /\ \A k \in Keys : PageFor(file, k) = landed[c][k]
        BY <1>1, <1>2 DEF AloneOK, Saving, h
    <2>2. \A k \in Keys : PageFor(file', k) = IF k = h.key THEN h.page ELSE PageFor(file, k)
        BY <1>1, <1>4, <2>1, EditedFacts DEF IsAlone, ViewsShape
    <2>3. \A k \in Keys : PageFor(file', k) = landed'[c][k]
        BY <1>7, <2>1, <2>2
    <2>4. \A k \in Keys : PageFor(file, k)' = landed'[c][k]
        BY <2>3 DEF PageFor, Of
    <2> QED
        BY <1>7, <2>4 DEF AloneOK, Saving
<1>12. \A d \in Windows \ {c} : Still(d)
    BY <1>1, <1>2 DEF Still, ViewsShape
<1> QED
    BY <1>6, <1>10, <1>11, <1>12, OneMoves

(* A save that fails, and a client that ends: the queue stays as it is.     *)
LEMMA EndsKeep ==
    ASSUME ViewsInv, NEW c \in Windows, SaveFails(c) \/ Detach(c) \/ Killed(c)
    PROVE  ViewsInv'
<1>1. ViewsShape /\ WindowOK(c) /\ (IsAlone => AloneOK(c))
    BY DEF ViewsInv
<1>2. /\ UNCHANGED <<file, beside, seen, owed, onScreen, landed, pushedOut, misread>>
      /\ due' = due \/ due' = [due EXCEPT ![c] = "no"]
    BY DEF SaveFails, StaysOwed, Detach, Killed, queue, editing, history
<1>3. /\ at' = [at EXCEPT ![c] = after[c]] \/ at' = [at EXCEPT ![c] = "flush"] \/ at' = [at EXCEPT ![c] = "gone"]
      /\ after' = [after EXCEPT ![c] = "take"] \/ after' = [after EXCEPT ![c] = "gone"]
      /\ (doc' = [doc EXCEPT ![c] = << >>] /\ fd' = [fd EXCEPT ![c] = "none"]) \/ UNCHANGED <<doc, fd>>
      /\ at[c] # "gone"
    BY <1>1 DEF SaveFails, StaysOwed, Detach, Killed, Returns, Flushes, Goes, editing
<1>4. ViewsShape'
    <2>1. after' \in [Windows -> {"take", "arm", "gone"}] /\ after[c] \in {"take", "arm", "gone"}
        BY <1>1, <1>3 DEF ViewsShape
    <2>2. at' \in [Windows -> {"loop", "take", "arm", "flush", "gone", "open", "write", "rename"}]
        <3>1. PICK a \in {"take", "arm", "gone", "flush"} : at' = [at EXCEPT ![c] = a]
            BY <1>3, <2>1
        <3> QED
            BY <1>1, <3>1 DEF ViewsShape
    <2>3. doc' \in [Windows -> Tables]
        <3>1. doc \in [Windows -> Tables] /\ << >> \in Tables
            BY <1>1, EmptyIsATable DEF ViewsShape
        <3>2. doc' = [doc EXCEPT ![c] = << >>] \/ doc' = doc
            BY <1>3
        <3> HIDE DEF Tables
        <3> QED
            BY <3>1, <3>2
    <2>4. fd' \in [Windows -> {"none", "beside", "file", "old"}]
        BY <1>1, <1>3 DEF ViewsShape
    <2>5. due' \in [Windows -> {"no", "armed", "past"}]
        BY <1>1, <1>2 DEF ViewsShape
    <2> QED
        BY <1>1, <1>2, <2>1, <2>2, <2>3, <2>4, <2>5 DEF ViewsShape
<1>5. at'[c] \in {"take", "arm", "gone", "flush"}
    BY <1>1, <1>3 DEF ViewsShape
<1>6. WindowOK(c)'
    BY <1>1, <1>2, <1>3, <1>5 DEF WindowOK, KeptFor, Saving
<1>7. IsAlone => AloneOK(c)'
    BY <1>1, <1>2, <1>5 DEF AloneOK, Saving
<1>8. \A d \in Windows \ {c} : Still(d)
    BY <1>1, <1>2, <1>3 DEF Still, ViewsShape
<1> QED
    BY <1>4, <1>6, <1>7, <1>8, OneMoves

LEMMA StartsKeeps ==
    ASSUME ViewsInv, NEW c \in Windows, Starts(c)
    PROVE  ViewsInv'
<1>1. ViewsShape /\ WindowOK(c) /\ (IsAlone => AloneOK(c))
    BY DEF ViewsInv
<1>2. /\ at' = [at EXCEPT ![c] = "loop"]
      /\ \/ seen' = [seen EXCEPT ![c] = Loaded]
         \/ seen' = [seen EXCEPT ![c] = [k \in Keys |-> Unknown]]
      /\ landed' = [landed EXCEPT ![c] = Loaded] /\ misread' = [misread EXCEPT ![c] = FALSE]
      /\ owed' = [owed EXCEPT ![c] = << >>] /\ pushedOut' = [pushedOut EXCEPT ![c] = {}]
      /\ due' = [due EXCEPT ![c] = "no"]
      /\ onScreen' = [onScreen EXCEPT ![c] = ViewLine(Unknown, Elsewhere)]
      /\ UNCHANGED <<file, beside, after, doc, fd>>
    BY DEF Starts, Goes, editing
<1>3. Loaded \in [Keys -> Spaces \union {Unknown}]
    BY <1>1, PageIsKnown DEF Loaded, ViewsShape, Tables
<1>4. ViewsShape'
    <2>1. /\ seen' \in [Windows -> [Keys -> Spaces \union {Unknown}]]
          /\ landed' \in [Windows -> [Keys -> Spaces \union {Unknown}]]
          /\ misread' \in [Windows -> BOOLEAN]
        <3>1. [k \in Keys |-> Unknown] \in [Keys -> Spaces \union {Unknown}]
            OBVIOUS
        <3>2. seen' \in [Windows -> [Keys -> Spaces \union {Unknown}]]
            BY <1>1, <1>2, <1>3, <3>1 DEF ViewsShape
        <3> QED
            BY <1>1, <1>2, <1>3, <3>2 DEF ViewsShape
    <2>2. owed' \in [Windows -> Seq(ViewLines)] /\ pushedOut' \in [Windows -> SUBSET Keys]
        BY <1>1, <1>2 DEF ViewsShape
    <2>3. /\ at' \in [Windows -> {"loop", "take", "arm", "flush", "gone", "open", "write", "rename"}]
          /\ due' \in [Windows -> {"no", "armed", "past"}]
          /\ onScreen' \in [Windows -> [key : Keys \union {Unknown}, page : Spaces \union {Elsewhere}]]
        BY <1>1, <1>2 DEF ViewsShape, ViewLine
    <2> QED
        BY <1>1, <1>2, <2>1, <2>2, <2>3 DEF ViewsShape
<1>5. /\ at'[c] = "loop" /\ landed'[c] = Loaded
      /\ seen'[c] = Loaded \/ \A k \in Keys : seen'[c][k] = Unknown
      /\ owed'[c] = << >> /\ onScreen'[c] = ViewLine(Unknown, Elsewhere)
    BY <1>1, <1>2 DEF ViewsShape
<1>6. WindowOK(c)'
    <2>1. Len(owed'[c]) = 0 /\ 1 .. Len(owed'[c]) = {}
        BY <1>5
    <2>2. onScreen'[c].page = Elsewhere
        BY <1>5 DEF ViewLine
    <2>3. \A k \in Keys : KeptFor(c, k)'
        BY <1>5 DEF KeptFor
    <2> QED
        BY <1>5, <2>1, <2>2, <2>3, ViewsAssumption DEF WindowOK, Saving
<1>7. IsAlone => AloneOK(c)'
    <2>1. \A k \in Keys : PageFor(file', k) = landed'[c][k]
        BY <1>2, <1>5 DEF Loaded
    <2>2. \A k \in Keys : PageFor(file, k)' = landed'[c][k]
        BY <2>1 DEF PageFor, Of
    <2> QED
        BY <1>5, <2>2 DEF AloneOK, Saving
<1>8. \A d \in Windows \ {c} : Still(d)
    BY <1>1, <1>2 DEF Still, ViewsShape
<1> QED
    BY <1>4, <1>6, <1>7, <1>8, OneMoves

LEMMA ViewsStart ==
    ASSUME ViewsInit
    PROVE  ViewsInv
<1>1. /\ file = << >> /\ beside = Absent /\ landed = seen
      /\ seen = [c \in Windows |-> Loaded] /\ owed = [c \in Windows |-> << >>]
      /\ due = [c \in Windows |-> "no"] /\ pushedOut = [c \in Windows |-> {}]
      /\ onScreen = [c \in Windows |-> ViewLine(Unknown, Elsewhere)]
      /\ at = [c \in Windows |-> "loop"] /\ after = [c \in Windows |-> "take"]
      /\ doc = [c \in Windows |-> << >>] /\ fd = [c \in Windows |-> "none"]
      /\ misread = [c \in Windows |-> FALSE]
    BY DEF ViewsInit
<1>2. Loaded \in [Keys -> Spaces \union {Unknown}]
    BY <1>1, EmptyIsATable, PageIsKnown DEF Loaded, Tables
<1>3. ViewsShape
    <2>1. owed \in [Windows -> Seq(ViewLines)] /\ doc \in [Windows -> Tables] /\ file \in Tables
        BY <1>1, EmptyIsATable
    <2>2. seen \in [Windows -> [Keys -> Spaces \union {Unknown}]]
        BY <1>1, <1>2
    <2>3. onScreen \in [Windows -> [key : Keys \union {Unknown}, page : Spaces \union {Elsewhere}]]
        BY <1>1 DEF ViewLine
    <2> QED
        BY <1>1, <2>1, <2>2, <2>3 DEF ViewsShape
<1>4. ASSUME NEW c \in Windows PROVE WindowOK(c) /\ AloneOK(c)
    <2>1. Len(owed[c]) = 0 /\ 1 .. Len(owed[c]) = {} /\ owed[c] = << >>
        BY <1>1
    <2>2. onScreen[c].page = Elsewhere /\ at[c] = "loop"
        BY <1>1 DEF ViewLine
    <2>3. \A k \in Keys : KeptFor(c, k) /\ PageFor(file, k) = landed[c][k]
        BY <1>1 DEF KeptFor, Loaded
    <2> QED
        BY <2>1, <2>2, <2>3, ViewsAssumption DEF WindowOK, AloneOK, Saving
<1> QED
    BY <1>3, <1>4 DEF ViewsInv

LEMMA ViewsStep ==
    ASSUME ViewsInv, [ViewsNext]_viewsVars
    PROVE  ViewsInv'
<1>1. CASE ViewsNext
    <2>1. PICK c \in Windows :
              \/ SomePass(c) \/ Take(c) \/ Arm(c) \/ Elapses(c) \/ Saves(c)
              \/ Detach(c) \/ Killed(c) \/ Starts(c)
        BY <1>1 DEF ViewsNext
    <2> QED
        BY <2>1, PassRemembers, TakeKeeps, ArmKeeps, FlushKeeps, OpenKeeps, WriteKeeps, RenameKeeps,
           EndsKeep, StartsKeeps DEF Saves
<1>2. CASE UNCHANGED viewsVars
    <2>1. UNCHANGED <<file, beside, seen, owed, due, onScreen, at, after, doc, fd, landed, pushedOut,
                    misread>>
        BY <1>2 DEF viewsVars, queue, editing, history
    <2>2. ViewsShape'
        BY <2>1 DEF ViewsInv, ViewsShape
    <2>3. ASSUME NEW c \in Windows PROVE WindowOK(c)'
        BY <2>1 DEF ViewsInv, WindowOK, KeptFor, Saving
    <2>4. ASSUME NEW c \in Windows, AloneOK(c) PROVE AloneOK(c)'
        BY <2>1, <2>4 DEF AloneOK, Saving
    <2> QED
        BY <2>2, <2>3, <2>4 DEF ViewsInv, IsAlone
<1> QED
    BY <1>1, <1>2

LEMMA ViewsInvSuffices ==
    ASSUME ViewsInv
    PROVE  NothingIsForgotten
<1>1. ViewsShape /\ \A c \in Windows : WindowOK(c)
    BY DEF ViewsInv
<1>2. ViewsTypeOK
    BY <1>1 DEF ViewsTypeOK, ViewsShape, Tables, WindowOK
<1>3. OwedOrWritten
    <2> SUFFICES ASSUME NEW c \in Windows, NEW k \in Keys
                 PROVE  \/ at[c] = "gone" \/ k \in pushedOut[c] \/ seen[c][k] = Unknown
                        \/ landed[c][k] = seen[c][k]
                        \/ ViewLine(k, seen[c][k]) \in Range(owed[c])
        BY DEF OwedOrWritten
    <2>1. KeptFor(c, k) /\ DOMAIN owed[c] = 1 .. Len(owed[c])
        BY <1>1 DEF WindowOK, ViewsShape
    <2> QED
        BY <2>1 DEF KeptFor, Range
<1>4. FileIsWhole
    BY DEF FileIsWhole, ViewsInv, IsAlone, AloneOK
<1>5. OwedIsDue
    BY <1>1 DEF OwedIsDue, WindowOK
<1> QED
    BY <1>2, <1>3, <1>4, <1>5 DEF NothingIsForgotten

(* views.rs: whatever is remembered has reached config.toml or is owed to   *)
(* it and due, for any number of clients that write the file and whatever   *)
(* call of theirs fails; and one that is alone never truncates the file,    *)
(* unless a read of it failed.                                              *)
THEOREM PagesAreRemembered == ViewsSpec => []NothingIsForgotten
<1>1. ViewsInit => ViewsInv
    BY ViewsStart
<1>2. ViewsInv /\ [ViewsNext]_viewsVars => ViewsInv'
    BY ViewsStep
<1>3. ViewsInv => NothingIsForgotten
    BY ViewsInvSuffices
<1> QED
    BY <1>1, <1>2, <1>3, PTL DEF ViewsSpec

-----------------------------------------------------------------------------
(* WHAT A CLIENT KNOWS OF THE RAILS.                                        *)
Shows == Rails \union {NoRail}

(* What the daemon remembers of a workspace is what our stream was last     *)
(* told of it, if it was told; and it was told of no workspace to come.     *)
Told ==
    /\ \A w \in Ids : said[w] # NoRail => w <= next
    /\ \A w \in order : said[w] # NoRail => last[w] = said[w]

MInv == MirrorTypeOK /\ Told

-----------------------------------------------------------------------------
(* Events.                                                                  *)

LEMMA EventTypes ==
    /\ \A S \in SUBSET Ids : List(S) \in Events
    /\ \A w \in Ids, r \in Rails : Detail(w, r) \in Events
    /\ Opened \in Events /\ Lost \in Events
BY DEF Events, List, Detail, Opened, Lost

LEMMA NothingType == Nothing \in [Ids -> Shows]
BY DEF Nothing, Shows

LEMMA BroadcastTypes ==
    ASSUME MirrorTypeOK, NEW events \in Seq(Events), Broadcast(events)
    PROVE  inbox' \in Seq(Events) /\ others' \in {"none", "open", "closed"}
<1>1. inbox \o events \in Seq(Events)
  BY ConcatProperties DEF MirrorTypeOK
<1> QED BY <1>1 DEF Broadcast, MirrorTypeOK

LEMMA EndsTypes ==
    ASSUME MirrorTypeOK, NEW kept \in 0 .. Len(inbox), Ends(kept)
    PROVE  inbox' \in Seq(Events) /\ link' = "down" /\ said' = Nothing
<1>1. inbox \in Seq(Events)
  BY DEF MirrorTypeOK
<1>2. SubSeq(inbox, 1, kept) \in Seq(Events)
  BY <1>1
<1> QED BY <1>2, EventTypes DEF Ends


LEMMA NextIds == MirrorTypeOK => /\ next \in Nat /\ order \subseteq Ids
                                /\ (next < N => next + 1 \in Ids)
BY MirrorAssumption DEF MirrorTypeOK, Ids

LEMMA NoneTold == ASSUME MirrorTypeOK', said' = Nothing PROVE Told'
<1>1. \A w \in Ids : said'[w] = NoRail
  BY DEF Nothing
<1>2. order' \subseteq Ids
  BY MirrorAssumption DEF MirrorTypeOK, Ids
<1> QED BY <1>1, <1>2 DEF Told

-----------------------------------------------------------------------------
LEMMA InitMInv == MirrorInit => MInv
<1> SUFFICES ASSUME MirrorInit PROVE MInv
  OBVIOUS
<1>1. (CHOOSE r \in Rails : TRUE) \in Rails
  BY MirrorAssumption
<1>2. rail \in [Ids -> Rails]
  BY <1>1 DEF MirrorInit
<1>3. order \subseteq 1 .. next /\ next \in 0 .. N /\ inbox \in Seq(Events)
  BY DEF MirrorInit
<1>4. MirrorTypeOK
  BY <1>2, <1>3, NothingType, MirrorAssumption DEF MirrorInit, MirrorTypeOK, Shows
<1>5. Told
  BY DEF MirrorInit, Told, Nothing, Ids
<1> QED BY <1>4, <1>5 DEF MInv

LEMMA ChangeMInv == \A w \in Ids : MInv /\ Change(w) => MInv'
<1> SUFFICES ASSUME NEW w \in Ids, MInv, Change(w) PROVE MInv'
  OBVIOUS
<1>1. PICK r \in Rails \ {rail[w]} : rail' = [rail EXCEPT ![w] = r]
  BY DEF Change
<1>2. rail' \in [Ids -> Rails]
  BY <1>1 DEF MInv, MirrorTypeOK
<1>3. redraw' \in BOOLEAN /\ changes' \in 0 .. MaxChanges
  <2>1. redraw' \in BOOLEAN
    BY Zenon DEF Change, MInv, MirrorTypeOK
  <2>2. changes' \in 0 .. MaxChanges
    BY MirrorAssumption DEF Change, MInv, MirrorTypeOK
  <2> QED BY <2>1, <2>2
<1>4. MirrorTypeOK'
  BY <1>2, <1>3 DEF MInv, Change, MirrorTypeOK, streamVars, primeVars, stateVars
<1>5. Told'
  BY DEF MInv, Change, Told, streamVars
<1> QED BY <1>4, <1>5 DEF MInv

LEMMA CreateMInv == MInv /\ Create => MInv'
<1> SUFFICES ASSUME MInv, Create PROVE MInv'
  OBVIOUS
<1>1. /\ next \in Nat /\ next' = next + 1 /\ next' \in 0 .. N
      /\ order' = order \union {next + 1} /\ order' \subseteq 1 .. next' /\ order' \subseteq Ids
  BY NextIds, MirrorAssumption DEF MInv, MirrorTypeOK, Create, Ids
<1>2. <<List(order')>> \in Seq(Events)
  BY <1>1, EventTypes
<1>3. inbox' \in Seq(Events) /\ others' \in {"none", "open", "closed"}
  BY <1>2, BroadcastTypes DEF MInv, Create
<1>4. changes' \in 0 .. MaxChanges /\ redraw' = TRUE
  BY MirrorAssumption DEF Create, MInv, MirrorTypeOK
<1>5. MirrorTypeOK'
  BY <1>1, <1>3, <1>4 DEF MInv, Create, MirrorTypeOK, primeVars, stateVars
<1>6. Told'
  <2>1. said' = said /\ last' = last
    BY DEF Create
  <2>2. \A w \in Ids : said[w] # NoRail => w <= next /\ w \in Nat
    BY DEF MInv, Told, Ids
  <2>3. next + 1 \in Ids
    BY <1>1 DEF Ids
  <2>4. said[next + 1] = NoRail
    BY <1>1, <2>2, <2>3
  <2> QED BY <1>1, <2>1, <2>2, <2>4 DEF MInv, Told
<1> QED BY <1>5, <1>6 DEF MInv

LEMMA KillMInv == \A w \in Ids : MInv /\ Kill(w) => MInv'
<1> SUFFICES ASSUME NEW w \in Ids, MInv, Kill(w) PROVE MInv'
  OBVIOUS
<1>1. order' = order \ {w} /\ order' \subseteq Ids
  BY NextIds DEF Kill, MInv
<1>2. PICK told \in BOOLEAN : Broadcast(IF told THEN <<List(order')>> ELSE << >>)
  BY DEF Kill
<1>3. (IF told THEN <<List(order')>> ELSE << >>) \in Seq(Events)
  BY <1>1, EventTypes
<1>4. inbox' \in Seq(Events) /\ others' \in {"none", "open", "closed"}
  BY <1>2, <1>3, BroadcastTypes DEF MInv
<1>5. changes' \in 0 .. MaxChanges /\ redraw' = TRUE
  BY MirrorAssumption DEF Kill, MInv, MirrorTypeOK
<1>6. MirrorTypeOK'
  BY <1>1, <1>4, <1>5 DEF MInv, Kill, MirrorTypeOK, primeVars, stateVars
<1>7. Told'
  BY <1>1 DEF MInv, Kill, Told
<1> QED BY <1>6, <1>7 DEF MInv

LEMMA SysTickMInv == MInv /\ SysTick => MInv'
<1> SUFFICES ASSUME MInv, SysTick PROVE MInv'
  OBVIOUS
<1>1. (IF Subscribed THEN <<List(order)>> ELSE << >>) \in Seq(Events)
  BY NextIds, EventTypes DEF MInv
<1>2. inbox' \in Seq(Events) /\ others' \in {"none", "open", "closed"}
  BY <1>1, BroadcastTypes DEF MInv, SysTick
<1>3. MirrorTypeOK'
  BY <1>2 DEF MInv, SysTick, MirrorTypeOK, primeVars, stateVars, boundVars
<1>4. Told'
  BY DEF MInv, SysTick, Told
<1> QED BY <1>3, <1>4 DEF MInv

(* What a frame sends differs from what was said before.                    *)
LEMMA UnsaidIsNew ==
    ASSUME MInv
    PROVE  /\ Unsaid \subseteq Ids
           /\ \A w \in Unsaid : w \in order /\ rail[w] \in Rails /\ said[w] # rail[w]
<1>1. Unsaid \subseteq order /\ order \subseteq Ids
  BY NextIds DEF Unsaid, MInv
<1>2. ASSUME NEW w \in Unsaid
      PROVE  rail[w] \in Rails /\ said[w] # rail[w]
  <2>1. rail[w] \in Rails /\ rail[w] # NoRail
    BY <1>1, MirrorAssumption DEF MInv, MirrorTypeOK
  <2>2. last[w] # rail[w]
    BY DEF Unsaid
  <2> QED BY <1>1, <2>1, <2>2 DEF MInv, Told
<1> QED BY <1>1, <1>2

LEMMA FrameNews ==
    ASSUME MInv, DrawFrame
    PROVE  \E news \in Seq(Events) :
              /\ Broadcast(news)
              /\ \A i \in DOMAIN news : \E w \in Unsaid : news[i] = Detail(w, rail[w])
<1>1. PICK ids \in [1 .. Cardinality(Unsaid) -> Unsaid] :
          Broadcast([i \in DOMAIN ids |-> Detail(ids[i], rail[ids[i]])])
  BY DEF DrawFrame
<1>2. Cardinality(Unsaid) \in Nat
  <2>1. Unsaid \subseteq 1 .. N /\ IsFiniteSet(1 .. N)
    BY UnsaidIsNew, MirrorAssumption, FS_Interval DEF Ids
  <2> QED BY <2>1, FS_Subset, FS_CardinalityType
<1>3. PICK news : news = [i \in DOMAIN ids |-> Detail(ids[i], rail[ids[i]])]
  OBVIOUS
<1>4. \A i \in 1 .. Cardinality(Unsaid) :
          ids[i] \in Unsaid /\ news[i] = Detail(ids[i], rail[ids[i]]) /\ news[i] \in Events
  BY <1>1, <1>3, UnsaidIsNew, EventTypes
<1>5. DOMAIN news = 1 .. Cardinality(Unsaid)
  BY <1>1, <1>3
<1>6. news \in Seq(Events)
  BY <1>2, <1>3, <1>4, <1>5
<1> QED BY <1>1, <1>3, <1>4, <1>5, <1>6

LEMMA DrawFrameMInv == MInv /\ DrawFrame => MInv'
<1> SUFFICES ASSUME MInv, DrawFrame PROVE MInv'
  OBVIOUS
<1>1. inbox' \in Seq(Events) /\ others' \in {"none", "open", "closed"}
  BY FrameNews, BroadcastTypes DEF MInv
<1>2. /\ last' = [w \in Ids |-> IF Subscribed /\ w \in order THEN rail[w] ELSE NoRail]
      /\ said' = [w \in Ids |-> IF link = "up" /\ w \in Unsaid THEN rail[w] ELSE said[w]]
      /\ UNCHANGED <<order, rail, next, link>>
  BY DEF DrawFrame, Remembered
<1>3. last' \in [Ids -> Shows] /\ said' \in [Ids -> Shows]
  BY <1>2 DEF MInv, MirrorTypeOK, Shows
<1>4. link # "up" => said' = Nothing
  BY <1>2 DEF MInv, MirrorTypeOK, Nothing
<1>5. MirrorTypeOK'
  BY <1>1, <1>3, <1>4 DEF MInv, DrawFrame, MirrorTypeOK, Shows, primeVars, stateVars, boundVars, Nothing
<1>6. ASSUME NEW w \in Ids, said'[w] # NoRail
      PROVE  w <= next
  <2>1. CASE link = "up" /\ w \in Unsaid
    BY <2>1, UnsaidIsNew DEF MInv, MirrorTypeOK
  <2>2. CASE ~ (link = "up" /\ w \in Unsaid)
    BY <1>2, <1>6, <2>2 DEF MInv, Told
  <2> QED BY <2>1, <2>2
<1>7. ASSUME NEW w \in order, said'[w] # NoRail
      PROVE  last'[w] = said'[w]
  <2>1. w \in Ids
    BY NextIds DEF MInv
  <2>2. link = "up"
    BY <1>4, <1>7, <2>1 DEF Nothing
  <2>3. last'[w] = rail[w]
    BY <1>2, <2>1, <2>2 DEF Subscribed
  <2>4. CASE w \in Unsaid
    BY <1>2, <2>1, <2>2, <2>3, <2>4
  <2>5. CASE w \notin Unsaid
    <3>1. last[w] = rail[w]
      BY <2>2, <2>5 DEF Unsaid, Subscribed
    <3> QED BY <1>2, <1>7, <2>1, <2>3, <2>5, <3>1 DEF MInv, Told
  <2> QED BY <2>4, <2>5
<1>8. Told'
  BY <1>2, <1>6, <1>7 DEF Told
<1> QED BY <1>5, <1>8 DEF MInv

LEMMA OthersMInv == MInv /\ (OthersJoin \/ OthersLeave) => MInv'
BY DEF MInv, OthersJoin, OthersLeave, MirrorTypeOK, Told, streamVars, primeVars, stateVars,
       boundVars, Nothing

-----------------------------------------------------------------------------
(* The stream and the client.                                               *)

LEMMA DialMInv == MInv /\ (Dial \/ ApiSubscribe) => MInv'
<1> SUFFICES ASSUME MInv, Dial \/ ApiSubscribe PROVE MInv'
  OBVIOUS
<1>1. inbox' \in Seq(Events)
  <2>1. inbox \in Seq(Events) /\ Opened \in Events /\ List(order) \in Events
    BY EventTypes, NextIds DEF MInv, MirrorTypeOK
  <2>2. inbox' = Append(inbox, Opened) \/ inbox' = Append(inbox, List(order))
    BY DEF Dial, ApiSubscribe
  <2> QED BY <2>1, <2>2
<1>2. /\ link' \in {"dialled", "up"} /\ said' = Nothing
      /\ UNCHANGED <<daemonVars, primeVars, stateVars, boundVars>>
  BY DEF MInv, MirrorTypeOK, Dial, ApiSubscribe
<1>3. MirrorTypeOK'
  BY <1>1, <1>2, NothingType DEF MInv, MirrorTypeOK, Shows, daemonVars, primeVars, stateVars,
                                 boundVars, Nothing
<1> QED BY <1>2, <1>3, NoneTold DEF MInv

LEMMA DropMInv == MInv /\ Drop => MInv'
<1> SUFFICES ASSUME MInv, Drop PROVE MInv'
  OBVIOUS
<1>1. inbox' \in Seq(Events) /\ link' = "down" /\ said' = Nothing
  BY EndsTypes DEF MInv, Drop
<1>2. drops' \in 0 .. MaxDrops /\ others' \in {"none", "open", "closed"}
  BY MirrorAssumption DEF MInv, MirrorTypeOK, Drop
<1>3. MirrorTypeOK'
  BY <1>1, <1>2, NothingType DEF MInv, MirrorTypeOK, Shows, Drop, primeVars, stateVars, Nothing
<1> QED BY <1>1, <1>3, NoneTold DEF MInv

LEMMA RestartMInv == MInv /\ Restart => MInv'
<1> SUFFICES ASSUME MInv, Restart PROVE MInv'
  OBVIOUS
<1>1. inbox' \in Seq(Events) /\ link' = "down" /\ said' = Nothing
  <2>1. CASE link = "down"
    BY <2>1 DEF MInv, MirrorTypeOK, Restart, streamVars
  <2>2. CASE link # "down"
    BY <2>2, EndsTypes DEF MInv, Restart
  <2> QED BY <2>1, <2>2
<1>2. next' \in 0 .. N /\ order' = 1 .. next' /\ order' \subseteq 1 .. next'
  <2>0. 1 \in Int /\ N \in Int /\ N \in Nat
    BY MirrorAssumption
  <2>1. order \subseteq 1 .. N /\ IsFiniteSet(1 .. N) /\ Cardinality(1 .. N) = N
    <3>1. IsFiniteSet(1 .. N) /\ Cardinality(1 .. N) = IF 1 > N THEN 0 ELSE N - 1 + 1
      BY <2>0, FS_Interval
    <3>2. order \subseteq 1 .. N
      BY NextIds DEF MInv, Ids
    <3> QED BY <2>0, <3>1, <3>2
  <2>2. Cardinality(order) \in Nat /\ Cardinality(order) <= N
    BY <2>1, FS_Subset, FS_CardinalityType
  <2> QED BY <2>2, MirrorAssumption DEF Restart
<1>3. drops' \in 0 .. MaxDrops /\ rail' \in [Ids -> Rails] /\ last' = Nothing
      /\ redraw' = TRUE /\ others' = "none"
  BY MirrorAssumption DEF MInv, MirrorTypeOK, Restart
<1>4. MirrorTypeOK'
  BY <1>1, <1>2, <1>3, NothingType
     DEF MInv, MirrorTypeOK, Shows, Restart, primeVars, stateVars, Nothing
<1> QED BY <1>1, <1>4, NoneTold DEF MInv

LEMMA AdoptMInv == MInv /\ Adopt => MInv'
<1> SUFFICES ASSUME MInv, Adopt PROVE MInv'
  OBVIOUS
<1>1. inbox' = << >> /\ inbox' \in Seq(Events) /\ detail' = Nothing /\ tabs' = {} /\ phase' = "list"
  BY DEF Adopt
<1>2. MirrorTypeOK'
  BY <1>1, NothingType DEF MInv, MirrorTypeOK, Shows, Adopt, daemonVars, boundVars, Nothing
<1>3. Told'
  BY DEF MInv, Told, Adopt, daemonVars
<1> QED BY <1>2, <1>3 DEF MInv

LEMMA PrimeMInv == MInv /\ PrimeSteps => MInv'
<1> SUFFICES ASSUME MInv, PrimeSteps PROVE MInv'
  OBVIOUS
<1>1. UNCHANGED <<daemonVars, streamVars, boundVars>>
  BY DEF PrimeSteps, PrimeList, PrimeDetail, PrimeEnds
<1>2. ASSUME PrimeList
      PROVE  MirrorTypeOK'
  <2>1. phase' = "details" /\ listed' = order /\ todo' = order /\ UNCHANGED stateVars
    BY <1>2 DEF PrimeList
  <2>2. listed' \subseteq Ids /\ todo' \subseteq listed'
    BY <2>1, NextIds DEF MInv
  <2> QED BY <1>1, <2>1, <2>2 DEF MInv, MirrorTypeOK, daemonVars, streamVars, stateVars, boundVars,
                                  Nothing
<1>3. ASSUME NEW w \in Ids, PrimeDetail(w)
      PROVE  MirrorTypeOK'
  <2>1. detail' \in [Ids -> Shows]
    BY <1>3 DEF PrimeDetail, MInv, MirrorTypeOK, Shows
  <2> QED BY <1>1, <1>3, <2>1 DEF MInv, MirrorTypeOK, Shows, PrimeDetail, daemonVars, streamVars,
                                  boundVars, Nothing
<1>4. ASSUME PrimeEnds
      PROVE  MirrorTypeOK'
  <2>1. /\ phase' = "no" /\ tabs' = listed /\ listed' = {}
        /\ todo = {} /\ todo' = todo /\ detail' = detail
    BY <1>4 DEF PrimeEnds
  <2>2. tabs' \subseteq Ids
    BY <2>1 DEF MInv, MirrorTypeOK
  <2> QED BY <1>1, <2>1, <2>2 DEF MInv, MirrorTypeOK, daemonVars, streamVars, boundVars, Nothing
<1>5. MirrorTypeOK'
  BY <1>2, <1>3, <1>4 DEF PrimeSteps, MInv
<1>6. Told'
  BY <1>1 DEF MInv, Told, daemonVars, streamVars
<1> QED BY <1>5, <1>6 DEF MInv

LEMMA NextEventMInv == MInv /\ NextEvent => MInv'
<1> SUFFICES ASSUME MInv, NextEvent PROVE MInv'
  OBVIOUS
<1>1. Head(inbox) \in Events /\ inbox' \in Seq(Events)
  BY DEF MInv, MirrorTypeOK, NextEvent
<1>2. tabs' \subseteq Ids /\ detail' \in [Ids -> Shows]
  <2> DEFINE e == Head(inbox)
  <2>1. /\ e.kind = "list" => e.ws \in SUBSET Ids
        /\ e.kind = "detail" => e.ws \in Ids /\ e.rail \in Rails
    BY <1>1 DEF Events
  <2>2. /\ tabs' = IF e.kind = "list" THEN e.ws ELSE tabs
        /\ detail' = IF e.kind = "list"
                     THEN [w \in Ids |-> IF w \in e.ws THEN detail[w] ELSE NoRail]
                     ELSE IF e.kind = "detail" THEN [detail EXCEPT ![e.ws] = e.rail]
                     ELSE detail
    BY DEF NextEvent, Applied
  <2> HIDE DEF e
  <2> QED BY <2>1, <2>2 DEF MInv, MirrorTypeOK, Shows
<1>3. MirrorTypeOK'
  BY <1>1, <1>2 DEF MInv, MirrorTypeOK, Shows, NextEvent, daemonVars, primeVars, boundVars, Nothing
<1>4. Told'
  BY DEF MInv, Told, NextEvent, daemonVars
<1> QED BY <1>3, <1>4 DEF MInv

LEMMA MInvStep == MInv /\ [MirrorNext]_mirrorVars => MInv'
<1> SUFFICES ASSUME MInv, [MirrorNext]_mirrorVars PROVE MInv'
  OBVIOUS
<1>1. CASE UNCHANGED mirrorVars
  BY <1>1 DEF MInv, MirrorTypeOK, Told, mirrorVars, daemonVars, streamVars, primeVars, stateVars,
              boundVars, Nothing
<1> QED BY <1>1, ChangeMInv, CreateMInv, KillMInv, SysTickMInv, DrawFrameMInv, OthersMInv, DialMInv,
           DropMInv, RestartMInv, AdoptMInv, PrimeMInv, NextEventMInv DEF MirrorNext

(* For any number of workspaces and any contents, what a stream was last    *)
(* told is what the daemon remembers, through drops, restarts and other     *)
(* listeners.                                                               *)
THEOREM MirrorInductive == MirrorSpec => []MInv
BY InitMInv, MInvStep, PTL DEF MirrorSpec

(* No stream is told the same of a workspace twice in a row.                *)
THEOREM NothingIsSaidTwice == MirrorSpec => NeverTwice
<1>1. MInv /\ [MirrorNext]_mirrorVars =>
         [\A k \in DOMAIN inbox' \ DOMAIN inbox :
             (DrawFrame /\ inbox'[k].kind = "detail") => inbox'[k].rail # said[inbox'[k].ws]]_mirrorVars
  <2> SUFFICES ASSUME MInv, DrawFrame, NEW k \in DOMAIN inbox' \ DOMAIN inbox
               PROVE  inbox'[k].rail # said[inbox'[k].ws]
    OBVIOUS
  <2>1. PICK news \in Seq(Events) :
            /\ Broadcast(news)
            /\ \A i \in DOMAIN news : \E w \in Unsaid : news[i] = Detail(w, rail[w])
    BY FrameNews
  <2>2. inbox' = inbox \o news /\ inbox \in Seq(Events)
    BY <2>1 DEF Broadcast, MInv, MirrorTypeOK
  <2>3. k - Len(inbox) \in DOMAIN news /\ inbox'[k] = news[k - Len(inbox)]
    BY <2>2, ConcatProperties
  <2>4. PICK w \in Unsaid : inbox'[k] = Detail(w, rail[w])
    BY <2>1, <2>3
  <2> QED BY <2>4, UnsaidIsNew DEF Detail
<1> QED BY <1>1, MirrorInductive, PTL DEF MirrorSpec, NeverTwice
-----------------------------------------------------------------------------
(* STAGING.  A set of numbers in order.                                     *)
Rank(S, s) == Cardinality({t \in S : t <= s})
Climbing(q) == \A i, j \in 1 .. Len(q) : i < j => q[i] < q[j]
Lists(q, S) ==
    /\ q \in Seq(S) /\ Climbing(q)
    /\ \A s \in S : \E i \in 1 .. Len(q) : q[i] = s
Numbers(S) == S \subseteq Int /\ IsFiniteSet(S)

LEMMA RankIs ==
    ASSUME NEW S, Numbers(S), NEW s \in S
    PROVE  Rank(S, s) \in 1 .. Cardinality(S)
<1> DEFINE T == {t \in S : t <= s}
<1>1. Cardinality(S) \in Nat /\ IsFiniteSet(S) /\ s \in Int
    BY FS_CardinalityType DEF Numbers
<1>2. T \subseteq S /\ s \in T
    BY <1>1
<1>3. IsFiniteSet(T) /\ Cardinality(T) <= Cardinality(S)
    BY <1>1, <1>2, FS_Subset
<1>4. Cardinality(T) \in Nat /\ Cardinality(T) # 0
    BY <1>2, <1>3, FS_CardinalityType, FS_EmptySet
<1> HIDE DEF T
<1>5. Cardinality(T) \in 1 .. Cardinality(S)
    BY <1>1, <1>3, <1>4
<1> QED
    BY <1>5 DEF Rank, T

LEMMA RankGrows ==
    ASSUME NEW S, Numbers(S), NEW s \in S, NEW t \in S, s < t
    PROVE  Rank(S, s) < Rank(S, t)
<1> DEFINE A == {x \in S : x <= s}
           B == {x \in S : x <= t}
<1>0. s \in Int /\ t \in Int /\ \A x \in S : x \in Int
    BY DEF Numbers
<1>1. A \subseteq B /\ t \in B /\ t \notin A /\ B \subseteq S
    <2>1. ASSUME NEW x \in A PROVE x \in B
        <3>1. x \in S /\ x <= s /\ x \in Int
            BY <1>0
        <3>2. x <= t
            BY <1>0, <3>1
        <3> QED
            BY <3>1, <3>2
    <2>2. t <= t /\ ~ (t <= s)
        BY <1>0
    <2> QED
        BY <2>1, <2>2
<1>2. IsFiniteSet(B)
    BY <1>1, FS_Subset DEF Numbers
<1>3. IsFiniteSet(A) /\ Cardinality(A) <= Cardinality(B) /\ Cardinality(A) # Cardinality(B)
    BY <1>1, <1>2, FS_Subset
<1>4. Cardinality(A) \in Nat /\ Cardinality(B) \in Nat
    BY <1>2, <1>3, FS_CardinalityType
<1> HIDE DEF A, B
<1>5. Cardinality(A) < Cardinality(B)
    BY <1>3, <1>4
<1> QED
    BY <1>5 DEF Rank, A, B

LEMMA RankOnce ==
    ASSUME NEW S, Numbers(S), NEW s \in S, NEW t \in S, Rank(S, s) = Rank(S, t)
    PROVE  s = t
<1>1. s \in Int /\ t \in Int
    BY DEF Numbers
<1>2. Rank(S, s) \in Int
    BY RankIs
<1>3. ~ (s < t)
    BY <1>2, RankGrows
<1>4. ~ (t < s)
    BY <1>2, RankGrows
<1> QED
    BY <1>1, <1>3, <1>4

LEMMA OrderedLists ==
    ASSUME NEW S, Numbers(S)
    PROVE  /\ Lists(Ordered(S), S) /\ Len(Ordered(S)) = Cardinality(S) /\ Cardinality(S) \in Nat
           /\ DOMAIN Ordered(S) = 1 .. Cardinality(S)
<1> DEFINE n == Cardinality(S)
           f == [s \in S |-> Rank(S, s)]
           q == Ordered(S)
<1>1. n \in Nat /\ IsFiniteSet(S) /\ IsFiniteSet(1 .. n) /\ Cardinality(1 .. n) = n
    <2>1. n \in Nat /\ IsFiniteSet(S)
        BY FS_CardinalityType DEF Numbers
    <2>2. IsFiniteSet(1 .. n) /\ Cardinality(1 .. n) = IF 1 > n THEN 0 ELSE n - 1 + 1
        BY <2>1, FS_Interval
    <2> HIDE DEF n
    <2> QED
        BY <2>1, <2>2
<1>2. f \in [S -> 1 .. n]
    BY RankIs
<1>3. f \in Injection(S, 1 .. n)
    <2>1. \A s, t \in S : f[s] = f[t] => s = t
        BY RankOnce
    <2> HIDE DEF f
    <2> QED
        BY <1>2, <2>1 DEF Injection, IsInjective
<1>4. f \in Surjection(S, 1 .. n)
    <2> HIDE DEF f
    <2> QED
        BY <1>1, <1>3, FS_Injection
<1>5. \A i \in 1 .. n : \E s \in S : Rank(S, s) = i
    <2>1. \A i \in 1 .. n : \E s \in S : f[s] = i
        <3> HIDE DEF f
        <3> QED
            BY <1>4 DEF Surjection
    <2> QED
        BY <2>1
<1>6. q = [i \in 1 .. n |-> CHOOSE s \in S : Rank(S, s) = i]
    BY DEF Ordered, Rank
<1>7. \A i \in 1 .. n : q[i] \in S /\ Rank(S, q[i]) = i
    BY <1>5, <1>6
<1>8. q \in Seq(S) /\ Len(q) = n /\ DOMAIN q = 1 .. n
    <2>1. DOMAIN q = 1 .. n /\ q = [i \in 1 .. n |-> q[i]]
        BY <1>6
    <2> HIDE DEF q, n
    <2>2. q \in [1 .. n -> S]
        BY <1>7, <2>1
    <2> QED
        BY <1>1, <2>2
<1> HIDE DEF q, n
<1>9. Climbing(q)
    <2> SUFFICES ASSUME NEW i \in 1 .. n, NEW j \in 1 .. n, i < j PROVE q[i] < q[j]
        BY <1>8 DEF Climbing
    <2>1. q[i] \in S /\ q[j] \in S /\ q[i] \in Int /\ q[j] \in Int
        BY <1>7 DEF Numbers
    <2>2. q[i] # q[j]
        BY <1>7
    <2>3. ~ (q[j] < q[i])
        <3>1. q[j] < q[i] => Rank(S, q[j]) < Rank(S, q[i])
            BY <2>1, RankGrows
        <3>2. Rank(S, q[j]) = j /\ Rank(S, q[i]) = i
            BY <1>7
        <3> QED
            BY <3>1, <3>2
    <2> QED
        BY <2>1, <2>2, <2>3
<1>10. ASSUME NEW s \in S PROVE \E i \in 1 .. n : q[i] = s
    <2> DEFINE i == Rank(S, s)
    <2>1. i \in 1 .. n
        BY RankIs DEF n
    <2>2. Rank(S, q[i]) = i /\ q[i] \in S
        <3> HIDE DEF i
        <3> QED
            BY <1>7, <2>1
    <2>3. q[i] = s
        BY <2>2, RankOnce
    <2> QED
        BY <2>1, <2>3
<1> QED
    BY <1>1, <1>8, <1>9, <1>10 DEF Lists, q, n

(* There is one way to put a set of numbers in order.                       *)
LEMMA ListedRank ==
    ASSUME NEW S, Numbers(S), NEW q, Lists(q, S), NEW i \in 1 .. Len(q)
    PROVE  q[i] \in S /\ Rank(S, q[i]) = i
<1>1. q \in Seq(S) /\ Len(q) \in Nat /\ \A k \in 1 .. Len(q) : q[k] \in S /\ q[k] \in Int
    <2>1. q \in Seq(S)
        BY DEF Lists
    <2>2. Len(q) \in Nat /\ \A k \in 1 .. Len(q) : q[k] \in S
        BY <2>1
    <2> QED
        BY <2>1, <2>2 DEF Numbers
<1> DEFINE T == {t \in S : t <= q[i]}
           f == [k \in 1 .. i |-> q[k]]
<1>2. i \in Nat /\ IsFiniteSet(1 .. i) /\ Cardinality(1 .. i) = i
    <2>1. i \in Nat /\ i >= 1
        OBVIOUS
    <2>2. IsFiniteSet(1 .. i) /\ Cardinality(1 .. i) = IF 1 > i THEN 0 ELSE i - 1 + 1
        BY <2>1, FS_Interval
    <2> QED
        BY <2>1, <2>2
<1>3. \A j, k \in 1 .. Len(q) : j < k => q[j] < q[k]
    BY DEF Lists, Climbing
<1>4. \A k \in 1 .. i : k \in 1 .. Len(q) /\ q[k] <= q[i]
    BY <1>1, <1>3
<1>5. f \in [1 .. i -> T]
    BY <1>1, <1>4
<1>6. \A t \in T : \E k \in 1 .. i : f[k] = t
    <2> SUFFICES ASSUME NEW t \in T PROVE \E k \in 1 .. i : f[k] = t
        OBVIOUS
    <2>1. PICK k \in 1 .. Len(q) : q[k] = t
        BY DEF Lists
    <2>2. ~ (i < k)
        BY <1>1, <1>3, <2>1
    <2>3. k \in 1 .. i
        BY <1>1, <2>2
    <2> QED
        BY <2>1, <2>3
<1>7. \A j, k \in 1 .. i : f[j] = f[k] => j = k
    <2> SUFFICES ASSUME NEW j \in 1 .. i, NEW k \in 1 .. i, q[j] = q[k] PROVE j = k
        OBVIOUS
    <2>1. j \in 1 .. Len(q) /\ k \in 1 .. Len(q) /\ q[j] \in Int /\ q[k] \in Int
        BY <1>1, <1>4
    <2>2. ~ (j < k) /\ ~ (k < j)
        BY <1>3, <2>1
    <2> QED
        BY <2>1, <2>2
<1> HIDE DEF f
<1>8. f \in Bijection(1 .. i, T)
    <2> HIDE DEF T
    <2>1. f \in Surjection(1 .. i, T)
        BY <1>5, <1>6 DEF Surjection
    <2>2. f \in Injection(1 .. i, T)
        BY <1>5, <1>7 DEF Injection, IsInjective
    <2> QED
        BY <2>1, <2>2 DEF Bijection
<1>9. Cardinality(T) = i
    <2> HIDE DEF T
    <2>1. ExistsBijection(1 .. i, T)
        BY <1>8 DEF ExistsBijection
    <2> QED
        BY <1>2, <2>1, FS_Bijection
<1> QED
    BY <1>1, <1>9 DEF Rank

LEMMA ListedOnce ==
    ASSUME NEW S, Numbers(S), NEW q, Lists(q, S)
    PROVE  q = Ordered(S) /\ Len(q) = Cardinality(S)
<1> DEFINE o == Ordered(S)
           n == Cardinality(S)
<1>1. o \in Seq(S) /\ Len(o) = n /\ n \in Nat /\ Lists(o, S)
    BY OrderedLists DEF Lists
<1> HIDE DEF o, n
<1>2. q \in Seq(S) /\ Len(q) \in Nat
    <2>1. q \in Seq(S)
        BY DEF Lists
    <2> QED
        BY <2>1
<1>3. \A i \in 1 .. Len(q) : i \in 1 .. n
    <2> SUFFICES ASSUME NEW i \in 1 .. Len(q) PROVE i \in 1 .. n
        OBVIOUS
    <2>1. q[i] \in S /\ Rank(S, q[i]) = i
        BY ListedRank
    <2> QED
        BY <2>1, RankIs DEF n
<1>4. \A i \in 1 .. n : i \in 1 .. Len(q)
    <2> SUFFICES ASSUME NEW i \in 1 .. n PROVE i \in 1 .. Len(q)
        OBVIOUS
    <2>1. o[i] \in S /\ Rank(S, o[i]) = i
        BY <1>1, ListedRank
    <2>2. PICK k \in 1 .. Len(q) : q[k] = o[i]
        BY <2>1 DEF Lists
    <2>3. Rank(S, q[k]) = k
        BY ListedRank
    <2> QED
        BY <2>1, <2>2, <2>3
<1>5. Len(q) = n
    <2>1. n >= 1 => n <= Len(q)
        BY <1>1, <1>2, <1>4
    <2>2. Len(q) >= 1 => Len(q) <= n
        BY <1>1, <1>2, <1>3
    <2> QED
        BY <1>1, <1>2, <2>1, <2>2
<1>6. ASSUME NEW i \in 1 .. n PROVE q[i] = o[i]
    <2>1. q[i] \in S /\ Rank(S, q[i]) = i
        BY <1>5, ListedRank
    <2>2. o[i] \in S /\ Rank(S, o[i]) = i
        BY <1>1, ListedRank
    <2> QED
        BY <2>1, <2>2, RankOnce
<1>7. q = o
    BY <1>1, <1>2, <1>5, <1>6, SeqEqual
<1> QED
    BY <1>5, <1>7 DEF o, n

-----------------------------------------------------------------------------
(* STAGING.  The lines of a hunk, and its sides.                            *)
(* The lines of a hunk over the lines O of its old side and N of its new.   *)
Origins == {"context", "removed", "added", "mark"}
Forms == [origin : Origins, text : STRING \union {""}]
What(s, L, R) == IF s \in L THEN IF s \in R THEN "context" ELSE "removed" ELSE "added"
Shown(s, L, R) == Line(What(s, L, R), Text[s])
LinesFor(L, R) == Body(L \union R, L, R) \o Marks(L \union R)

LEMMA OfLines ==
    ASSUME NEW B, B \subseteq Lines
    PROVE  Numbers(B) /\ Cardinality(B) \in Nat /\ Slots \in Nat /\ Lines \subseteq Int
<1>1. Slots \in Nat
    BY StagingAssumption
<1>2. Lines \subseteq Int /\ IsFiniteSet(Lines)
    <2>1. IsFiniteSet(1 .. Slots)
        BY <1>1, FS_Interval
    <2> QED
        BY <1>1, <2>1 DEF Lines
<1>3. IsFiniteSet(B)
    BY <1>2, FS_Subset
<1> QED
    BY <1>1, <1>2, <1>3, FS_CardinalityType DEF Numbers

(* The order of some lines of the file.                                     *)
LEMMA OrderIs ==
    ASSUME NEW B, B \subseteq Lines
    PROVE  LET q == Ordered(B)
               n == Cardinality(B)
           IN  /\ n \in Nat /\ q \in Seq(B) /\ Len(q) = n /\ DOMAIN q = 1 .. n
               /\ \A i \in 1 .. n : q[i] \in B /\ q[i] \in Lines /\ q[i] \in Int
               /\ \A i, j \in 1 .. n : i < j => q[i] < q[j]
               /\ \A i, j \in 1 .. n : q[i] = q[j] => i = j
               /\ \A s \in B : \E i \in 1 .. n : q[i] = s
<1> DEFINE q == Ordered(B)
           n == Cardinality(B)
<1>1. Numbers(B) /\ n \in Nat /\ Lines \subseteq Int
    BY OfLines
<1>2. Lists(q, B) /\ Len(q) = n /\ DOMAIN q = 1 .. n
    BY <1>1, OrderedLists
<1> HIDE DEF q, n
<1>3. q \in Seq(B)
    BY <1>2 DEF Lists
<1>4. \A i \in 1 .. n : q[i] \in B
    BY <1>2, <1>3, ElementOfSeq
<1>5. \A i \in 1 .. n : q[i] \in Lines /\ q[i] \in Int
    BY <1>1, <1>4
<1>6. \A i, j \in 1 .. n : i < j => q[i] < q[j]
    BY <1>2 DEF Lists, Climbing
<1>7. ASSUME NEW i \in 1 .. n, NEW j \in 1 .. n, q[i] = q[j] PROVE i = j
    <2>1. ~ (i < j) /\ ~ (j < i)
        BY <1>5, <1>6, <1>7
    <2> QED
        BY <1>1, <2>1
<1>8. \A s \in B : \E i \in 1 .. n : q[i] = s
    BY <1>2 DEF Lists
<1> QED
    BY <1>1, <1>2, <1>3, <1>4, <1>5, <1>6, <1>7, <1>8 DEF q, n

LEMMA ShownIs ==
    ASSUME NEW s \in Lines, NEW L, NEW R
    PROVE  /\ Shown(s, L, R) \in Forms /\ Shown(s, L, R).text = Text[s]
           /\ Shown(s, L, R).origin = What(s, L, R) /\ What(s, L, R) # "mark"
           /\ Mark \in Forms /\ Mark.origin = "mark" /\ Mark.text = ""
<1>1. Text[s] \in STRING
    BY StagingAssumption
<1>2. What(s, L, R) \in Origins /\ What(s, L, R) # "mark"
    BY DEF What, Origins
<1>3. Mark \in Forms /\ Mark.origin = "mark" /\ Mark.text = ""
    BY DEF Mark, Line, Forms, Origins
<1> QED
    BY <1>1, <1>2, <1>3 DEF Shown, Line, Forms

LEMMA BodyIs ==
    ASSUME NEW B, B \subseteq Lines, NEW L, NEW R
    PROVE  LET body == Body(B, L, R) IN
           /\ body \in Seq(Forms) /\ Len(body) = Cardinality(B)
           /\ \A i \in 1 .. Cardinality(B) : body[i] = Shown(Ordered(B)[i], L, R)
<1> DEFINE n == Cardinality(B)
           body == Body(B, L, R)
<1>1. n \in Nat /\ \A i \in 1 .. n : Ordered(B)[i] \in Lines
    BY OrderIs
<1>2. body = [i \in 1 .. n |-> Shown(Ordered(B)[i], L, R)]
    BY DEF Body, Shown, What
<1> HIDE DEF n, body
<1>3. \A i \in 1 .. n : Shown(Ordered(B)[i], L, R) \in Forms
    BY <1>1, ShownIs
<1>4. body \in [1 .. n -> Forms]
    BY <1>2, <1>3
<1> QED
    BY <1>1, <1>2, <1>4 DEF n, body

LEMMA MarksIs ==
    ASSUME NEW B, B \subseteq Lines
    PROVE  /\ Marks(B) \in Seq(Forms)
           /\ Slots \in B /\ ~ Eol[Slots] => Marks(B) = <<Mark>>
           /\ ~ (Slots \in B /\ ~ Eol[Slots]) => Marks(B) = << >> /\ \A s \in B : Eol[s]
<1>1. Mark \in Forms
    BY DEF Mark, Line, Forms, Origins
<1>2. \A s \in B : ~ Eol[s] => s = Slots
    BY StagingAssumption
<1> QED
    BY <1>1, <1>2 DEF Marks

LEMMA LinesIs ==
    ASSUME NEW L, NEW R, L \subseteq Lines, R \subseteq Lines
    PROVE  LET B == L \union R
               n == Cardinality(B)
               q == Ordered(B)
               lines == LinesFor(L, R)
           IN  /\ lines \in Seq(Forms) /\ n \in Nat /\ DOMAIN lines = 1 .. Len(lines)
               /\ \A i \in 1 .. n : i \in 1 .. Len(lines) /\ lines[i] = Shown(q[i], L, R)
               /\ \/ Len(lines) = n /\ Marks(B) = << >> /\ \A s \in B : Eol[s]
                  \/ /\ Len(lines) = n + 1 /\ lines[n + 1] = Mark /\ Marks(B) = <<Mark>>
                     /\ Slots \in B /\ ~ Eol[Slots]
<1> DEFINE B == L \union R
           n == Cardinality(B)
           q == Ordered(B)
           body == Body(B, L, R)
           marks == Marks(B)
           lines == body \o marks
<1>0. B \subseteq Lines
    OBVIOUS
<1>1. body \in Seq(Forms) /\ Len(body) = n /\ n \in Nat
    BY <1>0, BodyIs, OfLines
<1>2. \A i \in 1 .. n : body[i] = Shown(q[i], L, R)
    BY <1>0, BodyIs
<1>3. /\ marks \in Seq(Forms)
      /\ Slots \in B /\ ~ Eol[Slots] => marks = <<Mark>>
      /\ ~ (Slots \in B /\ ~ Eol[Slots]) => marks = << >> /\ \A s \in B : Eol[s]
    BY <1>0, MarksIs
<1>4. LinesFor(L, R) = lines
    BY DEF LinesFor
<1> HIDE DEF B, n, q, body, marks
<1>5. /\ lines \in Seq(Forms) /\ Len(lines) = n + Len(marks) /\ Len(marks) \in Nat
      /\ \A i \in 1 .. n + Len(marks) : lines[i] = IF i <= n THEN body[i] ELSE marks[i - n]
    <2>1. body \in Seq(Forms) /\ marks \in Seq(Forms)
        BY <1>1, <1>3
    <2>2. /\ lines \in Seq(Forms) /\ Len(lines) = Len(body) + Len(marks)
          /\ \A i \in 1 .. Len(body) + Len(marks) :
                 lines[i] = IF i <= Len(body) THEN body[i] ELSE marks[i - Len(body)]
        BY <2>1, ConcatProperties
    <2>3. Len(body) = n
        BY <1>1
    <2>4. Len(marks) \in Nat
        BY <2>1
    <2> HIDE DEF lines
    <2> QED
        BY <2>2, <2>3, <2>4
<1> HIDE DEF lines
<1>6. \A i \in 1 .. n : i \in 1 .. Len(lines) /\ lines[i] = Shown(q[i], L, R)
    BY <1>1, <1>2, <1>5
<1>7. CASE Slots \in B /\ ~ Eol[Slots]
    <2>1. marks = <<Mark>> /\ Len(marks) = 1 /\ marks[1] = Mark
        BY <1>3, <1>7
    <2>2. Len(lines) = n + 1 /\ lines[n + 1] = marks[1]
        BY <1>1, <1>5, <2>1
    <2> QED
        BY <1>1, <1>4, <1>5, <1>6, <1>7, <2>1, <2>2, LenProperties DEF B, n, q, marks
<1>8. CASE ~ (Slots \in B /\ ~ Eol[Slots])
    <2>1. Len(marks) = 0
        BY <1>3, <1>8
    <2>2. Len(lines) = n
        BY <1>1, <1>5, <2>1
    <2> QED
        BY <1>1, <1>3, <1>4, <1>5, <1>6, <1>8, <2>2, LenProperties DEF B, n, q, marks
<1> QED
    BY <1>7, <1>8

LEMMA LinesType ==
    ASSUME NEW L, NEW R, L \subseteq Lines, R \subseteq Lines
    PROVE  /\ LinesFor(L, R) \in Seq(Forms) /\ Cardinality(L \union R) \in Nat
           /\ DOMAIN LinesFor(L, R) = 1 .. Len(LinesFor(L, R)) /\ Len(LinesFor(L, R)) \in Nat
<1>1. LinesFor(L, R) \in Seq(Forms)
    BY LinesIs, Zenon
<1>2. Cardinality(L \union R) \in Nat
    BY LinesIs, Zenon
<1> QED
    BY <1>1, <1>2, LenProperties

LEMMA LinesAt ==
    ASSUME NEW L, NEW R, L \subseteq Lines, R \subseteq Lines, NEW j \in 1 .. Cardinality(L \union R)
    PROVE  LET s == Ordered(L \union R)[j] IN
           /\ j \in 1 .. Len(LinesFor(L, R)) /\ LinesFor(L, R)[j] = Shown(s, L, R)
           /\ s \in L \union R /\ s \in Lines /\ s \in Int
           /\ LinesFor(L, R)[j].origin = What(s, L, R) /\ LinesFor(L, R)[j].text = Text[s]
           /\ What(s, L, R) # "mark"
<1> DEFINE s == Ordered(L \union R)[j]
<1>1. j \in 1 .. Len(LinesFor(L, R)) /\ LinesFor(L, R)[j] = Shown(s, L, R)
    BY LinesIs, Zenon
<1>2. s \in L \union R /\ s \in Lines /\ s \in Int
    BY OrderIs
<1> HIDE DEF s
<1>3. /\ Shown(s, L, R).text = Text[s] /\ Shown(s, L, R).origin = What(s, L, R)
      /\ What(s, L, R) # "mark"
    BY <1>2, ShownIs
<1> QED
    BY <1>1, <1>2, <1>3 DEF s

LEMMA LinesEnd ==
    ASSUME NEW L, NEW R, L \subseteq Lines, R \subseteq Lines
    PROVE  LET n == Cardinality(L \union R)
               lines == LinesFor(L, R)
           IN  \/ Len(lines) = n /\ \A s \in L \union R : Eol[s]
               \/ /\ Len(lines) = n + 1 /\ lines[n + 1] = Mark /\ lines[n + 1].origin = "mark"
                  /\ Slots \in L \union R /\ ~ Eol[Slots]
<1>1. Mark.origin = "mark"
    BY DEF Mark, Line
<1> QED
    BY <1>1, LinesIs, Zenon

(* Only the last line can be without a newline, and a mark follows it.      *)
LEMMA MarkedIs ==
    ASSUME NEW L, NEW R, L \subseteq Lines, R \subseteq Lines,
           NEW i \in 1 .. Cardinality(L \union R)
    PROVE  LET lines == LinesFor(L, R) IN
           ~ (i < Len(lines) /\ lines[i + 1].origin = "mark") <=> Eol[Ordered(L \union R)[i]]
<1> DEFINE B == L \union R
           n == Cardinality(B)
           q == Ordered(B)
           lines == LinesFor(L, R)
<1>0. B \subseteq Lines /\ i \in 1 .. n
    OBVIOUS
<1>1. n \in Nat /\ Len(lines) \in Nat
    BY LinesType
<1>2. /\ \A j \in 1 .. n : q[j] \in B /\ q[j] \in Lines /\ q[j] \in Int
      /\ \A j, k \in 1 .. n : j < k => q[j] < q[k]
      /\ \A s \in B : \E j \in 1 .. n : q[j] = s
    BY <1>0, OrderIs
<1>3. \A s \in Lines : (Eol[s] \in BOOLEAN) /\ (~ Eol[s] => s = Slots) /\ s <= Slots
    BY StagingAssumption DEF Lines
<1>4. \A j \in 1 .. n : lines[j].origin # "mark"
    BY LinesAt
<1>5. \/ Len(lines) = n /\ \A s \in B : Eol[s]
      \/ /\ Len(lines) = n + 1 /\ lines[n + 1] = Mark /\ lines[n + 1].origin = "mark"
         /\ Slots \in B /\ ~ Eol[Slots]
    BY LinesEnd
<1>6. Slots \in Nat
    BY StagingAssumption
<1> HIDE DEF B, n, q, lines
<1>7. \A j \in 1 .. n : q[j] = Slots => j = n
    <2> SUFFICES ASSUME NEW j \in 1 .. n, q[j] = Slots, j # n PROVE FALSE
        OBVIOUS
    <2>1. n \in 1 .. n /\ j < n
        BY <1>1
    <2>2. q[j] < q[n] /\ q[n] <= Slots /\ q[n] \in Int
        BY <1>2, <1>3, <2>1
    <2> QED
        BY <1>6, <2>2
<1>8. ASSUME i < Len(lines), lines[i + 1].origin = "mark" PROVE ~ Eol[q[i]]
    <2>1. ~ (i + 1 \in 1 .. n)
        BY <1>4, <1>8
    <2>2. i = n /\ Len(lines) = n + 1 /\ Len(lines) # n
        <3>1. i = n
            BY <1>0, <1>1, <2>1
        <3>2. Len(lines) # n
            BY <1>1, <1>8, <3>1
        <3> QED
            BY <1>5, <3>1, <3>2
    <2>3. Slots \in B /\ ~ Eol[Slots]
        BY <1>5, <2>2
    <2>4. PICK j \in 1 .. n : q[j] = Slots
        BY <1>2, <2>3
    <2>5. j = n
        BY <1>7, <2>4
    <2> QED
        BY <2>2, <2>3, <2>4, <2>5
<1>9. ASSUME ~ Eol[q[i]] PROVE i < Len(lines) /\ lines[i + 1].origin = "mark"
    <2>1. q[i] \in B /\ q[i] = Slots
        BY <1>0, <1>2, <1>3, <1>9
    <2>2. i = n
        BY <1>0, <1>7, <2>1
    <2>3. Len(lines) = n + 1 /\ lines[n + 1].origin = "mark"
        BY <1>5, <1>9, <2>1
    <2> QED
        BY <1>1, <2>2, <2>3
<1>10. Eol[q[i]] \in BOOLEAN
    BY <1>0, <1>2, <1>3
<1>11. (~ (i < Len(lines) /\ lines[i + 1].origin = "mark")) <=> Eol[q[i]]
    BY <1>8, <1>9, <1>10
<1> QED
    BY <1>11 DEF B, q, lines

(* A side of a hunk is what the file it is of has there.                    *)
LEMMA SideIs ==
    ASSUME NEW L, NEW R, L \subseteq Lines, R \subseteq Lines, NEW W, "mark" \notin W,
           NEW X, X \subseteq L \union R,
           \A s \in L \union R : What(s, L, R) \in W <=> s \in X
    PROVE  /\ Side(LinesFor(L, R), W) = Content(X)
           /\ Cardinality({i \in DOMAIN LinesFor(L, R) : LinesFor(L, R)[i].origin \in W})
                = Cardinality(X)
<1> DEFINE B == L \union R
           n == Cardinality(B)
           q == Ordered(B)
           lines == LinesFor(L, R)
           I == {i \in DOMAIN lines : lines[i].origin \in W}
           those == Ordered(I)
           m == Cardinality(I)
<1>0. B \subseteq Lines /\ X \subseteq B
    OBVIOUS
<1>1. n \in Nat /\ DOMAIN lines = 1 .. Len(lines) /\ Len(lines) \in Nat
    BY LinesType
<1>2. /\ \A j \in 1 .. n : q[j] \in B /\ q[j] \in Lines /\ q[j] \in Int
      /\ \A j, k \in 1 .. n : j < k => q[j] < q[k]
      /\ \A s \in B : \E j \in 1 .. n : q[j] = s
    BY <1>0, OrderIs
<1>3. \A j \in 1 .. n : /\ j \in 1 .. Len(lines)
                         /\ lines[j].origin = What(q[j], L, R) /\ lines[j].text = Text[q[j]]
    BY LinesAt
<1>4. \/ Len(lines) = n
      \/ Len(lines) = n + 1 /\ lines[n + 1].origin = "mark"
    BY LinesEnd, Zenon
<1>5. \A s \in B : What(s, L, R) \in W <=> s \in X
    OBVIOUS
<1>6. \A j \in 1 .. n : Eol[q[j]] = ~ (j < Len(lines) /\ lines[j + 1].origin = "mark")
    <2> SUFFICES ASSUME NEW j \in 1 .. n
                 PROVE  Eol[q[j]] = ~ (j < Len(lines) /\ lines[j + 1].origin = "mark")
        OBVIOUS
    <2>1. Eol[q[j]] \in BOOLEAN
        BY <1>2, StagingAssumption
    <2>2. ~ (j < Len(lines) /\ lines[j + 1].origin = "mark") <=> Eol[q[j]]
        BY MarkedIs
    <2> HIDE DEF q, lines, n
    <2> QED
        BY <2>1, <2>2
<1> HIDE DEF B, n, q, lines
<1>7. I \subseteq 1 .. n /\ \A i \in 1 .. n : i \in I <=> q[i] \in X
    <2>1. ASSUME NEW i \in I PROVE i \in 1 .. n
        <3>1. i \in 1 .. Len(lines) /\ lines[i].origin # "mark"
            BY <1>1
        <3>2. i # n + 1 \/ Len(lines) = n
            BY <1>4, <3>1
        <3>3. Len(lines) = n \/ Len(lines) = n + 1
            BY <1>4
        <3>4. i \in Nat /\ i >= 1 /\ i <= Len(lines)
            BY <1>1, <3>1
        <3> HIDE DEF I
        <3>5. n \in Nat /\ Len(lines) \in Nat
            BY <1>1
        <3>6. i <= n
            BY <3>2, <3>3, <3>4, <3>5
        <3> QED
            BY <3>4, <3>5, <3>6
    <2>2. ASSUME NEW i \in 1 .. n PROVE i \in I <=> q[i] \in X
        <3>1. i \in DOMAIN lines /\ lines[i].origin = What(q[i], L, R) /\ q[i] \in B
            BY <1>1, <1>2, <1>3
        <3> QED
            BY <1>5, <3>1
    <2> QED
        BY <2>1, <2>2
<1> HIDE DEF I
<1>8. Numbers(I) /\ Numbers(X)
    <2>1. IsFiniteSet(1 .. n)
        <3>1. n \in Int
            BY <1>1
        <3> QED
            BY <3>1, FS_Interval
    <2>2. IsFiniteSet(I)
        BY <1>7, <2>1, FS_Subset
    <2>3. I \subseteq Int
        BY <1>1, <1>7
    <2> QED
        BY <1>0, <2>2, <2>3, OfLines DEF Numbers
<1>9. Lists(those, I) /\ Len(those) = m /\ m \in Nat /\ DOMAIN those = 1 .. m
    BY <1>8, OrderedLists
<1> HIDE DEF those, m
<1>10. those \in Seq(I)
    BY <1>9 DEF Lists
<1>11. /\ \A k \in 1 .. m : those[k] \in I /\ those[k] \in 1 .. n
       /\ \A j, k \in 1 .. m : j < k => those[j] < those[k]
       /\ \A i \in I : \E k \in 1 .. m : those[k] = i
    <2>1. \A k \in 1 .. m : those[k] \in I
        BY <1>9, <1>10, ElementOfSeq
    <2> QED
        BY <1>7, <1>9, <2>1 DEF Lists, Climbing
<1> DEFINE r == [k \in 1 .. m |-> q[those[k]]]
<1>12. \A k \in 1 .. m : r[k] = q[those[k]] /\ r[k] \in X
    BY <1>7, <1>11
<1>13. r \in Seq(X) /\ Len(r) = m
    <2>1. r \in [1 .. m -> X]
        BY <1>12
    <2> HIDE DEF r
    <2> QED
        BY <1>9, <2>1
<1> HIDE DEF r
<1>14. Lists(r, X)
    <2>1. ASSUME NEW j \in 1 .. m, NEW k \in 1 .. m, j < k PROVE r[j] < r[k]
        <3>1. those[j] < those[k] /\ those[j] \in 1 .. n /\ those[k] \in 1 .. n
            BY <1>11, <2>1
        <3>2. q[those[j]] < q[those[k]]
            BY <1>2, <3>1
        <3> QED
            BY <1>12, <3>2
    <2>2. ASSUME NEW s \in X PROVE \E k \in 1 .. m : r[k] = s
        <3>1. PICK i \in 1 .. n : q[i] = s
            BY <1>0, <1>2
        <3>2. i \in I
            BY <1>7, <3>1
        <3>3. PICK k \in 1 .. m : those[k] = i
            BY <1>11, <3>2
        <3> QED
            BY <1>12, <3>1, <3>3
    <2> QED
        BY <1>13, <2>1, <2>2 DEF Lists, Climbing
<1>15. r = Ordered(X) /\ m = Cardinality(X)
    BY <1>8, <1>13, <1>14, ListedOnce
<1> DEFINE side == [k \in 1 .. m |->
                       <<lines[those[k]].text, ~ (those[k] < Len(lines) /\ lines[those[k] + 1].origin = "mark")>>]
<1>16. Side(lines, W) = side
    BY <1>9 DEF Side, I, those
<1>17. \A k \in 1 .. m : <<lines[those[k]].text,
                           ~ (those[k] < Len(lines) /\ lines[those[k] + 1].origin = "mark")>> = Said(r[k])
    <2> SUFFICES ASSUME NEW k \in 1 .. m
                 PROVE  <<lines[those[k]].text,
                          ~ (those[k] < Len(lines) /\ lines[those[k] + 1].origin = "mark")>> = Said(r[k])
        OBVIOUS
    <2>1. those[k] \in 1 .. n
        BY <1>11
    <2>2. lines[those[k]].text = Text[q[those[k]]]
        BY <1>3, <2>1
    <2>3. Eol[q[those[k]]] = ~ (those[k] < Len(lines) /\ lines[those[k] + 1].origin = "mark")
        BY <1>6, <2>1
    <2> QED
        BY <1>12, <2>2, <2>3 DEF Said
<1>18. side = [k \in 1 .. m |-> Said(r[k])]
    BY <1>17
<1>19. Content(X) = [k \in 1 .. m |-> Said(r[k])]
    BY <1>15 DEF Content
<1> QED
    BY <1>15, <1>16, <1>18, <1>19 DEF lines, I, m

-----------------------------------------------------------------------------
(* STAGING.  What subset keeps of a hunk.                                   *)
(* A line below all others is printed last.                                 *)
Below(B, s) == \A b \in B : b < s
PrintedLast(B, s, L, R) == Body(B \union {s}, L, R) = Append(Body(B, L, R), Shown(s, L, R))
LEMMA BodyMore ==
    ASSUME NEW B, B \subseteq Lines, NEW s \in Lines, Below(B, s), NEW L, NEW R
    PROVE  PrintedLast(B, s, L, R)
<1> DEFINE C == B \union {s}
           n == Cardinality(B)
           q == Ordered(B)
           r == Append(q, s)
<1>0. C \subseteq Lines /\ B \subseteq C /\ s \in C
    OBVIOUS
<1>1. Numbers(C) /\ s \in Int
    BY <1>0, OfLines
<1>2. n \in Nat /\ Len(q) = n
    BY OrderIs
<1>2a. q \in Seq(B)
    BY OrderIs
<1>3. /\ \A i \in 1 .. n : q[i] \in B
      /\ \A i, j \in 1 .. n : i < j => q[i] < q[j]
      /\ \A b \in B : \E i \in 1 .. n : q[i] = b
    BY OrderIs
<1>4. \A b \in B : b < s
    BY DEF Below
<1>5. C = B \union {s}
    OBVIOUS
<1> HIDE DEF C, n, q
<1>6. q \in Seq(C)
    BY <1>0, <1>2a, SeqMonotonic
<1>7. /\ r \in Seq(C) /\ Len(r) = n + 1
      /\ \A i \in 1 .. n : r[i] = q[i]
      /\ r[n + 1] = s
    BY <1>0, <1>2, <1>6, AppendProperties
<1> HIDE DEF r
<1>8. Lists(r, C)
    <2>1. ASSUME NEW i \in 1 .. n + 1, NEW j \in 1 .. n + 1, i < j PROVE r[i] < r[j]
        <3>1. i \in 1 .. n /\ r[i] = q[i] /\ q[i] \in B
            <4>1. i \in 1 .. n
                BY <1>2, <2>1
            <4> QED
                BY <1>3, <1>7, <4>1
        <3>2. CASE j = n + 1
            BY <1>4, <1>7, <3>1, <3>2
        <3>3. CASE j # n + 1
            <4>1. j \in 1 .. n /\ r[j] = q[j]
                <5>1. j \in 1 .. n
                    BY <1>2, <3>3
                <5> QED
                    BY <1>7, <5>1
            <4> QED
                BY <1>3, <2>1, <3>1, <4>1
        <3> QED
            BY <3>2, <3>3
    <2>2. ASSUME NEW c \in C PROVE \E i \in 1 .. n + 1 : r[i] = c
        <3>1. CASE c = s
            <4>1. n + 1 \in 1 .. n + 1
                BY <1>2
            <4> QED
                BY <1>7, <3>1, <4>1
        <3>2. CASE c # s
            <4>1. PICK i \in 1 .. n : q[i] = c
                BY <1>3, <1>5, <3>2
            <4>2. i \in 1 .. n + 1
                BY <1>2
            <4> QED
                BY <1>7, <4>1, <4>2
        <3> QED
            BY <3>1, <3>2
    <2>3. Len(r) = n + 1 /\ r \in Seq(C)
        BY <1>7
    <2> QED
        BY <2>1, <2>2, <2>3 DEF Lists, Climbing
<1>9. r = Ordered(C) /\ Cardinality(C) = n + 1
    BY <1>1, <1>7, <1>8, ListedOnce
<1> DEFINE new == Body(C, L, R)
           old == Body(B, L, R)
           more == Append(old, Shown(s, L, R))
<1>10. /\ new \in Seq(Forms) /\ Len(new) = n + 1
       /\ \A i \in 1 .. n + 1 : new[i] = Shown(r[i], L, R)
    BY <1>0, <1>9, BodyIs
<1>11. /\ old \in Seq(Forms) /\ Len(old) = n
       /\ \A i \in 1 .. n : old[i] = Shown(q[i], L, R)
    BY BodyIs DEF n, q
<1>12. Shown(s, L, R) \in Forms
    BY ShownIs
<1> HIDE DEF new, old
<1>13. /\ more \in Seq(Forms) /\ Len(more) = n + 1
       /\ \A i \in 1 .. n : more[i] = old[i]
       /\ more[n + 1] = Shown(s, L, R)
    BY <1>11, <1>12, AppendProperties
<1> HIDE DEF more
<1>14. \A i \in 1 .. n + 1 : new[i] = more[i]
    <2> SUFFICES ASSUME NEW i \in 1 .. n + 1 PROVE new[i] = more[i]
        OBVIOUS
    <2>1. new[i] = Shown(r[i], L, R)
        BY <1>10
    <2>2. CASE i = n + 1
        BY <1>7, <1>13, <2>1, <2>2
    <2>3. CASE i # n + 1
        <3>1. i \in 1 .. n
            BY <1>2, <2>3
        <3> QED
            BY <1>7, <1>11, <1>13, <2>1, <3>1
    <2> QED
        BY <2>2, <2>3
<1>15. new = more
    BY <1>10, <1>13, <1>14, SeqEqual
<1> QED
    BY <1>15 DEF PrintedLast, new, more, old, C

LEMMA BodyOfNone == ASSUME NEW L, NEW R PROVE Body({}, L, R) = << >>
<1>1. Cardinality({}) = 0
    BY FS_EmptySet
<1>2. Body({}, L, R) \in Seq(Forms) /\ Len(Body({}, L, R)) = 0
    BY <1>1, BodyIs
<1> QED
    BY <1>2

-----------------------------------------------------------------------------
(* What subset keeps, as it goes through the lines of a hunk.               *)
Kepts(f, lines, ps) ==
    /\ f[0] = << >>
    /\ \A i \in 1 .. Len(lines) : f[i] = Keep(f[i - 1], lines, ps, i)

LEMMA KeepTypes ==
    ASSUME NEW acc \in Seq(Forms), NEW lines \in Seq(Forms), NEW ps, NEW i \in 1 .. Len(lines)
    PROVE  Keep(acc, lines, ps, i) \in Seq(Forms)
<1>0. lines[i] \in Forms
    BY ElementOfSeq
<1>1. lines[i] \in Forms /\ lines[i].origin \in Origins /\ lines[i].text \in STRING \union {""}
    BY <1>0 DEF Forms
<1>2. Line("context", lines[i].text) \in Forms
    BY <1>1 DEF Forms, Line, Origins
<1> HIDE DEF Forms
<1>3. Append(acc, lines[i]) \in Seq(Forms) /\ Append(acc, Line("context", lines[i].text)) \in Seq(Forms)
    BY <1>1, <1>2, AppendProperties
<1> QED
    BY <1>3 DEF Keep

LEMMA KeptGoes ==
    ASSUME NEW lines \in Seq(Forms), NEW ps
    PROVE  \E f : Kepts(f, lines, ps) /\ Kept(lines, ps) = f[Len(lines)]
<1> DEFINE n == Len(lines)
           S == Seq(Forms)
           step == [x \in S \X (1 .. n) |-> Keep(x[1], lines, ps, x[2])]
<1>1. n \in Nat /\ << >> \in S
    OBVIOUS
<1>2. step \in [S \X (1 .. n) -> S]
    <2>1. \A x \in S \X (1 .. n) : Keep(x[1], lines, ps, x[2]) \in S
        BY KeepTypes
    <2> HIDE DEF S
    <2> QED
        BY <2>1
<1>3. \A g \in S, i \in 1 .. n : step[g, i] = Keep(g, lines, ps, i)
    OBVIOUS
<1> HIDE DEF n, step, S
<1>4. PICK g \in [0 .. n -> S] : Iterates(g, n, << >>, step)
    BY <1>1, <1>2, Iterated
<1>5. g[0] = << >>
    BY <1>4 DEF Iterates
<1>6. ASSUME NEW i \in 1 .. n PROVE g[i] = Keep(g[i - 1], lines, ps, i)
    <2>1. g[i] = step[g[i - 1], i]
        BY <1>4 DEF Iterates
    <2>2. i - 1 \in 0 .. n
        BY <1>1
    <2>3. g[i - 1] \in S
        BY <2>2
    <2> QED
        BY <1>3, <2>1, <2>3
<1> DEFINE e(i) == IF i = 0 THEN << >> ELSE Keep(g[i - 1], lines, ps, i)
<1>7. g = [i \in 0 .. n |-> e(i)]
    <2>1. \A i \in 0 .. n : g[i] = e(i)
        <3> SUFFICES ASSUME NEW i \in 0 .. n PROVE g[i] = e(i)
            OBVIOUS
        <3>1. CASE i = 0
            BY <1>5, <3>1
        <3>2. CASE i # 0
            <4>1. i \in 1 .. n
                BY <1>1, <3>2
            <4> QED
                BY <1>6, <3>2, <4>1
        <3> QED
            BY <3>1, <3>2
    <2> HIDE DEF e
    <2> QED
        BY <2>1
<1> DEFINE kept[i \in 0 .. Len(lines)] == IF i = 0 THEN << >> ELSE Keep(kept[i - 1], lines, ps, i)
<1>8. \E f : f = [i \in 0 .. Len(lines) |-> IF i = 0 THEN << >> ELSE Keep(f[i - 1], lines, ps, i)]
    BY <1>7 DEF n
<1>9. kept = [i \in 0 .. Len(lines) |-> IF i = 0 THEN << >> ELSE Keep(kept[i - 1], lines, ps, i)]
    BY <1>8
<1>10. Kept(lines, ps) = kept[Len(lines)]
    BY DEF Kept
<1> HIDE DEF kept
<1>11. kept[0] = << >>
    BY <1>1, <1>9 DEF n
<1>12. \A i \in 1 .. Len(lines) : kept[i] = Keep(kept[i - 1], lines, ps, i)
    BY <1>1, <1>9 DEF n
<1>13. Kepts(kept, lines, ps)
    BY <1>11, <1>12 DEF Kepts
<1> QED
    BY <1>10, <1>13

-----------------------------------------------------------------------------
(* What the theorems assume of a file: a last line that has no newline, and *)
(* may change, says what no other line says.                                *)
LastTells == \A s \in Lines \ Fixed : ~ Eol[s] => \A t \in Lines \ {s} : Text[t] # Text[s]

(* The lines that are picked, and the new side of what is kept: an addition *)
(* that is not picked is not there, a removal that is not picked is.        *)
Chosen(B, ps) == {Ordered(B)[i] : i \in (1 .. Cardinality(B)) \intersect ps}
NewOf(L, R, C) == (R \intersect (L \union C)) \union (L \ C)

LEMMA LastIs ==
    ASSUME NEW B, B \subseteq Lines, Slots \in B
    PROVE  /\ Cardinality(B) \in 1 .. Cardinality(B)
           /\ Ordered(B)[Cardinality(B)] = Slots
<1> DEFINE n == Cardinality(B)
           q == Ordered(B)
<1>1. n \in Nat /\ Slots \in Nat
    BY OrderIs, StagingAssumption
<1>2. /\ \A i \in 1 .. n : q[i] \in B /\ q[i] \in Lines /\ q[i] \in Int
      /\ \A i, j \in 1 .. n : i < j => q[i] < q[j]
      /\ \A s \in B : \E i \in 1 .. n : q[i] = s
    BY OrderIs
<1>3. \A s \in Lines : s <= Slots
    BY <1>1 DEF Lines
<1> HIDE DEF n, q
<1>4. PICK i \in 1 .. n : q[i] = Slots
    BY <1>2
<1>5. n \in 1 .. n
    BY <1>1
<1>6. i = n
    <2> SUFFICES ASSUME i # n PROVE FALSE
        OBVIOUS
    <2>1. i < n
        BY <1>1
    <2>2. q[i] < q[n] /\ q[n] <= Slots /\ q[n] \in Int
        BY <1>2, <1>3, <1>5, <2>1
    <2> QED
        BY <1>1, <1>4, <2>2
<1> QED
    BY <1>4, <1>5, <1>6 DEF n, q

(* One line more.                                                           *)
More(acc, s, L, M) == IF s \in L \union M THEN Append(acc, Shown(s, L, M)) ELSE acc
LEMMA KeepIs ==
    ASSUME NEW L, NEW R, L \subseteq Lines, R \subseteq Lines, NEW ps, NEW i \in 1 .. Cardinality(L \union R),
           NEW acc
    PROVE  LET s == Ordered(L \union R)[i]
               M == NewOf(L, R, Chosen(L \union R, ps))
           IN  Keep(acc, LinesFor(L, R), ps, i) = More(acc, s, L, M)
<1> DEFINE B == L \union R
           s == Ordered(B)[i]
           C == Chosen(B, ps)
           M == NewOf(L, R, C)
           l == LinesFor(L, R)[i]
<1>1. /\ l = Shown(s, L, R) /\ s \in B /\ s \in Lines
      /\ l.origin = What(s, L, R) /\ l.text = Text[s] /\ What(s, L, R) # "mark"
    <2>1. l = Shown(s, L, R)
        BY LinesAt
    <2>2. s \in B /\ s \in Lines
        BY LinesAt
    <2> HIDE DEF s, l
    <2>3. l.origin = What(s, L, R) /\ l.text = Text[s]
        BY <2>1 DEF Shown, Line
    <2>4. What(s, L, R) # "mark"
        BY DEF What
    <2> QED
        BY <2>1, <2>2, <2>3, <2>4
<1>2. s \in C <=> i \in ps
    <2>1. \A j \in 1 .. Cardinality(B) : Ordered(B)[j] = Ordered(B)[i] => j = i
        BY OrderIs
    <2> QED
        BY <2>1 DEF Chosen
<1>3. s \in M <=> (s \in R /\ (s \in L \/ s \in C)) \/ (s \in L /\ s \notin C)
    BY DEF NewOf
<1>4. Keep(acc, LinesFor(L, R), ps, i) =
          CASE l.origin = "added" /\ i \notin ps -> acc
            [] l.origin = "removed" /\ i \notin ps -> Append(acc, Line("context", l.text))
            [] l.origin = "mark" /\ ~ Stays(acc, LinesFor(L, R), i) -> acc
            [] OTHER -> Append(acc, l)
    BY DEF Keep
<1>5. s \in L \/ s \in R
    BY <1>1
<1>6. s \in L \union M <=> s \in L \/ s \in M
    OBVIOUS
<1> HIDE DEF s, C, M, l
<1>7. CASE s \in L /\ s \in R
    <2>1. s \in M /\ What(s, L, R) = "context" /\ What(s, L, M) = "context"
        BY <1>3, <1>7 DEF What
    <2>2. Shown(s, L, M) = l
        BY <1>1, <2>1 DEF Shown
    <2> QED
        BY <1>1, <1>4, <1>6, <2>1, <2>2 DEF More, B, s, C, M
<1>8. CASE s \in L /\ s \notin R
    <2>1. What(s, L, R) = "removed"
        BY <1>8 DEF What
    <2>2. CASE i \in ps
        <3>1. s \notin M /\ What(s, L, M) = "removed"
            BY <1>2, <1>3, <1>8, <2>2 DEF What
        <3>2. Shown(s, L, M) = l
            BY <1>1, <2>1, <3>1 DEF Shown
        <3> QED
            BY <1>1, <1>4, <1>6, <1>8, <2>1, <2>2, <3>2 DEF More, B, s, C, M
    <2>3. CASE i \notin ps
        <3>1. s \in M /\ What(s, L, M) = "context"
            BY <1>2, <1>3, <1>8, <2>3 DEF What
        <3>2. Shown(s, L, M) = Line("context", l.text)
            BY <1>1, <3>1 DEF Shown
        <3> QED
            BY <1>1, <1>4, <1>6, <1>8, <2>1, <2>3, <3>2 DEF More, B, s, C, M
    <2> QED
        BY <2>2, <2>3
<1>9. CASE s \notin L /\ s \in R
    <2>1. What(s, L, R) = "added" /\ What(s, L, M) = "added"
        BY <1>9 DEF What
    <2>2. Shown(s, L, M) = l
        BY <1>1, <2>1 DEF Shown
    <2>3. s \in L \union M <=> i \in ps
        BY <1>2, <1>3, <1>6, <1>9
    <2>4. CASE i \in ps
        BY <1>1, <1>4, <2>1, <2>2, <2>3, <2>4 DEF More, B, s, C, M
    <2>5. CASE i \notin ps
        BY <1>1, <1>4, <2>1, <2>3, <2>5 DEF More, B, s, C, M
    <2> QED
        BY <2>4, <2>5
<1> QED
    BY <1>5, <1>7, <1>8, <1>9

(* What subset keeps of the lines before the mark.                          *)
LEMMA KeptBody ==
    ASSUME NEW L, NEW R, L \subseteq Lines, R \subseteq Lines, NEW ps, NEW f,
           Kepts(f, LinesFor(L, R), ps)
    PROVE  LET M == NewOf(L, R, Chosen(L \union R, ps))
           IN  f[Cardinality(L \union R)] = Body(L \union M, L, M)
<1> DEFINE B == L \union R
           n == Cardinality(B)
           q == Ordered(B)
           C == Chosen(B, ps)
           M == NewOf(L, R, C)
           D == L \union M
           upto(i) == {s \in D : \E j \in 1 .. i : q[j] = s}
           T == {i \in 0 .. n : f[i] = Body(upto(i), L, M)}
<1>0. M \subseteq B /\ D \subseteq B /\ B \subseteq Lines
    BY DEF NewOf
<1>1. n \in Nat
    BY LinesType
<1>2. /\ \A i \in 1 .. n : q[i] \in B /\ q[i] \in Lines /\ q[i] \in Int
      /\ \A i, j \in 1 .. n : i < j => q[i] < q[j]
      /\ \A s \in B : \E i \in 1 .. n : q[i] = s
    BY <1>0, OrderIs
<1>3. \A i \in 1 .. n : \A acc : Keep(acc, LinesFor(L, R), ps, i) = More(acc, q[i], L, M)
    BY KeepIs
<1>4. f[0] = << >> /\ \A i \in 1 .. n : f[i] = Keep(f[i - 1], LinesFor(L, R), ps, i)
    <2>1. \A i \in 1 .. n : i \in 1 .. Len(LinesFor(L, R))
        BY LinesAt
    <2> QED
        BY <2>1 DEF Kepts
<1> HIDE DEF B, n, q, C, M, D
<1>5. 0 \in T
    <2>1. upto(0) = {}
        OBVIOUS
    <2>2. f[0] = Body(upto(0), L, M)
        BY <1>4, <2>1, BodyOfNone
    <2> QED
        BY <1>1, <2>2
<1>6. ASSUME NEW i \in 0 .. n - 1, i \in T PROVE i + 1 \in T
    <2>1. i + 1 \in 1 .. n /\ (i + 1) - 1 = i /\ i + 1 \in 0 .. n /\ i \in Nat
        BY <1>1
    <2> DEFINE s == q[i + 1]
    <2>2. f[i + 1] = IF s \in D THEN Append(f[i], Shown(s, L, M)) ELSE f[i]
        <3>1. f[i + 1] = More(f[i], s, L, M)
            BY <1>3, <1>4, <2>1
        <3> QED
            BY <3>1 DEF More, D
    <2>3. f[i] = Body(upto(i), L, M)
        BY <1>6
    <2>4. \A j \in 1 .. i : j \in 1 .. n /\ q[j] < s
        BY <1>1, <1>2, <2>1
    <2>5. \A j \in 1 .. i + 1 : j \in 1 .. i \/ j = i + 1
        BY <2>1
    <2>6. \A j \in 1 .. i : j \in 1 .. i + 1
        BY <2>1
    <2>7. i + 1 \in 1 .. i + 1
        BY <2>1
    <2> HIDE DEF T
    <2>8. CASE s \in D
        <3>1. upto(i + 1) = upto(i) \union {s}
            BY <2>5, <2>6, <2>7, <2>8
        <3>2. upto(i) \subseteq Lines /\ s \in Lines
            BY <1>0, <2>8
        <3>3. Below(upto(i), s)
            BY <2>4 DEF Below
        <3> HIDE DEF upto, s
        <3>4. Body(upto(i) \union {s}, L, M) = Append(Body(upto(i), L, M), Shown(s, L, M))
            <4>1. PrintedLast(upto(i), s, L, M)
                BY <3>2, <3>3, BodyMore
            <4> QED
                BY <4>1 DEF PrintedLast
        <3>5. f[i + 1] = Body(upto(i + 1), L, M)
            BY <2>2, <2>3, <2>8, <3>1, <3>4
        <3> QED
            BY <2>1, <3>5 DEF T
    <2>9. CASE s \notin D
        <3>1. upto(i + 1) = upto(i)
            BY <2>5, <2>6, <2>9
        <3> HIDE DEF upto, s
        <3>2. f[i + 1] = Body(upto(i + 1), L, M)
            BY <2>2, <2>3, <2>9, <3>1
        <3> QED
            BY <2>1, <3>2 DEF T
    <2> QED
        BY <2>8, <2>9
<1>7. upto(n) = D
    BY <1>0, <1>2
<1> HIDE DEF T
<1>8. n \in T
    BY <1>1, <1>5, <1>6, UpTo
<1>9. f[n] = Body(upto(n), L, M)
    BY <1>8 DEF T
<1> HIDE DEF upto
<1>10. f[n] = Body(D, L, M)
    BY <1>7, <1>9
<1> QED
    BY <1>10 DEF D, M, C, n, B

(* A piece of a hunk is the hunk for its old side and the new side that was *)
(* picked.                                                                  *)
LEMMA KeptIs ==
    ASSUME LastTells, NEW L, NEW R, L \subseteq Lines, R \subseteq Lines, Fixed \intersect R \subseteq L, NEW ps
    PROVE  Kept(LinesFor(L, R), ps) = LinesFor(L, NewOf(L, R, Chosen(L \union R, ps)))
<1> DEFINE B == L \union R
           n == Cardinality(B)
           q == Ordered(B)
           M == NewOf(L, R, Chosen(B, ps))
           D == L \union M
           lines == LinesFor(L, R)
           acc == Body(D, L, M)
<1>0. D \subseteq B /\ B \subseteq Lines /\ D \subseteq Lines
    BY DEF NewOf
<1>1. lines \in Seq(Forms) /\ n \in Nat
    BY LinesType
<1>2. PICK f : Kepts(f, lines, ps) /\ Kept(lines, ps) = f[Len(lines)]
    BY <1>1, KeptGoes
<1>3. f[n] = acc
    BY <1>2, KeptBody
<1>4. LinesFor(L, M) = acc \o Marks(D)
    BY DEF LinesFor
<1>5. /\ Slots \in D /\ ~ Eol[Slots] => Marks(D) = <<Mark>>
      /\ ~ (Slots \in D /\ ~ Eol[Slots]) => Marks(D) = << >>
    BY <1>0, MarksIs
<1>6. acc \in Seq(Forms) /\ Len(acc) = Cardinality(D) /\ Cardinality(D) \in Nat
    BY <1>0, BodyIs, OfLines
<1>7. \A i \in 1 .. Cardinality(D) : acc[i] = Shown(Ordered(D)[i], L, M)
    <2> SUFFICES ASSUME NEW i \in 1 .. Cardinality(D) PROVE acc[i] = Shown(Ordered(D)[i], L, M)
        OBVIOUS
    <2> HIDE DEF D, M
    <2> QED
        BY <1>0, BodyIs
<1>8. \/ Len(lines) = n /\ \A s \in B : Eol[s]
      \/ /\ Len(lines) = n + 1 /\ lines[n + 1] = Mark /\ lines[n + 1].origin = "mark"
         /\ Slots \in B /\ ~ Eol[Slots]
    BY LinesEnd
<1> DEFINE kept == LinesFor(L, M)
<1> HIDE DEF M, D, acc, lines, kept
<1>9. CASE Len(lines) = n /\ \A s \in B : Eol[s]
    <2>1. Marks(D) = << >>
        BY <1>0, <1>5, <1>9
    <2>2. kept = acc
        BY <1>4, <1>6, <2>1, ConcatEmptySeq DEF kept
    <2> QED
        BY <1>2, <1>3, <1>9, <2>2 DEF kept, M, lines
<1>10. CASE /\ Len(lines) = n + 1 /\ lines[n + 1] = Mark /\ lines[n + 1].origin = "mark"
            /\ Slots \in B /\ ~ Eol[Slots]
    <2>0. n + 1 \in 1 .. Len(lines) /\ (n + 1) - 1 = n
        BY <1>1, <1>10
    <2>1. f[n + 1] = Keep(acc, lines, ps, n + 1)
        BY <1>2, <1>3, <2>0 DEF Kepts
    <2>2. f[n + 1] = IF Stays(acc, lines, n + 1) THEN Append(acc, Mark) ELSE acc
        BY <1>10, <2>1 DEF Keep
    <2>3. n \in 1 .. n /\ q[n] = Slots
        BY <1>0, <1>10, LastIs
    <2>4. lines[n].text = Text[Slots]
        BY <2>3, LinesAt DEF lines
    <2>5. Stays(acc, lines, n + 1) <=>
              \/ Len(acc) = n
              \/ acc # << >> /\ n + 1 > 1 /\ acc[Len(acc)].text = Text[Slots]
        BY <2>0, <2>4 DEF Stays, Last
    <2>6. CASE Slots \in D
        <3>1. Cardinality(D) \in 1 .. Cardinality(D) /\ Ordered(D)[Cardinality(D)] = Slots
            BY <1>0, <2>6, LastIs
        <3>2. acc[Len(acc)] = Shown(Slots, L, M)
            BY <1>6, <1>7, <3>1
        <3>3. acc[Len(acc)].text = Text[Slots]
            <4>1. Slots \in Lines
                BY <1>0, <2>6
            <4> QED
                BY <3>2, <4>1, ShownIs
        <3>4. acc # << >> /\ n + 1 > 1
            <4>1. Len(acc) # 0
                BY <1>6, <3>1
            <4> QED
                BY <1>1, <2>3, <4>1
        <3>5. f[n + 1] = Append(acc, Mark)
            BY <2>2, <2>5, <3>3, <3>4
        <3>6. Mark \in Forms
            BY DEF Mark, Line, Forms, Origins
        <3>7. kept = Append(acc, Mark)
            BY <1>4, <1>5, <1>6, <1>10, <2>6, <3>6, AppendIsConcat DEF kept
        <3> QED
            BY <1>2, <1>10, <3>5, <3>7 DEF kept, M, lines
    <2>7. CASE Slots \notin D
        <3>1. Len(acc) # n
            <4>1. IsFiniteSet(B) /\ D # B
                BY <1>0, <1>10, <2>7, OfLines DEF Numbers
            <4>2. Cardinality(D) # Cardinality(B)
                BY <1>0, <4>1, FS_Subset
            <4> QED
                BY <1>6, <4>2
        <3>2. ASSUME acc # << >> PROVE acc[Len(acc)].text # Text[Slots]
            <4>1. Cardinality(D) \in 1 .. Cardinality(D)
                <5>1. Len(acc) # 0
                    BY <1>6, <3>2
                <5> QED
                    BY <1>6, <5>1
            <4>2. acc[Len(acc)] = Shown(Ordered(D)[Cardinality(D)], L, M)
                BY <1>6, <1>7, <4>1
            <4>3. Ordered(D)[Cardinality(D)] \in D /\ Ordered(D)[Cardinality(D)] \in Lines
                BY <1>0, <4>1, OrderIs
            <4>4. acc[Len(acc)].text = Text[Ordered(D)[Cardinality(D)]]
                <5>1. \A s \in Lines : Shown(s, L, M).text = Text[s]
                    BY ShownIs
                <5> QED
                    BY <4>2, <4>3, <5>1
            <4>5. Slots \in Lines \ Fixed
                BY <1>0, <1>10, <2>7 DEF B, D
            <4> QED
                BY <1>10, <2>7, <4>3, <4>4, <4>5 DEF LastTells
        <3>3. f[n + 1] = acc
            BY <2>2, <2>5, <3>1, <3>2
        <3>4. kept = acc
            BY <1>4, <1>5, <1>6, <2>7, ConcatEmptySeq DEF kept
        <3> QED
            BY <1>2, <1>10, <3>3, <3>4 DEF kept, M, lines
    <2> QED
        BY <2>6, <2>7
<1> QED
    BY <1>8, <1>9, <1>10

-----------------------------------------------------------------------------
(* STAGING.  A file cut in parts.                                           *)
Saids == STRING \X BOOLEAN

LEMMA SaidIs ==
    /\ \A s \in Lines : Said(s) \in Saids
    /\ \A s \in Lines \ Fixed : \A t \in Lines : Said(s) = Said(t) => s = t
    BY StagingAssumption DEF Said, Saids

LEMMA ContentIs ==
    ASSUME NEW T, T \subseteq Lines
    PROVE  /\ Content(T) \in Seq(Saids) /\ Len(Content(T)) = Cardinality(T)
           /\ Cardinality(T) \in Nat
           /\ \A i \in 1 .. Cardinality(T) : Content(T)[i] = Said(Ordered(T)[i])
<1> DEFINE n == Cardinality(T)
           q == Ordered(T)
           c == Content(T)
<1>1. n \in Nat /\ \A i \in 1 .. n : q[i] \in Lines
    BY OrderIs
<1>2. c = [i \in 1 .. n |-> Said(q[i])]
    BY DEF Content
<1> HIDE DEF n, q, c
<1>3. \A i \in 1 .. n : Said(q[i]) \in Saids
    BY <1>1, SaidIs
<1>4. c \in [1 .. n -> Saids]
    BY <1>2, <1>3
<1> QED
    BY <1>1, <1>2, <1>4 DEF n, q, c

(* Lines that follow others are listed after them.                          *)
LEMMA ContentJoins ==
    ASSUME NEW A, NEW B, A \subseteq Lines, B \subseteq Lines, \A a \in A : \A b \in B : a < b
    PROVE  Content(A \union B) = Content(A) \o Content(B)
<1> DEFINE S == A \union B
           a == Ordered(A)
           b == Ordered(B)
           m == Cardinality(A)
           n == Cardinality(B)
           q == a \o b
<1>1. /\ m \in Nat /\ a \in Seq(A) /\ Len(a) = m /\ \A i \in 1 .. m : a[i] \in A /\ a[i] \in Int
      /\ \A i, j \in 1 .. m : i < j => a[i] < a[j]
      /\ \A s \in A : \E i \in 1 .. m : a[i] = s
    BY OrderIs
<1>2. /\ n \in Nat /\ b \in Seq(B) /\ Len(b) = n /\ \A i \in 1 .. n : b[i] \in B /\ b[i] \in Int
      /\ \A i, j \in 1 .. n : i < j => b[i] < b[j]
      /\ \A s \in B : \E i \in 1 .. n : b[i] = s
    BY OrderIs
<1>3. A \subseteq S /\ B \subseteq S /\ S \subseteq Lines
    OBVIOUS
<1>4. \A s \in S : s \in A \/ s \in B
    OBVIOUS
<1> HIDE DEF a, b, m, n, S
<1>5. a \in Seq(S) /\ b \in Seq(S)
    BY <1>1, <1>2, <1>3
<1>6. q \in Seq(S) /\ Len(q) = m + n /\ \A i \in 1 .. m + n : q[i] = IF i <= m THEN a[i] ELSE b[i - m]
    <2>1. /\ a \o b \in Seq(S) /\ Len(a \o b) = Len(a) + Len(b)
          /\ \A i \in 1 .. Len(a) + Len(b) : (a \o b)[i] = IF i <= Len(a) THEN a[i] ELSE b[i - Len(a)]
        BY <1>5, ConcatProperties
    <2>2. Len(a) = m /\ Len(b) = n
        BY <1>1, <1>2
    <2> QED
        BY <2>1, <2>2
<1> HIDE DEF q
<1>7. \A i \in 1 .. m : i \in 1 .. m + n /\ q[i] = a[i]
    BY <1>1, <1>2, <1>6
<1>8. \A i \in 1 .. n : m + i \in 1 .. m + n /\ q[m + i] = b[i]
    <2> SUFFICES ASSUME NEW i \in 1 .. n PROVE m + i \in 1 .. m + n /\ q[m + i] = b[i]
        OBVIOUS
    <2>1. m + i \in 1 .. m + n /\ ~ (m + i <= m) /\ (m + i) - m = i
        BY <1>1, <1>2
    <2> QED
        BY <1>6, <2>1
<1>9. ASSUME NEW i \in 1 .. m + n PROVE i \in 1 .. m \/ \E j \in 1 .. n : i = m + j
    <2>1. CASE i <= m
        BY <1>1, <1>2, <2>1
    <2>2. CASE ~ (i <= m)
        <3>1. i - m \in 1 .. n /\ i = m + (i - m)
            BY <1>1, <1>2, <2>2
        <3> QED
            BY <3>1
    <2> QED
        BY <2>1, <2>2
<1>10. Climbing(q)
    <2> SUFFICES ASSUME NEW i \in 1 .. m + n, NEW j \in 1 .. m + n, i < j PROVE q[i] < q[j]
        BY <1>6 DEF Climbing
    <2>1. CASE i \in 1 .. m /\ j \in 1 .. m
        BY <1>1, <1>7, <2>1
    <2>2. CASE i \in 1 .. m /\ j \notin 1 .. m
        <3>1. PICK v \in 1 .. n : j = m + v
            BY <1>9, <2>2
        <3>2. q[i] \in A /\ q[j] \in B
            BY <1>1, <1>2, <1>7, <1>8, <2>2, <3>1
        <3> QED
            BY <3>2
    <2>3. CASE i \notin 1 .. m
        <3>1. PICK u \in 1 .. n : i = m + u
            BY <1>9, <2>3
        <3>2. j \notin 1 .. m
            BY <1>1, <1>2, <3>1
        <3>3. PICK v \in 1 .. n : j = m + v
            BY <1>9, <3>2
        <3>4. u < v
            BY <1>1, <1>2, <3>1, <3>3
        <3> QED
            BY <1>2, <1>8, <3>1, <3>3, <3>4
    <2> QED
        BY <2>1, <2>2, <2>3
<1>11. \A s \in S : \E i \in 1 .. Len(q) : q[i] = s
    <2> SUFFICES ASSUME NEW s \in S PROVE \E i \in 1 .. m + n : q[i] = s
        BY <1>6
    <2>1. CASE s \in A
        BY <1>1, <1>7, <2>1
    <2>2. CASE s \in B
        BY <1>2, <1>8, <2>2
    <2> QED
        BY <1>4, <2>1, <2>2
<1>12. q = Ordered(S) /\ m + n = Cardinality(S)
    <2>1. Lists(q, S)
        BY <1>6, <1>10, <1>11 DEF Lists
    <2>2. Numbers(S)
        BY <1>3, OfLines
    <2> QED
        BY <1>6, <2>1, <2>2, ListedOnce
<1> DEFINE c == Content(S)
           d == Content(A)
           e == Content(B)
           f == d \o e
<1>13. c \in Seq(Saids) /\ Len(c) = m + n /\ \A i \in 1 .. m + n : c[i] = Said(q[i])
    BY <1>3, <1>12, ContentIs
<1>14. d \in Seq(Saids) /\ Len(d) = m /\ \A i \in 1 .. m : d[i] = Said(a[i])
    BY ContentIs DEF m, a
<1>15. e \in Seq(Saids) /\ Len(e) = n /\ \A i \in 1 .. n : e[i] = Said(b[i])
    BY ContentIs DEF n, b
<1> HIDE DEF c, d, e
<1>16. f \in Seq(Saids) /\ Len(f) = m + n /\ \A i \in 1 .. m + n : f[i] = IF i <= m THEN d[i] ELSE e[i - m]
    BY <1>14, <1>15, ConcatProperties
<1> HIDE DEF f
<1>17. ASSUME NEW i \in 1 .. m + n PROVE c[i] = f[i]
    <2>1. CASE i <= m
        <3>1. i \in 1 .. m
            BY <1>1, <1>2, <2>1
        <3> QED
            BY <1>7, <1>13, <1>14, <1>16, <2>1, <3>1
    <2>2. CASE ~ (i <= m)
        <3>1. i - m \in 1 .. n
            BY <1>1, <1>2, <2>2
        <3>2. q[i] = b[i - m]
            BY <1>6, <2>2
        <3> QED
            BY <1>13, <1>15, <1>16, <2>2, <3>1, <3>2
    <2> QED
        BY <2>1, <2>2
<1>18. c = f
    BY <1>13, <1>16, <1>17, SeqEqual
<1> QED
    BY <1>18 DEF c, f, d, e, S

(* Three parts of a sequence.                                               *)
LEMMA Parts ==
    ASSUME NEW S, NEW u \in Seq(S), NEW v \in Seq(S), NEW w \in Seq(S)
    PROVE  /\ Len((u \o v) \o w) = Len(u) + Len(v) + Len(w)
           /\ SubSeq((u \o v) \o w, 1, Len(u)) = u
           /\ SubSeq((u \o v) \o w, Len(u) + 1, Len(u) + Len(v)) = v
           /\ SubSeq((u \o v) \o w, Len(u) + Len(v) + 1, Len((u \o v) \o w)) = w
<1> DEFINE d == u \o v
           c == d \o w
           m == Len(u)
           n == Len(v)
           r == Len(w)
<1>1. m \in Nat /\ n \in Nat /\ r \in Nat
    BY LenProperties
<1>2. d \in Seq(S) /\ Len(d) = m + n /\ \A i \in 1 .. m + n : d[i] = IF i <= m THEN u[i] ELSE v[i - m]
    BY ConcatProperties
<1> HIDE DEF d
<1>3. c \in Seq(S) /\ Len(c) = m + n + r
      /\ \A i \in 1 .. m + n + r : c[i] = IF i <= m + n THEN d[i] ELSE w[i - (m + n)]
    <2>0. d \in Seq(S)
        BY <1>2
    <2>1. /\ d \o w \in Seq(S) /\ Len(d \o w) = Len(d) + Len(w)
          /\ \A i \in 1 .. Len(d) + Len(w) : (d \o w)[i] = IF i <= Len(d) THEN d[i] ELSE w[i - Len(d)]
        BY <2>0, ConcatProperties, Zenon
    <2>2. Len(d) = m + n /\ Len(w) = r
        BY <1>2
    <2> HIDE DEF m, n, r
    <2> QED
        BY <2>1, <2>2
<1> HIDE DEF c
<1>4. \A i \in 1 .. m + n + r : c[i] \in S
    BY <1>3, ElementOfSeq
<1> HIDE DEF m, n, r
<1>5. SubSeq(c, 1, m) = u
    <2> DEFINE g == SubSeq(c, 1, m)
    <2>1. \A i \in 1 .. m : c[i] \in S
        BY <1>1, <1>4
    <2>2. g \in Seq(S) /\ Len(g) = (IF 1 <= m THEN m - 1 + 1 ELSE 0)
          /\ \A i \in 1 .. m - 1 + 1 : g[i] = c[1 + i - 1]
        BY <1>1, <2>1, SubSeqProperties
    <2> HIDE DEF g
    <2>3. Len(g) = m
        BY <1>1, <2>2
    <2>4. ASSUME NEW i \in 1 .. m PROVE g[i] = u[i]
        <3>1. i \in 1 .. m - 1 + 1 /\ 1 + i - 1 = i /\ i \in 1 .. m + n /\ i \in 1 .. m + n + r
              /\ i <= m /\ i <= m + n
            BY <1>1
        <3> QED
            BY <1>2, <1>3, <2>2, <3>1
    <2>5. g = u
        BY <2>2, <2>3, <2>4, SeqEqual DEF m
    <2> QED
        BY <2>5 DEF g
<1>6. SubSeq(c, m + 1, m + n) = v
    <2> DEFINE g == SubSeq(c, m + 1, m + n)
    <2>1. \A i \in m + 1 .. m + n : c[i] \in S
        BY <1>1, <1>4
    <2>2. g \in Seq(S) /\ Len(g) = (IF m + 1 <= m + n THEN (m + n) - (m + 1) + 1 ELSE 0)
          /\ \A i \in 1 .. (m + n) - (m + 1) + 1 : g[i] = c[(m + 1) + i - 1]
        BY <1>1, <2>1, SubSeqProperties
    <2> HIDE DEF g
    <2>3. Len(g) = n
        BY <1>1, <2>2
    <2>4. ASSUME NEW i \in 1 .. n PROVE g[i] = v[i]
        <3>1. i \in 1 .. (m + n) - (m + 1) + 1 /\ (m + 1) + i - 1 = m + i /\ m + i \in 1 .. m + n
              /\ m + i \in 1 .. m + n + r /\ ~ (m + i <= m) /\ m + i <= m + n /\ (m + i) - m = i
            BY <1>1
        <3>2. c[m + i] = v[i]
            BY <1>2, <1>3, <3>1
        <3> QED
            BY <2>2, <3>1, <3>2
    <2>5. g = v
        BY <2>2, <2>3, <2>4, SeqEqual DEF n
    <2> QED
        BY <2>5 DEF g
<1>7. SubSeq(c, m + n + 1, Len(c)) = w
    <2> DEFINE g == SubSeq(c, m + n + 1, m + n + r)
    <2>1. \A i \in m + n + 1 .. m + n + r : c[i] \in S
        BY <1>1, <1>4
    <2>2. g \in Seq(S) /\ Len(g) = (IF m + n + 1 <= m + n + r THEN (m + n + r) - (m + n + 1) + 1 ELSE 0)
          /\ \A i \in 1 .. (m + n + r) - (m + n + 1) + 1 : g[i] = c[(m + n + 1) + i - 1]
        BY <1>1, <2>1, SubSeqProperties
    <2> HIDE DEF g
    <2>3. Len(g) = r
        BY <1>1, <2>2
    <2>4. ASSUME NEW i \in 1 .. r PROVE g[i] = w[i]
        <3>1. i \in 1 .. (m + n + r) - (m + n + 1) + 1 /\ (m + n + 1) + i - 1 = m + n + i
              /\ m + n + i \in 1 .. m + n + r /\ ~ (m + n + i <= m + n) /\ (m + n + i) - (m + n) = i
            BY <1>1
        <3>2. c[m + n + i] = w[i]
            BY <1>3, <3>1
        <3> QED
            BY <2>2, <3>1, <3>2
    <2>5. g = w
        BY <2>2, <2>3, <2>4, SeqEqual DEF r
    <2> QED
        BY <1>3, <2>5 DEF g
<1> QED
    BY <1>3, <1>5, <1>6, <1>7 DEF c, d, m, n, r

LEMMA SpanIs ==
    ASSUME NEW k \in DOMAIN Spans
    PROVE  /\ Spans[k][1] \in Lines /\ Spans[k][2] \in Lines /\ Spans[k][1] \in Int /\ Spans[k][2] \in Int
           /\ \E s \in Fixed : s \in Span(k)
           /\ Spans[k][1] <= Spans[k][2]
           /\ Spans[k][1] \in Fixed \union {1} /\ Spans[k][2] \in Fixed \union {Slots}
<1>1. Spans[k] \in Lines \X Lines
    BY StagingAssumption
<1>2. Lines \subseteq Int
    BY OfLines
<1>3. Spans[k][1] \in Lines /\ Spans[k][2] \in Lines /\ Spans[k][1] \in Int /\ Spans[k][2] \in Int
    BY <1>1, <1>2
<1>4. PICK s \in Fixed : s \in Span(k)
    BY StagingAssumption DEF Span
<1>5. Spans[k][1] <= Spans[k][2]
    BY <1>3, <1>4 DEF Span
<1> QED
    BY <1>3, <1>4, <1>5, StagingAssumption

(* What is above a span, in it, and below it.                               *)
Over(T, k) == {s \in T : s < Spans[k][1]}
Under(T, k) == {s \in T : s > Spans[k][2]}
LEMMA SpanParts ==
    ASSUME NEW T, T \subseteq Lines, NEW k \in DOMAIN Spans, NEW Y, Y \subseteq Lines, Y \subseteq Span(k)
    PROVE  /\ Content((Over(T, k) \union Y) \union Under(T, k))
                  = (Content(Over(T, k)) \o Content(Y)) \o Content(Under(T, k))
           /\ T = (Over(T, k) \union (T \intersect Span(k))) \union Under(T, k)
           /\ Over(T, k) \subseteq Lines /\ Under(T, k) \subseteq Lines
<1>1. Spans[k][1] \in Int /\ Spans[k][2] \in Int /\ Spans[k][1] <= Spans[k][2]
    BY SpanIs
<1>2. Lines \subseteq Int
    BY OfLines
<1>3. Over(T, k) \subseteq Lines /\ Under(T, k) \subseteq Lines
    BY DEF Over, Under
<1>4. \A s \in Over(T, k) : s \in Int /\ s < Spans[k][1]
    BY <1>2 DEF Over
<1>5. \A s \in Under(T, k) : s \in Int /\ Spans[k][2] < s
    BY <1>2 DEF Under
<1>6. \A s \in Y : s \in Int /\ Spans[k][1] <= s /\ s <= Spans[k][2]
    BY <1>1, <1>2 DEF Span
<1>7. \A s \in T : s \in Over(T, k) \/ s \in Span(k) \/ s \in Under(T, k)
    <2> SUFFICES ASSUME NEW s \in T PROVE s < Spans[k][1] \/ s \in Span(k) \/ s > Spans[k][2]
        BY DEF Over, Under
    <2>1. s \in Int
        BY <1>2
    <2> QED
        BY <1>1, <2>1 DEF Span
<1>8. Over(T, k) \subseteq T /\ Under(T, k) \subseteq T
    BY DEF Over, Under
<1>9. \A s \in Over(T, k) : \A t \in Y : s < t
    BY <1>1, <1>4, <1>6
<1>10. \A s \in Over(T, k) \union Y : \A t \in Under(T, k) : s < t
    BY <1>1, <1>4, <1>5, <1>6
<1>11. Content(Over(T, k) \union Y) = Content(Over(T, k)) \o Content(Y)
    BY <1>3, <1>9, ContentJoins
<1>12. Content((Over(T, k) \union Y) \union Under(T, k)) = Content(Over(T, k) \union Y) \o Content(Under(T, k))
    BY <1>3, <1>10, ContentJoins
<1> QED
    BY <1>3, <1>7, <1>8, <1>11, <1>12

-----------------------------------------------------------------------------
(* STAGING.  Where a hunk belongs, and what applying it there makes.        *)
(* A hunk whose old side is X and whose new side is Y.                      *)
Turns(h, X, Y) ==
    /\ Side(h.lines, Old) = Content(X) /\ Side(h.lines, New) = Content(Y)
    /\ OldLen(h) = Cardinality(X) /\ NewLen(h) = Cardinality(Y)

(* A hunk that turns what a file holds of a span, and states the line where *)
(* the span begins in it, is accepted and changes the span only.            *)
LEMMA Belongs ==
    ASSUME NEW T, T \subseteq Lines, NEW k \in DOMAIN Spans, NEW X, X = T \intersect Span(k),
           NEW Y, Y \subseteq Lines, Y \subseteq Span(k), NEW h, Turns(h, X, Y), h.new = Above(T, k) + 1
    PROVE  /\ Matches(Content(T), h)
           /\ Patched(Content(T), h) = Content((T \ X) \union Y)
<1> DEFINE A == Over(T, k)
           Z == Under(T, k)
           c == Content(T)
           u == Content(A)
           v == Content(X)
           w == Content(Z)
           y == Content(Y)
<1>1. X \subseteq Lines /\ X \subseteq Span(k)
    OBVIOUS
<1>2. T = (A \union X) \union Z /\ A \subseteq Lines /\ Z \subseteq Lines
    BY SpanParts
<1>3. c = (u \o v) \o w
    <2>1. Content((A \union X) \union Z) = (u \o v) \o w
        BY <1>1, SpanParts
    <2> QED
        BY <1>2, <2>1
<1>4. Content((A \union Y) \union Z) = (u \o y) \o w
    BY SpanParts
<1>5. (T \ X) \union Y = (A \union Y) \union Z
    <2>1. \A s \in A : s \notin Span(k)
        BY SpanIs, OfLines DEF Over, Span
    <2>2. \A s \in Z : s \notin Span(k)
        BY SpanIs, OfLines DEF Under, Span
    <2> HIDE DEF A, Z
    <2> QED
        BY <1>1, <1>2, <2>1, <2>2
<1>6. Above(T, k) = Cardinality(A)
    BY DEF Above, Over
<1> HIDE DEF A, Z
<1>7. u \in Seq(Saids) /\ v \in Seq(Saids) /\ w \in Seq(Saids)
      /\ Len(u) = Cardinality(A) /\ Len(v) = Cardinality(X) /\ Len(u) \in Nat /\ Len(v) \in Nat
    BY <1>1, <1>2, ContentIs
<1>8. Side(h.lines, Old) = v /\ Side(h.lines, New) = y /\ OldLen(h) = Len(v) /\ h.new = Len(u) + 1
    BY <1>6, <1>7 DEF Turns
<1> HIDE DEF c, u, v, w, y
<1>9. /\ Len(c) = Len(u) + Len(v) + Len(w)
      /\ SubSeq(c, 1, Len(u)) = u /\ SubSeq(c, Len(u) + 1, Len(u) + Len(v)) = v
      /\ SubSeq(c, Len(u) + Len(v) + 1, Len(c)) = w
    <2> DEFINE d == (u \o v) \o w
    <2>0. u \in Seq(Saids) /\ v \in Seq(Saids) /\ w \in Seq(Saids)
        BY <1>7
    <2>1. /\ Len(d) = Len(u) + Len(v) + Len(w)
          /\ SubSeq(d, 1, Len(u)) = u /\ SubSeq(d, Len(u) + 1, Len(u) + Len(v)) = v
          /\ SubSeq(d, Len(u) + Len(v) + 1, Len(d)) = w
        <3> DEFINE Falls(a, b, e) ==
              /\ Len((a \o b) \o e) = Len(a) + Len(b) + Len(e)
              /\ SubSeq((a \o b) \o e, 1, Len(a)) = a
              /\ SubSeq((a \o b) \o e, Len(a) + 1, Len(a) + Len(b)) = b
              /\ SubSeq((a \o b) \o e, Len(a) + Len(b) + 1, Len((a \o b) \o e)) = e
        <3>1. \A S : \A a \in Seq(S), b \in Seq(S), e \in Seq(S) : Falls(a, b, e)
            BY Parts, Zenon
        <3> HIDE DEF Falls
        <3>2. Falls(u, v, w)
            BY <2>0, <3>1, Zenon
        <3> QED
            BY <3>2, Zenon DEF Falls
    <2>2. c = d
        BY <1>3
    <2> HIDE DEF d
    <2> QED
        BY <2>1, <2>2
<1>10. Len(w) \in Nat
    BY <1>7, LenProperties
<1>11. h.new + Len(v) - 1 = Len(u) + Len(v) /\ h.new - 1 = Len(u) /\ h.new + OldLen(h) = Len(u) + Len(v) + 1
       /\ h.new >= 1 /\ h.new + Len(v) - 1 <= Len(c)
    BY <1>7, <1>8, <1>9, <1>10
<1>12. Matches(c, h)
    BY <1>8, <1>9, <1>11 DEF Matches
<1>13. Patched(c, h) = (u \o y) \o w
    BY <1>8, <1>9, <1>11 DEF Patched
<1> QED
    BY <1>4, <1>5, <1>12, <1>13 DEF c, u, v, w, y

-----------------------------------------------------------------------------
(* STAGING.  A patch turned round, and the place its header states.         *)
LEMMA TurnsIs ==
    ASSUME NEW X, NEW Y, X \subseteq Lines, Y \subseteq Lines, NEW h, h.lines = LinesFor(X, Y)
    PROVE  Turns(h, X, Y)
<1> DEFINE B == X \union Y
<1>1. X \subseteq B /\ Y \subseteq B
    OBVIOUS
<1>2. \A s \in B : What(s, X, Y) \in Old <=> s \in X
    BY DEF What, Old
<1>3. \A s \in B : What(s, X, Y) \in New <=> s \in Y
    BY DEF What, New
<1>4. "mark" \notin Old /\ "mark" \notin New
    BY DEF Old, New
<1>5. /\ Side(LinesFor(X, Y), Old) = Content(X)
      /\ Cardinality({i \in DOMAIN LinesFor(X, Y) : LinesFor(X, Y)[i].origin \in Old}) = Cardinality(X)
    BY <1>1, <1>2, <1>4, SideIs
<1>6. /\ Side(LinesFor(X, Y), New) = Content(Y)
      /\ Cardinality({i \in DOMAIN LinesFor(X, Y) : LinesFor(X, Y)[i].origin \in New}) = Cardinality(Y)
    BY <1>1, <1>3, <1>4, SideIs
<1> QED
    BY <1>5, <1>6 DEF Turns, OldLen, NewLen, InOld, InNew

(* Turned round, the old side is the new one.                               *)
LEMMA TurnedIs ==
    /\ Turned["added"] = "removed" /\ Turned["removed"] = "added"
    /\ Turned["context"] = "context" /\ Turned["mark"] = "mark"
<1>1. (CHOOSE c \in Changes : c # "added") = "removed" /\ (CHOOSE c \in Changes : c # "removed") = "added"
    BY DEF Changes
<1>2. /\ "added" \in Changes /\ "removed" \in Changes
      /\ "context" \notin Changes /\ "mark" \notin Changes
    BY DEF Changes
<1> QED
    BY <1>1, <1>2 DEF Turned

LEMMA TurnedLines ==
    ASSUME NEW L, NEW R, L \subseteq Lines, R \subseteq Lines
    PROVE  [i \in DOMAIN LinesFor(L, R) |-> [LinesFor(L, R)[i] EXCEPT !.origin = Turned[@]]]
               = LinesFor(R, L)
<1> DEFINE B == L \union R
           n == Cardinality(B)
           there == LinesFor(L, R)
           back == LinesFor(R, L)
           turned == [i \in DOMAIN there |-> [there[i] EXCEPT !.origin = Turned[@]]]
<1>1. R \union L = B
    OBVIOUS
<1>2. /\ there \in Seq(Forms) /\ n \in Nat /\ DOMAIN there = 1 .. Len(there) /\ Len(there) \in Nat
    BY LinesType
<1>3. back \in Seq(Forms) /\ DOMAIN back = 1 .. Len(back) /\ Len(back) \in Nat
    BY LinesType
<1>2a. n \in Nat /\ Len(there) \in Nat
    BY <1>2
<1>4. ASSUME NEW i \in 1 .. n
      PROVE  there[i] = Shown(Ordered(B)[i], L, R) /\ Ordered(B)[i] \in B
    <2>1. i \in 1 .. Len(there) /\ there[i] = Shown(Ordered(B)[i], L, R)
        BY LinesIs, Zenon
    <2>2. B \subseteq Lines
        OBVIOUS
    <2> HIDE DEF B
    <2>3. Ordered(B)[i] \in B
        BY <2>2, OrderIs
    <2> QED
        BY <2>1, <2>3
<1>5. \A i \in 1 .. n : i \in 1 .. Len(back) /\ back[i] = Shown(Ordered(B)[i], R, L)
    <2> SUFFICES ASSUME NEW i \in 1 .. n
                 PROVE  i \in 1 .. Len(back) /\ back[i] = Shown(Ordered(B)[i], R, L)
        OBVIOUS
    <2>1. i \in 1 .. Cardinality(R \union L)
        BY <1>1
    <2>2. i \in 1 .. Len(back) /\ back[i] = Shown(Ordered(R \union L)[i], R, L)
        BY <2>1, LinesAt
    <2> QED
        BY <1>1, <2>2
<1>6. \/ Len(there) = n /\ \A s \in B : Eol[s]
      \/ Len(there) = n + 1 /\ there[n + 1] = Mark /\ Slots \in B /\ ~ Eol[Slots]
    BY LinesEnd, Zenon
<1>7. \/ Len(back) = n /\ \A s \in B : Eol[s]
      \/ Len(back) = n + 1 /\ back[n + 1] = Mark /\ Slots \in B /\ ~ Eol[Slots]
    <2>1. \/ Len(back) = Cardinality(R \union L) /\ \A s \in R \union L : Eol[s]
          \/ /\ Len(back) = Cardinality(R \union L) + 1
             /\ back[Cardinality(R \union L) + 1] = Mark /\ Slots \in R \union L /\ ~ Eol[Slots]
        BY LinesEnd, Zenon
    <2> QED
        BY <1>1, <2>1, Zenon
<1> HIDE DEF B, n, there, back
<1>8. Len(there) = Len(back) /\ (Len(there) = n \/ (Len(there) = n + 1 /\ there[n + 1] = Mark /\ back[n + 1] = Mark))
    BY <1>6, <1>7
<1>9. ASSUME NEW s, s \in L \/ s \in R
      PROVE  [Shown(s, L, R) EXCEPT !.origin = Turned[@]] = Shown(s, R, L)
    <2>1. Turned[What(s, L, R)] = What(s, R, L)
        BY <1>9, TurnedIs DEF What
    <2> QED
        BY <2>1 DEF Shown, Line
<1>10. [Mark EXCEPT !.origin = Turned[@]] = Mark
    <2>1. ASSUME NEW o, NEW t PROVE [Line(o, t) EXCEPT !.origin = Turned[@]] = Line(Turned[o], t)
        BY DEF Line
    <2>2. [Line("mark", "") EXCEPT !.origin = Turned[@]] = Line(Turned["mark"], "")
        BY <2>1
    <2>3. Turned["mark"] = "mark"
        BY TurnedIs
    <2> QED
        BY <2>2, <2>3, Zenon DEF Mark
<1>11. ASSUME NEW i \in 1 .. Len(there)
       PROVE  [there[i] EXCEPT !.origin = Turned[@]] = back[i]
    <2>1. CASE i \in 1 .. n
        <3>1. Ordered(B)[i] \in L \/ Ordered(B)[i] \in R
            BY <1>4, <2>1 DEF B
        <3> QED
            BY <1>4, <1>5, <1>9, <2>1, <3>1
    <2>2. CASE i \notin 1 .. n
        <3>a. Len(there) = n \/ Len(there) = n + 1
            BY <1>8
        <3>0. i = n + 1
            BY <1>2a, <2>2, <3>a
        <3>1. i = n + 1 /\ there[i] = Mark /\ back[i] = Mark
            <4>1. Len(there) # n
                BY <1>2a, <3>0
            <4> QED
                BY <1>8, <3>0, <4>1
        <3> QED
            BY <1>10, <3>1
    <2> QED
        BY <2>1, <2>2
<1>12. turned = [i \in 1 .. Len(back) |-> back[i]]
    BY <1>2, <1>8, <1>11
<1>13. turned = back
    <2>1. back = [i \in DOMAIN back |-> back[i]]
        BY <1>3
    <2> QED
        BY <1>3, <1>12, <2>1
<1> QED
    BY <1>13 DEF there, back

LEMMA WroteIs ==
    ASSUME NEW one, DOMAIN one = {1}
    PROVE  WriteFile(one)[1] = [one[1] EXCEPT !.new = Begins(one[1], 0)] /\ DOMAIN WriteFile(one) = {1}
<1> DEFINE delta[k \in DOMAIN one] ==
               IF k = 1 THEN 0 ELSE delta[k - 1] + NewLen(one[k - 1]) - OldLen(one[k - 1])
<1>2. \E f : f = [k \in DOMAIN one |->
                     IF k = 1 THEN 0 ELSE f[k - 1] + NewLen(one[k - 1]) - OldLen(one[k - 1])]
    <2>1. [k \in DOMAIN one |-> 0] =
              [k \in DOMAIN one |-> IF k = 1 THEN 0
                                    ELSE [j \in DOMAIN one |-> 0][k - 1] + NewLen(one[k - 1]) - OldLen(one[k - 1])]
        OBVIOUS
    <2> QED
        BY <2>1
<1>3. delta = [k \in DOMAIN one |->
                  IF k = 1 THEN 0 ELSE delta[k - 1] + NewLen(one[k - 1]) - OldLen(one[k - 1])]
    BY <1>2
<1>4. WriteFile(one) = [k \in DOMAIN one |-> [one[k] EXCEPT !.new = Begins(one[k], delta[k])]]
    BY DEF WriteFile
<1> HIDE DEF delta
<1>5. delta[1] = 0
    BY <1>3
<1> QED
    BY <1>4, <1>5

-----------------------------------------------------------------------------
(* Among the lines of a file, those of a span follow those above it.        *)
LEMMA RankInSpan ==
    ASSUME NEW T, T \subseteq Lines, NEW k \in DOMAIN Spans, NEW s \in T \intersect Span(k)
    PROVE  /\ Rank(T, s) = Above(T, k) + Rank(T \intersect Span(k), s)
           /\ Above(T, k) \in Nat
<1> DEFINE A == {t \in T : t < Spans[k][1]}
           D == {t \in T \intersect Span(k) : t <= s}
           U == {t \in T : t <= s}
<1>1. Spans[k][1] \in Int /\ Spans[k][2] \in Int
    BY SpanIs
<1>2. T \subseteq Int /\ IsFiniteSet(T)
    BY OfLines DEF Numbers
<1>3. s \in Int /\ Spans[k][1] <= s /\ s <= Spans[k][2]
    BY <1>1 DEF Span
<1>4. U = A \union D
    <2>1. ASSUME NEW t \in T PROVE t \in U <=> t \in A \/ t \in D
        <3>1. t \in Int
            BY <1>2
        <3>2. t \in Span(k) <=> Spans[k][1] <= t /\ t <= Spans[k][2]
            BY <1>1, <3>1 DEF Span
        <3> QED
            BY <1>1, <1>3, <3>1, <3>2
    <2>2. A \subseteq T /\ D \subseteq T /\ U \subseteq T
        OBVIOUS
    <2> HIDE DEF A, D, U
    <2> QED
        BY <2>1, <2>2
<1>5. A \intersect D = {}
    <2>1. ASSUME NEW t \in T, t < Spans[k][1] PROVE t \notin Span(k)
        BY <1>1, <1>2, <2>1 DEF Span
    <2> QED
        BY <2>1
<1>6. IsFiniteSet(A) /\ IsFiniteSet(D)
    <2>1. A \subseteq T /\ D \subseteq T
        OBVIOUS
    <2> QED
        BY <1>2, <2>1, FS_Subset
<1> HIDE DEF A, D, U
<1>7. Cardinality(A) \in Nat /\ Cardinality(D) \in Nat /\ Cardinality({}) = 0
    BY <1>6, FS_CardinalityType, FS_EmptySet
<1>8. Cardinality(U) = Cardinality(A) + Cardinality(D) - Cardinality(A \intersect D)
    BY <1>4, <1>6, FS_Union
<1>9. Cardinality(U) = Cardinality(A) + Cardinality(D)
    <2>1. Cardinality(A \intersect D) = 0
        BY <1>5, <1>7, Zenon
    <2> QED
        BY <1>7, <1>8, <2>1
<1> QED
    BY <1>7, <1>9 DEF Rank, Above, A, D, U

-----------------------------------------------------------------------------
(* STAGING.  Where an old side that tells its lines stands.                 *)
(* The old side, line by line.                                              *)
StandsAt(T, X, p) ==
    /\ p \in Int /\ p >= 1 /\ p + Cardinality(X) - 1 <= Cardinality(T)
    /\ \A j \in 1 .. Cardinality(X) : Ordered(T)[p + j - 1] = Ordered(X)[j]

LEMMA MatchesSay ==
    ASSUME NEW T, NEW X, NEW Y, T \subseteq Lines, X \subseteq Lines,
           NEW h, Turns(h, X, Y), h.new \in Int, Matches(Content(T), h)
    PROVE  /\ h.new >= 1 /\ h.new + Cardinality(X) - 1 <= Cardinality(T)
           /\ \A j \in 1 .. Cardinality(X) :
                 /\ h.new + j - 1 \in 1 .. Cardinality(T)
                 /\ Said(Ordered(T)[h.new + j - 1]) = Said(Ordered(X)[j])
<1> DEFINE c == Content(T)
           m == Cardinality(T)
           t == Ordered(T)
           d == Content(X)
           a == Cardinality(X)
           x == Ordered(X)
           p == h.new
<1>1. c \in Seq(Saids) /\ Len(c) = m /\ m \in Nat /\ \A i \in 1 .. m : c[i] = Said(t[i])
    BY ContentIs
<1>2. d \in Seq(Saids) /\ Len(d) = a /\ a \in Nat /\ \A i \in 1 .. a : d[i] = Said(x[i])
    BY ContentIs
<1>3. Side(h.lines, Old) = d
    BY DEF Turns
<1>4. p >= 1 /\ p + Len(d) - 1 <= Len(c) /\ SubSeq(c, p, p + Len(d) - 1) = d /\ p \in Int
    BY <1>3 DEF Matches
<1> HIDE DEF c, m, t, d, a, x, p
<1>5. \A j \in 1 .. a : p + j - 1 \in 1 .. m
    BY <1>1, <1>2, <1>4
<1>6. \A i \in p .. p + a - 1 : c[i] \in Saids
    <2> SUFFICES ASSUME NEW i \in p .. p + a - 1 PROVE c[i] \in Saids
        OBVIOUS
    <2>1. i \in 1 .. Len(c)
        BY <1>1, <1>2, <1>4
    <2> QED
        BY <1>1, <2>1, ElementOfSeq
<1>7. \A j \in 1 .. a : d[j] = c[p + j - 1]
    <2>1. p + a - 1 \in Int /\ (p + a - 1) - p + 1 = a
        BY <1>2, <1>4
    <2>2. \A j \in 1 .. (p + a - 1) - p + 1 : SubSeq(c, p, p + a - 1)[j] = c[p + j - 1]
        BY <1>4, <1>6, <2>1, SubSeqProperties
    <2> QED
        BY <1>2, <1>4, <2>1, <2>2
<1>8. \A j \in 1 .. a : Said(t[p + j - 1]) = Said(x[j])
    BY <1>1, <1>2, <1>5, <1>7
<1> QED
    BY <1>1, <1>2, <1>4, <1>5, <1>8 DEF m, t, a, x, p

(* No line of a list is between two that follow each other.                 *)
LEMMA Neighbours ==
    ASSUME NEW B, B \subseteq Lines, NEW i \in 1 .. Cardinality(B), i + 1 \in 1 .. Cardinality(B), NEW s \in B
    PROVE  /\ s > Ordered(B)[i] => s >= Ordered(B)[i + 1]
           /\ s < Ordered(B)[i + 1] => s <= Ordered(B)[i]
           /\ Ordered(B)[i] < Ordered(B)[i + 1]
<1> DEFINE q == Ordered(B)
           n == Cardinality(B)
<1>1. /\ n \in Nat /\ \A j \in 1 .. n : q[j] \in B /\ q[j] \in Int
      /\ \A u, v \in 1 .. n : u < v => q[u] < q[v]
      /\ \A e \in B : \E j \in 1 .. n : q[j] = e
    BY OrderIs
<1> HIDE DEF q, n
<1>2. i \in 1 .. n /\ i + 1 \in 1 .. n
    BY DEF n
<1>3. PICK j \in 1 .. n : q[j] = s
    BY <1>1
<1>4. i < i + 1 /\ (j <= i \/ j >= i + 1)
    BY <1>2
<1>5. q[i] \in Int /\ q[i + 1] \in Int /\ q[j] \in Int /\ q[i] < q[i + 1]
    BY <1>1, <1>2, <1>4
<1>6. CASE j <= i
    <2>1. q[j] <= q[i]
        <3>1. j = i \/ j < i
            BY <1>2, <1>6
        <3> QED
            BY <1>1, <1>2, <1>5, <3>1
    <2> QED
        BY <1>3, <1>5, <2>1 DEF q
<1>7. CASE j >= i + 1
    <2>1. q[j] >= q[i + 1]
        <3>1. j = i + 1 \/ i + 1 < j
            BY <1>2, <1>7
        <3> QED
            BY <1>1, <1>2, <1>5, <3>1
    <2> QED
        BY <1>3, <1>5, <2>1 DEF q
<1> QED
    BY <1>4, <1>6, <1>7

(* Two lists that hold the same context, and say the same at a place and at *)
(* the next, are at the same line there if they are at the place before, or *)
(* after.                                                                   *)
LEMMA SameNext ==
    ASSUME NEW T, T \subseteq Lines, Fixed \subseteq T, NEW k \in DOMAIN Spans,
           NEW X, X \subseteq Lines, X \subseteq Span(k), Fixed \intersect Span(k) \subseteq X,
           NEW i \in 1 .. Cardinality(T), i + 1 \in 1 .. Cardinality(T),
           NEW j \in 1 .. Cardinality(X), j + 1 \in 1 .. Cardinality(X)
    PROVE  /\ Ordered(T)[i] = Ordered(X)[j] /\ Said(Ordered(T)[i + 1]) = Said(Ordered(X)[j + 1])
                  => Ordered(T)[i + 1] = Ordered(X)[j + 1]
           /\ Ordered(T)[i + 1] = Ordered(X)[j + 1] /\ Said(Ordered(T)[i]) = Said(Ordered(X)[j])
                  => Ordered(T)[i] = Ordered(X)[j]
<1> DEFINE t == Ordered(T)
           x == Ordered(X)
<1>1. t[i] \in T /\ t[i + 1] \in T /\ x[j] \in X /\ x[j + 1] \in X
    BY OrderIs
<1>2. \A s \in T :
          /\ s > t[i] => s >= t[i + 1]
          /\ s < t[i + 1] => s <= t[i]
          /\ t[i] < t[i + 1]
    BY Neighbours
<1>3. \A s \in X :
          /\ s > x[j] => s >= x[j + 1]
          /\ s < x[j + 1] => s <= x[j]
          /\ x[j] < x[j + 1]
    BY Neighbours
<1>4. T \subseteq Int /\ X \subseteq Int /\ Spans[k][1] \in Int /\ Spans[k][2] \in Int
    BY OfLines, SpanIs
<1>5. \A s \in Fixed : Spans[k][1] <= s /\ s <= Spans[k][2] => s \in X
    <2> SUFFICES ASSUME NEW s \in Fixed, Spans[k][1] <= s, s <= Spans[k][2] PROVE s \in X
        OBVIOUS
    <2>1. s \in Int
        BY <1>4
    <2> QED
        BY <1>4, <2>1 DEF Span
<1>6. \A s \in X : Spans[k][1] <= s /\ s <= Spans[k][2]
    BY <1>4 DEF Span
<1> HIDE DEF t, x
<1>7. ASSUME t[i] = x[j], Said(t[i + 1]) = Said(x[j + 1]) PROVE t[i + 1] = x[j + 1]
    <2>1. CASE t[i + 1] \in Fixed /\ x[j + 1] \in Fixed
        <3>1. x[j + 1] \in T /\ t[i + 1] <= x[j + 1]
            BY <1>1, <1>2, <1>3, <1>7, <2>1
        <3>2. Spans[k][1] <= t[i + 1] /\ t[i + 1] <= Spans[k][2]
            <4>1. Spans[k][1] <= t[i] /\ x[j + 1] <= Spans[k][2] /\ t[i] < t[i + 1]
                BY <1>1, <1>2, <1>6, <1>7
            <4>2. t[i] \in Int /\ t[i + 1] \in Int /\ x[j + 1] \in Int
                BY <1>1, <1>4
            <4> QED
                BY <1>4, <3>1, <4>1, <4>2
        <3>3. t[i + 1] \in X
            BY <1>5, <2>1, <3>2
        <3>4. x[j + 1] <= t[i + 1]
            BY <1>1, <1>2, <1>3, <1>7, <3>3
        <3>5. t[i + 1] \in Int /\ x[j + 1] \in Int
            BY <1>1, <1>4
        <3> QED
            BY <3>1, <3>4, <3>5
    <2>2. CASE t[i + 1] \notin Fixed
        BY <1>1, <1>7, <2>2, SaidIs
    <2>3. CASE x[j + 1] \notin Fixed
        BY <1>1, <1>7, <2>3, SaidIs
    <2> QED
        BY <2>1, <2>2, <2>3
<1>8. ASSUME t[i + 1] = x[j + 1], Said(t[i]) = Said(x[j]) PROVE t[i] = x[j]
    <2>1. CASE t[i] \in Fixed /\ x[j] \in Fixed
        <3>1. x[j] \in T /\ x[j] <= t[i]
            BY <1>1, <1>2, <1>3, <1>8, <2>1
        <3>2. Spans[k][1] <= t[i] /\ t[i] <= Spans[k][2]
            <4>1. Spans[k][1] <= x[j] /\ t[i + 1] <= Spans[k][2] /\ t[i] < t[i + 1]
                BY <1>1, <1>2, <1>6, <1>8
            <4>2. t[i] \in Int /\ t[i + 1] \in Int /\ x[j] \in Int
                BY <1>1, <1>4
            <4> QED
                BY <1>4, <3>1, <4>1, <4>2
        <3>3. t[i] \in X
            BY <1>5, <2>1, <3>2
        <3>4. t[i] <= x[j]
            BY <1>1, <1>2, <1>3, <1>8, <3>3
        <3>5. t[i] \in Int /\ x[j] \in Int
            BY <1>1, <1>4
        <3> QED
            BY <3>1, <3>4, <3>5
    <2>2. CASE t[i] \notin Fixed
        BY <1>1, <1>8, <2>2, SaidIs
    <2>3. CASE x[j] \notin Fixed
        BY <1>1, <1>8, <2>3, SaidIs
    <2> QED
        BY <2>1, <2>2, <2>3
<1> QED
    BY <1>7, <1>8 DEF t, x

(* Said by one line only, the context of an old side fixes the rest of it.  *)
LEMMA Anchored ==
    ASSUME NEW T, T \subseteq Lines, Fixed \subseteq T, NEW k \in DOMAIN Spans,
           NEW X, X \subseteq Lines, X \subseteq Span(k), Fixed \intersect Span(k) \subseteq X,
           NEW Y, NEW h, Turns(h, X, Y), h.new \in Int, Matches(Content(T), h),
           NEW e \in Fixed \intersect Span(k), \A s \in Lines : Said(s) = Said(e) => s = e
    PROVE  StandsAt(T, X, h.new)
<1> DEFINE m == Cardinality(T)
           t == Ordered(T)
           a == Cardinality(X)
           x == Ordered(X)
           p == h.new
<1>1. /\ p \in Int /\ p >= 1 /\ p + a - 1 <= m
      /\ \A j \in 1 .. a : p + j - 1 \in 1 .. m /\ Said(t[p + j - 1]) = Said(x[j])
    BY MatchesSay
<1>2. m \in Nat /\ \A i \in 1 .. m : t[i] \in Lines
    BY OrderIs
<1>3. a \in Nat /\ \A s \in X : \E j \in 1 .. a : x[j] = s
    BY OrderIs
<1>4. \A i \in 1 .. m : \A j \in 1 .. a : i + 1 \in 1 .. m /\ j + 1 \in 1 .. a =>
          /\ t[i] = x[j] /\ Said(t[i + 1]) = Said(x[j + 1]) => t[i + 1] = x[j + 1]
          /\ t[i + 1] = x[j + 1] /\ Said(t[i]) = Said(x[j]) => t[i] = x[j]
    BY SameNext
<1> HIDE DEF m, t, a, x, p
<1>5. PICK o \in 1 .. a : x[o] = e
    BY <1>3
<1>6. t[p + o - 1] = x[o]
    <2>1. t[p + o - 1] \in Lines /\ Said(t[p + o - 1]) = Said(e)
        BY <1>1, <1>2, <1>5
    <2> QED
        BY <1>5, <2>1
<1> DEFINE U == {d \in 0 .. a - o : t[p + (o + d) - 1] = x[o + d]}
<1>7. \A d \in 0 .. a - o : d \in U
    <2>1. a - o \in Nat
        BY <1>3
    <2>2. 0 \in U
        <3>1. o + 0 = o /\ 0 \in 0 .. a - o
            BY <1>3
        <3> QED
            BY <1>6, <3>1
    <2>3. ASSUME NEW d \in 0 .. (a - o) - 1, d \in U PROVE d + 1 \in U
        <3> DEFINE j == o + d
                   i == p + j - 1
        <3>1. j \in 1 .. a /\ j + 1 \in 1 .. a /\ o + (d + 1) = j + 1 /\ d + 1 \in 0 .. a - o
            BY <1>3
        <3>2. t[i] = x[j]
            BY <2>3
        <3> HIDE DEF j
        <3>3. i + 1 = p + (j + 1) - 1
            BY <1>1, <3>1
        <3>4. i \in 1 .. m /\ i + 1 \in 1 .. m /\ Said(t[i + 1]) = Said(x[j + 1])
            BY <1>1, <3>1, <3>3
        <3>5. t[i + 1] = x[j + 1]
            BY <1>4, <3>1, <3>2, <3>4
        <3> QED
            BY <3>1, <3>3, <3>5
    <2> HIDE DEF U
    <2> QED
        BY <2>1, <2>2, <2>3, UpTo
<1> DEFINE D == {d \in 0 .. o - 1 : t[p + (o - d) - 1] = x[o - d]}
<1>8. \A d \in 0 .. o - 1 : d \in D
    <2>1. o - 1 \in Nat
        BY <1>3
    <2>2. 0 \in D
        <3>1. o - 0 = o /\ 0 \in 0 .. o - 1
            BY <1>3
        <3> QED
            BY <1>6, <3>1
    <2>3. ASSUME NEW d \in 0 .. (o - 1) - 1, d \in D PROVE d + 1 \in D
        <3> DEFINE j == o - (d + 1)
                   i == p + j - 1
        <3>1. j \in 1 .. a /\ j + 1 \in 1 .. a /\ o - d = j + 1 /\ d + 1 \in 0 .. o - 1
            BY <1>3
        <3>2. t[p + (j + 1) - 1] = x[j + 1]
            BY <2>3, <3>1
        <3>a. j = o - (d + 1)
            OBVIOUS
        <3> HIDE DEF j
        <3>3. i + 1 = p + (j + 1) - 1
            BY <1>1, <3>1
        <3>4. i \in 1 .. m /\ i + 1 \in 1 .. m /\ Said(t[i]) = Said(x[j])
            BY <1>1, <3>1, <3>3
        <3>5. t[i] = x[j]
            BY <1>4, <3>1, <3>2, <3>3, <3>4
        <3> QED
            BY <3>1, <3>5, <3>a
    <2> HIDE DEF D
    <2> QED
        BY <2>1, <2>2, <2>3, UpTo
<1>9. ASSUME NEW j \in 1 .. a PROVE t[p + j - 1] = x[j]
    <2>1. CASE j >= o
        <3>1. j - o \in 0 .. a - o /\ o + (j - o) = j
            BY <1>3, <2>1
        <3> QED
            BY <1>7, <3>1
    <2>2. CASE ~ (j >= o)
        <3>1. o - j \in 0 .. o - 1 /\ o - (o - j) = j
            BY <1>3, <2>2
        <3> QED
            BY <1>8, <3>1
    <2> QED
        BY <2>1, <2>2
<1> QED
    BY <1>1, <1>9 DEF StandsAt, m, t, a, x, p

(* Where it stands it is all that the file holds of its span, if nothing of *)
(* the span can be above its first line, or below its last.                 *)
LEMMA Within ==
    ASSUME NEW T, T \subseteq Lines, NEW k \in DOMAIN Spans, NEW X, X # {}, X \subseteq Lines,
           X \subseteq Span(k), Fixed \intersect Span(k) \subseteq X, NEW p, StandsAt(T, X, p),
           Spans[k][1] \in Fixed \/ p = 1,
           Spans[k][2] \in Fixed \/ p + Cardinality(X) - 1 = Cardinality(T)
    PROVE  X = T \intersect Span(k) /\ p = Above(T, k) + 1
<1> DEFINE m == Cardinality(T)
           t == Ordered(T)
           a == Cardinality(X)
           x == Ordered(X)
<1>1. /\ p \in Int /\ p >= 1 /\ p + a - 1 <= m
      /\ \A j \in 1 .. a : t[p + j - 1] = x[j]
    BY DEF StandsAt
<1>2. /\ m \in Nat /\ \A i \in 1 .. m : t[i] \in T /\ t[i] \in Int
      /\ \A i, j \in 1 .. m : i < j => t[i] < t[j]
      /\ \A i, j \in 1 .. m : t[i] = t[j] => i = j
      /\ \A s \in T : \E i \in 1 .. m : t[i] = s
    BY OrderIs
<1>3. a \in Nat /\ (\A j \in 1 .. a : x[j] \in X) /\ \A s \in X : \E j \in 1 .. a : x[j] = s
    BY OrderIs
<1>4. a # 0
    BY OfLines, FS_EmptySet DEF Numbers
<1>5. /\ Spans[k][1] \in Int /\ Spans[k][2] \in Int /\ Spans[k][1] <= Spans[k][2]
      /\ \A s \in Span(k) : Spans[k][1] <= s /\ s <= Spans[k][2]
    BY SpanIs DEF Span
<1>6. \A s \in X : \E j \in 1 .. a : p + j - 1 \in 1 .. m /\ t[p + j - 1] = s /\ x[j] = s
    <2> SUFFICES ASSUME NEW s \in X PROVE \E j \in 1 .. a : p + j - 1 \in 1 .. m /\ t[p + j - 1] = s /\ x[j] = s
        OBVIOUS
    <2>1. PICK j \in 1 .. a : x[j] = s
        BY <1>3
    <2>2. p + j - 1 \in 1 .. m
        BY <1>1, <1>2, <1>3
    <2> QED
        BY <1>1, <2>1, <2>2
<1>7. (Spans[k][1] \in Fixed => Spans[k][1] \in X) /\ (Spans[k][2] \in Fixed => Spans[k][2] \in X)
    BY <1>5 DEF Span
<1>7a. Spans[k][1] \in Fixed \/ p = 1
    OBVIOUS
<1>7b. Spans[k][2] \in Fixed \/ p + a - 1 = m
    OBVIOUS
<1> HIDE DEF m, t, a, x
<1>8. X \subseteq T
    BY <1>2, <1>6
<1>9. ASSUME NEW s \in T \intersect Span(k) PROVE s \in X
    <2>1. PICK i \in 1 .. m : t[i] = s
        BY <1>2
    <2>2. i >= p
        <3>1. CASE p = 1
            BY <2>1, <3>1
        <3>2. CASE Spans[k][1] \in X
            <4>1. PICK j \in 1 .. a : p + j - 1 \in 1 .. m /\ t[p + j - 1] = Spans[k][1]
                BY <1>6, <3>2
            <4>2. ~ (i < p + j - 1)
                BY <1>2, <1>5, <2>1, <4>1
            <4> QED
                BY <1>1, <1>3, <4>2
        <3> QED
            BY <1>7, <1>7a, <3>1, <3>2
    <2>3. i <= p + a - 1
        <3>1. CASE p + a - 1 = m
            BY <1>2, <3>1
        <3>2. CASE Spans[k][2] \in X
            <4>1. PICK j \in 1 .. a : p + j - 1 \in 1 .. m /\ t[p + j - 1] = Spans[k][2]
                BY <1>6, <3>2
            <4>2. ~ (p + j - 1 < i)
                BY <1>2, <1>5, <2>1, <4>1
            <4> QED
                BY <1>1, <1>3, <4>2
        <3> QED
            BY <1>7, <1>7b, <3>1, <3>2
    <2>4. i - p + 1 \in 1 .. a /\ p + (i - p + 1) - 1 = i
        BY <1>1, <1>3, <2>2, <2>3
    <2> QED
        BY <1>1, <1>3, <2>1, <2>4
<1>10. X = T \intersect Span(k)
    BY <1>8, <1>9
<1>11. p = Above(T, k) + 1
    <2>1. 1 \in 1 .. a /\ p \in 1 .. m /\ p + 1 - 1 = p
        BY <1>1, <1>2, <1>3, <1>4
    <2>2. t[p] = x[1] /\ x[1] \in X
        BY <1>1, <1>3, <2>1
    <2>3. Rank(X, x[1]) = 1
        <3>1. Numbers(X)
            BY OfLines
        <3>2. Lists(Ordered(X), X) /\ Len(Ordered(X)) = Cardinality(X)
            BY <3>1, OrderedLists
        <3> QED
            BY <2>1, <3>1, <3>2, ListedRank DEF x, a
    <2>4. Rank(T, t[p]) = p
        <3>1. Numbers(T)
            BY OfLines
        <3>2. Lists(Ordered(T), T) /\ Len(Ordered(T)) = Cardinality(T)
            BY <3>1, OrderedLists
        <3> QED
            BY <2>1, <3>1, <3>2, ListedRank DEF t, m
    <2>5. x[1] \in T \intersect Span(k)
        BY <1>10, <2>2
    <2>6. Rank(T, x[1]) = Above(T, k) + Rank(X, x[1]) /\ Above(T, k) \in Nat
        BY <1>10, <2>5, RankInSpan
    <2> QED
        BY <2>2, <2>3, <2>4, <2>6
<1> QED
    BY <1>10, <1>11

-----------------------------------------------------------------------------
(* STAGING.  The patch a page shows.                                        *)
(* A hunk of a printed patch.                                               *)
MadeAt(h, k, old, new) ==
    /\ h = [old |-> Above(old, k) + 1, new |-> Above(new, k) + 1,
            lines |-> LinesFor(old \intersect Span(k), new \intersect Span(k))]
    /\ \E s \in Span(k) : s \in old <=> s \notin new

LEMMA SpanLines ==
    ASSUME NEW k \in DOMAIN Spans, NEW old, NEW new, old \subseteq Lines, new \subseteq Lines
    PROVE  LET B == (old \union new) \intersect Span(k) IN
           Body(B, old, new) \o Marks(B) = LinesFor(old \intersect Span(k), new \intersect Span(k))
<1> DEFINE B == (old \union new) \intersect Span(k)
           L == old \intersect Span(k)
           R == new \intersect Span(k)
           n == Cardinality(B)
<1>1. L \union R = B /\ B \subseteq Lines
    OBVIOUS
<1>2. \A s \in B : What(s, old, new) = What(s, L, R)
    BY DEF What
<1> HIDE DEF B, L, R
<1>3. \A i \in 1 .. n : Ordered(B)[i] \in B
    BY <1>1, OrderIs
<1>4. \A i \in 1 .. n : Shown(Ordered(B)[i], old, new) = Shown(Ordered(B)[i], L, R)
    BY <1>2, <1>3 DEF Shown
<1>5. /\ Body(B, old, new) = [i \in 1 .. n |-> Shown(Ordered(B)[i], old, new)]
      /\ Body(B, L, R) = [i \in 1 .. n |-> Shown(Ordered(B)[i], L, R)]
    BY DEF Body, Shown, What
<1>6. Body(B, old, new) = Body(B, L, R)
    BY <1>4, <1>5
<1>7. LinesFor(L, R) = Body(B, L, R) \o Marks(B)
    BY <1>1 DEF LinesFor
<1> QED
    BY <1>6, <1>7 DEF B, L, R

LEMMA PrintedIs ==
    ASSUME NEW old, NEW new, old \subseteq Lines, new \subseteq Lines
    PROVE  LET hunks == Printed(old, new) IN
           /\ \E S : hunks \in Seq(S)
           /\ \A n \in DOMAIN hunks :
                 LET k == Differing(old, new)[n] IN k \in DOMAIN Spans /\ MadeAt(hunks[n], k, old, new)
<1> DEFINE K == {k \in DOMAIN Spans : \E s \in Span(k) : s \in old <=> s \notin new}
           places == Ordered(K)
           body(k) == (old \union new) \intersect Span(k)
           made(k) == [old |-> Above(old, k) + 1, new |-> Above(new, k) + 1,
                       lines |-> Body(body(k), old, new) \o Marks(body(k))]
           hunks == Printed(old, new)
           m == Cardinality(K)
<1>1. Numbers(K)
    <2>1. Spans \in Seq(Lines \X Lines)
        BY StagingAssumption
    <2>2. Len(Spans) \in Nat /\ DOMAIN Spans = 1 .. Len(Spans)
        BY <2>1, LenProperties
    <2>3. IsFiniteSet(1 .. Len(Spans))
        BY <2>2, FS_Interval
    <2>4. K \subseteq 1 .. Len(Spans)
        BY <2>2
    <2>5. IsFiniteSet(K)
        BY <2>3, <2>4, FS_Subset
    <2> QED
        BY <2>2, <2>4, <2>5 DEF Numbers
<1>2. Lists(places, K) /\ Len(places) = m /\ m \in Nat /\ DOMAIN places = 1 .. m
    <2> HIDE DEF K
    <2> QED
        BY <1>1, OrderedLists
<1>3. \A n \in 1 .. m : places[n] \in K
    <2> HIDE DEF K, places, m
    <2>1. places \in Seq(K)
        BY <1>2 DEF Lists
    <2> QED
        BY <1>2, <2>1, ElementOfSeq
<1>3a. Differing(old, new) = places
    BY DEF Differing
<1>4. hunks = [n \in DOMAIN places |-> made(places[n])]
    BY DEF Printed, Differing
<1>5. hunks = [n \in 1 .. m |-> made(places[n])]
    BY <1>2, <1>4
<1> HIDE DEF hunks, m, places
<1>6. \E S : hunks \in Seq(S)
    <2> DEFINE S == {made(k) : k \in K}
    <2>1. \A n \in 1 .. m : made(places[n]) \in S
        BY <1>3
    <2> HIDE DEF S, made
    <2>2. hunks \in [1 .. m -> S]
        BY <1>5, <2>1
    <2>3. hunks \in Seq(S)
        BY <1>2, <2>2
    <2> QED
        BY <2>3
<1>7. ASSUME NEW n \in DOMAIN hunks
      PROVE  places[n] \in DOMAIN Spans /\ MadeAt(hunks[n], places[n], old, new)
    <2>1. n \in 1 .. m /\ hunks[n] = made(places[n])
        BY <1>5
    <2> DEFINE k == places[n]
    <2>2. k \in DOMAIN Spans /\ \E s \in Span(k) : s \in old <=> s \notin new
        BY <1>3, <2>1
    <2> HIDE DEF k
    <2>3. Body(body(k), old, new) \o Marks(body(k))
              = LinesFor(old \intersect Span(k), new \intersect Span(k))
        BY <2>2, SpanLines
    <2>4. MadeAt(hunks[n], k, old, new)
        BY <2>1, <2>2, <2>3 DEF MadeAt, k
    <2> QED
        BY <2>2, <2>4 DEF k
<1>8. \A n \in DOMAIN hunks : Differing(old, new)[n] \in DOMAIN Spans
                               /\ MadeAt(hunks[n], Differing(old, new)[n], old, new)
    BY <1>3a, <1>7
<1> QED
    BY <1>6, <1>8 DEF hunks

LEMMA PatchIs ==
    ASSUME NEW s, s.old \subseteq Lines, s.new \subseteq Lines
    PROVE  /\ DOMAIN Patch(s) = 1 .. Len(Patch(s)) /\ Len(Patch(s)) \in Nat
           /\ Patch(s) = << >> <=> Len(Patch(s)) = 0
           /\ \A n \in DOMAIN Patch(s) :
                 LET k == Differing(s.old, s.new)[n] IN
                 k \in DOMAIN Spans /\ MadeAt(Patch(s)[n], k, s.old, s.new)
<1> DEFINE hunks == Patch(s)
           spans == Differing(s.old, s.new)
<1>1. (\E S : hunks \in Seq(S))
      /\ \A n \in DOMAIN hunks : spans[n] \in DOMAIN Spans /\ MadeAt(hunks[n], spans[n], s.old, s.new)
    BY PrintedIs, Zenon DEF Patch
<1> HIDE DEF hunks, spans
<1>2. PICK S : hunks \in Seq(S)
    BY <1>1
<1>3. DOMAIN hunks = 1 .. Len(hunks) /\ Len(hunks) \in Nat /\ (hunks = << >> <=> Len(hunks) = 0)
    BY <1>2, LenProperties, EmptySeq
<1> QED
    BY <1>1, <1>3 DEF hunks, spans

(* What a hunk changes is among its lines, and it changes something.        *)
LEMMA ChangedIs ==
    ASSUME NEW h, h.lines \in Seq(Forms)
    PROVE  /\ DOMAIN ChangedLines(h) = 1 .. Len(ChangedLines(h)) /\ Len(ChangedLines(h)) \in Nat
           /\ \A i \in DOMAIN ChangedLines(h) : ChangedLines(h)[i] \in DOMAIN h.lines
           /\ (\E i \in DOMAIN h.lines : h.lines[i].origin \in Changes) => Len(ChangedLines(h)) >= 1
           /\ ChangedLines(h) = << >> <=> Len(ChangedLines(h)) = 0
<1> DEFINE I == {i \in DOMAIN h.lines : h.lines[i].origin \in Changes}
           those == Ordered(I)
           m == Cardinality(I)
<1>1. DOMAIN h.lines = 1 .. Len(h.lines) /\ Len(h.lines) \in Nat
    BY LenProperties
<1>2. Numbers(I)
    <2>1. IsFiniteSet(1 .. Len(h.lines))
        BY <1>1, FS_Interval
    <2>2. I \subseteq 1 .. Len(h.lines)
        BY <1>1
    <2>3. IsFiniteSet(I)
        BY <2>1, <2>2, FS_Subset
    <2> QED
        BY <1>1, <2>2, <2>3 DEF Numbers
<1>3. ChangedLines(h) = those
    BY DEF ChangedLines
<1>4. I \subseteq DOMAIN h.lines
    OBVIOUS
<1>5. (\E i \in DOMAIN h.lines : h.lines[i].origin \in Changes) => I # {}
    OBVIOUS
<1> HIDE DEF I
<1>6. Lists(those, I) /\ Len(those) = m /\ m \in Nat /\ DOMAIN those = 1 .. m
    BY <1>2, OrderedLists
<1> HIDE DEF those
<1>7. those \in Seq(I)
    BY <1>6 DEF Lists
<1>8. \A i \in 1 .. m : those[i] \in I
    BY <1>6, <1>7, ElementOfSeq
<1>9. I # {} => m # 0
    BY <1>2, FS_EmptySet DEF Numbers
<1> HIDE DEF m
<1>10. those = << >> <=> Len(those) = 0
    BY <1>7, EmptySeq
<1>11. m # 0 => m >= 1
    BY <1>6
<1> QED
    BY <1>3, <1>4, <1>5, <1>6, <1>8, <1>9, <1>10, <1>11

LEMMA MadeChanges ==
    ASSUME NEW h, NEW k \in DOMAIN Spans, NEW old, NEW new, old \subseteq Lines, new \subseteq Lines,
           MadeAt(h, k, old, new)
    PROVE  /\ h.lines \in Seq(Forms)
           /\ \E i \in DOMAIN h.lines : h.lines[i].origin \in Changes
<1> DEFINE L == old \intersect Span(k)
           R == new \intersect Span(k)
           B == L \union R
<1>1. L \subseteq Lines /\ R \subseteq Lines /\ B \subseteq Lines
    OBVIOUS
<1>2. h.lines = LinesFor(L, R)
    BY DEF MadeAt
<1>3. PICK s \in B : s \in L <=> s \notin R
    <2>1. PICK s \in Span(k) : s \in old <=> s \notin new
        BY DEF MadeAt
    <2> QED
        BY <2>1
<1> HIDE DEF L, R
<1>4. LinesFor(L, R) \in Seq(Forms) /\ DOMAIN LinesFor(L, R) = 1 .. Len(LinesFor(L, R))
    BY <1>1, LinesType
<1>5. PICK i \in 1 .. Cardinality(B) : Ordered(B)[i] = s
    <2> HIDE DEF B
    <2> QED
        BY <1>1, OrderIs
<1>6. i \in 1 .. Len(LinesFor(L, R)) /\ LinesFor(L, R)[i] = Shown(s, L, R)
    <2>1. i \in 1 .. Len(LinesFor(L, R)) /\ LinesFor(L, R)[i] = Shown(Ordered(B)[i], L, R)
        BY <1>1, LinesIs, Zenon
    <2> QED
        BY <1>5, <2>1
<1>7. Shown(s, L, R).origin \in Changes
    <2>1. What(s, L, R) \in Changes
        BY <1>3 DEF What, Changes, B
    <2>2. s \in Lines
        BY <1>1
    <2> QED
        BY <2>1, <2>2, ShownIs
<1> QED
    BY <1>2, <1>4, <1>6, <1>7

-----------------------------------------------------------------------------
(* STAGING.  What is sent, and what it makes.                               *)
(* The piece that the keys cut from the hunk over the k-th span.            *)
Picks == IF mode = "read" THEN DOMAIN Hunks[hunk].lines ELSE picked
OldAt(k) == shown.old \intersect Span(k)
NewAt(k) == shown.new \intersect Span(k)
PickedAt(k) == Chosen(OldAt(k) \union NewAt(k), Picks)
KeptAt(k) == NewOf(OldAt(k), NewAt(k), PickedAt(k))
CutAt(piece, k) == piece = [Hunks[hunk] EXCEPT !.lines = LinesFor(OldAt(k), KeptAt(k))]
Sides == shown.old \subseteq Lines /\ shown.new \subseteq Lines /\ Fixed \subseteq shown.old
AtHunk(k) == k = HunkSpan /\ k \in DOMAIN Spans /\ HasHunk /\ MadeAt(Hunks[hunk], k, shown.old, shown.new)

LEMMA HunkAt == ASSUME Sides, HasHunk PROVE AtHunk(HunkSpan)
<1>1. \A n \in DOMAIN Hunks : LET k == Differing(shown.old, shown.new)[n] IN
          k \in DOMAIN Spans /\ MadeAt(Hunks[n], k, shown.old, shown.new)
    BY PatchIs DEF Hunks, Sides
<1> QED
    BY <1>1 DEF AtHunk, HasHunk, HunkSpan

LEMMA PieceIs ==
    ASSUME LastTells, Sides, NEW k, AtHunk(k), NEW discard, Piece(discard) # NoPiece
    PROVE  CutAt(Piece(discard), k)
<1> DEFINE h == Hunks[hunk]
<1>1. OldAt(k) \subseteq Lines /\ NewAt(k) \subseteq Lines /\ Fixed \intersect NewAt(k) \subseteq OldAt(k)
    BY DEF Sides, OldAt, NewAt
<1>2. h.lines = LinesFor(OldAt(k), NewAt(k))
    BY DEF AtHunk, MadeAt, OldAt, NewAt
<1>3. Piece(discard) = Subset(h, Picks)
    BY DEF Piece, Picks
<1>4. Piece(discard) = [h EXCEPT !.lines = Kept(h.lines, Picks)]
    BY <1>3 DEF Subset
<1>5. Kept(h.lines, Picks) = LinesFor(OldAt(k), KeptAt(k))
    <2>1. Kept(LinesFor(OldAt(k), NewAt(k)), Picks) = LinesFor(OldAt(k), KeptAt(k))
        BY <1>1, KeptIs DEF KeptAt, PickedAt
    <2> QED
        BY <1>2, <2>1
<1> QED
    BY <1>4, <1>5 DEF CutAt

(* Outside line mode the whole hunk is the piece.                           *)
LEMMA WholeIs ==
    ASSUME LastTells, Sides, NEW k, AtHunk(k), mode = "read"
    PROVE  /\ PickedAt(k) = OldAt(k) \union NewAt(k) /\ KeptAt(k) = NewAt(k)
           /\ \A discard \in BOOLEAN : ~ (discard /\ kind = "staged") => Piece(discard) # NoPiece
<1> DEFINE h == Hunks[hunk]
           L == OldAt(k)
           R == NewAt(k)
           B == L \union R
<1>1. L \subseteq Lines /\ R \subseteq Lines /\ B \subseteq Lines /\ Fixed \intersect R \subseteq L
    BY DEF Sides, OldAt, NewAt
<1>2. h.lines = LinesFor(L, R)
    BY DEF AtHunk, MadeAt, OldAt, NewAt
<1>3. Picks = DOMAIN h.lines
    BY DEF Picks
<1>4. \A i \in 1 .. Cardinality(B) : i \in DOMAIN LinesFor(L, R)
    <2>1. DOMAIN LinesFor(L, R) = 1 .. Len(LinesFor(L, R))
        BY <1>1, LinesType
    <2>2. ASSUME NEW i \in 1 .. Cardinality(B) PROVE i \in 1 .. Len(LinesFor(L, R))
        BY <1>1, LinesAt
    <2> QED
        BY <2>1, <2>2
<1> HIDE DEF L, R
<1>5. PickedAt(k) = B
    <2>1. \A s \in B : \E i \in 1 .. Cardinality(B) : Ordered(B)[i] = s
        BY <1>1, OrderIs
    <2>2. \A i \in 1 .. Cardinality(B) : Ordered(B)[i] \in B
        BY <1>1, OrderIs
    <2>3. PickedAt(k) = {Ordered(B)[i] : i \in (1 .. Cardinality(B)) \intersect DOMAIN LinesFor(L, R)}
        BY <1>2, <1>3 DEF PickedAt, Chosen, L, R
    <2> HIDE DEF B
    <2> QED
        BY <1>4, <2>1, <2>2, <2>3
<1>6. KeptAt(k) = R
    BY <1>5 DEF KeptAt, NewOf, L, R
<1>7. Kept(h.lines, Picks) = h.lines
    <2>1. Kept(LinesFor(L, R), Picks) = LinesFor(L, NewOf(L, R, Chosen(L \union R, Picks)))
        BY <1>1, KeptIs
    <2>2. NewOf(L, R, Chosen(L \union R, Picks)) = R
        BY <1>6 DEF KeptAt, PickedAt, L, R
    <2> QED
        BY <1>2, <2>1, <2>2
<1>8. h.lines \in Seq(Forms) /\ \E i \in DOMAIN h.lines : h.lines[i].origin \in Changes
    BY MadeChanges DEF AtHunk, Sides
<1>9. ASSUME NEW discard \in BOOLEAN, ~ (discard /\ kind = "staged") PROVE Piece(discard) # NoPiece
    <2>1. Piece(discard) = Subset(h, Picks)
        BY <1>3, <1>9 DEF Piece, AtHunk
    <2>2. Subset(h, Picks) = [h EXCEPT !.lines = h.lines]
        BY <1>7, <1>8 DEF Subset
    <2>3. h = [old |-> h.old, new |-> h.new, lines |-> h.lines]
        BY DEF AtHunk, MadeAt
    <2> HIDE DEF h
    <2>4. Subset(h, Picks).lines = h.lines
        BY <2>2, <2>3
    <2>5. h.lines # << >>
        BY <1>8
    <2> QED
        BY <2>1, <2>4, <2>5 DEF NoPiece
<1> QED
    BY <1>5, <1>6, <1>9 DEF B, L, R

(* What is named is what is picked of what the hunk changes.                *)
LEMMA NamedIs ==
    ASSUME Sides, NEW k, AtHunk(k), mode \in {"read", "lines"}
    PROVE  Named = PickedAt(k) \intersect ((OldAt(k) \ NewAt(k)) \union (NewAt(k) \ OldAt(k)))
<1> DEFINE L == OldAt(k)
           R == NewAt(k)
           B == L \union R
           n == Cardinality(B)
           q == Ordered(B)
           named == IF mode = "read" THEN DOMAIN q ELSE picked \intersect DOMAIN q
<1>1. L \subseteq Lines /\ R \subseteq Lines /\ B \subseteq Lines
    BY DEF Sides, OldAt, NewAt
<1>2. (shown.old \union shown.new) \intersect Span(HunkSpan) = B
    BY DEF AtHunk, OldAt, NewAt
<1>3. Named = {q[i] : i \in named} \ (shown.old \intersect shown.new)
    BY <1>2 DEF Named, AtHunk
<1>4. DOMAIN q = 1 .. n /\ \A i \in 1 .. n : q[i] \in B
    BY <1>1, OrderIs
<1>5. PickedAt(k) = {q[i] : i \in (1 .. n) \intersect Picks}
    BY DEF PickedAt, Chosen
<1>6. \A i \in 1 .. n : i \in DOMAIN Hunks[hunk].lines
    <2>1. Hunks[hunk].lines = LinesFor(L, R)
        BY DEF AtHunk, MadeAt, OldAt, NewAt
    <2>2. DOMAIN LinesFor(L, R) = 1 .. Len(LinesFor(L, R))
        BY <1>1, LinesType
    <2>3. \A i \in 1 .. n : i \in 1 .. Len(LinesFor(L, R))
        <3> SUFFICES ASSUME NEW i \in 1 .. n PROVE i \in 1 .. Len(LinesFor(L, R))
            OBVIOUS
        <3> QED
            BY <1>1, LinesAt
    <2> QED
        BY <2>1, <2>2, <2>3
<1>7. named = (1 .. n) \intersect Picks
    <2>1. CASE mode = "read"
        BY <1>4, <1>6, <2>1 DEF Picks
    <2>2. CASE mode = "lines"
        BY <1>4, <2>2 DEF Picks
    <2> QED
        BY <2>1, <2>2
<1>8. \A s \in B : s \notin shown.old \intersect shown.new <=> s \in L \ R \/ s \in R \ L
    BY DEF OldAt, NewAt
<1>9. PickedAt(k) \subseteq B
    BY <1>4, <1>5
<1>10. Named = PickedAt(k) \ (shown.old \intersect shown.new)
    BY <1>3, <1>5, <1>7
<1> HIDE DEF L, R
<1>11. Named = PickedAt(k) \intersect ((L \ R) \union (R \ L))
    BY <1>8, <1>9, <1>10
<1> QED
    BY <1>11 DEF L, R

(* What is sent turns one side of the piece into the other.                 *)
LEMMA SentIs ==
    ASSUME Sides, NEW k, AtHunk(k), NEW discard, CutAt(Piece(discard), k)
    PROVE  /\ Reverses(discard) =>
                  /\ Turns(Sent(discard), KeptAt(k), OldAt(k))
                  /\ \E b : /\ Turns(b, KeptAt(k), OldAt(k)) /\ b.old = Begins(Piece(discard), 0)
                            /\ Sent(discard).new = Begins(b, 0)
           /\ ~ Reverses(discard) => /\ Turns(Sent(discard), OldAt(k), KeptAt(k))
                                     /\ Sent(discard).new = Begins(Piece(discard), 0)
           /\ Turns(Piece(discard), OldAt(k), KeptAt(k)) /\ Piece(discard).old = Above(shown.old, k) + 1
<1> DEFINE p == Piece(discard)
           L == OldAt(k)
           M == KeptAt(k)
           one == WriteFile(<<p>>)
           back == Reversed(one)
<1>1. L \subseteq Lines /\ M \subseteq Lines
    BY DEF Sides, OldAt, NewAt, KeptAt, NewOf
<1>2. \E x, y : p = [old |-> x, new |-> y, lines |-> LinesFor(L, M)] /\ x = Above(shown.old, k) + 1
    <2> DEFINE x == Above(shown.old, k) + 1
               y == Above(shown.new, k) + 1
               was == LinesFor(shown.old \intersect Span(k), shown.new \intersect Span(k))
               now == LinesFor(L, M)
    <2>1. Hunks[hunk] = [old |-> x, new |-> y, lines |-> was]
        BY DEF AtHunk, MadeAt
    <2>2. p = [Hunks[hunk] EXCEPT !.lines = now]
        BY DEF CutAt
    <2>3. x = Above(shown.old, k) + 1
        OBVIOUS
    <2> HIDE DEF x, y, was, now, p
    <2>4. p = [old |-> x, new |-> y, lines |-> now]
        BY <2>1, <2>2
    <2> QED
        BY <2>3, <2>4 DEF now
<1> HIDE DEF p, L, M
<1>3. PICK x, y : p = [old |-> x, new |-> y, lines |-> LinesFor(L, M)] /\ x = Above(shown.old, k) + 1
    BY <1>2
<1>4. one[1] = [p EXCEPT !.new = Begins(p, 0)] /\ DOMAIN one = {1}
    <2>1. DOMAIN <<p>> = {1} /\ <<p>>[1] = p
        OBVIOUS
    <2> QED
        BY <2>1, WroteIs
<1> HIDE DEF one
<1>5. one[1].lines = LinesFor(L, M) /\ one[1].new = Begins(p, 0)
    BY <1>3, <1>4
<1>6. DOMAIN back = {1} /\ back[1] = [old |-> one[1].new, new |-> one[1].old,
         lines |-> [i \in DOMAIN one[1].lines |->
                       [one[1].lines[i] EXCEPT !.origin = Turned[@]]]]
    BY <1>4 DEF Reversed
<1>7. back[1].lines = LinesFor(M, L)
    <2>1. [i \in DOMAIN LinesFor(L, M) |-> [LinesFor(L, M)[i] EXCEPT !.origin = Turned[@]]]
              = LinesFor(M, L)
        BY <1>1, TurnedLines
    <2>2. back[1].lines = [i \in DOMAIN one[1].lines |-> [one[1].lines[i] EXCEPT !.origin = Turned[@]]]
        BY <1>6
    <2> QED
        BY <1>5, <2>1, <2>2, Zenon
<1>8. \E u, z, v : back[1] = [old |-> u, new |-> z, lines |-> v]
    BY <1>6, Zenon
<1>9. WriteFile(back)[1].lines = LinesFor(M, L) /\ WriteFile(back)[1].new = Begins(back[1], 0)
    <2>1. WriteFile(back)[1] = [back[1] EXCEPT !.new = Begins(back[1], 0)]
        BY <1>6, WroteIs
    <2>2. PICK u, z, v : back[1] = [old |-> u, new |-> z, lines |-> v]
        BY <1>8
    <2>3. v = LinesFor(M, L)
        BY <1>7, <2>2
    <2>4. /\ [[old |-> u, new |-> z, lines |-> v] EXCEPT !.new = Begins(back[1], 0)].lines = v
          /\ [[old |-> u, new |-> z, lines |-> v] EXCEPT !.new = Begins(back[1], 0)].new = Begins(back[1], 0)
        OBVIOUS
    <2> QED
        BY <2>1, <2>2, <2>3, <2>4, Zenon
<1>10. Sent(discard) = IF Reverses(discard) THEN WriteFile(back)[1] ELSE one[1]
    BY DEF Sent, back, one, p
<1>11. Turns(one[1], L, M)
    BY <1>1, <1>5, TurnsIs
<1>12. Turns(WriteFile(back)[1], M, L)
    BY <1>1, <1>9, TurnsIs
<1>13. Turns(p, L, M) /\ p.old = x
    BY <1>1, <1>3, TurnsIs
<1>14. Turns(back[1], M, L) /\ back[1].old = Begins(p, 0)
    BY <1>1, <1>5, <1>6, <1>7, TurnsIs
<1> HIDE DEF back
<1>15. Reverses(discard) =>
           /\ Turns(Sent(discard), M, L)
           /\ Turns(back[1], M, L) /\ back[1].old = Begins(p, 0) /\ Sent(discard).new = Begins(back[1], 0)
    BY <1>9, <1>10, <1>12, <1>14
<1>16. ~ Reverses(discard) => Turns(Sent(discard), L, M) /\ Sent(discard).new = Begins(p, 0)
    BY <1>5, <1>10, <1>11
<1> QED
    BY <1>3, <1>13, <1>15, <1>16 DEF L, M, p

-----------------------------------------------------------------------------
LEMMA ContentsAre ==
    ASSUME NEW S
    PROVE  S \in Contents <=> Fixed \subseteq S /\ S \subseteq Lines
<1>1. Fixed \subseteq Lines
    BY StagingAssumption
<1>2. ASSUME Fixed \subseteq S, S \subseteq Lines PROVE S \in Contents
    <2>1. S = Fixed \union (S \ Fixed) /\ S \ Fixed \in SUBSET (Lines \ Fixed)
        BY <1>2
    <2> QED
        BY <2>1 DEF Contents
<1> QED
    BY <1>1, <1>2 DEF Contents

(* Either side of a piece, put for the other.                               *)
LEMMA MeantIs ==
    ASSUME Sides, NEW k, AtHunk(k), mode \in {"read", "lines"}, NEW T, T \subseteq Lines
    PROVE  /\ KeptAt(k) \subseteq T => (T \ KeptAt(k)) \union OldAt(k) = Undone(T)
           /\ OldAt(k) \subseteq T => (T \ OldAt(k)) \union KeptAt(k) = Done(T)
<1> DEFINE L == OldAt(k)
           R == NewAt(k)
           C == PickedAt(k)
           M == KeptAt(k)
<1>1. L \subseteq Lines /\ R \subseteq Lines /\ M \subseteq Lines
    BY DEF Sides, OldAt, NewAt, KeptAt, NewOf
<1>2. Named = C \intersect ((L \ R) \union (R \ L))
    BY NamedIs
<1>3. M = (R \intersect (L \union C)) \union (L \ C)
    BY DEF KeptAt, NewOf
<1>4. \A s \in Lines : s \in Named => (s \in L <=> s \in shown.old) /\ (s \in R <=> s \in shown.new)
    BY <1>2 DEF OldAt, NewAt
<1>5. Named \subseteq Lines
    BY <1>1, <1>2
<1> HIDE DEF L, R, C, M
<1>6. ASSUME M \subseteq T PROVE (T \ M) \union L = Undone(T)
    BY <1>1, <1>2, <1>3, <1>4, <1>5, <1>6 DEF Undone
<1>7. ASSUME L \subseteq T PROVE (T \ L) \union M = Done(T)
    BY <1>1, <1>2, <1>3, <1>4, <1>5, <1>7 DEF Done
<1> QED
    BY <1>6, <1>7 DEF L, M

-----------------------------------------------------------------------------
(* STAGING.  The page: its inductive invariant.                             *)
(* The page: its cursors stand on something of the patch it shows.          *)
Placed(s, h, m, l, ps) ==
    /\ s.old \in Contents /\ s.new \in Contents
    /\ h \in Nat \ {0} /\ l \in Nat \ {0} /\ m \in {"read", "lines"}
    /\ h \in DOMAIN Patch(s) \union {1}
    /\ m = "lines" => h \in DOMAIN Patch(s) /\ l \in DOMAIN ChangedLines(Patch(s)[h])
    /\ ps # {} => m = "lines" /\ ps \subseteq DOMAIN Patch(s)[h].lines

(* The inductive invariant of the page and of what it stages into.          *)
StagingInv ==
    /\ index \in Contents /\ work \in Contents /\ edits \in 0 .. MaxEdits
    /\ kind \in {"unstaged", "staged"}
    /\ Placed(shown, hunk, mode, line, picked)

LEMMA FetchedIs ==
    ASSUME NEW k, NEW in \in Contents, NEW out \in Contents
    PROVE  Fetched(k, in, out).old \in Contents /\ Fetched(k, in, out).new \in Contents
<1>1. Committed \in Contents
    BY StagingAssumption, ContentsAre
<1> QED
    BY <1>1 DEF Fetched

(* Every hunk of a patch can be looked at, and something of it be picked.   *)
LEMMA HunksAre ==
    ASSUME NEW s, s.old \in Contents, s.new \in Contents
    PROVE  /\ DOMAIN Patch(s) = 1 .. Len(Patch(s)) /\ Len(Patch(s)) \in Nat
           /\ Patch(s) = << >> <=> Len(Patch(s)) = 0
           /\ \A h \in DOMAIN Patch(s) :
                 /\ Len(ChangedLines(Patch(s)[h])) \in Nat \ {0}
                 /\ DOMAIN ChangedLines(Patch(s)[h]) = 1 .. Len(ChangedLines(Patch(s)[h]))
                 /\ ChangedLines(Patch(s)[h]) # << >>
                 /\ \A i \in DOMAIN ChangedLines(Patch(s)[h]) :
                       ChangedLines(Patch(s)[h])[i] \in DOMAIN Patch(s)[h].lines
<1>1. s.old \subseteq Lines /\ s.new \subseteq Lines
    BY ContentsAre
<1>2. /\ DOMAIN Patch(s) = 1 .. Len(Patch(s)) /\ Len(Patch(s)) \in Nat
      /\ Patch(s) = << >> <=> Len(Patch(s)) = 0
      /\ \A n \in DOMAIN Patch(s) : \E k \in DOMAIN Spans : MadeAt(Patch(s)[n], k, s.old, s.new)
    BY <1>1, PatchIs, Zenon
<1>3. ASSUME NEW h \in DOMAIN Patch(s)
      PROVE  /\ Len(ChangedLines(Patch(s)[h])) \in Nat \ {0}
             /\ DOMAIN ChangedLines(Patch(s)[h]) = 1 .. Len(ChangedLines(Patch(s)[h]))
             /\ ChangedLines(Patch(s)[h]) # << >>
             /\ \A i \in DOMAIN ChangedLines(Patch(s)[h]) :
                   ChangedLines(Patch(s)[h])[i] \in DOMAIN Patch(s)[h].lines
    <2> DEFINE a == Patch(s)[h]
    <2>1. PICK k \in DOMAIN Spans : MadeAt(a, k, s.old, s.new)
        BY <1>2
    <2> HIDE DEF a
    <2>2. a.lines \in Seq(Forms) /\ \E i \in DOMAIN a.lines : a.lines[i].origin \in Changes
        BY <1>1, <2>1, MadeChanges
    <2>3. /\ DOMAIN ChangedLines(a) = 1 .. Len(ChangedLines(a)) /\ Len(ChangedLines(a)) \in Nat
          /\ \A i \in DOMAIN ChangedLines(a) : ChangedLines(a)[i] \in DOMAIN a.lines
          /\ (\E i \in DOMAIN a.lines : a.lines[i].origin \in Changes) => Len(ChangedLines(a)) >= 1
          /\ ChangedLines(a) = << >> <=> Len(ChangedLines(a)) = 0
        BY <2>2, ChangedIs
    <2>4. Len(ChangedLines(a)) \in Nat /\ Len(ChangedLines(a)) >= 1
        BY <2>2, <2>3
    <2>5. Len(ChangedLines(a)) \in Nat \ {0} /\ Len(ChangedLines(a)) # 0
        BY <2>4
    <2> QED
        BY <2>3, <2>5 DEF a
<1> QED
    BY <1>2, <1>3

(* Whatever a refresh made of the patch, the page stands on it.             *)
LEMMA SetPlaces ==
    ASSUME Placed(shown, hunk, mode, line, picked), NEW s, s.old \in Contents, s.new \in Contents,
           NEW m, NEW ps, m \in {"read", "lines"}, ps # {} => m = "lines", SetPatch(s, m, ps)
    PROVE  Placed(shown', hunk', mode', line', picked')
<1> DEFINE P == Patch(s)
           h == IF P = << >> THEN 1 ELSE IF hunk > Len(P) THEN Len(P) ELSE hunk
           lines == IF P = << >> THEN << >> ELSE P[h].lines
           c == IF P = << >> THEN 0 ELSE Len(ChangedLines(P[h]))
<1>1. /\ shown' = s /\ hunk' = h
      /\ mode' = IF c = 0 THEN "read" ELSE m
      /\ line' = IF line <= c THEN line ELSE IF c = 0 THEN 1 ELSE c
      /\ picked' = ps \intersect DOMAIN lines
    BY DEF SetPatch
<1>2. DOMAIN P = 1 .. Len(P) /\ Len(P) \in Nat /\ (P = << >> <=> Len(P) = 0)
    BY HunksAre
<1>3. \A n \in DOMAIN P : /\ Len(ChangedLines(P[n])) \in Nat \ {0}
                           /\ DOMAIN ChangedLines(P[n]) = 1 .. Len(ChangedLines(P[n]))
    BY HunksAre
<1>4. hunk \in Nat \ {0} /\ line \in Nat \ {0}
    BY DEF Placed
<1> HIDE DEF P
<1>5. CASE P = << >>
    <2>1. h = 1 /\ c = 0 /\ lines = << >>
        BY <1>5
    <2> HIDE DEF h, c, lines
    <2>2. mode' = "read" /\ picked' = {} /\ line' \in Nat \ {0} /\ hunk' = 1
        BY <1>1, <1>4, <2>1
    <2> QED
        BY <1>1, <2>2 DEF Placed, P
<1>6. CASE P # << >>
    <2>1. h \in Nat /\ h >= 1 /\ h <= Len(P)
        BY <1>2, <1>4, <1>6
    <2>2. h \in DOMAIN P
        BY <1>2, <2>1
    <2>3. c = Len(ChangedLines(P[h])) /\ lines = P[h].lines
        BY <1>6
    <2> HIDE DEF h, c, lines
    <2>4. c \in Nat \ {0} /\ DOMAIN ChangedLines(P[h]) = 1 .. c
        BY <1>3, <2>2, <2>3
    <2>5. mode' = m /\ line' \in Nat \ {0} /\ line' \in 1 .. c
        <3>1. line' = IF line <= c THEN line ELSE c
            BY <1>1, <2>4
        <3>2. mode' = m
            BY <1>1, <2>4
        <3> QED
            BY <1>4, <2>4, <3>1, <3>2
    <2>6. picked' \subseteq DOMAIN P[h].lines /\ (picked' # {} => m = "lines")
        BY <1>1, <2>3
    <2>7. h \in Nat \ {0}
        BY <2>1
    <2> QED
        BY <1>1, <2>2, <2>4, <2>5, <2>6, <2>7 DEF Placed, P
<1> QED
    BY <1>5, <1>6

-----------------------------------------------------------------------------
LEMMA StagingInvInit == StagingInit => StagingInv
<1> SUFFICES ASSUME StagingInit PROVE StagingInv
    OBVIOUS
<1>1. shown.old \in Contents /\ shown.new \in Contents
    BY FetchedIs DEF StagingInit
<1>2. edits \in 0 .. MaxEdits
    BY StagingAssumption DEF StagingInit
<1>3. Placed(shown, hunk, mode, line, picked)
    BY <1>1 DEF StagingInit, Placed
<1> QED
    BY <1>2, <1>3 DEF StagingInit, StagingInv

LEMMA ViewHere ==
    ASSUME StagingInv
    PROVE  /\ DOMAIN Hunks = 1 .. Len(Hunks) /\ Len(Hunks) \in Nat
           /\ Hunks = << >> <=> Len(Hunks) = 0
           /\ HasHunk => /\ Changed = ChangedLines(Hunks[hunk]) /\ Changed # << >>
                         /\ Len(Changed) \in Nat \ {0} /\ DOMAIN Changed = 1 .. Len(Changed)
                         /\ \A i \in DOMAIN Changed : Changed[i] \in DOMAIN Hunks[hunk].lines
           /\ ~ HasHunk => Changed = << >>
<1>1. shown.old \in Contents /\ shown.new \in Contents
    BY DEF StagingInv, Placed
<1> QED
    BY <1>1, HunksAre DEF Hunks, HasHunk, Changed

LEMMA StagingInvNext == StagingInv /\ [StagingNext]_stagingVars => StagingInv'
<1> SUFFICES ASSUME StagingInv, [StagingNext]_stagingVars PROVE StagingInv'
    OBVIOUS
<1> USE DEF StagingInv
<1>0. Contents' = Contents
    BY DEF Contents, Lines
<1>1. ASSUME NEW k \in {"unstaged", "staged"}, Open(k) PROVE StagingInv'
    <2>1. shown'.old \in Contents /\ shown'.new \in Contents
        BY <1>1, FetchedIs DEF Open
    <2>2. Placed(shown', hunk', mode', line', picked')
        BY <1>1, <2>1 DEF Open, Placed
    <2> QED
        BY <1>1, <2>2 DEF Open, repo
<1>2. CASE Refresh
    <2> DEFINE s == Fetched(kind, index, work)
    <2>1. s.old \in Contents /\ s.new \in Contents
        BY FetchedIs
    <2>2. mode \in {"read", "lines"} /\ (picked # {} => mode = "lines")
        BY DEF Placed
    <2>3. SetPatch(s, mode, picked)
        BY <1>2 DEF Refresh
    <2> HIDE DEF s
    <2>4. Placed(shown', hunk', mode', line', picked')
        BY <2>1, <2>2, <2>3, SetPlaces
    <2> QED
        BY <1>2, <2>4 DEF Refresh, repo
<1>3. CASE LineSelect
    <2>1. HasHunk /\ Len(Changed) \in Nat \ {0} /\ Changed = ChangedLines(Hunks[hunk])
          /\ DOMAIN Changed = 1 .. Len(Changed)
        BY <1>3, ViewHere DEF LineSelect
    <2>2. 1 \in DOMAIN ChangedLines(Hunks[hunk])
        BY <2>1
    <2>3. Placed(shown', hunk', mode', line', picked')
        BY <1>3, <2>1, <2>2 DEF LineSelect, Placed, Hunks, HasHunk
    <2> QED
        BY <1>3, <2>3 DEF LineSelect, repo
<1>4. CASE Cancel
    <2>1. Placed(shown', hunk', mode', line', picked')
        BY <1>4 DEF Cancel, Placed
    <2> QED
        BY <1>4, <2>1 DEF Cancel, repo
<1>5. CASE PickLine
    <2>1. HasHunk /\ Len(Changed) \in Nat \ {0} /\ Changed = ChangedLines(Hunks[hunk])
          /\ DOMAIN Changed = 1 .. Len(Changed)
          /\ \A i \in DOMAIN Changed : Changed[i] \in DOMAIN Hunks[hunk].lines
        <3>1. Changed # << >>
            BY <1>5 DEF PickLine
        <3> QED
            BY <3>1, ViewHere
    <2>2. line \in 1 .. Len(Changed) /\ mode = "lines" /\ picked \subseteq DOMAIN Hunks[hunk].lines
        BY <1>5, <2>1 DEF PickLine, Placed, Hunks
    <2>3. line' \in 1 .. Len(Changed)
        <3>1. line' = IF line < Len(Changed) THEN line + 1 ELSE line
            BY <1>5 DEF PickLine
        <3>2. line \in 1 .. Len(Changed) /\ Len(Changed) \in Nat
            BY <2>1, <2>2
        <3> QED
            BY <3>1, <3>2
    <2>4. picked' \subseteq DOMAIN Hunks[hunk].lines
        <3>1. Changed[line] \in DOMAIN Hunks[hunk].lines
            BY <2>1, <2>2
        <3>2. picked' = IF Changed[line] \in picked THEN picked \ {Changed[line]}
                        ELSE picked \union {Changed[line]}
            BY <1>5 DEF PickLine
        <3> QED
            BY <2>2, <3>1, <3>2
    <2>5. line' \in Nat \ {0}
        BY <2>1, <2>3
    <2>6. line' \in DOMAIN ChangedLines(Hunks[hunk]) /\ hunk \in DOMAIN Hunks
        BY <2>1, <2>3 DEF HasHunk
    <2>7. UNCHANGED <<repo, kind, shown, hunk, mode>>
        BY <1>5 DEF PickLine
    <2>8. Placed(shown', hunk', mode', line', picked')
        BY <2>2, <2>4, <2>5, <2>6, <2>7 DEF Placed, Hunks
    <2> QED
        BY <2>7, <2>8 DEF repo
<1>6. ASSUME NEW delta \in {-1, 1}, StepHunk(delta) PROVE StagingInv'
    <2>1. DOMAIN Hunks = 1 .. Len(Hunks) /\ Len(Hunks) \in Nat
        BY ViewHere
    <2>2. hunk' \in Nat \ {0} /\ hunk' \in DOMAIN Patch(shown) \union {1}
        <3>1. hunk \in Nat \ {0} /\ hunk \in DOMAIN Patch(shown) \union {1}
            BY DEF Placed
        <3>2. hunk' = IF hunk + delta \in DOMAIN Hunks THEN hunk + delta ELSE hunk
            BY <1>6 DEF StepHunk
        <3>3. CASE hunk + delta \in DOMAIN Hunks
            <4>1. hunk + delta \in Nat \ {0}
                BY <2>1, <3>3
            <4> QED
                BY <3>2, <3>3, <4>1 DEF Hunks
        <3>4. CASE hunk + delta \notin DOMAIN Hunks
            BY <3>1, <3>2, <3>4
        <3> QED
            BY <3>3, <3>4
    <2>3. mode' = "read" /\ picked' = {} /\ line' = 1 /\ UNCHANGED <<repo, kind, shown>>
        BY <1>6 DEF StepHunk
    <2>4. Placed(shown', hunk', mode', line', picked')
        BY <2>2, <2>3 DEF Placed
    <2> QED
        BY <2>3, <2>4 DEF repo
<1>7. ASSUME NEW to \in DOMAIN Changed, StepLine(to) PROVE StagingInv'
    <2>1. HasHunk /\ Len(Changed) \in Nat \ {0} /\ Changed = ChangedLines(Hunks[hunk])
          /\ DOMAIN Changed = 1 .. Len(Changed)
        BY <1>7, ViewHere
    <2>2. line' = to /\ UNCHANGED <<repo, kind, shown, hunk, mode, picked>>
        BY <1>7 DEF StepLine
    <2>3. line' \in Nat \ {0} /\ line' \in DOMAIN ChangedLines(Hunks[hunk])
        BY <2>1, <2>2
    <2>4. Placed(shown', hunk', mode', line', picked')
        BY <2>2, <2>3 DEF Placed, Hunks
    <2> QED
        BY <2>2, <2>4 DEF repo
<1>8. ASSUME NEW discard \in BOOLEAN, Apply(discard) PROVE StagingInv'
    <2>1. PICK made \in Contents :
              LET in == IF discard THEN index ELSE made
                  out == IF discard THEN made ELSE work
              IN  /\ index' = in /\ work' = out
                  /\ \E s \in {shown, Fetched(kind, in, out)} : SetPatch(s, "read", {})
                  /\ UNCHANGED <<edits, kind>>
        BY <1>8 DEF Apply
    <2>2. made \in Contents
        OBVIOUS
    <2>3. index' = (IF discard THEN index ELSE made) /\ work' = (IF discard THEN made ELSE work)
          /\ UNCHANGED <<edits, kind>>
        BY <2>1
    <2>4. index' \in Contents /\ work' \in Contents
        BY <2>2, <2>3
    <2>5. PICK s \in {shown, Fetched(kind, index', work')} : SetPatch(s, "read", {})
        BY <2>1, <2>3
    <2>6. s.old \in Contents /\ s.new \in Contents
        <3>1. shown.old \in Contents /\ shown.new \in Contents
            BY DEF Placed
        <3>2. Fetched(kind, index', work').old \in Contents /\ Fetched(kind, index', work').new \in Contents
            BY <2>4, FetchedIs
        <3> QED
            BY <2>5, <3>1, <3>2
    <2>7. Placed(shown', hunk', mode', line', picked')
        BY <2>5, <2>6, SetPlaces
    <2> QED
        BY <2>3, <2>4, <2>7
<1>9. ASSUME NEW s \in Lines, Edit(s) PROVE StagingInv'
    <2>1. work' = (IF s \in work THEN work \ {s} ELSE work \union {s}) /\ s \notin Fixed
          /\ edits' = edits + 1 /\ edits < MaxEdits /\ UNCHANGED <<index, view>>
        BY <1>9 DEF Edit
    <2>2. work' \in Contents
        <3>1. Fixed \subseteq work /\ work \subseteq Lines
            BY ContentsAre
        <3>2. Fixed \subseteq work' /\ work' \subseteq Lines
            BY <2>1, <3>1
        <3> QED
            BY <3>2, ContentsAre
    <2>3. edits' \in 0 .. MaxEdits
        BY <2>1, StagingAssumption
    <2> QED
        BY <2>1, <2>2, <2>3 DEF view, Placed
<1>10. CASE UNCHANGED stagingVars
    BY <1>10 DEF stagingVars, Placed
<1> QED
    BY <1>1, <1>2, <1>3, <1>4, <1>5, <1>6, <1>7, <1>8, <1>9, <1>10 DEF StagingNext

(* Every side of a file holds the lines that are everywhere, and the page   *)
(* stands on the patch it shows, whatever was picked, sent or edited        *)
(* (DiffView, clamp_cursor).                                                *)
THEOREM StagingInvHolds == StagingSpec => []StagingInv
<1>1. StagingInv /\ [StagingNext]_stagingVars => StagingInv'
    BY StagingInvNext
<1> QED
    BY <1>1, StagingInvInit, PTL DEF StagingSpec

-----------------------------------------------------------------------------
(* STAGING.  What staging promises.                                         *)
(* A piece has context on both sides, so its header keeps the line it had   *)
(* on the old side, turned round or not.                                    *)
LEMMA HeaderStays ==
    ASSUME shown.old \in Contents, shown.new \in Contents, NEW k, AtHunk(k),
           NEW discard, CutAt(Piece(discard), k)
    PROVE  /\ OldAt(k) # {} /\ KeptAt(k) # {} /\ Above(shown.old, k) \in Nat
           /\ OldAt(k) \subseteq Lines /\ KeptAt(k) \subseteq Lines
           /\ OldAt(k) \subseteq Span(k) /\ KeptAt(k) \subseteq Span(k)
           /\ Fixed \intersect Span(k) \subseteq OldAt(k) /\ Fixed \intersect Span(k) \subseteq KeptAt(k)
           /\ Sent(discard).new = Above(shown.old, k) + 1
<1> DEFINE p == Piece(discard)
           a == Above(shown.old, k)
           L == OldAt(k)
           M == KeptAt(k)
<1>1. Sides /\ Fixed \subseteq shown.old /\ Fixed \subseteq shown.new
    BY ContentsAre DEF Sides
<1>2. PICK s \in Fixed : s \in Span(k)
    BY SpanIs DEF AtHunk
<1>3. Fixed \intersect Span(k) \subseteq L /\ Fixed \intersect Span(k) \subseteq NewAt(k)
    BY <1>1 DEF OldAt, NewAt
<1>4. Fixed \intersect Span(k) \subseteq M
    BY <1>3 DEF KeptAt, NewOf
<1>5. L \subseteq Lines /\ M \subseteq Lines /\ L \subseteq Span(k) /\ M \subseteq Span(k)
    BY <1>1 DEF Sides, OldAt, NewAt, KeptAt, NewOf
<1>6. /\ Reverses(discard) => \E b : /\ Turns(b, M, L) /\ b.old = Begins(p, 0)
                                      /\ Sent(discard).new = Begins(b, 0)
      /\ ~ Reverses(discard) => Sent(discard).new = Begins(p, 0)
      /\ Turns(p, L, M) /\ p.old = a + 1
    BY <1>1, SentIs
<1>7. a \in Nat
    <2>1. s \in shown.old \intersect Span(k) /\ k \in DOMAIN Spans /\ shown.old \subseteq Lines
        BY <1>1, <1>2 DEF AtHunk, Sides
    <2> QED
        BY <2>1, RankInSpan
<1> HIDE DEF p, a, L, M
<1>8. Cardinality(L) # 0 /\ Cardinality(M) # 0
    <2>1. IsFiniteSet(L) /\ IsFiniteSet(M)
        BY <1>5, OfLines DEF Numbers
    <2> QED
        BY <1>2, <1>3, <1>4, <2>1, FS_EmptySet
<1>9. ASSUME NEW b, NEW X, NEW Y, Turns(b, X, Y), Cardinality(X) # 0, Cardinality(Y) # 0, b.old = a + 1
      PROVE  Begins(b, 0) = a + 1
    <2>1. OldLen(b) # 0 /\ NewLen(b) # 0
        BY <1>9 DEF Turns
    <2> QED
        BY <1>7, <1>9, <2>1 DEF Begins
<1>10. Begins(p, 0) = a + 1
    BY <1>6, <1>8, <1>9
<1>11. Sent(discard).new = a + 1
    <2>1. CASE Reverses(discard)
        <3>1. PICK b : Turns(b, M, L) /\ b.old = Begins(p, 0) /\ Sent(discard).new = Begins(b, 0)
            BY <1>6, <2>1
        <3>2. b.old = a + 1
            BY <1>10, <3>1
        <3> QED
            BY <1>8, <1>9, <3>1, <3>2
    <2>2. CASE ~ Reverses(discard)
        BY <1>6, <1>10, <2>2
    <2> QED
        BY <2>1, <2>2
<1> QED
    BY <1>2, <1>3, <1>4, <1>5, <1>7, <1>11 DEF a, L, M

LEMMA StagedFresh == ASSUME LastTells, StagingInv PROVE FreshIsStaged
<1> SUFFICES ASSUME kind = "unstaged", shown.old = index, Piece(FALSE) # NoPiece
             PROVE  Accepted(FALSE) /\ Result(FALSE) = Content(Done(index))
    BY DEF FreshIsStaged
<1> DEFINE k == HunkSpan
           X == OldAt(k)
           Y == KeptAt(k)
           h == Sent(FALSE)
<1>1. shown.old \in Contents /\ shown.new \in Contents /\ index \subseteq Lines /\ mode \in {"read", "lines"}
    BY ContentsAre DEF StagingInv, Placed
<1>2. Sides
    BY <1>1, ContentsAre DEF Sides
<1>3. HasHunk
    BY DEF Piece
<1>4. AtHunk(k)
    BY <1>2, <1>3, HunkAt
<1>5. CutAt(Piece(FALSE), k)
    BY <1>2, <1>4, PieceIs
<1>6. ~ Reverses(FALSE) /\ Target(FALSE) = index
    BY DEF Reverses, Target
<1>7. Turns(h, X, Y)
    BY <1>2, <1>4, <1>5, <1>6, SentIs
<1>8. Y \subseteq Lines /\ Y \subseteq Span(k) /\ h.new = Above(index, k) + 1
    BY <1>1, <1>4, <1>5, HeaderStays
<1>9. k \in DOMAIN Spans /\ X = index \intersect Span(k)
    BY <1>4 DEF AtHunk, OldAt
<1> HIDE DEF k, X, Y, h
<1>10. Matches(Content(index), h) /\ Patched(Content(index), h) = Content((index \ X) \union Y)
    BY <1>1, <1>7, <1>8, <1>9, Belongs
<1>11. (index \ X) \union Y = Done(index)
    <2>1. X \subseteq index
        BY <1>9
    <2> QED
        BY <1>1, <1>2, <1>4, <2>1, MeantIs DEF X, Y
<1> QED
    BY <1>6, <1>10, <1>11 DEF Accepted, Result, h

LEMMA TakenBack ==
    ASSUME LastTells, StagingInv, mode = "read", HasHunk, Hunks[hunk].old = Hunks[hunk].new,
           NEW discard \in BOOLEAN, Reverses(discard), ~ (discard /\ kind = "staged"),
           shown.new = Target(discard)
    PROVE  Accepted(discard) /\ Result(discard) = Content(Undone(Target(discard)))
<1> DEFINE T == Target(discard)
           k == HunkSpan
           X == KeptAt(k)
           Y == OldAt(k)
           h == Sent(discard)
<1>1. shown.old \in Contents /\ shown.new \in Contents /\ T \subseteq Lines
    BY ContentsAre DEF StagingInv, Placed
<1>2. Sides
    BY <1>1, ContentsAre DEF Sides
<1>3. AtHunk(k)
    BY <1>2, HunkAt
<1>4. KeptAt(k) = NewAt(k) /\ Piece(discard) # NoPiece
    BY <1>2, <1>3, WholeIs
<1>5. CutAt(Piece(discard), k)
    BY <1>2, <1>3, <1>4, PieceIs
<1>6. Turns(h, X, Y)
    BY <1>2, <1>3, <1>5, SentIs
<1>7. Y \subseteq Lines /\ Y \subseteq Span(k) /\ h.new = Above(shown.old, k) + 1 /\ Above(shown.old, k) \in Nat
    BY <1>1, <1>3, <1>5, HeaderStays
<1>8. k \in DOMAIN Spans /\ X = T \intersect Span(k)
    BY <1>3, <1>4 DEF AtHunk, NewAt
<1>9. Hunks[hunk].old = Above(shown.old, k) + 1 /\ Hunks[hunk].new = Above(T, k) + 1
    BY <1>3 DEF AtHunk, MadeAt
<1>10. h.new = Above(T, k) + 1
    BY <1>7, <1>9
<1> HIDE DEF T, k, X, Y, h
<1>11. Matches(Content(T), h) /\ Patched(Content(T), h) = Content((T \ X) \union Y)
    BY <1>1, <1>6, <1>7, <1>8, <1>10, Belongs
<1>12. (T \ X) \union Y = Undone(T)
    <2>1. X \subseteq T
        BY <1>8
    <2> QED
        BY <1>1, <1>2, <1>3, <2>1, MeantIs DEF X, Y
<1> QED
    BY <1>4, <1>11, <1>12 DEF Accepted, Result, T, h

(* A page whose patch is up to date refuses nothing of what it offers to    *)
(* stage, and makes what it shows: its cursors stand on something, what is  *)
(* picked stands in the index at the line its header states, and so does a  *)
(* whole hunk that is taken back, if it is at the same line on both sides.  *)
(* A last line without a newline says what no other line says.              *)
THEOREM FreshPagesAreDone == LastTells => (StagingSpec => []FreshIsDone)
<1> SUFFICES ASSUME LastTells PROVE StagingSpec => []FreshIsDone
    OBVIOUS
<1>1. StagingInv => StagingTypeOK
    <2> SUFFICES ASSUME StagingInv PROVE StagingTypeOK
        OBVIOUS
    <2>1. hunk \in DOMAIN Hunks \union {1}
        BY DEF StagingInv, Placed, Hunks
    <2>2. ASSUME mode = "lines" PROVE line \in DOMAIN Changed
        BY <2>2 DEF StagingInv, Placed, Hunks, HasHunk, Changed
    <2>3. ASSUME picked # {} PROVE mode = "lines" /\ HasHunk /\ picked \subseteq DOMAIN Hunks[hunk].lines
        BY <2>3 DEF StagingInv, Placed, Hunks, HasHunk
    <2>4. mode \in {"read", "lines"}
        BY DEF StagingInv, Placed
    <2> QED
        BY <2>1, <2>2, <2>3, <2>4 DEF StagingInv, StagingTypeOK
<1>2. StagingInv => FreshIsStaged
    BY StagedFresh
<1>3. StagingInv => HunkIsUndone
    <2> SUFFICES ASSUME StagingInv, mode = "read", HasHunk, Hunks[hunk].old = Hunks[hunk].new
                 PROVE  /\ kind = "staged" /\ shown.new = index =>
                               Accepted(FALSE) /\ Result(FALSE) = Content(Undone(index))
                        /\ kind = "unstaged" /\ shown.new = work =>
                               Accepted(TRUE) /\ Result(TRUE) = Content(Undone(work))
        BY DEF HunkIsUndone
    <2>1. ASSUME kind = "staged", shown.new = index
          PROVE  Accepted(FALSE) /\ Result(FALSE) = Content(Undone(index))
        <3>1. Reverses(FALSE) /\ Target(FALSE) = index
            BY <2>1 DEF Reverses, Target
        <3>2. Accepted(FALSE) /\ Result(FALSE) = Content(Undone(Target(FALSE)))
            BY <2>1, <3>1, TakenBack
        <3> QED
            BY <3>1, <3>2
    <2>2. ASSUME kind = "unstaged", shown.new = work
          PROVE  Accepted(TRUE) /\ Result(TRUE) = Content(Undone(work))
        <3>1. Reverses(TRUE) /\ Target(TRUE) = work /\ ~ (TRUE /\ kind = "staged")
            BY <2>2 DEF Reverses, Target
        <3>2. Accepted(TRUE) /\ Result(TRUE) = Content(Undone(Target(TRUE)))
            BY <2>2, <3>1, TakenBack
        <3> QED
            BY <3>1, <3>2
    <2> QED
        BY <2>1, <2>2
<1>4. StagingInv => FreshIsDone
    BY <1>1, <1>2, <1>3 DEF FreshIsDone
<1>5. StagingSpec => []StagingInv
    BY StagingInvHolds
<1> QED
    BY <1>4, <1>5, PTL

(* What is accepted of a stale patch that tells its lines.                  *)
LEMMA ToldIsMeant ==
    ASSUME LastTells, StagingInv, NEW discard \in BOOLEAN, Accepted(discard), Tells(discard)
    PROVE  Result(discard) = Content(Meant(discard))
<1> DEFINE T == Target(discard)
           k == HunkSpan
           h == Sent(discard)
           X == IF Reverses(discard) THEN KeptAt(k) ELSE OldAt(k)
           Y == IF Reverses(discard) THEN OldAt(k) ELSE KeptAt(k)
           p == h.new
<1>1. shown.old \in Contents /\ shown.new \in Contents /\ T \subseteq Lines /\ Fixed \subseteq T
      /\ mode \in {"read", "lines"}
    BY ContentsAre DEF StagingInv, Placed, Target
<1>2. Sides
    BY <1>1, ContentsAre DEF Sides
<1>3. HasHunk /\ Piece(discard) # NoPiece /\ Matches(Content(T), h)
    BY DEF Accepted, Piece
<1>4. AtHunk(k)
    BY <1>2, <1>3, HunkAt
<1>5. CutAt(Piece(discard), k)
    BY <1>2, <1>3, <1>4, PieceIs
<1>6. Turns(h, X, Y)
    BY <1>2, <1>4, <1>5, SentIs
<1>7. /\ X # {} /\ X \subseteq Lines /\ X \subseteq Span(k) /\ Fixed \intersect Span(k) \subseteq X
      /\ Y \subseteq Lines /\ Y \subseteq Span(k)
      /\ Above(shown.old, k) \in Nat /\ p = Above(shown.old, k) + 1
    BY <1>1, <1>4, <1>5, HeaderStays
<1>8. k \in DOMAIN Spans
    BY <1>4 DEF AtHunk
<1>9. PICK e \in Fixed \intersect Span(k) : \A s \in Lines : Said(s) = Said(e) => s = e
    BY DEF Tells
<1>10. Spans[k][2] \in Fixed \/ Last(Side(h.lines, Old)) = Last(Content(T))
    BY DEF Tells
<1>11. Result(discard) = Patched(Content(T), h)
    BY DEF Result
<1>12. (T \ X) \union Y = Meant(discard) \/ ~ (X \subseteq T)
    <2>1. KeptAt(k) \subseteq T => (T \ KeptAt(k)) \union OldAt(k) = Undone(T)
        BY <1>1, <1>2, <1>4, MeantIs
    <2>2. OldAt(k) \subseteq T => (T \ OldAt(k)) \union KeptAt(k) = Done(T)
        BY <1>1, <1>2, <1>4, MeantIs
    <2> QED
        BY <2>1, <2>2 DEF Meant
<1> HIDE DEF T, k, h, X, Y
<1>13. StandsAt(T, X, p)
    BY <1>1, <1>3, <1>6, <1>7, <1>8, <1>9, Anchored
<1>14. Spans[k][1] \in Fixed \/ p = 1
    <2> SUFFICES ASSUME Spans[k][1] = 1 PROVE p = 1
        BY <1>8, SpanIs
    <2>1. \A s \in shown.old : ~ (s < Spans[k][1])
        BY <1>2, OfLines DEF Sides, Lines
    <2>2. {s \in shown.old : s < Spans[k][1]} = {}
        BY <2>1
    <2>3. Above(shown.old, k) = 0
        BY <2>2, FS_EmptySet DEF Above
    <2> QED
        BY <1>7, <2>3
<1>15. Spans[k][2] \in Fixed \/ p + Cardinality(X) - 1 = Cardinality(T)
    <2> SUFFICES ASSUME Spans[k][2] \notin Fixed PROVE p + Cardinality(X) - 1 = Cardinality(T)
        OBVIOUS
    <2> DEFINE t == Ordered(T)
               x == Ordered(X)
               m == Cardinality(T)
               a == Cardinality(X)
    <2>1. m \in Nat /\ a \in Nat /\ a # 0
        BY <1>1, <1>7, OfLines, FS_EmptySet DEF Numbers
    <2>2. p \in Int /\ p >= 1 /\ p + a - 1 <= m /\ t[p + a - 1] = x[a]
        <3>1. a \in 1 .. a
            BY <2>1
        <3> QED
            BY <1>13, <3>1 DEF StandsAt
    <2>3. a \in 1 .. a /\ m \in 1 .. m /\ p + a - 1 \in 1 .. m
        BY <2>1, <2>2
    <2>4. /\ \A i \in 1 .. m : t[i] \in T /\ t[i] \in Lines /\ t[i] \in Int
          /\ \A i, j \in 1 .. m : i < j => t[i] < t[j]
        BY <1>1, OrderIs
    <2>5. /\ \A i \in 1 .. a : x[i] \in X /\ x[i] \in Lines /\ x[i] \in Int
          /\ \A i, j \in 1 .. a : i < j => x[i] < x[j]
          /\ \A s \in X : \E i \in 1 .. a : x[i] = s
        BY <1>7, OrderIs
    <2>6. Said(x[a]) = Said(t[m])
        <3>1. Side(h.lines, Old) = Content(X)
            BY <1>6 DEF Turns
        <3>2. Len(Content(X)) = a /\ Content(X)[a] = Said(x[a])
            BY <1>7, <2>3, ContentIs
        <3>3. Len(Content(T)) = m /\ Content(T)[m] = Said(t[m])
            BY <1>1, <2>3, ContentIs
        <3>4. Last(Content(X)) = Last(Content(T))
            BY <1>10, <3>1
        <3> QED
            BY <3>2, <3>3, <3>4 DEF Last
    <2> HIDE DEF t, x, m, a
    <2>7. x[a] = t[m]
        <3>1. CASE x[a] \notin Fixed \/ t[m] \notin Fixed
            BY <2>3, <2>4, <2>5, <2>6, <3>1, SaidIs
        <3>2. CASE t[m] \in Fixed
            <4>1. t[p + a - 1] <= t[m]
                <5>1. p + a - 1 = m \/ p + a - 1 < m
                    BY <2>1, <2>2
                <5> QED
                    BY <2>3, <2>4, <5>1
            <4>2. t[m] \in Span(k)
                <5>1. Spans[k][1] <= x[a]
                    BY <1>7, <1>8, <2>3, <2>5, SpanIs DEF Span
                <5>2. Spans[k][2] = Slots /\ Spans[k][1] \in Int /\ Slots \in Int
                    BY <1>8, SpanIs
                <5>3. t[m] <= Slots /\ t[m] \in Int /\ x[a] \in Int
                    BY <2>3, <2>4, <2>5, <5>2 DEF Lines
                <5> QED
                    BY <2>2, <4>1, <5>1, <5>2, <5>3 DEF Span
            <4>3. t[m] \in X
                BY <1>7, <3>2, <4>2
            <4>4. PICK i \in 1 .. a : x[i] = t[m]
                BY <2>5, <4>3
            <4>5. x[i] <= x[a]
                <5>1. i = a \/ i < a
                    BY <2>1
                <5> QED
                    BY <2>3, <2>5, <5>1
            <4> QED
                BY <2>2, <2>3, <2>4, <2>5, <4>1, <4>4, <4>5
        <3> QED
            BY <3>1, <3>2
    <2>8. ~ (p + a - 1 < m)
        <3> SUFFICES ASSUME p + a - 1 < m PROVE FALSE
            OBVIOUS
        <3>1. t[p + a - 1] < t[m] /\ t[m] \in Int
            BY <2>3, <2>4
        <3> QED
            BY <2>2, <2>7, <3>1
    <2> QED
        BY <2>1, <2>2, <2>8 DEF m, a
<1>16. X = T \intersect Span(k) /\ p = Above(T, k) + 1
    BY <1>1, <1>7, <1>8, <1>13, <1>14, <1>15, Within
<1>17. Patched(Content(T), h) = Content((T \ X) \union Y)
    BY <1>1, <1>6, <1>7, <1>8, <1>16, Belongs
<1>18. X \subseteq T
    BY <1>16
<1> QED
    BY <1>11, <1>12, <1>17, <1>18

(* What a client stages, unstages or discards is exactly what it names on   *)
(* its screen or nothing at all, however stale its patch is and whatever    *)
(* the repository holds by then, where the hunk tells its lines: it has a   *)
(* line of context that is said nowhere else, and no addition at the end of *)
(* the file is made twice.                                                  *)
THEOREM NothingElseIsTouched == LastTells => (StagingSpec => []OnlyWhatIsNamed)
<1> SUFFICES ASSUME LastTells PROVE StagingSpec => []OnlyWhatIsNamed
    OBVIOUS
<1>1. StagingInv => OnlyWhatIsNamed
    BY ToldIsMeant DEF OnlyWhatIsNamed
<1>2. StagingSpec => []StagingInv
    BY StagingInvHolds
<1> QED
    BY <1>1, <1>2, PTL
=============================================================================

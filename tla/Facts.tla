-------------------------------- MODULE Facts -------------------------------
(***************************************************************************)
(* What the proofs of several components need of numbers and of recursive  *)
(* functions.  The induction theorems of the library take an operator; the *)
(* one here takes a SET, the set of the numbers of which something holds.  *)
(***************************************************************************)
EXTENDS Integers, FiniteSetsExt, WellFoundedInduction, TLAPS

(* A set of numbers that holds 0, and n + 1 with n, holds them all.         *)
LEMMA NatSetInduction ==
    ASSUME NEW S, 0 \in S, \A n \in Nat : n \in S => n + 1 \in S
    PROVE  \A n \in Nat : n \in S
<1> DEFINE Out == Nat \ S
           Less == OpToRel(<, Nat)
<1>1. SUFFICES ASSUME Out # {} PROVE FALSE
    OBVIOUS
<1>2. PICK m \in Out : \A n \in Out : ~ (<<n, m>> \in Less)
    <2>1. IsWellFoundedOn(Less, Nat)
        BY NatLessThanWellFounded
    <2>2. Out \subseteq Nat
        OBVIOUS
    <2> QED
        BY <1>1, <2>1, <2>2, WFMin
<1>3. \A n \in Nat : n < m => n \in S
    <2> SUFFICES ASSUME NEW n \in Nat, n < m, n \notin S PROVE FALSE
        OBVIOUS
    <2>1. <<n, m>> \in Less
        BY DEF OpToRel
    <2> QED
        BY <1>2, <2>1
<1> HIDE DEF Less
<1>4. CASE m = 0
    BY <1>2, <1>4
<1>5. CASE m # 0
    <2>1. m - 1 \in Nat /\ m - 1 < m /\ m = (m - 1) + 1
        BY <1>2, <1>5
    <2> QED
        BY <1>2, <1>3, <2>1
<1> QED
    BY <1>4, <1>5

(* The same up to a bound.                                                  *)
LEMMA UpTo ==
    ASSUME NEW n \in Nat, NEW S, 0 \in S, \A i \in 0 .. n - 1 : i \in S => i + 1 \in S
    PROVE  \A i \in 0 .. n : i \in S
<1> DEFINE T == {i \in Nat : i <= n => i \in S}
<1>1. 0 \in T
    OBVIOUS
<1>2. ASSUME NEW i \in Nat, i \in T PROVE i + 1 \in T
    <2> SUFFICES ASSUME i + 1 <= n PROVE i + 1 \in S
        OBVIOUS
    <2>1. i \in 0 .. n - 1 /\ i \in S
        BY <1>2
    <2> QED
        BY <2>1
<1> HIDE DEF T
<1>3. \A i \in Nat : i \in T
    BY <1>1, <1>2, NatSetInduction
<1> QED
    BY <1>3 DEF T

-----------------------------------------------------------------------------
(* A bounded set of numbers has a greatest.                                 *)
LEMMA MaxIsGreatest ==
    ASSUME NEW n \in Nat, NEW S, S \subseteq 0 .. n, S # {}
    PROVE  Max(S) \in S /\ \A x \in S : Max(S) >= x
<1> DEFINE T == {i \in Nat : \A U \in SUBSET (0 .. i) :
                    U # {} => \E x \in U : \A y \in U : x >= y}
<1>1. 0 \in T
    <2> SUFFICES ASSUME NEW U \in SUBSET (0 .. 0), U # {}
                 PROVE  \E x \in U : \A y \in U : x >= y
        OBVIOUS
    <2>1. PICK x \in U : TRUE
        OBVIOUS
    <2>2. \A y \in U : y = 0
        OBVIOUS
    <2> QED
        BY <2>1, <2>2
<1>2. ASSUME NEW i \in Nat, i \in T PROVE i + 1 \in T
    <2> SUFFICES ASSUME NEW U \in SUBSET (0 .. i + 1), U # {}
                 PROVE  \E x \in U : \A y \in U : x >= y
        OBVIOUS
    <2>1. CASE i + 1 \in U
        BY <2>1
    <2>2. CASE i + 1 \notin U
        <3>1. U \in SUBSET (0 .. i)
            BY <2>2
        <3> QED
            BY <1>2, <3>1
    <2> QED
        BY <2>1, <2>2
<1> HIDE DEF T
<1>3. n \in T
    BY <1>1, <1>2, NatSetInduction
<1>4. \E x \in S : \A y \in S : x >= y
    BY <1>3 DEF T
<1> QED
    BY <1>4 DEF Max

-----------------------------------------------------------------------------
(* What starts with a value of a set and goes on by a step that stays in it *)
(* can be followed as far as one likes, in one way.                         *)
Iterates(g, n, first, step) ==
    g[0] = first /\ \A i \in 1 .. n : g[i] = step[g[i - 1], i]

LEMMA Iterated ==
    ASSUME NEW S, NEW n \in Nat, NEW first \in S, NEW step \in [S \X (1 .. n) -> S]
    PROVE  \E g \in [0 .. n -> S] : Iterates(g, n, first, step)
<1> DEFINE T == {k \in Nat : k <= n => \E g \in [0 .. k -> S] : Iterates(g, k, first, step)}
<1>0. \A x \in S, i \in 1 .. n : step[x, i] \in S
    OBVIOUS
<1>1. 0 \in T
    <2>1. [i \in 0 .. 0 |-> first] \in [0 .. 0 -> S]
        OBVIOUS
    <2>2. Iterates([i \in 0 .. 0 |-> first], 0, first, step)
        BY DEF Iterates
    <2> QED
        BY <2>1, <2>2
<1> HIDE DEF T
<1>2. ASSUME NEW k \in Nat, k \in T PROVE k + 1 \in T
    <2> SUFFICES ASSUME k + 1 <= n
                 PROVE  \E g \in [0 .. k + 1 -> S] : Iterates(g, k + 1, first, step)
        BY DEF T
    <2>1. PICK g \in [0 .. k -> S] : Iterates(g, k, first, step)
        BY <1>2 DEF T
    <2>2. PICK last \in S : last = step[g[k], k + 1]
        <3>1. g[k] \in S /\ k + 1 \in 1 .. n
            OBVIOUS
        <3> QED
            BY <1>0, <3>1
    <2> DEFINE h == [i \in 0 .. k + 1 |-> IF i = k + 1 THEN last ELSE g[i]]
    <2>3. h \in [0 .. k + 1 -> S]
        OBVIOUS
    <2>4. h[0] = first
        <3>1. 0 \in 0 .. k + 1 /\ 0 # k + 1 /\ h[0] = g[0]
            OBVIOUS
        <3> QED
            BY <2>1, <3>1 DEF Iterates
    <2>5. ASSUME NEW i \in 1 .. k + 1 PROVE h[i] = step[h[i - 1], i]
        <3>1. i - 1 \in 0 .. k + 1 /\ i - 1 # k + 1 /\ h[i - 1] = g[i - 1]
            OBVIOUS
        <3>2. CASE i = k + 1
            <4>1. h[i] = last /\ i - 1 = k
                BY <3>2
            <4> QED
                BY <2>2, <3>1, <3>2, <4>1
        <3>3. CASE i # k + 1
            <4>1. i \in 1 .. k /\ h[i] = g[i]
                BY <3>3
            <4> QED
                BY <2>1, <3>1, <4>1 DEF Iterates
        <3> QED
            BY <3>2, <3>3
    <2>6. Iterates(h, k + 1, first, step)
        BY <2>4, <2>5 DEF Iterates
    <2> QED
        BY <2>3, <2>6
<1>3. n \in T
    BY <1>1, <1>2, NatSetInduction
<1> QED
    BY <1>3 DEF T

-----------------------------------------------------------------------------
(* A set of numbers that are not negative has a least.                      *)
LEMMA MinIsLeast ==
    ASSUME NEW S, S \subseteq Nat, S # {}
    PROVE  Min(S) \in S /\ \A x \in S : Min(S) <= x
<1> DEFINE Free == {i \in Nat : \A j \in 0 .. i : j \notin S}
<1>1. SUFFICES \E x \in S : \A y \in S : x <= y
    BY DEF Min
<1>2. SUFFICES ASSUME \A x \in S : \E y \in S : y < x PROVE FALSE
    <2>1. \A x, y \in Nat : ~ (y < x) => x <= y
        OBVIOUS
    <2> QED
        BY <2>1
<1>3. 0 \in Free
    <2>1. 0 \notin S
        BY <1>2
    <2> QED
        BY <2>1
<1>4. ASSUME NEW i \in Nat, i \in Free PROVE i + 1 \in Free
    <2>1. i + 1 \notin S
        <3> SUFFICES ASSUME i + 1 \in S PROVE FALSE
            OBVIOUS
        <3>1. PICK y \in S : y < i + 1
            BY <1>2
        <3>2. y \in 0 .. i
            BY <3>1
        <3> QED
            BY <1>4, <3>1, <3>2
    <2>2. \A j \in 0 .. i + 1 : j \in 0 .. i \/ j = i + 1
        OBVIOUS
    <2> QED
        BY <1>4, <2>1, <2>2
<1> HIDE DEF Free
<1>5. \A i \in Nat : i \in Free
    BY <1>3, <1>4, NatSetInduction
<1>6. PICK x \in S : TRUE
    OBVIOUS
<1>7. x \in Free /\ x \in 0 .. x
    BY <1>5, <1>6
<1> QED
    BY <1>6, <1>7 DEF Free

-----------------------------------------------------------------------------
(* What holds of n + 1, and of a number when it holds of all above it, holds *)
(* of them all.                                                             *)
LEMMA DownFrom ==
    ASSUME NEW n \in Nat, NEW S, n + 1 \in S,
           \A i \in 1 .. n : (\A j \in i + 1 .. n + 1 : j \in S) => i \in S
    PROVE  \A i \in 1 .. n + 1 : i \in S
<1> DEFINE T == {k \in Nat : \A j \in 1 .. n + 1 : j >= n + 1 - k => j \in S}
<1>1. 0 \in T
    OBVIOUS
<1>2. ASSUME NEW k \in Nat, k \in T PROVE k + 1 \in T
    <2> SUFFICES ASSUME NEW j \in 1 .. n + 1, j >= n + 1 - (k + 1) PROVE j \in S
        OBVIOUS
    <2>1. CASE j >= n + 1 - k
        BY <1>2, <2>1
    <2>2. CASE ~ (j >= n + 1 - k)
        <3>1. j \in 1 .. n /\ \A i \in j + 1 .. n + 1 : i \in 1 .. n + 1 /\ i >= n + 1 - k
            BY <2>2
        <3> QED
            BY <1>2, <3>1
    <2> QED
        BY <2>1, <2>2
<1> HIDE DEF T
<1>3. n \in T
    BY <1>1, <1>2, NatSetInduction
<1> QED
    BY <1>3 DEF T

(* What is said of each place by a place after it can be said of them all.  *)
Backwards(g, m, n, ends, last, next, step) ==
    \A i \in m .. n + 1 :
        /\ i \in ends => g[i] = last[i]
        /\ i \notin ends => g[i] = step[i][g[next[i]]]

LEMMA BackwardsIs ==
    ASSUME NEW S, NEW n \in Nat, NEW ends, n + 1 \in ends,
           NEW last \in [1 .. n + 1 -> S], NEW next,
           \A i \in 1 .. n + 1 : i \notin ends => next[i] \in i + 1 .. n + 1,
           NEW step \in [1 .. n + 1 -> [S -> S]]
    PROVE  \E g \in [1 .. n + 1 -> S] : Backwards(g, 1, n, ends, last, next, step)
<1>0. \A x \in S, i \in 1 .. n + 1 : step[i][x] \in S
    OBVIOUS
<1> DEFINE Ok(g, m) == Backwards(g, m, n, ends, last, next, step)
           T == {k \in Nat : k <= n => \E g \in [1 .. n + 1 -> S] : Ok(g, n + 1 - k)}
<1>1. 0 \in T
    <2>1. last \in [1 .. n + 1 -> S]
        OBVIOUS
    <2>2. Ok(last, n + 1)
        <3>1. \A i \in n + 1 .. n + 1 : i = n + 1
            OBVIOUS
        <3> QED
            BY <3>1 DEF Backwards
    <2> HIDE DEF Ok
    <2>3. n + 1 - 0 = n + 1
        OBVIOUS
    <2> QED
        BY <2>1, <2>2, <2>3
<1> HIDE DEF Ok
<1> HIDE DEF T
<1>2. ASSUME NEW k \in Nat, k \in T PROVE k + 1 \in T
    <2> SUFFICES ASSUME k + 1 <= n
                 PROVE  \E g \in [1 .. n + 1 -> S] : Ok(g, n + 1 - (k + 1))
        BY DEF T
    <2>1. PICK g \in [1 .. n + 1 -> S] : Ok(g, n + 1 - k)
        BY <1>2 DEF T
    <2> DEFINE m == n - k
    <2>2. m \in 1 .. n /\ n + 1 - (k + 1) = m /\ n + 1 - k = m + 1
        OBVIOUS
    <2> HIDE DEF m
    <2>3. PICK v \in S : /\ m \in ends => v = last[m]
                         /\ m \notin ends => v = step[m][g[next[m]]]
        <3>1. CASE m \in ends
            <4>1. last[m] \in S
                BY <2>2
            <4> QED
                BY <3>1, <4>1
        <3>2. CASE m \notin ends
            <4>1. next[m] \in 1 .. n + 1 /\ m \in 1 .. n + 1
                <5>1. m \in 1 .. n + 1 /\ \A x \in m + 1 .. n + 1 : x \in 1 .. n + 1
                    BY <2>2
                <5> QED
                    BY <3>2, <5>1
            <4>2. g[next[m]] \in S
                BY <4>1
            <4>3. step[m][g[next[m]]] \in S
                BY <1>0, <4>1, <4>2
            <4> QED
                BY <3>2, <4>3
        <3> QED
            BY <3>1, <3>2
    <2> DEFINE h == [i \in 1 .. n + 1 |-> IF i = m THEN v ELSE g[i]]
    <2>4. h \in [1 .. n + 1 -> S]
        OBVIOUS
    <2>5. \A i \in 1 .. n + 1 : h[i] = IF i = m THEN v ELSE g[i]
        OBVIOUS
    <2> HIDE DEF h
    <2>6. ASSUME NEW i \in m .. n + 1
          PROVE  /\ i \in ends => h[i] = last[i]
                 /\ i \notin ends => h[i] = step[i][h[next[i]]]
        <3>1. i \in 1 .. n + 1
            BY <2>2
        <3>2. i \notin ends => next[i] \in 1 .. n + 1 /\ next[i] # m
            <4> SUFFICES ASSUME i \notin ends PROVE next[i] \in 1 .. n + 1 /\ next[i] # m
                OBVIOUS
            <4>1. \A x \in i + 1 .. n + 1 : x \in 1 .. n + 1 /\ x # m
                BY <2>2, <3>1
            <4>2. next[i] \in i + 1 .. n + 1
                BY <3>1
            <4> QED
                BY <4>1, <4>2
        <3>3. i \notin ends => h[next[i]] = g[next[i]]
            BY <2>5, <3>2
        <3>4. CASE i = m
            <4>0. h[m] = v
                BY <2>5, <3>1, <3>4
            <4>1. h[i] = v
                BY <3>4, <4>0
            <4>2. m \in ends => h[m] = last[m]
                BY <2>3, <4>0
            <4>3. ASSUME m \notin ends PROVE h[m] = step[m][h[next[m]]]
                <5>1. h[next[m]] = g[next[m]]
                    BY <3>3, <3>4, <4>3
                <5> QED
                    BY <2>3, <3>4, <4>1, <4>3, <5>1
            <4> QED
                BY <3>4, <4>2, <4>3
        <3>5. CASE i # m
            <4>1. i \in m + 1 .. n + 1
                BY <2>2, <3>5
            <4>2. /\ i \in ends => g[i] = last[i]
                  /\ i \notin ends => g[i] = step[i][g[next[i]]]
                BY <2>1, <2>2, <4>1 DEF Ok, Backwards
            <4>3. h[i] = g[i]
                BY <2>5, <3>1, <3>5
            <4>4. ASSUME i \notin ends PROVE h[i] = step[i][h[next[i]]]
                <5>1. h[next[i]] = g[next[i]]
                    BY <3>3, <4>4
                <5> QED
                    BY <4>2, <4>3, <4>4, <5>1
            <4> QED
                BY <4>2, <4>3, <4>4
        <3> QED
            BY <3>4, <3>5
    <2>7. Ok(h, m)
        BY <2>6 DEF Ok, Backwards
    <2> QED
        BY <2>2, <2>4, <2>7
<1>3. n \in T
    BY <1>1, <1>2, NatSetInduction
<1>4. PICK g \in [1 .. n + 1 -> S] : Ok(g, n + 1 - n)
    BY <1>3 DEF T
<1>5. Ok(g, 1)
    <2>1. n + 1 - n = 1
        OBVIOUS
    <2> HIDE DEF Ok
    <2> QED
        BY <1>4, <2>1
<1> QED
    BY <1>5 DEF Ok
=============================================================================

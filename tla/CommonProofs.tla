----------------------------- MODULE CommonProofs -----------------------------
(***************************************************************************)
(* Proofs about two modules of vendor/common.  The software timers, for any *)
(* clock, intervals and table size: what the bubble sort returns, that the *)
(* table stays in order across the wrap of the clock, and what the device  *)
(* wakes for.  The table of bonds, for any devices, table and sector: what *)
(* power failing in its flash operations can take.                         *)
(***************************************************************************)
EXTENDS SoftTimer, WellFoundedInduction, TLAPS

-----------------------------------------------------------------------------
(***************************************************************************)
(* Induction, and functions defined by recursion, over the natural numbers. *)
(***************************************************************************)
LEMMA LeastNumber ==
  ASSUME NEW T, T \subseteq Nat, T # {}
  PROVE  \E x \in T : \A y \in T : x <= y
<1> DEFINE R == {ss \in Nat \X Nat : ss[1] < ss[2]}
<1>1. OpToRel(<, Nat) = R
  BY DEF OpToRel
<1>2. IsWellFoundedOn(R, Nat)
  <2> HIDE DEF R
  <2> QED
    BY <1>1, NatLessThanWellFounded
<1>3. PICK x \in T : \A y \in T : ~ (<<y, x>> \in R)
  <2> HIDE DEF R
  <2> QED
    BY <1>2, WFMin
<1>4. ASSUME NEW y \in T PROVE x <= y
  <2>1. x \in Nat /\ y \in Nat /\ ~(<<y, x>> \in R)
    BY <1>3
  <2>2. <<y, x>> \in Nat \X Nat /\ <<y, x>>[1] = y /\ <<y, x>>[2] = x
    BY <2>1
  <2>3. ~(y < x)
    BY <2>1, <2>2
  <2> QED
    BY <2>1, <2>3
<1> QED
  BY <1>3, <1>4

LEMMA Induction ==
  ASSUME NEW P, 0 \in P, \A n \in Nat : n \in P => n + 1 \in P
  PROVE  Nat \subseteq P
<1> DEFINE T == Nat \ P
<1>1. ASSUME T # {} PROVE FALSE
  <2>1. PICK x \in T : \A y \in T : x <= y
    BY <1>1, LeastNumber
  <2>2. x \in Nat /\ x # 0 /\ x \notin P
    BY <2>1
  <2>3. x - 1 \in Nat /\ x - 1 \notin T
    BY <2>1, <2>2
  <2>4. (x - 1) + 1 = x
    BY <2>2
  <2> QED
    BY <2>2, <2>3, <2>4
<1> QED
  BY <1>1
\* What n steps of F make of x.
Steps(h, x, n, F) == h[0] = x /\ \A k \in 1 .. n : h[k] = F[k][h[k - 1]]

LEMMA Recursion ==
  ASSUME NEW S, NEW x \in S, NEW n \in Nat, NEW F \in [1 .. n -> [S -> S]]
  PROVE  \E h \in [0 .. n -> S] : Steps(h, x, n, F)
<1> DEFINE Upto(m, h) == h[0] = x /\ \A k \in 1 .. m : h[k] = F[k][h[k - 1]]
           P == {m \in Nat : m <= n => \E h \in [0 .. m -> S] : Upto(m, h)}
<1>1. 0 \in P
  <2> DEFINE h == [k \in 0 .. 0 |-> x]
  <2>1. h \in [0 .. 0 -> S] /\ Upto(0, h)
    OBVIOUS
  <2> QED
    BY <2>1
<1>2. ASSUME NEW m \in Nat, m \in P PROVE m + 1 \in P
  <2> SUFFICES ASSUME m + 1 <= n PROVE \E h \in [0 .. m + 1 -> S] : Upto(m + 1, h)
    OBVIOUS
  <2>1. PICK g \in [0 .. m -> S] : Upto(m, g)
    BY <1>2
  <2> DEFINE h == [k \in 0 .. m + 1 |-> IF k = m + 1 THEN F[m + 1][g[m]] ELSE g[k]]
  <2>2. m + 1 \in 1 .. n /\ m \in 0 .. m /\ g[m] \in S /\ F[m + 1] \in [S -> S]
    BY <1>2
  <2>3. F[m + 1][g[m]] \in S
    BY <2>2
  <2>4. h \in [0 .. m + 1 -> S]
    BY <2>3
  <2>5. \A k \in 0 .. m : h[k] = g[k]
    OBVIOUS
  <2>6. h[m + 1] = F[m + 1][h[m]]
    BY <2>2, <2>5
  <2>7. ASSUME NEW k \in 1 .. m + 1 PROVE h[k] = F[k][h[k - 1]]
    <3>1. CASE k = m + 1
      BY <2>6, <3>1
    <3>2. CASE k # m + 1
      <4>1. k \in 1 .. m /\ k \in 0 .. m /\ k - 1 \in 0 .. m
        BY <3>2
      <4> HIDE DEF h
      <4> QED
        BY <2>1, <2>5, <4>1
    <3> QED
      BY <3>1, <3>2
  <2>8. h[0] = x
    BY <2>1, <2>5
  <2> HIDE DEF h
  <2> QED
    BY <2>4, <2>7, <2>8
<1>3. Nat \subseteq P
  <2> HIDE DEF P
  <2> QED
    BY <1>1, <1>2, Induction
<1>4. n \in P
  BY <1>3
<1> QED
  BY <1>4 DEF Steps

LEMMA StepsType ==
  ASSUME NEW S, NEW x \in S, NEW n \in Nat, NEW F \in [1 .. n -> [S -> S]], NEW h,
         h[0] = x, \A k \in 1 .. n : h[k - 1] \in S => h[k] = F[k][h[k - 1]]
  PROVE  \A k \in 0 .. n : h[k] \in S
<1> DEFINE P == {k \in Nat : k <= n => h[k] \in S}
<1>1. 0 \in P
  OBVIOUS
<1>2. ASSUME NEW k \in Nat, k \in P PROVE k + 1 \in P
  <2> SUFFICES ASSUME k + 1 <= n PROVE h[k + 1] \in S
    OBVIOUS
  <2>1. k + 1 \in 1 .. n /\ (k + 1) - 1 = k /\ h[k] \in S
    BY <1>2
  <2> QED
    BY <2>1
<1>3. Nat \subseteq P
  <2> HIDE DEF P
  <2> QED
    BY <1>1, <1>2, Induction
<1> QED
  BY <1>3

-----------------------------------------------------------------------------
(***************************************************************************)
(* The bubble sort.  Its comparison is an order only among times that are  *)
(* less than a quarter of the clock's cycle apart.                         *)
(***************************************************************************)
Before(a, b) == TIME_COMPARE_BIG(b.t, a.t)

IsOrder(E) ==
  /\ \A a, b \in E : Before(a, b) \/ Before(b, a)
  /\ \A a, b, c \in E : Before(a, b) /\ Before(b, c) => Before(a, c)

Tables(E, N) == {tab \in Seq(E) : Len(tab) = N}

\* A comparison leaves the two entries as they are, or swaps them.
LEMMA SwapFacts ==
  ASSUME NEW E, NEW tab \in Seq(E), NEW j \in 1 .. Len(tab) - 1
  PROVE  LET new == SwapIfBig(tab, j)
         IN  /\ new \in Tables(E, Len(tab))
             /\ \A k \in 1 .. Len(tab) : k # j /\ k # j + 1 => new[k] = tab[k]
             /\ \/ new[j] = tab[j] /\ new[j + 1] = tab[j + 1] /\ ~Before(tab[j + 1], tab[j])
                \/ new[j] = tab[j + 1] /\ new[j + 1] = tab[j] /\ Before(tab[j + 1], tab[j])
<1>1. /\ j \in 1 .. Len(tab) /\ j + 1 \in 1 .. Len(tab) /\ j # j + 1
      /\ tab[j] \in E /\ tab[j + 1] \in E /\ Len(tab) \in Nat
  OBVIOUS
<1>2. CASE Before(tab[j + 1], tab[j])
  <2> DEFINE new == [tab EXCEPT ![j] = tab[j + 1], ![j + 1] = tab[j]]
  <2>1. SwapIfBig(tab, j) = new
    BY <1>2 DEF SwapIfBig, Before
  <2>2. new \in Seq(E) /\ Len(new) = Len(tab)
    BY <1>1
  <2>3. /\ \A k \in 1 .. Len(tab) : k # j /\ k # j + 1 => new[k] = tab[k]
        /\ new[j] = tab[j + 1] /\ new[j + 1] = tab[j]
    BY <1>1
  <2> HIDE DEF new
  <2> QED
    BY <1>2, <2>1, <2>2, <2>3 DEF Tables
<1>3. CASE ~Before(tab[j + 1], tab[j])
  BY <1>3 DEF SwapIfBig, Before, Tables
<1> QED
  BY <1>2, <1>3

\* The tables of a pass.
LEMMA PassSteps ==
  ASSUME NEW E, NEW tab \in Seq(E), NEW n \in 0 .. Len(tab), n = 0 \/ n < Len(tab)
  PROVE  \E h \in [0 .. n -> Tables(E, Len(tab))] :
           /\ h[0] = tab /\ BubbleUp(tab, n) = h[n]
           /\ \A k \in 1 .. n : h[k] = SwapIfBig(h[k - 1], k)
<1> DEFINE S == Tables(E, Len(tab))
           F == [k \in 1 .. n |-> [x \in S |-> SwapIfBig(x, k)]]
           Pass(h) == h = [j \in 0 .. n |-> IF j = 0 THEN tab ELSE SwapIfBig(h[j - 1], j)]
           pass == CHOOSE h : Pass(h)
<1>0. Len(tab) \in Nat /\ n \in Nat
  OBVIOUS
<1>1. F \in [1 .. n -> [S -> S]]
  <2> SUFFICES ASSUME NEW k \in 1 .. n, NEW x \in S PROVE SwapIfBig(x, k) \in S
    OBVIOUS
  <2>1. x \in Seq(E) /\ Len(x) = Len(tab) /\ k \in 1 .. Len(x) - 1
    BY <1>0 DEF Tables
  <2> QED
    BY <2>1, SwapFacts
<1>2. tab \in S
  BY DEF Tables
<1>3. PICK g \in [0 .. n -> S] : Steps(g, tab, n, F)
  <2> HIDE DEF S, F
  <2> QED
    BY <1>0, <1>1, <1>2, Recursion
<1>4. \A k \in 1 .. n : g[k] = SwapIfBig(g[k - 1], k)
  <2> SUFFICES ASSUME NEW k \in 1 .. n PROVE g[k] = SwapIfBig(g[k - 1], k)
    OBVIOUS
  <2>1. g[k - 1] \in S
    BY <1>0, <1>3
  <2>2. g[k] = F[k][g[k - 1]]
    <3> HIDE DEF F, S
    <3> QED
      BY <1>3 DEF Steps
  <2> HIDE DEF S
  <2> QED
    BY <2>1, <2>2
<1>5. Pass(g)
  <2>1. \A j \in 0 .. n : g[j] = IF j = 0 THEN tab ELSE SwapIfBig(g[j - 1], j)
    <3>1. g[0] = tab
      BY <1>3 DEF Steps
    <3> QED
      BY <1>0, <1>4, <3>1
  <2> HIDE DEF S, F
  <2> QED
    BY <1>3, <2>1
<1>6. Pass(pass)
  <2> HIDE DEF Pass
  <2> QED
    BY <1>5
<1>7. BubbleUp(tab, n) = pass[n]
  BY DEF BubbleUp
<1>8. /\ pass[0] = tab
      /\ \A j \in 1 .. n : pass[j] = SwapIfBig(pass[j - 1], j)
  <2> HIDE DEF pass
  <2>1. 0 \in 0 .. n /\ \A j \in 1 .. n : j \in 0 .. n /\ j # 0
    BY <1>0
  <2> QED
    BY <1>6, <2>1
<1>9. pass \in [0 .. n -> S]
  <2>1. \A j \in 1 .. n : pass[j - 1] \in S => pass[j] = F[j][pass[j - 1]]
    <3> HIDE DEF pass, S
    <3> QED
      BY <1>8
  <2>2. \A j \in 0 .. n : pass[j] \in S
    <3> HIDE DEF pass, S, F
    <3> QED
      BY <1>0, <1>1, <1>2, <1>8, <2>1, StepsType
  <2>3. pass = [j \in 0 .. n |-> IF j = 0 THEN tab ELSE SwapIfBig(pass[j - 1], j)]
    BY <1>6
  <2> HIDE DEF pass, S
  <2> QED
    BY <2>2, <2>3
<1> HIDE DEF pass
<1> QED
  BY <1>7, <1>8, <1>9


\* A pass takes the last of the entries it compares to the end, and keeps them.
LEMMA PassFacts ==
  ASSUME NEW E, IsOrder(E), NEW tab \in Seq(E), NEW n \in 0 .. Len(tab) - 1
  PROVE  LET new == BubbleUp(tab, n)
         IN  /\ new \in Tables(E, Len(tab))
             /\ \A k \in n + 2 .. Len(tab) : new[k] = tab[k]
             /\ \A k \in 1 .. n : Before(new[k], new[n + 1])
             /\ \A k \in 1 .. n + 1 : \E l \in 1 .. n + 1 : new[k] = tab[l]
<1> DEFINE N == Len(tab)
<1>0. N \in Nat /\ n \in Nat /\ n < N
  OBVIOUS
<1>1. PICK h \in [0 .. n -> Tables(E, N)] :
        /\ h[0] = tab /\ BubbleUp(tab, n) = h[n]
        /\ \A k \in 1 .. n : h[k] = SwapIfBig(h[k - 1], k)
  BY <1>0, PassSteps, SMTT(40)
<1> DEFINE Right(m, new) == /\ \A k \in m + 2 .. N : new[k] = tab[k]
                            /\ \A k \in 1 .. m : Before(new[k], new[m + 1])
                            /\ \A k \in 1 .. m + 1 : \E l \in 1 .. m + 1 : new[k] = tab[l]
           P == {m \in Nat : m <= n => Right(m, h[m])}
<1>2. 0 \in P
  <2>1. Right(0, tab)
    BY <1>0
  <2> QED
    BY <1>1, <2>1
<1>3. ASSUME NEW m \in Nat, m \in P PROVE m + 1 \in P
  <2> SUFFICES ASSUME m + 1 <= n PROVE Right(m + 1, h[m + 1])
    OBVIOUS
  <2> DEFINE old == h[m]
             new == h[m + 1]
  <2>1. Right(m, old)
    BY <1>0, <1>3
  <2>2. /\ old \in Seq(E) /\ Len(old) = N /\ m + 1 \in 1 .. Len(old) - 1
        /\ new = SwapIfBig(old, m + 1)
    <3>1. m \in 0 .. n /\ m + 1 \in 1 .. n /\ (m + 1) - 1 = m
      BY <1>0
    <3> QED
      BY <1>0, <1>1, <3>1 DEF Tables
  <2>3. /\ \A k \in 1 .. N : k # m + 1 /\ k # m + 2 => new[k] = old[k]
        /\ \/ /\ new[m + 1] = old[m + 1] /\ new[m + 2] = old[m + 2]
              /\ ~Before(old[m + 2], old[m + 1])
           \/ /\ new[m + 1] = old[m + 2] /\ new[m + 2] = old[m + 1]
              /\ Before(old[m + 2], old[m + 1])
    <3>1. (m + 1) + 1 = m + 2
      OBVIOUS
    <3> HIDE DEF old, new
    <3> QED
      BY <2>2, <3>1, SwapFacts
  <2>4. \A k \in 1 .. N : old[k] \in E
    BY <2>2
  <2> HIDE DEF old, new
  <2>5. m + 2 <= N /\ m + 1 \in 1 .. N /\ m + 2 \in 1 .. N /\ old[m + 2] = tab[m + 2]
    BY <1>0, <2>1
  <2>6. ASSUME NEW k \in (m + 1) + 2 .. N PROVE new[k] = tab[k]
    BY <1>0, <2>1, <2>3
  <2>7. ASSUME NEW k \in 1 .. m + 1 PROVE Before(new[k], new[(m + 1) + 1])
    <3>0. (m + 1) + 1 = m + 2
      OBVIOUS
    <3>1. CASE k = m + 1
      BY <2>3, <2>4, <2>5, <3>0, <3>1 DEF IsOrder
    <3>2. CASE k # m + 1
      <4>1. k \in 1 .. m /\ k \in 1 .. N /\ new[k] = old[k] /\ Before(old[k], old[m + 1])
        BY <1>0, <2>1, <2>3, <3>2, SMTT(40)
      <4>2. old[k] \in E /\ old[m + 1] \in E /\ old[m + 2] \in E
        BY <2>4, <2>5, <4>1
      <4> QED
        BY <2>3, <3>0, <4>1, <4>2 DEF IsOrder
    <3> QED
      BY <3>1, <3>2
  <2>8. ASSUME NEW k \in 1 .. (m + 1) + 1
        PROVE  \E l \in 1 .. (m + 1) + 1 : new[k] = tab[l]
    <3>1. \A i \in 1 .. m + 1 : \E l \in 1 .. (m + 1) + 1 : old[i] = tab[l]
      BY <2>1
    <3>2. \E l \in 1 .. (m + 1) + 1 : old[m + 2] = tab[l]
      BY <2>5
    <3>3. \/ k \in 1 .. m /\ new[k] = old[k]
          \/ k \in {m + 1, m + 2} /\ new[k] \in {old[m + 1], old[m + 2]}
      BY <1>0, <2>3
    <3> QED
      BY <3>1, <3>2, <3>3
  <2> QED
    BY <2>6, <2>7, <2>8 DEF new
<1>4. n \in P
  <2>1. Nat \subseteq P
    <3> HIDE DEF P
    <3> QED
      BY <1>2, <1>3, Induction
  <2> QED
    BY <1>0, <2>1
<1>5. Right(n, h[n])
  BY <1>4
<1>6. h[n] \in Tables(E, N)
  BY <1>0, <1>1
<1> QED
  BY <1>1, <1>5, <1>6

\* The tables of the whole sort.
LEMMA SortSteps ==
  ASSUME NEW E, NEW tab \in Seq(E)
  PROVE  \E h \in [0 .. Len(tab) -> Tables(E, Len(tab))] :
           /\ h[0] = tab /\ Sort(tab) = h[Len(tab)]
           /\ \A i \in 1 .. Len(tab) : h[i] = BubbleUp(h[i - 1], Len(tab) - i)
<1> DEFINE N == Len(tab)
           S == Tables(E, N)
           F == [i \in 1 .. N |-> [x \in S |-> BubbleUp(x, N - i)]]
           Sorted(h) == h = [i \in 0 .. N |-> IF i = 0 THEN tab ELSE BubbleUp(h[i - 1], N - i)]
           sorted == CHOOSE h : Sorted(h)
<1>0. N \in Nat
  OBVIOUS
<1>1. F \in [1 .. N -> [S -> S]]
  <2> SUFFICES ASSUME NEW i \in 1 .. N, NEW x \in S PROVE BubbleUp(x, N - i) \in S
    OBVIOUS
  <2> DEFINE n == N - i
  <2>1. x \in Seq(E) /\ Len(x) = N /\ n \in 0 .. N /\ n < N
    BY <1>0 DEF Tables
  <2> HIDE DEF n, N
  <2>2. PICK h \in [0 .. n -> Tables(E, Len(x))] : BubbleUp(x, n) = h[n]
    BY <2>1, PassSteps
  <2>3. n \in 0 .. n
    BY <1>0, <2>1
  <2> QED
    BY <2>1, <2>2, <2>3 DEF n
<1>2. tab \in S
  BY DEF Tables
<1>3. PICK g \in [0 .. N -> S] : Steps(g, tab, N, F)
  <2> HIDE DEF S, F, N
  <2> QED
    BY <1>0, <1>1, <1>2, Recursion
<1>4. \A i \in 1 .. N : g[i] = BubbleUp(g[i - 1], N - i)
  <2> SUFFICES ASSUME NEW i \in 1 .. N PROVE g[i] = BubbleUp(g[i - 1], N - i)
    OBVIOUS
  <2>1. g[i - 1] \in S
    BY <1>0, <1>3
  <2>2. g[i] = F[i][g[i - 1]]
    <3> HIDE DEF F, S, N
    <3> QED
      BY <1>3 DEF Steps
  <2> HIDE DEF S, N
  <2> QED
    BY <2>1, <2>2
<1>5. Sorted(g)
  <2>1. \A i \in 0 .. N : g[i] = IF i = 0 THEN tab ELSE BubbleUp(g[i - 1], N - i)
    <3>1. g[0] = tab
      BY <1>3 DEF Steps
    <3> HIDE DEF N
    <3> QED
      BY <1>0, <1>4, <3>1
  <2> HIDE DEF S, F, N
  <2> QED
    BY <1>3, <2>1
<1>6. Sorted(sorted)
  <2> HIDE DEF Sorted
  <2> QED
    BY <1>5
<1>7. Sort(tab) = sorted[N]
  BY DEF Sort
<1>8. /\ sorted[0] = tab
      /\ \A i \in 1 .. N : sorted[i] = BubbleUp(sorted[i - 1], N - i)
  <2> HIDE DEF sorted, N
  <2>1. 0 \in 0 .. N /\ \A i \in 1 .. N : i \in 0 .. N /\ i # 0
    BY <1>0
  <2> QED
    BY <1>6, <2>1
<1>9. sorted \in [0 .. N -> S]
  <2>1. \A i \in 1 .. N : sorted[i - 1] \in S => sorted[i] = F[i][sorted[i - 1]]
    <3> HIDE DEF sorted, S, N
    <3> QED
      BY <1>8
  <2>2. \A i \in 0 .. N : sorted[i] \in S
    <3> HIDE DEF sorted, S, F, N
    <3> QED
      BY <1>0, <1>1, <1>2, <1>8, <2>1, StepsType
  <2>3. sorted = [i \in 0 .. N |-> IF i = 0 THEN tab ELSE BubbleUp(sorted[i - 1], N - i)]
    BY <1>6
  <2> HIDE DEF sorted, S
  <2> QED
    BY <2>2, <2>3
<1> HIDE DEF sorted
<1> QED
  BY <1>7, <1>8, <1>9

\* A sort keeps the length and the kind of the entries.
LEMMA SortType ==
  ASSUME NEW E, NEW tab \in Seq(E)
  PROVE  Sort(tab) \in Seq(E) /\ Len(Sort(tab)) = Len(tab)
<1>1. PICK h \in [0 .. Len(tab) -> Tables(E, Len(tab))] : Sort(tab) = h[Len(tab)]
  BY SortSteps
<1>2. Len(tab) \in 0 .. Len(tab)
  OBVIOUS
<1> QED
  BY <1>1, <1>2 DEF Tables

Sorted(tab) == \A i, j \in 1 .. Len(tab) : i < j => Before(tab[i], tab[j])

\* Where Before is an order, a sort returns a table in order.
LEMMA SortOrders ==
  ASSUME NEW E, IsOrder(E), NEW tab \in Seq(E)
  PROVE  Sorted(Sort(tab))
<1> DEFINE N == Len(tab)
<1>0. N \in Nat
  OBVIOUS
<1>1. PICK h \in [0 .. N -> Tables(E, N)] :
        /\ Sort(tab) = h[N]
        /\ \A i \in 1 .. N : h[i] = BubbleUp(h[i - 1], N - i)
  BY SortSteps
<1> DEFINE Done(i, new) == \A a, b \in 1 .. N : a < b /\ b > N - i => Before(new[a], new[b])
           P == {i \in Nat : i <= N => Done(i, h[i])}
<1>2. 0 \in P
  BY <1>0
<1>3. ASSUME NEW i \in Nat, i \in P PROVE i + 1 \in P
  <2> SUFFICES ASSUME i + 1 <= N PROVE Done(i + 1, h[i + 1])
    OBVIOUS
  <2> DEFINE old == h[i]
             new == h[i + 1]
             n == N - (i + 1)
  <2>1. Done(i, old) /\ old \in Seq(E) /\ Len(old) = N /\ new = BubbleUp(old, n)
    <3>1. i \in 0 .. N /\ i + 1 \in 1 .. N /\ (i + 1) - 1 = i /\ i <= N
      BY <1>0
    <3> QED
      BY <1>1, <1>3, <3>1 DEF Tables
  <2>2. n \in 0 .. N - 1 /\ N - i = n + 1
    BY <1>0
  <2>3. /\ \A k \in n + 2 .. N : new[k] = old[k]
        /\ \A k \in 1 .. n : Before(new[k], new[n + 1])
        /\ \A k \in 1 .. n + 1 : \E l \in 1 .. n + 1 : new[k] = old[l]
    <3> HIDE DEF old, new, n, N, Done
    <3> QED
      BY <2>1, <2>2, PassFacts
  <2> HIDE DEF old, new, n, N
  <2>4. ASSUME NEW a \in 1 .. N, NEW b \in 1 .. N, a < b, b > n PROVE Before(new[a], new[b])
    <3>1. CASE b = n + 1
      BY <1>0, <2>2, <2>3, <2>4, <3>1
    <3>2. CASE b # n + 1 /\ a \in n + 2 .. N
      <4>1. b \in n + 2 .. N /\ b > N - i
        BY <1>0, <2>2, <2>4, <3>2
      <4> QED
        BY <2>1, <2>3, <2>4, <3>2, <4>1
    <3>3. CASE b # n + 1 /\ a \notin n + 2 .. N
      <4>1. a \in 1 .. n + 1 /\ b \in n + 2 .. N /\ b > N - i
        BY <1>0, <2>2, <2>4, <3>3
      <4>2. PICK l \in 1 .. n + 1 : new[a] = old[l]
        BY <2>3, <4>1
      <4>3. l \in 1 .. N /\ l < b
        BY <1>0, <2>2, <4>1
      <4> QED
        BY <2>1, <2>3, <4>1, <4>2, <4>3
    <3> QED
      BY <3>1, <3>2, <3>3
  <2>5. n = N - (i + 1)
    BY DEF n
  <2> QED
    BY <2>4, <2>5 DEF new
<1>4. Done(N, h[N])
  <2>1. Nat \subseteq P
    <3> HIDE DEF P
    <3> QED
      BY <1>2, <1>3, Induction
  <2>2. N \in P
    BY <1>0, <2>1
  <2> QED
    BY <1>0, <2>2
<1>5. Len(Sort(tab)) = N
  BY SortType
<1> QED
  BY <1>0, <1>1, <1>4, <1>5 DEF Sorted

\* The entry at i goes, and those behind it move up.
LEMMA RemoveFacts ==
  ASSUME NEW E, NEW tab \in Seq(E), NEW i \in 1 .. Len(tab)
  PROVE  /\ RemoveAt(tab, i) \in Seq(E) /\ Len(RemoveAt(tab, i)) = Len(tab) - 1
         /\ \A k \in 1 .. Len(tab) - 1 :
              RemoveAt(tab, i)[k] = IF k < i THEN tab[k] ELSE tab[k + 1]
<1> DEFINE a == SubSeq(tab, 1, i - 1)
           b == SubSeq(tab, i + 1, Len(tab))
<1>1. /\ Len(tab) \in Nat /\ i \in Nat /\ 1 <= i /\ i <= Len(tab)
  OBVIOUS
<1>2. /\ a \in Seq(E) /\ Len(a) = i - 1 /\ \A k \in 1 .. i - 1 : a[k] = tab[k]
  BY <1>1
<1>3. /\ b \in Seq(E) /\ Len(b) = Len(tab) - i
      /\ \A k \in 1 .. Len(tab) - i : b[k] = tab[i + k]
  BY <1>1
<1>4. RemoveAt(tab, i) = a \o b
  BY DEF RemoveAt
<1> HIDE DEF a, b
<1>5. a \o b \in Seq(E) /\ Len(a \o b) = Len(a) + Len(b)
  <2>1. a \in Seq(E) /\ b \in Seq(E)
    BY <1>2, <1>3
  <2> QED
    BY <2>1
<1>6. ASSUME NEW k \in 1 .. Len(tab) - 1
      PROVE  (a \o b)[k] = IF k < i THEN tab[k] ELSE tab[k + 1]
  <2>1. CASE k < i
    <3>1. k \in 1 .. Len(a) /\ k \in 1 .. i - 1
      BY <1>1, <1>2, <2>1
    <3>2. (a \o b)[k] = a[k]
      BY <1>1, <1>2, <1>3, <3>1
    <3> QED
      BY <1>2, <2>1, <3>1, <3>2
  <2>2. CASE ~(k < i)
    <3>1. k - (i - 1) \in 1 .. Len(tab) - i /\ i + (k - (i - 1)) = k + 1
      BY <1>1, <2>2
    <3>2. (a \o b)[k] = b[k - (i - 1)]
      BY <1>1, <1>2, <1>3, <2>2
    <3> QED
      BY <1>3, <2>2, <3>1, <3>2
  <2> QED
    BY <2>1, <2>2
<1> QED
  BY <1>1, <1>2, <1>3, <1>4, <1>5, <1>6

\* The index blt_soft_timer_delete finds, 0 for none.
LEMMA IndexFacts == ASSUME NEW E, NEW tab \in Seq(E), NEW cb PROVE IndexOf(tab, cb) \in 0 .. Len(tab)
<1> DEFINE I == {i \in 1 .. Len(tab) : tab[i].cb = cb}
<1>1. IndexOf(tab, cb) = IF I # {} THEN CHOOSE x \in I : \A y \in I : x <= y ELSE 0
  BY DEF IndexOf, SelectInSeq, Min
<1>2. CASE I # {}
  <2>1. \E x \in I : \A y \in I : x <= y
    <3>1. I \subseteq Nat
      OBVIOUS
    <3> HIDE DEF I
    <3> QED
      BY <1>2, <3>1, LeastNumber
  <2>2. IndexOf(tab, cb) \in I
    <3> HIDE DEF I
    <3> QED
      BY <1>1, <1>2, <2>1
  <2> QED
    BY <2>2
<1>3. CASE I = {}
  BY <1>1, <1>3
<1> QED
  BY <1>2, <1>3

-----------------------------------------------------------------------------
(***************************************************************************)
(* The clock.                                                              *)
(***************************************************************************)
LEMMA ModFacts ==
  ASSUME NEW W \in Nat \ {0}, NEW a \in Int
  PROVE  /\ a % W \in 0 .. W - 1
         /\ 0 <= a /\ a < W => a % W = a
         /\ -W <= a /\ a < 0 => a % W = a + W
         /\ W <= a /\ a < W + W => a % W = a - W
<1>1. a % W \in 0 .. W - 1
  BY SMT
<1>2. 0 <= a /\ a < W => a % W = a
  BY SMT
<1>3. -W <= a /\ a < 0 => a % W = a + W
  BY SMT
<1>4. W <= a /\ a < W + W => a % W = a - W
  BY SMT
<1> QED
  BY <1>1, <1>2, <1>3, <1>4

LEMMA ClockFacts ==
  /\ Wrap \in Nat \ {0} /\ Quarter \in Nat \ {0} /\ Wrap = Quarter + Quarter + Quarter + Quarter
  /\ \A a, b \in Int : Minus(a, b) \in Time /\ Plus(a, b) \in Time
<1>1. /\ Wrap \in Nat \ {0} /\ Quarter \in Nat \ {0}
      /\ Wrap = Quarter + Quarter + Quarter + Quarter
  BY TimerAssumption
<1>2. ASSUME NEW a \in Int, NEW b \in Int PROVE Minus(a, b) \in Time /\ Plus(a, b) \in Time
  <2>1. a - b \in Int /\ a + b \in Int
    OBVIOUS
  <2> QED
    BY <1>1, <2>1, ModFacts DEF Minus, Plus, Time
<1> QED
  BY <1>1, <1>2

-----------------------------------------------------------------------------
(***************************************************************************)
(* The table keeps its places and the device wakes for its first entry.    *)
(***************************************************************************)
\* A new entry, in its place.
LEMMA AddedFacts ==
  ASSUME NEW E, timer \in Seq(E), NEW cb, NEW interval,
         [cb |-> cb, t |-> Plus(clock, interval), interval |-> interval] \in E
  PROVE  /\ Added(timer, cb, interval) \in Seq(E)
         /\ Len(Added(timer, cb, interval)) = Len(timer) + 1
         /\ IsOrder(E) => Sorted(Added(timer, cb, interval))
<1> DEFINE e == [cb |-> cb, t |-> Plus(clock, interval), interval |-> interval]
           tab == Append(timer, e)
<1>1. tab \in Seq(E) /\ Len(tab) = Len(timer) + 1
  <2>1. e \in E
    OBVIOUS
  <2> HIDE DEF e
  <2> QED
    BY <2>1
<1>2. Added(timer, cb, interval) = Sort(tab)
  BY DEF Added
<1> HIDE DEF tab
<1> QED
  BY <1>1, <1>2, SortType, SortOrders

\* The entry of a callback with another time.
Later(e, interval) == [e EXCEPT !.interval = interval, !.t = Plus(proc.now, interval)]
HoldsLater(E, interval) == \A e \in E : Later(e, interval) \in E

LEMMA RearmFacts ==
  ASSUME NEW E, NEW tab \in Seq(E), NEW i \in Nat \ {0}, NEW interval,
         HoldsLater(E, interval)
  PROVE  /\ Rearm(tab, i, interval) \in Seq(E) /\ Len(Rearm(tab, i, interval)) = Len(tab)
         /\ \A k \in 1 .. Len(tab) : Rearm(tab, i, interval)[k] =
              IF k = i THEN Later(tab[i], interval)
              ELSE tab[k]
<1>0. Len(tab) \in Nat /\ i \in Nat /\ 1 <= i
  OBVIOUS
<1>a. \A k \in 1 .. Len(tab) : tab[k] \in E
  OBVIOUS
<1>1. ASSUME i <= Len(tab)
      PROVE  /\ Rearm(tab, i, interval) \in Seq(E) /\ Len(Rearm(tab, i, interval)) = Len(tab)
             /\ \A k \in 1 .. Len(tab) : Rearm(tab, i, interval)[k] =
                  IF k = i THEN Later(tab[i], interval)
                  ELSE tab[k]
  <2> DEFINE e == Later(tab[i], interval)
             new == [tab EXCEPT ![i] = e]
  <2>1. i \in 1 .. Len(tab)
    BY ONLY <1>0, <1>1
  <2>a. tab[i] \in E
    BY <1>a, <2>1
  <2>2. e \in E
    BY <2>a DEF HoldsLater
  <2>3. Rearm(tab, i, interval) = new
    BY <1>1, <2>1 DEF Rearm, Later
  <2> HIDE DEF e
  <2>4. new \in Seq(E) /\ Len(new) = Len(tab)
    BY ONLY tab \in Seq(E), <2>1, <2>2
  <2>5. \A k \in 1 .. Len(tab) : new[k] = IF k = i THEN e ELSE tab[k]
    BY ONLY tab \in Seq(E), <2>1
  <2> HIDE DEF new
  <2> QED
    BY <2>3, <2>4, <2>5 DEF e
<1>2. ASSUME ~(i <= Len(tab))
      PROVE  /\ Rearm(tab, i, interval) = tab
             /\ \A k \in 1 .. Len(tab) : k # i
  <2>1. Rearm(tab, i, interval) = tab
    BY <1>2 DEF Rearm
  <2>2. \A k \in 1 .. Len(tab) : k # i
    BY ONLY <1>0, <1>2
  <2> QED
    BY <2>1, <2>2
<1> QED
  BY <1>1, <1>2

LEMMA StopFacts ==
  ASSUME NEW E, NEW tab \in Seq(E), NEW i \in Nat \ {0}
  PROVE  Stop(tab, i) \in Seq(E) /\ Len(Stop(tab, i)) <= Len(tab)
<1>1. CASE i <= Len(tab)
  <2>1. i \in 1 .. Len(tab) /\ Len(tab) \in Nat
    BY <1>1
  <2> QED
    BY <1>1, <2>1, RemoveFacts DEF Stop
<1>2. CASE ~(i <= Len(tab))
  BY <1>2 DEF Stop
<1> QED
  BY <1>1, <1>2

\* What a callback leaves of a table of E, when what it adds is in E.
LEMMA EffectFacts ==
  ASSUME TypeOK, NEW E, timer \in Seq(E),
         \A cb \in Callback, x \in Interval :
           [cb |-> cb, t |-> Plus(clock, x), interval |-> x] \in E,
         NEW e \in CallbackEffects
  PROVE  e.tab \in Seq(E) /\ Len(e.tab) <= MAX_TIMER_NUM
<1>0. MAX_TIMER_NUM \in Nat /\ Len(timer) \in Nat /\ Len(timer) <= MAX_TIMER_NUM
  BY TimerAssumption DEF TypeOK
<1>1. CASE e = [tab |-> timer, wakeup |-> wakeup]
  BY <1>0, <1>1
<1>2. ASSUME Len(timer) < MAX_TIMER_NUM, NEW cb \in Callback, NEW x \in Interval,
             e = [tab |-> Added(timer, cb, x), wakeup |-> Armed(Added(timer, cb, x)[1].t)]
      PROVE  e.tab \in Seq(E) /\ Len(e.tab) <= MAX_TIMER_NUM
  <2>1. Added(timer, cb, x) \in Seq(E) /\ Len(Added(timer, cb, x)) = Len(timer) + 1
    BY AddedFacts
  <2> QED
    BY <1>0, <1>2, <2>1
<1>3. ASSUME NEW cb \in Callback, IndexOf(timer, cb) # 0,
             e = [tab |-> RemoveAt(timer, IndexOf(timer, cb)),
                  wakeup |-> DeletedWakeup(timer, IndexOf(timer, cb))]
      PROVE  e.tab \in Seq(E) /\ Len(e.tab) <= MAX_TIMER_NUM
  <2> DEFINE i == IndexOf(timer, cb)
  <2>1. i \in 1 .. Len(timer)
    BY <1>0, <1>3, IndexFacts
  <2> HIDE DEF i
  <2>2. RemoveAt(timer, i) \in Seq(E) /\ Len(RemoveAt(timer, i)) = Len(timer) - 1
    BY <2>1, RemoveFacts
  <2> QED
    BY <1>0, <1>3, <2>2 DEF i
<1>4. \/ e = [tab |-> timer, wakeup |-> wakeup]
      \/ Len(timer) < MAX_TIMER_NUM /\ \E cb \in Callback, x \in Interval :
           e = [tab |-> Added(timer, cb, x), wakeup |-> Armed(Added(timer, cb, x)[1].t)]
      \/ \E cb \in Callback :
           IndexOf(timer, cb) # 0 /\ e = [tab |-> RemoveAt(timer, IndexOf(timer, cb)),
                                          wakeup |-> DeletedWakeup(timer, IndexOf(timer, cb))]
  BY DEF CallbackEffects
<1> QED
  BY <1>1, <1>2, <1>3, <1>4

\* An entry that is added.
LEMMA EntryFacts ==
  ASSUME TypeOK, NEW cb \in Callback, NEW x \in Interval
  PROVE  [cb |-> cb, t |-> Plus(clock, x), interval |-> x] \in Entry
<1>1. clock \in Int /\ x \in Int
  BY TimerAssumption DEF TypeOK, Time
<1> QED
  BY <1>1, ClockFacts DEF Entry

\* The wake-up time of a table is typed, and is its first entry's.
LEMMA WakeupFacts ==
  ASSUME NEW tab \in Seq(Entry), NEW now
  PROVE  /\ WakeupFor(tab, now) \in [on : BOOLEAN, t : Time]
         /\ WakeupFor(tab, now).on => tab # <<>> /\ WakeupFor(tab, now).t = tab[1].t
<1>1. CASE tab # <<>> /\ Minus(tab[1].t, now) < Near
  <2>1. tab[1] \in Entry
    BY <1>1
  <2> QED
    BY <1>1, <2>1 DEF WakeupFor, Armed, Entry
<1>2. CASE ~(tab # <<>> /\ Minus(tab[1].t, now) < Near)
  BY <1>2, ClockFacts DEF WakeupFor, Off, Time
<1> QED
  BY <1>1, <1>2

\* The wake-up time a callback leaves.
LEMMA EffectWakeup ==
  ASSUME TypeOK, NEW e \in CallbackEffects
  PROVE  e.wakeup \in [on : BOOLEAN, t : Time]
<1>0. MAX_TIMER_NUM \in Nat /\ Len(timer) \in Nat /\ timer \in Seq(Entry)
  BY TimerAssumption DEF TypeOK
<1>1. CASE e = [tab |-> timer, wakeup |-> wakeup]
  BY <1>1 DEF TypeOK
<1>2. ASSUME NEW cb \in Callback, NEW x \in Interval,
             e = [tab |-> Added(timer, cb, x), wakeup |-> Armed(Added(timer, cb, x)[1].t)]
      PROVE  e.wakeup \in [on : BOOLEAN, t : Time]
  <2> DEFINE tab == Added(timer, cb, x)
  <2>1. tab \in Seq(Entry) /\ Len(tab) = Len(timer) + 1
    BY <1>0, EntryFacts, AddedFacts
  <2> HIDE DEF tab
  <2>2. tab[1] \in Entry
    BY <1>0, <2>1
  <2>3. e.wakeup = Armed(tab[1].t)
    BY <1>2 DEF tab
  <2> QED
    BY <2>2, <2>3 DEF Armed, Entry
<1>3. ASSUME NEW cb \in Callback, IndexOf(timer, cb) # 0,
             e = [tab |-> RemoveAt(timer, IndexOf(timer, cb)),
                  wakeup |-> DeletedWakeup(timer, IndexOf(timer, cb))]
      PROVE  e.wakeup \in [on : BOOLEAN, t : Time]
  <2> DEFINE i == IndexOf(timer, cb)
  <2>1. i \in 1 .. Len(timer)
    BY <1>0, <1>3, IndexFacts
  <2>2. e.wakeup = DeletedWakeup(timer, i)
    BY <1>3
  <2> HIDE DEF i
  <2>3. CASE i = 1
    <3>1. RemoveAt(timer, 1) \in Seq(Entry)
      BY <1>0, <2>1, <2>3, RemoveFacts
    <3> QED
      BY <2>2, <2>3, <3>1, WakeupFacts DEF DeletedWakeup
  <2>4. CASE i # 1
    BY <2>2, <2>4 DEF DeletedWakeup, TypeOK
  <2> QED
    BY <2>3, <2>4
<1> QED
  BY <1>1, <1>2, <1>3 DEF CallbackEffects

\* Nothing but TypeOK and WakesForFirst is needed for them to be kept.
TInv == TypeOK /\ WakesForFirst

LEMMA InitTInv == Init => TInv
<1> SUFFICES ASSUME Init PROVE TInv
  OBVIOUS
<1>1. 0 \in Time /\ 1 \in 1 .. MAX_TIMER_NUM + 1 /\ MAX_TIMER_NUM \in Nat
  BY ClockFacts, TimerAssumption DEF Time
<1> QED
  BY <1>1 DEF Init, TInv, TypeOK, WakesForFirst, Off, NotRunning

\* An addition and a deletion by the main loop.
LEMMA AddType ==
  ASSUME TInv, NEW cb \in Callback, NEW x \in Interval, blt_soft_timer_add(cb, x)
  PROVE  TInv'
<1>1. timer \in Seq(Entry) /\ [cb |-> cb, t |-> Plus(clock, x), interval |-> x] \in Entry
  BY EntryFacts DEF TInv, TypeOK
<1>2. timer' \in Seq(Entry) /\ Len(timer') = Len(timer) + 1
  BY <1>1, AddedFacts DEF blt_soft_timer_add
<1>3. Len(timer) \in Nat /\ Len(timer) < MAX_TIMER_NUM /\ MAX_TIMER_NUM \in Nat
  BY <1>1, TimerAssumption DEF blt_soft_timer_add
<1>4. timer' # <<>> /\ timer'[1] \in Entry /\ Len(timer') <= MAX_TIMER_NUM
  BY <1>2, <1>3
<1>5. wakeup' = [on |-> TRUE, t |-> timer'[1].t] /\ timer'[1].t \in Time
  BY <1>4 DEF blt_soft_timer_add, Armed, Entry
<1> QED
  BY <1>2, <1>4, <1>5 DEF blt_soft_timer_add, TInv, TypeOK, WakesForFirst

LEMMA DeleteType ==
  ASSUME TInv, NEW cb \in Callback, blt_soft_timer_delete(cb)
  PROVE  TInv'
<1> DEFINE i == IndexOf(timer, cb)
<1>1. timer \in Seq(Entry) /\ i # 0 /\ Len(timer) \in Nat /\ MAX_TIMER_NUM \in Nat
  BY TimerAssumption DEF TInv, TypeOK, blt_soft_timer_delete
<1>2. i \in 1 .. Len(timer)
  BY <1>1, IndexFacts
<1>3. timer' = RemoveAt(timer, i) /\ wakeup' = DeletedWakeup(timer, i) /\ ~proc.on
  BY DEF blt_soft_timer_delete
<1> HIDE DEF i
<1>4. /\ timer' \in Seq(Entry) /\ Len(timer') = Len(timer) - 1
      /\ \A k \in 1 .. Len(timer) - 1 : timer'[k] = IF k < i THEN timer[k] ELSE timer[k + 1]
  BY <1>1, <1>2, <1>3, RemoveFacts
<1>5. Len(timer') <= MAX_TIMER_NUM
  BY <1>1, <1>4 DEF TInv, TypeOK
<1>6. /\ wakeup' \in [on : BOOLEAN, t : Time]
      /\ wakeup'.on => timer' # <<>> /\ wakeup'.t = timer'[1].t
  <2>1. CASE i = 1
    <3>1. wakeup' = WakeupFor(timer', clock)
      BY <1>3, <2>1 DEF DeletedWakeup
    <3> QED
      BY <1>4, <3>1, WakeupFacts
  <2>2. CASE i # 1
    <3>1. wakeup' = wakeup
      BY <1>3, <2>2 DEF DeletedWakeup
    <3>2. 1 \in 1 .. Len(timer) - 1 /\ 1 < i /\ timer' # <<>>
      BY <1>1, <1>2, <1>4, <2>2
    <3>3. timer'[1] = timer[1]
      BY <1>4, <3>2
    <3> QED
      BY <1>3, <3>1, <3>2, <3>3 DEF TInv, TypeOK, WakesForFirst
  <2> QED
    BY <2>1, <2>2
<1> QED
  BY <1>4, <1>5, <1>6 DEF blt_soft_timer_delete, TInv, TypeOK, WakesForFirst

\* The loop, with whatever its callbacks do.
LEMMA FireType == ASSUME TInv, ProcessFire PROVE TInv'
<1> DEFINE i == proc.i
<1>0. /\ timer \in Seq(Entry) /\ Len(timer) \in Nat /\ Len(timer) <= MAX_TIMER_NUM
      /\ MAX_TIMER_NUM \in Nat /\ i \in Nat \ {0} /\ i <= Len(timer) /\ proc.on
      /\ proc \in [on : BOOLEAN, now : Time, i : 1 .. (MAX_TIMER_NUM + 1), change_flg : BOOLEAN]
  BY TimerAssumption, SMTT(40) DEF TInv, TypeOK, ProcessFire, Runs
<1>1. PICK e \in CallbackEffects :
        /\ wakeup' = e.wakeup
        /\ \/ timer' = Stop(e.tab, i) /\ proc' = [proc EXCEPT !.i = i + 1]
           \/ /\ timer' = IF i <= Len(e.tab) THEN Rearm(e.tab, i, e.tab[i].interval) ELSE e.tab
              /\ proc' = [proc EXCEPT !.i = i + 1, !.change_flg = TRUE]
           \/ /\ \E interval \in Interval : timer' = Rearm(e.tab, i, interval)
              /\ proc' = [proc EXCEPT !.i = i + 1, !.change_flg = TRUE]
  BY DEF ProcessFire
<1>2. e.tab \in Seq(Entry) /\ Len(e.tab) <= MAX_TIMER_NUM
  <2>1. \A cb \in Callback, x \in Interval :
          [cb |-> cb, t |-> Plus(clock, x), interval |-> x] \in Entry
    BY EntryFacts DEF TInv
  <2> QED
    BY <1>0, <2>1, EffectFacts DEF TInv
<1>3. ASSUME NEW x \in Interval
      PROVE  Rearm(e.tab, i, x) \in Seq(Entry) /\ Len(Rearm(e.tab, i, x)) = Len(e.tab)
  <2>1. Plus(proc.now, x) \in Time
    BY <1>0, ClockFacts, TimerAssumption DEF Time
  <2>2. HoldsLater(Entry, x)
    BY <2>1 DEF Entry, HoldsLater, Later
  <2>3. e.tab \in Seq(Entry) /\ i \in Nat \ {0}
    BY <1>0, <1>2
  <2> DEFINE tab == e.tab
  <2> HIDE DEF i, tab
  <2>4. tab \in Seq(Entry)
    BY <2>3 DEF tab
  <2>5. Rearm(tab, i, x) \in Seq(Entry) /\ Len(Rearm(tab, i, x)) = Len(tab)
    BY <2>2, <2>3, <2>4, RearmFacts
  <2> QED
    BY <2>5 DEF tab
<1>4. timer' \in Seq(Entry) /\ Len(timer') <= MAX_TIMER_NUM
  <2>1. CASE timer' = Stop(e.tab, i)
    <3>1. Stop(e.tab, i) \in Seq(Entry) /\ Len(Stop(e.tab, i)) <= Len(e.tab)
      BY <1>0, <1>2, StopFacts
    <3> HIDE DEF i
    <3> QED
      BY <1>0, <1>2, <2>1, <3>1
  <2>2. CASE timer' = IF i <= Len(e.tab) THEN Rearm(e.tab, i, e.tab[i].interval) ELSE e.tab
    <3>1. CASE i <= Len(e.tab)
      <4>1. e.tab[i].interval \in Interval
        <5>1. i \in 1 .. Len(e.tab) /\ e.tab[i] \in Entry
          BY <1>0, <1>2, <3>1
        <5> QED
          BY <5>1 DEF Entry
      <4> HIDE DEF i
      <4> QED
        BY <1>2, <1>3, <2>2, <3>1, <4>1
    <3>2. CASE ~(i <= Len(e.tab))
      BY <1>2, <2>2, <3>2
    <3> QED
      BY <3>1, <3>2
  <2>3. CASE \E interval \in Interval : timer' = Rearm(e.tab, i, interval)
    BY <1>2, <1>3, <2>3
  <2> QED
    BY <1>1, <2>1, <2>2, <2>3
<1>5. /\ proc' \in [on : BOOLEAN, now : Time, i : 1 .. (MAX_TIMER_NUM + 1), change_flg : BOOLEAN]
      /\ proc'.on
  <2>1. i + 1 \in 1 .. (MAX_TIMER_NUM + 1)
    BY <1>0
  <2> QED
    BY <1>0, <1>1, <2>1
<1>6. wakeup' \in [on : BOOLEAN, t : Time]
  BY <1>0, <1>1, EffectWakeup DEF TInv
<1> QED
  BY <1>4, <1>5, <1>6 DEF ProcessFire, TInv, TypeOK, WakesForFirst

LEMMA ProcessType == ASSUME TInv, Process PROVE TInv'
<1>0. /\ timer \in Seq(Entry) /\ Len(timer) \in Nat /\ Len(timer) <= MAX_TIMER_NUM
      /\ MAX_TIMER_NUM \in Nat /\ clock \in Time /\ 0 \in Time
      /\ proc \in [on : BOOLEAN, now : Time, i : 1 .. (MAX_TIMER_NUM + 1), change_flg : BOOLEAN]
  BY TimerAssumption, ClockFacts DEF TInv, TypeOK, Time
<1>1. CASE ProcessStart
  <2>1. /\ proc' \in [on : BOOLEAN, now : Time, i : 1 .. (MAX_TIMER_NUM + 1), change_flg : BOOLEAN]
        /\ idle' \in Nat /\ wakeup' \in [on : BOOLEAN, t : Time]
        /\ UNCHANGED <<clock, timer>>
    <3>1. /\ NotRunning \in [on : BOOLEAN, now : Time, i : 1 .. (MAX_TIMER_NUM + 1), change_flg : BOOLEAN]
          /\ [NotRunning EXCEPT !.on = TRUE, !.now = clock]
               \in [on : BOOLEAN, now : Time, i : 1 .. (MAX_TIMER_NUM + 1), change_flg : BOOLEAN]
      <4>1. 1 \in 1 .. (MAX_TIMER_NUM + 1)
        BY <1>0
      <4> QED
        BY <1>0, <4>1 DEF NotRunning
    <3>2. idle \in Nat /\ 0 \in Nat /\ wakeup \in [on : BOOLEAN, t : Time] /\ Off \in [on : BOOLEAN, t : Time]
      BY <1>0 DEF TInv, TypeOK, Off
    <3> QED
      BY <1>0, <1>1, <3>1, <3>2 DEF ProcessStart
  <2>2. WakesForFirst'
    BY <1>1 DEF ProcessStart, TInv, WakesForFirst, Off
  <2> QED
    BY <2>1, <2>2 DEF TInv, TypeOK
<1>2. CASE ProcessSkip
  <2>1. proc.i + 1 \in 1 .. (MAX_TIMER_NUM + 1)
    BY <1>0, <1>2 DEF ProcessSkip
  <2>2. /\ proc' \in [on : BOOLEAN, now : Time, i : 1 .. (MAX_TIMER_NUM + 1), change_flg : BOOLEAN]
        /\ proc'.on
    BY <1>0, <1>2, <2>1 DEF ProcessSkip
  <2> QED
    BY <1>2, <2>2 DEF ProcessSkip, TInv, TypeOK, WakesForFirst
<1>3. CASE ProcessDone
  <2>1. timer' \in Seq(Entry) /\ Len(timer') = Len(timer)
    BY <1>0, <1>3, SortType DEF ProcessDone, SortIfChanged
  <2>2. /\ wakeup' \in [on : BOOLEAN, t : Time]
        /\ wakeup'.on => timer' # <<>> /\ wakeup'.t = timer'[1].t
    BY <1>3, <2>1, WakeupFacts DEF ProcessDone
  <2>3. proc' \in [on : BOOLEAN, now : Time, i : 1 .. (MAX_TIMER_NUM + 1), change_flg : BOOLEAN]
    BY <1>0, <1>3 DEF ProcessDone, NotRunning
  <2> QED
    BY <1>0, <1>3, <2>1, <2>2, <2>3 DEF ProcessDone, TInv, TypeOK, WakesForFirst
<1> QED
  BY <1>1, <1>2, <1>3, FireType DEF Process

LEMMA NextTInv == TInv /\ [Next]_vars => TInv'
<1> SUFFICES ASSUME TInv, [Next]_vars PROVE TInv'
  OBVIOUS
<1>1. CASE TimePasses
  <2>1. clock' \in Time /\ idle' \in Nat
    BY <1>1, ClockFacts DEF TimePasses, TInv, TypeOK, Time
  <2> QED
    BY <1>1, <2>1 DEF TimePasses, TInv, TypeOK, WakesForFirst
<1>2. CASE UNCHANGED vars
  BY <1>2 DEF vars, TInv, TypeOK, WakesForFirst
<1> QED
  BY <1>1, <1>2, AddType, DeleteType, ProcessType DEF Next

\* The table keeps its four places and its types, whatever callbacks call.
THEOREM TypeCorrect == Spec => []TypeOK
<1>1. TInv => TypeOK
  BY DEF TInv
<1> QED
  BY <1>1, InitTInv, NextTInv, PTL DEF Spec

\* The device never waits for a timer deleted or moved: a wake-up time is the
\* first entry's whenever blt_soft_timer_process does not run.
THEOREM WakesForTheFirst == Spec => []WakesForFirst
<1>1. TInv => WakesForFirst
  BY DEF TInv
<1> QED
  BY <1>1, InitTInv, NextTInv, PTL DEF Spec


-----------------------------------------------------------------------------
(***************************************************************************)
(* The window.  Ahead counts from the latest time that still counts as     *)
(* expired; within a quarter of the clock from there TIME_COMPARE_BIG is   *)
(* the order of Ahead.                                                     *)
(***************************************************************************)
Late == SafePost - SafePre - 1
AheadAt(t, now) == Minus(t + Late, now)
Ahead(t) == AheadAt(t, clock)
Live == {e \in Entry : Ahead(e.t) < Quarter}

\* The window after expiry is shorter than the span within which two times
\* compare, and holds a turn of the main loop; no interval reaches beyond the
\* rest of the span (blt_soft_timer.h 49-53: 4 s and BIT(30) ticks, 67 s).
ShortIntervals ==
  /\ SafePost < Quarter /\ MaxGap <= Late
  /\ \A x \in Interval : x + Late < Quarter

\* r is x reduced to the clock's range.
Wraps(r, x) == r \in Int /\ 0 <= r /\ r < Wrap /\ (r = x \/ r = x + Wrap \/ r = x - Wrap)

LEMMA Constants ==
  ASSUME ShortIntervals
  PROVE  /\ Wrap \in Int /\ Quarter \in Int /\ 0 < Quarter
         /\ Wrap = Quarter + Quarter + Quarter + Quarter
         /\ Late \in Int /\ 0 <= Late /\ Late < Quarter /\ Late = SafePost - SafePre - 1
         /\ SafePre \in Int /\ SafePost \in Int /\ 0 <= SafePre /\ SafePre < SafePost
         /\ SafePost < Quarter /\ MaxGap \in Int /\ 0 <= MaxGap /\ MaxGap <= Late
         /\ \A x \in Interval : x \in Int /\ 0 <= x /\ x + Late < Quarter
BY TimerAssumption DEF ShortIntervals, Late

LEMMA TimeBounds ==
  ASSUME NEW t \in Time
  PROVE  t \in Int /\ 0 <= t /\ t < Wrap /\ Wrap \in Int
BY ClockFacts DEF Time

LEMMA ModWraps ==
  ASSUME NEW x \in Int, -Wrap <= x, x < Wrap + Wrap
  PROVE  Wraps(x % Wrap, x)
<1>1. Wrap \in Nat \ {0}
  BY ClockFacts
<1>2. /\ x % Wrap \in 0 .. Wrap - 1
      /\ 0 <= x /\ x < Wrap => x % Wrap = x
      /\ -Wrap <= x /\ x < 0 => x % Wrap = x + Wrap
      /\ Wrap <= x /\ x < Wrap + Wrap => x % Wrap = x - Wrap
  BY <1>1, ModFacts
<1> DEFINE r == x % Wrap
<1> HIDE DEF r
<1>3. /\ r \in 0 .. Wrap - 1
      /\ 0 <= x /\ x < Wrap => r = x
      /\ -Wrap <= x /\ x < 0 => r = x + Wrap
      /\ Wrap <= x /\ x < Wrap + Wrap => r = x - Wrap
  BY <1>2 DEF r
<1>4. Wraps(r, x)
  BY <1>1, <1>3 DEF Wraps
<1> QED
  BY <1>4 DEF r

LEMMA MinusWraps ==
  ASSUME NEW t \in Time, NEW u \in Time
  PROVE  Wraps(Minus(t, u), t - u)
<1>1. t - u \in Int /\ -Wrap <= t - u /\ t - u < Wrap + Wrap
  BY TimeBounds
<1> QED
  BY <1>1, ModWraps DEF Minus

LEMMA AheadWraps ==
  ASSUME ShortIntervals, NEW t \in Time, NEW now \in Time
  PROVE  Wraps(AheadAt(t, now), t + Late - now)
<1> DEFINE x == (t + Late) - now
<1>1. x \in Int /\ -Wrap <= x /\ x < Wrap + Wrap
  BY TimeBounds, Constants
<1>2. AheadAt(t, now) = x % Wrap
  BY DEF AheadAt, Minus
<1> HIDE DEF x
<1>3. Wraps(AheadAt(t, now), x)
  BY <1>1, <1>2, ModWraps
<1> QED
  BY <1>3, TimeBounds, Constants DEF x, Wraps

LEMMA PlusWraps ==
  ASSUME NEW t \in Time, NEW x \in Int, 0 <= x, x < Wrap
  PROVE  Wraps(Plus(t, x), t + x)
<1>1. t + x \in Int /\ -Wrap <= t + x /\ t + x < Wrap + Wrap
  BY TimeBounds
<1> QED
  BY <1>1, ModWraps DEF Plus

\* Expired is the part of the window behind the clock and SafePre ahead of it.
LEMMA ExpiredFacts ==
  ASSUME ShortIntervals, NEW t \in Time, NEW now \in Time
  PROVE  Expired(t, now) <=> AheadAt(t, now) <= Late + SafePre
<1> DEFINE a == AheadAt(t, now)
           m == Minus(now + SafePre, t)
<1>1. Wraps(a, t + Late - now)
  BY AheadWraps
<1>2. Wraps(m, now + SafePre - t)
  <2> DEFINE x == (now + SafePre) - t
  <2>1. x \in Int /\ -Wrap <= x /\ x < Wrap + Wrap
    BY TimeBounds, Constants
  <2>2. m = x % Wrap
    BY DEF Minus
  <2> HIDE DEF x, m
  <2>3. Wraps(m, x)
    BY <2>1, <2>2, ModWraps
  <2> QED
    BY <2>3, TimeBounds, Constants DEF x, Wraps
<1>3. Expired(t, now) <=> m < SafePost
  BY DEF Expired
<1> HIDE DEF a, m
<1>4. m < SafePost <=> a <= Late + SafePre
  BY <1>1, <1>2, TimeBounds, Constants DEF Wraps
<1> QED
  BY <1>3, <1>4 DEF a

\* Within the window the comparison of two times is that of their distances.
LEMMA CompareFacts ==
  ASSUME ShortIntervals, NEW t \in Time, NEW u \in Time, NEW now \in Time,
         AheadAt(t, now) < Quarter, AheadAt(u, now) < Quarter
  PROVE  TIME_COMPARE_BIG(t, u) <=> AheadAt(u, now) <= AheadAt(t, now)
<1> DEFINE a == AheadAt(t, now)
           b == AheadAt(u, now)
           m == Minus(t, u)
<1>1. Wraps(a, t + Late - now) /\ Wraps(b, u + Late - now) /\ Wraps(m, t - u)
  BY AheadWraps, MinusWraps
<1>2. a < Quarter /\ b < Quarter
  OBVIOUS
<1>3. TIME_COMPARE_BIG(t, u) <=> m < Quarter
  BY DEF TIME_COMPARE_BIG
<1> HIDE DEF a, b, m
<1>4. m < Quarter <=> b <= a
  BY <1>1, <1>2, TimeBounds, Constants DEF Wraps
<1> QED
  BY <1>3, <1>4 DEF a, b

LEMMA LiveOrder ==
  ASSUME ShortIntervals, clock \in Time
  PROVE  IsOrder(Live)
<1>1. \A e \in Live : e.t \in Time /\ Ahead(e.t) < Quarter /\ Ahead(e.t) \in Int
  BY AheadWraps DEF Live, Entry, Wraps, Ahead
<1>2. \A a, b \in Live : Before(a, b) <=> Ahead(a.t) <= Ahead(b.t)
  BY <1>1, CompareFacts DEF Before, Ahead
<1> QED
  BY <1>1, <1>2 DEF IsOrder

\* A time passes towards the end of the window, and what is set lies in it.
LEMMA PassFactsOfTime ==
  ASSUME ShortIntervals, NEW t \in Time, NEW now \in Time, 0 < AheadAt(t, now)
  PROVE  AheadAt(t, Plus(now, 1)) = AheadAt(t, now) - 1
<1> DEFINE a == AheadAt(t, now)
           n == Plus(now, 1)
           b == AheadAt(t, n)
<1>1. Wraps(a, t + Late - now) /\ 0 < a
  BY AheadWraps
<1>2. Wraps(n, now + 1)
  BY PlusWraps, Constants
<1>3. n \in Time
  BY ClockFacts, TimeBounds
<1> HIDE DEF n
<1>4. Wraps(b, t + Late - n)
  BY <1>3, AheadWraps
<1> HIDE DEF a, b
<1>5. b = a - 1
  BY <1>1, <1>2, <1>3, <1>4, TimeBounds, Constants DEF Wraps
<1> QED
  BY <1>5 DEF a, b, n

\* A time x after now, when now is d behind the clock.
LEMMA SetFacts ==
  ASSUME ShortIntervals, NEW c \in Time, NEW now \in Time, NEW x \in Interval,
         Minus(c, now) <= MaxGap
  PROVE  /\ Plus(now, x) \in Time
         /\ AheadAt(Plus(now, x), c) = x + Late - Minus(c, now)
         /\ AheadAt(Plus(now, x), c) < Quarter
         /\ Minus(Plus(now, x), now) = x
<1> DEFINE d == Minus(c, now)
           t == Plus(now, x)
           a == AheadAt(t, c)
           m == Minus(t, now)
<1>0. x \in Int /\ 0 <= x /\ x + Late < Quarter /\ x < Wrap
  BY Constants
<1>1. Wraps(d, c - now) /\ Wraps(t, now + x) /\ d <= MaxGap
  BY <1>0, MinusWraps, PlusWraps
<1>2. t \in Time
  BY <1>0, ClockFacts, TimeBounds
<1> HIDE DEF t
<1>3. Wraps(a, t + Late - c) /\ Wraps(m, t - now)
  BY <1>2, AheadWraps, MinusWraps
<1> HIDE DEF a, d, m
<1>4. a = x + Late - d /\ a < Quarter /\ m = x
  BY <1>0, <1>1, <1>2, <1>3, TimeBounds, Constants DEF Wraps
<1> QED
  BY <1>2, <1>4 DEF a, d, m, t

\* The same time seen from now, d before the clock.
LEMMA SeenFacts ==
  ASSUME ShortIntervals, NEW c \in Time, NEW now \in Time, NEW t \in Time,
         Minus(c, now) <= MaxGap, AheadAt(t, c) < Quarter
  PROVE  /\ AheadAt(t, now) = AheadAt(t, c) + Minus(c, now)
         /\ AheadAt(t, now) < Quarter + MaxGap
         /\ Late <= AheadAt(t, now) => Minus(t, now) = AheadAt(t, now) - Late
         /\ Late <= AheadAt(t, now) <=> Minus(t, now) < Quarter
<1> DEFINE d == Minus(c, now)
           a == AheadAt(t, c)
           b == AheadAt(t, now)
           m == Minus(t, now)
<1>1. Wraps(d, c - now) /\ Wraps(a, t + Late - c) /\ Wraps(b, t + Late - now) /\ Wraps(m, t - now)
  BY MinusWraps, AheadWraps
<1>2. d <= MaxGap /\ a < Quarter
  OBVIOUS
<1> HIDE DEF a, b, d, m
<1>3. b = a + d /\ b < Quarter + MaxGap
  BY <1>1, <1>2, TimeBounds, Constants DEF Wraps
<1>4. (Late <= b => m = b - Late) /\ (Late <= b <=> m < Quarter)
  BY <1>1, <1>2, <1>3, TimeBounds, Constants DEF Wraps
<1> QED
  BY <1>3, <1>4 DEF a, b, d, m

-----------------------------------------------------------------------------
(***************************************************************************)
(* Order.  While no entry leaves the window all of them are live, and      *)
(* times are totally ordered; the table is sorted unless a callback of the *)
(* running loop has rearmed an entry.                                      *)
(***************************************************************************)
LiveInv == timer \in Seq(Live)

\* The running loop's now is at most a turn of the main loop ago.
TurnInv == proc.on => Minus(clock, proc.now) <= idle /\ Minus(clock, proc.now) <= MaxGap

OrderInv == ~proc.on \/ ~proc.change_flg => Sorted(timer)

LInv == TInv /\ LiveInv /\ TurnInv /\ OrderInv

LEMMA RemoveSorted ==
  ASSUME NEW E, NEW tab \in Seq(E), NEW i \in 1 .. Len(tab), Sorted(tab)
  PROVE  Sorted(RemoveAt(tab, i))
<1> DEFINE new == RemoveAt(tab, i)
<1>1. /\ Len(new) = Len(tab) - 1 /\ Len(tab) \in Nat
      /\ \A k \in 1 .. Len(tab) - 1 : new[k] = IF k < i THEN tab[k] ELSE tab[k + 1]
  BY RemoveFacts
<1> HIDE DEF new
<1>2. ASSUME NEW j \in 1 .. Len(new), NEW k \in 1 .. Len(new), j < k
      PROVE  Before(new[j], new[k])
  <2> DEFINE p == IF j < i THEN j ELSE j + 1
             q == IF k < i THEN k ELSE k + 1
  <2>1. p \in 1 .. Len(tab) /\ q \in 1 .. Len(tab) /\ p < q
    BY <1>1, <1>2
  <2>2. new[j] = tab[p] /\ new[k] = tab[q]
    BY <1>1, <1>2
  <2> HIDE DEF p, q
  <2> QED
    BY <2>1, <2>2 DEF Sorted
<1>3. Sorted(new)
  BY <1>2 DEF Sorted
<1> QED
  BY <1>3 DEF new

LEMMA AddLive ==
  ASSUME ShortIntervals, TInv, NEW cb \in Callback, NEW x \in Interval
  PROVE  [cb |-> cb, t |-> Plus(clock, x), interval |-> x] \in Live
<1>1. clock \in Time /\ 0 <= MaxGap
  BY Constants DEF TInv, TypeOK
<1>2. Minus(clock, clock) = 0
  <2> DEFINE d == Minus(clock, clock)
  <2>1. Wraps(d, clock - clock) /\ clock - clock = 0
    BY <1>1, MinusWraps, TimeBounds
  <2> HIDE DEF d
  <2>2. d = 0
    BY <2>1, Constants DEF Wraps
  <2> QED
    BY <2>2 DEF d
<1>3. AheadAt(Plus(clock, x), clock) < Quarter
  BY <1>1, <1>2, SetFacts
<1>4. [cb |-> cb, t |-> Plus(clock, x), interval |-> x] \in Entry
  BY EntryFacts DEF TInv
<1> QED
  BY <1>3, <1>4 DEF Live, Ahead

LEMMA LaterLive ==
  ASSUME ShortIntervals, TInv, TurnInv, proc.on, NEW x \in Interval
  PROVE  HoldsLater(Live, x)
<1>1. clock \in Time /\ proc.now \in Time /\ Minus(clock, proc.now) <= MaxGap
  BY DEF TInv, TypeOK, TurnInv
<1>2. Plus(proc.now, x) \in Time /\ AheadAt(Plus(proc.now, x), clock) < Quarter
  BY <1>1, SetFacts
<1> QED
  BY <1>2 DEF HoldsLater, Later, Live, Entry, Ahead

LEMMA EffectSorted ==
  ASSUME TypeOK, NEW E, timer \in Seq(E), IsOrder(E), Sorted(timer),
         \A cb \in Callback, x \in Interval :
           [cb |-> cb, t |-> Plus(clock, x), interval |-> x] \in E,
         NEW e \in CallbackEffects
  PROVE  Sorted(e.tab)
<1>1. CASE e = [tab |-> timer, wakeup |-> wakeup]
  BY <1>1
<1>2. ASSUME NEW cb \in Callback, NEW x \in Interval,
             e = [tab |-> Added(timer, cb, x), wakeup |-> Armed(Added(timer, cb, x)[1].t)]
      PROVE  Sorted(e.tab)
  <2>1. [cb |-> cb, t |-> Plus(clock, x), interval |-> x] \in E
    OBVIOUS
  <2>2. Sorted(Added(timer, cb, x))
    BY <2>1, AddedFacts
  <2> QED
    BY <1>2, <2>2
<1>3. ASSUME NEW cb \in Callback, IndexOf(timer, cb) # 0,
             e.tab = RemoveAt(timer, IndexOf(timer, cb))
      PROVE  Sorted(e.tab)
  <2> DEFINE i == IndexOf(timer, cb)
  <2>1. i \in 1 .. Len(timer)
    BY <1>3, IndexFacts
  <2> HIDE DEF i
  <2>2. Sorted(RemoveAt(timer, i))
    BY <2>1, RemoveSorted
  <2> QED
    BY <1>3, <2>2 DEF i
<1> QED
  BY <1>1, <1>2, <1>3 DEF CallbackEffects

LEMMA InitLInv == ShortIntervals /\ Init => LInv
<1> SUFFICES ASSUME ShortIntervals, Init PROVE LInv
  OBVIOUS
<1> QED
  BY InitTInv DEF Init, LInv, LiveInv, TurnInv, OrderInv, Sorted, NotRunning

LEMMA AddOrder ==
  ASSUME ShortIntervals, LInv, NEW cb \in Callback, NEW x \in Interval, blt_soft_timer_add(cb, x)
  PROVE  LInv'
<1>1. TInv'
  BY AddType DEF LInv
<1>2. /\ timer \in Seq(Live) /\ IsOrder(Live)
      /\ [cb |-> cb, t |-> Plus(clock, x), interval |-> x] \in Live
  BY LiveOrder, AddLive DEF LInv, LiveInv, TInv, TypeOK
<1>3. timer' \in Seq(Live) /\ Sorted(timer')
  BY <1>2, AddedFacts DEF blt_soft_timer_add
<1>4. Live' = Live
  BY DEF blt_soft_timer_add, Live, Ahead
<1> QED
  BY <1>1, <1>3, <1>4 DEF blt_soft_timer_add, LInv, LiveInv, TurnInv, OrderInv

LEMMA DeleteOrder ==
  ASSUME ShortIntervals, LInv, NEW cb \in Callback, blt_soft_timer_delete(cb)
  PROVE  LInv'
<1>1. TInv'
  BY DeleteType DEF LInv
<1> DEFINE i == IndexOf(timer, cb)
<1>2. timer \in Seq(Live) /\ Sorted(timer) /\ i # 0 /\ timer' = RemoveAt(timer, i) /\ ~proc.on
  BY DEF LInv, LiveInv, OrderInv, blt_soft_timer_delete
<1>3. i \in 1 .. Len(timer)
  BY <1>2, IndexFacts
<1> HIDE DEF i
<1>4. timer' \in Seq(Live) /\ Sorted(timer')
  BY <1>2, <1>3, RemoveFacts, RemoveSorted
<1>5. Live' = Live
  BY DEF blt_soft_timer_delete, Live, Ahead
<1> QED
  BY <1>1, <1>2, <1>4, <1>5 DEF blt_soft_timer_delete, LInv, LiveInv, TurnInv, OrderInv

\* An entry that is rearmed leaves the order to the sort after the loop.
LEMMA FireOrder == ASSUME ShortIntervals, LInv, ProcessFire PROVE LInv'
<1> DEFINE i == proc.i
<1>0. /\ timer \in Seq(Live) /\ IsOrder(Live) /\ TypeOK /\ i \in Nat \ {0}
      /\ proc \in [on : BOOLEAN, now : Time, i : 1 .. (MAX_TIMER_NUM + 1), change_flg : BOOLEAN]
      /\ proc.on /\ UNCHANGED <<clock, idle>>
  BY LiveOrder, TimerAssumption, SMTT(40) DEF LInv, LiveInv, TInv, TypeOK, ProcessFire, Runs
<1>1. TInv'
  BY FireType DEF LInv
<1>2. Live' = Live
  BY <1>0 DEF Live, Ahead
<1>3. PICK e \in CallbackEffects :
           \/ timer' = Stop(e.tab, i) /\ proc' = [proc EXCEPT !.i = i + 1]
           \/ /\ timer' = IF i <= Len(e.tab) THEN Rearm(e.tab, i, e.tab[i].interval) ELSE e.tab
              /\ proc' = [proc EXCEPT !.i = i + 1, !.change_flg = TRUE]
           \/ /\ \E interval \in Interval : timer' = Rearm(e.tab, i, interval)
              /\ proc' = [proc EXCEPT !.i = i + 1, !.change_flg = TRUE]
  BY DEF ProcessFire
<1>4. /\ e.tab \in Seq(Live)
      /\ Sorted(timer) => Sorted(e.tab)
  <2>1. \A cb \in Callback, x \in Interval :
          [cb |-> cb, t |-> Plus(clock, x), interval |-> x] \in Live
    BY AddLive DEF LInv
  <2> QED
    BY <1>0, <2>1, EffectFacts, EffectSorted
<1>5. proc'.now = proc.now /\ proc'.on
  BY <1>0, <1>3
<1>6. TurnInv'
  BY <1>0, <1>5 DEF LInv, TurnInv
<1>7. ASSUME NEW x \in Interval
      PROVE  Rearm(e.tab, i, x) \in Seq(Live)
  <2>1. HoldsLater(Live, x)
    BY <1>0, LaterLive DEF LInv
  <2> DEFINE tab == e.tab
  <2> HIDE DEF i, tab
  <2>2. tab \in Seq(Live) /\ i \in Nat \ {0}
    BY <1>0, <1>4 DEF tab
  <2>3. Rearm(tab, i, x) \in Seq(Live)
    BY <2>1, <2>2, RearmFacts
  <2> QED
    BY <2>3 DEF tab
<1>8. CASE timer' = Stop(e.tab, i) /\ proc' = [proc EXCEPT !.i = i + 1]
  <2>1. timer' \in Seq(Live)
    <3>1. Stop(e.tab, i) \in Seq(Live)
      BY <1>0, <1>4, StopFacts
    <3> QED
      BY <1>8, <3>1
  <2>2. Sorted(e.tab) => Sorted(Stop(e.tab, i))
    <3>1. CASE i <= Len(e.tab)
      <4>1. i \in 1 .. Len(e.tab)
        BY <1>0, <1>4, <3>1
      <4> HIDE DEF i
      <4> QED
        BY <1>4, <3>1, <4>1, RemoveSorted DEF Stop
    <3>2. CASE ~(i <= Len(e.tab))
      BY <3>2 DEF Stop
    <3> QED
      BY <3>1, <3>2
  <2>3. proc'.change_flg = proc.change_flg
    BY <1>0, <1>8
  <2>4. OrderInv'
    BY <1>0, <1>4, <1>5, <1>8, <2>2, <2>3 DEF LInv, OrderInv
  <2> QED
    BY <1>1, <1>2, <1>6, <2>1, <2>4 DEF LInv, LiveInv
<1>9. CASE /\ \/ timer' = IF i <= Len(e.tab) THEN Rearm(e.tab, i, e.tab[i].interval) ELSE e.tab
              \/ \E interval \in Interval : timer' = Rearm(e.tab, i, interval)
           /\ proc' = [proc EXCEPT !.i = i + 1, !.change_flg = TRUE]
  <2>1. timer' \in Seq(Live)
    <3>1. CASE timer' = IF i <= Len(e.tab) THEN Rearm(e.tab, i, e.tab[i].interval) ELSE e.tab
      <4>1. CASE i <= Len(e.tab)
        <5>1. i \in 1 .. Len(e.tab)
          BY <1>0, <1>4, <4>1
        <5>2. e.tab[i] \in Live
          BY <1>4, <5>1
        <5>3. e.tab[i].interval \in Interval
          BY <5>2 DEF Live, Entry
        <5> HIDE DEF i
        <5> QED
          BY <1>7, <3>1, <4>1, <5>3
      <4>2. CASE ~(i <= Len(e.tab))
        BY <1>4, <3>1, <4>2
      <4> QED
        BY <4>1, <4>2
    <3>2. CASE \E interval \in Interval : timer' = Rearm(e.tab, i, interval)
      BY <1>7, <3>2
    <3> QED
      BY <1>9, <3>1, <3>2
  <2>2. proc'.change_flg
    BY <1>0, <1>9
  <2> QED
    BY <1>1, <1>2, <1>5, <1>6, <2>1, <2>2 DEF LInv, LiveInv, OrderInv
<1> QED
  BY <1>3, <1>8, <1>9

LEMMA ProcessOrder == ASSUME ShortIntervals, LInv, Process PROVE LInv'
<1>0. /\ timer \in Seq(Live) /\ IsOrder(Live) /\ clock \in Time /\ idle \in Nat
      /\ proc \in [on : BOOLEAN, now : Time, i : 1 .. (MAX_TIMER_NUM + 1), change_flg : BOOLEAN]
  BY LiveOrder DEF LInv, LiveInv, TInv, TypeOK
<1>1. TInv'
  BY ProcessType DEF LInv
<1>2. UNCHANGED clock => Live' = Live
  BY DEF Live, Ahead
<1>3. CASE ProcessStart
  <2>1. Minus(clock, clock) = 0
    <3> DEFINE d == Minus(clock, clock)
    <3>1. Wraps(d, clock - clock) /\ clock - clock = 0
      BY <1>0, MinusWraps, TimeBounds
    <3> HIDE DEF d
    <3>2. d = 0
      BY <3>1, Constants DEF Wraps
    <3> QED
      BY <3>2 DEF d
  <2>2. /\ UNCHANGED <<clock, timer>> /\ ~proc.on
        /\ \/ proc' = proc
           \/ proc' = [NotRunning EXCEPT !.on = TRUE, !.now = clock] /\ idle' = idle
    BY <1>3 DEF ProcessStart
  <2>3. TurnInv'
    <3>1. CASE proc' = proc
      BY <2>2, <3>1 DEF TurnInv
    <3>2. CASE proc' = [NotRunning EXCEPT !.on = TRUE, !.now = clock] /\ idle' = idle
      <4>1. proc'.now = clock /\ clock' = clock
        BY <2>2, <3>2 DEF NotRunning
      <4>2. 0 <= idle' /\ 0 <= MaxGap
        BY <1>0, <3>2, Constants
      <4>3. Minus(clock', proc'.now) = 0
        BY <2>1, <4>1
      <4> QED
        BY <4>2, <4>3 DEF TurnInv
    <3> QED
      BY <2>2, <3>1, <3>2
  <2>4. Sorted(timer)
    BY <2>2 DEF LInv, OrderInv
  <2> QED
    BY <1>1, <1>2, <2>2, <2>3, <2>4 DEF LInv, LiveInv, OrderInv
<1>4. CASE ProcessSkip
  <2>1. /\ proc'.on = proc.on /\ proc'.now = proc.now /\ proc'.change_flg = proc.change_flg
        /\ UNCHANGED <<clock, timer, idle>>
    BY <1>0, <1>4 DEF ProcessSkip
  <2> QED
    BY <1>1, <1>2, <2>1 DEF LInv, LiveInv, TurnInv, OrderInv
<1>5. CASE ProcessDone
  <2>1. UNCHANGED clock /\ ~proc'.on
    BY <1>5 DEF ProcessDone, NotRunning
  <2>2. timer' \in Seq(Live) /\ Sorted(timer')
    <3>1. CASE proc.change_flg
      BY <1>0, <1>5, <3>1, SortType, SortOrders DEF ProcessDone, SortIfChanged
    <3>2. CASE ~proc.change_flg
      BY <1>0, <1>5, <3>2 DEF ProcessDone, SortIfChanged, LInv, OrderInv
    <3> QED
      BY <3>1, <3>2
  <2> QED
    BY <1>1, <1>2, <2>1, <2>2 DEF LInv, LiveInv, TurnInv, OrderInv
<1> QED
  BY <1>3, <1>4, <1>5, FireOrder DEF Process

\* Time passes while no entry is at the end of the window.
LEMMA TimeOrder ==
  ASSUME ShortIntervals, LInv, TimePasses, \A k \in DOMAIN timer : 0 < Ahead(timer[k].t)
  PROVE  /\ LInv'
         /\ \A k \in DOMAIN timer : Ahead(timer[k].t)' = Ahead(timer[k].t) - 1
<1>0. /\ timer \in Seq(Live) /\ clock \in Time /\ idle \in Nat /\ proc.now \in Time
      /\ clock' = Plus(clock, 1) /\ idle' = idle + 1 /\ UNCHANGED <<timer, proc>>
      /\ Len(timer) \in Nat /\ DOMAIN timer = 1 .. Len(timer)
  BY DEF LInv, LiveInv, TInv, TypeOK, TimePasses
<1>1. TInv'
  BY NextTInv DEF LInv, Next
<1>2. ASSUME NEW k \in 1 .. Len(timer)
      PROVE  /\ Ahead(timer[k].t)' = Ahead(timer[k].t) - 1
             /\ timer[k] \in Live'
  <2>1. timer[k] \in Live
    BY <1>0
  <2>2. timer[k].t \in Time /\ Ahead(timer[k].t) < Quarter /\ timer[k] \in Entry
    BY <2>1 DEF Live, Entry
  <2>3. AheadAt(timer[k].t, clock') = AheadAt(timer[k].t, clock) - 1
    BY <1>0, <2>2, PassFactsOfTime DEF Ahead
  <2>4. AheadAt(timer[k].t, clock) \in Int
    BY <1>0, <2>2, AheadWraps DEF Wraps
  <2>5. Ahead(timer[k].t)' = AheadAt(timer[k].t, clock')
    BY <1>0 DEF Ahead
  <2>6. AheadAt(timer[k].t, clock') < Quarter
    BY <2>2, <2>3, <2>4, Constants DEF Ahead
  <2> QED
    BY <2>2, <2>3, <2>5, <2>6 DEF Live, Ahead
<1>3. timer \in Seq(Live')
  <2> DEFINE S == Live'
  <2>1. \A k \in 1 .. Len(timer) : timer[k] \in S
    BY <1>2
  <2> HIDE DEF S
  <2>2. timer \in Seq(S)
    BY <1>0, <2>1
  <2> QED
    BY <2>2 DEF S
<1>4. TurnInv'
  <2>1. SUFFICES ASSUME proc.on
                 PROVE  /\ Minus(Plus(clock, 1), proc.now) <= idle + 1
                        /\ Minus(Plus(clock, 1), proc.now) <= MaxGap
    BY <1>0 DEF TurnInv
  <2> DEFINE c == Plus(clock, 1)
             d == Minus(clock, proc.now)
             n == Minus(c, proc.now)
  <2>2. idle < MaxGap /\ d <= idle
    BY <2>1 DEF TimePasses, Asleep, LInv, TurnInv
  <2>3. Wraps(c, clock + 1) /\ Wraps(d, clock - proc.now) /\ c \in Time
    <3>1. 1 \in Int /\ 0 <= 1 /\ 1 < Wrap
      BY Constants
    <3>2. Wraps(c, clock + 1)
      BY <1>0, <3>1, PlusWraps
    <3>3. c \in Time
      BY <1>0, TimeBounds, ClockFacts
    <3> QED
      BY <1>0, <3>2, <3>3, MinusWraps
  <2> HIDE DEF c
  <2>4. Wraps(n, c - proc.now)
    BY <1>0, <2>3, MinusWraps
  <2> HIDE DEF d, n
  <2>5. n <= idle + 1 /\ n <= MaxGap
    <3> DEFINE u == proc.now
    <3>1. u \in Time /\ Wraps(d, clock - u) /\ Wraps(n, c - u) /\ idle \in Int
      BY <1>0, <2>3, <2>4
    <3> HIDE DEF u
    <3>2. d < Quarter
      BY <2>2, <3>1, Constants DEF Wraps
    <3>3. /\ u \in Int /\ 0 <= u /\ u < Wrap
          /\ clock \in Int /\ 0 <= clock /\ clock < Wrap
      BY <1>0, <3>1, TimeBounds
    <3>4. n = d + 1
      BY <2>3, <3>1, <3>2, <3>3, Constants DEF Wraps
    <3> QED
      BY <2>2, <3>1, <3>4, Constants DEF Wraps
  <2> QED
    BY <2>5 DEF n, c
<1>5. OrderInv'
  BY <1>0 DEF LInv, OrderInv
<1> QED
  BY <1>0, <1>1, <1>2, <1>3, <1>4, <1>5 DEF LInv, LiveInv

\* An entry is missed when it is neither ahead nor in the window.
LEMMA MissedFacts ==
  ASSUME ShortIntervals, NEW t \in Time, NEW now \in Time
  PROVE  (Minus(t, now) < Quarter \/ Expired(t, now)) <=> AheadAt(t, now) < Late + Quarter
<1> DEFINE a == AheadAt(t, now)
           m == Minus(t, now)
<1>1. Wraps(a, t + Late - now) /\ Wraps(m, t - now)
  BY AheadWraps, MinusWraps
<1>2. Expired(t, now) <=> a <= Late + SafePre
  BY ExpiredFacts
<1> HIDE DEF a, m
<1>3. m < Quarter \/ a <= Late + SafePre <=> a < Late + Quarter
  BY <1>1, TimeBounds, Constants DEF Wraps
<1> QED
  BY <1>2, <1>3 DEF a, m

LEMMA EndFacts ==
  ASSUME ShortIntervals, NEW t \in Time, NEW now \in Time,
         AheadAt(t, Plus(now, 1)) < Late + Quarter
  PROVE  0 < AheadAt(t, now)
<1> DEFINE a == AheadAt(t, now)
           n == Plus(now, 1)
           b == AheadAt(t, n)
<1>1. Wraps(a, t + Late - now) /\ n \in Time /\ b < Late + Quarter
  BY AheadWraps, ClockFacts, TimeBounds
<1>2. Wraps(n, now + 1)
  BY PlusWraps, Constants
<1> HIDE DEF n
<1>3. Wraps(b, t + Late - n)
  BY <1>1, AheadWraps
<1> HIDE DEF a, b
<1>4. 0 < a
  BY <1>1, <1>2, <1>3, TimeBounds, Constants DEF Wraps
<1> QED
  BY <1>4 DEF a

LEMMA NextLInv ==
  ASSUME ShortIntervals, LInv, [Next]_vars, NoneMissed'
  PROVE  LInv'
<1>1. CASE TimePasses
  <2>1. ASSUME NEW k \in DOMAIN timer
        PROVE  0 < Ahead(timer[k].t)
    <3>1. timer[k].t \in Time /\ clock \in Time /\ Plus(clock, 1) \in Time
      <4>1. clock \in Time /\ timer \in Seq(Entry)
        BY DEF LInv, TInv, TypeOK
      <4>2. timer[k] \in Entry
        BY <4>1
      <4> QED
        BY <4>1, <4>2, ClockFacts, TimeBounds DEF Entry
    <3>2. Minus(timer[k].t, Plus(clock, 1)) < Quarter \/ Expired(timer[k].t, Plus(clock, 1))
      BY <1>1 DEF NoneMissed, TimePasses
    <3>3. AheadAt(timer[k].t, Plus(clock, 1)) < Late + Quarter
      BY <3>1, <3>2, MissedFacts
    <3> QED
      BY <3>1, <3>3, EndFacts DEF Ahead
  <2> QED
    BY <1>1, <2>1, TimeOrder
<1>2. CASE UNCHANGED vars
  BY <1>2, NextTInv DEF vars, LInv, LiveInv, Live, Ahead, TurnInv, OrderInv
<1> QED
  BY <1>1, <1>2, AddOrder, DeleteOrder, ProcessOrder DEF Next

\* While no entry has been missed the table is in order between two calls,
\* across the wrap of the clock and whatever the callbacks call: the sort only
\* runs after an addition and a loop that rearmed (blt_soft_timer.c 97, 234).
THEOREM OrderKept == ASSUME ShortIntervals PROVE Spec /\ []NoneMissed => []Ordered
<1>1. Init => LInv
  BY InitLInv
<1>2. LInv /\ [Next]_vars /\ NoneMissed' => LInv'
  BY NextLInv
<1>3. LInv => Ordered
  <2> SUFFICES ASSUME LInv PROVE Ordered
    OBVIOUS
  <2>1. TypeOK /\ Len(timer) \in Nat
    BY DEF LInv, TInv, TypeOK
  <2>2. ASSUME ~proc.on, NEW i \in 1 .. (Len(timer) - 1)
        PROVE  TIME_COMPARE_BIG(timer[i + 1].t, timer[i].t)
    <3>1. i \in 1 .. Len(timer) /\ i + 1 \in 1 .. Len(timer) /\ i < i + 1
      BY <2>1
    <3> QED
      BY <2>2, <3>1 DEF LInv, OrderInv, Sorted, Before
  <2> QED
    BY <2>1, <2>2 DEF Ordered
<1> QED
  BY <1>1, <1>2, <1>3, PTL DEF Spec

-----------------------------------------------------------------------------
(***************************************************************************)
(* Callbacks that call neither blt_soft_timer_add nor _delete.             *)
(***************************************************************************)
LEMMA FireAlone ==
  ASSUME TypeOK, CallbackOps = {}, ProcessFire
  PROVE  /\ proc.i \in 1 .. Len(timer) /\ proc.on /\ UNCHANGED <<clock, wakeup, idle>>
         /\ proc'.on /\ proc'.now = proc.now /\ proc'.i = proc.i + 1
         /\ \/ "stop" \in Results /\ timer' = RemoveAt(timer, proc.i)
            \/ \E x \in Interval : timer' = Rearm(timer, proc.i, x)
<1>0. /\ timer \in Seq(Entry) /\ Len(timer) \in Nat /\ proc.on
      /\ proc \in [on : BOOLEAN, now : Time, i : 1 .. (MAX_TIMER_NUM + 1), change_flg : BOOLEAN]
      /\ MAX_TIMER_NUM \in Nat /\ proc.i <= Len(timer)
  BY TimerAssumption DEF TypeOK, ProcessFire, Runs
<1>1. proc.i \in 1 .. Len(timer)
  BY <1>0
<1>2. CallbackEffects = {[tab |-> timer, wakeup |-> wakeup]}
  BY DEF CallbackEffects
<1>3. /\ UNCHANGED <<clock, wakeup, idle>>
      /\ \/ /\ "stop" \in Results
            /\ timer' = Stop(timer, proc.i)
            /\ proc' = [proc EXCEPT !.i = proc.i + 1]
         \/ /\ timer' = IF proc.i <= Len(timer)
                          THEN Rearm(timer, proc.i, timer[proc.i].interval) ELSE timer
            /\ proc' = [proc EXCEPT !.i = proc.i + 1, !.change_flg = TRUE]
         \/ /\ \E interval \in Interval : timer' = Rearm(timer, proc.i, interval)
            /\ proc' = [proc EXCEPT !.i = proc.i + 1, !.change_flg = TRUE]
  BY <1>2 DEF ProcessFire
<1>4. timer[proc.i].interval \in Interval
  <2>1. timer[proc.i] \in Entry
    BY <1>0, <1>1
  <2> QED
    BY <2>1 DEF Entry
<1>5. proc'.on /\ proc'.now = proc.now /\ proc'.i = proc.i + 1
  BY <1>0, <1>3
<1> QED
  BY <1>0, <1>1, <1>3, <1>4, <1>5 DEF Stop

-----------------------------------------------------------------------------
(***************************************************************************)
(* Callbacks that only rearm their timer.  Then the loop passes over no    *)
(* entry: those behind proc.i are set anew or were not expired, and those  *)
(* from proc.i on are still in order.                                      *)
(***************************************************************************)
OnlyRearm == CallbackOps = {} /\ "stop" \notin Results

LongEnough == \A x \in Interval : SafePre <= x

LoopInv ==
  proc.on =>
    /\ \A j, k \in 1 .. Len(timer) : proc.i <= j /\ j < k => Before(timer[j], timer[k])
    /\ \A k \in 1 .. Len(timer) : k < proc.i =>
         /\ Late <= AheadAt(timer[k].t, proc.now)
         /\ LongEnough => Late + SafePre <= AheadAt(timer[k].t, proc.now)

\* The entry of a callback that has run, seen from the loop's now.
LEMMA SetLive ==
  ASSUME ShortIntervals, LInv, proc.on, NEW x \in Interval
  PROVE  /\ Plus(proc.now, x) \in Time
         /\ AheadAt(Plus(proc.now, x), proc.now) = x + Late
         /\ Ahead(Plus(proc.now, x)) < Quarter
         /\ Late <= Ahead(Plus(proc.now, x)) + MaxGap
<1> DEFINE t == Plus(proc.now, x)
           d == Minus(clock, proc.now)
           a == AheadAt(t, clock)
           b == AheadAt(t, proc.now)
<1>1. clock \in Time /\ proc.now \in Time /\ d <= MaxGap
  BY DEF LInv, TInv, TypeOK, TurnInv
<1>2. t \in Time /\ a = x + Late - d /\ a < Quarter
  BY <1>1, SetFacts
<1>3. b = a + d
  BY <1>1, <1>2, SeenFacts
<1>4. d \in Int
  BY <1>1, MinusWraps DEF Wraps
<1>5. Ahead(t) = a
  BY DEF Ahead
<1> HIDE DEF t, a, b, d
<1>6. x \in Int /\ 0 <= x /\ Late \in Int /\ MaxGap \in Int
  BY Constants
<1>7. b = x + Late
  BY <1>2, <1>3, <1>4, <1>6
<1>8. Late <= a + MaxGap
  BY <1>1, <1>2, <1>4, <1>6
<1>9. /\ t \in Time /\ b = x + Late
      /\ Ahead(t) < Quarter /\ Late <= Ahead(t) + MaxGap
  BY <1>2, <1>5, <1>7, <1>8
<1> QED
  BY <1>9 DEF t, b

LEMMA RearmAlone ==
  ASSUME TypeOK, OnlyRearm, ProcessFire
  PROVE  \E x \in Interval :
           /\ timer' \in Seq(Entry) /\ Len(timer') = Len(timer)
           /\ timer'[proc.i].t = Plus(proc.now, x)
           /\ \A k \in 1 .. Len(timer) : k # proc.i => timer'[k] = timer[k]
<1>1. /\ proc.i \in 1 .. Len(timer) /\ timer \in Seq(Entry) /\ Len(timer) \in Nat
      /\ proc.now \in Time
  BY FireAlone DEF OnlyRearm, TypeOK
<1>2. PICK x \in Interval : timer' = Rearm(timer, proc.i, x)
  BY FireAlone DEF OnlyRearm
<1>3. HoldsLater(Entry, x)
  <2>1. Plus(proc.now, x) \in Time
    <3>1. proc.now \in Int /\ x \in Int
      BY <1>1, TimeBounds, TimerAssumption
    <3> QED
      BY <3>1, ClockFacts
  <2> QED
    BY <2>1 DEF HoldsLater, Later, Entry
<1> DEFINE i == proc.i
<1>4. i \in Nat \ {0} /\ i \in 1 .. Len(timer)
  BY <1>1
<1> HIDE DEF i
<1>5. /\ Rearm(timer, i, x) \in Seq(Entry) /\ Len(Rearm(timer, i, x)) = Len(timer)
      /\ \A k \in 1 .. Len(timer) :
           Rearm(timer, i, x)[k] = IF k = i THEN Later(timer[i], x) ELSE timer[k]
  BY <1>1, <1>3, <1>4, RearmFacts
<1>6. Later(timer[i], x).t = Plus(proc.now, x)
  <2>1. timer[i] \in Entry
    BY <1>1, <1>4
  <2> QED
    BY <2>1 DEF Later, Entry
<1> QED
  BY <1>2, <1>4, <1>5, <1>6 DEF i

LEMMA FireLoop ==
  ASSUME ShortIntervals, OnlyRearm, LInv, LoopInv, ProcessFire
  PROVE  LoopInv'
<1>1. PICK x \in Interval :
        /\ Len(timer') = Len(timer)
        /\ timer'[proc.i].t = Plus(proc.now, x)
        /\ \A k \in 1 .. Len(timer) : k # proc.i => timer'[k] = timer[k]
  BY RearmAlone DEF LInv, TInv
<1>2. /\ proc.i \in 1 .. Len(timer) /\ Len(timer) \in Nat /\ proc.on
      /\ proc'.on /\ proc'.now = proc.now /\ proc'.i = proc.i + 1
  BY FireAlone DEF OnlyRearm, LInv, TInv, TypeOK
<1>3. AheadAt(Plus(proc.now, x), proc.now) = x + Late /\ x \in Int /\ 0 <= x
  BY <1>2, SetLive, Constants
<1>4. ASSUME NEW j \in 1 .. Len(timer), NEW k \in 1 .. Len(timer), proc.i + 1 <= j, j < k
      PROVE  Before(timer'[j], timer'[k])
  <2>1. proc.i <= j /\ j # proc.i /\ k # proc.i
    BY <1>2, <1>4
  <2>2. timer'[j] = timer[j] /\ timer'[k] = timer[k]
    BY <1>1, <2>1
  <2> QED
    BY <1>2, <1>4, <2>1, <2>2 DEF LoopInv
<1>5. ASSUME NEW k \in 1 .. Len(timer), k < proc.i + 1
      PROVE  /\ Late <= AheadAt(timer'[k].t, proc.now)
             /\ LongEnough => Late + SafePre <= AheadAt(timer'[k].t, proc.now)
  <2>1. CASE k = proc.i
    <3>1. AheadAt(timer'[k].t, proc.now) = x + Late
      BY <1>1, <1>3, <2>1
    <3>2. Late <= x + Late /\ (LongEnough => Late + SafePre <= x + Late)
      BY <1>3, Constants, SMTT(40) DEF LongEnough
    <3> QED
      BY <3>1, <3>2
  <2>2. CASE k # proc.i
    <3>1. k < proc.i /\ timer'[k] = timer[k]
      BY <1>1, <1>2, <1>5, <2>2
    <3> QED
      BY <1>2, <3>1 DEF LoopInv
  <2> QED
    BY <2>1, <2>2
<1> QED
  BY <1>1, <1>2, <1>4, <1>5 DEF LoopInv

LEMMA NextLoop ==
  ASSUME ShortIntervals, OnlyRearm, LInv, LoopInv, [Next]_vars
  PROVE  LoopInv'
<1>0. /\ timer \in Seq(Entry) /\ Len(timer) \in Nat
      /\ proc \in [on : BOOLEAN, now : Time, i : 1 .. (MAX_TIMER_NUM + 1), change_flg : BOOLEAN]
      /\ proc.i \in Nat /\ MAX_TIMER_NUM \in Nat
  BY TimerAssumption DEF LInv, TInv, TypeOK
<1>1. CASE ~proc'.on
  BY <1>1 DEF LoopInv
<1>2. CASE UNCHANGED <<timer, proc>>
  BY <1>2 DEF LoopInv
<1>3. CASE ProcessStart /\ proc'.on
  <2>1. /\ UNCHANGED timer /\ ~proc.on
        /\ proc' = [NotRunning EXCEPT !.on = TRUE, !.now = clock]
    BY <1>3 DEF ProcessStart
  <2>2. proc'.i = 1
    BY <2>1 DEF NotRunning
  <2>3. Sorted(timer)
    BY <2>1 DEF LInv, OrderInv
  <2>4. \A k \in 1 .. Len(timer) : ~(k < 1)
    BY <1>0
  <2> QED
    BY <2>1, <2>2, <2>3, <2>4 DEF LoopInv, Sorted
<1>4. CASE ProcessSkip
  <2>1. /\ proc.on /\ proc'.now = proc.now /\ proc'.i = proc.i + 1 /\ UNCHANGED timer
        /\ ~Expired(timer[proc.i].t, proc.now) /\ proc.i \in 1 .. Len(timer)
    BY <1>0, <1>4 DEF ProcessSkip
  <2>2. timer[proc.i].t \in Time /\ proc.now \in Time
    <3>1. timer[proc.i] \in Entry
      BY <1>0, <2>1
    <3> QED
      BY <1>0, <3>1 DEF Entry
  <2>3. ~(AheadAt(timer[proc.i].t, proc.now) <= Late + SafePre)
    BY <2>1, <2>2, ExpiredFacts
  <2>4. AheadAt(timer[proc.i].t, proc.now) \in Int
    BY <2>2, AheadWraps DEF Wraps
  <2>5. /\ Late <= AheadAt(timer[proc.i].t, proc.now)
        /\ Late + SafePre <= AheadAt(timer[proc.i].t, proc.now)
    BY <2>3, <2>4, Constants
  <2>6. \A k \in 1 .. Len(timer) : k < proc.i + 1 => k < proc.i \/ k = proc.i
    BY <1>0
  <2>7. \A j \in 1 .. Len(timer) : proc.i + 1 <= j => proc.i <= j
    BY <1>0
  <2> QED
    BY <2>1, <2>5, <2>6, <2>7 DEF LoopInv
<1>5. CASE ProcessDone
  BY <1>5 DEF ProcessDone, NotRunning, LoopInv
<1>6. ASSUME NEW cb \in Callback, NEW x \in Interval, blt_soft_timer_add(cb, x)
      PROVE  LoopInv'
  BY <1>6 DEF blt_soft_timer_add, LoopInv
<1>7. ASSUME NEW cb \in Callback, blt_soft_timer_delete(cb)
      PROVE  LoopInv'
  BY <1>7 DEF blt_soft_timer_delete, LoopInv
<1> QED
  BY <1>1, <1>2, <1>3, <1>4, <1>5, <1>6, <1>7, FireLoop DEF Next, Process, TimePasses, vars

\* Where callbacks only rearm and no interval is shorter than the margin before
\* expiry, a callback never runs while an entry that was due before it still
\* waits: nothing the loop of blt_soft_timer.c 206-230 has passed is expired.
THEOREM ServedInTurn ==
  ASSUME ShortIntervals, OnlyRearm, LongEnough
  PROVE  Spec /\ []NoneMissed => InTurn
<1>1. Init => LInv /\ LoopInv
  BY InitLInv DEF Init, NotRunning, LoopInv
<1>2. LInv /\ LoopInv /\ [Next]_vars /\ NoneMissed' => LInv' /\ LoopInv'
  BY NextLInv, NextLoop
<1>3. ASSUME LInv, LoopInv, ProcessFire, NEW k \in DOMAIN timer, Expired(timer[k].t, proc.now)
      PROVE  TIME_COMPARE_BIG(timer[k].t, timer[proc.i].t)
  <2> DEFINE i == proc.i
             u == timer[k].t
             v == timer[i].t
  <2>0. /\ timer \in Seq(Entry) /\ i \in 1 .. Len(timer) /\ k \in 1 .. Len(timer)
        /\ Len(timer) \in Nat /\ proc.now \in Time /\ proc.on /\ Expired(v, proc.now)
    BY <1>3, FireAlone DEF LInv, TInv, TypeOK, OnlyRearm, ProcessFire, Runs
  <2>1. u \in Time /\ v \in Time
    <3>1. timer[k] \in Entry /\ timer[i] \in Entry
      BY <2>0
    <3> QED
      BY <3>1 DEF Entry
  <2>2. AheadAt(u, proc.now) <= Late + SafePre /\ AheadAt(v, proc.now) <= Late + SafePre
    BY <1>3, <2>0, <2>1, ExpiredFacts
  <2>3. AheadAt(u, proc.now) \in Int /\ AheadAt(v, proc.now) \in Int
    BY <2>0, <2>1, AheadWraps DEF Wraps
  <2>4. AheadAt(u, proc.now) < Quarter /\ AheadAt(v, proc.now) < Quarter
    BY <2>2, <2>3, Constants
  <2>5. TIME_COMPARE_BIG(u, v) <=> AheadAt(v, proc.now) <= AheadAt(u, proc.now)
    BY <2>0, <2>1, <2>4, CompareFacts
  <2>6. CASE k < i
    <3>1. Late + SafePre <= AheadAt(u, proc.now)
      BY <1>3, <2>0, <2>6 DEF LoopInv
    <3>2. AheadAt(v, proc.now) <= AheadAt(u, proc.now)
      BY <2>2, <2>3, <3>1, Constants
    <3> QED
      BY <2>5, <3>2
  <2>7. CASE k = i
    BY <2>3, <2>5, <2>7
  <2>8. CASE i < k
    BY <1>3, <2>0, <2>8 DEF LoopInv, Before
  <2> QED
    BY <2>0, <2>6, <2>7, <2>8
<1>4. LInv /\ LoopInv =>
        [Runs /\ ProcessFire =>
           \A k \in DOMAIN timer :
             Expired(timer[k].t, proc.now)
               => TIME_COMPARE_BIG(timer[k].t, timer[proc.i].t)]_vars
  BY <1>3
<1> QED
  BY <1>1, <1>2, <1>4, PTL DEF Spec, InTurn

-----------------------------------------------------------------------------
(***************************************************************************)
(* Nothing is missed.  An entry is at most MaxGap behind the clock when a  *)
(* call of blt_soft_timer_process has nothing more to run, and falls back  *)
(* with idle from there.  Two turns of the main loop fit in the window; a  *)
(* sleep fits too, or it ends at the first entry: the wake-up time is set  *)
(* whenever there is one, for no interval is longer than Near and nothing  *)
(* but the loop takes an entry away.                                       *)
(***************************************************************************)
ShortSleep == MaxGap + MaxSleep <= Late

InTime ==
  /\ MaxGap + MaxGap <= Late
  /\ ShortSleep \/ ("delete" \notin MainOps /\ \A x \in Interval : x < Near)

\* How far the entries may have come since then.
Slack == IF ShortSleep \/ idle <= MaxGap THEN idle ELSE MaxGap

\* What the running loop, or the main loop, takes for the time.
Ref == IF proc.on THEN proc.now ELSE clock

Held ==
  {e \in Live : /\ Late <= Ahead(e.t) + MaxGap + Slack
                /\ ShortSleep \/ AheadAt(e.t, Ref) < Late + Near}

WaitInv ==
  /\ ShortSleep \/ (~proc.on /\ timer # <<>> => wakeup.on)
  /\ idle <= MaxGap \/ idle <= MaxSleep

WInv == LInv /\ LoopInv /\ timer \in Seq(Held) /\ WaitInv

LEMMA WaitConstants ==
  ASSUME ShortIntervals, InTime
  PROVE  /\ MaxSleep \in Int /\ 0 <= MaxSleep /\ Near \in Int
         /\ MaxGap + MaxGap <= Late
         /\ ShortSleep => MaxGap + MaxSleep <= Late
         /\ ~ShortSleep => "delete" \notin MainOps /\ \A x \in Interval : x < Near
BY TimerAssumption DEF InTime, ShortSleep

LEMMA HeldFacts ==
  ASSUME ShortIntervals, LInv, NEW e \in Held
  PROVE  /\ e \in Entry /\ e.t \in Time /\ clock \in Time /\ proc.now \in Time
         /\ Ahead(e.t) \in Int /\ 0 <= Ahead(e.t) /\ Ahead(e.t) < Quarter
         /\ AheadAt(e.t, proc.now) \in Int
         /\ Late <= Ahead(e.t) + MaxGap + Slack
         /\ ShortSleep \/ AheadAt(e.t, Ref) < Late + Near
         /\ idle \in Int /\ 0 <= idle /\ Slack \in Int
<1>1. e \in Entry /\ e.t \in Time /\ clock \in Time /\ proc.now \in Time /\ idle \in Nat
  BY DEF Held, Live, Entry, LInv, TInv, TypeOK
<1>2. /\ AheadAt(e.t, clock) \in Int /\ 0 <= AheadAt(e.t, clock)
      /\ AheadAt(e.t, proc.now) \in Int
  BY <1>1, AheadWraps DEF Wraps
<1>3. Slack \in Int
  BY <1>1, Constants DEF Slack
<1> QED
  BY <1>1, <1>2, <1>3 DEF Held, Live, Ahead

\* An entry added, and one rearmed.
LEMMA HoldsAdded ==
  ASSUME ShortIntervals, InTime, LInv, ~proc.on, NEW cb \in Callback, NEW x \in Interval
  PROVE  [cb |-> cb, t |-> Plus(clock, x), interval |-> x] \in Held
<1> DEFINE t == Plus(clock, x)
           a == AheadAt(t, clock)
<1>1. clock \in Time /\ idle \in Nat
  BY DEF LInv, TInv, TypeOK
<1>2. Minus(clock, clock) = 0
  <2> DEFINE d == Minus(clock, clock)
  <2>1. Wraps(d, clock - clock) /\ clock - clock = 0
    BY <1>1, MinusWraps, TimeBounds
  <2> HIDE DEF d
  <2>2. d = 0
    BY <2>1, Constants DEF Wraps
  <2> QED
    BY <2>2 DEF d
<1>3. a = x + Late
  BY <1>1, <1>2, SetFacts, Constants
<1>4. [cb |-> cb, t |-> t, interval |-> x] \in Live
  BY AddLive DEF LInv
<1>5. Slack \in Int /\ 0 <= Slack
  BY <1>1, Constants DEF Slack
<1>6. a = Ahead(t) /\ a = AheadAt(t, Ref)
  BY DEF Ahead, Ref
<1> HIDE DEF a, t
<1>7. Late <= a + MaxGap + Slack /\ (ShortSleep \/ a < Late + Near)
  BY <1>3, <1>5, Constants, WaitConstants
<1>8. [cb |-> cb, t |-> t, interval |-> x] \in Held
  BY <1>4, <1>6, <1>7 DEF Held
<1> QED
  BY <1>8 DEF t

LEMMA HoldsRearmed ==
  ASSUME ShortIntervals, InTime, LInv, proc.on, NEW e \in Entry, NEW x \in Interval,
         e.t = Plus(proc.now, x)
  PROVE  e \in Held
<1>1. /\ AheadAt(e.t, proc.now) = x + Late /\ Ahead(e.t) < Quarter
      /\ Late <= Ahead(e.t) + MaxGap
  BY SetLive
<1>2. clock \in Time /\ idle \in Nat /\ e.t \in Time
  BY DEF LInv, TInv, TypeOK, Entry
<1>3. Slack \in Int /\ 0 <= Slack
  BY <1>2, Constants DEF Slack
<1>4. Ahead(e.t) \in Int
  BY <1>2, AheadWraps DEF Ahead, Wraps
<1>5. Late <= Ahead(e.t) + MaxGap + Slack
  BY <1>1, <1>3, <1>4, Constants
<1>6. ShortSleep \/ AheadAt(e.t, Ref) < Late + Near
  BY <1>1, Constants, WaitConstants DEF Ref
<1> QED
  BY <1>1, <1>5, <1>6 DEF Held, Live

\* Live entries of a sorted table are no earlier than the first.
LEMMA FirstFacts ==
  ASSUME ShortIntervals, LInv, Sorted(timer), NEW k \in 1 .. Len(timer)
  PROVE  /\ timer[1].t \in Time /\ timer[k].t \in Time
         /\ Ahead(timer[1].t) \in Int /\ 0 <= Ahead(timer[1].t) /\ Ahead(timer[1].t) < Quarter
         /\ Ahead(timer[k].t) \in Int /\ Ahead(timer[1].t) <= Ahead(timer[k].t)
<1>1. /\ timer \in Seq(Live) /\ Len(timer) \in Nat /\ clock \in Time
  BY DEF LInv, LiveInv, TInv, TypeOK
<1>2. timer[1] \in Live /\ timer[k] \in Live /\ 1 \in 1 .. Len(timer)
  BY <1>1
<1>3. /\ timer[1].t \in Time /\ Ahead(timer[1].t) < Quarter
      /\ timer[k].t \in Time /\ Ahead(timer[k].t) < Quarter
  BY <1>2 DEF Live, Entry
<1>4. /\ Ahead(timer[1].t) \in Int /\ 0 <= Ahead(timer[1].t)
      /\ Ahead(timer[k].t) \in Int
  BY <1>1, <1>3, AheadWraps DEF Ahead, Wraps
<1>5. Ahead(timer[1].t) <= Ahead(timer[k].t)
  <2>1. CASE k = 1
    BY <1>4, <2>1
  <2>2. CASE k # 1
    <3>1. Before(timer[1], timer[k])
      BY <1>1, <1>2, <2>2 DEF Sorted
    <3> QED
      BY <1>1, <1>3, <3>1, CompareFacts DEF Before, Ahead
  <2> QED
    BY <2>1, <2>2
<1> QED
  BY <1>3, <1>4, <1>5

\* Where the clock, idle and the loop's now stand still, so does Held.
LEMMA HeldStays ==
  ASSUME UNCHANGED <<clock, idle>>, Ref' = Ref
  PROVE  Held' = Held
BY DEF Held, Live, Ahead, Slack

LEMMA AddHeld ==
  ASSUME ShortIntervals, InTime, WInv, NEW cb \in Callback, NEW x \in Interval,
         blt_soft_timer_add(cb, x)
  PROVE  timer' \in Seq(Held') /\ WaitInv'
<1>1. /\ ~proc.on /\ UNCHANGED <<clock, proc, idle>> /\ timer' = Added(timer, cb, x)
      /\ wakeup' = Armed(timer'[1].t)
  BY DEF blt_soft_timer_add
<1>2. timer \in Seq(Held) /\ [cb |-> cb, t |-> Plus(clock, x), interval |-> x] \in Held
  BY <1>1, HoldsAdded DEF WInv
<1>3. timer' \in Seq(Held)
  BY <1>1, <1>2, AddedFacts
<1>4. Held' = Held
  BY <1>1, HeldStays DEF Ref
<1>5. WaitInv'
  BY <1>1 DEF WInv, WaitInv, Armed
<1> QED
  BY <1>3, <1>4, <1>5

LEMMA DeleteHeld ==
  ASSUME ShortIntervals, InTime, WInv, NEW cb \in Callback, blt_soft_timer_delete(cb)
  PROVE  timer' \in Seq(Held') /\ WaitInv'
<1> DEFINE i == IndexOf(timer, cb)
<1>1. /\ ~proc.on /\ UNCHANGED <<clock, proc, idle>> /\ timer' = RemoveAt(timer, i)
      /\ i # 0 /\ "delete" \in MainOps
  BY DEF blt_soft_timer_delete
<1>2. timer \in Seq(Held)
  BY DEF WInv
<1>3. i \in 1 .. Len(timer)
  BY <1>1, <1>2, IndexFacts
<1> HIDE DEF i
<1>4. timer' \in Seq(Held)
  BY <1>1, <1>2, <1>3, RemoveFacts
<1>5. Held' = Held
  BY <1>1, HeldStays DEF Ref
<1>6. WaitInv'
  BY <1>1, WaitConstants DEF WInv, WaitInv, ShortSleep
<1> QED
  BY <1>4, <1>5, <1>6

LEMMA StartHeld ==
  ASSUME ShortIntervals, InTime, WInv, ProcessStart
  PROVE  timer' \in Seq(Held') /\ WaitInv'
<1>0. /\ ~proc.on /\ UNCHANGED <<clock, timer>> /\ timer \in Seq(Held) /\ LInv
      /\ Sorted(timer) /\ Len(timer) \in Nat
  BY DEF WInv, LInv, OrderInv, ProcessStart
<1>1. CASE timer = <<>> /\ idle' = 0 /\ wakeup' = Off /\ UNCHANGED proc
  BY <1>0, <1>1, Constants DEF WaitInv, ShortSleep
<1>2. CASE timer # <<>> /\ ~Expired(timer[1].t, clock) /\ idle' = 0 /\ UNCHANGED <<wakeup, proc>>
  <2>1. ASSUME NEW k \in 1 .. Len(timer)
        PROVE  timer[k] \in Held'
    <3>1. timer[k] \in Held
      BY <1>0
    <3>2. /\ timer[1].t \in Time /\ Ahead(timer[1].t) \in Int
          /\ Ahead(timer[k].t) \in Int /\ Ahead(timer[1].t) <= Ahead(timer[k].t)
      BY <1>0, FirstFacts
    <3>3. ~(Ahead(timer[1].t) <= Late + SafePre)
      BY <1>0, <1>2, <3>1, <3>2, HeldFacts, ExpiredFacts DEF Ahead
    <3>4. Late <= Ahead(timer[k].t) + MaxGap + 0
      BY <3>2, <3>3, Constants, SMTT(40)
    <3>5. Slack' = 0
      BY <1>2, Constants DEF Slack, ShortSleep
    <3>6. Live' = Live /\ Ref' = Ref /\ Ahead(timer[k].t)' = Ahead(timer[k].t)
      BY <1>0, <1>2 DEF Live, Ahead, Ref
    <3> QED
      BY <1>0, <3>1, <3>4, <3>5, <3>6 DEF Held, Ahead, ShortSleep
  <2>2. timer \in Seq(Held')
    <3> DEFINE S == Held'
    <3>1. \A k \in 1 .. Len(timer) : timer[k] \in S
      BY <2>1
    <3> HIDE DEF S
    <3>2. timer \in Seq(S)
      BY <1>0, <3>1
    <3> QED
      BY <3>2 DEF S
  <2>3. WaitInv'
    BY <1>0, <1>2, Constants DEF WInv, WaitInv, ShortSleep
  <2> QED
    BY <1>0, <2>2, <2>3
<1>3. CASE proc' = [NotRunning EXCEPT !.on = TRUE, !.now = clock] /\ UNCHANGED <<wakeup, idle>>
  <2>1. proc'.on /\ proc'.now = clock
    BY <1>3 DEF NotRunning
  <2>2. Held' = Held
    BY <1>0, <1>3, <2>1, HeldStays DEF Ref
  <2>3. WaitInv'
    BY <1>3, <2>1 DEF WInv, WaitInv, ShortSleep
  <2> QED
    BY <1>0, <2>2, <2>3
<1> QED
  BY <1>0, <1>1, <1>2, <1>3 DEF ProcessStart

LEMMA FireHeld ==
  ASSUME ShortIntervals, InTime, OnlyRearm, WInv, ProcessFire
  PROVE  timer' \in Seq(Held') /\ WaitInv'
<1>0. /\ proc.i \in 1 .. Len(timer) /\ proc.on /\ proc'.on /\ proc'.now = proc.now
      /\ UNCHANGED <<clock, wakeup, idle>>
      /\ timer \in Seq(Held) /\ LInv /\ TypeOK /\ Len(timer) \in Nat
  BY FireAlone DEF OnlyRearm, WInv, LInv, TInv, TypeOK
<1>1. PICK x \in Interval :
           /\ timer' \in Seq(Entry) /\ Len(timer') = Len(timer)
           /\ timer'[proc.i].t = Plus(proc.now, x)
           /\ \A k \in 1 .. Len(timer) : k # proc.i => timer'[k] = timer[k]
  BY <1>0, RearmAlone
<1>2. ASSUME NEW k \in 1 .. Len(timer') PROVE timer'[k] \in Held
  <2>1. CASE k = proc.i
    <3>1. timer'[k] \in Entry
      BY <1>1
    <3> QED
      BY <1>0, <1>1, <2>1, <3>1, HoldsRearmed
  <2>2. CASE k # proc.i
    BY <1>0, <1>1, <2>2
  <2> QED
    BY <2>1, <2>2
<1>3. timer' \in Seq(Held)
  BY <1>1, <1>2
<1>4. Held' = Held
  BY <1>0, HeldStays DEF Ref
<1>5. WaitInv'
  BY <1>0 DEF WInv, WaitInv, ShortSleep
<1> QED
  BY <1>3, <1>4, <1>5

\* All entries are behind proc.i.
LEMMA DoneHeld ==
  ASSUME ShortIntervals, InTime, WInv, ProcessDone
  PROVE  timer' \in Seq(Held') /\ WaitInv'
<1> DEFINE d == Minus(clock, proc.now)
           S == {e \in Live : /\ Late <= AheadAt(e.t, proc.now)
                              /\ ShortSleep \/ AheadAt(e.t, proc.now) < Late + Near}
<1>0. /\ proc.on /\ proc.i > Len(timer) /\ UNCHANGED clock /\ ~proc'.on /\ idle' = 0
      /\ timer' = SortIfChanged(timer) /\ wakeup' = WakeupFor(timer', proc.now)
      /\ timer \in Seq(Held) /\ LInv /\ LoopInv /\ Len(timer) \in Nat /\ proc.i \in Nat
      /\ clock \in Time /\ proc.now \in Time
  BY DEF WInv, LInv, TInv, TypeOK, ProcessDone, NotRunning
<1>1. d <= MaxGap /\ d \in Int /\ 0 <= d
  BY <1>0, MinusWraps DEF LInv, TurnInv, Wraps
<1>2. ASSUME NEW k \in 1 .. Len(timer) PROVE timer[k] \in S
  <2>1. timer[k] \in Held /\ k < proc.i
    BY <1>0
  <2>2. timer[k] \in Live /\ (ShortSleep \/ AheadAt(timer[k].t, proc.now) < Late + Near)
    BY <1>0, <2>1 DEF Held, Ref
  <2>3. Late <= AheadAt(timer[k].t, proc.now)
    BY <1>0, <2>1 DEF LoopInv
  <2> QED
    BY <2>2, <2>3
<1>3. timer' \in Seq(S)
  <2> HIDE DEF S
  <2>1. timer \in Seq(S)
    BY <1>0, <1>2
  <2> QED
    BY <1>0, <2>1, SortType DEF SortIfChanged
<1>4. ASSUME NEW e \in S
      PROVE  /\ e.t \in Time
             /\ AheadAt(e.t, proc.now) = Ahead(e.t) + d
             /\ Ahead(e.t) \in Int /\ Ahead(e.t) < Quarter
             /\ Minus(e.t, proc.now) = AheadAt(e.t, proc.now) - Late
  <2>1. e.t \in Time /\ AheadAt(e.t, clock) < Quarter /\ Late <= AheadAt(e.t, proc.now)
    BY DEF Live, Entry, Ahead
  <2>2. AheadAt(e.t, clock) \in Int
    BY <1>0, <2>1, AheadWraps DEF Wraps
  <2> QED
    BY <1>0, <1>1, <2>1, <2>2, SeenFacts DEF Ahead
<1>5. Slack' = 0 /\ Ref' = clock
  BY <1>0, Constants DEF Slack, ShortSleep, Ref
<1>6. ASSUME NEW e \in S PROVE e \in Held'
  <2> DEFINE a == Ahead(e.t)
             b == AheadAt(e.t, proc.now)
  <2>1. e \in Live /\ Late <= b /\ (ShortSleep \/ b < Late + Near) /\ b = a + d /\ a \in Int
    BY <1>4
  <2>2. a = AheadAt(e.t, clock)
    BY DEF Ahead
  <2> HIDE DEF a, b, d
  <2>3. Late <= a + MaxGap + 0 /\ (ShortSleep \/ a < Late + Near)
    BY <1>1, <2>1, Constants, WaitConstants
  <2>4. Live' = Live /\ Ahead(e.t)' = a
    BY <1>0 DEF Live, Ahead, a
  <2> QED
    BY <1>0, <1>5, <2>1, <2>2, <2>3, <2>4 DEF Held, ShortSleep
<1>7. timer' \in Seq(Held')
  <2> DEFINE H == Held'
  <2>1. S \subseteq H
    BY <1>6
  <2> HIDE DEF S, H
  <2>2. timer' \in Seq(H)
    BY <1>3, <2>1
  <2> QED
    BY <2>2 DEF H
<1>8. ShortSleep \/ (timer' # <<>> => wakeup'.on)
  <2> SUFFICES ASSUME ~ShortSleep, timer' # <<>> PROVE wakeup'.on
    OBVIOUS
  <2>1. timer'[1] \in S
    <3> HIDE DEF S
    <3> QED
      BY <1>3
  <2>2. /\ AheadAt(timer'[1].t, proc.now) < Late + Near
        /\ Minus(timer'[1].t, proc.now) = AheadAt(timer'[1].t, proc.now) - Late
        /\ AheadAt(timer'[1].t, proc.now) \in Int
    BY <1>1, <1>4, <2>1
  <2>3. Minus(timer'[1].t, proc.now) < Near
    BY <2>2, Constants, WaitConstants, SMTT(40)
  <2> QED
    BY <1>0, <2>3 DEF WakeupFor, Armed
<1>9. WaitInv'
  BY <1>0, <1>8, Constants DEF WaitInv, ShortSleep
<1> QED
  BY <1>7, <1>9

\* A clock that is not past a live time, as the power manager compares them.
LEMMA WaitsFacts ==
  ASSUME ShortIntervals, NEW t \in Time, NEW now \in Time,
         AheadAt(t, now) < Quarter, ~TIME_COMPARE_BIG(now, t)
  PROVE  Late < AheadAt(t, now)
<1> DEFINE a == AheadAt(t, now)
           m == Minus(now, t)
<1>1. Wraps(a, t + Late - now) /\ Wraps(m, now - t)
  BY AheadWraps, MinusWraps
<1>2. a < Quarter /\ ~(m < Quarter)
  BY DEF TIME_COMPARE_BIG
<1> HIDE DEF a, m
<1>3. Late < a
  BY <1>1, <1>2, TimeBounds, Constants DEF Wraps
<1> QED
  BY <1>3 DEF a

\* Awake, idle stays within a turn; asleep, either the sleep is short or the
\* clock has not reached the first entry.
LEMMA TimeAhead ==
  ASSUME ShortIntervals, InTime, WInv, TimePasses, NEW k \in 1 .. Len(timer)
  PROVE  /\ 0 < Ahead(timer[k].t)
         /\ Late <= Ahead(timer[k].t) - 1 + MaxGap + Slack'
<1> DEFINE a == Ahead(timer[k].t)
           s == Slack
           n == Slack'
<1>0. /\ timer[k] \in Held /\ LInv /\ timer # <<>> /\ idle' = idle + 1 /\ timer \in Seq(Entry)
      /\ Len(timer) \in Nat
  BY DEF WInv, LInv, TInv, TypeOK, TimePasses
<1>1. /\ a \in Int /\ 0 <= a /\ Late <= a + MaxGap + s
      /\ idle \in Int /\ 0 <= idle /\ s \in Int
  BY <1>0, HeldFacts
<1>2. /\ s = IF ShortSleep \/ idle <= MaxGap THEN idle ELSE MaxGap
      /\ n = IF ShortSleep \/ idle + 1 <= MaxGap THEN idle + 1 ELSE MaxGap
  BY <1>0 DEF Slack, ShortSleep
<1>c. /\ MaxGap \in Int /\ Late \in Int /\ MaxSleep \in Int /\ 0 <= MaxGap
      /\ MaxGap + MaxGap <= Late /\ Quarter \in Int
      /\ ShortSleep => MaxGap + MaxSleep <= Late
  BY Constants, WaitConstants
<1>3. CASE idle < MaxGap
  <2> HIDE DEF a, s, n
  <2>1. idle <= MaxGap /\ idle + 1 <= MaxGap
    BY <1>1, <1>3, Constants, SMTT(40)
  <2>2. s = idle /\ n = idle + 1
    BY <1>2, <2>1
  <2>3. 0 < a /\ Late <= a - 1 + MaxGap + n
    <3>1. Late <= a + MaxGap + idle
      BY <1>1, <2>2
    <3>2. 0 < a
      BY ONLY <1>1, <1>3, <1>c, <3>1
    <3>3. Late <= a - 1 + MaxGap + (idle + 1)
      BY ONLY <1>1, <1>c, <3>1
    <3> QED
      BY <2>2, <3>2, <3>3
  <2> QED
    BY <2>3 DEF a, n
<1>4. CASE ~(idle < MaxGap)
  <2>1. Asleep /\ idle < MaxSleep /\ ~proc.on
    BY <1>4 DEF TimePasses, Asleep
  <2>2. CASE ShortSleep
    <3> HIDE DEF a, s, n
    <3>1. s = idle /\ n = idle + 1
      BY <1>2, <2>2
    <3>2. 0 < a /\ Late <= a - 1 + MaxGap + n
      <4>1. Late <= a + MaxGap + idle
        BY <1>1, <3>1
      <4>2. 0 < a
        BY ONLY <1>1, <1>c, <2>1, <2>2, <4>1
      <4>3. Late <= a - 1 + MaxGap + (idle + 1)
        BY ONLY <1>1, <1>c, <4>1
      <4> QED
        BY <3>1, <4>2, <4>3
    <3> QED
      BY <3>2 DEF a, n
  <2>3. CASE ~ShortSleep
    <3> DEFINE u == timer[1].t
               f == AheadAt(u, clock)
               m == Minus(clock, u)
    <3>1. wakeup.on /\ wakeup.t = u
      BY <1>0, <2>1, <2>3 DEF WInv, WaitInv, LInv, TInv, WakesForFirst
    <3>2. ~(m < Quarter)
      BY <2>1, <3>1 DEF Asleep, TIME_COMPARE_BIG
    <3>3. /\ u \in Time /\ f \in Int /\ 0 <= f /\ f < Quarter /\ f <= a
      BY <1>0, <2>1, FirstFacts DEF LInv, OrderInv, Ahead
    <3>4. clock \in Time
      BY <1>0 DEF LInv, TInv, TypeOK
    <3>5. Late < f
      BY <3>2, <3>3, <3>4, WaitsFacts DEF TIME_COMPARE_BIG
    <3> HIDE DEF a, s, n, f, m, u
    <3>7. n \in Int /\ 0 <= n
      BY <1>1, <1>2, Constants
    <3>8. 0 < a /\ Late <= a - 1 + MaxGap + n
      BY ONLY <1>1, <1>c, <3>3, <3>5, <3>7
    <3> QED
      BY <3>8 DEF a, n
  <2> QED
    BY <2>2, <2>3
<1> QED
  BY <1>3, <1>4

LEMMA TimeHeld ==
  ASSUME ShortIntervals, InTime, WInv, TimePasses
  PROVE  LInv' /\ timer' \in Seq(Held') /\ WaitInv'
<1>0. /\ UNCHANGED <<timer, wakeup, proc>> /\ idle' = idle + 1 /\ idle \in Nat
      /\ Len(timer) \in Nat /\ DOMAIN timer = 1 .. Len(timer) /\ timer \in Seq(Held) /\ LInv
  BY DEF TimePasses, WInv, LInv, TInv, TypeOK
<1>1. LInv' /\ \A k \in 1 .. Len(timer) : Ahead(timer[k].t)' = Ahead(timer[k].t) - 1
  BY <1>0, TimeAhead, TimeOrder
<1>2. ASSUME NEW k \in 1 .. Len(timer) PROVE timer[k] \in Held'
  <2> DEFINE e == timer[k]
  <2>0. e \in Held
    BY <1>0
  <2>1. /\ Ahead(e.t) \in Int /\ (ShortSleep \/ AheadAt(e.t, Ref) < Late + Near)
    BY <1>0, <2>0, HeldFacts
  <2>2. Ahead(e.t)' = Ahead(e.t) - 1 /\ Late <= Ahead(e.t) - 1 + MaxGap + Slack'
    BY <1>0, <1>1, TimeAhead
  <2>3. e \in Live'
    <3>1. timer' \in Seq(Live)'
      BY <1>1 DEF LInv, LiveInv
    <3> DEFINE S == Live'
    <3>2. timer \in Seq(S)
      BY <1>0, <3>1
    <3> HIDE DEF S
    <3>3. timer[k] \in S
      BY <3>2
    <3> QED
      BY <3>3 DEF S
  <2>4. ShortSleep \/ AheadAt(e.t, Ref') < Late + Near
    <3>1. CASE proc.on
      BY <1>0, <2>1, <3>1 DEF Ref
    <3>2. CASE ~proc.on
      <4>1. AheadAt(e.t, Ref) = Ahead(e.t) /\ AheadAt(e.t, Ref') = Ahead(e.t)'
        BY <1>0, <3>2 DEF Ref, Ahead
      <4> QED
        <5> DEFINE b == Ahead(e.t)
                   c == Ahead(e.t)'
        <5>1. b \in Int /\ c = b - 1 /\ (ShortSleep \/ b < Late + Near)
          BY <2>1, <2>2, <4>1
        <5>2. Late \in Int /\ Near \in Int
          BY Constants, WaitConstants
        <5> HIDE DEF b, c
        <5>3. ShortSleep \/ c < Late + Near
          BY <5>1, <5>2
        <5> QED
          BY <4>1, <5>3 DEF c
    <3> QED
      BY <3>1, <3>2
  <2>5. Late <= Ahead(e.t)' + MaxGap + Slack'
    BY <2>2
  <2>6. Ahead(e.t)' = AheadAt(e.t, clock') /\ AheadAt(e.t, Ref)' = AheadAt(e.t, Ref')
    BY <1>0 DEF Ahead
  <2> QED
    BY <2>3, <2>4, <2>5, <2>6 DEF Held, Ahead, ShortSleep
<1>3. timer' \in Seq(Held')
  <2> DEFINE S == Held'
  <2>1. \A k \in 1 .. Len(timer) : timer[k] \in S
    BY <1>2
  <2> HIDE DEF S
  <2>2. timer \in Seq(S)
    BY <1>0, <2>1
  <2> QED
    BY <1>0, <2>2 DEF S
<1>4. WaitInv'
  <2>1. idle + 1 <= MaxGap \/ idle + 1 <= MaxSleep
    BY <1>0, Constants, WaitConstants, SMTT(40) DEF TimePasses, Asleep
  <2> QED
    BY <1>0, <2>1 DEF WInv, WaitInv, ShortSleep
<1> QED
  BY <1>1, <1>3, <1>4

LEMMA NextWInv ==
  ASSUME ShortIntervals, InTime, OnlyRearm, WInv, [Next]_vars
  PROVE  WInv'
<1>0. LInv /\ LoopInv
  BY DEF WInv
<1>1. LoopInv'
  BY <1>0, NextLoop
<1>2. CASE TimePasses
  BY <1>1, <1>2, TimeHeld DEF WInv
<1>3. ASSUME NEW cb \in Callback, NEW x \in Interval, blt_soft_timer_add(cb, x) PROVE WInv'
  BY <1>0, <1>1, <1>3, AddOrder, AddHeld DEF WInv
<1>4. ASSUME NEW cb \in Callback, blt_soft_timer_delete(cb) PROVE WInv'
  BY <1>0, <1>1, <1>4, DeleteOrder, DeleteHeld DEF WInv
<1>5. CASE Process
  <2>1. LInv'
    BY <1>0, <1>5, ProcessOrder
  <2>2. ASSUME ProcessSkip PROVE timer' \in Seq(Held') /\ WaitInv'
    <3>1. /\ proc.on /\ proc' = [proc EXCEPT !.i = @ + 1]
          /\ UNCHANGED <<clock, timer, wakeup, idle>>
          /\ proc \in [on : BOOLEAN, now : Time, i : 1 .. (MAX_TIMER_NUM + 1), change_flg : BOOLEAN]
      BY <2>2 DEF ProcessSkip, WInv, LInv, TInv, TypeOK
    <3>2. proc'.on /\ proc'.now = proc.now
      BY <3>1
    <3>3. Held' = Held
      BY <3>1, <3>2, HeldStays DEF Ref
    <3> QED
      BY <3>1, <3>2, <3>3 DEF WInv, WaitInv, ShortSleep
  <2> QED
    BY <1>1, <1>5, <2>1, <2>2, StartHeld, FireHeld, DoneHeld DEF Process, WInv
<1>6. CASE UNCHANGED vars
  <2>1. Held' = Held /\ UNCHANGED <<timer, wakeup, proc, idle>>
    BY <1>6, HeldStays DEF vars, Ref
  <2>2. LInv'
    BY <1>0, <1>6, NextTInv DEF vars, LInv, LiveInv, Live, Ahead, TurnInv, OrderInv
  <2> QED
    BY <1>1, <2>1, <2>2 DEF WInv, WaitInv, ShortSleep
<1> QED
  BY <1>2, <1>3, <1>4, <1>5, <1>6 DEF Next

\* Where callbacks only rearm, no entry falls out of the window in which
\* blt_is_timer_expired (blt_soft_timer.h 62) takes it for expired, although the
\* device sleeps until its wake-up time.
THEOREM NothingMissed ==
  ASSUME ShortIntervals, InTime, OnlyRearm
  PROVE  Spec => []NoneMissed
<1>1. Init => WInv
  <2> SUFFICES ASSUME Init PROVE WInv
    OBVIOUS
  <2>1. timer = <<>> /\ idle = 0 /\ ~proc.on /\ 0 <= MaxGap
    BY Constants DEF Init, NotRunning
  <2>2. timer \in Seq(Held)
    BY <2>1
  <2> QED
    BY <2>1, <2>2, InitLInv DEF WInv, LoopInv, WaitInv
<1>2. WInv /\ [Next]_vars => WInv'
  BY NextWInv
<1>3. WInv => NoneMissed
  <2> SUFFICES ASSUME WInv, NEW i \in DOMAIN timer
               PROVE  Minus(timer[i].t, clock) < Quarter \/ Expired(timer[i].t, clock)
    BY DEF NoneMissed
  <2>1. LInv /\ timer[i] \in Held
    BY DEF WInv
  <2>2. /\ timer[i].t \in Time /\ clock \in Time /\ Ahead(timer[i].t) \in Int
        /\ Ahead(timer[i].t) < Quarter
    BY <2>1, HeldFacts
  <2>3. AheadAt(timer[i].t, clock) < Late + Quarter
    BY <2>2, Constants DEF Ahead
  <2> QED
    BY <2>2, <2>3, MissedFacts
<1> QED
  BY <1>1, <1>2, <1>3, PTL DEF Spec

\* Together: such timers are served in turn, whatever the main loop adds.
THEOREM InTurnThroughout ==
  ASSUME ShortIntervals, InTime, OnlyRearm, LongEnough
  PROVE  Spec => InTurn /\ []Ordered
BY NothingMissed, ServedInTurn, OrderKept, PTL

-----------------------------------------------------------------------------
(***************************************************************************)
(* The bond table of custom_pair.c and its log in flash.                   *)
(***************************************************************************)
CONSTANTS Device, MaxBonds, Entries, TornErase, Power
VARIABLES pair_flash, pair_tbl, pair_idx, pair_mode, pair_kept, pair_full, pair_failures

Pair == INSTANCE CustomPair WITH
  flash <- pair_flash, tbl <- pair_tbl, cfg_idx <- pair_idx, mode <- pair_mode,
  kept <- pair_kept, full <- pair_full, failures <- pair_failures

Peers == Device \cup {Pair!Odd}
Cell == {Pair!Free, Pair!Spoilt, Pair!Dead} \cup {Pair!Bond(d) : d \in Peers}
Sector == [Pair!Place -> Cell]
FlashOp == [op : {"mark", "write", "erase"}, at : Pair!Place, device : Peers]
Bonded == [idx : Pair!Place, device : Peers]

\* The log ends at e: entries are in use below, and free above.
EndsAt(f, e) ==
  /\ \A j \in Pair!Place : j < e => f[j].mark \in {"bond", "dead"}
  /\ \A j \in Pair!Place : j = e => f[j] \in {Pair!Free, Pair!Spoilt}
  /\ \A j \in Pair!Place : j > e => f[j] = Pair!Free

\* What the loop of the start has found after each entry.
Collects(h, f, e) ==
  /\ h[0] = <<>>
  /\ \A k \in 1 .. e :
       h[k] = IF f[k - 1].mark = "bond"
                THEN Append(h[k - 1], [idx |-> k - 1, device |-> f[k - 1].device])
                ELSE h[k - 1]

\* The sector f holds a log that ends at e and lists the bonds t.
Log(f, e, t) ==
  /\ f \in Sector /\ e \in 0 .. Entries /\ EndsAt(f, e)
  /\ \E h \in [0 .. e -> Seq(Bonded)] : Collects(h, f, e) /\ h[e] = t

\* The sector x holds a log of bonds with the devices s at least and u at most, and no more than
\* fit the table.
Survive(x, s, u) ==
  \E e \in 0 .. Entries, t \in Seq(Bonded) :
    /\ Log(x, e, t) /\ Len(t) <= MaxBonds
    /\ s \subseteq Pair!DevicesIn(t) /\ Pair!DevicesIn(t) \ {Pair!Odd} \subseteq u

\* The list t of the flash and the list u of the table agree, but for a bond of the table that is
\* not in k, which the flash may hold with a wrong address.
Like(t, u, k) ==
  /\ Len(t) = Len(u)
  /\ \A i \in 1 .. Len(t) :
       /\ t[i].idx = u[i].idx
       /\ t[i].device = u[i].device \/ (t[i].device = Pair!Odd /\ u[i].device \notin k)

\* Where the next bond goes; the counter moves on when the sector is full.
End == IF pair_idx + 1 < Entries THEN pair_idx + 1 ELSE Entries

PairInv ==
  /\ pair_idx \in -1 .. Entries + 1 /\ pair_mode \in {"on", "off"} /\ pair_kept \subseteq Device
  /\ pair_mode = "on" =>
       /\ pair_tbl \in Seq(Bonded) /\ Len(pair_tbl) <= MaxBonds
       /\ \E t \in Seq(Bonded) :
            Log(pair_flash, End, t) /\ Like(t, pair_tbl, pair_kept) /\ pair_kept \subseteq Pair!DevicesIn(t)
  /\ pair_mode = "off" => pair_tbl = <<>> /\ Survive(pair_flash, pair_kept, Device)

-----------------------------------------------------------------------------
LEMMA PairConstants ==
  ASSUME Pair!CustomPairAssumption
  PROVE  MaxBonds \in Nat /\ MaxBonds >= 1 /\ Entries \in Nat /\ Entries > 2 * MaxBonds /\ Entries >= 3
BY DEF Pair!CustomPairAssumption

LEMMA Marks ==
  /\ Pair!Free.mark = "free" /\ Pair!Spoilt.mark = "spoilt" /\ Pair!Dead.mark = "dead"
  /\ \A d : Pair!Bond(d).mark = "bond" /\ Pair!Bond(d).device = d /\ Pair!Bond(d) # Pair!Free
  /\ Pair!Free # Pair!Spoilt /\ Pair!Free # Pair!Dead
  /\ Pair!Odd \in Peers
  /\ \A c \in Cell : c.mark \in {"free", "spoilt", "dead", "bond"} /\ c.device \in Peers
BY DEF Pair!Free, Pair!Spoilt, Pair!Dead, Pair!Bond, Peers, Cell

LEMMA EndIs ==
  ASSUME Pair!CustomPairAssumption, NEW f \in Sector, NEW e \in 0 .. Entries, EndsAt(f, e)
  PROVE  Pair!End(f) = e
<1> DEFINE Ends(i) == f[i].mark \in {"free", "spoilt"}
           First(i) == Ends(i) /\ \A j \in 0 .. i - 1 : f[j].mark \notin {"free", "spoilt"}
<1>1. /\ \A j \in Pair!Place : j < e => ~ Ends(j)
      /\ \A j \in Pair!Place : j = e => Ends(j)
  BY Marks DEF EndsAt
<1>2. Pair!Place = 0 .. Entries - 1 /\ Entries \in Nat
  BY PairConstants DEF Pair!Place
<1>3. Pair!End(f) = IF \E i \in Pair!Place : Ends(i)
                    THEN CHOOSE i \in Pair!Place : First(i) ELSE Entries
  BY DEF Pair!End
<1>4. CASE e = Entries
  <2>1. ~ \E i \in Pair!Place : Ends(i)
    BY <1>1, <1>2, <1>4
  <2> HIDE DEF Ends, First
  <2> QED
    BY <1>3, <1>4, <2>1
<1>5. CASE e # Entries
  <2>1. e \in Pair!Place /\ Ends(e) /\ First(e)
    BY <1>1, <1>2, <1>5
  <2>2. \A i \in Pair!Place : First(i) => i = e
    <3> SUFFICES ASSUME NEW i \in Pair!Place, First(i) PROVE i = e
      OBVIOUS
    <3>1. ~ (i < e)
      BY <1>1
    <3>2. ~ (e < i)
      BY <1>2, <2>1
    <3> QED
      BY <1>2, <3>1, <3>2
  <2> HIDE DEF Ends, First
  <2> QED
    BY <1>3, <2>1, <2>2
<1> QED
  BY <1>4, <1>5

\* What the start finds is what Collects says.
LEMMA FoundIs ==
  ASSUME Pair!CustomPairAssumption, NEW f, NEW e \in Nat, Pair!End(f) = e,
         NEW h \in [0 .. e -> Seq(Bonded)], Collects(h, f, e)
  PROVE  Pair!Found(f) = h[e]
<1> DEFINE Step(g, k) == IF k = 0 THEN <<>>
                         ELSE IF f[k - 1].mark = "bond"
                           THEN Append(g[k - 1], [idx |-> k - 1, device |-> f[k - 1].device])
                           ELSE g[k - 1]
           Does(g) == g = [k \in 0 .. e |-> Step(g, k)]
           found == CHOOSE g : Does(g)
<1>1. Pair!Found(f) = found[e]
  BY DEF Pair!Found
<1>2. Does(h)
  <2>1. \A k \in 0 .. e : h[k] = Step(h, k)
    <3> SUFFICES ASSUME NEW k \in 0 .. e PROVE h[k] = Step(h, k)
      OBVIOUS
    <3>1. CASE k = 0
      BY <3>1 DEF Collects
    <3>2. CASE k # 0
      <4>1. k \in 1 .. e
        BY <3>2
      <4> QED
        BY <3>2, <4>1 DEF Collects
    <3> QED
      BY <3>1, <3>2
  <2>2. h = [k \in 0 .. e |-> h[k]]
    OBVIOUS
  <2> HIDE DEF Step
  <2> QED
    BY <2>1, <2>2, Zenon
<1>3. Does(found)
  <2> HIDE DEF Does
  <2> QED
    BY <1>2
<1>4. \A k \in 0 .. e : found[k] = Step(found, k)
  <2> HIDE DEF found, Step
  <2> QED
    BY <1>3
<1> DEFINE P == {k \in Nat : k <= e => found[k] = h[k]}
<1>5. 0 \in P
  <2> HIDE DEF found
  <2>1. 0 \in 0 .. e
    OBVIOUS
  <2>2. found[0] = <<>>
    BY <1>4, <2>1
  <2> QED
    BY <2>2 DEF Collects
<1>6. ASSUME NEW k \in Nat, k \in P PROVE k + 1 \in P
  <2> SUFFICES ASSUME k + 1 <= e PROVE found[k + 1] = h[k + 1]
    OBVIOUS
  <2> HIDE DEF found
  <2>1. k + 1 \in 0 .. e /\ k + 1 \in 1 .. e /\ (k + 1) - 1 = k /\ k + 1 # 0 /\ found[k] = h[k]
    BY <1>6
  <2>2. found[k + 1] = IF f[k].mark = "bond" THEN Append(found[k], [idx |-> k, device |-> f[k].device])
                       ELSE found[k]
    BY <1>4, <2>1
  <2>3. h[k + 1] = IF f[k].mark = "bond" THEN Append(h[k], [idx |-> k, device |-> f[k].device])
                   ELSE h[k]
    BY <2>1 DEF Collects
  <2> QED
    BY <2>1, <2>2, <2>3
<1>7. Nat \subseteq P
  <2> HIDE DEF P
  <2> QED
    BY <1>5, <1>6, Induction
<1>8. found[e] = h[e]
  <2> HIDE DEF found
  <2> QED
    BY <1>7
<1> QED
  BY <1>1, <1>8

LEMMA LogFound ==
  ASSUME Pair!CustomPairAssumption, NEW f, NEW e, NEW t, Log(f, e, t)
  PROVE  Pair!End(f) = e /\ Pair!Found(f) = t /\ t \in Seq(Bonded)
<1>1. PICK h \in [0 .. e -> Seq(Bonded)] : Collects(h, f, e) /\ h[e] = t
  BY DEF Log
<1>2. f \in Sector /\ e \in 0 .. Entries /\ e \in Nat /\ EndsAt(f, e)
  BY PairConstants DEF Log
<1>3. Pair!End(f) = e
  BY <1>2, EndIs
<1>4. Pair!Found(f) = h[e]
  BY <1>1, <1>2, <1>3, FoundIs
<1>5. h[e] \in Seq(Bonded)
  BY <1>2
<1> QED
  BY <1>1, <1>3, <1>4, <1>5

\* The log of a sector is what lies below its end.
LEMMA SameLog ==
  ASSUME Pair!CustomPairAssumption, NEW f, NEW e, NEW t, Log(f, e, t), NEW g \in Sector, EndsAt(g, e),
         \A j \in Pair!Place : j < e => g[j] = f[j]
  PROVE  Log(g, e, t)
<1>1. PICK h \in [0 .. e -> Seq(Bonded)] : Collects(h, f, e) /\ h[e] = t
  BY DEF Log
<1>2. e \in 0 .. Entries
  BY DEF Log
<1>3. Collects(h, g, e)
  <2>1. h[0] = <<>>
    BY <1>1 DEF Collects
  <2>2. ASSUME NEW k \in 1 .. e
        PROVE  h[k] = IF g[k - 1].mark = "bond"
                        THEN Append(h[k - 1], [idx |-> k - 1, device |-> g[k - 1].device])
                        ELSE h[k - 1]
    <3>1. k - 1 \in Pair!Place /\ k - 1 < e
      BY <1>2, PairConstants DEF Pair!Place
    <3>2. g[k - 1] = f[k - 1]
      BY <3>1
    <3> QED
      BY <1>1, <3>2 DEF Collects
  <2> QED
    BY <2>1, <2>2 DEF Collects
<1> QED
  BY <1>1, <1>2, <1>3 DEF Log

\* A sector with an entry more.
LEMMA LongerLog ==
  ASSUME Pair!CustomPairAssumption, NEW f, NEW e, NEW t, Log(f, e, t), e < Entries,
         NEW c \in Cell, c.mark \in {"bond", "dead"}
  PROVE  Log([f EXCEPT ![e] = c], e + 1,
             IF c.mark = "bond" THEN Append(t, [idx |-> e, device |-> c.device]) ELSE t)
<1> DEFINE g == [f EXCEPT ![e] = c]
           b == [idx |-> e, device |-> c.device]
           u == IF c.mark = "bond" THEN Append(t, b) ELSE t
<1>1. PICK h \in [0 .. e -> Seq(Bonded)] : Collects(h, f, e) /\ h[e] = t
  BY DEF Log
<1>2. /\ f \in Sector /\ e \in 0 .. Entries /\ EndsAt(f, e) /\ Entries \in Nat
      /\ Pair!Place = 0 .. Entries - 1
  BY PairConstants DEF Log, Pair!Place
<1>3. e \in Pair!Place /\ e \in Nat /\ e + 1 \in 0 .. Entries
  BY <1>2
<1>4. g \in Sector /\ g[e] = c /\ \A j \in Pair!Place : j # e => g[j] = f[j]
  BY <1>2, <1>3 DEF Sector
<1>5. b \in Bonded /\ t \in Seq(Bonded) /\ u \in Seq(Bonded)
  <2>1. b \in Bonded
    BY <1>3, Marks DEF Bonded
  <2>2. t \in Seq(Bonded)
    BY <1>1, <1>3
  <2> HIDE DEF b
  <2> QED
    BY <2>1, <2>2
<1> HIDE DEF g
<1>6. EndsAt(g, e + 1)
  <2>1. ASSUME NEW j \in Pair!Place, j < e + 1 PROVE g[j].mark \in {"bond", "dead"}
    <3>1. j = e \/ (j # e /\ j < e)
      BY <1>2, <1>3, <2>1
    <3> QED
      BY <1>2, <1>4, <3>1 DEF EndsAt
  <2>2. ASSUME NEW j \in Pair!Place, j >= e + 1 PROVE g[j] = Pair!Free
    <3>1. j # e /\ j > e
      BY <1>2, <1>3, <2>2
    <3> QED
      BY <1>2, <1>4, <3>1 DEF EndsAt
  <2>3. \A j \in Pair!Place : j = e + 1 \/ j > e + 1 => j >= e + 1
    BY <1>2, <1>3
  <2>4. \A j \in Pair!Place : j = e + 1 \/ j > e + 1 => g[j] = Pair!Free
    BY <2>2, <2>3
  <2> QED
    BY <2>1, <2>4 DEF EndsAt
<1> DEFINE h2 == [k \in 0 .. e + 1 |-> IF k = e + 1 THEN u ELSE h[k]]
<1>7. h2 \in [0 .. e + 1 -> Seq(Bonded)] /\ h2[e + 1] = u /\ \A k \in 0 .. e : h2[k] = h[k]
  <2> HIDE DEF u
  <2> QED
    BY <1>3, <1>5
<1> HIDE DEF h2
<1>8. Collects(h2, g, e + 1)
  <2>1. h2[0] = <<>>
    BY <1>1, <1>3, <1>7 DEF Collects
  <2>2. ASSUME NEW k \in 1 .. e + 1
        PROVE  h2[k] = IF g[k - 1].mark = "bond"
                         THEN Append(h2[k - 1], [idx |-> k - 1, device |-> g[k - 1].device])
                         ELSE h2[k - 1]
    <3>1. CASE k = e + 1
      <4>1. k - 1 = e /\ h2[e] = t
        BY <1>1, <1>3, <1>7, <3>1
      <4> QED
        BY <1>4, <1>7, <3>1, <4>1
    <3>2. CASE k # e + 1
      <4>1. k \in 1 .. e /\ k \in 0 .. e /\ k - 1 \in 0 .. e /\ k - 1 \in Pair!Place /\ k - 1 # e
        BY <1>2, <1>3, <3>2
      <4>2. g[k - 1] = f[k - 1] /\ h2[k] = h[k] /\ h2[k - 1] = h[k - 1]
        BY <1>4, <1>7, <4>1
      <4> QED
        BY <1>1, <4>1, <4>2 DEF Collects
    <3> QED
      BY <3>1, <3>2
  <2> QED
    BY <2>1, <2>2 DEF Collects
<1>9. Log(g, e + 1, u)
  <2> HIDE DEF u
  <2> QED
    BY <1>3, <1>4, <1>6, <1>7, <1>8 DEF Log
<1> QED
  BY <1>9 DEF g

LEMMA Joined ==
  ASSUME NEW S, NEW a \in Seq(S), NEW b \in Seq(S)
  PROVE  /\ a \o b \in Seq(S) /\ Len(a \o b) = Len(a) + Len(b)
         /\ \A j \in 1 .. Len(a) + Len(b) : (a \o b)[j] = IF j <= Len(a) THEN a[j] ELSE b[j - Len(a)]
OBVIOUS

\* A list without one of its places.
LEMMA DeletedFacts ==
  ASSUME NEW S, NEW t \in Seq(S), NEW i \in 1 .. Len(t)
  PROVE  /\ Pair!Deleted(t, i) \in Seq(S) /\ Len(Pair!Deleted(t, i)) = Len(t) - 1
         /\ \A j \in 1 .. Len(t) - 1 : Pair!Deleted(t, i)[j] = IF j < i THEN t[j] ELSE t[j + 1]
<1> DEFINE a == SubSeq(t, 1, i - 1)
           b == SubSeq(t, i + 1, Len(t))
<1>1. a \in Seq(S) /\ Len(a) = i - 1 /\ \A j \in 1 .. i - 1 : a[j] = t[j]
  OBVIOUS
<1>2. b \in Seq(S) /\ Len(b) = Len(t) - i /\ \A j \in 1 .. Len(t) - i : b[j] = t[i + j]
  OBVIOUS
<1>3. Pair!Deleted(t, i) = a \o b
  BY DEF Pair!Deleted
<1> HIDE DEF a, b
<1>4. /\ a \o b \in Seq(S) /\ Len(a \o b) = Len(t) - 1
      /\ \A j \in 1 .. Len(t) - 1 : (a \o b)[j] = IF j <= Len(a) THEN a[j] ELSE b[j - Len(a)]
  <2>1. Len(t) \in Nat /\ Len(a) + Len(b) = Len(t) - 1
    BY <1>1, <1>2
  <2>2. /\ a \o b \in Seq(S) /\ Len(a \o b) = Len(a) + Len(b)
        /\ \A j \in 1 .. Len(a) + Len(b) : (a \o b)[j] = IF j <= Len(a) THEN a[j] ELSE b[j - Len(a)]
    BY <1>1, <1>2, Joined
  <2> QED
    BY <2>1, <2>2
<1> DEFINE c == a \o b
<1> HIDE DEF c
<1>5. ASSUME NEW j \in 1 .. Len(t) - 1 PROVE c[j] = IF j < i THEN t[j] ELSE t[j + 1]
  <2>0. c[j] = IF j <= Len(a) THEN a[j] ELSE b[j - Len(a)]
    BY <1>4 DEF c
  <2>1. CASE j < i
    <3>1. j <= Len(a) /\ j \in 1 .. i - 1
      BY <1>1, <2>1
    <3> QED
      BY <1>1, <2>0, <2>1, <3>1
  <2>2. CASE ~ (j < i)
    <3>1. j - Len(a) \in 1 .. Len(t) - i /\ i + (j - Len(a)) = j + 1 /\ ~ (j <= Len(a))
      BY <1>1, <2>2
    <3>2. b[j - Len(a)] = t[i + (j - Len(a))]
      BY <1>2, <3>1
    <3> QED
      BY <2>0, <2>2, <3>1, <3>2
  <2> QED
    BY <2>1, <2>2
<1>6. Pair!Deleted(t, i) = c
  BY <1>3 DEF c
<1>7. c \in Seq(S) /\ Len(c) = Len(t) - 1
  BY <1>4 DEF c
<1> QED
  BY <1>5, <1>6, <1>7

LEMMA DeletedAppend ==
  ASSUME NEW S, NEW t \in Seq(S), NEW x \in S
  PROVE  /\ \A i \in 1 .. Len(t) : Pair!Deleted(Append(t, x), i) = Append(Pair!Deleted(t, i), x)
         /\ Pair!Deleted(Append(t, x), Len(t) + 1) = t
<1> DEFINE y == Append(t, x)
<1>1. /\ y \in Seq(S) /\ Len(y) = Len(t) + 1 /\ y[Len(t) + 1] = x /\ Len(t) \in Nat
      /\ \A j \in 1 .. Len(t) : y[j] = t[j]
  OBVIOUS
<1> HIDE DEF y
<1>2. ASSUME NEW i \in 1 .. Len(t) PROVE Pair!Deleted(y, i) = Append(Pair!Deleted(t, i), x)
  <2>1. i \in 1 .. Len(y)
    BY <1>1
  <2> DEFINE u == Pair!Deleted(y, i)
             v == Pair!Deleted(t, i)
  <2>2. /\ u \in Seq(S) /\ Len(u) = Len(t)
        /\ \A j \in 1 .. Len(t) : u[j] = IF j < i THEN y[j] ELSE y[j + 1]
    <3>1. /\ u \in Seq(S) /\ Len(u) = Len(y) - 1
          /\ \A j \in 1 .. Len(y) - 1 : u[j] = IF j < i THEN y[j] ELSE y[j + 1]
      BY <1>1, <2>1, DeletedFacts, Zenon
    <3>2. Len(y) - 1 = Len(t)
      BY <1>1
    <3> QED
      BY <3>1, <3>2
  <2>3. /\ v \in Seq(S) /\ Len(v) = Len(t) - 1
        /\ \A j \in 1 .. Len(t) - 1 : v[j] = IF j < i THEN t[j] ELSE t[j + 1]
    BY DeletedFacts
  <2> HIDE DEF u, v
  <2>4. /\ Append(v, x) \in Seq(S) /\ Len(Append(v, x)) = Len(t) /\ Append(v, x)[Len(t)] = x
        /\ \A j \in 1 .. Len(t) - 1 : Append(v, x)[j] = v[j]
    BY <1>1, <2>3
  <2>5. ASSUME NEW j \in 1 .. Len(t) PROVE u[j] = Append(v, x)[j]
    <3>1. CASE j = Len(t)
      BY <1>1, <2>2, <2>4, <3>1
    <3>2. CASE j # Len(t)
      <4>1. j \in 1 .. Len(t) - 1 /\ j + 1 \in 1 .. Len(t)
        BY <1>1, <3>2
      <4> QED
        BY <1>1, <2>2, <2>3, <2>4, <4>1
    <3> QED
      BY <3>1, <3>2
  <2>6. u = Append(v, x)
    <3> DEFINE w == Append(v, x)
    <3>1. w \in Seq(S) /\ Len(w) = Len(t) /\ \A j \in 1 .. Len(t) : u[j] = w[j]
      BY <2>4, <2>5
    <3> HIDE DEF w
    <3>2. u = w
      BY <2>2, <3>1
    <3> QED
      BY <3>2 DEF w
  <2> QED
    BY <2>6 DEF u, v
<1>3. Pair!Deleted(y, Len(t) + 1) = t
  <2>1. Len(t) + 1 \in 1 .. Len(y)
    BY <1>1
  <2> DEFINE u == Pair!Deleted(y, Len(t) + 1)
  <2>2. /\ u \in Seq(S) /\ Len(u) = Len(t)
        /\ \A j \in 1 .. Len(t) : u[j] = IF j < Len(t) + 1 THEN y[j] ELSE y[j + 1]
    <3>1. /\ u \in Seq(S) /\ Len(u) = Len(y) - 1
          /\ \A j \in 1 .. Len(y) - 1 : u[j] = IF j < Len(t) + 1 THEN y[j] ELSE y[j + 1]
      BY <1>1, <2>1, DeletedFacts, Zenon
    <3>2. Len(y) - 1 = Len(t)
      BY <1>1
    <3> QED
      BY <3>1, <3>2
  <2> HIDE DEF u
  <2>3. \A j \in 1 .. Len(t) : u[j] = t[j]
    BY <1>1, <2>2
  <2>4. u = t
    BY <2>2, <2>3
  <2> QED
    BY <2>4 DEF u
<1> QED
  BY <1>2, <1>3 DEF y

\* Where an entry is in what the start found.
LEMMA Places ==
  ASSUME NEW f, NEW e \in Nat, NEW h \in [0 .. e -> Seq(Bonded)], Collects(h, f, e)
  PROVE  \A k \in 0 .. e : \A a \in 1 .. Len(h[k]) :
           /\ h[k][a].idx \in 0 .. k - 1 /\ f[h[k][a].idx].mark = "bond"
           /\ h[k][a].device = f[h[k][a].idx].device
           /\ Len(h[h[k][a].idx]) = a - 1
<1> DEFINE Right(k) == \A a \in 1 .. Len(h[k]) :
                         /\ h[k][a].idx \in 0 .. k - 1 /\ f[h[k][a].idx].mark = "bond"
                         /\ h[k][a].device = f[h[k][a].idx].device
                         /\ Len(h[h[k][a].idx]) = a - 1
           P == {k \in Nat : k <= e => Right(k)}
<1>1. 0 \in P
  <2>1. h[0] = <<>>
    BY DEF Collects
  <2> QED
    BY <2>1
<1>2. ASSUME NEW k \in Nat, k \in P PROVE k + 1 \in P
  <2> SUFFICES ASSUME k + 1 <= e PROVE Right(k + 1)
    OBVIOUS
  <2>1. k + 1 \in 1 .. e /\ (k + 1) - 1 = k /\ k \in 0 .. e /\ Right(k) /\ h[k] \in Seq(Bonded)
    BY <1>2
  <2> HIDE DEF Right
  <2>2. CASE f[k].mark = "bond"
    <3> DEFINE b == [idx |-> k, device |-> f[k].device]
    <3>1. h[k + 1] = Append(h[k], b)
      BY <2>1, <2>2 DEF Collects
    <3>2. b.idx = k /\ b.device = f[k].device
      OBVIOUS
    <3> HIDE DEF b
    <3>3. Len(h[k + 1]) = Len(h[k]) + 1 /\ h[k + 1][Len(h[k]) + 1] = b /\ Len(h[k]) \in Nat
          /\ \A a \in 1 .. Len(h[k]) : h[k + 1][a] = h[k][a]
      BY <2>1, <3>1
    <3>4. ASSUME NEW a \in 1 .. Len(h[k + 1])
          PROVE  /\ h[k + 1][a].idx \in 0 .. k /\ f[h[k + 1][a].idx].mark = "bond"
                 /\ h[k + 1][a].device = f[h[k + 1][a].idx].device
                 /\ Len(h[h[k + 1][a].idx]) = a - 1
      <4>1. CASE a = Len(h[k]) + 1
        <5>1. h[k + 1][a] = b /\ Len(h[k]) = a - 1 /\ k \in 0 .. k
          BY <3>3, <4>1
        <5> QED
          BY <2>2, <3>2, <5>1
      <4>2. CASE a # Len(h[k]) + 1
        <5>1. a \in 1 .. Len(h[k]) /\ h[k + 1][a] = h[k][a]
          BY <3>3, <4>2
        <5>2. /\ h[k][a].idx \in 0 .. k - 1 /\ f[h[k][a].idx].mark = "bond"
              /\ h[k][a].device = f[h[k][a].idx].device
              /\ Len(h[h[k][a].idx]) = a - 1
          BY <2>1, <5>1 DEF Right
        <5>3. h[k][a].idx \in 0 .. k
          BY <5>2
        <5> QED
          BY <5>1, <5>2, <5>3
      <4> QED
        BY <4>1, <4>2
    <3> QED
      BY <2>1, <3>4 DEF Right
  <2>3. CASE f[k].mark # "bond"
    <3>1. h[k + 1] = h[k]
      BY <2>1, <2>3 DEF Collects
    <3>2. \A n : n \in 0 .. k - 1 => n \in 0 .. k
      OBVIOUS
    <3> QED
      BY <2>1, <3>1, <3>2 DEF Right
  <2> QED
    BY <2>2, <2>3
<1>3. Nat \subseteq P
  <2> HIDE DEF P
  <2> QED
    BY <1>1, <1>2, Induction
<1> QED
  BY <1>3

\* From one entry to the next the list does not get shorter.
LEMMA Longer ==
  ASSUME NEW f, NEW e \in Nat, NEW h \in [0 .. e -> Seq(Bonded)], Collects(h, f, e),
         NEW p \in 0 .. e - 1, f[p].mark = "bond"
  PROVE  \A k \in p + 1 .. e : Len(h[p]) + 1 <= Len(h[k])
<1> DEFINE P == {k \in Nat : p + 1 + k <= e => Len(h[p]) + 1 <= Len(h[p + 1 + k])}
<1>0. ASSUME NEW k \in 0 .. e - 1
      PROVE  Len(h[k + 1]) = IF f[k].mark = "bond" THEN Len(h[k]) + 1 ELSE Len(h[k])
  <2>1. k + 1 \in 1 .. e /\ (k + 1) - 1 = k /\ h[k] \in Seq(Bonded)
    OBVIOUS
  <2>2. h[k + 1] = IF f[k].mark = "bond" THEN Append(h[k], [idx |-> k, device |-> f[k].device]) ELSE h[k]
    BY <2>1 DEF Collects
  <2> QED
    BY <2>1, <2>2
<1>1. 0 \in P
  <2>1. p \in Nat /\ p + 1 + 0 = p + 1 /\ Len(h[p]) \in Nat
    OBVIOUS
  <2> QED
    BY <1>0, <2>1
<1>2. ASSUME NEW k \in Nat, k \in P PROVE k + 1 \in P
  <2> SUFFICES ASSUME p + 1 + (k + 1) <= e PROVE Len(h[p]) + 1 <= Len(h[p + 1 + (k + 1)])
    OBVIOUS
  <2> DEFINE n == p + 1 + k
  <2>1. n \in 0 .. e - 1 /\ p + 1 + (k + 1) = n + 1 /\ Len(h[p]) + 1 <= Len(h[n])
    BY <1>2
  <2>2. h[n] \in Seq(Bonded) /\ h[p] \in Seq(Bonded) /\ h[n + 1] \in Seq(Bonded)
    BY <2>1
  <2>9. n \in 0 .. e /\ n + 1 \in 0 .. e
    BY <2>1
  <2> HIDE DEF n
  <2>3. Len(h[n]) \in Nat /\ Len(h[p]) \in Nat
    BY <2>2
  <2>4. Len(h[n + 1]) >= Len(h[n])
    <3>1. Len(h[n + 1]) = IF f[n].mark = "bond" THEN Len(h[n]) + 1 ELSE Len(h[n])
      BY <1>0, <2>1
    <3> QED
      BY ONLY <2>3, <3>1
  <2>5. Len(h[n + 1]) \in Nat
    BY <2>2
  <2>6. Len(h[p]) + 1 <= Len(h[n + 1])
    BY ONLY <2>1, <2>3, <2>4, <2>5
  <2> QED
    BY <2>1, <2>6
<1>3. Nat \subseteq P
  <2> HIDE DEF P
  <2> QED
    BY <1>1, <1>2, Induction
<1>4. ASSUME NEW k \in p + 1 .. e PROVE Len(h[p]) + 1 <= Len(h[k])
  <2>1. k - (p + 1) \in Nat /\ p + 1 + (k - (p + 1)) = k /\ k <= e
    OBVIOUS
  <2> QED
    BY <1>3, <2>1
<1> QED
  BY <1>4

\* A bond marked as dead leaves the list.
LEMMA MarkLog ==
  ASSUME Pair!CustomPairAssumption, NEW f, NEW e, NEW t, Log(f, e, t), NEW i \in 1 .. Len(t)
  PROVE  Log(Pair!Done(f, Pair!Mark(t[i].idx)), e, Pair!Deleted(t, i))
<1>1. PICK h \in [0 .. e -> Seq(Bonded)] : Collects(h, f, e) /\ h[e] = t
  BY DEF Log
<1>2. /\ f \in Sector /\ e \in 0 .. Entries /\ EndsAt(f, e) /\ Entries \in Nat
      /\ Pair!Place = 0 .. Entries - 1 /\ e \in Nat
  BY PairConstants DEF Log, Pair!Place
<1>3. PICK p : p = t[i].idx
  OBVIOUS
<1>4. p \in 0 .. e - 1 /\ f[p].mark = "bond" /\ Len(h[p]) = i - 1
  <2>1. e \in 0 .. e /\ i \in 1 .. Len(h[e])
    BY <1>1, <1>2
  <2>2. h[e][i].idx \in 0 .. e - 1 /\ f[h[e][i].idx].mark = "bond" /\ Len(h[h[e][i].idx]) = i - 1
    BY <1>1, <1>2, <2>1, Places, Zenon
  <2> QED
    BY <1>1, <1>3, <2>2
<1>5. \A k \in p + 1 .. e : i \in 1 .. Len(h[k])
  <2>1. \A k \in p + 1 .. e : Len(h[p]) + 1 <= Len(h[k])
    BY <1>1, <1>2, <1>4, Longer
  <2>2. ASSUME NEW k \in p + 1 .. e PROVE i \in 1 .. Len(h[k])
    <3>1. k \in 0 .. e /\ p \in 0 .. e
      BY <1>2, <1>4
    <3>2. h[k] \in Seq(Bonded) /\ h[p] \in Seq(Bonded)
      BY <3>1
    <3>3. Len(h[k]) \in Nat /\ Len(h[p]) + 1 <= Len(h[k])
      BY <2>1, <3>2
    <3>4. i \in Int /\ i >= 1
      <4>1. t \in Seq(Bonded)
        BY <1>1, <1>2
      <4> QED
        BY <4>1
    <3> QED
      BY ONLY <1>4, <3>3, <3>4
  <2> QED
    BY <2>2
<1> DEFINE g == [f EXCEPT ![p] = Pair!Dead]
           h2 == [k \in 0 .. e |-> IF k <= p THEN h[k] ELSE Pair!Deleted(h[k], i)]
<1>6. p \in Pair!Place /\ p \in Nat /\ p \in 0 .. e
  BY <1>2, <1>4
<1>7. g \in Sector /\ g[p] = Pair!Dead /\ \A j \in Pair!Place : j # p => g[j] = f[j]
  BY <1>2, <1>6 DEF Sector, Cell
<1>8. Pair!Done(f, Pair!Mark(t[i].idx)) = g
  BY <1>3 DEF Pair!Done, Pair!Mark
<1> HIDE DEF g
<1>9. EndsAt(g, e)
  <2>1. \A j \in Pair!Place : j < e => g[j].mark \in {"bond", "dead"}
    BY <1>2, <1>7, Marks DEF EndsAt
  <2>2. \A j \in Pair!Place : j = e \/ j > e => j # p
    BY <1>2, <1>4
  <2>3. \A j \in Pair!Place : j = e \/ j > e => g[j] = f[j]
    BY <1>7, <2>2
  <2> QED
    BY <1>2, <2>1, <2>3 DEF EndsAt
<1>10. /\ \A k \in 0 .. p : h2[k] = h[k]
       /\ \A k \in p + 1 .. e : h2[k] = Pair!Deleted(h[k], i)
  BY <1>2, <1>4
<1>11. h2 \in [0 .. e -> Seq(Bonded)]
  <2>1. ASSUME NEW k \in 0 .. e, ~ (k <= p) PROVE Pair!Deleted(h[k], i) \in Seq(Bonded)
    <3>1. k \in p + 1 .. e
      BY <1>6, <2>1
    <3>2. i \in 1 .. Len(h[k]) /\ h[k] \in Seq(Bonded)
      BY <1>5, <3>1
    <3>3. PICK x \in Seq(Bonded) : x = h[k]
      BY <3>2
    <3>4. Pair!Deleted(x, i) \in Seq(Bonded)
      BY <3>2, <3>3, DeletedFacts
    <3> QED
      BY <3>3, <3>4
  <2>2. ASSUME NEW k \in 0 .. e PROVE (IF k <= p THEN h[k] ELSE Pair!Deleted(h[k], i)) \in Seq(Bonded)
    BY <2>1
  <2> QED
    BY <2>2
<1> HIDE DEF h2
<1>12. Collects(h2, g, e)
  <2>1. h2[0] = <<>>
    <3>1. 0 \in 0 .. p
      BY <1>6
    <3> QED
      BY <1>1, <1>10, <3>1 DEF Collects
  <2>2. ASSUME NEW k \in 1 .. e
        PROVE  h2[k] = IF g[k - 1].mark = "bond"
                         THEN Append(h2[k - 1], [idx |-> k - 1, device |-> g[k - 1].device])
                         ELSE h2[k - 1]
    <3>0. h[k] = IF f[k - 1].mark = "bond"
                   THEN Append(h[k - 1], [idx |-> k - 1, device |-> f[k - 1].device])
                   ELSE h[k - 1]
      BY <1>1 DEF Collects
    <3>1. k - 1 \in 0 .. e /\ k - 1 \in Pair!Place /\ k \in Int
      BY <1>2
    <3>2. CASE k <= p
      <4>1. k \in 0 .. p /\ k - 1 \in 0 .. p /\ k - 1 # p
        BY <1>6, <3>2
      <4>2. h2[k] = h[k] /\ h2[k - 1] = h[k - 1] /\ g[k - 1] = f[k - 1]
        BY <1>7, <1>10, <3>1, <4>1
      <4> QED
        BY <3>0, <4>2
    <3>3. CASE k = p + 1
      <4>1. k - 1 = p /\ p \in 0 .. p /\ k \in p + 1 .. e
        BY <1>6, <3>3
      <4>2. h2[k - 1] = h[p] /\ h2[k] = Pair!Deleted(h[k], i)
        BY <1>10, <4>1
      <4>3. PICK x \in Seq(Bonded) : x = h[p]
        BY <1>6
      <4>4. PICK b \in Bonded : b = [idx |-> p, device |-> f[p].device]
        BY <1>2, <1>6, Marks DEF Bonded, Sector
      <4>5. h[k] = Append(x, b)
        BY <1>4, <3>0, <4>1, <4>3, <4>4
      <4>6. Pair!Deleted(Append(x, b), Len(x) + 1) = x
        BY <4>3, <4>4, DeletedAppend
      <4>7. Len(x) + 1 = i
        <5>1. t \in Seq(Bonded)
          BY <1>1, <1>2
        <5>2. i \in Int
          BY <5>1
        <5> QED
          BY <1>4, <4>3, <5>2
      <4>8. h2[k] = h2[k - 1]
        BY <4>2, <4>3, <4>5, <4>6, <4>7
      <4>9. g[k - 1].mark # "bond"
        BY <1>7, <4>1, Marks
      <4> QED
        BY <4>8, <4>9
    <3>4. CASE k > p + 1
      <4>1. k \in p + 1 .. e /\ k - 1 \in p + 1 .. e /\ k - 1 # p
        BY <1>6, <3>1, <3>4
      <4>2. h2[k] = Pair!Deleted(h[k], i) /\ h2[k - 1] = Pair!Deleted(h[k - 1], i) /\ g[k - 1] = f[k - 1]
        BY <1>7, <1>10, <3>1, <4>1
      <4>3. CASE f[k - 1].mark = "bond"
        <5>1. PICK x \in Seq(Bonded) : x = h[k - 1]
          BY <3>1
        <5>2. PICK b \in Bonded : b = [idx |-> k - 1, device |-> f[k - 1].device]
          BY <1>2, <3>1, Marks DEF Bonded, Sector
        <5>3. i \in 1 .. Len(x) /\ h[k] = Append(x, b)
          BY <1>5, <3>0, <4>1, <4>3, <5>1, <5>2
        <5>4. Pair!Deleted(Append(x, b), i) = Append(Pair!Deleted(x, i), b)
          BY <5>1, <5>2, <5>3, DeletedAppend
        <5> QED
          BY <4>2, <4>3, <5>1, <5>2, <5>3, <5>4
      <4>4. CASE f[k - 1].mark # "bond"
        BY <3>0, <4>2, <4>4
      <4> QED
        BY <4>3, <4>4
    <3> QED
      BY <1>6, <3>1, <3>2, <3>3, <3>4
  <2> QED
    BY <2>1, <2>2 DEF Collects
<1>13. h2[e] = Pair!Deleted(t, i)
  <2>1. e \in p + 1 .. e
    BY <1>2, <1>4
  <2> QED
    BY <1>1, <1>10, <2>1
<1>14. Log(g, e, Pair!Deleted(t, i))
  BY <1>2, <1>7, <1>9, <1>11, <1>12, <1>13 DEF Log
<1> QED
  BY <1>8, <1>14

\* An erased sector.
LEMMA EraseLog ==
  ASSUME Pair!CustomPairAssumption
  PROVE  Log([j \in Pair!Place |-> Pair!Free], 0, <<>>)
<1> DEFINE g == [j \in Pair!Place |-> Pair!Free]
           h == [k \in 0 .. 0 |-> <<>>]
<1>1. g \in Sector /\ \A j \in Pair!Place : g[j] = Pair!Free
  BY DEF Sector, Cell
<1>2. 0 \in 0 .. Entries
  BY PairConstants
<1>3. \A j \in Pair!Place : ~ (j < 0)
  BY PairConstants DEF Pair!Place
<1> HIDE DEF g
<1>4. EndsAt(g, 0)
  BY <1>1, <1>3 DEF EndsAt
<1>5. h \in [0 .. 0 -> Seq(Bonded)] /\ Collects(h, g, 0) /\ h[0] = <<>>
  BY DEF Collects
<1> HIDE DEF h
<1>6. Log(g, 0, <<>>)
  BY <1>1, <1>2, <1>4, <1>5 DEF Log
<1> QED
  BY <1>6 DEF g

\* A bond written at the end; over a spoilt entry its address is a mixture.
LEMMA WriteLog ==
  ASSUME Pair!CustomPairAssumption, NEW f, NEW e, NEW t, Log(f, e, t), e < Entries, NEW d \in Peers
  PROVE  LET g == Pair!Done(f, Pair!Write(e, d)) IN
         /\ Log(g, e + 1, Append(t, [idx |-> e, device |-> g[e].device]))
         /\ f[e] = Pair!Free => g[e].device = d
         /\ f[e] # Pair!Free => g[e].device = Pair!Odd
         /\ \A j \in Pair!Place : j # e => g[j] = f[j]
<1> DEFINE c == IF f[e] = Pair!Free THEN Pair!Bond(d) ELSE Pair!Bond(Pair!Odd)
           g == [f EXCEPT ![e] = c]
<1>1. Pair!Done(f, Pair!Write(e, d)) = g
  BY DEF Pair!Done, Pair!Write
<1>2. f \in Sector /\ e \in Pair!Place
  BY PairConstants DEF Log, Pair!Place
<1>3. /\ c \in Cell /\ c.mark = "bond"
      /\ f[e] = Pair!Free => c.device = d
      /\ f[e] # Pair!Free => c.device = Pair!Odd
  BY Marks DEF Cell
<1> HIDE DEF c
<1>4. g[e] = c /\ \A j \in Pair!Place : j # e => g[j] = f[j]
  BY <1>2 DEF Sector
<1>5. Log(g, e + 1, IF c.mark = "bond" THEN Append(t, [idx |-> e, device |-> c.device]) ELSE t)
  BY <1>3, LongerLog
<1> HIDE DEF g
<1>6. Log(g, e + 1, Append(t, [idx |-> e, device |-> g[e].device]))
  BY <1>3, <1>4, <1>5
<1> QED
  BY <1>1, <1>3, <1>4, <1>6

\* A write that power cut off: nothing new in the list, or a bond with a wrong address.
LEMMA TornWrite ==
  ASSUME Pair!CustomPairAssumption, NEW f, NEW e, NEW t, Log(f, e, t), e < Entries, NEW d \in Peers,
         NEW g \in Pair!Torn(f, Pair!Write(e, d))
  PROVE  \/ Log(g, e, t) \/ Log(g, e + 1, t)
         \/ Log(g, e + 1, Append(t, [idx |-> e, device |-> Pair!Odd]))
<1>1. g = f \/ \E c \in {Pair!Spoilt, Pair!Dead, Pair!Bond(Pair!Odd)} : g = [f EXCEPT ![e] = c]
  BY DEF Pair!Torn, Pair!Write
<1>2. f \in Sector /\ e \in Pair!Place /\ EndsAt(f, e)
  BY PairConstants DEF Log, Pair!Place
<1>3. CASE g = f
  BY <1>3
<1>4. CASE g = [f EXCEPT ![e] = Pair!Spoilt]
  <2>1. g \in Sector /\ g[e] = Pair!Spoilt /\ \A j \in Pair!Place : j # e => g[j] = f[j]
    BY <1>2, <1>4 DEF Sector, Cell
  <2>2. \A j \in Pair!Place : j < e \/ j > e => j # e
    BY <1>2, PairConstants DEF Pair!Place
  <2>3. EndsAt(g, e)
    BY <1>2, <2>1, <2>2 DEF EndsAt
  <2>4. Log(g, e, t)
    BY <2>1, <2>2, <2>3, SameLog
  <2> QED
    BY <2>4
<1>5. CASE g = [f EXCEPT ![e] = Pair!Dead]
  <2>1. Pair!Dead \in Cell /\ Pair!Dead.mark = "dead"
    BY Marks DEF Cell
  <2> QED
    BY <1>5, <2>1, LongerLog
<1>6. CASE g = [f EXCEPT ![e] = Pair!Bond(Pair!Odd)]
  <2>1. /\ Pair!Bond(Pair!Odd) \in Cell /\ Pair!Bond(Pair!Odd).mark = "bond"
        /\ Pair!Bond(Pair!Odd).device = Pair!Odd
    BY Marks DEF Cell
  <2> QED
    BY <1>6, <2>1, LongerLog
<1> QED
  BY <1>1, <1>3, <1>4, <1>5, <1>6

-----------------------------------------------------------------------------
LEMMA OpTypes ==
  ASSUME Pair!CustomPairAssumption
  PROVE  /\ \A i \in Pair!Place : Pair!Mark(i) \in FlashOp
         /\ \A i \in Pair!Place, d \in Peers : Pair!Write(i, d) \in FlashOp
         /\ Pair!Erase \in FlashOp
         /\ \A f \in Sector, o \in FlashOp : Pair!Done(f, o) \in Sector
<1>1. 0 \in Pair!Place /\ Pair!Odd \in Peers
  BY PairConstants, Marks DEF Pair!Place
<1>2. /\ \A i \in Pair!Place : Pair!Mark(i) \in FlashOp
      /\ \A i \in Pair!Place, d \in Peers : Pair!Write(i, d) \in FlashOp
      /\ Pair!Erase \in FlashOp
  BY <1>1 DEF FlashOp, Pair!Mark, Pair!Write, Pair!Erase
<1>3. ASSUME NEW f \in Sector, NEW o \in FlashOp PROVE Pair!Done(f, o) \in Sector
  <2>1. o.op \in {"mark", "write", "erase"} /\ o.at \in Pair!Place /\ o.device \in Peers
    BY DEF FlashOp
  <2>2. /\ Pair!Dead \in Cell /\ Pair!Bond(o.device) \in Cell /\ Pair!Bond(Pair!Odd) \in Cell
        /\ Pair!Free \in Cell
    BY <1>1, <2>1 DEF Cell
  <2>3. CASE o.op = "mark"
    <3>1. Pair!Done(f, o) = [f EXCEPT ![o.at] = Pair!Dead]
      BY <2>3 DEF Pair!Done
    <3> QED
      BY <2>1, <2>2, <3>1 DEF Sector
  <2>4. CASE o.op = "write"
    <3>1. Pair!Done(f, o) = [f EXCEPT ![o.at] = IF f[o.at] = Pair!Free THEN Pair!Bond(o.device)
                                                ELSE Pair!Bond(Pair!Odd)]
      BY <2>4 DEF Pair!Done
    <3>2. (IF f[o.at] = Pair!Free THEN Pair!Bond(o.device) ELSE Pair!Bond(Pair!Odd)) \in Cell
      BY <2>2
    <3> QED
      BY <2>1, <3>1, <3>2 DEF Sector
  <2>5. CASE o.op = "erase"
    <3>1. Pair!Done(f, o) = [i \in Pair!Place |-> Pair!Free]
      BY <2>5 DEF Pair!Done
    <3> QED
      BY <2>2, <3>1 DEF Sector
  <2> QED
    BY <2>1, <2>3, <2>4, <2>5
<1> QED
  BY <1>2, <1>3

\* h is what the first n operations leave, one by one.
Leaves(h, f, ops, n) ==
  /\ h = [k \in 0 .. n |-> h[k]] /\ h[0] = f
  /\ \A k \in 1 .. n : h[k] = Pair!Done(h[k - 1], ops[k])

LEMMA AfterIs ==
  ASSUME NEW f, NEW ops, NEW n \in Nat, Len(ops) = n, NEW h, Leaves(h, f, ops, n)
  PROVE  Pair!After(f, ops) = h[n]
<1> DEFINE Step(g, k) == IF k = 0 THEN f ELSE Pair!Done(g[k - 1], ops[k])
           Does(g) == g = [k \in 0 .. n |-> Step(g, k)]
           after == CHOOSE g : Does(g)
<1>0. /\ h = [k \in 0 .. n |-> h[k]] /\ h[0] = f
      /\ \A k \in 1 .. n : h[k] = Pair!Done(h[k - 1], ops[k])
  BY DEF Leaves
<1>1. Pair!After(f, ops) = after[n]
  BY DEF Pair!After
<1>2. Does(h)
  <2>1. \A k \in 0 .. n : h[k] = Step(h, k)
    <3> SUFFICES ASSUME NEW k \in 0 .. n PROVE h[k] = Step(h, k)
      OBVIOUS
    <3>1. k = 0 \/ (k \in 1 .. n /\ k # 0)
      OBVIOUS
    <3> QED
      BY <1>0, <3>1
  <2> HIDE DEF Step
  <2> QED
    BY <1>0, <2>1, Zenon
<1>3. Does(after)
  <2> HIDE DEF Does
  <2> QED
    BY <1>2
<1>4. \A k \in 0 .. n : after[k] = Step(after, k)
  <2> HIDE DEF after, Step
  <2> QED
    BY <1>3
<1> DEFINE P == {k \in Nat : k <= n => after[k] = h[k]}
<1>5. 0 \in P
  <2> HIDE DEF after
  <2>1. 0 \in 0 .. n
    OBVIOUS
  <2>2. after[0] = f
    BY <1>4, <2>1
  <2> QED
    BY <1>0, <2>2
<1>6. ASSUME NEW k \in Nat, k \in P PROVE k + 1 \in P
  <2> SUFFICES ASSUME k + 1 <= n PROVE after[k + 1] = h[k + 1]
    OBVIOUS
  <2> HIDE DEF after
  <2>1. k + 1 \in 0 .. n /\ k + 1 \in 1 .. n /\ (k + 1) - 1 = k /\ k + 1 # 0 /\ after[k] = h[k]
    BY <1>6
  <2>2. after[k + 1] = Pair!Done(after[k], ops[k + 1])
    BY <1>4, <2>1
  <2>3. h[k + 1] = Pair!Done(h[k], ops[k + 1])
    BY <1>0, <2>1
  <2> QED
    BY <2>1, <2>2, <2>3
<1>7. Nat \subseteq P
  <2> HIDE DEF P
  <2> QED
    BY <1>5, <1>6, Induction
<1>8. after[n] = h[n]
  <2> HIDE DEF after
  <2> QED
    BY <1>7
<1> QED
  BY <1>1, <1>8

\* The sectors a list of operations goes through.
Goes(h, f, ops) ==
  /\ h \in [0 .. Len(ops) -> Sector] /\ h[0] = f
  /\ \A k \in 1 .. Len(ops) : h[k] = Pair!Done(h[k - 1], ops[k])

LEMMA GoesThrough ==
  ASSUME Pair!CustomPairAssumption, NEW f \in Sector, NEW ops \in Seq(FlashOp)
  PROVE  \E h : Goes(h, f, ops)
<1> DEFINE F == [k \in 1 .. Len(ops) |-> [s \in Sector |-> Pair!Done(s, ops[k])]]
           n == Len(ops)
<1>1. F \in [1 .. n -> [Sector -> Sector]]
  BY OpTypes
<1>2. n \in Nat /\ \A k \in 1 .. n : F[k] = [s \in Sector |-> Pair!Done(s, ops[k])]
  OBVIOUS
<1> HIDE DEF F
<1>3. PICK h \in [0 .. n -> Sector] : Steps(h, f, n, F)
  <2> HIDE DEF n
  <2> QED
    BY <1>1, <1>2, Recursion
<1>4. h[0] = f /\ \A k \in 1 .. n : h[k] = F[k][h[k - 1]]
  BY <1>3 DEF Steps
<1>5. ASSUME NEW k \in 1 .. n PROVE h[k] = Pair!Done(h[k - 1], ops[k])
  <2>1. k - 1 \in 0 .. n
    BY <1>2
  <2>2. h[k - 1] \in Sector
    BY <1>3, <2>1
  <2> QED
    BY <1>2, <1>4, <2>2
<1> QED
  BY <1>3, <1>4, <1>5 DEF Goes

\* Power that fails in a list of operations leaves what one of them, torn, makes of
\* the sector it began with.
LEMMA GoesTo ==
  ASSUME NEW f, NEW ops \in Seq(FlashOp), NEW h, Goes(h, f, ops)
  PROVE  /\ Pair!After(f, ops) = h[Len(ops)]
         /\ \A g \in Pair!Failed(f, ops) : \E k \in 1 .. Len(ops) : g \in Pair!Torn(h[k - 1], ops[k])
<1>1. /\ Len(ops) \in Nat /\ h \in [0 .. Len(ops) -> Sector] /\ h[0] = f
      /\ \A k \in 1 .. Len(ops) : h[k] = Pair!Done(h[k - 1], ops[k])
  BY DEF Goes
<1>2. Pair!After(f, ops) = h[Len(ops)]
  <2>1. h = [k \in 0 .. Len(ops) |-> h[k]]
    BY <1>1
  <2>2. PICK n \in Nat : n = Len(ops)
    BY <1>1
  <2>3. Leaves(h, f, ops, n)
    BY <1>1, <2>1, <2>2 DEF Leaves
  <2>4. Pair!After(f, ops) = h[n]
    BY <2>2, <2>3, AfterIs
  <2> QED
    BY <2>2, <2>4
<1>3. ASSUME NEW k \in 1 .. Len(ops) PROVE Pair!After(f, SubSeq(ops, 1, k - 1)) = h[k - 1]
  <2>1. PICK n \in Nat : n = k - 1
    BY <1>1
  <2> DEFINE part == SubSeq(ops, 1, n)
             g == [j \in 0 .. n |-> h[j]]
  <2>2. n <= Len(ops)
    BY <1>1, <2>1
  <2>3. Len(part) = n /\ \A j \in 1 .. n : part[j] = ops[j]
    BY <1>1, <2>2
  <2>4. g = [j \in 0 .. n |-> g[j]] /\ g[0] = f /\ g[n] = h[n]
    BY <1>1
  <2>5. ASSUME NEW j \in 1 .. n PROVE g[j] = Pair!Done(g[j - 1], part[j])
    <3>1. j \in 1 .. Len(ops) /\ j \in 0 .. n /\ j - 1 \in 0 .. n
      BY <1>1, <2>2
    <3>2. g[j] = h[j] /\ g[j - 1] = h[j - 1] /\ part[j] = ops[j]
      BY <2>3, <3>1
    <3> HIDE DEF g, part
    <3> QED
      BY <1>1, <3>1, <3>2
  <2> HIDE DEF g, part
  <2>7. Leaves(g, f, part, n)
    BY <2>4, <2>5 DEF Leaves
  <2>8. Pair!After(f, part) = g[n]
    BY <2>3, <2>7, AfterIs
  <2> QED
    BY <2>1, <2>4, <2>8 DEF part
<1>4. ASSUME NEW g \in Pair!Failed(f, ops)
      PROVE  \E k \in 1 .. Len(ops) : g \in Pair!Torn(h[k - 1], ops[k])
  <2>1. PICK k \in 1 .. Len(ops) : g \in Pair!Torn(Pair!After(f, SubSeq(ops, 1, k - 1)), ops[k])
    BY DEF Pair!Failed
  <2>2. g \in Pair!Torn(h[k - 1], ops[k])
    BY <1>3, <2>1
  <2> QED
    BY <2>2
<1> QED
  BY <1>2, <1>4

-----------------------------------------------------------------------------
LEMMA TableType ==
  ASSUME NEW t \in Seq(Bonded)
  PROVE  /\ Len(t) \in Nat /\ Pair!DevicesIn(t) \ {Pair!Odd} \subseteq Device
         /\ \A i \in 1 .. Len(t) : t[i] \in Bonded /\ t[i].idx \in Pair!Place /\ t[i].device \in Peers
         /\ \A x \in Bonded : /\ Pair!DevicesIn(t) \subseteq Pair!DevicesIn(Append(t, x))
                              /\ Pair!DevicesIn(Append(t, x)) \subseteq Pair!DevicesIn(t) \cup {x.device}
                              /\ x.device \in Pair!DevicesIn(Append(t, x))
         /\ \A i \in 1 .. Len(t) : Pair!DevicesIn(Pair!Deleted(t, i)) \subseteq Pair!DevicesIn(t)
<1>1. Len(t) \in Nat /\ \A i \in 1 .. Len(t) : t[i] \in Bonded
  OBVIOUS
<1>2. \A i \in 1 .. Len(t) : t[i].idx \in Pair!Place /\ t[i].device \in Peers
  BY <1>1 DEF Bonded
<1>3. Pair!DevicesIn(t) \ {Pair!Odd} \subseteq Device
  BY <1>2 DEF Pair!DevicesIn, Peers
<1>4. ASSUME NEW x \in Bonded
      PROVE  /\ Pair!DevicesIn(t) \subseteq Pair!DevicesIn(Append(t, x))
             /\ Pair!DevicesIn(Append(t, x)) \subseteq Pair!DevicesIn(t) \cup {x.device}
             /\ x.device \in Pair!DevicesIn(Append(t, x))
  <2> DEFINE v == Append(t, x)
  <2>1. /\ Len(v) = Len(t) + 1 /\ v[Len(t) + 1] = x
        /\ \A i \in 1 .. Len(t) : i \in 1 .. Len(t) + 1 /\ v[i] = t[i]
    OBVIOUS
  <2>2. Len(t) + 1 \in 1 .. Len(t) + 1 /\ \A i \in 1 .. Len(t) + 1 : i \in 1 .. Len(t) \/ i = Len(t) + 1
    BY <1>1
  <2> HIDE DEF v
  <2>3. Pair!DevicesIn(t) \subseteq Pair!DevicesIn(v)
    BY <2>1 DEF Pair!DevicesIn
  <2>4. Pair!DevicesIn(v) \subseteq Pair!DevicesIn(t) \cup {x.device}
    BY <2>1, <2>2 DEF Pair!DevicesIn
  <2>5. x.device \in Pair!DevicesIn(v)
    BY <2>1, <2>2 DEF Pair!DevicesIn
  <2> QED
    BY <2>3, <2>4, <2>5 DEF v
<1>5. ASSUME NEW i \in 1 .. Len(t) PROVE Pair!DevicesIn(Pair!Deleted(t, i)) \subseteq Pair!DevicesIn(t)
  <2> DEFINE u == Pair!Deleted(t, i)
  <2>1. Len(u) = Len(t) - 1 /\ \A j \in 1 .. Len(t) - 1 : u[j] = IF j < i THEN t[j] ELSE t[j + 1]
    BY DeletedFacts
  <2> HIDE DEF u
  <2>2. ASSUME NEW j \in 1 .. Len(u) PROVE \E k \in 1 .. Len(t) : t[k].device = u[j].device
    <3>1. j \in 1 .. Len(t) - 1 /\ j \in 1 .. Len(t) /\ j + 1 \in 1 .. Len(t)
      BY <1>1, <2>1
    <3> QED
      BY <2>1, <3>1
  <2>3. Pair!DevicesIn(u) \subseteq Pair!DevicesIn(t)
    BY <2>2 DEF Pair!DevicesIn
  <2> QED
    BY <2>3 DEF u
<1> QED
  BY <1>1, <1>2, <1>3, <1>4, <1>5

\* What power that fails within one operation leaves.
LEMMA TornMark ==
  ASSUME Pair!CustomPairAssumption, NEW f, NEW e, NEW t, Log(f, e, t), Len(t) <= MaxBonds,
         NEW i \in 1 .. Len(t), NEW g \in Pair!Torn(f, Pair!Mark(t[i].idx))
  PROVE  Survive(g, Pair!DevicesIn(Pair!Deleted(t, i)), Pair!DevicesIn(t))
<1>1. g = f \/ g = Pair!Done(f, Pair!Mark(t[i].idx))
  BY DEF Pair!Torn, Pair!Mark
<1>2. t \in Seq(Bonded) /\ e \in 0 .. Entries
  BY LogFound DEF Log
<1>3. CASE g = f
  BY <1>2, <1>3, TableType DEF Survive
<1>4. CASE g = Pair!Done(f, Pair!Mark(t[i].idx))
  <2>1. PICK u : u = Pair!Deleted(t, i)
    OBVIOUS
  <2>2. u \in Seq(Bonded) /\ Len(u) = Len(t) - 1
    BY <1>2, <2>1, DeletedFacts
  <2>3. Log(g, e, u)
    BY <1>4, <2>1, MarkLog
  <2>4. Len(u) <= MaxBonds
    BY <1>2, <2>2, PairConstants
  <2>5. Pair!DevicesIn(u) \subseteq Pair!DevicesIn(t)
    BY <1>2, <2>1, TableType
  <2> QED
    BY <1>2, <2>1, <2>2, <2>3, <2>4, <2>5 DEF Survive
<1> QED
  BY <1>1, <1>3, <1>4

LEMMA TornWriteSurvive ==
  ASSUME Pair!CustomPairAssumption, NEW f, NEW e, NEW t, Log(f, e, t), Len(t) < MaxBonds, e < Entries,
         NEW d \in Peers, NEW g \in Pair!Torn(f, Pair!Write(e, d))
  PROVE  Survive(g, Pair!DevicesIn(t), Pair!DevicesIn(t))
<1>1. t \in Seq(Bonded) /\ e \in 0 .. Entries /\ e + 1 \in 0 .. Entries /\ e \in Pair!Place
  BY LogFound, PairConstants DEF Log, Pair!Place
<1>2. PICK x \in Bonded : x = [idx |-> e, device |-> Pair!Odd]
  BY <1>1, Marks DEF Bonded
<1>3. /\ Append(t, x) \in Seq(Bonded) /\ Len(Append(t, x)) <= MaxBonds /\ Len(t) <= MaxBonds
  BY <1>1, PairConstants
<1>4. /\ Pair!DevicesIn(t) \subseteq Pair!DevicesIn(Append(t, x))
      /\ Pair!DevicesIn(Append(t, x)) \ {Pair!Odd} \subseteq Pair!DevicesIn(t)
  BY <1>1, <1>2, TableType
<1>5. Log(g, e, t) \/ Log(g, e + 1, t) \/ Log(g, e + 1, Append(t, x))
  BY <1>2, TornWrite
<1> QED
  BY <1>1, <1>3, <1>4, <1>5 DEF Survive

LEMMA SurviveLess ==
  ASSUME NEW g, NEW s, NEW u, NEW r, NEW v, r \subseteq s, u \ {Pair!Odd} \subseteq v, Survive(g, s, u)
  PROVE  Survive(g, r, v)
BY DEF Survive

-----------------------------------------------------------------------------
LEMMA SubSeqGrows ==
  ASSUME NEW S, NEW t \in Seq(S), NEW k \in 0 .. Len(t) - 1
  PROVE  SubSeq(t, 1, k + 1) = Append(SubSeq(t, 1, k), t[k + 1])
<1>1. t[k + 1] \in S
  OBVIOUS
<1> DEFINE a == SubSeq(t, 1, k + 1)
           b == Append(SubSeq(t, 1, k), t[k + 1])
<1>2. a \in Seq(S) /\ Len(a) = k + 1 /\ \A j \in 1 .. k + 1 : a[j] = t[j]
  OBVIOUS
<1>3. b \in Seq(S) /\ Len(b) = k + 1 /\ \A j \in 1 .. k + 1 : b[j] = t[j]
  <2> DEFINE c == SubSeq(t, 1, k)
  <2>1. c \in Seq(S) /\ Len(c) = k /\ \A j \in 1 .. k : c[j] = t[j]
    OBVIOUS
  <2> HIDE DEF c
  <2>2. Append(c, t[k + 1]) \in Seq(S) /\ Len(Append(c, t[k + 1])) = k + 1
        /\ \A j \in 1 .. k + 1 : Append(c, t[k + 1])[j] = t[j]
    BY <1>1, <2>1
  <2> QED
    BY <2>2 DEF c
<1> HIDE DEF a, b
<1>4. a = b
  BY <1>2, <1>3
<1> QED
  BY <1>4 DEF a, b

LEMMA DeletedFirst ==
  ASSUME NEW S, NEW t \in Seq(S), NEW k \in 0 .. Len(t) - 1
  PROVE  /\ Pair!Deleted(SubSeq(t, k + 1, Len(t)), 1) = SubSeq(t, k + 2, Len(t))
         /\ SubSeq(t, k + 1, Len(t)) \in Seq(S) /\ SubSeq(t, k + 1, Len(t))[1] = t[k + 1]
         /\ Len(SubSeq(t, k + 1, Len(t))) = Len(t) - k
<1> DEFINE n == Len(t)
           a == SubSeq(t, k + 1, n)
           b == SubSeq(t, k + 2, n)
           c == Pair!Deleted(a, 1)
<1>1. a \in Seq(S) /\ Len(a) = n - k /\ \A j \in 1 .. n - k : a[j] = t[k + j]
  OBVIOUS
<1>2. b \in Seq(S) /\ Len(b) = n - k - 1 /\ \A j \in 1 .. n - k - 1 : b[j] = t[k + 1 + j]
  OBVIOUS
<1> HIDE DEF a, b
<1>3. n \in Nat /\ k \in Nat /\ 1 \in 1 .. Len(a)
  BY <1>1
<1>4. c \in Seq(S) /\ Len(c) = Len(a) - 1 /\ \A j \in 1 .. Len(a) - 1 : c[j] = IF j < 1 THEN a[j] ELSE a[j + 1]
  BY <1>1, <1>3, DeletedFacts, Zenon
<1> HIDE DEF c, n
<1>5. Len(c) = n - k - 1
  BY <1>1, <1>3, <1>4
<1>6. ASSUME NEW j \in 1 .. n - k - 1 PROVE c[j] = b[j]
  <2>1. j \in 1 .. Len(a) - 1 /\ ~ (j < 1) /\ j + 1 \in 1 .. n - k /\ k + (j + 1) = k + 1 + j
    BY <1>1, <1>3
  <2>2. c[j] = a[j + 1]
    BY <1>4, <2>1
  <2>3. a[j + 1] = t[k + (j + 1)]
    BY <1>1, <2>1
  <2> QED
    BY <1>2, <2>1, <2>2, <2>3
<1>7. c = b
  BY <1>2, <1>4, <1>5, <1>6
<1>8. a[1] = t[k + 1]
  BY <1>1, <1>3
<1> QED
  BY <1>1, <1>7, <1>8 DEF a, b, c, n

-----------------------------------------------------------------------------
\* user_bond_slave_flash_clean.
LEMMA CleanLog ==
  ASSUME Pair!CustomPairAssumption, NEW f, NEW e, NEW t, Log(f, e, t), Len(t) <= MaxBonds
  PROVE  /\ Log(Pair!After(f, Pair!Clean(t)), Len(t), [i \in 1 .. Len(t) |-> [t[i] EXCEPT !.idx = i - 1]])
         /\ ~ TornErase => \A g \in Pair!Failed(f, Pair!Clean(t)) : Survive(g, {}, Pair!DevicesIn(t))
<1> DEFINE ops == Pair!Clean(t)
           nt == [i \in 1 .. Len(t) |-> [t[i] EXCEPT !.idx = i - 1]]
<1>1. /\ f \in Sector /\ t \in Seq(Bonded) /\ Len(t) \in Nat /\ e \in 0 .. Entries
      /\ Entries \in Nat /\ Len(t) < Entries /\ Pair!Place = 0 .. Entries - 1 /\ MaxBonds \in Nat
  BY LogFound, TableType, PairConstants DEF Log, Pair!Place
<1>2. PICK n \in Nat : n = Len(t)
  BY <1>1
<1>3. \A i \in 1 .. n : t[i].idx \in Pair!Place /\ t[i].device \in Peers /\ t[i] \in Bonded /\ i - 1 \in Pair!Place
  BY <1>1, <1>2, TableType
<1>4. /\ nt \in Seq(Bonded) /\ Len(nt) = n
      /\ \A i \in 1 .. n : nt[i] = [idx |-> i - 1, device |-> t[i].device]
  <2>1. \A i \in 1 .. n : [t[i] EXCEPT !.idx = i - 1] = [idx |-> i - 1, device |-> t[i].device]
    BY <1>3 DEF Bonded
  <2>2. \A i \in 1 .. n : [idx |-> i - 1, device |-> t[i].device] \in Bonded
    BY <1>3 DEF Bonded
  <2>3. nt = [i \in 1 .. n |-> [idx |-> i - 1, device |-> t[i].device]]
    BY <1>2, <2>1
  <2> HIDE DEF nt
  <2> QED
    BY <2>2, <2>3
<1>5. /\ ops \in Seq(FlashOp) /\ Len(ops) = n + 1 /\ ops[1] = Pair!Erase
      /\ \A k \in 2 .. n + 1 : ops[k] = Pair!Write(k - 2, t[k - 1].device)
  <2> DEFINE w == [i \in 1 .. n |-> Pair!Write(i - 1, t[i].device)]
             a == <<Pair!Erase>>
  <2>1. w \in Seq(FlashOp) /\ Len(w) = n /\ \A i \in 1 .. n : w[i] = Pair!Write(i - 1, t[i].device)
    <3>1. \A i \in 1 .. n : Pair!Write(i - 1, t[i].device) \in FlashOp
      BY <1>3, OpTypes
    <3> QED
      BY <3>1
  <2>2. a \in Seq(FlashOp) /\ Len(a) = 1 /\ a[1] = Pair!Erase
    BY OpTypes
  <2>3. ops = a \o w
    BY <1>2 DEF Pair!Clean
  <2> HIDE DEF ops, a, w
  <2>4. /\ ops \in Seq(FlashOp) /\ Len(ops) = n + 1
        /\ \A j \in 1 .. n + 1 : ops[j] = IF j <= 1 THEN a[j] ELSE w[j - 1]
    <3>1. /\ a \o w \in Seq(FlashOp) /\ Len(a \o w) = Len(a) + Len(w)
          /\ \A j \in 1 .. Len(a) + Len(w) : (a \o w)[j] = IF j <= Len(a) THEN a[j] ELSE w[j - Len(a)]
      BY <2>1, <2>2, Joined
    <3>2. Len(a) + Len(w) = n + 1
      BY <2>1, <2>2
    <3> QED
      BY <2>2, <2>3, <3>1, <3>2
  <2>5. ASSUME NEW k \in 2 .. n + 1 PROVE ops[k] = Pair!Write(k - 2, t[k - 1].device)
    <3>1. k \in 1 .. n + 1 /\ ~ (k <= 1) /\ k - 1 \in 1 .. n /\ (k - 1) - 1 = k - 2
      OBVIOUS
    <3> QED
      BY <2>1, <2>4, <3>1
  <2>6. ops[1] = Pair!Erase
    <3>1. 1 \in 1 .. n + 1
      OBVIOUS
    <3> QED
      BY <2>2, <2>4, <3>1
  <2>7. ops \in Seq(FlashOp) /\ Len(ops) = n + 1
    BY <2>4
  <2> QED
    BY ONLY <2>5, <2>6, <2>7
<1> HIDE DEF ops, nt
<1>6. PICK h : Goes(h, f, ops)
  BY <1>1, <1>5, GoesThrough
<1>7. h \in [0 .. n + 1 -> Sector] /\ h[0] = f /\ \A k \in 1 .. n + 1 : h[k] = Pair!Done(h[k - 1], ops[k])
  BY <1>5, <1>6 DEF Goes
<1> DEFINE Right(k) == /\ Log(h[k + 1], k, SubSeq(nt, 1, k))
                       /\ \A j \in Pair!Place : j >= k => h[k + 1][j] = Pair!Free
           P == {k \in Nat : k <= n => Right(k)}
<1>8. 0 \in P
  <2>1. h[1] = [j \in Pair!Place |-> Pair!Free]
    <3>1. 1 \in 1 .. n + 1 /\ 1 - 1 = 0
      BY <1>2
    <3>2. h[1] = Pair!Done(f, Pair!Erase)
      BY <1>5, <1>7, <3>1
    <3> QED
      BY <3>2 DEF Pair!Done, Pair!Erase
  <2>2. SubSeq(nt, 1, 0) = <<>>
    BY <1>4
  <2>3. Log(h[1], 0, <<>>)
    BY <2>1, EraseLog
  <2>4. Log(h[0 + 1], 0, SubSeq(nt, 1, 0))
    <3>1. 0 + 1 = 1
      OBVIOUS
    <3>2. h[0 + 1] = h[1]
      BY <3>1, Zenon
    <3> QED
      BY <2>2, <2>3, <3>2, Zenon
  <2>5. \A j \in Pair!Place : j >= 0 => h[0 + 1][j] = Pair!Free
    BY <2>1
  <2> QED
    BY <2>4, <2>5
<1>9. ASSUME NEW k \in Nat, k \in P PROVE k + 1 \in P
  <2> SUFFICES ASSUME k + 1 <= n PROVE Right(k + 1)
    OBVIOUS
  <2>1. k \in 0 .. Len(nt) - 1 /\ k + 1 \in 1 .. n /\ k + 2 \in 2 .. n + 1 /\ k + 2 \in 1 .. n + 1
        /\ (k + 2) - 1 = k + 1 /\ (k + 2) - 2 = k /\ k < Entries /\ k \in Pair!Place /\ (k + 1) + 1 = k + 2
        /\ (k + 1) - 1 = k
    BY <1>1, <1>2, <1>4
  <2>2. Log(h[k + 1], k, SubSeq(nt, 1, k)) /\ \A j \in Pair!Place : j >= k => h[k + 1][j] = Pair!Free
    BY <1>9
  <2> HIDE DEF Right
  <2>3. h[k + 2] = Pair!Done(h[k + 1], Pair!Write(k, t[k + 1].device))
    BY <1>5, <1>7, <2>1
  <2>4. PICK d \in Peers : d = t[k + 1].device
    BY <1>3, <2>1
  <2>5. PICK g : g = h[k + 1]
    OBVIOUS
  <2>6. PICK u : u = SubSeq(nt, 1, k)
    OBVIOUS
  <2>7. PICK g2 : g2 = Pair!Done(g, Pair!Write(k, d))
    OBVIOUS
  <2>8. Log(g, k, u) /\ g[k] = Pair!Free
    BY <2>1, <2>2, <2>5, <2>6
  <2>9. /\ Log(g2, k + 1, Append(u, [idx |-> k, device |-> g2[k].device])) /\ g2[k].device = d
        /\ \A j \in Pair!Place : j # k => g2[j] = g[j]
    BY <2>1, <2>7, <2>8, WriteLog
  <2>10. SubSeq(nt, 1, k + 1) = Append(u, nt[k + 1])
    BY <1>4, <2>1, <2>6, SubSeqGrows
  <2>11. nt[k + 1] = [idx |-> k, device |-> d]
    BY <1>4, <2>1, <2>4
  <2>12. h[k + 2] = g2
    BY <2>3, <2>4, <2>5, <2>7
  <2>13. Log(h[k + 2], k + 1, SubSeq(nt, 1, k + 1))
    BY <2>9, <2>10, <2>11, <2>12
  <2>14. \A j \in Pair!Place : j >= k + 1 => j >= k /\ j # k
    BY <1>1
  <2>15. \A j \in Pair!Place : j >= k + 1 => h[k + 2][j] = Pair!Free
    BY <2>2, <2>5, <2>9, <2>12, <2>14
  <2> QED
    BY <2>1, <2>13, <2>15 DEF Right
<1>10. \A k \in 0 .. n : Right(k)
  <2>1. Nat \subseteq P
    <3> HIDE DEF P
    <3> QED
      BY <1>8, <1>9, Induction
  <2> HIDE DEF Right
  <2> QED
    BY <2>1
<1>11. Log(Pair!After(f, ops), Len(t), nt)
  <2>1. Pair!After(f, ops) = h[n + 1]
    BY <1>5, <1>6, GoesTo
  <2>2. SubSeq(nt, 1, n) = nt
    BY <1>4
  <2>3. Log(h[n + 1], n, SubSeq(nt, 1, n))
    BY <1>10
  <2> QED
    BY <1>2, <2>1, <2>2, <2>3
<1>12. ASSUME ~ TornErase, NEW g \in Pair!Failed(f, ops) PROVE Survive(g, {}, Pair!DevicesIn(t))
  <2>1. PICK k \in 1 .. n + 1 : g \in Pair!Torn(h[k - 1], ops[k])
    BY <1>5, <1>6, <1>12, GoesTo
  <2>2. CASE k = 1
    <3>1. g \in Pair!Torn(f, Pair!Erase)
      BY <1>5, <1>7, <2>1, <2>2
    <3>2. g = f \/ g = [j \in Pair!Place |-> Pair!Free]
      BY <1>12, <3>1 DEF Pair!Torn, Pair!Done, Pair!Erase
    <3>3. CASE g = f
      BY <1>1, <3>3 DEF Survive
    <3>4. CASE g = [j \in Pair!Place |-> Pair!Free]
      <4>1. Log(g, 0, <<>>)
        BY <3>4, EraseLog
      <4>2. 0 \in 0 .. Entries /\ <<>> \in Seq(Bonded) /\ Len(<<>>) <= MaxBonds
        BY PairConstants
      <4>3. Pair!DevicesIn(<<>>) = {}
        BY DEF Pair!DevicesIn
      <4> QED
        BY <4>1, <4>2, <4>3 DEF Survive
    <3> QED
      BY <3>2, <3>3, <3>4
  <2>3. CASE k # 1
    <3>1. PICK m \in 0 .. n - 1 : m = k - 2
      BY <2>3
    <3>2. k \in 2 .. n + 1 /\ k - 1 = m + 1 /\ m \in 0 .. n /\ m + 1 \in 1 .. n /\ m < Entries
          /\ m \in Nat /\ m < MaxBonds
      BY <1>1, <1>2, <2>3, <3>1
    <3>3. PICK d \in Peers : d = t[m + 1].device
      BY <1>3, <3>2
    <3>4. ops[k] = Pair!Write(m, d)
      BY <1>5, <3>1, <3>2, <3>3
    <3>5. PICK u : u = SubSeq(nt, 1, m)
      OBVIOUS
    <3>6. PICK f1 : f1 = h[m + 1]
      OBVIOUS
    <3>7. Log(f1, m, u)
      BY <1>10, <3>2, <3>5, <3>6
    <3>8. Len(u) = m
      BY <1>4, <3>1, <3>2, <3>5
    <3>9. g \in Pair!Torn(f1, Pair!Write(m, d))
      BY <2>1, <3>2, <3>4, <3>6
    <3>10. Survive(g, Pair!DevicesIn(u), Pair!DevicesIn(u))
      BY <3>2, <3>7, <3>8, <3>9, TornWriteSurvive
    <3>11. Pair!DevicesIn(u) \subseteq Pair!DevicesIn(t)
      <4>1. \A j \in 1 .. m : u[j] = nt[j] /\ j \in 1 .. n
        BY <1>4, <3>1, <3>2, <3>5
      <4>2. \A j \in 1 .. m : u[j].device = t[j].device
        BY <1>4, <4>1
      <4> QED
        BY <1>2, <3>8, <4>1, <4>2 DEF Pair!DevicesIn
    <3> QED
      BY <3>10, <3>11, SurviveLess
  <2> QED
    BY <2>2, <2>3
<1> QED
  BY <1>11, <1>12 DEF ops, nt

\* user_tbl_slave_mac_delete_all: one entry after the other.
LEMMA DeleteAllLog ==
  ASSUME Pair!CustomPairAssumption, NEW f, NEW e, NEW t, Log(f, e, t), Like(t, pair_tbl, pair_kept),
         Len(pair_tbl) <= MaxBonds
  PROVE  /\ Log(Pair!After(f, Pair!DeleteAllOps), e, <<>>)
         /\ \A g \in Pair!Failed(f, Pair!DeleteAllOps) : Survive(g, {}, Pair!DevicesIn(t))
<1> DEFINE ops == Pair!DeleteAllOps
<1>0. Len(t) = Len(pair_tbl) /\ \A i \in 1 .. Len(t) : t[i].idx = pair_tbl[i].idx
  BY DEF Like
<1>1. Log(f, e, t) /\ f \in Sector /\ t \in Seq(Bonded) /\ Len(t) \in Nat /\ MaxBonds \in Nat /\ Len(t) <= MaxBonds
  BY <1>0, LogFound, TableType, PairConstants DEF Log
<1>2. PICK n \in Nat : n = Len(t)
  BY <1>1
<1>3. \A i \in 1 .. n : t[i].idx \in Pair!Place
  BY <1>1, <1>2, TableType
<1>4. ops \in Seq(FlashOp) /\ Len(ops) = n /\ \A k \in 1 .. n : ops[k] = Pair!Mark(t[k].idx)
  <2>1. \A k \in 1 .. n : Pair!Mark(t[k].idx) \in FlashOp
    BY <1>3, OpTypes
  <2>2. ops = [k \in 1 .. n |-> Pair!Mark(t[k].idx)]
    BY <1>0, <1>2 DEF Pair!DeleteAllOps
  <2> HIDE DEF ops
  <2> QED
    BY <2>1, <2>2
<1> HIDE DEF ops
<1>5. PICK h : Goes(h, f, ops)
  BY <1>1, <1>4, GoesThrough
<1>6. h \in [0 .. n -> Sector] /\ h[0] = f /\ \A k \in 1 .. n : h[k] = Pair!Done(h[k - 1], ops[k])
  BY <1>4, <1>5 DEF Goes
<1> DEFINE Right(k) == Log(h[k], e, SubSeq(t, k + 1, n))
           P == {k \in Nat : k <= n => Right(k)}
<1>7. 0 \in P
  <2>1. SubSeq(t, 0 + 1, n) = t
    BY <1>1, <1>2
  <2> QED
    BY <1>1, <1>6, <2>1
<1>8. ASSUME NEW k \in Nat, k \in P PROVE k + 1 \in P
  <2> SUFFICES ASSUME k + 1 <= n PROVE Right(k + 1)
    OBVIOUS
  <2>1. k \in 0 .. Len(t) - 1 /\ k + 1 \in 1 .. n /\ (k + 1) - 1 = k /\ (k + 1) + 1 = k + 2
    BY <1>2
  <2>2. PICK u : u = SubSeq(t, k + 1, n)
    OBVIOUS
  <2>3. PICK g : g = h[k]
    OBVIOUS
  <2>4. Log(g, e, u)
    BY <1>8, <2>2, <2>3
  <2>5. Pair!Deleted(u, 1) = SubSeq(t, k + 2, n) /\ u[1] = t[k + 1] /\ Len(u) = n - k
    BY <1>1, <1>2, <2>1, <2>2, DeletedFirst
  <2>6. 1 \in 1 .. Len(u)
    BY <2>1, <2>5
  <2>7. h[k + 1] = Pair!Done(g, Pair!Mark(u[1].idx))
    BY <1>4, <1>6, <2>1, <2>3, <2>5
  <2>8. Log(Pair!Done(g, Pair!Mark(u[1].idx)), e, Pair!Deleted(u, 1))
    BY <2>4, <2>6, MarkLog
  <2>9. Log(h[k + 1], e, SubSeq(t, k + 2, n))
    BY <2>5, <2>7, <2>8
  <2> QED
    BY <2>1, <2>9
<1>9. \A k \in 0 .. n : Right(k)
  <2>1. Nat \subseteq P
    <3> HIDE DEF P
    <3> QED
      BY <1>7, <1>8, Induction
  <2> HIDE DEF Right
  <2> QED
    BY <2>1
<1>10. Log(Pair!After(f, ops), e, <<>>)
  <2>1. Pair!After(f, ops) = h[n]
    BY <1>4, <1>5, GoesTo
  <2>2. SubSeq(t, n + 1, n) = <<>>
    BY <1>1, <1>2
  <2>3. Log(h[n], e, SubSeq(t, n + 1, n))
    BY <1>9
  <2> QED
    BY <2>1, <2>2, <2>3
<1>11. ASSUME NEW g \in Pair!Failed(f, ops) PROVE Survive(g, {}, Pair!DevicesIn(t))
  <2>1. PICK k \in 1 .. n : g \in Pair!Torn(h[k - 1], ops[k])
    BY <1>4, <1>5, <1>11, GoesTo
  <2>2. PICK m \in 0 .. n - 1 : m = k - 1
    OBVIOUS
  <2>3. m \in 0 .. Len(t) - 1 /\ m \in 0 .. n /\ k = m + 1
    BY <1>2, <2>2
  <2>4. PICK u : u = SubSeq(t, m + 1, n)
    OBVIOUS
  <2>5. PICK f1 : f1 = h[m]
    OBVIOUS
  <2>6. Log(f1, e, u)
    BY <1>9, <2>3, <2>4, <2>5
  <2>7. u[1] = t[m + 1] /\ Len(u) = n - m
    BY <1>1, <1>2, <2>3, <2>4, DeletedFirst
  <2>8. 1 \in 1 .. Len(u) /\ Len(u) <= MaxBonds
    BY <1>1, <1>2, <2>2, <2>7
  <2>9. g \in Pair!Torn(f1, Pair!Mark(u[1].idx))
    BY <1>4, <2>1, <2>2, <2>3, <2>5, <2>7
  <2>10. Survive(g, Pair!DevicesIn(Pair!Deleted(u, 1)), Pair!DevicesIn(u))
    BY <2>6, <2>8, <2>9, TornMark
  <2>11. Pair!DevicesIn(u) \subseteq Pair!DevicesIn(t)
    <3>1. \A j \in 1 .. n - m : u[j] = t[m + j] /\ m + j \in 1 .. Len(t)
      BY <1>1, <1>2, <2>2, <2>4
    <3> QED
      BY <2>7, <3>1 DEF Pair!DevicesIn
  <2> QED
    BY <2>10, <2>11, SurviveLess
<1> QED
  BY <1>10, <1>11 DEF ops

-----------------------------------------------------------------------------
\* The lists of operations of an add and a delete have at most two.
LEMMA NoOps ==
  ASSUME Pair!CustomPairAssumption, NEW f \in Sector
  PROVE  Pair!After(f, <<>>) = f /\ Pair!Failed(f, <<>>) = {}
<1>0. <<>> \in Seq(FlashOp)
  OBVIOUS
<1>1. PICK ops \in Seq(FlashOp) : ops = <<>>
  BY <1>0, Zenon
<1>2. Len(ops) = 0
  BY <1>1
<1>3. PICK h : Goes(h, f, ops)
  BY GoesThrough
<1>4. h[0] = f /\ Pair!After(f, ops) = h[0]
  BY <1>2, <1>3, GoesTo DEF Goes
<1>5. Pair!Failed(f, ops) = {}
  <2>1. \A g \in Pair!Failed(f, ops) : \E k \in 1 .. 0 : g \in Pair!Torn(h[k - 1], ops[k])
    BY <1>2, <1>3, GoesTo
  <2> QED
    BY <2>1
<1> QED
  BY <1>1, <1>4, <1>5

LEMMA OneOp ==
  ASSUME Pair!CustomPairAssumption, NEW f \in Sector, NEW a \in FlashOp
  PROVE  Pair!After(f, <<a>>) = Pair!Done(f, a) /\ Pair!Failed(f, <<a>>) \subseteq Pair!Torn(f, a)
<1>0. <<a>> \in Seq(FlashOp)
  OBVIOUS
<1>1. PICK ops \in Seq(FlashOp) : ops = <<a>>
  BY <1>0, Zenon
<1>2. Len(ops) = 1 /\ ops[1] = a
  BY <1>1
<1>3. PICK h : Goes(h, f, ops)
  BY GoesThrough
<1>4. h[0] = f /\ h[1] = Pair!Done(f, a)
  <2>1. 1 \in 1 .. Len(ops) /\ 1 - 1 = 0
    BY <1>2
  <2> QED
    BY <1>2, <1>3, <2>1 DEF Goes
<1>5. Pair!After(f, ops) = h[1]
  BY <1>2, <1>3, GoesTo
<1>6. ASSUME NEW g \in Pair!Failed(f, ops) PROVE g \in Pair!Torn(f, a)
  <2>1. PICK k \in 1 .. Len(ops) : g \in Pair!Torn(h[k - 1], ops[k])
    BY <1>3, <1>6, GoesTo
  <2>2. k = 1 /\ k - 1 = 0
    BY <1>2
  <2> QED
    BY <1>2, <1>4, <2>1, <2>2
<1> QED
  BY <1>1, <1>4, <1>5, <1>6

LEMMA TwoOps ==
  ASSUME Pair!CustomPairAssumption, NEW f \in Sector, NEW a \in FlashOp, NEW b \in FlashOp
  PROVE  /\ Pair!After(f, <<a, b>>) = Pair!Done(Pair!Done(f, a), b)
         /\ Pair!Failed(f, <<a, b>>) \subseteq Pair!Torn(f, a) \cup Pair!Torn(Pair!Done(f, a), b)
<1>0. <<a, b>> \in Seq(FlashOp)
  OBVIOUS
<1>1. PICK ops \in Seq(FlashOp) : ops = <<a, b>>
  BY <1>0, Zenon
<1>2. Len(ops) = 2 /\ ops[1] = a /\ ops[2] = b
  BY <1>1
<1>3. PICK h : Goes(h, f, ops)
  BY GoesThrough
<1>4. h[0] = f /\ h[1] = Pair!Done(f, a) /\ h[2] = Pair!Done(h[1], b)
  <2>1. 1 \in 1 .. Len(ops) /\ 1 - 1 = 0 /\ 2 \in 1 .. Len(ops) /\ 2 - 1 = 1
    BY <1>2
  <2> QED
    BY <1>2, <1>3, <2>1 DEF Goes
<1>5. Pair!After(f, ops) = h[2]
  BY <1>2, <1>3, GoesTo
<1>6. ASSUME NEW g \in Pair!Failed(f, ops) PROVE g \in Pair!Torn(f, a) \cup Pair!Torn(Pair!Done(f, a), b)
  <2>1. PICK k \in 1 .. Len(ops) : g \in Pair!Torn(h[k - 1], ops[k])
    BY <1>3, <1>6, GoesTo
  <2>2. (k = 1 /\ k - 1 = 0) \/ (k = 2 /\ k - 1 = 1)
    BY <1>2
  <2> QED
    BY <1>2, <1>4, <2>1, <2>2
<1> QED
  BY <1>1, <1>4, <1>5, <1>6

LEMMA JoinShort ==
  ASSUME NEW a, NEW b
  PROVE  /\ <<>> \o <<>> = <<>> /\ <<a>> \o <<>> = <<a>> /\ <<>> \o <<b>> = <<b>>
         /\ <<a>> \o <<b>> = <<a, b>>
<1> DEFINE S == {a, b}
<1>1. <<>> \in Seq(S) /\ <<a>> \in Seq(S) /\ <<b>> \in Seq(S) /\ <<a, b>> \in Seq(S)
  OBVIOUS
<1>2. <<>> \o <<>> = <<>>
  OBVIOUS
<1>3. <<a>> \o <<>> = <<a>>
  BY <1>1
<1>4. <<>> \o <<b>> = <<b>>
  BY <1>1
<1>5. <<a>> \o <<b>> = <<a, b>>
  <2> DEFINE x == <<a>>
             y == <<b>>
             z == <<a, b>>
  <2>1. x \in Seq(S) /\ Len(x) = 1 /\ x[1] = a /\ y \in Seq(S) /\ Len(y) = 1 /\ y[1] = b
        /\ z \in Seq(S) /\ Len(z) = 2 /\ z[1] = a /\ z[2] = b
    OBVIOUS
  <2> HIDE DEF x, y, z
  <2>2. /\ x \o y \in Seq(S) /\ Len(x \o y) = Len(x) + Len(y)
        /\ \A j \in 1 .. Len(x) + Len(y) : (x \o y)[j] = IF j <= Len(x) THEN x[j] ELSE y[j - Len(x)]
    BY <2>1, Joined
  <2> DEFINE v == x \o y
  <2>3. v \in Seq(S) /\ Len(v) = 2 /\ v[1] = a /\ v[2] = b
    BY <2>1, <2>2
  <2> HIDE DEF v
  <2>4. v = z
    BY <2>1, <2>3
  <2> QED
    BY <2>4 DEF v, x, y, z
<1> QED
  BY <1>2, <1>3, <1>4, <1>5

\* user_tbl_slave_mac_add: the oldest bond is marked when the table is full, and the
\* new one written when the sector is not.
LEMMA AddLog ==
  ASSUME Pair!CustomPairAssumption, NEW d \in Device, pair_idx \in -1 .. Entries,
         NEW u, Log(pair_flash, End, u), Len(u) = Len(pair_tbl), Len(u) <= MaxBonds,
         \A i \in 1 .. Len(u) : u[i].idx = pair_tbl[i].idx,
         NEW t, t = IF Len(u) >= MaxBonds THEN Pair!Deleted(u, 1) ELSE u
  PROVE  /\ t \in Seq(Bonded) /\ Len(t) < MaxBonds /\ Pair!DevicesIn(t) \subseteq Pair!DevicesIn(u)
         /\ pair_idx + 1 >= Entries => Log(Pair!After(pair_flash, Pair!AddOps(d)), Entries, t)
         /\ pair_idx + 1 < Entries =>
              \E x \in Bonded :
                /\ Log(Pair!After(pair_flash, Pair!AddOps(d)), pair_idx + 2, Append(t, x))
                /\ x.idx = pair_idx + 1
                /\ x.device = IF pair_flash[pair_idx + 1] = Pair!Free THEN d ELSE Pair!Odd
         /\ \A g \in Pair!Failed(pair_flash, Pair!AddOps(d)) : Survive(g, Pair!DevicesIn(t), Pair!DevicesIn(u))
<1>1. PICK f : f = pair_flash
  OBVIOUS
<1>3. PICK e : e = End
  OBVIOUS
<1>4. /\ Log(f, e, u) /\ Len(u) <= MaxBonds /\ u \in Seq(Bonded) /\ Len(u) \in Nat /\ f \in Sector
      /\ MaxBonds \in Nat /\ MaxBonds >= 1 /\ Entries \in Nat /\ Pair!Place = 0 .. Entries - 1 /\ d \in Peers
      /\ EndsAt(f, e)
  BY <1>1, <1>3, LogFound, TableType, PairConstants DEF Log, Pair!Place, Peers
<1> DEFINE full == Len(u) >= MaxBonds
           room == pair_idx + 1 < Entries
           m == Pair!Mark(u[1].idx)
           w == Pair!Write(e, d)
           f1 == Pair!Done(f, m)
           b == [idx |-> e, device |-> IF f[e] = Pair!Free THEN d ELSE Pair!Odd]
           ops == Pair!AddOps(d)
<1>5. /\ room => e = pair_idx + 1 /\ e + 1 = pair_idx + 2 /\ e < Entries /\ e \in Pair!Place
      /\ ~ room => e = Entries /\ pair_idx + 1 >= Entries
      /\ room <=> ~ (pair_idx + 1 >= Entries)
  BY <1>3, <1>4 DEF End
<1>6. ops = (IF full THEN <<m>> ELSE <<>>) \o (IF room THEN <<w>> ELSE <<>>)
  <2>1. full => 1 \in 1 .. Len(u)
    BY <1>4
  <2>2. full => u[1].idx = pair_tbl[1].idx
    BY <2>1
  <2> QED
    BY <1>5, <2>2 DEF Pair!AddOps
<1>7. full => 1 \in 1 .. Len(u) /\ u[1].idx \in Pair!Place /\ m \in FlashOp
  BY <1>4, TableType, OpTypes
<1>8. room => w \in FlashOp
  BY <1>4, <1>5, OpTypes
<1>9. t \in Seq(Bonded) /\ Len(t) < MaxBonds /\ Pair!DevicesIn(t) \subseteq Pair!DevicesIn(u)
  <2>1. CASE full
    <3>1. t = Pair!Deleted(u, 1)
      BY <2>1
    <3>2. t \in Seq(Bonded) /\ Len(t) = Len(u) - 1
      BY <1>4, <1>7, <2>1, <3>1, DeletedFacts
    <3>3. Pair!DevicesIn(t) \subseteq Pair!DevicesIn(u)
      BY <1>4, <1>7, <2>1, <3>1, TableType
    <3> QED
      BY <1>4, <3>2, <3>3
  <2>2. CASE ~ full
    BY <1>4, <2>2
  <2> QED
    BY <2>1, <2>2
<1>10. full => Log(f1, e, t) /\ f1 \in Sector /\ (room => f1[e] = f[e])
  <2>1. full => Log(f1, e, Pair!Deleted(u, 1))
    BY <1>4, <1>7, MarkLog
  <2>2. f1 = [f EXCEPT ![u[1].idx] = Pair!Dead]
    BY DEF Pair!Done, Pair!Mark
  <2>3. ASSUME full, room PROVE f1[e] = f[e]
    <3>1. f1[e] \in {Pair!Free, Pair!Spoilt}
      BY <1>5, <2>1, <2>3 DEF Log, EndsAt
    <3>2. Pair!Dead \notin {Pair!Free, Pair!Spoilt}
      BY Marks
    <3> QED
      BY <1>4, <1>5, <1>7, <2>2, <2>3, <3>1, <3>2 DEF Sector
  <2> QED
    BY <2>1, <2>3 DEF Log
<1>11. ~ full => t = u
  OBVIOUS
<1>16. room => b \in Bonded /\ b.idx = e /\ b.device = IF f[e] = Pair!Free THEN d ELSE Pair!Odd
  BY <1>4, <1>5, Marks DEF Bonded
<1> HIDE DEF full, ops, m, w, f1, b
<1>12. CASE full /\ room
  <2>1. ops = <<m, w>>
    BY <1>6, <1>12, JoinShort, Zenon
  <2>2. Pair!After(f, ops) = Pair!Done(f1, w) /\ Pair!Failed(f, ops) \subseteq Pair!Torn(f, m) \cup Pair!Torn(f1, w)
    BY <1>4, <1>7, <1>8, <1>12, <2>1, TwoOps DEF f1
  <2>3. PICK x : x = Pair!Done(f1, w)
    OBVIOUS
  <2>4. Log(x, e + 1, Append(t, b))
    <3>1. /\ Log(x, e + 1, Append(t, [idx |-> e, device |-> x[e].device]))
          /\ f1[e] = Pair!Free => x[e].device = d
          /\ f1[e] # Pair!Free => x[e].device = Pair!Odd
      <4>1. /\ Log(Pair!Done(f1, Pair!Write(e, d)), e + 1,
                   Append(t, [idx |-> e, device |-> Pair!Done(f1, Pair!Write(e, d))[e].device]))
            /\ f1[e] = Pair!Free => Pair!Done(f1, Pair!Write(e, d))[e].device = d
            /\ f1[e] # Pair!Free => Pair!Done(f1, Pair!Write(e, d))[e].device = Pair!Odd
        <5>1. Log(f1, e, t) /\ e < Entries /\ d \in Peers
          BY <1>4, <1>5, <1>10, <1>12
        <5> QED
          BY <5>1, WriteLog
      <4>2. x = Pair!Done(f1, Pair!Write(e, d))
        BY <2>3 DEF w
      <4> QED
        BY <4>1, <4>2, Zenon
    <3> QED
      BY <1>10, <1>12, <3>1 DEF b
  <2>5. \A g \in Pair!Torn(f, m) : Survive(g, Pair!DevicesIn(t), Pair!DevicesIn(u))
    <3>1. t = Pair!Deleted(u, 1)
      BY <1>12 DEF full
    <3> QED
      BY <1>4, <1>7, <1>12, <3>1, TornMark DEF m
  <2>6. \A g \in Pair!Torn(f1, w) : Survive(g, Pair!DevicesIn(t), Pair!DevicesIn(u))
    BY <1>4, <1>5, <1>9, <1>10, <1>12, TornWriteSurvive, SurviveLess DEF w
  <2>7. \A g \in Pair!Failed(f, ops) : Survive(g, Pair!DevicesIn(t), Pair!DevicesIn(u))
    BY <2>2, <2>5, <2>6
  <2> QED
    BY <1>1, <1>5, <1>9, <1>12, <1>16, <2>2, <2>3, <2>4, <2>7 DEF ops
<1>13. CASE full /\ ~ room
  <2>1. ops = <<m>>
    BY <1>6, <1>13, JoinShort, Zenon
  <2>2. Pair!After(f, ops) = f1 /\ Pair!Failed(f, ops) \subseteq Pair!Torn(f, m)
    BY <1>4, <1>7, <1>13, <2>1, OneOp DEF f1
  <2>3. \A g \in Pair!Torn(f, m) : Survive(g, Pair!DevicesIn(t), Pair!DevicesIn(u))
    <3>1. t = Pair!Deleted(u, 1)
      BY <1>13 DEF full
    <3> QED
      BY <1>4, <1>7, <1>13, <3>1, TornMark DEF m
  <2>4. \A g \in Pair!Failed(f, ops) : Survive(g, Pair!DevicesIn(t), Pair!DevicesIn(u))
    BY <2>2, <2>3
  <2> QED
    BY <1>1, <1>5, <1>9, <1>10, <1>13, <2>2, <2>4 DEF ops
<1>14. CASE ~ full /\ room
  <2>1. ops = <<w>>
    BY <1>6, <1>14, JoinShort, Zenon
  <2>2. Pair!After(f, ops) = Pair!Done(f, w) /\ Pair!Failed(f, ops) \subseteq Pair!Torn(f, w)
    BY <1>4, <1>8, <1>14, <2>1, OneOp
  <2>3. PICK x : x = Pair!Done(f, w)
    OBVIOUS
  <2>4. Log(x, e + 1, Append(t, b))
    <3>1. /\ Log(x, e + 1, Append(t, [idx |-> e, device |-> x[e].device]))
          /\ f[e] = Pair!Free => x[e].device = d
          /\ f[e] # Pair!Free => x[e].device = Pair!Odd
      <4>1. Log(f, e, t) /\ e < Entries /\ d \in Peers
        BY <1>4, <1>5, <1>11, <1>14
      <4>2. /\ Log(Pair!Done(f, Pair!Write(e, d)), e + 1,
                   Append(t, [idx |-> e, device |-> Pair!Done(f, Pair!Write(e, d))[e].device]))
            /\ f[e] = Pair!Free => Pair!Done(f, Pair!Write(e, d))[e].device = d
            /\ f[e] # Pair!Free => Pair!Done(f, Pair!Write(e, d))[e].device = Pair!Odd
        BY <4>1, WriteLog
      <4>3. x = Pair!Done(f, Pair!Write(e, d))
        BY <2>3 DEF w
      <4> QED
        BY <4>2, <4>3, Zenon
    <3> QED
      BY <1>14, <3>1 DEF b
  <2>5. \A g \in Pair!Torn(f, w) : Survive(g, Pair!DevicesIn(t), Pair!DevicesIn(u))
    BY <1>4, <1>5, <1>9, <1>11, <1>14, TornWriteSurvive DEF w
  <2>6. \A g \in Pair!Failed(f, ops) : Survive(g, Pair!DevicesIn(t), Pair!DevicesIn(u))
    BY <2>2, <2>5
  <2> QED
    BY <1>1, <1>5, <1>9, <1>14, <1>16, <2>2, <2>3, <2>4, <2>6 DEF ops
<1>15. CASE ~ full /\ ~ room
  <2>1. ops = <<>>
    BY <1>6, <1>15, JoinShort, Zenon
  <2>2. Pair!After(f, ops) = f /\ Pair!Failed(f, ops) = {}
    BY <1>4, <2>1, NoOps
  <2> QED
    BY <1>1, <1>4, <1>5, <1>9, <1>11, <1>15, <2>2 DEF ops
<1> QED
  BY <1>12, <1>13, <1>14, <1>15

-----------------------------------------------------------------------------
LEMMA LikeFacts ==
  ASSUME NEW t \in Seq(Bonded), NEW u \in Seq(Bonded), NEW k, Like(t, u, k)
  PROVE  /\ Pair!DevicesIn(t) \ {Pair!Odd} \subseteq Pair!DevicesIn(u)
         /\ k \cap Pair!DevicesIn(u) \subseteq Pair!DevicesIn(t)
         /\ \A i \in 1 .. Len(t) : Like(Pair!Deleted(t, i), Pair!Deleted(u, i), k)
         /\ \A r : r \subseteq k => Like(t, u, r)
<1>1. /\ Len(t) = Len(u) /\ Len(t) \in Nat
      /\ \A i \in 1 .. Len(t) : /\ t[i].idx = u[i].idx
                                /\ t[i].device = u[i].device \/ (t[i].device = Pair!Odd /\ u[i].device \notin k)
  BY DEF Like
<1>2. Pair!DevicesIn(t) \ {Pair!Odd} \subseteq Pair!DevicesIn(u)
  BY <1>1 DEF Pair!DevicesIn
<1>3. k \cap Pair!DevicesIn(u) \subseteq Pair!DevicesIn(t)
  BY <1>1 DEF Pair!DevicesIn
<1>4. ASSUME NEW i \in 1 .. Len(t) PROVE Like(Pair!Deleted(t, i), Pair!Deleted(u, i), k)
  <2> DEFINE a == Pair!Deleted(t, i)
             b == Pair!Deleted(u, i)
  <2>1. Len(a) = Len(t) - 1 /\ \A j \in 1 .. Len(t) - 1 : a[j] = IF j < i THEN t[j] ELSE t[j + 1]
    BY DeletedFacts
  <2>2. Len(b) = Len(u) - 1 /\ \A j \in 1 .. Len(u) - 1 : b[j] = IF j < i THEN u[j] ELSE u[j + 1]
    BY <1>1, DeletedFacts
  <2> HIDE DEF a, b
  <2>3. ASSUME NEW j \in 1 .. Len(a)
        PROVE  /\ a[j].idx = b[j].idx
               /\ a[j].device = b[j].device \/ (a[j].device = Pair!Odd /\ b[j].device \notin k)
    <3>1. j \in 1 .. Len(t) - 1 /\ j \in 1 .. Len(u) - 1 /\ j \in 1 .. Len(t) /\ j + 1 \in 1 .. Len(t)
      BY <1>1, <2>1
    <3> QED
      BY <1>1, <2>1, <2>2, <3>1
  <2>4. Like(a, b, k)
    BY <1>1, <2>1, <2>2, <2>3 DEF Like
  <2> QED
    BY <2>4 DEF a, b
<1>5. ASSUME NEW r, r \subseteq k PROVE Like(t, u, r)
  BY <1>1, <1>5 DEF Like
<1> QED
  BY <1>2, <1>3, <1>4, <1>5

LEMMA LikeAppend ==
  ASSUME NEW t \in Seq(Bonded), NEW u \in Seq(Bonded), NEW k, Like(t, u, k),
         NEW x \in Bonded, NEW y \in Bonded, x.idx = y.idx, y.device \notin Pair!DevicesIn(u),
         NEW r, r \subseteq k \cup {y.device},
         x.device = y.device \/ (x.device = Pair!Odd /\ y.device \notin r)
  PROVE  Like(Append(t, x), Append(u, y), r)
<1>1. /\ Len(t) = Len(u) /\ Len(t) \in Nat
      /\ \A i \in 1 .. Len(t) : /\ t[i].idx = u[i].idx
                                /\ t[i].device = u[i].device \/ (t[i].device = Pair!Odd /\ u[i].device \notin k)
  BY DEF Like
<1> DEFINE a == Append(t, x)
           b == Append(u, y)
<1>2. Len(a) = Len(t) + 1 /\ a[Len(t) + 1] = x /\ \A i \in 1 .. Len(t) : a[i] = t[i]
  OBVIOUS
<1>3. Len(b) = Len(u) + 1 /\ b[Len(u) + 1] = y /\ \A i \in 1 .. Len(u) : b[i] = u[i]
  OBVIOUS
<1>4. \A i \in 1 .. Len(u) : u[i].device # y.device
  BY DEF Pair!DevicesIn
<1> HIDE DEF a, b
<1>5. ASSUME NEW i \in 1 .. Len(a)
      PROVE  /\ a[i].idx = b[i].idx
             /\ a[i].device = b[i].device \/ (a[i].device = Pair!Odd /\ b[i].device \notin r)
  <2>1. i \in 1 .. Len(t) \/ i = Len(t) + 1
    BY <1>1, <1>2
  <2>2. CASE i \in 1 .. Len(t)
    BY <1>1, <1>2, <1>3, <1>4, <2>2
  <2>3. CASE i = Len(t) + 1
    BY <1>1, <1>2, <1>3, <2>3
  <2> QED
    BY <2>1, <2>2, <2>3
<1>6. Like(a, b, r)
  BY <1>1, <1>2, <1>3, <1>5 DEF Like
<1> QED
  BY <1>6 DEF a, b

-----------------------------------------------------------------------------
LEMMA PairStart ==
  ASSUME Pair!CustomPairAssumption, Pair!Init
  PROVE  PairInv
<1>1. Log(pair_flash, 0, <<>>)
  BY EraseLog DEF Pair!Init
<1>2. 0 \in 0 .. Entries /\ <<>> \in Seq(Bonded) /\ Len(<<>>) <= MaxBonds /\ -1 \in -1 .. Entries + 1
  BY PairConstants
<1>3. Survive(pair_flash, {}, Device)
  <2>1. Pair!DevicesIn(<<>>) = {}
    BY DEF Pair!DevicesIn
  <2> QED
    BY <1>1, <1>2, <2>1 DEF Survive
<1>4. /\ pair_idx = -1 /\ pair_mode = "off" /\ pair_kept = {} /\ pair_tbl = <<>>
  BY DEF Pair!Init
<1> QED
  BY <1>2, <1>3, <1>4 DEF PairInv

\* What a start could find after power failed was there before.
NoneBack ==
  pair_mode' = "off" =>
    Pair!DevicesIn(Pair!Found(pair_flash')) \ {Pair!Odd}
      \subseteq Pair!DevicesIn(IF pair_mode = "on" THEN pair_tbl ELSE Pair!Found(pair_flash))

\* An operation that power cut off.
LEMMA PowerStep ==
  ASSUME Pair!CustomPairAssumption, NEW ops, NEW safe, safe \subseteq Device, Pair!PowerFails(ops, safe),
         NEW u \in Seq(Bonded), \A g \in Pair!Failed(pair_flash, ops) : Survive(g, safe, Pair!DevicesIn(u)),
         Pair!DevicesIn(u) \ {Pair!Odd}
           \subseteq Pair!DevicesIn(IF pair_mode = "on" THEN pair_tbl ELSE Pair!Found(pair_flash))
  PROVE  PairInv' /\ NoneBack
<1>1. /\ pair_flash' \in Pair!Failed(pair_flash, ops) /\ pair_mode' = "off" /\ pair_kept' = safe
      /\ pair_tbl' = <<>> /\ pair_idx' = -1
  BY DEF Pair!PowerFails
<1>2. Survive(pair_flash', pair_kept', Pair!DevicesIn(u))
  BY <1>1
<1>3. Survive(pair_flash', pair_kept', Device)
  BY <1>2, TableType, SurviveLess
<1>4. -1 \in -1 .. Entries + 1
  BY PairConstants
<1>5. Pair!DevicesIn(Pair!Found(pair_flash')) \ {Pair!Odd} \subseteq Pair!DevicesIn(u)
  BY <1>2, LogFound DEF Survive
<1>6. NoneBack
  BY <1>5 DEF NoneBack
<1> QED
  BY <1>1, <1>3, <1>4, <1>6 DEF PairInv

\* The place user_tbl_slave_mac_search returns.
LEMMA SearchFacts ==
  ASSUME NEW d, Len(pair_tbl) \in Nat
  PROVE  IF d \in Pair!DevicesIn(pair_tbl) THEN Pair!user_tbl_slave_mac_search(d) \in 1 .. Len(pair_tbl)
         ELSE Pair!user_tbl_slave_mac_search(d) = 0
<1> DEFINE T == {i \in 1 .. Len(pair_tbl) : pair_tbl[i].device = d}
           First(i) == pair_tbl[i].device = d /\ \A j \in 1 .. i - 1 : pair_tbl[j].device # d
<1>1. CASE d \notin Pair!DevicesIn(pair_tbl)
  BY <1>1 DEF Pair!user_tbl_slave_mac_search, Pair!DevicesIn
<1>2. CASE d \in Pair!DevicesIn(pair_tbl)
  <2>1. /\ Pair!user_tbl_slave_mac_search(d) = CHOOSE i \in 1 .. Len(pair_tbl) : First(i)
        /\ T # {}
    BY <1>2 DEF Pair!user_tbl_slave_mac_search, Pair!DevicesIn
  <2>2. PICK i \in T : \A j \in T : i <= j
    <3>1. T \subseteq Nat
      OBVIOUS
    <3> HIDE DEF T
    <3> QED
      BY <2>1, <3>1, LeastNumber
  <2>3. i \in 1 .. Len(pair_tbl) /\ First(i)
    <3>1. ASSUME NEW j \in 1 .. i - 1 PROVE pair_tbl[j].device # d
      <4>1. j \in 1 .. Len(pair_tbl) /\ ~ (i <= j)
        BY <2>2
      <4> QED
        BY <2>2, <4>1
    <3> QED
      BY <2>2, <3>1
  <2> HIDE DEF First
  <2> QED
    BY <1>2, <2>1, <2>3
<1> QED
  BY <1>1, <1>2

LEMMA StartStep ==
  ASSUME Pair!CustomPairAssumption, ~ TornErase, PairInv, Pair!Start
  PROVE  PairInv' /\ NoneBack
<1>1. pair_mode = "off" /\ Survive(pair_flash, pair_kept, Device)
  BY DEF PairInv, Pair!Start
<1>2. PICK e \in 0 .. Entries, t \in Seq(Bonded) :
        Log(pair_flash, e, t) /\ Len(t) <= MaxBonds /\ pair_kept \subseteq Pair!DevicesIn(t)
  BY <1>1 DEF Survive
<1>3. Pair!Found(pair_flash) = t /\ Pair!End(pair_flash) = e
  BY <1>2, LogFound
<1>4. /\ Len(t) \in Nat /\ Pair!DevicesIn(t) \ {Pair!Odd} \subseteq Device /\ Entries \in Nat
      /\ Len(t) < Entries /\ MaxBonds \in Nat /\ ~ (Len(t) > MaxBonds)
  BY <1>2, TableType, PairConstants
<1>5. \/ /\ pair_mode' = "on" /\ pair_tbl' = t /\ pair_idx' = e - 1 /\ pair_kept' = Pair!DevicesIn(t) \ {Pair!Odd}
         /\ pair_flash' = pair_flash
      \/ /\ pair_flash' = Pair!After(pair_flash, Pair!Clean(t)) /\ pair_mode' = "on" /\ pair_idx' = Len(t) - 1
         /\ pair_tbl' = [i \in 1 .. Len(t) |-> [t[i] EXCEPT !.idx = i - 1]]
         /\ pair_kept' = Pair!DevicesIn(t) \ {Pair!Odd}
      \/ Pair!PowerFails(Pair!Clean(t), {})
  BY <1>3, <1>4 DEF Pair!Start, Pair!Stuck
<1>6. \A v \in Seq(Bonded) : \A k : Like(v, v, k)
  BY DEF Like
<1>7. CASE /\ pair_mode' = "on" /\ pair_tbl' = t /\ pair_idx' = e - 1
           /\ pair_kept' = Pair!DevicesIn(t) \ {Pair!Odd} /\ pair_flash' = pair_flash
  <2>1. End' = e /\ pair_idx' \in -1 .. Entries + 1
    BY <1>2, <1>4, <1>7 DEF End
  <2>2. Log(pair_flash', End', t) /\ Like(t, pair_tbl', pair_kept') /\ pair_kept' \subseteq Pair!DevicesIn(t)
    BY <1>2, <1>6, <1>7, <2>1
  <2> QED
    BY <1>2, <1>4, <1>7, <2>1, <2>2 DEF PairInv, NoneBack
<1>8. CASE /\ pair_flash' = Pair!After(pair_flash, Pair!Clean(t)) /\ pair_mode' = "on" /\ pair_idx' = Len(t) - 1
           /\ pair_tbl' = [i \in 1 .. Len(t) |-> [t[i] EXCEPT !.idx = i - 1]]
           /\ pair_kept' = Pair!DevicesIn(t) \ {Pair!Odd}
  <2>1. End' = Len(t) /\ pair_idx' \in -1 .. Entries + 1
    BY <1>4, <1>8 DEF End
  <2>2. Log(pair_flash', Len(t), pair_tbl')
    BY <1>2, <1>8, CleanLog
  <2>3. PICK u : u = pair_tbl'
    OBVIOUS
  <2>4. Log(pair_flash', End', u) /\ u \in Seq(Bonded) /\ Like(u, pair_tbl', pair_kept')
    BY <1>6, <2>1, <2>2, <2>3, LogFound
  <2>5. Len(u) = Len(t)
    BY <1>4, <1>8, <2>3
  <2>6. Pair!DevicesIn(u) = Pair!DevicesIn(t)
    <3>1. \A i \in 1 .. Len(t) : u[i].device = t[i].device
      <4>1. \A i \in 1 .. Len(t) : u[i] = [t[i] EXCEPT !.idx = i - 1]
        BY <1>8, <2>3
      <4>2. \A i \in 1 .. Len(t) : t[i] \in Bonded
        BY <1>2, TableType
      <4>3. \A i \in 1 .. Len(t) : [t[i] EXCEPT !.idx = i - 1].device = t[i].device
        BY <4>2 DEF Bonded
      <4> QED
        BY <4>1, <4>3
    <3> QED
      BY <2>5, <3>1 DEF Pair!DevicesIn
  <2> QED
    BY <1>2, <1>4, <1>8, <2>1, <2>3, <2>4, <2>5, <2>6 DEF PairInv, NoneBack
<1>9. CASE Pair!PowerFails(Pair!Clean(t), {})
  <2>1. \A g \in Pair!Failed(pair_flash, Pair!Clean(t)) : Survive(g, {}, Pair!DevicesIn(t))
    BY <1>2, CleanLog
  <2>2. (IF pair_mode = "on" THEN pair_tbl ELSE Pair!Found(pair_flash)) = t
    BY <1>1, <1>3
  <2> QED
    BY <1>9, <2>1, <2>2, PowerStep
<1> QED
  BY <1>5, <1>7, <1>8, <1>9

LEMMA AddStep ==
  ASSUME Pair!CustomPairAssumption, PairInv, NEW d \in Device, Pair!Add(d),
         Pair!user_tbl_slave_mac_search(d) = 0
  PROVE  PairInv' /\ NoneBack
<1>1. /\ pair_mode = "on" /\ pair_idx \in -1 .. Entries /\ Entries \in Nat /\ MaxBonds \in Nat
      /\ pair_tbl \in Seq(Bonded) /\ Len(pair_tbl) <= MaxBonds /\ MaxBonds >= 1 /\ pair_kept \subseteq Device
  BY PairConstants DEF PairInv, Pair!Add
<1>2. PICK u \in Seq(Bonded) :
        Log(pair_flash, End, u) /\ Like(u, pair_tbl, pair_kept) /\ pair_kept \subseteq Pair!DevicesIn(u)
  BY <1>1 DEF PairInv
<1>3. Len(u) = Len(pair_tbl) /\ Len(u) \in Nat /\ \A i \in 1 .. Len(u) : u[i].idx = pair_tbl[i].idx
  BY <1>2 DEF Like
<1>0. PICK t \in {IF Len(pair_tbl) >= MaxBonds THEN Pair!Deleted(pair_tbl, 1) ELSE pair_tbl},
           room \in {pair_idx + 1 < Entries} :
        \/ /\ pair_idx' = pair_idx + 1 /\ pair_flash' = Pair!After(pair_flash, Pair!AddOps(d))
           /\ pair_tbl' = IF room THEN Append(t, [idx |-> pair_idx + 1, device |-> d]) ELSE t
           /\ pair_kept' = (pair_kept \cap Pair!DevicesIn(t))
                            \cup (IF room /\ pair_flash[pair_idx + 1] = Pair!Free THEN {d} ELSE {})
           /\ pair_full' = (pair_full \/ ~ room) /\ UNCHANGED <<pair_mode, pair_failures>>
        \/ Pair!PowerFails(Pair!AddOps(d), pair_kept \cap Pair!DevicesIn(t))
  BY DEF Pair!Add
<1>4. /\ t = IF Len(pair_tbl) >= MaxBonds THEN Pair!Deleted(pair_tbl, 1) ELSE pair_tbl
      /\ room = (pair_idx + 1 < Entries)
      /\ \/ /\ pair_idx' = pair_idx + 1 /\ pair_flash' = Pair!After(pair_flash, Pair!AddOps(d))
            /\ pair_tbl' = IF room THEN Append(t, [idx |-> pair_idx + 1, device |-> d]) ELSE t
            /\ pair_kept' = (pair_kept \cap Pair!DevicesIn(t))
                             \cup (IF room /\ pair_flash[pair_idx + 1] = Pair!Free THEN {d} ELSE {})
            /\ pair_mode' = pair_mode
         \/ Pair!PowerFails(Pair!AddOps(d), pair_kept \cap Pair!DevicesIn(t))
  <2>2. t = (IF Len(pair_tbl) >= MaxBonds THEN Pair!Deleted(pair_tbl, 1) ELSE pair_tbl)
    OBVIOUS
  <2>3. room = (pair_idx + 1 < Entries)
    BY Zenon
  <2>4. \/ /\ pair_idx' = pair_idx + 1 /\ pair_flash' = Pair!After(pair_flash, Pair!AddOps(d))
           /\ pair_tbl' = IF room THEN Append(t, [idx |-> pair_idx + 1, device |-> d]) ELSE t
           /\ pair_kept' = (pair_kept \cap Pair!DevicesIn(t))
                            \cup (IF room /\ pair_flash[pair_idx + 1] = Pair!Free THEN {d} ELSE {})
           /\ pair_mode' = pair_mode
        \/ Pair!PowerFails(Pair!AddOps(d), pair_kept \cap Pair!DevicesIn(t))
    BY <1>0, Zenon
  <2> QED
    BY <2>2, <2>3, <2>4, Zenon
<1>5. PICK v : v = IF Len(u) >= MaxBonds THEN Pair!Deleted(u, 1) ELSE u
  OBVIOUS
<1>6. /\ v \in Seq(Bonded) /\ Len(v) < MaxBonds /\ Pair!DevicesIn(v) \subseteq Pair!DevicesIn(u)
      /\ pair_idx + 1 >= Entries => Log(Pair!After(pair_flash, Pair!AddOps(d)), Entries, v)
      /\ pair_idx + 1 < Entries =>
           \E x \in Bonded :
             /\ Log(Pair!After(pair_flash, Pair!AddOps(d)), pair_idx + 2, Append(v, x))
             /\ x.idx = pair_idx + 1
             /\ x.device = IF pair_flash[pair_idx + 1] = Pair!Free THEN d ELSE Pair!Odd
      /\ \A g \in Pair!Failed(pair_flash, Pair!AddOps(d)) : Survive(g, Pair!DevicesIn(v), Pair!DevicesIn(u))
  BY <1>1, <1>2, <1>3, <1>5, AddLog
<1>7. /\ t \in Seq(Bonded) /\ Like(v, t, pair_kept) /\ Pair!DevicesIn(t) \subseteq Pair!DevicesIn(pair_tbl)
      /\ Len(t) = Len(v)
  <2>1. CASE Len(u) >= MaxBonds
    <3>1. v = Pair!Deleted(u, 1) /\ t = Pair!Deleted(pair_tbl, 1) /\ 1 \in 1 .. Len(u) /\ 1 \in 1 .. Len(pair_tbl)
      BY <1>1, <1>3, <1>4, <1>5, <2>1
    <3>2. t \in Seq(Bonded) /\ Pair!DevicesIn(t) \subseteq Pair!DevicesIn(pair_tbl)
      BY <1>1, <3>1, DeletedFacts, TableType
    <3>3. Like(v, t, pair_kept)
      BY <1>1, <1>2, <3>1, LikeFacts
    <3> QED
      BY <3>2, <3>3 DEF Like
  <2>2. CASE ~ (Len(u) >= MaxBonds)
    BY <1>1, <1>2, <1>3, <1>4, <1>5, <2>2
  <2> QED
    BY <2>1, <2>2
<1>8. d \notin Pair!DevicesIn(pair_tbl) /\ d \notin Pair!DevicesIn(t)
  <2>1. Len(pair_tbl) \in Nat
    BY <1>1, TableType
  <2>2. d \notin Pair!DevicesIn(pair_tbl)
    BY <2>1, SearchFacts
  <2> QED
    BY <1>7, <2>2
<1>9. pair_kept \cap Pair!DevicesIn(t) \subseteq Pair!DevicesIn(v)
  BY <1>6, <1>7, LikeFacts
<1>10. CASE /\ pair_idx' = pair_idx + 1 /\ pair_flash' = Pair!After(pair_flash, Pair!AddOps(d))
            /\ pair_tbl' = IF room THEN Append(t, [idx |-> pair_idx + 1, device |-> d]) ELSE t
            /\ pair_kept' = (pair_kept \cap Pair!DevicesIn(t))
                            \cup (IF room /\ pair_flash[pair_idx + 1] = Pair!Free THEN {d} ELSE {})
            /\ pair_mode' = pair_mode
  <2>1. /\ pair_tbl' \in Seq(Bonded) /\ Len(pair_tbl') <= MaxBonds
        /\ \E w \in Seq(Bonded) :
             Log(pair_flash', End', w) /\ Like(w, pair_tbl', pair_kept') /\ pair_kept' \subseteq Pair!DevicesIn(w)
    <3>1. CASE pair_idx + 1 >= Entries
      <4>1. ~ room
        <5>1. ~ (pair_idx + 1 < Entries)
          BY <1>1, <3>1, PairConstants
        <5> QED
          BY <1>4, <5>1, Zenon
      <4>2. End' = Entries /\ pair_tbl' = t /\ pair_kept' = pair_kept \cap Pair!DevicesIn(t)
        BY <1>1, <1>10, <3>1, <4>1 DEF End
      <4>3. Log(pair_flash', End', v)
        BY <1>6, <1>10, <3>1, <4>2
      <4>4. Like(v, pair_tbl', pair_kept')
        BY <1>6, <1>7, <4>2, LikeFacts
      <4>5. Len(t) \in Nat
        BY <1>7, TableType
      <4> QED
        BY <1>1, <1>6, <1>7, <1>9, <4>2, <4>3, <4>4, <4>5
    <3>2. CASE ~ (pair_idx + 1 >= Entries)
      <4>1. pair_idx + 1 < Entries /\ room
        <5>1. pair_idx + 1 < Entries
          BY <1>1, <3>2, PairConstants
        <5> QED
          BY <1>4, <5>1, Zenon
      <4>2. PICK x \in Bonded :
              /\ Log(pair_flash', pair_idx + 2, Append(v, x)) /\ x.idx = pair_idx + 1
              /\ x.device = IF pair_flash[pair_idx + 1] = Pair!Free THEN d ELSE Pair!Odd
        BY <1>6, <1>10, <4>1
      <4>3. PICK y : y = [idx |-> pair_idx + 1, device |-> d]
        OBVIOUS
      <4>4. y \in Bonded /\ y.idx = x.idx /\ y.device = d
        <5>1. pair_idx + 1 \in Pair!Place /\ d \in Peers
          BY <1>1, <4>1 DEF Pair!Place, Peers
        <5> QED
          BY <4>2, <4>3, <5>1 DEF Bonded
      <4>5. pair_tbl' = Append(t, y)
        BY <1>10, <4>1, <4>3
      <4>6. End' = pair_idx + 2
        BY <1>1, <1>10, <4>1 DEF End
      <4>7. PICK k : k = pair_kept'
        OBVIOUS
      <4>8. /\ k \subseteq pair_kept \cup {d} /\ (x.device = d \/ (x.device = Pair!Odd /\ d \notin k))
            /\ k \subseteq Pair!DevicesIn(v) \cup {x.device}
        BY <1>8, <1>9, <1>10, <4>1, <4>2, <4>7
      <4>9. Like(Append(v, x), Append(t, y), k)
        BY <1>6, <1>7, <1>8, <4>4, <4>8, LikeAppend
      <4>10. /\ Pair!DevicesIn(v) \subseteq Pair!DevicesIn(Append(v, x))
             /\ x.device \in Pair!DevicesIn(Append(v, x)) /\ Append(v, x) \in Seq(Bonded)
        BY <1>6, TableType
      <4>11. Append(t, y) \in Seq(Bonded) /\ Len(Append(t, y)) <= MaxBonds
        BY <1>1, <1>6, <1>7, <4>4, TableType
      <4> QED
        BY <4>2, <4>5, <4>6, <4>7, <4>8, <4>9, <4>10, <4>11
    <3> QED
      BY <3>1, <3>2
  <2>2. pair_idx' \in -1 .. Entries + 1
    BY <1>1, <1>10
  <2>3. pair_kept' \subseteq Device
    BY <1>1, <1>10
  <2>4. pair_mode' = "on"
    BY <1>1, <1>10
  <2> QED
    BY <2>1, <2>2, <2>3, <2>4 DEF PairInv, NoneBack
<1>11. CASE Pair!PowerFails(Pair!AddOps(d), pair_kept \cap Pair!DevicesIn(t))
  <2>1. pair_kept \cap Pair!DevicesIn(t) \subseteq Device
    BY <1>1
  <2>2. \A g \in Pair!Failed(pair_flash, Pair!AddOps(d)) :
          Survive(g, pair_kept \cap Pair!DevicesIn(t), Pair!DevicesIn(u))
    BY <1>6, <1>9, SurviveLess
  <2>3. Pair!DevicesIn(u) \ {Pair!Odd} \subseteq Pair!DevicesIn(IF pair_mode = "on" THEN pair_tbl ELSE Pair!Found(pair_flash))
    BY <1>1, <1>2, LikeFacts
  <2> QED
    BY <1>11, <2>1, <2>2, <2>3, PowerStep
<1> QED
  BY <1>4, <1>10, <1>11

LEMMA DeleteStep ==
  ASSUME Pair!CustomPairAssumption, PairInv, NEW d \in Device, Pair!DeleteByAdr(d)
  PROVE  PairInv' /\ NoneBack
<1>1. /\ pair_mode = "on" /\ pair_idx \in -1 .. Entries + 1 /\ pair_tbl \in Seq(Bonded)
      /\ Len(pair_tbl) <= MaxBonds /\ Len(pair_tbl) \in Nat /\ pair_kept \subseteq Device
  BY TableType DEF PairInv, Pair!DeleteByAdr
<1>2. PICK u \in Seq(Bonded) :
        Log(pair_flash, End, u) /\ Like(u, pair_tbl, pair_kept) /\ pair_kept \subseteq Pair!DevicesIn(u)
  BY <1>1 DEF PairInv
<1>3. PICK i : /\ i = Pair!user_tbl_slave_mac_search(d) /\ i # 0
               /\ \/ /\ pair_flash' = Pair!After(pair_flash, Pair!DeleteOps(i)) /\ pair_tbl' = Pair!Deleted(pair_tbl, i)
                     /\ pair_kept' = pair_kept \cap Pair!DevicesIn(pair_tbl')
                     /\ pair_idx' = pair_idx /\ pair_mode' = pair_mode
                  \/ Pair!PowerFails(Pair!DeleteOps(i), pair_kept \cap Pair!DevicesIn(Pair!Deleted(pair_tbl, i)))
  BY DEF Pair!DeleteByAdr
<1>4. i \in 1 .. Len(pair_tbl)
  BY <1>1, <1>3, SearchFacts
<1>5. i \in 1 .. Len(u) /\ u[i].idx = pair_tbl[i].idx /\ Len(u) = Len(pair_tbl) /\ pair_flash \in Sector
  BY <1>2, <1>4 DEF Like, Log
<1>6. PICK t, v : t = Pair!Deleted(pair_tbl, i) /\ v = Pair!Deleted(u, i)
  OBVIOUS
<1>7. /\ t \in Seq(Bonded) /\ Len(t) = Len(pair_tbl) - 1 /\ v \in Seq(Bonded) /\ Like(v, t, pair_kept)
  BY <1>1, <1>2, <1>4, <1>5, <1>6, DeletedFacts, LikeFacts
<1>8. pair_kept \cap Pair!DevicesIn(t) \subseteq Pair!DevicesIn(v)
  BY <1>7, LikeFacts
<1>9. PICK m \in FlashOp : m = Pair!Mark(pair_tbl[i].idx)
  BY <1>1, <1>4, TableType, OpTypes
<1>10. Pair!DeleteOps(i) = <<m>>
  BY <1>9 DEF Pair!DeleteOps
<1>11. Pair!After(pair_flash, <<m>>) = Pair!Done(pair_flash, m) /\ Pair!Failed(pair_flash, <<m>>) \subseteq Pair!Torn(pair_flash, m)
  BY <1>5, OneOp
<1>12. CASE /\ pair_flash' = Pair!After(pair_flash, Pair!DeleteOps(i)) /\ pair_tbl' = Pair!Deleted(pair_tbl, i)
            /\ pair_kept' = pair_kept \cap Pair!DevicesIn(pair_tbl')
            /\ pair_idx' = pair_idx /\ pair_mode' = pair_mode
  <2>1. Log(Pair!Done(pair_flash, Pair!Mark(u[i].idx)), End, v)
    BY <1>2, <1>5, <1>6, MarkLog
  <2>2. End' = End
    BY <1>12 DEF End
  <2>3. Log(pair_flash', End', v)
    BY <1>5, <1>9, <1>10, <1>11, <1>12, <2>1, <2>2
  <2>4. pair_tbl' = t /\ pair_kept' = pair_kept \cap Pair!DevicesIn(t)
    BY <1>6, <1>12
  <2>5. Like(v, pair_tbl', pair_kept') /\ pair_kept' \subseteq Pair!DevicesIn(v)
    BY <1>7, <1>8, <2>4, LikeFacts
  <2>6. Len(pair_tbl') <= MaxBonds
    BY <1>1, <1>7, <2>4, PairConstants
  <2> QED
    BY <1>1, <1>7, <1>12, <2>3, <2>4, <2>5, <2>6 DEF PairInv, NoneBack
<1>13. CASE Pair!PowerFails(Pair!DeleteOps(i), pair_kept \cap Pair!DevicesIn(Pair!Deleted(pair_tbl, i)))
  <2>1. Len(u) <= MaxBonds
    BY <1>1, <1>5
  <2>2. \A g \in Pair!Torn(pair_flash, Pair!Mark(u[i].idx)) : Survive(g, Pair!DevicesIn(v), Pair!DevicesIn(u))
    BY <1>2, <1>5, <1>6, <2>1, TornMark
  <2>3. \A g \in Pair!Failed(pair_flash, Pair!DeleteOps(i)) :
          Survive(g, pair_kept \cap Pair!DevicesIn(t), Pair!DevicesIn(u))
    BY <1>5, <1>8, <1>9, <1>10, <1>11, <2>2, SurviveLess
  <2>4. Pair!DevicesIn(u) \ {Pair!Odd} \subseteq Pair!DevicesIn(IF pair_mode = "on" THEN pair_tbl ELSE Pair!Found(pair_flash))
    BY <1>1, <1>2, LikeFacts
  <2>5. pair_kept \cap Pair!DevicesIn(t) \subseteq Device
    BY <1>1
  <2> QED
    BY <1>6, <1>13, <2>3, <2>4, <2>5, PowerStep
<1> QED
  BY <1>3, <1>12, <1>13

LEMMA DeleteAllStep ==
  ASSUME Pair!CustomPairAssumption, PairInv, Pair!DeleteAll
  PROVE  PairInv' /\ NoneBack
<1>1. /\ pair_mode = "on" /\ pair_idx \in -1 .. Entries + 1 /\ pair_tbl \in Seq(Bonded) /\ Len(pair_tbl) <= MaxBonds
  BY DEF PairInv, Pair!DeleteAll
<1>2. PICK u \in Seq(Bonded) : Log(pair_flash, End, u) /\ Like(u, pair_tbl, pair_kept)
  BY <1>1 DEF PairInv
<1>3. /\ Log(Pair!After(pair_flash, Pair!DeleteAllOps), End, <<>>)
      /\ \A g \in Pair!Failed(pair_flash, Pair!DeleteAllOps) : Survive(g, {}, Pair!DevicesIn(u))
  BY <1>1, <1>2, DeleteAllLog
<1>4. CASE /\ pair_flash' = Pair!After(pair_flash, Pair!DeleteAllOps) /\ pair_tbl' = <<>> /\ pair_kept' = {}
           /\ pair_idx' = pair_idx /\ pair_mode' = pair_mode
  <2>1. End' = End
    BY <1>4 DEF End
  <2>2. PICK w \in Seq(Bonded) : w = <<>> /\ Len(w) = 0
    <3>1. <<>> \in Seq(Bonded) /\ Len(<<>>) = 0
      OBVIOUS
    <3> QED
      BY <3>1
  <2>3. Log(pair_flash', End', w) /\ Like(w, pair_tbl', pair_kept') /\ pair_kept' \subseteq Pair!DevicesIn(w)
    BY <1>3, <1>4, <2>1, <2>2 DEF Like
  <2>4. pair_tbl' \in Seq(Bonded) /\ Len(pair_tbl') <= MaxBonds
    BY <1>4, <2>2, PairConstants
  <2> QED
    BY <1>1, <1>4, <2>2, <2>3, <2>4 DEF PairInv, NoneBack
<1>5. CASE Pair!PowerFails(Pair!DeleteAllOps, {})
  <2>1. Pair!DevicesIn(u) \ {Pair!Odd} \subseteq Pair!DevicesIn(IF pair_mode = "on" THEN pair_tbl ELSE Pair!Found(pair_flash))
    BY <1>1, <1>2, LikeFacts
  <2> QED
    BY <1>3, <1>5, <2>1, PowerStep
<1> QED
  BY <1>4, <1>5 DEF Pair!DeleteAll

LEMMA PowerOffStep ==
  ASSUME Pair!CustomPairAssumption, PairInv, Pair!PowerOff
  PROVE  PairInv' /\ NoneBack
<1>1. /\ pair_mode = "on" /\ pair_mode' = "off" /\ pair_tbl' = <<>> /\ pair_idx' = -1
      /\ pair_flash' = pair_flash /\ pair_kept' = pair_kept
  BY DEF Pair!PowerOff
<1>2. pair_tbl \in Seq(Bonded) /\ Len(pair_tbl) <= MaxBonds /\ pair_kept \subseteq Device
  BY <1>1 DEF PairInv
<1>3. PICK u \in Seq(Bonded) :
        Log(pair_flash, End, u) /\ Like(u, pair_tbl, pair_kept) /\ pair_kept \subseteq Pair!DevicesIn(u)
  BY <1>1 DEF PairInv
<1>4. End \in 0 .. Entries /\ Len(u) <= MaxBonds /\ Pair!DevicesIn(u) \ {Pair!Odd} \subseteq Device
  BY <1>2, <1>3, TableType DEF Log, Like
<1>5. Survive(pair_flash', pair_kept', Device)
  BY <1>1, <1>3, <1>4 DEF Survive
<1>6. -1 \in -1 .. Entries + 1
  BY PairConstants
<1>7. NoneBack
  <2>1. Pair!Found(pair_flash') = u
    BY <1>1, <1>3, LogFound
  <2>2. Pair!DevicesIn(u) \ {Pair!Odd} \subseteq Pair!DevicesIn(pair_tbl)
    BY <1>2, <1>3, LikeFacts
  <2> QED
    BY <1>1, <2>1, <2>2 DEF NoneBack
<1> QED
  BY <1>1, <1>2, <1>5, <1>6, <1>7 DEF PairInv

LEMMA PairStep ==
  ASSUME Pair!CustomPairAssumption, ~ TornErase, PairInv, [Pair!Next]_(Pair!vars)
  PROVE  PairInv' /\ (pair_mode' = "off" /\ ~ UNCHANGED Pair!vars => NoneBack)
<1>1. CASE Pair!Start
  BY <1>1, StartStep
<1>2. CASE Pair!DeleteAll
  BY <1>2, DeleteAllStep
<1>3. CASE Pair!PowerOff
  BY <1>3, PowerOffStep
<1>4. ASSUME NEW d \in Device, Pair!user_tbl_slave_mac_search(d) = 0, Pair!Add(d) PROVE PairInv' /\ NoneBack
  BY <1>4, AddStep
<1>5. ASSUME NEW d \in Device, Pair!DeleteByAdr(d) PROVE PairInv' /\ NoneBack
  BY <1>5, DeleteStep
<1>6. CASE UNCHANGED Pair!vars
  <2>1. /\ pair_flash' = pair_flash /\ pair_tbl' = pair_tbl /\ pair_idx' = pair_idx
        /\ pair_mode' = pair_mode /\ pair_kept' = pair_kept
    BY <1>6 DEF Pair!vars
  <2>2. End' = End
    BY <2>1 DEF End
  <2>3. \A t : Log(pair_flash, End, t) /\ Like(t, pair_tbl, pair_kept) =>
               Log(pair_flash', End', t) /\ Like(t, pair_tbl', pair_kept')
    BY <2>1, <2>2
  <2>4. Survive(pair_flash, pair_kept, Device) => Survive(pair_flash', pair_kept', Device)
    BY <2>1
  <2> QED
    BY <1>6, <2>1, <2>3, <2>4 DEF PairInv
<1> QED
  BY <1>1, <1>2, <1>3, <1>4, <1>5, <1>6 DEF Pair!Next

LEMMA PairHolds ==
  ASSUME Pair!CustomPairAssumption, ~ TornErase
  PROVE  Pair!Spec => []PairInv
<1>1. Pair!Init => PairInv
  BY PairStart
<1>2. PairInv /\ [Pair!Next]_(Pair!vars) => PairInv'
  BY PairStep
<1> QED
  BY <1>1, <1>2, PTL DEF Pair!Spec

\* The cells, the table and the counter of the bonds keep their types.
THEOREM PairTypeCorrect ==
  ASSUME Pair!CustomPairAssumption, ~ TornErase
  PROVE  Pair!Spec => []Pair!TypeOK
<1>1. PairInv => Pair!TypeOK
  <2> SUFFICES ASSUME PairInv PROVE Pair!TypeOK
    OBVIOUS
  <2>1. PICK e, t : Log(pair_flash, e, t)
    <3>1. CASE pair_mode = "on"
      BY <3>1 DEF PairInv
    <3>2. CASE pair_mode = "off"
      BY <3>2 DEF PairInv, Survive
    <3> QED
      BY <3>1, <3>2 DEF PairInv
  <2>2. \A i \in Pair!Place : pair_flash[i] \in Cell
    BY <2>1 DEF Log, Sector
  <2>3. \A c \in Cell : c \in {Pair!Free, Pair!Spoilt, Pair!Dead, Pair!Bond(Pair!Odd)}
                             \cup {Pair!Bond(d) : d \in Device}
    BY DEF Cell, Peers
  <2>4. pair_tbl \in Seq(Bonded) /\ Len(pair_tbl) <= MaxBonds
    <3>1. CASE pair_mode = "on"
      BY <3>1 DEF PairInv
    <3>2. CASE pair_mode = "off"
      BY <3>2, PairConstants DEF PairInv
    <3> QED
      BY <3>1, <3>2 DEF PairInv
  <2>5. \A i \in 1 .. Len(pair_tbl) : pair_tbl[i].idx \in Pair!Place /\ pair_tbl[i].device \in Device \cup {Pair!Odd}
    BY <2>4, TableType DEF Peers
  <2> QED
    BY <2>2, <2>3, <2>4, <2>5 DEF PairInv, Pair!TypeOK
<1> QED
  BY <1>1, PairHolds, PTL

\* At any moment a start would find in flash the bonds that are in the table, at their places and
\* in their order, each with its device unless it was written over an entry that power had spoilt.
THEOREM PairLogIsTable ==
  ASSUME Pair!CustomPairAssumption, ~ TornErase
  PROVE  Pair!Spec => []Pair!LogIsTable
<1>1. PairInv => Pair!LogIsTable
  <2> SUFFICES ASSUME PairInv, pair_mode = "on"
               PROVE  \E t \in {Pair!Found(pair_flash)} :
                        Len(t) = Len(pair_tbl) /\ \A i \in 1 .. Len(t) : Pair!SameBond(t[i], pair_tbl[i])
    BY DEF Pair!LogIsTable
  <2>1. PICK t \in Seq(Bonded) : Log(pair_flash, End, t) /\ Like(t, pair_tbl, pair_kept)
    BY DEF PairInv
  <2>2. Pair!Found(pair_flash) = t
    BY <2>1, LogFound
  <2> QED
    BY <2>1, <2>2 DEF Like, Pair!SameBond
<1> QED
  BY <1>1, PairHolds, PTL

\* Power that fails between or within the flash operations of an add or a delete, or between two
\* operations, takes no bond that is whole in flash and that the operation was not about.
THEOREM PairOthersSurvive ==
  ASSUME Pair!CustomPairAssumption, ~ TornErase
  PROVE  Pair!Spec => []Pair!OthersSurvive
<1>1. PairInv => Pair!OthersSurvive
  BY LogFound DEF PairInv, Survive, Pair!OthersSurvive
<1> QED
  BY <1>1, PairHolds, PTL

\* A bond that was deleted does not come back, whatever operation, or start, power fails in.
THEOREM PairNoneReturns ==
  ASSUME Pair!CustomPairAssumption, ~ TornErase
  PROVE  Pair!Spec => Pair!NoneReturns
<1>1. ASSUME PairInv, [Pair!Next]_(Pair!vars)
      PROVE  [pair_mode' = "off" =>
                Pair!DevicesIn(Pair!Found(pair_flash')) \ {Pair!Odd}
                  \subseteq Pair!DevicesIn(IF pair_mode = "on" THEN pair_tbl ELSE Pair!Found(pair_flash))]_(Pair!vars)
  BY <1>1, PairStep DEF NoneBack
<1> QED
  BY <1>1, PairHolds, PTL DEF Pair!Spec, Pair!NoneReturns

\* The start never finds more bonds than the table holds.
THEOREM PairNeverStuck ==
  ASSUME Pair!CustomPairAssumption, ~ TornErase
  PROVE  Pair!Spec => []Pair!NeverStuck
<1>1. PairInv => Pair!NeverStuck
  BY DEF PairInv, Pair!NeverStuck
<1> QED
  BY <1>1, PairHolds, PTL
=============================================================================

---------------------------- MODULE AdminProofs ----------------------------
(***************************************************************************)
(* Proofs about the administration service, for any number of requests,    *)
(* administrators, domains and machines.                                   *)
(*                                                                         *)
(* Lists and configurations come first: what the loops of the handlers     *)
(* compute, and that each handler keeps a configuration in step.  Then the *)
(* steps are sorted into the few kinds that files and memory can tell      *)
(* apart (Kinds), and three invariants follow, each resting on the one     *)
(* before it: of the files (WholeInv), of the administrator (SetupInv) and *)
(* of the configurations (ConfigsInv).  The promise of the dashboard is    *)
(* read off the last.                                                      *)
(***************************************************************************)
EXTENDS Admin, TLAPS, FiniteSetTheorems, WellFoundedInduction

(***************************************************************************)
(* Lists.  What a loop over a list computes (Selected) is found by climbing *)
(* from one prefix of the list to the next.                                *)
(***************************************************************************)
LEMMA NatIsWellFounded ==
    \E R : IsWellFoundedOn(R, Nat) /\ \A x, y \in Nat : x < y => <<x, y>> \in R
<1>1. \A x, y \in Nat : x < y => <<x, y>> \in OpToRel(<, Nat)
  BY DEF OpToRel
<1> QED BY <1>1, NatLessThanWellFounded, Zenon

LEMMA LeastElement ==
    ASSUME NEW T, T \subseteq Nat, T # {}
    PROVE  \E x \in T : \A y \in T : x <= y
<1>1. PICK R : IsWellFoundedOn(R, Nat) /\ \A x, y \in Nat : x < y => <<x, y>> \in R
  BY NatIsWellFounded, Zenon
<1>2. PICK x \in T : \A y \in T : ~(<<y, x>> \in R)
  BY <1>1, WFMin, ZenonT(40)
<1>3. ASSUME NEW y \in T PROVE x <= y
  <2>1. x \in Nat /\ y \in Nat
    OBVIOUS
  <2>2. ~(y < x)
    BY <1>1, <1>2, <2>1, Zenon
  <2> QED BY <2>1, <2>2
<1> QED BY <1>3

LEMMA Climb ==
    ASSUME NEW S, 0 \in S, \A n \in Nat : n \in S => n + 1 \in S
    PROVE  Nat \subseteq S
<1> SUFFICES ASSUME Nat \ S # {} PROVE FALSE
  OBVIOUS
<1>1. PICK x \in Nat \ S : \A y \in Nat \ S : x <= y
  BY LeastElement
<1>2. x - 1 \in Nat
  OBVIOUS
<1>3. x - 1 \in S
  BY <1>1, <1>2
<1> QED BY <1>2, <1>3

\* f goes from base along 1..n, one step at a time
Walk(f, step, base, n, V) ==
    f \in [0..n -> V] /\ f[0] = base /\ \A i \in 1..n : f[i] = step[i][f[i - 1]]

LEMMA StepByStep ==
    ASSUME NEW V, NEW base \in V, NEW n \in Nat, NEW step,
           \A i \in 1..n : \A x \in V : step[i][x] \in V
    PROVE  \E f : Walk(f, step, base, n, V)
<1> DEFINE Good(f, m) == f \in [0..m -> V] /\ f[0] = base /\ \A i \in 1..m : f[i] = step[i][f[i - 1]]
           S == {m \in Nat : m <= n => \E f : Good(f, m)}
<1>1. 0 \in S
  <2>1. Good([i \in 0..0 |-> base], 0)
    OBVIOUS
  <2> QED BY <2>1
<1>2. ASSUME NEW m \in Nat, m \in S PROVE m + 1 \in S
  <2> SUFFICES ASSUME m + 1 <= n PROVE \E f : Good(f, m + 1)
    OBVIOUS
  <2>1. PICK f : Good(f, m)
    BY <1>2
  <2>2. f[m] \in V /\ m + 1 \in 1..n
    BY <2>1
  <2> DEFINE x == step[m + 1][f[m]]
             g == [i \in 0..(m + 1) |-> IF i = m + 1 THEN x ELSE f[i]]
  <2>3. x \in V
    BY <2>2
  <2>4. g \in [0..(m + 1) -> V] /\ g[0] = base
    BY <2>1, <2>3
  <2>5. \A i \in 1..(m + 1) : g[i] = step[i][g[i - 1]]
    <3> SUFFICES ASSUME NEW i \in 1..(m + 1) PROVE g[i] = step[i][g[i - 1]]
      OBVIOUS
    <3>1. CASE i = m + 1
      BY <3>1
    <3>2. CASE i # m + 1
      <4>1. i \in 1..m /\ i - 1 \in 0..m
        BY <3>2
      <4> QED BY <2>1, <4>1
    <3> QED BY <3>1, <3>2
  <2> QED BY <2>4, <2>5
<1> HIDE DEF S
<1>3. n \in S
  BY <1>1, <1>2, Climb
<1> QED BY <1>3 DEF S, Walk

LEMMA SameSteps ==
    ASSUME NEW n \in Nat, NEW f, NEW g, f[0] = g[0],
           \A i \in 1..n : f[i - 1] = g[i - 1] => f[i] = g[i]
    PROVE  \A m \in 0..n : f[m] = g[m]
<1> DEFINE S == {m \in Nat : m <= n => f[m] = g[m]}
<1>1. 0 \in S
  OBVIOUS
<1>2. ASSUME NEW m \in Nat, m \in S  PROVE m + 1 \in S
  <2>1. m + 1 <= n => m + 1 \in 1..n /\ (m + 1) - 1 = m /\ m <= n
    OBVIOUS
  <2> QED BY <1>2, <2>1
<1> HIDE DEF S
<1>3. Nat \subseteq S
  BY <1>1, <1>2, Climb
<1>4. \A m \in 0..n : m \in S /\ m <= n
  BY <1>3
<1> QED BY <1>4 DEF S

\* the steps by which Selected goes through the list
LEMMA SelectedUnfolds ==
    ASSUME NEW T, NEW s \in Seq(T), NEW I
    PROVE  \E f \in [0..Len(s) -> Seq(T)] :
              /\ f[0] = <<>> /\ Selected(s, I) = f[Len(s)]
              /\ \A i \in 1..Len(s) : f[i] = IF i \in I THEN Append(f[i - 1], s[i]) ELSE f[i - 1]
<1> DEFINE After(i, x) == IF i \in I THEN Append(x, s[i]) ELSE x
           Body(g) == [i \in 0..Len(s) |-> IF i = 0 THEN <<>>
                                           ELSE IF i \in I THEN Append(g[i - 1], s[i]) ELSE g[i - 1]]
<1>1. PICK n, V : n = Len(s) /\ V = Seq(T)
  OBVIOUS
<1>2. n \in Nat /\ <<>> \in V /\ \A i \in 1..n : \A x \in V : After(i, x) \in V
  BY <1>1
<1>3. PICK kept : kept = CHOOSE g : g = Body(g)
  OBVIOUS
<1>4. Selected(s, I) = kept[n]
  BY <1>1, <1>3 DEF Selected
<1> HIDE DEF After, Body
<1>5. PICK h \in [0..n -> V] : h[0] = <<>> /\ \A i \in 1..n : h[i] = After(i, h[i - 1])
  <2>1. PICK step : step = [i \in 1..n |-> [x \in V |-> After(i, x)]]
    OBVIOUS
  <2>2. \A i \in 1..n : \A x \in V : step[i][x] = After(i, x) /\ After(i, x) \in V
    BY <1>2, <2>1
  <2>3. PICK h : Walk(h, step, <<>>, n, V)
    <3>1. n \in Nat /\ <<>> \in V /\ \A i \in 1..n : \A x \in V : step[i][x] \in V
      BY <1>2, <2>2
    <3> QED BY <3>1, StepByStep
  <2>4. \A i \in 1..n : h[i - 1] \in V
    BY <1>2, <2>3 DEF Walk
  <2>5. \A i \in 1..n : h[i] = After(i, h[i - 1])
    BY <2>2, <2>3, <2>4 DEF Walk
  <2> QED BY <2>3, <2>5 DEF Walk
<1>6. n \in Nat /\ 0 \in 0..n /\ \A i \in 1..n : i \in 0..n /\ i # 0
  BY <1>2
<1>7. \A g : Body(g) = [i \in 0..n |-> IF i = 0 THEN <<>> ELSE After(i, g[i - 1])]
  BY <1>1 DEF Body, After
<1>8. h = Body(h)
  BY <1>5, <1>6, <1>7
<1>9. kept = Body(kept)
  BY <1>3, <1>8
<1>10. kept[0] = <<>> /\ \A i \in 1..n : kept[i] = After(i, kept[i - 1])
  BY <1>6, <1>7, <1>9
<1>11. h[n] = kept[n]
  <2>1. h[0] = kept[0] /\ \A i \in 1..n : h[i - 1] = kept[i - 1] => h[i] = kept[i]
    BY <1>5, <1>10
  <2>2. n \in Nat
    BY <1>6
  <2>3. \A m \in 0..n : h[m] = kept[m]
    BY <2>1, <2>2, SameSteps, ZenonT(40)
  <2> QED BY <1>6, <2>3
<1> QED BY <1>1, <1>4, <1>5, <1>11 DEF After

\* e says where in s the elements of w stand, which are those at I
Picks(e, w, s, I) ==
    /\ e \in [1..Len(w) -> I]
    /\ \A j, k \in 1..Len(w) : j < k => e[j] < e[k]
    /\ \A k \in 1..Len(w) : w[k] = s[e[k]]
    /\ \A i \in I : \E k \in 1..Len(w) : e[k] = i

LEMMA PickOneMore ==
    ASSUME NEW T, NEW w \in Seq(T), NEW s \in Seq(T), NEW I \in SUBSET Nat, NEW e, Picks(e, w, s, I),
           NEW i \in 1..Len(s), \A j \in I : j < i
    PROVE  \E g : Picks(g, Append(w, s[i]), s, I \cup {i})
<1> DEFINE v == Append(w, s[i])
           g == [k \in 1..Len(v) |-> IF k = Len(v) THEN i ELSE e[k]]
<1>1. Len(w) \in Nat /\ Len(v) = Len(w) + 1 /\ v[Len(v)] = s[i] /\ \A k \in 1..Len(w) : v[k] = w[k]
  OBVIOUS
<1>2. PICK m : m = Len(w)
  OBVIOUS
<1> HIDE DEF v
<1>3. g \in [1..Len(v) -> I \cup {i}]
  BY <1>1 DEF Picks
<1>4. ASSUME NEW j \in 1..Len(v), NEW k \in 1..Len(v), j < k PROVE g[j] < g[k]
  <2>1. j \in 1..Len(w) /\ e[j] \in I
    BY <1>1, <1>4 DEF Picks
  <2>2. CASE k = Len(v)
    <3>1. g[j] = e[j] /\ g[k] = i
      BY <1>1, <2>1, <2>2
    <3> QED BY <2>1, <3>1
  <2>3. CASE k # Len(v)
    <3>1. k \in 1..Len(w)
      BY <1>1, <2>3
    <3>2. g[j] = e[j] /\ g[k] = e[k]
      BY <1>1, <2>1, <3>1
    <3> QED BY <1>4, <2>1, <3>1, <3>2 DEF Picks
  <2> QED BY <2>2, <2>3
<1>5. ASSUME NEW k \in 1..Len(v) PROVE v[k] = s[g[k]]
  <2>1. CASE k = Len(v)
    BY <1>1, <2>1
  <2>2. CASE k # Len(v)
    <3>1. k \in 1..Len(w)
      BY <1>1, <2>2
    <3> QED BY <1>1, <3>1 DEF Picks
  <2> QED BY <2>1, <2>2
<1>6. ASSUME NEW j \in I \cup {i} PROVE \E k \in 1..Len(v) : g[k] = j
  <2>1. CASE j = i
    BY <1>1, <2>1
  <2>2. CASE j # i
    <3>1. PICK k \in 1..Len(w) : e[k] = j
      BY <2>2 DEF Picks
    <3> QED BY <1>1, <3>1
  <2> QED BY <2>1, <2>2
<1> HIDE DEF g
<1> QED BY <1>3, <1>4, <1>5, <1>6 DEF Picks, v

LEMMA SelectedPicks ==
    ASSUME NEW T, NEW s \in Seq(T), NEW I \in SUBSET (1..Len(s))
    PROVE  Selected(s, I) \in Seq(T) /\ \E e : Picks(e, Selected(s, I), s, I)
<1>1. PICK f \in [0..Len(s) -> Seq(T)] :
              /\ f[0] = <<>> /\ Selected(s, I) = f[Len(s)]
              /\ \A i \in 1..Len(s) : f[i] = IF i \in I THEN Append(f[i - 1], s[i]) ELSE f[i - 1]
  BY SelectedUnfolds
<1>2. PICK n \in Nat : n = Len(s)
  OBVIOUS
<1>8. \A i \in I : i \in Nat /\ 1 <= i /\ i <= n
  BY <1>2
<1> DEFINE Upto(m) == {i \in I : i <= m}
           S == {m \in Nat : m <= n => \E e : Picks(e, f[m], s, Upto(m))}
<1>3. 0 \in S
  <2>1. Upto(0) = {} /\ Len(f[0]) = 0
    <3>1. \A i \in I : ~(i <= 0)
      BY <1>8
    <3>2. Len(f[0]) = 0
      BY <1>1
    <3> QED BY <3>1, <3>2
  <2>2. PICK e : e = [k \in 1..0 |-> 0]
    OBVIOUS
  <2>3. Picks(e, f[0], s, {})
    BY <2>1, <2>2 DEF Picks
  <2> QED BY <2>1, <2>3
<1>4. ASSUME NEW m \in Nat, m \in S PROVE m + 1 \in S
  <2> SUFFICES ASSUME m + 1 <= n PROVE \E e : Picks(e, f[m + 1], s, Upto(m + 1))
    OBVIOUS
  <2>1. PICK e : Picks(e, f[m], s, Upto(m))
    BY <1>4
  <2>2. m + 1 \in 1..Len(s) /\ (m + 1) - 1 = m /\ m \in 0..Len(s)
    BY <1>2
  <2>3. CASE m + 1 \in I
    <3>1. f[m + 1] = Append(f[m], s[m + 1])
      BY <1>1, <2>2, <2>3
    <3>2. Upto(m + 1) = Upto(m) \cup {m + 1}
      <4>1. \A i \in I : i <= m + 1 <=> i <= m \/ i = m + 1
        BY <1>8
      <4> QED BY <2>3, <4>1
    <3>3. PICK w \in Seq(T), i \in 1..Len(s), J \in SUBSET Nat : w = f[m] /\ i = m + 1 /\ J = Upto(m)
      <4>1. f[m] \in Seq(T) /\ Upto(m) \in SUBSET Nat
        BY <1>1, <1>8, <2>2
      <4> QED BY <2>2, <4>1
    <3>4. Picks(e, w, s, J) /\ \A j \in J : j < i
      <4>1. \A j \in J : j < i
        BY <1>8, <3>3
      <4> QED BY <2>1, <3>3, <4>1
    <3>5. \E g : Picks(g, Append(w, s[i]), s, J \cup {i})
      BY <3>4, PickOneMore
    <3> QED BY <3>1, <3>2, <3>3, <3>5
  <2>4. CASE m + 1 \notin I
    <3>1. f[m + 1] = f[m]
      BY <1>1, <2>2, <2>4
    <3>2. Upto(m + 1) = Upto(m)
      <4>1. \A i \in I : i <= m + 1 <=> i <= m
        BY <1>8, <2>4
      <4> QED BY <4>1
    <3> QED BY <2>1, <3>1, <3>2
  <2> QED BY <2>3, <2>4
<1> HIDE DEF S
<1>5. n \in S
  BY <1>3, <1>4, Climb
<1>6. Upto(n) = I
  BY <1>8
<1>7. f[n] \in Seq(T)
  BY <1>1, <1>2
<1>9. \E e : Picks(e, f[n], s, Upto(n))
  BY <1>2, <1>5 DEF S
<1> HIDE DEF Upto
<1> QED BY <1>1, <1>2, <1>6, <1>7, <1>9

\* w has the elements of s at I, each as often as it is there, and the first in its place
IsSelection(w, s, I) ==
    /\ \A k \in 1..Len(w) : \E i \in I : w[k] = s[i]
    /\ \A i \in I : \E k \in 1..Len(w) : w[k] = s[i]
    /\ 1 \in I => w # <<>> /\ w[1] = s[1]
    /\ \A j, k \in 1..Len(w) : j # k => \E a, b \in I : a # b /\ w[j] = s[a] /\ w[k] = s[b]

LEMMA SelectedFacts ==
    ASSUME NEW T, NEW s \in Seq(T), NEW I \in SUBSET (1..Len(s)), NEW w, w = Selected(s, I)
    PROVE  w \in Seq(T) /\ IsSelection(w, s, I)
<1>1. w \in Seq(T)
  BY SelectedPicks
<1>2. PICK e : Picks(e, w, s, I)
  BY SelectedPicks
<1>3. Len(w) \in Nat /\ DOMAIN w = 1..Len(w)
  BY <1>1
<1>4. \A k \in 1..Len(w) : e[k] \in I /\ e[k] \in Nat /\ 1 <= e[k]
  <2>1. \A i \in I : i \in Nat /\ 1 <= i
    OBVIOUS
  <2> QED BY <1>2, <2>1 DEF Picks
<1>5. /\ \A k \in 1..Len(w) : \E i \in I : w[k] = s[i]
      /\ \A i \in I : \E k \in 1..Len(w) : w[k] = s[i]
  BY <1>2, <1>4 DEF Picks
<1>6. ASSUME 1 \in I PROVE w # <<>> /\ w[1] = s[1]
  <2>1. PICK k \in 1..Len(w) : e[k] = 1
    BY <1>2, <1>6 DEF Picks
  <2>2. 1 \in 1..Len(w) /\ (k # 1 => 1 < k)
    BY <1>3, <2>1
  <2>3. k = 1
    BY <1>2, <1>4, <2>1, <2>2 DEF Picks
  <2> QED BY <1>2, <1>3, <2>1, <2>3 DEF Picks
<1>7. ASSUME NEW j \in 1..Len(w), NEW k \in 1..Len(w), j # k
      PROVE  \E a, b \in I : a # b /\ w[j] = s[a] /\ w[k] = s[b]
  <2>1. j < k \/ k < j
    BY <1>3, <1>7
  <2>2. e[j] # e[k]
    BY <1>2, <1>4, <2>1 DEF Picks
  <2> QED BY <1>2, <1>4, <2>2 DEF Picks
<1> QED BY <1>1, <1>5, <1>6, <1>7 DEF IsSelection

LEMMA WithoutFacts ==
    ASSUME NEW T, NEW s \in Seq(T), NEW X, NEW w, w = Without(s, X)
    PROVE  /\ w \in Seq(T)
           /\ Range(w) = Range(s) \ X
           /\ IsInjective(s) => IsInjective(w)
           /\ s # <<>> /\ s[1] \notin X => w # <<>> /\ w[1] = s[1]
<1>1. PICK I : I = {i \in DOMAIN s : s[i] \notin X}
  OBVIOUS
<1>2. I \in SUBSET (1..Len(s)) /\ w = Selected(s, I) /\ DOMAIN s = 1..Len(s)
  BY <1>1 DEF Without
<1>3. w \in Seq(T) /\ IsSelection(w, s, I) /\ DOMAIN w = 1..Len(w)
  BY <1>2, SelectedFacts
<1>4. Range(w) = Range(s) \ X
  <2>1. \A i \in DOMAIN s : i \in I <=> s[i] \notin X
    BY <1>1
  <2>2. \A k \in DOMAIN w : w[k] \in Range(s) \ X
    BY <1>2, <1>3, <2>1 DEF Range, IsSelection
  <2>3. \A i \in DOMAIN s : s[i] \notin X => s[i] \in Range(w)
    BY <1>3, <2>1 DEF Range, IsSelection
  <2> QED BY <2>2, <2>3 DEF Range
<1>5. ASSUME IsInjective(s) PROVE IsInjective(w)
  <2>1. \A a, b \in I : s[a] = s[b] => a = b
    BY <1>2, <1>5 DEF IsInjective
  <2>2. ASSUME NEW j \in DOMAIN w, NEW k \in DOMAIN w, w[j] = w[k], j # k PROVE FALSE
    <3>1. PICK a \in I, b \in I : a # b /\ w[j] = s[a] /\ w[k] = s[b]
      <4>1. j \in 1..Len(w) /\ k \in 1..Len(w) /\ j # k
        BY <1>3, <2>2
      <4> QED BY <1>3, <4>1, Zenon DEF IsSelection
    <3> QED BY <2>1, <2>2, <3>1
  <2> QED BY <2>2 DEF IsInjective
<1>6. s # <<>> /\ s[1] \notin X => 1 \in I
  BY <1>1
<1> QED BY <1>3, <1>4, <1>5, <1>6 DEF IsSelection

LEMMA DistinctFacts ==
    ASSUME NEW T, NEW s \in Seq(T), NEW w, w = Distinct(s)
    PROVE  /\ w \in Seq(T)
           /\ Range(w) = Range(s)
           /\ IsInjective(w)
           /\ s # <<>> => w # <<>> /\ w[1] = s[1]
<1>1. PICK I : I = {i \in DOMAIN s : \A j \in 1..(i - 1) : s[j] # s[i]}
  OBVIOUS
<1>2. I \in SUBSET (1..Len(s)) /\ w = Selected(s, I) /\ DOMAIN s = 1..Len(s) /\ Len(s) \in Nat
  BY <1>1 DEF Distinct
<1>3. w \in Seq(T) /\ IsSelection(w, s, I) /\ DOMAIN w = 1..Len(w)
  BY <1>2, SelectedFacts
<1>4. Range(w) = Range(s)
  <2>1. ASSUME NEW i \in 1..Len(s) PROVE \E k \in I : s[k] = s[i]
    <3>1. PICK S : S = {j \in 1..Len(s) : s[j] = s[i]}
      OBVIOUS
    <3>2. PICK k \in S : \A j \in S : k <= j
      <4>1. S \subseteq Nat /\ S # {}
        BY <1>2, <3>1
      <4> QED BY <4>1, LeastElement
    <3>3. k \in DOMAIN s /\ \A j \in 1..(k - 1) : s[j] # s[k]
      BY <1>2, <3>1, <3>2
    <3> QED BY <1>1, <3>1, <3>2, <3>3
  <2>2. I \subseteq DOMAIN s
    BY <1>1
  <2>3. \A k \in DOMAIN w : w[k] \in Range(s)
    BY <1>3, <2>2 DEF Range, IsSelection
  <2>4. \A i \in DOMAIN s : s[i] \in Range(w)
    <3>1. \A k \in I : s[k] \in Range(w)
      BY <1>3 DEF Range, IsSelection
    <3> QED BY <1>2, <2>1, <3>1
  <2> QED BY <2>3, <2>4 DEF Range
<1>5. \A a, b \in I : s[a] = s[b] => a = b
  <2>1. ASSUME NEW a \in I, NEW b \in I, s[a] = s[b], a # b PROVE FALSE
    <3>1. a \in 1..(b - 1) \/ b \in 1..(a - 1)
      BY <1>2, <2>1
    <3> QED BY <1>1, <2>1, <3>1
  <2> QED BY <2>1
<1>6. IsInjective(w)
  <2>1. ASSUME NEW j \in DOMAIN w, NEW k \in DOMAIN w, w[j] = w[k], j # k PROVE FALSE
    <3>1. PICK a \in I, b \in I : a # b /\ w[j] = s[a] /\ w[k] = s[b]
      <4>1. j \in 1..Len(w) /\ k \in 1..Len(w) /\ j # k
        BY <1>3, <2>1
      <4> QED BY <1>3, <4>1, Zenon DEF IsSelection
    <3> QED BY <1>5, <2>1, <3>1
  <2> QED BY <2>1 DEF IsInjective
<1>7. s # <<>> => 1 \in I
  BY <1>1
<1> QED BY <1>3, <1>4, <1>6, <1>7 DEF IsSelection

\* w is s with e, at the end if it is new
IsGrown(w, s, e) ==
    /\ w # <<>> /\ Range(w) = Range(s) \cup {e}
    /\ IsInjective(s) => IsInjective(w)
    /\ w[1] = IF s = <<>> THEN e ELSE s[1]

LEMMA AppendNewFacts ==
    ASSUME NEW T, NEW s \in Seq(T), NEW e \in T, NEW w, w = AppendNew(s, e)
    PROVE  w \in Seq(T) /\ IsGrown(w, s, e)
<1>1. DOMAIN s = 1..Len(s) /\ Len(s) \in Nat
  OBVIOUS
<1>2. CASE Contains(s, e)
  BY <1>1, <1>2 DEF AppendNew, Contains, Range, IsGrown
<1>3. CASE ~Contains(s, e)
  <2>1. w = Append(s, e)
    BY <1>3 DEF AppendNew
  <2>2. /\ DOMAIN w = 1..(Len(s) + 1) /\ w \in Seq(T) /\ w # <<>>
        /\ \A i \in 1..Len(s) : w[i] = s[i] /\ s[i] # e
        /\ w[Len(s) + 1] = e
    BY <1>1, <1>3, <2>1 DEF Contains
  <2>3. \A i \in DOMAIN w : i \in 1..Len(s) \/ i = Len(s) + 1
    BY <1>1, <2>2
  <2>4. \A i \in DOMAIN s : i \in DOMAIN w
    BY <1>1, <2>2
  <2>5. Range(w) = Range(s) \cup {e}
    BY <1>1, <2>2, <2>3, <2>4 DEF Range
  <2>6. IsInjective(s) => IsInjective(w)
    BY <1>1, <2>2, <2>3 DEF IsInjective
  <2>7. w[1] = IF s = <<>> THEN e ELSE s[1]
    BY <1>1, <2>2
  <2> QED BY <2>2, <2>5, <2>6, <2>7 DEF IsGrown
<1> QED BY <1>2, <1>3

(***************************************************************************)
(* Configurations.  Each handler makes a configuration of a configuration, *)
(* keeps it in step, and names no certificate that was not installed.      *)
(***************************************************************************)
Args == CertArgs \cup {OtherArg}
Stored == Configs \cup {Absent, Empty}

\* what a handler may do to a configuration, when these pairs are there
Keeps(pairs, c, a) ==
    /\ a \in Configs
    /\ InStep(c) => InStep(a)
    /\ ArgsInstalled(pairs, c) => ArgsInstalled(pairs, a)

LEMMA StoredVhost == ASSUME NEW env \in Stored PROVE EnvVhost(env) \in Seq(AllNames)
BY DEF EnvVhost, Stored, Configs

LEMMA ListFacts ==
    ASSUME NEW env \in Stored, NEW c \in Configs, NEW l, l = ConfiguredDomainList(env, c)
    PROVE  /\ l \in Seq(AllNames) /\ IsInjective(l) /\ Example \notin Range(l)
           /\ Range(c.vhost) \ {Example} \subseteq Range(l)
           /\ c.domain # Example => l # <<>> /\ l[1] = c.domain
           /\ c.vhost # <<>> => Range(l) \subseteq {c.domain} \cup Range(c.vhost)
<1>1. PICK vhost \in Seq(AllNames) : vhost = IF c.vhost = <<>> THEN EnvVhost(env) ELSE c.vhost
  BY StoredVhost DEF Configs
<1>2. c.domain \in AllNames /\ c.vhost \in Seq(AllNames)
  BY DEF Configs
<1>3. PICK s \in Seq(AllNames) : s = <<c.domain>> \o vhost
  <2>1. PICK d \in AllNames : d = c.domain
    BY <1>2
  <2>2. <<d>> \in Seq(AllNames)
    OBVIOUS
  <2>3. <<d>> \o vhost \in Seq(AllNames)
    BY <2>2
  <2> QED BY <2>1, <2>3
<1>4. /\ s # <<>> /\ s[1] = c.domain
      /\ \A i \in DOMAIN vhost : i + 1 \in DOMAIN s /\ s[i + 1] = vhost[i]
  <2>1. Len(s) = 1 + Len(vhost) /\ Len(vhost) \in Nat /\ s[1] = c.domain
    BY <1>1, <1>2, <1>3
  <2>2. \A i \in 1..Len(vhost) : i + 1 \in 1..Len(s) /\ s[i + 1] = vhost[i]
    BY <1>1, <1>2, <1>3, <2>1
  <2> QED BY <1>1, <1>3, <2>1, <2>2
<1>5. PICK v : v = Distinct(s)
  OBVIOUS
<1>6. v \in Seq(AllNames) /\ Range(v) = Range(s) /\ IsInjective(v) /\ v # <<>> /\ v[1] = c.domain
  BY <1>4, <1>5, DistinctFacts
<1>0. PICK X : X = {Example}
  OBVIOUS
<1>7. l = Without(v, X)
  BY <1>0, <1>1, <1>3, <1>5 DEF ConfiguredDomainList
<1>8. /\ l \in Seq(AllNames) /\ Range(l) = Range(v) \ X /\ IsInjective(l)
      /\ v # <<>> /\ v[1] \notin X => l # <<>> /\ l[1] = v[1]
  <2>1. v \in Seq(AllNames)
    BY <1>6
  <2>2. /\ l \in Seq(AllNames)
        /\ Range(l) = Range(v) \ X
        /\ IsInjective(v) => IsInjective(l)
        /\ v # <<>> /\ v[1] \notin X => l # <<>> /\ l[1] = v[1]
    BY <1>7, <2>1, WithoutFacts
  <2> QED BY <1>6, <2>2
<1>9. Range(c.vhost) \subseteq Range(s)
  BY <1>1, <1>2, <1>4 DEF Range
<1>10. c.vhost # <<>> => Range(s) \subseteq {c.domain} \cup Range(c.vhost)
  <2> SUFFICES ASSUME c.vhost # <<>> PROVE Range(s) \subseteq {c.domain} \cup Range(c.vhost)
    OBVIOUS
  <2>1. DOMAIN s = 1..Len(s)
    OBVIOUS
  <2>2. vhost = c.vhost /\ Len(vhost) \in Nat /\ DOMAIN vhost = 1..Len(vhost)
    BY <1>1
  <2>3. Len(s) = 1 + Len(vhost)
    BY <1>1, <1>2, <1>3
  <2>4. ASSUME NEW i \in 1..Len(s) PROVE s[i] \in {c.domain} \cup Range(c.vhost)
    <3>1. CASE i = 1
      BY <1>4, <3>1
    <3>2. CASE i # 1
      <4>1. i - 1 \in 1..Len(vhost) /\ (i - 1) + 1 = i
        BY <2>2, <2>3, <3>2
      <4>2. s[i] = vhost[i - 1]
        BY <1>4, <2>2, <4>1
      <4> QED BY <2>2, <4>1, <4>2 DEF Range
    <3> QED BY <3>1, <3>2
  <2> QED BY <2>1, <2>4 DEF Range
<1> QED BY <1>0, <1>6, <1>8, <1>9, <1>10

LEMMA KnownFacts ==
    ASSUME NEW env \in Stored, NEW c \in Configs, NEW d \in AllNames,
           NEW v, v = AppendDomain(KnownDomains(env, c), d)
    PROVE  /\ v \in Seq(AllNames) /\ v # <<>> /\ IsInjective(v) /\ d \in Range(v)
           /\ c.domain = Example => v[1] = d /\ Range(v) = {d}
           /\ c.domain # Example => v[1] = c.domain /\ Range(c.vhost) \ {Example} \subseteq Range(v)
<1>1. PICK known : known = KnownDomains(env, c)
  OBVIOUS
<1>2. /\ known \in Seq(AllNames) /\ IsInjective(known)
      /\ c.domain = Example => known = <<>>
      /\ c.domain # Example =>
            known # <<>> /\ known[1] = c.domain /\ Range(c.vhost) \ {Example} \subseteq Range(known)
  <2>1. CASE c.domain = Example
    BY <1>1, <2>1 DEF KnownDomains, DefaultLikeDomain, IsInjective
  <2>2. CASE c.domain # Example
    BY <1>1, <2>2, ListFacts DEF KnownDomains, DefaultLikeDomain
  <2> QED BY <2>1, <2>2
<1>3. v = AppendNew(known, d)
  BY <1>1 DEF AppendDomain
<1>4. v \in Seq(AllNames) /\ IsGrown(v, known, d)
  <2>1. known \in Seq(AllNames) /\ d \in AllNames
    BY <1>2
  <2> QED BY <1>3, <2>1, AppendNewFacts
<1>5. known = <<>> => Range(known) = {}
  BY DEF Range
<1> QED BY <1>2, <1>4, <1>5 DEF IsGrown

LEMMA ArgFacts ==
    ASSUME NEW args \in Seq(Args), NEW d, NEW w, w = RemoveDomainCertArg(args, d)
    PROVE  /\ w \in Seq(Args)
           /\ \A k \in DOMAIN w : ~IsCertOf(w[k], d) /\ \E i \in DOMAIN args : w[k] = args[i]
           /\ \A names : ArgsInStep(args, names) => ArgsInStep(w, names \ {d})
<1>1. PICK I : I = DOMAIN args \ CertArgsOf(args, d)
  OBVIOUS
<1>2. I \in SUBSET (1..Len(args)) /\ w = Selected(args, I) /\ I \subseteq DOMAIN args
  BY <1>1 DEF RemoveDomainCertArg
<1>3. w \in Seq(Args) /\ IsSelection(w, args, I) /\ DOMAIN w = 1..Len(w)
  BY <1>2, SelectedFacts
<1>4. \A i \in I : ~IsCertOf(args[i], d)
  BY <1>1 DEF CertArgsOf
<1>5. ASSUME NEW k \in DOMAIN w PROVE ~IsCertOf(w[k], d) /\ \E i \in DOMAIN args : w[k] = args[i]
  BY <1>2, <1>3, <1>4 DEF IsSelection
<1>6. ASSUME NEW names, ArgsInStep(args, names) PROVE ArgsInStep(w, names \ {d})
  <2>1. ASSUME NEW k \in DOMAIN w, w[k] # OtherArg PROVE w[k].of \in names \ {d}
    <3>1. PICK i \in DOMAIN args : w[k] = args[i]
      BY <1>5
    <3> QED BY <1>5, <1>6, <2>1, <3>1 DEF ArgsInStep, IsCertOf
  <2>2. ASSUME NEW k \in DOMAIN w, w[k] # OtherArg, NEW j \in DOMAIN w, IsCertOf(w[j], w[k].of), k # j
        PROVE  FALSE
    <3>1. PICK a \in I, b \in I : a # b /\ w[j] = args[a] /\ w[k] = args[b]
      <4>1. j \in 1..Len(w) /\ k \in 1..Len(w) /\ j # k
        BY <1>3, <2>2
      <4> QED BY <1>3, <4>1, Zenon DEF IsSelection
    <3> QED BY <1>2, <1>6, <2>2, <3>1 DEF ArgsInStep
  <2> QED BY <2>1, <2>2 DEF ArgsInStep
<1> QED BY <1>3, <1>5, <1>6

LEMMA UpsertFacts ==
    ASSUME NEW args \in Seq(Args), NEW d \in Domains, NEW u, u = UpsertDomainCertArg(args, d, d)
    PROVE  /\ u \in Seq(Args)
           /\ \A k \in DOMAIN u : u[k] = [of |-> d, dir |-> d] \/ \E i \in DOMAIN args : u[k] = args[i]
           /\ \A names : d \in names /\ ArgsInStep(args, names) => ArgsInStep(u, names)
<1>1. PICK w : w = RemoveDomainCertArg(args, d)
  OBVIOUS
<1>2. PICK a : a = [of |-> d, dir |-> d]
  OBVIOUS
<1>3. u = Append(w, a) /\ a \in CertArgs /\ a.of = d /\ a # OtherArg
  BY <1>1, <1>2, AdminAssumption DEF UpsertDomainCertArg, CertArgs, Dirs, AllNames
<1>4. /\ w \in Seq(Args)
      /\ \A k \in DOMAIN w : ~IsCertOf(w[k], d) /\ \E i \in DOMAIN args : w[k] = args[i]
      /\ \A names : ArgsInStep(args, names) => ArgsInStep(w, names \ {d})
  BY <1>1, ArgFacts
<1>5. /\ u \in Seq(Args)
      /\ \A k \in DOMAIN w : k \in DOMAIN u /\ u[k] = w[k]
      /\ \A k \in DOMAIN u : k \in DOMAIN w \/ (k = Len(w) + 1 /\ u[k] = a)
  BY <1>3, <1>4 DEF Args
<1>6. ASSUME NEW names, d \in names, ArgsInStep(args, names) PROVE ArgsInStep(u, names)
  <2>1. ArgsInStep(w, names \ {d})
    BY <1>4, <1>6
  <2>2. ASSUME NEW k \in DOMAIN u, u[k] # OtherArg PROVE u[k].of \in names
    BY <1>3, <1>5, <1>6, <2>1, <2>2 DEF ArgsInStep
  <2>3. ASSUME NEW k \in DOMAIN u, u[k] # OtherArg, NEW j \in DOMAIN u, IsCertOf(u[j], u[k].of)
        PROVE  k = j
    <3>1. CASE k \in DOMAIN w /\ j \in DOMAIN w
      BY <1>5, <2>1, <2>3, <3>1 DEF ArgsInStep
    <3>2. CASE k \in DOMAIN w /\ j \notin DOMAIN w
      <4>1. u[k].of = d
        BY <1>3, <1>5, <2>3, <3>2 DEF IsCertOf
      <4> QED BY <1>4, <1>5, <2>3, <3>2, <4>1 DEF IsCertOf
    <3>3. CASE k \notin DOMAIN w /\ j \in DOMAIN w
      <4>1. u[k].of = d
        BY <1>3, <1>5, <3>3
      <4> QED BY <1>4, <1>5, <2>3, <3>3, <4>1
    <3>4. CASE k \notin DOMAIN w /\ j \notin DOMAIN w
      BY <1>5, <3>4
    <3> QED BY <3>1, <3>2, <3>3, <3>4
  <2> QED BY <2>2, <2>3 DEF ArgsInStep
<1> QED BY <1>2, <1>4, <1>5, <1>6

LEMMA MoreNames ==
    ASSUME NEW args, NEW names, NEW more, ArgsInStep(args, names), names \subseteq more
    PROVE  ArgsInStep(args, more)
BY DEF ArgsInStep

\* what the configurations in question have in common with a record of seven fields
Fields(a, domain, control, tls, token, addr, args, vhost) ==
    /\ a = [domain |-> domain, control |-> control, tls |-> tls, token |-> token, addr |-> addr,
            args |-> args, vhost |-> vhost]
    /\ a.domain = domain /\ a.args = args /\ a.vhost = vhost

LEMMA FieldsMakeConfigs ==
    ASSUME NEW domain \in AllNames, NEW control \in Controls, NEW tls \in Dirs,
           NEW token \in Tokens \cup {NoToken, ChangeMe}, NEW addr \in Addrs, NEW args \in Seq(Args),
           NEW vhost \in Seq(AllNames), NEW a, Fields(a, domain, control, tls, token, addr, args, vhost)
    PROVE  a \in Configs
BY DEF Fields, Configs, Args

LEMMA ConfigFields ==
    ASSUME NEW c \in Configs
    PROVE  /\ Fields(c, c.domain, c.control, c.tls, c.token, c.addr, c.args, c.vhost)
           /\ c.domain \in AllNames /\ c.control \in Controls /\ c.tls \in Dirs
           /\ c.token \in Tokens \cup {NoToken, ChangeMe} /\ c.addr \in Addrs
           /\ c.args \in Seq(Args) /\ c.vhost \in Seq(AllNames)
BY DEF Fields, Configs, Args

LEMMA ControlNames ==
    /\ \A d \in AllNames : Ngrok(d) \in Controls /\ Control("own", d) \in Controls /\ d \in Dirs
    /\ NoControl \in Controls /\ Example \in AllNames /\ DefaultTls \in Dirs
    /\ \A d \in Domains : d \in AllNames /\ d # Example
BY AdminAssumption DEF Ngrok, Control, NoControl, Controls, AllNames, Dirs

\* the domain d joins those of c
LEMMA GrownInStep ==
    ASSUME NEW env \in Stored, NEW c \in Configs, InStep(c), NEW d \in AllNames, NEW a,
           a.vhost = AppendDomain(KnownDomains(env, c), d),
           a.domain = IF c.domain = Example THEN d ELSE c.domain,
           a.args = c.args \/ (c.domain # Example /\ d # c.domain /\ d # Example /\
                               \A names : d \in names /\ ArgsInStep(c.args, names) => ArgsInStep(a.args, names))
    PROVE  InStep(a)
<1>1. PICK v : v = a.vhost
  OBVIOUS
<1>2. /\ v \in Seq(AllNames) /\ v # <<>> /\ IsInjective(v) /\ d \in Range(v)
      /\ c.domain = Example => v[1] = d /\ Range(v) = {d}
      /\ c.domain # Example => v[1] = c.domain /\ Range(c.vhost) \ {Example} \subseteq Range(v)
  BY <1>1, KnownFacts
<1>3. PICK old, new : old = (Range(c.vhost) \ {Example}) \ {c.domain} /\ new = (Range(v) \ {Example}) \ {a.domain}
  OBVIOUS
<1>4. old \subseteq new
  BY <1>2, <1>3 DEF InStep, DefaultLikeDomain
<1>5. ArgsInStep(c.args, old)
  BY <1>3 DEF InStep
<1>6. ArgsInStep(c.args, new)
  BY <1>4, <1>5, MoreNames
<1>7. ArgsInStep(a.args, new)
  BY <1>2, <1>3, <1>6
<1> QED BY <1>1, <1>2, <1>3, <1>7 DEF InStep, DefaultLikeDomain

LEMMA AddDomainKeeps ==
    ASSUME NEW env \in Stored, NEW c \in Configs, NEW d \in AllNames, NEW h \in Controls, NEW pairs,
           NEW a, a = AddDomain(env, c, d, h)
    PROVE  Keeps(pairs, c, a)
<1>1. PICK v \in Seq(AllNames) : v = AppendDomain(KnownDomains(env, c), d)
  BY KnownFacts
<1>2. PICK domain \in AllNames, control \in Controls, tls \in Dirs :
        /\ Fields(a, domain, control, tls, c.token, c.addr, c.args, v)
        /\ domain = IF c.domain = Example THEN d ELSE c.domain
  <2> DEFINE domain == IF c.domain = Example THEN d ELSE c.domain
             tls == IF c.domain = Example THEN d ELSE c.tls
             control == IF h # NoControl THEN h
                        ELSE IF DefaultLikeControlHost(c.control) THEN Ngrok(domain) ELSE c.control
  <2>1. domain \in AllNames /\ control \in Controls /\ tls \in Dirs
    BY ConfigFields, ControlNames
  <2>2. Fields(a, domain, control, tls, c.token, c.addr, c.args, v)
    BY <1>1 DEF AddDomain, Fields, Configs, DefaultLikeDomain
  <2> QED BY <2>1, <2>2
<1>3. a \in Configs
  BY <1>2, ConfigFields, FieldsMakeConfigs
<1>4. a.args = c.args /\ a.vhost = v /\ a.domain = domain
  BY <1>2 DEF Fields
<1>5. InStep(c) => InStep(a)
  BY <1>1, <1>2, <1>4, GrownInStep
<1> QED BY <1>3, <1>4, <1>5 DEF Keeps, ArgsInstalled

LEMMA CertificateIssuedKeeps ==
    ASSUME NEW env \in Stored, NEW c \in Configs, NEW d \in Domains, NEW pairs,
           NEW a, a = CertificateIssued(env, c, d)
    PROVE  a \in Configs /\ (pairs[d] # "none" => Keeps(pairs, c, a))
<1>1. PICK v \in Seq(AllNames) : v = AppendDomain(KnownDomains(env, c), d)
  BY KnownFacts, ControlNames
<1>2. CASE c.domain = Example \/ c.domain = d
  <2>1. PICK control \in Controls : Fields(a, d, control, d, c.token, c.addr, c.args, v)
    <3> DEFINE control == IF DefaultLikeControlHost(c.control) THEN Ngrok(d) ELSE c.control
    <3>1. control \in Controls
      BY ConfigFields, ControlNames
    <3>2. Fields(a, d, control, d, c.token, c.addr, c.args, v)
      BY <1>1, <1>2 DEF CertificateIssued, Fields, Configs, DefaultLikeDomain
    <3> QED BY <3>1, <3>2
  <2>2. a \in Configs
    BY <2>1, ConfigFields, FieldsMakeConfigs, ControlNames
  <2>3. a.args = c.args /\ a.vhost = v /\ a.domain = d
    BY <2>1 DEF Fields
  <2>4. InStep(c) => InStep(a)
    <3>1. d \in AllNames /\ a.domain = IF c.domain = Example THEN d ELSE c.domain
      BY <1>2, <2>3, ControlNames
    <3> QED BY <1>1, <2>3, <3>1, GrownInStep
  <2> QED BY <2>2, <2>3, <2>4 DEF Keeps, ArgsInstalled
<1>3. CASE c.domain # Example /\ c.domain # d
  <2>1. PICK u : u = UpsertDomainCertArg(c.args, d, d)
    OBVIOUS
  <2>2. /\ u \in Seq(Args)
        /\ \A k \in DOMAIN u : u[k] = [of |-> d, dir |-> d] \/ \E i \in DOMAIN c.args : u[k] = c.args[i]
        /\ \A names : d \in names /\ ArgsInStep(c.args, names) => ArgsInStep(u, names)
    BY <2>1, ConfigFields, UpsertFacts
  <2>3. Fields(a, c.domain, c.control, c.tls, c.token, c.addr, u, v)
    BY <1>1, <1>3, <2>1 DEF CertificateIssued, Fields, Configs, DefaultLikeDomain
  <2>4. a \in Configs
    BY <2>2, <2>3, ConfigFields, FieldsMakeConfigs
  <2>5. a.args = u /\ a.vhost = v /\ a.domain = c.domain
    BY <2>3 DEF Fields
  <2>6. InStep(c) => InStep(a)
    <3>1. d \in AllNames /\ d # Example /\ a.domain = IF c.domain = Example THEN d ELSE c.domain
      BY <1>3, <2>5, ControlNames
    <3> QED BY <1>1, <1>3, <2>2, <2>5, <3>1, GrownInStep
  <2>7. pairs[d] # "none" /\ ArgsInstalled(pairs, c) => ArgsInstalled(pairs, a)
    BY <2>2, <2>5 DEF ArgsInstalled
  <2> QED BY <2>4, <2>6, <2>7 DEF Keeps
<1> QED BY <1>2, <1>3

LEMMA ArgDirFacts ==
    ASSUME NEW args \in Seq(Args), NEW d \in AllNames
    PROVE  ArgOrOwnDir(args, d) \in Dirs
<1>1. CASE ~HasCertArg(args, d)
  BY <1>1, ControlNames DEF ArgOrOwnDir
<1>2. CASE HasCertArg(args, d)
  <2>1. PICK I, w : I = CertArgsOf(args, d) /\ w = Selected(args, I)
    OBVIOUS
  <2>2. I \in SUBSET (1..Len(args)) /\ I # {} /\ \A i \in I : IsCertOf(args[i], d) /\ args[i] \in Args
    BY <1>2, <2>1 DEF HasCertArg, CertArgsOf
  <2>3. w \in Seq(Args) /\ IsSelection(w, args, I)
    BY <2>1, <2>2, SelectedFacts
  <2>4. 1 \in 1..Len(w)
    <3>1. PICK i \in I, k \in 1..Len(w) : w[k] = args[i]
      BY <2>2, <2>3 DEF IsSelection
    <3>2. Len(w) \in Nat
      BY <2>3
    <3> QED BY <3>1, <3>2
  <2>5. PICK i \in I : w[1] = args[i]
    BY <2>3, <2>4 DEF IsSelection
  <2>6. w[1] \in CertArgs
    BY <2>2, <2>5 DEF IsCertOf, Args
  <2> QED BY <1>2, <2>1, <2>6 DEF ArgOrOwnDir, DomainCertArgDir, CertArgs
<1> QED BY <1>1, <1>2

LEMMA RemoveDomainKeeps ==
    ASSUME NEW env \in Stored, NEW c \in Configs, NEW d \in Domains, NEW pairs,
           NEW a, a = RemoveDomain(env, c, d)
    PROVE  Keeps(pairs, c, a)
<1>1. PICK l : l = ConfiguredDomainList(env, c)
  OBVIOUS
<1>2. /\ l \in Seq(AllNames) /\ IsInjective(l) /\ Example \notin Range(l)
      /\ Range(c.vhost) \ {Example} \subseteq Range(l)
      /\ c.domain # Example => l # <<>> /\ l[1] = c.domain
  BY <1>1, ListFacts
<1>3. PICK X, rest : X = {d} /\ rest = Without(l, X)
  OBVIOUS
<1>4. /\ rest \in Seq(AllNames) /\ Range(rest) = Range(l) \ X /\ IsInjective(rest)
      /\ l # <<>> /\ l[1] \notin X => rest # <<>> /\ rest[1] = l[1]
  <2>1. l \in Seq(AllNames)
    BY <1>2
  <2>2. /\ rest \in Seq(AllNames)
        /\ Range(rest) = Range(l) \ X
        /\ IsInjective(l) => IsInjective(rest)
        /\ l # <<>> /\ l[1] \notin X => rest # <<>> /\ rest[1] = l[1]
    BY <1>3, <2>1, WithoutFacts
  <2> QED BY <1>2, <2>2
<1>5. PICK u : u = RemoveDomainCertArg(c.args, d)
  OBVIOUS
<1>6. /\ u \in Seq(Args)
      /\ \A k \in DOMAIN u : \E i \in DOMAIN c.args : u[k] = c.args[i]
      /\ \A names : ArgsInStep(c.args, names) => ArgsInStep(u, names \ {d})
  BY <1>5, ConfigFields, ArgFacts
<1>7. PICK old : old = (Range(c.vhost) \ {Example}) \ {c.domain}
  OBVIOUS
<1>8. InStep(c) => ArgsInStep(u, old \ {d})
  BY <1>6, <1>7 DEF InStep
<1>9. CASE rest = <<>>
  <2>1. PICK none : none = <<>>
    OBVIOUS
  <2>2. none \in Seq(Args) /\ none \in Seq(AllNames) /\ DOMAIN none = {} /\ Range(none) = {}
    BY <2>1 DEF Range
  <2>3. Fields(a, Example, Ngrok(Example), DefaultTls, c.token, c.addr, none, none)
    BY <1>1, <1>3, <1>9, <2>1 DEF RemoveDomain, Fields, Configs
  <2>4. a \in Configs
    BY <2>2, <2>3, ConfigFields, FieldsMakeConfigs, ControlNames
  <2>5. a.args = none /\ a.vhost = none /\ a.domain = Example
    BY <2>3 DEF Fields
  <2> QED BY <2>2, <2>4, <2>5 DEF Keeps, InStep, ArgsInStep, ArgsInstalled, IsInjective, DefaultLikeDomain
<1>10. CASE rest # <<>> /\ (c.domain = d \/ c.domain = Example)
  <2>1. PICK next : next = rest[1]
    OBVIOUS
  <2>2. next \in AllNames /\ next \in Range(rest) /\ next # Example
    BY <1>2, <1>4, <1>10, <2>1 DEF Range
  <2>3. PICK t : t = RemoveDomainCertArg(u, next)
    OBVIOUS
  <2>4. /\ t \in Seq(Args)
        /\ \A k \in DOMAIN t : \E i \in DOMAIN u : t[k] = u[i]
        /\ \A names : ArgsInStep(u, names) => ArgsInStep(t, names \ {next})
    BY <1>6, <2>3, ArgFacts
  <2>5. PICK control \in Controls, tls \in Dirs :
          Fields(a, next, control, tls, c.token, c.addr, t, rest)
    <3> DEFINE control == IF DefaultLikeControlHost(c.control) \/ c.control.of = d THEN Ngrok(next)
                          ELSE c.control
    <3>1. control \in Controls /\ ArgOrOwnDir(u, next) \in Dirs
      BY <1>6, <2>2, ConfigFields, ControlNames, ArgDirFacts
    <3>2. Fields(a, next, control, ArgOrOwnDir(u, next), c.token, c.addr, t, rest)
      BY <1>1, <1>3, <1>5, <1>10, <2>1, <2>3 DEF RemoveDomain, Fields, Configs, DefaultLikeDomain
    <3> QED BY <3>1, <3>2
  <2>6. a \in Configs
    BY <1>4, <2>2, <2>4, <2>5, ConfigFields, FieldsMakeConfigs
  <2>7. a.args = t /\ a.vhost = rest /\ a.domain = next
    BY <2>5 DEF Fields
  <2>8. ASSUME InStep(c) PROVE InStep(a)
    <3>1. PICK new : new = (Range(rest) \ {Example}) \ {next}
      OBVIOUS
    <3>2. (old \ {d}) \ {next} \subseteq new
      BY <1>2, <1>3, <1>4, <1>7, <3>1
    <3>3. ArgsInStep(t, new)
      BY <1>8, <2>4, <2>8, <3>2, MoreNames
    <3> QED BY <1>4, <2>1, <2>2, <2>7, <3>1, <3>3 DEF InStep, DefaultLikeDomain
  <2>9. ArgsInstalled(pairs, c) => ArgsInstalled(pairs, a)
    BY <1>6, <2>4, <2>7 DEF ArgsInstalled
  <2> QED BY <2>6, <2>8, <2>9 DEF Keeps
<1>11. CASE rest # <<>> /\ c.domain # d /\ c.domain # Example
  <2>1. Fields(a, c.domain, c.control, c.tls, c.token, c.addr, u, rest)
    BY <1>1, <1>3, <1>5, <1>11 DEF RemoveDomain, Fields, Configs, DefaultLikeDomain
  <2>2. a \in Configs
    BY <1>4, <1>6, <2>1, ConfigFields, FieldsMakeConfigs
  <2>3. a.args = u /\ a.vhost = rest /\ a.domain = c.domain
    BY <2>1 DEF Fields
  <2>4. ASSUME InStep(c) PROVE InStep(a)
    <3>1. PICK new : new = (Range(rest) \ {Example}) \ {c.domain}
      OBVIOUS
    <3>2. old \ {d} \subseteq new
      BY <1>2, <1>3, <1>4, <1>7, <3>1
    <3>3. ArgsInStep(u, new)
      BY <1>8, <2>4, <3>2, MoreNames
    <3>4. rest[1] = c.domain
      BY <1>2, <1>3, <1>4, <1>11
    <3> QED BY <1>4, <1>11, <2>3, <3>1, <3>3, <3>4 DEF InStep, DefaultLikeDomain
  <2>5. ArgsInstalled(pairs, c) => ArgsInstalled(pairs, a)
    BY <1>6, <2>3 DEF ArgsInstalled
  <2> QED BY <2>2, <2>4, <2>5 DEF Keeps
<1> QED BY <1>9, <1>10, <1>11

LEMMA ApplyDefaultsKeeps ==
    ASSUME NEW c \in Configs, NEW pairs, NEW a, a = ApplyDefaults(c)
    PROVE  Keeps(pairs, c, a)
<1>1. PICK control \in Controls :
        Fields(a, c.domain, control, c.tls, c.token, c.addr, c.args, c.vhost)
  <2>1. CASE DefaultLikeControlHost(c.control)
    <3>1. Fields(a, c.domain, Ngrok(c.domain), c.tls, c.token, c.addr, c.args, c.vhost)
      BY <2>1 DEF ApplyDefaults, Fields, Configs
    <3> QED BY <3>1, ConfigFields, ControlNames
  <2>2. CASE ~DefaultLikeControlHost(c.control)
    BY <2>2, ConfigFields DEF ApplyDefaults
  <2> QED BY <2>1, <2>2
<1>2. a \in Configs
  BY <1>1, ConfigFields, FieldsMakeConfigs
<1>3. a.args = c.args /\ a.vhost = c.vhost /\ a.domain = c.domain
  BY <1>1 DEF Fields
<1> QED BY <1>2, <1>3 DEF Keeps, InStep, ArgsInstalled

LEMMA ConfigFormKeeps ==
    ASSUME NEW c \in Configs, NEW token \in Tokens \cup {NoToken, ChangeMe}, NEW new \in Tokens,
           NEW addr \in Addrs, NEW pairs, NEW a, a = ConfigForm(c, token, addr, new)
    PROVE  Keeps(pairs, c, a)
<1>1. PICK b : b = [c EXCEPT !.addr = addr, !.token = IF token = NoToken THEN new ELSE token]
  OBVIOUS
<1>2. b \in Configs /\ b.args = c.args /\ b.vhost = c.vhost /\ b.domain = c.domain
  BY <1>1 DEF Configs
<1>3. a = ApplyDefaults(b)
  BY <1>1 DEF ConfigForm
<1>4. Keeps(pairs, b, a)
  BY <1>2, <1>3, ApplyDefaultsKeeps
<1> QED BY <1>2, <1>4 DEF Keeps, InStep, ArgsInstalled

LEMMA ReadKeeps ==
    ASSUME NEW env \in Stored, NEW pairs, NEW a, a = ReadServerConfig(env)
    PROVE  /\ a \in Configs
           /\ env \in {Absent, Empty} \/ (InStep(env) /\ ArgsInstalled(pairs, env)) =>
                 InStep(a) /\ ArgsInstalled(pairs, a)
<1>1. CASE env \in {Absent, Empty}
  <2>1. PICK none : none = <<>>
    OBVIOUS
  <2>2. none \in Seq(Args) /\ none \in Seq(AllNames) /\ DOMAIN none = {} /\ Range(none) = {}
    BY <2>1 DEF Range
  <2>3. Fields(a, Example, Ngrok(Example), DefaultTls, NoToken, "default", none, none)
    BY <1>1, <2>1 DEF ReadServerConfig, DefaultServerConfig, Fields
  <2>4. a \in Configs
    BY <2>2, <2>3, FieldsMakeConfigs, ControlNames DEF Addrs
  <2>5. a.args = none /\ a.vhost = none /\ a.domain = Example
    BY <2>3 DEF Fields
  <2> QED BY <2>2, <2>4, <2>5 DEF InStep, ArgsInStep, ArgsInstalled, IsInjective, DefaultLikeDomain
<1>2. CASE env \notin {Absent, Empty}
  <2>1. env \in Configs /\ a = ApplyDefaults(env)
    BY <1>2 DEF Stored, ReadServerConfig
  <2> QED BY <1>2, <2>1, ApplyDefaultsKeeps DEF Keeps
<1> QED BY <1>1, <1>2

LEMMA NginxConfigIsTyped ==
    ASSUME NEW env \in Stored, NEW c \in Configs
    PROVE  NginxConfig(env, c) \in NginxConfigs
<1>1. PICK l : l = ConfiguredDomainList(env, c)
  OBVIOUS
<1>2. PICK ds : ds = IF l = <<>> THEN <<c.domain>> ELSE l
  OBVIOUS
<1>3. ds \in Seq(AllNames) /\ DOMAIN ds = 1..Len(ds) /\ Len(ds) \in Nat
  <2>1. c.domain \in AllNames /\ l \in Seq(AllNames)
    BY <1>1, ListFacts, ConfigFields
  <2>2. CASE l = <<>>
    BY <1>2, <2>1, <2>2
  <2>3. CASE l # <<>>
    BY <1>2, <2>1, <2>3
  <2> QED BY <2>2, <2>3
<1>4. \A i \in DOMAIN ds : ds[i] \in AllNames /\ CertDir(c, ds[i]) \in Dirs
  <2>1. \A d \in AllNames : CertDir(c, d) \in Dirs
    BY ConfigFields, ArgDirFacts DEF CertDir
  <2> QED BY <1>3, <2>1
<1>5. PICK blocks : blocks = [i \in DOMAIN ds |-> [dom |-> ds[i], dir |-> CertDir(c, ds[i])]]
  OBVIOUS
<1>6. blocks \in Seq([dom : AllNames, dir : Dirs])
  <2>0. PICK n \in Nat : n = Len(ds)
    BY <1>3
  <2>1. PICK B : B = [dom : AllNames, dir : Dirs]
    OBVIOUS
  <2>2. blocks \in [1..n -> B]
    BY <1>3, <1>4, <1>5, <2>0, <2>1
  <2>3. blocks \in Seq(B)
    BY <2>0, <2>2
  <2> QED BY <2>1, <2>3
<1>7. NginxConfig(env, c) = [addr |-> c.addr, blocks |-> blocks]
  BY <1>1, <1>2, <1>5 DEF NginxConfig
<1> QED BY <1>6, <1>7, ConfigFields DEF NginxConfigs

(***************************************************************************)
(* Types.                                                                  *)
(***************************************************************************)
FilesTyped ==
    /\ node \in [Files -> Nodes \cup {0}] /\ tmp \in [Files -> Nodes \cup {0}]
    /\ data = [f \in Files |-> [n \in Nodes |-> data[f][n]]]
    /\ \A f \in Files, n \in Nodes :
          data[f][n] \in {Empty} \cup (IF f = "env" THEN {} ELSE {Broken}) \cup Contents(f)
RequestsTyped == req = [r \in Requests |-> req[r]] /\ \A r \in Requests : IsRequest(req[r])
MemoryTyped == up \in BOOLEAN /\ session \in BOOLEAN /\ mem \in Admins \cup {NoAdmin}
OutsideTyped ==
    /\ certs \in [Dirs -> {"none", "pair", "mixed"}]
    /\ server.state \in {"stopped", "active", "retrying"}
    /\ built \in [server : 0..MaxBuild, client : BOOLEAN]
    /\ left \in 0..MaxRequests

LEMMA TypeParts ==
    TypeOK <=> FilesTyped /\ RequestsTyped /\ MemoryTyped /\ OutsideTyped /\ clash \subseteq Files
BY DEF TypeOK, FilesTyped, RequestsTyped, MemoryTyped, OutsideTyped

HoldsConfig(q) == q.pc \in {"add", "delete", "issuing", "install", "installed", "compute", "nginx"}
OnDomain(q) == q.pc \in {"delete", "issuing", "install", "installed", "compute"}
Writes(q) == q.pc \in {"open", "fill", "rename"}

LEMMA RequestFields ==
    ASSUME NEW q, IsRequest(q)
    PROVE  /\ q.pc \in {"idle", "add", "delete", "issuing", "install", "installed", "compute", "nginx",
                        "open", "fill", "rename", "assign", "unit", "restart"}
           /\ HoldsConfig(q) => q.cfg \in Configs
           /\ OnDomain(q) => q.d \in Domains
           /\ q.pc = "add" => q.d \in AllNames /\ q.h \in Controls
           /\ q.pc = "assign" => q.name \in Admins
           /\ Writes(q) => q.file \in Files /\ q.val \in Contents(q.file) /\ q.then \in Thens(q.file)
           /\ q.pc \in {"fill", "rename"} => q.fd \in Nodes
BY DEF IsRequest, HoldsConfig, OnDomain, Writes

LEMMA RequestsMade ==
    /\ IsRequest(Idle) /\ IsRequest([pc |-> "unit"]) /\ IsRequest([pc |-> "restart"])
    /\ \A a \in Admins : IsRequest([pc |-> "assign", name |-> a])
    /\ \A c \in Configs : IsRequest([pc |-> "nginx", cfg |-> c])
    /\ \A c \in Configs, d \in AllNames, h \in Controls :
          IsRequest([pc |-> "add", cfg |-> c, d |-> d, h |-> h])
    /\ \A c \in Configs, d \in Domains :
          /\ IsRequest([pc |-> "delete", cfg |-> c, d |-> d])
          /\ IsRequest([pc |-> "issuing", cfg |-> c, d |-> d])
    /\ \A f \in Files : \A v \in Contents(f), t \in Thens(f) :
          /\ IsRequest(Writing(f, v, t))
          /\ \A n \in Nodes : IsRequest([pc |-> "fill", file |-> f, val |-> v, then |-> t, fd |-> n])
BY DEF IsRequest, Idle, Writing

LEMMA NextPositions ==
    ASSUME NEW q, IsRequest(q)
    PROVE  /\ q.pc = "issuing" => IsRequest([q EXCEPT !.pc = "install"])
           /\ q.pc = "install" => IsRequest([q EXCEPT !.pc = "installed"])
           /\ q.pc = "installed" => IsRequest([q EXCEPT !.pc = "compute"])
           /\ q.pc = "fill" => IsRequest([q EXCEPT !.pc = "rename"])
BY DEF IsRequest

LEMMA AfterWriteIsRequest ==
    ASSUME NEW q, IsRequest(q), Writes(q)
    PROVE  /\ IsRequest(AfterWrite(q))
           /\ AfterWrite(q).pc \in {"idle", "assign", "unit", "restart"}
           /\ AfterWrite(q).pc = "assign" <=> q.file = "admin"
           /\ AfterWrite(q).pc = "assign" => AfterWrite(q).name = q.val
<1>1. q.file \in Files /\ q.val \in Contents(q.file) /\ q.then \in Thens(q.file)
  BY RequestFields
<1>2. CASE q.file = "admin"
  <2>1. q.then = "assign" /\ q.val \in Admins
    BY <1>1, <1>2 DEF Thens, Contents
  <2>2. AfterWrite(q) = [pc |-> "assign", name |-> q.val]
    BY <2>1 DEF AfterWrite
  <2> QED BY <1>2, <2>1, <2>2, RequestsMade
<1>3. CASE q.file # "admin"
  <2>1. q.then \in {"done", "unit", "restart"}
    BY <1>1, <1>3 DEF Thens
  <2>2. AfterWrite(q) \in {Idle, [pc |-> "unit"], [pc |-> "restart"]}
    BY <2>1 DEF AfterWrite
  <2>3. IsRequest(AfterWrite(q))
    BY <2>2, RequestsMade
  <2>4. AfterWrite(q).pc \in {"idle", "unit", "restart"}
    BY <2>2 DEF Idle
  <2> QED BY <1>3, <2>3, <2>4
<1> QED BY <1>2, <1>3

LEMMA ContentIsTyped ==
    ASSUME FilesTyped
    PROVE  /\ \A f \in Files : Content(f) \in {Absent, Empty, Broken} \cup Contents(f)
           /\ Content("env") \in Stored
           /\ ReadConfig \in Configs
<1>1. \A f \in Files : Content(f) \in {Absent, Empty, Broken} \cup Contents(f)
  BY DEF FilesTyped, Content
<1>2. Content("env") \in Stored
  BY DEF FilesTyped, Content, Stored, Files, Contents
<1>3. ReadConfig \in Configs
  <2>1. PICK env \in Stored : env = Content("env")
    BY <1>2
  <2>2. PICK a : a = ReadServerConfig(env)
    OBVIOUS
  <2>3. a \in Configs
    BY <2>2, ReadKeeps
  <2> QED BY <2>1, <2>2, <2>3 DEF ReadConfig
<1> QED BY <1>1, <1>2, <1>3

LEMMA RequestGoes ==
    ASSUME RequestsTyped, NEW r \in Requests, NEW to, IsRequest(to), Goes(r, to)
    PROVE  /\ RequestsTyped' /\ req'[r] = to
           /\ \A q \in Requests : q # r => req'[q] = req[q]
BY DEF RequestsTyped, Goes

\* there is a node for every request and one for the path
LEMMA NodesSuffice ==
    ASSUME FilesTyped, RequestsTyped, NEW r \in Requests, req[r].pc = "open",
           NEW f \in Files, tmp[f] = 0
    PROVE  FreeNodes(f) # {}
<1> SUFFICES ASSUME Nodes \subseteq {node[f], tmp[f]} \cup {req[q].fd : q \in {p \in Requests : HasOpen(p, f)}}
             PROVE  FALSE
  BY DEF FreeNodes
<1>1. PICK others : others = Requests \ {r}
  OBVIOUS
<1>2. PICK g : g = [q \in others |-> req[q].fd]
  OBVIOUS
<1>3. PICK fds : fds = {g[q] : q \in others}
  OBVIOUS
<1>4. PICK n : n = Cardinality(Requests)
  OBVIOUS
<1>5. IsFiniteSet(others) /\ n \in Nat /\ Cardinality(others) = n - 1
  BY <1>1, <1>4, AdminAssumption, FS_RemoveElement, FS_CardinalityType
<1>6. IsFiniteSet(fds) /\ Cardinality(fds) <= n - 1
  <2>1. g \in Surjection(others, fds)
    BY <1>2, <1>3 DEF Surjection
  <2> QED BY <1>5, <2>1, FS_Surjection
<1>7. IsFiniteSet(fds \cup {node[f]}) /\ Cardinality(fds \cup {node[f]}) <= n
  <2>1. Cardinality(fds) \in Nat
    BY <1>6, FS_CardinalityType
  <2>2. IsFiniteSet(fds \cup {node[f]})
        /\ (Cardinality(fds \cup {node[f]}) = Cardinality(fds) \/ Cardinality(fds \cup {node[f]}) = Cardinality(fds) + 1)
    BY <1>6, FS_AddElement
  <2> QED BY <1>5, <1>6, <2>1, <2>2
<1>8. Nodes \subseteq fds \cup {node[f]}
  <2>1. \A q \in Requests : HasOpen(q, f) => q \in others /\ g[q] = req[q].fd
    BY <1>1, <1>2 DEF HasOpen
  <2>2. 0 \notin Nodes
    BY DEF Nodes
  <2> QED BY <1>3, <2>1, <2>2
<1>9. Cardinality(Nodes) = n + 1
  <2>1. Nodes = 1..(n + 1)
    BY <1>4 DEF Nodes
  <2> QED BY <1>5, <2>1, FS_Interval
<1>10. Cardinality(Nodes) <= Cardinality(fds \cup {node[f]}) /\ Cardinality(fds \cup {node[f]}) \in Nat
  BY <1>7, <1>8, FS_Subset, FS_CardinalityType
<1> QED BY <1>5, <1>7, <1>9, <1>10

(***************************************************************************)
(* The steps.  Of all handlers only the writer of a file and the setup do  *)
(* more to files and memory than move their request on.                    *)
(***************************************************************************)
\* where a handler may take a configuration from
From(r, c) == c = ReadConfig \/ (HoldsConfig(req[r]) /\ c = req[r].cfg)
CertsLast == \A d \in Dirs : certs[d] # "none" => certs'[d] # "none"
Computing(q) == q.pc = "compute" => certs[q.d] # "none"

Moves(r, to) ==
    /\ Goes(r, to) /\ IsRequest(to) /\ to.pc \notin {"fill", "rename", "assign"}
    /\ to.pc = "open" => to.file # "admin"
    /\ req[r].pc # "assign" /\ (req[r].pc = "idle" => up)
    /\ UNCHANGED <<files, memory, clash>>
    /\ CertsLast /\ (to.pc = "compute" => certs'[to.d] # "none")
    /\ HoldsConfig(to) => From(r, to.cfg)
    /\ Computing(req[r]) /\ to.pc = "open" /\ to.file = "env" =>
          \E c \in Configs : From(r, c) /\ Keeps(certs, c, to.val)

\* a step that leaves the requests and the files alone
Still == UNCHANGED <<req, files, up, mem, clash, certs>>

Serving(r) ==
    \/ WriteFails(r)
    \/ Config(r) \/ CertificateDomain(r) \/ CertificateDomainDelete(r) \/ CertificateIssue(r)
    \/ DomainSaved(r) \/ DomainDeleted(r)
    \/ AcmeIssued(r) \/ FirstInstalled(r) \/ SecondInstalled(r) \/ AcmeFails(r) \/ IssueSaved(r)
    \/ NginxWrite(r) \/ NginxComputed(r)
    \/ InstallServer(r) \/ InstallUnit(r) \/ ServerInstallsUnit(r) \/ ServerRestarted(r)

LEMMA SameCerts == ASSUME UNCHANGED certs PROVE CertsLast
BY DEF CertsLast

\* a request that moves on and takes its configuration along
LEMMA PlainMove ==
    ASSUME NEW r \in Requests, NEW to, Goes(r, to), IsRequest(to),
           to.pc \notin {"fill", "rename", "assign", "compute", "open"},
           req[r].pc # "assign", req[r].pc = "idle" => up,
           UNCHANGED <<memory, files, clash>>, CertsLast,
           HoldsConfig(to) => From(r, to.cfg)
    PROVE  Moves(r, to)
BY DEF Moves

LEMMA BeginMoves ==
    ASSUME TypeOK, NEW r \in Requests, NEW to, Begin(r, to), IsRequest(to),
           to.pc \notin {"fill", "rename", "assign", "compute"},
           to.pc = "open" => to.file # "admin",
           HoldsConfig(to) => to.cfg = ReadConfig,
           to.pc = "open" /\ to.file = "env" => \E c \in Configs : From(r, c) /\ Keeps(certs, c, to.val)
    PROVE  Moves(r, to) /\ OutsideTyped'
<1>1. Goes(r, to) /\ up /\ req[r].pc = "idle" /\ UNCHANGED <<memory, files, outside, clash>>
  BY DEF Begin, Authorized
<1>2. left' \in 0..MaxRequests
  <2>1. left \in 0..MaxRequests /\ left > 0 /\ left' = left - 1
    BY DEF Begin, TypeOK
  <2> QED BY <2>1, AdminAssumption
<1>3. OutsideTyped'
  BY <1>1, <1>2 DEF TypeOK, OutsideTyped, outside
<1>4. CertsLast
  BY <1>1, SameCerts DEF outside
<1> QED BY <1>1, <1>3, <1>4 DEF Moves, From

LEMMA ConfigMoves ==
    ASSUME TypeOK, NEW r \in Requests, Config(r)
    PROVE  OutsideTyped' /\ \E to : Moves(r, to)
<1>0. PICK token \in Tokens \cup {NoToken, ChangeMe}, new \in Tokens, addr \in Addrs :
         Begin(r, Writing("env", ConfigForm(ReadConfig, token, addr, new), "done"))
  BY DEF Config, Addrs
<1>1. PICK a : a = ConfigForm(ReadConfig, token, addr, new) /\ Begin(r, Writing("env", a, "done"))
  BY <1>0
<1>2. PICK c \in Configs : c = ReadConfig
  BY TypeParts, ContentIsTyped
<1>3. Keeps(certs, c, a)
  BY <1>1, <1>2, ConfigFormKeeps
<1>4. PICK to : to = Writing("env", a, "done")
  OBVIOUS
<1>5. IsRequest(to)
  <2>1. a \in Contents("env")
    BY <1>3 DEF Keeps, Contents
  <2>2. "env" \in Files /\ "done" \in Thens("env")
    BY DEF Files, Thens
  <2> QED BY <1>4, <2>1, <2>2, RequestsMade
<1>6. to.pc = "open" /\ to.file = "env" /\ to.val = a
  BY <1>4 DEF Writing
<1>7. From(r, c)
  BY <1>2 DEF From
<1>8. Moves(r, to) /\ OutsideTyped'
  BY <1>1, <1>3, <1>4, <1>5, <1>6, <1>7, BeginMoves DEF HoldsConfig
<1> QED BY <1>8

\* the handlers that read the configuration first
LEMMA BeginReads ==
    ASSUME TypeOK, NEW r \in Requests,
           CertificateDomain(r) \/ CertificateDomainDelete(r) \/ CertificateIssue(r) \/ NginxWrite(r)
    PROVE  OutsideTyped' /\ \E to : Moves(r, to)
<1>1. PICK c \in Configs : c = ReadConfig
  BY TypeParts, ContentIsTyped
<1>2. PICK to : /\ Begin(r, to) /\ IsRequest(to) /\ to.cfg = c
                /\ to.pc \in {"add", "delete", "issuing", "nginx"}
  <2>1. CASE CertificateDomain(r)
    <3>1. PICK d \in AllNames, h \in Controls : Begin(r, [pc |-> "add", cfg |-> c, d |-> d, h |-> h])
      BY <1>1, <2>1, ControlNames DEF CertificateDomain
    <3> QED BY <3>1, RequestsMade
  <2>2. CASE CertificateDomainDelete(r)
    <3>1. PICK d \in Domains : Begin(r, [pc |-> "delete", cfg |-> c, d |-> d])
      BY <1>1, <2>2 DEF CertificateDomainDelete
    <3>2. IsRequest([pc |-> "delete", cfg |-> c, d |-> d])
      BY RequestsMade
    <3> QED BY <3>1, <3>2
  <2>3. CASE CertificateIssue(r)
    <3>1. PICK d \in Domains : Begin(r, [pc |-> "issuing", cfg |-> c, d |-> d])
      BY <1>1, <2>3 DEF CertificateIssue
    <3>2. IsRequest([pc |-> "issuing", cfg |-> c, d |-> d])
      BY RequestsMade
    <3> QED BY <3>1, <3>2
  <2>4. CASE NginxWrite(r)
    BY <1>1, <2>4, RequestsMade DEF NginxWrite
  <2> QED BY <2>1, <2>2, <2>3, <2>4
<1>3. Moves(r, to) /\ OutsideTyped'
  BY <1>1, <1>2, BeginMoves
<1> QED BY <1>3

\* a request that begins or goes on to write another file than that of the environment
LEMMA OtherFiles ==
    ASSUME TypeOK, NEW r \in Requests, InstallServer(r) \/ InstallUnit(r) \/ ServerInstallsUnit(r)
    PROVE  OutsideTyped' /\ \E to : Moves(r, to)
<1>1. built.server \in Contents("bin") /\ "unit" \in Contents("unit")
  BY DEF TypeOK, Contents
<1>2. /\ {"bin", "unit"} \subseteq Files
      /\ {"unit", "done", "restart"} \subseteq Thens("unit") /\ "unit" \in Thens("bin")
  BY DEF Files, Thens
<1>3. CASE InstallServer(r)
  <2>1. PICK to : to = Writing("bin", built.server, "unit")
    OBVIOUS
  <2>2. Begin(r, to) /\ IsRequest(to)
    BY <1>1, <1>2, <1>3, <2>1, RequestsMade DEF InstallServer
  <2>3. to.pc = "open" /\ to.file = "bin"
    BY <2>1 DEF Writing
  <2> QED BY <2>2, <2>3, BeginMoves DEF HoldsConfig
<1>4. CASE InstallUnit(r)
  <2>1. PICK to : to = Writing("unit", "unit", "done")
    OBVIOUS
  <2>2. Begin(r, to) /\ IsRequest(to)
    BY <1>1, <1>2, <1>4, <2>1, RequestsMade DEF InstallUnit
  <2>3. to.pc = "open" /\ to.file = "unit"
    BY <2>1 DEF Writing
  <2> QED BY <2>2, <2>3, BeginMoves DEF HoldsConfig
<1>5. CASE ServerInstallsUnit(r)
  <2>1. PICK to : to = IF CanInstallUnit THEN Writing("unit", "unit", "restart") ELSE Idle
    OBVIOUS
  <2>2. /\ Goes(r, to) /\ req[r].pc = "unit"
        /\ UNCHANGED <<memory, files, outside, left, clash>>
    BY <1>5, <2>1 DEF ServerInstallsUnit
  <2>3. IsRequest(to)
    BY <1>1, <1>2, <2>1, RequestsMade
  <2>4. to.pc \in {"open", "idle"} /\ (to.pc = "open" => to.file = "unit")
    BY <2>1 DEF Writing, Idle
  <2>5. CertsLast
    BY <2>2, SameCerts DEF outside
  <2>6. OutsideTyped'
    BY <2>2 DEF TypeOK, OutsideTyped, outside
  <2>7. Moves(r, to)
    BY <2>2, <2>3, <2>4, <2>5 DEF Moves, HoldsConfig
  <2> QED BY <2>6, <2>7
<1> QED BY <1>3, <1>4, <1>5

\* the handlers that have computed what the file shall hold
LEMMA ComputedMoves ==
    ASSUME TypeOK, NEW r \in Requests,
           DomainSaved(r) \/ DomainDeleted(r) \/ IssueSaved(r) \/ NginxComputed(r)
    PROVE  OutsideTyped' /\ \E to : Moves(r, to)
<1>1. PICK env \in Stored : env = Content("env")
  BY TypeParts, ContentIsTyped
<1>2. PICK q : q = req[r] /\ IsRequest(q)
  BY DEF TypeOK
<1>3. q.pc \in {"add", "delete", "compute", "nginx"} /\ UNCHANGED <<memory, files, outside, left, clash>>
  BY <1>2 DEF DomainSaved, DomainDeleted, IssueSaved, NginxComputed
<1>4. PICK c \in Configs : c = q.cfg
  BY <1>2, <1>3, RequestFields DEF HoldsConfig
<1>5. From(r, c)
  BY <1>2, <1>3, <1>4 DEF From, HoldsConfig
<1>6. CertsLast /\ OutsideTyped'
  BY <1>3, SameCerts DEF TypeOK, OutsideTyped, outside
<1>7. {"env", "nginx"} \subseteq Files /\ "done" \in Thens("env") /\ "done" \in Thens("nginx")
  BY DEF Files, Thens
<1>8. ASSUME NEW a \in Configs, Goes(r, Writing("env", a, "done")),
             Computing(q) => Keeps(certs, c, a)
      PROVE  \E to : Moves(r, to)
  <2>1. PICK to : to = Writing("env", a, "done")
    OBVIOUS
  <2>2. IsRequest(to)
    BY <1>7, <2>1, RequestsMade DEF Contents
  <2>3. to.pc = "open" /\ to.file = "env" /\ to.val = a
    BY <2>1 DEF Writing
  <2>4. Moves(r, to)
    BY <1>2, <1>3, <1>5, <1>6, <1>8, <2>1, <2>2, <2>3 DEF Moves, HoldsConfig
  <2> QED BY <2>4
<1>9. CASE DomainSaved(r)
  <2>1. PICK a : a = AddDomain(env, c, q.d, q.h)
    OBVIOUS
  <2>2. q.d \in AllNames /\ q.h \in Controls /\ Goes(r, Writing("env", a, "done"))
    BY <1>1, <1>2, <1>4, <1>9, <2>1, RequestFields DEF DomainSaved
  <2>3. Keeps(certs, c, a)
    BY <2>1, <2>2, AddDomainKeeps
  <2> QED BY <1>6, <1>8, <2>2, <2>3 DEF Keeps
<1>10. CASE DomainDeleted(r)
  <2>1. PICK a : a = RemoveDomain(env, c, q.d)
    OBVIOUS
  <2>2. q.d \in Domains /\ (Goes(r, Writing("env", a, "done")) \/ Goes(r, Idle))
    BY <1>1, <1>2, <1>4, <1>10, <2>1, RequestFields DEF DomainDeleted, OnDomain
  <2>3. Keeps(certs, c, a)
    BY <2>1, <2>2, RemoveDomainKeeps
  <2>4. CASE Goes(r, Idle)
    <3>1. Moves(r, Idle)
      BY <1>2, <1>3, <1>6, <2>4, RequestsMade, PlainMove DEF Idle, HoldsConfig
    <3> QED BY <1>6, <3>1
  <2> QED BY <1>6, <1>8, <2>2, <2>3, <2>4 DEF Keeps
<1>11. CASE IssueSaved(r)
  <2>1. PICK a : a = CertificateIssued(env, c, q.d)
    OBVIOUS
  <2>2. q.d \in Domains /\ q.pc = "compute" /\ Goes(r, Writing("env", a, "done"))
    BY <1>1, <1>2, <1>4, <1>11, <2>1, RequestFields DEF IssueSaved, OnDomain
  <2>3. a \in Configs /\ (certs[q.d] # "none" => Keeps(certs, c, a))
    BY <2>1, <2>2, CertificateIssuedKeeps
  <2> QED BY <1>6, <1>8, <2>2, <2>3 DEF Computing
<1>12. CASE NginxComputed(r)
  <2>1. PICK n : n = NginxConfig(env, c)
    OBVIOUS
  <2>2. n \in NginxConfigs
    BY <2>1, NginxConfigIsTyped
  <2>3. PICK to : to = Writing("nginx", n, "done")
    OBVIOUS
  <2>4. IsRequest(to)
    BY <1>7, <2>2, <2>3, RequestsMade DEF Contents
  <2>5. to.pc = "open" /\ to.file = "nginx" /\ Goes(r, to)
    BY <1>1, <1>2, <1>4, <1>12, <2>1, <2>3 DEF Writing, NginxComputed
  <2>6. Moves(r, to)
    BY <1>2, <1>3, <1>6, <2>4, <2>5 DEF Moves, HoldsConfig
  <2> QED BY <1>6, <2>6
<1> QED BY <1>9, <1>10, <1>11, <1>12

\* acme.sh, and what only gives up or restarts the server
LEMMA AcmeMoves ==
    ASSUME TypeOK, NEW r \in Requests,
           AcmeIssued(r) \/ FirstInstalled(r) \/ SecondInstalled(r) \/ AcmeFails(r)
           \/ WriteFails(r) \/ ServerRestarted(r)
    PROVE  OutsideTyped' /\ \E to : Moves(r, to)
<1>1. PICK q : q = req[r] /\ IsRequest(q)
  BY DEF TypeOK
<1>2. certs \in [Dirs -> {"none", "pair", "mixed"}]
  BY DEF TypeOK
<1>3. CASE AcmeIssued(r) \/ FirstInstalled(r) \/ SecondInstalled(r)
  <2>0. q.pc \in {"issuing", "install", "installed"}
        /\ q \in [pc : {"issuing", "install", "installed"}, cfg : Configs, d : Domains]
    BY <1>1, <1>3 DEF AcmeIssued, FirstInstalled, SecondInstalled, IsRequest
  <2>1. PICK to : /\ Goes(r, to) /\ UNCHANGED <<memory, files, nginx, server, built, left, clash>>
                  /\ to.pc \in {"install", "installed", "compute"} /\ to.d = q.d /\ to.cfg = q.cfg
                  /\ IsRequest(to)
                  /\ \/ to.pc # "compute" /\ certs' = certs
                     \/ \E s \in {"mixed", "pair"} : certs' = [certs EXCEPT ![q.d] = s]
    <3>1. CASE AcmeIssued(r)
      <4>1. PICK to : to = [q EXCEPT !.pc = "install"]
        OBVIOUS
      <4>2. to.pc = "install" /\ to.d = q.d /\ to.cfg = q.cfg
        BY <2>0, <4>1
      <4> QED BY <1>1, <3>1, <4>1, <4>2, NextPositions DEF AcmeIssued, outside
    <3>2. CASE FirstInstalled(r)
      <4>1. PICK to : to = [q EXCEPT !.pc = "installed"]
        OBVIOUS
      <4>2. to.pc = "installed" /\ to.d = q.d /\ to.cfg = q.cfg
        BY <2>0, <4>1
      <4> QED BY <1>1, <3>2, <4>1, <4>2, NextPositions DEF FirstInstalled
    <3>3. CASE SecondInstalled(r)
      <4>1. PICK to : to = [q EXCEPT !.pc = "compute"]
        OBVIOUS
      <4>2. to.pc = "compute" /\ to.d = q.d /\ to.cfg = q.cfg
        BY <2>0, <4>1
      <4> QED BY <1>1, <3>3, <4>1, <4>2, NextPositions DEF SecondInstalled
    <3> QED BY <1>3, <3>1, <3>2, <3>3
  <2>2. q.d \in Dirs
    BY <2>0 DEF Dirs, AllNames
  <2>3. CertsLast /\ certs' \in [Dirs -> {"none", "pair", "mixed"}]
    BY <1>2, <2>1, <2>2 DEF CertsLast
  <2>4. to.pc = "compute" => certs'[to.d] # "none"
    BY <1>2, <2>1, <2>2
  <2>5. OutsideTyped'
    BY <2>1, <2>3 DEF TypeOK, OutsideTyped
  <2>6. From(r, to.cfg)
    BY <1>1, <2>0, <2>1 DEF From, HoldsConfig
  <2>7. Moves(r, to)
    BY <1>1, <2>0, <2>1, <2>3, <2>4, <2>6 DEF Moves
  <2> QED BY <2>5, <2>7
<1>4. CASE AcmeFails(r) \/ WriteFails(r) \/ ServerRestarted(r)
  <2>1. /\ Goes(r, Idle) /\ q.pc \in {"issuing", "install", "installed", "open", "fill", "restart"}
        /\ UNCHANGED <<memory, files, certs, nginx, built, left, clash>>
        /\ server' = server \/ server' = Started(Content("env"))
    BY <1>1, <1>4 DEF AcmeFails, WriteFails, ServerRestarted, outside
  <2>2. OutsideTyped'
    BY <2>1 DEF TypeOK, OutsideTyped, Started
  <2>3. Moves(r, Idle)
    BY <1>1, <2>1, SameCerts, RequestsMade, PlainMove DEF Idle, HoldsConfig
  <2> QED BY <2>2, <2>3
<1> QED BY <1>3, <1>4

LEMMA ServingMoves ==
    ASSUME TypeOK, NEW r \in Requests, Serving(r)
    PROVE  OutsideTyped' /\ \E to : Moves(r, to)
BY ConfigMoves, BeginReads, OtherFiles, ComputedMoves, AcmeMoves DEF Serving

\* the kinds of steps that there are
Kinds ==
    \/ \E r \in Requests :
          \/ WriteOpen(r) \/ WriteFill(r) \/ WriteRename(r)
          \/ (\E a \in Admins : Setup(r, a)) \/ SetupAssigns(r)
          \/ \E to : Moves(r, to)
    \/ Still \/ Crash \/ Restart

LEMMA StepKinds ==
    ASSUME TypeOK, [Next]_vars
    PROVE  Kinds /\ OutsideTyped' /\ session' \in BOOLEAN
<1>1. CASE \E r \in Requests : Handler(r)
  <2>1. PICK r \in Requests : Handler(r)
    BY <1>1
  <2>2. CASE Serving(r)
    BY <2>2, ServingMoves DEF Kinds, Moves, memory, TypeOK
  <2>3. CASE WriteOpen(r) \/ WriteFill(r) \/ WriteRename(r) \/ SetupAssigns(r)
    <3>1. UNCHANGED <<outside, left>> /\ (session' = session \/ session' = TRUE)
      BY <2>3 DEF WriteOpen, WriteFill, WriteRename, SetupAssigns, memory, SetSession
    <3>2. OutsideTyped' /\ session' \in BOOLEAN
      BY <3>1 DEF TypeOK, OutsideTyped, outside
    <3> QED BY <2>3, <3>2 DEF Kinds
  <2>4. CASE \E a \in Admins : Setup(r, a)
    <3>1. /\ UNCHANGED <<outside, session>>
          /\ left \in 0..MaxRequests /\ left > 0 /\ left' = left - 1
      BY <2>4 DEF Setup, memory, TypeOK
    <3>2. left' \in 0..MaxRequests
      BY <3>1, AdminAssumption
    <3>3. OutsideTyped' /\ session' \in BOOLEAN
      BY <3>1, <3>2 DEF TypeOK, OutsideTyped, outside
    <3> QED BY <2>4, <3>3 DEF Kinds
  <2> QED BY <2>1, <2>2, <2>3, <2>4 DEF Handler, Serving
<1>2. CASE Login \/ SessionEnds
  <2>1. Still /\ OutsideTyped' /\ session' \in BOOLEAN
    BY <1>2 DEF Login, SessionEnds, SetSession, ClearSession, Still, outside, files, TypeOK, OutsideTyped
  <2> QED BY <2>1 DEF Kinds
<1>3. CASE Crash \/ Restart
  <2>1. OutsideTyped' /\ session' \in BOOLEAN
    BY <1>3 DEF Crash, Restart, outside, TypeOK, OutsideTyped
  <2> QED BY <1>3, <2>1 DEF Kinds
<1>4. CASE NginxReload \/ ServiceStarts \/ ServiceStops \/ SystemdRetries
  <2>1. /\ UNCHANGED <<memory, req, files, certs, built, left, clash>>
        /\ server' = server \/ server' = Started(Content("env")) \/ server' = [state |-> "stopped"]
    BY <1>4 DEF NginxReload, ServiceStarts, ServiceStops, SystemdRetries
  <2>2. Still /\ OutsideTyped' /\ session' \in BOOLEAN
    BY <2>1 DEF Still, memory, TypeOK, OutsideTyped, Started
  <2> QED BY <2>2 DEF Kinds
<1>5. CASE Build
  <2>1. /\ UNCHANGED <<memory, req, files, certs, server, left, clash>>
        /\ built \in [server : 0..MaxBuild, client : BOOLEAN]
        /\ \/ built.server < MaxBuild /\ built' = [built EXCEPT !.server = @ + 1]
           \/ built' = [built EXCEPT !.client = TRUE]
    BY <1>5 DEF Build, TypeOK
  <2>2. built' \in [server : 0..MaxBuild, client : BOOLEAN]
    <3>1. PICK n \in 0..MaxBuild, b \in BOOLEAN : n = built.server /\ b = built.client
      BY <2>1
    <3>2. built = [server |-> n, client |-> b]
      BY <2>1, <3>1
    <3>3. CASE built' = [built EXCEPT !.client = TRUE]
      BY <3>2, <3>3
    <3>4. CASE n < MaxBuild /\ built' = [server |-> n + 1, client |-> b]
      <4>1. n + 1 \in 0..MaxBuild
        BY <3>4, AdminAssumption
      <4> QED BY <3>4, <4>1
    <3> QED BY <2>1, <3>1, <3>2, <3>3, <3>4
  <2>3. Still /\ OutsideTyped' /\ session' \in BOOLEAN
    BY <2>1, <2>2 DEF Still, memory, TypeOK, OutsideTyped
  <2> QED BY <2>3 DEF Kinds
<1>6. CASE UNCHANGED vars
  <2>1. Still /\ OutsideTyped' /\ session' \in BOOLEAN
    BY <1>6 DEF vars, memory, files, outside, Still, TypeOK, OutsideTyped
  <2> QED BY <2>1 DEF Kinds
<1> QED BY <1>1, <1>2, <1>3, <1>4, <1>5, <1>6 DEF Next

(***************************************************************************)
(* The files.  While one request alone writes a file, path.tmp leads to    *)
(* the node that it has open, and never to the one that path leads to.     *)
(***************************************************************************)
OpenFile(f) ==
    /\ tmp[f] # 0 => tmp[f] # node[f]
    /\ node[f] # 0 => data[f][node[f]] \in Contents(f)
    /\ \A r \in Requests : HasOpen(r, f) =>
          /\ tmp[f] = req[r].fd
          /\ data[f][req[r].fd] = IF req[r].pc = "fill" THEN Empty ELSE req[r].val
    /\ \A r, q \in Requests : HasOpen(r, f) /\ HasOpen(q, f) => r = q
FilesInv == \A f \in Files : Alone(f) => OpenFile(f)

\* what a path leads to does not change
Unmoved(f) == Content(f)' = Content(f)

LEMMA OpenFileStays ==
    ASSUME TypeOK, NEW f \in Files, OpenFile(f), UNCHANGED <<node[f], tmp[f], data[f]>>,
           \A q \in Requests : HasOpen(q, f)' => HasOpen(q, f) /\ req'[q] = req[q]
    PROVE  OpenFile(f)'
BY DEF OpenFile

LEMMA OpenTypes ==
    ASSUME TypeOK, NEW r \in Requests, WriteOpen(r)
    PROVE  /\ RequestsTyped' /\ FilesTyped'
           /\ \E f \in Files, i \in Nodes :
                 /\ f = req[r].file
                 /\ (tmp[f] # 0 /\ i = tmp[f]) \/ (tmp[f] = 0 /\ i \in FreeNodes(f))
                 /\ tmp' = [tmp EXCEPT ![f] = i] /\ data' = [data EXCEPT ![f][i] = Empty]
                 /\ req'[r] = [pc |-> "fill", file |-> f, val |-> req[r].val, then |-> req[r].then, fd |-> i]
                 /\ \A q \in Requests : q # r => req'[q] = req[q]
                 /\ clash' = IF \E q \in Requests \ {r} : HasOpen(q, f) THEN clash \cup {f} ELSE clash
<1>0. RequestsTyped /\ FilesTyped
  BY TypeParts
<1>1. PICK q : q = req[r] /\ IsRequest(q)
  BY DEF TypeOK
<1>2. q.pc = "open" /\ Writes(q)
  BY <1>1 DEF WriteOpen, Writes
<1>3. PICK f, v, t :
        f \in Files /\ f = q.file /\ v = q.val /\ t = q.then /\ v \in Contents(f) /\ t \in Thens(f)
  BY <1>1, <1>2, RequestFields
<1>4. PICK i : i = IF tmp[f] # 0 THEN tmp[f] ELSE CHOOSE n \in FreeNodes(f) : TRUE
  OBVIOUS
<1>5. i \in Nodes /\ ((tmp[f] # 0 /\ i = tmp[f]) \/ (tmp[f] = 0 /\ i \in FreeNodes(f)))
  <2>1. CASE tmp[f] # 0
    BY <1>3, <1>4, <2>1 DEF TypeOK
  <2>2. CASE tmp[f] = 0
    <3>1. FreeNodes(f) # {}
      BY <1>0, <1>1, <1>2, <1>3, <2>2, NodesSuffice
    <3>2. i \in FreeNodes(f)
      BY <1>4, <2>2, <3>1
    <3> QED BY <2>2, <3>2 DEF FreeNodes
  <2> QED BY <2>1, <2>2
<1>6. PICK to : to = [pc |-> "fill", file |-> f, val |-> v, then |-> t, fd |-> i]
  OBVIOUS
<1>7. IsRequest(to)
  BY <1>3, <1>5, <1>6, RequestsMade
<1>8. /\ tmp' = [tmp EXCEPT ![f] = i] /\ data' = [data EXCEPT ![f][i] = Empty] /\ Goes(r, to)
      /\ clash' = IF \E p \in Requests \ {r} : HasOpen(p, f) THEN clash \cup {f} ELSE clash
      /\ UNCHANGED node
  BY <1>1, <1>3, <1>4, <1>6 DEF WriteOpen
<1>9. RequestsTyped' /\ req'[r] = to /\ \A p \in Requests : p # r => req'[p] = req[p]
  BY <1>0, <1>7, <1>8, RequestGoes
<1>10. FilesTyped'
  BY <1>0, <1>5, <1>8 DEF FilesTyped
<1> QED BY <1>1, <1>3, <1>5, <1>6, <1>8, <1>9, <1>10

LEMMA OpenKeeps ==
    ASSUME TypeOK, FilesInv, NEW r \in Requests, WriteOpen(r)
    PROVE  FilesInv' /\ \A g \in Files : Alone(g)' => Unmoved(g)
<1>1. PICK f \in Files, i \in Nodes :
        /\ f = req[r].file
        /\ (tmp[f] # 0 /\ i = tmp[f]) \/ (tmp[f] = 0 /\ i \in FreeNodes(f))
        /\ tmp' = [tmp EXCEPT ![f] = i] /\ data' = [data EXCEPT ![f][i] = Empty]
        /\ req'[r] = [pc |-> "fill", file |-> f, val |-> req[r].val, then |-> req[r].then, fd |-> i]
        /\ \A q \in Requests : q # r => req'[q] = req[q]
        /\ clash' = IF \E q \in Requests \ {r} : HasOpen(q, f) THEN clash \cup {f} ELSE clash
  BY OpenTypes
<1>2. /\ tmp \in [Files -> Nodes \cup {0}] /\ node \in [Files -> Nodes \cup {0}] /\ 0 \notin Nodes
      /\ DOMAIN data = Files /\ \A g \in Files : DOMAIN data[g] = Nodes
      /\ node' = node /\ req[r].pc = "open"
  BY DEF TypeOK, WriteOpen, Nodes
<1>3. ASSUME NEW g \in Files, Alone(g)' PROVE OpenFile(g)' /\ Unmoved(g)
  <2>1. Alone(g) /\ OpenFile(g)
    BY <1>1, <1>3 DEF Alone, FilesInv
  <2>2. CASE g # f
    <3>1. UNCHANGED <<node[g], tmp[g], data[g]>>
      BY <1>1, <1>2, <2>2
    <3>2. \A q \in Requests : HasOpen(q, g)' => HasOpen(q, g) /\ req'[q] = req[q]
      BY <1>1, <2>2 DEF HasOpen
    <3> QED BY <2>1, <3>1, <3>2, OpenFileStays DEF Unmoved, Content
  <2>3. CASE g = f
    <3>1. \A q \in Requests : q # r => ~HasOpen(q, f)
      BY <1>1, <1>3, <2>3 DEF Alone
    <3>2. \A q \in Requests : q # r => ~HasOpen(q, f)'
      BY <1>1, <3>1 DEF HasOpen
    <3>3. i # node[f]
      BY <1>1, <2>1, <2>3 DEF OpenFile, FreeNodes
    <3>4. tmp'[f] = i /\ data'[f][i] = Empty /\ node'[f] = node[f]
          /\ (node[f] # 0 => data'[f][node[f]] = data[f][node[f]])
      BY <1>1, <1>2, <3>3
    <3>5. req'[r].pc = "fill" /\ req'[r].fd = i
      BY <1>1
    <3>6. OpenFile(f)'
      BY <1>2, <2>1, <2>3, <3>2, <3>3, <3>4, <3>5 DEF OpenFile
    <3> QED BY <2>3, <3>4, <3>6 DEF Unmoved, Content
  <2> QED BY <2>2, <2>3
<1> QED BY <1>3 DEF FilesInv

LEMMA FillTypes ==
    ASSUME TypeOK, NEW r \in Requests, WriteFill(r)
    PROVE  /\ RequestsTyped' /\ FilesTyped'
           /\ \E f, i, c :
                 /\ f \in Files /\ i \in Nodes /\ f = req[r].file /\ i = req[r].fd /\ req[r].pc = "fill"
                 /\ data[f][i] = Empty => c = req[r].val
                 /\ data' = [data EXCEPT ![f][i] = c]
                 /\ req'[r] = [req[r] EXCEPT !.pc = "rename"]
                 /\ req'[r].pc = "rename" /\ req'[r].file = f /\ req'[r].fd = i /\ req'[r].val = req[r].val
                 /\ \A q \in Requests : q # r => req'[q] = req[q]
<1>0. RequestsTyped /\ FilesTyped
  BY TypeParts
<1>1. PICK q : q = req[r] /\ IsRequest(q)
  BY DEF TypeOK
<1>2. q.pc = "fill" /\ Writes(q)
  BY <1>1 DEF WriteFill, Writes
<1>3. PICK f, v, i : f \in Files /\ i \in Nodes /\ f = q.file /\ v = q.val /\ i = q.fd /\ v \in Contents(f)
  <2>1. q.file \in Files /\ q.val \in Contents(q.file) /\ q.fd \in Nodes
    BY <1>1, <1>2, RequestFields
  <2> QED BY <2>1
<1>4. PICK c \in Overlaid(f, data[f][i], v) : data' = [data EXCEPT ![f][i] = c]
  BY <1>1, <1>3 DEF WriteFill
<1>5. c \in {Empty} \cup (IF f = "env" THEN {} ELSE {Broken}) \cup Contents(f)
  <2>1. PICK old : old = data[f][i]
    OBVIOUS
  <2>2. old \in {Empty} \cup (IF f = "env" THEN {} ELSE {Broken}) \cup Contents(f)
    BY <1>0, <1>3, <2>1 DEF FilesTyped
  <2>3. CASE old # Empty /\ f = "env" /\ old # Broken
    <3>1. v \in Configs /\ old \in Configs
      BY <1>3, <2>2, <2>3 DEF Contents
    <3>2. [v EXCEPT !.vhost = old.vhost] \in Configs
          /\ [v EXCEPT !.vhost = old.vhost, !.args = old.args] \in Configs
      BY <3>1 DEF Configs
    <3> QED BY <1>4, <2>1, <2>3, <3>1, <3>2 DEF Overlaid, Contents
  <2>4. CASE old = Empty
    BY <1>3, <1>4, <2>1, <2>4 DEF Overlaid
  <2>5. CASE old # Empty /\ f # "env"
    BY <1>3, <1>4, <2>1, <2>5 DEF Overlaid
  <2>6. CASE old # Empty /\ f = "env" /\ old = Broken
    BY <1>3, <2>2, <2>6, AdminAssumption
  <2> QED BY <2>3, <2>4, <2>5, <2>6
<1>6. PICK to : to = [q EXCEPT !.pc = "rename"]
  OBVIOUS
<1>7. IsRequest(to)
  BY <1>1, <1>2, <1>6, NextPositions
<1>8. to.pc = "rename" /\ to.file = f /\ to.fd = i /\ to.val = v
  <2>1. q \in [pc : {"fill", "rename"}, file : Files, val : Contents(q.file), then : Thens(q.file), fd : Nodes]
    BY <1>1, <1>2 DEF IsRequest
  <2> QED BY <1>3, <1>6, <2>1
<1>9. Goes(r, to) /\ UNCHANGED <<node, tmp>>
  BY <1>1, <1>6 DEF WriteFill
<1>10. RequestsTyped' /\ req'[r] = to /\ \A p \in Requests : p # r => req'[p] = req[p]
  BY <1>0, <1>7, <1>9, RequestGoes
<1>11. FilesTyped'
  BY <1>0, <1>4, <1>5, <1>9 DEF FilesTyped
<1>12. data[f][i] = Empty => c = v
  BY <1>4 DEF Overlaid
<1> QED BY <1>1, <1>2, <1>3, <1>4, <1>6, <1>8, <1>10, <1>11, <1>12

LEMMA FillKeeps ==
    ASSUME TypeOK, FilesInv, NEW r \in Requests, WriteFill(r)
    PROVE  FilesInv' /\ clash' = clash /\ \A g \in Files : Alone(g) => Unmoved(g)
<1>1. PICK f, i, c :
        /\ f \in Files /\ i \in Nodes /\ f = req[r].file /\ i = req[r].fd /\ req[r].pc = "fill"
        /\ data[f][i] = Empty => c = req[r].val
        /\ data' = [data EXCEPT ![f][i] = c]
        /\ req'[r] = [req[r] EXCEPT !.pc = "rename"]
        /\ req'[r].pc = "rename" /\ req'[r].file = f /\ req'[r].fd = i /\ req'[r].val = req[r].val
        /\ \A q \in Requests : q # r => req'[q] = req[q]
  BY FillTypes
<1>2. /\ DOMAIN data = Files /\ \A g \in Files : DOMAIN data[g] = Nodes
      /\ 0 \notin Nodes /\ UNCHANGED <<node, tmp, clash>>
  BY DEF TypeOK, WriteFill, Nodes
<1>3. ASSUME NEW g \in Files, Alone(g) PROVE OpenFile(g)' /\ Unmoved(g)
  <2>1. OpenFile(g)
    BY <1>3 DEF FilesInv
  <2>2. CASE g # f
    <3>1. UNCHANGED <<node[g], tmp[g], data[g]>>
      BY <1>1, <1>2, <2>2
    <3>2. \A q \in Requests : HasOpen(q, g)' => HasOpen(q, g) /\ req'[q] = req[q]
      BY <1>1, <2>2 DEF HasOpen
    <3> QED BY <2>1, <3>1, <3>2, OpenFileStays DEF Unmoved, Content
  <2>3. CASE g = f
    <3>1. HasOpen(r, f)
      BY <1>1 DEF HasOpen
    <3>2. tmp[f] = i /\ data[f][i] = Empty /\ i # 0 /\ i # node[f]
      BY <1>1, <1>2, <2>1, <2>3, <3>1 DEF OpenFile
    <3>3. \A q \in Requests : q # r => ~HasOpen(q, f) /\ ~HasOpen(q, f)'
      BY <1>1, <2>1, <2>3, <3>1 DEF OpenFile, HasOpen
    <3>4. data'[f][i] = req[r].val /\ node'[f] = node[f] /\ tmp'[f] = tmp[f]
          /\ (node[f] # 0 => data'[f][node[f]] = data[f][node[f]])
      BY <1>1, <1>2, <3>2
    <3>5. OpenFile(f)'
      <4>1. tmp'[f] # node'[f]
        BY <3>2, <3>4
      <4>2. node'[f] # 0 => data'[f][node'[f]] \in Contents(f)'
        BY <2>1, <2>3, <3>4 DEF OpenFile, Contents
      <4>3. ASSUME NEW q \in Requests, HasOpen(q, f)'
            PROVE  q = r /\ tmp'[f] = req'[q].fd
                   /\ data'[f][req'[q].fd] = IF req'[q].pc = "fill" THEN Empty ELSE req'[q].val
        <5>1. q = r
          BY <3>3, <4>3
        <5> QED BY <1>1, <3>2, <3>4, <5>1
      <4> QED BY <4>1, <4>2, <4>3 DEF OpenFile
    <3> QED BY <2>3, <3>4, <3>5 DEF Unmoved, Content
  <2> QED BY <2>2, <2>3
<1>4. FilesInv'
  BY <1>2, <1>3 DEF FilesInv, Alone
<1> QED BY <1>2, <1>3, <1>4

Gone(r, f) == {node[f]} \ {req[q].fd : q \in {p \in Requests \ {r} : HasOpen(p, f)}}

LEMMA RenameEffect ==
    ASSUME TypeOK, NEW r \in Requests, WriteRename(r), NEW f, f = req[r].file, tmp[f] # 0
    PROVE  /\ node' = [node EXCEPT ![f] = tmp[f]] /\ tmp' = [tmp EXCEPT ![f] = 0]
           /\ data' = [data EXCEPT ![f] = [i \in Nodes |-> IF i \in Gone(r, f) THEN Empty ELSE data[f][i]]]
           /\ Goes(r, AfterWrite(req[r]))
<1>1. /\ node' = [node EXCEPT ![f] = tmp[f]] /\ tmp' = [tmp EXCEPT ![f] = 0]
      /\ data' = [data EXCEPT ![f] = [i \in Nodes |-> IF i \in Gone(r, f) THEN Empty ELSE @[i]]]
      /\ Goes(r, AfterWrite(req[r]))
  BY Zenon DEF WriteRename, Gone
<1>2. DOMAIN data = Files
  BY DEF TypeOK
<1> QED BY <1>1, <1>2

LEMMA RenameTypes ==
    ASSUME TypeOK, NEW r \in Requests, WriteRename(r)
    PROVE  /\ RequestsTyped' /\ FilesTyped'
           /\ req[r].pc = "rename" /\ Writes(req[r]) /\ req[r].file \in Files
           /\ req'[r] \in {Idle, AfterWrite(req[r])}
           /\ \A q \in Requests : q # r => req'[q] = req[q]
<1>0. RequestsTyped /\ FilesTyped
  BY TypeParts
<1>1. PICK q : q = req[r] /\ IsRequest(q)
  BY DEF TypeOK
<1>2. q.pc = "rename" /\ Writes(q)
  BY <1>1 DEF WriteRename, Writes
<1>3. PICK f \in Files : f = q.file
  BY <1>1, <1>2, RequestFields
<1>4. PICK gone : gone = Gone(r, f)
  OBVIOUS
<1>5. CASE tmp[f] = 0
  <2>1. Goes(r, Idle) /\ UNCHANGED files
    BY <1>1, <1>3, <1>5 DEF WriteRename
  <2>2. RequestsTyped' /\ req'[r] = Idle /\ \A p \in Requests : p # r => req'[p] = req[p]
    BY <1>0, <2>1, RequestsMade, RequestGoes
  <2>3. FilesTyped'
    BY <1>0, <2>1 DEF FilesTyped, files
  <2> QED BY <1>1, <1>2, <1>3, <2>2, <2>3
<1>6. CASE tmp[f] # 0
  <2>1. /\ node' = [node EXCEPT ![f] = tmp[f]] /\ tmp' = [tmp EXCEPT ![f] = 0]
        /\ data' = [data EXCEPT ![f] = [i \in Nodes |-> IF i \in gone THEN Empty ELSE data[f][i]]]
        /\ Goes(r, AfterWrite(q))
    BY <1>1, <1>3, <1>4, <1>6, RenameEffect
  <2>2. RequestsTyped' /\ req'[r] = AfterWrite(q) /\ \A p \in Requests : p # r => req'[p] = req[p]
    BY <1>0, <1>1, <1>2, <2>1, AfterWriteIsRequest, RequestGoes
  <2>3. FilesTyped'
    BY <1>0, <2>1 DEF FilesTyped
  <2> QED BY <1>1, <1>2, <1>3, <2>2, <2>3
<1> QED BY <1>5, <1>6

LEMMA RenameKeeps ==
    ASSUME TypeOK, FilesInv, NEW r \in Requests, WriteRename(r), NEW f, f = req[r].file
    PROVE  /\ FilesInv' /\ clash' = clash
           /\ \A g \in Files : Alone(g) /\ g # f => Unmoved(g)
           /\ Alone(f) => Content(f)' = req[r].val /\ req'[r] = AfterWrite(req[r])
<1>1. f \in Files /\ f = req[r].file
  BY RenameTypes
<1>2. PICK gone : gone = Gone(r, f)
  OBVIOUS
<1>3. /\ req[r].pc = "rename" /\ req'[r] \in {Idle, AfterWrite(req[r])}
      /\ \A q \in Requests : q # r => req'[q] = req[q]
  BY RenameTypes
<1>4. \A g : ~HasOpen(r, g)'
  <2>1. AfterWrite(req[r]).pc \in {"idle", "assign", "unit", "restart"}
    BY RenameTypes, AfterWriteIsRequest DEF TypeOK
  <2> QED BY <1>3, <2>1 DEF HasOpen, Idle
<1>5. \A g \in Files, q \in Requests : HasOpen(q, g)' => HasOpen(q, g) /\ req'[q] = req[q]
  BY <1>3, <1>4 DEF HasOpen
<1>6. /\ DOMAIN node = Files /\ DOMAIN tmp = Files /\ DOMAIN data = Files
      /\ \A g \in Files : DOMAIN data[g] = Nodes
      /\ node \in [Files -> Nodes \cup {0}] /\ tmp \in [Files -> Nodes \cup {0}]
      /\ 0 \notin Nodes /\ clash' = clash
  BY DEF TypeOK, WriteRename, Nodes
<1>7. HasOpen(r, f)
  BY <1>1, <1>3 DEF HasOpen
<1>8. ASSUME NEW g \in Files, Alone(g), g # f PROVE OpenFile(g)' /\ Unmoved(g)
  <2>1. UNCHANGED <<node[g], tmp[g], data[g]>>
    <3>1. CASE tmp[f] = 0
      BY <1>1, <3>1 DEF WriteRename, files
    <3>2. CASE tmp[f] # 0
      BY <1>1, <1>6, <1>8, <3>2 DEF WriteRename
    <3> QED BY <3>1, <3>2
  <2>2. OpenFile(g)
    BY <1>8 DEF FilesInv
  <2> QED BY <1>5, <2>1, <2>2, OpenFileStays DEF Unmoved, Content
<1>9. ASSUME Alone(f)
      PROVE  /\ OpenFile(f)' /\ Content(f)' = req[r].val /\ req'[r] = AfterWrite(req[r])
  <2>1. PICK i : i = req[r].fd
    OBVIOUS
  <2>2. i \in Nodes /\ req[r].val \in Contents(f)
    BY <1>1, <1>3, <2>1, RequestFields DEF TypeOK, Writes
  <2>3. tmp[f] = i /\ data[f][i] = req[r].val /\ i # node[f] /\ i # 0
    BY <1>1, <1>3, <1>6, <1>7, <1>9, <2>1, <2>2 DEF FilesInv, OpenFile
  <2>4. /\ node' = [node EXCEPT ![f] = tmp[f]] /\ tmp' = [tmp EXCEPT ![f] = 0]
        /\ data' = [data EXCEPT ![f] = [n \in Nodes |-> IF n \in gone THEN Empty ELSE data[f][n]]]
        /\ Goes(r, AfterWrite(req[r]))
    BY <1>1, <1>2, <2>3, RenameEffect
  <2>5. node'[f] = i /\ tmp'[f] = 0 /\ data'[f][i] = req[r].val
    <3>1. i \notin gone
      BY <1>2, <2>3 DEF Gone
    <3> QED BY <1>1, <1>6, <2>2, <2>3, <2>4, <3>1
  <2>6. \A q \in Requests : ~HasOpen(q, f)'
    BY <1>1, <1>4, <1>5, <1>7, <1>9 DEF FilesInv, OpenFile
  <2>7. OpenFile(f)'
    BY <2>2, <2>5, <2>6 DEF OpenFile
  <2>8. Content(f)' = req[r].val
    BY <2>3, <2>5 DEF Content
  <2>9. req'[r] = AfterWrite(req[r])
    BY <2>4 DEF Goes, TypeOK
  <2> QED BY <2>7, <2>8, <2>9
<1>10. FilesInv'
  BY <1>6, <1>8, <1>9 DEF FilesInv, Alone
<1> QED BY <1>1, <1>6, <1>8, <1>9, <1>10

\* the other steps leave the files as they are, and nobody opens one
LEMMA QuietKeeps ==
    ASSUME TypeOK, FilesInv, UNCHANGED files, clash \subseteq clash',
           \A f \in Files, q \in Requests : HasOpen(q, f)' => HasOpen(q, f) /\ req'[q] = req[q]
    PROVE  FilesInv' /\ \A f \in Files : Unmoved(f)
<1>1. ASSUME NEW f \in Files, Alone(f)' PROVE OpenFile(f)'
  <2>1. OpenFile(f)
    BY <1>1 DEF FilesInv, Alone
  <2>2. UNCHANGED <<node[f], tmp[f], data[f]>>
    BY DEF files
  <2> QED BY <2>1, <2>2, OpenFileStays
<1>2. \A f \in Files : Unmoved(f)
  BY DEF Unmoved, Content, files
<1> QED BY <1>1, <1>2 DEF FilesInv

LEMMA MovesKeeps ==
    ASSUME TypeOK, FilesInv, NEW r \in Requests, NEW to, Moves(r, to)
    PROVE  /\ FilesInv' /\ (\A f \in Files : Unmoved(f)) /\ RequestsTyped' /\ req'[r] = to
           /\ \A q \in Requests : q # r => req'[q] = req[q]
<1>1. RequestsTyped' /\ req'[r] = to /\ \A q \in Requests : q # r => req'[q] = req[q]
  BY TypeParts, RequestGoes DEF Moves
<1>2. \A f \in Files, q \in Requests : HasOpen(q, f)' => HasOpen(q, f) /\ req'[q] = req[q]
  BY <1>1 DEF HasOpen, Moves
<1>3. UNCHANGED files /\ clash \subseteq clash'
  BY DEF Moves
<1> QED BY <1>1, <1>2, <1>3, QuietKeeps

LEMMA SetupKeeps ==
    ASSUME TypeOK, FilesInv, NEW r \in Requests, NEW a \in Admins, Setup(r, a)
    PROVE  /\ FilesInv' /\ (\A f \in Files : Unmoved(f)) /\ RequestsTyped'
           /\ req'[r] = SaveAdminState(a)
           /\ \A q \in Requests : q # r => req'[q] = req[q]
<1>1. IsRequest(SaveAdminState(a))
  BY RequestsMade DEF SaveAdminState, Files, Thens, Contents
<1>2. Goes(r, SaveAdminState(a)) /\ UNCHANGED files /\ clash \subseteq clash'
  BY DEF Setup
<1>3. RequestsTyped' /\ req'[r] = SaveAdminState(a) /\ \A q \in Requests : q # r => req'[q] = req[q]
  BY <1>1, <1>2, TypeParts, RequestGoes
<1>4. \A f \in Files, q \in Requests : HasOpen(q, f)' => HasOpen(q, f) /\ req'[q] = req[q]
  BY <1>3 DEF HasOpen, SaveAdminState, Writing
<1> QED BY <1>2, <1>3, <1>4, QuietKeeps

LEMMA AssignKeeps ==
    ASSUME TypeOK, FilesInv, NEW r \in Requests, SetupAssigns(r)
    PROVE  /\ FilesInv' /\ (\A f \in Files : Unmoved(f)) /\ RequestsTyped'
           /\ req'[r] = Idle
           /\ \A q \in Requests : q # r => req'[q] = req[q]
<1>1. Goes(r, Idle) /\ UNCHANGED files /\ clash' = clash
  BY DEF SetupAssigns
<1>2. RequestsTyped' /\ req'[r] = Idle /\ \A q \in Requests : q # r => req'[q] = req[q]
  BY <1>1, TypeParts, RequestsMade, RequestGoes
<1>3. \A f \in Files, q \in Requests : HasOpen(q, f)' => HasOpen(q, f) /\ req'[q] = req[q]
  BY <1>2 DEF HasOpen, Idle
<1> QED BY <1>1, <1>2, <1>3, QuietKeeps

LEMMA CrashKeeps ==
    ASSUME TypeOK, FilesInv, Crash
    PROVE  FilesInv' /\ (\A f \in Files : Unmoved(f)) /\ RequestsTyped'
<1>1. req' = [r \in Requests |-> Idle] /\ UNCHANGED files /\ clash' = clash
  BY DEF Crash
<1>2. \A f \in Files, q \in Requests : ~HasOpen(q, f)'
  BY <1>1 DEF HasOpen, Idle
<1>3. RequestsTyped'
  BY <1>1, RequestsMade DEF RequestsTyped
<1> QED BY <1>1, <1>2, <1>3, QuietKeeps

LEMMA StillKeeps ==
    ASSUME TypeOK, FilesInv, UNCHANGED <<req, files, clash>>
    PROVE  FilesInv' /\ (\A f \in Files : Unmoved(f)) /\ RequestsTyped'
<1>1. RequestsTyped'
  BY DEF TypeOK, RequestsTyped
<1>2. \A f \in Files, q \in Requests : HasOpen(q, f)' => HasOpen(q, f) /\ req'[q] = req[q]
  BY DEF HasOpen
<1> QED BY <1>1, <1>2, QuietKeeps

WholeInv == TypeOK /\ FilesInv

LEMMA InitWhole == ASSUME Init PROVE WholeInv
<1>1. PICK m \in Deployments :
        /\ up = TRUE /\ mem = (IF m.admin = Absent THEN NoAdmin ELSE m.admin) /\ session = FALSE
        /\ req = [r \in Requests |-> Idle]
        /\ node = [f \in Files |-> IF m[f] = Absent THEN 0 ELSE 1]
        /\ tmp = [f \in Files |-> 0]
        /\ data = [f \in Files |-> [i \in Nodes |-> IF i = 1 /\ m[f] # Absent THEN m[f] ELSE Empty]]
        /\ certs = m.certs /\ nginx = m.loaded /\ built = m.built /\ server = m.server
        /\ left = MaxRequests /\ clash = {}
  BY DEF Init
<1>2. /\ \A f \in Files : m[f] = Absent \/ m[f] \in Contents(f)
      /\ m.certs \in [Dirs -> {"none", "pair", "mixed"}]
      /\ m.built \in [server : 0..MaxBuild, client : BOOLEAN]
      /\ m.server.state \in {"stopped", "active", "retrying"}
  BY AdminAssumption DEF IsDeployment
<1>3. 1 \in Nodes /\ 0 \notin Nodes
  BY AdminAssumption, FS_CardinalityType DEF Nodes
<1>4. FilesTyped
  BY <1>1, <1>2, <1>3 DEF FilesTyped
<1>5. RequestsTyped
  BY <1>1, RequestsMade DEF RequestsTyped
<1>6. m.admin = m["admin"] /\ "admin" \in Files /\ Contents("admin") = Admins
  BY DEF Files, Contents
<1>7. MemoryTyped
  BY <1>1, <1>2, <1>6 DEF MemoryTyped
<1>8. OutsideTyped
  BY <1>1, <1>2, AdminAssumption DEF OutsideTyped
<1>9. TypeOK
  BY <1>1, <1>4, <1>5, <1>7, <1>8, TypeParts
<1>10. FilesInv
  <2>1. \A f \in Files, r \in Requests : ~HasOpen(r, f)
    BY <1>1 DEF HasOpen, Idle
  <2>2. \A f \in Files : node[f] # 0 => data[f][node[f]] \in Contents(f)
    BY <1>1, <1>2, <1>3
  <2> QED BY <1>1, <2>1, <2>2 DEF FilesInv, OpenFile
<1> QED BY <1>9, <1>10 DEF WholeInv

LEMMA NextWhole == ASSUME WholeInv, [Next]_vars PROVE WholeInv'
<1>1. TypeOK /\ FilesInv
  BY DEF WholeInv
<1>2. Kinds /\ OutsideTyped' /\ session' \in BOOLEAN
  BY <1>1, StepKinds
<1>3. FilesTyped /\ MemoryTyped /\ clash \subseteq Files
  BY <1>1, TypeParts
<1>4. ASSUME NEW r \in Requests, WriteOpen(r) \/ WriteFill(r) \/ WriteRename(r)
      PROVE  FilesInv' /\ RequestsTyped' /\ FilesTyped' /\ MemoryTyped' /\ clash' \subseteq Files
  <2>1. UNCHANGED memory
    BY <1>4 DEF WriteOpen, WriteFill, WriteRename
  <2>2. MemoryTyped'
    BY <1>3, <2>1 DEF MemoryTyped, memory
  <2>3. CASE WriteOpen(r)
    <3>1. clash' \subseteq Files
      <4>1. PICK f \in Files : clash' \in {clash, clash \cup {f}}
        BY <1>1, <2>3, OpenTypes
      <4> QED BY <1>3, <4>1
    <3> QED BY <1>1, <2>2, <2>3, <3>1, OpenTypes, OpenKeeps
  <2>4. CASE WriteFill(r)
    BY <1>1, <1>3, <2>2, <2>4, FillTypes, FillKeeps
  <2>5. CASE WriteRename(r)
    BY <1>1, <1>3, <2>2, <2>5, RenameTypes, RenameKeeps
  <2> QED BY <1>4, <2>3, <2>4, <2>5
<1>5. ASSUME UNCHANGED files PROVE FilesTyped'
  BY <1>3, <1>5 DEF FilesTyped, files
<1>6. ASSUME NEW r \in Requests, NEW to, Moves(r, to)
      PROVE  FilesInv' /\ RequestsTyped' /\ FilesTyped' /\ MemoryTyped' /\ clash' \subseteq Files
  BY <1>1, <1>3, <1>5, <1>6, MovesKeeps DEF Moves, MemoryTyped, memory
<1>7. ASSUME NEW r \in Requests, NEW a \in Admins, Setup(r, a)
      PROVE  FilesInv' /\ RequestsTyped' /\ FilesTyped' /\ MemoryTyped' /\ clash' \subseteq Files
  <2>1. UNCHANGED <<memory, files>> /\ clash' \in {clash, clash \cup {"admin"}}
    BY <1>7 DEF Setup
  <2> QED BY <1>1, <1>3, <1>5, <1>7, <2>1, SetupKeeps DEF MemoryTyped, memory, Files
<1>8. ASSUME NEW r \in Requests, SetupAssigns(r)
      PROVE  FilesInv' /\ RequestsTyped' /\ FilesTyped' /\ MemoryTyped' /\ clash' \subseteq Files
  <2>1. req[r].name \in Admins
    BY <1>1, <1>8, RequestFields DEF TypeOK, SetupAssigns
  <2>2. UNCHANGED <<up, files, clash>> /\ mem' = req[r].name /\ session' = TRUE
    BY <1>8 DEF SetupAssigns, SetSession
  <2> QED BY <1>1, <1>3, <1>5, <1>8, <2>1, <2>2, AssignKeeps DEF MemoryTyped
<1>9. ASSUME Still
      PROVE  FilesInv' /\ RequestsTyped' /\ FilesTyped' /\ MemoryTyped' /\ clash' \subseteq Files
  BY <1>1, <1>2, <1>3, <1>5, <1>9, StillKeeps DEF Still, MemoryTyped
<1>10. ASSUME Crash
       PROVE  FilesInv' /\ RequestsTyped' /\ FilesTyped' /\ MemoryTyped' /\ clash' \subseteq Files
  BY <1>1, <1>3, <1>5, <1>10, CrashKeeps DEF Crash, MemoryTyped
<1>11. ASSUME Restart
       PROVE  FilesInv' /\ RequestsTyped' /\ FilesTyped' /\ MemoryTyped' /\ clash' \subseteq Files
  <2>1. /\ UNCHANGED <<session, req, files, clash>> /\ up' = TRUE /\ Content("admin") # Broken
        /\ mem' = IF Content("admin") \in {Absent, Empty} THEN NoAdmin ELSE Content("admin")
    BY <1>11 DEF Restart
  <2>2. Content("admin") \in {Absent, Empty, Broken} \cup Admins
    BY <1>3, ContentIsTyped DEF Files, Contents
  <2>3. MemoryTyped'
    BY <1>3, <2>1, <2>2 DEF MemoryTyped
  <2> QED BY <1>1, <1>3, <1>5, <2>1, <2>3, StillKeeps
<1>12. FilesInv' /\ RequestsTyped' /\ FilesTyped' /\ MemoryTyped' /\ clash' \subseteq Files
  BY <1>2, <1>4, <1>6, <1>7, <1>8, <1>9, <1>10, <1>11 DEF Kinds
<1>13. TypeOK'
  BY <1>2, <1>12 DEF TypeOK, FilesTyped, RequestsTyped, MemoryTyped, OutsideTyped
<1> QED BY <1>12, <1>13 DEF WholeInv

LEMMA WholeMeansWhole == ASSUME WholeInv PROVE FilesAreWhole
BY AdminAssumption DEF WholeInv, FilesInv, OpenFile, FilesAreWhole, Content

\* Every request is at a position of a handler with what the handler holds there, every file has a
\* content that some handler wrote, and no counter leaves its range (all of main.go's handlers).
THEOREM TypesHold == Spec => []TypeOK
<1>1. WholeInv => TypeOK
  BY DEF WholeInv
<1> QED BY <1>1, InitWhole, NextWhole, PTL DEF Spec

\* What a path leads to is always one writer's whole content, whatever crashes, full disks and
\* interrupted commands there were, as long as no two requests wrote that file at one time
\* (writeFileRoot).
THEOREM PathsLeadToWholeFiles == Spec => []FilesAreWhole
BY InitWhole, NextWhole, WholeMeansWhole, PTL DEF Spec

(***************************************************************************)
(* The administrator.  While one setup alone is under way, there is no     *)
(* administrator, in memory or in the file, until the file is in its       *)
(* place; then the request assigns what the file has.                      *)
(***************************************************************************)
OneSetup ==
    /\ \A r, q \in Requests : SettingUp(r) /\ SettingUp(q) => r = q
    /\ \A r \in Requests :
          /\ IsWriting(r) /\ req[r].file = "admin" => mem = NoAdmin /\ Content("admin") = Absent
          /\ req[r].pc = "assign" => Content("admin") = req[r].name
SetupInv ==
    /\ ~up => \A r \in Requests : req[r].pc = "idle"
    /\ Alone("admin") => OneSetup
    /\ AdminSurvivesRestart

LEMMA WritersGoOn ==
    ASSUME TypeOK, NEW r \in Requests, WriteOpen(r) \/ WriteFill(r)
    PROVE  /\ Writes(req[r]) /\ req'[r].pc \in {"fill", "rename"}
           /\ req'[r].file = req[r].file /\ req'[r].val = req[r].val
           /\ \A q \in Requests : q # r => req'[q] = req[q]
<1>1. CASE WriteOpen(r)
  <2>1. PICK f \in Files, i \in Nodes :
          /\ f = req[r].file
          /\ req'[r] = [pc |-> "fill", file |-> f, val |-> req[r].val, then |-> req[r].then, fd |-> i]
          /\ \A q \in Requests : q # r => req'[q] = req[q]
    BY <1>1, OpenTypes
  <2>2. req[r].pc = "open"
    BY <1>1 DEF WriteOpen
  <2> QED BY <2>1, <2>2 DEF Writes
<1>2. CASE WriteFill(r)
  BY <1>2, FillTypes DEF WriteFill, Writes
<1> QED BY <1>1, <1>2

LEMMA AdminContent == ASSUME WholeInv, Alone("admin")
                      PROVE  Content("admin") \in Admins \cup {Absent} /\ Absent \notin Admins
<1>1. Content("admin") \in {Absent, Empty, Broken} \cup Admins
  BY TypeParts, ContentIsTyped DEF WholeInv, Files, Contents
<1>2. Content("admin") \notin {Empty, Broken}
  BY WholeMeansWhole DEF FilesAreWhole, Files
<1>3. Absent \notin Contents("admin")
  BY AdminAssumption DEF Files
<1> QED BY <1>1, <1>2, <1>3 DEF Contents

LEMMA InitSetup == ASSUME Init PROVE SetupInv
<1>1. WholeInv
  BY InitWhole
<1>2. /\ up = TRUE /\ \A r \in Requests : req[r].pc = "idle"
      /\ mem = IF Content("admin") = Absent THEN NoAdmin ELSE Content("admin")
  <2>1. PICK m \in Deployments :
          /\ up = TRUE /\ mem = (IF m.admin = Absent THEN NoAdmin ELSE m.admin)
          /\ req = [r \in Requests |-> Idle]
          /\ node = [f \in Files |-> IF m[f] = Absent THEN 0 ELSE 1]
          /\ data = [f \in Files |-> [i \in Nodes |-> IF i = 1 /\ m[f] # Absent THEN m[f] ELSE Empty]]
    BY DEF Init
  <2>2. "admin" \in Files /\ 1 \in Nodes /\ m["admin"] = m.admin
    BY AdminAssumption, FS_CardinalityType DEF Files, Nodes
  <2>3. Content("admin") = m.admin
    BY <2>1, <2>2 DEF Content
  <2> QED BY <2>1, <2>3 DEF Idle
<1> QED BY <1>2 DEF SetupInv, OneSetup, SettingUp, IsWriting, AdminSurvivesRestart

LEMMA SetupInvOfMoves ==
    ASSUME WholeInv, SetupInv, NEW r \in Requests, NEW to, Moves(r, to)
    PROVE  SetupInv'
<1>1. /\ req'[r] = to /\ (\A q \in Requests : q # r => req'[q] = req[q])
      /\ Unmoved("admin")
  BY MovesKeeps DEF WholeInv, Files
<1>2. /\ to.pc \notin {"fill", "rename", "assign"} /\ (to.pc = "open" => to.file # "admin")
      /\ req[r].pc # "assign" /\ (req[r].pc = "idle" => up)
      /\ UNCHANGED <<up, mem, clash>>
  BY DEF Moves, memory
<1>3. ~SettingUp(r)' /\ \A q \in Requests : q # r => (SettingUp(q)' <=> SettingUp(q))
  BY <1>1, <1>2 DEF SettingUp, IsWriting
<1>4. (~up => \A q \in Requests : req[q].pc = "idle")'
  BY <1>1, <1>2 DEF SetupInv
<1>5. Alone("admin")' => OneSetup'
  BY <1>1, <1>2, <1>3 DEF SetupInv, Alone, OneSetup, Unmoved, SettingUp, IsWriting
<1>6. ASSUME up', Alone("admin")', \A q \in Requests : ~SettingUp(q)'
      PROVE  mem' = (IF Content("admin")' = Absent THEN NoAdmin ELSE Content("admin")')
  <2>1. up /\ Alone("admin") /\ OneSetup /\ \A q \in Requests : q # r => ~SettingUp(q)
    BY <1>2, <1>3, <1>6 DEF Alone, SetupInv
  <2>2. CASE SettingUp(r)
    BY <1>1, <1>2, <2>1, <2>2 DEF OneSetup, SettingUp, Unmoved
  <2>3. CASE ~SettingUp(r)
    BY <1>1, <1>2, <2>1, <2>3 DEF SetupInv, AdminSurvivesRestart, Unmoved
  <2> QED BY <2>2, <2>3
<1> QED BY <1>4, <1>5, <1>6 DEF SetupInv, AdminSurvivesRestart

LEMMA SetupInvOfWriters ==
    ASSUME WholeInv, SetupInv, NEW r \in Requests, WriteOpen(r) \/ WriteFill(r)
    PROVE  SetupInv'
<1>1. /\ Writes(req[r]) /\ req'[r].pc \in {"fill", "rename"}
      /\ req'[r].file = req[r].file /\ req'[r].val = req[r].val
      /\ \A q \in Requests : q # r => req'[q] = req[q]
  BY WritersGoOn DEF WholeInv
<1>2. UNCHANGED <<up, mem>> /\ clash \subseteq clash'
  BY DEF WriteOpen, WriteFill, memory
<1>3. Alone("admin")' => Alone("admin") /\ Unmoved("admin")
  BY <1>2, OpenKeeps, FillKeeps DEF WholeInv, Files, Alone
<1>4. \A q \in Requests : SettingUp(q)' <=> SettingUp(q)
  BY <1>1 DEF SettingUp, IsWriting, Writes
<1>5. (~up => \A q \in Requests : req[q].pc = "idle")'
  BY <1>1, <1>2 DEF SetupInv, Writes
<1>6. Alone("admin")' => OneSetup'
  BY <1>1, <1>2, <1>3, <1>4 DEF SetupInv, OneSetup, Unmoved, IsWriting, Writes
<1>7. AdminSurvivesRestart'
  BY <1>2, <1>3, <1>4 DEF SetupInv, AdminSurvivesRestart, Unmoved
<1> QED BY <1>5, <1>6, <1>7 DEF SetupInv

LEMMA SetupInvOfRename ==
    ASSUME WholeInv, SetupInv, NEW r \in Requests, WriteRename(r)
    PROVE  SetupInv'
<1>1. PICK f \in Files : f = req[r].file
  BY RenameTypes DEF WholeInv
<1>2. /\ req[r].pc = "rename" /\ Writes(req[r]) /\ IsRequest(req[r])
      /\ req'[r] \in {Idle, AfterWrite(req[r])}
      /\ \A q \in Requests : q # r => req'[q] = req[q]
  BY RenameTypes DEF WholeInv, TypeOK
<1>3. /\ AfterWrite(req[r]).pc \in {"idle", "assign", "unit", "restart"}
      /\ AfterWrite(req[r]).pc = "assign" <=> f = "admin"
      /\ AfterWrite(req[r]).pc = "assign" => AfterWrite(req[r]).name = req[r].val
  BY <1>1, <1>2, AfterWriteIsRequest
<1>4. UNCHANGED <<up, mem, clash>>
  BY DEF WriteRename, memory
<1>5. (~up => \A q \in Requests : req[q].pc = "idle")'
  BY <1>2, <1>4 DEF SetupInv
<1>6. CASE f # "admin"
  <2>1. Alone("admin") => Unmoved("admin")
    BY <1>1, <1>6, RenameKeeps DEF WholeInv, Files
  <2>2. /\ ~SettingUp(r) /\ ~SettingUp(r)'
        /\ \A q \in Requests : q # r => (SettingUp(q)' <=> SettingUp(q))
    BY <1>1, <1>2, <1>3, <1>6 DEF SettingUp, IsWriting, Idle
  <2>3. Alone("admin")' => OneSetup'
    BY <1>2, <1>4, <2>1, <2>2 DEF SetupInv, Alone, OneSetup, Unmoved, SettingUp, IsWriting
  <2>4. AdminSurvivesRestart'
    BY <1>4, <2>1, <2>2 DEF SetupInv, Alone, AdminSurvivesRestart, Unmoved
  <2> QED BY <1>5, <2>3, <2>4 DEF SetupInv
<1>7. CASE f = "admin"
  <2>1. ASSUME Alone("admin")' PROVE OneSetup' /\ SettingUp(r)'
    <3>1. Content("admin")' = req[r].val /\ req'[r] = AfterWrite(req[r])
      BY <1>1, <1>4, <1>7, <2>1, RenameKeeps DEF WholeInv, Alone
    <3>2. SettingUp(r) /\ SettingUp(r)' /\ req'[r].pc = "assign" /\ req'[r].name = req[r].val
      BY <1>1, <1>2, <1>3, <1>7, <3>1 DEF SettingUp, IsWriting
    <3>3. \A q \in Requests : q # r => ~SettingUp(q) /\ ~SettingUp(q)'
      BY <1>2, <1>4, <2>1, <3>2 DEF SetupInv, Alone, OneSetup, SettingUp, IsWriting
    <3>4. OneSetup'
      BY <3>1, <3>2, <3>3 DEF OneSetup, SettingUp, IsWriting
    <3> QED BY <3>2, <3>4
  <2> QED BY <1>5, <2>1 DEF SetupInv, AdminSurvivesRestart
<1> QED BY <1>6, <1>7

LEMMA SetupInvOfSetup ==
    ASSUME WholeInv, SetupInv, NEW r \in Requests, NEW a \in Admins, Setup(r, a)
    PROVE  SetupInv'
<1>1. /\ Unmoved("admin") /\ req'[r] = SaveAdminState(a)
      /\ \A q \in Requests : q # r => req'[q] = req[q]
  BY SetupKeeps DEF WholeInv, Files
<1>2. /\ up /\ mem = NoAdmin /\ UNCHANGED <<up, mem>>
      /\ clash' = IF \E q \in Requests : SettingUp(q) THEN clash \cup {"admin"} ELSE clash
  BY DEF Setup, memory
<1>3. req'[r].pc = "open" /\ req'[r].file = "admin"
  BY <1>1 DEF SaveAdminState, Writing
<1>4. SettingUp(r)'
  BY <1>3 DEF SettingUp, IsWriting
<1>5. ASSUME Alone("admin")' PROVE OneSetup'
  <2>1. Alone("admin") /\ \A q \in Requests : ~SettingUp(q)
    BY <1>2, <1>5 DEF Alone
  <2>2. \A q \in Requests : q # r => ~SettingUp(q)'
    BY <1>1, <2>1 DEF SettingUp, IsWriting
  <2>3. Content("admin") = Absent
    BY <1>2, <2>1, AdminContent, AdminAssumption DEF SetupInv, AdminSurvivesRestart
  <2> QED BY <1>1, <1>2, <1>3, <2>2, <2>3 DEF OneSetup, Unmoved, SettingUp, IsWriting
<1> QED BY <1>2, <1>4, <1>5 DEF SetupInv, AdminSurvivesRestart

LEMMA SetupInvOfAssign ==
    ASSUME WholeInv, SetupInv, NEW r \in Requests, SetupAssigns(r)
    PROVE  SetupInv'
<1>1. Unmoved("admin") /\ req'[r] = Idle /\ \A q \in Requests : q # r => req'[q] = req[q]
  BY AssignKeeps DEF WholeInv, Files
<1>2. /\ req[r].pc = "assign" /\ IsRequest(req[r]) /\ mem' = req[r].name /\ UNCHANGED <<up, clash>>
  BY DEF SetupAssigns, WholeInv, TypeOK
<1>3. req[r].name \in Admins
  BY <1>2, RequestFields
<1>4. (~up => \A q \in Requests : req[q].pc = "idle")'
  BY <1>1, <1>2 DEF SetupInv
<1>5. ASSUME Alone("admin")'
      PROVE  OneSetup' /\ mem' = (IF Content("admin")' = Absent THEN NoAdmin ELSE Content("admin")')
  <2>1. Alone("admin") /\ OneSetup /\ SettingUp(r)
    BY <1>2, <1>5 DEF Alone, SetupInv, SettingUp
  <2>2. \A q \in Requests : ~SettingUp(q)'
    BY <1>1, <2>1 DEF OneSetup, SettingUp, IsWriting, Idle
  <2>3. Content("admin")' = req[r].name /\ Absent \notin Admins
    BY <1>1, <1>2, <2>1, AdminContent DEF OneSetup, Unmoved
  <2>4. OneSetup'
    BY <2>2 DEF OneSetup, SettingUp
  <2> QED BY <1>2, <1>3, <2>3, <2>4
<1> QED BY <1>4, <1>5 DEF SetupInv, AdminSurvivesRestart

LEMMA SetupInvOfOthers ==
    ASSUME WholeInv, SetupInv, Still \/ Crash \/ Restart
    PROVE  SetupInv'
<1>1. Unmoved("admin") /\ clash' = clash
  <2>1. CASE Still
    BY <2>1, StillKeeps DEF Still, WholeInv, Files
  <2>2. CASE Crash
    BY <2>2, CrashKeeps DEF Crash, WholeInv, Files
  <2>3. CASE Restart
    BY <2>3, StillKeeps DEF Restart, WholeInv, Files
  <2> QED BY <2>1, <2>2, <2>3
<1>2. CASE Still
  <2>1. UNCHANGED <<req, up, mem>>
    BY <1>2 DEF Still
  <2>2. \A q \in Requests : (SettingUp(q)' <=> SettingUp(q)) /\ (IsWriting(q)' <=> IsWriting(q))
    BY <2>1 DEF SettingUp, IsWriting
  <2> QED BY <1>1, <2>1, <2>2 DEF SetupInv, Alone, OneSetup, AdminSurvivesRestart, Unmoved
<1>3. CASE Crash
  <2>1. up' = FALSE /\ \A q \in Requests : req'[q].pc = "idle"
    BY <1>3 DEF Crash, Idle
  <2>2. \A q \in Requests : ~SettingUp(q)' /\ ~IsWriting(q)'
    BY <2>1 DEF SettingUp, IsWriting
  <2> QED BY <2>1, <2>2 DEF SetupInv, OneSetup, AdminSurvivesRestart
<1>4. CASE Restart
  <2>1. /\ up' = TRUE /\ \A q \in Requests : req'[q].pc = "idle"
        /\ mem' = IF Content("admin") \in {Absent, Empty} THEN NoAdmin ELSE Content("admin")
    BY <1>4 DEF Restart, SetupInv
  <2>2. \A q \in Requests : ~SettingUp(q)' /\ ~IsWriting(q)'
    BY <2>1 DEF SettingUp, IsWriting
  <2>3. Alone("admin") => Content("admin") # Empty
    BY WholeMeansWhole DEF FilesAreWhole, Files
  <2> QED BY <1>1, <2>1, <2>2, <2>3 DEF SetupInv, OneSetup, AdminSurvivesRestart, Alone, Unmoved
<1> QED BY <1>2, <1>3, <1>4

LEMMA NextSetup == ASSUME WholeInv, SetupInv, [Next]_vars PROVE SetupInv'
<1>1. Kinds
  BY StepKinds DEF WholeInv
<1> QED BY <1>1, SetupInvOfMoves, SetupInvOfWriters, SetupInvOfRename, SetupInvOfSetup,
           SetupInvOfAssign, SetupInvOfOthers DEF Kinds

\* The administrator in memory is the one in the file, so that a restart changes nothing, but
\* for the time in which a setup is under way and after two at one time (handleSetup).
THEOREM RestartsKeepTheAdministrator == Spec => []AdminSurvivesRestart
<1>1. Init => WholeInv /\ SetupInv
  BY InitWhole, InitSetup
<1>2. WholeInv /\ SetupInv /\ [Next]_vars => (WholeInv /\ SetupInv)'
  BY NextWhole, NextSetup
<1>3. SetupInv => AdminSurvivesRestart
  BY DEF SetupInv
<1> QED BY <1>1, <1>2, <1>3, PTL DEF Spec

(***************************************************************************)
(* The configurations.  Every configuration that a request holds, writes   *)
(* or that the file has is in step, and the pairs of its additional        *)
(* certificates have been installed.                                       *)
(***************************************************************************)
Sound(pairs, c) == InStep(c) /\ ArgsInstalled(pairs, c)
EnvSound ==
    /\ \A r \in Requests :
          /\ HoldsConfig(req[r]) => Sound(certs, req[r].cfg)
          /\ Writes(req[r]) /\ req[r].file = "env" => Sound(certs, req[r].val)
    /\ Content("env") # Absent => Sound(certs, Content("env"))
ConfigsInv ==
    /\ \A r \in Requests : Computing(req[r])
    /\ Alone("env") => EnvSound

\* a pair that was installed stays installed
LEMMA SoundLasts ==
    ASSUME NEW c \in Configs, NEW pairs, NEW pairs2, Sound(pairs, c),
           \A d \in Dirs : pairs[d] # "none" => pairs2[d] # "none"
    PROVE  Sound(pairs2, c)
<1>1. \A i \in DOMAIN c.args : c.args[i] # OtherArg => c.args[i].dir \in Dirs
  BY DEF Configs, CertArgs
<1> QED BY <1>1 DEF Sound, ArgsInstalled

LEMMA EnvContent ==
    ASSUME WholeInv, Alone("env")
    PROVE  /\ Content("env") \in Configs \cup {Absent} /\ Content("env") \in Stored
           /\ Content("env") # Empty
<1>1. Content("env") \in Stored
  BY TypeParts, ContentIsTyped DEF WholeInv
<1>2. Content("env") # Empty
  BY WholeMeansWhole DEF FilesAreWhole, Files
<1> QED BY <1>1, <1>2 DEF Stored

\* what a handler reads from a sound file, or goes on with, is sound
LEMMA FromSound ==
    ASSUME WholeInv, Alone("env"), EnvSound, NEW r \in Requests, NEW c, From(r, c)
    PROVE  Sound(certs, c) /\ c \in Configs
<1>1. CASE c = ReadConfig
  <2>1. PICK env \in Stored : env = Content("env")
    BY EnvContent
  <2>2. env = Absent \/ Sound(certs, env)
    BY <2>1 DEF EnvSound
  <2>3. c = ReadServerConfig(env)
    BY <1>1, <2>1 DEF ReadConfig
  <2>4. /\ c \in Configs
        /\ env \in {Absent, Empty} \/ (InStep(env) /\ ArgsInstalled(certs, env)) =>
              InStep(c) /\ ArgsInstalled(certs, c)
    BY <2>3, ReadKeeps
  <2> QED BY <2>2, <2>4 DEF Sound
<1>2. CASE HoldsConfig(req[r]) /\ c = req[r].cfg
  BY <1>2, RequestFields DEF EnvSound, WholeInv, TypeOK
<1> QED BY <1>1, <1>2 DEF From

LEMMA InitConfigs == ASSUME Init PROVE ConfigsInv
<1>1. PICK m \in Deployments :
        /\ req = [r \in Requests |-> Idle] /\ certs = m.certs
        /\ node = [f \in Files |-> IF m[f] = Absent THEN 0 ELSE 1]
        /\ data = [f \in Files |-> [i \in Nodes |-> IF i = 1 /\ m[f] # Absent THEN m[f] ELSE Empty]]
  BY DEF Init
<1>2. "env" \in Files /\ 1 \in Nodes /\ m["env"] = m.env
  BY AdminAssumption, FS_CardinalityType DEF Files, Nodes
<1>3. Content("env") = m.env
  BY <1>1, <1>2 DEF Content
<1>4. m.env # Absent => Sound(certs, m.env)
  BY <1>1, AdminAssumption DEF IsDeployment, Sound
<1>5. \A r \in Requests : req[r].pc = "idle"
  BY <1>1 DEF Idle
<1> QED BY <1>3, <1>4, <1>5 DEF ConfigsInv, EnvSound, Computing, HoldsConfig, Writes

\* a request that nothing happens to keeps what it has
LEMMA SoundStays ==
    ASSUME WholeInv, EnvSound, CertsLast, NEW q \in Requests, req'[q] = req[q]
    PROVE  /\ HoldsConfig(req'[q]) => Sound(certs', req'[q].cfg)
           /\ Writes(req'[q]) /\ req'[q].file = "env" => Sound(certs', req'[q].val)
<1>1. PICK w : w = req[q] /\ IsRequest(w)
  BY DEF WholeInv, TypeOK
<1>2. HoldsConfig(w) => w.cfg \in Configs /\ Sound(certs, w.cfg)
  BY <1>1, RequestFields DEF EnvSound
<1>3. Writes(w) /\ w.file = "env" => w.val \in Configs /\ Sound(certs, w.val)
  BY <1>1, RequestFields DEF EnvSound, Contents
<1>4. \A d \in Dirs : certs[d] # "none" => certs'[d] # "none"
  BY DEF CertsLast
<1>5. HoldsConfig(w) => Sound(certs', w.cfg)
  BY <1>2, <1>4, SoundLasts
<1>6. Writes(w) /\ w.file = "env" => Sound(certs', w.val)
  BY <1>3, <1>4, SoundLasts
<1> QED BY <1>1, <1>5, <1>6

LEMMA ComputingStays ==
    ASSUME WholeInv, CertsLast, NEW q \in Requests, Computing(req[q]), req'[q] = req[q]
    PROVE  Computing(req[q])'
<1>1. req[q].pc = "compute" => req[q].d \in Dirs
  BY RequestFields DEF WholeInv, TypeOK, OnDomain, Dirs, AllNames
<1> QED BY <1>1 DEF Computing, CertsLast

LEMMA ContentStays ==
    ASSUME WholeInv, Alone("env"), EnvSound, CertsLast, Unmoved("env"), Content("env") # Absent
    PROVE  Sound(certs', Content("env")')
<1>1. PICK c \in Configs : c = Content("env")
  BY EnvContent
<1>2. Sound(certs, c)
  BY <1>1 DEF EnvSound
<1>3. Sound(certs', c)
  BY <1>2, SoundLasts DEF CertsLast
<1> QED BY <1>1, <1>3 DEF Unmoved

LEMMA ConfigsInvOfMoves ==
    ASSUME WholeInv, ConfigsInv, NEW r \in Requests, NEW to, Moves(r, to)
    PROVE  ConfigsInv'
<1>1. /\ req'[r] = to /\ (\A q \in Requests : q # r => req'[q] = req[q])
      /\ Unmoved("env")
  BY MovesKeeps DEF WholeInv, Files
<1>2. /\ IsRequest(to) /\ clash' = clash /\ CertsLast /\ (to.pc = "compute" => certs'[to.d] # "none")
      /\ HoldsConfig(to) => From(r, to.cfg)
      /\ Computing(req[r]) /\ to.pc = "open" /\ to.file = "env" =>
            \E c \in Configs : From(r, c) /\ Keeps(certs, c, to.val)
      /\ to.pc \notin {"fill", "rename"}
  BY DEF Moves
<1>3. ASSUME NEW q \in Requests PROVE Computing(req[q])'
  <2>1. CASE q = r
    BY <1>1, <1>2, <2>1 DEF Computing
  <2>2. CASE q # r
    BY <1>1, <1>2, <2>2, ComputingStays DEF ConfigsInv
  <2> QED BY <2>1, <2>2
<1>4. ASSUME Alone("env")' PROVE EnvSound'
  <2>1. Alone("env") /\ EnvSound
    BY <1>2, <1>4 DEF Alone, ConfigsInv
  <2>2. HoldsConfig(to) => Sound(certs', to.cfg)
    <3>1. SUFFICES ASSUME HoldsConfig(to) PROVE Sound(certs', to.cfg)
      OBVIOUS
    <3>2. PICK c : c = to.cfg /\ From(r, c)
      BY <1>2, <3>1
    <3>3. Sound(certs, c) /\ c \in Configs
      BY <2>1, <3>2, FromSound
    <3>4. Sound(certs', c)
      BY <1>2, <3>3, SoundLasts DEF CertsLast
    <3> QED BY <3>2, <3>4
  <2>3. Writes(to) /\ to.file = "env" => Sound(certs', to.val)
    <3>1. SUFFICES ASSUME Writes(to), to.file = "env" PROVE Sound(certs', to.val)
      OBVIOUS
    <3>2. PICK c \in Configs : From(r, c) /\ Keeps(certs, c, to.val)
      BY <1>2, <3>1 DEF Writes, ConfigsInv
    <3>3. Sound(certs, c)
      BY <2>1, <3>2, FromSound
    <3>4. to.val \in Configs /\ Sound(certs, to.val)
      BY <3>2, <3>3 DEF Keeps, Sound
    <3>5. Sound(certs', to.val)
      BY <1>2, <3>4, SoundLasts DEF CertsLast
    <3> QED BY <3>5
  <2>4. Content("env")' # Absent => Sound(certs', Content("env")')
    BY <1>1, <1>2, <2>1, ContentStays DEF Unmoved
  <2>5. ASSUME NEW q \in Requests
        PROVE  /\ HoldsConfig(req'[q]) => Sound(certs', req'[q].cfg)
               /\ Writes(req'[q]) /\ req'[q].file = "env" => Sound(certs', req'[q].val)
    <3>1. CASE q = r
      BY <1>1, <2>2, <2>3, <3>1
    <3>2. CASE q # r
      BY <1>1, <1>2, <2>1, <3>2, SoundStays
    <3> QED BY <3>1, <3>2
  <2> QED BY <2>4, <2>5 DEF EnvSound, HoldsConfig, Writes
<1> QED BY <1>3, <1>4 DEF ConfigsInv

\* a step after which each request holds what it did, or no configuration at all
LEMMA ConfigsInvOfOthers ==
    ASSUME WholeInv, ConfigsInv, UNCHANGED certs, clash \subseteq clash',
           Alone("env")' => Unmoved("env"),
           \A q \in Requests :
              \/ req'[q] = req[q]
              \/ /\ ~HoldsConfig(req'[q])
                 /\ Writes(req'[q]) /\ req'[q].file = "env" =>
                       /\ Writes(req[q]) /\ req[q].file = "env" /\ req'[q].val = req[q].val
    PROVE  ConfigsInv'
<1>1. CertsLast
  BY SameCerts
<1>2. ASSUME NEW q \in Requests PROVE Computing(req[q])'
  <2>1. CASE req'[q] = req[q]
    BY <1>1, <2>1, ComputingStays DEF ConfigsInv
  <2>2. CASE ~HoldsConfig(req'[q])
    BY <2>2 DEF HoldsConfig, Computing
  <2> QED BY <2>1, <2>2
<1>3. ASSUME Alone("env")' PROVE EnvSound'
  <2>1. Alone("env") /\ EnvSound
    BY <1>3 DEF Alone, ConfigsInv
  <2>2. Content("env")' # Absent => Sound(certs', Content("env")')
    BY <1>1, <1>3, <2>1, ContentStays DEF Unmoved
  <2>3. ASSUME NEW q \in Requests
        PROVE  /\ HoldsConfig(req'[q]) => Sound(certs', req'[q].cfg)
               /\ Writes(req'[q]) /\ req'[q].file = "env" => Sound(certs', req'[q].val)
    <3>1. CASE req'[q] = req[q]
      BY <1>1, <2>1, <3>1, SoundStays
    <3>2. CASE req'[q] # req[q]
      BY <2>1, <3>2 DEF EnvSound
    <3> QED BY <3>1, <3>2
  <2> QED BY <2>2, <2>3 DEF EnvSound, HoldsConfig, Writes
<1> QED BY <1>2, <1>3 DEF ConfigsInv

LEMMA ConfigsInvOfRename ==
    ASSUME WholeInv, ConfigsInv, NEW r \in Requests, WriteRename(r)
    PROVE  ConfigsInv'
<1>1. PICK f \in Files : f = req[r].file
  BY RenameTypes DEF WholeInv
<1>2. /\ req[r].pc = "rename" /\ Writes(req[r]) /\ IsRequest(req[r])
      /\ req'[r] \in {Idle, AfterWrite(req[r])}
      /\ \A q \in Requests : q # r => req'[q] = req[q]
  BY RenameTypes DEF WholeInv, TypeOK
<1>3. ~HoldsConfig(req'[r]) /\ ~Writes(req'[r])
  <2>1. AfterWrite(req[r]).pc \in {"idle", "assign", "unit", "restart"}
    BY <1>2, AfterWriteIsRequest
  <2> QED BY <1>2, <2>1 DEF HoldsConfig, Writes, Idle
<1>4. UNCHANGED <<certs, clash>>
  BY DEF WriteRename, outside
<1>5. CASE f # "env"
  <2>1. Alone("env")' => Unmoved("env")
    BY <1>1, <1>4, <1>5, RenameKeeps DEF WholeInv, Files, Alone
  <2> QED BY <1>2, <1>3, <1>4, <2>1, ConfigsInvOfOthers
<1>6. CASE f = "env"
  <2>1. CertsLast
    BY <1>4, SameCerts
  <2>2. \A q \in Requests : Computing(req[q])'
    BY <1>2, <1>3, <2>1, ComputingStays DEF ConfigsInv, HoldsConfig, Computing
  <2>3. ASSUME Alone("env")' PROVE EnvSound'
    <3>1. Alone("env") /\ EnvSound
      BY <1>4, <2>3 DEF Alone, ConfigsInv
    <3>2. Content("env")' = req[r].val
      BY <1>1, <1>6, <3>1, RenameKeeps DEF WholeInv
    <3>3. Sound(certs', Content("env")')
      BY <1>1, <1>2, <1>4, <1>6, <3>1, <3>2 DEF EnvSound
    <3>4. \A q \in Requests :
             /\ HoldsConfig(req'[q]) => Sound(certs', req'[q].cfg)
             /\ Writes(req'[q]) /\ req'[q].file = "env" => Sound(certs', req'[q].val)
      BY <1>2, <1>3, <2>1, <3>1, SoundStays
    <3> QED BY <3>3, <3>4 DEF EnvSound, HoldsConfig, Writes
  <2> QED BY <2>2, <2>3 DEF ConfigsInv
<1> QED BY <1>5, <1>6

LEMMA NextConfigs == ASSUME WholeInv, ConfigsInv, [Next]_vars PROVE ConfigsInv'
<1>1. Kinds
  BY StepKinds DEF WholeInv
<1>2. ASSUME NEW r \in Requests, WriteOpen(r) \/ WriteFill(r) PROVE ConfigsInv'
  <2>1. /\ Writes(req[r]) /\ req'[r].pc \in {"fill", "rename"}
        /\ req'[r].file = req[r].file /\ req'[r].val = req[r].val
        /\ \A q \in Requests : q # r => req'[q] = req[q]
    BY <1>2, WritersGoOn DEF WholeInv
  <2>2. UNCHANGED certs /\ clash \subseteq clash'
    BY <1>2 DEF WriteOpen, WriteFill, outside
  <2>3. Alone("env")' => Unmoved("env")
    BY <1>2, <2>2, OpenKeeps, FillKeeps DEF WholeInv, Files, Alone
  <2>4. ~HoldsConfig(req'[r])
    BY <2>1 DEF HoldsConfig
  <2> QED BY <2>1, <2>2, <2>3, <2>4, ConfigsInvOfOthers
<1>3. ASSUME NEW r \in Requests, NEW a \in Admins, Setup(r, a) PROVE ConfigsInv'
  <2>1. /\ Unmoved("env") /\ req'[r] = SaveAdminState(a)
        /\ \A q \in Requests : q # r => req'[q] = req[q]
    BY <1>3, SetupKeeps DEF WholeInv, Files
  <2>2. UNCHANGED certs /\ clash \subseteq clash'
    BY <1>3 DEF Setup, outside
  <2>3. req'[r].pc = "open" /\ req'[r].file = "admin"
    BY <2>1 DEF SaveAdminState, Writing
  <2> QED BY <2>1, <2>2, <2>3, ConfigsInvOfOthers DEF HoldsConfig
<1>4. ASSUME NEW r \in Requests, SetupAssigns(r) PROVE ConfigsInv'
  <2>1. Unmoved("env") /\ req'[r] = Idle /\ \A q \in Requests : q # r => req'[q] = req[q]
    BY <1>4, AssignKeeps DEF WholeInv, Files
  <2>2. UNCHANGED <<certs, clash>>
    BY <1>4 DEF SetupAssigns, outside
  <2> QED BY <2>1, <2>2, ConfigsInvOfOthers DEF HoldsConfig, Writes, Idle
<1>5. CASE Still \/ Restart
  <2>1. UNCHANGED <<req, files, clash, certs>>
    BY <1>5 DEF Still, Restart, outside
  <2>2. Unmoved("env")
    BY <2>1, StillKeeps DEF WholeInv, Files
  <2> QED BY <2>1, <2>2, ConfigsInvOfOthers
<1>6. CASE Crash
  <2>1. Unmoved("env") /\ UNCHANGED <<certs, clash>> /\ \A q \in Requests : req'[q] = Idle
    BY <1>6, CrashKeeps DEF Crash, WholeInv, Files, outside
  <2> QED BY <2>1, ConfigsInvOfOthers DEF HoldsConfig, Writes, Idle
<1> QED BY <1>1, <1>2, <1>3, <1>4, <1>5, <1>6, ConfigsInvOfMoves, ConfigsInvOfRename DEF Kinds

LEMMA ConfigsHold == Spec => [](WholeInv /\ ConfigsInv)
<1>1. Init => WholeInv /\ ConfigsInv
  BY InitWhole, InitConfigs
<1>2. WholeInv /\ ConfigsInv /\ [Next]_vars => (WholeInv /\ ConfigsInv)'
  BY NextWhole, NextConfigs
<1> QED BY <1>1, <1>2, PTL DEF Spec

\* The configuration stays in step through any sequence and interleaving of adding, deleting,
\* issuing and saving that does not write the file twice at one time (removeDomainFromConfig).
THEOREM ConfigurationsStayInStep == Spec => []DomainsInStep
<1>1. WholeInv /\ ConfigsInv => DomainsInStep
  BY DEF ConfigsInv, EnvSound, Sound, DomainsInStep
<1> QED BY <1>1, ConfigsHold, PTL

LEMMA OptionDirs ==
    ASSUME NEW c \in Configs, NEW pairs, ArgsInstalled(pairs, c),
           NEW d \in ServerOptions(c).dirs \ {c.tls}
    PROVE  pairs[d] # "none"
<1>1. PICK args \in Seq(Args) : args = c.args
  BY ConfigFields
<1>2. PICK X : X = {OtherArg}
  OBVIOUS
<1>3. PICK w : w = Without(args, X)
  OBVIOUS
<1>4. Range(w) = Range(args) \ X /\ w \in Seq(Args)
  BY <1>3, WithoutFacts
<1>5. PICK i \in DOMAIN w : d = w[i].dir
  BY <1>1, <1>2, <1>3 DEF ServerOptions
<1>6. PICK j \in DOMAIN args : args[j] = w[i] /\ args[j] # OtherArg
  BY <1>2, <1>4, <1>5 DEF Range
<1> QED BY <1>1, <1>5, <1>6 DEF ArgsInstalled

\* A server that fails to start and is started again and again has something that the operator
\* can see on the dashboard, or an installation was cut off between its two files: an additional
\* domain's certificate is never missing (issueWithAcmeSH, domainCertArgDir).
THEOREM AdditionalCertsAreThere == Spec => []OnlyPrimaryCertMissing
<1>1. ASSUME WholeInv, ConfigsInv PROVE OnlyPrimaryCertMissing
  <2>1. SUFFICES ASSUME Alone("env"), Content("env") \notin {Absent, Empty},
                        NEW d \in ServerOptions(Content("env")).dirs \ {Content("env").tls}
                 PROVE  certs[d] # "none"
    BY DEF OnlyPrimaryCertMissing
  <2>2. PICK c \in Configs : c = Content("env")
    BY <1>1, <2>1, EnvContent
  <2>3. ArgsInstalled(certs, c)
    BY <1>1, <2>1, <2>2 DEF ConfigsInv, EnvSound, Sound
  <2> QED BY <2>1, <2>2, <2>3, OptionDirs
<1> QED BY <1>1, ConfigsHold, PTL

(***************************************************************************)
(* What the dashboard promises when it says "Ready".                       *)
(***************************************************************************)
Steps == {"config", "domain", "dns", "certificate", "nginx", "server_build", "service",
          "client_build", "download"}

LEMMA ReadyMeansDone ==
    ASSUME NEW done, NextStep(done) = "ready"
    PROVE  \A step \in Steps : done[step]
<1>1. StepNames \in Seq(Steps) /\ Len(StepNames) = 9 /\ \A step \in Steps : \E i \in 1..9 : StepNames[i] = step
  BY DEF StepNames, Steps
<1>2. PICK I : I = {i \in DOMAIN StepNames : ~done[StepNames[i]]}
  OBVIOUS
<1>3. PICK w : w = Selected(StepNames, I)
  OBVIOUS
<1>4. PICK s \in Seq(Steps) : s = StepNames
  BY <1>1
<1>5. I \in SUBSET (1..Len(s)) /\ w = Selected(s, I)
  <2>1. DOMAIN s = 1..Len(s)
    OBVIOUS
  <2>2. I \subseteq DOMAIN s
    BY <1>2, <1>4
  <2> QED BY <1>3, <1>4, <2>1, <2>2
<1>6. w \in Seq(Steps) /\ IsSelection(w, s, I)
  BY <1>5, SelectedFacts
<1>7. w = <<>>
  <2>1. SUFFICES ASSUME w # <<>> PROVE FALSE
    OBVIOUS
  <2>2. w[1] \in Steps
    BY <1>6, <2>1
  <2>3. w[1] = "ready"
    BY <1>2, <1>3, <2>1 DEF NextStep
  <2> QED BY <2>2, <2>3 DEF Steps
<1>8. I = {}
  BY <1>6, <1>7 DEF IsSelection
<1>9. \A i \in 1..9 : done[StepNames[i]]
  BY <1>1, <1>2, <1>8
<1> QED BY <1>1, <1>9

\* what a list contains is at one of its positions
LEMMA InRange ==
    ASSUME NEW H, NEW w \in Seq(H), NEW x \in Range(w)
    PROVE  \E i \in 1..Len(w) : w[i] = x
BY DEF Range

\* the server's public hosts are those of VHOST, in its order
LEMMA PublicHosts ==
    ASSUME NEW vhost \in Seq(AllNames), vhost # <<>>, NEW domains,
           NEW v, v = PublicVhosts("http", 8080, [i \in DOMAIN vhost |-> Host(None, vhost[i], None)], domains)
    PROVE  /\ v # <<>> /\ v[1] = Host(None, vhost[1], None)
           /\ \A d \in Range(vhost) : \E i \in 1..Len(v) : v[i] = Host(None, d, None)
<1>1. PICK H : H = {Host(None, d, None) : d \in AllNames}
  OBVIOUS
<1>2. PICK raw : raw = [i \in DOMAIN vhost |-> Host(None, vhost[i], None)]
  OBVIOUS
<1>3. PICK n \in Nat : n = Len(vhost) /\ DOMAIN vhost = 1..n /\ n # 0
  OBVIOUS
<1>4. raw \in Seq(H) /\ Len(raw) = n /\ raw # <<>>
  <2>1. raw \in [1..n -> H]
    BY <1>1, <1>2, <1>3
  <2>2. raw \in Seq(H)
    BY <2>1
  <2> QED BY <1>3, <2>1, <2>2
<1>5. \A i \in 1..n : raw[i] = Host(None, vhost[i], None) /\ raw[i].port # 80
  <2>1. None # 80
    BY AdminAssumption
  <2> QED BY <1>2, <1>3, <2>1 DEF Host
<1>6. PICK s : s = [i \in 1..Len(raw) |->
                       IF raw[i].port = 80 THEN [raw[i] EXCEPT !.port = None] ELSE raw[i]]
  OBVIOUS
<1>7. v = Distinct(s)
  BY <1>2, <1>4, <1>6 DEF PublicVhosts, DefaultPort
<1>8. s \in Seq(H) /\ Len(s) = n /\ s # <<>> /\ \A i \in 1..n : s[i] = raw[i]
  <2>1. \A i \in 1..n : s[i] = raw[i] /\ raw[i] \in H
    BY <1>4, <1>5, <1>6
  <2>2. s \in [1..n -> H]
    BY <1>4, <1>6, <2>1
  <2>3. s \in Seq(H)
    BY <2>2
  <2> QED BY <1>3, <2>1, <2>2, <2>3
<1>9. v \in Seq(H) /\ Range(v) = Range(s) /\ v # <<>> /\ v[1] = s[1]
  BY <1>7, <1>8, DistinctFacts
<1>10. v[1] = Host(None, vhost[1], None)
  BY <1>3, <1>5, <1>8, <1>9
<1>11. \A x \in Range(v) : \E j \in 1..Len(v) : v[j] = x
  <2>1. v \in Seq(H)
    BY <1>9
  <2> QED BY <2>1, InRange
<1>12. ASSUME NEW d \in Range(vhost) PROVE \E i \in 1..Len(v) : v[i] = Host(None, d, None)
  <2>1. PICK i \in 1..n : vhost[i] = d
    BY <1>3 DEF Range
  <2>2. s[i] = Host(None, d, None) /\ i \in DOMAIN s
    BY <1>5, <1>8, <2>1
  <2>3. s[i] \in Range(v)
    <3>1. s[i] \in Range(s)
      BY <2>2 DEF Range
    <3> QED BY <1>9, <3>1
  <2>4. PICK j \in 1..Len(v) : v[j] = s[i]
    BY <1>11, <2>3
  <2> QED BY <2>2, <2>4
<1> QED BY <1>9, <1>10, <1>12

\* the URL that the server gives out for a name under a domain of VHOST is that of the name
LEMMA UrlUnderDomain ==
    ASSUME NEW v, v # <<>>, NEW d \in Domains,
           \E i \in 1..Len(v) : v[i] = Host(None, d, None)
    PROVE  VhostUrl("http", v, Host("app", d, None), None) = {HandlerUrl("http", Host("app", d, None))}
<1>1. PICK h : h = Host("app", d, None)
  OBVIOUS
<1>2. h # None /\ h.port = None /\ h.label = "app" /\ h.dom = d
  BY <1>1, AdminAssumption DEF Host
<1>3. ValidHostname(h)
  BY <1>2, AdminAssumption DEF ValidHostname, ValidHostnameLabel
<1>4. HostnameAllowed(h, v)
  <2>1. PICK i \in 1..Len(v) : v[i] = Host(None, d, None)
    OBVIOUS
  <2>2. StripHostPort(v[i]).label = None /\ StripHostPort(v[i]).dom = d
    BY <2>1 DEF StripHostPort, Host
  <2> QED BY <1>2, <2>2 DEF HostnameAllowed
<1>5. VhostUrl("http", v, h, None) = {Url("http", h)}
  BY <1>2, <1>3, <1>4 DEF VhostUrl
<1> QED BY <1>1, <1>5 DEF HandlerUrl

LEMMA UrlOfSubdomain ==
    ASSUME NEW v, v # <<>>, NEW d, v[1] = Host(None, d, None)
    PROVE  VhostUrl("http", v, None, "app") = {HandlerUrl("http", Host("app", d, None))}
<1>1. v[1].dom = d /\ v[1].port = None
  BY DEF Host
<1>2. "app" # None /\ ValidHostnameLabel("app")
  BY AdminAssumption DEF ValidHostnameLabel
<1> QED BY <1>1, <1>2 DEF VhostUrl, HandlerUrl

\* the primary domain has no certificate of its own among the additional ones
LEMMA PrimaryPair ==
    ASSUME NEW env \in Configs, InStep(env)
    PROVE  ServerPair(env, env.domain) = env.tls
<1>1. CertArgsOf(env.args, env.domain) = {}
  BY DEF InStep, ArgsInStep, CertArgsOf, IsCertOf
<1> QED BY <1>1 DEF ServerPair, HasCertArg

\* When the dashboard says "Ready" and server and nginx have been told since, a visitor of a tunnel
\* under any configured domain gets to it, and a client with the client.yml of the dashboard is let
\* in (setupSteps, nginxConfig, publicVhosts, registerVhost, httpHandler, clientConfig).
THEOREM ReadyIsServed == Spec => []ReadyMeansServed
<1>1. ASSUME WholeInv, ConfigsInv PROVE ReadyMeansServed
  <2>1. PICK env : env = Content("env")
    OBVIOUS
  <2>2. PICK c : c = ReadServerConfig(env)
    OBVIOUS
  <2>3. PICK ds : ds = ConfiguredDomainList(env, c)
    OBVIOUS
  <2>4. PICK vhosts : vhosts = PublicVhosts("http", 8080, server.opts.vhost, server.opts.domains)
    OBVIOUS
  <2>5. SUFFICES ASSUME Alone("env"), NextStep(SetupSteps(env)) = "ready",
                        server.opts = ServerOptions(env), nginx = Content("nginx"), env.vhost # <<>>
                 PROVE  /\ \A i \in DOMAIN ds :
                              /\ \E j \in DOMAIN nginx.blocks :
                                    nginx.blocks[j].dom = ds[i] /\ certs[nginx.blocks[j].dir] # "none"
                              /\ VhostUrl("http", vhosts, Host("app", ds[i], None), None)
                                    = {HandlerUrl("http", Host("app", ds[i], None))}
                        /\ VhostUrl("http", vhosts, None, "app") = {HandlerUrl("http", Host("app", c.domain, None))}
                        /\ ClientConfig(c).token = server.opts.token
                        /\ ServerPair(env, c.domain) \in {c.domain, DefaultTls}
                        /\ certs[ServerPair(env, c.domain)] # "none"
    BY <2>1, <2>2, <2>3, <2>4 DEF ReadyMeansServed
  <2>6. PICK done : done = SetupSteps(env)
    OBVIOUS
  <2>7. done.config /\ done.domain /\ done.certificate /\ done.nginx
    <3>1. \A step \in Steps : done[step]
      BY <2>5, <2>6, ReadyMeansDone
    <3>2. done["config"] /\ done["domain"] /\ done["certificate"] /\ done["nginx"]
      BY <3>1 DEF Steps
    <3> QED BY <3>2
  <2>8. /\ env # Absent /\ c.domain # Example /\ nginx = NginxConfig(env, c)
        /\ certs[c.tls] # "none" /\ ds # <<>> /\ \A i \in DOMAIN ds : RowOk(c, ds[i])
    BY <2>2, <2>3, <2>5, <2>6, <2>7
       DEF SetupSteps, DefaultLikeDomain, PrimaryCertIsThere, CertificatesComplete
  <2>9. env \in Configs /\ env \in Stored /\ env # Empty
    BY <1>1, <2>1, <2>5, <2>8, EnvContent
  <2>10. InStep(env)
    BY <1>1, <2>1, <2>5, <2>8 DEF ConfigsInv, EnvSound, Sound
  <2>11. /\ c \in Configs /\ c.domain = env.domain /\ c.vhost = env.vhost /\ c.args = env.args
         /\ c.tls = env.tls /\ c.token = env.token
    BY <2>2, <2>8, <2>9 DEF ReadServerConfig, ApplyDefaults, Configs, Ngrok, Control, Controls
  <2>12. /\ ds \in Seq(AllNames) /\ Example \notin Range(ds) /\ ds[1] = c.domain
         /\ Range(ds) \subseteq {c.domain} \cup Range(c.vhost)
    BY <2>3, <2>5, <2>8, <2>9, <2>11, ListFacts
  <2>13. PICK vhost \in Seq(AllNames) : vhost = env.vhost /\ vhost # <<>> /\ vhost[1] = c.domain
    BY <2>5, <2>8, <2>9, <2>10, <2>11, ConfigFields DEF InStep, DefaultLikeDomain
  <2>14. vhosts = PublicVhosts("http", 8080, [i \in DOMAIN vhost |-> Host(None, vhost[i], None)],
                               server.opts.domains)
    BY <2>4, <2>5, <2>13 DEF ServerOptions
  <2>15. /\ vhosts # <<>> /\ vhosts[1] = Host(None, vhost[1], None)
         /\ \A d \in Range(vhost) : \E i \in 1..Len(vhosts) : vhosts[i] = Host(None, d, None)
    BY <2>13, <2>14, PublicHosts
  <2>16. ASSUME NEW i \in DOMAIN ds
         PROVE  /\ \E j \in DOMAIN nginx.blocks :
                      nginx.blocks[j].dom = ds[i] /\ certs[nginx.blocks[j].dir] # "none"
                /\ VhostUrl("http", vhosts, Host("app", ds[i], None), None)
                      = {HandlerUrl("http", Host("app", ds[i], None))}
    <3>1. nginx.blocks = [j \in DOMAIN ds |-> [dom |-> ds[j], dir |-> CertDir(c, ds[j])]]
      BY <2>3, <2>8 DEF NginxConfig
    <3>2. nginx.blocks[i].dom = ds[i] /\ certs[nginx.blocks[i].dir] # "none" /\ i \in DOMAIN nginx.blocks
      BY <2>8, <2>16, <3>1 DEF RowOk
    <3>3. PICK d : d = ds[i]
      OBVIOUS
    <3>4. d \in Domains /\ d \in Range(vhost)
      <4>1. d \in Range(ds) /\ d \in AllNames
        BY <2>12, <2>16, <3>3 DEF Range
      <4>2. c.domain \in Range(vhost)
        BY <2>13 DEF Range
      <4> QED BY <2>11, <2>12, <2>13, <4>1, <4>2 DEF AllNames
    <3>5. VhostUrl("http", vhosts, Host("app", d, None), None) = {HandlerUrl("http", Host("app", d, None))}
      BY <2>15, <3>4, UrlUnderDomain
    <3> QED BY <3>2, <3>3, <3>5
  <2>17. VhostUrl("http", vhosts, None, "app") = {HandlerUrl("http", Host("app", c.domain, None))}
    BY <2>13, <2>15, UrlOfSubdomain
  <2>18. ClientConfig(c).token = server.opts.token
    BY <2>5, <2>11 DEF ClientConfig, ServerOptions
  <2>19. ServerPair(env, c.domain) = c.tls
    BY <2>9, <2>10, <2>11, PrimaryPair
  <2>20. c.tls \in {c.domain, DefaultTls}
    <3>1. 1 \in DOMAIN ds
      BY <2>8, <2>12
    <3>2. RowOk(c, c.domain)
      BY <2>8, <2>12, <3>1
    <3> QED BY <3>2 DEF RowOk, CertDir
  <2> QED BY <2>8, <2>16, <2>17, <2>18, <2>19, <2>20
<1> QED BY <1>1, ConfigsHold, PTL
=============================================================================

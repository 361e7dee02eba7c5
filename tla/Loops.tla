------------------------------- MODULE Loops -------------------------------
(***************************************************************************)
(* A step of a loop taken a number of times, as a function, and what can   *)
(* be said of it.  The loops of the C code whose number of turns is bounded *)
(* are modelled with it.                                                   *)
(***************************************************************************)
EXTENDS Integers, WellFoundedInduction, TLAPS

(* f applied n times to s. *)
Iterated(f, n, s) ==
    LET step[i \in 0..n] == IF i = 0 THEN s ELSE f[step[i - 1]] IN step[n]

-----------------------------------------------------------------------------
(* What goes on for a number of times.  A set of naturals with 0 that is    *)
(* closed under + 1 is all of them: induction, stated of a set.             *)

LEMMA NatLeast ==
    ASSUME NEW T \in SUBSET Nat, T # {}
    PROVE  \E m \in T : \A k \in T : m <= k
<1> DEFINE R == {p \in Nat \X Nat : p[1] < p[2]}
<1>1. IsWellFoundedOn(R, Nat)
  BY NatLessThanWellFounded DEF OpToRel
<1>2. PICK m \in T : \A k \in T : ~(<<k, m>> \in R)
  <2> HIDE DEF R
  <2> QED BY <1>1, WFMin
<1>3. ASSUME NEW k \in T PROVE m <= k
  <2>1. k \in Nat /\ m \in Nat
    OBVIOUS
  <2>2. CASE k < m
    <3>1. <<k, m>> \in R
      BY <2>1, <2>2
    <3> QED BY <1>2, <3>1
  <2> QED BY <2>1, <2>2
<1> QED BY <1>3

LEMMA SetInduction ==
    ASSUME NEW T \in SUBSET Nat, 0 \in T, \A k \in T : k + 1 \in T
    PROVE  T = Nat
<1> SUFFICES ASSUME Nat \ T # {} PROVE FALSE
  OBVIOUS
<1>1. PICK m \in Nat \ T : \A k \in Nat \ T : m <= k
  BY NatLeast
<1>2. m # 0 /\ m - 1 \in Nat /\ m - 1 \in T
  BY <1>1
<1> QED BY <1>1, <1>2

(* The steps from s: there is one list of them for every length, and a       *)
(* longer one goes on from a shorter one.                                   *)
AreSteps(g, n, f, s) == g = [i \in 0..n |-> IF i = 0 THEN s ELSE f[g[i - 1]]]

LEMMA StepsExist ==
    ASSUME NEW n \in Nat, NEW f, NEW s
    PROVE  \E g : AreSteps(g, n, f, s)
<1> DEFINE Is(g, k) == g = [i \in 0..k |-> IF i = 0 THEN s ELSE f[g[i - 1]]]
           T == {k \in Nat : \E g : Is(g, k)}
<1>1. 0 \in T
  <2>1. Is([i \in 0..0 |-> s], 0)
    OBVIOUS
  <2> QED BY <2>1
<1>2. ASSUME NEW k \in T PROVE k + 1 \in T
  <2>1. PICK g : Is(g, k)
    OBVIOUS
  <2> DEFINE h == [i \in 0..(k+1) |-> IF i = k + 1 THEN f[g[k]] ELSE g[i]]
  <2>2. Is(h, k + 1)
    <3> SUFFICES ASSUME NEW i \in 0..(k+1)
                 PROVE  h[i] = IF i = 0 THEN s ELSE f[h[i - 1]]
      OBVIOUS
    <3>1. \A j \in 0..k : g[j] = IF j = 0 THEN s ELSE f[g[j - 1]]
      BY <2>1
    <3>2. CASE i = k + 1
      <4>1. k \in 0..(k + 1) /\ k # k + 1 /\ i # 0 /\ i - 1 = k
        BY <3>2
      <4>2. h[k] = g[k] /\ h[i] = f[g[k]]
        BY <3>2, <4>1
      <4> QED BY <4>1, <4>2
    <3>3. CASE i = 0
      <4>1. h[0] = g[0] /\ g[0] = s
        BY <3>1
      <4> QED BY <3>3, <4>1
    <3>4. CASE i # 0 /\ i # k + 1
      <4>1. i \in 0..k /\ i - 1 \in 0..(k + 1) /\ i - 1 # k + 1
        BY <3>4
      <4>2. h[i] = g[i] /\ h[i - 1] = g[i - 1]
        BY <3>4, <4>1
      <4> QED BY <3>1, <3>4, <4>1, <4>2
    <3> QED BY <3>2, <3>3, <3>4
  <2> HIDE DEF h, Is
  <2> QED BY <2>2
<1>3. n \in T
  <2> HIDE DEF T
  <2> QED BY <1>1, <1>2, SetInduction DEF T
<1> QED BY <1>3 DEF AreSteps

LEMMA StepsGoOn ==
    ASSUME NEW n \in Nat, NEW m \in 0..n, NEW f, NEW s, NEW g, NEW h,
           AreSteps(g, n, f, s), AreSteps(h, m, f, s)
    PROVE  \A k \in 0..m : g[k] = h[k]
<1> DEFINE U == {k \in Nat : k <= m => g[k] = h[k]}
<1>1. 0 \in U
  <2>1. 0 \in 0..n /\ 0 \in 0..m
    OBVIOUS
  <2>2. g[0] = s
    BY <2>1 DEF AreSteps
  <2>3. h[0] = s
    BY <2>1 DEF AreSteps
  <2> QED BY <2>2, <2>3
<1>2. ASSUME NEW k \in U PROVE k + 1 \in U
  <2>1. CASE k + 1 <= m
    <3>1. /\ k + 1 \in 0..n /\ k + 1 \in 0..m /\ k + 1 # 0 /\ (k + 1) - 1 = k
          /\ g[k] = h[k]
      BY <2>1
    <3>2. g[k + 1] = f[g[(k + 1) - 1]]
      BY <3>1 DEF AreSteps
    <3>3. h[k + 1] = f[h[(k + 1) - 1]]
      BY <3>1 DEF AreSteps
    <3> QED BY <3>1, <3>2, <3>3
  <2>2. CASE ~(k + 1 <= m)
    BY <2>2
  <2> QED BY <2>1, <2>2
<1>3. U = Nat
  <2> HIDE DEF U
  <2> QED BY <1>1, <1>2, SetInduction DEF U
<1> QED BY <1>3

LEMMA IteratedIs ==
    ASSUME NEW n \in Nat, NEW m \in 0..n, NEW f, NEW s, NEW g, AreSteps(g, n, f, s)
    PROVE  Iterated(f, m, s) = g[m]
<1> DEFINE step == CHOOSE x : AreSteps(x, m, f, s)
<1>1. AreSteps(step, m, f, s)
  BY StepsExist
<1>2. Iterated(f, m, s) = step[m]
  BY DEF Iterated, AreSteps
<1> HIDE DEF step
<1>3. \A k \in 0..m : g[k] = step[k]
  BY <1>1, StepsGoOn
<1> QED BY <1>2, <1>3

(* Once more, at the end or at the beginning.                               *)
LEMMA IteratedNext ==
    ASSUME NEW f, NEW s
    PROVE  /\ Iterated(f, 0, s) = s
           /\ \A n \in Nat : Iterated(f, n + 1, s) = f[Iterated(f, n, s)]
<1>1. ASSUME NEW n \in Nat
      PROVE  Iterated(f, 0, s) = s /\ Iterated(f, n + 1, s) = f[Iterated(f, n, s)]
  <2>1. n + 1 \in Nat /\ {0, n, n + 1} \subseteq 0..(n + 1) /\ n + 1 # 0 /\ (n + 1) - 1 = n
    OBVIOUS
  <2>2. PICK g : AreSteps(g, n + 1, f, s)
    BY <2>1, StepsExist
  <2>3. g[0] = s
    BY <2>1, <2>2 DEF AreSteps
  <2>4. g[n + 1] = f[g[(n + 1) - 1]]
    BY <2>1, <2>2 DEF AreSteps
  <2>5. Iterated(f, 0, s) = g[0]
    BY <2>1, <2>2, IteratedIs
  <2>6. Iterated(f, n, s) = g[n]
    BY <2>1, <2>2, IteratedIs
  <2>7. Iterated(f, n + 1, s) = g[n + 1]
    BY <2>1, <2>2, IteratedIs
  <2> QED BY <2>1, <2>3, <2>4, <2>5, <2>6, <2>7
<1> QED BY <1>1

LEMMA IteratedFirst ==
    ASSUME NEW n \in Nat, NEW f, NEW s
    PROVE  Iterated(f, n + 1, s) = Iterated(f, n, f[s])
<1> DEFINE T == {k \in Nat : Iterated(f, k + 1, s) = Iterated(f, k, f[s])}
<1>1. 0 \in T
  <2>1. Iterated(f, 0 + 1, s) = f[Iterated(f, 0, s)]
    BY IteratedNext
  <2> QED BY <2>1, IteratedNext
<1>2. ASSUME NEW k \in T PROVE k + 1 \in T
  <2> k \in Nat /\ k + 1 \in Nat
    OBVIOUS
  <2>1. Iterated(f, (k + 1) + 1, s) = f[Iterated(f, k + 1, s)]
    BY IteratedNext
  <2>2. Iterated(f, k + 1, f[s]) = f[Iterated(f, k, f[s])]
    BY IteratedNext
  <2> QED BY <2>1, <2>2
<1>3. T = Nat
  <2> HIDE DEF T
  <2> QED BY <1>1, <1>2, SetInduction DEF T
<1> QED BY <1>3

(* f applied n times, from J[0], each time from one J to the next, ends in  *)
(* J[n].                                                                    *)
LEMMA IteratedThrough ==
    ASSUME NEW n \in Nat, NEW f, NEW J, NEW s \in J[0],
           \A i \in 0..(n - 1) : \A t \in J[i] : f[t] \in J[i + 1]
    PROVE  Iterated(f, n, s) \in J[n]
<1> DEFINE T == {k \in Nat : k <= n => Iterated(f, k, s) \in J[k]}
<1>1. 0 \in T
  BY IteratedNext
<1>2. ASSUME NEW k \in T PROVE k + 1 \in T
  <2> SUFFICES ASSUME k + 1 <= n PROVE Iterated(f, k + 1, s) \in J[k + 1]
    OBVIOUS
  <2>1. k \in 0..(n - 1) /\ Iterated(f, k, s) \in J[k]
    OBVIOUS
  <2>2. Iterated(f, k + 1, s) = f[Iterated(f, k, s)]
    BY IteratedNext
  <2> QED BY <2>1, <2>2
<1>3. T = Nat
  <2> HIDE DEF T
  <2> QED BY <1>1, <1>2, SetInduction DEF T
<1> QED BY <1>3

(* The case of one set that f does not leave. *)
LEMMA IteratedIn ==
    ASSUME NEW n \in Nat, NEW f, NEW I, NEW s \in I, \A t \in I : f[t] \in I
    PROVE  Iterated(f, n, s) \in I
<1> DEFINE J == [i \in Nat |-> I]
<1>1. s \in J[0]
  OBVIOUS
<1>2. \A i \in 0..(n - 1) : \A t \in J[i] : f[t] \in J[i + 1]
  OBVIOUS
<1>3. J[n] = I
  OBVIOUS
<1> HIDE DEF J
<1>4. Iterated(f, n, s) \in J[n]
  BY <1>1, <1>2, IteratedThrough
<1> QED BY <1>3, <1>4

=============================================================================

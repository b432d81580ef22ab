------------------------------ MODULE Iteration ------------------------------
(***************************************************************************)
(* Facts about repetition that the proofs about the model's folds rest on. *)
(* The library's induction theorems take an operator as a parameter; here  *)
(* a property of numbers is the set of the numbers that have it, and the   *)
(* step of a repetition is a function, so that the facts can be cited.     *)
(***************************************************************************)
EXTENDS Integers, Sequences, FiniteSetsExt, FiniteSetTheorems, TLAPS

(* A set of naturals that is not empty has a least element. *)
LEMMA LeastNat ==
  ASSUME NEW T \in SUBSET Nat, T # {}
  PROVE  \E m \in T : \A n \in T : m <= n
<1> DEFINE R == {ij \in Nat \X Nat : ij[1] < ij[2]}
<1>1. IsWellFoundedOn(R, Nat)
  BY NatLessThanWellFounded DEF OpToRel
<1> HIDE DEF R
<1>2. PICK m \in T : \A n \in T : ~ (<<n, m>> \in R)
  BY <1>1, WFMin, Zenon
<1>3. \A n \in T : ~ (n < m)
  <2> SUFFICES ASSUME NEW n \in T, n < m PROVE FALSE
    OBVIOUS
  <2>1. <<n, m>> \in R
    BY DEF R
  <2>2. QED
    BY <1>2, <2>1
<1>4. QED
  BY <1>3

(* Induction from 0 to n. *)
LEMMA IntervalInduction ==
  ASSUME NEW n \in Nat, NEW T, 0 \in T, \A k \in 0 .. n - 1 : k \in T => k + 1 \in T
  PROVE  0 .. n \subseteq T
<1> SUFFICES ASSUME NEW j \in 0 .. n, j \notin T PROVE FALSE
  OBVIOUS
<1> DEFINE U == {i \in 0 .. n : i \notin T}
<1>1. PICK m \in U : \A i \in U : m <= i
  <2>1. U \in SUBSET Nat /\ U # {}
    OBVIOUS
  <2> HIDE DEF U
  <2>2. QED
    BY <2>1, LeastNat
<1>2. m # 0 /\ m - 1 \in 0 .. n - 1 /\ m - 1 \notin U
  BY <1>1
<1>3. m - 1 \in T
  BY <1>2
<1>4. QED
  BY <1>1, <1>2, <1>3

(* A set of numbers from 1 to n that is not empty has a greatest one. *)
LEMMA GreatestNat ==
  ASSUME NEW n \in Nat, NEW T \in SUBSET (1 .. n), T # {}
  PROVE  \E m \in T : \A i \in T : i <= m
<1> DEFINE U == {n - i : i \in T}
<1>1. PICK u \in U : \A v \in U : u <= v
  <2>1. \A i \in T : i \in 1 .. n /\ n - i \in Nat
    OBVIOUS
  <2>2. U \in SUBSET Nat /\ U # {}
    BY <2>1
  <2> HIDE DEF U
  <2>3. QED
    BY <2>2, LeastNat
<1>2. PICK m \in T : u = n - m
  BY <1>1
<1>3. \A i \in T : n - i \in U
  OBVIOUS
<1>4. \A i \in T : n - m <= n - i
  BY <1>1, <1>2, <1>3
<1>5. \A i \in T : i <= m
  BY <1>4
<1>6. QED
  BY <1>5

IsGreatest(m, T) == m \in T /\ \A i \in T : i <= m

(* What the folds of the community modules choose from a set of numbers.   *)
LEMMA MaxIsGreatest ==
  ASSUME NEW n \in Nat, NEW T \in SUBSET (1 .. n), T # {}
  PROVE  IsGreatest(Max(T), T)
<1>1. \E m \in T : \A i \in T : m >= i
  BY GreatestNat
<1>2. Max(T) \in T /\ \A i \in T : Max(T) >= i
  BY <1>1 DEF Max
<1>3. QED
  BY <1>2 DEF IsGreatest

LEMMA MaxOfInterval ==
  ASSUME NEW k \in Nat \ {0}
  PROVE  Max(1 .. k) = k /\ (1 .. k) \ {k} = 1 .. k - 1
<1>1. k \in Nat /\ 1 .. k \in SUBSET (1 .. k) /\ 1 .. k # {} /\ k \in 1 .. k
  OBVIOUS
<1>2. IsGreatest(Max(1 .. k), 1 .. k)
  BY <1>1, MaxIsGreatest
<1>3. Max(1 .. k) \in 1 .. k /\ k <= Max(1 .. k)
  BY <1>1, <1>2 DEF IsGreatest
<1>4. QED
  BY <1>3

(* g is what the fold of a step over sets of numbers computes, when it     *)
(* takes the greatest number of a set last.                                *)
Iterates(g, n, V, base, step) ==
  /\ g \in [SUBSET (1 .. n) -> V] /\ g[{}] = base
  /\ \A t \in SUBSET (1 .. n) : \A m \in t :
       IsGreatest(m, t) => g[t] = step[<<g[t \ {m}], m>>]

(* Such a g exists. *)
LEMMA IterateExists ==
  ASSUME NEW n \in Nat, NEW V, NEW base \in V, NEW step \in [V \X (1 .. n) -> V]
  PROVE  \E g : Iterates(g, n, V, base, step)
<1> DEFINE T == {k \in 0 .. n : \E g : Iterates(g, k, V, base, step)}
<1>1. 0 \in T
  <2>1. Iterates([t \in SUBSET (1 .. 0) |-> base], 0, V, base, step)
    BY DEF Iterates
  <2>2. QED
    BY <2>1
<1>2. ASSUME NEW k \in 0 .. n - 1, k \in T PROVE k + 1 \in T
  <2>1. PICK g : Iterates(g, k, V, base, step)
    BY <1>2
  <2> DEFINE h == [t \in SUBSET (1 .. k + 1) |->
                     IF k + 1 \in t THEN step[<<g[t \ {k + 1}], k + 1>>] ELSE g[t]]
  <2>2. \A t \in SUBSET (1 .. k + 1) :
          /\ t \ {k + 1} \in SUBSET (1 .. k)
          /\ k + 1 \notin t => t \in SUBSET (1 .. k)
    OBVIOUS
  <2>3. h \in [SUBSET (1 .. k + 1) -> V]
    <3> SUFFICES ASSUME NEW t \in SUBSET (1 .. k + 1) PROVE h[t] \in V
      OBVIOUS
    <3>1. g[t \ {k + 1}] \in V /\ (k + 1 \notin t => g[t] \in V)
      BY <2>1, <2>2 DEF Iterates
    <3>2. QED
      BY <3>1
  <2>4. h[{}] = base
    BY <2>1 DEF Iterates
  <2>5. ASSUME NEW t \in SUBSET (1 .. k + 1), NEW m \in t, IsGreatest(m, t)
        PROVE  h[t] = step[<<h[t \ {m}], m>>]
    <3>1. CASE k + 1 \in t
      <4>1. m = k + 1
        BY <2>5, <3>1 DEF IsGreatest
      <4>2. h[t \ {m}] = g[t \ {m}]
        BY <4>1
      <4>3. QED
        BY <3>1, <4>1, <4>2
    <3>2. CASE k + 1 \notin t
      <4>1. t \in SUBSET (1 .. k) /\ k + 1 \notin t \ {m}
        BY <2>2, <3>2
      <4>2. h[t] = g[t] /\ h[t \ {m}] = g[t \ {m}]
        BY <3>2, <4>1
      <4>3. g[t] = step[<<g[t \ {m}], m>>]
        BY <2>1, <2>5, <4>1 DEF Iterates
      <4>4. QED
        BY <4>2, <4>3
    <3>3. QED
      BY <3>1, <3>2
  <2> HIDE DEF h
  <2>6. Iterates(h, k + 1, V, base, step)
    BY <2>3, <2>4, <2>5 DEF Iterates
  <2>7. QED
    BY <2>6
<1> HIDE DEF T
<1>3. 0 .. n \subseteq T
  BY <1>1, <1>2, IntervalInduction
<1>4. QED
  BY <1>3 DEF T

(* f satisfies the equation of the fold where its values are in V.         *)
Folds(f, n, V, base, step) ==
  /\ f[{}] = base
  /\ \A t \in SUBSET (1 .. n) : t # {} /\ f[t \ {Max(t)}] \in V =>
        f[t] = step[<<f[t \ {Max(t)}], Max(t)>>]

(* r holds the values of a repetition, from base to last: r[k] after k     *)
(* steps.                                                                  *)
IsTrace(r, n, V, base, step, last) ==
  /\ r \in [0 .. n -> V] /\ r[0] = base /\ r[n] = last
  /\ \A k \in 1 .. n : r[k] = step[<<r[k - 1], k>>]

(* A fold goes step by step from its base to its result.                   *)
LEMMA FoldTrace ==
  ASSUME NEW n \in Nat, NEW V, NEW base \in V, NEW step \in [V \X (1 .. n) -> V],
         NEW f, Folds(f, n, V, base, step)
  PROVE  \E r : IsTrace(r, n, V, base, step, f[1 .. n])
<1> DEFINE T == {k \in 0 .. n : f[1 .. k] \in V}
<1>1. ASSUME NEW k \in 1 .. n, f[1 .. k - 1] \in V
      PROVE  f[1 .. k] = step[<<f[1 .. k - 1], k>>] /\ f[1 .. k] \in V
  <2>1. Max(1 .. k) = k /\ (1 .. k) \ {k} = 1 .. k - 1
    BY MaxOfInterval
  <2>2. 1 .. k \in SUBSET (1 .. n) /\ 1 .. k # {}
    OBVIOUS
  <2>3. f[1 .. k] = step[<<f[1 .. k - 1], k>>]
    BY <1>1, <2>1, <2>2 DEF Folds
  <2>4. QED
    BY <1>1, <2>3
<1>2. 1 .. 0 = {} /\ f[1 .. 0] = base
  BY DEF Folds
<1>3. 0 \in T /\ \A k \in 0 .. n - 1 : k \in T => k + 1 \in T
  <2>1. 0 \in T
    BY <1>2
  <2>2. ASSUME NEW k \in 0 .. n - 1, k \in T PROVE k + 1 \in T
    <3>1. PICK j \in 1 .. n : j = k + 1 /\ j - 1 = k
      OBVIOUS
    <3>2. f[1 .. j] \in V
      BY <1>1, <2>2, <3>1
    <3>3. QED
      BY <3>1, <3>2
  <2>3. QED
    BY <2>1, <2>2
<1> HIDE DEF T
<1>4. \A k \in 0 .. n : f[1 .. k] \in V
  <2>1. 0 .. n \subseteq T
    BY <1>3, IntervalInduction
  <2>2. QED
    BY <2>1 DEF T
<1>5. [k \in 0 .. n |-> f[1 .. k]] \in [0 .. n -> V]
  BY <1>4
<1>6. \A k \in 1 .. n : f[1 .. k] = step[<<f[1 .. k - 1], k>>] /\ k - 1 \in 0 .. n
  BY <1>1, <1>4
<1>7. IsTrace([k \in 0 .. n |-> f[1 .. k]], n, V, base, step, f[1 .. n])
  BY <1>2, <1>5, <1>6 DEF IsTrace
<1>8. QED
  BY <1>7

(* The prefixes of a sequence, and how the next one begins.                *)
LEMMA PrefixSteps ==
  ASSUME NEW S, NEW s \in Seq(S)
  PROVE  /\ SubSeq(s, 1, 0) = <<>> /\ SubSeq(s, 1, Len(s)) = s
         /\ \A k \in 0 .. Len(s) : SubSeq(s, 1, k) \in Seq(S) /\ Len(SubSeq(s, 1, k)) = k
         /\ \A k \in 1 .. Len(s) :
              /\ SubSeq(s, 1, k) = Append(SubSeq(s, 1, k - 1), s[k])
              /\ SubSeq(s, 1, k - 1) \in Seq(S) /\ s[k] \in S
<1>1. SubSeq(s, 1, 0) = <<>> /\ SubSeq(s, 1, Len(s)) = s
  OBVIOUS
<1>2. ASSUME NEW k \in 0 .. Len(s)
      PROVE  SubSeq(s, 1, k) \in Seq(S) /\ Len(SubSeq(s, 1, k)) = k
  OBVIOUS
<1>3. ASSUME NEW k \in 1 .. Len(s)
      PROVE  SubSeq(s, 1, k) = Append(SubSeq(s, 1, k - 1), s[k])
  OBVIOUS
<1>4. \A k \in 1 .. Len(s) : k - 1 \in 0 .. Len(s) /\ s[k] \in S
  OBVIOUS
<1>5. QED
  BY <1>1, <1>2, <1>3, <1>4
=============================================================================

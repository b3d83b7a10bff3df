-------------------------- MODULE RecursionProofs ---------------------------
(***************************************************************************)
(* Induction over a set of naturals, and the functions that recursive      *)
(* definitions define: the induction theorems of the library take an       *)
(* operator as a parameter, these take sets and functions.                 *)
(***************************************************************************)
EXTENDS SequencesExt, WellFoundedInduction, TLAPS

\* Induction over the numbers up to n, for sets.
LEMMA InductionOnNat ==
    ASSUME NEW S \in SUBSET Nat, 0 \in S, \A n \in S : n + 1 \in S
    PROVE  S = Nat
  <1> DEFINE T == Nat \ S
             R == OpToRel(<, Nat)
  <1>1. SUFFICES ASSUME T # {} PROVE FALSE
    OBVIOUS
  <1>2. IsWellFoundedOn(R, Nat)
    BY NatLessThanWellFounded
  <1>3. \A x, y \in Nat : y < x => <<y, x>> \in R
    BY DEF OpToRel
  <1> HIDE DEF R
  <1>4. PICK x \in T : \A y \in T : ~(<<y, x>> \in R)
    BY <1>1, <1>2, WFMin
  <1>5. x # 0 /\ x \in Nat /\ x \notin S
    OBVIOUS
  <1>6. x - 1 \in Nat /\ x - 1 < x /\ (x - 1) + 1 = x
    BY <1>5
  <1>7. x - 1 \in S
    BY <1>3, <1>4, <1>5, <1>6
  <1> QED  BY <1>5, <1>6, <1>7

\* A function on 0..n that starts at a and goes on as F says.
Recursion(V, n, a, F) ==
    \E f \in [0..n -> V] :
      f[0] = a /\ \A i \in 1..n : f[i] = F[<<f[i - 1], i>>]

\* A function given by its start and its step exists on 0..n.
LEMMA RecursionExists ==
    ASSUME NEW V, NEW n \in Nat, NEW a \in V, NEW F \in [V \X (1..n) -> V]
    PROVE  Recursion(V, n, a, F)
  <1> DEFINE Upto(f, k) == f[0] = a /\ \A i \in 1..k : f[i] = F[<<f[i - 1], i>>]
             S == {k \in Nat : k <= n => \E f \in [0..k -> V] : Upto(f, k)}
  <1>1. 0 \in S
    <2> DEFINE f == [i \in 0..0 |-> a]
    <2>1. f \in [0..0 -> V] /\ Upto(f, 0)
      OBVIOUS
    <2> QED  BY <2>1
  <1>2. ASSUME NEW k \in S, k + 1 <= n
        PROVE  \E f \in [0..(k + 1) -> V] : Upto(f, k + 1)
    <2>1. k \in Nat /\ k <= n
      BY <1>2
    <2>2. PICK f \in [0..k -> V] : Upto(f, k)
      BY <2>1
    <2> DEFINE g == [i \in 0..(k + 1) |-> IF i <= k THEN f[i] ELSE F[<<f[k], k + 1>>]]
    <2>3. f[k] \in V /\ F[<<f[k], k + 1>>] \in V
      BY <2>1, <2>2, <1>2
    <2>4. g \in [0..(k + 1) -> V]
      BY <2>1, <2>2, <2>3
    <2>5. g[k + 1] = F[<<f[k], k + 1>>] /\ \A i \in 0..k : g[i] = f[i]
      BY <2>1
    <2> HIDE DEF g
    <2>6. ASSUME NEW i \in 1..(k + 1) PROVE g[i] = F[<<g[i - 1], i>>]
      <3>1. CASE i \in 1..k
        <4>1. i \in 0..k /\ i - 1 \in 0..k
          BY <3>1, <2>1
        <4>2. f[i] = F[<<f[i - 1], i>>]
          BY <3>1, <2>2
        <4> QED  BY <4>1, <4>2, <2>5
      <3>2. CASE i = k + 1
        <4>1. i - 1 = k /\ k \in 0..k
          BY <3>2, <2>1
        <4> QED  BY <4>1, <3>2, <2>5
      <3> QED  BY <3>1, <3>2, <2>1
    <2>7. g[0] = a
      BY <2>1, <2>2, <2>5
    <2> QED  BY <2>4, <2>6, <2>7
  <1>3. \A k \in S : k + 1 \in S
    BY <1>2
  <1> HIDE DEF S
  <1>4. S = Nat
    <2>1. S \in SUBSET Nat
      BY DEF S
    <2> QED  BY <2>1, <1>1, <1>3, InductionOnNat
  <1>5. n \in S
    BY <1>4
  <1>6. \E f \in [0..n -> V] : Upto(f, n)
    BY <1>5 DEF S
  <1> QED  BY <1>6 DEF Recursion

-----------------------------------------------------------------------------
(* Lists joined into one.                                                  *)

\* The lists a flattened list goes through, one per list joined.
LEMMA FlattenSteps ==
    ASSUME NEW T, NEW s \in Seq(Seq(T)), Len(s) > 0
    PROVE  \E f \in [1..Len(s) -> Seq(T)] :
             /\ f[1] = s[1] /\ FlattenSeq(s) = f[Len(s)]
             /\ \A i \in 2..Len(s) : f[i] = f[i - 1] \o s[i]
  <1> DEFINE V == Seq(T)
             n == Len(s)
             Is(f) == f = [i \in 1..n |-> IF i = 1 THEN s[i] ELSE f[i - 1] \o s[i]]
             f0 == CHOOSE f : Is(f)
             F == [x \in V \X (1..(n - 1)) |-> x[1] \o s[x[2] + 1]]
  <1>1. n \in Nat /\ n - 1 \in Nat /\ \A i \in 1..n : s[i] \in V
    OBVIOUS
  <1>2. F \in [V \X (1..(n - 1)) -> V]
    <2> SUFFICES ASSUME NEW x \in V, NEW i \in 1..(n - 1) PROVE x \o s[i + 1] \in V
      OBVIOUS
    <2>1. s[i + 1] \in V
      BY <1>1
    <2> QED  BY <2>1
  <1>3. PICK g \in [0..(n - 1) -> V] :
          g[0] = s[1] /\ \A i \in 1..(n - 1) : g[i] = F[<<g[i - 1], i>>]
    <2> DEFINE a == s[1]
               m == n - 1
    <2>1. a \in V /\ m \in Nat
      BY <1>1
    <2>2. F \in [V \X (1..m) -> V]
      BY <1>2
    <2> HIDE DEF F, V, a, m
    <2>3. Recursion(V, m, a, F)
      BY <2>1, <2>2, RecursionExists
    <2> QED  BY <2>3 DEF Recursion, a, m
  <1>4. \A i \in 1..(n - 1) : g[i] = g[i - 1] \o s[i + 1]
    <2> SUFFICES ASSUME NEW i \in 1..(n - 1) PROVE g[i] = g[i - 1] \o s[i + 1]
      OBVIOUS
    <2>1. i - 1 \in 0..(n - 1)
      BY <1>1
    <2>2. g[i - 1] \in V
      <3> HIDE DEF V, n
      <3> QED  BY <2>1, <1>3
    <2> DEFINE y == <<g[i - 1], i>>
    <2>3. y \in V \X (1..(n - 1)) /\ y[1] = g[i - 1] /\ y[2] = i
      BY <2>2
    <2> HIDE DEF V, n, y
    <2>4. F[y] = y[1] \o s[y[2] + 1]
      BY <2>3
    <2>5. F[<<g[i - 1], i>>] = g[i - 1] \o s[i + 1]
      BY <2>3, <2>4 DEF y
    <2> QED  BY <1>3, <2>5
  <1> DEFINE h == [i \in 1..n |-> g[i - 1]]
  <1>5. h \in [1..n -> V] /\ h[1] = s[1] /\ \A i \in 2..n : h[i] = h[i - 1] \o s[i]
    <2> HIDE DEF V, F
    <2>1. \A i \in 1..n : i - 1 \in 0..(n - 1)
      BY <1>1
    <2>2. h \in [1..n -> V] /\ 1 \in 1..n /\ h[1] = s[1]
      BY <1>1, <1>3, <2>1
    <2>3. ASSUME NEW i \in 2..n PROVE h[i] = h[i - 1] \o s[i]
      <3>1. /\ i \in 1..n /\ i - 1 \in 1..n /\ i - 1 \in 1..(n - 1)
            /\ (i - 1) + 1 = i
        BY <1>1
      <3>2. g[i - 1] = g[(i - 1) - 1] \o s[(i - 1) + 1]
        BY <3>1, <1>4
      <3> QED  BY <3>1, <3>2
    <2> QED  BY <2>2, <2>3
  <1> HIDE DEF h
  <1>6. Is(h)
    <2> HIDE DEF V, F
    <2>1. \A i \in 1..n : i = 1 \/ i \in 2..n
      BY <1>1
    <2> QED  BY <1>5, <2>1
  <1>7. Is(f0)
    <2> HIDE DEF Is
    <2> QED  BY <1>6
  <1>8. FlattenSeq(s) = f0[n]
    BY <1>1 DEF FlattenSeq
  <1>9. f0 = h
    <2> DEFINE S == {i \in Nat : i + 1 <= n => f0[i + 1] = h[i + 1]}
    <2> HIDE DEF f0, V, F
    <2>1. 0 \in S
      BY <1>1, <1>5, <1>7
    <2>2. ASSUME NEW i \in S PROVE i + 1 \in S
      <3>1. SUFFICES ASSUME (i + 1) + 1 <= n PROVE f0[(i + 1) + 1] = h[(i + 1) + 1]
        OBVIOUS
      <3>2. /\ i \in Nat /\ (i + 1) + 1 \in 2..n /\ (i + 1) + 1 \in 1..n
            /\ ((i + 1) + 1) - 1 = i + 1 /\ f0[i + 1] = h[i + 1] /\ (i + 1) + 1 # 1
        BY <3>1, <2>2, <1>1
      <3> DEFINE k == (i + 1) + 1
      <3>3. f0[k] = f0[k - 1] \o s[k]
        BY <3>2, <1>7
      <3>4. h[k] = h[k - 1] \o s[k]
        BY <3>2, <1>5
      <3> QED  BY <3>2, <3>3, <3>4
    <2>3. S = Nat
      <3>1. S \in SUBSET Nat
        OBVIOUS
      <3> HIDE DEF S
      <3> QED  BY <3>1, <2>1, <2>2, InductionOnNat
    <2>4. ASSUME NEW i \in 1..n PROVE f0[i] = h[i]
      <3>1. i - 1 \in Nat /\ (i - 1) + 1 = i /\ i <= n
        BY <1>1
      <3>2. i - 1 \in S
        BY <3>1, <2>3
      <3> QED  BY <3>1, <3>2
    <2>5. f0 = [i \in 1..n |-> f0[i]] /\ h = [i \in 1..n |-> h[i]]
      BY <1>5, <1>7
    <2> QED  BY <2>4, <2>5
  <1> QED  BY <1>1, <1>5, <1>8, <1>9

\* An element of lists that hold at most one stands where it stood before, and
\* each list gives at most one: `at` names them, in the order they come.
Placed(s, i, list) ==
    \E at \in [1..Len(list) -> 1..i] :
      /\ \A k, m \in 1..Len(list) : at[k] = at[m] => k = m
      /\ \A k \in 1..Len(list) : s[at[k]] = <<list[k]>>

\* A list of one element, and a list with one more.
LEMMA OneElement ==
    ASSUME NEW T, NEW e \in Seq(T), Len(e) <= 1, e # <<>>
    PROVE  Len(e) = 1 /\ e = <<e[1]>> /\ e[1] \in T
  <1>1. Len(e) \in Nat /\ (Len(e) = 0 => e = <<>>)
    OBVIOUS
  <1>2. Len(e) = 1
    BY <1>1
  <1> QED  BY <1>2

LEMMA OneMore ==
    ASSUME NEW T, NEW list \in Seq(T), NEW x \in T
    PROVE  /\ Len(list \o <<x>>) = Len(list) + 1
           /\ (list \o <<x>>)[Len(list) + 1] = x
           /\ \A k \in 1..Len(list) : (list \o <<x>>)[k] = list[k]
  OBVIOUS

\* One more list joined to a placed one.
LEMMA PlacedStep ==
    ASSUME NEW T, NEW s \in Seq(Seq(T)), NEW i \in 1..Len(s), NEW list \in Seq(T),
           Len(s[i]) <= 1, Placed(s, i - 1, list)
    PROVE  Placed(s, i, list \o s[i])
  <1> DEFINE n == Len(list)
             new == list \o s[i]
  <1>0. /\ s[i] \in Seq(T) /\ n \in Nat /\ i \in Nat /\ i - 1 \in Nat
        /\ new \in Seq(T) /\ Len(s[i]) \in Nat
    OBVIOUS
  <1>1. PICK at \in [1..n -> 1..(i - 1)] :
          /\ \A k, m \in 1..n : at[k] = at[m] => k = m
          /\ \A k \in 1..n : s[at[k]] = <<list[k]>>
    BY DEF Placed
  <1>2. \A k \in 1..n : at[k] \in 1..i /\ at[k] # i
    <2> SUFFICES ASSUME NEW k \in 1..n PROVE at[k] \in 1..i /\ at[k] # i
      OBVIOUS
    <2>1. at[k] \in 1..(i - 1)
      OBVIOUS
    <2> QED  BY <2>1, <1>0
  <1>3. CASE s[i] = <<>>
    <2>1. new = list
      BY <1>0, <1>3
    <2>2. at \in [1..n -> 1..i]
      BY <1>2
    <2> QED  BY <1>1, <2>1, <2>2 DEF Placed
  <1>4. CASE s[i] # <<>>
    <2>1. s[i] = <<s[i][1]>> /\ s[i][1] \in T
      BY <1>0, <1>4, OneElement
    <2>2. /\ Len(new) = n + 1 /\ new[n + 1] = s[i][1]
          /\ \A k \in 1..n : new[k] = list[k]
      <3> DEFINE x == s[i][1]
      <3>1. x \in T /\ new = list \o <<x>>
        BY <2>1
      <3> HIDE DEF x, new
      <3> QED  BY <3>1, OneMore DEF x
    <2> DEFINE here == [k \in 1..(n + 1) |-> IF k \in 1..n THEN at[k] ELSE i]
    <2>3. /\ here \in [1..(n + 1) -> 1..i] /\ here[n + 1] = i
          /\ \A k \in 1..n : here[k] = at[k]
      BY <1>0, <1>2
    <2>4. \A k \in 1..(n + 1) : k \in 1..n \/ k = n + 1
      BY <1>0
    <2> HIDE DEF here, new, n
    <2>5. \A k, m \in 1..(n + 1) : here[k] = here[m] => k = m
      BY <1>1, <1>2, <2>3, <2>4
    <2>6. \A k \in 1..(n + 1) : s[here[k]] = <<new[k]>>
      BY <1>1, <2>1, <2>2, <2>3, <2>4
    <2>7. Placed(s, i, new)
      <3>1. here \in [1..Len(new) -> 1..i]
        BY <2>2, <2>3
      <3>2. \A k, m \in 1..Len(new) : here[k] = here[m] => k = m
        BY <2>2, <2>5
      <3>3. \A k \in 1..Len(new) : s[here[k]] = <<new[k]>>
        BY <2>2, <2>6
      <3> QED  BY <3>1, <3>2, <3>3 DEF Placed
    <2> QED  BY <2>7 DEF new
  <1> QED  BY <1>3, <1>4

\* What a flattened list is made of: its type, and where it takes its elements
\* from if each list has at most one.
LEMMA Flattened ==
    ASSUME NEW T, NEW s \in Seq(Seq(T))
    PROVE  /\ FlattenSeq(s) \in Seq(T)
           /\ (\A i \in 1..Len(s) : Len(s[i]) <= 1) => Placed(s, Len(s), FlattenSeq(s))
  <1> DEFINE n == Len(s)
             Small == \A i \in 1..n : Len(s[i]) <= 1
  <1>0. n \in Nat /\ \A i \in 1..n : s[i] \in Seq(T)
    OBVIOUS
  <1>1. CASE n = 0
    <2>1. FlattenSeq(s) = <<>>
      BY <1>1 DEF FlattenSeq
    <2>2. Placed(s, n, <<>>)
      <3> DEFINE at == [k \in 1..0 |-> k]
      <3>1. Len(<<>>) = 0 /\ 1..0 = {} /\ at \in [1..0 -> 1..n]
        OBVIOUS
      <3> HIDE DEF at
      <3> QED  BY <3>1 DEF Placed
    <2> QED  BY <2>1, <2>2
  <1>2. CASE n > 0
    <2>1. PICK f \in [1..n -> Seq(T)] :
            /\ f[1] = s[1] /\ FlattenSeq(s) = f[n]
            /\ \A i \in 2..n : f[i] = f[i - 1] \o s[i]
      BY <1>2, FlattenSteps
    <2>2. n \in 1..n /\ 1 \in 1..n
      BY <1>0, <1>2
    <2>3. SUFFICES ASSUME Small PROVE Placed(s, n, f[n])
      BY <2>1, <2>2
    <2> DEFINE S == {i \in Nat : i + 1 <= n => Placed(s, i + 1, f[i + 1])}
    <2>4. 0 \in S
      <3>1. Placed(s, 0, <<>>)
        <4> DEFINE at == [k \in 1..0 |-> k]
        <4>1. Len(<<>>) = 0 /\ 1..0 = {} /\ at \in [1..0 -> 1..0]
          OBVIOUS
        <4> HIDE DEF at
        <4> QED  BY <4>1 DEF Placed
      <3>2. <<>> \in Seq(T) /\ 1 - 1 = 0 /\ <<>> \o s[1] = s[1] /\ Len(s[1]) <= 1
        BY <1>0, <2>2, <2>3
      <3>3. Placed(s, 1 - 1, <<>>)
        BY <3>1, <3>2
      <3>4. Placed(s, 1, <<>> \o s[1])
        <4> HIDE DEF n
        <4> QED  BY <3>2, <3>3, <2>2, PlacedStep DEF n
      <3> QED  BY <3>2, <3>4, <2>1
    <2>5. ASSUME NEW i \in S PROVE i + 1 \in S
      <3>1. SUFFICES ASSUME (i + 1) + 1 <= n PROVE Placed(s, (i + 1) + 1, f[(i + 1) + 1])
        OBVIOUS
      <3> DEFINE k == (i + 1) + 1
      <3>2. /\ i \in Nat /\ k \in 1..n /\ k \in 2..n /\ k - 1 = i + 1
            /\ i + 1 <= n /\ k - 1 \in 1..n
        BY <3>1, <2>5, <1>0
      <3>3. Placed(s, k - 1, f[k - 1])
        BY <3>2, <2>5
      <3>4. f[k] = f[k - 1] \o s[k] /\ f[k - 1] \in Seq(T) /\ Len(s[k]) <= 1
        BY <3>2, <2>1, <2>3
      <3> HIDE DEF k, S
      <3>5. Placed(s, k, f[k - 1] \o s[k])
        BY <3>2, <3>3, <3>4, PlacedStep
      <3> QED  BY <3>4, <3>5 DEF k
    <2>6. S = Nat
      <3>1. S \in SUBSET Nat
        OBVIOUS
      <3> HIDE DEF S
      <3> QED  BY <3>1, <2>4, <2>5, InductionOnNat
    <2>7. n - 1 \in S /\ (n - 1) + 1 = n /\ n <= n
      <3>1. n - 1 \in Nat /\ (n - 1) + 1 = n /\ n <= n
        BY <1>0, <1>2
      <3> HIDE DEF S
      <3> QED  BY <2>6, <3>1
    <2>8. Placed(s, n, f[n])
      BY <2>7
    <2> QED  BY <2>8
  <1> QED  BY <1>0, <1>1, <1>2
=============================================================================

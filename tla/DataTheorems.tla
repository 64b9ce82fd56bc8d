---------------------------- MODULE DataTheorems ----------------------------
(* Facts about numbers, sequences and sums that the proofs of several       *)
(* components need.  They speak of no component.                            *)
EXTENDS Integers, Sequences, FiniteSets, Functions,
        SequenceTheorems, FiniteSetTheorems, FunctionTheorems, WellFoundedInduction, TLAPS

-----------------------------------------------------------------------------
(* Numbers. *)

LEMMA LeastExists ==
    ASSUME NEW S \in SUBSET Nat, S # {}
    PROVE  \E m \in S : \A n \in S : m <= n
<1> DEFINE Below == {p \in Nat \X Nat : p[1] < p[2]}
<1>1. IsWellFoundedOn(Below, Nat)
  BY NatLessThanWellFounded DEF OpToRel
<1> HIDE DEF Below
<1>2. \E m \in S : \A n \in S : <<n, m>> \notin Below
  BY <1>1, WFMin
<1>3. \A m, n \in S : <<n, m>> \notin Below => m <= n
  BY DEF Below
<1> QED
  BY <1>2, <1>3

LEMMA GreatestExists ==
    ASSUME NEW n \in Nat, NEW S \in SUBSET (0 .. n), S # {}
    PROVE  \E m \in S : \A x \in S : x <= m
<1> DEFINE Below == {n - x : x \in S}
<1>1. Below \in SUBSET Nat /\ Below # {}
  <2>1. \A x \in S : n - x \in Nat
    OBVIOUS
  <2>2. PICK x \in S : TRUE
    OBVIOUS
  <2>3. n - x \in Below
    BY <2>2
  <2> QED
    BY <2>1, <2>3
<1>2. PICK b \in Below : \A c \in Below : b <= c
  BY <1>1, LeastExists
<1>3. PICK m \in S : b = n - m
  OBVIOUS
<1>4. \A x \in S : n - m <= n - x
  BY <1>2, <1>3
<1> QED
  BY <1>4

\* Induction: a set that holds 0, and with a number the next one.
LEMMA HoldsUpTo ==
    ASSUME NEW n \in Nat, NEW S, 0 \in S, \A k \in 1 .. n : k - 1 \in S => k \in S
    PROVE  \A k \in 0 .. n : k \in S
<1> DEFINE Missed == {k \in 0 .. n : k \notin S}
<1> SUFFICES ASSUME Missed # {} PROVE FALSE
  OBVIOUS
<1>0. Missed \in SUBSET Nat /\ Missed # {}
  OBVIOUS
<1> HIDE DEF Missed
<1>1. PICK m \in Missed : \A k \in Missed : m <= k
  BY <1>0, LeastExists
<1> USE DEF Missed
<1>2. m \in 1 .. n /\ m - 1 \in 0 .. n
  OBVIOUS
<1>3. m - 1 \in S
  BY <1>1, <1>2
<1> QED
  BY <1>1, <1>2, <1>3

\* A function that is defined by recursion on 0 .. n exists.
StaysIn(step, n, D) == \A k \in 1 .. n, d \in D : step[<<k, d>>] \in D
RunsFrom(g, n, D, start, step) ==
    g \in [0 .. n -> D] /\ g[0] = start /\ \A k \in 1 .. n : g[k] = step[<<k, g[k - 1]>>]

LEMMA RecursionExists ==
    ASSUME NEW n \in Nat, NEW D, NEW start \in D, NEW step, StaysIn(step, n, D)
    PROVE  \E g : RunsFrom(g, n, D, start, step)
<1> USE DEF StaysIn, RunsFrom
<1> DEFINE Fits(g, m) == /\ g \in [0 .. m -> D] /\ g[0] = start
                         /\ \A k \in 1 .. m : g[k] = step[<<k, g[k - 1]>>]
           Possible == {m \in 0 .. n : \E g : Fits(g, m)}
<1>1. 0 \in Possible
  <2> DEFINE g == [i \in 0 .. 0 |-> start]
  <2>1. g \in [0 .. 0 -> D] /\ g[0] = start /\ 1 .. 0 = {}
    OBVIOUS
  <2>2. Fits(g, 0)
    <3> HIDE DEF g
    <3> QED
      BY <2>1
  <2> HIDE DEF Fits, g
  <2> QED
    BY <2>2
<1>2. ASSUME NEW m \in 1 .. n, m - 1 \in Possible
      PROVE  m \in Possible
  <2>1. PICK g : Fits(g, m - 1)
    BY <1>2
  <2> DEFINE v == step[<<m, g[m - 1]>>]
             h == [i \in 0 .. m |-> IF i = m THEN v ELSE g[i]]
  <2>2. m - 1 \in 0 .. m - 1 /\ g[m - 1] \in D
    BY <2>1
  <2>3. v \in D
    BY <2>2
  <2>4. \A i \in 0 .. m : i # m => i \in 0 .. m - 1
    OBVIOUS
  <2> HIDE DEF v
  <2>5. h \in [0 .. m -> D] /\ h[0] = start
    BY <2>1, <2>3, <2>4
  <2>6. ASSUME NEW k \in 1 .. m PROVE h[k] = step[<<k, h[k - 1]>>]
    <3>1. k - 1 \in 0 .. m /\ k - 1 # m /\ k \in 0 .. m
      OBVIOUS
    <3>2. h[k - 1] = g[k - 1]
      BY <3>1
    <3>3. CASE k = m
      BY <3>1, <3>2, <3>3 DEF v
    <3>4. CASE k # m
      <4>1. k \in 1 .. m - 1 /\ h[k] = g[k]
        BY <3>1, <3>4
      <4> QED
        BY <2>1, <3>2, <4>1
    <3> QED
      BY <3>3, <3>4
  <2>7. Fits(h, m)
    BY <2>5, <2>6
  <2> HIDE DEF Fits, h
  <2> QED
    BY <2>7
<1> HIDE DEF Possible
<1>3. n \in Possible
  <2>1. \A k \in 0 .. n : k \in Possible
    BY <1>1, <1>2, HoldsUpTo
  <2> QED
    BY <2>1
<1> QED
  BY <1>3 DEF Possible

LEMMA NaturalIndices ==
    ASSUME NEW n \in Nat
    PROVE  IsFiniteSet(1 .. n) /\ Cardinality(1 .. n) = n
BY FS_Interval

-----------------------------------------------------------------------------
(* The operations on the ends of a queue. *)

LEMMA Appended ==
    ASSUME NEW S, NEW q \in Seq(S), NEW v \in S
    PROVE  /\ Append(q, v) \in Seq(S)
           /\ Len(q) \in Nat /\ Len(Append(q, v)) = Len(q) + 1
           /\ \A i \in 1 .. Len(q) : Append(q, v)[i] = q[i]
           /\ Append(q, v)[Len(q) + 1] = v
BY AppendProperties, LenProperties

LEMMA Popped ==
    ASSUME NEW S, NEW q \in Seq(S), q # << >>
    PROVE  /\ Len(q) \in Nat \ {0}
           /\ Head(q) = q[1] /\ Head(q) \in S
           /\ Tail(q) \in Seq(S)
           /\ Len(Tail(q)) = Len(q) - 1
           /\ \A i \in 1 .. Len(Tail(q)) : Tail(q)[i] = q[i + 1]
BY HeadTailProperties, EmptySeq, LenProperties

-----------------------------------------------------------------------------
(* Sums.  SumFunction is a fold: a recursive function on the subsets of the *)
(* domain that takes a chosen element out.  The lemmas say what it computes *)
(* for a finite domain; where one would use an induction, they take the     *)
(* least cardinality of a counterexample.                                   *)

Picked(s) == CHOOSE x \in s : TRUE
SumStep(f, g, s) == IF s = {} THEN 0 ELSE f[Picked(s)] + g[s \ {Picked(s)}]

\* g sums f over the subsets of S.
SumsUp(f, g, S) == g = [s \in SUBSET S |-> SumStep(f, g, s)]

\* It does so for those with up to n elements.
SmallParts(S, n) == {s \in SUBSET S : Cardinality(s) <= n}
SumsUpTo(f, h, S, n) == h = [s \in SmallParts(S, n) |-> SumStep(f, h, s)]

LEMMA PickedIn ==
    ASSUME NEW s, s # {}
    PROVE  Picked(s) \in s
BY DEF Picked

LEMMA SubsetSizes ==
    ASSUME NEW S, IsFiniteSet(S), NEW s \in SUBSET S
    PROVE  /\ IsFiniteSet(s) /\ Cardinality(s) \in Nat /\ Cardinality(s) <= Cardinality(S)
           /\ s # {} => Cardinality(s) # 0
           /\ \A x \in s : s \ {x} \in SUBSET S /\ Cardinality(s \ {x}) = Cardinality(s) - 1
BY FS_Subset, FS_CardinalityType, FS_EmptySet, FS_RemoveElement

LEMMA SumsGrow ==
    ASSUME NEW S, IsFiniteSet(S), NEW f, NEW n \in Nat, NEW h, SumsUpTo(f, h, S, n)
    PROVE  \E g : SumsUpTo(f, g, S, n + 1)
<1> DEFINE g == [s \in SmallParts(S, n + 1) |-> SumStep(f, h, s)]
<1>1. ASSUME NEW s \in SmallParts(S, n + 1)
      PROVE  SumStep(f, g, s) = SumStep(f, h, s)
  <2>1. CASE s = {}
    BY <2>1 DEF SumStep
  <2>2. CASE s # {}
    <3> DEFINE t == s \ {Picked(s)}
    <3>1. Picked(s) \in s /\ s \in SUBSET S /\ Cardinality(s) <= n + 1
      BY <2>2, PickedIn DEF SmallParts
    <3>2. t \in SUBSET S /\ Cardinality(t) = Cardinality(s) - 1 /\ Cardinality(s) \in Nat
      BY <3>1, SubsetSizes
    <3>3. t \in SmallParts(S, n) /\ t \in SmallParts(S, n + 1)
      BY <3>1, <3>2 DEF SmallParts
    <3> HIDE DEF t
    <3>4. g[t] = SumStep(f, h, t)
      BY <3>3
    <3>5. h[t] = SumStep(f, h, t)
      BY <3>3 DEF SumsUpTo
    <3> QED
      BY <2>2, <3>4, <3>5 DEF SumStep, t
  <2> QED
    BY <2>1, <2>2
<1>2. SumsUpTo(f, g, S, n + 1)
  BY <1>1 DEF SumsUpTo
<1> QED
  BY <1>2

LEMMA SumsExist ==
    ASSUME NEW S, IsFiniteSet(S), NEW f
    PROVE  \E g : SumsUp(f, g, S)
<1> DEFINE Missed == {n \in Nat : ~\E h : SumsUpTo(f, h, S, n)}
<1>1. 0 \notin Missed
  <2> DEFINE h == [s \in SmallParts(S, 0) |-> 0]
  <2>1. \A s \in SmallParts(S, 0) : SumStep(f, h, s) = 0
    BY SubsetSizes DEF SmallParts, SumStep
  <2>2. SumsUpTo(f, h, S, 0)
    BY <2>1 DEF SumsUpTo
  <2> QED
    BY <2>2
<1>2. Missed = {}
  <2> SUFFICES ASSUME Missed # {} PROVE FALSE
    OBVIOUS
  <2>1. PICK m \in Missed : \A n \in Missed : m <= n
    BY LeastExists
  <2>2. m \in Nat /\ m # 0 /\ ~\E h : SumsUpTo(f, h, S, m)
    BY <1>1, <2>1
  <2>3. m - 1 \in Nat /\ m - 1 \notin Missed /\ (m - 1) + 1 = m
    BY <2>1, <2>2
  <2>4. \E g : SumsUpTo(f, g, S, (m - 1) + 1)
    BY <2>3, SumsGrow
  <2> QED
    BY <2>2, <2>3, <2>4
<1>3. Cardinality(S) \in Nat
  BY FS_CardinalityType
<1>4. PICK h : SumsUpTo(f, h, S, Cardinality(S))
  BY <1>2, <1>3
<1>5. SmallParts(S, Cardinality(S)) = SUBSET S
  BY SubsetSizes DEF SmallParts
<1> QED
  BY <1>4, <1>5 DEF SumsUpTo, SumsUp

\* The sum depends on the terms only, and not on the set it is part of.
LEMMA SumsAgree ==
    ASSUME NEW S, NEW R, IsFiniteSet(S), NEW f, NEW e, NEW g, NEW h,
           SumsUp(f, g, S), SumsUp(e, h, R),
           NEW T \in SUBSET S, T \subseteq R, \A x \in T : f[x] = e[x]
    PROVE  g[T] = h[T]
<1> DEFINE Differ == {Cardinality(s) : s \in {t \in SUBSET T : g[t] # h[t]}}
<1>1. \A s \in SUBSET T : Cardinality(s) \in Nat /\ s \in SUBSET S /\ s \in SUBSET R
  BY SubsetSizes
<1>2. Differ \in SUBSET Nat
  BY <1>1
<1>3. Differ = {}
  <2> SUFFICES ASSUME Differ # {} PROVE FALSE
    OBVIOUS
  <2>1. PICK m \in Differ : \A n \in Differ : m <= n
    BY <1>2, LeastExists
  <2>2. PICK s \in SUBSET T : g[s] # h[s] /\ Cardinality(s) = m
    BY <2>1
  <2> HIDE DEF Differ
  <2>3. g[s] = SumStep(f, g, s) /\ h[s] = SumStep(e, h, s)
    BY <1>1 DEF SumsUp
  <2>4. s # {}
    BY <2>2, <2>3 DEF SumStep
  <2>5. Picked(s) \in s /\ f[Picked(s)] = e[Picked(s)]
    BY <2>4, PickedIn
  <2>6. g[s \ {Picked(s)}] # h[s \ {Picked(s)}]
    BY <2>2, <2>3, <2>4, <2>5 DEF SumStep
  <2>7. Cardinality(s \ {Picked(s)}) = m - 1 /\ m \in Nat
    BY <1>1, <2>2, <2>5, SubsetSizes
  <2>8. Cardinality(s \ {Picked(s)}) \in Differ
    BY <2>6 DEF Differ
  <2> QED
    BY <2>1, <2>7, <2>8
<1> QED
  BY <1>3

\* It is a number, and any term may be taken out.
LEMMA SumsAreNumbers ==
    ASSUME NEW S, IsFiniteSet(S), NEW f, NEW g, SumsUp(f, g, S), \A x \in S : f[x] \in Int
    PROVE  \A s \in SUBSET S : g[s] \in Int
<1> DEFINE Odd == {Cardinality(s) : s \in {t \in SUBSET S : g[t] \notin Int}}
<1>1. Odd \in SUBSET Nat
  BY SubsetSizes
<1>2. Odd = {}
  <2> SUFFICES ASSUME Odd # {} PROVE FALSE
    OBVIOUS
  <2>1. PICK m \in Odd : \A n \in Odd : m <= n
    BY <1>1, LeastExists
  <2>2. PICK s \in SUBSET S : g[s] \notin Int /\ Cardinality(s) = m
    BY <2>1
  <2> HIDE DEF Odd
  <2>3. g[s] = SumStep(f, g, s)
    BY DEF SumsUp
  <2>4. s # {}
    BY <2>2, <2>3 DEF SumStep
  <2>5. Picked(s) \in s /\ f[Picked(s)] \in Int
    BY <2>4, PickedIn
  <2>6. g[s \ {Picked(s)}] \notin Int
    BY <2>2, <2>3, <2>4, <2>5 DEF SumStep
  <2>7. Cardinality(s \ {Picked(s)}) = m - 1 /\ m \in Nat
    BY <2>2, <2>5, SubsetSizes
  <2>8. Cardinality(s \ {Picked(s)}) \in Odd
    BY <2>6 DEF Odd
  <2> QED
    BY <2>1, <2>7, <2>8
<1> QED
  BY <1>2

LEMMA SumsTakeAny ==
    ASSUME NEW S, IsFiniteSet(S), NEW f, NEW g, SumsUp(f, g, S), \A x \in S : f[x] \in Int
    PROVE  \A s \in SUBSET S : \A y \in s : g[s] = f[y] + g[s \ {y}]
<1> DEFINE Odd == {Cardinality(s) : s \in {t \in SUBSET S : \E y \in t : g[t] # f[y] + g[t \ {y}]}}
<1>1. Odd \in SUBSET Nat
  BY SubsetSizes
<1>2. \A s \in SUBSET S : g[s] \in Int
  BY SumsAreNumbers
<1>3. Odd = {}
  <2> SUFFICES ASSUME Odd # {} PROVE FALSE
    OBVIOUS
  <2>1. PICK m \in Odd : \A n \in Odd : m <= n
    BY <1>1, LeastExists
  <2>2. PICK s \in SUBSET S : Cardinality(s) = m /\ \E y \in s : g[s] # f[y] + g[s \ {y}]
    BY <2>1
  <2>3. PICK y \in s : g[s] # f[y] + g[s \ {y}]
    BY <2>2
  <2>4. \A t \in SUBSET S : Cardinality(t) < m => \A z \in t : g[t] = f[z] + g[t \ {z}]
    <3>1. \A t \in SUBSET S : (\E z \in t : g[t] # f[z] + g[t \ {z}]) => Cardinality(t) \in Odd
      OBVIOUS
    <3>2. \A t \in SUBSET S : Cardinality(t) \in Nat
      BY SubsetSizes
    <3> HIDE DEF Odd
    <3> SUFFICES ASSUME NEW t \in SUBSET S, Cardinality(t) < m, Cardinality(t) \in Odd
                 PROVE  FALSE
      BY <3>1
    <3>3. m <= Cardinality(t) /\ m \in Nat /\ Cardinality(t) \in Nat
      BY <1>1, <2>1, <3>2
    <3> QED
      BY <3>3
  <2> HIDE DEF Odd
  <2> DEFINE p == Picked(s)
  <2>5. p \in s
    BY PickedIn
  <2> HIDE DEF p
  <2>6. g[s] = f[p] + g[s \ {p}]
    BY <2>3 DEF SumsUp, SumStep, p
  <2>7. p # y
    BY <2>3, <2>6
  <2>8. /\ s \ {p} \in SUBSET S /\ Cardinality(s \ {p}) < m /\ y \in s \ {p}
        /\ s \ {y} \in SUBSET S /\ Cardinality(s \ {y}) < m /\ p \in s \ {y}
    BY <2>2, <2>5, <2>7, SubsetSizes
  <2>9. g[s \ {p}] = f[y] + g[(s \ {p}) \ {y}] /\ g[s \ {y}] = f[p] + g[(s \ {y}) \ {p}]
    BY <2>4, <2>8
  <2>10. (s \ {p}) \ {y} = (s \ {y}) \ {p} /\ (s \ {p}) \ {y} \in SUBSET S
    OBVIOUS
  <2>11. f[p] \in Int /\ f[y] \in Int /\ g[(s \ {p}) \ {y}] \in Int
    BY <1>2, <2>5, <2>10
  <2> DEFINE rest == g[(s \ {p}) \ {y}]
  <2>12. g[s] = f[p] + (f[y] + rest) /\ g[s \ {y}] = f[p] + rest /\ rest \in Int
    BY <2>6, <2>9, <2>10, <2>11
  <2>13. g[s] = f[y] + g[s \ {y}]
    <3> HIDE DEF rest
    <3> QED
      BY <2>11, <2>12
  <2> QED
    BY <2>3, <2>13
<1> QED
  BY <1>3

\* The fold of the library is such a sum.
LEMMA SumFunctionSumsUp ==
    ASSUME NEW S, IsFiniteSet(S), NEW f
    PROVE  \E g : SumsUp(f, g, S) /\ SumFunctionOnSet(f, S) = g[S]
<1> DEFINE g == CHOOSE g : SumsUp(f, g, S)
<1>1. SumsUp(f, g, S)
  BY SumsExist
<1>2. SumFunctionOnSet(f, S) = g[S]
  BY Zenon DEF SumFunctionOnSet, FoldFunctionOnSet, MapThenFoldSet, SumsUp, SumStep, Picked
<1> QED
  BY <1>1, <1>2

LEMMA SumOfNothing ==
    ASSUME NEW f
    PROVE  SumFunctionOnSet(f, {}) = 0
<1>1. PICK g : SumsUp(f, g, {}) /\ SumFunctionOnSet(f, {}) = g[{}]
  BY FS_EmptySet, SumFunctionSumsUp
<1> QED
  BY <1>1 DEF SumsUp, SumStep

LEMMA SumTakesAny ==
    ASSUME NEW S, IsFiniteSet(S), NEW f, \A x \in S : f[x] \in Int
    PROVE  /\ SumFunctionOnSet(f, S) \in Int
           /\ \A y \in S : SumFunctionOnSet(f, S) = f[y] + SumFunctionOnSet(f, S \ {y})
<1>1. PICK g : SumsUp(f, g, S) /\ SumFunctionOnSet(f, S) = g[S]
  BY SumFunctionSumsUp
<1>2. g[S] \in Int
  BY <1>1, SumsAreNumbers
<1>3. ASSUME NEW y \in S
      PROVE  SumFunctionOnSet(f, S) = f[y] + SumFunctionOnSet(f, S \ {y})
  <2>1. IsFiniteSet(S \ {y})
    BY FS_RemoveElement
  <2>2. PICK h : SumsUp(f, h, S \ {y}) /\ SumFunctionOnSet(f, S \ {y}) = h[S \ {y}]
    BY <2>1, SumFunctionSumsUp
  <2>3. g[S \ {y}] = h[S \ {y}]
    BY <1>1, <2>2, SumsAgree
  <2>4. g[S] = f[y] + g[S \ {y}]
    BY <1>1, SumsTakeAny
  <2> QED
    BY <1>1, <2>2, <2>3, <2>4
<1> QED
  BY <1>1, <1>2, <1>3

LEMMA SumOfTheSame ==
    ASSUME NEW S, IsFiniteSet(S), NEW f, NEW e, \A x \in S : f[x] = e[x]
    PROVE  SumFunctionOnSet(f, S) = SumFunctionOnSet(e, S)
<1>1. PICK g : SumsUp(f, g, S) /\ SumFunctionOnSet(f, S) = g[S]
  BY SumFunctionSumsUp
<1>2. PICK h : SumsUp(e, h, S) /\ SumFunctionOnSet(e, S) = h[S]
  BY SumFunctionSumsUp
<1>3. ASSUME NEW T \in SUBSET S
      PROVE  g[T] = h[T]
  <2>1. T \subseteq S /\ \A x \in T : f[x] = e[x]
    OBVIOUS
  <2> QED
    BY <1>1, <1>2, <2>1, SumsAgree
<1>4. g[S] = h[S]
  BY <1>3
<1> QED
  BY <1>1, <1>2, <1>4

\* Three ways in which the terms change.
LEMMA SumChanges ==
    ASSUME NEW S, IsFiniteSet(S), NEW f, NEW e, NEW c \in S,
           \A x \in S : f[x] \in Int /\ e[x] \in Int,
           \A x \in S : x # c => e[x] = f[x]
    PROVE  SumFunctionOnSet(e, S) = SumFunctionOnSet(f, S) + (e[c] - f[c])
<1>1. IsFiniteSet(S \ {c}) /\ \A x \in S \ {c} : e[x] = f[x] /\ f[x] \in Int
  BY FS_RemoveElement
<1>2. SumFunctionOnSet(e, S \ {c}) = SumFunctionOnSet(f, S \ {c})
  BY <1>1, SumOfTheSame
<1>3. SumFunctionOnSet(f, S \ {c}) \in Int
  BY <1>1, SumTakesAny
<1>4. SumFunctionOnSet(f, S) = f[c] + SumFunctionOnSet(f, S \ {c})
  BY SumTakesAny
<1>5. SumFunctionOnSet(e, S) = e[c] + SumFunctionOnSet(e, S \ {c})
  BY SumTakesAny
<1>6. f[c] \in Int /\ e[c] \in Int
  OBVIOUS
<1> QED
  BY <1>2, <1>3, <1>4, <1>5, <1>6

LEMMA SumLosesOnes ==
    ASSUME NEW S, IsFiniteSet(S), NEW f, NEW e, NEW G \in SUBSET S,
           \A x \in S : f[x] \in Int,
           \A x \in S : e[x] = IF x \in G THEN f[x] - 1 ELSE f[x]
    PROVE  SumFunctionOnSet(e, S) = SumFunctionOnSet(f, S) - Cardinality(G)
<1> DEFINE Right(T) == SumFunctionOnSet(e, T) = SumFunctionOnSet(f, T) - Cardinality(G \cap T)
           Odd == {Cardinality(T) : T \in {T \in SUBSET S : ~Right(T)}}
<1>1. Odd \in SUBSET Nat
  <2>1. \A T \in SUBSET S : Cardinality(T) \in Nat
    BY SubsetSizes
  <2> HIDE DEF Right
  <2> QED
    BY <2>1
<1>2. Odd = {}
  <2> SUFFICES ASSUME Odd # {} PROVE FALSE
    OBVIOUS
  <2>1. PICK m \in Odd : \A n \in Odd : m <= n
    BY <1>1, LeastExists
  <2>2. PICK T \in SUBSET S : ~Right(T) /\ Cardinality(T) = m
    BY <2>1
  <2>3. \A U \in SUBSET S : ~Right(U) => Cardinality(U) \in Odd
    OBVIOUS
  <2> HIDE DEF Odd
  <2>4. T # {}
    <3>1. Right({})
      BY SumOfNothing, FS_EmptySet
    <3> HIDE DEF Right
    <3> QED
      BY <2>2, <3>1
  <2>5. PICK p : p \in T
    BY <2>4
  <2> DEFINE U == T \ {p}
  <2>6. /\ U \in SUBSET S /\ Cardinality(U) = m - 1 /\ m \in Nat
        /\ IsFiniteSet(T) /\ IsFiniteSet(U)
    BY <2>2, <2>5, SubsetSizes
  <2>7. Right(U)
    <3> HIDE DEF Right, U
    <3> QED
      BY <2>1, <2>3, <2>6
  <2>8. /\ SumFunctionOnSet(f, T) = f[p] + SumFunctionOnSet(f, U)
        /\ SumFunctionOnSet(e, T) = e[p] + SumFunctionOnSet(e, U)
        /\ SumFunctionOnSet(f, U) \in Int
    <3>1. \A x \in T : f[x] \in Int /\ e[x] \in Int
      OBVIOUS
    <3> QED
      BY <2>5, <2>6, <3>1, SumTakesAny
  <2>9. IsFiniteSet(G \cap U) /\ Cardinality(G \cap U) \in Nat
    BY <2>6, FS_Intersection, FS_CardinalityType
  <2>10. Cardinality(G \cap T) = IF p \in G THEN Cardinality(G \cap U) + 1 ELSE Cardinality(G \cap U)
    <3>1. CASE p \in G
      <4>1. G \cap T = (G \cap U) \cup {p} /\ p \notin G \cap U
        BY <2>5, <3>1
      <4> QED
        BY <2>9, <3>1, <4>1, FS_AddElement
    <3>2. CASE p \notin G
      <4>1. G \cap T = G \cap U
        BY <3>2
      <4> QED
        BY <3>2, <4>1
    <3> QED
      BY <3>1, <3>2
  <2>11. e[p] = (IF p \in G THEN f[p] - 1 ELSE f[p]) /\ f[p] \in Int
    BY <2>5
  <2>12. Right(T)
    <3> HIDE DEF U
    <3> QED
      BY <2>7, <2>8, <2>9, <2>10, <2>11
  <2> HIDE DEF Right
  <2> QED
    BY <2>2, <2>12
<1>3. G \cap S = G
  OBVIOUS
<1>4. Right(S)
  BY <1>2
<1> QED
  BY <1>3, <1>4

LEMMA SumOfZeros ==
    ASSUME NEW S, IsFiniteSet(S), NEW f, \A x \in S : f[x] = 0
    PROVE  SumFunctionOnSet(f, S) = 0
<1> DEFINE Odd == {Cardinality(T) : T \in {T \in SUBSET S : SumFunctionOnSet(f, T) # 0}}
<1>1. Odd \in SUBSET Nat
  BY SubsetSizes
<1>2. Odd = {}
  <2> SUFFICES ASSUME Odd # {} PROVE FALSE
    OBVIOUS
  <2>1. PICK m \in Odd : \A n \in Odd : m <= n
    BY <1>1, LeastExists
  <2>2. PICK T \in SUBSET S : SumFunctionOnSet(f, T) # 0 /\ Cardinality(T) = m
    BY <2>1
  <2>3. \A U \in SUBSET S : SumFunctionOnSet(f, U) # 0 => Cardinality(U) \in Odd
    OBVIOUS
  <2> HIDE DEF Odd
  <2>4. PICK p : p \in T
    BY <2>2, SumOfNothing
  <2>5. /\ T \ {p} \in SUBSET S /\ Cardinality(T \ {p}) = m - 1 /\ m \in Nat /\ IsFiniteSet(T)
    BY <2>2, <2>4, SubsetSizes
  <2>6. SumFunctionOnSet(f, T \ {p}) = 0
    BY <2>1, <2>3, <2>5
  <2>7. \A x \in T : f[x] \in Int
    OBVIOUS
  <2>8. SumFunctionOnSet(f, T) = f[p] + SumFunctionOnSet(f, T \ {p}) /\ f[p] = 0
    BY <2>4, <2>5, <2>7, SumTakesAny
  <2> QED
    BY <2>2, <2>6, <2>8
<1> QED
  BY <1>2

LEMMA SumIsNatural ==
    ASSUME NEW S, IsFiniteSet(S), NEW f, \A x \in S : f[x] \in Nat
    PROVE  SumFunctionOnSet(f, S) \in Nat
<1> DEFINE Odd == {Cardinality(T) : T \in {T \in SUBSET S : SumFunctionOnSet(f, T) \notin Nat}}
<1>1. Odd \in SUBSET Nat
  BY SubsetSizes
<1>2. Odd = {}
  <2> SUFFICES ASSUME Odd # {} PROVE FALSE
    OBVIOUS
  <2>1. PICK m \in Odd : \A n \in Odd : m <= n
    BY <1>1, LeastExists
  <2>2. PICK T \in SUBSET S : SumFunctionOnSet(f, T) \notin Nat /\ Cardinality(T) = m
    BY <2>1
  <2>3. \A U \in SUBSET S : SumFunctionOnSet(f, U) \notin Nat => Cardinality(U) \in Odd
    OBVIOUS
  <2> HIDE DEF Odd
  <2>4. PICK p : p \in T
    BY <2>2, SumOfNothing
  <2>5. /\ T \ {p} \in SUBSET S /\ Cardinality(T \ {p}) = m - 1 /\ m \in Nat /\ IsFiniteSet(T)
    BY <2>2, <2>4, SubsetSizes
  <2>6. SumFunctionOnSet(f, T \ {p}) \in Nat
    BY <2>1, <2>3, <2>5
  <2>7. \A x \in T : f[x] \in Int
    OBVIOUS
  <2>8. SumFunctionOnSet(f, T) = f[p] + SumFunctionOnSet(f, T \ {p}) /\ f[p] \in Nat
    BY <2>4, <2>5, <2>7, SumTakesAny
  <2> QED
    BY <2>2, <2>6, <2>8
<1> QED
  BY <1>2

LEMMA SumAppends ==
    ASSUME NEW n \in Nat, NEW f, NEW e, \A i \in 1 .. n : f[i] \in Int /\ e[i] = f[i],
           e[n + 1] \in Int
    PROVE  /\ SumFunctionOnSet(e, 1 .. n + 1) = SumFunctionOnSet(f, 1 .. n) + e[n + 1]
           /\ SumFunctionOnSet(f, 1 .. n) \in Int
<1>1. /\ IsFiniteSet(1 .. n) /\ IsFiniteSet(1 .. n + 1) /\ n + 1 \in 1 .. n + 1
      /\ (1 .. n + 1) \ {n + 1} = 1 .. n
  <2>1. n \in Int /\ n + 1 \in Int /\ 1 \in Int
    OBVIOUS
  <2>2. IsFiniteSet(1 .. n) /\ IsFiniteSet(1 .. n + 1)
    BY <2>1, FS_Interval
  <2>3. ASSUME NEW x
        PROVE  x \in (1 .. n + 1) \ {n + 1} <=> x \in 1 .. n
    OBVIOUS
  <2>4. n + 1 \in 1 .. n + 1
    OBVIOUS
  <2> QED
    BY <2>2, <2>3, <2>4
<1>2. \A i \in 1 .. n + 1 : e[i] \in Int
  <2> SUFFICES ASSUME NEW i \in 1 .. n + 1 PROVE e[i] \in Int
    OBVIOUS
  <2>1. i \in 1 .. n \/ i = n + 1
    OBVIOUS
  <2> QED
    BY <2>1
<1>3. SumFunctionOnSet(e, 1 .. n + 1) = e[n + 1] + SumFunctionOnSet(e, 1 .. n)
  <2> DEFINE S == 1 .. n + 1
  <2>1. IsFiniteSet(S) /\ n + 1 \in S /\ \A i \in S : e[i] \in Int
    BY <1>1, <1>2
  <2>2. S \ {n + 1} = 1 .. n
    BY <1>1
  <2> HIDE DEF S
  <2>3. SumFunctionOnSet(e, S) = e[n + 1] + SumFunctionOnSet(e, S \ {n + 1})
    BY <2>1, SumTakesAny
  <2> QED
    BY <2>2, <2>3 DEF S
<1>4. SumFunctionOnSet(e, 1 .. n) = SumFunctionOnSet(f, 1 .. n)
  BY <1>1, SumOfTheSame
<1>5. SumFunctionOnSet(f, 1 .. n) \in Int
  <2>1. \A i \in 1 .. n : f[i] \in Int
    OBVIOUS
  <2> QED
    BY <1>1, <2>1, SumTakesAny
<1> QED
  BY <1>3, <1>4, <1>5

\* Integers, and a linear combination.
Integral(f, S) == \A x \in S : f[x] \in Int
Combines(d, a, f, b, e, S) == \A x \in S : d[x] = a * f[x] + b * e[x]

LEMMA SumIsLinear ==
    ASSUME NEW S, IsFiniteSet(S), NEW f, NEW e, NEW d, NEW a \in Int, NEW b \in Int,
           Integral(f, S), Integral(e, S), Combines(d, a, f, b, e, S)
    PROVE  SumFunctionOnSet(d, S) = a * SumFunctionOnSet(f, S) + b * SumFunctionOnSet(e, S)
<1> USE DEF Integral, Combines
<1> DEFINE Right(T) == SumFunctionOnSet(d, T)
                         = a * SumFunctionOnSet(f, T) + b * SumFunctionOnSet(e, T)
           Odd == {Cardinality(T) : T \in {T \in SUBSET S : ~Right(T)}}
<1>1. Odd \in SUBSET Nat
  <2>1. \A T \in SUBSET S : Cardinality(T) \in Nat
    BY SubsetSizes
  <2> HIDE DEF Right
  <2> QED
    BY <2>1
<1>2. Odd = {}
  <2> SUFFICES ASSUME Odd # {} PROVE FALSE
    OBVIOUS
  <2>1. PICK m \in Odd : \A n \in Odd : m <= n
    BY <1>1, LeastExists
  <2>2. PICK T \in SUBSET S : ~Right(T) /\ Cardinality(T) = m
    BY <2>1
  <2>3. \A U \in SUBSET S : ~Right(U) => Cardinality(U) \in Odd
    OBVIOUS
  <2> HIDE DEF Odd
  <2>4. T # {}
    <3>1. a * 0 + b * 0 = 0
      OBVIOUS
    <3>2. Right({})
      BY <3>1, SumOfNothing
    <3> HIDE DEF Right
    <3> QED
      BY <2>2, <3>2
  <2>5. PICK p : p \in T
    BY <2>4
  <2> DEFINE U == T \ {p}
  <2>6. /\ U \in SUBSET S /\ Cardinality(U) = m - 1 /\ m \in Nat
        /\ IsFiniteSet(T) /\ IsFiniteSet(U)
    BY <2>2, <2>5, SubsetSizes
  <2>7. Right(U)
    <3> HIDE DEF Right, U
    <3> QED
      BY <2>1, <2>3, <2>6
  <2>8. \A x \in T : f[x] \in Int /\ e[x] \in Int /\ d[x] \in Int
    OBVIOUS
  <2>9. /\ SumFunctionOnSet(f, T) = f[p] + SumFunctionOnSet(f, U)
        /\ SumFunctionOnSet(e, T) = e[p] + SumFunctionOnSet(e, U)
        /\ SumFunctionOnSet(d, T) = d[p] + SumFunctionOnSet(d, U)
        /\ SumFunctionOnSet(f, U) \in Int /\ SumFunctionOnSet(e, U) \in Int
    BY <2>5, <2>6, <2>8, SumTakesAny
  <2>10. d[p] = a * f[p] + b * e[p] /\ f[p] \in Int /\ e[p] \in Int
    BY <2>5
  <2> HIDE DEF U
  <2>11. \A x, y, z, w \in Int : a * (x + z) + b * (y + w) = (a * x + b * y) + (a * z + b * w)
    OBVIOUS
  <2>12. Right(T)
    BY <2>7, <2>9, <2>10, <2>11
  <2> HIDE DEF Right
  <2> QED
    BY <2>2, <2>12
<1>3. Right(S)
  BY <1>2
<1> QED
  BY <1>3

LEMMA SumOfConstant ==
    ASSUME NEW S, IsFiniteSet(S), NEW f, NEW c \in Int, \A x \in S : f[x] = c
    PROVE  SumFunctionOnSet(f, S) = Cardinality(S) * c
<1> DEFINE Right(T) == SumFunctionOnSet(f, T) = Cardinality(T) * c
           Odd == {Cardinality(T) : T \in {T \in SUBSET S : ~Right(T)}}
<1>1. Odd \in SUBSET Nat
  <2>1. \A T \in SUBSET S : Cardinality(T) \in Nat
    BY SubsetSizes
  <2> HIDE DEF Right
  <2> QED
    BY <2>1
<1>2. Odd = {}
  <2> SUFFICES ASSUME Odd # {} PROVE FALSE
    OBVIOUS
  <2>1. PICK m \in Odd : \A n \in Odd : m <= n
    BY <1>1, LeastExists
  <2>2. PICK T \in SUBSET S : ~Right(T) /\ Cardinality(T) = m
    BY <2>1
  <2>3. \A U \in SUBSET S : ~Right(U) => Cardinality(U) \in Odd
    OBVIOUS
  <2> HIDE DEF Odd
  <2>4. T # {}
    <3>1. Right({})
      BY SumOfNothing, FS_EmptySet
    <3> HIDE DEF Right
    <3> QED
      BY <2>2, <3>1
  <2>5. PICK p : p \in T
    BY <2>4
  <2> DEFINE U == T \ {p}
  <2>6. /\ U \in SUBSET S /\ Cardinality(U) = m - 1 /\ m \in Nat
        /\ IsFiniteSet(T) /\ IsFiniteSet(U)
    BY <2>2, <2>5, SubsetSizes
  <2>7. Right(U)
    <3> HIDE DEF Right, U
    <3> QED
      BY <2>1, <2>3, <2>6
  <2>8. SumFunctionOnSet(f, T) = c + SumFunctionOnSet(f, U)
    <3>1. \A x \in T : f[x] \in Int /\ f[x] = c
      OBVIOUS
    <3> QED
      BY <2>5, <2>6, <3>1, SumTakesAny
  <2> HIDE DEF U
  <2>9. c + (m - 1) * c = m * c
    BY <2>6
  <2>10. Right(T)
    BY <2>2, <2>6, <2>7, <2>8, <2>9
  <2> HIDE DEF Right
  <2> QED
    BY <2>2, <2>10
<1>3. Right(S)
  BY <1>2
<1> QED
  BY <1>3

\* Of two sums the one with the greater terms is the greater.
LEMMA SumIsMonotone ==
    ASSUME NEW S, IsFiniteSet(S), NEW f, NEW e,
           \A x \in S : f[x] \in Int /\ e[x] \in Int /\ f[x] <= e[x]
    PROVE  SumFunctionOnSet(f, S) <= SumFunctionOnSet(e, S)
<1> DEFINE d == [x \in S |-> e[x] - f[x]]
<1>1. Integral(e, S) /\ Integral(f, S) /\ Combines(d, 1, e, -1, f, S)
  BY DEF Integral, Combines
<1>2. \A x \in S : d[x] \in Nat
  OBVIOUS
<1> HIDE DEF d
<1>3. SumFunctionOnSet(d, S) = 1 * SumFunctionOnSet(e, S) + (-1) * SumFunctionOnSet(f, S)
  BY <1>1, SumIsLinear
<1>4. SumFunctionOnSet(d, S) \in Nat
  BY <1>2, SumIsNatural
<1>5. SumFunctionOnSet(e, S) \in Int /\ SumFunctionOnSet(f, S) \in Int
  BY SumTakesAny
<1> QED
  BY <1>3, <1>4, <1>5

LEMMA SumIsPositive ==
    ASSUME NEW S, IsFiniteSet(S), NEW f, \A x \in S : f[x] \in Nat, NEW y \in S, f[y] # 0
    PROVE  SumFunctionOnSet(f, S) \in Nat \ {0}
<1>1. IsFiniteSet(S \ {y})
  BY FS_RemoveElement
<1>2. SumFunctionOnSet(f, S \ {y}) \in Nat
  BY <1>1, SumIsNatural
<1>3. SumFunctionOnSet(f, S) = f[y] + SumFunctionOnSet(f, S \ {y})
  BY SumTakesAny
<1>4. f[y] \in Nat \ {0}
  OBVIOUS
<1> QED
  BY <1>2, <1>3, <1>4

\* The terms of the elements that g reaches from A.
Through(f, g, A, T) == [y \in T |-> IF \E x \in A : g[x] = y THEN f[y] ELSE 0]

LEMMA OneMoreReached ==
    ASSUME NEW T, IsFiniteSet(T), NEW f, Integral(f, T), NEW g, NEW A, NEW a \in A, g[a] \in T,
           \A x \in A : g[x] = g[a] => x = a
    PROVE  /\ SumFunctionOnSet(Through(f, g, A, T), T)
                  = SumFunctionOnSet(Through(f, g, A \ {a}, T), T) + f[g[a]]
           /\ SumFunctionOnSet(Through(f, g, A \ {a}, T), T) \in Int
<1>1. PICK more, less, at :
          more = Through(f, g, A, T) /\ less = Through(f, g, A \ {a}, T) /\ at = g[a]
  OBVIOUS
<1>2. \A x \in T : more[x] \in Int /\ less[x] \in Int
  BY <1>1 DEF Through, Integral
<1>3. \A x \in T : x # at => more[x] = less[x]
  BY <1>1 DEF Through
<1>4. at \in T /\ more[at] = f[g[a]] /\ less[at] = 0 /\ f[g[a]] \in Int
  BY <1>1 DEF Through, Integral
<1>5. SumFunctionOnSet(more, T) = SumFunctionOnSet(less, T) + (more[at] - less[at])
  BY <1>2, <1>3, <1>4, SumChanges
<1>6. SumFunctionOnSet(less, T) \in Int
  BY <1>2, SumTakesAny
<1> QED
  BY <1>1, <1>4, <1>5, <1>6

\* A sum over the elements that g reaches, taken from where g starts.
LEMMA SumThroughInjection ==
    ASSUME NEW S, IsFiniteSet(S), NEW T, IsFiniteSet(T), NEW g \in Injection(S, T),
           NEW f, Integral(f, T), NEW h, \A x \in S : h[x] = f[g[x]]
    PROVE  SumFunctionOnSet(h, S) = SumFunctionOnSet(Through(f, g, S, T), T)
<1> DEFINE Right(A) == SumFunctionOnSet(h, A) = SumFunctionOnSet(Through(f, g, A, T), T)
           Odd == {Cardinality(A) : A \in {A \in SUBSET S : ~Right(A)}}
<1>0. /\ g \in [S -> T]
      /\ \A x, y \in S : g[x] = g[y] => x = y
  BY DEF Injection, IsInjective
<1>1. Odd \in SUBSET Nat
  <2>1. \A A \in SUBSET S : Cardinality(A) \in Nat
    BY SubsetSizes
  <2> HIDE DEF Right
  <2> QED
    BY <2>1
<1>2. Odd = {}
  <2> SUFFICES ASSUME Odd # {} PROVE FALSE
    OBVIOUS
  <2>1. PICK m \in Odd : \A n \in Odd : m <= n
    BY <1>1, LeastExists
  <2>2. PICK A \in SUBSET S : ~Right(A) /\ Cardinality(A) = m
    BY <2>1
  <2>3. \A U \in SUBSET S : ~Right(U) => Cardinality(U) \in Odd
    OBVIOUS
  <2> HIDE DEF Odd
  <2>4. A # {}
    <3>1. PICK z : z = Through(f, g, {}, T)
      OBVIOUS
    <3>2. \A y \in T : z[y] = 0
      BY <3>1 DEF Through
    <3>3. SumFunctionOnSet(z, T) = 0
      BY <3>2, SumOfZeros
    <3>4. Right({})
      BY <3>1, <3>3, SumOfNothing
    <3> HIDE DEF Right
    <3> QED
      BY <2>2, <3>4
  <2>5. PICK a : a \in A
    BY <2>4
  <2> DEFINE B == A \ {a}
  <2>6. /\ B \in SUBSET S /\ Cardinality(B) = m - 1 /\ m \in Nat
        /\ IsFiniteSet(A) /\ IsFiniteSet(B)
    BY <2>2, <2>5, SubsetSizes
  <2>7. Right(B)
    <3> HIDE DEF Right, B
    <3> QED
      BY <2>1, <2>3, <2>6
  <2>8. a \in S /\ g[a] \in T
    BY <1>0, <2>5
  <2>9. SumFunctionOnSet(h, A) = h[a] + SumFunctionOnSet(h, B)
    <3>1. \A x \in A : h[x] \in Int
      BY <1>0 DEF Integral
    <3> QED
      BY <2>5, <2>6, <3>1, SumTakesAny
  <2>10. /\ SumFunctionOnSet(Through(f, g, A, T), T)
                = SumFunctionOnSet(Through(f, g, B, T), T) + f[g[a]]
         /\ SumFunctionOnSet(Through(f, g, B, T), T) \in Int
    <3>1. \A x \in A : g[x] = g[a] => x = a
      BY <1>0, <2>5
    <3> QED
      BY <2>5, <2>8, <3>1, OneMoreReached
  <2>11. h[a] = f[g[a]] /\ f[g[a]] \in Int
    BY <2>8 DEF Integral
  <2>12. Right(A)
    <3> HIDE DEF B
    <3> QED
      BY <2>7, <2>9, <2>10, <2>11
  <2> HIDE DEF Right
  <2> QED
    BY <2>2, <2>12
<1>3. Right(S)
  <2> HIDE DEF Right
  <2> QED
    BY <1>2
<1> QED
  BY <1>3

-----------------------------------------------------------------------------
(* The least of finitely many values, and of those with the least value the *)
(* one with the least of another.                                           *)

LEMMA LeastValueExists ==
    ASSUME NEW S, IsFiniteSet(S), S # {}, NEW f, \A x \in S : f[x] \in Int
    PROVE  \E x \in S : \A y \in S : f[x] <= f[y]
<1> DEFINE Has(T) == \E x \in T : \A y \in T : f[x] <= f[y]
           Odd == {Cardinality(T) : T \in {T \in SUBSET S : T # {} /\ ~Has(T)}}
<1>1. Odd \in SUBSET Nat
  <2>1. \A T \in SUBSET S : Cardinality(T) \in Nat
    BY SubsetSizes
  <2> HIDE DEF Has
  <2> QED
    BY <2>1
<1>2. Odd = {}
  <2> SUFFICES ASSUME Odd # {} PROVE FALSE
    OBVIOUS
  <2>1. PICK m \in Odd : \A n \in Odd : m <= n
    BY <1>1, LeastExists
  <2>2. PICK T \in SUBSET S : T # {} /\ ~Has(T) /\ Cardinality(T) = m
    BY <2>1
  <2>3. \A U \in SUBSET S : U # {} /\ ~Has(U) => Cardinality(U) \in Odd
    OBVIOUS
  <2> HIDE DEF Odd
  <2>4. PICK p : p \in T
    BY <2>2
  <2> DEFINE U == T \ {p}
  <2>5. U \in SUBSET S /\ Cardinality(U) = m - 1 /\ m \in Nat
    BY <2>2, <2>4, SubsetSizes
  <2>6. U = {} \/ Has(U)
    <3> HIDE DEF Has, U
    <3> QED
      BY <2>1, <2>3, <2>5
  <2>7. f[p] \in Int /\ f[p] <= f[p]
    BY <2>4
  <2>8. CASE U = {}
    BY <2>2, <2>4, <2>7, <2>8
  <2>9. CASE Has(U)
    <3>1. PICK x \in U : \A y \in U : f[x] <= f[y]
      BY <2>9
    <3>2. f[x] \in Int /\ \A y \in U : f[y] \in Int
      OBVIOUS
    <3>3. CASE f[x] <= f[p]
      <4>1. \A y \in T : f[x] <= f[y]
        BY <3>1, <3>3
      <4> QED
        BY <2>2, <4>1
    <3>4. CASE f[p] <= f[x]
      <4>1. \A y \in U : f[p] <= f[y]
        BY <2>7, <3>1, <3>2, <3>4
      <4>2. \A y \in T : f[p] <= f[y]
        BY <2>7, <4>1
      <4> QED
        BY <2>2, <2>4, <4>2
    <3> QED
      BY <2>7, <3>2, <3>3, <3>4
  <2> QED
    BY <2>6, <2>8, <2>9
<1> QED
  BY <1>2

LEMMA LeastPairExists ==
    ASSUME NEW S, IsFiniteSet(S), S # {}, NEW f, NEW g, \A x \in S : f[x] \in Int /\ g[x] \in Int
    PROVE  \E x \in S : \A y \in S : f[x] < f[y] \/ (f[x] = f[y] /\ g[x] <= g[y])
<1>1. PICK x \in S : \A y \in S : f[x] <= f[y]
  BY LeastValueExists
<1> DEFINE E == {y \in S : f[y] = f[x]}
<1>2. IsFiniteSet(E) /\ E # {} /\ \A y \in E : g[y] \in Int
  BY FS_Subset
<1>3. PICK z \in E : \A y \in E : g[z] <= g[y]
  BY <1>2, LeastValueExists
<1>4. ASSUME NEW y \in S PROVE f[z] < f[y] \/ (f[z] = f[y] /\ g[z] <= g[y])
  <2>1. f[z] = f[x] /\ f[x] <= f[y] /\ f[x] \in Int /\ f[y] \in Int
    BY <1>1
  <2>2. CASE f[y] = f[x]
    BY <1>3, <2>1, <2>2
  <2>3. CASE f[y] # f[x]
    BY <2>1, <2>3
  <2> QED
    BY <2>2, <2>3
<1> QED
  BY <1>4
=============================================================================

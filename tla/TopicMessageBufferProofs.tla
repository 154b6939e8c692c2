---------------------- MODULE TopicMessageBufferProofs ----------------------
(***************************************************************************)
(* Theorems about TopicMessageBuffer, for every set of topics, every ring  *)
(* size and memory limit: the byte counters kept by differences are exact, *)
(* the limit is kept, only a payload that can never fit is refused, and a  *)
(* replay is the suffix of what was stored.                                *)
(*                                                                         *)
(* The first part is about sums over finite sets, by induction on the set  *)
(* in the form of a minimal counterexample.                                *)
(***************************************************************************)
EXTENDS TopicMessageBuffer, FiniteSetTheorems, SequenceTheorems,
        WellFoundedInduction, TLAPS

\* A set of natural numbers that is not empty has a least element.
LEMMA LeastNat ==
  ASSUME NEW T, T \subseteq Nat, T # {}
  PROVE  \E n \in T : \A m \in T : n <= m
<1> DEFINE R == {ss \in Nat \X Nat : ss[1] < ss[2]}
<1>1. OpToRel(<, Nat) = R
  BY Zenon DEF OpToRel
<1>2. IsWellFoundedOn(R, Nat)
  BY <1>1, NatLessThanWellFounded, Zenon
<1> HIDE DEF R
<1>3. PICK n \in T : \A m \in T : ~(<<m, n>> \in R)
  BY <1>2, WFMin, Zenon
<1>4. ASSUME NEW m \in T, m < n PROVE FALSE
  <2> DEFINE p == <<m, n>>
  <2>1. p \in Nat \X Nat /\ p[1] = m /\ p[2] = n
    BY SMT
  <2> HIDE DEF p
  <2>2. p[1] < p[2]
    BY <1>4, <2>1
  <2>3. p \in R
    BY <2>1, <2>2, Zenon DEF R
  <2> QED BY <1>3, <2>3, Zenon DEF p
<1> QED BY <1>3, <1>4

-----------------------------------------------------------------------------
(* Sums over finite sets *)

\* The element of a set at which MapThenSumSet takes it apart.
Pick(s) == CHOOSE x \in s : TRUE

\* The sum of f over S, in the words of the library.
Sum(f, S) == MapThenSumSet(LAMBDA x : f[x], S)

\* g gives the sums of f over the subsets of S.
IsSum(f, S, g) ==
  g = [s \in SUBSET S |-> IF s = {} THEN 0 ELSE f[Pick(s)] + g[s \ {Pick(s)}]]

\* What MapThenSumSet expands to.
LEMMA SumDef ==
  ASSUME NEW f, NEW S
  PROVE  Sum(f, S) = (CHOOSE g : IsSum(f, S, g))[S]
BY Zenon DEF Sum, MapThenSumSet, MapThenFoldSet, IsSum, Pick

\* BytesOf() adds a field of a record: the same sum, of the function that
\* takes that field.
LEMMA BytesSum ==
  ASSUME NEW bs, NEW ts
  PROVE  MapThenSumSet(LAMBDA t : bs[t].bytes, ts) = Sum([t \in ts |-> bs[t].bytes], ts)
<1> DEFINE f == [t \in ts |-> bs[t].bytes]
           g1(g) == g = [s \in SUBSET ts |-> IF s = {} THEN 0 ELSE bs[Pick(s)].bytes + g[s \ {Pick(s)}]]
<1>1. MapThenSumSet(LAMBDA t : bs[t].bytes, ts) = (CHOOSE g : g1(g))[ts]
  BY Zenon DEF MapThenSumSet, MapThenFoldSet, Pick
<1>2. \A s \in SUBSET ts : s # {} => f[Pick(s)] = bs[Pick(s)].bytes
  <2> TAKE s \in SUBSET ts
  <2> HAVE s # {}
  <2>1. Pick(s) \in ts
    BY DEF Pick
  <2> QED BY <2>1
<1> HIDE DEF f
<1>3. ASSUME NEW g PROVE IsSum(f, ts, g) <=> g1(g)
  <2>1. [s \in SUBSET ts |-> IF s = {} THEN 0 ELSE bs[Pick(s)].bytes + g[s \ {Pick(s)}]]
        = [s \in SUBSET ts |-> IF s = {} THEN 0 ELSE f[Pick(s)] + g[s \ {Pick(s)}]]
     BY <1>2
  <2> QED BY <2>1 DEF IsSum
<1> HIDE DEF g1
<1>4. (CHOOSE g : g1(g)) = (CHOOSE g : IsSum(f, ts, g))
  BY <1>3
<1> QED BY <1>1, <1>4, SumDef DEF f

\* The same for the sizes of the messages of a ring.
LEMMA SizesSum ==
  ASSUME NEW ms, NEW ts
  PROVE  MapThenSumSet(LAMBDA t : ms[t].size, ts) = Sum([t \in ts |-> ms[t].size], ts)
<1> DEFINE f == [t \in ts |-> ms[t].size]
           g1(g) == g = [s \in SUBSET ts |-> IF s = {} THEN 0 ELSE ms[Pick(s)].size + g[s \ {Pick(s)}]]
<1>1. MapThenSumSet(LAMBDA t : ms[t].size, ts) = (CHOOSE g : g1(g))[ts]
  BY Zenon DEF MapThenSumSet, MapThenFoldSet, Pick
<1>2. \A s \in SUBSET ts : s # {} => f[Pick(s)] = ms[Pick(s)].size
  <2> TAKE s \in SUBSET ts
  <2> HAVE s # {}
  <2>1. Pick(s) \in ts
    BY DEF Pick
  <2> QED BY <2>1
<1> HIDE DEF f
<1>3. ASSUME NEW g PROVE IsSum(f, ts, g) <=> g1(g)
  <2>1. [s \in SUBSET ts |-> IF s = {} THEN 0 ELSE ms[Pick(s)].size + g[s \ {Pick(s)}]]
        = [s \in SUBSET ts |-> IF s = {} THEN 0 ELSE f[Pick(s)] + g[s \ {Pick(s)}]]
     BY <1>2
  <2> QED BY <2>1 DEF IsSum
<1> HIDE DEF g1
<1>4. (CHOOSE g : g1(g)) = (CHOOSE g : IsSum(f, ts, g))
  BY <1>3
<1> QED BY <1>1, <1>4, SumDef DEF f

\* A set of subsets of a finite set that is not empty has a minimal element: how
\* the lemmas below argue by induction on a finite set.
LEMMA LeastSet ==
  ASSUME NEW D, IsFiniteSet(D), NEW F, F \subseteq SUBSET D, F # {}
  PROVE  \E s \in F : \A u \in F : u \subseteq s => u = s
<1> DEFINE T == {Cardinality(s) : s \in F}
<1>1. \A s \in F : IsFiniteSet(s) /\ Cardinality(s) \in Nat
  BY FS_Subset, FS_CardinalityType
<1>2. T \subseteq Nat /\ T # {}
  BY <1>1
<1>3. PICK n \in T : \A m \in T : n <= m
  BY <1>2, LeastNat, Zenon
<1>4. PICK s \in F : n = Cardinality(s)
  BY <1>3
<1>5. \A u \in F : u \subseteq s => u = s
  <2> TAKE u \in F
  <2> HAVE u \subseteq s
  <2>1. Cardinality(s) <= Cardinality(u)
    BY <1>3, <1>4
  <2>2. Cardinality(u) <= Cardinality(s)
    BY <1>1, FS_Subset
  <2>3. Cardinality(u) = Cardinality(s)
    BY <2>1, <2>2, <1>1
  <2> QED BY <2>3, <1>1, FS_Subset
<1> QED BY <1>4, <1>5

\* The sums over the subsets of a smaller set agree with those of a larger one.
LEMMA SumSame ==
  ASSUME NEW f, NEW S, IsFiniteSet(S), NEW U \in SUBSET S,
         NEW g, IsSum(f, S, g), NEW h, IsSum(f, U, h)
  PROVE  \A s \in SUBSET U : g[s] = h[s]
<1> DEFINE F == {s \in SUBSET U : g[s] # h[s]}
<1> SUFFICES ASSUME F # {} PROVE FALSE
  OBVIOUS
<1>1. PICK s \in F : \A u \in F : u \subseteq s => u = s
  <2>1. IsFiniteSet(U)
    BY FS_Subset
  <2>2. F \subseteq SUBSET U
    OBVIOUS
  <2> HIDE DEF F
  <2> QED BY <2>1, <2>2, LeastSet
<1>2. s # {}
  BY <1>1 DEF IsSum
<1>3. Pick(s) \in s
  BY <1>2 DEF Pick
<1> DEFINE u == s \ {Pick(s)}
<1>4. g[s] = f[Pick(s)] + g[u] /\ h[s] = f[Pick(s)] + h[u]
  BY <1>1, <1>2, Zenon DEF IsSum
<1>5. u \in SUBSET U /\ u \subseteq s /\ u # s
  BY <1>1, <1>3
<1>6. g[u] = h[u]
  BY <1>1, <1>5
<1> QED BY <1>1, <1>4, <1>6

\* The recursion of MapThenSumSet defines a function on a finite set.
LEMMA SumExists ==
  ASSUME NEW f, NEW D, IsFiniteSet(D)
  PROVE  \E g : IsSum(f, D, g)
<1> DEFINE F == {S \in SUBSET D : ~\E g : IsSum(f, S, g)}
<1> SUFFICES ASSUME F # {} PROVE FALSE
  OBVIOUS
<1>1. PICK S \in F : \A U \in F : U \subseteq S => U = S
  <2>1. F \subseteq SUBSET D
    OBVIOUS
  <2> HIDE DEF F
  <2> QED BY <2>1, LeastSet
<1> DEFINE G(U) == CHOOSE g : IsSum(f, U, g)
           g == [s \in SUBSET S |-> IF s = {} THEN 0
                                    ELSE f[Pick(s)] + G(s \ {Pick(s)})[s \ {Pick(s)}]]
<1>2. \A U \in SUBSET S : U # S => IsSum(f, U, G(U))
  BY <1>1
<1> HIDE DEF G
<1>3. \A s \in SUBSET S : s # {} => Pick(s) \in s
  BY DEF Pick
<1>4. ASSUME NEW U \in SUBSET S, U # S
      PROVE  g[U] = G(U)[U]
  <2>1. IsSum(f, U, G(U))
    BY <1>2, <1>4
  <2>2. CASE U = {}
    <3>1. G(U)[U] = 0
      BY <2>1, <2>2 DEF IsSum
    <3> QED BY <3>1, <2>2
  <2>3. CASE U # {}
    <3> DEFINE V == U \ {Pick(U)}
    <3>1. V \in SUBSET U /\ V # S /\ V \in SUBSET S
      BY <1>3, <1>4, <2>3
    <3>2. G(U)[U] = f[Pick(U)] + G(U)[V]
      BY <2>1, <2>3, Zenon DEF IsSum
    <3>3. IsSum(f, V, G(V))
      BY <3>1, <1>2
    <3>4. IsFiniteSet(U)
      BY FS_Subset
    <3>5. G(U)[V] = G(V)[V]
      BY <3>1, <3>3, <3>4, <2>1, SumSame
    <3>6. g[U] = f[Pick(U)] + G(V)[V]
      BY <2>3
    <3> QED BY <3>2, <3>5, <3>6
  <2> QED BY <2>2, <2>3
<1>5. IsSum(f, S, g)
  <2>1. \A s \in SUBSET S : s # {} =>
            g[s \ {Pick(s)}] = G(s \ {Pick(s)})[s \ {Pick(s)}]
    <3>1. ASSUME NEW s \in SUBSET S, s # {}
          PROVE  g[s \ {Pick(s)}] = G(s \ {Pick(s)})[s \ {Pick(s)}]
      <4>1. s \ {Pick(s)} \in SUBSET S /\ s \ {Pick(s)} # S
        BY <1>3, <3>1
      <4> HIDE DEF g
      <4> QED BY <4>1, <1>4
    <3> QED BY <3>1, Zenon
  <2>2. g = [s \in SUBSET S |-> IF s = {} THEN 0
                                    ELSE f[Pick(s)] + G(s \ {Pick(s)})[s \ {Pick(s)}]]
    OBVIOUS
  <2> HIDE DEF g
  <2> QED BY <2>1, <2>2, Zenon DEF IsSum
<1> QED BY <1>1, <1>5

\* The recursion equation of a sum.
LEMMA SumStep ==
  ASSUME NEW f, NEW S, IsFiniteSet(S)
  PROVE  /\ S = {} => Sum(f, S) = 0
         /\ S # {} => /\ Pick(S) \in S
                      /\ Sum(f, S) = f[Pick(S)] + Sum(f, S \ {Pick(S)})
<1> DEFINE G(U) == CHOOSE g : IsSum(f, U, g)
           V == S \ {Pick(S)}
<1>1. IsFiniteSet(V) /\ V \in SUBSET S
  BY FS_Subset
<1>2. IsSum(f, S, G(S)) /\ IsSum(f, V, G(V))
  BY <1>1, SumExists
<1>3. Sum(f, S) = G(S)[S] /\ Sum(f, V) = G(V)[V]
  BY SumDef, Zenon
<1> HIDE DEF G
<1>4. S = {} => G(S)[S] = 0
  BY <1>2 DEF IsSum
<1>5. S # {} => G(S)[S] = f[Pick(S)] + G(S)[V]
  BY <1>2, Zenon DEF IsSum
<1>6. G(S)[V] = G(V)[V]
  BY <1>1, <1>2, SumSame
<1>7. S # {} => Pick(S) \in S
  BY DEF Pick
<1> QED BY <1>3, <1>4, <1>5, <1>6, <1>7

\* A sum depends only on the values at its indices.
LEMMA SumCongruent ==
  ASSUME NEW f, NEW g, NEW D, IsFiniteSet(D), \A x \in D : f[x] = g[x]
  PROVE  Sum(f, D) = Sum(g, D)
<1> DEFINE F == {s \in SUBSET D : Sum(f, s) # Sum(g, s)}
<1> SUFFICES ASSUME F # {} PROVE FALSE
  OBVIOUS
<1>1. PICK s \in F : \A u \in F : u \subseteq s => u = s
  <2>1. F \subseteq SUBSET D
    OBVIOUS
  <2> HIDE DEF F
  <2> QED BY <2>1, LeastSet
<1> DEFINE u == s \ {Pick(s)}
<1>2. s \in SUBSET D /\ Sum(f, s) # Sum(g, s) /\ \A v \in SUBSET D : v \subseteq s /\ v # s => Sum(f, v) = Sum(g, v)
  BY <1>1
<1> HIDE DEF F
<1>3. IsFiniteSet(s)
  BY <1>2, FS_Subset
<1>4. s # {}
  BY <1>2, <1>3, SumStep, Zenon
<1>5. Pick(s) \in s /\ Sum(f, s) = f[Pick(s)] + Sum(f, u) /\ Sum(g, s) = g[Pick(s)] + Sum(g, u)
  BY <1>3, <1>4, SumStep
<1>6. Sum(f, u) = Sum(g, u)
  BY <1>2, <1>5
<1> QED BY <1>2, <1>5, <1>6

\* A sum of natural numbers is a natural number.
LEMMA SumType ==
  ASSUME NEW f, NEW D, IsFiniteSet(D), \A x \in D : f[x] \in Nat
  PROVE  Sum(f, D) \in Nat
<1> DEFINE F == {s \in SUBSET D : Sum(f, s) \notin Nat}
<1> SUFFICES ASSUME F # {} PROVE FALSE
  OBVIOUS
<1>1. PICK s \in F : \A u \in F : u \subseteq s => u = s
  <2>1. F \subseteq SUBSET D
    OBVIOUS
  <2> HIDE DEF F
  <2> QED BY <2>1, LeastSet
<1> DEFINE u == s \ {Pick(s)}
<1>2. s \in SUBSET D /\ Sum(f, s) \notin Nat /\ \A v \in SUBSET D : v \subseteq s /\ v # s => Sum(f, v) \in Nat
  BY <1>1
<1> HIDE DEF F
<1>3. IsFiniteSet(s)
  BY <1>2, FS_Subset
<1>4. s # {}
  <2>1. s = {} => Sum(f, s) = 0
    BY <1>3, SumStep, Zenon
  <2> QED BY <1>2, <2>1
<1>5. Pick(s) \in s /\ Sum(f, s) = f[Pick(s)] + Sum(f, u)
  BY <1>3, <1>4, SumStep
<1>6. Sum(f, u) \in Nat
  BY <1>2, <1>5
<1>7. f[Pick(s)] \in Nat
  BY <1>2, <1>5
<1> QED BY <1>2, <1>5, <1>6, <1>7

\* Any element may be taken out of a sum.
LEMMA SumRemove ==
  ASSUME NEW f, NEW D, IsFiniteSet(D), \A x \in D : f[x] \in Nat, NEW x \in D
  PROVE  Sum(f, D) = f[x] + Sum(f, D \ {x})
<1> DEFINE F == {s \in SUBSET D : \E y \in s : Sum(f, s) # f[y] + Sum(f, s \ {y})}
<1> SUFFICES ASSUME F # {} PROVE FALSE
  BY Zenon
<1>1. PICK s \in F : \A u \in F : u \subseteq s => u = s
  <2>1. F \subseteq SUBSET D
    OBVIOUS
  <2> HIDE DEF F
  <2> QED BY <2>1, LeastSet
<1>2. PICK y \in s : Sum(f, s) # f[y] + Sum(f, s \ {y})
  BY <1>1
<1>3. s \in SUBSET D /\ \A v \in SUBSET D : v \subseteq s /\ v # s => \A z \in v : Sum(f, v) = f[z] + Sum(f, v \ {z})
  BY <1>1, Zenon
<1> HIDE DEF F
<1> DEFINE p == Pick(s)
           a == s \ {p}
           b == s \ {y}
           c == s \ {p, y}
<1>4. IsFiniteSet(s)
  BY <1>3, FS_Subset
<1>5. p \in s /\ Sum(f, s) = f[p] + Sum(f, a)
  BY <1>2, <1>4, SumStep
<1>6. p # y
  BY <1>2, <1>5
<1>7. Sum(f, a) = f[y] + Sum(f, a \ {y})
  BY <1>2, <1>3, <1>5, <1>6
<1>8. Sum(f, b) = f[p] + Sum(f, b \ {p})
  BY <1>2, <1>3, <1>5, <1>6
<1>9. a \ {y} = c /\ b \ {p} = c
  OBVIOUS
<1>10. f[p] \in Nat /\ f[y] \in Nat
  BY <1>2, <1>3, <1>5
<1>11. Sum(f, c) \in Nat
  <2>1. IsFiniteSet(c) /\ c \in SUBSET D
    BY <1>3, <1>4, FS_Subset
  <2> QED BY <2>1, SumType
<1> HIDE DEF p, a, b, c
<1>12. Sum(f, s) = f[y] + Sum(f, b)
  BY <1>5, <1>7, <1>8, <1>9, <1>10, <1>11
<1> QED BY <1>2, <1>12 DEF b

\* A sum is the sum over a part and over the rest.
LEMMA SumSplit ==
  ASSUME NEW f, NEW D, IsFiniteSet(D), \A x \in D : f[x] \in Nat, NEW E \in SUBSET D
  PROVE  Sum(f, D) = Sum(f, E) + Sum(f, D \ E)
<1> DEFINE F == {s \in SUBSET D : Sum(f, D) # Sum(f, s) + Sum(f, D \ s)}
<1> SUFFICES ASSUME F # {} PROVE FALSE
  BY Zenon
<1>1. PICK s \in F : \A u \in F : u \subseteq s => u = s
  <2>1. F \subseteq SUBSET D
    OBVIOUS
  <2> HIDE DEF F
  <2> QED BY <2>1, LeastSet
<1>2. s \in SUBSET D /\ Sum(f, D) # Sum(f, s) + Sum(f, D \ s)
        /\ \A v \in SUBSET D : v \subseteq s /\ v # s => Sum(f, D) = Sum(f, v) + Sum(f, D \ v)
  BY <1>1
<1> HIDE DEF F
<1>3. Sum(f, {}) = 0
  BY SumStep, FS_EmptySet, Zenon
<1>4. Sum(f, D) \in Nat
  BY SumType
<1>5. s # {}
  <2>1. D \ {} = D
    OBVIOUS
  <2>2. Sum(f, D) = Sum(f, {}) + Sum(f, D \ {})
    BY <1>3, <1>4, <2>1
  <2> QED BY <1>2, <2>2, Zenon
<1>6. PICK y \in s : TRUE
  BY <1>5
<1> DEFINE u == s \ {y}
           r == D \ s
           q == D \ u
<1>7. Sum(f, D) = Sum(f, u) + Sum(f, q)
  BY <1>2
<1>8. IsFiniteSet(s) /\ IsFiniteSet(q) /\ IsFiniteSet(u) /\ IsFiniteSet(r)
  BY <1>2, FS_Subset
<1>9. Sum(f, s) = f[y] + Sum(f, u)
  BY <1>2, <1>8, SumRemove
<1>10. Sum(f, q) = f[y] + Sum(f, r)
  <2>1. y \in q /\ q \ {y} = r /\ \A x \in q : f[x] \in Nat
    BY <1>2
  <2> HIDE DEF q, r
  <2> QED BY <2>1, <1>8, SumRemove
<1>11. f[y] \in Nat /\ Sum(f, u) \in Nat /\ Sum(f, r) \in Nat
  BY <1>2, <1>8, SumType
<1> HIDE DEF u, q
<1>12. Sum(f, D) = Sum(f, s) + Sum(f, r)
  BY <1>7, <1>9, <1>10, <1>11
<1> QED BY <1>2, <1>12

\* Taking the last or the first element out of a sum over an interval.
LEMMA SumLast ==
  ASSUME NEW f, NEW a \in Int, NEW b \in Int, a <= b, \A i \in a..b : f[i] \in Nat
  PROVE  Sum(f, a..b) = f[b] + Sum(f, a..(b - 1))
<1> DEFINE D == a..b
<1>1. IsFiniteSet(D)
  BY FS_Interval
<1>2. b \in D
  OBVIOUS
<1>3. D \ {b} = a..(b - 1)
  OBVIOUS
<1>4. \A i \in D : f[i] \in Nat
  OBVIOUS
<1> HIDE DEF D
<1>5. \A y \in D : Sum(f, D) = f[y] + Sum(f, D \ {y})
  BY <1>1, <1>4, SumRemove
<1>6. Sum(f, D) = f[b] + Sum(f, D \ {b})
  BY <1>2, <1>5
<1> QED BY <1>3, <1>6, Zenon DEF D

\* The sum over an interval is its first term and the rest.
LEMMA SumFirst ==
  ASSUME NEW f, NEW a \in Int, NEW b \in Int, a <= b, \A i \in a..b : f[i] \in Nat
  PROVE  Sum(f, a..b) = f[a] + Sum(f, (a + 1)..b)
<1> DEFINE D == a..b
<1>1. IsFiniteSet(D)
  BY FS_Interval
<1>2. a \in D
  OBVIOUS
<1>3. D \ {a} = (a + 1)..b
  OBVIOUS
<1>4. \A i \in D : f[i] \in Nat
  OBVIOUS
<1> HIDE DEF D
<1>5. \A y \in D : Sum(f, D) = f[y] + Sum(f, D \ {y})
  BY <1>1, <1>4, SumRemove
<1>6. Sum(f, D) = f[a] + Sum(f, D \ {a})
  BY <1>2, <1>5
<1> QED BY <1>3, <1>6, Zenon DEF D

\* Sums over intervals of the same values, shifted by one.
LEMMA SumShift ==
  ASSUME NEW f, NEW g, NEW n \in Nat,
         \A i \in 1..n : g[i] = f[i + 1] /\ g[i] \in Nat
  PROVE  Sum(g, 1..n) = Sum(f, 2..(n + 1))
<1> DEFINE T == {k \in 0..n : Sum(g, 1..k) # Sum(f, 2..(k + 1))}
<1> SUFFICES ASSUME T # {} PROVE FALSE
  OBVIOUS
<1>1. PICK k \in T : \A m \in T : k <= m
  <2>1. T \subseteq Nat
    OBVIOUS
  <2> HIDE DEF T
  <2> QED BY <2>1, LeastNat, Zenon
<1>2. /\ k \in 0..n /\ Sum(g, 1..k) # Sum(f, 2..(k + 1))
      /\ k # 0 => Sum(g, 1..(k - 1)) = Sum(f, 2..((k - 1) + 1))
  <2>1. k - 1 \notin T
    BY <1>1
  <2> QED BY <1>1, <2>1
<1> HIDE DEF T
<1>3. k # 0
  <2>1. 1..0 = {} /\ 2..(0 + 1) = {}
    OBVIOUS
  <2>2. Sum(g, 1..0) = Sum(f, 2..(0 + 1))
    BY <2>1, SumStep, FS_EmptySet, Zenon
  <2> QED BY <1>2, <2>2
<1>4. Sum(g, 1..k) = g[k] + Sum(g, 1..(k - 1))
  <2>1. \A i \in 1..k : g[i] \in Nat
    BY <1>2
  <2> QED BY <1>2, <1>3, <2>1, SumLast
<1>5. Sum(f, 2..(k + 1)) = f[k + 1] + Sum(f, 2..k)
  <2>2. \A i \in 2..(k + 1) : f[i] \in Nat
    <3> TAKE i \in 2..(k + 1)
    <3>1. i - 1 \in 1..n /\ (i - 1) + 1 = i
      BY <1>2
    <3> QED BY <3>1, Zenon
  <2> DEFINE m == k + 1
  <2>3. m \in Int /\ 2 <= m /\ m - 1 = k
    BY <1>2, <1>3
  <2> HIDE DEF m
  <2>4. Sum(f, 2..m) = f[m] + Sum(f, 2..(m - 1))
    BY <2>2, <2>3, SumLast DEF m
  <2> QED BY <2>3, <2>4 DEF m
<1>6. g[k] = f[k + 1] /\ (k - 1) + 1 = k
  BY <1>2, <1>3
<1> QED BY <1>2, <1>3, <1>4, <1>5, <1>6

-----------------------------------------------------------------------------
(* The bytes of a ring *)

SumSizes(ms) == Sum([i \in DOMAIN ms |-> ms[i].size], DOMAIN ms)

\* The sizes of the messages of a ring add up to a natural number.
LEMMA SumSizesType ==
  ASSUME NEW ms \in Seq(BufferedMessage)
  PROVE  SumSizes(ms) \in Nat
<1> DEFINE f == [i \in DOMAIN ms |-> ms[i].size]
<1>1. IsFiniteSet(DOMAIN ms)
  BY FS_Interval, LenProperties
<1>2. \A i \in DOMAIN ms : f[i] \in Nat
  <2> TAKE i \in DOMAIN ms
  <2>1. ms[i] \in BufferedMessage
    BY LenProperties
  <2> QED BY <2>1 DEF BufferedMessage
<1> HIDE DEF f
<1>3. Sum(f, DOMAIN ms) \in Nat
  BY <1>1, <1>2, SumType
<1> QED BY <1>3 DEF SumSizes, f

\* An empty ring has no bytes.
LEMMA SumSizesEmpty == SumSizes(<<>>) = 0
<1>1. DOMAIN <<>> = {}
  OBVIOUS
<1>2. Sum([i \in DOMAIN <<>> |-> <<>>[i].size], {}) = 0
  BY SumStep, FS_EmptySet, Zenon
<1> QED BY <1>1, <1>2 DEF SumSizes

\* push_back() adds the size of the new message.
LEMMA SumSizesAppend ==
  ASSUME NEW ms \in Seq(BufferedMessage), NEW m \in BufferedMessage
  PROVE  SumSizes(Append(ms, m)) = SumSizes(ms) + m.size
<1> DEFINE new == Append(ms, m)
           n == Len(ms)
           f == [i \in DOMAIN ms |-> ms[i].size]
           g == [i \in DOMAIN new |-> new[i].size]
<1>1. n \in Nat /\ DOMAIN ms = 1..n /\ DOMAIN new = 1..(n + 1)
  BY LenProperties, AppendProperties
<1>2. /\ g[n + 1] = m.size
      /\ \A i \in 1..n : g[i] = f[i] /\ g[i] \in Nat
      /\ g[n + 1] \in Nat
  <2>1. new[n + 1] = m /\ \A i \in 1..n : new[i] = ms[i]
    BY AppendProperties
  <2>2. \A i \in 1..n : ms[i] \in BufferedMessage
    BY <1>1, ElementOfSeq
  <2>3. m.size \in Nat /\ \A i \in 1..n : ms[i].size \in Nat
    BY <2>2, Zenon DEF BufferedMessage
  <2>4. g[n + 1] = new[n + 1].size
    BY <1>1
  <2>5. \A i \in 1..n : g[i] = new[i].size /\ f[i] = ms[i].size
    BY <1>1
  <2> HIDE DEF g, f, new, n
  <2> QED BY <2>1, <2>3, <2>4, <2>5
<1>3. IsFiniteSet(1..n) /\ IsFiniteSet(1..(n + 1))
  BY <1>1, FS_Interval
<1>4. n + 1 \in Int /\ 1 <= n + 1 /\ (n + 1) - 1 = n
  BY <1>1
<1>5. \A i \in 1..(n + 1) : g[i] \in Nat
  <2> TAKE i \in 1..(n + 1)
  <2>1. i \in 1..n \/ i = n + 1
    BY <1>1
  <2> HIDE DEF g, f
  <2> QED BY <1>2, <2>1
<1>6. SumSizes(new) = Sum(g, 1..(n + 1)) /\ SumSizes(ms) = Sum(f, 1..n)
  BY <1>1 DEF SumSizes
<1> HIDE DEF g, f, new, n
<1>7. Sum(g, 1..(n + 1)) = g[n + 1] + Sum(g, 1..n)
  <2> DEFINE m1 == n + 1
  <2> HIDE DEF m1
  <2>1. Sum(g, 1..m1) = g[m1] + Sum(g, 1..(m1 - 1))
    BY <1>4, <1>5, SumLast DEF m1
  <2> QED BY <1>4, <2>1 DEF m1
<1>8. Sum(g, 1..n) = Sum(f, 1..n)
  BY <1>2, <1>3, SumCongruent, Zenon
<1>9. Sum(f, 1..n) \in Nat
  BY <1>6, SumSizesType
<1>10. SumSizes(new) = SumSizes(ms) + m.size
  BY <1>2, <1>6, <1>7, <1>8, <1>9
<1> QED BY <1>10 DEF new

\* pop_front() takes the size of the front away.
LEMMA SumSizesTail ==
  ASSUME NEW ms \in Seq(BufferedMessage), ms # <<>>
  PROVE  SumSizes(ms) = Head(ms).size + SumSizes(Tail(ms))
<1> DEFINE tail == Tail(ms)
           n == Len(ms) - 1
           f == [i \in DOMAIN ms |-> ms[i].size]
           g == [i \in DOMAIN tail |-> tail[i].size]
<1>1. /\ n \in Nat /\ DOMAIN ms = 1..(n + 1) /\ DOMAIN tail = 1..n
      /\ \A i \in 1..n : tail[i] = ms[i + 1]
      /\ Head(ms) = ms[1]
  BY LenProperties, HeadTailProperties, EmptySeq
<1>2. ASSUME NEW i \in 1..(n + 1) PROVE f[i] \in Nat /\ f[i] = ms[i].size
  <2>1. ms[i] \in BufferedMessage
    BY <1>1, LenProperties
  <2> QED BY <1>1, <2>1 DEF BufferedMessage
<1>3. \A i \in 1..n : g[i] = f[i + 1] /\ g[i] \in Nat
  <2> TAKE i \in 1..n
  <2>1. i + 1 \in 1..(n + 1)
    BY <1>1
  <2>2. g[i] = ms[i + 1].size
    BY <1>1
  <2> HIDE DEF f, g
  <2> QED BY <1>2, <2>1, <2>2
<1>4. SumSizes(ms) = Sum(f, 1..(n + 1)) /\ SumSizes(tail) = Sum(g, 1..n)
  BY <1>1 DEF SumSizes
<1>5. n + 1 \in Int /\ 1 <= n + 1 /\ 1 \in 1..(n + 1)
  BY <1>1
<1> HIDE DEF f, g, tail, n
<1>6. Sum(f, 1..(n + 1)) = f[1] + Sum(f, 2..(n + 1))
  <2> DEFINE m1 == n + 1
  <2> HIDE DEF m1
  <2>1. Sum(f, 1..m1) = f[1] + Sum(f, (1 + 1)..m1)
    BY <1>2, <1>5, SumFirst DEF m1
  <2>2. 1 + 1 = 2
    OBVIOUS
  <2> QED BY <2>1, <2>2 DEF m1
<1>7. Sum(g, 1..n) = Sum(f, 2..(n + 1))
  BY <1>1, <1>3, SumShift
<1>8. f[1] = Head(ms).size
  BY <1>1, <1>2, <1>5
<1>9. SumSizes(ms) = Head(ms).size + SumSizes(tail)
  BY <1>4, <1>6, <1>7, <1>8
<1> QED BY <1>9 DEF tail

-----------------------------------------------------------------------------
(* One ring *)

\* A ring and the payloads stored in it since it was created: it holds the last
\* of them under consecutive numbers, all of them while it is not full, and its
\* byte counter is the sum of its sizes.
RingOK(b, h) ==
  /\ b \in TopicBuffer
  /\ h \in Seq(Nat)
  /\ b.bytes = SumSizes(b.messages)
  /\ b.next = Len(h) + 1
  /\ Len(b.messages) <= PerTopic
  /\ Len(b.messages) <= Len(h)
  /\ Len(b.messages) < PerTopic => Len(b.messages) = Len(h)
  /\ \A i \in 1..Len(b.messages) :
       /\ b.messages[i].seq = Len(h) - Len(b.messages) + i
       /\ b.messages[i].payload = h[Len(h) - Len(b.messages) + i]

\* A TopicBuffer as the constructor leaves it is a ring of no messages.
LEMMA NewRing == RingOK(NewBuffer, <<>>)
<1>1. NewBuffer \in TopicBuffer
  BY EmptySeq DEF NewBuffer, TopicBuffer
<1>2. <<>> \in Seq(Nat) /\ Len(<<>>) = 0
  BY EmptySeq
<1> QED BY <1>1, <1>2, SumSizesEmpty, BufferAssumption DEF NewBuffer, RingOK

\* The byte count of a ring is a natural number.
LEMMA RingBytes ==
  ASSUME NEW b, NEW h, RingOK(b, h)
  PROVE  b.bytes \in Nat
<1>1. b.messages \in Seq(BufferedMessage)
  BY DEF RingOK, TopicBuffer
<1> QED BY <1>1, SumSizesType DEF RingOK

\* How many messages push() takes out.
Dropped(b) == IF RingFull(b) THEN 1 ELSE 0

\* The first k messages of ms are gone and m has come last.
PushedAs(ms, k, new, m) ==
  /\ new \in Seq(BufferedMessage)
  /\ Len(ms) \in Nat
  /\ Len(ms) >= k
  /\ Len(new) = Len(ms) - k + 1
  /\ \A i \in 1..(Len(ms) - k) : new[i] = ms[i + k]
  /\ new[Len(new)] = m

\* What push() does to the messages: the front goes if the ring is full, and the
\* new message comes last.
LEMMA PushedMessages ==
  ASSUME NEW b, NEW h, RingOK(b, h), NEW size \in Nat, NEW payload \in Nat
  PROVE  PushedAs(b.messages, Dropped(b), Pushed(b, size, payload).messages,
                  [seq |-> b.next, size |-> size, payload |-> payload])
<1> DEFINE ms == b.messages
           m == [seq |-> b.next, size |-> size, payload |-> payload]
           new == Pushed(b, size, payload).messages
<1>1. ms \in Seq(BufferedMessage) /\ Len(ms) \in Nat /\ b.next \in Nat
  BY LenProperties DEF RingOK, TopicBuffer
<1>2. m \in BufferedMessage
  BY <1>1 DEF BufferedMessage
<1>3. CASE RingFull(b)
  <2>0. Dropped(b) = 1
    BY <1>3, Zenon DEF Dropped
  <2>1. ms # <<>> /\ Len(ms) >= 1
    BY <1>1, <1>3, EmptySeq, BufferAssumption DEF RingFull
  <2> DEFINE tail == Tail(ms)
  <2>2. tail \in Seq(BufferedMessage) /\ Len(tail) = Len(ms) - 1
        /\ \A i \in 1..Len(tail) : tail[i] = ms[i + 1]
    BY <1>1, <2>1, HeadTailProperties
  <2>3. new = Append(tail, m)
    BY <1>3 DEF Pushed
  <2> HIDE DEF new, tail, m
  <2>4. new \in Seq(BufferedMessage) /\ Len(new) = Len(tail) + 1
        /\ (\A i \in 1..Len(tail) : new[i] = tail[i]) /\ new[Len(tail) + 1] = m
    BY <1>2, <2>2, <2>3, AppendProperties
  <2>5. new[Len(new)] = m /\ Len(new) = Len(ms) - 1 + 1
    BY <2>2, <2>4
  <2>6. \A i \in 1..(Len(ms) - 1) : new[i] = ms[i + 1]
    BY <2>2, <2>4
  <2>7. PushedAs(ms, 1, new, m)
    BY <1>1, <2>1, <2>4, <2>5, <2>6, Zenon DEF PushedAs
  <2> QED BY <2>0, <2>7, Zenon DEF new, m
<1>4. CASE ~RingFull(b)
  <2>0. Dropped(b) = 0
    BY <1>4, Zenon DEF Dropped
  <2>3. new = Append(ms, m)
    BY <1>4 DEF Pushed
  <2> HIDE DEF new, m
  <2>4. new \in Seq(BufferedMessage) /\ Len(new) = Len(ms) + 1
        /\ (\A i \in 1..Len(ms) : new[i] = ms[i]) /\ new[Len(ms) + 1] = m
    BY <1>1, <1>2, <2>3, AppendProperties
  <2>5. new[Len(new)] = m /\ Len(new) = Len(ms) - 0 + 1 /\ Len(ms) >= 0
    BY <1>1, <2>4
  <2>6. \A i \in 1..(Len(ms) - 0) : new[i] = ms[i + 0]
    BY <1>1, <2>4
  <2>7. PushedAs(ms, 0, new, m)
    BY <1>1, <2>4, <2>5, <2>6, Zenon DEF PushedAs
  <2> QED BY <2>0, <2>7, Zenon DEF new, m
<1> QED BY <1>3, <1>4, Zenon

\* push() keeps the byte counter exact.
LEMMA PushedBytes ==
  ASSUME NEW b, NEW h, RingOK(b, h), NEW size \in Nat, NEW payload \in Nat
  PROVE  LET new == Pushed(b, size, payload)
         IN  /\ new.bytes = SumSizes(new.messages)
             /\ new.bytes \in Nat
             /\ new.bytes <= b.bytes + size
<1> DEFINE ms == b.messages
           m == [seq |-> b.next, size |-> size, payload |-> payload]
           new == Pushed(b, size, payload)
<1>1. ms \in Seq(BufferedMessage) /\ Len(ms) \in Nat /\ b.next \in Nat
  BY LenProperties DEF RingOK, TopicBuffer
<1>2. m \in BufferedMessage /\ m.size = size
  BY <1>1 DEF BufferedMessage
<1>3. b.bytes = SumSizes(ms) /\ b.bytes \in Nat
  BY RingBytes, Zenon DEF RingOK
<1>4. CASE RingFull(b)
  <2>1. ms # <<>>
    BY <1>1, <1>4, EmptySeq, BufferAssumption DEF RingFull
  <2> DEFINE tail == Tail(ms)
             front == Head(ms).size
  <2>2. tail \in Seq(BufferedMessage) /\ front \in Nat
    <3>1. tail \in Seq(BufferedMessage) /\ Head(ms) \in BufferedMessage
      BY <1>1, <2>1, HeadTailProperties
    <3> QED BY <3>1 DEF BufferedMessage
  <2>3. SumSizes(ms) = front + SumSizes(tail)
    BY <1>1, <2>1, SumSizesTail
  <2>4. new.messages = Append(tail, m) /\ new.bytes = b.bytes - front + size
    BY <1>4, Zenon DEF Pushed
  <2> HIDE DEF tail, front, m, new
  <2>5. SumSizes(Append(tail, m)) = SumSizes(tail) + m.size
    BY <1>2, <2>2, SumSizesAppend
  <2>6. SumSizes(tail) \in Nat
    BY <2>2, SumSizesType
  <2>7. new.bytes = SumSizes(tail) + size
    BY <1>3, <2>2, <2>3, <2>4, <2>6
  <2>8. new.bytes <= b.bytes + size
    BY <1>3, <2>2, <2>4
  <2> QED BY <1>2, <2>4, <2>5, <2>6, <2>7, <2>8 DEF new
<1>5. CASE ~RingFull(b)
  <2>1. new.messages = Append(ms, m) /\ new.bytes = b.bytes - 0 + size
    BY <1>5 DEF Pushed
  <2> HIDE DEF m, new
  <2>2. SumSizes(Append(ms, m)) = SumSizes(ms) + m.size
    BY <1>1, <1>2, SumSizesAppend
  <2> QED BY <1>2, <1>3, <2>1, <2>2 DEF new
<1> QED BY <1>4, <1>5

\* push() keeps a ring in order.
LEMMA PushedRing ==
  ASSUME NEW b, NEW h, RingOK(b, h), NEW size \in Nat, NEW payload \in Nat
  PROVE  LET new == Pushed(b, size, payload)
         IN  /\ RingOK(new, Append(h, payload))
             /\ new.messages # <<>>
<1> DEFINE new == Pushed(b, size, payload)
           ms == b.messages
           ns == new.messages
           k == Dropped(b)
           n == Len(ms)
           g == Append(h, payload)
           l == Len(h)
           m == [seq |-> b.next, size |-> size, payload |-> payload]
<1>0. PushedAs(ms, k, ns, m)
  BY PushedMessages, Zenon
<1>2. /\ b.next = l + 1 /\ h \in Seq(Nat) /\ l \in Nat
      /\ n <= PerTopic /\ n <= l /\ (n < PerTopic => n = l)
      /\ \A i \in 1..n : ms[i].seq = l - n + i /\ ms[i].payload = h[l - n + i]
  BY LenProperties, Zenon DEF RingOK
<1>3. /\ g \in Seq(Nat) /\ Len(g) = l + 1 /\ g[l + 1] = payload
      /\ \A i \in 1..l : g[i] = h[i]
  BY <1>2, AppendProperties
<1>4. new.next = b.next + 1 /\ new = [next |-> new.next, messages |-> ns, bytes |-> new.bytes]
  BY Zenon DEF Pushed
<1>5. /\ new.bytes = SumSizes(ns) /\ new.bytes \in Nat
  BY PushedBytes, Zenon
<1>7. k \in 0..1 /\ (k = 1 <=> n >= PerTopic) /\ PerTopic \in Nat \ {0}
  BY BufferAssumption DEF Dropped, RingFull
<1> HIDE DEF new, ms, ns, k, n, g, l, m
<1>1. /\ ns \in Seq(BufferedMessage) /\ n \in Nat /\ n >= k
      /\ Len(ns) = n - k + 1
      /\ \A i \in 1..(n - k) : ns[i] = ms[i + k]
      /\ ns[Len(ns)] = m
  BY <1>0, Zenon DEF PushedAs, n
<1>13. m.seq = b.next /\ m.payload = payload
  BY DEF m
<1>14. new.next = l + 2 /\ new.next \in Nat
  BY <1>2, <1>4
<1>6. new \in TopicBuffer
  BY <1>14, <1>1, <1>4, <1>5 DEF TopicBuffer
<1>8. Len(ns) <= PerTopic /\ Len(ns) <= Len(g) /\ (Len(ns) < PerTopic => Len(ns) = Len(g))
  BY <1>1, <1>2, <1>3, <1>7
<1>9. ASSUME NEW i \in 1..Len(ns)
      PROVE  /\ ns[i].seq = Len(g) - Len(ns) + i
             /\ ns[i].payload = g[Len(g) - Len(ns) + i]
  <2>1. CASE i = Len(ns)
    <3>1. Len(g) - Len(ns) + i = l + 1
      BY <1>1, <1>2, <1>3, <1>7, <2>1
    <3>2. ns[i].seq = l + 1 /\ ns[i].payload = payload
      BY <1>1, <1>2, <1>13, <2>1
    <3> QED BY <1>3, <3>1, <3>2, Zenon
  <2>2. CASE i # Len(ns)
    <3>1. i \in 1..(n - k) /\ i + k \in 1..n
      BY <1>1, <1>7, <1>9, <2>2
    <3>2. ns[i] = ms[i + k]
      BY <1>1, <3>1
    <3>3. Len(g) - Len(ns) + i = l - n + (i + k) /\ l - n + (i + k) \in 1..l
      BY <1>1, <1>2, <1>3, <1>7, <3>1
    <3>4. ms[i + k].seq = l - n + (i + k) /\ ms[i + k].payload = h[l - n + (i + k)]
      BY <1>2, <3>1
    <3> QED BY <1>3, <3>2, <3>3, <3>4
  <2> QED BY <2>1, <2>2
<1>10. ns # <<>>
  <2>1. Len(ns) >= 1
    BY <1>1, <1>7
  <2> QED BY <2>1, EmptySeq
<1>11. new.next = Len(g) + 1
  BY <1>2, <1>3, <1>14
<1>12. RingOK(new, g)
  BY <1>3, <1>5, <1>6, <1>8, <1>9, <1>11, Zenon DEF RingOK, ns
<1> QED BY <1>10, <1>12 DEF new, g, ns

-----------------------------------------------------------------------------
(* The inductive invariant *)

SumBytes(bs, ts) == Sum([t \in ts |-> bs[t].bytes], ts)

\* Every ring is in order, the global counter is the sum of theirs and within the
\* limit; a topic without a buffer has stored nothing in it.
IInv ==
  /\ TypeOK
  /\ buffers = [t \in DOMAIN buffers |-> buffers[t]]
  /\ IsFiniteSet(DOMAIN buffers)
  /\ total = SumBytes(buffers, DOMAIN buffers)
  /\ MaxBytes > 0 => total <= MaxBytes
  /\ \A t \in DOMAIN buffers : RingOK(buffers[t], history[t]) /\ buffers[t].messages # <<>>
  /\ \A t \in Topics \ DOMAIN buffers : history[t] = <<>>

\* BytesOf, which the eviction loop subtracts, is the sum of the byte counts of
\* the buffers it erases.
LEMMA BytesOfIsSum ==
  ASSUME NEW ts
  PROVE  BytesOf(ts) = SumBytes(buffers, ts)
BY BytesSum, Zenon DEF BytesOf, SumBytes

\* The counter splits into what a set of topics holds and what the others hold,
\* which is the counter of the map without them.
LEMMA EvictedBytes ==
  ASSUME IInv, NEW E \in SUBSET DOMAIN buffers
  PROVE  /\ SumBytes(buffers, E) \in Nat
         /\ SumBytes(buffers, DOMAIN buffers \ E) \in Nat
         /\ total = SumBytes(buffers, E) + SumBytes(buffers, DOMAIN buffers \ E)
         /\ SumBytes(Without(E), DOMAIN buffers \ E) = SumBytes(buffers, DOMAIN buffers \ E)
         /\ IsFiniteSet(DOMAIN buffers \ E)
<1> DEFINE D == DOMAIN buffers
           R == D \ E
           f == [t \in D |-> buffers[t].bytes]
           fE == [t \in E |-> buffers[t].bytes]
           fR == [t \in R |-> buffers[t].bytes]
<1>1. IsFiniteSet(D) /\ IsFiniteSet(E) /\ IsFiniteSet(R) /\ R \in SUBSET D
  BY FS_Subset DEF IInv
<1>2. \A t \in D : f[t] \in Nat
  BY DEF IInv, TypeOK
<1>3. (\A t \in E : fE[t] = f[t]) /\ (\A t \in R : fR[t] = f[t])
  OBVIOUS
<1>4. total = Sum(f, D)
  BY DEF IInv, SumBytes
<1>5. SumBytes(buffers, E) = Sum(fE, E) /\ SumBytes(buffers, R) = Sum(fR, R)
  BY DEF SumBytes
<1>6. SumBytes(Without(E), R) = Sum(fR, R)
  <2>1. [t \in R |-> Without(E)[t].bytes] = fR
    BY DEF Without, Restrict
  <2> QED BY <2>1 DEF SumBytes
<1> HIDE DEF f, fE, fR, R, D
<1>7. Sum(fE, E) = Sum(f, E) /\ Sum(fR, R) = Sum(f, R)
  BY <1>1, <1>3, SumCongruent
<1>8. Sum(f, E) \in Nat /\ Sum(f, R) \in Nat
  BY <1>1, <1>2, SumType DEF D
<1>9. Sum(f, D) = Sum(f, E) + Sum(f, R)
  BY <1>1, <1>2, SumSplit DEF D, R
<1> QED BY <1>1, <1>4, <1>5, <1>6, <1>7, <1>8, <1>9 DEF D, R

\* After a set of topics is erased, alone.
LEMMA Erased ==
  ASSUME IInv, NEW E \in SUBSET DOMAIN buffers
  PROVE  /\ DOMAIN Without(E) = DOMAIN buffers \ E
         /\ Without(E) = [t \in DOMAIN Without(E) |-> Without(E)[t]]
         /\ \A t \in DOMAIN buffers \ E : Without(E)[t] = buffers[t]
         /\ Forget(E) \in [Topics -> Seq(Nat)]
         /\ \A t \in DOMAIN buffers \ E : t \in Topics /\ Forget(E)[t] = history[t]
         /\ \A t \in Topics \ (DOMAIN buffers \ E) : Forget(E)[t] = <<>>
<1>1. DOMAIN buffers \subseteq Topics /\ history \in [Topics -> Seq(Nat)]
  BY DEF IInv, TypeOK
<1>2. \A t \in Topics \ DOMAIN buffers : history[t] = <<>>
  BY DEF IInv
<1>3. <<>> \in Seq(Nat)
  BY EmptySeq
<1>4. Forget(E) \in [Topics -> Seq(Nat)]
  BY <1>1, <1>3 DEF Forget
<1>5. \A t \in Topics : Forget(E)[t] = IF t \in E THEN <<>> ELSE history[t]
  BY DEF Forget
<1>6. /\ DOMAIN Without(E) = DOMAIN buffers \ E
      /\ Without(E) = [t \in DOMAIN Without(E) |-> Without(E)[t]]
      /\ \A t \in DOMAIN buffers \ E : Without(E)[t] = buffers[t]
  BY DEF Without, Restrict
<1>7. \A t \in DOMAIN buffers \ E : t \in Topics /\ Forget(E)[t] = history[t]
  BY <1>1, <1>5
<1>8. \A t \in Topics \ (DOMAIN buffers \ E) : Forget(E)[t] = <<>>
  BY <1>2, <1>5
<1> QED BY <1>4, <1>6, <1>7, <1>8

\* Erasing whole buffers, subtracting their bytes from the total and forgetting
\* what was buffered there keeps the invariant.
LEMMA EraseStep ==
  ASSUME IInv, NEW E \in SUBSET DOMAIN buffers,
         buffers' = Without(E), total' = total - BytesOf(E), history' = Forget(E),
         returned' \in Nat, calls' \in 0..MaxMessages, assigned' \in [Topics -> Seq(Nat)]
  PROVE  IInv'
<1> DEFINE R == DOMAIN buffers \ E
<1>1. DOMAIN buffers' = R /\ R \subseteq Topics /\ IsFiniteSet(R)
  BY Erased, EvictedBytes, Zenon DEF IInv, TypeOK
<1>2. buffers' = [t \in DOMAIN buffers' |-> buffers'[t]]
  <2>1. Without(E) = [t \in DOMAIN Without(E) |-> Without(E)[t]]
    BY Erased, Zenon
  <2> QED BY <2>1, Zenon
<1>3. \A t \in R : buffers'[t] = buffers[t] /\ history'[t] = history[t]
  <2>1. \A t \in DOMAIN buffers \ E : Without(E)[t] = buffers[t]
    BY Erased, Zenon
  <2>2. \A t \in DOMAIN buffers \ E : t \in Topics /\ Forget(E)[t] = history[t]
    BY Erased, Zenon
  <2> QED BY <2>1, <2>2, Zenon
<1>4. total' = SumBytes(buffers', R) /\ total' \in Nat /\ total' <= total
  <2>1. BytesOf(E) = SumBytes(buffers, E)
    BY BytesOfIsSum
  <2>2. /\ SumBytes(buffers, E) \in Nat /\ SumBytes(buffers, R) \in Nat
        /\ total = SumBytes(buffers, E) + SumBytes(buffers, R)
        /\ SumBytes(Without(E), R) = SumBytes(buffers, R)
    BY EvictedBytes
  <2>3. total' = SumBytes(buffers, R) /\ total' <= total
    BY <2>1, <2>2
  <2> QED BY <2>2, <2>3
<1>5. MaxBytes > 0 => total' <= MaxBytes
  <2>1. (MaxBytes > 0 => total <= MaxBytes) /\ total \in Nat /\ MaxBytes \in Nat
    BY BufferAssumption DEF IInv, TypeOK
  <2> QED BY <1>4, <2>1
<1>6. \A t \in R : RingOK(buffers'[t], history'[t]) /\ buffers'[t].messages # <<>>
  BY <1>3 DEF IInv
<1>7. \A t \in R : buffers'[t] \in TopicBuffer /\ buffers'[t].bytes \in Nat
  BY <1>3 DEF IInv, TypeOK
<1>8. history' \in [Topics -> Seq(Nat)] /\ \A t \in Topics \ R : history'[t] = <<>>
  BY Erased, Zenon
<1> HIDE DEF R
<1>9. TypeOK'
  BY <1>1, <1>4, <1>7, <1>8 DEF TypeOK
<1> QED BY <1>1, <1>2, <1>4, <1>5, <1>6, <1>8, <1>9 DEF IInv

\* Storing a message after a set of topics, possibly empty, is erased.
LEMMA StoreStep ==
  ASSUME IInv, NEW t \in Topics, NEW size \in Sizes, NEW E \in SUBSET DOMAIN buffers,
         Store(t, size, E), MaxBytes > 0 => Fits(size, E), calls' \in 0..MaxMessages
  PROVE  IInv' /\ returned' # 0
<1> DEFINE R == DOMAIN buffers \ E
           D == R \cup {t}
           b == IF t \in DOMAIN Without(E) THEN Without(E)[t] ELSE NewBuffer
           h == Forget(E)[t]
           new == Pushed(b, size, calls)
<1>1. /\ DOMAIN Without(E) = R /\ R \subseteq Topics /\ IsFiniteSet(R) /\ IsFiniteSet(D)
      /\ D \subseteq Topics
  <2>1. DOMAIN Without(E) = R /\ R \subseteq Topics /\ IsFiniteSet(R)
    BY Erased, EvictedBytes, Zenon DEF IInv, TypeOK
  <2> QED BY <2>1, FS_AddElement
<1>2. RingOK(b, h)
  <2>1. CASE t \in R
    <3>1. b = buffers[t] /\ h = history[t]
      BY <1>1, <2>1, Erased, Zenon
    <3> HIDE DEF b, h
    <3> QED BY <2>1, <3>1 DEF IInv
  <2>2. CASE t \notin R
    <3>1. b = NewBuffer /\ h = <<>>
      BY <1>1, <2>2, Erased, Zenon
    <3> HIDE DEF b, h
    <3> QED BY <3>1, NewRing
  <2> QED BY <2>1, <2>2, Zenon
<1>3. size \in Nat /\ calls \in Nat
  BY BufferAssumption DEF IInv, TypeOK
<1>4. /\ RingOK(new, Append(h, calls)) /\ new.messages # <<>>
      /\ new.bytes \in Nat /\ new.bytes <= b.bytes + size /\ b.bytes \in Nat
  BY <1>2, <1>3, PushedRing, PushedBytes, RingBytes, Zenon
<1>5. /\ buffers' = [u \in D |-> IF u = t THEN new ELSE Without(E)[u]]
      /\ total' = total - BytesOf(E) - b.bytes + new.bytes
      /\ returned' = b.next
      /\ history' = [Forget(E) EXCEPT ![t] = Append(@, calls)]
      /\ assigned' = [assigned EXCEPT ![t] = Append(@, b.next)]
  BY <1>1, Zenon DEF Store
<1>6. /\ DOMAIN buffers' = D /\ buffers' = [u \in DOMAIN buffers' |-> buffers'[u]]
      /\ buffers'[t] = new
      /\ \A u \in R \ {t} : buffers'[u] = Without(E)[u]
  <2> HIDE DEF new, R
  <2> QED BY <1>5, Zenon
<1>7. /\ history' \in [Topics -> Seq(Nat)]
      /\ history'[t] = Append(h, calls)
      /\ \A u \in Topics \ {t} : history'[u] = Forget(E)[u]
  <2>1. Forget(E) \in [Topics -> Seq(Nat)]
    BY Erased, Zenon
  <2>2. Append(Forget(E)[t], calls) \in Seq(Nat)
    BY <1>3, <2>1, AppendProperties
  <2> QED BY <1>5, <2>1, <2>2, Zenon
<1>77. \A u \in R : Without(E)[u] = buffers[u] /\ Forget(E)[u] = history[u]
  BY Erased, Zenon
<1>8. ASSUME NEW u \in D
      PROVE  RingOK(buffers'[u], history'[u]) /\ buffers'[u].messages # <<>>
  <2>1. CASE u = t
    BY <1>4, <1>6, <1>7, <2>1, Zenon
  <2>2. CASE u # t
    <3>1. u \in R /\ u \in R \ {t} /\ u \in Topics \ {t} /\ u \in DOMAIN buffers
      BY <1>1, <2>2
    <3>2. Without(E)[u] = buffers[u] /\ Forget(E)[u] = history[u]
      BY <1>77, <3>1, Zenon
    <3>3. buffers'[u] = Without(E)[u] /\ history'[u] = Forget(E)[u]
      BY <1>6, <1>7, <3>1, Zenon
    <3>4. buffers'[u] = buffers[u] /\ history'[u] = history[u]
      BY <3>2, <3>3, Zenon
    <3> QED BY <3>1, <3>4 DEF IInv
  <2> QED BY <2>1, <2>2
<1>9. \A u \in Topics \ D : history'[u] = <<>>
  BY <1>7, Erased, Zenon
<1>10. \A u \in D : buffers'[u] \in TopicBuffer /\ buffers'[u].bytes \in Nat
  BY <1>8, RingBytes, Zenon DEF RingOK
<1>11. b.next \in Nat /\ b.next # 0
  <2>1. h \in Seq(Nat) /\ b.next = Len(h) + 1
    BY <1>2, Zenon DEF RingOK
  <2>2. Len(h) \in Nat
    <3> HIDE DEF h
    <3> QED BY <2>1, LenProperties
  <2> HIDE DEF h, b
  <2> QED BY <2>1, <2>2
<1>12. total' = SumBytes(buffers', D)
  <2> DEFINE f == [u \in D |-> buffers'[u].bytes]
             w == [u \in R |-> Without(E)[u].bytes]
             Q == R \ {t}
  <2>1. \A u \in D : f[u] \in Nat
    BY <1>10, Zenon
  <2>2. SumBytes(buffers', D) = Sum(f, D)
    BY DEF SumBytes
  <2>3. f[t] = new.bytes
    BY <1>6
  <2>4. D \ {t} = Q /\ t \in D /\ Q \subseteq R
    OBVIOUS
  <2>5. \A u \in Q : f[u] = w[u]
    BY <1>6
  <2>6. SumBytes(Without(E), R) = Sum(w, R)
    BY DEF SumBytes
  <2>7. \A u \in R : w[u] \in Nat
    <3> TAKE u \in R
    <3>1. Without(E)[u] = buffers[u]
      BY Erased, Zenon
    <3>2. buffers[u].bytes \in Nat
      BY DEF IInv, TypeOK
    <3>3. w[u] = Without(E)[u].bytes
      OBVIOUS
    <3> QED BY <3>1, <3>2, <3>3
  <2>8. t \in R => w[t] = b.bytes
    BY <1>1
  <2>9. t \notin R => b.bytes = 0 /\ Q = R
    BY <1>1 DEF NewBuffer
  <2>10. IsFiniteSet(Q)
    BY <1>1, FS_Subset
  <2>11. total - BytesOf(E) = Sum(w, R)
    <3>1. BytesOf(E) = SumBytes(buffers, E)
      BY BytesOfIsSum
    <3>2. /\ SumBytes(buffers, E) \in Nat /\ SumBytes(buffers, R) \in Nat
          /\ total = SumBytes(buffers, E) + SumBytes(buffers, R)
          /\ SumBytes(Without(E), R) = SumBytes(buffers, R)
      BY EvictedBytes
    <3> QED BY <2>6, <3>1, <3>2
  <2> DEFINE nb == new.bytes
             bb == b.bytes
             rest == total - BytesOf(E)
  <2>12. total' = rest - bb + nb /\ nb \in Nat /\ bb \in Nat
    BY <1>4, <1>5
  <2> HIDE DEF f, w, Q, D, R, b, new, h
  <2>13. Sum(f, D) = f[t] + Sum(f, Q)
    <3>1. \A y \in D : Sum(f, D) = f[y] + Sum(f, D \ {y})
      <4>1. IsFiniteSet(D)
        BY <1>1
      <4> QED BY <2>1, <4>1, SumRemove
    <3> QED BY <2>4, <3>1
  <2>14. Sum(f, Q) = Sum(w, Q)
    BY <2>5, <2>10, SumCongruent
  <2>15. Sum(w, R) = bb + Sum(w, Q)
    <3>1. CASE t \in R
      BY <1>1, <2>7, <2>8, <3>1, SumRemove DEF Q
    <3>2. CASE t \notin R
      <4>1. Sum(w, R) \in Nat
        BY <1>1, <2>7, SumType
      <4> QED BY <2>9, <3>2, <4>1
    <3> QED BY <3>1, <3>2
  <2>16. Sum(w, Q) \in Nat
    BY <2>4, <2>7, <2>10, SumType
  <2> HIDE DEF nb, bb, rest
  <2>17. total' = nb + Sum(w, Q)
    BY <2>11, <2>12, <2>15, <2>16 DEF rest
  <2> QED BY <2>2, <2>3, <2>13, <2>14, <2>17 DEF nb
<1>13. total' \in Nat
  <2> DEFINE f == [u \in D |-> buffers'[u].bytes]
  <2>1. \A u \in D : f[u] \in Nat
    BY <1>10
  <2>2. total' = Sum(f, D)
    BY <1>12 DEF SumBytes
  <2> HIDE DEF f, D
  <2> QED BY <1>1, <2>1, <2>2, SumType
<1>14. MaxBytes > 0 => total' <= MaxBytes
  <2> SUFFICES ASSUME MaxBytes > 0 PROVE total' <= MaxBytes
    OBVIOUS
  <2> DEFINE rest == total - BytesOf(E)
             nb == new.bytes
             bb == b.bytes
  <2>1. total \in Nat /\ BytesOf(E) \in Nat /\ MaxBytes \in Nat
    <3>1. BytesOf(E) = SumBytes(buffers, E)
      BY BytesOfIsSum
    <3> QED BY <3>1, EvictedBytes, BufferAssumption, Zenon DEF IInv, TypeOK
  <2>2. rest \in Int /\ rest + size <= MaxBytes
    BY <2>1 DEF Fits
  <2>3. total' = rest - bb + nb /\ nb \in Nat /\ bb \in Nat /\ nb <= bb + size
    BY <1>4, <1>5, Zenon
  <2> HIDE DEF rest, nb, bb
  <2> QED BY <1>3, <2>1, <2>2, <2>3
<1>15. assigned' \in [Topics -> Seq(Nat)]
  <2>1. assigned \in [Topics -> Seq(Nat)]
    BY DEF IInv, TypeOK
  <2>2. Append(assigned[t], b.next) \in Seq(Nat)
    BY <1>11, <2>1, AppendProperties
  <2> HIDE DEF b
  <2> QED BY <1>5, <2>1, <2>2, Zenon
<1>16. returned' \in Nat /\ returned' # 0
  BY <1>5, <1>11
<1> HIDE DEF D, R, b, h, new
<1>17. TypeOK'
  BY <1>1, <1>6, <1>7, <1>10, <1>13, <1>15, <1>16 DEF TypeOK
<1>18. IInv'
  BY <1>1, <1>6, <1>8, <1>9, <1>12, <1>14, <1>17 DEF IInv
<1> QED BY <1>16, <1>18

-----------------------------------------------------------------------------
(* Every reachable state *)

\* The invariant holds of a buffer as constructed.
LEMMA InitIInv == Init => IInv
<1> SUFFICES ASSUME Init PROVE IInv
  OBVIOUS
<1>1. DOMAIN buffers = {} /\ buffers = [t \in DOMAIN buffers |-> buffers[t]]
  BY DEF Init
<1>2. SumBytes(buffers, {}) = 0
  BY SumStep, FS_EmptySet, Zenon DEF SumBytes
<1>3. \A t \in Topics : history[t] = <<>>
  BY DEF Init
<1>4. TypeOK
  <2>1. <<>> \in Seq(Nat)
    BY EmptySeq
  <2>2. history \in [Topics -> Seq(Nat)] /\ assigned \in [Topics -> Seq(Nat)]
    BY <2>1 DEF Init
  <2> QED BY <1>1, <2>2, BufferAssumption DEF Init, TypeOK
<1>5. total = 0 /\ (MaxBytes > 0 => 0 <= MaxBytes)
  BY BufferAssumption DEF Init
<1>6. IsFiniteSet(DOMAIN buffers)
  BY <1>1, FS_EmptySet
<1> QED BY <1>1, <1>2, <1>3, <1>4, <1>5, <1>6 DEF IInv

\* The empty set of evictions erases nothing.
LEMMA NothingEvicted ==
  ASSUME IInv
  PROVE  BytesOf({}) = 0 /\ Without({}) = buffers
<1>1. BytesOf({}) = SumBytes(buffers, {})
  BY BytesOfIsSum
<1>2. SumBytes(buffers, {}) = 0
  BY SumStep, FS_EmptySet, Zenon DEF SumBytes
<1>3. Without({}) = [t \in DOMAIN buffers |-> buffers[t]]
  <2>1. DOMAIN buffers \ {} = DOMAIN buffers
    OBVIOUS
  <2> QED BY <2>1 DEF Without, Restrict
<1>4. buffers = [t \in DOMAIN buffers |-> buffers[t]]
  BY DEF IInv
<1> QED BY <1>1, <1>2, <1>3, <1>4

\* bufferMessage() keeps the invariant, whichever of its paths it takes.
LEMMA BufferMessageIInv ==
  ASSUME IInv, NEW t \in Topics, NEW size \in Sizes, BufferMessage(t, size)
  PROVE  IInv'
<1>1. calls' \in 0..MaxMessages
  BY BufferAssumption DEF BufferMessage, IInv, TypeOK
<1>2. size \in Nat /\ total \in Nat /\ MaxBytes \in Nat
  BY BufferAssumption DEF IInv, TypeOK
<1>3. CASE BufferWithRoom(t, size)
  <2>1. {} \in SUBSET DOMAIN buffers
    OBVIOUS
  <2>2. MaxBytes > 0 => Fits(size, {})
    <3>1. BytesOf({}) = 0
      BY NothingEvicted
    <3> QED BY <1>2, <1>3, <3>1 DEF BufferWithRoom, OverLimit, Fits
  <2>3. Store(t, size, {})
    BY <1>3 DEF BufferWithRoom
  <2> QED BY <1>1, <2>1, <2>2, <2>3, StoreStep
<1>4. CASE BufferAfterEviction(t, size)
  <2>1. PICK E \in EvictionsFor(size) : Fits(size, E) /\ Store(t, size, E)
    BY <1>4 DEF BufferAfterEviction
  <2>2. E \in SUBSET DOMAIN buffers
    BY <2>1 DEF EvictionsFor
  <2> QED BY <1>1, <2>1, <2>2, StoreStep
<1>5. CASE BufferRefused(t, size)
  <2>1. PICK E \in EvictionsFor(size) :
          /\ buffers' = Without(E)
          /\ total' = total - BytesOf(E)
          /\ history' = Forget(E)
    BY <1>5 DEF BufferRefused
  <2>2. E \in SUBSET DOMAIN buffers
    BY <2>1 DEF EvictionsFor
  <2>3. returned' \in Nat /\ assigned' \in [Topics -> Seq(Nat)]
    BY <1>5 DEF BufferRefused, IInv, TypeOK
  <2> QED BY <1>1, <2>1, <2>2, <2>3, EraseStep
<1> QED BY <1>3, <1>4, <1>5 DEF BufferMessage

\* clear() keeps the invariant.
LEMMA ClearIInv ==
  ASSUME IInv, Clear
  PROVE  IInv'
<1>1. DOMAIN buffers' = {} /\ buffers' = [t \in DOMAIN buffers' |-> buffers'[t]]
  BY DEF Clear
<1>2. SumBytes(buffers', {}) = 0
  BY SumStep, FS_EmptySet, Zenon DEF SumBytes
<1>3. <<>> \in Seq(Nat)
  BY EmptySeq
<1>4. history' = [t \in Topics |-> <<>>]
  BY DEF Clear, Forget
<1>5. (\A t \in Topics : history'[t] = <<>>) /\ history' \in [Topics -> Seq(Nat)]
  BY <1>3, <1>4
<1>6. TypeOK'
  <2>1. total' = 0 /\ returned' = returned /\ calls' = calls /\ assigned' = assigned
    BY DEF Clear
  <2> QED BY <1>1, <1>5, <2>1 DEF IInv, TypeOK
<1> QED BY <1>1, <1>2, <1>5, <1>6, FS_EmptySet, BufferAssumption DEF Clear, IInv

\* clearTopic() keeps the invariant.
LEMMA ClearTopicIInv ==
  ASSUME IInv, NEW t \in Topics, ClearTopic(t)
  PROVE  IInv'
<1> DEFINE E == {t}
<1>1. E \in SUBSET DOMAIN buffers
  BY DEF ClearTopic
<1>2. BytesOf(E) = buffers[t].bytes
  <2> DEFINE f == [u \in E |-> buffers[u].bytes]
  <2>1. BytesOf(E) = Sum(f, E)
    BY BytesOfIsSum, Zenon DEF SumBytes
  <2>2. f[t] = buffers[t].bytes /\ f[t] \in Nat /\ \A u \in E : f[u] \in Nat
    BY <1>1 DEF IInv, TypeOK
  <2> HIDE DEF f
  <2>3. IsFiniteSet(E) /\ t \in E /\ E \ {t} = {}
    BY FS_Singleton, Zenon
  <2>4. Sum(f, E) = f[t] + Sum(f, E \ {t})
    <3> HIDE DEF E
    <3> QED BY <2>2, <2>3, SumRemove
  <2>5. Sum(f, {}) = 0
    BY SumStep, FS_EmptySet
  <2> QED BY <2>1, <2>2, <2>3, <2>4, <2>5
<1>3. /\ buffers' = Without(E) /\ history' = Forget(E)
      /\ total' = total - BytesOf(E)
  BY <1>2, Zenon DEF ClearTopic
<1>4. returned' \in Nat /\ calls' \in 0..MaxMessages /\ assigned' \in [Topics -> Seq(Nat)]
  BY DEF ClearTopic, IInv, TypeOK
<1> HIDE DEF E
<1> QED BY <1>1, <1>3, <1>4, EraseStep

\* Every step keeps the invariant.
LEMMA NextIInv == IInv /\ [Next]_vars => IInv'
<1> SUFFICES ASSUME IInv, [Next]_vars PROVE IInv'
  OBVIOUS
<1>1. CASE DaemonNext
  BY <1>1, BufferMessageIInv DEF DaemonNext
<1>2. CASE Clear
  BY <1>2, ClearIInv
<1>3. CASE \E t \in Topics : ClearTopic(t)
  BY <1>3, ClearTopicIInv
<1>4. CASE UNCHANGED vars
  BY <1>4 DEF vars, IInv, TypeOK
<1> QED BY <1>1, <1>2, <1>3, <1>4 DEF Next

\* The inductive invariant holds in every reachable state.
THEOREM BufferInvariant == Spec => []IInv
<1> QED BY InitIInv, NextIInv, PTL DEF Spec

\* The global byte counter of bufferMessage() and the counter of every ring are
\* the sizes of what is buffered, in every reachable state.
THEOREM BytesAlwaysExact == Spec => []BytesExact
<1>1. IInv => BytesExact
  <2> SUFFICES ASSUME IInv PROVE BytesExact
    OBVIOUS
  <2>1. total = BytesOf(DOMAIN buffers)
    BY BytesOfIsSum DEF IInv
  <2>2. ASSUME NEW t \in DOMAIN buffers
        PROVE  buffers[t].bytes
                 = MapThenSumSet(LAMBDA i : buffers[t].messages[i].size,
                                 DOMAIN buffers[t].messages)
    <3>1. buffers[t].bytes = SumSizes(buffers[t].messages)
      BY Zenon DEF IInv, RingOK
    <3> QED BY <3>1, SizesSum, Zenon DEF SumSizes
  <2> QED BY <2>1, <2>2, Zenon DEF BytesExact
<1> QED BY <1>1, BufferInvariant, PTL

\* The memory limit of bufferMessage() holds in every reachable state.
THEOREM MemoryAlwaysBounded == Spec => []MemoryBound
<1>1. IInv => MemoryBound
  BY DEF IInv, MemoryBound
<1> QED BY <1>1, BufferInvariant, PTL

-----------------------------------------------------------------------------
(* Refusals *)

\* The unsigned subtraction in bufferMessage(): exact for a payload within the
\* limit, and beyond any count within the limit for a larger one.
LEMMA WrappedTarget ==
  ASSUME NEW limit \in Nat, NEW size \in Nat, NEW word \in Nat, size + limit < word
  PROVE  /\ size <= limit => (limit - size) % word = limit - size
         /\ size > limit => (limit - size) % word > limit + limit
<1>1. size > limit => (limit - size) % word = word + limit - size
  OBVIOUS
<1>2. size <= limit => (limit - size) % word = limit - size
  OBVIOUS
<1> QED BY <1>1, <1>2

\* What remains after an eviction is a byte count, and nothing remains when every
\* topic goes.
LEMMA EvictionRemainder ==
  ASSUME IInv, NEW E \in SUBSET DOMAIN buffers
  PROVE  /\ total - BytesOf(E) \in Nat
         /\ total - BytesOf(E) <= total
         /\ E = DOMAIN buffers => total - BytesOf(E) = 0
<1>1. BytesOf(E) = SumBytes(buffers, E)
  BY BytesOfIsSum
<1>2. /\ SumBytes(buffers, E) \in Nat /\ SumBytes(buffers, DOMAIN buffers \ E) \in Nat
      /\ total = SumBytes(buffers, E) + SumBytes(buffers, DOMAIN buffers \ E)
  BY EvictedBytes, Zenon
<1>3. total \in Nat /\ total = SumBytes(buffers, DOMAIN buffers)
  BY DEF IInv, TypeOK
<1>4. total - BytesOf(E) \in Nat /\ total - BytesOf(E) <= total
  BY <1>1, <1>2, <1>3
<1>5. E = DOMAIN buffers => total - BytesOf(E) = 0
  BY <1>1, <1>3
<1> QED BY <1>4, <1>5

\* A payload within the limit fits after the eviction loop; for a larger one the
\* loop erases nothing.
LEMMA EvictionOutcome ==
  ASSUME IInv, NEW size \in Sizes, OverLimit(size), NEW E \in EvictionsFor(size)
  PROVE  /\ size <= MaxBytes <=> Fits(size, E)
         /\ size > MaxBytes => E = {}
<1> DEFINE target == Target(size)
           rest == total - BytesOf(E)
<1>1. /\ size \in Nat /\ MaxBytes \in Nat /\ Word \in Nat /\ size + MaxBytes < Word
      /\ MaxBytes > 0 /\ total \in Nat /\ total <= MaxBytes
  BY BufferAssumption DEF OverLimit, IInv, TypeOK
<1>2. /\ size <= MaxBytes => target = MaxBytes - size
      /\ size > MaxBytes => target > MaxBytes + MaxBytes
  BY <1>1, WrappedTarget DEF Target
<1>3. E \in SUBSET DOMAIN buffers
  BY DEF EvictionsFor
<1>4. /\ rest <= target \/ E = DOMAIN buffers
      /\ E = {} \/ \E last \in E : total - BytesOf(E \ {last}) > target
  BY DEF EvictionsFor
<1>5. rest \in Nat /\ rest <= total /\ (E = DOMAIN buffers => rest = 0)
  BY <1>3, EvictionRemainder
<1>6. target \in Int
  BY <1>1 DEF Target
<1> HIDE DEF target, rest
<1>7. size <= MaxBytes => rest + size <= MaxBytes
  BY <1>1, <1>2, <1>4, <1>5
<1>8. rest + size <= MaxBytes => size <= MaxBytes
  BY <1>1, <1>5
<1>9. ASSUME size > MaxBytes, E # {} PROVE FALSE
  <2>1. PICK last \in E : total - BytesOf(E \ {last}) > target
    BY <1>4, <1>9
  <2> DEFINE left == total - BytesOf(E \ {last})
  <2>2. left \in Nat /\ left <= total
    <3>1. E \ {last} \in SUBSET DOMAIN buffers
      BY <1>3
    <3> QED BY <3>1, EvictionRemainder
  <2>3. left > target
    BY <2>1
  <2> HIDE DEF left
  <2> QED BY <1>1, <1>2, <1>6, <1>9, <2>2, <2>3
<1> QED BY <1>7, <1>8, <1>9 DEF Fits, rest

\* bufferMessage() returns 0 for exactly the messages larger than the whole
\* budget, and then leaves the buffers alone.
LEMMA RefusalStep ==
  ASSUME IInv, NEW t \in Topics, NEW size \in Sizes, BufferMessage(t, size)
  PROVE  /\ (returned' = 0) <=> (MaxBytes > 0 /\ size > MaxBytes)
         /\ returned' = 0 => UNCHANGED <<buffers, total>>
<1>1. /\ size \in Nat /\ MaxBytes \in Nat /\ total \in Nat
  BY BufferAssumption DEF IInv, TypeOK
<1>2. calls' \in 0..MaxMessages
  BY BufferAssumption DEF BufferMessage, IInv, TypeOK
<1>3. CASE BufferWithRoom(t, size)
  <2>1. {} \in SUBSET DOMAIN buffers /\ Store(t, size, {})
    BY <1>3 DEF BufferWithRoom
  <2>2. MaxBytes > 0 => Fits(size, {}) /\ size <= MaxBytes
    <3>1. BytesOf({}) = 0
      BY NothingEvicted
    <3> QED BY <1>1, <1>3, <3>1 DEF BufferWithRoom, OverLimit, Fits
  <2>3. returned' # 0
    BY <1>2, <2>1, <2>2, StoreStep
  <2> QED BY <1>1, <2>2, <2>3
<1>4. CASE BufferAfterEviction(t, size)
  <2>1. OverLimit(size)
    BY <1>4 DEF BufferAfterEviction
  <2>2. PICK E \in EvictionsFor(size) : Fits(size, E) /\ Store(t, size, E)
    BY <1>4 DEF BufferAfterEviction
  <2>3. E \in SUBSET DOMAIN buffers
    BY <2>2 DEF EvictionsFor
  <2>4. returned' # 0
    BY <1>2, <2>2, <2>3, StoreStep
  <2>5. size <= MaxBytes
    BY <2>1, <2>2, EvictionOutcome
  <2> QED BY <1>1, <2>4, <2>5
<1>5. CASE BufferRefused(t, size)
  <2>1. OverLimit(size) /\ returned' = 0
    BY <1>5 DEF BufferRefused
  <2>2. PICK E \in EvictionsFor(size) :
          ~Fits(size, E) /\ buffers' = Without(E) /\ total' = total - BytesOf(E)
    BY <1>5 DEF BufferRefused
  <2>3. MaxBytes > 0 /\ size > MaxBytes /\ E = {}
    <3>1. ~(size <= MaxBytes) /\ (size > MaxBytes => E = {})
      BY <2>1, <2>2, EvictionOutcome
    <3> QED BY <1>1, <2>1, <3>1 DEF OverLimit
  <2>4. buffers' = buffers /\ total' = total - 0
    BY <2>2, <2>3, NothingEvicted
  <2> QED BY <1>1, <2>1, <2>3, <2>4
<1> QED BY <1>3, <1>4, <1>5 DEF BufferMessage

\* bufferMessage() returns 0 exactly for a payload larger than the limit, and then
\* leaves every buffer alone.
THEOREM RefusesOnlyWhatCannotFit == Spec => RefusesOnlyTooLarge
<1> DEFINE A == \A t \in Topics, size \in Sizes :
       BufferMessage(t, size) =>
         /\ (returned' = 0) <=> (MaxBytes > 0 /\ size > MaxBytes)
         /\ returned' = 0 => UNCHANGED <<buffers, total>>
<1>1. IInv /\ [Next]_vars => [A]_vars
  BY RefusalStep
<1>2. RefusesOnlyTooLarge <=> [][A]_vars
  BY DEF RefusesOnlyTooLarge
<1> HIDE DEF A
<1> QED BY <1>1, <1>2, BufferInvariant, PTL DEF Spec

-----------------------------------------------------------------------------
(* Replay *)

\* One pass of getMessagesAfter() over consecutive numbers keeps a suffix.
LEMMA MessagesAfterSuffix ==
  ASSUME NEW b, b.messages \in Seq(BufferedMessage),
         NEW base \in Nat, NEW after \in Nat, NEW k \in Nat,
         \A i \in 1..Len(b.messages) : b.messages[i].seq = base + i,
         after > base => k = after - base, after <= base => k = 0
  PROVE  MessagesAfter(b, after) = SubSeq(b.messages, k + 1, Len(b.messages))
<1> DEFINE ms == b.messages
           n == Len(ms)
           Body(g) == [i \in 0..n |-> IF i = 0 THEN <<>>
                                      ELSE IF ms[i].seq > after
                                           THEN Append(g[i - 1], ms[i])
                                           ELSE g[i - 1]]
           kept == CHOOSE g : g = Body(g)
           sub == [i \in 0..n |-> SubSeq(ms, k + 1, i)]
<1>1. MessagesAfter(b, after) = kept[n]
  BY Zenon DEF MessagesAfter
<1>2. n \in Nat /\ \A i \in 1..n : ms[i] \in BufferedMessage
  BY LenProperties
<1>3. ASSUME NEW i \in 0..n, NEW x, i # 0 => x = SubSeq(ms, k + 1, i - 1)
      PROVE  SubSeq(ms, k + 1, i)
               = IF i = 0 THEN <<>> ELSE IF ms[i].seq > after THEN Append(x, ms[i]) ELSE x
  <2>1. CASE i = 0
    <3>1. SubSeq(ms, k + 1, i) = <<>>
      BY <2>1, SubSeqEmpty
    <3> QED BY <2>1, <3>1
  <2>2. CASE i # 0 /\ i <= k
    <3>1. ~(ms[i].seq > after)
      BY <1>2, <2>2
    <3>2. SubSeq(ms, k + 1, i) = <<>> /\ SubSeq(ms, k + 1, i - 1) = <<>>
      BY <2>2, SubSeqEmpty
    <3> QED BY <1>3, <2>2, <3>1, <3>2
  <2>3. CASE i # 0 /\ i > k
    <3>1. ms[i].seq > after
      BY <1>2, <2>3
    <3>2. k + 1 \in 1..n /\ i \in (k + 1)..n
      BY <1>2, <2>3
    <3>3. SubSeq(ms, k + 1, i) = SubSeq(ms, k + 1, i - 1) \o <<ms[i]>>
      BY <3>2, SubSeqRecursiveSecond
    <3>4. SubSeq(ms, k + 1, i - 1) \in Seq(BufferedMessage)
      <4>1. \A j \in (k + 1)..(i - 1) : ms[j] \in BufferedMessage
        BY <1>2, <3>2
      <4> QED BY <3>2, <4>1, SubSeqProperties
    <3>5. Append(x, ms[i]) = SubSeq(ms, k + 1, i - 1) \o <<ms[i]>>
      BY <1>3, <2>3, <3>4, AppendIsConcat, <1>2
    <3> QED BY <2>3, <3>1, <3>3, <3>5, Zenon
  <2>4. i = 0 \/ (i # 0 /\ i <= k) \/ (i # 0 /\ i > k)
    BY <1>2
  <2> QED BY <2>1, <2>2, <2>3, <2>4, Zenon
<1> HIDE DEF ms, n
<1>4. sub = Body(sub)
  <2>1. ASSUME NEW i \in 0..n
        PROVE  sub[i] = Body(sub)[i]
    <3>1. i # 0 => sub[i - 1] = SubSeq(ms, k + 1, i - 1)
      <4>1. i # 0 => i - 1 \in 0..n
        BY <1>2
      <4> QED BY <4>1, Zenon
    <3>2. SubSeq(ms, k + 1, i)
            = IF i = 0 THEN <<>>
              ELSE IF ms[i].seq > after THEN Append(sub[i - 1], ms[i]) ELSE sub[i - 1]
      <4> HIDE DEF sub
      <4> QED BY <1>3, <3>1, Zenon
    <3> QED BY <3>2, Zenon
  <2> QED BY <2>1, Zenon
<1>5. kept = Body(kept)
  <2> HIDE DEF Body, sub
  <2> QED BY <1>4
<1> DEFINE T == {i \in 0..n : kept[i] # SubSeq(ms, k + 1, i)}
<1>6. T = {}
  <2> SUFFICES ASSUME T # {} PROVE FALSE
    BY Zenon
  <2>1. PICK i \in T : \A j \in T : i <= j
    <3>1. T \subseteq Nat
      <4> HIDE DEF kept, n, ms
      <4> QED BY <1>2
    <3> HIDE DEF T
    <3> QED BY <3>1, LeastNat, Zenon
  <2>2. i \in 0..n /\ kept[i] # SubSeq(ms, k + 1, i)
    BY <2>1, Zenon
  <2>3. i # 0 => kept[i - 1] = SubSeq(ms, k + 1, i - 1)
    <3>1. i - 1 \in T => i <= i - 1
      BY <2>1, Zenon
    <3>2. i # 0 => i - 1 \in 0..n /\ ~(i <= i - 1)
      <4>1. i \in 0..n
        BY <2>2, Zenon
      <4> HIDE DEF T, kept
      <4> QED BY <1>2, <4>1
    <3> QED BY <3>1, <3>2, Zenon
  <2>4. kept[i] = IF i = 0 THEN <<>>
                  ELSE IF ms[i].seq > after THEN Append(kept[i - 1], ms[i]) ELSE kept[i - 1]
    <3> HIDE DEF kept, T
    <3> QED BY <1>5, <2>2, Zenon
  <2> HIDE DEF kept, T
  <2>5. SubSeq(ms, k + 1, i)
          = IF i = 0 THEN <<>>
            ELSE IF ms[i].seq > after THEN Append(kept[i - 1], ms[i]) ELSE kept[i - 1]
    BY <1>3, <2>2, <2>3, Zenon
  <2> QED BY <2>2, <2>4, <2>5, Zenon
<1>7. kept[n] = SubSeq(ms, k + 1, n)
  <2> HIDE DEF kept
  <2> QED BY <1>2, <1>6
<1> QED BY <1>1, <1>7, Zenon DEF ms, n

\* The facts of a ring in order, with its length and the number of payloads named.
LEMMA RingFacts ==
  ASSUME NEW b, NEW h, RingOK(b, h), NEW n, n = Len(b.messages), NEW l, l = Len(h)
  PROVE  /\ b.messages \in Seq(BufferedMessage) /\ h \in Seq(Nat)
         /\ n \in Nat /\ l \in Nat /\ n <= l /\ b.next = l + 1
         /\ n <= PerTopic /\ (n < PerTopic => n = l) /\ PerTopic \in Nat
         /\ b.messages # <<>> => n >= 1
         /\ \A i \in 1..n : /\ b.messages[i] \in BufferedMessage
                            /\ b.messages[i].seq = l - n + i
                            /\ b.messages[i].payload = h[l - n + i]
<1>1. b.messages \in Seq(BufferedMessage) /\ h \in Seq(Nat)
  BY DEF RingOK, TopicBuffer
<1>2. n \in Nat /\ l \in Nat
  BY <1>1, LenProperties
<1>3. b.messages # <<>> => n >= 1
  BY <1>1, <1>2, EmptySeq
<1>4. \A i \in 1..n : b.messages[i] \in BufferedMessage
  BY <1>1, ElementOfSeq
<1> QED BY <1>1, <1>2, <1>3, <1>4, BufferAssumption, Zenon DEF RingOK

\* What a replay of a ring returns, and what it reports as missed.
LEMMA ReplayOfRing ==
  ASSUME IInv, NEW t \in DOMAIN buffers, NEW after \in 1..Len(history[t])
  PROVE  LET ms == buffers[t].messages
             n  == Len(ms)
             l  == Len(history[t])
             r  == MessagesForReplay(t, after)
             k  == IF after > l - n THEN after - (l - n) ELSE 0
         IN  /\ r.messages = SubSeq(ms, k + 1, n)
             /\ r.missed = IF after < l /\ after <= l - n THEN l - n - after ELSE 0
             /\ r.gap <=> after < l /\ after <= l - n
<1> DEFINE b == buffers[t]
           ms == b.messages
           n == Len(ms)
           l == Len(history[t])
           k == IF after > l - n THEN after - (l - n) ELSE 0
<1>1. /\ ms \in Seq(BufferedMessage) /\ ms # <<>> /\ n \in Nat /\ n >= 1
      /\ l \in Nat /\ n <= l /\ b.next = l + 1
      /\ \A i \in 1..n : ms[i].seq = l - n + i
      /\ after \in 1..l
  <2> DEFINE h == history[t]
  <2>1. RingOK(b, h) /\ ms # <<>> /\ n = Len(b.messages) /\ l = Len(h) /\ after \in 1..l
    BY DEF IInv
  <2>2. /\ ms \in Seq(BufferedMessage) /\ n \in Nat /\ n >= 1
        /\ l \in Nat /\ n <= l /\ b.next = l + 1
    <3>1. ms \in Seq(BufferedMessage) /\ n \in Nat /\ l \in Nat /\ n <= l
      BY <2>1, RingFacts, Zenon
    <3>2. n >= 1
      BY <2>1, <3>1, EmptySeq
    <3>3. b.next = l + 1
      BY <2>1 DEF RingOK
    <3> QED BY <3>1, <3>2, <3>3
  <2>3. \A i \in 1..n : ms[i].seq = l - n + i
    BY <2>1, Zenon DEF RingOK
  <2> HIDE DEF n, l, h, b
  <2> QED BY <2>1, <2>2, <2>3, Zenon
<1> HIDE DEF n, l
<1>2. CurrentSequence(b) = l
  BY <1>1 DEF CurrentSequence
<1>3. OldestSequence(b) = l - n + 1
  <2>1. Head(ms) = ms[1] /\ 1 \in 1..n
    BY <1>1
  <2>2. ms[1].seq = l - n + 1
    BY <1>1, <2>1
  <2> QED BY <1>1, <2>1, <2>2 DEF OldestSequence
<1>4. k \in Nat /\ after \in Nat /\ after # 0 /\ after <= l
  BY <1>1
<1>5. MessagesAfter(b, after) = SubSeq(ms, k + 1, n)
  <2> DEFINE base == l - n
  <2>1. base \in Nat /\ \A i \in 1..n : ms[i].seq = base + i
    BY <1>1
  <2>2. (after > base => k = after - base) /\ (after <= base => k = 0)
    BY <1>1, <1>4
  <2> HIDE DEF base, k, l, b
  <2> QED BY <1>1, <1>4, <2>1, <2>2, MessagesAfterSuffix, Zenon DEF n
<1>6. CASE after >= l
  <2>1. MessagesForReplay(t, after) = Answer(<<>>, FALSE, 0)
    BY <1>2, <1>4, <1>6 DEF MessagesForReplay
  <2>2. k + 1 > n
    BY <1>1, <1>4, <1>6
  <2>3. SubSeq(ms, k + 1, n) = <<>>
    <3> HIDE DEF k, ms
    <3> QED BY <1>1, <1>4, <2>2, SubSeqEmpty
  <2>4. ~(after < l)
    BY <1>1, <1>4, <1>6
  <2> HIDE DEF k, ms, l
  <2>5. Answer(<<>>, FALSE, 0).messages = <<>> /\ Answer(<<>>, FALSE, 0).missed = 0
        /\ (Answer(<<>>, FALSE, 0).gap <=> FALSE)
    BY DEF Answer
  <2> HIDE DEF b
  <2>6. /\ MessagesForReplay(t, after).messages = SubSeq(ms, k + 1, n)
        /\ MessagesForReplay(t, after).missed = 0
        /\ MessagesForReplay(t, after).gap <=> FALSE
    BY <2>1, <2>3, <2>5, Zenon
  <2> QED BY <2>4, <2>6 DEF k, l, n, ms, b
<1>7. CASE after < l /\ after <= l - n
  <2>1. MessagesForReplay(t, after)
          = Answer(MessagesAfter(b, after), TRUE, (l - n + 1) - after - 1)
    <3>1. ~(after >= CurrentSequence(b)) /\ after < OldestSequence(b)
      BY <1>1, <1>2, <1>3, <1>4, <1>7
    <3> QED BY <1>3, <1>4, <3>1 DEF MessagesForReplay
  <2>2. (l - n + 1) - after - 1 = l - n - after
    BY <1>1, <1>4
  <2> HIDE DEF k, ms, l, b
  <2> DEFINE a == MessagesAfter(b, after)
             m == (l - n + 1) - after - 1
  <2> HIDE DEF a, m, n
  <2>3. Answer(a, TRUE, m).messages = a /\ Answer(a, TRUE, m).missed = m /\ Answer(a, TRUE, m).gap
    BY DEF Answer
  <2>4. /\ MessagesForReplay(t, after).messages = SubSeq(ms, k + 1, n)
        /\ MessagesForReplay(t, after).missed = l - n - after
        /\ MessagesForReplay(t, after).gap
    BY <1>5, <2>1, <2>2, <2>3, Zenon DEF a, m
  <2> QED BY <1>7, <2>4 DEF k, l, n, ms, b
<1>8. CASE after < l /\ ~(after <= l - n)
  <2>1. MessagesForReplay(t, after) = Answer(MessagesAfter(b, after), FALSE, 0)
    <3>1. ~(after >= CurrentSequence(b)) /\ ~(after < OldestSequence(b))
      BY <1>1, <1>2, <1>3, <1>4, <1>8
    <3> QED BY <1>4, <3>1 DEF MessagesForReplay
  <2> HIDE DEF k, ms, l, b
  <2> DEFINE a == MessagesAfter(b, after)
  <2> HIDE DEF a, n
  <2>3. Answer(a, FALSE, 0).messages = a /\ Answer(a, FALSE, 0).missed = 0 /\ ~Answer(a, FALSE, 0).gap
    BY DEF Answer
  <2>4. /\ MessagesForReplay(t, after).messages = SubSeq(ms, k + 1, n)
        /\ MessagesForReplay(t, after).missed = 0
        /\ ~MessagesForReplay(t, after).gap
    BY <1>5, <2>1, <2>3, Zenon DEF a
  <2> QED BY <1>8, <2>4 DEF k, l, n, ms, b
<1>9. after >= l \/ (after < l /\ after <= l - n) \/ (after < l /\ ~(after <= l - n))
  BY <1>1, <1>4
<1> QED BY <1>6, <1>7, <1>8, <1>9, Zenon

\* The payloads of a suffix of a ring are a suffix of what was stored.
LEMMA PayloadsOfSuffix ==
  ASSUME NEW b, NEW h, RingOK(b, h), NEW j \in Nat, j >= 1
  PROVE  Payloads(SubSeq(b.messages, j, Len(b.messages)))
           = SubSeq(h, Len(h) - Len(b.messages) + j, Len(h))
<1> DEFINE ms == b.messages
           n == Len(ms)
           l == Len(h)
           s == SubSeq(ms, j, n)
           p == Payloads(s)
           q == SubSeq(h, l - n + j, l)
<1>1. /\ ms \in Seq(BufferedMessage) /\ h \in Seq(Nat) /\ n \in Nat /\ l \in Nat /\ n <= l
      /\ \A i \in 1..n : ms[i] \in BufferedMessage /\ ms[i].payload = h[l - n + i]
  <2>1. n = Len(b.messages) /\ l = Len(h)
    OBVIOUS
  <2> HIDE DEF n, l
  <2>2. ms \in Seq(BufferedMessage) /\ h \in Seq(Nat) /\ n \in Nat /\ l \in Nat /\ n <= l
    BY <2>1, RingFacts
  <2>3. \A i \in 1..n : ms[i] \in BufferedMessage /\ ms[i].payload = h[l - n + i]
    <3>1. \A i \in 1..n : ms[i].payload = h[l - n + i]
      BY Zenon DEF RingOK, n, l
    <3>2. \A i \in 1..n : ms[i] \in BufferedMessage
      BY <2>2, ElementOfSeq DEF n
    <3> QED BY <3>1, <3>2
  <2> QED BY <2>2, <2>3
<1> HIDE DEF n, l, ms
<1>2. CASE j > n
  <2>1. s = <<>>
    BY <1>1, <1>2, SubSeqEmpty
  <2>2. q = <<>>
    BY <1>1, <1>2, SubSeqEmpty
  <2>3. Payloads(<<>>) = <<>>
    BY DEF Payloads
  <2> QED BY <2>1, <2>2, <2>3, Zenon DEF n, l, ms
<1>3. CASE j <= n
  <2>1. s \in Seq(BufferedMessage) /\ Len(s) = n - j + 1
        /\ \A i \in 1..(n - j + 1) : s[i] = ms[j + i - 1]
    <3>1. \A i \in j..n : ms[i] \in BufferedMessage
      BY <1>1
    <3> QED BY <1>1, <1>3, <3>1, SubSeqProperties
  <2>2. q \in Seq(Nat) /\ Len(q) = n - j + 1
        /\ \A i \in 1..(n - j + 1) : q[i] = h[(l - n + j) + i - 1]
    <3> DEFINE from == l - n + j
    <3>1. from \in Int /\ from <= l /\ from >= 1 /\ l - from + 1 = n - j + 1
      BY <1>1, <1>3
    <3>2. \A i \in from..l : h[i] \in Nat
      <4>1. \A i \in 1..l : h[i] \in Nat
        BY <1>1, ElementOfSeq DEF l
      <4> HIDE DEF from
      <4> QED BY <1>1, <3>1, <4>1
    <3> HIDE DEF from
    <3>3. LET z == SubSeq(h, from, l)
          IN  z \in Seq(Nat) /\ Len(z) = l - from + 1
              /\ \A i \in 1..(l - from + 1) : z[i] = h[from + i - 1]
      BY <1>1, <3>1, <3>2, SubSeqProperties
    <3> QED BY <3>1, <3>3 DEF from
  <2>3. DOMAIN s = 1..(n - j + 1) /\ DOMAIN q = 1..(n - j + 1)
    <3> HIDE DEF s, q
    <3> QED BY <2>1, <2>2, LenProperties
  <2>4. ASSUME NEW i \in 1..(n - j + 1)
        PROVE  s[i].payload = q[i]
    <3>1. j + i - 1 \in 1..n /\ l - n + (j + i - 1) = (l - n + j) + i - 1
      BY <1>1, <1>3
    <3>2. ms[j + i - 1].payload = h[l - n + (j + i - 1)]
      BY <1>1, <3>1, Zenon
    <3> HIDE DEF s, q
    <3> QED BY <2>1, <2>2, <3>1, <3>2
  <2> DEFINE c == n - j + 1
  <2>5. p = [i \in 1..c |-> s[i].payload]
    <3> HIDE DEF s
    <3> QED BY <2>3 DEF Payloads
  <2>6. q = [i \in 1..c |-> q[i]]
    <3> HIDE DEF q
    <3> QED BY <2>2, <2>3, LenProperties
  <2> HIDE DEF s, q, p, c
  <2>7. p = q
    BY <2>4, <2>5, <2>6 DEF c
  <2> QED BY <2>7 DEF p, q, s, n, l, ms
<1>4. j > n \/ j <= n
  BY <1>1
<1> QED BY <1>2, <1>3, <1>4, Zenon

\* What a resuming subscriber is sent is what was stored since, but for what is
\* reported as missed, and only a full ring has lost something.
LEMMA ReplayResumed ==
  ASSUME IInv, NEW t \in DOMAIN buffers, NEW after \in 1..Len(history[t])
  PROVE  LET r == MessagesForReplay(t, after)
         IN  /\ Payloads(r.messages)
                  = SubSeq(history[t], after + r.missed + 1, Len(history[t]))
             /\ r.missed > 0 => r.gap /\ Len(r.messages) = PerTopic
<1> DEFINE b == buffers[t]
           ms == b.messages
           n == Len(ms)
           h == history[t]
           l == Len(h)
           r == MessagesForReplay(t, after)
           k == IF after > l - n THEN after - (l - n) ELSE 0
<1>1. RingOK(b, h)
  BY DEF IInv
<1>2. /\ ms \in Seq(BufferedMessage) /\ h \in Seq(Nat) /\ n \in Nat /\ l \in Nat /\ n <= l
      /\ n <= PerTopic /\ (n < PerTopic => n = l) /\ PerTopic \in Nat
  <2>1. ms \in Seq(BufferedMessage) /\ h \in Seq(Nat) /\ n \in Nat /\ l \in Nat
    BY <1>1, RingFacts
  <2>2. n <= l /\ n <= PerTopic /\ (n < PerTopic => n = l)
    BY <1>1, Zenon DEF RingOK
  <2> QED BY <2>1, <2>2, BufferAssumption
<1>3. /\ r.messages = SubSeq(ms, k + 1, n)
      /\ r.missed = IF after < l /\ after <= l - n THEN l - n - after ELSE 0
      /\ r.gap <=> after < l /\ after <= l - n
  BY ReplayOfRing, Zenon
<1>4. after \in 1..l
  OBVIOUS
<1> HIDE DEF r, n, l
<1>9. k \in Nat
  BY <1>2, <1>4
<1>5. Payloads(SubSeq(ms, k + 1, n)) = SubSeq(h, l - n + (k + 1), l)
  <2> DEFINE j == k + 1
  <2> HIDE DEF k
  <2>1. j \in Nat /\ j >= 1
    BY <1>9
  <2> HIDE DEF j
  <2>2. Payloads(SubSeq(ms, j, n)) = SubSeq(h, l - n + j, l)
    BY <1>1, <2>1, PayloadsOfSuffix, Zenon DEF n, l
  <2> QED BY <2>2 DEF j
<1>6. l - n + (k + 1) = after + r.missed + 1
  <2>1. CASE after > l - n
    <3>1. r.missed = 0
      BY <1>2, <1>3, <1>4, <2>1
    <3> QED BY <1>2, <1>4, <2>1, <3>1
  <2>2. CASE after <= l - n /\ after < l
    BY <1>2, <1>3, <1>4, <2>2
  <2>3. CASE after <= l - n /\ ~(after < l)
    <3>1. r.missed = 0 /\ after = l /\ n = 0 /\ k = 0
      BY <1>2, <1>3, <1>4, <2>3
    <3> HIDE DEF n, l, k
    <3> QED BY <1>2, <3>1
  <2>4. after > l - n \/ (after <= l - n /\ after < l) \/ (after <= l - n /\ ~(after < l))
    BY <1>2, <1>4
  <2> QED BY <2>1, <2>2, <2>3, <2>4, Zenon
<1>7. ASSUME r.missed > 0
      PROVE  r.gap /\ Len(r.messages) = PerTopic
  <2>1. after < l /\ after <= l - n /\ k = 0 /\ n < l
    BY <1>2, <1>3, <1>4, <1>7
  <2>2. SubSeq(ms, 1, n) = ms
    BY <1>2, SubSeqFull DEF n
  <2>3. 0 + 1 = 1
    OBVIOUS
  <2>4. r.messages = ms
    <3> HIDE DEF k, n, ms
    <3> QED BY <1>3, <2>1, <2>2, <2>3
  <2>5. n = PerTopic
    BY <1>2, <2>1
  <2> QED BY <1>3, <2>1, <2>4, <2>5 DEF n
<1>8. Payloads(r.messages) = SubSeq(h, after + r.missed + 1, l)
  <2> HIDE DEF k, n, ms, h, l
  <2> QED BY <1>3, <1>5, <1>6
<1> QED BY <1>7, <1>8 DEF r, l

\* getMessagesForReplay() from 0 and getRetainedMessage() give the last message
\* stored.
LEMMA ReplayLatest ==
  ASSUME IInv, NEW t \in DOMAIN buffers
  PROVE  /\ Payloads(MessagesForReplay(t, 0).messages) = <<Last(history[t])>>
         /\ RetainedMessage(t) = MessagesForReplay(t, 0).messages
<1> DEFINE b == buffers[t]
           ms == b.messages
           n == Len(ms)
           h == history[t]
           l == Len(h)
<1>1. RingOK(b, h) /\ ms # <<>>
  BY DEF IInv
<1>2. ms \in Seq(BufferedMessage) /\ h \in Seq(Nat) /\ n \in Nat /\ l \in Nat /\ n <= l /\ n >= 1
  BY <1>1, RingFacts, Zenon
<1>3. MessagesForReplay(t, 0).messages = SubSeq(ms, n, n) /\ RetainedMessage(t) = SubSeq(ms, n, n)
  <2>1. RetainedMessage(t) = Latest(b)
    BY DEF RetainedMessage
  <2>4. MessagesForReplay(t, 0) = Answer(Latest(b), FALSE, 0)
    <3>1. ~(0 >= CurrentSequence(b))
      <4>1. b.next = l + 1
        BY <1>1 DEF RingOK
      <4> HIDE DEF l, n, b
      <4> QED BY <1>2, <4>1 DEF CurrentSequence
    <3> QED BY <3>1, Zenon DEF MessagesForReplay
  <2>2. Answer(Latest(b), FALSE, 0).messages = Latest(b)
    BY DEF Answer
  <2>3. Latest(b) = SubSeq(ms, n, n)
    BY DEF Latest
  <2> HIDE DEF ms, n, b
  <2> QED BY <2>1, <2>2, <2>3, <2>4, Zenon
<1>4. Payloads(SubSeq(ms, n, n)) = SubSeq(h, l - n + n, l)
  BY <1>1, <1>2, PayloadsOfSuffix, Zenon
<1>5. l - n + n = l
  BY <1>2
<1>6. SubSeq(h, l, l) = <<h[l]>>
  <2>1. l \in 1..l
    BY <1>2
  <2>2. SubSeq(h, l, l) = SubSeq(h, l, l - 1) \o <<h[l]>>
    BY <1>2, <2>1, SubSeqRecursiveSecond
  <2>3. SubSeq(h, l, l - 1) = <<>>
    BY <1>2, SubSeqEmpty
  <2>4. <<h[l]>> \in Seq(Nat)
    <3>1. h[l] \in Nat
      BY <1>2, <2>1, ElementOfSeq
    <3> QED BY <3>1
  <2> QED BY <2>2, <2>3, <2>4, ConcatEmptySeq, Zenon
<1> QED BY <1>3, <1>4, <1>5, <1>6, Zenon DEF Last

\* In every reachable state, what getMessagesForReplay() returns is exactly what
\* was stored since, except for what it reports as missed, and a full ring is the
\* only reason for a miss.
THEOREM ReplayAlwaysExact == Spec => []ReplayExact
<1>1. IInv => ReplayExact
  BY ReplayResumed, ReplayLatest, Zenon DEF ReplayExact
<1> QED BY <1>1, BufferInvariant, PTL

=============================================================================

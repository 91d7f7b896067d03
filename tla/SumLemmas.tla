------------------------------ MODULE SumLemmas ------------------------------
(***************************************************************************)
(* Sums of the values of a function over a finite set, as SumFunctionOnSet *)
(* of the module Functions defines them: the ledger adds up entries and    *)
(* balances.  The recursion behind such a sum is reasoned about with the   *)
(* smallest set for which a claim would fail.                              *)
(***************************************************************************)
EXTENDS Functions, FiniteSetTheorems, TLAPS

\* The element a sum takes next.
Pick(s) == CHOOSE x \in s : TRUE

\* The equation of the recursive function behind a sum over S.
Sums(g, f, S) ==
  g = [s \in SUBSET S |-> IF s = {} THEN 0 ELSE f[Pick(s)] + g[s \ {Pick(s)}]]

\* A sum is a value of some function of that equation.
LEMMA SumIsSums ==
  ASSUME NEW f, NEW S
  PROVE  SumFunctionOnSet(f, S) = (CHOOSE g : Sums(g, f, S))[S]
BY DEF SumFunctionOnSet, FoldFunctionOnSet, MapThenFoldSet, Sums, Pick

\* The next element is one of the set.
LEMMA PickIn ==
  ASSUME NEW s, s # {} PROVE Pick(s) \in s
BY DEF Pick

\* Induction over the subsets of a finite set: among those that are no good there
\* would be a smallest.
LEMMA SmallestSubset ==
  ASSUME NEW S, IsFiniteSet(S), NEW T \in SUBSET SUBSET S, T # {}
  PROVE  \E s \in T : \A t \in T : ~ (t \subseteq s /\ t # s)
<1>1. IsWellFoundedOn(StrictSubsetOrdering(S), SUBSET S)
  BY FS_StrictSubsetOrderingWellFounded, FS_FiniteSubsetsOfFinite
<1>2. \E s \in T : \A t \in T : ~ (<<t, s>> \in StrictSubsetOrdering(S))
  BY <1>1, WFMin, Zenon
<1>3. PICK s \in T : \A t \in T : <<t, s>> \notin StrictSubsetOrdering(S)
  BY <1>2
<1>4. \A t \in T : <<t, s>> \in (SUBSET S) \X (SUBSET S)
  OBVIOUS
<1> QED
  BY <1>3, <1>4 DEF StrictSubsetOrdering

\* Such a function gives every set it knows the same sum.
LEMMA SumsAgree ==
  ASSUME NEW S, IsFiniteSet(S), NEW f, NEW T \in SUBSET S, NEW U \in SUBSET S,
         NEW g, Sums(g, f, T), NEW h, Sums(h, f, U), NEW V, V \subseteq T, V \subseteq U
  PROVE  g[V] = h[V]
<1> DEFINE Differ == {s \in SUBSET S : s \subseteq T /\ s \subseteq U /\ g[s] # h[s]}
<1>1. SUFFICES ASSUME Differ # {} PROVE FALSE
  OBVIOUS
<1>2. PICK s \in Differ : \A t \in Differ : ~ (t \subseteq s /\ t # s)
  <2>1. Differ \in SUBSET SUBSET S
    OBVIOUS
  <2> HIDE DEF Differ
  <2> QED
    BY <1>1, <2>1, SmallestSubset
<1>3. CASE s = {}
  BY <1>3 DEF Sums
<1>4. CASE s # {}
  <2>1. Pick(s) \in s
    BY <1>4, PickIn
  <2>2. g[s \ {Pick(s)}] = h[s \ {Pick(s)}]
    BY <1>2, <2>1
  <2>3. g[s] = f[Pick(s)] + g[s \ {Pick(s)}] /\ h[s] = f[Pick(s)] + h[s \ {Pick(s)}]
    BY <1>4 DEF Sums
  <2> QED
    BY <2>2, <2>3
<1> QED
  BY <1>3, <1>4

\* What a sum over s is made of: the next element and the sum of the others.
Taken(f, s) == IF s = {} THEN 0 ELSE f[Pick(s)] + SumFunctionOnSet(f, s \ {Pick(s)})

\* There is one for every finite set.
LEMMA SumsExist ==
  ASSUME NEW S, IsFiniteSet(S), NEW f
  PROVE  \E g : Sums(g, f, S)
<1> DEFINE Without == {s \in SUBSET S : ~ \E g : Sums(g, f, s)}
<1>1. SUFFICES ASSUME Without # {} PROVE FALSE
  OBVIOUS
<1>2. PICK T \in Without : \A t \in Without : ~ (t \subseteq T /\ t # T)
  <2>1. Without \in SUBSET SUBSET S
    OBVIOUS
  <2> HIDE DEF Without
  <2> QED
    BY <1>1, <2>1, SmallestSubset
<1>3. \A U \in SUBSET T : U # T => \E g : Sums(g, f, U)
  BY <1>2
<1>4. ASSUME NEW U \in SUBSET T, U # T
      PROVE  Sums(CHOOSE g : Sums(g, f, U), f, U)
  BY <1>3, <1>4
<1>5. ASSUME NEW U \in SUBSET T, U # T
      PROVE  SumFunctionOnSet(f, U) = Taken(f, U)
  <2> DEFINE g == CHOOSE k : Sums(k, f, U)
  <2>1. SumFunctionOnSet(f, U) = g[U] /\ Sums(g, f, U)
    BY <1>4, <1>5, SumIsSums, Zenon
  <2> HIDE DEF g
  <2>2. CASE U = {}
    BY <2>1, <2>2 DEF Sums, Taken
  <2>3. CASE U # {}
    <3> DEFINE V == U \ {Pick(U)}
               h == CHOOSE k : Sums(k, f, V)
    <3>1. Pick(U) \in U /\ V \in SUBSET T /\ V # T
      BY <1>5, <2>3, PickIn
    <3>2. SumFunctionOnSet(f, V) = h[V] /\ Sums(h, f, V)
      BY <1>4, <3>1, SumIsSums, Zenon
    <3>3. g[U] = f[Pick(U)] + g[V]
      BY <2>1, <2>3 DEF Sums
    <3> HIDE DEF h
    <3>4. g[V] = h[V]
      BY <2>1, <3>1, <3>2, SumsAgree, U \in SUBSET S, V \in SUBSET S
    <3> QED
      BY <2>1, <2>3, <3>2, <3>3, <3>4 DEF Taken
  <2> QED
    BY <2>2, <2>3
<1> DEFINE g == [s \in SUBSET T |-> Taken(f, s)]
<1>6. Sums(g, f, T)
  <2>1. ASSUME NEW s \in SUBSET T, s # {}
        PROVE  g[s \ {Pick(s)}] = SumFunctionOnSet(f, s \ {Pick(s)})
    <3>1. Pick(s) \in s
      BY <2>1, PickIn
    <3>2. s \ {Pick(s)} \in SUBSET T /\ s \ {Pick(s)} # T
      BY <3>1
    <3> QED
      BY <1>5, <3>2
  <2>2. \A s \in SUBSET T : Taken(f, s) = IF s = {} THEN 0 ELSE f[Pick(s)] + g[s \ {Pick(s)}]
    BY <2>1 DEF Taken
  <2> QED
    BY <2>2 DEF Sums
<1> QED
  BY <1>2, <1>6

\* The sum of a finite set, with one element taken out.
LEMMA SumStep ==
  ASSUME NEW S, IsFiniteSet(S), NEW f
  PROVE  SumFunctionOnSet(f, S) = Taken(f, S)
<1> DEFINE g == CHOOSE k : Sums(k, f, S)
<1>1. SumFunctionOnSet(f, S) = g[S] /\ Sums(g, f, S)
  BY SumsExist, SumIsSums, Zenon
<1> HIDE DEF g
<1>2. CASE S = {}
  BY <1>1, <1>2 DEF Sums, Taken
<1>3. CASE S # {}
  <2> DEFINE V == S \ {Pick(S)}
             h == CHOOSE k : Sums(k, f, V)
  <2>1. Pick(S) \in S /\ IsFiniteSet(V)
    BY <1>3, PickIn, FS_RemoveElement
  <2>2. SumFunctionOnSet(f, V) = h[V] /\ Sums(h, f, V)
    BY <2>1, SumsExist, SumIsSums, Zenon
  <2> HIDE DEF h
  <2>3. g[S] = f[Pick(S)] + g[V]
    BY <1>1, <1>3 DEF Sums
  <2>4. g[V] = h[V]
    BY <1>1, <2>1, <2>2, SumsAgree, V \in SUBSET S, S \in SUBSET S
  <2> QED
    BY <1>1, <1>3, <2>2, <2>3, <2>4 DEF Taken
<1> QED
  BY <1>2, <1>3

\* Nothing adds up to nothing.
LEMMA SumEmpty ==
  ASSUME NEW f PROVE SumFunctionOnSet(f, {}) = 0
BY SumStep, FS_EmptySet DEF Taken

\* A sum of integers is one.
LEMMA SumType ==
  ASSUME NEW S, IsFiniteSet(S), NEW f, \A x \in S : f[x] \in Int
  PROVE  SumFunctionOnSet(f, S) \in Int
<1> DEFINE Bad == {s \in SUBSET S : SumFunctionOnSet(f, s) \notin Int}
<1>1. SUFFICES ASSUME Bad # {} PROVE FALSE
  OBVIOUS
<1>2. PICK s \in Bad : \A t \in Bad : ~ (t \subseteq s /\ t # s)
  <2>1. Bad \in SUBSET SUBSET S
    OBVIOUS
  <2> HIDE DEF Bad
  <2> QED
    BY <1>1, <2>1, SmallestSubset
<1>3. IsFiniteSet(s) /\ SumFunctionOnSet(f, s) = Taken(f, s)
  BY FS_Subset, SumStep
<1>4. s # {} => Pick(s) \in s
  BY PickIn
<1>5. s # {} => SumFunctionOnSet(f, s \ {Pick(s)}) \in Int
  BY <1>2, <1>4
<1> QED
  BY <1>2, <1>3, <1>4, <1>5 DEF Taken

\* It does not matter which element is taken out.
LEMMA SumRemove ==
  ASSUME NEW S, IsFiniteSet(S), NEW f, \A x \in S : f[x] \in Int, NEW x \in S
  PROVE  SumFunctionOnSet(f, S) = f[x] + SumFunctionOnSet(f, S \ {x})
<1> DEFINE Total(s) == SumFunctionOnSet(f, s)
           Bad == {s \in SUBSET S : ~ \A y \in s : Total(s) = f[y] + Total(s \ {y})}
<1>1. SUFFICES ASSUME Bad # {} PROVE FALSE
  OBVIOUS
<1>2. PICK s \in Bad : \A t \in Bad : ~ (t \subseteq s /\ t # s)
  <2>1. Bad \in SUBSET SUBSET S
    OBVIOUS
  <2> HIDE DEF Bad
  <2> QED
    BY <1>1, <2>1, SmallestSubset
<1>3. PICK y \in s : Total(s) # f[y] + Total(s \ {y})
  BY <1>2
<1> DEFINE z == Pick(s)
<1>4. z \in s /\ IsFiniteSet(s)
  BY <1>3, PickIn, FS_Subset
<1>5. Total(s) = f[z] + Total(s \ {z})
  BY <1>3, <1>4, SumStep DEF Taken
<1>6. y # z
  BY <1>3, <1>5
<1>7. s \ {y} \notin Bad /\ s \ {z} \notin Bad
  BY <1>2, <1>3, <1>4
<1>8. Total(s \ {z}) = f[y] + Total((s \ {z}) \ {y})
  BY <1>3, <1>6, <1>7, s \ {z} \in SUBSET S
<1>9. Total(s \ {y}) = f[z] + Total((s \ {y}) \ {z})
  BY <1>4, <1>6, <1>7, s \ {y} \in SUBSET S
<1>10. (s \ {z}) \ {y} = (s \ {y}) \ {z}
  OBVIOUS
<1>11. f[y] \in Int /\ f[z] \in Int /\ Total((s \ {y}) \ {z}) \in Int
  <2>1. IsFiniteSet((s \ {y}) \ {z})
    BY <1>4, FS_RemoveElement
  <2> QED
    BY <1>3, <1>4, <2>1, SumType
<1> DEFINE rest == Total((s \ {y}) \ {z})
<1>12. /\ Total(s) = f[z] + (f[y] + rest)
       /\ Total(s \ {y}) = f[z] + rest
  BY <1>5, <1>8, <1>9, <1>10
<1>13. f[z] + (f[y] + rest) = f[y] + (f[z] + rest)
  <2> HIDE DEF rest, z
  <2> QED
    BY <1>11 DEF rest
<1> QED
  BY <1>3, <1>12, <1>13

\* A new element adds its value.
LEMMA SumAdd ==
  ASSUME NEW S, IsFiniteSet(S), NEW f, NEW x, x \notin S, \A y \in S \cup {x} : f[y] \in Int
  PROVE  SumFunctionOnSet(f, S \cup {x}) = SumFunctionOnSet(f, S) + f[x]
<1>1. IsFiniteSet(S \cup {x}) /\ (S \cup {x}) \ {x} = S
  BY FS_AddElement
<1>2. SumFunctionOnSet(f, S \cup {x}) = f[x] + SumFunctionOnSet(f, S)
  BY <1>1, SumRemove, x \in S \cup {x}
<1>3. SumFunctionOnSet(f, S) \in Int /\ f[x] \in Int
  BY SumType
<1> QED
  BY <1>2, <1>3

\* A sum takes nothing from a function but its values on the set.
LEMMA SumSame ==
  ASSUME NEW S, IsFiniteSet(S), NEW f, NEW g, \A x \in S : f[x] = g[x]
  PROVE  SumFunctionOnSet(f, S) = SumFunctionOnSet(g, S)
<1> DEFINE Bad == {s \in SUBSET S : SumFunctionOnSet(f, s) # SumFunctionOnSet(g, s)}
<1>1. SUFFICES ASSUME Bad # {} PROVE FALSE
  OBVIOUS
<1>2. PICK s \in Bad : \A t \in Bad : ~ (t \subseteq s /\ t # s)
  <2>1. Bad \in SUBSET SUBSET S
    OBVIOUS
  <2> HIDE DEF Bad
  <2> QED
    BY <1>1, <2>1, SmallestSubset
<1>3. /\ SumFunctionOnSet(f, s) = Taken(f, s)
      /\ SumFunctionOnSet(g, s) = Taken(g, s)
  BY FS_Subset, SumStep
<1>4. s # {} => Pick(s) \in s
  BY PickIn
<1>5. s # {} => SumFunctionOnSet(f, s \ {Pick(s)}) = SumFunctionOnSet(g, s \ {Pick(s)})
  BY <1>2, <1>4
<1> QED
  BY <1>2, <1>3, <1>4, <1>5 DEF Taken

\* A function changed at one point changes the sum by as much.
LEMMA SumUpdate ==
  ASSUME NEW S, IsFiniteSet(S), NEW f, NEW g, NEW x \in S,
         \A y \in S : f[y] \in Int /\ g[y] \in Int, \A y \in S \ {x} : g[y] = f[y]
  PROVE  SumFunctionOnSet(g, S) = SumFunctionOnSet(f, S) + g[x] - f[x]
<1>1. IsFiniteSet(S \ {x})
  BY FS_RemoveElement
<1>2. SumFunctionOnSet(g, S \ {x}) = SumFunctionOnSet(f, S \ {x})
  BY <1>1, SumSame
<1>3. /\ SumFunctionOnSet(f, S) = f[x] + SumFunctionOnSet(f, S \ {x})
      /\ SumFunctionOnSet(g, S) = g[x] + SumFunctionOnSet(g, S \ {x})
  BY SumRemove
<1>4. f[x] \in Int /\ g[x] \in Int /\ SumFunctionOnSet(f, S \ {x}) \in Int
  BY <1>1, SumType
<1> QED
  BY <1>2, <1>3, <1>4
=============================================================================

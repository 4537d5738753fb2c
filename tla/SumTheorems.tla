----------------------------- MODULE SumTheorems ------------------------------
(***************************************************************************)
(* Facts about SumFunctionOnSet, which adds up amounts over a finite set   *)
(* by a recursive function that takes the elements in an order of its own. *)
(*                                                                         *)
(* Induction takes the form of a smallest counterexample (SmallestSet,     *)
(* SmallestNumber): were there sets for which a fact fails, one of them    *)
(* would have no smaller one among them.  The first part shows that the    *)
(* recursion has a solution, that its parts do not depend on the whole,    *)
(* and that the order does not matter (SumSplits); the second draws the    *)
(* consequences the proofs about the books need.                           *)
(***************************************************************************)
EXTENDS Integers, Functions, FiniteSetTheorems, WellFoundedInduction, TLAPS

\* The element the recursion takes, and what it makes of the rest.
Taken(s) == CHOOSE x \in s : TRUE
AddUp(f, g, s) == IF s = {} THEN 0 ELSE f[Taken(s)] + g[s \ {Taken(s)}]
AddsUp(f, g, S) == g = [s \in SUBSET S |-> AddUp(f, g, s)]
Adding(f, S) == CHOOSE g : AddsUp(f, g, S)

-----------------------------------------------------------------------------
LEMMA SmallestSet ==
  ASSUME NEW S, IsFiniteSet(S), NEW T, T \subseteq SUBSET S, T # {}
  PROVE  \E x \in T : \A y \in T : ~(y \subseteq x /\ y # x)
<1>1. FiniteSubsetsOf(S) = SUBSET S
  BY FS_FiniteSubsetsOfFinite
<1>2. IsWellFoundedOn(StrictSubsetOrdering(S), SUBSET S)
  BY <1>1, FS_StrictSubsetOrderingWellFounded
<1>3. PICK x \in T : \A y \in T : ~(<<y, x>> \in StrictSubsetOrdering(S))
  BY <1>2, WFMin
<1> QED
  BY <1>3 DEF StrictSubsetOrdering

LEMMA SmallestNumber ==
  ASSUME NEW T, T \subseteq Nat, T # {}
  PROVE  \E n \in T : \A m \in T : n <= m
<1>1. PICK k \in T : TRUE
  OBVIOUS
<1>2. PICK S : S = 0..k /\ IsFiniteSet(S)
  BY <1>1, FS_Interval
<1>3. IsFiniteSet(S)
  BY <1>2
<1> DEFINE U == {s \in SUBSET S : \E m \in T : s = 0..m}
<1>4. U \subseteq SUBSET S /\ U # {}
  BY <1>1, <1>2
<1> HIDE DEF U
<1>5. \E s \in U : \A t \in U : ~(t \subseteq s /\ t # s)
  BY <1>3, <1>4, SmallestSet
<1>6. PICK s \in U : \A t \in U : ~(t \subseteq s /\ t # s)
  BY <1>5
<1> USE DEF U
<1>7. PICK n \in T : s = 0..n
  BY <1>6
<1>8. n <= k
  BY <1>1, <1>2, <1>6, <1>7
<1>9. ASSUME NEW m \in T PROVE n <= m
  <2> SUFFICES ASSUME m < n PROVE FALSE
    BY <1>1, <1>7
  <2>1. m \in Nat /\ n \in Nat /\ k \in Nat
    BY <1>1
  <2>2. 0..m \in U
    BY <1>2, <1>8, <2>1
  <2>3. 0..m \subseteq s /\ 0..m # s
    BY <1>7, <2>1
  <2> QED
    BY <1>6, <2>2, <2>3
<1> QED
  BY <1>7, <1>9

-----------------------------------------------------------------------------
(* The recursion                                                            *)

LEMMA SumIsAdding ==
  ASSUME NEW f, NEW S
  PROVE  SumFunctionOnSet(f, S) = Adding(f, S)[S]
BY DEF SumFunctionOnSet, FoldFunctionOnSet, MapThenFoldSet, Adding, AddsUp, AddUp, Taken

LEMMA TakenIsOne == ASSUME NEW s, s # {} PROVE Taken(s) \in s
BY DEF Taken

LEMMA FiniteParts == ASSUME NEW S, IsFiniteSet(S), NEW T, T \subseteq S PROVE IsFiniteSet(T)
BY FS_Subset

\* Two solutions agree where both are defined.
LEMMA SolutionsAgree ==
  ASSUME NEW f, NEW A, NEW B, NEW g, NEW h, AddsUp(f, g, A), AddsUp(f, h, B),
         NEW S, IsFiniteSet(S), S \subseteq A, S \subseteq B
  PROVE  g[S] = h[S]
<1> DEFINE T == {s \in SUBSET S : g[s] # h[s]}
<1>1. ASSUME T # {} PROVE FALSE
  <2>0. T \subseteq SUBSET S
    OBVIOUS
  <2> HIDE DEF T
  <2>1. PICK s \in T : \A t \in T : ~(t \subseteq s /\ t # s)
    BY <1>1, <2>0, SmallestSet
  <2> USE DEF T
  <2>2. g[s] = AddUp(f, g, s) /\ h[s] = AddUp(f, h, s)
    BY DEF AddsUp
  <2>3. s # {}
    BY <2>1, <2>2 DEF AddUp
  <2>4. s \ {Taken(s)} \subseteq s /\ s \ {Taken(s)} # s
    BY <2>3, TakenIsOne
  <2>5. g[s \ {Taken(s)}] = h[s \ {Taken(s)}]
    BY <2>1, <2>4
  <2> QED
    BY <2>1, <2>2, <2>5 DEF AddUp
<1> QED
  BY <1>1

LEMMA SolutionExists == ASSUME NEW f, NEW S, IsFiniteSet(S) PROVE AddsUp(f, Adding(f, S), S)
<1> DEFINE T == {s \in SUBSET S : ~ AddsUp(f, Adding(f, s), s)}
<1>1. ASSUME T # {} PROVE FALSE
  <2>0. T \subseteq SUBSET S
    OBVIOUS
  <2> HIDE DEF T
  <2>1. PICK s \in T : \A t \in T : ~(t \subseteq s /\ t # s)
    BY <1>1, <2>0, SmallestSet
  <2> USE DEF T
  <2> DEFINE V(t) == AddUp(f, [u \in SUBSET s |-> Adding(f, u)[u]], t)
             g == [t \in SUBSET s |-> V(t)]
  <2>2. ASSUME NEW t \in SUBSET s, t # s PROVE Adding(f, t)[t] = V(t)
    <3>1. AddsUp(f, Adding(f, t), t)
      BY <2>1, <2>2
    <3>2. Adding(f, t)[t] = AddUp(f, Adding(f, t), t)
      BY <3>1 DEF AddsUp
    <3>3. CASE t = {}
      BY <3>2, <3>3 DEF AddUp
    <3>4. CASE t # {}
      <4> DEFINE u == t \ {Taken(t)}
      <4>1. u \subseteq t /\ u \subseteq s /\ u # s
        BY <3>4, TakenIsOne
      <4>2. AddsUp(f, Adding(f, u), u)
        BY <2>1, <4>1
      <4>3. IsFiniteSet(u)
        BY <4>1, FiniteParts
      <4>4. Adding(f, t)[u] = Adding(f, u)[u]
        BY <3>1, <4>1, <4>2, <4>3, SolutionsAgree
      <4> QED
        BY <3>2, <3>4, <4>1, <4>4 DEF AddUp
    <3> QED
      BY <3>3, <3>4
  <2>3. ASSUME NEW t \in SUBSET s PROVE V(t) = AddUp(f, g, t)
    <3>1. CASE t = {}
      BY <3>1 DEF AddUp
    <3>2. CASE t # {}
      <4> DEFINE u == t \ {Taken(t)}
      <4>1. u \in SUBSET s /\ u # s
        BY <3>2, TakenIsOne
      <4>2. g[u] = Adding(f, u)[u]
        BY <2>2, <4>1
      <4> QED
        BY <3>2, <4>1, <4>2 DEF AddUp
    <3> QED
      BY <3>1, <3>2
  <2>4. AddsUp(f, g, s)
    BY <2>3 DEF AddsUp
  <2>5. AddsUp(f, Adding(f, s), s)
    BY <2>4 DEF Adding
  <2> QED
    BY <2>1, <2>5
<1> QED
  BY <1>1

LEMMA SumOfNone == ASSUME NEW f PROVE SumFunctionOnSet(f, {}) = 0
<1>1. AddsUp(f, Adding(f, {}), {})
  BY SolutionExists, FS_EmptySet
<1>2. Adding(f, {})[{}] = AddUp(f, Adding(f, {}), {})
  BY <1>1 DEF AddsUp
<1> QED
  BY <1>2, SumIsAdding DEF AddUp

LEMMA SumTakes ==
  ASSUME NEW f, NEW S, IsFiniteSet(S), S # {}
  PROVE  SumFunctionOnSet(f, S) = f[Taken(S)] + SumFunctionOnSet(f, S \ {Taken(S)})
<1> DEFINE U == S \ {Taken(S)}
<1>1. U \subseteq S /\ IsFiniteSet(U)
  BY FiniteParts
<1>2. AddsUp(f, Adding(f, S), S) /\ AddsUp(f, Adding(f, U), U)
  BY <1>1, SolutionExists
<1>3. Adding(f, S)[S] = f[Taken(S)] + Adding(f, S)[U]
  BY <1>2 DEF AddsUp, AddUp
<1>4. Adding(f, S)[U] = Adding(f, U)[U]
  BY <1>1, <1>2, SolutionsAgree
<1> QED
  BY <1>3, <1>4, SumIsAdding

LEMMA SumIsInteger ==
  ASSUME NEW S, IsFiniteSet(S), NEW f, \A x \in S : f[x] \in Int
  PROVE  SumFunctionOnSet(f, S) \in Int
<1> DEFINE T == {s \in SUBSET S : SumFunctionOnSet(f, s) \notin Int}
<1>1. ASSUME T # {} PROVE FALSE
  <2>0. T \subseteq SUBSET S
    OBVIOUS
  <2> HIDE DEF T
  <2>1. PICK s \in T : \A t \in T : ~(t \subseteq s /\ t # s)
    BY <1>1, <2>0, SmallestSet
  <2> USE DEF T
  <2>2. s # {} /\ IsFiniteSet(s)
    <3>1. s \subseteq S /\ SumFunctionOnSet(f, s) \notin Int
      BY <2>1
    <3>2. SumFunctionOnSet(f, {}) \in Int
      BY SumOfNone
    <3> QED
      BY <3>1, <3>2, FiniteParts
  <2>3. Taken(s) \in s /\ s \ {Taken(s)} \subseteq s /\ s \ {Taken(s)} # s
    BY <2>2, TakenIsOne
  <2>4. SumFunctionOnSet(f, s \ {Taken(s)}) \in Int
    BY <2>1, <2>3
  <2>5. SumFunctionOnSet(f, s) = f[Taken(s)] + SumFunctionOnSet(f, s \ {Taken(s)})
    BY <2>2, SumTakes
  <2> QED
    BY <2>1, <2>3, <2>4, <2>5
<1> QED
  BY <1>1

\* Any element can be taken first.
LEMMA SumSplits ==
  ASSUME NEW S, IsFiniteSet(S), NEW f, \A x \in S : f[x] \in Int, NEW y \in S
  PROVE  SumFunctionOnSet(f, S) = f[y] + SumFunctionOnSet(f, S \ {y})
<1> DEFINE T == {s \in SUBSET S :
                   \E x \in s : SumFunctionOnSet(f, s) # f[x] + SumFunctionOnSet(f, s \ {x})}
<1>1. ASSUME T # {} PROVE FALSE
  <2>0. T \subseteq SUBSET S
    OBVIOUS
  <2> HIDE DEF T
  <2>1. PICK s \in T : \A t \in T : ~(t \subseteq s /\ t # s)
    BY <1>1, <2>0, SmallestSet
  <2> USE DEF T
  <2>2. PICK x \in s : SumFunctionOnSet(f, s) # f[x] + SumFunctionOnSet(f, s \ {x})
    BY <2>1
  <2>3. PICK p \in s : p = Taken(s)
    BY <2>2, TakenIsOne
  <2>4. IsFiniteSet(s) /\ s \subseteq S
    BY <2>1, FiniteParts
  <2>5. SumFunctionOnSet(f, s) = f[p] + SumFunctionOnSet(f, s \ {p})
    BY <2>2, <2>3, <2>4, SumTakes
  <2>6. p # x
    BY <2>2, <2>5
  <2>7. s \ {p} \notin T /\ s \ {x} \notin T
    BY <2>1
  <2>8. SumFunctionOnSet(f, s \ {p}) = f[x] + SumFunctionOnSet(f, (s \ {p}) \ {x})
    BY <2>4, <2>6, <2>7
  <2>9. SumFunctionOnSet(f, s \ {x}) = f[p] + SumFunctionOnSet(f, (s \ {x}) \ {p})
    BY <2>4, <2>6, <2>7
  <2>10. (s \ {p}) \ {x} = (s \ {x}) \ {p}
    OBVIOUS
  <2>11. PICK rest : rest = SumFunctionOnSet(f, (s \ {p}) \ {x})
    OBVIOUS
  <2>12. rest \in Int
    <3>1. IsFiniteSet((s \ {p}) \ {x}) /\ (s \ {p}) \ {x} \subseteq S
      BY <2>4, FiniteParts
    <3> QED
      BY <2>11, <3>1, SumIsInteger
  <2>13. f[p] \in Int /\ f[x] \in Int
    BY <2>4
  <2>14. f[p] + (f[x] + rest) = f[x] + (f[p] + rest)
    BY <2>12, <2>13
  <2> QED
    BY <2>2, <2>5, <2>8, <2>9, <2>10, <2>11, <2>14
<1> QED
  BY <1>1

-----------------------------------------------------------------------------
(* Consequences                                                             *)

\* The sum depends on the values at the elements only.
LEMMA SumSame ==
  ASSUME NEW S, IsFiniteSet(S), NEW f, NEW g, \A x \in S : f[x] = g[x]
  PROVE  SumFunctionOnSet(f, S) = SumFunctionOnSet(g, S)
<1> DEFINE T == {s \in SUBSET S : SumFunctionOnSet(f, s) # SumFunctionOnSet(g, s)}
<1>1. ASSUME T # {} PROVE FALSE
  <2>0. T \subseteq SUBSET S
    OBVIOUS
  <2> HIDE DEF T
  <2>1. PICK s \in T : \A t \in T : ~(t \subseteq s /\ t # s)
    BY <1>1, <2>0, SmallestSet
  <2> USE DEF T
  <2>2. s \subseteq S /\ SumFunctionOnSet(f, s) # SumFunctionOnSet(g, s) /\ IsFiniteSet(s)
    BY <2>1, FiniteParts
  <2>3. s # {}
    BY <2>2, SumOfNone
  <2>4. PICK p \in s : p = Taken(s)
    BY <2>3, TakenIsOne
  <2>5. s \ {p} \notin T
    BY <2>1
  <2>6. SumFunctionOnSet(f, s \ {p}) = SumFunctionOnSet(g, s \ {p})
    BY <2>2, <2>5
  <2>7. /\ SumFunctionOnSet(f, s) = f[p] + SumFunctionOnSet(f, s \ {p})
        /\ SumFunctionOnSet(g, s) = g[p] + SumFunctionOnSet(g, s \ {p})
    BY <2>2, <2>3, <2>4, SumTakes
  <2> QED
    BY <2>2, <2>6, <2>7
<1> QED
  BY <1>1

\* One more element adds its value.
LEMMA SumJoins ==
  ASSUME NEW S, IsFiniteSet(S), NEW f, \A x \in S : f[x] \in Int, NEW y, y \notin S, f[y] \in Int
  PROVE  SumFunctionOnSet(f, S \cup {y}) = SumFunctionOnSet(f, S) + f[y]
<1>1. IsFiniteSet(S \cup {y})
  BY FS_AddElement
<1>2. PICK R : R = S \cup {y}
  OBVIOUS
<1>3. IsFiniteSet(R) /\ y \in R /\ R \ {y} = S /\ \A x \in R : f[x] \in Int
  BY <1>1, <1>2
<1>4. SumFunctionOnSet(f, R) = f[y] + SumFunctionOnSet(f, R \ {y})
  BY <1>3, SumSplits
<1>5. SumFunctionOnSet(f, S) \in Int
  BY SumIsInteger
<1>6. SumFunctionOnSet(f, R) = f[y] + SumFunctionOnSet(f, S)
  BY <1>3, <1>4
<1> QED
  BY <1>2, <1>5, <1>6

\* Two functions of integers that differ in one place at most.
DiffersAt(S, f, g, y) ==
  /\ IsFiniteSet(S) /\ y \in S
  /\ \A x \in S : f[x] \in Int /\ g[x] \in Int /\ (x # y => f[x] = g[x])

\* When they do, their sums differ by what they differ there.
LEMMA SumChanges ==
  ASSUME NEW S, NEW f, NEW g, NEW y, DiffersAt(S, f, g, y)
  PROVE  SumFunctionOnSet(g, S) = (SumFunctionOnSet(f, S) - f[y]) + g[y]
<1> USE DEF DiffersAt
<1>1. PICK R : R = S \ {y}
  OBVIOUS
<1>2. IsFiniteSet(R) /\ \A x \in R : f[x] \in Int /\ f[x] = g[x]
  BY <1>1, FiniteParts
<1>3. SumFunctionOnSet(f, R) = SumFunctionOnSet(g, R) /\ SumFunctionOnSet(f, R) \in Int
  BY <1>2, SumSame, SumIsInteger
<1>4. SumFunctionOnSet(f, S) = f[y] + SumFunctionOnSet(f, R)
  BY <1>1, SumSplits
<1>5. SumFunctionOnSet(g, S) = g[y] + SumFunctionOnSet(g, R)
  BY <1>1, SumSplits
<1>6. f[y] \in Int /\ g[y] \in Int
  OBVIOUS
<1> QED
  BY <1>3, <1>4, <1>5, <1>6

\* Sums of natural numbers, of a part and of the whole.
LEMMA SumOfPart ==
  ASSUME NEW S, IsFiniteSet(S), NEW f, \A x \in S : f[x] \in Nat, NEW P, P \subseteq S
  PROVE  /\ SumFunctionOnSet(f, P) \in Nat /\ SumFunctionOnSet(f, S) \in Nat
         /\ SumFunctionOnSet(f, P) <= SumFunctionOnSet(f, S)
<1> DEFINE Of(s) == SumFunctionOnSet(f, s)
           T == {s \in SUBSET S : Of(s) \notin Nat \/ \E p \in SUBSET s : ~(Of(p) <= Of(s))}
<1>1. ASSUME T # {} PROVE FALSE
  <2>0. T \subseteq SUBSET S
    OBVIOUS
  <2> HIDE DEF T
  <2>1. PICK s \in T : \A t \in T : ~(t \subseteq s /\ t # s)
    BY <1>1, <2>0, SmallestSet
  <2> USE DEF T
  <2>2. s \subseteq S /\ IsFiniteSet(s)
    BY <2>1, FiniteParts
  <2>3. ASSUME NEW y \in s
        PROVE  Of(s) = f[y] + Of(s \ {y}) /\ Of(s \ {y}) \in Nat /\ f[y] \in Nat
    <3>1. s \ {y} \notin T /\ s \ {y} \subseteq S /\ f[y] \in Nat
      BY <2>1, <2>2
    <3>2. \A x \in s : f[x] \in Int
      BY <2>2
    <3>3. Of(s) = f[y] + Of(s \ {y})
      BY <2>2, <3>2, SumSplits
    <3> QED
      BY <3>1, <3>3
  <2>4. Of(s) \in Nat
    <3>1. CASE s = {}
      BY <3>1, SumOfNone
    <3>2. CASE s # {}
      <4>1. PICK y \in s : TRUE
        BY <3>2
      <4>2. PICK rest : rest = Of(s \ {y})
        OBVIOUS
      <4>3. Of(s) = f[y] + rest /\ rest \in Nat /\ f[y] \in Nat
        BY <2>3, <4>1, <4>2
      <4> QED
        BY <4>3
    <3> QED
      BY <3>1, <3>2
  <2>5. ASSUME NEW p \in SUBSET s PROVE Of(p) <= Of(s)
    <3>1. CASE p = s
      BY <2>4, <3>1
    <3>2. CASE p # s
      <4>1. PICK y \in s \ p : TRUE
        BY <3>2
      <4>2. s \ {y} \notin T /\ s \ {y} \in SUBSET S /\ p \in SUBSET (s \ {y})
        BY <2>1, <2>2, <4>1
      <4>3. Of(p) <= Of(s \ {y})
        BY <4>2
      <4>4. IsFiniteSet(p) /\ \A x \in p : f[x] \in Int
        BY <2>2, FiniteParts
      <4>5. Of(p) \in Int
        BY <4>4, SumIsInteger
      <4>6. Of(s) = f[y] + Of(s \ {y}) /\ Of(s \ {y}) \in Nat /\ f[y] \in Nat
        BY <2>3, <4>1
      <4> HIDE DEF Of
      <4> QED
        BY <4>3, <4>5, <4>6
    <3> QED
      BY <3>1, <3>2
  <2> QED
    BY <2>1, <2>4, <2>5
<1>2. S \notin T /\ P \notin T
  BY <1>1
<1> QED
  BY <1>2

\* What is zero outside a part does not count.
LEMMA SumOutside ==
  ASSUME NEW S, IsFiniteSet(S), NEW f, \A x \in S : f[x] \in Int, NEW P, P \subseteq S,
         \A x \in S \ P : f[x] = 0
  PROVE  SumFunctionOnSet(f, S) = SumFunctionOnSet(f, P)
<1> DEFINE T == {s \in SUBSET S : P \subseteq s /\ SumFunctionOnSet(f, s) # SumFunctionOnSet(f, P)}
<1>1. ASSUME T # {} PROVE FALSE
  <2>0. T \subseteq SUBSET S
    OBVIOUS
  <2> HIDE DEF T
  <2>1. PICK s \in T : \A t \in T : ~(t \subseteq s /\ t # s)
    BY <1>1, <2>0, SmallestSet
  <2> USE DEF T
  <2>2. s \subseteq S /\ P \subseteq s /\ SumFunctionOnSet(f, s) # SumFunctionOnSet(f, P)
    BY <2>1
  <2>3. PICK y \in s \ P : TRUE
    BY <2>2
  <2>4. f[y] = 0 /\ s \ {y} \notin T /\ P \subseteq s \ {y} /\ s \ {y} \subseteq S
    BY <2>1, <2>2, <2>3
  <2>5. IsFiniteSet(s) /\ \A x \in s : f[x] \in Int
    BY <2>2, FiniteParts
  <2>6. SumFunctionOnSet(f, s) = f[y] + SumFunctionOnSet(f, s \ {y})
    BY <2>3, <2>5, SumSplits
  <2>7. SumFunctionOnSet(f, s \ {y}) = SumFunctionOnSet(f, P)
    BY <2>4
  <2>8. IsFiniteSet(P) /\ \A x \in P : f[x] \in Int
    BY FiniteParts
  <2>9. SumFunctionOnSet(f, P) \in Int
    BY <2>8, SumIsInteger
  <2> QED
    BY <2>2, <2>4, <2>6, <2>7, <2>9
<1> QED
  BY <1>1

\* The sum of the differences is the difference of the sums.
LEMMA SumOfDifferences ==
  ASSUME NEW S, IsFiniteSet(S), NEW f, NEW g, NEW h,
         \A x \in S : f[x] \in Int /\ g[x] \in Int /\ h[x] = f[x] - g[x]
  PROVE  SumFunctionOnSet(h, S) = SumFunctionOnSet(f, S) - SumFunctionOnSet(g, S)
<1> DEFINE T == {s \in SUBSET S : SumFunctionOnSet(h, s)
                                    # SumFunctionOnSet(f, s) - SumFunctionOnSet(g, s)}
<1>1. ASSUME T # {} PROVE FALSE
  <2>0. T \subseteq SUBSET S
    OBVIOUS
  <2> HIDE DEF T
  <2>1. PICK s \in T : \A t \in T : ~(t \subseteq s /\ t # s)
    BY <1>1, <2>0, SmallestSet
  <2> USE DEF T
  <2>2. /\ s \subseteq S /\ IsFiniteSet(s)
        /\ SumFunctionOnSet(h, s) # SumFunctionOnSet(f, s) - SumFunctionOnSet(g, s)
    BY <2>1, FiniteParts
  <2>3. CASE s = {}
    BY <2>2, <2>3, SumOfNone
  <2>4. CASE s # {}
    <3>1. PICK y \in s : TRUE
      BY <2>4
    <3>2. PICK r : r = s \ {y}
      OBVIOUS
    <3>3. r \notin T /\ r \subseteq S /\ IsFiniteSet(r)
      BY <2>1, <2>2, <3>1, <3>2, FiniteParts
    <3>4. /\ \A x \in s : f[x] \in Int
          /\ \A x \in s : g[x] \in Int
          /\ \A x \in s : h[x] \in Int
      BY <2>2
    <3>5. /\ SumFunctionOnSet(f, s) = f[y] + SumFunctionOnSet(f, r)
          /\ SumFunctionOnSet(g, s) = g[y] + SumFunctionOnSet(g, r)
          /\ SumFunctionOnSet(h, s) = h[y] + SumFunctionOnSet(h, r)
      BY <2>2, <3>1, <3>2, <3>4, SumSplits
    <3>6. /\ SumFunctionOnSet(f, r) \in Int /\ SumFunctionOnSet(g, r) \in Int
      BY <3>2, <3>3, <3>4, SumIsInteger
    <3>7. SumFunctionOnSet(h, r) = SumFunctionOnSet(f, r) - SumFunctionOnSet(g, r)
      BY <3>3
    <3>8. f[y] \in Int /\ g[y] \in Int /\ h[y] = f[y] - g[y]
      BY <2>2, <3>1
    <3> QED
      BY <2>2, <3>5, <3>6, <3>7, <3>8
  <2> QED
    BY <2>3, <2>4
<1> QED
  BY <1>1

-----------------------------------------------------------------------------
(* Using up what is held, in order                                          *)

Below(D, n) == {j \in D : j < n}

LEMMA BelowGrows ==
  ASSUME NEW D, D \subseteq Nat, NEW m \in Nat
  PROVE  /\ Below(D, 0) = {}
         /\ m \notin D => Below(D, m + 1) = Below(D, m)
         /\ m \in D => Below(D, m + 1) = Below(D, m) \cup {m}
         /\ m \notin Below(D, m) /\ Below(D, m) \subseteq D
<1>1. Below(D, 0) = {}
  <2>1. \A j \in D : ~(j < 0)
    OBVIOUS
  <2> QED
    BY <2>1 DEF Below
<1>2. \A j \in D : j < m + 1 <=> j < m \/ j = m
  OBVIOUS
<1>3. m \notin D => Below(D, m + 1) = Below(D, m)
  BY <1>2 DEF Below
<1>4. m \in D => Below(D, m + 1) = Below(D, m) \cup {m}
  BY <1>2 DEF Below
<1> QED
  BY <1>1, <1>3, <1>4 DEF Below

LEMMA BelowIsAll ==
  ASSUME NEW S, IsFiniteSet(S), \A x \in S : x \in Nat
  PROVE  \E n \in Nat : Below(S, n) = S
<1> DEFINE T == {s \in SUBSET S : \A n \in Nat : ~(s \subseteq Below(S, n))}
<1>1. ASSUME T # {} PROVE FALSE
  <2>0. T \subseteq SUBSET S
    OBVIOUS
  <2> HIDE DEF T
  <2>1. PICK s \in T : \A t \in T : ~(t \subseteq s /\ t # s)
    BY <1>1, <2>0, SmallestSet
  <2> USE DEF T
  <2>2. s \subseteq S /\ \A n \in Nat : ~(s \subseteq Below(S, n))
    BY <2>1
  <2>3. PICK y \in s : TRUE
    BY <2>2
  <2>4. s \ {y} \notin T /\ s \ {y} \subseteq S
    BY <2>1, <2>2, <2>3
  <2>5. PICK n \in Nat : s \ {y} \subseteq Below(S, n)
    BY <2>4
  <2>6. y \in Nat
    BY <2>2, <2>3
  <2>7. PICK k \in Nat : n <= k /\ y < k
    <3>1. CASE n <= y
      <4>1. y + 1 \in Nat /\ n <= y + 1 /\ y < y + 1
        BY <2>6, <3>1
      <4> QED
        BY <4>1
    <3>2. CASE ~(n <= y)
      <4>1. n <= n /\ y < n
        BY <2>6, <3>2
      <4> QED
        BY <4>1
    <3> QED
      BY <3>1, <3>2
  <2>8. s \subseteq Below(S, k)
    BY <2>2, <2>5, <2>6, <2>7 DEF Below
  <2> QED
    BY <2>2, <2>8
<1>2. \E n \in Nat : S \subseteq Below(S, n)
  BY <1>1
<1> QED
  BY <1>2 DEF Below

\* Lots are used up in order until an amount has been taken: together they give
\* that amount, or all they hold.
LEMMA SumUsedUp ==
  ASSUME NEW D, IsFiniteSet(D), D \subseteq Nat, NEW h, \A i \in D : h[i] \in Nat,
         NEW q \in Nat, NEW c,
         \A i \in D : LET b == SumFunctionOnSet(h, Below(D, i))
                      IN  c[i] = IF q <= b THEN 0 ELSE IF h[i] < q - b THEN h[i] ELSE q - b
  PROVE  SumFunctionOnSet(c, D) = IF q < SumFunctionOnSet(h, D) THEN q ELSE SumFunctionOnSet(h, D)
<1>1. ASSUME NEW n \in Nat
      PROVE  /\ IsFiniteSet(Below(D, n)) /\ Below(D, n) \subseteq D
             /\ SumFunctionOnSet(h, Below(D, n)) \in Nat
  BY BelowGrows, FiniteParts, SumOfPart
<1>2. ASSUME NEW i \in D PROVE c[i] \in Nat
  <2>1. PICK b : b = SumFunctionOnSet(h, Below(D, i))
    OBVIOUS
  <2>2. b \in Nat /\ h[i] \in Nat
    BY <1>1, <2>1
  <2>3. c[i] = IF q <= b THEN 0 ELSE IF h[i] < q - b THEN h[i] ELSE q - b
    BY <2>1
  <2> QED
    BY <2>2, <2>3
<1> DEFINE Least(x) == IF q < x THEN q ELSE x
           Good(n) == SumFunctionOnSet(c, Below(D, n)) = Least(SumFunctionOnSet(h, Below(D, n)))
           T == {n \in Nat : ~ Good(n)}
<1>3. ASSUME T # {} PROVE FALSE
  <2>1. T \subseteq Nat
    OBVIOUS
  <2> HIDE DEF T
  <2>2. PICK n \in T : \A m \in T : n <= m
    BY <1>3, <2>1, SmallestNumber
  <2> USE DEF T
  <2>3. n \in Nat /\ ~Good(n)
    BY <2>2
  <2>4. n # 0
    <3>1. Below(D, 0) = {}
      BY BelowGrows
    <3>2. SumFunctionOnSet(c, Below(D, 0)) = 0 /\ SumFunctionOnSet(h, Below(D, 0)) = 0
      BY <3>1, SumOfNone
    <3>3. Good(0)
      BY <3>2
    <3> QED
      BY <2>3, <3>3
  <2>5. PICK m \in Nat : n = m + 1
    <3>1. n - 1 \in Nat /\ n = (n - 1) + 1
      BY <2>3, <2>4
    <3> QED
      BY <3>1
  <2>6. Good(m)
    <3>1. m \notin T
      BY <2>2, <2>3, <2>5
    <3> QED
      BY <3>1
  <2>7. CASE m \notin D
    <3>1. Below(D, n) = Below(D, m)
      BY <2>5, <2>7, BelowGrows
    <3> QED
      BY <2>3, <2>6, <3>1
  <2>8. CASE m \in D
    <3>1. PICK F : F = Below(D, m)
      OBVIOUS
    <3>2. Below(D, n) = F \cup {m} /\ m \notin F
      BY <2>5, <2>8, <3>1, BelowGrows
    <3>3. IsFiniteSet(F) /\ h[m] \in Int /\ c[m] \in Int
      BY <1>1, <1>2, <2>8, <3>1
    <3>4. F \subseteq D
      BY <3>1, BelowGrows
    <3>5. /\ \A x \in F : h[x] \in Int
          /\ \A x \in F : c[x] \in Int
      BY <1>2, <3>4
    <3>6. PICK b \in Nat : b = SumFunctionOnSet(h, F)
      BY <1>1, <3>1
    <3>7. SumFunctionOnSet(h, F \cup {m}) = b + h[m]
      BY <3>2, <3>3, <3>5, <3>6, SumJoins
    <3>8. PICK a : a = SumFunctionOnSet(c, F)
      OBVIOUS
    <3>9. SumFunctionOnSet(c, F \cup {m}) = a + c[m]
      BY <3>2, <3>3, <3>5, <3>8, SumJoins
    <3>10. a = Least(b)
      BY <2>6, <3>1, <3>6, <3>8
    <3>11. c[m] = IF q <= b THEN 0 ELSE IF h[m] < q - b THEN h[m] ELSE q - b
      BY <2>8, <3>1, <3>6
    <3>12. h[m] \in Nat
      BY <2>8
    <3>13. a + c[m] = Least(b + h[m])
      BY <3>10, <3>11, <3>12
    <3> QED
      BY <2>3, <3>2, <3>7, <3>9, <3>13
  <2> QED
    BY <2>7, <2>8
<1>4. PICK n \in Nat : Below(D, n) = D
  <2>1. \A x \in D : x \in Nat
    OBVIOUS
  <2> QED
    BY <2>1, BelowIsAll
<1>5. Good(n)
  BY <1>3
<1> QED
  BY <1>4, <1>5

\* A lot that gives nothing stays as it is; one that gives something held what the
\* user of the lots thought it held, and keeps what is not needed.
LeftBehind(D, h, q, i, before, after) ==
  LET older == SumFunctionOnSet(h, Below(D, i))
  IN  IF q <= older THEN after = before
      ELSE before = h[i] /\ after = IF h[i] < q - older THEN 0 ELSE h[i] - (q - older)

\* From the amounts a of a table L, q is taken from the lots D, which held h.
UsesUp(L, a, b, D, h, q) ==
  /\ IsFiniteSet(L) /\ D \subseteq L /\ q \in Nat /\ q <= SumFunctionOnSet(h, D)
  /\ \A i \in L : a[i] \in Nat
  /\ \A i \in L \ D : b[i] = a[i]
  /\ \A i \in D : i \in Nat /\ h[i] \in Nat /\ LeftBehind(D, h, q, i, a[i], b[i])

\* What is left is that much less, however many lots it took.
LEMMA SumAfterUse ==
  ASSUME NEW L, NEW a, NEW b, NEW D, NEW h, NEW q, UsesUp(L, a, b, D, h, q)
  PROVE  /\ SumFunctionOnSet(b, L) = SumFunctionOnSet(a, L) - q
         /\ \A i \in L : b[i] \in Nat
<1> USE DEF UsesUp
<1> DEFINE Older(i) == SumFunctionOnSet(h, Below(D, i))
           Gives(i) == IF q <= Older(i) THEN 0 ELSE IF h[i] < q - Older(i) THEN h[i] ELSE q - Older(i)
           c == [i \in L |-> IF i \in D THEN Gives(i) ELSE 0]
<1>0. IsFiniteSet(D)
  BY FiniteParts
<1>1. ASSUME NEW i \in D
      PROVE  Older(i) \in Nat /\ h[i] \in Nat /\ Gives(i) \in Nat
  <2>1. i \in Nat
    OBVIOUS
  <2>2. Below(D, i) \subseteq D
    BY DEF Below
  <2>3. Older(i) \in Nat
    BY <1>0, <2>2, SumOfPart
  <2> HIDE DEF Older
  <2>4. PICK o \in Nat : o = Older(i)
    BY <2>3
  <2>5. Gives(i) \in Nat
    BY <2>4
  <2> QED
    BY <2>3, <2>5
<1>2. SumFunctionOnSet(c, D) = q
  <2>1. \A i \in D : LET o == SumFunctionOnSet(h, Below(D, i))
                     IN  c[i] = IF q <= o THEN 0 ELSE IF h[i] < q - o THEN h[i] ELSE q - o
    OBVIOUS
  <2> HIDE DEF c
  <2>2. SumFunctionOnSet(c, D) = IF q < SumFunctionOnSet(h, D) THEN q ELSE SumFunctionOnSet(h, D)
    BY <1>0, <2>1, SumUsedUp
  <2>3. SumFunctionOnSet(h, D) \in Nat
    BY <1>0, SumOfPart
  <2> QED
    BY <2>2, <2>3
<1>3. ASSUME NEW i \in L
      PROVE  c[i] \in Nat /\ b[i] = a[i] - c[i] /\ b[i] \in Nat
  <2>1. CASE i \notin D
    BY <2>1
  <2>2. CASE i \in D
    <3>1. PICK o : o = Older(i)
      OBVIOUS
    <3>2. o \in Nat /\ h[i] \in Nat /\ a[i] \in Nat
      BY <1>1, <2>2, <3>1
    <3>3. c[i] = IF q <= o THEN 0 ELSE IF h[i] < q - o THEN h[i] ELSE q - o
      BY <2>2, <3>1
    <3>4. IF q <= o THEN b[i] = a[i]
          ELSE a[i] = h[i] /\ b[i] = IF h[i] < q - o THEN 0 ELSE h[i] - (q - o)
      BY <2>2, <3>1 DEF LeftBehind
    <3> HIDE DEF c
    <3> QED
      BY <3>2, <3>3, <3>4
  <2> QED
    BY <2>1, <2>2
<1>4. \A i \in L \ D : c[i] = 0
  OBVIOUS
<1> HIDE DEF c
<1>5. SumFunctionOnSet(c, L) = q
  <2>1. \A x \in L : c[x] \in Int
    BY <1>3
  <2> QED
    BY <1>2, <1>4, <2>1, SumOutside
<1>6. SumFunctionOnSet(b, L) = SumFunctionOnSet(a, L) - SumFunctionOnSet(c, L)
  <2>1. \A x \in L : a[x] \in Int /\ c[x] \in Int /\ b[x] = a[x] - c[x]
    BY <1>3
  <2> QED
    BY <2>1, SumOfDifferences
<1> QED
  BY <1>3, <1>5, <1>6

\* Values that are nowhere more add up to no more.
NowhereMore(S, f, g) ==
  IsFiniteSet(S) /\ \A x \in S : f[x] \in Int /\ g[x] \in Int /\ f[x] <= g[x]

\* Larger values, larger sum.
LEMMA SumGrows ==
  ASSUME NEW S, NEW f, NEW g, NowhereMore(S, f, g)
  PROVE  /\ SumFunctionOnSet(f, S) \in Int /\ SumFunctionOnSet(g, S) \in Int
         /\ SumFunctionOnSet(f, S) <= SumFunctionOnSet(g, S)
<1> USE DEF NowhereMore
<1> DEFINE d == [x \in S |-> g[x] - f[x]]
<1>1. \A x \in S : d[x] \in Nat /\ d[x] = g[x] - f[x]
  OBVIOUS
<1> HIDE DEF d
<1>2. SumFunctionOnSet(d, S) \in Nat
  BY <1>1, SumOfPart
<1>3. SumFunctionOnSet(d, S) = SumFunctionOnSet(g, S) - SumFunctionOnSet(f, S)
  <2>1. \A x \in S : g[x] \in Int /\ f[x] \in Int /\ d[x] = g[x] - f[x]
    BY <1>1
  <2> QED
    BY <2>1, SumOfDifferences
<1>4. SumFunctionOnSet(f, S) \in Int /\ SumFunctionOnSet(g, S) \in Int
  <2>1. /\ \A x \in S : f[x] \in Int
        /\ \A x \in S : g[x] \in Int
    OBVIOUS
  <2> QED
    BY <2>1, SumIsInteger
<1> QED
  BY <1>2, <1>3, <1>4

\* A lot that is added at the end.
LEMMA SumAppends ==
  ASSUME NEW n \in Nat, NEW f, \A i \in 1..n : f[i] \in Int, NEW g, g[n + 1] \in Int,
         \A i \in 1..n : g[i] = f[i]
  PROVE  SumFunctionOnSet(g, 1..(n + 1)) = SumFunctionOnSet(f, 1..n) + g[n + 1]
<1>1. PICK S : S = 1..n /\ IsFiniteSet(S)
  BY FS_Interval
<1>2. IsFiniteSet(S)
  BY <1>1
<1>3. 1..(n + 1) = S \cup {n + 1} /\ n + 1 \notin S
  BY <1>1
<1>4. \A i \in S : f[i] \in Int
  BY <1>1
<1>5. \A i \in S : g[i] = f[i] /\ g[i] \in Int
  BY <1>1
<1>6. SumFunctionOnSet(g, S \cup {n + 1}) = SumFunctionOnSet(g, S) + g[n + 1]
  BY <1>2, <1>3, <1>5, SumJoins
<1>7. SumFunctionOnSet(g, S) = SumFunctionOnSet(f, S)
  BY <1>2, <1>5, SumSame
<1> QED
  BY <1>1, <1>3, <1>6, <1>7

===============================================================================

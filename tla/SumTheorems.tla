------------------------------ MODULE SumTheorems ------------------------------
(***************************************************************************)
(* What the community modules' sums over functions satisfy, for every      *)
(* finite set of indices: the sum is an integer, does not depend on the    *)
(* order in which its definition picks the indices, and loses an index by  *)
(* its summand. The definition is a recursive function on the subsets of   *)
(* the indices. The induction it needs is the least-element principle for  *)
(* inclusion, stated with a set of counterexamples instead of a predicate. *)
(***************************************************************************)
EXTENDS Integers, Functions, FiniteSetTheorems, WellFoundedInduction, TLAPS

Pick(s) == CHOOSE x \in s : TRUE
SumStep(g, f, s) == IF s = {} THEN 0 ELSE f[Pick(s)] + g[s \ {Pick(s)}]
(* g is the recursive function behind the sums of f over the subsets of S. *)
Sums(g, f, S) == g = [s \in SUBSET S |-> SumStep(g, f, s)]
TheSums(f, S) == CHOOSE g : Sums(g, f, S)
-----------------------------------------------------------------------------
LEMMA MinimalSubset ==
  ASSUME NEW S, IsFiniteSet(S), NEW Bad, Bad \subseteq SUBSET S, Bad # {}
  PROVE  \E T \in Bad : \A U \in SUBSET T : U \in Bad => U = T
<1>1. IsWellFoundedOn(StrictSubsetOrdering(S), SUBSET S)
  BY FS_StrictSubsetOrderingWellFounded, FS_FiniteSubsetsOfFinite
<1>2. PICK T \in Bad : \A U \in Bad : <<U, T>> \notin StrictSubsetOrdering(S)
  BY <1>1, WFMin
<1> QED BY <1>2 DEF StrictSubsetOrdering

LEMMA PickIn == ASSUME NEW s, s # {} PROVE Pick(s) \in s
BY DEF Pick

LEMMA SumDef == ASSUME NEW f, NEW S PROVE SumFunctionOnSet(f, S) = TheSums(f, S)[S]
BY DEF SumFunctionOnSet, FoldFunctionOnSet, MapThenFoldSet, TheSums, Sums, SumStep, Pick

LEMMA SumsValue ==
  ASSUME NEW f, NEW S, NEW g, Sums(g, f, S), NEW s \in SUBSET S
  PROVE  g[s] = SumStep(g, f, s)
BY DEF Sums

(* The sums over a set depend on the summands of that set only.            *)
LEMMA SumsAgree ==
  ASSUME NEW S, IsFiniteSet(S), NEW f, NEW e, \A x \in S : f[x] = e[x],
         NEW A, NEW B, S \subseteq A, S \subseteq B,
         NEW g, NEW h, Sums(g, f, A), Sums(h, e, B)
  PROVE  g[S] = h[S]
<1> DEFINE Bad == {T \in SUBSET S : g[T] # h[T]}
<1>1. SUFFICES ASSUME Bad # {} PROVE FALSE
  OBVIOUS
<1>2. PICK T \in Bad : \A U \in SUBSET T : U \in Bad => U = T
  <2>1. Bad \subseteq SUBSET S
    OBVIOUS
  <2> HIDE DEF Bad
  <2> QED BY <1>1, <2>1, MinimalSubset
<1>3. /\ T \in SUBSET A /\ T \in SUBSET B /\ T \in SUBSET S
      /\ g[T] = SumStep(g, f, T) /\ h[T] = SumStep(h, e, T)
  BY <1>2, SumsValue
<1>4. T # {}
  BY <1>2, <1>3 DEF SumStep
<1> DEFINE p == Pick(T)
<1>5. p \in T
  BY <1>4, PickIn
<1>6. g[T \ {p}] = h[T \ {p}]
  BY <1>2, <1>5
<1>7. f[p] = e[p]
  BY <1>5, <1>3
<1>8. g[T] = f[p] + g[T \ {p}] /\ h[T] = e[p] + h[T \ {p}]
  BY <1>3, <1>4 DEF SumStep
<1> QED BY <1>6, <1>7, <1>8, <1>2

(* The recursive definition defines a function.                            *)
LEMMA SumsExist ==
  ASSUME NEW f, NEW S, IsFiniteSet(S)
  PROVE  \E g : Sums(g, f, S)
<1> DEFINE Bad == {T \in SUBSET S : ~ \E g : Sums(g, f, T)}
<1>1. SUFFICES ASSUME Bad # {} PROVE FALSE
  OBVIOUS
<1>2. PICK T \in Bad : \A U \in SUBSET T : U \in Bad => U = T
  <2>1. Bad \subseteq SUBSET S
    OBVIOUS
  <2> HIDE DEF Bad
  <2> QED BY <1>1, <2>1, MinimalSubset
<1>3. T \in SUBSET S /\ IsFiniteSet(T)
  BY <1>2, FS_Subset
<1>4. ASSUME NEW U \in SUBSET T, U # T PROVE Sums(TheSums(f, U), f, U) /\ IsFiniteSet(U)
  <2>1. \E g : Sums(g, f, U)
    BY <1>2, <1>3, <1>4
  <2> QED BY <2>1, <1>3, FS_Subset DEF TheSums
<1> DEFINE low == [U \in SUBSET T |-> TheSums(f, U)[U]]
           g   == [U \in SUBSET T |-> IF U = T THEN SumStep(low, f, T) ELSE low[U]]
<1>5. ASSUME NEW U \in SUBSET T, U # T PROVE low[U] = SumStep(low, f, U)
  <2>1. low[U] = TheSums(f, U)[U] /\ TheSums(f, U)[U] = SumStep(TheSums(f, U), f, U)
    BY <1>4, <1>5, SumsValue
  <2>2. CASE U = {}
    BY <2>1, <2>2 DEF SumStep
  <2>3. CASE U # {}
    <3> DEFINE V == U \ {Pick(U)}
    <3>1. Pick(U) \in U /\ V \in SUBSET T /\ V # T /\ V \subseteq U
      BY <2>3, <1>5, PickIn
    <3>2. /\ Sums(TheSums(f, U), f, U) /\ IsFiniteSet(V)
          /\ Sums(TheSums(f, V), f, V)
      BY <3>1, <1>4, <1>5
    <3>3. TheSums(f, U)[V] = TheSums(f, V)[V]
      BY <3>1, <3>2, SumsAgree
    <3>4. low[V] = TheSums(f, U)[V]
      BY <3>1, <3>3
    <3>5. SumStep(low, f, U) = SumStep(TheSums(f, U), f, U)
      BY <2>3, <3>4 DEF SumStep
    <3> QED BY <2>1, <3>5
  <2> QED BY <2>2, <2>3
<1>6. ASSUME NEW U \in SUBSET T PROVE SumStep(g, f, U) = SumStep(low, f, U)
  <2>1. CASE U = {}
    BY <2>1 DEF SumStep
  <2>2. CASE U # {}
    <3>1. Pick(U) \in U /\ U \ {Pick(U)} \in SUBSET T /\ U \ {Pick(U)} # T
      BY <2>2, PickIn
    <3>2. g[U \ {Pick(U)}] = low[U \ {Pick(U)}]
      BY <3>1
    <3> HIDE DEF g, low
    <3> QED BY <3>2 DEF SumStep
  <2> QED BY <2>1, <2>2
<1>7. \A U \in SUBSET T : g[U] = SumStep(g, f, U)
  BY <1>5, <1>6
<1>8. Sums(g, f, T)
  <2>1. g = [U \in SUBSET T |-> g[U]]
    OBVIOUS
  <2> HIDE DEF g
  <2> QED BY <1>7, <2>1 DEF Sums
<1> QED BY <1>2, <1>8

LEMMA SumsChosen ==
  ASSUME NEW f, NEW S, IsFiniteSet(S)
  PROVE  Sums(TheSums(f, S), f, S)
BY SumsExist DEF TheSums
-----------------------------------------------------------------------------
(* The sum over no index is 0, as a total that starts at 0 has it.         *)
THEOREM SumEmpty == ASSUME NEW f PROVE SumFunctionOnSet(f, {}) = 0
<1>1. Sums(TheSums(f, {}), f, {})
  BY SumsChosen, FS_EmptySet
<1> QED BY <1>1, SumDef, SumsValue DEF SumStep

(* The sum depends on the summands of its indices only: the total of the   *)
(* sales on a shift stands while other slots take new requests.            *)
THEOREM SumSame ==
  ASSUME NEW S, IsFiniteSet(S), NEW f, NEW e, \A x \in S : f[x] = e[x]
  PROVE  SumFunctionOnSet(f, S) = SumFunctionOnSet(e, S)
BY SumsChosen, SumsAgree, SumDef

(* The definition's own step.                                              *)
LEMMA SumPick ==
  ASSUME NEW S, IsFiniteSet(S), S # {}, NEW f
  PROVE  /\ Pick(S) \in S
         /\ SumFunctionOnSet(f, S) = f[Pick(S)] + SumFunctionOnSet(f, S \ {Pick(S)})
<1> DEFINE V == S \ {Pick(S)}
<1>1. Pick(S) \in S /\ V \subseteq S /\ IsFiniteSet(V)
  BY PickIn, FS_Subset
<1>2. Sums(TheSums(f, S), f, S) /\ Sums(TheSums(f, V), f, V)
  BY <1>1, SumsChosen
<1>3. TheSums(f, S)[V] = TheSums(f, V)[V]
  BY <1>1, <1>2, SumsAgree
<1>4. TheSums(f, S)[S] = f[Pick(S)] + TheSums(f, S)[V]
  BY <1>2, SumsValue DEF SumStep
<1> QED BY <1>1, <1>3, <1>4, SumDef

(* A sum of integers is an integer: the cash on a shift, the money of a    *)
(* cart.                                                                   *)
THEOREM SumInt ==
  ASSUME NEW S, IsFiniteSet(S), NEW f, \A x \in S : f[x] \in Int
  PROVE  SumFunctionOnSet(f, S) \in Int
<1> DEFINE Bad == {T \in SUBSET S : SumFunctionOnSet(f, T) \notin Int}
<1>1. SUFFICES ASSUME Bad # {} PROVE FALSE
  OBVIOUS
<1>2. PICK T \in Bad : \A U \in SUBSET T : U \in Bad => U = T
  <2>1. Bad \subseteq SUBSET S
    OBVIOUS
  <2> HIDE DEF Bad
  <2> QED BY <1>1, <2>1, MinimalSubset
<1>3. IsFiniteSet(T) /\ T \subseteq S /\ T # {}
  <2>1. SumFunctionOnSet(f, {}) = 0
    BY SumEmpty
  <2>2. {} \notin Bad
    BY <2>1
  <2>3. T # {}
    BY <1>2, <2>2, Zenon
  <2> QED BY <1>2, <2>3, FS_Subset
<1>4. /\ Pick(T) \in T
      /\ SumFunctionOnSet(f, T) = f[Pick(T)] + SumFunctionOnSet(f, T \ {Pick(T)})
  BY <1>3, SumPick
<1>5. SumFunctionOnSet(f, T \ {Pick(T)}) \in Int
  BY <1>2, <1>3, <1>4
<1> QED BY <1>2, <1>3, <1>4, <1>5

(* A sum of naturals is a natural: no cart of positive lines is negative.  *)
THEOREM SumNat ==
  ASSUME NEW S, IsFiniteSet(S), NEW f, \A x \in S : f[x] \in Nat
  PROVE  SumFunctionOnSet(f, S) \in Nat
<1> DEFINE Bad == {T \in SUBSET S : SumFunctionOnSet(f, T) \notin Nat}
<1>1. SUFFICES ASSUME Bad # {} PROVE FALSE
  OBVIOUS
<1>2. PICK T \in Bad : \A U \in SUBSET T : U \in Bad => U = T
  <2>1. Bad \subseteq SUBSET S
    OBVIOUS
  <2> HIDE DEF Bad
  <2> QED BY <1>1, <2>1, MinimalSubset
<1>3. IsFiniteSet(T) /\ T \subseteq S /\ T # {}
  <2>1. SumFunctionOnSet(f, {}) = 0
    BY SumEmpty
  <2>2. {} \notin Bad
    BY <2>1
  <2>3. T # {}
    BY <1>2, <2>2, Zenon
  <2> QED BY <1>2, <2>3, FS_Subset
<1>4. /\ Pick(T) \in T
      /\ SumFunctionOnSet(f, T) = f[Pick(T)] + SumFunctionOnSet(f, T \ {Pick(T)})
  BY <1>3, SumPick
<1>5. SumFunctionOnSet(f, T \ {Pick(T)}) \in Nat
  BY <1>2, <1>3, <1>4
<1> QED BY <1>2, <1>3, <1>4, <1>5

(* Whichever index is taken out, the sum loses its summand: the definition *)
(* chooses the order, the total does not depend on it.                     *)
THEOREM SumRemove ==
  ASSUME NEW S, IsFiniteSet(S), NEW f, \A x \in S : f[x] \in Int, NEW x \in S
  PROVE  SumFunctionOnSet(f, S) = f[x] + SumFunctionOnSet(f, S \ {x})
<1> DEFINE Sum(T) == SumFunctionOnSet(f, T)
           Bad == {T \in SUBSET S : \E y \in T : Sum(T) # f[y] + Sum(T \ {y})}
<1>1. SUFFICES ASSUME Bad # {} PROVE FALSE
  OBVIOUS
<1>2. PICK T \in Bad : \A U \in SUBSET T : U \in Bad => U = T
  <2>1. Bad \subseteq SUBSET S
    OBVIOUS
  <2> HIDE DEF Bad
  <2> QED BY <1>1, <2>1, MinimalSubset
<1>3. PICK y \in T : Sum(T) # f[y] + Sum(T \ {y})
  BY <1>2
<1>4. IsFiniteSet(T) /\ T \subseteq S /\ \A U \in SUBSET T : IsFiniteSet(U) /\ Sum(U) \in Int
  BY <1>2, FS_Subset, SumInt
<1> DEFINE p == Pick(T)
<1>5. p \in T /\ Sum(T) = f[p] + Sum(T \ {p})
  BY <1>3, <1>4, SumPick
<1>6. p # y
  BY <1>3, <1>5
<1> HIDE DEF Sum
<1>7. Sum(T \ {p}) = f[y] + Sum((T \ {p}) \ {y})
  <2>1. T \ {p} \in SUBSET S /\ T \ {p} \in SUBSET T /\ T \ {p} # T /\ y \in T \ {p}
    BY <1>3, <1>4, <1>5, <1>6
  <2> QED BY <2>1, <1>2
<1>8. Sum(T \ {y}) = f[p] + Sum((T \ {y}) \ {p})
  <2>1. T \ {y} \in SUBSET S /\ T \ {y} \in SUBSET T /\ T \ {y} # T /\ p \in T \ {y}
    BY <1>3, <1>4, <1>5, <1>6
  <2> QED BY <2>1, <1>2
<1>9. (T \ {p}) \ {y} = (T \ {y}) \ {p} /\ (T \ {p}) \ {y} \in SUBSET T
  OBVIOUS
<1>10. f[p] \in Int /\ f[y] \in Int /\ Sum((T \ {p}) \ {y}) \in Int
  BY <1>3, <1>4, <1>5, <1>9
<1> QED BY <1>3, <1>5, <1>7, <1>8, <1>9, <1>10

(* A new index adds its summand, as an insert or an increment does.        *)
THEOREM SumAdd ==
  ASSUME NEW S, IsFiniteSet(S), NEW f, NEW x, x \notin S,
         \A y \in S \cup {x} : f[y] \in Int
  PROVE  SumFunctionOnSet(f, S \cup {x}) = f[x] + SumFunctionOnSet(f, S)
<1>1. IsFiniteSet(S \cup {x}) /\ (S \cup {x}) \ {x} = S
  BY FS_AddElement
<1> QED BY <1>1, SumRemove

(* Hundredths and ten-thousandths of the same summands: a cart of amounts  *)
(* that are whole cents loses nothing to the finer unit.                   *)
THEOREM SumHundredfold ==
  ASSUME NEW S, IsFiniteSet(S), NEW f, NEW e,
         \A x \in S : e[x] \in Int /\ f[x] = 100 * e[x]
  PROVE  SumFunctionOnSet(f, S) = 100 * SumFunctionOnSet(e, S)
<1> DEFINE Bad == {T \in SUBSET S : SumFunctionOnSet(f, T) # 100 * SumFunctionOnSet(e, T)}
<1>1. SUFFICES ASSUME Bad # {} PROVE FALSE
  OBVIOUS
<1>2. PICK T \in Bad : \A U \in SUBSET T : U \in Bad => U = T
  <2>1. Bad \subseteq SUBSET S
    OBVIOUS
  <2> HIDE DEF Bad
  <2> QED BY <1>1, <2>1, MinimalSubset
<1>3. IsFiniteSet(T) /\ T \subseteq S /\ T # {}
  <2>1. SumFunctionOnSet(f, {}) = 0 /\ SumFunctionOnSet(e, {}) = 0
    BY SumEmpty
  <2>2. {} \notin Bad
    BY <2>1
  <2>3. T # {}
    BY <1>2, <2>2, Zenon
  <2> QED BY <1>2, <2>3, FS_Subset
<1> DEFINE p == Pick(T)
<1>4. /\ p \in T
      /\ SumFunctionOnSet(f, T) = f[p] + SumFunctionOnSet(f, T \ {p})
      /\ SumFunctionOnSet(e, T) = e[p] + SumFunctionOnSet(e, T \ {p})
  BY <1>3, SumPick
<1>5. SumFunctionOnSet(f, T \ {p}) = 100 * SumFunctionOnSet(e, T \ {p})
  BY <1>2, <1>3, <1>4
<1>6. SumFunctionOnSet(e, T \ {p}) \in Int
  BY <1>3, FS_Subset, SumInt
<1> QED BY <1>2, <1>3, <1>4, <1>5, <1>6
=============================================================================

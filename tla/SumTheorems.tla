---------------------------- MODULE SumTheorems ----------------------------
(***************************************************************************)
(* What MapThenSumSet computes, for every finite set.  The sums of the     *)
(* other modules (the bytes of the cache, the seconds of a session) are    *)
(* defined by recursion over the subsets of a set; here the recursion is   *)
(* shown to have a solution, and the solution to be the sum.  Induction is *)
(* stated over a SET of subsets, so that a proof can cite it.              *)
(***************************************************************************)
EXTENDS Integers, FiniteSets, FiniteSetTheorems, WellFoundedInduction, TLAPS

\* The recursion of MapThenSumSet: some element first, then the rest.
Pick(s) == CHOOSE x \in s : TRUE
IsSum(h, g, S) ==
    h = [s \in SUBSET S |-> IF s = {} THEN 0 ELSE g[Pick(s)] + h[s \ {Pick(s)}]]
Total(g, S) == (CHOOSE h : IsSum(h, g, S))[S]

LEMMA PickIn == ASSUME NEW s, s # {} PROVE Pick(s) \in s
BY DEF Pick

-----------------------------------------------------------------------------
(* Induction.                                                              *)

\* A set that holds a subset whenever it holds its strict subsets holds all of them.
LEMMA SubsetInduction ==
    ASSUME NEW S, IsFiniteSet(S), NEW A,
           \A T \in SUBSET S : (\A U \in SUBSET T : U # T => U \in A) => T \in A
    PROVE  SUBSET S \subseteq A
<1> DEFINE Bad == {T \in SUBSET S : T \notin A}
<1>1. IsWellFoundedOn(StrictSubsetOrdering(S), FiniteSubsetsOf(S))
  BY FS_StrictSubsetOrderingWellFounded
<1>2. Bad \subseteq FiniteSubsetsOf(S)
  BY FS_Subset DEF FiniteSubsetsOf
<1>3. SUFFICES ASSUME Bad # {} PROVE FALSE
  OBVIOUS
<1>4. PICK T \in Bad : \A U \in Bad : <<U, T>> \notin StrictSubsetOrdering(S)
  <2> HIDE DEF Bad
  <2> QED BY <1>1, <1>2, <1>3, WFMin
<1>5. \A U \in SUBSET T : U # T => U \in A
  <2> SUFFICES ASSUME NEW U \in SUBSET T, U # T, U \notin A PROVE FALSE
    OBVIOUS
  <2>1. U \in Bad /\ T \in Bad
    OBVIOUS
  <2>2. <<U, T>> \in StrictSubsetOrdering(S)
    BY <2>1 DEF StrictSubsetOrdering
  <2> QED BY <2>1, <2>2, <1>4
<1> QED BY <1>5

\* A set of naturals that holds 0 and the successor of each of its members holds all.
LEMMA NaturalInduction ==
    ASSUME NEW A, 0 \in A, \A n \in Nat : n \in A => n + 1 \in A
    PROVE  Nat \subseteq A
<1> DEFINE Bad == {n \in Nat : n \notin A}
<1>1. IsWellFoundedOn(OpToRel(<, Nat), Nat)
  BY NatLessThanWellFounded
<1>2. SUFFICES ASSUME Bad # {} PROVE FALSE
  OBVIOUS
<1>3. Bad \subseteq Nat
  OBVIOUS
<1>4. PICK n \in Bad : \A m \in Bad : <<m, n>> \notin OpToRel(<, Nat)
  <2> HIDE DEF Bad
  <2> QED BY <1>1, <1>2, <1>3, WFMin
<1>5. n \in Nat /\ n # 0
  OBVIOUS
<1>6. n - 1 \in Nat /\ n - 1 < n /\ (n - 1) + 1 = n
  BY <1>5
<1>7. <<n - 1, n>> \in OpToRel(<, Nat)
  BY <1>5, <1>6 DEF OpToRel
<1>8. n - 1 \notin Bad
  BY <1>4, <1>7
<1>9. n - 1 \in A
  BY <1>6, <1>8
<1> QED BY <1>6, <1>9, <1>5

-----------------------------------------------------------------------------
(* The recursion has a solution, and it has one only.                      *)

LEMMA SumExists ==
    ASSUME NEW S, IsFiniteSet(S), NEW g
    PROVE  \E h : IsSum(h, g, S)
<1> DEFINE Small(n) == {s \in SUBSET S : Cardinality(s) <= n}
           Solves(h, n) ==
               h = [s \in Small(n) |-> IF s = {} THEN 0 ELSE g[Pick(s)] + h[s \ {Pick(s)}]]
           A == {n \in Nat : \E h : Solves(h, n)}
<1>1. \A s \in SUBSET S : IsFiniteSet(s) /\ Cardinality(s) \in Nat
  BY FS_Subset, FS_CardinalityType
<1>2. \A s \in SUBSET S : s # {} =>
         s \ {Pick(s)} \in SUBSET S /\ Cardinality(s \ {Pick(s)}) = Cardinality(s) - 1
  BY <1>1, PickIn, FS_RemoveElement
<1>3. 0 \in A
  <2>1. Small(0) = {{}}
    BY <1>1, FS_EmptySet
  <2>2. Solves([s \in Small(0) |-> 0], 0)
    BY <2>1
  <2> QED BY <2>2
<1>4. ASSUME NEW n \in Nat, n \in A PROVE n + 1 \in A
  <2>1. PICK h : Solves(h, n)
    BY <1>4
  <2> DEFINE k == [s \in Small(n + 1) |->
                     IF s \in Small(n) THEN h[s] ELSE g[Pick(s)] + h[s \ {Pick(s)}]]
  <2>2. ASSUME NEW s \in Small(n + 1)
        PROVE  k[s] = IF s = {} THEN 0 ELSE g[Pick(s)] + k[s \ {Pick(s)}]
    <3>1. CASE s = {}
      <4>1. s \in Small(n)
        BY <3>1, FS_EmptySet
      <4> QED BY <3>1, <4>1, <2>1
    <3>2. CASE s # {}
      <4>1. Cardinality(s) \in Nat /\ Cardinality(s) <= n + 1
        BY <1>1
      <4>2. s \ {Pick(s)} \in SUBSET S /\ Cardinality(s \ {Pick(s)}) <= n
        BY <3>2, <4>1, <1>2
      <4>3. s \ {Pick(s)} \in Small(n) /\ s \ {Pick(s)} \in Small(n + 1)
        BY <4>2, <1>1
      <4>4. k[s \ {Pick(s)}] = h[s \ {Pick(s)}]
        BY <4>3
      <4>5. k[s] = g[Pick(s)] + h[s \ {Pick(s)}]
        BY <2>1, <3>2
      <4> QED BY <4>4, <4>5, <3>2
    <3> QED BY <3>1, <3>2
  <2>3. Solves(k, n + 1)
    <3> DEFINE K == [s \in Small(n + 1) |->
                        IF s = {} THEN 0 ELSE g[Pick(s)] + k[s \ {Pick(s)}]]
    <3>1. DOMAIN k = Small(n + 1) /\ DOMAIN K = Small(n + 1)
      OBVIOUS
    <3>2. \A s \in Small(n + 1) : k[s] = K[s]
      BY <2>2
    <3>3. k = [s \in Small(n + 1) |-> k[s]] /\ K = [s \in Small(n + 1) |-> K[s]]
      OBVIOUS
    <3>4. k = K
      <4> HIDE DEF k, K, Small
      <4> QED BY <3>2, <3>3
    <3> QED BY <3>4
  <2>4. \E hh : Solves(hh, n + 1)
    <3> HIDE DEF k, Solves
    <3> QED BY <2>3
  <2> HIDE DEF Solves, k
  <2> QED BY <2>4
<1>5. Cardinality(S) \in A
  <2>1. \A n \in Nat : n \in A => n + 1 \in A
    BY <1>4
  <2>2. Nat \subseteq A
    <3> HIDE DEF A
    <3> QED BY <1>3, <2>1, NaturalInduction
  <2> QED BY <2>2, <1>1
<1>6. PICK h : Solves(h, Cardinality(S))
  BY <1>5
<1>7. Small(Cardinality(S)) = SUBSET S
  BY FS_Subset
<1>8. h = [s \in SUBSET S |-> IF s = {} THEN 0 ELSE g[Pick(s)] + h[s \ {Pick(s)}]]
  BY <1>6, <1>7
<1> QED BY <1>8 DEF IsSum

\* Two solutions agree on every set that both are about, if the summands do.
LEMMA SumUnique ==
    ASSUME NEW S, NEW T \in SUBSET S, IsFiniteSet(T), NEW f, NEW g, NEW h, NEW k,
           IsSum(h, g, S), IsSum(k, f, T), \A x \in T : g[x] = f[x]
    PROVE  h[T] = k[T]
<1> DEFINE A == {U \in SUBSET T : h[U] = k[U]}
<1>1. ASSUME NEW U \in SUBSET T, \A W \in SUBSET U : W # U => W \in A
      PROVE  U \in A
  <2>1. CASE U = {}
    BY <2>1 DEF IsSum
  <2>2. CASE U # {}
    <3>1. Pick(U) \in U /\ Pick(U) \in T /\ U \in SUBSET S
      BY <2>2, PickIn
    <3>2. h[U \ {Pick(U)}] = k[U \ {Pick(U)}]
      BY <3>1, <1>1
    <3>3. h[U] = g[Pick(U)] + h[U \ {Pick(U)}]
      BY <2>2, <3>1 DEF IsSum
    <3>4. k[U] = f[Pick(U)] + k[U \ {Pick(U)}]
      BY <2>2 DEF IsSum
    <3> QED BY <3>1, <3>2, <3>3, <3>4
  <2> QED BY <2>1, <2>2
<1>2. SUBSET T \subseteq A
  <2> HIDE DEF A
  <2> QED BY <1>1, SubsetInduction
<1> QED BY <1>2

-----------------------------------------------------------------------------
(* The sum.                                                                *)

\* Any solution over a larger set gives the same sum.
LEMMA TotalOfAny ==
    ASSUME NEW S, IsFiniteSet(S), NEW T \in SUBSET S, NEW g, NEW h, IsSum(h, g, S)
    PROVE  Total(g, T) = h[T]
<1>1. IsFiniteSet(T)
  BY FS_Subset
<1>2. IsSum(CHOOSE k : IsSum(k, g, T), g, T)
  BY <1>1, SumExists
<1>3. PICK c : IsSum(c, g, T) /\ Total(g, T) = c[T]
  BY <1>2 DEF Total
<1>4. \A x \in T : g[x] = g[x]
  OBVIOUS
<1>5. h[T] = c[T]
  BY <1>1, <1>3, <1>4, SumUnique
<1> QED BY <1>3, <1>5

LEMMA TotalEmpty == \A g : Total(g, {}) = 0
<1> SUFFICES ASSUME NEW g PROVE Total(g, {}) = 0
  OBVIOUS
<1>1. PICK h : IsSum(h, g, {})
  BY FS_EmptySet, SumExists
<1>2. h[{}] = 0
  BY <1>1 DEF IsSum
<1>3. Total(g, {}) = h[{}]
  BY <1>1, FS_EmptySet, TotalOfAny
<1> QED BY <1>2, <1>3

LEMMA TotalPick ==
    ASSUME NEW S, IsFiniteSet(S), S # {}, NEW g
    PROVE  Total(g, S) = g[Pick(S)] + Total(g, S \ {Pick(S)})
<1>1. PICK h : IsSum(h, g, S)
  BY SumExists
<1>2. h[S] = g[Pick(S)] + h[S \ {Pick(S)}]
  BY <1>1 DEF IsSum
<1>3. Total(g, S) = h[S] /\ Total(g, S \ {Pick(S)}) = h[S \ {Pick(S)}]
  BY <1>1, TotalOfAny
<1> QED BY <1>2, <1>3

\* The sum depends on the summands only.
LEMMA TotalAgrees ==
    ASSUME NEW S, IsFiniteSet(S), NEW f, NEW g, \A x \in S : f[x] = g[x]
    PROVE  Total(f, S) = Total(g, S)
<1>1. PICK h : IsSum(h, f, S)
  BY SumExists
<1>2. PICK k : IsSum(k, g, S)
  BY SumExists
<1>3. h[S] = k[S]
  BY <1>1, <1>2, SumUnique
<1> QED BY <1>1, <1>2, <1>3, TotalOfAny

LEMMA TotalType ==
    ASSUME NEW S, IsFiniteSet(S), NEW g, \A x \in S : g[x] \in Nat
    PROVE  Total(g, S) \in Nat
<1> DEFINE A == {T \in SUBSET S : Total(g, T) \in Nat}
<1>1. ASSUME NEW T \in SUBSET S, \A U \in SUBSET T : U # T => U \in A
      PROVE  T \in A
  <2>1. CASE T = {}
    BY <2>1, TotalEmpty
  <2>2. CASE T # {}
    <3>1. Pick(T) \in T /\ IsFiniteSet(T)
      BY <2>2, PickIn, FS_Subset
    <3>2. Total(g, T \ {Pick(T)}) \in Nat
      BY <3>1, <1>1
    <3>3. Total(g, T) = g[Pick(T)] + Total(g, T \ {Pick(T)})
      BY <2>2, <3>1, TotalPick
    <3>4. g[Pick(T)] \in Nat
      BY <3>1
    <3> QED BY <3>2, <3>3, <3>4
  <2> QED BY <2>1, <2>2
<1>2. SUBSET S \subseteq A
  <2> HIDE DEF A
  <2> QED BY <1>1, SubsetInduction
<1> QED BY <1>2

\* Any element may be taken out of the sum first.
LEMMA TotalWithout ==
    ASSUME NEW S, IsFiniteSet(S), NEW g, \A x \in S : g[x] \in Nat, NEW e \in S
    PROVE  Total(g, S) = g[e] + Total(g, S \ {e})
<1> DEFINE A == {T \in SUBSET S : \A x \in T : Total(g, T) = g[x] + Total(g, T \ {x})}
<1>1. ASSUME NEW T \in SUBSET S, \A U \in SUBSET T : U # T => U \in A
      PROVE  T \in A
  <2> SUFFICES ASSUME NEW x \in T PROVE Total(g, T) = g[x] + Total(g, T \ {x})
    OBVIOUS
  <2> DEFINE p == Pick(T)
  <2>1. p \in T /\ IsFiniteSet(T) /\ IsFiniteSet(T \ {p}) /\ IsFiniteSet(T \ {x})
            /\ IsFiniteSet((T \ {p}) \ {x})
    BY PickIn, FS_Subset
  <2>2. Total(g, T) = g[p] + Total(g, T \ {p})
    BY <2>1, TotalPick
  <2>3. CASE x = p
    BY <2>2, <2>3
  <2>4. CASE x # p
    <3> HIDE DEF p
    <3>1. T \ {p} \in A /\ T \ {x} \in A
      BY <1>1, <2>1
    <3>2. Total(g, T \ {p}) = g[x] + Total(g, (T \ {p}) \ {x})
      BY <3>1, <2>4
    <3>3. Total(g, T \ {x}) = g[p] + Total(g, (T \ {x}) \ {p})
      BY <3>1, <2>1, <2>4
    <3>4. (T \ {x}) \ {p} = (T \ {p}) \ {x}
      OBVIOUS
    <3>5. Total(g, (T \ {p}) \ {x}) \in Nat
      BY <2>1, TotalType
    <3>6. g[x] \in Nat /\ g[p] \in Nat
      BY <2>1
    <3> QED BY <2>2, <3>2, <3>3, <3>4, <3>5, <3>6
  <2> QED BY <2>3, <2>4
<1>2. SUBSET S \subseteq A
  <2> HIDE DEF A
  <2> QED BY <1>1, SubsetInduction
<1> QED BY <1>2

\* The sum grows with its summands ...
LEMMA TotalLe ==
    ASSUME NEW S, IsFiniteSet(S), NEW f, NEW g,
           \A x \in S : f[x] \in Nat /\ g[x] \in Nat /\ f[x] <= g[x]
    PROVE  Total(f, S) <= Total(g, S)
<1> DEFINE A == {T \in SUBSET S : Total(f, T) <= Total(g, T)}
<1>1. ASSUME NEW T \in SUBSET S, \A U \in SUBSET T : U # T => U \in A
      PROVE  T \in A
  <2>1. CASE T = {}
    BY <2>1, TotalEmpty
  <2>2. CASE T # {}
    <3>1. Pick(T) \in T /\ IsFiniteSet(T) /\ IsFiniteSet(T \ {Pick(T)})
      BY <2>2, PickIn, FS_Subset
    <3>2. Total(f, T \ {Pick(T)}) <= Total(g, T \ {Pick(T)})
      BY <3>1, <1>1
    <3>3. /\ Total(f, T) = f[Pick(T)] + Total(f, T \ {Pick(T)})
          /\ Total(g, T) = g[Pick(T)] + Total(g, T \ {Pick(T)})
      BY <2>2, <3>1, TotalPick
    <3>4. Total(f, T \ {Pick(T)}) \in Nat /\ Total(g, T \ {Pick(T)}) \in Nat
      BY <3>1, TotalType
    <3>5. f[Pick(T)] \in Nat /\ g[Pick(T)] \in Nat /\ f[Pick(T)] <= g[Pick(T)]
      BY <3>1
    <3> QED BY <3>2, <3>3, <3>4, <3>5
  <2> QED BY <2>1, <2>2
<1>2. SUBSET S \subseteq A
  <2> HIDE DEF A
  <2> QED BY <1>1, SubsetInduction
<1> QED BY <1>2

\* ... and with the set.
LEMMA TotalGrows ==
    ASSUME NEW S, IsFiniteSet(S), NEW T \in SUBSET S, NEW g, \A x \in S : g[x] \in Nat
    PROVE  Total(g, T) <= Total(g, S)
<1> DEFINE A == {U \in SUBSET S : T \subseteq U => Total(g, T) <= Total(g, U)}
<1>1. ASSUME NEW U \in SUBSET S, \A W \in SUBSET U : W # U => W \in A
      PROVE  U \in A
  <2> SUFFICES ASSUME T \subseteq U PROVE Total(g, T) <= Total(g, U)
    OBVIOUS
  <2>1. IsFiniteSet(T) /\ Total(g, T) \in Nat
    BY FS_Subset, TotalType
  <2>2. CASE T = U
    BY <2>1, <2>2
  <2>3. CASE T # U
    <3>1. PICK e \in U : e \notin T
      BY <2>3
    <3>2. U \ {e} \in A /\ T \subseteq U \ {e}
      BY <1>1, <3>1
    <3>3. IsFiniteSet(U) /\ IsFiniteSet(U \ {e})
      BY FS_Subset
    <3>4. Total(g, U) = g[e] + Total(g, U \ {e}) /\ g[e] \in Nat
      BY <3>3, TotalWithout
    <3>5. Total(g, U \ {e}) \in Nat
      BY <3>3, TotalType
    <3> QED BY <2>1, <3>2, <3>4, <3>5
  <2> QED BY <2>2, <2>3
<1>2. SUBSET S \subseteq A
  <2> HIDE DEF A
  <2> QED BY <1>1, SubsetInduction
<1> QED BY <1>2

\* What adds nothing may be left out.
LEMMA TotalPositive ==
    ASSUME NEW S, IsFiniteSet(S), NEW g, \A x \in S : g[x] \in Nat
    PROVE  Total(g, S) = Total(g, {x \in S : g[x] > 0})
<1> DEFINE Some(T) == {x \in T : g[x] > 0}
           A == {T \in SUBSET S : Total(g, T) = Total(g, Some(T))}
<1>1. ASSUME NEW T \in SUBSET S, \A U \in SUBSET T : U # T => U \in A
      PROVE  T \in A
  <2>1. CASE T = {}
    <3>1. Some(T) = T
      BY <2>1
    <3> QED BY <3>1
  <2>2. CASE T # {}
    <3> DEFINE p == Pick(T)
    <3>1. p \in T /\ p \in S /\ IsFiniteSet(T) /\ IsFiniteSet(Some(T))
      BY <2>2, PickIn, FS_Subset
    <3>2. Total(g, T) = g[p] + Total(g, T \ {p})
      BY <2>2, <3>1, TotalPick
    <3> HIDE DEF p
    <3>3. Total(g, T \ {p}) = Total(g, Some(T \ {p}))
      BY <1>1, <3>1
    <3>4. g[p] \in Nat
      BY <3>1
    <3>5. CASE g[p] > 0
      <4>1. p \in Some(T) /\ Some(T) \ {p} = Some(T \ {p})
        BY <3>1, <3>5
      <4>2. \A x \in Some(T) : g[x] \in Nat
        OBVIOUS
      <4>3. Total(g, Some(T)) = g[p] + Total(g, Some(T) \ {p})
        <5> HIDE DEF Some
        <5> QED BY <3>1, <4>1, <4>2, TotalWithout
      <4> QED BY <3>2, <3>3, <4>1, <4>3
    <3>6. CASE ~(g[p] > 0)
      <4>1. Some(T) = Some(T \ {p}) /\ g[p] = 0
        BY <3>4, <3>6
      <4>2. Total(g, Some(T)) \in Nat
        <5>1. \A x \in Some(T) : g[x] \in Nat
          OBVIOUS
        <5> HIDE DEF Some
        <5> QED BY <3>1, <5>1, TotalType
      <4> QED BY <3>2, <3>3, <4>1, <4>2
    <3> QED BY <3>5, <3>6
  <2> QED BY <2>1, <2>2
<1>2. SUBSET S \subseteq A
  <2> HIDE DEF A
  <2> QED BY <1>1, SubsetInduction
<1> QED BY <1>2

\* The sum over different values is the sum over what they are the values of.
LEMMA TotalImage ==
    ASSUME NEW S, IsFiniteSet(S), NEW i, \A x, y \in S : i[x] = i[y] => x = y,
           NEW g, NEW f, \A x \in S : g[i[x]] \in Nat /\ f[x] = g[i[x]]
    PROVE  Total(g, {i[x] : x \in S}) = Total(f, S)
<1> DEFINE Image(T) == {i[x] : x \in T}
           A == {T \in SUBSET S : Total(g, Image(T)) = Total(f, T)}
<1>1. ASSUME NEW T \in SUBSET S, \A U \in SUBSET T : U # T => U \in A
      PROVE  T \in A
  <2>1. CASE T = {}
    BY <2>1, TotalEmpty
  <2>2. CASE T # {}
    <3> DEFINE p == Pick(T)
    <3>1. p \in T /\ IsFiniteSet(T)
      BY <2>2, PickIn, FS_Subset
    <3> HIDE DEF p
    <3>2. Image(T) \ {i[p]} = Image(T \ {p})
      BY <3>1
    <3>3. IsFiniteSet(Image(T))
      <4> DEFINE h == [x \in T |-> i[x]]
      <4>1. h \in Surjection(T, Image(T))
        BY DEF Surjection
      <4> QED BY <3>1, <4>1, FS_Surjection
    <3>4. Total(g, Image(T)) = g[i[p]] + Total(g, Image(T) \ {i[p]})
      BY <3>1, <3>3, TotalWithout
    <3>5. Total(f, T) = f[p] + Total(f, T \ {p})
      BY <3>1, TotalWithout
    <3>6. Total(g, Image(T \ {p})) = Total(f, T \ {p})
      BY <1>1, <3>1
    <3> QED BY <3>1, <3>2, <3>4, <3>5, <3>6
  <2> QED BY <2>1, <2>2
<1>2. SUBSET S \subseteq A
  <2> HIDE DEF A
  <2> QED BY <1>1, SubsetInduction
<1> QED BY <1>2

\* The pairs of a relation are counted by their first elements.
Partners(x, I, R) == {y \in I : <<x, y>> \in R}
PairsOf(S, I, R) == {p \in S \X I : p \in R}

LEMMA CountPairs ==
    ASSUME NEW S, IsFiniteSet(S), NEW I, IsFiniteSet(I), NEW R, NEW f,
           \A x \in S : f[x] = Cardinality(Partners(x, I, R))
    PROVE  Cardinality(PairsOf(S, I, R)) = Total(f, S)
<1> USE DEF Partners, PairsOf
<1> DEFINE Of(x) == {y \in I : <<x, y>> \in R}
           Pairs(T) == {p \in T \X I : p \in R}
           A == {T \in SUBSET S : /\ IsFiniteSet(Pairs(T))
                                  /\ Cardinality(Pairs(T)) = Total(f, T)}
<1>1. ASSUME NEW T \in SUBSET S, \A U \in SUBSET T : U # T => U \in A
      PROVE  T \in A
  <2>1. CASE T = {}
    <3>1. Pairs(T) = {}
      BY <2>1
    <3> QED BY <2>1, <3>1, FS_EmptySet, TotalEmpty
  <2>2. CASE T # {}
    <3> DEFINE e == Pick(T)
    <3>1. e \in T /\ e \in S /\ IsFiniteSet(T)
      BY <2>2, PickIn, FS_Subset
    <3>2. Total(f, T) = f[e] + Total(f, T \ {e})
      BY <2>2, <3>1, TotalPick
    <3> HIDE DEF e
    <3>3. T \ {e} \in A
      BY <1>1, <3>1
    <3> DEFINE K == {p \in {e} \X I : p \in R}
               h == [y \in Of(e) |-> <<e, y>>]
    <3>4. IsFiniteSet(Of(e)) /\ f[e] = Cardinality(Of(e))
      BY <3>1, FS_Subset
    <3>5. h \in Surjection(Of(e), K) /\ h \in Injection(Of(e), K)
      BY DEF Surjection, Injection, IsInjective
    <3>6. IsFiniteSet(K) /\ Cardinality(K) = f[e]
      BY <3>4, <3>5, FS_Surjection
    <3>7. Pairs(T) = Pairs(T \ {e}) \cup K /\ Pairs(T \ {e}) \cap K = {}
      BY <3>1
    <3> HIDE DEF K, Pairs
    <3>8. IsFiniteSet(Pairs(T \ {e})) /\ Cardinality(Pairs(T \ {e})) = Total(f, T \ {e})
      BY <3>3
    <3>9. /\ IsFiniteSet(Pairs(T))
          /\ Cardinality(Pairs(T)) = Cardinality(Pairs(T \ {e})) + Cardinality(K) - Cardinality({})
      <4> DEFINE P == Pairs(T \ {e})
      <4> HIDE DEF P
      <4>1. IsFiniteSet(P) /\ IsFiniteSet(K) /\ Pairs(T) = P \cup K /\ P \cap K = {}
        BY <3>6, <3>7, <3>8 DEF P
      <4>2. /\ IsFiniteSet(P \cup K)
            /\ Cardinality(P \cup K) = Cardinality(P) + Cardinality(K) - Cardinality(P \cap K)
        BY <4>1, FS_Union
      <4> QED BY <4>1, <4>2 DEF P
    <3>10. /\ Cardinality({}) = 0 /\ Cardinality(K) \in Nat
           /\ Cardinality(Pairs(T \ {e})) \in Nat
      BY <3>6, <3>8, FS_EmptySet, FS_CardinalityType
    <3>11. Cardinality(Pairs(T)) = Total(f, T)
      BY <3>2, <3>6, <3>8, <3>9, <3>10
    <3> QED BY <3>9, <3>11
  <2> QED BY <2>1, <2>2
<1>2. SUBSET S \subseteq A
  <2> HIDE DEF A
  <2> QED BY <1>1, SubsetInduction
<1> QED BY <1>2

-----------------------------------------------------------------------------
(* Least and greatest elements.                                            *)

LEMMA LeastElement ==
    ASSUME NEW S \in SUBSET Nat, S # {}
    PROVE  \E x \in S : \A y \in S : x <= y
<1>1. IsWellFoundedOn(OpToRel(<, Nat), Nat)
  BY NatLessThanWellFounded
<1>2. PICK x \in S : \A y \in S : <<y, x>> \notin OpToRel(<, Nat)
  BY <1>1, WFMin
<1>3. \A y \in S : ~(y < x)
  BY <1>2 DEF OpToRel
<1> QED BY <1>3

LEMMA GreatestElement ==
    ASSUME NEW n \in Nat, NEW S \in SUBSET (0..n), S # {}
    PROVE  \E x \in S : \A y \in S : x >= y
<1> DEFINE T == {n - x : x \in S}
<1>1. T \in SUBSET Nat /\ T # {}
  <2>1. \A x \in S : n - x \in Nat
    OBVIOUS
  <2> QED BY <2>1
<1>2. PICK z \in T : \A y \in T : z <= y
  <2> HIDE DEF T
  <2> QED BY <1>1, LeastElement
<1>3. PICK x \in S : z = n - x
  OBVIOUS
<1>4. ASSUME NEW y \in S PROVE x >= y
  <2>1. n - y \in T
    OBVIOUS
  <2>2. n - x <= n - y
    BY <1>2, <1>3, <2>1
  <2>3. x \in 0..n /\ y \in 0..n
    OBVIOUS
  <2> QED BY <2>2, <2>3
<1> QED BY <1>4

=============================================================================

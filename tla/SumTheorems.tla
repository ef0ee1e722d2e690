---------------------------- MODULE SumTheorems ----------------------------
(***************************************************************************)
(* What a sum over a finite set does when the set or a value changes.      *)
(*                                                                         *)
(* MapThenSumSet is a recursive function over the subsets of the set, so   *)
(* that its facts need induction.  The induction is that of WFMin: a set   *)
(* of counterexamples has a smallest one.                                  *)
(***************************************************************************)
EXTENDS Sums, FiniteSetTheorems, TLAPS

(* The element that the fold takes next. *)
Pick(s) == CHOOSE x \in s : TRUE

(* What g has for U, it has from the rest of U. *)
AddsAt(g, f, U) == g[U] = IF U = {} THEN 0 ELSE f[Pick(U)] + g[U \ {Pick(U)}]

(* g sums f over every subset of S, element by element. *)
Adds(g, f, S) ==
  g = [s \in SUBSET S |-> IF s = {} THEN 0 ELSE f[Pick(s)] + g[s \ {Pick(s)}]]

(* The pick is from the set, if there is anything to pick.                   *)
LEMMA PickIsElement == \A s : s # {} => Pick(s) \in s
BY DEF Pick

(* SumOf is the value at S of a function that sums over the subsets of S.    *)
LEMMA SumIsChosen ==
  ASSUME NEW f, NEW S
  PROVE  SumOf(f, S) = (CHOOSE g : Adds(g, f, S))[S]
BY DEF SumOf, MapThenSumSet, MapThenFoldSet, Adds, Pick

(* The equation of such a function at one subset.                            *)
LEMMA AddsStep ==
  ASSUME NEW f, NEW S, NEW g, Adds(g, f, S), NEW U \in SUBSET S
  PROVE  AddsAt(g, f, U)
BY DEF Adds, AddsAt

(* A set of subsets of a finite set has a smallest member. *)
LEMMA SmallestSubset ==
  ASSUME NEW S, IsFiniteSet(S), NEW T, T \subseteq SUBSET S, T # {}
  PROVE  \E U \in T : \A V \in T : V \subseteq U => V = U
<1>1. IsWellFoundedOn(StrictSubsetOrdering(S), SUBSET S)
  BY FS_StrictSubsetOrderingWellFounded, FS_FiniteSubsetsOfFinite
<1>2. PICK U \in T : \A V \in T : ~ (<<V, U>> \in StrictSubsetOrdering(S))
  BY <1>1, WFMin
<1> QED
  BY <1>2 DEF StrictSubsetOrdering

(* The function of a subset agrees with that of the set. *)
LEMMA AddsAgree ==
  ASSUME NEW f, NEW S, IsFiniteSet(S), NEW R \in SUBSET S,
         NEW g, Adds(g, f, S), NEW h, Adds(h, f, R)
  PROVE  g[R] = h[R]
<1> DEFINE T == {U \in SUBSET R : g[U] # h[U]}
<1> SUFFICES ASSUME T # {} PROVE FALSE
  OBVIOUS
<1>1. PICK U \in T : \A V \in T : V \subseteq U => V = U
  <2>1. T \subseteq SUBSET S
    OBVIOUS
  <2> HIDE DEF T
  <2> QED
    BY <2>1, SmallestSubset
<1>2. U \in SUBSET S /\ U \in SUBSET R /\ g[U] # h[U]
  OBVIOUS
<1>3. AddsAt(g, f, U) /\ AddsAt(h, f, U)
  BY <1>2, AddsStep
<1>4. U # {}
  BY <1>2, <1>3 DEF AddsAt
<1> DEFINE V == U \ {Pick(U)}
<1>5. V \subseteq U /\ V # U
  BY <1>4, PickIsElement
<1>6. g[V] = h[V]
  BY <1>1, <1>2, <1>5
<1> QED
  BY <1>2, <1>3, <1>4, <1>6 DEF AddsAt

(* There is such a function on every finite set. *)
LEMMA AddsExists ==
  ASSUME NEW f, NEW S, IsFiniteSet(S)
  PROVE  \E g : Adds(g, f, S)
<1> DEFINE T == {U \in SUBSET S : ~ \E g : Adds(g, f, U)}
<1> SUFFICES ASSUME T # {} PROVE FALSE
  OBVIOUS
<1>1. PICK U \in T : \A V \in T : V \subseteq U => V = U
  <2>1. T \subseteq SUBSET S
    OBVIOUS
  <2> HIDE DEF T
  <2> QED
    BY <2>1, SmallestSubset
<1>2. U \in SUBSET S /\ IsFiniteSet(U) /\ ~ \E g : Adds(g, f, U)
  BY FS_Subset
<1> DEFINE H(s) == CHOOSE g : Adds(g, f, s)
           G == [s \in SUBSET U |-> IF s = {} THEN 0
                                    ELSE f[Pick(s)] + H(s \ {Pick(s)})[s \ {Pick(s)}]]
<1>3. ASSUME NEW V \in SUBSET U, V # U PROVE Adds(H(V), f, V)
  BY <1>1, <1>2, <1>3
<1>4. ASSUME NEW s \in SUBSET U, s # {}
      PROVE  G[s \ {Pick(s)}] = H(s \ {Pick(s)})[s \ {Pick(s)}]
  <2> DEFINE V == s \ {Pick(s)}
             W == V \ {Pick(V)}
  <2>1. V \in SUBSET U /\ V # U
    BY <1>4, PickIsElement
  <2>2. Adds(H(V), f, V)
    BY <1>3, <2>1
  <2>3. G[V] = IF V = {} THEN 0 ELSE f[Pick(V)] + H(W)[W]
    BY <2>1
  <2> HIDE DEF H, G
  <2>4. AddsAt(H(V), f, V)
    <3>1. V \in SUBSET V
      OBVIOUS
    <3> HIDE DEF V
    <3> QED
      BY <2>2, <3>1, AddsStep
  <2>5. CASE V = {}
    BY <2>3, <2>4, <2>5 DEF AddsAt
  <2>6. CASE V # {}
    <3>1. W \in SUBSET U /\ W # U /\ W \in SUBSET V /\ IsFiniteSet(V)
      BY <1>2, <2>1, <2>6, PickIsElement, FS_Subset
    <3>2. Adds(H(W), f, W)
      BY <1>3, <3>1
    <3>3. H(W)[W] = H(V)[W]
      <4> HIDE DEF V, W
      <4> QED
        BY <2>2, <3>1, <3>2, AddsAgree
    <3> QED
      BY <2>3, <2>4, <2>6, <3>3 DEF AddsAt
  <2> QED
    BY <2>5, <2>6
<1>5. Adds(G, f, U)
  <2>1. \A s \in SUBSET U :
          G[s] = IF s = {} THEN 0 ELSE f[Pick(s)] + H(s \ {Pick(s)})[s \ {Pick(s)}]
    OBVIOUS
  <2>2. G = [s \in SUBSET U |-> G[s]]
    OBVIOUS
  <2> HIDE DEF G, H
  <2>3. \A s \in SUBSET U :
          G[s] = IF s = {} THEN 0 ELSE f[Pick(s)] + G[s \ {Pick(s)}]
    BY <1>4, <2>1
  <2> QED
    BY <2>2, <2>3 DEF Adds
<1> QED
  BY <1>2, <1>5
-----------------------------------------------------------------------------
(* Nothing sums up to nothing. *)
LEMMA SumEmpty == ASSUME NEW f PROVE SumOf(f, {}) = 0
<1>1. PICK g : Adds(g, f, {})
  BY AddsExists, FS_EmptySet
<1>2. Adds(CHOOSE h : Adds(h, f, {}), f, {})
  BY <1>1
<1>3. AddsAt(CHOOSE h : Adds(h, f, {}), f, {})
  BY <1>2, AddsStep
<1> QED
  BY <1>3, SumIsChosen DEF AddsAt

(* A sum is the picked element and the sum of the others. *)
LEMMA SumPicked ==
  ASSUME NEW f, NEW S, IsFiniteSet(S), S # {}
  PROVE  SumOf(f, S) = f[Pick(S)] + SumOf(f, S \ {Pick(S)})
<1> DEFINE V == S \ {Pick(S)}
           g == CHOOSE h : Adds(h, f, S)
           k == CHOOSE h : Adds(h, f, V)
<1>1. IsFiniteSet(V)
  BY FS_Subset
<1>2. Adds(g, f, S) /\ Adds(k, f, V)
  BY <1>1, AddsExists
<1>3. SumOf(f, S) = g[S] /\ SumOf(f, V) = k[V]
  BY SumIsChosen
<1> HIDE DEF g, k
<1>4. AddsAt(g, f, S)
  BY <1>2, AddsStep
<1>5. g[V] = k[V]
  <2>1. V \in SUBSET S
    OBVIOUS
  <2> HIDE DEF V
  <2> QED
    BY <1>2, <2>1, AddsAgree
<1> QED
  BY <1>3, <1>4, <1>5 DEF AddsAt
-----------------------------------------------------------------------------
(* The laws that the proofs about money use. *)

(* A finite sum of integers is an integer.                                   *)
LEMMA SumIsInteger ==
  ASSUME NEW S, IsFiniteSet(S), NEW f, \A x \in S : f[x] \in Int
  PROVE  SumOf(f, S) \in Int
<1> DEFINE T == {U \in SUBSET S : SumOf(f, U) \notin Int}
<1> SUFFICES ASSUME T # {} PROVE FALSE
  OBVIOUS
<1>1. PICK U \in T : \A V \in T : V \subseteq U => V = U
  <2>1. T \subseteq SUBSET S
    OBVIOUS
  <2> HIDE DEF T
  <2> QED
    BY <2>1, SmallestSubset
<1>2. U \in SUBSET S /\ IsFiniteSet(U) /\ SumOf(f, U) \notin Int
  BY FS_Subset
<1>3. U # {}
  BY <1>2, SumEmpty
<1>4. Pick(U) \in U
  BY <1>3, PickIsElement
<1>5. SumOf(f, U \ {Pick(U)}) \in Int
  BY <1>1, <1>2, <1>4
<1> QED
  BY <1>2, <1>3, <1>4, <1>5, SumPicked

(* Only the values on the set matter. *)
LEMMA SumOfSame ==
  ASSUME NEW S, IsFiniteSet(S), NEW f, NEW g, \A x \in S : f[x] = g[x]
  PROVE  SumOf(f, S) = SumOf(g, S)
<1> DEFINE T == {U \in SUBSET S : SumOf(f, U) # SumOf(g, U)}
<1> SUFFICES ASSUME T # {} PROVE FALSE
  OBVIOUS
<1>1. PICK U \in T : \A V \in T : V \subseteq U => V = U
  <2>1. T \subseteq SUBSET S
    OBVIOUS
  <2> HIDE DEF T
  <2> QED
    BY <2>1, SmallestSubset
<1>2. U \in SUBSET S /\ IsFiniteSet(U) /\ SumOf(f, U) # SumOf(g, U)
  BY FS_Subset
<1>3. U # {}
  BY <1>2, SumEmpty
<1>4. Pick(U) \in U
  BY <1>3, PickIsElement
<1>5. SumOf(f, U \ {Pick(U)}) = SumOf(g, U \ {Pick(U)})
  BY <1>1, <1>2, <1>4
<1>6. /\ SumOf(f, U) = f[Pick(U)] + SumOf(f, U \ {Pick(U)})
      /\ SumOf(g, U) = g[Pick(U)] + SumOf(g, U \ {Pick(U)})
  BY <1>2, <1>3, SumPicked
<1>7. f[Pick(U)] = g[Pick(U)]
  BY <1>2, <1>4
<1> QED
  BY <1>2, <1>5, <1>6, <1>7

(* It does not matter which element is taken out first. *)
LEMMA SumWithout ==
  ASSUME NEW S, IsFiniteSet(S), NEW f, \A x \in S : f[x] \in Int, NEW e \in S
  PROVE  SumOf(f, S) = f[e] + SumOf(f, S \ {e})
<1> DEFINE T == {U \in SUBSET S : \E x \in U : SumOf(f, U) # f[x] + SumOf(f, U \ {x})}
<1> SUFFICES ASSUME T # {} PROVE FALSE
  OBVIOUS
<1>1. PICK U \in T : \A V \in T : V \subseteq U => V = U
  <2>1. T \subseteq SUBSET S
    OBVIOUS
  <2> HIDE DEF T
  <2> QED
    BY <2>1, SmallestSubset
<1>2. U \in SUBSET S /\ IsFiniteSet(U)
  BY FS_Subset
<1>3. PICK x \in U : SumOf(f, U) # f[x] + SumOf(f, U \ {x})
  OBVIOUS
<1> DEFINE c == Pick(U)
           V == U \ {c}
           W == U \ {x}
<1>4. c \in U /\ SumOf(f, U) = f[c] + SumOf(f, V)
  BY <1>2, <1>3, PickIsElement, SumPicked
<1>5. c # x
  BY <1>3, <1>4
<1> HIDE DEF c
<1>6. SumOf(f, V) = f[x] + SumOf(f, V \ {x})
  BY <1>1, <1>2, <1>4, <1>5
<1>7. SumOf(f, W) = f[c] + SumOf(f, W \ {c})
  BY <1>1, <1>2, <1>3, <1>4, <1>5
<1>8. V \ {x} = W \ {c} /\ IsFiniteSet(W \ {c}) /\ W \ {c} \subseteq S
  BY <1>2, FS_Subset
<1>9. f[x] \in Int /\ f[c] \in Int /\ SumOf(f, W \ {c}) \in Int
  BY <1>2, <1>4, <1>8, SumIsInteger
<1>10. SumOf(f, V \ {x}) = SumOf(f, W \ {c})
  BY <1>8
<1> HIDE DEF V, W
<1> QED
  BY <1>3, <1>4, <1>6, <1>7, <1>9, <1>10 DEF W

(* A new element adds its value. *)
LEMMA SumWith ==
  ASSUME NEW S, IsFiniteSet(S), NEW e, e \notin S, NEW f, \A x \in S \cup {e} : f[x] \in Int
  PROVE  SumOf(f, S \cup {e}) = SumOf(f, S) + f[e]
<1> DEFINE R == S \cup {e}
<1>1. IsFiniteSet(R) /\ R \ {e} = S /\ e \in R
  BY FS_AddElement
<1>2. SumOf(f, S) \in Int /\ f[e] \in Int
  BY SumIsInteger
<1> HIDE DEF R
<1>3. SumOf(f, R) = f[e] + SumOf(f, R \ {e})
  BY <1>1, SumWithout DEF R
<1>4. SumOf(f, R \ {e}) = SumOf(f, S)
  BY <1>1
<1>5. SumOf(f, R) = SumOf(f, S) + f[e]
  BY <1>2, <1>3, <1>4
<1> QED
  BY <1>5 DEF R

(* A value that changes changes the sum by as much. *)
LEMMA SumChanged ==
  ASSUME NEW S, IsFiniteSet(S), NEW e \in S,
         NEW f, \A x \in S : f[x] \in Int, NEW g, \A x \in S : g[x] \in Int,
         \A x \in S \ {e} : g[x] = f[x]
  PROVE  SumOf(g, S) = SumOf(f, S) + (g[e] - f[e])
<1> DEFINE R == S \ {e}
<1>1. IsFiniteSet(R)
  BY FS_Subset
<1>2. SumOf(g, R) = SumOf(f, R)
  BY <1>1, SumOfSame
<1>3. SumOf(f, S) = f[e] + SumOf(f, R) /\ SumOf(g, S) = g[e] + SumOf(g, R)
  BY SumWithout
<1>4. SumOf(f, R) \in Int /\ f[e] \in Int /\ g[e] \in Int
  BY <1>1, SumIsInteger
<1> QED
  BY <1>2, <1>3, <1>4

(* The value of e, if it is of S, changes by a, and no other.                *)
Shifts(f, g, S, e, a) ==
  \A x \in S : /\ f[x] \in Int
               /\ g[x] = IF x = e THEN f[x] + a ELSE f[x]

(* Then a is the difference of the sums, or nothing is when e is not of S.   *)
LEMMA SumShifted ==
  ASSUME NEW S, IsFiniteSet(S), NEW e, NEW a \in Int, NEW f, NEW g, Shifts(f, g, S, e, a)
  PROVE  SumOf(g, S) = IF e \in S THEN SumOf(f, S) + a ELSE SumOf(f, S)
<1> USE DEF Shifts
<1>1. \A x \in S : f[x] \in Int /\ g[x] \in Int
  OBVIOUS
<1>2. SumOf(f, S) \in Int
  BY <1>1, SumIsInteger
<1>3. CASE e \in S
  <2>1. /\ \A x \in S \ {e} : g[x] = f[x]
        /\ g[e] = f[e] + a /\ f[e] \in Int
    BY <1>3
  <2>2. SumOf(g, S) = SumOf(f, S) + (g[e] - f[e])
    BY <1>1, <1>3, <2>1, SumChanged
  <2> QED
    BY <1>2, <1>3, <2>1, <2>2
<1>4. CASE e \notin S
  <2>1. \A x \in S : g[x] = f[x]
    BY <1>4
  <2>2. SumOf(g, S) = SumOf(f, S)
    BY <2>1, SumOfSame
  <2> QED
    BY <1>2, <1>4, <2>2
<1> QED
  BY <1>3, <1>4

(* A new record is worth its amount. *)
LEMMA WorthWith ==
  ASSUME NEW R, IsFiniteSet(R), NEW e, e \notin R, \A r \in R \cup {e} : r.amount \in Int
  PROVE  Worth(R \cup {e}) = Worth(R) + e.amount
<1> DEFINE Q == R \cup {e}
           f == [r \in Q |-> r.amount]
           g == [r \in R |-> r.amount]
<1>1. SumOf(f, Q) = SumOf(f, R) + f[e]
  <2>1. \A r \in R \cup {e} : f[r] \in Int
    OBVIOUS
  <2> HIDE DEF f
  <2> QED
    BY <2>1, SumWith
<1>2. SumOf(f, R) = SumOf(g, R)
  <2>1. \A r \in R : f[r] = g[r]
    OBVIOUS
  <2> HIDE DEF f, g
  <2> QED
    BY <2>1, SumOfSame
<1>3. f[e] = e.amount
  OBVIOUS
<1>4. Worth(Q) = SumOf(f, Q) /\ Worth(R) = SumOf(g, R)
  BY DEF Worth
<1> HIDE DEF f, g
<1> QED
  BY <1>1, <1>2, <1>3, <1>4

(* A record in the place of one of the same amount changes nothing.          *)
LEMMA WorthSwapped ==
  ASSUME NEW R, IsFiniteSet(R), \A r \in R : r.amount \in Int,
         NEW o \in R, NEW n, n \notin R, n.amount = o.amount
  PROVE  Worth((R \ {o}) \cup {n}) = Worth(R)
<1> DEFINE Q == R \ {o}
<1>1. IsFiniteSet(Q)
  BY FS_Subset
<1>2. /\ n \notin Q /\ o \notin Q /\ Q \cup {o} = R
      /\ \A r \in Q \cup {n} : r.amount \in Int
      /\ \A r \in Q \cup {o} : r.amount \in Int
  OBVIOUS
<1> HIDE DEF Q
<1>3. Worth(Q \cup {n}) = Worth(Q) + n.amount
  BY <1>1, <1>2, WorthWith
<1>4. Worth(Q \cup {o}) = Worth(Q) + o.amount
  BY <1>1, <1>2, WorthWith
<1>5. Worth(Q \cup {n}) = Worth(R)
  BY <1>2, <1>3, <1>4
<1> QED
  BY <1>5 DEF Q

(* Records of integer amounts are worth an integer.                          *)
LEMMA WorthIsInteger ==
  ASSUME NEW R, IsFiniteSet(R), \A r \in R : r.amount \in Int
  PROVE  Worth(R) \in Int
<1> DEFINE g == [r \in R |-> r.amount]
<1>1. \A r \in R : g[r] \in Int
  OBVIOUS
<1>2. Worth(R) = SumOf(g, R)
  BY DEF Worth
<1> HIDE DEF g
<1> QED
  BY <1>1, <1>2, SumIsInteger

(* What is worth nothing at all. *)
LEMMA WorthEmpty == Worth({}) = 0
BY SumEmpty DEF Worth
=============================================================================

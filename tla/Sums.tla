-------------------------------- MODULE Sums --------------------------------
(***************************************************************************)
(* Facts about finite sets that the proofs share.  The sum of a function   *)
(* over a finite set, SumFunctionOnSet of the community modules: its       *)
(* recursion runs over the subsets of the set, so each fact is proved      *)
(* about a smallest subset that would refute it.  Least and greatest       *)
(* numbers, and induction along an interval.  And strict orders: the       *)
(* place of an element by the number of those below it, which is how the   *)
(* models sort.                                                            *)
(***************************************************************************)
EXTENDS Integers, FiniteSets, FiniteSetsExt, Functions, FiniteSetTheorems,
        WellFoundedInduction, TLAPS

\* A family of subsets of a finite set has a smallest member.
LEMMA SmallestSubset ==
    ASSUME NEW S, IsFiniteSet(S), NEW F, F \subseteq SUBSET S, F # {}
    PROVE  \E T \in F : \A U \in F : U \subseteq T => U = T
  <1>1. IsWellFoundedOn(StrictSubsetOrdering(S), SUBSET S)
    BY FS_StrictSubsetOrderingWellFounded, FS_FiniteSubsetsOfFinite
  <1>2. PICK T \in F : \A U \in F : ~(<<U, T>> \in StrictSubsetOrdering(S))
    BY <1>1, WFMin
  <1>3. \A U \in F : U \subseteq T => U = T
    BY <1>2 DEF StrictSubsetOrdering
  <1> QED
    BY <1>3

\* Induction over the subsets of a finite set: what holds of a subset as soon as
\* it holds of the subset without any one element.
LEMMA SubsetInduction ==
    ASSUME NEW S, IsFiniteSet(S), NEW F,
           \A T \in SUBSET S : (\A x \in T : T \ {x} \in F) => T \in F
    PROVE  \A T \in SUBSET S : T \in F
  <1> DEFINE G == {T \in SUBSET S : T \notin F}
  <1> SUFFICES ASSUME G # {} PROVE FALSE
    OBVIOUS
  <1>1. PICK T \in G : \A U \in G : U \subseteq T => U = T
    <2>1. G \subseteq SUBSET S
      OBVIOUS
    <2> HIDE DEF G
    <2> QED
      BY <2>1, SmallestSubset
  <1>2. \A x \in T : T \ {x} \in F
    BY <1>1
  <1> QED
    BY <1>2

-----------------------------------------------------------------------------
(* The recursion is well defined. *)

pick(s) == CHOOSE x \in s : TRUE

\* g sums f over every subset of S.
Sums(f, S, g) ==
    g = [s \in SUBSET S |-> IF s = {} THEN 0 ELSE f[pick(s)] + g[s \ {pick(s)}]]

LEMMA SumsUnique ==
    ASSUME NEW f, NEW S, IsFiniteSet(S), NEW T, T \subseteq S, NEW g, NEW h,
           Sums(f, S, g), Sums(f, T, h)
    PROVE  \A s \in SUBSET T : g[s] = h[s]
  <1> DEFINE F == {s \in SUBSET T : g[s] # h[s]}
  <1> SUFFICES ASSUME F # {} PROVE FALSE
    OBVIOUS
  <1>1. PICK s \in F : \A u \in F : u \subseteq s => u = s
    <2>1. IsFiniteSet(T) /\ F \subseteq SUBSET T
      BY FS_Subset
    <2> HIDE DEF F
    <2> QED
      BY <2>1, SmallestSubset
  <1>2. s # {}
    BY DEF Sums
  <1>3. pick(s) \in s
    BY <1>2 DEF pick
  <1>4. g[s \ {pick(s)}] = h[s \ {pick(s)}]
    BY <1>1, <1>3
  <1>5. g[s] = f[pick(s)] + g[s \ {pick(s)}]
    BY <1>2 DEF Sums
  <1>6. h[s] = f[pick(s)] + h[s \ {pick(s)}]
    BY <1>2 DEF Sums
  <1> QED
    BY <1>4, <1>5, <1>6

LEMMA SumsByValue ==
    ASSUME NEW f, NEW S, NEW g, g = [s \in SUBSET S |-> g[s]],
           \A s \in SUBSET S : g[s] = IF s = {} THEN 0 ELSE f[pick(s)] + g[s \ {pick(s)}]
    PROVE  Sums(f, S, g)
  BY DEF Sums

LEMMA SumsExist ==
    ASSUME NEW f, NEW S, IsFiniteSet(S)
    PROVE  \E g : Sums(f, S, g)
  <1> DEFINE F == {T \in SUBSET S : ~\E g : Sums(f, T, g)}
  <1> SUFFICES ASSUME F # {} PROVE FALSE
    OBVIOUS
  <1>1. PICK T \in F : \A U \in F : U \subseteq T => U = T
    <2>1. F \subseteq SUBSET S
      OBVIOUS
    <2> HIDE DEF F
    <2> QED
      BY <2>1, SmallestSubset
  <1> DEFINE sums(U) == CHOOSE g : Sums(f, U, g)
  <1> DEFINE p == pick(T)
  <1> DEFINE value(s) == IF s # T THEN sums(s)[s]
                         ELSE IF T = {} THEN 0 ELSE f[p] + sums(T \ {p})[T \ {p}]
  <1> DEFINE g == [s \in SUBSET T |-> value(s)]
  <1>2. \A U \in SUBSET T : U # T => Sums(f, U, sums(U))
    BY <1>1
  <1>3. \A s \in SUBSET T : s # {} => s \ {pick(s)} # T /\ pick(s) \in s
    BY DEF pick
  <1>4. \A s \in SUBSET T : g[s] = IF s = {} THEN 0 ELSE f[pick(s)] + g[s \ {pick(s)}]
    <2> SUFFICES ASSUME NEW s \in SUBSET T
                 PROVE  g[s] = IF s = {} THEN 0 ELSE f[pick(s)] + g[s \ {pick(s)}]
      OBVIOUS
    <2>1. CASE s = T
      BY <1>3, <2>1
    <2>2. CASE s # T
      <3>1. Sums(f, s, sums(s)) /\ g[s] = sums(s)[s]
        BY <1>2, <2>2
      <3>2. CASE s = {}
        BY <3>1, <3>2 DEF Sums
      <3>3. CASE s # {}
        <4> DEFINE r == s \ {pick(s)}
        <4>1. r \in SUBSET s /\ r # T
          BY <1>3, <3>3
        <4>2. Sums(f, r, sums(r)) /\ g[r] = sums(r)[r]
          BY <1>2, <4>1
        <4>3. IsFiniteSet(s)
          BY FS_Subset
        <4>4. sums(s)[r] = sums(r)[r]
          <5> HIDE DEF sums, r
          <5> QED
            BY <3>1, <4>1, <4>2, <4>3, SumsUnique
        <4>5. sums(s)[s] = f[pick(s)] + sums(s)[r]
          BY <3>1, <3>3 DEF Sums
        <4> QED
          BY <3>1, <3>3, <4>2, <4>4, <4>5
      <3> QED
        BY <3>2, <3>3
    <2> QED
      BY <2>1, <2>2
  <1>5. g = [s \in SUBSET T |-> g[s]]
    OBVIOUS
  <1>6. Sums(f, T, g)
    <2> HIDE DEF g
    <2> QED
      BY <1>4, <1>5, SumsByValue
  <1> QED
    BY <1>1, <1>6

LEMMA SumIsSums ==
    ASSUME NEW f, NEW S
    PROVE  SumFunctionOnSet(f, S) = (CHOOSE g : Sums(f, S, g))[S]
  BY DEF SumFunctionOnSet, FoldFunctionOnSet, MapThenFoldSet, Sums, pick

\* One step of the recursion.
LEMMA SumStep ==
    ASSUME NEW f, NEW S, IsFiniteSet(S)
    PROVE  /\ SumFunctionOnSet(f, {}) = 0
           /\ S # {} => /\ pick(S) \in S
                        /\ SumFunctionOnSet(f, S)
                             = f[pick(S)] + SumFunctionOnSet(f, S \ {pick(S)})
  <1> DEFINE sums(U) == CHOOSE g : Sums(f, U, g)
  <1>1. \A U : IsFiniteSet(U) => Sums(f, U, sums(U))
    BY SumsExist
  <1>a. \A U : SumFunctionOnSet(f, U) = sums(U)[U]
    BY SumIsSums
  <1> HIDE DEF sums
  <1>2. SumFunctionOnSet(f, {}) = 0
    <2>1. Sums(f, {}, sums({}))
      BY <1>1, FS_EmptySet
    <2> QED
      BY <2>1, <1>a DEF Sums
  <1>3. ASSUME S # {}
        PROVE  /\ pick(S) \in S
               /\ SumFunctionOnSet(f, S) = f[pick(S)] + SumFunctionOnSet(f, S \ {pick(S)})
    <2> DEFINE r == S \ {pick(S)}
    <2>1. pick(S) \in S
      BY <1>3 DEF pick
    <2>2. IsFiniteSet(r)
      BY FS_RemoveElement
    <2>3. sums(S)[S] = f[pick(S)] + sums(S)[r]
      BY <1>1, <1>3 DEF Sums
    <2>4. sums(S)[r] = sums(r)[r]
      BY <1>1, <2>2, SumsUnique
    <2> QED
      BY <2>1, <2>3, <2>4, <1>a
  <1> QED
    BY <1>2, <1>3

-----------------------------------------------------------------------------
(* What sums are like. *)

LEMMA SumEmpty == \A f : SumFunctionOnSet(f, {}) = 0
  BY SumStep, FS_EmptySet

LEMMA SumInt ==
    ASSUME NEW f, NEW S, IsFiniteSet(S), \A x \in S : f[x] \in Int
    PROVE  \A T \in SUBSET S : SumFunctionOnSet(f, T) \in Int
  <1> DEFINE F == {T \in SUBSET S : SumFunctionOnSet(f, T) \in Int}
  <1>1. ASSUME NEW T \in SUBSET S, \A x \in T : T \ {x} \in F
        PROVE  T \in F
    <2>1. CASE T = {}
      BY <2>1, SumEmpty
    <2>2. CASE T # {}
      <3>1. /\ IsFiniteSet(T) /\ pick(T) \in T
            /\ SumFunctionOnSet(f, T) = f[pick(T)] + SumFunctionOnSet(f, T \ {pick(T)})
        BY <2>2, FS_Subset, SumStep
      <3>2. SumFunctionOnSet(f, T \ {pick(T)}) \in Int /\ f[pick(T)] \in Int
        BY <1>1, <3>1
      <3> QED
        BY <3>1, <3>2
    <2> QED
      BY <2>1, <2>2
  <1>2. \A T \in SUBSET S : T \in F
    <2> HIDE DEF F
    <2> QED
      BY <1>1, SubsetInduction
  <1> QED
    BY <1>2

\* The order in which a sum is taken does not matter.
LEMMA SumRemove ==
    ASSUME NEW f, NEW S, IsFiniteSet(S), \A x \in S : f[x] \in Int
    PROVE  \A T \in SUBSET S : \A y \in T :
             SumFunctionOnSet(f, T) = f[y] + SumFunctionOnSet(f, T \ {y})
  <1> DEFINE sum(T) == SumFunctionOnSet(f, T)
  <1> DEFINE F == {T \in SUBSET S : \A y \in T : sum(T) = f[y] + sum(T \ {y})}
  <1>1. ASSUME NEW T \in SUBSET S, \A x \in T : T \ {x} \in F
        PROVE  T \in F
    <2> SUFFICES ASSUME NEW y \in T PROVE sum(T) = f[y] + sum(T \ {y})
      OBVIOUS
    <2> DEFINE p == pick(T)
    <2>1. IsFiniteSet(T) /\ p \in T /\ sum(T) = f[p] + sum(T \ {p})
      BY FS_Subset, SumStep
    <2>2. CASE y = p
      BY <2>1, <2>2
    <2>3. CASE y # p
      <3> DEFINE R == (T \ {p}) \ {y}
      <3>1. sum(T \ {p}) = f[y] + sum(R)
        BY <1>1, <2>1, <2>3
      <3>2. sum(T \ {y}) = f[p] + sum((T \ {y}) \ {p})
        BY <1>1, <2>1, <2>3
      <3>3. (T \ {y}) \ {p} = R
        OBVIOUS
      <3>4. f[y] \in Int /\ f[p] \in Int /\ sum(R) \in Int
        BY <2>1, SumInt
      <3>5. sum(T \ {y}) = f[p] + sum(R)
        BY <3>2, <3>3
      <3>6. \A a, b, d \in Int : a + (b + d) = b + (a + d)
        OBVIOUS
      <3> HIDE DEF R, p, sum
      <3> QED
        BY <2>1, <3>1, <3>4, <3>5, <3>6
    <2> QED
      BY <2>2, <2>3
  <1>2. \A T \in SUBSET S : T \in F
    <2> HIDE DEF F
    <2> QED
      BY <1>1, SubsetInduction
  <1> QED
    BY <1>2

\* One element more.
LEMMA SumAdd ==
    ASSUME NEW f, NEW S, IsFiniteSet(S), NEW x, x \notin S, \A y \in S \cup {x} : f[y] \in Int
    PROVE  /\ SumFunctionOnSet(f, S) \in Int
           /\ SumFunctionOnSet(f, S \cup {x}) = SumFunctionOnSet(f, S) + f[x]
  <1> DEFINE T == S \cup {x}
  <1>1. IsFiniteSet(T)
    BY FS_AddElement
  <1>2. SumFunctionOnSet(f, T) = f[x] + SumFunctionOnSet(f, T \ {x})
    BY <1>1, SumRemove
  <1>3. T \ {x} = S
    OBVIOUS
  <1>4. SumFunctionOnSet(f, S) \in Int /\ f[x] \in Int
    BY SumInt
  <1>5. SumFunctionOnSet(f, T) = f[x] + SumFunctionOnSet(f, S)
    BY <1>2, <1>3
  <1> HIDE DEF T
  <1>6. SumFunctionOnSet(f, T) = SumFunctionOnSet(f, S) + f[x]
    BY <1>4, <1>5
  <1> QED
    BY <1>4, <1>6 DEF T

\* Only the values on the set count, and greater values make a greater sum.
LEMMA SumMonotone ==
    ASSUME NEW f, NEW g, NEW S, IsFiniteSet(S),
           \A x \in S : f[x] \in Int /\ g[x] \in Int /\ f[x] <= g[x]
    PROVE  SumFunctionOnSet(f, S) <= SumFunctionOnSet(g, S)
  <1> DEFINE sum(h, T) == SumFunctionOnSet(h, T)
  <1> DEFINE F == {T \in SUBSET S : sum(f, T) <= sum(g, T)}
  <1>1. ASSUME NEW T \in SUBSET S, \A x \in T : T \ {x} \in F
        PROVE  T \in F
    <2>1. CASE T = {}
      <3>1. sum(f, T) = 0 /\ sum(g, T) = 0
        BY <2>1, SumEmpty
      <3> QED
        BY <3>1
    <2>2. CASE T # {}
      <3>1. PICK x \in T : TRUE
        BY <2>2
      <3> DEFINE R == T \ {x}
      <3>2. sum(f, T) = f[x] + sum(f, R) /\ sum(g, T) = g[x] + sum(g, R)
        BY SumRemove
      <3>3. sum(f, R) <= sum(g, R)
        BY <1>1
      <3>4. /\ sum(f, R) \in Int /\ sum(g, R) \in Int
            /\ f[x] \in Int /\ g[x] \in Int /\ f[x] <= g[x]
        BY SumInt
      <3> HIDE DEF R, sum
      <3>5. sum(f, T) <= sum(g, T)
        BY <3>2, <3>3, <3>4
      <3> QED
        BY <3>5
    <2> QED
      BY <2>1, <2>2
  <1>2. \A T \in SUBSET S : T \in F
    <2> HIDE DEF F
    <2> QED
      BY <1>1, SubsetInduction
  <1> QED
    BY <1>2

LEMMA SumSame ==
    ASSUME NEW f, NEW g, NEW S, IsFiniteSet(S), \A x \in S : f[x] \in Int /\ f[x] = g[x]
    PROVE  SumFunctionOnSet(f, S) = SumFunctionOnSet(g, S)
  <1>1. /\ SumFunctionOnSet(f, S) <= SumFunctionOnSet(g, S)
        /\ SumFunctionOnSet(g, S) <= SumFunctionOnSet(f, S)
    BY SumMonotone
  <1>2. SumFunctionOnSet(f, S) \in Int /\ SumFunctionOnSet(g, S) \in Int
    BY SumInt
  <1> QED
    BY <1>1, <1>2

\* One value changes.
LEMMA SumUpdate ==
    ASSUME NEW f, NEW g, NEW S, IsFiniteSet(S), NEW y \in S,
           \A x \in S : f[x] \in Int /\ g[x] \in Int,
           \A x \in S \ {y} : g[x] = f[x]
    PROVE  SumFunctionOnSet(g, S) = SumFunctionOnSet(f, S) + g[y] - f[y]
  <1> DEFINE R == S \ {y}
  <1>1. /\ SumFunctionOnSet(f, S) = f[y] + SumFunctionOnSet(f, R)
        /\ SumFunctionOnSet(g, S) = g[y] + SumFunctionOnSet(g, R)
    BY SumRemove
  <1>2. IsFiniteSet(R)
    BY FS_RemoveElement
  <1>3. SumFunctionOnSet(g, R) = SumFunctionOnSet(f, R)
    BY <1>2, SumSame
  <1>4. f[y] \in Int /\ g[y] \in Int /\ SumFunctionOnSet(f, R) \in Int
    BY SumInt
  <1> HIDE DEF R
  <1> QED
    BY <1>1, <1>3, <1>4

\* Less is counted of a part of the set, if nothing counted is negative.
LEMMA SumSubset ==
    ASSUME NEW f, NEW S, IsFiniteSet(S), \A x \in S : f[x] \in Nat, NEW U \in SUBSET S
    PROVE  /\ SumFunctionOnSet(f, U) \in Nat
           /\ SumFunctionOnSet(f, U) <= SumFunctionOnSet(f, S)
  <1> DEFINE sum(T) == SumFunctionOnSet(f, T)
  <1> DEFINE F == {T \in SUBSET S : sum(T) >= 0 /\ sum(T \cap U) <= sum(T)}
  <1>1. ASSUME NEW T \in SUBSET S, \A x \in T : T \ {x} \in F
        PROVE  T \in F
    <2>1. CASE T = {}
      <3>1. sum(T) = 0 /\ sum(T \cap U) = 0
        BY <2>1, SumEmpty
      <3> QED
        BY <3>1
    <2>2. CASE T # {}
      <3>1. PICK x \in T : TRUE
        BY <2>2
      <3> DEFINE R == T \ {x}
      <3>2. sum(T) = f[x] + sum(R)
        BY SumRemove
      <3>3. sum(R) >= 0 /\ sum(R \cap U) <= sum(R)
        BY <1>1
      <3>4. sum(R) \in Int /\ sum(R \cap U) \in Int /\ f[x] \in Int /\ f[x] >= 0
        BY SumInt
      <3>5. CASE x \in U
        <4>1. (T \cap U) \ {x} = R \cap U
          OBVIOUS
        <4>2. sum(T \cap U) = f[x] + sum((T \cap U) \ {x})
          BY <3>5, SumRemove
        <4>3. sum(T \cap U) = f[x] + sum(R \cap U)
          BY <4>1, <4>2
        <4>4. \A a, b, d \in Int : a >= 0 /\ b >= 0 /\ d <= b => a + b >= 0 /\ a + d <= a + b
          OBVIOUS
        <4> HIDE DEF R, sum
        <4>5. sum(T) >= 0 /\ sum(T \cap U) <= sum(T)
          BY <3>2, <3>3, <3>4, <4>3, <4>4
        <4> QED
          BY <4>5
      <3>6. CASE x \notin U
        <4>1. T \cap U = R \cap U
          BY <3>6
        <4> HIDE DEF R, sum
        <4>2. sum(T) >= 0 /\ sum(T \cap U) <= sum(T)
          BY <3>2, <3>3, <3>4, <4>1
        <4> QED
          BY <4>2
      <3> QED
        BY <3>5, <3>6
    <2> QED
      BY <2>1, <2>2
  <1>2. \A T \in SUBSET S : T \in F
    <2> HIDE DEF F
    <2> QED
      BY <1>1, SubsetInduction
  <1>3. S \cap U = U
    OBVIOUS
  <1>4. sum(U) \in Int
    BY SumInt
  <1> QED
    BY <1>2, <1>3, <1>4

\* A common factor.
LEMMA SumScale ==
    ASSUME NEW f, NEW g, NEW c \in Int, NEW S, IsFiniteSet(S),
           \A x \in S : f[x] \in Int /\ g[x] = f[x] * c
    PROVE  SumFunctionOnSet(g, S) = SumFunctionOnSet(f, S) * c
  <1> DEFINE sum(h, T) == SumFunctionOnSet(h, T)
  <1> DEFINE F == {T \in SUBSET S : sum(g, T) = sum(f, T) * c}
  <1>0. \A x \in S : g[x] \in Int
    OBVIOUS
  <1>1. ASSUME NEW T \in SUBSET S, \A x \in T : T \ {x} \in F
        PROVE  T \in F
    <2>1. CASE T = {}
      <3>1. sum(f, T) = 0 /\ sum(g, T) = 0
        BY <2>1, SumEmpty
      <3> QED
        BY <3>1
    <2>2. CASE T # {}
      <3>1. PICK x \in T : TRUE
        BY <2>2
      <3> DEFINE R == T \ {x}
      <3>2. sum(f, T) = f[x] + sum(f, R) /\ sum(g, T) = g[x] + sum(g, R)
        BY <1>0, SumRemove
      <3>3. sum(g, R) = sum(f, R) * c /\ g[x] = f[x] * c
        BY <1>1
      <3>4. sum(f, R) \in Int /\ f[x] \in Int
        BY SumInt
      <3> HIDE DEF R, sum
      <3>5. sum(g, T) = sum(f, T) * c
        <4>1. \A a, b \in Int : (a + b) * c = a * c + b * c
          OBVIOUS
        <4> QED
          BY <3>2, <3>3, <3>4, <4>1
      <3> QED
        BY <3>5
    <2> QED
      BY <2>1, <2>2
  <1>2. \A T \in SUBSET S : T \in F
    <2> HIDE DEF F
    <2> QED
      BY <1>1, SubsetInduction
  <1> QED
    BY <1>2

\* Zeros count for nothing.
LEMMA SumIgnoresZeros ==
    ASSUME NEW f, NEW S, IsFiniteSet(S), \A x \in S : f[x] \in Int,
           NEW U \in SUBSET S, \A x \in S \ U : f[x] = 0
    PROVE  SumFunctionOnSet(f, S) = SumFunctionOnSet(f, U)
  <1> DEFINE F == {T \in SUBSET S : SumFunctionOnSet(f, T) = SumFunctionOnSet(f, T \cap U)}
  <1>1. ASSUME NEW T \in SUBSET S, \A x \in T : T \ {x} \in F
        PROVE  T \in F
    <2>1. CASE T \subseteq U
      <3>1. T \cap U = T
        BY <2>1
      <3> QED
        BY <3>1
    <2>2. CASE ~(T \subseteq U)
      <3>1. PICK x \in T : x \notin U
        BY <2>2
      <3>2. SumFunctionOnSet(f, T) = f[x] + SumFunctionOnSet(f, T \ {x})
        BY SumRemove
      <3>3. SumFunctionOnSet(f, T \ {x}) = SumFunctionOnSet(f, (T \ {x}) \cap U)
        BY <1>1
      <3>4. (T \ {x}) \cap U = T \cap U /\ f[x] = 0 /\ T \ {x} \in SUBSET S
        BY <3>1
      <3>5. SumFunctionOnSet(f, T \ {x}) \in Int
        BY <3>4, SumInt
      <3>6. SumFunctionOnSet(f, T) = SumFunctionOnSet(f, T \ {x})
        <4>1. \A a \in Int : 0 + a = a
          OBVIOUS
        <4> QED
          BY <3>2, <3>4, <3>5, <4>1
      <3>7. SumFunctionOnSet(f, T) = SumFunctionOnSet(f, T \cap U)
        BY <3>3, <3>4, <3>6
      <3> QED
        BY <3>7
    <2> QED
      BY <2>1, <2>2
  <1> HIDE DEF F
  <1>2. \A T \in SUBSET S : T \in F
    BY <1>1, SubsetInduction
  <1>3. S \in F /\ S \cap U = U
    BY <1>2
  <1> QED
    BY <1>3 DEF F

-----------------------------------------------------------------------------
(* Numbers *)

\* A set of natural numbers that is not empty has a least one.
LEMMA MinIsLeast ==
    ASSUME NEW T, T \subseteq Nat, T # {}
    PROVE  Min(T) \in T /\ \A y \in T : Min(T) <= y
  <1> DEFINE R == {ss \in Nat \X Nat : ss[1] < ss[2]}
  <1>1. IsWellFoundedOn(R, Nat)
    BY NatLessThanWellFounded DEF OpToRel
  <1>2. \A x, y \in Nat : y < x => <<y, x>> \in R
    OBVIOUS
  <1> HIDE DEF R
  <1>3. PICK x \in T : \A y \in T : ~(<<y, x>> \in R)
    BY <1>1, WFMin
  <1>4. \A y \in T : x <= y
    <2> SUFFICES ASSUME NEW y \in T PROVE x <= y
      OBVIOUS
    <2>1. x \in Nat /\ y \in Nat /\ ~(y < x)
      BY <1>2, <1>3
    <2> QED
      BY <2>1
  <1> QED
    BY <1>3, <1>4 DEF Min

\* And a greatest one, if none is above n.
LEMMA MaxIsGreatest ==
    ASSUME NEW n \in Nat, NEW T, T \subseteq 0..n, T # {}
    PROVE  Max(T) \in T /\ \A y \in T : Max(T) >= y
  <1> DEFINE U == {n - x : x \in T}
  <1>0. \A x \in T : n - x \in Nat
    <2>1. \A x \in 0..n : n - x \in Nat
      OBVIOUS
    <2> QED
      BY <2>1
  <1>1. U \subseteq Nat /\ U # {}
    BY <1>0
  <1>2. Min(U) \in U /\ \A y \in U : Min(U) <= y
    BY <1>1, MinIsLeast
  <1>3. PICK x \in T : Min(U) = n - x
    BY <1>2
  <1>4. \A y \in T : x >= y
    <2> SUFFICES ASSUME NEW y \in T PROVE x >= y
      OBVIOUS
    <2>1. n - y \in U /\ x \in Nat /\ y \in Nat
      OBVIOUS
    <2>2. n - x <= n - y
      BY <1>2, <1>3, <2>1
    <2> QED
      BY <2>1, <2>2
  <1> QED
    BY <1>4 DEF Max

\* Induction up to a number.
LEMMA StepInduction ==
    ASSUME NEW n \in Nat, NEW Q, 0 \in Q, \A k \in 0..(n - 1) : k \in Q => k + 1 \in Q
    PROVE  \A k \in 0..n : k \in Q
  <1> DEFINE T == {k \in 0..n : k \notin Q}
  <1>1. ASSUME T # {}
        PROVE  FALSE
    <2>1. T \subseteq Nat
      OBVIOUS
    <2>2. PICK m \in T : \A y \in T : m <= y
      BY <1>1, <2>1, MinIsLeast
    <2>3. m \in 0..n /\ m \notin Q /\ m # 0
      BY <2>2
    <2>4. m - 1 \in 0..(n - 1) /\ ~(m <= m - 1)
      BY <2>3
    <2>5. m - 1 \in Q
      BY <2>2, <2>4
    <2>6. (m - 1) + 1 \in Q
      BY <2>4, <2>5
    <2> QED
      BY <2>3, <2>6
  <1> QED
    BY <1>1

-----------------------------------------------------------------------------
(* Orders *)

\* The pairs of R order the elements of S.
StrictOrder(R, S) ==
    /\ \A x \in S : <<x, x>> \notin R
    /\ \A x, y, z \in S : <<x, y>> \in R /\ <<y, z>> \in R => <<x, z>> \in R
    /\ \A x, y \in S : x = y \/ <<x, y>> \in R \/ <<y, x>> \in R

Below(R, S, x) == {y \in S : <<y, x>> \in R}

\* How many elements are before x.
Rank(R, S, x) == Cardinality(Below(R, S, x))

\* The ranks of a finite set are its places, each of one element.
LEMMA RankIsPlace ==
    ASSUME NEW S, IsFiniteSet(S), NEW R, StrictOrder(R, S)
    PROVE  /\ Cardinality(S) \in Nat
           /\ \A x \in S : Rank(R, S, x) \in 0..(Cardinality(S) - 1)
           /\ \A x, y \in S : <<x, y>> \in R <=> Rank(R, S, x) < Rank(R, S, y)
           /\ \A x, y \in S : Rank(R, S, x) = Rank(R, S, y) => x = y
           /\ \A p \in 1..Cardinality(S) : \E x \in S : Rank(R, S, x) = p - 1
  <1> DEFINE r(x) == Rank(R, S, x)
             n == Cardinality(S)
  <1>1. n \in Nat
    BY FS_CardinalityType
  <1>2. \A x \in S : Below(R, S, x) \subseteq S \ {x} /\ IsFiniteSet(Below(R, S, x)) /\ r(x) \in Nat
    <2> SUFFICES ASSUME NEW x \in S
                 PROVE  Below(R, S, x) \subseteq S \ {x} /\ IsFiniteSet(Below(R, S, x)) /\ r(x) \in Nat
      OBVIOUS
    <2>1. Below(R, S, x) \subseteq S \ {x}
      BY DEF Below, StrictOrder
    <2>2. IsFiniteSet(Below(R, S, x))
      <3>1. Below(R, S, x) \in SUBSET S
        BY <2>1
      <3> QED
        BY ONLY <3>1, IsFiniteSet(S), FS_Subset
    <2>3. Cardinality(Below(R, S, x)) \in Nat
      BY ONLY <2>2, FS_CardinalityType
    <2> QED
      BY <2>1, <2>2, <2>3 DEF Rank
  <1>3. \A x \in S : r(x) \in 0..(n - 1)
    <2> SUFFICES ASSUME NEW x \in S PROVE r(x) \in 0..(n - 1)
      OBVIOUS
    <2>1. IsFiniteSet(S \ {x}) /\ Cardinality(S \ {x}) = n - 1
      BY FS_RemoveElement
    <2>2. Below(R, S, x) \in SUBSET (S \ {x})
      BY <1>2
    <2>3. Cardinality(Below(R, S, x)) <= Cardinality(S \ {x})
      BY ONLY <2>1, <2>2, FS_Subset
    <2> QED
      BY <1>1, <1>2, <2>1, <2>3 DEF Rank
  <1>4. \A x, y \in S : <<x, y>> \in R => r(x) < r(y)
    <2> SUFFICES ASSUME NEW x \in S, NEW y \in S, <<x, y>> \in R PROVE r(x) < r(y)
      OBVIOUS
    <2> DEFINE U == Below(R, S, x)
    <2>1. x \notin U /\ U \cup {x} \subseteq Below(R, S, y)
      BY DEF Below, StrictOrder
    <2>2. IsFiniteSet(U) /\ IsFiniteSet(Below(R, S, y)) /\ r(x) \in Nat /\ r(y) \in Nat
      BY <1>2
    <2>3. Cardinality(U) = r(x) /\ Cardinality(Below(R, S, y)) = r(y)
      BY DEF Rank
    <2> HIDE DEF U
    <2>4. Cardinality(U \cup {x}) = Cardinality(U) + 1
      BY <2>1, <2>2, FS_AddElement
    <2>5. U \cup {x} \in SUBSET Below(R, S, y)
      BY <2>1
    <2>6. Cardinality(U \cup {x}) <= Cardinality(Below(R, S, y))
      BY ONLY <2>2, <2>5, FS_Subset
    <2> QED
      BY <2>2, <2>3, <2>4, <2>6
  <1>5. \A x, y \in S : r(x) < r(y) => <<x, y>> \in R
    <2> SUFFICES ASSUME NEW x \in S, NEW y \in S, r(x) < r(y), <<x, y>> \notin R PROVE FALSE
      OBVIOUS
    <2>1. r(x) \in Nat /\ r(y) \in Nat
      BY <1>2
    <2>2. CASE x = y
      BY <2>1, <2>2
    <2>3. CASE <<y, x>> \in R
      <3>1. r(y) < r(x)
        BY <1>4, <2>3
      <3> HIDE DEF r
      <3> QED
        BY <2>1, <3>1
    <2> QED
      BY <2>2, <2>3 DEF StrictOrder
  <1>6. \A x, y \in S : r(x) = r(y) => x = y
    <2> SUFFICES ASSUME NEW x \in S, NEW y \in S, r(x) = r(y), x # y PROVE FALSE
      OBVIOUS
    <2>1. r(x) \in Nat /\ r(y) \in Nat
      BY <1>2
    <2>2. r(x) < r(y) \/ r(y) < r(x)
      BY <1>4 DEF StrictOrder
    <2> HIDE DEF r
    <2> QED
      BY <2>1, <2>2
  <1>7. \A p \in 1..n : \E x \in S : r(x) = p - 1
    <2> DEFINE f == [x \in S |-> r(x)]
               T == 0..(n - 1)
    <2>1. IsFiniteSet(T) /\ Cardinality(T) = n
      BY <1>1, FS_Interval
    <2> HIDE DEF r
    <2>2. f \in [S -> T] /\ \A x, y \in S : f[x] = f[y] => x = y
      BY <1>3, <1>6
    <2>a. \A x \in S : f[x] = r(x)
      OBVIOUS
    <2> HIDE DEF f
    <2>3. f \in Injection(S, T)
      BY <2>2 DEF Injection, IsInjective
    <2>4. f \in Surjection(S, T)
      BY ONLY <2>1, <2>3, FS_Injection, n = Cardinality(S)
    <2>5. \A p \in 1..n : p - 1 \in T
      BY <1>1
    <2>6. \A t \in T : \E x \in S : f[x] = t
      BY <2>4 DEF Surjection
    <2> QED
      BY <2>a, <2>5, <2>6
  <1> QED
    BY <1>1, <1>3, <1>4, <1>5, <1>6, <1>7

\* A sequence whose elements are at their ranks holds each once, in order.
LEMMA RankedSequence ==
    ASSUME NEW S, IsFiniteSet(S), NEW R, StrictOrder(R, S), NEW s,
           \A p \in 1..Cardinality(S) : s[p] \in S /\ Rank(R, S, s[p]) = p - 1
    PROVE  /\ Cardinality(S) \in Nat
           /\ \A x \in S : \E i \in 1..Cardinality(S) : s[i] = x
           /\ \A i, j \in 1..Cardinality(S) : i < j <=> <<s[i], s[j]>> \in R
           /\ \A i, j \in 1..Cardinality(S) : s[i] = s[j] => i = j
  <1> DEFINE n == Cardinality(S)
             r(x) == Rank(R, S, x)
  <1>1. /\ n \in Nat
        /\ \A x \in S : r(x) \in 0..(n - 1)
        /\ \A x, y \in S : <<x, y>> \in R <=> r(x) < r(y)
        /\ \A x, y \in S : r(x) = r(y) => x = y
    BY RankIsPlace
  <1>2. \A p \in 1..n : s[p] \in S /\ r(s[p]) = p - 1
    OBVIOUS
  <1> HIDE DEF n, r
  <1>3. \A x \in S : \E i \in 1..n : s[i] = x
    <2> SUFFICES ASSUME NEW x \in S PROVE \E i \in 1..n : s[i] = x
      OBVIOUS
    <2>1. r(x) \in 0..(n - 1)
      BY <1>1
    <2>2. PICK i \in 1..n : i = r(x) + 1
      BY <1>1, <2>1
    <2>3. s[i] \in S /\ r(s[i]) = r(x)
      BY <1>2, <2>1, <2>2
    <2> QED
      BY <1>1, <2>3
  <1>4. \A i, j \in 1..n : i < j <=> <<s[i], s[j]>> \in R
    BY <1>1, <1>2
  <1>5. \A i, j \in 1..n : s[i] = s[j] => i = j
    BY <1>2
  <1> QED
    BY <1>1, <1>3, <1>4, <1>5 DEF n

\* Where the elements of B come before all others, the first places are theirs,
\* as many as there are.
LEMMA FirstPlaces ==
    ASSUME NEW n \in Nat, NEW s, NEW B, IsFiniteSet(B),
           \A b \in B : \E i \in 1..n : s[i] = b,
           \A i, j \in 1..n : s[i] \in B /\ s[j] \notin B => i < j
    PROVE  \A i \in 1..n : i <= Cardinality(B) => s[i] \in B
  <1> SUFFICES ASSUME NEW k \in 1..n, k <= Cardinality(B), s[k] \notin B PROVE FALSE
    OBVIOUS
  <1> DEFINE f == [b \in B |-> CHOOSE i \in 1..n : s[i] = b]
             T == 1..(k - 1)
  <1>1. \A b \in B : f[b] \in 1..n /\ s[f[b]] = b
    <2> SUFFICES ASSUME NEW b \in B PROVE f[b] \in 1..n /\ s[f[b]] = b
      OBVIOUS
    <2>1. \E i \in 1..n : s[i] = b
      OBVIOUS
    <2>2. f[b] = CHOOSE i \in 1..n : s[i] = b
      OBVIOUS
    <2> HIDE DEF f
    <2> QED
      BY <2>1, <2>2
  <1>2. Cardinality(B) \in Nat /\ IsFiniteSet(T) /\ Cardinality(T) = k - 1
    <2>1. k - 1 \in Nat /\ k - 1 \in Int /\ 1 \in Int
      OBVIOUS
    <2>2. IsFiniteSet(T) /\ Cardinality(T) = IF 1 > k - 1 THEN 0 ELSE (k - 1) - 1 + 1
      BY ONLY <2>1, FS_Interval
    <2>3. Cardinality(B) \in Nat
      BY FS_CardinalityType
    <2> QED
      BY <2>1, <2>2, <2>3
  <1>a. f = [b \in B |-> f[b]]
    OBVIOUS
  <1> HIDE DEF f
  <1>3. \A b \in B : f[b] \in T
    <2> SUFFICES ASSUME NEW b \in B PROVE f[b] \in T
      OBVIOUS
    <2>1. f[b] \in 1..n /\ f[b] < k
      BY <1>1
    <2> QED
      BY <2>1
  <1>4. f \in Injection(B, T)
    <2>1. f \in [B -> T]
      BY <1>a, <1>3
    <2>2. \A x, y \in B : f[x] = f[y] => x = y
      BY <1>1
    <2> QED
      BY <2>1, <2>2 DEF Injection, IsInjective
  <1>5. Cardinality(B) <= Cardinality(T)
    BY ONLY <1>2, <1>4, FS_Injection
  <1> QED
    BY <1>2, <1>5
=============================================================================

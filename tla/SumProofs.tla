----------------------------- MODULE SumProofs -----------------------------
(* The components whose properties are about sums, for every value of their    *)
(* constants: first what SumFunctionOnSet of the community modules sums to;    *)
(* then the operations that GraphQLRateLimit lets through; then the invoices   *)
(* and reports of Billing.  The two modules share no name, and nothing that    *)
(* is said of one rests on the other.                                          *)
EXTENDS Billing, GraphQLRateLimit, FiniteSetTheorems, TLAPS

(***************************************************************************)
(* Sums                                                                    *)
(* The fold's order does not matter, parts add up, and larger parts have   *)
(* larger sums.                                                            *)
(***************************************************************************)
\* The element that the fold takes next.
TakenFirst(s) == CHOOSE x \in s : TRUE

\* g is the function that the fold of F over S iterates.
IsFold(g, F, S) ==
    g = [s \in SUBSET S |-> IF s = {} THEN 0 ELSE F[TakenFirst(s)] + g[s \ {TakenFirst(s)}]]

---------------------------------------------------------------------------
\* Induction over the subsets of a finite set, with a set for the predicate.
LEMMA SubsetInduction ==
    ASSUME NEW S, IsFiniteSet(S), NEW Good,
           \A T \in SUBSET S : (\A U \in SUBSET T : U # T => U \in Good) => T \in Good
    PROVE  \A T \in SUBSET S : T \in Good
<1> DEFINE Bad == {T \in SUBSET S : T \notin Good}
<1>1. SUFFICES ASSUME Bad # {} PROVE FALSE
  OBVIOUS
<1>2. Bad \subseteq FiniteSubsetsOf(S)
  BY FS_Subset DEF FiniteSubsetsOf
<1>3. PICK T \in Bad : \A U \in Bad : <<U, T>> \notin StrictSubsetOrdering(S)
  <2> HIDE DEF Bad
  <2> QED
    BY <1>1, <1>2, FS_StrictSubsetOrderingWellFounded, WFMin
<1>4. \A U \in SUBSET T : U # T => U \in Good
  BY <1>3, FS_Subset DEF StrictSubsetOrdering
<1> QED
  BY <1>3, <1>4

\* Two folds agree where both are defined.
LEMMA FoldsAgree ==
    ASSUME NEW F, NEW S, NEW T, IsFiniteSet(S), S \subseteq T,
           NEW g, IsFold(g, F, S), NEW h, IsFold(h, F, T)
    PROVE  g[S] = h[S]
<1> DEFINE Good == {s \in SUBSET S : g[s] = h[s]}
<1>1. ASSUME NEW s \in SUBSET S, \A u \in SUBSET s : u # s => u \in Good
      PROVE  g[s] = h[s]
  <2>1. /\ g[s] = IF s = {} THEN 0 ELSE F[TakenFirst(s)] + g[s \ {TakenFirst(s)}]
        /\ h[s] = IF s = {} THEN 0 ELSE F[TakenFirst(s)] + h[s \ {TakenFirst(s)}]
    BY DEF IsFold
  <2>2. s # {} => TakenFirst(s) \in s
    BY DEF TakenFirst
  <2>3. s # {} => g[s \ {TakenFirst(s)}] = h[s \ {TakenFirst(s)}]
    BY <1>1, <2>2
  <2> QED
    BY <2>1, <2>3
<1>2. \A s \in SUBSET S : s \in Good
  <2>1. \A s \in SUBSET S : (\A u \in SUBSET s : u # s => u \in Good) => s \in Good
    BY <1>1
  <2> HIDE DEF Good
  <2> QED
    BY <2>1, SubsetInduction
<1> QED
  BY <1>2

\* There is a fold.
LEMMA FoldExists ==
    ASSUME NEW F, NEW S, IsFiniteSet(S)
    PROVE  \E g : IsFold(g, F, S)
<1> DEFINE Good == {T \in SUBSET S : \E g : IsFold(g, F, T)}
           Of(T) == CHOOSE g : IsFold(g, F, T)
<1>1. ASSUME NEW T \in SUBSET S, \A U \in SUBSET T : U # T => U \in Good
      PROVE  T \in Good
  <2> DEFINE prior == [U \in SUBSET T |-> Of(U)[U]]
             g == [s \in SUBSET T |->
                      IF s = {} THEN 0 ELSE F[TakenFirst(s)] + prior[s \ {TakenFirst(s)}]]
  <2>1. ASSUME NEW U \in SUBSET T, U # T
        PROVE  IsFold(Of(U), F, U)
    BY <1>1, <2>1
  <2>2. ASSUME NEW s \in SUBSET T, s # T
        PROVE  prior[s] = IF s = {} THEN 0 ELSE F[TakenFirst(s)] + prior[s \ {TakenFirst(s)}]
    <3> HIDE DEF Of
    <3>1. IsFold(Of(s), F, s)
      BY <2>1, <2>2
    <3>2. Of(s)[s] = IF s = {} THEN 0 ELSE F[TakenFirst(s)] + Of(s)[s \ {TakenFirst(s)}]
      BY <3>1 DEF IsFold
    <3>3. CASE s = {}
      BY <3>2, <3>3
    <3>4. CASE s # {}
      <4> DEFINE u == s \ {TakenFirst(s)}
      <4>1. TakenFirst(s) \in s
        BY <3>4 DEF TakenFirst
      <4>2. u \in SUBSET T /\ u # T /\ u \subseteq s /\ IsFiniteSet(u)
        BY <4>1, FS_Subset
      <4>3. IsFold(Of(u), F, u)
        BY <2>1, <4>2
      <4> HIDE DEF u
      <4>4. Of(u)[u] = Of(s)[u]
        BY <3>1, <4>2, <4>3, FoldsAgree
      <4> QED
        BY <3>2, <3>4, <4>2, <4>4 DEF u
    <3> QED
      BY <3>3, <3>4
  <2>3. ASSUME NEW s \in SUBSET T, s # T
        PROVE  g[s] = prior[s]
    <3> HIDE DEF prior
    <3> QED
      BY <2>2, <2>3
  <2>4. ASSUME NEW s \in SUBSET T, s # {}
        PROVE  g[s \ {TakenFirst(s)}] = prior[s \ {TakenFirst(s)}]
    <3>1. s \ {TakenFirst(s)} \in SUBSET T /\ s \ {TakenFirst(s)} # T
      BY <2>4 DEF TakenFirst
    <3> HIDE DEF prior, g
    <3> QED
      BY <2>3, <3>1
  <2>5. IsFold(g, F, T)
    <3> DEFINE h == [s \in SUBSET T |-> IF s = {} THEN 0 ELSE F[TakenFirst(s)] + g[s \ {TakenFirst(s)}]]
    <3>1. \A s \in SUBSET T : g[s] = h[s]
      <4> HIDE DEF prior
      <4> QED
        BY <2>4
    <3>2. g = h
      <4> HIDE DEF prior
      <4> QED
        BY <3>1
    <3> QED
      BY <3>2 DEF IsFold
  <2> QED
    BY <2>5
<1>2. \A T \in SUBSET S : T \in Good
  <2> HIDE DEF Good
  <2> QED
    BY <1>1, SubsetInduction
<1> QED
  BY <1>2

---------------------------------------------------------------------------
LEMMA SumIsFold ==
    ASSUME NEW F, NEW S, IsFiniteSet(S)
    PROVE  \E g : IsFold(g, F, S) /\ SumFunctionOnSet(F, S) = g[S]
<1>1. SumFunctionOnSet(F, S) = (CHOOSE g : IsFold(g, F, S))[S]
  BY DEF SumFunctionOnSet, FoldFunctionOnSet, MapThenFoldSet, IsFold, TakenFirst
<1> QED
  BY <1>1, FoldExists

LEMMA SumEmpty == ASSUME NEW F PROVE SumFunctionOnSet(F, {}) = 0
<1>1. PICK g : IsFold(g, F, {}) /\ SumFunctionOnSet(F, {}) = g[{}]
  BY SumIsFold, FS_EmptySet
<1> QED
  BY <1>1 DEF IsFold

LEMMA SumTaken ==
    ASSUME NEW F, NEW S, IsFiniteSet(S), S # {}
    PROVE  SumFunctionOnSet(F, S) =
               F[TakenFirst(S)] + SumFunctionOnSet(F, S \ {TakenFirst(S)})
<1> DEFINE R == S \ {TakenFirst(S)}
<1>1. PICK g : IsFold(g, F, S) /\ SumFunctionOnSet(F, S) = g[S]
  BY SumIsFold
<1>2. g[S] = F[TakenFirst(S)] + g[R]
  BY <1>1 DEF IsFold
<1>3. IsFiniteSet(R) /\ R \in SUBSET S
  BY FS_Subset
<1> HIDE DEF R
<1>4. PICK h : IsFold(h, F, R) /\ SumFunctionOnSet(F, R) = h[R]
  BY <1>3, SumIsFold
<1>5. h[R] = g[R]
  <2>1. IsFold(g, F, S) /\ IsFold(h, F, R) /\ R \subseteq S /\ IsFiniteSet(R)
    BY <1>1, <1>3, <1>4
  <2> QED
    BY <2>1, FoldsAgree
<1> QED
  BY <1>1, <1>2, <1>4, <1>5 DEF R

\* Any element may be taken first.
LEMMA SumRemove ==
    ASSUME NEW S, IsFiniteSet(S), NEW F, \A x \in S : F[x] \in Int
    PROVE  /\ SumFunctionOnSet(F, S) \in Int
           /\ \A x \in S : SumFunctionOnSet(F, S) = F[x] + SumFunctionOnSet(F, S \ {x})
<1> DEFINE Splits(T) ==
              /\ SumFunctionOnSet(F, T) \in Int
              /\ \A x \in T : SumFunctionOnSet(F, T) = F[x] + SumFunctionOnSet(F, T \ {x})
           Good == {T \in SUBSET S : Splits(T)}
<1>1. ASSUME NEW T \in SUBSET S, \A U \in SUBSET T : U # T => U \in Good
      PROVE  Splits(T)
  <2>1. CASE T = {}
    BY <2>1, SumEmpty
  <2>2. CASE T # {}
    <3> DEFINE t == TakenFirst(T)
               total(U) == SumFunctionOnSet(F, U)
    <3>1. t \in T
      BY <2>2 DEF TakenFirst
    <3>2. total(T) = F[t] + total(T \ {t})
      BY <2>2, SumTaken, FS_Subset
    <3>3. \A U \in SUBSET T : U # T =>
              total(U) \in Int /\ \A x \in U : total(U) = F[x] + total(U \ {x})
      BY <1>1
    <3>4. F[t] \in Int /\ total(T \ {t}) \in Int
      BY <3>1, <3>3
    <3> HIDE DEF t, total
    <3>5. ASSUME NEW x \in T, x # t
          PROVE  total(T) = F[x] + total(T \ {x})
      <4>1. total(T \ {t}) = F[x] + total((T \ {t}) \ {x})
        BY <3>1, <3>3, <3>5
      <4>2. total(T \ {x}) = F[t] + total((T \ {x}) \ {t})
        BY <3>1, <3>3, <3>5
      <4>3. (T \ {t}) \ {x} = (T \ {x}) \ {t}
        OBVIOUS
      <4>4. total((T \ {t}) \ {x}) \in Int /\ F[x] \in Int
        BY <3>1, <3>3, <3>5
      <4> QED
        <5>1. total(T \ {x}) = F[t] + total((T \ {t}) \ {x})
          BY <4>2, <4>3
        <5> QED
          BY <3>2, <3>4, <4>1, <4>4, <5>1
    <3>6. total(T) \in Int
      BY <3>2, <3>4
    <3> QED
      BY <3>2, <3>5, <3>6 DEF total
  <2> QED
    BY <2>1, <2>2
<1>2. \A T \in SUBSET S : T \in Good
  <2> HIDE DEF Splits
  <2>1. \A T \in SUBSET S : (\A U \in SUBSET T : U # T => U \in Good) => T \in Good
    BY <1>1
  <2> HIDE DEF Good
  <2> QED
    BY <2>1, SubsetInduction
<1>3. Splits(S)
  <2> HIDE DEF Splits
  <2> QED
    BY <1>2
<1> QED
  BY <1>3

\* What two functions have in common on every element that is taken they have in
\* common on the whole: the pointwise relations below are all shown in this way.
LEMMA SumNat ==
    ASSUME NEW S, IsFiniteSet(S), NEW F, \A x \in S : F[x] \in Nat
    PROVE  SumFunctionOnSet(F, S) \in Nat
<1> DEFINE Good == {T \in SUBSET S : SumFunctionOnSet(F, T) \in Nat}
<1>1. ASSUME NEW T \in SUBSET S, \A U \in SUBSET T : U # T => U \in Good
      PROVE  SumFunctionOnSet(F, T) \in Nat
  <2>1. CASE T = {}
    BY <2>1, SumEmpty
  <2>2. ASSUME NEW x \in T PROVE SumFunctionOnSet(F, T) \in Nat
    <3>1. SumFunctionOnSet(F, T) = F[x] + SumFunctionOnSet(F, T \ {x})
      BY FS_Subset, SumRemove
    <3>2. T \ {x} \in SUBSET T /\ T \ {x} # T
      OBVIOUS
    <3> QED
      BY <1>1, <3>1, <3>2
  <2> QED
    BY <2>1, <2>2
<1>2. \A T \in SUBSET S : T \in Good
  <2>1. \A T \in SUBSET S : (\A U \in SUBSET T : U # T => U \in Good) => T \in Good
    BY <1>1
  <2> HIDE DEF Good
  <2> QED
    BY <2>1, SubsetInduction
<1> QED
  BY <1>2

\* Sums of neighbours: if two functions differ by at most c on each element, their
\* sums differ by at most c times the number of elements.
LEMMA SumNear ==
    ASSUME NEW S, IsFiniteSet(S), NEW c \in Nat,
           NEW F, NEW G, \A x \in S : /\ F[x] \in Int /\ G[x] \in Int
                                      /\ F[x] - G[x] <= c /\ G[x] - F[x] <= c
    PROVE  /\ SumFunctionOnSet(F, S) - SumFunctionOnSet(G, S) <= c * Cardinality(S)
           /\ SumFunctionOnSet(G, S) - SumFunctionOnSet(F, S) <= c * Cardinality(S)
<1> DEFINE Near(T) ==
              /\ SumFunctionOnSet(F, T) - SumFunctionOnSet(G, T) <= c * Cardinality(T)
              /\ SumFunctionOnSet(G, T) - SumFunctionOnSet(F, T) <= c * Cardinality(T)
           Good == {T \in SUBSET S : Near(T)}
<1>1. ASSUME NEW T \in SUBSET S, \A U \in SUBSET T : U # T => U \in Good
      PROVE  Near(T)
  <2>1. CASE T = {}
    BY <2>1, SumEmpty, FS_EmptySet
  <2>2. ASSUME NEW x \in T PROVE Near(T)
    <3> DEFINE R == T \ {x}
    <3>1. /\ SumFunctionOnSet(F, T) = F[x] + SumFunctionOnSet(F, R)
          /\ SumFunctionOnSet(G, T) = G[x] + SumFunctionOnSet(G, R)
          /\ SumFunctionOnSet(F, R) \in Int /\ SumFunctionOnSet(G, R) \in Int
      BY FS_Subset, SumRemove
    <3>2. Near(R)
      BY <1>1
    <3>3. /\ IsFiniteSet(T) /\ Cardinality(T) = Cardinality(R) + 1
          /\ Cardinality(R) \in Nat
      BY FS_Subset, FS_AddElement, FS_CardinalityType, R \cup {x} = T, x \notin R
    <3>4. c * Cardinality(T) = c * Cardinality(R) + c
      <4> HIDE DEF R
      <4> QED
        BY <3>3
    <3>5. c * Cardinality(R) \in Nat
      <4> HIDE DEF R
      <4> QED
        BY <3>3
    <3> HIDE DEF R
    <3>6. F[x] \in Int /\ G[x] \in Int /\ F[x] - G[x] <= c /\ G[x] - F[x] <= c
      OBVIOUS
    <3> QED
      BY <3>1, <3>2, <3>4, <3>5, <3>6
  <2> QED
    BY <2>1, <2>2
<1>2. \A T \in SUBSET S : T \in Good
  <2> HIDE DEF Near
  <2>1. \A T \in SUBSET S : (\A U \in SUBSET T : U # T => U \in Good) => T \in Good
    BY <1>1
  <2> HIDE DEF Good
  <2> QED
    BY <2>1, SubsetInduction
<1> QED
  BY <1>2

LEMMA SumSame ==
    ASSUME NEW S, IsFiniteSet(S), NEW F, NEW G,
           \A x \in S : F[x] \in Int /\ F[x] = G[x]
    PROVE  SumFunctionOnSet(F, S) = SumFunctionOnSet(G, S)
<1>1. /\ SumFunctionOnSet(F, S) - SumFunctionOnSet(G, S) <= 0 * Cardinality(S)
      /\ SumFunctionOnSet(G, S) - SumFunctionOnSet(F, S) <= 0 * Cardinality(S)
  BY SumNear
<1>2. SumFunctionOnSet(F, S) \in Int /\ SumFunctionOnSet(G, S) \in Int
  BY SumRemove
<1>3. Cardinality(S) \in Nat
  BY FS_CardinalityType
<1> QED
  BY <1>1, <1>2, <1>3

\* A factor of every element is a factor of the sum.
LEMMA SumScaled ==
    ASSUME NEW S, IsFiniteSet(S), NEW k \in Int,
           NEW F, NEW G, \A x \in S : F[x] \in Int /\ G[x] = k * F[x]
    PROVE  SumFunctionOnSet(G, S) = k * SumFunctionOnSet(F, S)
<1> DEFINE Good == {T \in SUBSET S : SumFunctionOnSet(G, T) = k * SumFunctionOnSet(F, T)}
<1>1. ASSUME NEW T \in SUBSET S, \A U \in SUBSET T : U # T => U \in Good
      PROVE  SumFunctionOnSet(G, T) = k * SumFunctionOnSet(F, T)
  <2>1. CASE T = {}
    BY <2>1, SumEmpty
  <2>2. ASSUME NEW x \in T
        PROVE  SumFunctionOnSet(G, T) = k * SumFunctionOnSet(F, T)
    <3> DEFINE R == T \ {x}
    <3>0. \A y \in T : F[y] \in Int /\ G[y] \in Int
      OBVIOUS
    <3>1. /\ SumFunctionOnSet(F, T) = F[x] + SumFunctionOnSet(F, R)
          /\ SumFunctionOnSet(G, T) = G[x] + SumFunctionOnSet(G, R)
          /\ SumFunctionOnSet(F, R) \in Int
      BY <3>0, FS_Subset, SumRemove
    <3>2. SumFunctionOnSet(G, R) = k * SumFunctionOnSet(F, R)
      BY <1>1
    <3> HIDE DEF R
    <3>3. ASSUME NEW a \in Int, NEW b \in Int PROVE k * (a + b) = k * a + k * b
      OBVIOUS
    <3> QED
      BY <3>0, <3>1, <3>2, <3>3
  <2> QED
    BY <2>1, <2>2
<1>2. \A T \in SUBSET S : T \in Good
  <2>1. \A T \in SUBSET S : (\A U \in SUBSET T : U # T => U \in Good) => T \in Good
    BY <1>1
  <2> HIDE DEF Good
  <2> QED
    BY <2>1, SubsetInduction
<1> QED
  BY <1>2

\* Parts without a common element add up.
LEMMA SumParts ==
    ASSUME NEW A, NEW B, IsFiniteSet(A), IsFiniteSet(B), A \cap B = {},
           NEW F, \A x \in A \cup B : F[x] \in Int
    PROVE  SumFunctionOnSet(F, A \cup B) = SumFunctionOnSet(F, A) + SumFunctionOnSet(F, B)
<1> DEFINE Adds(T) == SumFunctionOnSet(F, T \cup B) = SumFunctionOnSet(F, T) + SumFunctionOnSet(F, B)
           Good == {T \in SUBSET A : Adds(T)}
<1>1. ASSUME NEW T \in SUBSET A, \A U \in SUBSET T : U # T => U \in Good
      PROVE  Adds(T)
  <2>0. SumFunctionOnSet(F, B) \in Int
    BY SumRemove
  <2>1. CASE T = {}
    <3>1. T \cup B = B
      BY <2>1
    <3> QED
      BY <2>0, <2>1, <3>1, SumEmpty
  <2>2. ASSUME NEW x \in T PROVE Adds(T)
    <3> DEFINE R == T \ {x}
    <3>1. /\ IsFiniteSet(T) /\ IsFiniteSet(T \cup B)
      BY FS_Subset, FS_Union
    <3>2. (T \cup B) \ {x} = R \cup B
      OBVIOUS
    <3>3. SumFunctionOnSet(F, T \cup B) = F[x] + SumFunctionOnSet(F, R \cup B)
      <4>1. SumFunctionOnSet(F, T \cup B) = F[x] + SumFunctionOnSet(F, (T \cup B) \ {x})
        BY <3>1, SumRemove
      <4> QED
        BY <3>2, <4>1
    <3>4. SumFunctionOnSet(F, T) = F[x] + SumFunctionOnSet(F, R)
      BY <3>1, SumRemove
    <3>5. IsFiniteSet(R) /\ \A y \in R : F[y] \in Int
      BY <3>1, FS_Subset
    <3>6. Adds(R)
      BY <1>1
    <3> HIDE DEF R
    <3>7. SumFunctionOnSet(F, R) \in Int /\ F[x] \in Int
      BY <3>5, SumRemove
    <3>8. SumFunctionOnSet(F, R \cup B) = SumFunctionOnSet(F, R) + SumFunctionOnSet(F, B)
      BY <3>6
    <3> QED
      BY <2>0, <3>3, <3>4, <3>7, <3>8
  <2> QED
    BY <2>1, <2>2
<1>2. \A T \in SUBSET A : T \in Good
  <2> HIDE DEF Adds
  <2>1. \A T \in SUBSET A : (\A U \in SUBSET T : U # T => U \in Good) => T \in Good
    BY <1>1
  <2> HIDE DEF Good
  <2> QED
    BY <2>1, SubsetInduction
<1> QED
  BY <1>2

\* More elements, a larger sum.
LEMMA SumMonotone ==
    ASSUME NEW A, NEW B, IsFiniteSet(B), A \subseteq B,
           NEW F, \A x \in B : F[x] \in Nat
    PROVE  SumFunctionOnSet(F, A) <= SumFunctionOnSet(F, B)
<1>1. IsFiniteSet(A) /\ IsFiniteSet(B \ A) /\ A \cup (B \ A) = B /\ A \cap (B \ A) = {}
  BY FS_Subset
<1>2. SumFunctionOnSet(F, B) = SumFunctionOnSet(F, A) + SumFunctionOnSet(F, B \ A)
  BY <1>1, SumParts
<1>3. SumFunctionOnSet(F, A) \in Nat /\ SumFunctionOnSet(F, B \ A) \in Nat
  BY <1>1, SumNat
<1> QED
  BY <1>2, <1>3

LEMMA SumZero ==
    ASSUME NEW S, IsFiniteSet(S), NEW F, \A x \in S : F[x] = 0
    PROVE  SumFunctionOnSet(F, S) = 0
<1> DEFINE k == 0
<1>1. k \in Int /\ \A x \in S : F[x] \in Int /\ F[x] = k * F[x]
  OBVIOUS
<1>2. SumFunctionOnSet(F, S) \in Int
  BY <1>1, SumRemove
<1> HIDE DEF k
<1>3. SumFunctionOnSet(F, S) = k * SumFunctionOnSet(F, S)
  BY <1>1, SumScaled
<1> QED
  BY <1>2, <1>3 DEF k

\* One more at one place is one more in every sum that has the place.
LEMMA SumIncrement ==
    ASSUME NEW S, IsFiniteSet(S), NEW F, NEW G, NEW p,
           \A x \in S : F[x] \in Int /\ G[x] = IF x = p THEN F[x] + 1 ELSE F[x]
    PROVE  SumFunctionOnSet(G, S) = SumFunctionOnSet(F, S) + (IF p \in S THEN 1 ELSE 0)
<1>0. \A x \in S : F[x] \in Int /\ G[x] \in Int
  OBVIOUS
<1>1. SumFunctionOnSet(F, S) \in Int
  BY <1>0, SumRemove
<1>2. CASE p \notin S
  <2>1. \A x \in S : F[x] \in Int /\ F[x] = G[x]
    BY <1>2
  <2>2. SumFunctionOnSet(F, S) = SumFunctionOnSet(G, S)
    BY <2>1, SumSame
  <2> QED
    BY <1>1, <1>2, <2>2
<1>3. CASE p \in S
  <2> DEFINE R == S \ {p}
  <2>1. IsFiniteSet(R) /\ \A x \in R : F[x] \in Int /\ F[x] = G[x]
    BY FS_Subset
  <2>2. SumFunctionOnSet(F, S) = F[p] + SumFunctionOnSet(F, R)
    BY <1>0, <1>3, SumRemove
  <2>3. SumFunctionOnSet(G, S) = G[p] + SumFunctionOnSet(G, R)
    BY <1>0, <1>3, SumRemove
  <2> HIDE DEF R
  <2>4. SumFunctionOnSet(F, R) = SumFunctionOnSet(G, R) /\ SumFunctionOnSet(F, R) \in Int
    BY <2>1, SumSame, SumRemove
  <2> QED
    BY <1>0, <1>3, <2>2, <2>3, <2>4
<1> QED
  BY <1>2, <1>3

\* What two parts cover sums to no more than the parts.
LEMMA SumCovered ==
    ASSUME NEW A, NEW B, NEW C, IsFiniteSet(A), IsFiniteSet(B), C \subseteq A \cup B,
           NEW F, \A x \in A \cup B : F[x] \in Nat
    PROVE  SumFunctionOnSet(F, C) <= SumFunctionOnSet(F, A) + SumFunctionOnSet(F, B)
<1> DEFINE P == C \cap A
           Q == C \ A
<1>1. /\ IsFiniteSet(P) /\ IsFiniteSet(Q) /\ P \cup Q = C /\ P \cap Q = {}
      /\ P \subseteq A /\ Q \subseteq B
      /\ \A x \in P \cup Q : F[x] \in Int
      /\ \A x \in A : F[x] \in Nat
      /\ \A x \in B : F[x] \in Nat
  BY FS_Subset
<1> HIDE DEF P, Q
<1>2. SumFunctionOnSet(F, C) = SumFunctionOnSet(F, P) + SumFunctionOnSet(F, Q)
  BY <1>1, SumParts
<1>3. SumFunctionOnSet(F, P) <= SumFunctionOnSet(F, A)
  BY <1>1, SumMonotone
<1>4. SumFunctionOnSet(F, Q) <= SumFunctionOnSet(F, B)
  BY <1>1, SumMonotone
<1>5. /\ SumFunctionOnSet(F, A) \in Nat /\ SumFunctionOnSet(F, B) \in Nat
  BY <1>1, SumNat
<1>6. /\ SumFunctionOnSet(F, P) \in Int /\ SumFunctionOnSet(F, Q) \in Int
  BY <1>1, SumRemove
<1> QED
  BY <1>2, <1>3, <1>4, <1>5, <1>6

(***************************************************************************)
(* Operations per client                                                   *)
(* The types, the bound at one instant, and what windows add up to.        *)
(***************************************************************************)
\* No instant, however the windows, the refusals and the cleanup meet in it,
\* lets more than the limit of one client through.
InstantBounded == \A c \in Client, t \in 0..MaxClock : served[c][t] <= MaxRequests

\* Nothing is served in the future; what was served at this instant is counted
\* by an entry whose window is still open.
WindowCounted ==
    \A c \in Client :
        /\ \A t \in 0..MaxClock : t > clock => served[c][t] = 0
        /\ served[c][clock] > 0 =>
               served[c][clock] <= storage[c].count /\ clock <= storage[c].resetTime

LimitInv == LimitTypeOK /\ InstantBounded /\ WindowCounted

LEMMA RateLimitConstants ==
    /\ WindowMs \in Nat \ {0} /\ MaxRequests \in Nat \ {0}
    /\ MaxClock \in Nat /\ StartMs \in 0..MaxClock
BY RateLimitAssumption

LEMMA LimitInitInv == LimitInit => LimitInv
BY RateLimitConstants DEF LimitInit, LimitInv, LimitTypeOK, InstantBounded, WindowCounted, RateLimitEntry, NoEntry

\* A window ends later, and past the end of the clock when its length is a text.
LEMMA WindowEnds ==
    ASSUME LimitTypeOK
    PROVE  /\ WindowEnd \in Nat /\ clock <= WindowEnd
           /\ configured => MaxClock < WindowEnd
           /\ ~configured => WindowEnd = clock + WindowMs
<1>1. /\ clock \in Nat /\ StartMs \in Nat /\ StartMs <= clock /\ clock <= MaxClock
      /\ Shift \in Nat /\ WindowMs \in Nat /\ MaxClock \in Nat
      /\ MaxClock < StartMs * Shift
  BY RateLimitAssumption DEF LimitTypeOK
<1>2. /\ clock * Shift \in Nat /\ StartMs * Shift \in Nat
      /\ StartMs * Shift <= clock * Shift
  <2>1. ASSUME NEW a \in Nat, NEW d \in Nat, NEW k \in Nat
        PROVE  (a + d) * k = a * k + d * k /\ a * k \in Nat /\ d * k \in Nat
    OBVIOUS
  <2>2. clock - StartMs \in Nat /\ StartMs + (clock - StartMs) = clock
    BY <1>1
  <2>3. /\ (StartMs + (clock - StartMs)) * Shift =
               StartMs * Shift + (clock - StartMs) * Shift
        /\ StartMs * Shift \in Nat /\ (clock - StartMs) * Shift \in Nat
    BY <1>1, <2>1, <2>2
  <2>4. clock * Shift = StartMs * Shift + (clock - StartMs) * Shift
    BY <2>2, <2>3
  <2> QED
    BY <2>3, <2>4
<1> QED
  BY <1>1, <1>2 DEF WindowEnd

\* The entry after an operation counts what was served before it at the instant.
LEMMA EntryAfterCounts ==
    ASSUME LimitInv, NEW c \in Client
    PROVE  /\ EntryAfter(c) \in RateLimitEntry
           /\ served[c][clock] + 1 <= EntryAfter(c).count
           /\ clock <= EntryAfter(c).resetTime
<1> USE RateLimitConstants DEF LimitInv, LimitTypeOK, WindowCounted, RateLimitEntry, Missing, Expired
<1>1. clock \in Nat /\ served[c][clock] \in Nat /\ storage[c] \in RateLimitEntry
  OBVIOUS
<1>2. CASE Missing(c) \/ Expired(c)
  <2>1. served[c][clock] = 0
    <3>1. /\ served[c][clock] > 0 => /\ served[c][clock] <= storage[c].count
                                    /\ clock <= storage[c].resetTime
          /\ storage[c].count \in Nat /\ storage[c].resetTime \in Nat
      BY <1>1
    <3>2. storage[c].count = 0 \/ clock > storage[c].resetTime
      BY <1>2
    <3> HIDE DEF LimitInv, LimitTypeOK, WindowCounted, RateLimitEntry, Missing, Expired
    <3> QED
      BY <1>1, <3>1, <3>2
  <2>2. EntryAfter(c) = [count |-> 1, resetTime |-> WindowEnd]
    <3> HIDE DEF LimitInv, LimitTypeOK, WindowCounted, RateLimitEntry, Missing, Expired
    <3> QED
      BY <1>2 DEF EntryAfter
  <2>3. WindowEnd \in Nat /\ clock <= WindowEnd
    BY WindowEnds
  <2> HIDE DEF Missing, Expired
  <2> QED
    BY <2>1, <2>2, <2>3
<1>3. CASE ~(Missing(c) \/ Expired(c))
  <2>1. EntryAfter(c) = [storage[c] EXCEPT !.count = @ + 1]
    BY <1>3 DEF EntryAfter
  <2>2. clock <= storage[c].resetTime
    BY <1>1, <1>3
  <2>3. EntryAfter(c) = [count |-> storage[c].count + 1, resetTime |-> storage[c].resetTime]
    BY <1>1, <2>1
  <2>4. served[c][clock] <= storage[c].count
    <3>1. served[c][clock] > 0 => served[c][clock] <= storage[c].count
      OBVIOUS
    <3>2. storage[c].count \in Nat
      BY <1>1
    <3> HIDE DEF LimitInv, LimitTypeOK, WindowCounted, RateLimitEntry
    <3> QED
      BY <1>1, <3>1, <3>2
  <2> QED
    BY <1>1, <2>2, <2>3, <2>4
<1> QED
  BY <1>2, <1>3

LEMMA OperationInv ==
    ASSUME LimitInv, NEW c \in Client, Operation(c)
    PROVE  LimitInv'
<1> USE RateLimitConstants
<1> DEFINE entry == EntryAfter(c)
<1>1. /\ entry \in RateLimitEntry
      /\ served[c][clock] + 1 <= entry.count
      /\ clock <= entry.resetTime
  BY EntryAfterCounts
<1>2. /\ storage' = [storage EXCEPT ![c] = entry]
      /\ clock' = clock /\ configured' = configured
  BY DEF Operation
<1> HIDE DEF entry
<1>3. /\ storage'[c] = entry
      /\ \A d \in Client \ {c} : storage'[d] = storage[d]
      /\ storage' \in [Client -> RateLimitEntry]
  BY <1>1, <1>2 DEF LimitInv, LimitTypeOK
<1>4. clock \in 0..MaxClock /\ clock \in Nat /\ served[c][clock] \in Nat
  BY DEF LimitInv, LimitTypeOK
<1>5. CASE /\ Allows(entry)
           /\ served' = [served EXCEPT ![c][clock] = @ + 1]
           /\ refused' = refused \ {c}
  <2>1. /\ \A d \in Client \ {c} : served'[d] = served[d]
        /\ \A t \in (0..MaxClock) \ {clock} : served'[c][t] = served[c][t]
        /\ served'[c][clock] = served[c][clock] + 1
        /\ served' \in [Client -> [0..MaxClock -> Nat]]
    BY <1>4, <1>5 DEF LimitInv, LimitTypeOK
  <2>2. served'[c][clock] <= MaxRequests /\ served'[c][clock] <= entry.count
    BY <1>1, <1>4, <1>5, <2>1 DEF Allows, RateLimitEntry
  <2>3. LimitTypeOK'
    BY <1>2, <1>3, <1>5, <2>1 DEF LimitInv, LimitTypeOK
  <2>4. InstantBounded'
    <3> SUFFICES ASSUME NEW d \in Client, NEW t \in 0..MaxClock
                 PROVE  served'[d][t] <= MaxRequests
      BY DEF InstantBounded
    <3>1. CASE d = c /\ t = clock
      BY <2>2, <3>1
    <3>2. CASE d # c \/ t # clock
      BY <2>1, <3>2 DEF LimitInv, InstantBounded
    <3> QED
      BY <3>1, <3>2
  <2>5. WindowCounted'
    <3> SUFFICES ASSUME NEW d \in Client
                 PROVE  /\ \A t \in 0..MaxClock : t > clock => served'[d][t] = 0
                        /\ served'[d][clock] > 0 =>
                               /\ served'[d][clock] <= storage'[d].count
                               /\ clock <= storage'[d].resetTime
      BY <1>2 DEF WindowCounted
    <3>1. CASE d = c
      <4>1. \A t \in 0..MaxClock : t > clock => t # clock
        BY <1>4
      <4> QED
        BY <1>1, <1>3, <2>1, <2>2, <3>1, <4>1 DEF LimitInv, WindowCounted
    <3>2. CASE d # c
      BY <1>3, <2>1, <3>2 DEF LimitInv, WindowCounted
    <3> QED
      BY <3>1, <3>2
  <2> QED
    BY <2>3, <2>4, <2>5 DEF LimitInv
<1>6. CASE served' = served /\ refused' = refused \cup {c}
  <2>1. LimitTypeOK'
    BY <1>2, <1>3, <1>6 DEF LimitInv, LimitTypeOK
  <2>2. InstantBounded'
    BY <1>6 DEF LimitInv, InstantBounded
  <2>3. WindowCounted'
    <3>1. served[c][clock] <= entry.count
      BY <1>1, <1>4 DEF RateLimitEntry
    <3> QED
      BY <1>1, <1>2, <1>3, <1>6, <3>1 DEF LimitInv, WindowCounted
  <2> QED
    BY <2>1, <2>2, <2>3 DEF LimitInv
<1> QED
  BY <1>5, <1>6 DEF Operation, entry

\* A dropped entry has nothing of this instant: its window is over.
LEMMA LimitCleanupInv == ASSUME LimitInv, LimitCleanup PROVE LimitInv'
<1> USE RateLimitConstants
<1>1. /\ storage' = [c \in Client |-> IF Expired(c) THEN NoEntry ELSE storage[c]]
      /\ UNCHANGED <<clock, configured, served, refused>>
  BY DEF LimitCleanup, Cleaned
<1>2. LimitTypeOK'
  BY <1>1 DEF LimitInv, LimitTypeOK, RateLimitEntry, NoEntry
<1>3. InstantBounded'
  BY <1>1 DEF LimitInv, InstantBounded
<1>4. WindowCounted'
  <2> SUFFICES ASSUME NEW c \in Client
               PROVE  served[c][clock] > 0 =>
                          /\ served[c][clock] <= storage'[c].count
                          /\ clock <= storage'[c].resetTime
    BY <1>1 DEF LimitInv, WindowCounted
  <2>1. clock \in Nat /\ served[c][clock] \in Nat /\ storage[c].resetTime \in Nat
    BY DEF LimitInv, LimitTypeOK, RateLimitEntry
  <2>2. served[c][clock] > 0 => ~Expired(c)
    BY <2>1 DEF LimitInv, WindowCounted, Expired
  <2> QED
    BY <1>1, <2>2 DEF LimitInv, WindowCounted
<1> QED
  BY <1>2, <1>3, <1>4 DEF LimitInv

LEMMA LimitTickInv == ASSUME LimitInv, LimitTick PROVE LimitInv'
<1> USE RateLimitConstants
<1>1. clock < MaxClock /\ clock' = clock + 1 /\ UNCHANGED <<storage, configured, served, refused>>
  BY DEF LimitTick
<1>2. clock' \in StartMs..MaxClock /\ clock' \in 0..MaxClock /\ clock' > clock /\ clock \in Nat
  BY <1>1 DEF LimitInv, LimitTypeOK
<1>3. \A c \in Client : \A t \in 0..MaxClock : t >= clock' => served[c][t] = 0
  BY <1>1, <1>2 DEF LimitInv, WindowCounted
<1>4. LimitTypeOK' /\ InstantBounded'
  BY <1>1, <1>2 DEF LimitInv, LimitTypeOK, InstantBounded
<1>5. WindowCounted'
  BY <1>1, <1>2, <1>3 DEF WindowCounted
<1> QED
  BY <1>4, <1>5 DEF LimitInv

\* The specification's types, and the bound at one instant.
THEOREM InstantSound == LimitSpec => [](LimitTypeOK /\ InstantBounded)
<1>1. ASSUME LimitInv, [LimitNext]_limitVars PROVE LimitInv'
  <2>1. ASSUME NEW c \in Client, Operation(c) PROVE LimitInv'
    BY <1>1, <2>1, OperationInv
  <2>2. CASE LimitCleanup
    BY <1>1, <2>2, LimitCleanupInv
  <2>3. CASE LimitTick
    BY <1>1, <2>3, LimitTickInv
  <2>4. CASE UNCHANGED limitVars
    BY <1>1, <2>4 DEF limitVars, LimitInv, LimitTypeOK, InstantBounded, WindowCounted
  <2> QED
    BY <1>1, <2>1, <2>2, <2>3, <2>4 DEF LimitNext
<1>2. LimitInv => LimitTypeOK /\ InstantBounded
  BY DEF LimitInv
<1> QED
  BY LimitInitInv, <1>1, <1>2, PTL DEF LimitSpec

---------------------------------------------------------------------------
\* What is served to a client at the instants in T.
Served(c, T) == SumFunctionOnSet(served[c], T)

\* From instant s on; and the length of a window before it.
From(s) == {t \in 0..MaxClock : s <= t}
Before(s) == {t \in 0..MaxClock : s - WindowMs <= t /\ t < s}

\* When the window of an entry was opened: a window whose length is a text is the only
\* one of its client, and counts from the beginning.
OpenedFor(entry) == IF configured THEN 0 ELSE entry.resetTime - WindowMs
Opened(c) == OpenedFor(storage[c])

\* The window of a client has served what it has counted, up to the limit, and in
\* a window's length before it no more than the limit was served.  Where there is
\* no window, the last one was over a window's length ago at the latest instant
\* that it served.  A window whose length is a text does not end.
WindowKept(c) ==
    /\ configured => IF Missing(c) THEN Served(c, From(0)) = 0
                                   ELSE MaxClock < storage[c].resetTime
    /\ ~Missing(c) =>
          /\ Opened(c) \in 0..clock
          /\ Served(c, From(Opened(c))) = IF storage[c].count <= MaxRequests
                                            THEN storage[c].count ELSE MaxRequests
          /\ Served(c, Before(Opened(c))) <= MaxRequests
    /\ Missing(c) => Served(c, From(clock - WindowMs)) <= MaxRequests

BurstInv == /\ LimitInv
            /\ \A c \in Client : WindowKept(c)
            /\ BurstBounded

LEMMA ServedType ==
    ASSUME LimitTypeOK, NEW c \in Client, NEW T \in SUBSET (0..MaxClock)
    PROVE  /\ IsFiniteSet(T)
           /\ \A t \in T : served[c][t] \in Nat /\ served[c][t] \in Int
           /\ Served(c, T) \in Nat
<1>1. IsFiniteSet(0..MaxClock)
  BY FS_Interval, RateLimitConstants
<1>2. IsFiniteSet(T)
  BY <1>1, FS_Subset
<1>3. \A t \in T : served[c][t] \in Nat /\ served[c][t] \in Int
  <2>1. served[c] \in [0..MaxClock -> Nat]
    BY DEF LimitTypeOK
  <2>2. \A t \in T : served[c][t] \in Nat
    BY <2>1
  <2> QED
    BY <2>2
<1> QED
  BY <1>2, <1>3, SumNat DEF Served

LEMMA ServedMonotone ==
    ASSUME LimitTypeOK, NEW c \in Client, NEW T \in SUBSET (0..MaxClock), NEW U \in SUBSET T
    PROVE  Served(c, U) <= Served(c, T)
BY ServedType, SumMonotone DEF Served

\* An operation is served now: one more wherever now is.
LEMMA ServedMore ==
    ASSUME LimitTypeOK, NEW c \in Client, served' = [served EXCEPT ![c][clock] = @ + 1],
           NEW d \in Client, NEW T \in SUBSET (0..MaxClock)
    PROVE  SumFunctionOnSet(served'[d], T) =
               Served(d, T) + (IF d = c /\ clock \in T THEN 1 ELSE 0)
<1>1. IsFiniteSet(T) /\ (\A t \in T : served[d][t] \in Int) /\ Served(d, T) \in Nat
  BY ServedType
<1>2. CASE d = c
  <2>1. \A t \in T : /\ served[c][t] \in Int
                     /\ served'[c][t] = IF t = clock THEN served[c][t] + 1 ELSE served[c][t]
    BY <1>1, <1>2 DEF LimitTypeOK
  <2>2. SumFunctionOnSet(served'[c], T) =
            SumFunctionOnSet(served[c], T) + (IF clock \in T THEN 1 ELSE 0)
    BY <1>1, <2>1, SumIncrement
  <2> QED
    BY <1>2, <2>2 DEF Served
<1>3. CASE d # c
  <2>1. served'[d] = served[d]
    BY <1>3 DEF LimitTypeOK
  <2> QED
    BY <1>1, <1>3, <2>1 DEF Served
<1> QED
  BY <1>2, <1>3

\* A window that is over was opened more than its length ago.
LEMMA ExpiredIsOver ==
    ASSUME LimitTypeOK, NEW c \in Client, WindowKept(c), ~Missing(c), Expired(c)
    PROVE  ~configured /\ Opened(c) \in Nat /\ Opened(c) + WindowMs < clock
<1>1. /\ clock \in Nat /\ clock <= MaxClock /\ MaxClock \in Nat /\ WindowMs \in Nat
      /\ storage[c].resetTime \in Nat /\ storage[c].resetTime < clock
  BY RateLimitConstants DEF LimitTypeOK, RateLimitEntry, Expired
<1>2. ~configured
  BY <1>1 DEF WindowKept
<1>3. Opened(c) \in 0..clock /\ Opened(c) = storage[c].resetTime - WindowMs
  BY <1>2 DEF WindowKept, Opened, OpenedFor
<1> QED
  BY <1>1, <1>2, <1>3

\* What a client was served before a window that opens now, and what it has been
\* served since.
LEMMA OpenNow ==
    ASSUME BurstInv, NEW c \in Client, Missing(c) \/ Expired(c)
    PROVE  /\ Served(c, Before(clock)) <= MaxRequests
           /\ Served(c, From(clock)) = 0
<1> USE RateLimitConstants
<1>1. LimitTypeOK /\ clock \in Nat /\ storage[c] \in RateLimitEntry
  BY DEF BurstInv, LimitInv, LimitTypeOK
<1>2. Served(c, From(clock)) = 0
  <2>1. \A t \in From(clock) : served[c][t] = 0
    <3>1. \A t \in From(clock) : t \in 0..MaxClock /\ (t > clock \/ t = clock)
      BY <1>1 DEF From
    <3>2. served[c][clock] = 0
      <4>1. served[c][clock] \in Nat
        BY <1>1 DEF LimitTypeOK
      <4> QED
        BY <1>1, <4>1 DEF BurstInv, LimitInv, WindowCounted, Missing, Expired, RateLimitEntry
    <3> QED
      BY <3>1, <3>2 DEF BurstInv, LimitInv, WindowCounted
  <2>2. IsFiniteSet(From(clock))
    BY <1>1, ServedType DEF From
  <2> QED
    BY <2>1, <2>2, SumZero DEF Served
<1>3. CASE Missing(c)
  <2>1. /\ Before(clock) \in SUBSET From(clock - WindowMs)
        /\ From(clock - WindowMs) \in SUBSET (0..MaxClock)
    BY <1>1 DEF Before, From
  <2>2. Served(c, Before(clock)) <= Served(c, From(clock - WindowMs))
    BY <1>1, <2>1, ServedMonotone
  <2>3. Served(c, From(clock - WindowMs)) <= MaxRequests
    BY <1>3 DEF BurstInv, WindowKept
  <2>4. Served(c, Before(clock)) \in Nat /\ Served(c, From(clock - WindowMs)) \in Nat
    BY <1>1, <2>1, ServedType
  <2> QED
    BY <1>2, <2>2, <2>3, <2>4
<1>4. CASE ~Missing(c) /\ Expired(c)
  <2>1. ~configured /\ Opened(c) \in Nat /\ Opened(c) + WindowMs < clock
    <3>1. WindowKept(c)
      BY DEF BurstInv
    <3> QED
      BY <1>1, <1>4, <3>1, ExpiredIsOver
  <2>2. /\ Before(clock) \in SUBSET From(Opened(c))
        /\ From(Opened(c)) \in SUBSET (0..MaxClock)
    BY <1>1, <2>1 DEF Before, From
  <2>3. Served(c, Before(clock)) <= Served(c, From(Opened(c)))
    BY <1>1, <2>2, ServedMonotone
  <2>4. Served(c, From(Opened(c))) <= MaxRequests
    BY <1>1, <1>4 DEF BurstInv, WindowKept, RateLimitEntry
  <2>5. Served(c, Before(clock)) \in Nat /\ Served(c, From(Opened(c))) \in Nat
    BY <1>1, <2>2, ServedType
  <2> QED
    BY <1>2, <2>3, <2>4, <2>5
<1> QED
  BY <1>3, <1>4

\* The window that an operation is counted in: what was served in it so far, and
\* before it.
LEMMA WindowOfOperation ==
    ASSUME BurstInv, NEW c \in Client
    PROVE  LET entry == EntryAfter(c)
               opened == OpenedFor(entry)
           IN  /\ entry \in RateLimitEntry /\ entry.count > 0
               /\ opened \in 0..clock
               /\ ~configured => clock <= opened + WindowMs
               /\ configured => MaxClock < entry.resetTime
               /\ Served(c, Before(opened)) <= MaxRequests
               /\ Served(c, From(opened)) = IF entry.count - 1 <= MaxRequests
                                            THEN entry.count - 1 ELSE MaxRequests
<1> USE RateLimitConstants
<1> DEFINE entry == EntryAfter(c)
           opened == OpenedFor(entry)
<1>1. /\ LimitTypeOK /\ clock \in Nat /\ storage[c] \in RateLimitEntry
      /\ entry \in RateLimitEntry /\ WindowKept(c)
  BY EntryAfterCounts DEF BurstInv, LimitInv, LimitTypeOK
<1>2. CASE Missing(c) \/ Expired(c)
  <2>1. entry.count = 1 /\ entry.resetTime = WindowEnd
    BY <1>2 DEF EntryAfter
  <2>2. CASE ~configured
    <3>1. entry.resetTime = clock + WindowMs
      BY <1>1, <2>1, <2>2, WindowEnds
    <3>2. opened = clock
      BY <1>1, <2>2, <3>1 DEF OpenedFor
    <3>3. Served(c, Before(clock)) <= MaxRequests /\ Served(c, From(clock)) = 0
      BY <1>2, OpenNow
    <3> HIDE DEF entry, opened
    <3> QED
      BY <1>1, <2>1, <2>2, <3>2, <3>3 DEF entry, opened
  <2>3. CASE configured
    <3>1. MaxClock < entry.resetTime
      BY <1>1, <2>1, <2>3, WindowEnds
    <3>2. opened = 0
      BY <2>3 DEF OpenedFor
    <3>3. Missing(c)
      BY <1>1, <1>2, <2>3, ExpiredIsOver
    <3>4. Served(c, From(0)) = 0
      BY <1>1, <2>3, <3>3 DEF WindowKept
    <3>5. Before(0) = {}
      BY DEF Before
    <3>6. Served(c, Before(0)) = 0
      BY <3>5, SumEmpty DEF Served
    <3> HIDE DEF entry, opened
    <3> QED
      BY <1>1, <2>1, <2>3, <3>1, <3>2, <3>4, <3>6 DEF entry, opened
  <2> QED
    BY <2>2, <2>3
<1>3. CASE ~(Missing(c) \/ Expired(c))
  <2>1. entry = [storage[c] EXCEPT !.count = @ + 1]
    BY <1>3 DEF EntryAfter
  <2>2. entry.count = storage[c].count + 1 /\ entry.resetTime = storage[c].resetTime
    BY <1>1, <2>1 DEF RateLimitEntry
  <2>3. opened = Opened(c) /\ storage[c].count \in Nat /\ storage[c].resetTime \in Nat
    BY <1>1, <2>2 DEF Opened, OpenedFor, RateLimitEntry
  <2>4. clock <= storage[c].resetTime
    BY <1>1, <1>3, <2>3 DEF Expired
  <2>5. /\ opened \in 0..clock
        /\ Served(c, From(opened)) = IF storage[c].count <= MaxRequests
                                     THEN storage[c].count ELSE MaxRequests
        /\ Served(c, Before(opened)) <= MaxRequests
    BY <1>1, <1>3, <2>3 DEF WindowKept
  <2>6. /\ ~configured => clock <= opened + WindowMs
        /\ configured => MaxClock < entry.resetTime
    <3>1. ~configured => opened = storage[c].resetTime - WindowMs
      BY <2>3 DEF Opened, OpenedFor
    <3>2. configured => MaxClock < storage[c].resetTime
      BY <1>1, <1>3 DEF WindowKept
    <3> HIDE DEF entry, opened
    <3> QED
      BY <1>1, <2>2, <2>3, <2>4, <2>5, <3>1, <3>2
  <2>7. entry.count - 1 = storage[c].count /\ entry.count > 0
    BY <2>2, <2>3
  <2> HIDE DEF entry, opened
  <2> QED
    BY <1>1, <2>5, <2>6, <2>7 DEF entry, opened
<1> QED
  BY <1>2, <1>3

LEMMA OperationBurst ==
    ASSUME BurstInv, NEW c \in Client, Operation(c)
    PROVE  BurstInv'
<1> USE RateLimitConstants
<1> DEFINE entry == EntryAfter(c)
           opened == OpenedFor(entry)
<1>1. /\ LimitInv' /\ LimitTypeOK /\ clock \in Nat
      /\ storage' = [storage EXCEPT ![c] = entry] /\ clock' = clock
      /\ configured' = configured
  <2>1. LimitInv'
    BY OperationInv DEF BurstInv
  <2>2. LimitTypeOK /\ clock \in Nat
    BY DEF BurstInv, LimitInv, LimitTypeOK
  <2>3. /\ storage' = [storage EXCEPT ![c] = entry] /\ clock' = clock
        /\ configured' = configured
    BY DEF Operation
  <2> QED
    BY <2>1, <2>2, <2>3
<1>2. /\ entry \in RateLimitEntry /\ entry.count \in Nat /\ entry.count > 0
      /\ opened \in 0..clock
      /\ configured => MaxClock < entry.resetTime
      /\ Served(c, Before(opened)) <= MaxRequests
      /\ Served(c, From(opened)) = IF entry.count - 1 <= MaxRequests
                                   THEN entry.count - 1 ELSE MaxRequests
  BY WindowOfOperation DEF RateLimitEntry
<1>3. /\ Before(opened) \in SUBSET (0..MaxClock) /\ From(opened) \in SUBSET (0..MaxClock)
      /\ clock \notin Before(opened) /\ clock \in From(opened)
  BY <1>1, <1>2 DEF Before, From, LimitTypeOK
<1>4. Served(c, Before(opened)) \in Nat /\ Served(c, From(opened)) \in Nat
  BY <1>1, <1>3, ServedType
<1>5. storage'[c] = entry /\ \A d \in Client : d # c => storage'[d] = storage[d]
  BY <1>1 DEF LimitTypeOK
<1> HIDE DEF entry, opened
<1>6. ASSUME NEW d \in Client, d # c, served'[d] = served[d] PROVE WindowKept(d)'
  BY <1>1, <1>5, <1>6
  DEF BurstInv, WindowKept, Missing, Opened, OpenedFor, Served, From, Before
<1>7. /\ Opened(c)' = opened /\ Missing(c)' = FALSE
      /\ \A s \in {opened} : From(s)' = From(s) /\ Before(s)' = Before(s)
  BY <1>1, <1>2, <1>5 DEF Opened, OpenedFor, Missing, From, Before, opened
<1>8. CASE Allows(entry) /\ served' = [served EXCEPT ![c][clock] = @ + 1]
  <2>1. ASSUME NEW d \in Client, NEW T \in SUBSET (0..MaxClock)
        PROVE  SumFunctionOnSet(served'[d], T) =
                   Served(d, T) + (IF d = c /\ clock \in T THEN 1 ELSE 0)
    BY <1>1, <1>8, ServedMore
  <2>2. WindowKept(c)'
    <3>1. SumFunctionOnSet(served'[c], From(opened)) = Served(c, From(opened)) + 1
      BY <1>3, <2>1
    <3>2. SumFunctionOnSet(served'[c], Before(opened)) = Served(c, Before(opened))
      BY <1>3, <1>4, <2>1
    <3>3. SumFunctionOnSet(served'[c], From(opened)) = entry.count
      BY <1>2, <1>4, <1>8, <3>1 DEF Allows
    <3> QED
      BY <1>1, <1>2, <1>5, <1>7, <1>8, <3>2, <3>3 DEF WindowKept, Served, Allows
  <2>3. \A d \in Client : WindowKept(d)'
    <3>1. \A d \in Client : d # c => served'[d] = served[d]
      BY <1>1, <1>8 DEF LimitTypeOK
    <3> QED
      BY <1>6, <2>2, <3>1
  <2>4. BurstBounded'
    <3> SUFFICES ASSUME NEW d \in Client, NEW a \in 0..MaxClock, a + WindowMs <= MaxClock
                 PROVE  SumFunctionOnSet(served'[d], a..(a + WindowMs)) <= 2 * MaxRequests
      BY DEF BurstBounded, ServedIn
    <3> DEFINE T == a..(a + WindowMs)
    <3>1. T \in SUBSET (0..MaxClock)
      OBVIOUS
    <3>2. Served(d, T) <= 2 * MaxRequests /\ Served(d, T) \in Nat
      BY <1>1, <3>1, ServedType DEF BurstInv, BurstBounded, ServedIn, Served
    <3>3. CASE d = c /\ clock \in T
      <4>1. T \subseteq Before(opened) \cup From(opened)
        BY <1>1, <1>2, <3>1, <3>3 DEF Before, From
      <4> HIDE DEF T
      <4>2. /\ IsFiniteSet(Before(opened)) /\ IsFiniteSet(From(opened))
            /\ \A t \in Before(opened) \cup From(opened) : served'[c][t] \in Nat
        <5>1. LimitTypeOK'
          BY <1>1 DEF LimitInv
        <5>2. served'[c] \in [0..MaxClock -> Nat]
          BY <5>1 DEF LimitTypeOK
        <5> QED
          BY <1>1, <1>3, <5>2, ServedType
      <4>3. SumFunctionOnSet(served'[c], T) <=
                SumFunctionOnSet(served'[c], Before(opened)) +
                SumFunctionOnSet(served'[c], From(opened))
        BY <4>1, <4>2, SumCovered
      <4>4. SumFunctionOnSet(served'[c], Before(opened)) = Served(c, Before(opened))
        BY <1>3, <1>4, <2>1
      <4>5. SumFunctionOnSet(served'[c], From(opened)) = Served(c, From(opened)) + 1
        BY <1>3, <2>1
      <4>6. Served(c, From(opened)) + 1 <= MaxRequests
        BY <1>2, <1>4, <1>8 DEF Allows
      <4>7. SumFunctionOnSet(served'[c], T) \in Int
        <5>1. SumFunctionOnSet(served'[c], T) = Served(c, T) + 1
          BY <2>1, <3>1, <3>3
        <5> QED
          BY <3>2, <3>3, <5>1
      <4> QED
        BY <1>2, <1>4, <3>3, <4>3, <4>4, <4>5, <4>6, <4>7 DEF T
    <3>4. CASE ~(d = c /\ clock \in T)
      <4> HIDE DEF T
      <4>1. SumFunctionOnSet(served'[d], T) = Served(d, T) + 0
        BY <2>1, <3>1, <3>4
      <4> QED
        BY <3>2, <4>1 DEF T
    <3> QED
      BY <3>3, <3>4
  <2> QED
    BY <1>1, <2>3, <2>4 DEF BurstInv
<1>9. CASE ~Allows(entry) /\ served' = served
  <2>1. BurstBounded'
    BY <1>9 DEF BurstInv, BurstBounded, ServedIn
  <2>2. WindowKept(c)'
    <3>1. entry.count > MaxRequests /\ Served(c, From(opened)) = MaxRequests
      BY <1>2, <1>4, <1>9 DEF Allows
    <3> QED
      BY <1>1, <1>2, <1>5, <1>7, <1>9, <3>1 DEF WindowKept, Served
  <2>3. \A d \in Client : WindowKept(d)'
    BY <1>6, <1>9, <2>2
  <2> QED
    BY <1>1, <2>1, <2>3 DEF BurstInv
<1> QED
  BY <1>8, <1>9 DEF Operation, entry

\* Nothing is served: the clock and the cleanup leave what the windows are about.
LEMMA QuietBurst ==
    ASSUME BurstInv, LimitCleanup \/ LimitTick \/ UNCHANGED limitVars
    PROVE  BurstInv'
<1> USE RateLimitConstants
<1>1. /\ LimitTypeOK /\ clock \in Nat /\ served' = served /\ configured' = configured
      /\ BurstBounded'
  BY DEF BurstInv, LimitInv, LimitTypeOK, LimitCleanup, LimitTick, limitVars, BurstBounded,
         ServedIn
<1>2. CASE LimitCleanup
  <2>1. LimitInv' /\ clock' = clock /\ storage' = Cleaned
    BY <1>2, LimitCleanupInv DEF BurstInv, LimitCleanup
  <2>2. ASSUME NEW c \in Client PROVE WindowKept(c)'
    <3>1. WindowKept(c) /\ storage[c] \in RateLimitEntry
      BY <1>1 DEF BurstInv, LimitTypeOK
    <3>2. CASE Missing(c) \/ ~Expired(c)
      <4>1. Missing(c)' = Missing(c) /\ (~Missing(c) => storage'[c] = storage[c])
        BY <2>1, <3>2 DEF Cleaned, Missing, NoEntry
      <4> QED
        BY <1>1, <2>1, <3>1, <4>1
        DEF WindowKept, Opened, OpenedFor, Served, From, Before
    <3>3. CASE ~Missing(c) /\ Expired(c)
      <4>1. Missing(c)'
        BY <2>1, <3>3 DEF Cleaned, Missing, NoEntry
      <4>2. ~configured /\ Opened(c) \in Nat /\ Opened(c) + WindowMs < clock
        BY <1>1, <3>1, <3>3, ExpiredIsOver
      <4>3. /\ From(clock - WindowMs) \in SUBSET From(Opened(c))
            /\ From(Opened(c)) \in SUBSET (0..MaxClock)
        BY <1>1, <4>2 DEF From
      <4>4. Served(c, From(clock - WindowMs)) <= Served(c, From(Opened(c)))
        BY <1>1, <4>3, ServedMonotone
      <4>5. Served(c, From(clock - WindowMs)) \in Nat /\ Served(c, From(Opened(c))) \in Nat
        BY <1>1, <4>3, ServedType
      <4>6. Served(c, From(Opened(c))) <= MaxRequests
        BY <3>1, <3>3 DEF WindowKept, RateLimitEntry
      <4>7. Served(c, From(clock - WindowMs)) <= MaxRequests
        BY <4>4, <4>5, <4>6
      <4> QED
        BY <1>1, <2>1, <4>1, <4>2, <4>7 DEF WindowKept, Served, From
    <3> QED
      BY <3>2, <3>3
  <2> QED
    BY <1>1, <2>1, <2>2 DEF BurstInv
<1>3. CASE LimitTick
  <2>1. LimitInv' /\ clock' = clock + 1 /\ storage' = storage
    BY <1>3, LimitTickInv DEF BurstInv, LimitTick
  <2>2. ASSUME NEW c \in Client PROVE WindowKept(c)'
    <3>1. WindowKept(c) /\ Missing(c)' = Missing(c) /\ Opened(c)' = Opened(c)
      BY <1>1, <2>1 DEF BurstInv, Missing, Opened, OpenedFor
    <3>2. CASE Missing(c)
      <4>1. /\ From(clock + 1 - WindowMs) \in SUBSET From(clock - WindowMs)
            /\ From(clock - WindowMs) \in SUBSET (0..MaxClock)
        BY <1>1 DEF From
      <4>2. Served(c, From(clock + 1 - WindowMs)) <= Served(c, From(clock - WindowMs))
        BY <1>1, <4>1, ServedMonotone
      <4>3. /\ Served(c, From(clock + 1 - WindowMs)) \in Nat
            /\ Served(c, From(clock - WindowMs)) \in Nat
        BY <1>1, <4>1, ServedType
      <4>4. Served(c, From(clock + 1 - WindowMs)) <= MaxRequests
        BY <3>1, <3>2, <4>2, <4>3 DEF WindowKept
      <4> QED
        BY <1>1, <2>1, <3>1, <3>2, <4>4 DEF WindowKept, Served, From
    <3>3. CASE ~Missing(c)
      <4>1. Opened(c) \in 0..(clock + 1)
        BY <1>1, <3>1, <3>3 DEF WindowKept
      <4> QED
        BY <1>1, <2>1, <3>1, <3>3, <4>1 DEF WindowKept, Served, From, Before
    <3> QED
      BY <3>2, <3>3
  <2> QED
    BY <1>1, <2>1, <2>2 DEF BurstInv
<1>4. CASE UNCHANGED limitVars
  <2>1. LimitInv'
    BY <1>4 DEF BurstInv, limitVars, LimitInv, LimitTypeOK, InstantBounded, WindowCounted
  <2>2. \A c \in Client : WindowKept(c)'
    BY <1>4 DEF BurstInv, limitVars, WindowKept, Missing, Opened, OpenedFor, Served, From, Before
  <2> QED
    BY <1>1, <2>1, <2>2 DEF BurstInv
<1> QED
  BY <1>2, <1>3, <1>4

LEMMA LimitInitBurst == LimitInit => BurstInv
<1> USE RateLimitConstants
<1> SUFFICES ASSUME LimitInit PROVE BurstInv
  OBVIOUS
<1>1. LimitInv /\ LimitTypeOK
  BY LimitInitInv DEF LimitInv
<1>2. ASSUME NEW c \in Client, NEW T \in SUBSET (0..MaxClock) PROVE Served(c, T) = 0
  <2>1. IsFiniteSet(T) /\ \A t \in T : served[c][t] = 0
    BY <1>1, ServedType DEF LimitInit
  <2> QED
    BY <2>1, SumZero DEF Served
<1>3. \A c \in Client : WindowKept(c)
  <2>1. \A c \in Client : Missing(c)
    BY DEF LimitInit, Missing, NoEntry
  <2>2. From(clock - WindowMs) \in SUBSET (0..MaxClock) /\ From(0) \in SUBSET (0..MaxClock)
    BY DEF From
  <2> QED
    BY <1>2, <2>1, <2>2 DEF WindowKept
<1>4. BurstBounded
  <2> SUFFICES ASSUME NEW c \in Client, NEW a \in 0..MaxClock, a + WindowMs <= MaxClock
               PROVE  Served(c, a..(a + WindowMs)) <= 2 * MaxRequests
    BY DEF BurstBounded, ServedIn, Served
  <2>1. a..(a + WindowMs) \in SUBSET (0..MaxClock)
    OBVIOUS
  <2> QED
    BY <1>2, <2>1
<1> QED
  BY <1>1, <1>3, <1>4 DEF BurstInv

LEMMA BurstInvHolds == LimitSpec => []BurstInv
<1>1. ASSUME BurstInv, [LimitNext]_limitVars PROVE BurstInv'
  BY <1>1, OperationBurst, QuietBurst DEF LimitNext
<1> QED
  BY LimitInitBurst, <1>1, PTL DEF LimitSpec

\* In any stretch of time as long as a window a client gets at most twice the limit
\* through, whatever windows it straddles and whatever is cleaned up.
THEOREM BurstsBounded == LimitSpec => []BurstBounded
<1>1. BurstInv => BurstBounded
  BY DEF BurstInv
<1> QED
  BY <1>1, BurstInvHolds, PTL

\* Whoever is refused was served the full limit: within the last window's length, or
\* since the process started when the setting makes the window endless.
THEOREM RefusalsEarned == LimitSpec => RefusalEarned
<1> DEFINE First == IF configured THEN 0 ELSE Earlier(WindowMs)
           Earned == \A c \in Client : Refuses(c) => ServedIn(c, First, clock) >= MaxRequests
<1>1. ASSUME BurstInv, LimitNext PROVE Earned
  <2> USE RateLimitConstants
  <2> SUFFICES ASSUME NEW c \in Client, storage'[c].count > storage[c].count, c \in refused'
               PROVE  ServedIn(c, First, clock) >= MaxRequests
    BY DEF Refuses
  <2>1. LimitTypeOK /\ clock \in Nat /\ storage[c] \in RateLimitEntry
    BY <1>1 DEF BurstInv, LimitInv, LimitTypeOK
  <2>2. storage[c].count \in Nat
    BY <2>1 DEF RateLimitEntry
  <2>3. ~LimitTick
    BY <2>2 DEF LimitTick
  <2>4. ~LimitCleanup
    BY <2>2 DEF LimitCleanup, Cleaned, NoEntry
  <2>5. PICK d \in Client : Operation(d)
    BY <1>1, <2>3, <2>4 DEF LimitNext
  <2>6. d = c
    BY <2>1, <2>2, <2>5 DEF Operation, LimitTypeOK
  <2> DEFINE entry == EntryAfter(c)
             opened == OpenedFor(entry)
             T == First..clock
  <2>7. ~Allows(entry)
    BY <2>5, <2>6 DEF Operation
  <2>8. /\ entry.count \in Nat /\ opened \in 0..clock
        /\ ~configured => clock <= opened + WindowMs
        /\ Served(c, From(opened)) = IF entry.count - 1 <= MaxRequests
                                     THEN entry.count - 1 ELSE MaxRequests
    BY <1>1, WindowOfOperation DEF RateLimitEntry
  <2> HIDE DEF entry, opened
  <2>9. Served(c, From(opened)) = MaxRequests
    <3>1. MaxRequests \in Nat /\ entry.count > MaxRequests
      BY <2>7, <2>8, RateLimitConstants DEF Allows
    <3> QED
      BY <2>8, <3>1
  <2>10. First \in 0..opened /\ T \in SUBSET (0..MaxClock)
    BY <2>1, <2>8 DEF LimitTypeOK, Earlier
  <2> HIDE DEF First
  <2>11. /\ IsFiniteSet(From(opened)) /\ From(opened) \subseteq 0..MaxClock
         /\ IsFiniteSet(T) /\ IsFiniteSet(From(clock + 1))
         /\ Served(c, T) \in Nat /\ Served(c, From(clock + 1)) \in Nat
         /\ \A t \in 0..MaxClock : served[c][t] \in Nat
    BY <2>1, <2>10, ServedType DEF From
  <2>12. From(opened) \subseteq T \cup From(clock + 1)
    BY <2>1, <2>8, <2>10 DEF From
  <2>13. Served(c, From(clock + 1)) = 0
    <3>1. \A t \in From(clock + 1) : served[c][t] = 0
      BY <1>1, <2>1 DEF From, BurstInv, LimitInv, WindowCounted
    <3> QED
      BY <2>11, <3>1, SumZero DEF Served
  <2>14. \A t \in T \cup From(clock + 1) : served[c][t] \in Nat
    BY <2>10, <2>11 DEF From
  <2> HIDE DEF T
  <2>15. Served(c, From(opened)) <= Served(c, T) + Served(c, From(clock + 1))
    BY <2>11, <2>12, <2>14, SumCovered DEF Served
  <2> QED
    BY <2>9, <2>11, <2>13, <2>15 DEF ServedIn, Served, T
<1>2. BurstInv /\ [LimitNext]_limitVars => [Earned]_limitVars
  BY <1>1
<1> QED
  BY <1>2, BurstInvHolds, PTL DEF LimitSpec, RefusalEarned

(***************************************************************************)
(* Invoices and reports                                                    *)
(* The arithmetic of days and of rounding; sums of entries and of the groups *)
(* they are made into; what a call knows while the rows change beside it   *)
(* (Inv); then what invoices and reports add up to.                        *)
(***************************************************************************)
LEMMA Positive ==
    /\ MsPerHour \in Nat \ {0} /\ DecimalPlaces \in Nat \ {0}
    /\ Day \in Nat \ {0} /\ OneYear \in Nat \ {0}
BY BillingAssumption

LEMMA Division ==
    ASSUME NEW a \in Nat, NEW b \in Nat \ {0}
    PROVE  /\ a \div b \in Nat /\ a % b \in Nat
           /\ a = b * (a \div b) + (a % b)
           /\ a % b < b
OBVIOUS

LEMMA Cancel ==
    ASSUME NEW b \in Nat \ {0}, NEW q \in Int, NEW p \in Int, b * q < b * p + b
    PROVE  q <= p
OBVIOUS

\* Rounding is off by at most half a unit.
LEMMA RoundNear ==
    ASSUME NEW n \in Nat, NEW d \in Nat \ {0}
    PROVE  /\ Round(n, d) \in Nat
           /\ (2 * d) * Round(n, d) - 2 * n <= d
           /\ 2 * n - (2 * d) * Round(n, d) <= d
<1>1. 2 * n + d \in Nat /\ 2 * d \in Nat \ {0}
  OBVIOUS
<1> DEFINE q == (2 * n + d) \div (2 * d)
           m == (2 * n + d) % (2 * d)
<1>2. /\ q \in Nat /\ m \in Nat /\ m < 2 * d
      /\ 2 * n + d = (2 * d) * q + m
  BY <1>1, Division
<1>3. (2 * d) * q \in Nat
  BY <1>1, <1>2
<1>4. Round(n, d) = q
  BY DEF Round
<1> HIDE DEF q, m
<1> QED
  BY <1>2, <1>3, <1>4

LEMMA DayBounds ==
    ASSUME NEW t \in Nat
    PROVE  /\ DayStart(t) = Day * (t \div Day)
           /\ t \div Day \in Nat
           /\ DayStart(t) \in Nat
           /\ DayStart(t) <= t /\ t < DayStart(t) + Day
<1>1. /\ t \div Day \in Nat /\ t % Day \in Nat
      /\ t = Day * (t \div Day) + (t % Day)
      /\ t % Day < Day
  BY Positive, Division
<1> DEFINE q == t \div Day
           m == t % Day
<1>2. Day * q \in Nat
  BY <1>1, Positive
<1>3. DayStart(t) = t - m
  BY DEF DayStart
<1> HIDE DEF q, m
<1> QED
  BY <1>1, <1>2, <1>3, Positive DEF q, m

\* Days do not run backwards, and the next day begins where this one has ended.
LEMMA DaysOrdered ==
    ASSUME NEW t \in Nat, NEW u \in Nat, t <= u
    PROVE  DayStart(t) <= DayStart(u)
<1> DEFINE p == t \div Day
           q == u \div Day
<1>1. /\ DayStart(t) = Day * p /\ DayStart(u) = Day * q
      /\ p \in Nat /\ q \in Nat
      /\ DayStart(t) <= t /\ u < DayStart(u) + Day
  BY DayBounds
<1> HIDE DEF p, q
<1>2. Day * p < Day * q + Day
  BY <1>1, Positive
<1>3. p <= q
  BY <1>1, <1>2, Cancel, Positive
<1> QED
  BY <1>1, <1>3, Positive

LEMMA NextDay ==
    ASSUME NEW t \in Nat
    PROVE  DayStart(t + Day) = DayStart(t) + Day
<1> DEFINE p == t \div Day
           q == (t + Day) \div Day
<1>0. t + Day \in Nat
  BY Positive
<1>1. /\ DayStart(t) = Day * p /\ DayStart(t + Day) = Day * q
      /\ p \in Nat /\ q \in Nat
      /\ DayStart(t) <= t /\ t < DayStart(t) + Day
      /\ DayStart(t + Day) <= t + Day /\ t + Day < DayStart(t + Day) + Day
  BY <1>0, DayBounds
<1> HIDE DEF p, q
<1>2. Day * (p + 1) = Day * p + Day
  BY <1>1, Positive
<1>3. Day * q < Day * (p + 1) + Day /\ Day * (p + 1) < Day * q + Day
  BY <1>1, <1>2, Positive
<1>4. q <= p + 1 /\ p + 1 <= q
  BY <1>1, <1>3, Cancel, Positive
<1> QED
  BY <1>1, <1>2, <1>4

(***************************************************************************)
(* Sums of entries, and of their groups                                    *)
(***************************************************************************)
LEMMA SumType ==
    ASSUME TypeOK, NEW K \in SUBSET Rows
    PROVE  /\ IsFiniteSet(K)
           /\ \A k \in K : Spent[k] \in Nat /\ Spent[k] = time[k].elapsed
           /\ Sum(K) \in Nat
<1>1. IsFiniteSet(K)
  BY BillingAssumption, FS_Subset DEF Rows
<1>2. \A k \in K : Spent[k] \in Nat /\ Spent[k] = time[k].elapsed
  BY BillingAssumption DEF Spent, Rows, TypeOK, Row
<1>3. Sum(K) \in Nat
  BY <1>1, <1>2, SumNat DEF Sum
<1> QED
  BY <1>1, <1>2, <1>3

\* The sums of F over the classes that "of" divides K into.
ByClass(F, K, of, C) == [c \in C |-> SumFunctionOnSet(F, {k \in K : of[k] = c})]

\* Summing the classes sums everything.
LEMMA SumGrouped ==
    ASSUME NEW K, IsFiniteSet(K), NEW F, \A k \in K : F[k] \in Int,
           NEW C, IsFiniteSet(C), NEW of, \A k \in K : of[k] \in C
    PROVE  SumFunctionOnSet(F, K) = SumFunctionOnSet(ByClass(F, K, of, C), C)
<1> DEFINE G == ByClass(F, K, of, C)
<1>0. \A c \in C : G[c] = SumFunctionOnSet(F, {k \in K : of[k] = c})
  BY DEF ByClass
<1> HIDE DEF G
<1> DEFINE In(D) == {k \in K : of[k] \in D}
           Good == {D \in SUBSET C : SumFunctionOnSet(F, In(D)) = SumFunctionOnSet(G, D)}
<1>1. \A D \in SUBSET C : IsFiniteSet(In(D)) /\ \A k \in In(D) : F[k] \in Int
  BY FS_Subset
<1>2. \A c \in C : G[c] \in Int
  <2>1. ASSUME NEW c \in C PROVE G[c] \in Int
    <3>1. IsFiniteSet({k \in K : of[k] = c})
      BY FS_Subset
    <3>2. SumFunctionOnSet(F, {k \in K : of[k] = c}) \in Int
      BY <3>1, SumRemove
    <3> QED
      BY <1>0, <3>2
  <2> QED
    BY <2>1
<1>3. ASSUME NEW D \in SUBSET C, \A U \in SUBSET D : U # D => U \in Good
      PROVE  SumFunctionOnSet(F, In(D)) = SumFunctionOnSet(G, D)
  <2>1. CASE D = {}
    <3>1. In(D) = {}
      BY <2>1
    <3> QED
      BY <2>1, <3>1, SumEmpty
  <2>2. ASSUME NEW c \in D
        PROVE  SumFunctionOnSet(F, In(D)) = SumFunctionOnSet(G, D)
    <3> DEFINE R == D \ {c}
               this == {k \in K : of[k] = c}
    <3>1. IsFiniteSet(D) /\ R \in SUBSET D /\ R # D
      BY FS_Subset
    <3>2. SumFunctionOnSet(G, D) = G[c] + SumFunctionOnSet(G, R)
      BY <1>2, <3>1, SumRemove
    <3>3. /\ In(D) = In(R) \cup this /\ In(R) \cap this = {}
          /\ IsFiniteSet(In(R)) /\ IsFiniteSet(this)
          /\ \A k \in In(R) \cup this : F[k] \in Int
      BY FS_Subset
    <3>4. SumFunctionOnSet(F, In(R)) = SumFunctionOnSet(G, R)
      BY <1>3, <3>1
    <3>5. G[c] = SumFunctionOnSet(F, this)
      BY <1>0
    <3>6. SumFunctionOnSet(F, this) \in Int /\ SumFunctionOnSet(F, In(R)) \in Int
      <4> HIDE DEF In, this, R
      <4> QED
        BY <3>3, SumRemove
    <3> HIDE DEF In, this, R
    <3>7. SumFunctionOnSet(F, In(R) \cup this) =
              SumFunctionOnSet(F, In(R)) + SumFunctionOnSet(F, this)
      BY <3>3, SumParts
    <3> QED
      BY <3>2, <3>3, <3>4, <3>5, <3>6, <3>7
  <2> QED
    BY <2>1, <2>2
<1>4. \A D \in SUBSET C : D \in Good
  <2>1. \A D \in SUBSET C : (\A U \in SUBSET D : U # D => U \in Good) => D \in Good
    <3> HIDE DEF In
    <3> QED
      BY <1>3
  <2> HIDE DEF Good
  <2> QED
    BY <2>1, SubsetInduction
<1>5. In(C) = K
  OBVIOUS
<1> QED
  BY <1>4, <1>5 DEF G

\* Groups without time do not count.
LEMMA SumOfGroups ==
    ASSUME NEW sums \in [Rate -> Nat]
    PROVE  /\ IsFiniteSet(Groups(sums)) /\ Groups(sums) \subseteq Rate
           /\ SumFunctionOnSet(sums, Groups(sums)) = SumFunctionOnSet(sums, Rate)
           /\ SumFunctionOnSet(sums, Groups(sums)) \in Nat
<1> DEFINE rest == Rate \ Groups(sums)
<1>1. /\ IsFiniteSet(Groups(sums)) /\ Groups(sums) \subseteq Rate /\ IsFiniteSet(rest)
      /\ Groups(sums) \cup rest = Rate /\ Groups(sums) \cap rest = {}
  BY BillingAssumption, FS_Subset DEF Groups
<1>2. SumFunctionOnSet(sums, rest) = 0
  <2>1. \A r \in rest : sums[r] = 0 /\ sums[r] \in Int /\ sums[r] = 0 * sums[r]
    BY DEF Groups
  <2>2. SumFunctionOnSet(sums, rest) = 0 * SumFunctionOnSet(sums, rest)
    <3> HIDE DEF rest
    <3> QED
      BY <1>1, <2>1, SumScaled
  <2>3. SumFunctionOnSet(sums, rest) \in Int
    <3> HIDE DEF rest
    <3> QED
      BY <1>1, <2>1, SumRemove
  <2> QED
    BY <2>2, <2>3
<1>3. SumFunctionOnSet(sums, Groups(sums)) \in Nat
  BY <1>1, SumNat
<1>4. SumFunctionOnSet(sums, Rate) =
          SumFunctionOnSet(sums, Groups(sums)) + SumFunctionOnSet(sums, rest)
  <2>1. \A r \in Groups(sums) \cup rest : sums[r] \in Int
    BY <1>1
  <2> HIDE DEF rest
  <2>2. SumFunctionOnSet(sums, Groups(sums) \cup rest) =
            SumFunctionOnSet(sums, Groups(sums)) + SumFunctionOnSet(sums, rest)
    BY <1>1, <2>1, SumParts
  <2> QED
    BY <1>1, <2>2
<1> QED
  BY <1>1, <1>2, <1>3, <1>4

\* groupBy loses no time: the groups of entries with a rate add up to the entries,
\* and a group with time has an entry with its rate.
LEMMA GroupsComplete ==
    ASSUME TypeOK, NEW K \in SUBSET Rows, \A k \in K : time[k].rate \in Rate
    PROVE  /\ GroupBy(K) \in [Rate -> Nat]
           /\ Sum(K) = SumFunctionOnSet(GroupBy(K), Groups(GroupBy(K)))
           /\ \A r \in Groups(GroupBy(K)) : \E k \in K : time[k].rate = r
<1> DEFINE sums == GroupBy(K)
           of == [k \in K |-> time[k].rate]
<1>1. \A r \in Rate : Sum({k \in K : time[k].rate = r}) \in Nat
  BY SumType
<1>2. sums \in [Rate -> Nat]
  BY <1>1 DEF GroupBy
<1>3. ASSUME NEW r \in Rate, ~ \E k \in K : time[k].rate = r
      PROVE  sums[r] = 0
  <2>1. {k \in K : time[k].rate = r} = {}
    BY <1>3
  <2>2. Sum({}) = 0
    BY SumEmpty DEF Sum
  <2> QED
    BY <2>1, <2>2 DEF GroupBy
<1>4. Sum(K) = SumFunctionOnSet(sums, Rate)
  <2>1. IsFiniteSet(K) /\ IsFiniteSet(Rate) /\ \A k \in K : Spent[k] \in Int
    BY SumType, BillingAssumption
  <2>2. \A k \in K : of[k] \in Rate
    OBVIOUS
  <2>3. sums = ByClass(Spent, K, of, Rate)
    <3>1. \A r \in Rate : {k \in K : of[k] = r} = {k \in K : time[k].rate = r}
      OBVIOUS
    <3> HIDE DEF of
    <3> QED
      BY <3>1 DEF ByClass, GroupBy, Sum
  <2> HIDE DEF sums, of
  <2>4. SumFunctionOnSet(Spent, K) = SumFunctionOnSet(ByClass(Spent, K, of, Rate), Rate)
    BY <2>1, <2>2, SumGrouped
  <2> QED
    BY <2>3, <2>4 DEF Sum
<1>5. \A r \in Groups(sums) : \E k \in K : time[k].rate = r
  BY <1>2, <1>3 DEF Groups
<1> HIDE DEF sums
<1>6. Sum(K) = SumFunctionOnSet(sums, Groups(sums))
  BY <1>2, <1>4, SumOfGroups
<1> QED
  BY <1>2, <1>5, <1>6 DEF sums

LEMMA GroupOfNothing == TypeOK => GroupBy({}) = NoSums
<1>1. Sum({}) = 0
  BY SumEmpty DEF Sum
<1> QED
  BY <1>1 DEF GroupBy, NoSums

(***************************************************************************)
(* The numbers of an invoice                                               *)
(***************************************************************************)
LEMMA RoundedType ==
    ASSUME NEW ms \in Nat, NEW r \in Rate
    PROVE  Hours(ms) \in Nat /\ Cost(r, ms) \in Nat
<1>1. ms * DecimalPlaces \in Nat
  BY Positive
<1>2. Price[r] \in Nat
  BY BillingAssumption
<1>3. ms * Price[r] * DecimalPlaces \in Nat
  BY <1>2, Positive
<1> QED
  BY <1>1, <1>3, RoundNear, Positive DEF Hours, Cost

LEMMA HoursType == ASSUME NEW ms \in Nat PROVE Hours(ms) \in Nat
<1>1. ms * DecimalPlaces \in Nat
  BY Positive
<1> QED
  BY <1>1, RoundNear, Positive DEF Hours

LEMMA InvoiceType ==
    ASSUME NEW sums \in [Rate -> Nat]
    PROVE  Invoice(sums) \in Bill
<1> DEFINE cost == [r \in Rate |-> Cost(r, sums[r])]
           hours == [r \in Rate |-> Hours(sums[r])]
<1>1. cost \in [Rate -> Nat] /\ hours \in [Rate -> Nat]
  BY RoundedType
<1>2. IsFiniteSet(Groups(sums)) /\ Groups(sums) \subseteq Rate
      /\ SumFunctionOnSet(sums, Groups(sums)) \in Nat
  BY SumOfGroups
<1>3. Invoice(sums) = [totalHours |-> Hours(SumFunctionOnSet(sums, Groups(sums))),
                       totalCost |-> SumFunctionOnSet(cost, Groups(sums)),
                       hours |-> hours, cost |-> cost]
  BY DEF Invoice
<1> HIDE DEF cost, hours
<1>4. SumFunctionOnSet(cost, Groups(sums)) \in Nat
  BY <1>1, <1>2, SumNat
<1> QED
  BY <1>1, <1>2, <1>3, <1>4, HoursType DEF Bill

LEMMA NoCallType == NoSums \in [Rate -> Nat] /\ NoCall \in Call
<1>1. NoSums \in [Rate -> Nat]
  BY DEF NoSums
<1>2. Invoice(NoSums) \in Bill
  BY <1>1, InvoiceType
<1>3. 0 \in Instant
  BY BillingAssumption DEF Instant
<1> QED
  BY <1>1, <1>2, <1>3 DEF NoCall, Call, Phase

(***************************************************************************)
(* The inductive invariant                                                 *)
(***************************************************************************)
\* What a call knows: before the sums its invoice is the empty one; from then on
\* the sums are all the time they were made of; only a rate that was removed can
\* be missing from R, the rates of the database.
Consistent(c, R) ==
    /\ c.at \in {"idle", "found", "allowed"} => c.invoice = Invoice(NoSums)
    /\ c.at \in {"grouped", "answered"} => c.due = SumFunctionOnSet(c.sums, Groups(c.sums))
    /\ c.at = "answered" => c.invoice = Invoice(c.sums)
    /\ c.at = "grouped" /\ ~c.lost => Groups(c.sums) \subseteq R
    /\ c.at = "broken" => c.lost

\* No entry names a rate that is gone, and every call is consistent.
Inv == /\ TypeOK
       /\ \A k \in Rows : time[k].rate # None => time[k].rate \in rate
       /\ \A u \in User : Consistent(call[u], rate)

\* A step of one call alone.
LEMMA CallStep ==
    ASSUME Inv, NEW u \in User, NEW c \in Call, Consistent(c, rate),
           call' = [call EXCEPT ![u] = c], UNCHANGED <<project, rate, time, entered, member>>
    PROVE  Inv'
<1>1. TypeOK'
  BY DEF Inv, TypeOK
<1>2. (\A k \in Rows : time[k].rate # None => time[k].rate \in rate)'
  BY DEF Inv, Rows
<1>3. \A v \in User : call'[v] = IF v = u THEN c ELSE call[v]
  BY DEF Inv, TypeOK
<1>4. (\A v \in User : Consistent(call[v], rate))'
  BY <1>3 DEF Inv
<1> QED
  BY <1>1, <1>2, <1>4 DEF Inv

\* A step that leaves the calls and the rates, and names no rate that is gone.
LEMMA TimeStep ==
    ASSUME Inv, TypeOK', UNCHANGED <<rate, call>>,
           \A k \in Entry : \/ time'[k] = time[k] \/ time'[k] = None
                            \/ time'[k].rate \in rate
                            \/ time[k] # None /\ time'[k].rate = time[k].rate
    PROVE  Inv'
<1>1. (\A k \in Rows : time[k].rate # None => time[k].rate \in rate)'
  BY DEF Inv, Rows
<1>2. (\A v \in User : Consistent(call[v], rate))'
  BY DEF Inv
<1> QED
  BY <1>1, <1>2 DEF Inv

LEMMA InitInv == Init => Inv
<1> SUFFICES ASSUME Init PROVE Inv
  OBVIOUS
<1>1. call \in [User -> Call] /\ \A u \in User : call[u] = NoCall
  BY NoCallType DEF Init
<1>2. TypeOK
  BY <1>1 DEF Init, TypeOK
<1>3. Rows = {}
  BY DEF Init, Rows
<1>4. Consistent(NoCall, rate)
  BY DEF Consistent, NoCall
<1> QED
  BY <1>1, <1>2, <1>3, <1>4 DEF Inv

LEMMA NextInv == Inv /\ [Next]_vars => Inv'
<1> SUFFICES ASSUME Inv, [Next]_vars PROVE Inv'
  OBVIOUS
<1> USE DEF Inv
<1>1. ASSUME NEW k \in Entry, NEW row \in Row, CreateTime(k, row) PROVE Inv'
  <2>1. TypeOK'
    BY <1>1 DEF CreateTime, TypeOK
  <2>2. \A e \in Entry : time'[e] = IF e = k THEN row ELSE time[e]
    BY <1>1 DEF CreateTime, TypeOK
  <2> QED
    BY <1>1, <2>1, <2>2, TimeStep DEF CreateTime
<1>2. ASSUME NEW k \in Entry, NEW end \in Instant, NEW elapsed \in Elapsed,
             UpdateTime(k, end, elapsed)
      PROVE  Inv'
  <2>1. time[k] \in Row /\ time[k] # None
    BY <1>2 DEF UpdateTime, Rows, TypeOK
  <2>2. [time[k] EXCEPT !.end = end, !.elapsed = elapsed] \in Row
    BY <2>1 DEF Row
  <2>3. time' = [time EXCEPT ![k] = [time[k] EXCEPT !.end = end, !.elapsed = elapsed]]
    BY <1>2 DEF UpdateTime
  <2>4. TypeOK'
    BY <1>2, <2>2, <2>3 DEF UpdateTime, TypeOK
  <2>5. \A e \in Entry : \/ time'[e] = time[e]
                         \/ e = k /\ time[e] # None /\ time'[e].rate = time[e].rate
    BY <2>1, <2>3 DEF TypeOK, Row
  <2> QED
    BY <1>2, <2>4, <2>5, TimeStep DEF UpdateTime
<1>3. ASSUME NEW k \in Entry, RemoveTime(k) PROVE Inv'
  <2>1. TypeOK'
    BY <1>3 DEF RemoveTime, TypeOK
  <2>2. \A e \in Entry : time'[e] = IF e = k THEN None ELSE time[e]
    BY <1>3 DEF RemoveTime, TypeOK
  <2> QED
    BY <1>3, <2>1, <2>2, TimeStep DEF RemoveTime
<1>4. ASSUME NEW r \in Rate, CreateRate(r) PROVE Inv'
  <2>1. TypeOK'
    BY <1>4 DEF CreateRate, TypeOK
  <2>2. (\A k \in Rows : time[k].rate # None => time[k].rate \in rate)'
    BY <1>4 DEF CreateRate, Rows
  <2>3. (\A u \in User : Consistent(call[u], rate))'
    BY <1>4 DEF CreateRate, Consistent
  <2> QED
    BY <2>1, <2>2, <2>3
<1>5. ASSUME NEW r \in Rate, RemoveRate(r) PROVE Inv'
  <2>1. ASSUME NEW k \in Entry
        PROVE  /\ Detached(r)[k] \in Row \cup {None}
               /\ Detached(r)[k] # None =>
                      /\ time[k] # None /\ time[k] \in Row
                      /\ Detached(r)[k].rate = IF time[k].rate = r THEN None ELSE time[k].rate
    <3>1. CASE time[k] = None
      BY <3>1 DEF Detached
    <3>2. CASE time[k] # None /\ time[k].rate # r
      BY <3>2 DEF Detached, TypeOK
    <3>3. CASE time[k] # None /\ time[k].rate = r
      <4>1. time[k] \in Row /\ Detached(r)[k] = [time[k] EXCEPT !.rate = None]
        BY <3>3 DEF Detached, TypeOK
      <4> QED
        BY <3>3, <4>1 DEF Row
    <3> QED
      BY <3>1, <3>2, <3>3
  <2>2. time' \in [Entry -> Row \cup {None}]
    BY <1>5, <2>1 DEF RemoveRate, Detached
  <2>3. ASSUME NEW u \in User
        PROVE  /\ call'[u] = [call[u] EXCEPT !.lost = @ \/ call[u].sums[r] > 0]
               /\ call'[u] \in Call
    <3>1. call'[u] = [call[u] EXCEPT !.lost = @ \/ call[u].sums[r] > 0]
      BY <1>5 DEF RemoveRate
    <3>2. call[u] \in Call
      BY DEF TypeOK
    <3> QED
      BY <3>1, <3>2 DEF Call
  <2>4. TypeOK'
    <3>1. call' \in [User -> Call]
      BY <1>5, <2>3 DEF RemoveRate
    <3> QED
      BY <1>5, <2>2, <3>1 DEF RemoveRate, TypeOK
  <2>5. (\A k \in Rows : time[k].rate # None => time[k].rate \in rate)'
    <3>1. ASSUME NEW k \in Entry, time'[k] # None, time'[k].rate # None
          PROVE  time'[k].rate \in rate'
      <4>1. time' = Detached(r) /\ rate' = rate \ {r}
        BY <1>5 DEF RemoveRate
      <4>2. time[k] # None /\ time[k].rate # r /\ time'[k].rate = time[k].rate
        BY <2>1, <3>1, <4>1
      <4> QED
        BY <3>1, <4>1, <4>2 DEF Rows
    <3> QED
      BY <3>1 DEF Rows
  <2>6. ASSUME NEW u \in User PROVE Consistent(call'[u], rate')
    <3> DEFINE c == call[u]
               d == call'[u]
    <3>1. c \in Call /\ Consistent(c, rate)
      BY DEF TypeOK
    <3>2. d = [c EXCEPT !.lost = @ \/ c.sums[r] > 0]
      BY <2>3
    <3> HIDE DEF c, d
    <3>3. /\ d.at = c.at /\ d.sums = c.sums /\ d.invoice = c.invoice /\ d.due = c.due
          /\ d.lost <=> c.lost \/ c.sums[r] > 0
      BY <3>1, <3>2 DEF Call
    <3>4. c.at = "grouped" /\ ~d.lost => Groups(c.sums) \subseteq rate'
      BY <1>5, <3>1, <3>3 DEF RemoveRate, Consistent, Groups
    <3> QED
      BY <3>1, <3>3, <3>4 DEF Consistent, d
  <2> QED
    BY <2>4, <2>5, <2>6
<1>6. CASE RemoveProject
  <2>1. TypeOK'
    BY <1>6 DEF RemoveProject, TypeOK
  <2> QED
    BY <1>6, <2>1, TimeStep DEF RemoveProject
<1>7. ASSUME NEW u \in User, AddUserToTeam(u) \/ RemoveUserFromTeam(u) PROVE Inv'
  <2>1. TypeOK'
    BY <1>7 DEF AddUserToTeam, RemoveUserFromTeam, TypeOK
  <2> QED
    BY <1>7, <2>1, TimeStep DEF AddUserToTeam, RemoveUserFromTeam
<1>8. ASSUME NEW u \in User, NEW p \in Period, FindProject(u, p) PROVE Inv'
  <2> DEFINE c == [call[u] EXCEPT !.at = IF project THEN "found" ELSE "missing", !.period = p]
  <2>1. call[u] \in Call /\ Consistent(call[u], rate) /\ call[u].at = "idle"
    BY <1>8 DEF FindProject, TypeOK
  <2>2. p \in [from : Instant, to : Instant]
    BY DEF Period
  <2>3. c \in Call /\ c.invoice = call[u].invoice /\ c.at \in {"found", "missing"}
    BY <2>1, <2>2 DEF Call, Phase
  <2>4. Consistent(c, rate)
    <3> HIDE DEF c
    <3> QED
      BY <2>1, <2>3 DEF Consistent
  <2>5. call' = [call EXCEPT ![u] = c] /\ UNCHANGED <<project, rate, time, entered, member>>
    BY <1>8 DEF FindProject
  <2> HIDE DEF c, Inv
  <2> QED
    BY <1>8, <2>3, <2>4, <2>5, CallStep
<1>9. ASSUME NEW u \in User, ValidateUserTeamAccess(u) PROVE Inv'
  <2> DEFINE c == [call[u] EXCEPT !.at = IF Allowed(u) THEN "allowed" ELSE "forbidden"]
  <2>1. call[u] \in Call /\ Consistent(call[u], rate) /\ call[u].at = "found"
    BY <1>9 DEF ValidateUserTeamAccess, TypeOK
  <2>2. c \in Call /\ c.invoice = call[u].invoice /\ c.at \in {"allowed", "forbidden"}
    BY <2>1 DEF Call, Phase
  <2>3. Consistent(c, rate)
    <3> HIDE DEF c
    <3> QED
      BY <2>1, <2>2 DEF Consistent
  <2>4. call' = [call EXCEPT ![u] = c] /\ UNCHANGED <<project, rate, time, entered, member>>
    BY <1>9 DEF ValidateUserTeamAccess
  <2> HIDE DEF c
  <2> QED
    BY <2>2, <2>3, <2>4, CallStep
<1>10. ASSUME NEW u \in User, Aggregate(u) PROVE Inv'
  <2> DEFINE K == Billed(call[u].period)
             c == [call[u] EXCEPT !.at = IF K = {} THEN "answered" ELSE "grouped",
                                  !.sums = GroupBy(K), !.due = Sum(K)]
  <2>1. call[u] \in Call /\ call[u].invoice = Invoice(NoSums)
    BY <1>10 DEF Aggregate, TypeOK, Consistent
  <2>2. K \in SUBSET Rows /\ \A k \in K : time[k].rate \in Rate /\ time[k].rate \in rate
    BY DEF Billed, Rows, TypeOK
  <2>3. call' = [call EXCEPT ![u] = c] /\ UNCHANGED <<project, rate, time, entered, member>>
    BY <1>10 DEF Aggregate
  <2> HIDE DEF K
  <2>4. /\ GroupBy(K) \in [Rate -> Nat] /\ Sum(K) \in Nat
        /\ Sum(K) = SumFunctionOnSet(GroupBy(K), Groups(GroupBy(K)))
        /\ Groups(GroupBy(K)) \subseteq rate
    BY <2>2, GroupsComplete, SumType
  <2>5. K = {} => GroupBy(K) = NoSums
    BY <2>4, GroupOfNothing
  <2>6. /\ c \in Call /\ c.sums = GroupBy(K) /\ c.due = Sum(K)
        /\ c.invoice = Invoice(NoSums)
        /\ c.at = IF K = {} THEN "answered" ELSE "grouped"
    BY <2>1, <2>4 DEF Call, Phase
  <2> HIDE DEF c
  <2>7. Consistent(c, rate)
    BY <2>4, <2>5, <2>6 DEF Consistent
  <2> QED
    BY <2>3, <2>6, <2>7, CallStep
<1>11. ASSUME NEW u \in User, ReadRates(u) PROVE Inv'
  <2> DEFINE c == Answer(call[u])
  <2>1. /\ call[u] \in Call /\ Consistent(call[u], rate) /\ call[u].at = "grouped"
        /\ call[u].sums \in [Rate -> Nat]
    BY <1>11 DEF ReadRates, TypeOK, Call
  <2>2. Invoice(call[u].sums) \in Bill
    BY <2>1, InvoiceType
  <2>3. call' = [call EXCEPT ![u] = c] /\ UNCHANGED <<project, rate, time, entered, member>>
    BY <1>11 DEF ReadRates
  <2>4. c \in Call /\ Consistent(c, rate)
    <3>1. CASE Groups(call[u].sums) \subseteq rate
      <4>1. c = [call[u] EXCEPT !.at = "answered", !.invoice = Invoice(call[u].sums)]
        BY <3>1 DEF Answer
      <4> HIDE DEF c
      <4>2. /\ c \in Call /\ c.at = "answered" /\ c.invoice = Invoice(call[u].sums)
            /\ c.sums = call[u].sums /\ c.due = call[u].due
        BY <2>1, <2>2, <4>1 DEF Call, Phase
      <4> QED
        BY <2>1, <4>2 DEF Consistent
    <3>2. CASE ~ Groups(call[u].sums) \subseteq rate
      <4>1. c = [call[u] EXCEPT !.at = "broken"]
        BY <3>2 DEF Answer
      <4> HIDE DEF c
      <4>2. c \in Call /\ c.at = "broken" /\ c.lost = call[u].lost
        BY <2>1, <4>1 DEF Call, Phase
      <4> QED
        BY <2>1, <3>2, <4>2 DEF Consistent
    <3> QED
      BY <3>1, <3>2
  <2> HIDE DEF c
  <2> QED
    BY <2>3, <2>4, CallStep
<1>12. ASSUME NEW u \in User, Receive(u) PROVE Inv'
  <2>1. Consistent(NoCall, rate)
    BY DEF Consistent, NoCall
  <2> QED
    BY <1>12, <2>1, NoCallType, CallStep DEF Receive
<1>13. CASE UNCHANGED vars
  <2>1. TypeOK'
    BY <1>13 DEF vars, TypeOK
  <2> QED
    BY <1>13, <2>1, TimeStep DEF vars
<1> QED
  BY <1>1, <1>2, <1>3, <1>4, <1>5, <1>6, <1>7, <1>8, <1>9, <1>10, <1>11, <1>12, <1>13 DEF Next

\* The types, and every invariant below, rest on this one.
THEOREM InvHolds == Spec => []Inv
BY InitInv, NextInv, PTL DEF Spec

\* Types: a deleted rate or a correction leaves rows that are still rows, and
\* every number of an invoice is one.
THEOREM BillingTypes == Spec => []TypeOK
<1>1. Inv => TypeOK
  BY DEF Inv
<1> QED
  BY <1>1, InvHolds, PTL

\* An answered invoice charges for all the time its groupBy saw.
THEOREM InvoicesComplete == Spec => []InvoiceComplete
<1>1. Inv => InvoiceComplete
  <2> SUFFICES ASSUME Inv, NEW u \in Answered
               PROVE  call[u].invoice.totalHours = Hours(call[u].due)
    BY DEF InvoiceComplete
  <2>1. /\ call[u].invoice = Invoice(call[u].sums)
        /\ call[u].due = SumFunctionOnSet(call[u].sums, Groups(call[u].sums))
    BY DEF Inv, Answered, Consistent
  <2> QED
    BY <2>1 DEF Invoice
<1> QED
  BY <1>1, InvHolds, PTL

\* Whoever is told of a data integrity issue had a rate removed under the query.
THEOREM IntegrityErrorsEarned == Spec => []IntegrityErrorEarned
<1>1. Inv => IntegrityErrorEarned
  BY DEF Inv, IntegrityErrorEarned, Consistent
<1> QED
  BY <1>1, InvHolds, PTL

(***************************************************************************)
(* Lines and totals                                                        *)
(***************************************************************************)
LEMMA Scales ==
    ASSUME NEW b \in Nat \ {0}, NEW x \in Int, NEW y \in Int, b * x <= b * y
    PROVE  x <= y
OBVIOUS

\* Hours are rounded by the line: the lines and the total differ by at most half
\* a unit for each line and half a unit for the total.
LEMMA HoursAddUp ==
    ASSUME NEW sums \in [Rate -> Nat],
           NEW hours, hours = [r \in Rate |-> Hours(sums[r])],
           NEW L, L \subseteq Rate, NEW total \in Nat, total = SumFunctionOnSet(sums, L)
    PROVE  /\ SumFunctionOnSet(hours, L) - Hours(total) \in Int
           /\ 2 * (SumFunctionOnSet(hours, L) - Hours(total)) <= Cardinality(L) + 1
           /\ -(Cardinality(L) + 1) <= 2 * (SumFunctionOnSet(hours, L) - Hours(total))
<1> DEFINE M == MsPerHour
           D == DecimalPlaces
           F == [r \in Rate |-> (2 * M) * hours[r]]
           G == [r \in Rate |-> (2 * D) * sums[r]]
           n == Cardinality(L)
           h == SumFunctionOnSet(hours, L)
           t == Hours(total)
<1>0. M \in Nat \ {0} /\ D \in Nat \ {0} /\ 2 * M \in Nat \ {0} /\ 2 * D \in Nat \ {0}
  BY Positive
<1>1. IsFiniteSet(L) /\ n \in Nat
  BY BillingAssumption, FS_Subset, FS_CardinalityType
<1>2. ASSUME NEW ms \in Nat
      PROVE  /\ Hours(ms) \in Nat /\ (2 * D) * ms \in Nat /\ (2 * M) * Hours(ms) \in Nat
             /\ (2 * M) * Hours(ms) - (2 * D) * ms <= M
             /\ (2 * D) * ms - (2 * M) * Hours(ms) <= M
  <2>1. ms * D \in Nat /\ 2 * (ms * D) = (2 * D) * ms /\ (2 * D) * ms \in Nat
    BY <1>0
  <2>2. /\ Hours(ms) \in Nat
        /\ (2 * M) * Hours(ms) - 2 * (ms * D) <= M
        /\ 2 * (ms * D) - (2 * M) * Hours(ms) <= M
    BY <1>0, <2>1, RoundNear DEF Hours
  <2>3. (2 * M) * Hours(ms) \in Nat
    BY <1>0, <2>2
  <2> QED
    BY <2>1, <2>2, <2>3
<1>3. \A r \in L : /\ F[r] \in Int /\ G[r] \in Int
                   /\ F[r] - G[r] <= M /\ G[r] - F[r] <= M
                   /\ hours[r] \in Int /\ sums[r] \in Int
                   /\ F[r] = (2 * M) * hours[r] /\ G[r] = (2 * D) * sums[r]
  <2> HIDE DEF M, D
  <2> QED
    BY <1>2
<1> HIDE DEF F, G, M, D
<1>4. /\ SumFunctionOnSet(F, L) - SumFunctionOnSet(G, L) <= M * n
      /\ SumFunctionOnSet(G, L) - SumFunctionOnSet(F, L) <= M * n
  BY <1>0, <1>1, <1>3, SumNear
<1>5. h \in Int
  BY <1>1, <1>3, SumRemove
<1>6. SumFunctionOnSet(F, L) = (2 * M) * h
  <2> DEFINE k == 2 * M
  <2>1. k \in Int
    BY <1>0
  <2>2. \A r \in L : hours[r] \in Int /\ F[r] = k * hours[r]
    BY <1>3, Zenon
  <2> HIDE DEF k
  <2>3. SumFunctionOnSet(F, L) = k * SumFunctionOnSet(hours, L)
    BY <1>1, <2>1, <2>2, SumScaled
  <2> QED
    BY <2>3 DEF k
<1>7. SumFunctionOnSet(G, L) = (2 * D) * total
  <2> DEFINE k == 2 * D
  <2>1. k \in Int
    BY <1>0
  <2>2. \A r \in L : sums[r] \in Int /\ G[r] = k * sums[r]
    BY <1>3, Zenon
  <2> HIDE DEF k
  <2>3. SumFunctionOnSet(G, L) = k * SumFunctionOnSet(sums, L)
    BY <1>1, <2>1, <2>2, SumScaled
  <2> QED
    BY <2>3 DEF k
<1>8. /\ t \in Nat /\ (2 * D) * total \in Nat /\ (2 * M) * t \in Nat
      /\ (2 * M) * t - (2 * D) * total <= M
      /\ (2 * D) * total - (2 * M) * t <= M
  BY <1>2
<1> HIDE DEF n, h, t
<1>9. /\ (2 * M) * h \in Int /\ M * n \in Nat
      /\ M * (2 * (h - t)) = (2 * M) * h - (2 * M) * t
      /\ M * (n + 1) = M * n + M
      /\ M * (2 * (t - h)) = (2 * M) * t - (2 * M) * h
  BY <1>0, <1>1, <1>5, <1>8
<1>10. /\ M * (2 * (h - t)) <= M * (n + 1)
       /\ M * (2 * (t - h)) <= M * (n + 1)
  BY <1>0, <1>4, <1>6, <1>7, <1>8, <1>9
<1>11. 2 * (h - t) <= n + 1 /\ 2 * (t - h) <= n + 1
  BY <1>0, <1>1, <1>5, <1>8, <1>10, Scales
<1> QED
  BY <1>1, <1>5, <1>8, <1>11 DEF n, h, t

\* The lines of every invoice add up, whatever the rates and however many.
THEOREM InvoicesAddUp == Spec => []InvoiceAddsUp
<1>1. Inv => InvoiceAddsUp
  <2> SUFFICES ASSUME Inv, NEW u \in Answered
               PROVE  LET inv == call[u].invoice
                          lines == Groups(call[u].sums)
                          off == SumFunctionOnSet(inv.hours, lines) - inv.totalHours
                      IN  /\ inv.totalCost = SumFunctionOnSet(inv.cost, lines)
                          /\ 2 * off \in -(Cardinality(lines) + 1)..(Cardinality(lines) + 1)
    BY DEF InvoiceAddsUp
  <2> DEFINE sums == call[u].sums
             hours == [r \in Rate |-> Hours(sums[r])]
             cost == [r \in Rate |-> Cost(r, sums[r])]
             L == Groups(sums)
             total == SumFunctionOnSet(sums, L)
             off == SumFunctionOnSet(hours, L) - Hours(total)
  <2>1. call[u].invoice = Invoice(sums) /\ sums \in [Rate -> Nat]
    BY DEF Inv, TypeOK, Answered, Consistent, Call
  <2>2. /\ call[u].invoice.hours = hours /\ call[u].invoice.cost = cost
        /\ call[u].invoice.totalHours = Hours(total)
        /\ call[u].invoice.totalCost = SumFunctionOnSet(cost, L)
    BY <2>1 DEF Invoice
  <2>3. IsFiniteSet(L) /\ L \subseteq Rate /\ total \in Nat
    BY <2>1, SumOfGroups
  <2> HIDE DEF sums, L
  <2>4. /\ off \in Int /\ 2 * off <= Cardinality(L) + 1
        /\ -(Cardinality(L) + 1) <= 2 * off
    BY <2>1, <2>3, HoursAddUp
  <2>5. Cardinality(L) \in Nat
    BY <2>3, FS_CardinalityType
  <2> HIDE DEF hours, cost, total, off
  <2>6. 2 * off \in -(Cardinality(L) + 1)..(Cardinality(L) + 1)
    BY <2>4, <2>5
  <2> QED
    BY <2>2, <2>6 DEF sums, L, off
<1> QED
  BY <1>1, InvHolds, PTL

(***************************************************************************)
(* Reports                                                                 *)
(***************************************************************************)
\* Removing a rate takes no time off the report over all time.
THEOREM RemovalsKeepTime == Spec => RemovalKeepsTime
<1>1. Inv /\ [Next]_vars => [rate' # rate => TimeForProject' = TimeForProject]_vars
  <2> SUFFICES ASSUME Inv, Next, rate' # rate
               PROVE  TimeForProject' = TimeForProject
    BY DEF vars
  <2>1. ASSUME NEW r \in Rate, CreateRate(r) PROVE TimeForProject' = TimeForProject
    <3>1. time' = time
      BY <2>1 DEF CreateRate
    <3> QED
      BY <3>1 DEF TimeForProject, Sum, Spent, Rows
  <2>2. ASSUME NEW r \in Rate, RemoveRate(r) PROVE TimeForProject' = TimeForProject
    <3>1. ASSUME NEW k \in Entry
          PROVE  /\ time'[k] = None <=> time[k] = None
                 /\ time[k] # None => time'[k].elapsed = time[k].elapsed
      <4>1. time'[k] = IF time[k] # None /\ time[k].rate = r
                       THEN [time[k] EXCEPT !.rate = None] ELSE time[k]
        BY <2>2 DEF RemoveRate, Detached
      <4>2. CASE time[k] # None /\ time[k].rate = r
        <5>1. time[k] \in Row /\ time'[k] = [time[k] EXCEPT !.rate = None]
          BY <4>1, <4>2 DEF Inv, TypeOK
        <5>2. time'[k] \in Row /\ time'[k].elapsed = time[k].elapsed
          BY <5>1 DEF Row
        <5> QED
          BY <4>2, <5>2, BillingAssumption
      <4>3. CASE ~(time[k] # None /\ time[k].rate = r)
        BY <4>1, <4>3
      <4> QED
        BY <4>2, <4>3
    <3>2. Rows' = Rows
      BY <3>1 DEF Rows
    <3>3. Spent' = Spent
      BY <3>1, <3>2 DEF Spent, Rows
    <3> QED
      BY <3>2, <3>3 DEF TimeForProject, Sum
  <2>3. \E r \in Rate : CreateRate(r) \/ RemoveRate(r)
    BY DEF Next, CreateTime, UpdateTime, RemoveTime, RemoveProject, AddUserToTeam,
           RemoveUserFromTeam, FindProject, ValidateUserTeamAccess, Aggregate, ReadRates, Receive
  <2> QED
    BY <2>1, <2>2, <2>3
<1> QED
  BY <1>1, InvHolds, PTL DEF Spec, RemovalKeepsTime

\* The period filter is exactly the overlap of two closed intervals.
THEOREM BilledWhenTheyOverlap == Spec => []BilledWhenOverlapping
<1>1. Inv => BilledWhenOverlapping
  <2> SUFFICES ASSUME Inv, NEW k \in Ordered, NEW p \in Period
               PROVE  InPeriod(time[k], p) <=>
                          \E t \in p.from..p.to : time[k].start <= t /\ t <= time[k].end
    BY DEF BilledWhenOverlapping
  <2> DEFINE s == time[k].start
             e == time[k].end
  <2>1. s \in Int /\ e \in Int /\ s <= e
    BY BillingAssumption DEF Inv, TypeOK, Ordered, Rows, Row, Instant
  <2>2. p.from \in Int /\ p.to \in Int /\ p.from < p.to
    BY BillingAssumption DEF Period, Instant
  <2>3. InPeriod(time[k], p) <=> \/ s \in p.from..p.to \/ e \in p.from..p.to
                                 \/ s <= p.from /\ e >= p.to
    BY DEF InPeriod
  <2> HIDE DEF s, e
  <2>4. (\E t \in p.from..p.to : s <= t /\ t <= e) =>
            (s \in p.from..p.to \/ e \in p.from..p.to \/ (s <= p.from /\ e >= p.to))
    BY <2>1, <2>2
  <2>5. /\ s \in p.from..p.to => s <= s /\ s <= e
        /\ e \in p.from..p.to => s <= e /\ e <= e
        /\ s <= p.from /\ e >= p.to =>
              p.from \in p.from..p.to /\ s <= p.from /\ p.from <= e
    BY <2>1, <2>2
  <2> QED
    BY <2>3, <2>4, <2>5 DEF s, e
<1> QED
  BY <1>1, InvHolds, PTL

\* Reports over consecutive days count no entry twice.
THEOREM ReportsCountOnce == Spec => []ReportedOnce
<1>1. Inv => ReportedOnce
  <2> SUFFICES ASSUME Inv, Rows = Ordered,
                      NEW first \in Instant, NEW mid \in Instant, NEW last \in Instant,
                      first <= mid, mid + Day <= last
               PROVE  TimeSpent(first, mid) + TimeSpent(mid + Day, last) <= TimeSpent(first, last)
    BY DEF ReportedOnce
  <2> DEFINE In(a, b) == {k \in Rows : InReport(time[k], a, b)}
             A == In(first, mid)
             B == In(mid + Day, last)
             C == In(first, last)
  <2>1. first \in Nat /\ mid \in Nat /\ last \in Nat /\ mid + Day \in Nat /\ mid <= last
    BY BillingAssumption, Positive DEF Instant
  <2>2. /\ DayStart(first) \in Nat /\ DayStart(mid) \in Nat /\ DayStart(last) \in Nat
        /\ DayStart(mid + Day) = DayStart(mid) + Day
        /\ DayStart(first) <= DayStart(mid) /\ DayStart(mid) <= DayStart(last)
        /\ Day \in Nat \ {0}
    BY <2>1, DayBounds, DaysOrdered, NextDay, Positive
  <2>3. \A k \in Rows : time[k].start \in Nat /\ time[k].end \in Nat /\ time[k].start <= time[k].end
    BY BillingAssumption DEF Inv, TypeOK, Ordered, Rows, Row, Instant
  <2>4. ASSUME NEW k \in Rows
        PROVE  /\ ~(InReport(time[k], first, mid) /\ InReport(time[k], mid + Day, last))
               /\ InReport(time[k], first, mid) => InReport(time[k], first, last)
               /\ InReport(time[k], mid + Day, last) => InReport(time[k], first, last)
    <3> DEFINE s == time[k].start
               e == time[k].end
    <3>1. \A a, b \in Nat : InReport(time[k], a, b) <=> s >= DayStart(a) /\ e <= DayStart(b) + Day - 1
      BY DEF InReport, DayEnd
    <3>2. s \in Nat /\ e \in Nat /\ s <= e
      BY <2>3
    <3> HIDE DEF s, e
    <3> QED
      BY <2>1, <2>2, <3>1, <3>2
  <2>5. A \cap B = {} /\ A \cup B \subseteq C /\ C \subseteq Rows
    BY <2>4
  <2>6. /\ TimeSpent(first, mid) = Sum(A) /\ TimeSpent(mid + Day, last) = Sum(B)
        /\ TimeSpent(first, last) = Sum(C)
    BY DEF TimeSpent
  <2> HIDE DEF A, B, C
  <2>7. /\ IsFiniteSet(A) /\ IsFiniteSet(B) /\ IsFiniteSet(C)
        /\ \A k \in C : Spent[k] \in Nat
    BY <2>5, SumType DEF Inv
  <2>8. \A k \in A \cup B : Spent[k] \in Int
    BY <2>5, <2>7
  <2>9. SumFunctionOnSet(Spent, A \cup B) = SumFunctionOnSet(Spent, A) + SumFunctionOnSet(Spent, B)
    BY <2>5, <2>7, <2>8, SumParts
  <2>10. SumFunctionOnSet(Spent, A \cup B) <= SumFunctionOnSet(Spent, C)
    BY <2>5, <2>7, SumMonotone
  <2> QED
    BY <2>6, <2>9, <2>10 DEF Sum
<1> QED
  BY <1>1, InvHolds, PTL
=============================================================================

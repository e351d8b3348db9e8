------------------------------ MODULE SumProofs ------------------------------
(***************************************************************************)
(* Laws of SumFunctionOnSet, the sum of a map over a finite set of its     *)
(* keys: what adding, removing or changing one entry does to it.  Balances *)
(* and table sizes are such sums.                                          *)
(***************************************************************************)
EXTENDS Integers, FiniteSets, Functions, FiniteSetTheorems, WellFoundedInduction, TLAPS

First(T) == CHOOSE x \in T : TRUE

(* g is the running sum of f over the subsets of S. *)
Sums(f, S, g) ==
    g = [T \in SUBSET S |-> IF T = {} THEN 0 ELSE f[First(T)] + g[T \ {First(T)}]]

(* The first element is one, and there are fewer without it.               *)
LEMMA FirstOut ==
  ASSUME NEW T, T # {}
  PROVE  /\ First(T) \in T
         /\ T \ {First(T)} \in SUBSET T /\ T \ {First(T)} # T
  BY DEF First

(* Among finitely many things, a set of sets has a least one.              *)
LEMMA MinimalSet ==
  ASSUME NEW S, IsFiniteSet(S), NEW B \in SUBSET (SUBSET S), B # {}
  PROVE  \E T \in B : \A U \in B : U \subseteq T => U = T
  <1>1. B \subseteq FiniteSubsetsOf(S)
    BY FS_Subset DEF FiniteSubsetsOf
  <1>2. \E T \in B : \A U \in B : ~(<<U, T>> \in StrictSubsetOrdering(S))
    BY <1>1, FS_StrictSubsetOrderingWellFounded, WFMin
  <1>3. QED
    BY <1>2 DEF StrictSubsetOrdering

(* The sum is a value of any running sum there is.                         *)
LEMMA SumIsChosen ==
  ASSUME NEW f, NEW S
  PROVE  SumFunctionOnSet(f, S) = (CHOOSE g : Sums(f, S, g))[S]
  BY Zenon DEF SumFunctionOnSet, FoldFunctionOnSet, MapThenFoldSet, Sums, First

(* What a running sum says of one set.                                     *)
LEMMA SumsAt ==
  ASSUME NEW f, NEW S, NEW g, Sums(f, S, g), NEW T \in SUBSET S
  PROVE  g[T] = IF T = {} THEN 0 ELSE f[First(T)] + g[T \ {First(T)}]
  BY DEF Sums

(* Two running sums agree where both are defined.                          *)
LEMMA SumsAgree ==
  ASSUME NEW f, NEW S, IsFiniteSet(S), NEW A \in SUBSET S, NEW B \in SUBSET S,
         NEW g, Sums(f, A, g), NEW h, Sums(f, B, h)
  PROVE  \A T \in SUBSET (A \cap B) : g[T] = h[T]
  <1> DEFINE Bad == {T \in SUBSET (A \cap B) : g[T] # h[T]}
  <1>1. CASE Bad # {}
    <2>0. Bad \in SUBSET (SUBSET S)
      OBVIOUS
    <2> HIDE DEF Bad
    <2>1. PICK T \in Bad : \A U \in Bad : U \subseteq T => U = T
      BY <1>1, <2>0, MinimalSet
    <2> USE DEF Bad
    <2>2. T \in SUBSET A /\ T \in SUBSET B
      BY <2>1
    <2>3. T # {} => First(T) \in T
      BY DEF First
    <2>4. T # {} => g[T \ {First(T)}] = h[T \ {First(T)}]
      BY <2>1, <2>2, <2>3
    <2>5. g[T] = h[T]
      BY <2>2, <2>4, SumsAt
    <2>6. QED
      BY <2>1, <2>5
  <1>2. QED
    BY <1>1

(* There is a running sum over every finite set.                           *)
LEMMA SumsExist ==
  ASSUME NEW f, NEW S, IsFiniteSet(S)
  PROVE  \E g : Sums(f, S, g)
  <1> DEFINE Bad == {U \in SUBSET S : ~\E g : Sums(f, U, g)}
  <1>1. CASE Bad # {}
    <2>0. Bad \in SUBSET (SUBSET S)
      OBVIOUS
    <2> HIDE DEF Bad
    <2>1. PICK U \in Bad : \A V \in Bad : V \subseteq U => V = U
      BY <1>1, <2>0, MinimalSet
    <2> USE DEF Bad
    <2> DEFINE Of(V) == SumFunctionOnSet(f, V)
               h == [T \in SUBSET U |-> IF T = {} THEN 0
                                                  ELSE f[First(T)] + Of(T \ {First(T)})]
    <2>2. \A T \in SUBSET U : T # {} => First(T) \in T
      BY DEF First
    <2>3. ASSUME NEW V \in SUBSET U, V # U
          PROVE  Sums(f, V, CHOOSE g : Sums(f, V, g))
      BY <2>1, <2>3
    <2>4. ASSUME NEW V \in SUBSET U, V # U, V # {}
          PROVE  Of(V) = f[First(V)] + Of(V \ {First(V)})
      <3>1. PICK g : Sums(f, V, g) /\ Of(V) = g[V]
        BY <2>3, <2>4, SumIsChosen
      <3>2. PICK W \in SUBSET V : W = V \ {First(V)}
        OBVIOUS
      <3>3. W \in SUBSET U /\ W # U /\ W \in SUBSET S /\ V \in SUBSET S
        BY <2>4, <3>2
      <3>4. PICK k : Sums(f, W, k) /\ Of(W) = k[W]
        BY <2>3, <3>3, SumIsChosen
      <3>5. k[W] = g[W]
        BY <3>1, <3>3, <3>4, SumsAgree
      <3>6. g[V] = f[First(V)] + g[W]
        BY <2>4, <3>1, <3>2, SumsAt
      <3>7. QED
        BY <3>1, <3>2, <3>4, <3>5, <3>6
    <2>5. ASSUME NEW V \in SUBSET U, V # U
          PROVE  h[V] = Of(V)
      <3>1. CASE V = {}
        <4>1. PICK g : Sums(f, V, g) /\ Of(V) = g[V]
          BY <2>3, <2>5, SumIsChosen
        <4>2. QED
          BY <3>1, <4>1, SumsAt
      <3>2. CASE V # {}
        BY <2>4, <2>5, <3>2
      <3>3. QED
        BY <3>1, <3>2
    <2> HIDE DEF Of
    <2>6. ASSUME NEW T \in SUBSET U
          PROVE  h[T] = IF T = {} THEN 0 ELSE f[First(T)] + h[T \ {First(T)}]
      <3>1. CASE T # {}
        <4>1. PICK V : V = T \ {First(T)}
          OBVIOUS
        <4>2. V \in SUBSET U /\ V # U
          BY <2>2, <3>1, <4>1
        <4>3. h[V] = Of(V)
          BY <2>5, <4>2
        <4>4. QED
          BY <3>1, <4>1, <4>3
      <3>2. QED
        BY <3>1
    <2> HIDE DEF h
    <2>7. h = [T \in SUBSET U |-> IF T = {} THEN 0 ELSE f[First(T)] + h[T \ {First(T)}]]
      <3>1. h = [T \in SUBSET U |-> h[T]]
        BY DEF h
      <3>2. QED
        BY <2>6, <3>1
    <2>8. Sums(f, U, h)
      BY <2>7 DEF Sums
    <2>9. QED
      BY <2>1, <2>8
  <1>2. QED
    BY <1>1

(* The sum over nothing is zero; any other is one entry and the rest.      *)
LEMMA SumUnfold ==
  ASSUME NEW f, NEW S, IsFiniteSet(S)
  PROVE  SumFunctionOnSet(f, S) =
             IF S = {} THEN 0
             ELSE f[First(S)] + SumFunctionOnSet(f, S \ {First(S)})
  <1>1. PICK g : Sums(f, S, g) /\ SumFunctionOnSet(f, S) = g[S]
    BY SumsExist, SumIsChosen
  <1>2. PICK T : T = S \ {First(S)} /\ T \in SUBSET S /\ IsFiniteSet(T)
    <2>1. S \ {First(S)} \in SUBSET S
      OBVIOUS
    <2>2. QED
      BY <2>1, FS_Subset
  <1>3. PICK h : Sums(f, T, h) /\ SumFunctionOnSet(f, T) = h[T]
    BY <1>2, SumsExist, SumIsChosen
  <1>4. g[T] = h[T]
    BY <1>1, <1>2, <1>3, SumsAgree
  <1>5. QED
    BY <1>1, <1>2, <1>3, <1>4, SumsAt

(* The sum of integers is an integer, of naturals a natural number.        *)
LEMMA SumType ==
  ASSUME NEW f, NEW S, IsFiniteSet(S), \A x \in S : f[x] \in Int
  PROVE  /\ SumFunctionOnSet(f, S) \in Int
         /\ (\A x \in S : f[x] >= 0) => SumFunctionOnSet(f, S) >= 0
  <1> DEFINE Good(T) == /\ SumFunctionOnSet(f, T) \in Int
                        /\ (\A x \in T : f[x] >= 0) => SumFunctionOnSet(f, T) >= 0
             Bad == {T \in SUBSET S : ~Good(T)}
  <1>1. CASE Bad # {}
    <2>0. Bad \in SUBSET (SUBSET S)
      OBVIOUS
    <2> HIDE DEF Bad
    <2>1. PICK T \in Bad : \A U \in Bad : U \subseteq T => U = T
      BY <1>1, <2>0, MinimalSet
    <2> USE DEF Bad
    <2>2. IsFiniteSet(T) /\ T \in SUBSET S
      BY <2>1, FS_Subset
    <2>3. CASE T = {}
      <3>1. SumFunctionOnSet(f, T) = 0
        BY <2>2, <2>3, SumUnfold
      <3>2. QED
        BY <2>1, <3>1
    <2>4. CASE T # {}
      <3>0. PICK x, U : x = First(T) /\ U = T \ {First(T)}
        OBVIOUS
      <3>1. x = First(T) /\ U = T \ {x} /\ x \in T /\ U \in SUBSET T /\ U # T
        BY <2>4, <3>0, FirstOut
      <3>2. Good(U) /\ f[x] \in Int
        BY <2>1, <2>2, <3>1
      <3>3. SumFunctionOnSet(f, T) = f[x] + SumFunctionOnSet(f, U)
        BY <2>2, <2>4, <3>1, SumUnfold
      <3>4. QED
        BY <2>1, <3>1, <3>2, <3>3
    <2>5. QED
      BY <2>3, <2>4
  <1>2. QED
    BY <1>1

(* Maps that agree on a set have the same sum over it.                     *)
LEMMA SumSame ==
  ASSUME NEW f, NEW g, NEW S, IsFiniteSet(S), \A x \in S : f[x] = g[x]
  PROVE  SumFunctionOnSet(f, S) = SumFunctionOnSet(g, S)
  <1> DEFINE Bad == {T \in SUBSET S : SumFunctionOnSet(f, T) # SumFunctionOnSet(g, T)}
  <1>1. CASE Bad # {}
    <2>0. Bad \in SUBSET (SUBSET S)
      OBVIOUS
    <2> HIDE DEF Bad
    <2>1. PICK T \in Bad : \A U \in Bad : U \subseteq T => U = T
      BY <1>1, <2>0, MinimalSet
    <2> USE DEF Bad
    <2>2. IsFiniteSet(T) /\ T \in SUBSET S
      BY <2>1, FS_Subset
    <2>3. CASE T # {}
      <3>0. PICK x, U : x = First(T) /\ U = T \ {First(T)}
        OBVIOUS
      <3>1. x = First(T) /\ U = T \ {x} /\ x \in T /\ U \in SUBSET T /\ U # T
        BY <2>3, <3>0, FirstOut
      <3>2. SumFunctionOnSet(f, U) = SumFunctionOnSet(g, U) /\ f[x] = g[x]
        BY <2>1, <2>2, <3>1
      <3>3. /\ SumFunctionOnSet(f, T) = f[x] + SumFunctionOnSet(f, U)
            /\ SumFunctionOnSet(g, T) = g[x] + SumFunctionOnSet(g, U)
        BY <2>2, <2>3, <3>1, SumUnfold
      <3>4. QED
        BY <2>1, <3>2, <3>3
    <2>4. QED
      BY <2>1, <2>2, <2>3, SumUnfold
  <1>2. QED
    BY <1>1

(* Any entry can be taken out of a sum.                                    *)
LEMMA SumRemove ==
  ASSUME NEW f, NEW S, IsFiniteSet(S), \A x \in S : f[x] \in Int, NEW y \in S
  PROVE  SumFunctionOnSet(f, S) = f[y] + SumFunctionOnSet(f, S \ {y})
  <1> DEFINE Good(T) == \A x \in T :
                 SumFunctionOnSet(f, T) = f[x] + SumFunctionOnSet(f, T \ {x})
             Bad == {T \in SUBSET S : ~Good(T)}
  <1>1. CASE Bad # {}
    <2>0. Bad \in SUBSET (SUBSET S)
      OBVIOUS
    <2> HIDE DEF Bad
    <2>1. PICK T \in Bad : \A U \in Bad : U \subseteq T => U = T
      BY <1>1, <2>0, MinimalSet
    <2> USE DEF Bad
    <2>2. IsFiniteSet(T) /\ T \in SUBSET S
      BY <2>1, FS_Subset
    <2>3. PICK x \in T : SumFunctionOnSet(f, T) # f[x] + SumFunctionOnSet(f, T \ {x})
      BY <2>1
    <2>4. PICK c \in T : c = First(T)
      BY DEF First
    <2>5. SumFunctionOnSet(f, T) = f[c] + SumFunctionOnSet(f, T \ {c})
      BY <2>2, <2>4, SumUnfold
    <2>6. x # c
      BY <2>3, <2>5
    <2>7. PICK Tc, Tx, R : Tc = T \ {c} /\ Tx = T \ {x} /\ R = T \ {c, x}
      OBVIOUS
    <2>8. /\ Tc \in SUBSET T /\ Tx \in SUBSET T /\ R \in SUBSET T
           /\ x \in Tc /\ c \in Tx /\ Tc # T /\ Tx # T /\ R = Tc \ {x} /\ R = Tx \ {c}
      BY <2>6, <2>7
    <2>9. Good(Tc) /\ Good(Tx)
      BY <2>1, <2>2, <2>8
    <2>10. /\ SumFunctionOnSet(f, Tc) = f[x] + SumFunctionOnSet(f, R)
          /\ SumFunctionOnSet(f, Tx) = f[c] + SumFunctionOnSet(f, R)
      BY <2>8, <2>9
    <2>11. IsFiniteSet(R) /\ (\A z \in R : f[z] \in Int)
      BY <2>2, <2>8, FS_Subset
    <2>12. SumFunctionOnSet(f, R) \in Int /\ f[x] \in Int /\ f[c] \in Int
      BY <2>2, <2>11, SumType
    <2>13. QED
      BY <2>3, <2>5, <2>7, <2>10, <2>12
  <1>2. QED
    BY <1>1

(* A new entry adds to the sum.                                            *)
LEMMA SumAdd ==
  ASSUME NEW f, NEW g, NEW S, IsFiniteSet(S), NEW y, y \notin S, g[y] \in Int,
         \A x \in S : f[x] \in Int /\ g[x] = f[x]
  PROVE  SumFunctionOnSet(g, S \cup {y}) = SumFunctionOnSet(f, S) + g[y]
  <1>0. PICK T : T = S \cup {y}
    OBVIOUS
  <1>1. T = S \cup {y} /\ IsFiniteSet(T) /\ S = T \ {y} /\ y \in T
    BY <1>0, FS_AddElement
  <1>2. \A x \in T : g[x] \in Int
    BY <1>1
  <1>3. SumFunctionOnSet(g, T) = g[y] + SumFunctionOnSet(g, S)
    BY <1>1, <1>2, SumRemove
  <1>4. SumFunctionOnSet(g, S) = SumFunctionOnSet(f, S) /\ SumFunctionOnSet(f, S) \in Int
    BY SumSame, SumType
  <1>5. QED
    BY <1>1, <1>3, <1>4

(* A changed entry changes the sum by the difference.                      *)
LEMMA SumChange ==
  ASSUME NEW f, NEW g, NEW S, IsFiniteSet(S), NEW y \in S,
         \A x \in S : f[x] \in Int /\ g[x] \in Int /\ (x # y => g[x] = f[x])
  PROVE  SumFunctionOnSet(g, S) = SumFunctionOnSet(f, S) - f[y] + g[y]
  <1>1. PICK R : R = S \ {y} /\ IsFiniteSet(R)
    BY FS_RemoveElement
  <1>2. /\ SumFunctionOnSet(f, S) = f[y] + SumFunctionOnSet(f, R)
        /\ SumFunctionOnSet(g, S) = g[y] + SumFunctionOnSet(g, R)
    BY <1>1, SumRemove
  <1>3. SumFunctionOnSet(g, R) = SumFunctionOnSet(f, R) /\ SumFunctionOnSet(f, R) \in Int
    BY <1>1, SumSame, SumType
  <1>4. QED
    BY <1>2, <1>3

(* The sum of zeros is zero.                                               *)
LEMMA SumOfZeros ==
  ASSUME NEW f, NEW S, IsFiniteSet(S), \A x \in S : f[x] = 0
  PROVE  SumFunctionOnSet(f, S) = 0
  <1> DEFINE Bad == {T \in SUBSET S : SumFunctionOnSet(f, T) # 0}
  <1>1. CASE Bad # {}
    <2>0. Bad \in SUBSET (SUBSET S)
      OBVIOUS
    <2> HIDE DEF Bad
    <2>1. PICK T \in Bad : \A U \in Bad : U \subseteq T => U = T
      BY <1>1, <2>0, MinimalSet
    <2> USE DEF Bad
    <2>2. IsFiniteSet(T) /\ T \in SUBSET S
      BY <2>1, FS_Subset
    <2>3. CASE T # {}
      <3>0. PICK x, U : x = First(T) /\ U = T \ {First(T)}
        OBVIOUS
      <3>1. x = First(T) /\ U = T \ {x} /\ x \in T /\ U \in SUBSET T /\ U # T
        BY <2>3, <3>0, FirstOut
      <3>2. SumFunctionOnSet(f, U) = 0 /\ f[x] = 0
        BY <2>1, <2>2, <3>1
      <3>3. SumFunctionOnSet(f, T) = f[x] + SumFunctionOnSet(f, U)
        BY <2>2, <2>3, <3>1, SumUnfold
      <3>4. QED
        BY <2>1, <3>2, <3>3
    <2>4. QED
      BY <2>1, <2>2, <2>3, SumUnfold
  <1>2. QED
    BY <1>1

(* Larger entries have a larger sum.                                       *)
LEMMA SumGrows ==
  ASSUME NEW f, NEW g, NEW S, IsFiniteSet(S),
         \A x \in S : f[x] \in Int /\ g[x] \in Int /\ f[x] <= g[x]
  PROVE  SumFunctionOnSet(f, S) <= SumFunctionOnSet(g, S)
  <1> DEFINE Bad == {T \in SUBSET S : ~(SumFunctionOnSet(f, T) <= SumFunctionOnSet(g, T))}
  <1>1. CASE Bad # {}
    <2>0. Bad \in SUBSET (SUBSET S)
      OBVIOUS
    <2> HIDE DEF Bad
    <2>1. PICK T \in Bad : \A U \in Bad : U \subseteq T => U = T
      BY <1>1, <2>0, MinimalSet
    <2> USE DEF Bad
    <2>2. IsFiniteSet(T) /\ T \in SUBSET S
      BY <2>1, FS_Subset
    <2>3. CASE T # {}
      <3>0. PICK x, U : x = First(T) /\ U = T \ {First(T)}
        OBVIOUS
      <3>1. x = First(T) /\ U = T \ {x} /\ x \in T /\ U \in SUBSET T /\ U # T
        BY <2>3, <3>0, FirstOut
      <3>2. SumFunctionOnSet(f, U) <= SumFunctionOnSet(g, U)
        BY <2>1, <2>2, <3>1
      <3>3. IsFiniteSet(U) /\ \A y \in U : f[y] \in Int /\ g[y] \in Int
        BY <2>2, <3>1, FS_Subset
      <3>4. SumFunctionOnSet(f, U) \in Int /\ SumFunctionOnSet(g, U) \in Int
        BY <3>3, SumType
      <3>5. /\ SumFunctionOnSet(f, T) = f[x] + SumFunctionOnSet(f, U)
            /\ SumFunctionOnSet(g, T) = g[x] + SumFunctionOnSet(g, U)
        BY <2>2, <2>3, <3>1, SumUnfold
      <3>6. f[x] \in Int /\ g[x] \in Int /\ f[x] <= g[x]
        BY <2>2, <3>1
      <3>7. SumFunctionOnSet(f, T) <= SumFunctionOnSet(g, T)
        BY <3>2, <3>4, <3>5, <3>6
      <3>8. QED
        BY <2>1, <3>7
    <2>4. CASE T = {}
      <3>1. SumFunctionOnSet(f, T) = 0 /\ SumFunctionOnSet(g, T) = 0
        BY <2>2, <2>4, SumUnfold
      <3>2. QED
        BY <2>1, <3>1
    <2>5. QED
      BY <2>3, <2>4
  <1>2. QED
    BY <1>1

(* What one more factor does to a product.                                 *)
LEMMA OneMoreTimes ==
  ASSUME NEW n \in Nat, NEW k \in Nat
  PROVE  n * k \in Nat /\ n * k + k = (n + 1) * k /\ 0 * k = 0
  OBVIOUS

(* A sum of n entries of at most k is at most n times k.                   *)
LEMMA SumBounded ==
  ASSUME NEW f, NEW S, IsFiniteSet(S), NEW k \in Nat,
         \A x \in S : f[x] \in Int /\ f[x] <= k
  PROVE  SumFunctionOnSet(f, S) <= Cardinality(S) * k
  <1> DEFINE Bad == {T \in SUBSET S : ~(SumFunctionOnSet(f, T) <= Cardinality(T) * k)}
  <1>1. CASE Bad # {}
    <2>0. Bad \in SUBSET (SUBSET S)
      OBVIOUS
    <2> HIDE DEF Bad
    <2>1. PICK T \in Bad : \A U \in Bad : U \subseteq T => U = T
      BY <1>1, <2>0, MinimalSet
    <2> USE DEF Bad
    <2>2. IsFiniteSet(T) /\ T \in SUBSET S
      BY <2>1, FS_Subset
    <2>3. CASE T # {}
      <3>0. PICK x, U : x = First(T) /\ U = T \ {First(T)}
        OBVIOUS
      <3>1. x = First(T) /\ U = T \ {x} /\ x \in T /\ U \in SUBSET T /\ U # T
        BY <2>3, <3>0, FirstOut
      <3>2. SumFunctionOnSet(f, U) <= Cardinality(U) * k
        BY <2>1, <2>2, <3>1
      <3>3. IsFiniteSet(U) /\ \A y \in U : f[y] \in Int
        BY <2>2, <3>1, FS_Subset
      <3>4. SumFunctionOnSet(f, U) \in Int
        BY <3>3, SumType
      <3>5. SumFunctionOnSet(f, T) = f[x] + SumFunctionOnSet(f, U)
        BY <2>2, <2>3, <3>1, SumUnfold
      <3>6. f[x] \in Int /\ f[x] <= k
        BY <2>2, <3>1
      <3>7. PICK n \in Nat : Cardinality(U) = n /\ Cardinality(T) = n + 1
        BY <2>2, <3>1, <3>3, FS_RemoveElement, FS_CardinalityType
      <3>8. n * k \in Nat /\ n * k + k = (n + 1) * k
        BY OneMoreTimes
      <3>9. PICK p, q : p = n * k /\ q = (n + 1) * k
        OBVIOUS
      <3>10. SumFunctionOnSet(f, T) <= q
        BY <3>2, <3>4, <3>5, <3>6, <3>7, <3>8, <3>9
      <3>11. QED
        BY <2>1, <3>7, <3>9, <3>10
    <2>4. CASE T = {}
      <3>1. SumFunctionOnSet(f, T) = 0 /\ Cardinality(T) = 0
        BY <2>2, <2>4, SumUnfold, FS_EmptySet
      <3>2. 0 * k = 0
        BY OneMoreTimes
      <3>3. QED
        BY <2>1, <3>1, <3>2
    <2>5. QED
      BY <2>3, <2>4
  <1>2. QED
    BY <1>1

=============================================================================

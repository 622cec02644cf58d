------------------------------ MODULE Inductions ------------------------------
(* Lemmas about naturals, finite sets, sums and orders.  The library states   *)
(* induction with an operator as a parameter, and well-foundedness without;   *)
(* so here induction is by a least counterexample, stated about sets.         *)
EXTENDS Sql, Sequences, FiniteSetTheorems, WellFoundedInduction, TLAPS

(* A nonempty set of naturals has a least member.                             *)
LEMMA LeastNat ==
    ASSUME NEW S, S \subseteq Nat, S # {}
    PROVE  \E m \in S : \A n \in S : m <= n
<1>1. IsWellFoundedOn(OpToRel(<, Nat), Nat)
  BY NatLessThanWellFounded
<1>2. PICK m \in S : \A n \in S : ~ (<<n, m>> \in OpToRel(<, Nat))
  BY <1>1, WFMin
<1>3. ASSUME NEW n \in S PROVE m <= n
  <2>1. n \in Nat /\ m \in Nat
    BY <1>2
  <2>2. ~ (n < m)
    BY <1>2, <2>1 DEF OpToRel
  <2> QED
    BY <2>1, <2>2
<1> QED
  BY <1>2, <1>3

(* A set that holds 0 and the successor of each of its naturals holds them    *)
(* all.                                                                       *)
LEMMA NatSetInduction ==
    ASSUME NEW P, 0 \in P, \A n \in Nat : n \in P => n + 1 \in P
    PROVE  Nat \subseteq P
<1> SUFFICES ASSUME Nat \ P # {} PROVE FALSE
  OBVIOUS
<1>1. PICK m \in Nat \ P : \A n \in Nat \ P : m <= n
  BY LeastNat
<1>2. m \in Nat /\ m \notin P /\ m # 0
  BY <1>1
<1>3. m - 1 \in Nat /\ ~ (m <= m - 1) /\ (m - 1) + 1 = m
  BY <1>2
<1> QED
  BY <1>1, <1>2, <1>3

(* A nonempty family of subsets of a finite set has a minimal member.         *)
LEMMA MinimalSet ==
    ASSUME NEW U, IsFiniteSet(U), NEW F, F \subseteq SUBSET U, F # {}
    PROVE  \E T \in F : \A R \in F : R \subseteq T => R = T
<1>1. F \subseteq FiniteSubsetsOf(U)
  BY FS_Subset DEF FiniteSubsetsOf
<1>2. IsWellFoundedOn(StrictSubsetOrdering(U), FiniteSubsetsOf(U))
  BY FS_StrictSubsetOrderingWellFounded
<1>3. PICK T \in F : \A R \in F : ~ (<<R, T>> \in StrictSubsetOrdering(U))
  BY <1>1, <1>2, WFMin
<1>4. ASSUME NEW R \in F, R \subseteq T PROVE R = T
  BY <1>1, <1>3, <1>4 DEF StrictSubsetOrdering
<1> QED
  BY <1>4

-----------------------------------------------------------------------------
(* What the recursive function of SumOver does at T, and the functions on a   *)
(* family of sets that do so everywhere.                                      *)
Total(g, T, f) ==
    IF T = {} THEN 0
    ELSE LET x == CHOOSE x \in T : TRUE IN f[x] + g[T \ {x}]

(* g totals f on every set of a family.                                       *)
IsTotal(g, D, f) == g = [T \in D |-> Total(g, T, f)]

(* There is such a function on the subsets of a finite set ...                *)
LEMMA TotalExists ==
    ASSUME NEW S, IsFiniteSet(S), NEW f
    PROVE  \E g : IsTotal(g, SUBSET S, f)
<1> DEFINE Small(n) == {T \in SUBSET S : Cardinality(T) <= n}
<1> DEFINE P == {n \in Nat : \E g : IsTotal(g, Small(n), f)}
<1>0. \A T \in SUBSET S : IsFiniteSet(T) /\ Cardinality(T) \in Nat
  BY FS_Subset, FS_CardinalityType
<1>1. 0 \in P
  <2> DEFINE g == [T \in Small(0) |-> 0]
  <2>1. \A T \in Small(0) : T = {}
    BY <1>0, FS_EmptySet
  <2>2. IsTotal(g, Small(0), f)
    BY <2>1 DEF Total, IsTotal
  <2> QED
    BY <2>2
<1>2. ASSUME NEW n \in Nat, n \in P PROVE n + 1 \in P
  <2>1. PICK g : g = [T \in Small(n) |-> Total(g, T, f)]
    BY <1>2 DEF IsTotal
  <2> DEFINE h == [T \in Small(n + 1) |-> IF T \in Small(n) THEN g[T] ELSE Total(g, T, f)]
  <2>2. ASSUME NEW T \in Small(n + 1) PROVE h[T] = Total(h, T, f)
    <3> DEFINE x == CHOOSE x \in T : TRUE
    <3>1. CASE T = {}
      BY <3>1, <2>1 DEF Total
    <3>2. CASE T # {}
      <4>1. x \in T
        BY <3>2
      <4>2. T \ {x} \in Small(n) /\ T \ {x} \in Small(n + 1)
        <5>1. Cardinality(T \ {x}) = Cardinality(T) - 1
          BY <1>0, <4>1, FS_RemoveElement
        <5>2. Cardinality(T) \in Nat /\ Cardinality(T) <= n + 1
          BY <1>0
        <5> QED
          BY <5>1, <5>2
      <4>3. h[T \ {x}] = g[T \ {x}]
        BY <4>2
      <4>4. Total(h, T, f) = Total(g, T, f)
        BY <4>3 DEF Total
      <4>5. T \in Small(n) => g[T] = Total(g, T, f)
        BY <2>1
      <4> QED
        BY <4>4, <4>5
    <3> QED
      BY <3>1, <3>2
  <2>3. IsTotal(h, Small(n + 1), f)
    BY <2>2 DEF IsTotal
  <2>4. \E k : IsTotal(k, Small(n + 1), f)
    <3> HIDE DEF h, Small
    <3> QED
      BY <2>3
  <2>5. n + 1 \in Nat
    OBVIOUS
  <2> QED
    BY <2>4, <2>5, Zenon
<1>3. Cardinality(S) \in P
  <2> HIDE DEF P
  <2>1. Nat \subseteq P
    BY <1>1, <1>2, NatSetInduction
  <2> QED
    BY <1>0, <2>1
<1>4. Small(Cardinality(S)) = SUBSET S
  BY FS_Subset
<1> QED
  BY <1>3, <1>4

(* ... SumOver chooses one ...                                                *)
TheTotal(S, f) == CHOOSE g : IsTotal(g, SUBSET S, f)

(* SumOver is the value of the function its recursive definition chooses, ... *)
LEMMA SumChoice ==
    ASSUME NEW S, NEW f
    PROVE  SumOver(S, f) = TheTotal(S, f)[S]
BY DEF TheTotal, SumOver, Total, IsTotal

(* ... and the function chosen totals f on every subset.                      *)
LEMMA TheTotalIsTotal ==
    ASSUME NEW S, IsFiniteSet(S), NEW f
    PROVE  IsTotal(TheTotal(S, f), SUBSET S, f)
<1>1. \E g : IsTotal(g, SUBSET S, f)
  BY TotalExists
<1> QED
  BY <1>1 DEF TheTotal

(* ... and any two agree where both are defined and f does.                   *)
LEMMA TotalUnique ==
    ASSUME NEW S, IsFiniteSet(S), NEW R, NEW f, NEW e, NEW g, NEW h,
           IsTotal(g, SUBSET S, f), IsTotal(h, SUBSET R, e),
           NEW T, T \subseteq S, T \subseteq R, \A x \in T : f[x] = e[x]
    PROVE  g[T] = h[T]
<1> DEFINE Bad == {U \in SUBSET T : g[U] # h[U]}
<1>1. ASSUME Bad # {} PROVE FALSE
  <2>1. PICK U \in Bad : \A V \in Bad : V \subseteq U => V = U
    <3>1. Bad \subseteq SUBSET T /\ IsFiniteSet(T)
      BY FS_Subset
    <3> HIDE DEF Bad
    <3> QED
      BY <1>1, <3>1, MinimalSet
  <2>2. U \in SUBSET S /\ U \in SUBSET R
    OBVIOUS
  <2>3. g[U] = Total(g, U, f) /\ h[U] = Total(h, U, e)
    BY <2>2 DEF IsTotal
  <2>4. CASE U = {}
    BY <2>3, <2>4 DEF Total
  <2>5. CASE U # {}
    <3> DEFINE x == CHOOSE x \in U : TRUE
    <3>1. x \in U
      BY <2>5
    <3>2. U \ {x} \in SUBSET T /\ U \ {x} # U /\ U \ {x} \subseteq U
      BY <3>1
    <3>3. g[U \ {x}] = h[U \ {x}]
      BY <2>1, <3>2
    <3>4. f[x] = e[x]
      BY <3>1
    <3> QED
      BY <2>3, <2>5, <3>3, <3>4 DEF Total
  <2> QED
    BY <2>4, <2>5
<1> QED
  BY <1>1

(* A total of integers is an integer; a total of naturals a natural.          *)
LEMMA TotalType ==
    ASSUME NEW S, IsFiniteSet(S), NEW f, NEW N, N = Nat \/ N = Int,
           \A x \in S : f[x] \in N, NEW g, IsTotal(g, SUBSET S, f)
    PROVE  \A T \in SUBSET S : g[T] \in N
<1> DEFINE Bad == {U \in SUBSET S : g[U] \notin N}
<1>1. ASSUME Bad # {} PROVE FALSE
  <2>1. PICK U \in Bad : \A V \in Bad : V \subseteq U => V = U
    <3>1. Bad \subseteq SUBSET S
      OBVIOUS
    <3> HIDE DEF Bad
    <3> QED
      BY <1>1, <3>1, MinimalSet
  <2>2. g[U] = Total(g, U, f)
    BY DEF IsTotal
  <2>3. CASE U = {}
    BY <2>2, <2>3 DEF Total
  <2>4. CASE U # {}
    <3> DEFINE x == CHOOSE x \in U : TRUE
    <3>1. x \in U
      BY <2>4
    <3>2. U \ {x} \in SUBSET S /\ U \ {x} # U /\ U \ {x} \subseteq U
      BY <3>1
    <3>3. g[U \ {x}] \in N
      BY <2>1, <3>2
    <3>4. f[x] \in N
      BY <3>1
    <3>5. f[x] + g[U \ {x}] \in N
      BY <3>3, <3>4
    <3> QED
      BY <2>2, <2>4, <3>5 DEF Total
  <2> QED
    BY <2>3, <2>4
<1> QED
  BY <1>1

(* Any element of a set can be counted first.                                 *)
LEMMA TotalAny ==
    ASSUME NEW S, IsFiniteSet(S), NEW f, \A x \in S : f[x] \in Int,
           NEW g, IsTotal(g, SUBSET S, f)
    PROVE  \A T \in SUBSET S : \A y \in T : g[T] = f[y] + g[T \ {y}]
<1> DEFINE Bad == {U \in SUBSET S : \E y \in U : g[U] # f[y] + g[U \ {y}]}
<1>0. \A T \in SUBSET S : g[T] \in Int
  BY TotalType
<1>1. ASSUME Bad # {} PROVE FALSE
  <2>1. PICK U \in Bad : \A V \in Bad : V \subseteq U => V = U
    <3>1. Bad \subseteq SUBSET S
      OBVIOUS
    <3> HIDE DEF Bad
    <3> QED
      BY <1>1, <3>1, MinimalSet
  <2>2. PICK y \in U : g[U] # f[y] + g[U \ {y}]
    OBVIOUS
  <2> DEFINE x == CHOOSE x \in U : TRUE
  <2>3. x \in U
    BY <2>2
  <2>4. g[U] = f[x] + g[U \ {x}]
    BY <2>2 DEF IsTotal, Total
  <2>5. x # y
    BY <2>2, <2>4
  <2>6. g[U \ {x}] = f[y] + g[(U \ {x}) \ {y}]
    <3>1. U \ {x} \in SUBSET S /\ U \ {x} \subseteq U /\ U \ {x} # U /\ y \in U \ {x}
      BY <2>2, <2>3, <2>5
    <3> QED
      BY <2>1, <3>1
  <2>7. g[U \ {y}] = f[x] + g[(U \ {y}) \ {x}]
    <3>1. U \ {y} \in SUBSET S /\ U \ {y} \subseteq U /\ U \ {y} # U /\ x \in U \ {y}
      BY <2>2, <2>3, <2>5
    <3> QED
      BY <2>1, <3>1
  <2>8. (U \ {x}) \ {y} = (U \ {y}) \ {x}
    OBVIOUS
  <2>9. /\ f[x] \in Int /\ f[y] \in Int /\ g[(U \ {y}) \ {x}] \in Int
    <3>1. (U \ {y}) \ {x} \in SUBSET S
      OBVIOUS
    <3> QED
      BY <1>0, <3>1, <2>2, <2>3
  <2> DEFINE c == g[(U \ {y}) \ {x}]
  <2>10. g[U] = f[x] + (f[y] + c) /\ g[U \ {y}] = f[x] + c
    BY <2>4, <2>6, <2>7, <2>8
  <2>11. f[x] + (f[y] + c) = f[y] + (f[x] + c)
    <3> HIDE DEF x, c
    <3> QED
      BY <2>9 DEF c
  <2> QED
    BY <2>2, <2>10, <2>11
<1> QED
  BY <1>1

-----------------------------------------------------------------------------
(* The sum over no rows is zero.                                              *)
LEMMA SumEmpty ==
    ASSUME NEW f PROVE SumOver({}, f) = 0
<1>1. IsTotal(TheTotal({}, f), SUBSET {}, f)
  BY FS_EmptySet, TheTotalIsTotal
<1> QED
  BY <1>1, SumChoice DEF IsTotal, Total

(* The sum over naturals is a natural.                                        *)
LEMMA SumNat ==
    ASSUME NEW S, IsFiniteSet(S), NEW f, \A x \in S : f[x] \in Nat
    PROVE  SumOver(S, f) \in Nat
<1>1. IsTotal(TheTotal(S, f), SUBSET S, f)
  BY TheTotalIsTotal
<1>2. \A T \in SUBSET S : TheTotal(S, f)[T] \in Nat
  BY <1>1, TotalType
<1> QED
  BY <1>2, SumChoice

(* A sum depends on the summands only.                                        *)
LEMMA SumAgree ==
    ASSUME NEW S, IsFiniteSet(S), NEW f, NEW e, \A x \in S : f[x] = e[x]
    PROVE  SumOver(S, f) = SumOver(S, e)
<1>1. IsTotal(TheTotal(S, f), SUBSET S, f) /\ IsTotal(TheTotal(S, e), SUBSET S, e)
  BY TheTotalIsTotal
<1>2. TheTotal(S, f)[S] = TheTotal(S, e)[S]
  BY <1>1, TotalUnique
<1> QED
  BY <1>2, SumChoice

(* Each row is counted once.                                                  *)
LEMMA SumSplit ==
    ASSUME NEW S, IsFiniteSet(S), NEW f, \A x \in S : f[x] \in Int, NEW y \in S
    PROVE  SumOver(S, f) = f[y] + SumOver(S \ {y}, f)
<1> DEFINE R == S \ {y}
<1>1. IsFiniteSet(R)
  BY FS_Subset
<1>2. IsTotal(TheTotal(S, f), SUBSET S, f) /\ IsTotal(TheTotal(R, f), SUBSET R, f)
  BY <1>1, TheTotalIsTotal
<1>3. TheTotal(S, f)[S] = f[y] + TheTotal(S, f)[R]
  BY <1>2, TotalAny
<1>4. TheTotal(S, f)[R] = TheTotal(R, f)[R]
  <2>1. R \subseteq S /\ R \subseteq R /\ \A x \in R : f[x] = f[x]
    OBVIOUS
  <2> HIDE DEF R
  <2> QED
    BY <1>2, <2>1, TotalUnique
<1> QED
  BY <1>3, <1>4, SumChoice

(* A summand of a sum of naturals is at most the sum.                         *)
LEMMA SumBound ==
    ASSUME NEW S, IsFiniteSet(S), NEW f, \A x \in S : f[x] \in Nat, NEW y \in S
    PROVE  f[y] <= SumOver(S, f)
<1>1. SumOver(S, f) = f[y] + SumOver(S \ {y}, f)
  BY SumSplit
<1>2. SumOver(S \ {y}, f) \in Nat
  BY FS_Subset, SumNat
<1> QED
  BY <1>1, <1>2

(* A new row adds itself.                                                     *)
LEMMA SumAdd ==
    ASSUME NEW S, IsFiniteSet(S), NEW f, NEW y, y \notin S,
           \A x \in S \cup {y} : f[x] \in Int
    PROVE  SumOver(S \cup {y}, f) = SumOver(S, f) + f[y]
<1>1. IsFiniteSet(S \cup {y})
  BY FS_AddElement
<1>2. SumOver(S \cup {y}, f) = f[y] + SumOver((S \cup {y}) \ {y}, f)
  BY <1>1, SumSplit
<1>3. (S \cup {y}) \ {y} = S
  OBVIOUS
<1>4. SumOver(S, f) \in Int
  <2>1. \A T \in SUBSET S : TheTotal(S, f)[T] \in Int
    BY TheTotalIsTotal, TotalType
  <2> QED
    BY <2>1, SumChoice
<1>5. f[y] \in Int
  OBVIOUS
<1>6. SumOver(S \cup {y}, f) = f[y] + SumOver(S, f)
  BY <1>2, <1>3, Zenon
<1>7. f[y] + SumOver(S, f) = SumOver(S, f) + f[y]
  BY <1>4, <1>5
<1> QED
  BY <1>6, <1>7, Zenon

-----------------------------------------------------------------------------
(* Among finitely many things one has the least integer.                      *)
LEMMA LeastValue ==
    ASSUME NEW S, IsFiniteSet(S), S # {}, NEW f, \A x \in S : f[x] \in Int
    PROVE  \E m \in S : \A x \in S : f[m] <= f[x]
<1> DEFINE upTo(x) == {y \in S : f[y] <= f[x]}
<1> DEFINE F == {upTo(x) : x \in S}
<1>1. PICK T \in F : \A R \in F : R \subseteq T => R = T
  <2>1. F \subseteq SUBSET S /\ F # {}
    OBVIOUS
  <2> HIDE DEF F
  <2> QED
    BY <2>1, MinimalSet
<1>2. PICK m \in S : T = upTo(m)
  OBVIOUS
<1>3. ASSUME NEW x \in S PROVE f[m] <= f[x]
  <2>1. SUFFICES ASSUME f[x] < f[m] PROVE FALSE
    OBVIOUS
  <2>2. upTo(x) \in F /\ upTo(x) \subseteq upTo(m)
    BY <2>1
  <2>3. upTo(x) = upTo(m)
    BY <1>1, <1>2, <2>2
  <2>4. m \in upTo(x)
    BY <2>3
  <2> QED
    BY <2>1, <2>4
<1> QED
  BY <1>3

-----------------------------------------------------------------------------
(* The keys of an ORDER BY: integers, no two rows alike.                      *)
SortKeys(S, key) ==
    /\ \A x \in S : key[x] \in Int
    /\ \A x, y \in S : key[x] = key[y] => x = y

(* The rows that come before a row.                                           *)
Ahead(S, key, x) == {y \in S : key[y] < key[x]}

(* More rows come before a later row.                                         *)
LEMMA AheadGrows ==
    ASSUME NEW S, IsFiniteSet(S), NEW key, SortKeys(S, key), NEW x \in S
    PROVE  /\ Cardinality(Ahead(S, key, x)) \in 0 .. Cardinality(S) - 1
           /\ \A y \in S : key[x] < key[y] =>
                  Cardinality(Ahead(S, key, x)) < Cardinality(Ahead(S, key, y))
<1>1. ASSUME NEW R, R \subseteq S, Ahead(S, key, x) \subseteq R, x \in R
      PROVE  Cardinality(Ahead(S, key, x)) < Cardinality(R)
  <2>1. IsFiniteSet(R) /\ IsFiniteSet(Ahead(S, key, x)) /\ x \notin Ahead(S, key, x)
    BY <1>1, FS_Subset DEF Ahead, SortKeys
  <2>2. /\ Cardinality(Ahead(S, key, x)) <= Cardinality(R)
        /\ Cardinality(R) = Cardinality(Ahead(S, key, x)) => R = Ahead(S, key, x)
    BY <1>1, <2>1, FS_Subset
  <2> QED
    BY <1>1, <2>1, <2>2, FS_CardinalityType
<1>2. IsFiniteSet(Ahead(S, key, x)) /\ Ahead(S, key, x) \subseteq S
  BY FS_Subset DEF Ahead
<1>3. Cardinality(Ahead(S, key, x)) < Cardinality(S)
  BY <1>1, <1>2
<1>4. ASSUME NEW y \in S, key[x] < key[y]
      PROVE  Cardinality(Ahead(S, key, x)) < Cardinality(Ahead(S, key, y))
  BY <1>1, <1>4 DEF Ahead, SortKeys
<1> QED
  BY <1>2, <1>3, <1>4, FS_CardinalityType

(* So every place is taken, ...                                               *)
LEMMA PlacesTaken ==
    ASSUME NEW S, IsFiniteSet(S), NEW key, SortKeys(S, key), NEW i \in 1 .. Cardinality(S)
    PROVE  \E x \in S : Cardinality(Ahead(S, key, x)) = i - 1
<1> DEFINE n == Cardinality(S)
<1> DEFINE place == [x \in S |-> Cardinality(Ahead(S, key, x)) + 1]
<1>1. n \in Nat /\ IsFiniteSet(1 .. n) /\ Cardinality(1 .. n) = n
  BY FS_CardinalityType, FS_Interval
<1>2. \A x \in S : Cardinality(Ahead(S, key, x)) \in Nat /\ place[x] \in 1 .. n
  BY AheadGrows, <1>1
<1>3. ASSUME NEW x \in S, NEW y \in S, place[x] = place[y] PROVE x = y
  <2>1. Cardinality(Ahead(S, key, x)) = Cardinality(Ahead(S, key, y))
    BY <1>2, <1>3
  <2>2. ~ (key[x] < key[y]) /\ ~ (key[y] < key[x])
    BY <1>2, <2>1, AheadGrows
  <2> QED
    BY <2>2 DEF SortKeys
<1>4. place \in Injection(S, 1 .. n)
  <2>1. place \in [S -> 1 .. n]
    BY <1>2
  <2> QED
    BY <1>3, <2>1 DEF Injection, IsInjective
<1>5. place \in Surjection(S, 1 .. n)
  <2> HIDE DEF place
  <2> QED
    BY <1>1, <1>4, FS_Injection
<1>6. PICK x \in S : place[x] = i
  BY <1>5 DEF Surjection
<1> QED
  BY <1>2, <1>6

(* ... and ORDER BY puts every row at one place, in the order of the keys.    *)
LEMMA OrderedRows ==
    ASSUME NEW S, IsFiniteSet(S), NEW key, SortKeys(S, key)
    PROVE  LET s == OrderBy(S, key)
           IN  /\ s \in Seq(S) /\ Len(s) = Cardinality(S)
               /\ \A i, j \in 1 .. Len(s) : i < j => key[s[i]] < key[s[j]]
               /\ \A x \in S : \E i \in 1 .. Len(s) : s[i] = x
<1> DEFINE s == OrderBy(S, key)
<1> DEFINE n == Cardinality(S)
<1>1. n \in Nat
  BY FS_CardinalityType
<1>2. s = [i \in 1 .. n |-> CHOOSE x \in S : Cardinality(Ahead(S, key, x)) = i - 1]
  BY DEF OrderBy, Ahead
<1> HIDE DEF s
<1>3. \A i \in 1 .. n : s[i] \in S /\ Cardinality(Ahead(S, key, s[i])) = i - 1
  BY <1>2, PlacesTaken
<1>4. s \in Seq(S) /\ Len(s) = n
  <2>1. s \in [1 .. n -> S]
    BY <1>2, <1>3
  <2> QED
    BY <1>1, <2>1
<1>5. ASSUME NEW i \in 1 .. n, NEW j \in 1 .. n, i < j PROVE key[s[i]] < key[s[j]]
  <2>1. PICK x \in S : x = s[i]
    BY <1>3
  <2>2. PICK y \in S : y = s[j]
    BY <1>3
  <2>3. Cardinality(Ahead(S, key, x)) = i - 1 /\ Cardinality(Ahead(S, key, y)) = j - 1
    BY <1>3, <2>1, <2>2
  <2>4. ~ (key[y] < key[x]) /\ x # y
    BY <1>5, <2>3, AheadGrows
  <2> QED
    BY <2>1, <2>2, <2>4 DEF SortKeys
<1>6. ASSUME NEW x \in S PROVE \E i \in 1 .. n : s[i] = x
  <2>1. PICK i : i = Cardinality(Ahead(S, key, x)) + 1
    OBVIOUS
  <2>2. i \in 1 .. n /\ Cardinality(Ahead(S, key, x)) = i - 1
    BY <1>1, <2>1, AheadGrows
  <2>3. PICK y \in S : y = s[i]
    BY <1>3, <2>2
  <2>4. Cardinality(Ahead(S, key, y)) = Cardinality(Ahead(S, key, x))
    BY <1>3, <2>2, <2>3
  <2>5. ~ (key[y] < key[x]) /\ ~ (key[x] < key[y])
    BY <1>1, <2>2, <2>4, AheadGrows
  <2> QED
    BY <2>2, <2>3, <2>5 DEF SortKeys
<1> QED
  BY <1>4, <1>5, <1>6 DEF s

(* Rows whose keys are the numbers from 1 on come in that order.              *)
LEMMA NumberedRows ==
    ASSUME NEW S, IsFiniteSet(S), NEW key, SortKeys(S, key),
           \A x \in S : key[x] \in Nat \ {0},
           \A x \in S : \A k \in 1 .. key[x] : \E y \in S : key[y] = k
    PROVE  LET s == OrderBy(S, key)
           IN  /\ s \in Seq(S)
               /\ \A i \in 1 .. Len(s) : key[s[i]] = i
               /\ \A x \in S : key[x] \in 1 .. Len(s) /\ s[key[x]] = x
<1> DEFINE s == OrderBy(S, key)
<1>1. /\ s \in Seq(S)
      /\ \A i, j \in 1 .. Len(s) : i < j => key[s[i]] < key[s[j]]
      /\ \A x \in S : \E i \in 1 .. Len(s) : s[i] = x
  BY OrderedRows
<1> HIDE DEF s
<1> DEFINE Bad == {i \in 1 .. Len(s) : key[s[i]] # i}
<1>2. ASSUME Bad # {} PROVE FALSE
  <2>1. PICK m \in Bad : \A n \in Bad : m <= n
    <3>1. Bad \subseteq Nat
      BY <1>1
    <3> HIDE DEF Bad
    <3> QED
      BY <1>2, <3>1, LeastNat
  <2>2. Len(s) \in Nat /\ m \in 1 .. Len(s) /\ key[s[m]] # m
    BY <1>1
  <2>3. s[m] \in S /\ key[s[m]] \in Nat \ {0}
    BY <1>1, <2>2
  <2>4. \A i \in 1 .. m - 1 : key[s[i]] = i
    BY <2>1, <2>2
  <2>5. CASE key[s[m]] < m
    <3>1. PICK i : i = key[s[m]]
      OBVIOUS
    <3>2. i \in 1 .. m - 1 /\ i \in 1 .. Len(s) /\ i < m
      BY <2>2, <2>3, <2>5, <3>1
    <3>3. key[s[i]] = i /\ key[s[i]] < key[s[m]]
      BY <1>1, <2>2, <2>4, <3>2
    <3> QED
      BY <3>1, <3>2, <3>3
  <2>6. CASE m < key[s[m]]
    <3>1. PICK y \in S : key[y] = m
      BY <2>2, <2>3, <2>6
    <3>2. PICK j \in 1 .. Len(s) : s[j] = y
      BY <1>1
    <3>3. j # m
      BY <2>2, <3>1, <3>2
    <3>4. CASE j < m
      BY <2>2, <2>4, <3>1, <3>2, <3>4
    <3>5. CASE m < j
      <4>1. key[s[m]] < key[s[j]]
        BY <1>1, <2>2, <3>2, <3>5
      <4> QED
        BY <2>3, <2>6, <3>1, <3>2, <4>1
    <3> QED
      BY <2>2, <3>3, <3>4, <3>5
  <2> QED
    BY <2>2, <2>3, <2>5, <2>6
<1>3. \A i \in 1 .. Len(s) : key[s[i]] = i
  BY <1>2
<1>4. ASSUME NEW x \in S PROVE key[x] \in 1 .. Len(s) /\ s[key[x]] = x
  <2>1. PICK i \in 1 .. Len(s) : s[i] = x
    BY <1>1
  <2>2. key[x] = i
    BY <1>3, <2>1
  <2> QED
    BY <2>1, <2>2
<1> QED
  BY <1>1, <1>3, <1>4 DEF s

-----------------------------------------------------------------------------
(* A sum of integers is an integer.                                           *)
LEMMA SumInt ==
    ASSUME NEW S, IsFiniteSet(S), NEW f, \A x \in S : f[x] \in Int
    PROVE  SumOver(S, f) \in Int
<1>1. IsTotal(TheTotal(S, f), SUBSET S, f)
  BY TheTotalIsTotal
<1>2. \A T \in SUBSET S : TheTotal(S, f)[T] \in Int
  BY <1>1, TotalType
<1> QED
  BY <1>2, SumChoice

(* The sum over one row, ...                                                  *)
LEMMA SumOne ==
    ASSUME NEW x, NEW f, f[x] \in Int
    PROVE  SumOver({x}, f) = f[x]
<1>1. SumOver({x}, f) = f[x] + SumOver({x} \ {x}, f)
  BY FS_Singleton, SumSplit
<1>2. {x} \ {x} = {} /\ SumOver({}, f) = 0
  BY SumEmpty
<1>3. SumOver({x}, f) = f[x] + 0
  BY <1>1, <1>2, Zenon
<1> QED
  BY <1>3

(* ... and over two.                                                          *)
LEMMA SumTwo ==
    ASSUME NEW x, NEW y, x # y, NEW f, f[x] \in Int, f[y] \in Int
    PROVE  SumOver({x, y}, f) = f[x] + f[y]
<1>1. SumOver({x} \cup {y}, f) = SumOver({x}, f) + f[y]
  <2>1. IsFiniteSet({x}) /\ y \notin {x} /\ \A z \in {x} \cup {y} : f[z] \in Int
    BY FS_Singleton
  <2> QED
    BY <2>1, SumAdd
<1>2. SumOver({x}, f) = f[x] /\ {x} \cup {y} = {x, y}
  BY SumOne
<1> QED
  BY <1>1, <1>2, Zenon

(* The image of a finite set is finite.                                       *)
LEMMA FiniteImage ==
    ASSUME NEW S, IsFiniteSet(S), NEW f
    PROVE  IsFiniteSet({f[x] : x \in S})
<1> DEFINE T == {f[x] : x \in S}
<1> DEFINE g == [x \in S |-> f[x]]
<1>1. g \in Surjection(S, T)
  BY DEF Surjection
<1> HIDE DEF g, T
<1>2. IsFiniteSet(T)
  BY <1>1, FS_Surjection
<1> QED
  BY <1>2 DEF T
=============================================================================

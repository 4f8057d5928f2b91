---------------------------- MODULE DataInduction ----------------------------
(***************************************************************************)
(* Induction over data, for the proofs of the other modules.  Theorems of  *)
(* the library that take a predicate as a parameter cannot be applied by   *)
(* the provers at hand; that a well-founded relation has minimal elements  *)
(* takes none, and induction over the natural numbers follows from it, and *)
(* from that what the recursive operators of the community modules yield.  *)
(***************************************************************************)
EXTENDS Integers, FiniteSetsExt, FiniteSetTheorems, WellFoundedInduction, TLAPS

(* Induction: a set with 0, and with n + 1 whenever with n, has every      *)
(* natural number.                                                         *)
LEMMA SetInduction ==
    ASSUME NEW S, 0 \in S, \A n \in Nat : n \in S => n + 1 \in S
    PROVE  Nat \subseteq S
<1> DEFINE T == Nat \ S
<1>1. SUFFICES ASSUME T # {} PROVE FALSE
  OBVIOUS
<1>2. PICK x \in T : \A y \in T : ~(<<y, x>> \in OpToRel(<, Nat))
  <2>1. T \subseteq Nat
    OBVIOUS
  <2> HIDE DEF T
  <2> QED BY <1>1, <2>1, WFMin, NatLessThanWellFounded
<1>3. x \in Nat /\ x # 0 /\ x - 1 \in Nat /\ x - 1 \notin S
  OBVIOUS
<1>4. <<x - 1, x>> \in OpToRel(<, Nat)
  BY <1>3 DEF OpToRel
<1> QED BY <1>2, <1>3, <1>4

-----------------------------------------------------------------------------
(* Sums over a finite set of integers, by SumFunctionOnSet of Functions.   *)

(* g has the sum of f over every subset of S: any element may be taken out *)
(* first.                                                                  *)
Adds(f, S, g) ==
    /\ g \in [SUBSET S -> Int]
    /\ g[{}] = 0
    /\ \A s \in SUBSET S : \A x \in s : g[s] = f[x] + g[s \ {x}]

(* The recursion of SumFunctionOnSet: it takes an arbitrary element out.   *)
IsFold(f, S, g) ==
    g = [s \in SUBSET S |-> IF s = {} THEN 0
                            ELSE LET x == CHOOSE x \in s : TRUE IN f[x] + g[s \ {x}]]

(* The sums over the subsets of S give those of S with one element more.   *)
LEMMA AddsExtended ==
    ASSUME NEW f \in [Int -> Int], NEW S \in SUBSET Int, NEW y \in Int \ S,
           NEW g, Adds(f, S, g)
    PROVE  \E h : Adds(f, S \cup {y}, h)
<1> DEFINE T == S \cup {y}
           h == [s \in SUBSET T |-> IF y \in s THEN f[y] + g[s \ {y}] ELSE g[s]]
<1>1. h \in [SUBSET T -> Int] /\ h[{}] = 0
  BY DEF Adds
<1>2. \A s \in SUBSET T : h[s] = IF y \in s THEN f[y] + g[s \ {y}] ELSE g[s]
  OBVIOUS
<1> HIDE DEF h
<1>3. ASSUME NEW s \in SUBSET T, NEW x \in s
      PROVE  h[s] = f[x] + h[s \ {x}]
  <2>1. CASE x = y
    <3>1. s \ {y} \in SUBSET S /\ y \notin s \ {y}
      OBVIOUS
    <3>2. h[s] = f[y] + g[s \ {y}] /\ h[s \ {y}] = g[s \ {y}]
      BY <1>2, <2>1, <3>1
    <3> QED BY <2>1, <3>2
  <2>2. CASE x # y /\ y \in s
    <3>1. s \ {y} \in SUBSET S /\ x \in s \ {y}
      BY <2>2
    <3>2. g[s \ {y}] = f[x] + g[(s \ {y}) \ {x}]
      BY <3>1 DEF Adds
    <3>3. (s \ {x}) \ {y} = (s \ {y}) \ {x} /\ y \in s \ {x} /\ s \ {x} \in SUBSET T
      BY <2>2
    <3>4. h[s] = f[y] + g[s \ {y}] /\ h[s \ {x}] = f[y] + g[(s \ {y}) \ {x}]
      BY <1>2, <2>2, <3>3
    <3>5. f[x] \in Int /\ f[y] \in Int /\ g[(s \ {y}) \ {x}] \in Int
      BY <3>1 DEF Adds
    <3> HIDE DEF T
    <3> QED BY <3>2, <3>4, <3>5
  <2>3. CASE y \notin s
    <3>1. s \in SUBSET S /\ s \ {x} \in SUBSET S
      BY <2>3
    <3>2. h[s] = g[s] /\ h[s \ {x}] = g[s \ {x}]
      BY <1>2, <2>3, <3>1
    <3> QED BY <3>1, <3>2 DEF Adds
  <2> QED BY <2>1, <2>2, <2>3
<1> QED BY <1>1, <1>3 DEF Adds

(* An interval has sums, by induction on its length.                       *)
LEMMA AddsExists ==
    ASSUME NEW f \in [Int -> Int], NEW lo \in Int, NEW n \in Nat
    PROVE  \E g : Adds(f, lo..(lo + n - 1), g)
<1> DEFINE N == {k \in Nat : \E g : Adds(f, lo..(lo + k - 1), g)}
<1>1. 0 \in N
  <2>1. Adds(f, {}, [s \in SUBSET {} |-> 0])
    BY DEF Adds
  <2> QED BY <2>1
<1>2. ASSUME NEW k \in Nat, k \in N
      PROVE  k + 1 \in N
  <2>1. PICK g : Adds(f, lo..(lo + k - 1), g)
    BY <1>2
  <2>2. lo + k \in Int \ (lo..(lo + k - 1)) /\ lo..(lo + k - 1) \in SUBSET Int
    OBVIOUS
  <2>3. \E h : Adds(f, (lo..(lo + k - 1)) \cup {lo + k}, h)
    BY <2>1, <2>2, AddsExtended
  <2>4. (lo..(lo + k - 1)) \cup {lo + k} = lo..(lo + (k + 1) - 1)
    OBVIOUS
  <2>5. \E h : Adds(f, lo..(lo + (k + 1) - 1), h)
    BY <2>3, <2>4
  <2>6. k + 1 \in Nat
    OBVIOUS
  <2> QED BY <2>5, <2>6, Zenon
<1> HIDE DEF N
<1>3. n \in N
  BY <1>1, <1>2, SetInduction
<1> QED BY <1>3 DEF N

(* The recursion has a solution, the sums...                               *)
LEMMA AddsFolds ==
    ASSUME NEW f, NEW S, NEW g, Adds(f, S, g)
    PROVE  IsFold(f, S, g)
<1> DEFINE fold == [s \in SUBSET S |->
                      IF s = {} THEN 0
                      ELSE LET x == CHOOSE x \in s : TRUE IN f[x] + g[s \ {x}]]
<1>1. \A s \in SUBSET S : g[s] = fold[s]
  BY DEF Adds
<1>2. DOMAIN g = SUBSET S /\ g = [s \in DOMAIN g |-> g[s]]
  BY DEF Adds
<1> QED BY <1>1, <1>2 DEF IsFold

(* ... and no other: there is no smallest set on which two would differ.   *)
LEMMA FoldAdds ==
    ASSUME NEW f \in [Int -> Int], NEW S \in SUBSET Int, IsFiniteSet(S),
           NEW g, Adds(f, S, g), NEW i, IsFold(f, S, i)
    PROVE  i = g
<1> DEFINE T == {s \in SUBSET S : i[s] # g[s]}
<1>1. SUFFICES ASSUME T # {} PROVE FALSE
  BY DEF IsFold, Adds
<1>2. PICK s \in T : \A r \in T : ~(<<r, s>> \in StrictSubsetOrdering(S))
  <2> HIDE DEF T
  <2>1. T \subseteq FiniteSubsetsOf(S)
    BY FS_FiniteSubsetsOfFinite DEF T
  <2> QED BY <1>1, <2>1, WFMin, FS_StrictSubsetOrderingWellFounded
<1>3. s # {}
  BY DEF IsFold, Adds
<1>4. PICK x \in s : i[s] = f[x] + i[s \ {x}]
  BY <1>3 DEF IsFold
<1>5. s \ {x} \notin T
  <2>1. s \ {x} \in SUBSET S /\ s \in SUBSET S /\ s \ {x} \subseteq s /\ s \ {x} # s
    OBVIOUS
  <2>2. <<s \ {x}, s>> \in StrictSubsetOrdering(S)
    BY <2>1 DEF StrictSubsetOrdering
  <2> HIDE DEF T
  <2> QED BY <1>2, <2>2
<1>6. i[s \ {x}] = g[s \ {x}]
  BY <1>5
<1>7. s \in SUBSET S /\ i[s] # g[s]
  OBVIOUS
<1> QED BY <1>4, <1>6, <1>7 DEF Adds

(* The sum as the recursion computes it.                                   *)
LEMMA SumIsFold ==
    ASSUME NEW f, NEW S
    PROVE  SumFunctionOnSet(f, S) = (CHOOSE g : IsFold(f, S, g))[S]
BY DEF SumFunctionOnSet, FoldFunctionOnSet, MapThenFoldSet, IsFold

LEMMA SumIsAdds ==
    ASSUME NEW f \in [Int -> Int], NEW S \in SUBSET Int, IsFiniteSet(S),
           NEW g, Adds(f, S, g)
    PROVE  SumFunctionOnSet(f, S) = g[S]
<1> DEFINE i == CHOOSE h : IsFold(f, S, h)
<1>1. IsFold(f, S, i)
  BY AddsFolds
<1> HIDE DEF i
<1>2. i = g
  BY <1>1, FoldAdds
<1> QED BY <1>2, SumIsFold DEF i

(* The sum depends on the values on the set only.                          *)
LEMMA SumOfEqual ==
    ASSUME NEW S, NEW f, NEW e, \A x \in S : f[x] = e[x]
    PROVE  SumFunctionOnSet(f, S) = SumFunctionOnSet(e, S)
<1>1. \A g : IsFold(f, S, g) <=> IsFold(e, S, g)
  <2>1. \A s \in SUBSET S : s # {} =>
           f[CHOOSE x \in s : TRUE] = e[CHOOSE x \in s : TRUE]
    OBVIOUS
  <2> QED BY <2>1 DEF IsFold
<1>2. /\ SumFunctionOnSet(f, S) = (CHOOSE g : IsFold(f, S, g))[S]
      /\ SumFunctionOnSet(e, S) = (CHOOSE g : IsFold(e, S, g))[S]
  BY SumIsFold
<1>3. (CHOOSE g : IsFold(f, S, g)) = (CHOOSE g : IsFold(e, S, g))
  BY <1>1
<1> QED BY <1>2, <1>3

(* The sum over an interval, by its last element.                          *)
LEMMA SumOfInterval ==
    ASSUME NEW f \in [Int -> Int], NEW lo \in Int, NEW hi \in Int
    PROVE  SumFunctionOnSet(f, lo..hi) =
              IF hi < lo THEN 0 ELSE f[hi] + SumFunctionOnSet(f, lo..(hi - 1))
<1>1. CASE hi < lo
  <2>1. lo..hi = {}
    BY <1>1
  <2>2. Adds(f, {}, [s \in SUBSET {} |-> 0])
    BY DEF Adds
  <2>3. SumFunctionOnSet(f, {}) = [s \in SUBSET {} |-> 0][{}]
    BY <2>2, FS_EmptySet, SumIsAdds
  <2> QED BY <1>1, <2>1, <2>3
<1>2. CASE lo <= hi
  <2> DEFINE S == lo..hi
             R == lo..(hi - 1)
  <2>1. PICK g : Adds(f, S, g)
    <3>1. hi - lo + 1 \in Nat /\ lo + (hi - lo + 1) - 1 = hi
      BY <1>2
    <3> QED BY <3>1, AddsExists
  <2>2. /\ S \in SUBSET Int /\ R \in SUBSET Int /\ IsFiniteSet(S) /\ IsFiniteSet(R)
        /\ hi \in S /\ S \ {hi} = R /\ R \in SUBSET S
    <3>1. IsFiniteSet(S) /\ hi - 1 \in Int
      BY FS_Interval
    <3>2. IsFiniteSet(R)
      BY <3>1, FS_Interval
    <3>3. S \in SUBSET Int /\ R \in SUBSET Int /\ hi \in S /\ S \ {hi} = R /\ R \in SUBSET S
      BY <1>2
    <3> QED BY <3>1, <3>2, <3>3
  <2> HIDE DEF S, R
  <2> DEFINE r == [s \in SUBSET R |-> g[s]]
  <2>3. Adds(f, R, r)
    <3>1. \A s \in SUBSET R : s \in SUBSET S /\ r[s] = g[s]
      BY <2>2
    <3>2. r \in [SUBSET R -> Int] /\ r[{}] = 0
      BY <2>1, <3>1 DEF Adds
    <3>3. ASSUME NEW s \in SUBSET R, NEW x \in s
          PROVE  r[s] = f[x] + r[s \ {x}]
      <4>1. s \ {x} \in SUBSET R /\ s \in SUBSET S
        BY <3>1
      <4> QED BY <2>1, <3>1, <4>1 DEF Adds
    <3> QED BY <3>2, <3>3 DEF Adds
  <2>4. SumFunctionOnSet(f, S) = g[S]
    BY <2>1, <2>2, SumIsAdds
  <2>5. SumFunctionOnSet(f, R) = r[R]
    <3> HIDE DEF r
    <3> QED BY <2>2, <2>3, SumIsAdds
  <2>6. g[S] = f[hi] + g[R]
    BY <2>1, <2>2 DEF Adds
  <2>7. ~(hi < lo)
    BY <1>2
  <2> QED BY <2>4, <2>5, <2>6, <2>7 DEF S, R
<1> QED BY <1>1, <1>2

-----------------------------------------------------------------------------
(* Least and greatest elements, and sequences in order of a key.           *)

LEMMA LeastExists ==
    ASSUME NEW S \in SUBSET Nat, S # {}
    PROVE  \E x \in S : \A y \in S : x <= y
<1>1. PICK x \in S : \A y \in S : ~(<<y, x>> \in OpToRel(<, Nat))
  BY WFMin, NatLessThanWellFounded
<1>2. ASSUME NEW y \in S PROVE x <= y
  <2>1. x \in Nat /\ y \in Nat
    OBVIOUS
  <2>2. ~(<<y, x>> \in OpToRel(<, Nat))
    BY <1>1
  <2>3. y < x => <<y, x>> \in OpToRel(<, Nat)
    BY <2>1 DEF OpToRel
  <2>4. ~(y < x)
    BY <2>2, <2>3
  <2> QED BY <2>1, <2>4
<1> QED BY <1>2

(* Min of FiniteSetsExt is the least of a set of natural numbers.          *)
LEMMA MinIsLeast ==
    ASSUME NEW S \in SUBSET Nat, S # {}
    PROVE  Min(S) \in S /\ \A y \in S : Min(S) <= y
BY LeastExists DEF Min

(* Max of FiniteSetsExt is the greatest of a bounded one.                  *)
LEMMA MaxIsGreatest ==
    ASSUME NEW n \in Nat, NEW S \in SUBSET (0..n), S # {}
    PROVE  Max(S) \in S /\ \A y \in S : y <= Max(S)
<1> DEFINE T == {n - x : x \in S}
<1>1. T \in SUBSET Nat /\ T # {}
  <2>1. \A x \in S : n - x \in Nat
    OBVIOUS
  <2> QED BY <2>1
<1>2. PICK z \in T : \A y \in T : z <= y
  <2> HIDE DEF T
  <2> QED BY <1>1, LeastExists
<1>3. PICK x \in S : z = n - x
  OBVIOUS
<1>4. ASSUME NEW y \in S PROVE x >= y
  <2>1. n - y \in T /\ x \in Int /\ y \in Int
    OBVIOUS
  <2>2. n - x <= n - y
    BY <1>2, <1>3, <2>1
  <2> HIDE DEF T
  <2> QED BY <2>1, <2>2
<1>5. \E u \in S : \A y \in S : u >= y
  BY <1>4
<1>6. Max(S) \in S /\ \A y \in S : Max(S) >= y
  BY <1>5 DEF Max
<1>7. \A y \in S : y \in Int
  OBVIOUS
<1> QED BY <1>6, <1>7

=============================================================================

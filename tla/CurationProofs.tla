----------------------------- MODULE CurationProofs -----------------------------
(* Proofs about Curation, for any graph of fans, items, bands and tags, and any     *)
(* table of logarithms.  No fact about a fold is to be had by induction: what one   *)
(* computes is written in closed form, shown to satisfy the equation of the fold,   *)
(* and any other solution would have a least set where it differs.                  *)
EXTENDS Curation, FiniteSetTheorems, SequenceTheorems, TLAPS

(***************************************************************************)
(* Sums.  A sum of natural numbers is the number of the pairs of an        *)
(* element and one of its units, which makes facts about sums facts about  *)
(* finite sets.                                                            *)
(***************************************************************************)

\* A pair for every member of the set of each element.
PairsOf(S, F) == UNION {{x} \X F[x] : x \in S}

\* The units of a number each.
Units(S, number) == [x \in S |-> 1 .. number[x]]

\* Without one element there are fewer pairs by as many as are its own.
LEMMA PairsWithout ==
  ASSUME NEW S, IsFiniteSet(S), NEW F, \A y \in S : IsFiniteSet(F[y]), NEW x \in S
  PROVE  /\ IsFiniteSet(PairsOf(S, F)) /\ IsFiniteSet(PairsOf(S \ {x}, F))
         /\ Cardinality(PairsOf(S, F)) = Cardinality(F[x]) + Cardinality(PairsOf(S \ {x}, F))
<1> DEFINE own == {x} \X F[x]
           rest == PairsOf(S \ {x}, F)
<1>1. \A y \in S : /\ IsFiniteSet({y} \X F[y])
                   /\ Cardinality({y} \X F[y]) = Cardinality(F[y])
  <2> TAKE y \in S
  <2>1. IsFiniteSet({y}) /\ Cardinality({y}) = 1 BY FS_Singleton
  <2>2. Cardinality(F[y]) \in Nat BY FS_CardinalityType
  <2>3. /\ IsFiniteSet({y} \X F[y])
        /\ Cardinality({y} \X F[y]) = Cardinality({y}) * Cardinality(F[y])
    BY <2>1, FS_Product
  <2> QED BY <2>1, <2>2, <2>3, SMT
<1>2. ASSUME NEW T \in SUBSET S PROVE IsFiniteSet(PairsOf(T, F))
  <2>1. IsFiniteSet(T) BY FS_Subset
  <2> DEFINE its(y) == {y} \X F[y]
             f == [y \in T |-> its(y)]
             owns == {its(y) : y \in T}
  <2>2. f \in [T -> owns] /\ \A s \in owns : \E y \in T : f[y] = s
    <3> HIDE DEF its
    <3> QED OBVIOUS
  <2>3. IsFiniteSet(owns)
    <3> HIDE DEF f, owns
    <3> QED BY <2>1, <2>2, FS_Surjection DEF Surjection
  <2>4. \A s \in owns : IsFiniteSet(s) BY <1>1
  <2>5. PairsOf(T, F) = UNION owns BY DEF PairsOf
  <2> HIDE DEF owns
  <2> QED BY <2>3, <2>4, <2>5, FS_UNION
<1>3. PairsOf(S, F) = own \cup rest /\ own \cap rest = {}
  BY DEF PairsOf
<1>4. Cardinality(own \cap rest) = 0 BY <1>3, FS_EmptySet
<1>5. IsFiniteSet(rest) BY <1>2
<1>6. Cardinality(own) \in Nat /\ Cardinality(rest) \in Nat BY <1>1, <1>5, FS_CardinalityType
<1>7. Cardinality(own \cup rest) = Cardinality(own) + Cardinality(rest) - Cardinality(own \cap rest)
  BY <1>1, <1>5, FS_Union
<1>8. IsFiniteSet(PairsOf(S, F)) BY <1>2
<1>9. Cardinality(own) = Cardinality(F[x]) BY <1>1
<1> HIDE DEF own, rest
<1> QED BY <1>3, <1>4, <1>5, <1>6, <1>7, <1>8, <1>9 DEF rest

\* A sum is the number of pairs of any sets with as many members as the numbers say.
LEMMA SumIsPairs ==
  ASSUME NEW S, IsFiniteSet(S), NEW F, \A x \in S : IsFiniteSet(F[x]),
         NEW number, \A x \in S : number[x] = Cardinality(F[x])
  PROVE  /\ SumFunctionOnSet(number, S) = Cardinality(PairsOf(S, F))
         /\ IsFiniteSet(PairsOf(S, F))
<1> DEFINE first(T) == CHOOSE x \in T : TRUE
           step(h) == [T \in SUBSET S |-> IF T = {} THEN 0
                                          ELSE number[first(T)] + h[T \ {first(T)}]]
           pairs == [T \in SUBSET S |-> Cardinality(PairsOf(T, F))]
           sum == CHOOSE h : h = step(h)
<1>1. SumFunctionOnSet(number, S) = sum[S]
  BY DEF SumFunctionOnSet, FoldFunctionOnSet, MapThenFoldSet
<1>2. ASSUME NEW T \in SUBSET S, T # {}
      PROVE  first(T) \in T /\ T \ {first(T)} \in SUBSET S
  BY <1>2
<1>3. PairsOf({}, F) = {} BY DEF PairsOf
<1>4. pairs = step(pairs)
  <2> SUFFICES ASSUME NEW T \in SUBSET S
               PROVE  pairs[T] = IF T = {} THEN 0 ELSE number[first(T)] + pairs[T \ {first(T)}]
    OBVIOUS
  <2>1. CASE T = {} BY <2>1, <1>3, FS_EmptySet
  <2>2. CASE T # {}
    <3>1. IsFiniteSet(T) BY FS_Subset
    <3> HIDE DEF first
    <3>2. Cardinality(PairsOf(T, F)) = Cardinality(F[first(T)]) + Cardinality(PairsOf(T \ {first(T)}, F))
      BY <2>2, <1>2, <3>1, PairsWithout
    <3> QED BY <2>2, <1>2, <3>2
  <2> QED BY <2>1, <2>2
<1> HIDE DEF pairs
<1>5. sum = step(sum)
  <2> HIDE DEF step
  <2> QED BY <1>4
<1> HIDE DEF sum
<1>6. \A T \in SUBSET S : sum[T] = pairs[T]
  <2> SUFFICES ASSUME {T \in SUBSET S : sum[T] # pairs[T]} # {} PROVE FALSE OBVIOUS
  <2> DEFINE wrong == {T \in SUBSET S : sum[T] # pairs[T]}
  <2>1. FiniteSubsetsOf(S) = SUBSET S BY FS_FiniteSubsetsOfFinite
  <2>2. IsWellFoundedOn(StrictSubsetOrdering(S), SUBSET S)
    BY <2>1, FS_StrictSubsetOrderingWellFounded
  <2>3. wrong \subseteq SUBSET S OBVIOUS
  <2>4. PICK T \in wrong : \A U \in wrong : ~(<<U, T>> \in StrictSubsetOrdering(S))
    <3> HIDE DEF wrong
    <3>1. wrong # {} BY DEF wrong
    <3> QED BY <2>2, <2>3, <3>1, WFMin
  <2>5. T \in SUBSET S /\ sum[T] # pairs[T] OBVIOUS
  <2>6. T # {} BY <1>4, <1>5, <2>5
  <2> DEFINE U == T \ {first(T)}
  <2>7. first(T) \in T /\ U \in SUBSET S BY <1>2, <2>5, <2>6
  <2>8. <<U, T>> \in StrictSubsetOrdering(S) BY <2>5, <2>7 DEF StrictSubsetOrdering
  <2>9. sum[U] = pairs[U] BY <2>4, <2>7, <2>8
  <2>10. sum[T] = number[first(T)] + sum[U] BY <1>5, <2>5, <2>6
  <2>11. pairs[T] = number[first(T)] + pairs[U] BY <1>4, <2>5, <2>6
  <2> QED BY <2>5, <2>9, <2>10, <2>11
<1>7. IsFiniteSet(PairsOf(S, F))
  <2>1. CASE S = {} BY <2>1, <1>3, FS_EmptySet
  <2>2. CASE S # {} BY <2>2, PairsWithout
  <2> QED BY <2>1, <2>2
<1> QED BY <1>1, <1>6, <1>7 DEF pairs

\* In particular, of the units themselves.
LEMMA SumIsUnits ==
  ASSUME NEW S, IsFiniteSet(S), NEW number, \A x \in S : number[x] \in Nat
  PROVE  /\ SumFunctionOnSet(number, S) = Cardinality(PairsOf(S, Units(S, number)))
         /\ IsFiniteSet(PairsOf(S, Units(S, number)))
         /\ SumFunctionOnSet(number, S) \in Nat
<1>1. \A x \in S : /\ IsFiniteSet(Units(S, number)[x])
                   /\ number[x] = Cardinality(Units(S, number)[x])
  BY FS_Interval DEF Units
<1>2. /\ SumFunctionOnSet(number, S) = Cardinality(PairsOf(S, Units(S, number)))
      /\ IsFiniteSet(PairsOf(S, Units(S, number)))
  <2> DEFINE F == Units(S, number)
  <2> HIDE DEF F
  <2>1. \A x \in S : IsFiniteSet(F[x]) /\ number[x] = Cardinality(F[x]) BY <1>1 DEF F
  <2>2. SumFunctionOnSet(number, S) = Cardinality(PairsOf(S, F)) /\ IsFiniteSet(PairsOf(S, F))
    BY <2>1, SumIsPairs
  <2> QED BY <2>2 DEF F
<1> QED BY <1>2, FS_CardinalityType

\* More elements with greater numbers have a greater sum.
LEMMA SumGrows ==
  ASSUME NEW S, NEW T, IsFiniteSet(T), S \subseteq T,
         NEW small, NEW great, \A x \in T : great[x] \in Nat,
         \A x \in S : small[x] \in Nat /\ small[x] <= great[x]
  PROVE  SumFunctionOnSet(small, S) <= SumFunctionOnSet(great, T)
<1>1. IsFiniteSet(S) BY FS_Subset
<1>2. PairsOf(S, Units(S, small)) \subseteq PairsOf(T, Units(T, great))
  BY DEF PairsOf, Units
<1>3. \A x \in S : small[x] \in Nat OBVIOUS
<1> DEFINE p == PairsOf(S, Units(S, small))  q == PairsOf(T, Units(T, great))
<1>4. SumFunctionOnSet(small, S) = Cardinality(p) BY <1>1, <1>3, SumIsUnits
<1>5. SumFunctionOnSet(great, T) = Cardinality(q) /\ IsFiniteSet(q) BY SumIsUnits
<1> HIDE DEF p, q
<1> QED BY <1>2, <1>4, <1>5, FS_Subset DEF p, q

\* An element more adds its number.
LEMMA SumWithout ==
  ASSUME NEW S, IsFiniteSet(S), NEW number, \A y \in S : number[y] \in Nat, NEW x \in S
  PROVE  SumFunctionOnSet(number, S) = number[x] + SumFunctionOnSet(number, S \ {x})
<1> DEFINE F == Units(S, number)
<1>1. \A y \in S : IsFiniteSet(F[y]) /\ number[y] = Cardinality(F[y])
  <2> TAKE y \in S
  <2>1. F[y] = 1 .. number[y] BY DEF Units
  <2>2. number[y] \in Nat /\ number[y] \in Int OBVIOUS
  <2>3. /\ IsFiniteSet(1 .. number[y])
        /\ Cardinality(1 .. number[y]) = IF 1 > number[y] THEN 0 ELSE number[y] - 1 + 1
    BY <2>2, FS_Interval
  <2> QED BY <2>1, <2>2, <2>3
<1>2. IsFiniteSet(S \ {x}) BY FS_RemoveElement
<1> HIDE DEF F
<1>3. SumFunctionOnSet(number, S) = Cardinality(PairsOf(S, F)) BY <1>1, SumIsPairs
<1>4. SumFunctionOnSet(number, S \ {x}) = Cardinality(PairsOf(S \ {x}, F)) BY <1>1, <1>2, SumIsPairs
<1> QED BY <1>1, <1>3, <1>4, PairsWithout

-------------------------------------------------------------------------------------
(***************************************************************************)
(* Orders.  A finite set under a strict total order can be listed: its     *)
(* elements have the ranks from one to as many as there are.               *)
(***************************************************************************)

StrictOrder(S, R) ==
  /\ \A x \in S : <<x, x>> \notin R
  /\ \A x, y \in S : x # y => <<x, y>> \in R \/ <<y, x>> \in R
  /\ \A x, y, z \in S : <<x, y>> \in R /\ <<y, z>> \in R => <<x, z>> \in R

Under(S, R, x) == {y \in S : <<y, x>> \in R}
Rank(S, R, x) == Cardinality(Under(S, R, x)) + 1
At(S, R, n) == CHOOSE x \in S : Rank(S, R, x) = n

\* What comes before has a lower rank.
LEMMA RankGrows ==
  ASSUME NEW S, IsFiniteSet(S), NEW R, StrictOrder(S, R), NEW x \in S, NEW y \in S, <<x, y>> \in R
  PROVE  Rank(S, R, x) < Rank(S, R, y)
<1>1. IsFiniteSet(Under(S, R, x)) /\ IsFiniteSet(Under(S, R, y)) BY FS_Subset DEF Under
<1>2. Under(S, R, x) \subseteq Under(S, R, y) BY DEF Under, StrictOrder
<1>3. x \in Under(S, R, y) /\ x \notin Under(S, R, x) BY DEF Under, StrictOrder
<1>4. Cardinality(Under(S, R, x)) \in Nat /\ Cardinality(Under(S, R, y)) \in Nat
  BY <1>1, FS_CardinalityType
<1>5. /\ Cardinality(Under(S, R, x)) <= Cardinality(Under(S, R, y))
      /\ Cardinality(Under(S, R, x)) # Cardinality(Under(S, R, y))
  BY <1>1, <1>2, <1>3, FS_Subset
<1> QED BY <1>4, <1>5 DEF Rank

\* No two elements have one rank, and every rank is taken.
LEMMA Ranks ==
  ASSUME NEW S, IsFiniteSet(S), NEW R, StrictOrder(S, R)
  PROVE  /\ \A x \in S : Rank(S, R, x) \in 1 .. Cardinality(S)
         /\ \A x, y \in S : Rank(S, R, x) = Rank(S, R, y) => x = y
         /\ \A n \in 1 .. Cardinality(S) : \E x \in S : Rank(S, R, x) = n
<1> DEFINE N == 1 .. Cardinality(S)
           rank == [x \in S |-> Rank(S, R, x)]
           ranks == {rank[x] : x \in S}
<1>1. Cardinality(S) \in Nat BY FS_CardinalityType
<1>2. ASSUME NEW x \in S PROVE Rank(S, R, x) \in N
  <2>1. Under(S, R, x) \subseteq S \ {x} BY DEF Under, StrictOrder
  <2>2. IsFiniteSet(S \ {x}) /\ Cardinality(S \ {x}) = Cardinality(S) - 1 BY FS_RemoveElement
  <2>3. IsFiniteSet(Under(S, R, x)) /\ Cardinality(Under(S, R, x)) <= Cardinality(S) - 1
    BY <2>1, <2>2, FS_Subset
  <2>4. Cardinality(Under(S, R, x)) \in Nat BY <2>3, FS_CardinalityType
  <2> QED BY <1>1, <2>3, <2>4 DEF Rank
<1>3. ASSUME NEW x \in S, NEW y \in S, Rank(S, R, x) = Rank(S, R, y) PROVE x = y
  <2>1. Rank(S, R, x) \in Nat /\ Rank(S, R, y) \in Nat BY <1>1, <1>2
  <2>2. <<x, y>> \notin R BY <1>3, <2>1, RankGrows
  <2>3. <<y, x>> \notin R BY <1>3, <2>1, RankGrows
  <2> QED BY <2>2, <2>3 DEF StrictOrder
<1>4. ranks \subseteq N BY <1>2
<1>5. rank \in Surjection(S, ranks) BY DEF Surjection
<1>6. rank \in Injection(S, ranks) BY <1>3, <1>5 DEF Injection, IsInjective, Surjection
<1>7. Cardinality(ranks) = Cardinality(S)
  <2> HIDE DEF rank, ranks
  <2> QED BY <1>5, <1>6, FS_Surjection
<1>8. IsFiniteSet(N) /\ Cardinality(N) = Cardinality(S) BY <1>1, FS_Interval
<1>9. ranks = N
  <2> HIDE DEF ranks, N
  <2> QED BY <1>4, <1>7, <1>8, FS_Subset
<1>10. \A n \in N : \E x \in S : Rank(S, R, x) = n BY <1>9
<1> QED BY <1>2, <1>3, <1>10

\* The listing has every element once, in order.
LEMMA Listing ==
  ASSUME NEW S, IsFiniteSet(S), NEW R, StrictOrder(S, R)
  PROVE  /\ \A n \in 1 .. Cardinality(S) : At(S, R, n) \in S /\ Rank(S, R, At(S, R, n)) = n
         /\ \A x \in S : \E n \in 1 .. Cardinality(S) : At(S, R, n) = x
         /\ \A m, n \in 1 .. Cardinality(S) : m < n => <<At(S, R, m), At(S, R, n)>> \in R
<1>1. ASSUME NEW n \in 1 .. Cardinality(S) PROVE At(S, R, n) \in S /\ Rank(S, R, At(S, R, n)) = n
  BY Ranks DEF At
<1>2. ASSUME NEW x \in S PROVE \E n \in 1 .. Cardinality(S) : At(S, R, n) = x
  <2>1. Rank(S, R, x) \in 1 .. Cardinality(S) BY Ranks
  <2>2. At(S, R, Rank(S, R, x)) = x BY <1>1, <2>1, Ranks
  <2> QED BY <2>1, <2>2
<1>3. ASSUME NEW m \in 1 .. Cardinality(S), NEW n \in 1 .. Cardinality(S), m < n
      PROVE  <<At(S, R, m), At(S, R, n)>> \in R
  <2> DEFINE x == At(S, R, m)  y == At(S, R, n)
  <2>1. x \in S /\ y \in S /\ Rank(S, R, x) = m /\ Rank(S, R, y) = n BY <1>1
  <2>2. m \in Int /\ n \in Int /\ m # n /\ ~(n < m)
    <3>1. Cardinality(S) \in Int BY FS_CardinalityType
    <3> QED BY <1>3, <3>1
  <2> HIDE DEF x, y
  <2>3. <<y, x>> \notin R BY <2>1, <2>2, RankGrows
  <2>4. x # y BY <2>1, <2>2
  <2> QED BY <2>1, <2>3, <2>4 DEF StrictOrder, x, y
<1> QED BY <1>1, <1>2, <1>3

Less == OpToRel(<, Nat)

\* The natural numbers are in such an order.
LEMMA LessIsStrict ==
  ASSUME NEW S, S \subseteq Nat PROVE StrictOrder(S, Less)
BY DEF StrictOrder, Less, OpToRel

\* It is that of the numbers.
LEMMA LessIs ==
  ASSUME NEW S, S \subseteq Nat
  PROVE  \A x, y \in S : <<x, y>> \in Less <=> x < y
BY DEF Less, OpToRel

\* A set of natural numbers has a least one and, if it is finite, a greatest.
LEMMA LeastOf ==
  ASSUME NEW S, S \subseteq Nat, S # {} PROVE \E x \in S : \A y \in S : x <= y
<1>1. PICK x \in S : \A y \in S : ~(<<y, x>> \in Less)
  BY NatLessThanWellFounded, WFMin DEF Less
<1>2. \A y \in S : ~(y < x) BY <1>1 DEF Less, OpToRel
<1> QED BY <1>2

LEMMA GreatestOf ==
  ASSUME NEW S, S \subseteq Nat, S # {}, IsFiniteSet(S)
  PROVE  Max(S) \in S /\ \A y \in S : y <= Max(S)
<1>1. StrictOrder(S, Less) BY LessIsStrict
<1>2. Cardinality(S) \in Nat \ {0} BY FS_CardinalityType, FS_EmptySet
<1> DEFINE x == At(S, Less, Cardinality(S))
<1>3. x \in S /\ Rank(S, Less, x) = Cardinality(S) BY <1>1, <1>2, Listing
<1> HIDE DEF x
<1>4. ASSUME NEW y \in S PROVE y <= x
  <2>1. Rank(S, Less, y) \in 1 .. Cardinality(S) BY <1>1, Ranks
  <2>2. ~(Rank(S, Less, x) < Rank(S, Less, y)) BY <1>2, <1>3, <2>1
  <2>3. ~(<<x, y>> \in Less) BY <1>1, <1>3, <2>2, RankGrows
  <2> QED BY <1>3, <2>3 DEF Less, OpToRel
<1>5. \E z \in S : \A y \in S : z >= y BY <1>3, <1>4
<1> QED BY <1>5 DEF Max

-------------------------------------------------------------------------------------
(***************************************************************************)
(* One per band: what the loop keeps of a sequence are the first of each   *)
(* band and those of no band, in their order.                              *)
(***************************************************************************)

Firsts(seq, s) ==
  {i \in s : BandOf[seq[i]] = NoBand \/ \A j \in s : j < i => BandOf[seq[j]] # BandOf[seq[i]]}

Listed(seq, K) == [n \in 1 .. Cardinality(K) |-> seq[At(K, Less, n)]]

\* The items of a sequence at some of its places are a sequence of as many.
LEMMA ListedType ==
  ASSUME NEW S, NEW seq \in Seq(S), NEW K, K \subseteq 1 .. Len(seq)
  PROVE  /\ IsFiniteSet(K) /\ Cardinality(K) \in Nat
         /\ Listed(seq, K) \in Seq(S) /\ Len(Listed(seq, K)) = Cardinality(K)
         /\ ToSet(Listed(seq, K)) = {seq[k] : k \in K}
<1>1. Len(seq) \in Nat /\ IsFiniteSet(1 .. Len(seq)) BY FS_Interval
<1>2. K \subseteq Nat BY <1>1
<1>3. StrictOrder(K, Less) BY <1>2, LessIsStrict
<1>4. IsFiniteSet(K) /\ Cardinality(K) \in Nat BY <1>1, FS_Subset, FS_CardinalityType
<1>5. \A n \in 1 .. Cardinality(K) : At(K, Less, n) \in K BY <1>3, <1>4, Listing
<1>6. \A k \in K : \E n \in 1 .. Cardinality(K) : At(K, Less, n) = k BY <1>3, <1>4, Listing
<1>7. \A k \in 1 .. Len(seq) : seq[k] \in S OBVIOUS
<1>8. \A n \in 1 .. Cardinality(K) : seq[At(K, Less, n)] \in S BY <1>5, <1>7, Zenon
<1>9. Listed(seq, K) \in Seq(S) /\ Len(Listed(seq, K)) = Cardinality(K)
  <2> PICK c \in Nat : c = Cardinality(K) BY <1>4
  <2>1. Listed(seq, K) \in [1 .. c -> S] BY <1>8 DEF Listed
  <2>2. Listed(seq, K) \in Seq(S) BY <2>1, SeqDef
  <2>3. DOMAIN Listed(seq, K) = 1 .. c BY <2>1
  <2> QED BY <2>2, <2>3
<1>10. ToSet(Listed(seq, K)) = {seq[k] : k \in K}
  <2>1. DOMAIN Listed(seq, K) = 1 .. Cardinality(K) BY DEF Listed
  <2>2. ToSet(Listed(seq, K)) = {seq[At(K, Less, n)] : n \in 1 .. Cardinality(K)}
    BY <2>1 DEF Listed, ToSet
  <2>3. ASSUME NEW x \in ToSet(Listed(seq, K)) PROVE x \in {seq[k] : k \in K} BY <1>5, <2>2
  <2>4. ASSUME NEW k \in K PROVE seq[k] \in ToSet(Listed(seq, K)) BY <1>6, <2>2
  <2> QED BY <2>3, <2>4
<1> QED BY <1>4, <1>9, <1>10

\* A place after all others is listed last.
LEMMA ListedAppend ==
  ASSUME NEW S, NEW seq \in Seq(S), NEW K, K \subseteq 1 .. Len(seq),
         NEW i \in 1 .. Len(seq), \A k \in K : k < i
  PROVE  Listed(seq, K \cup {i}) = Append(Listed(seq, K), seq[i])
<1> DEFINE L == K \cup {i}
           c == Cardinality(K)
<1>1. L \subseteq 1 .. Len(seq) /\ L \subseteq Nat /\ K \subseteq Nat OBVIOUS
<1>2. StrictOrder(K, Less) /\ StrictOrder(L, Less)
  <2> HIDE DEF L
  <2> QED BY <1>1, LessIsStrict
<1>3. IsFiniteSet(K) /\ IsFiniteSet(L) /\ c \in Nat BY <1>1, ListedType
<1>4. i \notin K OBVIOUS
<1>5. Cardinality(L) = c + 1 BY <1>3, <1>4, FS_AddElement
<1>6. ASSUME NEW k \in K PROVE Rank(L, Less, k) = Rank(K, Less, k)
  <2>1. Under(L, Less, k) = Under(K, Less, k) BY DEF Under, Less, OpToRel
  <2> QED BY <2>1 DEF Rank
<1>7. Rank(L, Less, i) = c + 1
  <2>1. \A k \in L : <<k, i>> \in Less <=> k < i BY <1>1, LessIs
  <2>2. ~(i < i) /\ \A k \in K : k < i
    <3>1. i \in Nat BY <1>1
    <3> QED BY <3>1
  <2>3. Under(L, Less, i) = K BY <2>1, <2>2 DEF Under
  <2> QED BY <2>3 DEF Rank
<1> HIDE DEF L
<1>8. ASSUME NEW n \in 1 .. c PROVE At(L, Less, n) = At(K, Less, n)
  <2>1. At(K, Less, n) \in K /\ Rank(K, Less, At(K, Less, n)) = n BY <1>2, <1>3, Listing
  <2>2. At(K, Less, n) \in L /\ Rank(L, Less, At(K, Less, n)) = n BY <1>6, <2>1 DEF L
  <2>3. n \in 1 .. Cardinality(L) BY <1>3, <1>5
  <2>4. At(L, Less, n) \in L /\ Rank(L, Less, At(L, Less, n)) = n BY <1>2, <1>3, <2>3, Listing
  <2> QED BY <1>2, <1>3, <2>2, <2>4, Ranks
<1>9. At(L, Less, c + 1) = i
  <2>1. c + 1 \in 1 .. Cardinality(L) BY <1>3, <1>5
  <2>2. At(L, Less, c + 1) \in L /\ Rank(L, Less, At(L, Less, c + 1)) = c + 1
    BY <1>2, <1>3, <2>1, Listing
  <2>3. i \in L BY DEF L
  <2> QED BY <1>2, <1>3, <1>7, <2>2, <2>3, Ranks
<1>10. Listed(seq, K) \in Seq(S) /\ Len(Listed(seq, K)) = c /\ seq[i] \in S BY ListedType
<1>11. /\ Append(Listed(seq, K), seq[i]) \in Seq(S)
       /\ Len(Append(Listed(seq, K), seq[i])) = c + 1
       /\ \A n \in 1 .. c : Append(Listed(seq, K), seq[i])[n] = Listed(seq, K)[n]
       /\ Append(Listed(seq, K), seq[i])[c + 1] = seq[i]
  <2> DEFINE listed == Listed(seq, K)
  <2> HIDE DEF listed
  <2>1. listed \in Seq(S) /\ Len(listed) = c /\ seq[i] \in S BY <1>10 DEF listed
  <2> QED BY <2>1, <1>3, AppendProperties DEF listed
<1>12. Listed(seq, L) \in Seq(S) /\ Len(Listed(seq, L)) = c + 1 BY <1>1, <1>5, ListedType DEF L
<1>13. \A n \in 1 .. c + 1 : Listed(seq, L)[n] = Append(Listed(seq, K), seq[i])[n]
  <2> TAKE n \in 1 .. c + 1
  <2>1. Listed(seq, L)[n] = seq[At(L, Less, n)] BY <1>5 DEF Listed
  <2>2. CASE n \in 1 .. c
    <3>1. Listed(seq, K)[n] = seq[At(K, Less, n)] BY <2>2 DEF Listed
    <3> QED BY <1>8, <1>11, <2>1, <2>2, <3>1
  <2>3. CASE n = c + 1 BY <1>9, <1>11, <2>1, <2>3
  <2>4. n \in 1 .. c \/ n = c + 1 BY <1>3
  <2> QED BY <2>2, <2>3, <2>4
<1>14. Listed(seq, L) = Append(Listed(seq, K), seq[i])
  <2> DEFINE s == Listed(seq, L)  t == Append(Listed(seq, K), seq[i])
  <2>1. s \in Seq(S) /\ t \in Seq(S) /\ Len(s) = Len(t) BY <1>11, <1>12
  <2>2. \A n \in 1 .. Len(s) : s[n] = t[n] BY <1>12, <1>13
  <2> HIDE DEF s, t
  <2>3. s = t BY <2>1, <2>2, SeqEqual
  <2> QED BY <2>3 DEF s, t
<1> QED BY <1>14 DEF L

\* The loop over the ranked rows, and the closed form of what it has kept.
LEMMA OnePerBandKeeps ==
  ASSUME NEW S, NEW seq \in Seq(S)
  PROVE  OnePerBand(seq) = Listed(seq, Firsts(seq, 1 .. Len(seq)))
<1> DEFINE D == 1 .. Len(seq)
           keep(kept, x) == IF BandOf[x] # NoBand /\ \E y \in ToSet(kept) : BandOf[y] = BandOf[x]
                            THEN kept ELSE Append(kept, x)
           step(h) == [s \in SUBSET D |-> IF s = {} THEN <<>>
                                          ELSE keep(h[s \ {Max(s)}], seq[Max(s)])]
           firsts == [s \in SUBSET D |-> Listed(seq, Firsts(seq, s))]
           loop == CHOOSE h : h = step(h)
<1>1. DOMAIN seq = D /\ IsFiniteSet(D) /\ D \subseteq Nat
  <2>1. Len(seq) \in Nat /\ DOMAIN seq = D OBVIOUS
  <2> QED BY <2>1, FS_Interval
<1>2. OnePerBand(seq) = loop[D]
  <2>1. OnePerBand(seq) = (CHOOSE h : h = [s \in SUBSET DOMAIN seq |-> IF s = {} THEN <<>>
                                          ELSE keep(h[s \ {Max(s)}], seq[Max(s)])])[DOMAIN seq]
    BY Zenon DEF OnePerBand, FoldLeft, MapThenFoldSet
  <2> QED BY <1>1, <2>1
<1>3. firsts = step(firsts)
  <2> SUFFICES ASSUME NEW s \in SUBSET D
               PROVE  firsts[s] = IF s = {} THEN <<>> ELSE keep(firsts[s \ {Max(s)}], seq[Max(s)])
    BY Zenon
  <2>1. CASE s = {}
    <3>1. Firsts(seq, s) = {} BY <2>1 DEF Firsts
    <3>2. Cardinality({}) = 0 BY FS_EmptySet
    <3>3. Listed(seq, {}) = <<>> BY <3>2 DEF Listed
    <3> QED BY <2>1, <3>1, <3>3
  <2>2. CASE s # {}
    <3> DEFINE i == Max(s)
               t == s \ {i}
               K == Firsts(seq, t)
    <3>1. IsFiniteSet(s) /\ s \subseteq Nat BY <1>1, FS_Subset
    <3>2. i \in s /\ \A j \in s : j <= i BY <2>2, <3>1, GreatestOf
    <3> HIDE DEF i
    <3>3. t \in SUBSET D /\ i \in 1 .. Len(seq) /\ \A j \in t : j < i BY <3>2
    <3>4. K \subseteq 1 .. Len(seq) /\ (\A k \in K : k < i) BY <3>3 DEF Firsts
    <3>5. ToSet(Listed(seq, K)) = {seq[k] : k \in K} BY <3>4, ListedType
    <3>6. (\E y \in ToSet(Listed(seq, K)) : BandOf[y] = BandOf[seq[i]])
            <=> \E j \in K : BandOf[seq[j]] = BandOf[seq[i]]
      BY <3>5
    <3>7. (\E j \in K : BandOf[seq[j]] = BandOf[seq[i]])
            <=> \E j \in t : BandOf[seq[j]] = BandOf[seq[i]]
      <4>1. K \subseteq t BY DEF Firsts
      <4>2. ASSUME NEW j \in t, BandOf[seq[j]] = BandOf[seq[i]]
            PROVE  \E k \in K : BandOf[seq[k]] = BandOf[seq[i]]
        <5> DEFINE same == {k \in t : BandOf[seq[k]] = BandOf[seq[i]]}
        <5>1. same \subseteq Nat /\ same # {} BY <1>1, <3>3, <4>2
        <5>2. PICK k \in same : \A l \in same : k <= l BY <5>1, LeastOf
        <5>3. \A l \in t : l < k => BandOf[seq[l]] # BandOf[seq[k]]
          <6> TAKE l \in t
          <6>1. l \in Nat /\ k \in Nat BY <1>1, <3>3, <5>1
          <6> QED BY <5>2, <6>1
        <5>4. k \in K BY <5>2, <5>3 DEF Firsts
        <5> QED BY <5>2, <5>4
      <4> QED BY <4>1, <4>2
    <3>8. CASE BandOf[seq[i]] # NoBand /\ \E j \in t : BandOf[seq[j]] = BandOf[seq[i]]
      <4>1. Firsts(seq, s) = K BY <3>2, <3>3, <3>8 DEF Firsts
      <4>2. keep(Listed(seq, K), seq[i]) = Listed(seq, K) BY <3>6, <3>7, <3>8
      <4> QED BY <2>2, <3>3, <4>1, <4>2 DEF i
    <3>9. CASE ~(BandOf[seq[i]] # NoBand /\ \E j \in t : BandOf[seq[j]] = BandOf[seq[i]])
      <4>1. Firsts(seq, s) = K \cup {i}
        <5>1. \A j \in s : ~(i < j) BY <1>1, <3>2
        <5>2. i \in Firsts(seq, s)
          <6>1. \A j \in s : j < i => j \in t BY <1>1, <3>2
          <6> QED BY <3>2, <3>9, <6>1 DEF Firsts
        <5>3. \A k \in t : k \in Firsts(seq, s) <=> k \in K BY <3>2, <5>1 DEF Firsts
        <5>4. s = t \cup {i} /\ Firsts(seq, s) \subseteq s /\ K \subseteq t BY <3>2 DEF Firsts
        <5> HIDE DEF K, t
        <5> QED BY <5>2, <5>3, <5>4
      <4>2. keep(Listed(seq, K), seq[i]) = Append(Listed(seq, K), seq[i]) BY <3>6, <3>7, <3>9
      <4>3. Listed(seq, K \cup {i}) = Append(Listed(seq, K), seq[i]) BY <3>3, <3>4, ListedAppend
      <4> QED BY <2>2, <3>3, <4>1, <4>2, <4>3 DEF i
    <3> QED BY <3>8, <3>9
  <2> QED BY <2>1, <2>2
<1> HIDE DEF firsts
<1>4. loop = step(loop)
  <2> HIDE DEF step
  <2> QED BY <1>3
<1> HIDE DEF loop
<1>5. \A s \in SUBSET D : loop[s] = firsts[s]
  <2> DEFINE wrong == {s \in SUBSET D : loop[s] # firsts[s]}
  <2> SUFFICES ASSUME wrong # {} PROVE FALSE OBVIOUS
  <2>1. FiniteSubsetsOf(D) = SUBSET D BY <1>1, FS_FiniteSubsetsOfFinite
  <2>2. IsWellFoundedOn(StrictSubsetOrdering(D), SUBSET D)
    BY <2>1, FS_StrictSubsetOrderingWellFounded
  <2>3. wrong \subseteq SUBSET D OBVIOUS
  <2>4. PICK s \in wrong : \A t \in wrong : ~(<<t, s>> \in StrictSubsetOrdering(D))
    <3> HIDE DEF wrong, D
    <3> QED BY <2>2, <2>3, WFMin
  <2>5. s \in SUBSET D /\ loop[s] # firsts[s] OBVIOUS
  <2>6. s # {}
    <3>1. loop[{}] = <<>> /\ firsts[{}] = <<>> BY <1>3, <1>4
    <3> QED BY <2>5, <3>1
  <2> DEFINE t == s \ {Max(s)}
  <2>7. Max(s) \in s
    <3>1. IsFiniteSet(s) /\ s \subseteq Nat BY <1>1, FS_Subset
    <3> QED BY <2>6, <3>1, GreatestOf
  <2>8. t \in SUBSET D /\ <<t, s>> \in StrictSubsetOrdering(D) BY <2>7 DEF StrictSubsetOrdering
  <2>9. loop[t] = firsts[t] BY <2>4, <2>8
  <2>10. loop[s] = keep(loop[t], seq[Max(s)]) BY <1>4, <2>5, <2>6
  <2>11. firsts[s] = keep(firsts[t], seq[Max(s)]) BY <1>3, <2>5, <2>6
  <2> HIDE DEF keep
  <2> QED BY <2>5, <2>9, <2>10, <2>11
<1> QED BY <1>2, <1>5 DEF firsts

-------------------------------------------------------------------------------------
(***************************************************************************)
(* The types.                                                              *)
(***************************************************************************)

\* The graph is one of the fans, items and bands there are.
TypeOK ==
  /\ scan \in Scans
  /\ holds \in [Fans -> [Items -> {"none", "wish", "own"}]]
  /\ supports \subseteq Fans \X Items
  /\ follows \subseteq Bands /\ liked \subseteq Items /\ blocked \subseteq Items \cup Bands
  /\ changes \in Nat

\* Whatever the crawl learns and the user chooses, it stays one.
THEOREM CurationTypeCorrect == Spec => []TypeOK
<1> USE CurationAssumption DEF TypeOK
<1>1. Init => TypeOK BY DEF Init
<1>2. TypeOK /\ [Next]_vars => TypeOK'
  <2> SUFFICES ASSUME TypeOK, [Next]_vars PROVE TypeOK' OBVIOUS
  <2> USE DEF Change, GraphKept, ChoicesKept
  <2>1. ASSUME NEW f \in Fans, NEW x \in Items, NEW how \in {"wish", "own"}, Learn(f, x, how)
        PROVE  TypeOK'
    BY <2>1 DEF Learn
  <2>2. ASSUME NEW f \in Fans, NEW x \in Items, LearnSupporter(f, x) PROVE TypeOK'
    BY <2>2 DEF LearnSupporter
  <2>3. ASSUME NEW b \in Bands, Follow(b) PROVE TypeOK' BY <2>3 DEF Follow
  <2>4. ASSUME NEW x \in Items, Like(x) PROVE TypeOK' BY <2>4 DEF Like
  <2>5. ASSUME NEW y \in Items \cup Bands, Block(y) PROVE TypeOK' BY <2>5 DEF Block
  <2>6. CASE UNCHANGED vars BY <2>6 DEF vars
  <2>7. CASE Next BY <2>1, <2>2, <2>3, <2>4, <2>5, <2>7 DEF Next
  <2> QED BY <2>6, <2>7
<1> QED BY <1>1, <1>2, PTL DEF Spec

---------------------------------------------------------------------------------
(* The counts and the sums of the ranking.                                 *)

\* Both kinds of counts that are looked up are in the table of logarithms.
LEMMA CountsFit ==
  LET count == Cardinality(Items)
  IN  /\ count \in Nat /\ Cardinality(Tags) \in Nat
      /\ 0 .. count \subseteq DOMAIN Log
      /\ 0 .. count * Cardinality(Tags) \subseteq DOMAIN Log
<1>1. Cardinality(Items) \in Nat /\ Cardinality(Tags) \in Nat
  BY CurationAssumption, FS_CardinalityType
<1>2. ASSUME NEW i \in Nat, NEW t \in Nat PROVE i <= i * (t + 1) /\ i * t <= i * (t + 1) /\ i * t \in Nat
  <2>1. i * (t + 1) = i * t + i OBVIOUS
  <2>2. i * t \in Nat OBVIOUS
  <2> QED BY <2>1, <2>2
<1>3. DOMAIN Log = 0 .. Cardinality(Items) * (Cardinality(Tags) + 1) BY CurationAssumption
<1> DEFINE i == Cardinality(Items)  t == Cardinality(Tags)
<1> HIDE DEF i, t
<1>4. i \in Nat /\ t \in Nat /\ DOMAIN Log = 0 .. i * (t + 1) BY <1>1, <1>3 DEF i, t
<1>5. i <= i * (t + 1) /\ i * t <= i * (t + 1) /\ i * t \in Nat BY <1>2, <1>4
<1>6. i * (t + 1) \in Nat BY <1>4
<1>7. 0 .. i \subseteq DOMAIN Log /\ 0 .. i * t \subseteq DOMAIN Log BY <1>4, <1>5, <1>6
<1> QED BY <1>4, <1>7 DEF i, t

\* The overlap of a fan is in the table, and each co-owner weighs a thousand or more.
LEMMA OverlapFits ==
  ASSUME TypeOK, NEW f \in Fans
  PROVE  /\ Overlap(f) \in Nat /\ Overlap(f) \in DOMAIN Log
         /\ Damped[f] \in Nat /\ Damped[f] >= 1000
<1>1. Held(f) \cap Owned(Me) \subseteq Items BY DEF Held
<1>2. Overlap(f) \in Nat /\ Overlap(f) <= Cardinality(Items)
  BY <1>1, CurationAssumption, FS_Subset, FS_CardinalityType DEF Overlap
<1>3. Overlap(f) \in 0 .. Cardinality(Items) BY <1>2, CountsFit
<1>4. Overlap(f) \in DOMAIN Log BY <1>3, CountsFit
<1>5. Log[Overlap(f)] \in Nat BY <1>4, CurationAssumption
<1>6. Damped[f] = 1000 + Log[Overlap(f)] BY DEF Damped
<1> QED BY <1>2, <1>4, <1>5, <1>6

\* The co-owners of an item are finitely many fans.
LEMMA OwnersAreFans ==
  ASSUME TypeOK, NEW x \in Items
  PROVE  Owners(x) \subseteq Fans /\ IsFiniteSet(Owners(x)) /\ Cardinality(Owners(x)) \in Nat
<1>1. Owners(x) \subseteq Fans BY DEF Owners, Neighbours, Supporters
<1> QED BY <1>1, CurationAssumption, FS_Subset, FS_CardinalityType

\* The profile counts items of mine.
LEMMA ProfileCounts == \A t \in Tags : TagProfile[t] \in Nat /\ TagProfile[t] <= Cardinality(Items)
<1> TAKE t \in Tags
<1> DEFINE mine == {x \in Owned(Me) : t \in EffectiveTags(x)}
<1>1. mine \subseteq Items BY DEF Owned
<1>2. TagProfile[t] = Cardinality(mine) BY DEF TagProfile
<1> HIDE DEF mine
<1> QED BY <1>1, <1>2, CurationAssumption, FS_Subset, FS_CardinalityType

\* The tags of an item are finitely many.
LEMMA TagsOfItem ==
  ASSUME NEW x \in Items PROVE EffectiveTags(x) \subseteq Tags /\ IsFiniteSet(EffectiveTags(x))
<1>1. EffectiveTags(x) \subseteq Tags BY CurationAssumption DEF EffectiveTags
<1> QED BY <1>1, CurationAssumption, FS_Subset

\* An item has at most every tag, and each at most as often as there are items.
LEMMA AffinityFits ==
  ASSUME NEW x \in Items PROVE TagAffinity(x) \in Nat /\ TagAffinity(x) \in DOMAIN Log
<1> DEFINE S == EffectiveTags(x)
           bound == 1 .. Cardinality(Items)
<1>1. S \subseteq Tags /\ IsFiniteSet(S) BY TagsOfItem
<1>2. \A t \in S : TagProfile[t] \in Nat /\ TagProfile[t] <= Cardinality(Items) BY <1>1, ProfileCounts
<1> HIDE DEF S
<1>3. /\ TagAffinity(x) = Cardinality(PairsOf(S, Units(S, TagProfile)))
      /\ TagAffinity(x) \in Nat
  BY <1>1, <1>2, SumIsUnits DEF TagAffinity, S
<1>4. PairsOf(S, Units(S, TagProfile)) \subseteq Tags \X bound
  BY <1>1, <1>2, CountsFit DEF PairsOf, Units
<1>5. IsFiniteSet(bound) /\ Cardinality(bound) = Cardinality(Items) BY FS_Interval, CountsFit
<1>6. /\ IsFiniteSet(Tags \X bound)
      /\ Cardinality(Tags \X bound) = Cardinality(Tags) * Cardinality(bound)
  <2> HIDE DEF bound
  <2> QED BY <1>5, CurationAssumption, FS_Product
<1>7. TagAffinity(x) <= Cardinality(Items) * Cardinality(Tags)
  <2> HIDE DEF bound
  <2>1. TagAffinity(x) <= Cardinality(Tags \X bound) BY <1>3, <1>4, <1>6, FS_Subset
  <2>2. Cardinality(Tags) * Cardinality(Items) = Cardinality(Items) * Cardinality(Tags) BY CountsFit
  <2> QED BY <1>5, <1>6, <2>1, <2>2
<1>8. TagAffinity(x) \in 0 .. Cardinality(Items) * Cardinality(Tags)
  <2>1. \A i, t \in Nat : i * t \in Int OBVIOUS
  <2> QED BY <1>3, <1>7, <2>1, CountsFit
<1> QED BY <1>3, <1>8, CountsFit

\* A score is a number made of the weight of the co-owners and the term of the tags.
LEMMA ScoreNumbers ==
  ASSUME TypeOK, NEW x \in Items
  PROVE  /\ CoOwnerWeight(x) \in Nat /\ TagTerm(x) \in Nat /\ Score(x) \in Int
         /\ Score(x) = 10 * CoOwnerWeight(x) + TagTerm(x)
<1>1. Owners(x) \subseteq Fans /\ IsFiniteSet(Owners(x)) /\ Cardinality(Owners(x)) \in Nat
  BY OwnersAreFans
<1>2. \A f \in Owners(x) : Damped[f] \in Nat BY <1>1, OverlapFits
<1>3. SumFunctionOnSet(Damped, Owners(x)) \in Nat BY <1>1, <1>2, SumIsUnits
<1>4. CoOwnerWeight(x) \in Nat BY <1>1, <1>3 DEF CoOwnerWeight
<1>5. TagTerm(x) \in Nat
  <2>1. TagAffinity(x) \in Nat /\ Log[TagAffinity(x)] \in Nat BY AffinityFits, CurationAssumption
  <2> QED BY <2>1 DEF TagTerm
<1>6. Score(x) = 10 * CoOwnerWeight(x) + TagTerm(x) BY DEF Score
<1> QED BY <1>4, <1>5, <1>6

-------------------------------------------------------------------------------------
(***************************************************************************)
(* What the co-owners weigh.                                               *)
(***************************************************************************)

\* What the weights of the engine count on: the logarithm of a tag affinity stays under ten, as it
\* does up to 22,025 matches, so that the term of the tags stays under one more co-owner.
TagsLight == \A n \in DOMAIN Log : Log[n] < 10000

\* The score decides before anything else.
LEMMA BeforeByScore ==
  ASSUME TypeOK, NEW x \in Items, NEW y \in Items, Score(x) < Score(y) PROVE Before(y, x)
<1> DEFINE k == Key(y)  l == Key(x)
<1>1. k[1] = -Score(y) /\ l[1] = -Score(x) BY DEF Key
<1>2. Score(x) \in Int /\ Score(y) \in Int BY ScoreNumbers
<1>3. k[1] < l[1] BY <1>1, <1>2
<1>4. 1 \in 1 .. 5 /\ \A m \in 1 .. 1 - 1 : k[m] = l[m] OBVIOUS
<1> QED BY <1>3, <1>4 DEF Before

\* One co-owner more weighs a thousand at least.
LEMMA MoreOwnersWeighMore ==
  ASSUME TypeOK, scan.weighted, NEW x \in Items, NEW y \in Items,
         Owners(x) \subseteq Owners(y), Owners(x) # Owners(y)
  PROVE  CoOwnerWeight(y) >= CoOwnerWeight(x) + 1000
<1> DEFINE O == Owners(x)  P == Owners(y)
<1>1. PICK f \in P : f \notin O OBVIOUS
<1>2. P \subseteq Fans /\ IsFiniteSet(P) BY OwnersAreFans
<1>3. \A g \in P : Damped[g] \in Nat /\ Damped[g] >= 1000 BY <1>2, OverlapFits
<1>4. CoOwnerWeight(x) = SumFunctionOnSet(Damped, O) /\ CoOwnerWeight(y) = SumFunctionOnSet(Damped, P)
  BY DEF CoOwnerWeight
<1>5. O \subseteq P \ {f} BY <1>1
<1> HIDE DEF O, P
<1>6. IsFiniteSet(P \ {f}) BY <1>2, FS_RemoveElement
<1>7. SumFunctionOnSet(Damped, P) = Damped[f] + SumFunctionOnSet(Damped, P \ {f})
  BY <1>1, <1>2, <1>3, SumWithout
<1>8. SumFunctionOnSet(Damped, O) <= SumFunctionOnSet(Damped, P \ {f})
  BY <1>3, <1>5, <1>6, SumGrows
<1>9. /\ SumFunctionOnSet(Damped, P \ {f}) \in Nat
      /\ SumFunctionOnSet(Damped, P) \in Nat
      /\ SumFunctionOnSet(Damped, O) \in Nat
  <2>1. IsFiniteSet(O) BY <1>5, <1>6, FS_Subset
  <2> QED BY <1>2, <1>3, <1>5, <1>6, <2>1, SumIsUnits
<1> QED BY <1>1, <1>3, <1>4, <1>7, <1>8, <1>9

\* One co-owner more outweighs any tags, in a graph of any size in which tags are light.
THEOREM OneMoreCoOwnerAlwaysWins == TagsLight => (Spec => []OneMoreCoOwnerWins)
<1> SUFFICES ASSUME TagsLight PROVE Spec => []OneMoreCoOwnerWins OBVIOUS
<1>1. TypeOK => OneMoreCoOwnerWins
  <2> SUFFICES ASSUME TypeOK, scan.weighted, NEW x \in Passing, NEW y \in Passing,
                      Owners(x) \subseteq Owners(y), Owners(x) # Owners(y)
               PROVE  Before(y, x)
    BY DEF OneMoreCoOwnerWins
  <2>1. x \in Items /\ y \in Items BY DEF Passing, Candidates
  <2>2. CoOwnerWeight(y) >= CoOwnerWeight(x) + 1000 BY <2>1, MoreOwnersWeighMore
  <2>3. TagTerm(x) < 10000 BY <2>1, AffinityFits DEF TagTerm, TagsLight
  <2>4. /\ CoOwnerWeight(x) \in Nat /\ TagTerm(x) \in Nat
        /\ CoOwnerWeight(y) \in Nat /\ TagTerm(y) \in Nat
        /\ Score(x) = 10 * CoOwnerWeight(x) + TagTerm(x)
        /\ Score(y) = 10 * CoOwnerWeight(y) + TagTerm(y)
    BY <2>1, ScoreNumbers
  <2>5. Score(x) < Score(y) BY <2>2, <2>3, <2>4
  <2> QED BY <2>1, <2>5, BeforeByScore
<1> QED BY <1>1, CurationTypeCorrect, PTL

---------------------------------------------------------------------------------
\* A step that learns of the collections of others lowers no score, whatever the settings.
THEOREM CrawlingLowersNone == Spec => CrawlingLowersNoScore
<1> DEFINE Weights == \A f \in Fans : Overlap(f) \in DOMAIN Log /\ Damped[f] \in Nat
           Numbers == \A x \in Items :
                        /\ CoOwnerWeight(x) \in Nat /\ TagTerm(x) \in Nat
                        /\ Score(x) = 10 * CoOwnerWeight(x) + TagTerm(x)
<1>1. TypeOK => Weights /\ Numbers
  <2> SUFFICES ASSUME TypeOK PROVE Weights /\ Numbers OBVIOUS
  <2>1. Weights BY OverlapFits
  <2>2. Numbers BY ScoreNumbers
  <2> QED BY <2>1, <2>2
<1>2. TypeOK' => Weights' /\ Numbers'
  <2> HIDE DEF Weights, Numbers
  <2> QED BY <1>1, PTL
<1>3. TypeOK /\ TypeOK' /\ [Next]_vars
        => [holds'[Me] = holds[Me] => \A x \in Candidates : x \in Candidates' => Score(x)' >= Score(x)]_holds
  <2> SUFFICES ASSUME TypeOK, TypeOK', Next, holds'[Me] = holds[Me], holds' # holds,
                      NEW x \in Candidates
               PROVE  Score(x)' >= Score(x)
    BY DEF vars
  <2> DEFINE O == Owners(x)  P == Owners(x)'
  <2>1. x \in Items BY DEF Candidates
  <2>2. PICK f \in Fans, y \in Items, how \in {"wish", "own"} : Learn(f, y, how)
    <3>1. \A f \in Fans, y \in Items : LearnSupporter(f, y) => holds' = holds BY DEF LearnSupporter
    <3>2. \A b \in Bands : Follow(b) => holds' = holds BY DEF Follow
    <3>3. \A y \in Items : Like(y) => holds' = holds BY DEF Like, GraphKept
    <3>4. \A y \in Items \cup Bands : Block(y) => holds' = holds BY DEF Block, GraphKept
    <3>5. \/ \E f \in Fans, y \in Items : Learn(f, y, "own")
          \/ \E f \in Wishers, y \in Items : Learn(f, y, "wish")
      BY <3>1, <3>2, <3>3, <3>4 DEF Next
    <3> QED BY <3>5, CurationAssumption
  <2>3. UNCHANGED <<scan, supports>> BY <2>2 DEF Learn
  <2>4. \A g \in Fans : Held(g) \subseteq Held(g)'
    <3> TAKE g \in Fans
    <3>1. \A z \in Items : holds'[g][z] = "none" => holds[g][z] = "none" BY <2>2 DEF Learn, TypeOK
    <3> QED BY <3>1 DEF Held
  <2>5. Owned(Me)' = Owned(Me) BY DEF Owned
  <2>6. Neighbours' = Neighbours BY <2>3, <2>5 DEF Neighbours, Seeds, Supporters
  <2>7. P \subseteq Fans /\ IsFiniteSet(P) /\ Cardinality(P) \in Nat
    <3>1. P \subseteq Fans BY DEF Owners, Neighbours, Supporters
    <3> QED BY <3>1, CurationAssumption, FS_Subset, FS_CardinalityType
  <2>8. O \subseteq P BY <2>4, <2>6, <2>7 DEF Owners, Neighbours, Supporters
  <2>9. TagTerm(x)' = TagTerm(x)
    <3>1. TagProfile' = TagProfile BY <2>5 DEF TagProfile, EffectiveTags
    <3>2. TagAffinity(x)' = TagAffinity(x) BY <3>1 DEF TagAffinity, EffectiveTags
    <3> QED BY <2>3, <3>2 DEF TagTerm
  <2>10. CoOwnerWeight(x)' >= CoOwnerWeight(x)
    <3>1. CASE scan.weighted
      <4>1. \A g \in Fans : Damped[g] \in Nat /\ Damped[g]' \in Nat /\ Damped[g] <= Damped[g]'
        <5> TAKE g \in Fans
        <5>1. /\ Overlap(g) \in DOMAIN Log /\ Overlap(g)' \in DOMAIN Log
              /\ Damped[g] \in Nat /\ Damped[g]' \in Nat
          BY <1>1, <1>2
        <5>2. /\ Held(g) \cap Owned(Me) \subseteq Held(g)' \cap Owned(Me)'
              /\ Held(g)' \cap Owned(Me)' \subseteq Items
          BY <2>4, <2>5 DEF Held
        <5>3. Overlap(g) <= Overlap(g)' BY <5>2, CurationAssumption, FS_Subset DEF Overlap
        <5>4. Log[Overlap(g)] <= Log[Overlap(g)'] BY <5>1, <5>3, CurationAssumption
        <5>5. Damped[g] = 1000 + Log[Overlap(g)] /\ Damped[g]' = 1000 + Log[Overlap(g)'] BY DEF Damped
        <5>6. Log[Overlap(g)] \in Nat /\ Log[Overlap(g)'] \in Nat BY <5>1, CurationAssumption
        <5> QED BY <5>1, <5>4, <5>5, <5>6
      <4>2. CoOwnerWeight(x) = SumFunctionOnSet(Damped, O) BY <3>1 DEF CoOwnerWeight
      <4>3. CoOwnerWeight(x)' = SumFunctionOnSet(Damped', P) BY <2>3, <3>1 DEF CoOwnerWeight
      <4>4. SumFunctionOnSet(Damped, O) <= SumFunctionOnSet(Damped', P)
        <5> HIDE DEF O, P
        <5>1. \A g \in Fans : Damped[g]' = Damped'[g] OBVIOUS
        <5> QED BY <2>7, <2>8, <4>1, <5>1, SumGrows
      <4>5. CoOwnerWeight(x) \in Nat /\ CoOwnerWeight(x)' \in Nat BY <1>1, <1>2, <2>1
      <4> QED BY <4>2, <4>3, <4>4, <4>5
    <3>2. CASE ~scan.weighted
      <4>1. Cardinality(O) <= Cardinality(P) BY <2>7, <2>8, FS_Subset
      <4>2. Cardinality(O) \in Nat BY <2>1, OwnersAreFans
      <4>3. CoOwnerWeight(x) = 1000 * Cardinality(O) BY <3>2 DEF CoOwnerWeight
      <4>4. CoOwnerWeight(x)' = 1000 * Cardinality(P) BY <2>3, <3>2 DEF CoOwnerWeight
      <4> HIDE DEF O, P
      <4> QED BY <2>7, <4>1, <4>2, <4>3, <4>4
    <3> QED BY <3>1, <3>2
  <2>11. /\ CoOwnerWeight(x) \in Nat /\ TagTerm(x) \in Nat
         /\ Score(x) = 10 * CoOwnerWeight(x) + TagTerm(x)
         /\ CoOwnerWeight(x)' \in Nat /\ TagTerm(x)' \in Nat
         /\ Score(x)' = 10 * CoOwnerWeight(x)' + TagTerm(x)'
    BY <1>1, <1>2, <2>1
  <2> QED BY <2>9, <2>10, <2>11
<1> QED BY <1>3, CurationTypeCorrect, PTL DEF Spec, CrawlingLowersNoScore

-------------------------------------------------------------------------------------
(***************************************************************************)
(* The reports.                                                            *)
(***************************************************************************)

\* Turning pairs around changes nothing about their number.
LEMMA PairsTurned ==
  ASSUME NEW A, NEW B, NEW P, P \subseteq A \X B, IsFiniteSet(P),
         NEW Q, Q \subseteq B \X A, \A a \in A, b \in B : <<a, b>> \in P <=> <<b, a>> \in Q
  PROVE  Cardinality(P) = Cardinality(Q)
<1> DEFINE turn == [p \in P |-> <<p[2], p[1]>>]
<1>1. \A p \in P : turn[p] \in Q OBVIOUS
<1>2. ASSUME NEW q \in Q PROVE \E p \in P : turn[p] = q
  <2>1. <<q[2], q[1]>> \in P OBVIOUS
  <2>2. turn[<<q[2], q[1]>>] = q BY <2>1
  <2> QED BY <2>1, <2>2
<1>3. \A p, r \in P : turn[p] = turn[r] => p = r OBVIOUS
<1>4. turn \in Surjection(P, Q) BY <1>1, <1>2 DEF Surjection
<1>5. turn \in Injection(P, Q) BY <1>1, <1>3 DEF Injection, IsInjective
<1> HIDE DEF turn
<1>6. Cardinality(Q) = Cardinality(P) BY <1>4, <1>5, FS_Surjection
<1> QED BY <1>6

\* Both reports agree with the ranking: the reasons, case by case, and the votes, because both sums
\* count the pairs of a neighbour and an item of theirs that is left.
THEOREM ReportsAlwaysAgree == Spec => []ReportsAgree
<1>1. ASSUME TypeOK, NEW x \in Items PROVE Excluded(x) <=> ~Unexplained(x)
  <2> USE CurationAssumption DEF TypeOK
  <2>1. x \in Held(Me) <=> x \in Owned(Me) \/ x \in Wished(Me)
    <3>1. holds[Me][x] \in {"none", "wish", "own"} BY <1>1
    <3> QED BY <3>1 DEF Held, Owned, Wished
  <2>2. BandOf[x] \in blocked \cap Bands <=> BandOf[x] \in blocked BY <1>1
  <2> QED BY <1>1, <2>1, <2>2 DEF Excluded, ExcludedItems, ExcludedBands, Unexplained
<1>2. ASSUME TypeOK
      PROVE  BucketVotes(TRUE) + BucketVotes(FALSE)
               = SumFunctionOnSet([x \in Items |-> Cardinality(Owners(x))], {x \in Items : ~Excluded(x)})
  <2> DEFINE N == Neighbours
             Large1 == Bucket(TRUE)
             Small1 == Bucket(FALSE)
             Left == {x \in Items : ~Excluded(x)}
             V == [f \in Fans |-> {x \in Held(f) : ~Excluded(x)}]
             O == [x \in Items |-> Owners(x)]
             many == [x \in Items |-> Cardinality(Owners(x))]
  <2>1. N \subseteq Fans /\ IsFiniteSet(N)
    <3>1. N \subseteq Fans BY DEF Neighbours, Supporters
    <3> QED BY <3>1, CurationAssumption, FS_Subset
  <2>2. Large1 \subseteq N /\ Small1 \subseteq N /\ Large1 \cup Small1 = N /\ Large1 \cap Small1 = {}
    BY DEF Bucket, Large
  <2>3. IsFiniteSet(Large1) /\ IsFiniteSet(Small1) BY <2>1, <2>2, FS_Subset
  <2>4. \A f \in Fans : IsFiniteSet(V[f]) /\ Votes[f] = Cardinality(V[f])
    <3> TAKE f \in Fans
    <3>1. V[f] \subseteq Items BY DEF Held
    <3>2. V[f] = {x \in Held(f) : /\ x \notin ExcludedItems /\ BandOf[x] \notin ExcludedBands
                                  /\ HostOf[x] \notin FollowedHosts}
      BY DEF Excluded
    <3> QED BY <3>1, <3>2, CurationAssumption, FS_Subset DEF Votes
  <2>5. \A x \in Items : IsFiniteSet(O[x]) /\ many[x] = Cardinality(O[x]) BY <1>2, OwnersAreFans
  <2>6. Left \subseteq Items /\ IsFiniteSet(Left) BY CurationAssumption, FS_Subset
  <2>7. /\ \A f \in N, x \in Items : f \in O[x] <=> x \in Held(f)
        /\ \A x \in Items : O[x] \subseteq N
        /\ \A f \in N : V[f] \subseteq Items
        /\ \A f \in N, x \in Items : x \in V[f] <=> x \in Held(f) /\ x \in Left
    BY <2>1 DEF Owners, Held
  <2>8. \A f \in N, x \in Items : x \in V[f] <=> x \in Left /\ f \in O[x] BY <2>7
  <2> HIDE DEF N, Large1, Small1, Left, V, O, many
  <2>9. SumFunctionOnSet(Votes, Large1) = Cardinality(PairsOf(Large1, V)) /\ IsFiniteSet(PairsOf(Large1, V))
    BY <2>1, <2>2, <2>3, <2>4, SumIsPairs
  <2>10. SumFunctionOnSet(Votes, Small1) = Cardinality(PairsOf(Small1, V)) /\ IsFiniteSet(PairsOf(Small1, V))
    BY <2>1, <2>2, <2>3, <2>4, SumIsPairs
  <2>11. SumFunctionOnSet(many, Left) = Cardinality(PairsOf(Left, O)) BY <2>5, <2>6, SumIsPairs
  <2>12. PairsOf(N, V) = PairsOf(Large1, V) \cup PairsOf(Small1, V) BY <2>2 DEF PairsOf
  <2>13. PairsOf(Large1, V) \cap PairsOf(Small1, V) = {} BY <2>2 DEF PairsOf
  <2>14. /\ IsFiniteSet(PairsOf(N, V))
         /\ Cardinality(PairsOf(N, V)) = Cardinality(PairsOf(Large1, V)) + Cardinality(PairsOf(Small1, V))
    <3>1. Cardinality(PairsOf(Large1, V) \cap PairsOf(Small1, V)) = 0 BY <2>13, FS_EmptySet
    <3>2. Cardinality(PairsOf(Large1, V)) \in Nat /\ Cardinality(PairsOf(Small1, V)) \in Nat
      BY <2>9, <2>10, FS_CardinalityType
    <3>3. /\ IsFiniteSet(PairsOf(Large1, V) \cup PairsOf(Small1, V))
          /\ Cardinality(PairsOf(Large1, V) \cup PairsOf(Small1, V))
               = Cardinality(PairsOf(Large1, V)) + Cardinality(PairsOf(Small1, V))
                   - Cardinality(PairsOf(Large1, V) \cap PairsOf(Small1, V))
      BY <2>9, <2>10, FS_Union
    <3> QED BY <2>12, <3>1, <3>2, <3>3
  <2>15. Cardinality(PairsOf(N, V)) = Cardinality(PairsOf(Left, O))
    <3>1. PairsOf(N, V) \subseteq N \X Items /\ PairsOf(Left, O) \subseteq Items \X N
      BY <2>6, <2>7 DEF PairsOf
    <3>2. \A f \in N, x \in Items : <<f, x>> \in PairsOf(N, V) <=> x \in V[f] BY DEF PairsOf
    <3>3. \A f \in N, x \in Items : <<x, f>> \in PairsOf(Left, O) <=> x \in Left /\ f \in O[x]
      BY DEF PairsOf
    <3>4. \A f \in N, x \in Items : <<f, x>> \in PairsOf(N, V) <=> <<x, f>> \in PairsOf(Left, O)
      BY <2>8, <3>2, <3>3
    <3> DEFINE P == PairsOf(N, V)  Q == PairsOf(Left, O)
    <3>5. IsFiniteSet(P) /\ P \subseteq N \X Items /\ Q \subseteq Items \X N BY <2>14, <3>1
    <3>6. \A f \in N, x \in Items : <<f, x>> \in P <=> <<x, f>> \in Q BY <3>4
    <3> HIDE DEF P, Q
    <3>7. Cardinality(P) = Cardinality(Q) BY <3>5, <3>6, PairsTurned
    <3> QED BY <3>7 DEF P, Q
  <2> QED BY <2>9, <2>10, <2>11, <2>14, <2>15 DEF BucketVotes, Large1, Small1, Left, many
<1>3. TypeOK => ReportsAgree BY <1>1, <1>2 DEF ReportsAgree
<1> QED BY <1>3, CurationTypeCorrect, PTL

-------------------------------------------------------------------------------------
(***************************************************************************)
(* The order and the feed.                                                 *)
(***************************************************************************)

\* The lexicographic order of five numbers, spelt out.
LEMMA TupleOrder ==
  ASSUME NEW k \in [1 .. 5 -> Int], NEW l \in [1 .. 5 -> Int]
  PROVE  (\E n \in 1 .. 5 : k[n] < l[n] /\ \A m \in 1 .. n - 1 : k[m] = l[m])
         <=> \/ k[1] < l[1]
             \/ k[1] = l[1] /\ k[2] < l[2]
             \/ k[1] = l[1] /\ k[2] = l[2] /\ k[3] < l[3]
             \/ k[1] = l[1] /\ k[2] = l[2] /\ k[3] = l[3] /\ k[4] < l[4]
             \/ k[1] = l[1] /\ k[2] = l[2] /\ k[3] = l[3] /\ k[4] = l[4] /\ k[5] < l[5]
<1>1. 1 .. 5 = {1, 2, 3, 4, 5} OBVIOUS
<1>2. 1 .. 1 - 1 = {} /\ 1 .. 2 - 1 = {1} /\ 1 .. 3 - 1 = {1, 2} /\ 1 .. 4 - 1 = {1, 2, 3}
      /\ 1 .. 5 - 1 = {1, 2, 3, 4}
  OBVIOUS
<1> QED BY <1>1, <1>2

\* A key is five numbers.
LEMMA KeyNumbers == ASSUME TypeOK, NEW x \in Items PROVE Key(x) \in [1 .. 5 -> Int]
<1>1. Score(x) \in Int BY ScoreNumbers
<1>2. Cardinality(Owners(x)) \in Nat BY OwnersAreFans
<1>3. TagAffinity(x) \in Nat BY AffinityFits
<1>4. Ident[x] \in Nat BY CurationAssumption
<1> DEFINE a == -Score(x)
           b == -Cardinality(Owners(x))
           c == -TagAffinity(x)
           d == IF x \in Albums THEN 0 ELSE 1
           e == -Ident[x]
<1>5. a \in Int /\ b \in Int /\ c \in Int /\ d \in Int /\ e \in Int BY <1>1, <1>2, <1>3, <1>4
<1>6. Key(x) = <<a, b, c, d, e>> BY DEF Key
<1> HIDE DEF a, b, c, d, e
<1> QED BY <1>5, <1>6

\* The order of the rows is strict and total: the ids tell apart any two items that nothing else does.
LEMMA BeforeOrders ==
  ASSUME TypeOK
  PROVE  /\ \A x \in Items : ~Before(x, x)
         /\ \A x, y \in Items : x # y => Before(x, y) \/ Before(y, x)
         /\ \A x, y, z \in Items : Before(x, y) /\ Before(y, z) => Before(x, z)
<1> DEFINE Lower(k, l) == \/ k[1] < l[1]
                          \/ k[1] = l[1] /\ k[2] < l[2]
                          \/ k[1] = l[1] /\ k[2] = l[2] /\ k[3] < l[3]
                          \/ k[1] = l[1] /\ k[2] = l[2] /\ k[3] = l[3] /\ k[4] < l[4]
                          \/ k[1] = l[1] /\ k[2] = l[2] /\ k[3] = l[3] /\ k[4] = l[4] /\ k[5] < l[5]
<1>1. \A x \in Items : /\ Key(x)[1] \in Int /\ Key(x)[2] \in Int /\ Key(x)[3] \in Int
                       /\ Key(x)[4] \in Int /\ Key(x)[5] \in Int
  BY KeyNumbers
<1>2. \A x, y \in Items : Before(x, y) <=> Lower(Key(x), Key(y))
  BY KeyNumbers, TupleOrder DEF Before
<1>3. \A x, y \in Items :
        x # y => \/ Key(x)[4] # Key(y)[4]
                 \/ Key(x)[5] # Key(y)[5]
  <2> SUFFICES ASSUME NEW x \in Items, NEW y \in Items, Key(x)[4] = Key(y)[4], Key(x)[5] = Key(y)[5]
               PROVE  x = y
    OBVIOUS
  <2>1. Ident[x] = Ident[y]
    <3>1. Key(x)[5] = -Ident[x] /\ Key(y)[5] = -Ident[y] BY DEF Key
    <3>2. Ident[x] \in Nat /\ Ident[y] \in Nat BY CurationAssumption
    <3>3. -Ident[x] = -Ident[y] BY <3>1
    <3> QED BY <3>2, <3>3
  <2>2. x \in Albums <=> y \in Albums BY DEF Key
  <2>3. \E kind \in {Albums, Tracks} : x \in kind /\ y \in kind BY <2>2 DEF Items
  <2> QED BY <2>1, <2>3, CurationAssumption
<1>4. \A x \in Items : ~Lower(Key(x), Key(x)) BY <1>1
<1>5. \A x, y \in Items : x # y => Lower(Key(x), Key(y)) \/ Lower(Key(y), Key(x)) BY <1>1, <1>3
<1>6. \A x, y, z \in Items : Lower(Key(x), Key(y)) /\ Lower(Key(y), Key(z)) => Lower(Key(x), Key(z))
  BY <1>1
<1> HIDE DEF Lower
<1> QED BY <1>2, <1>4, <1>5, <1>6

\* Sorting puts every row at its place, in whatever order they come.
LEMMA SortingOrders ==
  ASSUME TypeOK, NEW S, S \subseteq Items, IsFiniteSet(S), NEW rows \in SetToSeqs(S)
  PROVE  /\ Sorted(rows) \in Seq(S) /\ Len(Sorted(rows)) = Cardinality(S)
         /\ \A x \in S : \E n \in 1 .. Cardinality(S) : Sorted(rows)[n] = x
         /\ \A m, n \in 1 .. Cardinality(S) : m < n => Before(Sorted(rows)[m], Sorted(rows)[n])
<1> DEFINE D == 1 .. Cardinality(S)
           Precedes(m, n) == Before(rows[m], rows[n]) \/ (m < n /\ ~Before(rows[n], rows[m]))
           R == {mn \in D \X D : Precedes(mn[1], mn[2])}
           Good(p) == \A m, n \in D : m < n => Precedes(p[m], p[n])
           order == CHOOSE p \in SetToSeqs(D) : Good(p)
           listing == [n \in D |-> At(D, R, n)]
<1>1. Cardinality(S) \in Nat /\ IsFiniteSet(D) /\ Cardinality(D) = Cardinality(S)
  BY FS_CardinalityType, FS_Interval
<1>2. rows \in [D -> S] /\ DOMAIN rows = D /\ \A m, n \in D : m # n => rows[m] # rows[n]
  BY DEF SetToSeqs
<1>3. \A m, n \in D : Precedes(m, n) <=> Before(rows[m], rows[n])
  <2> TAKE m \in D, n \in D
  <2>1. rows[m] \in Items /\ rows[n] \in Items BY <1>2
  <2>2. CASE m = n BY <2>2, <1>1
  <2>3. CASE m # n
    <3>1. rows[m] # rows[n] BY <1>2, <2>3
    <3>2. Before(rows[m], rows[n]) \/ Before(rows[n], rows[m]) BY <2>1, <3>1, BeforeOrders
    <3> QED BY <3>2
  <2> QED BY <2>2, <2>3
<1> HIDE DEF Precedes
<1>4. StrictOrder(D, R)
  <2>1. \A n \in D : rows[n] \in Items BY <1>2
  <2>2. \A m, n \in D : <<m, n>> \in R <=> Before(rows[m], rows[n]) BY <1>3
  <2>3. \A n \in D : <<n, n>> \notin R BY <2>1, <2>2, BeforeOrders
  <2>4. \A m, n \in D : m # n => <<m, n>> \in R \/ <<n, m>> \in R BY <1>2, <2>1, <2>2, BeforeOrders
  <2>5. \A l, m, n \in D : <<l, m>> \in R /\ <<m, n>> \in R => <<l, n>> \in R
    BY <2>1, <2>2, BeforeOrders
  <2> HIDE DEF R
  <2> QED BY <2>3, <2>4, <2>5 DEF StrictOrder
<1>5. listing \in SetToSeqs(D) /\ Good(listing)
  <2>1. \A n \in D : At(D, R, n) \in D /\ Rank(D, R, At(D, R, n)) = n
    <3> HIDE DEF R, D
    <3> QED BY <1>1, <1>4, Listing DEF D
  <2>2. \A m, n \in D : m < n => <<At(D, R, m), At(D, R, n)>> \in R
    <3> HIDE DEF R
    <3> QED BY <1>1, <1>4, Listing
  <2>3. listing \in [D -> D] BY <2>1
  <2>4. \A m, n \in D : m # n => listing[m] # listing[n] BY <2>1
  <2>5. listing \in SetToSeqs(D) BY <1>1, <2>3, <2>4 DEF SetToSeqs
  <2>6. \A m, n \in D : m < n => Precedes(At(D, R, m), At(D, R, n)) BY <2>2
  <2> QED BY <2>5, <2>6
<1> HIDE DEF Good
<1>6. order \in SetToSeqs(D) /\ Good(order)
  <2> HIDE DEF listing
  <2> QED BY <1>5
<1>7. Sorted(rows) = [n \in D |-> rows[order[n]]] BY <1>2 DEF Sorted, Good, Precedes
<1> HIDE DEF order
<1>8. order \in [D -> D] /\ \A m, n \in D : m # n => order[m] # order[n] BY <1>1, <1>6 DEF SetToSeqs
<1>9. \A k \in D : \E n \in D : order[n] = k
  <2> DEFINE image == {order[n] : n \in D}
  <2>1. image \subseteq D BY <1>8
  <2>2. order \in Surjection(D, image) /\ order \in Injection(D, image)
    BY <1>8 DEF Surjection, Injection, IsInjective
  <2>3. image = D
    <3> HIDE DEF image, D
    <3>1. Cardinality(image) = Cardinality(D) BY <1>1, <2>2, FS_Surjection
    <3> QED BY <1>1, <2>1, <3>1, FS_Subset
  <2> QED BY <2>3
<1>10. \A x \in S : \E k \in D : rows[k] = x
  <2> DEFINE image == {rows[n] : n \in D}
  <2>1. image \subseteq S BY <1>2
  <2>2. rows \in Surjection(D, image) /\ rows \in Injection(D, image)
    BY <1>2 DEF Surjection, Injection, IsInjective
  <2>3. image = S
    <3> HIDE DEF image, D
    <3>1. Cardinality(image) = Cardinality(D) BY <1>1, <2>2, FS_Surjection
    <3> QED BY <1>1, <2>1, <3>1, FS_Subset
  <2> QED BY <2>3
<1>11. Sorted(rows) \in [D -> S] BY <1>2, <1>7, <1>8
<1>12. Sorted(rows) \in Seq(S) BY <1>1, <1>11, SeqDef
<1>13. Len(Sorted(rows)) = Cardinality(S)
  <2> PICK c \in Nat : c = Cardinality(S) BY <1>1
  <2> QED BY <1>11, <1>12
<1>14. \A x \in S : \E n \in D : Sorted(rows)[n] = x BY <1>7, <1>9, <1>10
<1>15. ASSUME NEW m \in D, NEW n \in D, m < n PROVE Before(Sorted(rows)[m], Sorted(rows)[n])
  <2>1. Precedes(order[m], order[n]) BY <1>6, <1>15 DEF Good
  <2> QED BY <1>3, <1>7, <1>8, <2>1
<1> QED BY <1>12, <1>13, <1>14, <1>15

\* The feed of any rows.
LEMMA FeedIsBest ==
  ASSUME TypeOK, NEW S, S \subseteq Items, IsFiniteSet(S), NEW rows \in SetToSeqs(S),
         NEW best, best = {x \in S : \A y \in S : BandOf[x] # NoBand /\ BandOf[y] = BandOf[x] => ~Before(y, x)}
  PROVE  /\ ToSet(Feed(rows)) = best /\ Len(Feed(rows)) = Cardinality(best)
         /\ \A n \in 1 .. Len(Feed(rows)) - 1 : Before(Feed(rows)[n], Feed(rows)[n + 1])
<1> DEFINE s == Sorted(rows)
           N == Cardinality(S)
           K == Firsts(s, 1 .. N)
<1>1. N \in Nat BY FS_CardinalityType
<1>2. /\ s \in Seq(S) /\ Len(s) = N
      /\ \A x \in S : \E n \in 1 .. N : s[n] = x
      /\ \A m, n \in 1 .. N : m < n => Before(s[m], s[n])
  BY SortingOrders
<1> HIDE DEF s
<1>3. \A n \in 1 .. N : s[n] \in S /\ s[n] \in Items BY <1>2
<1>4. Feed(rows) = Listed(s, K) BY <1>2, OnePerBandKeeps DEF Feed, s
<1>5. K \subseteq 1 .. N BY DEF Firsts
<1> HIDE DEF N
<1>6. /\ IsFiniteSet(K) /\ Cardinality(K) \in Nat
      /\ Len(Listed(s, K)) = Cardinality(K) /\ ToSet(Listed(s, K)) = {s[k] : k \in K}
  <2>1. s \in Seq(S) /\ K \subseteq 1 .. Len(s) BY <1>2, <1>5
  <2> HIDE DEF K
  <2> QED BY <2>1, ListedType
<1>7. \A k \in 1 .. N : k \in K <=> s[k] \in best
  <2> TAKE k \in 1 .. N
  <2>1. ASSUME k \in K, NEW y \in S, BandOf[s[k]] # NoBand, BandOf[y] = BandOf[s[k]], Before(y, s[k])
        PROVE  FALSE
    <3>1. PICK j \in 1 .. N : s[j] = y BY <1>2
    <3>2. ~(j < k) BY <2>1, <3>1 DEF Firsts
    <3>3. j # k BY <1>3, <2>1, <3>1, BeforeOrders
    <3>4. k < j BY <1>1, <3>2, <3>3
    <3>5. Before(s[k], y) BY <1>2, <3>1, <3>4
    <3>6. Before(s[k], s[k]) BY <1>3, <2>1, <3>1, <3>5, BeforeOrders
    <3> QED BY <1>3, <3>6, BeforeOrders
  <2>2. ASSUME s[k] \in best, BandOf[s[k]] # NoBand, NEW j \in 1 .. N, j < k
        PROVE  BandOf[s[j]] # BandOf[s[k]]
    <3>1. Before(s[j], s[k]) BY <1>2, <2>2
    <3> QED BY <1>3, <2>2, <3>1
  <2>3. s[k] \in best => k \in K BY <2>2 DEF Firsts
  <2>4. k \in K => s[k] \in best BY <1>3, <2>1
  <2> QED BY <2>3, <2>4
<1>8. \A x \in best : \E k \in K : s[k] = x
  <2> TAKE x \in best
  <2>1. x \in S OBVIOUS
  <2>2. PICK k \in 1 .. N : s[k] = x BY <1>2, <2>1
  <2> QED BY <1>7, <2>2
<1>9. {s[k] : k \in K} = best BY <1>5, <1>7, <1>8
<1>10. Cardinality(best) = Cardinality(K)
  <2> DEFINE f == [k \in K |-> s[k]]
  <2>1. \A j, k \in K : s[j] = s[k] => j = k
    <3> SUFFICES ASSUME NEW j \in K, NEW k \in K, s[j] = s[k], j # k PROVE FALSE OBVIOUS
    <3>1. j \in 1 .. N /\ k \in 1 .. N BY <1>5
    <3>2. j < k \/ k < j BY <1>1, <3>1
    <3>3. Before(s[j], s[k]) \/ Before(s[k], s[j]) BY <1>2, <3>1, <3>2
    <3> QED BY <1>3, <3>1, <3>3, BeforeOrders
  <2>2. f \in Surjection(K, best) BY <1>8, <1>9 DEF Surjection
  <2>3. f \in Injection(K, best) BY <2>1, <2>2 DEF Injection, IsInjective, Surjection
  <2> HIDE DEF f, K
  <2> QED BY <1>6, <2>2, <2>3, FS_Surjection
<1>11. ASSUME NEW n \in 1 .. Cardinality(K) - 1
       PROVE  Before(Listed(s, K)[n], Listed(s, K)[n + 1])
  <2> DEFINE a == At(K, Less, n)  b == At(K, Less, n + 1)
  <2>1. n \in 1 .. Cardinality(K) /\ n + 1 \in 1 .. Cardinality(K) /\ n < n + 1 BY <1>6
  <2>2. K \subseteq Nat BY <1>1, <1>5
  <2> HIDE DEF K
  <2>3. a \in K /\ b \in K /\ <<a, b>> \in Less BY <1>6, <2>1, <2>2, Listing, LessIsStrict
  <2>4. Listed(s, K)[n] = s[a] /\ Listed(s, K)[n + 1] = s[b] BY <2>1 DEF Listed
  <2> HIDE DEF a, b
  <2>5. a < b BY <2>2, <2>3, LessIs
  <2> QED BY <1>2, <1>5, <2>3, <2>4, <2>5
<1> QED BY <1>4, <1>6, <1>9, <1>10, <1>11

\* The feed is the best passing item of each band, in order, however the rows came.
THEOREM FeedAlwaysBest == Spec => []FeedIsBestOfBands
<1>1. TypeOK => FeedIsBestOfBands
  <2> DEFINE best == {x \in Passing : \A y \in Passing :
                        BandOf[x] # NoBand /\ BandOf[y] = BandOf[x] => ~Before(y, x)}
  <2> SUFFICES ASSUME TypeOK, NEW rows \in SetToSeqs(Passing)
               PROVE  /\ ToSet(Feed(rows)) = best /\ Len(Feed(rows)) = Cardinality(best)
                      /\ \A n \in 1 .. Len(Feed(rows)) - 1 : Before(Feed(rows)[n], Feed(rows)[n + 1])
    BY DEF FeedIsBestOfBands
  <2>1. Passing \subseteq Items BY DEF Passing, Candidates
  <2>2. IsFiniteSet(Passing) BY <2>1, CurationAssumption, FS_Subset
  <2> PICK b : b = best OBVIOUS
  <2> HIDE DEF best
  <2> QED BY <2>1, <2>2, FeedIsBest DEF best
<1> QED BY <1>1, CurationTypeCorrect, PTL
=================================================================================

------------------------------- MODULE SumFacts -------------------------------
(***************************************************************************)
(* What the sums of the community modules compute: SumFunction over the    *)
(* indices of a list and MapThenSumSet over a set.  Both fold a set in an  *)
(* order that CHOOSE gives; the lemmas show that the order does not matter *)
(* and how a sum changes with its terms.  And what the remainders of a     *)
(* counter that wraps around add up to.                                    *)
(*                                                                         *)
(* Every induction is a minimal counterexample: of the subsets of a finite *)
(* set for which a statement fails, take one that has none below it.       *)
(***************************************************************************)
EXTENDS FiniteSetsExt, Sequences, FiniteSetTheorems, SequenceTheorems, WellFoundedInduction, TLAPS

(* The function that both folds define, and its value. *)
First(s) == CHOOSE x \in s : TRUE

Adds(sum, f, S) ==
    sum = [s \in SUBSET S |-> IF s = {} THEN 0 ELSE f[First(s)] + sum[s \ {First(s)}]]

Total(f, S) == (CHOOSE sum : Adds(sum, f, S))[S]

(* The folds are totals, by their definitions. *)
LEMMA SumFunctionIsTotal ==
    ASSUME NEW f
    PROVE  SumFunction(f) = Total(f, DOMAIN f)
  BY Zenon DEF SumFunction, SumFunctionOnSet, FoldFunctionOnSet, MapThenFoldSet, Total, Adds, First

(* The sum over a set of a function's values is that of the set. *)
LEMMA MapThenSumIsTotal ==
    ASSUME NEW f, NEW S
    PROVE  MapThenSumSet(LAMBDA x : f[x], S) = Total(f, S)
  BY Zenon DEF MapThenSumSet, MapThenFoldSet, Total, Adds, First

-------------------------------------------------------------------------------
(* Among the bad subsets of a finite set there is a minimal one. *)
LEMMA MinimalSubset ==
    ASSUME NEW T, IsFiniteSet(T), NEW Bad, Bad \subseteq SUBSET T, Bad # {}
    PROVE  \E S \in Bad : \A R \in SUBSET S : R # S => R \notin Bad
<1>1. IsWellFoundedOn(StrictSubsetOrdering(T), SUBSET T)
  BY FS_StrictSubsetOrderingWellFounded, FS_FiniteSubsetsOfFinite
<1>2. PICK S \in Bad : \A R \in Bad : ~(<<R, S>> \in StrictSubsetOrdering(T))
  BY <1>1, WFMin
<1>3. ASSUME NEW R \in SUBSET S, R # S, R \in Bad PROVE FALSE
  BY <1>2, <1>3 DEF StrictSubsetOrdering
<1> QED BY <1>3

(* First is an element. *)
LEMMA FirstIsElement ==
    ASSUME NEW s, s # {}
    PROVE  First(s) \in s
  BY DEF First

(* Two functions that add agree where both are defined. *)
LEMMA AddersAgree ==
    ASSUME NEW S1, NEW S2, NEW f, NEW g1, NEW g2, IsFiniteSet(S1),
           Adds(g1, f, S1), Adds(g2, f, S2)
    PROVE  \A s \in (SUBSET S1) \cap (SUBSET S2) : g1[s] = g2[s]
<1> DEFINE Bad == {s \in (SUBSET S1) \cap (SUBSET S2) : g1[s] # g2[s]}
<1> SUFFICES ASSUME Bad # {} PROVE FALSE
  OBVIOUS
<1>1. PICK s \in Bad : \A r \in SUBSET s : r # s => r \notin Bad
  <2>1. Bad \subseteq SUBSET S1
    OBVIOUS
  <2> HIDE DEF Bad
  <2> QED BY <2>1, MinimalSubset
<1>2. /\ g1[s] = (IF s = {} THEN 0 ELSE f[First(s)] + g1[s \ {First(s)}])
      /\ g2[s] = (IF s = {} THEN 0 ELSE f[First(s)] + g2[s \ {First(s)}])
  BY <1>1 DEF Adds
<1>3. s # {}
  BY <1>1, <1>2
<1>4. g1[s \ {First(s)}] = g2[s \ {First(s)}]
  BY <1>1, <1>3, FirstIsElement
<1> QED BY <1>1, <1>2, <1>3, <1>4

TotalUnfolds(f, S) ==
    Total(f, S) = IF S = {} THEN 0 ELSE f[First(S)] + Total(f, S \ {First(S)})

(* There is a function that adds. *)
LEMMA AdderExists ==
    ASSUME NEW S, IsFiniteSet(S), NEW f
    PROVE  \E g : Adds(g, f, S)
<1> DEFINE Bad == {s \in SUBSET S : ~\E g : Adds(g, f, s)}
<1> SUFFICES ASSUME Bad # {} PROVE FALSE
  OBVIOUS
<1>1. PICK B \in Bad : \A r \in SUBSET B : r # B => r \notin Bad
  <2>1. Bad \subseteq SUBSET S
    OBVIOUS
  <2> HIDE DEF Bad
  <2> QED BY <2>1, MinimalSubset
<1> DEFINE Rest(s) == s \ {First(s)}
           G(s) == CHOOSE g : Adds(g, f, s)
           h == [s \in SUBSET B |-> IF s = {} THEN 0 ELSE f[First(s)] + Total(f, Rest(s))]
<1>2. ASSUME NEW r \in SUBSET B, r # B
      PROVE  Adds(G(r), f, r)
  <2>1. \E g : Adds(g, f, r)
    BY <1>1, <1>2
  <2> QED BY <2>1
<1>3. ASSUME NEW s \in SUBSET B, s # {}
      PROVE  h[Rest(s)] = Total(f, Rest(s))
  <2> DEFINE r == Rest(s)
  <2>1. r \in SUBSET B /\ r # B
    BY <1>3, FirstIsElement
  <2>2. Adds(G(r), f, r)
    BY <1>2, <2>1
  <2>3. G(r)[r] = (IF r = {} THEN 0 ELSE f[First(r)] + G(r)[Rest(r)])
    BY <2>2 DEF Adds
  <2>4. CASE r = {}
    BY <2>1, <2>3, <2>4 DEF Total
  <2>5. CASE r # {}
    <3>1. Rest(r) \in SUBSET r /\ Rest(r) \in SUBSET B /\ Rest(r) # B
      BY <2>1, <2>5, FirstIsElement
    <3>2. Adds(G(Rest(r)), f, Rest(r))
      BY <1>2, <3>1
    <3>3. IsFiniteSet(r)
      BY <2>1, <1>1, FS_Subset
    <3>4. G(r)[Rest(r)] = G(Rest(r))[Rest(r)]
      BY <2>2, <3>1, <3>2, <3>3, AddersAgree
    <3> QED BY <2>1, <2>3, <2>5, <3>4 DEF Total
  <2> QED BY <2>4, <2>5
<1>4. Adds(h, f, B)
  <2>1. \A s \in SUBSET B : s # {} => h[Rest(s)] = Total(f, Rest(s))
    BY <1>3
  <2>2. h = [s \in SUBSET B |-> IF s = {} THEN 0 ELSE f[First(s)] + h[Rest(s)]]
    BY <2>1
  <2> QED BY <2>2 DEF Adds
<1> QED BY <1>1, <1>4

(* A total is one term and the total of the others. *)
LEMMA TotalUnfolded ==
    ASSUME NEW S, IsFiniteSet(S), NEW f
    PROVE  TotalUnfolds(f, S)
<1> DEFINE G(s) == CHOOSE g : Adds(g, f, s)
           Rest == S \ {First(S)}
<1>1. Adds(G(S), f, S)
  BY AdderExists
<1>2. G(S)[S] = IF S = {} THEN 0 ELSE f[First(S)] + G(S)[Rest]
  BY <1>1 DEF Adds
<1>3. ASSUME S # {} PROVE G(S)[Rest] = G(Rest)[Rest]
  <2>1. IsFiniteSet(Rest)
    BY FS_RemoveElement
  <2>2. Adds(G(Rest), f, Rest)
    BY <2>1, AdderExists
  <2> QED BY <1>1, <2>2, AddersAgree
<1> QED BY <1>2, <1>3 DEF TotalUnfolds, Total

-------------------------------------------------------------------------------
(* Totals of integers *)

(* Integers have an integer total. *)
LEMMA TotalType ==
    ASSUME NEW S, IsFiniteSet(S), NEW f, \A x \in S : f[x] \in Int
    PROVE  Total(f, S) \in Int
<1> DEFINE Bad == {s \in SUBSET S : Total(f, s) \notin Int}
<1> SUFFICES ASSUME Bad # {} PROVE FALSE
  OBVIOUS
<1>1. PICK B \in Bad : \A r \in SUBSET B : r # B => r \notin Bad
  <2>1. Bad \subseteq SUBSET S
    OBVIOUS
  <2> HIDE DEF Bad
  <2> QED BY <2>1, MinimalSubset
<1>2. TotalUnfolds(f, B)
  BY <1>1, TotalUnfolded, FS_Subset
<1>3. B # {}
  BY <1>1, <1>2 DEF TotalUnfolds
<1>4. First(B) \in B /\ Total(f, B \ {First(B)}) \in Int
  BY <1>1, <1>3, FirstIsElement
<1>5. f[First(B)] \in Int
  BY <1>1, <1>4
<1>6. Total(f, B) = f[First(B)] + Total(f, B \ {First(B)})
  BY <1>2, <1>3 DEF TotalUnfolds
<1> QED BY <1>1, <1>4, <1>5, <1>6

(* Natural numbers have a natural total. *)
LEMMA TotalNat ==
    ASSUME NEW S, IsFiniteSet(S), NEW f, \A x \in S : f[x] \in Nat
    PROVE  Total(f, S) \in Nat
<1> DEFINE Bad == {s \in SUBSET S : Total(f, s) \notin Nat}
<1> SUFFICES ASSUME Bad # {} PROVE FALSE
  OBVIOUS
<1>1. PICK B \in Bad : \A r \in SUBSET B : r # B => r \notin Bad
  <2>1. Bad \subseteq SUBSET S
    OBVIOUS
  <2> HIDE DEF Bad
  <2> QED BY <2>1, MinimalSubset
<1>2. TotalUnfolds(f, B)
  BY <1>1, TotalUnfolded, FS_Subset
<1>3. B # {}
  BY <1>1, <1>2 DEF TotalUnfolds
<1>4. First(B) \in B /\ Total(f, B \ {First(B)}) \in Nat
  BY <1>1, <1>3, FirstIsElement
<1>5. f[First(B)] \in Nat
  BY <1>1, <1>4
<1>6. Total(f, B) = f[First(B)] + Total(f, B \ {First(B)})
  BY <1>2, <1>3 DEF TotalUnfolds
<1> QED BY <1>1, <1>4, <1>5, <1>6

(* The empty total is zero. *)
LEMMA TotalEmpty ==
    ASSUME NEW f
    PROVE  Total(f, {}) = 0
  BY TotalUnfolded, FS_EmptySet DEF TotalUnfolds

(* Any element may be taken out, not only the first. *)
LEMMA TotalWithout ==
    ASSUME NEW S, IsFiniteSet(S), NEW f, \A x \in S : f[x] \in Int, NEW y \in S
    PROVE  Total(f, S) = f[y] + Total(f, S \ {y})
<1> DEFINE Splits(s) == \A z \in s : Total(f, s) = f[z] + Total(f, s \ {z})
           Bad == {s \in SUBSET S : ~Splits(s)}
<1> SUFFICES ASSUME Bad # {} PROVE FALSE
  OBVIOUS
<1>1. PICK B \in Bad : \A r \in SUBSET B : r # B => r \notin Bad
  <2>1. Bad \subseteq SUBSET S
    OBVIOUS
  <2> HIDE DEF Bad
  <2> QED BY <2>1, MinimalSubset
<1>2. PICK z \in B : Total(f, B) # f[z] + Total(f, B \ {z})
  BY <1>1
<1> DEFINE p == First(B)
<1>3. \A r \in SUBSET B : IsFiniteSet(r) /\ Total(f, r) \in Int
  <2>1. \A r \in SUBSET B : IsFiniteSet(r)
    BY <1>1, FS_Subset
  <2> QED BY <1>1, <2>1, TotalType
<1>4. p \in B /\ Total(f, B) = f[p] + Total(f, B \ {p})
  BY <1>2, <1>3, TotalUnfolded, FirstIsElement DEF TotalUnfolds
<1>5. p # z
  BY <1>2, <1>4
<1> HIDE DEF p
<1>6. Total(f, B \ {p}) = f[z] + Total(f, (B \ {p}) \ {z})
  <2>1. Splits(B \ {p})
    BY <1>1, <1>4
  <2> QED BY <1>2, <1>5, <2>1
<1>7. Total(f, B \ {z}) = f[p] + Total(f, (B \ {z}) \ {p})
  <2>1. Splits(B \ {z})
    BY <1>1, <1>2
  <2> QED BY <1>4, <1>5, <2>1
<1>8. (B \ {p}) \ {z} = (B \ {z}) \ {p}
  OBVIOUS
<1>9. f[p] \in Int /\ f[z] \in Int /\ Total(f, (B \ {z}) \ {p}) \in Int
  BY <1>1, <1>2, <1>3, <1>4
<1>11. Total(f, B) = f[p] + (f[z] + Total(f, (B \ {z}) \ {p}))
  BY <1>4, <1>6, <1>8
<1>12. Total(f, B) # f[z] + (f[p] + Total(f, (B \ {z}) \ {p}))
  BY <1>2, <1>7
<1> QED BY <1>9, <1>11, <1>12

(* Equal terms have equal totals, also over another set that is in
   one-to-one correspondence: see TotalShifted. *)
LEMMA TotalCongruent ==
    ASSUME NEW S, IsFiniteSet(S), NEW f, NEW g, \A x \in S : f[x] = g[x]
    PROVE  Total(f, S) = Total(g, S)
<1> DEFINE Bad == {s \in SUBSET S : Total(f, s) # Total(g, s)}
<1> SUFFICES ASSUME Bad # {} PROVE FALSE
  OBVIOUS
<1>1. PICK B \in Bad : \A r \in SUBSET B : r # B => r \notin Bad
  <2>1. Bad \subseteq SUBSET S
    OBVIOUS
  <2> HIDE DEF Bad
  <2> QED BY <2>1, MinimalSubset
<1>2. TotalUnfolds(f, B) /\ TotalUnfolds(g, B)
  BY <1>1, TotalUnfolded, FS_Subset
<1>3. B # {}
  BY <1>1, <1>2 DEF TotalUnfolds
<1>4. First(B) \in B /\ Total(f, B \ {First(B)}) = Total(g, B \ {First(B)})
  BY <1>1, <1>3, FirstIsElement
<1>5. f[First(B)] = g[First(B)]
  BY <1>1, <1>4
<1> QED BY <1>1, <1>2, <1>3, <1>4, <1>5 DEF TotalUnfolds

(* One term is changed. *)
LEMMA TotalChanged ==
    ASSUME NEW S, IsFiniteSet(S), NEW y \in S,
           NEW f, \A x \in S : f[x] \in Int,
           NEW g, g[y] \in Int, \A x \in S : x # y => g[x] = f[x]
    PROVE  Total(g, S) = Total(f, S) + (g[y] - f[y])
<1>1. IsFiniteSet(S \ {y})
  BY FS_RemoveElement
<1>2. Total(g, S \ {y}) = Total(f, S \ {y})
  BY <1>1, TotalCongruent
<1>3. Total(f, S \ {y}) \in Int
  BY <1>1, TotalType
<1>4. Total(g, S) = g[y] + Total(g, S \ {y})
  BY TotalWithout
<1>5. Total(f, S) = f[y] + Total(f, S \ {y})
  BY TotalWithout
<1> QED BY <1>2, <1>3, <1>4, <1>5

(* Every term is zero. *)
LEMMA TotalZero ==
    ASSUME NEW S, IsFiniteSet(S), NEW f, \A x \in S : f[x] = 0
    PROVE  Total(f, S) = 0
<1> DEFINE Bad == {s \in SUBSET S : Total(f, s) # 0}
<1> SUFFICES ASSUME Bad # {} PROVE FALSE
  OBVIOUS
<1>1. PICK B \in Bad : \A r \in SUBSET B : r # B => r \notin Bad
  <2>1. Bad \subseteq SUBSET S
    OBVIOUS
  <2> HIDE DEF Bad
  <2> QED BY <2>1, MinimalSubset
<1>2. TotalUnfolds(f, B)
  BY <1>1, TotalUnfolded, FS_Subset
<1>3. B # {}
  BY <1>1, <1>2 DEF TotalUnfolds
<1>4. First(B) \in B /\ Total(f, B \ {First(B)}) = 0
  BY <1>1, <1>3, FirstIsElement
<1>5. f[First(B)] = 0
  BY <1>1, <1>4
<1>6. Total(f, B) = f[First(B)] + Total(f, B \ {First(B)})
  BY <1>2, <1>3 DEF TotalUnfolds
<1> QED BY <1>1, <1>4, <1>5, <1>6

-------------------------------------------------------------------------------
(* Lists of integers *)

(* The terms of a total over an interval, moved down by one. *)
LEMMA TotalShifted ==
    ASSUME NEW f, NEW g, NEW n \in Nat,
           \A i \in 1 .. n : f[i + 1] \in Int /\ g[i] = f[i + 1]
    PROVE  Total(g, 1 .. n) = Total(f, 2 .. n + 1)
<1> DEFINE Shifts(k) == Total(g, 1 .. k) = Total(f, 2 .. k + 1)
           Bad == {k \in 0 .. n : ~Shifts(k)}
<1> SUFFICES ASSUME Bad # {} PROVE FALSE
  OBVIOUS
<1>1. PICK k \in Bad : \A j \in Bad : ~(<<j, k>> \in OpToRel(<, Nat))
  <2>1. Bad \subseteq Nat
    OBVIOUS
  <2> HIDE DEF Bad
  <2> QED BY <2>1, WFMin, NatLessThanWellFounded
<1>2. k # 0
  <2>1. 1 .. 0 = {} /\ 2 .. 0 + 1 = {}
    OBVIOUS
  <2>2. Shifts(0)
    BY <2>1, TotalEmpty
  <2> QED BY <1>1, <2>2
<1>3. k \in 1 .. n /\ k - 1 \in 0 .. n
  <2>1. k \in 0 .. n
    BY <1>1
  <2> QED BY <1>2, <2>1
<1>4. Shifts(k - 1)
  <2>1. <<k - 1, k>> \in OpToRel(<, Nat)
    BY <1>3 DEF OpToRel
  <2> QED BY <1>1, <1>3, <2>1
<1>5. Total(g, 1 .. k) = g[k] + Total(g, 1 .. k - 1)
  <2>1. (1 .. k) \ {k} = 1 .. k - 1 /\ k \in 1 .. k
    BY <1>3
  <2>2. IsFiniteSet(1 .. k)
    BY <1>3, FS_Interval
  <2>3. ASSUME NEW x \in 1 .. k PROVE g[x] \in Int
    <3>1. x \in 1 .. n
      BY <1>3
    <3> QED BY <3>1
  <2>4. Total(g, 1 .. k) = g[k] + Total(g, (1 .. k) \ {k})
    BY <2>1, <2>2, <2>3, TotalWithout
  <2> QED BY <2>1, <2>4
<1>6. Total(f, 2 .. k + 1) = f[k + 1] + Total(f, 2 .. k)
  <2>1. (2 .. k + 1) \ {k + 1} = 2 .. k /\ k + 1 \in 2 .. k + 1
    BY <1>3
  <2>2. IsFiniteSet(2 .. k + 1)
    BY <1>3, FS_Interval
  <2>3. ASSUME NEW x \in 2 .. k + 1 PROVE f[x] \in Int
    <3>1. x - 1 \in 1 .. n /\ x = (x - 1) + 1
      BY <1>3
    <3> QED BY <3>1
  <2>4. Total(f, 2 .. k + 1) = f[k + 1] + Total(f, (2 .. k + 1) \ {k + 1})
    BY <2>1, <2>2, <2>3, TotalWithout
  <2> QED BY <2>1, <2>4
<1>7. (k - 1) + 1 = k
  BY <1>3
<1> QED BY <1>1, <1>3, <1>4, <1>5, <1>6, <1>7

(* The sum of a list is the total over its positions. *)
LEMMA SumOfList ==
    ASSUME NEW list \in Seq(Int)
    PROVE  SumFunction(list) = Total(list, 1 .. Len(list)) /\ SumFunction(list) \in Int
<1>1. DOMAIN list = 1 .. Len(list) /\ IsFiniteSet(1 .. Len(list))
  BY LenProperties, FS_Interval
<1>2. \A i \in 1 .. Len(list) : list[i] \in Int
  BY ElementOfSeq
<1> QED BY <1>1, <1>2, SumFunctionIsTotal, TotalType

(* The empty list has the sum zero. *)
LEMMA SumOfEmpty == SumFunction(<<>>) = 0
<1>1. DOMAIN <<>> = {}
  OBVIOUS
<1> QED BY <1>1, SumFunctionIsTotal, TotalEmpty

(* Appending adds the element to the sum. *)
LEMMA SumOfAppend ==
    ASSUME NEW list \in Seq(Int), NEW x \in Int
    PROVE  SumFunction(Append(list, x)) = SumFunction(list) + x
<1> DEFINE new == Append(list, x)
           n == Len(list)
<1>1. /\ new \in Seq(Int) /\ Len(new) = n + 1 /\ new[n + 1] = x
      /\ \A i \in 1 .. n : new[i] = list[i]
  BY AppendProperties
<1>2. n \in Nat
  BY LenProperties
<1> HIDE DEF new, n
<1>3. IsFiniteSet(1 .. n) /\ IsFiniteSet(1 .. n + 1)
  BY <1>2, FS_Interval
<1>4. (1 .. n + 1) \ {n + 1} = 1 .. n /\ n + 1 \in 1 .. n + 1
  BY <1>2
<1>5. \A i \in 1 .. n + 1 : new[i] \in Int
  BY <1>1, ElementOfSeq
<1>6. Total(new, 1 .. n + 1) = new[n + 1] + Total(new, 1 .. n)
  <2>1. Total(new, 1 .. n + 1) = new[n + 1] + Total(new, (1 .. n + 1) \ {n + 1})
    BY <1>3, <1>4, <1>5, TotalWithout
  <2> QED BY <1>4, <2>1
<1>7. Total(new, 1 .. n) = Total(list, 1 .. n)
  BY <1>1, <1>3, TotalCongruent
<1>8. SumFunction(new) = Total(new, 1 .. n + 1) /\ SumFunction(list) = Total(list, 1 .. n)
      /\ SumFunction(list) \in Int
  BY <1>1, SumOfList DEF n
<1> QED BY <1>1, <1>6, <1>7, <1>8 DEF new

(* Dropping the head subtracts it from the sum. *)
LEMMA SumOfTail ==
    ASSUME NEW list \in Seq(Int), list # <<>>
    PROVE  SumFunction(Tail(list)) = SumFunction(list) - Head(list)
<1> DEFINE n == Len(list)
           tail == Tail(list)
<1>1. tail \in Seq(Int) /\ Len(tail) = n - 1 /\ \A i \in 1 .. n - 1 : tail[i] = list[i + 1]
  BY HeadTailProperties, LenProperties
<1>2. n \in Nat /\ n > 0 /\ Head(list) = list[1]
  BY EmptySeq, LenProperties, HeadTailProperties
<1> HIDE DEF n, tail
<1>3. \A i \in 1 .. n : list[i] \in Int
  BY ElementOfSeq DEF n
<1>4. Total(tail, 1 .. n - 1) = Total(list, 2 .. n)
  <2>1. n - 1 \in Nat /\ (n - 1) + 1 = n
    BY <1>2
  <2>2. \A i \in 1 .. n - 1 : list[i + 1] \in Int /\ tail[i] = list[i + 1]
    BY <1>1, <1>2, <1>3
  <2> QED BY <2>1, <2>2, TotalShifted
<1>5. Total(list, 1 .. n) = list[1] + Total(list, 2 .. n)
  <2>1. (1 .. n) \ {1} = 2 .. n /\ 1 \in 1 .. n
    BY <1>2
  <2>2. IsFiniteSet(1 .. n)
    BY <1>2, FS_Interval
  <2>3. Total(list, 1 .. n) = list[1] + Total(list, (1 .. n) \ {1})
    BY <1>3, <2>1, <2>2, TotalWithout
  <2> QED BY <2>1, <2>3
<1>6. IsFiniteSet(2 .. n) /\ list[1] \in Int /\ \A i \in 2 .. n : list[i] \in Int
  BY <1>2, <1>3, FS_Interval
<1>7. Total(list, 2 .. n) \in Int
  BY <1>6, TotalType
<1>8. SumFunction(tail) = Total(tail, 1 .. n - 1) /\ SumFunction(list) = Total(list, 1 .. n)
  BY <1>1, SumOfList DEF n
<1> QED BY <1>2, <1>4, <1>5, <1>6, <1>7, <1>8 DEF tail

(* A list of natural numbers has a natural sum. *)
LEMMA SumOfNaturals ==
    ASSUME NEW list \in Seq(Nat)
    PROVE  list \in Seq(Int) /\ SumFunction(list) \in Nat
<1>1. DOMAIN list = 1 .. Len(list) /\ IsFiniteSet(1 .. Len(list))
  BY LenProperties, FS_Interval
<1>2. \A i \in 1 .. Len(list) : list[i] \in Nat
  BY ElementOfSeq
<1>3. list \in Seq(Int)
  OBVIOUS
<1> QED BY <1>1, <1>2, <1>3, SumFunctionIsTotal, TotalNat

-------------------------------------------------------------------------------
(* Numbers *)

(* Every non-empty set of numbers has a least one. *)
LEMMA LeastNumber ==
    ASSUME NEW S, S \subseteq Nat, S # {}
    PROVE  \E x \in S : \A y \in S : x <= y
<1>1. PICK x \in S : \A y \in S : ~(<<y, x>> \in OpToRel(<, Nat))
  BY WFMin, NatLessThanWellFounded
<1>2. ASSUME NEW y \in S PROVE x <= y
  <2>1. y < x => <<y, x>> \in OpToRel(<, Nat)
    BY DEF OpToRel
  <2>2. ~(y < x)
    BY <1>1, <2>1, Zenon
  <2> QED BY <2>2
<1> QED BY <1>2

(* A remainder may be taken before or after an addition. *)
LEMMA RemainderOfSum ==
    ASSUME NEW m \in Nat \ {0}, NEW a \in Int, NEW b \in Int
    PROVE  ((a % m) + b) % m = (a + b) % m /\ (a + b) % m \in 0 .. m - 1
<1> DEFINE q == a \div m
           r == a % m
           c == r + b
           p == c \div m
           s == c % m
<1>1. q \in Int /\ r \in 0 .. m - 1 /\ a = m * q + r
  OBVIOUS
<1> HIDE DEF q, r
<1>2. c \in Int
  BY <1>1
<1> HIDE DEF c
<1>3. p \in Int /\ s \in 0 .. m - 1 /\ c = m * p + s
  BY <1>2
<1> HIDE DEF p
<1>4. c % m = s
  OBVIOUS
<1> HIDE DEF s
<1>5. q + p \in Int /\ a + b = m * (q + p) + s
  BY <1>1, <1>3 DEF c
<1>6. (a + b) % m = s
  <2>1. \A k \in Int : (m * k + s) % m = s
    BY <1>3
  <2> QED BY <1>5, <2>1
<1>7. (a % m) + b = c
  BY DEF c, r
<1> QED BY <1>3, <1>4, <1>6, <1>7

(* The remainder of a number that is small enough is the number. *)
LEMMA RemainderOfSmall ==
    ASSUME NEW m \in Nat \ {0}, NEW a \in 0 .. m - 1
    PROVE  a % m = a
  OBVIOUS
===============================================================================

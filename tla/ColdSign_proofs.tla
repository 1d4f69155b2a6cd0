-------------------------- MODULE ColdSign_proofs --------------------------
(***************************************************************************)
(* One signing run, for every set that can be shown to the device, every   *)
(* shuffle of the destinations and every order of the key images.          *)
(*                                                                         *)
(* A run works on one transaction at a time, and what a section has made   *)
(* is only read until the transaction is sealed.  WorkInv says what each   *)
(* section leaves behind; each property of the signed transactions is then *)
(* one fact about the transaction that Seal appends.                       *)
(***************************************************************************)
EXTENDS ColdSign, FiniteSetTheorems, FunctionTheorems, SequenceTheorems, WellFoundedInduction, TLAPS

-----------------------------------------------------------------------------
(* Least numbers, smallest sets *)

LEMMA LeastExists ==
    ASSUME NEW T, T \subseteq Nat, T # {}
    PROVE  \E x \in T : \A y \in T : x <= y
<1> DEFINE R == OpToRel(<, Nat)
<1>1. IsWellFoundedOn(R, Nat)
  BY NatLessThanWellFounded
<1>2. \A x, y \in Nat : y < x => <<y, x>> \in R
  BY DEF OpToRel
<1> HIDE DEF R
<1>3. PICK x \in T : \A y \in T : ~ (<<y, x>> \in R)
  BY <1>1, WFMin
<1>4. \A y \in T : ~(y < x)
  BY <1>2, <1>3, Zenon
<1> QED
  BY <1>4

(* Induction over a finite set, by a smallest counterexample. *)
Smallest(s, B) == s \in B /\ \A t \in B : t \subseteq s => t = s

LEMMA SmallestExists ==
    ASSUME NEW U, IsFiniteSet(U), NEW B, B \subseteq SUBSET U, B # {}
    PROVE  \E s : Smallest(s, B)
<1> DEFINE R == StrictSubsetOrdering(U)
<1>1. B \subseteq FiniteSubsetsOf(U)
  BY FS_FiniteSubsetsOfFinite
<1>2. IsWellFoundedOn(R, FiniteSubsetsOf(U))
  BY FS_StrictSubsetOrderingWellFounded
<1>3. \A s, t \in SUBSET U : t \subseteq s /\ t # s => <<t, s>> \in R
  BY DEF StrictSubsetOrdering
<1> HIDE DEF R
<1>4. PICK s \in B : \A t \in B : ~(<<t, s>> \in R)
  BY <1>1, <1>2, WFMin
<1> QED
  BY <1>3, <1>4 DEF Smallest

-----------------------------------------------------------------------------
(* Sums *)

Picked(s) == CHOOSE x \in s : TRUE

(* sum is the running sum of f over the subsets of U. *)
Sums(f, U, sum) ==
    sum = [s \in SUBSET U |-> IF s = {} THEN 0 ELSE f[Picked(s)] + sum[s \ {Picked(s)}]]

RunningSum(f) == CHOOSE sum : Sums(f, DOMAIN f, sum)

LEMMA PickedIn == \A s : s # {} => Picked(s) \in s
BY DEF Picked

LEMMA SumUnfolded == \A f : SumFunction(f) = RunningSum(f)[DOMAIN f]
BY DEF SumFunction, SumFunctionOnSet, FoldFunctionOnSet, MapThenFoldSet, RunningSum, Sums, Picked

(* The recursion has a solution: on the subsets of at most n elements, for
   every n. *)
LEMMA RunningSumExists ==
    ASSUME NEW U, IsFiniteSet(U), NEW f \in [U -> Nat]
    PROVE  \E sum \in [SUBSET U -> Nat] : Sums(f, U, sum)
<1> DEFINE Upto(n) == {s \in SUBSET U : Cardinality(s) <= n}
           Solved(n) == \E sum \in [Upto(n) -> Nat] :
               sum = [s \in Upto(n) |-> IF s = {} THEN 0 ELSE f[Picked(s)] + sum[s \ {Picked(s)}]]
           Unsolved == {n \in Nat : ~Solved(n)}
<1>1. \A s \in SUBSET U : IsFiniteSet(s) /\ Cardinality(s) \in Nat
  BY FS_Subset, FS_CardinalityType
<1>2. \A s \in SUBSET U : s # {} =>
         /\ Picked(s) \in U
         /\ s \ {Picked(s)} \in SUBSET U
         /\ Cardinality(s \ {Picked(s)}) = Cardinality(s) - 1
  BY <1>1, PickedIn, FS_RemoveElement
<1>3. \A s \in SUBSET U : Cardinality(s) = 0 <=> s = {}
  BY <1>1, FS_EmptySet
<1>4. Solved(0)
  <2> DEFINE sum == [s \in Upto(0) |-> 0]
  <2>1. sum \in [Upto(0) -> Nat]
    OBVIOUS
  <2>2. \A s \in Upto(0) : s = {}
    BY <1>1, <1>3
  <2>3. sum = [s \in Upto(0) |-> IF s = {} THEN 0 ELSE f[Picked(s)] + sum[s \ {Picked(s)}]]
    BY <2>2
  <2> QED
    BY <2>1, <2>3
<1>5. ASSUME NEW n \in Nat, Solved(n)
      PROVE  Solved(n + 1)
  <2>1. PICK old \in [Upto(n) -> Nat] :
           old = [s \in Upto(n) |-> IF s = {} THEN 0 ELSE f[Picked(s)] + old[s \ {Picked(s)}]]
    BY <1>5
  <2> DEFINE sum == [s \in Upto(n + 1) |-> IF s = {} THEN 0 ELSE f[Picked(s)] + old[s \ {Picked(s)}]]
  <2>2. \A s \in Upto(n + 1) : s # {} => Picked(s) \in U /\ s \ {Picked(s)} \in Upto(n)
    BY <1>1, <1>2
  <2>3. sum \in [Upto(n + 1) -> Nat]
    BY <2>2
  <2>4. \A s \in Upto(n) : s \in Upto(n + 1) /\ sum[s] = old[s]
    <3>1. Upto(n) \subseteq Upto(n + 1)
      BY <1>1
    <3> QED
      BY <3>1, <2>1
  <2>5. sum = [s \in Upto(n + 1) |-> IF s = {} THEN 0 ELSE f[Picked(s)] + sum[s \ {Picked(s)}]]
    <3> HIDE DEF Upto
    <3> QED
      BY <2>2, <2>4
  <2> HIDE DEF sum
  <2> QED
    BY <2>3, <2>5
<1>6. \A n \in Nat : Solved(n)
  <2> SUFFICES ASSUME Unsolved # {} PROVE FALSE
    OBVIOUS
  <2>1. PICK n \in Unsolved : \A m \in Unsolved : n <= m
    <3> HIDE DEF Solved
    <3>1. Unsolved \subseteq Nat
      OBVIOUS
    <3> HIDE DEF Unsolved
    <3> QED
      BY <3>1, LeastExists
  <2> HIDE DEF Solved
  <2>2. n # 0 /\ n \in Nat
    BY <1>4
  <2>3. n - 1 \in Nat /\ n - 1 \notin Unsolved
    BY <2>1, <2>2
  <2>4. Solved(n - 1) => Solved((n - 1) + 1)
    BY <1>5, <2>3
  <2> QED
    BY <2>2, <2>3, <2>4
<1>7. Cardinality(U) \in Nat /\ Upto(Cardinality(U)) = SUBSET U
  BY <1>1, FS_Subset, FS_CardinalityType
<1>8. Solved(Cardinality(U))
  BY <1>6, <1>7
<1> QED
  BY <1>7, <1>8 DEF Sums

(* The recursion has no other solution. *)
LEMMA RunningSumUnique ==
    ASSUME NEW U, IsFiniteSet(U), NEW f, NEW a, NEW b, Sums(f, U, a), Sums(f, U, b)
    PROVE  a = b
<1> DEFINE Differ == {s \in SUBSET U : a[s] # b[s]}
<1>1. SUFFICES ASSUME Differ # {} PROVE FALSE
  BY DEF Sums
<1>2. PICK s : Smallest(s, Differ)
  <2>1. Differ \subseteq SUBSET U
    OBVIOUS
  <2> QED
    BY <1>1, <2>1, SmallestExists, Zenon
<1>3. s \in Differ /\ \A t \in Differ : t \subseteq s => t = s
  BY <1>2 DEF Smallest
<1>4. s # {}
  BY <1>3 DEF Sums
<1>5. s \ {Picked(s)} \in SUBSET U /\ s \ {Picked(s)} \notin Differ
  BY <1>3, <1>4, PickedIn
<1> QED
  BY <1>3, <1>4, <1>5 DEF Sums

LEMMA RunningSumIs ==
    ASSUME NEW U, IsFiniteSet(U), NEW f \in [U -> Nat]
    PROVE  RunningSum(f) \in [SUBSET U -> Nat] /\ Sums(f, U, RunningSum(f))
<1>1. PICK sum \in [SUBSET U -> Nat] : Sums(f, U, sum)
  BY RunningSumExists
<1>2. Sums(f, U, RunningSum(f))
  BY <1>1 DEF RunningSum
<1>3. RunningSum(f) = sum
  BY <1>1, <1>2, RunningSumUnique
<1> QED
  BY <1>1, <1>3

(* Any element can be the first to be added. *)
Splits(sum, f, U) ==
    \A s \in SUBSET U : \A x \in s : sum[s] = f[x] + sum[s \ {x}]

LEMMA RunningSumSplits ==
    ASSUME NEW U, IsFiniteSet(U), NEW f \in [U -> Nat]
    PROVE  Splits(RunningSum(f), f, U)
<1> PICK sum : sum = RunningSum(f)
  OBVIOUS
<1> DEFINE Bad == {s \in SUBSET U : \E x \in s : sum[s] # f[x] + sum[s \ {x}]}
<1>1. /\ sum \in [SUBSET U -> Nat]
      /\ \A s \in SUBSET U : s # {} => sum[s] = f[Picked(s)] + sum[s \ {Picked(s)}]
  <2>1. sum \in [SUBSET U -> Nat] /\ Sums(f, U, sum)
    BY RunningSumIs
  <2> QED
    BY <2>1 DEF Sums
<1>2. SUFFICES ASSUME Bad # {} PROVE FALSE
  BY DEF Splits
<1>3. PICK s : Smallest(s, Bad)
  <2>1. Bad \subseteq SUBSET U
    OBVIOUS
  <2> QED
    BY <1>2, <2>1, SmallestExists, Zenon
<1>4. s \in Bad /\ \A t \in Bad : t \subseteq s => t = s
  BY <1>3 DEF Smallest
<1>5. PICK x \in s : sum[s] # f[x] + sum[s \ {x}]
  BY <1>4
<1> PICK c : c = Picked(s)
  OBVIOUS
<1> PICK both : both = s \ {c, x}
  OBVIOUS
<1>6. c \in s /\ c # x /\ sum[s] = f[c] + sum[s \ {c}]
  BY <1>1, <1>4, <1>5, PickedIn
<1>7. s \ {c} \notin Bad /\ s \ {x} \notin Bad
  BY <1>4, <1>6
<1>8. (s \ {c}) \ {x} = both /\ (s \ {x}) \ {c} = both /\ both \in SUBSET U
  BY <1>4
<1>9. sum[s \ {c}] = f[x] + sum[both] /\ sum[s \ {x}] = f[c] + sum[both]
  <2>1. s \ {c} \in SUBSET U /\ s \ {x} \in SUBSET U /\ x \in s \ {c} /\ c \in s \ {x}
    BY <1>4, <1>5, <1>6
  <2>2. /\ \A y \in s \ {c} : sum[s \ {c}] = f[y] + sum[(s \ {c}) \ {y}]
        /\ \A y \in s \ {x} : sum[s \ {x}] = f[y] + sum[(s \ {x}) \ {y}]
    BY <1>7, <2>1
  <2>3. /\ sum[s \ {c}] = f[x] + sum[(s \ {c}) \ {x}]
        /\ sum[s \ {x}] = f[c] + sum[(s \ {x}) \ {c}]
    BY <2>1, <2>2, Zenon
  <2> QED
    BY <1>8, <2>3
<1>10. f[c] \in Nat /\ f[x] \in Nat /\ sum[both] \in Nat
  BY <1>1, <1>4, <1>6, <1>8
<1> QED
  BY <1>5, <1>6, <1>9, <1>10

LEMMA SumIsNat ==
    ASSUME NEW U, IsFiniteSet(U), NEW f \in [U -> Nat]
    PROVE  SumFunction(f) \in Nat
<1>1. RunningSum(f) \in [SUBSET U -> Nat]
  BY RunningSumIs, Zenon
<1>2. SumFunction(f) = RunningSum(f)[U]
  BY SumUnfolded
<1> QED
  BY <1>1, <1>2

(* g lists the amounts of f in the order of p. *)
Rearranges(g, S, f, T, p) ==
    /\ IsFiniteSet(S) /\ IsFiniteSet(T) /\ p \in Bijection(S, T)
    /\ f \in [T -> Nat] /\ g \in [S -> Nat]
    /\ \A i \in S : g[i] = f[p[i]]

(* A sum does not depend on how its terms are arranged. *)
LEMMA SumRearranged ==
    ASSUME NEW S, NEW T, NEW f, NEW g, NEW p, Rearranges(g, S, f, T, p)
    PROVE  SumFunction(g) = SumFunction(f) /\ SumFunction(f) \in Nat
<1> USE DEF Rearranges
<1> DEFINE Onto(s) == {p[i] : i \in s}
<1> PICK a : a = RunningSum(g)
  OBVIOUS
<1> PICK b : b = RunningSum(f)
  OBVIOUS
<1> DEFINE Bad == {s \in SUBSET S : a[s] # b[Onto(s)]}
<1>1. /\ p \in [S -> T]
      /\ \A i, j \in S : p[i] = p[j] => i = j
      /\ \A t \in T : \E i \in S : p[i] = t
  BY DEF Bijection, Injection, Surjection, IsInjective
<1>2. f \in [T -> Nat] /\ g \in [S -> Nat] /\ IsFiniteSet(S) /\ IsFiniteSet(T)
  OBVIOUS
<1> HIDE DEF Rearranges
<1>3. a[{}] = 0 /\ b[{}] = 0
  <2>1. Sums(g, S, a) /\ Sums(f, T, b)
    BY <1>2, RunningSumIs
  <2> QED
    BY <2>1 DEF Sums
<1>4. Splits(a, g, S)
  BY <1>2, RunningSumSplits
<1>5. Splits(b, f, T)
  BY <1>2, RunningSumSplits
<1>6. Onto({}) = {} /\ Onto(S) = T
  BY <1>1
<1>7. \A s \in SUBSET S : \A x \in s :
         Onto(s) \in SUBSET T /\ p[x] \in Onto(s) /\ Onto(s \ {x}) = Onto(s) \ {p[x]}
  BY <1>1
<1>8. \A x \in S : g[x] = f[p[x]]
  BY DEF Rearranges
<1>9. SUFFICES ASSUME Bad # {} PROVE FALSE
  <2>1. S \notin Bad => SumFunction(g) = SumFunction(f)
    BY <1>2, <1>6, SumUnfolded
  <2>2. SumFunction(f) \in Nat
    BY <1>2, SumIsNat
  <2> QED
    BY <2>1, <2>2
<1> HIDE DEF Onto
<1>10. PICK s : Smallest(s, Bad)
  <2>1. Bad \subseteq SUBSET S
    OBVIOUS
  <2> QED
    BY <1>2, <1>9, <2>1, SmallestExists, Zenon
<1>11. s \in Bad /\ \A t \in Bad : t \subseteq s => t = s
  BY <1>10 DEF Smallest
<1>12. PICK x : x \in s
  BY <1>3, <1>6, <1>11
<1>13. s \in SUBSET S /\ x \in S /\ a[s] # b[Onto(s)]
  BY <1>11, <1>12
<1>14. s \ {x} \in SUBSET S /\ a[s \ {x}] = b[Onto(s \ {x})]
  BY <1>11, <1>12
<1>15. a[s] = g[x] + a[s \ {x}]
  BY <1>4, <1>12, <1>13, Zenon DEF Splits
<1>16. b[Onto(s)] = f[p[x]] + b[Onto(s) \ {p[x]}]
  <2>1. Onto(s) \in SUBSET T /\ p[x] \in Onto(s)
    BY <1>7, <1>12, <1>13, Zenon
  <2> QED
    BY <1>5, <2>1, Zenon DEF Splits
<1>17. Onto(s \ {x}) = Onto(s) \ {p[x]}
  BY <1>7, <1>12, <1>13, Zenon
<1> QED
  BY <1>8, <1>13, <1>14, <1>15, <1>16, <1>17

-----------------------------------------------------------------------------
(* Sorting *)

Sorts(p, r, n) ==
    /\ p \in Bijection(1 .. n, 1 .. n)
    /\ \A i, j \in 1 .. n : i < j => r[p[i]] >= r[p[j]]

Sortable(n) == \A r \in [1 .. n -> Nat] : \E p : Sorts(p, r, n)

LEMMA SortableNext ==
    ASSUME NEW n \in Nat, Sortable(n)
    PROVE  Sortable(n + 1)
<1> SUFFICES ASSUME NEW r \in [1 .. n + 1 -> Nat]
             PROVE  \E p : Sorts(p, r, n + 1)
  BY DEF Sortable
<1>1. PICK last \in 1 .. n + 1 : \A i \in 1 .. n + 1 : r[last] <= r[i]
  <2> DEFINE values == {r[i] : i \in 1 .. n + 1}
  <2>1. values \subseteq Nat /\ values # {}
    <3>1. 1 \in 1 .. n + 1
      OBVIOUS
    <3> QED
      BY <3>1
  <2>2. PICK v \in values : \A w \in values : v <= w
    <3> HIDE DEF values
    <3> QED
      BY <2>1, LeastExists
  <2> QED
    BY <2>2
<1> DEFINE swap == [i \in 1 .. n + 1 |-> IF i = last THEN n + 1 ELSE IF i = n + 1 THEN last ELSE i]
           rest == [i \in 1 .. n |-> r[swap[i]]]
<1>2. /\ swap \in [1 .. n + 1 -> 1 .. n + 1]
      /\ swap[n + 1] = last
      /\ \A i \in 1 .. n + 1 : swap[swap[i]] = i
  OBVIOUS
<1>3. /\ rest \in [1 .. n -> Nat]
      /\ \A i \in 1 .. n : rest[i] = r[swap[i]]
  BY <1>2
<1> HIDE DEF swap, rest
<1>4. PICK q : Sorts(q, rest, n)
  BY <1>3 DEF Sortable
<1>5. /\ q \in [1 .. n -> 1 .. n]
      /\ \A i, j \in 1 .. n : q[i] = q[j] => i = j
      /\ \A t \in 1 .. n : \E i \in 1 .. n : q[i] = t
      /\ \A i, j \in 1 .. n : i < j => rest[q[i]] >= rest[q[j]]
  BY <1>4 DEF Sorts, Bijection, Injection, Surjection, IsInjective
<1>6. /\ n + 1 \in 1 .. n + 1
      /\ \A i \in 1 .. n : i \in 1 .. n + 1 /\ i # n + 1 /\ i <= n
      /\ \A i \in 1 .. n + 1 : i = n + 1 \/ i \in 1 .. n
  OBVIOUS
<1> DEFINE whole == [i \in 1 .. n + 1 |-> IF i = n + 1 THEN n + 1 ELSE q[i]]
<1>7. /\ whole[n + 1] = n + 1
      /\ \A i \in 1 .. n : whole[i] = q[i]
      /\ DOMAIN whole = 1 .. n + 1
      /\ whole = [i \in 1 .. n + 1 |-> whole[i]]
  BY <1>6
<1> HIDE DEF whole
<1>8. \A i \in 1 .. n + 1 : whole[i] \in 1 .. n + 1 /\ (whole[i] = n + 1 => i = n + 1)
  BY <1>5, <1>6, <1>7
<1>9. ASSUME NEW i \in 1 .. n + 1, NEW j \in 1 .. n + 1, whole[i] = whole[j]
      PROVE  i = j
  <2>1. CASE i = n + 1
    BY <1>7, <1>8, <1>9, <2>1
  <2>2. CASE j = n + 1
    BY <1>7, <1>8, <1>9, <2>2
  <2>3. CASE i \in 1 .. n /\ j \in 1 .. n
    BY <1>5, <1>7, <1>9, <2>3
  <2> QED
    BY <1>6, <2>1, <2>2, <2>3
<1>10. ASSUME NEW t \in 1 .. n + 1
       PROVE  \E i \in 1 .. n + 1 : whole[i] = t
  <2>1. CASE t = n + 1
    BY <1>6, <1>7, <2>1
  <2>2. CASE t \in 1 .. n
    BY <1>5, <1>6, <1>7, <2>2
  <2> QED
    BY <1>6, <2>1, <2>2
<1> DEFINE p == [i \in 1 .. n + 1 |-> swap[whole[i]]]
<1>11. /\ p \in [1 .. n + 1 -> 1 .. n + 1]
       /\ \A i \in 1 .. n + 1 : p[i] = swap[whole[i]] /\ p[i] \in 1 .. n + 1
  <2>1. \A i \in 1 .. n + 1 : swap[whole[i]] \in 1 .. n + 1
    BY <1>2, <1>8
  <2> QED
    BY <2>1
<1> HIDE DEF p
<1>12. p \in Bijection(1 .. n + 1, 1 .. n + 1)
  <2>1. ASSUME NEW i \in 1 .. n + 1, NEW j \in 1 .. n + 1, p[i] = p[j]
        PROVE  i = j
    <3>1. swap[swap[whole[i]]] = swap[swap[whole[j]]]
      BY <1>11, <2>1
    <3>2. whole[i] = whole[j]
      BY <1>2, <1>8, <3>1
    <3> QED
      BY <1>9, <3>2
  <2>2. ASSUME NEW t \in 1 .. n + 1
        PROVE  \E i \in 1 .. n + 1 : p[i] = t
    <3>1. swap[t] \in 1 .. n + 1
      BY <1>2
    <3>2. PICK i \in 1 .. n + 1 : whole[i] = swap[t]
      BY <1>10, <3>1
    <3> QED
      BY <1>2, <1>11, <3>2
  <2> QED
    BY <1>11, <2>1, <2>2 DEF Bijection, Injection, Surjection, IsInjective
<1>13. ASSUME NEW i \in 1 .. n + 1, NEW j \in 1 .. n + 1, i < j
       PROVE  r[p[i]] >= r[p[j]]
  <2>1. i \in 1 .. n
    BY <1>13
  <2>2. r[p[i]] = rest[q[i]]
    <3>1. q[i] \in 1 .. n /\ p[i] = swap[q[i]]
      BY <1>5, <1>7, <1>11, <2>1
    <3> QED
      BY <1>3, <3>1
  <2>3. CASE j = n + 1
    <3>1. p[j] = last
      BY <1>2, <1>7, <1>11, <2>3
    <3>2. p[i] \in 1 .. n + 1
      BY <1>11
    <3> QED
      BY <1>1, <3>1, <3>2
  <2>4. CASE j \in 1 .. n
    <3>1. q[j] \in 1 .. n /\ p[j] = swap[q[j]]
      BY <1>5, <1>7, <1>11, <2>4
    <3>2. r[p[j]] = rest[q[j]]
      BY <1>3, <3>1
    <3> QED
      BY <1>5, <1>13, <2>1, <2>2, <2>4, <3>2
  <2> QED
    BY <1>6, <2>3, <2>4
<1> QED
  BY <1>12, <1>13 DEF Sorts

(* Every finite sequence of numbers can be put in descending order. *)
LEMMA SortExists == \A n \in Nat : Sortable(n)
<1> DEFINE Unsortable == {n \in Nat : ~Sortable(n)}
<1>1. Sortable(0)
  <2> SUFFICES ASSUME NEW r \in [1 .. 0 -> Nat]
               PROVE  \E p : Sorts(p, r, 0)
    BY DEF Sortable
  <2> DEFINE p == [i \in 1 .. 0 |-> i]
  <2>1. Sorts(p, r, 0)
    BY DEF Sorts, Bijection, Injection, Surjection, IsInjective
  <2> QED
    BY <2>1, Zenon
<1>2. SUFFICES ASSUME Unsortable # {} PROVE FALSE
  OBVIOUS
<1>3. PICK n \in Unsortable : \A m \in Unsortable : n <= m
  <2>1. Unsortable \subseteq Nat
    OBVIOUS
  <2> HIDE DEF Unsortable
  <2> QED
    BY <1>2, <2>1, LeastExists
<1>4. n \in Nat /\ n # 0
  BY <1>1
<1>5. n - 1 \in Nat /\ n - 1 \notin Unsortable
  BY <1>3, <1>4
<1>6. Sortable(n - 1) => Sortable((n - 1) + 1)
  BY <1>5, SortableNext
<1> QED
  BY <1>4, <1>5, <1>6

-----------------------------------------------------------------------------
(* Sums that wrap *)

LEMMA ModShift ==
    ASSUME NEW m \in Nat \ {0}, NEW q \in Int, NEW r \in 0 .. m - 1
    PROVE  ((m * q) + r) % m = r
OBVIOUS

LEMMA ModIs ==
    ASSUME NEW m \in Nat \ {0}, NEW a \in Nat
    PROVE  /\ a % m \in 0 .. m - 1
           /\ a < m => a % m = a
           /\ \E q \in Int : a = (m * q) + (a % m)
<1>1. a % m \in 0 .. m - 1
  OBVIOUS
<1>2. a = (m * (a \div m)) + (a % m) /\ a \div m \in Int
  OBVIOUS
<1>3. a < m => a % m = a
  OBVIOUS
<1> QED
  BY <1>1, <1>2, <1>3

LEMMA ChangeOfModulus ==
    ASSUME NEW m \in Nat \ {0}, NEW a \in Nat, NEW b \in Nat, b % m <= a % m
    PROVE  /\ a % m = (b + ((a % m) - (b % m))) % m
           /\ a < m /\ b < m => a = b + ((a % m) - (b % m))
<1>1. PICK q \in Int : b = (m * q) + (b % m)
  BY ModIs
<1>2. a % m \in 0 .. m - 1 /\ b % m \in 0 .. m - 1
  BY ModIs
<1>3. m * q \in Int
  BY <1>1
<1>4. b + ((a % m) - (b % m)) = (m * q) + (a % m)
  <2> PICK x, y, z : x = a % m /\ y = b % m /\ z = m * q
    OBVIOUS
  <2>1. b = z + y /\ x \in Int /\ y \in Int /\ z \in Int
    BY <1>1, <1>2, <1>3
  <2>2. b + (x - y) = z + x
    BY <2>1
  <2> QED
    BY <2>2
<1>5. a % m = (b + ((a % m) - (b % m))) % m
  BY <1>1, <1>2, <1>4, ModShift
<1>6. a < m /\ b < m => a % m = a /\ b % m = b
  BY ModIs
<1> QED
  BY <1>5, <1>6

-----------------------------------------------------------------------------
(* Addresses and shared secrets *)

LEMMA SpendNames ==
    \A a, b, i, j : SpendPublic(a, i) = SpendPublic(b, j) => a = b /\ i = j
<1> SUFFICES ASSUME NEW a, NEW b, NEW i, NEW j, SpendPublic(a, i) = SpendPublic(b, j)
             PROVE  a = b /\ i = j
  OBVIOUS
<1>1. SpendSecret(a, i) = SpendSecret(b, j)
  BY DEF SpendPublic, Mul, BasePoint
<1>2. /\ \A x, y : <<"spend", x>> = <<"spend", y>> => x = y
      /\ \A x, y, u, v : <<"spend", x, u>> = <<"spend", y, v>> => x = y /\ u = v
      /\ \A x, y, u : <<"spend", x>> # <<"spend", y, u>>
  OBVIOUS
<1> QED
  BY <1>1, <1>2 DEF SpendSecret

LEMMA StrayIsNoSpend == \A a, i : SpendPublic(a, i) # Stray
<1> SUFFICES ASSUME NEW a, NEW i PROVE SpendPublic(a, i) # Stray
  OBVIOUS
<1>1. SpendSecret(a, i) # <<"stray">>
  BY DEF SpendSecret
<1> QED
  BY <1>1 DEF SpendPublic, Mul, BasePoint, Stray

LEMMA AddressNames ==
    \A d, e : /\ SameAddress(d, e) <=> d.owner = e.owner /\ d.index = e.index
              /\ Spend(d) = Spend(e) <=> SameAddress(d, e)
              /\ Address(d) = Address(e) <=> SameAddress(d, e)
BY SpendNames DEF SameAddress, Spend, View, Address

(* What does not tell a destination from its address. *)
LEMMA AddressKeeps ==
    \A d : /\ Spend(Address(d)) = Spend(d)
           /\ View(Address(d)) = View(d)
           /\ OnCurve(Address(d)) <=> OnCurve(d)
           /\ Address(d).owner = d.owner /\ Address(d).index = d.index
BY DEF Spend, View, OnCurve, Address

(* The receiver's derivation is the sender's, with a key r*G for a primary
   address and r*D for a subaddress. *)
LEMMA StandardShared ==
    ASSUME NEW d, NEW secret, d.index = Primary
    PROVE  Derivation(ViewSecret(d.owner), StandardKey(secret)) = Derivation(secret, View(d))
BY DEF Derivation, StandardKey, View, AddressView, ViewKey, Mul, BasePoint

LEMMA SubaddressShared ==
    ASSUME NEW d, NEW secret, d.index # Primary
    PROVE  Derivation(ViewSecret(d.owner), SubaddressKey(secret, Spend(d)))
             = Derivation(secret, View(d))
BY DEF Derivation, SubaddressKey, View, AddressView, Spend, Mul

(* The secrets drawn for a transaction, and the one its derivations hold. *)
Drawn(secret) == secret[1] \in {"tx", "additional"}

DrawnOnlyFor(n, point) ==
    /\ \E secret \in point : Drawn(secret) /\ secret[2] = n
    /\ \A secret \in point : Drawn(secret) => secret[2] = n

NoneDrawn(point) == \A secret \in point : ~Drawn(secret)

LEMMA SecretsDrawn ==
    \A n, q, a, i : /\ Drawn(TxSecret(n)) /\ TxSecret(n)[2] = n
                    /\ Drawn(AdditionalSecret(n, q)) /\ AdditionalSecret(n, q)[2] = n
                    /\ ~Drawn(ViewSecret(a))
                    /\ ~Drawn(SpendSecret(a, i))
BY DEF Drawn, TxSecret, AdditionalSecret, ViewSecret, SpendSecret

LEMMA AddressNotDrawn ==
    \A d : NoneDrawn(Spend(d)) /\ NoneDrawn(View(d)) /\ NoneDrawn(BasePoint)
<1> SUFFICES ASSUME NEW d PROVE NoneDrawn(Spend(d)) /\ NoneDrawn(View(d)) /\ NoneDrawn(BasePoint)
  OBVIOUS
<1>1. ~Drawn(ViewSecret(d.owner)) /\ ~Drawn(SpendSecret(d.owner, d.index))
  BY SecretsDrawn
<1> QED
  BY <1>1 DEF NoneDrawn, Spend, View, AddressView, SpendPublic, ViewKey, Mul, BasePoint

LEMMA MulDrawn ==
    /\ \A n, secret, point :
          Drawn(secret) /\ secret[2] = n /\ NoneDrawn(point) => DrawnOnlyFor(n, Mul(secret, point))
    /\ \A n, secret, point :
          ~Drawn(secret) /\ DrawnOnlyFor(n, point) => DrawnOnlyFor(n, Mul(secret, point))
BY DEF DrawnOnlyFor, NoneDrawn, Mul

-----------------------------------------------------------------------------
(* What a run has made so far *)

TheTxKey ==
    IF OneSubaddress
    THEN SubaddressKey(TxSecret(Number), Spend(dests[CHOOSE s \in Subaddresses : TRUE]))
    ELSE StandardKey(TxSecret(Number))

TheNonce ==
    IF Tx.nonce = "short" THEN Encrypted("payment id")
    ELSE IF Tx.nonce = "long" THEN "long"
    ELSE IF Len(dests) <= 2 /\ HasReader THEN Encrypted("zero")
    ELSE None

Shuffled ==
    \E p \in Bijection(DOMAIN Tx.dests, DOMAIN Tx.dests) :
        dests = [i \in DOMAIN Tx.dests |-> Tx.dests[p[i]]]

(* The sealed record *)
Sealed ==
    [inputs |-> ins, outputs |-> outputs, txKey |-> txKey,
     additional |-> AdditionalKeys, nonce |-> nonce,
     fee |-> Total(Tx.sources) - Total(dests)]

TypeInv ==
    /\ pc \in {"open", "inputs", "shuffle", "keys", "extra", "outputs", "seal", "done"}
    /\ set \in Sets
    /\ IsSeq(signed) /\ Len(signed) <= Len(set.txes)
    /\ outcome \in {"pending", "signed", "refused"}
    /\ outcome = "pending" <=> pc # "done"

WorkInv ==
    /\ (pc \notin {"open", "done"} \/ outcome = "signed") => Readable
    /\ pc \in {"shuffle", "keys", "extra", "outputs", "seal"} =>
          HasTx /\ Acceptable /\ ins = SortedInputs(Tx.sources)
    /\ pc \in {"keys", "extra", "outputs", "seal"} => Shuffled
    /\ pc \in {"extra", "outputs", "seal"} => ~KeysError /\ txKey = TheTxKey
    /\ pc \in {"outputs", "seal"} => ~NonceError /\ nonce = TheNonce
    /\ pc = "seal" =>
          /\ \A d \in Range(dests) : OnCurve(d)
          /\ outputs = [i \in DOMAIN dests |-> Output(i)]
          /\ ChangeImages \subseteq images

-----------------------------------------------------------------------------
(* The shape of what is worked on *)

LEMMA SeqShape ==
    ASSUME NEW s, IsSeq(s)
    PROVE  /\ Len(s) \in Nat /\ DOMAIN s = 1 .. Len(s)
           /\ \A i \in 1 .. Len(s) : s[i] \in Range(s)
           /\ \A x \in Range(s) : \E i \in 1 .. Len(s) : s[i] = x
           /\ IsFiniteSet(DOMAIN s)
<1>1. Len(s) \in Nat /\ DOMAIN s = 1 .. Len(s)
  BY LenProperties DEF IsSeq
<1>2. IsFiniteSet(1 .. Len(s))
  BY <1>1, FS_Interval
<1> QED
  BY <1>1, <1>2 DEF Range

LEMMA ListShape ==
    ASSUME NEW n \in Nat, NEW s, s = [i \in 1 .. n |-> s[i]]
    PROVE  IsSeq(s) /\ Len(s) = n /\ DOMAIN s = 1 .. n
<1>1. s \in [1 .. n -> Range(s)]
  BY DEF Range
<1>2. s \in Seq(Range(s))
  BY <1>1, SeqDef
<1>3. DOMAIN s = 1 .. Len(s) /\ DOMAIN s = 1 .. n /\ Len(s) \in Nat
  BY <1>2, LenProperties
<1> QED
  BY <1>2, <1>3 DEF IsSeq

LEMMA SignedShape ==
    ASSUME TypeInv
    PROVE  /\ Len(signed) \in Nat /\ Number \in Nat /\ DOMAIN signed = 1 .. Len(signed)
           /\ set \in Sets /\ IsSeq(set.txes) /\ IsSeq(set.transfers)
           /\ \A n \in DOMAIN signed : n \in DOMAIN set.txes
<1>1. IsSeq(set.txes) /\ IsSeq(set.transfers) /\ set \in Sets
  BY SetAssumption DEF TypeInv
<1>2. Len(signed) \in Nat /\ DOMAIN signed = 1 .. Len(signed) /\ Len(signed) <= Len(set.txes)
  BY SeqShape DEF TypeInv
<1>3. DOMAIN set.txes = 1 .. Len(set.txes) /\ Len(set.txes) \in Nat
  BY <1>1, SeqShape
<1> QED
  BY <1>1, <1>2, <1>3 DEF Number

LEMMA RequestShape ==
    ASSUME NEW s \in Sets, NEW n \in DOMAIN s.txes
    PROVE  /\ s.txes[n] \in Range(s.txes)
           /\ IsSeq(s.txes[n].sources) /\ IsSeq(s.txes[n].dests)
           /\ \A source \in Range(s.txes[n].sources) : IsSource(source)
           /\ \A d \in Range(s.txes[n].dests) : IsDestination(d)
BY SetAssumption DEF Range

LEMMA TxShape ==
    ASSUME TypeInv, HasTx
    PROVE  /\ Number \in DOMAIN set.txes
           /\ Tx \in Range(set.txes)
           /\ IsSeq(Tx.sources) /\ IsSeq(Tx.dests)
           /\ \A source \in Range(Tx.sources) : IsSource(source)
           /\ \A d \in Range(Tx.dests) : IsDestination(d)
<1>1. Number \in DOMAIN set.txes
  <2>1. DOMAIN set.txes = 1 .. Len(set.txes) /\ Len(set.txes) \in Nat
    BY SignedShape, SeqShape
  <2> QED
    BY <2>1, SignedShape DEF HasTx, Number
<1> QED
  BY <1>1, SignedShape, RequestShape DEF Tx

(* The shuffle is a permutation. *)
LEMMA ShuffleShape ==
    ASSUME TypeInv, HasTx, Shuffled
    PROVE  /\ IsSeq(dests)
           /\ Len(dests) = Len(Tx.dests)
           /\ Range(dests) = Range(Tx.dests)
           /\ \A d \in Range(dests) : IsDestination(d)
           /\ IsFiniteSet(Range(dests))
<1>1. /\ IsSeq(Tx.dests)
      /\ \A d \in Range(Tx.dests) : IsDestination(d)
      /\ DOMAIN Tx.dests = 1 .. Len(Tx.dests) /\ Len(Tx.dests) \in Nat
      /\ IsFiniteSet(DOMAIN Tx.dests)
  BY TxShape, SeqShape
<1> PICK asked : asked = Tx.dests
  OBVIOUS
<1> PICK n \in Nat : n = Len(Tx.dests)
  BY <1>1
<1>2. PICK p \in Bijection(1 .. n, 1 .. n) : dests = [i \in 1 .. n |-> asked[p[i]]]
  BY <1>1 DEF Shuffled
<1>3. /\ p \in [1 .. n -> 1 .. n]
      /\ \A t \in 1 .. n : \E i \in 1 .. n : p[i] = t
  BY DEF Bijection, Injection, Surjection
<1>4. IsSeq(dests) /\ Len(dests) = n /\ DOMAIN dests = 1 .. n
  BY <1>2, ListShape
<1>5. Range(dests) = Range(asked)
  <2>1. DOMAIN asked = 1 .. n /\ DOMAIN dests = 1 .. n /\ \A i \in 1 .. n : dests[i] = asked[p[i]]
    BY <1>1, <1>2
  <2>2. Range(dests) \subseteq Range(asked)
    <3>1. \A i \in 1 .. n : asked[p[i]] \in Range(asked)
      BY <2>1, <1>3 DEF Range
    <3> QED
      BY <2>1, <3>1 DEF Range
  <2>3. ASSUME NEW i \in 1 .. n PROVE asked[i] \in Range(dests)
    <3>1. PICK j \in 1 .. n : p[j] = i
      BY <1>3
    <3> QED
      BY <2>1, <3>1 DEF Range
  <2>4. Range(asked) \subseteq Range(dests)
    BY <2>1, <2>3 DEF Range
  <2> QED
    BY <2>2, <2>4
<1>6. IsFiniteSet(Range(dests))
  <2>1. dests \in Surjection(1 .. n, Range(dests))
    BY <1>2, <1>4 DEF Surjection, Range
  <2> QED
    BY <1>1, <2>1, FS_Surjection
<1> QED
  BY <1>1, <1>4, <1>5, <1>6

LEMMA PayeesFinite ==
    ASSUME TypeInv, HasTx, Shuffled
    PROVE  IsFiniteSet(Payees) /\ IsFiniteSet(Standard) /\ IsFiniteSet(Subaddresses)
<1>1. IsFiniteSet(DOMAIN dests)
  BY ShuffleShape, SeqShape
<1>2. Payees \subseteq DOMAIN dests
  BY DEF Payees
<1>3. Standard \subseteq Payees /\ Subaddresses \subseteq Payees
  BY DEF Standard, Subaddresses
<1> QED
  BY <1>1, <1>2, <1>3, FS_Subset

(* Every address paid is counted, at the first destination that has it. *)
LEMMA CountedOnce ==
    ASSUME TypeInv, HasTx, Shuffled, NEW p \in DOMAIN dests, ~IsChange(dests[p])
    PROVE  \E i \in Payees : i \in DOMAIN dests /\ SameAddress(dests[i], dests[p])
<1>1. DOMAIN dests = 1 .. Len(dests) /\ Len(dests) \in Nat
  BY ShuffleShape, SeqShape
<1> DEFINE alike == {i \in DOMAIN dests : SameAddress(dests[i], dests[p])}
<1>2. alike \subseteq Nat /\ p \in alike
  BY <1>1 DEF SameAddress
<1>3. PICK i \in alike : \A j \in alike : i <= j
  <2> HIDE DEF alike
  <2> QED
    BY <1>2, LeastExists
<1>4. i \in DOMAIN dests /\ SameAddress(dests[i], dests[p])
  BY <1>3
<1>5. ~IsChange(dests[i])
  BY <1>4 DEF IsChange, SameAddress
<1>6. ASSUME NEW j \in 1 .. i - 1
      PROVE  ~SameAddress(dests[j], dests[i])
  <2>1. j \in DOMAIN dests /\ ~(i <= j)
    BY <1>1, <1>4
  <2>2. ~SameAddress(dests[j], dests[p])
    BY <1>3, <2>1
  <2> QED
    BY <1>4, <2>2 DEF SameAddress
<1>7. i \in Payees
  BY <1>4, <1>5, <1>6 DEF Payees
<1> QED
  BY <1>4, <1>7

(* No address is counted twice. *)
LEMMA PayeesApart ==
    ASSUME TypeInv, HasTx, Shuffled, NEW i \in Payees, NEW j \in Payees, NEW d,
           SameAddress(dests[i], d), SameAddress(dests[j], d)
    PROVE  i = j
<1>1. DOMAIN dests = 1 .. Len(dests) /\ Len(dests) \in Nat
  BY ShuffleShape, SeqShape
<1>2. i \in 1 .. Len(dests) /\ j \in 1 .. Len(dests)
  BY <1>1 DEF Payees
<1>3. SameAddress(dests[j], dests[i]) /\ SameAddress(dests[i], dests[j])
  BY DEF SameAddress
<1>4. ~(j \in 1 .. i - 1) /\ ~(i \in 1 .. j - 1)
  BY <1>3 DEF Payees
<1> QED
  BY <1>2, <1>4

LEMMA AppendShape ==
    ASSUME NEW s, NEW x, IsSeq(s)
    PROVE  /\ IsSeq(Append(s, x)) /\ Len(Append(s, x)) = Len(s) + 1
           /\ DOMAIN Append(s, x) = 1 .. Len(s) + 1
           /\ \A i \in 1 .. Len(s) : Append(s, x)[i] = s[i]
           /\ Append(s, x)[Len(s) + 1] = x
<1> DEFINE S == Range(s) \cup {x}
<1>1. s \in Seq(Range(s)) /\ Len(s) \in Nat
  BY SeqShape DEF IsSeq
<1>2. s \in Seq(S)
  BY <1>1, SeqMonotonic
<1> PICK a : a = Append(s, x)
  OBVIOUS
<1>3. /\ a \in Seq(S) /\ Len(a) = Len(s) + 1
      /\ \A i \in 1 .. Len(s) : a[i] = s[i]
      /\ a[Len(s) + 1] = x
  <2> HIDE DEF S
  <2>1. x \in S
    BY DEF S
  <2> QED
    BY <1>2, <2>1, AppendProperties
<1>4. DOMAIN a = 1 .. Len(s) + 1
  BY <1>3, LenProperties
<1>5. a = [i \in 1 .. Len(s) + 1 |-> a[i]]
  <2> HIDE DEF S
  <2>1. a \in [1 .. Len(a) -> S]
    BY <1>3, LenProperties
  <2> QED
    BY <2>1, <1>3
<1>6. IsSeq(a)
  BY <1>1, <1>5, ListShape
<1> QED
  BY <1>3, <1>4, <1>6

-----------------------------------------------------------------------------
(* What each section leaves behind *)

LEMMA Frozen ==
    ASSUME set' = set, signed' = signed
    PROVE  /\ Number' = Number /\ Tx' = Tx /\ HasTx' = HasTx /\ Readable' = Readable
           /\ Acceptable' = Acceptable
           /\ SortedInputs(Tx.sources)' = SortedInputs(Tx.sources)
           /\ dests' = dests => /\ Shuffled' = Shuffled
                                /\ OneSubaddress' = OneSubaddress
                                /\ KeysError' = KeysError
                                /\ TheTxKey' = TheTxKey
                                /\ NonceError' = NonceError
                                /\ TheNonce' = TheNonce
                                /\ txKey' = txKey =>
                                      /\ [i \in DOMAIN dests |-> Output(i)]'
                                           = [i \in DOMAIN dests |-> Output(i)]
                                      /\ ChangeImages' = ChangeImages
<1>1. Number' = Number /\ Tx' = Tx /\ HasTx' = HasTx
  BY DEF Number, Tx, HasTx
<1>2. Readable' = Readable
  BY DEF Readable, Decrypt
<1>3. \A spend : Lookup(spend)' = Lookup(spend)
  BY DEF Lookup, Reachable, Listed
<1>4. \A source : /\ SpentMatches(source)' = SpentMatches(source)
                  /\ SpentSecret(source)' = SpentSecret(source)
  BY <1>3 DEF SpentMatches, SpentSecret, Real
<1>5. \A source : /\ Recoverable(source)' = Recoverable(source)
                  /\ RingUsable(source)' = RingUsable(source)
                  /\ Input(source)' = Input(source)
  BY <1>4 DEF Recoverable, RingUsable, Input, Real, Signer
<1>6. Acceptable' = Acceptable
  BY <1>1, <1>5 DEF Acceptable
<1>7. SortedInputs(Tx.sources)' = SortedInputs(Tx.sources)
  <2>1. \A sources : Arrangements(sources)' = Arrangements(sources)
    BY <1>5 DEF Arrangements
  <2>2. Arrangements(Tx.sources)' = Arrangements(Tx.sources)
    BY <1>1, <2>1
  <2> QED
    BY <2>2 DEF SortedInputs, Descending
<1>8. ASSUME dests' = dests
      PROVE  /\ Shuffled' = Shuffled
             /\ OneSubaddress' = OneSubaddress
             /\ KeysError' = KeysError
             /\ TheTxKey' = TheTxKey
             /\ NonceError' = NonceError
             /\ TheNonce' = TheNonce
             /\ NeedAdditional' = NeedAdditional
             /\ \A d : IsChange(d)' = IsChange(d)
  <2>1. \A d : IsChange(d)' = IsChange(d)
    BY <1>1 DEF IsChange
  <2>2. Shuffled' = Shuffled
    BY <1>1, <1>8 DEF Shuffled
  <2>3. Payees' = Payees
    BY <1>8, <2>1 DEF Payees
  <2>4. Standard' = Standard /\ Subaddresses' = Subaddresses
    BY <1>8, <2>3 DEF Standard, Subaddresses
  <2>5. OneSubaddress' = OneSubaddress /\ KeysError' = KeysError /\ NeedAdditional' = NeedAdditional
    BY <1>8, <2>4 DEF OneSubaddress, KeysError, NeedAdditional
  <2>6. TheTxKey' = TheTxKey
    BY <1>1, <1>8, <2>4, <2>5 DEF TheTxKey
  <2>7. NoncePayee' = NoncePayee
    BY <1>1, <1>8, <2>1 DEF NoncePayee
  <2>8. HasReader' = HasReader /\ \A id : Encrypted(id)' = Encrypted(id)
    BY <1>1, <2>7 DEF HasReader, Encrypted
  <2>9. NonceError' = NonceError /\ TheNonce' = TheNonce
    BY <1>1, <1>8, <2>8 DEF NonceError, TheNonce
  <2> QED
    BY <2>1, <2>2, <2>5, <2>6, <2>9
<1>9. ASSUME dests' = dests, txKey' = txKey
      PROVE  /\ [i \in DOMAIN dests |-> Output(i)]' = [i \in DOMAIN dests |-> Output(i)]
             /\ ChangeImages' = ChangeImages
  <2>1. \A i : OutputDerivation(i)' = OutputDerivation(i)
    BY <1>1, <1>8, <1>9 DEF OutputDerivation
  <2>2. \A i : Output(i)' = Output(i)
    BY <1>9, <2>1 DEF Output
  <2>3. ChangeImages' = ChangeImages
    BY <1>1, <1>3, <1>8, <1>9, <2>1 DEF ChangeImages
  <2> QED
    BY <1>9, <2>2, <2>3
<1> QED
  BY <1>1, <1>2, <1>6, <1>7, <1>8, <1>9

Refuses ==
    \/ RefuseSet \/ RefuseInputs \/ RefuseKeys \/ RefuseExtra
    \/ RefuseOutputs \/ RefuseSeal \/ RefuseTransfer

LEMMA Refusing == Refuses => Refuse /\ pc # "done"
BY DEF Refuses, RefuseSet, RefuseInputs, RefuseKeys, RefuseExtra, RefuseOutputs, RefuseSeal,
       RefuseTransfer

(* Everything but Seal leaves the signed transactions alone, and no key
   image is taken back. *)
LEMMA Steps ==
    ASSUME [Next]_vars
    PROVE  /\ set' = set /\ images \subseteq images'
           /\ Seal \/ signed' = signed
BY DEF Next, vars, work, Open, RecoverInputs, Shuffle, DrawKeys, BuildExtra, MakeOutputs, Seal, Reply,
       RefuseSet, RefuseInputs, RefuseKeys, RefuseExtra, RefuseOutputs, RefuseSeal, RefuseTransfer,
       Refuse

LEMMA TypeStep ==
    ASSUME TypeInv, WorkInv, [Next]_vars
    PROVE  TypeInv'
<1>1. CASE Open \/ RecoverInputs \/ Shuffle \/ DrawKeys \/ BuildExtra \/ MakeOutputs
  BY <1>1 DEF Open, RecoverInputs, Shuffle, DrawKeys, BuildExtra, MakeOutputs, TypeInv
<1>2. CASE Refuses
  BY <1>2, Refusing DEF Refuse, TypeInv
<1>3. CASE Seal
  <2>1. PICK record : signed' = Append(signed, record)
    BY <1>3 DEF Seal
  <2>2. IsSeq(signed') /\ Len(signed') = Number
    BY <2>1, AppendShape DEF TypeInv, Number
  <2>3. pc' = "inputs" /\ outcome' = outcome /\ set' = set /\ pc = "seal"
    BY <1>3 DEF Seal
  <2> QED
    BY <2>2, <2>3 DEF TypeInv, WorkInv, HasTx
<1>4. CASE Reply
  BY <1>4 DEF Reply, TypeInv
<1>5. CASE UNCHANGED vars
  BY <1>5 DEF vars, TypeInv
<1> QED
  BY <1>1, <1>2, <1>3, <1>4, <1>5 DEF Next, Refuses

LEMMA WorkStep ==
    ASSUME TypeInv, WorkInv, [Next]_vars
    PROVE  WorkInv'
<1>1. CASE Open
  BY <1>1, Frozen DEF Open, WorkInv, TypeInv
<1>2. CASE RecoverInputs
  BY <1>2, Frozen DEF RecoverInputs, WorkInv, TypeInv
<1>3. CASE Shuffle
  <2>1. Shuffled'
    BY <1>3 DEF Shuffle, Shuffled, Tx, Number
  <2> QED
    BY <1>3, <2>1, Frozen DEF Shuffle, WorkInv, TypeInv
<1>4. CASE DrawKeys
  <2>1. txKey' = TheTxKey
    BY <1>4 DEF DrawKeys, TheTxKey
  <2> QED
    BY <1>4, <2>1, Frozen DEF DrawKeys, WorkInv, TypeInv
<1>5. CASE BuildExtra
  <2>1. nonce' = TheNonce
    BY <1>5 DEF BuildExtra, TheNonce
  <2>2. /\ pc = "extra" /\ pc' = "outputs" /\ ~NonceError
        /\ UNCHANGED <<set, ins, dests, txKey, signed, outcome>>
    BY <1>5 DEF BuildExtra
  <2>3. /\ Tx' = Tx /\ HasTx' = HasTx /\ Readable' = Readable /\ Acceptable' = Acceptable
        /\ SortedInputs(Tx.sources)' = SortedInputs(Tx.sources)
        /\ Shuffled' = Shuffled /\ KeysError' = KeysError /\ TheTxKey' = TheTxKey
        /\ NonceError' = NonceError /\ TheNonce' = TheNonce
    BY <2>2, Frozen
  <2> QED
    BY <2>1, <2>2, <2>3 DEF WorkInv
<1>6. CASE MakeOutputs
  <2>1. /\ ChangeImages' \subseteq images'
        /\ outputs' = [i \in DOMAIN dests |-> Output(i)]'
        /\ dests' = dests
    BY <1>6, Frozen DEF MakeOutputs
  <2> QED
    BY <1>6, <2>1, Frozen DEF MakeOutputs, WorkInv, TypeInv
<1>7. CASE Seal
  <2>1. Readable' = Readable
    BY <1>7 DEF Seal, Readable, Decrypt
  <2> QED
    BY <1>7, <2>1 DEF Seal, WorkInv, TypeInv
<1>8. CASE Reply
  BY <1>8, Frozen DEF Reply, WorkInv, TypeInv
<1>9. CASE Refuses
  BY <1>9, Refusing DEF Refuse, WorkInv, TypeInv
<1>10. CASE UNCHANGED vars
  <2>1. set' = set /\ signed' = signed /\ dests' = dests /\ txKey' = txKey
    BY <1>10 DEF vars, work
  <2> QED
    BY <1>10, <2>1, Frozen DEF vars, work, WorkInv
<1> QED
  BY <1>1, <1>2, <1>3, <1>4, <1>5, <1>6, <1>7, <1>8, <1>9, <1>10 DEF Next, Refuses

LEMMA WorkHolds == Spec => [](TypeInv /\ WorkInv)
<1>1. Init => TypeInv /\ WorkInv
  <2> SUFFICES ASSUME Init PROVE TypeInv /\ WorkInv
    OBVIOUS
  <2>1. IsSeq(set.txes)
    BY SetAssumption DEF Init
  <2>2. Len(set.txes) \in Nat
    BY <2>1, SeqShape
  <2>3. IsSeq(<<>>) /\ Len(<<>>) = 0
    BY DEF IsSeq
  <2> QED
    BY <2>2, <2>3 DEF Init, TypeInv, WorkInv
<1>2. (TypeInv /\ WorkInv) /\ [Next]_vars => (TypeInv /\ WorkInv)'
  BY TypeStep, WorkStep
<1> QED
  BY <1>1, <1>2, PTL DEF Spec

(* The transaction that Seal appends *)

LEMMA AtSeal ==
    ASSUME TypeInv, WorkInv, Seal
    PROVE  /\ pc = "seal" /\ HasTx /\ Readable /\ Acceptable /\ ins = SortedInputs(Tx.sources)
           /\ Shuffled /\ ~KeysError /\ txKey = TheTxKey /\ ~NonceError /\ nonce = TheNonce
           /\ \A d \in Range(dests) : OnCurve(d)
           /\ outputs = [i \in DOMAIN dests |-> Output(i)]
           /\ ChangeImages \subseteq images
           /\ Balanced
           /\ IsSeq(dests) /\ Len(dests) = Len(Tx.dests)
           /\ DOMAIN dests = 1 .. Len(dests) /\ Len(dests) \in Nat
           /\ \A i \in DOMAIN dests : dests[i] \in Range(dests) /\ IsDestination(dests[i])
           /\ Range(dests) = Range(Tx.dests)
<1>1. pc = "seal" /\ Balanced
  BY DEF Seal
<1>2. HasTx /\ Shuffled
  BY <1>1 DEF WorkInv
<1>3. /\ IsSeq(dests) /\ Len(dests) = Len(Tx.dests) /\ Range(dests) = Range(Tx.dests)
      /\ \A d \in Range(dests) : IsDestination(d)
  BY <1>2, ShuffleShape
<1>4. DOMAIN dests = 1 .. Len(dests) /\ Len(dests) \in Nat
  BY <1>3, SeqShape
<1>5. \A i \in DOMAIN dests : dests[i] \in Range(dests) /\ IsDestination(dests[i])
  BY <1>3 DEF Range
<1> QED
  BY <1>1, <1>2, <1>3, <1>4, <1>5 DEF WorkInv

LEMMA SealAppends ==
    ASSUME TypeInv, Seal
    PROVE  /\ set' = set /\ images' = images
           /\ Number \notin DOMAIN signed
           /\ \A n \in DOMAIN signed' :
                 \/ n \in DOMAIN signed /\ signed'[n] = signed[n]
                 \/ n = Number /\ signed'[n] = Sealed
<1>1. signed' = Append(signed, Sealed) /\ set' = set /\ images' = images
  BY DEF Seal, Sealed
<1>2. /\ DOMAIN signed = 1 .. Len(signed) /\ Len(signed) \in Nat
      /\ IsSeq(signed)
  BY SignedShape DEF TypeInv
<1> PICK record : record = Sealed
  OBVIOUS
<1>3. /\ DOMAIN signed' = 1 .. Len(signed) + 1
      /\ \A n \in 1 .. Len(signed) : signed'[n] = signed[n]
      /\ signed'[Len(signed) + 1] = record
  BY <1>1, <1>2, AppendShape
<1> QED
  BY <1>1, <1>2, <1>3 DEF Number

-----------------------------------------------------------------------------
(* One-time keys *)

(* The derivation of every output holds a secret drawn for its transaction
   and none drawn for another, and the key holds its position. *)
KeysDrawn(n, outs) ==
    \A p \in DOMAIN outs :
        /\ p \in Nat /\ outs[p].key.position = p - 1
        /\ DrawnOnlyFor(n, outs[p].key.derivation)

DrawnInv == \A n \in DOMAIN signed : KeysDrawn(n, signed[n].outputs)

LEMMA TxKeyDrawn == DrawnOnlyFor(Number, TheTxKey)
<1>1. \A d : DrawnOnlyFor(Number, SubaddressKey(TxSecret(Number), Spend(d)))
  BY SecretsDrawn, AddressNotDrawn, MulDrawn DEF SubaddressKey
<1>2. DrawnOnlyFor(Number, StandardKey(TxSecret(Number)))
  BY SecretsDrawn, AddressNotDrawn, MulDrawn DEF StandardKey
<1> QED
  BY <1>1, <1>2 DEF TheTxKey

LEMMA DerivationDrawn ==
    ASSUME txKey = TheTxKey, NEW p
    PROVE  DrawnOnlyFor(Number, OutputDerivation(p))
<1>1. DrawnOnlyFor(Number, Derivation(ViewSecret(Account), txKey))
  BY TxKeyDrawn, SecretsDrawn, MulDrawn DEF Derivation
<1>2. \A q, d : DrawnOnlyFor(Number, Derivation(AdditionalSecret(Number, q), View(d)))
  BY SecretsDrawn, AddressNotDrawn, MulDrawn DEF Derivation
<1>3. \A d : DrawnOnlyFor(Number, Derivation(TxSecret(Number), View(d)))
  BY SecretsDrawn, AddressNotDrawn, MulDrawn DEF Derivation
<1> QED
  BY <1>1, <1>2, <1>3 DEF OutputDerivation

LEMMA SealedDrawn ==
    ASSUME TypeInv, WorkInv, Seal
    PROVE  KeysDrawn(Number, Sealed.outputs)
<1>1. /\ txKey = TheTxKey /\ DOMAIN dests \subseteq Nat
      /\ Sealed.outputs = [i \in DOMAIN dests |-> Output(i)]
  BY AtSeal DEF Sealed
<1>2. \A i : /\ Output(i).key.position = i - 1
             /\ Output(i).key.derivation = OutputDerivation(i)
  BY DEF Output, OneTimePublic
<1> QED
  BY <1>1, <1>2, DerivationDrawn DEF KeysDrawn

LEMMA DrawnHolds == Spec => []DrawnInv
<1>1. Init => DrawnInv
  BY DEF Init, DrawnInv
<1>2. TypeInv /\ WorkInv /\ DrawnInv /\ [Next]_vars => DrawnInv'
  <2> SUFFICES ASSUME TypeInv, WorkInv, DrawnInv, [Next]_vars PROVE DrawnInv'
    OBVIOUS
  <2>1. CASE signed' = signed
    BY <2>1 DEF DrawnInv, KeysDrawn, DrawnOnlyFor, Drawn
  <2>2. CASE Seal
    BY <2>2, SealAppends, SealedDrawn DEF DrawnInv, KeysDrawn, DrawnOnlyFor, Drawn
  <2> QED
    BY <2>1, <2>2, Steps
<1> QED
  BY <1>1, <1>2, WorkHolds, PTL DEF Spec

(* construct_and_sign: no two outputs of a signed set share a one-time key,
   whatever the destinations and wherever the shuffle puts them: within a
   transaction the positions differ, between two the secrets drawn. *)
THEOREM KeysNeverShared == Spec => []OutputKeysDistinct
<1>1. DrawnInv => OutputKeysDistinct
  <2> SUFFICES ASSUME DrawnInv, NEW m \in DOMAIN signed, NEW n \in DOMAIN signed,
                      NEW p \in DOMAIN signed[m].outputs, NEW q \in DOMAIN signed[n].outputs,
                      signed[m].outputs[p].key = signed[n].outputs[q].key
               PROVE  m = n /\ p = q
    BY DEF OutputKeysDistinct
  <2>1. KeysDrawn(m, signed[m].outputs) /\ KeysDrawn(n, signed[n].outputs)
    BY DEF DrawnInv
  <2> QED
    BY <2>1 DEF KeysDrawn, DrawnOnlyFor
<1> QED
  BY <1>1, DrawnHolds, PTL

-----------------------------------------------------------------------------
(* Key images *)

ChangePaired(n, outs) ==
    LET change == set.txes[n].change
    IN  change.owner = Account /\ change.index \in Reachable =>
            \A p \in DOMAIN outs :
                outs[p].key.spend = Spend(change) => \E pair \in images : pair[1] = outs[p].key

ImagesInv ==
    /\ \A pair \in images : pair[2] = TrueImage(pair[1])
    /\ outcome = "signed" => TransferImages \subseteq images
    /\ \A n \in DOMAIN signed : ChangePaired(n, signed[n].outputs)

LEMMA ReachableIndices == TypeInv => NoIndex \notin Reachable
<1> SUFFICES ASSUME TypeInv PROVE NoIndex \notin Reachable
  OBVIOUS
<1>1. Primary \in Nat \X Nat
  BY DEF Primary
<1>2. Window \subseteq Nat \X Nat
  BY LookaheadAssumption DEF Window
<1>3. Listed \subseteq Nat \X Nat
  BY SetAssumption DEF Listed, TypeInv
<1> QED
  BY <1>1, <1>2, <1>3, NoIndexAssumption DEF Reachable

(* The table answers with the one index a spend key has. *)
LEMMA LookupFinds ==
    ASSUME TypeInv
    PROVE  /\ \A i \in Reachable : Lookup(SpendPublic(Account, i)) = i
           /\ \A spend : Lookup(spend) # NoIndex =>
                 Lookup(spend) \in Reachable /\ SpendPublic(Account, Lookup(spend)) = spend
<1>1. ASSUME NEW spend, NEW i \in Reachable, SpendPublic(Account, i) = spend
      PROVE  Lookup(spend) \in Reachable /\ SpendPublic(Account, Lookup(spend)) = spend
  BY <1>1 DEF Lookup
<1>2. \A i \in Reachable : Lookup(SpendPublic(Account, i)) = i
  BY <1>1, SpendNames
<1>3. ASSUME NEW spend, Lookup(spend) # NoIndex
      PROVE  \E i \in Reachable : SpendPublic(Account, i) = spend
  BY <1>3 DEF Lookup
<1> QED
  BY <1>1, <1>2, <1>3

LEMMA ChangeImagesTrue == \A pair \in ChangeImages : pair[2] = TrueImage(pair[1])
BY DEF ChangeImages, TrueImage, PublicOf

LEMMA TransferImagesTrue ==
    ASSUME ~TransferError
    PROVE  \A pair \in TransferImages : pair[2] = TrueImage(pair[1])
<1>1. ASSUME NEW i \in DOMAIN set.transfers
      PROVE  SignKeyImage(set.transfers[i]).image = TrueImage(set.transfers[i].pubkey)
  <2> PICK out : out = set.transfers[i]
    OBVIOUS
  <2>1. OneTimeKeyError(out) = "None"
    BY <1>1 DEF TransferError
  <2>2. Secret(out) = out.pubkey
    BY <2>1 DEF OneTimeKeyError, PublicOf
  <2> QED
    BY <2>2 DEF SignKeyImage, TrueImage
<1> QED
  BY <1>1 DEF TransferImages

(* An output with the spend key of a change address the table knows is
   change, and its key is the one whose image was made. *)
LEMMA SealedPaired ==
    ASSUME TypeInv, WorkInv, Seal
    PROVE  ChangePaired(Number, Sealed.outputs)
<1> SUFFICES ASSUME Tx.change.owner = Account, Tx.change.index \in Reachable,
                    NEW p \in DOMAIN Sealed.outputs,
                    Sealed.outputs[p].key.spend = Spend(Tx.change)
             PROVE  \E pair \in images : pair[1] = Sealed.outputs[p].key
  BY DEF ChangePaired, Tx
<1>1. Sealed.outputs = [i \in DOMAIN dests |-> Output(i)]
  BY AtSeal DEF Sealed
<1>2. /\ p \in DOMAIN dests
      /\ Sealed.outputs[p].key = OneTimePublic(OutputDerivation(p), p - 1, Spend(dests[p]))
  BY <1>1 DEF Output
<1>3. Spend(dests[p]) = Spend(Tx.change)
  BY <1>2 DEF OneTimePublic
<1>4. IsChange(dests[p])
  BY <1>3, AddressNames DEF IsChange
<1> DEFINE index == Lookup(Spend(Tx.change))
           secret(i) == OneTimeSecret(Account, OutputDerivation(i), i - 1, index)
<1>5. index = Tx.change.index /\ index # NoIndex
  BY LookupFinds, ReachableIndices DEF Spend
<1>6. secret(p) = Sealed.outputs[p].key
  BY <1>2, <1>3, <1>5 DEF OneTimeSecret, Spend
<1>7. <<PublicOf(secret(p)), KeyImageOf(secret(p), PublicOf(secret(p)))>> \in ChangeImages
  BY <1>2, <1>4, <1>5 DEF ChangeImages
<1>8. ChangeImages \subseteq images
  BY AtSeal
<1> HIDE DEF secret, index
<1> QED
  BY <1>6, <1>7, <1>8 DEF PublicOf

LEMMA ImagesHold == Spec => []ImagesInv
<1>1. Init => ImagesInv
  BY DEF Init, ImagesInv
<1>2. TypeInv /\ WorkInv /\ ImagesInv /\ [Next]_vars => ImagesInv'
  <2> SUFFICES ASSUME TypeInv, WorkInv, ImagesInv, [Next]_vars PROVE ImagesInv'
    OBVIOUS
  <2>1. set' = set /\ images \subseteq images' /\ Reachable' = Reachable
    BY Steps DEF Reachable, Listed
  <2>2. \A pair \in images' : pair[2] = TrueImage(pair[1])
    <3>1. CASE MakeOutputs
      BY <3>1, ChangeImagesTrue DEF MakeOutputs, ImagesInv
    <3>2. CASE Reply
      BY <3>2, TransferImagesTrue DEF Reply, ImagesInv
    <3>3. CASE images' = images
      BY <3>3 DEF ImagesInv
    <3> QED
      BY <3>1, <3>2, <3>3 DEF Next, vars, work, Open, RecoverInputs, Shuffle, DrawKeys, BuildExtra,
         Seal, RefuseSet, RefuseInputs, RefuseKeys, RefuseExtra, RefuseOutputs, RefuseSeal,
         RefuseTransfer, Refuse
  <2>3. outcome' = "signed" => TransferImages' \subseteq images'
    <3>1. TransferImages' = TransferImages
      BY <2>1 DEF TransferImages, SignKeyImage, Secret, Matching, Derivations
    <3>2. CASE Reply
      BY <3>1, <3>2 DEF Reply
    <3>3. CASE outcome' = outcome
      BY <2>1, <3>1, <3>3 DEF ImagesInv
    <3>4. CASE outcome' = "refused"
      BY <3>4
    <3> QED
      BY <3>2, <3>3, <3>4 DEF Next, vars, work, Open, RecoverInputs, Shuffle, DrawKeys, BuildExtra,
         MakeOutputs, Seal, RefuseSet, RefuseInputs, RefuseKeys, RefuseExtra, RefuseOutputs,
         RefuseSeal, RefuseTransfer, Refuse
  <2>4. (\A n \in DOMAIN signed : ChangePaired(n, signed[n].outputs))'
    <3>1. CASE signed' = signed
      BY <2>1, <3>1 DEF ImagesInv, ChangePaired
    <3>2. CASE Seal
      <4>1. \A n \in DOMAIN signed : ChangePaired(n, signed[n].outputs)
        BY DEF ImagesInv
      <4>2. ChangePaired(Number, Sealed.outputs)
        BY <3>2, SealedPaired
      <4>3. \A n \in DOMAIN signed' : \E outs : outs = signed'[n].outputs /\ ChangePaired(n, outs)
        BY <3>2, <4>1, <4>2, SealAppends
      <4> QED
        BY <2>1, <4>3 DEF ChangePaired
    <3> QED
      BY <3>1, <3>2, Steps
  <2> QED
    BY <2>2, <2>3, <2>4 DEF ImagesInv
<1> QED
  BY <1>1, <1>2, WorkHolds, PTL DEF Spec

(* tx_key_images: whatever set is signed, every image of the reply is the
   one its output will be spent with, and no exported transfer and no change
   at an address of the table is left without. *)
THEOREM ImagesAnswerSet == Spec => []ReplyImagesTrue
<1>1. ImagesInv => ReplyImagesTrue
  <2> SUFFICES ASSUME ImagesInv PROVE ReplyImagesTrue
    OBVIOUS
  <2>1. ASSUME outcome = "signed", NEW i \in DOMAIN set.transfers
        PROVE  \E pair \in images : pair[1] = set.transfers[i].pubkey
    <3>1. <<set.transfers[i].pubkey, SignKeyImage(set.transfers[i]).image>> \in images
      BY <2>1 DEF ImagesInv, TransferImages
    <3> QED
      BY <3>1
  <2> QED
    BY <2>1 DEF ImagesInv, ReplyImagesTrue, ChangePaired
<1> QED
  BY <1>1, ImagesHold, PTL

-----------------------------------------------------------------------------
(* The payment id *)

(* What wallets pay: nothing is sent for nothing, except as change. *)
PaymentsPositive ==
    \A s \in Sets : \A tx \in Range(s.txes) : \A d \in Range(tx.dests) :
        d.amount = 0 => SameAddress(d, tx.change)

NonceReadable(n, record) ==
    set.txes[n].nonce = "short" =>
        /\ record.nonce.id = "payment id"
        /\ \A d \in Range(set.txes[n].dests) :
              d.amount # 0 /\ ~SameAddress(d, set.txes[n].change) /\ Truthful(set.txes[n], d) =>
                  record.nonce.under = Derivation(ViewSecret(d.owner), record.txKey)

NonceInv == \A n \in DOMAIN signed : NonceReadable(n, signed[n])

(* The key is r*D for a lone subaddress, r*G for a lone standard address. *)
LEMMA SolePayeeShared ==
    ASSUME txKey = TheTxKey, NEW i, Payees = {i}, NEW d, SameAddress(dests[i], d),
           IsSubaddress(dests[i]) <=> d.index # Primary
    PROVE  Derivation(ViewSecret(d.owner), txKey) = Derivation(TxSecret(Number), View(d))
<1>1. CASE d.index # Primary
  <2>1. Standard = {} /\ Subaddresses = {i}
    BY <1>1 DEF Standard, Subaddresses
  <2>2. OneSubaddress /\ (CHOOSE s \in Subaddresses : TRUE) = i
    BY <2>1, FS_Singleton DEF OneSubaddress
  <2>3. txKey = SubaddressKey(TxSecret(Number), Spend(d))
    BY <2>2 DEF TheTxKey, SameAddress
  <2> QED
    BY <1>1, <2>3, SubaddressShared
<1>2. CASE d.index = Primary
  <2>1. i \in Standard
    BY <1>2 DEF Standard
  <2>2. txKey = StandardKey(TxSecret(Number))
    BY <2>1 DEF TheTxKey, OneSubaddress
  <2> QED
    BY <1>2, <2>2, StandardShared
<1> QED
  BY <1>1, <1>2

LEMMA SealedReadable ==
    ASSUME PaymentsPositive, TypeInv, WorkInv, Seal
    PROVE  NonceReadable(Number, Sealed)
<1> SUFFICES ASSUME Tx.nonce = "short"
             PROVE  /\ nonce.id = "payment id"
                    /\ \A d \in Range(Tx.dests) :
                          d.amount # 0 /\ ~SameAddress(d, Tx.change) /\ Truthful(Tx, d) =>
                              nonce.under = Derivation(ViewSecret(d.owner), txKey)
  BY DEF NonceReadable, Tx, Sealed
<1>1. /\ HasReader /\ nonce = Encrypted("payment id")
      /\ txKey = TheTxKey /\ Range(dests) = Range(Tx.dests)
      /\ HasTx /\ Shuffled
  BY AtSeal DEF NonceError, TheNonce
<1>2. nonce.id = "payment id"
  BY <1>1 DEF Encrypted
<1>3. ASSUME NEW d \in Range(dests), d.amount # 0, ~IsChange(d), Truthful(Tx, d)
      PROVE  nonce.under = Derivation(ViewSecret(d.owner), txKey)
  <2> DEFINE paid == {Address(e) : e \in {f \in Range(dests) : f.amount # 0 /\ ~IsChange(f)}}
  <2>1. Address(d) \in paid
    BY <1>3
  <2>2. \A i \in Payees : i \in DOMAIN dests /\ Address(dests[i]) \in paid
    <3>1. Tx \in Range(set.txes) /\ set \in Sets
      BY AtSeal, TxShape DEF TypeInv
    <3>2. \A e \in Range(dests) : e.amount = 0 => IsChange(e)
      BY <1>1, <3>1 DEF PaymentsPositive, IsChange
    <3>3. \A i \in Payees : i \in DOMAIN dests /\ dests[i] \in Range(dests) /\ ~IsChange(dests[i])
      BY DEF Payees, Range
    <3> QED
      BY <3>2, <3>3
  <2>3. IsFiniteSet(paid)
    <3> DEFINE R == {f \in Range(dests) : f.amount # 0 /\ ~IsChange(f)}
               read == [e \in R |-> Address(e)]
    <3>1. IsFiniteSet(R)
      BY <1>1, ShuffleShape, FS_Subset
    <3>2. read \in Surjection(R, paid)
      BY DEF Surjection
    <3> QED
      BY <3>1, <3>2, FS_Surjection
  <2>4. NoncePayee = IF paid = {} THEN Address(Tx.change)
                     ELSE IF Cardinality(paid) = 1 THEN CHOOSE e \in paid : TRUE
                     ELSE None
    BY DEF NoncePayee
  <2> HIDE DEF paid
  <2>5. Cardinality(paid) = 1
    BY <1>1, <2>1, <2>4 DEF HasReader
  <2>6. paid = {Address(d)}
    BY <2>1, <2>3, <2>5, FS_Singleton
  <2>7. NoncePayee = Address(d)
    BY <2>4, <2>5, <2>6
  <2>8. nonce.under = Derivation(TxSecret(Number), View(d))
    BY <1>1, <2>7, AddressKeeps DEF Encrypted
  <2>9. PICK p \in DOMAIN dests : dests[p] = d
    BY <1>3 DEF Range
  <2>10. PICK i \in Payees : i \in DOMAIN dests /\ SameAddress(dests[i], d)
    BY <1>1, <1>3, <2>9, CountedOnce
  <2>11. ASSUME NEW j \in Payees
         PROVE  j = i
    <3>1. SameAddress(dests[j], d) /\ j \in DOMAIN dests
      BY <2>2, <2>6, AddressNames
    <3> QED
      BY <1>1, <2>10, <2>11, <3>1, PayeesApart
  <2>12. Payees = {i}
    BY <2>10, <2>11
  <2>13. IsSubaddress(dests[i]) <=> d.index # Primary
    <3>1. dests[i] \in Range(Tx.dests)
      BY <1>1, <2>10 DEF Range
    <3>2. dests[i].index = d.index
      BY <2>10, AddressNames
    <3> QED
      BY <1>3, <2>10, <3>1, <3>2 DEF Truthful, IsSubaddress
  <2> QED
    BY <1>1, <2>8, <2>10, <2>12, <2>13, SolePayeeShared
<1> QED
  BY <1>1, <1>2, <1>3 DEF IsChange

LEMMA NonceHolds ==
    ASSUME PaymentsPositive
    PROVE  Spec => []NonceInv
<1>1. Init => NonceInv
  BY DEF Init, NonceInv
<1>2. TypeInv /\ WorkInv /\ NonceInv /\ [Next]_vars => NonceInv'
  <2> SUFFICES ASSUME TypeInv, WorkInv, NonceInv, [Next]_vars PROVE NonceInv'
    OBVIOUS
  <2> SUFFICES ASSUME NEW n \in DOMAIN signed' PROVE NonceReadable(n, signed[n])'
    BY DEF NonceInv
  <2>1. PICK record : record = signed'[n] /\ NonceReadable(n, record)
    <3>1. CASE signed' = signed
      BY <3>1 DEF NonceInv
    <3>2. CASE Seal
      BY <3>2, SealAppends, SealedReadable DEF NonceInv
    <3> QED
      BY <3>1, <3>2, Steps
  <2>2. set' = set
    BY Steps
  <2> QED
    BY <2>1, <2>2 DEF NonceReadable
<1> QED
  BY <1>1, <1>2, WorkHolds, PTL DEF Spec

(* construct_and_sign, destination_view_key: a short payment id is encrypted
   for the one payee there is, with the transaction key it will read. *)
THEOREM PaymentIdForPayee ==
    ASSUME PaymentsPositive
    PROVE  Spec => []PaymentIdReadable
<1>1. NonceInv => PaymentIdReadable
  BY DEF NonceInv, NonceReadable, PaymentIdReadable
<1> QED
  BY <1>1, NonceHolds, PTL

-----------------------------------------------------------------------------
(* Recipients *)

LEMMA CandidateKeys ==
    ASSUME NEW key, NEW additional, NEW position
    PROVE  /\ key \in Range(Candidates(key, additional, position))
           /\ position < Len(additional) =>
                 additional[position + 1] \in Range(Candidates(key, additional, position))
<1>1. <<key>>[1] = key /\ \A x : <<key, x>>[1] = key /\ <<key, x>>[2] = x
  OBVIOUS
<1>2. 1 \in DOMAIN <<key>> /\ \A x : {1, 2} \subseteq DOMAIN <<key, x>>
  OBVIOUS
<1>3. key \in Range(<<key>>)
  BY <1>1, <1>2 DEF Range
<1>4. \A x : key \in Range(<<key, x>>) /\ x \in Range(<<key, x>>)
  BY <1>1, <1>2 DEF Range
<1> QED
  BY <1>3, <1>4 DEF Candidates

(* One of the keys of a signed transaction leads its payee to the derivation
   its output was made with. *)
LEMMA DerivationFound ==
    ASSUME TypeInv, WorkInv, Seal, NEW p \in DOMAIN dests,
           IF IsChange(dests[p]) THEN dests[p].owner = Account ELSE Truthful(Tx, dests[p])
    PROVE  \E key \in Range(Candidates(txKey, AdditionalKeys, p - 1)) :
               Derivation(ViewSecret(dests[p].owner), key) = OutputDerivation(p)
<1> PICK d : d = dests[p]
  OBVIOUS
<1> DEFINE found(key) ==
               /\ key \in Range(Candidates(txKey, AdditionalKeys, p - 1))
               /\ Derivation(ViewSecret(d.owner), key) = OutputDerivation(p)
<1>1. /\ txKey = TheTxKey /\ HasTx /\ Shuffled
      /\ Len(dests) \in Nat /\ DOMAIN dests = 1 .. Len(dests) /\ d \in Range(dests)
  BY AtSeal
<1>2. txKey \in Range(Candidates(txKey, AdditionalKeys, p - 1))
  BY CandidateKeys
<1>3. CASE IsChange(d)
  BY <1>2, <1>3 DEF OutputDerivation
<1>8. ~IsChange(d) => (IsSubaddress(d) <=> d.index # Primary)
  <2>1. SameAddress(d, d) /\ d \in Range(Tx.dests)
    BY AtSeal DEF SameAddress
  <2> QED
    BY <2>1 DEF Truthful, IsSubaddress
<1>4. CASE ~IsChange(d) /\ d.index # Primary /\ NeedAdditional
  <2> PICK key : key = SubaddressKey(AdditionalSecret(Number, p - 1), Spend(d))
    OBVIOUS
  <2>1. /\ AdditionalKeys = [i \in 1 .. Len(dests) |-> AdditionalKeys[i]]
        /\ AdditionalKeys[p] = key
    BY <1>1, <1>4, <1>8 DEF AdditionalKeys
  <2>2. Len(AdditionalKeys) = Len(dests)
    BY <1>1, <2>1, ListShape
  <2>3. p - 1 < Len(AdditionalKeys) /\ (p - 1) + 1 = p
    BY <1>1, <2>2
  <2>4. key \in Range(Candidates(txKey, AdditionalKeys, p - 1))
    BY <2>1, <2>3, CandidateKeys
  <2>5. Derivation(ViewSecret(d.owner), key) = OutputDerivation(p)
    BY <1>4, <1>8, SubaddressShared DEF OutputDerivation
  <2> QED
    BY <2>4, <2>5
<1>5. CASE ~IsChange(d)
  <2>1. PICK i \in Payees : i \in DOMAIN dests /\ SameAddress(dests[i], d)
    BY <1>1, <1>5, CountedOnce
  <2>2. dests[i] \in Range(Tx.dests)
    BY <2>1, AtSeal
  <2>3. dests[i].index = d.index
    BY <2>1, AddressNames
  <2>4. IsSubaddress(dests[i]) <=> d.index # Primary
    BY <1>5, <2>1, <2>2, <2>3 DEF Truthful, IsSubaddress
  <2>5. CASE d.index # Primary /\ ~NeedAdditional
    <3>1. IsFiniteSet(Subaddresses) /\ i \in Subaddresses
      BY <1>1, <2>4, <2>5, PayeesFinite DEF Subaddresses
    <3>2. Standard = {} /\ ~(Cardinality(Subaddresses) > 1)
      BY <2>5, <3>1 DEF NeedAdditional
    <3>3. Cardinality(Subaddresses) = 1
      <4>1. Cardinality(Subaddresses) \in Nat /\ Cardinality(Subaddresses) # 0
        BY <3>1, FS_CardinalityType, FS_EmptySet
      <4> QED
        BY <3>2, <4>1
    <3>4. Subaddresses = {i}
      BY <3>1, <3>3, FS_Singleton
    <3>5. Payees = {i}
      BY <3>2, <3>4 DEF Standard, Subaddresses
    <3>6. Derivation(ViewSecret(d.owner), txKey) = Derivation(TxSecret(Number), View(d))
      BY <1>1, <2>1, <2>4, <3>5, SolePayeeShared
    <3> QED
      BY <1>2, <1>5, <2>5, <3>6 DEF OutputDerivation
  <2>6. CASE d.index = Primary
    <3>1. i \in Standard
      BY <2>4, <2>6 DEF Standard
    <3>2. txKey = StandardKey(TxSecret(Number))
      BY <1>1, <3>1 DEF TheTxKey, OneSubaddress
    <3>3. Derivation(ViewSecret(d.owner), txKey) = OutputDerivation(p)
      BY <1>5, <1>8, <2>6, <3>2, StandardShared DEF OutputDerivation
    <3> QED
      BY <1>2, <3>3
  <2> QED
    BY <1>4, <1>5, <2>5, <2>6
<1> QED
  BY <1>3, <1>5

(* The same payment, whatever is said of the kind of its address. *)
Like(e, d) == SameAddress(e, d) /\ e.amount = d.amount

(* The owner of d finds the outputs made for d, and no others. *)
LEMMA FindsOwn ==
    ASSUME TypeInv, WorkInv, Seal, NEW d \in Range(Tx.dests),
           IF IsChange(d) THEN d.owner = Account ELSE Truthful(Tx, d)
    PROVE  {p \in DOMAIN Sealed.outputs : Received(Sealed, p, d)} = {p \in DOMAIN dests : Like(dests[p], d)}
<1>1. /\ Sealed.outputs = [i \in DOMAIN dests |-> Output(i)]
      /\ Sealed.txKey = txKey /\ Sealed.additional = AdditionalKeys
  BY AtSeal DEF Sealed
<1> SUFFICES ASSUME NEW p \in DOMAIN dests
             PROVE  Received(Sealed, p, d) <=> Like(dests[p], d)
  BY <1>1
<1> PICK made : made = OutputDerivation(p)
  OBVIOUS
<1> PICK out : out = Sealed.outputs[p]
  OBVIOUS
<1>3. /\ out.key = OneTimePublic(made, p - 1, Spend(dests[p]))
      /\ out.tag = <<made, p - 1>>
      /\ out.amount = [under |-> <<made, p - 1>>, value |-> dests[p].amount]
  BY <1>1 DEF Output
<1>4. ASSUME Like(dests[p], d)
      PROVE  Received(Sealed, p, d)
  <2>3. /\ dests[p].owner = d.owner /\ Spend(dests[p]) = Spend(d)
        /\ dests[p].amount = d.amount
    BY <1>4, AddressNames DEF Like
  <2>4. IF IsChange(dests[p]) THEN dests[p].owner = Account ELSE Truthful(Tx, dests[p])
    BY <1>4, <2>3 DEF IsChange, Truthful, SameAddress, Like
  <2>1. PICK key \in Range(Candidates(txKey, AdditionalKeys, p - 1)) :
           Derivation(ViewSecret(d.owner), key) = made
    BY <2>3, <2>4, DerivationFound
  <2>2. SpendCandidate(out.key, made, p - 1) = Spend(d)
    BY <1>3, <2>3 DEF SpendCandidate, OneTimePublic
  <2> QED
    BY <1>1, <1>3, <2>1, <2>2, <2>3 DEF Received
<1>5. ASSUME Received(Sealed, p, d)
      PROVE  Like(dests[p], d)
  <2>1. PICK der : /\ SpendCandidate(out.key, der, p - 1) = Spend(d)
                   /\ out.amount = [under |-> <<der, p - 1>>, value |-> d.amount]
    BY <1>5 DEF Received
  <2>2. Spend(d) # Stray
    BY StrayIsNoSpend DEF Spend
  <2>3. Spend(dests[p]) = Spend(d)
    BY <1>3, <2>1, <2>2 DEF SpendCandidate, OneTimePublic
  <2>4. dests[p].amount = d.amount
    BY <1>3, <2>1
  <2> QED
    BY <2>3, <2>4, AddressNames DEF Like
<1> QED
  BY <1>4, <1>5

(* A rearrangement rearranges each part of the list. *)
Carries(p, S, T, A, B) ==
    /\ p \in Bijection(S, T) /\ A \subseteq S /\ B \subseteq T
    /\ \A i \in S : i \in A <=> p[i] \in B

LEMMA PartRearranged ==
    ASSUME NEW S, NEW T, NEW p, NEW A, NEW B, Carries(p, S, T, A, B)
    PROVE  /\ [i \in A |-> p[i]] \in Bijection(A, B)
           /\ \A i \in A : p[i] \in B
<1> DEFINE q == [i \in A |-> p[i]]
<1>1. /\ p \in [S -> T]
      /\ \A i, j \in S : p[i] = p[j] => i = j
      /\ \A t \in T : \E i \in S : p[i] = t
      /\ A \subseteq S /\ B \subseteq T /\ \A i \in S : i \in A <=> p[i] \in B
  BY DEF Carries, Bijection, Injection, Surjection, IsInjective
<1>2. q \in [A -> B] /\ \A i \in A : q[i] = p[i]
  BY <1>1
<1>3. \A i, j \in A : q[i] = q[j] => i = j
  BY <1>1
<1>4. \A t \in B : \E i \in A : q[i] = t
  BY <1>1
<1>5. \A i \in A : p[i] \in B
  BY <1>1
<1> HIDE DEF q
<1>6. q \in Bijection(A, B)
  BY <1>2, <1>3, <1>4 DEF Bijection, Injection, Surjection, IsInjective
<1> QED
  BY <1>5, <1>6 DEF q

LEMMA CountRearranged ==
    ASSUME NEW S, NEW T, IsFiniteSet(S), NEW p, NEW A, NEW B, Carries(p, S, T, A, B)
    PROVE  Cardinality(A) = Cardinality(B)
<1>1. [i \in A |-> p[i]] \in Bijection(A, B)
  BY PartRearranged
<1>2. IsFiniteSet(A)
  BY FS_Subset DEF Carries
<1> QED
  BY <1>1, <1>2, FS_Bijection DEF ExistsBijection

ReceivedFrom(tx, record) ==
    LET asked == tx.dests
        mine(d) == IF SameAddress(d, tx.change) THEN d.owner = Account ELSE Truthful(tx, d)
    IN  /\ Len(record.outputs) = Len(asked)
        /\ \A d \in Range(asked) :
              mine(d) => Cardinality({p \in DOMAIN record.outputs : Received(record, p, d)})
                            = Cardinality({i \in DOMAIN asked : Like(asked[i], d)})

ReceivedInv == \A n \in DOMAIN signed : ReceivedFrom(set.txes[n], signed[n])

LEMMA SealedReceived ==
    ASSUME TypeInv, WorkInv, Seal
    PROVE  ReceivedFrom(Tx, Sealed)
<1> PICK asked : asked = Tx.dests
  OBVIOUS
<1>1. /\ HasTx /\ Shuffled /\ IsSeq(dests) /\ Len(dests) = Len(asked)
      /\ Sealed.outputs = [i \in DOMAIN dests |-> Output(i)]
      /\ DOMAIN dests = 1 .. Len(dests) /\ Len(dests) \in Nat
  BY AtSeal DEF Sealed
<1>2. IsSeq(asked) /\ DOMAIN asked = DOMAIN dests /\ IsFiniteSet(DOMAIN asked)
  BY <1>1, TxShape, SeqShape
<1>3. Len(Sealed.outputs) = Len(asked)
  <2>1. Sealed.outputs = [i \in 1 .. Len(dests) |-> Sealed.outputs[i]]
    BY <1>1
  <2> QED
    BY <1>1, <2>1, ListShape
<1>4. ASSUME NEW d \in Range(asked), IF IsChange(d) THEN d.owner = Account ELSE Truthful(Tx, d)
      PROVE  Cardinality({p \in DOMAIN Sealed.outputs : Received(Sealed, p, d)})
               = Cardinality({i \in DOMAIN asked : Like(asked[i], d)})
  <2>1. PICK p \in Bijection(DOMAIN asked, DOMAIN asked) :
           dests = [i \in DOMAIN asked |-> asked[p[i]]]
    BY <1>1 DEF Shuffled
  <2> DEFINE made == {i \in DOMAIN dests : Like(dests[i], d)}
             wanted == {i \in DOMAIN asked : Like(asked[i], d)}
  <2>2. /\ made \subseteq DOMAIN asked /\ wanted \subseteq DOMAIN asked
        /\ \A i \in DOMAIN asked : i \in made <=> p[i] \in wanted
    <3>1. \A i \in DOMAIN asked : p[i] \in DOMAIN asked
      BY DEF Bijection, Injection
    <3> QED
      BY <1>2, <2>1, <3>1
  <2>3. {i \in DOMAIN Sealed.outputs : Received(Sealed, i, d)} = made
    BY <1>4, FindsOwn
  <2> HIDE DEF made, wanted
  <2>4. Carries(p, DOMAIN asked, DOMAIN asked, made, wanted)
    BY <2>2 DEF Carries
  <2>5. Cardinality(made) = Cardinality(wanted)
    BY <1>2, <2>4, CountRearranged
  <2> QED
    BY <2>3, <2>5 DEF wanted
<1> QED
  BY <1>3, <1>4 DEF ReceivedFrom, IsChange

LEMMA ReceivedHolds == Spec => []ReceivedInv
<1>1. Init => ReceivedInv
  BY DEF Init, ReceivedInv
<1>2. TypeInv /\ WorkInv /\ ReceivedInv /\ [Next]_vars => ReceivedInv'
  <2> SUFFICES ASSUME TypeInv, WorkInv, ReceivedInv, [Next]_vars PROVE ReceivedInv'
    OBVIOUS
  <2> SUFFICES ASSUME NEW n \in DOMAIN signed' PROVE ReceivedFrom(set.txes[n], signed[n])'
    BY DEF ReceivedInv
  <2>1. PICK record : record = signed'[n] /\ ReceivedFrom(set.txes[n], record)
    <3>1. CASE signed' = signed
      BY <3>1 DEF ReceivedInv
    <3>2. CASE Seal
      BY <3>2, SealAppends, SealedReceived DEF ReceivedInv, Tx
    <3> QED
      BY <3>1, <3>2, Steps
  <2>2. set' = set
    BY Steps
  <2> QED
    BY <2>1, <2>2
<1> QED
  BY <1>1, <1>2, WorkHolds, PTL DEF Spec

(* construct_and_sign: every payee finds exactly what it was to be paid,
   whatever the mix of standard addresses, subaddresses and change. *)
THEOREM PayeesReceive == Spec => []RecipientsReceive
<1>1. ReceivedInv => RecipientsReceive
  BY DEF ReceivedInv, ReceivedFrom, RecipientsReceive, Like
<1> QED
  BY <1>1, ReceivedHolds, PTL

-----------------------------------------------------------------------------
(* Inputs *)

(* The member a ring is signed for. *)
SignedMember(input) == input.ring[input.signer + 1]

(* What an accepted source becomes. *)
LEMMA InputOf ==
    ASSUME NEW source, IsSource(source), source.real < Len(source.ring),
           Recoverable(source), RingUsable(source)
    PROVE  /\ SignedMember(Input(source)) = Real(source)
           /\ PublicOf(Input(source).secret) = Real(source).key
           /\ Input(source).image = TrueImage(Real(source).key)
           /\ Input(source).image.base = Real(source).key
           /\ Real(source).commitment = <<source.mask, source.amount>>
           /\ source.amount \in Nat
<1>1. /\ source.real \in Nat /\ source.amount \in Nat
      /\ Len(source.ring) \in Nat /\ Len(source.ring) < ByteLimit /\ ByteLimit \in Nat \ {0}
  BY SeqShape, WidthAssumption DEF IsSource, RingUsable
<1>2. Signer(source) = source.real
  <2>1. source.real < ByteLimit
    BY <1>1
  <2> QED
    BY <1>1, <2>1, ModIs DEF Signer
<1>3. SpentSecret(source) = Real(source).key
  BY DEF Recoverable, PublicOf
<1>4. /\ Input(source).ring = source.ring /\ Input(source).signer = source.real
      /\ Input(source).secret = Real(source).key
      /\ Input(source).image = TrueImage(Real(source).key)
  BY <1>2, <1>3 DEF Input, TrueImage
<1>5. Real(source).commitment = <<source.mask, source.amount>>
  BY <1>2 DEF RingUsable, Real
<1> QED
  BY <1>1, <1>4, <1>5 DEF SignedMember, Real, PublicOf, TrueImage, KeyImageOf

LEMMA AcceptedSources ==
    ASSUME TypeInv, HasTx, Readable, Acceptable, NEW source \in Range(Tx.sources)
    PROVE  /\ IsSource(source) /\ source.real < Len(source.ring)
           /\ Recoverable(source) /\ RingUsable(source)
           /\ Real(source).key \in RealKeys
<1>1. /\ Tx \in Range(set.txes) /\ IsSource(source) /\ set \in Sets
      /\ Number \in DOMAIN set.txes /\ Tx = set.txes[Number]
  BY TxShape DEF TypeInv, Tx
<1>2. source.real < Len(source.ring)
  BY <1>1 DEF Readable
<1>3. Recoverable(source) /\ RingUsable(source)
  BY DEF Acceptable, Range
<1>4. Real(source).key # InvalidKey
  BY <1>3 DEF Recoverable
<1>5. Real(source).key \in RealKeys
  BY <1>1, <1>2, <1>4 DEF RealKeys
<1> QED
  BY <1>1, <1>2, <1>3, <1>5

(* The sort finds an order: the inputs are the sources, rearranged, in
   descending order of their images. *)
LEMMA SortArranges ==
    ASSUME TypeInv, HasTx, Readable, Acceptable
    PROVE  \E p \in Bijection(DOMAIN Tx.sources, DOMAIN Tx.sources) :
               /\ SortedInputs(Tx.sources) = [i \in DOMAIN Tx.sources |-> Input(Tx.sources[p[i]])]
               /\ Descending(SortedInputs(Tx.sources))
<1> PICK sources : sources = Tx.sources
  OBVIOUS
<1>1. IsSeq(sources) /\ Len(sources) \in Nat /\ DOMAIN sources = 1 .. Len(sources)
  BY TxShape, SeqShape
<1> PICK n \in Nat : n = Len(sources)
  BY <1>1
<1> DEFINE rank == [i \in 1 .. n |-> ImageRank[Real(sources[i]).key]]
<1>2. \A i \in 1 .. n : /\ Input(sources[i]).image.base = Real(sources[i]).key
                        /\ Real(sources[i]).key \in RealKeys
  <2>1. \A i \in 1 .. n : sources[i] \in Range(sources)
    BY <1>1 DEF Range
  <2> QED
    BY <2>1, AcceptedSources, InputOf
<1>3. rank \in [1 .. n -> Nat]
  BY <1>2, RankAssumption
<1>4. \A i \in 1 .. n : rank[i] = ImageRank[Input(sources[i]).image.base]
  BY <1>2
<1> HIDE DEF rank
<1>5. PICK p : Sorts(p, rank, n)
  BY <1>3, SortExists DEF Sortable
<1>6. /\ p \in Bijection(1 .. n, 1 .. n)
      /\ \A i \in 1 .. n : p[i] \in 1 .. n
      /\ \A i, j \in 1 .. n : i < j => rank[p[i]] >= rank[p[j]]
  BY <1>5 DEF Sorts, Bijection, Injection
<1> PICK s : s = [i \in DOMAIN sources |-> Input(sources[p[i]])]
  OBVIOUS
<1>7. s \in Arrangements(sources)
  BY <1>1, <1>6 DEF Arrangements
<1>8. Descending(s)
  <2>1. \A i \in 1 .. n : ImageRank[s[i].image.base] = rank[p[i]]
    BY <1>1, <1>4, <1>6
  <2>2. DOMAIN s = 1 .. n
    BY <1>1
  <2>3. \A i, j \in 1 .. n :
           i < j => ImageRank[s[i].image.base] >= ImageRank[s[j].image.base]
    BY <1>6, <2>1
  <2> QED
    BY <2>2, <2>3, Zenon DEF Descending
<1>9. SortedInputs(sources) \in Arrangements(sources) /\ Descending(SortedInputs(sources))
  BY <1>7, <1>8 DEF SortedInputs
<1> QED
  BY <1>9 DEF Arrangements

(* What wallets spend: no output twice in one transaction. *)
HasReal(source) == source.real < Len(source.ring)

SourcesDistinct ==
    \A s \in Sets : \A tx \in Range(s.txes) : \A i, j \in DOMAIN tx.sources :
        /\ HasReal(tx.sources[i]) /\ HasReal(tx.sources[j])
        /\ Real(tx.sources[i]).key = Real(tx.sources[j]).key
        => i = j

AlignedWith(sources, inputs) ==
    /\ \A i, j \in DOMAIN inputs :
          i < j => ImageRank[inputs[i].image.base] > ImageRank[inputs[j].image.base]
    /\ \A i \in DOMAIN inputs :
          /\ PublicOf(inputs[i].secret) = SignedMember(inputs[i]).key
          /\ inputs[i].image = TrueImage(SignedMember(inputs[i]).key)
    /\ {SignedMember(inputs[i]).key : i \in DOMAIN inputs} = {Real(s).key : s \in Range(sources)}
    /\ Len(inputs) = Len(sources)

AlignedInv == \A n \in DOMAIN signed : AlignedWith(set.txes[n].sources, signed[n].inputs)

(* A rearranged list has the same members, in other places. *)
LEMMA Rearranged ==
    ASSUME NEW n \in Nat, NEW p \in Bijection(1 .. n, 1 .. n), NEW s, DOMAIN s = 1 .. n
    PROVE  /\ \A i \in 1 .. n : p[i] \in 1 .. n /\ s[p[i]] \in Range(s)
           /\ \A x \in Range(s) : \E i \in 1 .. n : s[p[i]] = x
           /\ \A i, j \in 1 .. n : i # j => p[i] # p[j]
<1>1. /\ \A i \in 1 .. n : p[i] \in 1 .. n
      /\ \A i, j \in 1 .. n : p[i] = p[j] => i = j
      /\ \A t \in 1 .. n : \E i \in 1 .. n : p[i] = t
  BY DEF Bijection, Injection, Surjection, IsInjective
<1>2. /\ \A i \in 1 .. n : s[i] \in Range(s)
      /\ \A x \in Range(s) : \E i \in 1 .. n : s[i] = x
  BY DEF Range
<1>3. ASSUME NEW x \in Range(s) PROVE \E i \in 1 .. n : s[p[i]] = x
  <2>1. PICK t \in 1 .. n : s[t] = x
    BY <1>2
  <2>2. PICK i \in 1 .. n : p[i] = t
    BY <1>1
  <2> QED
    BY <2>1, <2>2
<1>4. \A i \in 1 .. n : p[i] \in 1 .. n /\ s[p[i]] \in Range(s)
  BY <1>1, <1>2
<1>5. \A i, j \in 1 .. n : i # j => p[i] # p[j]
  BY <1>1
<1> QED
  BY <1>3, <1>4, <1>5

LEMMA SortedAligned ==
    ASSUME NEW n \in Nat, NEW p \in Bijection(1 .. n, 1 .. n), NEW sources, DOMAIN sources = 1 .. n,
           Len(sources) = n,
           NEW inputs, inputs = [i \in 1 .. n |-> Input(sources[p[i]])], Descending(inputs),
           \A source \in Range(sources) :
               /\ SignedMember(Input(source)).key = Real(source).key
               /\ PublicOf(Input(source).secret) = Real(source).key
               /\ Input(source).image = TrueImage(Real(source).key)
               /\ Input(source).image.base = Real(source).key
               /\ Real(source).key \in RealKeys,
           \A i, j \in 1 .. n : Real(sources[i]).key = Real(sources[j]).key => i = j
    PROVE  AlignedWith(sources, inputs)
<1> DEFINE key(i) == Real(sources[p[i]]).key
<1>1. /\ \A i \in 1 .. n : p[i] \in 1 .. n /\ sources[p[i]] \in Range(sources)
      /\ \A s \in Range(sources) : \E i \in 1 .. n : sources[p[i]] = s
      /\ \A i, j \in 1 .. n : i # j => p[i] # p[j]
  BY Rearranged
<1>2. \A i \in 1 .. n :
         /\ SignedMember(inputs[i]).key = key(i)
         /\ PublicOf(inputs[i].secret) = key(i)
         /\ inputs[i].image = TrueImage(key(i))
         /\ inputs[i].image.base = key(i)
         /\ key(i) \in RealKeys
  BY <1>1
<1>3. \A i, j \in 1 .. n : i # j => key(i) # key(j)
  BY <1>1
<1>4. {SignedMember(inputs[i]).key : i \in 1 .. n} = {Real(s).key : s \in Range(sources)}
  <2> DEFINE signedFor == {SignedMember(inputs[i]).key : i \in 1 .. n}
             real == {Real(s).key : s \in Range(sources)}
  <2>1. \A i \in 1 .. n : key(i) \in real /\ SignedMember(inputs[i]).key = key(i)
    BY <1>1, <1>2
  <2>2. signedFor \subseteq real
    BY <2>1
  <2>3. ASSUME NEW s \in Range(sources) PROVE Real(s).key \in signedFor
    <3>1. PICK i \in 1 .. n : sources[p[i]] = s
      BY <1>1
    <3> QED
      BY <2>1, <3>1
  <2>4. real \subseteq signedFor
    BY <2>3
  <2> HIDE DEF signedFor, real
  <2>5. signedFor = real
    BY <2>2, <2>4
  <2> QED
    BY <2>5 DEF signedFor, real
<1>5. Len(inputs) = n /\ DOMAIN inputs = 1 .. n
  <2>1. inputs = [i \in 1 .. n |-> inputs[i]]
    OBVIOUS
  <2> QED
    BY <2>1, ListShape
<1>6. \A i, j \in 1 .. n :
         i < j => ImageRank[inputs[i].image.base] >= ImageRank[inputs[j].image.base]
  BY <1>5 DEF Descending
<1> HIDE DEF key
<1>7. ASSUME NEW i \in 1 .. n, NEW j \in 1 .. n, i < j
      PROVE  ImageRank[inputs[i].image.base] > ImageRank[inputs[j].image.base]
  <2>1. key(i) # key(j) /\ key(i) \in RealKeys /\ key(j) \in RealKeys
    BY <1>2, <1>3, <1>7
  <2>2. ImageRank[key(i)] >= ImageRank[key(j)]
    BY <1>2, <1>6, <1>7
  <2>3. ImageRank[key(i)] > ImageRank[key(j)]
    BY <2>1, <2>2, RankAssumption
  <2> QED
    BY <1>2, <2>3
<1> QED
  BY <1>2, <1>4, <1>5, <1>7 DEF AlignedWith

LEMMA SealedAligned ==
    ASSUME SourcesDistinct, TypeInv, WorkInv, Seal
    PROVE  AlignedWith(Tx.sources, Sealed.inputs)
<1>1. Sealed.inputs = SortedInputs(Tx.sources) /\ HasTx /\ Readable /\ Acceptable
  BY AtSeal DEF Sealed
<1>2. /\ DOMAIN Tx.sources = 1 .. Len(Tx.sources) /\ Len(Tx.sources) \in Nat
      /\ Tx \in Range(set.txes) /\ set \in Sets
  BY <1>1, TxShape, SeqShape DEF TypeInv
<1>3. PICK p \in Bijection(1 .. Len(Tx.sources), 1 .. Len(Tx.sources)) :
         /\ Sealed.inputs = [i \in 1 .. Len(Tx.sources) |-> Input(Tx.sources[p[i]])]
         /\ Descending(Sealed.inputs)
  BY <1>1, <1>2, SortArranges
<1>4. \A source \in Range(Tx.sources) :
         /\ SignedMember(Input(source)).key = Real(source).key
         /\ PublicOf(Input(source).secret) = Real(source).key
         /\ Input(source).image = TrueImage(Real(source).key)
         /\ Input(source).image.base = Real(source).key
         /\ Real(source).key \in RealKeys
  BY <1>1, AcceptedSources, InputOf
<1>5. \A i, j \in 1 .. Len(Tx.sources) :
         Real(Tx.sources[i]).key = Real(Tx.sources[j]).key => i = j
  <2>1. \A source \in Range(Tx.sources) : HasReal(source)
    BY <1>1, AcceptedSources DEF HasReal
  <2>2. \A i \in 1 .. Len(Tx.sources) : HasReal(Tx.sources[i])
    BY <1>2, <2>1 DEF Range
  <2> QED
    BY <1>2, <2>2 DEF SourcesDistinct
<1> QED
  BY <1>2, <1>3, <1>4, <1>5, SortedAligned

LEMMA AlignedHolds ==
    ASSUME SourcesDistinct
    PROVE  Spec => []AlignedInv
<1>1. Init => AlignedInv
  BY DEF Init, AlignedInv
<1>2. TypeInv /\ WorkInv /\ AlignedInv /\ [Next]_vars => AlignedInv'
  <2> SUFFICES ASSUME TypeInv, WorkInv, AlignedInv, [Next]_vars PROVE AlignedInv'
    OBVIOUS
  <2> SUFFICES ASSUME NEW n \in DOMAIN signed'
               PROVE  AlignedWith(set.txes[n].sources, signed[n].inputs)'
    BY DEF AlignedInv
  <2>1. PICK record : record = signed'[n] /\ AlignedWith(set.txes[n].sources, record.inputs)
    <3>1. CASE signed' = signed
      BY <3>1 DEF AlignedInv
    <3>2. CASE Seal
      BY <3>2, SealAppends, SealedAligned DEF AlignedInv, Tx
    <3> QED
      BY <3>1, <3>2, Steps
  <2>2. set' = set
    BY Steps
  <2> QED
    BY <2>1, <2>2
<1> QED
  BY <1>1, <1>2, WorkHolds, PTL DEF Spec

(* construct_and_sign, section 1: after the sort by key image every input is
   still signed with the secret of its ring's real member and carries that
   member's image, in the strictly descending order the network demands, and
   the inputs are those requested. *)
THEOREM InputsStayAligned ==
    ASSUME SourcesDistinct
    PROVE  Spec => []InputsAligned
<1>1. AlignedInv => InputsAligned
  BY DEF AlignedInv, AlignedWith, SignedMember, InputsAligned
<1> QED
  BY <1>1, AlignedHolds, PTL

-----------------------------------------------------------------------------
(* What is shown and what is signed *)

(* g lists the amounts of h, a part of a list, in the order of p. *)
PartOf(g, h, p, n, A, B) ==
    /\ n \in Nat /\ Carries(p, 1 .. n, 1 .. n, A, B)
    /\ g \in [A -> Nat] /\ h \in [B -> Nat]
    /\ \A i \in A : g[i] = h[p[i]]

LEMMA PartialSum ==
    ASSUME NEW n, NEW p, NEW A, NEW B, NEW g, NEW h, PartOf(g, h, p, n, A, B)
    PROVE  SumFunction(g) = SumFunction(h)
<1> DEFINE q == [i \in A |-> p[i]]
<1>1. q \in Bijection(A, B)
  BY PartRearranged DEF PartOf
<1>2. IsFiniteSet(A) /\ IsFiniteSet(B)
  <2>1. IsFiniteSet(1 .. n)
    BY FS_Interval DEF PartOf
  <2>2. A \subseteq 1 .. n /\ B \subseteq 1 .. n
    BY DEF PartOf, Carries
  <2> QED
    BY <2>1, <2>2, FS_Subset
<1>3. \A i \in A : q[i] = p[i]
  OBVIOUS
<1> HIDE DEF q
<1>4. Rearranges(g, A, h, B, q)
  BY <1>1, <1>2, <1>3 DEF Rearranges, PartOf
<1> QED
  BY <1>4, SumRearranged

LEMMA WholeSum ==
    ASSUME NEW n \in Nat, NEW p \in Bijection(1 .. n, 1 .. n), NEW f \in [1 .. n -> Nat],
           NEW g \in [1 .. n -> Nat], \A i \in 1 .. n : g[i] = f[p[i]]
    PROVE  SumFunction(g) = SumFunction(f) /\ SumFunction(f) \in Nat
<1>1. IsFiniteSet(1 .. n)
  BY FS_Interval
<1>2. Rearranges(g, 1 .. n, f, 1 .. n, p)
  BY <1>1 DEF Rearranges
<1> QED
  BY <1>2, SumRearranged

(* The outputs of tx are the destinations of the request, rearranged by p. *)
Made(request, tx, n, p) ==
    /\ n \in Nat /\ p \in Bijection(1 .. n, 1 .. n)
    /\ DOMAIN request.dests = 1 .. n /\ DOMAIN tx.outputs = 1 .. n
    /\ \A i \in 1 .. n :
          /\ IsDestination(request.dests[i]) /\ OnCurve(request.dests[i])
          /\ p[i] \in 1 .. n
          /\ tx.outputs[i].key.spend = Spend(request.dests[p[i]])
          /\ tx.outputs[i].amount.value = request.dests[p[i]].amount

Amounts(request) == [i \in DOMAIN request.dests |-> request.dests[i].amount]

Back(request, tx) == {p \in DOMAIN tx.outputs : tx.outputs[p].key.spend = Spend(request.change)}

ChangeAt(request) == {i \in DOMAIN request.dests : SameAddress(request.dests[i], request.change)}

LEMMA MadeShape ==
    ASSUME NEW request, NEW tx, NEW n, NEW p, Made(request, tx, n, p)
    PROVE  /\ n \in Nat /\ p \in Bijection(1 .. n, 1 .. n)
           /\ DOMAIN request.dests = 1 .. n /\ DOMAIN tx.outputs = 1 .. n
           /\ \A i \in 1 .. n : p[i] \in 1 .. n
           /\ \A i \in 1 .. n : IsDestination(request.dests[i]) /\ OnCurve(request.dests[i])
           /\ \A i \in 1 .. n : tx.outputs[i].key.spend = Spend(request.dests[p[i]])
           /\ \A i \in 1 .. n : tx.outputs[i].amount.value = request.dests[p[i]].amount
BY DEF Made

LEMMA AmountsShape ==
    ASSUME NEW request, NEW tx, NEW n, NEW p, Made(request, tx, n, p)
    PROVE  /\ Amounts(request) \in [1 .. n -> Nat]
           /\ \A i \in 1 .. n : Amounts(request)[i] = request.dests[i].amount
           /\ \A i \in 1 .. n : tx.outputs[i].amount.value = Amounts(request)[p[i]]
<1>1. DOMAIN request.dests = 1 .. n /\ \A i \in 1 .. n : request.dests[i].amount \in Nat
  BY MadeShape DEF IsDestination
<1>2. \A i \in 1 .. n : Amounts(request)[i] = request.dests[i].amount
  BY <1>1 DEF Amounts
<1>3. Amounts(request) \in [1 .. n -> Nat]
  BY <1>1 DEF Amounts
<1> QED
  BY <1>2, <1>3, MadeShape

LEMMA ChangeCarried ==
    ASSUME NEW request, NEW tx, NEW n, NEW p, Made(request, tx, n, p)
    PROVE  Carries(p, 1 .. n, 1 .. n, Back(request, tx), ChangeAt(request))
<1>1. /\ DOMAIN request.dests = 1 .. n /\ DOMAIN tx.outputs = 1 .. n
      /\ p \in Bijection(1 .. n, 1 .. n)
      /\ \A i \in 1 .. n : p[i] \in 1 .. n /\ tx.outputs[i].key.spend = Spend(request.dests[p[i]])
  BY DEF Made
<1>2. \A i \in 1 .. n : i \in Back(request, tx) <=> p[i] \in ChangeAt(request)
  BY <1>1, AddressNames DEF Back, ChangeAt
<1>3. Back(request, tx) \subseteq 1 .. n /\ ChangeAt(request) \subseteq 1 .. n
  BY <1>1 DEF Back, ChangeAt
<1> QED
  BY <1>1, <1>2, <1>3 DEF Carries

LEMMA ChangeShown ==
    ASSUME NEW request, NEW tx, NEW n, NEW p, Made(request, tx, n, p)
    PROVE  SumFunction([i \in Back(request, tx) |-> tx.outputs[i].amount.value])
             = SumFunction([i \in ChangeAt(request) |-> request.dests[i].amount])
<1>1. PICK f \in [1 .. n -> Nat] :
         /\ \A i \in 1 .. n : f[i] = request.dests[i].amount
         /\ \A i \in 1 .. n : tx.outputs[i].amount.value = f[p[i]]
  BY AmountsShape
<1>2. PICK A, B : A = Back(request, tx) /\ B = ChangeAt(request)
  OBVIOUS
<1>3. Carries(p, 1 .. n, 1 .. n, A, B) /\ n \in Nat
  BY <1>2, ChangeCarried, MadeShape
<1>4. A \subseteq 1 .. n /\ B \subseteq 1 .. n /\ \A i \in A : p[i] \in 1 .. n
  BY <1>3, MadeShape DEF Carries
<1>5. PICK g : g = [i \in A |-> tx.outputs[i].amount.value]
  OBVIOUS
<1>6. PICK h : h = [i \in B |-> request.dests[i].amount]
  OBVIOUS
<1>7. g \in [A -> Nat] /\ \A i \in A : g[i] = f[p[i]]
  BY <1>1, <1>4, <1>5
<1>8. h \in [B -> Nat] /\ \A i \in B : h[i] = f[i]
  BY <1>1, <1>4, <1>6
<1>9. \A i \in A : p[i] \in B
  BY <1>3, <1>4 DEF Carries
<1>10. PartOf(g, h, p, n, A, B)
  BY <1>3, <1>7, <1>8, <1>9 DEF PartOf
<1>11. SumFunction(g) = SumFunction(h)
  BY <1>10, PartialSum
<1> QED
  BY <1>2, <1>5, <1>6, <1>11

LEMMA PaidShown ==
    ASSUME NEW request, NEW tx, NEW n, NEW p, Made(request, tx, n, p)
    PROVE  /\ SumFunction([i \in DOMAIN tx.outputs |-> tx.outputs[i].amount.value])
                = SumFunction(Amounts(request))
           /\ SumFunction(Amounts(request)) \in Nat
<1>1. PICK f : f = Amounts(request) /\ f \in [1 .. n -> Nat]
  BY AmountsShape
<1>2. \A i \in 1 .. n : tx.outputs[i].amount.value = f[p[i]] /\ p[i] \in 1 .. n
  BY <1>1, AmountsShape, MadeShape
<1>3. n \in Nat /\ p \in Bijection(1 .. n, 1 .. n) /\ DOMAIN tx.outputs = 1 .. n
  BY MadeShape
<1>4. PICK g : g = [i \in 1 .. n |-> tx.outputs[i].amount.value]
  OBVIOUS
<1>5. g \in [1 .. n -> Nat] /\ \A i \in 1 .. n : g[i] = f[p[i]]
  BY <1>1, <1>2, <1>4
<1>6. SumFunction(g) = SumFunction(f) /\ SumFunction(f) \in Nat
  BY <1>1, <1>3, <1>5, WholeSum
<1> QED
  BY <1>1, <1>3, <1>4, <1>6

(* An output pays what is shown when it has the address's spend key and the
   amount. *)
LEMMA PaymentsShown ==
    ASSUME NEW request, NEW tx, NEW n, NEW p, Made(request, tx, n, p),
           NEW c \in 1 .. n, ~SameAddress(request.dests[c], request.change)
    PROVE  Cardinality({i \in DOMAIN tx.outputs \ Back(request, tx) :
                          /\ tx.outputs[i].key.spend = Spend(request.dests[c])
                          /\ tx.outputs[i].amount.value = request.dests[c].amount})
             = Cardinality({i \in DOMAIN request.dests \ ChangeAt(request) :
                              /\ Spend(request.dests[i]) = Spend(request.dests[c])
                              /\ request.dests[i].amount = request.dests[c].amount})
<1> PICK d : d = request.dests[c]
  OBVIOUS
<1> DEFINE A == {i \in DOMAIN tx.outputs \ Back(request, tx) :
                    /\ tx.outputs[i].key.spend = Spend(d)
                    /\ tx.outputs[i].amount.value = d.amount}
           B == {i \in DOMAIN request.dests \ ChangeAt(request) :
                    /\ Spend(request.dests[i]) = Spend(d)
                    /\ request.dests[i].amount = d.amount}
<1>1. /\ DOMAIN request.dests = 1 .. n /\ DOMAIN tx.outputs = 1 .. n /\ n \in Nat
      /\ p \in Bijection(1 .. n, 1 .. n)
      /\ \A i \in 1 .. n : p[i] \in 1 .. n /\ OnCurve(request.dests[i])
      /\ \A i \in 1 .. n : tx.outputs[i].key.spend = Spend(request.dests[p[i]])
      /\ \A i \in 1 .. n : tx.outputs[i].amount.value = request.dests[p[i]].amount
  BY DEF Made
<1>2. \A i \in 1 .. n : i \in Back(request, tx) <=> p[i] \in ChangeAt(request)
  BY ChangeCarried DEF Carries
<1>4. A \subseteq 1 .. n /\ B \subseteq 1 .. n
  BY <1>1
<1>5. \A i \in 1 .. n : i \in A <=> p[i] \in B
  BY <1>1, <1>2
<1> HIDE DEF A, B
<1>6. Carries(p, 1 .. n, 1 .. n, A, B)
  BY <1>1, <1>4, <1>5 DEF Carries
<1>7. IsFiniteSet(1 .. n)
  BY <1>1, FS_Interval
<1>8. Cardinality(A) = Cardinality(B)
  BY <1>6, <1>7, CountRearranged
<1> QED
  BY <1>8 DEF A, B

(* The amounts the rings commit to are those of the sources. *)
SourceAmounts(sources) == [i \in DOMAIN sources |-> sources[i].amount]

Spends(inputs, sources, n, p) ==
    /\ n \in Nat /\ p \in Bijection(1 .. n, 1 .. n)
    /\ DOMAIN sources = 1 .. n /\ DOMAIN inputs = 1 .. n
    /\ \A i \in 1 .. n : inputs[i] = Input(sources[p[i]])
    /\ \A source \in Range(sources) :
          /\ SignedMember(Input(source)).commitment = <<source.mask, source.amount>>
          /\ source.amount \in Nat

LEMMA SpentShown ==
    ASSUME NEW n, NEW p, NEW sources, NEW inputs, Spends(inputs, sources, n, p)
    PROVE  /\ SumFunction([i \in DOMAIN inputs |-> SignedMember(inputs[i]).commitment[2]])
                = SumFunction(SourceAmounts(sources))
           /\ SumFunction(SourceAmounts(sources)) \in Nat
<1> USE DEF Spends
<1>1. /\ \A i \in 1 .. n : p[i] \in 1 .. n /\ sources[p[i]] \in Range(sources)
      /\ \A i \in 1 .. n : sources[i] \in Range(sources)
  <2>1. \A i \in 1 .. n : p[i] \in 1 .. n /\ sources[p[i]] \in Range(sources)
    BY Rearranged
  <2>2. \A i \in 1 .. n : sources[i] \in Range(sources)
    BY DEF Range
  <2> QED
    BY <2>1, <2>2
<1>2. PICK f : f = SourceAmounts(sources)
  OBVIOUS
<1>3. f \in [1 .. n -> Nat] /\ \A i \in 1 .. n : f[i] = sources[i].amount
  BY <1>1, <1>2 DEF SourceAmounts
<1>4. \A i \in 1 .. n : SignedMember(inputs[i]).commitment[2] = f[p[i]]
  <2>1. \A source \in Range(sources) : SignedMember(Input(source)).commitment[2] = source.amount
    OBVIOUS
  <2> QED
    BY <1>1, <1>3, <2>1
<1>5. PICK g : g = [i \in 1 .. n |-> SignedMember(inputs[i]).commitment[2]]
  OBVIOUS
<1>6. g \in [1 .. n -> Nat] /\ \A i \in 1 .. n : g[i] = f[p[i]]
  BY <1>1, <1>3, <1>4, <1>5
<1> HIDE DEF Spends
<1>7. SumFunction(g) = SumFunction(f) /\ SumFunction(f) \in Nat
  BY <1>3, <1>6, WholeSum DEF Spends
<1>8. DOMAIN inputs = 1 .. n
  BY DEF Spends
<1> QED
  BY <1>2, <1>5, <1>7, <1>8

LEMMA SealedSpent ==
    ASSUME TypeInv, WorkInv, Seal
    PROVE  /\ SumFunction([i \in DOMAIN Sealed.inputs |->
                             SignedMember(Sealed.inputs[i]).commitment[2]])
                = SumFunction(SourceAmounts(Tx.sources))
           /\ SumFunction(SourceAmounts(Tx.sources)) \in Nat
<1>1. Sealed.inputs = SortedInputs(Tx.sources) /\ HasTx /\ Readable /\ Acceptable
  BY AtSeal DEF Sealed
<1>2. DOMAIN Tx.sources = 1 .. Len(Tx.sources) /\ Len(Tx.sources) \in Nat
  BY <1>1, TxShape, SeqShape
<1>3. PICK p \in Bijection(1 .. Len(Tx.sources), 1 .. Len(Tx.sources)) :
         Sealed.inputs = [i \in 1 .. Len(Tx.sources) |-> Input(Tx.sources[p[i]])]
  BY <1>1, <1>2, SortArranges
<1>4. \A source \in Range(Tx.sources) :
         /\ SignedMember(Input(source)).commitment = <<source.mask, source.amount>>
         /\ source.amount \in Nat
  BY <1>1, AcceptedSources, InputOf
<1>5. /\ DOMAIN Sealed.inputs = 1 .. Len(Tx.sources)
      /\ \A i \in 1 .. Len(Tx.sources) : Sealed.inputs[i] = Input(Tx.sources[p[i]])
  BY <1>3
<1>6. Spends(Sealed.inputs, Tx.sources, Len(Tx.sources), p)
  BY <1>2, <1>4, <1>5 DEF Spends
<1> QED
  BY <1>6, SpentShown

LEMMA SealedMade ==
    ASSUME TypeInv, WorkInv, Seal
    PROVE  /\ \E n, p : Made(Tx, Sealed, n, p)
           /\ DOMAIN Sealed.outputs = DOMAIN dests
           /\ \A i \in DOMAIN dests : Sealed.outputs[i].amount.value = dests[i].amount
<1>1. /\ HasTx /\ Shuffled
      /\ Sealed.outputs = [i \in DOMAIN dests |-> Output(i)]
      /\ \A d \in Range(Tx.dests) : OnCurve(d)
  BY AtSeal DEF Sealed
<1>2. /\ \A i : Output(i).key.spend = Spend(dests[i])
      /\ \A i : Output(i).amount.value = dests[i].amount
  BY DEF Output, OneTimePublic
<1>3. /\ DOMAIN Tx.dests = 1 .. Len(Tx.dests) /\ Len(Tx.dests) \in Nat
      /\ \A d \in Range(Tx.dests) : IsDestination(d)
  BY <1>1, TxShape, SeqShape
<1>4. PICK p \in Bijection(1 .. Len(Tx.dests), 1 .. Len(Tx.dests)) :
         dests = [i \in 1 .. Len(Tx.dests) |-> Tx.dests[p[i]]]
  BY <1>1, <1>3 DEF Shuffled
<1>5. \A i \in 1 .. Len(Tx.dests) :
         p[i] \in 1 .. Len(Tx.dests) /\ dests[i] = Tx.dests[p[i]]
  BY <1>3, <1>4, Rearranged
<1>6. \A i \in 1 .. Len(Tx.dests) : IsDestination(Tx.dests[i]) /\ OnCurve(Tx.dests[i])
  BY <1>1, <1>3 DEF Range
<1>7. DOMAIN dests = 1 .. Len(Tx.dests)
  BY <1>4
<1>8. Made(Tx, Sealed, Len(Tx.dests), p)
  <2>1. DOMAIN Sealed.outputs = 1 .. Len(Tx.dests)
    BY <1>1, <1>7
  <2>2. \A i \in 1 .. Len(Tx.dests) :
           /\ Sealed.outputs[i].key.spend = Spend(Tx.dests[p[i]])
           /\ Sealed.outputs[i].amount.value = Tx.dests[p[i]].amount
    BY <1>1, <1>2, <1>5, <1>7
  <2> QED
    BY <1>3, <1>5, <1>6, <2>1, <2>2 DEF Made
<1> QED
  BY <1>1, <1>2, <1>8

ShownAs(request, tx) ==
    LET back == Back(request, tx)
        value(p) == tx.outputs[p].amount.value
        committed(i) == SignedMember(tx.inputs[i]).commitment[2]
        shown == Summary(request).payments
    IN  /\ tx.fee = Summary(request).fee
        /\ SumFunction([p \in back |-> value(p)]) % AmountLimit = Summary(request).change
        /\ \A payment \in Range(shown) :
              /\ payment.to # None
              /\ Cardinality({p \in DOMAIN tx.outputs \ back :
                    tx.outputs[p].key.spend = payment.to.spend /\ value(p) = payment.amount})
                 = Cardinality({i \in DOMAIN shown :
                       shown[i].to.spend = payment.to.spend /\ shown[i].amount = payment.amount})
        /\ LET spent == SumFunction([i \in DOMAIN tx.inputs |-> committed(i)])
               paid == SumFunction([p \in DOMAIN tx.outputs |-> value(p)])
           IN  /\ spent % AmountLimit = (paid + tx.fee) % AmountLimit
               /\ spent < AmountLimit /\ paid < AmountLimit => spent = paid + tx.fee

ShownInv == \A n \in DOMAIN signed : ShownAs(set.txes[n], signed[n])

LEMMA SealedShown ==
    ASSUME TypeInv, WorkInv, Seal
    PROVE  ShownAs(Tx, Sealed)
<1>1. PICK n, p : Made(Tx, Sealed, n, p)
  BY SealedMade
<1> DEFINE spent == SumFunction([i \in DOMAIN Sealed.inputs |->
                                   SignedMember(Sealed.inputs[i]).commitment[2]])
           paid == SumFunction([i \in DOMAIN Sealed.outputs |-> Sealed.outputs[i].amount.value])
<1>2. /\ spent = SumFunction(SourceAmounts(Tx.sources)) /\ spent \in Nat
  BY SealedSpent
<1>3. paid = SumFunction(Amounts(Tx)) /\ paid \in Nat
  BY <1>1, PaidShown
<1>4. paid = SumFunction([i \in DOMAIN dests |-> dests[i].amount])
  <2>1. [i \in DOMAIN Sealed.outputs |-> Sealed.outputs[i].amount.value]
          = [i \in DOMAIN dests |-> dests[i].amount]
    BY SealedMade
  <2> QED
    BY <2>1
<1> HIDE DEF spent, paid
<1>5. /\ Total(Tx.sources) = spent % AmountLimit
      /\ Total(Tx.dests) = paid % AmountLimit
      /\ Total(dests) = paid % AmountLimit
  BY <1>2, <1>3, <1>4 DEF Total, SourceAmounts, Amounts
<1>6. /\ paid % AmountLimit <= spent % AmountLimit
      /\ Sealed.fee = (spent % AmountLimit) - (paid % AmountLimit)
      /\ AmountLimit \in Nat \ {0}
  BY <1>5, AtSeal, WidthAssumption DEF Balanced, Sealed
<1>7. Sealed.fee = Summary(Tx).fee
  <2>1. Summary(Tx).fee = IF Total(Tx.sources) < Total(Tx.dests) THEN 0
                          ELSE Total(Tx.sources) - Total(Tx.dests)
    BY DEF Summary
  <2>2. spent % AmountLimit \in 0 .. AmountLimit - 1 /\ paid % AmountLimit \in 0 .. AmountLimit - 1
    BY <1>2, <1>3, <1>6, ModIs
  <2> QED
    BY <1>5, <1>6, <2>1, <2>2
<1>8. SumFunction([i \in Back(Tx, Sealed) |-> Sealed.outputs[i].amount.value]) % AmountLimit
        = Summary(Tx).change
  <2>1. Summary(Tx).change
          = SumFunction([i \in ChangeAt(Tx) |-> Tx.dests[i].amount]) % AmountLimit
    BY DEF Summary, ChangeAt
  <2> QED
    BY <1>1, <2>1, ChangeShown
<1> DEFINE shown == Summary(Tx).payments
<1>9. shown = [i \in DOMAIN Tx.dests \ ChangeAt(Tx) |->
                  [to |-> DestinationAddress(Tx.dests[i]), amount |-> Tx.dests[i].amount]]
  BY DEF Summary, ChangeAt
<1>10. ASSUME NEW payment \in Range(shown)
       PROVE  /\ payment.to # None
              /\ Cardinality({i \in DOMAIN Sealed.outputs \ Back(Tx, Sealed) :
                    /\ Sealed.outputs[i].key.spend = payment.to.spend
                    /\ Sealed.outputs[i].amount.value = payment.amount})
                 = Cardinality({i \in DOMAIN shown :
                       shown[i].to.spend = payment.to.spend /\ shown[i].amount = payment.amount})
  <2>1. PICK c \in DOMAIN Tx.dests \ ChangeAt(Tx) :
           payment = [to |-> DestinationAddress(Tx.dests[c]), amount |-> Tx.dests[c].amount]
    BY <1>9 DEF Range
  <2>2. c \in 1 .. n /\ ~SameAddress(Tx.dests[c], Tx.change) /\ OnCurve(Tx.dests[c])
    BY <1>1, <2>1, MadeShape DEF ChangeAt
  <2>3. payment.to = DestinationAddress(Tx.dests[c]) /\ payment.amount = Tx.dests[c].amount
    BY <2>1
  <2>4. payment.to.spend = Spend(Tx.dests[c])
    BY <2>2, <2>3 DEF DestinationAddress
  <2>5. payment.to # None
    <3>1. Tx.dests[c] \in Range(Tx.dests)
      BY <2>1 DEF Range
    <3>2. Tx \in Range(set.txes) /\ set \in Sets
      BY AtSeal, TxShape DEF TypeInv
    <3> QED
      BY <2>2, <2>3, <3>1, <3>2, NoneAssumption
  <2>6. {i \in DOMAIN shown :
            shown[i].to.spend = payment.to.spend /\ shown[i].amount = payment.amount}
          = {i \in DOMAIN Tx.dests \ ChangeAt(Tx) :
                /\ Spend(Tx.dests[i]) = Spend(Tx.dests[c])
                /\ Tx.dests[i].amount = Tx.dests[c].amount}
    <3>1. DOMAIN shown = DOMAIN Tx.dests \ ChangeAt(Tx)
      BY <1>9
    <3>2. \A i \in DOMAIN shown :
             /\ shown[i].to = DestinationAddress(Tx.dests[i])
             /\ shown[i].amount = Tx.dests[i].amount
      BY <1>9
    <3>3. \A i \in DOMAIN shown : OnCurve(Tx.dests[i])
      BY <1>1, <3>1, MadeShape
    <3>4. \A i \in DOMAIN shown : shown[i].to.spend = Spend(Tx.dests[i])
      <4>1. \A d : OnCurve(d) => DestinationAddress(d).spend = Spend(d)
        BY DEF DestinationAddress
      <4> HIDE DEF shown
      <4> QED
        BY <3>2, <3>3, <4>1
    <3> HIDE DEF shown
    <3> QED
      BY <2>3, <2>4, <3>1, <3>2, <3>4
  <2>7. {i \in DOMAIN Sealed.outputs \ Back(Tx, Sealed) :
           /\ Sealed.outputs[i].key.spend = payment.to.spend
           /\ Sealed.outputs[i].amount.value = payment.amount}
         = {i \in DOMAIN Sealed.outputs \ Back(Tx, Sealed) :
              /\ Sealed.outputs[i].key.spend = Spend(Tx.dests[c])
              /\ Sealed.outputs[i].amount.value = Tx.dests[c].amount}
    BY <2>3, <2>4
  <2> QED
    BY <1>1, <2>2, <2>5, <2>6, <2>7, PaymentsShown
<1>11. /\ spent % AmountLimit = (paid + Sealed.fee) % AmountLimit
       /\ spent < AmountLimit /\ paid < AmountLimit => spent = paid + Sealed.fee
  <2>1. /\ spent % AmountLimit
             = (paid + ((spent % AmountLimit) - (paid % AmountLimit))) % AmountLimit
        /\ spent < AmountLimit /\ paid < AmountLimit =>
              spent = paid + ((spent % AmountLimit) - (paid % AmountLimit))
    BY <1>2, <1>3, <1>6, ChangeOfModulus
  <2> QED
    BY <1>6, <2>1
<1> HIDE DEF shown
<1> QED
  BY <1>7, <1>8, <1>10, <1>11 DEF ShownAs, spent, paid, shown

LEMMA ShownHolds == Spec => []ShownInv
<1>1. Init => ShownInv
  BY DEF Init, ShownInv
<1>2. TypeInv /\ WorkInv /\ ShownInv /\ [Next]_vars => ShownInv'
  <2> SUFFICES ASSUME TypeInv, WorkInv, ShownInv, [Next]_vars PROVE ShownInv'
    OBVIOUS
  <2> SUFFICES ASSUME NEW n \in DOMAIN signed' PROVE ShownAs(set.txes[n], signed[n])'
    BY DEF ShownInv
  <2>1. PICK record : record = signed'[n] /\ ShownAs(set.txes[n], record)
    <3>1. CASE signed' = signed
      BY <3>1 DEF ShownInv
    <3>2. CASE Seal
      BY <3>2, SealAppends, SealedShown DEF ShownInv, Tx
    <3> QED
      BY <3>1, <3>2, Steps
  <2>2. set' = set
    BY Steps
  <2> QED
    BY <2>1, <2>2
<1> QED
  BY <1>1, <1>2, WorkHolds, PTL DEF Spec

(* summarize, construct_and_sign: what the screen shows is what is signed,
   the sums wrapping alike on both sides, and what the rings commit to pays
   for the outputs and the fee. *)
THEOREM SignedAsShown == Spec => []ShownIsSigned
<1>1. ShownInv => ShownIsSigned
  BY DEF ShownInv, ShownAs, ShownIsSigned, Back, SignedMember
<1> QED
  BY <1>1, ShownHolds, PTL

-----------------------------------------------------------------------------
(* What is signed and what is refused *)

(* The parts of Signable, in the order the run comes to them. *)
SourceSignable(s) ==
    /\ OwnedSource(s)
    /\ Len(s.ring) < ByteLimit
    /\ s.mask < ScalarLimit /\ Real(s).commitment = <<s.mask, s.amount>>
    /\ \A j \in DOMAIN s.ring : IsMember(s.ring[j])
    /\ \A j, k \in DOMAIN s.ring : j < k => s.ring[j].global <= s.ring[k].global

InputsSignable(tx) ==
    tx.supported /\ tx.sources # <<>> /\ \A s \in Range(tx.sources) : SourceSignable(s)

Paid(tx) == {d \in Range(tx.dests) : d.amount # 0 /\ ~SameAddress(d, tx.change)}

NonceSignable(tx) ==
    /\ tx.nonce # "unreadable"
    /\ tx.nonce = "short" =>
          /\ \A d, e \in Paid(tx) : SameAddress(d, e)
          /\ Paid(tx) = {} => OnCurve(tx.change)

OutputsSignable(tx) == \A d \in Range(tx.dests) : OnCurve(d)

Affordable(tx) ==
    Len(tx.dests) \in 1 .. MaxOutputs /\ Total(tx.dests) <= Total(tx.sources)

LEMMA SignableParts ==
    \A tx : Signable(tx) <=>
        InputsSignable(tx) /\ NonceSignable(tx) /\ OutputsSignable(tx) /\ Affordable(tx)
BY DEF Signable, InputsSignable, SourceSignable, NonceSignable, Paid, OutputsSignable, Affordable

(* A ring whose neighbours are in order is in order. *)
LEMMA SortedThroughout ==
    ASSUME NEW n \in Nat, NEW g \in [1 .. n -> Nat]
    PROVE  (\A j \in 1 .. n - 1 : g[j] <= g[j + 1])
             <=> (\A j, k \in 1 .. n : j < k => g[j] <= g[k])
<1>1. ASSUME \A j, k \in 1 .. n : j < k => g[j] <= g[k], NEW j \in 1 .. n - 1
      PROVE  g[j] <= g[j + 1]
  <2>1. j \in 1 .. n /\ j + 1 \in 1 .. n /\ j < j + 1
    OBVIOUS
  <2> QED
    BY <1>1, <2>1
<1>2. ASSUME \A j \in 1 .. n - 1 : g[j] <= g[j + 1]
      PROVE  \A j, k \in 1 .. n : j < k => g[j] <= g[k]
  <2> DEFINE Bad == {k \in 1 .. n : \E j \in 1 .. n : j < k /\ ~(g[j] <= g[k])}
  <2>1. SUFFICES ASSUME Bad # {} PROVE FALSE
    OBVIOUS
  <2>2. Bad \subseteq Nat
    OBVIOUS
  <2>3. PICK k \in Bad : \A l \in Bad : k <= l
    <3> HIDE DEF Bad
    <3> QED
      BY <2>1, <2>2, LeastExists
  <2>4. PICK j \in 1 .. n : j < k /\ ~(g[j] <= g[k])
    OBVIOUS
  <2>5. k - 1 \in 1 .. n - 1 /\ k - 1 \in 1 .. n /\ k \in 1 .. n /\ (k - 1) + 1 = k /\ k - 1 \notin Bad
    BY <2>3, <2>4
  <2>6. g[k - 1] <= g[k]
    BY <1>2, <2>5
  <2>7. g[j] <= g[k - 1]
    <3>1. j < k - 1 => g[j] <= g[k - 1]
      BY <2>5
    <3>2. j = k - 1 \/ j < k - 1
      BY <2>4, <2>5
    <3> QED
      BY <3>1, <3>2, <2>5
  <2>8. g[j] \in Nat /\ g[k] \in Nat /\ g[k - 1] \in Nat
    BY <2>5
  <2> QED
    BY <2>4, <2>6, <2>7, <2>8
<1> QED
  BY <1>1, <1>2

(* spent_key: a match is the derivation the output key was made with. *)
LEMMA MatchNames ==
    ASSUME TypeInv, NEW s, NEW d \in SpentMatches(s)
    PROVE  /\ d = Real(s).key.derivation
           /\ \E key \in Range(Candidates(s.txKey, s.additional, s.position)) \ {NotAPoint} :
                 d = Derivation(ViewSecret(Account), key)
           /\ Lookup(SpendCandidate(Real(s).key, d, s.position)) \in Reachable
<1> PICK found : found = SpendCandidate(Real(s).key, d, s.position)
  OBVIOUS
<1>1. /\ Lookup(found) # NoIndex
      /\ \E key \in Range(Candidates(s.txKey, s.additional, s.position)) \ {NotAPoint} :
            d = Derivation(ViewSecret(Account), key)
  BY DEF SpentMatches
<1>2. Lookup(found) \in Reachable /\ SpendPublic(Account, Lookup(found)) = found
  BY <1>1, LookupFinds
<1>3. found # Stray
  BY <1>2, StrayIsNoSpend
<1>4. Real(s).key.derivation = d
  BY <1>3 DEF SpendCandidate
<1> QED
  BY <1>1, <1>2, <1>4

LEMMA RecoverableIsOwned ==
    ASSUME TypeInv, NEW s
    PROVE  Recoverable(s) <=> OwnedSource(s)
<1> DEFINE keys == Range(Candidates(s.txKey, s.additional, s.position)) \ {NotAPoint}
<1>1. ASSUME Recoverable(s)
      PROVE  OwnedSource(s)
  <2> PICK d : d = CHOOSE e \in SpentMatches(s) : TRUE
    OBVIOUS
  <2>1. d \in SpentMatches(s)
    BY <1>1 DEF Recoverable
  <2> PICK i : i = Lookup(SpendCandidate(Real(s).key, d, s.position))
    OBVIOUS
  <2>2. i \in Reachable /\ \E key \in keys : d = Derivation(ViewSecret(Account), key)
    BY <2>1, MatchNames
  <2>3. SpentSecret(s) = OneTimePublic(d, s.position, SpendPublic(Account, i))
    BY DEF SpentSecret, OneTimeSecret
  <2>4. Real(s).key = OneTimePublic(d, s.position, SpendPublic(Account, i)) /\ Real(s).key # InvalidKey
    BY <1>1, <2>3 DEF Recoverable, PublicOf
  <2> QED
    BY <2>2, <2>4 DEF OwnedSource
<1>2. ASSUME OwnedSource(s)
      PROVE  Recoverable(s)
  <2>1. PICK key \in keys, i \in Reachable :
           Real(s).key = OneTimePublic(Derivation(ViewSecret(Account), key), s.position,
                                       SpendPublic(Account, i))
    BY <1>2 DEF OwnedSource
  <2> PICK d : d = Derivation(ViewSecret(Account), key)
    OBVIOUS
  <2>2. /\ Real(s).key.derivation = d
        /\ SpendCandidate(Real(s).key, d, s.position) = SpendPublic(Account, i)
    BY <2>1 DEF OneTimePublic, SpendCandidate
  <2>3. Lookup(SpendPublic(Account, i)) = i /\ i # NoIndex
    BY LookupFinds, ReachableIndices
  <2>4. d \in SpentMatches(s)
    BY <2>2, <2>3 DEF SpentMatches
  <2>5. (CHOOSE e \in SpentMatches(s) : TRUE) = d
    BY <2>2, <2>4, MatchNames
  <2>6. SpentSecret(s) = Real(s).key
    BY <2>1, <2>2, <2>3, <2>5 DEF SpentSecret, OneTimeSecret
  <2> QED
    BY <1>2, <2>4, <2>6 DEF Recoverable, OwnedSource, PublicOf
<1> QED
  BY <1>1, <1>2

LEMMA UsableIsSignable ==
    ASSUME TypeInv, NEW s, IsSource(s), s.real < Len(s.ring)
    PROVE  Recoverable(s) /\ RingUsable(s) <=> SourceSignable(s)
<1>1. /\ Len(s.ring) \in Nat /\ DOMAIN s.ring = 1 .. Len(s.ring) /\ s.real \in Nat
      /\ \A j \in DOMAIN s.ring : s.ring[j].global \in Nat
      /\ ByteLimit \in Nat \ {0}
  BY SeqShape, WidthAssumption DEF IsSource
<1> DEFINE inOrder == \A j \in 1 .. Len(s.ring) - 1 : s.ring[j].global <= s.ring[j + 1].global
           sorted == \A j, k \in DOMAIN s.ring : j < k => s.ring[j].global <= s.ring[k].global
<1>2. inOrder <=> sorted
  <2> DEFINE g == [j \in 1 .. Len(s.ring) |-> s.ring[j].global]
  <2>1. g \in [1 .. Len(s.ring) -> Nat] /\ \A j \in 1 .. Len(s.ring) : g[j] = s.ring[j].global
    BY <1>1
  <2> HIDE DEF g
  <2>2. (\A j \in 1 .. Len(s.ring) - 1 : g[j] <= g[j + 1])
          <=> (\A j, k \in 1 .. Len(s.ring) : j < k => g[j] <= g[k])
    BY <1>1, <2>1, SortedThroughout
  <2>3. \A j \in 1 .. Len(s.ring) - 1 : j \in 1 .. Len(s.ring) /\ j + 1 \in 1 .. Len(s.ring)
    BY <1>1
  <2>4. inOrder <=> \A j \in 1 .. Len(s.ring) - 1 : g[j] <= g[j + 1]
    BY <2>1, <2>3
  <2>5. sorted <=> \A j, k \in 1 .. Len(s.ring) : j < k => g[j] <= g[k]
    BY <1>1, <2>1
  <2> QED
    BY <2>2, <2>4, <2>5
<1>3. Len(s.ring) < ByteLimit => s.ring[Signer(s) + 1] = Real(s)
  <2> SUFFICES ASSUME Len(s.ring) < ByteLimit PROVE Signer(s) = s.real
    BY DEF Real
  <2>1. s.real < ByteLimit
    BY <1>1
  <2> QED
    BY <1>1, <2>1, ModIs DEF Signer
<1>4. RingUsable(s) <=>
         /\ \A j \in DOMAIN s.ring : IsMember(s.ring[j])
         /\ inOrder
         /\ Len(s.ring) < ByteLimit
         /\ s.mask < ScalarLimit
         /\ s.ring[Signer(s) + 1].commitment = <<s.mask, s.amount>>
  BY DEF RingUsable
<1>5. SourceSignable(s) <=>
         /\ OwnedSource(s)
         /\ Len(s.ring) < ByteLimit
         /\ s.mask < ScalarLimit /\ Real(s).commitment = <<s.mask, s.amount>>
         /\ \A j \in DOMAIN s.ring : IsMember(s.ring[j])
         /\ sorted
  BY DEF SourceSignable
<1> HIDE DEF inOrder, sorted
<1> QED
  BY <1>2, <1>3, <1>4, <1>5, RecoverableIsOwned

LEMMA AcceptableIsSignable ==
    ASSUME TypeInv, HasTx, Readable
    PROVE  Acceptable <=> InputsSignable(Tx)
<1>1. /\ Number \in DOMAIN set.txes /\ Tx = set.txes[Number]
      /\ \A s \in Range(Tx.sources) : IsSource(s)
  BY TxShape DEF Tx
<1>2. \A s \in Range(Tx.sources) : s.real < Len(s.ring)
  BY <1>1 DEF Readable
<1>3. \A s \in Range(Tx.sources) : Recoverable(s) /\ RingUsable(s) <=> SourceSignable(s)
  BY <1>1, <1>2, UsableIsSignable
<1>4. (\A i \in DOMAIN Tx.sources : Recoverable(Tx.sources[i]) /\ RingUsable(Tx.sources[i]))
        <=> \A s \in Range(Tx.sources) : Recoverable(s) /\ RingUsable(s)
  BY DEF Range
<1> QED
  BY <1>3, <1>4 DEF Acceptable, InputsSignable

(* A payment id finds its reader exactly when the payees share an address. *)
LEMMA NonceIsSignable ==
    ASSUME TypeInv, HasTx, Shuffled
    PROVE  /\ ~NonceError => NonceSignable(Tx)
           /\ NonceSignable(Tx) /\ OutputsSignable(Tx) => ~NonceError
<1>1. /\ Range(dests) = Range(Tx.dests) /\ IsFiniteSet(Range(dests))
      /\ Tx \in Range(set.txes) /\ set \in Sets
  BY ShuffleShape, TxShape DEF TypeInv
<1> DEFINE paid == {Address(d) : d \in Paid(Tx)}
<1>2. NoncePayee = IF paid = {} THEN Address(Tx.change)
                   ELSE IF Cardinality(paid) = 1 THEN CHOOSE d \in paid : TRUE
                   ELSE None
  BY <1>1 DEF NoncePayee, Paid, IsChange
<1>3. IsFiniteSet(paid)
  <2> DEFINE read == [d \in Paid(Tx) |-> Address(d)]
  <2>1. IsFiniteSet(Paid(Tx))
    BY <1>1, FS_Subset DEF Paid
  <2>2. read \in Surjection(Paid(Tx), paid)
    BY DEF Surjection
  <2> QED
    BY <2>1, <2>2, FS_Surjection
<1>4. paid = {} <=> Paid(Tx) = {}
  OBVIOUS
<1>5. \A d, e \in Paid(Tx) : Address(d) = Address(e) <=> SameAddress(d, e)
  BY AddressNames
<1>6. \A d \in Paid(Tx) : Address(d) \in paid
  OBVIOUS
<1>7. \A x \in paid : \E d \in Paid(Tx) : x = Address(d)
  OBVIOUS
<1> HIDE DEF paid
<1>8. /\ None # Address(Tx.change)
      /\ \A d \in Range(Tx.dests) : None # Address(d)
  BY <1>1, NoneAssumption
<1>9. ASSUME ~NonceError
      PROVE  NonceSignable(Tx)
  <2>1. Tx.nonce # "unreadable" /\ (Tx.nonce = "short" => HasReader)
    BY <1>9 DEF NonceError
  <2>2. ASSUME HasReader, NEW d \in Paid(Tx), NEW e \in Paid(Tx)
        PROVE  SameAddress(d, e)
    <3>1. Cardinality(paid) = 1
      BY <1>2, <1>6, <2>2 DEF HasReader
    <3>2. Address(d) = Address(e)
      BY <1>3, <1>6, <3>1, FS_Singleton
    <3> QED
      BY <1>5, <3>2
  <2>3. ASSUME HasReader, Paid(Tx) = {}
        PROVE  OnCurve(Tx.change)
    <3>1. NoncePayee = Address(Tx.change)
      BY <1>2, <1>4, <2>3
    <3> QED
      BY <2>3, <3>1, AddressKeeps DEF HasReader
  <2> QED
    BY <2>1, <2>2, <2>3 DEF NonceSignable
<1>10. ASSUME NonceSignable(Tx), OutputsSignable(Tx)
       PROVE  ~NonceError
  <2>1. SUFFICES ASSUME Tx.nonce = "short" PROVE HasReader
    BY <1>10 DEF NonceError, NonceSignable
  <2>2. CASE Paid(Tx) = {}
    <3>1. NoncePayee = Address(Tx.change) /\ OnCurve(Tx.change)
      BY <1>2, <1>4, <1>10, <2>1, <2>2 DEF NonceSignable
    <3> QED
      BY <1>8, <3>1, AddressKeeps DEF HasReader
  <2>3. CASE Paid(Tx) # {}
    <3>1. PICK d \in Paid(Tx) : TRUE
      BY <2>3
    <3>2. \A e \in Paid(Tx) : Address(e) = Address(d)
      BY <1>5, <1>10, <2>1 DEF NonceSignable
    <3>3. paid = {Address(d)}
      BY <1>6, <1>7, <3>2
    <3>4. Cardinality(paid) = 1 /\ paid # {} /\ (CHOOSE e \in paid : TRUE) = Address(d)
      BY <3>3, FS_Singleton
    <3>5. NoncePayee = Address(d)
      BY <1>2, <3>4
    <3>6. d \in Range(Tx.dests) /\ OnCurve(d)
      BY <1>10 DEF Paid, OutputsSignable
    <3> QED
      BY <1>8, <3>5, <3>6, AddressKeeps DEF HasReader
  <2> QED
    BY <2>2, <2>3
<1> QED
  BY <1>9, <1>10

LEMMA TotalShuffled ==
    ASSUME TypeInv, HasTx, Shuffled
    PROVE  Total(dests) = Total(Tx.dests)
<1>1. /\ DOMAIN Tx.dests = 1 .. Len(Tx.dests) /\ Len(Tx.dests) \in Nat
      /\ \A d \in Range(Tx.dests) : IsDestination(d)
  BY TxShape, SeqShape
<1>2. PICK p \in Bijection(1 .. Len(Tx.dests), 1 .. Len(Tx.dests)) :
         dests = [i \in 1 .. Len(Tx.dests) |-> Tx.dests[p[i]]]
  BY <1>1 DEF Shuffled
<1>3. \A i \in 1 .. Len(Tx.dests) : p[i] \in 1 .. Len(Tx.dests) /\ dests[i] = Tx.dests[p[i]]
  BY <1>1, <1>2, Rearranged
<1>4. \A i \in 1 .. Len(Tx.dests) : Tx.dests[i].amount \in Nat
  BY <1>1 DEF Range, IsDestination
<1>5. PICK f : f = [i \in DOMAIN Tx.dests |-> Tx.dests[i].amount]
  OBVIOUS
<1>6. PICK g : g = [i \in DOMAIN dests |-> dests[i].amount]
  OBVIOUS
<1>7. PICK n : n = Len(Tx.dests)
  OBVIOUS
<1>8. /\ n \in Nat /\ p \in Bijection(1 .. n, 1 .. n) /\ f \in [1 .. n -> Nat]
      /\ \A i \in 1 .. n : f[i] = Tx.dests[i].amount
  BY <1>1, <1>4, <1>5, <1>7
<1>9. g \in [1 .. n -> Nat] /\ \A i \in 1 .. n : g[i] = f[p[i]]
  <2>1. DOMAIN dests = 1 .. n
    BY <1>2, <1>7
  <2>2. \A i \in 1 .. n : dests[i].amount = f[p[i]] /\ f[p[i]] \in Nat
    BY <1>3, <1>4, <1>7, <1>8
  <2> QED
    BY <1>6, <2>1, <2>2
<1>10. SumFunction(g) = SumFunction(f)
  BY <1>8, <1>9, WholeSum
<1> QED
  BY <1>5, <1>6, <1>10 DEF Total

LEMMA BalancedIsAffordable ==
    ASSUME TypeInv, HasTx, Shuffled
    PROVE  Balanced <=> Affordable(Tx)
BY TotalShuffled, ShuffleShape DEF Balanced, Affordable

(* Every refusal has its reason in the request. *)
LEMMA RefusedUnsignable ==
    ASSUME TypeInv, WorkInv, HasTx,
           RefuseInputs \/ RefuseKeys \/ RefuseExtra \/ RefuseOutputs \/ RefuseSeal
    PROVE  ~Signable(Tx)
<1>1. CASE RefuseInputs
  <2>1. Readable /\ ~Acceptable
    BY <1>1 DEF RefuseInputs, WorkInv
  <2> QED
    BY <2>1, AcceptableIsSignable, SignableParts
<1>2. CASE RefuseKeys
  <2>1. Shuffled /\ \E s \in Subaddresses : ~OnCurve(dests[s])
    BY <1>2 DEF RefuseKeys, KeysError, WorkInv
  <2>2. \E d \in Range(dests) : ~OnCurve(d)
    BY <2>1 DEF Subaddresses, Payees, Range
  <2> QED
    BY <2>1, <2>2, ShuffleShape, SignableParts DEF OutputsSignable
<1>3. CASE RefuseExtra
  <2>1. Shuffled /\ NonceError
    BY <1>3 DEF RefuseExtra, WorkInv
  <2> QED
    BY <2>1, NonceIsSignable, SignableParts
<1>4. CASE RefuseOutputs
  <2>1. Shuffled /\ \E d \in Range(dests) : ~OnCurve(d)
    BY <1>4 DEF RefuseOutputs, WorkInv
  <2> QED
    BY <2>1, ShuffleShape, SignableParts DEF OutputsSignable
<1>5. CASE RefuseSeal
  <2>1. Shuffled /\ ~Balanced
    BY <1>5 DEF RefuseSeal, WorkInv
  <2> QED
    BY <2>1, BalancedIsAffordable, SignableParts
<1> QED
  BY <1>1, <1>2, <1>3, <1>4, <1>5

LEMMA SealedSignable ==
    ASSUME TypeInv, WorkInv, Seal
    PROVE  Signable(Tx)
<1>1. /\ HasTx /\ Readable /\ Acceptable /\ Shuffled /\ ~NonceError /\ Balanced
      /\ \A d \in Range(Tx.dests) : OnCurve(d)
  BY AtSeal
<1> QED
  BY <1>1, AcceptableIsSignable, NonceIsSignable, BalancedIsAffordable, SignableParts
     DEF OutputsSignable

AllSignable == \A n \in DOMAIN set.txes : Signable(set.txes[n])

VerdictInv ==
    /\ \A n \in DOMAIN signed : Signable(set.txes[n])
    /\ outcome = "signed" => Readable /\ ~TransferError /\ Len(signed) = Len(set.txes)
    /\ outcome = "refused" => ~(Readable /\ AllSignable /\ ~TransferError)

LEMMA VerdictHolds == Spec => []VerdictInv
<1>1. Init => VerdictInv
  BY DEF Init, VerdictInv
<1>2. TypeInv /\ WorkInv /\ VerdictInv /\ [Next]_vars => VerdictInv'
  <2> SUFFICES ASSUME TypeInv, WorkInv, VerdictInv, [Next]_vars PROVE VerdictInv'
    OBVIOUS
  <2>1. set' = set
    BY Steps
  <2>2. /\ \A tx : Signable(tx)' <=> Signable(tx)
        /\ Readable' = Readable /\ TransferError' = TransferError
    <3>1. Reachable' = Reachable
      BY <2>1 DEF Reachable, Listed
    <3>2. \A s : OwnedSource(s)' <=> OwnedSource(s)
      BY <3>1 DEF OwnedSource
    <3>3. \A tx : Signable(tx)' <=> Signable(tx)
      BY <3>2 DEF Signable
    <3>4. Readable' = Readable
      BY <2>1 DEF Readable, Decrypt
    <3>5. TransferError' = TransferError
      BY <2>1 DEF TransferError
    <3> QED
      BY <3>3, <3>4, <3>5
  <2>3. AllSignable' <=> AllSignable
    BY <2>1, <2>2 DEF AllSignable
  <2>4. (\A n \in DOMAIN signed : Signable(set.txes[n]))'
    <3>1. CASE signed' = signed
      BY <2>1, <2>2, <3>1 DEF VerdictInv
    <3>2. CASE Seal
      BY <2>1, <2>2, <3>2, SealAppends, SealedSignable DEF VerdictInv, Tx
    <3> QED
      BY <3>1, <3>2, Steps
  <2>5. (outcome = "signed" => Readable /\ ~TransferError /\ Len(signed) = Len(set.txes))'
    <3>1. CASE Reply
      <4>1. Len(signed) = Len(set.txes)
        <5>1. IsSeq(set.txes) /\ Len(signed) \in Nat /\ Len(signed) <= Len(set.txes)
          BY SignedShape DEF TypeInv
        <5>2. Len(set.txes) \in Nat
          BY <5>1, SeqShape
        <5> QED
          BY <3>1, <5>1, <5>2 DEF Reply, HasTx, Number
      <4> QED
        BY <2>1, <2>2, <3>1, <4>1 DEF Reply, WorkInv
    <3>2. CASE outcome' = outcome /\ signed' = signed
      BY <2>1, <2>2, <3>2 DEF VerdictInv
    <3>3. CASE outcome' # "signed"
      BY <3>3
    <3> QED
      BY <3>1, <3>2, <3>3 DEF TypeInv, Next, vars, work, Open, RecoverInputs, Shuffle, DrawKeys,
         BuildExtra, MakeOutputs, Seal, RefuseSet, RefuseInputs, RefuseKeys, RefuseExtra,
         RefuseOutputs, RefuseSeal, RefuseTransfer, Refuse
  <2>6. (outcome = "refused" => ~(Readable /\ AllSignable /\ ~TransferError))'
    <3>1. CASE RefuseSet \/ RefuseTransfer
      BY <2>2, <3>1 DEF RefuseSet, RefuseTransfer
    <3>2. CASE RefuseInputs \/ RefuseKeys \/ RefuseExtra \/ RefuseOutputs \/ RefuseSeal
      <4>1. HasTx
        BY <3>2 DEF RefuseInputs, RefuseKeys, RefuseExtra, RefuseOutputs, RefuseSeal, WorkInv
      <4>2. ~Signable(Tx) /\ Number \in DOMAIN set.txes
        BY <3>2, <4>1, RefusedUnsignable, TxShape
      <4> QED
        BY <2>3, <4>2 DEF AllSignable, Tx
    <3>3. CASE outcome' = outcome
      BY <2>2, <2>3, <3>3 DEF VerdictInv
    <3>4. CASE Reply
      BY <3>4 DEF Reply
    <3> QED
      BY <3>1, <3>2, <3>3, <3>4 DEF Next, vars, work, Open, RecoverInputs, Shuffle, DrawKeys,
         BuildExtra, MakeOutputs, Seal
  <2> QED
    BY <2>4, <2>5, <2>6 DEF VerdictInv
<1> QED
  BY <1>1, <1>2, WorkHolds, PTL DEF Spec

(* sign: whatever set is shown, it is signed if and only if it can be read,
   every transaction of it could be signed alone and every transfer is the
   account's; and then nothing of it is left out. *)
THEOREM SignsWhatItShould == Spec => []SignsExactlySignable
<1>1. TypeInv /\ VerdictInv => SignsExactlySignable
  <2> SUFFICES ASSUME TypeInv, VerdictInv, pc = "done"
               PROVE  /\ outcome = "signed" <=> Readable /\ AllSignable /\ ~TransferError
                      /\ outcome = "signed" => Len(signed) = Len(set.txes)
    BY DEF SignsExactlySignable, AllSignable, TransferError
  <2>1. outcome \in {"signed", "refused"}
    BY DEF TypeInv
  <2>2. ASSUME outcome = "signed"
        PROVE  AllSignable
    <3>1. IsSeq(set.txes) /\ DOMAIN signed = 1 .. Len(signed)
      BY SignedShape
    <3>2. DOMAIN set.txes = DOMAIN signed
      BY <2>2, <3>1, SeqShape DEF VerdictInv
    <3> QED
      BY <3>2 DEF VerdictInv, AllSignable
  <2> QED
    BY <2>1, <2>2 DEF VerdictInv
<1> QED
  BY <1>1, VerdictHolds, WorkHolds, PTL
=============================================================================

--------------------------- MODULE Fanout_proofs ---------------------------
(***************************************************************************)
(* Affordable and NoOvershoot for every target, every number of outputs a  *)
(* transaction, all funds and any number of transfers that raise.          *)
(*                                                                         *)
(* A share of an unlocked balance is at most the balance, and a balance    *)
(* only grows while a transfer is being asked for.  Transactions are mined *)
(* in the order they were sent and each adds as many outputs as the next,  *)
(* so a round counts all but what the pending ones will add; it plans no   *)
(* more transactions than are missing of what it counted, and sends no     *)
(* more than it planned.                                                   *)
(***************************************************************************)
EXTENDS Fanout, FiniteSetTheorems, SequenceTheorems, WellFoundedInduction, TLAPS

-----------------------------------------------------------------------------
(* The invariant *)

Coins(n) == [at : Subs, amount : Nat, tx : 0 .. n, spent : BOOLEAN]

WalletTyped ==
    /\ coins \in Seq(Coins(sentTx))
    /\ sentTx \in Nat /\ mined \in 0 .. sentTx /\ unlocked \in 0 .. mined

ScriptTyped ==
    /\ pc \in {"total", "balance", "plan", "source", "size", "transfer", "done", "raised"}
    /\ total \in Nat /\ need \in Nat /\ sent \in Nat /\ lost \in Nat
    /\ per \in [Subs -> [unlocked : Nat, unspent : Nat]]
    /\ sources \in Seq(Subs) /\ source \in Subs
    /\ tries \in Nat /\ k \in Nat /\ amount \in Int
    /\ blind \in Nat

(* What is to be sent, and the reserve, is within what is unlocked. *)
Covered ==
    pc = "transfer" =>
        amount > 0 /\ amount * Dests + Reserve <= Worth(UnlockedAt(source))

Spending == {"source", "size", "transfer"}

(* The outputs of a transaction. *)
Yield == Dests + 1

(* Every transaction adds as many outputs, after those of the ones before. *)
InOrder ==
    /\ Len(coins) = Len(Funds) + sentTx * Yield
    /\ \A i \in DOMAIN coins, n \in 0 .. sentTx :
         i <= Len(Funds) + n * Yield => coins[i].tx <= n

(* No more is sent, or still tried, than is missing. *)
WithinNeed ==
    /\ pc \in Spending => sent <= need /\ total + need * Yield <= Target + Dests
    /\ pc \in {"size", "transfer"} => tries < k /\ sent + (k - tries) <= need

(* Whatever was not counted at the start of the round was pending then, or
   was sent in it. *)
AllCounted ==
    /\ pc \in {"balance", "plan"} => Len(coins) <= total + blind * Yield
    /\ pc \in Spending => Len(coins) <= total + (sent + (blind + lost)) * Yield

IInv ==
    /\ WalletTyped /\ ScriptTyped
    /\ InOrder /\ Covered /\ WithinNeed /\ AllCounted /\ NoOvershoot

-----------------------------------------------------------------------------
(* Least numbers, smallest sets *)

LEMMA LeastExists ==
    ASSUME NEW T, T \subseteq Nat, T # {}
    PROVE  \E x \in T : \A y \in T : x <= y
<1> DEFINE R == OpToRel(<, Nat)
<1>1. IsWellFoundedOn(R, Nat)
  BY NatLessThanWellFounded
<1>2. \A x, y \in Nat : y < x => <<y, x>> \in R
  BY DEF OpToRel
<1> HIDE DEF R
<1>3. PICK x \in T : \A y \in T : ~ (<<y, x>> \in R)
  BY <1>1, WFMin
<1>4. \A y \in T : ~(y < x)
  BY <1>2, <1>3, Zenon
<1> QED
  BY <1>4

(* Induction over a finite set, by a smallest counterexample. *)
Smallest(s, B) == s \in B /\ \A t \in B : t \subseteq s => t = s

LEMMA SmallestExists ==
    ASSUME NEW U, IsFiniteSet(U), NEW B, B \subseteq SUBSET U, B # {}
    PROVE  \E s : Smallest(s, B)
<1> DEFINE R == StrictSubsetOrdering(U)
<1>1. B \subseteq FiniteSubsetsOf(U)
  BY FS_FiniteSubsetsOfFinite
<1>2. IsWellFoundedOn(R, FiniteSubsetsOf(U))
  BY FS_StrictSubsetOrderingWellFounded
<1>3. \A s, t \in SUBSET U : t \subseteq s /\ t # s => <<t, s>> \in R
  BY DEF StrictSubsetOrdering
<1> HIDE DEF R
<1>4. PICK s \in B : \A t \in B : ~(<<t, s>> \in R)
  BY <1>1, <1>2, WFMin
<1> QED
  BY <1>3, <1>4 DEF Smallest

-----------------------------------------------------------------------------
(* What outputs are worth *)

Picked(s) == CHOOSE x \in s : TRUE

(* sum is the running sum of the amounts of c over the subsets of U. *)
Sums(c, U, sum) ==
    sum = [s \in SUBSET U |->
              IF s = {} THEN 0 ELSE c[Picked(s)].amount + sum[s \ {Picked(s)}]]

(* The outputs U of c are worth something, and any of them can be the first
   to be added. *)
Valued(c, U) == \A x \in U : c[x].amount \in Nat

Splits(sum, c, U) ==
    \A s \in SUBSET U : \A x \in s : sum[s] = c[x].amount + sum[s \ {x}]

RunningSum(c, U) == CHOOSE sum : Sums(c, U, sum)

LEMMA PickedIn == \A s : s # {} => Picked(s) \in s
BY DEF Picked

LEMMA WorthUnfolded == \A U : Worth(U) = RunningSum(coins, U)[U]
BY DEF Worth, MapThenSumSet, MapThenFoldSet, RunningSum, Sums, Picked

LEMMA UnlockedUnfolded ==
    /\ Worth(UnlockedAt(source)) = RunningSum(coins, UnlockedAt(source))[UnlockedAt(source)]
    /\ Worth(UnlockedAt(source))' = RunningSum(coins', UnlockedAt(source)')[UnlockedAt(source)']
BY DEF Worth, MapThenSumSet, MapThenFoldSet, RunningSum, Sums, Picked

(* The recursion has a solution: on the subsets of at most n outputs, for
   every n. *)
LEMMA RunningSumExists ==
    ASSUME NEW U, IsFiniteSet(U), NEW c, Valued(c, U)
    PROVE  \E sum \in [SUBSET U -> Nat] : Sums(c, U, sum)
<1> DEFINE a(x) == c[x].amount
           Upto(n) == {s \in SUBSET U : Cardinality(s) <= n}
           Solved(n) == \E sum \in [Upto(n) -> Nat] :
               sum = [s \in Upto(n) |-> IF s = {} THEN 0 ELSE a(Picked(s)) + sum[s \ {Picked(s)}]]
           Unsolved == {n \in Nat : ~Solved(n)}
<1>0. \A x \in U : a(x) \in Nat
  BY DEF Valued
<1>1. \A s \in SUBSET U : IsFiniteSet(s) /\ Cardinality(s) \in Nat
  BY FS_Subset, FS_CardinalityType
<1>2. \A s \in SUBSET U : s # {} =>
         /\ Picked(s) \in U
         /\ s \ {Picked(s)} \in SUBSET U
         /\ Cardinality(s \ {Picked(s)}) = Cardinality(s) - 1
  BY <1>1, PickedIn, FS_RemoveElement
<1>3. \A s \in SUBSET U : Cardinality(s) = 0 <=> s = {}
  BY <1>1, FS_EmptySet
<1> HIDE DEF a
<1>4. Solved(0)
  <2> DEFINE sum == [s \in Upto(0) |-> 0]
  <2>1. sum \in [Upto(0) -> Nat]
    OBVIOUS
  <2>2. \A s \in Upto(0) : s = {}
    BY <1>1, <1>3
  <2>3. sum = [s \in Upto(0) |-> IF s = {} THEN 0 ELSE a(Picked(s)) + sum[s \ {Picked(s)}]]
    BY <2>2
  <2> QED
    BY <2>1, <2>3
<1>5. ASSUME NEW n \in Nat, Solved(n)
      PROVE  Solved(n + 1)
  <2>1. PICK old \in [Upto(n) -> Nat] :
           old = [s \in Upto(n) |-> IF s = {} THEN 0 ELSE a(Picked(s)) + old[s \ {Picked(s)}]]
    BY <1>5
  <2> DEFINE sum == [s \in Upto(n + 1) |-> IF s = {} THEN 0 ELSE a(Picked(s)) + old[s \ {Picked(s)}]]
  <2>2. \A s \in Upto(n + 1) : s # {} => Picked(s) \in U /\ s \ {Picked(s)} \in Upto(n)
    BY <1>1, <1>2
  <2>3. sum \in [Upto(n + 1) -> Nat]
    BY <1>0, <2>2
  <2>4. \A s \in Upto(n) : s \in Upto(n + 1) /\ sum[s] = old[s]
    <3>1. Upto(n) \subseteq Upto(n + 1)
      BY <1>1
    <3> QED
      BY <3>1, <2>1
  <2>5. sum = [s \in Upto(n + 1) |-> IF s = {} THEN 0 ELSE a(Picked(s)) + sum[s \ {Picked(s)}]]
    <3> HIDE DEF Upto
    <3> QED
      BY <2>2, <2>4
  <2> HIDE DEF sum
  <2> QED
    BY <2>3, <2>5
<1>6. \A n \in Nat : Solved(n)
  <2> SUFFICES ASSUME Unsolved # {} PROVE FALSE
    OBVIOUS
  <2>1. PICK n \in Unsolved : \A m \in Unsolved : n <= m
    <3> HIDE DEF Solved
    <3>1. Unsolved \subseteq Nat
      OBVIOUS
    <3> HIDE DEF Unsolved
    <3> QED
      BY <3>1, LeastExists
  <2> HIDE DEF Solved
  <2>2. n # 0 /\ n \in Nat
    BY <1>4
  <2>3. n - 1 \in Nat /\ n - 1 \notin Unsolved
    BY <2>1, <2>2
  <2>4. Solved(n - 1) => Solved((n - 1) + 1)
    BY <1>5, <2>3
  <2> QED
    BY <2>2, <2>3, <2>4
<1>7. Cardinality(U) \in Nat /\ Upto(Cardinality(U)) = SUBSET U
  BY <1>1, FS_Subset, FS_CardinalityType
<1>8. Solved(Cardinality(U))
  BY <1>6, <1>7
<1> QED
  BY <1>7, <1>8 DEF Sums, a

(* The recursion has no other solution. *)
LEMMA RunningSumUnique ==
    ASSUME NEW U, IsFiniteSet(U), NEW c, NEW a, NEW b, Sums(c, U, a), Sums(c, U, b)
    PROVE  a = b
<1> DEFINE Differ == {s \in SUBSET U : a[s] # b[s]}
<1>1. SUFFICES ASSUME Differ # {} PROVE FALSE
  BY DEF Sums
<1>2. PICK s : Smallest(s, Differ)
  <2>1. Differ \subseteq SUBSET U
    OBVIOUS
  <2> QED
    BY <1>1, <2>1, SmallestExists, Zenon
<1>3. s \in Differ /\ \A t \in Differ : t \subseteq s => t = s
  BY <1>2 DEF Smallest
<1>4. s # {}
  BY <1>3 DEF Sums
<1>5. s \ {Picked(s)} \in SUBSET U /\ s \ {Picked(s)} \notin Differ
  BY <1>3, <1>4, PickedIn
<1> QED
  BY <1>3, <1>4, <1>5 DEF Sums

(* One sum over the subsets of U serves all of them. *)
LEMMA RunningSumShared ==
    ASSUME NEW U, IsFiniteSet(U), NEW c, NEW sum, Sums(c, U, sum), NEW s \in SUBSET U
    PROVE  RunningSum(c, s)[s] = sum[s]
<1> DEFINE part == [t \in SUBSET s |-> sum[t]]
<1>1. Sums(c, s, part)
  <2>1. \A t \in SUBSET s : t \in SUBSET U
    OBVIOUS
  <2>2. \A t \in SUBSET s :
          part[t] = IF t = {} THEN 0 ELSE c[Picked(t)].amount + sum[t \ {Picked(t)}]
    BY <2>1 DEF Sums
  <2>3. \A t \in SUBSET s : part[t \ {Picked(t)}] = sum[t \ {Picked(t)}]
    OBVIOUS
  <2>4. part = [t \in SUBSET s |->
                  IF t = {} THEN 0 ELSE c[Picked(t)].amount + part[t \ {Picked(t)}]]
    BY <2>2, <2>3
  <2> QED
    BY <2>4 DEF Sums
<1>2. Sums(c, s, RunningSum(c, s))
  BY <1>1 DEF RunningSum
<1>3. IsFiniteSet(s)
  BY FS_Subset
<1>4. RunningSum(c, s) = part
  BY <1>1, <1>2, <1>3, RunningSumUnique
<1> QED
  BY <1>4

LEMMA RunningSumSplits ==
    ASSUME NEW U, IsFiniteSet(U), NEW c, Valued(c, U),
           NEW sum \in [SUBSET U -> Nat], Sums(c, U, sum)
    PROVE  Splits(sum, c, U)
<1> DEFINE a(x) == c[x].amount
           Bad == {s \in SUBSET U : \E x \in s : sum[s] # a(x) + sum[s \ {x}]}
<1>1. /\ \A x \in U : a(x) \in Nat
      /\ \A s \in SUBSET U : s # {} => sum[s] = a(Picked(s)) + sum[s \ {Picked(s)}]
  BY DEF Sums, Valued
<1>2. SUFFICES ASSUME Bad # {} PROVE FALSE
  BY DEF Splits
<1> HIDE DEF a
<1>3. PICK s : Smallest(s, Bad)
  <2>1. Bad \subseteq SUBSET U
    OBVIOUS
  <2> QED
    BY <1>2, <2>1, SmallestExists, Zenon
<1>4. s \in Bad /\ \A t \in Bad : t \subseteq s => t = s
  BY <1>3 DEF Smallest
<1>5. PICK x \in s : sum[s] # a(x) + sum[s \ {x}]
  BY <1>4
<1> PICK y : y = Picked(s)
  OBVIOUS
<1> PICK both : both = s \ {y, x}
  OBVIOUS
<1>6. y \in s /\ y # x /\ sum[s] = a(y) + sum[s \ {y}]
  BY <1>1, <1>4, <1>5, PickedIn
<1>7. s \ {y} \notin Bad /\ s \ {x} \notin Bad
  BY <1>4, <1>6
<1>8. (s \ {y}) \ {x} = both /\ (s \ {x}) \ {y} = both /\ both \in SUBSET U
  BY <1>4
<1>9. sum[s \ {y}] = a(x) + sum[both] /\ sum[s \ {x}] = a(y) + sum[both]
  <2>1. s \ {y} \in SUBSET U /\ s \ {x} \in SUBSET U /\ x \in s \ {y} /\ y \in s \ {x}
    BY <1>4, <1>5, <1>6
  <2>2. /\ \A z \in s \ {y} : sum[s \ {y}] = a(z) + sum[(s \ {y}) \ {z}]
        /\ \A z \in s \ {x} : sum[s \ {x}] = a(z) + sum[(s \ {x}) \ {z}]
    BY <1>7, <2>1
  <2>3. /\ sum[s \ {y}] = a(x) + sum[(s \ {y}) \ {x}]
        /\ sum[s \ {x}] = a(y) + sum[(s \ {x}) \ {y}]
    BY <2>1, <2>2, Zenon
  <2> QED
    BY <1>8, <2>3
<1>10. a(y) \in Nat /\ a(x) \in Nat /\ sum[both] \in Nat
  BY <1>1, <1>4, <1>6, <1>8
<1> QED
  BY <1>5, <1>6, <1>9, <1>10

LEMMA RunningSumGrows ==
    ASSUME NEW U, IsFiniteSet(U), NEW c, Valued(c, U),
           NEW sum \in [SUBSET U -> Nat], Sums(c, U, sum), NEW s \in SUBSET U
    PROVE  sum[s] <= sum[U]
<1> DEFINE Bad == {t \in SUBSET U : s \subseteq t /\ ~(sum[s] <= sum[t])}
<1>1. SUFFICES ASSUME Bad # {} PROVE FALSE
  OBVIOUS
<1>2. PICK t : Smallest(t, Bad)
  <2>1. Bad \subseteq SUBSET U
    OBVIOUS
  <2> QED
    BY <1>1, <2>1, SmallestExists, Zenon
<1>3. t \in Bad /\ \A r \in Bad : r \subseteq t => r = t
  BY <1>2 DEF Smallest
<1>4. t # s
  BY <1>3
<1>5. PICK x \in t : x \notin s
  BY <1>3, <1>4
<1>6. t \ {x} \notin Bad /\ t \ {x} \in SUBSET U /\ s \subseteq t \ {x}
  BY <1>3, <1>5
<1>7. sum[s] <= sum[t \ {x}]
  BY <1>6
<1>8. sum[t] = c[x].amount + sum[t \ {x}]
  <2>1. Splits(sum, c, U)
    BY RunningSumSplits
  <2> QED
    BY <1>3, <2>1 DEF Splits
<1>9. c[x].amount \in Nat /\ sum[t] \in Nat /\ sum[s] \in Nat /\ sum[t \ {x}] \in Nat
  BY <1>3, <1>6 DEF Valued
<1> QED
  BY <1>3, <1>7, <1>8, <1>9

(* What outputs are worth is a number, and more of them are worth no less. *)
LEMMA WorthGrows ==
    ASSUME WalletTyped, NEW U \in SUBSET DOMAIN coins, NEW s \in SUBSET U
    PROVE  Worth(s) \in Nat /\ Worth(U) \in Nat /\ Worth(s) <= Worth(U)
<1>1. IsFiniteSet(U)
  <2>1. DOMAIN coins = 1 .. Len(coins) /\ Len(coins) \in Nat
    BY DEF WalletTyped
  <2>2. IsFiniteSet(1 .. Len(coins))
    BY <2>1, FS_Interval
  <2> QED
    BY <2>1, <2>2, FS_Subset
<1>2. Valued(coins, U)
  <2>1. \A i \in DOMAIN coins : coins[i] \in Coins(sentTx)
    BY DEF WalletTyped
  <2> QED
    BY <2>1 DEF Valued, Coins
<1>3. PICK sum \in [SUBSET U -> Nat] : Sums(coins, U, sum)
  BY <1>1, <1>2, RunningSumExists
<1>4. RunningSum(coins, s)[s] = sum[s] /\ RunningSum(coins, U)[U] = sum[U]
  <2>1. U \in SUBSET U
    OBVIOUS
  <2> QED
    BY <1>1, <1>3, <2>1, RunningSumShared
<1>5. Worth(s) = sum[s] /\ Worth(U) = sum[U]
  BY <1>4, WorthUnfolded
<1>6. sum[s] <= sum[U]
  BY <1>1, <1>2, <1>3, RunningSumGrows
<1>7. sum[s] \in Nat /\ sum[U] \in Nat
  BY <1>3
<1> QED
  BY <1>5, <1>6, <1>7

-----------------------------------------------------------------------------
(* Numbers *)

LEMMA MaxOfTwo ==
    ASSUME NEW a \in Int, NEW b \in Int
    PROVE  Max({a, b}) \in {a, b} /\ Max({a, b}) >= a /\ Max({a, b}) >= b
<1>1. \E x \in {a, b} : \A y \in {a, b} : x >= y
  OBVIOUS
<1> QED
  BY <1>1 DEF Max

LEMMA MinOfThree ==
    ASSUME NEW a \in Int, NEW b \in Int, NEW c \in Int
    PROVE  Min({a, b, c}) \in Int /\ Min({a, b, c}) <= a
<1>1. \E x \in {a, b, c} : \A y \in {a, b, c} : x =< y
  OBVIOUS
<1>2. Min({a, b, c}) \in {a, b, c} /\ Min({a, b, c}) =< a
  BY <1>1 DEF Min
<1> QED
  BY <1>2

LEMMA DivisionBelow ==
    ASSUME NEW a \in Int, NEW q \in Nat \ {0}
    PROVE  a \div q \in Int /\ (a \div q) * q <= a /\ a < (a \div q) * q + q
<1> DEFINE d == a \div q
           m == a % q
<1>1. d \in Int /\ m \in 0 .. q - 1 /\ a = q * d + m
  OBVIOUS
<1> HIDE DEF d, m
<1>2. q * d = d * q /\ d * q \in Int
  BY <1>1
<1>3. d * q <= a /\ a < d * q + q
  BY <1>1, <1>2
<1> QED
  BY <1>1, <1>3 DEF d

LEMMA QuotientSmaller ==
    ASSUME NEW w \in Nat, NEW r \in Nat \ {0}
    PROVE  w \div r \in Nat /\ w \div r <= w
<1> DEFINE d == w \div r
<1>1. d \in Int /\ d * r <= w /\ w < d * r + r
  BY DivisionBelow
<1>2. d >= 0
  <2> HIDE DEF d
  <2>1. d < 0 => d * r <= -r
    BY <1>1
  <2> QED
    BY <1>1, <2>1
<1>3. d <= d * r
  BY <1>1, <1>2
<1> QED
  BY <1>1, <1>2, <1>3

(* However a balance is shared out, a share for every destination and the
   reserve are within it. *)
LEMMA ShareBelow ==
    ASSUME NEW w \in Nat, NEW r \in Nat \ {0}, NEW q \in Nat \ {0}, NEW keep \in Nat
    PROVE  /\ (w \div r - keep) \div q \in Int
           /\ ((w \div r - keep) \div q) * q + keep <= w
<1> DEFINE part == w \div r
           share == (part - keep) \div q
<1>1. part \in Nat /\ part <= w
  BY QuotientSmaller
<1> HIDE DEF part
<1>2. part - keep \in Int
  BY <1>1
<1>3. share \in Int /\ share * q <= part - keep
  BY <1>2, DivisionBelow
<1> HIDE DEF share
<1>4. share * q \in Int
  BY <1>3
<1>5. share * q + keep <= w
  BY <1>1, <1>3, <1>4
<1> QED
  BY <1>3, <1>5 DEF share, part

LEMMA Sizes ==
    /\ Dests \in Nat \ {0} /\ Yield \in Nat \ {0}
    /\ Target \in Nat /\ Reserve \in Nat \ {0} /\ MinSource \in Nat /\ Fee \in Nat
    /\ Len(Funds) \in Nat /\ 0 \in Subs
<1>1. Dests \in Nat \ {0}
  BY SizeAssumption, FundsAssumption DEF Dests
<1> QED
  BY <1>1, SizeAssumption, FundsAssumption DEF Yield, Subs

Goal == Max({Len(Funds), Target + Dests})

LEMMA GoalAbove == Goal \in Int /\ Goal >= Len(Funds) /\ Goal >= Target + Dests
<1> DEFINE a == Len(Funds)
           b == Target + Dests
<1>1. a \in Int /\ b \in Int
  BY Sizes
<1> HIDE DEF a, b
<1>2. Max({a, b}) \in {a, b} /\ Max({a, b}) >= a /\ Max({a, b}) >= b
  BY <1>1, MaxOfTwo
<1> QED
  BY <1>1, <1>2 DEF Goal, a, b

(* What is missing is rounded up to whole transactions. *)
LEMMA MissingBelow ==
    ASSUME total \in Nat, total < Target
    PROVE  Missing \in Nat /\ total + Missing * Yield <= Target + Dests
<1> DEFINE left == Target - total + Dests
           d == left \div Yield
<1>1. left \in Nat
  BY Sizes
<1> HIDE DEF left
<1>2. d \in Nat /\ d * Yield <= left
  <2>1. Yield \in Nat \ {0}
    BY Sizes
  <2>2. d \in Nat
    BY <1>1, <2>1, QuotientSmaller
  <2>3. d * Yield <= left
    BY <1>1, <2>1, DivisionBelow
  <2> QED
    BY <2>2, <2>3
<1>3. Missing = d
  BY DEF Missing, Yield, left
<1> HIDE DEF d
<1>4. d * Yield \in Int
  BY <1>2, Sizes
<1>5. total + d * Yield <= Target + Dests
  BY <1>2, <1>4, Sizes DEF left
<1> QED
  BY <1>2, <1>3, <1>5

(* There is always one attempt, and never more than are missing. *)
LEMMA AttemptsBelow ==
    ASSUME ScriptTyped, NEW s \in Subs, sent < need
    PROVE  Attempts(s) \in Nat /\ 1 <= Attempts(s) /\ Attempts(s) <= need - sent
<1> DEFINE a == need - sent
           b == per[s].unspent \div 2
           c == per[s].unlocked \div (3 * Reserve)
           m == Min({a, b, c})
<1>1. a \in Int /\ 1 <= a
  BY DEF ScriptTyped
<1>2. b \in Int /\ c \in Int
  <2>1. per[s].unspent \in Nat /\ per[s].unlocked \in Nat
    BY DEF ScriptTyped
  <2>2. 3 * Reserve \in Nat \ {0}
    BY Sizes
  <2> QED
    BY <2>1, <2>2, QuotientSmaller
<1>3. Attempts(s) = Max({1, m})
  BY DEF Attempts
<1> HIDE DEF a, b, c
<1>4. m \in Int /\ m <= a
  BY <1>1, <1>2, MinOfThree
<1> HIDE DEF m
<1>5. Max({1, m}) \in {1, m} /\ Max({1, m}) >= 1
  BY <1>4, MaxOfTwo
<1>6. Attempts(s) \in Nat /\ 1 <= Attempts(s) /\ Attempts(s) <= a
  BY <1>1, <1>3, <1>4, <1>5
<1> QED
  BY <1>6 DEF a

(* Outputs of transactions, counted. *)

LEMMA OneMore ==
    ASSUME NEW n \in Nat, NEW m \in Nat
    PROVE  /\ (n + 1 + m) * Yield = (n + m) * Yield + Yield
           /\ (n + (m + 1)) * Yield = (n + m) * Yield + Yield
           /\ (n + m) * Yield \in Int /\ Yield \in Int
<1> PICK y \in Nat : y = Yield
  BY Sizes
<1>1. PICK q \in Nat : q = n + m
  OBVIOUS
<1>2. n + 1 + m = q + 1 /\ n + (m + 1) = q + 1
  BY <1>1
<1>3. (q + 1) * y = q * y + y
  OBVIOUS
<1> QED
  BY <1>1, <1>2, <1>3

LEMMA ProductGrows ==
    ASSUME NEW n \in Nat, NEW m \in Nat, n <= m
    PROVE  /\ n * Yield <= m * Yield
           /\ n * Yield \in Nat /\ m * Yield \in Nat
<1> PICK y \in Nat : y = Yield
  BY Sizes
<1>1. PICK d \in Nat : m = n + d
  <2>1. m - n \in Nat /\ m = n + (m - n)
    OBVIOUS
  <2> QED
    BY <2>1
<1>2. (n + d) * y = n * y + d * y /\ n * y \in Nat /\ d * y \in Nat
  OBVIOUS
<1> QED
  BY <1>1, <1>2

LEMMA SumGrows ==
    ASSUME NEW n \in Nat, NEW m \in Nat, NEW p \in Nat, n <= m
    PROVE  n + p \in Nat /\ m + p \in Nat /\ n + p <= m + p
OBVIOUS

LEMMA WithinProduct ==
    ASSUME NEW n \in Nat, NEW m \in Nat, NEW p \in Nat, n + 1 <= p
    PROVE  /\ (n + 1 + m) * Yield <= p * Yield + m * Yield
           /\ p * Yield \in Int /\ m * Yield \in Int
<1> PICK y \in Nat : y = Yield
  BY Sizes
<1>1. PICK d \in Nat : p = n + 1 + d
  <2>1. p - (n + 1) \in Nat /\ p = n + 1 + (p - (n + 1))
    OBVIOUS
  <2> QED
    BY <2>1
<1>2. /\ (n + 1 + d) * y = (n + 1) * y + d * y
      /\ (n + 1 + m) * y = (n + 1) * y + m * y
      /\ d * y >= 0 /\ d * y \in Int /\ (n + 1) * y \in Int /\ m * y \in Int
  OBVIOUS
<1> QED
  BY <1>1, <1>2

-----------------------------------------------------------------------------
(* The steps *)

LEMMA InitInv == Init => IInv
<1> SUFFICES ASSUME Init PROVE IInv
  OBVIOUS
<1>1. WalletTyped
  <2>1. \A i \in DOMAIN Funds : Funds[i].at \in Subs /\ Funds[i].amount \in Nat
    BY FundsAssumption DEF Subs
  <2>2. coins \in Seq(Coins(0)) /\ sentTx = 0
    <3>1. DOMAIN Funds = 1 .. Len(Funds) /\ Len(Funds) \in Nat
      BY FundsAssumption
    <3>2. \A i \in 1 .. Len(Funds) :
            [at |-> Funds[i].at, amount |-> Funds[i].amount, tx |-> 0, spent |-> FALSE] \in Coins(0)
      BY <2>1, <3>1 DEF Coins
    <3> QED
      BY <3>1, <3>2 DEF Init
  <2> QED
    BY <2>2 DEF Init, WalletTyped
<1>2. Len(coins) = Len(Funds)
  BY FundsAssumption DEF Init
<1>3. ScriptTyped
  BY Sizes DEF Init, ScriptTyped
<1>4. NoOvershoot
  <2>1. (blind + lost) * (Dests + 1) = 0
    BY Sizes DEF Init
  <2> QED
    BY <1>2, <2>1, Sizes, GoalAbove DEF NoOvershoot, Goal
<1>5. InOrder
  <2>1. sentTx = 0 /\ \A i \in DOMAIN coins : coins[i].tx = 0
    BY DEF Init
  <2>2. sentTx * Yield = 0
    BY <2>1, Sizes
  <2> QED
    BY <1>2, <2>1, <2>2, Sizes DEF InOrder
<1> QED
  BY <1>1, <1>3, <1>4, <1>5 DEF Init, IInv, Covered, WithinNeed, AllCounted, Spending

LEMMA LaterCoin ==
    ASSUME NEW n \in Nat, NEW c \in Coins(n), NEW b \in BOOLEAN
    PROVE  [c EXCEPT !.spent = b] \in Coins(n + 1)
<1>1. /\ c = [at |-> c.at, amount |-> c.amount, tx |-> c.tx, spent |-> c.spent]
      /\ c.at \in Subs /\ c.amount \in Nat /\ c.tx \in 0 .. n
  BY DEF Coins
<1>2. [c EXCEPT !.spent = b] = [at |-> c.at, amount |-> c.amount, tx |-> c.tx, spent |-> b]
  BY <1>1
<1>3. c.tx \in 0 .. n + 1
  BY <1>1
<1> QED
  BY <1>1, <1>2, <1>3 DEF Coins

(* A transfer, answered or not, takes what it pays from the outputs picked
   and adds one output a destination, and the change. *)
LEMMA SentTyped ==
    ASSUME IInv, pc = "transfer", NEW is \in Picks, Sent(is), UNCHANGED <<mined, unlocked>>
    PROVE  /\ WalletTyped' /\ Len(coins') = Len(coins) + Yield
           /\ \A i \in DOMAIN coins : coins'[i].tx = coins[i].tx
<1> DEFINE old == [i \in DOMAIN coins |-> [coins[i] EXCEPT !.spent = @ \/ i \in is]]
           paid == [d \in 1 .. Dests |->
                      [at |-> DestsAt[d], amount |-> amount, tx |-> sentTx', spent |-> FALSE]]
           change == <<[at |-> 0, amount |-> Worth(is) - Needed, tx |-> sentTx', spent |-> FALSE]>>
<1>1. coins' = (old \o paid) \o change /\ sentTx' = sentTx + 1 /\ sentTx \in Nat
  BY DEF Sent, IInv, WalletTyped
<1>2. old \in Seq(Coins(sentTx')) /\ Len(old) = Len(coins)
  <2>1. DOMAIN coins = 1 .. Len(coins) /\ Len(coins) \in Nat
    BY DEF IInv, WalletTyped
  <2>2. \A i \in DOMAIN coins : coins[i] \in Coins(sentTx)
    BY DEF IInv, WalletTyped
  <2>3. ASSUME NEW i \in 1 .. Len(coins) PROVE old[i] \in Coins(sentTx')
    <3>1. PICK b \in BOOLEAN : b = (coins[i].spent \/ i \in is)
      BY Zenon
    <3>2. old[i] = [coins[i] EXCEPT !.spent = b]
      BY <2>1, <3>1
    <3>3. coins[i] \in Coins(sentTx)
      BY <2>1, <2>2
    <3> HIDE DEF old
    <3>4. [coins[i] EXCEPT !.spent = b] \in Coins(sentTx')
      BY <1>1, <3>3, LaterCoin
    <3> QED
      BY <3>2, <3>4
  <2>4. old = [i \in 1 .. Len(coins) |-> old[i]]
    BY <2>1
  <2> HIDE DEF old
  <2> QED
    BY <2>1, <2>3, <2>4
<1>3. paid \in Seq(Coins(sentTx')) /\ Len(paid) = Dests
  <2>1. amount \in Nat
    BY DEF IInv, ScriptTyped, Covered
  <2>2. \A d \in 1 .. Dests : DestsAt[d] \in Subs
    BY FundsAssumption DEF Dests, Subs, Range
  <2>3. \A d \in 1 .. Dests : paid[d] \in Coins(sentTx')
    BY <1>1, <2>1, <2>2 DEF Coins
  <2> HIDE DEF Coins
  <2> QED
    BY <2>3, Sizes
<1>4. change \in Seq(Coins(sentTx')) /\ Len(change) = 1
  <2>1. Worth(is) >= Needed /\ is \in SUBSET DOMAIN coins
    BY DEF Picks, UnlockedAt
  <2>2. Worth(is) \in Nat
    BY <2>1, WorthGrows DEF IInv
  <2>3. Needed \in Int
    BY Sizes DEF Needed, IInv, ScriptTyped
  <2>4. change[1] \in Coins(sentTx')
    BY <1>1, <2>1, <2>2, <2>3, Sizes DEF Coins
  <2> QED
    BY <2>4
<1> HIDE DEF old, paid, change
<1>5. coins' \in Seq(Coins(sentTx')) /\ Len(coins') = Len(coins) + Dests + 1
  <2> PICK S : S = Coins(sentTx')
    OBVIOUS
  <2>1. \A s, t \in Seq(S) : s \o t \in Seq(S) /\ Len(s \o t) = Len(s) + Len(t)
    OBVIOUS
  <2>2. old \in Seq(S) /\ paid \in Seq(S) /\ change \in Seq(S)
    BY <1>2, <1>3, <1>4
  <2>3. old \o paid \in Seq(S) /\ Len(old \o paid) = Len(old) + Len(paid)
    BY <2>1, <2>2
  <2>4. coins' \in Seq(S) /\ Len(coins') = Len(old \o paid) + Len(change)
    BY <1>1, <2>1, <2>2, <2>3
  <2> QED
    BY <1>2, <1>3, <1>4, <2>3, <2>4
<1>6. Len(coins) \in Nat /\ DOMAIN coins = 1 .. Len(coins)
  BY DEF IInv, WalletTyped
<1>7. ASSUME NEW i \in DOMAIN coins PROVE coins'[i].tx = coins[i].tx
  <2> PICK S : S = Coins(sentTx')
    OBVIOUS
  <2>1. \A s, t \in Seq(S) : \A n \in 1 .. Len(s) : s \o t \in Seq(S) /\ (s \o t)[n] = s[n] /\ n \in 1 .. Len(s \o t)
    OBVIOUS
  <2>2. old \in Seq(S) /\ paid \in Seq(S) /\ change \in Seq(S) /\ i \in 1 .. Len(old)
    BY <1>2, <1>3, <1>4, <1>6
  <2>3. (old \o paid)[i] = old[i] /\ i \in 1 .. Len(old \o paid) /\ old \o paid \in Seq(S)
    BY <2>1, <2>2
  <2>4. coins'[i] = old[i]
    BY <1>1, <2>1, <2>2, <2>3
  <2>5. old[i].tx = coins[i].tx
    <3>1. coins[i] \in Coins(sentTx)
      BY DEF IInv, WalletTyped
    <3> QED
      BY <3>1 DEF old, Coins
  <2> QED
    BY <2>4, <2>5
<1> QED
  BY <1>1, <1>5, <1>6, <1>7, Sizes DEF IInv, WalletTyped, Yield

(* The outputs it adds come after those of every transaction before it. *)
LEMMA SentInOrder ==
    ASSUME IInv, pc = "transfer", NEW is \in Picks, Sent(is), UNCHANGED <<mined, unlocked>>
    PROVE  InOrder'
<1>1. sentTx' = sentTx + 1 /\ sentTx \in Nat /\ Len(coins) \in Nat
  BY DEF Sent, IInv, WalletTyped
<1>2. /\ WalletTyped' /\ Len(coins') = Len(coins) + Yield
      /\ \A i \in DOMAIN coins : coins'[i].tx = coins[i].tx
  BY SentTyped
<1>3. Len(coins) = Len(Funds) + sentTx * Yield
  BY DEF IInv, InOrder
<1>4. (sentTx + 1 + 0) * Yield = (sentTx + 0) * Yield + Yield /\ (sentTx + 0) * Yield \in Int
  BY <1>1, OneMore
<1>5. sentTx + 1 + 0 = sentTx + 1 /\ sentTx + 0 = sentTx
  BY <1>1
<1>6. (sentTx + 1) * Yield = sentTx * Yield + Yield /\ sentTx * Yield \in Int
  BY <1>4, <1>5
<1>7. Len(coins') = Len(Funds) + sentTx' * Yield
  <2> PICK x \in Int : x = sentTx * Yield
    BY <1>6
  <2> PICK y \in Int : y = (sentTx + 1) * Yield
    BY <1>6, Sizes
  <2>1. y = x + Yield
    BY <1>6
  <2>2. Len(coins') = Len(Funds) + y
    BY <1>1, <1>2, <1>3, <2>1, Sizes
  <2> QED
    BY <1>1, <2>2
<1>8. ASSUME NEW i \in DOMAIN coins', NEW n \in 0 .. sentTx', i <= Len(Funds) + n * Yield
      PROVE  coins'[i].tx <= n
  <2>1. i \in Nat \ {0} /\ coins'[i].tx \in 0 .. sentTx' /\ DOMAIN coins = 1 .. Len(coins)
    <3>1. coins'[i] \in Coins(sentTx') /\ DOMAIN coins' = 1 .. Len(coins') /\ Len(coins') \in Nat
      BY <1>2 DEF WalletTyped
    <3>2. DOMAIN coins = 1 .. Len(coins)
      BY DEF IInv, WalletTyped
    <3> QED
      BY <3>1, <3>2 DEF Coins
  <2>2. CASE n = sentTx'
    BY <1>1, <2>1, <2>2
  <2>3. CASE n # sentTx'
    <3>1. n \in 0 .. sentTx /\ n \in Nat /\ n <= sentTx
      BY <1>1, <2>3
    <3>2. n * Yield <= sentTx * Yield /\ n * Yield \in Nat /\ sentTx * Yield \in Nat
      BY <1>1, <3>1, ProductGrows
    <3> PICK x \in Nat : x = n * Yield
      BY <3>2
    <3> PICK y \in Nat : y = sentTx * Yield
      BY <3>2
    <3>3. i <= Len(Funds) + x /\ x <= y /\ Len(coins) = Len(Funds) + y
      BY <1>3, <1>8, <3>2
    <3>4. i \in DOMAIN coins
      BY <1>1, <2>1, <3>3, Sizes
    <3> QED
      BY <1>2, <1>8, <3>1, <3>4 DEF IInv, InOrder
  <2> QED
    BY <2>2, <2>3
<1> QED
  BY <1>7, <1>8 DEF InOrder

(* All are received but what the pending transactions add. *)
LEMMA ReceivedCount ==
    ASSUME WalletTyped, InOrder
    PROVE  /\ Cardinality(Received) \in Nat /\ sentTx - mined \in Nat
           /\ Len(coins) <= Cardinality(Received) + (sentTx - mined) * Yield
<1>1. /\ DOMAIN coins = 1 .. Len(coins) /\ Len(coins) \in Nat
      /\ mined \in Nat /\ sentTx \in Nat /\ mined <= sentTx
  BY DEF WalletTyped
<1>2. PICK d \in Nat : d = sentTx - mined
  BY <1>1
<1>3. mined * Yield \in Nat /\ d * Yield \in Nat /\ sentTx * Yield = mined * Yield + d * Yield
  <2> PICK y \in Nat : y = Yield
    BY Sizes
  <2>1. (mined + d) * y = mined * y + d * y /\ mined * y \in Nat /\ d * y \in Nat
    BY <1>1
  <2>2. sentTx = mined + d
    BY <1>1, <1>2
  <2> QED
    BY <2>1, <2>2
<1>4. PICK n \in Nat : n = Len(Funds) + mined * Yield
  BY <1>3, Sizes
<1>5. Len(coins) = n + d * Yield /\ n <= Len(coins)
  <2> PICK x \in Nat : x = mined * Yield
    BY <1>3
  <2> PICK z \in Nat : z = d * Yield
    BY <1>3
  <2>1. Len(coins) = Len(Funds) + (x + z) /\ n = Len(Funds) + x
    BY <1>3, <1>4 DEF InOrder
  <2> QED
    BY <2>1, Sizes
<1>6. IsFiniteSet(1 .. Len(coins)) /\ IsFiniteSet(1 .. n) /\ Cardinality(1 .. n) = n
  <2> PICK m \in Nat : m = Len(coins)
    BY <1>1
  <2>1. 1 \in Int /\ n \in Int /\ m \in Int
    OBVIOUS
  <2>2. /\ IsFiniteSet(1 .. m)
        /\ IsFiniteSet(1 .. n) /\ Cardinality(1 .. n) = IF 1 > n THEN 0 ELSE n - 1 + 1
    BY <2>1, FS_Interval
  <2> QED
    BY <2>2
<1>7. 1 .. n \subseteq Received
  BY <1>1, <1>4, <1>5 DEF InOrder, Received, Seen
<1>8. IsFiniteSet(Received)
  BY <1>1, <1>6, FS_Subset DEF Received
<1>9. n <= Cardinality(Received) /\ Cardinality(Received) \in Nat
  BY <1>6, <1>7, <1>8, FS_Subset, FS_CardinalityType
<1>10. Len(coins) <= Cardinality(Received) + d * Yield
  <2> PICK z \in Nat : z = d * Yield
    BY <1>3
  <2>1. Len(coins) = n + z
    BY <1>5
  <2> QED
    BY <1>9, <2>1
<1> QED
  BY <1>2, <1>9, <1>10

LEMMA BlindGrows ==
    ASSUME WalletTyped, InOrder, blind \in Nat, ReadTotal
    PROVE  blind' \in Nat /\ blind <= blind' /\ sentTx - mined <= blind'
<1> DEFINE p == sentTx - mined
<1>1. p \in Nat
  BY ReceivedCount
<1>2. blind' = Max({blind, p})
  BY DEF ReadTotal
<1> HIDE DEF p
<1>3. PICK b \in Nat : b = blind
  OBVIOUS
<1>4. Max({b, p}) \in {b, p} /\ Max({b, p}) >= b /\ Max({b, p}) >= p
  BY <1>1, MaxOfTwo
<1>5. blind' \in {b, p} /\ blind' >= b /\ blind' >= p
  BY <1>2, <1>3, <1>4
<1> QED
  BY <1>1, <1>3, <1>5 DEF p

LEMMA UnspentCount ==
    ASSUME WalletTyped, NEW s
    PROVE  Cardinality(UnspentAt(s)) \in Nat
<1>1. DOMAIN coins = 1 .. Len(coins) /\ Len(coins) \in Nat
  BY DEF WalletTyped
<1>2. IsFiniteSet(1 .. Len(coins))
  BY <1>1, FS_Interval
<1>3. IsFiniteSet(UnspentAt(s))
  BY <1>1, <1>2, FS_Subset DEF Received, UnspentAt
<1> QED
  BY <1>3, FS_CardinalityType

LEMMA UnlockedWorth ==
    ASSUME WalletTyped, NEW s
    PROVE  Worth(UnlockedAt(s)) \in Nat
<1>1. UnlockedAt(s) \in SUBSET DOMAIN coins /\ UnlockedAt(s) \in SUBSET UnlockedAt(s)
  BY DEF UnlockedAt
<1> QED
  BY <1>1, WorthGrows

LEMMA UnlockedSame ==
    ASSUME UNCHANGED <<coins, unlocked, source>>
    PROVE  Worth(UnlockedAt(source))' = Worth(UnlockedAt(source))
<1>1. UnlockedAt(source)' = UnlockedAt(source)
  BY DEF UnlockedAt, Spendable
<1> QED
  BY <1>1, UnlockedUnfolded

LEMMA SubsFinite == IsFiniteSet(Subs)
<1> DEFINE at == [i \in DOMAIN Funds |-> Funds[i].at]
<1>1. /\ DOMAIN Funds = 1 .. Len(Funds) /\ Len(Funds) \in Int
      /\ DOMAIN DestsAt = 1 .. Len(DestsAt) /\ Len(DestsAt) \in Int
  BY FundsAssumption
<1>2. IsFiniteSet(DOMAIN Funds) /\ IsFiniteSet(DOMAIN DestsAt)
  <2>1. 1 \in Int
    OBVIOUS
  <2> QED
    BY <1>1, <2>1, FS_Interval
<1>3. IsFiniteSet(Range(at)) /\ IsFiniteSet(Range(DestsAt))
  <2>1. at \in Surjection(DOMAIN Funds, Range(at))
    BY DEF Surjection, Range
  <2>2. DestsAt \in Surjection(DOMAIN DestsAt, Range(DestsAt))
    BY FundsAssumption DEF Surjection, Range
  <2> HIDE DEF at
  <2> QED
    BY <1>2, <2>1, <2>2, FS_Surjection
<1>4. {0} \cup Range(at) \cup Range(DestsAt) = Subs
  BY DEF Subs, Range
<1>5. IsFiniteSet({0})
  BY FS_Singleton
<1> HIDE DEF at
<1> QED
  BY <1>3, <1>4, <1>5, FS_Union

LEMMA PlanTyped ==
    ASSUME ScriptTyped, Plan
    PROVE  sources' \in Seq(Subs)
<1>1. Fundable \subseteq Subs
  BY DEF Fundable
<1>2. Cardinality(Fundable) \in Nat
  BY <1>1, SubsFinite, FS_Subset, FS_CardinalityType
<1>3. sources' \in [1 .. Cardinality(Fundable) -> Fundable]
  BY DEF Plan
<1> HIDE DEF Fundable
<1>4. sources' \in Seq(Fundable)
  BY <1>2, <1>3
<1> QED
  BY <1>1, <1>4

LEMMA TypedStep ==
    ASSUME IInv, [Next]_vars
    PROVE  WalletTyped' /\ ScriptTyped'
<1> USE DEF IInv
<1>1. CASE ReadTotal
  <2>1. blind' \in Nat
    BY <1>1, BlindGrows DEF ScriptTyped
  <2> QED
    BY <1>1, <2>1, ReceivedCount DEF ReadTotal, wallet, turn, WalletTyped, ScriptTyped
<1>2. CASE ReadBalance
  <2>1. per' \in [Subs -> [unlocked : Nat, unspent : Nat]]
    BY <1>2, UnlockedWorth, UnspentCount DEF ReadBalance
  <2> QED
    BY <1>2, <2>1 DEF ReadBalance, wallet, turn, WalletTyped, ScriptTyped
<1>3. CASE Done \/ NothingUnlocked \/ RoundOver \/ Refused \/ ReadRaises
  BY <1>3 DEF Done, NothingUnlocked, RoundOver, Refused, ReadRaises, wallet, round, turn,
              WalletTyped, ScriptTyped
<1>4. CASE Plan
  <2>1. total \in Nat /\ total < Target
    BY <1>4 DEF Plan, ScriptTyped
  <2>2. Missing \in Nat
    BY <2>1, MissingBelow
  <2> QED
    BY <1>4, <2>2, PlanTyped DEF Plan, wallet, turn, WalletTyped, ScriptTyped
<1>5. CASE TakeSource
  <2>1. sources # <<>> /\ sources \in Seq(Subs)
    BY <1>5 DEF TakeSource, ScriptTyped
  <2>2. Head(sources) \in Subs /\ Tail(sources) \in Seq(Subs)
    BY <2>1
  <2>3. Attempts(Head(sources)) \in Nat
    BY <1>5, <2>2, AttemptsBelow DEF TakeSource
  <2> QED
    BY <1>5, <2>2, <2>3 DEF TakeSource, wallet, WalletTyped, ScriptTyped
<1>6. CASE Size
  <2>1. Worth(UnlockedAt(source)) \in Nat /\ k - tries \in Nat \ {0}
    BY <1>6, UnlockedWorth DEF Size, ScriptTyped, WithinNeed
  <2>2. Share \in Int
    BY <2>1, ShareBelow, Sizes DEF Share
  <2> QED
    BY <1>6, <2>2 DEF Size, wallet, round, WalletTyped, ScriptTyped
<1>7. CASE Transfer
  <2>1. WalletTyped'
    BY <1>7, SentTyped DEF Transfer
  <2> QED
    BY <1>7, <2>1 DEF Transfer, ScriptTyped
<1>8. CASE AnswerLost
  <2>1. WalletTyped'
    BY <1>8, SentTyped DEF AnswerLost
  <2> QED
    BY <1>8, <2>1 DEF AnswerLost, round, turn, ScriptTyped
<1>9. CASE Mine \/ Unlock
  <2>1. UNCHANGED <<coins, sentTx>> /\ mined' \in 0 .. sentTx /\ unlocked' \in 0 .. mined'
    BY <1>9 DEF Mine, Unlock, WalletTyped
  <2>2. WalletTyped'
    BY <2>1 DEF WalletTyped
  <2>3. UNCHANGED <<pc, round, turn, blind, lost>>
    BY <1>9 DEF Mine, Unlock
  <2> QED
    BY <2>2, <2>3 DEF round, turn, ScriptTyped
<1>10. CASE UNCHANGED vars
  BY <1>10 DEF vars, wallet, round, turn, WalletTyped, ScriptTyped
<1> QED
  BY <1>1, <1>2, <1>3, <1>4, <1>5, <1>6, <1>7, <1>8, <1>9, <1>10 DEF Next, Script

LEMMA CoveredStep ==
    ASSUME IInv, [Next]_vars
    PROVE  Covered'
<1> USE DEF IInv
<1>1. CASE Size
  <2>1. Worth(UnlockedAt(source)) \in Nat /\ k - tries \in Nat \ {0}
    BY <1>1, UnlockedWorth DEF Size, ScriptTyped, WithinNeed
  <2>2. Share \in Int /\ Share * Dests + Reserve <= Worth(UnlockedAt(source))
    BY <2>1, ShareBelow, Sizes DEF Share
  <2>3. Worth(UnlockedAt(source))' = Worth(UnlockedAt(source))
    BY <1>1, UnlockedSame DEF Size, wallet
  <2> QED
    BY <1>1, <2>2, <2>3 DEF Size, Covered
<1>2. CASE pc = "transfer" /\ Unlock
  <2>1. UnlockedAt(source) \in SUBSET UnlockedAt(source)' /\ UnlockedAt(source)' \in SUBSET DOMAIN coins
    <3>1. unlocked' = unlocked + 1 /\ unlocked \in Int /\ coins' = coins /\ source' = source
      BY <1>2 DEF Unlock, turn, WalletTyped
    <3>2. \A i \in DOMAIN coins : coins[i].tx \in Int
      <4>1. \A i \in DOMAIN coins : coins[i] \in Coins(sentTx)
        BY DEF WalletTyped
      <4> QED
        BY <4>1 DEF Coins, WalletTyped
    <3> QED
      BY <3>1, <3>2 DEF UnlockedAt, Spendable
  <2>2. /\ Worth(UnlockedAt(source)) \in Nat /\ Worth(UnlockedAt(source)') \in Nat
        /\ Worth(UnlockedAt(source)) <= Worth(UnlockedAt(source)')
    BY <2>1, WorthGrows
  <2>3. Worth(UnlockedAt(source))' = Worth(UnlockedAt(source)')
    BY <1>2, UnlockedUnfolded, WorthUnfolded DEF Unlock
  <2>4. amount > 0 /\ amount * Dests + Reserve <= Worth(UnlockedAt(source))
    BY <1>2 DEF Covered
  <2>5. amount * Dests + Reserve \in Int
    BY Sizes DEF ScriptTyped
  <2> QED
    BY <1>2, <2>2, <2>3, <2>4, <2>5 DEF Unlock, turn, Covered
<1>3. CASE Mine \/ UNCHANGED vars
  <2>1. Worth(UnlockedAt(source))' = Worth(UnlockedAt(source))
    BY <1>3, UnlockedSame DEF Mine, vars, wallet, turn
  <2> QED
    BY <1>3, <2>1 DEF Mine, vars, wallet, turn, Covered
<1>4. CASE pc' # "transfer"
  BY <1>4 DEF Covered
<1> QED
  BY <1>1, <1>2, <1>3, <1>4 DEF Next, Script, ReadTotal, ReadBalance, Done, NothingUnlocked, Plan,
     TakeSource, RoundOver, Transfer, Refused, AnswerLost, ReadRaises, Unlock

LEMMA WithinStep ==
    ASSUME IInv, [Next]_vars
    PROVE  WithinNeed'
<1> USE DEF IInv
<1>1. CASE Plan
  <2>1. total \in Nat /\ total < Target
    BY <1>1 DEF Plan, ScriptTyped
  <2>2. Missing \in Nat /\ total + Missing * Yield <= Target + Dests
    BY <2>1, MissingBelow
  <2> QED
    BY <1>1, <2>2 DEF Plan, WithinNeed, Yield
<1>2. CASE TakeSource
  <2>1. sources # <<>> /\ sources \in Seq(Subs)
    BY <1>2 DEF TakeSource, ScriptTyped
  <2>2. Head(sources) \in Subs
    BY <2>1
  <2>3. /\ Attempts(Head(sources)) \in Nat /\ 1 <= Attempts(Head(sources))
        /\ Attempts(Head(sources)) <= need - sent
    BY <1>2, <2>2, AttemptsBelow DEF TakeSource
  <2> QED
    BY <1>2, <2>3 DEF TakeSource, WithinNeed, Spending, Yield, ScriptTyped
<1>3. CASE Transfer
  BY <1>3 DEF Transfer, WithinNeed, Spending, Yield, ScriptTyped
<1>4. CASE Size \/ Refused \/ AnswerLost
  BY <1>4 DEF Size, Refused, AnswerLost, round, turn, WithinNeed, Spending, Yield
<1>5. CASE Mine \/ Unlock \/ UNCHANGED vars
  BY <1>5 DEF Mine, Unlock, vars, round, turn, WithinNeed, Spending, Yield
<1>6. CASE pc' \notin Spending
  BY <1>6 DEF WithinNeed, Spending
<1> QED
  BY <1>1, <1>2, <1>3, <1>4, <1>5, <1>6 DEF Next, Script, Spending, ReadTotal, ReadBalance, Done,
     NothingUnlocked, RoundOver, ReadRaises

LEMMA InOrderStep ==
    ASSUME IInv, [Next]_vars
    PROVE  InOrder'
<1>1. CASE Transfer \/ AnswerLost
  BY <1>1, SentInOrder DEF Transfer, AnswerLost
<1>2. CASE UNCHANGED <<coins, sentTx>>
  BY <1>2 DEF IInv, InOrder
<1> QED
  BY <1>1, <1>2 DEF Next, Script, ReadTotal, ReadBalance, Done, NothingUnlocked, Plan, TakeSource,
     RoundOver, Size, Refused, ReadRaises, Mine, Unlock, vars, wallet

(* A round begins knowing of all but the pending transactions; from then on
   only a transaction of the round adds to what there is, and it is either
   counted as sent or lost. *)
LEMMA AllCountedStep ==
    ASSUME IInv, [Next]_vars
    PROVE  AllCounted'
<1> USE DEF IInv
<1>0. Len(coins) \in Nat /\ total \in Nat /\ sent \in Nat /\ lost \in Nat /\ blind \in Nat
  BY DEF WalletTyped, ScriptTyped
<1>1. CASE ReadTotal
  <2>1. /\ Cardinality(Received) \in Nat /\ sentTx - mined \in Nat
        /\ Len(coins) <= Cardinality(Received) + (sentTx - mined) * Yield
    BY ReceivedCount
  <2>2. blind' \in Nat /\ sentTx - mined <= blind'
    BY <1>0, <1>1, BlindGrows
  <2>3. /\ (sentTx - mined) * Yield <= blind' * Yield
        /\ (sentTx - mined) * Yield \in Nat /\ blind' * Yield \in Nat
    BY <2>1, <2>2, ProductGrows
  <2>4. coins' = coins /\ pc' = "balance" /\ total' = Cardinality(Received)
    BY <1>1 DEF ReadTotal, wallet
  <2>5. Len(coins') <= total' + blind' * Yield
    <3> PICK x \in Nat : x = (sentTx - mined) * Yield
      BY <2>3
    <3> PICK y \in Nat : y = blind' * Yield
      BY <2>3
    <3>1. Len(coins) <= Cardinality(Received) + x /\ x <= y
      BY <2>1, <2>3
    <3>2. Len(coins) <= Cardinality(Received) + y
      BY <1>0, <2>1, <3>1
    <3> QED
      BY <2>4, <3>2
  <2> QED
    BY <2>4, <2>5 DEF AllCounted, Spending
<1>2. CASE ReadBalance
  BY <1>2 DEF ReadBalance, wallet, AllCounted, Spending
<1>3. CASE Plan
  <2>1. UNCHANGED <<coins, total, lost, blind>> /\ sent' = 0 /\ pc = "plan" /\ pc' = "source"
    BY <1>3 DEF Plan, wallet
  <2>2. 0 + (blind + lost) \in Nat /\ blind <= 0 + (blind + lost)
    BY <1>0
  <2>3. /\ blind * Yield <= (0 + (blind + lost)) * Yield
        /\ blind * Yield \in Nat /\ (0 + (blind + lost)) * Yield \in Nat
    BY <1>0, <2>2, ProductGrows
  <2>4. Len(coins) <= total + blind * Yield
    BY <2>1 DEF AllCounted
  <2>5. Len(coins) <= total + (0 + (blind + lost)) * Yield
    <3> PICK x \in Nat : x = blind * Yield
      BY <2>3
    <3> PICK y \in Nat : y = (0 + (blind + lost)) * Yield
      BY <2>3
    <3>1. Len(coins) <= total + x /\ x <= y
      BY <2>3, <2>4
    <3>2. Len(coins) <= total + y
      BY <1>0, <3>1
    <3> QED
      BY <3>2
  <2> QED
    BY <2>1, <2>5 DEF AllCounted, Spending
<1>4. CASE Transfer
  <2>1. Len(coins') = Len(coins) + Yield
    BY <1>4, SentTyped DEF Transfer
  <2>2. /\ UNCHANGED <<total, lost, blind>> /\ sent' = sent + 1
        /\ pc = "transfer" /\ pc' \in Spending
    BY <1>4 DEF Transfer, Spending
  <2>3. /\ (sent + 1 + (blind + lost)) * Yield = (sent + (blind + lost)) * Yield + Yield
        /\ (sent + (blind + lost)) * Yield \in Int /\ Yield \in Int
    BY <1>0, OneMore
  <2>4. Len(coins') <= total + (sent' + (blind' + lost')) * Yield
    <3> PICK x \in Int : x = (sent + (blind + lost)) * Yield
      BY <2>3
    <3>1. Len(coins) <= total + x
      BY <2>2 DEF AllCounted, Spending
    <3>2. Len(coins') <= total + (x + Yield)
      BY <1>0, <2>1, <2>3, <3>1
    <3> QED
      BY <2>2, <2>3, <3>2
  <2> QED
    BY <2>2, <2>4 DEF AllCounted, Spending
<1>5. CASE Refused
  BY <1>5 DEF Refused, wallet, round, AllCounted, Spending
<1>6. CASE AnswerLost
  <2>1. UNCHANGED <<total, sent, blind>> /\ pc = "transfer" /\ pc' = "source" /\ lost' = lost + 1
    BY <1>6 DEF AnswerLost, round
  <2>2. Len(coins') = Len(coins) + Yield
    BY <1>6, SentTyped DEF AnswerLost
  <2>3. /\ (sent + ((blind + lost) + 1)) * Yield = (sent + (blind + lost)) * Yield + Yield
        /\ (sent + (blind + lost)) * Yield \in Int /\ Yield \in Int
    BY <1>0, OneMore
  <2>4. Len(coins') <= total + (sent' + (blind' + lost')) * Yield
    <3> PICK x \in Int : x = (sent + (blind + lost)) * Yield
      BY <2>3
    <3>1. Len(coins) <= total + x
      BY <2>1 DEF AllCounted, Spending
    <3>2. Len(coins') <= total + (x + Yield)
      BY <1>0, <2>2, <2>3, <3>1
    <3>3. blind + (lost + 1) = (blind + lost) + 1
      BY <1>0
    <3> QED
      BY <2>1, <2>3, <3>2, <3>3
  <2> QED
    BY <2>1, <2>4 DEF AllCounted, Spending
<1>7. CASE TakeSource \/ Size
  BY <1>7 DEF TakeSource, Size, wallet, round, AllCounted, Spending
<1>8. CASE Mine \/ Unlock \/ UNCHANGED vars
  BY <1>8 DEF Mine, Unlock, vars, wallet, round, AllCounted, Spending
<1>9. CASE pc' \in {"total", "done", "raised"}
  BY <1>9 DEF AllCounted, Spending
<1> QED
  BY <1>1, <1>2, <1>3, <1>4, <1>5, <1>6, <1>7, <1>8, <1>9 DEF Next, Script, Done, NothingUnlocked,
     RoundOver, ReadRaises

(* Outputs are only added by a transaction: one that is lost is allowed
   for, and one that is counted was missing from what the round knew of. *)
LEMMA OvershootStep ==
    ASSUME IInv, [Next]_vars
    PROVE  NoOvershoot'
<1> USE DEF IInv
<1>0. /\ Len(coins) \in Nat /\ total \in Nat /\ sent \in Nat /\ lost \in Nat /\ need \in Nat
      /\ blind \in Nat
  BY DEF WalletTyped, ScriptTyped
<1>1. NoOvershoot = (Len(coins) <= Goal + (blind + lost) * Yield)
  BY DEF NoOvershoot, Goal, Yield
<1>2. NoOvershoot' = (Len(coins') <= Goal + (blind' + lost') * Yield)
  BY DEF NoOvershoot, Goal, Yield
<1>3. CASE Transfer
  <2>1. Len(coins') = Len(coins) + Yield
    BY <1>3, SentTyped DEF Transfer
  <2>2. /\ UNCHANGED <<lost, blind>> /\ pc = "transfer"
        /\ total + need * Yield <= Target + Dests /\ sent + 1 <= need
    BY <1>0, <1>3 DEF Transfer, WithinNeed, Spending, ScriptTyped
  <2>3. PICK owed \in Nat : owed = blind + lost
    BY <1>0
  <2>4. /\ (sent + 1 + owed) * Yield = (sent + owed) * Yield + Yield
        /\ (sent + 1 + owed) * Yield <= need * Yield + owed * Yield
        /\ (sent + owed) * Yield \in Int /\ need * Yield \in Int /\ owed * Yield \in Int
        /\ Yield \in Int
    BY <1>0, <2>2, OneMore, WithinProduct
  <2>5. Len(coins) <= total + (sent + owed) * Yield
    BY <2>2, <2>3 DEF AllCounted, Spending
  <2>6. Len(coins') <= Goal + owed * Yield
    <3>1. total + need * Yield <= Goal
      BY <1>0, <2>2, <2>4, GoalAbove, Sizes
    <3> PICK x \in Int : x = (sent + owed) * Yield
      BY <2>4
    <3> PICK y \in Int : y = need * Yield
      BY <2>4
    <3> PICK z \in Int : z = owed * Yield
      BY <2>4
    <3>2. x + Yield <= y + z /\ Len(coins) <= total + x /\ total + y <= Goal
      BY <2>4, <2>5, <3>1
    <3>3. Len(coins') <= Goal + z
      BY <1>0, <2>1, <2>4, <3>2, GoalAbove
    <3> QED
      BY <3>3
  <2> QED
    BY <1>2, <2>2, <2>3, <2>6
<1>4. CASE AnswerLost
  <2>1. blind' = blind /\ lost' = lost + 1 /\ Len(coins') = Len(coins) + Yield
    BY <1>4, SentTyped DEF AnswerLost
  <2>2. /\ (blind + (lost + 1)) * Yield = (blind + lost) * Yield + Yield
        /\ (blind + lost) * Yield \in Int /\ Yield \in Int
    BY <1>0, OneMore
  <2> QED
    BY <1>0, <1>1, <1>2, <2>1, <2>2, GoalAbove
<1>5. CASE ReadTotal
  <2>1. UNCHANGED <<coins, lost>>
    BY <1>5 DEF ReadTotal, wallet
  <2>2. blind + lost \in Nat /\ blind' + lost \in Nat /\ blind + lost <= blind' + lost
    <3>1. blind' \in Nat /\ blind <= blind'
      BY <1>0, <1>5, BlindGrows
    <3>2. blind \in Nat /\ lost \in Nat
      BY <1>0
    <3> QED
      BY <3>1, <3>2, SumGrows
  <2>3. /\ (blind + lost) * Yield <= (blind' + lost) * Yield
        /\ (blind + lost) * Yield \in Nat /\ (blind' + lost) * Yield \in Nat
    BY <2>2, ProductGrows
  <2>4. Len(coins) <= Goal + (blind' + lost) * Yield
    <3> PICK x \in Nat : x = (blind + lost) * Yield
      BY <2>3
    <3> PICK y \in Nat : y = (blind' + lost) * Yield
      BY <2>3
    <3>1. Len(coins) <= Goal + x /\ x <= y
      BY <1>1, <2>3
    <3>2. Len(coins) <= Goal + y
      BY <1>0, <3>1, GoalAbove
    <3> QED
      BY <3>2
  <2> QED
    BY <1>2, <2>1, <2>4
<1>6. CASE UNCHANGED <<coins, lost, blind>>
  BY <1>1, <1>2, <1>6
<1> QED
  BY <1>3, <1>4, <1>5, <1>6 DEF Next, Script, ReadBalance, Done, NothingUnlocked, Plan, TakeSource,
     RoundOver, Size, Refused, ReadRaises, Mine, Unlock, vars, wallet

LEMMA NextInv == IInv /\ [Next]_vars => IInv'
<1> SUFFICES ASSUME IInv, [Next]_vars PROVE IInv'
  OBVIOUS
<1>1. WalletTyped' /\ ScriptTyped'
  BY TypedStep
<1>2. Covered' /\ WithinNeed'
  BY CoveredStep, WithinStep
<1>3. InOrder' /\ AllCounted' /\ NoOvershoot'
  BY InOrderStep, AllCountedStep, OvershootStep
<1> QED
  BY <1>1, <1>2, <1>3 DEF IInv

LEMMA Invariance == Spec => []IInv
<1>1. Init => IInv
  BY InitInv
<1>2. IInv /\ [Next]_vars => IInv'
  BY NextInv
<1> QED
  BY <1>1, <1>2, PTL DEF Spec

-----------------------------------------------------------------------------
(* The theorems *)

(* fanout.py never asks a subaddress for a transfer it cannot pay, if the
   reserve is at least the fee: the share of an unlocked balance is worked
   out anew before every transfer, and until the transfer is made the balance
   can only grow. *)
THEOREM TransfersAffordable == Spec => []Affordable
<1>1. IInv => Affordable
  <2> SUFFICES ASSUME IInv, pc = "transfer", Fee <= Reserve
               PROVE  Worth(UnlockedAt(source)) >= Needed
    BY DEF Affordable
  <2>1. amount * Dests + Reserve <= Worth(UnlockedAt(source))
    BY DEF IInv, Covered
  <2>2. Worth(UnlockedAt(source)) \in Nat
    BY UnlockedWorth DEF IInv
  <2>3. amount * Dests \in Int
    BY Sizes DEF IInv, ScriptTyped
  <2> QED
    BY <2>1, <2>2, <2>3, Sizes DEF Needed
<1> QED
  BY <1>1, Invariance, PTL

(* fanout.py counts what was received when a round begins, and a minute is
   less than a transaction takes to be mined: what is pending then is missed
   and sent again.  However many rounds there are, that excess is at most
   what was pending when one of them began: the target is passed by less than
   one transaction, by those, and by those whose answers were lost. *)
THEOREM NoMoreThanMissing == Spec => []NoOvershoot
<1>1. IInv => NoOvershoot
  BY DEF IInv
<1> QED
  BY <1>1, Invariance, PTL
=============================================================================

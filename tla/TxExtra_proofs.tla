---------------------------- MODULE TxExtra_proofs ----------------------------
(***************************************************************************)
(* KeysReadable and FieldsKept for any number of fields, any lengths and   *)
(* any widths of digits and words.                                         *)
(*                                                                         *)
(* A varint that was written is read back, so is a field, and so are       *)
(* fields one after the other.  Sorting them leaves those of one tag in    *)
(* their order.  What is written in the end is therefore what is there     *)
(* when it is written, and that is compared with what was parsed.          *)
(***************************************************************************)
EXTENDS TxExtra, SequenceTheorems, WellFoundedInduction, TLAPS

-----------------------------------------------------------------------------
(* Induction *)

LEMMA LeastExists ==
    ASSUME NEW T, T \subseteq Nat, T # {}
    PROVE  \E x \in T : \A y \in T : x <= y
<1> DEFINE R == OpToRel(<, Nat)
<1>1. IsWellFoundedOn(R, Nat)
  BY NatLessThanWellFounded
<1>2. \A x, y \in Nat : y < x => <<y, x>> \in R
  BY DEF OpToRel
<1> HIDE DEF R
<1>3. PICK x \in T : \A y \in T : ~ (<<y, x>> \in R)
  BY <1>1, WFMin
<1>4. \A y \in T : ~(y < x)
  BY <1>2, <1>3, Zenon
<1> QED
  BY <1>4

(* Of numbers, and of sequences that grow at their end, by the set of those
   of which something is so. *)
LEMMA NumbersAll ==
    ASSUME NEW Good, 0 \in Good, \A n \in Nat : n \in Good => n + 1 \in Good
    PROVE  \A n \in Nat : n \in Good
<1> DEFINE Bad == {n \in Nat : n \notin Good}
<1>1. SUFFICES ASSUME Bad # {} PROVE FALSE
  OBVIOUS
<1>2. PICK n \in Bad : \A m \in Bad : n <= m
  <2>1. Bad \subseteq Nat
    OBVIOUS
  <2> HIDE DEF Bad
  <2> QED
    BY <1>1, <2>1, LeastExists
<1>3. n \in Nat /\ n # 0 /\ n - 1 \in Nat /\ n - 1 \notin Bad
  BY <1>2
<1>4. n - 1 \in Good /\ (n - 1) + 1 = n
  BY <1>3
<1> QED
  BY <1>2, <1>3, <1>4

LEMMA SequencesAll ==
    ASSUME NEW S, NEW Good, <<>> \in Good,
           \A s \in Seq(S) : \A x \in S : s \in Good => Append(s, x) \in Good
    PROVE  \A s \in Seq(S) : s \in Good
<1> DEFINE Lengths == {n \in Nat : \A s \in Seq(S) : Len(s) = n => s \in Good}
<1>1. 0 \in Lengths
  OBVIOUS
<1>2. ASSUME NEW n \in Nat, n \in Lengths PROVE n + 1 \in Lengths
  <2> SUFFICES ASSUME NEW s \in Seq(S), Len(s) = n + 1 PROVE s \in Good
    OBVIOUS
  <2>1. PICK r \in Seq(S), x \in S : s = Append(r, x)
    BY SequenceEmptyOrAppend
  <2>2. Len(r) = n
    BY <2>1
  <2> QED
    BY <1>2, <2>1, <2>2
<1>3. \A n \in Nat : n \in Lengths
  <2> HIDE DEF Lengths
  <2> QED
    BY <1>1, <1>2, NumbersAll
<1> QED
  BY <1>3

-----------------------------------------------------------------------------
(* Powers of two *)

Doubles(f, n) == f = [i \in 0 .. n |-> IF i = 0 THEN 1 ELSE 2 * f[i - 1]]

LEMMA DoublesExists == \A n \in Nat : \E f \in [0 .. n -> Nat \ {0}] : Doubles(f, n)
<1> DEFINE Good == {n \in Nat : \E f \in [0 .. n -> Nat \ {0}] : Doubles(f, n)}
<1>1. 0 \in Good
  <2>1. [i \in 0 .. 0 |-> 1] \in [0 .. 0 -> Nat \ {0}] /\ Doubles([i \in 0 .. 0 |-> 1], 0)
    BY DEF Doubles
  <2> QED
    BY <2>1
<1>2. ASSUME NEW n \in Nat, n \in Good PROVE n + 1 \in Good
  <2>1. PICK f \in [0 .. n -> Nat \ {0}] : Doubles(f, n)
    BY <1>2
  <2> DEFINE g == [i \in 0 .. n + 1 |-> IF i = 0 THEN 1 ELSE 2 * f[i - 1]]
  <2>2. g \in [0 .. n + 1 -> Nat \ {0}]
    OBVIOUS
  <2>3. \A i \in 0 .. n : g[i] = f[i]
    BY <2>1 DEF Doubles
  <2>4. Doubles(g, n + 1)
    <3>1. \A i \in 0 .. n + 1 : g[i] = IF i = 0 THEN 1 ELSE 2 * f[i - 1]
      OBVIOUS
    <3>2. \A i \in 0 .. n + 1 : i # 0 => i - 1 \in 0 .. n
      OBVIOUS
    <3>3. g = [i \in 0 .. n + 1 |-> g[i]]
      OBVIOUS
    <3> HIDE DEF g
    <3>4. \A i \in 0 .. n + 1 : g[i] = IF i = 0 THEN 1 ELSE 2 * g[i - 1]
      BY <2>3, <3>1, <3>2
    <3> QED
      BY <3>3, <3>4 DEF Doubles
  <2> QED
    BY <2>2, <2>4
<1>3. \A n \in Nat : n \in Good
  <2> HIDE DEF Good
  <2> QED
    BY <1>1, <1>2, NumbersAll
<1> QED
  BY <1>3

LEMMA DoublesUnique ==
    ASSUME NEW m \in Nat, NEW n \in Nat, NEW f, NEW g, Doubles(f, m), Doubles(g, n)
    PROVE  \A i \in Nat : i <= m /\ i <= n => f[i] = g[i]
<1> DEFINE Good == {i \in Nat : i <= m /\ i <= n => f[i] = g[i]}
<1>1. 0 \in Good
  BY DEF Doubles
<1>2. ASSUME NEW i \in Nat, i \in Good PROVE i + 1 \in Good
  <2> SUFFICES ASSUME i + 1 <= m, i + 1 <= n PROVE f[i + 1] = g[i + 1]
    OBVIOUS
  <2>1. f[i] = g[i]
    BY <1>2
  <2>2. f[i + 1] = 2 * f[i] /\ g[i + 1] = 2 * g[i]
    BY DEF Doubles
  <2> QED
    BY <2>1, <2>2
<1>3. \A i \in Nat : i \in Good
  <2> HIDE DEF Good
  <2> QED
    BY <1>1, <1>2, NumbersAll
<1> QED
  BY <1>3

LEMMA TwoUnfolds ==
    /\ Two[0] = 1
    /\ \A n \in Nat : Two[n] \in Nat \ {0} /\ Two[n + 1] = 2 * Two[n]
<1> DEFINE Part(n) == CHOOSE f \in [0 .. n -> Nat \ {0}] : Doubles(f, n)
           two == [n \in Nat |-> Part(n)[n]]
<1>1. \A n \in Nat : Part(n) \in [0 .. n -> Nat \ {0}] /\ Doubles(Part(n), n)
  BY DoublesExists
<1> HIDE DEF Part
<1>2. \A n \in Nat : two[n] \in Nat \ {0}
  BY <1>1
<1>3. \A n \in Nat : two[n] = IF n = 0 THEN 1 ELSE 2 * two[n - 1]
  <2> TAKE n \in Nat
  <2>1. Part(n)[n] = IF n = 0 THEN 1 ELSE 2 * Part(n)[n - 1]
    BY <1>1 DEF Doubles
  <2>2. n # 0 => Part(n)[n - 1] = Part(n - 1)[n - 1]
    <3> SUFFICES ASSUME n # 0 PROVE Part(n)[n - 1] = Part(n - 1)[n - 1]
      OBVIOUS
    <3>1. n - 1 \in Nat /\ n - 1 <= n /\ n - 1 <= n - 1
      OBVIOUS
    <3>2. Doubles(Part(n), n) /\ Doubles(Part(n - 1), n - 1)
      BY <1>1, <3>1
    <3> QED
      BY <3>1, <3>2, DoublesUnique
  <2> QED
    BY <2>1, <2>2
<1>4. two = [n \in Nat |-> IF n = 0 THEN 1 ELSE 2 * two[n - 1]]
  BY <1>3
<1> HIDE DEF two
<1>5. Two = [n \in Nat |-> IF n = 0 THEN 1 ELSE 2 * Two[n - 1]]
  BY <1>4 DEF Two
<1>6. \A n \in Nat : Two[n] = two[n]
  <2> DEFINE Good == {n \in Nat : Two[n] = two[n]}
  <2>1. 0 \in Good
    BY <1>3, <1>5
  <2>2. ASSUME NEW n \in Nat, n \in Good PROVE n + 1 \in Good
    <3>1. Two[n + 1] = 2 * Two[n] /\ two[n + 1] = 2 * two[n]
      BY <1>3, <1>5
    <3> QED
      BY <2>2, <3>1
  <2>3. \A n \in Nat : n \in Good
    <3> HIDE DEF Good
    <3> QED
      BY <2>1, <2>2, NumbersAll
  <2> QED
    BY <2>3
<1> QED
  BY <1>2, <1>5, <1>6

LEMMA TwoAdds == \A m, n \in Nat : Two[m + n] = Two[m] * Two[n]
<1> TAKE m \in Nat
<1> DEFINE Good == {n \in Nat : Two[m + n] = Two[m] * Two[n]}
<1>1. 0 \in Good
  BY TwoUnfolds
<1>2. ASSUME NEW n \in Nat, n \in Good PROVE n + 1 \in Good
  <2>1. Two[n + 1] = 2 * Two[n] /\ Two[(m + n) + 1] = 2 * Two[m + n]
    BY TwoUnfolds
  <2>2. Two[m] \in Nat /\ Two[n] \in Nat /\ Two[m + n] = Two[m] * Two[n]
    BY <1>2, TwoUnfolds
  <2> PICK a \in Nat, b \in Nat : a = Two[m] /\ b = Two[n]
    BY <2>2
  <2>3. 2 * (a * b) = a * (2 * b)
    OBVIOUS
  <2>4. (m + n) + 1 = m + (n + 1)
    OBVIOUS
  <2> QED
    BY <2>1, <2>2, <2>3, <2>4
<1>3. \A n \in Nat : n \in Good
  <2> HIDE DEF Good
  <2> QED
    BY <1>1, <1>2, NumbersAll
<1> QED
  BY <1>3

LEMMA TwoGrows == \A m, n \in Nat : m <= n => Two[m] <= Two[n]
<1> SUFFICES ASSUME NEW m \in Nat, NEW n \in Nat, m <= n PROVE Two[m] <= Two[n]
  OBVIOUS
<1>1. n - m \in Nat /\ n = m + (n - m)
  OBVIOUS
<1>2. Two[n] = Two[m] * Two[n - m]
  BY <1>1, TwoAdds
<1>3. Two[m] \in Nat \ {0} /\ Two[n - m] \in Nat \ {0}
  BY <1>1, TwoUnfolds
<1> PICK a \in Nat, b \in Nat \ {0} : a = Two[m] /\ b = Two[n - m]
  BY <1>3
<1>4. a <= a * b
  OBVIOUS
<1> QED
  BY <1>2, <1>4

LEMMA Widths ==
    /\ DigitBits \in Nat \ {0} /\ WordBits \in Nat \ {0}
    /\ More \in Nat /\ More >= 2 /\ WordSize \in Nat \ {0} /\ ByteSize = 2 * More
    /\ Byte = 0 .. 2 * More - 1 /\ More \in Byte
<1>1. DigitBits \in Nat \ {0} /\ WordBits \in Nat \ {0}
  BY WidthAssumption
<1>2. Two[1] = 2
  <2>1. Two[0 + 1] = 2 * Two[0]
    BY TwoUnfolds
  <2> QED
    BY <2>1, TwoUnfolds
<1>3. Two[1] <= Two[DigitBits]
  BY <1>1, TwoGrows
<1>4. Two[DigitBits] \in Nat /\ Two[WordBits] \in Nat \ {0}
  BY <1>1, TwoUnfolds
<1> QED
  BY <1>1, <1>2, <1>3, <1>4 DEF More, WordSize, ByteSize, Byte

-----------------------------------------------------------------------------
LEMMA Shifted == \A a, b \in Nat : a + More * b \in Nat
<1> PICK q \in Nat : q = More
  BY Widths
<1>1. \A a, b \in Nat : a + q * b \in Nat
  OBVIOUS
<1> QED
  BY <1>1

(* The number that digits make, the lowest first: the fold of Varint. *)

DigitValue(s) == FoldRight(LAMBDA byte, high : (byte % More) + More * high, s, 0)

Values(s, F, D) ==
    F = [T \in SUBSET D |->
            IF T = {} THEN 0 ELSE (s[Min(T)] % More) + More * F[T \ {Min(T)}]]

ValuesOfLast(s, D) == \E F \in [SUBSET D -> Nat] : Values(s, F, D)

ValueOver(s) == CHOOSE F : Values(s, F, DOMAIN s)

LEMMA ValueUnfolded == \A s : DigitValue(s) = ValueOver(s)[DOMAIN s]
BY DEF DigitValue, FoldRight, MapThenFoldSet, ValueOver, Values

LEMMA LeastIs ==
    ASSUME NEW T \in SUBSET Int, NEW i \in T, \A j \in T : i <= j
    PROVE  Min(T) = i
<1>1. \A x \in T : (\A y \in T : x =< y) <=> x = i
  OBVIOUS
<1> QED
  BY <1>1 DEF Min

LEMMA DigitsAre ==
    ASSUME NEW s \in Seq(Byte)
    PROVE  /\ Len(s) \in Nat /\ DOMAIN s = 1 .. Len(s)
           /\ \A i \in 1 .. Len(s) : s[i] \in Nat /\ s[i] % More \in Nat
<1>1. Len(s) \in Nat /\ DOMAIN s = 1 .. Len(s) /\ \A i \in 1 .. Len(s) : s[i] \in Byte
  OBVIOUS
<1>2. \A b \in Byte : b \in Nat /\ b % More \in Nat
  BY Widths
<1> QED
  BY <1>1, <1>2

LEMMA ValueExists ==
    ASSUME NEW s \in Seq(Byte)
    PROVE  \E F \in [SUBSET DOMAIN s -> Nat] : Values(s, F, DOMAIN s)
<1> DEFINE n == Len(s)
           Ends(k) == n + 1 - k .. n
           Good == {k \in Nat : k <= n => ValuesOfLast(s, Ends(k))}
<1>0. n \in Nat /\ DOMAIN s = 1 .. n /\ \A i \in 1 .. n : s[i] % More \in Nat
  BY DigitsAre
<1> HIDE DEF n
<1>1. 0 \in Good
  <2> DEFINE F == [T \in SUBSET Ends(0) |-> 0]
  <2>1. \A T \in SUBSET Ends(0) : T = {}
    BY <1>0
  <2>2. F \in [SUBSET Ends(0) -> Nat] /\ Values(s, F, Ends(0))
    BY <2>1 DEF Values
  <2> QED
    BY <2>2 DEF ValuesOfLast
<1>2. ASSUME NEW k \in Nat, k \in Good PROVE k + 1 \in Good
  <2> SUFFICES ASSUME k + 1 <= n PROVE ValuesOfLast(s, Ends(k + 1))
    OBVIOUS
  <2>0. ValuesOfLast(s, Ends(k))
    BY <1>0, <1>2
  <2>1. PICK G \in [SUBSET Ends(k) -> Nat] : Values(s, G, Ends(k))
    BY <2>0 DEF ValuesOfLast
  <2> PICK i \in 1 .. n : i = n - k
    BY <1>0
  <2>2. Ends(k + 1) = i .. n /\ Ends(k) = i + 1 .. n
    BY <1>0
  <2> HIDE DEF Ends
  <2>3. \A T \in SUBSET (i .. n) : i \in T => Min(T) = i /\ T \ {i} \in SUBSET (i + 1 .. n)
    <3> SUFFICES ASSUME NEW T \in SUBSET (i .. n), i \in T
                 PROVE  Min(T) = i /\ T \ {i} \in SUBSET (i + 1 .. n)
      OBVIOUS
    <3>1. T \in SUBSET Int /\ \A j \in T : i <= j
      BY <1>0
    <3>2. T \ {i} \in SUBSET (i + 1 .. n)
      BY <1>0
    <3> QED
      BY <3>1, <3>2, LeastIs
  <2>4. \A T \in SUBSET (i .. n) : i \notin T => T \in SUBSET (i + 1 .. n)
    BY <1>0
  <2> DEFINE F == [T \in SUBSET (i .. n) |->
                     IF i \in T THEN (s[i] % More) + More * G[T \ {i}] ELSE G[T]]
  <2>5. \A T \in SUBSET (i + 1 .. n) :
          /\ G[T] \in Nat
          /\ G[T] = IF T = {} THEN 0 ELSE (s[Min(T)] % More) + More * G[T \ {Min(T)}]
    BY <2>1, <2>2 DEF Values
  <2>6. F \in [SUBSET (i .. n) -> Nat]
    <3>1. ASSUME NEW T \in SUBSET (i .. n) PROVE F[T] \in Nat
      <4>1. CASE i \in T
        <5>1. G[T \ {i}] \in Nat /\ s[i] % More \in Nat
          BY <1>0, <2>3, <2>5, <4>1
        <5> QED
          BY <4>1, <5>1, Shifted
      <4>2. CASE i \notin T
        BY <2>4, <2>5, <4>2
      <4> QED
        BY <4>1, <4>2
    <3> QED
      BY <3>1
  <2>7. \A T \in SUBSET (i + 1 .. n) : T \in SUBSET (i .. n) /\ i \notin T /\ F[T] = G[T]
    BY <1>0
  <2>8. F = [T \in SUBSET (i .. n) |-> F[T]]
    OBVIOUS
  <2>9. \A T \in SUBSET (i .. n) :
          F[T] = IF T = {} THEN 0 ELSE (s[Min(T)] % More) + More * F[T \ {Min(T)}]
    <3> TAKE T \in SUBSET (i .. n)
    <3>1. CASE i \in T
      <4>1. F[T] = (s[i] % More) + More * G[T \ {i}]
        BY <3>1
      <4>2. Min(T) = i /\ T \ {i} \in SUBSET (i + 1 .. n)
        BY <2>3, <3>1
      <4>3. F[T \ {i}] = G[T \ {i}]
        BY <2>7, <4>2
      <4> HIDE DEF F
      <4> QED
        BY <3>1, <4>1, <4>2, <4>3
    <3>2. CASE i \notin T
      <4>1. T \in SUBSET (i + 1 .. n) /\ T \ {Min(T)} \in SUBSET (i + 1 .. n)
        BY <2>4, <3>2
      <4>2. F[T] = G[T] /\ F[T \ {Min(T)}] = G[T \ {Min(T)}]
        BY <2>7, <4>1
      <4> HIDE DEF F
      <4> QED
        BY <2>5, <4>1, <4>2
    <3> QED
      BY <3>1, <3>2
  <2> HIDE DEF F
  <2>10. Values(s, F, Ends(k + 1))
    BY <2>2, <2>8, <2>9 DEF Values
  <2> QED
    BY <2>2, <2>6, <2>10 DEF ValuesOfLast
<1>3. \A k \in Nat : k \in Good
  <2> HIDE DEF Good
  <2> QED
    BY <1>1, <1>2, NumbersAll
<1>4. Ends(n) = DOMAIN s
  BY <1>0
<1>5. n \in Good
  BY <1>0, <1>3
<1> HIDE DEF Ends
<1>6. ValuesOfLast(s, Ends(n))
  BY <1>0, <1>5
<1> QED
  BY <1>4, <1>6 DEF ValuesOfLast

(* From a place on, the digits make that digit and what follows it, shifted. *)
LEMMA ValueFrom ==
    ASSUME NEW s \in Seq(Byte), NEW F, Values(s, F, DOMAIN s)
    PROVE  /\ F[{}] = 0
           /\ \A i \in 1 .. Len(s) :
                 F[i .. Len(s)] = (s[i] % More) + More * F[i + 1 .. Len(s)]
<1>0. Len(s) \in Nat /\ DOMAIN s = 1 .. Len(s)
  BY DigitsAre
<1>1. F[{}] = 0
  BY DEF Values
<1>2. ASSUME NEW i \in 1 .. Len(s)
      PROVE  F[i .. Len(s)] = (s[i] % More) + More * F[i + 1 .. Len(s)]
  <2> DEFINE T == i .. Len(s)
  <2>1. T \in SUBSET Int /\ i \in T /\ (\A j \in T : i <= j) /\ T \in SUBSET DOMAIN s
    BY <1>0
  <2>2. T \ {i} = i + 1 .. Len(s)
    BY <1>0
  <2> HIDE DEF T
  <2>3. Min(T) = i
    BY <2>1, LeastIs
  <2>4. F[T] = (s[i] % More) + More * F[T \ {i}]
    BY <2>1, <2>3 DEF Values
  <2> QED
    BY <2>2, <2>4 DEF T
<1> QED
  BY <1>1, <1>2

LEMMA ValueOfDigits ==
    ASSUME NEW s \in Seq(Byte), NEW x \in Byte
    PROVE  /\ <<x>> \o s \in Seq(Byte)
           /\ DigitValue(s) \in Nat
           /\ DigitValue(<<x>> \o s) = (x % More) + More * DigitValue(s)
<1> DEFINE n == Len(s)
<1> PICK t : t = <<x>> \o s
  OBVIOUS
<1>1. /\ n \in Nat /\ t \in Seq(Byte) /\ Len(t) = n + 1
      /\ t[1] = x /\ \A i \in 1 .. n : t[i + 1] = s[i]
  OBVIOUS
<1> HIDE DEF n
<1>2. Values(s, ValueOver(s), DOMAIN s) /\ Values(t, ValueOver(t), DOMAIN t)
  BY <1>1, ValueExists DEF ValueOver
<1> PICK F, G : F = ValueOver(s) /\ G = ValueOver(t)
  OBVIOUS
<1>3. /\ F[{}] = 0 /\ G[{}] = 0
      /\ \A i \in 1 .. n : F[i .. n] = (s[i] % More) + More * F[i + 1 .. n]
      /\ \A i \in 1 .. n + 1 : G[i .. n + 1] = (t[i] % More) + More * G[i + 1 .. n + 1]
  <2>1. /\ F[{}] = 0
        /\ \A i \in 1 .. Len(s) : F[i .. Len(s)] = (s[i] % More) + More * F[i + 1 .. Len(s)]
    BY <1>2, ValueFrom
  <2>2. /\ G[{}] = 0
        /\ \A i \in 1 .. Len(t) : G[i .. Len(t)] = (t[i] % More) + More * G[i + 1 .. Len(t)]
    BY <1>1, <1>2, ValueFrom
  <2> QED
    BY <1>1, <2>1, <2>2 DEF n
<1> DEFINE Good == {k \in Nat : k <= n =>
                     /\ F[n + 1 - k .. n] \in Nat
                     /\ G[n + 2 - k .. n + 1] = F[n + 1 - k .. n]}
<1>4. 0 \in Good
  <2>1. F[n + 1 - 0 .. n] = 0 /\ G[n + 2 - 0 .. n + 1] = 0
    <3>1. n + 1 - 0 .. n = {} /\ n + 2 - 0 .. n + 1 = {}
      BY <1>1
    <3> QED
      BY <1>3, <3>1
  <2> QED
    BY <2>1
<1>5. ASSUME NEW k \in Nat, k \in Good PROVE k + 1 \in Good
  <2> SUFFICES ASSUME k + 1 <= n
               PROVE  /\ F[n + 1 - (k + 1) .. n] \in Nat
                      /\ G[n + 2 - (k + 1) .. n + 1] = F[n + 1 - (k + 1) .. n]
    OBVIOUS
  <2> PICK i \in 1 .. n : i = n - k
    BY <1>1
  <2>1. /\ n + 1 - (k + 1) = i /\ n + 2 - (k + 1) = i + 1
        /\ n + 1 - k = i + 1 /\ n + 2 - k = (i + 1) + 1 /\ i + 1 \in 1 .. n + 1
    BY <1>1
  <2>2. F[i + 1 .. n] \in Nat /\ G[(i + 1) + 1 .. n + 1] = F[i + 1 .. n]
    BY <1>1, <1>5, <2>1
  <2>3. /\ F[i .. n] = (s[i] % More) + More * F[i + 1 .. n]
        /\ G[i + 1 .. n + 1] = (t[i + 1] % More) + More * G[(i + 1) + 1 .. n + 1]
    BY <1>3, <2>1
  <2>4. s[i] % More \in Nat /\ t[i + 1] = s[i]
    BY <1>1, DigitsAre DEF n
  <2>5. (s[i] % More) + More * F[i + 1 .. n] \in Nat
    BY <2>2, <2>4, Shifted
  <2> QED
    BY <2>1, <2>2, <2>3, <2>4, <2>5
<1>6. n \in Good
  <2>1. \A k \in Nat : k \in Good
    <3> HIDE DEF Good
    <3> QED
      BY <1>4, <1>5, NumbersAll
  <2> QED
    BY <1>1, <2>1
<1>7. F[1 .. n] \in Nat /\ G[2 .. n + 1] = F[1 .. n]
  <2>1. n + 1 - n = 1 /\ n + 2 - n = 2
    BY <1>1
  <2> QED
    BY <1>1, <1>6, <2>1
<1>8. DigitValue(s) = F[1 .. n] /\ DigitValue(t) = G[1 .. n + 1]
  <2>1. DOMAIN s = 1 .. n /\ DOMAIN t = 1 .. n + 1
    BY <1>1 DEF n
  <2> QED
    BY <2>1, ValueUnfolded
<1>9. G[1 .. n + 1] = (t[1] % More) + More * G[2 .. n + 1]
  <2>1. 1 \in 1 .. n + 1 /\ 1 + 1 = 2
    BY <1>1
  <2> QED
    BY <1>3, <2>1
<1> QED
  BY <1>1, <1>7, <1>8, <1>9

LEMMA ValueOfNone == DigitValue(<<>>) = 0
<1>1. <<>> \in Seq(Byte) /\ DOMAIN <<>> = {}
  OBVIOUS
<1>2. Values(<<>>, ValueOver(<<>>), DOMAIN <<>>)
  BY <1>1, ValueExists DEF ValueOver
<1>3. ValueOver(<<>>)[{}] = 0
  BY <1>1, <1>2, ValueFrom
<1> QED
  BY <1>1, <1>3, ValueUnfolded

-----------------------------------------------------------------------------
(* The digits that are written for a number *)

Writes(D, n) ==
    D = [v \in 0 .. n |->
            IF v >= More THEN <<(v % More) + More>> \o D[v \div More] ELSE <<v>>]

Digits == CHOOSE D : Writes(D, WordSize - 1)

LEMMA WriteUnfolded == \A v : WriteVarint(v) = Digits[v]
BY DEF WriteVarint, Digits, Writes

LEMMA DivisionParts ==
    ASSUME NEW v \in Nat
    PROVE  /\ v % More \in 0 .. More - 1 /\ v \div More \in Nat
           /\ v = (v % More) + More * (v \div More)
           /\ v >= More => v \div More < v /\ v \div More >= 1
<1> PICK q, d, m : q = More /\ d = v \div More /\ m = v % More
  OBVIOUS
<1>1. q \in Nat /\ q >= 2
  BY Widths
<1>2. m \in 0 .. q - 1 /\ d \in Int /\ v = q * d + m
  BY <1>1
<1>3. d >= 0
  <2>1. d < 0 => q * d <= -q
    BY <1>1, <1>2
  <2> QED
    BY <1>1, <1>2, <2>1
<1>4. q * d >= d + d
  BY <1>1, <1>2, <1>3
<1>5. d = 0 => v < q
  BY <1>1, <1>2
<1>6. q * d \in Int
  BY <1>1, <1>2
<1> QED
  BY <1>1, <1>2, <1>3, <1>4, <1>5, <1>6

LEMMA WritesExists == \E D : Writes(D, WordSize - 1)
<1> DEFINE Good == {n \in Nat : \E D : Writes(D, n)}
<1>1. 0 \in Good
  <2>1. 0 < More
    BY Widths
  <2> DEFINE D == [v \in 0 .. 0 |-> <<v>>]
  <2>2. \A v \in 0 .. 0 : ~(v >= More) /\ D[v] = <<v>>
    BY <2>1, Widths
  <2>3. D = [v \in 0 .. 0 |-> D[v]]
    OBVIOUS
  <2> HIDE DEF D
  <2>4. Writes(D, 0)
    BY <2>2, <2>3 DEF Writes
  <2> QED
    BY <2>4
<1>2. ASSUME NEW n \in Nat, n \in Good PROVE n + 1 \in Good
  <2>1. PICK C : Writes(C, n)
    BY <1>2
  <2> DEFINE D == [v \in 0 .. n + 1 |->
                     IF v >= More THEN <<(v % More) + More>> \o C[v \div More] ELSE <<v>>]
  <2>2. \A v \in 0 .. n : D[v] = C[v]
    <3>1. \A v \in 0 .. n : v \in 0 .. n + 1
      OBVIOUS
    <3> QED
      BY <2>1, <3>1 DEF Writes
  <2>3. \A v \in 0 .. n + 1 : v >= More => v \div More \in 0 .. n
    BY DivisionParts
  <2>4. \A v \in 0 .. n + 1 :
          D[v] = IF v >= More THEN <<(v % More) + More>> \o C[v \div More] ELSE <<v>>
    OBVIOUS
  <2>5. D = [v \in 0 .. n + 1 |-> D[v]]
    OBVIOUS
  <2> HIDE DEF D
  <2>6. \A v \in 0 .. n + 1 :
          D[v] = IF v >= More THEN <<(v % More) + More>> \o D[v \div More] ELSE <<v>>
    BY <2>2, <2>3, <2>4
  <2>7. Writes(D, n + 1)
    BY <2>5, <2>6 DEF Writes
  <2> QED
    BY <2>7
<1>3. \A n \in Nat : n \in Good
  <2> HIDE DEF Good
  <2> QED
    BY <1>1, <1>2, NumbersAll
<1>4. WordSize - 1 \in Nat
  BY Widths
<1> QED
  BY <1>3, <1>4

LEMMA DigitsUnfolded ==
    \A v \in 0 .. WordSize - 1 :
        Digits[v] = IF v >= More THEN <<(v % More) + More>> \o Digits[v \div More] ELSE <<v>>
<1>1. Writes(Digits, WordSize - 1)
  BY WritesExists DEF Digits
<1> QED
  BY <1>1 DEF Writes

LEMMA LowDigit ==
    ASSUME NEW m \in 0 .. More - 1
    PROVE  m % More = m /\ (m + More) % More = m /\ m + More \in Byte /\ m \in Byte
<1> PICK q : q = More
  OBVIOUS
<1>1. q \in Nat /\ q >= 2 /\ m \in 0 .. q - 1
  BY Widths
<1>2. m % q = m /\ (m + q) % q = m
  BY <1>1
<1> QED
  BY <1>1, <1>2, Widths

(* d says by its digits how long it is, makes v, and is no longer than v
   takes. *)
IsNumeral(d, v) ==
    /\ d \in Seq(Byte) /\ Len(d) >= 1
    /\ \A i \in 1 .. Len(d) - 1 : d[i] >= More
    /\ d[Len(d)] < More
    /\ DigitValue(d) = v
    /\ Len(d) > 1 => v >= Two[(Len(d) - 1) * DigitBits]

LEMMA OneDigit ==
    ASSUME NEW v \in Nat, v < More
    PROVE  IsNumeral(<<v>>, v)
<1>1. v \in 0 .. More - 1
  BY Widths
<1>2. v \in Byte /\ v % More = v
  BY <1>1, LowDigit
<1>3. <<>> \in Seq(Byte) /\ <<v>> \o <<>> = <<v>>
  OBVIOUS
<1>4. DigitValue(<<v>>) = (v % More) + More * 0
  BY <1>2, <1>3, ValueOfDigits, ValueOfNone
<1>5. (v % More) + More * 0 = v
  BY <1>2, Widths
<1> QED
  BY <1>2, <1>4, <1>5 DEF IsNumeral

LEMMA MoreDigits ==
    ASSUME NEW v \in Nat, v >= More, NEW d, IsNumeral(d, v \div More)
    PROVE  IsNumeral(<<(v % More) + More>> \o d, v)
<1> DEFINE x == (v % More) + More
           n == Len(d)
<1> PICK t : t = <<x>> \o d
  OBVIOUS
<1>1. /\ v % More \in 0 .. More - 1 /\ v \div More \in Nat /\ v \div More >= 1
      /\ v = (v % More) + More * (v \div More)
  BY DivisionParts
<1>2. x \in Byte /\ x % More = v % More /\ x >= More
  <2> PICK m \in 0 .. More - 1 : m = v % More
    BY <1>1
  <2>1. m % More = m /\ (m + More) % More = m /\ m + More \in Byte
    BY LowDigit
  <2>2. m + More >= More
    BY Widths
  <2> QED
    BY <2>1, <2>2
<1>3. d \in Seq(Byte) /\ n \in Nat /\ n >= 1
  BY DEF IsNumeral
<1> HIDE DEF x
<1>4. /\ t \in Seq(Byte) /\ Len(t) = n + 1 /\ t[1] = x
      /\ \A i \in 1 .. n : t[i + 1] = d[i]
  BY <1>2, <1>3
<1>5. DigitValue(t) = v
  <2>1. DigitValue(t) = (x % More) + More * DigitValue(d)
    BY <1>2, <1>3, ValueOfDigits
  <2>2. DigitValue(d) = v \div More
    BY DEF IsNumeral
  <2> QED
    BY <1>1, <1>2, <2>1, <2>2
<1>6. \A i \in 1 .. Len(t) - 1 : t[i] >= More
  <2> TAKE i \in 1 .. Len(t) - 1
  <2>1. CASE i = 1
    BY <1>2, <1>4, <2>1
  <2>2. CASE i # 1
    <3>1. i - 1 \in 1 .. n - 1 /\ i - 1 \in 1 .. n /\ (i - 1) + 1 = i
      BY <1>3, <1>4, <2>2
    <3>2. d[i - 1] >= More
      BY <3>1 DEF IsNumeral
    <3> QED
      BY <1>4, <3>1, <3>2
  <2> QED
    BY <2>1, <2>2
<1>7. t[Len(t)] < More
  <2>1. n \in 1 .. n /\ t[n + 1] = d[n]
    BY <1>3, <1>4
  <2> QED
    BY <1>4, <2>1 DEF IsNumeral
<1>8. v >= Two[n * DigitBits]
  <2>0. DigitBits \in Nat /\ More \in Nat /\ More = Two[DigitBits]
    BY Widths DEF More
  <2>1. v >= More * (v \div More)
    <3> PICK a, b : a = v % More /\ b = More * (v \div More)
      OBVIOUS
    <3>1. a \in Nat /\ b \in Int /\ v = a + b
      <4>1. More * (v \div More) \in Int
        BY <1>1, <2>0
      <4> QED
        BY <1>1, <4>1
    <3> QED
      BY <3>1
  <2>2. CASE n = 1
    BY <2>0, <2>2
  <2>3. CASE n > 1
    <3> DEFINE e == (n - 1) * DigitBits
    <3>1. e \in Nat /\ e + DigitBits = n * DigitBits
      <4>0. n - 1 \in Nat
        BY <1>3
      <4> PICK k \in Nat : k = n - 1
        BY <4>0
      <4> PICK w \in Nat : w = DigitBits
        BY <2>0
      <4>1. k * w \in Nat /\ k * w + w = (k + 1) * w
        OBVIOUS
      <4>2. k + 1 = n
        BY <1>3
      <4> QED
        BY <4>1, <4>2
    <3> HIDE DEF e
    <3>2. Two[n * DigitBits] = Two[e] * More
      BY <2>0, <3>1, TwoAdds
    <3>3. v \div More >= Two[e]
      BY <2>3 DEF IsNumeral, e
    <3> PICK a \in Nat, b \in Nat, q \in Nat : a = v \div More /\ b = Two[e] /\ q = More
      BY <1>1, <2>0, <3>1, TwoUnfolds
    <3>4. q * a >= b * q
      <4>1. PICK c \in Nat : a = b + c
        <5>1. a - b \in Nat /\ a = b + (a - b)
          BY <3>3
        <5> QED
          BY <5>1
      <4>2. q * (b + c) = b * q + q * c /\ q * c \in Nat /\ b * q \in Nat
        OBVIOUS
      <4>3. q * a = b * q + q * c
        BY <4>1, <4>2
      <4> QED
        BY <4>2, <4>3
    <3>5. q * a \in Int /\ b * q \in Int
      OBVIOUS
    <3> QED
      BY <2>1, <3>2, <3>4, <3>5
  <2> QED
    BY <1>3, <2>2, <2>3
<1>9. Len(t) >= 1 /\ Len(t) - 1 = n
  BY <1>3, <1>4
<1> QED
  BY <1>4, <1>5, <1>6, <1>7, <1>8, <1>9 DEF IsNumeral, x

LEMMA DigitsWritten == \A v \in 0 .. WordSize - 1 : IsNumeral(WriteVarint(v), v)
<1> DEFINE Good == {n \in Nat : \A v \in 0 .. WordSize - 1 : v <= n => IsNumeral(Digits[v], v)}
<1>0. WordSize \in Nat
  BY Widths
<1>1. 0 \in Good
  <2> SUFFICES ASSUME NEW v \in 0 .. WordSize - 1, v <= 0 PROVE IsNumeral(Digits[v], v)
    OBVIOUS
  <2>1. v \in Nat /\ v < More /\ ~(v >= More)
    BY <1>0, Widths
  <2> QED
    BY <2>1, OneDigit, DigitsUnfolded
<1>2. ASSUME NEW n \in Nat, n \in Good PROVE n + 1 \in Good
  <2> SUFFICES ASSUME NEW v \in 0 .. WordSize - 1, v <= n + 1 PROVE IsNumeral(Digits[v], v)
    OBVIOUS
  <2>0. v \in Nat
    BY <1>0
  <2>1. CASE v < More
    <3>1. ~(v >= More)
      BY <2>0, <2>1, Widths
    <3>2. Digits[v] = <<v>>
      BY <3>1, DigitsUnfolded
    <3> QED
      BY <2>0, <2>1, <3>2, OneDigit
  <2>2. CASE v >= More
    <3>1. v \div More \in Nat /\ v \div More < v
      BY <2>0, <2>2, DivisionParts
    <3>2. v \div More \in 0 .. WordSize - 1 /\ v \div More <= n
      BY <1>0, <2>0, <3>1
    <3>3. IsNumeral(Digits[v \div More], v \div More)
      BY <1>2, <3>2
    <3>4. Digits[v] = <<(v % More) + More>> \o Digits[v \div More]
      BY <2>2, DigitsUnfolded
    <3> QED
      BY <2>0, <2>2, <3>3, <3>4, MoreDigits
  <2> QED
    BY <2>0, <2>1, <2>2, Widths
<1>3. \A n \in Nat : n \in Good
  <2> HIDE DEF Good
  <2> QED
    BY <1>1, <1>2, NumbersAll
<1>4. \A v \in 0 .. WordSize - 1 : v \in Nat /\ v <= v
  BY <1>0
<1> QED
  BY <1>3, <1>4, WriteUnfolded

-----------------------------------------------------------------------------
(* Reading what was written *)

At(data, at) == [data |-> data, pos |-> at]

(* w stands in data after the first at bytes. *)
Holds(data, at, w) ==
    /\ at \in Nat /\ data \in Seq(Byte) /\ w \in Seq(Byte)
    /\ at + Len(w) <= Len(data)
    /\ \A i \in 1 .. Len(w) : data[at + i] = w[i]

LEMMA HoldsParts ==
    ASSUME NEW data, NEW at, NEW u \in Seq(Byte), NEW w \in Seq(Byte), Holds(data, at, u \o w)
    PROVE  Holds(data, at, u) /\ Holds(data, at + Len(u), w)
<1> PICK t : t = u \o w
  OBVIOUS
<1>1. /\ Len(t) = Len(u) + Len(w) /\ Len(u) \in Nat /\ Len(w) \in Nat
      /\ \A i \in 1 .. Len(u) : t[i] = u[i]
      /\ \A i \in 1 .. Len(w) : t[Len(u) + i] = w[i]
  OBVIOUS
<1>2. /\ at \in Nat /\ data \in Seq(Byte) /\ Len(data) \in Nat
      /\ at + Len(t) <= Len(data) /\ \A i \in 1 .. Len(t) : data[at + i] = t[i]
  BY DEF Holds
<1>3. Holds(data, at, u)
  BY <1>1, <1>2 DEF Holds
<1>4. Holds(data, at + Len(u), w)
  <2>1. at + Len(u) \in Nat /\ (at + Len(u)) + Len(w) <= Len(data)
    BY <1>1, <1>2
  <2>2. ASSUME NEW i \in 1 .. Len(w) PROVE data[(at + Len(u)) + i] = w[i]
    <3>1. Len(u) + i \in 1 .. Len(t) /\ at + (Len(u) + i) = (at + Len(u)) + i
      BY <1>1, <1>2
    <3>2. data[at + (Len(u) + i)] = t[Len(u) + i]
      BY <1>2, <3>1
    <3> QED
      BY <1>1, <3>1, <3>2
  <2> QED
    BY <1>2, <2>1, <2>2 DEF Holds
<1> QED
  BY <1>3, <1>4

LEMMA HoldsSlice ==
    ASSUME NEW data, NEW at, NEW w, Holds(data, at, w)
    PROVE  SubSeq(data, at + 1, at + Len(w)) = w
<1>1. /\ at \in Nat /\ data \in Seq(Byte) /\ Len(data) \in Nat /\ w \in Seq(Byte) /\ Len(w) \in Nat
      /\ at + Len(w) <= Len(data) /\ \A i \in 1 .. Len(w) : data[at + i] = w[i]
  BY DEF Holds
<1> PICK t : t = SubSeq(data, at + 1, at + Len(w))
  OBVIOUS
<1>2. t \in Seq(Byte) /\ Len(t) = Len(w)
  BY <1>1
<1>3. \A i \in 1 .. Len(w) : t[i] = data[at + i]
  <2> TAKE i \in 1 .. Len(w)
  <2>1. t[i] = data[(at + 1) + i - 1]
    BY <1>1
  <2>2. (at + 1) + i - 1 = at + i
    BY <1>1
  <2> QED
    BY <2>1, <2>2
<1>4. \A i \in 1 .. Len(t) : t[i] = w[i]
  BY <1>1, <1>2, <1>3
<1> QED
  BY <1>1, <1>2, <1>4, SeqEqual

LEMMA BytesRead ==
    ASSUME NEW data, NEW at, NEW w, Holds(data, at, w)
    PROVE  Bytes(At(data, at), Len(w)) = [status |-> "ok", value |-> w, pos |-> at + Len(w)]
<1>1. Len(data) \in Nat /\ at \in Nat /\ Len(w) \in Nat /\ at + Len(w) <= Len(data)
  BY DEF Holds
<1>2. ~(Len(data) - at < Len(w))
  BY <1>1
<1>3. SubSeq(data, at + 1, at + Len(w)) = w
  BY HoldsSlice
<1> QED
  BY <1>2, <1>3 DEF Bytes, Remaining, At

(* Wherever a number was written with Writer::varint, Reader::varint reads it and
   stops behind it, for every number that fits into a word. *)
THEOREM VarintRead ==
    ASSUME NEW data, NEW at, NEW v \in 0 .. WordSize - 1, Holds(data, at, WriteVarint(v))
    PROVE  Varint(At(data, at)) = [status |-> "ok", pos |-> at + Len(WriteVarint(v)), value |-> v]
<1> PICK d : d = WriteVarint(v)
  OBVIOUS
<1>0. IsNumeral(d, v) /\ Holds(data, at, d)
  BY DigitsWritten
<1> DEFINE n == Len(d)
           Shift(i) == (i - at - 1) * DigitBits
           stops == {i \in at + 1 .. Len(data) : data[i] < More \/ NoRoom(Shift(i))}
<1>1. /\ at \in Nat /\ data \in Seq(Byte) /\ Len(data) \in Nat /\ d \in Seq(Byte)
      /\ n \in Nat /\ n >= 1
      /\ at + n <= Len(data) /\ \A i \in 1 .. n : data[at + i] = d[i]
  BY <1>0 DEF Holds, IsNumeral
<1>2. DigitBits \in Nat \ {0} /\ WordBits \in Nat /\ More \in Nat /\ WordSize \in Nat
  BY Widths
<1>3. \A k \in 0 .. n - 1 : ~NoRoom(k * DigitBits)
  <2> SUFFICES ASSUME NEW k \in 0 .. n - 1, k * DigitBits >= WordBits PROVE FALSE
    BY DEF NoRoom
  <2> PICK w \in Nat \ {0} : w = DigitBits
    BY <1>2
  <2>1. k \in Nat /\ n - 1 \in Nat /\ k <= n - 1
    BY <1>1
  <2>2. k * w <= (n - 1) * w /\ k * w \in Nat /\ (n - 1) * w \in Nat
    <3> PICK m \in Nat : m = n - 1
      BY <2>1
    <3> PICK c \in Nat : m = k + c
      <4>1. m - k \in Nat /\ m = k + (m - k)
        BY <2>1
      <4> QED
        BY <4>1
    <3>1. (k + c) * w = k * w + c * w /\ c * w \in Nat /\ k * w \in Nat
      BY <2>1
    <3> QED
      BY <3>1
  <2>3. k # 0
    BY <1>2, <2>1, WidthAssumption
  <2>4. n > 1
    BY <2>1, <2>3
  <2>5. v >= Two[(n - 1) * w]
    BY <1>0, <2>4 DEF IsNumeral
  <2> PICK e \in Nat : e = (n - 1) * w
    BY <2>2
  <2>6. WordBits <= e
    BY <1>2, <2>2
  <2>7. Two[e] \in Nat /\ Two[WordBits] \in Nat /\ Two[WordBits] <= Two[e]
    BY <1>2, <2>6, TwoUnfolds, TwoGrows
  <2>8. v < WordSize /\ v \in Nat /\ WordSize = Two[WordBits]
    BY <1>2 DEF WordSize
  <2> QED
    BY <2>5, <2>7, <2>8
<1>4. at + n \in stops
  <2>1. data[at + n] < More
    BY <1>0, <1>1 DEF IsNumeral
  <2> QED
    BY <1>1, <2>1
<1>5. \A i \in stops : at + n <= i
  <2> SUFFICES ASSUME NEW i \in at + 1 .. Len(data), i < at + n, data[i] < More \/ NoRoom(Shift(i))
               PROVE  FALSE
    BY <1>1
  <2>1. i - at \in 1 .. n - 1 /\ i - at \in 1 .. n /\ i = at + (i - at) /\ i - at - 1 \in 0 .. n - 1
    BY <1>1
  <2>2. ~NoRoom(Shift(i))
    BY <1>3, <2>1
  <2>3. data[i] >= More
    <3> PICK j \in 1 .. n - 1 : j = i - at
      BY <2>1
    <3>1. d[j] >= More
      BY <1>0 DEF IsNumeral
    <3> QED
      BY <1>1, <2>1, <3>1
  <2>4. data[i] \in Nat
    BY <1>1, DigitsAre
  <2> QED
    BY <1>2, <2>2, <2>3, <2>4
<1>6. (CHOOSE i \in stops : \A j \in stops : i <= j) = at + n
  <2>1. stops \subseteq Int
    BY <1>1
  <2> HIDE DEF stops
  <2>2. \A i \in stops : (\A j \in stops : i <= j) <=> i = at + n
    BY <1>1, <1>4, <1>5, <2>1
  <2> QED
    BY <1>4, <2>2
<1>7. ~NoRoom(Shift(at + n))
  <2>1. at + n - at - 1 = n - 1 /\ n - 1 \in 0 .. n - 1
    BY <1>1
  <2>2. Shift(at + n) = (n - 1) * DigitBits
    BY <1>1, <1>2, <2>1
  <2> HIDE DEF Shift
  <2>3. ~NoRoom((n - 1) * DigitBits)
    BY <1>3, <2>1
  <2> QED
    BY <2>2, <2>3
<1>8. SubSeq(data, at + 1, at + n) = d
  BY <1>0, HoldsSlice
<1>9. FoldRight(LAMBDA byte, high : (byte % More) + More * high, d, 0) % WordSize = v
  <2>1. DigitValue(d) = v
    BY <1>0 DEF IsNumeral
  <2>2. v % WordSize = v
    BY <1>2
  <2> QED
    BY <2>1, <2>2 DEF DigitValue
<1>10. stops # {}
  BY <1>4
<1> QED
  BY <1>6, <1>7, <1>8, <1>9, <1>10 DEF Varint, At

LEMMA ErrorsAreNotOk ==
    "end of data" # "ok" /\ "varint too long" # "ok" /\ "count exceeds data" # "ok"
OBVIOUS

LEMMA Refusal ==
    ASSUME NEW r, NEW e, NEW p, e # "ok", r = [status |-> e, value |-> 0, pos |-> p]
    PROVE  r.status # "ok"
OBVIOUS

LEMMA VarintBounds ==
    ASSUME NEW data \in Seq(Byte), NEW at \in Nat
    PROVE  Varint(At(data, at)).status = "ok" =>
               /\ Varint(At(data, at)).value \in 0 .. WordSize - 1
               /\ Varint(At(data, at)).pos \in at + 1 .. Len(data)
<1> DEFINE Shift(i) == (i - at - 1) * DigitBits
           stops == {i \in at + 1 .. Len(data) : data[i] < More \/ NoRoom(Shift(i))}
           stop == CHOOSE i \in stops : \A j \in stops : i <= j
           total == DigitValue(SubSeq(data, at + 1, stop))
<1>0. Len(data) \in Nat
  OBVIOUS
<1>1. Varint(At(data, at)) =
        IF stops = {} THEN [status |-> "end of data", value |-> 0, pos |-> Len(data)]
        ELSE IF NoRoom(Shift(stop)) THEN [status |-> "varint too long", value |-> 0, pos |-> stop]
        ELSE [status |-> "ok", pos |-> stop, value |-> total % WordSize]
  BY DEF Varint, At, DigitValue
<1>2. stops \subseteq Nat
  BY <1>0
<1>3. stops # {} => stop \in stops
  <2> HIDE DEF stops
  <2>1. stops # {} => \E i \in stops : \A j \in stops : i <= j
    BY <1>2, LeastExists
  <2> QED
    BY <2>1
<1>4. stops # {} => stop \in at + 1 .. Len(data)
  <2> HIDE DEF stop
  <2> QED
    BY <1>3
<1>5. stops # {} => total \in Nat
  <2> SUFFICES ASSUME stop \in at + 1 .. Len(data) PROVE total \in Nat
    BY <1>4
  <2> HIDE DEF stop, stops
  <2>1. SubSeq(data, at + 1, stop) \in Seq(Byte)
    BY <1>0
  <2> QED
    BY <2>1, Widths, ValueOfDigits
<1> HIDE DEF stops, stop, total, Shift
<1>6. CASE stops = {}
  <2>1. Varint(At(data, at)) = [status |-> "end of data", value |-> 0, pos |-> Len(data)]
    BY <1>1, <1>6
  <2> QED
    BY <2>1, Refusal, ErrorsAreNotOk
<1>7. CASE stops # {} /\ NoRoom(Shift(stop))
  <2>1. Varint(At(data, at)) = [status |-> "varint too long", value |-> 0, pos |-> stop]
    BY <1>1, <1>7
  <2> QED
    BY <2>1, Refusal, ErrorsAreNotOk
<1>8. CASE stops # {} /\ ~NoRoom(Shift(stop))
  <2>1. Varint(At(data, at)) = [status |-> "ok", pos |-> stop, value |-> total % WordSize]
    BY <1>1, <1>8
  <2>2. total % WordSize \in 0 .. WordSize - 1
    BY <1>5, <1>8, Widths
  <2>3. Varint(At(data, at)).value = total % WordSize /\ Varint(At(data, at)).pos = stop
    BY <2>1
  <2> QED
    BY <1>4, <1>8, <2>2, <2>3
<1> QED
  BY <1>6, <1>7, <1>8

LEMMA BytesBounds ==
    ASSUME NEW data \in Seq(Byte), NEW at \in Nat, NEW n \in Nat, at <= Len(data)
    PROVE  Bytes(At(data, at), n).status = "ok" =>
               /\ Bytes(At(data, at), n).value \in Seq(Byte)
               /\ Len(Bytes(At(data, at), n).value) = n
               /\ Bytes(At(data, at), n).pos = at + n
               /\ at + n <= Len(data)
<1>0. Len(data) \in Nat
  OBVIOUS
<1>1. Bytes(At(data, at), n) =
        IF Len(data) - at < n THEN [status |-> "end of data", value |-> 0, pos |-> at]
        ELSE [status |-> "ok", value |-> SubSeq(data, at + 1, at + n), pos |-> at + n]
  BY DEF Bytes, At, Remaining
<1>2. CASE Len(data) - at < n
  <2>1. Bytes(At(data, at), n) = [status |-> "end of data", value |-> 0, pos |-> at]
    BY <1>1, <1>2
  <2> QED
    BY <2>1, Refusal, ErrorsAreNotOk
<1>3. CASE ~(Len(data) - at < n)
  <2>1. Bytes(At(data, at), n) =
          [status |-> "ok", value |-> SubSeq(data, at + 1, at + n), pos |-> at + n]
    BY <1>1, <1>3
  <2>2. /\ Bytes(At(data, at), n).value = SubSeq(data, at + 1, at + n)
        /\ Bytes(At(data, at), n).pos = at + n
    BY <2>1
  <2>3. SubSeq(data, at + 1, at + n) \in Seq(Byte) /\ Len(SubSeq(data, at + 1, at + n)) = n
    BY <1>0, <1>3
  <2>4. at + n <= Len(data)
    BY <1>0, <1>3
  <2> QED
    BY <2>2, <2>3, <2>4
<1> QED
  BY <1>2, <1>3

(* The number is there and counts no more than remains. *)
Announces(n, data) == n.status = "ok" /\ ~(n.value > Len(data) - n.pos)

LEMMA CountedUnfolded ==
    ASSUME NEW data, NEW at, NEW size
    PROVE  LET n == Varint(At(data, at))
           IN  /\ Announces(n, data) =>
                      Counted(At(data, at), size) = Bytes(At(data, n.pos), n.value * size)
               /\ ~Announces(n, data) => Counted(At(data, at), size).status # "ok"
<1> DEFINE n == Varint(At(data, at))
<1>1. Count(At(data, at)) =
        [n EXCEPT !.status = IF n.value > Len(data) - n.pos /\ n.status = "ok"
                             THEN "count exceeds data" ELSE n.status]
  BY DEF Count, At
<1>2. [At(data, at) EXCEPT !.pos = n.pos] = At(data, n.pos)
  BY DEF At
<1>3. /\ DOMAIN n = {"status", "value", "pos"}
      /\ n = [status |-> n.status, value |-> n.value, pos |-> n.pos]
  BY DEF Varint
<1> HIDE DEF n
<1>4. /\ Count(At(data, at)).value = n.value /\ Count(At(data, at)).pos = n.pos
      /\ Count(At(data, at)).status = "ok" <=> Announces(n, data)
  <2>1. "count exceeds data" # "ok"
    OBVIOUS
  <2> QED
    BY <1>1, <1>3, <2>1 DEF Announces
<1>5. Counted(At(data, at), size) =
        IF Announces(n, data) THEN Bytes(At(data, n.pos), n.value * size) ELSE Count(At(data, at))
  BY <1>2, <1>4 DEF Counted
<1>6. ~Announces(n, data) => Counted(At(data, at), size).status # "ok"
  BY <1>4, <1>5
<1> QED
  BY <1>5, <1>6 DEF n

LEMMA CountedRead ==
    ASSUME NEW data, NEW at, NEW v \in 0 .. WordSize - 1, NEW size \in Nat \ {0},
           NEW body \in Seq(Byte), Len(body) = v * size,
           Holds(data, at, WriteVarint(v) \o body)
    PROVE  Counted(At(data, at), size) =
               [status |-> "ok", value |-> body, pos |-> at + Len(WriteVarint(v) \o body)]
<1> PICK d : d = WriteVarint(v)
  OBVIOUS
<1>1. d \in Seq(Byte)
  BY DigitsWritten DEF IsNumeral
<1>2. Holds(data, at, d) /\ Holds(data, at + Len(d), body)
  BY <1>1, HoldsParts
<1> DEFINE n == Varint(At(data, at))
<1>3. n = [status |-> "ok", pos |-> at + Len(d), value |-> v]
  BY <1>2, VarintRead
<1> HIDE DEF n
<1>4. n.status = "ok" /\ n.pos = at + Len(d) /\ n.value = v
  BY <1>3
<1>5. ~(v > Len(data) - (at + Len(d)))
  <2>1. /\ at \in Nat /\ Len(d) \in Nat /\ Len(data) \in Nat /\ v \in Nat
        /\ (at + Len(d)) + Len(body) <= Len(data)
    BY <1>1, <1>2, Widths DEF Holds
  <2> PICK p \in Nat : p = at + Len(d)
    BY <2>1
  <2>2. v <= v * size /\ v * size \in Nat
    <3> PICK c \in Nat : size = c + 1
      <4>1. size - 1 \in Nat /\ size = (size - 1) + 1
        OBVIOUS
      <4> QED
        BY <4>1
    <3>1. v * (c + 1) = v * c + v /\ v * c \in Nat
      BY <2>1
    <3> QED
      BY <2>1, <3>1
  <2> QED
    BY <2>1, <2>2
<1>6. Counted(At(data, at), size) = Bytes(At(data, at + Len(d)), v * size)
  <2>1. Announces(n, data)
    BY <1>4, <1>5 DEF Announces
  <2> QED
    BY <1>4, <2>1, CountedUnfolded DEF n
<1>7. Bytes(At(data, at + Len(d)), v * size) =
        [status |-> "ok", value |-> body, pos |-> (at + Len(d)) + Len(body)]
  BY <1>2, BytesRead
<1>8. (at + Len(d)) + Len(body) = at + Len(d \o body)
  <2>1. \A u, w \in Seq(Byte) :
          Len(u \o w) = Len(u) + Len(w) /\ Len(u) \in Nat /\ Len(w) \in Nat
    OBVIOUS
  <2>2. Len(d \o body) = Len(d) + Len(body) /\ Len(d) \in Nat /\ Len(body) \in Nat
    BY <1>1, <2>1, Zenon
  <2>3. at \in Nat
    BY <1>2 DEF Holds
  <2> QED
    BY <2>2, <2>3
<1> QED
  BY <1>6, <1>7, <1>8

LEMMA CountedBounds ==
    ASSUME NEW data \in Seq(Byte), NEW at \in Nat, NEW size \in Nat,
           Counted(At(data, at), size).status = "ok"
    PROVE  LET c == Counted(At(data, at), size)
           IN  /\ c.value \in Seq(Byte)
               /\ \E v \in 0 .. WordSize - 1 : Len(c.value) = v * size
               /\ c.pos \in at + 1 .. Len(data)
<1> DEFINE n == Varint(At(data, at))
           c == Counted(At(data, at), size)
<1>1. Announces(n, data) /\ c = Bytes(At(data, n.pos), n.value * size)
  BY CountedUnfolded
<1>2. n.value \in 0 .. WordSize - 1 /\ n.pos \in at + 1 .. Len(data)
  BY <1>1, VarintBounds DEF Announces
<1> HIDE DEF n
<1> PICK v \in 0 .. WordSize - 1, p \in at + 1 .. Len(data) : v = n.value /\ p = n.pos
  BY <1>2
<1>3. v * size \in Nat /\ p \in Nat /\ p <= Len(data) /\ Len(data) \in Nat
  <2>1. v \in Nat
    BY Widths
  <2> QED
    BY <2>1
<1>4. c = Bytes(At(data, p), v * size)
  BY <1>1
<1> HIDE DEF c
<1>5. /\ Bytes(At(data, p), v * size).value \in Seq(Byte)
      /\ Len(Bytes(At(data, p), v * size).value) = v * size
      /\ Bytes(At(data, p), v * size).pos = p + v * size
      /\ p + v * size <= Len(data)
  <2>1. Bytes(At(data, p), v * size).status = "ok"
    BY <1>4 DEF c
  <2> QED
    BY <1>3, <2>1, BytesBounds
<1>6. p + v * size \in at + 1 .. Len(data)
  BY <1>3, <1>5
<1> QED
  BY <1>4, <1>5, <1>6 DEF c

-----------------------------------------------------------------------------
(* Fields *)

LEMMA Tags ==
    /\ {Padding, Key, Nonce, MergeMining, Additional, MinerGate} \subseteq Byte
    /\ Padding # Key /\ Padding # Nonce /\ Padding # MergeMining /\ Padding # Additional
    /\ Padding # MinerGate /\ Key # Nonce /\ Key # MergeMining /\ Key # Additional
    /\ Key # MinerGate /\ Nonce # MergeMining /\ Nonce # Additional /\ Nonce # MinerGate
    /\ MergeMining # Additional /\ MergeMining # MinerGate /\ Additional # MinerGate
<1>1. ByteSize > 5 /\ ByteSize \in Nat
  BY LengthAssumption, Widths
<1> QED
  BY <1>1 DEF Byte, Padding, Key, Nonce, MergeMining, Additional, MinerGate

ExtraFields == [tag : Byte, body : Seq(Byte)]

(* What a count of bytes, or of keys, can say. *)
Whole(length, size) == \E n \in 0 .. WordSize - 1 : length = n * size

Readable ==
    {f \in ExtraFields :
        \/ f.tag = Key /\ Len(f.body) = KeyLen
        \/ f.tag \in {Nonce, MergeMining, MinerGate} /\ Len(f.body) < WordSize
        \/ f.tag = Additional /\ Whole(Len(f.body), KeyLen)}

ReadableOrPadding == Readable \union {f \in ExtraFields : f.tag = Padding}

IsOutcome(r) == r = [status |-> r.status, value |-> r.value, pos |-> r.pos]

LEMMA BodyIsOutcome == \A tag, data, at : IsOutcome(Body(tag, At(data, at)))
<1>0. \A s, v, p : IsOutcome([status |-> s, value |-> v, pos |-> p])
  BY DEF IsOutcome
<1>1. \A d, a, n : IsOutcome(Bytes(At(d, a), n))
  BY <1>0, Zenon DEF Bytes
<1>2. \A d, a : IsOutcome(Varint(At(d, a)))
  <2> TAKE d, a
  <2> DEFINE Shift(i) == (i - a - 1) * DigitBits
             stops == {i \in a + 1 .. Len(d) : d[i] < More \/ NoRoom(Shift(i))}
             stop == CHOOSE i \in stops : \A j \in stops : i <= j
             total == DigitValue(SubSeq(d, a + 1, stop))
  <2>1. Varint(At(d, a)) =
          IF stops = {} THEN [status |-> "end of data", value |-> 0, pos |-> Len(d)]
          ELSE IF NoRoom(Shift(stop)) THEN [status |-> "varint too long", value |-> 0, pos |-> stop]
          ELSE [status |-> "ok", value |-> total % WordSize, pos |-> stop]
    BY DEF Varint, At, DigitValue
  <2> HIDE DEF stops, stop, total, Shift
  <2> QED
    BY <1>0, <2>1, Zenon
<1>3. \A d, a : IsOutcome(Count(At(d, a)))
  <2> TAKE d, a
  <2> PICK n : n = Varint(At(d, a))
    OBVIOUS
  <2>1. n = [status |-> n.status, value |-> n.value, pos |-> n.pos]
    BY <1>2 DEF IsOutcome
  <2> PICK c : c = Count(At(d, a))
    OBVIOUS
  <2>2. c = [n EXCEPT !.status = IF n.value > Len(d) - n.pos /\ n.status = "ok"
                                 THEN "count exceeds data" ELSE n.status]
    BY DEF Count, At
  <2>3. c = [status |-> c.status, value |-> c.value, pos |-> c.pos]
    BY <2>1, <2>2
  <2> QED
    BY <2>3 DEF IsOutcome
<1>4. \A d, a, size : IsOutcome(Counted(At(d, a), size))
  <2> TAKE d, a, size
  <2> PICK n : n = Count(At(d, a))
    OBVIOUS
  <2>1. [At(d, a) EXCEPT !.pos = n.pos] = At(d, n.pos)
    BY DEF At
  <2> QED
    BY <1>1, <1>3, <2>1 DEF Counted
<1> TAKE tag, data, at
<1>5. IsOutcome([status |-> "unknown field", value |-> 0, pos |-> at])
  BY DEF IsOutcome
<1>6. At(data, at).pos = at
  BY DEF At
<1> QED
  BY <1>1, <1>4, <1>5, <1>6 DEF Body

LEMMA ReadFieldUnfolded ==
    ASSUME NEW data, NEW at \in Nat
    PROVE  LET tag == data[at + 1]
               body == Body(tag, At(data, at + 1))
           IN  /\ body.status = "ok" =>
                      ReadField(data, at) =
                          [status |-> "ok", value |-> [tag |-> tag, body |-> body.value],
                           pos |-> body.pos]
               /\ body.status # "ok" => ReadField(data, at).status # "ok"
<1> PICK tag, body : tag = data[at + 1] /\ body = Body(tag, At(data, at + 1))
  OBVIOUS
<1>1. body = [status |-> body.status, value |-> body.value, pos |-> body.pos]
  BY BodyIsOutcome DEF IsOutcome
<1>2. ReadField(data, at) =
        IF body.status = "ok" THEN [body EXCEPT !.value = [tag |-> tag, body |-> body.value]]
        ELSE body
  BY DEF ReadField, Then, At
<1>3. [body EXCEPT !.value = [tag |-> tag, body |-> body.value]] =
        [status |-> body.status, value |-> [tag |-> tag, body |-> body.value], pos |-> body.pos]
  BY <1>1
<1> QED
  BY <1>2, <1>3

LEMMA DivisionExact ==
    ASSUME NEW n \in Nat, NEW k \in Nat \ {0}
    PROVE  (n * k) \div k = n
<1> PICK m, q, r : m = n * k /\ q = m \div k /\ r = m % k
  OBVIOUS
<1>1. m \in Nat /\ q \in Int /\ r \in 0 .. k - 1 /\ m = k * q + r
  <2>1. n * k \in Nat
    OBVIOUS
  <2> QED
    BY <2>1
<1>2. ~(q < n)
  <2> SUFFICES ASSUME q < n PROVE FALSE
    OBVIOUS
  <2> PICK c \in Nat : n = q + 1 + c
    <3>1. n - q - 1 \in Nat /\ n = q + 1 + (n - q - 1)
      BY <1>1
    <3> QED
      BY <3>1
  <2>1. (q + 1 + c) * k = k * q + k + c * k /\ c * k \in Nat
    BY <1>1
  <2> QED
    BY <1>1, <2>1
<1>3. ~(q > n)
  <2> SUFFICES ASSUME q > n PROVE FALSE
    OBVIOUS
  <2> PICK c \in Nat : q = n + 1 + c
    <3>1. q - n - 1 \in Nat /\ q = n + 1 + (q - n - 1)
      BY <1>1
    <3> QED
      BY <3>1
  <2>1. k * (n + 1 + c) = n * k + k + c * k /\ c * k \in Nat
    BY <1>1
  <2> QED
    BY <1>1, <2>1
<1> QED
  BY <1>1, <1>2, <1>3

LEMMA CounterOf ==
    ASSUME NEW f \in Readable
    PROVE  /\ f.tag = Key => Counter(f) = <<>> /\ Len(f.body) = KeyLen
           /\ f.tag \in {Nonce, MergeMining, MinerGate} =>
                 /\ Counter(f) = WriteVarint(Len(f.body))
                 /\ Len(f.body) \in 0 .. WordSize - 1
           /\ f.tag = Additional =>
                 \E n \in 0 .. WordSize - 1 :
                     Len(f.body) = n * KeyLen /\ Counter(f) = WriteVarint(n)
           /\ f.tag \in {Key, Nonce, MergeMining, Additional, MinerGate}
           /\ Counter(f) \in Seq(Byte) /\ f.body \in Seq(Byte) /\ f.tag \in Byte
<1>1. f.body \in Seq(Byte) /\ f.tag \in Byte /\ Len(f.body) \in Nat
  BY DEF Readable, ExtraFields
<1>2. f.tag = Key => Counter(f) = <<>> /\ Len(f.body) = KeyLen
  BY Tags DEF Readable, Counter
<1>3. f.tag \in {Nonce, MergeMining, MinerGate} =>
        /\ Counter(f) = WriteVarint(Len(f.body))
        /\ Len(f.body) \in 0 .. WordSize - 1
  <2> SUFFICES ASSUME f.tag \in {Nonce, MergeMining, MinerGate}
               PROVE  /\ Counter(f) = WriteVarint(Len(f.body))
                      /\ Len(f.body) \in 0 .. WordSize - 1
    OBVIOUS
  <2>1. f.tag \notin {Padding, Key} /\ f.tag # Additional
    BY Tags
  <2>2. Counter(f) = WriteVarint(Len(f.body))
    BY <2>1 DEF Counter
  <2>3. Len(f.body) < WordSize
    BY <2>1 DEF Readable
  <2> QED
    BY <1>1, <2>2, <2>3, Widths
<1>4. f.tag = Additional =>
        \E n \in 0 .. WordSize - 1 : Len(f.body) = n * KeyLen /\ Counter(f) = WriteVarint(n)
  <2> SUFFICES ASSUME f.tag = Additional
               PROVE  \E n \in 0 .. WordSize - 1 :
                          Len(f.body) = n * KeyLen /\ Counter(f) = WriteVarint(n)
    OBVIOUS
  <2>1. f.tag \notin {Padding, Key} /\ f.tag \notin {Nonce, MergeMining, MinerGate}
    BY Tags
  <2>2. PICK n \in 0 .. WordSize - 1 : Len(f.body) = n * KeyLen
    <3>1. Whole(Len(f.body), KeyLen)
      BY <2>1 DEF Readable
    <3> QED
      BY <3>1 DEF Whole
  <2>3. n \in Nat /\ KeyLen \in Nat \ {0}
    BY Widths, LengthAssumption
  <2>4. Len(f.body) \div KeyLen = n
    BY <2>2, <2>3, DivisionExact
  <2> QED
    BY <2>1, <2>2, <2>4 DEF Counter
<1>5. f.tag \in {Key, Nonce, MergeMining, Additional, MinerGate}
  BY DEF Readable
<1>6. Counter(f) \in Seq(Byte)
  <2>1. \A n \in 0 .. WordSize - 1 : WriteVarint(n) \in Seq(Byte)
    BY DigitsWritten DEF IsNumeral
  <2>2. <<>> \in Seq(Byte)
    OBVIOUS
  <2> QED
    BY <1>2, <1>3, <1>4, <1>5, <2>1, <2>2
<1> QED
  BY <1>1, <1>2, <1>3, <1>4, <1>5, <1>6

LEMMA BytesRegrouped ==
    \A s, t, u \in Seq(Byte) : (s \o t) \o u = s \o (t \o u)
BY ConcatAssociative

LEMMA Regrouped ==
    \A S : \A s, t, u \in Seq(S) : (s \o t) \o u = s \o (t \o u)
BY ConcatAssociative

LEMMA FieldWritten ==
    ASSUME NEW f \in Readable
    PROVE  /\ WriteField(f) = <<f.tag>> \o (Counter(f) \o f.body)
           /\ WriteField(f) \in Seq(Byte)
<1> PICK s, t, u : s = <<f.tag>> /\ t = Counter(f) /\ u = f.body
  OBVIOUS
<1>1. s \in Seq(Byte) /\ t \in Seq(Byte) /\ u \in Seq(Byte)
  BY CounterOf
<1>2. WriteField(f) = (s \o t) \o u
  BY DEF WriteField
<1>3. WriteField(f) = s \o (t \o u)
  BY <1>1, <1>2, BytesRegrouped
<1>4. t \o u \in Seq(Byte)
  BY <1>1, ConcatProperties
<1>5. s \o (t \o u) \in Seq(Byte)
  BY <1>1, <1>4, ConcatProperties
<1> QED
  BY <1>3, <1>5

(* rest stands there, a body behind the count of its parts. *)
Counts(data, at, size, body, rest) ==
    /\ Holds(data, at, rest) /\ body \in Seq(Byte) /\ size \in Nat \ {0}
    /\ \E v \in 0 .. WordSize - 1 : Len(body) = v * size /\ rest = WriteVarint(v) \o body

LEMMA RestRead ==
    ASSUME NEW data, NEW at \in Nat, NEW size, NEW body, NEW rest,
           Counts(data, at, size, body, rest)
    PROVE  Counted(At(data, at), size) = [status |-> "ok", value |-> body, pos |-> at + Len(rest)]
<1>1. PICK v \in 0 .. WordSize - 1 : Len(body) = v * size /\ rest = WriteVarint(v) \o body
  BY DEF Counts
<1>2. Holds(data, at, rest) /\ body \in Seq(Byte) /\ size \in Nat \ {0}
  BY DEF Counts
<1> QED
  BY <1>1, <1>2, CountedRead

(* What stands behind the tag. *)
IsRest(rest, f) == rest = Counter(f) \o f.body

LEMMA BodyRead ==
    ASSUME NEW f \in Readable, NEW data, NEW at \in Nat,
           NEW rest, IsRest(rest, f), Holds(data, at, rest)
    PROVE  Body(f.tag, At(data, at)) = [status |-> "ok", value |-> f.body, pos |-> at + Len(rest)]
<1>1. Counter(f) \in Seq(Byte) /\ f.body \in Seq(Byte)
  BY CounterOf
<1> PICK w \in Seq(Byte) : w = f.body
  BY <1>1
<1>2. CASE f.tag = Key
  <2>1. rest = w /\ Len(w) = KeyLen
    BY <1>1, <1>2, CounterOf, ConcatEmptySeq DEF IsRest
  <2>2. Body(f.tag, At(data, at)) = Bytes(At(data, at), Len(w))
    BY <1>2, <2>1, Tags DEF Body
  <2> QED
    BY <2>1, <2>2, BytesRead
<1>3. CASE f.tag \in {Nonce, MergeMining, MinerGate}
  <2>1. Counter(f) = WriteVarint(Len(f.body)) /\ Len(f.body) \in 0 .. WordSize - 1
    BY <1>3, CounterOf
  <2> PICK n \in 0 .. WordSize - 1 : n = Len(w)
    BY <2>1
  <2>2. n = n * 1 /\ 1 \in Nat \ {0}
    BY Widths
  <2>3. rest = WriteVarint(n) \o w
    BY <2>1 DEF IsRest
  <2>4. Counts(data, at, 1, w, rest)
    BY <2>2, <2>3 DEF Counts
  <2>5. Body(f.tag, At(data, at)) = Counted(At(data, at), 1)
    BY <1>3, Tags DEF Body
  <2> QED
    BY <2>4, <2>5, RestRead
<1>4. CASE f.tag = Additional
  <2>1. PICK n \in 0 .. WordSize - 1 : Len(f.body) = n * KeyLen /\ Counter(f) = WriteVarint(n)
    BY <1>4, CounterOf
  <2>2. KeyLen \in Nat \ {0}
    BY LengthAssumption
  <2>3. rest = WriteVarint(n) \o w
    BY <2>1 DEF IsRest
  <2>4. Counts(data, at, KeyLen, w, rest)
    BY <2>1, <2>2, <2>3 DEF Counts
  <2>5. Body(f.tag, At(data, at)) = Counted(At(data, at), KeyLen)
    BY <1>4, Tags DEF Body
  <2> QED
    BY <2>4, <2>5, RestRead
<1> QED
  BY <1>2, <1>3, <1>4, CounterOf

LEMMA FieldOf ==
    ASSUME NEW data, NEW at \in Nat, NEW next, next = at + 1, NEW v, NEW p,
           Body(data[next], At(data, next)) = [status |-> "ok", value |-> v, pos |-> p]
    PROVE  ReadField(data, at) =
               [status |-> "ok", value |-> [tag |-> data[next], body |-> v], pos |-> p]
<1>1. Body(data[next], At(data, next)).status = "ok"
  OBVIOUS
<1> QED
  BY <1>1, ReadFieldUnfolded

LEMMA FieldRead ==
    ASSUME NEW f \in Readable, NEW data, NEW at \in Nat, Holds(data, at, WriteField(f))
    PROVE  ReadField(data, at) =
               [status |-> "ok", value |-> f, pos |-> at + Len(WriteField(f))]
<1> PICK rest : IsRest(rest, f)
  BY DEF IsRest
<1> PICK next \in Nat : next = at + 1
  OBVIOUS
<1>1. <<f.tag>> \in Seq(Byte) /\ rest \in Seq(Byte) /\ WriteField(f) = <<f.tag>> \o rest
  BY CounterOf, ConcatProperties, FieldWritten DEF IsRest
<1>2. Holds(data, at, <<f.tag>>) /\ Holds(data, next, rest)
  <2>1. Len(<<f.tag>>) = 1
    OBVIOUS
  <2> QED
    BY <1>1, <2>1, HoldsParts
<1>3. data[next] = f.tag
  BY <1>2 DEF Holds
<1>4. Body(data[next], At(data, next)) =
        [status |-> "ok", value |-> f.body, pos |-> next + Len(rest)]
  BY <1>2, <1>3, BodyRead
<1>5. next + Len(rest) = at + Len(WriteField(f))
  <2>1. \A u, w \in Seq(Byte) : Len(u \o w) = Len(u) + Len(w) /\ Len(w) \in Nat
    OBVIOUS
  <2>2. Len(WriteField(f)) = 1 + Len(rest) /\ Len(rest) \in Nat
    <3>1. Len(<<f.tag>>) = 1
      OBVIOUS
    <3> QED
      BY <1>1, <2>1, <3>1
  <2> PICK n \in Nat, m \in Nat : n = Len(rest) /\ m = Len(WriteField(f))
    BY <2>2
  <2>3. m = 1 + n
    BY <2>2
  <2> QED
    BY <2>3
<1>6. f = [tag |-> f.tag, body |-> f.body]
  BY DEF Readable, ExtraFields
<1>7. ReadField(data, at) =
        [status |-> "ok", value |-> [tag |-> data[next], body |-> f.body],
         pos |-> next + Len(rest)]
  <2> PICK p : p = next + Len(rest)
    OBVIOUS
  <2> QED
    BY <1>4, FieldOf
<1> QED
  BY <1>3, <1>5, <1>6, <1>7

LEMMA CountedIsWhole ==
    ASSUME NEW data \in Seq(Byte), NEW at \in Nat, NEW size \in Nat,
           NEW c, c = Counted(At(data, at), size), c.status = "ok"
    PROVE  /\ c.value \in Seq(Byte) /\ c.pos \in at + 1 .. Len(data)
           /\ Whole(Len(c.value), size)
BY CountedBounds DEF Whole

LEMMA ReadAdvances ==
    ASSUME NEW data \in Seq(Byte), NEW at \in Nat, at < Len(data),
           ReadField(data, at).status = "ok"
    PROVE  /\ ReadField(data, at).value \in ReadableOrPadding
           /\ ReadField(data, at).pos \in at + 1 .. Len(data)
<1> PICK next, tag, body : next = at + 1 /\ tag = data[next] /\ body = Body(tag, At(data, next))
  OBVIOUS
<1>0. Len(data) \in Nat /\ next \in Nat /\ next <= Len(data) /\ tag \in Byte
  <2>1. next \in 1 .. Len(data)
    OBVIOUS
  <2> QED
    BY <2>1
<1>1. body.status = "ok"
  BY ReadFieldUnfolded
<1>2. ReadField(data, at).value = [tag |-> tag, body |-> body.value]
      /\ ReadField(data, at).pos = body.pos
  <2>1. ReadField(data, at) =
          [status |-> "ok", value |-> [tag |-> tag, body |-> body.value], pos |-> body.pos]
    BY <1>1, ReadFieldUnfolded
  <2> QED
    BY <2>1
<1>3. SUFFICES /\ [tag |-> tag, body |-> body.value] \in ReadableOrPadding
               /\ body.pos \in next .. Len(data)
  BY <1>2
<1>4. CASE tag = Padding
  <2> PICK n : n = Len(data) - next
    OBVIOUS
  <2>1. n \in Nat
    BY <1>0
  <2>2. Remaining(At(data, next)) = n
    BY DEF Remaining, At
  <2>3. body = Bytes(At(data, next), n)
    BY <1>4, <2>2, Tags DEF Body
  <2>4. body.value \in Seq(Byte) /\ body.pos = next + n /\ next + n <= Len(data)
    BY <1>0, <1>1, <2>1, <2>3, BytesBounds
  <2>5. body.pos \in next .. Len(data)
    BY <1>0, <2>1, <2>4
  <2> QED
    BY <1>0, <1>4, <2>4, <2>5 DEF ReadableOrPadding, ExtraFields
<1>5. CASE tag = Key
  <2>1. body = Bytes(At(data, next), KeyLen) /\ KeyLen \in Nat
    BY <1>5, Tags, LengthAssumption DEF Body
  <2>2. /\ body.value \in Seq(Byte) /\ Len(body.value) = KeyLen
        /\ body.pos = next + KeyLen /\ next + KeyLen <= Len(data)
    BY <1>0, <1>1, <2>1, BytesBounds
  <2>3. body.pos \in next .. Len(data)
    BY <1>0, <2>1, <2>2
  <2> QED
    BY <1>0, <1>5, <2>2, <2>3 DEF ReadableOrPadding, Readable, ExtraFields
<1>6. CASE tag \in {Nonce, MergeMining, MinerGate}
  <2>1. body = Counted(At(data, next), 1)
    BY <1>6, Tags DEF Body
  <2>2. /\ body.value \in Seq(Byte) /\ body.pos \in next + 1 .. Len(data)
        /\ Whole(Len(body.value), 1)
    BY <1>0, <1>1, <2>1, CountedIsWhole
  <2>3. Len(body.value) < WordSize
    BY <2>2, Widths DEF Whole
  <2> QED
    BY <1>0, <1>6, <2>2, <2>3 DEF ReadableOrPadding, Readable, ExtraFields
<1>7. CASE tag = Additional
  <2>1. body = Counted(At(data, next), KeyLen) /\ KeyLen \in Nat
    BY <1>7, Tags, LengthAssumption DEF Body
  <2>2. /\ body.value \in Seq(Byte) /\ body.pos \in next + 1 .. Len(data)
        /\ Whole(Len(body.value), KeyLen)
    BY <1>0, <1>1, <2>1, CountedIsWhole
  <2> QED
    BY <1>0, <1>7, <2>2 DEF ReadableOrPadding, Readable, ExtraFields
<1>8. CASE tag \notin {Padding, Key, Nonce, MergeMining, MinerGate, Additional}
  <2>1. body.status = "unknown field"
    BY <1>8 DEF Body
  <2> QED
    BY <1>1, <2>1
<1> QED
  BY <1>4, <1>5, <1>6, <1>7, <1>8

-----------------------------------------------------------------------------
(* One sequence after the other *)

Runs(seqs, F, n) ==
    F = [i \in 1 .. n |-> IF i = 1 THEN seqs[i] ELSE F[i - 1] \o seqs[i]]

Run(seqs) == CHOOSE F : Runs(seqs, F, Len(seqs))

LEMMA FlattenUnfolded ==
    \A seqs : FlattenSeq(seqs) = IF Len(seqs) = 0 THEN seqs ELSE Run(seqs)[Len(seqs)]
BY DEF FlattenSeq, Run, Runs

LEMMA RunsExists ==
    ASSUME NEW seqs
    PROVE  \A n \in Nat : \E F : Runs(seqs, F, n)
<1> DEFINE Good == {n \in Nat : \E F : Runs(seqs, F, n)}
<1>1. 0 \in Good
  <2> DEFINE F == [i \in 1 .. 0 |-> seqs]
  <2>1. \A i \in 1 .. 0 : FALSE
    OBVIOUS
  <2>2. Runs(seqs, F, 0)
    BY <2>1 DEF Runs
  <2> QED
    BY <2>2
<1>2. ASSUME NEW n \in Nat, n \in Good PROVE n + 1 \in Good
  <2>1. PICK F : Runs(seqs, F, n)
    BY <1>2
  <2> DEFINE G == [i \in 1 .. n + 1 |-> IF i = 1 THEN seqs[i] ELSE F[i - 1] \o seqs[i]]
  <2>2. \A i \in 1 .. n : G[i] = F[i]
    <3>1. \A i \in 1 .. n : i \in 1 .. n + 1
      OBVIOUS
    <3> QED
      BY <2>1, <3>1 DEF Runs
  <2>3. \A i \in 1 .. n + 1 : i # 1 => i - 1 \in 1 .. n
    OBVIOUS
  <2>4. \A i \in 1 .. n + 1 : G[i] = IF i = 1 THEN seqs[i] ELSE F[i - 1] \o seqs[i]
    OBVIOUS
  <2>5. G = [i \in 1 .. n + 1 |-> G[i]]
    OBVIOUS
  <2> HIDE DEF G
  <2>6. \A i \in 1 .. n + 1 : G[i] = IF i = 1 THEN seqs[i] ELSE G[i - 1] \o seqs[i]
    BY <2>2, <2>3, <2>4
  <2>7. Runs(seqs, G, n + 1)
    BY <2>5, <2>6 DEF Runs
  <2> QED
    BY <2>7
<1>3. \A n \in Nat : n \in Good
  <2> HIDE DEF Good
  <2> QED
    BY <1>1, <1>2, NumbersAll
<1> QED
  BY <1>3

LEMMA RunIs ==
    ASSUME NEW S, NEW seqs \in Seq(Seq(S))
    PROVE  \A i \in 1 .. Len(seqs) :
               /\ Run(seqs)[i] \in Seq(S)
               /\ Run(seqs)[i] = IF i = 1 THEN seqs[i] ELSE Run(seqs)[i - 1] \o seqs[i]
<1> PICK n \in Nat : n = Len(seqs)
  OBVIOUS
<1> PICK F : F = Run(seqs)
  OBVIOUS
<1>1. Runs(seqs, F, n)
  BY RunsExists DEF Run
<1>2. \A i \in 1 .. n : F[i] = IF i = 1 THEN seqs[i] ELSE F[i - 1] \o seqs[i]
  BY <1>1 DEF Runs
<1>3. \A i \in 1 .. n : seqs[i] \in Seq(S)
  OBVIOUS
<1> DEFINE Good == {i \in Nat : i \in 1 .. n => F[i] \in Seq(S)}
<1>4. 0 \in Good
  OBVIOUS
<1>5. ASSUME NEW i \in Nat, i \in Good PROVE i + 1 \in Good
  <2> SUFFICES ASSUME i + 1 \in 1 .. n PROVE F[i + 1] \in Seq(S)
    OBVIOUS
  <2>1. CASE i = 0
    BY <1>2, <1>3, <2>1
  <2>2. CASE i # 0
    <3>1. i \in 1 .. n /\ (i + 1) - 1 = i /\ i + 1 # 1
      BY <2>2
    <3>2. F[i] \in Seq(S) /\ seqs[i + 1] \in Seq(S)
      BY <1>3, <1>5, <3>1
    <3>3. F[i + 1] = F[i] \o seqs[i + 1]
      BY <1>2, <3>1
    <3> QED
      BY <3>2, <3>3, ConcatProperties
  <2> QED
    BY <2>1, <2>2
<1>6. \A i \in Nat : i \in Good
  <2> HIDE DEF Good
  <2> QED
    BY <1>4, <1>5, NumbersAll
<1>7. \A i \in 1 .. n : F[i] \in Seq(S)
  BY <1>6
<1> QED
  BY <1>2, <1>7

LEMMA FlattenNone == FlattenSeq(<<>>) = <<>>
<1>1. Len(<<>>) = 0
  OBVIOUS
<1> QED
  BY <1>1, FlattenUnfolded

LEMMA FlattenType ==
    ASSUME NEW S, NEW seqs \in Seq(Seq(S))
    PROVE  FlattenSeq(seqs) \in Seq(S)
<1> PICK n \in Nat : n = Len(seqs)
  OBVIOUS
<1>1. CASE n = 0
  <2>1. seqs = <<>>
    BY <1>1, EmptySeq
  <2>2. <<>> \in Seq(S)
    OBVIOUS
  <2> QED
    BY <2>1, <2>2, FlattenNone
<1>2. CASE n # 0
  <2>1. n \in 1 .. n
    BY <1>2
  <2> QED
    BY <1>2, <2>1, FlattenUnfolded, RunIs
<1> QED
  BY <1>1, <1>2

LEMMA FlattenMore ==
    ASSUME NEW S, NEW seqs \in Seq(Seq(S)), NEW s \in Seq(S)
    PROVE  FlattenSeq(Append(seqs, s)) = FlattenSeq(seqs) \o s
<1> PICK n \in Nat : n = Len(seqs)
  OBVIOUS
<1>1. PICK more \in Seq(Seq(S)) :
        /\ Len(more) = n + 1 /\ more[n + 1] = s
        /\ \A i \in 1 .. n : more[i] = seqs[i]
        /\ FlattenSeq(more) = FlattenSeq(Append(seqs, s))
  <2>1. /\ Append(seqs, s) \in Seq(Seq(S))
        /\ Len(Append(seqs, s)) = n + 1 /\ Append(seqs, s)[n + 1] = s
        /\ \A i \in 1 .. n : Append(seqs, s)[i] = seqs[i]
    OBVIOUS
  <2> QED
    BY <2>1
<1> PICK F, G : F = Run(seqs) /\ G = Run(more)
  OBVIOUS
<1>2. \A i \in 1 .. n :
        F[i] \in Seq(S) /\ F[i] = IF i = 1 THEN seqs[i] ELSE F[i - 1] \o seqs[i]
  BY RunIs
<1>3. \A i \in 1 .. n + 1 : G[i] = IF i = 1 THEN more[i] ELSE G[i - 1] \o more[i]
  <2>1. \A i \in 1 .. Len(more) : G[i] = IF i = 1 THEN more[i] ELSE G[i - 1] \o more[i]
    BY RunIs
  <2>2. Len(more) = n + 1
    BY <1>1
  <2> QED
    BY <2>1, <2>2
<1> DEFINE Good == {i \in Nat : i \in 1 .. n => G[i] = F[i]}
<1>4. 0 \in Good
  OBVIOUS
<1>5. ASSUME NEW i \in Nat, i \in Good PROVE i + 1 \in Good
  <2> SUFFICES ASSUME i + 1 \in 1 .. n PROVE G[i + 1] = F[i + 1]
    OBVIOUS
  <2>0. i + 1 \in 1 .. n + 1 /\ more[i + 1] = seqs[i + 1]
    BY <1>1
  <2>1. CASE i = 0
    BY <1>2, <1>3, <2>0, <2>1
  <2>2. CASE i # 0
    <3>1. i \in 1 .. n /\ (i + 1) - 1 = i /\ i + 1 # 1
      BY <2>2
    <3>2. G[i] = F[i]
      BY <1>5, <3>1
    <3>3. F[i + 1] = F[i] \o seqs[i + 1] /\ G[i + 1] = G[i] \o more[i + 1]
      BY <1>2, <1>3, <2>0, <3>1
    <3> QED
      BY <2>0, <3>2, <3>3
  <2> QED
    BY <2>1, <2>2
<1>6. \A i \in Nat : i \in Good
  <2> HIDE DEF Good
  <2> QED
    BY <1>4, <1>5, NumbersAll
<1>7. FlattenSeq(more) = G[n + 1]
  <2>1. n + 1 # 0
    OBVIOUS
  <2> QED
    BY <1>1, <2>1, FlattenUnfolded
<1>8. CASE n = 0
  <2>1. seqs = <<>>
    BY <1>8, EmptySeq
  <2>2. 1 \in 1 .. n + 1 /\ n + 1 = 1 /\ more[1] = s
    BY <1>1, <1>8
  <2>3. G[1] = more[1]
    BY <1>3, <2>2
  <2> QED
    BY <1>1, <1>7, <2>1, <2>2, <2>3, FlattenNone, ConcatEmptySeq
<1>9. CASE n # 0
  <2>1. n \in 1 .. n /\ n + 1 \in 1 .. n + 1 /\ (n + 1) - 1 = n /\ n + 1 # 1
    BY <1>9
  <2>2. G[n + 1] = G[n] \o s /\ G[n] = F[n]
    BY <1>1, <1>3, <1>6, <2>1
  <2>3. FlattenSeq(seqs) = F[n]
    BY <1>9, FlattenUnfolded
  <2> QED
    BY <1>1, <1>7, <2>2, <2>3
<1> QED
  BY <1>8, <1>9

LEMMA AppendIs ==
    ASSUME NEW S, NEW s \in Seq(S), NEW x \in S
    PROVE  /\ Append(s, x) \in Seq(S) /\ Len(Append(s, x)) = Len(s) + 1
           /\ Append(s, x)[Len(s) + 1] = x
           /\ \A i \in 1 .. Len(s) : Append(s, x)[i] = s[i]
OBVIOUS

LEMMA IsAppend ==
    ASSUME NEW S, NEW s \in Seq(S), NEW x \in S, NEW t \in Seq(S),
           Len(t) = Len(s) + 1, t[Len(s) + 1] = x, \A i \in 1 .. Len(s) : t[i] = s[i]
    PROVE  t = Append(s, x)
<1> PICK n \in Nat : n = Len(s)
  OBVIOUS
<1> DEFINE r == Append(s, x)
<1>1. /\ r \in Seq(S) /\ Len(r) = n + 1 /\ r[n + 1] = x /\ \A i \in 1 .. n : r[i] = s[i]
  OBVIOUS
<1> HIDE DEF r
<1>2. \A i \in 1 .. n + 1 : t[i] = r[i]
  <2> TAKE i \in 1 .. n + 1
  <2>1. i \in 1 .. n \/ i = n + 1
    OBVIOUS
  <2>2. \A j \in 1 .. n : t[j] = s[j] /\ r[j] = s[j]
    BY <1>1
  <2>3. t[n + 1] = x /\ r[n + 1] = x
    BY <1>1
  <2> QED
    BY <2>1, <2>2, <2>3
<1>3. Len(t) = Len(r) /\ Len(t) = n + 1
  BY <1>1
<1>4. t = r
  BY <1>1, <1>2, <1>3, SeqEqual
<1> QED
  BY <1>4 DEF r

-----------------------------------------------------------------------------
(* The fields of some tags *)

Only(f, tags) == IF f.tag \in tags THEN <<f>> ELSE <<>>

Parts(fs, tags) == [i \in DOMAIN fs |-> Only(fs[i], tags)]

LEMMA OfTagsUnfolded == \A fs, tags : OfTags(fs, tags) = FlattenSeq(Parts(fs, tags))
BY DEF OfTags, Parts, Only

LEMMA OnlyType == \A S : \A f \in S : \A tags : Only(f, tags) \in Seq({g \in S : g.tag \in tags})
<1> TAKE S
<1> TAKE f \in S
<1> TAKE tags
<1>1. CASE f.tag \in tags
  <2> PICK U : U = {g \in S : g.tag \in tags}
    OBVIOUS
  <2>1. f \in U
    BY <1>1
  <2>2. <<f>> \in Seq(U)
    BY <2>1
  <2> QED
    BY <1>1, <2>2 DEF Only
<1>2. CASE f.tag \notin tags
  BY <1>2 DEF Only
<1> QED
  BY <1>1, <1>2

LEMMA PartsAre ==
    ASSUME NEW S, NEW fs \in Seq(S), NEW tags
    PROVE  /\ Parts(fs, tags) \in Seq(Seq({g \in S : g.tag \in tags}))
           /\ Len(Parts(fs, tags)) = Len(fs)
           /\ \A i \in 1 .. Len(fs) : Parts(fs, tags)[i] = Only(fs[i], tags)
<1> PICK n \in Nat : n = Len(fs)
  OBVIOUS
<1> PICK U : U = Seq({g \in S : g.tag \in tags})
  OBVIOUS
<1>1. DOMAIN fs = 1 .. n /\ \A i \in 1 .. n : fs[i] \in S
  OBVIOUS
<1>2. \A i \in 1 .. n : Only(fs[i], tags) \in U
  BY <1>1, OnlyType
<1>3. Parts(fs, tags) = [i \in 1 .. n |-> Only(fs[i], tags)]
  BY <1>1 DEF Parts
<1>4. [i \in 1 .. n |-> Only(fs[i], tags)] \in Seq(U)
  BY <1>2, IsASeq
<1>5. Len([i \in 1 .. n |-> Only(fs[i], tags)]) = n
  OBVIOUS
<1> QED
  BY <1>3, <1>4, <1>5

LEMMA OfTagsType ==
    ASSUME NEW S, NEW fs \in Seq(S), NEW tags
    PROVE  OfTags(fs, tags) \in Seq({f \in S : f.tag \in tags})
BY PartsAre, OfTagsUnfolded, FlattenType

LEMMA OfTagsNone == \A tags : OfTags(<<>>, tags) = <<>>
<1> TAKE tags
<1>1. Parts(<<>>, tags) = <<>>
  BY DEF Parts
<1> QED
  BY <1>1, OfTagsUnfolded, FlattenNone

LEMMA OfTagsMore ==
    ASSUME NEW S, NEW fs \in Seq(S), NEW f \in S, NEW tags
    PROVE  OfTags(Append(fs, f), tags) = OfTags(fs, tags) \o Only(f, tags)
<1> PICK n \in Nat : n = Len(fs)
  OBVIOUS
<1> PICK U : U = {g \in S : g.tag \in tags}
  OBVIOUS
<1>1. PICK more \in Seq(S) :
        /\ more = Append(fs, f) /\ Len(more) = n + 1 /\ more[n + 1] = f
        /\ \A i \in 1 .. n : more[i] = fs[i]
  <2>1. /\ Append(fs, f) \in Seq(S) /\ Len(Append(fs, f)) = n + 1 /\ Append(fs, f)[n + 1] = f
        /\ \A i \in 1 .. n : Append(fs, f)[i] = fs[i]
    BY AppendIs
  <2> QED
    BY <2>1
<1>2. /\ Parts(more, tags) \in Seq(Seq(U)) /\ Len(Parts(more, tags)) = n + 1
      /\ \A i \in 1 .. n + 1 : Parts(more, tags)[i] = Only(more[i], tags)
  <2>1. Len(more) = n + 1
    BY <1>1
  <2>2. /\ Parts(more, tags) \in Seq(Seq(U)) /\ Len(Parts(more, tags)) = Len(more)
        /\ \A i \in 1 .. Len(more) : Parts(more, tags)[i] = Only(more[i], tags)
    BY PartsAre
  <2> QED
    BY <2>1, <2>2
<1>3. /\ Parts(fs, tags) \in Seq(Seq(U)) /\ Len(Parts(fs, tags)) = n
      /\ \A i \in 1 .. n : Parts(fs, tags)[i] = Only(fs[i], tags)
  BY PartsAre
<1>4. Only(f, tags) \in Seq(U)
  BY OnlyType
<1>5. Parts(more, tags) = Append(Parts(fs, tags), Only(f, tags))
  <2> PICK p, q, o : p = Parts(more, tags) /\ q = Parts(fs, tags) /\ o = Only(f, tags)
    OBVIOUS
  <2>1. p \in Seq(Seq(U)) /\ q \in Seq(Seq(U)) /\ o \in Seq(U)
    BY <1>2, <1>3, <1>4
  <2>2. Len(q) = n /\ Len(p) = n + 1 /\ p[n + 1] = o
    BY <1>1, <1>2, <1>3
  <2>3. \A i \in 1 .. n : p[i] = q[i]
    BY <1>1, <1>2, <1>3
  <2>4. p = Append(q, o)
    BY <2>1, <2>2, <2>3, IsAppend
  <2> QED
    BY <2>4
<1>6. FlattenSeq(Parts(more, tags)) = FlattenSeq(Parts(fs, tags)) \o Only(f, tags)
  BY <1>3, <1>4, <1>5, FlattenMore
<1> QED
  BY <1>1, <1>6, OfTagsUnfolded

LEMMA OfTagsIn ==
    ASSUME NEW S, NEW fs \in Seq(S), NEW tags
    PROVE  OfTags(fs, tags) \in Seq(S)
<1>1. {f \in S : f.tag \in tags} \subseteq S
  OBVIOUS
<1> QED
  BY <1>1, OfTagsType, SeqMonotonic

LEMMA OnlyIn == \A S : \A f \in S : \A tags : Only(f, tags) \in Seq(S)
BY DEF Only

LEMMA OfTagsOne ==
    ASSUME NEW f, NEW tags
    PROVE  OfTags(<<f>>, tags) = Only(f, tags)
<1> PICK S : S = {f}
  OBVIOUS
<1>1. <<>> \in Seq(S) /\ f \in S /\ Append(<<>>, f) = <<f>>
  OBVIOUS
<1>2. OfTags(Append(<<>>, f), tags) = OfTags(<<>>, tags) \o Only(f, tags)
  BY <1>1, OfTagsMore
<1>3. Only(f, tags) \in Seq(S)
  BY <1>1, OnlyIn
<1> QED
  BY <1>1, <1>2, <1>3, OfTagsNone, ConcatEmptySeq

LEMMA AppendRegrouped ==
    ASSUME NEW S, NEW s \in Seq(S), NEW t \in Seq(S), NEW x \in S
    PROVE  /\ s \o Append(t, x) = Append(s \o t, x)
           /\ s \o (<<x>> \o t) = Append(s, x) \o t
<1>1. <<x>> \in Seq(S) /\ Append(t, x) = t \o <<x>> /\ Append(s, x) = s \o <<x>>
  OBVIOUS
<1>2. s \o t \in Seq(S)
  BY ConcatProperties
<1>3. Append(s \o t, x) = (s \o t) \o <<x>>
  <2> PICK u \in Seq(S) : u = s \o t
    BY <1>2
  <2>1. Append(u, x) = u \o <<x>>
    OBVIOUS
  <2> QED
    BY <2>1
<1>4. s \o (t \o <<x>>) = (s \o t) \o <<x>>
  BY <1>1, ConcatAssociative
<1>5. s \o (<<x>> \o t) = (s \o <<x>>) \o t
  BY <1>1, ConcatAssociative
<1> QED
  BY <1>1, <1>3, <1>4, <1>5

LEMMA OfTagsConcat ==
    ASSUME NEW S, NEW fs \in Seq(S), NEW tags
    PROVE  \A gs \in Seq(S) : OfTags(fs \o gs, tags) = OfTags(fs, tags) \o OfTags(gs, tags)
<1>0. \A u, v, w \in Seq(S) : (u \o v) \o w = u \o (v \o w)
  BY ConcatAssociative
<1> DEFINE Good == {gs \in Seq(S) : OfTags(fs \o gs, tags) = OfTags(fs, tags) \o OfTags(gs, tags)}
<1>1. <<>> \in Good
  <2>1. <<>> \in Seq(S) /\ OfTags(fs, tags) \in Seq(S) /\ fs \o <<>> = fs
    BY OfTagsIn, ConcatEmptySeq
  <2>2. OfTags(fs, tags) \o OfTags(<<>>, tags) = OfTags(fs, tags)
    BY <2>1, OfTagsNone, ConcatEmptySeq
  <2> QED
    BY <2>1, <2>2
<1>2. ASSUME NEW gs \in Seq(S), NEW g \in S, gs \in Good PROVE Append(gs, g) \in Good
  <2> PICK a, b, o : a = OfTags(fs, tags) /\ b = OfTags(gs, tags) /\ o = Only(g, tags)
    OBVIOUS
  <2>1. a \in Seq(S) /\ b \in Seq(S) /\ o \in Seq(S) /\ fs \o gs \in Seq(S)
    BY OfTagsIn, OnlyIn, ConcatProperties
  <2>2. fs \o Append(gs, g) = Append(fs \o gs, g)
    BY AppendRegrouped
  <2>3. OfTags(Append(fs \o gs, g), tags) = OfTags(fs \o gs, tags) \o o
    BY <2>1, OfTagsMore
  <2>4. OfTags(fs \o gs, tags) = a \o b
    BY <1>2
  <2>5. OfTags(Append(gs, g), tags) = b \o o
    BY OfTagsMore
  <2>6. (a \o b) \o o = a \o (b \o o)
    BY <1>0, <2>1
  <2>7. Append(gs, g) \in Seq(S)
    OBVIOUS
  <2> QED
    BY <2>2, <2>3, <2>4, <2>5, <2>6, <2>7
<1>3. \A gs \in Seq(S) : gs \in Good
  <2> HIDE DEF Good
  <2> QED
    BY <1>1, <1>2, SequencesAll
<1> QED
  BY <1>3

LEMMA OfTagsOfBoth ==
    \A S, tags : \A fs, gs \in Seq(S) :
        OfTags(fs \o gs, tags) = OfTags(fs, tags) \o OfTags(gs, tags)
BY OfTagsConcat

LEMMA OfTagsTwice ==
    ASSUME NEW S, NEW T, NEW U
    PROVE  \A fs \in Seq(S) : OfTags(OfTags(fs, T), U) = OfTags(fs, T \cap U)
<1> DEFINE Good == {fs \in Seq(S) : OfTags(OfTags(fs, T), U) = OfTags(fs, T \cap U)}
<1>1. <<>> \in Good
  BY OfTagsNone
<1>2. ASSUME NEW fs \in Seq(S), NEW f \in S, fs \in Good PROVE Append(fs, f) \in Good
  <2>1. OfTags(fs, T) \in Seq(S) /\ Only(f, T) \in Seq(S) /\ Append(fs, f) \in Seq(S)
    BY OfTagsIn, OnlyIn
  <2>2. OfTags(Append(fs, f), T) = OfTags(fs, T) \o Only(f, T)
    BY OfTagsMore
  <2>3. OfTags(OfTags(fs, T) \o Only(f, T), U) = OfTags(OfTags(fs, T), U) \o OfTags(Only(f, T), U)
    <3>1. \A s, t \in Seq(S) : OfTags(s \o t, U) = OfTags(s, U) \o OfTags(t, U)
      BY OfTagsConcat
    <3> QED
      BY <2>1, <3>1, Zenon
  <2>4. OfTags(Only(f, T), U) = Only(f, T \cap U)
    <3>1. CASE f.tag \in T
      <4>1. Only(f, T) = <<f>>
        BY <3>1 DEF Only
      <4>2. Only(f, U) = Only(f, T \cap U)
        BY <3>1 DEF Only
      <4> QED
        BY <4>1, <4>2, OfTagsOne
    <3>2. CASE f.tag \notin T
      <4>1. Only(f, T) = <<>> /\ Only(f, T \cap U) = <<>>
        BY <3>2 DEF Only
      <4> QED
        BY <4>1, OfTagsNone
    <3> QED
      BY <3>1, <3>2
  <2>5. OfTags(Append(fs, f), T \cap U) = OfTags(fs, T \cap U) \o Only(f, T \cap U)
    BY OfTagsMore
  <2> QED
    BY <1>2, <2>1, <2>2, <2>3, <2>4, <2>5
<1>3. \A fs \in Seq(S) : fs \in Good
  <2> HIDE DEF Good
  <2> QED
    BY <1>1, <1>2, SequencesAll
<1> QED
  BY <1>3

LEMMA OfTagsNothing ==
    ASSUME NEW S, NEW tags, \A f \in S : f.tag \notin tags
    PROVE  \A fs \in Seq(S) : OfTags(fs, tags) = <<>>
<1> TAKE fs \in Seq(S)
<1>1. {f \in S : f.tag \in tags} = {}
  OBVIOUS
<1>2. OfTags(fs, tags) \in Seq({})
  BY <1>1, OfTagsType
<1>3. \A s \in Seq({}) : s = <<>>
  <2> SUFFICES ASSUME NEW s \in Seq({}), s # <<>> PROVE FALSE
    OBVIOUS
  <2>1. 1 \in 1 .. Len(s)
    BY EmptySeq
  <2>2. s[1] \in {}
    BY <2>1, ElementOfSeq
  <2> QED
    BY <2>2
<1> QED
  BY <1>2, <1>3

LEMMA EmptyParts ==
    ASSUME NEW S, NEW s \in Seq(S), NEW t \in Seq(S), s \o t = <<>>
    PROVE  s = <<>> /\ t = <<>>
BY ConcatEqualIffEmpty

LEMMA OfTagsEmpty ==
    ASSUME NEW S, NEW tags
    PROVE  \A fs \in Seq(S) : OfTags(fs, tags) = <<>> => fs \in Seq({f \in S : f.tag \notin tags})
<1> PICK U : U = {f \in S : f.tag \notin tags}
  OBVIOUS
<1> DEFINE Good == {fs \in Seq(S) : OfTags(fs, tags) = <<>> => fs \in Seq(U)}
<1>1. <<>> \in Good
  OBVIOUS
<1>2. ASSUME NEW fs \in Seq(S), NEW f \in S, fs \in Good PROVE Append(fs, f) \in Good
  <2>1. Append(fs, f) \in Seq(S)
    OBVIOUS
  <2> SUFFICES ASSUME OfTags(Append(fs, f), tags) = <<>> PROVE Append(fs, f) \in Seq(U)
    BY <2>1
  <2>2. OfTags(fs, tags) \o Only(f, tags) = <<>>
    BY OfTagsMore
  <2>3. OfTags(fs, tags) = <<>> /\ Only(f, tags) = <<>>
    BY <2>2, OfTagsIn, OnlyIn, EmptyParts
  <2>4. f \in U
    <3>1. <<f>> # <<>>
      OBVIOUS
    <3> QED
      BY <2>3, <3>1 DEF Only
  <2>5. fs \in Seq(U)
    BY <1>2, <2>3
  <2> QED
    BY <2>4, <2>5
<1>3. \A fs \in Seq(S) : fs \in Good
  <2> HIDE DEF Good
  <2> QED
    BY <1>1, <1>2, SequencesAll
<1> QED
  BY <1>3

-----------------------------------------------------------------------------
(* Sorted by tag *)

UpTo(fs, n) == [t \in 1 .. n |-> Tagged(fs, t - 1)]

LEMMA SortedUnfolded == \A fs : Sorted(fs) = FlattenSeq(UpTo(fs, ByteSize))
BY DEF Sorted, UpTo

LEMMA UpToIs ==
    ASSUME NEW S, NEW fs \in Seq(S), NEW n \in Nat
    PROVE  /\ UpTo(fs, n) \in Seq(Seq(S)) /\ Len(UpTo(fs, n)) = n
           /\ \A t \in 1 .. n : UpTo(fs, n)[t] = Tagged(fs, t - 1)
<1> PICK U : U = Seq(S)
  OBVIOUS
<1>1. \A t \in 1 .. n : Tagged(fs, t - 1) \in U
  BY OfTagsIn DEF Tagged
<1>2. [t \in 1 .. n |-> Tagged(fs, t - 1)] \in Seq(U)
  BY <1>1, IsASeq
<1>3. Len([t \in 1 .. n |-> Tagged(fs, t - 1)]) = n
  OBVIOUS
<1> QED
  BY <1>2, <1>3 DEF UpTo

LEMMA UpToMore ==
    ASSUME NEW S, NEW fs \in Seq(S), NEW n \in Nat
    PROVE  UpTo(fs, n + 1) = Append(UpTo(fs, n), Tagged(fs, n))
<1> PICK m \in Nat : m = n + 1
  OBVIOUS
<1>1. /\ UpTo(fs, m) \in Seq(Seq(S)) /\ Len(UpTo(fs, m)) = n + 1
      /\ \A t \in 1 .. m : UpTo(fs, m)[t] = Tagged(fs, t - 1)
  BY UpToIs
<1>2. /\ UpTo(fs, n) \in Seq(Seq(S)) /\ Len(UpTo(fs, n)) = n
      /\ \A t \in 1 .. n : UpTo(fs, n)[t] = Tagged(fs, t - 1)
  BY UpToIs
<1>3. Tagged(fs, n) \in Seq(S)
  BY OfTagsIn DEF Tagged
<1>4. UpTo(fs, m)[n + 1] = Tagged(fs, n)
  <2>1. n + 1 \in 1 .. m /\ (n + 1) - 1 = n
    OBVIOUS
  <2> QED
    BY <1>1, <2>1
<1>5. ASSUME NEW t \in 1 .. n PROVE UpTo(fs, m)[t] = UpTo(fs, n)[t]
  <2>1. t \in 1 .. m
    OBVIOUS
  <2>2. UpTo(fs, m)[t] = Tagged(fs, t - 1)
    BY <1>1, <2>1
  <2>3. UpTo(fs, n)[t] = Tagged(fs, t - 1)
    BY <1>2
  <2> QED
    BY <2>2, <2>3
<1> PICK p, q, o : p = UpTo(fs, m) /\ q = UpTo(fs, n) /\ o = Tagged(fs, n)
  OBVIOUS
<1>6. p = Append(q, o)
  BY <1>1, <1>2, <1>3, <1>4, <1>5, IsAppend
<1> QED
  BY <1>6

(* fs sorted as far as the tag n. *)
SortedTo(fs, n) ==
    \A u \in Nat :
        OfTags(FlattenSeq(UpTo(fs, n)), {u}) = IF u < n THEN OfTags(fs, {u}) ELSE <<>>

LEMMA SortedUpTo ==
    ASSUME NEW S, NEW fs \in Seq(S)
    PROVE  \A n \in Nat : SortedTo(fs, n)
<1> DEFINE Good == {n \in Nat : SortedTo(fs, n)}
<1>1. 0 \in Good
  <2>1. UpTo(fs, 0) = <<>>
    BY DEF UpTo
  <2>2. \A u \in Nat : OfTags(FlattenSeq(UpTo(fs, 0)), {u}) = <<>> /\ ~(u < 0)
    BY <2>1, FlattenNone, OfTagsNone
  <2> QED
    BY <2>2 DEF SortedTo
<1>2. ASSUME NEW n \in Nat, n \in Good PROVE n + 1 \in Good
  <2> PICK m \in Nat : m = n + 1
    OBVIOUS
  <2> PICK a, b, more : a = FlattenSeq(UpTo(fs, n)) /\ b = OfTags(fs, {n}) /\ more = FlattenSeq(UpTo(fs, m))
    OBVIOUS
  <2>1. a \in Seq(S) /\ b \in Seq(S)
    BY UpToIs, FlattenType, OfTagsIn
  <2>2. more = a \o b
    <3>1. UpTo(fs, n) \in Seq(Seq(S))
      BY UpToIs
    <3>2. UpTo(fs, m) = Append(UpTo(fs, n), b)
      BY UpToMore DEF Tagged
    <3> QED
      BY <2>1, <3>1, <3>2, FlattenMore
  <2>3. ASSUME NEW u \in Nat
        PROVE  OfTags(a \o b, {u}) = IF u < n + 1 THEN OfTags(fs, {u}) ELSE <<>>
    <3>1. OfTags(a \o b, {u}) = OfTags(a, {u}) \o OfTags(b, {u})
      <4>1. \A tags : OfTags(a \o b, tags) = OfTags(a, tags) \o OfTags(b, tags)
        BY <2>1, OfTagsOfBoth
      <4> QED
        BY <4>1
    <3>2. OfTags(a, {u}) = IF u < n THEN OfTags(fs, {u}) ELSE <<>>
      <4>1. SortedTo(fs, n)
        BY <1>2
      <4> QED
        BY <4>1 DEF SortedTo
    <3>3. OfTags(b, {u}) = OfTags(fs, {n} \cap {u})
      <4>1. \A T, U : OfTags(OfTags(fs, T), U) = OfTags(fs, T \cap U)
        BY OfTagsTwice
      <4> QED
        BY <4>1
    <3>4. OfTags(fs, {u}) \in Seq(S) /\ <<>> \in Seq(S)
      BY OfTagsIn
    <3>5. CASE u = n
      <4>1. {n} \cap {u} = {u} /\ ~(u < n) /\ u < n + 1
        BY <3>5
      <4>2. OfTags(a, {u}) = <<>> /\ OfTags(b, {u}) = OfTags(fs, {u})
        BY <3>2, <3>3, <4>1
      <4>3. <<>> \o OfTags(fs, {u}) = OfTags(fs, {u})
        BY <3>4, ConcatEmptySeq
      <4> QED
        BY <3>1, <4>1, <4>2, <4>3
    <3>6. CASE u # n
      <4>1. {n} \cap {u} = {} /\ (u < n <=> u < n + 1)
        BY <3>6
      <4>2. OfTags(b, {u}) = <<>>
        BY <3>3, <4>1, OfTagsNothing
      <4>3. OfTags(a, {u}) \o <<>> = OfTags(a, {u})
        BY <2>1, OfTagsIn, ConcatEmptySeq
      <4> QED
        BY <3>1, <3>2, <4>1, <4>2, <4>3
    <3> QED
      BY <3>5, <3>6
  <2>4. SortedTo(fs, m)
    BY <2>2, <2>3 DEF SortedTo
  <2> QED
    BY <2>4
<1>3. \A n \in Nat : n \in Good
  <2> HIDE DEF Good
  <2> QED
    BY <1>1, <1>2, NumbersAll
<1> QED
  BY <1>3

LEMMA SortedIn ==
    ASSUME NEW S, NEW fs \in Seq(S)
    PROVE  Sorted(fs) \in Seq(S)
<1>1. ByteSize \in Nat
  BY Widths
<1> QED
  BY <1>1, SortedUnfolded, UpToIs, FlattenType

LEMMA SortedTagged ==
    ASSUME NEW S, NEW fs \in Seq(S)
    PROVE  \A u \in Byte : Tagged(Sorted(fs), u) = Tagged(fs, u)
<1>1. ByteSize \in Nat /\ \A u \in Byte : u \in Nat /\ u < ByteSize
  BY Widths
<1> QED
  BY <1>1, SortedUnfolded, SortedUpTo DEF Tagged, SortedTo

LEMMA SortedTwice ==
    ASSUME NEW S, NEW fs \in Seq(S)
    PROVE  Sorted(Sorted(fs)) = Sorted(fs)
<1>1. \A t \in 1 .. ByteSize : t - 1 \in Byte
  BY Widths
<1>2. \A t \in 1 .. ByteSize : Tagged(Sorted(fs), t - 1) = Tagged(fs, t - 1)
  BY <1>1, SortedTagged
<1>3. UpTo(Sorted(fs), ByteSize) = UpTo(fs, ByteSize)
  BY <1>2 DEF UpTo
<1> QED
  BY <1>3, SortedUnfolded

-----------------------------------------------------------------------------
(* All the fields, written and read *)

Pieces(gs) == [i \in DOMAIN gs |-> WriteField(gs[i])]

Written(gs) == FlattenSeq(Pieces(gs))

LEMMA WriteExtraIs == \A fs : WriteExtra(fs) = Written(Sorted(fs))
BY DEF WriteExtra, Written, Pieces

LEMMA PiecesAre ==
    ASSUME NEW gs \in Seq(Readable)
    PROVE  /\ Pieces(gs) \in Seq(Seq(Byte)) /\ Len(Pieces(gs)) = Len(gs)
           /\ \A i \in 1 .. Len(gs) : Pieces(gs)[i] = WriteField(gs[i])
<1> PICK n \in Nat : n = Len(gs)
  OBVIOUS
<1> PICK U : U = Seq(Byte)
  OBVIOUS
<1>1. DOMAIN gs = 1 .. n /\ \A i \in 1 .. n : gs[i] \in Readable
  OBVIOUS
<1>2. \A i \in 1 .. n : WriteField(gs[i]) \in U
  BY <1>1, FieldWritten
<1>3. Pieces(gs) = [i \in 1 .. n |-> WriteField(gs[i])]
  BY <1>1 DEF Pieces
<1>4. [i \in 1 .. n |-> WriteField(gs[i])] \in Seq(U)
  BY <1>2, IsASeq
<1>5. Len([i \in 1 .. n |-> WriteField(gs[i])]) = n
  OBVIOUS
<1> QED
  BY <1>3, <1>4, <1>5

LEMMA WrittenType == \A gs \in Seq(Readable) : Written(gs) \in Seq(Byte)
BY PiecesAre, FlattenType DEF Written

LEMMA WrittenNone == Written(<<>>) = <<>>
<1>1. Pieces(<<>>) = <<>>
  BY DEF Pieces
<1> QED
  BY <1>1, FlattenNone DEF Written

LEMMA WrittenMore ==
    ASSUME NEW gs \in Seq(Readable), NEW g \in Readable
    PROVE  Written(Append(gs, g)) = Written(gs) \o WriteField(g)
<1> PICK n \in Nat : n = Len(gs)
  OBVIOUS
<1>1. PICK more \in Seq(Readable) :
        /\ more = Append(gs, g) /\ Len(more) = n + 1 /\ more[n + 1] = g
        /\ \A i \in 1 .. n : more[i] = gs[i]
  <2>1. /\ Append(gs, g) \in Seq(Readable) /\ Len(Append(gs, g)) = n + 1
        /\ Append(gs, g)[n + 1] = g /\ \A i \in 1 .. n : Append(gs, g)[i] = gs[i]
    BY AppendIs
  <2> QED
    BY <2>1
<1>2. /\ Pieces(more) \in Seq(Seq(Byte)) /\ Len(Pieces(more)) = n + 1
      /\ \A i \in 1 .. n + 1 : Pieces(more)[i] = WriteField(more[i])
  <2>1. Len(more) = n + 1
    BY <1>1
  <2>2. /\ Pieces(more) \in Seq(Seq(Byte)) /\ Len(Pieces(more)) = Len(more)
        /\ \A i \in 1 .. Len(more) : Pieces(more)[i] = WriteField(more[i])
    BY PiecesAre
  <2> QED
    BY <2>1, <2>2
<1>3. /\ Pieces(gs) \in Seq(Seq(Byte)) /\ Len(Pieces(gs)) = n
      /\ \A i \in 1 .. n : Pieces(gs)[i] = WriteField(gs[i])
  BY PiecesAre
<1> PICK p, q, o : p = Pieces(more) /\ q = Pieces(gs) /\ o = WriteField(g)
  OBVIOUS
<1>4. p \in Seq(Seq(Byte)) /\ q \in Seq(Seq(Byte)) /\ o \in Seq(Byte)
  BY <1>2, <1>3, FieldWritten
<1>5. Len(q) = n /\ Len(p) = n + 1 /\ p[n + 1] = o
  <2>1. p[n + 1] = WriteField(more[n + 1])
    BY <1>2
  <2>2. more[n + 1] = g
    BY <1>1
  <2> QED
    BY <1>2, <1>3, <2>1, <2>2
<1>6. \A i \in 1 .. n : p[i] = q[i]
  BY <1>1, <1>2, <1>3
<1>7. p = Append(q, o)
  BY <1>4, <1>5, <1>6, IsAppend
<1>8. FlattenSeq(p) = FlattenSeq(q) \o o
  BY <1>4, <1>7, FlattenMore
<1> QED
  BY <1>1, <1>8 DEF Written

LEMMA WrittenConcat ==
    ASSUME NEW fs \in Seq(Readable)
    PROVE  \A gs \in Seq(Readable) : Written(fs \o gs) = Written(fs) \o Written(gs)
<1> DEFINE Good == {gs \in Seq(Readable) : Written(fs \o gs) = Written(fs) \o Written(gs)}
<1>1. <<>> \in Good
  <2>1. <<>> \in Seq(Readable) /\ Written(fs) \in Seq(Byte) /\ fs \o <<>> = fs
    BY WrittenType, ConcatEmptySeq
  <2>2. Written(fs) \o Written(<<>>) = Written(fs)
    BY <2>1, WrittenNone, ConcatEmptySeq
  <2> QED
    BY <2>1, <2>2
<1>2. ASSUME NEW gs \in Seq(Readable), NEW g \in Readable, gs \in Good PROVE Append(gs, g) \in Good
  <2> PICK a, b, o : a = Written(fs) /\ b = Written(gs) /\ o = WriteField(g)
    OBVIOUS
  <2>1. a \in Seq(Byte) /\ b \in Seq(Byte) /\ o \in Seq(Byte) /\ fs \o gs \in Seq(Readable)
    BY WrittenType, FieldWritten, ConcatProperties
  <2>2. fs \o Append(gs, g) = Append(fs \o gs, g)
    BY AppendRegrouped
  <2>3. Written(Append(fs \o gs, g)) = Written(fs \o gs) \o o
    BY <2>1, WrittenMore
  <2>4. Written(fs \o gs) = a \o b
    BY <1>2
  <2>5. Written(Append(gs, g)) = b \o o
    BY WrittenMore
  <2>6. (a \o b) \o o = a \o (b \o o)
    BY <2>1, BytesRegrouped
  <2>7. Append(gs, g) \in Seq(Readable)
    OBVIOUS
  <2> QED
    BY <2>2, <2>3, <2>4, <2>5, <2>6, <2>7
<1>3. \A gs \in Seq(Readable) : gs \in Good
  <2> HIDE DEF Good
  <2> QED
    BY <1>1, <1>2, SequencesAll
<1> QED
  BY <1>3

Stops(data, at) == at = Len(data) \/ ReadField(data, at).status # "ok"

Reads(data, F, from) ==
    F = [at \in from .. Len(data) |->
            IF Stops(data, at) THEN <<>>
            ELSE <<ReadField(data, at).value>> \o F[ReadField(data, at).pos]]

(* What Parsed finds from a place on. *)
FieldsFrom(data) == CHOOSE F : Reads(data, F, 0)

LEMMA ParsedUnfolded == \A data : Parsed(data) = FieldsFrom(data)[0]
BY DEF Parsed, FieldsFrom, Reads, Stops

LEMMA ReadOn ==
    ASSUME NEW data \in Seq(Byte), NEW at \in 0 .. Len(data), ~Stops(data, at)
    PROVE  /\ ReadField(data, at).value \in ReadableOrPadding
           /\ ReadField(data, at).pos \in at + 1 .. Len(data)
<1>1. Len(data) \in Nat
  OBVIOUS
<1>2. at \in Nat /\ at < Len(data) /\ ReadField(data, at).status = "ok"
  BY <1>1 DEF Stops
<1> QED
  BY <1>2, ReadAdvances

LEMMA ReadsExists ==
    ASSUME NEW data \in Seq(Byte)
    PROVE  \E F : Reads(data, F, 0)
<1> PICK n \in Nat : n = Len(data)
  OBVIOUS
<1> DEFINE Good == {k \in Nat : k <= n => \E F : Reads(data, F, n - k)}
<1>1. 0 \in Good
  <2> DEFINE F == [at \in n .. n |-> <<>>]
  <2>1. \A at \in n .. n : Stops(data, at)
    BY DEF Stops
  <2>2. Reads(data, F, n)
    BY <2>1 DEF Reads
  <2>3. n - 0 = n
    OBVIOUS
  <2> QED
    BY <2>2, <2>3
<1>2. ASSUME NEW k \in Nat, k \in Good PROVE k + 1 \in Good
  <2> SUFFICES ASSUME k + 1 <= n PROVE \E G : Reads(data, G, n - (k + 1))
    OBVIOUS
  <2>1. PICK i \in Nat : i = n - (k + 1) /\ n - k = i + 1 /\ i < n
    <3>1. n - (k + 1) \in Nat /\ n - k = (n - (k + 1)) + 1 /\ n - (k + 1) < n
      OBVIOUS
    <3> QED
      BY <3>1
  <2>2. PICK F : Reads(data, F, i + 1)
    BY <1>2, <2>1
  <2> DEFINE Turn(H, at) == IF Stops(data, at) THEN <<>>
                            ELSE <<ReadField(data, at).value>> \o H[ReadField(data, at).pos]
             G == [at \in i .. n |-> Turn(F, at)]
  <2>3. \A at \in i + 1 .. n : F[at] = Turn(F, at) /\ at \in i .. n
    <3>1. F = [at \in i + 1 .. n |-> Turn(F, at)]
      BY <2>2 DEF Reads
    <3>2. \A at \in i + 1 .. n : at \in i .. n
      OBVIOUS
    <3> HIDE DEF Turn
    <3> QED
      BY <3>1, <3>2
  <2>4. \A at \in i .. n : G[at] = Turn(F, at)
    OBVIOUS
  <2>5. G = [at \in i .. n |-> G[at]]
    OBVIOUS
  <2> HIDE DEF G, Turn
  <2>6. \A at \in i + 1 .. n : G[at] = F[at]
    BY <2>3, <2>4
  <2>7. \A at \in i .. n : ~Stops(data, at) => ReadField(data, at).pos \in i + 1 .. n
    <3> SUFFICES ASSUME NEW at \in i .. n, ~Stops(data, at)
                 PROVE  ReadField(data, at).pos \in i + 1 .. n
      OBVIOUS
    <3>1. at \in 0 .. Len(data)
      OBVIOUS
    <3> PICK p : p = ReadField(data, at).pos
      OBVIOUS
    <3>2. p \in at + 1 .. n
      BY <3>1, ReadOn
    <3> QED
      BY <3>2
  <2>8. \A at \in i .. n : G[at] = Turn(G, at)
    BY <2>4, <2>6, <2>7 DEF Turn
  <2>9. G = [at \in i .. n |-> Turn(G, at)]
    BY <2>5, <2>8
  <2>10. Reads(data, G, i)
    BY <2>9 DEF Reads, Turn
  <2> QED
    BY <2>1, <2>10
<1>3. \A k \in Nat : k \in Good
  <2> HIDE DEF Good
  <2> QED
    BY <1>1, <1>2, NumbersAll
<1>4. n \in Good /\ n - n = 0
  BY <1>3
<1> QED
  BY <1>4

LEMMA FieldsFromIs ==
    ASSUME NEW data \in Seq(Byte)
    PROVE  \A at \in 0 .. Len(data) :
               FieldsFrom(data)[at] =
                   IF Stops(data, at) THEN <<>>
                   ELSE <<ReadField(data, at).value>> \o FieldsFrom(data)[ReadField(data, at).pos]
<1> PICK F : F = FieldsFrom(data)
  OBVIOUS
<1>1. Reads(data, F, 0)
  BY ReadsExists DEF FieldsFrom
<1> QED
  BY <1>1 DEF Reads

LEMMA FieldsFromType ==
    ASSUME NEW data \in Seq(Byte)
    PROVE  \A at \in 0 .. Len(data) : FieldsFrom(data)[at] \in Seq(ReadableOrPadding)
<1> PICK n \in Nat : n = Len(data)
  OBVIOUS
<1> DEFINE Good == {k \in Nat : k <= n =>
               \A at \in n - k .. n : FieldsFrom(data)[at] \in Seq(ReadableOrPadding)}
<1>1. 0 \in Good
  <2>1. n \in 0 .. Len(data) /\ Stops(data, n)
    BY DEF Stops
  <2>2. FieldsFrom(data)[n] = <<>>
    BY <2>1, FieldsFromIs
  <2>3. FieldsFrom(data)[n] \in Seq(ReadableOrPadding)
    BY <2>2
  <2>4. \A at \in n - 0 .. n : at = n
    OBVIOUS
  <2> QED
    BY <2>3, <2>4
<1>2. ASSUME NEW k \in Nat, k \in Good PROVE k + 1 \in Good
  <2> SUFFICES ASSUME k + 1 <= n, NEW at \in n - (k + 1) .. n
               PROVE  FieldsFrom(data)[at] \in Seq(ReadableOrPadding)
    OBVIOUS
  <2>0. at \in 0 .. Len(data) /\ k <= n
    OBVIOUS
  <2>1. \A p \in at + 1 .. n : FieldsFrom(data)[p] \in Seq(ReadableOrPadding)
    <3>1. \A p \in at + 1 .. n : p \in n - k .. n
      OBVIOUS
    <3> QED
      BY <1>2, <2>0, <3>1
  <2>2. CASE Stops(data, at)
    <3>1. FieldsFrom(data)[at] = <<>>
      BY <2>0, <2>2, FieldsFromIs
    <3> QED
      BY <3>1
  <2>3. CASE ~Stops(data, at)
    <3> PICK v, p : v = ReadField(data, at).value /\ p = ReadField(data, at).pos
      OBVIOUS
    <3>1. v \in ReadableOrPadding /\ p \in at + 1 .. n
      BY <2>0, <2>3, ReadOn
    <3> PICK rest : rest = FieldsFrom(data)[p]
      OBVIOUS
    <3>2. rest \in Seq(ReadableOrPadding)
      BY <2>1, <3>1
    <3>3. FieldsFrom(data)[at] = <<v>> \o rest
      BY <2>0, <2>3, FieldsFromIs
    <3>4. <<v>> \in Seq(ReadableOrPadding)
      BY <3>1
    <3>5. <<v>> \o rest \in Seq(ReadableOrPadding)
      BY <3>2, <3>4, ConcatProperties
    <3> QED
      BY <3>3, <3>5
  <2> QED
    BY <2>2, <2>3
<1>3. \A k \in Nat : k \in Good
  <2> HIDE DEF Good
  <2> QED
    BY <1>1, <1>2, NumbersAll
<1>4. n \in Good /\ n - n = 0
  BY <1>3
<1> QED
  BY <1>4

LEMMA HoldsInside ==
    ASSUME NEW u \in Seq(Byte), NEW w \in Seq(Byte), NEW v \in Seq(Byte)
    PROVE  Holds((u \o w) \o v, Len(u), w)
<1> PICK uw : uw = u \o w
  OBVIOUS
<1> PICK data : data = uw \o v
  OBVIOUS
<1>1. uw \in Seq(Byte) /\ data \in Seq(Byte)
  BY ConcatProperties
<1>2. Holds(data, 0, data)
  <2>1. 0 + Len(data) <= Len(data) /\ \A i \in 1 .. Len(data) : data[0 + i] = data[i]
    BY <1>1
  <2> QED
    BY <1>1, <2>1 DEF Holds
<1>3. Holds(data, 0, uw)
  BY <1>1, <1>2, HoldsParts
<1>4. Holds(data, 0 + Len(u), w)
  BY <1>3, HoldsParts
<1>5. 0 + Len(u) = Len(u)
  OBVIOUS
<1> QED
  BY <1>4, <1>5

LEMMA FieldTakesRoom == \A f \in Readable : Len(WriteField(f)) \in Nat \ {0}
<1> TAKE f \in Readable
<1> PICK t : t = Counter(f) \o f.body
  OBVIOUS
<1>1. t \in Seq(Byte) /\ WriteField(f) = <<f.tag>> \o t /\ f.tag \in Byte
  BY CounterOf, FieldWritten, ConcatProperties
<1>2. \A x \in Byte : \A s \in Seq(Byte) : Len(<<x>> \o s) \in Nat \ {0}
  OBVIOUS
<1> QED
  BY <1>1, <1>2

(* In data g is written behind a and before c. *)
IsThere(data, a, g, c) ==
    /\ a \in Seq(Readable) /\ g \in Readable /\ c \in Seq(Readable)
    /\ data = Written(Append(a, g) \o c)

LEMMA StepRead ==
    ASSUME NEW a, NEW g, NEW c, NEW data, IsThere(data, a, g, c)
    PROVE  FieldsFrom(data)[Len(Written(a))] =
               <<g>> \o FieldsFrom(data)[Len(Written(Append(a, g)))]
<1>0. /\ a \in Seq(Readable) /\ g \in Readable /\ c \in Seq(Readable)
      /\ data = Written(Append(a, g) \o c)
  BY DEF IsThere
<1> PICK u, w, v : u = Written(a) /\ w = WriteField(g) /\ v = Written(c)
  OBVIOUS
<1>1. u \in Seq(Byte) /\ w \in Seq(Byte) /\ v \in Seq(Byte) /\ Append(a, g) \in Seq(Readable)
  BY <1>0, WrittenType, FieldWritten, AppendIs
<1>2. data = (u \o w) \o v /\ Written(Append(a, g)) = u \o w
  <2>1. Written(Append(a, g)) = u \o w
    BY <1>0, WrittenMore
  <2>2. data = Written(Append(a, g)) \o v
    BY <1>0, <1>1, WrittenConcat
  <2> QED
    BY <2>1, <2>2
<1>3. Holds(data, Len(u), w)
  BY <1>1, <1>2, HoldsInside
<1> PICK at \in Nat : at = Len(u)
  BY <1>1
<1>4. ReadField(data, at) = [status |-> "ok", value |-> g, pos |-> at + Len(w)]
  BY <1>0, <1>3, FieldRead
<1>5. Len(w) \in Nat \ {0}
  BY <1>0, FieldTakesRoom
<1>6. data \in Seq(Byte) /\ at + Len(w) <= Len(data) /\ Len(data) \in Nat
  BY <1>3 DEF Holds
<1>7. at \in 0 .. Len(data) /\ at # Len(data)
  <2> PICK n \in Nat, k \in Nat \ {0} : n = Len(data) /\ k = Len(w)
    BY <1>5, <1>6
  <2>1. at + k <= n
    BY <1>6
  <2>2. at \in 0 .. n /\ at # n
    BY <2>1
  <2> QED
    BY <2>2
<1>8. ~Stops(data, at) /\ ReadField(data, at).value = g /\ ReadField(data, at).pos = at + Len(w)
  BY <1>4, <1>7 DEF Stops
<1>9. FieldsFrom(data)[at] = <<g>> \o FieldsFrom(data)[at + Len(w)]
  BY <1>6, <1>7, <1>8, FieldsFromIs
<1>10. Len(Written(Append(a, g))) = at + Len(w)
  <2>1. \A s, t \in Seq(Byte) : Len(s \o t) = Len(s) + Len(t)
    OBVIOUS
  <2> QED
    BY <1>1, <1>2, <2>1
<1> QED
  BY <1>9, <1>10

(* As far as a, gs is read as it was written. *)
ReadThrough(gs, a) ==
    \A c \in Seq(Readable) :
        gs = a \o c => a \o FieldsFrom(Written(gs))[Len(Written(a))] = FieldsFrom(Written(gs))[0]

(* parse_extra reads back what write_extra's loop wrote, for any fields that
   carry no padding, whatever their number, tags and lengths. *)
THEOREM WrittenParsed == \A gs \in Seq(Readable) : Parsed(Written(gs)) = gs
<1> TAKE gs \in Seq(Readable)
<1> PICK data : data = Written(gs)
  OBVIOUS
<1>0. /\ data \in Seq(Byte) /\ Len(data) \in Nat
      /\ \A at \in 0 .. Len(data) : FieldsFrom(data)[at] \in Seq(ReadableOrPadding)
  <2>1. data \in Seq(Byte)
    BY WrittenType
  <2> QED
    BY <2>1, FieldsFromType
<1> DEFINE Good == {a \in Seq(Readable) : ReadThrough(gs, a)}
<1>1. <<>> \in Good
  <2>1. Written(<<>>) = <<>> /\ Len(<<>>) = 0
    BY WrittenNone
  <2>2. FieldsFrom(data)[0] \in Seq(ReadableOrPadding)
    BY <1>0
  <2>3. <<>> \o FieldsFrom(data)[0] = FieldsFrom(data)[0]
    BY <2>2, ConcatEmptySeq
  <2>4. <<>> \o FieldsFrom(data)[Len(Written(<<>>))] = FieldsFrom(data)[0]
    BY <2>1, <2>3
  <2>5. ReadThrough(gs, <<>>)
    BY <2>4 DEF ReadThrough
  <2>6. <<>> \in Seq(Readable)
    OBVIOUS
  <2> QED
    BY <2>5, <2>6
<1>2. ASSUME NEW a \in Seq(Readable), NEW g \in Readable, a \in Good PROVE Append(a, g) \in Good
  <2> PICK b : b = Append(a, g)
    OBVIOUS
  <2>1. b \in Seq(Readable)
    BY AppendIs
  <2> SUFFICES ASSUME NEW c \in Seq(Readable), gs = b \o c
               PROVE  b \o FieldsFrom(data)[Len(Written(b))] = FieldsFrom(data)[0]
    BY <2>1 DEF ReadThrough
  <2>2. gs = a \o (<<g>> \o c) /\ <<g>> \o c \in Seq(Readable)
    <3>1. <<g>> \in Seq(Readable)
      OBVIOUS
    <3> QED
      BY <3>1, AppendRegrouped, ConcatProperties
  <2>3. a \o FieldsFrom(data)[Len(Written(a))] = FieldsFrom(data)[0]
    <3>1. ReadThrough(gs, a)
      BY <1>2
    <3> QED
      BY <2>2, <3>1 DEF ReadThrough
  <2> PICK rest : rest = FieldsFrom(data)[Len(Written(b))]
    OBVIOUS
  <2>4. FieldsFrom(data)[Len(Written(a))] = <<g>> \o rest
    <3>1. IsThere(data, a, g, c)
      BY DEF IsThere
    <3> QED
      BY <3>1, StepRead
  <2>5. rest \in Seq(ReadableOrPadding)
    <3>1. data = Written(b) \o Written(c) /\ Written(b) \in Seq(Byte) /\ Written(c) \in Seq(Byte)
      BY <2>1, WrittenType, WrittenConcat
    <3>2. \A s, t \in Seq(Byte) : Len(s) \in 0 .. Len(s \o t)
      OBVIOUS
    <3>3. Len(Written(b)) \in 0 .. Len(data)
      BY <3>1, <3>2
    <3> QED
      BY <1>0, <3>3
  <2>6. a \o (<<g>> \o rest) = b \o rest
    <3>1. a \in Seq(ReadableOrPadding) /\ g \in ReadableOrPadding
      <4>1. Readable \subseteq ReadableOrPadding
        BY DEF ReadableOrPadding
      <4> QED
        BY <4>1, SeqMonotonic
    <3>2. \A t \in Seq(ReadableOrPadding) : a \o (<<g>> \o t) = Append(a, g) \o t
      BY <3>1, AppendRegrouped
    <3> QED
      BY <2>5, <3>1, <3>2
  <2> QED
    BY <2>3, <2>4, <2>6
<1>3. \A a \in Seq(Readable) : a \in Good
  <2> HIDE DEF Good
  <2> QED
    BY <1>1, <1>2, SequencesAll
<1>4. gs \o FieldsFrom(data)[Len(data)] = FieldsFrom(data)[0]
  <2>1. ReadThrough(gs, gs) /\ <<>> \in Seq(Readable) /\ gs \o <<>> = gs
    BY <1>3, ConcatEmptySeq
  <2> QED
    BY <2>1 DEF ReadThrough
<1>5. FieldsFrom(data)[Len(data)] = <<>>
  <2>1. Stops(data, Len(data)) /\ Len(data) \in 0 .. Len(data)
    BY <1>0 DEF Stops
  <2> QED
    BY <1>0, <2>1, FieldsFromIs
<1> QED
  BY <1>4, <1>5, ParsedUnfolded, ConcatEmptySeq

-----------------------------------------------------------------------------
(* The signer's fields *)

KeySet == {key \in Seq(Byte) : Len(key) = KeyLen}

LEMMA KeysJoined ==
    \A keys \in Seq(KeySet) : FlattenSeq(keys) \in Seq(Byte) /\ Len(FlattenSeq(keys)) = Len(keys) * KeyLen
<1> DEFINE Good == {keys \in Seq(KeySet) :
               FlattenSeq(keys) \in Seq(Byte) /\ Len(FlattenSeq(keys)) = Len(keys) * KeyLen}
<1>0. KeyLen \in Nat
  BY LengthAssumption
<1>1. <<>> \in Good
  <2>1. FlattenSeq(<<>>) = <<>> /\ <<>> \in Seq(Byte) /\ Len(<<>>) = 0 /\ <<>> \in Seq(KeySet)
    BY FlattenNone
  <2>2. 0 * KeyLen = 0
    BY <1>0
  <2> QED
    BY <2>1, <2>2
<1>2. ASSUME NEW keys \in Seq(KeySet), NEW key \in KeySet, keys \in Good
      PROVE  Append(keys, key) \in Good
  <2>1. keys \in Seq(Seq(Byte)) /\ key \in Seq(Byte) /\ Len(key) = KeyLen
    <3>1. KeySet \subseteq Seq(Byte)
      BY DEF KeySet
    <3> QED
      BY <3>1, SeqMonotonic DEF KeySet
  <2> PICK s : s = FlattenSeq(keys)
    OBVIOUS
  <2>2. s \in Seq(Byte) /\ Len(s) = Len(keys) * KeyLen
    BY <1>2
  <2>3. FlattenSeq(Append(keys, key)) = s \o key
    BY <2>1, FlattenMore
  <2>4. s \o key \in Seq(Byte) /\ Len(s \o key) = Len(s) + Len(key)
    BY <2>1, <2>2, ConcatProperties
  <2>5. Append(keys, key) \in Seq(KeySet) /\ Len(Append(keys, key)) = Len(keys) + 1
    BY AppendIs
  <2>6. Len(keys) * KeyLen + KeyLen = (Len(keys) + 1) * KeyLen
    <3> PICK m \in Nat, k \in Nat : m = Len(keys) /\ k = KeyLen
      BY <1>0
    <3>1. m * k + k = (m + 1) * k
      OBVIOUS
    <3> QED
      BY <3>1
  <2> QED
    BY <2>1, <2>2, <2>3, <2>4, <2>5, <2>6
<1>3. \A keys \in Seq(KeySet) : keys \in Good
  <2> HIDE DEF Good
  <2> QED
    BY <1>1, <1>2, SequencesAll
<1> QED
  BY <1>3

TheKey == [tag |-> Key, body |-> TxKey]

TheAdditional(keys) == [tag |-> Additional, body |-> FlattenSeq(keys)]

LEMMA KeysReadableFields ==
    /\ TheKey \in Readable
    /\ \A keys \in AdditionalKeys : TheAdditional(keys) \in Readable
<1>1. TheKey \in Readable
  BY BytesAssumption, Tags DEF TheKey, Readable, ExtraFields
<1>2. ASSUME NEW keys \in AdditionalKeys PROVE TheAdditional(keys) \in Readable
  <2>1. keys \in Seq(KeySet)
    <3>1. keys \in Seq(Range(keys)) /\ \A key \in Range(keys) : key \in Seq(Byte) /\ Len(key) = KeyLen
      BY BytesAssumption
    <3>2. Range(keys) \subseteq KeySet
      BY <3>1 DEF KeySet
    <3> QED
      BY <3>1, <3>2, SeqMonotonic
  <2>2. Len(keys) \in 0 .. WordSize - 1
    <3>1. Len(keys) < WordSize /\ Len(keys) \in Nat /\ WordSize \in Nat
      BY <2>1, BytesAssumption, Widths
    <3> QED
      BY <3>1
  <2>3. FlattenSeq(keys) \in Seq(Byte) /\ Whole(Len(FlattenSeq(keys)), KeyLen)
    BY <2>1, <2>2, KeysJoined DEF Whole
  <2> QED
    BY <2>3, Tags DEF TheAdditional, Readable, ExtraFields
<1> QED
  BY <1>1, <1>2

LEMMA KeyFieldsAre ==
    ASSUME additional \in AdditionalKeys
    PROVE  /\ KeyFields \in Seq(Readable)
           /\ Tagged(KeyFields, Key) = <<TheKey>>
           /\ \A tag \in {Padding, Nonce, MergeMining, MinerGate} : Tagged(KeyFields, tag) = <<>>
<1> PICK S : S = {f \in Readable : f.tag = Additional}
  OBVIOUS
<1>1. PICK a \in Seq(S) : KeyFields = <<TheKey>> \o a
  <2>1. KeyFields = <<TheKey>> \o
          IF additional = <<>> THEN <<>> ELSE <<TheAdditional(additional)>>
    BY DEF KeyFields, TheKey, TheAdditional
  <2>2. TheAdditional(additional) \in S
    BY KeysReadableFields DEF TheAdditional
  <2>3. <<>> \in Seq(S) /\ <<TheAdditional(additional)>> \in Seq(S)
    BY <2>2
  <2> QED
    BY <2>1, <2>3
<1>2. TheKey \in Readable /\ TheKey.tag = Key
  BY KeysReadableFields DEF TheKey
<1>4. <<TheKey>> \in Seq(Readable) /\ a \in Seq(Readable)
  <2>1. S \subseteq Readable
    OBVIOUS
  <2>2. <<TheKey>> \in Seq(Readable)
    BY <1>2
  <2> QED
    BY <2>1, <2>2, SeqMonotonic
<1>5. \A tags : OfTags(KeyFields, tags) = Only(TheKey, tags) \o OfTags(a, tags)
  <2> TAKE tags
  <2>1. OfTags(<<TheKey>> \o a, tags) = OfTags(<<TheKey>>, tags) \o OfTags(a, tags)
    BY <1>4, OfTagsOfBoth
  <2>2. OfTags(<<TheKey>>, tags) = Only(TheKey, tags)
    BY OfTagsOne
  <2> QED
    BY <1>1, <2>1, <2>2
<1>6. \A tag : tag # Additional => Tagged(a, tag) = <<>>
  <2> SUFFICES ASSUME NEW tag, tag # Additional PROVE OfTags(a, {tag}) = <<>>
    BY DEF Tagged
  <2>1. \A f \in S : f.tag \notin {tag}
    OBVIOUS
  <2> QED
    BY <2>1, OfTagsNothing
<1>7. \A tag : tag # Additional => Tagged(KeyFields, tag) = Only(TheKey, {tag})
  <2> SUFFICES ASSUME NEW tag, tag # Additional PROVE Tagged(KeyFields, tag) = Only(TheKey, {tag})
    OBVIOUS
  <2>1. OfTags(KeyFields, {tag}) = Only(TheKey, {tag}) \o OfTags(a, {tag})
    BY <1>5
  <2>2. OfTags(a, {tag}) = <<>>
    BY <1>6 DEF Tagged
  <2>3. Only(TheKey, {tag}) \in Seq(Readable)
    BY <1>2, OnlyIn
  <2>4. Only(TheKey, {tag}) \o <<>> = Only(TheKey, {tag})
    BY <2>3, ConcatEmptySeq
  <2> QED
    BY <2>1, <2>2, <2>4 DEF Tagged
<1>8. Tagged(KeyFields, Key) = <<TheKey>>
  BY <1>2, <1>7, Tags DEF Only
<1>9. \A tag \in {Padding, Nonce, MergeMining, MinerGate} : Tagged(KeyFields, tag) = <<>>
  BY <1>2, <1>7, Tags DEF Only
<1>10. KeyFields \in Seq(Readable)
  BY <1>1, <1>4, ConcatProperties
<1> QED
  BY <1>8, <1>9, <1>10

LEMMA ConcatIs ==
    \A S : \A u, w \in Seq(S) :
        /\ u \o w \in Seq(S) /\ Len(u \o w) = Len(u) + Len(w)
        /\ \A j \in 1 .. Len(u) : (u \o w)[j] = u[j]
        /\ \A j \in 1 .. Len(w) : (u \o w)[Len(u) + j] = w[j]
OBVIOUS

Replaced(s, i, x) == [s EXCEPT ![i] = x]

Joined(a, x, c) == a \o (<<x>> \o c)

Consists(t, a, x, c) ==
    /\ Len(t) = Len(a) + (1 + Len(c))
    /\ \A j \in 1 .. Len(a) : t[j] = a[j]
    /\ t[Len(a) + 1] = x
    /\ \A j \in 1 .. Len(c) : t[(Len(a) + 1) + j] = c[j]

LEMMA JoinedIs ==
    ASSUME NEW S, NEW a \in Seq(S), NEW x \in S, NEW c \in Seq(S)
    PROVE  Joined(a, x, c) \in Seq(S) /\ Consists(Joined(a, x, c), a, x, c)
<1>1. Len(a) \in Nat /\ Len(c) \in Nat
  OBVIOUS
<1>2. PICK d \in Seq(S) :
        /\ Joined(a, x, c) = a \o d
        /\ Len(d) = 1 + Len(c) /\ d[1] = x /\ \A j \in 1 .. Len(c) : d[1 + j] = c[j]
  <2>1. <<x>> \in Seq(S) /\ Len(<<x>>) = 1 /\ <<x>>[1] = x
    OBVIOUS
  <2>2. /\ <<x>> \o c \in Seq(S) /\ Len(<<x>> \o c) = 1 + Len(c)
        /\ (<<x>> \o c)[1] = x /\ \A j \in 1 .. Len(c) : (<<x>> \o c)[1 + j] = c[j]
    OBVIOUS
  <2> QED
    BY <2>2 DEF Joined
<1> PICK t : t = Joined(a, x, c)
  OBVIOUS
<1>3. /\ t \in Seq(S) /\ Len(t) = Len(a) + (1 + Len(c))
      /\ \A j \in 1 .. Len(a) : t[j] = a[j]
      /\ \A j \in 1 .. 1 + Len(c) : t[Len(a) + j] = d[j]
  <2>1. /\ a \o d \in Seq(S) /\ Len(a \o d) = Len(a) + Len(d)
        /\ \A j \in 1 .. Len(a) : (a \o d)[j] = a[j]
        /\ \A j \in 1 .. Len(d) : (a \o d)[Len(a) + j] = d[j]
    OBVIOUS
  <2> QED
    BY <1>2, <2>1
<1>4. t[Len(a) + 1] = x
  BY <1>1, <1>2, <1>3
<1>5. \A j \in 1 .. Len(c) : t[(Len(a) + 1) + j] = c[j]
  <2> TAKE j \in 1 .. Len(c)
  <2>1. 1 + j \in 1 .. 1 + Len(c) /\ Len(a) + (1 + j) = (Len(a) + 1) + j
    BY <1>1
  <2>2. t[Len(a) + (1 + j)] = d[1 + j] /\ d[1 + j] = c[j]
    BY <1>2, <1>3, <2>1
  <2> QED
    BY <2>1, <2>2
<1> QED
  BY <1>3, <1>4, <1>5 DEF Consists

LEMMA Around ==
    ASSUME NEW S, NEW s \in Seq(S), NEW i \in 1 .. Len(s), NEW x \in S
    PROVE  /\ SubSeq(s, 1, i - 1) \in Seq(S) /\ SubSeq(s, i + 1, Len(s)) \in Seq(S)
           /\ \A j \in 1 .. Len(SubSeq(s, 1, i - 1)) :
                 j \in 1 .. i - 1 /\ SubSeq(s, 1, i - 1)[j] = s[j]
           /\ Replaced(s, i, x) = Joined(SubSeq(s, 1, i - 1), x, SubSeq(s, i + 1, Len(s)))
<1> PICK n \in Nat : n = Len(s)
  OBVIOUS
<1> PICK a, c : a = SubSeq(s, 1, i - 1) /\ c = SubSeq(s, i + 1, n)
  OBVIOUS
<1>1. \A j \in 1 .. n : s[j] \in S
  OBVIOUS
<1>2. /\ a \in Seq(S) /\ Len(a) = i - 1
      /\ \A j \in 1 .. i - 1 : a[j] = s[j]
  <2>1. \A j \in 1 .. i - 1 : s[j] \in S
    BY <1>1
  <2> QED
    BY <2>1
<1>3. /\ c \in Seq(S) /\ Len(c) = n - i
      /\ \A j \in 1 .. n - i : c[j] = s[i + j]
  <2>1. \A j \in i + 1 .. n : s[j] \in S
    BY <1>1
  <2>2. c \in Seq(S) /\ Len(c) = n - i
    BY <2>1
  <2>3. \A j \in 1 .. n - i : c[j] = s[i + j]
    <3> TAKE j \in 1 .. n - i
    <3>1. c[j] = s[(i + 1) + j - 1]
      BY <2>1
    <3>2. (i + 1) + j - 1 = i + j
      OBVIOUS
    <3> QED
      BY <3>1, <3>2
  <2> QED
    BY <2>2, <2>3
<1> PICK r : r = Replaced(s, i, x)
  OBVIOUS
<1>4. /\ r \in Seq(S) /\ Len(r) = n /\ r[i] = x
      /\ \A j \in 1 .. n : j # i => r[j] = s[j]
  BY ExceptSeq DEF Replaced
<1> PICK t : t = Joined(a, x, c)
  OBVIOUS
<1>5. /\ t \in Seq(S) /\ Len(t) = n
      /\ \A j \in 1 .. i - 1 : t[j] = a[j]
      /\ t[i] = x
      /\ \A j \in 1 .. n - i : t[i + j] = c[j]
  <2>1. /\ t \in Seq(S) /\ Len(t) = (i - 1) + (1 + (n - i))
        /\ \A j \in 1 .. i - 1 : t[j] = a[j]
        /\ t[(i - 1) + 1] = x
        /\ \A j \in 1 .. n - i : t[((i - 1) + 1) + j] = c[j]
    <3>1. t \in Seq(S) /\ Consists(t, a, x, c)
      BY <1>2, <1>3, JoinedIs
    <3>2. Len(a) = i - 1 /\ Len(c) = n - i
      BY <1>2, <1>3
    <3> QED
      BY <3>1, <3>2 DEF Consists
  <2>2. (i - 1) + (1 + (n - i)) = n /\ (i - 1) + 1 = i
    OBVIOUS
  <2> QED
    BY <2>1, <2>2
<1>6. \A j \in 1 .. n : r[j] = t[j]
  <2> TAKE j \in 1 .. n
  <2>1. CASE j < i
    <3>1. j \in 1 .. i - 1 /\ j # i
      BY <2>1
    <3>2. r[j] = s[j]
      BY <1>4, <3>1
    <3>3. t[j] = a[j] /\ a[j] = s[j]
      BY <1>2, <1>5, <3>1
    <3> QED
      BY <3>2, <3>3
  <2>2. CASE j = i
    BY <1>4, <1>5, <2>2
  <2>3. CASE j > i
    <3>1. j - i \in 1 .. n - i /\ i + (j - i) = j /\ j # i
      BY <2>3
    <3>2. r[j] = s[j]
      BY <1>4, <3>1
    <3>3. t[i + (j - i)] = c[j - i] /\ c[j - i] = s[i + (j - i)]
      BY <1>3, <1>5, <3>1
    <3> QED
      BY <3>1, <3>2, <3>3
  <2> QED
    BY <2>1, <2>2, <2>3
<1>7. r = t
  BY <1>4, <1>5, <1>6, SeqEqual
<1> QED
  BY <1>2, <1>3, <1>7

LEMMA OfTagsJoined ==
    ASSUME NEW S, NEW a \in Seq(S), NEW x \in S, NEW c \in Seq(S), NEW tags
    PROVE  OfTags(Joined(a, x, c), tags) =
               OfTags(a, tags) \o (Only(x, tags) \o OfTags(c, tags))
<1> PICK d : d = <<x>> \o c
  OBVIOUS
<1>1. <<x>> \in Seq(S) /\ d \in Seq(S)
  BY ConcatIs
<1>2. OfTags(a \o d, tags) = OfTags(a, tags) \o OfTags(d, tags)
  BY <1>1, OfTagsOfBoth
<1>3. OfTags(d, tags) = OfTags(<<x>>, tags) \o OfTags(c, tags)
  BY <1>1, OfTagsOfBoth
<1>4. OfTags(<<x>>, tags) = Only(x, tags)
  BY OfTagsOne
<1> QED
  BY <1>2, <1>3, <1>4 DEF Joined

LEMMA OtherTags ==
    ASSUME NEW S, NEW a \in Seq(S), NEW x \in S, NEW c \in Seq(S), NEW tags, x.tag \notin tags
    PROVE  OfTags(Joined(a, x, c), tags) = OfTags(a, tags) \o (<<>> \o OfTags(c, tags))
<1>1. OfTags(Joined(a, x, c), tags) = OfTags(a, tags) \o (Only(x, tags) \o OfTags(c, tags))
  BY OfTagsJoined
<1>2. Only(x, tags) = <<>>
  BY DEF Only
<1> QED
  BY <1>1, <1>2

LEMMA FirstTag ==
    ASSUME NEW S, NEW a \in Seq(S), NEW x \in S, NEW c \in Seq(S), NEW tags, x.tag \in tags
    PROVE  OfTags(a, tags) = <<>> => OfTags(Joined(a, x, c), tags) = <<x>> \o OfTags(c, tags)
<1>1. OfTags(Joined(a, x, c), tags) = OfTags(a, tags) \o (Only(x, tags) \o OfTags(c, tags))
  BY OfTagsJoined
<1>2. Only(x, tags) = <<x>>
  BY DEF Only
<1>3. OfTags(c, tags) \in Seq(S)
  BY OfTagsIn
<1>4. <<x>> \o OfTags(c, tags) \in Seq(S)
  BY <1>3
<1>5. \A fs \in Seq(S) : <<>> \o fs = fs
  BY ConcatEmptySeq
<1> QED
  BY <1>1, <1>2, <1>4, <1>5

(* The first field of its tag is there with what follows it. *)
IsFirst(fs, i) ==
    /\ i \in 1 .. Len(fs)
    /\ \A j \in 1 .. Len(fs) : fs[j].tag = fs[i].tag => i <= j

(* fs is a, then any element in the place i, then c. *)
IsCut(S, fs, i, a, c) == \A x \in S : Replaced(fs, i, x) = Joined(a, x, c)

LEMMA Cut ==
    ASSUME NEW S, NEW fs \in Seq(S), NEW i \in 1 .. Len(fs)
    PROVE  \E a \in Seq(S), c \in Seq(S) :
              /\ IsCut(S, fs, i, a, c)
              /\ \A j \in 1 .. Len(a) : j \in 1 .. i - 1 /\ a[j] = fs[j]
<1>1. /\ SubSeq(fs, 1, i - 1) \in Seq(S) /\ SubSeq(fs, i + 1, Len(fs)) \in Seq(S)
      /\ \A j \in 1 .. Len(SubSeq(fs, 1, i - 1)) :
            j \in 1 .. i - 1 /\ SubSeq(fs, 1, i - 1)[j] = fs[j]
      /\ \A x \in S :
            Replaced(fs, i, x) = Joined(SubSeq(fs, 1, i - 1), x, SubSeq(fs, i + 1, Len(fs)))
  BY Around
<1> QED
  BY <1>1 DEF IsCut

LEMMA ReplacedByItself ==
    ASSUME NEW S, NEW fs \in Seq(S), NEW i \in 1 .. Len(fs)
    PROVE  Replaced(fs, i, fs[i]) = fs
<1>1. \A j \in DOMAIN fs : [fs EXCEPT ![i] = fs[i]][j] = fs[j]
  OBVIOUS
<1>2. fs = [j \in DOMAIN fs |-> fs[j]]
  OBVIOUS
<1> QED
  BY <1>1, <1>2 DEF Replaced

(* None of the fields before the first of its tag has it. *)
LEMMA NoneBefore ==
    ASSUME NEW S, NEW fs \in Seq(S), NEW i, IsFirst(fs, i), NEW a \in Seq(S), NEW tag,
           tag = fs[i].tag,
           \A j \in 1 .. Len(a) : j \in 1 .. i - 1 /\ a[j] = fs[j]
    PROVE  OfTags(a, {tag}) = <<>>
<1> PICK T : T = {h \in S : h.tag \notin {tag}}
  OBVIOUS
<1>1. \A j \in 1 .. Len(a) : a[j] \in T
  <2> TAKE j \in 1 .. Len(a)
  <2>1. i \in 1 .. Len(fs)
    BY DEF IsFirst
  <2>2. j \in 1 .. i - 1 /\ a[j] = fs[j] /\ j \in 1 .. Len(fs)
    BY <2>1
  <2>3. ~(i <= j)
    BY <2>1, <2>2
  <2>4. fs[j].tag # fs[i].tag
    BY <2>2, <2>3 DEF IsFirst
  <2>5. fs[j] \in S
    BY <2>2
  <2> QED
    BY <2>2, <2>4, <2>5
<1>2. a \in Seq(T)
  BY <1>1
<1>3. \A h \in T : h.tag \notin {tag}
  OBVIOUS
<1> QED
  BY <1>2, <1>3, OfTagsNothing

(* The first of its tag is replaced by g: the rest is as it was. *)
FirstIs(S, fs, gs, f, g) ==
    /\ \E rest \in Seq(S) :
          Tagged(fs, f.tag) = <<f>> \o rest /\ Tagged(gs, f.tag) = <<g>> \o rest
    /\ \A tag : tag # f.tag => Tagged(gs, tag) = Tagged(fs, tag)

LEMMA JoinedFirst ==
    ASSUME NEW S, NEW a \in Seq(S), NEW c \in Seq(S), NEW f \in S, NEW g \in S, g.tag = f.tag,
           OfTags(a, {f.tag}) = <<>>
    PROVE  FirstIs(S, Joined(a, f, c), Joined(a, g, c), f, g)
<1>1. \A x \in S : \A tags :
        x.tag \in tags /\ OfTags(a, tags) = <<>> =>
            OfTags(Joined(a, x, c), tags) = <<x>> \o OfTags(c, tags)
  <2> SUFFICES ASSUME NEW x \in S, NEW tags, x.tag \in tags
               PROVE  OfTags(a, tags) = <<>> =>
                          OfTags(Joined(a, x, c), tags) = <<x>> \o OfTags(c, tags)
    OBVIOUS
  <2> QED
    BY FirstTag
<1>2. \A x \in S : \A tags :
        x.tag \notin tags =>
            OfTags(Joined(a, x, c), tags) = OfTags(a, tags) \o (<<>> \o OfTags(c, tags))
  BY OtherTags
<1>3. OfTags(Joined(a, f, c), {f.tag}) = <<f>> \o OfTags(c, {f.tag})
  BY <1>1
<1>4. OfTags(Joined(a, g, c), {f.tag}) = <<g>> \o OfTags(c, {f.tag})
  BY <1>1
<1>5. OfTags(c, {f.tag}) \in Seq(S)
  BY OfTagsIn
<1>6. ASSUME NEW tag, tag # f.tag
      PROVE  OfTags(Joined(a, g, c), {tag}) = OfTags(Joined(a, f, c), {tag})
  <2>1. f.tag \notin {tag} /\ g.tag \notin {tag}
    BY <1>6
  <2>2. OfTags(Joined(a, f, c), {tag}) = OfTags(a, {tag}) \o (<<>> \o OfTags(c, {tag}))
    BY <2>1, <1>2
  <2>3. OfTags(Joined(a, g, c), {tag}) = OfTags(a, {tag}) \o (<<>> \o OfTags(c, {tag}))
    BY <2>1, <1>2
  <2> QED
    BY <2>2, <2>3
<1> QED
  BY <1>3, <1>4, <1>5, <1>6 DEF FirstIs, Tagged

LEMMA FirstReplaced ==
    ASSUME NEW S, NEW fs \in Seq(S), NEW i, IsFirst(fs, i), NEW g \in S, g.tag = fs[i].tag
    PROVE  /\ Replaced(fs, i, g) \in Seq(S)
           /\ FirstIs(S, fs, Replaced(fs, i, g), fs[i], g)
<1>1. i \in 1 .. Len(fs) /\ fs[i] \in S
  BY DEF IsFirst
<1>2. PICK a \in Seq(S), c \in Seq(S) :
              /\ IsCut(S, fs, i, a, c)
              /\ \A j \in 1 .. Len(a) : j \in 1 .. i - 1 /\ a[j] = fs[j]
  BY <1>1, Cut
<1>3. Replaced(fs, i, fs[i]) = Joined(a, fs[i], c) /\ Replaced(fs, i, g) = Joined(a, g, c)
  BY <1>1, <1>2 DEF IsCut
<1>4. Replaced(fs, i, fs[i]) = fs
  BY <1>1, ReplacedByItself
<1>5. OfTags(a, {fs[i].tag}) = <<>>
  BY <1>2, NoneBefore
<1>6. FirstIs(S, Joined(a, fs[i], c), Joined(a, g, c), fs[i], g)
  BY <1>1, <1>5, JoinedFirst
<1>7. Joined(a, g, c) \in Seq(S)
  BY JoinedIs
<1> QED
  BY <1>3, <1>4, <1>6, <1>7

-----------------------------------------------------------------------------
(* What the steps do to the fields *)

Kept == Byte \ {Key, Additional}

NoKeys(fs) == Tagged(fs, Key) = <<>> /\ Tagged(fs, Additional) = <<>>

(* The nonces are the given ones, but for a short id in the first of them,
   and maybe one more. *)
NoncesKept(given, found) ==
    /\ DOMAIN given \subseteq DOMAIN found
    /\ \A i \in DOMAIN given : found[i] = given[i] \/ (i = 1 /\ IsShortId(given[1].body))

KeptFrom(given, fs) ==
    /\ \A tag \in {MergeMining, MinerGate} : Tagged(fs, tag) = Tagged(given, tag)
    /\ NoncesKept(Tagged(given, Nonce), Tagged(fs, Nonce))

SameButKeys(given, fs) ==
    /\ \A tag \in {Nonce, MergeMining, MinerGate} : Tagged(fs, tag) = Tagged(given, tag)
    /\ NoKeys(fs)

LEMMA ParsedType == \A data \in Seq(Byte) : Parsed(data) \in Seq(ReadableOrPadding)
<1> TAKE data \in Seq(Byte)
<1>1. 0 \in 0 .. Len(data)
  OBVIOUS
<1> QED
  BY <1>1, FieldsFromType, ParsedUnfolded

LEMMA KeptOnly ==
    ASSUME NEW S, NEW given \in Seq(S)
    PROVE  OfTags(given, Kept) \in Seq(S) /\ SameButKeys(given, OfTags(given, Kept))
<1>1. \A T, U : OfTags(OfTags(given, T), U) = OfTags(given, T \cap U)
  BY OfTagsTwice
<1>2. ASSUME NEW tag \in {Nonce, MergeMining, MinerGate}
      PROVE  Tagged(OfTags(given, Kept), tag) = Tagged(given, tag)
  <2>1. Kept \cap {tag} = {tag}
    BY Tags DEF Kept
  <2> QED
    BY <1>1, <2>1 DEF Tagged
<1>3. ASSUME NEW tag \in {Key, Additional}
      PROVE  Tagged(OfTags(given, Kept), tag) = <<>>
  <2>1. Kept \cap {tag} = {}
    BY DEF Kept
  <2>2. OfTags(given, {}) = <<>>
    <3>1. \A f \in S : f.tag \notin {}
      OBVIOUS
    <3> QED
      BY <3>1, OfTagsNothing
  <2> QED
    BY <1>1, <2>1, <2>2 DEF Tagged
<1>4. OfTags(given, Kept) \in Seq(S)
  BY OfTagsIn
<1> QED
  BY <1>2, <1>3, <1>4 DEF SameButKeys, NoKeys

LEMMA NoncesSame == \A given : NoncesKept(given, given)
BY DEF NoncesKept

LEMMA NothingReplaced ==
    ASSUME NEW given, NEW fs, SameButKeys(given, fs)
    PROVE  KeptFrom(given, fs) /\ NoKeys(fs)
BY NoncesSame DEF SameButKeys, KeptFrom

IsFollowed(u, x, rest) ==
    /\ Len(u) = 1 + Len(rest)
    /\ u[1] = x
    /\ \A j \in 1 .. Len(rest) : u[1 + j] = rest[j]

LEMMA FollowedIs ==
    ASSUME NEW S, NEW x \in S, NEW rest \in Seq(S)
    PROVE  <<x>> \o rest \in Seq(S) /\ IsFollowed(<<x>> \o rest, x, rest)
<1>1. ASSUME NEW v \in Seq(S), Len(v) = 1, v[1] = x
      PROVE  v \o rest \in Seq(S) /\ IsFollowed(v \o rest, x, rest)
  <2>1. /\ v \o rest \in Seq(S) /\ Len(v \o rest) = Len(v) + Len(rest)
        /\ \A j \in 1 .. Len(v) : (v \o rest)[j] = v[j]
        /\ \A j \in 1 .. Len(rest) : (v \o rest)[Len(v) + j] = rest[j]
    BY ConcatIs
  <2>2. 1 \in 1 .. Len(v)
    BY <1>1
  <2> QED
    BY <1>1, <2>1, <2>2 DEF IsFollowed
<1>2. <<x>> \in Seq(S) /\ Len(<<x>>) = 1 /\ <<x>>[1] = x
  OBVIOUS
<1> QED
  BY <1>1, <1>2

LEMMA NoncesAre ==
    ASSUME NEW S, NEW rest \in Seq(S), NEW f, NEW g, IsShortId(f.body),
           NEW u \in Seq(S), IsFollowed(u, f, rest), NEW w \in Seq(S), IsFollowed(w, g, rest)
    PROVE  NoncesKept(u, w)
<1>1. \A i \in 1 .. Len(u) : w[i] = u[i] \/ (i = 1 /\ IsShortId(u[1].body))
  <2> TAKE i \in 1 .. Len(u)
  <2>1. i = 1 \/ (i - 1 \in 1 .. Len(rest) /\ i = 1 + (i - 1))
    BY DEF IsFollowed
  <2> QED
    BY <2>1 DEF IsFollowed
<1>2. DOMAIN u = 1 .. Len(u) /\ DOMAIN w = 1 .. Len(u)
  BY DEF IsFollowed
<1> QED
  BY <1>1, <1>2 DEF NoncesKept

LEMMA NonceReplaced ==
    ASSUME NEW S, NEW f \in S, NEW g \in S, NEW rest \in Seq(S), IsShortId(f.body)
    PROVE  NoncesKept(<<f>> \o rest, <<g>> \o rest)
BY FollowedIs, NoncesAre

LEMMA IdReplaced ==
    ASSUME NEW S, NEW fs \in Seq(S), NEW given, SameButKeys(given, fs),
           NEW i, IsFirst(fs, i), fs[i].tag = Nonce, IsShortId(fs[i].body),
           NEW g \in S, g.tag = Nonce
    PROVE  /\ Replaced(fs, i, g) \in Seq(S)
           /\ KeptFrom(given, Replaced(fs, i, g)) /\ NoKeys(Replaced(fs, i, g))
<1>1. /\ Replaced(fs, i, g) \in Seq(S)
      /\ FirstIs(S, fs, Replaced(fs, i, g), fs[i], g)
  BY FirstReplaced
<1>2. \A tag : tag # Nonce => Tagged(Replaced(fs, i, g), tag) = Tagged(fs, tag)
  BY <1>1 DEF FirstIs
<1>3. PICK rest \in Seq(S) :
        /\ Tagged(fs, Nonce) = <<fs[i]>> \o rest
        /\ Tagged(Replaced(fs, i, g), Nonce) = <<g>> \o rest
  BY <1>1 DEF FirstIs
<1>4. fs[i] \in S
  BY DEF IsFirst
<1>5. NoncesKept(<<fs[i]>> \o rest, <<g>> \o rest)
  BY <1>4, NonceReplaced
<1> QED
  BY <1>1, <1>2, <1>3, <1>5, Tags DEF SameButKeys, KeptFrom, NoKeys

LEMMA NonceAdded ==
    ASSUME NEW S, NEW given \in Seq(S), NEW g \in S
    PROVE  NoncesKept(given, given \o <<g>>)
<1>1. given \o <<g>> = Append(given, g)
  OBVIOUS
<1>2. \A i \in DOMAIN given : Append(given, g)[i] = given[i] /\ i \in DOMAIN Append(given, g)
  OBVIOUS
<1> QED
  BY <1>1, <1>2 DEF NoncesKept

LEMMA DummyAdded ==
    ASSUME NEW S, NEW fs \in Seq(S), NEW given, SameButKeys(given, fs), NEW g \in S, g.tag = Nonce
    PROVE  /\ Append(fs, g) \in Seq(S)
           /\ KeptFrom(given, Append(fs, g)) /\ NoKeys(Append(fs, g))
<1>1. \A tags : OfTags(Append(fs, g), tags) = OfTags(fs, tags) \o Only(g, tags)
  BY OfTagsMore
<1>2. ASSUME NEW tag, tag # Nonce PROVE Tagged(Append(fs, g), tag) = Tagged(fs, tag)
  <2>1. Only(g, {tag}) = <<>>
    BY <1>2 DEF Only
  <2>2. OfTags(fs, {tag}) \in Seq(S)
    BY OfTagsIn
  <2>3. \A s \in Seq(S) : s \o <<>> = s
    BY ConcatEmptySeq
  <2> QED
    BY <1>1, <2>1, <2>2, <2>3 DEF Tagged
<1>3. Tagged(Append(fs, g), Nonce) = Tagged(fs, Nonce) \o <<g>>
  <2>1. Only(g, {Nonce}) = <<g>>
    BY DEF Only
  <2> QED
    BY <1>1, <2>1 DEF Tagged
<1>4. NoncesKept(Tagged(fs, Nonce), Tagged(fs, Nonce) \o <<g>>)
  <2>1. Tagged(fs, Nonce) \in Seq(S)
    BY OfTagsIn DEF Tagged
  <2> QED
    BY <2>1, NonceAdded
<1>5. Append(fs, g) \in Seq(S)
  OBVIOUS
<1> QED
  BY <1>2, <1>3, <1>4, <1>5, Tags DEF SameButKeys, KeptFrom, NoKeys

LEMMA KeysAdded ==
    ASSUME NEW fs \in Seq(ReadableOrPadding), NEW given, KeptFrom(given, fs), NoKeys(fs),
           additional \in AdditionalKeys
    PROVE  /\ fs \o KeyFields \in Seq(ReadableOrPadding)
           /\ KeptFrom(given, fs \o KeyFields)
           /\ \A tag \in {Key, Additional} :
                 Tagged(fs \o KeyFields, tag) = Tagged(KeyFields, tag)
<1>1. KeyFields \in Seq(ReadableOrPadding)
  <2>1. Readable \subseteq ReadableOrPadding
    BY DEF ReadableOrPadding
  <2> QED
    BY <2>1, KeyFieldsAre, SeqMonotonic
<1>2. \A tags : OfTags(fs \o KeyFields, tags) = OfTags(fs, tags) \o OfTags(KeyFields, tags)
  BY <1>1, OfTagsOfBoth
<1>3. \A tag : Tagged(fs \o KeyFields, tag) = Tagged(fs, tag) \o Tagged(KeyFields, tag)
  BY <1>2 DEF Tagged
<1>4. \A tag : Tagged(fs, tag) \in Seq(ReadableOrPadding)
  BY OfTagsIn DEF Tagged
<1>5. \A tag : Tagged(KeyFields, tag) \in Seq(ReadableOrPadding)
  BY <1>1, OfTagsIn DEF Tagged
<1>6. \A s \in Seq(ReadableOrPadding) : s \o <<>> = s /\ <<>> \o s = s
  BY ConcatEmptySeq
<1>7. \A tag \in {Nonce, MergeMining, MinerGate} : Tagged(fs \o KeyFields, tag) = Tagged(fs, tag)
  <2> TAKE tag \in {Nonce, MergeMining, MinerGate}
  <2>1. Tagged(KeyFields, tag) = <<>>
    BY KeyFieldsAre
  <2>2. Tagged(fs, tag) \o <<>> = Tagged(fs, tag)
    BY <1>4, <1>6
  <2> QED
    BY <1>3, <2>1, <2>2
<1>8. \A tag \in {Key, Additional} : Tagged(fs \o KeyFields, tag) = Tagged(KeyFields, tag)
  <2> TAKE tag \in {Key, Additional}
  <2>1. Tagged(fs, tag) = <<>>
    BY DEF NoKeys
  <2>2. <<>> \o Tagged(KeyFields, tag) = Tagged(KeyFields, tag)
    BY <1>5, <1>6
  <2> QED
    BY <1>3, <2>1, <2>2
<1>9. fs \o KeyFields \in Seq(ReadableOrPadding)
  BY <1>1, ConcatProperties
<1> QED
  BY <1>7, <1>8, <1>9 DEF KeptFrom

(* Without padding, all that is written is read back, sorted. *)
LEMMA ReadBack ==
    ASSUME NEW fs \in Seq(ReadableOrPadding), Tagged(fs, Padding) = <<>>
    PROVE  /\ \A tag \in Byte : Tagged(Parsed(WriteExtra(fs)), tag) = Tagged(fs, tag)
           /\ WriteExtra(Parsed(WriteExtra(fs))) = WriteExtra(fs)
<1>1. fs \in Seq({f \in ReadableOrPadding : f.tag \notin {Padding}})
  BY OfTagsEmpty DEF Tagged
<1>2. {f \in ReadableOrPadding : f.tag \notin {Padding}} \subseteq Readable
  BY DEF ReadableOrPadding
<1>3. fs \in Seq(Readable)
  BY <1>1, <1>2, SeqMonotonic
<1>4. Sorted(fs) \in Seq(Readable)
  BY <1>3, SortedIn
<1>5. Parsed(WriteExtra(fs)) = Sorted(fs)
  BY <1>4, WriteExtraIs, WrittenParsed
<1>6. \A tag \in Byte : Tagged(Sorted(fs), tag) = Tagged(fs, tag)
  BY <1>3, SortedTagged
<1>7. WriteExtra(Sorted(fs)) = WriteExtra(fs)
  <2>1. Sorted(Sorted(fs)) = Sorted(fs)
    BY <1>3, SortedTwice
  <2> QED
    BY <2>1, WriteExtraIs
<1> QED
  BY <1>5, <1>6, <1>7

-----------------------------------------------------------------------------
(* The payment id *)

LEMMA FirstNonceIs ==
    ASSUME NEW S, fields \in Seq(S), Nonces # {}
    PROVE  IsFirst(fields, FirstNonce) /\ fields[FirstNonce].tag = Nonce
<1>1. Nonces \subseteq Nat
  BY DEF Nonces
<1>2. \E i \in Nonces : \A j \in Nonces : i <= j
  BY <1>1, LeastExists
<1>3. FirstNonce \in Nonces /\ \A j \in Nonces : FirstNonce <= j
  BY <1>2 DEF FirstNonce
<1>4. \A j : j \in Nonces <=> j \in 1 .. Len(fields) /\ fields[j].tag = Nonce
  BY DEF Nonces
<1> QED
  BY <1>3, <1>4 DEF IsFirst

(* The byte that says it is a short id, then the id. *)
NonceOf(id) == [tag |-> Nonce, body |-> <<1>> \o id]

LEMMA BodyReplaced ==
    \A f \in ExtraFields : \A body :
        f.tag = Nonce => [f EXCEPT !.body = body] = [tag |-> Nonce, body |-> body]
BY DEF ExtraFields

LEMMA NonceReadable ==
    ASSUME NEW id \in Seq(Byte), Len(id) = IdLen
    PROVE  NonceOf(id) \in Readable /\ NonceOf(id).tag = Nonce
<1>1. 1 \in Byte
  BY Tags DEF Key
<1>2. <<1>> \in Seq(Byte) /\ Len(<<1>>) = 1
  BY <1>1
<1>3. <<1>> \o id \in Seq(Byte) /\ Len(<<1>> \o id) = 1 + IdLen
  <2>1. \A v \in Seq(Byte) : v \o id \in Seq(Byte) /\ Len(v \o id) = Len(v) + Len(id)
    BY ConcatIs
  <2> QED
    BY <1>2, <2>1
<1>4. 1 + IdLen < WordSize
  BY LengthAssumption
<1> QED
  BY <1>3, <1>4, Tags DEF NonceOf, Readable, ExtraFields

LEMMA BlindedIs ==
    ASSUME NEW body \in Seq(Byte), IsShortId(body)
    PROVE  Blinded(Tail(body)) \in Seq(Byte) /\ Len(Blinded(Tail(body))) = IdLen
<1>1. Len(body) = 1 + IdLen /\ IdLen \in Nat
  BY LengthAssumption DEF IsShortId
<1>2. PICK id \in Seq(Byte) : id = Tail(body) /\ Len(id) = IdLen
  <2>1. body # <<>>
    BY <1>1
  <2>2. Tail(body) \in Seq(Byte) /\ Len(Tail(body)) = Len(body) - 1
    BY <2>1, HeadTailProperties
  <2>3. Len(Tail(body)) = IdLen
    BY <1>1, <2>2
  <2> QED
    BY <2>2, <2>3
<1>3. \A i \in 1 .. IdLen : XorBytes(id[i], IdPad[i]) \in Byte
  <2> TAKE i \in 1 .. IdLen
  <2>1. id[i] \in Byte
    BY <1>2
  <2>2. IdPad[i] \in Byte
    BY BytesAssumption
  <2> QED
    BY <2>1, <2>2, BytesAssumption
<1>4. Blinded(id) \in [1 .. IdLen -> Byte]
  BY <1>3 DEF Blinded
<1>5. \A s : s \in [1 .. IdLen -> Byte] => s \in Seq(Byte) /\ Len(s) = IdLen
  BY <1>1
<1> QED
  BY <1>2, <1>4, <1>5

-----------------------------------------------------------------------------
(* The inductive invariant *)

ExtraTypeOK ==
    /\ pc \in {"parse", "nonce", "write", "done", "refused"}
    /\ extra \in Extras
    /\ pos \in 0 .. Len(extra)
    /\ fields \in Seq(ReadableOrPadding)
    /\ additional \in AdditionalKeys

(* What is parsed and what is left to parse is what the reader of the whole
   extra finds. *)
ParsedSoFar ==
    pc = "parse" => fields \o FieldsFrom(extra)[pos] = Parsed(extra)

KeysDropped ==
    pc = "nonce" => SameButKeys(Parsed(extra), fields)

NonceDone ==
    pc = "write" => KeptFrom(Parsed(extra), fields) /\ NoKeys(fields)

KeysThere ==
    pc = "done" =>
        /\ KeptFrom(Parsed(extra), fields)
        /\ \A tag \in {Key, Additional} : Tagged(fields, tag) = Tagged(KeyFields, tag)
        /\ out = WriteExtra(fields)

ExtraInv == ExtraTypeOK /\ ParsedSoFar /\ KeysDropped /\ NonceDone /\ KeysThere

LEMMA ExtraInvInit == Init => ExtraInv
<1> SUFFICES ASSUME Init PROVE ExtraInv
  OBVIOUS
<1>1. extra \in Seq(Byte)
  BY BytesAssumption DEF Init
<1>2. ExtraTypeOK
  BY <1>1 DEF Init, ExtraTypeOK
<1>3. ParsedSoFar
  <2>1. <<>> \o Parsed(extra) = Parsed(extra)
    BY <1>1, ParsedType, ConcatEmptySeq
  <2> QED
    BY <2>1, ParsedUnfolded DEF Init, ParsedSoFar
<1> QED
  BY <1>2, <1>3 DEF Init, ExtraInv, KeysDropped, NonceDone, KeysThere

LEMMA OneMore ==
    \A S : \A s, t \in Seq(S) : \A x \in S : s \o (<<x>> \o t) = Append(s, x) \o t
BY AppendRegrouped

LEMMA ParseFieldStep == ExtraInv /\ ParseField => ExtraInv'
<1> SUFFICES ASSUME ExtraInv, ParseField PROVE ExtraInv'
  OBVIOUS
<1>1. extra \in Seq(Byte) /\ pos \in 0 .. Len(extra) /\ fields \in Seq(ReadableOrPadding)
  BY BytesAssumption DEF ExtraInv, ExtraTypeOK
<1>2. ~Stops(extra, pos)
  BY DEF ParseField, Field, Stops
<1>3. Field.value \in ReadableOrPadding /\ Field.pos \in pos + 1 .. Len(extra)
  BY <1>1, <1>2, ReadOn DEF Field
<1>4. pos' \in 0 .. Len(extra) /\ fields' \in Seq(ReadableOrPadding)
  BY <1>1, <1>3 DEF ParseField
<1>5. fields' \o FieldsFrom(extra)[pos'] = Parsed(extra)
  <2>1. FieldsFrom(extra)[pos] = <<Field.value>> \o FieldsFrom(extra)[pos']
    BY <1>1, <1>2, FieldsFromIs DEF Field, ParseField
  <2>2. FieldsFrom(extra)[pos'] \in Seq(ReadableOrPadding)
    BY <1>1, <1>4, FieldsFromType
  <2>3. \A v \in ReadableOrPadding : \A t \in Seq(ReadableOrPadding) :
          fields \o (<<v>> \o t) = Append(fields, v) \o t
    BY <1>1, OneMore
  <2>4. fields \o FieldsFrom(extra)[pos] = Append(fields, Field.value) \o FieldsFrom(extra)[pos']
    BY <1>3, <2>1, <2>2, <2>3
  <2>5. fields \o FieldsFrom(extra)[pos] = Parsed(extra)
    BY DEF ExtraInv, ParsedSoFar, ParseField
  <2> QED
    BY <2>4, <2>5 DEF ParseField
<1>6. UNCHANGED <<pc, extra, additional>> /\ pc = "parse"
  BY DEF ParseField, request
<1>7. ExtraTypeOK'
  BY <1>4, <1>6 DEF ExtraInv, ExtraTypeOK
<1>8. ParsedSoFar'
  BY <1>5, <1>6 DEF ParsedSoFar
<1> QED
  BY <1>6, <1>7, <1>8 DEF ExtraInv, KeysDropped, NonceDone, KeysThere

(* A refusal changes nothing that the invariant is about. *)
LEMMA RefusalStep ==
    ExtraInv /\ Refuse /\ UNCHANGED <<pos, fields, request>> => ExtraInv'
<1> SUFFICES ASSUME ExtraInv, Refuse, UNCHANGED <<pos, fields, request>> PROVE ExtraInv'
  OBVIOUS
<1>1. pc' = "refused" /\ UNCHANGED <<extra, pos, fields, additional>>
  BY DEF Refuse, request
<1>2. ExtraTypeOK'
  BY <1>1 DEF ExtraInv, ExtraTypeOK
<1> QED
  BY <1>1, <1>2 DEF ExtraInv, ParsedSoFar, KeysDropped, NonceDone, KeysThere

LEMMA ParseDoneStep == ExtraInv /\ ParseDone => ExtraInv'
<1> SUFFICES ASSUME ExtraInv, ParseDone PROVE ExtraInv'
  OBVIOUS
<1>1. extra \in Seq(Byte) /\ pos \in 0 .. Len(extra) /\ fields \in Seq(ReadableOrPadding)
  BY BytesAssumption DEF ExtraInv, ExtraTypeOK
<1>2. fields = Parsed(extra)
  <2>1. Stops(extra, pos)
    BY DEF ParseDone, Stops
  <2>2. FieldsFrom(extra)[pos] = <<>>
    BY <1>1, <2>1, FieldsFromIs
  <2>3. fields \o <<>> = fields
    BY <1>1, ConcatEmptySeq
  <2> QED
    BY <2>2, <2>3 DEF ExtraInv, ParsedSoFar, ParseDone
<1>3. fields' = OfTags(fields, Kept)
  BY DEF ParseDone, Kept
<1>4. fields' \in Seq(ReadableOrPadding) /\ SameButKeys(Parsed(extra), fields')
  BY <1>1, <1>2, <1>3, KeptOnly
<1>5. pc' = "nonce" /\ UNCHANGED <<extra, pos, additional>>
  BY DEF ParseDone, request
<1>6. ExtraTypeOK'
  BY <1>4, <1>5 DEF ExtraInv, ExtraTypeOK
<1>7. KeysDropped'
  BY <1>4, <1>5 DEF KeysDropped
<1> QED
  BY <1>5, <1>6, <1>7 DEF ExtraInv, ParsedSoFar, NonceDone, KeysThere

(* Both of the ways on from "nonce" end in the same. *)
LEMMA NonceStep ==
    ASSUME ExtraInv, pc' = "write", UNCHANGED <<pos, out, request>>,
           fields' \in Seq(ReadableOrPadding), KeptFrom(Parsed(extra), fields'), NoKeys(fields')
    PROVE  ExtraInv'
<1>1. UNCHANGED <<extra, pos, additional>>
  BY DEF request
<1>2. ExtraTypeOK'
  BY <1>1 DEF ExtraInv, ExtraTypeOK
<1>3. NonceDone'
  BY <1>1 DEF NonceDone
<1> QED
  BY <1>2, <1>3 DEF ExtraInv, ParsedSoFar, KeysDropped, KeysThere

LEMMA EncryptIdStep == ExtraInv /\ EncryptId => ExtraInv'
<1> SUFFICES ASSUME ExtraInv, EncryptId PROVE ExtraInv'
  OBVIOUS
<1>1. fields \in Seq(ReadableOrPadding) /\ SameButKeys(Parsed(extra), fields)
  BY DEF ExtraInv, ExtraTypeOK, KeysDropped, EncryptId
<1>2. IsFirst(fields, FirstNonce) /\ fields[FirstNonce].tag = Nonce
  BY <1>1, FirstNonceIs DEF EncryptId, HasShortId
<1>3. IsShortId(fields[FirstNonce].body)
  BY DEF EncryptId, HasShortId
<1> PICK f : f = fields[FirstNonce]
  OBVIOUS
<1>4. f \in ExtraFields /\ f.tag = Nonce
  BY <1>1, <1>2 DEF IsFirst, ReadableOrPadding, Readable
<1>5. NonceOf(Blinded(Tail(f.body))) \in ReadableOrPadding
  <2>1. f.body \in Seq(Byte)
    BY <1>4 DEF ExtraFields
  <2> QED
    BY <1>3, <2>1, BlindedIs, NonceReadable DEF ReadableOrPadding
<1>6. fields' = Replaced(fields, FirstNonce, NonceOf(Blinded(Tail(f.body))))
  <2>1. [f EXCEPT !.body = <<1>> \o Blinded(Tail(@))] = NonceOf(Blinded(Tail(f.body)))
    BY <1>4, BodyReplaced DEF NonceOf
  <2> QED
    BY <2>1 DEF EncryptId, Replaced
<1>7. /\ fields' \in Seq(ReadableOrPadding)
      /\ KeptFrom(Parsed(extra), fields') /\ NoKeys(fields')
  <2>1. NonceOf(Blinded(Tail(f.body))).tag = Nonce
    BY DEF NonceOf
  <2> QED
    BY <1>1, <1>2, <1>3, <1>5, <1>6, <2>1, IdReplaced
<1> QED
  BY <1>7, NonceStep DEF EncryptId

LEMMA KeepNonceStep == ExtraInv /\ KeepNonce => ExtraInv'
<1> SUFFICES ASSUME ExtraInv, KeepNonce PROVE ExtraInv'
  OBVIOUS
<1>1. fields \in Seq(ReadableOrPadding) /\ SameButKeys(Parsed(extra), fields)
  BY DEF ExtraInv, ExtraTypeOK, KeysDropped, KeepNonce
<1>2. /\ fields' \in Seq(ReadableOrPadding)
      /\ KeptFrom(Parsed(extra), fields') /\ NoKeys(fields')
  <2>1. CASE AddDummy
    <3>1. fields' = Append(fields, NonceOf(IdPad))
      BY <2>1 DEF KeepNonce, NonceOf
    <3>2. NonceOf(IdPad) \in ReadableOrPadding /\ NonceOf(IdPad).tag = Nonce
      BY BytesAssumption, NonceReadable DEF ReadableOrPadding
    <3> QED
      BY <1>1, <3>1, <3>2, DummyAdded
  <2>2. CASE ~AddDummy
    BY <1>1, <2>2, NothingReplaced DEF KeepNonce
  <2> QED
    BY <2>1, <2>2
<1> QED
  BY <1>2, NonceStep DEF KeepNonce

LEMMA WriteStep == ExtraInv /\ Write => ExtraInv'
<1> SUFFICES ASSUME ExtraInv, Write PROVE ExtraInv'
  OBVIOUS
<1>1. fields \in Seq(ReadableOrPadding) /\ additional \in AdditionalKeys
  BY DEF ExtraInv, ExtraTypeOK
<1>2. KeptFrom(Parsed(extra), fields) /\ NoKeys(fields)
  BY DEF ExtraInv, NonceDone, Write
<1>3. /\ fields' \in Seq(ReadableOrPadding)
      /\ KeptFrom(Parsed(extra), fields')
      /\ \A tag \in {Key, Additional} : Tagged(fields', tag) = Tagged(KeyFields, tag)
  BY <1>1, <1>2, KeysAdded DEF Write
<1>4. pc' = "done" /\ out' = WriteExtra(fields') /\ UNCHANGED <<extra, pos, additional>>
  BY DEF Write, request
<1>5. ExtraTypeOK'
  BY <1>3, <1>4 DEF ExtraInv, ExtraTypeOK
<1>6. KeyFields' = KeyFields
  BY <1>4 DEF KeyFields
<1>7. KeysThere'
  BY <1>3, <1>4, <1>6 DEF KeysThere
<1> QED
  BY <1>4, <1>5, <1>7 DEF ExtraInv, ParsedSoFar, KeysDropped, NonceDone

LEMMA ExtraInvStep == ExtraInv /\ [Next]_vars => ExtraInv'
<1> SUFFICES ASSUME ExtraInv, [Next]_vars PROVE ExtraInv'
  OBVIOUS
<1>1. CASE ParseField
  BY <1>1, ParseFieldStep
<1>2. CASE ParseFails
  BY <1>2, RefusalStep DEF ParseFails
<1>3. CASE ParseDone
  BY <1>3, ParseDoneStep
<1>4. CASE EncryptId
  BY <1>4, EncryptIdStep
<1>5. CASE RefuseId
  BY <1>5, RefusalStep DEF RefuseId
<1>6. CASE KeepNonce
  BY <1>6, KeepNonceStep
<1>7. CASE Write
  BY <1>7, WriteStep
<1>8. CASE UNCHANGED vars
  BY <1>8 DEF vars, request, ExtraInv, ExtraTypeOK, ParsedSoFar, KeysDropped, NonceDone,
              KeysThere, KeyFields
<1> QED
  BY <1>1, <1>2, <1>3, <1>4, <1>5, <1>6, <1>7, <1>8 DEF Next

-----------------------------------------------------------------------------
(* Theorems *)

(* At every step of section 4 of construct_and_sign the fields are accounted for:
   while parsing, what was read and what is left is the hot wallet's extra; then its
   keys are gone and the rest is as it was, but for a payment id in the first nonce
   or a dummy one behind; in the end the signer's own keys are there too. *)
THEOREM FieldsAccounted == Spec => []ExtraInv
<1>1. Init => ExtraInv
  BY ExtraInvInit
<1>2. ExtraInv /\ [Next]_vars => ExtraInv'
  BY ExtraInvStep
<1> QED
  BY <1>1, <1>2, PTL DEF Spec

LEMMA InvGivesKeys == ExtraInv => KeysReadable
<1> SUFFICES ASSUME ExtraInv, pc = "done", Unpadded,
                    NEW found, found = Parsed(out)
             PROVE  /\ Tagged(found, Key) = <<TheKey>>
                    /\ Tagged(found, Additional) = Tagged(KeyFields, Additional)
  BY DEF KeysReadable, TheKey
<1>1. fields \in Seq(ReadableOrPadding) /\ additional \in AdditionalKeys
  BY DEF ExtraInv, ExtraTypeOK
<1>2. /\ \A tag \in {Key, Additional} : Tagged(fields, tag) = Tagged(KeyFields, tag)
      /\ out = WriteExtra(fields)
  BY DEF ExtraInv, KeysThere
<1>3. \A tag \in Byte : Tagged(Parsed(out), tag) = Tagged(fields, tag)
  BY <1>1, <1>2, ReadBack DEF Unpadded
<1>4. Tagged(KeyFields, Key) = <<TheKey>>
  BY <1>1, KeyFieldsAre
<1> QED
  BY <1>2, <1>3, <1>4, Tags

LEMMA InvGivesFields == ExtraInv => FieldsKept
<1> SUFFICES ASSUME ExtraInv, pc = "done", Unpadded,
                    NEW given, given = Parsed(extra), NEW found, found = Parsed(out)
             PROVE  /\ KeptFrom(given, found)
                    /\ WriteExtra(found) = out
  BY DEF FieldsKept, KeptFrom, NoncesKept
<1>1. fields \in Seq(ReadableOrPadding)
  BY DEF ExtraInv, ExtraTypeOK
<1>2. KeptFrom(Parsed(extra), fields) /\ out = WriteExtra(fields)
  BY DEF ExtraInv, KeysThere
<1>3. /\ \A tag \in Byte : Tagged(Parsed(out), tag) = Tagged(fields, tag)
      /\ WriteExtra(Parsed(out)) = out
  BY <1>1, <1>2, ReadBack DEF Unpadded
<1> QED
  BY <1>2, <1>3, Tags DEF KeptFrom

(* Whatever the hot wallet put into the extra, short of padding, the reader of
   the bytes construct_and_sign writes finds the transaction key and the
   additional keys, each once and whole. *)
THEOREM KeysAreReadable == Spec => []KeysReadable
BY FieldsAccounted, InvGivesKeys, PTL

(* It finds the hot wallet's other fields as they were, as often and in the
   same order, and nothing that cannot be read. *)
THEOREM FieldsAreKept == Spec => []FieldsKept
BY FieldsAccounted, InvGivesFields, PTL
=============================================================================

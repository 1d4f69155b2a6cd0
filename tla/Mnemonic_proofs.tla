---------------------------- MODULE Mnemonic_proofs ----------------------------
(***************************************************************************)
(* Decoding a phrase, for every size of the list, width of the numbers and *)
(* number of groups: TLC counts through the phrases of a short list, here  *)
(* the same is shown for 1626 words and 32 bits, and for any other.        *)
(***************************************************************************)
EXTENDS Mnemonic, SequenceTheorems, TLAPS

-----------------------------------------------------------------------------
(* Quotients and remainders *)

(* No multiple of q but zero is smaller than q. *)
LEMMA Multiple ==
    ASSUME NEW q \in Nat \ {0}, NEW e \in Int, -q < q * e, q * e < q
    PROVE  e = 0
<1>1. CASE e >= 1
  <2>1. PICK f \in Nat : e = f + 1
    BY <1>1
  <2>2. q * e = q * f + q /\ q * f >= 0
    BY <2>1
  <2> QED
    BY <2>2
<1>2. CASE e <= -1
  <2>1. PICK f \in Nat : e = -f - 1
    BY <1>2
  <2>2. q * e = -(q * f) - q /\ q * f >= 0
    BY <2>1
  <2> QED
    BY <2>2
<1> QED
  BY <1>1, <1>2

LEMMA Division ==
    ASSUME NEW q \in Nat \ {0}, NEW e \in Int, NEW t \in 0 .. q - 1, NEW a \in Int, a = q * e + t
    PROVE  a % q = t /\ a \div q = e
<1> DEFINE d == a \div q
           m == a % q
<1>1. d \in Int /\ m \in 0 .. q - 1 /\ a = q * d + m
  OBVIOUS
<1> HIDE DEF d, m
<1>2. q * (e - d) = q * e - q * d
  BY <1>1
<1>3. q * (e - d) = m - t
  BY <1>1, <1>2
<1>4. e - d = 0
  BY <1>1, <1>3, Multiple
<1>5. e = d /\ m = t
  <2>1. e = d
    BY <1>1, <1>4
  <2>2. q * e = q * d /\ q * e \in Int
    BY <1>1, <2>1
  <2> QED
    BY <1>1, <2>1, <2>2
<1> QED
  BY <1>5 DEF d, m

(* What a word adds to the one before it is found by taking that one off. *)
LEMMA Difference ==
    ASSUME NEW q \in Nat \ {0}, NEW u \in Int, NEW v \in 0 .. q - 1
    PROVE  (q + ((u + v) % q) - v) % q = u % q
<1> DEFINE d == (u + v) \div q
           w == (u + v) % q
           e == u \div q
           t == u % q
<1>1. d \in Int /\ w \in 0 .. q - 1 /\ u + v = q * d + w
  OBVIOUS
<1>2. e \in Int /\ t \in 0 .. q - 1 /\ u = q * e + t
  OBVIOUS
<1> HIDE DEF d, w, e, t
<1>3. q * ((1 + e) - d) = q + q * e - q * d
  BY <1>1, <1>2
<1>4. q + w - v = q * ((1 + e) - d) + t
  BY <1>1, <1>2, <1>3
<1> DEFINE a == q + w - v
           f == (1 + e) - d
<1>5. a \in Int /\ f \in Int /\ a = q * f + t
  BY <1>1, <1>2, <1>4
<1> HIDE DEF a, f
<1>6. a % q = t
  BY <1>2, <1>5, Division
<1> QED
  BY <1>6 DEF a, w, t

(* And the other way round: a difference added gives the word. *)
LEMMA Addition ==
    ASSUME NEW q \in Nat \ {0}, NEW c \in Int, NEW v \in 0 .. q - 1, NEW w \in 0 .. q - 1
    PROVE  (((q + w - v) % q) + q * c + v) % q = w
<1> DEFINE d == (q + w - v) \div q
           m == (q + w - v) % q
<1>1. d \in Int /\ m \in 0 .. q - 1 /\ q + w - v = q * d + m
  <2>1. q + w - v \in Int
    OBVIOUS
  <2> QED
    BY <2>1
<1> HIDE DEF d, m
<1>2. q * ((1 + c) - d) = q + q * c - q * d
  BY <1>1
<1>3. m + q * c + v = q * ((1 + c) - d) + w
  BY <1>1, <1>2
<1> DEFINE a == m + q * c + v
           f == (1 + c) - d
<1>4. a \in Int /\ f \in Int /\ a = q * f + w
  BY <1>1, <1>3
<1> HIDE DEF a, f
<1>5. a % q = w
  BY <1>4, Division
<1> QED
  BY <1>5 DEF a, m

(* Three digits of base n. *)
LEMMA Digits ==
    ASSUME NEW n \in Nat \ {0}, NEW a \in 0 .. n - 1, NEW b \in 0 .. n - 1, NEW c \in Nat,
           NEW x \in Int, x = a + n * b + n * n * c
    PROVE  /\ x % n = a
           /\ x \div n = b + n * c
           /\ x \div (n * n) = c
<1> DEFINE e == b + n * c
<1>1. e \in Int /\ x = n * e + a
  <2>1. n * (b + n * c) = n * b + n * n * c
    OBVIOUS
  <2> QED
    BY <2>1
<1> HIDE DEF e
<1>2. x % n = a /\ x \div n = e
  BY <1>1, Division
<1>3. n * n \in Nat \ {0}
  OBVIOUS
<1>4. a + n * b \in 0 .. n * n - 1
  <2>1. PICK f \in Nat : b = n - 1 - f
    <3>1. n - 1 - b \in Nat /\ b = n - 1 - (n - 1 - b)
      OBVIOUS
    <3> QED
      BY <3>1
  <2>2. n * b = n * n - n - n * f /\ n * f >= 0 /\ n * n \in Int /\ n * f \in Int
    BY <2>1
  <2>3. n * b >= 0 /\ n * b \in Int
    OBVIOUS
  <2> QED
    BY <2>2, <2>3
<1> DEFINE q == n * n
           t == a + n * b
<1>5. q \in Nat \ {0} /\ t \in 0 .. q - 1 /\ x = q * c + t /\ c \in Int
  BY <1>3, <1>4
<1> HIDE DEF q, t
<1>6. x \div q = c
  BY <1>5, Division
<1> QED
  BY <1>2, <1>6 DEF e, q

-----------------------------------------------------------------------------
(* Words and numbers *)

(* What the checksum is taken to be. *)
ChecksumIsNumber == \A words \in Seq(List) : Checksum(words) \in Nat

LEMMA Sizes ==
    /\ ListSize \in Nat \ {0} /\ NumberLimit \in Nat \ {0} /\ Groups \in Nat \ {0}
    /\ \A x \in Numbers : x \in Nat /\ x < ListSize * ListSize * ListSize
<1>1. ListSize * ListSize * ListSize \in Int
  BY SizeAssumption
<1> QED
  BY <1>1, SizeAssumption DEF Numbers

(* decode_mnemonic undoes the encoder. *)
LEMMA ValueOfWords ==
    ASSUME NEW x \in Numbers
    PROVE  /\ \A i \in 1 .. 3 : WordsOf(x)[i] \in List
           /\ Value(WordsOf(x)[1], WordsOf(x)[2], WordsOf(x)[3]) = x
<1>1. PICK n \in Nat \ {0} : n = ListSize
  BY Sizes
<1>2. x \in Nat /\ x < n * n * n /\ List = 0 .. n - 1
  BY <1>1, Sizes DEF List
<1> DEFINE a == x % n
           q == x \div n
           b == q % n
           c == q \div n
           w2 == (q + a) % n
           w3 == (c + w2) % n
<1>3. a \in 0 .. n - 1 /\ q \in Nat /\ x = n * q + a
  BY <1>2
<1> HIDE DEF a, q
<1>4. b \in 0 .. n - 1 /\ c \in Nat /\ q = n * c + b
  BY <1>3
<1>5. w2 \in 0 .. n - 1
  BY <1>3
<1>6. w3 \in 0 .. n - 1
  BY <1>4, <1>5
<1> HIDE DEF b, c
<1>7. n * q = n * n * c + n * b /\ n * n * c \in Int /\ n * b \in Int
  BY <1>3, <1>4
<1>8. x = a + n * b + n * n * c
  BY <1>2, <1>3, <1>7
<1>9. x \div (n * n) = c
  BY <1>2, <1>3, <1>4, <1>8, Digits
<1>10. c \in 0 .. n - 1
  <2> SUFFICES ASSUME c >= n PROVE FALSE
    BY <1>4
  <2>1. PICK f \in Nat : c = n + f
    <3>1. c - n \in Nat /\ c = n + (c - n)
      BY <1>4
    <3> QED
      BY <3>1
  <2>2. n * n * c = n * n * n + n * n * f /\ n * n * f >= 0 /\ n * n * f \in Int
        /\ n * n * n \in Int
    BY <2>1
  <2>3. n * b >= 0
    BY <1>4
  <2> QED
    BY <1>2, <1>3, <1>7, <1>8, <2>2, <2>3
<1>11. WordsOf(x) = <<a, w2, w3>>
  BY <1>1, <1>9 DEF WordsOf, a, q
<1>12. (n + w2 - a) % n = b
  <2>1. q \in Int
    BY <1>3
  <2>2. (n + ((q + a) % n) - a) % n = q % n
    BY <1>3, <2>1, Difference
  <2> QED
    BY <2>2 DEF b
<1>13. (n + w3 - w2) % n = c
  <2>1. c % n = c
    BY <1>4, <1>10
  <2> HIDE DEF w2
  <2>2. c \in Int
    BY <1>4
  <2>3. (n + ((c + w2) % n) - w2) % n = c % n
    BY <1>5, <2>2, Difference
  <2> QED
    BY <2>1, <2>3
<1> HIDE DEF w2, w3
<1>14. Value(a, w2, w3) = x
  BY <1>1, <1>8, <1>12, <1>13 DEF Value
<1> QED
  BY <1>2, <1>3, <1>5, <1>6, <1>11, <1>14

(* The encoder undoes decode_mnemonic, as long as nothing wraps. *)
LEMMA WordsOfValue ==
    ASSUME NEW w1 \in List, NEW w2 \in List, NEW w3 \in List
    PROVE  /\ Value(w1, w2, w3) \in Nat
           /\ WordsOf(Value(w1, w2, w3)) = <<w1, w2, w3>>
<1>1. PICK n \in Nat \ {0} : n = ListSize
  BY Sizes
<1>2. w1 \in 0 .. n - 1 /\ w2 \in 0 .. n - 1 /\ w3 \in 0 .. n - 1
  BY <1>1 DEF List
<1> DEFINE b == (n + w2 - w1) % n
           c == (n + w3 - w2) % n
           x == w1 + n * b + n * n * c
<1>3. b \in 0 .. n - 1 /\ c \in 0 .. n - 1
  <2>1. n + w2 - w1 \in Int /\ n + w3 - w2 \in Int
    BY <1>2
  <2> QED
    BY <2>1
<1>4. (b + n * c + w1) % n = w2
  <2>1. c \in Int
    BY <1>3
  <2> HIDE DEF c
  <2>2. (((n + w2 - w1) % n) + n * c + w1) % n = w2
    BY <1>2, <2>1, Addition
  <2> QED
    BY <2>2
<1>5. (c + w2) % n = w3
  <2>1. (((n + w3 - w2) % n) + n * 0 + w2) % n = w3
    <3>1. 0 \in Int
      OBVIOUS
    <3> QED
      BY <1>2, <3>1, Addition
  <2>2. c + n * 0 + w2 = c + w2
    BY <1>2, <1>3
  <2> QED
    BY <2>1, <2>2
<1> HIDE DEF b, c
<1>6. x \in Nat
  <2>1. n * b \in Nat /\ n * n * c \in Nat
    BY <1>3
  <2> QED
    BY <1>2, <2>1
<1>7. Value(w1, w2, w3) = x
  BY <1>1 DEF Value, b, c
<1> HIDE DEF x
<1>8. x % n = w1 /\ x \div n = b + n * c /\ x \div (n * n) = c
  <2>1. c \in Nat /\ x \in Int /\ x = w1 + n * b + n * n * c
    BY <1>3, <1>6 DEF x
  <2> QED
    BY <1>2, <1>3, <2>1, Digits
<1>9. WordsOf(x) = <<w1, w2, w3>>
  BY <1>1, <1>4, <1>5, <1>8 DEF WordsOf
<1> QED
  BY <1>6, <1>7, <1>9

-----------------------------------------------------------------------------
(* Phrases *)

LEMMA AllWordsShape ==
    ASSUME NEW numbers \in [1 .. Groups -> Numbers]
    PROVE  /\ AllWords(numbers) \in Seq(List) /\ Len(AllWords(numbers)) = 3 * Groups
           /\ \A g \in 1 .. Groups :
                 /\ AllWords(numbers)[3 * g - 2] = WordsOf(numbers[g])[1]
                 /\ AllWords(numbers)[3 * g - 1] = WordsOf(numbers[g])[2]
                 /\ AllWords(numbers)[3 * g] = WordsOf(numbers[g])[3]
<1> DEFINE word(k) == WordsOf(numbers[(k - 1) \div 3 + 1])[((k - 1) % 3) + 1]
<1>1. AllWords(numbers) = [k \in 1 .. 3 * Groups |-> word(k)]
  BY DEF AllWords
<1>2. ASSUME NEW k \in 1 .. 3 * Groups PROVE word(k) \in List
  <2>1. (k - 1) \div 3 + 1 \in 1 .. Groups /\ ((k - 1) % 3) + 1 \in 1 .. 3
    BY Sizes
  <2>2. numbers[(k - 1) \div 3 + 1] \in Numbers
    BY <2>1
  <2> QED
    BY <2>1, <2>2, ValueOfWords
<1>3. ASSUME NEW g \in 1 .. Groups
      PROVE  /\ {3 * g - 2, 3 * g - 1, 3 * g} \subseteq 1 .. 3 * Groups
             /\ word(3 * g - 2) = WordsOf(numbers[g])[1]
             /\ word(3 * g - 1) = WordsOf(numbers[g])[2]
             /\ word(3 * g) = WordsOf(numbers[g])[3]
  <2>1. {3 * g - 2, 3 * g - 1, 3 * g} \subseteq 1 .. 3 * Groups
    BY Sizes
  <2>2. /\ (3 * g - 2 - 1) \div 3 + 1 = g /\ ((3 * g - 2 - 1) % 3) + 1 = 1
        /\ (3 * g - 1 - 1) \div 3 + 1 = g /\ ((3 * g - 1 - 1) % 3) + 1 = 2
        /\ (3 * g - 1) \div 3 + 1 = g /\ ((3 * g - 1) % 3) + 1 = 3
    OBVIOUS
  <2> QED
    BY <2>1, <2>2
<1> HIDE DEF word
<1>4. AllWords(numbers) \in [1 .. 3 * Groups -> List] /\ 3 * Groups \in Nat
  BY <1>1, <1>2, Sizes
<1>5. AllWords(numbers) \in Seq(List) /\ Len(AllWords(numbers)) = 3 * Groups
  BY <1>4
<1> QED
  BY <1>1, <1>3, <1>5

(* The words of a phrase without the checksum word. *)
Body(words) == SubSeq(words, 1, 3 * Groups)

LEMMA WholePhrase ==
    ASSUME ChecksumIsNumber, NEW words \in Seq(List), Len(words) = 3 * Groups
    PROVE  LET place == (Checksum(words) % (3 * Groups)) + 1
               whole == Append(words, words[place])
           IN  /\ place \in 1 .. 3 * Groups
               /\ whole \in Seq(List) /\ Len(whole) = WordCount
               /\ \A k \in 1 .. 3 * Groups : whole[k] = words[k]
               /\ whole[WordCount] = words[place]
               /\ Body(whole) = words
<1> DEFINE place == (Checksum(words) % (3 * Groups)) + 1
           whole == Append(words, words[place])
<1>1. PICK m \in Nat \ {0} : m = 3 * Groups
  BY Sizes
<1>2. place \in 1 .. 3 * Groups
  <2>1. Checksum(words) \in Nat
    BY DEF ChecksumIsNumber
  <2>2. Checksum(words) % m \in 0 .. m - 1
    BY <2>1
  <2> QED
    BY <1>1, <2>2
<1> HIDE DEF place
<1>3. /\ whole \in Seq(List) /\ Len(whole) = WordCount
      /\ \A k \in 1 .. 3 * Groups : whole[k] = words[k]
      /\ whole[WordCount] = words[place]
  BY <1>1, <1>2 DEF WordCount
<1> HIDE DEF whole
<1>4. Body(whole) = words
  <2>1. Body(whole) \in Seq(List) /\ Len(Body(whole)) = 3 * Groups
    BY <1>1, <1>3 DEF Body, WordCount
  <2>2. \A k \in 1 .. Len(words) : Body(whole)[k] = words[k]
    BY <1>1, <1>3 DEF Body, WordCount
  <2> QED
    BY <2>1, <2>2, SeqEqual
<1> QED
  BY <1>2, <1>3, <1>4 DEF place, whole

LEMMA PhraseShape ==
    ASSUME ChecksumIsNumber, NEW numbers \in [1 .. Groups -> Numbers]
    PROVE  /\ PhraseOf(numbers) \in Seq(List) /\ Len(PhraseOf(numbers)) = WordCount
           /\ \A k \in 1 .. 3 * Groups : PhraseOf(numbers)[k] = AllWords(numbers)[k]
           /\ PhraseOf(numbers)[WordCount] = Expected(PhraseOf(numbers))
<1> DEFINE words == AllWords(numbers)
           place == (Checksum(words) % (3 * Groups)) + 1
           whole == PhraseOf(numbers)
<1>1. words \in Seq(List) /\ Len(words) = 3 * Groups
  BY AllWordsShape
<1>2. whole = Append(words, words[place])
  BY DEF PhraseOf
<1> HIDE DEF words, whole
<1>3. /\ place \in 1 .. 3 * Groups
      /\ whole \in Seq(List) /\ Len(whole) = WordCount
      /\ \A k \in 1 .. 3 * Groups : whole[k] = words[k]
      /\ whole[WordCount] = words[place]
      /\ Body(whole) = words
  BY <1>1, <1>2, WholePhrase
<1>4. Expected(whole) = whole[place]
  BY <1>3 DEF Expected, Body
<1> QED
  BY <1>3, <1>4 DEF words, whole

(* The encoder's words are those that were decoded, when each three of them
   stand for a number as it is. *)
LEMMA PhraseBack ==
    ASSUME ChecksumIsNumber, NEW words \in Seq(List), Len(words) = WordCount,
           words[WordCount] = Expected(words),
           NEW numbers \in [1 .. Groups -> Numbers],
           \A g \in 1 .. Groups :
              numbers[g] = Value(words[3 * g - 2], words[3 * g - 1], words[3 * g])
    PROVE  PhraseOf(numbers) = words
<1>1. 3 * Groups \in Nat /\ WordCount = 3 * Groups + 1 /\ Groups \in Nat \ {0}
  BY Sizes DEF WordCount
<1>2. ASSUME NEW g \in 1 .. Groups
      PROVE  /\ AllWords(numbers)[3 * g - 2] = words[3 * g - 2]
             /\ AllWords(numbers)[3 * g - 1] = words[3 * g - 1]
             /\ AllWords(numbers)[3 * g] = words[3 * g]
  <2>1. {3 * g - 2, 3 * g - 1, 3 * g} \subseteq 1 .. Len(words)
    BY <1>1
  <2>2. words[3 * g - 2] \in List /\ words[3 * g - 1] \in List /\ words[3 * g] \in List
    BY <2>1
  <2>3. WordsOf(numbers[g]) = <<words[3 * g - 2], words[3 * g - 1], words[3 * g]>>
    <3>1. numbers[g] = Value(words[3 * g - 2], words[3 * g - 1], words[3 * g])
      OBVIOUS
    <3>2. WordsOf(Value(words[3 * g - 2], words[3 * g - 1], words[3 * g]))
            = <<words[3 * g - 2], words[3 * g - 1], words[3 * g]>>
      BY <2>2, WordsOfValue
    <3> QED
      BY <3>1, <3>2
  <2>4. /\ AllWords(numbers)[3 * g - 2] = WordsOf(numbers[g])[1]
        /\ AllWords(numbers)[3 * g - 1] = WordsOf(numbers[g])[2]
        /\ AllWords(numbers)[3 * g] = WordsOf(numbers[g])[3]
    BY AllWordsShape
  <2> QED
    BY <2>3, <2>4
<1>3. ASSUME NEW k \in 1 .. 3 * Groups PROVE AllWords(numbers)[k] = words[k]
  <2>1. PICK g \in 1 .. Groups : k = 3 * g - 2 \/ k = 3 * g - 1 \/ k = 3 * g
    <3>1. /\ (k - 1) \div 3 + 1 \in 1 .. Groups
          /\ \/ k = 3 * ((k - 1) \div 3 + 1) - 2
             \/ k = 3 * ((k - 1) \div 3 + 1) - 1
             \/ k = 3 * ((k - 1) \div 3 + 1)
      BY <1>1
    <3> QED
      BY <3>1
  <2> QED
    BY <1>2, <2>1
<1>4. Body(words) = AllWords(numbers)
  <2>1. /\ Body(words) \in Seq(List) /\ Len(Body(words)) = 3 * Groups
        /\ \A k \in 1 .. 3 * Groups : Body(words)[k] = words[k]
    BY <1>1 DEF Body
  <2> QED
    BY <1>3, <2>1, AllWordsShape, SeqEqual
<1>5. PhraseOf(numbers)[WordCount] = words[WordCount]
  <2> DEFINE place == (Checksum(AllWords(numbers)) % (3 * Groups)) + 1
  <2>1. words[WordCount] = words[place]
    BY <1>4 DEF Expected, Body
  <2>2. PhraseOf(numbers) = Append(AllWords(numbers), AllWords(numbers)[place])
    BY DEF PhraseOf
  <2>3. AllWords(numbers) \in Seq(List) /\ Len(AllWords(numbers)) = 3 * Groups
    BY AllWordsShape
  <2> HIDE DEF place
  <2>4. place \in 1 .. 3 * Groups
    BY <2>3, WholePhrase DEF place
  <2>5. PhraseOf(numbers)[WordCount] = AllWords(numbers)[place]
    BY <1>1, <2>2, <2>3
  <2> QED
    BY <1>3, <2>1, <2>4, <2>5
<1>6. ASSUME NEW k \in 1 .. WordCount PROVE PhraseOf(numbers)[k] = words[k]
  <2>1. CASE k \in 1 .. 3 * Groups
    BY <1>3, <2>1, PhraseShape
  <2>2. CASE k = WordCount
    BY <1>5, <2>2
  <2> QED
    BY <1>1, <2>1, <2>2
<1> QED
  BY <1>6, PhraseShape, SeqEqual

-----------------------------------------------------------------------------
(* The run *)

(* The invariant: a phrase the wallet wrote is not refused, the words found so
   far are the first of the phrase, and the numbers decoded so far are those
   of its first groups. *)

Typed ==
    \/ written \in Seeds /\ phrase = PhraseOf(written) /\ error = "None"
    \/ written = None /\ phrase \in Strays

WordsFound ==
    /\ idx \in Seq(List) /\ Len(idx) <= Len(phrase)
    /\ \A k \in 1 .. Len(idx) : idx[k] = phrase[k]

Whole == Len(idx) = WordCount /\ idx[WordCount] = Expected(idx)

NumbersDecoded ==
    /\ seed \in Seq(Numbers) /\ Len(seed) <= Groups
    /\ \A g \in 1 .. Len(seed) : seed[g] = Group(idx[3 * g - 2], idx[3 * g - 1], idx[3 * g])

IInv ==
    /\ pc \in {"count", "find", "decode", "done"}
    /\ pc # "done" => error = "None"
    /\ Typed /\ WordsFound /\ NumbersDecoded
    /\ pc \in {"count", "find"} => seed = <<>>
    /\ pc = "count" => idx = <<>>
    /\ (pc \in {"find", "decode"} \/ Accepted) => Len(phrase) = WordCount
    /\ (pc = "decode" \/ Accepted) => Whole
    /\ Accepted => Len(seed) = Groups

(* A phrase of known words in full is what was found of it. *)
LEMMA AllIsFound ==
    ASSUME NEW S, phrase \in Seq(S), List \subseteq S, WordsFound, Len(idx) = Len(phrase)
    PROVE  idx = phrase
<1>1. idx \in Seq(S)
  BY SeqMonotonic DEF WordsFound
<1> QED
  BY <1>1, SeqEqual DEF WordsFound

LEMMA PhraseIsSeq ==
    ASSUME ChecksumIsNumber, Typed
    PROVE  phrase \in Seq(List \cup {Unknown}) /\ Len(phrase) \in Nat
<1>1. CASE written \in Seeds /\ phrase = PhraseOf(written)
  <2>1. phrase \in Seq(List)
    BY <1>1, PhraseShape, SeedsAssumption
  <2> QED
    BY <2>1, SeqMonotonic
<1>2. CASE phrase \in Strays
  BY <1>2, StraysAssumption
<1> QED
  BY <1>1, <1>2 DEF Typed

LEMMA GroupIsNumber ==
    ASSUME NEW w1 \in List, NEW w2 \in List, NEW w3 \in List
    PROVE  /\ Group(w1, w2, w3) \in Numbers
           /\ Value(w1, w2, w3) \in Numbers => Group(w1, w2, w3) = Value(w1, w2, w3)
<1> DEFINE x == Value(w1, w2, w3)
<1>1. x \in Nat
  BY WordsOfValue
<1> HIDE DEF x
<1>2. PICK m \in Nat \ {0} : m = NumberLimit
  BY Sizes
<1>3. x % m \in 0 .. m - 1 /\ (x \in 0 .. m - 1 => x % m = x)
  BY <1>1
<1> QED
  BY <1>2, <1>3 DEF Group, Numbers, x

LEMMA InitInv ==
    ASSUME ChecksumIsNumber, Init
    PROVE  IInv
<1>1. Typed
  BY DEF Init, Typed
<1>2. WordsFound
  BY <1>1, PhraseIsSeq DEF Init, WordsFound
<1>3. NumbersDecoded
  BY Sizes DEF Init, NumbersDecoded
<1> QED
  BY <1>1, <1>2, <1>3 DEF Init, IInv, Accepted

(* What was written down has the right number of known words, and the right
   last word. *)
LEMMA WrittenIsRight ==
    ASSUME ChecksumIsNumber, Typed, written # None
    PROVE  /\ phrase \in Seq(List) /\ Len(phrase) = WordCount
           /\ phrase[WordCount] = Expected(phrase)
BY PhraseShape, SeedsAssumption DEF Typed

LEMMA WrongCountInv ==
    ASSUME ChecksumIsNumber, IInv, WrongCount
    PROVE  IInv'
<1>1. written = None
  BY WrittenIsRight DEF IInv, WrongCount
<1>2. Typed' /\ error' = "WordCount" /\ pc' = "done"
  BY <1>1, SeedsAssumption DEF IInv, Typed, WrongCount, Fail, input
<1>3. WordsFound' /\ NumbersDecoded'
  BY DEF IInv, WordsFound, NumbersDecoded, WrongCount, input
<1> QED
  BY <1>2, <1>3 DEF IInv, Accepted

LEMMA RightCountInv ==
    ASSUME IInv, RightCount
    PROVE  IInv'
<1>1. Typed' /\ WordsFound' /\ NumbersDecoded'
  BY DEF IInv, Typed, WordsFound, NumbersDecoded, RightCount, input
<1> QED
  BY <1>1 DEF IInv, RightCount, input, Accepted

LEMMA FindWordInv ==
    ASSUME ChecksumIsNumber, IInv, FindWord
    PROVE  IInv'
<1>1. phrase \in Seq(List \cup {Unknown}) /\ Len(phrase) \in Nat
  BY PhraseIsSeq DEF IInv
<1>2. idx \in Seq(List) /\ Len(idx) \in Nat
  BY DEF IInv, WordsFound
<1>3. Word \in List
  <2>1. Len(idx) + 1 \in 1 .. Len(phrase)
    BY <1>1, <1>2 DEF FindWord
  <2>2. phrase[Len(idx) + 1] \in List \cup {Unknown}
    BY <1>1, <2>1
  <2> QED
    BY <2>2 DEF FindWord, Word
<1>4. WordsFound'
  <2>1. /\ idx' \in Seq(List) /\ Len(idx') = Len(idx) + 1
        /\ \A k \in 1 .. Len(idx) : idx'[k] = idx[k]
        /\ idx'[Len(idx) + 1] = phrase[Len(idx) + 1]
    BY <1>2, <1>3 DEF FindWord, Word
  <2>2. \A k \in 1 .. Len(idx') : k \in 1 .. Len(idx) \/ k = Len(idx) + 1
    BY <1>2, <2>1
  <2>3. \A k \in 1 .. Len(idx') : idx'[k] = phrase[k]
    BY <2>1, <2>2 DEF IInv, WordsFound
  <2>4. Len(idx') <= Len(phrase)
    BY <1>1, <1>2, <2>1 DEF FindWord
  <2> QED
    BY <2>1, <2>3, <2>4 DEF FindWord, input, WordsFound
<1>5. Typed' /\ pc' = "find" /\ seed' = <<>> /\ error' = "None"
      /\ Len(phrase') = WordCount
  BY DEF IInv, Typed, FindWord, input
<1>6. NumbersDecoded'
  BY <1>5, Sizes DEF NumbersDecoded
<1> QED
  BY <1>4, <1>5, <1>6 DEF IInv, Accepted

LEMMA UnknownWordInv ==
    ASSUME ChecksumIsNumber, IInv, UnknownWord
    PROVE  IInv'
<1>1. written = None
  <2> SUFFICES ASSUME written # None PROVE FALSE
    OBVIOUS
  <2>1. phrase \in Seq(List) /\ Len(idx) \in Nat /\ Len(phrase) \in Nat
    BY WrittenIsRight DEF IInv, WordsFound
  <2>2. Len(idx) + 1 \in 1 .. Len(phrase)
    BY <2>1 DEF UnknownWord
  <2>3. Word \in List
    BY <2>1, <2>2 DEF Word
  <2> QED
    BY <2>3, StraysAssumption DEF UnknownWord
<1>2. Typed' /\ error' = "UnknownWord" /\ pc' = "done"
  BY <1>1, SeedsAssumption DEF IInv, Typed, UnknownWord, Fail, input
<1>3. WordsFound' /\ NumbersDecoded'
  BY DEF IInv, WordsFound, NumbersDecoded, UnknownWord, input
<1> QED
  BY <1>2, <1>3 DEF IInv, Accepted

LEMMA ChecksumFailsInv ==
    ASSUME ChecksumIsNumber, IInv, ChecksumFails
    PROVE  IInv'
<1>1. written = None
  <2> SUFFICES ASSUME written # None PROVE FALSE
    OBVIOUS
  <2>1. phrase \in Seq(List) /\ phrase[WordCount] = Expected(phrase)
    BY WrittenIsRight DEF IInv
  <2>2. idx = phrase
    BY <2>1, AllIsFound DEF IInv, ChecksumFails, AllFound
  <2> QED
    BY <2>1, <2>2 DEF ChecksumFails
<1>2. Typed' /\ error' = "Checksum" /\ pc' = "done"
  BY <1>1, SeedsAssumption DEF IInv, Typed, ChecksumFails, Fail, input
<1>3. WordsFound' /\ NumbersDecoded'
  BY DEF IInv, WordsFound, NumbersDecoded, ChecksumFails, input
<1> QED
  BY <1>2, <1>3 DEF IInv, Accepted

LEMMA ChecksumHoldsInv ==
    ASSUME IInv, ChecksumHolds
    PROVE  IInv'
<1>1. Typed' /\ WordsFound' /\ NumbersDecoded'
  BY DEF IInv, Typed, WordsFound, NumbersDecoded, ChecksumHolds, input
<1>2. Whole'
  BY DEF IInv, Whole, Expected, ChecksumHolds, AllFound
<1> QED
  BY <1>1, <1>2 DEF IInv, ChecksumHolds, AllFound, input, Accepted

LEMMA DecodeInv ==
    ASSUME IInv, Decode
    PROVE  IInv'
<1> DEFINE i == 3 * Len(seed)
<1>1. seed \in Seq(Numbers) /\ Len(seed) \in Nat /\ Len(seed) < Groups /\ Groups \in Nat
  BY Sizes DEF IInv, NumbersDecoded, Decode
<1>2. idx \in Seq(List) /\ Len(idx) = 3 * Groups + 1
  BY DEF IInv, WordsFound, Decode, Whole, WordCount
<1>3. Group(idx[i + 1], idx[i + 2], idx[i + 3]) \in Numbers
  <2>1. {i + 1, i + 2, i + 3} \subseteq 1 .. Len(idx)
    BY <1>1, <1>2
  <2> HIDE DEF i
  <2>2. idx[i + 1] \in List /\ idx[i + 2] \in List /\ idx[i + 3] \in List
    BY <1>2, <2>1
  <2> QED
    BY <2>2, GroupIsNumber
<1>4. /\ seed' \in Seq(Numbers) /\ Len(seed') = Len(seed) + 1
      /\ \A g \in 1 .. Len(seed) : seed'[g] = seed[g]
      /\ seed'[Len(seed) + 1] = Group(idx[i + 1], idx[i + 2], idx[i + 3])
  BY <1>1, <1>3 DEF Decode
<1>5. NumbersDecoded'
  <2>1. ASSUME NEW g \in 1 .. Len(seed')
        PROVE  seed'[g] = Group(idx[3 * g - 2], idx[3 * g - 1], idx[3 * g])
    <3>1. CASE g \in 1 .. Len(seed)
      BY <1>4, <3>1 DEF IInv, NumbersDecoded
    <3>2. CASE g = Len(seed) + 1
      <4>1. 3 * g - 2 = i + 1 /\ 3 * g - 1 = i + 2 /\ 3 * g = i + 3
        BY <1>1, <3>2
      <4> QED
        BY <1>4, <3>2, <4>1
    <3> QED
      BY <1>1, <1>4, <3>1, <3>2
  <2>2. idx' = idx /\ Len(seed') <= Groups
    BY <1>1, <1>4 DEF Decode
  <2> QED
    BY <1>4, <2>1, <2>2 DEF NumbersDecoded
<1>6. Typed' /\ WordsFound' /\ Whole' /\ Len(phrase') = WordCount
  BY DEF IInv, Typed, WordsFound, Whole, Expected, Decode, input
<1> QED
  BY <1>5, <1>6 DEF IInv, Decode, Accepted

LEMMA DecodedInv ==
    ASSUME IInv, Decoded
    PROVE  IInv'
<1>1. Typed' /\ WordsFound' /\ NumbersDecoded' /\ Whole'
  BY DEF IInv, Typed, WordsFound, NumbersDecoded, Whole, Expected, Decoded, input
<1> QED
  BY <1>1 DEF IInv, Decoded, input, Accepted

LEMMA Invariant ==
    ASSUME ChecksumIsNumber
    PROVE  Spec => []IInv
<1>1. Init => IInv
  BY InitInv
<1>2. IInv /\ [Next]_vars => IInv'
  <2>1. ASSUME IInv, UNCHANGED vars PROVE IInv'
    BY <2>1 DEF IInv, Typed, WordsFound, NumbersDecoded, Whole, Expected, Accepted, vars, input
  <2> QED
    BY <2>1, WrongCountInv, RightCountInv, FindWordInv, UnknownWordInv, ChecksumFailsInv,
       ChecksumHoldsInv, DecodeInv, DecodedInv DEF Next
<1> QED
  BY <1>1, <1>2, PTL DEF Spec

-----------------------------------------------------------------------------
(* Theorems *)

(* decode_mnemonic: a phrase the wallet wrote down is accepted and gives its
   seed back, for every seed there is. *)
THEOREM PhrasesDecode ==
    ASSUME ChecksumIsNumber
    PROVE  Spec => []SeedRecovered
<1>1. IInv => SeedRecovered
  <2> SUFFICES ASSUME IInv, written # None
               PROVE  error = "None" /\ (pc = "done" => seed = written)
    BY DEF SeedRecovered
  <2>1. written \in Seeds /\ phrase = PhraseOf(written) /\ error = "None"
    BY DEF IInv, Typed
  <2>2. ASSUME pc = "done" PROVE seed = written
    <3>1. Accepted /\ Len(idx) = WordCount /\ Len(phrase) = WordCount /\ Len(seed) = Groups
      BY <2>1, <2>2 DEF Accepted, IInv, Whole
    <3>2. phrase \in Seq(List) /\ written \in [1 .. Groups -> Numbers]
      BY <2>1, PhraseShape, SeedsAssumption
    <3>3. idx = phrase
      BY <3>1, <3>2, AllIsFound DEF IInv
    <3>4. ASSUME NEW g \in 1 .. Groups PROVE seed[g] = written[g]
      <4>1. written[g] \in Numbers
        BY <3>2
      <4>2. {3 * g - 2, 3 * g - 1, 3 * g} \subseteq 1 .. 3 * Groups
        BY Sizes
      <4>3. /\ phrase[3 * g - 2] = WordsOf(written[g])[1]
            /\ phrase[3 * g - 1] = WordsOf(written[g])[2]
            /\ phrase[3 * g] = WordsOf(written[g])[3]
        <5>1. \A k \in 1 .. 3 * Groups : phrase[k] = AllWords(written)[k]
          BY <2>1, <3>2, PhraseShape
        <5>2. /\ AllWords(written)[3 * g - 2] = WordsOf(written[g])[1]
              /\ AllWords(written)[3 * g - 1] = WordsOf(written[g])[2]
              /\ AllWords(written)[3 * g] = WordsOf(written[g])[3]
          BY <3>2, AllWordsShape
        <5> QED
          BY <4>2, <5>1, <5>2
      <4>4. seed[g] = Group(phrase[3 * g - 2], phrase[3 * g - 1], phrase[3 * g])
        BY <3>1, <3>3 DEF IInv, NumbersDecoded
      <4>5. Group(WordsOf(written[g])[1], WordsOf(written[g])[2], WordsOf(written[g])[3])
              = written[g]
        <5>1. WordsOf(written[g])[1] \in List /\ WordsOf(written[g])[2] \in List
              /\ WordsOf(written[g])[3] \in List
          BY <4>1, ValueOfWords
        <5> QED
          BY <4>1, <5>1, ValueOfWords, GroupIsNumber
      <4> QED
        BY <4>3, <4>4, <4>5
    <3>5. written \in Seq(Numbers) /\ Len(written) = Groups
      BY <3>2, Sizes
    <3>6. seed \in Seq(Numbers)
      BY DEF IInv, NumbersDecoded
    <3> QED
      BY <3>1, <3>4, <3>5, <3>6, SeqEqual
  <2> QED
    BY <2>1, <2>2
<1> QED
  BY <1>1, Invariant, PTL

(* decode_mnemonic: unless a number wrapped, the phrase accepted is the very
   one the wallet would write down for the seed it gave. *)
THEOREM OnePhrasePerSeed ==
    ASSUME ChecksumIsNumber
    PROVE  Spec => []NoOtherPhrase
<1>1. IInv => NoOtherPhrase
  <2> SUFFICES ASSUME IInv, Accepted,
                      \A g \in 1 .. Groups :
                         Value(idx[3 * g - 2], idx[3 * g - 1], idx[3 * g]) \in Numbers
               PROVE  PhraseOf(seed) = phrase
    BY DEF NoOtherPhrase
  <2>1. /\ idx \in Seq(List) /\ Len(idx) = WordCount /\ idx[WordCount] = Expected(idx)
        /\ Len(phrase) = WordCount /\ Len(seed) = Groups /\ seed \in Seq(Numbers)
    BY DEF IInv, WordsFound, Whole, NumbersDecoded
  <2>2. phrase \in Seq(List \cup {Unknown})
    BY PhraseIsSeq DEF IInv
  <2>3. idx = phrase
    BY <2>1, <2>2, AllIsFound DEF IInv
  <2>4. seed \in [1 .. Groups -> Numbers]
    BY <2>1
  <2>5. ASSUME NEW g \in 1 .. Groups
        PROVE  seed[g] = Value(idx[3 * g - 2], idx[3 * g - 1], idx[3 * g])
    <3>1. {3 * g - 2, 3 * g - 1, 3 * g} \subseteq 1 .. Len(idx)
      BY <2>1, Sizes DEF WordCount
    <3>2. idx[3 * g - 2] \in List /\ idx[3 * g - 1] \in List /\ idx[3 * g] \in List
      BY <2>1, <3>1
    <3>3. seed[g] = Group(idx[3 * g - 2], idx[3 * g - 1], idx[3 * g])
      BY <2>1 DEF IInv, NumbersDecoded
    <3> QED
      BY <3>2, <3>3, GroupIsNumber
  <2>6. PhraseOf(seed) = idx
    BY <2>1, <2>4, <2>5, PhraseBack
  <2> QED
    BY <2>3, <2>6
<1> QED
  BY <1>1, Invariant, PTL
=============================================================================

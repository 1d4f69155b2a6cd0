------------------------------- MODULE Mnemonic -------------------------------
(***************************************************************************)
(* decode_mnemonic of xmr-keys: a phrase of words, three for each 32-bit   *)
(* number of the seed and one more as a checksum, becomes the seed.        *)
(*                                                                         *)
(* A word is its place in the list, counted from 0: words are compared by  *)
(* a prefix that is different for all of them.  The encoder is the one of  *)
(* the wallet that wrote the phrase down.                                  *)
(***************************************************************************)
EXTENDS Integers, Sequences

CONSTANTS
    ListSize,    \* words in the list, 1626
    NumberLimit, \* 2^32
    Groups,      \* 8
    Checksum(_), \* crc32 of the prefixes of a sequence of words
    Seeds,       \* the seeds the wallet may have written down
    Strays,      \* other phrases that may be typed in
    Unknown,     \* a word that is not in the list
    None

ASSUME SizeAssumption ==
    /\ ListSize \in Nat \ {0} /\ NumberLimit \in Nat \ {0} /\ Groups \in Nat \ {0}
    /\ NumberLimit <= ListSize * ListSize * ListSize

List == 0 .. ListSize - 1

Numbers == 0 .. NumberLimit - 1

ASSUME SeedsAssumption == Seeds \subseteq [1 .. Groups -> Numbers] /\ None \notin Seeds

ASSUME StraysAssumption ==
    Unknown \notin List /\ \A p \in Strays : p \in Seq(List \cup {Unknown})

VARIABLES
    pc,      \* "count", "find", "decode" or "done"
    written, \* the seed the phrase was written for, or None
    phrase,
    idx,     \* the words found so far
    seed,    \* the numbers decoded so far
    error    \* "None" or the SeedError

input == <<written, phrase>>
vars == <<pc, input, idx, seed, error>>

WordCount == 3 * Groups + 1

-----------------------------------------------------------------------------
(* What three words stand for: w1 + n * ((n + w2 - w1) % n)
   + n * n * ((n + w3 - w2) % n), in a u32 that wraps, since the release
   profile does not check for overflow. *)

(* Mutant: both differences are taken from the first word. *)
ValueFromFirst(w1, w2, w3) ==
    w1 + ListSize * ((ListSize + w2 - w1) % ListSize)
       + ListSize * ListSize * ((ListSize + w3 - w1) % ListSize)

Value(w1, w2, w3) ==
    w1 + ListSize * ((ListSize + w2 - w1) % ListSize)
       + ListSize * ListSize * ((ListSize + w3 - w2) % ListSize)

Group(w1, w2, w3) == Value(w1, w2, w3) % NumberLimit

(* The checksum word repeats the one the checksum points to. *)
Expected(words) == words[(Checksum(SubSeq(words, 1, 3 * Groups)) % (3 * Groups)) + 1]

-----------------------------------------------------------------------------
(* The wallet's encoder *)

WordsOf(number) ==
    LET w1 == number % ListSize
        w2 == (number \div ListSize + w1) % ListSize
        w3 == (number \div (ListSize * ListSize) + w2) % ListSize
    IN  <<w1, w2, w3>>

AllWords(numbers) ==
    [k \in 1 .. 3 * Groups |-> WordsOf(numbers[(k - 1) \div 3 + 1])[((k - 1) % 3) + 1]]

PhraseOf(numbers) ==
    LET words == AllWords(numbers)
    IN  Append(words, words[(Checksum(words) % (3 * Groups)) + 1])

-----------------------------------------------------------------------------

Init ==
    /\ pc = "count"
    /\ \/ written \in Seeds /\ phrase = PhraseOf(written)
       \/ written = None /\ phrase \in Strays
    /\ idx = <<>> /\ seed = <<>>
    /\ error = "None"

Fail(why) == pc' = "done" /\ error' = why

WrongCount ==
    /\ pc = "count" /\ Len(phrase) # WordCount
    /\ Fail("WordCount")
    /\ UNCHANGED <<input, idx, seed>>

RightCount ==
    /\ pc = "count" /\ Len(phrase) = WordCount
    /\ pc' = "find"
    /\ UNCHANGED <<input, idx, seed, error>>

Word == phrase[Len(idx) + 1]

FindWord ==
    /\ pc = "find" /\ Len(idx) < Len(phrase)
    /\ Word # Unknown
    /\ idx' = Append(idx, Word)
    /\ UNCHANGED <<pc, input, seed, error>>

UnknownWord ==
    /\ pc = "find" /\ Len(idx) < Len(phrase)
    /\ Word = Unknown
    /\ Fail("UnknownWord")
    /\ UNCHANGED <<input, idx, seed>>

AllFound == pc = "find" /\ Len(idx) = Len(phrase)

ChecksumFails ==
    /\ AllFound
    /\ idx[WordCount] # Expected(idx)
    /\ Fail("Checksum")
    /\ UNCHANGED <<input, idx, seed>>

(* Mutant: the checksum word is not looked at. *)
ChecksumIgnored ==
    /\ AllFound
    /\ pc' = "decode"
    /\ UNCHANGED <<input, idx, seed, error>>

ChecksumHolds ==
    /\ AllFound
    /\ idx[WordCount] = Expected(idx)
    /\ pc' = "decode"
    /\ UNCHANGED <<input, idx, seed, error>>

Decode ==
    /\ pc = "decode" /\ Len(seed) < Groups
    /\ LET i == 3 * Len(seed) IN seed' = Append(seed, Group(idx[i + 1], idx[i + 2], idx[i + 3]))
    /\ UNCHANGED <<pc, input, idx, error>>

Decoded ==
    /\ pc = "decode" /\ Len(seed) = Groups
    /\ pc' = "done"
    /\ UNCHANGED <<input, idx, seed, error>>

Next ==
    \/ WrongCount \/ RightCount \/ FindWord \/ UnknownWord
    \/ ChecksumFails \/ ChecksumHolds \/ Decode \/ Decoded

Spec == Init /\ [][Next]_vars

-----------------------------------------------------------------------------
(* Properties *)

Accepted == pc = "done" /\ error = "None"

(* Every phrase the wallet writes down is accepted and gives back the seed it
   was written for. *)
SeedRecovered ==
    written # None => /\ error = "None"
                      /\ pc = "done" => seed = written

(* The other way round: a phrase is accepted only if the wallet would write
   it down for the seed it gives, so that no other phrase opens an account;
   provided that its words stand for numbers of the width: beyond it they wrap
   and are another spelling of a smaller number. *)
NoOtherPhrase ==
    /\ Accepted
    /\ \A g \in 1 .. Groups : Value(idx[3 * g - 2], idx[3 * g - 1], idx[3 * g]) \in Numbers
    => PhraseOf(seed) = phrase
=============================================================================

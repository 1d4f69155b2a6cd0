------------------------- MODULE SnapshotTxs_proofs -------------------------
(***************************************************************************)
(* What snapshot_txs.py leaves frozen, submits and notes, for every        *)
(* wallet, list of counts and choice of raising calls.                     *)
(*                                                                         *)
(* No property is inductive.  Whether a thaw loop ends with the owner's    *)
(* freezes depends on how far the freeze loop came: FreezeInv ties frozen  *)
(* to the loops' remaining work at each statement.  What is submitted is   *)
(* what was checked only because no statement between touches the set:     *)
(* SetInv follows it from the transfer on.                                 *)
(***************************************************************************)
EXTENDS SnapshotTxs, SequenceTheorems, TLAPS

(* No call is made with the surplus frozen but those of the two loops and
   the transfer. *)
AtRest == pc \in {"select", "check", "sign", "submit"} => frozen = before

Freezing ==
    pc = "freeze" => todo \subseteq surplus /\ frozen = before \cup (surplus \ todo)

Thawing ==
    pc = "thaw" => todo \subseteq surplus /\ frozen = before \cup todo

Ended ==
    /\ exit \in ThawedEnds => frozen = before
    /\ pc # "exit" => exit = None

(* The surplus of a round is never the owner's. *)
Apart == surplus \cap before = {}

FreezeInv == OwnerFreezesKept /\ Apart /\ AtRest /\ Freezing /\ Thawing /\ Ended

(* The invariant holds when the script starts: nothing was frozen yet. *)
LEMMA FreezeInvInit == Init => FreezeInv
  BY NoneAssumption DEF Init, FreezeInv, OwnerFreezesKept, Apart, AtRest, Freezing,
     Thawing, Ended, ThawedEnds

(* Every statement, raising or not, keeps the invariant. *)
LEMMA FreezeInvStep == FreezeInv /\ [Next]_vars => FreezeInv'
<1> SUFFICES ASSUME FreezeInv, [Next]_vars PROVE FreezeInv'
  OBVIOUS
<1> USE NoneAssumption DEF ThawedEnds, FrozenEnds
<1> USE DEF FreezeInv, OwnerFreezesKept, Apart, AtRest, Freezing, Thawing, Ended
<1>1. CASE Select
  <2>1. PICK sub \in Eligible :
           \E largest \in SUBSET Spendable(sub) :
              /\ surplus' = Spendable(sub) \ largest
              /\ todo' = surplus'
    BY <1>1 DEF Select
  <2>2. surplus' \cap frozen = {} /\ todo' = surplus'
    BY <2>1 DEF Spendable
  <2>3. pc = "select" /\ pc' = "freeze" /\ UNCHANGED <<frozen, before, exit>>
    BY <1>1 DEF Select, wallet
  <2> QED
    BY <2>2, <2>3
<1>2. CASE TooFew
  BY <1>2 DEF TooFew, End, wallet
<1>3. CASE Freeze
  <2>1. PICK o \in todo : frozen' = frozen \cup {o} /\ todo' = todo \ {o}
    BY <1>3 DEF Freeze
  <2>2. pc = "freeze" /\ pc' = pc /\ UNCHANGED <<before, surplus, exit>>
    BY <1>3 DEF Freeze
  <2>3. todo' \subseteq surplus /\ frozen' = before \cup (surplus \ todo')
    BY <2>1, <2>2
  <2> QED
    BY <2>2, <2>3
<1>4. CASE FreezeRaises
  <2>1. PICK o \in todo : frozen' = frozen \/ frozen' = frozen \cup {o}
    BY <1>4 DEF FreezeRaises
  <2>2. /\ pc = "freeze" /\ pc' = "exit" /\ exit' = "freeze raised"
        /\ UNCHANGED <<before, surplus>>
    BY <1>4 DEF FreezeRaises, End
  <2> QED
    BY <2>1, <2>2
<1>5. CASE TooSmall
  BY <1>5 DEF TooSmall, End, wallet
<1>6. CASE Transfer
  <2>1. /\ pc = "freeze" /\ todo = {} /\ pc' = "thaw" /\ todo' = surplus
        /\ UNCHANGED <<frozen, before, surplus, exit>>
    BY <1>6 DEF Transfer, wallet
  <2> QED
    BY <2>1
<1>7. CASE TransferRaises
  <2>1. /\ pc = "freeze" /\ todo = {} /\ pc' = "thaw" /\ todo' = surplus
        /\ UNCHANGED <<frozen, before, surplus, exit>>
    BY <1>7 DEF TransferRaises, wallet
  <2> QED
    BY <2>1
<1>8. CASE Thaw
  <2>1. PICK o \in todo : frozen' = frozen \ {o} /\ todo' = todo \ {o}
    BY <1>8 DEF Thaw
  <2>2. pc = "thaw" /\ pc' = pc /\ UNCHANGED <<before, surplus, exit>>
    BY <1>8 DEF Thaw
  <2>3. todo' \subseteq surplus /\ frozen' = before \cup todo'
    BY <2>1, <2>2
  <2> QED
    BY <2>2, <2>3
<1>9. CASE ThawRaises
  <2>1. PICK o \in todo : frozen' = frozen \/ frozen' = frozen \ {o}
    BY <1>9 DEF ThawRaises
  <2>2. /\ pc = "thaw" /\ pc' = "exit" /\ exit' = "thaw raised"
        /\ UNCHANGED <<before, surplus>>
    BY <1>9 DEF ThawRaises, End
  <2> QED
    BY <2>1, <2>2
<1>10. CASE Thawed \/ ThawedRaising
  <2>1. /\ pc = "thaw" /\ todo = {}
        /\ UNCHANGED <<frozen, before, surplus, todo>>
        /\ \/ pc' = "exit" /\ exit' = "transfer raised"
           \/ pc' = "check" /\ exit' = exit
    BY <1>10 DEF Thawed, ThawedRaising, End, wallet
  <2> QED
    BY <2>1
<1>11. CASE Check
  BY <1>11 DEF Check, wallet
<1>12. CASE WrongCount
  BY <1>12 DEF WrongCount, End, wallet
<1>13. CASE Sign
  BY <1>13 DEF Sign, wallet
<1>14. CASE SignFails
  BY <1>14 DEF SignFails, End, wallet
<1>15. CASE Submit
  BY <1>15 DEF Submit
<1>16. CASE SubmitRaises
  BY <1>16 DEF SubmitRaises, End
<1>17. CASE WriteProvenance
  BY <1>17 DEF WriteProvenance, End, wallet
<1>18. CASE ReadRaises
  BY <1>18 DEF ReadRaises, End, wallet
<1>19. CASE Start
  <2>1. /\ pc' = "select" /\ surplus' = {} /\ exit' = None
        /\ before' = frozen'
    BY <1>19 DEF Start
  <2> QED
    BY <2>1
<1>20. CASE UNCHANGED vars
  BY <1>20 DEF vars, wallet
<1> QED
  BY <1>1, <1>2, <1>3, <1>4, <1>5, <1>6, <1>7, <1>8, <1>9, <1>10, <1>11, <1>12,
     <1>13, <1>14, <1>15, <1>16, <1>17, <1>18, <1>19, <1>20 DEF Next, Script

LEMMA FreezeInvariant == Spec => []FreezeInv
<1>1. Init => FreezeInv
  BY FreezeInvInit
<1>2. FreezeInv /\ [Next]_vars => FreezeInv'
  BY FreezeInvStep
<1> QED
  BY <1>1, <1>2, PTL DEF Spec

(* The script never touches a freeze of the owner, and freezes nothing but
   the surplus of its round, whichever call of it raises. *)
THEOREM FreezesKept == Spec => []OwnerFreezesKept
<1>1. FreezeInv => OwnerFreezesKept
  BY DEF FreezeInv
<1> QED
  BY <1>1, FreezeInvariant, PTL

(* Once the transfer was tried the finally clause has thawed the surplus,
   before anything but a raising thaw can end the script. *)
THEOREM ThawedOnceTried == Spec => []ThawedAfterTransfer
<1>1. FreezeInv => ThawedAfterTransfer
  BY DEF FreezeInv, AtRest, Ended, ThawedAfterTransfer
<1> QED
  BY <1>1, FreezeInvariant, PTL

-----------------------------------------------------------------------------
(* The transaction sets *)

OneSubaddress(set) == \A o, p \in set.inputs : SubOf[o] = SubOf[p]

(* The transfer may only draw on the subaddress of the kept outputs; the
   count is checked between it and the signature. *)
SetInv ==
    /\ pc \in {"select", "freeze", "thaw", "check", "sign", "submit", "exit"}
    /\ round \in Nat \ {0}
    /\ pc \in {"freeze", "thaw", "check", "sign", "submit"} => round <= Len(Counts)
    /\ DOMAIN unsigned = CountSet /\ DOMAIN signed = CountSet
    /\ \A o, p \in keep : SubOf[o] = SubOf[p]
    /\ pc = "thaw" /\ ~raised => OneSubaddress(built)
    /\ pc \in {"check", "sign", "submit"} => OneSubaddress(unsigned[Count])
    /\ pc \in {"sign", "submit"} => Cardinality(unsigned[Count].inputs) = Count
    /\ pc = "submit" => signed[Count] = unsigned[Count]
    /\ \A pair \in submitted : pair[1] \in CountSet
    /\ ExactInputs

LEMMA CountIsCount ==
    ASSUME SetInv, round <= Len(Counts)
    PROVE  Count \in CountSet /\ round \in 1 .. Len(Counts)
<1>1. Len(Counts) \in Nat /\ DOMAIN Counts = 1 .. Len(Counts)
  BY OutputAssumption, LenProperties
<1> QED
  BY <1>1 DEF SetInv, Count, CountSet, Range

LEMMA SetInvInit == Init => SetInv
BY DEF Init, SetInv, ExactInputs

LEMMA FundedOnOne ==
    ASSUME SetInv, NEW ins \in Fundings
    PROVE  \A o, p \in ins : SubOf[o] = SubOf[p]
<1>1. \A o \in ins : \E k \in keep : SubOf[k] = SubOf[o]
  BY DEF Fundings
<1> QED
  BY <1>1 DEF SetInv

(* Nothing in the set that was checked and signed is submitted but with its
   count and from one subaddress. *)
LEMMA RelayedExact ==
    ASSUME SetInv, pc = "submit",
           \/ submitted' = submitted \cup {<<Count, signed[Count]>>}
           \/ submitted' = submitted
    PROVE  ExactInputs' /\ \A pair \in submitted' : pair[1] \in CountSet
<1>1. Count \in CountSet
  BY CountIsCount DEF SetInv
<1>2. OneSubaddress(signed[Count]) /\ Cardinality(signed[Count].inputs) = Count
  BY DEF SetInv
<1> QED
  BY <1>1, <1>2 DEF SetInv, ExactInputs, OneSubaddress

LEMMA SetInvStep == SetInv /\ [Next]_vars => SetInv'
<1> SUFFICES ASSUME SetInv, [Next]_vars PROVE SetInv'
  OBVIOUS
<1>1. CASE Select
  <2>1. PICK sub : \E largest \in SUBSET Spendable(sub) : keep' = largest
    BY <1>1 DEF Select
  <2>2. \A o, p \in keep' : SubOf[o] = SubOf[p]
    BY <2>1 DEF Spendable
  <2>3. /\ pc' = "freeze" /\ round <= Len(Counts)
        /\ UNCHANGED <<round, unsigned, signed, submitted>>
    BY <1>1 DEF Select, files
  <2> QED
    BY <2>2, <2>3 DEF SetInv, ExactInputs
<1>2. CASE Transfer
  <2>1. PICK ins \in Fundings : built' = [made |-> <<runs, round>>, inputs |-> ins]
    BY <1>2 DEF Transfer
  <2>2. /\ pc = "freeze" /\ pc' = "thaw"
        /\ UNCHANGED <<round, keep, unsigned, signed, submitted>>
    BY <1>2 DEF Transfer, files
  <2>3. OneSubaddress(built)'
    BY <2>1, FundedOnOne DEF OneSubaddress
  <2> QED
    BY <2>2, <2>3 DEF SetInv, ExactInputs
<1>3. CASE Check
  <2>1. /\ pc = "check" /\ pc' = "sign" /\ Cardinality(unsigned[Count].inputs) = Count
        /\ UNCHANGED <<round, keep, unsigned, signed, submitted>>
    BY <1>3 DEF Check, files
  <2> QED
    BY <2>1 DEF SetInv, ExactInputs, Count, OneSubaddress
<1>4. CASE WrongCount
  <2>1. /\ pc' = "exit" /\ unsigned' = [unsigned EXCEPT ![Count] = None]
        /\ UNCHANGED <<round, keep, signed, submitted>>
    BY <1>4 DEF WrongCount, End
  <2> QED
    BY <2>1 DEF SetInv, ExactInputs
<1>5. CASE Sign
  <2>1. /\ pc = "sign" /\ pc' = "submit"
        /\ signed' = [signed EXCEPT ![Count] = unsigned[Count]]
        /\ UNCHANGED <<round, keep, unsigned, submitted>>
    BY <1>5 DEF Sign
  <2>2. Count \in CountSet /\ Count' = Count
    BY <2>1, CountIsCount DEF SetInv, Count
  <2> QED
    BY <2>1, <2>2 DEF SetInv, ExactInputs, OneSubaddress
<1>6. CASE Submit
  <2>1. /\ pc = "submit" /\ pc' = "select" /\ round' = round + 1
        /\ submitted' = submitted \cup {<<Count, signed[Count]>>}
        /\ UNCHANGED <<keep, unsigned, signed>>
    BY <1>6 DEF Submit, Relayed, files
  <2>2. ExactInputs' /\ \A pair \in submitted' : pair[1] \in CountSet
    BY <2>1, RelayedExact
  <2> QED
    BY <2>1, <2>2 DEF SetInv
<1>7. CASE SubmitRaises
  <2>1. /\ pc = "submit" /\ pc' = "exit"
        /\ \/ submitted' = submitted \cup {<<Count, signed[Count]>>}
           \/ submitted' = submitted
        /\ UNCHANGED <<round, keep, unsigned, signed>>
    BY <1>7 DEF SubmitRaises, Relayed, End, files
  <2>2. ExactInputs' /\ \A pair \in submitted' : pair[1] \in CountSet
    BY <2>1, RelayedExact
  <2> QED
    BY <2>1, <2>2 DEF SetInv
<1>8. CASE TransferRaises
  <2>1. /\ pc = "freeze" /\ pc' = "thaw" /\ raised' = TRUE
        /\ UNCHANGED <<round, keep, unsigned, signed, submitted>>
    BY <1>8 DEF TransferRaises, files
  <2> QED
    BY <2>1 DEF SetInv, ExactInputs
<1>9. CASE Thawed
  <2>1. /\ pc = "thaw" /\ ~raised /\ pc' = "check"
        /\ unsigned' = [unsigned EXCEPT ![Count] = built]
        /\ UNCHANGED <<round, keep, signed, submitted>>
    BY <1>9 DEF Thawed
  <2>2. Count \in CountSet /\ Count' = Count
    BY <2>1, CountIsCount DEF SetInv, Count
  <2>3. unsigned'[Count] = built /\ DOMAIN unsigned' = CountSet
    BY <2>1, <2>2 DEF SetInv
  <2> QED
    BY <2>1, <2>2, <2>3 DEF SetInv, ExactInputs, OneSubaddress
<1>10. CASE Freeze \/ Thaw
  <2>1. UNCHANGED <<pc, raised, built, round, keep, unsigned, signed, submitted>>
    BY <1>10 DEF Freeze, Thaw, files
  <2>2. Count' = Count
    BY <2>1 DEF Count
  <2> QED
    BY <2>1, <2>2 DEF SetInv, ExactInputs, OneSubaddress
<1>11. CASE \/ ReadRaises \/ TooFew \/ FreezeRaises \/ TooSmall \/ ThawRaises \/ ThawedRaising
            \/ WriteProvenance
  <2>1. pc' = "exit" /\ UNCHANGED <<round, keep, unsigned, signed, submitted>>
    BY <1>11 DEF ReadRaises, TooFew, FreezeRaises, TooSmall, ThawRaises, ThawedRaising,
                 WriteProvenance, End, files
  <2> QED
    BY <2>1 DEF SetInv, ExactInputs
<1>12. CASE SignFails
  <2>1. /\ pc' = "exit" /\ DOMAIN signed' = DOMAIN signed
        /\ UNCHANGED <<round, keep, unsigned, submitted>>
    BY <1>12 DEF SignFails, End
  <2> QED
    BY <2>1 DEF SetInv, ExactInputs
<1>13. CASE Start
  <2>1. /\ pc' = "select" /\ round' = 1 /\ keep' = {}
        /\ UNCHANGED <<unsigned, signed, submitted>>
    BY <1>13 DEF Start, files
  <2> QED
    BY <2>1 DEF SetInv, ExactInputs
<1>14. CASE UNCHANGED vars
  <2>1. UNCHANGED <<pc, raised, built, round, keep, unsigned, signed, submitted>>
    BY <1>14 DEF vars, files
  <2>2. Count' = Count
    BY <2>1 DEF Count
  <2> QED
    BY <2>1, <2>2 DEF SetInv, ExactInputs, OneSubaddress
<1> QED
  BY <1>1, <1>2, <1>3, <1>4, <1>5, <1>6, <1>7, <1>8, <1>9, <1>10, <1>11, <1>12,
     <1>13, <1>14 DEF Next, Script

LEMMA SetInvariant == Spec => []SetInv
<1>1. Init => SetInv
  BY SetInvInit
<1>2. SetInv /\ [Next]_vars => SetInv'
  BY SetInvStep
<1> QED
  BY <1>1, <1>2, PTL DEF Spec

(* What goes out as an n-input transaction has n inputs, all of one
   subaddress, whatever the wallet would rather have funded it with. *)
THEOREM InputCountsExact == Spec => []ExactInputs
<1>1. SetInv => ExactInputs
  BY DEF SetInv
<1> QED
  BY <1>1, SetInvariant, PTL

-----------------------------------------------------------------------------
(* The provenance *)

(* No round of this run so far came back to the count of round i, and so
   none has touched its two files. *)
Latest(i) == \A j \in DOMAIN Counts : i < j /\ j <= round => Counts[j] # Counts[i]

(* The rows of this run: one for each round before this one, of a transaction
   that was submitted, and whose fixtures are there if no later round has had
   the same count. *)
RowsTrue ==
    /\ prov \in Seq(submitted)
    /\ Len(prov) = round - 1
    /\ \A i \in 1 .. Len(prov) :
          /\ i \in DOMAIN Counts
          /\ prov[i][1] = Counts[i]
          /\ Latest(i) => unsigned[Counts[i]] = prov[i][2] /\ signed[Counts[i]] = prov[i][2]

(* The file: what was there when the run began, and after it the run's rows
   when it is through. *)
FileTrue ==
    /\ provenance \in Seq(submitted)
    /\ pc # "exit" => exit = None /\ noted = Len(provenance)
    /\ exit = "done" =>
          /\ round = Len(Counts) + 1
          /\ noted \in Nat
          /\ Len(provenance) = noted + Len(prov)
          /\ \A i \in 1 .. Len(prov) : provenance[noted + i] = prov[i]

NoteInv == SetInv /\ RowsTrue /\ FileTrue

(* The fixtures that earlier rows still describe are not those of this
   round's count. *)
LEMMA EarlierCounts ==
    ASSUME SetInv, RowsTrue, round <= Len(Counts)
    PROVE  \A i \in 1 .. Len(prov) :
              Latest(i) => Counts[i] # Count /\ Counts[i] \in CountSet
<1>1. DOMAIN Counts = 1 .. Len(Counts)
  BY OutputAssumption, LenProperties
<1>2. round \in Nat \ {0}
  BY DEF SetInv
<1>3. round \in DOMAIN Counts
  BY <1>1, <1>2, CountIsCount
<1>4. \A i \in 1 .. Len(prov) : i < round /\ i \in DOMAIN Counts
  BY <1>2 DEF RowsTrue
<1> QED
  BY <1>1, <1>2, <1>3, <1>4 DEF Latest, Count, CountSet, Range

(* A step that leaves the rows, their transactions and the fixtures they
   still describe alone. *)
LEMMA RowsKept ==
    ASSUME RowsTrue, prov' = prov, round' = round, submitted \subseteq submitted',
           \A i \in 1 .. Len(prov) : Latest(i) =>
               unsigned'[Counts[i]] = unsigned[Counts[i]] /\ signed'[Counts[i]] = signed[Counts[i]]
    PROVE  RowsTrue'
<1>1. prov' \in Seq(submitted')
  BY SeqMonotonic DEF RowsTrue
<1>2. \A i : Latest(i)' = Latest(i)
  BY DEF Latest
<1> QED
  BY <1>1, <1>2 DEF RowsTrue

(* A step that leaves PROVENANCE.md alone. *)
LEMMA FileKept ==
    ASSUME FileTrue, UNCHANGED <<provenance, noted>>, submitted \subseteq submitted',
           pc # "exit", pc' # "exit" => exit' = exit, exit' # "done"
    PROVE  FileTrue'
<1>1. provenance' \in Seq(submitted')
  BY SeqMonotonic DEF FileTrue
<1> QED
  BY <1>1 DEF FileTrue

LEMMA NoteInvInit == Init => NoteInv
<1> SUFFICES ASSUME Init PROVE NoteInv
  OBVIOUS
<1>1. /\ prov = <<>> /\ Len(prov) = 0 /\ round = 1
      /\ provenance = <<>> /\ Len(provenance) = 0 /\ noted = 0
  BY DEF Init
<1>2. prov \in Seq(submitted) /\ provenance \in Seq(submitted)
  BY <1>1, EmptySeq
<1>3. SetInv
  BY SetInvInit
<1>4. exit = None /\ None # "done"
  BY NoneAssumption DEF Init, ThawedEnds
<1> QED
  BY <1>1, <1>2, <1>3, <1>4 DEF NoteInv, RowsTrue, FileTrue

LEMMA NoteInvStep == NoteInv /\ [Next]_vars => NoteInv'
<1> SUFFICES ASSUME NoteInv, [Next]_vars PROVE NoteInv'
  OBVIOUS
<1>1. SetInv /\ SetInv' /\ RowsTrue /\ FileTrue
  BY SetInvStep DEF NoteInv
<1>0. exit = None => exit # "done"
  BY NoneAssumption DEF ThawedEnds
<1>2. CASE Thawed \/ WrongCount \/ Sign \/ SignFails
  <2>1. /\ pc \in {"thaw", "check", "sign"}
        /\ UNCHANGED <<noted, round, prov, provenance, submitted>>
        /\ exit' = exit \/ exit' \in {"wrong count", "sign failed"}
        /\ pc' # "exit" => exit' = exit
    BY <1>2 DEF Thawed, WrongCount, Sign, SignFails, End, run
  <2>2. \A n \in CountSet \ {Count} : unsigned'[n] = unsigned[n] /\ signed'[n] = signed[n]
    <3>1. /\ unsigned' = unsigned \/ \E set : unsigned' = [unsigned EXCEPT ![Count] = set]
          /\ signed' = signed \/ \E set : signed' = [signed EXCEPT ![Count] = set]
      BY <1>2 DEF Thawed, WrongCount, Sign, SignFails
    <3> QED
      BY <1>1, <3>1 DEF SetInv
  <2>3. round <= Len(Counts)
    BY <1>1, <2>1 DEF SetInv
  <2>4. RowsTrue'
    BY <1>1, <2>1, <2>2, <2>3, EarlierCounts, RowsKept
  <2>5. exit' # "done"
    BY <1>1, <1>0, <2>1 DEF FileTrue
  <2>6. FileTrue'
    BY <1>1, <2>1, <2>5, FileKept
  <2> QED
    BY <1>1, <2>4, <2>6 DEF NoteInv
<1>4. CASE Submit
  <2>1. PICK row : row = <<Count, signed[Count]>>
    OBVIOUS
  <2>2. /\ pc = "submit" /\ pc' = "select" /\ round' = round + 1
        /\ submitted' = submitted \cup {row}
        /\ prov' = Append(prov, row)
        /\ UNCHANGED <<unsigned, signed, provenance, noted, exit>>
    BY <1>4, <2>1 DEF Submit, Relayed, files, run
  <2>3. round \in Nat \ {0} /\ round <= Len(Counts) /\ signed[Count] = unsigned[Count]
    BY <1>1, <2>2 DEF SetInv
  <2>4. round \in DOMAIN Counts
    <3>1. DOMAIN Counts = 1 .. Len(Counts)
      BY OutputAssumption, LenProperties
    <3> QED
      BY <1>1, <2>3, <3>1, CountIsCount
  <2>5. prov \in Seq(submitted') /\ row \in submitted'
    BY <1>1, <2>2, SeqMonotonic DEF RowsTrue
  <2>6. /\ prov' \in Seq(submitted')
        /\ Len(prov') = Len(prov) + 1
        /\ \A i \in 1 .. Len(prov) : prov'[i] = prov[i]
        /\ prov'[Len(prov) + 1] = row
    BY <2>2, <2>5, AppendProperties
  <2>7. Len(prov) + 1 = round /\ Len(prov') = round
    BY <1>1, <2>3, <2>6 DEF RowsTrue
  <2>8. row[1] = Counts[round] /\ unsigned[Counts[round]] = row[2] /\ signed[Counts[round]] = row[2]
    BY <2>1, <2>3 DEF Count
  <2>9. ASSUME NEW i \in 1 .. Len(prov')
        PROVE  /\ i \in DOMAIN Counts
               /\ prov'[i][1] = Counts[i]
               /\ Latest(i)' => unsigned[Counts[i]] = prov'[i][2] /\ signed[Counts[i]] = prov'[i][2]
    <3>1. CASE i = round
      BY <2>4, <2>6, <2>7, <2>8, <3>1
    <3>2. CASE i # round
      <4>1. i \in 1 .. Len(prov)
        BY <2>3, <2>7, <3>2
      <4>2. Latest(i)' => Latest(i)
        <5>1. \A j \in DOMAIN Counts : j \in Nat
          BY OutputAssumption, LenProperties
        <5> QED
          BY <2>2, <2>3, <5>1 DEF Latest
      <4> QED
        BY <1>1, <2>6, <4>1, <4>2 DEF RowsTrue
    <3> QED
      BY <3>1, <3>2
  <2>10. RowsTrue'
    BY <2>2, <2>3, <2>6, <2>7, <2>9 DEF RowsTrue
  <2>11. exit' # "done"
    BY <1>1, <1>0, <2>2 DEF FileTrue
  <2>12. FileTrue'
    BY <1>1, <2>2, <2>11, FileKept
  <2> QED
    BY <1>1, <2>10, <2>12 DEF NoteInv
<1>5. CASE SubmitRaises
  <2>1. /\ pc = "submit" /\ pc' = "exit" /\ exit' = "submit raised"
        /\ submitted \subseteq submitted'
        /\ UNCHANGED <<round, prov, unsigned, signed, provenance, noted>>
    BY <1>5 DEF SubmitRaises, Relayed, End, files, run
  <2>2. RowsTrue'
    BY <1>1, <2>1, RowsKept
  <2>3. FileTrue'
    BY <1>1, <2>1, FileKept
  <2> QED
    BY <1>1, <2>2, <2>3 DEF NoteInv
<1>6. CASE WriteProvenance
  <2>1. /\ pc = "select" /\ pc' = "exit" /\ provenance' = provenance \o prov
        /\ round > Len(Counts)
        /\ UNCHANGED <<round, prov, unsigned, signed, submitted, noted>>
    BY <1>6 DEF WriteProvenance, End, run
  <2>2. RowsTrue'
    BY <1>1, <2>1, RowsKept
  <2>3. /\ provenance' \in Seq(submitted)
        /\ Len(provenance') = Len(provenance) + Len(prov)
        /\ \A i \in 1 .. Len(prov) : provenance'[Len(provenance) + i] = prov[i]
    <3>1. /\ Len(provenance') = Len(provenance) + Len(prov)
          /\ \A i \in 1 .. Len(provenance) + Len(prov) :
                provenance'[i] = IF i <= Len(provenance) THEN provenance[i]
                                                         ELSE prov[i - Len(provenance)]
      BY <1>1, <2>1, ConcatProperties DEF FileTrue, RowsTrue
    <3>2. Len(provenance) \in Nat /\ Len(prov) \in Nat
      BY <1>1, LenProperties DEF FileTrue, RowsTrue
    <3>3. provenance' \in Seq(submitted)
      BY <1>1, <2>1, ConcatProperties DEF FileTrue, RowsTrue
    <3>4. ASSUME NEW i \in 1 .. Len(prov)
          PROVE  provenance'[Len(provenance) + i] = prov[i]
      <4>1. /\ Len(provenance) + i \in 1 .. Len(provenance) + Len(prov)
            /\ ~(Len(provenance) + i <= Len(provenance))
            /\ (Len(provenance) + i) - Len(provenance) = i
        BY <3>2
      <4> QED
        BY <3>1, <4>1
    <3> QED
      BY <3>1, <3>3, <3>4
  <2>4. round = Len(Counts) + 1
    <3>1. DOMAIN Counts = 1 .. Len(Counts) /\ Len(Counts) \in Nat
      BY OutputAssumption, LenProperties
    <3>2. round \in Nat \ {0} /\ Len(prov) = round - 1
      BY <1>1 DEF SetInv, RowsTrue
    <3>3. Len(prov) > 0 => Len(prov) \in DOMAIN Counts
      BY <1>1, <3>2 DEF RowsTrue
    <3> QED
      BY <2>1, <3>1, <3>2, <3>3
  <2>5. noted' = Len(provenance) /\ noted' \in Nat
    BY <1>1, <2>1, LenProperties DEF FileTrue
  <2>6. FileTrue'
    BY <2>1, <2>3, <2>4, <2>5 DEF FileTrue
  <2> QED
    BY <1>1, <2>2, <2>6 DEF NoteInv
<1>7. CASE \/ Select \/ ReadRaises \/ TooFew \/ Freeze \/ FreezeRaises \/ TooSmall
           \/ Transfer \/ TransferRaises \/ Thaw \/ ThawRaises \/ ThawedRaising \/ Check
  <2>1. /\ pc # "exit"
        /\ UNCHANGED <<round, prov, unsigned, signed, provenance, submitted, noted>>
        /\ \/ exit' = exit
           \/ /\ pc' = "exit"
              /\ exit' \in {"read raised", "too few outputs", "freeze raised", "too small",
                            "thaw raised", "transfer raised"}
    BY <1>1, <1>7 DEF SetInv, Select, ReadRaises, TooFew, Freeze, FreezeRaises, TooSmall,
          Transfer, TransferRaises, Thaw, ThawRaises, ThawedRaising, Check, End, files, run
  <2>2. RowsTrue'
    BY <1>1, <2>1, RowsKept
  <2>3. exit' # "done" /\ (pc' # "exit" => exit' = exit)
    BY <1>1, <1>0, <2>1 DEF FileTrue
  <2>4. FileTrue'
    BY <1>1, <2>1, <2>3, FileKept
  <2> QED
    BY <1>1, <2>2, <2>4 DEF NoteInv
<1>8. CASE Start
  <2>1. /\ pc' = "select" /\ round' = 1 /\ prov' = <<>> /\ exit' = None
        /\ noted' = Len(provenance)
        /\ UNCHANGED <<provenance, submitted>>
    BY <1>8 DEF Start, files
  <2>2. RowsTrue'
    <3>1. prov' \in Seq(submitted') /\ Len(prov') = 0
      BY <2>1, EmptySeq
    <3> QED
      BY <2>1, <3>1 DEF RowsTrue
  <2>3. exit' # "done"
    BY <2>1, NoneAssumption DEF ThawedEnds
  <2>4. FileTrue'
    BY <1>1, <2>1, <2>3 DEF FileTrue
  <2> QED
    BY <1>1, <2>2, <2>4 DEF NoteInv
<1>9. CASE UNCHANGED vars
  <2>1. UNCHANGED <<pc, exit, round, prov, unsigned, signed, provenance, submitted, noted>>
    BY <1>9 DEF vars, files, run
  <2>2. RowsTrue'
    BY <1>1, <2>1, RowsKept
  <2>3. FileTrue'
    BY <1>1, <2>1 DEF FileTrue
  <2> QED
    BY <1>1, <2>2, <2>3 DEF NoteInv
<1> QED
  BY <1>2, <1>4, <1>5, <1>6, <1>7, <1>8, <1>9 DEF Next, Script

(* Over any number of runs under one label, with any counts, repeated ones
   too: every row stands for a transaction the network got, and a run that is
   through has noted all its rounds and leaves the two fixtures of each count
   described by the last row there is for it. *)
THEOREM RowsDescribeFixtures == Spec => []ProvenanceTrue
<1>1. Init => NoteInv
  BY NoteInvInit
<1>2. NoteInv /\ [Next]_vars => NoteInv'
  BY NoteInvStep
<1>3. NoteInv => ProvenanceTrue
  <2> SUFFICES ASSUME NoteInv PROVE ProvenanceTrue
    OBVIOUS
  <2>1. /\ \A row \in DOMAIN provenance : provenance[row] \in submitted
        /\ DOMAIN provenance = 1 .. Len(provenance)
    BY ElementOfSeq, LenProperties DEF NoteInv, FileTrue
  <2>2. ASSUME exit = "done"
        PROVE  /\ Len(provenance) = noted + Len(Counts)
               /\ \A i \in DOMAIN Counts : provenance[noted + i][1] = Counts[i]
               /\ \A row \in DOMAIN provenance :
                     LastRow(row) =>
                        LET n == provenance[row][1]
                        IN  unsigned[n] = provenance[row][2] /\ signed[n] = provenance[row][2]
    <3>1. DOMAIN Counts = 1 .. Len(Counts) /\ Len(Counts) \in Nat
      BY OutputAssumption, LenProperties
    <3>2. /\ round = Len(Counts) + 1 /\ noted \in Nat
          /\ Len(provenance) = noted + Len(Counts)
          /\ Len(prov) = Len(Counts)
      BY <2>2, <3>1 DEF NoteInv, FileTrue, RowsTrue
    <3>3. \A i \in DOMAIN Counts :
             /\ provenance[noted + i] = prov[i]
             /\ prov[i][1] = Counts[i]
             /\ Latest(i) => unsigned[Counts[i]] = prov[i][2] /\ signed[Counts[i]] = prov[i][2]
      BY <2>2, <3>1, <3>2 DEF NoteInv, FileTrue, RowsTrue
    <3>4. ASSUME NEW row \in DOMAIN provenance, LastRow(row)
          PROVE  /\ unsigned[provenance[row][1]] = provenance[row][2]
                 /\ signed[provenance[row][1]] = provenance[row][2]
      <4>1. row \in Nat /\ row >= 1 /\ row <= noted + Len(Counts)
        BY <2>1, <3>1, <3>2
      <4>2. CASE row <= noted
        <5>1. provenance[row][1] \in CountSet
          BY <2>1 DEF NoteInv, SetInv
        <5>2. PICK i \in DOMAIN Counts : Counts[i] = provenance[row][1]
          BY <5>1 DEF CountSet, Range
        <5>3. noted + i \in DOMAIN provenance /\ noted + i > row
          BY <2>1, <3>1, <3>2, <4>1, <4>2
        <5>4. provenance[noted + i][1] = provenance[row][1]
          BY <3>3, <5>2
        <5> QED
          BY <3>4, <5>3, <5>4 DEF LastRow
      <4>3. CASE row > noted
        <5>1. PICK i \in DOMAIN Counts : row = noted + i
          <6>1. row - noted \in DOMAIN Counts /\ row = noted + (row - noted)
            BY <3>1, <3>2, <4>1, <4>3
          <6> QED
            BY <6>1
        <5>2. Latest(i)
          <6> SUFFICES ASSUME NEW j \in DOMAIN Counts, i < j
                       PROVE  Counts[j] # Counts[i]
            BY DEF Latest
          <6>1. noted + j \in DOMAIN provenance /\ noted + j > row
            BY <2>1, <3>1, <3>2, <5>1
          <6>2. provenance[noted + j][1] # provenance[row][1]
            BY <3>4, <6>1 DEF LastRow
          <6>3. provenance[noted + j][1] = Counts[j] /\ provenance[row][1] = Counts[i]
            BY <3>3, <5>1
          <6> QED
            BY <6>2, <6>3
        <5> QED
          BY <3>3, <5>1, <5>2
      <4> QED
        BY <3>2, <4>1, <4>2, <4>3
    <3> QED
      BY <3>2, <3>3, <3>4
  <2> QED
    BY <2>1, <2>2 DEF ProvenanceTrue
<1> QED
  BY <1>1, <1>2, <1>3, PTL DEF Spec
=============================================================================

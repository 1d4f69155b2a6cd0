---------------------------- MODULE SnapshotTxs ----------------------------
(***************************************************************************)
(* scripts/snapshot_txs.py: for each requested input count n, freeze all   *)
(* but n outputs of one subaddress of the view-only wallet, have the       *)
(* wallet build a transaction that can only be funded by those n, thaw,    *)
(* check, sign, submit, and in the end note the provenance of everything.  *)
(* The script may be run again under the same label, over the files of the *)
(* earlier runs.                                                           *)
(*                                                                         *)
(* The wallet behind monero-wallet-rpc is external.  A call to it can      *)
(* raise, when it answers with an error or not within the timeout; a call  *)
(* that raised may have taken effect.  A raise that nothing catches ends   *)
(* the script.  A transaction set is a record [made, inputs]; made, the    *)
(* run and the round, tells apart sets that spend the same outputs.        *)
(***************************************************************************)
EXTENDS Naturals, Sequences, FiniteSets, Functions

CONSTANTS
    Output,     \* the outputs of account 0 that are unspent to begin with
    SubOf,      \* the subaddress each was received on
    AmountOf,
    Mature,     \* unlocked and ten blocks deep
    Counts,     \* the --counts of the command line
    FeeReserve, \* what the amount leaves for the fee, 0.0003 XMR
    Fee,        \* what the wallet asks for
    Faults,     \* the calls that may raise, the programs that may fail
    MaxRuns,    \* bound on the runs under the label
    None

ASSUME OutputAssumption ==
    /\ IsFiniteSet(Output)
    /\ Mature \subseteq Output
    /\ AmountOf \in [Output -> Nat]
    /\ Fee \in Nat /\ FeeReserve \in Nat
    /\ Counts \in Seq(Nat \ {0})

(* Why the script can end with the surplus thawed, and with it frozen. *)
ThawedEnds ==
    {"read raised", "too few outputs", "transfer raised", "wrong count",
     "sign failed", "submit raised", "done"}

FrozenEnds == {"freeze raised", "too small", "thaw raised"}

ASSUME NoneAssumption == None \notin ThawedEnds \cup FrozenEnds

VARIABLES
    \* the wallet
    frozen, spent,
    before,     \* what was frozen when the script was started
    \* the script
    runs,       \* how often it was started
    pc, round,
    keep,       \* the outputs the transaction is to spend
    surplus,    \* the others on their subaddress
    todo,       \* those of them yet to be frozen, or thawed
    built,      \* the set the wallet returned
    raised,     \* the exception the finally clause runs under
    prov,       \* the rows of this run
    noted,      \* how many rows PROVENANCE.md had when it was started
    exit,       \* why the script ended
    \* fixtures/<label>/; None where there is no usable file
    unsigned, signed, provenance,
    submitted   \* the <<count, set>> the network got

wallet == <<frozen, spent, before>>
files == <<unsigned, signed, provenance>>
run == <<runs, noted>>
vars == <<wallet, run, pc, round, keep, surplus, todo, built, raised, prov, exit, files, submitted>>

Count == Counts[round]

CountSet == Range(Counts)

Total(outs) == SumFunction([o \in outs |-> AmountOf[o]])

End(why) ==
    /\ pc' = "exit"
    /\ exit' = why

-----------------------------------------------------------------------------

Init ==
    /\ frozen \in SUBSET Output
    /\ spent = {}
    /\ before = frozen
    /\ runs = 1 /\ noted = 0
    /\ pc = "select" /\ round = 1
    /\ keep = {} /\ surplus = {} /\ todo = {}
    /\ built = None /\ raised = FALSE
    /\ prov = <<>> /\ exit = None
    /\ unsigned = [n \in CountSet |-> None]
    /\ signed = [n \in CountSet |-> None]
    /\ provenance = <<>>
    /\ submitted = {}

(* The script is run again; the owner may have thawed what it left frozen. *)
Start ==
    /\ pc = "exit" /\ runs < MaxRuns
    /\ runs' = runs + 1
    /\ frozen' \in {frozen, frozen \cap before} /\ before' = frozen'
    /\ pc' = "select" /\ round' = 1
    /\ keep' = {} /\ surplus' = {} /\ todo' = {}
    /\ built' = None /\ raised' = FALSE
    /\ prov' = <<>> /\ exit' = None
    /\ noted' = Len(provenance)
    /\ UNCHANGED <<spent, files, submitted>>

(* refresh, get_height or incoming_transfers raises. *)
ReadRaises ==
    /\ pc = "select" /\ round <= Len(Counts) /\ "read" \in Faults
    /\ End("read raised")
    /\ UNCHANGED <<wallet, run, round, keep, surplus, todo, built, raised, prov, files, submitted>>

(* Mutant: frozen outputs are taken into account. *)
SpendableFrozenToo(sub) == {o \in Mature \ spent : SubOf[o] = sub}

Spendable(sub) == {o \in Mature \ (spent \cup frozen) : SubOf[o] = sub}

Eligible == {sub \in Range(SubOf) : Cardinality(Spendable(sub)) >= Count}

(* The subaddress with the least surplus; its n largest outputs are kept. *)
Select ==
    /\ pc = "select" /\ round <= Len(Counts)
    /\ \E sub \in Eligible :
          /\ \A other \in Eligible : Cardinality(Spendable(sub)) <= Cardinality(Spendable(other))
          /\ \E largest \in SUBSET Spendable(sub) :
                /\ Cardinality(largest) = Count
                /\ \A o \in largest, p \in Spendable(sub) \ largest : AmountOf[o] >= AmountOf[p]
                /\ keep' = largest
                /\ surplus' = Spendable(sub) \ largest
                /\ todo' = surplus'
    /\ pc' = "freeze"
    /\ UNCHANGED <<wallet, run, round, built, raised, prov, exit, files, submitted>>

TooFew ==
    /\ pc = "select" /\ round <= Len(Counts)
    /\ Eligible = {}
    /\ End("too few outputs")
    /\ UNCHANGED <<wallet, run, round, keep, surplus, todo, built, raised, prov, files, submitted>>

Freeze ==
    /\ pc = "freeze"
    /\ \E o \in todo : frozen' = frozen \cup {o} /\ todo' = todo \ {o}
    /\ UNCHANGED <<spent, before, run, pc, round, keep, surplus, built, raised, prov, exit, files, submitted>>

FreezeRaises ==
    /\ pc = "freeze" /\ "freeze" \in Faults
    /\ \E o \in todo : frozen' \in {frozen, frozen \cup {o}}
    /\ End("freeze raised")
    /\ UNCHANGED <<spent, before, run, round, keep, surplus, todo, built, raised, prov, files, submitted>>

(* The kept outputs do not cover the reserve: sys.exit, before the try. *)
TooSmall ==
    /\ pc = "freeze" /\ todo = {}
    /\ Total(keep) <= FeeReserve
    /\ End("too small")
    /\ UNCHANGED <<wallet, run, round, keep, surplus, todo, built, raised, prov, files, submitted>>

(* The wallet funds the amount and its fee with any of the subaddress's
   outputs that it may spend. *)
Fundings ==
    {ins \in SUBSET {o \in Mature \ (spent \cup frozen) : \E k \in keep : SubOf[k] = SubOf[o]} :
        Total(ins) >= Total(keep) - FeeReserve + Fee}

Transfer ==
    /\ pc = "freeze" /\ todo = {}
    /\ Total(keep) > FeeReserve
    /\ \E ins \in Fundings : built' = [made |-> <<runs, round>>, inputs |-> ins]
    /\ pc' = "thaw"
    /\ todo' = surplus
    /\ UNCHANGED <<wallet, run, round, keep, surplus, raised, prov, exit, files, submitted>>

(* Mutant: the outputs are thawed only when the transfer was built. *)
TransferRaisesNoFinally ==
    /\ pc = "freeze" /\ todo = {}
    /\ Total(keep) > FeeReserve
    /\ Fundings = {} \/ "transfer" \in Faults
    /\ End("transfer raised")
    /\ UNCHANGED <<wallet, run, round, keep, surplus, todo, built, raised, prov, files, submitted>>

TransferRaises ==
    /\ pc = "freeze" /\ todo = {}
    /\ Total(keep) > FeeReserve
    /\ Fundings = {} \/ "transfer" \in Faults
    /\ raised' = TRUE
    /\ pc' = "thaw"
    /\ todo' = surplus
    /\ UNCHANGED <<wallet, run, round, keep, surplus, built, prov, exit, files, submitted>>

Thaw ==
    /\ pc = "thaw"
    /\ \E o \in todo : frozen' = frozen \ {o} /\ todo' = todo \ {o}
    /\ UNCHANGED <<spent, before, run, pc, round, keep, surplus, built, raised, prov, exit, files, submitted>>

ThawRaises ==
    /\ pc = "thaw" /\ "thaw" \in Faults
    /\ \E o \in todo : frozen' \in {frozen, frozen \ {o}}
    /\ End("thaw raised")
    /\ UNCHANGED <<spent, before, run, round, keep, surplus, todo, built, raised, prov, files, submitted>>

(* The finally clause is through: on with the exception, or the set the
   wallet returned is written. *)
Thawed ==
    /\ pc = "thaw" /\ todo = {} /\ ~raised
    /\ unsigned' = [unsigned EXCEPT ![Count] = built]
    /\ pc' = "check"
    /\ UNCHANGED <<wallet, run, round, keep, surplus, todo, built, raised, prov, exit, signed, provenance, submitted>>

ThawedRaising ==
    /\ pc = "thaw" /\ todo = {} /\ raised
    /\ End("transfer raised")
    /\ UNCHANGED <<wallet, run, round, keep, surplus, todo, built, raised, prov, files, submitted>>

(* Mutant: the set is not counted. *)
CheckNothing ==
    /\ pc = "check"
    /\ pc' = "sign"
    /\ UNCHANGED <<wallet, run, round, keep, surplus, todo, built, raised, prov, exit, files, submitted>>

(* `xmr-signer show` counts the inputs of the set. *)
Check ==
    /\ pc = "check"
    /\ Cardinality(unsigned[Count].inputs) = Count
    /\ pc' = "sign"
    /\ UNCHANGED <<wallet, run, round, keep, surplus, todo, built, raised, prov, exit, files, submitted>>

(* Mutant: the count is tried again. *)
WrongCountRetries ==
    /\ pc = "check"
    /\ Cardinality(unsigned[Count].inputs) # Count \/ "show" \in Faults
    /\ unsigned' = [unsigned EXCEPT ![Count] = None]
    /\ pc' = "select"
    /\ UNCHANGED <<wallet, run, round, keep, surplus, todo, built, raised, prov, exit, signed, provenance, submitted>>

(* Another count, or none because show failed. *)
WrongCount ==
    /\ pc = "check"
    /\ Cardinality(unsigned[Count].inputs) # Count \/ "show" \in Faults
    /\ unsigned' = [unsigned EXCEPT ![Count] = None]
    /\ End("wrong count")
    /\ UNCHANGED <<wallet, run, round, keep, surplus, todo, built, raised, prov, signed, provenance, submitted>>

Sign ==
    /\ pc = "sign"
    /\ signed' = [signed EXCEPT ![Count] = unsigned[Count]]
    /\ pc' = "submit"
    /\ UNCHANGED <<wallet, run, round, keep, surplus, todo, built, raised, prov, exit, unsigned, provenance, submitted>>

SignFails ==
    /\ pc = "sign" /\ "sign" \in Faults
    /\ signed' \in {signed, [signed EXCEPT ![Count] = None]}
    /\ End("sign failed")
    /\ UNCHANGED <<wallet, run, round, keep, surplus, todo, built, raised, prov, unsigned, provenance, submitted>>

Relayed ==
    /\ spent' = spent \cup signed[Count].inputs
    /\ submitted' = submitted \cup {<<Count, signed[Count]>>}

Submit ==
    /\ pc = "submit"
    /\ Relayed
    /\ prov' = Append(prov, <<Count, signed[Count]>>)
    /\ round' = round + 1
    /\ pc' = "select"
    /\ UNCHANGED <<frozen, before, run, keep, surplus, todo, built, raised, exit, files>>

(* submit_transfer raises, or the get_height after it. *)
SubmitRaises ==
    /\ pc = "submit" /\ "submit" \in Faults
    /\ Relayed \/ UNCHANGED <<spent, submitted>>
    /\ End("submit raised")
    /\ UNCHANGED <<frozen, before, run, round, keep, surplus, todo, built, raised, prov, files>>

(* Mutant: the file is opened for writing. *)
WriteProvenanceAfresh ==
    /\ pc = "select" /\ round > Len(Counts)
    /\ provenance' = prov
    /\ End("done")
    /\ UNCHANGED <<wallet, run, round, keep, surplus, todo, built, raised, prov, unsigned, signed, submitted>>

(* After the last count: the rows are appended to PROVENANCE.md. *)
WriteProvenance ==
    /\ pc = "select" /\ round > Len(Counts)
    /\ provenance' = provenance \o prov
    /\ End("done")
    /\ UNCHANGED <<wallet, run, round, keep, surplus, todo, built, raised, prov, unsigned, signed, submitted>>

Script ==
    \/ ReadRaises \/ Select \/ TooFew
    \/ Freeze \/ FreezeRaises \/ TooSmall
    \/ Transfer \/ TransferRaises
    \/ Thaw \/ ThawRaises \/ Thawed \/ ThawedRaising
    \/ Check \/ WrongCount
    \/ Sign \/ SignFails
    \/ Submit \/ SubmitRaises
    \/ WriteProvenance

Next == Script \/ Start

Spec == Init /\ [][Next]_vars

(* One process; every call answers or times out.  Nobody has to run it
   again. *)
FairSpec == Spec /\ WF_vars(Script)

-----------------------------------------------------------------------------
(* Properties *)

(* What is frozen during the run and was not before is the surplus of the
   round; what the owner had frozen stays frozen, whatever raises. *)
OwnerFreezesKept == before \subseteq frozen /\ frozen \subseteq before \cup surplus

(* The finally clause: once the transfer was tried, the surplus is thawed,
   whether it was built or raised, before anything can end the script. *)
ThawedAfterTransfer ==
    \/ pc \in {"select", "check", "sign", "submit"}
    \/ exit \in ThawedEnds
    => frozen = before

(* "Exact input counts": what is signed and submitted as an n-input
   transaction spends exactly n outputs, all kept on one subaddress, though
   the wallet may well fund the amount with fewer. *)
ExactInputs ==
    \A pair \in submitted :
        /\ Cardinality(pair[2].inputs) = pair[1]
        /\ \A o, p \in pair[2].inputs : SubOf[o] = SubOf[p]

(* No later row is about the same count. *)
LastRow(row) ==
    \A later \in DOMAIN provenance : later > row => provenance[later][1] # provenance[row][1]

(* A row of PROVENANCE.md, of this run or an earlier one, stands for a
   transaction that was submitted.  A run that is through has added one row
   for each count, in order, to the rows there were, and the last row of each
   count describes the two fixtures that are there, though the run replaced
   those of earlier runs, or of an earlier round with the same count. *)
ProvenanceTrue ==
    /\ \A row \in DOMAIN provenance : provenance[row] \in submitted
    /\ exit = "done" =>
          /\ Len(provenance) = noted + Len(Counts)
          /\ \A i \in DOMAIN Counts : provenance[noted + i][1] = Counts[i]
          /\ \A row \in DOMAIN provenance :
                LastRow(row) =>
                   LET n == provenance[row][1]
                   IN  unsigned[n] = provenance[row][2] /\ signed[n] = provenance[row][2]

(* Every run comes to an end. *)
Terminates == pc # "exit" ~> pc = "exit"
=============================================================================

---------------------------- MODULE Scripts_proofs ----------------------------
(***************************************************************************)
(* The scripts that write to disk and to a card: snapshot_outputs.py, and  *)
(* the first run of the benchmark card.                                    *)
(*                                                                         *)
(* NoteTrue and ImportedInTime, for any number of outputs, runs and        *)
(* faults: from where the export is written the script's own copy and the  *)
(* file agree; from where the signer has written its reply that agrees     *)
(* too; nothing but the script writes them.  The wallet file passes from   *)
(* the old server to the command line wallet to the new server:            *)
(* HandedOver says who can have it where the script is.                    *)
(*                                                                         *)
(* SetUpWhenUp and ResultIsOfThisPreparation, for any number of            *)
(* preparations and cuts: before the hook is disarmed any cut leads to     *)
(* another first run, which writes everything again; between the disarming *)
(* and the sync a cut is one of the exceptions; after the sync everything  *)
(* is on the card and no later step takes any of it away.                  *)
(***************************************************************************)
EXTENDS SnapshotOutputs, FirstRun, TLAPS

-----------------------------------------------------------------------------
(* snapshot_outputs.py *)

Notes == Seq([count : Nat, outputs : Nat, keyimages : Nat])

Exported == {"sign", "write reply"}

HasReply == {"stop", "sleep", "import", "start", "poll", "balance", "note"}

Answered == {"read"} \cup HasReply

(* What the script has in hand where it is. *)
InHand ==
    /\ received \in Nat /\ count \in Nat
    /\ provenance \in Notes
    /\ pc \in {"count", "export", "end", "done"} \cup Exported \cup Answered
    /\ pc = "export" => count <= received
    /\ pc \in Exported \cup Answered => blob \in Nat /\ outputs = blob /\ count <= blob
    /\ pc \in Answered => keyimages = outputs
    /\ pc \in HasReply => kblob = keyimages

IInv == InHand /\ NoteTrue

LEMMA InHandInit == Init => IInv
BY DEF Init, IInv, InHand, NoteTrue, Notes, Exported, Answered, HasReply

(* The last of a sequence that an element was appended to. *)
LEMMA LastAppended ==
    ASSUME NEW S, NEW s \in Seq(S), NEW x \in S
    PROVE  Append(s, x) \in Seq(S) /\ Last(Append(s, x)) = x
<1>1. Append(s, x) \in Seq(S) /\ Len(Append(s, x)) = Len(s) + 1
  OBVIOUS
<1>2. Append(s, x)[Len(s) + 1] = x
  OBVIOUS
<1> QED
  BY <1>1, <1>2 DEF Last

LEMMA InHandStep == IInv /\ [Next]_vars => IInv'
<1> SUFFICES ASSUME IInv, [Next]_vars PROVE IInv'
  OBVIOUS
<1>a. received + 1 \in Nat /\ \A n \in Nat : n <= received => n <= received + 1
  <2>1. received \in Nat
    BY DEF IInv, InHand
  <2> QED
    BY <2>1
<1> USE DEF IInv, InHand, Exported, Answered, HasReply
<1>1. CASE Note
  <2> DEFINE note == [count |-> count, outputs |-> blob, keyimages |-> kblob]
  <2>1. note \in [count : Nat, outputs : Nat, keyimages : Nat]
    BY <1>1 DEF Note
  <2>2. provenance' \in Notes /\ Last(provenance') = note
    <3>1. provenance' = Append(provenance, note)
      BY <1>1 DEF Note
    <3>2. provenance \in Seq([count : Nat, outputs : Nat, keyimages : Nat])
      BY DEF Notes
    <3> HIDE DEF note, IInv, InHand
    <3> QED
      BY <2>1, <3>1, <3>2, LastAppended DEF Notes
  <2>3. NoteTrue'
    BY <1>1, <2>2 DEF Note, NoteTrue, world, script
  <2> QED
    BY <1>1, <2>2, <2>3 DEF Note, world, script
<1>2. CASE Start
  BY <1>2 DEF Start, Ends, files, NoteTrue
<1>3. CASE Count
  BY <1>3 DEF Count, world, files, NoteTrue
<1>4. CASE Export
  BY <1>4 DEF Export, world, NoteTrue
<1>5. CASE OpenReply \/ WriteReply
  BY <1>5 DEF OpenReply, WriteReply, world, script, NoteTrue
<1>6. CASE SignerFails \/ ReadReply
  BY <1>6 DEF SignerFails, ReadReply, world, files, NoteTrue
<1>7. CASE CutShort
  BY <1>7 DEF CutShort, Ends, world, NoteTrue
<1>8. CASE Stop \/ Slept \/ Import \/ ImportHeld \/ ImportFails \/ StartServer
  BY <1>8 DEF Stop, Slept, Import, ImportHeld, ImportFails, StartServer,
              world, script, files, NoteTrue
<1>9. CASE PollAnswered \/ PollRaises \/ Balance \/ BalanceRaises
  BY <1>9 DEF PollAnswered, PollRaises, Balance, BalanceRaises,
              world, script, files, NoteTrue
<1>10. CASE Receive
  BY <1>10, <1>a DEF Receive, script, files, NoteTrue
<1>11. CASE OldServerStops \/ SuccessorOpens
  BY <1>11 DEF OldServerStops, SuccessorOpens, script, files, NoteTrue
<1>12. CASE UNCHANGED vars
  BY <1>12 DEF vars, world, script, files, NoteTrue
<1> QED
  BY <1>1, <1>2, <1>3, <1>4, <1>5, <1>6, <1>7, <1>8, <1>9, <1>10, <1>11, <1>12
     DEF Next, Script

(* Whatever runs were cut short before it, and wherever: a run of
   snapshot_outputs.py that ends well has noted the files that are there, of
   which the reply answers the export. *)
THEOREM NotesAreTrue == Spec => []NoteTrue
<1>1. IInv => NoteTrue
  BY DEF IInv
<1> QED
  BY <1>1, InHandInit, InHandStep, PTL DEF Spec

-----------------------------------------------------------------------------
(* Handing the wallet file over *)

BeforeStart ==
    {"count", "export", "sign", "write reply", "read", "stop", "sleep", "import", "start"}

AfterSleep == {"import", "start", "poll", "balance", "note", "done"}

AfterImport == {"start", "poll", "balance", "note", "done"}

AfterStart == {"poll", "balance", "note", "done"}

(* Unless the old server outlived its three seconds it is gone from the sleep
   on, so the reply is imported, the new server opens the wallet file, and
   the balance can only have come from it. *)
HandedOver ==
    /\ pc \in BeforeStart => successor = "none"
    /\ pc \in AfterSleep /\ ~outlived => ~Holds
    /\ pc \in AfterImport /\ ~outlived /\ ~cliFailed => imported = keyimages
    /\ pc \in AfterStart /\ ~outlived => successor \in {"starting", "up"}
    /\ pc \in {"note", "done"} /\ ~outlived => successor = "up"

LEMMA HandedOverStep == HandedOver /\ [Next]_vars => HandedOver'
<1> SUFFICES ASSUME HandedOver, [Next]_vars PROVE HandedOver'
  OBVIOUS
<1> USE DEF HandedOver, BeforeStart, AfterSleep, AfterImport, AfterStart, Holds
<1>1. CASE Start
  BY <1>1 DEF Start, Ends
<1>2. CASE Count \/ Export \/ OpenReply \/ WriteReply
  BY <1>2 DEF Count, Export, OpenReply, WriteReply, world, script, files
<1>3. CASE SignerFails \/ ReadReply \/ CutShort
  BY <1>3 DEF SignerFails, ReadReply, CutShort, world, files
<1>4. CASE Stop
  BY <1>4 DEF Stop, script, files
<1>5. CASE Slept
  BY <1>5 DEF Slept, world, files
<1>6. CASE Import \/ ImportHeld
  BY <1>6 DEF Import, ImportHeld, world, script, files
<1>7. CASE ImportFails
  BY <1>7 DEF ImportFails, world, files
<1>8. CASE StartServer
  BY <1>8 DEF StartServer, script, files
<1>9. CASE PollAnswered \/ PollRaises
  BY <1>9 DEF PollAnswered, PollRaises, world, script, files
<1>10. CASE Balance \/ BalanceRaises
  BY <1>10 DEF Balance, BalanceRaises, MayAnswer, world, script, files
<1>11. CASE Note
  BY <1>11 DEF Note, world, script
<1>12. CASE Receive
  BY <1>12 DEF Receive, script, files
<1>13. CASE OldServerStops \/ SuccessorOpens
  BY <1>13 DEF OldServerStops, SuccessorOpens, script, files
<1>14. CASE UNCHANGED vars
  BY <1>14 DEF vars, world, script, files
<1> QED
  BY <1>1, <1>2, <1>3, <1>4, <1>5, <1>6, <1>7, <1>8, <1>9, <1>10, <1>11, <1>12, <1>13,
     <1>14 DEF Next, Script

(* A run that ends well, whose server went in time and whose command line
   wallet did not fail, has had its reply imported and leaves the new server
   in possession of the wallet. *)
THEOREM ReplyImported == Spec => []ImportedInTime
<1>1. Init => HandedOver
  BY DEF Init, HandedOver, BeforeStart, AfterSleep, AfterImport, AfterStart
<1>2. HandedOver /\ [Next]_vars => HandedOver'
  BY HandedOverStep
<1>3. HandedOver => ImportedInTime
  BY DEF HandedOver, AfterImport, ImportedInTime
<1> QED
  BY <1>1, <1>2, <1>3, PTL DEF Spec

-----------------------------------------------------------------------------
(* The benchmark card *)


Complete(c) == (Setup \cup {"result", "whole"}) \ missed \subseteq c

(* An account without a password is one a cut has left. *)
PasswordSet(c) == "user" \in c /\ "password" \notin c => "password" \in missed

AccountInv == step # "password" => PasswordSet(cache)

(* A machine that is off, or a card that is out, has nothing unwritten. *)
RestInv == step \in {"off", "out"} => cache = card

(* How far the first run has come. *)
ProgressInv ==
    /\ step \in FirstRunning \ {"result"} => "result" \in cache
    /\ step \in FirstRunning \ {"result", "gate"} => "whole" \in cache
    /\ step \in FirstRunning \ {"result", "gate", "user"} => "user" \in cache
    /\ step \in {"services", "diag", "disarm"} => {"sudo", "key"} \subseteq cache
    /\ step \in {"diag", "disarm"} => {"ssh", "link", "autorun"} \subseteq cache
    /\ step = "disarm" => "diag" \in cache
    /\ step \in {"sync", "exit"} => Complete(cache)
    /\ step = "exit" => cache = card

(* Where the hook is armed. *)
HookInv ==
    /\ step = "host sync" => "hook" \in cache
    /\ step \in FirstRunning \ {"sync", "exit"} => "hook" \in cache \cap card
    /\ step \in Booted => "hook" \notin cache \cup card

(* A card that is not armed has been set up, or cut in the middle of it; all
   but the end of the result while the gate runs once more. *)
DoneInv ==
    "disarm" \notin missed =>
        /\ step = "off" => "hook" \in card \/ Complete(card)
        /\ step \in Booted \ {"autorun gate"} => Complete(card) /\ Complete(cache)
        /\ step = "autorun gate" =>
               /\ Complete(card \cup {"whole"})
               /\ Complete(cache \cup {"whole"})

(* Results of an earlier preparation are gone before the card leaves. *)
ResultInv ==
    /\ step \in {"arm", "host sync"} => "old result" \notin cache
    /\ step \notin OnHost => "old result" \notin cache \cup card

Inv ==
    /\ TypeOK
    /\ AccountInv /\ RestInv /\ ProgressInv /\ HookInv /\ DoneInv /\ ResultInv

USE DEF OnHost, FirstRunning, Booted, Setup, Items

(* A card nobody has prepared. *)
LEMMA InvInit == CardInit => Inv
BY DEF CardInit, Inv, TypeOK, AccountInv, RestInv, ProgressInv, HookInv, DoneInv, ResultInv,
       PasswordSet

(* The steps on the development machine. *)
LEMMA InvHost ==
    ASSUME Inv, Flash \/ Apply \/ Arm \/ HostSync \/ Eject
    PROVE  Inv'
<1>0. Flash \/ Apply => preparation' \in Nat /\ cuts' \in Nat
  <2>1. preparation \in Nat /\ cuts \in Nat
    BY DEF Inv, TypeOK
  <2>2. Flash \/ Apply => preparation' = preparation + 1 /\ cuts' = cuts
    BY DEF Flash, Apply
  <2> QED
    BY <2>1, <2>2
<1> USE DEF Inv, TypeOK, AccountInv, RestInv, ProgressInv, HookInv, DoneInv, ResultInv,
            PasswordSet, Step, SyncedStep
<1>1. CASE Flash
  <2>1. step' = "arm" /\ cache' = {} /\ card' = {} /\ missed' = {}
    BY <1>1 DEF Flash
  <2>2. preparation' \in Nat /\ cuts' \in Nat
    BY <1>1, <1>0
  <2> QED
    BY <2>1, <2>2
<1>2. CASE Apply
  <2>1. step' = "arm" /\ missed' \subseteq missed /\ ("password" \in missed => "password" \in missed')
    BY <1>2 DEF Apply
  <2>2. preparation' \in Nat /\ cuts' \in Nat
    BY <1>2, <1>0
  <2>3. cache' = cache \ {"result", "whole", "old result", "diag"} /\ step = "out"
    BY <1>2 DEF Apply
  <2>4. card' \subseteq Items
    BY <1>2 DEF Apply, Aged
  <2>5. TypeOK' /\ ResultInv'
    BY <2>1, <2>2, <2>3, <2>4
  <2>6. AccountInv'
    BY <2>1, <2>3
  <2> QED
    BY <2>1, <2>5, <2>6
<1>3. CASE Arm
  BY <1>3 DEF Arm
<1>4. CASE HostSync
  BY <1>4 DEF HostSync
<1>5. CASE Eject
  BY <1>5 DEF Eject
<1> QED
  BY <1>1, <1>2, <1>3, <1>4, <1>5

(* Booting, and the numbered steps of xmr-firstrun.sh. *)
LEMMA InvFirstRun ==
    ASSUME Inv,
           \/ Boot \/ OpenResult \/ Gate \/ AddUser \/ HasUser \/ SetPassword \/ Login
           \/ Services \/ Diagnose \/ Disarm \/ DisarmFails \/ Sync \/ Reboot
    PROVE  Inv'
<1> USE DEF Inv, TypeOK, AccountInv, RestInv, ProgressInv, HookInv, DoneInv, ResultInv,
            PasswordSet, Complete, Step, SyncedStep
<1>1. CASE Boot
  BY <1>1 DEF Boot
<1>2. CASE OpenResult \/ Gate
  BY <1>2 DEF OpenResult, Gate, ResultOpened
<1>3. CASE AddUser \/ HasUser \/ SetPassword
  BY <1>3 DEF AddUser, HasUser, SetPassword
<1>4. CASE Login \/ Services \/ Diagnose
  BY <1>4 DEF Login, Services, Diagnose
<1>5. CASE Disarm \/ DisarmFails
  BY <1>5 DEF Disarm, DisarmFails
<1>6. CASE Sync \/ Reboot
  BY <1>6 DEF Sync, Reboot
<1> QED
  BY <1>1, <1>2, <1>3, <1>4, <1>5, <1>6

(* A boot without the hook. *)
LEMMA InvBooted ==
    ASSUME Inv,
           \/ CloudInit \/ NoCloudInit \/ NoAutorun \/ Autorun
           \/ AutorunOpensResult \/ AutorunGate \/ Shutdown
    PROVE  Inv'
<1> USE DEF Inv, TypeOK, AccountInv, RestInv, ProgressInv, HookInv, DoneInv, ResultInv,
            PasswordSet, Complete, Step, SyncedStep
<1>1. CASE CloudInit \/ NoCloudInit
  BY <1>1 DEF CloudInit, NoCloudInit
<1>2. CASE NoAutorun \/ Autorun
  BY <1>2 DEF NoAutorun, Autorun
<1>3. CASE AutorunOpensResult \/ AutorunGate
  BY <1>3 DEF AutorunOpensResult, AutorunGate, ResultOpened
<1>4. CASE Shutdown
  BY <1>4 DEF Shutdown
<1> QED
  BY <1>1, <1>2, <1>3, <1>4

(* What reaches the card by itself was in the cache, and what leaves it was
   not. *)
LEMMA InvWriteBack == Inv /\ WriteBack => Inv'
<1> SUFFICES ASSUME Inv, WriteBack PROVE Inv'
  OBVIOUS
<1>1. cache \cap card \subseteq card' /\ card' \subseteq cache \cup card
  BY DEF WriteBack
<1>2. step \notin {"off", "out"} /\ UNCHANGED <<step, cache, preparation, cuts, missed>>
  BY DEF WriteBack
<1>3. step = "exit" => UNCHANGED card
  BY DEF WriteBack, Inv, ProgressInv
<1> USE <1>1, <1>2, <1>3
<1>4. TypeOK' /\ ResultInv'
  BY DEF Inv, TypeOK, ResultInv
<1>5. AccountInv' /\ RestInv'
  BY DEF Inv, AccountInv, RestInv, PasswordSet
<1>6. ProgressInv'
  BY DEF Inv, ProgressInv, Complete
<1>7. HookInv'
  BY DEF Inv, HookInv
<1>8. DoneInv'
  BY DEF Inv, DoneInv, Complete
<1> QED
  BY <1>4, <1>5, <1>6, <1>7, <1>8 DEF Inv

(* A cut leaves the card, and says what it has lost. *)
LEMMA InvCut == Inv /\ Cut => Inv'
<1> SUFFICES ASSUME Inv, Cut PROVE Inv'
  OBVIOUS
<1>1. /\ cache' = card /\ card' = card
      /\ step \notin {"off", "out"} /\ step' = IF step \in OnHost THEN "out" ELSE "off"
  BY DEF Cut
<1>2. missed' = missed \cup Lost
  BY DEF Cut
<1>3. TypeOK' /\ ResultInv'
  <2>1. preparation' \in Nat /\ cuts' \in Nat
    <3>1. preparation \in Nat /\ cuts \in Nat
      BY DEF Inv, TypeOK
    <3>2. preparation' = preparation /\ cuts' = cuts + 1
      BY DEF Cut
    <3> QED
      BY <3>1, <3>2
  <2>2. Lost \subseteq {"password", "disarm", "whole"}
    BY DEF Lost
  <2> QED
    BY <1>1, <1>2, <2>1, <2>2 DEF Inv, TypeOK, ResultInv
<1>4. AccountInv' /\ RestInv'
  BY <1>1, <1>2 DEF AccountInv, RestInv, PasswordSet, Lost
<1>5. ProgressInv' /\ HookInv'
  BY <1>1 DEF ProgressInv, HookInv
<1>6. DoneInv'
  <2> SUFFICES ASSUME "disarm" \notin missed', step' = "off", "hook" \notin card
               PROVE  Complete(card)'
    BY <1>1 DEF DoneInv
  <2>1. "disarm" \notin missed /\ step \notin OnHost
    BY <1>1, <1>2
  <2>2. CASE step \in FirstRunning
    <3>1. step # "sync"
      BY <1>2, <2>2 DEF Lost
    <3> QED
      BY <1>1, <1>2, <2>2, <3>1 DEF Inv, ProgressInv, HookInv, Complete
  <2>3. CASE step \in Booted
    <3>1. step = "autorun gate" /\ "whole" \notin card => "whole" \in missed'
      BY <1>2 DEF Lost
    <3> QED
      BY <1>1, <1>2, <2>1, <2>3, <3>1 DEF Inv, DoneInv, Complete
  <2> QED
    BY <1>1, <2>1, <2>2, <2>3 DEF Inv, TypeOK
<1> QED
  BY <1>3, <1>4, <1>5, <1>6 DEF Inv

LEMMA InvStep == Inv /\ [CardNext]_cardVars => Inv'
<1> SUFFICES ASSUME Inv, [CardNext]_cardVars PROVE Inv'
  OBVIOUS
<1>1. CASE UNCHANGED cardVars
  <2>1. TypeOK' /\ AccountInv' /\ RestInv'
    BY <1>1 DEF cardVars, Inv, TypeOK, AccountInv, RestInv, PasswordSet
  <2>2. ProgressInv' /\ HookInv' /\ DoneInv' /\ ResultInv'
    BY <1>1 DEF cardVars, Inv, ProgressInv, HookInv, DoneInv, ResultInv, Complete
  <2> QED
    BY <2>1, <2>2 DEF Inv
<1>2. CASE CardNext
  BY <1>2, InvHost, InvFirstRun, InvBooted, InvWriteBack, InvCut DEF CardNext, Proceed
<1> QED
  BY <1>1, <1>2

LEMMA SpecInv == CardSpec => []Inv
  BY InvInit, InvStep, PTL DEF CardSpec

(* A card that comes up is set up, unless power was cut at one of the three
   moments: SetUpWhenUp for every number of cuts and preparations. *)
THEOREM ComesUpSetUp == CardSpec => []SetUpWhenUp
<1>1. Inv => SetUpWhenUp
  BY DEF Inv, DoneInv, Complete, SetUpWhenUp
<1> QED
  BY <1>1, SpecInv, PTL

(* The results on a card outside the development machine are of its last
   preparation. *)
THEOREM NoOldResult == CardSpec => []ResultIsOfThisPreparation
<1>1. Inv => ResultIsOfThisPreparation
  BY DEF Inv, ResultInv, ResultIsOfThisPreparation
<1> QED
  BY <1>1, SpecInv, PTL
=============================================================================

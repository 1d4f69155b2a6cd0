--------------------------- MODULE SnapshotOutputs ---------------------------
(***************************************************************************)
(* scripts/snapshot_outputs.py: export the outputs of the view-only wallet, *)
(* have `xmr-signer keyimages` answer, import the reply with the command    *)
(* line wallet while the wallet server is stopped, start the server again  *)
(* and note the provenance of the two files.  The script may be run again  *)
(* under the same label.                                                   *)
(*                                                                         *)
(* The wallet programs are external: one of them at a time can have the    *)
(* wallet file open, a server told to stop takes as long as it likes and   *)
(* may answer until then, and any call may raise.  An export stands for    *)
(* how many outputs the wallet had received, a reply for the export it     *)
(* answers.                                                                *)
(***************************************************************************)
EXTENDS Naturals, Sequences, SequencesExt

CONSTANTS
    MaxOutputs, \* outputs the wallet receives
    MaxRuns,    \* runs of the script
    MaxFaults,  \* calls that raise, programs that fail, runs cut short
    Polls,      \* how often the new server is asked whether it is there, 30
    Torn, None  \* a reply cut short; no file

ASSUME BoundsAssumption == {MaxOutputs, MaxRuns, MaxFaults, Polls} \subseteq Nat

ASSUME FilesAssumption == Torn \notin Nat /\ None \notin Nat /\ Torn # None

VARIABLES
    \* the wallet, and the programs that open it
    received, imported,
    server,    \* the server the script finds: "up", "stopping" or "gone"
    successor, \* the one it starts: "none", "starting", "up" or "gone"
    \* the script
    pc, runs, faults, count, blob, kblob, polls,
    failed,    \* this run was cut short, or its signer failed
    outlived,  \* the old server was still there when the script had waited for it
    cliFailed, \* the command line wallet failed of itself
    \* fixtures/<label>/
    outputs, keyimages, provenance

world == <<received, imported, server, successor>>
files == <<outputs, keyimages, provenance>>
script == <<runs, faults, count, blob, kblob, polls, failed, outlived, cliFailed>>
vars == <<world, pc, script, files>>

-----------------------------------------------------------------------------
(* The wallet programs *)

Holds == server \in {"up", "stopping"}

MayAnswer == Holds \/ successor = "up"

Receive ==
    /\ received < MaxOutputs
    /\ received' = received + 1
    /\ UNCHANGED <<imported, server, successor, pc, script, files>>

OldServerStops ==
    /\ server = "stopping"
    /\ server' = "gone"
    /\ UNCHANGED <<received, imported, successor, pc, script, files>>

SuccessorOpens ==
    /\ successor = "starting"
    /\ successor' = IF Holds THEN "gone" ELSE "up"
    /\ UNCHANGED <<received, imported, server, pc, script, files>>

-----------------------------------------------------------------------------
(* The script *)

Init ==
    /\ received = 1 /\ imported = None
    /\ server = "up" /\ successor = "none"
    /\ pc = "end" /\ runs = 0 /\ faults = 0
    /\ count = 0 /\ blob = None /\ kblob = None /\ polls = 0
    /\ failed = FALSE /\ outlived = FALSE /\ cliFailed = FALSE
    /\ outputs = None /\ keyimages = None /\ provenance = <<>>

Ends == {"end", "done"}

(* Whichever server there is serves the next run; the owner starts one when
   there is none. *)
Start ==
    /\ pc \in Ends /\ runs < MaxRuns
    /\ successor # "starting" /\ server # "stopping"
    /\ runs' = runs + 1
    /\ server' = "up" /\ successor' = "none"
    /\ failed' = FALSE /\ outlived' = FALSE /\ cliFailed' = FALSE /\ polls' = 0
    /\ pc' = "count"
    /\ UNCHANGED <<received, imported, faults, count, blob, kblob, files>>

Count ==
    /\ pc = "count"
    /\ count' = received
    /\ pc' = "export"
    /\ UNCHANGED <<world, runs, faults, blob, kblob, polls, failed, outlived, cliFailed, files>>

Export ==
    /\ pc = "export"
    /\ blob' = received
    /\ outputs' = received
    /\ pc' = "sign"
    /\ UNCHANGED <<world, runs, faults, count, kblob, polls, failed, outlived, cliFailed, keyimages, provenance>>

(* xmr-signer writes its reply in place once it has all of it. *)
OpenReply ==
    /\ pc = "sign"
    /\ keyimages' = Torn
    /\ pc' = "write reply"
    /\ UNCHANGED <<world, script, outputs, provenance>>

WriteReply ==
    /\ pc = "write reply"
    /\ keyimages' = outputs
    /\ pc' = "read"
    /\ UNCHANGED <<world, script, outputs, provenance>>

(* Mutant: the exit code of the signer is not looked at. *)
SignerFailsUnnoticed ==
    /\ pc \in {"sign", "write reply"} /\ faults < MaxFaults
    /\ faults' = faults + 1
    /\ pc' = "read"
    /\ UNCHANGED <<world, runs, count, blob, kblob, polls, failed, outlived, cliFailed, files>>

SignerFails ==
    /\ pc \in {"sign", "write reply"} /\ faults < MaxFaults
    /\ faults' = faults + 1 /\ failed' = TRUE
    /\ pc' = "end"
    /\ UNCHANGED <<world, runs, count, blob, kblob, polls, outlived, cliFailed, files>>

(* The bytes the note will be about, before the reply is imported. *)
ReadReply ==
    /\ pc = "read"
    /\ kblob' = keyimages
    /\ pc' = "stop"
    /\ UNCHANGED <<world, runs, faults, count, blob, polls, failed, outlived, cliFailed, files>>

(* Mutant: the wallet is opened without waiting for the server to be gone. *)
StopWithoutWaiting ==
    /\ pc = "stop"
    /\ server' = "stopping"
    /\ pc' = "import"
    /\ UNCHANGED <<received, imported, successor, script, files>>

Stop ==
    /\ pc = "stop"
    /\ server' = "stopping"
    /\ pc' = "sleep"
    /\ UNCHANGED <<received, imported, successor, script, files>>

(* The sleep is over, however long the server takes. *)
Slept ==
    /\ pc = "sleep"
    /\ outlived' = Holds
    /\ pc' = "import"
    /\ UNCHANGED <<world, runs, faults, count, blob, kblob, polls, failed, cliFailed, files>>

(* What the command line wallet reports is printed and not looked at: it may
   find the wallet file open elsewhere, or fail of itself. *)
Import ==
    /\ pc = "import" /\ ~Holds
    /\ imported' = keyimages
    /\ pc' = "start"
    /\ UNCHANGED <<received, server, successor, script, files>>

ImportHeld ==
    /\ pc = "import" /\ Holds
    /\ pc' = "start"
    /\ UNCHANGED <<world, script, files>>

ImportFails ==
    /\ pc = "import" /\ faults < MaxFaults
    /\ faults' = faults + 1 /\ cliFailed' = TRUE
    /\ pc' = "start"
    /\ UNCHANGED <<world, runs, count, blob, kblob, polls, failed, outlived, files>>

StartServer ==
    /\ pc = "start"
    /\ successor' = "starting"
    /\ pc' = "poll"
    /\ UNCHANGED <<received, imported, server, script, files>>

PollAnswered ==
    /\ pc = "poll" /\ MayAnswer
    /\ pc' = "balance"
    /\ UNCHANGED <<world, script, files>>

(* Mutant: the script asks until it is answered. *)
PollForEver ==
    /\ pc = "poll" /\ successor # "up"
    /\ UNCHANGED vars

PollRaises ==
    /\ pc = "poll" /\ successor # "up"
    /\ polls' = polls + 1
    /\ pc' = IF polls' = Polls THEN "balance" ELSE "poll"
    /\ UNCHANGED <<world, runs, faults, count, blob, kblob, failed, outlived, cliFailed, files>>

Balance ==
    /\ pc = "balance" /\ MayAnswer
    /\ pc' = "note"
    /\ UNCHANGED <<world, script, files>>

BalanceRaises ==
    /\ pc = "balance" /\ successor # "up"
    /\ pc' = "end"
    /\ UNCHANGED <<world, script, files>>

Note ==
    /\ pc = "note"
    /\ provenance' = Append(provenance, [count |-> count, outputs |-> blob, keyimages |-> kblob])
    /\ pc' = "done"
    /\ UNCHANGED <<world, script, outputs, keyimages>>

(* A call raises, or the run is cut short wherever it is: both files are
   written in place. *)
CutShort ==
    /\ pc \notin Ends /\ faults < MaxFaults
    /\ faults' = faults + 1 /\ failed' = TRUE
    /\ outputs' \in {outputs} \cup (IF pc = "export" THEN {Torn} ELSE {})
    /\ pc' = "end"
    /\ UNCHANGED <<world, runs, count, blob, kblob, polls, outlived, cliFailed, keyimages, provenance>>

Script ==
    \/ Count \/ Export \/ OpenReply \/ WriteReply \/ SignerFails \/ ReadReply
    \/ Stop \/ Slept \/ Import \/ ImportHeld \/ ImportFails \/ StartServer
    \/ PollAnswered \/ PollRaises \/ Balance \/ BalanceRaises \/ Note

Next ==
    \/ Script \/ CutShort \/ Start
    \/ Receive \/ OldServerStops \/ SuccessorOpens

(* A run that is not cut short goes on, and a program that is to stop or to
   start does. *)
Spec ==
    /\ Init /\ [][Next]_vars
    /\ WF_vars(Script) /\ WF_vars(OldServerStops) /\ WF_vars(SuccessorOpens)

-----------------------------------------------------------------------------
(* Properties *)

(* A run that ends well has described the files that are there, and the reply
   among them answers the export among them: whatever earlier runs, of the
   script or of xmr-signer, left of theirs, torn or whole.  No more outputs
   are said to be in the export than are. *)
NoteTrue ==
    pc = "done" =>
        LET note == Last(provenance)
        IN  /\ note.outputs = outputs /\ note.keyimages = keyimages
            /\ keyimages = outputs
            /\ note.count <= outputs

(* The wallet is given the reply: the files are handed from one process to the
   next, and the reply is imported, if the first server goes within the three
   seconds it is given and the command line wallet does not fail. *)
ImportedInTime ==
    pc = "done" /\ ~outlived /\ ~cliFailed =>
        imported = keyimages /\ successor = "up"

(* Every run comes to its end, and to the good one unless the run itself is
   cut short, its signer fails, or a server does not stop or start within the
   time it is given; a command line wallet that fails does not end it. *)
Finishes ==
    pc = "count" ~>
        \/ pc = "done"
        \/ pc = "end" /\ (failed \/ outlived \/ polls = Polls)
=============================================================================

------------------------------ MODULE FirstRun ------------------------------
(***************************************************************************)
(* The benchmark card: flash-bench-card.sh and apply-bootfs-overlay.sh     *)
(* prepare it on the development machine, the boot hook xmr-firstrun.sh    *)
(* sets it up on the Pi and disarms itself, and every later boot runs the  *)
(* autorun service.                                                        *)
(*                                                                         *)
(* What is written reaches the card in any order, at the latest at a sync  *)
(* or an orderly reboot; a power cut, or pulling the card, loses the rest. *)
(* cache is what the running machine sees, card what a cut leaves.  The    *)
(* scripts run without `set -e`, the hook is disarmed after everything     *)
(* else and only then is there a sync.                                     *)
(***************************************************************************)
EXTENDS Naturals

CONSTANTS
    MaxPreparations, \* times the card is prepared
    MaxCuts          \* power cuts and pulled cards

ASSUME CutsAssumption == MaxPreparations \in Nat /\ MaxCuts \in Nat

VARIABLES
    step,         \* the step about to run, "off", or "out" of the Pi
    cache, card,  \* what each holds
    preparation,  \* how often the card has been prepared
    cuts,         \* cuts so far
    missed        \* the moments of no return a cut has hit

cardVars == <<step, cache, card, preparation, cuts, missed>>

-----------------------------------------------------------------------------
(* What is on a card.  "result" is a result file of the current preparation
   and "whole" says that its gate came to its end; "old result" is one of an
   earlier preparation. *)

Setup == {"user", "password", "sudo", "key", "ssh", "link", "autorun", "diag"}

Items == Setup \cup {"result", "whole", "old result", "runs gate", "booted", "hook"}

Aged(contents) ==
    IF "result" \in contents THEN (contents \ {"result"}) \cup {"old result"} ELSE contents

(* The file the gate writes, when it is opened. *)
ResultOpened == (cache \ {"whole", "old result"}) \cup {"result"}

OnHost == {"out", "arm", "host sync"}

FirstRunning ==
    {"result", "gate", "user", "password", "login", "services", "diag", "disarm", "sync", "exit"}

Booted == {"boot", "autorun", "autorun gate", "up"}

(* A step of a script: what it writes is seen at once. *)
Step(from, to, contents) ==
    /\ step = from
    /\ step' = to
    /\ cache' = contents
    /\ UNCHANGED <<card, preparation, cuts, missed>>

(* A step that leaves nothing unwritten. *)
SyncedStep(from, to, contents) ==
    /\ step = from
    /\ step' = to
    /\ cache' = contents
    /\ card' = contents
    /\ UNCHANGED <<preparation, cuts, missed>>

-----------------------------------------------------------------------------
(* The development machine *)

(* flash-bench-card.sh: the image is written and synced.  apply-bootfs-
   overlay.sh: the results of the last run are removed. *)

Flash ==
    /\ step = "out" /\ preparation < MaxPreparations
    /\ cache' = {} /\ card' = {}
    /\ missed' = {}
    /\ preparation' = preparation + 1
    /\ step' = "arm"
    /\ UNCHANGED cuts

(* Mutant: the old results stay where they are. *)
ApplyKeepsResults ==
    /\ step = "out" /\ 0 < preparation /\ preparation < MaxPreparations
    /\ cache' = Aged(cache) /\ card' = Aged(card)
    /\ missed' = missed \ {"disarm", "whole"}
    /\ preparation' = preparation + 1
    /\ step' = "arm"
    /\ UNCHANGED cuts

Apply ==
    /\ step = "out" /\ 0 < preparation /\ preparation < MaxPreparations
    /\ cache' = cache \ {"result", "whole", "old result", "diag"}
    /\ card' = Aged(card)
    /\ missed' = missed \ {"disarm", "whole"}
    /\ preparation' = preparation + 1
    /\ step' = "arm"
    /\ UNCHANGED cuts

Arm == Step("arm", "host sync", cache \cup {"hook"})

HostSync == SyncedStep("host sync", "off", cache)

(* The card goes back to the development machine. *)
Eject ==
    /\ step = "off" /\ preparation < MaxPreparations
    /\ step' = "out"
    /\ UNCHANGED <<cache, card, preparation, cuts, missed>>

-----------------------------------------------------------------------------
(* The Pi *)

Boot ==
    /\ step = "off"
    /\ step' = IF "hook" \in card THEN "result" ELSE "boot"
    /\ cache' = card
    /\ UNCHANGED <<card, preparation, cuts, missed>>

(* 1. the gate: its result file is emptied, then filled *)

OpenResult == Step("result", "gate", ResultOpened)

Gate == Step("gate", "user", cache \cup {"whole"})

(* 2. the user, made once, and its key *)

AddUser == "user" \notin cache /\ Step("user", "password", cache \cup {"user"})

(* Mutant: what follows is taken to be done for an account that is there. *)
HasUserSkips == "user" \in cache /\ Step("user", "services", cache)

HasUser == "user" \in cache /\ Step("user", "login", cache)

SetPassword == Step("password", "login", cache \cup {"password"})

Login == Step("login", "services", cache \cup {"sudo", "key"})

(* 3. to 5. SSH, the link, the autorun service *)

Services == Step("services", "diag", (cache \ {"runs gate"}) \cup {"ssh", "link", "autorun"})

(* 6. diagnostics *)

Diagnose == Step("diag", "disarm", cache \cup {"diag"})

(* 7. the hook leaves the command line, which may fail unnoticed; sync *)

(* Mutant: the pattern misses the hook it armed. *)
DisarmMissing == Step("disarm", "sync", cache)

Disarm == Step("disarm", "sync", cache \ {"hook"})

DisarmFails == Step("disarm", "sync", cache)

Sync == SyncedStep("sync", "exit", cache)

(* systemd.run_success_action=reboot *)
Reboot == SyncedStep("exit", "off", cache)

-----------------------------------------------------------------------------
(* A normal boot.  On a fresh image cloud-init may replace the autorun
   script by one that runs the gate again (user-data). *)

CloudInit ==
    /\ "booted" \notin cache
    /\ Step("boot", "autorun", cache \cup {"ssh", "link", "autorun", "runs gate", "booted"})

NoCloudInit == Step("boot", "autorun", cache \cup {"booted"})

NoAutorun == "autorun" \notin cache /\ Step("autorun", "up", cache)

Autorun == "autorun" \in cache /\ "runs gate" \notin cache /\ SyncedStep("autorun", "up", cache)

AutorunOpensResult == {"autorun", "runs gate"} \subseteq cache /\ Step("autorun", "autorun gate", ResultOpened)

AutorunGate == SyncedStep("autorun gate", "up", cache \cup {"whole"})

Shutdown == SyncedStep("up", "off", cache)

-----------------------------------------------------------------------------
(* The card *)

(* One thing at a time reaches the card on its own. *)
WriteBack ==
    /\ step \notin {"off", "out"}
    /\ \E item \in Items :
          \/ item \in cache \ card /\ card' = card \cup {item}
          \/ item \in card \ cache /\ card' = card \ {item}
    /\ UNCHANGED <<step, cache, preparation, cuts, missed>>

(* What a cut takes away that no later boot brings back: the password of an
   account that is there already, the setup of a card disarmed too early, a
   result that was about to be replaced. *)
Lost ==
    {what \in {"password", "disarm", "whole"} :
        \/ what = "password" /\ "user" \in card /\ "password" \notin card
        \/ what = "disarm" /\ step = "sync" /\ "hook" \notin card
        \/ what = "whole" /\ step = "autorun gate" /\ "whole" \notin card}

Cut ==
    /\ step \notin {"off", "out"} /\ cuts < MaxCuts
    /\ cuts' = cuts + 1
    /\ missed' = missed \cup Lost
    /\ cache' = card
    /\ step' = IF step \in OnHost THEN "out" ELSE "off"
    /\ UNCHANGED <<card, preparation>>

-----------------------------------------------------------------------------

CardInit ==
    /\ step = "out"
    /\ cache = {} /\ card = {}
    /\ preparation = 0 /\ cuts = 0
    /\ missed = {}

(* The scripts and the boots they lead to; the owner's own doings and the
   failures are not part of it. *)
Proceed ==
    \/ Arm \/ HostSync \/ Boot
    \/ OpenResult \/ Gate \/ AddUser \/ HasUser \/ SetPassword \/ Login
    \/ Services \/ Diagnose \/ Disarm \/ Sync \/ Reboot
    \/ CloudInit \/ NoCloudInit
    \/ NoAutorun \/ Autorun \/ AutorunOpensResult \/ AutorunGate

CardNext ==
    \/ Proceed
    \/ Flash \/ Apply \/ Eject \/ Shutdown
    \/ DisarmFails \/ WriteBack \/ Cut

(* A machine that is on goes on; the boot partition cannot refuse the new
   command line for ever. *)
Fairness == WF_cardVars(Proceed) /\ SF_cardVars(Disarm)

CardSpec == CardInit /\ [][CardNext]_cardVars /\ Fairness

-----------------------------------------------------------------------------
(* Properties *)

(* The steps, and what the card and the running machine may hold. *)
TypeOK ==
    /\ step \in OnHost \cup {"off"} \cup FirstRunning \cup Booted
    /\ cache \subseteq Items /\ card \subseteq Items
    /\ preparation \in Nat /\ cuts \in Nat
    /\ missed \subseteq {"password", "disarm", "whole"}

(* xmr-firstrun.sh: however often power is cut and the hook runs again, a
   card that comes up has the account, the key, the services and a whole
   result on it, with three exceptions, each a cut at its moment: between the
   disarming and the sync; between useradd and chpasswd, which no later run
   makes good; and in the gate that cloud-init's autorun runs again. *)
SetUpWhenUp ==
    step = "up" /\ "disarm" \notin missed =>
        (Setup \cup {"result", "whole"}) \ missed \subseteq card

(* apply-bootfs-overlay.sh: a result found on the card, even after a cut at
   the worst moment, is never that of an earlier preparation. *)
ResultIsOfThisPreparation ==
    step \notin OnHost => "old result" \notin card

(* The hook is armed once: a Pi that has power comes out of the first run and
   up, and does not run it for ever. *)
ComesUp == step = "off" ~> step \in {"up", "out"}
=============================================================================

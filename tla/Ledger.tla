------------------------------- MODULE Ledger -------------------------------
(***************************************************************************)
(* What the offline wallet as a whole promises its owner: outputs arrive,  *)
(* payments are requested, and a requested payment happens at most once    *)
(* and spends exactly the outputs it was requested with, none of which was *)
(* spent before.                                                           *)
(***************************************************************************)
EXTENDS Naturals, Sequences

VARIABLES
    received, \* outputs paid to the account so far
    spent,    \* those of them that were spent
    requests, \* the input set of each requested payment
    paid      \* the numbers of the payments made

vars == <<received, spent, requests, paid>>

Init ==
    /\ received = {}
    /\ spent = {}
    /\ requests = <<>>
    /\ paid = {}

Receive ==
    /\ \E out \in received' : out \notin received /\ received' = received \cup {out}
    /\ UNCHANGED <<spent, requests, paid>>

Request ==
    /\ \E inputs \in (SUBSET received) \ {{}} : requests' = Append(requests, inputs)
    /\ UNCHANGED <<received, spent, paid>>

(* The payment brings its change back. *)
Pay(n) ==
    /\ n \notin paid
    /\ requests[n] \cap spent = {}
    /\ paid' = paid \cup {n}
    /\ spent' = spent \cup requests[n]
    /\ \E change \in received' : change \notin received /\ received' = received \cup {change}
    /\ UNCHANGED requests

Next == Receive \/ Request \/ \E n \in DOMAIN requests : Pay(n)

Spec == Init /\ [][Next]_vars
=============================================================================

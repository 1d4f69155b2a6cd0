----------------------------- MODULE EagerTable -----------------------------
(***************************************************************************)
(* What the subaddress table promises: the answer to a spend key is a      *)
(* function of the key alone.  A key of the primary address, of an index   *)
(* listed in the unsigned set or of an index inside the lookahead window   *)
(* is answered with its index, every other key with NoIndex, whatever was  *)
(* asked before.                                                           *)
(***************************************************************************)
EXTENDS Naturals

CONSTANTS
    Key,          \* compressed spend public keys
    Index,        \* subaddress indices <<major, minor>>
    PrimaryIndex, \* <<0, 0>>
    SpendKeyOf,   \* the account's spend key at each index
    Listed,       \* indices of the outputs exported with the unsigned set
    Lookahead,    \* <<majors, minors>> of the window, DEFAULT_LOOKAHEAD
    NoIndex,      \* the answer None
    Unasked       \* no answer yet

VARIABLE answers

Window == {i \in Index : i[1] < Lookahead[1] /\ i[2] < Lookahead[2]}

Reachable == {PrimaryIndex} \cup Listed \cup Window

Resolve(key) ==
    IF \E i \in Reachable : SpendKeyOf[i] = key
    THEN CHOOSE i \in Reachable : SpendKeyOf[i] = key
    ELSE NoIndex

Init == answers = [key \in Key |-> Unasked]

Ask(key) == answers' = [answers EXCEPT ![key] = Resolve(key)]

Next == \E key \in Key : Ask(key)

Spec == Init /\ [][Next]_answers
=============================================================================

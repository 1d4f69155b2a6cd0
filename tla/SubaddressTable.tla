-------------------------- MODULE SubaddressTable --------------------------
(***************************************************************************)
(* SubaddressTable of sign.rs: the map from spend keys to subaddress       *)
(* indices that the signer rebuilds lazily while it looks for the inputs   *)
(* it can spend and for its own change address.  It starts with the        *)
(* primary address and the indices listed in the unsigned set, and grows   *)
(* by the whole lookahead window the first time a key is not found.        *)
(*                                                                         *)
(* answers is a history variable: the last answer each key was given.      *)
(***************************************************************************)
EXTENDS Naturals

CONSTANTS Key, Index, PrimaryIndex, SpendKeyOf, Listed, Lookahead,
          NoIndex, Unasked

(* The indices are pairs of u32; deriving a spend key is injective. *)
ASSUME IndexAssumption ==
    /\ Index \subseteq Nat \X Nat
    /\ PrimaryIndex \in Index
    /\ Listed \subseteq Index
    /\ Lookahead \in Nat \X Nat

ASSUME KeyAssumption ==
    /\ SpendKeyOf \in [Index -> Key]
    /\ \A i, j \in Index : SpendKeyOf[i] = SpendKeyOf[j] => i = j

ASSUME SentinelAssumption ==
    /\ NoIndex \notin Index
    /\ Unasked \notin Index \cup {NoIndex}

VARIABLES
    known,    \* the HashMap: an index for each key in it, NoIndex elsewhere
    expanded, \* the window has been added
    answers

tableVars == <<known, expanded, answers>>

Eager == INSTANCE EagerTable

-----------------------------------------------------------------------------

(* known.insert for the primary address, then for every new transfer. *)
New ==
    [key \in Key |->
        IF \E i \in {PrimaryIndex} \cup Listed : SpendKeyOf[i] = key
        THEN CHOOSE i \in {PrimaryIndex} \cup Listed : SpendKeyOf[i] = key
        ELSE NoIndex]

(* Mutant: the window is one minor short. *)
ExpandedShort(table) ==
    [key \in Key |->
        IF /\ table[key] = NoIndex
           /\ \E i \in Eager!Window : i[2] + 1 < Lookahead[2] /\ SpendKeyOf[i] = key
        THEN CHOOSE i \in Eager!Window : SpendKeyOf[i] = key
        ELSE table[key]]

(* entry(..).or_insert(..) over every index of the window. *)
Expanded(table) ==
    [key \in Key |->
        IF /\ table[key] = NoIndex
           /\ \E i \in Eager!Window : SpendKeyOf[i] = key
        THEN CHOOSE i \in Eager!Window : SpendKeyOf[i] = key
        ELSE table[key]]

TableInit ==
    /\ known = New
    /\ expanded = FALSE
    /\ answers = [key \in Key |-> Unasked]

(* The key is in the table: answered from it. *)
LookupHit(key) ==
    /\ known[key] # NoIndex
    /\ answers' = [answers EXCEPT ![key] = known[key]]
    /\ UNCHANGED <<known, expanded>>

(* The first miss: add the window, then answer from the larger table. *)
LookupExpand(key) ==
    /\ known[key] = NoIndex
    /\ ~expanded
    /\ expanded' = TRUE
    /\ known' = Expanded(known)
    /\ answers' = [answers EXCEPT ![key] = known'[key]]

(* Mutant: None without having added the window. *)
LookupMissEarly(key) ==
    /\ known[key] = NoIndex
    /\ answers' = [answers EXCEPT ![key] = NoIndex]
    /\ UNCHANGED <<known, expanded>>

(* A miss in the expanded table: None. *)
LookupMiss(key) ==
    /\ known[key] = NoIndex
    /\ expanded
    /\ answers' = [answers EXCEPT ![key] = NoIndex]
    /\ UNCHANGED <<known, expanded>>

Lookup(key) == LookupHit(key) \/ LookupExpand(key) \/ LookupMiss(key)

TableNext == \E key \in Key : Lookup(key)

TableSpec == TableInit /\ [][TableNext]_tableVars

-----------------------------------------------------------------------------
(* Properties *)

(* The table holds an index or nothing for every key. *)
TableTypeOK ==
    /\ known \in [Key -> Index \cup {NoIndex}]
    /\ expanded \in BOOLEAN
    /\ answers \in [Key -> Index \cup {NoIndex, Unasked}]

(* SubaddressTable::lookup: a key of a listed or windowed address is
   answered with the index it was derived at, and only a key of no such
   address is answered None, no matter which lookups came before and when
   the window was added. *)
AnswersExact ==
    \A key \in Key :
        /\ answers[key] \in Index =>
              answers[key] \in Eager!Reachable /\ SpendKeyOf[answers[key]] = key
        /\ answers[key] = NoIndex =>
              \A i \in Eager!Reachable : SpendKeyOf[i] # key

(* The lazy table implements the eager one. *)
ImplementsEager == Eager!Spec
=============================================================================

------------------------------- MODULE Fanout -------------------------------
(***************************************************************************)
(* scripts/fanout.py: send to oneself, round after round, until the wallet *)
(* has received Target outputs.  A round reads what was received and what  *)
(* is unlocked, works out how many transactions are missing, and divides   *)
(* them among the subaddresses with enough to spend.                       *)
(*                                                                         *)
(* The wallet and the chain are external: a call may raise, a transfer     *)
(* that raised may have been sent, and a transaction counts as received    *)
(* when it is mined and can be spent some time after.  The script sleeps   *)
(* a minute between rounds, which waits for neither.  Amounts are in       *)
(* units of the fee.                                                       *)
(***************************************************************************)
EXTENDS Integers, Sequences, FiniteSets, FiniteSetsExt, Functions

CONSTANTS
    Target,    \* outputs to be received
    DestsAt,   \* the subaddress of each destination of a transfer, --dests of them
    Reserve,   \* --fee-reserve
    MinSource, \* --min-source
    Fee,       \* what the wallet asks for
    Funds,     \* the outputs at the start, each [at, amount]
    MaxLost    \* transfers that are sent and raise

Dests == Len(DestsAt)

ASSUME SizeAssumption ==
    /\ Target \in Nat /\ Reserve \in Nat \ {0} /\ MinSource \in Nat /\ Fee \in Nat
    /\ Dests > 0

ASSUME FundsAssumption ==
    /\ Funds \in Seq(Range(Funds)) /\ DestsAt \in Seq(Range(DestsAt))
    /\ \A i \in DOMAIN Funds : Funds[i].amount \in Nat

VARIABLES
    \* the wallet
    coins,  \* every output ever sent to it, each [at, amount, tx, spent]
    sentTx, mined, unlocked, \* how many transactions were sent, mined and matured
    \* the script
    pc,
    total,  \* outputs received, as read at the start of the round
    per,    \* what is unlocked and how many are unspent at each subaddress, as read then
    sources, need, sent,
    source, tries, k, amount,
    \* history
    blind,  \* the most transactions that were pending when a round began
    lost    \* transfers that were sent and raised

wallet == <<coins, sentTx, mined, unlocked>>
round == <<total, per, sources, need, sent>>
turn == <<source, tries, k, amount>>
vars == <<wallet, pc, round, turn, blind, lost>>

-----------------------------------------------------------------------------
(* The wallet *)

Subs == {Funds[i].at : i \in DOMAIN Funds} \cup Range(DestsAt) \cup {0}

Seen(i) == coins[i].tx <= mined

Spendable(i) == ~coins[i].spent /\ coins[i].tx <= unlocked

Received == {i \in DOMAIN coins : Seen(i)}

UnspentAt(s) == {i \in Received : ~coins[i].spent /\ coins[i].at = s}

UnlockedAt(s) == {i \in DOMAIN coins : Spendable(i) /\ coins[i].at = s}

Worth(is) == MapThenSumSet(LAMBDA i : coins[i].amount, is)

Needed == amount * Dests + Fee

(* Whichever unlocked outputs of the source the wallet picks, none of them
   needlessly. *)
Picks ==
    {is \in SUBSET UnlockedAt(source) :
        Worth(is) >= Needed /\ \A i \in is : Worth(is \ {i}) < Needed}

(* The change comes back to the primary address. *)
Sent(is) ==
    /\ sentTx' = sentTx + 1
    /\ coins' = [i \in DOMAIN coins |-> [coins[i] EXCEPT !.spent = @ \/ i \in is]]
                \o [d \in 1 .. Dests |->
                      [at |-> DestsAt[d], amount |-> amount, tx |-> sentTx', spent |-> FALSE]]
                \o <<[at |-> 0, amount |-> Worth(is) - Needed, tx |-> sentTx', spent |-> FALSE]>>

(* Transactions are mined, and mature, in the order they were sent. *)

Mine ==
    /\ mined < sentTx /\ mined' = mined + 1
    /\ UNCHANGED <<coins, sentTx, unlocked, pc, round, turn, blind, lost>>

Unlock ==
    /\ unlocked < mined /\ unlocked' = unlocked + 1
    /\ UNCHANGED <<coins, sentTx, mined, pc, round, turn, blind, lost>>

-----------------------------------------------------------------------------
(* The script *)

Init ==
    /\ coins = [i \in DOMAIN Funds |->
                  [at |-> Funds[i].at, amount |-> Funds[i].amount, tx |-> 0, spent |-> FALSE]]
    /\ sentTx = 0 /\ mined = 0 /\ unlocked = 0
    /\ pc = "total"
    /\ total = 0 /\ per = [s \in Subs |-> [unlocked |-> 0, unspent |-> 0]] /\ sources = <<>> /\ need = 0 /\ sent = 0
    /\ source = 0 /\ tries = 0 /\ k = 0 /\ amount = 0
    /\ blind = 0 /\ lost = 0

ReadTotal ==
    /\ pc = "total"
    /\ total' = Cardinality(Received)
    /\ blind' = Max({blind, sentTx - mined})
    /\ pc' = "balance"
    /\ UNCHANGED <<wallet, per, sources, need, sent, turn, lost>>

ReadBalance ==
    /\ pc = "balance"
    /\ per' = [s \in Subs |-> [unlocked |-> Worth(UnlockedAt(s)), unspent |-> Cardinality(UnspentAt(s))]]
    /\ pc' = "plan"
    /\ UNCHANGED <<wallet, total, sources, need, sent, turn, blind, lost>>

Fundable == {s \in Subs : per[s].unspent > 0 /\ per[s].unlocked >= MinSource}

Done ==
    /\ pc = "plan" /\ total >= Target
    /\ pc' = "done"
    /\ UNCHANGED <<wallet, round, turn, blind, lost>>

NothingUnlocked ==
    /\ pc = "plan" /\ total < Target /\ Fundable = {}
    /\ pc' = "total"
    /\ UNCHANGED <<wallet, round, turn, blind, lost>>

(* Mutant: the transactions are rounded down. *)
MissingRoundedDown == (Target - total) \div (Dests + 1)

Missing == (Target - total + Dests) \div (Dests + 1)

Plan ==
    /\ pc = "plan" /\ total < Target /\ Fundable # {}
    /\ need' = Missing
    /\ sources' \in {s \in [1 .. Cardinality(Fundable) -> Fundable] :
                        /\ IsInjective(s)
                        /\ \A i, j \in DOMAIN s : i < j => per[s[i]].unlocked >= per[s[j]].unlocked}
    /\ sent' = 0
    /\ pc' = "source"
    /\ UNCHANGED <<wallet, total, per, turn, blind, lost>>

Attempts(s) ==
    Max({1, Min({need - sent, per[s].unspent \div 2, per[s].unlocked \div (3 * Reserve)})})

(* Mutant: the transactions sent are not counted. *)
TakeEverySource ==
    /\ pc = "source" /\ sources # <<>>
    /\ source' = Head(sources)
    /\ sources' = Tail(sources)
    /\ k' = Attempts(Head(sources))
    /\ tries' = 0 /\ amount' = 0
    /\ pc' = "size"
    /\ UNCHANGED <<wallet, total, per, need, sent, blind, lost>>

TakeSource ==
    /\ pc = "source" /\ sources # <<>> /\ sent < need
    /\ source' = Head(sources)
    /\ sources' = Tail(sources)
    /\ k' = Attempts(Head(sources))
    /\ tries' = 0 /\ amount' = 0
    /\ pc' = "size"
    /\ UNCHANGED <<wallet, total, per, need, sent, blind, lost>>

RoundOver ==
    /\ pc = "source" /\ (sources = <<>> \/ sent >= need)
    /\ pc' = "total"
    /\ UNCHANGED <<wallet, round, turn, blind, lost>>

(* Mutant: the balance of the start of the round is used. *)
ShareOfSnapshot == (per[source].unlocked \div (k - tries) - Reserve) \div Dests

Share == (Worth(UnlockedAt(source)) \div (k - tries) - Reserve) \div Dests

Size ==
    /\ pc = "size"
    /\ amount' = Share
    /\ pc' = IF Share <= 0 THEN "source" ELSE "transfer"
    /\ UNCHANGED <<wallet, round, source, tries, k, blind, lost>>

Transfer ==
    /\ pc = "transfer"
    /\ \E is \in Picks : Sent(is)
    /\ sent' = sent + 1
    /\ tries' = tries + 1
    /\ pc' = IF tries' = k THEN "source" ELSE "size"
    /\ UNCHANGED <<mined, unlocked, total, per, sources, need, source, k, amount, blind, lost>>

(* The wallet refuses, and nothing is sent. *)
Refused ==
    /\ pc = "transfer"
    /\ pc' = "source"
    /\ UNCHANGED <<wallet, round, turn, blind, lost>>

(* The transaction is sent and the answer does not come. *)
AnswerLost ==
    /\ pc = "transfer" /\ lost < MaxLost
    /\ \E is \in Picks : Sent(is)
    /\ lost' = lost + 1
    /\ pc' = "source"
    /\ UNCHANGED <<mined, unlocked, round, turn, blind>>

(* A read that raises ends the script. *)
ReadRaises ==
    /\ pc \in {"total", "balance", "plan", "size"}
    /\ pc' = "raised"
    /\ UNCHANGED <<wallet, round, turn, blind, lost>>

Script ==
    \/ ReadTotal \/ ReadBalance \/ Done \/ NothingUnlocked \/ Plan \/ TakeSource
    \/ RoundOver \/ Size \/ Transfer \/ Refused \/ AnswerLost \/ ReadRaises

Next == Script \/ Mine \/ Unlock

(* The script runs on, the chain mines and matures what it was sent, and a
   wallet that is asked for a transfer again and again does not refuse for
   ever. *)
Spec ==
    /\ Init /\ [][Next]_vars
    /\ WF_vars(Script) /\ SF_vars(Transfer) /\ WF_vars(Mine) /\ WF_vars(Unlock)

-----------------------------------------------------------------------------
(* Properties *)

(* A transfer is never asked for more than its subaddress can pay, the
   transfers of the same round before it notwithstanding. *)
Affordable ==
    pc = "transfer" /\ Fee <= Reserve => Worth(UnlockedAt(source)) >= Needed

(* What is pending when a round begins is not counted, and is sent again.
   The excess does not build up from round to round: however many rounds it
   takes, the script goes beyond the target by less than one transaction, by
   those pending when some one round began, and by those whose answers were
   lost. *)
NoOvershoot ==
    Len(coins) <= Max({Len(Funds), Target + Dests}) + (blind + lost) * (Dests + 1)

(* It comes to its end, whatever is refused in between, and then the wallet
   has received the target. *)
ReachesTarget ==
    <>(pc = "raised" \/ (pc = "done" /\ Cardinality(Received) >= Target))
=============================================================================

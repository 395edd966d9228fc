---------------------------- MODULE ReceiverPool ----------------------------
(***************************************************************************)
(* What the treasury workload promises about its receivers, without the    *)
(* files, locks, drivers and queries that keep the promise: a receiver is  *)
(* reserved, then committed to one withdrawal, and free for another only   *)
(* when that withdrawal is decided.  A decision is final.  The guided      *)
(* receiver is never reused after a payment.  TreasuryPool shows that      *)
(* TreasuryClaims implements this.                                         *)
(***************************************************************************)
CONSTANTS
    Receivers,
    Withdrawals,
    Guided,        \* the receiver that is kept back once it was paid
    NoWithdrawal

VARIABLES
    reserved,      \* receivers taken for a withdrawal that nobody signed yet
    attached,      \* the withdrawal that a receiver is committed to
    outcome        \* what has become of each withdrawal

poolVars == <<reserved, attached, outcome>>

Outcomes == {"unsigned", "open", "paid", "void"}

PoolInit ==
    /\ reserved = {}
    /\ attached = [r \in Receivers |-> NoWithdrawal]
    /\ outcome = [w \in Withdrawals |-> "unsigned"]

Reserve(r) ==
    /\ r \notin reserved
    /\ attached[r] = NoWithdrawal
    /\ reserved' = reserved \cup {r}
    /\ UNCHANGED <<attached, outcome>>

GiveUp(r) ==
    /\ r \in reserved
    /\ reserved' = reserved \ {r}
    /\ UNCHANGED <<attached, outcome>>

\* A withdrawal that is signed too late for its validity bound is void at once.
Commit(r, w) ==
    /\ r \in reserved
    /\ outcome[w] = "unsigned"
    /\ reserved' = reserved \ {r}
    /\ attached' = [attached EXCEPT ![r] = w]
    /\ \E o \in {"open", "void"} : outcome' = [outcome EXCEPT ![w] = o]

\* An immutable block may decide several withdrawals.
Decide ==
    /\ outcome' # outcome
    /\ outcome' \in [Withdrawals -> Outcomes]
    /\ \A w \in Withdrawals :
        outcome'[w] # outcome[w] => outcome[w] = "open" /\ outcome'[w] \in {"paid", "void"}
    /\ UNCHANGED <<reserved, attached>>

Release(r) ==
    /\ attached[r] # NoWithdrawal
    /\ outcome[attached[r]] \in (IF r = Guided THEN {"void"} ELSE {"paid", "void"})
    /\ attached' = [attached EXCEPT ![r] = NoWithdrawal]
    /\ UNCHANGED <<reserved, outcome>>

PoolNext ==
    \/ \E r \in Receivers : Reserve(r) \/ GiveUp(r) \/ Release(r)
    \/ \E r \in Receivers, w \in Withdrawals : Commit(r, w)
    \/ Decide

PoolSpec == PoolInit /\ [][PoolNext]_poolVars
=============================================================================

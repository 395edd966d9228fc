-------------------------- MODULE TreasuryRecovery --------------------------
(***************************************************************************)
(* The end of the treasury workload.  When the faults have stopped, the    *)
(* composer kills the other drivers and runs the recovery driver           *)
(* (eventually_treasury_withdrawal.py): it looks at the guided receiver's  *)
(* claim, with the observe() and under the locks of the observe driver,    *)
(* until it has seen the payment or a budget of RecoveryEpochs epochs is   *)
(* spent.                                                                  *)
(*                                                                         *)
(* The budget is time: checks polls with a sleep after each.  A poll takes *)
(* much less than a slot of the model, so the model lets the chain go on   *)
(* only after a poll was completed since the chain's last step; a poll may *)
(* still straddle one.  The budget is measured by the volatile tip, which  *)
(* grows at least as long as time passes once the faults have stopped.     *)
(***************************************************************************)
EXTENDS TreasuryPool

CONSTANT LastTestSlot    \* bound: the volatile tip while faults are injected

\* An epoch is ten times the k / f slots by which the immutable tip falls behind.
ASSUME RecoveryAssumption ==
    /\ LastTestSlot \in Nat
    /\ Observers # {}
    /\ Window <= EpochLength

VARIABLES
    phase,       \* "testing", "recovery", "over"
    start,       \* slot of the volatile tip when the recovery driver starts
    polled,      \* a poll was completed since the chain's last step
    witnessed,   \* the current poll saw a terminal payout
    recovered    \* treasury_withdrawal_recovered: reported true or false, or not yet

recoveryVars == <<phase, start, polled, witnessed, recovered>>
allVars == <<vars, recoveryVars>>

\* Faulty: enactment is two boundaries away, and the immutable tip as well.
RecoveryEpochsTwo == 2

RecoveryEpochs == 3

RecoveryInit ==
    /\ Init
    /\ phase = "testing"
    /\ start = NoSlot
    /\ polled = FALSE
    /\ witnessed = FALSE
    /\ recovered = "unknown"

\* The workload under faults.
Testing ==
    /\ phase = "testing"
    /\ Next
    /\ volatileSlot' <= LastTestSlot
    /\ UNCHANGED recoveryVars

\* Every other driver is killed: its locals are gone and the kernel drops its locks.
Recover ==
    /\ phase = "testing"
    /\ phase' = "recovery"
    /\ start' = volatileSlot
    /\ submissionLock' = Nobody
    /\ observerLock' = Nobody
    /\ receiverLock' = [i \in Receivers |-> Nobody]
    /\ cPC' = [c \in Creators |-> "idle"]
    /\ cTried' = [c \in Creators |-> {}]
    /\ cIdx' = [c \in Creators |-> NoReceiver]
    /\ cEpoch' = [c \in Creators |-> NoEpoch]
    /\ cPre' = [c \in Creators |-> 0]
    /\ cTx' = [c \in Creators |-> NoTx]
    /\ vPC' = [v \in Voters |-> "idle"]
    /\ vProps' = [v \in Voters |-> {}]
    /\ oPC' = [o \in Observers |-> "idle"]
    /\ oLive' = [o \in Observers |-> {}]
    /\ oTodo' = [o \in Observers |-> {}]
    /\ oIdx' = [o \in Observers |-> NoReceiver]
    /\ oRec' = [o \in Observers |-> NoClaim]
    /\ oTip' = [o \in Observers |-> NoSlot]
    /\ oState' = [o \in Observers |-> NoSlot]
    /\ oBalance' = [o \in Observers |-> NoSlot]
    /\ UNCHANGED <<ledgerVars, claim, alarms, polled, witnessed, recovered>>

\* What is broadcast may still land; no more rollbacks.
RecoveryChain ==
    /\ phase = "recovery"
    /\ polled
    /\ LedgerStep
    /\ ~Rollback
    /\ polled' = FALSE
    /\ UNCHANGED <<phase, start, witnessed, recovered>>

\* Both locks are free, since no other driver runs: take them, read the guided
\* claim, then the live set.
PollTake(o) ==
    /\ phase = "recovery"
    /\ oPC[o] = "idle"
    /\ GuidedReceiver \in Pending
    /\ observerLock' = o
    /\ receiverLock' = [receiverLock EXCEPT ![GuidedReceiver] = o]
    /\ oTodo' = [oTodo EXCEPT ![o] = {GuidedReceiver}]
    /\ oIdx' = [oIdx EXCEPT ![o] = GuidedReceiver]
    /\ oRec' = [oRec EXCEPT ![o] = claim[GuidedReceiver]]
    /\ oLive' = [oLive EXCEPT ![o] = {t \in Txs : LiveAt(t, volatileSlot)}]
    /\ oPC' = [oPC EXCEPT ![o] = "tip"]
    /\ UNCHANGED <<ledgerVars, claim, submissionLock, creatorVars, voterVars, oTip, oState,
                   oBalance, alarms, recoveryVars>>

\* "guided recipient claim is missing"
PollMissing(o) ==
    /\ phase = "recovery"
    /\ oPC[o] = "idle"
    /\ GuidedReceiver \notin Pending
    /\ ~polled
    /\ polled' = TRUE
    /\ UNCHANGED <<vars, phase, start, witnessed, recovered>>

\* observe(), whose result is the payout.
PollObserve(o) ==
    /\ phase = "recovery"
    /\ oPC[o] # "idle"
    /\ \/ ObserverReclaim(o) \/ ObserverTip(o) \/ ObserverState(o) \/ ObserverBalance(o)
       \/ ObserverRetry(o) \/ ObserverCheck(o) \/ ObserverNoteExpiry(o) \/ ObserverWait(o)
       \/ ObserverResolve(o)
    /\ witnessed' = (witnessed \/ (oPC[o] = "resolve" /\ oPC'[o] = "scan"
                                    /\ ~ImmutableLive(o) /\ ~Undecided(o) /\ Paid(o)))
    /\ UNCHANGED <<phase, start, polled, recovered>>

\* A query fails, or three snapshots in a row were inconsistent: this was no poll.
PollFails(o) ==
    /\ phase = "recovery"
    /\ oPC[o] \in {"tip", "state", "balance", "check"}
    /\ ObserverEnd(o)
    /\ UNCHANGED recoveryVars

\* The poll is over and the locks are dropped; a payout ends the driver.
PollEnd(o) ==
    /\ phase = "recovery"
    /\ ObserverDone(o)
    /\ polled' = TRUE
    /\ phase' = IF witnessed THEN "over" ELSE phase
    /\ recovered' = IF witnessed THEN "yes" ELSE recovered
    /\ UNCHANGED <<start, witnessed>>

\* The last poll was in vain.
RecoveryFails ==
    /\ phase = "recovery"
    /\ polled
    /\ \A o \in Observers : oPC[o] = "idle"
    /\ volatileSlot >= start + RecoveryEpochs * EpochLength
    /\ phase' = "over"
    /\ recovered' = "no"
    /\ UNCHANGED <<vars, start, polled, witnessed>>

\* One process runs the recovery driver; any observer's locals serve it.
Recoverer == CHOOSE o \in Observers : TRUE

RecoveryNext ==
    \/ Testing \/ Recover \/ RecoveryChain \/ RecoveryFails
    \/ PollTake(Recoverer) \/ PollMissing(Recoverer) \/ PollObserve(Recoverer)
    \/ PollFails(Recoverer) \/ PollEnd(Recoverer)

RecoverySpec == RecoveryInit /\ [][RecoveryNext]_allVars
-----------------------------------------------------------------------------
\* treasury_withdrawal_recovered is never false for a withdrawal that the ledger
\* treated well: when the guided action has its votes on the chain before the
\* recovery driver starts, ratification, enactment and their way to the immutable
\* tip fit into its budget, and no kill or observer has lost the claim; and it is
\* true only for an action that the immutable ledger has paid.
RecoveryVerdict ==
    /\ recovered = "no" =>
         ~ \E t \in Signed : /\ txReceiver[t] = GuidedReceiver
                             /\ approvedAt[t] # NoSlot
                             /\ approvedAt[t] <= start
    /\ recovered = "yes" => PaidAt(ReceiverId(GuidedReceiver), immutableSlot)
=============================================================================

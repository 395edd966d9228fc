------------------------------ MODULE VoteQueue ------------------------------
(***************************************************************************)
(* The two workloads that vote on what is live on the chain: InfoActions   *)
(* (DReps, pools, committee) and ParameterChanges (DReps, committee).      *)
(* "The chain IS the queue": no record is kept, every tick asks the node   *)
(* for the live actions, picks the first one that lacks votes, and sends   *)
(* all that are missing in one transaction.  A lock of the workload keeps  *)
(* its drivers apart; a payment address, locked too, pays for each tick.   *)
(*                                                                         *)
(* The two workloads have no action and no vote lock in common: a          *)
(* behaviour is that of one of them.  The ledger is external: actions are  *)
(* listed for an epoch longer than they can be voted on, and transactions  *)
(* wait in the mempool, are included, and may be rolled back or dropped.   *)
(***************************************************************************)
EXTENDS Integers, FiniteSets

CONSTANTS
    Actions,    \* the governance actions a behaviour may submit: the order of their ids
    DReps, SPOs, CC,   \* the credentials that vote
    Creators,   \* drivers that create an action
    VoteDrivers, \* drivers that vote
    NumAddrs,   \* NUM_PAYMENT_ADDRS
    Lifetime,   \* epochs an action can be voted on after the one it is listed in
    MaxEpoch,   \* bound: epochs in which actions are created
    MaxPending, \* bound: vote transactions in the mempool
    Nobody      \* the holder of a free lock

ASSUME QueueAssumption ==
    /\ Actions \subseteq Nat
    /\ Nobody \notin Creators \cup VoteDrivers
    /\ Creators \cap VoteDrivers = {}
    /\ NumAddrs \in Nat \ {0}
    /\ Lifetime \in Nat
    /\ MaxEpoch \in Nat

Drivers == Creators \cup VoteDrivers
Credentials == DReps \cup SPOs \cup CC
NoVotes == [a \in Actions |-> {}]
NoJob == [actions |-> {}, voters |-> {}, fills |-> FALSE]

VARIABLES
    workload,   \* "info" or "pparam", for a whole behaviour
    epoch,      \* the epoch of the volatile tip
    stage,      \* of an action: "none", "sent", "listed" or "gone"
    expires,    \* expiresAfter of a listed action
    recorded,   \* the credentials whose vote is on the chain
    mempool,    \* vote transactions that may still be included, and who waits for each
    voteLock,   \* info_votes.lock or pparam_votes.lock
    paying,     \* the holders of the addr_<i>.lock, one address each
    pc,         \* what a driver does next
    snap,       \* a vote driver's answer: the live actions and the votes on them
    job,        \* the action or the votes that a driver submits; fills: the missing votes
    stray       \* history: votes that came in transit when nobody was waiting for them
                \* any more, and that no driver has seen on the chain since

chainVars == <<epoch, stage, expires, recorded, mempool>>
vars == <<workload, chainVars, voteLock, paying, pc, snap, job, stray>>

NoSnap == [live |-> {}, votes |-> NoVotes]

Init ==
    /\ workload \in {"info", "pparam"}
    /\ epoch = 0
    /\ stage = [a \in Actions |-> "none"]
    /\ expires = [a \in Actions |-> 0]
    /\ recorded = NoVotes
    /\ mempool = {}
    /\ voteLock = Nobody
    /\ paying = {}
    /\ pc = [d \in Drivers |-> "idle"]
    /\ snap = [d \in VoteDrivers |-> NoSnap]
    /\ job = [d \in Drivers |-> NoJob]
    /\ stray = NoVotes
-----------------------------------------------------------------------------
(* The ledger *)

Pending(a) == UNION {tx.voters : tx \in {t \in mempool : t.action = a}}

Listed == {a \in Actions : stage[a] = "listed"}
Expired(a) == expires[a] < epoch

\* An action is cleaned up an epoch after it expired.  The bounds: epochs are counted
\* while something is listed, and none ends after MaxEpoch but for the clean-up.
AdvanceEpoch ==
    /\ Listed # {}
    /\ epoch < MaxEpoch \/ \E a \in Listed : Expired(a)
    /\ epoch' = epoch + 1
    /\ LET old == {a \in Listed : expires[a] < epoch} IN
        /\ stage' = [a \in Actions |-> IF a \in old THEN "gone" ELSE stage[a]]
        /\ recorded' = [a \in Actions |-> IF a \in old THEN {} ELSE recorded[a]]
        /\ expires' = [a \in Actions |-> IF a \in old THEN 0 ELSE expires[a]]
        /\ stray' = [a \in Actions |-> IF a \in old THEN {} ELSE stray[a]]
        /\ mempool' = {tx \in mempool : tx.action \notin old}
    /\ UNCHANGED <<workload, voteLock, paying, pc, snap, job>>

List(a) ==
    /\ stage[a] = "sent"
    /\ stage' = [stage EXCEPT ![a] = "listed"]
    /\ expires' = [expires EXCEPT ![a] = epoch + Lifetime]
    /\ UNCHANGED <<workload, epoch, recorded, mempool, voteLock, paying, pc, snap, job, stray>>

\* Votes on an expired action are refused.
Record ==
    \E tx \in mempool :
        /\ mempool' = mempool \ {tx}
        /\ recorded' = IF Expired(tx.action) THEN recorded
                       ELSE [recorded EXCEPT ![tx.action] = @ \cup tx.voters]
        /\ UNCHANGED <<workload, epoch, stage, expires, voteLock, paying, pc, snap, job, stray>>

\* A fork loses votes; their transaction is in the mempool again, or is not.
Rollback ==
    \E a \in Listed : \E lost \in SUBSET recorded[a] \ {{}} :
        /\ recorded' = [recorded EXCEPT ![a] = @ \ lost]
        /\ mempool' \in {mempool, mempool \cup
                {[sender |-> Nobody, action |-> a, voters |-> lost, fills |-> FALSE]}}
        /\ Cardinality(mempool') <= MaxPending
        /\ stray' = [stray EXCEPT ![a] = @ \cup lost]
        /\ UNCHANGED <<workload, epoch, stage, expires, voteLock, paying, pc, snap, job>>
-----------------------------------------------------------------------------
(* What the drivers have in common *)

\* try_acquire_payment_addr: it may be that the address drawn is in use.
Pay(d) ==
    /\ Cardinality(paying) < NumAddrs
    /\ paying' = paying \cup {d}

\* A driver returns, or is killed: the kernel drops its locks.
Leave(d) ==
    /\ pc' = [pc EXCEPT ![d] = "idle"]
    /\ voteLock' = IF voteLock = d THEN Nobody ELSE voteLock
    /\ paying' = paying \ {d}
    /\ snap' = [v \in VoteDrivers |-> IF v = d THEN NoSnap ELSE snap[v]]
    /\ job' = [job EXCEPT ![d] = NoJob]

Sent(d) == {tx \in mempool : tx.sender = d}
\* Nobody waits for it: votes in transit, whatever they were meant to fill.
Abandoned(tx) == [tx EXCEPT !.sender = Nobody, !.fills = FALSE]

\* A kill, a failed query, a refused or unanswered submission: what the driver has
\* sent stays where it is.
Quit(d) ==
    /\ pc[d] # "idle"
    /\ Leave(d)
    /\ mempool' = (mempool \ Sent(d)) \cup {Abandoned(tx) : tx \in Sent(d)}
    /\ stray' = [a \in Actions |->
                   stray[a] \cup UNION {tx.voters : tx \in {t \in Sent(d) : t.action = a}}]
    /\ UNCHANGED <<workload, epoch, stage, expires, recorded>>
-----------------------------------------------------------------------------
(* The create driver *)

CreatorStart(d) ==
    /\ pc[d] = "idle"
    /\ Pay(d)
    /\ \E a \in Actions :
        /\ stage[a] = "none"
        /\ \A c \in Creators : a \notin job[c].actions
        /\ job' = [job EXCEPT ![d] = [actions |-> {a}, voters |-> {}, fills |-> FALSE]]
    /\ pc' = [pc EXCEPT ![d] = "submit"]
    /\ UNCHANGED <<workload, chainVars, voteLock, snap, stray>>

CreatorSubmit(d) ==
    /\ pc[d] = "submit"
    /\ stage' = [a \in Actions |-> IF a \in job[d].actions THEN "sent" ELSE stage[a]]
    /\ pc' = [pc EXCEPT ![d] = "wait"]
    /\ UNCHANGED <<workload, epoch, expires, recorded, mempool, voteLock, paying, snap, job, stray>>

CreatorConfirm(d) ==
    /\ pc[d] = "wait"
    /\ \A a \in job[d].actions : stage[a] # "sent"
    /\ Leave(d)
    /\ UNCHANGED <<workload, chainVars, stray>>

CreatorStep(d) == CreatorSubmit(d) \/ CreatorConfirm(d)
-----------------------------------------------------------------------------
(* The vote drivers *)

\* Faulty: every driver gets the lock.
Anyone(d) == TRUE

LockFree(d) == voteLock = Nobody

VoterStart(d) ==
    /\ pc[d] = "idle"
    /\ LockFree(d)
    /\ voteLock' = d
    /\ Pay(d)
    /\ pc' = [pc EXCEPT ![d] = "query"]
    /\ UNCHANGED <<workload, chainVars, snap, job, stray>>

VoterQuery(d) ==
    /\ pc[d] = "query"
    /\ snap' = [snap EXCEPT ![d] = [live |-> Listed, votes |-> recorded]]
    /\ pc' = [pc EXCEPT ![d] = "pick"]
    /\ stray' = [a \in Actions |-> stray[a] \cap Pending(a)]
    /\ UNCHANGED <<workload, chainVars, voteLock, paying, job>>

\* build_voters: pools have no say in the parameters that the workload changes.
Roster == IF workload = "info" THEN Credentials ELSE DReps \cup CC

\* Faulty: the last epoch in which an action can be voted on is left out as well.
QueueEarly(d) == {a \in snap[d].live : workload = "pparam" => expires[a] > epoch}

\* The pparam driver leaves out what has expired by now, the info driver does not.
Queue(d) == {a \in snap[d].live : workload = "pparam" => ~Expired(a)}

Missing(d, a) == Roster \ snap[d].votes[a]

\* The first of some actions: an action id breaks a tie.
Foremost(S) ==
    {a \in S : \A b \in S : expires[a] < expires[b] \/ (expires[a] = expires[b] /\ a <= b)}

Lacking(d) == Foremost({a \in Queue(d) : Missing(d, a) # {}})

\* All missing votes of the first action that lacks some; when none does, one vote
\* is cast again, on one of the first three, which the bound makes all there are.
VoterPick(d) ==
    /\ pc[d] = "pick"
    /\ \/ \E a \in Lacking(d) :
            job' = [job EXCEPT ![d] = [actions |-> {a}, voters |-> Missing(d, a), fills |-> TRUE]]
       \/ /\ Lacking(d) = {}
          /\ \E a \in Queue(d), v \in Roster :
                job' = [job EXCEPT ![d] = [actions |-> {a}, voters |-> {v}, fills |-> FALSE]]
    /\ pc' = [pc EXCEPT ![d] = "submit"]
    /\ snap' = [snap EXCEPT ![d] = NoSnap]
    /\ UNCHANGED <<workload, chainVars, voteLock, paying, stray>>

\* The node takes it, unless the action is gone or has expired.
VoterSubmit(d) ==
    /\ pc[d] = "submit"
    /\ \E a \in job[d].actions :
        /\ stage[a] = "listed"
        /\ ~Expired(a)
        /\ mempool' = mempool \cup
                {[sender |-> d, action |-> a, voters |-> job[d].voters, fills |-> job[d].fills]}
        /\ Cardinality(mempool') <= MaxPending
    /\ pc' = [pc EXCEPT ![d] = "wait"]
    /\ UNCHANGED <<workload, epoch, stage, expires, recorded, voteLock, paying, snap, job, stray>>

\* submit_tx returns once the transaction is on the chain.
VoterConfirm(d) ==
    /\ pc[d] = "wait"
    /\ Sent(d) = {}
    /\ \A a \in job[d].actions : job[d].voters \subseteq recorded[a]
    /\ Leave(d)
    /\ UNCHANGED <<workload, chainVars, stray>>

VoterGoesOn(d) == VoterQuery(d) \/ VoterPick(d) \/ VoterSubmit(d) \/ VoterConfirm(d)
VoterStep(d) == VoterStart(d) \/ VoterGoesOn(d)

Next ==
    \/ AdvanceEpoch \/ Record \/ Rollback
    \/ \E a \in Actions : List(a)
    \/ \E d \in Creators : CreatorStart(d) \/ CreatorStep(d)
    \/ \E d \in VoteDrivers : VoterStep(d)
    \/ \E d \in Drivers : Quit(d)

Spec == Init /\ [][Next]_vars
-----------------------------------------------------------------------------
(* Properties *)

\* "This workload's lock prevents concurrent stale snapshots from replacing the same
\* credentials": a batch of missing votes whose driver waits for it replaces none but
\* strays, votes that a killed or failed driver, or a fork, had left in transit.  (The
\* lock does not outlive its holder: these may replace, or be replaced.)
OnlyStraysReplaced ==
    \A tx \in mempool :
        tx.fills => tx.voters \cap recorded[tx.action] \subseteq stray[tx.action]

\* A driver that has nothing to send, or whose transaction is refused or lost.
Ends(d) ==
    \/ pc[d] = "pick" /\ Queue(d) = {}
    \/ pc[d] = "submit" /\ \E a \in job[d].actions : stage[a] # "listed" \/ Expired(a)
    \/ pc[d] = "wait" /\ \E a \in job[d].actions :
            ~(job[d].voters \subseteq recorded[a] \cup Pending(a))

VotesLost == \E a \in Listed : stage'[a] = "listed" /\ ~(recorded[a] \subseteq recorded'[a])
Stops(d) == pc[d] # "idle" /\ pc'[d] = "idle"

\* A fork, or a driver that stops although it could go on.
FaultStep ==
    \/ VotesLost
    \/ \E d \in Creators : Stops(d) /\ ~CreatorConfirm(d)
    \/ \E d \in VoteDrivers : Stops(d) /\ ~VoterConfirm(d) /\ ~Ends(d)

\* Faults stop in the end; the node goes on, drivers end their ticks, and new ticks
\* are started again and again.
Fairness ==
    /\ <>[][~FaultStep]_vars
    /\ WF_vars(AdvanceEpoch) /\ WF_vars(Record) /\ WF_vars(\E a \in Actions : List(a))
    /\ WF_vars(\E d \in Creators : CreatorStep(d))
    /\ WF_vars(\E d \in VoteDrivers : VoterStart(d))
    /\ \A d \in VoteDrivers : WF_vars(VoterGoesOn(d) \/ (Ends(d) /\ Quit(d)))

FairSpec == Spec /\ Fairness

\* "A transient submit/lock failure is self-healing": in the end every live action
\* has the votes of the whole roster, whatever was interrupted, and although expired
\* actions that lack votes stay at the head of the queue of the info workload, before
\* live ones, until their clean-up.
EveryActionVoted == <>[](\A a \in Listed : Roster \subseteq recorded[a])
=============================================================================

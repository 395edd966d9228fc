--------------------------- MODULE TreasuryClaims ---------------------------
(***************************************************************************)
(* The treasury-withdrawal workload: drivers that create withdrawals, vote *)
(* on them and observe their outcome, as separate processes that the test  *)
(* composer starts in parallel and may kill at any step.  They share the   *)
(* chain (GovLedger), one claim file per receiver, and kernel file locks   *)
(* that vanish with the process that holds them.                           *)
(*                                                                         *)
(*   create driver    claims a free receiver, signs a withdrawal to it,    *)
(*                    journals the transaction id, broadcasts              *)
(*   vote driver      approves the guided receiver's action, leaves the    *)
(*                    expiry receiver's alone, votes at random on the rest *)
(*   observe driver   compares the receiver's reward balance with its      *)
(*                    baseline and releases claims whose fate is settled   *)
(***************************************************************************)
EXTENDS GovLedger

CONSTANTS
    NumDReps,        \* receivers are 1 .. NumDReps
    Registered,      \* the receivers whose address file exists
    Creators,        \* concurrently scheduled runs of the create driver
    Voters,          \* ... of the vote driver
    Observers,       \* ... of the observe driver
    Nobody,          \* holder of a free lock
    NoTx,            \* absent transaction id
    Decisions,       \* what a random vote may be: "yes", or "no" for NO and ABSTAIN
    LastCreateSlot   \* bound: no withdrawal is prepared after this slot

GuidedReceiver == 1
ExpiryReceiver == 2
StaleClaimEpochs == 2
Receivers == 1 .. NumDReps
NoReceiver == 0
NoEpoch == -1

ASSUME WorkloadAssumption ==
    /\ NumDReps \in Nat
    /\ Registered \subseteq Receivers
    /\ LastCreateSlot \in Nat
    /\ Nobody \notin Creators \cup Voters \cup Observers
    /\ Creators \cap (Voters \cup Observers) = {}
    /\ Voters \cap Observers = {}
    /\ NoTx \notin Txs
    /\ Decisions \subseteq {"yes", "no"}
    /\ IsFiniteSet(Txs)

VARIABLES
    claim,           \* the file recv_<i>.json of each receiver
    submissionLock,  \* holder of treasury-submit.lock
    observerLock,    \* holder of treasury-observer.lock
    receiverLock,    \* holder of treasury-receiver-<i>.lock
    cPC, cTried, cIdx, cEpoch, cPre, cTx,             \* create drivers
    vPC, vProps,                                      \* vote drivers
    oPC, oLive, oTodo, oIdx, oRec, oTip, oState, oBalance, \* observe drivers
    alarms           \* the Always assertions that have been reported false

lockVars     == <<submissionLock, observerLock, receiverLock>>
creatorVars  == <<cPC, cTried, cIdx, cEpoch, cPre, cTx>>
voterVars    == <<vPC, vProps>>
observerVars == <<oPC, oLive, oTodo, oIdx, oRec, oTip, oState, oBalance>>
vars == <<ledgerVars, claim, lockVars, creatorVars, voterVars, observerVars, alarms>>
-----------------------------------------------------------------------------
(* Claim files *)

\* What the file holds: nothing ("absent"), no byte yet ("torn": created and
\* not written), the baseline ("claimed"), the validity bound as well
\* ("prepared"), the transaction id as well ("journalled").
Claim == [file          : {"absent", "torn", "claimed", "prepared", "journalled"},
          claimedEpoch  : Int,
          preBalance    : Int,
          validUntil    : Int,
          tx            : Txs \cup {NoTx},
          ratifiedEpoch : Int,
          expiresAfter  : Int]

NoClaim == [file |-> "absent", claimedEpoch |-> NoEpoch, preBalance |-> 0,
            validUntil |-> NoSlot, tx |-> NoTx,
            ratifiedEpoch |-> NoEpoch, expiresAfter |-> NoEpoch]

TornClaim == [NoClaim EXCEPT !.file = "torn"]

\* Faulty: a claim without a transaction id is not listed.
PendingJournalledOnly == {i \in Receivers : claim[i].file = "journalled"}

\* pending_recv_slots skips a file it cannot parse.
Pending == {i \in Receivers : claim[i].file \notin {"absent", "torn"}}

\* Faulty: the receiver's entry disappears with its file.
ReleaseRecvSlotDropping(i) == claim' = [j \in Receivers \ {i} |-> claim[j]]

ReleaseRecvSlot(i) == claim' = [claim EXCEPT ![i] = NoClaim]

\* receiver_id: the action a receiver's claim names, if it is journalled.
ReceiverId(i) ==
    IF i \in Receivers /\ claim[i].file = "journalled" THEN claim[i].tx ELSE NoTx
-----------------------------------------------------------------------------
Init ==
    /\ LedgerInit
    /\ claim = [i \in Receivers |-> NoClaim]
    /\ submissionLock = Nobody
    /\ observerLock = Nobody
    /\ receiverLock = [i \in Receivers |-> Nobody]
    /\ cPC = [c \in Creators |-> "idle"]
    /\ cTried = [c \in Creators |-> {}]
    /\ cIdx = [c \in Creators |-> NoReceiver]
    /\ cEpoch = [c \in Creators |-> NoEpoch]
    /\ cPre = [c \in Creators |-> 0]
    /\ cTx = [c \in Creators |-> NoTx]
    /\ vPC = [v \in Voters |-> "idle"]
    /\ vProps = [v \in Voters |-> {}]
    /\ oPC = [o \in Observers |-> "idle"]
    /\ oLive = [o \in Observers |-> {}]
    /\ oTodo = [o \in Observers |-> {}]
    /\ oIdx = [o \in Observers |-> NoReceiver]
    /\ oRec = [o \in Observers |-> NoClaim]
    /\ oTip = [o \in Observers |-> NoSlot]
    /\ oState = [o \in Observers |-> NoSlot]
    /\ oBalance = [o \in Observers |-> NoSlot]
    /\ alarms = {}
-----------------------------------------------------------------------------
(* The create driver *)

CreatorUnlock(c) ==
    receiverLock' = [i \in Receivers |-> IF receiverLock[i] = c THEN Nobody ELSE receiverLock[i]]

\* What the scan for a receiver needed.
CreatorForget(c) ==
    /\ cTried' = [cTried EXCEPT ![c] = {}]
    /\ cEpoch' = [cEpoch EXCEPT ![c] = NoEpoch]
    /\ cPre' = [cPre EXCEPT ![c] = 0]

\* The process ends: its locals are gone and the kernel drops its locks.
CreatorEnd(c) ==
    /\ CreatorUnlock(c)
    /\ submissionLock' = IF submissionLock = c THEN Nobody ELSE submissionLock
    /\ cPC' = [cPC EXCEPT ![c] = "idle"]
    /\ cIdx' = [cIdx EXCEPT ![c] = NoReceiver]
    /\ CreatorForget(c)
    /\ cTx' = [cTx EXCEPT ![c] = NoTx]
    /\ UNCHANGED observerLock

CreatorStart(c) ==
    /\ cPC[c] = "idle"
    /\ submissionLock = Nobody
    /\ volatileSlot <= LastCreateSlot
    /\ Signed # Txs
    /\ submissionLock' = c
    /\ cPC' = [cPC EXCEPT ![c] = "scan"]
    /\ cEpoch' = [cEpoch EXCEPT ![c] = EpochOf(volatileSlot)]
    /\ UNCHANGED <<ledgerVars, claim, observerLock, receiverLock, cTried, cIdx, cPre, cTx,
                   voterVars, observerVars, alarms>>

\* The guided receiver, then the expiry receiver, then the others in an order
\* the random rotation chooses.  One without an address file is passed over.
Candidate(c, i) ==
    /\ i \in Registered \ cTried[c]
    /\ \A j \in Registered \ cTried[c] : j < i => j > ExpiryReceiver

\* Its lock is taken or a claim is pending.
CreatorPass(c) ==
    /\ cPC[c] = "scan"
    /\ \E i \in Registered :
        /\ Candidate(c, i)
        /\ receiverLock[i] # Nobody \/ i \in Pending
        /\ cTried' = [cTried EXCEPT ![c] = @ \cup {i}]
    /\ UNCHANGED <<ledgerVars, claim, lockVars, cPC, cIdx, cEpoch, cPre, cTx,
                   voterVars, observerVars, alarms>>

\* Faulty: an account is assumed to start empty.
ZeroBaseline(i) == 0

Baseline(i) == Balance(i, immutableSlot)

\* Lock the receiver and read its balance at the immutable tip.
CreatorLock(c) ==
    /\ cPC[c] = "scan"
    /\ \E i \in Registered \ Pending :
        /\ Candidate(c, i)
        /\ receiverLock[i] = Nobody
        /\ receiverLock' = [receiverLock EXCEPT ![i] = c]
        /\ cIdx' = [cIdx EXCEPT ![c] = i]
        /\ cPre' = [cPre EXCEPT ![c] = Baseline(i)]
    /\ cPC' = [cPC EXCEPT ![c] = "claim"]
    /\ UNCHANGED <<ledgerVars, claim, submissionLock, observerLock, cTried, cEpoch, cTx,
                   voterVars, observerVars, alarms>>

\* O_EXCL: the file is created empty, or it exists (unreadable, or it would be
\* pending) and the next receiver is tried.
CreatorClaim(c) ==
    /\ cPC[c] = "claim"
    /\ \/ /\ claim[cIdx[c]].file = "absent"
          /\ claim' = [claim EXCEPT ![cIdx[c]] = TornClaim]
          /\ cPC' = [cPC EXCEPT ![c] = "write"]
          /\ UNCHANGED <<receiverLock, cTried, cIdx, cPre>>
       \/ /\ claim[cIdx[c]].file # "absent"
          /\ cTried' = [cTried EXCEPT ![c] = @ \cup {cIdx[c]}]
          /\ cIdx' = [cIdx EXCEPT ![c] = NoReceiver]
          /\ cPre' = [cPre EXCEPT ![c] = 0]
          /\ CreatorUnlock(c)
          /\ cPC' = [cPC EXCEPT ![c] = "scan"]
          /\ UNCHANGED claim
    /\ UNCHANGED <<ledgerVars, submissionLock, observerLock, cEpoch, cTx,
                   voterVars, observerVars, alarms>>

CreatorWrite(c) ==
    /\ cPC[c] = "write"
    /\ claim' = [claim EXCEPT ![cIdx[c]] =
                    [NoClaim EXCEPT !.file = "claimed",
                                    !.claimedEpoch = cEpoch[c],
                                    !.preBalance = cPre[c]]]
    /\ cPC' = [cPC EXCEPT ![c] = "prepare"]
    /\ CreatorForget(c)
    /\ UNCHANGED <<ledgerVars, lockVars, cIdx, cTx, voterVars, observerVars, alarms>>

\* No transaction of this withdrawal can be included at or after validUntil.
CreatorPrepare(c) ==
    /\ cPC[c] = "prepare"
    /\ volatileSlot <= LastCreateSlot
    /\ claim' = [claim EXCEPT ![cIdx[c]] =
                    [@ EXCEPT !.file = "prepared", !.validUntil = volatileSlot + EpochLength]]
    /\ cPC' = [cPC EXCEPT ![c] = "sign"]
    /\ UNCHANGED <<ledgerVars, lockVars, cTried, cIdx, cEpoch, cPre, cTx,
                   voterVars, observerVars, alarms>>

\* Sign the transaction, journal its id in the claim, and unlock the receiver:
\* from here on the observers own the claim.
CreatorJournal(c) ==
    /\ cPC[c] = "sign"
    /\ \E t \in Txs \ Signed :
        /\ txReceiver' = [txReceiver EXCEPT ![t] = cIdx[c]]
        /\ txValidUntil' = [txValidUntil EXCEPT ![t] = claim[cIdx[c]].validUntil]
        /\ claim' = [claim EXCEPT ![cIdx[c]] = [@ EXCEPT !.file = "journalled", !.tx = t]]
        /\ cTx' = [cTx EXCEPT ![c] = t]
    /\ CreatorUnlock(c)
    /\ cPC' = [cPC EXCEPT ![c] = "submit"]
    /\ UNCHANGED <<volatileSlot, immutableSlot, submitted, votesCast, includedAt, approvedAt,
                   submissionLock, observerLock, cTried, cIdx, cEpoch, cPre,
                   voterVars, observerVars, alarms>>

\* Broadcast.  A call that fails may have reached the node or not.
CreatorSubmit(c) ==
    /\ cPC[c] = "submit"
    /\ submitted' \in {submitted, submitted \cup {cTx[c]}}
    /\ CreatorEnd(c)
    /\ UNCHANGED <<volatileSlot, immutableSlot, votesCast, includedAt, approvedAt, txReceiver,
                   txValidUntil, claim, voterVars, observerVars, alarms>>

\* No receiver is free, a query fails, or the claim file cannot be written:
\* the tick ends and its claim file stays as it is.
CreatorQuit(c) ==
    /\ cPC[c] \in {"scan", "claim", "write"}
    /\ CreatorEnd(c)
    /\ UNCHANGED <<ledgerVars, claim, voterVars, observerVars, alarms>>

\* An exception before the journal: the claim is released, then the lock.
CreatorFail(c) ==
    /\ cPC[c] \in {"prepare", "sign"}
    /\ ReleaseRecvSlot(cIdx[c])
    /\ CreatorEnd(c)
    /\ UNCHANGED <<ledgerVars, voterVars, observerVars, alarms>>

CreatorCrash(c) ==
    /\ cPC[c] # "idle"
    /\ CreatorEnd(c)
    /\ UNCHANGED <<ledgerVars, claim, voterVars, observerVars, alarms>>

CreatorStep(c) ==
    \/ CreatorPass(c) \/ CreatorLock(c) \/ CreatorClaim(c) \/ CreatorWrite(c)
    \/ CreatorPrepare(c) \/ CreatorJournal(c) \/ CreatorSubmit(c)
    \/ CreatorQuit(c) \/ CreatorFail(c) \/ CreatorCrash(c)
-----------------------------------------------------------------------------
(* The vote driver *)

VoterEnd(v) ==
    /\ vPC' = [vPC EXCEPT ![v] = "idle"]
    /\ vProps' = [vProps EXCEPT ![v] = {}]
    /\ submissionLock' = Nobody
    /\ UNCHANGED <<observerLock, receiverLock>>

\* Read the live withdrawals at the volatile tip; there is one at least.
VoterQuery(v) ==
    /\ vPC[v] = "idle"
    /\ submissionLock = Nobody
    /\ \E t \in Txs : LiveAt(t, volatileSlot)
    /\ submissionLock' = v
    /\ vProps' = [vProps EXCEPT ![v] = {t \in Txs : LiveAt(t, volatileSlot)}]
    /\ vPC' = [vPC EXCEPT ![v] = "cast"]
    /\ UNCHANGED <<ledgerVars, claim, observerLock, receiverLock, creatorVars,
                   observerVars, alarms>>

\* Faulty: the expiry receiver's action is a candidate like any other.
CandidatesWithExpiry(v) == vProps[v] \ {ReceiverId(GuidedReceiver)}

\* Faulty: so is the guided receiver's.
CandidatesWithGuided(v) == vProps[v] \ {ReceiverId(ExpiryReceiver)}

VoteCandidates(v) ==
    vProps[v] \ {ReceiverId(GuidedReceiver), ReceiverId(ExpiryReceiver)}

\* Approve the guided action while a YES vote on it is missing; otherwise a
\* random decision on an action that is neither the guided nor the expiry one.
VoterCast(v) ==
    /\ vPC[v] = "cast"
    /\ LET guided == ReceiverId(GuidedReceiver) IN
          \/ /\ guided \in vProps[v]
             /\ votesCast' = votesCast \cup {<<guided, "yes">>}
          \/ /\ guided \in vProps[v] => <<guided, "yes">> \in votesCast
             /\ \E t \in VoteCandidates(v), decision \in Decisions :
                    votesCast' = votesCast \cup {<<t, decision>>}
    /\ VoterEnd(v)
    /\ UNCHANGED <<volatileSlot, immutableSlot, submitted, includedAt, approvedAt, txReceiver,
                   txValidUntil, claim, creatorVars, observerVars, alarms>>

\* No candidate, a failed query or submission, or the process is killed.
VoterQuit(v) ==
    /\ vPC[v] = "cast"
    /\ VoterEnd(v)
    /\ UNCHANGED <<ledgerVars, claim, creatorVars, observerVars, alarms>>

VoterStep(v) == VoterCast(v) \/ VoterQuit(v)
-----------------------------------------------------------------------------
(* The observe driver *)

ObserverForget(o) ==
    /\ oIdx' = [oIdx EXCEPT ![o] = NoReceiver]
    /\ oRec' = [oRec EXCEPT ![o] = NoClaim]
    /\ oTip' = [oTip EXCEPT ![o] = NoSlot]
    /\ oState' = [oState EXCEPT ![o] = NoSlot]
    /\ oBalance' = [oBalance EXCEPT ![o] = NoSlot]

\* Done with this receiver: unlock it and go on with the list.
ObserverNext(o) ==
    /\ receiverLock' = [receiverLock EXCEPT ![oIdx[o]] = Nobody]
    /\ oTodo' = [oTodo EXCEPT ![o] = @ \ {oIdx[o]}]
    /\ oPC' = [oPC EXCEPT ![o] = "scan"]
    /\ ObserverForget(o)
    /\ UNCHANGED <<submissionLock, observerLock, oLive>>

\* The volatile live set is read once, before the claims.
ObserverQuery(o) ==
    /\ oPC[o] = "idle"
    /\ observerLock = Nobody
    /\ observerLock' = o
    /\ oLive' = [oLive EXCEPT ![o] = {t \in Txs : LiveAt(t, volatileSlot)}]
    /\ oPC' = [oPC EXCEPT ![o] = "list"]
    /\ UNCHANGED <<ledgerVars, claim, submissionLock, receiverLock, creatorVars, voterVars,
                   oTodo, oIdx, oRec, oTip, oState, oBalance, alarms>>

ObserverList(o) ==
    /\ oPC[o] = "list"
    /\ oTodo' = [oTodo EXCEPT ![o] = Pending]
    /\ oPC' = [oPC EXCEPT ![o] = "scan"]
    /\ UNCHANGED <<ledgerVars, claim, lockVars, creatorVars, voterVars,
                   oLive, oIdx, oRec, oTip, oState, oBalance, alarms>>

\* The receivers are visited in order.
NextTodo(o, i) == i \in oTodo[o] /\ \A j \in oTodo[o] : i <= j

\* Faulty: the lock is not taken into account.
UnlockedPending(i) == i \in Pending

Available(i) == receiverLock[i] = Nobody /\ i \in Pending

\* Its lock is taken, or its claim is gone since it was listed.
ObserverPass(o) ==
    /\ oPC[o] = "scan"
    /\ \E i \in oTodo[o] :
        /\ NextTodo(o, i)
        /\ ~Available(i)
        /\ oTodo' = [oTodo EXCEPT ![o] = @ \ {i}]
    /\ UNCHANGED <<ledgerVars, claim, lockVars, creatorVars, voterVars,
                   oPC, oLive, oIdx, oRec, oTip, oState, oBalance, alarms>>

\* Lock the receiver and read its claim again: a creator may have replaced it.
ObserverTake(o) ==
    /\ oPC[o] = "scan"
    /\ \E i \in oTodo[o] :
        /\ NextTodo(o, i)
        /\ Available(i)
        /\ receiverLock' = [receiverLock EXCEPT ![i] = o]
        /\ oIdx' = [oIdx EXCEPT ![o] = i]
        /\ oRec' = [oRec EXCEPT ![o] = claim[i]]
    /\ oPC' = [oPC EXCEPT ![o] = "tip"]
    /\ UNCHANGED <<ledgerVars, claim, submissionLock, observerLock, creatorVars, voterVars,
                   oLive, oTodo, oTip, oState, oBalance, alarms>>

\* Faulty: the age alone decides.
AnyClaim(o) == TRUE

\* Not journalled, so never broadcast: only its age decides.
NeverBroadcast(o) == oRec[o].file # "journalled"

Abandoned(o) == EpochOf(immutableSlot) - oRec[o].claimedEpoch >= StaleClaimEpochs

ObserverReclaim(o) ==
    /\ oPC[o] = "tip"
    /\ NeverBroadcast(o)
    /\ IF Abandoned(o) THEN ReleaseRecvSlot(oIdx[o]) ELSE UNCHANGED claim
    /\ ObserverNext(o)
    /\ UNCHANGED <<ledgerVars, creatorVars, voterVars, alarms>>

\* immutable_snapshot: tip, governance state, balance, and the tip again, each
\* a query of its own that the immutable tip may overtake.
ObserverTip(o) ==
    /\ oPC[o] = "tip"
    /\ oRec[o].file = "journalled"
    /\ oTip' = [oTip EXCEPT ![o] = immutableSlot]
    /\ oPC' = [oPC EXCEPT ![o] = "state"]
    /\ UNCHANGED <<ledgerVars, claim, lockVars, creatorVars, voterVars,
                   oLive, oTodo, oIdx, oRec, oState, oBalance, alarms>>

ObserverState(o) ==
    /\ oPC[o] = "state"
    /\ oState' = [oState EXCEPT ![o] = immutableSlot]
    /\ oPC' = [oPC EXCEPT ![o] = "balance"]
    /\ UNCHANGED <<ledgerVars, claim, lockVars, creatorVars, voterVars,
                   oLive, oTodo, oIdx, oRec, oTip, oBalance, alarms>>

ObserverBalance(o) ==
    /\ oPC[o] = "balance"
    /\ oBalance' = [oBalance EXCEPT ![o] = immutableSlot]
    /\ oPC' = [oPC EXCEPT ![o] = "check"]
    /\ UNCHANGED <<ledgerVars, claim, lockVars, creatorVars, voterVars,
                   oLive, oTodo, oIdx, oRec, oTip, oState, alarms>>

SameTip(o) == immutableSlot = oTip[o]

ObserverRetry(o) ==
    /\ oPC[o] = "check"
    /\ ~SameTip(o)
    /\ oPC' = [oPC EXCEPT ![o] = "tip"]
    /\ oTip' = [oTip EXCEPT ![o] = NoSlot]
    /\ oState' = [oState EXCEPT ![o] = NoSlot]
    /\ oBalance' = [oBalance EXCEPT ![o] = NoSlot]
    /\ UNCHANGED <<ledgerVars, claim, lockVars, creatorVars, voterVars,
                   oLive, oTodo, oIdx, oRec, alarms>>

\* A query fails, or three snapshots in a row were inconsistent: the claim is
\* left for another tick.
ObserverSkip(o) ==
    /\ oPC[o] \in {"tip", "state", "balance", "check"}
    /\ ObserverNext(o)
    /\ UNCHANGED <<ledgerVars, claim, creatorVars, voterVars, alarms>>

Delta(o) == Balance(oIdx[o], oBalance[o]) - oRec[o].preBalance

RaiseIf(condition, alarm) == IF condition THEN {alarm} ELSE {}

\* Faulty: the query leaves out --immutable-tip.
VolatileRatification(o) == RatifiedAt(oRec[o].tx, volatileSlot)

RatificationSeen(o) == RatifiedAt(oRec[o].tx, oState[o])

\* The overpayment assertion, and the ratification evidence of this epoch.
ObserverCheck(o) ==
    /\ oPC[o] = "check"
    /\ SameTip(o)
    /\ alarms' = alarms \cup RaiseIf(Delta(o) \notin 0 .. 1, "no_overpay")
    /\ IF RatificationSeen(o)
       THEN /\ claim' = [claim EXCEPT ![oIdx[o]] =
                            [@ EXCEPT !.ratifiedEpoch = EpochOf(oTip[o])]]
            /\ oRec' = [oRec EXCEPT ![o] = [@ EXCEPT !.ratifiedEpoch = EpochOf(oTip[o])]]
       ELSE UNCHANGED <<claim, oRec>>
    /\ oPC' = [oPC EXCEPT ![o] = "resolve"]
    /\ UNCHANGED <<ledgerVars, lockVars, creatorVars, voterVars,
                   oLive, oTodo, oIdx, oTip, oState, oBalance>>

ImmutableLive(o) == LiveAt(oRec[o].tx, oState[o])

RatificationKnown(o) == oRec[o].ratifiedEpoch # NoEpoch

\* Faulty: absence is final at once.
UndecidedWithoutValidity(o) ==
    \/ oRec[o].tx \in oLive[o]
    \/ RatificationKnown(o) /\ EpochOf(oTip[o]) <= oRec[o].ratifiedEpoch

\* Faulty: a withdrawal nobody ever saw included is waited for.
UndecidedUntilIncluded(o) == oRec[o].expiresAfter = NoEpoch

\* Still live at the volatile tip, or a delayed inclusion is still possible, or
\* the ratified action is enacted at the next boundary.
Undecided(o) ==
    \/ oRec[o].tx \in oLive[o]
    \/ oTip[o] < oRec[o].validUntil
    \/ RatificationKnown(o) /\ EpochOf(oTip[o]) <= oRec[o].ratifiedEpoch

\* The action is live at the immutable tip: note when it expires.
ObserverNoteExpiry(o) ==
    /\ oPC[o] = "resolve"
    /\ ImmutableLive(o)
    /\ claim' = [claim EXCEPT ![oIdx[o]] =
                    [@ EXCEPT !.expiresAfter = ExpiresAfter(oRec[o].tx)]]
    /\ ObserverNext(o)
    /\ UNCHANGED <<ledgerVars, creatorVars, voterVars, alarms>>

ObserverWait(o) ==
    /\ oPC[o] = "resolve"
    /\ ~ImmutableLive(o)
    /\ Undecided(o)
    /\ ObserverNext(o)
    /\ UNCHANGED <<ledgerVars, claim, creatorVars, voterVars, alarms>>

Paid(o) == Delta(o) = 1

Expired(o) ==
    /\ oRec[o].expiresAfter # NoEpoch
    /\ EpochOf(oTip[o]) > oRec[o].expiresAfter
    /\ ~RatificationKnown(o)

\* Faulty: every resolved claim is released.
NeverRetained(o) == FALSE

\* A paid guided receiver and an expired expiry receiver stay reserved, so that
\* a late payment to them is noticed.
Retained(o) ==
    \/ oIdx[o] = GuidedReceiver /\ Paid(o)
    \/ oIdx[o] = ExpiryReceiver /\ Expired(o)

ObserverResolve(o) ==
    /\ oPC[o] = "resolve"
    /\ ~ImmutableLive(o)
    /\ ~Undecided(o)
    /\ alarms' = alarms
         \cup RaiseIf(RatificationKnown(o) /\ ~Paid(o), "payout_matches_ratification")
         \cup RaiseIf(oIdx[o] = ExpiryReceiver /\ Expired(o) /\ Delta(o) # 0, "expired_no_payout")
    /\ IF Retained(o) THEN UNCHANGED claim ELSE ReleaseRecvSlot(oIdx[o])
    /\ ObserverNext(o)
    /\ UNCHANGED <<ledgerVars, creatorVars, voterVars>>

ObserverEnd(o) ==
    /\ observerLock' = Nobody
    /\ receiverLock' = [i \in Receivers |-> IF receiverLock[i] = o THEN Nobody ELSE receiverLock[i]]
    /\ oPC' = [oPC EXCEPT ![o] = "idle"]
    /\ oLive' = [oLive EXCEPT ![o] = {}]
    /\ oTodo' = [oTodo EXCEPT ![o] = {}]
    /\ ObserverForget(o)
    /\ UNCHANGED <<ledgerVars, claim, submissionLock, creatorVars, voterVars, alarms>>

ObserverDone(o) ==
    /\ oPC[o] = "scan"
    /\ oTodo[o] = {}
    /\ ObserverEnd(o)

\* The process is killed and the kernel drops its locks.
ObserverCrash(o) ==
    /\ oPC[o] # "idle"
    /\ ObserverEnd(o)

ObserverProgress(o) ==
    \/ ObserverQuery(o) \/ ObserverList(o) \/ ObserverPass(o) \/ ObserverTake(o)
    \/ ObserverReclaim(o) \/ ObserverTip(o) \/ ObserverState(o) \/ ObserverBalance(o)
    \/ ObserverRetry(o) \/ ObserverCheck(o) \/ ObserverNoteExpiry(o) \/ ObserverWait(o)
    \/ ObserverResolve(o) \/ ObserverDone(o)

ObserverStep(o) == ObserverProgress(o) \/ ObserverSkip(o) \/ ObserverCrash(o)
-----------------------------------------------------------------------------
LedgerStep ==
    /\ LedgerNext
    /\ UNCHANGED <<claim, lockVars, creatorVars, voterVars, observerVars, alarms>>

Next ==
    \/ LedgerStep
    \/ \E c \in Creators : CreatorStart(c) \/ CreatorStep(c)
    \/ \E v \in Voters : VoterQuery(v) \/ VoterStep(v)
    \/ \E o \in Observers : ObserverStep(o)

Spec == Init /\ [][Next]_vars
-----------------------------------------------------------------------------
(* Properties *)

\* Every variable holds a value of its kind; a lock's holder is a driver that
\* takes that lock.
TypeOK ==
    /\ volatileSlot \in Nat
    /\ immutableSlot \in Nat
    /\ submitted \subseteq Txs
    /\ votesCast \subseteq Txs \X {"yes", "no"}
    /\ includedAt \in [Txs -> Int]
    /\ approvedAt \in [Txs -> Int]
    /\ txReceiver \in [Txs -> Receivers \cup {Unsigned}]
    /\ txValidUntil \in [Txs -> Int]
    /\ claim \in [Receivers -> Claim]
    /\ submissionLock \in Creators \cup Voters \cup {Nobody}
    /\ observerLock \in Observers \cup {Nobody}
    /\ receiverLock \in [Receivers -> Creators \cup Observers \cup {Nobody}]
    /\ cPC \in [Creators -> {"idle", "scan", "claim", "write", "prepare", "sign", "submit"}]
    /\ cTried \in [Creators -> SUBSET Receivers]
    /\ cIdx \in [Creators -> Receivers \cup {NoReceiver}]
    /\ cEpoch \in [Creators -> Int]
    /\ cPre \in [Creators -> Int]
    /\ cTx \in [Creators -> Txs \cup {NoTx}]
    /\ vPC \in [Voters -> {"idle", "cast"}]
    /\ vProps \in [Voters -> SUBSET Txs]
    /\ oPC \in [Observers -> {"idle", "list", "scan", "tip", "state", "balance", "check", "resolve"}]
    /\ oLive \in [Observers -> SUBSET Txs]
    /\ oTodo \in [Observers -> SUBSET Receivers]
    /\ oIdx \in [Observers -> Receivers \cup {NoReceiver}]
    /\ oRec \in [Observers -> Claim]
    /\ oTip \in [Observers -> Int]
    /\ oState \in [Observers -> Int]
    /\ oBalance \in [Observers -> Int]
    /\ alarms \subseteq {"no_overpay", "payout_matches_ratification", "expired_no_payout"}

\* "At most one pending withdrawal is ever attached to a receiver": a signed
\* transaction whose fate is still open is the one its receiver's claim names.
\* This is what lets the observer attribute a balance change to a withdrawal.
OneUnsettledPerReceiver ==
    \A t \in Signed : ~Settled(t) =>
        /\ claim[txReceiver[t]].file = "journalled"
        /\ claim[txReceiver[t]].tx = t

\* The attribution itself: when an observer closes a claim, the balance has grown
\* by the transfer if and only if this claim's own action was enacted, so
\* treasury_withdrawal_enacted_correctly is never reported for another payment.
OutcomeAttributed ==
    \A o \in Observers :
        oPC[o] = "resolve" /\ ~ImmutableLive(o) /\ ~Undecided(o)
            => (Paid(o) <=> PaidAt(oRec[o].tx, oTip[o]))

\* treasury_withdrawal_no_overpay never fires on a ledger that pays correctly:
\* the baseline, the claim and the snapshot always belong to one withdrawal.
NoFalseOverpay == "no_overpay" \notin alarms

\* treasury_withdrawal_payout_matches_ratification never fires on a correct
\* ledger: ratification evidence is only held against a later epoch's balance
\* of the same claim.
NoFalsePayoutMismatch == "payout_matches_ratification" \notin alarms

\* treasury_withdrawal_expired_no_payout never fires on a correct ledger: no
\* voter can get the expiry receiver's action paid.
NoFalseExpiryPayout == "expired_no_payout" \notin alarms

\* While an observer examines a receiver, nobody changes that receiver's claim
\* file: what the observer read under the lock is what it acts on.
ObservedClaimIsCurrent ==
    \A o \in Observers :
        oPC[o] \in {"tip", "state", "balance", "check", "resolve"} => claim[oIdx[o]] = oRec[o]

\* No vote is cast on the expiry receiver's action while it can still matter,
\* although voters read the chain before they read which claim is which.
ExpiryLaneUnvoted ==
    \A t \in Signed, d \in {"yes", "no"} :
        txReceiver[t] = ExpiryReceiver /\ <<t, d>> \in votesCast => Settled(t)

\* Random voting never overwrites the guided receiver's approvals.
GuidedVotesKept ==
    \A t \in Signed :
        txReceiver[t] = GuidedReceiver /\ <<t, "no">> \in votesCast => Settled(t)

\* A guided claim that was paid, and an expiry claim that was seen to expire,
\* are never released: a late second payment would hide in the next baseline.
LanesRetained ==
    [][ /\ LET t == ReceiverId(GuidedReceiver) IN
             t # NoTx /\ PaidAt(t, immutableSlot) => ReceiverId(GuidedReceiver)' = t
        /\ LET t == ReceiverId(ExpiryReceiver) IN
             t # NoTx /\ claim[ExpiryReceiver].expiresAfter # NoEpoch
                => ReceiverId(ExpiryReceiver)' = t ]_vars

-----------------------------------------------------------------------------
(* Liveness *)

\* Once the injected faults have stopped, slots pass and the immutable tip
\* follows them; the composer schedules observers again and again.  A creator or
\* voter that has started comes to its end, completed, failed or killed.
FaultStep ==
    \/ Rollback
    \/ \E o \in Observers : (ObserverSkip(o) \/ ObserverCrash(o)) /\ ~ObserverProgress(o)

Fairness ==
    /\ <>[][~FaultStep]_vars
    /\ WF_vars(ExtendChain /\ LedgerStep)
    /\ WF_vars(SettleBlock /\ LedgerStep)
    /\ \A c \in Creators : WF_vars(CreatorStep(c))
    /\ \A v \in Voters : WF_vars(VoterStep(v))
    /\ \A o \in Observers : WF_vars(ObserverProgress(o))

FairSpec == Spec /\ Fairness

\* A claim that a creator wrote and left behind before journalling is released.
AbandonedClaimReclaimed ==
    \A i \in Receivers :
        [](claim[i].file \in {"claimed", "prepared"} /\ receiverLock[i] = Nobody
            => <>(claim[i].file = "absent"))

\* "Claims abandoned before the pre-broadcast journal are reclaimable": the same,
\* for a creator killed between creating its claim file and writing it.
TornClaimReclaimed ==
    \A i \in Receivers :
        [](claim[i].file = "torn" /\ receiverLock[i] = Nobody => <>(claim[i].file = "absent"))

\* A journalled withdrawal, broadcast or not, is settled in the end, and its
\* receiver is free again unless it is one of the two retained lanes.
UncertainSubmissionResolved ==
    \A i \in Receivers, t \in Txs :
        [](ReceiverId(i) = t
            => <>(\/ ReceiverId(i) # t
                  \/ i = GuidedReceiver /\ PaidAt(t, immutableSlot)
                  \/ i = ExpiryReceiver /\ claim[i].expiresAfter # NoEpoch
                                        /\ Settled(t) /\ approvedAt[t] = NoSlot))
=============================================================================

----------------------------- MODULE GovLedger ------------------------------
(***************************************************************************)
(* The Cardano chain as the governance drivers see it through the node of  *)
(* relay1: a volatile tip that extends and rolls back, an immutable tip    *)
(* that never does, treasury-withdrawal actions that are included, voted,  *)
(* ratified, paid or expired.  The node and the ledger are not part of the *)
(* repository; this module keeps what the drivers rely on when they query  *)
(* gov-state, the tip and a reward account, each with or without           *)
(* --immutable-tip.                                                        *)
(*                                                                         *)
(* The ledger's state at a slot s of the current chain is a function of    *)
(* the slots at which actions were included and approved, so a query is an *)
(* operator of a slot: LiveAt(t, s), RatifiedAt(t, s), Balance(i, s).      *)
(* One transaction carries one action (ix = 0 in the code), and every      *)
(* withdrawal transfers one unit.                                          *)
(***************************************************************************)
EXTENDS Integers, FiniteSets

CONSTANTS
    Txs,             \* the withdrawal transactions a behaviour may sign
    EpochLength,     \* slots per epoch, from the genesis file
    ActionLifetime,  \* epochs a proposal stays open after its own
    Window,          \* slots the volatile tip may be ahead of the immutable tip
    MaxSlot          \* bound: the volatile tip stops here

ASSUME LedgerAssumption ==
    /\ EpochLength \in Nat \ {0}
    /\ ActionLifetime \in Nat
    /\ Window \in Nat
    /\ MaxSlot \in Nat

VARIABLES
    volatileSlot,    \* slot of the volatile tip
    immutableSlot,   \* slot of the immutable tip
    submitted,       \* transactions a node has received
    votesCast,       \* <<action, vote>> of every vote transaction broadcast
    includedAt,      \* slot of the current chain that holds the transaction
    approvedAt,      \* slot whose votes take the action over its threshold
    txReceiver,      \* the signed body: receiver index, 0 when unsigned
    txValidUntil     \* the signed body: invalid-hereafter

ledgerVars == <<volatileSlot, immutableSlot, submitted, votesCast,
                includedAt, approvedAt, txReceiver, txValidUntil>>

NoSlot == -1
Unsigned == 0
-----------------------------------------------------------------------------
EpochOf(s) == s \div EpochLength

Signed == {t \in Txs : txReceiver[t] # Unsigned}

ExpiresAfter(t) == EpochOf(includedAt[t]) + ActionLifetime

\* An approved action is ratified in the epoch after the deciding vote and
\* enacted at the boundary after that one; an action nobody approved is listed
\* as expired for one epoch and removed at the boundary that ends it.
SettlesIn(t) ==
    2 + IF approvedAt[t] # NoSlot THEN EpochOf(approvedAt[t]) ELSE ExpiresAfter(t)

LiveAt(t, s) ==
    /\ includedAt[t] # NoSlot
    /\ includedAt[t] <= s
    /\ EpochOf(s) < SettlesIn(t)

\* Listed by nextRatifyState.enactedGovActions.
RatifiedAt(t, s) == approvedAt[t] # NoSlot /\ EpochOf(s) = EpochOf(approvedAt[t]) + 1

\* Enactment removes the action and credits its receiver in one transition.
PaidAt(t, s) == approvedAt[t] # NoSlot /\ EpochOf(s) >= EpochOf(approvedAt[t]) + 2

Payouts(i, s) == {t \in Txs : txReceiver[t] = i /\ PaidAt(t, s)}
Balance(i, s) == Cardinality(Payouts(i, s))

\* Nothing more can happen to t: it is not live at the immutable tip, and the
\* immutable tip has passed the last slot that could include it.
Settled(t) == txValidUntil[t] <= immutableSlot /\ ~LiveAt(t, immutableSlot)
-----------------------------------------------------------------------------
LedgerInit ==
    /\ volatileSlot = 0
    /\ immutableSlot = 0
    /\ submitted = {}
    /\ votesCast = {}
    /\ includedAt = [t \in Txs |-> NoSlot]
    /\ approvedAt = [t \in Txs |-> NoSlot]
    /\ txReceiver = [t \in Txs |-> Unsigned]
    /\ txValidUntil = [t \in Txs |-> NoSlot]

ExtendChain ==
    /\ volatileSlot < MaxSlot
    /\ volatileSlot < immutableSlot + Window
    /\ volatileSlot' = volatileSlot + 1
    /\ UNCHANGED <<immutableSlot, submitted, votesCast, includedAt, approvedAt,
                   txReceiver, txValidUntil>>

SettleBlock ==
    /\ immutableSlot < volatileSlot
    /\ immutableSlot' = immutableSlot + 1
    /\ UNCHANGED <<volatileSlot, submitted, votesCast, includedAt, approvedAt,
                   txReceiver, txValidUntil>>

\* The node switches to a fork that leaves the chain after slot s.  What the
\* abandoned blocks held returns to the mempool and may be included again.
Rollback ==
    \E s \in immutableSlot .. (volatileSlot - 1) :
        /\ volatileSlot' = s
        /\ includedAt' = [t \in Txs |-> IF includedAt[t] > s THEN NoSlot ELSE includedAt[t]]
        /\ approvedAt' = [t \in Txs |-> IF approvedAt[t] > s THEN NoSlot ELSE approvedAt[t]]
        /\ UNCHANGED <<immutableSlot, submitted, votesCast, txReceiver, txValidUntil>>

\* A block may hold t: no block of the chain does, and the validity bound is ahead.
MayInclude(t) ==
    /\ t \in submitted
    /\ includedAt[t] = NoSlot
    /\ immutableSlot < volatileSlot
    /\ volatileSlot < txValidUntil[t]

\* The block at the volatile tip holds t.  It may also never be included: a
\* submission can be lost, and another transaction can spend its input.
Include(t) ==
    /\ MayInclude(t)
    /\ includedAt' = [includedAt EXCEPT ![t] = volatileSlot]
    /\ UNCHANGED <<volatileSlot, immutableSlot, submitted, votesCast, approvedAt,
                   txReceiver, txValidUntil>>

\* A YES vote in the block at the volatile tip decides the action.
Approve(t) ==
    /\ <<t, "yes">> \in votesCast
    /\ approvedAt[t] = NoSlot
    /\ immutableSlot < volatileSlot
    /\ includedAt[t] # NoSlot
    /\ EpochOf(volatileSlot) <= ExpiresAfter(t)
    /\ approvedAt' = [approvedAt EXCEPT ![t] = volatileSlot]
    /\ UNCHANGED <<volatileSlot, immutableSlot, submitted, votesCast, includedAt,
                   txReceiver, txValidUntil>>

LedgerNext ==
    \/ ExtendChain
    \/ SettleBlock
    \/ Rollback
    \/ \E t \in Txs : Include(t) \/ Approve(t)
=============================================================================

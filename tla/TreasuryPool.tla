---------------------------- MODULE TreasuryPool ----------------------------
(***************************************************************************)
(* TreasuryClaims implements ReceiverPool.  A receiver is reserved while   *)
(* its claim file exists without a transaction id, and attached to the     *)
(* transaction that a journalled claim names; a withdrawal is decided when *)
(* it is settled at the immutable tip.                                     *)
(***************************************************************************)
EXTENDS TreasuryClaims

Decision(t) ==
    IF t \notin Signed THEN "unsigned"
    ELSE IF ~Settled(t) THEN "open"
    ELSE IF PaidAt(t, immutableSlot) THEN "paid" ELSE "void"

Reserved == {i \in Receivers : claim[i].file \in {"torn", "claimed", "prepared"}}
Attached == [i \in Receivers |-> ReceiverId(i)]
Outcome == [t \in Txs |-> Decision(t)]

Pool == INSTANCE ReceiverPool WITH
            Withdrawals  <- Txs,
            Guided       <- GuidedReceiver,
            NoWithdrawal <- NoTx,
            reserved     <- Reserved,
            attached     <- Attached,
            outcome      <- Outcome

\* Whatever drivers, kills, lost submissions and rollbacks do to the claim files,
\* each step of the workload is a step of the abstract pool or none: a receiver
\* is never taken from an undecided withdrawal, a decision is never revised, and a
\* paid guided receiver is kept.
ImplementsReceiverPool == Pool!PoolSpec
=============================================================================

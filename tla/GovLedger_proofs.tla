-------------------------- MODULE GovLedger_proofs --------------------------
(***************************************************************************)
(* Lemmas about the chain: what a step of the ledger preserves.            *)
(***************************************************************************)
EXTENDS GovLedger, FiniteSetTheorems, TLAPS

\* The types the lemmas need.
LedgerTypeOK ==
    /\ volatileSlot \in Nat
    /\ immutableSlot \in Nat
    /\ submitted \subseteq Txs
    /\ includedAt \in [Txs -> Int]
    /\ approvedAt \in [Txs -> Int]
    /\ txValidUntil \in [Txs -> Int]

\* An included transaction was submitted, and is on the chain before its
\* validity bound.
InclusionInv ==
    \A t \in Txs : includedAt[t] # NoSlot =>
        /\ t \in submitted
        /\ 0 <= includedAt[t]
        /\ includedAt[t] <= volatileSlot
        /\ includedAt[t] < txValidUntil[t]

\* The deciding vote is on the chain, after its action and while it is open.
ApprovalInv ==
    \A t \in Txs : approvedAt[t] # NoSlot =>
        /\ includedAt[t] # NoSlot
        /\ includedAt[t] <= approvedAt[t]
        /\ approvedAt[t] <= volatileSlot
        /\ EpochOf(approvedAt[t]) <= ExpiresAfter(t)

LedgerInv ==
    /\ LedgerTypeOK
    /\ immutableSlot <= volatileSlot
    /\ submitted \subseteq Signed
    /\ InclusionInv
    /\ ApprovalInv
-----------------------------------------------------------------------------
\* The epoch of a slot is a number.
LEMMA EpochType == ASSUME NEW s \in Int PROVE EpochOf(s) \in Int
  BY LedgerAssumption, SMTT(20) DEF EpochOf

\* A later slot is in the same epoch or a later one.
LEMMA EpochMonotone ==
  ASSUME NEW r \in Int, NEW s \in Int, r <= s PROVE EpochOf(r) <= EpochOf(s)
  BY LedgerAssumption, SMTT(30) DEF EpochOf

\* A step of the chain keeps its invariant.
LEMMA LedgerStepInv == LedgerInv /\ LedgerNext => LedgerInv'
<1> SUFFICES ASSUME LedgerInv, LedgerNext PROVE LedgerInv'
  OBVIOUS
<1> USE DEF LedgerInv, LedgerTypeOK, NoSlot
<1>1. CASE ExtendChain
  <2>1. LedgerTypeOK' /\ (immutableSlot <= volatileSlot)' /\ (submitted \subseteq Signed)'
    BY <1>1 DEF ExtendChain, Signed
  <2>2. InclusionInv'
    BY <1>1 DEF ExtendChain, InclusionInv
  <2>3. ApprovalInv'
    BY <1>1 DEF ExtendChain, ApprovalInv, ExpiresAfter, EpochOf
  <2> QED BY <2>1, <2>2, <2>3
<1>2. CASE SettleBlock
  <2>1. LedgerTypeOK' /\ (immutableSlot <= volatileSlot)' /\ (submitted \subseteq Signed)'
    BY <1>2 DEF SettleBlock, Signed
  <2>2. InclusionInv' /\ ApprovalInv'
    BY <1>2 DEF SettleBlock, InclusionInv, ApprovalInv, ExpiresAfter, EpochOf
  <2> QED BY <2>1, <2>2
<1>3. CASE Rollback
  <2>1. PICK s \in immutableSlot .. (volatileSlot - 1) :
          /\ volatileSlot' = s
          /\ includedAt' = [t \in Txs |-> IF includedAt[t] > s THEN NoSlot ELSE includedAt[t]]
          /\ approvedAt' = [t \in Txs |-> IF approvedAt[t] > s THEN NoSlot ELSE approvedAt[t]]
          /\ UNCHANGED <<immutableSlot, submitted, votesCast, txReceiver, txValidUntil>>
    BY <1>3 DEF Rollback
  <2>2. LedgerTypeOK' /\ (immutableSlot <= volatileSlot)' /\ (submitted \subseteq Signed)'
    BY <2>1 DEF Signed
  <2>3. InclusionInv'
    BY <2>1 DEF InclusionInv
  <2>4. ASSUME NEW t \in Txs, approvedAt'[t] # NoSlot
        PROVE  /\ includedAt'[t] # NoSlot
               /\ includedAt'[t] <= approvedAt'[t]
               /\ approvedAt'[t] <= volatileSlot'
               /\ EpochOf(approvedAt'[t]) <= ExpiresAfter(t)'
    <3>1. approvedAt'[t] = approvedAt[t] /\ approvedAt[t] <= s
      BY <2>1, <2>4
    <3>2. includedAt[t] # NoSlot /\ includedAt[t] <= s
      BY <2>4, <3>1 DEF ApprovalInv
    <3>3. includedAt'[t] = includedAt[t]
      BY <2>1, <3>2
    <3> QED BY <2>1, <2>4, <3>1, <3>2, <3>3 DEF ApprovalInv, ExpiresAfter, EpochOf
  <2> QED BY <2>2, <2>3, <2>4 DEF ApprovalInv, EpochOf
<1>4. ASSUME NEW t \in Txs, Include(t) PROVE LedgerInv'
  <2>1. LedgerTypeOK' /\ (immutableSlot <= volatileSlot)' /\ (submitted \subseteq Signed)'
    BY <1>4 DEF Include, Signed
  <2>2. InclusionInv'
    BY <1>4 DEF Include, MayInclude, InclusionInv
  <2>3. approvedAt[t] = NoSlot
    BY <1>4 DEF Include, MayInclude, ApprovalInv
  <2>4. ASSUME NEW u \in Txs, u # t PROVE includedAt'[u] = includedAt[u]
    BY <1>4, <2>4 DEF Include
  <2>5. ApprovalInv'
    BY <1>4, <2>3, <2>4 DEF Include, ApprovalInv, ExpiresAfter, EpochOf
  <2> QED BY <2>1, <2>2, <2>5
<1>5. ASSUME NEW t \in Txs, Approve(t) PROVE LedgerInv'
  <2>1. LedgerTypeOK' /\ (immutableSlot <= volatileSlot)' /\ (submitted \subseteq Signed)'
    BY <1>5 DEF Approve, Signed
  <2>2. InclusionInv'
    BY <1>5 DEF Approve, InclusionInv
  <2>3. ApprovalInv'
    BY <1>5 DEF Approve, ApprovalInv, InclusionInv, ExpiresAfter, EpochOf
  <2> QED BY <2>1, <2>2, <2>3
<1> QED BY <1>1, <1>2, <1>3, <1>4, <1>5 DEF LedgerNext
-----------------------------------------------------------------------------
\* An action can only settle at the boundary of a later epoch than the one in
\* which it was approved, or than the one after its lifetime.
LEMMA SettlesInType ==
  ASSUME LedgerInv, NEW t \in Txs
  PROVE  SettlesIn(t) \in Int
  BY EpochType, LedgerAssumption
     DEF LedgerInv, LedgerTypeOK, SettlesIn, ExpiresAfter, NoSlot

\* What the immutable chain up to slot s says of t is the same after any step.
LEMMA AnswersStable ==
  ASSUME LedgerInv, LedgerNext, NEW t \in Txs, NEW s \in 0 .. immutableSlot
  PROVE  /\ LiveAt(t, s)' = LiveAt(t, s)
         /\ RatifiedAt(t, s)' = RatifiedAt(t, s)
         /\ PaidAt(t, s)' = PaidAt(t, s)
<1> USE DEF LedgerInv, LedgerTypeOK, NoSlot
<1>1. s \in Int /\ EpochOf(s) \in Int /\ s <= volatileSlot /\ s <= immutableSlot
  BY EpochType
<1>2. SettlesIn(t) \in Int
  BY SettlesInType
<1>3. CASE ExtendChain \/ SettleBlock
  BY <1>3 DEF ExtendChain, SettleBlock, LiveAt, RatifiedAt, PaidAt, SettlesIn,
              ExpiresAfter, EpochOf
<1>4. CASE Rollback
  <2>1. PICK r \in immutableSlot .. (volatileSlot - 1) :
          /\ includedAt' = [u \in Txs |-> IF includedAt[u] > r THEN NoSlot ELSE includedAt[u]]
          /\ approvedAt' = [u \in Txs |-> IF approvedAt[u] > r THEN NoSlot ELSE approvedAt[u]]
    BY <1>4 DEF Rollback
  <2>2. CASE includedAt[t] = NoSlot
    <3>1. approvedAt[t] = NoSlot
      BY <2>2 DEF ApprovalInv
    <3>2. includedAt'[t] = NoSlot /\ approvedAt'[t] = NoSlot
      BY <2>1, <2>2, <3>1
    <3> QED BY <2>2, <3>1, <3>2 DEF LiveAt, RatifiedAt, PaidAt
  <2>3. CASE includedAt[t] > r
    <3>1. includedAt'[t] = NoSlot /\ approvedAt'[t] = NoSlot /\ includedAt[t] > s
      BY <2>1, <2>3, <1>1 DEF ApprovalInv
    <3>2. approvedAt[t] # NoSlot => EpochOf(s) <= EpochOf(approvedAt[t]) /\ EpochOf(approvedAt[t]) \in Int
      BY <3>1, <1>1, EpochMonotone, EpochType DEF ApprovalInv
    <3> QED BY <3>1, <3>2, <1>1 DEF LiveAt, RatifiedAt, PaidAt
  <2>4. CASE includedAt[t] # NoSlot /\ includedAt[t] <= r /\ approvedAt[t] <= r
    <3>1. includedAt'[t] = includedAt[t] /\ approvedAt'[t] = approvedAt[t]
      BY <2>1, <2>4
    <3> QED BY <3>1 DEF LiveAt, RatifiedAt, PaidAt, SettlesIn, ExpiresAfter, EpochOf
  <2>5. CASE includedAt[t] # NoSlot /\ includedAt[t] <= r /\ approvedAt[t] > r
    <3>1. includedAt'[t] = includedAt[t] /\ approvedAt'[t] = NoSlot /\ approvedAt[t] > s
      BY <2>1, <2>5, <1>1
    <3>2. EpochOf(s) <= EpochOf(approvedAt[t]) /\ EpochOf(approvedAt[t]) \in Int
      BY <3>1, <1>1, EpochMonotone, EpochType
    <3>3. approvedAt[t] # NoSlot
      BY <2>5, <1>1
    <3>4. ExpiresAfter(t) \in Int /\ ExpiresAfter(t)' = ExpiresAfter(t)
      BY <3>1, EpochType, LedgerAssumption DEF ExpiresAfter, EpochOf
    <3>5. EpochOf(approvedAt[t]) <= ExpiresAfter(t)
      BY <3>3 DEF ApprovalInv
    <3>6. SettlesIn(t)' = 2 + ExpiresAfter(t) /\ SettlesIn(t) = 2 + EpochOf(approvedAt[t])
      BY <3>1, <3>3, <3>4 DEF SettlesIn
    <3>7. EpochOf(s) < SettlesIn(t) /\ EpochOf(s) < SettlesIn(t)'
      BY <3>2, <3>4, <3>5, <3>6, <1>1
    <3>8. EpochOf(s)' = EpochOf(s)
      BY DEF EpochOf
    <3>9. LiveAt(t, s)' = LiveAt(t, s)
      BY <3>1, <3>7, <3>8 DEF LiveAt
    <3>10. ~RatifiedAt(t, s) /\ ~PaidAt(t, s) /\ ~RatifiedAt(t, s)' /\ ~PaidAt(t, s)'
      BY <3>1, <3>2, <1>1 DEF RatifiedAt, PaidAt
    <3> QED BY <3>9, <3>10 DEF LiveAt, RatifiedAt, PaidAt
  <2>6. includedAt[t] \in Int /\ approvedAt[t] \in Int
    OBVIOUS
  <2> QED BY <2>2, <2>3, <2>4, <2>5, <2>6
<1>5. ASSUME NEW u \in Txs, Include(u)
      PROVE  /\ LiveAt(t, s)' = LiveAt(t, s)
             /\ RatifiedAt(t, s)' = RatifiedAt(t, s)
             /\ PaidAt(t, s)' = PaidAt(t, s)
  <2>1. approvedAt' = approvedAt /\ includedAt' = [includedAt EXCEPT ![u] = volatileSlot]
        /\ includedAt[u] = NoSlot /\ s < volatileSlot
    BY <1>5, <1>1 DEF Include, MayInclude
  <2>2. CASE u = t
    <3>1. ~LiveAt(t, s) /\ ~LiveAt(t, s)'
      BY <2>1, <2>2, <1>1 DEF LiveAt
    <3> QED BY <3>1, <2>1 DEF LiveAt, RatifiedAt, PaidAt, EpochOf
  <2>3. CASE u # t
    <3>1. includedAt'[t] = includedAt[t]
      BY <2>1, <2>3
    <3> QED BY <3>1, <2>1 DEF LiveAt, RatifiedAt, PaidAt, SettlesIn, ExpiresAfter, EpochOf
  <2> QED BY <2>2, <2>3
<1>6. ASSUME NEW u \in Txs, Approve(u)
      PROVE  /\ LiveAt(t, s)' = LiveAt(t, s)
             /\ RatifiedAt(t, s)' = RatifiedAt(t, s)
             /\ PaidAt(t, s)' = PaidAt(t, s)
  <2>1. includedAt' = includedAt /\ approvedAt' = [approvedAt EXCEPT ![u] = volatileSlot]
        /\ approvedAt[u] = NoSlot /\ s < volatileSlot
        /\ EpochOf(volatileSlot) <= ExpiresAfter(u)
    BY <1>6, <1>1 DEF Approve
  <2>2. CASE u = t
    <3>1. EpochOf(s) <= EpochOf(volatileSlot) /\ EpochOf(volatileSlot) \in Int
      BY <2>1, <1>1, EpochMonotone, EpochType
    <3>2. approvedAt'[t] = volatileSlot /\ volatileSlot # NoSlot
      BY <2>1, <2>2
    <3>3. ExpiresAfter(t) \in Int /\ EpochOf(s)' = EpochOf(s)
      BY EpochType, LedgerAssumption DEF ExpiresAfter, EpochOf
    <3>4. SettlesIn(t) = 2 + ExpiresAfter(t)
      BY <2>1, <2>2 DEF SettlesIn
    <3>5. SettlesIn(t)' = 2 + EpochOf(volatileSlot)
      BY <3>2 DEF SettlesIn, EpochOf
    <3>6. EpochOf(s) < SettlesIn(t) /\ EpochOf(s) < SettlesIn(t)'
      BY <2>1, <2>2, <3>1, <3>3, <3>4, <3>5, <1>1
    <3>7. LiveAt(t, s)' = LiveAt(t, s)
      BY <2>1, <3>3, <3>6 DEF LiveAt
    <3>8. EpochOf(approvedAt[t])' = EpochOf(volatileSlot)
      BY <3>2 DEF EpochOf
    <3>9. ~RatifiedAt(t, s)' /\ ~PaidAt(t, s)'
      BY <3>1, <3>3, <3>8, <1>1 DEF RatifiedAt, PaidAt
    <3>10. ~RatifiedAt(t, s) /\ ~PaidAt(t, s)
      BY <2>1, <2>2 DEF RatifiedAt, PaidAt
    <3> QED BY <3>7, <3>9, <3>10 DEF LiveAt, RatifiedAt, PaidAt
  <2>3. CASE u # t
    <3>1. approvedAt'[t] = approvedAt[t]
      BY <2>1, <2>3
    <3> QED BY <3>1, <2>1 DEF LiveAt, RatifiedAt, PaidAt, SettlesIn, ExpiresAfter, EpochOf
  <2> QED BY <2>2, <2>3
<1> QED BY <1>3, <1>4, <1>5, <1>6 DEF LedgerNext
-----------------------------------------------------------------------------
\* Absence at one immutable slot is final once the validity bound has passed.
LEMMA AbsentIsSettled ==
  ASSUME LedgerInv, NEW t \in Txs, NEW s \in Int,
         s <= immutableSlot, txValidUntil[t] <= s, ~LiveAt(t, s)
  PROVE  Settled(t)
<1> USE DEF LedgerInv, LedgerTypeOK
<1>1. CASE includedAt[t] = NoSlot
  BY <1>1 DEF Settled, LiveAt
<1>2. CASE includedAt[t] # NoSlot
  <2>1. EpochOf(s) <= EpochOf(immutableSlot) /\ EpochOf(s) \in Int
        /\ EpochOf(immutableSlot) \in Int /\ SettlesIn(t) \in Int
    BY EpochMonotone, EpochType, SettlesInType
  <2>2. includedAt[t] <= s
    BY <1>2 DEF InclusionInv
  <2> QED BY <1>2, <2>1, <2>2 DEF Settled, LiveAt
<1> QED BY <1>1, <1>2

\* The chain never says anything new about a settled action.
LEMMA SettledIsFrozen ==
  ASSUME LedgerInv, LedgerNext, NEW t \in Txs, Settled(t)
  PROVE  includedAt'[t] = includedAt[t] /\ approvedAt'[t] = approvedAt[t]
<1> USE DEF LedgerInv, LedgerTypeOK, NoSlot
<1>1. includedAt[t] # NoSlot => includedAt[t] <= immutableSlot
  BY DEF Settled, InclusionInv
<1>2. includedAt[t] # NoSlot => EpochOf(immutableSlot) >= SettlesIn(t)
  BY <1>1, EpochType, SettlesInType DEF Settled, LiveAt
<1>3. approvedAt[t] # NoSlot => approvedAt[t] <= immutableSlot
  <2> SUFFICES ASSUME approvedAt[t] # NoSlot, approvedAt[t] > immutableSlot PROVE FALSE
    OBVIOUS
  <2>1. includedAt[t] # NoSlot /\ SettlesIn(t) = 2 + EpochOf(approvedAt[t])
    BY DEF ApprovalInv, SettlesIn
  <2>2. EpochOf(immutableSlot) <= EpochOf(approvedAt[t])
        /\ EpochOf(immutableSlot) \in Int /\ EpochOf(approvedAt[t]) \in Int
    BY EpochMonotone, EpochType
  <2> QED BY <1>2, <2>1, <2>2
<1>4. CASE ExtendChain \/ SettleBlock
  BY <1>4 DEF ExtendChain, SettleBlock
<1>5. CASE Rollback
  BY <1>1, <1>3, <1>5 DEF Rollback
<1>6. ASSUME NEW u \in Txs, Include(u)
      PROVE includedAt'[t] = includedAt[t] /\ approvedAt'[t] = approvedAt[t]
  <2>1. u # t
    BY <1>6 DEF Include, MayInclude, Settled
  <2> QED BY <1>6, <2>1 DEF Include
<1>7. ASSUME NEW u \in Txs, Approve(u)
      PROVE includedAt'[t] = includedAt[t] /\ approvedAt'[t] = approvedAt[t]
  <2>1. ASSUME u = t PROVE FALSE
    <3>1. approvedAt[t] = NoSlot /\ includedAt[t] # NoSlot
          /\ EpochOf(volatileSlot) <= ExpiresAfter(t)
      BY <1>7, <2>1 DEF Approve
    <3>2. SettlesIn(t) = 2 + ExpiresAfter(t) /\ ExpiresAfter(t) \in Int
      BY <3>1, EpochType, LedgerAssumption DEF SettlesIn, ExpiresAfter
    <3>3. EpochOf(immutableSlot) <= EpochOf(volatileSlot)
          /\ EpochOf(immutableSlot) \in Int /\ EpochOf(volatileSlot) \in Int
      BY EpochMonotone, EpochType
    <3> QED BY <1>2, <3>1, <3>2, <3>3
  <2> QED BY <1>7, <2>1 DEF Approve
<1> QED BY <1>4, <1>5, <1>6, <1>7 DEF LedgerNext

\* Settled is final, and so is the payment that came with it.
LEMMA SettledStable ==
  ASSUME LedgerInv, LedgerNext, NEW t \in Txs, Settled(t)
  PROVE  Settled(t)' /\ PaidAt(t, immutableSlot)' = PaidAt(t, immutableSlot)
<1> USE DEF LedgerInv, LedgerTypeOK, NoSlot
<1>1. includedAt'[t] = includedAt[t] /\ approvedAt'[t] = approvedAt[t]
  BY SettledIsFrozen
<1>2. immutableSlot <= immutableSlot' /\ immutableSlot' \in Int /\ txValidUntil' = txValidUntil
  <2>1. CASE ExtendChain \/ SettleBlock
    BY <2>1 DEF ExtendChain, SettleBlock
  <2>2. CASE Rollback
    BY <2>2 DEF Rollback
  <2>3. CASE \E u \in Txs : Include(u) \/ Approve(u)
    BY <2>3 DEF Include, Approve
  <2> QED BY <2>1, <2>2, <2>3 DEF LedgerNext
<1>3. /\ EpochOf(immutableSlot) <= EpochOf(immutableSlot')
      /\ EpochOf(immutableSlot) \in Int
      /\ EpochOf(immutableSlot') \in Int
  BY <1>2, EpochMonotone, EpochType
<1>4. SettlesIn(t)' = SettlesIn(t) /\ SettlesIn(t) \in Int
  BY <1>1, SettlesInType DEF SettlesIn, ExpiresAfter, EpochOf
<1>5. EpochOf(immutableSlot)' = EpochOf(immutableSlot')
  BY DEF EpochOf
<1>6. includedAt[t] # NoSlot => EpochOf(immutableSlot) >= SettlesIn(t)
  BY <1>3, <1>4 DEF Settled, LiveAt, InclusionInv
<1>7. Settled(t)'
  BY <1>1, <1>2, <1>3, <1>4, <1>5, <1>6 DEF Settled, LiveAt
<1>8. PaidAt(t, immutableSlot)' = PaidAt(t, immutableSlot)
  <2>1. CASE approvedAt[t] = NoSlot
    BY <1>1, <2>1 DEF PaidAt
  <2>2. CASE approvedAt[t] # NoSlot
    <3>1. includedAt[t] # NoSlot /\ SettlesIn(t) = 2 + EpochOf(approvedAt[t])
          /\ EpochOf(approvedAt[t]) \in Int
      BY <2>2, EpochType DEF ApprovalInv, SettlesIn
    <3>2. EpochOf(approvedAt[t])' = EpochOf(approvedAt[t])
      BY <1>1 DEF EpochOf
    <3> QED BY <1>1, <1>3, <1>5, <1>6, <2>2, <3>1, <3>2 DEF PaidAt
  <2> QED BY <2>1, <2>2
<1> QED BY <1>7, <1>8
=============================================================================

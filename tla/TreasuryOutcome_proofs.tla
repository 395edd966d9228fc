----------------------- MODULE TreasuryOutcome_proofs -----------------------
(***************************************************************************)
(* No false alarm: for any number of receivers, drivers, transactions and  *)
(* slots, an observer attributes a change of a reward balance to the right *)
(* withdrawal, and on a correct ledger none of the Always assertions of    *)
(* the treasury workload is ever reported false.                           *)
(*                                                                         *)
(* To IInv, OutcomeInv adds what a baseline counts (BaselineInv), what a   *)
(* claim file says of its action's fate (EvidenceInv), that the balance    *)
(* and the action agree once the snapshot was confirmed (AttributionInv),  *)
(* and what voters know (VoteInv), so that nobody gets the expiry          *)
(* receiver's action approved (ExpiryInv).                                 *)
(***************************************************************************)
EXTENDS TreasuryClaims_proofs

\* The payouts to receiver i of other withdrawals than the one its claim names.
Earlier(i) == {t \in Txs : txReceiver[t] = i /\ t # ReceiverId(i) /\ PaidAt(t, immutableSlot)}

\* The balance that is the baseline of a claim counts the earlier payouts, from
\* the creator's query to the observer's last one.
BaselineInv ==
    /\ \A c \in Creators, i \in Receivers : cPC[c] \in {"claim", "write"} /\ cIdx[c] = i =>
          cPre[c] = Cardinality(Earlier(i)) /\ claim[i].file \in {"absent", "torn"}
    /\ \A i \in Receivers : claim[i].file \notin {"absent", "torn"} =>
          claim[i].preBalance = Cardinality(Earlier(i))

\* What is noted in a claim file is a fact of the immutable chain about the
\* action the claim names.
Evidence(r) ==
    /\ r.file # "journalled" => r.ratifiedEpoch = NoEpoch /\ r.expiresAfter = NoEpoch
    /\ r.file = "journalled" /\ r.ratifiedEpoch # NoEpoch =>
          /\ approvedAt[r.tx] # NoSlot
          /\ approvedAt[r.tx] <= immutableSlot
          /\ r.ratifiedEpoch = EpochOf(approvedAt[r.tx]) + 1
    /\ r.file = "journalled" /\ r.expiresAfter # NoEpoch =>
          /\ includedAt[r.tx] # NoSlot
          /\ includedAt[r.tx] <= immutableSlot
          /\ r.expiresAfter = ExpiresAfter(r.tx)

EvidenceInv == \A i \in Receivers : Evidence(claim[i])

\* A confirmed snapshot: the balance has grown by what the claim's own action paid.
Attributed(o) ==
    /\ oPC[o] \in {"state", "balance", "check", "resolve"} => 0 <= oTip[o]
    /\ oPC[o] = "resolve" =>
          Delta(o) = IF PaidAt(oRec[o].tx, oTip[o]) THEN 1 ELSE 0

AttributionInv == \A o \in Observers : Attributed(o)

\* Voters know actions that were on the chain, and vote on no other.
VoteInv ==
    /\ \A v \in Voters : vProps[v] \subseteq Signed
    /\ \A t \in Txs, d \in {"yes", "no"} : <<t, d>> \in votesCast => t \in Signed

\* Nobody can get the expiry receiver's action paid.
ExpiryInv == \A t \in Txs : txReceiver[t] = ExpiryReceiver => approvedAt[t] = NoSlot

OutcomeInv ==
    /\ IInv
    /\ BaselineInv
    /\ EvidenceInv
    /\ AttributionInv
    /\ VoteInv
    /\ ExpiryLaneUnvoted
    /\ GuidedVotesKept
    /\ ExpiryInv
    /\ alarms = {}
-----------------------------------------------------------------------------
(* Bodies, claims and payouts *)

\* What a step of a creator makes of a claim.
CreatorWrites(c, i) ==
    \/ claim'[i] = claim[i]
    \/ claim[i].file = "absent" /\ claim'[i] = TornClaim
    \/ claim[i].file \in {"claimed", "prepared"} /\ claim'[i] = NoClaim
    \/ /\ cPC[c] = "write"
       /\ i = cIdx[c]
       /\ claim'[i] = [NoClaim EXCEPT !.file = "claimed",
                                      !.claimedEpoch = cEpoch[c],
                                      !.preBalance = cPre[c]]
    \/ /\ claim[i].file = "claimed"
       /\ \E s \in Int : claim'[i] = [claim[i] EXCEPT !.file = "prepared", !.validUntil = s]
    \/ /\ claim[i].file = "prepared"
       /\ \E t \in Txs \ Signed :
             claim'[i] = [claim[i] EXCEPT !.file = "journalled", !.tx = t]

\* What a step of an observer makes of a claim.
ObserverWrites(o, i) ==
    \/ claim'[i] = claim[i]
    \/ claim[i].file # "journalled" /\ claim'[i] = NoClaim
    \/ /\ ObserverResolve(o)
       /\ i = oIdx[o]
       /\ claim[i].file = "journalled"
       /\ ~Retained(o)
       /\ claim'[i] = NoClaim
    \/ /\ ObserverCheck(o)
       /\ RatificationSeen(o)
       /\ i = oIdx[o]
       /\ claim[i].file = "journalled"
       /\ claim'[i] = [claim[i] EXCEPT !.ratifiedEpoch = EpochOf(oTip[o])]
    \/ /\ ObserverNoteExpiry(o)
       /\ i = oIdx[o]
       /\ claim[i].file = "journalled"
       /\ claim'[i] = [claim[i] EXCEPT !.expiresAfter = ExpiresAfter(claim[i].tx)]

\* A claim file without a baseline notes nothing.
LEMMA EmptyClaims ==
  /\ NoClaim.file = "absent" /\ NoClaim.ratifiedEpoch = NoEpoch /\ NoClaim.expiresAfter = NoEpoch
  /\ TornClaim.file = "torn" /\ TornClaim.ratifiedEpoch = NoEpoch /\ TornClaim.expiresAfter = NoEpoch
  BY DEF NoClaim, TornClaim

\* Every step of a creator is one of these.
LEMMA CreatorWritesClaim ==
  ASSUME IInv, NEW c \in Creators, CreatorStart(c) \/ CreatorStep(c), NEW i \in Receivers
  PROVE  CreatorWrites(c, i)
<1>1. claim \in [Receivers -> Claim]
  BY DEF IInv, TypeOK
<1>2. cPC[c] \in Claiming => cIdx[c] \in Receivers
  BY DEF IInv, LockInv
<1>3. CreatorClaimInv
  BY DEF IInv
<1> USE DEF Claiming
<1>4. CASE CreatorClaim(c)
  BY <1>1, <1>2, <1>4 DEF CreatorClaim, CreatorWrites
<1>5. CASE CreatorWrite(c)
  BY <1>1, <1>2, <1>5 DEF CreatorWrite, CreatorWrites
<1>6. CASE CreatorPrepare(c)
  <2>1. claim[cIdx[c]].file = "claimed" /\ volatileSlot + EpochLength \in Int
    BY <1>3, <1>6, LedgerAssumption DEF CreatorPrepare, CreatorClaimInv, IInv, TypeOK
  <2> QED BY <1>1, <1>2, <1>6, <2>1 DEF CreatorPrepare, CreatorWrites
<1>7. CASE CreatorJournal(c)
  <2>1. claim[cIdx[c]].file = "prepared"
    BY <1>3, <1>7 DEF CreatorJournal, CreatorClaimInv
  <2>2. PICK t \in Txs \ Signed :
          claim' = [claim EXCEPT ![cIdx[c]] = [@ EXCEPT !.file = "journalled", !.tx = t]]
    BY <1>7 DEF CreatorJournal
  <2> QED BY <1>1, <1>2, <2>1, <2>2 DEF CreatorWrites
<1>8. CASE CreatorFail(c)
  <2>1. claim[cIdx[c]].file \in {"claimed", "prepared"}
    BY <1>3, <1>8 DEF CreatorFail, CreatorClaimInv
  <2> QED BY <1>1, <1>2, <1>8, <2>1 DEF CreatorFail, ReleaseRecvSlot, CreatorWrites
<1>9. CASE ~(CreatorClaim(c) \/ CreatorWrite(c) \/ CreatorPrepare(c) \/ CreatorJournal(c)
             \/ CreatorFail(c))
  BY <1>9
  DEF CreatorStep, CreatorStart, CreatorPass, CreatorLock, CreatorSubmit, CreatorQuit,
      CreatorCrash, CreatorWrites
<1> QED BY <1>4, <1>5, <1>6, <1>7, <1>8, <1>9

\* Every step of an observer is one of these.
LEMMA ObserverWritesClaim ==
  ASSUME IInv, NEW o \in Observers, ObserverStep(o), NEW i \in Receivers
  PROVE  ObserverWrites(o, i)
<1>1. claim \in [Receivers -> Claim]
  BY DEF IInv, TypeOK
<1>2. oPC[o] \in Examining => oIdx[o] \in Receivers /\ claim[oIdx[o]] = oRec[o]
  BY DEF IInv, LockInv, ObservedClaimIsCurrent, Examining
<1>3. oPC[o] \in {"check", "resolve"} => oRec[o].file = "journalled"
  BY DEF IInv, SnapshotInv
<1> USE DEF Examining
<1>4. CASE ObserverReclaim(o)
  <2>1. claim[oIdx[o]].file # "journalled"
    BY <1>2, <1>4 DEF ObserverReclaim, NeverBroadcast
  <2>2. claim' = claim \/ claim' = [claim EXCEPT ![oIdx[o]] = NoClaim]
    BY <1>4 DEF ObserverReclaim, ReleaseRecvSlot
  <2> QED BY <1>1, <1>2, <1>4, <2>1, <2>2 DEF ObserverReclaim, ObserverWrites
<1>5. CASE ObserverCheck(o)
  BY <1>1, <1>2, <1>3, <1>5 DEF ObserverCheck, ObserverWrites
<1>6. CASE ObserverNoteExpiry(o)
  BY <1>1, <1>2, <1>3, <1>6 DEF ObserverNoteExpiry, ObserverWrites
<1>7. CASE ObserverResolve(o)
  BY <1>1, <1>2, <1>3, <1>7 DEF ObserverResolve, ReleaseRecvSlot, ObserverWrites
<1>8. CASE ~(ObserverReclaim(o) \/ ObserverCheck(o) \/ ObserverNoteExpiry(o)
             \/ ObserverResolve(o))
  BY <1>8
  DEF ObserverStep, ObserverProgress, ObserverQuery, ObserverList, ObserverPass, ObserverTake,
      ObserverTip, ObserverState, ObserverBalance, ObserverRetry, ObserverWait, ObserverSkip,
      ObserverDone, ObserverCrash, ObserverEnd, ObserverWrites
<1> QED BY <1>4, <1>5, <1>6, <1>7, <1>8

\* A body that was signed stays as it is.
LEMMA BodiesKept ==
  ASSUME IInv, [Next]_vars
  PROVE  /\ Signed \subseteq Signed'
         /\ \A t \in Signed : txReceiver'[t] = txReceiver[t] /\ txValidUntil'[t] = txValidUntil[t]
<1>1. CASE LedgerStep
  <2>1. UNCHANGED <<txReceiver, txValidUntil>>
    BY <1>1 DEF LedgerStep, LedgerNext, ExtendChain, SettleBlock, Rollback, Include, Approve
  <2> QED BY <2>1 DEF Signed
<1>2. CASE \E c \in Creators : CreatorStart(c) \/ CreatorStep(c)
  BY <1>2, CreatorSigns DEF IInv
<1>3. CASE \E v \in Voters : VoterQuery(v) \/ VoterStep(v)
  BY <1>3 DEF VoterQuery, VoterStep, VoterCast, VoterQuit, ledgerVars, Signed
<1>4. CASE \E o \in Observers : ObserverStep(o)
  BY <1>4, ObserverFrame DEF IInv, ledgerVars, Signed
<1>5. CASE UNCHANGED vars
  BY <1>5 DEF vars, ledgerVars, Signed
<1> QED BY <1>1, <1>2, <1>3, <1>4, <1>5 DEF Next

\* What is not signed is not on the chain, nor is what was signed just now.
LEMMA NewBodiesUnpaid ==
  ASSUME IInv, [Next]_vars, NEW t \in Txs, t \notin Signed
  PROVE  /\ approvedAt[t] = NoSlot
         /\ approvedAt'[t] = NoSlot
<1>1. includedAt[t] = NoSlot /\ approvedAt[t] = NoSlot
  BY DEF IInv, LedgerInv, InclusionInv, ApprovalInv
<1>2. CASE LedgerStep
  <2>1. LedgerInv'
    BY <1>2, LedgerStepInv DEF IInv, LedgerStep
  <2>2. UNCHANGED <<txReceiver, submitted>>
    BY <1>2 DEF LedgerStep, LedgerNext, ExtendChain, SettleBlock, Rollback, Include, Approve
  <2> QED BY <1>1, <2>1, <2>2 DEF LedgerInv, InclusionInv, ApprovalInv, Signed
<1>3. CASE ~LedgerStep
  BY <1>1, <1>3, DriversKeepTheChain
<1> QED BY <1>1, <1>2, <1>3

\* Every withdrawal to a receiver other than its claim's own is settled.
LEMMA OthersSettled ==
  ASSUME IInv, NEW t \in Signed, t # ReceiverId(txReceiver[t])
  PROVE  Settled(t)
<1>1. txReceiver[t] \in Receivers
  BY DEF IInv, TypeOK, Signed
<1> QED BY <1>1 DEF IInv, OneUnsettledPerReceiver, ReceiverId

\* As long as a receiver keeps its claim, and when a claim is journalled, the
\* earlier payouts stay the same.
LEMMA EarlierKept ==
  ASSUME IInv, [Next]_vars, NEW i \in Receivers,
         \/ ReceiverId(i)' = ReceiverId(i)
         \/ ReceiverId(i) = NoTx /\ ReceiverId(i)' \notin Signed
  PROVE  Earlier(i)' = Earlier(i)
<1>1. ASSUME NEW t \in Txs, txReceiver'[t] = i, t # ReceiverId(i)', PaidAt(t, immutableSlot)'
      PROVE  t \in Earlier(i)
  <2>1. t \in Signed
    BY <1>1, NewBodiesUnpaid DEF PaidAt
  <2>2. txReceiver[t] = i
    BY <1>1, <2>1, BodiesKept
  <2>3. t # ReceiverId(i)
    BY <1>1, WorkloadAssumption
  <2>4. PaidAt(t, immutableSlot)
    BY <1>1, <2>1, <2>2, <2>3, OthersSettled, SettledKept
  <2> QED BY <2>2, <2>3, <2>4 DEF Earlier
<1>2. ASSUME NEW t \in Txs, txReceiver[t] = i, t # ReceiverId(i), PaidAt(t, immutableSlot)
      PROVE  txReceiver'[t] = i /\ t # ReceiverId(i)' /\ PaidAt(t, immutableSlot)'
  <2>1. t \in Signed
    BY <1>2, NewBodiesUnpaid DEF PaidAt
  <2> QED BY <1>2, <2>1, BodiesKept, OthersSettled, SettledKept
<1> QED BY <1>1, <1>2 DEF Earlier

\* A reward balance at the immutable tip: the earlier payouts and the claim's own.
LEMMA BalanceSplits ==
  ASSUME IInv, NEW i \in Receivers
  PROVE  /\ ReceiverId(i) = NoTx =>
               Balance(i, immutableSlot) = Cardinality(Earlier(i))
         /\ ReceiverId(i) # NoTx =>
               Balance(i, immutableSlot) =
                  Cardinality(Earlier(i)) + IF PaidAt(ReceiverId(i), immutableSlot) THEN 1 ELSE 0
<1> DEFINE own == ReceiverId(i)
<1>1. Earlier(i) \subseteq Txs /\ IsFiniteSet(Earlier(i)) /\ Cardinality(Earlier(i)) \in Nat
  <2>1. Earlier(i) \subseteq Txs
    BY DEF Earlier
  <2> QED BY <2>1, WorkloadAssumption, FS_Subset, FS_CardinalityType
<1>2. CASE own = NoTx
  <2>1. Payouts(i, immutableSlot) = Earlier(i)
    BY <1>2, WorkloadAssumption DEF Payouts, Earlier
  <2> QED BY <1>2, <2>1 DEF Balance
<1>3. CASE own # NoTx
  <2>1. own \in Txs /\ txReceiver[own] = i /\ own \notin Earlier(i)
    BY <1>3 DEF ReceiverId, IInv, JournalInv, Signed, Earlier
  <2>2. CASE PaidAt(own, immutableSlot)
    <3>1. Payouts(i, immutableSlot) = Earlier(i) \cup {own}
      BY <2>1, <2>2 DEF Payouts, Earlier
    <3> QED BY <1>1, <1>3, <2>1, <2>2, <3>1, FS_AddElement DEF Balance
  <2>3. CASE ~PaidAt(own, immutableSlot)
    <3>1. Payouts(i, immutableSlot) = Earlier(i)
      BY <2>1, <2>3 DEF Payouts, Earlier
    <3> QED BY <1>1, <1>3, <2>3, <3>1 DEF Balance
  <2> QED BY <2>2, <2>3
<1> QED BY <1>2, <1>3

\* A balance that was read at an immutable slot stays true of that slot.
LEMMA BalanceKept ==
  ASSUME IInv, [Next]_vars, NEW i \in Receivers, NEW s \in 0 .. immutableSlot
  PROVE  Balance(i, s)' = Balance(i, s)
<1>1. ASSUME NEW t \in Txs
      PROVE  txReceiver'[t] = i /\ PaidAt(t, s)' <=> txReceiver[t] = i /\ PaidAt(t, s)
  <2>1. CASE t \in Signed
    BY <2>1, BodiesKept, AnswersKept
  <2>2. CASE t \notin Signed
    BY <2>2, NewBodiesUnpaid DEF PaidAt
  <2> QED BY <2>1, <2>2
<1>2. Payouts(i, s)' = Payouts(i, s)
  BY <1>1 DEF Payouts
<1> QED BY <1>2 DEF Balance
-----------------------------------------------------------------------------
(* The baseline *)

\* A creator's step keeps the baselines it does not write.
LEMMA CreatorBaselineFrame ==
  ASSUME IInv, NEW c \in Creators, CreatorStart(c) \/ CreatorStep(c), NEW d \in Creators \ {c}
  PROVE  cPC'[d] = cPC[d] /\ cIdx'[d] = cIdx[d] /\ cPre'[d] = cPre[d]
<1>1. cPC'[d] = cPC[d] /\ cIdx'[d] = cIdx[d]
  BY CreatorFrame DEF IInv
<1>2. cPre \in [Creators -> Int]
  BY DEF IInv, TypeOK
<1>3. cPre'[d] = cPre[d]
  BY <1>2
  DEF CreatorStep, CreatorStart, CreatorPass, CreatorLock, CreatorClaim, CreatorWrite,
      CreatorPrepare, CreatorJournal, CreatorSubmit, CreatorQuit, CreatorFail, CreatorCrash,
      CreatorEnd, CreatorForget
<1> QED BY <1>1, <1>3

\* A creator that is about to write a baseline has the right one.
LEMMA CreatorBaseline ==
  ASSUME IInv, BaselineInv, NEW c \in Creators, CreatorStart(c) \/ CreatorStep(c),
         cPC'[c] \in {"claim", "write"}, NEW i \in Receivers, cIdx'[c] = i
  PROVE  /\ cPre'[c] = Cardinality(Earlier(i))
         /\ claim'[i].file \in {"absent", "torn"}
         /\ ReceiverId(i) = NoTx
         /\ ReceiverId(i)' = NoTx
<1>1. /\ claim \in [Receivers -> Claim]
      /\ cPC \in [Creators -> {"idle", "scan", "claim", "write", "prepare", "sign", "submit"}]
      /\ cIdx \in [Creators -> Receivers \cup {NoReceiver}]
      /\ cPre \in [Creators -> Int]
  BY DEF IInv, TypeOK
<1>3. CASE CreatorLock(c)
  <2>1. PICK j \in Registered \ Pending :
          cIdx' = [cIdx EXCEPT ![c] = j] /\ cPre' = [cPre EXCEPT ![c] = Baseline(j)]
    BY <1>3 DEF CreatorLock
  <2>2. i = j /\ cPre'[c] = Balance(i, immutableSlot)
    BY <1>1, <2>1 DEF Baseline
  <2>3. claim[i].file \in {"absent", "torn"} /\ claim' = claim
    BY <1>3, <2>1, <2>2 DEF CreatorLock, Pending
  <2>4. ReceiverId(i) = NoTx /\ ReceiverId(i)' = NoTx
    BY <2>3 DEF ReceiverId
  <2> QED BY <2>2, <2>3, <2>4, BalanceSplits
<1>4. CASE CreatorClaim(c)
  <2>1. claim' = [claim EXCEPT ![cIdx[c]] = TornClaim] /\ cIdx' = cIdx /\ cPre' = cPre
    BY <1>1, <1>4 DEF CreatorClaim
  <2>2. /\ claim[i].file \in {"absent", "torn"}
        /\ cPre[c] = Cardinality(Earlier(i))
    BY <1>4, <2>1 DEF CreatorClaim, BaselineInv
  <2>3. claim'[i].file = "torn"
    BY <1>1, <2>1 DEF TornClaim, NoClaim
  <2> QED BY <2>1, <2>2, <2>3 DEF ReceiverId
<1>5. CASE ~(CreatorLock(c) \/ CreatorClaim(c))
  BY <1>1, <1>5
  DEF CreatorStep, CreatorStart, CreatorPass, CreatorWrite, CreatorPrepare, CreatorJournal,
      CreatorSubmit, CreatorQuit, CreatorFail, CreatorCrash, CreatorEnd
<1> QED BY <1>3, <1>4, <1>5

\* A step that leaves creators and claims alone keeps the baselines.
LEMMA BaselineFrame ==
  ASSUME IInv, BaselineInv, [Next]_vars, UNCHANGED <<claim, creatorVars>>
  PROVE  BaselineInv'
<1>1. cPC' = cPC /\ cIdx' = cIdx /\ cPre' = cPre /\ claim' = claim
  BY DEF creatorVars
<1>2. \A i \in Receivers : Earlier(i)' = Earlier(i)
  BY <1>1, EarlierKept DEF ReceiverId
<1> QED BY <1>1, <1>2 DEF BaselineInv

\* Baselines are right after every step.
LEMMA BaselineStep ==
  ASSUME IInv, BaselineInv, [Next]_vars
  PROVE  BaselineInv'
<1>0. claim \in [Receivers -> Claim]
  BY DEF IInv, TypeOK
<1>1. CASE LedgerStep
  BY <1>1, BaselineFrame DEF LedgerStep
<1>2. ASSUME NEW c \in Creators, CreatorStart(c) \/ CreatorStep(c) PROVE BaselineInv'
  <2>1. ASSUME NEW d \in Creators, NEW i \in Receivers,
               cPC'[d] \in {"claim", "write"}, cIdx'[d] = i
        PROVE  cPre'[d] = Cardinality(Earlier(i)') /\ claim'[i].file \in {"absent", "torn"}
    <3>1. CASE d = c
      <4>1. Earlier(i)' = Earlier(i)
        BY <1>2, <2>1, <3>1, CreatorBaseline, EarlierKept
      <4> QED BY <1>2, <2>1, <3>1, <4>1, CreatorBaseline
    <3>2. CASE d # c
      <4>1. cPC'[d] = cPC[d] /\ cIdx'[d] = cIdx[d] /\ cPre'[d] = cPre[d]
        BY <1>2, <3>2, CreatorBaselineFrame
      <4>2. receiverLock[i] # c
        BY <2>1, <3>2, <4>1 DEF IInv, LockInv, Claiming
      <4>3. claim'[i] = claim[i]
        BY <1>2, <4>2, CreatorFrame DEF IInv
      <4>4. Earlier(i)' = Earlier(i)
        BY <4>3, EarlierKept DEF ReceiverId
      <4> QED BY <2>1, <4>1, <4>3, <4>4 DEF BaselineInv
    <3> QED BY <3>1, <3>2
  <2>2. ASSUME NEW i \in Receivers, claim'[i].file \notin {"absent", "torn"}
        PROVE  claim'[i].preBalance = Cardinality(Earlier(i)')
    <3>1. CreatorWrites(c, i)
      BY <1>2, CreatorWritesClaim
    <3>2. CASE claim'[i] = claim[i]
      <4>1. Earlier(i)' = Earlier(i)
        BY <3>2, EarlierKept DEF ReceiverId
      <4> QED BY <2>2, <3>2, <4>1 DEF BaselineInv
    <3>3. CASE cPC[c] = "write" /\ i = cIdx[c] /\ claim'[i].file = "claimed"
               /\ claim'[i].preBalance = cPre[c]
      <4>1. claim[i].file = "torn"
        BY <3>3 DEF IInv, CreatorClaimInv
      <4>2. Earlier(i)' = Earlier(i)
        BY <3>3, <4>1, EarlierKept DEF ReceiverId
      <4> QED BY <3>3, <4>2 DEF BaselineInv
    <3>4. CASE /\ claim[i].file \in {"claimed", "prepared"}
               /\ claim'[i].preBalance = claim[i].preBalance
               /\ claim'[i].file = "journalled" => claim'[i].tx \notin Signed
      <4>1. ReceiverId(i) = NoTx
        BY <3>4 DEF ReceiverId
      <4>2. ReceiverId(i)' = NoTx \/ ReceiverId(i)' \notin Signed
        BY <3>4 DEF ReceiverId
      <4>3. Earlier(i)' = Earlier(i)
        BY <4>1, <4>2, EarlierKept
      <4> QED BY <3>4, <4>3 DEF BaselineInv
    <3>5. CASE /\ claim[i].file = "claimed"
               /\ \E s \in Int : claim'[i] = [claim[i] EXCEPT !.file = "prepared", !.validUntil = s]
      BY <1>0, <3>4, <3>5 DEF Claim
    <3>6. CASE /\ claim[i].file = "prepared"
               /\ \E t \in Txs \ Signed :
                     claim'[i] = [claim[i] EXCEPT !.file = "journalled", !.tx = t]
      BY <1>0, <3>4, <3>6 DEF Claim
    <3>7. claim'[i] \notin {NoClaim, TornClaim}
      BY <2>2 DEF NoClaim, TornClaim
    <3>8. CASE /\ cPC[c] = "write"
               /\ i = cIdx[c]
               /\ claim'[i] = [NoClaim EXCEPT !.file = "claimed", !.claimedEpoch = cEpoch[c],
                                              !.preBalance = cPre[c]]
      BY <3>3, <3>8 DEF NoClaim
    <3> QED BY <3>1, <3>2, <3>5, <3>6, <3>7, <3>8 DEF CreatorWrites
  <2> QED BY <2>1, <2>2 DEF BaselineInv
<1>3. CASE \E v \in Voters : VoterQuery(v) \/ VoterStep(v)
  BY <1>3, BaselineFrame DEF VoterQuery, VoterStep, VoterCast, VoterQuit
<1>4. ASSUME NEW o \in Observers, ObserverStep(o) PROVE BaselineInv'
  <2>1. cPC' = cPC /\ cIdx' = cIdx /\ cPre' = cPre
    BY <1>4, ObserverFrame DEF IInv, creatorVars
  <2>2. ASSUME NEW d \in Creators, NEW i \in Receivers,
               cPC[d] \in {"claim", "write"}, cIdx[d] = i
        PROVE  cPre[d] = Cardinality(Earlier(i)') /\ claim'[i].file \in {"absent", "torn"}
    <3>1. receiverLock[i] # o
      BY <2>2, WorkloadAssumption DEF IInv, LockInv, Claiming
    <3>2. claim'[i] = claim[i]
      BY <1>4, <3>1, ObserverFrame DEF IInv
    <3>3. Earlier(i)' = Earlier(i)
      BY <3>2, EarlierKept DEF ReceiverId
    <3> QED BY <2>2, <3>2, <3>3 DEF BaselineInv
  <2>3. ASSUME NEW i \in Receivers, claim'[i].file \notin {"absent", "torn"}
        PROVE  claim'[i].preBalance = Cardinality(Earlier(i)')
    <3>1. ObserverWrites(o, i)
      BY <1>4, ObserverWritesClaim
    <3>2. claim'[i].file = claim[i].file /\ claim'[i].tx = claim[i].tx
          /\ claim'[i].preBalance = claim[i].preBalance
      BY <1>0, <2>3, <3>1 DEF ObserverWrites, Claim, NoClaim
    <3>3. Earlier(i)' = Earlier(i)
      BY <3>2, EarlierKept DEF ReceiverId
    <3> QED BY <2>3, <3>2, <3>3 DEF BaselineInv
  <2> QED BY <2>1, <2>2, <2>3 DEF BaselineInv
<1>5. CASE UNCHANGED vars
  BY <1>5, BaselineFrame DEF vars
<1> QED BY <1>1, <1>2, <1>3, <1>4, <1>5 DEF Next
-----------------------------------------------------------------------------
(* The evidence and the snapshot *)

\* The immutable part of the chain only grows.
LEMMA FateKept ==
  ASSUME IInv, [Next]_vars, NEW t \in Txs
  PROVE  /\ immutableSlot <= immutableSlot'
         /\ approvedAt[t] # NoSlot /\ approvedAt[t] <= immutableSlot => approvedAt'[t] = approvedAt[t]
         /\ includedAt[t] # NoSlot /\ includedAt[t] <= immutableSlot => includedAt'[t] = includedAt[t]
<1>1. /\ immutableSlot \in Nat /\ includedAt \in [Txs -> Int] /\ approvedAt \in [Txs -> Int]
  BY DEF IInv, TypeOK
<1>2. CASE ~LedgerStep
  BY <1>1, <1>2, DriversKeepTheChain
<1>3. CASE LedgerStep
  <2>1. CASE ExtendChain \/ SettleBlock
    BY <1>1, <2>1 DEF ExtendChain, SettleBlock
  <2>2. CASE Rollback
    BY <1>1, <2>2 DEF Rollback
  <2>3. CASE \E u \in Txs : Include(u) \/ Approve(u)
    BY <1>1, <2>3 DEF Include, MayInclude, Approve
  <2> QED BY <1>3, <2>1, <2>2, <2>3 DEF LedgerStep, LedgerNext
<1> QED BY <1>2, <1>3

\* Slots are numbers, before and after a step.
LEMMA SlotTypes ==
  ASSUME IInv, [Next]_vars, NEW t \in Txs
  PROVE  /\ immutableSlot \in Nat /\ immutableSlot' \in Nat
         /\ includedAt[t] \in Int /\ approvedAt[t] \in Int
<1>1. TypeOK /\ TypeOK'
  BY NextInv DEF IInv
<1> QED BY <1>1 DEF TypeOK

\* Evidence stays true of a claim that stays the same.
LEMMA EvidenceKept ==
  ASSUME IInv, [Next]_vars, NEW i \in Receivers, Evidence(claim[i]), claim'[i] = claim[i]
  PROVE  Evidence(claim[i])'
<1>1. CASE claim[i].file # "journalled"
  BY <1>1 DEF Evidence
<1>2. CASE claim[i].file = "journalled"
  <2>1. PICK t \in Txs : t = claim[i].tx
    BY <1>2 DEF IInv, JournalInv, Signed
  <2>2. /\ immutableSlot <= immutableSlot' /\ immutableSlot \in Int /\ immutableSlot' \in Int
        /\ includedAt[t] \in Int /\ approvedAt[t] \in Int
    BY FateKept, SlotTypes
  <2>3. claim[i].ratifiedEpoch # NoEpoch =>
          /\ approvedAt'[t] # NoSlot
          /\ approvedAt'[t] <= immutableSlot'
          /\ claim[i].ratifiedEpoch = EpochOf(approvedAt'[t]) + 1
    BY <1>2, <2>1, <2>2, FateKept DEF Evidence
  <2>4. claim[i].expiresAfter # NoEpoch =>
          /\ includedAt'[t] # NoSlot
          /\ includedAt'[t] <= immutableSlot'
          /\ claim[i].expiresAfter = EpochOf(includedAt'[t]) + ActionLifetime
    BY <1>2, <2>1, <2>2, FateKept DEF Evidence, ExpiresAfter
  <2> QED BY <1>2, <2>1, <2>3, <2>4 DEF Evidence, ExpiresAfter, EpochOf
<1> QED BY <1>1, <1>2

\* A creator notes nothing in a claim file.
LEMMA NoEvidenceYet ==
  ASSUME NEW i \in Receivers, claim[i] \in Claim, Evidence(claim[i]),
         \/ claim'[i] \in {NoClaim, TornClaim}
         \/ \E e \in Int, b \in Int :
               claim'[i] = [NoClaim EXCEPT !.file = "claimed", !.claimedEpoch = e, !.preBalance = b]
         \/ /\ claim[i].file = "claimed"
            /\ \E s \in Int : claim'[i] = [claim[i] EXCEPT !.file = "prepared", !.validUntil = s]
         \/ /\ claim[i].file = "prepared"
            /\ \E t \in Txs : claim'[i] = [claim[i] EXCEPT !.file = "journalled", !.tx = t]
  PROVE  Evidence(claim[i])'
<1>1. CASE claim'[i] \in {NoClaim, TornClaim}
  BY <1>1, EmptyClaims DEF Evidence
<1>2. CASE \E e \in Int, b \in Int :
         claim'[i] = [NoClaim EXCEPT !.file = "claimed", !.claimedEpoch = e, !.preBalance = b]
  BY <1>2 DEF Evidence, NoClaim
<1>3. CASE /\ claim[i].file = "claimed"
           /\ \E s \in Int : claim'[i] = [claim[i] EXCEPT !.file = "prepared", !.validUntil = s]
  BY <1>3 DEF Evidence, Claim
<1>4. CASE /\ claim[i].file = "prepared"
           /\ \E t \in Txs : claim'[i] = [claim[i] EXCEPT !.file = "journalled", !.tx = t]
  BY <1>4 DEF Evidence, Claim
<1> QED BY <1>1, <1>2, <1>3, <1>4

\* A claim names what its observer read of it, and its snapshot is in order.
LEMMA ObserverKnows ==
  ASSUME IInv, NEW o \in Observers, oPC[o] \in {"check", "resolve"}
  PROVE  /\ oIdx[o] \in Receivers
         /\ claim[oIdx[o]] = oRec[o]
         /\ oRec[o].file = "journalled"
         /\ oRec[o].tx \in Signed
         /\ oRec[o].tx \in Txs
         /\ txReceiver[oRec[o].tx] = oIdx[o]
         /\ txValidUntil[oRec[o].tx] = oRec[o].validUntil
         /\ ReceiverId(oIdx[o]) = oRec[o].tx
         /\ oTip[o] \in Int /\ oState[o] \in Int /\ oBalance[o] \in Int
         /\ oTip[o] <= oState[o] /\ oState[o] <= oBalance[o] /\ oBalance[o] <= immutableSlot
         /\ (oPC[o] = "resolve" \/ SameTip(o)) => oTip[o] = oState[o] /\ oState[o] = oBalance[o]
<1>1. oIdx[o] \in Receivers /\ claim[oIdx[o]] = oRec[o] /\ oRec[o].file = "journalled"
  BY DEF IInv, LockInv, ObservedClaimIsCurrent, SnapshotInv, Examining
<1>2. oTip[o] \in Int /\ oState[o] \in Int /\ oBalance[o] \in Int /\ immutableSlot \in Int
  BY DEF IInv, TypeOK
<1>3. oTip[o] <= oState[o] /\ oState[o] <= oBalance[o] /\ oBalance[o] <= immutableSlot
  BY DEF IInv, SnapshotInv
<1>4. (oPC[o] = "resolve" \/ SameTip(o)) => oTip[o] = oState[o] /\ oState[o] = oBalance[o]
  BY <1>2, <1>3 DEF IInv, SnapshotInv, SameTip
<1>5. /\ oRec[o].tx \in Signed /\ oRec[o].tx \in Txs
      /\ txReceiver[oRec[o].tx] = oIdx[o] /\ txValidUntil[oRec[o].tx] = oRec[o].validUntil
  BY <1>1 DEF IInv, JournalInv, Signed
<1> QED BY <1>1, <1>2, <1>3, <1>4, <1>5 DEF ReceiverId

\* What is noted in a claim file is true after every step.
LEMMA EvidenceStep ==
  ASSUME IInv, EvidenceInv, [Next]_vars
  PROVE  EvidenceInv'
<1>1. ASSUME claim' = claim PROVE EvidenceInv'
  BY <1>1, EvidenceKept DEF EvidenceInv
<1>2. ASSUME NEW c \in Creators, CreatorStart(c) \/ CreatorStep(c), NEW i \in Receivers
      PROVE  Evidence(claim[i])'
  <2>1. CreatorWrites(c, i) /\ Evidence(claim[i])
    BY <1>2, CreatorWritesClaim DEF EvidenceInv
  <2>2. cEpoch[c] \in Int /\ cPre[c] \in Int /\ claim[i] \in Claim
    BY DEF IInv, TypeOK
  <2> QED BY <2>1, <2>2, EvidenceKept, NoEvidenceYet DEF CreatorWrites
<1>3. ASSUME NEW o \in Observers, ObserverStep(o), NEW i \in Receivers
      PROVE  Evidence(claim[i])'
  <2>1. ObserverWrites(o, i) /\ Evidence(claim[i])
    BY <1>3, ObserverWritesClaim DEF EvidenceInv
  <2>2. CASE claim'[i] \in {claim[i], NoClaim}
    BY <2>1, <2>2, EvidenceKept, EmptyClaims DEF Evidence
  <2>3. UNCHANGED <<immutableSlot, includedAt, approvedAt>>
    BY <1>3, ObserverFrame DEF IInv, ledgerVars
  <2>4. claim[i] \in Claim /\ immutableSlot \in Int
    BY DEF IInv, TypeOK
  <2>5. CASE /\ ObserverCheck(o)
             /\ RatificationSeen(o)
             /\ i = oIdx[o]
             /\ claim'[i] = [claim[i] EXCEPT !.ratifiedEpoch = EpochOf(oTip[o])]
    <3>1. PICK t \in Txs : t = claim[i].tx
      BY <2>5, ObserverKnows DEF ObserverCheck
    <3>2. /\ oRec[o].tx = t /\ claim[i].file = "journalled"
          /\ oTip[o] = oState[o] /\ oState[o] <= immutableSlot /\ oState[o] \in Int
      BY <2>5, <2>4, <3>1, ObserverKnows DEF ObserverCheck
    <3>3. approvedAt[t] # NoSlot /\ EpochOf(oTip[o]) = EpochOf(approvedAt[t]) + 1
      BY <2>5, <3>2 DEF RatificationSeen, RatifiedAt
    <3>4. approvedAt[t] \in Int /\ EpochOf(approvedAt[t]) \in Int
      BY EpochType DEF IInv, TypeOK
    <3>5. approvedAt[t] <= immutableSlot
      <4> SUFFICES ASSUME ~(approvedAt[t] <= oState[o]) PROVE FALSE
        BY <2>4, <3>2, <3>4
      <4>1. EpochOf(oState[o]) <= EpochOf(approvedAt[t]) /\ EpochOf(oState[o]) \in Int
        BY <3>2, <3>4, EpochMonotone, EpochType
      <4> QED BY <3>2, <3>3, <3>4, <4>1
    <3>6. /\ claim'[i].file = "journalled" /\ claim'[i].tx = t
          /\ claim'[i].ratifiedEpoch = EpochOf(approvedAt[t]) + 1
          /\ claim'[i].expiresAfter = claim[i].expiresAfter
      BY <2>4, <2>5, <3>1, <3>2, <3>3 DEF Claim
    <3> QED BY <2>1, <2>3, <3>1, <3>2, <3>3, <3>5, <3>6 DEF Evidence, ExpiresAfter, EpochOf
  <2>6. CASE /\ ObserverNoteExpiry(o)
             /\ i = oIdx[o]
             /\ claim'[i] = [claim[i] EXCEPT !.expiresAfter = ExpiresAfter(claim[i].tx)]
    <3>1. PICK t \in Txs : t = claim[i].tx
      BY <2>6, ObserverKnows DEF ObserverNoteExpiry
    <3>2. oRec[o].tx = t /\ claim[i].file = "journalled" /\ oState[o] <= immutableSlot /\ oState[o] \in Int
      BY <2>4, <2>6, <3>1, ObserverKnows DEF ObserverNoteExpiry
    <3>3. includedAt[t] # NoSlot /\ includedAt[t] <= oState[o] /\ includedAt[t] \in Int
      BY <2>6, <3>2 DEF ObserverNoteExpiry, ImmutableLive, LiveAt, IInv, TypeOK
    <3>4. /\ claim'[i].file = "journalled" /\ claim'[i].tx = t
          /\ claim'[i].ratifiedEpoch = claim[i].ratifiedEpoch
          /\ claim'[i].expiresAfter = ExpiresAfter(t)
      BY <2>4, <2>6, <3>1, <3>2 DEF Claim
    <3> QED BY <2>1, <2>3, <2>4, <3>1, <3>2, <3>3, <3>4 DEF Evidence, ExpiresAfter, EpochOf
  <2> QED BY <2>1, <2>2, <2>5, <2>6 DEF ObserverWrites
<1>4. CASE \E v \in Voters : VoterQuery(v) \/ VoterStep(v)
  BY <1>1, <1>4 DEF VoterQuery, VoterStep, VoterCast, VoterQuit
<1>5. CASE LedgerStep
  BY <1>1, <1>5 DEF LedgerStep
<1>6. CASE UNCHANGED vars
  BY <1>1, <1>6 DEF vars
<1> QED BY <1>2, <1>3, <1>4, <1>5, <1>6 DEF Next, EvidenceInv
-----------------------------------------------------------------------------
(* The attribution *)

\* What an observer knows stays true while other processes take steps.
LEMMA AttributedKept ==
  ASSUME IInv, [Next]_vars, NEW o \in Observers, Attributed(o),
         oPC'[o] = oPC[o], oIdx'[o] = oIdx[o], oRec'[o] = oRec[o],
         oTip'[o] = oTip[o], oBalance'[o] = oBalance[o]
  PROVE  Attributed(o)'
<1>1. CASE oPC[o] # "resolve"
  BY <1>1 DEF Attributed
<1>2. CASE oPC[o] = "resolve"
  <2>1. PICK i \in Receivers, t \in Txs, s \in 0 .. immutableSlot :
          i = oIdx[o] /\ t = oRec[o].tx /\ s = oTip[o] /\ s = oBalance[o]
    BY <1>2, ObserverKnows, SlotTypes DEF Attributed
  <2>2. Balance(i, s)' = Balance(i, s) /\ PaidAt(t, s)' = PaidAt(t, s)
    BY BalanceKept, AnswersKept
  <2>3. Delta(o)' = Balance(i, s)' - oRec[o].preBalance
    BY <2>1 DEF Delta
  <2>4. Delta(o) = Balance(i, s) - oRec[o].preBalance
    BY <2>1 DEF Delta
  <2>5. Delta(o) = IF PaidAt(t, s) THEN 1 ELSE 0
    BY <1>2, <2>1 DEF Attributed
  <2> QED BY <1>2, <2>1, <2>2, <2>3, <2>4, <2>5 DEF Attributed
<1> QED BY <1>1, <1>2

\* At a confirmed snapshot, the balance is the baseline and the claim's own payout.
LEMMA SnapshotAttributed ==
  ASSUME IInv, BaselineInv, NEW o \in Observers, oPC[o] = "check", SameTip(o)
  PROVE  Delta(o) = IF PaidAt(oRec[o].tx, oTip[o]) THEN 1 ELSE 0
<1>1. PICK i \in Receivers, t \in Txs :
        /\ i = oIdx[o]
        /\ t = oRec[o].tx
        /\ claim[i] = oRec[o]
        /\ oRec[o].file = "journalled"
        /\ ReceiverId(i) = t
        /\ oTip[o] = immutableSlot
        /\ oBalance[o] = immutableSlot
  BY ObserverKnows DEF SameTip
<1>2. oRec[o].preBalance = Cardinality(Earlier(i))
  BY <1>1 DEF BaselineInv
<1>3. Balance(i, immutableSlot)
        = Cardinality(Earlier(i)) + IF PaidAt(t, immutableSlot) THEN 1 ELSE 0
  BY <1>1, BalanceSplits, WorkloadAssumption
<1>4. Cardinality(Earlier(i)) \in Nat
  BY WorkloadAssumption, FS_Subset, FS_CardinalityType DEF Earlier
<1> QED BY <1>1, <1>2, <1>3, <1>4 DEF Delta

\* An observer's own step keeps what it knows.
LEMMA ObserverAttribution ==
  ASSUME IInv, BaselineInv, NEW o \in Observers, ObserverStep(o), Attributed(o)
  PROVE  Attributed(o)'
<1>1. /\ oPC \in [Observers -> {"idle", "list", "scan", "tip", "state", "balance", "check", "resolve"}]
      /\ oTip \in [Observers -> Int] /\ oRec \in [Observers -> Claim]
      /\ immutableSlot \in Nat
  BY DEF IInv, TypeOK
<1>2. CASE ObserverTip(o)
  BY <1>1, <1>2 DEF ObserverTip, Attributed
<1>3. CASE ObserverState(o) \/ ObserverBalance(o)
  BY <1>1, <1>3 DEF ObserverState, ObserverBalance, Attributed
<1>4. CASE ObserverCheck(o)
  <2>1. /\ oPC[o] = "check" /\ oPC'[o] = "resolve" /\ SameTip(o)
        /\ oTip' = oTip /\ oIdx' = oIdx /\ oBalance' = oBalance
        /\ UNCHANGED ledgerVars
    BY <1>1, <1>4 DEF ObserverCheck
  <2>2. oRec'[o].tx = oRec[o].tx /\ oRec'[o].preBalance = oRec[o].preBalance
    BY <1>1, <1>4 DEF ObserverCheck, Claim
  <2>3. Delta(o)' = Delta(o)
    BY <2>1, <2>2 DEF Delta, Balance, Payouts, PaidAt, EpochOf, ledgerVars
  <2>4. PaidAt(oRec[o].tx, oTip[o])' <=> PaidAt(oRec[o].tx, oTip[o])
    BY <2>1, <2>2 DEF PaidAt, EpochOf, ledgerVars
  <2>5. Delta(o) = IF PaidAt(oRec[o].tx, oTip[o]) THEN 1 ELSE 0
    BY <2>1, SnapshotAttributed
  <2> QED BY <2>1, <2>3, <2>4, <2>5 DEF Attributed
<1>5. CASE ~(ObserverTip(o) \/ ObserverState(o) \/ ObserverBalance(o) \/ ObserverCheck(o))
  <2>1. oPC'[o] \notin {"state", "balance", "check", "resolve"}
    BY <1>1, <1>5
    DEF ObserverStep, ObserverProgress, ObserverQuery, ObserverList, ObserverPass, ObserverTake,
        ObserverReclaim, ObserverRetry, ObserverNoteExpiry, ObserverWait, ObserverResolve,
        ObserverSkip, ObserverDone, ObserverCrash, ObserverEnd, ObserverNext
  <2> QED BY <2>1 DEF Attributed
<1> QED BY <1>2, <1>3, <1>4, <1>5

\* The attribution is right after every step.
LEMMA AttributionStep ==
  ASSUME IInv, BaselineInv, AttributionInv, [Next]_vars
  PROVE  AttributionInv'
<1> SUFFICES ASSUME NEW o \in Observers PROVE Attributed(o)'
  BY DEF AttributionInv
<1>0. Attributed(o)
  BY DEF AttributionInv
<1>1. CASE UNCHANGED observerVars
  BY <1>0, <1>1, AttributedKept DEF observerVars
<1>2. ASSUME NEW p \in Observers, ObserverStep(p) PROVE Attributed(o)'
  <2>1. CASE p = o
    BY <1>0, <1>2, <2>1, ObserverAttribution
  <2>2. CASE p # o
    <3>1. /\ oPC'[o] = oPC[o] /\ oIdx'[o] = oIdx[o] /\ oRec'[o] = oRec[o]
          /\ oTip'[o] = oTip[o] /\ oBalance'[o] = oBalance[o]
      BY <1>2, <2>2, ObserverFrame DEF IInv
    <3> QED BY <1>0, <3>1, AttributedKept
  <2> QED BY <2>1, <2>2
<1>3. (\E c \in Creators : CreatorStart(c) \/ CreatorStep(c)) => UNCHANGED observerVars
  BY CreatorFrame DEF IInv
<1>4. (\E v \in Voters : VoterQuery(v) \/ VoterStep(v)) => UNCHANGED observerVars
  BY DEF VoterQuery, VoterStep, VoterCast, VoterQuit
<1>5. LedgerStep \/ UNCHANGED vars => UNCHANGED observerVars
  BY DEF LedgerStep, vars
<1> QED BY <1>1, <1>2, <1>3, <1>4, <1>5 DEF Next
-----------------------------------------------------------------------------
(* The votes *)

\* A step either casts a vote on a listed action that is the guided one, for
\* YES, or neither the guided nor the expiry one, or it casts none.
LEMMA VotesStep ==
  ASSUME IInv, VoteInv, [Next]_vars
  PROVE  \/ votesCast' = votesCast
         \/ \E t \in Signed, d \in {"yes", "no"} :
               /\ votesCast' = votesCast \cup {<<t, d>>}
               /\ \/ t = ReceiverId(GuidedReceiver) /\ d = "yes"
                  \/ t \notin {ReceiverId(GuidedReceiver), ReceiverId(ExpiryReceiver)}
<1>1. ASSUME NEW v \in Voters, VoterCast(v)
      PROVE  \E t \in Signed, d \in {"yes", "no"} :
               /\ votesCast' = votesCast \cup {<<t, d>>}
               /\ \/ t = ReceiverId(GuidedReceiver) /\ d = "yes"
                  \/ t \notin {ReceiverId(GuidedReceiver), ReceiverId(ExpiryReceiver)}
  BY <1>1, WorkloadAssumption DEF VoterCast, VoteCandidates, VoteInv
<1>2. ASSUME NEW v \in Voters, VoterQuery(v) \/ VoterQuit(v) PROVE votesCast' = votesCast
  BY <1>2 DEF VoterQuery, VoterQuit, ledgerVars
<1>3. CASE LedgerStep
  BY <1>3 DEF LedgerStep, LedgerNext, ExtendChain, SettleBlock, Rollback, Include, Approve
<1>4. ASSUME NEW c \in Creators, CreatorStart(c) \/ CreatorStep(c) PROVE votesCast' = votesCast
  BY <1>4
  DEF CreatorStep, CreatorStart, CreatorPass, CreatorLock, CreatorClaim, CreatorWrite,
      CreatorPrepare, CreatorJournal, CreatorSubmit, CreatorQuit, CreatorFail, CreatorCrash,
      ledgerVars
<1>5. ASSUME NEW o \in Observers, ObserverStep(o) PROVE votesCast' = votesCast
  BY <1>5, ObserverFrame DEF IInv, ledgerVars
<1>6. UNCHANGED vars => votesCast' = votesCast
  BY DEF vars, ledgerVars
<1> QED BY <1>1, <1>2, <1>3, <1>4, <1>5, <1>6 DEF Next, VoterStep

\* What is on the chain was signed.
LEMMA LiveIsSigned ==
  ASSUME IInv, NEW t \in Txs, NEW s, LiveAt(t, s) PROVE t \in Signed
  BY DEF IInv, LedgerInv, InclusionInv, LiveAt

\* Voters know signed actions, and votes are about signed actions.
LEMMA VoteStep ==
  ASSUME IInv, VoteInv, [Next]_vars
  PROVE  VoteInv'
<1>1. Signed \subseteq Signed'
  BY BodiesKept
<1>2. ASSUME NEW t \in Txs, NEW d \in {"yes", "no"}, <<t, d>> \in votesCast' PROVE t \in Signed'
  <2>1. \/ votesCast' = votesCast
        \/ \E u \in Signed, e \in {"yes", "no"} : votesCast' = votesCast \cup {<<u, e>>}
    BY VotesStep
  <2>2. <<t, d>> \in votesCast \/ t \in Signed
    BY <1>2, <2>1
  <2> QED BY <1>1, <2>2 DEF VoteInv
<1>3. ASSUME NEW v \in Voters PROVE vProps'[v] \subseteq Signed'
  <2>1. vProps \in [Voters -> SUBSET Txs] /\ vProps[v] \subseteq Signed
    BY DEF IInv, TypeOK, VoteInv
  <2>2. CASE UNCHANGED voterVars
    BY <1>1, <2>1, <2>2 DEF voterVars
  <2>3. ASSUME NEW w \in Voters, VoterQuery(w) PROVE vProps'[v] \subseteq Signed'
    <3>1. {t \in Txs : LiveAt(t, volatileSlot)} \subseteq Signed
      BY LiveIsSigned
    <3> QED BY <1>1, <2>1, <2>3, <3>1 DEF VoterQuery
  <2>4. ASSUME NEW w \in Voters, VoterStep(w) PROVE vProps'[v] \subseteq Signed'
    BY <1>1, <2>1, <2>4 DEF VoterStep, VoterCast, VoterQuit, VoterEnd
  <2>5. (\E c \in Creators : CreatorStart(c) \/ CreatorStep(c)) => UNCHANGED voterVars
    BY CreatorFrame DEF IInv
  <2>6. (\E o \in Observers : ObserverStep(o)) => UNCHANGED voterVars
    BY ObserverFrame DEF IInv
  <2>7. LedgerStep \/ UNCHANGED vars => UNCHANGED voterVars
    BY DEF LedgerStep, vars
  <2> QED BY <2>2, <2>3, <2>4, <2>5, <2>6, <2>7 DEF Next
<1> QED BY <1>2, <1>3 DEF VoteInv

\* A journalled claim's action is a withdrawal to its receiver.
LEMMA ReceiverOfClaim ==
  ASSUME IInv, NEW i, NEW t \in Txs, t = ReceiverId(i) PROVE txReceiver[t] = i
  BY WorkloadAssumption DEF IInv, JournalInv, ReceiverId

\* A vote on the expiry receiver's action, or a NO on the guided receiver's,
\* comes too late to matter.
LEMMA LaneVotesStep ==
  ASSUME IInv, VoteInv, ExpiryLaneUnvoted, GuidedVotesKept, [Next]_vars
  PROVE  ExpiryLaneUnvoted' /\ GuidedVotesKept'
<1>1. ASSUME NEW t \in Txs, NEW d \in {"yes", "no"}, <<t, d>> \in votesCast',
             \/ txReceiver'[t] = ExpiryReceiver
             \/ txReceiver'[t] = GuidedReceiver /\ d = "no"
      PROVE  Settled(t)'
  <2>1. CASE <<t, d>> \in votesCast
    <3>1. t \in Signed
      BY <2>1 DEF VoteInv
    <3>2. Settled(t)
      BY <1>1, <2>1, <3>1, BodiesKept DEF ExpiryLaneUnvoted, GuidedVotesKept
    <3> QED BY <3>1, <3>2, SettledKept
  <2>2. CASE <<t, d>> \notin votesCast
    <3>1. t \in Signed
      BY <1>1, <2>2, VotesStep
    <3>2. \/ t = ReceiverId(GuidedReceiver) /\ d = "yes"
          \/ t \notin {ReceiverId(GuidedReceiver), ReceiverId(ExpiryReceiver)}
      BY <1>1, <2>2, VotesStep
    <3>3. txReceiver'[t] = txReceiver[t]
      BY <3>1, BodiesKept
    <3>4. t # ReceiverId(txReceiver[t])
      BY <1>1, <3>2, <3>3, ReceiverOfClaim DEF GuidedReceiver, ExpiryReceiver
    <3> QED BY <3>1, <3>4, OthersSettled, SettledKept
  <2> QED BY <2>1, <2>2
<1> QED BY <1>1 DEF ExpiryLaneUnvoted, GuidedVotesKept, Signed

\* Nobody gets the expiry receiver's action approved.
LEMMA ExpiryStep ==
  ASSUME IInv, ExpiryLaneUnvoted, ExpiryInv, [Next]_vars
  PROVE  ExpiryInv'
<1> SUFFICES ASSUME NEW t \in Txs, txReceiver'[t] = ExpiryReceiver PROVE approvedAt'[t] = NoSlot
  BY DEF ExpiryInv
<1>1. CASE t \notin Signed
  BY <1>1, NewBodiesUnpaid
<1>2. CASE t \in Signed
  <2>1. txReceiver[t] = ExpiryReceiver /\ approvedAt[t] = NoSlot
    BY <1>2, BodiesKept DEF ExpiryInv
  <2>2. CASE ~LedgerStep
    BY <2>1, <2>2, DriversKeepTheChain
  <2>3. CASE LedgerStep /\ Settled(t)
    BY <2>1, <2>3, SettledIsFrozen DEF LedgerStep, IInv
  <2>4. CASE LedgerStep /\ ~Settled(t)
    <3>1. <<t, "yes">> \notin votesCast
      BY <1>2, <2>1, <2>4 DEF ExpiryLaneUnvoted
    <3>2. approvedAt \in [Txs -> Int]
      BY DEF IInv, TypeOK
    <3> QED BY <2>1, <2>4, <3>1, <3>2
        DEF LedgerStep, LedgerNext, ExtendChain, SettleBlock, Rollback, Include, Approve
  <2> QED BY <2>2, <2>3, <2>4
<1> QED BY <1>1, <1>2
-----------------------------------------------------------------------------
(* The alarms and the retained claims *)

\* When an observer closes a claim whose action was included, the action's time
\* was up at the tip of the snapshot already.
LEMMA DecidedAtTip ==
  ASSUME IInv, NEW o \in Observers, oPC[o] = "resolve", ~ImmutableLive(o), ~Undecided(o),
         NEW t \in Txs, t = oRec[o].tx, includedAt[t] # NoSlot
  PROVE  EpochOf(oTip[o]) >= SettlesIn(t)
<1>1. /\ oTip[o] = oState[o] /\ oTip[o] \in Int
      /\ txValidUntil[t] = oRec[o].validUntil
  BY ObserverKnows
<1>2. includedAt[t] < txValidUntil[t] /\ includedAt[t] \in Int /\ txValidUntil[t] \in Int
  BY DEF IInv, LedgerInv, LedgerTypeOK, InclusionInv
<1>3. ~(oTip[o] < txValidUntil[t]) /\ ~LiveAt(t, oTip[o])
  BY <1>1 DEF Undecided, ImmutableLive
<1>4. EpochOf(oTip[o]) \in Int /\ SettlesIn(t) \in Int
  BY <1>1, EpochType, SettlesInType DEF IInv
<1> QED BY <1>1, <1>2, <1>3, <1>4 DEF LiveAt

\* A closed claim with ratification evidence was paid.
LEMMA RatifiedIsPaid ==
  ASSUME IInv, EvidenceInv, AttributionInv, NEW o \in Observers,
         oPC[o] = "resolve", ~Undecided(o), RatificationKnown(o)
  PROVE  Paid(o)
<1>1. PICK i \in Receivers, t \in Txs :
        i = oIdx[o] /\ t = oRec[o].tx /\ claim[i] = oRec[o] /\ oRec[o].file = "journalled"
  BY ObserverKnows
<1>2. approvedAt[t] # NoSlot /\ oRec[o].ratifiedEpoch = EpochOf(approvedAt[t]) + 1
  BY <1>1 DEF EvidenceInv, Evidence, RatificationKnown
<1>3. ~(EpochOf(oTip[o]) <= oRec[o].ratifiedEpoch)
  BY DEF Undecided
<1>4. EpochOf(oTip[o]) \in Int /\ EpochOf(approvedAt[t]) \in Int
  BY EpochType DEF IInv, TypeOK
<1>5. PaidAt(t, oTip[o])
  BY <1>2, <1>3, <1>4 DEF PaidAt
<1> QED BY <1>1, <1>5 DEF AttributionInv, Attributed, Paid

\* The expiry receiver's action pays nothing.
LEMMA ExpiryPaysNothing ==
  ASSUME IInv, AttributionInv, ExpiryInv, NEW o \in Observers,
         oPC[o] = "resolve", oIdx[o] = ExpiryReceiver
  PROVE  Delta(o) = 0 /\ approvedAt[oRec[o].tx] = NoSlot
<1>1. PICK t \in Txs : t = oRec[o].tx /\ txReceiver[t] = ExpiryReceiver
  BY ObserverKnows
<1>2. approvedAt[t] = NoSlot
  BY <1>1 DEF ExpiryInv
<1>3. ~PaidAt(t, oTip[o])
  BY <1>2 DEF PaidAt
<1> QED BY <1>1, <1>2, <1>3 DEF AttributionInv, Attributed

\* No step reports an assertion false.
LEMMA AlarmsStep ==
  ASSUME IInv, BaselineInv, EvidenceInv, AttributionInv, ExpiryInv, alarms = {}, [Next]_vars
  PROVE  alarms' = {}
<1>1. ASSUME NEW o \in Observers, ObserverCheck(o) PROVE alarms' = {}
  <2>1. oPC[o] = "check" /\ SameTip(o)
        /\ alarms' = alarms \cup RaiseIf(Delta(o) \notin 0 .. 1, "no_overpay")
    BY <1>1 DEF ObserverCheck
  <2>2. Delta(o) \in 0 .. 1
    BY <2>1, SnapshotAttributed
  <2> QED BY <2>1, <2>2 DEF RaiseIf
<1>2. ASSUME NEW o \in Observers, ObserverResolve(o) PROVE alarms' = {}
  <2>1. oPC[o] = "resolve" /\ ~Undecided(o)
    BY <1>2 DEF ObserverResolve
  <2>2. ~(RatificationKnown(o) /\ ~Paid(o))
    BY <2>1, RatifiedIsPaid
  <2>3. ~(oIdx[o] = ExpiryReceiver /\ Expired(o) /\ Delta(o) # 0)
    BY <2>1, ExpiryPaysNothing
  <2> QED BY <1>2, <2>2, <2>3 DEF ObserverResolve, RaiseIf
<1>3. ASSUME NEW o \in Observers, ObserverStep(o), ~ObserverCheck(o), ~ObserverResolve(o)
      PROVE  alarms' = alarms
  BY <1>3
  DEF ObserverStep, ObserverProgress, ObserverQuery, ObserverList, ObserverPass, ObserverTake,
      ObserverReclaim, ObserverTip, ObserverState, ObserverBalance, ObserverRetry,
      ObserverNoteExpiry, ObserverWait, ObserverSkip, ObserverDone, ObserverCrash, ObserverEnd
<1>4. ASSUME NEW c \in Creators, CreatorStart(c) \/ CreatorStep(c) PROVE alarms' = alarms
  BY <1>4
  DEF CreatorStep, CreatorStart, CreatorPass, CreatorLock, CreatorClaim, CreatorWrite,
      CreatorPrepare, CreatorJournal, CreatorSubmit, CreatorQuit, CreatorFail, CreatorCrash
<1>5. ASSUME NEW v \in Voters, VoterQuery(v) \/ VoterStep(v) PROVE alarms' = alarms
  BY <1>5 DEF VoterQuery, VoterStep, VoterCast, VoterQuit
<1>6. LedgerStep \/ UNCHANGED vars => alarms' = alarms
  BY DEF LedgerStep, vars
<1> QED BY <1>1, <1>2, <1>3, <1>4, <1>5, <1>6 DEF Next

\* A journalled claim is released by an observer that closes it, or not at all.
LEMMA ClaimReleased ==
  ASSUME IInv, [Next]_vars, NEW i \in Receivers, ReceiverId(i) # NoTx,
         ReceiverId(i)' # ReceiverId(i)
  PROVE  \E o \in Observers : ObserverResolve(o) /\ i = oIdx[o] /\ ~Retained(o)
<1>1. claim[i].file = "journalled" /\ claim'[i] # claim[i] /\ claim[i] \in Claim
  BY DEF ReceiverId, IInv, TypeOK
<1>2. PICK o \in Observers : ObserverStep(o)
  <2>1. ~(\E c \in Creators : CreatorStart(c) \/ CreatorStep(c))
    BY <1>1, CreatorFrame DEF IInv
  <2>2. ~(\E v \in Voters : VoterQuery(v) \/ VoterStep(v))
    BY <1>1 DEF VoterQuery, VoterStep, VoterCast, VoterQuit
  <2>3. ~LedgerStep /\ ~UNCHANGED vars
    BY <1>1 DEF LedgerStep, vars
  <2> QED BY <2>1, <2>2, <2>3 DEF Next
<1>3. ObserverWrites(o, i)
  BY <1>2, ObserverWritesClaim
<1>4. ~(\/ claim'[i] = [claim[i] EXCEPT !.ratifiedEpoch = EpochOf(oTip[o])]
        \/ claim'[i] = [claim[i] EXCEPT !.expiresAfter = ExpiresAfter(claim[i].tx)])
  BY <1>1 DEF ReceiverId, Claim
<1> QED BY <1>1, <1>3, <1>4 DEF ObserverWrites

\* The guided receiver's claim is not released once it was paid.
LEMMA PaidIsRetained ==
  ASSUME IInv, AttributionInv, NEW o \in Observers, ObserverResolve(o), ~Retained(o),
         oIdx[o] = GuidedReceiver
  PROVE  ~PaidAt(ReceiverId(GuidedReceiver), immutableSlot)
<1>1. PICK t \in Txs : t = oRec[o].tx /\ t = ReceiverId(GuidedReceiver)
  BY ObserverKnows DEF ObserverResolve
<1>2. oPC[o] = "resolve" /\ ~ImmutableLive(o) /\ ~Undecided(o) /\ ~Paid(o)
  BY DEF ObserverResolve, Retained
<1>3. ~PaidAt(t, oTip[o])
  BY <1>1, <1>2 DEF AttributionInv, Attributed, Paid
<1> SUFFICES ASSUME approvedAt[t] # NoSlot PROVE FALSE
  BY <1>1 DEF PaidAt
<1>4. EpochOf(oTip[o]) >= SettlesIn(t)
  BY <1>1, <1>2, DecidedAtTip DEF IInv, LedgerInv, ApprovalInv
<1>5. EpochOf(approvedAt[t]) \in Int
  BY EpochType DEF IInv, TypeOK
<1> QED BY <1>3, <1>4, <1>5 DEF PaidAt, SettlesIn

\* The expiry receiver's claim is not released once its expiry was noted.
LEMMA ExpiredIsRetained ==
  ASSUME IInv, EvidenceInv, ExpiryInv, NEW o \in Observers, ObserverResolve(o), ~Retained(o),
         oIdx[o] = ExpiryReceiver
  PROVE  claim[ExpiryReceiver].expiresAfter = NoEpoch
<1> SUFFICES ASSUME claim[ExpiryReceiver].expiresAfter # NoEpoch PROVE FALSE
  OBVIOUS
<1>1. PICK i \in Receivers, t \in Txs :
        /\ i = ExpiryReceiver /\ i = oIdx[o] /\ t = oRec[o].tx /\ claim[i] = oRec[o]
        /\ oRec[o].file = "journalled" /\ txReceiver[t] = i /\ oTip[o] \in Int
  BY ObserverKnows DEF ObserverResolve
<1>2. oPC[o] = "resolve" /\ ~ImmutableLive(o) /\ ~Undecided(o) /\ ~Expired(o)
  BY DEF ObserverResolve, Retained
<1>3. approvedAt[t] = NoSlot
  BY <1>1 DEF ExpiryInv
<1>4. ~RatificationKnown(o)
  BY <1>1, <1>3 DEF EvidenceInv, Evidence, RatificationKnown
<1>5. includedAt[t] # NoSlot /\ oRec[o].expiresAfter = ExpiresAfter(t)
  BY <1>1 DEF EvidenceInv, Evidence
<1>6. EpochOf(oTip[o]) >= 2 + ExpiresAfter(t)
  BY <1>1, <1>2, <1>3, <1>5, DecidedAtTip DEF SettlesIn
<1>7. EpochOf(oTip[o]) \in Int /\ ExpiresAfter(t) \in Int
  BY <1>1, EpochType, ExpiresAfterType DEF IInv
<1> QED BY <1>1, <1>2, <1>4, <1>5, <1>6, <1>7 DEF Expired
-----------------------------------------------------------------------------
\* At the start nothing is signed, claimed, voted or reported.
LEMMA OutcomeInit == Init => OutcomeInv
<1> SUFFICES ASSUME Init PROVE OutcomeInv
  OBVIOUS
<1>1. IInv
  BY InitInv
<1>2. BaselineInv
  BY DEF Init, BaselineInv, NoClaim
<1>3. EvidenceInv
  BY EmptyClaims DEF Init, EvidenceInv, Evidence
<1>4. AttributionInv
  BY DEF Init, AttributionInv, Attributed
<1>5. votesCast = {} /\ Signed = {} /\ alarms = {} /\ \A v \in Voters : vProps[v] = {}
  BY DEF Init, LedgerInit, Signed
<1>6. VoteInv /\ ExpiryLaneUnvoted /\ GuidedVotesKept
  BY <1>5 DEF VoteInv, ExpiryLaneUnvoted, GuidedVotesKept
<1>7. ExpiryInv
  BY DEF Init, LedgerInit, ExpiryInv
<1> QED BY <1>1, <1>2, <1>3, <1>4, <1>5, <1>6, <1>7 DEF OutcomeInv

\* Every step keeps the invariant.
LEMMA OutcomeNext == OutcomeInv /\ [Next]_vars => OutcomeInv'
<1> SUFFICES ASSUME OutcomeInv, [Next]_vars PROVE OutcomeInv'
  OBVIOUS
<1>1. /\ IInv /\ BaselineInv /\ EvidenceInv /\ AttributionInv /\ VoteInv
      /\ ExpiryLaneUnvoted /\ GuidedVotesKept /\ ExpiryInv /\ alarms = {}
  BY DEF OutcomeInv
<1>2. IInv'
  BY <1>1, NextInv
<1>3. BaselineInv'
  BY <1>1, BaselineStep
<1>4. EvidenceInv'
  BY <1>1, EvidenceStep
<1>5. AttributionInv'
  BY <1>1, AttributionStep
<1>6. VoteInv'
  BY <1>1, VoteStep
<1>7. ExpiryLaneUnvoted' /\ GuidedVotesKept'
  BY <1>1, LaneVotesStep
<1>8. ExpiryInv'
  BY <1>1, ExpiryStep
<1>9. alarms' = {}
  BY <1>1, AlarmsStep
<1> QED BY <1>2, <1>3, <1>4, <1>5, <1>6, <1>7, <1>8, <1>9 DEF OutcomeInv

\* The invariant of the outcomes holds in every state the drivers can reach.
THEOREM OutcomeInductive == Spec => []OutcomeInv
<1> QED BY OutcomeInit, OutcomeNext, PTL DEF Spec

\* When an observer closes a claim, the balance has grown by the transfer exactly
\* when the claim's own action was enacted, however many withdrawals the receiver
\* had before and however long ago the snapshot was taken (observe).
THEOREM OutcomesAttributed == Spec => []OutcomeAttributed
<1>1. OutcomeInv => OutcomeAttributed
  BY DEF OutcomeInv, AttributionInv, Attributed, OutcomeAttributed, Paid
<1> QED BY <1>1, OutcomeInductive, PTL

\* treasury_withdrawal_no_overpay is never reported false on a correct ledger.
THEOREM NeverFalseOverpay == Spec => []NoFalseOverpay
<1>1. OutcomeInv => NoFalseOverpay
  BY DEF OutcomeInv, NoFalseOverpay
<1> QED BY <1>1, OutcomeInductive, PTL

\* treasury_withdrawal_payout_matches_ratification is never reported false on a
\* correct ledger.
THEOREM NeverFalsePayoutMismatch == Spec => []NoFalsePayoutMismatch
<1>1. OutcomeInv => NoFalsePayoutMismatch
  BY DEF OutcomeInv, NoFalsePayoutMismatch
<1> QED BY <1>1, OutcomeInductive, PTL

\* treasury_withdrawal_expired_no_payout is never reported false on a correct
\* ledger.
THEOREM NeverFalseExpiryPayout == Spec => []NoFalseExpiryPayout
<1>1. OutcomeInv => NoFalseExpiryPayout
  BY DEF OutcomeInv, NoFalseExpiryPayout
<1> QED BY <1>1, OutcomeInductive, PTL

\* No vote on the expiry receiver's action is cast before the action is settled,
\* although voters read the chain first and the claims later.
THEOREM ExpiryLaneSafe == Spec => []ExpiryLaneUnvoted
<1>1. OutcomeInv => ExpiryLaneUnvoted
  BY DEF OutcomeInv
<1> QED BY <1>1, OutcomeInductive, PTL

\* A random NO never meets a guided action that can still be enacted.
THEOREM GuidedLaneSafe == Spec => []GuidedVotesKept
<1>1. OutcomeInv => GuidedVotesKept
  BY DEF OutcomeInv
<1> QED BY <1>1, OutcomeInductive, PTL

\* A paid guided claim, and an expiry claim that was seen to expire, are kept.
THEOREM LanesAreRetained == Spec => LanesRetained
<1>1. OutcomeInv /\ [Next]_vars =>
        [ /\ LET t == ReceiverId(GuidedReceiver) IN
               t # NoTx /\ PaidAt(t, immutableSlot) => ReceiverId(GuidedReceiver)' = t
          /\ LET t == ReceiverId(ExpiryReceiver) IN
               t # NoTx /\ claim[ExpiryReceiver].expiresAfter # NoEpoch
                  => ReceiverId(ExpiryReceiver)' = t ]_vars
  <2> SUFFICES ASSUME OutcomeInv, [Next]_vars
               PROVE  /\ ReceiverId(GuidedReceiver) # NoTx
                          /\ PaidAt(ReceiverId(GuidedReceiver), immutableSlot)
                             => ReceiverId(GuidedReceiver)' = ReceiverId(GuidedReceiver)
                      /\ ReceiverId(ExpiryReceiver) # NoTx
                          /\ claim[ExpiryReceiver].expiresAfter # NoEpoch
                             => ReceiverId(ExpiryReceiver)' = ReceiverId(ExpiryReceiver)
    OBVIOUS
  <2>1. IInv /\ AttributionInv /\ EvidenceInv /\ ExpiryInv
    BY DEF OutcomeInv
  <2>2. \A i : ReceiverId(i) # NoTx => i \in Receivers
    BY DEF ReceiverId
  <2>3. ReceiverId(GuidedReceiver) # NoTx
         /\ PaidAt(ReceiverId(GuidedReceiver), immutableSlot)
            => ReceiverId(GuidedReceiver)' = ReceiverId(GuidedReceiver)
    BY <2>1, <2>2, ClaimReleased, PaidIsRetained
  <2>4. ReceiverId(ExpiryReceiver) # NoTx
         /\ claim[ExpiryReceiver].expiresAfter # NoEpoch
            => ReceiverId(ExpiryReceiver)' = ReceiverId(ExpiryReceiver)
    BY <2>1, <2>2, ClaimReleased, ExpiredIsRetained
  <2> QED BY <2>3, <2>4
<1> QED BY <1>1, OutcomeInductive, PTL DEF Spec, LanesRetained
=============================================================================

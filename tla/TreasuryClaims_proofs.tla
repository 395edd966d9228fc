------------------------ MODULE TreasuryClaims_proofs ------------------------
(***************************************************************************)
(* The safety of the claim protocol for any number of receivers, drivers,  *)
(* transactions and slots: no two withdrawals to one receiver are          *)
(* undecided at once, and what an observer read under a receiver's lock is *)
(* what it acts on.                                                        *)
(*                                                                         *)
(* Neither is inductive on its own.  IInv adds who holds which receiver's  *)
(* lock while it works on a claim (LockInv), what the claim file holds at  *)
(* each step of a creator (CreatorClaimInv), what a journalled claim says  *)
(* of its transaction (JournalInv), and the order of the slots at which an *)
(* observer took its snapshot (SnapshotInv).                               *)
(***************************************************************************)
EXTENDS TreasuryClaims, GovLedger_proofs

Claiming == {"claim", "write", "prepare", "sign"}
Examining == {"tip", "state", "balance", "check", "resolve"}

\* A driver that works on a receiver's claim holds that receiver's lock.
LockInv ==
    /\ \A c \in Creators : cPC[c] \in Claiming =>
          cIdx[c] \in Receivers /\ receiverLock[cIdx[c]] = c
    /\ \A o \in Observers : oPC[o] \in Examining =>
          oIdx[o] \in Receivers /\ receiverLock[oIdx[o]] = o

\* The claim file follows its creator's progress.
CreatorClaimInv ==
    \A c \in Creators :
        /\ cPC[c] = "write" => claim[cIdx[c]].file = "torn"
        /\ cPC[c] = "prepare" => claim[cIdx[c]].file = "claimed"
        /\ cPC[c] = "sign" => claim[cIdx[c]].file = "prepared"
        /\ cPC[c] = "submit" => cTx[c] \in Signed

\* A journalled claim names a signed withdrawal to its receiver, and bounds it.
JournalInv ==
    \A i \in Receivers : claim[i].file = "journalled" =>
        /\ claim[i].tx \in Signed
        /\ txReceiver[claim[i].tx] = i
        /\ txValidUntil[claim[i].tx] = claim[i].validUntil

\* The snapshot of a journalled claim: tip, then state, then balance, all at or
\* behind the immutable tip, and all at one slot once the tip was read again.
SnapshotInv ==
    \A o \in Observers :
        /\ oPC[o] \in {"state", "balance", "check", "resolve"} =>
              oRec[o].file = "journalled" /\ oTip[o] <= immutableSlot
        /\ oPC[o] \in {"balance", "check", "resolve"} =>
              oTip[o] <= oState[o] /\ oState[o] <= immutableSlot
        /\ oPC[o] \in {"check", "resolve"} =>
              oState[o] <= oBalance[o] /\ oBalance[o] <= immutableSlot
        /\ oPC[o] = "resolve" => oTip[o] = oState[o] /\ oState[o] = oBalance[o]

IInv ==
    /\ TypeOK
    /\ LedgerInv
    /\ LockInv
    /\ CreatorClaimInv
    /\ JournalInv
    /\ SnapshotInv
    /\ ObservedClaimIsCurrent
    /\ OneUnsettledPerReceiver
-----------------------------------------------------------------------------
\* A reward balance counts payouts.
LEMMA BalanceType == ASSUME NEW i, NEW s PROVE Balance(i, s) \in Nat
<1>1. Payouts(i, s) \subseteq Txs
  BY DEF Payouts
<1> QED BY <1>1, WorkloadAssumption, FS_Subset, FS_CardinalityType DEF Balance

\* An action's last voting epoch is a number.
LEMMA ExpiresAfterType == ASSUME TypeOK, NEW t \in Txs PROVE ExpiresAfter(t) \in Int
  BY EpochType, LedgerAssumption DEF TypeOK, ExpiresAfter

\* What the drivers write to a claim file is a claim.
LEMMA ClaimTypes ==
  /\ NoClaim \in Claim
  /\ TornClaim \in Claim
  /\ \A r \in Claim, e \in Int, b \in Int :
        [r EXCEPT !.file = "claimed", !.claimedEpoch = e, !.preBalance = b] \in Claim
  /\ \A r \in Claim, s \in Int :
        [r EXCEPT !.file = "prepared", !.validUntil = s] \in Claim
  /\ \A r \in Claim, t \in Txs : [r EXCEPT !.file = "journalled", !.tx = t] \in Claim
  /\ \A r \in Claim, e \in Int : [r EXCEPT !.ratifiedEpoch = e] \in Claim
  /\ \A r \in Claim, e \in Int : [r EXCEPT !.expiresAfter = e] \in Claim
<1> USE DEF Claim
<1>1. NoClaim \in Claim /\ TornClaim \in Claim
  BY DEF NoClaim, TornClaim, NoSlot, NoEpoch
<1>2. \A r \in Claim, e \in Int, b \in Int :
        [r EXCEPT !.file = "claimed", !.claimedEpoch = e, !.preBalance = b] \in Claim
  OBVIOUS
<1>3. \A r \in Claim, s \in Int :
        [r EXCEPT !.file = "prepared", !.validUntil = s] \in Claim
  OBVIOUS
<1>4. \A r \in Claim, t \in Txs : [r EXCEPT !.file = "journalled", !.tx = t] \in Claim
  OBVIOUS
<1>5. \A r \in Claim, e \in Int : [r EXCEPT !.ratifiedEpoch = e] \in Claim
  OBVIOUS
<1>6. \A r \in Claim, e \in Int : [r EXCEPT !.expiresAfter = e] \in Claim
  OBVIOUS
<1> QED BY <1>1, <1>2, <1>3, <1>4, <1>5, <1>6

\* Every step of a creator leaves the claim files typed.
LEMMA CreatorClaimTypes ==
  ASSUME TypeOK, LockInv, NEW c \in Creators, CreatorStep(c)
  PROVE  claim' \in [Receivers -> Claim]
<1>1. claim \in [Receivers -> Claim]
      /\ cEpoch[c] \in Int /\ cPre[c] \in Int /\ volatileSlot + EpochLength \in Int
  BY LedgerAssumption DEF TypeOK
<1>2. cPC[c] \in Claiming => cIdx[c] \in Receivers
  BY DEF LockInv
<1>3. CASE CreatorClaim(c)
  BY <1>1, <1>2, <1>3, ClaimTypes DEF CreatorClaim, Claiming
<1>4. CASE CreatorWrite(c)
  <2>1. [NoClaim EXCEPT !.file = "claimed", !.claimedEpoch = cEpoch[c],
                        !.preBalance = cPre[c]] \in Claim
    BY <1>1, ClaimTypes
  <2> QED BY <1>1, <1>2, <1>4, <2>1 DEF CreatorWrite, Claiming
<1>5. CASE CreatorPrepare(c)
  BY <1>1, <1>2, <1>5, ClaimTypes DEF CreatorPrepare, Claiming
<1>6. CASE CreatorJournal(c)
  <2>1. PICK t \in Txs \ Signed :
          claim' = [claim EXCEPT ![cIdx[c]] = [@ EXCEPT !.file = "journalled", !.tx = t]]
    BY <1>6 DEF CreatorJournal
  <2>2. cIdx[c] \in Receivers
    BY <1>2, <1>6 DEF CreatorJournal, Claiming
  <2>3. [claim[cIdx[c]] EXCEPT !.file = "journalled", !.tx = t] \in Claim
    BY <1>1, <2>1, <2>2, ClaimTypes
  <2> QED BY <1>1, <2>1, <2>2, <2>3
<1>7. CASE CreatorFail(c)
  BY <1>1, <1>2, <1>7, ClaimTypes DEF CreatorFail, ReleaseRecvSlot, Claiming
<1>8. CASE ~(CreatorClaim(c) \/ CreatorWrite(c) \/ CreatorPrepare(c) \/ CreatorJournal(c)
             \/ CreatorFail(c))
  BY <1>1, <1>8
     DEF CreatorStep, CreatorPass, CreatorLock, CreatorSubmit, CreatorQuit, CreatorCrash
<1> QED BY <1>3, <1>4, <1>5, <1>6, <1>7, <1>8

\* A creator's step keeps every variable in its type.
LEMMA CreatorTypes ==
  ASSUME TypeOK, LockInv, CreatorClaimInv, NEW c \in Creators,
         CreatorStart(c) \/ CreatorStep(c)
  PROVE  TypeOK'
<1>0. CreatorStep(c) => claim' \in [Receivers -> Claim]
  BY CreatorClaimTypes
<1> USE WorkloadAssumption, LedgerAssumption DEF TypeOK, NoSlot, NoEpoch, NoReceiver
<1>1. ASSUME CreatorStart(c) PROVE TypeOK'
  BY <1>1, EpochType
     DEF CreatorStart, ledgerVars, voterVars, observerVars
<1>2. ASSUME CreatorPass(c) PROVE TypeOK'
  BY <1>2
     DEF CreatorPass, Candidate, ledgerVars, lockVars, voterVars, observerVars
<1>3. ASSUME CreatorLock(c) PROVE TypeOK'
  BY <1>3, BalanceType
     DEF CreatorLock, Candidate, Pending, Baseline, ledgerVars, voterVars, observerVars
<1>4. ASSUME CreatorClaim(c) PROVE TypeOK'
  <2>1. claim' \in [Receivers -> Claim]
    BY <1>0, <1>4 DEF CreatorStep
  <2>2. /\ cTried' \in [Creators -> SUBSET Receivers]
        /\ cIdx' \in [Creators -> Receivers \cup {NoReceiver}]
    <3>1. cIdx[c] \in Receivers
      BY <1>4 DEF CreatorClaim, LockInv, Claiming
    <3>2. cTried' = cTried \/ cTried' = [cTried EXCEPT ![c] = @ \cup {cIdx[c]}]
      BY <1>4 DEF CreatorClaim
    <3>3. cIdx' = cIdx \/ cIdx' = [cIdx EXCEPT ![c] = NoReceiver]
      BY <1>4 DEF CreatorClaim
    <3> QED BY <3>1, <3>2, <3>3
  <2>3. /\ receiverLock' \in [Receivers -> Creators \cup Observers \cup {Nobody}]
        /\ cPre' \in [Creators -> Int]
        /\ cPC' \in [Creators -> {"idle", "scan", "claim", "write", "prepare", "sign", "submit"}]
    BY <1>4 DEF CreatorClaim, CreatorUnlock
  <2> QED
    BY <1>4, <2>1, <2>2, <2>3
    DEF CreatorClaim, ledgerVars, voterVars, observerVars
<1>5. ASSUME CreatorWrite(c) PROVE TypeOK'
  <2>1. claim' \in [Receivers -> Claim]
    BY <1>0, <1>5 DEF CreatorStep
  <2> QED
    BY <1>5, <2>1
    DEF CreatorWrite, CreatorForget, ledgerVars, lockVars, voterVars, observerVars
<1>6. ASSUME CreatorPrepare(c) PROVE TypeOK'
  <2>1. claim' \in [Receivers -> Claim]
    BY <1>0, <1>6 DEF CreatorStep
  <2> QED
    BY <1>6, <2>1
    DEF CreatorPrepare, ledgerVars, lockVars, voterVars, observerVars
<1>7. ASSUME CreatorJournal(c) PROVE TypeOK'
  <2>1. claim' \in [Receivers -> Claim]
    BY <1>0, <1>7 DEF CreatorStep
  <2>2. cIdx[c] \in Receivers /\ claim[cIdx[c]].validUntil \in Int
    BY <1>7 DEF CreatorJournal, LockInv, Claiming, Claim
  <2>3. PICK t \in Txs : /\ txReceiver' = [txReceiver EXCEPT ![t] = cIdx[c]]
                        /\ txValidUntil' = [txValidUntil EXCEPT ![t] = claim[cIdx[c]].validUntil]
                        /\ cTx' = [cTx EXCEPT ![c] = t]
    BY <1>7 DEF CreatorJournal
  <2>4. /\ txReceiver' \in [Txs -> Receivers \cup {Unsigned}]
        /\ txValidUntil' \in [Txs -> Int]
        /\ cTx' \in [Creators -> Txs \cup {NoTx}]
    BY <2>2, <2>3
  <2>5. receiverLock' \in [Receivers -> Creators \cup Observers \cup {Nobody}]
    BY <1>7 DEF CreatorJournal, CreatorUnlock
  <2> QED
    BY <1>7, <2>1, <2>4, <2>5
    DEF CreatorJournal, voterVars, observerVars
<1>8. ASSUME CreatorSubmit(c) PROVE TypeOK'
  BY <1>8
     DEF CreatorSubmit, CreatorClaimInv, Signed, CreatorEnd, CreatorUnlock, CreatorForget,
         voterVars, observerVars
<1>9. ASSUME CreatorQuit(c) PROVE TypeOK'
  BY <1>9
     DEF CreatorQuit, CreatorEnd, CreatorUnlock, CreatorForget,
         ledgerVars, voterVars, observerVars
<1>10. ASSUME CreatorFail(c) PROVE TypeOK'
  <2>1. claim' \in [Receivers -> Claim]
    BY <1>0, <1>10 DEF CreatorStep
  <2> QED
    BY <1>10, <2>1
    DEF CreatorFail, CreatorEnd, CreatorUnlock, CreatorForget,
         ledgerVars, voterVars, observerVars
<1>11. ASSUME CreatorCrash(c) PROVE TypeOK'
  BY <1>11
     DEF CreatorCrash, CreatorEnd, CreatorUnlock, CreatorForget,
         ledgerVars, voterVars, observerVars
<1> QED
  BY <1>1, <1>2, <1>3, <1>4, <1>5, <1>6, <1>7, <1>8, <1>9, <1>10, <1>11 DEF CreatorStep

\* A voter's step keeps every variable in its type.
LEMMA VoterTypes ==
  ASSUME TypeOK, NEW v \in Voters, VoterQuery(v) \/ VoterStep(v)
  PROVE  TypeOK'
<1> USE WorkloadAssumption DEF TypeOK, VoterEnd
<1>1. CASE VoterQuery(v)
  BY <1>1 DEF VoterQuery, ledgerVars, creatorVars, observerVars
<1>2. CASE VoterCast(v)
  <2>1. PICK t \in Txs, d \in {"yes", "no"} : votesCast' = votesCast \cup {<<t, d>>}
    BY <1>2 DEF VoterCast, VoteCandidates
  <2> QED
    BY <1>2, <2>1 DEF VoterCast, creatorVars, observerVars
<1>3. CASE VoterQuit(v)
  BY <1>3 DEF VoterQuit, ledgerVars, creatorVars, observerVars
<1> QED BY <1>1, <1>2, <1>3 DEF VoterStep

\* Every step of an observer leaves the claim files typed.
LEMMA ObserverClaimTypes ==
  ASSUME TypeOK, LockInv, JournalInv, SnapshotInv,
         ObservedClaimIsCurrent, NEW o \in Observers, ObserverStep(o)
  PROVE  claim' \in [Receivers -> Claim]
<1>1. claim \in [Receivers -> Claim] /\ oTip[o] \in Int
  BY DEF TypeOK
<1>2. oPC[o] \in Examining => oIdx[o] \in Receivers
  BY DEF LockInv
<1>3. oPC[o] = "resolve" => oRec[o].tx \in Txs
  BY DEF SnapshotInv, ObservedClaimIsCurrent, LockInv, JournalInv, Signed, Examining
<1>4. CASE ObserverReclaim(o)
  BY <1>1, <1>2, <1>4, ClaimTypes DEF ObserverReclaim, ReleaseRecvSlot, Examining
<1>5. CASE ObserverCheck(o)
  <2>1. EpochOf(oTip[o]) \in Int
    BY <1>1, EpochType
  <2>2. \/ claim' = claim
        \/ claim' = [claim EXCEPT ![oIdx[o]] = [@ EXCEPT !.ratifiedEpoch = EpochOf(oTip[o])]]
    BY <1>5 DEF ObserverCheck
  <2>3. oIdx[o] \in Receivers
    BY <1>2, <1>5 DEF ObserverCheck, Examining
  <2>4. [claim[oIdx[o]] EXCEPT !.ratifiedEpoch = EpochOf(oTip[o])] \in Claim
    BY <1>1, <2>1, <2>3, ClaimTypes
  <2> QED BY <1>1, <2>2, <2>3, <2>4
<1>6. CASE ObserverNoteExpiry(o)
  <2>1. oIdx[o] \in Receivers
    BY <1>2, <1>6 DEF ObserverNoteExpiry, Examining
  <2>2. ExpiresAfter(oRec[o].tx) \in Int
    BY <1>3, <1>6, ExpiresAfterType DEF ObserverNoteExpiry
  <2> QED BY <1>1, <1>6, <2>1, <2>2, ClaimTypes DEF ObserverNoteExpiry
<1>7. CASE ObserverResolve(o)
  BY <1>1, <1>2, <1>7, ClaimTypes DEF ObserverResolve, ReleaseRecvSlot, Examining
<1>8. CASE ~(ObserverReclaim(o) \/ ObserverCheck(o) \/ ObserverNoteExpiry(o)
             \/ ObserverResolve(o))
  BY <1>1, <1>8
     DEF ObserverStep, ObserverProgress, ObserverQuery, ObserverList, ObserverPass,
         ObserverTake, ObserverTip, ObserverState, ObserverBalance, ObserverRetry,
         ObserverWait, ObserverDone, ObserverSkip, ObserverCrash, ObserverEnd
<1> QED BY <1>4, <1>5, <1>6, <1>7, <1>8

\* An observer's step keeps every variable in its type.
LEMMA ObserverTypes ==
  ASSUME TypeOK, LockInv, JournalInv, SnapshotInv, ObservedClaimIsCurrent,
         NEW o \in Observers, ObserverStep(o)
  PROVE  TypeOK'
<1>0. claim' \in [Receivers -> Claim]
  BY ObserverClaimTypes
<1>r. ASSUME ObserverCheck(o) PROVE oRec' \in [Observers -> Claim]
  <2>1. oRec \in [Observers -> Claim] /\ oTip[o] \in Int
    BY DEF TypeOK
  <2>2. EpochOf(oTip[o]) \in Int
    BY <2>1, EpochType
  <2>3. [oRec[o] EXCEPT !.ratifiedEpoch = EpochOf(oTip[o])] \in Claim
    BY <2>1, <2>2, ClaimTypes
  <2>4. \/ oRec' = oRec
        \/ oRec' = [oRec EXCEPT ![o] = [@ EXCEPT !.ratifiedEpoch = EpochOf(oTip[o])]]
    BY <1>r DEF ObserverCheck
  <2> QED BY <2>1, <2>3, <2>4
<1> USE WorkloadAssumption DEF TypeOK, NoSlot, NoReceiver
<1>1. NoClaim \in Claim /\ (oPC[o] \in Examining => oIdx[o] \in Receivers)
  BY ClaimTypes DEF LockInv
<1>2. CASE ObserverQuery(o)
  BY <1>0, <1>1, <1>2
  DEF ObserverQuery, Examining, ledgerVars, creatorVars, voterVars
<1>3. CASE ObserverList(o)
  BY <1>0, <1>1, <1>3
  DEF ObserverList, Examining, ledgerVars, lockVars, creatorVars, voterVars, Pending
<1>4. CASE ObserverPass(o)
  BY <1>0, <1>1, <1>4
  DEF ObserverPass, Examining, ledgerVars, lockVars, creatorVars, voterVars
<1>5. CASE ObserverTake(o)
  BY <1>0, <1>1, <1>5
  DEF ObserverTake, Examining, ledgerVars, creatorVars, voterVars, Available, Pending
<1>6. CASE ObserverReclaim(o)
  BY <1>0, <1>1, <1>6
  DEF ObserverReclaim, Examining, ObserverNext, ObserverForget, ledgerVars, creatorVars, voterVars
<1>7. CASE ObserverTip(o)
  BY <1>0, <1>1, <1>7
  DEF ObserverTip, Examining, ledgerVars, lockVars, creatorVars, voterVars
<1>8. CASE ObserverState(o)
  BY <1>0, <1>1, <1>8
  DEF ObserverState, Examining, ledgerVars, lockVars, creatorVars, voterVars
<1>9. CASE ObserverBalance(o)
  BY <1>0, <1>1, <1>9
  DEF ObserverBalance, Examining, ledgerVars, lockVars, creatorVars, voterVars
<1>10. CASE ObserverRetry(o)
  BY <1>0, <1>1, <1>10
  DEF ObserverRetry, Examining, ledgerVars, lockVars, creatorVars, voterVars
<1>11. CASE ObserverCheck(o)
  <2>1. oRec' \in [Observers -> Claim]
    BY <1>r, <1>11
  <2>2. alarms' \subseteq {"no_overpay", "payout_matches_ratification", "expired_no_payout"}
    BY <1>11 DEF ObserverCheck, RaiseIf
  <2> QED BY <1>0, <1>11, <2>1, <2>2 DEF ObserverCheck, ledgerVars, lockVars, creatorVars, voterVars
<1>12. CASE ObserverNoteExpiry(o)
  BY <1>0, <1>1, <1>12
  DEF ObserverNoteExpiry, Examining, ObserverNext, ObserverForget, ledgerVars, creatorVars, voterVars
<1>13. CASE ObserverWait(o)
  BY <1>0, <1>1, <1>13
  DEF ObserverWait, Examining, ObserverNext, ObserverForget, ledgerVars, creatorVars, voterVars
<1>14. CASE ObserverResolve(o)
  <2>1. alarms' \subseteq {"no_overpay", "payout_matches_ratification", "expired_no_payout"}
    BY <1>14 DEF ObserverResolve, RaiseIf
  <2> QED
    BY <1>0, <1>1, <1>14, <2>1
    DEF ObserverResolve, Examining, ObserverNext, ObserverForget, ledgerVars, creatorVars, voterVars
<1>15. CASE ObserverSkip(o)
  BY <1>0, <1>1, <1>15
  DEF ObserverSkip, Examining, ObserverNext, ObserverForget, ledgerVars, creatorVars, voterVars
<1>16. CASE ObserverDone(o)
  BY <1>0, <1>1, <1>16
  DEF ObserverDone, Examining, ObserverEnd, ObserverForget, ledgerVars, creatorVars, voterVars
<1>17. CASE ObserverCrash(o)
  BY <1>0, <1>1, <1>17
  DEF ObserverCrash, Examining, ObserverEnd, ObserverForget, ledgerVars, creatorVars, voterVars
<1> QED
  BY <1>2, <1>3, <1>4, <1>5, <1>6, <1>7, <1>8, <1>9, <1>10,
     <1>11, <1>12, <1>13, <1>14, <1>15, <1>16, <1>17
  DEF ObserverStep, ObserverProgress

\* A step of the chain keeps every variable in its type.
LEMMA LedgerTypes ==
  ASSUME TypeOK, LedgerInv, LedgerStep
  PROVE  TypeOK'
<1>1. LedgerInv' /\ UNCHANGED <<txReceiver, txValidUntil, votesCast, submitted>>
  <2>1. LedgerNext
    BY DEF LedgerStep
  <2>2. LedgerInv'
    BY <2>1, LedgerStepInv
  <2>3. CASE Rollback
    BY <2>2, <2>3 DEF Rollback
  <2>4. CASE ~Rollback
    BY <2>1, <2>2, <2>4 DEF LedgerNext, ExtendChain, SettleBlock, Include, Approve
  <2> QED BY <2>3, <2>4
<1> QED
  BY <1>1
  DEF LedgerStep, LedgerInv, LedgerTypeOK, TypeOK, lockVars, creatorVars, voterVars,
      observerVars

-----------------------------------------------------------------------------
\* The chain's invariant does not look at the drivers.
LEMMA LedgerInvUnchanged ==
  ASSUME LedgerInv,
         UNCHANGED <<volatileSlot, immutableSlot, submitted, includedAt, approvedAt,
                     txReceiver, txValidUntil>>
  PROVE  LedgerInv'
  BY DEF LedgerInv, LedgerTypeOK, InclusionInv, ApprovalInv, Signed, ExpiresAfter, EpochOf

\* What no step of creator c touches: the claims of receivers it has not locked,
\* journalled claims, the locks and locals of others, bodies already signed.
LEMMA CreatorFrame ==
  ASSUME TypeOK, LockInv, CreatorClaimInv, NEW c \in Creators,
         CreatorStart(c) \/ CreatorStep(c)
  PROVE  /\ \A i \in Receivers : receiverLock[i] # c => claim'[i] = claim[i]
         /\ \A i \in Receivers : claim[i].file = "journalled" => claim'[i] = claim[i]
         /\ \A i \in Receivers : receiverLock[i] \notin {c, Nobody}
                                    => receiverLock'[i] = receiverLock[i]
         /\ \A d \in Creators \ {c} :
               cPC'[d] = cPC[d] /\ cIdx'[d] = cIdx[d] /\ cTx'[d] = cTx[d]
         /\ UNCHANGED <<observerVars, voterVars, volatileSlot, immutableSlot,
                        includedAt, approvedAt>>
<1>1. claim \in [Receivers -> Claim] /\ receiverLock \in [Receivers -> Creators \cup Observers \cup {Nobody}]
      /\ cPC \in [Creators -> {"idle", "scan", "claim", "write", "prepare", "sign", "submit"}]
      /\ cIdx \in [Creators -> Receivers \cup {NoReceiver}] /\ cTx \in [Creators -> Txs \cup {NoTx}]
  BY DEF TypeOK
<1>2. cPC[c] \in Claiming => cIdx[c] \in Receivers /\ receiverLock[cIdx[c]] = c
  BY DEF LockInv
<1>3. CASE CreatorStart(c) \/ CreatorPass(c)
  BY <1>1, <1>3 DEF CreatorStart, CreatorPass, ledgerVars, lockVars
<1>4. CASE CreatorLock(c)
  BY <1>1, <1>4 DEF CreatorLock, ledgerVars
<1>5. CASE CreatorClaim(c)
  BY <1>1, <1>2, <1>5 DEF CreatorClaim, Claiming, CreatorUnlock, ledgerVars
<1>6. CASE CreatorWrite(c)
  BY <1>1, <1>2, <1>6 DEF CreatorWrite, CreatorForget, Claiming, CreatorClaimInv, ledgerVars, lockVars
<1>7. CASE CreatorPrepare(c)
  BY <1>1, <1>2, <1>7 DEF CreatorPrepare, Claiming, CreatorClaimInv, ledgerVars, lockVars
<1>8. CASE CreatorJournal(c)
  <2>1. PICK t \in Txs :
          /\ claim' = [claim EXCEPT ![cIdx[c]] = [@ EXCEPT !.file = "journalled", !.tx = t]]
          /\ cTx' = [cTx EXCEPT ![c] = t]
    BY <1>8 DEF CreatorJournal
  <2>2. cIdx[c] \in Receivers /\ receiverLock[cIdx[c]] = c /\ claim[cIdx[c]].file = "prepared"
    BY <1>2, <1>8 DEF CreatorJournal, Claiming, CreatorClaimInv
  <2>3. /\ \A i \in Receivers : receiverLock[i] # c => claim'[i] = claim[i]
        /\ \A i \in Receivers : claim[i].file = "journalled" => claim'[i] = claim[i]
    BY <1>1, <2>1, <2>2
  <2> QED
    BY <1>1, <1>8, <2>1, <2>3 DEF CreatorJournal, CreatorUnlock
<1>9. CASE CreatorSubmit(c)
  BY <1>1, <1>9 DEF CreatorSubmit, CreatorEnd, CreatorUnlock
<1>10. CASE CreatorQuit(c) \/ CreatorCrash(c)
  BY <1>1, <1>10 DEF CreatorQuit, CreatorCrash, CreatorEnd, CreatorUnlock, ledgerVars
<1>11. CASE CreatorFail(c)
  BY <1>1, <1>2, <1>11
  DEF CreatorFail, ReleaseRecvSlot, CreatorEnd, CreatorUnlock, Claiming, CreatorClaimInv, ledgerVars
<1> QED
  BY <1>3, <1>4, <1>5, <1>6, <1>7, <1>8, <1>9, <1>10, <1>11 DEF CreatorStep

\* A creator signs a body once, and nothing else touches the bodies.
LEMMA CreatorSigns ==
  ASSUME TypeOK, LockInv, CreatorClaimInv, NEW c \in Creators,
         CreatorStart(c) \/ CreatorStep(c)
  PROVE  /\ Signed \subseteq Signed'
         /\ \A t \in Signed : txReceiver'[t] = txReceiver[t] /\ txValidUntil'[t] = txValidUntil[t]
<1>1. txReceiver \in [Txs -> Receivers \cup {Unsigned}] /\ txValidUntil \in [Txs -> Int]
  BY DEF TypeOK
<1>2. CASE CreatorJournal(c)
  <2>1. PICK t \in Txs \ Signed :
          /\ txReceiver' = [txReceiver EXCEPT ![t] = cIdx[c]]
          /\ txValidUntil' = [txValidUntil EXCEPT ![t] = claim[cIdx[c]].validUntil]
    BY <1>2 DEF CreatorJournal
  <2> QED BY <1>1, <2>1 DEF Signed
<1>3. CASE ~CreatorJournal(c)
  <2>1. UNCHANGED <<txReceiver, txValidUntil>>
    BY <1>3
    DEF CreatorStep, CreatorStart, CreatorPass, CreatorLock, CreatorClaim, CreatorWrite,
        CreatorPrepare, CreatorSubmit, CreatorQuit, CreatorFail, CreatorCrash, ledgerVars
  <2> QED BY <2>1 DEF Signed
<1> QED BY <1>2, <1>3

\* The chain's invariant survives signing and broadcasting.
LEMMA CreatorLedgerInv ==
  ASSUME TypeOK, TypeOK', LedgerInv, LockInv, CreatorClaimInv, NEW c \in Creators,
         CreatorStart(c) \/ CreatorStep(c)
  PROVE  LedgerInv'
<1>1. CASE CreatorJournal(c)
  <2>1. PICK t \in Txs \ Signed :
          /\ txReceiver' = [txReceiver EXCEPT ![t] = cIdx[c]]
          /\ txValidUntil' = [txValidUntil EXCEPT ![t] = claim[cIdx[c]].validUntil]
    BY <1>1 DEF CreatorJournal
  <2>2. UNCHANGED <<volatileSlot, immutableSlot, submitted, includedAt, approvedAt>>
    BY <1>1 DEF CreatorJournal
  <2>3. LedgerTypeOK'
    BY DEF TypeOK, LedgerTypeOK
  <2>4. (submitted \subseteq Signed)'
    BY <2>2, CreatorSigns DEF LedgerInv
  <2>5. includedAt[t] = NoSlot
    BY <2>1 DEF LedgerInv, InclusionInv
  <2>6. InclusionInv'
    BY <2>1, <2>2, <2>5 DEF LedgerInv, LedgerTypeOK, InclusionInv
  <2>7. ApprovalInv'
    BY <2>2 DEF LedgerInv, ApprovalInv, ExpiresAfter, EpochOf
  <2> QED BY <2>2, <2>3, <2>4, <2>6, <2>7 DEF LedgerInv
<1>2. CASE CreatorSubmit(c)
  <2>1. submitted' \in {submitted, submitted \cup {cTx[c]}} /\ cTx[c] \in Signed
    BY <1>2 DEF CreatorSubmit, CreatorClaimInv
  <2>2. UNCHANGED <<volatileSlot, immutableSlot, includedAt, approvedAt, txReceiver, txValidUntil>>
    BY <1>2 DEF CreatorSubmit
  <2> QED
    BY <2>1, <2>2
    DEF LedgerInv, LedgerTypeOK, InclusionInv, ApprovalInv, Signed, ExpiresAfter, EpochOf
<1>3. CASE ~(CreatorJournal(c) \/ CreatorSubmit(c))
  BY <1>3, LedgerInvUnchanged
  DEF CreatorStep, CreatorStart, CreatorPass, CreatorLock, CreatorClaim, CreatorWrite,
      CreatorPrepare, CreatorQuit, CreatorFail, CreatorCrash, ledgerVars
<1> QED BY <1>1, <1>2, <1>3

\* A creator holds its receiver's lock from the claim to the journal, and its
\* claim file is where the creator is.
LEMMA CreatorOwnClaim ==
  ASSUME TypeOK, LockInv, CreatorClaimInv, NEW c \in Creators,
         CreatorStart(c) \/ CreatorStep(c)
  PROVE  /\ cPC'[c] \in Claiming => cIdx'[c] \in Receivers /\ receiverLock'[cIdx'[c]] = c
         /\ cPC'[c] = "write" => claim'[cIdx'[c]].file = "torn"
         /\ cPC'[c] = "prepare" => claim'[cIdx'[c]].file = "claimed"
         /\ cPC'[c] = "sign" => claim'[cIdx'[c]].file = "prepared"
         /\ cPC'[c] = "submit" => cTx'[c] \in Signed'
<1>1. claim \in [Receivers -> Claim] /\ receiverLock \in [Receivers -> Creators \cup Observers \cup {Nobody}]
      /\ cPC \in [Creators -> {"idle", "scan", "claim", "write", "prepare", "sign", "submit"}]
      /\ cIdx \in [Creators -> Receivers \cup {NoReceiver}] /\ cTx \in [Creators -> Txs \cup {NoTx}]
  BY DEF TypeOK
<1>2. cPC[c] \in Claiming => cIdx[c] \in Receivers /\ receiverLock[cIdx[c]] = c
  BY DEF LockInv
<1> USE DEF Claiming
<1>3. CASE CreatorStart(c)
  BY <1>1, <1>3 DEF CreatorStart
<1>4. CASE CreatorPass(c)
  BY <1>1, <1>4 DEF CreatorPass
<1>5. CASE CreatorLock(c)
  BY <1>1, <1>5, WorkloadAssumption DEF CreatorLock
<1>6. CASE CreatorClaim(c)
  BY <1>1, <1>2, <1>6 DEF CreatorClaim, TornClaim, NoClaim
<1>7. CASE CreatorWrite(c)
  BY <1>1, <1>2, <1>7 DEF CreatorWrite, NoClaim, lockVars
<1>8. CASE CreatorPrepare(c)
  <2>1. claim' = [claim EXCEPT ![cIdx[c]] = [@ EXCEPT !.file = "prepared",
                                             !.validUntil = volatileSlot + EpochLength]]
    BY <1>8 DEF CreatorPrepare
  <2>2. cIdx[c] \in Receivers /\ claim[cIdx[c]] \in Claim
    BY <1>1, <1>2, <1>8 DEF CreatorPrepare
  <2>3. claim'[cIdx[c]].file = "prepared"
    BY <1>1, <2>1, <2>2 DEF Claim
  <2> QED BY <1>1, <1>2, <1>8, <2>3 DEF CreatorPrepare, lockVars
<1>9. CASE CreatorJournal(c)
  <2>1. PICK t \in Txs \ Signed :
          /\ txReceiver' = [txReceiver EXCEPT ![t] = cIdx[c]]
          /\ cTx' = [cTx EXCEPT ![c] = t]
    BY <1>9 DEF CreatorJournal
  <2>2. cIdx[c] \in Receivers /\ cIdx[c] # Unsigned
    BY <1>2, <1>9, WorkloadAssumption DEF CreatorJournal, Receivers, Unsigned
  <2>3. txReceiver \in [Txs -> Receivers \cup {Unsigned}]
    BY DEF TypeOK
  <2>4. cTx'[c] \in Signed'
    BY <1>1, <2>1, <2>2, <2>3 DEF Signed
  <2> QED BY <1>1, <1>9, <2>4 DEF CreatorJournal
<1>10. CASE CreatorSubmit(c) \/ CreatorQuit(c) \/ CreatorFail(c) \/ CreatorCrash(c)
  BY <1>1, <1>10 DEF CreatorSubmit, CreatorQuit, CreatorFail, CreatorCrash, CreatorEnd
<1> QED
  BY <1>3, <1>4, <1>5, <1>6, <1>7, <1>8, <1>9, <1>10 DEF CreatorStep

\* The claim a creator journals names the body it signed; it journals no other.
LEMMA CreatorJournals ==
  ASSUME TypeOK, LockInv, CreatorClaimInv, NEW c \in Creators,
         CreatorStart(c) \/ CreatorStep(c), NEW i \in Receivers,
         claim'[i].file = "journalled", claim'[i] # claim[i]
  PROVE  \E t \in Signed' \ Signed :
            /\ claim'[i].tx = t
            /\ txReceiver'[t] = i
            /\ txValidUntil'[t] = claim'[i].validUntil
            /\ \A u \in Signed' \ Signed : u = t
<1>1. claim \in [Receivers -> Claim]
  BY DEF TypeOK
<1>2. CreatorJournal(c)
  <2>1. SUFFICES ASSUME ~CreatorJournal(c) PROVE FALSE
    OBVIOUS
  <2>2. cPC[c] \in Claiming => cIdx[c] \in Receivers
    BY DEF LockInv
  <2>3. CASE CreatorPrepare(c)
    BY <1>1, <2>2, <2>3 DEF CreatorPrepare, Claiming, Claim
  <2>4. CASE CreatorClaim(c) \/ CreatorWrite(c) \/ CreatorFail(c)
    <3>1. CASE CreatorClaim(c)
      BY <1>1, <2>2, <3>1 DEF CreatorClaim, TornClaim, NoClaim, Claiming
    <3>2. CASE CreatorWrite(c)
      BY <1>1, <2>2, <3>2 DEF CreatorWrite, NoClaim, Claiming
    <3>3. CASE CreatorFail(c)
      BY <1>1, <2>2, <3>3 DEF CreatorFail, ReleaseRecvSlot, NoClaim, Claiming
    <3> QED BY <2>4, <3>1, <3>2, <3>3
  <2>5. CASE ~(CreatorPrepare(c) \/ CreatorClaim(c) \/ CreatorWrite(c) \/ CreatorFail(c))
    BY <2>1, <2>5
    DEF CreatorStep, CreatorStart, CreatorPass, CreatorLock, CreatorSubmit, CreatorQuit, CreatorCrash
  <2> QED BY <2>3, <2>4, <2>5
<1>3. PICK t \in Txs \ Signed :
        /\ txReceiver' = [txReceiver EXCEPT ![t] = cIdx[c]]
        /\ txValidUntil' = [txValidUntil EXCEPT ![t] = claim[cIdx[c]].validUntil]
        /\ claim' = [claim EXCEPT ![cIdx[c]] = [@ EXCEPT !.file = "journalled", !.tx = t]]
  BY <1>2 DEF CreatorJournal
<1>4. cIdx[c] \in Receivers /\ cIdx[c] # Unsigned
  BY <1>2, WorkloadAssumption DEF CreatorJournal, LockInv, Claiming, Receivers, Unsigned
<1>5. i = cIdx[c]
  BY <1>1, <1>3
<1>6. claim'[i].tx = t /\ claim'[i].validUntil = claim[i].validUntil
  BY <1>1, <1>3, <1>5 DEF Claim
<1>7. txReceiver \in [Txs -> Receivers \cup {Unsigned}] /\ txValidUntil \in [Txs -> Int]
  BY DEF TypeOK
<1>8. txReceiver'[t] = i /\ txValidUntil'[t] = claim'[i].validUntil
  BY <1>3, <1>5, <1>6, <1>7
<1>9. t \in Signed' \ Signed /\ \A u \in Signed' \ Signed : u = t
  BY <1>3, <1>4, <1>7 DEF Signed
<1> QED BY <1>6, <1>8, <1>9

\* A creator's step keeps the invariant.
LEMMA CreatorInv ==
  ASSUME IInv, NEW c \in Creators, CreatorStart(c) \/ CreatorStep(c)
  PROVE  IInv'
<1>1. TypeOK /\ LedgerInv /\ LockInv /\ CreatorClaimInv
  BY DEF IInv
<1>2. TypeOK'
  BY <1>1, CreatorTypes
<1>3. LedgerInv'
  BY <1>1, <1>2, CreatorLedgerInv
<1>4. LockInv'
  <2>1. ASSUME NEW d \in Creators, cPC'[d] \in Claiming
        PROVE  cIdx'[d] \in Receivers /\ receiverLock'[cIdx'[d]] = d
    <3>1. CASE d = c
      BY <1>1, <2>1, <3>1, CreatorOwnClaim
    <3>2. CASE d # c
      BY <1>1, <2>1, <3>2, CreatorFrame, WorkloadAssumption DEF LockInv
    <3> QED BY <3>1, <3>2
  <2>2. ASSUME NEW o \in Observers, oPC'[o] \in Examining
        PROVE  oIdx'[o] \in Receivers /\ receiverLock'[oIdx'[o]] = o
    BY <1>1, <2>2, CreatorFrame, WorkloadAssumption DEF LockInv, observerVars
  <2> QED BY <2>1, <2>2 DEF LockInv
<1>5. CreatorClaimInv'
  <2>1. ASSUME NEW d \in Creators
        PROVE  /\ cPC'[d] = "write" => claim'[cIdx'[d]].file = "torn"
               /\ cPC'[d] = "prepare" => claim'[cIdx'[d]].file = "claimed"
               /\ cPC'[d] = "sign" => claim'[cIdx'[d]].file = "prepared"
               /\ cPC'[d] = "submit" => cTx'[d] \in Signed'
    <3>1. CASE d = c
      BY <1>1, <3>1, CreatorOwnClaim
    <3>2. CASE d # c
      <4>1. cPC'[d] = cPC[d] /\ cIdx'[d] = cIdx[d] /\ cTx'[d] = cTx[d]
        BY <1>1, <3>2, CreatorFrame
      <4>2. cPC[d] \in Claiming => cIdx[d] \in Receivers /\ receiverLock[cIdx[d]] # c
        BY <1>1, <3>2 DEF LockInv
      <4>3. cPC[d] \in Claiming => claim'[cIdx[d]] = claim[cIdx[d]]
        BY <1>1, <4>2, CreatorFrame
      <4>4. Signed \subseteq Signed'
        BY <1>1, CreatorSigns
      <4> QED BY <1>1, <4>1, <4>3, <4>4 DEF CreatorClaimInv, Claiming
    <3> QED BY <3>1, <3>2
  <2> QED BY <2>1 DEF CreatorClaimInv
<1>6. JournalInv'
  <2>1. ASSUME NEW i \in Receivers, claim'[i].file = "journalled"
        PROVE  /\ claim'[i].tx \in Signed'
               /\ txReceiver'[claim'[i].tx] = i
               /\ txValidUntil'[claim'[i].tx] = claim'[i].validUntil
    <3>1. CASE claim'[i] = claim[i]
      BY <1>1, <2>1, <3>1, CreatorSigns DEF IInv, JournalInv
    <3>2. CASE claim'[i] # claim[i]
      BY <1>1, <2>1, <3>2, CreatorJournals
    <3> QED BY <3>1, <3>2
  <2> QED BY <2>1 DEF JournalInv
<1>7. SnapshotInv'
  BY <1>1, CreatorFrame DEF IInv, SnapshotInv, observerVars
<1>8. ObservedClaimIsCurrent'
  <2>1. ASSUME NEW o \in Observers, oPC'[o] \in Examining
        PROVE  claim'[oIdx'[o]] = oRec'[o]
    <3>1. oPC' = oPC /\ oIdx' = oIdx /\ oRec' = oRec
      BY <1>1, CreatorFrame DEF observerVars
    <3>2. oIdx[o] \in Receivers /\ receiverLock[oIdx[o]] # c
      BY <1>1, <2>1, <3>1, WorkloadAssumption DEF LockInv
    <3>3. claim'[oIdx[o]] = claim[oIdx[o]]
      BY <1>1, <3>2, CreatorFrame
    <3> QED BY <2>1, <3>1, <3>3 DEF IInv, ObservedClaimIsCurrent, Examining
  <2> QED BY <2>1 DEF ObservedClaimIsCurrent, Examining
<1>9. OneUnsettledPerReceiver'
  <2>1. ASSUME NEW t \in Signed', ~Settled(t)'
        PROVE  /\ claim'[txReceiver'[t]].file = "journalled"
               /\ claim'[txReceiver'[t]].tx = t
    <3>1. CASE t \in Signed
      <4>1. txReceiver'[t] = txReceiver[t] /\ txValidUntil'[t] = txValidUntil[t]
        BY <1>1, <3>1, CreatorSigns
      <4>2. UNCHANGED <<immutableSlot, includedAt, approvedAt>>
        BY <1>1, CreatorFrame
      <4>3. ~Settled(t)
        BY <2>1, <4>1, <4>2 DEF Settled, LiveAt, SettlesIn, ExpiresAfter, EpochOf
      <4>4. claim[txReceiver[t]].file = "journalled" /\ claim[txReceiver[t]].tx = t
        BY <3>1, <4>3 DEF IInv, OneUnsettledPerReceiver
      <4>5. txReceiver[t] \in Receivers
        BY <1>1, <3>1 DEF TypeOK, Signed
      <4>6. claim'[txReceiver[t]] = claim[txReceiver[t]]
        BY <1>1, <4>4, <4>5, CreatorFrame
      <4> QED BY <4>1, <4>4, <4>6
    <3>2. CASE t \notin Signed
      <4>1. CreatorJournal(c)
        <5>1. ASSUME ~CreatorJournal(c) PROVE txReceiver' = txReceiver
          BY <5>1
          DEF CreatorStep, CreatorStart, CreatorPass, CreatorLock, CreatorClaim, CreatorWrite,
              CreatorPrepare, CreatorSubmit, CreatorQuit, CreatorFail, CreatorCrash, ledgerVars
        <5> QED BY <2>1, <3>2, <5>1 DEF Signed
      <4>2. PICK u \in Txs \ Signed :
              /\ txReceiver' = [txReceiver EXCEPT ![u] = cIdx[c]]
              /\ claim' = [claim EXCEPT ![cIdx[c]] = [@ EXCEPT !.file = "journalled", !.tx = u]]
        BY <4>1 DEF CreatorJournal
      <4>3. cIdx[c] \in Receivers
        BY <1>1, <4>1 DEF CreatorJournal, LockInv, Claiming
      <4>4. t = u /\ txReceiver'[t] = cIdx[c]
        BY <1>1, <2>1, <3>2, <4>2 DEF TypeOK, Signed
      <4>5. claim \in [Receivers -> Claim]
        BY <1>1 DEF TypeOK
      <4> QED BY <4>2, <4>3, <4>4, <4>5 DEF Claim
    <3> QED BY <3>1, <3>2
  <2> QED BY <2>1 DEF OneUnsettledPerReceiver
<1> QED BY <1>2, <1>3, <1>4, <1>5, <1>6, <1>7, <1>8, <1>9 DEF IInv

-----------------------------------------------------------------------------
\* A voter's step keeps the invariant: it touches votes and its own lock only.
LEMMA VoterInv ==
  ASSUME IInv, NEW v \in Voters, VoterQuery(v) \/ VoterStep(v)
  PROVE  IInv'
<1>1. TypeOK'
  BY VoterTypes DEF IInv
<1>2. UNCHANGED <<volatileSlot, immutableSlot, submitted, includedAt, approvedAt, txReceiver,
                  txValidUntil, claim, receiverLock, creatorVars, observerVars>>
  BY DEF VoterQuery, VoterStep, VoterCast, VoterQuit, VoterEnd, ledgerVars
<1>3. LedgerInv'
  BY <1>2, LedgerInvUnchanged DEF IInv
<1>4. LockInv' /\ CreatorClaimInv' /\ JournalInv' /\ SnapshotInv' /\ ObservedClaimIsCurrent'
  BY <1>2
  DEF IInv, LockInv, CreatorClaimInv, JournalInv, SnapshotInv, ObservedClaimIsCurrent, Signed,
      creatorVars, observerVars
<1>5. OneUnsettledPerReceiver'
  BY <1>2
  DEF IInv, OneUnsettledPerReceiver, Signed, Settled, LiveAt, SettlesIn, ExpiresAfter, EpochOf
<1> QED BY <1>1, <1>3, <1>4, <1>5 DEF IInv

-----------------------------------------------------------------------------
\* What no step of observer o touches: the claims of receivers it has not
\* locked, the locks and locals of others, the chain.
LEMMA ObserverFrame ==
  ASSUME TypeOK, LockInv, NEW o \in Observers, ObserverStep(o)
  PROVE  /\ \A i \in Receivers : receiverLock[i] # o => claim'[i] = claim[i]
         /\ \A i \in Receivers : receiverLock[i] \notin {o, Nobody}
                                    => receiverLock'[i] = receiverLock[i]
         /\ \A p \in Observers \ {o} :
               /\ oPC'[p] = oPC[p] /\ oIdx'[p] = oIdx[p] /\ oRec'[p] = oRec[p]
               /\ oTip'[p] = oTip[p] /\ oState'[p] = oState[p] /\ oBalance'[p] = oBalance[p]
         /\ UNCHANGED <<ledgerVars, creatorVars, voterVars>>
<1>1. /\ claim \in [Receivers -> Claim]
      /\ receiverLock \in [Receivers -> Creators \cup Observers \cup {Nobody}]
      /\ oPC \in [Observers -> {"idle", "list", "scan", "tip", "state", "balance", "check", "resolve"}]
      /\ oIdx \in [Observers -> Receivers \cup {NoReceiver}]
      /\ oRec \in [Observers -> Claim]
      /\ oTip \in [Observers -> Int]
      /\ oState \in [Observers -> Int]
      /\ oBalance \in [Observers -> Int]
  BY DEF TypeOK
<1>2. oPC[o] \in Examining => oIdx[o] \in Receivers /\ receiverLock[oIdx[o]] = o
  BY DEF LockInv
<1> USE DEF lockVars, Examining, ObserverNext, ObserverForget
<1>3. CASE ObserverQuery(o) \/ ObserverList(o) \/ ObserverPass(o)
  BY <1>1, <1>3 DEF ObserverQuery, ObserverList, ObserverPass
<1>4. CASE ObserverTake(o)
  BY <1>1, <1>4 DEF ObserverTake, Available
<1>5. CASE ObserverReclaim(o)
  BY <1>1, <1>2, <1>5 DEF ObserverReclaim, ReleaseRecvSlot
<1>6. CASE ObserverTip(o) \/ ObserverState(o) \/ ObserverBalance(o) \/ ObserverRetry(o)
  BY <1>1, <1>6 DEF ObserverTip, ObserverState, ObserverBalance, ObserverRetry
<1>7. CASE ObserverCheck(o)
  <2>1. \/ UNCHANGED <<claim, oRec>>
        \/ /\ claim' = [claim EXCEPT ![oIdx[o]] = [@ EXCEPT !.ratifiedEpoch = EpochOf(oTip[o])]]
           /\ oRec' = [oRec EXCEPT ![o] = [@ EXCEPT !.ratifiedEpoch = EpochOf(oTip[o])]]
    BY <1>7 DEF ObserverCheck
  <2>2. oIdx[o] \in Receivers /\ receiverLock[oIdx[o]] = o
    BY <1>2, <1>7 DEF ObserverCheck
  <2>3. /\ \A i \in Receivers : receiverLock[i] # o => claim'[i] = claim[i]
        /\ \A p \in Observers \ {o} : oRec'[p] = oRec[p]
    BY <1>1, <2>1, <2>2
  <2> QED BY <1>1, <1>7, <2>3 DEF ObserverCheck
<1>8. CASE ObserverNoteExpiry(o)
  BY <1>1, <1>2, <1>8 DEF ObserverNoteExpiry
<1>9. CASE ObserverResolve(o)
  BY <1>1, <1>2, <1>9 DEF ObserverResolve, ReleaseRecvSlot
<1>10. CASE ObserverWait(o) \/ ObserverSkip(o)
  BY <1>1, <1>2, <1>10 DEF ObserverWait, ObserverSkip
<1>11. CASE ObserverDone(o) \/ ObserverCrash(o)
  BY <1>1, <1>11 DEF ObserverDone, ObserverCrash, ObserverEnd
<1> QED
  BY <1>3, <1>4, <1>5, <1>6, <1>7, <1>8, <1>9, <1>10, <1>11 DEF ObserverStep, ObserverProgress

\* An observer that examines a receiver holds its lock, knows its claim as it
\* is, and takes its snapshot in order.
LEMMA ObserverOwnClaim ==
  ASSUME TypeOK, LockInv, SnapshotInv, ObservedClaimIsCurrent, NEW o \in Observers,
         ObserverStep(o), oPC'[o] \in Examining
  PROVE  /\ oIdx'[o] \in Receivers /\ receiverLock'[oIdx'[o]] = o
         /\ claim'[oIdx'[o]] = oRec'[o]
         /\ oPC'[o] \in {"state", "balance", "check", "resolve"} =>
               oRec'[o].file = "journalled" /\ oTip'[o] <= immutableSlot
         /\ oPC'[o] \in {"balance", "check", "resolve"} =>
               oTip'[o] <= oState'[o] /\ oState'[o] <= immutableSlot
         /\ oPC'[o] \in {"check", "resolve"} =>
               oState'[o] <= oBalance'[o] /\ oBalance'[o] <= immutableSlot
         /\ oPC'[o] = "resolve" => oTip'[o] = oState'[o] /\ oState'[o] = oBalance'[o]
<1>1. /\ claim \in [Receivers -> Claim]
      /\ receiverLock \in [Receivers -> Creators \cup Observers \cup {Nobody}]
      /\ oPC \in [Observers -> {"idle", "list", "scan", "tip", "state", "balance", "check", "resolve"}]
      /\ oIdx \in [Observers -> Receivers \cup {NoReceiver}]
      /\ oRec \in [Observers -> Claim]
      /\ oTip \in [Observers -> Int]
      /\ oState \in [Observers -> Int]
      /\ oBalance \in [Observers -> Int]
      /\ immutableSlot \in Nat
  BY DEF TypeOK
<1>2. oPC[o] \in Examining =>
        oIdx[o] \in Receivers /\ receiverLock[oIdx[o]] = o /\ claim[oIdx[o]] = oRec[o]
  BY DEF LockInv, ObservedClaimIsCurrent, Examining
<1> USE DEF lockVars, Examining
<1>3. CASE ObserverTake(o)
  BY <1>1, <1>3 DEF ObserverTake, Available, Pending
<1>4. CASE ObserverTip(o)
  BY <1>1, <1>2, <1>4 DEF ObserverTip
<1>5. CASE ObserverState(o)
  BY <1>1, <1>2, <1>5 DEF ObserverState, SnapshotInv
<1>6. CASE ObserverBalance(o)
  BY <1>1, <1>2, <1>6 DEF ObserverBalance, SnapshotInv
<1>7. CASE ObserverRetry(o)
  BY <1>1, <1>2, <1>7 DEF ObserverRetry
<1>8. CASE ObserverCheck(o)
  <2>1. \/ UNCHANGED <<claim, oRec>>
        \/ /\ claim' = [claim EXCEPT ![oIdx[o]] = [@ EXCEPT !.ratifiedEpoch = EpochOf(oTip[o])]]
           /\ oRec' = [oRec EXCEPT ![o] = [@ EXCEPT !.ratifiedEpoch = EpochOf(oTip[o])]]
    BY <1>8 DEF ObserverCheck
  <2>2. oIdx[o] \in Receivers /\ receiverLock[oIdx[o]] = o /\ claim[oIdx[o]] = oRec[o]
    BY <1>2, <1>8 DEF ObserverCheck
  <2>3. claim'[oIdx[o]] = oRec'[o]
    BY <1>1, <2>1, <2>2
  <2>4. oRec'[o].file = oRec[o].file
    BY <1>1, <2>1 DEF Claim
  <2>5. oRec[o].file = "journalled" /\ oTip[o] = immutableSlot
        /\ oTip[o] <= oState[o] /\ oState[o] <= oBalance[o] /\ oBalance[o] <= immutableSlot
    BY <1>8 DEF ObserverCheck, SameTip, SnapshotInv
  <2> QED BY <1>1, <1>8, <2>2, <2>3, <2>4, <2>5 DEF ObserverCheck
<1>9. CASE ObserverQuery(o) \/ ObserverList(o) \/ ObserverPass(o)
  BY <1>1, <1>9 DEF ObserverQuery, ObserverList, ObserverPass
<1>10. CASE ObserverReclaim(o) \/ ObserverNoteExpiry(o) \/ ObserverWait(o) \/ ObserverResolve(o)
            \/ ObserverSkip(o)
  BY <1>1, <1>10
  DEF ObserverReclaim, ObserverNoteExpiry, ObserverWait, ObserverResolve, ObserverSkip, ObserverNext
<1>11. CASE ObserverDone(o) \/ ObserverCrash(o)
  BY <1>1, <1>11 DEF ObserverDone, ObserverCrash, ObserverEnd
<1> QED
  BY <1>3, <1>4, <1>5, <1>6, <1>7, <1>8, <1>9, <1>10, <1>11 DEF ObserverStep, ObserverProgress

\* An observer leaves a journalled claim naming its transaction, or releases it
\* when that transaction is settled.
LEMMA ObserverReleases ==
  ASSUME IInv, NEW o \in Observers, ObserverStep(o), NEW i \in Receivers
  PROVE  \/ claim'[i] = claim[i]
         \/ claim'[i].file # "journalled" /\ (claim[i].file = "journalled" => Settled(claim[i].tx))
         \/ /\ claim[i].file = "journalled"
            /\ claim'[i].file = claim[i].file
            /\ claim'[i].tx = claim[i].tx
            /\ claim'[i].validUntil = claim[i].validUntil
<1>1. /\ claim \in [Receivers -> Claim]
      /\ oIdx \in [Observers -> Receivers \cup {NoReceiver}]
  BY DEF IInv, TypeOK
<1>2. oPC[o] \in Examining => oIdx[o] \in Receivers /\ claim[oIdx[o]] = oRec[o]
  BY DEF IInv, LockInv, ObservedClaimIsCurrent, Examining
<1> USE DEF Examining, lockVars
<1>3. CASE i # oIdx[o] \/ oPC[o] \notin Examining
  <2>1. \A j \in Receivers : receiverLock[j] # o => claim'[j] = claim[j]
    BY ObserverFrame DEF IInv
  <2>2. claim'[i] = claim[i]
    BY <1>1, <1>3
    DEF ObserverStep, ObserverProgress, ObserverQuery, ObserverList, ObserverPass, ObserverTake,
        ObserverReclaim, ReleaseRecvSlot, ObserverTip, ObserverState, ObserverBalance,
        ObserverRetry, ObserverCheck, ObserverNoteExpiry, ObserverWait, ObserverResolve,
        ObserverSkip, ObserverDone, ObserverCrash, ObserverEnd
  <2> QED BY <2>2
<1>4. CASE i = oIdx[o] /\ ObserverReclaim(o)
  BY <1>1, <1>2, <1>4 DEF ObserverReclaim, NeverBroadcast, ReleaseRecvSlot, NoClaim
<1>5. CASE i = oIdx[o] /\ ObserverCheck(o)
  <2>1. \/ claim' = claim
        \/ claim' = [claim EXCEPT ![i] = [@ EXCEPT !.ratifiedEpoch = EpochOf(oTip[o])]]
    BY <1>5 DEF ObserverCheck
  <2>2. claim[i].file = "journalled"
    BY <1>2, <1>5 DEF ObserverCheck, IInv, SnapshotInv
  <2> QED BY <1>1, <2>1, <2>2 DEF Claim
<1>6. CASE i = oIdx[o] /\ ObserverNoteExpiry(o)
  <2>1. claim' = [claim EXCEPT ![i] = [@ EXCEPT !.expiresAfter = ExpiresAfter(oRec[o].tx)]]
    BY <1>6 DEF ObserverNoteExpiry
  <2>2. claim[i].file = "journalled"
    BY <1>2, <1>6 DEF ObserverNoteExpiry, IInv, SnapshotInv
  <2> QED BY <1>1, <2>1, <2>2 DEF Claim
<1>7. CASE i = oIdx[o] /\ ObserverResolve(o)
  <2>1. claim[i] = oRec[o] /\ claim[i].file = "journalled"
    BY <1>2, <1>7 DEF ObserverResolve, IInv, SnapshotInv
  <2>2. claim[i].tx \in Txs /\ txValidUntil[claim[i].tx] = claim[i].validUntil
    BY <2>1 DEF IInv, JournalInv, Signed
  <2>3. oState[o] \in Int /\ oState[o] <= immutableSlot /\ oTip[o] = oState[o]
    BY <1>7 DEF ObserverResolve, IInv, SnapshotInv, TypeOK
  <2>4. txValidUntil[claim[i].tx] <= oState[o]
    BY <1>7, <2>1, <2>2, <2>3 DEF ObserverResolve, Undecided, IInv, TypeOK
  <2>5. ~LiveAt(claim[i].tx, oState[o])
    BY <1>7, <2>1 DEF ObserverResolve, ImmutableLive
  <2>6. Settled(claim[i].tx)
    BY <2>2, <2>3, <2>4, <2>5, AbsentIsSettled DEF IInv
  <2>7. claim'[i] = claim[i] \/ claim'[i] = NoClaim
    BY <1>1, <1>7 DEF ObserverResolve, ReleaseRecvSlot
  <2> QED BY <2>6, <2>7 DEF NoClaim
<1>8. CASE ~(ObserverReclaim(o) \/ ObserverCheck(o) \/ ObserverNoteExpiry(o)
             \/ ObserverResolve(o))
  BY <1>8
  DEF ObserverStep, ObserverProgress, ObserverQuery, ObserverList, ObserverPass, ObserverTake,
      ObserverTip, ObserverState, ObserverBalance, ObserverRetry, ObserverWait, ObserverSkip,
      ObserverDone, ObserverCrash, ObserverEnd
<1> QED BY <1>3, <1>4, <1>5, <1>6, <1>7, <1>8

\* An observer's step keeps the invariant.
LEMMA ObserverInv ==
  ASSUME IInv, NEW o \in Observers, ObserverStep(o)
  PROVE  IInv'
<1>1. TypeOK /\ LedgerInv /\ LockInv /\ JournalInv /\ SnapshotInv /\ ObservedClaimIsCurrent
      /\ CreatorClaimInv
  BY DEF IInv
<1>2. TypeOK'
  BY <1>1, ObserverTypes
<1>3. UNCHANGED <<ledgerVars, creatorVars, voterVars>>
  BY <1>1, ObserverFrame
<1>4. LedgerInv'
  BY <1>1, <1>3, LedgerInvUnchanged DEF ledgerVars
<1>5. LockInv'
  <2>1. ASSUME NEW c \in Creators, cPC'[c] \in Claiming
        PROVE  cIdx'[c] \in Receivers /\ receiverLock'[cIdx'[c]] = c
    BY <1>1, <1>3, <2>1, ObserverFrame, WorkloadAssumption DEF LockInv, creatorVars
  <2>2. ASSUME NEW p \in Observers, oPC'[p] \in Examining
        PROVE  oIdx'[p] \in Receivers /\ receiverLock'[oIdx'[p]] = p
    <3>1. CASE p = o
      BY <1>1, <2>2, <3>1, ObserverOwnClaim
    <3>2. CASE p # o
      BY <1>1, <2>2, <3>2, ObserverFrame, WorkloadAssumption DEF LockInv
    <3> QED BY <3>1, <3>2
  <2> QED BY <2>1, <2>2 DEF LockInv
<1>6. CreatorClaimInv'
  <2>1. ASSUME NEW c \in Creators, cPC[c] \in Claiming PROVE claim'[cIdx[c]] = claim[cIdx[c]]
    <3>1. cIdx[c] \in Receivers /\ receiverLock[cIdx[c]] # o
      BY <1>1, <2>1, WorkloadAssumption DEF LockInv
    <3> QED BY <1>1, <3>1, ObserverFrame
  <2>2. cPC' = cPC /\ cIdx' = cIdx /\ cTx' = cTx /\ Signed' = Signed
    BY <1>3 DEF creatorVars, ledgerVars, Signed
  <2> QED BY <1>1, <2>1, <2>2 DEF CreatorClaimInv, Claiming
<1>7. JournalInv'
  <2>1. ASSUME NEW i \in Receivers, claim'[i].file = "journalled"
        PROVE  /\ claim[i].file = "journalled"
               /\ claim'[i].tx = claim[i].tx
               /\ claim'[i].validUntil = claim[i].validUntil
    BY <2>1, ObserverReleases
  <2>2. txReceiver' = txReceiver /\ txValidUntil' = txValidUntil /\ Signed' = Signed
    BY <1>3 DEF ledgerVars, Signed
  <2> QED BY <1>1, <2>1, <2>2 DEF JournalInv
<1>8. \A p \in Observers \ {o} :
         /\ oPC'[p] = oPC[p] /\ oIdx'[p] = oIdx[p] /\ oRec'[p] = oRec[p]
         /\ oTip'[p] = oTip[p] /\ oState'[p] = oState[p] /\ oBalance'[p] = oBalance[p]
  BY <1>1, ObserverFrame
<1>9. SnapshotInv'
  <2>1. immutableSlot' = immutableSlot
    BY <1>3 DEF ledgerVars
  <2> QED BY <1>1, <1>8, <2>1, ObserverOwnClaim DEF SnapshotInv, Examining
<1>10. ObservedClaimIsCurrent'
  <2>1. ASSUME NEW p \in Observers, oPC'[p] \in Examining
        PROVE  claim'[oIdx'[p]] = oRec'[p]
    <3>1. CASE p = o
      BY <1>1, <2>1, <3>1, ObserverOwnClaim
    <3>2. CASE p # o
      <4>1. oIdx[p] \in Receivers /\ receiverLock[oIdx[p]] # o
        BY <1>1, <1>8, <2>1, <3>2 DEF LockInv
      <4>2. claim'[oIdx[p]] = claim[oIdx[p]]
        BY <1>1, <4>1, ObserverFrame
      <4> QED BY <1>1, <1>8, <2>1, <3>2, <4>2 DEF ObservedClaimIsCurrent, Examining
    <3> QED BY <3>1, <3>2
  <2> QED BY <2>1 DEF ObservedClaimIsCurrent, Examining
<1>11. OneUnsettledPerReceiver'
  <2>1. ASSUME NEW t \in Signed, ~Settled(t)
        PROVE  claim'[txReceiver[t]].file = "journalled" /\ claim'[txReceiver[t]].tx = t
    <3>1. claim[txReceiver[t]].file = "journalled" /\ claim[txReceiver[t]].tx = t
      BY <2>1 DEF IInv, OneUnsettledPerReceiver
    <3>2. txReceiver[t] \in Receivers
      BY <1>1, <2>1 DEF TypeOK, Signed
    <3> QED BY <2>1, <3>1, <3>2, ObserverReleases
  <2>2. txReceiver' = txReceiver /\ Signed' = Signed /\ \A t \in Txs : Settled(t)' = Settled(t)
    BY <1>3 DEF ledgerVars, Signed, Settled, LiveAt, SettlesIn, ExpiresAfter, EpochOf
  <2> QED BY <2>1, <2>2 DEF OneUnsettledPerReceiver, Signed
<1> QED BY <1>2, <1>4, <1>5, <1>6, <1>7, <1>9, <1>10, <1>11 DEF IInv

-----------------------------------------------------------------------------
\* A step of the chain keeps the invariant: what is settled stays settled.
LEMMA ChainInv ==
  ASSUME IInv, LedgerStep
  PROVE  IInv'
<1>1. LedgerNext /\ UNCHANGED <<claim, lockVars, creatorVars, voterVars, observerVars, alarms>>
  BY DEF LedgerStep
<1>2. TypeOK'
  BY LedgerTypes DEF IInv
<1>3. LedgerInv'
  BY <1>1, LedgerStepInv DEF IInv
<1>4. UNCHANGED <<txReceiver, txValidUntil>> /\ immutableSlot <= immutableSlot'
  <2>1. CASE Rollback
    BY <2>1 DEF Rollback, IInv, TypeOK
  <2>2. CASE ExtendChain \/ SettleBlock
    BY <2>2 DEF ExtendChain, SettleBlock, IInv, TypeOK
  <2>3. CASE \E t \in Txs : Include(t) \/ Approve(t)
    BY <2>3 DEF Include, Approve, IInv, TypeOK
  <2> QED BY <1>1, <2>1, <2>2, <2>3 DEF LedgerNext
<1>5. LockInv' /\ CreatorClaimInv' /\ JournalInv' /\ ObservedClaimIsCurrent'
  BY <1>1, <1>4
  DEF IInv, LockInv, CreatorClaimInv, JournalInv, ObservedClaimIsCurrent, Signed, lockVars,
      creatorVars, observerVars
<1>6. SnapshotInv'
  <2>1. immutableSlot \in Int /\ immutableSlot' \in Int
        /\ \A o \in Observers : oTip[o] \in Int /\ oState[o] \in Int /\ oBalance[o] \in Int
    BY <1>2 DEF IInv, TypeOK
  <2> QED BY <1>1, <1>4, <2>1 DEF IInv, SnapshotInv, observerVars
<1>7. OneUnsettledPerReceiver'
  <2>1. ASSUME NEW t \in Signed, ~Settled(t)' PROVE ~Settled(t)
    BY <1>1, <2>1, SettledStable DEF IInv, Signed
  <2>2. Signed' = Signed /\ claim' = claim
    BY <1>1, <1>4 DEF Signed
  <2> QED BY <1>4, <2>1, <2>2 DEF IInv, OneUnsettledPerReceiver
<1> QED BY <1>2, <1>3, <1>5, <1>6, <1>7 DEF IInv

-----------------------------------------------------------------------------
\* The drivers start from a state that satisfies the invariant.
LEMMA InitInv == Init => IInv
<1> SUFFICES ASSUME Init PROVE IInv
  OBVIOUS
<1> USE DEF Init, LedgerInit, NoSlot, NoEpoch, NoReceiver
<1>1. TypeOK
  <2>1. claim \in [Receivers -> Claim] /\ oRec \in [Observers -> Claim]
    BY ClaimTypes
  <2>2. /\ volatileSlot \in Nat /\ immutableSlot \in Nat
        /\ submitted \subseteq Txs /\ votesCast \subseteq Txs \X {"yes", "no"}
        /\ includedAt \in [Txs -> Int] /\ approvedAt \in [Txs -> Int]
        /\ txReceiver \in [Txs -> Receivers \cup {Unsigned}] /\ txValidUntil \in [Txs -> Int]
    OBVIOUS
  <2>3. /\ submissionLock \in Creators \cup Voters \cup {Nobody}
        /\ observerLock \in Observers \cup {Nobody}
        /\ receiverLock \in [Receivers -> Creators \cup Observers \cup {Nobody}]
    OBVIOUS
  <2> QED BY <2>1, <2>2, <2>3 DEF TypeOK
<1>2. LedgerInv
  BY DEF LedgerInv, LedgerTypeOK, InclusionInv, ApprovalInv, Signed
<1>3. LockInv /\ CreatorClaimInv /\ SnapshotInv /\ ObservedClaimIsCurrent
  BY DEF LockInv, CreatorClaimInv, SnapshotInv, ObservedClaimIsCurrent, Claiming, Examining
<1>4. JournalInv
  BY DEF JournalInv, NoClaim
<1>5. OneUnsettledPerReceiver
  BY DEF OneUnsettledPerReceiver, Signed
<1> QED BY <1>1, <1>2, <1>3, <1>4, <1>5 DEF IInv

\* A step that changes no variable keeps it.
LEMMA StutterInv == ASSUME IInv, UNCHANGED vars PROVE IInv'
<1> USE DEF vars, ledgerVars, lockVars, creatorVars, voterVars, observerVars
<1>1. TypeOK'
  BY DEF IInv, TypeOK
<1>2. LedgerInv'
  BY LedgerInvUnchanged DEF IInv
<1>3. LockInv' /\ CreatorClaimInv' /\ JournalInv' /\ SnapshotInv' /\ ObservedClaimIsCurrent'
  BY DEF IInv, LockInv, CreatorClaimInv, JournalInv, SnapshotInv, ObservedClaimIsCurrent, Signed
<1>4. OneUnsettledPerReceiver'
  BY DEF IInv, OneUnsettledPerReceiver, Signed, Settled, LiveAt, SettlesIn, ExpiresAfter, EpochOf
<1> QED BY <1>1, <1>2, <1>3, <1>4 DEF IInv

\* Every step of the workload keeps the invariant.
LEMMA NextInv == IInv /\ [Next]_vars => IInv'
<1> SUFFICES ASSUME IInv, [Next]_vars PROVE IInv'
  OBVIOUS
<1>1. CASE LedgerStep
  BY <1>1, ChainInv
<1>2. CASE \E c \in Creators : CreatorStart(c) \/ CreatorStep(c)
  BY <1>2, CreatorInv
<1>3. CASE \E v \in Voters : VoterQuery(v) \/ VoterStep(v)
  BY <1>3, VoterInv
<1>4. CASE \E o \in Observers : ObserverStep(o)
  BY <1>4, ObserverInv
<1>5. CASE UNCHANGED vars
  BY <1>5, StutterInv
<1> QED BY <1>1, <1>2, <1>3, <1>4, <1>5 DEF Next

\* The strengthened invariant holds in every state the drivers can reach.
THEOREM InductiveInvariant == Spec => []IInv
<1> QED BY InitInv, NextInv, PTL DEF Spec

\* Every variable always holds a value of its kind.
THEOREM TypeCorrect == Spec => []TypeOK
<1>1. IInv => TypeOK
  BY DEF IInv
<1> QED BY <1>1, InductiveInvariant, PTL

\* However creators, voters, observers and the chain interleave, crash and roll
\* back, at most one withdrawal to a receiver is undecided, and it is the one the
\* receiver's claim file names (claim_recv_slot, complete_recv_slot, observe).
THEOREM ReceiverSafety == Spec => []OneUnsettledPerReceiver
<1>1. IInv => OneUnsettledPerReceiver
  BY DEF IInv
<1> QED BY <1>1, InductiveInvariant, PTL

\* The claim an observer read under the receiver's lock is still the file's
\* content whenever the observer uses it.
THEOREM ObservationsCurrent == Spec => []ObservedClaimIsCurrent
<1>1. IInv => ObservedClaimIsCurrent
  BY DEF IInv
<1> QED BY <1>1, InductiveInvariant, PTL

\* Nothing a driver does changes what the chain says of a transaction that has
\* been signed.
LEMMA DriversKeepTheChain ==
  ASSUME IInv, [Next]_vars, ~LedgerStep
  PROVE  /\ UNCHANGED <<immutableSlot, includedAt, approvedAt>>
         /\ \A t \in Signed : txValidUntil'[t] = txValidUntil[t]
<1>1. CASE \E c \in Creators : CreatorStart(c) \/ CreatorStep(c)
  BY <1>1, CreatorFrame, CreatorSigns DEF IInv
<1>2. CASE \E v \in Voters : VoterQuery(v) \/ VoterStep(v)
  BY <1>2 DEF VoterQuery, VoterStep, VoterCast, VoterQuit, ledgerVars
<1>3. CASE \E o \in Observers : ObserverStep(o)
  BY <1>3, ObserverFrame DEF IInv, ledgerVars
<1>4. CASE UNCHANGED vars
  BY <1>4 DEF vars, ledgerVars
<1> QED BY <1>1, <1>2, <1>3, <1>4 DEF Next

\* In the whole workload, what the immutable chain up to slot s says of t stays:
\* an observer's snapshot is represented by its slot (immutable_snapshot), and is
\* evaluated when it is used.
LEMMA AnswersKept ==
  ASSUME IInv, [Next]_vars, NEW t \in Txs, NEW s \in 0 .. immutableSlot
  PROVE  /\ LiveAt(t, s)' = LiveAt(t, s)
         /\ RatifiedAt(t, s)' = RatifiedAt(t, s)
         /\ PaidAt(t, s)' = PaidAt(t, s)
<1>1. CASE LedgerStep
  BY <1>1, AnswersStable DEF IInv, LedgerStep
<1>2. CASE ~LedgerStep
  BY <1>2, DriversKeepTheChain
  DEF LiveAt, RatifiedAt, PaidAt, SettlesIn, ExpiresAfter, EpochOf
<1> QED BY <1>1, <1>2

\* In the whole workload, what is settled stays settled, paid or not.
LEMMA SettledKept ==
  ASSUME IInv, [Next]_vars, NEW t \in Signed, Settled(t)
  PROVE  /\ Settled(t)'
         /\ PaidAt(t, immutableSlot)' = PaidAt(t, immutableSlot)
<1>1. CASE LedgerStep
  BY <1>1, SettledStable DEF IInv, LedgerStep, Signed
<1>2. CASE ~LedgerStep
  BY <1>2, DriversKeepTheChain
  DEF Settled, LiveAt, PaidAt, SettlesIn, ExpiresAfter, EpochOf
<1> QED BY <1>1, <1>2
=============================================================================

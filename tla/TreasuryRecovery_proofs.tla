------------------------ MODULE TreasuryRecovery_proofs ------------------------
(***************************************************************************)
(* Two results about the whole treasury workload, for any number of        *)
(* receivers, drivers, transactions and slots.                             *)
(*                                                                         *)
(* The receiver pool: the claim files, locks and drivers implement the     *)
(* abstract pool; every step is a step of the pool or leaves it as it is.  *)
(*                                                                         *)
(* The recovery driver: its verdict is right.  RecoveryInv follows the     *)
(* budget through a poll: what a poll has read is never further behind the *)
(* volatile tip than the immutable tip may be (a poll straddles one step   *)
(* of the chain at most), the guided claim still names the approved        *)
(* action, and so a poll that saw no payment was too early to be the last. *)
(***************************************************************************)
EXTENDS TreasuryRecovery, TreasuryOutcome_proofs

\* A step that changes nothing in the claim files that the pool can see.
SameClaims ==
    \A i \in Receivers :
        /\ claim'[i].file \in {"torn", "claimed", "prepared"}
              <=> claim[i].file \in {"torn", "claimed", "prepared"}
        /\ ReceiverId(i)' = ReceiverId(i)

LEMMA SameClaimsKept ==
  ASSUME SameClaims PROVE Reserved' = Reserved /\ Attached' = Attached
  BY DEF SameClaims, Reserved, Attached

\* A decision is final, a signed withdrawal stays signed, and only the immutable
\* chain decides.
LEMMA DecisionStep ==
  ASSUME IInv, [Next]_vars, NEW t \in Txs
  PROVE  /\ Decision(t) \in {"paid", "void"} => Decision(t)' = Decision(t)
         /\ Decision(t) = "open" => Decision(t)' \in {"open", "paid", "void"}
         /\ t \in Signed /\ ~LedgerStep => Decision(t)' = Decision(t)
<1>1. t \in Signed => t \in Signed'
  BY BodiesKept
<1>2. Decision(t) \in {"paid", "void"} => Decision(t)' = Decision(t)
  BY <1>1, SettledKept DEF Decision
<1>3. t \in Signed /\ ~LedgerStep => (Settled(t)' <=> Settled(t))
                                  /\ (PaidAt(t, immutableSlot)' <=> PaidAt(t, immutableSlot))
  BY DriversKeepTheChain
  DEF Settled, LiveAt, PaidAt, SettlesIn, ExpiresAfter, EpochOf
<1> QED BY <1>1, <1>2, <1>3 DEF Decision

\* A driver that signs nothing decides nothing.
LEMMA OutcomeKept ==
  ASSUME IInv, [Next]_vars, ~LedgerStep, txReceiver' = txReceiver
  PROVE  Outcome' = Outcome
<1>1. ASSUME NEW t \in Txs PROVE Decision(t)' = Decision(t)
  <2>1. CASE t \in Signed
    BY <2>1, DecisionStep
  <2>2. CASE t \notin Signed
    BY <2>2 DEF Decision, Signed
  <2> QED BY <2>1, <2>2
<1> QED BY <1>1 DEF Outcome

\* The workload starts with an empty pool.
LEMMA PoolStart == Init => Pool!PoolInit
<1> SUFFICES ASSUME Init PROVE Pool!PoolInit
  OBVIOUS
<1>1. \A i \in Receivers : claim[i] = NoClaim
  BY DEF Init
<1>2. \A t \in Txs : t \notin Signed
  BY DEF Init, LedgerInit, Signed
<1> QED BY <1>1, <1>2 DEF Pool!PoolInit, Reserved, Attached, Outcome, Decision, ReceiverId, NoClaim

\* A step of the chain decides withdrawals, or shows no change.
LEMMA LedgerDecides ==
  ASSUME IInv, LedgerStep
  PROVE  Pool!Decide \/ UNCHANGED Pool!poolVars
<1>1. claim' = claim /\ txReceiver' = txReceiver
  BY DEF LedgerStep, LedgerNext, ExtendChain, SettleBlock, Rollback, Include, Approve
<1>2. Reserved' = Reserved /\ Attached' = Attached
  BY <1>1 DEF Reserved, Attached, ReceiverId
<1>3. ASSUME NEW t \in Txs, Decision(t)' # Decision(t)
      PROVE  Decision(t) = "open" /\ Decision(t)' \in {"paid", "void"}
  <2>1. Decision(t) # "unsigned"
    BY <1>1, <1>3 DEF Decision, Signed
  <2>2. Decision(t) \in {"unsigned", "open", "paid", "void"}
    BY DEF Decision
  <2> QED BY <1>3, <2>1, <2>2, DecisionStep DEF Next
<1>4. Outcome' \in [Txs -> Pool!Outcomes]
  BY DEF Outcome, Decision, Pool!Outcomes
<1> QED BY <1>2, <1>3, <1>4 DEF Pool!Decide, Pool!poolVars, Outcome

\* Creating the claim file reserves the receiver.
LEMMA CreatorReserves ==
  ASSUME IInv, NEW c \in Creators, CreatorClaim(c)
  PROVE  (\E r \in Receivers : Pool!Reserve(r)) \/ UNCHANGED Pool!poolVars
<1>1. claim \in [Receivers -> Claim]
  BY DEF IInv, TypeOK
<1>2. PICK i \in Receivers : i = cIdx[c]
  BY DEF CreatorClaim, IInv, LockInv, Claiming
<1>3. Outcome' = Outcome
  <2>1. ~LedgerStep /\ txReceiver' = txReceiver
    BY DEF CreatorClaim, ledgerVars, LedgerStep, creatorVars, IInv, TypeOK
  <2>2. Next
    BY DEF Next, CreatorStep
  <2> QED BY <2>1, <2>2, OutcomeKept
<1>4. CASE claim[i].file = "absent" /\ claim' = [claim EXCEPT ![i] = TornClaim]
  <2>1. claim'[i].file = "torn" /\ \A j \in Receivers \ {i} : claim'[j] = claim[j]
    BY <1>1, <1>4, EmptyClaims
  <2>2. i \notin Reserved /\ Reserved' = Reserved \cup {i}
    BY <1>4, <2>1 DEF Reserved
  <2>3. Attached[i] = NoTx /\ \A j \in Receivers : ReceiverId(j)' = ReceiverId(j)
    BY <1>4, <2>1 DEF Attached, ReceiverId
  <2> QED BY <1>3, <2>2, <2>3 DEF Pool!Reserve, Attached
<1>5. CASE claim' = claim
  BY <1>3, <1>5 DEF Pool!poolVars, Reserved, Attached, ReceiverId
<1> QED BY <1>2, <1>4, <1>5 DEF CreatorClaim

\* Journalling commits the receiver to the signed transaction.
LEMMA CreatorCommits ==
  ASSUME IInv, NEW c \in Creators, CreatorJournal(c)
  PROVE  \E r \in Receivers, t \in Txs : Pool!Commit(r, t)
<1>1. claim \in [Receivers -> Claim] /\ txReceiver \in [Txs -> Receivers \cup {Unsigned}]
  BY DEF IInv, TypeOK
<1>2. PICK i \in Receivers : i = cIdx[c]
  BY DEF CreatorJournal, IInv, LockInv, Claiming
<1>3. PICK t \in Txs \ Signed :
        /\ txReceiver' = [txReceiver EXCEPT ![t] = i]
        /\ claim' = [claim EXCEPT ![i] = [@ EXCEPT !.file = "journalled", !.tx = t]]
  BY <1>2 DEF CreatorJournal
<1>4. claim[i].file = "prepared"
  BY <1>2 DEF CreatorJournal, IInv, CreatorClaimInv
<1>5. /\ claim'[i].file = "journalled" /\ claim'[i].tx = t
      /\ \A j \in Receivers \ {i} : claim'[j] = claim[j]
  BY <1>1, <1>3 DEF Claim
<1>6. i \in Reserved /\ Reserved' = Reserved \ {i}
  BY <1>4, <1>5 DEF Reserved
<1>7. Attached' = [Attached EXCEPT ![i] = t]
  <2>1. ReceiverId(i)' = t /\ \A j \in Receivers \ {i} : ReceiverId(j)' = ReceiverId(j)
    BY <1>5 DEF ReceiverId
  <2> QED BY <2>1 DEF Attached
<1>8. Next /\ ~LedgerStep
  BY <1>2, <1>4, <1>5 DEF Next, CreatorStep, LedgerStep
<1>9. Decision(t) = "unsigned" /\ Decision(t)' \in {"open", "void"}
  <2>1. i # Unsigned
    BY DEF Receivers, Unsigned
  <2>2. t \in Signed'
    BY <1>1, <1>3, <2>1 DEF Signed
  <2>3. approvedAt'[t] = NoSlot
    BY <1>3, <1>8, NewBodiesUnpaid
  <2> QED BY <1>3, <2>2, <2>3 DEF Decision, PaidAt
<1>10. ASSUME NEW u \in Txs \ {t} PROVE Decision(u)' = Decision(u)
  <2>1. CASE u \in Signed
    BY <1>8, <2>1, DecisionStep
  <2>2. CASE u \notin Signed
    BY <1>1, <1>3, <2>2 DEF Decision, Signed
  <2> QED BY <2>1, <2>2
<1>11. \E o \in {"open", "void"} : Outcome' = [Outcome EXCEPT ![t] = o]
  <2>1. Outcome' = [Outcome EXCEPT ![t] = Decision(t)']
    BY <1>10 DEF Outcome
  <2> QED BY <1>9, <2>1
<1> QED BY <1>6, <1>7, <1>9, <1>11 DEF Pool!Commit, Outcome

\* Releasing a claim that is not journalled gives the receiver up.
LEMMA ReleaseGivesUp ==
  ASSUME IInv, [Next]_vars, ~LedgerStep, txReceiver' = txReceiver,
         NEW i \in Receivers, claim[i].file # "journalled", claim' = [claim EXCEPT ![i] = NoClaim]
  PROVE  Pool!GiveUp(i) \/ UNCHANGED Pool!poolVars
<1>1. claim \in [Receivers -> Claim]
  BY DEF IInv, TypeOK
<1>2. claim'[i].file = "absent" /\ \A j \in Receivers \ {i} : claim'[j] = claim[j]
  BY <1>1, EmptyClaims
<1>3. Attached' = Attached
  BY <1>2 DEF ReceiverId, Attached
<1>4. Reserved' = Reserved \ {i}
  BY <1>2 DEF Reserved
<1>5. Outcome' = Outcome
  BY OutcomeKept
<1> QED BY <1>3, <1>4, <1>5 DEF Pool!GiveUp, Pool!poolVars

\* Every step of a creator is a step of the pool, or none.
LEMMA CreatorPool ==
  ASSUME IInv, NEW c \in Creators, CreatorStart(c) \/ CreatorStep(c)
  PROVE  Pool!PoolNext \/ UNCHANGED Pool!poolVars
<1>0. claim \in [Receivers -> Claim] /\ (cPC[c] \in Claiming => cIdx[c] \in Receivers)
  BY DEF IInv, TypeOK, LockInv
<1>1. CASE CreatorClaim(c)
  BY <1>1, CreatorReserves DEF Pool!PoolNext
<1>2. CASE CreatorJournal(c)
  BY <1>2, CreatorCommits DEF Pool!PoolNext
<1>3. CASE LedgerStep
  BY <1>3, LedgerDecides DEF Pool!PoolNext
<1> SUFFICES ASSUME ~CreatorClaim(c), ~CreatorJournal(c), ~LedgerStep
             PROVE  Pool!PoolNext \/ UNCHANGED Pool!poolVars
  BY <1>1, <1>2, <1>3
<1>4. Next /\ txReceiver' = txReceiver
  BY DEF Next, CreatorStep, CreatorStart, CreatorPass, CreatorLock, CreatorWrite, CreatorPrepare,
         CreatorSubmit, CreatorQuit, CreatorFail, CreatorCrash, ledgerVars
<1>5. Outcome' = Outcome
  BY <1>4, OutcomeKept
<1>6. CASE CreatorFail(c)
  <2>1. PICK i \in Receivers : i = cIdx[c]
    BY <1>0, <1>6 DEF CreatorFail, Claiming
  <2>2. claim[i].file # "journalled" /\ claim' = [claim EXCEPT ![i] = NoClaim]
    BY <1>6, <2>1 DEF CreatorFail, ReleaseRecvSlot, IInv, CreatorClaimInv
  <2> QED BY <1>4, <2>2, ReleaseGivesUp DEF Pool!PoolNext
<1>7. CASE CreatorWrite(c) \/ CreatorPrepare(c)
  <2>1. claim[cIdx[c]].file \in {"torn", "claimed"} /\ cIdx[c] \in Receivers
    BY <1>0, <1>7 DEF CreatorWrite, CreatorPrepare, Claiming, IInv, CreatorClaimInv
  <2>2. claim'[cIdx[c]].file \in {"claimed", "prepared"}
    <3>1. CASE CreatorWrite(c)
      BY <1>0, <2>1, <3>1 DEF CreatorWrite, NoClaim
    <3>2. CASE CreatorPrepare(c)
      BY <1>0, <2>1, <3>2 DEF CreatorPrepare, Claim
    <3> QED BY <1>7, <3>1, <3>2
  <2>3. \A i \in Receivers : i # cIdx[c] => claim'[i] = claim[i]
    BY <1>0, <1>7 DEF CreatorWrite, CreatorPrepare
  <2>4. SameClaims
    BY <2>1, <2>2, <2>3 DEF SameClaims, ReceiverId
  <2> QED BY <1>5, <2>4, SameClaimsKept DEF Pool!poolVars
<1>8. CASE ~(CreatorFail(c) \/ CreatorWrite(c) \/ CreatorPrepare(c))
  <2>1. claim' = claim
    BY <1>8 DEF CreatorStep, CreatorStart, CreatorPass, CreatorLock, CreatorSubmit, CreatorQuit,
                CreatorCrash
  <2> QED BY <1>5, <2>1 DEF Pool!poolVars, Reserved, Attached, ReceiverId
<1> QED BY <1>6, <1>7, <1>8

\* Closing a claim releases a receiver whose withdrawal is decided, and the guided
\* receiver only when it was not paid.
LEMMA ResolveReleases ==
  ASSUME IInv, AttributionInv, NEW o \in Observers, ObserverResolve(o), ~Retained(o),
         NEW i \in Receivers, i = oIdx[o]
  PROVE  Pool!Release(i)
<1>0. oPC[o] = "resolve"
  BY DEF ObserverResolve
<1>1. PICK t \in Txs, s \in Int :
        /\ t = oRec[o].tx /\ t \in Signed /\ ReceiverId(i) = t
        /\ s = oTip[o] /\ s = oState[o] /\ s <= immutableSlot /\ t # NoTx
        /\ txValidUntil[t] = oRec[o].validUntil
  BY <1>0, ObserverKnows, WorkloadAssumption
<1>2. claim \in [Receivers -> Claim] /\ txValidUntil[t] \in Int
  BY DEF IInv, TypeOK
<1>3. claim' = [claim EXCEPT ![i] = NoClaim] /\ UNCHANGED ledgerVars
  BY <1>1 DEF ObserverResolve, ReleaseRecvSlot
<1>4. Settled(t)
  <2>1. txValidUntil[t] <= s /\ ~LiveAt(t, s)
    BY <1>1, <1>2 DEF ObserverResolve, Undecided, ImmutableLive
  <2> QED BY <1>1, <2>1, AbsentIsSettled DEF IInv
<1>5. Decision(t) \in (IF i = GuidedReceiver THEN {"void"} ELSE {"paid", "void"})
  BY <1>1, <1>4, PaidIsRetained DEF Decision
<1>6. claim[i].file = "journalled"
  BY <1>1 DEF ReceiverId
<1>7. claim'[i].file = "absent" /\ \A j \in Receivers \ {i} : claim'[j] = claim[j]
  BY <1>2, <1>3, EmptyClaims
<1>8. Reserved' = Reserved
  BY <1>6, <1>7 DEF Reserved
<1>9. Attached' = [Attached EXCEPT ![i] = NoTx]
  <2>1. ReceiverId(i)' = NoTx /\ \A j \in Receivers \ {i} : ReceiverId(j)' = ReceiverId(j)
    BY <1>7 DEF ReceiverId
  <2> QED BY <2>1 DEF Attached
<1>10. Outcome' = Outcome
  <2>1. ~LedgerStep
    BY <1>6, <1>7 DEF LedgerStep
  <2>2. Next /\ txReceiver' = txReceiver
    BY <1>3 DEF Next, ObserverStep, ObserverProgress, ledgerVars
  <2> QED BY <2>1, <2>2, OutcomeKept
<1>11. Attached[i] = t /\ Outcome[t] = Decision(t)
  BY <1>1 DEF Attached, Outcome
<1> QED BY <1>1, <1>5, <1>8, <1>9, <1>10, <1>11 DEF Pool!Release

\* Every step of an observer is a step of the pool, or none.
LEMMA ObserverPool ==
  ASSUME IInv, AttributionInv, NEW o \in Observers, ObserverStep(o)
  PROVE  Pool!PoolNext \/ UNCHANGED Pool!poolVars
<1>0. Next /\ UNCHANGED ledgerVars
  BY ObserverFrame DEF IInv, Next
<1>1. CASE ObserverResolve(o) /\ ~Retained(o)
  <2>1. PICK i \in Receivers : i = oIdx[o]
    BY <1>1, ObserverKnows DEF ObserverResolve
  <2>2. Pool!Release(i)
    BY <1>1, <2>1, ResolveReleases
  <2> QED BY <2>2 DEF Pool!PoolNext
<1>2. CASE LedgerStep
  BY <1>2, LedgerDecides DEF Pool!PoolNext
<1> SUFFICES ASSUME ~(ObserverResolve(o) /\ ~Retained(o)), ~LedgerStep
             PROVE  Pool!PoolNext \/ UNCHANGED Pool!poolVars
  BY <1>1, <1>2
<1>3. Outcome' = Outcome
  BY <1>0, OutcomeKept DEF ledgerVars
<1>4. CASE ObserverReclaim(o) /\ Abandoned(o)
  <2>1. PICK i \in Receivers : i = oIdx[o]
    BY <1>4 DEF ObserverReclaim, IInv, LockInv, Examining
  <2>2. claim[i].file # "journalled" /\ claim' = [claim EXCEPT ![i] = NoClaim]
    BY <1>4, <2>1
    DEF ObserverReclaim, NeverBroadcast, ReleaseRecvSlot, IInv, ObservedClaimIsCurrent
  <2>3. txReceiver' = txReceiver
    BY <1>0 DEF ledgerVars
  <2> QED BY <1>0, <2>2, <2>3, ReleaseGivesUp DEF Pool!PoolNext
<1>5. CASE ~(ObserverReclaim(o) /\ Abandoned(o))
  <2>1. ASSUME NEW i \in Receivers PROVE claim'[i].file = claim[i].file /\ claim'[i].tx = claim[i].tx
    <3>1. claim[i] \in Claim
      BY DEF IInv, TypeOK
    <3>2. CASE ObserverCheck(o) \/ ObserverNoteExpiry(o)
      <4>1. ObserverWrites(o, i)
        BY ObserverWritesClaim
      <4>2. ~ObserverResolve(o)
        BY <3>2 DEF ObserverCheck, ObserverNoteExpiry, ObserverResolve
      <4>3. claim[oIdx[o]].file = "journalled"
        BY <3>2, ObserverKnows DEF ObserverCheck, ObserverNoteExpiry
      <4>4. i # oIdx[o] => claim'[i] = claim[i]
        BY <3>2 DEF ObserverCheck, ObserverNoteExpiry, IInv, TypeOK
      <4> QED BY <3>1, <4>1, <4>2, <4>3, <4>4 DEF ObserverWrites, Claim
    <3>3. CASE ~(ObserverCheck(o) \/ ObserverNoteExpiry(o))
      <4>1. claim' = claim
        BY <1>5, <3>3
        DEF ObserverStep, ObserverProgress, ObserverQuery, ObserverList, ObserverPass, ObserverTake,
            ObserverReclaim, ObserverTip, ObserverState, ObserverBalance, ObserverRetry,
            ObserverWait, ObserverResolve, ObserverSkip, ObserverDone, ObserverCrash, ObserverEnd
      <4> QED BY <4>1
    <3> QED BY <3>2, <3>3
  <2>2. SameClaims
    BY <2>1 DEF SameClaims, ReceiverId
  <2> QED BY <1>3, <2>2, SameClaimsKept DEF Pool!poolVars
<1> QED BY <1>4, <1>5

\* Every step of the workload is a step of the pool, or none.
LEMMA PoolStep == OutcomeInv /\ [Next]_vars => [Pool!PoolNext]_(Pool!poolVars)
<1> SUFFICES ASSUME OutcomeInv, [Next]_vars PROVE Pool!PoolNext \/ UNCHANGED Pool!poolVars
  OBVIOUS
<1>0. IInv /\ AttributionInv
  BY DEF OutcomeInv
<1>1. CASE LedgerStep
  BY <1>0, <1>1, LedgerDecides DEF Pool!PoolNext
<1>2. CASE \E c \in Creators : CreatorStart(c) \/ CreatorStep(c)
  BY <1>0, <1>2, CreatorPool
<1>3. CASE ~LedgerStep /\ \E v \in Voters : VoterQuery(v) \/ VoterStep(v)
  <2>1. claim' = claim /\ txReceiver' = txReceiver
    BY <1>3 DEF VoterQuery, VoterStep, VoterCast, VoterQuit, ledgerVars
  <2>2. Outcome' = Outcome
    BY <1>0, <1>3, <2>1, OutcomeKept
  <2> QED BY <2>1, <2>2 DEF Pool!poolVars, Reserved, Attached, ReceiverId
<1>4. CASE \E o \in Observers : ObserverStep(o)
  BY <1>0, <1>4, ObserverPool
<1>5. CASE UNCHANGED vars
  BY <1>5
  DEF vars, ledgerVars, Pool!poolVars, Reserved, Attached, Outcome, ReceiverId, Decision, Signed,
      Settled, LiveAt, PaidAt, SettlesIn, ExpiresAfter, EpochOf
<1> QED BY <1>1, <1>2, <1>3, <1>4, <1>5 DEF Next

\* The workload implements the abstract pool: a receiver is never taken from an
\* undecided withdrawal, decisions are never revised, and a paid guided receiver
\* is kept, whatever drivers, kills, lost submissions and rollbacks do.
THEOREM WorkloadImplementsPool == Spec => ImplementsReceiverPool
<1>1. Spec => Pool!PoolInit /\ [][Pool!PoolNext]_(Pool!poolVars)
  BY PoolStart, PoolStep, OutcomeInductive, PTL DEF Spec
<1> QED BY <1>1 DEF ImplementsReceiverPool, Pool!PoolSpec
-----------------------------------------------------------------------------
(* The recovery driver *)

\* The immutable tip is within the window, and so are the validity bounds that
\* creators have chosen.
WindowInv ==
    /\ volatileSlot <= immutableSlot + Window
    /\ \A i \in Receivers : claim[i].file \in {"prepared", "journalled"} =>
          claim[i].validUntil <= immutableSlot + Window + EpochLength
    /\ \A t \in Signed : txValidUntil[t] <= immutableSlot + Window + EpochLength

\* The guided receiver's claim names the guided action that has its votes.
GuidedKept ==
    \A t \in Signed : txReceiver[t] = GuidedReceiver /\ approvedAt[t] # NoSlot
                         => ReceiverId(GuidedReceiver) = t

\* The recovery driver is on its own.
PhaseInv ==
    /\ phase \in {"testing", "recovery", "over"}
    /\ phase = "testing" => ~polled /\ ~witnessed /\ recovered = "unknown"
    /\ phase = "recovery" => recovered = "unknown"
    /\ polled \in BOOLEAN /\ witnessed \in BOOLEAN /\ recovered \in {"unknown", "yes", "no"}
    /\ phase # "testing" =>
          /\ start \in Nat
          /\ start <= volatileSlot
          /\ \A t \in Signed : txValidUntil[t] <= start + Window + EpochLength
          /\ \A c \in Creators : cPC[c] = "idle"
          /\ \A v \in Voters : vPC[v] = "idle"
          /\ \A o \in Observers \ {Recoverer} : oPC[o] = "idle"
          /\ oPC[Recoverer] # "list"
          /\ oPC[Recoverer] \in Examining => oIdx[Recoverer] = GuidedReceiver

\* A payment that was witnessed is there, and stays.
WitnessInv ==
    witnessed \/ recovered = "yes" =>
        ReceiverId(GuidedReceiver) # NoTx /\ PaidAt(ReceiverId(GuidedReceiver), immutableSlot)

\* An action that the recovery driver has to see paid.
Due(t) ==
    /\ t \in Signed
    /\ txReceiver[t] = GuidedReceiver
    /\ approvedAt[t] # NoSlot
    /\ approvedAt[t] <= start

Budget == start + RecoveryEpochs * EpochLength

\* The volatile tip is short of the budget, also after the one step of the chain
\* that a completed poll allows.
Early ==
    /\ volatileSlot < Budget
    /\ polled => volatileSlot + 1 < Budget \/ immutableSlot + Window < Budget

\* What a poll has read is current before a step of the chain, and still within
\* the window after it.
PollTip ==
    oPC[Recoverer] \in {"state", "balance", "check", "resolve"} =>
        /\ volatileSlot <= oTip[Recoverer] + Window
        /\ polled => oTip[Recoverer] = immutableSlot

\* A poll without a payment means that there is time.
PollTimely ==
    /\ polled => volatileSlot < Budget
    /\ \A t \in Txs : Due(t) /\ t \in oLive[Recoverer] => Early
    /\ oPC[Recoverer] = "scan" /\ ~witnessed => Early

PollInv ==
    phase = "recovery" => PollTip /\ ((\E t \in Txs : Due(t)) => PollTimely)

RecoveryInv ==
    /\ OutcomeInv
    /\ WindowInv
    /\ GuidedKept
    /\ PhaseInv
    /\ WitnessInv
    /\ PollInv
    /\ RecoveryVerdict
-----------------------------------------------------------------------------
(* Slots, epochs and the fate of the guided action *)

\* Two slots that are less than two epoch boundaries apart.
LEMMA EpochGap ==
  ASSUME NEW s \in Int, NEW u \in Int, EpochOf(s) < EpochOf(u) + 2
  PROVE  s < u + 2 * EpochLength
  BY LedgerAssumption, SMTT(30) DEF EpochOf

\* The chain's slots, as numbers.
LEMMA Slots ==
  ASSUME IInv
  PROVE  /\ volatileSlot \in Nat /\ immutableSlot \in Nat /\ immutableSlot <= volatileSlot
         /\ Window \in Nat /\ EpochLength \in Nat \ {0}
         /\ \A t \in Txs : /\ includedAt[t] \in Int /\ approvedAt[t] \in Int
                           /\ txValidUntil[t] \in Int
         /\ \A i \in Receivers : claim[i] \in Claim /\ claim[i].validUntil \in Int
  BY LedgerAssumption DEF IInv, TypeOK, LedgerInv, Claim

\* Once it is settled, an action with its votes is paid, and one without them can
\* get them no more.
LEMMA SettledFate ==
  ASSUME IInv, NEW t \in Txs, Settled(t), includedAt[t] # NoSlot
  PROVE  /\ approvedAt[t] # NoSlot => PaidAt(t, immutableSlot)
         /\ ~Approve(t)
<1>1. EpochOf(immutableSlot) >= SettlesIn(t)
  BY Slots, EpochType, SettlesInType DEF Settled, LiveAt, IInv, LedgerInv, InclusionInv
<1>2. approvedAt[t] # NoSlot => PaidAt(t, immutableSlot)
  BY <1>1, Slots, EpochType DEF SettlesIn, PaidAt
<1>3. ~Approve(t)
  <2>1. EpochOf(immutableSlot) <= EpochOf(volatileSlot)
    BY Slots, EpochMonotone
  <2>2. approvedAt[t] = NoSlot => EpochOf(volatileSlot) > ExpiresAfter(t)
    BY <1>1, <2>1, Slots, EpochType, ExpiresAfterType DEF SettlesIn, IInv
  <2>3. EpochOf(volatileSlot) \in Int /\ ExpiresAfter(t) \in Int
    BY Slots, EpochType, ExpiresAfterType DEF IInv
  <2>4. Approve(t) => approvedAt[t] = NoSlot /\ EpochOf(volatileSlot) <= ExpiresAfter(t)
    BY DEF Approve
  <2> QED BY <2>2, <2>3, <2>4
<1> QED BY <1>2, <1>3

\* An action is only closed when it is settled.
LEMMA ClosedIsSettled ==
  ASSUME IInv, NEW o \in Observers, ObserverResolve(o)
  PROVE  Settled(oRec[o].tx)
<1>0. oPC[o] = "resolve"
  BY DEF ObserverResolve
<1>1. PICK t \in Txs, s \in Int :
        /\ t = oRec[o].tx /\ s = oTip[o] /\ s = oState[o] /\ s <= immutableSlot
        /\ txValidUntil[t] = oRec[o].validUntil
  BY <1>0, ObserverKnows
<1>2. txValidUntil[t] <= s /\ ~LiveAt(t, s)
  BY <1>1, Slots DEF ObserverResolve, Undecided, ImmutableLive
<1> QED BY <1>1, <1>2, AbsentIsSettled DEF IInv

\* No driver moves the volatile tip.
LEMMA DriversKeepTheTip ==
  ASSUME IInv, [Next]_vars, ~LedgerStep
  PROVE  volatileSlot' = volatileSlot
<1>1. CASE \E c \in Creators : CreatorStart(c) \/ CreatorStep(c)
  BY <1>1, CreatorFrame DEF IInv
<1>2. CASE \E v \in Voters : VoterQuery(v) \/ VoterStep(v)
  BY <1>2 DEF VoterQuery, VoterStep, VoterCast, VoterQuit, ledgerVars
<1>3. CASE \E o \in Observers : ObserverStep(o)
  BY <1>3, ObserverFrame DEF IInv, ledgerVars
<1>4. CASE UNCHANGED vars
  BY <1>4 DEF vars, ledgerVars
<1> QED BY <1>1, <1>2, <1>3, <1>4 DEF Next

\* The guided claim keeps its action from the deciding vote on: before it is
\* settled nobody may release the claim, and afterwards it is paid.
LEMMA GuidedKeptStep ==
  ASSUME OutcomeInv, GuidedKept, [Next]_vars
  PROVE  GuidedKept'
<1>0. IInv /\ AttributionInv
  BY DEF OutcomeInv
<1> SUFFICES ASSUME NEW t \in Txs, t \in Signed', txReceiver'[t] = GuidedReceiver,
                    approvedAt'[t] # NoSlot
             PROVE  ReceiverId(GuidedReceiver)' = t
  BY DEF GuidedKept, Signed
<1>1. t \in Signed /\ txReceiver[t] = GuidedReceiver
  BY <1>0, NewBodiesUnpaid, BodiesKept
<1>2. t # NoTx /\ GuidedReceiver \in Receivers
  BY <1>0, <1>1, WorkloadAssumption DEF IInv, TypeOK, Signed, Receivers, Unsigned
<1>3. CASE approvedAt[t] # NoSlot
  <2>1. ReceiverId(GuidedReceiver) = t
    BY <1>1, <1>3 DEF GuidedKept
  <2> SUFFICES ASSUME ReceiverId(GuidedReceiver)' # t PROVE FALSE
    OBVIOUS
  <2>2. PICK o \in Observers :
          ObserverResolve(o) /\ GuidedReceiver = oIdx[o] /\ ~Retained(o)
    BY <1>0, <1>2, <2>1, ClaimReleased
  <2>3. oRec[o].tx = t
    BY <1>0, <1>2, <2>1, <2>2, ObserverKnows DEF ObserverResolve, ReceiverId
  <2>4. Settled(t)
    BY <1>0, <2>2, <2>3, ClosedIsSettled
  <2>5. includedAt[t] # NoSlot
    BY <1>0, <1>3 DEF IInv, LedgerInv, ApprovalInv
  <2>6. PaidAt(t, immutableSlot)
    BY <1>0, <1>3, <2>4, <2>5, SettledFate
  <2> QED BY <1>0, <2>1, <2>2, <2>6, PaidIsRetained
<1>4. CASE approvedAt[t] = NoSlot
  <2>1. LedgerStep
    BY <1>0, <1>4, DriversKeepTheChain
  <2>2. Approve(t)
    <3>1. CASE Rollback
      BY <1>0, <1>4, <3>1, Slots DEF Rollback
    <3>2. ASSUME NEW u \in Txs, Approve(u) PROVE u = t
      BY <1>4, <3>2 DEF Approve, IInv, TypeOK
    <3> QED BY <1>4, <2>1, <3>1, <3>2
            DEF LedgerStep, LedgerNext, ExtendChain, SettleBlock, Include
  <2>3. ~Settled(t)
    BY <1>0, <2>2, SettledFate DEF Approve
  <2>4. ReceiverId(GuidedReceiver) = t
    BY <1>0, <1>1, <1>2, <2>3 DEF IInv, OneUnsettledPerReceiver, ReceiverId
  <2>5. claim' = claim
    BY <2>1 DEF LedgerStep
  <2> QED BY <2>4, <2>5 DEF ReceiverId
<1> QED BY <1>3, <1>4

\* The window moves on with the chain, and a creator chooses a bound within it.
LEMMA WindowStep ==
  ASSUME OutcomeInv, WindowInv, [Next]_vars
  PROVE  WindowInv'
<1>0. IInv /\ IInv'
  BY NextInv DEF OutcomeInv
<1>1. /\ volatileSlot \in Nat /\ immutableSlot \in Nat /\ Window \in Nat /\ EpochLength \in Nat
      /\ volatileSlot' \in Nat /\ immutableSlot' \in Nat /\ immutableSlot <= immutableSlot'
  <2>1. ASSUME IInv PROVE /\ volatileSlot \in Nat /\ immutableSlot \in Nat
    BY <2>1 DEF IInv, TypeOK
  <2>2. volatileSlot' \in Nat /\ immutableSlot' \in Nat
    BY <1>0 DEF IInv, TypeOK
  <2>3. immutableSlot <= immutableSlot'
    <3>1. CASE LedgerStep
      <4>1. CASE SettleBlock
        BY <1>0, <2>1, <4>1 DEF SettleBlock
      <4>2. CASE ~SettleBlock
        <5>1. immutableSlot' = immutableSlot
          BY <3>1, <4>2 DEF LedgerStep, LedgerNext, ExtendChain, Rollback, Include, Approve
        <5> QED BY <1>0, <2>1, <5>1
      <4> QED BY <4>1, <4>2
    <3>2. CASE ~LedgerStep
      BY <1>0, <3>2, <2>1, DriversKeepTheChain
    <3> QED BY <3>1, <3>2
  <2> QED BY <1>0, <2>1, <2>2, <2>3, LedgerAssumption
<1>2. volatileSlot' <= immutableSlot' + Window
  <2>0. volatileSlot <= immutableSlot + Window
    BY DEF WindowInv
  <2>1. CASE ExtendChain
    BY <1>1, <2>1 DEF ExtendChain
  <2>2. CASE Rollback
    <3>1. PICK s \in immutableSlot .. (volatileSlot - 1) : volatileSlot' = s
      BY <2>2 DEF Rollback
    <3>2. immutableSlot' = immutableSlot
      BY <2>2 DEF Rollback
    <3> QED BY <1>1, <2>0, <3>1, <3>2
  <2>3. CASE SettleBlock \/ (\E t \in Txs : Include(t) \/ Approve(t)) \/ ~LedgerStep
    <3>1. volatileSlot' = volatileSlot
      BY <1>0, <2>3, DriversKeepTheTip DEF SettleBlock, Include, Approve
    <3>2. PICK s \in Nat, u \in Nat : s = immutableSlot /\ u = immutableSlot'
      BY <1>1
    <3>3. PICK v \in Nat : v = volatileSlot' /\ v <= s + Window
      BY <1>1, <2>0, <3>1, <3>2
    <3>4. s <= u
      BY <1>1, <3>2
    <3>5. v <= u + Window
      BY <3>3, <3>4, LedgerAssumption
    <3> QED BY <3>2, <3>3, <3>5
  <2> QED BY <2>1, <2>2, <2>3 DEF LedgerStep, LedgerNext
<1> DEFINE Bound == immutableSlot' + Window + EpochLength
<1>3. ASSUME NEW i \in Receivers, claim'[i].file \in {"prepared", "journalled"}
      PROVE  claim'[i].validUntil <= Bound
  <2>0. claim[i] \in Claim /\ claim \in [Receivers -> Claim] /\ claim[i].validUntil \in Int
    BY <1>0, Slots DEF IInv, TypeOK
  <2>1. CASE claim[i].file \in {"prepared", "journalled"} /\ claim'[i].validUntil = claim[i].validUntil
    BY <1>1, <2>0, <2>1 DEF WindowInv
  <2>2. ASSUME NEW c \in Creators, CreatorStart(c) \/ CreatorStep(c),
               claim'[i] # claim[i]
        PROVE  claim'[i].validUntil <= Bound
    <3>1. CASE CreatorPrepare(c)
      BY <1>1, <2>0, <2>2, <3>1 DEF CreatorPrepare, WindowInv, Claim
    <3>2. CASE CreatorJournal(c)
      <4>1. claim[cIdx[c]].file = "prepared"
        BY <1>0, <3>2 DEF CreatorJournal, IInv, CreatorClaimInv
      <4>2. PICK t \in Txs \ Signed :
              claim' = [claim EXCEPT ![cIdx[c]] = [@ EXCEPT !.file = "journalled", !.tx = t]]
        BY <3>2 DEF CreatorJournal
      <4>3. i = cIdx[c]
        BY <2>0, <2>2, <4>2
      <4>4. claim'[i].validUntil = claim[i].validUntil
        BY <2>0, <4>2, <4>3 DEF Claim
      <4> QED BY <2>1, <4>1, <4>3, <4>4
    <3>3. CASE ~CreatorPrepare(c) /\ ~CreatorJournal(c)
      <4>2. CASE claim'[i] \in {NoClaim, TornClaim}
        BY <1>3, <4>2, EmptyClaims
      <4>3. CASE CreatorWrite(c)
        BY <1>3, <2>0, <2>2, <4>3 DEF CreatorWrite, NoClaim
      <4>4. CASE ~CreatorWrite(c) /\ claim'[i] \notin {NoClaim, TornClaim}
        BY <2>0, <2>2, <3>3, <4>4
        DEF CreatorStart, CreatorStep, CreatorPass, CreatorLock, CreatorClaim, CreatorSubmit,
            CreatorQuit, CreatorFail, CreatorCrash, CreatorEnd, ReleaseRecvSlot
      <4> QED BY <4>2, <4>3, <4>4
    <3> QED BY <3>1, <3>2, <3>3
  <2>3. ASSUME NEW o \in Observers, ObserverStep(o) PROVE claim'[i].validUntil <= Bound
    <3>1. ObserverWrites(o, i)
      BY <1>0, <2>3, ObserverWritesClaim
    <3>2. claim[i].file \in {"prepared", "journalled"} /\ claim'[i].validUntil = claim[i].validUntil
      BY <1>3, <2>0, <3>1, EmptyClaims DEF ObserverWrites, Claim
    <3> QED BY <2>1, <3>2
  <2>4. CASE claim'[i] = claim[i]
    BY <1>3, <2>1, <2>4
  <2>5. CASE LedgerStep \/ (\E v \in Voters : VoterQuery(v) \/ VoterStep(v)) \/ UNCHANGED vars
    BY <2>4, <2>5
    DEF LedgerStep, VoterQuery, VoterStep, VoterCast, VoterQuit, vars
  <2> QED BY <2>2, <2>3, <2>4, <2>5 DEF Next
<1>4. ASSUME NEW t \in Txs, t \in Signed' PROVE txValidUntil'[t] <= Bound
  <2>1. CASE t \in Signed
    <3>1. txValidUntil'[t] = txValidUntil[t]
      BY <1>0, <2>1, BodiesKept
    <3> QED BY <1>0, <1>1, <2>1, <3>1, Slots DEF WindowInv
  <2>2. CASE t \notin Signed
    <3>1. ~Settled(t)' => /\ claim'[txReceiver'[t]].file = "journalled"
                          /\ claim'[txReceiver'[t]].tx = t
      BY <1>0, <1>4 DEF IInv, OneUnsettledPerReceiver
    <3>2. CASE ~Settled(t)'
      <4>1. txReceiver'[t] \in Receivers
        BY <1>0, <1>4 DEF IInv, TypeOK, Signed
      <4>2. txValidUntil'[t] = claim'[txReceiver'[t]].validUntil
        BY <1>0, <3>1, <3>2, <4>1 DEF IInv, JournalInv
      <4> QED BY <1>3, <3>1, <3>2, <4>1, <4>2
    <3>3. CASE Settled(t)'
      <4>1. txValidUntil'[t] <= immutableSlot' /\ txValidUntil'[t] \in Int
        BY <1>0, <3>3 DEF Settled, IInv, TypeOK
      <4> QED BY <1>1, <4>1
    <3> QED BY <3>2, <3>3
  <2> QED BY <2>1, <2>2
<1> QED BY <1>2, <1>3, <1>4 DEF WindowInv, Signed
-----------------------------------------------------------------------------
(* The recovery driver's steps *)

\* The recovery driver uses the locals of an observer.
LEMMA RecovererObserves == Recoverer \in Observers
  BY RecoveryAssumption DEF Recoverer

\* With the two steps aside in which the drivers are killed and a poll begins,
\* every step is one of the workload.
LEMMA WorkloadStep ==
  ASSUME [RecoveryNext]_allVars
  PROVE  [Next]_vars \/ Recover \/ PollTake(Recoverer)
<1>0. Recoverer \in Observers
  BY RecovererObserves
<1>1. CASE Testing \/ RecoveryChain
  BY <1>1 DEF Testing, RecoveryChain, Next
<1>2. CASE PollObserve(Recoverer)
  BY <1>0, <1>2 DEF PollObserve, Next, ObserverStep, ObserverProgress
<1>3. CASE PollFails(Recoverer)
  BY <1>0, <1>3 DEF PollFails, Next, ObserverStep, ObserverCrash
<1>4. CASE PollEnd(Recoverer)
  BY <1>0, <1>4 DEF PollEnd, Next, ObserverStep, ObserverProgress
<1>5. CASE PollMissing(Recoverer) \/ RecoveryFails \/ UNCHANGED allVars
  BY <1>5 DEF PollMissing, RecoveryFails, allVars
<1> QED BY <1>1, <1>2, <1>3, <1>4, <1>5 DEF RecoveryNext

\* Facts about the chain and the claims alone.
FactsInv ==
    /\ LedgerInv
    /\ JournalInv
    /\ OneUnsettledPerReceiver
    /\ \A i \in Receivers : claim[i].file \notin {"absent", "torn"} =>
          claim[i].preBalance = Cardinality(Earlier(i))
    /\ EvidenceInv
    /\ \A t \in Txs, d \in {"yes", "no"} : <<t, d>> \in votesCast => t \in Signed
    /\ ExpiryLaneUnvoted
    /\ GuidedVotesKept
    /\ ExpiryInv

\* They hold as long as the chain and the claims stay as they are.
LEMMA FactsKept ==
  ASSUME OutcomeInv, UNCHANGED <<ledgerVars, claim>>
  PROVE  FactsInv'
<1>1. FactsInv
  BY DEF OutcomeInv, IInv, BaselineInv, VoteInv, FactsInv
<1>2. /\ LedgerInv' /\ JournalInv' /\ OneUnsettledPerReceiver'
  BY <1>1
  DEF FactsInv, ledgerVars, LedgerInv, LedgerTypeOK, InclusionInv, ApprovalInv, JournalInv,
      OneUnsettledPerReceiver, Signed, Settled, LiveAt, SettlesIn, ExpiresAfter, EpochOf
<1>3. \A i \in Receivers : Earlier(i)' = Earlier(i)
  BY DEF ledgerVars, Earlier, ReceiverId, PaidAt, EpochOf
<1>4. \A i \in Receivers : (claim[i].file \notin {"absent", "torn"})' =>
        claim'[i].preBalance = Cardinality(Earlier(i)')
  BY <1>1, <1>3 DEF FactsInv
<1>5. EvidenceInv' /\ ExpiryInv'
  BY <1>1 DEF FactsInv, ledgerVars, EvidenceInv, Evidence, ExpiryInv, ExpiresAfter, EpochOf
<1>6. /\ (\A t \in Txs, d \in {"yes", "no"} : <<t, d>> \in votesCast => t \in Signed)'
      /\ ExpiryLaneUnvoted' /\ GuidedVotesKept'
  BY <1>1
  DEF FactsInv, ledgerVars, ExpiryLaneUnvoted, GuidedVotesKept, Signed, Settled, LiveAt,
      SettlesIn, ExpiresAfter, EpochOf
<1> QED BY <1>2, <1>4, <1>5, <1>6 DEF FactsInv

\* Killing every driver takes nothing away that the others rely on.
LEMMA RecoverOutcome ==
  ASSUME OutcomeInv, Recover
  PROVE  OutcomeInv'
<1>1. UNCHANGED <<ledgerVars, claim, alarms>>
  BY DEF Recover
<1>2. FactsInv'
  BY <1>1, FactsKept
<1>3. /\ \A c \in Creators : cPC'[c] = "idle"
      /\ \A v \in Voters : vPC'[v] = "idle" /\ vProps'[v] = {}
      /\ \A o \in Observers : oPC'[o] = "idle"
  BY DEF Recover
<1>4. TypeOK'
  <2>1. TypeOK
    BY DEF OutcomeInv, IInv
  <2>2. NoClaim \in Claim
    BY ClaimTypes
  <2>3. /\ submissionLock' \in Creators \cup Voters \cup {Nobody}
        /\ observerLock' \in Observers \cup {Nobody}
        /\ receiverLock' \in [Receivers -> Creators \cup Observers \cup {Nobody}]
    BY DEF Recover
  <2>4. /\ cPC' \in [Creators -> {"idle", "scan", "claim", "write", "prepare", "sign", "submit"}]
        /\ cTried' \in [Creators -> SUBSET Receivers]
        /\ cIdx' \in [Creators -> Receivers \cup {NoReceiver}]
        /\ cEpoch' \in [Creators -> Int] /\ cPre' \in [Creators -> Int]
        /\ cTx' \in [Creators -> Txs \cup {NoTx}]
        /\ vPC' \in [Voters -> {"idle", "cast"}]
        /\ vProps' \in [Voters -> SUBSET Txs]
    BY DEF Recover, NoEpoch
  <2>5. /\ oPC' \in [Observers -> {"idle", "list", "scan", "tip", "state", "balance", "check", "resolve"}]
        /\ oLive' \in [Observers -> SUBSET Txs]
        /\ oTodo' \in [Observers -> SUBSET Receivers]
        /\ oIdx' \in [Observers -> Receivers \cup {NoReceiver}]
        /\ oRec' \in [Observers -> Claim]
        /\ oTip' \in [Observers -> Int] /\ oState' \in [Observers -> Int]
        /\ oBalance' \in [Observers -> Int]
    BY <2>2 DEF Recover, NoSlot
  <2> QED BY <1>1, <2>1, <2>3, <2>4, <2>5 DEF TypeOK, ledgerVars
<1>5. LockInv' /\ CreatorClaimInv' /\ SnapshotInv' /\ ObservedClaimIsCurrent'
  BY <1>3 DEF LockInv, CreatorClaimInv, SnapshotInv, ObservedClaimIsCurrent, Claiming, Examining
<1>6. BaselineInv' /\ VoteInv' /\ AttributionInv'
  BY <1>2, <1>3 DEF FactsInv, BaselineInv, VoteInv, AttributionInv, Attributed
<1> QED BY <1>1, <1>2, <1>4, <1>5, <1>6 DEF FactsInv, OutcomeInv, IInv

\* A poll begins with the locks free and the claim as it is.
LEMMA PollTakeOutcome ==
  ASSUME OutcomeInv, PhaseInv, PollTake(Recoverer)
  PROVE  OutcomeInv'
<1>0. Recoverer \in Observers /\ GuidedReceiver \in Receivers
  BY RecovererObserves DEF PollTake, Pending
<1>1. UNCHANGED <<ledgerVars, claim, creatorVars, voterVars, alarms>>
  BY DEF PollTake
<1>2. FactsInv'
  BY <1>1, FactsKept
<1>3. TypeOK
  BY DEF OutcomeInv, IInv
<1>4. /\ \A c \in Creators : cPC'[c] = "idle"
      /\ \A o \in Observers \ {Recoverer} : oPC'[o] = "idle"
  BY <1>0, <1>1, <1>3 DEF PollTake, PhaseInv, creatorVars, TypeOK
<1>5. /\ oPC'[Recoverer] = "tip" /\ oIdx'[Recoverer] = GuidedReceiver
      /\ oRec'[Recoverer] = claim[GuidedReceiver]
      /\ receiverLock'[GuidedReceiver] = Recoverer
  BY <1>0, <1>3 DEF PollTake, TypeOK
<1>6. TypeOK'
  <2>1. /\ observerLock' \in Observers \cup {Nobody}
        /\ receiverLock' \in [Receivers -> Creators \cup Observers \cup {Nobody}]
        /\ oTodo' \in [Observers -> SUBSET Receivers]
        /\ oIdx' \in [Observers -> Receivers \cup {NoReceiver}]
        /\ oRec' \in [Observers -> Claim]
        /\ oLive' \in [Observers -> SUBSET Txs]
    BY <1>0, <1>3 DEF PollTake, TypeOK
  <2>2. oPC' \in [Observers -> {"idle", "list", "scan", "tip", "state", "balance", "check", "resolve"}]
    BY <1>0, <1>3 DEF PollTake, TypeOK
  <2> QED BY <1>1, <1>3, <2>1, <2>2
          DEF PollTake, TypeOK, ledgerVars, creatorVars, voterVars
<1>7. LockInv' /\ CreatorClaimInv'
  BY <1>0, <1>4, <1>5 DEF LockInv, CreatorClaimInv, Claiming, Examining
<1>8. SnapshotInv'
  BY <1>4, <1>5 DEF SnapshotInv
<1>9. ObservedClaimIsCurrent'
  BY <1>1, <1>4, <1>5 DEF ObservedClaimIsCurrent
<1>10. BaselineInv' /\ AttributionInv'
  BY <1>2, <1>4, <1>5 DEF FactsInv, BaselineInv, AttributionInv, Attributed
<1>11. VoteInv'
  <2>1. UNCHANGED <<vProps, ledgerVars>> /\ VoteInv
    BY <1>1 DEF voterVars, OutcomeInv
  <2> QED BY <2>1 DEF VoteInv, ledgerVars, Signed
<1> QED BY <1>1, <1>2, <1>6, <1>7, <1>8, <1>9, <1>10, <1>11 DEF FactsInv, OutcomeInv, IInv

\* What the workload's steps keep, the recovery driver keeps as well.
LEMMA RecoveryKeeps ==
  ASSUME RecoveryInv, [RecoveryNext]_allVars
  PROVE  OutcomeInv' /\ WindowInv' /\ GuidedKept'
<1>0. OutcomeInv /\ WindowInv /\ GuidedKept /\ PhaseInv
  BY DEF RecoveryInv
<1>1. CASE [Next]_vars
  BY <1>0, <1>1, OutcomeNext, WindowStep, GuidedKeptStep
<1>2. CASE Recover \/ PollTake(Recoverer)
  <2>1. OutcomeInv'
    BY <1>0, <1>2, RecoverOutcome, PollTakeOutcome
  <2>2. UNCHANGED <<ledgerVars, claim>>
    BY <1>2 DEF Recover, PollTake
  <2>3. WindowInv'
    BY <1>0, <2>2 DEF WindowInv, ledgerVars, Signed
  <2>4. GuidedKept'
    BY <1>0, <2>2 DEF GuidedKept, ledgerVars, Signed, ReceiverId
  <2> QED BY <2>1, <2>3, <2>4
<1> QED BY <1>1, <1>2, WorkloadStep

\* The recovery driver stays on its own, and looks at the guided claim only.
LEMMA PhaseStep ==
  ASSUME RecoveryInv, [RecoveryNext]_allVars
  PROVE  PhaseInv'
<1>0. /\ OutcomeInv /\ IInv /\ WindowInv /\ PhaseInv /\ TypeOK /\ LockInv
      /\ Recoverer \in Observers
  BY RecovererObserves DEF RecoveryInv, OutcomeInv, IInv
<1>1. CASE Testing
  BY <1>0, <1>1 DEF Testing, recoveryVars, PhaseInv
<1>2. CASE Recover
  <2>1. /\ phase' = "recovery" /\ start' = volatileSlot
        /\ UNCHANGED <<volatileSlot, txReceiver, txValidUntil, polled, witnessed, recovered>>
    BY <1>2 DEF Recover, ledgerVars
  <2>2. ASSUME NEW t \in Signed PROVE txValidUntil[t] <= volatileSlot + Window + EpochLength
    BY <1>0, Slots DEF WindowInv, Signed
  <2>3. (\A t \in Signed : txValidUntil[t] <= start + Window + EpochLength)'
    BY <2>1, <2>2 DEF Signed
  <2>4. /\ \A c \in Creators : cPC'[c] = "idle"
        /\ \A v \in Voters : vPC'[v] = "idle"
        /\ \A o \in Observers : oPC'[o] = "idle"
    BY <1>2 DEF Recover
  <2>5. phase = "testing"
    BY <1>2 DEF Recover
  <2> QED BY <1>0, <2>1, <2>3, <2>4, <2>5, Slots DEF PhaseInv, Examining
<1>3. CASE RecoveryChain
  <2>1. phase = "recovery" /\ UNCHANGED <<phase, start, witnessed, recovered>> /\ polled' = FALSE
    BY <1>3 DEF RecoveryChain
  <2>2. UNCHANGED <<txReceiver, txValidUntil, cPC, vPC, oPC, oIdx>>
    BY <1>3
    DEF RecoveryChain, LedgerStep, LedgerNext, ExtendChain, SettleBlock, Include, Approve,
        creatorVars, voterVars, observerVars
  <2>3. volatileSlot <= volatileSlot'
    <3>1. volatileSlot' \in {volatileSlot, volatileSlot + 1}
      BY <1>3 DEF RecoveryChain, LedgerStep, LedgerNext, ExtendChain, SettleBlock, Include, Approve
    <3> QED BY <1>0, <3>1 DEF TypeOK
  <2>4. start \in Nat /\ start <= volatileSlot'
    <3>1. PICK u \in Int : u = volatileSlot'
      BY <1>0, RecoveryKeeps DEF OutcomeInv, IInv, TypeOK
    <3> QED BY <1>0, <2>1, <2>3, <3>1 DEF PhaseInv, TypeOK
  <2> QED BY <1>0, <2>1, <2>2, <2>4 DEF PhaseInv, Signed
<1>4. CASE PollTake(Recoverer)
  <2>1. /\ phase = "recovery" /\ oPC' = [oPC EXCEPT ![Recoverer] = "tip"]
        /\ oIdx' = [oIdx EXCEPT ![Recoverer] = GuidedReceiver]
        /\ UNCHANGED <<ledgerVars, creatorVars, voterVars, recoveryVars>>
    BY <1>4 DEF PollTake
  <2>2. /\ oPC'[Recoverer] = "tip" /\ oIdx'[Recoverer] = GuidedReceiver
        /\ \A o \in Observers \ {Recoverer} : oPC'[o] = oPC[o]
    BY <1>0, <2>1 DEF TypeOK
  <2> QED BY <1>0, <2>1, <2>2
          DEF PhaseInv, Signed, ledgerVars, creatorVars, voterVars, recoveryVars
<1>5. CASE PollObserve(Recoverer) \/ PollFails(Recoverer) \/ PollEnd(Recoverer)
  <2>0. phase = "recovery"
    BY <1>5 DEF PollObserve, PollFails, PollEnd
  <2>1. ObserverStep(Recoverer)
    BY <1>5 DEF PollObserve, PollFails, PollEnd, ObserverStep, ObserverProgress, ObserverCrash
  <2>2. /\ \A o \in Observers \ {Recoverer} : oPC'[o] = oPC[o]
        /\ UNCHANGED <<ledgerVars, creatorVars, voterVars>>
    BY <1>0, <2>1, ObserverFrame
  <2>3. /\ oPC'[Recoverer] # "list"
        /\ oPC'[Recoverer] \in Examining =>
              oPC[Recoverer] \in Examining /\ oIdx'[Recoverer] = oIdx[Recoverer]
    BY <1>0, <1>5
    DEF PollObserve, PollFails, PollEnd, ObserverReclaim, ObserverTip, ObserverState,
        ObserverBalance, ObserverRetry, ObserverCheck, ObserverNoteExpiry, ObserverWait,
        ObserverResolve, ObserverDone, ObserverEnd, ObserverNext, Examining, TypeOK
  <2>4. /\ start' = start /\ polled' \in BOOLEAN /\ witnessed' \in BOOLEAN
        /\ \/ phase' = "recovery" /\ recovered' = "unknown"
           \/ phase' = "over" /\ recovered' = "yes"
    <3>1. CASE PollObserve(Recoverer)
      <4>1. UNCHANGED <<phase, start, polled, recovered>>
        BY <3>1 DEF PollObserve
      <4>2. witnessed' \in BOOLEAN
        BY <3>1 DEF PollObserve
      <4> QED BY <1>0, <2>0, <4>1, <4>2 DEF PhaseInv
    <3>2. CASE PollFails(Recoverer)
      BY <1>0, <2>0, <3>2 DEF PollFails, recoveryVars, PhaseInv
    <3>3. CASE PollEnd(Recoverer)
      BY <1>0, <2>0, <3>3 DEF PollEnd, PhaseInv
    <3> QED BY <1>5, <3>1, <3>2, <3>3
  <2> QED BY <1>0, <2>0, <2>2, <2>3, <2>4
          DEF PhaseInv, Signed, ledgerVars, creatorVars, voterVars
<1>6. CASE PollMissing(Recoverer) \/ RecoveryFails
  <2>1. /\ UNCHANGED <<vars, start, witnessed>> /\ phase = "recovery" /\ polled' = TRUE
        /\ \/ phase' = phase /\ recovered' = recovered
           \/ phase' = "over" /\ recovered' = "no"
    BY <1>0, <1>6 DEF PollMissing, RecoveryFails, PhaseInv
  <2>2. UNCHANGED <<volatileSlot, txReceiver, txValidUntil, cPC, vPC, oPC, oIdx>>
    BY <2>1 DEF vars, ledgerVars, creatorVars, voterVars, observerVars
  <2> QED BY <1>0, <2>1, <2>2 DEF PhaseInv, Signed
<1>7. CASE UNCHANGED allVars
  <2>1. UNCHANGED <<volatileSlot, txReceiver, txValidUntil, cPC, vPC, oPC, oIdx>>
    BY <1>7 DEF allVars, vars, ledgerVars, creatorVars, voterVars, observerVars
  <2> QED BY <1>0, <1>7, <2>1 DEF allVars, recoveryVars, PhaseInv, Signed
<1> QED BY <1>1, <1>2, <1>3, <1>4, <1>5, <1>6, <1>7 DEF RecoveryNext

\* A payment stays paid, and a paid guided receiver stays with its claim.
LEMMA PaymentKept ==
  ASSUME RecoveryInv, [RecoveryNext]_allVars, NEW t \in Txs,
         ReceiverId(GuidedReceiver) = t, PaidAt(t, immutableSlot)
  PROVE  ReceiverId(GuidedReceiver)' = t /\ PaidAt(t, immutableSlot)'
<1>0. /\ OutcomeInv /\ IInv /\ AttributionInv /\ t # NoTx /\ GuidedReceiver \in Receivers
      /\ immutableSlot \in Int /\ approvedAt[t] \in Int /\ immutableSlot' \in Int
  <2>1. OutcomeInv'
    BY RecoveryKeeps
  <2> QED BY <2>1, WorkloadAssumption
          DEF RecoveryInv, OutcomeInv, IInv, TypeOK, ReceiverId
<1>1. CASE [Next]_vars
  <2>1. ReceiverId(GuidedReceiver)' = t
    <3> SUFFICES ASSUME ReceiverId(GuidedReceiver)' # t PROVE FALSE
      OBVIOUS
    <3>1. PICK o \in Observers : ObserverResolve(o) /\ GuidedReceiver = oIdx[o] /\ ~Retained(o)
      BY <1>0, <1>1, ClaimReleased
    <3> QED BY <1>0, <3>1, PaidIsRetained
  <2>2. approvedAt[t] # NoSlot /\ EpochOf(immutableSlot) >= EpochOf(approvedAt[t]) + 2
    BY DEF PaidAt
  <2>3. approvedAt[t] <= immutableSlot
    BY <1>0, <2>2, EpochMonotone, EpochType
  <2>4. approvedAt'[t] = approvedAt[t] /\ immutableSlot <= immutableSlot'
    BY <1>0, <1>1, <2>2, <2>3, FateKept
  <2>5. PICK u \in Int : u = immutableSlot'
    BY <1>0
  <2>6. EpochOf(u) >= EpochOf(approvedAt[t]) + 2
    BY <1>0, <2>2, <2>4, <2>5, EpochMonotone, EpochType
  <2> QED BY <2>1, <2>2, <2>4, <2>5, <2>6 DEF PaidAt, EpochOf
<1>2. CASE Recover \/ PollTake(Recoverer)
  BY <1>2 DEF Recover, PollTake, ledgerVars, ReceiverId, PaidAt, EpochOf
<1> QED BY <1>1, <1>2, WorkloadStep

\* What a poll calls a payment is the guided action's, and it is immutable.
LEMMA WitnessStep ==
  ASSUME RecoveryInv, [RecoveryNext]_allVars
  PROVE  WitnessInv'
<1>0. /\ OutcomeInv /\ IInv /\ AttributionInv /\ PhaseInv /\ WitnessInv
      /\ Recoverer \in Observers
  BY RecovererObserves DEF RecoveryInv, OutcomeInv
<1>1. CASE witnessed \/ recovered = "yes"
  <2>1. ReceiverId(GuidedReceiver) # NoTx /\ PaidAt(ReceiverId(GuidedReceiver), immutableSlot)
    BY <1>0, <1>1 DEF WitnessInv
  <2>2. ReceiverId(GuidedReceiver) \in Txs
    BY <1>0, <2>1 DEF ReceiverId, IInv, TypeOK, Claim
  <2>3. PICK t \in Txs : t = ReceiverId(GuidedReceiver)
    BY <2>2
  <2>4. ReceiverId(GuidedReceiver)' = t /\ PaidAt(t, immutableSlot)'
    BY <2>1, <2>3, PaymentKept
  <2> QED BY <2>1, <2>3, <2>4 DEF WitnessInv
<1>2. CASE ~witnessed /\ recovered # "yes" /\ (witnessed' \/ recovered' = "yes")
  <2>1. /\ PollObserve(Recoverer)
        /\ oPC[Recoverer] = "resolve" /\ oPC'[Recoverer] = "scan"
        /\ ~ImmutableLive(Recoverer) /\ ~Undecided(Recoverer) /\ Paid(Recoverer)
    BY <1>0, <1>2
    DEF RecoveryNext, Testing, Recover, RecoveryChain, RecoveryFails, PollTake, PollMissing,
        PollObserve, PollFails, PollEnd, recoveryVars, allVars, PhaseInv
  <2>2. oIdx[Recoverer] = GuidedReceiver
    BY <1>0, <2>1 DEF PhaseInv, Examining, PollObserve
  <2>3. UNCHANGED <<claim, ledgerVars>>
    <3>1. ObserverResolve(Recoverer)
      BY <2>1 DEF PollObserve, ObserverReclaim, ObserverTip, ObserverState, ObserverBalance,
                  ObserverRetry, ObserverCheck, ObserverNoteExpiry, ObserverWait
    <3> QED BY <2>1, <2>2, <3>1 DEF ObserverResolve, Retained
  <2>4. PICK t \in Txs, s \in Int :
          /\ t = oRec[Recoverer].tx /\ t = ReceiverId(GuidedReceiver) /\ t # NoTx
          /\ s = oTip[Recoverer] /\ s <= immutableSlot
    <3>1. oRec[Recoverer].tx \in Txs /\ oTip[Recoverer] \in Int
          /\ ReceiverId(GuidedReceiver) = oRec[Recoverer].tx /\ oTip[Recoverer] <= immutableSlot
      BY <1>0, <2>1, <2>2, ObserverKnows, Slots
    <3> QED BY <3>1, WorkloadAssumption
  <2>5. PaidAt(t, s)
    <3>1. Attributed(Recoverer)
      BY <1>0 DEF AttributionInv
    <3>2. PaidAt(oRec[Recoverer].tx, oTip[Recoverer])
      <4>1. Delta(Recoverer) = IF PaidAt(oRec[Recoverer].tx, oTip[Recoverer]) THEN 1 ELSE 0
        BY <2>1, <3>1 DEF Attributed
      <4>2. Delta(Recoverer) = 1
        BY <2>1 DEF Paid
      <4> QED BY <4>1, <4>2
    <3> QED BY <2>4, <3>2
  <2>6. PaidAt(t, immutableSlot)
    BY <1>0, <2>4, <2>5, Slots, EpochMonotone, EpochType DEF PaidAt
  <2> QED BY <2>3, <2>4, <2>6 DEF WitnessInv, ReceiverId, PaidAt, ledgerVars, EpochOf
<1>3. CASE ~witnessed' /\ recovered' # "yes"
  BY <1>3 DEF WitnessInv
<1> QED BY <1>1, <1>2, <1>3

\* An action that is due leaves the listing, and is paid, less than two epochs
\* after the recovery driver's start.
LEMMA DueSoon ==
  ASSUME RecoveryInv, start \in Nat, NEW t \in Txs, Due(t), NEW s \in Int,
         EpochOf(s) < EpochOf(approvedAt[t]) + 2
  PROVE  s < start + 2 * EpochLength
<1>1. IInv
  BY DEF RecoveryInv, OutcomeInv
<1>2. PICK a \in Int, b \in Int : a = approvedAt[t] /\ b = start /\ a <= b
  BY <1>1, Slots DEF Due
<1>3. EpochOf(s) < EpochOf(b) + 2
  <2>1. EpochOf(a) <= EpochOf(b) /\ EpochOf(a) \in Int /\ EpochOf(b) \in Int /\ EpochOf(s) \in Int
    BY <1>2, EpochMonotone, EpochType
  <2> QED BY <1>2, <2>1
<1>4. s < b + 2 * EpochLength
  BY <1>3, EpochGap
<1> QED BY <1>2, <1>4

\* A poll whose tip is short of what is due leaves time for the next one.
LEMMA TipLeavesTime ==
  ASSUME RecoveryInv, phase = "recovery", oPC[Recoverer] = "resolve",
         \/ oTip[Recoverer] < start + 2 * EpochLength
         \/ oTip[Recoverer] < start + Window + EpochLength
  PROVE  Early
<1>1. /\ IInv /\ start \in Nat /\ oTip[Recoverer] \in Int
      /\ volatileSlot <= oTip[Recoverer] + Window
      /\ polled => oTip[Recoverer] = immutableSlot
  BY RecovererObserves DEF RecoveryInv, OutcomeInv, IInv, TypeOK, PhaseInv, PollInv, PollTip
<1>2. PICK v \in Nat, s \in Int, b \in Nat :
        /\ v = volatileSlot /\ s = oTip[Recoverer] /\ b = start
        /\ v <= s + Window
        /\ s < b + 2 * EpochLength \/ s < b + Window + EpochLength
  BY <1>1, Slots
<1>3. v < b + 3 * EpochLength /\ s + Window < b + 3 * EpochLength
  BY <1>2, LedgerAssumption, RecoveryAssumption
<1> QED BY <1>1, <1>2, <1>3 DEF Early, Budget, RecoveryEpochs

\* The guided claim names the action that is due, and so does an observer's copy.
LEMMA DueIsGuided ==
  ASSUME RecoveryInv, NEW t \in Txs, Due(t)
  PROVE  /\ GuidedReceiver \in Receivers /\ t # NoTx
         /\ ReceiverId(GuidedReceiver) = t
         /\ claim[GuidedReceiver].file = "journalled" /\ claim[GuidedReceiver].tx = t
<1>1. ReceiverId(GuidedReceiver) = t /\ t # NoTx
  BY WorkloadAssumption DEF RecoveryInv, GuidedKept, Due
<1> QED BY <1>1 DEF ReceiverId

\* A poll that sees no payment of a due action was early enough for another one.
LEMMA PollLeavesTime ==
  ASSUME RecoveryInv, NEW t \in Txs, Due(t), PollObserve(Recoverer),
         oPC'[Recoverer] = "scan", ~witnessed'
  PROVE  Early
<1>0. /\ phase = "recovery" /\ Recoverer \in Observers
      /\ OutcomeInv /\ IInv /\ PhaseInv /\ PollInv /\ EvidenceInv /\ AttributionInv
      /\ start \in Nat /\ \A u \in Signed : txValidUntil[u] <= start + Window + EpochLength
  BY RecovererObserves DEF PollObserve, RecoveryInv, OutcomeInv, PhaseInv
<1>1. /\ oPC[Recoverer] = "resolve"
      /\ ObserverNoteExpiry(Recoverer) \/ ObserverWait(Recoverer) \/ ObserverResolve(Recoverer)
  <2>1. ~ObserverReclaim(Recoverer)
    <3> SUFFICES ASSUME ObserverReclaim(Recoverer) PROVE FALSE
      OBVIOUS
    <3>1. oPC[Recoverer] = "tip" /\ oRec[Recoverer].file # "journalled"
      BY DEF ObserverReclaim, NeverBroadcast
    <3>2. oIdx[Recoverer] = GuidedReceiver /\ claim[oIdx[Recoverer]] = oRec[Recoverer]
      BY <1>0, <3>1 DEF PhaseInv, Examining, IInv, ObservedClaimIsCurrent
    <3> QED BY <3>1, <3>2, DueIsGuided
  <2>2. oPC \in [Observers -> {"idle", "list", "scan", "tip", "state", "balance", "check", "resolve"}]
    BY <1>0 DEF IInv, TypeOK
  <2>3. ObserverNoteExpiry(Recoverer) \/ ObserverWait(Recoverer) \/ ObserverResolve(Recoverer)
    BY <1>0, <2>1, <2>2
    DEF PollObserve, ObserverTip, ObserverState, ObserverBalance, ObserverRetry, ObserverCheck
  <2> QED BY <2>3 DEF ObserverNoteExpiry, ObserverWait, ObserverResolve
<1>2. PICK s \in Int :
        /\ s = oTip[Recoverer] /\ s = oState[Recoverer] /\ oRec[Recoverer].tx = t
        /\ oRec[Recoverer].file = "journalled" /\ t \in Signed
        /\ oRec[Recoverer] = claim[GuidedReceiver]
        /\ oRec[Recoverer].validUntil = txValidUntil[t]
        /\ approvedAt[t] # NoSlot
  <2>1. oIdx[Recoverer] = GuidedReceiver
    BY <1>0, <1>1 DEF PhaseInv, Examining
  <2> QED BY <1>0, <1>1, <2>1, ObserverKnows, DueIsGuided DEF Due
<1>3. SettlesIn(t) = EpochOf(approvedAt[t]) + 2 /\ EpochOf(approvedAt[t]) \in Int /\ EpochOf(s) \in Int
  BY <1>0, <1>2, Slots, EpochType DEF SettlesIn
<1>4. EpochOf(s) < EpochOf(approvedAt[t]) + 2 => Early
  BY <1>0, <1>1, <1>2, DueSoon, TipLeavesTime
<1>5. CASE ImmutableLive(Recoverer)
  BY <1>2, <1>3, <1>4, <1>5 DEF ImmutableLive, LiveAt
<1>6. CASE ~ImmutableLive(Recoverer) /\ Undecided(Recoverer)
  <2>1. CASE t \in oLive[Recoverer]
    BY <1>0, <2>1 DEF PollInv, PollTimely
  <2>2. CASE s < txValidUntil[t]
    <3>1. PICK w \in Int : w = txValidUntil[t] /\ w <= start + Window + EpochLength
      BY <1>0, <1>2, Slots
    <3>2. s < start + Window + EpochLength
      BY <1>0, <2>2, <3>1, LedgerAssumption
    <3> QED BY <1>0, <1>1, <1>2, <3>2, TipLeavesTime
  <2>3. CASE RatificationKnown(Recoverer) /\ EpochOf(s) <= oRec[Recoverer].ratifiedEpoch
    <3>1. oRec[Recoverer].ratifiedEpoch = EpochOf(approvedAt[t]) + 1
      BY <1>0, <1>2, <2>3, DueIsGuided DEF RatificationKnown, EvidenceInv, Evidence
    <3> QED BY <1>3, <1>4, <2>3, <3>1
  <2> QED BY <1>2, <1>6, <2>1, <2>2, <2>3 DEF Undecided
<1>7. CASE ~ImmutableLive(Recoverer) /\ ~Undecided(Recoverer)
  <2>1. ~Paid(Recoverer)
    BY <1>1, <1>7 DEF PollObserve
  <2>2. ~PaidAt(t, s)
    <3>1. Attributed(Recoverer)
      BY <1>0 DEF AttributionInv
    <3>2. Delta(Recoverer) = IF PaidAt(oRec[Recoverer].tx, oTip[Recoverer]) THEN 1 ELSE 0
      BY <1>1, <3>1 DEF Attributed
    <3>3. ~PaidAt(oRec[Recoverer].tx, oTip[Recoverer])
      BY <2>1, <3>2 DEF Paid
    <3> QED BY <1>2, <3>3
  <2> QED BY <1>2, <1>3, <1>4, <2>2 DEF PaidAt
<1> QED BY <1>5, <1>6, <1>7

\* Without a step of the chain, what is due stays due and the budget the same.
LEMMA SameDue ==
  ASSUME UNCHANGED <<ledgerVars, start>>
  PROVE  /\ \A t \in Txs : Due(t)' <=> Due(t)
         /\ Budget' = Budget
         /\ polled' = polled => Early' = Early
  BY DEF ledgerVars, Due, Signed, Budget, Early

\* A step of the chain uses up what the last poll has left.
LEMMA ChainPoll ==
  ASSUME RecoveryInv, RecoveryChain
  PROVE  PollInv'
<1>0. /\ OutcomeInv /\ IInv /\ WindowInv /\ PhaseInv /\ PollInv /\ Recoverer \in Observers
      /\ phase = "recovery" /\ polled /\ polled' = FALSE /\ start' = start
      /\ UNCHANGED <<oPC, oTip, oLive, txReceiver, witnessed>>
  BY RecovererObserves
  DEF RecoveryInv, OutcomeInv, RecoveryChain, LedgerStep, LedgerNext, ExtendChain, SettleBlock,
      Include, Approve, observerVars
<1>1. PICK v \in Nat, u \in Nat, m \in Nat, b \in Nat :
        /\ v = volatileSlot /\ u = volatileSlot' /\ m = immutableSlot /\ b = start
        /\ v <= m + Window /\ u \in {v, v + 1} /\ (u # v => v < m + Window)
  <2>1. volatileSlot' = volatileSlot \/ (volatileSlot' = volatileSlot + 1
                                          /\ volatileSlot < immutableSlot + Window)
    BY DEF RecoveryChain, LedgerStep, LedgerNext, ExtendChain, SettleBlock, Include, Approve
  <2>2. volatileSlot \in Nat /\ immutableSlot \in Nat /\ start \in Nat
    BY <1>0, Slots DEF PhaseInv
  <2>3. volatileSlot <= immutableSlot + Window
    BY <1>0 DEF WindowInv
  <2>4. volatileSlot' \in Nat
    BY <2>1, <2>2
  <2> QED BY <2>1, <2>2, <2>3, <2>4, LedgerAssumption
<1>2. PollTip'
  <2>1. CASE oPC[Recoverer] \notin {"state", "balance", "check", "resolve"}
    BY <1>0, <2>1 DEF PollTip
  <2>2. CASE oPC[Recoverer] \in {"state", "balance", "check", "resolve"}
    <3>1. oTip[Recoverer] = m
      BY <1>0, <1>1, <2>2 DEF PollInv, PollTip
    <3>2. u <= m + Window
      BY <1>1, LedgerAssumption
    <3> QED BY <1>0, <1>1, <3>1, <3>2 DEF PollTip
  <2> QED BY <2>1, <2>2
<1>3. ASSUME NEW t \in Txs, Due(t)' PROVE PollTimely'
  <2>1. u < b + 3 * EpochLength => Early'
    BY <1>0, <1>1 DEF Early, Budget, RecoveryEpochs
  <2>2. CASE ~Due(t)
    <3>1. Approve(t)
      <4>1. approvedAt'[t] # approvedAt[t]
        BY <1>0, <1>3, <2>2 DEF Due, Signed
      <4>2. \A x \in Txs : Approve(x) => x = t
        BY <1>0, <4>1 DEF Approve, IInv, TypeOK
      <4> QED BY <4>1, <4>2
              DEF RecoveryChain, LedgerStep, LedgerNext, ExtendChain, SettleBlock, Include
    <3>2. approvedAt'[t] = volatileSlot /\ volatileSlot' = volatileSlot
      BY <1>0, <3>1 DEF Approve, IInv, TypeOK
    <3>3. u <= b
      BY <1>0, <1>1, <1>3, <3>2 DEF Due
    <3>4. u < b + 3 * EpochLength
      BY <3>3, LedgerAssumption
    <3> QED BY <1>0, <2>1, <3>4 DEF PollTimely
  <2>3. CASE Due(t)
    <3>1. PollTimely
      BY <1>0, <2>3 DEF PollInv
    <3>2. Early => u < b + 3 * EpochLength
      <4>1. SUFFICES ASSUME Early PROVE u < b + 3 * EpochLength
        OBVIOUS
      <4>2. /\ v < b + 3 * EpochLength
            /\ v + 1 < b + 3 * EpochLength \/ m + Window < b + 3 * EpochLength
        BY <1>0, <1>1, <4>1 DEF Early, Budget, RecoveryEpochs
      <4> QED BY <1>1, <4>2, LedgerAssumption
    <3>3. Early => Early'
      BY <2>1, <3>2
    <3>4. ASSUME NEW x \in Txs, Due(x)', x \in oLive'[Recoverer] PROVE Early'
      <4>1. CASE Due(x)
        BY <1>0, <3>1, <3>3, <3>4, <4>1 DEF PollTimely
      <4>2. CASE ~Due(x)
        <5>1. approvedAt'[x] # approvedAt[x]
          BY <1>0, <3>4, <4>2 DEF Due, Signed
        <5>2. \A y \in Txs : Approve(y) => y = x
          BY <1>0, <5>1 DEF Approve, IInv, TypeOK
        <5>3. Approve(x)
          BY <5>1, <5>2
          DEF RecoveryChain, LedgerStep, LedgerNext, ExtendChain, SettleBlock, Include
        <5>4. approvedAt'[x] = volatileSlot /\ volatileSlot' = volatileSlot
          BY <1>0, <5>3 DEF Approve, IInv, TypeOK
        <5>5. u <= b
          BY <1>0, <1>1, <3>4, <5>4 DEF Due
        <5>6. u < b + 3 * EpochLength
          BY <5>5, LedgerAssumption
        <5> QED BY <2>1, <5>6
      <4> QED BY <4>1, <4>2
    <3> QED BY <1>0, <3>1, <3>3, <3>4 DEF PollTimely
  <2> QED BY <2>2, <2>3
<1> QED BY <1>2, <1>3 DEF PollInv

\* A step of a poll knows the tip, and ends in time.
LEMMA ObservePoll ==
  ASSUME RecoveryInv, PollObserve(Recoverer)
  PROVE  PollInv'
<1>0. /\ OutcomeInv /\ IInv /\ TypeOK /\ LockInv /\ WindowInv /\ PollInv /\ PhaseInv
      /\ Recoverer \in Observers /\ phase = "recovery" /\ UNCHANGED <<phase, start, polled>>
  BY RecovererObserves DEF RecoveryInv, OutcomeInv, IInv, PollObserve
<1>1. UNCHANGED ledgerVars
  <2>1. ObserverStep(Recoverer)
    BY DEF PollObserve, ObserverStep, ObserverProgress
  <2> QED BY <1>0, <2>1, ObserverFrame
<1>2. /\ oLive' = oLive
      /\ oPC'[Recoverer] \in {"state", "balance", "check", "resolve"} =>
            \/ oTip'[Recoverer] = immutableSlot
            \/ /\ oTip'[Recoverer] = oTip[Recoverer]
               /\ oPC[Recoverer] \in {"state", "balance", "check", "resolve"}
  <2>1. CASE ObserverTip(Recoverer)
    BY <1>0, <2>1 DEF ObserverTip, TypeOK
  <2>2. CASE ~ObserverTip(Recoverer)
    BY <1>0, <2>2
    DEF PollObserve, ObserverReclaim, ObserverState, ObserverBalance, ObserverRetry,
        ObserverCheck, ObserverNoteExpiry, ObserverWait, ObserverResolve, ObserverNext, TypeOK
  <2> QED BY <2>1, <2>2
<1>3. PollTip'
  BY <1>0, <1>1, <1>2 DEF PollTip, PollInv, WindowInv, ledgerVars
<1>4. ASSUME NEW t \in Txs, Due(t)' PROVE PollTimely'
  <2>1. /\ Due(t) /\ PollTimely /\ Budget' = Budget /\ (Early' <=> Early)
        /\ \A x \in Txs : Due(x)' <=> Due(x)
    BY <1>0, <1>1, <1>4, SameDue DEF PollInv
  <2>2. oPC'[Recoverer] = "scan" /\ ~witnessed' => Early
    BY <2>1, PollLeavesTime
  <2> QED BY <1>0, <1>1, <1>2, <2>1, <2>2 DEF PollTimely, ledgerVars
<1> QED BY <1>3, <1>4 DEF PollInv

\* A poll that begins before the action has left the listing is in time.
LEMMA TakePoll ==
  ASSUME RecoveryInv, PollTake(Recoverer)
  PROVE  PollInv'
<1>0. /\ OutcomeInv /\ IInv /\ TypeOK /\ PollInv /\ PhaseInv /\ start \in Nat
      /\ Recoverer \in Observers /\ phase = "recovery"
      /\ UNCHANGED <<ledgerVars, start, polled, witnessed>>
  BY RecovererObserves DEF RecoveryInv, OutcomeInv, IInv, PhaseInv, PollTake, recoveryVars
<1>1. /\ oPC'[Recoverer] = "tip"
      /\ oLive'[Recoverer] = {t \in Txs : LiveAt(t, volatileSlot)}
  BY <1>0 DEF PollTake, TypeOK
<1>2. ASSUME NEW t \in Txs, Due(t)' PROVE PollTimely'
  <2>1. /\ PollTimely /\ Budget' = Budget /\ (Early' <=> Early)
        /\ \A x \in Txs : Due(x)' <=> Due(x)
    BY <1>0, <1>2, SameDue DEF PollInv
  <2>2. ASSUME NEW x \in Txs, Due(x), x \in oLive'[Recoverer] PROVE Early
    <3>1. EpochOf(volatileSlot) < EpochOf(approvedAt[x]) + 2
      <4>1. EpochOf(volatileSlot) < SettlesIn(x) /\ approvedAt[x] # NoSlot
        BY <1>1, <2>2 DEF LiveAt, Due
      <4> QED BY <1>0, <4>1, Slots, EpochType DEF SettlesIn
    <3>2. PICK v \in Nat, b \in Nat : v = volatileSlot /\ b = start /\ v < b + 2 * EpochLength
      BY <1>0, <2>2, <3>1, DueSoon, Slots
    <3>3. v < b + 3 * EpochLength /\ v + 1 < b + 3 * EpochLength
      BY <3>2, LedgerAssumption
    <3> QED BY <3>2, <3>3 DEF Early, Budget, RecoveryEpochs
  <2> QED BY <1>0, <1>1, <2>1, <2>2 DEF PollTimely, ledgerVars
<1> QED BY <1>1, <1>2 DEF PollInv, PollTip

\* As long as a due action is not seen paid, there is time.
LEMMA PollStep ==
  ASSUME RecoveryInv, [RecoveryNext]_allVars
  PROVE  PollInv'
<1>0. /\ OutcomeInv /\ IInv /\ TypeOK /\ PollInv /\ PhaseInv /\ Recoverer \in Observers
  BY RecovererObserves DEF RecoveryInv, OutcomeInv, IInv
<1>1. CASE RecoveryChain \/ PollObserve(Recoverer) \/ PollTake(Recoverer)
  BY <1>1, ChainPoll, ObservePoll, TakePoll
<1>2. CASE Testing \/ RecoveryFails
  BY <1>0, <1>2 DEF Testing, RecoveryFails, recoveryVars, PollInv
<1>3. CASE Recover
  <2>1. /\ oPC'[Recoverer] = "idle" /\ oLive'[Recoverer] = {} /\ polled' = FALSE
    BY <1>0, <1>3 DEF Recover, PhaseInv
  <2> QED BY <2>1 DEF PollInv, PollTip, PollTimely
<1>4. CASE PollFails(Recoverer) \/ PollEnd(Recoverer)
  <2>1. /\ oPC'[Recoverer] = "idle" /\ oLive'[Recoverer] = {}
        /\ UNCHANGED <<ledgerVars, start>> /\ phase = "recovery"
    BY <1>0, <1>4 DEF PollFails, PollEnd, ObserverDone, ObserverEnd, recoveryVars, TypeOK
  <2>2. ASSUME NEW t \in Txs, Due(t)', phase' = "recovery" PROVE polled' => (volatileSlot < Budget)'
    <3>1. PollTimely /\ Budget' = Budget /\ volatileSlot' = volatileSlot
      BY <1>0, <2>1, <2>2, SameDue DEF PollInv, ledgerVars
    <3>2. CASE PollFails(Recoverer)
      BY <3>1, <3>2 DEF PollFails, recoveryVars, PollTimely
    <3>3. CASE PollEnd(Recoverer)
      <4>1. oPC[Recoverer] = "scan" /\ ~witnessed
        BY <2>2, <3>3 DEF PollEnd, ObserverDone
      <4> QED BY <3>1, <4>1 DEF PollTimely, Early
    <3> QED BY <1>4, <3>2, <3>3
  <2> QED BY <2>1, <2>2 DEF PollInv, PollTip, PollTimely
<1>5. CASE PollMissing(Recoverer)
  <2>1. /\ oPC[Recoverer] = "idle" /\ GuidedReceiver \notin Pending
        /\ UNCHANGED <<ledgerVars, start, oPC, oLive, oTip>>
    BY <1>5 DEF PollMissing, vars, observerVars
  <2>2. ASSUME NEW t \in Txs PROVE ~Due(t)'
    BY <2>1, SameDue, DueIsGuided DEF Pending
  <2> QED BY <2>1, <2>2 DEF PollInv, PollTip
<1>6. CASE UNCHANGED allVars
  <2>1. UNCHANGED <<ledgerVars, start, polled, phase, witnessed, oPC, oLive, oTip>>
    BY <1>6 DEF allVars, vars, recoveryVars, observerVars
  <2>2. /\ (\A t \in Txs : Due(t)' <=> Due(t)) /\ Budget' = Budget /\ (Early' <=> Early)
    BY <2>1, SameDue
  <2> QED BY <1>0, <2>1, <2>2 DEF PollInv, PollTip, PollTimely, ledgerVars
<1> QED BY <1>1, <1>2, <1>3, <1>4, <1>5, <1>6 DEF RecoveryNext

\* The recovery driver gives up only when the budget is spent, and then nothing
\* that is due can be missing.
LEMMA VerdictStep ==
  ASSUME RecoveryInv, [RecoveryNext]_allVars
  PROVE  RecoveryVerdict'
<1>0. /\ OutcomeInv /\ IInv /\ PollInv /\ PhaseInv /\ RecoveryVerdict
  BY DEF RecoveryInv, OutcomeInv
<1>1. (recovered = "yes" => PaidAt(ReceiverId(GuidedReceiver), immutableSlot))'
  BY WitnessStep DEF WitnessInv
<1>2. ASSUME recovered' = "no", NEW t \in Txs, Due(t)' PROVE FALSE
  <2>1. CASE RecoveryFails
    <3>1. phase = "recovery" /\ polled /\ volatileSlot >= Budget /\ UNCHANGED <<ledgerVars, start>>
      BY <2>1 DEF RecoveryFails, Budget, vars
    <3>2. Due(t)
      BY <1>2, <3>1, SameDue
    <3>3. volatileSlot < Budget
      BY <1>0, <3>1, <3>2 DEF PollInv, PollTimely
    <3>4. PICK v \in Nat, b \in Nat : v = volatileSlot /\ b = start
      BY <1>0, <3>1, Slots DEF PhaseInv
    <3> QED BY <3>1, <3>3, <3>4, LedgerAssumption DEF Budget, RecoveryEpochs
  <2>2. CASE ~RecoveryFails
    <3>1. recovered = "no"
      BY <1>2, <2>2
      DEF RecoveryNext, Testing, Recover, RecoveryChain, PollTake, PollMissing, PollObserve,
          PollFails, PollEnd, recoveryVars, allVars
    <3>2. UNCHANGED allVars
      BY <1>0, <2>2, <3>1
      DEF PhaseInv, RecoveryNext, Testing, Recover, RecoveryChain, PollTake, PollMissing,
          PollObserve, PollFails, PollEnd
    <3>3. UNCHANGED <<ledgerVars, start>>
      BY <3>2 DEF allVars, vars, recoveryVars
    <3>4. Due(t)
      BY <1>2, <3>3, SameDue
    <3> QED BY <1>0, <3>1, <3>4 DEF RecoveryVerdict, Due
  <2> QED BY <2>1, <2>2
<1>3. (recovered = "no" => ~ \E t \in Signed : /\ txReceiver[t] = GuidedReceiver
                                               /\ approvedAt[t] # NoSlot
                                               /\ approvedAt[t] <= start)'
  BY <1>2 DEF Due, Signed
<1> QED BY <1>1, <1>3 DEF RecoveryVerdict

LEMMA RecoveryStart == RecoveryInit => RecoveryInv
<1> SUFFICES ASSUME RecoveryInit PROVE RecoveryInv
  OBVIOUS
<1>1. Init /\ OutcomeInv
  BY OutcomeInit DEF RecoveryInit
<1>2. WindowInv
  <2>1. /\ volatileSlot = 0 /\ immutableSlot = 0 /\ Signed = {}
        /\ \A i \in Receivers : claim[i].file = "absent"
    BY <1>1, EmptyClaims DEF Init, LedgerInit, Signed
  <2> QED BY <2>1, LedgerAssumption DEF WindowInv
<1>3. GuidedKept
  BY <1>1 DEF Init, LedgerInit, GuidedKept, Signed
<1>4. PhaseInv /\ WitnessInv /\ PollInv /\ RecoveryVerdict
  BY DEF RecoveryInit, PhaseInv, WitnessInv, PollInv, RecoveryVerdict
<1> QED BY <1>1, <1>2, <1>3, <1>4 DEF RecoveryInv

\* The invariant holds through the faults, the kill of the drivers and the recovery.
THEOREM RecoveryInductive == RecoverySpec => []RecoveryInv
<1>1. RecoveryInv /\ [RecoveryNext]_allVars => RecoveryInv'
  BY RecoveryKeeps, PhaseStep, WitnessStep, PollStep, VerdictStep DEF RecoveryInv
<1> QED BY <1>1, RecoveryStart, PTL DEF RecoverySpec

\* treasury_withdrawal_recovered is never reported false for a withdrawal whose
\* votes were in time, nor true for one that the immutable ledger has not paid,
\* whatever faults came before and however polls fail and straddle boundaries.
THEOREM RecoveryIsRight == RecoverySpec => []RecoveryVerdict
<1>1. RecoveryInv => RecoveryVerdict
  BY DEF RecoveryInv
<1> QED BY <1>1, RecoveryInductive, PTL

\* No step of the recovery driver, nor the kill before it, takes a receiver from an
\* undecided withdrawal or releases one that is kept back.
THEOREM RecoveryImplementsPool == RecoverySpec => ImplementsReceiverPool
<1>1. RecoveryInit => Pool!PoolInit
  BY PoolStart DEF RecoveryInit
<1>2. RecoveryInv /\ [RecoveryNext]_allVars => [Pool!PoolNext]_(Pool!poolVars)
  <2> SUFFICES ASSUME RecoveryInv, [RecoveryNext]_allVars
               PROVE  [Pool!PoolNext]_(Pool!poolVars)
    OBVIOUS
  <2>1. CASE [Next]_vars
    BY <2>1, PoolStep DEF RecoveryInv
  <2>2. CASE Recover \/ PollTake(Recoverer)
    BY <2>2
    DEF Recover, PollTake, ledgerVars, Pool!poolVars, Reserved, Attached, Outcome, ReceiverId,
        Decision, Signed, Settled, LiveAt, PaidAt, SettlesIn, ExpiresAfter, EpochOf
  <2> QED BY <2>1, <2>2, WorkloadStep
<1>3. RecoverySpec => Pool!PoolInit /\ [][Pool!PoolNext]_(Pool!poolVars)
  BY <1>1, <1>2, RecoveryInductive, PTL DEF RecoverySpec
<1> QED BY <1>3 DEF ImplementsReceiverPool, Pool!PoolSpec

\* What holds of the lanes and of the attribution in the workload holds during the
\* recovery as well: its polls run the same observe().
THEOREM RecoveryKeepsLanes ==
    RecoverySpec => [](OutcomeAttributed /\ ExpiryLaneUnvoted /\ GuidedVotesKept)
<1>1. OutcomeInv => OutcomeAttributed
  BY DEF OutcomeInv, AttributionInv, Attributed, OutcomeAttributed, Paid
<1>2. RecoveryInv => OutcomeAttributed /\ ExpiryLaneUnvoted /\ GuidedVotesKept
  BY <1>1 DEF RecoveryInv, OutcomeInv
<1> QED BY <1>2, RecoveryInductive, PTL
=============================================================================

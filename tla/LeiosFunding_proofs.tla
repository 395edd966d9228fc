-------------------------- MODULE LeiosFunding_proofs --------------------------
(***************************************************************************)
(* The setup and the funding of the Leios payments, for any number of      *)
(* receivers, proposals, transfers and fan-outs: the markers are truthful, *)
(* one guided proposal is broadcast at most, the faucet serves one at a    *)
(* time and is not asked twice, and no input pays for two batches.         *)
(*                                                                         *)
(* SetupInv adds to the properties of the setup what has landed by each    *)
(* step of it, what the guided claim is at each step, and that a           *)
(* registration cannot be repeated, so that no second attempt gets as far  *)
(* as a claim.  FundingInv adds to those of the funding where a            *)
(* transaction can be for its bound, and that the record of a fan-out and  *)
(* the batch that it feeds are never both in the journal.                  *)
(***************************************************************************)
EXTENDS LeiosFunding, FiniteSetTheorems, TLAPS

Steps == {"off", "register", "special", "receivers", "payer", "payout", "sign", "journal",
          "broadcast", "confirm", "pool", "mark"}

SetupTypeOK ==
    /\ step \in Steps
    /\ claim \in [SetupReceivers -> Proposals \cup {Free, Unsigned}]
    /\ saved \in Proposals \cup {Unsigned}

Known == landed \cup inflight

\* Transactions follow those that they depend on.
OrderInv ==
    /\ \A p \in Proposals : Proposal(p) \in Known => Tx("receivers") \in landed
    /\ \A p \in Proposals : Votes(p) \in Known => Proposal(p) \in landed

\* What has landed when setup is at a step.
ProgressInv ==
    /\ Tx("register") \notin landed => step \in {"off", "register"}
    /\ special => Tx("special") \in landed
    /\ step \in {"confirm", "pool", "mark"} => Guided /\ Votes(GuidedId) \in landed
    /\ step = "mark" => Tx("pool") \in landed
    /\ SetupDone => step = "off"

\* No receiver but the guided one has a claim, and none has before the registration;
\* a proposal that may land is the one that the claim names.
GuidedInv ==
    /\ \A r \in SetupReceivers \ {1} : claim[r] = Free
    /\ Tx("register") \notin landed \/ step \in {"special", "receivers", "payer"} => claim[1] = Free
    /\ step = "payout" => claim[1] = Free \/ Guided
    /\ step \in {"sign", "journal"} => claim[1] = Unsigned /\ recv = {1}
    /\ step = "journal" => saved \in Proposals
    /\ step = "broadcast" => Guided /\ saved = claim[1]
    /\ step \notin {"sign", "journal", "broadcast"} => recv = {}
    /\ \A p \in Proposals : Proposal(p) \in Known => claim[1] = p

SetupInv ==
    /\ SetupTypeOK
    /\ OrderInv
    /\ ProgressInv
    /\ GuidedInv
    /\ MarkersTruthful
-----------------------------------------------------------------------------
(* The setup *)

\* The names of transactions are different.
LEMMA Names ==
  /\ \A a, b : Tx(a) = Tx(b) => a = b
  /\ \A p, q : Proposal(p) = Proposal(q) => p = q
  /\ \A p, q : Votes(p) = Votes(q) => p = q
  /\ \A p, q : Proposal(p) # Votes(q)
  /\ \A a, p : a \notin {"proposal", "votes"} => Tx(a) # Proposal(p) /\ Tx(a) # Votes(p)
  BY DEF Tx, Proposal, Votes

\* A transaction that a driver sends lands, or may land when it is valid.
Sends(tx) ==
    /\ landed \subseteq landed'
    /\ landed' \subseteq landed \cup {tx}
    /\ landed' \cup inflight' \subseteq Known \cup {tx}
    /\ tx \in landed' \cup inflight' => tx \in Known \/ Valid(tx)

\* A submission that returns, and one that fails.
LEMMA SubmitSends == ASSUME NEW tx, Submit(tx) \/ SubmitFails(tx) PROVE Sends(tx)
  BY DEF Submit, SubmitFails, Sends, Known

\* What the setup has sent stays in order when a step sends tx.
LEMMA OrderKept ==
  ASSUME OrderInv, NEW tx, Sends(tx) PROVE OrderInv'
<1>1. ASSUME NEW p \in Proposals, Proposal(p) \in Known' PROVE Tx("receivers") \in landed'
  <2>1. CASE Proposal(p) \in Known
    BY <2>1 DEF OrderInv, Sends
  <2>2. CASE Proposal(p) \notin Known
    <3>1. tx = Proposal(p) /\ Valid(tx)
      BY <1>1, <2>2 DEF Sends, Known
    <3> QED BY <3>1 DEF Valid, Proposal, Sends
  <2> QED BY <2>1, <2>2
<1>2. ASSUME NEW p \in Proposals, Votes(p) \in Known' PROVE Proposal(p) \in landed'
  <2>1. CASE Votes(p) \in Known
    BY <2>1 DEF OrderInv, Sends
  <2>2. CASE Votes(p) \notin Known
    <3>1. tx = Votes(p) /\ Valid(tx)
      BY <1>2, <2>2 DEF Sends, Known
    <3> QED BY <3>1 DEF Valid, Votes, Sends
  <2> QED BY <2>1, <2>2
<1> QED BY <1>1, <1>2 DEF OrderInv

\* ... and when a step sends nothing, or what was sent lands or is dropped.
LEMMA OrderFrame ==
  ASSUME OrderInv, landed \subseteq landed', Known' \subseteq Known PROVE OrderInv'
  BY DEF OrderInv

\* The invariant of the setup holds before the first attempt.
LEMMA SetupInvInit == SetupInit => SetupInv
<1> SUFFICES ASSUME SetupInit PROVE SetupInv
  OBVIOUS
<1> USE SetupAssumption DEF SetupInit
<1>1. SetupTypeOK
  BY DEF SetupTypeOK, Steps
<1>2. OrderInv /\ ProgressInv /\ MarkersTruthful
  BY DEF OrderInv, ProgressInv, MarkersTruthful, Known, SetupDone
<1>3. GuidedInv
  BY DEF GuidedInv, Known
<1> QED BY <1>1, <1>2, <1>3 DEF SetupInv

\* What Guided means once the claim has its type.
LEMMA ClaimCases ==
  ASSUME SetupTypeOK
  PROVE  claim[1] \in Proposals \/ claim[1] = Free \/ claim[1] = Unsigned
  BY SetupAssumption DEF SetupTypeOK

\* A step of the chain keeps the invariant.
LEMMA SetupChainKeeps == SetupInv /\ (SetupLand \/ SetupDrop \/ UNCHANGED setupVars) => SetupInv'
<1> SUFFICES ASSUME SetupInv, SetupLand \/ SetupDrop \/ UNCHANGED setupVars PROVE SetupInv'
  OBVIOUS
<1>1. /\ landed \subseteq landed' /\ Known' \subseteq Known
      /\ UNCHANGED <<markers, step, special, recv, claim, saved>>
  BY DEF SetupLand, SetupDrop, setupVars, Known
<1>2. SetupTypeOK'
  BY <1>1 DEF SetupInv, SetupTypeOK
<1>3. OrderInv'
  BY <1>1, OrderFrame DEF SetupInv
<1>4. ProgressInv'
  BY <1>1 DEF SetupInv, ProgressInv, SetupDone, Guided, GuidedId
<1>5. GuidedInv'
  BY <1>1 DEF SetupInv, GuidedInv, Guided
<1>6. MarkersTruthful'
  BY <1>1 DEF SetupInv, MarkersTruthful, SetupDone, Guided, GuidedId
<1> QED BY <1>2, <1>3, <1>4, <1>5, <1>6 DEF SetupInv

\* An attempt starts, or ends without the marker; what it sent last may land.
LEMMA SetupAbortKeeps ==
  ASSUME SetupInv,
         \/ SetupStart \/ SetupAbort
         \/ Register /\ NotRegistered
         \/ (FundPayer \/ FundPool) /\ Abort
  PROVE  SetupInv'
<1>1. PICK tx \in {Tx("register"), Tx("payer"), Tx("pool")} :
        \/ Sends(tx)
        \/ UNCHANGED <<landed, inflight>>
  BY SubmitSends DEF SetupStart, SetupAbort, Register, FundPayer, FundPool
<1>2. landed \subseteq landed'
  BY <1>1 DEF Sends
<1>3. \A p \in Proposals : Proposal(p) \in Known' => Proposal(p) \in Known
  BY <1>1, Names DEF Sends, Known
<1>4. /\ UNCHANGED <<markers, claim, saved>>
      /\ ~SetupDone
      /\ recv' = {}
      /\ special' => special
      /\ step' \in {"off", "register"}
  BY DEF SetupStart, SetupAbort, Register, FundPayer, FundPool, Abort, NotRegistered, Goto,
         SetupInv, ProgressInv, GuidedInv
<1>5. SetupTypeOK'
  BY <1>4 DEF SetupInv, SetupTypeOK, Steps
<1>6. OrderInv'
  <2>1. CASE Sends(tx)
    BY <2>1, OrderKept DEF SetupInv
  <2>2. CASE UNCHANGED <<landed, inflight>>
    BY <2>2, OrderFrame DEF SetupInv, Known
  <2> QED BY <1>1, <2>1, <2>2
<1>7. ProgressInv'
  BY <1>2, <1>4 DEF SetupInv, ProgressInv, SetupDone
<1>8. GuidedInv'
  BY <1>2, <1>3, <1>4 DEF SetupInv, GuidedInv
<1>9. MarkersTruthful'
  BY <1>2, <1>4 DEF SetupInv, MarkersTruthful, SetupDone
<1> QED BY <1>5, <1>6, <1>7, <1>8, <1>9 DEF SetupInv

\* The registration succeeds at most once, and before any claim.
LEMMA RegisterKeeps == ASSUME SetupInv, Register PROVE SetupInv'
<1>1. CASE NotRegistered
  BY <1>1, SetupAbortKeeps
<1>2. CASE ~NotRegistered
  <2>1. /\ Submit(Tx("register")) /\ step = "register" /\ step' = "special"
        /\ UNCHANGED <<markers, special, recv, claim, saved>>
    BY <1>2 DEF Register, Goto
  <2>2. Tx("register") \notin landed /\ Tx("register") \in landed' /\ landed \subseteq landed'
    BY <2>1 DEF Submit, Valid
  <2>3. \A p \in Proposals : Proposal(p) \in Known' => Proposal(p) \in Known
    BY <2>1, Names DEF Submit, Known
  <2>4. ~SetupDone
    BY <2>1 DEF SetupInv, ProgressInv
  <2>5. SetupTypeOK'
    BY <2>1 DEF SetupInv, SetupTypeOK, Steps
  <2>6. OrderInv'
    BY <2>1, SubmitSends, OrderKept DEF SetupInv
  <2>7. ProgressInv'
    BY <2>1, <2>2, <2>4 DEF SetupInv, ProgressInv, SetupDone
  <2>8. GuidedInv'
    BY <2>1, <2>2, <2>3 DEF SetupInv, GuidedInv
  <2>9. MarkersTruthful'
    BY <2>1, <2>2, <2>4 DEF SetupInv, MarkersTruthful, SetupDone
  <2> QED BY <2>5, <2>6, <2>7, <2>8, <2>9 DEF SetupInv
<1> QED BY <1>1, <1>2

\* The transactions before the payout, which need no claim.
LEMMA EarlyStepsKeep ==
  ASSUME SetupInv, SetupSpecialDReps \/ SetupReceiverPool \/ (FundPayer /\ ~Abort)
  PROVE  SetupInv'
<1>1. PICK tx \in {Tx("special"), Tx("receivers"), Tx("payer")} :
        \/ Sends(tx)
        \/ UNCHANGED <<landed, inflight>>
  BY SubmitSends DEF SetupSpecialDReps, SetupReceiverPool, FundPayer
<1>2. landed \subseteq landed'
  BY <1>1 DEF Sends
<1>3. \A p \in Proposals : Proposal(p) \in Known' => Proposal(p) \in Known
  BY <1>1, Names DEF Sends, Known
<1>4. /\ UNCHANGED <<recv, claim, saved>>
      /\ step \in {"special", "receivers", "payer"}
      /\ step' \in {"receivers", "payer", "payout"}
      /\ special' /\ ~special => Tx("special") \in landed'
      /\ markers' \in {markers, markers \cup {"receivers"}}
      /\ markers' # markers => Tx("receivers") \in landed'
  BY DEF SetupSpecialDReps, SetupReceiverPool, FundPayer, Goto, Submit
<1>5. /\ ~SetupDone /\ ~SetupDone'
      /\ "special" \in markers' => "special" \in markers
      /\ "receivers" \in markers' => "receivers" \in markers \/ Tx("receivers") \in landed'
  BY <1>4 DEF SetupInv, ProgressInv, SetupDone
<1>6. SetupTypeOK'
  BY <1>4 DEF SetupInv, SetupTypeOK, Steps
<1>7. OrderInv'
  <2>1. CASE Sends(tx)
    BY <2>1, OrderKept DEF SetupInv
  <2>2. CASE UNCHANGED <<landed, inflight>>
    BY <2>2, OrderFrame DEF SetupInv, Known
  <2> QED BY <1>1, <2>1, <2>2
<1>8. ProgressInv'
  <2>1. Tx("register") \in landed'
    BY <1>2, <1>4 DEF SetupInv, ProgressInv
  <2>2. special' => Tx("special") \in landed'
    <3>1. CASE special
      BY <3>1, <1>2 DEF SetupInv, ProgressInv
    <3>2. CASE ~special
      BY <3>2, <1>4
    <3> QED BY <3>1, <3>2
  <2> QED BY <2>1, <2>2, <1>4, <1>5 DEF ProgressInv
<1>9. GuidedInv'
  <2>1. claim[1] = Free /\ recv = {}
    BY <1>4 DEF SetupInv, GuidedInv
  <2> QED BY <2>1, <1>3, <1>4 DEF SetupInv, GuidedInv
<1>10. MarkersTruthful'
  BY <1>2, <1>5 DEF SetupInv, MarkersTruthful
<1> QED BY <1>6, <1>7, <1>8, <1>9, <1>10 DEF SetupInv

\* create() takes receiver 1 and no other, and only when no proposal is out.
LEMMA CreateClaimKeeps == ASSUME SetupInv, CreateClaim PROVE SetupInv'
<1> USE SetupAssumption
<1>1. /\ UNCHANGED <<markers, special, saved, landed, inflight>>
      /\ step = "payout" /\ step' = "sign" /\ ~Guided
  BY DEF CreateClaim, Goto
<1>2. claim \in [SetupReceivers -> Proposals \cup {Free, Unsigned}]
  BY DEF SetupInv, SetupTypeOK
<1>3. claim[1] = Free
  BY <1>1 DEF SetupInv, GuidedInv
<1>4. claim' = [claim EXCEPT ![1] = Unsigned] /\ recv' = {1}
  <2>1. PICK r \in SetupReceivers :
          /\ \A q \in SetupReceivers : q < r => claim[q] # Free
          /\ claim' = [claim EXCEPT ![r] = Unsigned]
          /\ recv' = {r}
    BY DEF CreateClaim
  <2>2. r = 1
    <3>1. ~(1 < r)
      BY <2>1, <1>3
    <3>2. r \in Nat \ {0}
      OBVIOUS
    <3> QED BY <3>1, <3>2
  <2> QED BY <2>1, <2>2
<1>5. claim'[1] = Unsigned /\ \A r \in SetupReceivers \ {1} : claim'[r] = claim[r]
  BY <1>2, <1>4
<1>6. Known' = Known
  BY <1>1 DEF Known
<1>7. \A p \in Proposals : Proposal(p) \notin Known
  BY <1>3 DEF SetupInv, GuidedInv
<1>8. ~SetupDone
  BY <1>1 DEF SetupInv, ProgressInv
<1>9. SetupTypeOK'
  BY <1>1, <1>2, <1>4 DEF SetupInv, SetupTypeOK, Steps
<1>10. OrderInv'
  BY <1>1, <1>6, OrderFrame DEF SetupInv
<1>11. ProgressInv'
  BY <1>1, <1>8 DEF SetupInv, ProgressInv, SetupDone
<1>12. GuidedInv'
  BY <1>1, <1>4, <1>5, <1>6, <1>7, <1>11 DEF SetupInv, GuidedInv, ProgressInv
<1>13. MarkersTruthful'
  BY <1>1, <1>8 DEF SetupInv, MarkersTruthful, SetupDone
<1> QED BY <1>9, <1>10, <1>11, <1>12, <1>13 DEF SetupInv

\* The bytes are kept, the claim names them, or the claim is released.
LEMMA CreateStepsKeep ==
  ASSUME SetupInv, CreateSign \/ CreateJournal \/ CreateFail
  PROVE  SetupInv'
<1> USE SetupAssumption
<1>1. /\ UNCHANGED <<markers, special, landed, inflight>>
      /\ step \in {"sign", "journal"}
      /\ step' \in {"journal", "broadcast", "payout"}
  BY DEF CreateSign, CreateJournal, CreateFail, Goto
<1>2. /\ claim \in [SetupReceivers -> Proposals \cup {Free, Unsigned}]
      /\ claim[1] = Unsigned /\ recv = {1}
  BY <1>1 DEF SetupInv, SetupTypeOK, GuidedInv
<1>3. Known' = Known
  BY <1>1 DEF Known
<1>4. \A p \in Proposals : Proposal(p) \notin Known
  BY <1>2 DEF SetupInv, GuidedInv
<1>5. ~SetupDone
  BY <1>1 DEF SetupInv, ProgressInv
<1>6. /\ claim' \in [SetupReceivers -> Proposals \cup {Free, Unsigned}]
      /\ saved' \in Proposals \cup {Unsigned}
      /\ \A r \in SetupReceivers \ {1} : claim'[r] = claim[r]
      /\ \/ step' = "journal" /\ claim'[1] = Unsigned /\ recv' = {1} /\ saved' \in Proposals
         \/ step' = "broadcast" /\ claim'[1] = saved' /\ saved' \in Proposals
         \/ step' = "payout" /\ claim'[1] = Free /\ recv' = {}
  <2>1. CASE CreateSign
    BY <2>1, <1>2 DEF CreateSign, Goto, NewProposals
  <2>2. CASE CreateJournal
    <3>1. saved \in Proposals /\ saved' = saved
      BY <2>2 DEF CreateJournal, SetupInv, GuidedInv
    <3>2. claim' = [r \in SetupReceivers |-> IF r = 1 THEN saved ELSE claim[r]]
      BY <2>2, <1>2 DEF CreateJournal
    <3>3. step' = "broadcast" /\ recv' = recv
      BY <2>2 DEF CreateJournal, Goto
    <3> QED BY <3>1, <3>2, <3>3, <1>2
  <2>3. CASE CreateFail
    <3>1. claim' = [r \in SetupReceivers |-> IF r = 1 THEN Free ELSE claim[r]]
      BY <2>3, <1>2 DEF CreateFail
    <3>2. step' = "payout" /\ recv' = {} /\ saved' = saved /\ saved \in Proposals \cup {Unsigned}
      BY <2>3 DEF CreateFail, Goto, SetupInv, SetupTypeOK
    <3> QED BY <3>1, <3>2, <1>2
  <2> QED BY <2>1, <2>2, <2>3
<1>7. SetupTypeOK'
  BY <1>1, <1>6 DEF SetupTypeOK, Steps
<1>8. OrderInv'
  BY <1>1, <1>3, OrderFrame DEF SetupInv
<1>9. ProgressInv'
  BY <1>1, <1>5 DEF SetupInv, ProgressInv, SetupDone
<1>10. GuidedInv'
  BY <1>1, <1>3, <1>4, <1>6, <1>9 DEF SetupInv, GuidedInv, ProgressInv, Guided
<1>11. MarkersTruthful'
  BY <1>1, <1>5 DEF SetupInv, MarkersTruthful, SetupDone
<1> QED BY <1>7, <1>8, <1>9, <1>10, <1>11 DEF SetupInv

\* The payout sends the proposal that the claim names, and then its votes.
LEMMA PayoutStepsKeep ==
  ASSUME SetupInv, CreateBroadcast \/ Rebroadcast \/ CastVotes
  PROVE  SetupInv'
<1>1. /\ UNCHANGED <<markers, special, claim, saved>>
      /\ step \in {"broadcast", "payout"} /\ step' = "payout" /\ Guided
      /\ recv' = {}
  BY DEF CreateBroadcast, Rebroadcast, CastVotes, Goto, SetupInv, GuidedInv
<1>2. PICK tx \in {Proposal(claim[1]), Votes(claim[1])} : Sends(tx)
  BY SubmitSends DEF CreateBroadcast, Rebroadcast, CastVotes, SetupInv, GuidedInv, ToSendAgain, GuidedId
<1>3. landed \subseteq landed'
  BY <1>2 DEF Sends
<1>4. \A p \in Proposals : Proposal(p) \in Known' => Proposal(p) \in Known \/ p = claim[1]
  BY <1>2, Names DEF Sends, Known
<1>5. ~SetupDone
  BY <1>1 DEF SetupInv, ProgressInv
<1>6. SetupTypeOK'
  BY <1>1 DEF SetupInv, SetupTypeOK, Steps
<1>7. OrderInv'
  BY <1>2, OrderKept DEF SetupInv
<1>8. ProgressInv'
  BY <1>1, <1>3, <1>5 DEF SetupInv, ProgressInv, SetupDone
<1>9. GuidedInv'
  <2>1. Tx("register") \in landed'
    BY <1>8, <1>1 DEF ProgressInv
  <2> QED BY <2>1, <1>1, <1>4 DEF SetupInv, GuidedInv, Guided
<1>10. MarkersTruthful'
  BY <1>1, <1>3, <1>5 DEF SetupInv, MarkersTruthful, SetupDone
<1> QED BY <1>6, <1>7, <1>8, <1>9, <1>10 DEF SetupInv

\* The end of a setup: the markers are written when what they stand for has landed.
LEMMA LateStepsKeep ==
  ASSUME SetupInv, PayoutReady \/ ConfirmSpecialDReps \/ (FundPool /\ ~Abort) \/ MarkSetup
  PROVE  SetupInv'
<1>1. /\ UNCHANGED <<recv, claim, saved>>
      /\ step \in {"payout", "confirm", "pool", "mark"}
      /\ Guided /\ Votes(GuidedId) \in landed
  BY DEF PayoutReady, VotesRecorded, ConfirmSpecialDReps, FundPool, MarkSetup, SetupInv, ProgressInv, Goto
<1>2. Sends(Tx("pool")) \/ UNCHANGED <<landed, inflight>>
  BY SubmitSends DEF PayoutReady, ConfirmSpecialDReps, FundPool, MarkSetup
<1>3. landed \subseteq landed'
  BY <1>2 DEF Sends
<1>4. \A p \in Proposals : Proposal(p) \in Known' => Proposal(p) \in Known
  BY <1>2, Names DEF Sends, Known
<1>5. /\ step' \in {"confirm", "pool", "mark", "off"}
      /\ step' = "mark" => Tx("pool") \in landed'
      /\ special' => special
      /\ "receivers" \in markers' => "receivers" \in markers
      /\ "special" \in markers' => "special" \in markers \/ special
      /\ SetupDone' => SetupDone \/ (step = "mark" /\ step' = "off")
  BY DEF PayoutReady, ConfirmSpecialDReps, FundPool, MarkSetup, Goto, Submit, SetupDone
<1>6. Tx("register") \in landed /\ ~SetupDone
  BY <1>1 DEF SetupInv, ProgressInv
<1>7. SetupTypeOK'
  BY <1>1, <1>5 DEF SetupInv, SetupTypeOK, Steps
<1>8. OrderInv'
  <2>1. CASE Sends(Tx("pool"))
    BY <2>1, OrderKept DEF SetupInv
  <2>2. CASE UNCHANGED <<landed, inflight>>
    BY <2>2, OrderFrame DEF SetupInv, Known
  <2> QED BY <1>2, <2>1, <2>2
<1>9. ProgressInv'
  BY <1>1, <1>3, <1>5, <1>6 DEF SetupInv, ProgressInv, Guided, GuidedId
<1>10. GuidedInv'
  BY <1>1, <1>3, <1>4, <1>5, <1>6 DEF SetupInv, GuidedInv, Guided
<1>11. MarkersTruthful'
  <2>1. SetupDone' => {Tx("register"), Tx("receivers"), Tx("pool"), Proposal(GuidedId)} \subseteq landed
    <3>1. SetupDone' => step = "mark"
      BY <1>5, <1>6
    <3>2. Proposal(GuidedId) \in landed /\ Tx("receivers") \in landed
      BY <1>1 DEF SetupInv, OrderInv, Known, Guided, GuidedId
    <3> QED BY <3>1, <3>2, <1>6 DEF SetupInv, ProgressInv
  <2>2. "special" \in markers' => Tx("special") \in landed'
    BY <1>3, <1>5 DEF SetupInv, MarkersTruthful, ProgressInv
  <2>3. "receivers" \in markers' => Tx("receivers") \in landed'
    BY <1>3, <1>5 DEF SetupInv, MarkersTruthful
  <2> QED BY <2>1, <2>2, <2>3, <1>1, <1>3 DEF MarkersTruthful, Guided, GuidedId
<1> QED BY <1>7, <1>8, <1>9, <1>10, <1>11 DEF SetupInv

\* Every step of the setup keeps its invariant.
LEMMA SetupInvStep == SetupInv /\ [SetupNext]_setupVars => SetupInv'
<1> SUFFICES ASSUME SetupInv, [SetupNext]_setupVars PROVE SetupInv'
  OBVIOUS
<1>1. CASE SetupLand \/ SetupDrop \/ UNCHANGED setupVars
  BY <1>1, SetupChainKeeps
<1>2. CASE SetupStart \/ SetupAbort \/ ((FundPayer \/ FundPool) /\ Abort)
  BY <1>2, SetupAbortKeeps
<1>3. CASE Register
  BY <1>3, RegisterKeeps
<1>4. CASE SetupSpecialDReps \/ SetupReceiverPool \/ (FundPayer /\ ~Abort)
  BY <1>4, EarlyStepsKeep
<1>5. CASE CreateClaim
  BY <1>5, CreateClaimKeeps
<1>6. CASE CreateSign \/ CreateJournal \/ CreateFail
  BY <1>6, CreateStepsKeep
<1>7. CASE CreateBroadcast \/ Rebroadcast \/ CastVotes
  BY <1>7, PayoutStepsKeep
<1>8. CASE PayoutReady \/ ConfirmSpecialDReps \/ (FundPool /\ ~Abort) \/ MarkSetup
  BY <1>8, LateStepsKeep
<1> QED
  BY <1>1, <1>2, <1>3, <1>4, <1>5, <1>6, <1>7, <1>8 DEF SetupNext, SetupProgress
-----------------------------------------------------------------------------
(* The funding *)

Places == {"none", "volatile", "immutable"}

Journals == [transfer : Transfers \cup {NoTx}, fanout : Fanouts \cup {NoTx}, batches : SUBSET Fanouts]

FundingTypeOK ==
    /\ place \in [Txs -> Places]
    /\ bound \in [Txs -> Bounds]
    /\ paid \in [Fanouts -> Nat]
    /\ batchBound \in [Fanouts -> Bounds]
    /\ journal \in Journals
    /\ mem \in Journals
    /\ outputs \subseteq Txs
    /\ current \in Txs \cup {NoTx}

\* A rollback reopens no transaction that the journal has given up.
PlaceInv == \A t \in Txs : place[t] = "volatile" => bound[t] \in {"open", "passed"}

\* Under the lock the copy is the journal, until the tick gives a fan-out up.
MemInv ==
    /\ pc = "idle" => mem = EmptyJournal
    /\ pc # "idle" => /\ SetupDone
                      /\ mem.transfer = journal.transfer
                      /\ mem.batches = journal.batches
                      /\ mem.fanout = journal.fanout \/ (pc = "end" /\ mem.fanout = NoTx)

\* A fan-out has a record or a batch, and neither before it is signed.
FanoutInv ==
    /\ journal.fanout # NoTx => /\ bound[journal.fanout] # "unsigned"
                                /\ journal.fanout \notin journal.batches
                                /\ paid[journal.fanout] = 0
    /\ \A x \in Fanouts : bound[x] = "unsigned" => x \notin journal.batches /\ paid[x] = 0
    /\ pc = "pay" => current \in journal.batches /\ paid[current] = 0

FundingInv ==
    /\ FundingTypeOK
    /\ PlaceInv
    /\ MemInv
    /\ FanoutInv
    /\ OneOpenTransfer
    /\ BatchesIndependent

Inv == SetupInv /\ FundingInv

\* The updates that the driver makes leave a journal.
LEMMA JournalUpdates ==
  \A j \in Journals :
    /\ \A f \in Transfers : [j EXCEPT !.transfer = f] \in Journals
    /\ \A x \in Fanouts \cup {NoTx} : [j EXCEPT !.fanout = x] \in Journals
    /\ \A x \in Fanouts : [j EXCEPT !.batches = @ \cup {x}, !.fanout = NoTx] \in Journals
<1> SUFFICES ASSUME NEW j \in Journals
             PROVE  /\ \A f \in Transfers : [j EXCEPT !.transfer = f] \in Journals
                    /\ \A x \in Fanouts \cup {NoTx} : [j EXCEPT !.fanout = x] \in Journals
                    /\ \A x \in Fanouts : [j EXCEPT !.batches = @ \cup {x}, !.fanout = NoTx] \in Journals
  OBVIOUS
<1>1. \A f \in Transfers : [j EXCEPT !.transfer = f] \in Journals
  BY DEF Journals
<1>2. \A x \in Fanouts \cup {NoTx} : [j EXCEPT !.fanout = x] \in Journals
  BY DEF Journals
<1>3. \A x \in Fanouts : [j EXCEPT !.batches = @ \cup {x}, !.fanout = NoTx] \in Journals
  BY DEF Journals
<1> QED BY <1>1, <1>2, <1>3

\* The invariant of the funding holds before the first tick.
LEMMA FundingInvInit == Init => FundingInv
<1> SUFFICES ASSUME Init PROVE FundingInv
  OBVIOUS
<1> USE FundingAssumption DEF Init
<1>1. EmptyJournal \in Journals
  BY DEF EmptyJournal, Journals
<1>2. FundingTypeOK
  BY <1>1 DEF FundingTypeOK, Places, Bounds
<1>3. PlaceInv /\ OneOpenTransfer
  BY DEF PlaceInv, OneOpenTransfer, Txs
<1>4. MemInv
  BY DEF MemInv
<1>5. FanoutInv /\ BatchesIndependent
  BY DEF FanoutInv, BatchesIndependent, EmptyJournal
<1> QED BY <1>2, <1>3, <1>4, <1>5 DEF FundingInv

\* What the chain does: the lock and the journal are not touched, a bound that the
\* journal counts on does not become unsigned, and none is opened but one that
\* had not passed the immutable tip.
ChainStep ==
    /\ UNCHANGED <<journal, pc, mem, current>>
    /\ place' \in [Txs -> Places] /\ bound' \in [Txs -> Bounds]
    /\ paid' \in [Fanouts -> Nat] /\ batchBound' \in [Fanouts -> Bounds]
    /\ outputs' \subseteq Txs
    /\ \A t \in Txs : bound'[t] \in {"open", "passed"} => bound[t] \in {"open", "passed"}
    /\ \A t \in Txs : bound'[t] = "unsigned" =>
          \/ bound[t] = "unsigned"
          \/ /\ t \notin {journal.transfer, journal.fanout, mem.fanout, current}
             /\ t \in Fanouts => t \notin journal.batches /\ paid'[t] = 0
    /\ \A x \in Fanouts : paid'[x] \in {paid[x], 0}
    /\ \A x \in Fanouts : batchBound[x] = "final" => batchBound'[x] = "final" \/ paid'[x] = 0

\* Every step of the chain is such a step.
LEMMA ChainSteps == FundingInv /\ Chain => ChainStep /\ PlaceInv'
<1> SUFFICES ASSUME FundingInv, Chain PROVE ChainStep /\ PlaceInv'
  OBVIOUS
<1> USE FundingAssumption DEF FundingInv, FundingTypeOK, Places, Bounds
<1>1. CASE Rollback
  <2>1. PICK dropped \in SUBSET {t \in Txs : place[t] = "volatile"},
             reopened \in SUBSET {t \in Txs : bound[t] = "passed"} :
          /\ place' = [t \in Txs |-> IF t \in dropped THEN "none" ELSE place[t]]
          /\ bound' = [t \in Txs |-> IF t \in dropped \cup reopened THEN "open" ELSE bound[t]]
    BY <1>1 DEF Rollback
  <2>2. UNCHANGED <<journal, pc, mem, current, outputs, paid, batchBound>>
    BY <1>1 DEF Rollback, batchVars, tickVars
  <2>3. \A t \in Txs : place'[t] = "volatile" => bound'[t] \in {"open", "passed"}
    BY <2>1 DEF PlaceInv
  <2>4. \A t \in Txs : bound'[t] \in {"open", "passed"} => bound[t] \in {"open", "passed"}
    BY <2>1 DEF PlaceInv
  <2>5. place' \in [Txs -> Places] /\ bound' \in [Txs -> Bounds]
    BY <2>1
  <2>6. \A t \in Txs : bound'[t] = "unsigned" => bound[t] = "unsigned"
    BY <2>1
  <2> QED BY <2>2, <2>3, <2>4, <2>5, <2>6 DEF ChainStep, PlaceInv
<1>2. ASSUME NEW t \in Txs, Include(t) \/ Settle(t) PROVE ChainStep /\ PlaceInv'
  <2>1. /\ UNCHANGED <<journal, pc, mem, current, outputs, paid, batchBound, bound>>
        /\ \E p \in Places : place' = [place EXCEPT ![t] = p]
        /\ place'[t] = "volatile" => bound[t] = "open"
    BY <1>2 DEF Include, Settle, Includable, batchVars, tickVars
  <2> QED BY <2>1 DEF ChainStep, PlaceInv
<1>3. ASSUME NEW t \in Txs, Lapse(t) \/ Finalise(t) PROVE ChainStep /\ PlaceInv'
  <2>1. /\ UNCHANGED <<journal, pc, mem, current, outputs, paid, batchBound, place>>
        /\ \/ bound' = [bound EXCEPT ![t] = "passed"]
           \/ bound' = [bound EXCEPT ![t] = "final"] /\ place[t] # "volatile"
        /\ bound[t] \in {"open", "passed"}
    BY <1>3 DEF Lapse, Finalise, batchVars, tickVars
  <2> QED BY <2>1 DEF ChainStep, PlaceInv
<1>4. ASSUME NEW t \in Txs, Forget(t) PROVE ChainStep /\ PlaceInv'
  <2>1. /\ UNCHANGED <<journal, pc, mem, current>>
        /\ outputs' \subseteq outputs
        /\ bound[t] = "final"
        /\ t \notin {journal.transfer, journal.fanout, mem.fanout, current}
        /\ t \in Fanouts => t \notin journal.batches
        /\ place' = [place EXCEPT ![t] = "none"]
        /\ bound' = [bound EXCEPT ![t] = "unsigned"]
    BY <1>4 DEF Forget
  <2>2. /\ paid' = [x \in Fanouts |-> IF x = t THEN 0 ELSE paid[x]]
        /\ batchBound' = [x \in Fanouts |-> IF x = t THEN "unsigned" ELSE batchBound[x]]
    BY <1>4 DEF Forget
  <2>3. place' \in [Txs -> Places] /\ bound' \in [Txs -> Bounds]
    BY <2>1
  <2>4. \A u \in Txs : u # t => place'[u] = place[u] /\ bound'[u] = bound[u]
    BY <2>1
  <2>5. place'[t] = "none" /\ bound'[t] = "unsigned"
    BY <2>1
  <2>6. paid' \in [Fanouts -> Nat] /\ batchBound' \in [Fanouts -> Bounds]
    BY <2>2
  <2>7. \A x \in Fanouts : IF x = t THEN paid'[x] = 0
                           ELSE paid'[x] = paid[x] /\ batchBound'[x] = batchBound[x]
    BY <2>2
  <2>8. PlaceInv'
    BY <2>4, <2>5 DEF PlaceInv
  <2> QED BY <2>1, <2>3, <2>4, <2>5, <2>6, <2>7, <2>8 DEF ChainStep
<1>5. ASSUME NEW x \in Fanouts, BatchExpires(x) PROVE ChainStep /\ PlaceInv'
  <2>1. /\ UNCHANGED <<journal, pc, mem, current, outputs, paid, bound, place>>
        /\ batchBound' = [batchBound EXCEPT ![x] = "final"]
    BY <1>5 DEF BatchExpires, chainVars, tickVars
  <2> QED BY <2>1 DEF ChainStep, PlaceInv
<1> QED BY <1>1, <1>2, <1>3, <1>4, <1>5 DEF Chain, Time

\* ... and keeps the invariant.
LEMMA ChainKeeps ==
  ASSUME FundingInv, Chain, UNCHANGED setupVars PROVE FundingInv'
<1> USE FundingAssumption
<1>1. ChainStep /\ PlaceInv'
  BY ChainSteps
<1>2. FundingTypeOK'
  BY <1>1 DEF FundingInv, FundingTypeOK, ChainStep
<1>3. MemInv'
  BY <1>1 DEF FundingInv, MemInv, ChainStep, setupVars, SetupDone
<1>4. FanoutInv'
  <2>1. /\ journal.fanout \in Fanouts \cup {NoTx}
        /\ Fanouts \subseteq Txs
    BY DEF FundingInv, FundingTypeOK, Journals, Txs
  <2>2. journal.fanout # NoTx => bound'[journal.fanout] # "unsigned" /\ paid'[journal.fanout] = 0
    BY <1>1, <2>1 DEF FundingInv, FanoutInv, ChainStep
  <2>3. ASSUME NEW x \in Fanouts, bound'[x] = "unsigned"
        PROVE  x \notin journal.batches /\ paid'[x] = 0
    BY <1>1, <2>1, <2>3 DEF FundingInv, FanoutInv, ChainStep
  <2>4. pc = "pay" => current \in journal.batches /\ paid'[current] = 0
    <3>1. journal.batches \subseteq Fanouts
      BY DEF FundingInv, FundingTypeOK, Journals
    <3> QED BY <3>1, <1>1 DEF FundingInv, FanoutInv, ChainStep
  <2>5. UNCHANGED <<journal, pc, current>>
    BY <1>1 DEF ChainStep
  <2> QED BY <1>1, <2>2, <2>3, <2>4, <2>5 DEF FundingInv, FanoutInv
<1>5. OneOpenTransfer'
  BY <1>1 DEF FundingInv, OneOpenTransfer, ChainStep, Txs
<1>6. BatchesIndependent'
  <2>1. ASSUME NEW x \in Fanouts, paid'[x] > 0
        PROVE  paid'[x] = 1 /\ (x \in journal.batches \/ batchBound'[x] = "final")
    <3>1. paid'[x] = paid[x] /\ paid'[x] # 0
      BY <1>1, <2>1 DEF ChainStep
    <3> QED BY <1>1, <2>1, <3>1 DEF FundingInv, BatchesIndependent, ChainStep
  <2> QED BY <1>1, <2>1 DEF BatchesIndependent, ChainStep
<1> QED BY <1>1, <1>2, <1>3, <1>4, <1>5, <1>6 DEF FundingInv

\* The parts of the invariant that the places and bounds do not matter for, when a
\* step of the driver leaves the journal, the payments and the bounds alone.
LEMMA QuietKeeps ==
  ASSUME FundingInv, UNCHANGED <<place, bound, batchVars, journal, setupVars>>
  PROVE  PlaceInv' /\ OneOpenTransfer' /\ BatchesIndependent'
<1>1. PlaceInv'
  BY DEF FundingInv, PlaceInv
<1>2. OneOpenTransfer'
  BY DEF FundingInv, OneOpenTransfer
<1>3. BatchesIndependent'
  BY DEF FundingInv, BatchesIndependent, batchVars
<1> QED BY <1>1, <1>2, <1>3

\* The steps of a tick that write neither the journal nor a payment.
LEMMA ReadingKeeps ==
  ASSUME FundingInv, UNCHANGED setupVars,
         TickStart \/ ReadOutputs \/ Send \/ Resend \/ GiveUpFanout \/ Crash
  PROVE  FundingInv'
<1> USE FundingAssumption
<1>1. UNCHANGED <<place, bound, batchVars, journal, setupVars>>
  BY DEF TickStart, ReadOutputs, Send, Resend, GiveUpFanout, Crash, chainVars, batchVars
<1>2. PlaceInv' /\ OneOpenTransfer' /\ BatchesIndependent'
  BY <1>1, QuietKeeps
<1>3. EmptyJournal \in Journals
  BY DEF EmptyJournal, Journals
<1>4. journal \in Journals /\ mem \in Journals
  BY DEF FundingInv, FundingTypeOK
<1>5. MemInv
  BY DEF FundingInv
<1>6. UNCHANGED markers
  BY DEF setupVars
<1>7. mem' \in Journals /\ MemInv'
  <2>1. CASE TickStart
    BY <2>1, <1>1, <1>4, <1>6 DEF TickStart, MarkerExists, MemInv, SetupDone
  <2>2. CASE ReadOutputs \/ Send \/ Resend
    <3>1. UNCHANGED <<mem, journal>> /\ pc \in {"outputs", "send", "inputs"} /\ pc' # "idle"
      BY <2>2 DEF ReadOutputs, Send, Resend
    <3> QED BY <3>1, <1>4, <1>5, <1>6 DEF MemInv, SetupDone
  <2>3. CASE GiveUpFanout
    <3>1. /\ pc = "lost" /\ pc' = "end"
          /\ mem' \in {mem, [mem EXCEPT !.fanout = NoTx]}
      BY <2>3 DEF GiveUpFanout, DropLostFanout
    <3>2. mem' \in Journals
      BY <3>1, <1>4, JournalUpdates
    <3>3. /\ mem'.transfer = mem.transfer /\ mem'.batches = mem.batches
          /\ mem'.fanout \in {mem.fanout, NoTx}
      BY <3>1, <1>4 DEF Journals
    <3> QED BY <3>1, <3>2, <3>3, <1>1, <1>5, <1>6 DEF MemInv, SetupDone
  <2>4. CASE Crash
    BY <2>4, <1>3 DEF Crash, Leave, MemInv
  <2> QED BY <2>1, <2>2, <2>3, <2>4
<1>8. FundingTypeOK'
  <2>1. outputs' \subseteq Txs /\ current' \in Txs \cup {NoTx}
    BY DEF TickStart, ReadOutputs, Send, Resend, GiveUpFanout, Crash, Leave, OnChain,
           FundingInv, FundingTypeOK
  <2> QED BY <2>1, <1>1, <1>7 DEF FundingInv, FundingTypeOK, batchVars
<1>9. FanoutInv'
  <2>1. pc' # "pay"
    BY DEF TickStart, ReadOutputs, Send, Resend, GiveUpFanout, Crash, Leave
  <2> QED BY <2>1, <1>1 DEF FundingInv, FanoutInv, batchVars
<1> QED BY <1>2, <1>7, <1>8, <1>9 DEF FundingInv

\* The steps that sign a transaction: the transfer that the journal named can no
\* longer land, and the fan-out is a new one.
LEMMA SigningKeeps ==
  ASSUME FundingInv, UNCHANGED setupVars, Fund \/ Split PROVE FundingInv'
<1> USE FundingAssumption
<1>1. PICK t \in Txs :
        /\ bound[t] = "unsigned"
        /\ bound' = [bound EXCEPT ![t] = "open"]
        /\ mem' = journal' /\ current' = t /\ pc' = "send"
        /\ UNCHANGED <<place, batchVars, outputs, markers>>
        /\ \/ /\ pc = "transfer" /\ t \in Transfers
              /\ mem.transfer # NoTx => bound[mem.transfer] = "final"
              /\ journal' = [mem EXCEPT !.transfer = t]
           \/ pc = "fanout" /\ t \in Fanouts /\ journal' = [mem EXCEPT !.fanout = t]
  BY DEF Fund, Split, Begin, Gone, Txs, setupVars
<1>2. /\ journal \in Journals /\ mem \in Journals /\ MemInv /\ FanoutInv
      /\ bound \in [Txs -> Bounds] /\ PlaceInv /\ FundingTypeOK
  BY DEF FundingInv, FundingTypeOK
<1>3. SetupDone' /\ mem.transfer = journal.transfer /\ mem.batches = journal.batches
      /\ mem.fanout = journal.fanout
  BY <1>1, <1>2 DEF MemInv, SetupDone
<1>4. journal' \in Journals
  BY <1>1, <1>2, JournalUpdates
<1>5. /\ journal'.batches = journal.batches
      /\ \/ pc = "transfer" /\ t \in Transfers /\ journal'.transfer = t /\ journal'.fanout = journal.fanout
         \/ pc = "fanout" /\ t \in Fanouts /\ journal'.fanout = t /\ journal'.transfer = journal.transfer
  BY <1>1, <1>2, <1>3 DEF Journals
<1>6. /\ bound'[t] = "open" /\ \A u \in Txs \ {t} : bound'[u] = bound[u]
      /\ bound' \in [Txs -> Bounds]
  BY <1>1, <1>2 DEF Bounds
<1>7. FundingTypeOK'
  BY <1>1, <1>2, <1>4, <1>6 DEF FundingTypeOK, batchVars
<1>8. PlaceInv'
  BY <1>1, <1>2, <1>6 DEF PlaceInv
<1>9. MemInv'
  BY <1>1, <1>3 DEF MemInv
<1>10. FanoutInv'
  <2>1. /\ \A x \in Fanouts : x \in Txs
        /\ journal.fanout # NoTx => journal.fanout \in Fanouts
    BY <1>2 DEF Txs, Journals
  <2>2. \A x \in Fanouts : bound'[x] = "unsigned" => bound[x] = "unsigned"
    BY <1>6, <2>1
  <2>3. t \in Fanouts => t \notin journal.batches /\ paid[t] = 0
    BY <1>1, <1>2 DEF FanoutInv
  <2>4. journal'.fanout # NoTx => /\ bound'[journal'.fanout] # "unsigned"
                                  /\ journal'.fanout \notin journal.batches
                                  /\ paid[journal'.fanout] = 0
    <3>1. CASE pc = "transfer" /\ journal'.fanout = journal.fanout
      BY <3>1, <1>2, <1>6, <2>1 DEF FanoutInv
    <3>2. CASE t \in Fanouts /\ journal'.fanout = t
      BY <3>2, <1>6, <2>3
    <3> QED BY <3>1, <3>2, <1>5
  <2> QED BY <1>1, <1>2, <1>5, <2>2, <2>4 DEF FanoutInv, batchVars
<1>11. OneOpenTransfer'
  <2>1. ASSUME NEW f \in Transfers, bound'[f] \in {"open", "passed"} PROVE journal'.transfer = f
    <3>1. f \in Txs
      BY DEF Txs
    <3>2. CASE f = t
      BY <3>2, <1>5
    <3>3. CASE f # t
      <4>1. journal.transfer = f /\ bound[f] # "final" /\ f # NoTx
        BY <3>1, <3>3, <1>6, <2>1 DEF FundingInv, OneOpenTransfer, Txs
      <4> QED BY <4>1, <1>1, <1>3, <1>5
    <3> QED BY <3>2, <3>3
  <2> QED BY <2>1 DEF OneOpenTransfer
<1>12. BatchesIndependent'
  BY <1>1, <1>5 DEF FundingInv, BatchesIndependent, batchVars
<1> QED BY <1>7, <1>8, <1>9, <1>10, <1>11, <1>12 DEF FundingInv

\* The steps that account for a batch: the fan-out's record goes as the batch comes,
\* the batch is sent once, and it is retired when its payments are final.
LEMMA BatchKeeps ==
  ASSUME FundingInv, UNCHANGED setupVars, PrepareBatch \/ Pay \/ TickEnd \/ Retire
  PROVE  FundingInv'
<1> USE FundingAssumption
<1>1. UNCHANGED <<place, bound, markers>>
  BY DEF PrepareBatch, Pay, TickEnd, Retire, chainVars, setupVars
<1>2. /\ journal \in Journals /\ mem \in Journals /\ MemInv /\ FanoutInv
      /\ FundingTypeOK /\ BatchesIndependent
  BY DEF FundingInv, FundingTypeOK
<1>3. EmptyJournal \in Journals
  BY DEF EmptyJournal, Journals
<1>4. PlaceInv'
  BY <1>1 DEF FundingInv, PlaceInv
<1>5. CASE PrepareBatch
  <2> DEFINE x == mem.fanout
  <2>1. /\ pc = "inputs" /\ x \in outputs
        /\ journal' = [mem EXCEPT !.batches = @ \cup {x}, !.fanout = NoTx]
        /\ mem' = journal' /\ current' = x /\ pc' = "pay"
        /\ batchBound' = [batchBound EXCEPT ![x] = "open"]
        /\ UNCHANGED <<paid, outputs>>
    BY <1>5 DEF PrepareBatch, JournalBatch
  <2>2. x \in Fanouts
    BY <2>1, <1>2 DEF FundingTypeOK, Journals, Txs
  <2>3. /\ SetupDone /\ mem.transfer = journal.transfer /\ mem.batches = journal.batches
        /\ x = journal.fanout
    BY <2>1, <1>2 DEF MemInv
  <2>4. /\ journal' \in Journals
        /\ journal'.batches = journal.batches \cup {x}
        /\ journal'.fanout = NoTx /\ journal'.transfer = journal.transfer
    <3>1. journal' \in Journals
      BY <2>1, <2>2, <1>2, JournalUpdates
    <3>2. journal'.batches = mem.batches \cup {x} /\ journal'.fanout = NoTx /\ journal'.transfer = mem.transfer
      BY <2>1, <1>2 DEF Journals
    <3> QED BY <3>1, <3>2, <2>3
  <2>5. bound[x] # "unsigned" /\ x \notin journal.batches /\ paid[x] = 0
    BY <2>2, <2>3, <1>2 DEF FanoutInv, Txs
  <2>6. FundingTypeOK'
    <3>1. batchBound' \in [Fanouts -> Bounds]
      BY <2>1, <1>2 DEF FundingTypeOK, Bounds
    <3> QED BY <3>1, <1>1, <1>2, <2>1, <2>2, <2>4 DEF FundingTypeOK, Txs
  <2>7. MemInv'
    BY <2>1, <2>3, <1>1 DEF MemInv, SetupDone
  <2>8. FanoutInv'
    <3>1. ASSUME NEW y \in Fanouts, bound[y] = "unsigned"
          PROVE  y \notin journal'.batches /\ paid[y] = 0
      BY <3>1, <1>2, <2>4, <2>5 DEF FanoutInv
    <3>2. x \in journal'.batches
      BY <2>4
    <3> QED BY <3>1, <3>2, <1>1, <2>1, <2>4, <2>5 DEF FanoutInv
  <2>9. OneOpenTransfer'
    BY <1>1, <2>4 DEF FundingInv, OneOpenTransfer
  <2>10. BatchesIndependent'
    <3>1. ASSUME NEW y \in Fanouts, paid[y] > 0
          PROVE  paid[y] = 1 /\ (y \in journal'.batches \/ batchBound'[y] = "final")
      <4>1. y # x
        BY <3>1, <2>5
      <4>2. batchBound'[y] = batchBound[y]
        BY <4>1, <2>1, <1>2, <3>1 DEF FundingTypeOK
      <4> QED BY <4>2, <3>1, <2>4, <1>2 DEF BatchesIndependent
    <3> QED BY <3>1, <2>1 DEF BatchesIndependent
  <2> QED BY <1>4, <2>6, <2>7, <2>8, <2>9, <2>10 DEF FundingInv
<1>6. CASE Pay
  <2>1. /\ pc = "pay" /\ pc' = "end"
        /\ paid' = [paid EXCEPT ![current] = IF @ < 2 THEN @ + 1 ELSE @]
        /\ UNCHANGED <<batchBound, journal, mem, outputs, current>>
    BY <1>6 DEF Pay
  <2>2. current \in journal.batches /\ paid[current] = 0 /\ current \in Fanouts
    BY <2>1, <1>2 DEF FanoutInv, Journals
  <2>3. /\ paid' \in [Fanouts -> Nat]
        /\ paid'[current] = 1
        /\ \A y \in Fanouts \ {current} : paid'[y] = paid[y]
    BY <2>1, <2>2, <1>2 DEF FundingTypeOK
  <2>4. FundingTypeOK'
    BY <1>1, <1>2, <2>1, <2>3 DEF FundingTypeOK
  <2>5. MemInv'
    BY <1>1, <1>2, <2>1 DEF MemInv, SetupDone
  <2>6. FanoutInv'
    <3>1. journal.fanout # NoTx => journal.fanout \in Fanouts \ {current}
      BY <1>2, <2>2 DEF FanoutInv, Journals
    <3>2. ASSUME NEW y \in Fanouts, bound[y] = "unsigned"
          PROVE  y \notin journal.batches /\ paid'[y] = 0
      BY <3>2, <1>2, <2>2, <2>3 DEF FanoutInv
    <3> QED BY <3>1, <3>2, <1>1, <1>2, <2>1, <2>3 DEF FanoutInv
  <2>7. OneOpenTransfer'
    BY <1>1, <2>1 DEF FundingInv, OneOpenTransfer
  <2>8. BatchesIndependent'
    BY <1>2, <2>1, <2>2, <2>3 DEF BatchesIndependent
  <2> QED BY <1>4, <2>4, <2>5, <2>6, <2>7, <2>8 DEF FundingInv
<1>7. CASE TickEnd
  <2>1. /\ pc # "idle" /\ pc' = "idle" /\ journal' = mem
        /\ mem' = EmptyJournal /\ outputs' = {} /\ current' = NoTx
        /\ UNCHANGED <<paid, batchBound>>
    BY <1>7 DEF TickEnd, Leave, batchVars
  <2>2. /\ mem.transfer = journal.transfer /\ mem.batches = journal.batches
        /\ mem.fanout \in {journal.fanout, NoTx}
    BY <2>1, <1>2 DEF MemInv
  <2>3. FundingTypeOK'
    BY <1>1, <1>2, <1>3, <2>1 DEF FundingTypeOK
  <2>4. MemInv'
    BY <2>1 DEF MemInv
  <2>5. FanoutInv'
    BY <1>1, <1>2, <2>1, <2>2 DEF FanoutInv
  <2>6. OneOpenTransfer'
    BY <1>1, <2>1, <2>2 DEF FundingInv, OneOpenTransfer
  <2>7. BatchesIndependent'
    BY <1>2, <2>1, <2>2 DEF BatchesIndependent
  <2> QED BY <1>4, <2>3, <2>4, <2>5, <2>6, <2>7 DEF FundingInv
<1>8. CASE Retire
  <2>1. /\ pc = "idle"
        /\ journal' = [journal EXCEPT !.batches = {x \in @ : batchBound[x] # "final"}]
        /\ UNCHANGED <<paid, batchBound, pc, mem, outputs, current>>
    BY <1>8 DEF Retire, batchVars, tickVars
  <2>2. /\ journal' \in Journals
        /\ journal'.transfer = journal.transfer /\ journal'.fanout = journal.fanout
        /\ journal'.batches = {x \in journal.batches : batchBound[x] # "final"}
    BY <2>1, <1>2 DEF Journals
  <2>3. FundingTypeOK'
    BY <1>1, <1>2, <2>1, <2>2 DEF FundingTypeOK
  <2>4. MemInv'
    BY <1>2, <2>1 DEF MemInv
  <2>5. FanoutInv'
    BY <1>1, <1>2, <2>1, <2>2 DEF FanoutInv
  <2>6. OneOpenTransfer'
    BY <1>1, <2>2 DEF FundingInv, OneOpenTransfer
  <2>7. BatchesIndependent'
    BY <1>2, <2>1, <2>2 DEF BatchesIndependent
  <2> QED BY <1>4, <2>3, <2>4, <2>5, <2>6, <2>7 DEF FundingInv
<1> QED BY <1>5, <1>6, <1>7, <1>8

\* The setup does not touch the funding, and its marker stays.
LEMMA FundingFrame ==
  ASSUME FundingInv, UNCHANGED fundingVars, SetupDone => SetupDone' PROVE FundingInv'
<1>1. UNCHANGED <<place, bound, paid, batchBound, journal, mem, outputs, current, pc>>
  BY DEF fundingVars, chainVars, batchVars, tickVars
<1>2. FundingTypeOK' /\ PlaceInv'
  BY <1>1 DEF FundingInv, FundingTypeOK, PlaceInv
<1>3. MemInv'
  BY <1>1 DEF FundingInv, MemInv
<1>4. FanoutInv'
  BY <1>1 DEF FundingInv, FanoutInv
<1>5. OneOpenTransfer' /\ BatchesIndependent'
  BY <1>1 DEF FundingInv, OneOpenTransfer, BatchesIndependent
<1> QED BY <1>2, <1>3, <1>4, <1>5 DEF FundingInv

\* The marker of a complete setup is never removed.
LEMMA MarkersStay == [SetupNext]_setupVars /\ SetupDone => SetupDone'
  BY DEF SetupNext, SetupProgress, SetupDone, setupVars, SetupLand, SetupDrop, CreateFail, SetupAbort,
         SetupStart, Register, NotRegistered, SetupSpecialDReps, SetupReceiverPool, FundPayer,
         CreateClaim, CreateSign, CreateJournal, CreateBroadcast, Rebroadcast, CastVotes,
         PayoutReady, ConfirmSpecialDReps, FundPool, MarkSetup, Abort

\* Both invariants hold together in every behaviour.
THEOREM FundingInductive == Spec => []Inv
<1>1. Init => Inv
  BY SetupInvInit, FundingInvInit DEF Init, Inv
<1>2. Inv /\ [Next]_vars => Inv'
  <2> SUFFICES ASSUME Inv, [Next]_vars PROVE Inv'
    OBVIOUS
  <2>1. CASE SetupNext /\ UNCHANGED fundingVars
    <3>1. SetupInv'
      BY <2>1, SetupInvStep DEF Inv
    <3>2. FundingInv'
      BY <2>1, MarkersStay, FundingFrame DEF Inv
    <3> QED BY <3>1, <3>2 DEF Inv
  <2>2. CASE Funding /\ UNCHANGED setupVars
    <3>1. SetupInv'
      BY <2>2, SetupInvStep DEF Inv
    <3>2. FundingInv'
      BY <2>2, ChainKeeps, ReadingKeeps, SigningKeeps, BatchKeeps DEF Inv, Funding, Tick
    <3> QED BY <3>1, <3>2 DEF Inv
  <2>3. CASE UNCHANGED vars
    <3>1. UNCHANGED setupVars /\ UNCHANGED fundingVars
      BY <2>3 DEF vars
    <3>2. SetupInv'
      BY <3>1, SetupInvStep DEF Inv
    <3>3. FundingInv'
      BY <3>1, FundingFrame DEF Inv, setupVars, SetupDone
    <3> QED BY <3>2, <3>3 DEF Inv
  <2> QED BY <2>1, <2>2, <2>3 DEF Next
<1> QED BY <1>1, <1>2, PTL DEF Spec

\* A marker tells the drivers the truth, however often the setup was killed, failed
\* and was started again.
THEOREM MarkersAreTruthful == Spec => []MarkersTruthful
<1>1. Inv => MarkersTruthful
  BY DEF Inv, SetupInv
<1> QED BY <1>1, FundingInductive, PTL

\* One withdrawal proposal is broadcast at most, and no other receiver is used.
THEOREM OneProposalAtMost == Spec => []OneGuidedProposal
<1>1. SetupInv => OneGuidedProposal
  <2> SUFFICES ASSUME SetupInv PROVE OneGuidedProposal
    OBVIOUS
  <2> DEFINE S == {p \in Proposals : Proposal(p) \in landed \cup inflight}
  <2>1. S \subseteq {claim[1]}
    BY DEF SetupInv, GuidedInv, Known
  <2>2. Cardinality(S) <= 1
    <3>1. IsFiniteSet({claim[1]}) /\ Cardinality({claim[1]}) = 1
      BY FS_Singleton
    <3> QED BY <2>1, <3>1, FS_Subset
  <2> QED BY <2>2 DEF OneGuidedProposal, SetupInv, GuidedInv
<1>2. Inv => OneGuidedProposal
  BY <1>1 DEF Inv
<1> QED BY <1>2, FundingInductive, PTL

\* Nobody waits for the faucet lock: a transfer for payments needs the marker, and
\* the setup that wrote it is over.
THEOREM FaucetNeverContended == Spec => []FaucetUncontended
<1>1. Inv => FaucetUncontended
  BY DEF Inv, SetupInv, ProgressInv, FundingInv, MemInv, FaucetUncontended
<1> QED BY <1>1, FundingInductive, PTL

\* The faucet is not asked again while an earlier transfer may land.
THEOREM OneTransferAtATime == Spec => []OneOpenTransfer
<1>1. Inv => OneOpenTransfer
  BY DEF Inv, FundingInv
<1> QED BY <1>1, FundingInductive, PTL

\* A fan-out feeds one batch, and a batch that is out is in the journal until it is
\* final.
THEOREM BatchesStayIndependent == Spec => []BatchesIndependent
<1>1. Inv => BatchesIndependent
  BY DEF Inv, FundingInv
<1> QED BY <1>1, FundingInductive, PTL
=============================================================================

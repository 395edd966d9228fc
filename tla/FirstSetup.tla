----------------------------- MODULE FirstSetup -----------------------------
(***************************************************************************)
(* The setup that runs before every driver (first_setup.py): one            *)
(* registration transaction for DReps, stake and committee, the special     *)
(* DReps, the treasury receivers, the guided withdrawal with the votes of   *)
(* the whole roster, and the payment addresses.  Three marker files and the *)
(* claims say what is done; every driver waits for SETUP_MARKER.            *)
(*                                                                          *)
(* No fault is injected before the marker exists, so the ledger has no      *)
(* forks here.  A call may still fail although the node has the             *)
(* transaction, and the process may be killed and started again.            *)
(***************************************************************************)
EXTENDS Integers, FiniteSets

CONSTANTS
    SetupReceivers, \* the treasury receivers, 1 .. NUM_DREPS: the guided one is 1
    Proposals,      \* bound: signed withdrawal proposals, numbered; one that was never
                    \* journalled is never sent, and its number is used again
    Free,           \* no claim file
    Unsigned        \* a claim without a transaction, or no saved proposal

ASSUME SetupAssumption ==
    /\ 1 \in SetupReceivers /\ SetupReceivers \subseteq Nat \ {0}
    /\ Proposals \subseteq Nat
    /\ {Free, Unsigned} \cap Proposals = {} /\ Free # Unsigned

VARIABLES
    markers,   \* the marker files: "special", "receivers", "setup"
    step,      \* what setup does next, "off" when it does not run
    special,   \* its memory: the special DReps were submitted
    recv,      \* its memory: the receivers that create() prepares, one at most
    claim,     \* the pending claim of each receiver
    saved,     \* guided_proposal.signed
    landed,    \* transactions on the chain
    inflight,  \* transactions that may still land
    cut        \* history: an attempt ended without the marker, and none with it yet

setupVars == <<markers, step, special, recv, claim, saved, landed, inflight, cut>>

Tx(name) == <<name, Unsigned>>
Proposal(p) == <<"proposal", p>>
Votes(p) == <<"votes", p>>

SetupDone == "setup" \in markers
GuidedId == claim[1]
Guided == claim[1] \in Proposals   \* treasury.guided_id() is not None

SetupInit ==
    /\ markers = {}
    /\ step = "off"
    /\ special = FALSE
    /\ recv = {}
    /\ claim = [r \in SetupReceivers |-> Free]
    /\ saved = Unsigned
    /\ landed = {}
    /\ inflight = {}
    /\ cut = FALSE
-----------------------------------------------------------------------------
(* The ledger *)

\* Registered is registered: the certificates cannot be used twice.  The keys of
\* the special DReps and the receivers are new in every attempt.
Valid(tx) ==
    /\ tx = Tx("register") => tx \notin landed \cup inflight
    /\ tx[1] = "proposal" => {Tx("receivers"), Tx("payer")} \subseteq landed
    /\ tx[1] = "votes" => {Tx("register"), Proposal(tx[2])} \subseteq landed

\* build_sign_submit returns: the transaction is on the chain.
Submit(tx) ==
    /\ Valid(tx)
    /\ landed' = landed \cup {tx}
    /\ inflight' = inflight \ {tx}

\* build_sign_submit raises: the node refused it, never saw it, or has it.
SubmitFails(tx) ==
    /\ inflight' \in {inflight, inflight \cup {t \in {tx} \ landed : Valid(t)}}
    /\ UNCHANGED landed

SetupLand ==
    \E tx \in inflight :
        /\ landed' = landed \cup {tx}
        /\ inflight' = inflight \ {tx}
        /\ UNCHANGED <<markers, step, special, recv, claim, saved, cut>>

SetupDrop ==
    \E tx \in inflight :
        /\ inflight' = inflight \ {tx}
        /\ UNCHANGED <<markers, step, special, recv, claim, saved, landed, cut>>
-----------------------------------------------------------------------------
(* main *)

\* It returns 1, or is killed.
Abort ==
    /\ step' = "off"
    /\ special' = FALSE
    /\ recv' = {}
    /\ cut' = TRUE
    /\ UNCHANGED <<markers, claim, saved>>

Goto(next) ==
    /\ step' = next
    /\ UNCHANGED cut

\* With the marker there is nothing to do.
SetupStart ==
    /\ step = "off"
    /\ ~SetupDone
    /\ Goto("register")
    /\ UNCHANGED <<markers, special, recv, claim, saved, landed, inflight>>

\* The node does not answer, a voting key is wrong, the retries are used up, or it
\* is killed.
SetupAbort ==
    /\ step # "off"
    /\ Abort
    /\ UNCHANGED <<landed, inflight>>

\* Faulty: a refused registration is taken for one that an earlier attempt made.
RegisteredBefore == Goto("special") /\ UNCHANGED <<markers, special, recv, claim, saved>>

NotRegistered == Abort

Register ==
    /\ step = "register"
    /\ \/ Submit(Tx("register")) /\ Goto("special") /\ UNCHANGED <<markers, special, recv, claim, saved>>
       \/ SubmitFails(Tx("register")) /\ NotRegistered

\* Without the special DReps it goes on, but leaves no marker.
SetupSpecialDReps ==
    /\ step = "special"
    /\ Goto("receivers")
    /\ IF "special" \in markers
       THEN UNCHANGED <<special, landed, inflight>>
       ELSE \/ Submit(Tx("special")) /\ special' = TRUE
            \/ SubmitFails(Tx("special")) /\ UNCHANGED special
    /\ UNCHANGED <<markers, recv, claim, saved>>

SetupReceiverPool ==
    /\ step = "receivers"
    /\ Goto("payer")
    /\ IF "receivers" \in markers
       THEN UNCHANGED <<markers, landed, inflight>>
       ELSE \/ Submit(Tx("receivers")) /\ markers' = markers \cup {"receivers"}
            \/ SubmitFails(Tx("receivers")) /\ UNCHANGED markers
    /\ UNCHANGED <<special, recv, claim, saved>>

\* The guided payment address is funded once.
FundPayer ==
    /\ step = "payer"
    /\ \/ /\ IF Tx("payer") \in landed THEN UNCHANGED <<landed, inflight>> ELSE Submit(Tx("payer"))
          /\ Goto("payout")
          /\ UNCHANGED <<markers, special, recv, claim, saved>>
       \/ Tx("payer") \notin landed /\ SubmitFails(Tx("payer")) /\ Abort
-----------------------------------------------------------------------------
(* The retries of the guided withdrawal *)

\* create() takes the first free receiver, once its registration is immutable.
CreateClaim ==
    /\ step = "payout"
    /\ ~Guided
    /\ Tx("receivers") \in landed
    /\ \E r \in SetupReceivers :
        /\ claim[r] = Free
        /\ \A q \in SetupReceivers : q < r => claim[q] # Free
        /\ claim' = [claim EXCEPT ![r] = Unsigned]
        /\ recv' = {r}
    /\ Goto("sign")
    /\ UNCHANGED <<markers, special, saved, landed, inflight>>

NewProposals == Proposals \ {claim[r] : r \in SetupReceivers}

\* The signed bytes are kept first, then the claim names the transaction.
CreateSign ==
    /\ step = "sign"
    /\ \E p \in NewProposals :
        /\ \A q \in NewProposals : p <= q
        /\ saved' = p
    /\ Goto("journal")
    /\ UNCHANGED <<markers, special, recv, claim, landed, inflight>>

CreateJournal ==
    /\ step = "journal"
    /\ claim' = [r \in SetupReceivers |-> IF r \in recv THEN saved ELSE claim[r]]
    /\ Goto("broadcast")
    /\ UNCHANGED <<markers, special, recv, saved, landed, inflight>>

\* A failure before the journal releases the claim.
CreateFail ==
    /\ step \in {"sign", "journal"}
    /\ claim' = [r \in SetupReceivers |-> IF r \in recv THEN Free ELSE claim[r]]
    /\ recv' = {}
    /\ Goto("payout")
    /\ UNCHANGED <<markers, special, saved, landed, inflight>>

CreateBroadcast ==
    /\ step = "broadcast"
    /\ Submit(Proposal(saved)) \/ SubmitFails(Proposal(saved))
    /\ recv' = {}
    /\ Goto("payout")
    /\ UNCHANGED <<markers, special, claim, saved>>

\* Faulty: a lost proposal is waited for.
NeverAgain == FALSE

\* The claim names a proposal that is not live, and the saved one is it.
ToSendAgain == Proposal(GuidedId) \notin landed /\ saved = GuidedId

Rebroadcast ==
    /\ step = "payout"
    /\ Guided
    /\ ToSendAgain
    /\ SubmitFails(Proposal(saved))
    /\ UNCHANGED <<markers, step, special, recv, claim, saved, cut>>

CastVotes ==
    /\ step = "payout"
    /\ Guided
    /\ Proposal(GuidedId) \in landed
    /\ Votes(GuidedId) \notin landed
    /\ Submit(Votes(GuidedId)) \/ SubmitFails(Votes(GuidedId))
    /\ UNCHANGED <<markers, step, special, recv, claim, saved, cut>>

\* Faulty: the votes were sent.
VotesSent == Guided /\ Votes(GuidedId) \in landed \cup inflight

\* What is recorded on the live proposal is read again.
VotesRecorded == Guided /\ Votes(GuidedId) \in landed

PayoutReady ==
    /\ step = "payout"
    /\ VotesRecorded
    /\ Goto("confirm")
    /\ UNCHANGED <<markers, special, recv, claim, saved, landed, inflight>>
-----------------------------------------------------------------------------
(* The end *)

\* After the wait for an epoch: by then what was in flight has landed or is dropped.
ConfirmSpecialDReps ==
    /\ step = "confirm"
    /\ inflight = {}
    /\ markers' = IF special THEN markers \cup {"special"} ELSE markers
    /\ Goto("pool")
    /\ UNCHANGED <<special, recv, claim, saved, landed, inflight>>

FundPool ==
    /\ step = "pool"
    /\ \/ Submit(Tx("pool")) /\ Goto("mark") /\ UNCHANGED <<markers, special, recv, claim, saved>>
       \/ SubmitFails(Tx("pool")) /\ Abort

MarkSetup ==
    /\ step = "mark"
    /\ markers' = markers \cup {"setup"}
    /\ special' = FALSE
    /\ step' = "off"
    /\ cut' = FALSE
    /\ UNCHANGED <<recv, claim, saved, landed, inflight>>

SetupProgress ==
    \/ SetupStart \/ Register \/ SetupSpecialDReps \/ SetupReceiverPool \/ FundPayer
    \/ CreateClaim \/ CreateSign \/ CreateJournal \/ CreateBroadcast \/ Rebroadcast \/ CastVotes
    \/ PayoutReady \/ ConfirmSpecialDReps \/ FundPool \/ MarkSetup

SetupNext == SetupLand \/ SetupDrop \/ CreateFail \/ SetupAbort \/ SetupProgress
-----------------------------------------------------------------------------
(* Properties *)

\* A marker tells the drivers the truth, also when setup was killed, failed and was
\* started again: what it stands for is on the chain, and with SETUP_MARKER the
\* guided claim names a proposal that the whole roster has voted for.
MarkersTruthful ==
    /\ "special" \in markers => Tx("special") \in landed
    /\ "receivers" \in markers => Tx("receivers") \in landed
    /\ SetupDone => /\ {Tx("register"), Tx("receivers"), Tx("pool")} \subseteq landed
                    /\ Guided
                    /\ {Proposal(GuidedId), Votes(GuidedId)} \subseteq landed

\* However often setup is interrupted, one withdrawal proposal is broadcast at most,
\* and to the guided receiver: the expiry receiver is left to the create drivers.
OneGuidedProposal ==
    /\ Cardinality({p \in Proposals : Proposal(p) \in landed \cup inflight}) <= 1
    /\ \A r \in SetupReceivers \ {1} : claim[r] = Free

\* A submission or query of the payout fails, or a transaction is lost.
SetupFault ==
    \/ SetupDrop \/ CreateFail \/ SetupAbort
    \/ (CreateBroadcast \/ Rebroadcast \/ CastVotes) /\ inflight' \cup landed' = inflight \cup landed
    \/ (Register \/ SetupSpecialDReps \/ SetupReceiverPool \/ FundPayer \/ FundPool) /\ UNCHANGED landed

SetupFairness ==
    /\ <>[][~SetupFault]_setupVars
    /\ WF_setupVars(SetupProgress)
    /\ WF_setupVars(SetupLand)

\* The receivers were not registered: the retries of the payout cannot help.
Hopeless == step = "payout" /\ Tx("receivers") \notin landed \cup inflight

\* Setup completes unless an attempt was cut short or cannot succeed: a proposal or
\* vote transaction that is lost, late or in doubt never leaves the payout stuck.
SetupCompletes == <>(SetupDone \/ cut \/ Hopeless)
=============================================================================

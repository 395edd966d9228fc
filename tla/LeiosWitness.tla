----------------------------- MODULE LeiosWitness -----------------------------
(***************************************************************************)
(* The isolated Leios payments: a submit driver journals signed payments   *)
(* and broadcasts them, an observe driver reads the nodes' logs for the    *)
(* endorser blocks (EB) that hold them, and looks for one whose EB was     *)
(* certified by an immutable ranking block (RB).  Both work on one journal *)
(* under one lock, and may be killed at any step: what was not saved by    *)
(* then is lost.                                                           *)
(*                                                                         *)
(* The nodes are not part of the repository.  RBs form a tree; an RB may   *)
(* announce an EB, and a child may certify it in place of transactions of  *)
(* its own.  How the payments' inputs are funded is left out here: a batch *)
(* is a set of payments that no transaction competes with.                 *)
(***************************************************************************)
EXTENDS Integers, Sequences, FiniteSets

CONSTANTS
    Payments,     \* the payments a behaviour may sign
    BatchSize,    \* BATCH_SIZE
    MaxPayments,  \* MAX_PAYMENTS
    MaxHeaders,   \* MAX_HEADERS
    Validity,     \* slots from a payment's preparation to its validity bound
    MaxBlocks,    \* bound: ranking blocks forged
    MaxLag        \* bound: log lines that a tick leaves unread; one that every tick
                  \* leaves is one that was rotated away

ASSUME WitnessAssumption ==
    /\ BatchSize \in Nat \ {0}
    /\ MaxPayments \in Nat \ {0}
    /\ MaxHeaders \in Nat \ {0}
    /\ Validity \in Nat
    /\ MaxBlocks \in Nat
    /\ MaxLag \in Nat

Genesis == 0
Blocks == 1 .. MaxBlocks
NoSlot == -1
NoBlock == -1
NoEb == [announced |-> FALSE, payments |-> {}]
Ebs == {NoEb} \cup [announced : {TRUE}, payments : SUBSET Payments]

VARIABLES
    blocks,      \* the ranking blocks forged, on any fork, each with the blocks that it
                 \* extends; the slot of one is its index
    immutable,   \* the immutable tip of relay1
    sent,        \* payments a node has received
    validUntil,  \* invalid-hereafter of the signed payments
    unread,      \* the log lines ahead of the cursors in the journal
    journal,     \* tracking.json
    pc,          \* what the holder of tracking.lock does, "idle" when it is free
    mem,         \* its copy of the journal
    taken,       \* the log lines it has read
    batch,       \* submitter: payments still to be broadcast
    tip, seen,   \* observer: immutable tip, payments in the immutable UTxO set
    alarms       \* the Always assertions that have been reported false

chainVars  == <<blocks, immutable>>
driverVars == <<pc, mem, taken, batch, tip, seen>>
vars == <<chainVars, sent, validUntil, unread, journal, driverVars, alarms>>
-----------------------------------------------------------------------------
(* The chain *)

EbOf(b) == IF b = Genesis THEN NoEb ELSE blocks[b].eb

\* b and its ancestors, without the genesis block.
Chain(b) == IF b = Genesis THEN {} ELSE blocks[b].chain

\* The payments on the chain of b: in a block, or in an EB that a block certifies.
Ledger(b) ==
    UNION {IF blocks[c].certifies THEN EbOf(blocks[c].parent).payments ELSE blocks[c].body :
             c \in Chain(b)}

\* The immutable tip and the blocks that extend it.
Live == {c \in 0 .. Len(blocks) : immutable \in {Genesis, c} \cup Chain(c)}

\* What the nodes log about a block, in files of several hosts and two formats.
LinesOf(b, eb, certifies) ==
    {<<"header", b>>}
    \cup (IF eb.announced THEN {<<"announced", b>>, <<"body", b>>} ELSE {})
    \cup (IF eb.announced /\ certifies THEN {<<"certified", b>>} ELSE {})

\* A block on the immutable tip or on any fork of it.
Forge ==
    /\ Len(blocks) < MaxBlocks
    /\ \E parent \in Live, certifies \in BOOLEAN, eb \in Ebs, body \in SUBSET sent :
         LET slot == Len(blocks) + 1
             onChain == Ledger(parent) \cup (IF certifies THEN EbOf(parent).payments ELSE {})
             free == {p \in sent \ onChain : slot < validUntil[p]}
         IN  /\ certifies => EbOf(parent).announced /\ body = {}
             /\ body \subseteq free
             /\ eb.payments \subseteq free \ body
             /\ blocks' = Append(blocks, [parent |-> parent, chain |-> {slot} \cup Chain(parent),
                                          body |-> body, eb |-> eb, certifies |-> certifies])
             /\ unread' = unread \cup LinesOf(slot, eb, certifies)
    /\ UNCHANGED <<immutable, sent, validUntil, journal, driverVars, alarms>>

Settle ==
    /\ \E b \in Live \ {immutable} :
        /\ blocks[b].parent = immutable
        /\ immutable' = b
    /\ UNCHANGED <<blocks, sent, validUntil, unread, journal, driverVars, alarms>>
-----------------------------------------------------------------------------
(* The journal *)

EmptyJournal == [started |-> FALSE, payments |-> {}, ebs |-> [p \in Payments |-> {}],
                 headers |-> {}, announced |-> {}, certified |-> {},
                 proof |-> [p \in Payments |-> NoBlock], included |-> {}, complete |-> FALSE]

Init ==
    /\ blocks = <<>>
    /\ immutable = Genesis
    /\ sent = {}
    /\ validUntil = [p \in Payments |-> NoSlot]
    /\ unread = {}
    /\ journal = EmptyJournal
    /\ pc = "idle"
    /\ mem = EmptyJournal
    /\ taken = {}
    /\ batch = {}
    /\ tip = NoBlock
    /\ seen = {}
    /\ alarms = {}

\* Faulty: every tick starts at the ends of the logs.
SkippedAlways == unread

\* start_tracking: the first driver sets the cursors to the ends of the logs.
Skipped == IF journal.started THEN {} ELSE unread

Started == [journal EXCEPT !.started = TRUE]

\* The lock and the locals of its holder are gone.
Release ==
    /\ pc' = "idle"
    /\ mem' = EmptyJournal
    /\ taken' = {}
    /\ batch' = {}
    /\ tip' = NoBlock
    /\ seen' = {}

Save(j, lines) ==
    /\ journal' = j
    /\ unread' = unread \ lines
-----------------------------------------------------------------------------
(* The submit driver *)

Unsigned == {p \in Payments : validUntil[p] = NoSlot}

\* A payment that is not known to be on the chain is broadcast again while it
\* is valid; then a batch is prepared if the journal has room for it.
SubmitterStart ==
    /\ pc = "idle"
    /\ ~journal.complete
    /\ pc' = "resubmit"
    /\ mem' = Started
    /\ taken' = Skipped
    /\ \E slot \in Live :
        batch' = {p \in journal.payments \ journal.included : slot < validUntil[p]}
    /\ UNCHANGED <<chainVars, sent, validUntil, unread, journal, tip, seen, alarms>>

\* Faulty: the batch is journalled once it has been broadcast.
JournalAfter(b) == UNCHANGED <<journal, unread>>

\* Every signed payment of the batch, before any of them is broadcast.
JournalBatch(b) == Save([mem EXCEPT !.payments = @ \cup b], taken)

SubmitterPrepare ==
    /\ pc = "resubmit"
    /\ batch = {}
    /\ \E b \in SUBSET Unsigned, slot \in Live :
        /\ b # {}
        /\ Cardinality(b) <= BatchSize
        /\ Cardinality(b) + Cardinality(journal.payments) <= MaxPayments
        /\ validUntil' = [p \in Payments |-> IF p \in b THEN slot + Validity ELSE validUntil[p]]
        /\ JournalBatch(b)
        /\ mem' = [mem EXCEPT !.payments = @ \cup b]
        /\ batch' = b
    /\ pc' = "broadcast"
    /\ taken' = {}
    /\ UNCHANGED <<chainVars, sent, tip, seen, alarms>>

\* A call that fails may have reached the node or not.
SubmitterSend ==
    /\ pc \in {"resubmit", "broadcast"}
    /\ \E p \in batch :
        /\ sent' \in {sent, sent \cup {p}}
        /\ batch' = batch \ {p}
    /\ UNCHANGED <<chainVars, validUntil, unread, journal, pc, mem, taken, tip, seen, alarms>>

\* Nothing to prepare, a query that fails, or the batch is out.
SubmitterEnd ==
    /\ pc \in {"resubmit", "broadcast"}
    /\ pc = "broadcast" => batch = {}
    /\ Save(mem, taken)
    /\ Release
    /\ UNCHANGED <<chainVars, sent, validUntil, alarms>>
-----------------------------------------------------------------------------
(* The observe driver *)

Newest(S, n) == {b \in S : Cardinality({c \in S : c > b}) < n}

\* Faulty: what is read now replaces what was read before.
LatestOnly(before, now) == now

Accumulated(before, now) == before \cup now

\* ingest: file the lines under what they are evidence of.  Of too many headers
\* the newest stay, and what belongs to older ones is dropped with them.
Filed(j, lines) ==
    LET of(kind) == {b \in Blocks : <<kind, b>> \in lines}
        headers == Newest(j.headers \cup of("header"), MaxHeaders)
        full == Cardinality(j.headers \cup of("header")) > MaxHeaders
        kept(S) == IF full THEN {b \in S : \E h \in headers : h <= b} ELSE S
        holding(p) == {EbOf(b) : b \in {c \in of("body") : p \in EbOf(c).payments}}
    IN  [j EXCEPT !.headers = headers,
                  !.announced = kept(@ \cup of("announced")),
                  !.certified = kept(@ \cup of("certified")),
                  !.ebs = [p \in Payments |-> IF p \in j.payments THEN Accumulated(@[p], holding(p))
                                              ELSE @[p]]]

ObserverIngest ==
    /\ pc = "idle"
    /\ \E lag \in SUBSET (unread \ Skipped) :
        /\ Cardinality(lag) <= MaxLag
        /\ taken' = unread \ lag
        /\ mem' = Filed(Started, (unread \ Skipped) \ lag)
    /\ pc' = "tip"
    /\ UNCHANGED <<chainVars, sent, validUntil, unread, journal, batch, tip, seen, alarms>>

ObserverTip ==
    /\ pc = "tip"
    /\ mem.payments # {}
    /\ tip' = immutable
    /\ pc' = "utxo"
    /\ UNCHANGED <<chainVars, sent, validUntil, unread, journal, mem, taken, batch, seen, alarms>>

ObserverUtxo ==
    /\ pc = "utxo"
    /\ seen' = mem.payments \cap Ledger(immutable)
    /\ pc' = "check"
    /\ UNCHANGED <<chainVars, sent, validUntil, unread, journal, mem, taken, batch, tip, alarms>>

SamePoint == tip = immutable

ObserverRetry ==
    /\ pc = "check"
    /\ ~SamePoint
    /\ pc' = "tip"
    /\ tip' = NoBlock
    /\ seen' = {}
    /\ UNCHANGED <<chainVars, sent, validUntil, unread, journal, mem, taken, batch, alarms>>

\* Faulty: every certified block counts, whichever fork it is on.
AnyFork == Blocks

\* immutable_ancestors: back from the tip as far as the headers are known.
ImmutableAncestors ==
    {c \in {Genesis} \cup Chain(tip) : \A d \in Chain(tip) : d > c => d \in mem.headers}

\* Faulty: a payment of the certifying block's own EB counts.
OwnEb(c) == c

AnnouncedIn(c) == blocks[c].parent

\* certified_payment: immutable blocks that certify an EB with the payment in it,
\* the EB that its parent announced.
Proofs(p) ==
    {c \in mem.certified \cap ImmutableAncestors \cap mem.headers :
        /\ AnnouncedIn(c) \in mem.announced
        /\ EbOf(AnnouncedIn(c)) \in mem.ebs[p]}

\* Faulty: retired at the volatile tip.
ExpiredSoon(p) == validUntil[p] <= Len(blocks)

Expired(p) == validUntil[p] <= tip

\* Everything that is checked of one immutable point, and the exit.
ObserverCheck ==
    /\ pc = "check"
    /\ SamePoint
    /\ \E proof \in [Payments -> Blocks \cup {NoBlock}] :
        LET proven == {p \in mem.payments : proof[p] # NoBlock}
            complete == mem.complete \/ proven \cap seen # {}
        IN  /\ \A p \in Payments :
                 \/ p \in mem.payments /\ mem.proof[p] = NoBlock /\ proof[p] \in Proofs(p)
                 \/ /\ p \in mem.payments /\ mem.proof[p] = NoBlock => Proofs(p) = {}
                    /\ proof[p] = mem.proof[p]
            /\ alarms' = IF proven \subseteq seen THEN alarms
                         ELSE alarms \cup {"certified_tx_payment_matches"}
            /\ Save([mem EXCEPT !.proof = proof,
                                !.included = @ \cup seen,
                                !.complete = complete,
                                !.payments = IF complete THEN @ ELSE {p \in @ : ~Expired(p)}],
                    taken)
    /\ Release
    /\ UNCHANGED <<chainVars, sent, validUntil>>

\* No payments, a query fails, or three points in a row were different: what was
\* read is saved.
ObserverQuit ==
    /\ pc \in {"tip", "utxo", "check"}
    /\ Save(mem, taken)
    /\ Release
    /\ UNCHANGED <<chainVars, sent, validUntil, alarms>>

\* The holder is killed: the kernel drops the lock.
Crash ==
    /\ pc # "idle"
    /\ Release
    /\ UNCHANGED <<chainVars, sent, validUntil, unread, journal, alarms>>

Submit == SubmitterStart \/ SubmitterPrepare \/ SubmitterSend \/ SubmitterEnd

Observe ==
    \/ ObserverIngest \/ ObserverTip \/ ObserverUtxo \/ ObserverRetry
    \/ ObserverCheck \/ ObserverQuit

Next == Forge \/ Settle \/ Submit \/ Observe \/ Crash

Spec == Init /\ [][Next]_vars
-----------------------------------------------------------------------------
(* Properties *)

\* leios_certified_tx_payment_matches never fires on a correct ledger: orphaned
\* certificates, another fork's announcements, lines read late or dropped and a
\* moving tip never add up to a proof of what the immutable ledger does not hold.
NoFalsePaymentAlarm == alarms = {}

\* A proof that was saved stays true: its block is on the immutable chain, and so
\* is the payment.
ProofsAreFinal ==
    \A p \in journal.payments : journal.proof[p] # NoBlock =>
        journal.proof[p] \in Chain(immutable) /\ p \in Ledger(immutable)

\* Evidence is never lost to the order of things: when a body has been read that
\* holds a payment, and the payment is tracked, its journal entry names the EB.
\* A driver killed between its reads and its save reads the lines again.
BodiesAttributed ==
    \A b \in 1 .. Len(blocks), p \in journal.payments :
        p \in EbOf(b).payments => EbOf(b) \in journal.ebs[p] \/ <<"body", b>> \in unread

\* "Retire only after the validity bound is immutable": a payment that is out but
\* not in the journal is settled for good, on every fork: it is in the immutable
\* ledger, or in none and too late for a ranking block.
RetiredIsDead ==
    \A p \in sent \ journal.payments, b \in Live :
        validUntil[p] <= b /\ (p \in Ledger(b) => p \in Ledger(immutable))
-----------------------------------------------------------------------------
(* Liveness *)

IngestAll == ObserverIngest /\ taken' = unread

\* What the holder of the lock does when nothing fails.
Progress ==
    \/ SubmitterSend \/ SubmitterEnd
    \/ ObserverTip \/ ObserverUtxo \/ ObserverRetry \/ ObserverCheck
    \/ ObserverQuit /\ mem.payments = {}

\* A kill, a failed query or three moving points, lines left unread; a step that
\* progress could have taken too is none.
FaultStep == (Crash \/ ObserverQuit \/ (ObserverIngest /\ ~IngestAll)) /\ ~Progress

\* Both drivers try the lock without waiting, again and again, and the recovery
\* driver runs them in turn: an observer gets it now and then.
Fairness ==
    /\ <>[][~FaultStep]_vars
    /\ SF_vars(IngestAll)
    /\ WF_vars(Progress)

FairSpec == Spec /\ Fairness

\* A tracked payment is on the immutable chain through an EB, and the block that
\* certifies it is one whose certificate the nodes log.
Certified(p) ==
    /\ p \in journal.payments
    /\ \E c \in Chain(immutable) :
        blocks[c].certifies /\ EbOf(c).announced /\ p \in EbOf(blocks[c].parent).payments

\* The test is over, the payment is retired, or headers had to be dropped.
Closed(p) == journal.complete \/ p \notin journal.payments \/ Len(blocks) > MaxHeaders

\* leios_tx_certified_and_immutable is reached whenever it can be: a certified
\* payment completes the journal, unless it is retired first or the headers of its
\* chain had to be dropped, however its evidence is spread over ticks.
CertifiedIsWitnessed == \A p \in Payments : Certified(p) ~> Closed(p)
=============================================================================

-------------------------- MODULE LeiosWitness_proofs --------------------------
(***************************************************************************)
(* The safety of the Leios witness, for any payments, any tree of blocks   *)
(* and any bounds: no false alarm, proofs that stay true, no evidence lost *)
(* and no payment retired that may still land.                             *)
(*                                                                         *)
(* The invariant has three layers.  TreeInv and PaymentsInv are about the  *)
(* nodes: the ancestors of a block are a chain, and a block takes only     *)
(* payments that were sent and are valid in its slot.  LinesInv,           *)
(* JournalsInv and EvidenceInv are about what was read: a line that is     *)
(* read or unread is true of its block, and nothing is in neither the      *)
(* journal nor the logs.  RetiredInv and PointInv tie them to the          *)
(* immutable tip.                                                          *)
(***************************************************************************)
EXTENDS LeiosWitness, TLAPS

Forged == 1 .. Len(blocks)
Kinds == {"header", "announced", "body", "certified"}

BlockRecords == [parent : Nat, chain : SUBSET Nat, body : SUBSET Payments, eb : Ebs,
                 certifies : BOOLEAN]

Journals == [started : BOOLEAN, payments : SUBSET Payments, ebs : [Payments -> SUBSET Ebs],
             headers : SUBSET Blocks, announced : SUBSET Blocks, certified : SUBSET Blocks,
             proof : [Payments -> Blocks \cup {NoBlock}], included : SUBSET Payments,
             complete : BOOLEAN]

WitnessTypeOK ==
    /\ blocks \in Seq(BlockRecords)
    /\ Len(blocks) <= MaxBlocks
    /\ immutable \in 0 .. Len(blocks)
    /\ sent \subseteq Payments
    /\ validUntil \in [Payments -> Int]
    /\ unread \subseteq Kinds \X Forged
    /\ taken \subseteq unread
    /\ journal \in Journals
    /\ mem \in Journals
    /\ tip \in Nat \cup {NoBlock}

\* A block extends an earlier one, and its ancestors are a chain.
TreeInv ==
    \A b \in Forged :
        /\ blocks[b].parent \in 0 .. b - 1
        /\ blocks[b].chain = {b} \cup Chain(blocks[b].parent)
        /\ blocks[b].chain \subseteq 1 .. b
        /\ \A c \in blocks[b].chain : Chain(c) \subseteq blocks[b].chain
        /\ \A c, d \in blocks[b].chain : d <= c => d \in Chain(c)

\* A block takes payments that were sent, in the slots that they are valid in.
PaymentsInv ==
    /\ \A b \in Forged : \A p \in blocks[b].body \cup blocks[b].eb.payments :
            p \in sent /\ b < validUntil[p]
    /\ \A p \in sent \cup journal.payments : validUntil[p] # NoSlot

\* A line is true of its block.
LinesInv ==
    /\ \A b \in Forged : <<"certified", b>> \in unread => blocks[b].certifies

\* So is what the journal made of it, and a proof is one on the immutable chain.
Sound(j) ==
    /\ \A c \in j.certified : c \in Forged /\ blocks[c].certifies
    /\ \A p \in Payments : \A eb \in j.ebs[p] : p \in eb.payments
    /\ \A p \in Payments : j.proof[p] # NoBlock =>
            j.proof[p] \in Chain(immutable) /\ p \in Ledger(immutable)

\* The body that holds a payment is in the journal, or among the lines.
Evidence(j, lines) ==
    \A b \in Forged, p \in j.payments :
        p \in blocks[b].eb.payments => blocks[b].eb \in j.ebs[p] \/ <<"body", b>> \in lines

\* Under the lock the copy tracks the same payments.
CopyInv ==
    /\ ~journal.started => journal.payments = {}
    /\ pc # "idle" => mem.started /\ mem.payments = journal.payments
    /\ pc = "idle" => mem.payments = {} /\ taken = {}
    /\ batch \subseteq mem.payments

\* A payment that is out and not tracked is past its bound.
RetiredInv == \A p \in sent \ journal.payments : validUntil[p] <= immutable

\* What is read of a tip that is still the immutable one is its ledger.
PointInv ==
    /\ pc \in {"utxo", "check"} => tip \in 0 .. immutable
    /\ pc = "check" /\ tip = immutable => seen = mem.payments \cap Ledger(immutable)

WitnessInv ==
    /\ WitnessTypeOK
    /\ TreeInv
    /\ PaymentsInv
    /\ LinesInv
    /\ Sound(journal) /\ Sound(mem)
    /\ Evidence(journal, unread) /\ Evidence(mem, unread \ taken)
    /\ CopyInv
    /\ RetiredInv
    /\ PointInv
    /\ alarms = {}
-----------------------------------------------------------------------------
(* The tree of blocks *)

\* What a block adds to the ledger.
Adds(c) == IF blocks[c].certifies THEN EbOf(blocks[c].parent).payments ELSE blocks[c].body

\* The ledger of a chain is what its blocks add.
LEMMA LedgerMember == \A b, p : p \in Ledger(b) <=> \E c \in Chain(b) : p \in Adds(c)
  BY DEF Ledger, Adds

\* The ancestors of a block are blocks, and itself.
LEMMA ChainBounds ==
  ASSUME WitnessTypeOK, TreeInv
  PROVE  /\ \A b \in 0 .. Len(blocks) : Chain(b) \subseteq 1 .. b /\ Chain(b) \subseteq Forged
         /\ \A b \in Forged : b \in Chain(b) /\ Chain(b) = {b} \cup Chain(blocks[b].parent)
         /\ \A b \in 0 .. Len(blocks) : \A c \in Chain(b) : Chain(c) \subseteq Chain(b)
         /\ \A b \in 0 .. Len(blocks) : \A c, d \in Chain(b) : d <= c => d \in Chain(c)
<1>1. Len(blocks) \in Nat
  BY DEF WitnessTypeOK
<1>2. ASSUME NEW b \in Forged PROVE Chain(b) = blocks[b].chain
  BY <1>2 DEF Chain, Forged, Genesis
<1>3. Chain(0) = {}
  BY DEF Chain, Genesis
<1>4. \A b \in 0 .. Len(blocks) : b = 0 \/ b \in Forged
  BY <1>1 DEF Forged
<1>5. \A b \in 0 .. Len(blocks) : Chain(b) \subseteq 1 .. b /\ Chain(b) \subseteq Forged
  <2>1. ASSUME NEW b \in Forged PROVE Chain(b) \subseteq 1 .. b /\ Chain(b) \subseteq Forged
    BY <1>1, <1>2 DEF TreeInv, Forged
  <2> QED BY <2>1, <1>3, <1>4
<1>6. \A b \in Forged : b \in Chain(b) /\ Chain(b) = {b} \cup Chain(blocks[b].parent)
  BY <1>2 DEF TreeInv
<1>7. \A b \in 0 .. Len(blocks) : \A c \in Chain(b) : Chain(c) \subseteq Chain(b)
  BY <1>2, <1>3, <1>4 DEF TreeInv
<1>8. \A b \in 0 .. Len(blocks) : \A c, d \in Chain(b) : d <= c => d \in Chain(c)
  BY <1>2, <1>3, <1>4 DEF TreeInv
<1> QED BY <1>5, <1>6, <1>7, <1>8

\* The blocks that a live block adds to the immutable chain are later, and so are
\* their parents, or the immutable tip itself.
LEMMA LiveChains ==
  ASSUME WitnessTypeOK, TreeInv, NEW b \in Live
  PROVE  /\ b \in immutable .. Len(blocks)
         /\ Chain(immutable) \subseteq Chain(b)
         /\ \A c \in Chain(b) \ Chain(immutable) : c > immutable /\ blocks[c].parent \in immutable .. c - 1
<1> USE ChainBounds DEF Genesis
<1>1. Len(blocks) \in Nat /\ immutable \in 0 .. Len(blocks)
  BY DEF WitnessTypeOK
<1>2. b \in 0 .. Len(blocks) /\ (immutable = 0 \/ immutable = b \/ immutable \in Chain(b))
  BY DEF Live
<1>3. b >= immutable
  BY <1>1, <1>2
<1>4. Chain(immutable) \subseteq Chain(b)
  <2>1. Chain(0) = {}
    BY DEF Chain
  <2> QED BY <1>2, <2>1
<1>5. ASSUME NEW c \in Chain(b), c \notin Chain(immutable)
      PROVE  c > immutable /\ blocks[c].parent \in immutable .. c - 1
  <2>1. c \in Forged /\ c \in Nat /\ blocks[c].parent \in 0 .. c - 1
    BY <1>2, <1>1 DEF TreeInv, Forged
  <2>2. CASE immutable = 0
    BY <2>1, <2>2
  <2>3. CASE immutable # 0
    <3>1. immutable \in Chain(b)
      BY <2>3, <1>1, <1>2 DEF Forged
    <3>2. c > immutable
      <4>1. ~(c <= immutable)
        BY <3>1, <1>2, <1>5
      <4> QED BY <4>1, <1>1, <2>1
    <3>3. immutable \in Chain(c)
      BY <3>1, <3>2, <1>1, <1>2, <2>1
    <3>4. immutable \in Chain(blocks[c].parent)
      BY <3>2, <3>3, <2>1, <1>1
    <3>5. immutable \in 1 .. blocks[c].parent
      <4>1. blocks[c].parent \in 0 .. Len(blocks)
        BY <2>1, <1>1 DEF Forged
      <4> QED BY <4>1, <3>4
    <3> QED BY <3>2, <3>5, <2>1, <1>1
  <2> QED BY <2>2, <2>3
<1> QED BY <1>1, <1>2, <1>3, <1>4, <1>5

\* Past its bound, a payment is in the ledger of a live block only when it is in the
\* immutable one.
LEMMA LateIsDead ==
  ASSUME WitnessTypeOK, TreeInv, PaymentsInv, NEW p \in Payments, validUntil[p] <= immutable,
         NEW b \in Live, p \in Ledger(b)
  PROVE  p \in Ledger(immutable)
<1>1. PICK c \in Chain(b) : p \in Adds(c)
  BY LedgerMember
<1>2. SUFFICES ASSUME c \notin Chain(immutable) PROVE FALSE
  BY <1>1, LedgerMember
<1>3. /\ c > immutable /\ blocks[c].parent \in immutable .. c - 1
      /\ b \in immutable .. Len(blocks)
  BY <1>2, LiveChains
<1>4. Len(blocks) \in Nat /\ immutable \in Nat /\ validUntil[p] \in Int
  BY DEF WitnessTypeOK
<1>5. c \in Forged
  BY <1>3, <1>4, ChainBounds
<1>6. CASE blocks[c].certifies
  <2> DEFINE a == blocks[c].parent
  <2>1. p \in EbOf(a).payments
    BY <1>1, <1>6 DEF Adds
  <2>2. a # Genesis /\ a \in Forged /\ p \in blocks[a].eb.payments
    <3>1. NoEb.payments = {}
      BY DEF NoEb
    <3>2. a # Genesis
      BY <2>1, <3>1 DEF EbOf
    <3> QED BY <2>1, <3>2, <1>3, <1>4, <1>5 DEF EbOf, Forged, Genesis
  <2>3. a < validUntil[p]
    BY <2>2 DEF PaymentsInv
  <2> QED BY <2>3, <1>3, <1>4
<1>7. CASE ~blocks[c].certifies
  <2>1. c < validUntil[p]
    BY <1>1, <1>5, <1>7 DEF PaymentsInv, Adds
  <2>2. c \in Nat
    BY <1>5, <1>4 DEF Forged
  <2> QED BY <2>1, <2>2, <1>3, <1>4
<1> QED BY <1>6, <1>7
-----------------------------------------------------------------------------
(* Steps that leave the chain alone *)

\* A journal without payments says nothing false and needs no evidence.
LEMMA EmptyIsSound ==
  /\ EmptyJournal \in Journals /\ EmptyJournal.payments = {} /\ Sound(EmptyJournal)
  /\ \A lines : Evidence(EmptyJournal, lines)
<1>1. EmptyJournal \in Journals
  BY DEF EmptyJournal, Journals
<1>2. /\ EmptyJournal.payments = {} /\ EmptyJournal.certified = {}
      /\ \A p \in Payments : EmptyJournal.ebs[p] = {} /\ EmptyJournal.proof[p] = NoBlock
  BY DEF EmptyJournal
<1> QED BY <1>1, <1>2 DEF Sound, Evidence

\* The invariant holds before the first tick.
LEMMA WitnessInvInit == Init => WitnessInv
<1> SUFFICES ASSUME Init PROVE WitnessInv
  OBVIOUS
<1> USE WitnessAssumption DEF Init
<1>1. blocks \in Seq(BlockRecords) /\ Len(blocks) = 0 /\ Forged = {}
  BY DEF Forged
<1>2. WitnessTypeOK
  BY <1>1, EmptyIsSound DEF WitnessTypeOK, Genesis, NoBlock, NoSlot
<1>3. TreeInv /\ PaymentsInv /\ LinesInv
  BY <1>1, EmptyIsSound DEF TreeInv, PaymentsInv, LinesInv
<1>4. Sound(journal) /\ Sound(mem) /\ Evidence(journal, unread) /\ Evidence(mem, unread \ taken)
  BY EmptyIsSound
<1>5. CopyInv /\ RetiredInv /\ PointInv
  BY EmptyIsSound DEF CopyInv, RetiredInv, PointInv
<1> QED BY <1>2, <1>3, <1>4, <1>5 DEF WitnessInv

\* What the invariant says of the chain stays true, and of a journal that was sound
\* and is written, or read.
LEMMA ChainFrame ==
  ASSUME WitnessInv, UNCHANGED chainVars
  PROVE  /\ TreeInv' /\ Forged' = Forged /\ Ledger(immutable)' = Ledger(immutable)
         /\ \A j : Sound(j) /\ journal' = j => Sound(journal)'
         /\ \A j : Sound(j) /\ mem' = j => Sound(mem)'
         /\ \A j, lines : Evidence(j, lines) /\ journal' = j /\ unread' = lines => Evidence(journal, unread)'
         /\ \A j, lines : Evidence(j, lines) /\ mem' = j /\ unread' \ taken' = lines
                            => Evidence(mem, unread \ taken)'
<1>1. blocks' = blocks /\ immutable' = immutable
  BY DEF chainVars
<1>2. \A b : Chain(b)' = Chain(b)
  BY <1>1 DEF Chain
<1>3. \A b : Ledger(b)' = Ledger(b)
  BY <1>1, <1>2 DEF Ledger, EbOf
<1>4. Forged' = Forged
  BY <1>1 DEF Forged
<1>5. TreeInv'
  BY <1>1, <1>2, <1>4 DEF WitnessInv, TreeInv
<1>6. Ledger(immutable)' = Ledger(immutable)
  BY <1>1 DEF Ledger, EbOf, Chain
<1>7. ASSUME NEW j, Sound(j) PROVE (journal' = j => Sound(journal)') /\ (mem' = j => Sound(mem)')
  <2>1. Sound(j)'
    BY <1>1, <1>2, <1>3, <1>4, <1>6, <1>7 DEF Sound
  <2>2. ASSUME journal' = j PROVE Sound(journal)'
    BY <2>1, <2>2 DEF Sound
  <2>3. ASSUME mem' = j PROVE Sound(mem)'
    BY <2>1, <2>3 DEF Sound
  <2> QED BY <2>2, <2>3
<1>8. ASSUME NEW j, NEW lines, Evidence(j, lines)
      PROVE  /\ journal' = j /\ unread' = lines => Evidence(journal, unread)'
             /\ mem' = j /\ unread' \ taken' = lines => Evidence(mem, unread \ taken)'
  BY <1>1, <1>4, <1>8 DEF Evidence
<1> QED BY <1>4, <1>5, <1>6, <1>7, <1>8

\* What depends on no more than the chain, the payments and the journal.
LEMMA QuietFrame ==
  ASSUME WitnessInv, UNCHANGED <<chainVars, sent, validUntil>>,
         journal'.payments = journal.payments, unread' \subseteq unread
  PROVE  PaymentsInv' /\ LinesInv' /\ RetiredInv'
<1>1. blocks' = blocks /\ immutable' = immutable /\ Forged' = Forged
  BY DEF chainVars, Forged
<1>2. PaymentsInv'
  BY <1>1 DEF WitnessInv, PaymentsInv
<1>3. LinesInv'
  BY <1>1 DEF WitnessInv, LinesInv
<1>4. RetiredInv'
  BY <1>1 DEF WitnessInv, RetiredInv
<1> QED BY <1>2, <1>3, <1>4

\* A driver ends, with or without a save, or is killed.
LEMMA ReleaseKeeps ==
  ASSUME WitnessInv, SubmitterEnd \/ ObserverQuit \/ Crash PROVE WitnessInv'
<1>1. /\ UNCHANGED <<chainVars, sent, validUntil, alarms>>
      /\ pc # "idle" /\ pc' = "idle" /\ mem' = EmptyJournal /\ taken' = {} /\ batch' = {}
      /\ tip' = NoBlock
      /\ \/ journal' = mem /\ unread' = unread \ taken
         \/ journal' = journal /\ unread' = unread
  BY DEF SubmitterEnd, ObserverQuit, Crash, Release, Save
<1>2. mem.started /\ mem.payments = journal.payments
  BY <1>1 DEF WitnessInv, CopyInv
<1>3. WitnessTypeOK'
  BY <1>1, EmptyIsSound, ChainFrame DEF WitnessInv, WitnessTypeOK, chainVars
<1>4. PaymentsInv' /\ LinesInv' /\ RetiredInv'
  BY <1>1, <1>2, QuietFrame
<1>5. TreeInv' /\ Sound(journal)' /\ Evidence(journal, unread)'
  BY <1>1, ChainFrame DEF WitnessInv
<1>6. Sound(mem)' /\ Evidence(mem, unread \ taken)'
  BY <1>1, ChainFrame, EmptyIsSound
<1>7. CopyInv' /\ PointInv'
  BY <1>1, <1>2, EmptyIsSound DEF WitnessInv, CopyInv, PointInv
<1> QED BY <1>1, <1>3, <1>4, <1>5, <1>6, <1>7 DEF WitnessInv
-----------------------------------------------------------------------------
(* The submit driver *)

\* The copy of a started journal, with more payments or without.
LEMMA JournalUpdates ==
  \A j \in Journals :
    /\ [j EXCEPT !.started = TRUE] \in Journals
    /\ [j EXCEPT !.started = TRUE].started
    /\ [j EXCEPT !.started = TRUE].payments = j.payments
    /\ [j EXCEPT !.started = TRUE].ebs = j.ebs
    /\ [j EXCEPT !.started = TRUE].certified = j.certified
    /\ [j EXCEPT !.started = TRUE].proof = j.proof
    /\ \A S \in SUBSET Payments :
          /\ [j EXCEPT !.payments = @ \cup S] \in Journals
          /\ [j EXCEPT !.payments = @ \cup S].started = j.started
          /\ [j EXCEPT !.payments = @ \cup S].payments = j.payments \cup S
          /\ [j EXCEPT !.payments = @ \cup S].ebs = j.ebs
          /\ [j EXCEPT !.payments = @ \cup S].certified = j.certified
          /\ [j EXCEPT !.payments = @ \cup S].proof = j.proof
  BY DEF Journals

\* Started journals are as sound as the ones they are copies of; the lines that the
\* first driver skips hold no tracked payment.
LEMMA StartedIsSound ==
  ASSUME WitnessInv
  PROVE  /\ Started \in Journals /\ Started.started /\ Started.payments = journal.payments
         /\ Started.certified = journal.certified /\ Started.ebs = journal.ebs
         /\ Started.proof = journal.proof
         /\ Sound(Started)
         /\ Evidence(Started, unread \ Skipped)
         /\ Skipped \subseteq unread
         /\ Skipped # {} => journal.payments = {}
<1>1. journal \in Journals
  BY DEF WitnessInv, WitnessTypeOK
<1>2. /\ Started \in Journals /\ Started.started /\ Started.payments = journal.payments
      /\ Started.ebs = journal.ebs /\ Started.certified = journal.certified
      /\ Started.proof = journal.proof
  BY <1>1, JournalUpdates DEF Started
<1>3. Sound(Started)
  BY <1>2 DEF WitnessInv, Sound
<1>4. Skipped \subseteq unread /\ (Skipped # {} => journal.payments = {})
  BY DEF Skipped, WitnessInv, CopyInv
<1>5. Evidence(Started, unread \ Skipped)
  BY <1>2, <1>4 DEF WitnessInv, Evidence
<1> QED BY <1>2, <1>3, <1>4, <1>5

\* A tick of the submit driver starts.
LEMMA SubmitterStartKeeps == ASSUME WitnessInv, SubmitterStart PROVE WitnessInv'
<1>1. /\ UNCHANGED <<chainVars, sent, validUntil, unread, journal, tip, seen, alarms>>
      /\ pc' = "resubmit" /\ mem' = Started /\ taken' = Skipped
      /\ batch' \subseteq journal.payments
  BY DEF SubmitterStart
<1>2. WitnessTypeOK'
  BY <1>1, StartedIsSound DEF WitnessInv, WitnessTypeOK, chainVars, Forged
<1>3. PaymentsInv' /\ LinesInv' /\ RetiredInv'
  BY <1>1, QuietFrame
<1>4. TreeInv' /\ Sound(journal)' /\ Evidence(journal, unread)'
  BY <1>1, ChainFrame DEF WitnessInv
<1>5. Sound(mem)' /\ Evidence(mem, unread \ taken)'
  BY <1>1, ChainFrame, StartedIsSound
<1>6. CopyInv' /\ PointInv'
  BY <1>1, StartedIsSound DEF WitnessInv, CopyInv, PointInv
<1> QED BY <1>1, <1>2, <1>3, <1>4, <1>5, <1>6 DEF WitnessInv

\* New payments are in no block yet, so that nothing is skipped of them.
LEMMA SubmitterPrepareKeeps == ASSUME WitnessInv, SubmitterPrepare PROVE WitnessInv'
<1> USE WitnessAssumption
<1>1. PICK b \in SUBSET Unsigned, slot \in Live :
        /\ validUntil' = [p \in Payments |-> IF p \in b THEN slot + Validity ELSE validUntil[p]]
        /\ mem' = [mem EXCEPT !.payments = @ \cup b] /\ journal' = mem' /\ batch' = b
        /\ unread' = unread \ taken /\ taken' = {}
  BY DEF SubmitterPrepare, JournalBatch, Save
<1>2. /\ UNCHANGED <<chainVars, sent, tip, seen, alarms>>
      /\ pc = "resubmit" /\ pc' = "broadcast"
  BY DEF SubmitterPrepare
<1>3. b \subseteq Payments /\ mem \in Journals
  BY DEF Unsigned, WitnessInv, WitnessTypeOK
<1>4. /\ mem' \in Journals /\ mem'.started = mem.started /\ mem'.payments = mem.payments \cup b
      /\ mem'.ebs = mem.ebs /\ mem'.certified = mem.certified /\ mem'.proof = mem.proof
  BY <1>1, <1>3, JournalUpdates
<1>5. mem.started /\ mem.payments = journal.payments
  BY <1>2 DEF WitnessInv, CopyInv
<1>6. /\ slot \in Nat /\ slot + Validity \in Int /\ slot + Validity # NoSlot
  BY DEF Live, NoSlot
<1>7. /\ validUntil' \in [Payments -> Int]
      /\ \A p \in b : validUntil'[p] # NoSlot /\ p \notin sent
      /\ \A p \in Payments \ b : validUntil'[p] = validUntil[p]
  BY <1>1, <1>3, <1>6 DEF WitnessInv, WitnessTypeOK, PaymentsInv, Unsigned
<1>8. sent \subseteq Payments /\ journal.payments \subseteq Payments /\ blocks' = blocks /\ immutable' = immutable
  BY <1>2 DEF WitnessInv, WitnessTypeOK, Journals, chainVars
<1>9. WitnessTypeOK'
  BY <1>1, <1>2, <1>4, <1>7, <1>8 DEF WitnessInv, WitnessTypeOK, Forged
<1>10. TreeInv' /\ Forged' = Forged
  BY <1>2, ChainFrame DEF WitnessInv
<1>11. PaymentsInv'
  <2>1. ASSUME NEW c \in Forged, NEW p \in blocks[c].body \cup blocks[c].eb.payments
        PROVE  p \in sent /\ c < validUntil'[p]
    <3>1. p \in sent /\ c < validUntil[p]
      BY <2>1 DEF WitnessInv, PaymentsInv
    <3>2. validUntil'[p] = validUntil[p]
      BY <3>1, <1>7, <1>8
    <3> QED BY <3>1, <3>2
  <2>2. \A p \in sent \cup journal'.payments : validUntil'[p] # NoSlot
    <3>1. \A p \in sent \cup journal.payments : validUntil[p] # NoSlot
      BY DEF WitnessInv, PaymentsInv
    <3> QED BY <3>1, <1>1, <1>4, <1>5, <1>7, <1>8
  <2> QED BY <1>2, <1>8, <1>10, <2>1, <2>2 DEF PaymentsInv
<1>12. LinesInv'
  BY <1>1, <1>8, <1>10 DEF WitnessInv, LinesInv
<1>13. Sound(mem') /\ Evidence(mem', unread \ taken)
  <2>1. Sound(mem')
    BY <1>4 DEF WitnessInv, Sound
  <2>2. ASSUME NEW c \in Forged, NEW p \in mem'.payments, p \in blocks[c].eb.payments
        PROVE  blocks[c].eb \in mem'.ebs[p] \/ <<"body", c>> \in unread \ taken
    <3>1. p \in sent
      BY <2>2 DEF WitnessInv, PaymentsInv
    <3>2. p \in mem.payments
      BY <2>2, <3>1, <1>4, <1>7
    <3> QED BY <2>2, <3>2, <1>4 DEF WitnessInv, Evidence
  <2> QED BY <2>1, <2>2 DEF Evidence
<1>14. Sound(journal)' /\ Sound(mem)' /\ Evidence(journal, unread)' /\ Evidence(mem, unread \ taken)'
  <2>1. unread' \ taken' = unread \ taken
    BY <1>1
  <2> QED BY <2>1, <1>1, <1>2, <1>13, ChainFrame
<1>15. CopyInv'
  BY <1>1, <1>2, <1>4, <1>5 DEF CopyInv
<1>16. RetiredInv'
  BY <1>1, <1>2, <1>4, <1>5, <1>7, <1>8 DEF WitnessInv, RetiredInv
<1>17. PointInv'
  BY <1>2 DEF PointInv
<1> QED BY <1>2, <1>9, <1>10, <1>11, <1>12, <1>14, <1>15, <1>16, <1>17 DEF WitnessInv

\* What is sent is in the journal.
LEMMA SubmitterSendKeeps == ASSUME WitnessInv, SubmitterSend PROVE WitnessInv'
<1>1. PICK p \in batch : sent' \in {sent, sent \cup {p}} /\ batch' = batch \ {p}
  BY DEF SubmitterSend
<1>2. /\ UNCHANGED <<chainVars, validUntil, unread, journal, pc, mem, taken, tip, seen, alarms>>
      /\ pc # "idle"
  BY DEF SubmitterSend
<1>3. p \in journal.payments /\ p \in Payments
  BY <1>1, <1>2 DEF WitnessInv, CopyInv, WitnessTypeOK, Journals
<1>4. WitnessTypeOK'
  BY <1>1, <1>2, <1>3 DEF WitnessInv, WitnessTypeOK, chainVars, Forged
<1>5. TreeInv' /\ Forged' = Forged /\ Sound(journal)' /\ Sound(mem)'
      /\ Evidence(journal, unread)' /\ Evidence(mem, unread \ taken)'
  BY <1>2, ChainFrame DEF WitnessInv
<1>6. blocks' = blocks /\ immutable' = immutable
  BY <1>2 DEF chainVars
<1>7. PaymentsInv'
  BY <1>1, <1>2, <1>3, <1>5, <1>6 DEF WitnessInv, PaymentsInv
<1>8. LinesInv' /\ RetiredInv'
  BY <1>1, <1>2, <1>3, <1>5, <1>6 DEF WitnessInv, LinesInv, RetiredInv
<1>9. CopyInv'
  BY <1>1, <1>2 DEF WitnessInv, CopyInv
<1>10. PointInv'
  BY <1>2, ChainFrame, <1>6 DEF WitnessInv, PointInv
<1> QED BY <1>2, <1>4, <1>5, <1>7, <1>8, <1>9, <1>10 DEF WitnessInv
-----------------------------------------------------------------------------
(* The observe driver *)

\* What filing lines does to a journal: certificates come from lines, and a tracked
\* payment gets the EBs of the bodies that hold it.
LEMMA FiledParts ==
  ASSUME WitnessTypeOK, NEW j \in Journals, NEW lines \in SUBSET unread
  PROVE  LET f == Filed(j, lines) IN
         /\ f \in Journals
         /\ f.started = j.started /\ f.payments = j.payments /\ f.proof = j.proof
         /\ \A c \in f.certified : c \in j.certified \/ <<"certified", c>> \in lines
         /\ \A p \in Payments : \A eb \in f.ebs[p] : eb \in j.ebs[p] \/ p \in eb.payments
         /\ \A p \in j.payments : j.ebs[p] \subseteq f.ebs[p]
         /\ \A p \in j.payments : \A b \in Forged :
                <<"body", b>> \in lines /\ p \in blocks[b].eb.payments => blocks[b].eb \in f.ebs[p]
<1> DEFINE of(kind) == {b \in Blocks : <<kind, b>> \in lines}
           heads == Newest(j.headers \cup of("header"), MaxHeaders)
           full == Cardinality(j.headers \cup of("header")) > MaxHeaders
           kept(S) == IF full THEN {b \in S : \E h \in heads : h <= b} ELSE S
           holding(p) == {EbOf(b) : b \in {c \in of("body") : p \in EbOf(c).payments}}
           announced == kept(j.announced \cup of("announced"))
           certified == kept(j.certified \cup of("certified"))
           ebs == [p \in Payments |-> IF p \in j.payments THEN j.ebs[p] \cup holding(p) ELSE j.ebs[p]]
<1>1. Filed(j, lines) = [j EXCEPT !.headers = heads, !.announced = announced,
                                  !.certified = certified, !.ebs = ebs]
  BY DEF Filed, Accumulated
<1>2. heads \in SUBSET Blocks
  BY DEF Newest, Journals
<1>3. announced \in SUBSET Blocks
  BY DEF Journals
<1>4. certified \in SUBSET Blocks /\ \A c \in certified : c \in j.certified \/ <<"certified", c>> \in lines
  BY DEF Journals
<1>5. Len(blocks) \in Nat /\ Forged \subseteq Blocks /\ MaxBlocks \in Nat
      /\ \A b \in Forged : blocks[b].eb \in Ebs /\ EbOf(b) = blocks[b].eb
  <2>1. Len(blocks) \in Nat /\ Len(blocks) <= MaxBlocks /\ MaxBlocks \in Nat
    BY WitnessAssumption DEF WitnessTypeOK
  <2>2. \A b \in Forged : blocks[b] \in BlockRecords
    BY DEF WitnessTypeOK, Forged
  <2>3. \A b \in Forged : blocks[b].eb \in Ebs
    BY <2>2 DEF BlockRecords
  <2>4. \A b \in Forged : EbOf(b) = blocks[b].eb
    BY <2>1 DEF Forged, EbOf, Genesis
  <2> QED BY <2>1, <2>3, <2>4 DEF Forged, Blocks
<1>6. \A kind : of(kind) \subseteq Forged
  BY DEF WitnessTypeOK
<1>7. \A p : holding(p) \in SUBSET Ebs /\ \A eb \in holding(p) : p \in eb.payments
  BY <1>5, <1>6
<1>8. ebs \in [Payments -> SUBSET Ebs]
  BY <1>7 DEF Journals
<1>9. \A p \in Payments : ebs[p] = IF p \in j.payments THEN j.ebs[p] \cup holding(p) ELSE j.ebs[p]
  OBVIOUS
<1>10. j.payments \subseteq Payments
  BY DEF Journals
<1>11. \A p, b : b \in Forged /\ <<"body", b>> \in lines /\ p \in blocks[b].eb.payments
                   => blocks[b].eb \in holding(p)
  BY <1>5
<1> HIDE DEF heads, announced, certified, ebs, holding
<1>12. /\ Filed(j, lines) \in Journals
       /\ Filed(j, lines).started = j.started /\ Filed(j, lines).payments = j.payments
       /\ Filed(j, lines).proof = j.proof
       /\ Filed(j, lines).certified = certified /\ Filed(j, lines).ebs = ebs
  BY <1>1, <1>2, <1>3, <1>4, <1>8 DEF Journals
<1> QED BY <1>4, <1>7, <1>9, <1>10, <1>11, <1>12

\* The lines that are read go into the copy, the lagging ones stay unread.
LEMMA ObserverIngestKeeps == ASSUME WitnessInv, ObserverIngest PROVE WitnessInv'
<1>1. PICK lag \in SUBSET (unread \ Skipped) :
        taken' = unread \ lag /\ mem' = Filed(Started, (unread \ Skipped) \ lag)
  BY DEF ObserverIngest
<1>2. /\ UNCHANGED <<chainVars, sent, validUntil, unread, journal, batch, tip, seen, alarms>>
      /\ pc = "idle" /\ pc' = "tip"
  BY DEF ObserverIngest
<1> DEFINE lines == (unread \ Skipped) \ lag
<1>3. /\ lines \in SUBSET unread /\ unread \ lag \subseteq unread
      /\ journal.payments # {} => unread \ (unread \ lag) = lag /\ lines = unread \ lag
  BY StartedIsSound
<1>4. WitnessTypeOK
  BY DEF WitnessInv
<1>5. /\ mem' \in Journals
      /\ mem'.started /\ mem'.payments = journal.payments /\ mem'.proof = journal.proof
      /\ \A c \in mem'.certified : c \in journal.certified \/ <<"certified", c>> \in lines
      /\ \A p \in Payments : \A eb \in mem'.ebs[p] : eb \in journal.ebs[p] \/ p \in eb.payments
      /\ \A p \in journal.payments : journal.ebs[p] \subseteq mem'.ebs[p]
      /\ \A p \in journal.payments : \A b \in Forged :
              <<"body", b>> \in lines /\ p \in blocks[b].eb.payments => blocks[b].eb \in mem'.ebs[p]
  <2>1. Started \in Journals
    BY StartedIsSound
  <2> QED BY <2>1, <1>1, <1>3, <1>4, FiledParts, StartedIsSound
<1>6. WitnessTypeOK'
  BY <1>1, <1>2, <1>3, <1>5 DEF WitnessInv, WitnessTypeOK, chainVars, Forged
<1>7. PaymentsInv' /\ LinesInv' /\ RetiredInv'
  BY <1>2, QuietFrame
<1>8. TreeInv' /\ Sound(journal)' /\ Evidence(journal, unread)'
  BY <1>2, ChainFrame DEF WitnessInv
<1>9. Sound(mem')
  <2>1. \A c \in mem'.certified : c \in Forged /\ blocks[c].certifies
    <3>1. \A c \in journal.certified : c \in Forged /\ blocks[c].certifies
      BY DEF WitnessInv, Sound
    <3>2. ASSUME NEW c, <<"certified", c>> \in lines PROVE c \in Forged /\ blocks[c].certifies
      BY <3>2, <1>3, <1>4 DEF WitnessInv, WitnessTypeOK, LinesInv
    <3> QED BY <3>1, <3>2, <1>5
  <2>2. \A p \in Payments : \A eb \in mem'.ebs[p] : p \in eb.payments
    BY <1>5 DEF WitnessInv, Sound
  <2>3. \A p \in Payments : mem'.proof[p] # NoBlock =>
            mem'.proof[p] \in Chain(immutable) /\ p \in Ledger(immutable)
    BY <1>5 DEF WitnessInv, Sound
  <2> QED BY <2>1, <2>2, <2>3 DEF Sound
<1>10. Evidence(mem', unread \ taken')
  <2>1. ASSUME NEW b \in Forged, NEW p \in mem'.payments, p \in blocks[b].eb.payments
        PROVE  blocks[b].eb \in mem'.ebs[p] \/ <<"body", b>> \in unread \ taken'
    <3>1. p \in journal.payments
      BY <1>5, <2>1
    <3>2. blocks[b].eb \in journal.ebs[p] \/ <<"body", b>> \in unread
      BY <2>1, <3>1 DEF WitnessInv, Evidence
    <3>3. <<"body", b>> \in unread => <<"body", b>> \in lines \/ <<"body", b>> \in unread \ taken'
      BY <3>1, <1>1, <1>3
    <3> QED BY <2>1, <3>1, <3>2, <3>3, <1>5
  <2> QED BY <2>1 DEF Evidence
<1>11. Sound(mem)' /\ Evidence(mem, unread \ taken)'
  BY <1>2, <1>9, <1>10, ChainFrame
<1>12. CopyInv'
  BY <1>2, <1>5 DEF WitnessInv, CopyInv
<1>13. PointInv'
  BY <1>2 DEF PointInv
<1> QED BY <1>2, <1>6, <1>7, <1>8, <1>11, <1>12, <1>13 DEF WitnessInv

\* The point may move between the two reads of it; only a read of the same point counts.
LEMMA ObserverReadKeeps ==
  ASSUME WitnessInv, ObserverTip \/ ObserverUtxo \/ ObserverRetry PROVE WitnessInv'
<1>1. /\ UNCHANGED <<chainVars, sent, validUntil, unread, journal, mem, taken, batch, alarms>>
      /\ pc \in {"tip", "utxo", "check"} /\ pc' \in {"tip", "utxo", "check"}
      /\ \/ tip' = immutable /\ pc' = "utxo"
         \/ tip' = tip /\ pc = "utxo" /\ pc' = "check" /\ seen' = mem.payments \cap Ledger(immutable)
         \/ tip' = NoBlock /\ pc' = "tip"
  BY DEF ObserverTip, ObserverUtxo, ObserverRetry
<1>2. immutable \in Nat /\ immutable' = immutable
  BY <1>1 DEF WitnessInv, WitnessTypeOK, chainVars
<1>3. WitnessTypeOK'
  BY <1>1, <1>2 DEF WitnessInv, WitnessTypeOK, chainVars, Forged
<1>4. PaymentsInv' /\ LinesInv' /\ RetiredInv'
  BY <1>1, QuietFrame
<1>5. TreeInv' /\ Sound(journal)' /\ Evidence(journal, unread)' /\ Sound(mem)' /\ Evidence(mem, unread \ taken)'
  BY <1>1, ChainFrame DEF WitnessInv
<1>6. CopyInv'
  BY <1>1 DEF WitnessInv, CopyInv
<1>7. PointInv'
  <2>1. Ledger(immutable)' = Ledger(immutable)
    BY <1>1, ChainFrame
  <2> QED BY <2>1, <1>1, <1>2 DEF WitnessInv, PointInv
<1> QED BY <1>1, <1>3, <1>4, <1>5, <1>6, <1>7 DEF WitnessInv

\* A proof found at an immutable point is one: the EB that its block certifies, on
\* the immutable chain, holds the payment.
LEMMA ProofsHold ==
  ASSUME WitnessInv, tip = immutable, NEW p \in Payments, NEW c \in Proofs(p)
  PROVE  c \in Chain(immutable) /\ p \in Ledger(immutable)
<1>1. /\ c \in mem.certified /\ c \in {Genesis} \cup Chain(immutable)
      /\ EbOf(blocks[c].parent) \in mem.ebs[p]
  BY DEF Proofs, ImmutableAncestors, AnnouncedIn
<1>2. c \in Forged /\ blocks[c].certifies /\ p \in EbOf(blocks[c].parent).payments
  BY <1>1 DEF WitnessInv, Sound
<1>3. c \in Chain(immutable)
  BY <1>1, <1>2 DEF Forged, Genesis
<1>4. p \in Adds(c)
  BY <1>2 DEF Adds
<1> QED BY <1>3, <1>4, LedgerMember

\* A check proves only what is in the ledger, and retires only what is too late.
LEMMA ObserverCheckKeeps == ASSUME WitnessInv, ObserverCheck PROVE WitnessInv'
<1>1. PICK proof \in [Payments -> Blocks \cup {NoBlock}] :
        LET proven == {p \in mem.payments : proof[p] # NoBlock}
            complete == mem.complete \/ proven \cap seen # {}
        IN  /\ \A p \in Payments :
                 \/ p \in mem.payments /\ mem.proof[p] = NoBlock /\ proof[p] \in Proofs(p)
                 \/ /\ p \in mem.payments /\ mem.proof[p] = NoBlock => Proofs(p) = {}
                    /\ proof[p] = mem.proof[p]
            /\ alarms' = IF proven \subseteq seen THEN alarms
                         ELSE alarms \cup {"certified_tx_payment_matches"}
            /\ Save([mem EXCEPT !.proof = proof,
                                !.included = @ \cup seen,
                                !.complete = complete,
                                !.payments = IF complete THEN @ ELSE {p \in @ : ~Expired(p)}],
                    taken)
  BY DEF ObserverCheck
<1> DEFINE proven == {p \in mem.payments : proof[p] # NoBlock}
           complete == mem.complete \/ proven \cap seen # {}
           kept == IF complete THEN mem.payments ELSE {p \in mem.payments : ~Expired(p)}
<1>2. /\ UNCHANGED <<chainVars, sent, validUntil>>
      /\ pc = "check" /\ tip = immutable
      /\ pc' = "idle" /\ mem' = EmptyJournal /\ taken' = {} /\ batch' = {} /\ tip' = NoBlock
  BY DEF ObserverCheck, SamePoint, Release
<1>3. \A p \in Payments : proof[p] = mem.proof[p] \/ proof[p] \in Proofs(p)
  BY <1>1
<1>4. alarms' = IF proven \subseteq seen THEN alarms ELSE alarms \cup {"certified_tx_payment_matches"}
  BY <1>1
<1>5. /\ journal' = [mem EXCEPT !.proof = proof, !.included = @ \cup seen, !.complete = complete,
                                !.payments = kept]
      /\ unread' = unread \ taken
  BY <1>1 DEF Save
<1>6. /\ WitnessTypeOK /\ mem \in Journals /\ mem.started /\ mem.payments = journal.payments
      /\ seen = mem.payments \cap Ledger(immutable) /\ mem.payments \subseteq Payments
      /\ blocks' = blocks /\ immutable' = immutable
  BY <1>2 DEF WitnessInv, WitnessTypeOK, CopyInv, PointInv, Journals, chainVars
<1>7. kept \subseteq mem.payments /\ complete \in BOOLEAN
  BY <1>6 DEF Journals
<1> HIDE DEF kept, complete
<1>8. /\ journal' \in Journals
      /\ journal'.started = mem.started /\ journal'.payments = kept /\ journal'.ebs = mem.ebs
      /\ journal'.certified = mem.certified /\ journal'.proof = proof
  BY <1>5, <1>6, <1>7 DEF Journals
<1>9. \A p \in Payments : proof[p] # NoBlock => proof[p] \in Chain(immutable) /\ p \in Ledger(immutable)
  BY <1>2, <1>3, ProofsHold DEF WitnessInv, Sound
<1>10. alarms' = {}
  <2>1. proven \subseteq seen
    BY <1>6, <1>9
  <2> QED BY <2>1, <1>4 DEF WitnessInv
<1>11. WitnessTypeOK'
  BY <1>2, <1>5, <1>6, <1>8, EmptyIsSound DEF WitnessTypeOK, Forged
<1>12. TreeInv' /\ Forged' = Forged
  BY <1>2, ChainFrame
<1>13. Sound(journal') /\ Evidence(journal', unread \ taken)
  <2>1. Sound(journal')
    BY <1>8, <1>9 DEF WitnessInv, Sound
  <2>2. Evidence(journal', unread \ taken)
    BY <1>7, <1>8 DEF WitnessInv, Evidence
  <2> QED BY <2>1, <2>2
<1>14. Sound(journal)' /\ Evidence(journal, unread)' /\ Sound(mem)' /\ Evidence(mem, unread \ taken)'
  BY <1>2, <1>5, <1>13, EmptyIsSound, ChainFrame
<1>15. PaymentsInv' /\ LinesInv'
  <2>1. PaymentsInv'
    BY <1>2, <1>6, <1>7, <1>8, <1>12 DEF WitnessInv, PaymentsInv
  <2>2. LinesInv'
    BY <1>5, <1>6, <1>12 DEF WitnessInv, LinesInv
  <2> QED BY <2>1, <2>2
<1>16. CopyInv' /\ PointInv'
  BY <1>2, <1>6, <1>8, EmptyIsSound DEF CopyInv, PointInv
<1>17. RetiredInv'
  <2>1. ASSUME NEW p \in sent \ kept PROVE validUntil[p] <= immutable
    <3>1. CASE p \in mem.payments
      BY <2>1, <3>1, <1>2 DEF kept, Expired
    <3>2. CASE p \notin mem.payments
      BY <2>1, <3>2, <1>6 DEF WitnessInv, RetiredInv
    <3> QED BY <3>1, <3>2
  <2> QED BY <2>1, <1>2, <1>6, <1>8 DEF RetiredInv
<1> QED BY <1>10, <1>11, <1>12, <1>14, <1>15, <1>16, <1>17 DEF WitnessInv
-----------------------------------------------------------------------------
(* The chain grows *)

\* A new block leaves the others and their ancestors as they are.
LEMMA ForgedBlock ==
  ASSUME WitnessTypeOK, TreeInv, Len(blocks) < MaxBlocks, NEW r \in BlockRecords,
         blocks' = Append(blocks, r), immutable' = immutable
  PROVE  /\ Len(blocks) \in Nat /\ Len(blocks) + 1 <= MaxBlocks
         /\ blocks' \in Seq(BlockRecords) /\ Len(blocks') = Len(blocks) + 1
         /\ Forged' = Forged \cup {Len(blocks) + 1} /\ Len(blocks) + 1 \notin Forged
         /\ \A c \in Forged : blocks'[c] = blocks[c]
         /\ blocks'[Len(blocks) + 1] = r
         /\ \A b \in 0 .. Len(blocks) : Chain(b)' = Chain(b)
         /\ Chain(immutable)' = Chain(immutable)
         /\ Ledger(immutable)' = Ledger(immutable)
<1>1. /\ Len(blocks) \in Nat /\ MaxBlocks \in Nat /\ immutable \in 0 .. Len(blocks)
      /\ blocks \in Seq(BlockRecords)
  BY WitnessAssumption DEF WitnessTypeOK
<1>2. /\ blocks' \in Seq(BlockRecords) /\ Len(blocks') = Len(blocks) + 1
      /\ \A c \in 1 .. Len(blocks) : blocks'[c] = blocks[c]
      /\ blocks'[Len(blocks) + 1] = r
  BY <1>1
<1>3. Forged' = Forged \cup {Len(blocks) + 1} /\ Len(blocks) + 1 \notin Forged
  BY <1>1, <1>2 DEF Forged
<1>4. \A b \in 0 .. Len(blocks) : Chain(b)' = Chain(b)
  BY <1>1, <1>2 DEF Chain, Genesis
<1>5. Chain(immutable)' = Chain(immutable)
  BY <1>1, <1>2 DEF Chain, Genesis
<1>6. Ledger(immutable)' = Ledger(immutable)
  <2>1. ASSUME NEW c \in Chain(immutable)
        PROVE  /\ blocks'[c] = blocks[c]
               /\ EbOf(blocks[c].parent)' = EbOf(blocks[c].parent)
    <3>1. c \in Forged /\ blocks[c].parent \in 0 .. Len(blocks)
      <4>1. c \in Forged
        BY <1>1, <2>1, ChainBounds
      <4> QED BY <4>1, <1>1 DEF TreeInv, Forged
    <3>2. blocks'[c] = blocks[c]
      BY <3>1, <1>2 DEF Forged
    <3>3. \A a \in 0 .. Len(blocks) : EbOf(a)' = EbOf(a)
      BY <1>1, <1>2 DEF EbOf, Genesis
    <3>4. EbOf(blocks[c].parent)' = EbOf(blocks[c].parent)
      BY <3>1, <3>2, <1>1, <1>2 DEF EbOf, Genesis
    <3> QED BY <3>2, <3>4
  <2>2. \A c \in Chain(immutable) : Adds(c)' = Adds(c)
    BY <2>1 DEF Adds
  <2>3. \A p : (p \in Ledger(immutable))' <=> \E c \in Chain(immutable)' : p \in Adds(c)'
    BY DEF Ledger, Adds
  <2>4. \A p : p \in Ledger(immutable)' <=> p \in Ledger(immutable)
    BY <2>2, <2>3, <1>5, LedgerMember
  <2> QED BY <2>4
<1>7. \A c \in Forged : blocks'[c] = blocks[c]
  BY <1>2 DEF Forged
<1>8. Len(blocks) + 1 <= MaxBlocks
  BY <1>1
<1> QED BY <1>1, <1>2, <1>3, <1>4, <1>5, <1>6, <1>7, <1>8

\* A block extends the chain of its parent.
LEMMA ForgedTree ==
  ASSUME WitnessTypeOK, TreeInv, Len(blocks) < MaxBlocks, NEW r \in BlockRecords,
         blocks' = Append(blocks, r), immutable' = immutable,
         r.parent \in 0 .. Len(blocks), r.chain = {Len(blocks) + 1} \cup Chain(r.parent)
  PROVE  TreeInv'
<1>0. PICK n : n = Len(blocks) + 1
  OBVIOUS
<1>1. n = Len(blocks) + 1 /\ Len(blocks) \in Nat /\ n \notin Forged /\ Forged' = Forged \cup {n}
  BY <1>0, ForgedBlock
<1>2. \A b \in Forged : blocks'[b] = blocks[b] /\ b \in 0 .. Len(blocks)
  BY <1>1, ForgedBlock DEF Forged
<1>3. blocks'[n] = r
  BY <1>0, ForgedBlock
<1>4. \A b \in 0 .. Len(blocks) : Chain(b)' = Chain(b)
  BY ForgedBlock
<1>5. Chain(n)' = r.chain
  BY <1>1, <1>3 DEF Chain, Genesis
<1>6. ASSUME NEW b \in Forged
      PROVE  /\ blocks'[b].parent \in 0 .. b - 1
             /\ blocks'[b].chain = {b} \cup Chain(blocks[b].parent)'
             /\ blocks'[b].chain \subseteq 1 .. b
             /\ \A c \in blocks'[b].chain : Chain(c)' \subseteq blocks'[b].chain
             /\ \A c, d \in blocks'[b].chain : d <= c => d \in Chain(c)'
  <2>1. blocks[b].parent \in 0 .. b - 1 /\ blocks[b].parent \in 0 .. Len(blocks)
    BY <1>1, <1>2 DEF TreeInv
  <2>2. blocks[b].chain \subseteq 1 .. b /\ blocks[b].chain \subseteq 0 .. Len(blocks)
    BY <1>1, <1>2 DEF TreeInv
  <2> QED BY <2>1, <2>2, <1>2, <1>4 DEF TreeInv
<1>7. /\ r.parent \in 0 .. n - 1
      /\ r.chain \subseteq 1 .. n
      /\ \A c \in r.chain : Chain(c)' \subseteq r.chain
      /\ \A c, d \in r.chain : d <= c => d \in Chain(c)'
  <2>1. /\ Chain(r.parent) \subseteq 1 .. r.parent
        /\ \A c \in Chain(r.parent) : Chain(c) \subseteq Chain(r.parent)
        /\ \A c, d \in Chain(r.parent) : d <= c => d \in Chain(c)
    BY ChainBounds
  <2>2. \A c \in Chain(r.parent) : c \in 0 .. Len(blocks) /\ Chain(c)' = Chain(c) /\ c < n
    BY <2>1, <1>1, <1>4
  <2>3. ASSUME NEW c \in r.chain, NEW d \in r.chain, d <= c PROVE d \in Chain(c)'
    <3>1. CASE c = n
      BY <3>1, <1>5
    <3>2. CASE c # n
      <4>1. c \in Chain(r.parent) /\ c < n
        BY <3>2, <2>2, <1>0
      <4>2. d # n
        BY <4>1, <1>1, <2>2, <2>3
      <4> QED BY <4>1, <4>2, <2>1, <2>2, <2>3
    <3> QED BY <3>1, <3>2
  <2>4. \A c \in r.chain : Chain(c)' \subseteq r.chain
    BY <2>1, <2>2, <1>0, <1>5
  <2>5. r.chain \subseteq 1 .. n
    BY <2>1, <1>1
  <2> QED BY <2>3, <2>4, <2>5, <1>1
<1>8. Chain(r.parent)' = Chain(r.parent)
  BY <1>4
<1>9. \A b \in Forged' :
          /\ blocks'[b].parent \in 0 .. b - 1
          /\ blocks'[b].chain = {b} \cup Chain(blocks[b].parent)'
          /\ blocks'[b].chain \subseteq 1 .. b
          /\ \A c \in blocks'[b].chain : Chain(c)' \subseteq blocks'[b].chain
          /\ \A c, d \in blocks'[b].chain : d <= c => d \in Chain(c)'
  BY <1>1, <1>2, <1>3, <1>6, <1>7, <1>8
<1> QED BY <1>9 DEF TreeInv

\* A block of the nodes takes no payment that is not sent or not valid, and its lines
\* are all unread.
LEMMA ForgeKeeps == ASSUME WitnessInv, Forge PROVE WitnessInv'
<1>0. PICK n : n = Len(blocks) + 1
  OBVIOUS
<1>1. PICK parent \in Live, certifies \in BOOLEAN, eb \in Ebs, body \in SUBSET sent :
        /\ body \cup eb.payments \subseteq {p \in sent : n < validUntil[p]}
        /\ blocks' = Append(blocks, [parent |-> parent, chain |-> {n} \cup Chain(parent),
                                     body |-> body, eb |-> eb, certifies |-> certifies])
        /\ unread' = unread \cup LinesOf(n, eb, certifies)
  <2>1. PICK parent \in Live, certifies \in BOOLEAN, eb \in Ebs, body \in SUBSET sent :
          LET slot == Len(blocks) + 1
              onChain == Ledger(parent) \cup (IF certifies THEN EbOf(parent).payments ELSE {})
              free == {p \in sent \ onChain : slot < validUntil[p]}
          IN  /\ certifies => EbOf(parent).announced /\ body = {}
              /\ body \subseteq free
              /\ eb.payments \subseteq free \ body
              /\ blocks' = Append(blocks, [parent |-> parent, chain |-> {slot} \cup Chain(parent),
                                           body |-> body, eb |-> eb, certifies |-> certifies])
              /\ unread' = unread \cup LinesOf(slot, eb, certifies)
    BY DEF Forge
  <2>2. body \cup eb.payments \subseteq {p \in sent : n < validUntil[p]}
    BY <1>0, <2>1
  <2>3. blocks' = Append(blocks, [parent |-> parent, chain |-> {n} \cup Chain(parent),
                                  body |-> body, eb |-> eb, certifies |-> certifies])
    BY <1>0, <2>1
  <2>4. unread' = unread \cup LinesOf(n, eb, certifies)
    BY <1>0, <2>1
  <2> QED BY <2>2, <2>3, <2>4
<1>2. PICK r : r = [parent |-> parent, chain |-> {n} \cup Chain(parent),
                    body |-> body, eb |-> eb, certifies |-> certifies]
  OBVIOUS
<1>3. /\ UNCHANGED <<immutable, sent, validUntil, journal, driverVars, alarms>>
      /\ Len(blocks) < MaxBlocks
  BY DEF Forge
<1>4. WitnessTypeOK /\ TreeInv /\ sent \subseteq Payments /\ Len(blocks) \in Nat
  BY DEF WitnessInv, WitnessTypeOK
<1>5. parent \in 0 .. Len(blocks) /\ Chain(parent) \subseteq Nat /\ n \in Nat
  <2>1. parent \in 0 .. Len(blocks)
    BY DEF Live
  <2> QED BY <2>1, <1>0, <1>4, ChainBounds
<1>6. r \in BlockRecords /\ blocks' = Append(blocks, r)
      /\ r.parent = parent /\ r.chain = {n} \cup Chain(parent)
      /\ r.eb = eb /\ r.body = body /\ r.certifies = certifies
  <2>1. body \subseteq Payments
    BY <1>4
  <2> QED BY <2>1, <1>1, <1>2, <1>5 DEF BlockRecords
<1>7. /\ n <= MaxBlocks
      /\ blocks' \in Seq(BlockRecords) /\ Len(blocks') = n
      /\ Forged' = Forged \cup {n} /\ n \notin Forged
      /\ \A c \in Forged : blocks'[c] = blocks[c]
      /\ blocks'[n] = r
      /\ Chain(immutable)' = Chain(immutable)
      /\ Ledger(immutable)' = Ledger(immutable)
  BY <1>0, <1>3, <1>4, <1>6, ForgedBlock
<1>8. TreeInv'
  BY <1>0, <1>3, <1>4, <1>5, <1>6, ForgedTree
<1>9. /\ LinesOf(n, eb, certifies) \subseteq Kinds \X {n}
      /\ \A b : <<"certified", b>> \in LinesOf(n, eb, certifies) => b = n /\ certifies
      /\ eb.payments # {} => <<"body", n>> \in LinesOf(n, eb, certifies)
  <2>1. eb.payments # {} => eb.announced
    <3>1. CASE eb = NoEb
      BY <3>1 DEF NoEb
    <3>2. CASE eb \in [announced : {TRUE}, payments : SUBSET Payments]
      <4>1. eb.announced = TRUE
        BY <3>2
      <4> QED BY <4>1
    <3> QED BY <3>1, <3>2 DEF Ebs
  <2> QED BY <2>1 DEF LinesOf, Kinds
<1>10. UNCHANGED <<sent, validUntil, journal, pc, mem, taken, batch, tip, seen, alarms>>
  BY <1>3 DEF driverVars
<1>11. WitnessTypeOK'
  <2>1. unread' \subseteq Kinds \X Forged'
    BY <1>1, <1>4, <1>7, <1>9 DEF WitnessTypeOK
  <2>2. taken' \subseteq unread'
    BY <1>1, <1>4, <1>10 DEF WitnessTypeOK
  <2>3. immutable' \in 0 .. Len(blocks')
    BY <1>0, <1>3, <1>4, <1>7 DEF WitnessTypeOK
  <2> QED BY <2>1, <2>2, <2>3, <1>4, <1>7, <1>10 DEF WitnessTypeOK
<1>12. PaymentsInv'
  <2>1. ASSUME NEW b \in Forged', NEW p \in blocks'[b].body \cup blocks'[b].eb.payments
        PROVE  p \in sent /\ b < validUntil[p]
    <3>1. CASE b = n
      BY <2>1, <3>1, <1>1, <1>6, <1>7
    <3>2. CASE b \in Forged
      BY <2>1, <3>2, <1>7 DEF WitnessInv, PaymentsInv
    <3> QED BY <3>1, <3>2, <1>7
  <2> QED BY <2>1, <1>10 DEF WitnessInv, PaymentsInv
<1>13. LinesInv'
  <2>1. ASSUME NEW b \in Forged', <<"certified", b>> \in unread' PROVE blocks'[b].certifies
    <3>1. CASE <<"certified", b>> \in unread
      <4>1. b \in Forged
        BY <3>1, <1>4 DEF WitnessTypeOK
      <4> QED BY <3>1, <4>1, <1>7 DEF WitnessInv, LinesInv
    <3>2. CASE <<"certified", b>> \in LinesOf(n, eb, certifies)
      BY <3>2, <1>6, <1>7, <1>9
    <3> QED BY <3>1, <3>2, <2>1, <1>1
  <2> QED BY <2>1 DEF LinesInv
<1>14. Sound(journal)' /\ Sound(mem)'
  <2>1. ASSUME NEW j, Sound(j)
        PROVE  /\ \A c \in j.certified : c \in Forged' /\ blocks'[c].certifies
               /\ \A p \in Payments : j.proof[p] # NoBlock =>
                    j.proof[p] \in Chain(immutable)' /\ p \in Ledger(immutable)'
    BY <2>1, <1>7 DEF Sound
  <2>2. Sound(journal)'
    BY <2>1, <1>10 DEF WitnessInv, Sound
  <2>3. Sound(mem)'
    BY <2>1, <1>10 DEF WitnessInv, Sound
  <2> QED BY <2>2, <2>3
<1>15. Evidence(journal, unread)' /\ Evidence(mem, unread \ taken)'
  <2>1. <<"body", n>> \notin taken
    BY <1>4, <1>7 DEF WitnessTypeOK
  <2>2. ASSUME NEW p, NEW b \in Forged', p \in blocks'[b].eb.payments, b \notin Forged
        PROVE  <<"body", b>> \in unread' \ taken
    <3>1. b = n /\ p \in eb.payments
      BY <2>2, <1>6, <1>7
    <3> QED BY <3>1, <2>1, <1>1, <1>9
  <2>3. unread \subseteq unread'
    BY <1>1
  <2>4. Evidence(journal, unread)'
    BY <2>2, <2>3, <1>7, <1>10 DEF WitnessInv, Evidence
  <2>5. Evidence(mem, unread \ taken)'
    BY <2>2, <2>3, <1>7, <1>10 DEF WitnessInv, Evidence
  <2> QED BY <2>4, <2>5
<1>16. CopyInv' /\ RetiredInv'
  BY <1>3, <1>10 DEF WitnessInv, CopyInv, RetiredInv
<1>17. PointInv'
  BY <1>3, <1>7, <1>10 DEF WitnessInv, PointInv
<1> QED BY <1>8, <1>10, <1>11, <1>12, <1>13, <1>14, <1>15, <1>16, <1>17 DEF WitnessInv

\* The immutable chain only grows: what was proved of it stays proved, and a tip that
\* was read before is not the tip any more.
LEMMA SettleKeeps == ASSUME WitnessInv, Settle PROVE WitnessInv'
<1>1. PICK b \in Live \ {immutable} : blocks[b].parent = immutable /\ immutable' = b
  BY DEF Settle
<1>2. UNCHANGED <<blocks, sent, validUntil, unread, journal, driverVars, alarms>>
  BY DEF Settle
<1>3. WitnessTypeOK /\ TreeInv /\ Len(blocks) \in Nat /\ immutable \in 0 .. Len(blocks)
  BY DEF WitnessInv, WitnessTypeOK
<1>4. b \in Forged /\ b > immutable /\ Chain(immutable) \subseteq Chain(b)
  <2>1. b \in immutable .. Len(blocks) /\ Chain(immutable) \subseteq Chain(b) /\ b # immutable
    BY <1>3, LiveChains
  <2> QED BY <2>1, <1>3 DEF Forged
<1>5. Ledger(immutable) \subseteq Ledger(b)
  BY <1>4, LedgerMember
<1>6. Chain(immutable)' = Chain(b) /\ Ledger(immutable)' = Ledger(b) /\ Forged' = Forged
  BY <1>1, <1>2 DEF Chain, Ledger, EbOf, Forged
<1>7. UNCHANGED <<blocks, sent, validUntil, unread, journal, pc, mem, taken, batch, tip, seen, alarms>>
  BY <1>2 DEF driverVars
<1>8. WitnessTypeOK'
  BY <1>1, <1>3, <1>4, <1>6, <1>7 DEF WitnessTypeOK, Forged
<1>9. TreeInv'
  <2>1. \A c : Chain(c)' = Chain(c)
    BY <1>7 DEF Chain
  <2> QED BY <2>1, <1>3, <1>6, <1>7 DEF TreeInv
<1>10. PaymentsInv' /\ LinesInv'
  BY <1>6, <1>7 DEF WitnessInv, PaymentsInv, LinesInv
<1>11. Sound(journal)' /\ Sound(mem)'
  BY <1>4, <1>5, <1>6, <1>7 DEF WitnessInv, Sound
<1>12. Evidence(journal, unread)' /\ Evidence(mem, unread \ taken)'
  BY <1>6, <1>7 DEF WitnessInv, Evidence
<1>13. CopyInv'
  BY <1>7 DEF WitnessInv, CopyInv
<1>14. RetiredInv'
  <2>1. ASSUME NEW p \in sent \ journal.payments PROVE validUntil[p] <= b
    <3>1. validUntil[p] <= immutable /\ validUntil[p] \in Int
      BY <1>3 DEF WitnessInv, RetiredInv, WitnessTypeOK
    <3> QED BY <3>1, <1>3, <1>4 DEF Forged
  <2> QED BY <2>1, <1>1, <1>7 DEF RetiredInv
<1>15. PointInv'
  <2>1. pc \in {"utxo", "check"} => tip \in 0 .. b /\ tip # b
    BY <1>3, <1>4 DEF WitnessInv, PointInv, Forged
  <2> QED BY <2>1, <1>1, <1>7 DEF PointInv
<1> QED BY <1>7, <1>8, <1>9, <1>10, <1>11, <1>12, <1>13, <1>14, <1>15 DEF WitnessInv
-----------------------------------------------------------------------------
(* The theorems *)

\* The invariant of the witness holds in every behaviour.
THEOREM WitnessInductive == Spec => []WitnessInv
<1>1. WitnessInv /\ [Next]_vars => WitnessInv'
  <2> SUFFICES ASSUME WitnessInv, [Next]_vars PROVE WitnessInv'
    OBVIOUS
  <2>1. CASE Forge \/ Settle
    BY <2>1, ForgeKeeps, SettleKeeps
  <2>2. CASE Submit
    BY <2>2, SubmitterStartKeeps, SubmitterPrepareKeeps, SubmitterSendKeeps, ReleaseKeeps DEF Submit
  <2>3. CASE Observe
    BY <2>3, ObserverIngestKeeps, ObserverReadKeeps, ObserverCheckKeeps, ReleaseKeeps DEF Observe
  <2>4. CASE Crash
    BY <2>4, ReleaseKeeps
  <2>5. CASE UNCHANGED vars
    <3>1. UNCHANGED <<blocks, immutable, sent, validUntil, unread, journal, pc, mem, taken, batch,
                      tip, seen, alarms>>
      BY <2>5 DEF vars, chainVars, driverVars
    <3>2. TreeInv' /\ Sound(journal)' /\ Sound(mem)' /\ Evidence(journal, unread)'
          /\ Evidence(mem, unread \ taken)' /\ Ledger(immutable)' = Ledger(immutable)
      BY <3>1, ChainFrame DEF WitnessInv, chainVars
    <3>3. WitnessTypeOK'
      BY <3>1 DEF WitnessInv, WitnessTypeOK, Forged
    <3>4. PaymentsInv' /\ LinesInv' /\ RetiredInv'
      BY <3>1, QuietFrame DEF chainVars
    <3>5. CopyInv' /\ PointInv'
      BY <3>1, <3>2 DEF WitnessInv, CopyInv, PointInv
    <3> QED BY <3>1, <3>2, <3>3, <3>4, <3>5 DEF WitnessInv
  <2> QED BY <2>1, <2>2, <2>3, <2>4, <2>5 DEF Next
<1> QED BY <1>1, WitnessInvInit, PTL DEF Spec

\* The assertion on certified payments never fires on a correct ledger.
THEOREM NeverFalsePaymentAlarm == Spec => []NoFalsePaymentAlarm
<1>1. WitnessInv => NoFalsePaymentAlarm
  BY DEF WitnessInv, NoFalsePaymentAlarm
<1> QED BY <1>1, WitnessInductive, PTL

\* A proof that was saved is on the immutable chain for good, with its payment.
THEOREM SavedProofsAreFinal == Spec => []ProofsAreFinal
<1>1. WitnessInv => ProofsAreFinal
  BY DEF WitnessInv, WitnessTypeOK, Journals, Sound, ProofsAreFinal
<1> QED BY <1>1, WitnessInductive, PTL

\* No evidence is lost between the logs and the journal.
THEOREM BodiesAreAttributed == Spec => []BodiesAttributed
<1>1. WitnessInv => BodiesAttributed
  <2> SUFFICES ASSUME WitnessInv PROVE BodiesAttributed
    OBVIOUS
  <2>1. \A b \in Forged : EbOf(b) = blocks[b].eb
    BY DEF Forged, EbOf, Genesis, WitnessInv, WitnessTypeOK
  <2> QED BY <2>1 DEF WitnessInv, Evidence, BodiesAttributed, Forged
<1> QED BY <1>1, WitnessInductive, PTL

\* A payment that is out and not tracked can land on no fork any more.
THEOREM RetiredIsDeadForGood == Spec => []RetiredIsDead
<1>1. WitnessInv => RetiredIsDead
  <2> SUFFICES ASSUME WitnessInv, NEW p \in sent \ journal.payments, NEW b \in Live
               PROVE  validUntil[p] <= b /\ (p \in Ledger(b) => p \in Ledger(immutable))
    BY DEF RetiredIsDead
  <2>1. validUntil[p] <= immutable /\ p \in Payments /\ validUntil[p] \in Int
    BY DEF WitnessInv, RetiredInv, WitnessTypeOK
  <2>2. b \in immutable .. Len(blocks)
    BY LiveChains DEF WitnessInv
  <2>3. validUntil[p] <= b
    BY <2>1, <2>2 DEF WitnessInv, WitnessTypeOK
  <2>4. p \in Ledger(b) => p \in Ledger(immutable)
    BY <2>1, LateIsDead DEF WitnessInv
  <2> QED BY <2>3, <2>4
<1> QED BY <1>1, WitnessInductive, PTL
=============================================================================

--------------------------- MODULE VoteQueue_proofs ---------------------------
(***************************************************************************)
(* The two voting workloads, proved for any number of drivers, actions,    *)
(* credentials and payment addresses: a batch of missing votes replaces    *)
(* only votes that were left in transit (OnlyStraysReplaced).              *)
(*                                                                         *)
(* That is not inductive.  QueueInv says who holds the vote lock and the   *)
(* payment addresses, and which actions the drivers and the chain know;    *)
(* BatchInv relates what is recorded to what a driver has read (pick) or   *)
(* is about to send (submit), and says who waits for a pending batch.      *)
(***************************************************************************)
EXTENDS VoteQueue, FiniteSetTheorems, TLAPS

Stages == {"none", "sent", "listed", "gone"}
Ballots == [sender : VoteDrivers \cup {Nobody}, action : Actions,
            voters : SUBSET Credentials, fills : BOOLEAN]
Jobs == [actions : SUBSET Actions, voters : SUBSET Credentials, fills : BOOLEAN]

QueueTypeInv ==
    /\ workload \in {"info", "pparam"}
    /\ epoch \in Nat
    /\ stage \in [Actions -> Stages]
    /\ expires \in [Actions -> Int]
    /\ recorded \in [Actions -> SUBSET Credentials]
    /\ mempool \in SUBSET Ballots
    /\ voteLock \in VoteDrivers \cup {Nobody}
    /\ paying \in SUBSET Drivers
    /\ pc \in [Drivers -> {"idle", "query", "pick", "submit", "wait"}]
    /\ snap \in [VoteDrivers -> [live : SUBSET Actions, votes : [Actions -> SUBSET Credentials]]]
    /\ job \in [Drivers -> Jobs]
    /\ stray \in [Actions -> SUBSET Credentials]

\* A vote driver holds the lock from its start to its end, and every driver that
\* runs holds a payment address.
LockInv ==
    /\ \A d \in VoteDrivers : pc[d] # "idle" => voteLock = d
    /\ paying = {d \in Drivers : pc[d] # "idle"}
    /\ Cardinality(paying) <= NumAddrs
    /\ IsFiniteSet(paying)

\* Votes are recorded, or wait, for listed actions only; what a vote driver has read
\* or picked was listed, and may be gone; a creator's action is its own.
ChainInv ==
    /\ \A a \in Actions : recorded[a] # {} => stage[a] = "listed"
    /\ \A tx \in mempool : stage[tx.action] = "listed"
    /\ \A d \in VoteDrivers : \A a \in snap[d].live \cup job[d].actions :
            stage[a] \in {"listed", "gone"}
    /\ \A d \in Creators : pc[d] = "submit" => \A a \in job[d].actions : stage[a] = "none"
    /\ \A c, d \in Creators : c # d => job[c].actions \cap job[d].actions = {}
    /\ \A d \in Drivers : pc[d] = "idle" => job[d] = NoJob

QueueInv == QueueTypeInv /\ LockInv /\ ChainInv

\* Somebody waits for a transaction, and sent one only, or its votes are strays.
SenderInv ==
    /\ \A tx \in mempool : IF tx.sender = Nobody THEN tx.voters \subseteq stray[tx.action]
                          ELSE pc[tx.sender] = "wait"
    /\ \A tx, other \in mempool :
            tx.sender = other.sender /\ tx.sender # Nobody => tx = other

\* What is recorded beyond a driver's snapshot, or against its batch, are strays.
SnapshotInv ==
    /\ \A d \in VoteDrivers : pc[d] = "pick" =>
            \A a \in Actions : recorded[a] \subseteq snap[d].votes[a] \cup stray[a]
    /\ \A d \in VoteDrivers : pc[d] = "submit" /\ job[d].fills =>
            \A a \in job[d].actions : job[d].voters \cap recorded[a] \subseteq stray[a]

BatchInv == SenderInv /\ SnapshotInv /\ OnlyStraysReplaced
-----------------------------------------------------------------------------
(* Operators *)

LEMMA RosterType == Roster \subseteq Credentials
  BY DEF Roster, Credentials

\* Who is voted on, and with which votes, comes from the snapshot.
LEMMA PicksType ==
    ASSUME QueueInv, NEW d \in VoteDrivers
    PROVE  /\ Queue(d) \subseteq snap[d].live
           /\ Lacking(d) \subseteq snap[d].live
           /\ snap[d].live \subseteq Actions
           /\ \A a \in Actions : Missing(d, a) \subseteq Credentials
<1>1. snap[d] \in [live : SUBSET Actions, votes : [Actions -> SUBSET Credentials]]
  BY DEF QueueInv, QueueTypeInv
<1>2. Queue(d) \subseteq snap[d].live
  BY DEF Queue
<1>3. Lacking(d) \subseteq Queue(d)
  BY DEF Lacking, Foremost
<1>4. \A a \in Actions : Missing(d, a) \subseteq Credentials
  BY RosterType DEF Missing
<1>5. QED
  BY <1>1, <1>2, <1>3, <1>4

LEMMA QueueInitInv == Init => QueueInv
<1> SUFFICES ASSUME Init PROVE QueueInv
  OBVIOUS
<1> USE DEF Init
<1>1. QueueTypeInv
  BY DEF QueueTypeInv, Stages, NoVotes, NoSnap, NoJob, Jobs
<1>2. LockInv
  <2>1. IsFiniteSet({}) /\ Cardinality({}) = 0
    BY FS_EmptySet
  <2>2. paying = {d \in Drivers : pc[d] # "idle"}
    OBVIOUS
  <2>3. QED
    BY <2>1, <2>2, QueueAssumption DEF LockInv, Drivers
<1>3. ChainInv
  BY DEF ChainInv, NoVotes, NoSnap, NoJob, Drivers
<1>4. QED
  BY <1>1, <1>2, <1>3 DEF QueueInv
-----------------------------------------------------------------------------
(* The ledger *)

LEMMA AdvanceEpochInv == QueueInv /\ AdvanceEpoch => QueueInv'
<1> SUFFICES ASSUME QueueInv, AdvanceEpoch PROVE QueueInv'
  OBVIOUS
<1> DEFINE old == {a \in Listed : expires[a] < epoch}
<1>1. /\ epoch' = epoch + 1
      /\ stage' = [a \in Actions |-> IF a \in old THEN "gone" ELSE stage[a]]
      /\ recorded' = [a \in Actions |-> IF a \in old THEN {} ELSE recorded[a]]
      /\ expires' = [a \in Actions |-> IF a \in old THEN 0 ELSE expires[a]]
      /\ stray' = [a \in Actions |-> IF a \in old THEN {} ELSE stray[a]]
      /\ mempool' = {tx \in mempool : tx.action \notin old}
      /\ UNCHANGED <<workload, voteLock, paying, pc, snap, job>>
  BY DEF AdvanceEpoch
<1>2. old \subseteq Actions /\ \A a \in old : stage[a] = "listed"
  BY DEF Listed
<1> HIDE DEF old
<1>3. QueueTypeInv'
  <2> USE DEF QueueInv, QueueTypeInv
  <2>1. stage' \in [Actions -> Stages] /\ expires' \in [Actions -> Int]
    BY <1>1 DEF Stages
  <2>2. recorded' \in [Actions -> SUBSET Credentials] /\ mempool' \in SUBSET Ballots
    BY <1>1
  <2>3. stray' \in [Actions -> SUBSET Credentials]
    BY <1>1
  <2>4. QED
    BY <1>1, <2>1, <2>2, <2>3
<1>4. LockInv'
  BY <1>1 DEF QueueInv, LockInv
<1>5. ChainInv'
  <2>1. \A a \in Actions : recorded'[a] # {} => stage'[a] = "listed"
    BY <1>1 DEF QueueInv, ChainInv
  <2>2. \A tx \in mempool' : stage'[tx.action] = "listed"
    BY <1>1 DEF QueueInv, ChainInv, QueueTypeInv, Ballots
  <2>3. \A d \in VoteDrivers : snap[d].live \cup job[d].actions \subseteq Actions
    BY DEF QueueInv, QueueTypeInv, Drivers, Jobs
  <2>4. \A d \in VoteDrivers : \A a \in snap'[d].live \cup job'[d].actions :
            stage'[a] \in {"listed", "gone"}
    BY <1>1, <2>3 DEF QueueInv, ChainInv
  <2>5. \A d \in Creators : job[d].actions \subseteq Actions
    BY DEF QueueInv, QueueTypeInv, Drivers, Jobs
  <2>6. \A d \in Creators : pc'[d] = "submit" => \A a \in job'[d].actions : stage'[a] = "none"
    BY <1>1, <1>2, <2>5 DEF QueueInv, ChainInv
  <2>7. QED
    BY <1>1, <2>1, <2>2, <2>4, <2>6 DEF QueueInv, ChainInv
<1>6. QED
  BY <1>3, <1>4, <1>5 DEF QueueInv

LEMMA ListInv == ASSUME QueueInv, NEW b \in Actions, List(b) PROVE QueueInv'
<1> USE DEF QueueInv, List
<1>1. QueueTypeInv'
  BY QueueAssumption DEF QueueTypeInv, Stages
<1>2. LockInv'
  BY DEF LockInv
<1>3. stage' = [stage EXCEPT ![b] = "listed"] /\ stage[b] = "sent"
  OBVIOUS
<1>4. \A d \in Drivers : job[d].actions \subseteq Actions
  BY DEF QueueTypeInv, Jobs
<1>5. \A d \in VoteDrivers : snap[d].live \subseteq Actions
  BY DEF QueueTypeInv
<1>6. ChainInv'
  <2>1. \A a \in Actions : recorded'[a] # {} => stage'[a] = "listed"
    BY <1>3 DEF ChainInv, QueueTypeInv
  <2>2. \A tx \in mempool' : stage'[tx.action] = "listed"
    BY <1>3 DEF ChainInv, QueueTypeInv, Ballots
  <2>3. \A d \in VoteDrivers : \A a \in snap'[d].live \cup job'[d].actions :
            stage'[a] \in {"listed", "gone"}
    BY <1>3, <1>4, <1>5 DEF ChainInv, QueueTypeInv, Drivers
  <2>4. \A d \in Creators : pc'[d] = "submit" => \A a \in job'[d].actions : stage'[a] = "none"
    BY <1>3, <1>4 DEF ChainInv, QueueTypeInv, Drivers
  <2>5. QED
    BY <2>1, <2>2, <2>3, <2>4 DEF ChainInv
<1>7. QED
  BY <1>1, <1>2, <1>6

LEMMA RecordInv == QueueInv /\ Record => QueueInv'
<1> SUFFICES ASSUME QueueInv, Record PROVE QueueInv'
  OBVIOUS
<1>1. PICK tx \in mempool :
        /\ mempool' = mempool \ {tx}
        /\ recorded' = IF Expired(tx.action) THEN recorded
                       ELSE [recorded EXCEPT ![tx.action] = @ \cup tx.voters]
        /\ UNCHANGED <<workload, epoch, stage, expires, voteLock, paying, pc, snap, job, stray>>
  BY DEF Record
<1>2. tx.action \in Actions /\ tx.voters \subseteq Credentials /\ stage[tx.action] = "listed"
  BY DEF QueueInv, QueueTypeInv, ChainInv, Ballots
<1>3. \A a \in Actions : recorded'[a] \subseteq Credentials
                          /\ (recorded'[a] # recorded[a] => a = tx.action)
  BY <1>1, <1>2 DEF QueueInv, QueueTypeInv
<1>4. recorded' \in [Actions -> SUBSET Credentials]
  BY <1>1, <1>2 DEF QueueInv, QueueTypeInv
<1>5. QueueTypeInv'
  BY <1>1, <1>4 DEF QueueInv, QueueTypeInv
<1>6. LockInv'
  BY <1>1 DEF QueueInv, LockInv
<1>7. ChainInv'
  BY <1>1, <1>2, <1>3 DEF QueueInv, ChainInv
<1>8. QED
  BY <1>5, <1>6, <1>7 DEF QueueInv

\* What a fork puts back into the mempool.
ForkTx(a, lost) == [sender |-> Nobody, action |-> a, voters |-> lost, fills |-> FALSE]

\* A fork only takes votes back.
LEMMA RollbackInv == QueueInv /\ Rollback => QueueInv'
<1> SUFFICES ASSUME QueueInv, Rollback PROVE QueueInv'
  OBVIOUS
<1>1. PICK a \in Listed : \E lost \in SUBSET recorded[a] \ {{}} :
        /\ recorded' = [recorded EXCEPT ![a] = @ \ lost]
        /\ mempool' \in {mempool, mempool \cup {ForkTx(a, lost)}}
        /\ stray' = [stray EXCEPT ![a] = @ \cup lost]
        /\ UNCHANGED <<workload, epoch, stage, expires, voteLock, paying, pc, snap, job>>
  BY DEF Rollback, ForkTx
<1>2. PICK lost \in SUBSET recorded[a] \ {{}} :
        /\ recorded' = [recorded EXCEPT ![a] = @ \ lost]
        /\ mempool' \in {mempool, mempool \cup {ForkTx(a, lost)}}
        /\ stray' = [stray EXCEPT ![a] = @ \cup lost]
        /\ UNCHANGED <<workload, epoch, stage, expires, voteLock, paying, pc, snap, job>>
  BY <1>1
<1>3. a \in Actions /\ stage[a] = "listed" /\ lost \subseteq Credentials
  BY DEF Listed, QueueInv, QueueTypeInv
<1>4. ForkTx(a, lost) \in Ballots
  BY <1>3 DEF Ballots, ForkTx
<1>5. /\ recorded' \in [Actions -> SUBSET Credentials]
      /\ stray' \in [Actions -> SUBSET Credentials]
  BY <1>2, <1>3 DEF QueueInv, QueueTypeInv
<1>6. QueueTypeInv'
  BY <1>2, <1>4, <1>5 DEF QueueInv, QueueTypeInv
<1>7. LockInv'
  BY <1>2 DEF QueueInv, LockInv
<1>8. ChainInv'
  <2>1. \A b \in Actions : recorded'[b] # {} => stage'[b] = "listed"
    BY <1>2, <1>3 DEF QueueInv, ChainInv, QueueTypeInv
  <2>2. \A tx \in mempool' : stage'[tx.action] = "listed"
    BY <1>2, <1>3 DEF QueueInv, ChainInv, ForkTx
  <2>3. QED
    BY <1>2, <2>1, <2>2 DEF QueueInv, ChainInv
<1>9. QED
  BY <1>6, <1>7, <1>8 DEF QueueInv
-----------------------------------------------------------------------------
(* The drivers *)

\* An address is only taken when one is left.
LEMMA PayInv ==
    ASSUME QueueInv, NEW d \in Drivers, Pay(d)
    PROVE  IsFiniteSet(paying') /\ Cardinality(paying') <= NumAddrs
<1>1. IsFiniteSet(paying) /\ Cardinality(paying) \in Nat
  BY FS_CardinalityType DEF QueueInv, LockInv
<1>2. IsFiniteSet(paying \cup {d}) /\ Cardinality(paying \cup {d}) <= Cardinality(paying) + 1
  BY <1>1, FS_AddElement
<1>3. Cardinality(paying \cup {d}) \in Nat
  BY <1>2, FS_CardinalityType
<1>4. QED
  BY <1>1, <1>2, <1>3, QueueAssumption DEF Pay

\* Whoever ends gives back what it held, and nobody else's.
LEMMA LeaveInv ==
    ASSUME QueueInv, NEW d \in Drivers, Leave(d),
           UNCHANGED <<workload, epoch, stage, expires, recorded>>,
           mempool' \in SUBSET Ballots, \A tx \in mempool' : stage[tx.action] = "listed",
           stray' \in [Actions -> SUBSET Credentials]
    PROVE  QueueInv'
<1>1. QueueTypeInv'
  <2>1. pc' \in [Drivers -> {"idle", "query", "pick", "submit", "wait"}]
    BY DEF QueueInv, QueueTypeInv, Leave
  <2>2. snap' \in [VoteDrivers -> [live : SUBSET Actions, votes : [Actions -> SUBSET Credentials]]]
    BY DEF QueueInv, QueueTypeInv, Leave, NoSnap, NoVotes
  <2>3. job' \in [Drivers -> Jobs]
    BY DEF QueueInv, QueueTypeInv, Leave, NoJob, Jobs
  <2>4. voteLock' \in VoteDrivers \cup {Nobody} /\ paying' \in SUBSET Drivers
    BY DEF QueueInv, QueueTypeInv, Leave
  <2>5. QED
    BY <2>1, <2>2, <2>3, <2>4 DEF QueueInv, QueueTypeInv
<1>2. \A e \in Drivers : pc'[e] = IF e = d THEN "idle" ELSE pc[e]
  BY DEF Leave, QueueInv, QueueTypeInv
<1>3. LockInv'
  <2>1. \A e \in VoteDrivers : pc'[e] # "idle" => voteLock' = e
    BY <1>2, QueueAssumption DEF Leave, QueueInv, LockInv, Drivers
  <2>2. paying' = {e \in Drivers : pc'[e] # "idle"}
    BY <1>2 DEF Leave, QueueInv, LockInv
  <2>3. paying' \subseteq paying
    BY DEF Leave
  <2>4. IsFiniteSet(paying') /\ Cardinality(paying') <= Cardinality(paying)
    BY <2>3, FS_Subset DEF QueueInv, LockInv
  <2>5. Cardinality(paying') \in Nat /\ Cardinality(paying) \in Nat
    BY <2>4, FS_CardinalityType DEF QueueInv, LockInv
  <2>6. QED
    BY <2>1, <2>2, <2>4, <2>5, QueueAssumption DEF QueueInv, LockInv
<1>4. ChainInv'
  <2>1. \A e \in Drivers : job'[e] = IF e = d THEN NoJob ELSE job[e]
    BY DEF Leave, QueueInv, QueueTypeInv
  <2>2. \A v \in VoteDrivers : snap'[v].live = IF v = d THEN {} ELSE snap[v].live
    BY DEF Leave, NoSnap
  <2>3. NoJob.actions = {}
    BY DEF NoJob
  <2>4. \A v \in VoteDrivers : \A a \in snap'[v].live \cup job'[v].actions :
            stage'[a] \in {"listed", "gone"}
    BY <2>1, <2>2, <2>3 DEF QueueInv, ChainInv, Drivers
  <2>5. \A c \in Creators : pc'[c] = "submit" => \A a \in job'[c].actions : stage'[a] = "none"
    BY <2>1, <2>3, <1>2 DEF QueueInv, ChainInv, Drivers
  <2>6. \A c, e \in Creators : c # e => job'[c].actions \cap job'[e].actions = {}
    BY <2>1, <2>3 DEF QueueInv, ChainInv, Drivers
  <2>7. \A e \in Drivers : pc'[e] = "idle" => job'[e] = NoJob
    BY <2>1, <1>2 DEF QueueInv, ChainInv
  <2>8. QED
    BY <2>4, <2>5, <2>6, <2>7 DEF QueueInv, ChainInv
<1>5. QED
  BY <1>1, <1>3, <1>4 DEF QueueInv

LEMMA QuitInv == ASSUME QueueInv, NEW d \in Drivers, Quit(d) PROVE QueueInv'
<1>1. /\ Leave(d) /\ UNCHANGED <<workload, epoch, stage, expires, recorded>>
      /\ mempool' = (mempool \ Sent(d)) \cup {Abandoned(tx) : tx \in Sent(d)}
      /\ stray' = [a \in Actions |->
                     stray[a] \cup UNION {tx.voters : tx \in {t \in Sent(d) : t.action = a}}]
  BY DEF Quit
<1>2. Sent(d) \subseteq mempool /\ mempool \subseteq Ballots
  BY DEF Sent, QueueInv, QueueTypeInv
<1>3. \A tx \in Sent(d) : Abandoned(tx) \in Ballots /\ Abandoned(tx).action = tx.action
  BY <1>2 DEF Ballots, Abandoned
<1>4. mempool' \in SUBSET Ballots /\ \A tx \in mempool' : stage[tx.action] = "listed"
  <2>1. \A tx \in mempool' : tx \in mempool \/ \E t \in Sent(d) : tx = Abandoned(t)
    BY <1>1
  <2>2. \A tx \in mempool : stage[tx.action] = "listed"
    BY DEF QueueInv, ChainInv
  <2>3. \A tx \in mempool' : tx \in Ballots /\ stage[tx.action] = "listed"
    BY <1>2, <1>3, <2>1, <2>2
  <2>4. QED
    BY <2>3
<1>5. \A a \in Actions :
        UNION {tx.voters : tx \in {t \in Sent(d) : t.action = a}} \subseteq Credentials
  BY <1>2 DEF Ballots
<1>6. stray' \in [Actions -> SUBSET Credentials]
  BY <1>1, <1>5 DEF QueueInv, QueueTypeInv
<1>7. QED
  BY <1>1, <1>4, <1>6, LeaveInv

\* A driver whose transaction is on the chain.
LEMMA ConfirmedInv ==
    ASSUME QueueInv, NEW d \in Drivers, Leave(d), UNCHANGED <<workload, chainVars, stray>>
    PROVE  QueueInv'
<1>1. /\ mempool' \in SUBSET Ballots /\ \A tx \in mempool' : stage[tx.action] = "listed"
      /\ stray' \in [Actions -> SUBSET Credentials]
  BY DEF chainVars, QueueInv, QueueTypeInv, ChainInv
<1>2. QED
  BY <1>1, LeaveInv DEF chainVars

\* The lock and the addresses when a driver only goes on.
LEMMA GoesOn ==
    ASSUME QueueInv, NEW d \in Drivers, NEW k \in {"query", "pick", "submit", "wait"},
           pc[d] # "idle", pc' = [pc EXCEPT ![d] = k], UNCHANGED <<voteLock, paying>>
    PROVE  LockInv'
<1>1. \A e \in Drivers : pc'[e] # "idle" <=> pc[e] # "idle"
  BY DEF QueueInv, QueueTypeInv
<1>2. QED
  BY <1>1 DEF QueueInv, LockInv, Drivers

LEMMA CreatorStartInv ==
    ASSUME QueueInv, NEW d \in Creators, CreatorStart(d) PROVE QueueInv'
<1>1. PICK a \in Actions :
        /\ stage[a] = "none"
        /\ \A c \in Creators : a \notin job[c].actions
        /\ job' = [job EXCEPT ![d] = [actions |-> {a}, voters |-> {}, fills |-> FALSE]]
  BY DEF CreatorStart
<1>2. /\ pc[d] = "idle" /\ Pay(d) /\ pc' = [pc EXCEPT ![d] = "submit"]
      /\ UNCHANGED <<workload, chainVars, voteLock, snap, stray>>
  BY DEF CreatorStart
<1>3. d \in Drivers
  BY DEF Drivers
<1>4. \A e \in Drivers : /\ pc'[e] = IF e = d THEN "submit" ELSE pc[e]
                         /\ job'[e] = IF e = d THEN [actions |-> {a}, voters |-> {}, fills |-> FALSE]
                                    ELSE job[e]
  BY <1>1, <1>2, <1>3 DEF QueueInv, QueueTypeInv
<1>5. QueueTypeInv'
  <2>1. [actions |-> {a}, voters |-> {}, fills |-> FALSE] \in Jobs
    BY DEF Jobs
  <2>2. job' \in [Drivers -> Jobs]
    BY <1>1, <2>1 DEF QueueInv, QueueTypeInv
  <2>3. paying' \in SUBSET Drivers
    BY <1>2, <1>3 DEF Pay, QueueInv, QueueTypeInv
  <2>4. QED
    BY <1>2, <2>2, <2>3 DEF QueueInv, QueueTypeInv, chainVars
<1>6. LockInv'
  <2>1. \A e \in VoteDrivers : e # d /\ e \in Drivers
    BY QueueAssumption DEF Drivers
  <2>2. \A e \in VoteDrivers : pc'[e] # "idle" => voteLock' = e
    BY <1>2, <1>4, <2>1 DEF QueueInv, LockInv
  <2>3. paying' = {e \in Drivers : pc'[e] # "idle"}
    BY <1>2, <1>3, <1>4 DEF Pay, QueueInv, LockInv
  <2>4. QED
    BY <1>2, <1>3, <2>2, <2>3, PayInv DEF LockInv
<1>7. ChainInv'
  <2> USE <1>1, <1>2, <1>4 DEF QueueInv, ChainInv, Drivers, chainVars
  <2>1. \A v \in VoteDrivers : \A b \in snap'[v].live \cup job'[v].actions :
            stage'[b] \in {"listed", "gone"}
    BY QueueAssumption
  <2>2. \A c \in Creators : pc'[c] = "submit" => \A b \in job'[c].actions : stage'[b] = "none"
    OBVIOUS
  <2>3. \A c, e \in Creators : c # e => job'[c].actions \cap job'[e].actions = {}
    OBVIOUS
  <2>4. \A e \in Drivers : pc'[e] = "idle" => job'[e] = NoJob
    OBVIOUS
  <2>5. QED
    BY <2>1, <2>2, <2>3, <2>4
<1>8. QED
  BY <1>5, <1>6, <1>7 DEF QueueInv

\* A new action: no other driver works on it.
LEMMA CreatorSubmitInv ==
    ASSUME QueueInv, NEW d \in Creators, CreatorSubmit(d) PROVE QueueInv'
<1>1. /\ pc[d] = "submit" /\ pc' = [pc EXCEPT ![d] = "wait"]
      /\ stage' = [a \in Actions |-> IF a \in job[d].actions THEN "sent" ELSE stage[a]]
      /\ UNCHANGED <<workload, epoch, expires, recorded, mempool, voteLock, paying, snap, job, stray>>
  BY DEF CreatorSubmit
<1>2. d \in Drivers
  BY DEF Drivers
<1>3. \A e \in Drivers : pc'[e] = IF e = d THEN "wait" ELSE pc[e]
  BY <1>1 DEF QueueInv, QueueTypeInv
<1>4. \A a \in job[d].actions : stage[a] = "none"
  BY <1>1 DEF QueueInv, ChainInv
<1>5. QueueTypeInv'
  BY <1>1 DEF QueueInv, QueueTypeInv, Stages
<1>6. LockInv'
  BY <1>1, <1>2, GoesOn
<1>7. ChainInv'
  <2> USE <1>1, <1>3, <1>4 DEF QueueInv, ChainInv
  <2>1. \A a \in Actions : recorded'[a] # {} => stage'[a] = "listed"
    OBVIOUS
  <2>2. \A tx \in mempool' : stage'[tx.action] = "listed"
    BY DEF QueueTypeInv, Ballots
  <2>3. \A e \in Drivers : job[e].actions \subseteq Actions
    BY DEF QueueTypeInv, Jobs
  <2>4. \A v \in VoteDrivers : snap[v].live \subseteq Actions
    BY DEF QueueTypeInv
  <2>5. \A v \in VoteDrivers : \A b \in snap'[v].live \cup job'[v].actions :
            stage'[b] \in {"listed", "gone"}
    BY <2>3, <2>4 DEF Drivers
  <2>6. \A c \in Creators : pc'[c] = "submit" => \A b \in job'[c].actions : stage'[b] = "none"
    BY <1>2, <2>3 DEF Drivers
  <2>7. \A e \in Drivers : pc'[e] = "idle" => job'[e] = NoJob
    OBVIOUS
  <2>8. QED
    BY <2>1, <2>2, <2>5, <2>6, <2>7
<1>8. QED
  BY <1>5, <1>6, <1>7 DEF QueueInv

LEMMA VoterStartInv ==
    ASSUME QueueInv, NEW d \in VoteDrivers, VoterStart(d) PROVE QueueInv'
<1>1. /\ pc[d] = "idle" /\ voteLock = Nobody /\ voteLock' = d /\ Pay(d)
      /\ pc' = [pc EXCEPT ![d] = "query"]
      /\ UNCHANGED <<workload, chainVars, snap, job, stray>>
  BY DEF VoterStart, LockFree
<1>2. d \in Drivers /\ VoteDrivers \subseteq Drivers
  BY DEF Drivers
<1>3. \A e \in Drivers : pc'[e] = IF e = d THEN "query" ELSE pc[e]
  BY <1>1 DEF QueueInv, QueueTypeInv
<1>4. QueueTypeInv'
  <2>1. paying' \in SUBSET Drivers
    BY <1>1, <1>2 DEF Pay, QueueInv, QueueTypeInv
  <2>2. QED
    BY <1>1, <2>1 DEF QueueInv, QueueTypeInv, chainVars
<1>5. LockInv'
  <2>1. \A e \in VoteDrivers : pc[e] = "idle"
    BY <1>1, QueueAssumption DEF QueueInv, LockInv
  <2>2. \A e \in VoteDrivers : pc'[e] # "idle" => voteLock' = e
    BY <1>1, <1>2, <1>3, <2>1
  <2>3. paying' = {e \in Drivers : pc'[e] # "idle"}
    BY <1>1, <1>2, <1>3 DEF Pay, QueueInv, LockInv
  <2>4. QED
    BY <1>1, <1>2, <2>2, <2>3, PayInv DEF LockInv
<1>6. ChainInv'
  <2>1. \A c \in Creators : pc'[c] = pc[c] /\ c \in Drivers
    BY <1>3, QueueAssumption DEF Drivers
  <2>2. \A e \in Drivers : pc'[e] = "idle" => pc[e] = "idle"
    BY <1>3
  <2>3. QED
    BY <1>1, <2>1, <2>2 DEF QueueInv, ChainInv, chainVars
<1>7. QED
  BY <1>4, <1>5, <1>6 DEF QueueInv

LEMMA VoterQueryInv ==
    ASSUME QueueInv, NEW d \in VoteDrivers, VoterQuery(d) PROVE QueueInv'
<1>1. /\ pc[d] = "query" /\ pc' = [pc EXCEPT ![d] = "pick"]
      /\ snap' = [snap EXCEPT ![d] = [live |-> Listed, votes |-> recorded]]
      /\ stray' = [a \in Actions |-> stray[a] \cap Pending(a)]
      /\ UNCHANGED <<workload, chainVars, voteLock, paying, job>>
  BY DEF VoterQuery
<1>2. d \in Drivers
  BY DEF Drivers
<1>3. \A e \in Drivers : pc'[e] = IF e = d THEN "pick" ELSE pc[e]
  BY <1>1 DEF QueueInv, QueueTypeInv
<1>4. QueueTypeInv'
  <2>1. [live |-> Listed, votes |-> recorded]
            \in [live : SUBSET Actions, votes : [Actions -> SUBSET Credentials]]
    BY DEF Listed, QueueInv, QueueTypeInv
  <2>2. stray' \in [Actions -> SUBSET Credentials]
    BY <1>1 DEF QueueInv, QueueTypeInv
  <2>3. QED
    BY <1>1, <2>1, <2>2 DEF QueueInv, QueueTypeInv, chainVars
<1>5. LockInv'
  BY <1>1, <1>2, GoesOn
<1>6. ChainInv'
  <2>1. \A v \in VoteDrivers : snap'[v].live = IF v = d THEN Listed ELSE snap[v].live
    BY <1>1 DEF QueueInv, QueueTypeInv
  <2>2. \A v \in VoteDrivers : \A b \in snap'[v].live \cup job'[v].actions :
            stage'[b] \in {"listed", "gone"}
    BY <1>1, <2>1 DEF Listed, QueueInv, ChainInv, chainVars
  <2>3. \A c \in Creators : c \in Drivers /\ pc'[c] = pc[c]
    BY <1>3, QueueAssumption DEF Drivers
  <2>4. \A e \in Drivers : pc'[e] = "idle" => pc[e] = "idle"
    BY <1>3
  <2>5. QED
    BY <1>1, <2>2, <2>3, <2>4 DEF QueueInv, ChainInv, chainVars
<1>7. QED
  BY <1>4, <1>5, <1>6 DEF QueueInv

\* What is voted on was listed when the driver read it.
LEMMA VoterPickInv ==
    ASSUME QueueInv, NEW d \in VoteDrivers, VoterPick(d) PROVE QueueInv'
<1>1. /\ pc[d] = "pick" /\ pc' = [pc EXCEPT ![d] = "submit"]
      /\ snap' = [snap EXCEPT ![d] = NoSnap]
      /\ UNCHANGED <<workload, chainVars, voteLock, paying, stray>>
  BY DEF VoterPick
<1>2. PICK a \in snap[d].live : \E w \in SUBSET Credentials, f \in BOOLEAN :
        job' = [job EXCEPT ![d] = [actions |-> {a}, voters |-> w, fills |-> f]]
  <2>1. CASE \E a \in Lacking(d) :
                job' = [job EXCEPT ![d] =
                    [actions |-> {a}, voters |-> Missing(d, a), fills |-> TRUE]]
    BY <2>1, PicksType
  <2>2. CASE \E a \in Queue(d), v \in Roster :
                job' = [job EXCEPT ![d] = [actions |-> {a}, voters |-> {v}, fills |-> FALSE]]
    BY <2>2, PicksType, RosterType
  <2>3. QED
    BY <2>1, <2>2 DEF VoterPick
<1>3. PICK w \in SUBSET Credentials, f \in BOOLEAN :
        job' = [job EXCEPT ![d] = [actions |-> {a}, voters |-> w, fills |-> f]]
  BY <1>2
<1>4. d \in Drivers /\ a \in Actions /\ stage[a] \in {"listed", "gone"}
  BY PicksType DEF Drivers, QueueInv, ChainInv
<1>5. \A e \in Drivers : /\ pc'[e] = IF e = d THEN "submit" ELSE pc[e]
                         /\ job'[e] = IF e = d THEN [actions |-> {a}, voters |-> w, fills |-> f]
                                    ELSE job[e]
  BY <1>1, <1>3 DEF QueueInv, QueueTypeInv
<1>6. QueueTypeInv'
  <2>1. [actions |-> {a}, voters |-> w, fills |-> f] \in Jobs
    BY <1>4 DEF Jobs
  <2>2. job' \in [Drivers -> Jobs]
    BY <1>3, <2>1 DEF QueueInv, QueueTypeInv
  <2>3. NoSnap \in [live : SUBSET Actions, votes : [Actions -> SUBSET Credentials]]
    BY DEF NoSnap, NoVotes
  <2>4. snap' \in [VoteDrivers -> [live : SUBSET Actions, votes : [Actions -> SUBSET Credentials]]]
    BY <1>1, <2>3 DEF QueueInv, QueueTypeInv
  <2>5. QED
    BY <1>1, <2>2, <2>4 DEF QueueInv, QueueTypeInv, chainVars
<1>7. LockInv'
  BY <1>1, <1>4, GoesOn
<1>8. ChainInv'
  <2>1. \A v \in VoteDrivers : snap'[v].live = IF v = d THEN {} ELSE snap[v].live
    BY <1>1 DEF QueueInv, QueueTypeInv, NoSnap
  <2>2. \A v \in VoteDrivers : \A b \in snap'[v].live \cup job'[v].actions :
            stage'[b] \in {"listed", "gone"}
    BY <1>1, <1>4, <1>5, <2>1 DEF QueueInv, ChainInv, Drivers, chainVars
  <2>3. \A c \in Creators : c \in Drivers /\ pc'[c] = pc[c] /\ job'[c] = job[c]
    BY <1>5, QueueAssumption DEF Drivers
  <2>4. \A e \in Drivers : pc'[e] = "idle" => job'[e] = NoJob
    BY <1>5 DEF QueueInv, ChainInv
  <2>5. QED
    BY <1>1, <2>2, <2>3, <2>4 DEF QueueInv, ChainInv, chainVars
<1>9. QED
  BY <1>6, <1>7, <1>8 DEF QueueInv

\* The transaction that a vote driver sends.
BatchTx(d, a) ==
    [sender |-> d, action |-> a, voters |-> job[d].voters, fills |-> job[d].fills]

LEMMA VoterSubmitInv ==
    ASSUME QueueInv, NEW d \in VoteDrivers, VoterSubmit(d) PROVE QueueInv'
<1>1. PICK a \in job[d].actions :
        /\ stage[a] = "listed"
        /\ mempool' = mempool \cup {BatchTx(d, a)}
  BY DEF VoterSubmit, BatchTx
<1>2. /\ pc[d] = "submit" /\ pc' = [pc EXCEPT ![d] = "wait"]
      /\ UNCHANGED <<workload, epoch, stage, expires, recorded, voteLock, paying, snap, job, stray>>
  BY DEF VoterSubmit
<1>3. d \in Drivers
  BY DEF Drivers
<1>4. job[d] \in Jobs
  BY <1>3 DEF QueueInv, QueueTypeInv
<1>5. BatchTx(d, a) \in Ballots /\ BatchTx(d, a).action = a
  BY <1>4 DEF Jobs, Ballots, BatchTx
<1>6. \A e \in Drivers : pc'[e] = IF e = d THEN "wait" ELSE pc[e]
  BY <1>2 DEF QueueInv, QueueTypeInv
<1>7. QueueTypeInv'
  BY <1>1, <1>2, <1>5 DEF QueueInv, QueueTypeInv
<1>8. LockInv'
  BY <1>2, <1>3, GoesOn
<1>9. ChainInv'
  BY <1>1, <1>2, <1>5, <1>6, QueueAssumption DEF QueueInv, ChainInv, Drivers
<1>10. QED
  BY <1>7, <1>8, <1>9 DEF QueueInv
-----------------------------------------------------------------------------
LEMMA QueueNextInv == QueueInv /\ Next => QueueInv'
<1> SUFFICES ASSUME QueueInv, Next PROVE QueueInv'
  OBVIOUS
<1>1. CASE AdvanceEpoch \/ Record \/ Rollback
  BY <1>1, AdvanceEpochInv, RecordInv, RollbackInv
<1>2. ASSUME NEW a \in Actions, List(a) PROVE QueueInv'
  BY <1>2, ListInv
<1>3. ASSUME NEW d \in Creators, CreatorStart(d) \/ CreatorStep(d) PROVE QueueInv'
  <2>1. CASE CreatorConfirm(d)
    BY <2>1, ConfirmedInv DEF CreatorConfirm, Drivers
  <2>2. QED
    BY <1>3, <2>1, CreatorStartInv, CreatorSubmitInv DEF CreatorStep
<1>4. ASSUME NEW d \in VoteDrivers, VoterStep(d) PROVE QueueInv'
  <2>1. CASE VoterConfirm(d)
    BY <2>1, ConfirmedInv DEF VoterConfirm, Drivers
  <2>2. QED
    BY <1>4, <2>1, VoterStartInv, VoterQueryInv, VoterPickInv, VoterSubmitInv
    DEF VoterStep, VoterGoesOn
<1>5. ASSUME NEW d \in Drivers, Quit(d) PROVE QueueInv'
  BY <1>5, QuitInv
<1>6. QED
  BY <1>1, <1>2, <1>3, <1>4, <1>5 DEF Next
-----------------------------------------------------------------------------
(* The batches *)

\* No other vote driver runs beside one that does.
LEMMA OneVoterRuns ==
    ASSUME QueueInv, NEW d \in VoteDrivers, NEW e \in VoteDrivers,
           pc[d] # "idle", pc[e] # "idle"
    PROVE  d = e
  BY DEF QueueInv, LockInv

\* Whose transactions are pending while a vote driver has not sent its own: nobody's.
LEMMA OnlyStraysPending ==
    ASSUME QueueInv, BatchInv, NEW d \in VoteDrivers, pc[d] \in {"query", "pick", "submit"},
           NEW tx \in mempool
    PROVE  tx.sender = Nobody /\ tx.voters \subseteq stray[tx.action]
<1>1. tx.sender \in VoteDrivers \cup {Nobody}
  BY DEF QueueInv, QueueTypeInv, Ballots
<1>2. ASSUME tx.sender # Nobody PROVE FALSE
  BY <1>1, <1>2, OneVoterRuns DEF BatchInv, SenderInv
<1>3. QED
  BY <1>2 DEF BatchInv, SenderInv

LEMMA BatchInitInv == Init => BatchInv
<1> SUFFICES ASSUME Init PROVE BatchInv
  OBVIOUS
<1>1. mempool = {} /\ \A d \in VoteDrivers : pc[d] = "idle"
  BY DEF Init, Drivers
<1>2. QED
  BY <1>1 DEF BatchInv, SenderInv, SnapshotInv, OnlyStraysReplaced

LEMMA BatchAdvanceEpoch ==
    ASSUME QueueInv, BatchInv, AdvanceEpoch PROVE BatchInv'
<1> DEFINE old == {a \in Listed : expires[a] < epoch}
<1>1. /\ recorded' = [a \in Actions |-> IF a \in old THEN {} ELSE recorded[a]]
      /\ stray' = [a \in Actions |-> IF a \in old THEN {} ELSE stray[a]]
      /\ mempool' = {tx \in mempool : tx.action \notin old}
      /\ UNCHANGED <<pc, snap, job>>
  BY DEF AdvanceEpoch
<1> HIDE DEF old
<1>2. \A a \in Actions : \/ recorded'[a] = {}
                         \/ recorded'[a] = recorded[a] /\ stray'[a] = stray[a]
  BY <1>1
<1>3. \A tx \in mempool' : /\ tx \in mempool
                           /\ recorded'[tx.action] = recorded[tx.action]
                           /\ stray'[tx.action] = stray[tx.action]
  BY <1>1 DEF QueueInv, QueueTypeInv, Ballots
<1>4. \A d \in VoteDrivers : job[d].actions \subseteq Actions
  BY DEF QueueInv, QueueTypeInv, Jobs, Drivers
<1>5. SenderInv'
  BY <1>1, <1>3 DEF BatchInv, SenderInv
<1>6. SnapshotInv'
  BY <1>1, <1>2, <1>4 DEF BatchInv, SnapshotInv
<1>7. OnlyStraysReplaced'
  BY <1>3 DEF BatchInv, OnlyStraysReplaced
<1>8. QED
  BY <1>5, <1>6, <1>7 DEF BatchInv

\* What is recorded was a stray, or the batch of the driver that holds the lock: then
\* no other driver has read anything, and no other batch is pending that is no stray.
LEMMA BatchRecord ==
    ASSUME QueueInv, BatchInv, Record PROVE BatchInv'
<1>1. PICK tx \in mempool :
        /\ mempool' = mempool \ {tx}
        /\ recorded' = IF Expired(tx.action) THEN recorded
                       ELSE [recorded EXCEPT ![tx.action] = @ \cup tx.voters]
        /\ UNCHANGED <<pc, snap, job, stray>>
  BY DEF Record
<1>2. tx.action \in Actions /\ tx.sender \in VoteDrivers \cup {Nobody}
  BY DEF QueueInv, QueueTypeInv, Ballots
<1>3. \A a \in Actions : recorded'[a] \subseteq recorded[a] \cup (IF a = tx.action THEN tx.voters ELSE {})
  BY <1>1, <1>2 DEF QueueInv, QueueTypeInv
<1>4. mempool \subseteq Ballots
  BY DEF QueueInv, QueueTypeInv
<1>5. SenderInv'
  BY <1>1 DEF BatchInv, SenderInv
<1>6. CASE tx.sender = Nobody
  <2>1. \A a \in Actions : recorded'[a] \subseteq recorded[a] \cup stray[a]
    BY <1>3, <1>6 DEF BatchInv, SenderInv
  <2>2. \A d \in VoteDrivers : job[d].actions \subseteq Actions
    BY DEF QueueInv, QueueTypeInv, Jobs, Drivers
  <2>3. SnapshotInv'
    BY <1>1, <2>1, <2>2 DEF BatchInv, SnapshotInv
  <2>4. OnlyStraysReplaced'
    BY <1>1, <1>4, <2>1 DEF BatchInv, OnlyStraysReplaced, Ballots
  <2>5. QED
    BY <1>5, <2>3, <2>4 DEF BatchInv
<1>7. CASE tx.sender # Nobody
  <2>1. tx.sender \in VoteDrivers /\ pc[tx.sender] = "wait"
    BY <1>2, <1>7 DEF BatchInv, SenderInv
  <2>2. \A d \in VoteDrivers : pc[d] \notin {"pick", "submit"}
    BY <2>1, OneVoterRuns
  <2>3. \A other \in mempool' : other.sender = Nobody
    <3> SUFFICES ASSUME NEW other \in mempool', other.sender # Nobody PROVE FALSE
      OBVIOUS
    <3>1. other \in mempool /\ other # tx
      BY <1>1
    <3>2. other.sender \in VoteDrivers /\ pc[other.sender] = "wait"
      BY <1>4, <3>1 DEF BatchInv, SenderInv, Ballots
    <3>3. other.sender = tx.sender
      BY <2>1, <3>2, OneVoterRuns
    <3>4. QED
      BY <1>7, <3>1, <3>3 DEF BatchInv, SenderInv
  <2>4. SnapshotInv'
    BY <1>1, <2>2 DEF SnapshotInv
  <2>5. OnlyStraysReplaced'
    BY <1>5, <2>3 DEF SenderInv, OnlyStraysReplaced
  <2>6. QED
    BY <1>5, <2>4, <2>5 DEF BatchInv
<1>8. QED
  BY <1>6, <1>7

LEMMA BatchRollback ==
    ASSUME QueueInv, BatchInv, Rollback PROVE BatchInv'
<1>1. PICK a \in Listed : \E lost \in SUBSET recorded[a] \ {{}} :
        /\ recorded' = [recorded EXCEPT ![a] = @ \ lost]
        /\ mempool' \in {mempool, mempool \cup {ForkTx(a, lost)}}
        /\ stray' = [stray EXCEPT ![a] = @ \cup lost]
        /\ UNCHANGED <<pc, snap, job>>
  BY DEF Rollback, ForkTx
<1>2. PICK lost \in SUBSET recorded[a] \ {{}} :
        /\ recorded' = [recorded EXCEPT ![a] = @ \ lost]
        /\ mempool' \in {mempool, mempool \cup {ForkTx(a, lost)}}
        /\ stray' = [stray EXCEPT ![a] = @ \cup lost]
        /\ UNCHANGED <<pc, snap, job>>
  BY <1>1
<1>3. \A b \in Actions : /\ recorded'[b] \subseteq recorded[b]
                         /\ stray'[b] = IF b = a THEN stray[b] \cup lost ELSE stray[b]
  BY <1>2 DEF QueueInv, QueueTypeInv
<1>4. a \in Actions /\ mempool \subseteq Ballots
  BY DEF Listed, QueueInv, QueueTypeInv
<1>5. \A d \in VoteDrivers : job[d].actions \subseteq Actions
  BY DEF QueueInv, QueueTypeInv, Jobs, Drivers
<1>6. \A tx \in mempool' : tx \in mempool \/ tx = ForkTx(a, lost)
  BY <1>2
<1>7. /\ ForkTx(a, lost).sender = Nobody
      /\ ForkTx(a, lost).voters = lost
      /\ ForkTx(a, lost).action = a
      /\ ~ForkTx(a, lost).fills
  BY DEF ForkTx
<1>8. SenderInv'
  <2>1. \A tx \in mempool' : IF tx.sender = Nobody THEN tx.voters \subseteq stray'[tx.action]
                             ELSE pc[tx.sender] = "wait"
    BY <1>3, <1>4, <1>6, <1>7 DEF BatchInv, SenderInv, Ballots
  <2>2. \A tx, other \in mempool' :
            tx.sender = other.sender /\ tx.sender # Nobody => tx = other
    BY <1>6, <1>7 DEF BatchInv, SenderInv
  <2>3. QED
    BY <1>2, <2>1, <2>2 DEF SenderInv
<1>9. SnapshotInv'
  BY <1>2, <1>3, <1>5 DEF BatchInv, SnapshotInv
<1>10. OnlyStraysReplaced'
  BY <1>3, <1>4, <1>6, <1>7 DEF BatchInv, OnlyStraysReplaced, Ballots
<1>11. QED
  BY <1>8, <1>9, <1>10 DEF BatchInv

\* Steps that touch neither the votes nor a vote driver: the chain lists an action, a
\* create driver goes on or ends.
LEMMA BatchElsewhere ==
    ASSUME BatchInv, UNCHANGED <<recorded, mempool, stray>>,
           \A d \in VoteDrivers : pc'[d] = pc[d] /\ snap'[d] = snap[d] /\ job'[d] = job[d],
           mempool \subseteq Ballots
    PROVE  BatchInv'
<1>1. \A tx \in mempool : tx.sender # Nobody => tx.sender \in VoteDrivers
  BY DEF Ballots
<1>2. SenderInv'
  BY <1>1 DEF BatchInv, SenderInv
<1>3. SnapshotInv'
  BY DEF BatchInv, SnapshotInv
<1>4. OnlyStraysReplaced'
  BY DEF BatchInv, OnlyStraysReplaced
<1>5. QED
  BY <1>2, <1>3, <1>4 DEF BatchInv

\* What others find when a driver has left.
LEMMA LeftBehind ==
    ASSUME QueueInv, NEW d \in Drivers, Leave(d), NEW e \in VoteDrivers
    PROVE  /\ e # d => pc'[e] = pc[e] /\ snap'[e] = snap[e] /\ job'[e] = job[e]
           /\ e = d => pc'[e] = "idle"
  BY DEF Leave, QueueInv, QueueTypeInv, Drivers

\* A driver that leaves a transaction behind makes its votes strays.
LEMMA BatchQuit ==
    ASSUME QueueInv, BatchInv, NEW d \in Drivers, Quit(d) PROVE BatchInv'
<1>1. /\ Leave(d) /\ recorded' = recorded
      /\ mempool' = (mempool \ Sent(d)) \cup {Abandoned(tx) : tx \in Sent(d)}
      /\ stray' = [a \in Actions |->
                     stray[a] \cup UNION {tx.voters : tx \in {t \in Sent(d) : t.action = a}}]
  BY DEF Quit
<1>2. mempool \subseteq Ballots /\ Sent(d) \subseteq mempool
  BY DEF Sent, QueueInv, QueueTypeInv
<1>3. \A a \in Actions : stray[a] \subseteq stray'[a]
  BY <1>1
<1>4. \A t \in Sent(d) : t.voters \subseteq stray'[t.action]
  BY <1>1, <1>2 DEF Ballots
<1>5. \A t \in Sent(d) : /\ Abandoned(t).sender = Nobody
                         /\ Abandoned(t).action = t.action
                         /\ Abandoned(t).voters = t.voters
                         /\ Abandoned(t).fills = FALSE
  BY <1>2 DEF Ballots, Abandoned
<1>6. \A tx \in mempool' : \/ tx \in mempool /\ tx.sender # d
                           \/ \E t \in Sent(d) : tx = Abandoned(t)
  BY <1>1 DEF Sent
<1>7. \A e \in VoteDrivers : /\ e # d => pc'[e] = pc[e] /\ snap'[e] = snap[e] /\ job'[e] = job[e]
                             /\ e = d => pc'[e] = "idle"
  BY <1>1, LeftBehind
<1>8. SenderInv'
  <2>1. ASSUME NEW tx \in mempool', tx.sender = Nobody PROVE tx.voters \subseteq stray'[tx.action]
    <3>1. CASE tx \in mempool
      BY <2>1, <3>1, <1>2, <1>3 DEF BatchInv, SenderInv, Ballots
    <3>2. CASE \E t \in Sent(d) : tx = Abandoned(t)
      BY <3>2, <1>4, <1>5
    <3>3. QED
      BY <1>6, <3>1, <3>2
  <2>2. ASSUME NEW tx \in mempool', tx.sender # Nobody
        PROVE  tx \in mempool /\ tx.sender # d /\ tx.sender \in VoteDrivers
    BY <2>2, <1>2, <1>5, <1>6 DEF Ballots
  <2>3. \A tx \in mempool' : tx.sender # Nobody => pc'[tx.sender] = "wait"
    BY <2>2, <1>7 DEF BatchInv, SenderInv
  <2>4. \A tx, other \in mempool' :
            tx.sender = other.sender /\ tx.sender # Nobody => tx = other
    BY <2>2 DEF BatchInv, SenderInv
  <2>5. QED
    BY <2>1, <2>3, <2>4 DEF SenderInv
<1>9. SnapshotInv'
  <2>1. \A e \in VoteDrivers : job[e].actions \subseteq Actions
    BY DEF QueueInv, QueueTypeInv, Jobs, Drivers
  <2>2. ASSUME NEW e \in VoteDrivers, pc'[e] = "pick", NEW a \in Actions
        PROVE  recorded'[a] \subseteq snap'[e].votes[a] \cup stray'[a]
    BY <2>2, <1>1, <1>3, <1>7 DEF BatchInv, SnapshotInv
  <2>3. ASSUME NEW e \in VoteDrivers, pc'[e] = "submit" /\ job'[e].fills, NEW a \in job'[e].actions
        PROVE  job'[e].voters \cap recorded'[a] \subseteq stray'[a]
    <3>1. e # d /\ pc[e] = "submit" /\ job'[e] = job[e]
      BY <2>3, <1>7
    <3>2. job[e].voters \cap recorded[a] \subseteq stray[a] /\ a \in Actions
      BY <2>1, <2>3, <3>1 DEF BatchInv, SnapshotInv
    <3>3. QED
      BY <3>1, <3>2, <1>1, <1>3
  <2>4. QED
    BY <2>2, <2>3 DEF SnapshotInv
<1>10. OnlyStraysReplaced'
  <2>1. ASSUME NEW tx \in mempool', tx.fills
        PROVE  tx.voters \cap recorded'[tx.action] \subseteq stray'[tx.action]
    <3>1. CASE tx \in mempool
      BY <2>1, <3>1, <1>1, <1>2, <1>3 DEF BatchInv, OnlyStraysReplaced, Ballots
    <3>2. CASE \E t \in Sent(d) : tx = Abandoned(t)
      BY <3>2, <1>4, <1>5
    <3>3. QED
      BY <1>6, <3>1, <3>2
  <2>2. QED
    BY <2>1 DEF OnlyStraysReplaced
<1>11. QED
  BY <1>8, <1>9, <1>10 DEF BatchInv

LEMMA BatchVoterStart ==
    ASSUME QueueInv, BatchInv, NEW d \in VoteDrivers, VoterStart(d) PROVE BatchInv'
<1>1. /\ pc[d] = "idle" /\ pc' = [pc EXCEPT ![d] = "query"]
      /\ UNCHANGED <<recorded, mempool, snap, job, stray>>
  BY DEF VoterStart, chainVars
<1>2. \A e \in VoteDrivers : pc'[e] = IF e = d THEN "query" ELSE pc[e]
  BY <1>1 DEF QueueInv, QueueTypeInv, Drivers
<1>3. \A tx \in mempool : tx.sender # Nobody => tx.sender \in VoteDrivers
  BY DEF QueueInv, QueueTypeInv, Ballots
<1>4. SenderInv'
  BY <1>1, <1>2, <1>3 DEF BatchInv, SenderInv
<1>5. SnapshotInv'
  BY <1>1, <1>2 DEF BatchInv, SnapshotInv
<1>6. OnlyStraysReplaced'
  BY <1>1 DEF BatchInv, OnlyStraysReplaced
<1>7. QED
  BY <1>4, <1>5, <1>6 DEF BatchInv

\* A snapshot has all that is recorded; what is pending now remains a stray.
LEMMA BatchVoterQuery ==
    ASSUME QueueInv, BatchInv, NEW d \in VoteDrivers, VoterQuery(d) PROVE BatchInv'
<1>1. /\ pc[d] = "query" /\ pc' = [pc EXCEPT ![d] = "pick"]
      /\ snap' = [snap EXCEPT ![d] = [live |-> Listed, votes |-> recorded]]
      /\ stray' = [a \in Actions |-> stray[a] \cap Pending(a)]
      /\ UNCHANGED <<recorded, mempool, job>>
  BY DEF VoterQuery, chainVars
<1>2. \A e \in VoteDrivers : pc'[e] = IF e = d THEN "pick" ELSE pc[e]
  BY <1>1 DEF QueueInv, QueueTypeInv, Drivers
<1>3. \A e \in VoteDrivers \ {d} : pc[e] = "idle"
  BY <1>1, OneVoterRuns
<1>4. \A tx \in mempool : /\ tx.sender = Nobody
                          /\ tx.action \in Actions
                          /\ tx.voters \subseteq stray[tx.action]
  BY <1>1, OnlyStraysPending DEF QueueInv, QueueTypeInv, Ballots
<1>5. \A tx \in mempool : tx.voters \subseteq stray'[tx.action]
  BY <1>1, <1>4 DEF Pending
<1>6. SenderInv'
  BY <1>1, <1>4, <1>5 DEF SenderInv
<1>7. SnapshotInv'
  <2>1. snap'[d].votes = recorded
    BY <1>1 DEF QueueInv, QueueTypeInv
  <2>2. QED
    BY <1>1, <1>2, <1>3, <2>1 DEF SnapshotInv
<1>8. OnlyStraysReplaced'
  BY <1>1, <1>5 DEF OnlyStraysReplaced
<1>9. QED
  BY <1>6, <1>7, <1>8 DEF BatchInv

\* What is missing in the snapshot is not recorded, but for strays.
LEMMA BatchVoterPick ==
    ASSUME QueueInv, BatchInv, NEW d \in VoteDrivers, VoterPick(d) PROVE BatchInv'
<1>1. /\ pc[d] = "pick" /\ pc' = [pc EXCEPT ![d] = "submit"]
      /\ snap' = [snap EXCEPT ![d] = NoSnap]
      /\ UNCHANGED <<recorded, mempool, stray>>
  BY DEF VoterPick, chainVars
<1>2. \A e \in VoteDrivers : pc'[e] = IF e = d THEN "submit" ELSE pc[e]
  BY <1>1 DEF QueueInv, QueueTypeInv, Drivers
<1>3. \A e \in VoteDrivers \ {d} : pc[e] = "idle"
  BY <1>1, OneVoterRuns
<1>4. job'[d].fills =>
        \A a \in job'[d].actions : job'[d].voters \cap recorded[a] \subseteq stray[a]
  <2>1. d \in Drivers /\ job \in [Drivers -> Jobs]
    BY DEF Drivers, QueueInv, QueueTypeInv
  <2>2. CASE \E a \in Lacking(d) : job' = [job EXCEPT ![d] =
                    [actions |-> {a}, voters |-> Missing(d, a), fills |-> TRUE]]
    <3>1. PICK a \in Lacking(d) : job' = [job EXCEPT ![d] =
                    [actions |-> {a}, voters |-> Missing(d, a), fills |-> TRUE]]
      BY <2>2
    <3>2. job'[d] = [actions |-> {a}, voters |-> Missing(d, a), fills |-> TRUE]
      BY <2>1, <3>1
    <3>3. a \in Actions
      BY PicksType
    <3>4. recorded[a] \subseteq snap[d].votes[a] \cup stray[a]
      BY <1>1, <3>3 DEF BatchInv, SnapshotInv
    <3>5. Missing(d, a) \cap recorded[a] \subseteq stray[a]
      BY <3>4 DEF Missing
    <3>6. QED
      BY <3>2, <3>5
  <2>3. CASE \E a \in Queue(d), v \in Roster :
                job' = [job EXCEPT ![d] = [actions |-> {a}, voters |-> {v}, fills |-> FALSE]]
    BY <2>1, <2>3
  <2>4. QED
    BY <2>2, <2>3 DEF VoterPick
<1>5. \A tx \in mempool : tx.sender = Nobody
  BY <1>1, OnlyStraysPending
<1>6. SenderInv'
  BY <1>1, <1>5 DEF BatchInv, SenderInv
<1>7. SnapshotInv'
  BY <1>1, <1>2, <1>3, <1>4 DEF SnapshotInv
<1>8. OnlyStraysReplaced'
  BY <1>1 DEF BatchInv, OnlyStraysReplaced
<1>9. QED
  BY <1>6, <1>7, <1>8 DEF BatchInv

LEMMA BatchVoterSubmit ==
    ASSUME QueueInv, BatchInv, NEW d \in VoteDrivers, VoterSubmit(d) PROVE BatchInv'
<1>1. PICK a \in job[d].actions : mempool' = mempool \cup {BatchTx(d, a)}
  BY DEF VoterSubmit, BatchTx
<1>2. /\ pc[d] = "submit" /\ pc' = [pc EXCEPT ![d] = "wait"]
      /\ UNCHANGED <<recorded, snap, job, stray>>
  BY DEF VoterSubmit
<1>3. \A e \in VoteDrivers : pc'[e] = IF e = d THEN "wait" ELSE pc[e]
  BY <1>2 DEF QueueInv, QueueTypeInv, Drivers
<1>4. \A e \in VoteDrivers \ {d} : pc[e] = "idle"
  BY <1>2, OneVoterRuns
<1>5. \A tx \in mempool : tx.sender = Nobody /\ tx.voters \subseteq stray[tx.action]
  BY <1>2, OnlyStraysPending
<1>6. /\ BatchTx(d, a).sender = d
      /\ BatchTx(d, a).action = a
      /\ BatchTx(d, a).voters = job[d].voters
      /\ BatchTx(d, a).fills = job[d].fills
  BY DEF BatchTx
<1>7. d # Nobody
  BY QueueAssumption
<1>8. SenderInv'
  <2>1. \A tx \in mempool' : tx \in mempool \/ tx = BatchTx(d, a)
    BY <1>1
  <2>2. QED
    BY <1>2, <1>3, <1>5, <1>6, <1>7, <2>1 DEF SenderInv
<1>9. SnapshotInv'
  BY <1>3, <1>4 DEF SnapshotInv
<1>10. OnlyStraysReplaced'
  <2>1. job[d].fills => job[d].voters \cap recorded[a] \subseteq stray[a]
    BY <1>2 DEF BatchInv, SnapshotInv
  <2>2. QED
    BY <1>1, <1>2, <1>6, <2>1 DEF BatchInv, OnlyStraysReplaced
<1>11. QED
  BY <1>8, <1>9, <1>10 DEF BatchInv

LEMMA BatchVoterConfirm ==
    ASSUME QueueInv, BatchInv, NEW d \in VoteDrivers, VoterConfirm(d) PROVE BatchInv'
<1>1. Leave(d) /\ Sent(d) = {} /\ UNCHANGED <<recorded, mempool, stray>>
  BY DEF VoterConfirm, chainVars
<1>2. \A e \in VoteDrivers : /\ e # d => pc'[e] = pc[e] /\ snap'[e] = snap[e] /\ job'[e] = job[e]
                             /\ e = d => pc'[e] = "idle"
  BY <1>1, LeftBehind DEF Drivers
<1>3. \A tx \in mempool : tx.sender # d /\ (tx.sender # Nobody => tx.sender \in VoteDrivers)
  BY <1>1 DEF Sent, QueueInv, QueueTypeInv, Ballots
<1>4. SenderInv'
  BY <1>1, <1>2, <1>3 DEF BatchInv, SenderInv
<1>5. SnapshotInv'
  BY <1>1, <1>2 DEF BatchInv, SnapshotInv
<1>6. OnlyStraysReplaced'
  BY <1>1 DEF BatchInv, OnlyStraysReplaced
<1>7. QED
  BY <1>4, <1>5, <1>6 DEF BatchInv
-----------------------------------------------------------------------------
LEMMA BatchNextInv == QueueInv /\ BatchInv /\ Next => BatchInv'
<1> SUFFICES ASSUME QueueInv, BatchInv, Next PROVE BatchInv'
  OBVIOUS
<1>1. mempool \subseteq Ballots
  BY DEF QueueInv, QueueTypeInv
<1>2. CASE AdvanceEpoch \/ Record \/ Rollback
  BY <1>2, BatchAdvanceEpoch, BatchRecord, BatchRollback
<1>3. ASSUME NEW a \in Actions, List(a) PROVE BatchInv'
  BY <1>1, <1>3, BatchElsewhere DEF List
<1>4. ASSUME NEW d \in Creators, CreatorStart(d) \/ CreatorStep(d) PROVE BatchInv'
  <2>1. \A e \in VoteDrivers : e # d /\ e \in Drivers
    BY QueueAssumption DEF Drivers
  <2>2. CASE CreatorStart(d) \/ CreatorSubmit(d)
    <3>1. /\ UNCHANGED <<recorded, mempool, stray, snap>>
          /\ \A e \in VoteDrivers : pc'[e] = pc[e] /\ job'[e] = job[e]
      BY <2>1, <2>2 DEF CreatorStart, CreatorSubmit, chainVars, QueueInv, QueueTypeInv
    <3>2. QED
      BY <1>1, <3>1, BatchElsewhere
  <2>3. CASE CreatorConfirm(d)
    <3>1. Leave(d) /\ UNCHANGED <<recorded, mempool, stray>>
      BY <2>3 DEF CreatorConfirm, chainVars
    <3>2. QED
      BY <1>1, <2>1, <3>1, LeftBehind, BatchElsewhere DEF Drivers
  <2>4. QED
    BY <1>4, <2>2, <2>3 DEF CreatorStep
<1>5. ASSUME NEW d \in VoteDrivers, VoterStep(d) PROVE BatchInv'
  BY <1>5, BatchVoterStart, BatchVoterQuery, BatchVoterPick, BatchVoterSubmit, BatchVoterConfirm
  DEF VoterStep, VoterGoesOn
<1>6. ASSUME NEW d \in Drivers, Quit(d) PROVE BatchInv'
  BY <1>6, BatchQuit
<1>7. QED
  BY <1>2, <1>3, <1>4, <1>5, <1>6 DEF Next

\* In every behaviour of the two workloads the locks keep the drivers apart, and what
\* is recorded is what the running vote driver has read, but for strays.
THEOREM QueueInductive == Spec => [](QueueInv /\ BatchInv)
<1>1. QueueInv /\ BatchInv /\ UNCHANGED vars => (QueueInv /\ BatchInv)'
  BY DEF QueueInv, QueueTypeInv, LockInv, ChainInv, BatchInv, SenderInv, SnapshotInv,
         OnlyStraysReplaced, vars, chainVars
<1>2. QueueInv /\ BatchInv /\ [Next]_vars => (QueueInv /\ BatchInv)'
  BY <1>1, QueueNextInv, BatchNextInv
<1>3. QED
  BY <1>2, QueueInitInv, BatchInitInv, PTL DEF Spec

\* A batch of missing votes replaces no vote but one that a killed or failed driver, or
\* a fork, had left in transit, for any number of drivers, actions and credentials.
THEOREM VotesNotReplaced == Spec => []OnlyStraysReplaced
<1>1. BatchInv => OnlyStraysReplaced
  BY DEF BatchInv
<1>2. QED
  BY <1>1, QueueInductive, PTL
=============================================================================

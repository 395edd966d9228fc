---------------------------- MODULE LeiosFunding ----------------------------
(***************************************************************************)
(* How the Leios payments get their inputs                                 *)
(* (parallel_driver_leios_transactions.py: submit_payments).  A faucet     *)
(* transfer funds the source account, a fan-out splits an output of it     *)
(* into the inputs of one batch, and the batch is a set of payments that   *)
(* spend one input each.  The journal names the transfer and the fan-out   *)
(* that are under way; a tick of the driver does one of the three.  It     *)
(* reads the outputs at the volatile tip, and the immutable tip later, to  *)
(* tell a transaction that is late from one that is lost.                  *)
(*                                                                         *)
(* Below, a batch is named by its fan-out.  LeiosWitness has what becomes  *)
(* of the payments; only their retirement matters here, which makes room   *)
(* for the next batch.  A transfer pays for more fan-outs than a test has  *)
(* time for (FUND_AMOUNT is 124 of them), so its output stands for every   *)
(* change that is large enough to be split again.                          *)
(***************************************************************************)
EXTENDS FirstSetup

CONSTANTS
    Transfers,   \* bound: faucet transfers under way or landed at a time
    Fanouts,     \* bound: fan-outs that matter at a time; the name of one that is
                 \* over is used again
    NoTx,
    MaxBatches   \* MAX_PAYMENTS \div BATCH_SIZE: a batch is retired as a whole

Txs == Transfers \cup Fanouts

ASSUME FundingAssumption ==
    /\ Transfers \cap Fanouts = {}
    /\ NoTx \notin Txs
    /\ MaxBatches \in Nat \ {0}

VARIABLES
    place,     \* where a transaction is: on no block, a volatile or an immutable one
    bound,     \* its validity bound: not signed yet, ahead of the volatile tip,
               \* passed by that, passed by the immutable tip
    sent,      \* transactions a node has received
    spoiled,   \* fan-outs whose input a rollback took away
    paid,      \* how often a batch of this fan-out's outputs was broadcast
    batchBound, \* the validity bound of that batch
    journal,   \* tracking.json
    pc,        \* what the holder of tracking.lock does, "idle" when it is free
    mem,       \* its copy of the journal
    outputs,   \* the transactions whose outputs it has seen
    current    \* the transaction it has journalled and is about to broadcast

chainVars == <<place, bound, sent, spoiled>>
batchVars == <<paid, batchBound>>
tickVars  == <<pc, mem, outputs, current>>
fundingVars == <<chainVars, batchVars, journal, tickVars>>
vars == <<setupVars, fundingVars>>

Bounds == {"unsigned", "open", "passed", "final"}

EmptyJournal == [transfer |-> NoTx, fanout |-> NoTx, batches |-> {}]

Init ==
    /\ SetupInit
    /\ place = [t \in Txs |-> "none"]
    /\ bound = [t \in Txs |-> "unsigned"]
    /\ sent = {}
    /\ spoiled = {}
    /\ paid = [x \in Fanouts |-> 0]
    /\ batchBound = [x \in Fanouts |-> "unsigned"]
    /\ journal = EmptyJournal
    /\ pc = "idle"
    /\ mem = EmptyJournal
    /\ outputs = {}
    /\ current = NoTx
-----------------------------------------------------------------------------
(* The chain *)

OnChain == {t \in Txs : place[t] # "none"}

\* Valid, received, and its input is there: a fan-out needs a transfer.
Includable(t) ==
    /\ t \in sent \ (spoiled \cup OnChain)
    /\ bound[t] = "open"
    /\ t \in Fanouts => OnChain \cap Transfers # {}

Include(t) ==
    /\ Includable(t)
    /\ place' = [place EXCEPT ![t] = "volatile"]
    /\ UNCHANGED <<bound, sent, spoiled, batchVars, journal, tickVars>>

Settle(t) ==
    /\ place[t] = "volatile"
    /\ t \in Fanouts => \E f \in Transfers : place[f] = "immutable"
    /\ place' = [place EXCEPT ![t] = "immutable"]
    /\ sent' = sent \ {t}
    /\ UNCHANGED <<bound, spoiled, batchVars, journal, tickVars>>

\* A fork without the blocks of dropped, whose tip is behind bounds that the old
\* one had passed.  A fan-out may have spent what is gone.
Rollback ==
    \E dropped \in SUBSET {t \in Txs : place[t] = "volatile"},
       reopened \in SUBSET {t \in Txs : bound[t] = "passed"},
       lost \in SUBSET (Fanouts \ OnChain) :
        /\ dropped # {}
        /\ OnChain \cap Transfers \subseteq dropped => OnChain \subseteq dropped
        /\ place' = [t \in Txs |-> IF t \in dropped THEN "none" ELSE place[t]]
        /\ bound' = [t \in Txs |-> IF t \in dropped \cup reopened THEN "open" ELSE bound[t]]
        /\ spoiled' = spoiled \cup {x \in lost : bound[x] # "unsigned"}
        /\ UNCHANGED <<sent, batchVars, journal, tickVars>>

\* The volatile tip passes a bound, then the immutable tip does.
Lapse(t) ==
    /\ bound[t] = "open"
    /\ bound' = [bound EXCEPT ![t] = "passed"]
    /\ UNCHANGED <<place, sent, spoiled, batchVars, journal, tickVars>>

Finalise(t) ==
    /\ bound[t] = "passed"
    /\ place[t] # "volatile"
    /\ bound' = [bound EXCEPT ![t] = "final"]
    /\ sent' = sent \ {t}
    /\ spoiled' = spoiled \ {t}
    /\ UNCHANGED <<place, batchVars, journal, tickVars>>

BatchExpires(x) ==
    /\ batchBound[x] = "open"
    /\ batchBound' = [batchBound EXCEPT ![x] = "final"]
    /\ UNCHANGED <<chainVars, paid, journal, tickVars>>

\* The name of a transaction that can neither land nor be asked for again is free.
Forget(t) ==
    /\ bound[t] = "final"
    /\ place[t] = "none" \/ t \in Fanouts
    /\ t \notin {journal.transfer, journal.fanout, mem.transfer, mem.fanout, current}
    /\ t \in Fanouts => t \notin journal.batches /\ batchBound[t] \in {"unsigned", "final"}
    /\ place' = [place EXCEPT ![t] = "none"]
    /\ bound' = [bound EXCEPT ![t] = "unsigned"]
    /\ paid' = [x \in Fanouts |-> IF x = t THEN 0 ELSE paid[x]]
    /\ batchBound' = [x \in Fanouts |-> IF x = t THEN "unsigned" ELSE batchBound[x]]
    /\ outputs' = outputs \ {t}
    /\ UNCHANGED <<sent, spoiled, journal, pc, mem, current>>

Time == \E t \in Txs : Lapse(t) \/ Finalise(t) \/ Forget(t)

Chain ==
    \/ Rollback
    \/ Time
    \/ \E t \in Txs : Include(t) \/ Settle(t)
    \/ \E x \in Fanouts : BatchExpires(x)
-----------------------------------------------------------------------------
(* The submit driver *)

Leave ==
    /\ pc' = "idle"
    /\ mem' = EmptyJournal
    /\ outputs' = {}
    /\ current' = NoTx

\* Faulty: a driver starts before the setup is complete.
AtAnyTime == TRUE

MarkerExists == SetupDone

\* There is room for another batch.
TickStart ==
    /\ pc = "idle"
    /\ MarkerExists
    /\ Cardinality(journal.batches) < MaxBatches
    /\ pc' = "outputs"
    /\ mem' = journal
    /\ UNCHANGED <<chainVars, batchVars, journal, outputs, current>>

ReadOutputs ==
    /\ pc = "outputs"
    /\ outputs' = OnChain
    /\ pc' = IF OnChain = {} THEN "transfer" ELSE IF mem.fanout = NoTx THEN "fanout" ELSE "inputs"
    /\ UNCHANGED <<chainVars, batchVars, journal, mem, current>>

\* Faulty: the volatile tip decides.
PassedByNow(t) == bound[t] \in {"passed", "final"}

\* The immutable tip has reached its bound: it has landed there, or never will.
Gone(t) == bound[t] = "final"

\* Sign t and journal it, before any broadcast.
Begin(t, j) ==
    /\ bound[t] = "unsigned"
    /\ bound' = [bound EXCEPT ![t] = "open"]
    /\ journal' = j
    /\ mem' = j
    /\ current' = t
    /\ pc' = "send"
    /\ UNCHANGED <<place, sent, spoiled, batchVars, outputs>>

\* The source is empty, and an earlier transfer is none that may still land.
Fund ==
    /\ pc = "transfer"
    /\ mem.transfer # NoTx => Gone(mem.transfer)
    /\ \E f \in Transfers : Begin(f, [mem EXCEPT !.transfer = f])

Split ==
    /\ pc = "fanout"
    /\ \E x \in Fanouts : Begin(x, [mem EXCEPT !.fanout = x])

\* A call that fails may have reached the node or not; the node refuses what is no
\* longer valid.
Broadcast(t) == sent' \in {sent, sent \cup {x \in {t} : bound[x] = "open" /\ place[x] = "none"}}

Send ==
    /\ pc = "send"
    /\ Broadcast(current)
    /\ pc' = "end"
    /\ UNCHANGED <<place, bound, spoiled, batchVars, journal, mem, outputs, current>>

\* The fan-out's outputs are not there: broadcast it again while it is valid.
Resend ==
    /\ pc = "inputs"
    /\ mem.fanout \notin outputs
    /\ Broadcast(mem.fanout)
    /\ pc' = "lost"
    /\ UNCHANGED <<place, bound, spoiled, batchVars, journal, mem, outputs, current>>

\* Faulty: a fan-out that was journalled is waited for.
WaitForFanout == UNCHANGED mem

DropLostFanout == mem' = IF Gone(mem.fanout) THEN [mem EXCEPT !.fanout = NoTx] ELSE mem

\* Give it up once it cannot land any more.
GiveUpFanout ==
    /\ pc = "lost"
    /\ DropLostFanout
    /\ pc' = "end"
    /\ UNCHANGED <<chainVars, batchVars, journal, outputs, current>>

\* Faulty: the fan-out's record goes when the tick ends.
BatchFirst(x) ==
    /\ journal' = [mem EXCEPT !.batches = @ \cup {x}]
    /\ mem' = [journal' EXCEPT !.fanout = NoTx]

\* The payments are recorded and the fan-out's record goes, in one write.
JournalBatch(x) ==
    /\ journal' = [mem EXCEPT !.batches = @ \cup {x}, !.fanout = NoTx]
    /\ mem' = journal'

PrepareBatch ==
    /\ pc = "inputs"
    /\ mem.fanout \in outputs
    /\ JournalBatch(mem.fanout)
    /\ batchBound' = [batchBound EXCEPT ![mem.fanout] = "open"]
    /\ current' = mem.fanout
    /\ pc' = "pay"
    /\ UNCHANGED <<chainVars, paid, outputs>>

Pay ==
    /\ pc = "pay"
    /\ paid' = [paid EXCEPT ![current] = IF @ < 2 THEN @ + 1 ELSE @]
    /\ pc' = "end"
    /\ UNCHANGED <<chainVars, batchBound, journal, mem, outputs, current>>

\* Nothing to do, a query or a build that fails, or done: the journal is saved.
TickEnd ==
    /\ pc \in {"outputs", "transfer", "fanout", "inputs", "lost", "end"}
    /\ journal' = mem
    /\ Leave
    /\ UNCHANGED <<chainVars, batchVars>>

\* The driver is killed: the kernel drops the lock and nothing is saved.
Crash ==
    /\ pc # "idle"
    /\ Leave
    /\ UNCHANGED <<chainVars, batchVars, journal>>

\* The observe driver, under the same lock: payments whose bound is immutable go.
Retire ==
    /\ pc = "idle"
    /\ \E x \in journal.batches : batchBound[x] = "final"
    /\ journal' = [journal EXCEPT !.batches = {x \in @ : batchBound[x] # "final"}]
    /\ UNCHANGED <<chainVars, batchVars, tickVars>>

Tick ==
    \/ TickStart \/ ReadOutputs \/ Fund \/ Split \/ Send \/ Resend \/ GiveUpFanout
    \/ PrepareBatch \/ Pay \/ TickEnd

Funding == Chain \/ Tick \/ Crash \/ Retire

Next ==
    \/ SetupNext /\ UNCHANGED fundingVars
    \/ Funding /\ UNCHANGED setupVars

Spec == Init /\ [][Next]_vars
-----------------------------------------------------------------------------
(* Properties *)

\* The setup and the transfer for Leios payments are the only two that spend from the
\* faucet, and never at a time: nobody waits for the faucet lock, whose 120 s are
\* shorter than a confirmation may take.
FaucetUncontended == ~(step # "off" /\ pc \in {"transfer", "send"})

\* The faucet is asked again only when the earlier transfer cannot land any more:
\* a transfer that can is the one the journal names, whatever was lost, killed or
\* rolled back.
OneOpenTransfer ==
    \A f \in Transfers : bound[f] \in {"open", "passed"} => journal.transfer = f

\* "Other independent transactions can still land": payments never compete for an
\* input, since a fan-out feeds one batch, and a payment that is out is in the
\* journal until its bound is immutable.
BatchesIndependent ==
    \A x \in Fanouts : paid[x] > 0 =>
        /\ paid[x] = 1
        /\ x \in journal.batches \/ batchBound[x] = "final"
-----------------------------------------------------------------------------
(* Liveness *)

\* What a tick does when no query fails.
TickProgress ==
    \/ TickStart \/ ReadOutputs \/ Fund \/ Split \/ Resend \/ GiveUpFanout \/ PrepareBatch \/ Pay
    \/ Send /\ (bound[current] = "open" => current \in sent')
    \/ /\ TickEnd
       /\ \/ pc = "end"
          \/ pc = "transfer" /\ mem.transfer # NoTx /\ ~Gone(mem.transfer)
          \/ pc = "transfer" /\ \A f \in Transfers : bound[f] # "unsigned"
          \/ pc = "fanout" /\ \A x \in Fanouts : bound[x] # "unsigned"

\* A rollback, a kill, a failed query, a lost broadcast, a transaction that is left
\* waiting until its bound is passed, or a tick so long that one which it did not
\* see lands and becomes immutable before it ends.
FaultStep ==
    \/ Rollback
    \/ (Crash \/ TickEnd \/ Send) /\ ~TickProgress
    \/ \E t \in Txs : Lapse(t) /\ (Includable(t) \/ t = current)
    \/ \E t \in Txs \ outputs : Finalise(t) /\ place[t] = "immutable" /\ pc # "idle"

\* When the faults have stopped, drivers run again and again, the chain takes
\* what it can, and slots pass.
Fairness ==
    /\ <>[][~FaultStep]_fundingVars
    /\ WF_fundingVars(TickProgress)
    /\ SF_fundingVars(Retire)
    /\ \A t \in Txs : WF_fundingVars(Include(t)) /\ WF_fundingVars(Settle(t)) /\ WF_fundingVars(Lapse(t))
                      /\ WF_fundingVars(Finalise(t)) /\ SF_fundingVars(Forget(t))
    /\ \A x \in Fanouts : WF_fundingVars(BatchExpires(x))

FairSpec == Spec /\ Fairness /\ SetupFairness

\* Once the setup is complete, batches keep coming: no lost transfer, lost fan-out,
\* stale view of the outputs or kill leaves the pipeline stuck.
BatchesKeepComing == [](SetupDone => <>(pc = "pay"))
=============================================================================

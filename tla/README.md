# Models of the Cardano governance workload

TLA+ models of `cardano_node_governance`, the Antithesis test workload of this
repository: short driver scripts that create governance actions, vote on them and
check their outcomes on a real cluster of Cardano nodes while faults are injected.
The workload reports assertions, and an `Always` or `Unreachable` assertion that fails
is read as a bug of the node. So what has to be right about this code is mostly this:

* **no false alarm**: whatever the network, the scheduler and crashes do, a correct
  ledger never makes an `Always` assertion fail;
* **no lost test**: what a crash or a lost submission leaves behind is cleaned up, so
  that the drivers go on testing until the end.

Paths below are relative to the repository; `governance-python/` stands for
`components/gov-cli/composer/governance-python/`.

## 1. The system

### 1.1 Processes, scheduling, faults

The `gov-cli` container runs nothing of its own (`sleep.sh`). The Antithesis composer
starts the scripts in `governance-python/` by their name's prefix:

| prefix | when | consequence for the models |
|---|---|---|
| `first_` | before all others, no faults | drivers wait for its marker; it may fail, be killed, run again |
| `parallel_driver_` | again and again, any number at once | creators and voters, sets of processes |
| `anytime_` | again and again, also beside the others | observers, sets of processes |
| `eventually_` | when faults have stopped, other drivers killed | a phase of its own (`TreasuryRecovery`); the fairness assumptions |
| `finally_` | once, at the end | no state |

A driver is a short process: it tries its locks without waiting and leaves when one is
taken, asks the node of `relay1` a few things, does one thing, exits. It may be killed
at any step. Its locks are kernel locks (`fcntl.flock`) that vanish with it; what it
wrote to the shared directory stays. `relay1` and `gov-cli` are excluded from faults, the
producers are not: the chain stalls, rolls back, and submissions get lost.

### 1.2 Components

| component | state it keeps | operations | interacts through | hard behaviour |
|---|---|---|---|---|
| treasury withdrawals: create, vote, observe, recovery drivers; `helper_treasury.py` | one claim file `recv_<i>.json` per receiver | claim, prepare, journal, submit; vote; observe, note, retain, release | submission, observer and receiver locks; the claim files; the chain | crash between any two steps, lost submission that lands late, claim replaced under an observer, rollback |
| ParameterChange: create, vote, observe drivers | one record per submitted update | submit then record; vote; resolve and delete | the record directory, without a lock; the chain | stale or failed live query, two observers, a record written late or in part |
| InfoAction: create, vote, recovery drivers | none, "the chain IS the queue" | submit; batch of missing votes | vote lock, payment-address locks, the chain | stale snapshot, votes lost on a fork, expired action at the head |
| Leios payments: submit, observe, recovery drivers; `helper_leios_transactions.py` | the journal `tracking.json`: payments, cursors, evidence | fund and fan out, sign, journal, broadcast, resubmit; ingest logs, prove, retire | `tracking.lock`; node logs; the chain | evidence in any order, orphaned blocks, truncated headers, a kill between read and save |
| first setup | three markers, the guided claim, the saved proposal | register; special DReps; receivers; guided withdrawal with its votes; fund the address pool | the chain, the faucet, the markers | a submission in doubt, restart in the middle |
| payment addresses and faucet (`helper_gov.py`) | kernel locks | try an address; wait for the faucet | all drivers | pool at its limit, timeout while the holder waits |
| chain probe | a verdict file with an age limit | measure, publish, read | a file | overlapping probes |
| Leios load and endorser probes, governance-state probe, summary | none | sample, report | logs, chain | none |
| `scripts/wait-for-test.sh` | counters of one process | poll in three stages | `moog` facts | unreadable answers, a run that is never picked up |
| tx-firehose, gov-configurator, CI, images | supervisor loop; generated files | restart the generator; generate; build | volumes | mostly sequential |

### 1.3 What makes each correct

* Treasury: at most one withdrawal to a receiver is undecided at a time; so a balance
  change can be attributed; so the three `Always` assertions are never false on a correct
  ledger. A receiver that is not one of the two retained lanes comes free again. The lanes
  are voted as intended and are not recycled.
* ParameterChange: a record stays while its update is live, and goes in the end.
* Votes: running drivers do not replace each other's votes; each live action gets every vote in
  the end.
* Treasury recovery: the verdict at the end of a run is right, within its budget.
* First setup: a marker tells the truth; one guided withdrawal is proposed; setup gets on.
* Leios: a proof that is reported is one, and stays one; no evidence is lost; a payment is
  only forgotten when nothing can happen to it; a certified payment is recognised. Its
  funding never asks the faucet twice for the same, and never gets stuck.
* wait-for-test: it ends, is green only on success, and a bad read is no verdict.

`PROJECT.json` lists every component with its status and every hazard with its line and
the properties that cover it.

## 2. The modules

```
GovLedger                the chain as the treasury drivers see it
  GovLedger_proofs       its invariant; what the immutable tip shows is stable
  TreasuryClaims         the treasury workload
    TreasuryClaims_proofs     locks, claims, one undecided withdrawal
      TreasuryOutcome_proofs  attribution, alarms, lanes
    TreasuryPool         it implements ReceiverPool         MC_Claims    3 runs
      TreasuryRecovery   then the recovery driver           MC_Recovery  1 run
        TreasuryRecovery_proofs  the refinement, and the recovery verdict
ReceiverPool             what the workload promises about receivers
PParamTracking           ParameterChange records            MC_PParam    2 runs
VoteQueue                the two voting workloads           MC_Votes     1 run
  VoteQueue_proofs
LeiosWitness             the Leios payment journal          MC_Leios     2 runs
  LeiosWitness_proofs
FirstSetup               first_setup.py
  LeiosFunding           then transfers, fan-outs, batches               1 run
    LeiosFunding_proofs  both modules' properties
WaitForTest              wait-for-test.sh                                2 runs
  WaitForTest_proofs
```

Definitions whose comment begins with *Faulty:* are plausible mistakes. No specification
uses them. Each is what one of a property's mutants puts in the place of the correct
definition next to it, and each property is violated by its own.

### 2.1 GovLedger

Node and ledger are not in the repository, so the module is marked external: it has what
the drivers count on, and no more. There is a volatile tip that extends and rolls back to
any slot that is not immutable, and an immutable tip that follows it. For each withdrawal
there is the slot that includes it (before its `invalid-hereafter`; or never) and the slot
whose votes approve it. Everything a query returns is a function of these and of a slot
(`LiveAt`, `RatifiedAt`, `Balance`), so a query with `--immutable-tip` is that function at
`immutableSlot`, and one without it is the function at `volatileSlot`. An approved action is ratified one
epoch boundary after the decisive vote, enacted at the next: it leaves the live set and
pays in the same transition. An action that nobody approved is listed for one more epoch
after `expiresAfter` and goes. What a rollback drops returns to the mempool.

Abstracted: a withdrawal is one unit to one receiver; one YES stands for votes over
all the thresholds; slots, epochs and the immutability window are a few units long.

### 2.2 TreasuryClaims

| in the module | in the code |
|---|---|
| `claim[i]`: `absent`, `torn`, `claimed`, `prepared`, `journalled` | `recv_<i>.json`: none; created by `O_EXCL` and still empty; with the baseline; with `valid_until`; with the transaction id |
| `submissionLock`, `observerLock`, `receiverLock[i]` | `treasury-submit.lock`, `treasury-observer.lock`, `treasury-receiver-<i>.lock` |
| `cPC`, `cTried`, `cIdx`, `cEpoch`, `cPre`, `cTx` | create driver: where it is and its locals |
| `vPC`, `vProps` | vote driver: the live set it read |
| `oPC`, `oLive`, `oTodo`, `oIdx`, `oRec`, `oTip`, `oState`, `oBalance` | observe driver: live set, list, claim re-read under the lock, and the *slots* at which each query of `immutable_snapshot` was answered |
| `alarms` | the `Always` assertions reported false |

A driver's step is what happens between two points at which another process or the chain
can act: each file operation and each query is one. `CreatorCrash`, `VoterQuit` and
`ObserverCrash` are kills, and they release the locks; `CreatorFail` is the handler that
releases a claim when an exception comes before the journal; `CreatorQuit` leaves an
early return's file behind; `CreatorSubmit` may or may not have reached a node.
`ObserverReclaim` is the two-epoch rule for claims without a transaction id, `ObserverTip`
to `ObserverRetry` are `immutable_snapshot`, and `ObserverCheck` to `ObserverResolve` are
`observe()`. Writes after the first one are atomic in the code (`os.replace`), hence one step.

The answer of an immutable query is kept as its slot and evaluated when it is used. That is
sound because such an answer never changes: rollbacks stop at the immutable tip. The proofs rest
on it too (lemmas `AnswersKept`, `SettledKept`); as it is a fact about the node, not about the
workload, no run lists it as a property.

### 2.3 PParamTracking

| in the module | in the code |
|---|---|
| `stage[u]`, `prev[u]` | where the node has an update, and the action that it chains off |
| `lastEnacted`, `nextEnacted` | what is enacted, and `nextRatifyState.nextEnactState`, from which `get_prev_pparam_action` takes the previous action |
| `record[u]`: `none`, `torn`, `written` | `<txid>_<ix>.json`: not there; created by `write_text` and still empty; with its content |
| `cPC`, `cUpdate`; `oPC`, `oLive`, `oTodo` | the create drivers; the observe drivers, with the live set and the records they have read |

Updates chain: each names the one that the next epoch starts from, enacted or just ratified. Enacting
one removes what does not hang on it. Which live update is ratified or expires is the chain's free
choice. A rollback takes an update's block, what hangs on it and its ratification, but no enactment or
expiry, which are an epoch boundary further. The create driver submits, waits for the confirmation and
only then creates the record and writes it, in two steps; observers take no lock, skip a record that
they cannot parse, and `live_pparam_update_actions` answers `[]` when its query fails. The parameter's
value is left out: it decides only between two `Sometimes` assertions.

### 2.4 VoteQueue

One module for the two voting drivers, which are one algorithm with a different roster
(pools vote on InfoActions only) and a different filter (the ParameterChange driver leaves
out expired actions, the InfoAction driver does not). `workload` is chosen initially. Vote lock,
payment address, query, pick, submit and confirmation are a step each; an action can be voted on
in `Lifetime` epochs after the one it is listed in, and is cleaned up an epoch later. Vote
transactions wait in a mempool, each with the driver that waits for it (`sender`), and may be lost
or return on a fork. `Quit` is every early end: a kill, a failed query, a failed or unanswered
submission. It releases the locks and leaves the driver's transaction where it is, with nobody
waiting for it.

`stray` is a history variable: votes in transit that nobody waits for, because their driver has
ended or a fork has taken them off the chain, until a driver's query sees them or they are no longer
pending. `OnlyStraysReplaced` says that these are all that a batch of missing votes may replace while
its driver waits for it. That they are replaced, or land late and replace others, is what the code
does not prevent (section 3.2).

`EveryActionVoted` is about the actions that the run ends with. Actions listed later never expire
earlier, so a stream of creators does not push an older action back in the queue, other than one of
the same epoch with a smaller id; how many votes fit into an epoch, and so whether each action gets
its votes before it expires, is a matter of rates, which are not modelled.

### 2.5 LeiosWitness

Ranking blocks (RB) form a tree; an RB may announce an endorser block (EB), and a child of
it may certify that EB. A block's record holds its ancestors (`chain`), a function of the
parents that is kept so that nothing recursive is needed. Forging leaves log lines that the
observe driver reads in any order and by portions (`lag`); a tick that is killed before its
save reads them again. `journal` is `tracking.json`, with `unread` in the place of the file
cursors; `mem` is the copy in the memory of the lock's holder; every way out saves it, but a
kill. `Filed` is `ingest` with
the truncation to `MAX_HEADERS`, `ImmutableAncestors` and `Proofs` are `immutable_ancestors`
and `certified_payment`, and `ObserverCheck` is what is done at one immutable point. A batch
here is a set of payments nothing competes with; `LeiosFunding` shows why.

### 2.6 WaitForTest

The script's three loops with its two counters; `phase` and `outcome` belong to the run
that is being waited for, which may be pending for ever. `silence` is a history variable: the
unreadable answers since the last readable one, counted beside the script's own `QUERY_FAILS`, so
that a count which is not cleared by a good answer (line 60), or which one stage would begin anew, shows.

### 2.7 ReceiverPool and TreasuryPool

`ReceiverPool` is the contract of `helper_gov.py:206-279` without files, locks, drivers and
queries: a receiver is *reserved*, *attached* to one withdrawal, and *released* when that
withdrawal is *paid* or *void*; a decision is final; the guided receiver is not released
after a payment. `TreasuryPool` maps the claims to it: a claim file without a transaction id
is a reservation, a journalled one an attachment, and `Decision` is what the immutable tip
has settled. `ImplementsReceiverPool` says that each step of the workload is a step of the
contract or none. A torn claim is a reservation that nobody gives up: the contract allows
that, since it promises safety; that it never ends is the finding of `torn_claim`.

### 2.8 TreasuryRecovery

`Testing` is the workload of `TreasuryClaims` under faults. `Recover` kills every driver and
starts `eventually_treasury_withdrawal.py`: `PollTake`, `PollObserve` (the steps of
`observe()`), `PollFails` and `PollEnd` are one turn of its loop, `PollMissing` is a turn
without a claim, `RecoveryFails` the end of the loop. Two assumptions, both about time:

* polls (5 s) are much denser than the slots of the model, which stand for a part of an epoch
  of 50 minutes; so the chain goes on only after a poll (`polled`), though a poll may straddle
  one of its steps;
* the budget is time and is measured by the volatile tip: without faults the chain grows and
  no longer rolls back.

`RecoveryAssumption` says that the window fits into an epoch, since `generate.sh` keeps an epoch
at ten times `k / f`.

### 2.9 FirstSetup

`step` is the next part of `main()`, `markers` the three marker files, `claim` and `saved` the
guided claim and `guided_proposal.signed`. `Submit` is a `build_sign_submit` that returns,
which means that the transaction is on the chain. `SubmitFails` is one that raises, and then the
node may have it or not: it is in `inflight`, from where it lands or is dropped. `Abort` is
`return 1` or a kill; `SetupStart` is the first attempt and every other. `CreateClaim` to
`CreateBroadcast` are the treasury create driver's `create()`, called here without a
competitor. The ledger takes registration certificates once. No faults are injected before
the marker exists, so there are no forks, and the wait for an epoch is long enough for
what is in flight to land or be dropped. Two things are left out: what setup landed is not rolled back
after the marker either, although faults start then and its last blocks are volatile; and the
guided proposal's own validity bound, so `SetupCompletes` does not tell whether the retries outlast it.

### 2.10 LeiosFunding

It extends `FirstSetup`, whose marker its drivers wait for and whose faucet they use. Slots
are abstracted to what a transaction's bound is to the two tips (`bound`), blocks to where a
transaction is (`place`). A tick reads the outputs (`ReadOutputs`), then does one of three:
`Fund`, `Split`, or feed a batch from a fan-out (`PrepareBatch`, `Pay`); a fan-out that is not
there is sent again and given up when the immutable tip has reached its bound (`Resend`,
`GiveUpFanout`). `Begin` and `JournalBatch` are the saves before a broadcast; `TickEnd` is every
way out, which saves the journal, and `Crash` a kill, which does not. `Retire` is the
observe driver, which makes room. Names of transactions that are over are used again.
A transfer pays for 124 fan-outs and a test has time for about 50, so the case that
no output is large enough (`parallel_driver_leios_transactions.py:45`) is left out, and so is
the end of tracking after a complete witness. The timeout of the faucet lock (120 s) is left out since
`FaucetUncontended` says that nobody waits for it.

## 3. The runs

Every run is exhaustive for its instance. Deadlock is not checked because the chain, the
transactions, the blocks or the actions are bounded, and the script exits: a behaviour may
really stop there.

| run | question | instance | distinct states |
|---|---|---|---|
| `claims` | can two withdrawals to one receiver be undecided together; does an observer act on an old claim; is a payment attributed to the right withdrawal; is all this the contract? `TypeOK`, `OneUnsettledPerReceiver`, `ObservedClaimIsCurrent`, `OutcomeAttributed`, `NoFalseOverpay`, `ImplementsReceiverPool` | 2 transactions, 2 creators, 1 voter, 2 observers, one ordinary receiver; `EpochLength` 1, `ActionLifetime` 0, `Window` 1, `MaxSlot` 4 | 242 k |
| `recovery` | can a stale voter disturb a lane; is a paid guided receiver kept; is the final verdict right within its budget? `ExpiryLaneUnvoted`, `GuidedVotesKept`, `ImplementsReceiverPool`, `RecoveryVerdict` | 2 transactions, receivers 1 and 2, YES and NO votes, one driver of each kind; `EpochLength` 2, `Window` 2, faults until slot 3, `MaxSlot` 9 | 285 k |
| `one_withdrawal` | no false alarm, no stuck claim under fairness, and is a lane recycled? `NoFalseExpiryPayout`, `NoFalsePayoutMismatch`, `LanesRetained`, `AbandonedClaimReclaimed`, `UncertainSubmissionResolved` | 1 transaction, both lanes; `Window` 2, `MaxSlot` 3 | 91 k |
| `torn_claim` | (finding) is a claim reclaimed whose creator died before the first write? `TornClaimReclaimed` | 1 transaction, one ordinary receiver | |
| `pparam_records` | is the record of an update that left the chain deleted, but for one that was never written? `ResolvedRecordCleared` | 2 updates, 2 creators, 2 observers | 390 k |
| `pparam_live_record` | (finding) is a record kept while its update is live? `LiveRecordsKept` | 2 updates, 1 creator, 1 observer | |
| `wait_for_test` | does it end, and is a healthy run given up only after a whole row of unreadable answers? `WaitEnds`, `GivesUpOnSilence` | 3 failures, patience 4 | 227 |
| `wait_single_read` | (finding) is one bad read a verdict? `OneBadReadIsNoVerdict` | the same | |
| `leios_witness` | can evidence mislead, be lost, or a payment be forgotten too early? `NoFalsePaymentAlarm`, `ProofsAreFinal`, `BodiesAttributed`, `RetiredIsDead` | 1 payment, 3 ranking blocks on any tree, 2 headers kept, validity 2, 1 line late | 3.25 M |
| `leios_live` | is a certified payment recognised? `CertifiedIsWitnessed` | 1 payment, 2 ranking blocks, 2 headers kept, validity 3 | 89 k |
| `votes` | whose votes can a batch of missing votes replace; does each action get every vote? `OnlyStraysReplaced`, `EveryActionVoted` | 2 actions, 1 DRep, 1 pool, 1 creator, 2 vote drivers, 2 addresses; `Lifetime` 1, epochs 0 to 2, 1 transaction in the mempool | 564 k |
| `leios_funding` | do markers tell the truth; is one guided withdrawal proposed; who waits for the faucet; is it asked twice; are inputs paid with twice; do setup and batches get on? `MarkersTruthful`, `OneGuidedProposal`, `FaucetUncontended`, `OneOpenTransfer`, `BatchesIndependent`, `SetupCompletes`, `BatchesKeepComing` | 2 receivers, 2 proposals; 2 transfers, 1 fan-out at a time, room for 1 batch | 124 k |

**Why the bounds are enough.** They are set so that the interesting case fits, and each
property's mutant shows that it does.

* Claims. Two transactions and one receiver are the smallest instance in which a claim is
  replaced; `MaxSlot` leaves room for inclusion, approval, ratification, payment (two epoch
  boundaries) and then a second claim on the same receiver. Two observers and two creators
  race for one lock. `Window` 1 lets a rollback undo an inclusion or an approval; `Window` 2 in
  the other two runs lets it undo both together, and an epoch of 2 slots in `recovery`
  separates "the same epoch" from "the same slot".
  `LastCreateSlot` stops creators early enough for what they started to be decided
  within `MaxSlot`.
* Recovery. Faults last until slot 3, so an action can be approved as late as the slot at which
  the recovery driver starts; six more slots are its three epochs. Two epochs are too few
  (the mutant).
* Setup and funding. Two receivers are the guided one and the one a confused attempt would take
  next. Two transfers are one that is in doubt and one more. One fan-out at a time is what the
  journal has room for; a name is used again as soon as its bearer can do nothing more. Two fan-outs
  beside each other give instances too large for the liveness properties.
* Leios. Three blocks hold an EB, its certificate on one fork and a competitor on another;
  two headers make truncation happen with the third block; a lag of one line is enough to
  separate any two pieces of evidence.
* Votes. Two actions are a head and a rest; a pool and a DRep make the rosters of the two workloads
  differ. One transaction in the mempool may have been left behind, and land while the next driver
  picks what it reads as missing; two at a time are left to the theorem. The actions may be listed in
  different epochs: the one has expired and waits for its clean-up at the head of the queue while the
  other, which it holds up, is live and lives on after it. Epochs are counted from the first listing.
* Symmetry is used in safety runs only, over transactions, creators and observers; no
  definition orders them. Receivers are ordered in the code and not symmetric.

Two things the runs taught. The recheck of the tip at the end of `immutable_snapshot`,
the volatile and immutable live guards and the ratified-epoch guard of `observe()` overlap:
given the order tip, state, balance, dropping any single one of them raises no false alarm in
these instances. The validity bound, the journal before the broadcast, the baseline, the
receiver lock, the immutable queries and the exclusion of the lanes from random votes
cannot be dropped. The same holds of the second tip query in the Leios observer.

### 3.1 Fairness

Fairness is only used in `FairSpec`, and states what the composer and the nodes do.

* *Faults stop.* `<>[][~FaultStep]_vars`: Antithesis stops injecting faults before it runs
  `eventually_` drivers. A fault step is a rollback, a kill or a failed query; one that
  leads to the same state as a progress step does not count as one.
* *The chain goes on.* Weak fairness of new slots, of the immutable tip, of inclusion of
  votes, and of listing an action. Nothing makes the chain include a withdrawal or approve it.
* *Drivers are run again.* Weak fairness of a step of each started creator or voter (it
  completes, fails or is killed) and of each observer's progress.
  In `VoteQueue` some vote driver starts again and again. A creator need never start.
* *Leios.* `SF(IngestAll)`: both drivers try one lock without waiting, so an observer's
  attempt is enabled again and again rather than for ever, and
  `eventually_leios_transactions.py` runs both in turn until its deadline.
* *Setup.* Weak fairness of its progress and of transactions that land. Nothing makes an
  attempt succeed: one that is cut short, or in which the receivers were not registered, is
  excused by `SetupCompletes`. What must not happen is that a payout which only met
  failures that are retried stays where it is.
* *Funding.* Ticks make progress, the chain takes what it can, slots pass, the observe driver
  gets the lock again and again. Beside rollbacks, kills, failed queries and lost
  broadcasts two things count as faults that stop: a transaction that waits until its bound is
  passed although the chain could take it, and a tick that lasts so long that a transaction it
  did not see lands and becomes immutable before it ends. Without the second, a fan-out could
  land in each tick between the reading of the outputs and that of the immutable tip, and be
  given up each time; a tick takes seconds and the immutable tip is many blocks behind.
* *wait-for-test.* The loops run; an accepted run finishes. A run is not assumed to be picked
  up. A phase the script does not know is assumed to be left again: line 100 polls on in it
  without a limit, and `WaitEnds` would not hold otherwise (see the hazards).

### 3.2 What was found

* `torn_claim`: `claim_recv_slot` creates the file and then writes it
  (`helper_gov.py:238`). A kill in between leaves an empty file, which
  `pending_recv_slots` skips and `claim_recv_slot` refuses: the receiver is lost, and for
  receiver 1 the guided lane with it. PROPERTIES.md says abandoned claims are reclaimable.
* `pparam_live_record`: an empty answer of a failed query makes every pending record count
  as resolved and deletes the records of live updates; so does a stale one. The docstring
  says a record is resolved once its action has left the live set.
* `wait_single_read`: the last stage of `wait-for-test.sh` polls once, and a single
  unreadable answer fails a job whose run succeeded, contrary to the script's header.

Four more disagreements have no run of their own.

* *Torn record.* `record_pending_pparam_update` is a `write_text` (`helper_gov.py:295`). A kill between
  its creation of the file and the write leaves an empty record, which `pending_pparam_updates` skips
  (lines 303-308) for ever: the update is never checked. PROPERTIES.md:319-321 speaks of each tracked
  action. It is the same mistake as in `torn_claim`; here `ResolvedRecordCleared` names it
  (`Orphaned`) as the only way in which a record is left behind.
* *Replaced votes.* The vote lock is held as long as the driver runs, not as long as its batch is
  pending. After a kill or a failed submission (`parallel_driver_vote.py:141-147`) the next driver reads
  the same votes as missing and sends them again with new decisions. The comment in lines 178-179 and
  PROPERTIES.md:81 say that the lock prevents this. `OnlyStraysReplaced` is what does hold.
* *Second transfer.* A tick that reads no outputs and is held up until the transfer under way has landed
  and its bound is immutable takes it for lost and asks the faucet again
  (`parallel_driver_leios_transactions.py:19-26`). PROPERTIES.md:418 speaks of a one-time transfer. It
  needs a tick as long as a block takes to become immutable, and costs the second transfer;
  `OneOpenTransfer` holds through it. A fan-out can be given up in the same way although it has landed;
  its outputs are then never spent. No property excludes either.
* *Restart of setup.* `first_setup.py:269` keeps the signed guided
  proposal "for retries, including a setup restart" (so does `helper_gov.py:341`), and
  PROPERTIES.md calls two assertions of setup "idempotent restart". In the model, and in the code,
  a restart after `setup_register` has landed ends at line 365: the certificates are refused,
  `main()` returns 1, and so does every later attempt. So the retries of the payout never see a
  claim of an earlier attempt, the `already_done` branches of the special DReps and of the receivers
  are unreachable, and only a finished setup can be run again. It does no harm
  (`MarkersTruthful`, `OneGuidedProposal`), and it even prevents some: if a refused registration
  were taken for an earlier one, an attempt killed between the saved proposal and the journal
  would be followed by one that claims the expiry receiver. That is the mutant of
  `OneGuidedProposal`.

## 4. The proofs

Every safety invariant and action property of the runs that pass is proved for all values of
the constants, and so is the refinement of `ReceiverPool`: any number of drivers, receivers,
transactions, blocks, payments, addresses, any epoch length, window, limit and bound. The bounds
of the models (`MaxSlot`, `MaxBlocks`, ...) are parameters too, so no result depends on
their value.

| module | theorem | says |
|---|---|---|
| `TreasuryClaims_proofs` | `InductiveInvariant`, `TypeCorrect` | `Spec => []IInv`, `[]TypeOK` |
| | `ReceiverSafety` | `[]OneUnsettledPerReceiver` |
| | `ObservationsCurrent` | `[]ObservedClaimIsCurrent` |
| `TreasuryOutcome_proofs` | `OutcomeInductive` | `Spec => []OutcomeInv` |
| | `OutcomesAttributed` | `[]OutcomeAttributed` |
| | `NeverFalseOverpay`, `NeverFalsePayoutMismatch`, `NeverFalseExpiryPayout` | the three alarms |
| | `ExpiryLaneSafe`, `GuidedLaneSafe`, `LanesAreRetained` | `[]ExpiryLaneUnvoted`, `[]GuidedVotesKept`, `LanesRetained` |
| `TreasuryRecovery_proofs` | `WorkloadImplementsPool` | `Spec => ImplementsReceiverPool` |
| | `RecoveryInductive`, `RecoveryIsRight` | `RecoverySpec => []RecoveryInv`, `[]RecoveryVerdict` |
| | `RecoveryImplementsPool`, `RecoveryKeepsLanes` | the same of `RecoverySpec` as of `Spec` |
| `LeiosWitness_proofs` | `WitnessInductive` | `Spec => []WitnessInv` |
| | `NeverFalsePaymentAlarm`, `SavedProofsAreFinal`, `BodiesAreAttributed`, `RetiredIsDeadForGood` | the four invariants of `leios_witness` |
| `LeiosFunding_proofs` | `FundingInductive` | `Spec => []Inv` |
| | `MarkersAreTruthful`, `OneProposalAtMost`, `FaucetNeverContended`, `OneTransferAtATime`, `BatchesStayIndependent` | the five invariants of `leios_funding` |
| `VoteQueue_proofs` | `QueueInductive`, `VotesNotReplaced` | `Spec => [](QueueInv /\ BatchInv)`, `[]OnlyStraysReplaced` |
| `WaitForTest_proofs` | `WaitInductive`, `HealthyRunIsKept` | `Spec => []Inv`, `GivesUpOnSilence` |

**Assumptions.** `LedgerAssumption`: an epoch has a slot, the rest are naturals.
`WorkloadAssumption`: the kinds of drivers are disjoint and `Nobody` is none of them, `NoTx` is no
transaction, the transactions are finitely many, receivers have numbers. `RecoveryAssumption`:
there is a process for the recovery driver, and the immutable tip is at most an epoch behind
(`generate.sh:36-42` derives an epoch of ten times `k / f`, and refuses another genesis in lines
100-120). `SetupAssumption`: receivers have positive numbers, and 1, the guided one, is among them.
`FundingAssumption`, `WitnessAssumption`, `WaitAssumption` and `QueueAssumption` give numbers and
names their kinds. TLC evaluates each in the runs.

### 4.1 One undecided withdrawal

`OneUnsettledPerReceiver` can break in three ways: a second withdrawal to
the receiver is signed, the claim that names an open one is released or overwritten, or a
settled one comes back.

1. *Signing.* `CreatorJournal` writes to a claim that is `prepared` (`CreatorClaimInv`), under
   the receiver's lock (`LockInv`). If an older withdrawal to this receiver were open, the
   claim would be journalled. So none is (`CreatorJournals`).
2. *Releasing.* An observer releases a journalled claim after a snapshot. `SnapshotInv` says
   that tip, state and balance were taken in this order, at or behind the immutable tip, and
   at one slot once the tip was read again. `ObservedClaimIsCurrent` says that the record it judges is the
   file; `JournalInv` says that the file's `valid_until` bounds that very transaction. Together with
   the validity guard of `observe()` the ledger lemma `AbsentIsSettled` applies: not live at
   an immutable slot at or past the bound means settled (`ObserverReleases`).
   A creator's release is of a claim that is not journalled, and so is the two-epoch rule.
3. *Coming back.* Rollbacks stop at the immutable tip, and inclusion happens after it and before
   the bound: `SettledStable`, from `LedgerInv` (what is included was submitted, signed, in
   its window and on the chain; approvals follow inclusions and are in time).

`ObservedClaimIsCurrent` needs `LockInv`: whoever writes to a claim file holds the
receiver's lock. Hence `IInv`, the conjunction of `TypeOK`, `LedgerInv`, `LockInv`,
`CreatorClaimInv`, `JournalInv`, `SnapshotInv` and the two properties. The proof has one lemma
per kind of driver, in two parts: a *frame* (`CreatorFrame`, `ObserverFrame`: a step changes
only claims whose lock the driver holds, and only its own locals), and what the step does to its
own claim (`CreatorOwnClaim`, `ObserverOwnClaim`). That immutable answers and settled withdrawals stay what they
are (`AnswersKept`, `SettledKept`) is about steps of the ledger; `DriversKeepTheChain` carries it to
the whole workload.

### 4.2 No false alarm

An alarm compares a balance, read at one slot and less a baseline read long before, with
what the ledger did to one action. `OutcomeInv` adds to `IInv` what ties the two:

* `BaselineInv`: the baseline, in a creator's memory or in a claim file, is the number of
  payouts of *other* withdrawals to the receiver (`Earlier`). It stays so because all of them are
  settled: the only open one is the claim's own (`OneUnsettledPerReceiver`), and settled ones
  neither pay nor unpay (`EarlierKept`).
* `EvidenceInv`: a `ratified_epoch` or `expires_after` in a file is a fact of the immutable chain
  about that action. It is kept through rollbacks (`FateKept`).
* `AttributionInv`: hence, once the tip was read again, the difference is 1 when the own action
  is paid at that tip, and 0 otherwise (`SnapshotAttributed`, by splitting `Payouts` into
  the earlier ones and the claim's own, `BalanceSplits`).
* `VoteInv`, `ExpiryInv`: voters know only actions that were on the chain; the expiry receiver's
  has no vote while it can matter, so it is never approved.

Then each alarm is impossible: an overpayment by `AttributionInv`; a missing payment of a
ratified action since ratification and the two boundaries are on the immutable chain
(`RatifiedIsPaid`); a paid expiry by `ExpiryInv`. `LanesRetained` follows from the same facts
(`PaidIsRetained`, `ExpiredIsRetained`).

### 4.3 The refinement of ReceiverPool

`Init` maps to the pool's initial state (`PoolStart`), and `PoolStep` shows that each step under
`OutcomeInv` is a step of the pool or leaves its variables. A step of the chain *decides* withdrawals
(`LedgerDecides`; no decision is revised, `DecisionStep`); `CreatorPool` has claiming as
*reserve*, journalling as *attach*, and giving up a claim; an observer's `ObserverResolve` is
*release* (`ResolveReleases`: the withdrawal is void, or paid and not the guided one), its
`ObserverReclaim` a reservation given up, and every other step is invisible (`ObserverPool`,
`SameClaims`).

### 4.4 The recovery verdict

`RecoveryVerdict` relates the last state of the recovery driver to when a vote reached the chain.
`RecoveryInv` adds to `OutcomeInv`:

* `WindowInv`: the volatile tip is at most `Window` slots ahead of the immutable one, and
  validity bounds are at most an epoch further;
* `GuidedKept`: from the deciding vote on, the guided claim names the approved action. Before
  it is settled no observer may close it, and from then on it is paid and retained;
* `PhaseInv`: in the recovery every other driver is idle, the poll is of the guided claim, and
  the bounds that were chosen before it are near its start;
* `WitnessInv`: a payment that a poll has seen is on the immutable chain, and stays there;
* `PollInv`: what a poll has read of the immutable tip is current until the chain's next step and
  within `Window` of the volatile tip after it; and a poll that saw no payment of a due action
  leaves `Early`: one more step of the chain does not reach the budget.

The heart is `PollLeavesTime`. A poll of a due action that ends without a payment found it live,
in the volatile listing, still within its validity, ratified in this epoch, or not yet paid.
In each case its tip was before the second boundary after `start`, or before the validity
bound, which is within `start + Window + EpochLength`; the volatile tip is at most `Window`
further. With `Window <= EpochLength` both are short of three epochs. With two they are not: that is
the mutant of the run.

The steps of the recovery are steps of the workload, but for the kill of the drivers and the
start of a poll (`WorkloadStep`). So the theorems of 4.2 and 4.3 carry over.

### 4.5 Leios: witness and funding

`WitnessInv` has three layers. `TreeInv` and `PaymentsInv` are about the nodes: ancestors are a
chain, and a block takes only what was sent and is valid in its slot. `LinesInv`, `Sound` and
`Evidence` are about what was read: a line is true of its block, what the journal made of it is
sound, and evidence of a tracked payment is in the journal or still among the lines, for the
file and for the copy in memory (without the lines that this tick has taken). `RetiredInv` and
`PointInv` tie both to the immutable tip: what is not tracked is past its bound, and what was read
of a tip that has not moved is its ledger. Truncation only takes headers away, and a cut chain
proves less, not more.

`LeiosFunding_proofs` covers both modules. `SetupInv` adds to `MarkersTruthful` the order in which
transactions depend on each other, what has landed by each step, and what the guided claim is
there (`GuidedInv`: no proposal is known but the one that the claim names). `OneGuidedProposal` rests on a
registration that cannot be repeated: a second attempt does not get as far as a claim. `FundingInv`
adds where a transaction can be for its bound (`PlaceInv`), what the copy in memory is to the journal
(`MemInv`), and that a fan-out's record and its batch are never both kept (`FanoutInv`).

### 4.6 Votes and wait-for-test

`QueueInv`: a vote driver holds the lock from start to end, the running drivers are the holders of
addresses, and votes wait or are recorded only for listed actions. `BatchInv` is what
`OnlyStraysReplaced` needs to be inductive. `SenderInv`: a pending batch has its driver waiting for it,
or its votes are strays; so while one driver is between its query and its submission (and, by the
lock, no other is anywhere), all that can land is strays (`OnlyStraysPending`). `SnapshotInv`: hence
what is recorded beyond the snapshot of a driver that picks, and what is recorded of the votes that a
driver is about to submit as missing, are strays.

`WaitForTest`'s invariant says that `QUERY_FAILS` is the number of unreadable answers since the last
readable one (`CountInv`), that it is short of the limit while a loop runs, and in which phases a stage
can be reached. `GivesUpOnSilence` needs all three: a stage starts with what the one before has
counted, and the finish loop and the outcome are only reached by a run that was picked up.

### 4.7 Only model-checked

* Liveness: `AbandonedClaimReclaimed`, `UncertainSubmissionResolved`, `ResolvedRecordCleared`,
  `EveryActionVoted`, `WaitEnds`, `CertifiedIsWitnessed`, `SetupCompletes`, `BatchesKeepComing`.
  Fairness and `ENABLED` are out of the prover's reach. They are checked on the instances of
  section 3, so `PParamTracking`, whose runs ask for nothing else, has no theorem.
* The violations, which are counterexamples.

## 5. Not modelled

* The chain verdict file: its writers may overlap and an older verdict may win, but it only
  labels `Sometimes` assertions.
* The deadline of `eventually_leios_transactions.py`, on which only a `Sometimes` assertion depends.
* The supervisor of tx-firehose: one process that starts one generator again whenever it ends.
* The probes (`anytime_leios_load.py`, `anytime_leios_endorser.py`,
  `anytime_govstate_invariant.py`, `eventually_votes_recorded.py`,
  `finally_governance_summary.py`) take one sample and keep nothing.
* `helper_sdk.py` formats one JSON line per assertion.
* `generate.sh`, `seed_leios_genesis.py`, images, compose file and CI run in sequence and
  before anything else, or are configuration.
* Amounts, deposits, fees, keys, anchors and CBOR; vote thresholds; the choice among the
  first three candidates of the vote drivers; log formats.

## 6. The plan

Done, in this order: `GovLedger`, `TreasuryClaims` with its runs, its first proofs,
`PParamTracking`, `WaitForTest`, `LeiosWitness`, `VoteQueue`, `ReceiverPool` and `TreasuryPool`,
`TreasuryRecovery`, `LeiosFunding`, `FirstSetup`; then the proofs of section 4: attribution and
alarms, the refinement, funding, witness, votes, wait-for-test, and the recovery verdict.

Next:

1. `PParamTracking`: which records can be there and what a late one names, as an invariant, and that
   an observer with a current live set deletes no live record. The second says exactly what
   `pparam_live_record` lacks.
2. The safety half of the liveness properties, where it is an invariant worth having: a journalled
   claim that is not retained can always be decided, a certified payment's evidence is never cut
   off by truncation while it is tracked.
3. `VoteQueue`: a bound on the rounds after which an action has its votes, given how many batches fit
   into an epoch, so that it can be said whether they come before it expires.
4. `FirstSetup` under the faults that start with the marker: what setup landed in its last blocks is
   rolled back, or the guided proposal's validity bound passes while its submission is retried.

---------------------------- MODULE PParamTracking ----------------------------
(***************************************************************************)
(* ParameterChange updates: create drivers submit them and leave a record, *)
(* observe drivers compare the parameter with the record once the update   *)
(* has left the live set, and delete the record.  No lock is shared: any   *)
(* number of either may run at once.                                       *)
(*                                                                         *)
(* Updates are chained.  Each names the update that the next epoch starts  *)
(* from, and the ledger drops it once another lineage is enacted.  Votes   *)
(* and epochs decide which live update is ratified, enacted or expires;    *)
(* here that is a free choice of the chain.  The parameter's value only    *)
(* decides which of two Sometimes assertions is reported, and is left out. *)
(***************************************************************************)

CONSTANTS
    Updates,     \* the update transactions a behaviour may sign
    NoUpdate,
    Creators,    \* concurrently scheduled create drivers
    Observers    \* concurrently scheduled observe drivers

ASSUME TrackingAssumption == NoUpdate \notin Updates

VARIABLES
    stage,         \* of each update: unsigned, mempool, live; at the end gone,
                   \* or dropped when the chain does not hold it
    prev,          \* the update it chains off
    lastEnacted,   \* the update enacted last
    nextEnacted,   \* nextRatifyState's PParamUpdate: lastEnacted, or a ratified update
    record,        \* of each update: the file in the pending directory
    cPC, cUpdate,  \* create drivers
    oPC, oLive, oTodo \* observe drivers

chainVars   == <<stage, prev, lastEnacted, nextEnacted>>
creatorVars == <<cPC, cUpdate>>
observerVars == <<oPC, oLive, oTodo>>
vars == <<chainVars, record, creatorVars, observerVars>>

Live == {u \in Updates : stage[u] = "live"}

\* A file that was created and not written yet cannot be parsed.
Torn    == {u \in Updates : record[u] = "torn"}
Written == {u \in Updates : record[u] = "written"}

Init ==
    /\ stage = [u \in Updates |-> "unsigned"]
    /\ prev = [u \in Updates |-> NoUpdate]
    /\ lastEnacted = NoUpdate
    /\ nextEnacted = NoUpdate
    /\ record = [u \in Updates |-> "none"]
    /\ cPC = [c \in Creators |-> "idle"]
    /\ cUpdate = [c \in Creators |-> NoUpdate]
    /\ oPC = [o \in Observers |-> "idle"]
    /\ oLive = [o \in Observers |-> {}]
    /\ oTodo = [o \in Observers |-> {}]
-----------------------------------------------------------------------------
(* The chain *)

\* An update is valid on top of the last enacted one, or of one in S.
Fits(u, S) == prev[u] = lastEnacted \/ prev[u] \in S

\* The live updates that fall with u.  None has grandchildren: an update is prepared
\* on top of another only when that one is ratified.
Subtree(u) == {w \in Live : w = u \/ prev[w] = u}

InMempool == {u \in Updates : stage[u] = "mempool"}

\* A block takes the update, or the node drops it: it hangs on nothing any more.
\* It waits for one that it hangs on.
Include(u) ==
    /\ stage[u] = "mempool"
    /\ prev[u] \notin InMempool
    /\ stage' = [stage EXCEPT ![u] = IF Fits(u, Live) THEN "live" ELSE "dropped"]
    /\ UNCHANGED <<prev, lastEnacted, nextEnacted>>

\* The block that held it is rolled back, with what came after.
Rollback(u) ==
    /\ stage[u] = "live"
    /\ stage' = [w \in Updates |-> IF w \in Subtree(u) THEN "mempool" ELSE stage[w]]
    /\ nextEnacted' = IF nextEnacted = u THEN lastEnacted ELSE nextEnacted
    /\ UNCHANGED <<prev, lastEnacted>>

\* An epoch starts to count votes that are enough: the next one begins with u.
Ratify(u) ==
    /\ stage[u] = "live"
    /\ prev[u] = lastEnacted
    /\ nextEnacted = lastEnacted
    /\ nextEnacted' = u
    /\ UNCHANGED <<stage, prev, lastEnacted>>

\* The ratified update is enacted; of the others those stay that hang on it.
Enact ==
    /\ nextEnacted # lastEnacted
    /\ lastEnacted' = nextEnacted
    /\ stage' = [w \in Updates |->
                   IF w \in Live /\ prev[w] # nextEnacted THEN "gone" ELSE stage[w]]
    /\ UNCHANGED <<prev, nextEnacted>>

Expire(u) ==
    /\ stage[u] = "live"
    /\ u # nextEnacted
    /\ stage' = [w \in Updates |-> IF w \in Subtree(u) THEN "gone" ELSE stage[w]]
    /\ UNCHANGED <<prev, lastEnacted, nextEnacted>>

ChainStep ==
    /\ \/ \E u \in Updates : Include(u) \/ Rollback(u) \/ Ratify(u) \/ Expire(u)
       \/ Enact
    /\ UNCHANGED <<record, creatorVars, observerVars>>
-----------------------------------------------------------------------------
(* The create driver *)

CreatorEnd(c) ==
    /\ cPC' = [cPC EXCEPT ![c] = "idle"]
    /\ cUpdate' = [cUpdate EXCEPT ![c] = NoUpdate]

\* get_prev_pparam_action, then prepare an update that chains off it.
CreatorPrepare(c) ==
    /\ cPC[c] = "idle"
    /\ \E u \in Updates :
        /\ stage[u] = "unsigned"
        /\ \A d \in Creators : cUpdate[d] # u
        /\ cUpdate' = [cUpdate EXCEPT ![c] = u]
        /\ prev' = [prev EXCEPT ![u] = nextEnacted]
    /\ cPC' = [cPC EXCEPT ![c] = "submit"]
    /\ UNCHANGED <<stage, lastEnacted, nextEnacted, record, observerVars>>

\* The node takes the update while it fits.
CreatorSubmit(c) ==
    /\ cPC[c] = "submit"
    /\ Fits(cUpdate[c], Live \cup InMempool)
    /\ stage' = [stage EXCEPT ![cUpdate[c]] = "mempool"]
    /\ cPC' = [cPC EXCEPT ![c] = "await"]
    /\ UNCHANGED <<prev, lastEnacted, nextEnacted, record, cUpdate, observerVars>>

\* submit_tx returns once the transaction's inputs are spent on the chain.
Confirmed(u) == stage[u] \in {"live", "gone"}

CreatorConfirm(c) ==
    /\ cPC[c] = "await"
    /\ Confirmed(cUpdate[c])
    /\ cPC' = [cPC EXCEPT ![c] = "record"]
    /\ UNCHANGED <<chainVars, record, cUpdate, observerVars>>

\* record_pending_pparam_update: write_text creates the file, then writes it.
CreatorRecord(c) ==
    /\ cPC[c] = "record"
    /\ record' = [record EXCEPT ![cUpdate[c]] = "torn"]
    /\ cPC' = [cPC EXCEPT ![c] = "write"]
    /\ UNCHANGED <<chainVars, cUpdate, observerVars>>

CreatorWrite(c) ==
    /\ cPC[c] = "write"
    /\ record' = [record EXCEPT ![cUpdate[c]] = "written"]
    /\ CreatorEnd(c)
    /\ UNCHANGED <<chainVars, observerVars>>

\* A query or the submission fails, or the driver is killed.  Only the record
\* would remember the update, and it is written last.
CreatorFail(c) ==
    /\ cPC[c] # "idle"
    /\ stage' = [stage EXCEPT ![cUpdate[c]] = IF @ = "unsigned" THEN "dropped" ELSE @]
    /\ CreatorEnd(c)
    /\ UNCHANGED <<prev, lastEnacted, nextEnacted, record, observerVars>>

CreatorStep(c) ==
    \/ CreatorSubmit(c) \/ CreatorConfirm(c) \/ CreatorRecord(c)
    \/ CreatorWrite(c) \/ CreatorFail(c)
-----------------------------------------------------------------------------
(* The observe driver *)

\* live_pparam_update_actions answers the live set, or nothing when the query
\* fails.
ObserverQuery(o) ==
    /\ oPC[o] = "idle"
    /\ oLive' \in {[oLive EXCEPT ![o] = Live], [oLive EXCEPT ![o] = {}]}
    /\ oPC' = [oPC EXCEPT ![o] = "list"]
    /\ UNCHANGED <<chainVars, record, creatorVars, oTodo>>

\* pending_pparam_updates skips what it cannot parse.
ObserverList(o) ==
    /\ oPC[o] = "list"
    /\ oTodo' = [oTodo EXCEPT ![o] = Written]
    /\ oPC' = [oPC EXCEPT ![o] = "check"]
    /\ UNCHANGED <<chainVars, record, creatorVars, oLive>>

\* Faulty: an update still listed as live is what gets resolved.
ListedResolved(o) == oTodo[o] \cap oLive[o]

Resolved(o) == oTodo[o] \ oLive[o]

ObserverKeep(o) ==
    /\ oPC[o] = "check"
    /\ \E u \in oTodo[o] \ Resolved(o) : oTodo' = [oTodo EXCEPT ![o] = @ \ {u}]
    /\ UNCHANGED <<chainVars, record, creatorVars, oPC, oLive>>

\* Report whether the parameter has the recorded value, and delete the record,
\* if another observer has not done so already.
ObserverResolve(o) ==
    /\ oPC[o] = "check"
    /\ \E u \in Resolved(o) :
        /\ oTodo' = [oTodo EXCEPT ![o] = @ \ {u}]
        /\ record' = [record EXCEPT ![u] = "none"]
    /\ UNCHANGED <<chainVars, creatorVars, oPC, oLive>>

\* The parameter cannot be read: the record is kept for another tick.
ObserverSkip(o) ==
    /\ oPC[o] = "check"
    /\ \E u \in Resolved(o) : oTodo' = [oTodo EXCEPT ![o] = @ \ {u}]
    /\ UNCHANGED <<chainVars, record, creatorVars, oPC, oLive>>

ObserverEnd(o) ==
    /\ oPC' = [oPC EXCEPT ![o] = "idle"]
    /\ oLive' = [oLive EXCEPT ![o] = {}]
    /\ oTodo' = [oTodo EXCEPT ![o] = {}]
    /\ UNCHANGED <<chainVars, record, creatorVars>>

ObserverDone(o) ==
    /\ oPC[o] = "check"
    /\ oTodo[o] = {}
    /\ ObserverEnd(o)

ObserverCrash(o) ==
    /\ oPC[o] # "idle"
    /\ ObserverEnd(o)

ObserverProgress(o) ==
    \/ ObserverQuery(o) \/ ObserverList(o) \/ ObserverKeep(o)
    \/ ObserverResolve(o) \/ ObserverDone(o)

ObserverStep(o) == ObserverProgress(o) \/ ObserverSkip(o) \/ ObserverCrash(o)
-----------------------------------------------------------------------------
Next ==
    \/ ChainStep
    \/ \E c \in Creators : CreatorPrepare(c) \/ CreatorStep(c)
    \/ \E o \in Observers : ObserverStep(o)

Spec == Init /\ [][Next]_vars
-----------------------------------------------------------------------------
(* Properties *)

\* The driver resolves a record "once the tracked action has left the live
\* ParameterChange set": while the update is live its record stays.
LiveRecordsKept ==
    [][ \A u \in Written \ Written' : stage[u] # "live" ]_vars

\* The observer is scheduled again and again, and once the injected faults have
\* stopped its reads succeed.  A creator that was started completes, fails or is killed.
FaultStep ==
    \E o \in Observers : (ObserverSkip(o) \/ ObserverCrash(o)) /\ ~ObserverProgress(o)

Fairness ==
    /\ <>[][~FaultStep]_vars
    /\ \A o \in Observers : WF_vars(ObserverProgress(o))
    /\ \A c \in Creators : WF_vars(CreatorStep(c))

FairSpec == Spec /\ Fairness

OffChain(u) == stage[u] \in {"gone", "dropped"}

\* A creator was killed between creating the record and writing it.
Orphaned(u) == u \in Torn /\ \A c \in Creators : cUpdate[c] # u

\* An update that is off the chain for good is reported and its record deleted, also
\* when the record was written after the update had been resolved, and whatever a
\* second observer deletes at the same time.  A record is left behind in one case
\* only: no observer can read one that was created and never written.
ResolvedRecordCleared ==
    \A u \in Updates : [](record[u] # "none" /\ OffChain(u) => <>(record[u] = "none" \/ Orphaned(u)))
=============================================================================

----------------------------- MODULE WaitForTest -----------------------------
(***************************************************************************)
(* scripts/wait-for-test.sh: poll a test run's facts with moog until it is *)
(* accepted, until it is finished, then for its outcome, and turn that     *)
(* into an exit code.  A poll may come back unreadable at any time.        *)
(***************************************************************************)
EXTENDS Naturals

CONSTANTS
    MaxQueryFailures,  \* MAX_QUERY_FAILURES
    PendingTimeout     \* PENDING_TIMEOUT, in waits of the first loop

ASSUME WaitAssumption ==
    /\ MaxQueryFailures \in Nat \ {0}
    /\ PendingTimeout \in Nat

VARIABLES
    phase,        \* the run's phase; "other" stands for a phase the script does not know
    outcome,      \* the run's outcome, "none" until it is finished
    pc,           \* the loop the script is in, or its exit
    waited,       \* WAITED; it stops growing at PendingTimeout
    queryFails,   \* QUERY_FAILS
    silence       \* history: the unreadable answers since moog's last readable one

runVars == <<phase, outcome>>
vars == <<runVars, pc, waited, queryFails, silence>>

Running == {"accepting", "finishing", "reading"}
Exits == {"exit0", "exit1"}

Init ==
    /\ phase \in {"pending", "accepted", "finished"}
    /\ outcome \in IF phase = "finished" THEN {"success", "failure", "unknown"} ELSE {"none"}
    /\ pc = "accepting"
    /\ waited = 0
    /\ queryFails = 0
    /\ silence = 0
-----------------------------------------------------------------------------
(* The run *)

Accept ==
    /\ phase \in {"pending", "other"}
    /\ phase' \in {"accepted", "rejected", "other"} \ {phase}
    /\ UNCHANGED <<outcome, pc, waited, queryFails, silence>>

Finish ==
    /\ phase = "accepted"
    /\ phase' = "finished"
    /\ outcome' \in {"success", "failure", "unknown"}
    /\ UNCHANGED <<pc, waited, queryFails, silence>>
-----------------------------------------------------------------------------
(* The script *)

Tick == waited' = IF waited < PendingTimeout THEN waited + 1 ELSE waited

\* poll: the failures in a row are counted over all three stages.
PollUnreadable ==
    /\ pc \in Running
    /\ silence' = silence + 1
    /\ queryFails' = queryFails + 1
    /\ pc' = IF queryFails' >= MaxQueryFailures \/ pc = "reading" THEN "exit1" ELSE pc
    /\ IF pc = "accepting" /\ pc' = pc THEN Tick ELSE UNCHANGED waited
    /\ UNCHANGED runVars

\* Faulty: a readable answer does not clear the count.
Kept == UNCHANGED queryFails

Reset == queryFails' = 0

Poll(stage) == pc = stage /\ silence' = 0 /\ Reset /\ UNCHANGED runVars

PickedUp == {"accepted", "finished"}

PollAccepted ==
    /\ Poll("accepting")
    /\ phase \in PickedUp
    /\ pc' = "finishing"
    /\ UNCHANGED waited

PollRejected ==
    /\ Poll("accepting")
    /\ phase = "rejected"
    /\ pc' = "exit1"
    /\ UNCHANGED waited

\* Faulty: no limit.
Unlimited == FALSE

PatienceOver == waited >= PendingTimeout

PollPending ==
    /\ Poll("accepting")
    /\ phase = "pending"
    /\ IF PatienceOver THEN pc' = "exit1" /\ UNCHANGED waited ELSE pc' = pc /\ Tick

PollUnknown ==
    /\ Poll("accepting")
    /\ phase \notin {"accepted", "finished", "rejected", "pending"}
    /\ pc' = pc
    /\ Tick

PollFinished ==
    /\ Poll("finishing")
    /\ pc' = IF phase = "finished" THEN "reading" ELSE pc
    /\ UNCHANGED waited

PollOutcome ==
    /\ Poll("reading")
    /\ pc' = IF outcome = "success" THEN "exit0" ELSE "exit1"
    /\ UNCHANGED waited

Step ==
    \/ PollUnreadable \/ PollAccepted \/ PollRejected \/ PollPending \/ PollUnknown
    \/ PollFinished \/ PollOutcome

Next == Accept \/ Finish \/ Step

Spec == Init /\ [][Next]_vars

\* The loops run; an accepted run finishes, and one that is not pending any more
\* is accepted or rejected.
FairSpec ==
    /\ Spec
    /\ WF_vars(Step)
    /\ WF_vars(Finish)
    /\ WF_vars(phase = "other" /\ Accept)
-----------------------------------------------------------------------------
(* Properties *)

\* The script always ends, also when the run is never picked up: neither loop
\* can be kept going by unreadable answers in between.
WaitEnds == <>(pc \in Exits)

\* Nothing speaks against the run: it was picked up, or may be, and has no bad outcome.
Healthy == phase \in {"accepted", "finished", "other"} /\ outcome \in {"none", "success"}

\* "A single bad read must not discard hours of completed test time": a healthy run
\* is given up only when moog has been unreadable MAX_QUERY_FAILURES times in a row,
\* whatever came before the last readable answer and in whichever stage; or, at the
\* very end, for the one read of the outcome.
GivesUpOnSilence ==
    [][ pc # "exit1" /\ pc' = "exit1" /\ Healthy =>
          \/ silence' >= MaxQueryFailures
          \/ pc = "reading" /\ silence' > 0 ]_vars

\* The run may be given up because it was pending for too long, was rejected, did
\* not succeed, or could not be read MAX_QUERY_FAILURES times in a row: "a single
\* bad read must not discard hours of completed test time".
OneBadReadIsNoVerdict ==
    [][ pc' = "exit1" /\ outcome = "success" => queryFails' >= MaxQueryFailures ]_vars
=============================================================================

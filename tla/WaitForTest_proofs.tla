-------------------------- MODULE WaitForTest_proofs --------------------------
(***************************************************************************)
(* When scripts/wait-for-test.sh gives up, proved for every                *)
(* MAX_QUERY_FAILURES and PENDING_TIMEOUT.                                 *)
(***************************************************************************)
EXTENDS WaitForTest, TLAPS

Phases == {"pending", "accepted", "finished", "rejected", "other"}
Verdicts == {"success", "failure", "unknown"}

\* The failures in a row are below the limit while a loop runs, the patience is
\* never exceeded, and a run has an outcome exactly when it is finished.
WaitTypeInv ==
    /\ phase \in Phases
    /\ outcome \in IF phase = "finished" THEN Verdicts ELSE {"none"}
    /\ pc \in Running \cup Exits
    /\ waited \in 0 .. PendingTimeout
    /\ queryFails \in 0 .. MaxQueryFailures
    /\ pc \in Running => queryFails < MaxQueryFailures

\* QUERY_FAILS counts the unreadable answers in a row: it is cleared by every
\* readable one, and by nothing else, also between the stages.
CountInv == queryFails = silence

\* The outcome is read only after a poll has seen the run finished, and a finished
\* run does not change.
StageInv ==
    /\ pc = "finishing" => phase \in PickedUp
    /\ pc = "reading" => phase = "finished"

Inv == WaitTypeInv /\ CountInv /\ StageInv

LEMMA WaitInitInv == Init => Inv
  BY WaitAssumption DEF Init, Inv, WaitTypeInv, StageInv, CountInv, Running, Exits,
     Phases, Verdicts

\* The run goes on, whatever the script does: only from phases that no later stage
\* of the script has been reached with.
LEMMA WaitRunInv == Inv /\ (Accept \/ Finish) => Inv'
<1> SUFFICES ASSUME Inv, Accept \/ Finish PROVE Inv'
  OBVIOUS
<1> USE DEF Inv, WaitTypeInv, StageInv, CountInv, Running, Exits, Phases, Verdicts,
            PickedUp
<1>1. CASE Accept
  BY <1>1 DEF Accept
<1>2. CASE Finish
  BY <1>2 DEF Finish
<1>3. QED
  BY <1>1, <1>2

\* One poll of the script, in each of its stages.
LEMMA WaitStepInv == Inv /\ Step => Inv'
<1> SUFFICES ASSUME Inv, Step PROVE Inv'
  OBVIOUS
<1> USE WaitAssumption DEF Inv, WaitTypeInv, StageInv, CountInv, Running, Exits,
            Phases, Verdicts, PickedUp, runVars, Tick, Poll, Reset, PatienceOver
<1>1. CASE PollUnreadable
  BY <1>1 DEF PollUnreadable
<1>2. CASE PollAccepted
  BY <1>2 DEF PollAccepted
<1>3. CASE PollRejected
  BY <1>3 DEF PollRejected
<1>4. CASE PollPending
  BY <1>4 DEF PollPending
<1>5. CASE PollUnknown
  BY <1>5 DEF PollUnknown
<1>6. CASE PollFinished
  BY <1>6 DEF PollFinished
<1>7. CASE PollOutcome
  BY <1>7 DEF PollOutcome
<1>8. QED
  BY <1>1, <1>2, <1>3, <1>4, <1>5, <1>6, <1>7 DEF Step

\* The stages of the script agree with the run it waits for, and its count with
\* moog's silence, in every behaviour.
THEOREM WaitInductive == Spec => []Inv
<1>1. Inv /\ UNCHANGED vars => Inv'
  BY DEF Inv, WaitTypeInv, StageInv, CountInv, vars, runVars
<1>2. Inv /\ [Next]_vars => Inv'
  BY <1>1, WaitRunInv, WaitStepInv DEF Next
<1>3. QED
  BY <1>2, WaitInitInv, PTL DEF Spec

\* A healthy run is given up only after MAX_QUERY_FAILURES unreadable answers in a
\* row, or for the single read of the outcome.
THEOREM HealthyRunIsKept == Spec => GivesUpOnSilence
<1> DEFINE Given == pc # "exit1" /\ pc' = "exit1" /\ Healthy =>
                      \/ silence' >= MaxQueryFailures
                      \/ pc = "reading" /\ silence' > 0
<1>1. ASSUME Inv, Accept \/ Finish PROVE Given
  BY <1>1 DEF Accept, Finish
<1>2. ASSUME Inv, Step PROVE Given
  <2> USE DEF Poll, Reset, runVars, Healthy
  <2>1. CASE PollUnreadable
    BY <2>1, <1>2, WaitAssumption DEF PollUnreadable, Inv, WaitTypeInv, CountInv, Running, runVars
  <2>2. CASE PollAccepted
    BY <2>2 DEF PollAccepted
  <2>3. CASE PollRejected
    BY <2>3 DEF PollRejected
  <2>4. CASE PollPending
    BY <2>4 DEF PollPending
  <2>5. CASE PollUnknown
    BY <2>5 DEF PollUnknown
  <2>6. CASE PollFinished
    BY <2>6 DEF PollFinished
  <2>7. CASE PollOutcome
    BY <2>7, <1>2 DEF PollOutcome, Inv, StageInv, WaitTypeInv, Verdicts
  <2>8. QED
    BY <1>2, <2>1, <2>2, <2>3, <2>4, <2>5, <2>6, <2>7 DEF Step
<1>3. Inv /\ [Next]_vars => [Given]_vars
  BY <1>1, <1>2 DEF Next
<1>4. QED
  BY <1>3, WaitInductive, PTL DEF Spec, GivesUpOnSilence
=============================================================================

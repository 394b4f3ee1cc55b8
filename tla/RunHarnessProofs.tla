---- MODULE RunHarnessProofs ----
(***************************************************************************)
(* What holds of RunHarness for every set of faults and every bound: type  *)
(* correctness, the safety properties TLC checks on instances, and that    *)
(* the harness implements RunLifecycle.                                    *)
(***************************************************************************)
EXTENDS RunHarness, TLAPS

Opening == {"start", "provision", "baseline", "adapterEnter"}
Unstarted == Opening \cup {"adapterSetup", "runnerEnter"}
Closing == {"capture", "verify", "cleanup", "end"}
AfterAgent == Closing \cup {"adapterTeardown", "adapterExit"}

\* Where the lease, the observation and the verdict stand at each call.
StageInv ==
    /\ pc # "end" => outcome = "none"
    /\ pc \in {"start", "provision"} => tenant = "none"
    /\ pc \notin {"start", "provision", "end"} => tenant = "leased"
    /\ observed # "no" => pc \in {"verify", "cleanup", "end"}
    /\ pc = "verify" => observed = "yes" /\ flight = "none"
    /\ verdict = "given" => pc \in {"cleanup", "end"} /\ observed = "yes" /\ flight = "none"
    /\ pc = "cleanup" /\ flight = "none" => verdict = "given"
    /\ outcome = "result" => verdict = "given"

\* Where the runner's session stands; a report is kept for a run that ended
\* without an error, and counted when the session is closed.
SessionInv ==
    /\ pc \in Unstarted => phase = "new"
    /\ phase = "new" => engine = "off"
    /\ phase = "closed" => engine # "on"
    /\ agent # "notStarted" => pc \in AfterAgent
    /\ pc \in {"runnerTeardown", "runnerExit"} /\ flight = "none" /\ runnerErrors = {}
         => report # "none"
    /\ pc = "runnerExit" /\ flight = "none" /\ runnerErrors = {} => phase = "closed"
    /\ CompletedIsEarned

\* A connection that is up past its teardown has left an error or an exception,
\* and so has a write that came after the observation.
StaleInv ==
    /\ pc \in Opening => connection = "none"
    /\ pc \in Closing \cup {"adapterExit"} /\ connection = "up"
         => adapterErrors # {} \/ flight # "none"
    /\ observed = "yes" /\ seen # world
         => agent # "complete" /\ (adapterErrors # {} \/ flight # "none")

\* Only a run that never reached the adapter comes to cleanup unobserved.
ObservedInv ==
    pc \in {"verify", "cleanup", "end"} /\ (connection # "none" \/ phase # "new")
      => observed # "no"

Inv == TypeOK /\ StageInv /\ SessionInv /\ StaleInv /\ ObservedInv

LEMMA InitInv == Init => Inv
BY BoundsAssumption
   DEF Init, Inv, TypeOK, StageInv, SessionInv, StaleInv, ObservedInv, Runner!Init, Calls, Phases,
       Exceptions, Opening, Unstarted, Closing, AfterAgent, CompletedIsEarned

\* Where a cancelled call leads.
LEMMA UnwindLeads ==
  ASSUME NEW call \in DOMAIN Unwind
  PROVE  \/ call = "baseline" /\ Unwind[call] = "cleanup"
         \/ call \in {"adapterEnter", "adapterExit"} /\ Unwind[call] = "capture"
         \/ call \in {"adapterSetup", "runnerEnter", "runnerExit"}
              /\ Unwind[call] = "adapterTeardown"
         \/ call \in {"runnerSetup", "runnerRun"} /\ Unwind[call] = "runnerTeardown"
         \/ call = "runnerTeardown" /\ Unwind[call] = "runnerExit"
         \/ call = "adapterTeardown" /\ Unwind[call] = "adapterExit"
BY DEF Unwind

LEMMA StepInv == Inv /\ [Next]_vars => Inv'
<1> SUFFICES ASSUME Inv, [Next]_vars PROVE Inv'
  OBVIOUS
<1> USE BoundsAssumption
    DEF Inv, TypeOK, StageInv, SessionInv, StaleInv, ObservedInv, Calls, Phases, Exceptions,
        Opening, Unstarted, Closing, AfterAgent, CompletedIsEarned,
        control, records, session, external, Proceeds, Throws, Quits, Raises
<1>1. CASE Prepare
  <2>1. CASE NotEligible
    BY <2>1 DEF NotEligible
  <2>2. CASE Eligible
    BY <2>2 DEF Eligible
  <2>3. CASE Leased
    BY <2>3 DEF Leased, Provisioned
  <2>4. CASE LeaseRejected
    BY <2>4 DEF LeaseRejected, Provisioned
  <2>5. CASE ProvisionFails
    BY <2>5 DEF ProvisionFails
  <2>6. CASE BaselineCaptured
    BY <2>6 DEF BaselineCaptured
  <2>7. CASE BaselineFails
    BY <2>7 DEF BaselineFails
  <2> QED BY <1>1, <2>1, <2>2, <2>3, <2>4, <2>5, <2>6, <2>7 DEF Prepare
<1>2. CASE Adapter
  <2>1. CASE AdapterEntered
    BY <2>1 DEF AdapterEntered
  <2>2. CASE AdapterEnterFails
    BY <2>2 DEF AdapterEnterFails, AdapterError
  <2>3. CASE AdapterConnects
    BY <2>3 DEF AdapterConnects
  <2>4. CASE BundleSupported \/ BundleUnsupported
    BY <2>4 DEF BundleSupported, BundleUnsupported, Bundled
  <2>5. CASE AdapterSetupFails
    BY <2>5 DEF AdapterSetupFails, AdapterError
  <2>6. CASE AdapterTornDown
    BY <2>6 DEF AdapterTornDown
  <2>7. CASE AdapterTeardownFails
    BY <2>7 DEF AdapterTeardownFails, AdapterError
  <2>8. CASE AdapterExited
    BY <2>8 DEF AdapterExited
  <2>9. CASE AdapterExitFails
    BY <2>9 DEF AdapterExitFails, AdapterError
  <2> QED BY <1>2, <2>1, <2>2, <2>3, <2>4, <2>5, <2>6, <2>7, <2>8, <2>9 DEF Adapter
<1>3. CASE ExecuteAgent
  <2>1. CASE RunnerEntered
    BY <2>1 DEF RunnerEntered
  <2>11. CASE RunnerSetUp
    BY <2>11 DEF RunnerSetUp
  <2>2. CASE RunnerEnterFails
    BY <2>2 DEF RunnerEnterFails, RunnerError, AgentResult
  <2>3. CASE RunnerStarts
    BY <2>3 DEF RunnerStarts, Runner!Start
  <2>4. CASE RunnerSetupFails
    BY <2>4 DEF RunnerSetupFails, RunnerError, GivesUp, Runner!Refuse, Runner!Fail
  <2>5. CASE RunnerReports
    BY <2>5 DEF RunnerReports, Runner!Report
  <2>6. CASE RunnerRunFails
    BY <2>6 DEF RunnerRunFails, RunnerError, GivesUp, Runner!Refuse, Runner!Fail
  <2>7. CASE RunnerTornDown
    BY <2>7 DEF RunnerTornDown, Runner!Close
  <2>8. CASE RunnerTeardownFails
    BY <2>8 DEF RunnerTeardownFails, RunnerError
  <2>9. CASE RunnerExited
    BY <2>9 DEF RunnerExited, AgentResult
  <2>10. CASE RunnerExitFails
    BY <2>10 DEF RunnerExitFails, RunnerError, AgentResult
  <2> QED BY <1>3, <2>1, <2>2, <2>3, <2>4, <2>5, <2>6, <2>7, <2>8, <2>9, <2>10, <2>11
         DEF ExecuteAgent
<1>4. CASE Conclude
  <2>1. CASE Captured
    BY <2>1 DEF Captured
  <2>2. CASE CaptureFails
    BY <2>2 DEF CaptureFails
  <2>3. CASE Judged
    BY <2>3 DEF Judged
  <2>4. CASE EvidenceRejected
    BY <2>4 DEF EvidenceRejected
  <2>5. CASE CleanedUp
    <3>1. PICK state \in {"removed", "residual"} :
            Releases(state, IF flight = "none" THEN "result" ELSE flight)
      BY <2>5 DEF CleanedUp
    <3> QED BY <2>5, <3>1 DEF CleanedUp, Releases
  <2>6. CASE CleanupFails
    BY <2>6 DEF CleanupFails, Releases
  <2> QED BY <1>4, <2>1, <2>2, <2>3, <2>4, <2>5, <2>6 DEF Conclude
<1>5. CASE Cancel
  <2>1. CASE CancelCall
    <3>1. PICK call \in DOMAIN Unwind :
            /\ Cancelled(call) /\ pc' = Unwind[call] /\ flight' = "Cancel"
            /\ IF call \in {"runnerSetup", "runnerRun"} THEN GivesUp ELSE UNCHANGED session
            /\ UNCHANGED <<outcome, records, external>>
      BY <2>1 DEF CancelCall
    <3>2. CASE call \in {"runnerSetup", "runnerRun"}
      BY <3>1, <3>2, UnwindLeads DEF Cancelled, GivesUp, Runner!Refuse, Runner!Fail
    <3>3. CASE call \notin {"runnerSetup", "runnerRun"}
      BY <3>1, <3>3, UnwindLeads DEF Cancelled
    <3> QED BY <3>2, <3>3
  <2>2. CASE CancelProvision
    BY <2>2 DEF CancelProvision, Cancelled
  <2>3. CASE CancelCapture
    BY <2>3 DEF CancelCapture, Cancelled
  <2>4. CASE CancelCleanup
    BY <2>4 DEF CancelCleanup, Releases, Cancelled
  <2> QED BY <1>5, <2>1, <2>2, <2>3, <2>4 DEF Cancel
<1>6. CASE EngineWrites
  BY <1>6 DEF EngineWrites
<1>7. CASE EngineEnds
  BY <1>7 DEF EngineEnds, Runner!EngineEnds
<1>8. CASE UNCHANGED vars
  BY <1>8 DEF vars
<1> QED BY <1>1, <1>2, <1>3, <1>4, <1>5, <1>6, <1>7, <1>8 DEF Next, Harness, Finished

LEMMA Invariance == Spec => []Inv
BY InitInv, StepInv, PTL DEF Spec

\* The state stays within its types: in particular what _execute_agent hands
\* out is always a report of the runner or a failure.
THEOREM TypeCorrect == Spec => []TypeOK
<1>1. Inv => TypeOK
  BY DEF Inv
<1> QED BY <1>1, Invariance, PTL

\* A verdict that misses a write of the agent is flagged on both sides.
THEOREM StaleVerdictsFlagged == Spec => []StaleVerdictIsFlagged
<1>1. Inv => StaleVerdictIsFlagged
  BY DEF Inv, StaleVerdictIsFlagged, StageInv, StaleInv
<1> QED BY <1>1, Invariance, PTL

\* completed_normally is the runner's own report of a lifecycle without errors.
THEOREM CompletionEarned == Spec => []CompletedIsEarned
<1>1. Inv => CompletedIsEarned
  BY DEF Inv, SessionInv
<1> QED BY <1>1, Invariance, PTL

\* No tenant that was touched is given back unobserved.
THEOREM ReleasesObserved == Spec => []ObservedBeforeRelease
<1>1. Inv => ObservedBeforeRelease
  BY DEF Inv, ObservedBeforeRelease, ObservedInv, StageInv, TypeOK
<1> QED BY <1>1, Invariance, PTL

-----------------------------------------------------------------------------
(* What two documented promises depend on: RunHarness_cleanup_raises and   *)
(* RunHarness_exit_masks break each of them, and nothing else does.        *)

\* Only a cleanup that does not return takes a verdict away.
VerdictInv ==
    /\ VerdictLostOnlyByCleanup
    /\ tenant = "stuck" => "cleanup" \in Faults \/ cancels > 0

\* Only an __aexit__ of the adapter that raises clears the compatibility error,
\* and it leaves an error of its own.
CompatInv ==
    bundle = "unsupported" =>
      /\ pc \in AfterAgent
      /\ flight # "none" \/ ("adapterExit" \in Faults /\ "lifecycle" \in adapterErrors)

LEMMA InitPromises == Init => VerdictInv /\ CompatInv
BY DEF Init, VerdictInv, CompatInv, VerdictLostOnlyByCleanup

LEMMA StepPromises == Inv /\ VerdictInv /\ CompatInv /\ [Next]_vars => VerdictInv' /\ CompatInv'
<1> SUFFICES ASSUME Inv, VerdictInv, CompatInv, [Next]_vars PROVE VerdictInv' /\ CompatInv'
  OBVIOUS
<1>0. /\ pc \notin {"start", "provision", "end"} => tenant = "leased"
      /\ pc # "end" => outcome = "none"
      /\ pc = "cleanup" /\ flight = "none" => verdict = "given"
      /\ verdict = "given" => pc \in {"cleanup", "end"} /\ flight = "none"
      /\ cancels \in Nat /\ cancels + 1 > 0
  BY BoundsAssumption DEF Inv, StageInv, TypeOK
<1> USE <1>0 DEF VerdictInv, VerdictLostOnlyByCleanup, CompatInv, AfterAgent, Closing, control, records, session, external
<1>1. CASE Prepare
  BY <1>1 DEF Prepare, NotEligible, Eligible, Leased, LeaseRejected, Provisioned, ProvisionFails,
              BaselineCaptured, BaselineFails, Proceeds, Throws, Quits, Raises
<1>2. CASE Adapter
  <2>1. CASE AdapterEntered \/ AdapterEnterFails \/ AdapterConnects
    BY <2>1 DEF AdapterEntered, AdapterEnterFails, AdapterConnects, AdapterError, Proceeds, Raises
  <2>2. CASE BundleSupported \/ BundleUnsupported \/ AdapterSetupFails
    BY <2>2 DEF BundleSupported, BundleUnsupported, Bundled, AdapterSetupFails, AdapterError, Raises
  <2>3. CASE AdapterTornDown \/ AdapterTeardownFails \/ AdapterExited \/ AdapterExitFails
    BY <2>3 DEF AdapterTornDown, AdapterTeardownFails, AdapterExited, AdapterExitFails,
                AdapterError, Proceeds, Raises
  <2> QED BY <1>2, <2>1, <2>2, <2>3 DEF Adapter
<1>3. CASE ExecuteAgent
  BY <1>3 DEF ExecuteAgent, RunnerEntered, RunnerEnterFails, RunnerStarts, RunnerSetUp,
              RunnerSetupFails, RunnerReports, RunnerRunFails, RunnerTornDown, RunnerTeardownFails,
              RunnerExited, RunnerExitFails, RunnerError, Proceeds, Raises
<1>4. CASE Conclude
  <2>1. CASE Captured \/ CaptureFails \/ Judged \/ EvidenceRejected
    BY <2>1 DEF Captured, CaptureFails, Judged, EvidenceRejected, Throws, Raises
  <2>2. CASE CleanedUp
    <3>1. PICK state \in {"removed", "residual"} :
            Releases(state, IF flight = "none" THEN "result" ELSE flight)
      BY <2>2 DEF CleanedUp
    <3> QED BY <2>2, <3>1 DEF CleanedUp, Releases
  <2>3. CASE CleanupFails
    BY <2>3 DEF CleanupFails, Releases, Raises
  <2> QED BY <1>4, <2>1, <2>2, <2>3 DEF Conclude
<1>5. CASE Cancel
  <2>1. CASE CancelCall
    <3>1. PICK call \in DOMAIN Unwind :
            /\ Cancelled(call) /\ pc' = Unwind[call] /\ flight' = "Cancel"
            /\ UNCHANGED <<outcome, records, external>>
      BY <2>1 DEF CancelCall
    <3> QED BY <3>1, UnwindLeads DEF Cancelled
  <2>2. CASE CancelProvision \/ CancelCapture \/ CancelCleanup
    BY <2>2 DEF CancelProvision, CancelCapture, CancelCleanup, Cancelled, Quits, Releases
  <2> QED BY <1>5, <2>1, <2>2 DEF Cancel
<1>6. CASE EngineWrites \/ EngineEnds \/ UNCHANGED vars
  BY <1>6 DEF EngineWrites, EngineEnds, vars
<1> QED BY <1>1, <1>2, <1>3, <1>4, <1>5, <1>6 DEF Next, Harness, Finished

LEMMA Promises == Spec => [](Inv /\ VerdictInv /\ CompatInv)
BY InitInv, InitPromises, StepInv, StepPromises, PTL DEF Spec

\* Nothing but a cleanup that did not return takes a verdict away.
THEOREM VerdictLostWithTenant == Spec => []VerdictLostOnlyByCleanup
<1>1. VerdictInv => VerdictLostOnlyByCleanup
  BY DEF VerdictInv
<1> QED BY <1>1, Promises, PTL

\* A scored attempt with an unsupported bundle carries an error of the adapter.
THEOREM IncompatibleFlagged == Spec => []IncompatibleScoredIsFlagged
<1>1. Inv /\ VerdictInv /\ CompatInv => IncompatibleScoredIsFlagged
  BY DEF Inv, StageInv, CompatInv, IncompatibleScoredIsFlagged
<1> QED BY <1>1, Promises, PTL

\* A verdict reaches the operator whatever else raises, as long as cleanup
\* returns (docs/sandbox-and-tenancy.md:58, run:142-144).
THEOREM VerdictKept ==
  ASSUME "cleanup" \notin Faults, MaxCancels = 0
  PROVE  Spec => []VerdictSurvivesCleanup
<1>1. Inv /\ VerdictInv /\ CompatInv => VerdictSurvivesCleanup
  BY BoundsAssumption DEF Inv, TypeOK, VerdictInv, VerdictLostOnlyByCleanup, VerdictSurvivesCleanup
<1> QED BY <1>1, Promises, PTL

\* An unsupported bundle is never scored, whatever else raises or is cancelled,
\* as long as the adapter's __aexit__ does not raise (run:96-104).
THEOREM IncompatibleUnscored ==
  ASSUME "adapterExit" \notin Faults
  PROVE  Spec => []IncompatibleNeverScored
<1>1. Inv /\ VerdictInv /\ CompatInv => IncompatibleNeverScored
  BY DEF Inv, StageInv, TypeOK, CompatInv, IncompatibleNeverScored
<1> QED BY <1>1, Promises, PTL

-----------------------------------------------------------------------------
(* Refinement: every step of the harness is one of the lifecycle's or none *)
(* that it sees.                                                           *)

LEMMA Unseen ==
  ASSUME UNCHANGED <<outcome, tenant, verdict>>,
         UNCHANGED observed \/ (observed # "yes" /\ observed' # "yes")
  PROVE  UNCHANGED Lifecycle!attempt
BY DEF Lifecycle!attempt, LeaseState, EvidenceState, AnswerState

LEMMA LifecycleStep == Inv /\ [Next]_vars => [Lifecycle!Next]_(Lifecycle!attempt)
<1> SUFFICES ASSUME Inv, [Next]_vars PROVE [Lifecycle!Next]_(Lifecycle!attempt)
  OBVIOUS
<1> USE DEF control, records, session, external
<1>1. CASE Prepare
  <2>1. CASE NotEligible \/ ProvisionFails
    <3>1. Lifecycle!Refuse
      BY <2>1 DEF NotEligible, ProvisionFails, Raises, Quits, Lifecycle!Refuse, LeaseState,
                  AnswerState, EvidenceState, Inv, StageInv
    <3> QED BY <3>1 DEF Lifecycle!Next
  <2>2. CASE Leased \/ LeaseRejected
    <3>1. Lifecycle!Lease
      BY <2>2 DEF Leased, LeaseRejected, Provisioned, Lifecycle!Lease, LeaseState, AnswerState,
                  EvidenceState, Inv, StageInv
    <3> QED BY <3>1 DEF Lifecycle!Next
  <2>3. CASE Eligible \/ BaselineCaptured \/ BaselineFails
    BY <2>3, Unseen DEF Eligible, BaselineCaptured, BaselineFails, Proceeds, Throws
  <2> QED BY <1>1, <2>1, <2>2, <2>3 DEF Prepare
<1>2. CASE Adapter
  <2>1. CASE AdapterEntered \/ AdapterExited
    BY <2>1, Unseen DEF AdapterEntered, AdapterExited, Proceeds
  <2>2. CASE \/ AdapterEnterFails \/ AdapterSetupFails
             \/ AdapterTeardownFails \/ AdapterExitFails
    BY <2>2, Unseen DEF AdapterEnterFails, AdapterSetupFails, AdapterTeardownFails,
                        AdapterExitFails, AdapterError
  <2>3. CASE AdapterConnects
    BY <2>3, Unseen DEF AdapterConnects
  <2>4. CASE AdapterTornDown
    BY <2>4, Unseen DEF AdapterTornDown
  <2>5. CASE BundleSupported \/ BundleUnsupported
    BY <2>5, Unseen DEF BundleSupported, BundleUnsupported, Bundled
  <2> QED BY <1>2, <2>1, <2>2, <2>3, <2>4, <2>5 DEF Adapter
<1>3. CASE ExecuteAgent
  <2>1. CASE RunnerEntered \/ RunnerSetUp
    BY <2>1, Unseen DEF RunnerEntered, RunnerSetUp, Proceeds
  <2>2. CASE \/ RunnerEnterFails \/ RunnerSetupFails \/ RunnerRunFails
             \/ RunnerTeardownFails \/ RunnerExitFails
    BY <2>2, Unseen DEF RunnerEnterFails, RunnerSetupFails, RunnerRunFails,
                        RunnerTeardownFails, RunnerExitFails, RunnerError
  <2>3. CASE RunnerStarts \/ RunnerTornDown
    BY <2>3, Unseen DEF RunnerStarts, RunnerTornDown
  <2>4. CASE RunnerReports
    BY <2>4, Unseen DEF RunnerReports
  <2>5. CASE RunnerExited
    BY <2>5, Unseen DEF RunnerExited
  <2> QED BY <1>3, <2>1, <2>2, <2>3, <2>4, <2>5 DEF ExecuteAgent
<1>4. CASE Conclude
  <2>1. CASE Captured
    <3>1. Lifecycle!Observe
      BY <2>1 DEF Captured, Lifecycle!Observe, LeaseState, AnswerState, EvidenceState, Inv,
                  StageInv
    <3> QED BY <3>1 DEF Lifecycle!Next
  <2>2. CASE CaptureFails \/ EvidenceRejected
    BY <2>2, Unseen DEF CaptureFails, EvidenceRejected, Raises, Throws, Inv, StageInv
  <2>3. CASE Judged
    <3>1. Lifecycle!Judge
      BY <2>3 DEF Judged, Lifecycle!Judge, LeaseState, AnswerState, EvidenceState, Inv, StageInv
    <3> QED BY <3>1 DEF Lifecycle!Next
  <2>4. CASE CleanedUp \/ CleanupFails
    <3>1. Lifecycle!Release
      BY <2>4 DEF CleanedUp, CleanupFails, Raises, Releases, Lifecycle!Release, LeaseState,
                  AnswerState, EvidenceState, Inv, StageInv, TypeOK, Exceptions
    <3> QED BY <3>1 DEF Lifecycle!Next
  <2> QED BY <1>4, <2>1, <2>2, <2>3, <2>4 DEF Conclude
<1>5. CASE Cancel
  <2>1. CASE CancelCall
    BY <2>1, Unseen DEF CancelCall
  <2>2. CASE CancelProvision
    <3>1. Lifecycle!Refuse
      BY <2>2 DEF CancelProvision, Cancelled, Quits, Lifecycle!Refuse, LeaseState, AnswerState,
                  EvidenceState, Inv, StageInv
    <3> QED BY <3>1 DEF Lifecycle!Next
  <2>3. CASE CancelCapture
    BY <2>3, Unseen DEF CancelCapture, Cancelled, Inv, StageInv
  <2>4. CASE CancelCleanup
    <3>1. Lifecycle!Release
      BY <2>4 DEF CancelCleanup, Cancelled, Releases, Lifecycle!Release, LeaseState, AnswerState,
                  EvidenceState, Inv, StageInv
    <3> QED BY <3>1 DEF Lifecycle!Next
  <2> QED BY <1>5, <2>1, <2>2, <2>3, <2>4 DEF Cancel
<1>6. CASE EngineWrites \/ EngineEnds \/ UNCHANGED vars
  BY <1>6, Unseen DEF EngineWrites, EngineEnds, vars, control
<1> QED BY <1>1, <1>2, <1>3, <1>4, <1>5, <1>6 DEF Next, Harness, Finished

\* The harness implements the lifecycle of docs/sandbox-and-tenancy.md.
THEOREM LifecycleImplemented == Spec => ImplementsLifecycle
<1>1. Init => Lifecycle!Init
  BY DEF Init, Lifecycle!Init, LeaseState, EvidenceState, AnswerState
<1> QED BY <1>1, Invariance, LifecycleStep, PTL DEF Spec, ImplementsLifecycle, Lifecycle!Spec
====

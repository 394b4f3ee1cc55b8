---- MODULE RunHarness ----
(***************************************************************************)
(* IsolatedRunHarness.run and _execute_agent: one isolated run of a task,  *)
(* from the lease of a tenant to its cleanup.  Every call the harness      *)
(* awaits is a value of pc; it returns, raises, or is cancelled, and what  *)
(* the except and finally clauses make of that is the step.  The runner    *)
(* behaves as AgentRunnerContract allows, at the same time as the harness  *)
(* awaits it, and its engine acts on the tenant through the connection.    *)
(***************************************************************************)
EXTENDS Naturals

CONSTANTS
    Faults,      \* the calls that may raise an Exception
    MaxCancels,  \* bound: cancellations of the harness task
    MaxWrites    \* bound: writes of the agent to the tenant

Calls == {"provision", "baseline", "adapterEnter", "adapterSetup", "runnerEnter", "runnerSetup",
          "runnerRun", "runnerTeardown", "runnerExit", "adapterTeardown", "adapterExit",
          "capture", "verify", "cleanup"}

ASSUME FaultsAssumption == Faults \subseteq Calls
ASSUME BoundsAssumption == MaxCancels \in Nat /\ MaxWrites \in Nat

VARIABLES
    pc,             \* the call the harness is in
    flight,         \* the exception finally clauses run under
    outcome,        \* how run() ended
    cancels,        \* cancellations so far
    \* _execute_agent
    report,         \* what runner.run returned
    runnerErrors,   \* phases in errors
    \* run
    bundle,         \* what adapter.setup returned, as runner.supports judges it
    adapterErrors,  \* phases in adapter_errors
    agent,          \* agent_result
    verdict,        \* "given" once there is a result to return
    \* the runner's session
    phase, engine,
    \* the tenant
    tenant,         \* its lease
    connection,     \* the adapter's connection to it
    world,          \* writes of the agent so far
    observed,       \* capture_final_state: "no", "lost" when it raised, "yes"
    seen            \* the writes it saw

Runner == INSTANCE AgentRunnerContract

session == <<phase, engine>>
control == <<pc, flight, outcome, cancels>>
records == <<report, runnerErrors, bundle, adapterErrors, agent, verdict>>
external == <<tenant, connection, world, observed, seen>>
vars == <<control, records, session, external>>

Phases == {"setup", "run", "teardown", "lifecycle"}
Exceptions == {"Error", "Compat", "Cancel"}

TypeOK ==
    /\ pc \in Calls \cup {"start", "end"}
    /\ flight \in {"none"} \cup Exceptions
    /\ outcome \in {"none", "refused", "result"} \cup Exceptions
    /\ cancels \in 0 .. MaxCancels
    /\ report \in {"none", "complete", "incomplete"}
    /\ runnerErrors \subseteq Phases
    /\ bundle \in {"none", "supported", "unsupported"}
    /\ adapterErrors \subseteq Phases \ {"run"}
    /\ agent \in {"notStarted", "complete", "incomplete"}
    /\ verdict \in {"none", "given"}
    /\ phase \in {"new", "active", "reported", "failed", "closed"}
    /\ engine \in {"off", "on", "gone"}
    /\ tenant \in {"none", "leased", "removed", "residual", "stuck"}
    /\ connection \in {"none", "up", "down"}
    /\ world \in 0 .. MaxWrites
    /\ observed \in {"no", "lost", "yes"}
    /\ seen \in 0 .. MaxWrites

Init ==
    /\ pc = "start" /\ flight = "none" /\ outcome = "none" /\ cancels = 0
    /\ report = "none" /\ runnerErrors = {}
    /\ bundle = "none" /\ adapterErrors = {} /\ agent = "notStarted" /\ verdict = "none"
    /\ Runner!Init
    /\ tenant = "none" /\ connection = "none" /\ world = 0 /\ observed = "no" /\ seen = 0

-----------------------------------------------------------------------------
(* How a call ends.                                                        *)

\* it returns, and nothing else changes
Proceeds(next) ==
    pc' = next /\ UNCHANGED <<flight, outcome, cancels, records, session, external>>

Raises(call) == pc = call /\ call \in Faults

\* an exception leaves the block the call is in; finally clauses run next
Throws(exception, next) ==
    /\ pc' = next /\ flight' = exception
    /\ UNCHANGED <<outcome, cancels, records, session, external>>

\* run() is over without a cleanup
Quits(how) ==
    /\ pc' = "end" /\ outcome' = how
    /\ UNCHANGED <<flight, records, session, external>>

\* an Exception is caught and recorded in adapter_errors; one that replaces
\* another exception on its way out leaves nothing in flight
AdapterError(where, next) ==
    /\ pc' = next /\ adapterErrors' = adapterErrors \cup {where}
    /\ UNCHANGED <<outcome, cancels, report, runnerErrors, bundle, agent, verdict, session, external>>

\* likewise in the errors of _execute_agent
RunnerError(where, next) ==
    /\ pc' = next /\ runnerErrors' = runnerErrors \cup {where}
    /\ UNCHANGED <<outcome, cancels, report, bundle, adapterErrors, verdict, external>>

-----------------------------------------------------------------------------
(* Before the attempt.                                                     *)

NotEligible == pc = "start" /\ Quits("refused") /\ UNCHANGED cancels

Eligible == pc = "start" /\ Proceeds("provision")

Provisioned(next, exception) ==
    /\ pc = "provision" /\ tenant' = "leased" /\ pc' = next /\ flight' = exception
    /\ UNCHANGED <<outcome, cancels, records, session, connection, world, observed, seen>>

Leased == Provisioned("baseline", "none")

\* variant: a lease that fails its checks is forgotten
LeaseForgotten == Provisioned("end", "Error")

\* the lease is of another run, or does not validate
LeaseRejected == Provisioned("cleanup", "Error")

ProvisionFails == Raises("provision") /\ Quits("Error") /\ UNCHANGED cancels

BaselineCaptured == pc = "baseline" /\ Proceeds("adapterEnter")

\* the backend raises, or the lease no longer validates in adapter_context
BaselineFails == Raises("baseline") /\ Throws("Error", "cleanup")

Prepare == \/ NotEligible \/ Eligible \/ Leased \/ LeaseRejected \/ ProvisionFails
           \/ BaselineCaptured \/ BaselineFails

-----------------------------------------------------------------------------
(* async with adapter.                                                     *)

AdapterEntered == pc = "adapterEnter" /\ Proceeds("adapterSetup")

AdapterEnterFails ==
    Raises("adapterEnter") /\ AdapterError("lifecycle", "capture") /\ UNCHANGED flight

\* during setup, whether or not it returns
AdapterConnects ==
    /\ pc = "adapterSetup" /\ connection = "none" /\ connection' = "up"
    /\ UNCHANGED <<control, records, session, tenant, world, observed, seen>>

Bundled(judgement, exception, next) ==
    /\ pc = "adapterSetup" /\ connection = "up"
    /\ bundle' = judgement /\ flight' = exception /\ pc' = next
    /\ UNCHANGED <<outcome, cancels, report, runnerErrors, adapterErrors, agent, verdict,
                   session, external>>

BundleSupported == Bundled("supported", "none", "runnerEnter")
BundleUnsupported == Bundled("unsupported", "Compat", "adapterTeardown")

AdapterSetupFails ==
    Raises("adapterSetup") /\ AdapterError("setup", "adapterTeardown") /\ UNCHANGED flight

AdapterTornDown ==
    /\ pc = "adapterTeardown" /\ pc' = "adapterExit"
    /\ connection' = IF connection = "up" THEN "down" ELSE connection
    /\ UNCHANGED <<flight, outcome, cancels, records, session, tenant, world, observed, seen>>

\* variant: an error of teardown is dropped
TeardownErrorDropped == Raises("adapterTeardown") /\ Proceeds("adapterExit")

\* variant: it takes the place of the exception in flight
TeardownErrorMasks ==
    Raises("adapterTeardown") /\ AdapterError("teardown", "adapterExit") /\ flight' = "none"

AdapterTeardownFails ==
    Raises("adapterTeardown") /\ AdapterError("teardown", "adapterExit") /\ UNCHANGED flight

\* variant: the final state is captured after an attempt that ended well
ObservedIfWell ==
    pc = "adapterExit" /\ Proceeds(IF flight = "none" THEN "capture" ELSE "cleanup")

AdapterExited == pc = "adapterExit" /\ Proceeds("capture")

AdapterExitFails ==
    Raises("adapterExit") /\ AdapterError("lifecycle", "capture") /\ flight' = "none"

Adapter == \/ AdapterEntered \/ AdapterEnterFails \/ AdapterConnects \/ BundleSupported
           \/ BundleUnsupported \/ AdapterSetupFails \/ AdapterTornDown \/ AdapterTeardownFails
           \/ AdapterExited \/ AdapterExitFails

-----------------------------------------------------------------------------
(* _execute_agent: async with runner.                                      *)

RunnerEntered == pc = "runnerEnter" /\ Proceeds("runnerSetup")

\* variants: errors are not looked at; an error of teardown does not count
ErrorsIgnored(errors) == report
TeardownTolerated(errors) == IF errors \subseteq {"teardown"} THEN report ELSE "incomplete"

\* what _execute_agent returns
AgentResult(errors) == IF errors = {} THEN report ELSE "incomplete"

RunnerEnterFails ==
    /\ Raises("runnerEnter") /\ RunnerError("lifecycle", "adapterTeardown")
    /\ agent' = AgentResult(runnerErrors') /\ UNCHANGED <<flight, session>>

\* during setup, whether or not it returns
RunnerStarts ==
    pc = "runnerSetup" /\ Runner!Start /\ UNCHANGED <<control, records, external>>

RunnerSetUp == pc = "runnerSetup" /\ phase = "active" /\ Proceeds("runnerRun")

GivesUp == Runner!Refuse \/ Runner!Fail

RunnerSetupFails ==
    /\ Raises("runnerSetup") /\ GivesUp
    /\ RunnerError("setup", "runnerTeardown") /\ UNCHANGED <<flight, agent>>

RunnerReports ==
    /\ pc = "runnerRun" /\ Runner!Report
    /\ report' \in {"complete", "incomplete"} /\ pc' = "runnerTeardown"
    /\ UNCHANGED <<flight, outcome, cancels, runnerErrors, bundle, adapterErrors, agent, verdict,
                   external>>

RunnerRunFails ==
    /\ Raises("runnerRun") /\ GivesUp
    /\ RunnerError("run", "runnerTeardown") /\ UNCHANGED <<flight, agent>>

RunnerTornDown ==
    /\ pc = "runnerTeardown" /\ Runner!Close /\ pc' = "runnerExit"
    /\ UNCHANGED <<flight, outcome, cancels, records, external>>

RunnerTeardownFails ==
    /\ Raises("runnerTeardown") /\ RunnerError("teardown", "runnerExit")
    /\ UNCHANGED <<flight, agent, session>>

RunnerExited ==
    /\ pc = "runnerExit" /\ pc' = "adapterTeardown"
    /\ agent' = IF flight = "none" THEN AgentResult(runnerErrors) ELSE agent
    /\ UNCHANGED <<flight, outcome, cancels, report, runnerErrors, bundle, adapterErrors, verdict,
                   session, external>>

RunnerExitFails ==
    /\ Raises("runnerExit") /\ RunnerError("lifecycle", "adapterTeardown")
    /\ flight' = "none" /\ agent' = AgentResult(runnerErrors') /\ UNCHANGED session

ExecuteAgent == \/ RunnerEntered \/ RunnerEnterFails \/ RunnerStarts \/ RunnerSetUp
                \/ RunnerSetupFails \/ RunnerReports \/ RunnerRunFails \/ RunnerTornDown
                \/ RunnerTeardownFails \/ RunnerExited \/ RunnerExitFails

-----------------------------------------------------------------------------
(* After the attempt.                                                      *)

Captured ==
    /\ pc = "capture" /\ observed' = "yes" /\ seen' = world
    /\ pc' = IF flight = "none" THEN "verify" ELSE "cleanup"
    /\ UNCHANGED <<flight, outcome, cancels, records, session, tenant, connection, world>>

\* variant: an error of the capture is one of the adapter's
CaptureErrorCaught == Raises("capture") /\ AdapterError("lifecycle", "verify") /\ flight' = "none"

CaptureFails ==
    /\ Raises("capture") /\ observed' = "lost" /\ flight' = "Error" /\ pc' = "cleanup"
    /\ UNCHANGED <<outcome, cancels, records, session, tenant, connection, world, seen>>

Judged ==
    /\ pc = "verify" /\ verdict' = "given" /\ pc' = "cleanup"
    /\ UNCHANGED <<flight, outcome, cancels, report, runnerErrors, bundle, adapterErrors, agent,
                   session, external>>

\* the evidence does not match its schema, or a check cannot be evaluated
EvidenceRejected == Raises("verify") /\ Throws("Error", "cleanup")

Releases(state, how) ==
    /\ pc' = "end" /\ tenant' = state /\ outcome' = how
    /\ UNCHANGED <<flight, records, session, connection, world, observed, seen>>

\* variant: residual resources are an error
ResidualRaises ==
    /\ pc = "cleanup" /\ UNCHANGED cancels
    /\ \/ Releases("removed", IF flight = "none" THEN "result" ELSE flight)
       \/ Releases("residual", "Error")

\* a report of residual resources is a result of cleanup like any other
CleanedUp ==
    /\ pc = "cleanup" /\ UNCHANGED cancels
    /\ \E state \in {"removed", "residual"} :
         Releases(state, IF flight = "none" THEN "result" ELSE flight)

CleanupFails == Raises("cleanup") /\ Releases("stuck", "Error") /\ UNCHANGED cancels

Conclude == \/ Captured \/ CaptureFails \/ Judged \/ EvidenceRejected \/ CleanedUp
            \/ CleanupFails

-----------------------------------------------------------------------------
(* A cancellation of the harness task reaches the call it is in, and takes *)
(* the place of an exception in flight.                                    *)

Cancelled(call) == pc = call /\ cancels < MaxCancels /\ cancels' = cancels + 1

\* where finally leads from a call
Unwind ==
    [baseline |-> "cleanup", adapterEnter |-> "capture", adapterSetup |-> "adapterTeardown",
     runnerEnter |-> "adapterTeardown", runnerSetup |-> "runnerTeardown",
     runnerRun |-> "runnerTeardown", runnerTeardown |-> "runnerExit",
     runnerExit |-> "adapterTeardown", adapterTeardown |-> "adapterExit",
     adapterExit |-> "capture"]

CancelCall ==
    \E call \in DOMAIN Unwind :
      /\ Cancelled(call) /\ pc' = Unwind[call] /\ flight' = "Cancel"
      /\ IF call \in {"runnerSetup", "runnerRun"} THEN GivesUp ELSE UNCHANGED session
      /\ UNCHANGED <<outcome, records, external>>

CancelProvision == Cancelled("provision") /\ Quits("Cancel")

CancelCapture ==
    /\ Cancelled("capture") /\ observed' = "lost" /\ flight' = "Cancel" /\ pc' = "cleanup"
    /\ UNCHANGED <<outcome, records, session, tenant, connection, world, seen>>

CancelCleanup == Cancelled("cleanup") /\ Releases("stuck", "Cancel")

Cancel == CancelCall \/ CancelProvision \/ CancelCapture \/ CancelCleanup

-----------------------------------------------------------------------------
(* The engine, beside the harness.                                         *)

\* it writes to the tenant through the connection
EngineWrites ==
    /\ engine = "on" /\ connection = "up" /\ world < MaxWrites /\ world' = world + 1
    /\ UNCHANGED <<control, records, session, tenant, connection, observed, seen>>

EngineEnds == Runner!EngineEnds /\ UNCHANGED <<control, records, external>>

Harness == Prepare \/ Adapter \/ ExecuteAgent \/ Conclude

Finished == pc = "end" /\ UNCHANGED vars

Next == Harness \/ Cancel \/ EngineWrites \/ EngineEnds \/ Finished

Spec == Init /\ [][Next]_vars

\* every call returns or raises, and a runner ends its session
FairSpec == Spec /\ WF_vars(Harness) /\ WF_vars(EngineEnds)

-----------------------------------------------------------------------------
(* Properties.                                                             *)

\* A verdict that misses a write of the agent is never given beside a clean
\* record: the final state is captured when the runner and the adapter have been
\* torn down, and where that failed the result says so for both
\* (run:81-106, _execute_agent:177-183).
StaleVerdictIsFlagged ==
    verdict = "given" /\ seen # world => agent # "complete" /\ adapterErrors # {}

\* completed_normally survives _execute_agent only for a report of the runner
\* whose whole lifecycle, teardown and exit included, went without an error
\* (_execute_agent:185-195).
CompletedIsEarned ==
    agent = "complete" => report = "complete" /\ phase = "closed" /\ runnerErrors = {}

\* Once the adapter or the runner may have touched the tenant, the tenant is
\* not given back before its final state has been asked for, whatever was
\* raised on the way (docs/agent-runner-protocol.md:62).
ObservedBeforeRelease ==
    tenant \notin {"none", "leased"} /\ (connection # "none" \/ phase # "new")
      => observed # "no"

\* Nothing but a cleanup that did not return takes a verdict away, and then the
\* tenant is stuck too: residual resources, errors on record and a cancellation
\* at any earlier call leave the verdict or come before it (run:142-156).
VerdictLostOnlyByCleanup ==
    pc = "end" /\ verdict = "given" => outcome = "result" \/ tenant = "stuck"

\* An attempt scored although the runner does not support the bundle has the
\* error on record that took the place of the compatibility error (run:96-104).
IncompatibleScoredIsFlagged ==
    bundle = "unsupported" /\ verdict = "given" => "lifecycle" \in adapterErrors

\* A cleanup that fails does not take the verdict away
\* (docs/sandbox-and-tenancy.md:58).
VerdictSurvivesCleanup == pc = "end" /\ verdict = "given" => outcome = "result"

\* An attempt with a runner that does not support the bundle is never scored
\* (docs/agent-runner-protocol.md:54, tests/test_sandbox_harness.py).
IncompatibleNeverScored == bundle = "unsupported" => verdict = "none"

-----------------------------------------------------------------------------
(* The harness implements the lifecycle it promises.                       *)

LeaseState == IF tenant \in {"none", "leased"} THEN tenant ELSE "released"
EvidenceState ==
    IF verdict = "given" THEN "judged" ELSE IF observed = "yes" THEN "observed" ELSE "none"
AnswerState == IF outcome \in {"none", "result"} THEN outcome ELSE "failure"

Lifecycle ==
    INSTANCE RunLifecycle WITH lease <- LeaseState, evidence <- EvidenceState,
                               answer <- AnswerState

\* The tenant is leased and given back once, on every path, and only a final
\* state that was observed is judged (run:59-156).
ImplementsLifecycle == Lifecycle!Spec

\* Every run is carried to its answer, and a leased tenant is given back.
RunsAnswered == Lifecycle!FairSpec
====

# Verification of the agent capability benchmark

TLA+ modules that model the parts of `agent_capability_benchmark` in which
callbacks, processes, threads, failures and cancellations meet; the TLC
configurations that check them on small instances; and TLAPS proofs of what
matters most for every instance. Line numbers refer to the repository beside
this directory; `jsonl` stands for
`agent_capability_benchmark/runners/jsonl_subprocess.py`.

## 1. The system

The benchmark runs a pinned agent engine against one provider of capabilities
in an isolated tenant, and judges the tenant's final state. One attempt is

    IsolatedRunHarness.run
      sandbox.provision -> capture_baseline
        adapter.setup (a CapabilityBundle)
          runner.setup -> runner.run -> runner.teardown      _execute_agent
        adapter.teardown
      capture_final_state -> validate_evidence -> verify_task_evidence
      cleanup

Everything there is one asyncio task. The engine is a child process beside it;
it acts on the tenant through the bundle the adapter made.

| Part | State | Operations | Hard because |
|---|---|---|---|
| JSONL subprocess runner (`jsonl`) | child process, three pipes, stderr task, what `consume` has collected | setup, run, teardown, `_stop_process` | a child, its descendants, two timers and cancellations interleave at twelve awaits |
| Agent runner contract (`runners/base.py`) | phase of a session | setup, run, teardown | what harness and driver may rely on is in doc strings only |
| Run harness (`harness.py`) | lease, bundle, two error lists, the exception in flight | run, `_execute_agent` | fourteen awaited calls, each may raise or be cancelled under nested finally clauses |
| Sandbox backend and lease (`sandbox.py`) | a tenant | provision, capture_baseline, capture_final_state, cleanup | abstract here: a backend is somebody else's code |
| Adapter contract (`adapters/base.py`) | a connection | enter, setup, teardown, exit | abstract here too |
| Fixture server (`fixture_server.py`) | sessions by run id, a lock | create, get, replace, append, delete, close | a thread for each request; `create` copies without the lock |
| Verifier (`verifier.py`) | none | verify_task_evidence | pure; type coercions of `==`, values that are missing on one side or on both |
| Task validation (`validation.py`) | ids and verifier refs seen so far | discover, validate a file, validate a suite | one pass stands for a comparison of every two tasks; files that cannot be read in between |
| Evidence loading (`evidence.py`) | none | load, validate | pure |
| Command line (`cli.py`) | a count of failures | validate, verify, serve-fixtures | one exit status for many files and suites, each of which may raise |

How they interact: the harness calls backend, adapter and runner and awaits
each; the driver talks to the child through stdin and stdout and reads stderr
in a task of its own; the fixture server is reached over HTTP by whatever a
task's tools are. Two runs share the backend, and the runner object where it is
used twice. `validate` reads task files and a manifest from the disk; `verify`
reads a task and evidence and applies the verifier the harness applies.

What makes each part correct:

- Driver: no child is left behind; `completed_normally` is never a lie; what
  went wrong leaves an entry; every scripted approval is given at most once
  and recorded; every session ends.
- Harness: a tenant is leased and given back once, on every path; its final
  state is asked for before that; a verdict that missed a write is flagged;
  every run is answered.
- Fixture server: each request takes effect at one moment; no request waits
  for ever.
- A runner used again: never two children, never another session's output, and
  a leftover costs at most one refused session.
- Leases: no two runs at work in one tenant; an adapter gets execution handles
  only.
- Validation, verifier, command line: exit status 0 means what it says; what is
  missing never passes; the system's state, not the agent, decides a verdict.

## 2. Modules

| Module | What it is |
|---|---|
| `AgentRunnerContract` | abstract: the phases of one engine session, as `AgentRunner` promises them |
| `JsonlRunner` | the driver, its child and the event loop; implements `AgentRunnerContract` |
| `JsonlSession` | `JsonlRunner` with history variables; implements a session of `SharedRunner` |
| `JsonlRunnerProofs` | theorems about `JsonlRunner` and `JsonlSession` |
| `MCJsonlRunner`, `MCJsonlSession` | alphabets of lines and scripts for TLC |
| `RunLifecycle` | abstract: lease, evidence and answer of one run |
| `RunHarness` | `run` and `_execute_agent`, with any runner that keeps `AgentRunnerContract`; implements `RunLifecycle` |
| `RunHarnessProofs` | theorems about `RunHarness` |
| `MCRunHarness` | faults at every call |
| `FixtureStore` | abstract: a store whose requests take effect at one moment |
| `FixtureServer` | handler threads, the lock and the steps under it; implements `FixtureStore` |
| `FixtureServerProofs` | theorems about `FixtureServer` |
| `SharedRunner` | several sessions of one runner object, each as coarse as their sharing allows |
| `SharedRunnerProofs`, `MCSharedRunner` | theorems; symmetry of sessions |
| `Tenants` | several runs on one backend: leases, `validate`, `adapter_context`, cleanup |
| `TenantsProofs`, `MCTenants` | theorems; three leases and their grants |
| `Verifier` | the operators of `verifier.py` over JSON values |
| `VerifierProofs` | theorems about paths and what is missing |
| `TaskSuite` | `validate_task_suite`, one file at a time |
| `TaskSuiteProofs` | theorem about it |
| `CommandLine` | `validate` and `verify`, on top of `TaskSuite` and `Verifier` |
| `CommandLineProofs`, `MCCommandLine` | theorems; tasks, manifests and evidence |

The composition is by contract. `RunHarness` holds an instance of
`AgentRunnerContract` and takes its actions (`Runner!Start`, `Runner!Report`,
`Runner!Close`) with the steps of its own; `JsonlRunner` is checked to be such a
runner (`ImplementsContract`). The contract asks that the engine is gone when
teardown returns, and no sooner: a runner that stops its engine in teardown only keeps it
too, and `RunHarness` allows for one. So what is shown of the harness holds for the
reference driver, without the product of the two state spaces. That refinement
is checked for one cancellation and no line whose exception leaves `run`, and proved
for that and for any lines without a cancellation. Beyond it a second cancellation, or one
after such an exception, may cut teardown itself short with the child alive;
`RunHarness` has that case on its own account, as a cancelled `runnerTeardown`
that leaves the engine on.

`SharedRunner` is coarse about each session in the same way, and `JsonlSession`
shows that it may be: a run of the driver, whatever its lines, script, descendants and
cancellations, is a session of `SharedRunner` (`ImplementsSession`). What that module
remembers and the driver's state does not (the child that `run` reads, the child a stop
is for, the teardowns that were cut short) is kept in history variables.
What two sessions do to each other is then `SharedRunner`'s own.

Definitions marked "variant" in a module are not used by its next-state
relation. Each is a plausible slip in one definition (a lock not released, a
kill not waited for) kept to show that the property beside it notices.

### JsonlRunner and `jsonl_subprocess.py`

`pc` is the await the coroutine is suspended at (`Awaits`) or the step it takes
next (`Steps`). Between awaits Python runs without interruption, so a step of
the model is the code from one await to the next. One exception is deliberate:
`_send` in setup, `settle`, `conclude` and `stopSignal` are steps of their own,
which lets the child act between them and only adds behaviour.

| Code | Actions |
|---|---|
| `setup` 101-162 | SetupRejected, Spawn, SpawnChild, SendRun, SetupDrained, SendRunUnnoticed, SetupBroken |
| `consume` 181-259 | TakeNote, TakeReport, TakeBad, TakePoison, TakeFinal, TakeInput, ReplyDrained, ReplyBroken, TakeEof |
| `_match_scripted_event` 470-509 | Candidates, Match, Marked |
| `wait_for(consume())` 261-274 | RunTimeout, CancelStops, CancelSwallowed |
| the rest of `run` 276-333 | SettleFinal, FinalClosed, ExitSeen, ExitTimeout, SettleOpen, EarlyExit, Conclude, Return |
| `_stop_process` 402-416 | StopProcess, StopClosed, StopSignal, StopWaited, GraceExpired, StopReturn |
| `teardown` 335, as `_execute_agent` awaits it | Teardown |
| cancellation at any other await | CancelLeaves |
| child, descendants, operating system (not in `src`) | WriteLine, ReadStdin, CloseIn, CloseOut, Exit, Killed, Reap, DescendantsExit |

A stdout line is one of six kinds: "note" (message, tool_event, usage),
"report" (operational_error), "bad" (whatever `consume` records as malformed, an
overlong line included), "poison" (a line whose exception the except clauses do
not name), "input" and "final" with its flag and the state of the rest of the
event. `asyncio` is modelled by what Python 3.11 does: `Process.wait()` wakes a
waiter only once the exit is known *and* every pipe is disconnected, but
returns at once when the exit is known when it is called (`WaitDone`,
`WaitExit`, `GraceExpired`); a stream reader stops reading at its limit
(`Paused`); `wait_closed()` waits for buffered data (`Flushed`). A descendant may
hold any of the three pipes: stdout and stderr are not at their end while it does
(`OutHeld`, `ErrHeld`), and stdin can be written and is read as long as child or descendant
has it (`InHeld`). The driver's end of stdin is gone when no one holds the other, or
when it was closed and has been flushed (`InDone`). A write to a pipe no one can
read may pass unnoticed or raise; in setup `_send` may raise before it writes, too, on an
event that cannot be encoded (`SendFails`, `SetupBroken`). `wait_for` returns the
result of a `consume()` that has ended and forgets a cancellation that came in
the same turn of the loop (`CancelSwallowed`).

### RunHarness and `harness.py`

`pc` is the call that is awaited, `flight` the exception that finally clauses
run under. Each call has an action for its return (`Leased`,
`BundleSupported`, `RunnerReports`, ...), one for an exception (`...Fails`,
enabled for the calls in `Faults`), and a cancellation (`CancelCall` with the
table `Unwind`, or its own action where more happens). `phase` and `engine` are the
runner's session, `tenant`, `connection`, `world` what lies outside: the engine
writes to the tenant while it is on and the adapter's connection is up, also
when a failed teardown has left both behind.

### FixtureServer and `fixture_server.py`

`at[t]` is where handler thread `t` is. Acquiring and releasing the lock are steps;
under it a copy is two steps (`CopyObservations`, `CopyEvents`), and a change is
the membership test (`Found`) and the write (`Change`). `create` draws its run id before
it takes the lock (`Accept`) and copies what it inserted after it has released
it (`CopyOut`). A client knows a run id when an answer has told it; an answer
may be lost (`Lose`). A `deepcopy` may raise (`CopyFails`), in `create` before it takes the lock
or after it has released it, elsewhere under the lock, which `with` releases; no answer is
sent then, and `FixtureStore` has that as a request with no effect (`Fail`), or as one
that has taken effect and whose answer is lost. `Close` stops new connections; the handler threads go
on. The refinement mapping puts the moment a request takes effect where its
thread is about to release the lock.

### SharedRunner and `jsonl_subprocess.py`

One value of `pc` for each part of a session that touches what sessions share:
`spawning` is the await at 123, between the check at 102 and the assignment;
`sending` the rest of `setup`; `aborting` and `closing` the stop inside `setup`
or `run`, and inside `teardown`. `process` is `_process`, which may hold the child of
an earlier session; `run` captures it when it starts (`reads`), `_stop_process` when it is
called (`target`), as the local variables of the code do. A cancellation that `wait_for`
forgets is spent and leaves the session running (`Cancel`). `Width` is the number of
sessions that may be in progress: 1 is the use the harness makes of a runner
(one attempt after another), 2 two attempts at once.

### Tenants, `sandbox.py` and `harness.py`

A lease is an object the backend hands out, its own or any other's; `For` and
`Named` are its frozen fields, `grants` its three dicts, `usable` the conditions
that depend on the rest of it. `Refresh` changes the last two at any time.
`Leased` and `Rejected` are lines 60-63, `Connected` is `adapter_context`, which
validates again before it takes handles out; `CleanedUp` is the cleanup every
run does with what it was handed, its own lease or not. Run ids are distinct,
as those the harness draws are; a caller who passes one twice is on their own.

### TaskSuite, Verifier, CommandLine and the files on the disk

A path holds nothing, a task, or something that cannot be read
("unreadable": an `OSError` or no JSON, which is skipped or reported), decoded
("undecodable": `UnicodeDecodeError`, which is not caught) or used ("odd": JSON of
another shape, on which `.get` raises). A task is a record of what the
cross-checks look at, and one flag for what the schema says. `Check` is one turn of
the loop; `ids` and `refs` are its two dicts. A JSON value has one field that names
its kind; numbers and booleans are one kind, as `==` has it. A subject is the
sequence of its parts; a check that is no object, or whose subject is no text, has the
empty one, which the cross-checks skip as the code does, and which no valid task has. `CommandLine` runs over the files, then over the arguments, and
calls the suite check where there is a manifest; an exception that leaves `main` is
the exit status "raised".

## 3. Runs

| Run | Question | Bounds |
|---|---|---|
| `JsonlRunner_safety` | can a driver lie, lose a record, give an approval twice or leave a child behind a teardown that was not cut short? | 2 lines, each one of 10, lines whose exception leaves `run` among them; requests with 2 keys against a script of 3, 3 sizes of the run event (one fits the pipe, one only pipe and buffer, one neither), descendants on any of the three pipes, 2 cancellations |
| `JsonlRunner_session` | does it keep the contract, is it a session of `SharedRunner`, and does every session end, with no child left? | 2 lines, each one of 3 (malformed, a request, a well-formed final event), 3 sizes, descendants on any of the three pipes, 1 cancellation |
| `RunHarness_faults` | lease, observation, verdict and cleanup under failures; what can take a verdict away, or score an unsupported bundle; is every run answered and its tenant given back? | every call may raise, 2 cancellations, 2 writes of the agent |
| `FixtureServer_safety` | is every request atomic, also when copies raise, and does one ever wait for ever for the lock? | 2 threads, 1 session, 2 values, 4 requests |
| `SharedRunner_reuse` | what does a session leave to the next? | 4 sessions, one after another, 3 cancellations |
| `Tenants` | who works in whose tenant, with which handles? | 2 runs, 3 leases (one of each run, one without the run id in its namespace), 6 assignments of grants |
| `CommandLine` | what do the exit statuses mean? | 3 paths (two with one stem), 16 contents, 8 manifests, arguments that are the suite, a directory above it, a file, or a file and the suite; 5 states of the system and 3 claims, as final state and as baseline |

Why these are enough. Two lines put any line before any final event, and a
line after it; a run needs no third for any of the properties: two requests are more than the
script has events of one of the keys, and as many as it has of the other. Two
unequal units of stdin reach both waits (`drain` and `wait_closed`). Two writes
let one be seen and one missed. Two threads meet in every pair of operations,
and four requests let a session be created, changed, read and deleted; what two threads
do to one session does not depend on a third. Four sessions let two leftovers be met
and cleared. Two runs are what a wrong lease takes; a third changes nothing for
any two of them. Three paths give a duplicate with a file between its two, and an
unreadable one in the middle. The proofs of section 5 remove the bounds
from all safety properties.

The other five runs each show one statement of the documentation or the tests
that the code does not keep; section 6 lists them. That of the deaf child needs no
cancellation, no line and no descendant: its run event is one unit more than the pipe
holds, and less than makes `drain` wait.

## 4. Fairness

`Fairness` of `JsonlRunner` assumes weak fairness of

- the coroutine's steps (`Setup`, `Consume`, `Finish`, `Stop`, `Teardown`):
  the event loop runs a task that is ready, and a `wait_for` timer expires
  (`RunTimeout`, `ExitTimeout` and `GraceExpired` are among these actions);
- `Reap` and `Killed`: the operating system reports exits, and SIGKILL works.

These the code and its platform justify. Three more are assumptions about the
child, each named, because the code depends on it without enforcing it:
`ClosesThenExits` (a child that has closed its stdout exits), `ReadsStdin` (stdin is read as long as the
child or a descendant holds it), and `DescendantsLeave`. `DeafSpec` drops the second, and its
run shows a stop that comes with the task's timeout and never sends a signal; without the first the wait at `jsonl:289` has no end. A descendant that never leaves has the
same effect: it keeps stderr open, and the waits at `jsonl:391` and `jsonl:415`
have no limit. A fourth assumption is a bound: in `JsonlRunner_session` no more
is left unread than the stream reader buffers (`OutCap`); beyond that the
paused reader never sees its pipe closed, and `process.wait()` after a kill
(`jsonl:415`) does not return.

`RunHarness`: every call returns or raises (`WF(Harness)`), and a runner ends
its session (`WF(EngineEnds)`), which is what its teardown is for. No
single outcome of a call is fair. `FixtureServer`: threads run, and when the lock is free one of
the waiting threads gets it (weak fairness of `Acquire`); with finitely many
requests that is enough for every request to be answered, or to end with the exception
of a copy, and no fairness of the lock between threads is assumed. `threading.Lock` promises none.

The other modules state no fairness: what they promise are safety properties.

## 5. Proofs

TLAPS checks these theorems for every value of the constants.

`JsonlRunnerProofs`: `TypeCorrect`, `ReturnsReaped`, `FailuresTraced`,
`CompletionFaithful`, `ScriptHonoured`, `RecordsFaithful`, `TeardownComplete`,
`TeardownLeavesNothing`, `SignalsOrdered`, `ContractImplemented`, `SessionImplemented`.

- None of the properties is inductive. `ReturnedImpliesReaped` and
  `FailureLeavesTrace` rest on `ExitInv`: until `conclude` no signal was sent and,
  once there is a result, the child was reaped, with its exit code in
  the errors if there was a final event. `CompletedMeansCleanTranscript` rests on
  `TranscriptInv`, which ties `final`, `normal` and `errors` to the prefix of
  `log` that was taken. `ScriptOnce` rests on `ScriptInv`: `used` is the set of events
  given. `EventsFollowReplies` rests on `RecordInv`.
- `TeardownComplete` has a hypothesis, `Orderly`: no cancellation, or one and no line
  whose exception leaves `run`. It is needed: `LeftInv` says that a child comes to
  teardown only after the one cancellation, or where there is none (`Spent`), so that
  teardown's own stop runs undisturbed. A cancellation too many can leave that stop
  before it has sent a signal (`CancelLeaves`), and then a child is left.
- `TeardownLeavesNothing` needs no hypothesis: whatever lines, exceptions and
  cancellations came before, a teardown during which no cancellation arrives leaves neither
  child nor stderr task. It rests on `SignalInv`, which also says that the stderr task is
  there only with a child.
- `SignalsOrdered` rests on `SignalInv`: a stop has a child, has closed its stdin, and its
  grace period follows a signal. It needs no hypothesis.
- `ContractImplemented` is the refinement of `AgentRunnerContract`, under `Orderly`: its last
  step, the close of a session, is the contract's only if teardown left no child. Every
  step of the driver is a step of the contract, or leaves outcome, child and end as they
  were (`SameSession`).
- `SessionImplemented` is the refinement of `SharedRunner` with one session, for any
  lines and cancellations. Its invariant, `SessionInv`, ties the history to the state: what
  `run` reads and what a stop is for is the session's own child. A step that stays in one part
  of the session is a stutter (`SamePart`), one that enters another part is that part's
  action (`PartMoves`), and a cancellation is `Cancel` (`PartLeft`, `PartCancelled`).

`RunHarnessProofs`: `TypeCorrect`, `StaleVerdictsFlagged`, `CompletionEarned`,
`ReleasesObserved`, `VerdictLostWithTenant`, `IncompatibleFlagged`, `VerdictKept`,
`IncompatibleUnscored` and `LifecycleImplemented`, the refinement of `RunLifecycle`.
The inductive invariant has one part per idea: `StageInv` (where lease,
observation and verdict stand at each call), `SessionInv` (where the runner's
session stands), `StaleInv` (a connection that survived its teardown left an
error or an exception), `ObservedInv`, `VerdictInv` (a tenant is stuck only where cleanup
raised or a cancellation came) and `CompatInv` (once the bundle was found
unsupported there is an exception in flight, or an exit that raised has left an entry).
`VerdictKept` and `IncompatibleUnscored` are the other half of two disagreements of section 6:
`VerdictSurvivesCleanup` does hold if cleanup never raises and there is no cancellation, and
`IncompatibleNeverScored` does hold if the adapter's `__aexit__` never raises, whatever
else fails or is cancelled. Only the faults of the two violation runs, or a cancellation in the
case of the verdict, break them.

`FixtureServerProofs`: `TypeCorrect` and `StoreImplemented`, the refinement of
`FixtureStore` for any number of threads, sessions and values. The invariant is
`Mutex` (one thread inside, the holder), `Undisturbed` (a session found
under the lock stays as it was copied) and `Private` (a run id that is being
created belongs to one thread and no client knows it, which is why the copy
outside the lock is safe).

`SharedRunnerProofs`: `TypeCorrect`, `OneChildOnly`, `OwnChildOnly`, `TeardownClears`,
`RefusalsPaidFor`, for any number of sessions and cancellations and `Width = 1`. The
hypothesis is needed: with 2 the run `SharedRunner_overlap` has two children.
The invariant says that a child that is alive is the one `_process` holds, that only a
teardown that was cut short leaves one, and that each such leftover is paid for by one
refusal, after which nothing is alive.

`TenantsProofs`: `TypeCorrect`, `RunsIsolated`, `HandlesSeparated`, `TenantsStay`, for any
runs, leases and grants. The invariant is `Owned`: a run at work has a lease of its
own run id, and what was cleaned up is the lease of a run that is over. A lease whose
handles are unique gives the adapter none of another role's (`UniqueSeparates`).

`TaskSuiteProofs`: `SuitePassExact`. The invariant is `Pass`: the dicts hold the ids and refs
of the tasks the pass has come to, and there is no error exactly when these, compared
two by two, break no rule.

`VerifierProofs`: `PathsStayWithin`, for documents and paths of any depth: a path leads to
a value or to the sentinel for what is missing; what is missing stays missing however
the path goes on; and one part more finds something exactly when there was something
before it and the part is one of its keys, or an index within it. It rests on the lemma
`PathsCompose` (a path resolves in two parts as it does at once) and on what `Child` does
for each kind of value. `_resolve_path` is a loop, which `Walk` states as a function on the positions
of the path. That the function it names exists, and what it is at each position, is
shown by taking the least position at which it fails (`UpTo`), since the
induction theorems of the library take an operator, which the prover cannot pass.

`CommandLineProofs`: `TypeCorrect`, `ExitStatusExact`, `SuiteExactInCommand`,
`NothingMissingPasses` and `VerdictsRestOnState`, with `FilesInv` and `SuitesInv` for what
`failures = 0` means at each point of the two loops.

- `NothingMissingPasses` is about the values more than the loop: where the subject is
  missing only `not-exists` passes, no comparison passes on a missing reference or baseline,
  and `verify` exits with 0 only if every check passed.
- `VerdictsRestOnState` has a hypothesis, `ClaimsNamed`: a subject below `agent` has the
  prefix `agent.output.` that `validation.py:103` looks for. It is needed: without it the run
  `CommandLine_claims_only` has a task that looks at `agent.output` as a whole. With
  it, a task that was accepted has a check that looks elsewhere. What that check finds does
  not depend on the claim (`BesideTheAgent`), and it cannot pass both where its subject is and
  where it is not (`OneOrTheOther`); `WorldsAssumption` says that the states considered
  include the empty one and, for each such subject, one that has it.

Assumptions on constants are the `ASSUME`s of the modules: bounds are natural
numbers, lines and faults come from their alphabets, the answers of the store
are distinguishable, paths are distinct, the numbers and flags of a task are
numbers and flags, what a JSON value holds is one too, and none is the sentinel for
what is missing (`JsonAssumption`), and a session is told from none (`MeAssumption`).

Only model-checked: liveness (`SessionsEnd`, `RunsAnswered`, `RequestsEnd`), since the prover
does not do liveness under fairness. Every safety property
of a passing run has a theorem.

## 6. Where code and documents disagree

| Run | The document | The code |
|---|---|---|
| `JsonlRunner_deaf_child` | terminate, kill, always reap (`docs/jsonl-subprocess-runner.md:87-89`) | when the task timeout expires on a child that does not read its stdin, `jsonl:400` waits for a flush before it sends any signal |
| `RunHarness_cleanup_raises` | cleanup failure does not rewrite the verdict (`docs/sandbox-and-tenancy.md:58`) | `harness.py:144` lets the exception replace the result |
| `RunHarness_exit_masks` | an unsupported transport is rejected (`tests/test_sandbox_harness.py:210`) | an adapter's `__aexit__` that raises replaces that error, and `harness.py:103` catches what is left |
| `SharedRunner_overlap` | "runner already has an active child process" (`jsonl:103`); one process per run, reaped (`runners/README.md:20-22`) | the check at 102 is an await before the assignment at 123: two sessions at once both pass |
| `CommandLine_claims_only` | "verifier must include an independent state check" (`validation.py:106`, `verifiers/README.md:11`) | `validation.py:103` looks for the prefix `agent.output.`; a task that checks `agent.output` passes on claims alone |

In the first every assumption of section 4 but `ReadsStdin` holds. Setup has gone on, since
the part of the run event that is left in the buffer is below the high-water mark;
`RunTimeout` has recorded the timeout; and the stop stays at `stopClose` with
`sig = "none"` for ever.

Seen while modelling, and in the models, with no run of its own:

- `jsonl:289` waits without a limit for the exit of a child that closed its stdout
  without a final event (`ClosesThenExits` assumes that it exits).
- `jsonl:369` waits without a limit in setup, before the task timeout counts, for a child
  that does not read a large run event (`SendRun`, `setupDrain`; `ReadsStdin` assumes that it
  is read). A cancellation there comes to the wait at `jsonl:400`.
- `jsonl:288` adds an early-exit entry only if there is no other error, those the child
  reported included (`SettleOpen`); `docs/jsonl-subprocess-runner.md:83-84` has no such exception.
  Some entry is there all the same (`FailureLeavesTrace`).
- `jsonl:464` raises `OverflowError` for a huge integer; the exception leaves `run` and the
  transcript is lost (`TakePoison`), where lines 83-85 of that document promise an
  entry. The child is stopped by teardown (`TeardownReaps`).
- `harness.py:142` cleans up a lease that was rejected because it is another run's
  (`Rejected`), while `docs/sandbox-and-tenancy.md:52` has cleanup constrained to the
  run's namespace. `TenantStays` says when that hurts.
- `cli.py:89` does not catch the `TypeError` of `contains` on a dict with an expected list
  (`Raises`), nor `cli.py:80` what an undecodable file raises (`TaskRaises`).
- `cli.py:61` looks for a manifest in the directory named, so a directory above the suite is
  validated without the cross-checks; `validation.py:109` is content with any operator on
  the blocking prerequisite, `not-exists` included.

## 7. Not modelled

- Redaction, fingerprints, message contents and metric values.
- The stderr task between two sessions of one runner.
- How a backend provisions: the model takes it as all or nothing, though a
  cancelled `provision` of a real backend may have allocated a tenant.
- The text of namespaces: `sandbox.py:52` asks that one contain the run id, which may
  be part of a longer run id.
- `runner.supports` and `missing_capabilities` are taken not to raise.
- HTTP requests that are refused before they reach the store (health, unknown
  paths, bodies that are not JSON objects or too large): they change nothing.
  The read of a body has no timeout, but holds no lock.
- What JSON Schema says of a document; argument parsing; printing.
- Files that change between two reads of one `validate` or `verify`.
- Path parts that `isdigit` accepts and `int` does not (superscripts), and NaN.
- Retries of a client of the fixture server: the repository has no such client.
- Adapters: there is none in the repository, only the contract.

## 8. Plan

Done: driver, harness, fixture server, a runner used again, runs on one backend,
validation, verifier and command line; a theorem for every safety property of a passing
run; the refinements of the runner's contract, the run's lifecycle, the shared runner's
session and the fixture store.
Left: that sessions whose parts are refined one by one compose into the runs of `SharedRunner`
with more than one session, as one refinement instead of two arguments.

---- MODULE JsonlRunner ----
(***************************************************************************)
(* The driver of one agent engine process: JsonlSubprocessRunner.setup,    *)
(* run and teardown, called in the order _execute_agent calls them.  The   *)
(* driver is a coroutine; every await of it is a value of pc at which the  *)
(* child process, the event loop's timers and a cancellation interleave.   *)
(***************************************************************************)
EXTENDS Naturals, Sequences

CONSTANTS
    Keys,       \* the (when, event_type) pairs of scripted user events
    Script,     \* scripted_user_events of the task, in order
    Lines,      \* the stdout lines this child may write, a subset of LineSpace
    MaxLines,   \* bound: stdout lines written in one run
    OutCap,     \* lines the stream reader buffers before it stops reading
    RunSizes,   \* sizes of the run event, in units of stdin data
    PipeCap,    \* units an unread stdin pipe holds
    HighWater,  \* units buffered by the transport beyond which drain() waits
    Inherits,   \* pipes a descendant of the child may keep open
    MaxCancels  \* bound: cancellations of the harness task

LineSpace ==
    [kind : {"note", "report", "bad", "poison"}]
      \cup [kind : {"input"}, key : Keys]
      \cup [kind : {"final"}, normal : BOOLEAN, body : {"ok", "bad", "poison"}]

ASSUME KeysAssumption == Script \in Seq(Keys)
ASSUME LinesAssumption == Lines \subseteq LineSpace
ASSUME BoundsAssumption == {MaxLines, OutCap, PipeCap, HighWater, MaxCancels} \subseteq Nat
ASSUME SizesAssumption == RunSizes \subseteq Nat
ASSUME InheritsAssumption == Inherits \subseteq {"stdin", "stdout", "stderr"}

VARIABLES
    \* the coroutine
    pc,         \* the await it is suspended at, or the step it is about to take
    ret,        \* who called _stop_process: run's end, an except clause, teardown
    outcome,    \* how setup/run ended
    completed,  \* AgentRunResult.completed_normally
    cancels,    \* cancellations so far
    draining,   \* the stderr task exists and has not been awaited
    \* what run() has collected
    taken,      \* stdout lines consumed
    final,      \* final_received
    normal,     \* child_completed_normally
    errors,     \* codes in operational_errors
    used,       \* used_scripted_events
    replies,    \* user_event responses handed to stdin, in order
    events,     \* scripted_user_event records appended to events
    \* the child process and its pipes
    child,      \* its life; "reaped" once process.returncode is set
    code,       \* its exit code, 1 for any other than 0
    sig,        \* the strongest signal the driver sent
    log,        \* all lines written to stdout
    outOpen,    \* the child has its end of stdout open
    held,       \* pipes a descendant keeps open
    inOpen,     \* the child has its end of stdin open
    unread,     \* stdin units written by the driver and not read
    closing     \* the driver has closed its end of stdin

flow == <<pc, ret, outcome, completed, cancels>>
seen == <<taken, final, normal, errors, used, replies, events>>
proc == <<child, code, log, outOpen, held, inOpen>>
vars == <<flow, draining, seen, proc, sig, unread, closing>>

Awaits == {"setupSpawn", "setupDrain", "consume", "reply", "closeFinal", "waitFinal", "waitEof",
           "stderr", "stopClose", "stopGrace", "stopKill", "stopStderr"}
Steps == {"idle", "setupSend", "settle", "conclude", "stopSignal", "ended", "done"}

Reply == [key : Keys, event : 0 .. Len(Script)]

DataOK ==
    /\ pc \in Awaits \cup Steps
    /\ ret \in {"result", "except", "teardown"}
    /\ outcome \in {"none", "returned", "raised", "cancelled"}
    /\ cancels \in 0 .. MaxCancels
    /\ log \in Seq(Lines)
    /\ taken \in 0 .. Len(log)
    /\ errors \subseteq {"reported", "malformed-jsonl-event", "protocol-io-error", "timeout",
                         "exit-timeout", "early-exit", "nonzero-exit"}
    /\ used \subseteq 1 .. Len(Script)
    /\ replies \in Seq(Reply) /\ events \in Seq(Reply)
    /\ child \in {"none", "alive", "exited", "reaped"}
    /\ code \in {0, 1}
    /\ sig \in {"none", "term", "kill"}
    /\ held \subseteq Inherits
    /\ unread \in Nat

FlagsOK ==
    /\ completed \in BOOLEAN /\ draining \in BOOLEAN
    /\ final \in BOOLEAN /\ normal \in BOOLEAN
    /\ outOpen \in BOOLEAN /\ inOpen \in BOOLEAN /\ closing \in BOOLEAN

TypeOK == DataOK /\ FlagsOK

Init ==
    /\ pc = "idle" /\ ret = "result" /\ outcome = "none" /\ completed = FALSE /\ cancels = 0
    /\ draining = FALSE
    /\ taken = 0 /\ final = FALSE /\ normal = FALSE /\ errors = {}
    /\ used = {} /\ replies = <<>> /\ events = <<>>
    /\ child = "none" /\ code = 0 /\ sig = "none" /\ log = <<>>
    /\ outOpen = FALSE /\ held = {} /\ inOpen = FALSE /\ unread = 0 /\ closing = FALSE

-----------------------------------------------------------------------------
(* What the event loop knows of the child and of its pipes.                *)

Reaped == child = "reaped"
OutHeld == outOpen \/ "stdout" \in held
ErrHeld == child = "alive" \/ "stderr" \in held
Paused == Len(log) - taken > OutCap
InHeld == inOpen \/ "stdin" \in held
\* nothing is left in the transport: it is in the pipe, or no one can read it any more
Flushed == ~InHeld \/ unread <= PipeCap
\* the driver's end of stdin is gone: broken, or closed and flushed
InDone == ~InHeld \/ (closing /\ Flushed)
\* Process.wait() wakes a waiter once the exit is known and every pipe is disconnected
WaitDone == Reaped /\ ~OutHeld /\ ~Paused /\ ~ErrHeld /\ InDone
\* drain() waits once the transport holds more than its high-water mark
Waits(units) == units > PipeCap + HighWater
StderrDone == ~draining \/ ~ErrHeld

\* the coroutine goes on to its next step, and no more
Goes(next) ==
    pc' = next /\ UNCHANGED <<ret, outcome, completed, cancels, draining, seen, proc, sig,
                              unread, closing>>
\* it appends an entry to operational_errors on the way
Fails(error, next) ==
    /\ pc' = next /\ errors' = errors \cup {error}
    /\ UNCHANGED <<ret, outcome, completed, cancels, draining, taken, final, normal, used,
                   replies, events, proc, sig, unread, closing>>

-----------------------------------------------------------------------------
(* _stop_process, called by run's end, by except clauses and by teardown.  *)

\* _close_stdin returns at once when the pipe is closed, and waits for a flush otherwise
StopProcess(caller) ==
    /\ ret' = caller /\ closing' = TRUE
    /\ pc' = IF closing \/ ~InHeld THEN "stopSignal" ELSE "stopClose"

Abort(how) == outcome' = how /\ StopProcess("except") /\ UNCHANGED <<completed, draining>>

StopClosed == pc = "stopClose" /\ Flushed /\ Goes("stopSignal")

Signals(signal, next) ==
    /\ sig' = signal /\ pc' = next
    /\ UNCHANGED <<ret, outcome, completed, cancels, draining, seen, proc, unread, closing>>

\* variant: kill without a terminate
KillAtOnce ==
    pc = "stopSignal" /\ IF Reaped THEN Goes("stopStderr") ELSE Signals("kill", "stopGrace")

StopSignal ==
    /\ pc = "stopSignal"
    /\ IF Reaped THEN Goes("stopStderr")
       ELSE Signals(IF sig = "none" THEN "term" ELSE sig, "stopGrace")

StopWaited == pc \in {"stopGrace", "stopKill"} /\ WaitDone /\ Goes("stopStderr")

\* variants: no wait after kill; a wait without a kill
KilledUnseen ==
    pc = "stopGrace" /\ IF Reaped THEN Goes("stopStderr") ELSE Signals("kill", "stopStderr")
TerminatedOnly == pc = "stopGrace" /\ Goes(IF Reaped THEN "stopStderr" ELSE "stopKill")

\* the grace period ends: kill, and a wait that returns at once when the exit is known
GraceExpired ==
    pc = "stopGrace" /\ IF Reaped THEN Goes("stopStderr") ELSE Signals("kill", "stopKill")

StopReturn ==
    /\ pc = "stopStderr" /\ StderrDone
    /\ draining' = FALSE
    /\ pc' = IF ret = "result" THEN "stderr" ELSE IF ret = "except" THEN "ended" ELSE "done"
    /\ UNCHANGED <<ret, outcome, completed, cancels, seen, proc, sig, unread, closing>>

Stop == StopClosed \/ StopSignal \/ StopWaited \/ GraceExpired \/ StopReturn

-----------------------------------------------------------------------------
(* setup.                                                                  *)

\* the active-child and workspace checks; the command cannot be started
SetupRejected ==
    /\ pc \in {"idle", "setupSpawn"} /\ pc' = "ended" /\ outcome' = "raised"
    /\ UNCHANGED <<ret, completed, cancels, draining, seen, proc, sig, unread, closing>>

Spawn == pc = "idle" /\ Goes("setupSpawn")

SpawnChild ==
    /\ pc = "setupSpawn" /\ pc' = "setupSend"
    /\ child' = "alive" /\ outOpen' = TRUE /\ inOpen' = TRUE /\ draining' = TRUE
    /\ held' \in SUBSET Inherits
    /\ UNCHANGED <<ret, outcome, completed, cancels, seen, code, log, sig, unread, closing>>

SendRun ==
    /\ pc = "setupSend" /\ InHeld
    /\ unread' \in RunSizes
    /\ pc' = IF Waits(unread') THEN "setupDrain" ELSE "consume"
    /\ UNCHANGED <<ret, outcome, completed, cancels, draining, seen, proc, sig, closing>>

SetupDrained == pc = "setupDrain" /\ Flushed /\ Goes("consume")

\* a write to a pipe no one can read may go unnoticed, or raise
SendRunUnnoticed == pc = "setupSend" /\ ~InHeld /\ Goes("consume")

\* _send raises: before it writes, on an event it cannot encode, or on a broken pipe
SendFails == pc = "setupSend" \/ (pc = "setupDrain" /\ ~InHeld)

\* variant: setup leaves the child to teardown
SetupGivesUp ==
    /\ SendFails
    /\ pc' = "ended" /\ outcome' = "raised"
    /\ UNCHANGED <<ret, completed, cancels, draining, seen, proc, sig, unread, closing>>

SetupBroken ==
    SendFails /\ Abort("raised") /\ UNCHANGED <<cancels, seen, proc, sig, unread>>

Setup == \/ SetupRejected \/ Spawn \/ SpawnChild \/ SendRun \/ SetupDrained
         \/ SendRunUnnoticed \/ SetupBroken

-----------------------------------------------------------------------------
(* consume(), cancelled by wait_for when the task's timeout expires.       *)

Take(line) == pc = "consume" /\ taken < Len(log) /\ line = log[taken + 1] /\ taken' = taken + 1

Quiet == UNCHANGED <<ret, completed, cancels, draining, proc, sig, closing>>
NoInput == UNCHANGED <<used, replies, events, unread>> /\ Quiet

\* message, tool_event, usage
TakeNote ==
    Take([kind |-> "note"]) /\ UNCHANGED <<pc, outcome, final, normal, errors>> /\ NoInput

\* operational_error
TakeReport ==
    /\ Take([kind |-> "report"]) /\ errors' = errors \cup {"reported"}
    /\ UNCHANGED <<pc, outcome, final, normal>> /\ NoInput

Malformed == errors \cup {"malformed-jsonl-event"}

TakeBad ==
    /\ Take([kind |-> "bad"]) /\ errors' = Malformed /\ pc' = "settle"
    /\ UNCHANGED <<outcome, final, normal>> /\ NoInput

\* an exception that the except clauses of consume() do not name leaves run()
TakePoison ==
    /\ Take([kind |-> "poison"]) /\ pc' = "ended" /\ outcome' = "raised"
    /\ UNCHANGED <<final, normal, errors>> /\ NoInput

\* the flags are set before the rest of the final event is checked
TakeFinal ==
    \E n \in BOOLEAN, body \in {"ok", "bad", "poison"} :
      /\ Take([kind |-> "final", normal |-> n, body |-> body])
      /\ final' = TRUE /\ normal' = n
      /\ errors' = IF body = "bad" THEN Malformed ELSE errors
      /\ IF body = "poison" THEN pc' = "ended" /\ outcome' = "raised"
         ELSE pc' = "settle" /\ UNCHANGED outcome
      /\ NoInput

(* _match_scripted_event: the candidates, and the choice of the first.     *)
\* variant: an event already given may be given again
CandidatesReused(key) == {i \in 1 .. Len(Script) : Script[i] = key}

Candidates(key) == {i \in 1 .. Len(Script) : i \notin used /\ Script[i] = key}

Match(key, i) ==
    \/ Candidates(key) = {} /\ i = 0
    \/ i \in Candidates(key) /\ \A j \in Candidates(key) : i <= j

\* variant: None is added to the used indices when nothing matched
MarkedAlways(i) == used \cup {i}
Marked(i) == used \cup ({i} \ {0})

\* an event is marked used before the response is sent, and recorded after
TakeInput ==
    \E key \in Keys, i \in 0 .. Len(Script) :
      LET reply == [key |-> key, event |-> i]
      IN /\ Take([kind |-> "input", key |-> key]) /\ Match(key, i)
         /\ used' = Marked(i) /\ replies' = Append(replies, reply)
         /\ unread' = IF InHeld THEN unread + 1 ELSE unread
         /\ \/ /\ InHeld /\ Waits(unread') /\ pc' = "reply"
               /\ UNCHANGED <<errors, events>>
            \/ /\ InHeld => ~Waits(unread')
               /\ events' = Append(events, reply) /\ UNCHANGED <<pc, errors>>
            \/ /\ ~InHeld /\ pc' = "settle"
               /\ errors' = errors \cup {"protocol-io-error"} /\ UNCHANGED events
         /\ UNCHANGED <<outcome, final, normal>> /\ Quiet

\* variant: a response that had to wait is not recorded
ReplyForgotten == pc = "reply" /\ Flushed /\ Goes("consume")

ReplyDrained ==
    /\ pc = "reply" /\ Flushed
    /\ pc' = "consume" /\ events' = Append(events, replies[Len(replies)])
    /\ UNCHANGED <<outcome, taken, final, normal, errors, used, replies, unread>> /\ Quiet

ReplyBroken == pc = "reply" /\ ~InHeld /\ Fails("protocol-io-error", "settle")

TakeEof == pc = "consume" /\ taken = Len(log) /\ ~OutHeld /\ Goes("settle")

RunTimeout == pc \in {"consume", "reply"} /\ Fails("timeout", "settle")

Consume == \/ TakeNote \/ TakeReport \/ TakeBad \/ TakePoison \/ TakeFinal \/ TakeInput
           \/ ReplyDrained \/ ReplyBroken \/ TakeEof \/ RunTimeout

-----------------------------------------------------------------------------
(* The rest of run: after a final event close stdin and wait for the exit  *)
(* during the grace period; with neither a final event nor an error wait   *)
(* for the exit without a limit; then stop the child and build the result. *)

\* a wait on a child whose exit is known returns at once
WaitExit == IF Reaped THEN "conclude" ELSE "waitFinal"

SettleFinal ==
    /\ pc = "settle" /\ final
    /\ closing' = TRUE
    /\ pc' = IF closing \/ ~InHeld THEN WaitExit ELSE "closeFinal"
    /\ UNCHANGED <<ret, outcome, completed, cancels, draining, seen, proc, sig, unread>>

SettleOpen ==
    /\ pc = "settle" /\ ~final
    /\ IF errors # {} THEN Goes("conclude")
       ELSE IF Reaped THEN Fails("early-exit", "conclude") ELSE Goes("waitEof")

FinalClosed == pc = "closeFinal" /\ Flushed /\ Goes(WaitExit)

ExitSeen == pc = "waitFinal" /\ WaitDone /\ Goes("conclude")

ExitTimeout == pc = "waitFinal" /\ Fails("exit-timeout", "conclude")

EarlyExit == pc = "waitEof" /\ WaitDone /\ Fails("early-exit", "conclude")

\* variants: a child that overran the grace period is left alone; the exit code
\* matters only beside another error
MustStopInTime == ~Reaped /\ "exit-timeout" \notin errors
ExitErrorsToo == IF final /\ Reaped /\ code # 0 /\ errors # {} THEN {"nonzero-exit"} ELSE {}

MustStop == ~Reaped
ExitErrors == IF final /\ Reaped /\ code # 0 THEN {"nonzero-exit"} ELSE {}

Conclude ==
    /\ pc = "conclude"
    /\ errors' = errors \cup ExitErrors
    /\ IF MustStop THEN StopProcess("result")
       ELSE pc' = "stderr" /\ UNCHANGED <<ret, closing>>
    /\ UNCHANGED <<outcome, completed, cancels, draining, proc, sig, unread,
                   taken, final, normal, used, replies, events>>

\* variant: failures the child reported do not count
CompletedDespiteReports == final /\ normal /\ errors \subseteq {"reported"}

CompletedNormally == final /\ normal /\ errors = {}

Return ==
    /\ pc = "stderr" /\ StderrDone
    /\ pc' = "ended" /\ outcome' = "returned" /\ completed' = CompletedNormally
    /\ draining' = FALSE
    /\ UNCHANGED <<ret, cancels, seen, proc, sig, unread, closing>>

Finish == \/ SettleFinal \/ SettleOpen \/ FinalClosed \/ ExitSeen \/ ExitTimeout
          \/ EarlyExit \/ Conclude \/ Return

\* _execute_agent awaits teardown however setup or run ended
Teardown ==
    /\ pc = "ended"
    /\ IF child = "none" THEN pc' = "done" /\ UNCHANGED <<ret, closing>>
       ELSE StopProcess("teardown")
    /\ UNCHANGED <<outcome, completed, cancels, draining, seen, proc, sig, unread>>

-----------------------------------------------------------------------------
(* A cancellation of the harness task reaches the await it is at.          *)

Cancelled == cancels < MaxCancels /\ cancels' = cancels + 1

CancelStops ==
    /\ pc \in {"setupDrain", "consume", "reply"} /\ Cancelled
    /\ Abort("cancelled") /\ UNCHANGED <<seen, proc, sig, unread>>

\* variant: nothing runs after a cancelled await
CancelAbandons ==
    /\ pc \in Awaits \ {"setupDrain", "consume", "reply"} /\ Cancelled
    /\ outcome' = "cancelled" /\ pc' = "done"
    /\ UNCHANGED <<ret, completed, draining, seen, proc, sig, unread, closing>>

\* at any other await it propagates; a cancelled wait for stderr cancels the stderr task,
\* and asyncio kills and reaps a child that is being spawned
CancelLeaves ==
    /\ pc \in Awaits \ {"setupDrain", "consume", "reply"} /\ Cancelled
    /\ outcome' = "cancelled"
    /\ pc' = IF ret = "teardown" THEN "done" ELSE "ended"
    /\ draining' = (draining /\ pc \notin {"stderr", "stopStderr"})
    /\ UNCHANGED <<ret, completed, seen, proc, sig, unread, closing>>

\* wait_for returns the result of a consume() that has ended, and forgets the cancellation
CancelSwallowed ==
    /\ pc = "settle" /\ Cancelled
    /\ UNCHANGED <<pc, ret, outcome, completed, draining, seen, proc, sig, unread, closing>>

Cancel == CancelStops \/ CancelLeaves \/ CancelSwallowed

-----------------------------------------------------------------------------
(* The child, its descendants and the operating system.                    *)

OsKeeps == UNCHANGED <<flow, draining, seen, sig, closing>>

WriteLine ==
    /\ OutHeld /\ Len(log) < MaxLines /\ ~Paused
    /\ \E line \in Lines : log' = Append(log, line)
    /\ UNCHANGED <<child, code, outOpen, held, inOpen, unread>> /\ OsKeeps

ReadStdin == InHeld /\ unread > 0 /\ unread' = unread - 1 /\ UNCHANGED proc /\ OsKeeps

CloseIn ==
    inOpen /\ inOpen' = FALSE /\ UNCHANGED <<child, code, log, outOpen, held, unread>> /\ OsKeeps

CloseOut ==
    outOpen /\ outOpen' = FALSE /\ UNCHANGED <<child, code, log, held, inOpen, unread>> /\ OsKeeps

Dies(c) ==
    /\ child = "alive"
    /\ child' = "exited" /\ code' = c /\ outOpen' = FALSE /\ inOpen' = FALSE
    /\ UNCHANGED <<log, held, unread>> /\ OsKeeps

Exit == \E c \in {0, 1} : Dies(c)
Killed == sig = "kill" /\ Dies(1)

\* the child watcher sets process.returncode
Reap ==
    /\ child = "exited" /\ child' = "reaped"
    /\ UNCHANGED <<code, log, outOpen, held, inOpen, unread>> /\ OsKeeps

DescendantsExit ==
    held # {} /\ held' = {} /\ UNCHANGED <<child, code, log, outOpen, inOpen, unread>> /\ OsKeeps

Os == \/ WriteLine \/ ReadStdin \/ CloseIn \/ CloseOut \/ Exit \/ Killed \/ Reap
      \/ DescendantsExit

-----------------------------------------------------------------------------
Driver == Setup \/ Consume \/ Finish \/ Stop \/ Teardown

Finished == pc = "done" /\ UNCHANGED vars

Next == Driver \/ Cancel \/ Os \/ Finished

Spec == Init /\ [][Next]_vars

-----------------------------------------------------------------------------
(* Fairness.  The coroutine takes its steps, its timers expire, the        *)
(* operating system delivers exits and kill.  What a child and its         *)
(* descendants do is an assumption of its own.                             *)

DriverFairness ==
    /\ WF_vars(Setup) /\ WF_vars(Consume) /\ WF_vars(Finish) /\ WF_vars(Stop)
    /\ WF_vars(Teardown) /\ WF_vars(Reap) /\ WF_vars(Killed)

\* a child that has closed its stdout exits
ClosesThenExits == WF_vars(~outOpen /\ Exit)
\* stdin is read as long as the child or a descendant has it open
ReadsStdin == WF_vars(ReadStdin)
\* descendants do not outlive a child for ever
DescendantsLeave == WF_vars(child # "alive" /\ DescendantsExit)

Fairness == DriverFairness /\ ClosesThenExits /\ ReadsStdin /\ DescendantsLeave
DeafSpec == Spec /\ DriverFairness /\ ClosesThenExits /\ DescendantsLeave

-----------------------------------------------------------------------------
(* Properties.                                                             *)

\* A result is handed out only for a child whose exit the event loop has
\* collected: run:307-309 stops whatever is still there first.
ReturnedImpliesReaped == outcome = "returned" => Reaped

\* A result with no entry in operational_errors stands for a child that sent
\* a final event, exited with code 0 and was never signalled: every other end
\* leaves a trace (run:276-309).
FailureLeavesTrace ==
    outcome = "returned" /\ errors = {} => final /\ code = 0 /\ sig = "none"

\* completed_normally is TRUE only for a transcript that ends, where reading
\* stopped, with a well-formed final event that says so, after lines that are
\* neither malformed nor failure reports (consume and run:317).
CompletedMeansCleanTranscript ==
    completed =>
      /\ taken > 0 /\ log[taken] = [kind |-> "final", normal |-> TRUE, body |-> "ok"]
      /\ \A i \in 1 .. taken - 1 : log[i].kind \in {"note", "input"}

\* Each scripted event answers at most one request, one it matches, and in the
\* order of the script; a request goes unanswered only when every event it
\* matches has been given (_match_scripted_event and docs/jsonl-subprocess-runner.md:73).
Given(n) == {replies[m].event : m \in 1 .. n - 1}
Left(n) == {i \in (1 .. Len(Script)) \ Given(n) : Script[i] = replies[n].key}
ScriptOnce ==
    \A n \in 1 .. Len(replies) :
      IF replies[n].event = 0 THEN Left(n) = {}
      ELSE replies[n].event \in Left(n) /\ \A i \in Left(n) : replies[n].event <= i

\* The approvals run() records are the responses it sent, in order; at most the
\* last one is missing, and then its send is pending or the run was cut short
\* by an I/O error, the timeout or a cancellation (consume:212-219).
LastUnrecorded ==
    replies # <<>> /\ events = SubSeq(replies, 1, Len(replies) - 1)
EventsFollowReplies ==
    \/ events = replies
    \/ /\ LastUnrecorded
       /\ \/ pc = "reply" \/ outcome = "cancelled"
          \/ errors \cap {"protocol-io-error", "timeout"} # {}

\* When teardown is over no child is left and its stderr task has been awaited,
\* after any setup and run that a single cancellation interrupts anywhere, or an
\* exception leaves (_stop_process; docs/jsonl-subprocess-runner.md:87-89).
EndsReaped == pc = "done" => child \in {"none", "reaped"} /\ ~draining

\* A teardown that is not itself cut short leaves no child and no stderr task,
\* whatever the session went through: any number of cancellations, lines that
\* make run() raise, descendants that hold the pipes (teardown, _stop_process).
TeardownReaps ==
    [][pc # "done" /\ pc' = "done" /\ cancels' = cancels
         => child' \in {"none", "reaped"} /\ ~draining']_vars

\* Signals follow the documented order: stdin is closed before terminate is
\* sent, and kill follows a terminate (_stop_process:406-414).
SignalsInOrder ==
    [][sig' # sig => closing /\ child # "none"
                     /\ (sig' = "kill" => sig = "term")]_vars

\* A task timeout is followed by terminate, by kill if that is necessary, and by
\* the reaping of the child (docs/jsonl-subprocess-runner.md:87-89, run:274-275 and
\* 307-309).
TimeoutReaps == "timeout" \in errors ~> Reaped

-----------------------------------------------------------------------------
(* The runner implements the contract of AgentRunner.                      *)

Phase ==
    CASE pc = "done" -> "closed"
      [] pc # "done" /\ outcome = "returned" -> "reported"
      [] pc # "done" /\ outcome \in {"raised", "cancelled"} -> "failed"
      [] outcome = "none" -> IF child = "none" THEN "new" ELSE "active"

Engine == CASE child = "none" -> "off" [] Reaped -> "gone" [] OTHER -> "on"

Contract == INSTANCE AgentRunnerContract WITH phase <- Phase, engine <- Engine

\* The runner takes only steps the contract allows: it starts an engine once, reports
\* one session at most, and closes when no engine is running (setup, run, teardown).
ImplementsContract == Contract!Spec

\* With a child that cooperates, every session is carried to its end.
SessionsEnd == Contract!FairSpec
====
